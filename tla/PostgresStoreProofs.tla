------------------------ MODULE PostgresStoreProofs ------------------------
(***************************************************************************)
(* Theorems about PostgresStore for all events, tokens and rows, and for   *)
(* every bound on calls and faults.  The inductive invariant adds to the   *)
(* types what a call in flight relies on between two of its statements.    *)
(***************************************************************************)
EXTENDS PostgresStore, Integers, FiniteSetTheorems, WellFoundedInduction, TLAPS

(* What a client still has to run. *)
EventTodo == {<<"token", "discovered">>, <<"token", "trade">>, <<"token", "lifecycle">>,
              <<"discovered">>, <<"trade">>, <<"lifecycle">>}
StateTodo == {<<"supersede", "snapshot", "current">>, <<"snapshot", "current">>,
              <<"current">>}
Statements == {"token", "discovered", "trade", "lifecycle", "supersede", "snapshot",
               "assessment", "vector", "transition", "current"}
CallRecord == [todo : Seq(Statements), cache : Caches \cup {"none"}, token : Tokens,
               row : Events \cup Shots \cup Times \cup {0}, id : Nat]

EventCall(c) ==
  /\ c = "pipeline" /\ call[c].cache = "none" /\ call[c].todo \in EventTodo
  /\ call[c].row \in DOMAIN raw_events
  /\ raw_events[call[c].row].status = "canonical"
  /\ call[c].token = TokenOf[call[c].row]
  /\ call[c].todo \in {<<"discovered">>, <<"trade">>, <<"lifecycle">>} =>
       call[c].token \in tokens

StateCall(c) == /\ call[c].cache = "state" /\ call[c].todo \in StateTodo
                /\ call[c].row \in Shots
SecurityCall(c) == /\ call[c].cache = "security"
                   /\ call[c].todo \in {<<"assessment", "current">>, <<"current">>}
FeatureCall(c) == /\ call[c].cache = "features"
                  /\ call[c].todo \in {<<"vector", "current">>, <<"current">>}
                  /\ call[c].row \in Times
CandidateCall(c) == /\ call[c].cache = "candidate"
                    /\ call[c].todo \in {<<"transition", "current">>, <<"current">>}

(* A call in flight is one the engine makes, and the id it carries is that *)
(* of a row of its token.                                                  *)
CallOK(c) ==
  call[c] # Idle =>
    /\ call[c] \in CallRecord
    /\ \/ EventCall(c) \/ StateCall(c) \/ SecurityCall(c) \/ FeatureCall(c)
       \/ CandidateCall(c)
    /\ call[c].todo = <<"current">> =>
         call[c].id \in RowsOf(call[c].cache, call[c].token)

Flying(c, cache, t) == call[c] # Idle /\ call[c].cache = cache /\ call[c].token = t

Newest(cache, t, id) ==
  /\ id \in RowsOf(cache, t) \cup {0}
  /\ \A i \in RowsOf(cache, t) : i <= id
  /\ cache = "state" /\ id \in RowsOf(cache, t) => ~token_state_snapshots[id].superseded

(* A cache whose last call was neither cut short nor overlapped is being   *)
(* written by one client at most; the id that client is about to write, or *)
(* the one that stands when nobody writes, is the newest.                  *)
CacheOK(cache, t) ==
  <<cache, t>> \notin torn =>
    /\ \A c, d \in Clients : Flying(c, cache, t) /\ Flying(d, cache, t) => c = d
    /\ \A c \in Clients : Flying(c, cache, t) /\ call[c].todo = <<"current">> =>
         Newest(cache, t, call[c].id)
    /\ (\A c \in Clients : ~Flying(c, cache, t)) => Newest(cache, t, current[cache][t])

IInv ==
  /\ TypeOK
  /\ DOMAIN call = Clients
  /\ current \in [Caches -> [Tokens -> Nat]]
  /\ \A c \in Clients : CallOK(c)
  /\ \A cache \in Caches, t \in Tokens : CacheOK(cache, t)

USE TokenOfType, ShotsType, TimesType

LEMMA Todo ==
  /\ \A a : Head(<<a>>) = a /\ Len(<<a>>) = 1
  /\ \A a, b : Head(<<a, b>>) = a /\ Len(<<a, b>>) = 2 /\ Tail(<<a, b>>) = <<b>>
  /\ \A a, b, c : /\ Head(<<a, b, c>>) = a /\ Len(<<a, b, c>>) = 3
                  /\ Tail(<<a, b, c>>) = <<b, c>>
OBVIOUS

LEMMA TodoTypes ==
  \A todo \in EventTodo \cup StateTodo : todo \in Seq(Statements) /\ todo # <<>>
<1>1. \A x : x = <<"token", "discovered">> => x \in Seq(Statements) /\ x # <<>>
  BY DEF Statements
<1>2. \A x : x = <<"token", "trade">> => x \in Seq(Statements) /\ x # <<>>
  BY DEF Statements
<1>3. \A x : x = <<"token", "lifecycle">> => x \in Seq(Statements) /\ x # <<>>
  BY DEF Statements
<1>4. \A x : x = <<"discovered">> => x \in Seq(Statements) /\ x # <<>>
  BY DEF Statements
<1>5. \A x : x = <<"trade">> => x \in Seq(Statements) /\ x # <<>>
  BY DEF Statements
<1>6. \A x : x = <<"lifecycle">> => x \in Seq(Statements) /\ x # <<>>
  BY DEF Statements
<1>7. \A x : x = <<"supersede", "snapshot", "current">> => x \in Seq(Statements) /\ x # <<>>
  BY DEF Statements
<1>8. \A x : x = <<"snapshot", "current">> => x \in Seq(Statements) /\ x # <<>>
  BY DEF Statements
<1>9. \A x : x = <<"current">> => x \in Seq(Statements) /\ x # <<>>
  BY DEF Statements
<1> QED
  BY <1>1, <1>2, <1>3, <1>4, <1>5, <1>6, <1>7, <1>8, <1>9
     DEF EventTodo, StateTodo

LEMMA Element ==
  ASSUME NEW S, NEW s \in Seq(S), NEW i \in DOMAIN s
  PROVE  s[i] \in S /\ i \in Nat \ {0} /\ i <= Len(s)
OBVIOUS

LEMMA Tails ==
  ASSUME NEW S, NEW s \in Seq(S), Len(s) > 1
  PROVE  Tail(s) \in Seq(S) /\ Tail(s) # <<>>
<1>1. s # <<>> /\ Len(s) \in Nat
  OBVIOUS
<1>2. Tail(s) \in Seq(S) /\ Len(Tail(s)) = Len(s) - 1
  BY <1>1
<1>3. Len(<<>>) = 0
  OBVIOUS
<1>4. \A n \in Nat : n > 1 => n - 1 # 0
  OBVIOUS
<1> QED
  BY <1>1, <1>2, <1>3, <1>4, Zenon

LEMMA IsSeq ==
  ASSUME NEW S, NEW n \in Nat, NEW f \in [1 .. n -> S]
  PROVE  f \in Seq(S)
OBVIOUS

LEMMA NotIdle == \A q \in CallRecord : q.todo # <<>> => q # Idle
BY DEF CallRecord, Idle

LEMMA Rows ==
  ASSUME NEW t
  PROVE  /\ RowsOf("state", t) = {i \in DOMAIN token_state_snapshots :
                                    token_state_snapshots[i].token = t}
         /\ RowsOf("security", t) = {i \in DOMAIN security_assessments :
                                       security_assessments[i] = t}
         /\ RowsOf("features", t) = {i \in DOMAIN feature_vectors :
                                       feature_vectors[i].token = t}
         /\ RowsOf("candidate", t) = {i \in DOMAIN candidate_state_transitions :
                                        candidate_state_transitions[i] = t}
BY Zenon DEF RowsOf

LEMMA RowsPrimed ==
  ASSUME NEW t
  PROVE  /\ RowsOf("state", t)' = {i \in DOMAIN token_state_snapshots' :
                                     token_state_snapshots'[i].token = t}
         /\ RowsOf("security", t)' = {i \in DOMAIN security_assessments' :
                                        security_assessments'[i] = t}
         /\ RowsOf("features", t)' = {i \in DOMAIN feature_vectors' :
                                        feature_vectors'[i].token = t}
         /\ RowsOf("candidate", t)' = {i \in DOMAIN candidate_state_transitions' :
                                         candidate_state_transitions'[i] = t}
BY Zenon DEF RowsOf

LEMMA RowsStay ==
  ASSUME UNCHANGED row_tables
  PROVE  \A cache, t : RowsOf(cache, t)' = RowsOf(cache, t)
BY Zenon DEF RowsOf, row_tables

LEMMA RowsAreNumbers ==
  ASSUME TypeOK, NEW cache \in Caches, NEW t
  PROVE  RowsOf(cache, t) \subseteq Nat \ {0}
BY Rows DEF TypeOK, Caches

(* The initial state. *)
LEMMA InitOK == Init => IInv
<1> SUFFICES ASSUME Init PROVE IInv
  OBVIOUS
<1>1. TypeOK
  BY DEF Init, TypeOK, RowsOf, Caches
<1>2. DOMAIN call = Clients /\ current \in [Caches -> [Tokens -> Nat]]
  BY DEF Init
<1>3. \A c \in Clients : CallOK(c)
  BY DEF Init, CallOK
<1>4. \A cache \in Caches, t \in Tokens : CacheOK(cache, t)
  BY DEF Init, CacheOK, Flying, Newest, RowsOf, Caches
<1> QED
  BY <1>1, <1>2, <1>3, <1>4 DEF IInv

-----------------------------------------------------------------------------
(* What a step leaves alone. *)

(* A call in flight is untouched by a step that keeps the call, its raw    *)
(* event and the rows.                                                     *)
LEMMA OtherCall ==
  ASSUME NEW c, CallOK(c), call'[c] = call[c],
         \/ call[c] = Idle
         \/ /\ raw_events' = raw_events /\ tokens \subseteq tokens'
            /\ RowsOf(call[c].cache, call[c].token)
                 \subseteq RowsOf(call[c].cache, call[c].token)'
  PROVE  CallOK(c)'
BY DEF CallOK, EventCall, StateCall, SecurityCall, FeatureCall, CandidateCall

(* A cache is untouched by a step of a client that writes another one.     *)
LEMMA OtherCache ==
  ASSUME NEW c \in Clients, NEW cache \in Caches, NEW t \in Tokens,
         CacheOK(cache, t), ~Flying(c, cache, t), ~Flying(c, cache, t)',
         \A d \in Clients \ {c} : call'[d] = call[d],
         <<cache, t>> \in torn => <<cache, t>> \in torn',
         RowsOf(cache, t)' = RowsOf(cache, t),
         current'[cache][t] = current[cache][t],
         cache = "state" => \A i \in RowsOf(cache, t) :
            token_state_snapshots'[i].superseded = token_state_snapshots[i].superseded
  PROVE  CacheOK(cache, t)'
<1>1. \A d \in Clients : Flying(d, cache, t)' = Flying(d, cache, t)
  BY DEF Flying
<1>2. \A id : Newest(cache, t, id) => Newest(cache, t, id)'
  BY DEF Newest
<1>3. \A d \in Clients : Flying(d, cache, t) =>
        call'[d] = call[d]
  OBVIOUS
<1> QED
  BY <1>1, <1>2, <1>3 DEF CacheOK

(* No call and no row changes.                                             *)
LEMMA SameCaches ==
  ASSUME IInv, UNCHANGED <<research_tables, call, torn>>
  PROVE  \A cache \in Caches, t \in Tokens : CacheOK(cache, t)'
<1> SUFFICES ASSUME NEW cache \in Caches, NEW t \in Tokens PROVE CacheOK(cache, t)'
  OBVIOUS
<1>1. CacheOK(cache, t)
  BY DEF IInv
<1>2. RowsOf(cache, t)' = RowsOf(cache, t)
  BY RowsStay DEF research_tables
<1>3. UNCHANGED <<call, torn, current, token_state_snapshots>>
  BY DEF research_tables, row_tables
<1> QED
  BY <1>1, <1>2, <1>3 DEF CacheOK, Newest, Flying

-----------------------------------------------------------------------------
(* Calls. *)

(* What a statement that has run, or has failed, leaves of its call.       *)
LEMMA Advanced ==
  ASSUME DOMAIN call = Clients, NEW c \in Clients, NEW id \in Nat,
         call[c] \in CallRecord, Advance(c, id)
  PROVE  /\ DOMAIN call' = Clients
         /\ \A d \in Clients \ {c} : call'[d] = call[d]
         /\ \/ call'[c] = Idle /\ Len(call[c].todo) = 1 /\ torn' = torn
            \/ /\ call'[c] = Idle
               /\ torn' = torn \cup {<<call[c].cache, call[c].token>>}
            \/ /\ call'[c] = Rest(call[c], id)
               /\ Len(call[c].todo) # 1 /\ torn' = torn
<1>1. CASE /\ call' = [call EXCEPT ![c] = IF Len(@.todo) = 1 THEN Idle
                                       ELSE Rest(@, id)]
           /\ UNCHANGED <<torn, faults>>
  <2>1. CASE Len(call[c].todo) = 1
    BY <1>1, <2>1
  <2>2. CASE Len(call[c].todo) # 1
    BY <1>1, <2>2
  <2> QED
    BY <2>1, <2>2
<1>2. CASE /\ call' = [call EXCEPT ![c] = Idle]
           /\ torn' = torn \cup {<<call[c].cache, call[c].token>>}
  BY <1>2
<1> QED
  BY <1>1, <1>2 DEF Advance

LEMMA Failed ==
  ASSUME DOMAIN call = Clients, NEW c \in Clients, Fails(c)
  PROVE  /\ DOMAIN call' = Clients
         /\ \A d \in Clients \ {c} : call'[d] = call[d]
         /\ call'[c] = Idle /\ call[c] # Idle
         /\ torn' = torn \cup {<<call[c].cache, call[c].token>>}
         /\ UNCHANGED <<event_tables, collection_tables, research_tables>>
BY DEF Fails

LEMMA FailsOK == ASSUME IInv, NEW c \in Clients, Fails(c) PROVE IInv'
<1>1. UNCHANGED <<event_tables, collection_tables, research_tables>>
  BY Failed DEF IInv
<1>2. \A cache, t : RowsOf(cache, t)' = RowsOf(cache, t)
  BY <1>1, RowsStay DEF research_tables
<1>3. TypeOK'
  BY <1>1, <1>2 DEF IInv, TypeOK, event_tables, collection_tables, research_tables,
                    row_tables
<1>4. DOMAIN call' = Clients /\ current' \in [Caches -> [Tokens -> Nat]]
  BY <1>1, Failed DEF IInv, research_tables
<1>5. ASSUME NEW d \in Clients PROVE CallOK(d)'
  <2>1. CASE d = c
    BY <2>1, Failed DEF IInv, CallOK
  <2>2. CASE d # c
    BY <1>1, <1>2, <2>2, Failed, OtherCall DEF IInv, event_tables
  <2> QED
    BY <2>1, <2>2
<1>6. ASSUME NEW cache \in Caches, NEW t \in Tokens PROVE CacheOK(cache, t)'
  <2>1. CASE Flying(c, cache, t)
    BY <2>1, Failed DEF IInv, CacheOK, Flying
  <2>2. CASE ~Flying(c, cache, t)
    <3>1. ~Flying(c, cache, t)'
      BY Failed DEF Flying, IInv
    <3> QED
      BY <1>1, <1>2, <2>2, <3>1, Failed, OtherCache DEF IInv, research_tables, row_tables
  <2> QED
    BY <2>1, <2>2
<1> QED
  BY <1>3, <1>4, <1>5, <1>6 DEF IInv

(* The first statement of a call is still to come.                         *)
LEMMA CallBegins ==
  ASSUME IInv, NEW c \in Clients, NEW f, NEW todo, NEW cache, NEW t \in Tokens, NEW row,
         Call(c, f, todo, cache, t, row),
         [todo |-> todo, cache |-> cache, token |-> t, row |-> row, id |-> 0]
           \in CallRecord,
         todo # <<>>, todo # <<"current">>,
         (EventCall(c) \/ StateCall(c) \/ SecurityCall(c) \/ FeatureCall(c)
            \/ CandidateCall(c))'
  PROVE  IInv'
<1> DEFINE q == [todo |-> todo, cache |-> cache, token |-> t, row |-> row, id |-> 0]
<1>1. /\ UNCHANGED <<event_tables, collection_tables, research_tables>>
      /\ call[c] = Idle /\ call' = [call EXCEPT ![c] = q]
      /\ torn' = IF Overlapped(c, cache, t) THEN torn \cup {<<cache, t>>}
                 ELSE torn \ {<<cache, t>>}
  BY DEF Call, Free
<1>2. \A k, x : RowsOf(k, x)' = RowsOf(k, x)
  BY <1>1, RowsStay DEF research_tables
<1>3. TypeOK'
  BY <1>1, <1>2 DEF IInv, TypeOK, event_tables, collection_tables, research_tables,
                    row_tables
<1>4. /\ DOMAIN call' = Clients /\ current' \in [Caches -> [Tokens -> Nat]]
      /\ call'[c] = q /\ \A d \in Clients \ {c} : call'[d] = call[d]
  BY <1>1 DEF IInv, research_tables
<1>5. ASSUME NEW d \in Clients PROVE CallOK(d)'
  <2>1. CASE d = c
    <3>1. call'[c] \in CallRecord /\ call'[c].todo # <<"current">>
      BY <1>4
    <3> QED
      BY <2>1, <3>1 DEF CallOK
  <2>2. CASE d # c
    BY <1>1, <1>2, <1>4, <2>2, OtherCall DEF IInv, event_tables
  <2> QED
    BY <2>1, <2>2
<1>6. ASSUME NEW k \in Caches, NEW x \in Tokens PROVE CacheOK(k, x)'
  <2>1. CacheOK(k, x) /\ ~Flying(c, k, x)
    BY <1>1 DEF IInv, Flying
  <2>2. CASE k = cache /\ x = t
    <3>1. CASE Overlapped(c, cache, t)
      BY <1>1, <2>2, <3>1 DEF CacheOK
    <3>2. CASE ~Overlapped(c, cache, t)
      <4>1. \A d \in Clients : Flying(d, k, x)' => d = c
        BY <1>4, <2>2, <3>2 DEF Overlapped, Flying
      <4>2. call'[c] # Idle /\ call'[c].todo # <<"current">>
        BY <1>4, NotIdle
      <4>3. Flying(c, k, x)'
        BY <1>4, <2>2, <4>2 DEF Flying
      <4> QED
        BY <4>1, <4>2, <4>3 DEF CacheOK
    <3> QED
      BY <3>1, <3>2
  <2>3. CASE ~(k = cache /\ x = t)
    <3>1. ~Flying(c, k, x)'
      BY <1>4, <2>3 DEF Flying
    <3>2. <<k, x>> \in torn => <<k, x>> \in torn'
      BY <1>1, <2>3
    <3> QED
      BY <1>1, <1>2, <1>4, <2>1, <3>1, <3>2, OtherCache DEF research_tables, row_tables
  <2> QED
    BY <2>2, <2>3
<1> QED
  BY <1>3, <1>4, <1>5, <1>6 DEF IInv

LEMMA EventBegins ==
  ASSUME IInv, NEW e \in Events,
         insert_discovered(e) \/ insert_trade(e) \/ insert_lifecycle(e)
  PROVE  IInv'
<1>1. PICK todo \in {<<"token", "discovered">>, <<"token", "trade">>, <<"token", "lifecycle">>} :
        Call("pipeline", "events", todo, "none", TokenOf[e], e)
  BY DEF insert_discovered, insert_trade, insert_lifecycle
<1>2. e \in DOMAIN raw_events /\ raw_events[e].status = "canonical"
  BY DEF insert_discovered, insert_trade, insert_lifecycle, Decodes
<1>3. "pipeline" \in Clients /\ TokenOf[e] \in Tokens
  BY DEF Clients
<1>4. todo \in Seq(Statements) /\ todo # <<>> /\ todo # <<"current">> /\ todo \in EventTodo
      /\ todo \notin {<<"discovered">>, <<"trade">>, <<"lifecycle">>}
  BY TodoTypes DEF EventTodo
<1>5. [todo |-> todo, cache |-> "none", token |-> TokenOf[e], row |-> e, id |-> 0]
        \in CallRecord
  BY <1>3, <1>4 DEF CallRecord
<1>6. /\ UNCHANGED raw_events
      /\ call'["pipeline"] = [todo |-> todo, cache |-> "none", token |-> TokenOf[e],
                              row |-> e, id |-> 0]
  BY <1>1, <1>3 DEF Call, event_tables, IInv
<1>7. EventCall("pipeline")'
  BY <1>2, <1>4, <1>6 DEF EventCall
<1> QED
  BY <1>1, <1>3, <1>4, <1>5, <1>7, CallBegins

LEMMA ResearchBegins ==
  ASSUME IInv, NEW t \in Tokens, Research(t)
  PROVE  IInv'
<1> DEFINE q(todo, cache, row) ==
      [todo |-> todo, cache |-> cache, token |-> t, row |-> row, id |-> 0]
<1> "pipeline" \in Clients /\ "tick" \in Clients /\ "security" \in Clients
  BY DEF Clients
<1>1. ASSUME NEW c \in Clients, NEW todo, NEW cache, NEW row,
             Call(c, "research", todo, cache, t, row)
      PROVE  call'[c] = q(todo, cache, row)
  BY <1>1 DEF Call, IInv
<1>2. ASSUME NEW shot \in Shots, NEW c \in Clients, NEW todo \in StateTodo,
             todo # <<"current">>, Call(c, "research", todo, "state", t, shot)
      PROVE  IInv'
  <2>1. todo \in Seq(Statements) /\ todo # <<>>
    BY TodoTypes
  <2>2. q(todo, "state", shot) \in CallRecord
    BY <2>1 DEF CallRecord, Caches
  <2>3. StateCall(c)'
    <3>1. call'[c] = q(todo, "state", shot)
      BY <1>1, <1>2
    <3> QED
      BY <3>1 DEF StateCall
  <2> QED
    BY <1>2, <2>1, <2>2, <2>3, CallBegins
<1>3. ASSUME NEW shot \in Shots, persist_snapshot(t, shot) PROVE IInv'
  BY <1>2, <1>3, Todo DEF persist_snapshot, StateTodo
<1>4. ASSUME NEW shot \in Shots, rebuild_token_state(t, shot) PROVE IInv'
  BY <1>2, <1>4, Todo DEF rebuild_token_state, StateTodo
<1>5. CASE insert_assessment(t)
  <2>1. q(<<"assessment", "current">>, "security", 0) \in CallRecord
    BY DEF CallRecord, Caches, Statements
  <2>2. SecurityCall("security")'
    <3>1. call'["security"] = q(<<"assessment", "current">>, "security", 0)
      BY <1>1, <1>5 DEF insert_assessment
    <3> QED
      BY <3>1 DEF SecurityCall
  <2> QED
    BY <1>5, <2>1, <2>2, Todo, CallBegins DEF insert_assessment
<1>6. ASSUME NEW time \in Times, insert_feature_vector(t, time) PROVE IInv'
  <2>1. q(<<"vector", "current">>, "features", time) \in CallRecord
    BY DEF CallRecord, Caches, Statements
  <2>2. FeatureCall("tick")'
    <3>1. call'["tick"] = q(<<"vector", "current">>, "features", time)
      BY <1>1, <1>6 DEF insert_feature_vector
    <3> QED
      BY <3>1 DEF FeatureCall
  <2> QED
    BY <1>6, <2>1, <2>2, Todo, CallBegins DEF insert_feature_vector
<1>7. CASE insert_candidate_transition(t)
  <2>1. q(<<"transition", "current">>, "candidate", 0) \in CallRecord
    BY DEF CallRecord, Caches, Statements
  <2>2. CandidateCall("tick")'
    <3>1. call'["tick"] = q(<<"transition", "current">>, "candidate", 0)
      BY <1>1, <1>7 DEF insert_candidate_transition
    <3> QED
      BY <3>1 DEF CandidateCall
  <2> QED
    BY <1>7, <2>1, <2>2, Todo, CallBegins DEF insert_candidate_transition
<1> QED
  BY <1>3, <1>4, <1>5, <1>6, <1>7 DEF Research

-----------------------------------------------------------------------------
(* Calls of one statement. *)

(* Only the pipeline's own calls read the tables of events, and it makes   *)
(* one call at a time.                                                     *)
LEMMA SingleOK ==
  ASSUME IInv, NEW f, Single("pipeline", f), TypeOK', UNCHANGED research_tables,
         UNCHANGED tokens
  PROVE  IInv'
<1>1. call["pipeline"] = Idle /\ UNCHANGED <<call, torn, row_tables, current>>
  BY DEF Single, Free, research_tables
<1>2. ASSUME NEW c \in Clients PROVE CallOK(c)'
  <2>1. CASE call[c] = Idle
    BY <1>1, <2>1 DEF CallOK
  <2>2. CASE call[c] # Idle
    <3>1. CallOK(c) /\ ~EventCall(c)
      BY <1>1, <2>2 DEF IInv, EventCall
    <3>2. RowsOf(call[c].cache, call[c].token)' = RowsOf(call[c].cache, call[c].token)
      BY <1>1, RowsStay
    <3> QED
      BY <1>1, <2>2, <3>1, <3>2 DEF CallOK, StateCall, SecurityCall, FeatureCall, CandidateCall
  <2> QED
    BY <2>1, <2>2
<1> QED
  BY <1>1, <1>2, SameCaches DEF IInv, research_tables

LEMMA EventRowOK ==
  ASSUME IInv, NEW e \in Events,
         \/ insert_raw(e) \/ mark_orphaned(e)
         \/ \E status \in {"success", "error"} : mark_decoder(e, status)
  PROVE  IInv'
<1> DEFINE Raw == [status : {"canonical", "orphaned"},
                   decoder : {"pending", "success", "error"}]
<1>1. DOMAIN raw_events \subseteq Events /\ raw_events \in [DOMAIN raw_events -> Raw]
  BY DEF IInv, TypeOK
<1>2. /\ DOMAIN raw_events \subseteq DOMAIN raw_events'
      /\ DOMAIN raw_events' \subseteq Events
      /\ raw_events' \in [DOMAIN raw_events' -> Raw]
  <2>1. CASE insert_raw(e)
    BY <1>1, <2>1 DEF insert_raw, Put
  <2>2. CASE mark_orphaned(e)
    BY <1>1, <2>2 DEF mark_orphaned
  <2>3. ASSUME NEW status \in {"success", "error"}, mark_decoder(e, status)
        PROVE  <1>2!:
    BY <1>1, <2>3 DEF mark_decoder
  <2> QED
    BY <2>1, <2>2, <2>3
<1>3. /\ Single("pipeline", "events")
      /\ UNCHANGED <<tokens, token_discovered, token_trades, lifecycle_events,
                     collection_tables, research_tables>>
  BY DEF insert_raw, mark_orphaned, mark_decoder
<1>4. \A k, x : RowsOf(k, x)' = RowsOf(k, x)
  BY <1>3, RowsStay DEF research_tables
<1>5. TypeOK'
  BY <1>2, <1>3, <1>4 DEF IInv, TypeOK, collection_tables, research_tables, row_tables
<1> QED
  BY <1>3, <1>5, SingleOK

LEMMA CollectionOK == ASSUME IInv, Collection PROVE IInv'
<1>1. Single("pipeline", "collection") /\ UNCHANGED <<event_tables, research_tables>>
  BY DEF Collection, save_checkpoint, upsert_head, insert_gap, mark_gap_recovered,
         insert_session, finish_session, upsert_watched_market
<1>2. \A k, x : RowsOf(k, x)' = RowsOf(k, x)
  BY <1>1, RowsStay DEF research_tables
<1>3. /\ ingest_checkpoints' \in Marks \cup {NoMark} /\ chain_heads' \in Marks \cup {NoMark}
      /\ ingest_gaps' \in Seq(BOOLEAN) /\ collection_sessions' \in Seq(Marks \cup {NoMark})
  <2> USE DEF IInv, TypeOK
  <2>1. ASSUME NEW m \in Marks, save_checkpoint(m) \/ upsert_head(m) PROVE <1>3!:
    BY <2>1 DEF save_checkpoint, upsert_head
  <2>2. CASE insert_gap
    BY <2>2 DEF insert_gap
  <2>6. CASE insert_session
    BY <2>6 DEF insert_session
  <2>3. ASSUME NEW i \in DOMAIN ingest_gaps, mark_gap_recovered(i) PROVE <1>3!:
    BY <2>3 DEF mark_gap_recovered
  <2>4. ASSUME NEW i \in DOMAIN collection_sessions, NEW m \in Marks, finish_session(i, m)
        PROVE  <1>3!:
    BY <2>4 DEF finish_session
  <2>5. ASSUME NEW t \in Tokens, NEW shape \in Shapes, upsert_watched_market(t, shape)
        PROVE  <1>3!:
    BY <2>5 DEF upsert_watched_market
  <2> QED
    BY <2>1, <2>2, <2>3, <2>4, <2>5, <2>6 DEF Collection
<1>4. TypeOK'
  BY <1>1, <1>2, <1>3 DEF IInv, TypeOK, event_tables, research_tables, row_tables
<1> QED
  BY <1>1, <1>4, SingleOK DEF event_tables

-----------------------------------------------------------------------------
(* The statements of a call. *)

(* The statement that runs tells which call it belongs to.                 *)
LEMMA WhatRuns ==
  ASSUME IInv, NEW c \in Clients, NEW s, Runs(c, s)
  PROVE  /\ call[c] \in CallRecord /\ CallOK(c)
         /\ s = "token" => /\ EventCall(c)
                           /\ call[c].todo \in {<<"token", "discovered">>, <<"token", "trade">>,
                                                <<"token", "lifecycle">>}
         /\ s \in {"discovered", "trade", "lifecycle"} =>
              /\ EventCall(c) /\ Len(call[c].todo) = 1
              /\ call[c].todo \in {<<"discovered">>, <<"trade">>, <<"lifecycle">>}
         /\ s = "supersede" =>
              StateCall(c) /\ call[c].todo = <<"supersede", "snapshot", "current">>
         /\ s = "snapshot" => StateCall(c) /\ call[c].todo = <<"snapshot", "current">>
         /\ s = "assessment" => SecurityCall(c) /\ call[c].todo = <<"assessment", "current">>
         /\ s = "vector" => FeatureCall(c) /\ call[c].todo = <<"vector", "current">>
         /\ s = "transition" => CandidateCall(c) /\ call[c].todo = <<"transition", "current">>
         /\ s = "current" => call[c].todo = <<"current">> /\ call[c].cache \in Caches
<1> DEFINE todo == call[c].todo
<1>1. CallOK(c) /\ call[c] # Idle /\ Head(todo) = s
  BY DEF IInv, Runs
<1>2. call[c] \in CallRecord
  BY <1>1 DEF CallOK
<1>3. CASE EventCall(c)
  <2>1. todo \in EventTodo
    BY <1>3 DEF EventCall
  <2>2. \/ s = "token" /\ todo \in {<<"token", "discovered">>, <<"token", "trade">>,
                                    <<"token", "lifecycle">>}
        \/ /\ s \in {"discovered", "trade", "lifecycle"} /\ Len(todo) = 1
           /\ todo \in {<<"discovered">>, <<"trade">>, <<"lifecycle">>}
    <3> HIDE DEF todo
    <3> QED
      BY <1>1, <2>1, Todo, Zenon DEF EventTodo
  <2> QED
    BY <1>1, <1>2, <1>3, <2>2
<1>4. CASE StateCall(c)
  <2>1. todo \in StateTodo /\ call[c].cache = "state"
    BY <1>4 DEF StateCall
  <2>2. \/ s = "supersede" /\ todo = <<"supersede", "snapshot", "current">>
        \/ s = "snapshot" /\ todo = <<"snapshot", "current">>
        \/ s = "current" /\ todo = <<"current">>
    <3> HIDE DEF todo
    <3>1. CASE todo = <<"supersede", "snapshot", "current">>
      BY <1>1, <3>1, Todo, Zenon
    <3>2. CASE todo = <<"snapshot", "current">>
      BY <1>1, <3>2, Todo, Zenon
    <3>3. CASE todo = <<"current">>
      BY <1>1, <3>3, Todo, Zenon
    <3> QED
      BY <2>1, <3>1, <3>2, <3>3, Zenon DEF StateTodo
  <2> QED
    BY <1>1, <1>2, <1>4, <2>1, <2>2 DEF Caches
<1>5. CASE SecurityCall(c)
  <2>1. todo \in {<<"assessment", "current">>, <<"current">>} /\ call[c].cache = "security"
    BY <1>5 DEF SecurityCall
  <2>2. \/ s = "assessment" /\ todo = <<"assessment", "current">>
        \/ s = "current" /\ todo = <<"current">>
    <3> HIDE DEF todo
    <3> QED
      BY <1>1, <2>1, Todo, Zenon
  <2> QED
    BY <1>1, <1>2, <1>5, <2>1, <2>2 DEF Caches
<1>6. CASE FeatureCall(c)
  <2>1. todo \in {<<"vector", "current">>, <<"current">>} /\ call[c].cache = "features"
    BY <1>6 DEF FeatureCall
  <2>2. \/ s = "vector" /\ todo = <<"vector", "current">>
        \/ s = "current" /\ todo = <<"current">>
    <3> HIDE DEF todo
    <3> QED
      BY <1>1, <2>1, Todo, Zenon
  <2> QED
    BY <1>1, <1>2, <1>6, <2>1, <2>2 DEF Caches
<1>7. CASE CandidateCall(c)
  <2>1. todo \in {<<"transition", "current">>, <<"current">>} /\ call[c].cache = "candidate"
    BY <1>7 DEF CandidateCall
  <2>2. \/ s = "transition" /\ todo = <<"transition", "current">>
        \/ s = "current" /\ todo = <<"current">>
    <3> HIDE DEF todo
    <3> QED
      BY <1>1, <2>1, Todo, Zenon
  <2> QED
    BY <1>1, <1>2, <1>7, <2>1, <2>2 DEF Caches
<1> QED
  BY <1>1, <1>3, <1>4, <1>5, <1>6, <1>7 DEF CallOK

(* What is left of a call of several statements once one has run.          *)
LEMMA Ran ==
  ASSUME IInv, NEW c \in Clients, NEW id \in Nat, Advance(c, id),
         call[c] \in CallRecord, Len(call[c].todo) > 1
  PROVE  \/ call'[c] = Idle
         \/ /\ call'[c] \in CallRecord /\ call'[c] # Idle
            /\ call'[c].todo = Tail(call[c].todo) /\ call'[c].id = id
            /\ call'[c].cache = call[c].cache /\ call'[c].token = call[c].token
            /\ call'[c].row = call[c].row
<1>1. ASSUME NEW q \in CallRecord, Len(q.todo) > 1
      PROVE  /\ Rest(q, id) \in CallRecord /\ Rest(q, id) # Idle
             /\ Rest(q, id).todo = Tail(q.todo) /\ Rest(q, id).id = id
             /\ Rest(q, id).cache = q.cache /\ Rest(q, id).token = q.token
             /\ Rest(q, id).row = q.row
  <2>1. q.todo \in Seq(Statements) /\ q.todo # <<>>
    BY <1>1 DEF CallRecord
  <2>2. Tail(q.todo) \in Seq(Statements) /\ Tail(q.todo) # <<>>
    BY <1>1, <2>1, Tails
  <2>3. Rest(q, id) \in CallRecord
    BY <2>2 DEF Rest, CallRecord
  <2>4. /\ Rest(q, id).todo = Tail(q.todo) /\ Rest(q, id).id = id
        /\ Rest(q, id).cache = q.cache /\ Rest(q, id).token = q.token
        /\ Rest(q, id).row = q.row
    BY <2>2 DEF Rest, CallRecord
  <2> QED
    BY <2>2, <2>3, <2>4, NotIdle
<1>2. call'[c] = Idle \/ call'[c] = Rest(call[c], id)
  BY Advanced DEF IInv
<1> QED
  BY <1>1, <1>2

(* A statement other than the last of a research call disturbs its own     *)
(* call and its own cache only.                                            *)
LEMMA StatementOK ==
  ASSUME IInv, NEW c \in Clients, NEW id \in Nat, Advance(c, id), call[c] # Idle,
         TypeOK', UNCHANGED <<raw_events, current>>, tokens \subseteq tokens',
         Len(call[c].todo) = 1 => call[c].cache = "none",
         \A k \in Caches, x \in Tokens :
           /\ RowsOf(k, x) \subseteq RowsOf(k, x)'
           /\ k # call[c].cache \/ x # call[c].token =>
                /\ RowsOf(k, x)' = RowsOf(k, x)
                /\ k = "state" => \A i \in RowsOf(k, x) :
                     token_state_snapshots'[i].superseded = token_state_snapshots[i].superseded,
         CallOK(c)',
         call'[c] # Idle /\ call'[c].todo = <<"current">> =>
           Newest(call[c].cache, call[c].token, id)'
  PROVE  IInv'
<1>1. call[c] \in CallRecord
  BY DEF IInv, CallOK
<1>2. /\ DOMAIN call' = Clients
      /\ \A d \in Clients \ {c} : call'[d] = call[d]
      /\ \/ call'[c] = Idle /\ Len(call[c].todo) = 1 /\ torn' = torn
         \/ /\ call'[c] = Idle
            /\ torn' = torn \cup {<<call[c].cache, call[c].token>>}
         \/ /\ call'[c] = Rest(call[c], id)
            /\ Len(call[c].todo) # 1 /\ torn' = torn
  BY <1>1, Advanced DEF IInv
<1>3. call'[c] # Idle => /\ call'[c].cache = call[c].cache
                         /\ call'[c].token = call[c].token
                         /\ call'[c].id = id
  BY <1>1, <1>2 DEF Rest, CallRecord
<1>4. ASSUME NEW d \in Clients PROVE CallOK(d)'
  <2>1. CASE d = c
    BY <2>1
  <2>2. CASE d # c
    <3>1. call'[d] = call[d] /\ CallOK(d)
      BY <1>2, <2>2 DEF IInv
    <3>2. call[d] # Idle => call[d] \in CallRecord
      BY <3>1 DEF CallOK
    <3>3. CASE call[d] = Idle
      BY <3>1, <3>3 DEF CallOK
    <3>4. CASE call[d] # Idle /\ call[d].cache = "none"
      <4>1. call[d].todo # <<"current">>
        BY <3>1, <3>4, Todo DEF CallOK, EventCall, EventTodo, StateCall, SecurityCall,
                          FeatureCall, CandidateCall
      <4> QED
        BY <3>1, <3>4, <4>1 DEF CallOK, EventCall, StateCall, SecurityCall,
                          FeatureCall, CandidateCall
    <3>5. CASE call[d] # Idle /\ call[d].cache # "none"
      <4>1. call[d].cache \in Caches /\ call[d].token \in Tokens
        BY <3>2, <3>5 DEF CallRecord
      <4> QED
        BY <3>1, <4>1, OtherCall
    <3> QED
      BY <3>3, <3>4, <3>5
  <2> QED
    BY <2>1, <2>2
<1>5. ASSUME NEW k \in Caches, NEW x \in Tokens PROVE CacheOK(k, x)'
  <2>1. CacheOK(k, x)
    BY DEF IInv
  <2>2. CASE k = call[c].cache /\ x = call[c].token
    <3>1. CASE torn' = torn \cup {<<call[c].cache, call[c].token>>}
      BY <2>2, <3>1 DEF CacheOK
    <3>2. CASE call'[c] = Rest(call[c], id) /\ torn' = torn
      <4> SUFFICES ASSUME <<k, x>> \notin torn PROVE CacheOK(k, x)'
        BY <3>2 DEF CacheOK
      <4>1. Flying(c, k, x)
        BY <2>2 DEF Flying
      <4>2. \A d \in Clients : Flying(d, k, x) => d = c
        BY <2>1, <4>1 DEF CacheOK
      <4>3. \A d \in Clients : Flying(d, k, x)' => d = c
        BY <1>2, <4>2 DEF Flying
      <4>4. call'[c] # Idle /\ Flying(c, k, x)'
        <5>1. call'[c] \in [todo : {Tail(call[c].todo)}, cache : {k}, token : {x},
                            row : {call[c].row}, id : {id}]
          BY <1>1, <2>2, <3>2 DEF Rest, CallRecord
        <5>2. "id" \in DOMAIN call'[c] /\ "id" \notin DOMAIN Idle
          BY <5>1 DEF Idle
        <5> QED
          BY <5>1, <5>2 DEF Flying
      <4>5. call'[c].todo = <<"current">> => Newest(k, x, call[c].id)'
        BY <1>3, <2>2, <4>4
      <4> QED
        BY <4>3, <4>4, <4>5 DEF CacheOK
    <3> QED
      BY <1>2, <2>2, <3>1, <3>2 DEF Caches
  <2>3. CASE ~(k = call[c].cache /\ x = call[c].token)
    <3>1. ~Flying(c, k, x) /\ ~Flying(c, k, x)'
      BY <1>3, <2>3 DEF Flying
    <3>2. <<k, x>> \in torn => <<k, x>> \in torn'
      BY <1>2
    <3>3. /\ RowsOf(k, x)' = RowsOf(k, x)
          /\ k = "state" => \A i \in RowsOf(k, x) :
               token_state_snapshots'[i].superseded = token_state_snapshots[i].superseded
      BY <2>3
    <3> QED
      BY <1>2, <2>1, <3>1, <3>2, <3>3, OtherCache
  <2> QED
    BY <2>2, <2>3
<1> QED
  BY <1>2, <1>4, <1>5 DEF IInv

LEMMA EventStatementOK ==
  ASSUME IInv, NEW c \in Clients,
         ensure_token(c) \/ discovered_row(c) \/ trade_row(c) \/ lifecycle_row(c)
  PROVE  IInv'
<1>1. PICK s \in {"token", "discovered", "trade", "lifecycle"} : Runs(c, s)
  BY DEF ensure_token, discovered_row, trade_row, lifecycle_row
<1>2. /\ Advance(c, 0) /\ UNCHANGED <<raw_events, collection_tables, research_tables>>
      /\ call[c] # Idle
  BY DEF ensure_token, discovered_row, trade_row, lifecycle_row, Runs
<1>3. /\ EventCall(c) /\ CallOK(c) /\ call[c] \in CallRecord
      /\ s = "token" => call[c].todo \in {<<"token", "discovered">>, <<"token", "trade">>,
                                          <<"token", "lifecycle">>}
      /\ s # "token" => call[c].todo \in {<<"discovered">>, <<"trade">>, <<"lifecycle">>}
  BY <1>1, WhatRuns
<1>4. /\ call[c].cache = "none" /\ call[c].row \in DOMAIN raw_events
      /\ call[c].token = TokenOf[call[c].row] /\ call[c].token \in Tokens
  BY <1>3 DEF EventCall, CallRecord
<1>5. \A k, x : RowsOf(k, x)' = RowsOf(k, x)
  BY <1>2, RowsStay DEF research_tables
<1>6. CASE s = "token"
  <2>1. ensure_token(c)
    <3>1. Head(call[c].todo) = "token"
      BY <1>1, <1>6 DEF Runs
    <3> QED
      BY <3>1 DEF discovered_row, trade_row, lifecycle_row, Runs
  <2>2. tokens' = tokens \cup {call[c].token}
        /\ UNCHANGED <<token_discovered, token_trades, lifecycle_events>>
    BY <2>1 DEF ensure_token
  <2>3. TypeOK'
    BY <1>2, <1>4, <1>5, <2>2
       DEF IInv, TypeOK, collection_tables, research_tables, row_tables
  <2>4. Len(call[c].todo) = 2
        /\ Tail(call[c].todo) \in {<<"discovered">>, <<"trade">>, <<"lifecycle">>}
    <3> DEFINE todo == call[c].todo
    <3>1. todo \in {<<"token", "discovered">>, <<"token", "trade">>, <<"token", "lifecycle">>}
      BY <1>3, <1>6
    <3> HIDE DEF todo
    <3>2. Len(todo) = 2 /\ Tail(todo) \in {<<"discovered">>, <<"trade">>, <<"lifecycle">>}
      BY <3>1, Todo, Zenon
    <3> QED
      BY <3>2 DEF todo
  <2>5. ASSUME call'[c] # Idle PROVE CallOK(c)' /\ call'[c].todo # <<"current">>
    <3>1. /\ call'[c] \in CallRecord /\ call'[c].todo = Tail(call[c].todo)
          /\ call'[c].cache = "none" /\ call'[c].token = call[c].token
          /\ call'[c].row = call[c].row
      <4>1. Len(call[c].todo) > 1
        BY <2>4
      <4> QED
        BY <1>2, <1>3, <1>4, <2>5, <4>1, Ran
    <3>2. call'[c].todo \in EventTodo /\ call'[c].todo # <<"current">>
      BY <2>4, <3>1, Todo DEF EventTodo
    <3>3. EventCall(c)'
      BY <1>2, <1>3, <1>4, <2>2, <3>1, <3>2 DEF EventCall
    <3> QED
      BY <3>1, <3>2, <3>3 DEF CallOK
  <2>6. CallOK(c)'
    BY <2>5 DEF CallOK
  <2> QED
    BY <1>2, <1>5, <2>2, <2>3, <2>4, <2>5, <2>6, StatementOK DEF research_tables, row_tables
<1>7. CASE s # "token"
  <2>1. discovered_row(c) \/ trade_row(c) \/ lifecycle_row(c)
    <3>1. Head(call[c].todo) # "token"
      BY <1>1, <1>7 DEF Runs
    <3> QED
      BY <3>1 DEF ensure_token, Runs
  <2>2. call[c].token \in tokens
    BY <1>3, <1>7 DEF EventCall
  <2>3. TypeOK'
    <3>1. /\ tokens' = tokens
          /\ \/ token_discovered' = token_discovered \cup {call[c].row}
                /\ UNCHANGED <<token_trades, lifecycle_events>>
             \/ token_trades' = token_trades \cup {call[c].row}
                /\ UNCHANGED <<token_discovered, lifecycle_events>>
             \/ lifecycle_events' = lifecycle_events \cup {call[c].row}
                /\ UNCHANGED <<token_discovered, token_trades>>
      BY <2>1 DEF discovered_row, trade_row, lifecycle_row
    <3>2. token_discovered' \cup token_trades' \cup lifecycle_events'
            = token_discovered \cup token_trades \cup lifecycle_events \cup {call[c].row}
      BY <3>1
    <3> QED
      BY <1>2, <1>4, <1>5, <2>2, <3>1, <3>2
         DEF IInv, TypeOK, collection_tables, research_tables, row_tables
  <2>4. Len(call[c].todo) = 1
    BY <1>3, <1>7, Todo
  <2>5. call'[c] = Idle
    BY <1>2, <1>3, <2>4, Advanced DEF IInv
  <2>6. call'[c].todo # <<"current">> /\ CallOK(c)'
    BY <2>5, Todo DEF Idle, CallOK
  <2>7. tokens' = tokens
    BY <2>1 DEF discovered_row, trade_row, lifecycle_row
  <2> QED
    BY <1>2, <1>4, <1>5, <2>3, <2>6, <2>7, StatementOK DEF research_tables, row_tables
<1> QED
  BY <1>6, <1>7

(* A row that is appended is the newest of its token.                      *)
LEMMA SupersedeOK ==
  ASSUME IInv, NEW c \in Clients, mark_snapshots_superseded(c) PROVE IInv'
<1>1. /\ StateCall(c) /\ CallOK(c) /\ call[c] \in CallRecord
      /\ call[c].todo = <<"supersede", "snapshot", "current">>
      /\ call[c] # Idle
  BY WhatRuns DEF mark_snapshots_superseded, Runs
<1>2. /\ Advance(c, 0)
      /\ UNCHANGED <<event_tables, collection_tables, security_assessments,
                     feature_vectors, candidate_state_transitions, current>>
      /\ token_state_snapshots' = Supersede(token_state_snapshots, call[c].token)
  BY DEF mark_snapshots_superseded
<1> DEFINE Row == [token : Tokens, shot : Shots, superseded : BOOLEAN]
<1>3. token_state_snapshots \in Seq(Row)
  BY DEF IInv, TypeOK
<1>4. /\ DOMAIN token_state_snapshots' = DOMAIN token_state_snapshots
      /\ token_state_snapshots' \in Seq(Row)
      /\ \A i \in DOMAIN token_state_snapshots :
           /\ token_state_snapshots'[i].token = token_state_snapshots[i].token
           /\ token_state_snapshots[i].token # call[c].token =>
                token_state_snapshots'[i] = token_state_snapshots[i]
  <2>1. /\ DOMAIN token_state_snapshots' = 1 .. Len(token_state_snapshots)
        /\ DOMAIN token_state_snapshots = 1 .. Len(token_state_snapshots)
    BY <1>2, <1>3 DEF Supersede
  <2>2. ASSUME NEW i \in DOMAIN token_state_snapshots
        PROVE  /\ token_state_snapshots'[i] \in Row
               /\ token_state_snapshots'[i].token = token_state_snapshots[i].token
               /\ token_state_snapshots[i].token # call[c].token =>
                    token_state_snapshots'[i] = token_state_snapshots[i]
    <3>1. token_state_snapshots[i] \in Row
      BY <1>3, Element
    <3>2. CASE token_state_snapshots[i].token = call[c].token
      <4>1. token_state_snapshots'[i] = [token_state_snapshots[i] EXCEPT !.superseded = TRUE]
        BY <1>2, <3>2 DEF Supersede
      <4> QED
        BY <3>1, <3>2, <4>1
    <3>3. CASE token_state_snapshots[i].token # call[c].token
      BY <1>2, <3>1, <3>3 DEF Supersede
    <3> QED
      BY <3>2, <3>3
  <2>3. token_state_snapshots' = [i \in 1 .. Len(token_state_snapshots) |->
                                    token_state_snapshots'[i]]
    BY <1>2, <2>1 DEF Supersede
  <2>4. Len(token_state_snapshots) \in Nat
    BY <1>3
  <2>5. token_state_snapshots' \in [1 .. Len(token_state_snapshots) -> Row]
    BY <2>1, <2>2, <2>3
  <2>6. token_state_snapshots' \in Seq(Row)
    BY <2>4, <2>5, IsSeq
  <2> QED
    BY <2>1, <2>2, <2>6
<1>5. ASSUME NEW k \in Caches, NEW x PROVE RowsOf(k, x)' = RowsOf(k, x)
  <2>1. {i \in DOMAIN token_state_snapshots' : token_state_snapshots'[i].token = x}
          = {i \in DOMAIN token_state_snapshots : token_state_snapshots[i].token = x}
    BY <1>4
  <2>2. RowsOf("state", x)' = RowsOf("state", x)
    BY <2>1, Rows, RowsPrimed, Zenon
  <2>3. /\ RowsOf("security", x)' = RowsOf("security", x)
        /\ RowsOf("features", x)' = RowsOf("features", x)
        /\ RowsOf("candidate", x)' = RowsOf("candidate", x)
    <3>1. UNCHANGED <<security_assessments, feature_vectors, candidate_state_transitions>>
      BY <1>2
    <3>2. /\ security_assessments' = security_assessments
          /\ feature_vectors' = feature_vectors
          /\ candidate_state_transitions' = candidate_state_transitions
      BY <3>1
    <3> QED
      BY <3>2, Zenon DEF RowsOf
  <2> QED
    BY <2>2, <2>3, Zenon DEF Caches
<1>6. TypeOK'
  BY <1>2, <1>4, <1>5 DEF IInv, TypeOK, collection_tables, event_tables
<1>7. ASSUME call'[c] # Idle PROVE CallOK(c)' /\ call'[c].todo # <<"current">>
  <2>1. /\ call'[c] \in CallRecord /\ call'[c].todo = <<"snapshot", "current">>
        /\ call'[c].cache = "state" /\ call'[c].row = call[c].row
    <3>1. /\ Len(call[c].todo) > 1 /\ call[c].cache = "state"
          /\ Tail(call[c].todo) = <<"snapshot", "current">>
      BY <1>1, Todo DEF StateCall
    <3> QED
      BY <1>1, <1>2, <1>7, <3>1, Ran
  <2>2. StateCall(c)' /\ call'[c].todo # <<"current">>
    BY <1>1, <2>1, Todo DEF StateCall, StateTodo
  <2> QED
    BY <2>1, <2>2 DEF CallOK
<1>8. CallOK(c)'
  BY <1>7 DEF CallOK
<1>9. ASSUME NEW k \in Caches, NEW x \in Tokens
      PROVE  /\ RowsOf(k, x) \subseteq RowsOf(k, x)'
             /\ k # call[c].cache \/ x # call[c].token =>
                  /\ RowsOf(k, x)' = RowsOf(k, x)
                  /\ k = "state" => \A i \in RowsOf(k, x) :
                       token_state_snapshots'[i].superseded = token_state_snapshots[i].superseded
  <2>1. call[c].cache = "state"
    BY <1>1 DEF StateCall
  <2>2. x # call[c].token =>
          \A i \in RowsOf("state", x) : token_state_snapshots'[i] = token_state_snapshots[i]
    BY <1>4, Rows
  <2> QED
    BY <1>5, <2>1, <2>2
<1> QED
  BY <1>1, <1>2, <1>6, <1>7, <1>8, <1>9, StatementOK, Todo DEF event_tables

LEMMA Appended ==
  ASSUME NEW S, NEW s \in Seq(S), NEW e \in S
  PROVE  /\ Append(s, e) \in Seq(S) /\ Len(s) + 1 \in Nat
         /\ DOMAIN Append(s, e) = DOMAIN s \cup {Len(s) + 1}
         /\ \A i \in DOMAIN s : Append(s, e)[i] = s[i] /\ i <= Len(s) + 1
         /\ Append(s, e)[Len(s) + 1] = e
OBVIOUS

(* An insert appends a row, which is the newest of its token, and leaves   *)
(* the upsert of the cache to run.                                         *)
LEMMA InsertOK ==
  ASSUME IInv, NEW c \in Clients, NEW id \in Nat, Advance(c, id), call[c] # Idle,
         call[c] \in CallRecord,
         StateCall(c) \/ SecurityCall(c) \/ FeatureCall(c) \/ CandidateCall(c),
         Len(call[c].todo) = 2, Tail(call[c].todo) = <<"current">>,
         UNCHANGED <<event_tables, collection_tables, current>>,
         token_state_snapshots' \in Seq([token : Tokens, shot : Shots, superseded : BOOLEAN]),
         security_assessments' \in Seq(Tokens),
         candidate_state_transitions' \in Seq(Tokens),
         feature_vectors' \in Seq([token : Tokens, time : Times]),
         \A k \in Caches, x \in Tokens :
           RowsOf(k, x)' = IF k = call[c].cache /\ x = call[c].token
                           THEN RowsOf(k, x) \cup {id} ELSE RowsOf(k, x),
         \A i \in RowsOf(call[c].cache, call[c].token) : i <= id,
         \A x \in Tokens : \A i \in RowsOf("state", x) :
           token_state_snapshots'[i] = token_state_snapshots[i],
         call[c].cache = "state" => ~token_state_snapshots'[id].superseded
  PROVE  IInv'
<1>1. call[c].cache \in Caches /\ call[c].token \in Tokens
  BY DEF StateCall, SecurityCall, FeatureCall, CandidateCall, Caches, CallRecord
<1>2. TypeOK'
  <2>1. \A k \in Caches, x \in Tokens : current'[k][x] \in RowsOf(k, x)' \cup {0}
    <3>1. \A k \in Caches, x \in Tokens : current[k][x] \in RowsOf(k, x) \cup {0}
      BY DEF IInv, TypeOK
    <3>2. \A k \in Caches, x \in Tokens : RowsOf(k, x) \subseteq RowsOf(k, x)'
      OBVIOUS
    <3> QED
      BY <3>1, <3>2
  <2> QED
    BY <2>1 DEF IInv, TypeOK, event_tables, collection_tables
<1>3. ASSUME call'[c] # Idle PROVE CallOK(c)' /\ Newest(call[c].cache, call[c].token, id)'
  <2>1. /\ call'[c] \in CallRecord /\ call'[c].todo = <<"current">> /\ call'[c].id = id
        /\ call'[c].cache = call[c].cache /\ call'[c].token = call[c].token
        /\ call'[c].row = call[c].row
    <3>1. Len(call[c].todo) > 1
      OBVIOUS
    <3> QED
      BY <1>3, <3>1, Ran
  <2>2. StateCall(c)' \/ SecurityCall(c)' \/ FeatureCall(c)' \/ CandidateCall(c)'
    BY <2>1 DEF StateCall, SecurityCall, FeatureCall, CandidateCall, StateTodo
  <2>3. PICK k \in Caches, x \in Tokens : k = call[c].cache /\ x = call[c].token
    BY <1>1
  <2>4. id \in RowsOf(k, x)' /\ \A i \in RowsOf(k, x)' : i <= id
    BY <2>3
  <2>5. CallOK(c)'
    BY <2>1, <2>2, <2>3, <2>4 DEF CallOK
  <2>6. Newest(k, x, id)'
    BY <2>3, <2>4 DEF Newest
  <2> QED
    BY <2>1, <2>3, <2>5, <2>6
<1>4. CallOK(c)'
  BY <1>3 DEF CallOK
<1>5. ASSUME NEW k \in Caches, NEW x \in Tokens
      PROVE  /\ RowsOf(k, x) \subseteq RowsOf(k, x)'
             /\ k # call[c].cache \/ x # call[c].token =>
                  /\ RowsOf(k, x)' = RowsOf(k, x)
                  /\ k = "state" => \A i \in RowsOf(k, x) :
                       token_state_snapshots'[i].superseded = token_state_snapshots[i].superseded
  <2>1. RowsOf(k, x)' = IF k = call[c].cache /\ x = call[c].token
                        THEN RowsOf(k, x) \cup {id} ELSE RowsOf(k, x)
    OBVIOUS
  <2>2. k = "state" => \A i \in RowsOf(k, x) :
          token_state_snapshots'[i].superseded = token_state_snapshots[i].superseded
    OBVIOUS
  <2> QED
    BY <2>1, <2>2
<1>6. raw_events' = raw_events /\ tokens' = tokens /\ Len(call[c].todo) # 1
  BY DEF event_tables
<1> QED
  BY <1>2, <1>3, <1>4, <1>5, <1>6, StatementOK

LEMMA SnapshotOK ==
  ASSUME IInv, NEW c \in Clients, insert_snapshot(c) PROVE IInv'
<1>1. /\ StateCall(c) /\ call[c] \in CallRecord /\ call[c] # Idle
      /\ Len(call[c].todo) = 2 /\ Tail(call[c].todo) = <<"current">>
  <2>1. Runs(c, "snapshot")
    BY DEF insert_snapshot
  <2>2. call[c].todo = <<"snapshot", "current">> /\ StateCall(c) /\ call[c] \in CallRecord
    BY <2>1, WhatRuns
  <2> QED
    BY <2>1, <2>2, Todo DEF Runs
<1> DEFINE Row == [token : Tokens, shot : Shots, superseded : BOOLEAN]
           id == Len(token_state_snapshots) + 1
           new == [token |-> call[c].token, shot |-> call[c].row, superseded |-> FALSE]
<1>2. /\ Advance(c, id) /\ token_state_snapshots' = Append(token_state_snapshots, new)
      /\ UNCHANGED <<event_tables, collection_tables, security_assessments,
                     feature_vectors, candidate_state_transitions, current>>
  BY DEF insert_snapshot
<1>3. token_state_snapshots \in Seq(Row) /\ new \in Row
      /\ security_assessments \in Seq(Tokens)
      /\ candidate_state_transitions \in Seq(Tokens)
      /\ feature_vectors \in Seq([token : Tokens, time : Times])
  BY <1>1 DEF IInv, TypeOK, StateCall, CallRecord
<1> HIDE DEF Row, new, id
<1>4. /\ token_state_snapshots' \in Seq(Row) /\ id \in Nat
      /\ DOMAIN token_state_snapshots' = DOMAIN token_state_snapshots \cup {id}
      /\ \A i \in DOMAIN token_state_snapshots :
           token_state_snapshots'[i] = token_state_snapshots[i] /\ i <= id
      /\ token_state_snapshots'[id] = new
  BY <1>2, <1>3, Appended DEF id
<1>5. new.token = call[c].token /\ ~new.superseded
  BY DEF new
<1>6. ASSUME NEW x \in Tokens
      PROVE  /\ \A i \in RowsOf("state", x) :
                  token_state_snapshots'[i] = token_state_snapshots[i] /\ i <= id
             /\ RowsOf("state", x)' = IF x = call[c].token THEN RowsOf("state", x) \cup {id}
                                      ELSE RowsOf("state", x)
  <2> DEFINE R == {i \in DOMAIN token_state_snapshots : token_state_snapshots[i].token = x}
             P == {i \in DOMAIN token_state_snapshots' : token_state_snapshots'[i].token = x}
  <2>1. /\ \A i \in R : token_state_snapshots'[i] = token_state_snapshots[i] /\ i <= id
        /\ P = IF x = call[c].token THEN R \cup {id} ELSE R
    BY <1>4, <1>5
  <2>2. RowsOf("state", x) = R /\ RowsOf("state", x)' = P
    BY Rows, RowsPrimed, Zenon
  <2> HIDE DEF R, P
  <2> QED
    BY <2>1, <2>2
<1>7. /\ security_assessments' = security_assessments
      /\ feature_vectors' = feature_vectors
      /\ candidate_state_transitions' = candidate_state_transitions
  BY <1>2
<1>8. ASSUME NEW k \in Caches, NEW x \in Tokens
      PROVE  RowsOf(k, x)' = IF k = call[c].cache /\ x = call[c].token
                             THEN RowsOf(k, x) \cup {id} ELSE RowsOf(k, x)
  <2>1. call[c].cache = "state"
    BY <1>1 DEF StateCall
  <2>2. k # "state" => RowsOf(k, x)' = RowsOf(k, x)
    <3>1. /\ RowsOf("security", x)' = RowsOf("security", x)
          /\ RowsOf("features", x)' = RowsOf("features", x)
          /\ RowsOf("candidate", x)' = RowsOf("candidate", x)
      BY <1>7, Zenon DEF RowsOf
    <3> QED
      BY <3>1, Zenon DEF Caches
  <2>3. CASE k = "state"
    BY <1>6, <2>1, <2>3
  <2>4. CASE k # "state"
    BY <2>1, <2>2, <2>4
  <2> QED
    BY <2>3, <2>4
<1>9. /\ call[c].cache = "state" /\ call[c].token \in Tokens
      /\ ~token_state_snapshots'[id].superseded
  BY <1>1, <1>4, <1>5 DEF StateCall, CallRecord
<1>10. /\ \A i \in RowsOf(call[c].cache, call[c].token) : i <= id
       /\ \A x \in Tokens : \A i \in RowsOf("state", x) :
            token_state_snapshots'[i] = token_state_snapshots[i]
       /\ UNCHANGED <<event_tables, collection_tables, current>>
       /\ token_state_snapshots' \in Seq([token : Tokens, shot : Shots, superseded : BOOLEAN])
  BY <1>2, <1>4, <1>6, <1>9 DEF Row
<1>11. /\ security_assessments' \in Seq(Tokens)
       /\ candidate_state_transitions' \in Seq(Tokens)
       /\ feature_vectors' \in Seq([token : Tokens, time : Times])
  BY <1>3, <1>7
<1> QED
  BY <1>1, <1>2, <1>4, <1>8, <1>9, <1>10, <1>11, InsertOK

LEMMA AssessmentOK ==
  ASSUME IInv, NEW c \in Clients, assessment_row(c) PROVE IInv'
<1>1. /\ SecurityCall(c) /\ call[c] \in CallRecord /\ call[c] # Idle
      /\ Len(call[c].todo) = 2 /\ Tail(call[c].todo) = <<"current">>
  <2>1. Runs(c, "assessment")
    BY DEF assessment_row
  <2>2. call[c].todo = <<"assessment", "current">> /\ SecurityCall(c) /\ call[c] \in CallRecord
    BY <2>1, WhatRuns
  <2> QED
    BY <2>1, <2>2, Todo DEF Runs
<1> DEFINE id == Len(security_assessments) + 1
           new == call[c].token
<1>2. /\ Advance(c, id) /\ security_assessments' = Append(security_assessments, new)
      /\ UNCHANGED <<event_tables, collection_tables, token_state_snapshots, feature_vectors,
                     candidate_state_transitions, current>>
  BY DEF assessment_row
<1>3. /\ security_assessments \in Seq(Tokens) /\ new \in Tokens
      /\ token_state_snapshots \in Seq([token : Tokens, shot : Shots, superseded : BOOLEAN])
      /\ feature_vectors \in Seq([token : Tokens, time : Times]) /\ candidate_state_transitions \in Seq(Tokens)
  BY <1>1 DEF IInv, TypeOK, SecurityCall, CallRecord
<1> HIDE DEF new, id
<1>4. /\ security_assessments' \in Seq(Tokens) /\ id \in Nat
      /\ DOMAIN security_assessments' = DOMAIN security_assessments \cup {id}
      /\ \A i \in DOMAIN security_assessments :
           security_assessments'[i] = security_assessments[i] /\ i <= id
      /\ security_assessments'[id] = new
  BY <1>2, <1>3, Appended DEF id
<1>5. new = call[c].token
  BY DEF new
<1>6. ASSUME NEW x \in Tokens
      PROVE  /\ \A i \in RowsOf("security", x) : i <= id
             /\ RowsOf("security", x)' = IF x = call[c].token THEN RowsOf("security", x) \cup {id}
                  ELSE RowsOf("security", x)
  <2> DEFINE R == {i \in DOMAIN security_assessments : security_assessments[i] = x}
             P == {i \in DOMAIN security_assessments' : security_assessments'[i] = x}
  <2>1. /\ \A i \in R : i <= id
        /\ P = IF x = call[c].token THEN R \cup {id} ELSE R
    BY <1>4, <1>5
  <2>2. RowsOf("security", x) = R /\ RowsOf("security", x)' = P
    BY Rows, RowsPrimed, Zenon
  <2> HIDE DEF R, P
  <2> QED
    BY <2>1, <2>2
<1>7. /\ token_state_snapshots' = token_state_snapshots /\ feature_vectors' = feature_vectors
      /\ candidate_state_transitions' = candidate_state_transitions
  BY <1>2
<1>8. ASSUME NEW k \in Caches, NEW x \in Tokens
      PROVE  RowsOf(k, x)' = IF k = call[c].cache /\ x = call[c].token
                             THEN RowsOf(k, x) \cup {id} ELSE RowsOf(k, x)
  <2>1. call[c].cache = "security"
    BY <1>1 DEF SecurityCall
  <2>2. k # "security" => RowsOf(k, x)' = RowsOf(k, x)
    <3>1. /\ RowsOf("state", x)' = RowsOf("state", x)
          /\ RowsOf("features", x)' = RowsOf("features", x)
          /\ RowsOf("candidate", x)' = RowsOf("candidate", x)
      BY <1>7, Zenon DEF RowsOf
    <3> QED
      BY <3>1, Zenon DEF Caches
  <2>3. CASE k = "security"
    BY <1>6, <2>1, <2>3
  <2>4. CASE k # "security"
    BY <2>1, <2>2, <2>4
  <2> QED
    BY <2>3, <2>4
<1>9. call[c].cache = "security" /\ call[c].token \in Tokens
  BY <1>1 DEF SecurityCall, CallRecord
<1>10. /\ \A i \in RowsOf(call[c].cache, call[c].token) : i <= id
       /\ \A x \in Tokens : \A i \in RowsOf("state", x) :
            token_state_snapshots'[i] = token_state_snapshots[i]
       /\ UNCHANGED <<event_tables, collection_tables, current>>
  BY <1>2, <1>6, <1>7, <1>9
<1>11. /\ feature_vectors' \in Seq([token : Tokens, time : Times]) /\ candidate_state_transitions' \in Seq(Tokens)
       /\ token_state_snapshots' \in Seq([token : Tokens, shot : Shots, superseded : BOOLEAN])
  BY <1>3, <1>7
<1> QED
  BY <1>1, <1>2, <1>4, <1>8, <1>9, <1>10, <1>11, InsertOK

LEMMA TransitionOK ==
  ASSUME IInv, NEW c \in Clients, transition_row(c) PROVE IInv'
<1>1. /\ CandidateCall(c) /\ call[c] \in CallRecord /\ call[c] # Idle
      /\ Len(call[c].todo) = 2 /\ Tail(call[c].todo) = <<"current">>
  <2>1. Runs(c, "transition")
    BY DEF transition_row
  <2>2. call[c].todo = <<"transition", "current">> /\ CandidateCall(c) /\ call[c] \in CallRecord
    BY <2>1, WhatRuns
  <2> QED
    BY <2>1, <2>2, Todo DEF Runs
<1> DEFINE id == Len(candidate_state_transitions) + 1
           new == call[c].token
<1>2. /\ Advance(c, id) /\ candidate_state_transitions' = Append(candidate_state_transitions, new)
      /\ UNCHANGED <<event_tables, collection_tables, token_state_snapshots, security_assessments,
                     feature_vectors, current>>
  BY DEF transition_row
<1>3. /\ candidate_state_transitions \in Seq(Tokens) /\ new \in Tokens
      /\ token_state_snapshots \in Seq([token : Tokens, shot : Shots, superseded : BOOLEAN])
      /\ security_assessments \in Seq(Tokens) /\ feature_vectors \in Seq([token : Tokens, time : Times])
  BY <1>1 DEF IInv, TypeOK, CandidateCall, CallRecord
<1> HIDE DEF new, id
<1>4. /\ candidate_state_transitions' \in Seq(Tokens) /\ id \in Nat
      /\ DOMAIN candidate_state_transitions' = DOMAIN candidate_state_transitions \cup {id}
      /\ \A i \in DOMAIN candidate_state_transitions :
           candidate_state_transitions'[i] = candidate_state_transitions[i] /\ i <= id
      /\ candidate_state_transitions'[id] = new
  BY <1>2, <1>3, Appended DEF id
<1>5. new = call[c].token
  BY DEF new
<1>6. ASSUME NEW x \in Tokens
      PROVE  /\ \A i \in RowsOf("candidate", x) : i <= id
             /\ RowsOf("candidate", x)' = IF x = call[c].token THEN RowsOf("candidate", x) \cup {id}
                  ELSE RowsOf("candidate", x)
  <2> DEFINE R == {i \in DOMAIN candidate_state_transitions : candidate_state_transitions[i] = x}
             P == {i \in DOMAIN candidate_state_transitions' : candidate_state_transitions'[i] = x}
  <2>1. /\ \A i \in R : i <= id
        /\ P = IF x = call[c].token THEN R \cup {id} ELSE R
    BY <1>4, <1>5
  <2>2. RowsOf("candidate", x) = R /\ RowsOf("candidate", x)' = P
    BY Rows, RowsPrimed, Zenon
  <2> HIDE DEF R, P
  <2> QED
    BY <2>1, <2>2
<1>7. /\ token_state_snapshots' = token_state_snapshots /\ security_assessments' = security_assessments
      /\ feature_vectors' = feature_vectors
  BY <1>2
<1>8. ASSUME NEW k \in Caches, NEW x \in Tokens
      PROVE  RowsOf(k, x)' = IF k = call[c].cache /\ x = call[c].token
                             THEN RowsOf(k, x) \cup {id} ELSE RowsOf(k, x)
  <2>1. call[c].cache = "candidate"
    BY <1>1 DEF CandidateCall
  <2>2. k # "candidate" => RowsOf(k, x)' = RowsOf(k, x)
    <3>1. /\ RowsOf("state", x)' = RowsOf("state", x)
          /\ RowsOf("security", x)' = RowsOf("security", x)
          /\ RowsOf("features", x)' = RowsOf("features", x)
      BY <1>7, Zenon DEF RowsOf
    <3> QED
      BY <3>1, Zenon DEF Caches
  <2>3. CASE k = "candidate"
    BY <1>6, <2>1, <2>3
  <2>4. CASE k # "candidate"
    BY <2>1, <2>2, <2>4
  <2> QED
    BY <2>3, <2>4
<1>9. call[c].cache = "candidate" /\ call[c].token \in Tokens
  BY <1>1 DEF CandidateCall, CallRecord
<1>10. /\ \A i \in RowsOf(call[c].cache, call[c].token) : i <= id
       /\ \A x \in Tokens : \A i \in RowsOf("state", x) :
            token_state_snapshots'[i] = token_state_snapshots[i]
       /\ UNCHANGED <<event_tables, collection_tables, current>>
  BY <1>2, <1>6, <1>7, <1>9
<1>11. /\ security_assessments' \in Seq(Tokens) /\ feature_vectors' \in Seq([token : Tokens, time : Times])
       /\ token_state_snapshots' \in Seq([token : Tokens, shot : Shots, superseded : BOOLEAN])
  BY <1>3, <1>7
<1> QED
  BY <1>1, <1>2, <1>4, <1>8, <1>9, <1>10, <1>11, InsertOK

LEMMA VectorOK ==
  ASSUME IInv, NEW c \in Clients, vector_row(c) PROVE IInv'
<1>1. /\ FeatureCall(c) /\ call[c] \in CallRecord /\ call[c] # Idle
      /\ Len(call[c].todo) = 2 /\ Tail(call[c].todo) = <<"current">>
  <2>1. Runs(c, "vector")
    BY DEF vector_row
  <2>2. call[c].todo = <<"vector", "current">> /\ FeatureCall(c) /\ call[c] \in CallRecord
    BY <2>1, WhatRuns
  <2> QED
    BY <2>1, <2>2, Todo DEF Runs
<1> DEFINE id == Len(feature_vectors) + 1
           new == [token |-> call[c].token, time |-> call[c].row]
<1>2. /\ Advance(c, id) /\ feature_vectors' = Append(feature_vectors, new)
      /\ UNCHANGED <<event_tables, collection_tables, token_state_snapshots, security_assessments,
                     candidate_state_transitions, current>>
  BY DEF vector_row
<1>3. /\ feature_vectors \in Seq([token : Tokens, time : Times]) /\ new \in [token : Tokens, time : Times]
      /\ token_state_snapshots \in Seq([token : Tokens, shot : Shots, superseded : BOOLEAN])
      /\ security_assessments \in Seq(Tokens) /\ candidate_state_transitions \in Seq(Tokens)
  BY <1>1 DEF IInv, TypeOK, FeatureCall, CallRecord
<1> HIDE DEF new, id
<1>4. /\ feature_vectors' \in Seq([token : Tokens, time : Times]) /\ id \in Nat
      /\ DOMAIN feature_vectors' = DOMAIN feature_vectors \cup {id}
      /\ \A i \in DOMAIN feature_vectors :
           feature_vectors'[i] = feature_vectors[i] /\ i <= id
      /\ feature_vectors'[id] = new
  BY <1>2, <1>3, Appended DEF id
<1>5. new.token = call[c].token
  BY DEF new
<1>6. ASSUME NEW x \in Tokens
      PROVE  /\ \A i \in RowsOf("features", x) : i <= id
             /\ RowsOf("features", x)' = IF x = call[c].token THEN RowsOf("features", x) \cup {id}
                  ELSE RowsOf("features", x)
  <2> DEFINE R == {i \in DOMAIN feature_vectors : feature_vectors[i].token = x}
             P == {i \in DOMAIN feature_vectors' : feature_vectors'[i].token = x}
  <2>1. /\ \A i \in R : i <= id
        /\ P = IF x = call[c].token THEN R \cup {id} ELSE R
    BY <1>4, <1>5
  <2>2. RowsOf("features", x) = R /\ RowsOf("features", x)' = P
    BY Rows, RowsPrimed, Zenon
  <2> HIDE DEF R, P
  <2> QED
    BY <2>1, <2>2
<1>7. /\ token_state_snapshots' = token_state_snapshots /\ security_assessments' = security_assessments
      /\ candidate_state_transitions' = candidate_state_transitions
  BY <1>2
<1>8. ASSUME NEW k \in Caches, NEW x \in Tokens
      PROVE  RowsOf(k, x)' = IF k = call[c].cache /\ x = call[c].token
                             THEN RowsOf(k, x) \cup {id} ELSE RowsOf(k, x)
  <2>1. call[c].cache = "features"
    BY <1>1 DEF FeatureCall
  <2>2. k # "features" => RowsOf(k, x)' = RowsOf(k, x)
    <3>1. /\ RowsOf("state", x)' = RowsOf("state", x)
          /\ RowsOf("security", x)' = RowsOf("security", x)
          /\ RowsOf("candidate", x)' = RowsOf("candidate", x)
      BY <1>7, Zenon DEF RowsOf
    <3> QED
      BY <3>1, Zenon DEF Caches
  <2>3. CASE k = "features"
    BY <1>6, <2>1, <2>3
  <2>4. CASE k # "features"
    BY <2>1, <2>2, <2>4
  <2> QED
    BY <2>3, <2>4
<1>9. call[c].cache = "features" /\ call[c].token \in Tokens
  BY <1>1 DEF FeatureCall, CallRecord
<1>10. /\ \A i \in RowsOf(call[c].cache, call[c].token) : i <= id
       /\ \A x \in Tokens : \A i \in RowsOf("state", x) :
            token_state_snapshots'[i] = token_state_snapshots[i]
       /\ UNCHANGED <<event_tables, collection_tables, current>>
  BY <1>2, <1>6, <1>7, <1>9
<1>11. /\ security_assessments' \in Seq(Tokens) /\ candidate_state_transitions' \in Seq(Tokens)
       /\ token_state_snapshots' \in Seq([token : Tokens, shot : Shots, superseded : BOOLEAN])
  BY <1>3, <1>7
<1> QED
  BY <1>1, <1>2, <1>4, <1>8, <1>9, <1>10, <1>11, InsertOK

(* The upsert ends its call, and the cache names the row it inserted.      *)
LEMMA UpsertOK ==
  ASSUME IInv, NEW c \in Clients, upsert_current(c) PROVE IInv'
<1>1. /\ call[c] # Idle /\ call[c] \in CallRecord /\ CallOK(c)
      /\ call[c].todo = <<"current">> /\ call[c].cache \in Caches
  <2>1. Runs(c, "current")
    BY DEF upsert_current
  <2> QED
    BY <2>1, WhatRuns DEF Runs
<1>2. PICK k \in Caches, x \in Tokens : k = call[c].cache /\ x = call[c].token
  BY <1>1 DEF CallRecord
<1>3. PICK id \in Nat : id = call[c].id /\ id \in RowsOf(k, x)
  BY <1>1, <1>2 DEF CallRecord, CallOK
<1>4. /\ current' = [current EXCEPT ![k][x] = id] /\ Advance(c, 0)
      /\ UNCHANGED <<event_tables, collection_tables, row_tables>>
  BY <1>2, <1>3 DEF upsert_current
<1>5. /\ current' \in [Caches -> [Tokens -> Nat]] /\ current'[k][x] = id
      /\ \A j \in Caches, y \in Tokens :
           j # k \/ y # x => current'[j][y] = current[j][y]
  BY <1>4 DEF IInv
<1>6. /\ DOMAIN call' = Clients /\ call'[c] = Idle
      /\ \A d \in Clients \ {c} : call'[d] = call[d]
      /\ torn' = torn \/ torn' = torn \cup {<<k, x>>}
  <2>1. Len(call[c].todo) = 1
    BY <1>1, Todo
  <2> QED
    BY <1>1, <1>2, <1>4, <2>1, Advanced DEF IInv
<1>7. \A j, y : RowsOf(j, y)' = RowsOf(j, y)
  BY <1>4, RowsStay
<1>8. TypeOK'
  <2>1. \A j \in Caches, y \in Tokens : current'[j][y] \in RowsOf(j, y)' \cup {0}
    BY <1>3, <1>5, <1>7 DEF IInv, TypeOK
  <2> QED
    BY <1>4, <2>1 DEF IInv, TypeOK, event_tables, collection_tables, row_tables
<1>9. ASSUME NEW d \in Clients PROVE CallOK(d)'
  <2>1. CASE d = c
    BY <1>6, <2>1 DEF CallOK
  <2>2. CASE d # c
    BY <1>4, <1>6, <1>7, <2>2, OtherCall DEF IInv, event_tables
  <2> QED
    BY <2>1, <2>2
<1>10. ASSUME NEW j \in Caches, NEW y \in Tokens PROVE CacheOK(j, y)'
  <2>1. CacheOK(j, y)
    BY DEF IInv
  <2>2. CASE j = k /\ y = x
    <3> SUFFICES ASSUME <<k, x>> \notin torn PROVE CacheOK(k, x)'
      BY <1>6, <2>2 DEF CacheOK
    <3>1. Flying(c, k, x)
      BY <1>1, <1>2 DEF Flying
    <3>2. /\ \A d \in Clients : Flying(d, k, x) => d = c
          /\ Newest(k, x, id)
      BY <1>1, <1>3, <2>1, <2>2, <3>1 DEF CacheOK
    <3>3. \A d \in Clients : ~Flying(d, k, x)'
      BY <1>6, <3>2 DEF Flying
    <3>4. token_state_snapshots' = token_state_snapshots
      BY <1>4 DEF row_tables
    <3>5. Newest(k, x, id)'
      BY <1>7, <3>2, <3>4 DEF Newest
    <3>6. Newest(k, x, current[k][x])'
      BY <1>5, <3>5
    <3> QED
      BY <3>3, <3>6 DEF CacheOK
  <2>3. CASE j # k \/ y # x
    <3>1. ~Flying(c, j, y) /\ ~Flying(c, j, y)'
      BY <1>2, <1>6, <2>3 DEF Flying
    <3>2. /\ <<j, y>> \in torn => <<j, y>> \in torn'
          /\ current'[j][y] = current[j][y] /\ token_state_snapshots' = token_state_snapshots
      BY <1>4, <1>5, <1>6, <2>3 DEF row_tables
    <3> QED
      BY <1>6, <1>7, <2>1, <3>1, <3>2, OtherCache
  <2> QED
    BY <2>2, <2>3
<1> QED
  BY <1>5, <1>6, <1>8, <1>9, <1>10 DEF IInv

-----------------------------------------------------------------------------
(* The theorems. *)

LEMMA StepOK == IInv /\ [Next]_vars => IInv'
<1> SUFFICES ASSUME IInv, [Next]_vars PROVE IInv'
  OBVIOUS
<1>1. ASSUME NEW e \in Events, Event(e) PROVE IInv'
  BY <1>1, EventRowOK, EventBegins DEF Event
<1>2. ASSUME NEW c \in Clients, Statement(c) PROVE IInv'
  BY <1>2, EventStatementOK, SupersedeOK, SnapshotOK, AssessmentOK, VectorOK, TransitionOK,
     UpsertOK, FailsOK DEF Statement
<1>3. CASE UNCHANGED vars
  <2>1. UNCHANGED <<event_tables, collection_tables, research_tables, call, torn>>
    BY <1>3 DEF vars, client
  <2>2. \A k, x : RowsOf(k, x)' = RowsOf(k, x)
    BY <2>1, RowsStay DEF research_tables
  <2>3. TypeOK'
    BY <2>1, <2>2 DEF IInv, TypeOK, event_tables, collection_tables, research_tables,
                      row_tables
  <2>4. \A c \in Clients : CallOK(c)'
    BY <2>1, <2>2, OtherCall DEF IInv, event_tables
  <2> QED
    BY <2>1, <2>3, <2>4, SameCaches DEF IInv, research_tables
<1> QED
  BY <1>1, <1>2, <1>3, CollectionOK, ResearchBegins DEF Next

(* Every row has the shape its table gives it, an event row its raw event  *)
(* and its token row although no foreign key says so, and a cache names a  *)
(* row that exists or none.                                                *)
THEOREM TypeCorrect == Spec => []TypeOK
<1>1. IInv => TypeOK
  BY DEF IInv
<1> QED
  BY <1>1, InitOK, StepOK, PTL DEF Spec

(* Between calls, each token_current_* row names the newest row of its     *)
(* token, unless the last call of that cache was cut short by a fault or   *)
(* overlapped with another client's, and a state it names is not           *)
(* superseded.                                                             *)
THEOREM CachesAreNewest == Spec => []CacheIsNewest
<1>1. IInv => CacheIsNewest
  <2> SUFFICES ASSUME IInv, NEW cache \in Caches, NEW t \in Tokens,
                      <<cache, t>> \notin torn, \A c \in Clients : ~Flying(c, cache, t)
               PROVE  /\ current[cache][t] \in RowsOf(cache, t) \cup {0}
                      /\ \A i \in RowsOf(cache, t) : i <= current[cache][t]
                      /\ cache = "state" /\ RowsOf(cache, t) # {} =>
                           ~token_state_snapshots[current[cache][t]].superseded
    BY DEF CacheIsNewest, Flying
  <2>1. Newest(cache, t, current[cache][t])
    BY DEF IInv, CacheOK
  <2>2. ASSUME RowsOf(cache, t) # {} PROVE current[cache][t] \in RowsOf(cache, t)
    <3>1. PICK i \in RowsOf(cache, t) : i <= current[cache][t]
      BY <2>1, <2>2 DEF Newest
    <3>2. i \in Nat \ {0}
      BY RowsAreNumbers DEF IInv
    <3>3. current[cache][t] \in Nat
      BY DEF IInv
    <3>4. current[cache][t] # 0
      BY <3>1, <3>2, <3>3
    <3> QED
      BY <2>1, <3>4 DEF Newest
  <2> QED
    BY <2>1, <2>2 DEF Newest
<1> QED
  BY <1>1, InitOK, StepOK, PTL DEF Spec

-----------------------------------------------------------------------------
(* The refinement. *)

LEMMA StatusStays ==
  ASSUME NEW rows, rows \subseteq DOMAIN raw_events,
         \A e \in rows : raw_events'[e].status = raw_events[e].status
  PROVE  StatusOf(rows)' = StatusOf(rows)
BY DEF StatusOf

LEMMA MemoryInit == Init => Memory!Init
<1> SUFFICES ASSUME Init PROVE Memory!Init
  OBVIOUS
<1>1. StatusOf(token_trades) = <<>> /\ StatusOf(lifecycle_events) = <<>>
  BY DEF Init, StatusOf
<1> QED
  BY <1>1 DEF Init, Memory!Init, Memory!NoMark, Memory!NoShape, NoMark, NoShape

(* A step that keeps what the in-memory store keeps is a stutter there.    *)
LEMMA Stutter ==
  ASSUME UNCHANGED <<raw_events, token_discovered, token_trades, lifecycle_events,
                     collection_tables, row_tables>>
  PROVE  UNCHANGED Memory!vars
<1>1. /\ StatusOf(token_trades)' = StatusOf(token_trades)
      /\ StatusOf(lifecycle_events)' = StatusOf(lifecycle_events)
  BY DEF StatusOf
<1> QED
  BY <1>1 DEF Memory!vars, collection_tables, row_tables

LEMMA RefineEventRow ==
  ASSUME IInv, NEW e \in Events,
         \/ insert_raw(e) \/ mark_orphaned(e)
         \/ \E status \in {"success", "error"} : mark_decoder(e, status)
  PROVE  Memory!Next \/ UNCHANGED Memory!vars
<1> DEFINE Raw == [status : {"canonical", "orphaned"},
                   decoder : {"pending", "success", "error"}]
<1>1. /\ raw_events \in [DOMAIN raw_events -> Raw]
      /\ token_trades \subseteq DOMAIN raw_events
      /\ lifecycle_events \subseteq DOMAIN raw_events
  BY DEF IInv, TypeOK
<1>2. UNCHANGED <<token_discovered, token_trades, lifecycle_events, collection_tables,
                  row_tables>>
  BY DEF insert_raw, mark_orphaned, mark_decoder, research_tables
<1>3. CASE insert_raw(e)
  <2>1. raw_events' = IF e \in DOMAIN raw_events THEN raw_events
                      ELSE Put(raw_events, e, [status |-> "canonical", decoder |-> "pending"])
    BY <1>3 DEF insert_raw
  <2>2. \A x \in DOMAIN raw_events : raw_events'[x] = raw_events[x]
    BY <2>1 DEF Put
  <2>3. /\ StatusOf(token_trades)' = StatusOf(token_trades)
        /\ StatusOf(lifecycle_events)' = StatusOf(lifecycle_events)
    BY <1>1, <1>2, <2>2 DEF StatusOf
  <2>4. Memory!insert_raw(e)
    BY <1>2, <2>1, <2>3 DEF Memory!insert_raw, Memory!Put, Put, Memory!collection,
       Memory!research, collection_tables, row_tables
  <2> QED
    BY <2>4 DEF Memory!Next
<1>4. CASE e \notin DOMAIN raw_events /\ ~insert_raw(e)
  <2>1. raw_events' = [x \in DOMAIN raw_events |-> raw_events[x]]
    BY <1>4 DEF mark_orphaned, mark_decoder
  <2>2. raw_events' = raw_events
    BY <1>1, <2>1
  <2> QED
    BY <1>2, <2>2, Stutter
<1>5. ASSUME NEW status \in {"success", "error"}, mark_decoder(e, status),
             e \in DOMAIN raw_events
      PROVE  Memory!Next
  <2>1. raw_events' = [x \in DOMAIN raw_events |->
                         IF x = e THEN [raw_events[x] EXCEPT !.decoder = status]
                         ELSE raw_events[x]]
    BY <1>5 DEF mark_decoder
  <2>2. \A x \in DOMAIN raw_events : raw_events'[x].status = raw_events[x].status
    BY <1>1, <2>1
  <2>3. /\ StatusOf(token_trades)' = StatusOf(token_trades)
        /\ StatusOf(lifecycle_events)' = StatusOf(lifecycle_events)
    BY <1>1, <1>2, <2>2 DEF StatusOf
  <2>4. raw_events' = [raw_events EXCEPT ![e] = [@ EXCEPT !.decoder = status]]
    BY <1>5, <2>1
  <2>5. Memory!mark_decoder(e, status)
    BY <1>2, <1>5, <2>3, <2>4 DEF Memory!mark_decoder, Memory!collection,
       Memory!research, collection_tables, row_tables
  <2> QED
    BY <2>5 DEF Memory!Next
<1>6. CASE mark_orphaned(e) /\ e \in DOMAIN raw_events
  <2>1. raw_events' = [x \in DOMAIN raw_events |->
                         IF x = e THEN [raw_events[x] EXCEPT !.status = "orphaned"]
                         ELSE raw_events[x]]
    BY <1>6 DEF mark_orphaned
  <2>2. \A x \in DOMAIN raw_events :
          raw_events'[x].status = IF x = e THEN "orphaned" ELSE raw_events[x].status
    BY <1>1, <2>1
  <2>3. /\ StatusOf(token_trades)' = Memory!Orphan(StatusOf(token_trades), e)
        /\ StatusOf(lifecycle_events)' = Memory!Orphan(StatusOf(lifecycle_events), e)
    BY <1>1, <1>2, <2>2 DEF StatusOf, Memory!Orphan
  <2>4. raw_events' = [raw_events EXCEPT ![e] = [@ EXCEPT !.status = "orphaned"]]
    BY <1>6, <2>1
  <2>5. Memory!mark_orphaned(e)
    BY <1>2, <1>6, <2>3, <2>4 DEF Memory!mark_orphaned, Memory!collection,
       Memory!research, collection_tables, row_tables
  <2> QED
    BY <2>5 DEF Memory!Next
<1> QED
  BY <1>3, <1>4, <1>5, <1>6

LEMMA RefineCollection ==
  ASSUME Collection PROVE Memory!Next
<1>1. UNCHANGED <<raw_events, token_discovered, token_trades, lifecycle_events, row_tables>>
  BY DEF Collection, save_checkpoint, upsert_head, insert_gap, mark_gap_recovered,
         insert_session, finish_session, upsert_watched_market, event_tables, research_tables
<1>2. /\ StatusOf(token_trades)' = StatusOf(token_trades)
      /\ StatusOf(lifecycle_events)' = StatusOf(lifecycle_events)
  BY <1>1 DEF StatusOf
<1>3. UNCHANGED Memory!events /\ UNCHANGED Memory!research
  BY <1>1, <1>2 DEF Memory!events, Memory!research, row_tables
<1>4. ASSUME NEW m \in Marks, save_checkpoint(m) PROVE Memory!Next
  BY <1>3, <1>4 DEF save_checkpoint, Memory!save_checkpoint, Memory!Next
<1>5. ASSUME NEW m \in Marks, upsert_head(m) PROVE Memory!Next
  BY <1>3, <1>5 DEF upsert_head, Memory!upsert_head, Memory!Next
<1>6. CASE insert_gap
  BY <1>3, <1>6 DEF insert_gap, Memory!insert_gap, Memory!Next
<1>7. ASSUME NEW i \in DOMAIN ingest_gaps, mark_gap_recovered(i) PROVE Memory!Next
  BY <1>3, <1>7 DEF mark_gap_recovered, Memory!mark_gap_recovered, Memory!Next
<1>8. CASE insert_session
  BY <1>3, <1>8 DEF insert_session, Memory!insert_session, Memory!Next, NoMark, Memory!NoMark
<1>9. ASSUME NEW i \in DOMAIN collection_sessions, NEW m \in Marks, finish_session(i, m)
      PROVE  Memory!Next
  BY <1>3, <1>9 DEF finish_session, Memory!finish_session, Memory!Next
<1>10. ASSUME NEW t \in Tokens, NEW shape \in Shapes, upsert_watched_market(t, shape)
       PROVE  Memory!Next
  BY <1>3, <1>10 DEF upsert_watched_market, Memory!upsert_watched_market, Memory!Next
<1> QED
  BY <1>4, <1>5, <1>6, <1>7, <1>8, <1>9, <1>10 DEF Collection

(* Beginning a call, and a statement of which the in-memory store keeps    *)
(* nothing.                                                                *)
LEMMA RefineQuiet ==
  ASSUME \/ \E e \in Events : insert_discovered(e) \/ insert_trade(e) \/ insert_lifecycle(e)
         \/ \E t \in Tokens : Research(t)
         \/ \E c \in Clients : ensure_token(c) \/ upsert_current(c) \/ Fails(c)
         \/ UNCHANGED vars
  PROVE  UNCHANGED Memory!vars
<1>1. ASSUME NEW c, NEW f, NEW todo, NEW cache, NEW t, NEW row,
             Call(c, f, todo, cache, t, row)
      PROVE  UNCHANGED <<event_tables, collection_tables, research_tables>>
  BY <1>1 DEF Call
<1>2. ASSUME NEW t \in Tokens, Research(t)
      PROVE  UNCHANGED <<event_tables, collection_tables, research_tables>>
  BY <1>1, <1>2 DEF Research, persist_snapshot, rebuild_token_state, insert_assessment,
                    insert_feature_vector, insert_candidate_transition
<1>3. ASSUME NEW e \in Events, insert_discovered(e) \/ insert_trade(e) \/ insert_lifecycle(e)
      PROVE  UNCHANGED <<event_tables, collection_tables, research_tables>>
  BY <1>1, <1>3 DEF insert_discovered, insert_trade, insert_lifecycle
<1>4. UNCHANGED <<raw_events, token_discovered, token_trades, lifecycle_events,
                  collection_tables, row_tables>>
  BY <1>2, <1>3 DEF ensure_token, upsert_current, Fails, vars, event_tables, research_tables
<1> QED
  BY <1>4, Stutter

LEMMA RefineStatement ==
  ASSUME IInv, NEW c \in Clients, Statement(c)
  PROVE  Memory!Next \/ UNCHANGED Memory!vars
<1> DEFINE r == call[c].row
           t == call[c].token
<1>1. ASSUME discovered_row(c) \/ trade_row(c) \/ lifecycle_row(c)
      PROVE  /\ r \in Events /\ raw_events[r].status = "canonical"
             /\ UNCHANGED <<raw_events, collection_tables, row_tables>>
  <2>1. PICK s \in {"discovered", "trade", "lifecycle"} : Runs(c, s)
    BY <1>1 DEF discovered_row, trade_row, lifecycle_row
  <2>2. EventCall(c)
    BY <2>1, WhatRuns
  <2>3. UNCHANGED <<raw_events, collection_tables, row_tables>>
    BY <1>1 DEF discovered_row, trade_row, lifecycle_row, research_tables
  <2> QED
    BY <2>2, <2>3 DEF EventCall, IInv, TypeOK
<1>2. ASSUME UNCHANGED <<collection_tables, row_tables>>
      PROVE  UNCHANGED Memory!collection /\ UNCHANGED Memory!research
  BY <1>2 DEF Memory!collection, Memory!research, collection_tables, row_tables
<1>4. CASE discovered_row(c)
  <2>1. /\ token_discovered' = token_discovered \cup {r}
        /\ StatusOf(token_trades)' = StatusOf(token_trades)
        /\ StatusOf(lifecycle_events)' = StatusOf(lifecycle_events)
    BY <1>1, <1>4 DEF discovered_row, StatusOf
  <2>2. Memory!insert_discovered(r)
    BY <1>1, <1>2, <1>4, <2>1 DEF Memory!insert_discovered
  <2> QED
    BY <1>1, <1>4, <2>2 DEF Memory!Next
<1>5. CASE trade_row(c)
  <2>1. /\ token_trades' = token_trades \cup {r}
        /\ UNCHANGED <<token_discovered, lifecycle_events>>
    BY <1>5 DEF trade_row
  <2>2. /\ StatusOf(token_trades)' = Memory!Put(StatusOf(token_trades), r, "canonical")
        /\ StatusOf(lifecycle_events)' = StatusOf(lifecycle_events)
    BY <1>1, <1>5, <2>1 DEF StatusOf, Memory!Put
  <2>3. Memory!insert_trade(r)
    BY <1>1, <1>2, <1>5, <2>1, <2>2 DEF Memory!insert_trade
  <2> QED
    BY <1>1, <1>5, <2>3 DEF Memory!Next
<1>6. CASE lifecycle_row(c)
  <2>1. /\ lifecycle_events' = lifecycle_events \cup {r}
        /\ UNCHANGED <<token_discovered, token_trades>>
    BY <1>6 DEF lifecycle_row
  <2>2. /\ StatusOf(lifecycle_events)' = Memory!Put(StatusOf(lifecycle_events), r, "canonical")
        /\ StatusOf(token_trades)' = StatusOf(token_trades)
    BY <1>1, <1>6, <2>1 DEF StatusOf, Memory!Put
  <2>3. Memory!insert_lifecycle(r)
    BY <1>1, <1>2, <1>6, <2>1, <2>2 DEF Memory!insert_lifecycle
  <2> QED
    BY <1>1, <1>6, <2>3 DEF Memory!Next
<1>7. ASSUME mark_snapshots_superseded(c) \/ insert_snapshot(c) \/ assessment_row(c)
               \/ vector_row(c) \/ transition_row(c)
      PROVE  /\ UNCHANGED Memory!events /\ UNCHANGED Memory!collection
             /\ t \in Tokens
  <2>1. PICK s \in {"supersede", "snapshot", "assessment", "vector", "transition"} :
          Runs(c, s)
    BY <1>7 DEF mark_snapshots_superseded, insert_snapshot, assessment_row, vector_row,
                transition_row
  <2>2. call[c] \in CallRecord
    BY <2>1, WhatRuns
  <2>3. UNCHANGED <<event_tables, collection_tables>>
    BY <1>7 DEF mark_snapshots_superseded, insert_snapshot, assessment_row, vector_row,
                transition_row
  <2>4. /\ StatusOf(token_trades)' = StatusOf(token_trades)
        /\ StatusOf(lifecycle_events)' = StatusOf(lifecycle_events)
    BY <2>3 DEF StatusOf, event_tables
  <2> QED
    BY <2>2, <2>3, <2>4
       DEF Memory!events, Memory!collection, event_tables, collection_tables, CallRecord
<1>8. CASE mark_snapshots_superseded(c)
  <2>1. Memory!mark_snapshots_superseded(t)
    BY <1>7, <1>8 DEF mark_snapshots_superseded, Supersede, Memory!mark_snapshots_superseded
  <2> QED
    BY <1>7, <1>8, <2>1 DEF Memory!Next
<1>9. CASE insert_snapshot(c)
  <2>1. call[c].row \in Shots
    BY <1>9, WhatRuns DEF insert_snapshot, StateCall
  <2>2. Memory!insert_snapshot(t, call[c].row)
    BY <1>7, <1>9 DEF insert_snapshot, Memory!insert_snapshot
  <2> QED
    BY <1>7, <1>9, <2>1, <2>2 DEF Memory!Next
<1>10. CASE assessment_row(c)
  <2>1. Memory!insert_assessment(t)
    BY <1>7, <1>10 DEF assessment_row, Memory!insert_assessment
  <2> QED
    BY <1>7, <1>10, <2>1 DEF Memory!Next
<1>11. CASE vector_row(c)
  <2>1. call[c].row \in Times
    BY <1>11, WhatRuns DEF vector_row, FeatureCall
  <2>2. Memory!insert_feature_vector(t, call[c].row)
    BY <1>7, <1>11 DEF vector_row, Memory!insert_feature_vector
  <2> QED
    BY <1>7, <1>11, <2>1, <2>2 DEF Memory!Next
<1>12. CASE transition_row(c)
  <2>1. Memory!insert_candidate_transition(t)
    BY <1>7, <1>12 DEF transition_row, Memory!insert_candidate_transition
  <2> QED
    BY <1>7, <1>12, <2>1 DEF Memory!Next
<1> QED
  BY <1>4, <1>5, <1>6, <1>8, <1>9, <1>10, <1>11, <1>12, RefineQuiet DEF Statement

(* The Postgres store, with its calls of several statements interleaved    *)
(* and cut short, implements the in-memory store, whose calls are atomic.  *)
THEOREM Refinement == Spec => ImplementsMemory
<1>1. IInv /\ [Next]_vars => [Memory!Next]_(Memory!vars)
  <2> SUFFICES ASSUME IInv, [Next]_vars PROVE Memory!Next \/ UNCHANGED Memory!vars
    OBVIOUS
  <2>1. ASSUME NEW e \in Events, Event(e) PROVE Memory!Next \/ UNCHANGED Memory!vars
    BY <2>1, RefineEventRow, RefineQuiet DEF Event
  <2>2. ASSUME NEW c \in Clients, Statement(c) PROVE Memory!Next \/ UNCHANGED Memory!vars
    BY <2>2, RefineStatement
  <2> QED
    BY <2>1, <2>2, RefineCollection, RefineQuiet DEF Next
<1> QED
  BY <1>1, InitOK, StepOK, MemoryInit, PTL DEF Spec, ImplementsMemory, Memory!Spec
-----------------------------------------------------------------------------
(* The queries. *)

LEMMA Least ==
  ASSUME NEW S \in SUBSET Nat, S # {}
  PROVE  \E m \in S : \A n \in S : m <= n
<1>1. PICK m \in S : \A n \in S : <<n, m>> \notin OpToRel(<, Nat)
  BY NatLessThanWellFounded, WFMin
<1>2. \A n \in S : ~(n < m)
  BY <1>1 DEF OpToRel
<1> QED
  BY <1>2

(* A finite set that a relation orders has a first element. *)
LEMMA Foremost ==
  ASSUME NEW S, IsFiniteSet(S), S # {}, NEW R,
         \A i \in S : <<i, i>> \notin R,
         \A i, j, k \in S : <<i, j>> \in R /\ <<j, k>> \in R => <<i, k>> \in R
  PROVE  \E i \in S : \A j \in S : <<j, i>> \notin R
<1> DEFINE Ahead(i) == {k \in S : <<k, i>> \in R}
           Ranks == {Cardinality(Ahead(i)) : i \in S}
<1>1. \A i \in S : IsFiniteSet(Ahead(i)) /\ Cardinality(Ahead(i)) \in Nat
  BY FS_Subset, FS_CardinalityType
<1> HIDE DEF Ahead
<1>2. PICK i \in S : \A j \in S : Cardinality(Ahead(i)) <= Cardinality(Ahead(j))
  <2>1. \A n \in Ranks : n \in Nat
    BY <1>1
  <2>2. Ranks \in SUBSET Nat /\ Ranks # {}
    <3>1. PICK i \in S : TRUE
      OBVIOUS
    <3>2. Cardinality(Ahead(i)) \in Ranks
      OBVIOUS
    <3> QED
      BY <2>1, <3>2
  <2>3. PICK m \in Ranks : \A n \in Ranks : m <= n
    BY <2>2, Least
  <2> QED
    BY <2>3
<1> USE DEF Ahead
<1>3. ASSUME NEW j \in S, <<j, i>> \in R PROVE FALSE
  <2>1. Ahead(j) \in SUBSET Ahead(i) /\ j \in Ahead(i) /\ j \notin Ahead(j)
    BY <1>3
  <2>2. /\ Cardinality(Ahead(j)) <= Cardinality(Ahead(i))
        /\ Cardinality(Ahead(i)) # Cardinality(Ahead(j))
    BY <1>1, <2>1, FS_Subset, Zenon
  <2>3. Cardinality(Ahead(i)) <= Cardinality(Ahead(j))
    BY <1>2
  <2> QED
    BY <1>1, <2>2, <2>3
<1> QED
  BY <1>3

LEMMA FirstOfSet ==
  \A S : \A i \in S : i \in First(S, Newer) <=> \A j \in S : ~Newer(j, i)
BY DEF First

LEMMA SnapshotTypes ==
  ASSUME TypeOK, NEW i \in DOMAIN token_state_snapshots
  PROVE  i \in Nat /\ Shot(i).time \in Nat /\ Shot(i).version \in Nat
<1>1. token_state_snapshots \in Seq([token : Tokens, shot : Shots, superseded : BOOLEAN])
  BY DEF TypeOK
<1>2. i \in Nat /\ token_state_snapshots[i] \in [token : Tokens, shot : Shots, superseded : BOOLEAN]
  BY <1>1, Element
<1>3. token_state_snapshots[i].shot \in Shots
  BY <1>2
<1> QED
  BY <1>2, <1>3 DEF Shot

LEMMA FiniteRows ==
  ASSUME NEW T, NEW rows \in Seq(T), NEW S \in SUBSET DOMAIN rows
  PROVE  IsFiniteSet(S)
<1>1. DOMAIN rows = 1 .. Len(rows) /\ Len(rows) \in Nat
  OBVIOUS
<1>2. IsFiniteSet(1 .. Len(rows))
  BY <1>1, FS_Interval
<1> QED
  BY <1>1, <1>2, FS_Subset

LEMMA SameOrder ==
  \A i, j : Memory!ByTime(i, j) = Newer(i, j)
BY DEF Memory!ByTime, Newer, Shot

(* Of a set of snapshots one is first when ties of the order are broken by *)
(* the row id.                                                             *)
LEMMA SnapshotExists ==
  ASSUME TypeOK, NEW S \in SUBSET DOMAIN token_state_snapshots, S # {}
  PROVE  \E i \in S : \A j \in S : j # i => Newer(i, j) \/ (~Newer(j, i) /\ i > j)
<1> DEFINE R == {p \in S \X S : NewerRow(p[1], p[2])}
<1>0. \A i, j \in S : <<i, j>> \in R <=> NewerRow(i, j)
  OBVIOUS
<1>1. \A i \in S : i \in Nat /\ Shot(i).time \in Nat /\ Shot(i).version \in Nat
  BY SnapshotTypes
<1>2. IsFiniteSet(S)
  BY FiniteRows DEF TypeOK
<1> HIDE DEF R
<1>3. \A i \in S : <<i, i>> \notin R
  BY <1>0, <1>1 DEF Newer, NewerRow
<1>4. \A i, j, k \in S : <<i, j>> \in R /\ <<j, k>> \in R => <<i, k>> \in R
  BY <1>0, <1>1 DEF Newer, NewerRow
<1>5. PICK i \in S : \A j \in S : <<j, i>> \notin R
  BY <1>2, <1>3, <1>4, Foremost
<1>6. ASSUME NEW j \in S, j # i PROVE Newer(i, j) \/ (~Newer(j, i) /\ i > j)
  <2>1. ~NewerRow(j, i)
    BY <1>0, <1>5
  <2> QED
    BY <1>1, <1>6, <2>1 DEF Newer, NewerRow
<1> QED
  BY <1>6

(* The first by SQL's ORDER BY and the last maximum of a vector: the same  *)
(* row when the order includes the id, one of SQL's when it does not.      *)
LEMMA SameSnapshot ==
  ASSUME TypeOK, NEW S \in SUBSET DOMAIN token_state_snapshots
  PROVE  /\ First(S, NewerRow) = Memory!Latest(S, Newer)
         /\ Among(First(S, Newer), Memory!Latest(S, Newer))
<1>1. \A i \in S : i \in Nat /\ Shot(i).time \in Nat /\ Shot(i).version \in Nat
  BY SnapshotTypes
<1>2. First(S, NewerRow) = Memory!Latest(S, Newer)
  <2>1. \A i, j \in S : ~NewerRow(j, i) <=> (j # i => Newer(i, j) \/ (~Newer(j, i) /\ i > j))
    BY <1>1 DEF NewerRow, Newer
  <2> QED
    BY <2>1 DEF First, Memory!Latest
<1>3. Memory!Latest(S, Newer) \subseteq First(S, Newer)
  <2>1. \A i, j \in S : (j # i => Newer(i, j) \/ (~Newer(j, i) /\ i > j)) => ~Newer(j, i)
    BY <1>1 DEF Newer
  <2> QED
    BY <2>1 DEF First, Memory!Latest
<1>4. ASSUME Memory!Latest(S, Newer) = {} PROVE S = {}
  BY <1>4, SnapshotExists DEF Memory!Latest
<1> QED
  BY <1>2, <1>3, <1>4 DEF Among, First

(* A market on Postgres knows what was last given: COALESCE keeps more.    *)
Known ==
  /\ DOMAIN given = Tokens /\ DOMAIN watched_markets = Tokens
  /\ \A t \in Tokens : \A field \in DOMAIN given[t] :
       given[t][field] => watched_markets[t][field]

LEMMA KnownOK == (Init => Known) /\ (Known /\ [Next]_vars => Known')
<1>1. Init => Known
  BY DEF Init, Known
<1>2. ASSUME Known, NEW t \in Tokens, NEW shape, upsert_watched_market(t, shape)
      PROVE  Known'
  <2>1. /\ given' = [given EXCEPT ![t] = shape]
        /\ watched_markets' =
             [watched_markets EXCEPT ![t] = Coalesce(shape, watched_markets[t])]
    BY <1>2 DEF upsert_watched_market
  <2>2. /\ given'[t] = shape /\ watched_markets'[t] = Coalesce(shape, watched_markets[t])
        /\ \A u \in Tokens \ {t} : /\ given'[u] = given[u]
                                   /\ watched_markets'[u] = watched_markets[u]
    BY <1>2, <2>1 DEF Known
  <2>3. \A field \in DOMAIN shape :
          shape[field] => Coalesce(shape, watched_markets[t])[field]
    BY Zenon DEF Coalesce
  <2>4. DOMAIN given' = Tokens /\ DOMAIN watched_markets' = Tokens
    BY <1>2, <2>1 DEF Known
  <2>5. ASSUME NEW u \in Tokens, NEW field \in DOMAIN given'[u], given'[u][field]
        PROVE  watched_markets'[u][field]
    <3>1. CASE u = t
      BY <2>2, <2>3, <2>5, <3>1, Zenon
    <3>2. CASE u # t
      BY <1>2, <2>2, <2>5, <3>2, Zenon DEF Known
    <3> QED
      BY <3>1, <3>2
  <2> QED
    BY <2>4, <2>5, Zenon DEF Known
<1>3. ASSUME Known, UNCHANGED <<given, watched_markets>> PROVE Known'
  BY <1>3, Zenon DEF Known
<1>4. ASSUME [Next]_vars
      PROVE  \/ \E t \in Tokens, shape \in Shapes : upsert_watched_market(t, shape)
             \/ UNCHANGED <<given, watched_markets>>
  <2>1. ASSUME NEW e \in Events, Event(e) PROVE UNCHANGED <<given, watched_markets>>
    BY <2>1 DEF Event, insert_raw, mark_orphaned, insert_discovered, insert_trade,
                insert_lifecycle, mark_decoder, Call, collection_tables
  <2>2. ASSUME Collection
        PROVE  \/ \E t \in Tokens, shape \in Shapes : upsert_watched_market(t, shape)
               \/ UNCHANGED <<given, watched_markets>>
    BY <2>2 DEF Collection, save_checkpoint, upsert_head, insert_gap, mark_gap_recovered,
                insert_session, finish_session
  <2>3. ASSUME NEW t \in Tokens, Research(t) PROVE UNCHANGED <<given, watched_markets>>
    BY <2>3 DEF Research, persist_snapshot, rebuild_token_state, insert_assessment,
                insert_candidate_transition, insert_feature_vector, Call, collection_tables
  <2>4. ASSUME NEW c \in Clients, Statement(c) PROVE UNCHANGED <<given, watched_markets>>
    BY <2>4 DEF Statement, ensure_token, discovered_row, trade_row, lifecycle_row,
                mark_snapshots_superseded, insert_snapshot, assessment_row, vector_row,
                transition_row, upsert_current, Fails, collection_tables
  <2>5. CASE UNCHANGED vars
    BY <2>5 DEF vars, collection_tables
  <2> QED
    BY <1>4, <2>1, <2>2, <2>3, <2>4, <2>5 DEF Next
<1> QED
  BY <1>1, <1>2, <1>3, <1>4

LEMMA SameCardinality == \A S : Memory!Cardinality(S) = Cardinality(S)
BY Zenon DEF Cardinality, Memory!Cardinality

(* A query answered by SQL gives what the in-memory store gives.           *)
LEMMA Answers == TypeOK /\ Known => AnswersAgree
<1> SUFFICES ASSUME TypeOK, Known PROVE AnswersAgree
  OBVIOUS
<1>1. unrecovered_gap_count = Memory!unrecovered_gap_count
  <2>1. \A i \in DOMAIN ingest_gaps : ingest_gaps[i] \in BOOLEAN
    BY DEF TypeOK
  <2>2. {i \in DOMAIN ingest_gaps : ingest_gaps[i] = FALSE} =
        {i \in DOMAIN ingest_gaps : ~ingest_gaps[i]}
    BY <2>1, Zenon
  <2> QED
    BY <2>2, SameCardinality, Zenon DEF unrecovered_gap_count, Memory!unrecovered_gap_count
<1>2. \A n : export_feature_vectors(n) = Memory!export_feature_vectors(n)
  BY SameCardinality, Zenon DEF export_feature_vectors, Memory!export_feature_vectors
<1>3. ASSUME NEW t \in Tokens
      PROVE  get_trades(t) = Memory!get_trades(t) /\ get_lifecycle(t) = Memory!get_lifecycle(t)
  BY DEF get_trades, get_lifecycle, Memory!get_trades, Memory!get_lifecycle, StatusOf
<1>4. ASSUME NEW t \in Tokens
      PROVE  Among(Memory!load_token_discovered(t), load_token_discovered(t))
  <2> DEFINE S == {e \in token_discovered : TokenOf[e] = t}
  <2>1. S \in SUBSET Nat
    BY EventsAreOrdered DEF TypeOK
  <2>2. Memory!load_token_discovered(t) = S
    BY DEF Memory!load_token_discovered
  <2>3. load_token_discovered(t) = {i \in S : \A j \in S : ~(j < i)}
    BY DEF load_token_discovered, First
  <2> HIDE DEF S
  <2>4. ASSUME S # {} PROVE load_token_discovered(t) # {}
    <3>1. PICK m \in S : \A n \in S : m <= n
      BY <2>1, <2>4, Least
    <3>2. \A n \in S : ~(n < m)
      BY <2>1, <3>1
    <3> QED
      BY <2>3, <3>2
  <2> QED
    BY <2>2, <2>3, <2>4 DEF Among
<1>5. ASSUME NEW t \in Tokens, NEW all \in BOOLEAN
      PROVE  list_snapshots(t, all) = Memory!list_snapshots(t, all)
  <2>1. CASE all
    BY <2>1 DEF list_snapshots, Memory!list_snapshots
  <2>2. CASE ~all
    BY <2>2 DEF list_snapshots, Memory!list_snapshots, Live
  <2> QED
    BY <2>1, <2>2
<1>6. ASSUME NEW t \in Tokens PROVE latest_snapshot(t) = Memory!latest_snapshot(t)
  <2>1. Live(t) \in SUBSET DOMAIN token_state_snapshots /\ Memory!Current(t) = Live(t)
    BY DEF Live, Memory!Current
  <2>2. First(Live(t), NewerRow) = Memory!Latest(Live(t), Newer)
    BY <2>1, SameSnapshot
  <2>3. Memory!Latest(Live(t), Memory!ByTime) = Memory!Latest(Live(t), Newer)
    BY SameOrder DEF Memory!Latest
  <2> QED
    BY <2>1, <2>2, <2>3 DEF latest_snapshot, Memory!latest_snapshot
<1>7. ASSUME NEW t \in Tokens, NEW time \in Times
      PROVE  Among(snapshot_at_or_before(t, time), Memory!snapshot_at_or_before(t, time))
  <2> DEFINE S == {i \in Live(t) : Shot(i).time <= time}
  <2>1. S \in SUBSET DOMAIN token_state_snapshots
    BY DEF Live
  <2>2. {i \in Memory!Current(t) : token_state_snapshots[i].shot.time <= time} = S
    BY DEF Live, Memory!Current, Shot
  <2>3. snapshot_at_or_before(t, time) = First(S, Newer)
    BY DEF snapshot_at_or_before
  <2>4. Memory!snapshot_at_or_before(t, time) = Memory!Latest(S, Newer)
    <3>1. Memory!Latest(S, Memory!ByTime) = Memory!Latest(S, Newer)
      BY SameOrder DEF Memory!Latest
    <3> QED
      BY <2>2, <3>1 DEF Memory!snapshot_at_or_before
  <2> HIDE DEF S
  <2> QED
    BY <2>1, <2>3, <2>4, SameSnapshot
<1>8. ASSUME NEW t \in Tokens, NEW age \in Times
      PROVE  Among(milestone_snapshot(t, age), Memory!milestone_snapshot(t, age))
  <2> DEFINE S == {i \in Live(t) : Shot(i).kind = "MILESTONE" /\ Shot(i).time = age}
             newer(i, j) == Shot(i).version > Shot(j).version
  <2>1. S \in SUBSET DOMAIN token_state_snapshots
    BY DEF Live
  <2>2. \A i, j \in S : newer(i, j) <=> Newer(i, j)
    BY SnapshotTypes DEF Newer, Live
  <2>3. milestone_snapshot(t, age) = First(S, newer)
    BY DEF milestone_snapshot
  <2>4. Memory!milestone_snapshot(t, age) = Memory!Latest(S, newer)
    BY DEF Memory!milestone_snapshot, Memory!Current, Memory!Latest, Live, Shot
  <2> HIDE DEF S, newer
  <2>5. First(S, newer) = First(S, Newer) /\ Memory!Latest(S, newer) = Memory!Latest(S, Newer)
    BY <2>2 DEF First, Memory!Latest
  <2> QED
    BY <2>1, <2>3, <2>4, <2>5, SameSnapshot
<1>9. ASSUME NEW t \in Tokens
      PROVE  latest_assessment(t) = Memory!latest_assessment(t)
  <2>1. \A i \in DOMAIN security_assessments : i \in Nat
    BY Element DEF TypeOK
  <2> QED
    BY <2>1 DEF latest_assessment, LastId, First, Memory!latest_assessment, Memory!Latest
<1>10. ASSUME NEW t \in Tokens PROVE latest_candidate(t) = Memory!latest_candidate(t)
  <2>1. \A i \in DOMAIN candidate_state_transitions : i \in Nat
    BY Element DEF TypeOK
  <2> QED
    BY <2>1 DEF latest_candidate, LastId, First, Memory!latest_candidate, Memory!Latest
<1>11. ASSUME NEW t \in Tokens, NEW time \in Times
       PROVE  feature_at_or_before(t, time) = Memory!feature_at_or_before(t, time)
  <2> DEFINE S == {i \in DOMAIN feature_vectors : /\ feature_vectors[i].token = t
                                                  /\ feature_vectors[i].time <= time}
  <2>1. \A i \in S : i \in Nat /\ feature_vectors[i].time \in Nat
    <3>1. feature_vectors \in Seq([token : Tokens, time : Times])
      BY DEF TypeOK
    <3>2. \A i \in DOMAIN feature_vectors :
            i \in Nat /\ feature_vectors[i] \in [token : Tokens, time : Times]
      BY <3>1, Element
    <3>3. \A i \in DOMAIN feature_vectors : feature_vectors[i].time \in Times
      BY <3>2
    <3> QED
      BY <3>2, <3>3
  <2>2. feature_at_or_before(t, time) =
          {i \in S : \A j \in S : ~(\/ feature_vectors[j].time > feature_vectors[i].time
                                    \/ /\ feature_vectors[j].time = feature_vectors[i].time
                                       /\ j > i)}
    BY DEF feature_at_or_before, First
  <2>3. Memory!feature_at_or_before(t, time) =
          {i \in S : \A j \in S : j # i =>
             \/ feature_vectors[i].time > feature_vectors[j].time
             \/ ~(feature_vectors[j].time > feature_vectors[i].time) /\ i > j}
    BY DEF Memory!feature_at_or_before, Memory!Latest
  <2> HIDE DEF S
  <2> QED
    BY <2>1, <2>2, <2>3
<1> QED
  BY <1>1, <1>2, <1>3, <1>4, <1>5, <1>6, <1>7, <1>8, <1>9, <1>10, <1>11
     DEF AnswersAgree, Known

(* Every query of the engine's research, answered by SQL, gives what the   *)
(* in-memory store of the tests gives: the same rows, or, where the ORDER  *)
(* BY leaves a tie open, one of which memory gives; and a watched market   *)
(* is known at least as well.                                              *)
THEOREM QueriesAgree == Spec => []AnswersAgree
<1>1. IInv /\ Known => AnswersAgree
  BY Answers DEF IInv
<1> QED
  BY <1>1, InitOK, StepOK, KnownOK, PTL DEF Spec

===============================================================================
