---------------------------- MODULE PostgresStore ----------------------------
(* The Postgres store (storage/postgres.rs), which the engine runs on.  A    *)
(* call is a sequence of statements on a pool, without a transaction: the    *)
(* statements of two clients interleave, and a statement may fail, or        *)
(* succeed and lose its reply; the call then ends there.  The clients are    *)
(* the tasks of the engine: the pipeline stores and decodes events and       *)
(* rebuilds states, the tick persists snapshots, vectors and transitions,    *)
(* the security worker assessments.                                          *)
EXTENDS StoreRows

CONSTANTS MaxCalls,    \* bound: calls that write, for each group of tables; the groups
                       \* share nothing, and a behaviour uses one
          MaxFaults    \* bound: statements that fail or lose their reply

VARIABLES raw_events,            \* event -> [status, decoder]
          tokens,                \* rows of tokens
          token_discovered, token_trades, lifecycle_events,   \* event ids
          ingest_checkpoints, chain_heads, ingest_gaps, collection_sessions,
          watched_markets,       \* token -> what is known of its market
          given,                 \* history: token -> the market as last given
          token_state_snapshots, security_assessments, feature_vectors,
          candidate_state_transitions,
          current,               \* token_current_*: cache -> token -> row id, 0 for none
          call,                  \* client -> the call it is in
          torn,                  \* history: caches whose last call was cut short or overlapped
          calls, faults, family
event_tables == <<raw_events, tokens, token_discovered, token_trades, lifecycle_events>>
collection_tables == <<ingest_checkpoints, chain_heads, ingest_gaps, collection_sessions,
                       watched_markets, given>>
row_tables == <<token_state_snapshots, security_assessments, feature_vectors,
                candidate_state_transitions>>
research_tables == <<row_tables, current>>
client == <<call, torn, calls, faults, family>>
vars == <<event_tables, collection_tables, research_tables, client>>

Clients == {"pipeline", "tick", "security"}
Caches == {"state", "security", "features", "candidate"}
Idle == [todo |-> <<>>]

Init ==
  /\ raw_events = <<>> /\ tokens = {} /\ token_discovered = {} /\ token_trades = {}
  /\ lifecycle_events = {}
  /\ ingest_checkpoints = NoMark /\ chain_heads = NoMark /\ ingest_gaps = <<>>
  /\ collection_sessions = <<>> /\ watched_markets = [t \in Tokens |-> NoShape]
  /\ given = watched_markets
  /\ token_state_snapshots = <<>> /\ security_assessments = <<>> /\ feature_vectors = <<>>
  /\ candidate_state_transitions = <<>> /\ current = [c \in Caches |-> [t \in Tokens |-> 0]]
  /\ call = [c \in Clients |-> Idle] /\ torn = {} /\ calls = 0 /\ faults = 0
  /\ family \in DOMAIN MaxCalls
-------------------------------------------------------------------------------
(* Calls.                                                                     *)
Free(c, f) == call[c] = Idle /\ family = f /\ calls < MaxCalls[f]
(* A call of one statement begins and ends with it.                           *)
Single(c, f) == /\ Free(c, f)
                /\ calls' = calls + 1
                /\ UNCHANGED <<call, torn, faults, family>>
(* A call of several statements: what they write is known when it begins, but *)
(* for the row id that the first insert returns.                              *)
Overlapped(c, cache, t) ==
  \E d \in Clients \ {c} : call[d] # Idle /\ call[d].cache = cache /\ call[d].token = t
Call(c, f, todo, cache, t, row) ==
  /\ Free(c, f)
  /\ call' = [call EXCEPT ![c] = [todo |-> todo, cache |-> cache, token |-> t,
                                  row |-> row, id |-> 0]]
  /\ torn' = IF Overlapped(c, cache, t) THEN torn \cup {<<cache, t>>}
             ELSE torn \ {<<cache, t>>}
  /\ calls' = calls + 1
  /\ UNCHANGED <<event_tables, collection_tables, research_tables, faults, family>>
(* The next statement of a call runs; of a last one, or of one whose reply is *)
(* lost, nothing is left of the call.                                         *)
Runs(c, statement) == call[c] # Idle /\ Head(call[c].todo) = statement
Rest(q, id) == [q EXCEPT !.todo = Tail(@), !.id = id]
Advance(c, id) ==
  /\ \/ /\ call' = [call EXCEPT ![c] = IF Len(@.todo) = 1 THEN Idle ELSE Rest(@, id)]
        /\ UNCHANGED <<torn, faults>>
     \/ /\ faults < MaxFaults
        /\ faults' = faults + 1
        /\ call' = [call EXCEPT ![c] = Idle]
        /\ torn' = torn \cup {<<call[c].cache, call[c].token>>}
  /\ UNCHANGED <<calls, family>>
Fails(c) ==
  /\ call[c] # Idle
  /\ faults < MaxFaults
  /\ faults' = faults + 1
  /\ call' = [call EXCEPT ![c] = Idle]
  /\ torn' = torn \cup {<<call[c].cache, call[c].token>>}
  /\ UNCHANGED <<event_tables, collection_tables, research_tables, calls, family>>
-------------------------------------------------------------------------------
(* Events.  The pipeline decodes an event once, when insert_raw answers       *)
(* Inserted, and never one that was removed; an event may be decoded to rows  *)
(* of several tables.                                                         *)
insert_raw(e) ==
  /\ Single("pipeline", "events")
  /\ raw_events' = IF e \in DOMAIN raw_events THEN raw_events
                    ELSE Put(raw_events, e, [status |-> "canonical", decoder |-> "pending"])
  /\ UNCHANGED <<tokens, token_discovered, token_trades, lifecycle_events,
                 collection_tables, research_tables>>
mark_decoder(e, status) ==
  /\ Single("pipeline", "events")
  /\ raw_events' = [x \in DOMAIN raw_events |->
                      IF x = e THEN [raw_events[x] EXCEPT !.decoder = status]
                      ELSE raw_events[x]]
  /\ UNCHANGED <<tokens, token_discovered, token_trades, lifecycle_events,
                 collection_tables, research_tables>>
mark_orphaned(e) ==
  /\ Single("pipeline", "events")
  /\ raw_events' = [x \in DOMAIN raw_events |->
                      IF x = e THEN [raw_events[x] EXCEPT !.status = "orphaned"]
                      ELSE raw_events[x]]
  /\ UNCHANGED <<tokens, token_discovered, token_trades, lifecycle_events,
                 collection_tables, research_tables>>
Decodes(e, rows) ==
  e \in DOMAIN raw_events /\ raw_events[e].status = "canonical" /\ e \notin rows
insert_discovered(e) ==
  /\ Decodes(e, token_discovered)
  /\ Call("pipeline", "events", <<"token", "discovered">>, "none", TokenOf[e], e)
\* mutant: the trade's row before its token's
insert_trade_RowFirst(e) ==
  /\ Decodes(e, token_trades)
  /\ Call("pipeline", "events", <<"trade", "token">>, "none", TokenOf[e], e)
insert_trade(e) ==
  /\ Decodes(e, token_trades)
  /\ Call("pipeline", "events", <<"token", "trade">>, "none", TokenOf[e], e)
insert_lifecycle(e) ==
  /\ Decodes(e, lifecycle_events)
  /\ Call("pipeline", "events", <<"token", "lifecycle">>, "none", TokenOf[e], e)
ensure_token(c) ==
  /\ Runs(c, "token")
  /\ tokens' = tokens \cup {call[c].token}
  /\ Advance(c, 0)
  /\ UNCHANGED <<raw_events, token_discovered, token_trades, lifecycle_events,
                 collection_tables, research_tables>>
discovered_row(c) ==
  /\ Runs(c, "discovered")
  /\ token_discovered' = token_discovered \cup {call[c].row}
  /\ Advance(c, 0)
  /\ UNCHANGED <<raw_events, tokens, token_trades, lifecycle_events,
                 collection_tables, research_tables>>
trade_row(c) ==
  /\ Runs(c, "trade")
  /\ token_trades' = token_trades \cup {call[c].row}
  /\ Advance(c, 0)
  /\ UNCHANGED <<raw_events, tokens, token_discovered, lifecycle_events,
                 collection_tables, research_tables>>
lifecycle_row(c) ==
  /\ Runs(c, "lifecycle")
  /\ lifecycle_events' = lifecycle_events \cup {call[c].row}
  /\ Advance(c, 0)
  /\ UNCHANGED <<raw_events, tokens, token_discovered, token_trades,
                 collection_tables, research_tables>>
-------------------------------------------------------------------------------
(* Collection: every call is one statement.                                   *)
save_checkpoint(m) ==
  /\ Single("pipeline", "collection")
  /\ ingest_checkpoints' = m
  /\ UNCHANGED <<event_tables, chain_heads, ingest_gaps, collection_sessions,
                 watched_markets, given, research_tables>>
upsert_head(m) ==
  /\ Single("pipeline", "collection")
  /\ chain_heads' = m
  /\ UNCHANGED <<event_tables, ingest_checkpoints, ingest_gaps, collection_sessions,
                 watched_markets, given, research_tables>>
insert_gap ==
  /\ Single("pipeline", "collection")
  /\ ingest_gaps' = Append(ingest_gaps, FALSE)
  /\ UNCHANGED <<event_tables, ingest_checkpoints, chain_heads, collection_sessions,
                 watched_markets, given, research_tables>>
mark_gap_recovered(i) ==
  /\ Single("pipeline", "collection")
  /\ ingest_gaps' = [ingest_gaps EXCEPT ![i] = TRUE]
  /\ UNCHANGED <<event_tables, ingest_checkpoints, chain_heads, collection_sessions,
                 watched_markets, given, research_tables>>
insert_session ==
  /\ Single("pipeline", "collection")
  /\ collection_sessions' = Append(collection_sessions, NoMark)
  /\ UNCHANGED <<event_tables, ingest_checkpoints, chain_heads, ingest_gaps,
                 watched_markets, given, research_tables>>
finish_session(i, m) ==
  /\ Single("pipeline", "collection")
  /\ collection_sessions' = [collection_sessions EXCEPT ![i] = m]
  /\ UNCHANGED <<event_tables, ingest_checkpoints, chain_heads, ingest_gaps,
                 watched_markets, given, research_tables>>
(* COALESCE: what the market reference does not know stays as it was.         *)
Coalesce(new, old) == [field \in DOMAIN new |-> new[field] \/ old[field]]
upsert_watched_market(t, shape) ==
  /\ Single("pipeline", "collection")
  /\ watched_markets' = [watched_markets EXCEPT ![t] = Coalesce(shape, @)]
  /\ given' = [given EXCEPT ![t] = shape]
  /\ UNCHANGED <<event_tables, ingest_checkpoints, chain_heads, ingest_gaps,
                 collection_sessions, research_tables>>
-------------------------------------------------------------------------------
(* Research rows, each with its token_current_* row.  The tick persists a     *)
(* snapshot; the pipeline rebuilds a token: all its snapshots superseded, the *)
(* new ones inserted.                                                         *)
persist_snapshot(t, shot) ==
  Call("tick", "research", <<"snapshot", "current">>, "state", t, shot)
rebuild_token_state(t, shot) ==
  Call("pipeline", "research", <<"supersede", "snapshot", "current">>, "state", t, shot)
insert_assessment(t) ==
  Call("security", "research", <<"assessment", "current">>, "security", t, 0)
insert_feature_vector(t, time) ==
  Call("tick", "research", <<"vector", "current">>, "features", t, time)
insert_candidate_transition(t) ==
  Call("tick", "research", <<"transition", "current">>, "candidate", t, 0)

\* mutant: the filter on the token is lost
Supersede_All(rows, t) == [i \in DOMAIN rows |-> [rows[i] EXCEPT !.superseded = TRUE]]
Supersede(rows, t) ==
  [i \in DOMAIN rows |-> IF rows[i].token = t THEN [rows[i] EXCEPT !.superseded = TRUE]
                         ELSE rows[i]]
mark_snapshots_superseded(c) ==
  /\ Runs(c, "supersede")
  /\ token_state_snapshots' = Supersede(token_state_snapshots, call[c].token)
  /\ Advance(c, 0)
  /\ UNCHANGED <<event_tables, collection_tables, security_assessments, feature_vectors,
                 candidate_state_transitions, current>>
insert_snapshot(c) ==
  /\ Runs(c, "snapshot")
  /\ token_state_snapshots' =
       Append(token_state_snapshots,
              [token |-> call[c].token, shot |-> call[c].row, superseded |-> FALSE])
  /\ Advance(c, Len(token_state_snapshots) + 1)
  /\ UNCHANGED <<event_tables, collection_tables, security_assessments, feature_vectors,
                 candidate_state_transitions, current>>
assessment_row(c) ==
  /\ Runs(c, "assessment")
  /\ security_assessments' = Append(security_assessments, call[c].token)
  /\ Advance(c, Len(security_assessments) + 1)
  /\ UNCHANGED <<event_tables, collection_tables, token_state_snapshots, feature_vectors,
                 candidate_state_transitions, current>>
vector_row(c) ==
  /\ Runs(c, "vector")
  /\ feature_vectors' = Append(feature_vectors, [token |-> call[c].token, time |-> call[c].row])
  /\ Advance(c, Len(feature_vectors) + 1)
  /\ UNCHANGED <<event_tables, collection_tables, token_state_snapshots,
                 security_assessments, candidate_state_transitions, current>>
transition_row(c) ==
  /\ Runs(c, "transition")
  /\ candidate_state_transitions' = Append(candidate_state_transitions, call[c].token)
  /\ Advance(c, Len(candidate_state_transitions) + 1)
  /\ UNCHANGED <<event_tables, collection_tables, token_state_snapshots,
                 security_assessments, feature_vectors, current>>
(* upsert_current_state, and the second statement of the three inserts.       *)
\* mutant: ON CONFLICT DO NOTHING
upsert_current_DoNothing(c) ==
  /\ Runs(c, "current")
  /\ current' = [current EXCEPT ![call[c].cache][call[c].token] = IF @ = 0 THEN call[c].id ELSE @]
  /\ Advance(c, 0)
  /\ UNCHANGED <<event_tables, collection_tables, row_tables>>
upsert_current(c) ==
  /\ Runs(c, "current")
  /\ current' = [current EXCEPT ![call[c].cache][call[c].token] = call[c].id]
  /\ Advance(c, 0)
  /\ UNCHANGED <<event_tables, collection_tables, row_tables>>

Event(e) == \/ insert_raw(e) \/ mark_orphaned(e)
            \/ insert_discovered(e) \/ insert_trade(e) \/ insert_lifecycle(e)
            \/ \E status \in {"success", "error"} : mark_decoder(e, status)
Collection == \/ \E m \in Marks : save_checkpoint(m) \/ upsert_head(m)
              \/ insert_gap \/ \E i \in DOMAIN ingest_gaps : mark_gap_recovered(i)
              \/ insert_session
              \/ \E i \in DOMAIN collection_sessions, m \in Marks : finish_session(i, m)
              \/ \E t \in Tokens, shape \in Shapes : upsert_watched_market(t, shape)
Research(t) == \/ \E shot \in Shots : persist_snapshot(t, shot) \/ rebuild_token_state(t, shot)
               \/ insert_assessment(t) \/ insert_candidate_transition(t)
               \/ \E time \in Times : insert_feature_vector(t, time)
Statement(c) == \/ ensure_token(c) \/ discovered_row(c) \/ trade_row(c) \/ lifecycle_row(c)
                \/ mark_snapshots_superseded(c) \/ insert_snapshot(c) \/ assessment_row(c)
                \/ vector_row(c) \/ transition_row(c) \/ upsert_current(c) \/ Fails(c)
Next == \/ \E e \in Events : Event(e)
        \/ Collection
        \/ \E t \in Tokens : Research(t)
        \/ \E c \in Clients : Statement(c)
Spec == Init /\ [][Next]_vars
-------------------------------------------------------------------------------
(* Queries, as the set of rows a call may return: ORDER BY ... LIMIT 1 takes  *)
(* any of the rows that are first in its order.                               *)
First(S, before(_, _)) == {i \in S : \A j \in S : ~before(j, i)}
Live(t) == {i \in DOMAIN token_state_snapshots :
              token_state_snapshots[i].token = t /\ ~token_state_snapshots[i].superseded}
Shot(i) == token_state_snapshots[i].shot
Newer(i, j) == \/ Shot(i).time > Shot(j).time
               \/ Shot(i).time = Shot(j).time /\ Shot(i).version > Shot(j).version
\* mutant: the order lacks the version
NewerRow_NoVersion(i, j) == \/ Shot(i).time > Shot(j).time
                            \/ Shot(i).time = Shot(j).time /\ i > j
NewerRow(i, j) == Newer(i, j) \/ (~Newer(j, i) /\ i > j)
get_trades(t) == {e \in token_trades : TokenOf[e] = t}
get_lifecycle(t) == {e \in lifecycle_events : TokenOf[e] = t}
load_token_discovered(t) ==
  LET earlier(d, e) == d < e
  IN First({e \in token_discovered : TokenOf[e] = t}, earlier)
unrecovered_gap_count == Cardinality({i \in DOMAIN ingest_gaps : ingest_gaps[i] = FALSE})
list_snapshots(t, all) == IF all
  THEN {i \in DOMAIN token_state_snapshots : token_state_snapshots[i].token = t} ELSE Live(t)
latest_snapshot(t) == First(Live(t), NewerRow)
snapshot_at_or_before(t, time) == First({i \in Live(t) : Shot(i).time <= time}, Newer)
milestone_snapshot(t, age) ==
  LET newer(i, j) == Shot(i).version > Shot(j).version
  IN First({i \in Live(t) : Shot(i).kind = "MILESTONE" /\ Shot(i).time = age}, newer)
LastId(S) == LET later(i, j) == i > j IN First(S, later)
latest_assessment(t) == LastId({i \in DOMAIN security_assessments : security_assessments[i] = t})
latest_candidate(t) ==
  LastId({i \in DOMAIN candidate_state_transitions : candidate_state_transitions[i] = t})
feature_at_or_before(t, time) ==
  LET later(i, j) == \/ feature_vectors[i].time > feature_vectors[j].time
                     \/ feature_vectors[i].time = feature_vectors[j].time /\ i > j
  IN First({i \in DOMAIN feature_vectors : /\ feature_vectors[i].token = t
                                           /\ feature_vectors[i].time <= time}, later)
export_feature_vectors(limit) ==
  {i \in DOMAIN feature_vectors :
     Cardinality({j \in DOMAIN feature_vectors :
                    \/ feature_vectors[j].time < feature_vectors[i].time
                    \/ feature_vectors[j].time = feature_vectors[i].time /\ j < i}) < limit}
-------------------------------------------------------------------------------
(* What the engine's research sees on Postgres is what the tests see in       *)
(* memory.  A trade's status has to be read from its raw event: the in-memory *)
(* store writes it on the trade, Postgres on the raw event only.              *)
StatusOf(rows) == [e \in rows |-> raw_events[e].status]
Memory == INSTANCE MemoryStore WITH
  raw <- raw_events, discovered <- token_discovered, trades <- StatusOf(token_trades),
  lifecycle <- StatusOf(lifecycle_events), checkpoint <- ingest_checkpoints,
  head <- chain_heads, gaps <- ingest_gaps, sessions <- collection_sessions,
  markets <- given, snapshots <- token_state_snapshots,
  assessments <- security_assessments, features <- feature_vectors,
  candidates <- candidate_state_transitions

(* Every statement of a Postgres call, whatever the other clients do between  *)
(* its statements and wherever it fails, is one call of the in-memory store   *)
(* or leaves what that store keeps as it was: calls without a transaction     *)
(* take effect at one point.                                                  *)
ImplementsMemory == Memory!Spec

(* A query answered by SQL gives what max_by_key and the loops over vectors   *)
(* give: the same row, or one of several that the ORDER BY leaves open, of    *)
(* which memory gives one.  A market on Postgres knows at least what memory   *)
(* knows of it.                                                               *)
Among(mine, reference) == reference \subseteq mine /\ (reference = {} => mine = {})
AnswersAgree ==
  /\ unrecovered_gap_count = Memory!unrecovered_gap_count
  /\ \A n \in 0 .. Len(feature_vectors) : export_feature_vectors(n) = Memory!export_feature_vectors(n)
  /\ \A t \in Tokens :
       /\ get_trades(t) = Memory!get_trades(t)
       /\ get_lifecycle(t) = Memory!get_lifecycle(t)
       /\ Among(Memory!load_token_discovered(t), load_token_discovered(t))
       /\ \A field \in DOMAIN given[t] : given[t][field] => watched_markets[t][field]
       /\ \A all \in BOOLEAN : list_snapshots(t, all) = Memory!list_snapshots(t, all)
       /\ latest_snapshot(t) = Memory!latest_snapshot(t)
       /\ latest_assessment(t) = Memory!latest_assessment(t)
       /\ latest_candidate(t) = Memory!latest_candidate(t)
       /\ \A time \in Times :
            /\ Among(snapshot_at_or_before(t, time), Memory!snapshot_at_or_before(t, time))
            /\ Among(milestone_snapshot(t, time), Memory!milestone_snapshot(t, time))
            /\ feature_at_or_before(t, time) = Memory!feature_at_or_before(t, time)

(* The token_current_* rows are caches of the newest row of their token.      *)
(* Between calls they name it, unless the last call of that cache was cut     *)
(* short by a fault or overlapped with another task's; the next call that is  *)
(* neither repairs it.  A state cache that is right names a snapshot that is  *)
(* not superseded.                                                            *)
RowsOf(cache, t) ==
  CASE cache = "state" -> {i \in DOMAIN token_state_snapshots : token_state_snapshots[i].token = t}
    [] cache = "security" -> {i \in DOMAIN security_assessments : security_assessments[i] = t}
    [] cache = "features" -> {i \in DOMAIN feature_vectors : feature_vectors[i].token = t}
    [] cache = "candidate" ->
         {i \in DOMAIN candidate_state_transitions : candidate_state_transitions[i] = t}
CacheIsNewest ==
  \A cache \in Caches, t \in Tokens :
    \/ <<cache, t>> \in torn
    \/ \E c \in Clients : call[c] # Idle /\ call[c].cache = cache /\ call[c].token = t
    \/ /\ current[cache][t] \in RowsOf(cache, t) \cup {0}
       /\ \A i \in RowsOf(cache, t) : i <= current[cache][t]
       /\ cache = "state" /\ RowsOf(cache, t) # {} =>
            ~token_state_snapshots[current[cache][t]].superseded

(* Rows have the shape the tables give them, an event row has the raw event   *)
(* and, although no foreign key says so, the token row it is about, and a     *)
(* cache names a row that exists.                                             *)
TypeOK ==
  /\ DOMAIN raw_events \subseteq Events
  /\ raw_events \in [DOMAIN raw_events -> [status : {"canonical", "orphaned"},
                                           decoder : {"pending", "success", "error"}]]
  /\ token_discovered \cup token_trades \cup lifecycle_events \subseteq DOMAIN raw_events
  /\ {TokenOf[e] : e \in token_discovered \cup token_trades \cup lifecycle_events} \subseteq tokens
  /\ tokens \subseteq Tokens
  /\ ingest_checkpoints \in Marks \cup {NoMark} /\ chain_heads \in Marks \cup {NoMark}
  /\ ingest_gaps \in Seq(BOOLEAN) /\ collection_sessions \in Seq(Marks \cup {NoMark})
  /\ token_state_snapshots \in Seq([token : Tokens, shot : Shots, superseded : BOOLEAN])
  /\ security_assessments \in Seq(Tokens) /\ candidate_state_transitions \in Seq(Tokens)
  /\ feature_vectors \in Seq([token : Tokens, time : Times])
  /\ \A cache \in Caches, t \in Tokens : current[cache][t] \in RowsOf(cache, t) \cup {0}
===============================================================================
