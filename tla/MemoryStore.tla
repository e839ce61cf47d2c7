----------------------------- MODULE MemoryStore -----------------------------
(* The in-memory store (storage/memory.rs), which the tests run against: one *)
(* mutex, so that every call is one step.                                    *)
EXTENDS StoreRows

VARIABLES raw,          \* raw events: event -> [status, decoder]
          discovered,   \* events stored as discoveries
          trades,       \* stored trades: event -> canonical status
          lifecycle,    \* stored lifecycle events: event -> canonical status
          checkpoint,   \* the collector's checkpoint
          head,         \* the chain's head
          gaps,         \* ingest gaps: recovered or not
          sessions,     \* collection sessions: how each was finished
          markets,      \* watched markets: token -> shape
          snapshots,    \* snapshots: [token, shot, superseded]
          assessments,  \* security assessments: their token
          features,     \* feature vectors: [token, time]
          candidates    \* candidate transitions: their token
vars == <<raw, discovered, trades, lifecycle, checkpoint, head, gaps, sessions,
          markets, snapshots, assessments, features, candidates>>
events == <<raw, discovered, trades, lifecycle>>
collection == <<checkpoint, head, gaps, sessions, markets>>
research == <<snapshots, assessments, features, candidates>>

Init == /\ raw = <<>> /\ discovered = {} /\ trades = <<>> /\ lifecycle = <<>>
        /\ checkpoint = NoMark /\ head = NoMark /\ gaps = <<>> /\ sessions = <<>>
        /\ markets = [t \in Tokens |-> NoShape]
        /\ snapshots = <<>> /\ assessments = <<>> /\ features = <<>> /\ candidates = <<>>
-------------------------------------------------------------------------------
(* Events.  A duplicate raw event changes nothing.                            *)
insert_raw(e) ==
  /\ raw' = IF e \in DOMAIN raw THEN raw
             ELSE Put(raw, e, [status |-> "canonical", decoder |-> "pending"])
  /\ UNCHANGED <<discovered, trades, lifecycle, collection, research>>
insert_discovered(e) ==
  /\ discovered' = discovered \cup {e}
  /\ UNCHANGED <<raw, trades, lifecycle, collection, research>>
(* A trade or lifecycle event that is stored again is overwritten.            *)
insert_trade(e) ==
  /\ trades' = Put(trades, e, "canonical")
  /\ UNCHANGED <<raw, discovered, lifecycle, collection, research>>
insert_lifecycle(e) ==
  /\ lifecycle' = Put(lifecycle, e, "canonical")
  /\ UNCHANGED <<raw, discovered, trades, collection, research>>
(* An event that is not stored is an error, and changes nothing.              *)
mark_decoder(e, status) ==
  /\ e \in DOMAIN raw
  /\ raw' = [raw EXCEPT ![e].decoder = status]
  /\ UNCHANGED <<discovered, trades, lifecycle, collection, research>>
(* Orphaning a raw event orphans what was decoded from it.                    *)
Orphan(f, e) == [x \in DOMAIN f |-> IF x = e THEN "orphaned" ELSE f[x]]
mark_orphaned(e) ==
  /\ e \in DOMAIN raw
  /\ raw' = [raw EXCEPT ![e].status = "orphaned"]
  /\ trades' = Orphan(trades, e)
  /\ lifecycle' = Orphan(lifecycle, e)
  /\ UNCHANGED <<discovered, collection, research>>
-------------------------------------------------------------------------------
(* Collection.                                                                *)
save_checkpoint(m) == /\ checkpoint' = m
                      /\ UNCHANGED <<events, head, gaps, sessions, markets, research>>
upsert_head(m) == /\ head' = m
                  /\ UNCHANGED <<events, checkpoint, gaps, sessions, markets, research>>
insert_gap == /\ gaps' = Append(gaps, FALSE)
              /\ UNCHANGED <<events, checkpoint, head, sessions, markets, research>>
mark_gap_recovered(i) ==
  /\ i \in DOMAIN gaps
  /\ gaps' = [gaps EXCEPT ![i] = TRUE]
  /\ UNCHANGED <<events, checkpoint, head, sessions, markets, research>>
insert_session == /\ sessions' = Append(sessions, NoMark)
                  /\ UNCHANGED <<events, checkpoint, head, gaps, markets, research>>
finish_session(i, m) ==
  /\ i \in DOMAIN sessions
  /\ sessions' = [sessions EXCEPT ![i] = m]
  /\ UNCHANGED <<events, checkpoint, head, gaps, markets, research>>
(* The market as last given replaces the one that is stored.                  *)
upsert_watched_market(t, shape) ==
  /\ markets' = [markets EXCEPT ![t] = shape]
  /\ UNCHANGED <<events, checkpoint, head, gaps, sessions, research>>
-------------------------------------------------------------------------------
(* Research rows; upsert_current_state does nothing here.                     *)
insert_snapshot(t, shot) ==
  /\ snapshots' = Append(snapshots, [token |-> t, shot |-> shot, superseded |-> FALSE])
  /\ UNCHANGED <<events, collection, assessments, features, candidates>>
mark_snapshots_superseded(t) ==
  /\ snapshots' = [i \in DOMAIN snapshots |->
                     IF snapshots[i].token = t
                     THEN [snapshots[i] EXCEPT !.superseded = TRUE]
                     ELSE snapshots[i]]
  /\ UNCHANGED <<events, collection, assessments, features, candidates>>
insert_assessment(t) ==
  /\ assessments' = Append(assessments, t)
  /\ UNCHANGED <<events, collection, snapshots, features, candidates>>
insert_feature_vector(t, time) ==
  /\ features' = Append(features, [token |-> t, time |-> time])
  /\ UNCHANGED <<events, collection, snapshots, assessments, candidates>>
insert_candidate_transition(t) ==
  /\ candidates' = Append(candidates, t)
  /\ UNCHANGED <<events, collection, snapshots, assessments, features>>

Next ==
  \/ \E e \in Events : \/ insert_raw(e) \/ insert_discovered(e) \/ insert_trade(e)
                       \/ insert_lifecycle(e) \/ mark_orphaned(e)
                       \/ \E status \in {"success", "error"} : mark_decoder(e, status)
  \/ \E m \in Marks : save_checkpoint(m) \/ upsert_head(m)
  \/ insert_gap \/ \E i \in DOMAIN gaps : mark_gap_recovered(i)
  \/ insert_session \/ \E i \in DOMAIN sessions, m \in Marks : finish_session(i, m)
  \/ \E t \in Tokens :
       \/ \E shape \in Shapes : upsert_watched_market(t, shape)
       \/ \E shot \in Shots : insert_snapshot(t, shot)
       \/ mark_snapshots_superseded(t) \/ insert_assessment(t)
       \/ \E time \in Times : insert_feature_vector(t, time)
       \/ insert_candidate_transition(t)
Spec == Init /\ [][Next]_vars
-------------------------------------------------------------------------------
(* Queries, as the set of answers a call may give: at most one, except where  *)
(* the code takes whichever value its hash map yields first.  max_by_key      *)
(* takes the last of several maxima.                                          *)
Latest(S, after(_, _)) == {i \in S : \A j \in S : j # i => after(i, j) \/ (~after(j, i) /\ i > j)}
ByTime(i, j) ==
  LET a == snapshots[i].shot  b == snapshots[j].shot
  IN a.time > b.time \/ (a.time = b.time /\ a.version > b.version)
Current(t) == {i \in DOMAIN snapshots : snapshots[i].token = t /\ ~snapshots[i].superseded}

get_trades(t) == {e \in DOMAIN trades : TokenOf[e] = t}
get_lifecycle(t) == {e \in DOMAIN lifecycle : TokenOf[e] = t}
load_token_discovered(t) == {e \in discovered : TokenOf[e] = t}
unrecovered_gap_count == Cardinality({i \in DOMAIN gaps : ~gaps[i]})
list_snapshots(t, all) ==
  {i \in DOMAIN snapshots : snapshots[i].token = t /\ (all \/ ~snapshots[i].superseded)}
latest_snapshot(t) == Latest(Current(t), ByTime)
snapshot_at_or_before(t, time) ==
  Latest({i \in Current(t) : snapshots[i].shot.time <= time}, ByTime)
milestone_snapshot(t, age) ==
  LET newer(i, j) == snapshots[i].shot.version > snapshots[j].shot.version
  IN Latest({i \in Current(t) : snapshots[i].shot.kind = "MILESTONE"
                                /\ snapshots[i].shot.time = age}, newer)
latest_assessment(t) ==
  LET never(i, j) == FALSE
  IN Latest({i \in DOMAIN assessments : assessments[i] = t}, never)
feature_at_or_before(t, time) ==
  LET later(i, j) == features[i].time > features[j].time
  IN Latest({i \in DOMAIN features : features[i].token = t /\ features[i].time <= time}, later)
latest_candidate(t) ==
  LET never(i, j) == FALSE
  IN Latest({i \in DOMAIN candidates : candidates[i] = t}, never)
(* A stable sort by time, then the first of them.                             *)
export_feature_vectors(limit) ==
  {i \in DOMAIN features :
     Cardinality({j \in DOMAIN features :
                    \/ features[j].time < features[i].time
                    \/ features[j].time = features[i].time /\ j < i}) < limit}
===============================================================================
