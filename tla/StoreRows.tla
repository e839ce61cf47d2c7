------------------------------ MODULE StoreRows ------------------------------
(* What the two implementations of EventStore (storage/mod.rs) store: an     *)
(* event is its identity and its token, a market is which of its addresses   *)
(* are known, a snapshot its time, version and kind, an assessment or a      *)
(* transition its token.  Row ids are positions in their sequence.           *)
(* persisted_at, which no query filters or orders by, is left out, with      *)
(* set_persisted_at.                                                         *)
EXTENDS Naturals, Sequences, FiniteSets

CONSTANTS Events,      \* event ids, numbered as they are observed
          Tokens,
          TokenOf,     \* the token each event is about
          Marks,       \* contents of a checkpoint, a head, a finished session
          Shapes,      \* what a market reference knows: [curve, pool, quote]
          Shots,       \* contents of a snapshot: [time, version, kind]
          Times        \* as-of times of feature vectors and of queries

ASSUME TokenOfType == TokenOf \in [Events -> Tokens]
ASSUME EventsAreOrdered == Events \subseteq Nat
ASSUME ShapesType == Shapes \subseteq [curve : BOOLEAN, pool : BOOLEAN, quote : BOOLEAN]
ASSUME ShotsType == Shots \subseteq [time : Nat, version : Nat, kind : {"MILESTONE", "LIFECYCLE"}]
ASSUME TimesType == Times \subseteq Nat

NoMark == "none"
NoShape == [curve |-> FALSE, pool |-> FALSE, quote |-> FALSE]
(* The map f with key x set to v.                                            *)
Put(f, x, v) == [y \in DOMAIN f \cup {x} |-> IF y = x THEN v ELSE f[y]]
===============================================================================
