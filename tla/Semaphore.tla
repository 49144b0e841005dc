----------------------------- MODULE Semaphore ------------------------------
(***************************************************************************)
(* What a counting semaphore promises: at most Permits users hold it, a    *)
(* user takes it only when one is left, and gives it back once.            *)
(***************************************************************************)
EXTENDS Integers, FiniteSets

CONSTANTS User, Permits

VARIABLE holders

Init == holders = {}

Acquire(u) ==
  /\ u \notin holders
  /\ Cardinality(holders) < Permits
  /\ holders' = holders \cup {u}

Release(u) ==
  /\ u \in holders
  /\ holders' = holders \ {u}

Next == \E u \in User : Acquire(u) \/ Release(u)

Spec == Init /\ [][Next]_holders
=============================================================================
