---------------------------- MODULE MCPublisher -----------------------------
(***************************************************************************)
(* Instances of Publisher for TLC.                                         *)
(***************************************************************************)
EXTENDS Publisher

\* o2 watches one subtype of one type, o1 and o3 every subtype of it: two
\* observers are due for the same events, and o2 stands before, between or
\* behind them.  An event may itself be of ALL_SUBTYPE, or of a type nobody
\* watches.
WatchOf(o) == [type |-> "key", sub |-> IF o = "o2" THEN "up" ELSE "any"]
Watching == [o \in Observers |-> WatchOf(o)]

=============================================================================
