----------------------------- MODULE LineQueue ------------------------------
(***************************************************************************)
(* What console.c does for those who type: every line it accepts is        *)
(* executed once, one at a time, in the order the lines came in.           *)
(***************************************************************************)
EXTENDS Naturals, Sequences

CONSTANTS
  Lines,    \* command lines
  Cap       \* lines that can be waiting or being executed

VARIABLES
  queue,    \* lines accepted and not yet begun
  doing     \* the line being executed, as a sequence of at most one line

Init == queue = <<>> /\ doing = <<>>

Accept(l) ==
  /\ Len(queue) + Len(doing) < Cap
  /\ queue' = Append(queue, l)
  /\ UNCHANGED doing

Begin ==
  /\ doing = <<>> /\ queue # <<>>
  /\ doing' = <<Head(queue)>>
  /\ queue' = Tail(queue)

End ==
  /\ doing # <<>>
  /\ doing' = <<>>
  /\ UNCHANGED queue

\* The console is started anew: lines left over from before are forgotten.
Forget ==
  /\ doing = <<>>
  /\ queue' = <<>>
  /\ UNCHANGED doing

Next == \/ \E l \in Lines : Accept(l)
        \/ Begin \/ End \/ Forget

Spec == Init /\ [][Next]_<<queue, doing>>
=============================================================================
