----------------------------- MODULE MCConsole ------------------------------
(***************************************************************************)
(* Instances of Console for TLC: line buffers of three places, so that a   *)
(* line has at most two characters, and a UART that holds two.             *)
(***************************************************************************)
EXTENDS Console
=============================================================================
