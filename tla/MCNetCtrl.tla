------------------------------ MODULE MCNetCtrl ------------------------------
(* Network control in a queue of two messages; with a static address a     *)
(* thread of the application uses the queue besides.                       *)
EXTENDS NetCtrl

CONSTANT app

MCApps    == [dhcp |-> {}, static |-> {app}]
MCThreads == {Looper, Driver, Tcpip, app}
=============================================================================
