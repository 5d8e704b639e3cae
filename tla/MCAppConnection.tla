--------------------------- MODULE MCAppConnection --------------------------
(* Instances of AppConnection for TLC.                                     *)
EXTENDS AppConnection, TLC

CONSTANTS s1, s2, app1, app2, none, free, u1, u2

TwoStreams  == {s1, s2}
TwoUpdaters == {u1, u2}
AppsAndSdk  == {app1, app2, none}

(* The app of one stream is app1, whatever the other stream's is.          *)
SameOrOther == (s1 :> {app1}) @@ (s2 :> AppsAndSdk)

(* A transition to another file, and an update that failed half way.       *)
SomeStatus ==
  {[progress |-> 2, expected |-> 1, exited |-> FALSE],
   [progress |-> 1, expected |-> 2, exited |-> TRUE]}
=============================================================================
