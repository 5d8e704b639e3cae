---------------------------- MODULE VoiceSession ----------------------------
(***************************************************************************)
(* What the voice process promises to the robot, without its goroutines:   *)
(* a request (an accepted hotword or a connection check) opens a session,  *)
(* the newest session is the only one that can still be answered, and a    *)
(* session is answered at most once.  VoiceProcess implements this module. *)
(***************************************************************************)
CONSTANT Session     \* the requests the robot makes

VARIABLE phase       \* [Session -> Phase]

Phase == {"idle", "open", "answered", "superseded"}

TypeOK == phase \in [Session -> Phase]

Init == phase = [s \in Session |-> "idle"]

(***************************************************************************)
(* A new request opens its session and supersedes the one still open.      *)
(***************************************************************************)
Open(s) ==
  /\ phase[s] = "idle"
  /\ phase' = [t \in Session |-> IF t = s THEN "open"
                                 ELSE IF phase[t] = "open" THEN "superseded"
                                 ELSE phase[t]]

(***************************************************************************)
(* The open session gets its one answer.                                   *)
(***************************************************************************)
Answer(s) ==
  /\ phase[s] = "open"
  /\ phase' = [phase EXCEPT ![s] = "answered"]

Next == \E s \in Session : Open(s) \/ Answer(s)

Spec == Init /\ [][Next]_phase
=============================================================================
