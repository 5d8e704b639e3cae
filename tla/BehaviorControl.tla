-------------------------- MODULE BehaviorControl ---------------------------
(* BehaviorControl, AssumeBehaviorControl and ExternalAudioStreamPlayback:  *)
(* a loop that passes the engine's answers to the user and, but for the     *)
(* second, a goroutine that passes the user's requests to the engine. Every *)
(* call has a random connection id, and the engine gives control of the     *)
(* robot to one connection at a time.                                       *)
EXTENDS Naturals, Sequences

CONSTANTS
  Conns,      \* calls, and their connection ids
  Rpcs,       \* which RPC each of them is
  News,       \* what the engine has to say: control granted, control lost
  MaxRequests \* bound: requests of a user

VARIABLES
  rpcOf,      \* the RPC of a call
  loop,       \* BehaviorControlResponseHandler: idle, running, returned
  pump,       \* BehaviorControlRequestHandler
  closedDone, \* the channel done is closed
  answers,    \* the channel of the loop: open, with at most one answer
  requests,   \* requests a user has sent
  left,       \* the user is gone
  holder,     \* who has control, for the engine
  broken,     \* a write failed
  newest,     \* the engine's last answer for a connection that has a loop
  told        \* the last one given to its user

controlVars == <<rpcOf, loop, pump, closedDone, answers, requests, left,
                 holder, broken, newest, told>>

nobody == 0

ASSUME ControlAssumption ==
  /\ nobody \notin Conns
  /\ MaxRequests \in Nat
  /\ Rpcs \subseteq [Conns -> {"BehaviorControl", "AssumeBehaviorControl",
                              "ExternalAudioStreamPlayback"}]

None == <<>>
NotMade == [open |-> FALSE, is |-> None]
Opened  == [open |-> TRUE, is |-> None]

(* What each of the three has: a pump; the ping of every second, and the    *)
(* test of the connection id.                                               *)
HasPump(c) == rpcOf[c] # "AssumeBehaviorControl"

(* Mutant: no ping.                                                         *)
NeverPings(c) == FALSE

Pings(c) == rpcOf[c] # "ExternalAudioStreamPlayback"

Controls(c) == rpcOf[c] # "ExternalAudioStreamPlayback"

-----------------------------------------------------------------------------
Answered == {None} \union (Conns \X News)

ControlTypeOK ==
  /\ rpcOf \in [Conns -> {"BehaviorControl", "AssumeBehaviorControl",
                         "ExternalAudioStreamPlayback"}]
  /\ loop \in [Conns -> {"idle", "running", "returned"}]
  /\ pump \in [Conns -> {"none", "receiving", "writing", "ending", "closing",
                        "ended"}]
  /\ closedDone \in [Conns -> BOOLEAN]
  /\ answers \in [Conns -> [open : BOOLEAN, is : Answered]]
  /\ requests \in [Conns -> Nat]
  /\ left \in [Conns -> BOOLEAN]
  /\ holder \in Conns \union {nobody}
  /\ broken \subseteq Conns
  /\ newest \in [Conns -> Answered]
  /\ told \in [Conns -> Answered]

ControlInit ==
  /\ rpcOf \in Rpcs
  /\ loop = [c \in Conns |-> "idle"]
  /\ pump = [c \in Conns |-> "none"]
  /\ closedDone = [c \in Conns |-> FALSE]
  /\ answers = [c \in Conns |-> NotMade]
  /\ requests = [c \in Conns |-> 0]
  /\ left = [c \in Conns |-> FALSE]
  /\ holder = nobody
  /\ broken = {}
  /\ newest = [c \in Conns |-> None]
  /\ told = [c \in Conns |-> None]

(* SendToListeners of an answer for a connection, to every loop that        *)
(* listens for its kind; a loop that has not taken the last one gets its    *)
(* channel closed, and SafeClose takes that answer out. The engine          *)
(* (external) answers whom and when it likes: who gets or loses control, or *)
(* how the playback goes.                                                   *)
Listens(c, d) == answers[d].open /\ Controls(d) = Controls(c)

Says(c, n) ==
  /\ loop[c] # "idle"
  /\ newest' = [newest EXCEPT ![c] =
                  IF loop[c] = "running" THEN <<c, n>> ELSE @]
  /\ UNCHANGED <<rpcOf, loop, pump, closedDone, requests, left, holder, broken,
                 told>>

(* Mutant: an answer that finds a full channel is dropped.                  *)
EngineAnswersOrDrops(c, n) ==
  /\ Says(c, n)
  /\ answers' = [d \in Conns |->
                   IF Listens(c, d) /\ answers[d].is = None
                   THEN [open |-> TRUE, is |-> <<c, n>>] ELSE answers[d]]

EngineAnswers(c, n) ==
  /\ Says(c, n)
  /\ answers' = [d \in Conns |->
                   IF ~Listens(c, d) THEN answers[d]
                   ELSE IF answers[d].is = None
                   THEN [open |-> TRUE, is |-> <<c, n>>]
                   ELSE [open |-> FALSE, is |-> None]]

(* The engine gives control to the connection that asks last.               *)
Release(c) == holder' = IF holder = c THEN nobody ELSE holder

-----------------------------------------------------------------------------
(* CreateChannel, and go BehaviorControlRequestHandler.                     *)
Start(c) ==
  /\ loop[c] = "idle" /\ HasPump(c)
  /\ loop' = [loop EXCEPT ![c] = "running"]
  /\ pump' = [pump EXCEPT ![c] = "receiving"]
  /\ answers' = [answers EXCEPT ![c] = Opened]
  /\ UNCHANGED <<rpcOf, closedDone, requests, left, holder, broken,
                 newest, told>>

(* AssumeBehaviorControl: the request comes with the call; it may be        *)
(* malformed or not be written.                                             *)
Assume(c) ==
  /\ loop[c] = "idle" /\ ~HasPump(c)
  /\ \/ loop' = [loop EXCEPT ![c] = "running"] /\ holder' = c
     \/ loop' = [loop EXCEPT ![c] = "returned"] /\ UNCHANGED holder
  /\ answers' = [answers EXCEPT ![c] =
                   IF loop'[c] = "running" THEN Opened ELSE NotMade]
  /\ UNCHANGED <<rpcOf, pump, closedDone, requests, left, broken, newest,
                 told>>

UserLeaves(c) ==
  /\ loop[c] = "running" /\ ~left[c]
  /\ left' = [left EXCEPT ![c] = TRUE]
  /\ UNCHANGED <<rpcOf, loop, pump, closedDone, answers, requests, holder,
                 broken, newest, told>>

-----------------------------------------------------------------------------
(* in.Recv: a request that came before the end, or an error when the user   *)
(* has left or the call has returned.                                       *)
RecvRequest(c) ==
  /\ pump[c] = "receiving"
  /\ \/ /\ requests[c] < MaxRequests
        /\ requests' = [requests EXCEPT ![c] = @ + 1]
        /\ pump' = [pump EXCEPT ![c] = "writing"]
     \/ /\ left[c] \/ loop[c] = "returned"
        /\ pump' = [pump EXCEPT ![c] = "ending"]
        /\ UNCHANGED requests
  /\ UNCHANGED <<rpcOf, loop, closedDone, answers, left, holder, broken,
                 newest, told>>

(* The request is a ControlRequest, a ControlRelease, or (playback) audio,  *)
(* or the pump ends: it is none of these, or for control the write fails.   *)
Forward(c) ==
  /\ pump[c] = "writing"
  /\ \/ /\ Controls(c)
        /\ holder' = c \/ Release(c)
        /\ pump' = [pump EXCEPT ![c] = "receiving"]
     \/ /\ ~Controls(c)
        /\ pump' = [pump EXCEPT ![c] = "receiving"]
        /\ UNCHANGED holder
     \/ /\ pump' = [pump EXCEPT ![c] = "ending"]
        /\ UNCHANGED holder
  /\ UNCHANGED <<rpcOf, loop, closedDone, answers, requests, left, broken,
                 newest, told>>

(* Mutant: control is released only when the user has left.                 *)
EndUnlessDied(c) ==
  /\ pump[c] = "ending"
  /\ pump' = [pump EXCEPT ![c] = "closing"]
  /\ IF left[c] THEN Release(c) ELSE UNCHANGED holder
  /\ UNCHANGED <<rpcOf, loop, closedDone, answers, requests, left, broken,
                 newest, told>>

(* The deferred calls of the pump: ControlRelease, whose write may fail,    *)
(* then close(done).                                                        *)
End(c) ==
  /\ pump[c] = "ending"
  /\ pump' = [pump EXCEPT ![c] = "closing"]
  /\ \/ /\ Controls(c) /\ Release(c) /\ UNCHANGED broken
     \/ /\ Controls(c) /\ broken' = broken \union {c} /\ UNCHANGED holder
     \/ /\ ~Controls(c) /\ UNCHANGED <<holder, broken>>
  /\ UNCHANGED <<rpcOf, loop, closedDone, answers, requests, left, newest,
                 told>>

CloseDone(c) ==
  /\ pump[c] = "closing"
  /\ pump' = [pump EXCEPT ![c] = "ended"]
  /\ closedDone' = [closedDone EXCEPT ![c] = TRUE]
  /\ UNCHANGED <<rpcOf, loop, answers, requests, left, holder, broken,
                 newest, told>>

-----------------------------------------------------------------------------
(* return, and the deferred deletion of the listener.                       *)
ReturnLoop(c) ==
  /\ loop' = [loop EXCEPT ![c] = "returned"]
  /\ answers' = [answers EXCEPT ![c] = NotMade]
  /\ newest' = [newest EXCEPT ![c] = None]
  /\ told' = [told EXCEPT ![c] = None]

(* Playback has no such test.                                               *)
IsFor(c, id) == rpcOf[c] = "ExternalAudioStreamPlayback" \/ c = id

(* One turn of the loop. A user who has left is noticed when something is   *)
(* sent: an answer, or the ping of every second.                            *)
LoopDone(c) ==
  /\ loop[c] = "running" /\ closedDone[c]
  /\ ReturnLoop(c)
  /\ UNCHANGED <<rpcOf, pump, closedDone, requests, left, holder, broken>>

LoopFails(c) ==
  /\ loop[c] = "running" /\ ~answers[c].open
  /\ ReturnLoop(c)
  /\ UNCHANGED <<rpcOf, pump, closedDone, requests, left, holder, broken>>

LoopAnswers(c) ==
  /\ loop[c] = "running" /\ answers[c].is # None
  /\ IF ~IsFor(c, answers[c].is[1])
     THEN /\ answers' = [answers EXCEPT ![c].is = None]
          /\ UNCHANGED <<loop, newest, told>>
     ELSE IF left[c] THEN ReturnLoop(c)
     ELSE /\ answers' = [answers EXCEPT ![c].is = None]
          /\ told' = [told EXCEPT ![c] = answers[c].is]
          /\ UNCHANGED <<loop, newest>>
  /\ UNCHANGED <<rpcOf, pump, closedDone, requests, left, holder, broken>>

LoopPings(c) ==
  /\ loop[c] = "running" /\ Pings(c) /\ left[c]
  /\ ReturnLoop(c)
  /\ UNCHANGED <<rpcOf, pump, closedDone, requests, left, holder, broken>>

PumpEnds(c) == Forward(c) \/ End(c) \/ CloseDone(c)

ControlNext ==
  \E c \in Conns :
    \/ Start(c) \/ Assume(c) \/ UserLeaves(c)
    \/ RecvRequest(c) \/ PumpEnds(c) \/ \E n \in News : EngineAnswers(c, n)
    \/ LoopDone(c) \/ LoopFails(c) \/ LoopAnswers(c) \/ LoopPings(c)

(* select chooses at random, so a case that stays ready is chosen in time,  *)
(* though other answers keep coming.                                        *)
ControlFairness ==
  \A c \in Conns :
    /\ WF_controlVars(LoopDone(c)) /\ WF_controlVars(LoopFails(c))
    /\ WF_controlVars(LoopAnswers(c)) /\ WF_controlVars(LoopPings(c))
    /\ WF_controlVars(PumpEnds(c) \/ RecvRequest(c))

ControlSpec ==
  ControlInit /\ [][ControlNext]_controlVars /\ ControlFairness

-----------------------------------------------------------------------------
(* When a BehaviorControl call is over, the robot is soon free of it and    *)
(* stays so, whether the user left, the channel was closed or a request was *)
(* malformed, and although its pump may write one more request after that;  *)
(* unless the write of the release fails.                                   *)
ControlIsReleased ==
  \A c \in Conns :
    (loop[c] = "returned" /\ rpcOf[c] = "BehaviorControl")
      ~> [](holder # c \/ c \in broken)

(* Who controls the robot does not miss that control was lost, or given     *)
(* back: the newest of the engine's answers to a connection is the last one *)
(* its user was told or waits for the loop, although the answers to all     *)
(* connections go through its channel of one; else that channel is closed,  *)
(* and the call ends with an error.                                         *)
KnowsLatest ==
  \A c \in Conns :
    Controls(c) /\ loop[c] = "running" /\ answers[c].open
      => newest[c] \in {told[c], answers[c].is}

(* A call whose user has left comes to an end with both its goroutines:     *)
(* by the ping, or because Recv fails and the pump closes done.             *)
ControlEnds ==
  \A c \in Conns :
    left[c] ~> loop[c] = "returned" /\ pump[c] \in {"none", "ended"}
=============================================================================
