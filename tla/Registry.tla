------------------------------ MODULE Registry ------------------------------
(***************************************************************************)
(* What the listener registry promises the RPC handlers, without its locks *)
(* and its sending threads: a message goes to all who listen for its type  *)
(* at one moment; each of them gets it, once, unless it was too slow to be *)
(* waited for, which costs it its channel; whoever wants to be alone is    *)
(* refused only while somebody listens.  IpcManager implements this.       *)
(***************************************************************************)
EXTENDS Naturals

CONSTANTS Tag, Listener, TagOf, Unique,
          NumChan    \* messages that may wait for a listener that is slow

VARIABLES
  phase,   \* of a handler: idle, checked, listening, leaving, ended
  line,    \* its channel: none, open, slow (somebody gave up on it), closed
  due      \* messages it has still to get

Listening(t) ==
  {l \in Listener : TagOf[l] = t /\ line[l] \in {"open", "slow"}}

Init ==
  /\ phase = [l \in Listener |-> "idle"]
  /\ line = [l \in Listener |-> "none"]
  /\ due = [l \in Listener |-> 0]

Look(l) ==
  /\ l \in Unique /\ phase[l] = "idle"
  /\ phase' = [phase EXCEPT ![l] = IF Listening(TagOf[l]) = {} THEN "checked"
                                   ELSE "ended"]
  /\ UNCHANGED <<line, due>>

Join(l) ==
  /\ phase[l] = IF l \in Unique THEN "checked" ELSE "idle"
  /\ phase' = [phase EXCEPT ![l] = "listening"]
  /\ line' = [line EXCEPT ![l] = "open"]
  /\ UNCHANGED due

Broadcast(t) ==
  /\ Listening(t) # {}
  /\ due' = [l \in Listener |-> IF l \in Listening(t) THEN due[l] + 1
                                ELSE due[l]]
  /\ UNCHANGED <<phase, line>>

Take(l) ==
  /\ phase[l] = "listening" /\ due[l] > 0
  /\ due' = [due EXCEPT ![l] = @ - 1]
  /\ UNCHANGED <<phase, line>>

(* A message is only given up when the channel cannot hold what is due.    *)
GiveUp(l) ==
  /\ line[l] \in {"open", "slow"} /\ due[l] > NumChan
  /\ due' = [due EXCEPT ![l] = @ - 1]
  /\ line' = [line EXCEPT ![l] = "slow"]
  /\ UNCHANGED phase

Leave(l) ==
  /\ phase[l] = "listening"
  /\ phase' = [phase EXCEPT ![l] = "leaving"]
  /\ UNCHANGED <<line, due>>

(***************************************************************************)
(* Channels are closed when nothing is on its way to them, which also      *)
(* takes one of the messages that wait.                                    *)
(***************************************************************************)
Close(S) ==
  /\ \A l \in S : due[l] <= NumChan
  /\ line' = [l \in Listener |-> IF l \in S THEN "closed" ELSE line[l]]
  /\ due' = [l \in Listener |-> IF l \in S /\ due[l] > 0 THEN due[l] - 1
                                ELSE due[l]]

Finish(l) ==
  /\ phase[l] = "leaving"
  /\ phase' = [phase EXCEPT ![l] = "ended"]
  /\ Close({l} \intersect Listening(TagOf[l]))

Cut(S) ==
  /\ \A l \in S : line[l] = "slow"
  /\ Close(S)
  /\ UNCHANGED phase

Next ==
  \/ \E l \in Listener :
       Look(l) \/ Join(l) \/ Take(l) \/ GiveUp(l) \/ Leave(l) \/ Finish(l)
  \/ \E t \in Tag : Broadcast(t)
  \/ \E S \in SUBSET Listener : Cut(S)

Spec == Init /\ [][Next]_<<phase, line, due>>
=============================================================================
