--------------------------- MODULE AppConnection ----------------------------
(***************************************************************************)
(* The primary app of vic-gateway and the update status it is shown        *)
(* (cloud/message_handler.go).  Every EventStream call brings a connection *)
(* id, which SDK clients leave empty; checkConnectionID makes the caller   *)
(* primary when no other id is set and no other app is paired over BLE,    *)
(* and onDisconnect clears the id when a primary stream ends.              *)
(*                                                                         *)
(* UpdateStatusStream, started by StartUpdateEngine, runs while an id is   *)
(* set.  It shares lastProgress, lastExpected and statusStreamRunning with *)
(* the calls of StartUpdateEngine and with its own other instances, without*)
(* a lock: every access is a step.  The files of update-engine may hold    *)
(* any sizes when they are read.  What a listener of the events receives   *)
(* is the subject of IpcManager.                                           *)
(***************************************************************************)
EXTENDS Integers, FiniteSets

CONSTANTS Stream,    \* calls of EventStream, one after another in each
          Id,        \* connection ids
          NoId,      \* the empty id
          Brings,    \* the ids that a stream may come with
          Free,      \* nobody holds connectionIdLock
          Updater,   \* calls of StartUpdateEngine, each with its goroutine
          Status,    \* what the files of update-engine may hold
          MaxTries,  \* waits for a connection id (10 in the code)
          MaxCalls   \* bound on the calls that are served at once

ASSUME AppAssumption ==
  /\ NoId \in Id
  /\ Brings \in [Stream -> SUBSET Id]
  /\ Free \notin Stream
  /\ Status \subseteq [progress : Int, expected : Int, exited : BOOLEAN]
  /\ MaxTries \in Nat
  /\ MaxCalls \in Nat

VARIABLES
  connectionId,
  lock,                  \* connectionIdLock
  stream,                \* where an EventStream call is
  id,                    \* the id it came with
  shared,                \* history: two primaries of one id, or of no id,
                         \* since there was none
  statusStreamRunning,
  lastProgress,
  lastExpected,
  updater,               \* where a StartUpdateEngine call or its goroutine is
  tries,                 \* its iterations
  status,                \* its status: progress, expected, has an exit code
  ratio,                 \* the lastProgress it has loaded for lastRatio
  started,               \* its updateStarted
  overlapped             \* history: two have used the last values at once,
                         \* since StartUpdateEngine found no other call

connVars == <<connectionId, lock, stream, id, shared>>
lastVars == <<lastProgress, lastExpected, overlapped>>
local == <<tries, status, ratio, started>>
vars == <<connVars, statusStreamRunning, lastVars, updater, local>>

Streaming == {"await", "loop", "loadP", "loadE", "storeP", "storeE", "lastP",
              "lastE", "send", "ending"}

-----------------------------------------------------------------------------
TypeOK ==
  /\ connectionId \in Id
  /\ lock \in Stream \cup {Free}
  /\ stream \in [Stream -> {"off", "waiting", "asked", "primary", "secondary",
                            "leaving"}]
  /\ id \in [Stream -> Id]
  /\ shared \in BOOLEAN
  /\ statusStreamRunning \in BOOLEAN
  /\ lastProgress \in Int
  /\ lastExpected \in Int
  /\ updater \in [Updater ->
                    {"idle", "resetE", "test", "claim"} \cup Streaming]
  /\ tries \in [Updater -> 0..MaxTries]
  /\ status \in [Updater -> [progress : Int, expected : Int,
                             exited : BOOLEAN]]
  /\ ratio \in [Updater -> Int]
  /\ started \in [Updater -> BOOLEAN]
  /\ overlapped \in BOOLEAN

NoStatus == [progress |-> 0, expected |-> 0, exited |-> FALSE]

Init ==
  /\ connectionId = NoId
  /\ lock = Free
  /\ stream = [s \in Stream |-> "off"]
  /\ id = [s \in Stream |-> NoId]
  /\ shared = FALSE
  /\ statusStreamRunning = FALSE
  /\ lastProgress = 0
  /\ lastExpected = 0
  /\ updater = [u \in Updater |-> "idle"]
  /\ tries = [u \in Updater |-> 0]
  /\ status = [u \in Updater |-> NoStatus]
  /\ ratio = [u \in Updater |-> 0]
  /\ started = [u \in Updater |-> FALSE]
  /\ overlapped = FALSE

-----------------------------------------------------------------------------
Calls == {s \in Stream : stream[s] # "off"}
           \cup {u \in Updater : updater[u] # "idle"}
Served == Cardinality(Calls) < MaxCalls

-----------------------------------------------------------------------------
(* EventStream.                                                            *)

UpdateUnchanged ==
  UNCHANGED <<statusStreamRunning, lastVars, updater, local>>

Go(s, to) == stream' = [stream EXCEPT ![s] = to]

(* Streams whose onDisconnect is still to come.                            *)
Primary == {s \in Stream : stream[s] \in {"primary", "leaving"}}

Call(s, i) ==
  /\ stream[s] = "off"
  /\ Served
  /\ Go(s, "waiting")
  /\ id' = [id EXCEPT ![s] = i]
  /\ UNCHANGED <<connectionId, lock, shared>>
  /\ UpdateUnchanged

(* Mutant: the id that is set is not compared.                             *)
NothingSet(s) == FALSE

OtherIdSet(s) == connectionId # NoId /\ id[s] # connectionId

(* The id is another's: secondary, and the lock is free again.             *)
Refuse(s) ==
  /\ stream[s] = "waiting"
  /\ lock = Free
  /\ OtherIdSet(s)
  /\ Go(s, "secondary")
  /\ UNCHANGED <<connectionId, lock, id, shared>>
  /\ UpdateUnchanged

(* The lock is kept while switchboard is asked who is paired over BLE.     *)
AskSwitchboard(s) ==
  /\ stream[s] = "waiting"
  /\ lock = Free
  /\ ~OtherIdSet(s)
  /\ lock' = s
  /\ Go(s, "asked")
  /\ UNCHANGED <<connectionId, id, shared>>
  /\ UpdateUnchanged

(* Switchboard answers: nobody, or this very app, is paired over BLE.      *)
BecomePrimary(s) ==
  /\ stream[s] = "asked"
  /\ connectionId' = id[s]
  /\ lock' = Free
  /\ Go(s, "primary")
  /\ shared' = \/ shared
               \/ id[s] = NoId
               \/ \E t \in Primary : id[t] = id[s]
  /\ UNCHANGED id
  /\ UpdateUnchanged

(* Mutant: the refused caller keeps the lock.                              *)
PairedByOtherKeepsLock(s) ==
  /\ stream[s] = "asked"
  /\ Go(s, "secondary")
  /\ UNCHANGED <<connectionId, lock, id, shared>>
  /\ UpdateUnchanged

(* Another app is.                                                         *)
PairedByOther(s) ==
  /\ stream[s] = "asked"
  /\ lock' = Free
  /\ Go(s, "secondary")
  /\ UNCHANGED <<connectionId, id, shared>>
  /\ UpdateUnchanged

(* The client is gone: a Send fails, at the latest the ping of a second.   *)
Leave(s) ==
  /\ \/ stream[s] = "primary" /\ Go(s, "leaving") /\ UNCHANGED id
     \/ /\ stream[s] = "secondary"
        /\ Go(s, "off")
        /\ id' = [id EXCEPT ![s] = NoId]
  /\ UNCHANGED <<connectionId, lock, shared>>
  /\ UpdateUnchanged

OnDisconnect(s) ==
  /\ stream[s] = "leaving"
  /\ connectionId' = NoId
  /\ Go(s, "off")
  /\ id' = [id EXCEPT ![s] = NoId]
  /\ shared' = (shared /\ Primary # {s})
  /\ UNCHANGED lock
  /\ UpdateUnchanged

-----------------------------------------------------------------------------
(* StartUpdateEngine.                                                      *)

Step(u, from, to) ==
  /\ updater[u] = from
  /\ updater' = [updater EXCEPT ![u] = to]

(* In the middle of using the pair lastProgress, lastExpected.             *)
Using == {"resetE", "loadE", "storeP", "storeE", "lastP", "lastE"}

(* u begins to use the pair.                                               *)
Overlap(u) ==
  overlapped' = (overlapped \/ \E v \in Updater \ {u} : updater[v] \in Using)

(* The status is not ready to reboot, or update-engine could be restarted. *)
ResetProgress(u) ==
  /\ Served
  /\ Step(u, "idle", "resetE")
  /\ lastProgress' = 0
  /\ IF \A v \in Updater : updater[v] = "idle" THEN overlapped' = FALSE
                                            ELSE Overlap(u)
  /\ UNCHANGED <<connVars, statusStreamRunning, lastExpected, local>>

(* The goroutine is spawned.                                               *)
ResetExpected(u) ==
  /\ Step(u, "resetE", "test")
  /\ lastExpected' = 1
  /\ UNCHANGED <<connVars, statusStreamRunning, lastProgress, overlapped,
                 local>>

-----------------------------------------------------------------------------
(* UpdateStatusStream.                                                     *)

TestRunning(u) ==
  /\ Step(u, "test", IF statusStreamRunning THEN "idle" ELSE "claim")
  /\ UNCHANGED <<connVars, statusStreamRunning, lastVars, local>>

Claim(u) ==
  /\ Step(u, "claim", "await")
  /\ statusStreamRunning' = TRUE
  /\ UNCHANGED <<connVars, lastVars, local>>

(* Mutant: the waits are not counted.                                      *)
AwaitForever(u) ==
  /\ Step(u, "await", IF connectionId = NoId THEN "await" ELSE "loop")
  /\ UNCHANGED <<connVars, statusStreamRunning, lastVars, local>>

Await(u) ==
  /\ \/ /\ connectionId = NoId
        /\ tries[u] < MaxTries
        /\ Step(u, "await", "await")
        /\ tries' = [tries EXCEPT ![u] = @ + 1]
     \/ /\ connectionId # NoId \/ tries[u] = MaxTries
        /\ Step(u, "await", "loop")
        /\ tries' = [tries EXCEPT ![u] = 0]
  /\ UNCHANGED <<connVars, statusStreamRunning, lastVars, status, ratio,
                 started>>

(* GetUpdateStatus.                                                        *)
ReadStatus(u, st) ==
  /\ connectionId # NoId
  /\ Step(u, "loop", "loadP")
  /\ status' = [status EXCEPT ![u] = st]
  /\ UNCHANGED <<connVars, statusStreamRunning, lastVars, tries, ratio,
                 started>>

AppGone(u) ==
  /\ connectionId = NoId
  /\ Step(u, "loop", "ending")
  /\ UNCHANGED <<connVars, statusStreamRunning, lastVars, local>>

LoadProgress(u) ==
  /\ Step(u, "loadP", "loadE")
  /\ ratio' = [ratio EXCEPT ![u] = lastProgress]
  /\ Overlap(u)
  /\ UNCHANGED <<connVars, statusStreamRunning, lastProgress, lastExpected,
                 tries, status, started>>

(* Mutant: the middle of a transition is not recognised.                   *)
BetterOrTransition(u) ==
  LET st == status[u]
  IN  /\ st.progress > 0
      /\ st.expected > 0
      /\ ratio[u] * st.expected < st.progress * lastExpected

(* The status has progressed beyond lastRatio, the quotient of what u has  *)
(* loaded, which is not finite before lastExpected is set.                 *)
Better(u) ==
  LET st == status[u]
  IN  /\ st.progress > 0
      /\ st.expected > 0
      /\ st.progress <= st.expected
      /\ ratio[u] * st.expected < st.progress * lastExpected

LoadExpected(u) ==
  /\ Step(u, "loadE", IF Better(u) THEN "storeP" ELSE "lastP")
  /\ ratio' = [ratio EXCEPT ![u] = 0]
  /\ UNCHANGED <<connVars, statusStreamRunning, lastVars, tries, status,
                 started>>

StoreProgress(u) ==
  /\ Step(u, "storeP", "storeE")
  /\ lastProgress' = status[u].progress
  /\ UNCHANGED <<connVars, statusStreamRunning, lastExpected, overlapped,
                 local>>

StoreExpected(u) ==
  /\ Step(u, "storeE", "send")
  /\ lastExpected' = status[u].expected
  /\ UNCHANGED <<connVars, statusStreamRunning, lastProgress, overlapped,
                 local>>

LastProgress(u) ==
  /\ Step(u, "lastP", "lastE")
  /\ status' = [status EXCEPT ![u].progress = lastProgress]
  /\ UNCHANGED <<connVars, statusStreamRunning, lastVars, tries, ratio,
                 started>>

LastExpected(u) ==
  /\ Step(u, "lastE", "send")
  /\ status' = [status EXCEPT ![u].expected = lastExpected]
  /\ UNCHANGED <<connVars, statusStreamRunning, lastVars, tries, ratio,
                 started>>

(* SendToListeners, and another round unless the update has ended.         *)
Send(u) ==
  /\ Step(u, "send", IF status[u].exited /\ started[u] THEN "ending"
                     ELSE "loop")
  /\ started' = [started EXCEPT ![u] = TRUE]
  /\ status' = [status EXCEPT ![u] = NoStatus]
  /\ UNCHANGED <<connVars, statusStreamRunning, lastVars, tries, ratio>>

(* Mutant: the deferred reset is lost.                                     *)
EndWithoutReset(u) ==
  /\ Step(u, "ending", "idle")
  /\ UNCHANGED <<connVars, statusStreamRunning, lastVars, local>>

End(u) ==
  /\ Step(u, "ending", "idle")
  /\ statusStreamRunning' = FALSE
  /\ started' = [started EXCEPT ![u] = FALSE]
  /\ UNCHANGED <<connVars, lastVars, tries, status, ratio>>

-----------------------------------------------------------------------------
EventStream(s) ==
  \/ \E i \in Brings[s] : Call(s, i)
  \/ Refuse(s)
  \/ AskSwitchboard(s)
  \/ BecomePrimary(s)
  \/ PairedByOther(s)
  \/ Leave(s)
  \/ OnDisconnect(s)

UpdateStatusStream(u) ==
  \/ ResetExpected(u)
  \/ TestRunning(u)
  \/ Claim(u)
  \/ Await(u)
  \/ \E st \in Status : ReadStatus(u, st)
  \/ AppGone(u)
  \/ LoadProgress(u)
  \/ LoadExpected(u)
  \/ StoreProgress(u)
  \/ StoreExpected(u)
  \/ LastProgress(u)
  \/ LastExpected(u)
  \/ Send(u)
  \/ End(u)

Next ==
  \/ \E s \in Stream : EventStream(s)
  \/ \E u \in Updater : ResetProgress(u) \/ UpdateStatusStream(u)

Spec == Init /\ [][Next]_vars

(***************************************************************************)
(* Goroutines run on, a Mutex is handed to everybody who waits for it, and *)
(* switchboard answers.  Nobody has to call or to leave.                   *)
(***************************************************************************)
Fairness ==
  /\ \A s \in Stream :
       /\ SF_vars(Refuse(s) \/ AskSwitchboard(s))
       /\ WF_vars(BecomePrimary(s) \/ PairedByOther(s))
       /\ WF_vars(OnDisconnect(s))
  /\ \A u \in Updater : WF_vars(UpdateStatusStream(u))

FairSpec == Spec /\ Fairness

-----------------------------------------------------------------------------
(* As long as no two primaries came with one id, or with none, the primary *)
(* is one and the id that is set is its id, until onDisconnect clears it:  *)
(* nobody else's arrival or departure takes it away.                       *)
PrimaryKeepsId ==
  ~shared => /\ \A s \in Primary : connectionId = id[s]
             /\ Cardinality(Primary) <= 1

(* Whoever finds statusStreamRunning set and returns leaves behind a       *)
(* goroutine that streams, or that is about to clear it.                   *)
RunningHasStream ==
  statusStreamRunning => \E u \in Updater : updater[u] \in Streaming

(* As long as no two goroutines use the last values at once, the app is    *)
(* never sent more progress than is expected, whatever the files of        *)
(* update-engine hold.                                                     *)
SentIsValid ==
  ~overlapped => \A u \in Updater : updater[u] = "send" =>
                   /\ 0 <= status[u].progress
                   /\ status[u].progress <= status[u].expected

(* Every call of EventStream learns whether it is primary.                 *)
CallAnswered ==
  \A s \in Stream :
    stream[s] = "waiting" ~> stream[s] \in {"primary", "secondary"}

(* Once no app is connected any more, the status stream ends.              *)
StatusStreamEnds ==
  <>[](connectionId = NoId) => []<>(~statusStreamRunning)
=============================================================================
