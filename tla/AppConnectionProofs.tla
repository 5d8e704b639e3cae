------------------------ MODULE AppConnectionProofs -------------------------
(***************************************************************************)
(* Proofs about AppConnection, for any streams, ids and updates, any       *)
(* contents of the files of update-engine and any bounds.                  *)
(***************************************************************************)
EXTENDS AppConnection, FiniteSetTheorems, TLAPS

(* Who waits for switchboard has the lock, and no other id is set.         *)
AskedSound ==
  \A s \in Stream : stream[s] = "asked" => lock = s /\ ~OtherIdSet(s)

(* Primaries have one id, the one that is set, and no two of them share it.*)
PrimarySound ==
  ~shared => \A s \in Primary :
               /\ connectionId = id[s]
               /\ id[s] # NoId
               /\ \A t \in Primary : id[t] = id[s] => t = s

(* Who uses the last values is alone with them, and they are valid unless  *)
(* it has stored only one of them.                                         *)
Valid(p, e) == 0 <= p /\ p <= e

HalfStored == {"resetE", "storeE"}

UserSound(u) ==
  /\ updater[u] \in Using => \A v \in Updater \ {u} : updater[v] \notin Using
  /\ updater[u] = "resetE" => lastProgress = 0
  /\ updater[u] \in {"storeP", "storeE"}
       => Valid(status[u].progress, status[u].expected)
  /\ updater[u] = "storeE" => lastProgress = status[u].progress
  /\ updater[u] = "lastE" => status[u].progress = lastProgress
  /\ updater[u] = "send" => Valid(status[u].progress, status[u].expected)

LastSound ==
  ~overlapped => /\ \A u \in Updater : UserSound(u)
                 /\ \/ Valid(lastProgress, lastExpected)
                    \/ \E u \in Updater : updater[u] \in HalfStored

Inv ==
  /\ TypeOK
  /\ AskedSound
  /\ PrimarySound
  /\ RunningHasStream
  /\ LastSound

-----------------------------------------------------------------------------
LEMMA InitInv == Init => Inv
<1> SUFFICES ASSUME Init PROVE Inv
  OBVIOUS
<1>1. TypeOK
  <2>1. 0 \in 0..MaxTries
    BY AppAssumption
  <2>2. NoStatus \in [progress : Int, expected : Int, exited : BOOLEAN]
    BY DEF NoStatus
  <2>3. status \in [Updater -> [progress : Int, expected : Int,
                                exited : BOOLEAN]]
    BY <2>2 DEF Init
  <2>4. /\ stream \in [Stream -> {"off", "waiting", "asked", "primary",
                                 "secondary", "leaving"}]
        /\ id \in [Stream -> Id]
        /\ connectionId \in Id
    BY AppAssumption DEF Init
  <2>5. /\ tries \in [Updater -> 0..MaxTries]
        /\ ratio \in [Updater -> Int]
        /\ started \in [Updater -> BOOLEAN]
        /\ updater \in [Updater ->
                         {"idle", "resetE", "test", "claim"} \cup Streaming]
    BY <2>1 DEF Init
  <2>6. lock \in Stream \cup {Free}
    BY DEF Init
  <2>7. lastProgress \in Int /\ lastExpected \in Int
    BY DEF Init
  <2>8. /\ shared \in BOOLEAN /\ statusStreamRunning \in BOOLEAN
        /\ overlapped \in BOOLEAN
    BY DEF Init
  <2> QED
    BY <2>3, <2>4, <2>5, <2>6, <2>7, <2>8 DEF TypeOK
<1>2. AskedSound /\ PrimarySound
  BY DEF Init, AskedSound, PrimarySound, Primary
<1>3. RunningHasStream
  BY DEF Init, RunningHasStream
<1>4. LastSound
  BY DEF Init, LastSound, UserSound, Valid, Using
<1> QED
  BY <1>1, <1>2, <1>3, <1>4 DEF Inv

-----------------------------------------------------------------------------
(* Steps of EventStream.                                                   *)

LEMMA StreamType ==
  ASSUME TypeOK, NEW s \in Stream, EventStream(s)
  PROVE  TypeOK'
<1>1. ASSUME NEW i \in Brings[s], Call(s, i) PROVE TypeOK'
  BY <1>1, AppAssumption DEF Call, Go, UpdateUnchanged, TypeOK, lastVars, local
<1>2. CASE Refuse(s)
  BY <1>2 DEF Refuse, Go, UpdateUnchanged, TypeOK, lastVars, local
<1>3. CASE AskSwitchboard(s)
  BY <1>3 DEF AskSwitchboard, Go, UpdateUnchanged, TypeOK, lastVars, local
<1>4. CASE BecomePrimary(s)
  BY <1>4 DEF BecomePrimary, Go, UpdateUnchanged, TypeOK, lastVars, local
<1>5. CASE PairedByOther(s)
  BY <1>5 DEF PairedByOther, Go, UpdateUnchanged, TypeOK, lastVars, local
<1>6. CASE Leave(s)
  BY <1>6, AppAssumption
     DEF Leave, Go, UpdateUnchanged, TypeOK, lastVars, local
<1>7. CASE OnDisconnect(s)
  BY <1>7, AppAssumption
     DEF OnDisconnect, Go, UpdateUnchanged, TypeOK, lastVars, local
<1> QED
  BY <1>1, <1>2, <1>3, <1>4, <1>5, <1>6, <1>7 DEF EventStream

LEMMA StreamAsked ==
  ASSUME TypeOK, AskedSound, NEW s \in Stream, EventStream(s)
  PROVE  AskedSound'
<1>1. ASSUME NEW i \in Brings[s], Call(s, i) PROVE AskedSound'
  BY <1>1 DEF Call, Go, TypeOK, AskedSound, OtherIdSet
<1>2. CASE Refuse(s)
  BY <1>2 DEF Refuse, Go, TypeOK, AskedSound, OtherIdSet
<1>3. CASE AskSwitchboard(s)
  BY <1>3, AppAssumption DEF AskSwitchboard, Go, TypeOK, AskedSound, OtherIdSet
<1>4. CASE BecomePrimary(s)
  BY <1>4 DEF BecomePrimary, Go, TypeOK, AskedSound, OtherIdSet
<1>5. CASE PairedByOther(s)
  BY <1>5 DEF PairedByOther, Go, TypeOK, AskedSound, OtherIdSet
<1>6. CASE Leave(s)
  BY <1>6 DEF Leave, Go, TypeOK, AskedSound, OtherIdSet
<1>7. CASE OnDisconnect(s)
  BY <1>7 DEF OnDisconnect, Go, TypeOK, AskedSound, OtherIdSet
<1> QED
  BY <1>1, <1>2, <1>3, <1>4, <1>5, <1>6, <1>7 DEF EventStream

LEMMA StreamPrimary ==
  ASSUME TypeOK, AskedSound, PrimarySound, NEW s \in Stream, EventStream(s)
  PROVE  PrimarySound'
<1>1. ASSUME NEW i \in Brings[s], Call(s, i) PROVE PrimarySound'
  BY <1>1 DEF Call, Go, TypeOK, PrimarySound, Primary
<1>2. CASE Refuse(s)
  BY <1>2 DEF Refuse, Go, TypeOK, PrimarySound, Primary
<1>3. CASE AskSwitchboard(s)
  BY <1>3 DEF AskSwitchboard, Go, TypeOK, PrimarySound, Primary
<1>4. CASE BecomePrimary(s)
  <2> SUFFICES ASSUME ~shared' PROVE PrimarySound'
    BY DEF PrimarySound
  <2>1. /\ ~shared /\ id[s] # NoId
        /\ \A t \in Primary : id[t] # id[s]
    BY <1>4 DEF BecomePrimary
  <2>2. \A t \in Primary : connectionId = id[t] /\ id[t] # NoId
    BY <2>1 DEF PrimarySound
  <2>3. connectionId = NoId \/ connectionId = id[s]
    BY <1>4 DEF BecomePrimary, AskedSound, OtherIdSet
  <2>4. Primary = {}
    BY <2>1, <2>2, <2>3
  <2>5. Primary' = {s}
    BY <1>4, <2>4 DEF BecomePrimary, Go, TypeOK, Primary
  <2> QED
    BY <1>4, <2>1, <2>5 DEF BecomePrimary, PrimarySound
<1>5. CASE PairedByOther(s)
  BY <1>5 DEF PairedByOther, Go, TypeOK, PrimarySound, Primary
<1>6. CASE Leave(s)
  BY <1>6 DEF Leave, Go, TypeOK, PrimarySound, Primary
<1>7. CASE OnDisconnect(s)
  <2> SUFFICES ASSUME ~shared' PROVE Primary' = {}
    BY DEF PrimarySound
  <2>1. s \in Primary
    BY <1>7 DEF OnDisconnect, Primary
  <2>2. Primary' = Primary \ {s}
    BY <1>7 DEF OnDisconnect, Go, TypeOK, Primary
  <2>3. CASE shared
    BY <1>7, <2>2, <2>3 DEF OnDisconnect
  <2>4. CASE ~shared
    BY <2>1, <2>2, <2>4 DEF PrimarySound
  <2> QED
    BY <2>3, <2>4
<1> QED
  BY <1>1, <1>2, <1>3, <1>4, <1>5, <1>6, <1>7 DEF EventStream

(* An EventStream leaves the update as it is.                              *)
LEMMA StreamLeaves ==
  ASSUME NEW s \in Stream, EventStream(s)
  PROVE  UpdateUnchanged
BY DEF EventStream, Call, Refuse, AskSwitchboard, BecomePrimary, PairedByOther,
       Leave, OnDisconnect

LEMMA UpdateUnchangedKeeps ==
  ASSUME UpdateUnchanged, RunningHasStream, LastSound
  PROVE  RunningHasStream' /\ LastSound'
BY DEF UpdateUnchanged, RunningHasStream, LastSound, UserSound, Valid,
       lastVars, local

-----------------------------------------------------------------------------
(* Steps of StartUpdateEngine and UpdateStatusStream.                      *)

Update(u) == ResetProgress(u) \/ UpdateStatusStream(u)

LEMMA UpdateLeaves ==
  ASSUME NEW u \in Updater, Update(u)
  PROVE  UNCHANGED connVars
BY DEF Update, ResetProgress, UpdateStatusStream, ResetExpected, TestRunning,
       Claim, Await, ReadStatus, AppGone, LoadProgress, LoadExpected,
       StoreProgress, StoreExpected, LastProgress, LastExpected, Send, End

LEMMA ConnUnchangedKeeps ==
  ASSUME UNCHANGED connVars, AskedSound, PrimarySound
  PROVE  AskedSound' /\ PrimarySound'
BY DEF connVars, AskedSound, OtherIdSet, PrimarySound, Primary

Where == {"idle", "resetE", "test", "claim"} \cup Streaming

LEMMA StepMoves ==
  ASSUME TypeOK, NEW u \in Updater, NEW from, NEW to \in Where, Step(u, from, to)
  PROVE  /\ updater[u] = from
         /\ updater'[u] = to
         /\ \A v \in Updater \ {u} : updater'[v] = updater[v]
         /\ updater' \in [Updater -> Where]
BY DEF TypeOK, Step, Where

LEMMA UpdateType ==
  ASSUME TypeOK, NEW u \in Updater, Update(u)
  PROVE  TypeOK'
<1>c. ASSUME UNCHANGED connVars
      PROVE  /\ connectionId' \in Id
             /\ lock' \in Stream \cup {Free}
             /\ stream' \in [Stream -> {"off", "waiting", "asked", "primary",
                                        "secondary", "leaving"}]
             /\ id' \in [Stream -> Id]
             /\ shared' \in BOOLEAN
  BY <1>c DEF TypeOK, connVars
<1>d. UNCHANGED connVars
  BY UpdateLeaves
<1>1. CASE ResetProgress(u)
  <2>1. overlapped' \in BOOLEAN
    BY <1>1 DEF ResetProgress, Overlap
  <2>2. updater' \in [Updater -> Where]
    BY <1>1, StepMoves DEF ResetProgress, Where
  <2> QED
    BY <1>1, <1>c, <1>d, <2>1, <2>2 DEF ResetProgress, TypeOK, local, Where
<1>2. CASE ResetExpected(u)
  BY <1>2, <1>c, <1>d DEF ResetExpected, Step, TypeOK, local, Streaming
<1>3. CASE TestRunning(u)
  <2>1. (IF statusStreamRunning THEN "idle" ELSE "claim") \in {"idle", "claim"}
    OBVIOUS
  <2> QED
    BY <1>3, <1>c, <1>d, <2>1
       DEF TestRunning, Step, TypeOK, lastVars, local, Streaming
<1>4. CASE Claim(u)
  BY <1>4, <1>c, <1>d DEF Claim, Step, TypeOK, lastVars, local, Streaming
<1>5. CASE Await(u)
  <2>1. updater' \in [Updater -> Where]
    BY <1>5, StepMoves DEF Await, Where, Streaming
  <2>2. tries' \in [Updater -> 0..MaxTries]
    BY <1>5, AppAssumption DEF Await, TypeOK
  <2> QED
    BY <1>5, <1>c, <1>d, <2>1, <2>2 DEF Await, TypeOK, lastVars, Where
<1>6. ASSUME NEW st \in Status, ReadStatus(u, st) PROVE TypeOK'
  BY <1>6, <1>c, <1>d, AppAssumption
     DEF ReadStatus, Step, TypeOK, lastVars, Streaming
<1>7. CASE AppGone(u)
  BY <1>7, <1>c, <1>d DEF AppGone, Step, TypeOK, lastVars, local, Streaming
<1>8. CASE LoadProgress(u)
  BY <1>8, <1>c, <1>d
     DEF LoadProgress, Step, Overlap, TypeOK, Streaming
<1>9. CASE LoadExpected(u)
  <2>1. (IF Better(u) THEN "storeP" ELSE "lastP") \in {"storeP", "lastP"}
    OBVIOUS
  <2> QED
    BY <1>9, <1>c, <1>d, <2>1
       DEF LoadExpected, Step, TypeOK, lastVars, Streaming
<1>10. CASE StoreProgress(u)
  BY <1>10, <1>c, <1>d DEF StoreProgress, Step, TypeOK, local, Streaming
<1>11. CASE StoreExpected(u)
  BY <1>11, <1>c, <1>d DEF StoreExpected, Step, TypeOK, local, Streaming
<1>12. CASE LastProgress(u)
  BY <1>12, <1>c, <1>d DEF LastProgress, Step, TypeOK, lastVars, Streaming
<1>13. CASE LastExpected(u)
  BY <1>13, <1>c, <1>d DEF LastExpected, Step, TypeOK, lastVars, Streaming
<1>14. CASE Send(u)
  <2>1. (IF status[u].exited /\ started[u] THEN "ending" ELSE "loop")
          \in {"ending", "loop"}
    OBVIOUS
  <2> QED
    BY <1>14, <1>c, <1>d, <2>1
       DEF Send, Step, TypeOK, lastVars, Streaming, NoStatus
<1>15. CASE End(u)
  BY <1>15, <1>c, <1>d DEF End, Step, TypeOK, lastVars, Streaming
<1> QED
  BY <1>1, <1>2, <1>3, <1>4, <1>5, <1>6, <1>7, <1>8, <1>9, <1>10, <1>11, <1>12,
     <1>13, <1>14, <1>15 DEF Update, UpdateStatusStream

(* Whoever leaves the streaming goroutines clears statusStreamRunning.     *)
LEMMA RunningKept ==
  ASSUME TypeOK, RunningHasStream, statusStreamRunning' = statusStreamRunning,
         NEW u \in Updater, NEW from, NEW to \in Where, Step(u, from, to),
         from \in Streaming => to \in Streaming
  PROVE  RunningHasStream'
BY StepMoves DEF RunningHasStream

LEMMA UpdateRunning ==
  ASSUME TypeOK, RunningHasStream, NEW u \in Updater, Update(u)
  PROVE  RunningHasStream'
<1>1. CASE ResetProgress(u)
  BY <1>1, RunningKept DEF ResetProgress, Where, Streaming
<1>2. CASE ResetExpected(u)
  BY <1>2, RunningKept DEF ResetExpected, Where, Streaming
<1>3. CASE TestRunning(u)
  <2>1. (IF statusStreamRunning THEN "idle" ELSE "claim") \in Where
    BY DEF Where
  <2>2. "test" \notin Streaming
    BY DEF Streaming
  <2> QED
    BY <1>3, <2>1, <2>2, RunningKept DEF TestRunning
<1>4. CASE Claim(u)
  <2>1. updater'[u] = "await"
    BY <1>4, StepMoves DEF Claim, Where, Streaming
  <2> QED
    BY <2>1 DEF RunningHasStream, Streaming
<1>5. CASE Await(u)
  BY <1>5, RunningKept DEF Await, Where, Streaming
<1>6. ASSUME NEW st \in Status, ReadStatus(u, st) PROVE RunningHasStream'
  BY <1>6, RunningKept DEF ReadStatus, Where, Streaming
<1>7. CASE AppGone(u)
  BY <1>7, RunningKept DEF AppGone, Where, Streaming
<1>8. CASE LoadProgress(u)
  BY <1>8, RunningKept DEF LoadProgress, Where, Streaming
<1>9. CASE LoadExpected(u)
  <2>1. (IF Better(u) THEN "storeP" ELSE "lastP") \in Streaming
    BY DEF Streaming
  <2> QED
    BY <1>9, <2>1, RunningKept DEF LoadExpected, Where
<1>10. CASE StoreProgress(u)
  BY <1>10, RunningKept DEF StoreProgress, Where, Streaming
<1>11. CASE StoreExpected(u)
  BY <1>11, RunningKept DEF StoreExpected, Where, Streaming
<1>12. CASE LastProgress(u)
  BY <1>12, RunningKept DEF LastProgress, Where, Streaming
<1>13. CASE LastExpected(u)
  BY <1>13, RunningKept DEF LastExpected, Where, Streaming
<1>14. CASE Send(u)
  <2>1. (IF status[u].exited /\ started[u] THEN "ending" ELSE "loop")
          \in Streaming
    BY DEF Streaming
  <2> QED
    BY <1>14, <2>1, RunningKept DEF Send, Where
<1>15. CASE End(u)
  BY <1>15 DEF End, RunningHasStream
<1> QED
  BY <1>1, <1>2, <1>3, <1>4, <1>5, <1>6, <1>7, <1>8, <1>9, <1>10, <1>11, <1>12,
     <1>13, <1>14, <1>15 DEF Update, UpdateStatusStream

-----------------------------------------------------------------------------
(* The last values.                                                        *)

(* What a step of u means to the others: whoever changes lastProgress uses *)
(* the pair alone, and so does whoever begins to use it.                   *)
LEMMA OthersSound ==
  ASSUME TypeOK, NEW u \in Updater, NEW from, NEW to \in Where,
         Step(u, from, to), \A v \in Updater : UserSound(v),
         \A v \in Updater \ {u} : status'[v] = status[v],
         to \in Using => \/ from \in Using
                        \/ \A v \in Updater \ {u} : updater[v] \notin Using,
         lastProgress' = lastProgress \/ to \in Using
  PROVE  /\ \A v \in Updater \ {u} : UserSound(v)'
         /\ to \in Using => \A v \in Updater \ {u} : updater'[v] \notin Using
<1>1. /\ updater[u] = from /\ updater'[u] = to
      /\ \A v \in Updater \ {u} : updater'[v] = updater[v]
  BY StepMoves
<1>2. ASSUME to \in Using, NEW v \in Updater \ {u} PROVE updater'[v] \notin Using
  BY <1>1, <1>2 DEF UserSound
<1>3. ASSUME NEW v \in Updater \ {u} PROVE UserSound(v)'
  <2>1. updater'[v] = updater[v] /\ status'[v] = status[v] /\ UserSound(v)
    BY <1>1, <1>3
  <2>2. CASE to \in Using
    <3>1. updater'[v] \notin Using
      BY <1>2, <2>2
    <3> QED
      BY <2>1, <3>1 DEF UserSound, Using, Valid
  <2>3. CASE to \notin Using
    <3>1. lastProgress' = lastProgress
      BY <2>3
    <3>2. ASSUME updater[v] \in Using, NEW w \in Updater \ {v}
          PROVE  updater'[w] \notin Using
      BY <1>1, <2>1, <2>3, <3>2 DEF UserSound
    <3> QED
      BY <2>1, <3>1, <3>2 DEF UserSound, Valid
  <2> QED
    BY <2>2, <2>3
<1> QED
  BY <1>2, <1>3

(* What is left to show of a step that overlaps with nobody.               *)
LEMMA LastKept ==
  ASSUME TypeOK, NEW u \in Updater, NEW from, NEW to \in Where,
         Step(u, from, to),
         ~overlapped' => \A v \in Updater : UserSound(v),
         \A v \in Updater \ {u} : status'[v] = status[v],
         ~overlapped' /\ to \in Using =>
            \/ from \in Using
            \/ \A v \in Updater \ {u} : updater[v] \notin Using,
         lastProgress' = lastProgress \/ to \in Using,
         ~overlapped' /\ to = "resetE" => lastProgress' = 0,
         ~overlapped' /\ to \in {"storeP", "storeE", "send"}
            => Valid(status'[u].progress, status'[u].expected),
         ~overlapped' /\ to \in {"storeE", "lastE"}
            => lastProgress' = status'[u].progress,
         ~overlapped' => \/ Valid(lastProgress', lastExpected')
                         \/ to \in HalfStored
                         \/ \E v \in Updater \ {u} : updater[v] \in HalfStored
  PROVE  LastSound'
<1> SUFFICES ASSUME ~overlapped'
             PROVE  /\ \A v \in Updater : UserSound(v)'
                    /\ \/ Valid(lastProgress', lastExpected')
                       \/ \E v \in Updater : updater'[v] \in HalfStored
  BY DEF LastSound, Valid
<1>1. /\ updater[u] = from /\ updater'[u] = to
      /\ \A v \in Updater \ {u} : updater'[v] = updater[v]
  BY StepMoves
<1>2. /\ \A v \in Updater \ {u} : UserSound(v)'
      /\ to \in Using => \A v \in Updater \ {u} : updater'[v] \notin Using
  BY OthersSound
<1>3. UserSound(u)'
  BY <1>1, <1>2 DEF UserSound, Valid
<1>4. \/ Valid(lastProgress', lastExpected')
      \/ \E v \in Updater : updater'[v] \in HalfStored
  BY <1>1
<1> QED
  BY <1>2, <1>3, <1>4

(* Steps that leave the last values and are not half way through storing.  *)
LEMMA LastLeft ==
  ASSUME LastSound, ~overlapped, NEW u \in Updater,
         updater[u] \notin HalfStored
  PROVE  \/ Valid(lastProgress, lastExpected)
         \/ \E v \in Updater \ {u} : updater[v] \in HalfStored
BY DEF LastSound

LEMMA QuietKeeps ==
  ASSUME TypeOK, LastSound, NEW u \in Updater, NEW from, NEW to \in Where,
         Step(u, from, to), from \notin HalfStored, to \notin Using,
         to # "send", UNCHANGED lastVars,
         \A v \in Updater \ {u} : status'[v] = status[v]
  PROVE  LastSound'
<1>1. UNCHANGED <<lastProgress, lastExpected, overlapped>>
  BY DEF lastVars
<1>2. updater[u] = from
  BY DEF Step
<1>3. ~overlapped' => \A v \in Updater : UserSound(v)
  BY <1>1 DEF LastSound
<1>4. ~overlapped' => \/ Valid(lastProgress', lastExpected')
                      \/ \E v \in Updater \ {u} : updater[v] \in HalfStored
  BY <1>1, <1>2, LastLeft
<1>5. to \notin {"resetE", "storeP", "storeE", "lastE", "send"}
  BY DEF Using
<1> QED
  BY <1>1, <1>3, <1>4, <1>5, LastKept

LEMMA UpdateLast ==
  ASSUME TypeOK, LastSound, NEW u \in Updater, Update(u)
  PROVE  LastSound'
<1>1. CASE ResetProgress(u)
  <2>1. /\ Step(u, "idle", "resetE") /\ lastProgress' = 0
        /\ UNCHANGED status
    BY <1>1 DEF ResetProgress, local
  <2>2. \/ \A v \in Updater : updater[v] = "idle"
        \/ Overlap(u)
    BY <1>1 DEF ResetProgress
  <2>3. ~overlapped' => \A v \in Updater : UserSound(v)
    BY <2>2 DEF Overlap, LastSound, UserSound, Using
  <2>4. ~overlapped' => \A v \in Updater \ {u} : updater[v] \notin Using
    BY <2>2 DEF Overlap, Using
  <2>5. "resetE" \in Using /\ "resetE" \in HalfStored /\ "resetE" \in Where
    BY DEF Using, HalfStored, Where
  <2> QED
    BY <2>1, <2>3, <2>4, <2>5, LastKept
<1>2. CASE ResetExpected(u)
  <2>1. /\ Step(u, "resetE", "test") /\ lastExpected' = 1
        /\ UNCHANGED <<lastProgress, overlapped, status>>
    BY <1>2 DEF ResetExpected, local
  <2>2. ~overlapped' => \A v \in Updater : UserSound(v)
    BY <2>1 DEF LastSound
  <2>3. ~overlapped' => Valid(lastProgress', lastExpected')
    BY <2>1, <2>2 DEF UserSound, Valid, Step
  <2>4. "test" \notin Using /\ "test" \in Where
    BY DEF Using, Where
  <2> QED
    BY <2>1, <2>2, <2>3, <2>4, LastKept
<1>3. CASE TestRunning(u)
  <2>1. (IF statusStreamRunning THEN "idle" ELSE "claim") \in {"idle", "claim"}
    OBVIOUS
  <2>2. PICK to \in {"idle", "claim"} : Step(u, "test", to)
    BY <1>3, <2>1 DEF TestRunning
  <2> QED
    BY <1>3, <2>2, QuietKeeps DEF TestRunning, local, Where, HalfStored, Using
<1>4. CASE Claim(u)
  BY <1>4, QuietKeeps DEF Claim, local, Where, Streaming, HalfStored, Using
<1>5. CASE Await(u)
  <2>1. PICK to \in {"await", "loop"} : Step(u, "await", to)
    BY <1>5 DEF Await
  <2> QED
    BY <1>5, <2>1, QuietKeeps DEF Await, Where, Streaming, HalfStored, Using
<1>6. ASSUME NEW st \in Status, ReadStatus(u, st) PROVE LastSound'
  <2>1. \A v \in Updater \ {u} : status'[v] = status[v]
    BY <1>6 DEF ReadStatus, TypeOK
  <2> QED
    BY <1>6, <2>1, QuietKeeps
       DEF ReadStatus, Where, Streaming, HalfStored, Using
<1>7. CASE AppGone(u)
  BY <1>7, QuietKeeps DEF AppGone, local, Where, Streaming, HalfStored, Using
<1>8. CASE LoadProgress(u)
  <2>1. /\ Step(u, "loadP", "loadE") /\ Overlap(u)
        /\ UNCHANGED <<lastProgress, lastExpected, status>>
    BY <1>8 DEF LoadProgress
  <2>2. ~overlapped' => /\ ~overlapped
                        /\ \A v \in Updater \ {u} : updater[v] \notin Using
    BY <2>1 DEF Overlap
  <2>3. ~overlapped' => \A v \in Updater : UserSound(v)
    BY <2>2 DEF LastSound
  <2>4. updater[u] = "loadP" /\ "loadP" \notin HalfStored /\ "loadE" \in Where
    BY <2>1 DEF Step, HalfStored, Where, Streaming
  <2>5. ~overlapped' => \/ Valid(lastProgress', lastExpected')
                        \/ \E v \in Updater \ {u} : updater[v] \in HalfStored
    BY <2>1, <2>2, <2>4, LastLeft
  <2> QED
    BY <2>1, <2>2, <2>3, <2>4, <2>5, LastKept
<1>9. CASE LoadExpected(u)
  <2>1. /\ Step(u, "loadE", IF Better(u) THEN "storeP" ELSE "lastP")
        /\ UNCHANGED <<lastProgress, lastExpected, overlapped, status>>
    BY <1>9 DEF LoadExpected, lastVars
  <2>2. ~overlapped' => \A v \in Updater : UserSound(v)
    BY <2>1 DEF LastSound
  <2>3. /\ updater[u] = "loadE" /\ "loadE" \notin HalfStored
        /\ "loadE" \in Using
    BY <2>1 DEF Step, HalfStored, Using
  <2>4. ~overlapped' => \/ Valid(lastProgress', lastExpected')
                        \/ \E v \in Updater \ {u} : updater[v] \in HalfStored
    BY <2>1, <2>3, LastLeft
  <2>5. CASE Better(u)
    <3>1. Step(u, "loadE", "storeP") /\ "storeP" \in Where
      BY <2>1, <2>5 DEF Where, Streaming
    <3>2. Valid(status'[u].progress, status'[u].expected)
      BY <2>1, <2>5 DEF Better, Valid, TypeOK
    <3> QED
      BY <2>1, <2>2, <2>3, <2>4, <3>1, <3>2, LastKept
  <2>6. CASE ~Better(u)
    <3>1. Step(u, "loadE", "lastP") /\ "lastP" \in Where
      BY <2>1, <2>6 DEF Where, Streaming
    <3> QED
      BY <2>1, <2>2, <2>3, <2>4, <3>1, LastKept
  <2> QED
    BY <2>5, <2>6
<1>10. CASE StoreProgress(u)
  <2>1. /\ Step(u, "storeP", "storeE") /\ lastProgress' = status[u].progress
        /\ UNCHANGED <<lastExpected, overlapped, status>>
    BY <1>10 DEF StoreProgress, local
  <2>2. ~overlapped' => \A v \in Updater : UserSound(v)
    BY <2>1 DEF LastSound
  <2>3. /\ updater[u] = "storeP" /\ "storeP" \in Using /\ "storeE" \in Using
        /\ "storeE" \in HalfStored /\ "storeE" \in Where
    BY <2>1 DEF Step, Using, HalfStored, Where, Streaming
  <2>4. ~overlapped' => Valid(status'[u].progress, status'[u].expected)
    BY <2>1, <2>2, <2>3 DEF UserSound
  <2> QED
    BY <2>1, <2>2, <2>3, <2>4, LastKept
<1>11. CASE StoreExpected(u)
  <2>1. /\ Step(u, "storeE", "send") /\ lastExpected' = status[u].expected
        /\ UNCHANGED <<lastProgress, overlapped, status>>
    BY <1>11 DEF StoreExpected, local
  <2>2. ~overlapped' => \A v \in Updater : UserSound(v)
    BY <2>1 DEF LastSound
  <2>3. updater[u] = "storeE" /\ "send" \notin Using /\ "send" \in Where
    BY <2>1 DEF Step, Using, Where, Streaming
  <2>4. ~overlapped' => /\ Valid(status'[u].progress, status'[u].expected)
                        /\ Valid(lastProgress', lastExpected')
    BY <2>1, <2>2, <2>3 DEF UserSound
  <2> QED
    BY <2>1, <2>2, <2>3, <2>4, LastKept
<1>12. CASE LastProgress(u)
  <2>1. /\ Step(u, "lastP", "lastE")
        /\ status' = [status EXCEPT ![u].progress = lastProgress]
        /\ UNCHANGED <<lastProgress, lastExpected, overlapped>>
    BY <1>12 DEF LastProgress, lastVars
  <2>2. ~overlapped' => \A v \in Updater : UserSound(v)
    BY <2>1 DEF LastSound
  <2>3. /\ updater[u] = "lastP" /\ "lastP" \notin HalfStored
        /\ "lastP" \in Using /\ "lastE" \in Where
    BY <2>1 DEF Step, HalfStored, Using, Where, Streaming
  <2>4. /\ status'[u].progress = lastProgress'
        /\ \A v \in Updater \ {u} : status'[v] = status[v]
    BY <2>1 DEF TypeOK
  <2>5. ~overlapped' => \/ Valid(lastProgress', lastExpected')
                        \/ \E v \in Updater \ {u} : updater[v] \in HalfStored
    BY <2>1, <2>3, LastLeft
  <2> QED
    BY <2>1, <2>2, <2>3, <2>4, <2>5, LastKept
<1>13. CASE LastExpected(u)
  <2>1. /\ Step(u, "lastE", "send")
        /\ status' = [status EXCEPT ![u].expected = lastExpected]
        /\ UNCHANGED <<lastProgress, lastExpected, overlapped>>
    BY <1>13 DEF LastExpected, lastVars
  <2>2. ~overlapped' => \A v \in Updater : UserSound(v)
    BY <2>1 DEF LastSound
  <2>3. /\ updater[u] = "lastE" /\ "lastE" \notin HalfStored
        /\ "lastE" \in Using /\ HalfStored \subseteq Using
        /\ "send" \notin Using /\ "send" \in Where
    BY <2>1 DEF Step, HalfStored, Using, Where, Streaming
  <2>4. /\ status'[u].expected = lastExpected
        /\ status'[u].progress = status[u].progress
        /\ \A v \in Updater \ {u} : status'[v] = status[v]
    BY <2>1 DEF TypeOK
  <2>5. ~overlapped' => Valid(lastProgress, lastExpected)
    BY <2>1, <2>2, <2>3 DEF LastSound, UserSound
  <2>6. ~overlapped' => Valid(status'[u].progress, status'[u].expected)
    BY <2>2, <2>3, <2>4, <2>5 DEF UserSound
  <2> QED
    BY <2>1, <2>2, <2>3, <2>4, <2>5, <2>6, LastKept
<1>14. CASE Send(u)
  <2>1. PICK to \in {"ending", "loop"} : Step(u, "send", to)
    BY <1>14 DEF Send
  <2>2. \A v \in Updater \ {u} : status'[v] = status[v]
    BY <1>14 DEF Send, TypeOK
  <2> QED
    BY <1>14, <2>1, <2>2, QuietKeeps
       DEF Send, Where, Streaming, HalfStored, Using
<1>15. CASE End(u)
  BY <1>15, QuietKeeps DEF End, Where, Streaming, HalfStored, Using
<1> QED
  BY <1>1, <1>2, <1>3, <1>4, <1>5, <1>6, <1>7, <1>8, <1>9, <1>10, <1>11, <1>12,
     <1>13, <1>14, <1>15 DEF Update, UpdateStatusStream

-----------------------------------------------------------------------------
LEMMA InvStep == Inv /\ [Next]_vars => Inv'
<1> SUFFICES ASSUME Inv, [Next]_vars PROVE Inv'
  OBVIOUS
<1>1. ASSUME NEW s \in Stream, EventStream(s) PROVE Inv'
  BY <1>1, StreamType, StreamAsked, StreamPrimary, StreamLeaves,
     UpdateUnchangedKeeps DEF Inv
<1>2. ASSUME NEW u \in Updater, Update(u) PROVE Inv'
  BY <1>2, UpdateType, UpdateLeaves, ConnUnchangedKeeps, UpdateRunning,
     UpdateLast DEF Inv
<1>3. CASE UNCHANGED vars
  <2>1. UNCHANGED connVars /\ UpdateUnchanged
    BY <1>3 DEF vars, UpdateUnchanged
  <2>2. TypeOK'
    BY <2>1 DEF Inv, TypeOK, connVars, UpdateUnchanged, lastVars, local
  <2> QED
    BY <2>1, <2>2, ConnUnchangedKeeps, UpdateUnchangedKeeps DEF Inv
<1> QED
  BY <1>1, <1>2, <1>3 DEF Next, Update

(* The invariant holds in every reachable state.                           *)
THEOREM Invariance == Spec => []Inv
BY InitInv, InvStep, PTL DEF Spec

(* Every reachable state is well typed.                                    *)
THEOREM TypeCorrect == Spec => []TypeOK
<1>1. Inv => TypeOK
  BY DEF Inv
<1> QED
  BY <1>1, Invariance, PTL

(* checkConnectionID and onDisconnect: the primary keeps its id.           *)
THEOREM PrimaryKept == Spec => []PrimaryKeepsId
<1>1. ASSUME Inv PROVE PrimaryKeepsId
  <2> SUFFICES ASSUME ~shared, Primary # {}
               PROVE  /\ \A s \in Primary : connectionId = id[s]
                      /\ Cardinality(Primary) <= 1
    BY FS_EmptySet DEF PrimaryKeepsId
  <2>1. \A s \in Primary : connectionId = id[s]
    BY <1>1 DEF Inv, PrimarySound
  <2>2. PICK s : Primary = {s}
    BY <1>1 DEF Inv, PrimarySound
  <2>3. Cardinality(Primary) = 1
    BY <2>2, FS_Singleton
  <2> QED
    BY <2>1, <2>3
<1> QED
  BY <1>1, Invariance, PTL

(* UpdateStatusStream: statusStreamRunning is set only while a goroutine   *)
(* that will clear it runs, however many of them there are.                *)
THEOREM NeverRefusedForGood == Spec => []RunningHasStream
<1>1. Inv => RunningHasStream
  BY DEF Inv
<1> QED
  BY <1>1, Invariance, PTL

(* UpdateStatusStream: no bogus percentage is sent as long as the last     *)
(* values are used by one goroutine at a time.                             *)
THEOREM ValidSent == Spec => []SentIsValid
<1>1. Inv => SentIsValid
  BY DEF Inv, LastSound, UserSound, Valid, SentIsValid
<1> QED
  BY <1>1, Invariance, PTL
=============================================================================
