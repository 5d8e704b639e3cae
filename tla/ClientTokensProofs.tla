------------------------- MODULE ClientTokensProofs -------------------------
(***************************************************************************)
(* Proofs about ClientTokens, for any finite set of checks, any forcers    *)
(* and any length of the list.                                             *)
(***************************************************************************)
EXTENDS ClientTokens, FiniteSetTheorems, TLAPS

(* The three parts are inductive together.                                 *)
Inv ==
  /\ TypeOK
  /\ EveryWaitIsOwed
  /\ ForcerWaitsForUpdater

LEMMA IndexInRange == 0 \in 0..MaxLen /\ 0 \in 0..(MaxLen - 1)
BY ClientTokensAssumption

-----------------------------------------------------------------------------
(* How many checks wait.                                                   *)

LEMMA WaitingFinite == IsFiniteSet(Waiting) /\ Cardinality(Waiting) \in Nat
<1>1. Waiting \in SUBSET Checker
  BY DEF Waiting
<1> QED
  BY <1>1, ClientTokensAssumption, FS_Subset, FS_CardinalityType

LEMMA NobodyNew ==
  ASSUME \A c \in Checker : checker'[c] = "wait" <=> checker[c] = "wait"
  PROVE  Waiting' = Waiting
BY DEF Waiting

LEMMA OneMore ==
  ASSUME NEW c \in Checker, TypeOK, Step(c, "check", "wait")
  PROVE  Cardinality(Waiting') = Cardinality(Waiting) + 1
<1>1. \A d \in Checker : checker'[d] = IF d = c THEN "wait" ELSE checker[d]
  BY DEF Step, TypeOK
<1>2. Waiting' = Waiting \cup {c} /\ c \notin Waiting
  BY <1>1 DEF Waiting, Step
<1> QED
  BY <1>2, WaitingFinite, FS_AddElement

LEMMA OneLess ==
  ASSUME NEW c \in Checker, TypeOK, Step(c, "wait", "notified")
  PROVE  Cardinality(Waiting') = Cardinality(Waiting) - 1
<1>1. \A d \in Checker : checker'[d] = IF d = c THEN "notified" ELSE checker[d]
  BY DEF Step, TypeOK
<1>2. Waiting' = Waiting \ {c} /\ c \in Waiting
  BY <1>1 DEF Waiting, Step
<1> QED
  BY <1>2, WaitingFinite, FS_RemoveElement

-----------------------------------------------------------------------------
(* What is owed, by who is busy.                                           *)

UpdaterOwes == updater # "select" /\ response = NotifyValid

LEMMA OwedIs ==
  /\ listener = "receive" /\ ~UpdaterOwes => Owed = 0
  /\ listener # "receive" /\ ~UpdaterOwes => Owed = 1
  /\ listener = "receive" /\ UpdaterOwes => Owed = 1
  /\ listener # "receive" /\ UpdaterOwes => Owed = 2
BY DEF Owed, UpdaterOwes

LEMMA OwedWillBe ==
  /\ listener' = "receive" /\ ~UpdaterOwes' => Owed' = 0
  /\ listener' # "receive" /\ ~UpdaterOwes' => Owed' = 1
  /\ listener' = "receive" /\ UpdaterOwes' => Owed' = 1
  /\ listener' # "receive" /\ UpdaterOwes' => Owed' = 2
BY DEF Owed, UpdaterOwes

(* A step that lets nobody wait or go on, and owes as before.              *)
LEMMA OwedKept ==
  ASSUME EveryWaitIsOwed,
         \A c \in Checker : checker'[c] = "wait" <=> checker[c] = "wait",
         listener' = "receive" <=> listener = "receive",
         UpdaterOwes' <=> UpdaterOwes
  PROVE  EveryWaitIsOwed'
<1>1. Waiting' = Waiting
  BY NobodyNew
<1>2. Owed' = Owed
  BY OwedIs, OwedWillBe
<1> QED
  BY <1>1, <1>2 DEF EveryWaitIsOwed

-----------------------------------------------------------------------------
LEMMA InitInv == Init => Inv
<1> SUFFICES ASSUME Init PROVE Inv
  OBVIOUS
<1>1. TypeOK
  BY IndexInRange DEF Init, TypeOK
<1>2. EveryWaitIsOwed
  <2>1. Waiting = {}
    BY DEF Init, Waiting
  <2>2. Owed = 0
    BY OwedIs DEF Init, UpdaterOwes
  <2> QED
    BY <2>1, <2>2, FS_EmptySet DEF EveryWaitIsOwed
<1>3. ForcerWaitsForUpdater
  BY DEF Init, ForcerWaitsForUpdater
<1> QED
  BY <1>1, <1>2, <1>3 DEF Inv

(* A step of CheckToken on its own list and index touches no channel.      *)
LEMMA OwnStepInv ==
  ASSUME NEW c \in Checker, Inv,
         NEW from \in {"idle", "notified", "recent", "range", "matched"},
         NEW to \in {"idle", "check", "recent", "range", "matched",
                     "panicked"},
         Step(c, from, to),
         index' \in 0..(MaxLen - 1),
         match' \in [Checker -> 0..(MaxLen - 1)],
         UNCHANGED <<length, old, forcer, listener, updates>>
  PROVE  Inv'
<1>1. TypeOK'
  BY DEF Inv, TypeOK, Step, updates
<1>2. \A d \in Checker : checker'[d] = IF d = c THEN to ELSE checker[d]
  BY DEF Inv, TypeOK, Step
<1>3. EveryWaitIsOwed'
  <2>1. \A d \in Checker : checker'[d] = "wait" <=> checker[d] = "wait"
    BY <1>2 DEF Step
  <2> QED
    BY <2>1, OwedKept DEF Inv, UpdaterOwes, updates
<1>4. ForcerWaitsForUpdater'
  BY DEF Inv, ForcerWaitsForUpdater, updates
<1> QED
  BY <1>1, <1>3, <1>4 DEF Inv

LEMMA CheckStepInv ==
  ASSUME NEW c \in Checker, Inv, CheckStep(c)
  PROVE  Inv'
<1>0. /\ index \in 0..(MaxLen - 1)
      /\ match \in [Checker -> 0..(MaxLen - 1)]
  BY DEF Inv, TypeOK
<1>1. CASE Call(c)
  BY <1>0, <1>1, OwnStepInv DEF Call, list
<1>2. CASE CheckEmpty(c)
  BY <1>0, <1>2, OwnStepInv DEF CheckEmpty, list
<1>3. CASE TryRecent(c)
  <2>1. PICK to \in {"idle", "range", "panicked"} : Step(c, "recent", to)
    BY <1>3 DEF TryRecent
  <2> QED
    BY <1>0, <1>3, <2>1, OwnStepInv DEF TryRecent, list
<1>4. CASE TryAll(c)
  <2>1. match' \in [Checker -> 0..(MaxLen - 1)]
    BY <1>0, <1>4 DEF TryAll
  <2>2. PICK to \in {"idle", "matched"} : Step(c, "range", to)
    BY <1>4 DEF TryAll
  <2> QED
    BY <1>0, <1>4, <2>1, <2>2, OwnStepInv DEF TryAll, list
<1>5. CASE Remember(c)
  BY <1>0, <1>5, OwnStepInv DEF Remember
<1>6. CASE TakeCheck(c)
  <2>1. TypeOK'
    BY <1>6 DEF Inv, TypeOK, TakeCheck, Step, list, updates
  <2>2. EveryWaitIsOwed'
    <3>1. listener = "receive" /\ listener' # "receive"
      BY <1>6 DEF TakeCheck
    <3>2. UpdaterOwes' <=> UpdaterOwes
      BY <1>6 DEF TakeCheck, UpdaterOwes, updates
    <3>3. Owed' = Owed + 1
      BY <3>1, <3>2, OwedIs, OwedWillBe
    <3>4. Cardinality(Waiting') = Cardinality(Waiting) + 1
      BY <1>6, OneMore DEF Inv, TakeCheck
    <3> QED
      BY <3>3, <3>4 DEF Inv, EveryWaitIsOwed
  <2>3. ForcerWaitsForUpdater'
    BY <1>6 DEF Inv, ForcerWaitsForUpdater, TakeCheck, updates
  <2> QED
    BY <2>1, <2>2, <2>3 DEF Inv
<1>7. CASE Notify(c)
  <2>1. TypeOK'
    BY <1>7 DEF Inv, TypeOK, Notify, Step, list, updates
  <2>2. EveryWaitIsOwed'
    <3>1. listener # "receive" /\ listener' = "receive"
      BY <1>7 DEF Notify
    <3>2. UpdaterOwes' <=> UpdaterOwes
      BY <1>7 DEF Notify, UpdaterOwes, updates
    <3>3. Owed' = Owed - 1
      BY <3>1, <3>2, OwedIs, OwedWillBe
    <3>4. Cardinality(Waiting') = Cardinality(Waiting) - 1
      BY <1>7, OneLess DEF Inv, Notify
    <3> QED
      BY <3>3, <3>4 DEF Inv, EveryWaitIsOwed
  <2>3. ForcerWaitsForUpdater'
    BY <1>7 DEF Inv, ForcerWaitsForUpdater, Notify, updates
  <2> QED
    BY <2>1, <2>2, <2>3 DEF Inv
<1>8. CASE RespondToCheck(c)
  <2>1. TypeOK'
    BY <1>8 DEF Inv, TypeOK, RespondToCheck, Step, list
  <2>2. EveryWaitIsOwed'
    <3>1. listener' = "receive" <=> listener = "receive"
      BY <1>8 DEF RespondToCheck
    <3>2. UpdaterOwes /\ ~UpdaterOwes'
      BY <1>8 DEF RespondToCheck, UpdaterOwes
    <3>3. Owed' = Owed - 1
      BY <3>1, <3>2, OwedIs, OwedWillBe
    <3>4. Cardinality(Waiting') = Cardinality(Waiting) - 1
      BY <1>8, OneLess DEF Inv, RespondToCheck
    <3> QED
      BY <3>3, <3>4 DEF Inv, EveryWaitIsOwed
  <2>3. ForcerWaitsForUpdater'
    BY <1>8, ForcerAssumption
       DEF Inv, ForcerWaitsForUpdater, RespondToCheck
  <2> QED
    BY <2>1, <2>2, <2>3 DEF Inv
<1> QED
  BY <1>1, <1>2, <1>3, <1>4, <1>5, <1>6, <1>7, <1>8 DEF CheckStep

LEMMA ForceStepInv ==
  ASSUME NEW f \in Forcer, Inv, ForceStep(f)
  PROVE  Inv'
<1>1. TypeOK'
  BY IndexInRange
     DEF Inv, TypeOK, ForceStep, ResetIndex, EmptyList, SendForce, RespondToForcer,
         list, checks, updates
<1>2. EveryWaitIsOwed'
  <2>1. checker' = checker /\ listener' = listener
    BY DEF ForceStep, ResetIndex, EmptyList, SendForce, RespondToForcer, list, checks
  <2>2. UpdaterOwes' <=> UpdaterOwes
    BY ForcerAssumption
       DEF ForceStep, ResetIndex, EmptyList, SendForce, RespondToForcer, updates,
           UpdaterOwes
  <2> QED
    BY <2>1, <2>2, OwedKept DEF Inv
<1>3. ForcerWaitsForUpdater'
  <2>1. forcer \in [Forcer -> {"idle", "empty", "send", "wait"}]
    BY DEF Inv, TypeOK
  <2>2. CASE ResetIndex(f) \/ EmptyList(f)
    BY <2>1, <2>2 DEF Inv, ForcerWaitsForUpdater, ResetIndex, EmptyList, updates
  <2>3. CASE SendForce(f)
    BY <2>1, <2>3 DEF Inv, ForcerWaitsForUpdater, SendForce
  <2>4. CASE RespondToForcer(f)
    BY <2>1, <2>4, ForcerAssumption
       DEF Inv, ForcerWaitsForUpdater, RespondToForcer
  <2> QED
    BY <2>2, <2>3, <2>4 DEF ForceStep
<1> QED
  BY <1>1, <1>2, <1>3 DEF Inv

LEMMA UpdateInv ==
  ASSUME Inv, Update
  PROVE  Inv'
<1>1. CASE HourPasses
  <2>1. TypeOK'
    BY <1>1 DEF Inv, TypeOK, HourPasses, checks, updates
  <2>2. EveryWaitIsOwed'
    BY <1>1, OwedKept DEF Inv, HourPasses, checks, updates, UpdaterOwes
  <2>3. ForcerWaitsForUpdater'
    BY <1>1 DEF Inv, ForcerWaitsForUpdater, HourPasses, updates
  <2> QED
    BY <2>1, <2>2, <2>3 DEF Inv
<1>2. CASE AskUpdate
  <2>1. TypeOK'
    BY <1>2 DEF Inv, TypeOK, AskUpdate, list, checks
  <2>2. EveryWaitIsOwed'
    <3>1. listener # "receive" /\ listener' = "receive"
      BY <1>2 DEF AskUpdate
    <3>2. ~UpdaterOwes /\ UpdaterOwes'
      BY <1>2 DEF AskUpdate, UpdaterOwes
    <3>3. Owed' = Owed
      BY <3>1, <3>2, OwedIs, OwedWillBe
    <3>4. Waiting' = Waiting
      BY <1>2 DEF AskUpdate, checks, Waiting
    <3> QED
      BY <3>3, <3>4 DEF Inv, EveryWaitIsOwed
  <2>3. ForcerWaitsForUpdater'
    BY <1>2, ForcerAssumption DEF Inv, ForcerWaitsForUpdater, AskUpdate
  <2> QED
    BY <2>1, <2>2, <2>3 DEF Inv
<1>3. CASE UpdateFails \/ DecodeTokenJdoc \/ \E n \in 0..MaxLen : ReplaceList(n)
  <2>1. TypeOK'
    BY <1>3, IndexInRange
       DEF Inv, TypeOK, UpdateFails, DecodeTokenJdoc, ReplaceList, list, checks
  <2>2. /\ updater # "select" /\ updater' # "select"
        /\ UNCHANGED <<checker, forcer, listener, response>>
    BY <1>3 DEF UpdateFails, DecodeTokenJdoc, ReplaceList, checks
  <2>3. EveryWaitIsOwed'
    BY <2>2, OwedKept DEF Inv, UpdaterOwes
  <2>4. ForcerWaitsForUpdater'
    BY <2>2 DEF Inv, ForcerWaitsForUpdater
  <2> QED
    BY <2>1, <2>3, <2>4 DEF Inv
<1> QED
  BY <1>1, <1>2, <1>3 DEF Update

LEMMA StutterInv == Inv /\ UNCHANGED vars => Inv'
BY DEF Inv, TypeOK, EveryWaitIsOwed, Waiting, Owed, ForcerWaitsForUpdater, vars,
       list, checks, updates

-----------------------------------------------------------------------------
(* The invariant holds in every reachable state.                           *)
THEOREM Invariance == Spec => []Inv
<1>1. Inv /\ [Next]_vars => Inv'
  BY CheckStepInv, ForceStepInv, UpdateInv, StutterInv DEF Next
<1> QED
  BY InitInv, <1>1, PTL DEF Spec

(* Every state of the client tokens is well typed (tokens.go).             *)
THEOREM TypeCorrect == Spec => []TypeOK
<1>1. Inv => TypeOK
  BY DEF Inv
<1> QED
  BY Invariance, <1>1, PTL

(* As many notifications are on their way as checks wait: none of them     *)
(* waits for ever and no goroutine is left with one nobody takes           *)
(* (CheckToken, updateListener and StartUpdateListener).                   *)
THEOREM WaitsAreOwed == Spec => []EveryWaitIsOwed
<1>1. Inv => EveryWaitIsOwed
  BY DEF Inv
<1> QED
  BY Invariance, <1>1, PTL

(* The updater works for a forcer exactly while it waits (ForceUpdate and  *)
(* StartUpdateListener).                                                   *)
THEOREM ForcersAreServed == Spec => []ForcerWaitsForUpdater
<1>1. Inv => ForcerWaitsForUpdater
  BY DEF Inv
<1> QED
  BY Invariance, <1>1, PTL
=============================================================================
