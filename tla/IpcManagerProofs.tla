-------------------------- MODULE IpcManagerProofs --------------------------
(***************************************************************************)
(* Proofs about IpcManager, for any handlers, tags and sending threads and *)
(* any channel capacities.                                                 *)
(***************************************************************************)
EXTENDS IpcManager, CladWire, FiniteSetTheorems, SequenceTheorems, TLAPS

(* A channel is open exactly while it is registered, under its own tag.    *)
OpenIffRegistered ==
  \A l \in Listener : chan[l] = "open" <=> l \in managed[TagOf[l]]

UnderOwnTag ==
  \A t \in Tag : \A l \in managed[t] : TagOf[l] = t

(* Only a thread that holds the read lock has goroutines that send.        *)
SendingNeedsLock ==
  \A s \in Sender : sender[s] # "send" => todo[s] = {}

(* A handler that has not called CreateChannel has no channel.             *)
NotYetMade ==
  \A l \in Listener : handler[l] \in {"idle", "checked"} => chan[l] = "none"

Inv ==
  /\ TypeOK
  /\ OpenIffRegistered
  /\ UnderOwnTag
  /\ KeysAreListened
  /\ SendingNeedsLock
  /\ SendsToRegistered
  /\ NotYetMade
  /\ NeverPanics

-----------------------------------------------------------------------------
(* The initial state: nobody listens, nobody sends.                        *)
LEMMA InitInv == Init => Inv
<1> SUFFICES ASSUME Init PROVE Inv
  OBVIOUS
<1>1. TypeOK
  <2>1. 0 \in 0..NumChan
    BY RegistryAssumption
  <2> QED
    BY <2>1 DEF Init, TypeOK
<1>2. OpenIffRegistered /\ UnderOwnTag /\ KeysAreListened
  BY RegistryAssumption
     DEF Init, OpenIffRegistered, UnderOwnTag, KeysAreListened
<1>3. SendingNeedsLock /\ SendsToRegistered /\ NotYetMade /\ NeverPanics
  BY DEF Init, SendingNeedsLock, SendsToRegistered, NotYetMade, NeverPanics
<1> QED
  BY <1>1, <1>2, <1>3 DEF Inv

(* Without readers nobody sends, so that listeners may go.                 *)
LEMMA WriteLockNoSends ==
  ASSUME Inv, WriteLock PROVE \A s \in Sender : todo[s] = {}
  BY DEF Inv, SendingNeedsLock, WriteLock, Readers

(***************************************************************************)
(* deleteListenerUnsafe under the write lock: what is removed is closed,   *)
(* once, and the map keeps its shape.                                      *)
(***************************************************************************)
LEMMA DeleteKeeps ==
  ASSUME NEW S \in SUBSET Listener, Inv, WriteLock, DeleteListeners(S),
         todo' = todo,
         handler' \in [Listener ->
                        {"idle", "checked", "listening", "leaving", "ended"}],
         \A l \in Listener :
            handler'[l] \in {"idle", "checked"} => handler'[l] = handler[l]
  PROVE  /\ keys' \in SUBSET Tag
         /\ managed' \in [Tag -> SUBSET Listener]
         /\ chan' \in [Listener -> {"none", "open", "closed"}]
         /\ buf' \in [Listener -> 0..NumChan]
         /\ panicked' = FALSE
         /\ OpenIffRegistered' /\ UnderOwnTag' /\ KeysAreListened'
         /\ SendsToRegistered' /\ NotYetMade'
<1> DEFINE found == {l \in S : l \in managed[TagOf[l]]}
<1> USE RegistryAssumption
<1>1. /\ managed' = [t \in Tag |-> managed[t] \ S]
      /\ keys' = {t \in keys : managed[t] \ S # {}
                               \/ t \notin {TagOf[l] : l \in S}}
      /\ chan' = [l \in Listener |-> IF l \in found THEN "closed" ELSE chan[l]]
      /\ buf' = [l \in Listener |-> IF l \in found /\ buf[l] > 0
                                    THEN buf[l] - 1 ELSE buf[l]]
      /\ panicked' = \E l \in found : chan[l] = "closed" /\ buf[l] > 0
  BY DEF DeleteListeners
<1>2. \A l \in found : chan[l] = "open"
  BY DEF Inv, OpenIffRegistered
<1>3. panicked' = FALSE
  BY <1>1, <1>2
<1>4. managed' \in [Tag -> SUBSET Listener] /\ keys' \in SUBSET Tag
  BY <1>1 DEF Inv, TypeOK
<1>5. chan' \in [Listener -> {"none", "open", "closed"}]
  BY <1>1 DEF Inv, TypeOK
<1>6. buf' \in [Listener -> 0..NumChan]
  <2>1. ASSUME NEW l \in Listener
        PROVE  (IF l \in found /\ buf[l] > 0 THEN buf[l] - 1 ELSE buf[l])
                 \in 0..NumChan
    <3>1. buf[l] \in 0..NumChan
      BY DEF Inv, TypeOK
    <3>2. buf[l] > 0 => buf[l] - 1 \in 0..NumChan
      BY <3>1
    <3> QED
      BY <3>1, <3>2
  <2> QED
    BY <1>1, <2>1
<1>7. OpenIffRegistered'
  <2> SUFFICES ASSUME NEW l \in Listener
               PROVE  chan'[l] = "open" <=> l \in managed'[TagOf[l]]
    BY DEF OpenIffRegistered
  <2>1. chan[l] = "open" <=> l \in managed[TagOf[l]]
    BY DEF Inv, OpenIffRegistered
  <2>2. managed'[TagOf[l]] = managed[TagOf[l]] \ S
    BY <1>1
  <2>3. chan'[l] = IF l \in found THEN "closed" ELSE chan[l]
    BY <1>1
  <2> QED
    BY <2>1, <2>2, <2>3
<1>8. UnderOwnTag'
  BY <1>1 DEF Inv, UnderOwnTag
<1>9. KeysAreListened'
  <2>1. ASSUME NEW t \in Tag, managed[t] # {}, managed[t] \ S = {}
        PROVE  t \in {TagOf[l] : l \in S}
    BY <2>1 DEF Inv, UnderOwnTag
  <2>2. \A t \in Tag : t \in keys <=> managed[t] # {}
    BY DEF Inv, KeysAreListened
  <2>3. \A t \in Tag : managed'[t] = managed[t] \ S
    BY <1>1
  <2>4. \A t \in Tag : t \in keys' <=> managed'[t] # {}
    BY <1>1, <2>1, <2>2, <2>3
  <2> QED
    BY <1>4, <2>4 DEF KeysAreListened
<1>10. SendsToRegistered'
  BY WriteLockNoSends DEF SendsToRegistered
<1>11. NotYetMade'
  <2>1. \A l \in found : chan[l] # "none"
    BY <1>2
  <2> QED
    BY <1>1, <2>1 DEF Inv, NotYetMade
<1> QED
  BY <1>3, <1>4, <1>5, <1>6, <1>7, <1>8, <1>9, <1>10, <1>11

-----------------------------------------------------------------------------
LEMMA HandlerStepInv ==
  ASSUME NEW l \in Listener, Inv, HandlerStep(l) PROVE Inv'
<1> USE RegistryAssumption
<1>1. CASE CheckUnique(l)
  <2> DEFINE next == IF TagOf[l] \in keys THEN "ended" ELSE "checked"
  <2>1. next \in {"idle", "checked", "listening", "leaving", "ended"}
    OBVIOUS
  <2>2. /\ UNCHANGED <<keys, managed, chan, buf, sender, todo, marked, stuck,
                       panicked>>
        /\ handler[l] = "idle"
        /\ handler' = [handler EXCEPT ![l] = next]
    BY <1>1 DEF CheckUnique
  <2> HIDE DEF next
  <2>3. /\ handler' \in [Listener ->
                        {"idle", "checked", "listening", "leaving", "ended"}]
        /\ \A m \in Listener \ {l} : handler'[m] = handler[m]
    BY <2>1, <2>2 DEF Inv, TypeOK
  <2>4. NotYetMade'
    BY <2>2, <2>3 DEF Inv, NotYetMade
  <2>5. TypeOK'
    BY <2>2, <2>3 DEF Inv, TypeOK
  <2>6. OpenIffRegistered' /\ UnderOwnTag' /\ KeysAreListened'
    BY <2>2 DEF Inv, OpenIffRegistered, UnderOwnTag, KeysAreListened
  <2>7. SendingNeedsLock' /\ SendsToRegistered' /\ NeverPanics'
    BY <2>2 DEF Inv, SendingNeedsLock, SendsToRegistered, NeverPanics
  <2> QED
    BY <2>4, <2>5, <2>6, <2>7 DEF Inv
<1>2. CASE CreateChannel(l)
  <2>1. /\ managed' = [managed EXCEPT ![TagOf[l]] = @ \cup {l}]
        /\ keys' = keys \cup {TagOf[l]}
        /\ chan' = [chan EXCEPT ![l] = "open"]
        /\ handler' = [handler EXCEPT ![l] = "listening"]
        /\ UNCHANGED <<buf, sender, todo, marked, stuck, panicked>>
    BY <1>2 DEF CreateChannel
  <2>2. TypeOK'
    BY <2>1 DEF Inv, TypeOK
  <2>3. OpenIffRegistered' /\ UnderOwnTag'
    BY <2>1 DEF Inv, TypeOK, OpenIffRegistered, UnderOwnTag
  <2>4. KeysAreListened'
    <3>1. \A t \in Tag : managed'[t] = IF t = TagOf[l] THEN managed[t] \cup {l}
                                      ELSE managed[t]
      BY <2>1 DEF Inv, TypeOK
    <3>2. TagOf[l] \in Tag
      OBVIOUS
    <3>3. \A t \in Tag : t \in keys <=> managed[t] # {}
      BY DEF Inv, KeysAreListened
    <3>4. \A t \in Tag : t \in keys' <=> managed'[t] # {}
      BY <2>1, <3>1, <3>3
    <3>5. keys' \subseteq Tag
      BY <2>2 DEF TypeOK
    <3> QED
      BY <3>4, <3>5 DEF KeysAreListened
  <2>5. SendingNeedsLock' /\ NeverPanics' /\ NotYetMade'
    BY <2>1 DEF Inv, TypeOK, SendingNeedsLock, NeverPanics, NotYetMade
  <2>6. SendsToRegistered'
    BY <1>2, <2>1, WriteLockNoSends DEF SendsToRegistered, CreateChannel
  <2> QED
    BY <2>2, <2>3, <2>4, <2>5, <2>6 DEF Inv
<1>3. CASE Receive(l)
  <2>1. buf[l] \in 0..NumChan /\ buf[l] > 0
    BY <1>3 DEF Receive, Inv, TypeOK
  <2>2. buf[l] - 1 \in 0..NumChan
    BY <2>1
  <2> QED
    BY <1>3, <2>2 DEF Receive, Inv, TypeOK, OpenIffRegistered, UnderOwnTag,
         KeysAreListened, SendingNeedsLock, SendsToRegistered, NotYetMade,
         NeverPanics
<1>4. CASE Leave(l)
  BY <1>4 DEF Leave, Inv, TypeOK, OpenIffRegistered, UnderOwnTag,
       KeysAreListened, SendingNeedsLock, SendsToRegistered, NotYetMade,
       NeverPanics
<1>5. CASE Unregister(l)
  <2>1. /\ WriteLock
        /\ DeleteListeners({l})
        /\ handler' = [handler EXCEPT ![l] = "ended"]
        /\ UNCHANGED <<sender, todo, marked, stuck>>
    BY <1>5 DEF Unregister
  <2>2. handler' \in [Listener ->
                        {"idle", "checked", "listening", "leaving", "ended"}]
    BY <2>1 DEF Inv, TypeOK
  <2>3. \A m \in Listener :
           handler'[m] \in {"idle", "checked"} => handler'[m] = handler[m]
    BY <2>1 DEF Inv, TypeOK
  <2>4. SendingNeedsLock'
    BY <2>1 DEF Inv, SendingNeedsLock
  <2>5. todo' = todo /\ {l} \in SUBSET Listener
    BY <2>1
  <2>6. /\ keys' \in SUBSET Tag
        /\ managed' \in [Tag -> SUBSET Listener]
        /\ chan' \in [Listener -> {"none", "open", "closed"}]
        /\ buf' \in [Listener -> 0..NumChan]
        /\ panicked' = FALSE
        /\ OpenIffRegistered' /\ UnderOwnTag' /\ KeysAreListened'
        /\ SendsToRegistered' /\ NotYetMade'
    BY <2>1, <2>2, <2>3, <2>5, DeleteKeeps
  <2>7. TypeOK'
    BY <2>1, <2>2, <2>6 DEF Inv, TypeOK
  <2> QED
    BY <2>4, <2>6, <2>7 DEF Inv, NeverPanics
<1> QED
  BY <1>1, <1>2, <1>3, <1>4, <1>5 DEF HandlerStep

LEMMA SenderStepInv ==
  ASSUME NEW s \in Sender, Inv, SenderStep(s) PROVE Inv'
<1> USE RegistryAssumption
<1>1. ASSUME NEW t \in Tag, Begin(s, t)
      PROVE  Inv'
  BY <1>1 DEF Begin, Inv, TypeOK, OpenIffRegistered, UnderOwnTag,
       KeysAreListened, SendingNeedsLock, SendsToRegistered, NotYetMade,
       NeverPanics
<1>2. ASSUME NEW l \in Listener, Deliver(s, l)
      PROVE  Inv'
  <2>1. chan[l] = "open"
    BY <1>2 DEF Deliver, Inv, SendsToRegistered
  <2>2. /\ buf[l] < NumChan
        /\ buf' = [buf EXCEPT ![l] = @ + 1]
        /\ todo' = [todo EXCEPT ![s] = @ \ {l}]
        /\ UNCHANGED <<keys, managed, chan, handler, sender, marked, stuck,
                       panicked>>
    BY <1>2, <2>1 DEF Deliver
  <2>3. buf[l] \in 0..NumChan
    BY DEF Inv, TypeOK
  <2>4. buf[l] + 1 \in 0..NumChan
    BY <2>2, <2>3
  <2> QED
    BY <2>2, <2>4 DEF Inv, TypeOK, OpenIffRegistered, UnderOwnTag,
         KeysAreListened, SendingNeedsLock, SendsToRegistered, NotYetMade,
         NeverPanics
<1>3. ASSUME NEW l \in Listener, GiveUp(s, l)
      PROVE  Inv'
  <2>1. /\ todo' = [todo EXCEPT ![s] = @ \ {l}]
        /\ marked' \in [Sender -> SUBSET Listener]
        /\ stuck' \in [Sender -> SUBSET Listener]
        /\ UNCHANGED <<keys, managed, chan, buf, handler, sender, panicked>>
    BY <1>3 DEF GiveUp, Inv, TypeOK
  <2> QED
    BY <2>1 DEF Inv, TypeOK, OpenIffRegistered, UnderOwnTag,
         KeysAreListened, SendingNeedsLock, SendsToRegistered, NotYetMade,
         NeverPanics
<1>4. CASE Unlock(s)
  BY <1>4 DEF Unlock, Inv, TypeOK, OpenIffRegistered, UnderOwnTag,
       KeysAreListened, SendingNeedsLock, SendsToRegistered, NotYetMade,
       NeverPanics
<1>5. CASE Lock(s)
  BY <1>5 DEF Lock, Inv, TypeOK, OpenIffRegistered, UnderOwnTag,
       KeysAreListened, SendingNeedsLock, SendsToRegistered, NotYetMade,
       NeverPanics
<1>6. CASE Cleanup(s)
  <2>1. /\ WriteLock
        /\ DeleteListeners(marked[s])
        /\ marked' = [marked EXCEPT ![s] = {}]
        /\ sender' = [sender EXCEPT ![s] = "idle"]
        /\ UNCHANGED <<handler, todo, stuck>>
    BY <1>6 DEF Cleanup
  <2>2. marked[s] \in SUBSET Listener
    BY DEF Inv, TypeOK
  <2>3. SendingNeedsLock'
    BY <2>1, WriteLockNoSends DEF SendingNeedsLock
  <2> QED
    BY <2>1, <2>2, <2>3, DeleteKeeps DEF Inv, TypeOK, NeverPanics
<1> QED
  BY <1>1, <1>2, <1>3, <1>4, <1>5, <1>6 DEF SenderStep

LEMMA NextInv == Inv /\ [Next]_vars => Inv'
<1>1. ASSUME Inv, UNCHANGED vars PROVE Inv'
  BY <1>1 DEF vars, Inv, TypeOK, OpenIffRegistered, UnderOwnTag,
       KeysAreListened, SendingNeedsLock, SendsToRegistered, NotYetMade,
       NeverPanics
<1> QED
  BY <1>1, HandlerStepInv, SenderStepInv DEF Next

(***************************************************************************)
(* The inductive invariant holds in every reachable state.                 *)
(***************************************************************************)
THEOREM Invariance == Spec => []Inv
  BY InitInv, NextInv, PTL DEF Spec

(***************************************************************************)
(* Every reachable state is well typed; in particular no channel ever      *)
(* holds more messages than it was made for.                               *)
(***************************************************************************)
THEOREM TypeCorrect == Spec => []TypeOK
<1>1. Inv => TypeOK
  BY DEF Inv
<1> QED
  BY <1>1, Invariance, PTL

(***************************************************************************)
(* However many handlers and sending threads there are, no goroutine sends *)
(* on a closed channel and no channel is closed twice.                     *)
(***************************************************************************)
THEOREM NoPanic == Spec => []NeverPanics
<1>1. Inv => NeverPanics
  BY DEF Inv
<1> QED
  BY <1>1, Invariance, PTL

(***************************************************************************)
(* A goroutine only ever sends to a listener that is registered.           *)
(***************************************************************************)
THEOREM SendsAreToRegistered == Spec => []SendsToRegistered
<1>1. Inv => SendsToRegistered
  BY DEF Inv
<1> QED
  BY <1>1, Invariance, PTL

(***************************************************************************)
(* A tag is in the map exactly when somebody listens for it.               *)
(***************************************************************************)
THEOREM NoDeadKeys == Spec => []KeysAreListened
<1>1. Inv => KeysAreListened
  BY DEF Inv
<1> QED
  BY <1>1, Invariance, PTL

(***************************************************************************)
(* Closing a channel is its own handler's doing, or a sender's that gave   *)
(* up on it.                                                               *)
(***************************************************************************)
THEOREM ClosingHasAReason == Spec => ClosedByOwnerOrSender
<1> DEFINE Reason(l) ==
             chan[l] = "open" /\ chan'[l] = "closed" =>
               handler[l] = "leaving" \/ \E s \in Sender : l \in marked[s]
<1>1. ASSUME Inv, Next, NEW l \in Listener PROVE Reason(l)
  <2> SUFFICES ASSUME chan[l] = "open", chan'[l] = "closed"
               PROVE  handler[l] = "leaving" \/ \E s \in Sender : l \in marked[s]
    OBVIOUS
  <2>1. chan' # chan
    OBVIOUS
  <2>2. \A S \in SUBSET Listener : DeleteListeners(S) => l \in S
    BY DEF DeleteListeners
  <2>3. ASSUME NEW m \in Listener, CreateChannel(m)
        PROVE  FALSE
    BY <1>1, <2>3 DEF CreateChannel, Inv, TypeOK
  <2>4. ASSUME NEW m \in Listener, Unregister(m)
        PROVE  handler[l] = "leaving"
    BY <2>2, <2>4 DEF Unregister
  <2>5. ASSUME NEW m \in Listener, HandlerStep(m)
        PROVE  handler[l] = "leaving"
    BY <2>1, <2>3, <2>4, <2>5 DEF HandlerStep, CheckUnique, Receive, Leave
  <2>6. ASSUME NEW s \in Sender, Cleanup(s)
        PROVE  l \in marked[s]
    <3>1. marked[s] \in SUBSET Listener
      BY <1>1 DEF Inv, TypeOK
    <3> QED
      BY <2>2, <2>6, <3>1 DEF Cleanup
  <2>7. ASSUME NEW s \in Sender, SenderStep(s)
        PROVE  l \in marked[s]
    BY <2>1, <2>6, <2>7
       DEF SenderStep, Begin, Deliver, GiveUp, Unlock, Lock
  <2> QED
    BY <1>1, <2>5, <2>7 DEF Next
<1>2. Inv /\ [Next]_vars => [\A l \in Listener : Reason(l)]_vars
  BY <1>1
<1> QED
  BY <1>2, Invariance, PTL DEF Spec, ClosedByOwnerOrSender

-----------------------------------------------------------------------------
(***************************************************************************)
(* The registry implements Registry.                                       *)
(***************************************************************************)

(* Only channels that were made are given up, so that a new one is not     *)
(* condemned from the start.                                               *)
CondemnedWasMade == \A l \in Listener : Condemned(l) => chan[l] # "none"

LEMMA CondemnedInv ==
  ASSUME Inv, CondemnedWasMade, [Next]_vars PROVE CondemnedWasMade'
<1>1. ASSUME NEW l \in Listener, chan[l] # "none" PROVE chan'[l] # "none"
  <2>1. \A S : DeleteListeners(S) => chan'[l] # "none"
    BY <1>1 DEF DeleteListeners
  <2>2. ASSUME NEW m \in Listener, CreateChannel(m) PROVE chan'[l] # "none"
    BY <1>1, <2>2 DEF CreateChannel, Inv, TypeOK
  <2>3. ASSUME NEW m \in Listener, HandlerStep(m) PROVE chan'[l] # "none"
    BY <1>1, <2>1, <2>2, <2>3
       DEF HandlerStep, CheckUnique, Receive, Leave, Unregister
  <2>4. ASSUME NEW s \in Sender, SenderStep(s) PROVE chan'[l] # "none"
    BY <1>1, <2>1, <2>4
       DEF SenderStep, Begin, Deliver, GiveUp, Unlock, Lock, Cleanup
  <2> QED
    BY <1>1, <2>3, <2>4 DEF Next, vars
<1>2. ASSUME NEW l \in Listener, Condemned(l)', ~Condemned(l)
      PROVE  chan[l] # "none"
  <2>1. ~UNCHANGED <<marked, stuck>>
    BY <1>2 DEF Condemned
  <2>2. PICK s \in Sender : SenderStep(s)
    BY <2>1 DEF Next, HandlerStep, CheckUnique, CreateChannel, Receive, Leave,
         Unregister, vars
  <2>3. ~Cleanup(s)
    BY <1>2 DEF Cleanup, Condemned, Inv, TypeOK
  <2>4. PICK m \in Listener : GiveUp(s, m)
    BY <2>1, <2>2, <2>3 DEF SenderStep, Begin, Deliver, Unlock, Lock
  <2>5. l = m
    BY <1>2, <2>4 DEF GiveUp, Condemned, Inv, TypeOK
  <2>6. chan[m] = "open"
    BY <2>4 DEF GiveUp, Inv, SendsToRegistered
  <2> QED
    BY <2>5, <2>6
<1> QED
  BY <1>1, <1>2 DEF CondemnedWasMade

(* Who listens, by the map and by the channels.                            *)
LEMMA ListeningIsManaged ==
  ASSUME Inv, NEW t \in Tag
  PROVE  Promise!Listening(t) = managed[t]
<1>1. ASSUME NEW l \in Listener
      PROVE  line[l] \in {"open", "slow"} <=> chan[l] = "open"
  BY DEF line, Inv, TypeOK
<1>2. managed[t] \subseteq Listener
  BY DEF Inv, TypeOK
<1> QED
  BY <1>1, <1>2 DEF Promise!Listening, Inv, OpenIffRegistered, UnderOwnTag

(* What a listener is due is a number, and at least what waits for it.     *)
LEMMA DueNat ==
  ASSUME Inv, NEW l \in Listener
  PROVE  /\ IsFiniteSet(Trying(l))
         /\ Cardinality(Trying(l)) \in Nat
         /\ due[l] = buf[l] + Cardinality(Trying(l))
         /\ buf[l] \in Nat /\ due[l] \in Nat
<1>1. IsFiniteSet(Trying(l)) /\ Cardinality(Trying(l)) \in Nat
  BY FS_Subset, FS_CardinalityType, RegistryAssumption DEF Trying
<1>2. buf[l] \in Nat
  BY RegistryAssumption DEF Inv, TypeOK
<1> QED
  BY <1>1, <1>2 DEF due

(* Without readers all that is due waits in the channels.                  *)
LEMMA DueUnlocked ==
  ASSUME Inv, WriteLock, NEW l \in Listener PROVE due[l] = buf[l]
<1>1. Trying(l) = {}
  BY WriteLockNoSends DEF Trying
<1> QED
  BY <1>1, DueNat, FS_EmptySet

LEMMA LineStays ==
  ASSUME UNCHANGED <<chan, marked, stuck>> PROVE UNCHANGED line
  BY DEF line, Condemned

LEMMA DueStays ==
  ASSUME UNCHANGED <<buf, todo>> PROVE UNCHANGED due
  BY DEF due, Trying

(* deleteListenerUnsafe closes, in the handlers' eyes, those it finds open. *)
LEMMA DeleteCloses ==
  ASSUME NEW S \in SUBSET Listener, Inv, WriteLock, DeleteListeners(S),
         UNCHANGED todo,
         \A l \in Listener \ S : Condemned(l)' <=> Condemned(l)
  PROVE  Promise!Close({l \in S : chan[l] = "open"})
<1> DEFINE found == {l \in S : l \in managed[TagOf[l]]}
           opens == {l \in S : chan[l] = "open"}
<1>1. found = opens
  BY DEF Inv, OpenIffRegistered
<1>2. /\ chan' = [l \in Listener |-> IF l \in opens THEN "closed" ELSE chan[l]]
      /\ buf' = [l \in Listener |-> IF l \in opens /\ buf[l] > 0
                                    THEN buf[l] - 1 ELSE buf[l]]
  BY <1>1 DEF DeleteListeners
<1> HIDE DEF found, opens
<1>3. \A l \in opens : due[l] <= NumChan
  BY DueUnlocked, RegistryAssumption DEF opens, Inv, TypeOK
<1>4. ASSUME NEW l \in Listener
      PROVE  line'[l] = IF l \in opens THEN "closed" ELSE line[l]
  <2>1. line'[l] = IF chan'[l] = "open" /\ Condemned(l)' THEN "slow"
                   ELSE chan'[l]
    BY DEF line
  <2>2. CASE l \in opens
    BY <1>2, <2>1, <2>2
  <2>3. CASE l \in S \ opens
    BY <1>2, <2>1, <2>3 DEF line, opens
  <2>4. CASE l \notin S
    BY <1>2, <2>1, <2>4 DEF line, opens
  <2> QED
    BY <2>2, <2>3, <2>4
<1>5. ASSUME NEW l \in Listener
      PROVE  due'[l] = IF l \in opens /\ due[l] > 0 THEN due[l] - 1 ELSE due[l]
  <2>1. due[l] = buf[l] /\ buf[l] \in Nat
    BY DueUnlocked, DueNat
  <2>2. Trying(l)' = {}
    BY WriteLockNoSends DEF Trying
  <2>3. due'[l] = buf'[l] + 0
    BY <2>2, FS_EmptySet DEF due
  <2>4. buf'[l] \in Nat
    BY <1>2, <2>1
  <2> QED
    BY <1>2, <2>1, <2>3, <2>4
<1>6. line' = [l \in Listener |-> IF l \in opens THEN "closed" ELSE line[l]]
  BY <1>4 DEF line
<1>7. due' = [l \in Listener |-> IF l \in opens /\ due[l] > 0 THEN due[l] - 1
                                 ELSE due[l]]
  BY <1>5 DEF due
<1> QED
  BY <1>3, <1>6, <1>7 DEF Promise!Close, opens

LEMMA HandlerStepKept ==
  ASSUME NEW l \in Listener, Inv, CondemnedWasMade, HandlerStep(l)
  PROVE  Promise!Next
<1> USE RegistryAssumption
<1>1. CASE CheckUnique(l)
  <2>1. UNCHANGED line /\ UNCHANGED due
    BY <1>1, LineStays, DueStays DEF CheckUnique
  <2>2. TagOf[l] \in keys <=> Promise!Listening(TagOf[l]) # {}
    BY ListeningIsManaged DEF Inv, KeysAreListened
  <2>3. Promise!Look(l)
    BY <1>1, <2>1, <2>2 DEF CheckUnique, Promise!Look
  <2> QED
    BY <2>3 DEF Promise!Next
<1>2. CASE CreateChannel(l)
  <2>1. UNCHANGED due
    BY <1>2, DueStays DEF CreateChannel
  <2>2. chan[l] = "none"
    BY <1>2 DEF CreateChannel, Inv, NotYetMade
  <2>3. \A m \in Listener : Condemned(m)' <=> Condemned(m)
    BY <1>2 DEF CreateChannel, Condemned
  <2>4. ~Condemned(l)
    BY <2>2 DEF CondemnedWasMade
  <2>5. chan' = [chan EXCEPT ![l] = "open"] /\ chan \in [Listener ->
          {"none", "open", "closed"}]
    BY <1>2 DEF CreateChannel, Inv, TypeOK
  <2>6. line' = [line EXCEPT ![l] = "open"]
    BY <2>3, <2>4, <2>5 DEF line
  <2>7. Promise!Join(l)
    BY <1>2, <2>1, <2>6 DEF CreateChannel, Promise!Join
  <2> QED
    BY <2>7 DEF Promise!Next
<1>3. CASE Receive(l)
  <2>1. UNCHANGED line
    BY <1>3, LineStays DEF Receive
  <2>2. /\ buf' = [buf EXCEPT ![l] = @ - 1]
        /\ buf[l] > 0 /\ UNCHANGED todo
        /\ buf \in [Listener -> 0..NumChan]
    BY <1>3 DEF Receive, Inv, TypeOK
  <2>3. \A m \in Listener : Trying(m)' = Trying(m)
    BY <2>2 DEF Trying
  <2>4. ASSUME NEW m \in Listener
        PROVE  due'[m] = IF m = l THEN due[l] - 1 ELSE due[m]
    <3>1. due'[m] = buf'[m] + Cardinality(Trying(m))
      BY <2>3 DEF due
    <3> QED
      BY <3>1, <2>2, DueNat
  <2>5. due' = [due EXCEPT ![l] = @ - 1]
    BY <2>4 DEF due
  <2>6. due[l] > 0
    BY <2>2, DueNat
  <2>7. Promise!Take(l)
    BY <1>3, <2>1, <2>5, <2>6 DEF Receive, Promise!Take
  <2> QED
    BY <2>7 DEF Promise!Next
<1>4. CASE Leave(l)
  <2>1. UNCHANGED line /\ UNCHANGED due
    BY <1>4, LineStays, DueStays DEF Leave
  <2>2. Promise!Leave(l)
    BY <1>4, <2>1 DEF Leave, Promise!Leave
  <2> QED
    BY <2>2 DEF Promise!Next
<1>5. CASE Unregister(l)
  <2>1. \A m \in Listener : Condemned(m)' <=> Condemned(m)
    BY <1>5 DEF Unregister, Condemned
  <2>2. Promise!Close({m \in {l} : chan[m] = "open"})
    BY <1>5, <2>1, DeleteCloses DEF Unregister
  <2>3. {l} \intersect Promise!Listening(TagOf[l]) =
          {m \in {l} : chan[m] = "open"}
    BY ListeningIsManaged DEF Inv, OpenIffRegistered
  <2>4. Promise!Finish(l)
    BY <1>5, <2>2, <2>3 DEF Unregister, Promise!Finish
  <2> QED
    BY <2>4 DEF Promise!Next
<1> QED
  BY <1>1, <1>2, <1>3, <1>4, <1>5 DEF HandlerStep

LEMMA SenderStepKept ==
  ASSUME NEW s \in Sender, Inv, SenderStep(s)
  PROVE  Promise!Next \/ UNCHANGED <<handler, line, due>>
<1> USE RegistryAssumption
<1>1. ASSUME NEW t \in Tag, Begin(s, t)
      PROVE  Promise!Broadcast(t)
  <2>1. UNCHANGED line /\ UNCHANGED handler
    BY <1>1, LineStays DEF Begin
  <2>2. /\ todo' = [todo EXCEPT ![s] = managed[t]]
        /\ todo[s] = {} /\ UNCHANGED buf
        /\ todo \in [Sender -> SUBSET Listener]
    BY <1>1 DEF Begin, Inv, SendingNeedsLock, TypeOK
  <2>3. ASSUME NEW l \in Listener
        PROVE  due'[l] = IF l \in managed[t] THEN due[l] + 1 ELSE due[l]
    <3>1. due'[l] = buf[l] + Cardinality(Trying(l)')
      BY <2>2 DEF due
    <3>2. Trying(l)' = IF l \in managed[t] THEN Trying(l) \cup {s}
                       ELSE Trying(l)
      BY <2>2 DEF Trying
    <3>3. s \notin Trying(l)
      BY <2>2 DEF Trying
    <3>4. /\ IsFiniteSet(Trying(l)) /\ Cardinality(Trying(l)) \in Nat
          /\ buf[l] \in Nat /\ due[l] = buf[l] + Cardinality(Trying(l))
      BY DueNat
    <3>5. Cardinality(Trying(l) \cup {s}) = Cardinality(Trying(l)) + 1
      BY <3>3, <3>4, FS_AddElement
    <3> QED
      BY <3>1, <3>2, <3>4, <3>5
  <2>4. Promise!Listening(t) = managed[t] /\ managed[t] # {}
    BY <1>1, ListeningIsManaged DEF Begin, Inv, KeysAreListened
  <2>5. due' = [l \in Listener |-> IF l \in Promise!Listening(t)
                                   THEN due[l] + 1 ELSE due[l]]
    BY <2>3, <2>4 DEF due
  <2> QED
    BY <2>1, <2>4, <2>5 DEF Promise!Broadcast
<1>2. ASSUME NEW l \in Listener, Deliver(s, l) \/ GiveUp(s, l)
      PROVE  /\ \A m \in Listener \ {l} : Trying(m)' = Trying(m)
             /\ IsFiniteSet(Trying(l)) /\ Cardinality(Trying(l)) > 0
             /\ Cardinality(Trying(l)') = Cardinality(Trying(l)) - 1
             /\ chan[l] = "open"
  <2>1. /\ s \in Trying(l) /\ chan[l] = "open"
        /\ todo' = [todo EXCEPT ![s] = @ \ {l}]
        /\ todo \in [Sender -> SUBSET Listener]
    BY <1>2 DEF Deliver, GiveUp, Inv, TypeOK, SendsToRegistered, Trying
  <2>2. \A m \in Listener \ {l} : Trying(m)' = Trying(m)
    BY <2>1 DEF Trying
  <2>3. Trying(l)' = Trying(l) \ {s}
    BY <2>1 DEF Trying
  <2>4. IsFiniteSet(Trying(l)) /\ Cardinality(Trying(l)) \in Nat
    BY DueNat
  <2>5. Cardinality(Trying(l)) # 0
    BY <2>1, <2>4, FS_EmptySet
  <2>6. Cardinality(Trying(l) \ {s}) = Cardinality(Trying(l)) - 1
    BY <2>1, <2>4, FS_RemoveElement
  <2> QED
    BY <2>1, <2>2, <2>3, <2>4, <2>5, <2>6
<1>3. ASSUME NEW l \in Listener, Deliver(s, l)
      PROVE  UNCHANGED <<handler, line, due>>
  <2>1. chan[l] = "open"
    BY <1>2, <1>3
  <2>2. /\ buf' = [buf EXCEPT ![l] = @ + 1]
        /\ UNCHANGED <<handler, chan, marked, stuck>>
    BY <1>3, <2>1 DEF Deliver
  <2>3. ASSUME NEW m \in Listener PROVE due'[m] = due[m]
    <3>1. due'[m] = buf'[m] + Cardinality(Trying(m)')
      BY DEF due
    <3>2. CASE m = l
      <4>1. buf'[l] = buf[l] + 1
        BY <2>2 DEF Inv, TypeOK
      <4> QED
        BY <1>2, <1>3, <3>1, <3>2, <4>1, DueNat
    <3>3. CASE m # l
      <4>1. buf'[m] = buf[m]
        BY <2>2, <3>3 DEF Inv, TypeOK
      <4> QED
        BY <1>2, <1>3, <3>1, <3>3, <4>1, DueNat
    <3> QED
      BY <3>2, <3>3
  <2> QED
    BY <2>2, <2>3, LineStays DEF due
<1>4. ASSUME NEW l \in Listener, GiveUp(s, l)
      PROVE  Promise!GiveUp(l)
  <2>1. /\ buf[l] = NumChan /\ UNCHANGED <<handler, chan, buf>>
        /\ Condemned(l)'
        /\ \A m \in Listener \ {l} : Condemned(m)' <=> Condemned(m)
    BY <1>4 DEF GiveUp, Inv, TypeOK, Condemned
  <2>2. ASSUME NEW m \in Listener
        PROVE  due'[m] = IF m = l THEN due[l] - 1 ELSE due[m]
    <3>1. due'[m] = buf[m] + Cardinality(Trying(m)')
      BY <2>1 DEF due
    <3> QED
      BY <1>2, <1>4, <3>1, DueNat
  <2>3. due' = [due EXCEPT ![l] = @ - 1]
    BY <2>2 DEF due
  <2>4. due[l] > NumChan
    BY <1>2, <1>4, <2>1, DueNat
  <2>5. chan[l] = "open"
    BY <1>2, <1>4
  <2>6. line' = [line EXCEPT ![l] = "slow"]
    BY <2>1, <2>5 DEF line
  <2>7. line[l] \in {"open", "slow"}
    BY <2>5 DEF line
  <2> QED
    BY <2>1, <2>3, <2>4, <2>6, <2>7 DEF Promise!GiveUp
<1>5. CASE Unlock(s) \/ Lock(s)
  BY <1>5, LineStays, DueStays DEF Unlock, Lock
<1>6. CASE Cleanup(s)
  <2>1. marked[s] \in SUBSET Listener
    BY DEF Inv, TypeOK
  <2>2. \A l \in Listener \ marked[s] : Condemned(l)' <=> Condemned(l)
    BY <1>6 DEF Cleanup, Condemned, Inv, TypeOK
  <2> DEFINE cut == {l \in marked[s] : chan[l] = "open"}
  <2>3. Promise!Close(cut)
    BY <1>6, <2>1, <2>2, DeleteCloses DEF Cleanup
  <2>4. \A l \in cut : line[l] = "slow"
    BY <2>1 DEF line, Condemned
  <2>5. Promise!Cut(cut)
    BY <1>6, <2>3, <2>4 DEF Cleanup, Promise!Cut
  <2>6. cut \in SUBSET Listener
    BY <2>1
  <2> QED
    BY <2>5, <2>6 DEF Promise!Next
<1> QED
  BY <1>1, <1>3, <1>4, <1>5, <1>6 DEF SenderStep, Promise!Next

LEMMA InitKept == Init => Promise!Init /\ CondemnedWasMade
<1> SUFFICES ASSUME Init PROVE Promise!Init /\ CondemnedWasMade
  OBVIOUS
<1>1. \A l \in Listener : ~Condemned(l) /\ Trying(l) = {}
  BY DEF Init, Condemned, Trying
<1>2. line = [l \in Listener |-> "none"]
  BY <1>1 DEF Init, line
<1>3. due = [l \in Listener |-> 0]
  BY <1>1, FS_EmptySet DEF Init, due
<1> QED
  BY <1>1, <1>2, <1>3 DEF Init, Promise!Init, CondemnedWasMade

LEMMA StepKept ==
  Inv /\ CondemnedWasMade /\ [Next]_vars =>
    [Promise!Next]_<<handler, line, due>>
<1>1. ASSUME UNCHANGED vars PROVE UNCHANGED <<handler, line, due>>
  BY <1>1, LineStays, DueStays DEF vars
<1> QED
  BY <1>1, HandlerStepKept, SenderStepKept DEF Next

(***************************************************************************)
(* For any handlers, threads and capacities: seen from the handlers, each  *)
(* message goes in one step to all who listen for its type, each gets it   *)
(* once unless its channel overflows, no channel is closed with a message  *)
(* on its way to it, and a handler that wants to be alone is refused only  *)
(* while another listens.                                                  *)
(***************************************************************************)
THEOREM RegistryKept == Spec => ImplementsRegistry
<1>1. Inv /\ CondemnedWasMade /\ [Next]_vars => CondemnedWasMade'
  BY CondemnedInv
<1> QED
  BY <1>1, InitKept, StepKept, Invariance, PTL
     DEF Spec, ImplementsRegistry, Promise!Spec
-----------------------------------------------------------------------------
(***************************************************************************)
(* Messages on the sockets that the managers read (module CladWire): the   *)
(* framing, the buffer that may be too small and the tag cells, for any    *)
(* codec. What Pack and Unpack make of a whole table is a recursion over   *)
(* it: what of that a theorem rests on is its hypothesis, which run wire   *)
(* shows message by message, and the leaves of the tables are proved here. *)
(***************************************************************************)

(* Packed bytes begin with the tag, Unpack makes the message of them again  *)
(* and refuses them when the end is missing.                                *)
RoundTrips ==
  \A l \in DOMAIN Links, k \in Seeds, n \in Lengths :
    \A m \in DOMAIN Links[l].union.members :
      LET type == Una(Links[l].union)
          x == Message(l, m, k, n)
          p == PackOf(type, x)
      IN  p.ok =>
            /\ p.b # <<>> /\ p.b[1] = x.tag
            /\ UnpackOf(type, p.b) = Read(x, <<>>)
            /\ \A i \in 1..(Len(p.b) - 1) : ~UnpackOf(type, Take(p.b, i)).ok

WireTypeOK ==
  /\ link \in DOMAIN Links
  /\ wire # <<>> => wire = <<wire[1]>> /\ wire[1].bytes \in Seq(Byte)
  /\ cells \in Seq(Byte)
  /\ msg = [tag |-> msg.tag, value |-> msg.value]
  /\ msg.tag \in 0..Len(cells)

(* A copy leads to a cell of its own message, and to the tag it had then.  *)
CopiesLeadToCells ==
  \A h \in held : /\ h.copy.tag \in 1..Len(cells)
                  /\ cells[h.copy.tag] = h.was

(* What is under way as a message is what Write makes of one.              *)
SentIntact ==
  (wire # <<>> /\ wire[1].of # NoMessage) =>
    \E m \in DOMAIN Links[link].union.members, k \in Seeds, n \in Lengths :
      LET x == Message(link, m, k, n)
          p == PackOf(Una(Links[link].union), x)
      IN  /\ p.ok
          /\ wire[1].of = [member |-> m, k |-> k, n |-> n]
          /\ wire[1].bytes = Prefix(link, x) \o p.b

WireInv == WireTypeOK /\ CopiesLeadToCells /\ SentIntact

LEMMA FunctionIsSeq ==
  ASSUME NEW S, NEW n \in Nat, NEW e \in [1..n -> S]
  PROVE  e \in Seq(S) /\ Len(e) = n
<1>1. e \in Seq(S)
  OBVIOUS
<1>2. Len(e) = n
  OBVIOUS
<1> QED
  BY <1>1, <1>2

(* The bytes of a number, the lowest first.                                *)
LEMMA LittleEndianBytes ==
  ASSUME NEW w \in Nat, NEW n \in Nat
  PROVE  /\ LittleEndian(w, n) \in Seq(Byte)
         /\ Len(LittleEndian(w, n)) = w
         /\ \A i \in 1..w :
              LittleEndian(w, n)[i] =
                IF i > 4 THEN 0 ELSE (n \div Weight[i]) % 256
<1> DEFINE e == LittleEndian(w, n)
<1>1. e = [i \in 1..w |-> IF i > 4 THEN 0 ELSE (n \div Weight[i]) % 256]
  BY DEF LittleEndian
<1>2. \A i \in 1..w : e[i] = IF i > 4 THEN 0 ELSE (n \div Weight[i]) % 256
  BY <1>1
<1>3. ASSUME NEW i \in 1..w PROVE e[i] \in Byte
  <2>1. \A d \in {1, 256, 65536, 16777216} : (n \div d) % 256 \in Byte
    BY SMT DEF Byte
  <2>2. CASE i > 4
    BY <1>2, <2>2 DEF Byte
  <2>3. CASE ~(i > 4)
    <3>1. Weight[i] \in {1, 256, 65536, 16777216}
      BY <2>3, SMT DEF Weight
    <3> QED
      BY <1>2, <2>1, <2>3, <3>1, SMT
  <2> QED
    BY <2>2, <2>3
<1>4. e \in [1..w -> Byte]
  BY <1>1, <1>3
<1>5. e \in Seq(Byte) /\ Len(e) = w
  <2> HIDE DEF e
  <2> QED
    BY <1>4, FunctionIsSeq
<1> QED
  BY <1>2, <1>5

LEMMA TwoBytes ==
  ASSUME NEW n \in Nat
  PROVE  /\ LittleEndian(2, n) \in Seq(Byte)
         /\ Len(LittleEndian(2, n)) = 2
         /\ LittleEndian(2, n)[1] = n % 256
         /\ LittleEndian(2, n)[2] = (n \div 256) % 256
<1> DEFINE e == LittleEndian(2, n)
<1>1. /\ e \in Seq(Byte) /\ Len(e) = 2
      /\ \A i \in 1..2 : e[i] = IF i > 4 THEN 0 ELSE (n \div Weight[i]) % 256
  <2>1. \A w \in Nat :
          /\ LittleEndian(w, n) \in Seq(Byte) /\ Len(LittleEndian(w, n)) = w
          /\ \A i \in 1..w :
               LittleEndian(w, n)[i] =
                 IF i > 4 THEN 0 ELSE (n \div Weight[i]) % 256
    BY LittleEndianBytes
  <2>2. 2 \in Nat
    OBVIOUS
  <2> QED
    BY <2>1, <2>2, Zenon
<1> HIDE DEF e
<1>2. e[1] = (n \div 1) % 256 /\ e[2] = (n \div 256) % 256
  BY <1>1, SMT DEF Weight
<1>3. n \div 1 = n
  OBVIOUS
<1> QED
  BY <1>1, <1>2, <1>3 DEF e

LEMMA TakeIsBytes ==
  ASSUME NEW b \in Seq(Byte), NEW n \in Nat, n <= Len(b)
  PROVE  Take(b, n) \in Seq(Byte) /\ Len(Take(b, n)) = n
<1>1. \A i \in 1..n : b[i] \in Byte
  BY ElementOfSeq
<1> QED
  BY <1>1, SubSeqProperties DEF Take

LEMMA SkipIsBytes ==
  ASSUME NEW b \in Seq(Byte), NEW n \in Nat
  PROVE  Skip(b, n) \in Seq(Byte)
<1>1. \A i \in (n + 1)..Len(b) : b[i] \in Byte
  BY ElementOfSeq
<1> QED
  BY <1>1, SubSeqProperties DEF Skip

LEMMA FirstOfConcat ==
  ASSUME NEW a \in Seq(Byte), NEW b \in Seq(Byte)
  PROVE  /\ a \o b \in Seq(Byte) /\ Len(a \o b) = Len(a) + Len(b)
         /\ \A i \in 1..Len(a) : (a \o b)[i] = a[i]
<1>1. /\ a \o b \in Seq(Byte) /\ Len(a \o b) = Len(a) + Len(b)
      /\ \A i \in 1..(Len(a) + Len(b)) :
           (a \o b)[i] = IF i <= Len(a) THEN a[i] ELSE b[i - Len(a)]
  BY ConcatProperties
<1>2. \A i \in 1..Len(a) : i \in 1..(Len(a) + Len(b)) /\ i <= Len(a)
  OBVIOUS
<1> QED
  BY <1>1, <1>2

LEMMA SkipFirst ==
  ASSUME NEW a \in Seq(Byte), NEW b \in Seq(Byte)
  PROVE  Skip(a \o b, Len(a)) = b
<1>1. Len(a \o b) = Len(a) + Len(b)
  BY ConcatProperties
<1>2. CASE b = <<>>
  <2>1. Skip(a \o b, Len(a)) = <<>>
    BY <1>1, <1>2, SubSeqEmpty DEF Skip
  <2> QED
    BY <1>2, <2>1
<1>3. CASE b # <<>>
  <2>1. Len(b) \in Nat \ {0} /\ Len(a) \in Nat
    BY <1>3, EmptySeq
  <2>2. /\ Len(a) + 1 \in (Len(a) + 1)..(Len(a) + Len(b))
        /\ Len(a) + Len(b) \in (Len(a) + 1)..(Len(a) + Len(b))
    BY <2>1
  <2>3. SubSeq(a \o b, Len(a) + 1, Len(a) + Len(b)) =
          SubSeq(b, (Len(a) + 1) - Len(a), (Len(a) + Len(b)) - Len(a))
    BY <2>2, SubSeqOfConcat2
  <2>4. (Len(a) + 1) - Len(a) = 1 /\ (Len(a) + Len(b)) - Len(a) = Len(b)
    BY <2>1
  <2> QED
    BY <1>1, <2>3, <2>4, SubSeqFull DEF Skip
<1> QED
  BY <1>2, <1>3

(* What is cut off a framed message is cut off the message.                *)
LEMMA TakeOfConcat ==
  ASSUME NEW a \in Seq(Byte), NEW b \in Seq(Byte), NEW n \in Nat,
         Len(a) <= n, n <= Len(a) + Len(b)
  PROVE  Take(a \o b, n) = a \o Take(b, n - Len(a))
<1> DEFINE t == Take(a \o b, n)
           c == Take(b, n - Len(a))
           s == a \o c
<1>1. /\ a \o b \in Seq(Byte) /\ Len(a \o b) = Len(a) + Len(b)
      /\ \A i \in 1..(Len(a) + Len(b)) :
           (a \o b)[i] = IF i <= Len(a) THEN a[i] ELSE b[i - Len(a)]
  BY ConcatProperties
<1>2. Len(a) \in Nat /\ Len(b) \in Nat
  OBVIOUS
<1>3. t \in Seq(Byte) /\ Len(t) = n /\ \A i \in 1..n : t[i] = (a \o b)[i]
  <2>1. \A i \in 1..n : (a \o b)[i] \in Byte
    BY <1>1, <1>2, ElementOfSeq
  <2> QED
    BY <2>1, <1>2, SubSeqProperties DEF Take
<1>4. /\ c \in Seq(Byte) /\ Len(c) = n - Len(a)
      /\ \A i \in 1..(n - Len(a)) : c[i] = b[i]
  <2>1. n - Len(a) \in Nat /\ n - Len(a) <= Len(b)
    BY <1>2
  <2>2. \A i \in 1..(n - Len(a)) : b[i] \in Byte
    BY <2>1, <1>2, ElementOfSeq
  <2> QED
    BY <2>1, <2>2, <1>2, SubSeqProperties DEF Take
<1> HIDE DEF t, c
<1>5. /\ s \in Seq(Byte) /\ Len(s) = Len(a) + Len(c)
      /\ \A i \in 1..(Len(a) + Len(c)) :
           s[i] = IF i <= Len(a) THEN a[i] ELSE c[i - Len(a)]
  BY <1>4, ConcatProperties
<1>6. Len(s) = n
  BY <1>2, <1>4, <1>5
<1> HIDE DEF s
<1>7. \A i \in 1..n : t[i] = s[i]
  <2> SUFFICES ASSUME NEW i \in 1..n PROVE t[i] = s[i]
    OBVIOUS
  <2>1. i \in 1..(Len(a) + Len(b)) /\ i \in 1..(Len(a) + Len(c))
    BY <1>2, <1>4
  <2>2. CASE i <= Len(a)
    BY <1>1, <1>3, <1>5, <2>1, <2>2
  <2>3. CASE ~(i <= Len(a))
    <3>1. i - Len(a) \in 1..(n - Len(a))
      BY <1>2, <2>3
    <3>2. t[i] = b[i - Len(a)]
      BY <1>1, <1>3, <2>1, <2>3
    <3>3. s[i] = c[i - Len(a)]
      BY <1>5, <2>1, <2>3
    <3> QED
      BY <1>4, <3>1, <3>2, <3>3
  <2> QED
    BY <2>2, <2>3
<1>8. t = s
  BY <1>3, <1>5, <1>6, <1>7, SeqEqual
<1> QED
  BY <1>8 DEF t, s, c

LEMMA SkipOfCut ==
  ASSUME NEW a \in Seq(Byte), NEW b \in Seq(Byte), NEW n \in Nat,
         Len(a) <= n, n < Len(a) + Len(b)
  PROVE  Skip(Take(a \o b, n), Len(a)) = Take(b, n - Len(a))
<1>1. Len(a) \in Nat /\ Len(b) \in Nat
  OBVIOUS
<1>2. n - Len(a) \in Nat /\ n - Len(a) <= Len(b) /\ n <= Len(a) + Len(b)
  BY <1>1
<1>3. Take(a \o b, n) = a \o Take(b, n - Len(a))
  BY <1>2, TakeOfConcat
<1>4. Take(b, n - Len(a)) \in Seq(Byte)
  BY <1>2, TakeIsBytes
<1> QED
  BY <1>3, <1>4, SkipFirst

(* What WireAssumption says of one message, and of the length before it.   *)
LEMMA MessageBytes ==
  ASSUME NEW l \in DOMAIN Links, NEW k \in Seeds, NEW n \in Lengths,
         NEW m \in DOMAIN Links[l].union.members
  PROVE  LET x == Message(l, m, k, n)
             type == Una(Links[l].union)
         IN  /\ PackOf(type, x).b \in Seq(Byte)
             /\ SizeOf(type, x) \in Nat
             /\ Prefix(l, x) \in Seq(Byte)
             /\ Len(Prefix(l, x)) = IF Links[l].prefixed THEN 2 ELSE 0
<1> DEFINE x == Message(l, m, k, n)
           type == Una(Links[l].union)
<1>1. PackOf(type, x).b \in Seq(Byte) /\ SizeOf(type, x) \in Nat
  BY WireAssumption
<1> HIDE DEF x, type
<1>2. CASE Links[l].prefixed
  <2>1. Prefix(l, x) = LittleEndian(2, SizeOf(type, x))
    BY <1>2 DEF Prefix, type
  <2>2. Prefix(l, x) \in Seq(Byte) /\ Len(Prefix(l, x)) = 2
    BY <1>1, <2>1, TwoBytes
  <2> QED
    BY <1>1, <1>2, <2>2 DEF x, type
<1>3. CASE ~Links[l].prefixed
  <2>1. Prefix(l, x) = <<>>
    BY <1>3 DEF Prefix
  <2>2. <<>> \in Seq(Byte) /\ Len(<<>>) = 0
    BY EmptySeq
  <2> QED
    BY <1>1, <1>3, <2>1, <2>2 DEF x, type
<1> QED
  BY <1>2, <1>3

(* Unpack adds a cell at most, changes none, and leads to one of them.     *)
LEMMA UnpackKeepsCells ==
  ASSUME WireTypeOK, NEW b \in Seq(Byte)
  PROVE  LET r == UnpackInto(b)
         IN  /\ r.cells \in Seq(Byte)
             /\ Len(cells) <= Len(r.cells)
             /\ \A i \in 1..Len(cells) : r.cells[i] = cells[i]
             /\ r.msg = [tag |-> r.msg.tag, value |-> r.msg.value]
             /\ r.msg.tag \in 0..Len(r.cells)
             /\ r.ok => r.msg.tag \in 1..Len(r.cells)
<1> DEFINE r == UnpackInto(b)
           u == UnpackOf(Una(Links[link].union), b)
<1>1. cells \in Seq(Byte) /\ Len(cells) \in Nat
  BY DEF WireTypeOK
<1>2. CASE b = <<>>
  <2>1. r = [ok |-> FALSE, cells |-> cells, msg |-> msg, left |-> 0]
    BY <1>2 DEF UnpackInto
  <2>2. r.cells = cells /\ r.msg = msg /\ ~r.ok
    BY <2>1
  <2> HIDE DEF r
  <2> QED
    BY <1>1, <2>2 DEF WireTypeOK, r
<1>3. CASE b # <<>> /\ u.ok
  <2>1. r = [ok |-> TRUE, cells |-> Append(cells, b[1]),
             msg |-> [tag |-> Len(cells) + 1, value |-> u.v.value],
             left |-> Len(u.rest)]
    BY <1>3 DEF UnpackInto
  <2>2. /\ r.cells = Append(cells, b[1])
        /\ r.msg = [tag |-> Len(cells) + 1, value |-> u.v.value]
    BY <2>1
  <2>3. b[1] \in Byte
    <3>1. Len(b) \in Nat \ {0}
      BY <1>3, EmptySeq
    <3> QED
      BY <3>1, ElementOfSeq
  <2>4. /\ r.cells \in Seq(Byte) /\ Len(r.cells) = Len(cells) + 1
        /\ \A i \in 1..Len(cells) : r.cells[i] = cells[i]
    BY <1>1, <2>2, <2>3, AppendProperties
  <2> HIDE DEF r, u
  <2>5. /\ r.msg = [tag |-> r.msg.tag, value |-> r.msg.value]
        /\ r.msg.tag = Len(cells) + 1
    BY <2>2
  <2>6. Len(cells) + 1 \in 1..Len(r.cells) /\ Len(cells) <= Len(r.cells)
    BY <1>1, <2>4
  <2> QED
    BY <2>4, <2>5, <2>6 DEF r
<1>4. CASE b # <<>> /\ ~u.ok
  <2>1. r = [ok |-> FALSE, cells |-> Append(cells, INVALID),
             msg |-> [msg EXCEPT !.tag = Len(cells) + 1], left |-> 0]
    BY <1>4 DEF UnpackInto
  <2>2. /\ r.cells = Append(cells, INVALID) /\ ~r.ok
        /\ r.msg = [msg EXCEPT !.tag = Len(cells) + 1]
    BY <2>1
  <2>3. INVALID \in Byte
    BY DEF INVALID, Byte
  <2>4. /\ r.cells \in Seq(Byte) /\ Len(r.cells) = Len(cells) + 1
        /\ \A i \in 1..Len(cells) : r.cells[i] = cells[i]
    BY <1>1, <2>2, <2>3, AppendProperties
  <2> HIDE DEF r, u
  <2>5. /\ r.msg = [tag |-> r.msg.tag, value |-> r.msg.value]
        /\ r.msg.tag = Len(cells) + 1
    BY <2>2 DEF WireTypeOK
  <2>6. Len(cells) + 1 \in 0..Len(r.cells) /\ Len(cells) <= Len(r.cells)
    BY <1>1, <2>4
  <2> QED
    BY <2>2, <2>4, <2>5, <2>6 DEF r
<1> QED
  BY <1>2, <1>3, <1>4

(* What ProcessMessages gives to Unpack.                                   *)
Content(room) ==
  IF Links[link].prefixed THEN Skip(Block(room), 2) ELSE Block(room)

LEMMA ContentIsBytes ==
  ASSUME WireTypeOK, wire # <<>>, NEW room \in Rooms
  PROVE  Content(room) \in Seq(Byte)
<1>1. wire[1].bytes \in Seq(Byte) /\ room \in Nat
  BY WireAssumption DEF WireTypeOK
<1>2. Block(room) \in Seq(Byte)
  <2>1. CASE Len(wire[1].bytes) <= room
    BY <1>1, <2>1 DEF Block
  <2>2. CASE ~(Len(wire[1].bytes) <= room)
    <3>1. room <= Len(wire[1].bytes)
      BY <1>1, <2>2
    <3> QED
      BY <1>1, <2>2, <3>1, TakeIsBytes DEF Block
  <2> QED
    BY <2>1, <2>2
<1> QED
  BY <1>2, SkipIsBytes DEF Content

LEMMA WireInitInv == WireInit => WireInv /\ ReadBack
<1> SUFFICES ASSUME WireInit PROVE WireInv /\ ReadBack
  OBVIOUS
<1>1. WireTypeOK
  BY EmptySeq DEF WireInit, WireTypeOK
<1>2. CopiesLeadToCells /\ SentIntact /\ ReadBack
  BY DEF WireInit, CopiesLeadToCells, SentIntact, ReadBack
<1> QED
  BY <1>1, <1>2 DEF WireInv

LEMMA WriteInv ==
  ASSUME WireInv, NEW m \in DOMAIN Links[link].union.members,
         NEW k \in Seeds, NEW n \in Lengths, Write(m, k, n)
  PROVE  WireInv'
<1> DEFINE x == Message(link, m, k, n)
           p == PackOf(Una(Links[link].union), x)
<1>1. UNCHANGED <<link, cells, msg, held, got>> /\ wire = <<>>
  BY DEF Write
<1>2. /\ p.ok => wire' = <<[bytes |-> Prefix(link, x) \o p.b,
                            of |-> [member |-> m, k |-> k, n |-> n]]>>
      /\ ~p.ok => wire' = <<>>
  BY DEF Write
<1>3. link \in DOMAIN Links
  BY DEF WireInv, WireTypeOK
<1>4. p.b \in Seq(Byte) /\ Prefix(link, x) \in Seq(Byte)
  BY <1>3, MessageBytes
<1>5. Prefix(link, x) \o p.b \in Seq(Byte)
  BY <1>4, ConcatProperties
<1>6. WireTypeOK'
  <2> DEFINE w == [bytes |-> Prefix(link, x) \o p.b,
                   of |-> [member |-> m, k |-> k, n |-> n]]
  <2>1. wire' = <<w>> \/ wire' = <<>>
    BY <1>2
  <2>2. w.bytes \in Seq(Byte)
    BY <1>5
  <2> HIDE DEF w
  <2>3. wire' # <<>> => wire' = <<wire'[1]>> /\ wire'[1].bytes \in Seq(Byte)
    BY <2>1, <2>2
  <2> QED
    BY <1>1, <2>3 DEF WireInv, WireTypeOK
<1>7. CopiesLeadToCells'
  BY <1>1 DEF WireInv, CopiesLeadToCells
<1>8. SentIntact'
  <2>1. CASE ~p.ok
    BY <1>2, <2>1 DEF SentIntact
  <2>2. CASE p.ok
    <3>1. wire'[1].bytes = Prefix(link, x) \o p.b
      BY <1>2, <2>2
    <3>2. wire'[1].of = [member |-> m, k |-> k, n |-> n]
      BY <1>2, <2>2
    <3> QED
      BY <1>1, <2>2, <3>1, <3>2 DEF SentIntact, Message, Prefix
  <2> QED
    BY <2>1, <2>2
<1> QED
  BY <1>6, <1>7, <1>8 DEF WireInv

LEMMA SendJunkInv ==
  ASSUME WireInv, NEW b \in Junk, SendJunk(b)
  PROVE  WireInv'
<1>1. /\ UNCHANGED <<link, cells, msg, held, got>>
      /\ wire' = <<[bytes |-> b, of |-> NoMessage]>>
  BY DEF SendJunk
<1>2. b \in Seq(Byte)
  BY WireAssumption
<1>3. WireTypeOK'
  BY <1>1, <1>2 DEF WireInv, WireTypeOK
<1>4. CopiesLeadToCells'
  BY <1>1 DEF WireInv, CopiesLeadToCells
<1>5. SentIntact'
  BY <1>1 DEF SentIntact
<1> QED
  BY <1>3, <1>4, <1>5 DEF WireInv

LEMMA ProcessMessagesInv ==
  ASSUME WireInv, NEW room \in Rooms, ProcessMessages(room)
  PROVE  WireInv'
<1> DEFINE r == UnpackInto(Content(room))
           short == Links[link].prefixed /\ Len(Block(room)) < 2
           copy == [copy |-> r.msg, was |-> TagIn(r.msg, r.cells)]
<1>1. /\ wire # <<>> /\ wire' = <<>> /\ link' = link
      /\ cells' = IF short THEN cells ELSE r.cells
      /\ msg' = IF short THEN msg ELSE r.msg
      /\ held' = held \/ (held' = held \union {copy} /\ ~short /\ r.ok)
  BY DEF ProcessMessages, Content
<1>2. /\ r.cells \in Seq(Byte)
      /\ Len(cells) <= Len(r.cells)
      /\ \A i \in 1..Len(cells) : r.cells[i] = cells[i]
      /\ r.msg = [tag |-> r.msg.tag, value |-> r.msg.value]
      /\ r.msg.tag \in 0..Len(r.cells)
      /\ r.ok => r.msg.tag \in 1..Len(r.cells)
  BY <1>1, ContentIsBytes, UnpackKeepsCells DEF WireInv
<1> HIDE DEF r, short
<1>3. WireTypeOK'
  BY <1>1, <1>2 DEF WireInv, WireTypeOK
<1>4. Len(cells) \in Nat /\ Len(r.cells) \in Nat
  BY <1>2 DEF WireInv, WireTypeOK
<1>5. /\ Len(cells) <= Len(cells')
      /\ \A i \in 1..Len(cells) : cells'[i] = cells[i]
  BY <1>1, <1>2, <1>4
<1>6. CopiesLeadToCells'
  <2> SUFFICES ASSUME NEW h \in held'
               PROVE  /\ h.copy.tag \in 1..Len(cells')
                      /\ cells'[h.copy.tag] = h.was
    BY DEF CopiesLeadToCells
  <2>1. CASE h \in held
    <3>1. h.copy.tag \in 1..Len(cells) /\ cells[h.copy.tag] = h.was
      BY <2>1 DEF WireInv, CopiesLeadToCells
    <3>2. Len(cells') \in Nat
      BY <1>1, <1>4
    <3> QED
      BY <1>4, <1>5, <3>1, <3>2
  <2>2. CASE h \notin held
    <3>1. h = copy /\ ~short /\ r.ok
      BY <1>1, <2>2
    <3>2. h.copy = r.msg /\ h.was = TagIn(r.msg, r.cells)
      BY <3>1
    <3>3. r.msg.tag \in 1..Len(r.cells) /\ r.msg.tag # 0
      BY <1>2, <1>4, <3>1
    <3>4. h.was = r.cells[r.msg.tag] /\ cells' = r.cells
      BY <1>1, <3>1, <3>2, <3>3 DEF TagIn
    <3> QED
      BY <3>2, <3>3, <3>4
  <2> QED
    BY <2>1, <2>2
<1>7. SentIntact'
  BY <1>1 DEF SentIntact
<1> QED
  BY <1>3, <1>6, <1>7 DEF WireInv

LEMMA WireStepInv == WireInv /\ [WireNext]_wireVars => WireInv'
<1> SUFFICES ASSUME WireInv, [WireNext]_wireVars PROVE WireInv'
  OBVIOUS
<1>1. CASE UNCHANGED wireVars
  <2>1. UNCHANGED <<link, wire, cells, msg, held>>
    BY <1>1 DEF wireVars
  <2>2. WireTypeOK'
    BY <2>1 DEF WireInv, WireTypeOK
  <2>3. CopiesLeadToCells'
    BY <2>1 DEF WireInv, CopiesLeadToCells
  <2>4. SentIntact'
    <3>1. SentIntact /\ link' = link /\ wire' = wire
      BY <2>1 DEF WireInv
    <3> QED
      BY <3>1 DEF SentIntact
  <2> QED
    BY <2>2, <2>3, <2>4 DEF WireInv
<1>2. ASSUME NEW m \in DOMAIN Links[link].union.members, NEW k \in Seeds,
             NEW n \in Lengths, Write(m, k, n)
      PROVE WireInv'
  BY <1>2, WriteInv
<1>3. ASSUME NEW b \in Junk, SendJunk(b) PROVE WireInv'
  BY <1>3, SendJunkInv
<1>4. ASSUME NEW room \in Rooms, ProcessMessages(room) PROVE WireInv'
  BY <1>4, ProcessMessagesInv
<1> QED
  BY <1>1, <1>2, <1>3, <1>4 DEF WireNext

LEMMA WireInvariance == WireSpec => []WireInv
  BY WireInitInv, WireStepInv, PTL DEF WireSpec

(***************************************************************************)
(* For any flows and codec: a listener's copy of a message keeps its tag   *)
(* although the loop unpacks the next datagrams into the same variable,    *)
(* because every Unpack that reads a tag allocates a cell for it.          *)
(***************************************************************************)
THEOREM CopiesKeepTheirTag == WireSpec => []CopyKeepsTag
<1>1. WireInv => CopyKeepsTag
  <2> SUFFICES ASSUME WireInv, NEW h \in held
               PROVE  TagIn(h.copy, cells) = h.was
    BY DEF CopyKeepsTag
  <2>1. h.copy.tag \in 1..Len(cells) /\ cells[h.copy.tag] = h.was
    BY DEF WireInv, CopiesLeadToCells
  <2>2. h.copy.tag # 0
    BY <2>1
  <2> QED
    BY <2>1, <2>2 DEF TagIn
<1> QED
  BY <1>1, WireInvariance, PTL

(***************************************************************************)
(* One datagram that Write has made, read in a buffer of any size.         *)
(***************************************************************************)
LEMMA WholeIsRead ==
  ASSUME RoundTrips, WireInv, NEW room \in Rooms, ProcessMessages(room),
         NEW m \in DOMAIN Links[link].union.members, NEW k \in Seeds,
         NEW n \in Lengths,
         PackOf(Una(Links[link].union), Message(link, m, k, n)).ok,
         wire[1].bytes = Prefix(link, Message(link, m, k, n)) \o
           PackOf(Una(Links[link].union), Message(link, m, k, n)).b,
         Len(wire[1].bytes) <= room
  PROVE  /\ got' = [what |-> "message", of |-> wire[1].of, left |-> 0,
                    cut |-> FALSE]
         /\ TagIn(msg', cells') = Message(link, m, k, n).tag
         /\ msg'.value = Message(link, m, k, n).value
<1> DEFINE x == Message(link, m, k, n)
           type == Una(Links[link].union)
           b == PackOf(type, x).b
           pre == Prefix(link, x)
           r == UnpackInto(Content(room))
<1>1. link \in DOMAIN Links /\ cells \in Seq(Byte) /\ Len(cells) \in Nat
  BY DEF WireInv, WireTypeOK
<1>2. /\ b \in Seq(Byte) /\ pre \in Seq(Byte)
      /\ Len(pre) = IF Links[link].prefixed THEN 2 ELSE 0
  BY <1>1, MessageBytes
<1>3. b # <<>> /\ b[1] = x.tag /\ UnpackOf(type, b) = Read(x, <<>>)
  BY <1>1 DEF RoundTrips
<1>4. /\ Content(room) = b
      /\ ~(Links[link].prefixed /\ Len(Block(room)) < 2)
  <2>1. Block(room) = pre \o b
    BY DEF Block
  <2>2. CASE Links[link].prefixed
    <3>1. Len(pre) = 2
      BY <1>2, <2>2
    <3>2. Skip(pre \o b, 2) = b
      BY <1>2, <3>1, SkipFirst
    <3>3. ~(Len(pre \o b) < 2)
      <4> HIDE DEF b, pre
      <4>1. pre \o b \in Seq(Byte) /\ Len(pre \o b) = Len(pre) + Len(b)
        BY <1>2, ConcatProperties
      <4>2. Len(b) \in Nat
        BY <1>2
      <4> QED
        BY <3>1, <4>1, <4>2
    <3> QED
      BY <2>1, <2>2, <3>2, <3>3 DEF Content
  <2>3. CASE ~Links[link].prefixed
    <3>1. pre = <<>>
      BY <2>3 DEF Prefix
    <3>2. pre \o b = b
      BY <1>2, <3>1, ConcatEmptySeq
    <3> QED
      BY <2>1, <2>3, <3>2 DEF Content
  <2> QED
    BY <2>2, <2>3
<1>5. r = [ok |-> TRUE, cells |-> Append(cells, b[1]),
           msg |-> [tag |-> Len(cells) + 1, value |-> x.value], left |-> 0]
  <2>1. /\ UnpackOf(type, b).ok /\ UnpackOf(type, b).v = x
        /\ Len(UnpackOf(type, b).rest) = 0
    BY <1>3, EmptySeq DEF Read
  <2> HIDE DEF x, b
  <2> QED
    BY <1>3, <1>4, <2>1 DEF UnpackInto
<1>6. ~(Len(wire[1].bytes) > room)
  BY <1>1, WireAssumption DEF ProcessMessages, WireInv, WireTypeOK
<1>7. /\ got' = [what |-> "message", of |-> wire[1].of, left |-> 0,
                 cut |-> FALSE]
      /\ cells' = r.cells /\ msg' = r.msg
  <2>1. LET done == ~(Links[link].prefixed /\ Len(Block(room)) < 2) /\ r.ok
        IN  /\ got' = [what |-> IF done THEN "message" ELSE "skipped",
                       of |-> wire[1].of, left |-> IF done THEN r.left ELSE 0,
                       cut |-> Len(wire[1].bytes) > room]
            /\ cells' = IF Links[link].prefixed /\ Len(Block(room)) < 2
                        THEN cells ELSE r.cells
            /\ msg' = IF Links[link].prefixed /\ Len(Block(room)) < 2
                      THEN msg ELSE r.msg
    BY DEF ProcessMessages, Content
  <2>2. r.ok /\ r.left = 0
    BY <1>5
  <2> HIDE DEF r
  <2>3. cells' = r.cells /\ msg' = r.msg
    BY <1>4, <2>1
  <2>4. got' = [what |-> "message", of |-> wire[1].of, left |-> r.left,
                cut |-> Len(wire[1].bytes) > room]
    BY <1>4, <2>1, <2>2
  <2>5. (Len(wire[1].bytes) > room) = FALSE
    BY <1>6
  <2> QED
    BY <2>2, <2>3, <2>4, <2>5
<1>8. b[1] \in Byte
  <2>1. Len(b) \in Nat \ {0}
    BY <1>2, <1>3, EmptySeq
  <2> QED
    BY <1>2, <2>1, ElementOfSeq
<1>9. /\ cells' = Append(cells, b[1])
      /\ msg' = [tag |-> Len(cells) + 1, value |-> x.value]
  BY <1>5, <1>7
<1> HIDE DEF x, b
<1>10. cells'[Len(cells) + 1] = x.tag
  BY <1>1, <1>3, <1>8, <1>9, AppendProperties
<1>11. msg'.tag = Len(cells) + 1 /\ msg'.value = x.value /\ msg'.tag # 0
  BY <1>1, <1>9
<1>12. TagIn(msg', cells') = x.tag
  BY <1>10, <1>11 DEF TagIn
<1> QED
  BY <1>7, <1>11, <1>12 DEF x

LEMMA CutIsSkipped ==
  ASSUME RoundTrips, WireInv, NEW room \in Rooms, ProcessMessages(room),
         NEW m \in DOMAIN Links[link].union.members, NEW k \in Seeds,
         NEW n \in Lengths,
         PackOf(Una(Links[link].union), Message(link, m, k, n)).ok,
         wire[1].bytes = Prefix(link, Message(link, m, k, n)) \o
           PackOf(Una(Links[link].union), Message(link, m, k, n)).b,
         Len(wire[1].bytes) > room
  PROVE  got'.what = "skipped"
<1> DEFINE x == Message(link, m, k, n)
           type == Una(Links[link].union)
           b == PackOf(type, x).b
           pre == Prefix(link, x)
           r == UnpackInto(Content(room))
           short == Links[link].prefixed /\ Len(Block(room)) < 2
<1>1. link \in DOMAIN Links /\ room \in Nat
  BY WireAssumption DEF WireInv, WireTypeOK
<1>2. /\ b \in Seq(Byte) /\ pre \in Seq(Byte)
      /\ Len(pre) = IF Links[link].prefixed THEN 2 ELSE 0
  BY <1>1, MessageBytes
<1>3. \A i \in 1..(Len(b) - 1) : ~UnpackOf(type, Take(b, i)).ok
  BY <1>1 DEF RoundTrips
<1>4. got'.what = IF ~short /\ r.ok THEN "message" ELSE "skipped"
  BY DEF ProcessMessages, Content
<1>5. /\ pre \o b \in Seq(Byte) /\ Len(pre \o b) = Len(pre) + Len(b)
      /\ wire[1].bytes = pre \o b /\ Len(b) \in Nat /\ Len(pre) \in Nat
  <2>1. wire[1].bytes = pre \o b
    OBVIOUS
  <2> HIDE DEF b, pre
  <2>2. b \in Seq(Byte) /\ pre \in Seq(Byte)
    BY <1>2
  <2>3. pre \o b \in Seq(Byte) /\ Len(pre \o b) = Len(pre) + Len(b)
    BY <2>2, FirstOfConcat
  <2>4. Len(b) \in Nat /\ Len(pre) \in Nat
    BY <2>2
  <2> QED
    BY <2>1, <2>3, <2>4
<1>6. Block(room) = Take(pre \o b, room) /\ Len(Block(room)) = room
  <2>1. ~(Len(pre \o b) <= room) /\ room <= Len(pre \o b)
    BY <1>1, <1>5
  <2>2. Block(room) = Take(pre \o b, room)
    BY <1>5, <2>1 DEF Block
  <2> QED
    BY <1>1, <1>5, <2>1, <2>2, TakeIsBytes
<1>7. ASSUME ~short
      PROVE  /\ Len(pre) <= room /\ room - Len(pre) \in 0..(Len(b) - 1)
             /\ Content(room) = Take(b, room - Len(pre))
  <2>1. CASE Links[link].prefixed
    <3>1. Len(pre) = 2 /\ room >= 2
      BY <1>1, <1>2, <1>6, <1>7, <2>1
    <3>2. Skip(Take(pre \o b, room), Len(pre)) = Take(b, room - Len(pre))
      <4>1. Len(pre) <= room /\ room < Len(pre) + Len(b)
        BY <1>1, <1>5, <3>1
      <4> HIDE DEF b, pre
      <4> QED
        BY <1>1, <1>2, <4>1, SkipOfCut
    <3> QED
      BY <1>1, <1>5, <1>6, <2>1, <3>1, <3>2 DEF Content
  <2>2. CASE ~Links[link].prefixed
    <3>1. pre = <<>> /\ Len(pre) = 0
      BY <1>2, <2>2 DEF Prefix
    <3>2. pre \o b = b
      BY <1>2, <3>1, ConcatEmptySeq
    <3>3. room - Len(pre) = room
      BY <1>1, <3>1
    <3>4. Content(room) = Take(b, room)
      BY <1>6, <2>2, <3>2 DEF Content
    <3> QED
      BY <1>1, <1>5, <3>1, <3>3, <3>4
  <2> QED
    BY <2>1, <2>2
<1>8. ASSUME ~short PROVE ~r.ok
  <2> DEFINE i == room - Len(pre)
  <2>1. i \in 0..(Len(b) - 1) /\ Content(room) = Take(b, i)
    BY <1>7, <1>8
  <2>2. CASE i = 0
    <3>1. Take(b, 0) = <<>>
      BY SubSeqEmpty DEF Take
    <3>2. Content(room) = <<>>
      BY <2>1, <2>2, <3>1
    <3> QED
      BY <3>2 DEF UnpackInto
  <2>3. CASE i # 0
    <3>1. i \in 1..(Len(b) - 1)
      BY <1>5, <2>1, <2>3
    <3>2. ~UnpackOf(type, Content(room)).ok
      BY <1>3, <2>1, <3>1
    <3> QED
      BY <3>2 DEF UnpackInto
  <2> QED
    BY <2>2, <2>3
<1> HIDE DEF r, short
<1> QED
  BY <1>4, <1>8

(***************************************************************************)
(* For any flows and a codec that reads its own messages: what Write sends *)
(* is read back whole as that message, or, in a buffer that is too small,  *)
(* skipped, whatever the loop's variable held before.                      *)
(***************************************************************************)
THEOREM MessagesReadBack ==
  ASSUME RoundTrips PROVE WireSpec => []ReadBack
<1>1. ASSUME WireInv, ReadBack, NEW room \in Rooms, ProcessMessages(room)
      PROVE  ReadBack'
  <2>1. /\ wire # <<>> /\ link' = link /\ got'.of = wire[1].of
        /\ got'.cut = (Len(wire[1].bytes) > room)
    BY <1>1 DEF ProcessMessages
  <2> SUFFICES ASSUME got'.of # NoMessage
               PROVE  LET u == Links[link].union
                          y == [tag |-> TagIn(msg', cells'),
                                value |-> msg'.value]
                      IN  IF got'.cut THEN got'.what = "skipped"
                          ELSE /\ got'.what = "message"
                               /\ y = Message(link, got'.of.member, got'.of.k,
                                              got'.of.n)
                               /\ got'.left = 0
                               /\ Get(u, got'.of.member, y) = "value"
    BY <2>1 DEF ReadBack, Message
  <2>2. PICK m \in DOMAIN Links[link].union.members, k \in Seeds, n \in Lengths :
          LET x == Message(link, m, k, n)
              p == PackOf(Una(Links[link].union), x)
          IN  /\ p.ok
              /\ wire[1].of = [member |-> m, k |-> k, n |-> n]
              /\ wire[1].bytes = Prefix(link, x) \o p.b
    BY <1>1, <2>1 DEF WireInv, SentIntact
  <2> DEFINE x == Message(link, m, k, n)
  <2>3. CASE Len(wire[1].bytes) > room
    <3>1. got'.what = "skipped"
      BY <1>1, <2>2, <2>3, CutIsSkipped
    <3> QED
      BY <2>1, <2>3, <3>1
  <2>4. CASE ~(Len(wire[1].bytes) > room)
    <3>1. Len(wire[1].bytes) <= room
      BY <1>1, <2>1, <2>4, WireAssumption DEF WireInv, WireTypeOK
    <3>2. /\ got'.what = "message" /\ got'.left = 0
          /\ TagIn(msg', cells') = x.tag /\ msg'.value = x.value
      <4>1. /\ got' = [what |-> "message", of |-> wire[1].of, left |-> 0,
                       cut |-> FALSE]
            /\ TagIn(msg', cells') = x.tag /\ msg'.value = x.value
        <5> HIDE DEF ReadBack
        <5> QED
          BY <1>1, <2>2, <3>1, WholeIsRead
      <4> QED
        BY <4>1
    <3>3. got'.of.member = m /\ got'.of.k = k /\ got'.of.n = n
      BY <2>1, <2>2
    <3>4. /\ [tag |-> TagIn(msg', cells'), value |-> msg'.value] = x
          /\ x.tag = Links[link].union.tag[m]
          /\ x.value.name = Links[link].union.members[m].name
      BY <3>2 DEF Message, With
    <3>5. Get(Links[link].union, m, x) = "value"
      BY <3>4 DEF Get
    <3> HIDE DEF x
    <3> QED
      BY <2>1, <2>4, <3>2, <3>3, <3>4, <3>5 DEF x
  <2> QED
    BY <2>3, <2>4
<1>2. ASSUME UNCHANGED <<link, cells, msg, got>>, ReadBack PROVE ReadBack'
  BY <1>2 DEF ReadBack, Message
<1>3. WireInv /\ ReadBack /\ [WireNext]_wireVars => ReadBack'
  BY <1>1, <1>2 DEF WireNext, Write, SendJunk, wireVars
<1> QED
  BY <1>3, WireInitInv, WireInvariance, PTL DEF WireSpec

LEMMA ConcatBytes ==
  ASSUME NEW a \in Seq(Byte), NEW b \in Seq(Byte), NEW c \in Seq(Byte)
  PROVE  (a \o b) \o c = a \o (b \o c)
  BY ConcatAssociative

LEMMA TakeFirst ==
  ASSUME NEW a \in Seq(Byte), NEW b \in Seq(Byte)
  PROVE  Take(a \o b, Len(a)) = a
<1>1. CASE a = <<>>
  <2>1. Len(a) = 0
    BY <1>1, EmptySeq
  <2>2. SubSeq(a \o b, 1, 0) = <<>>
    BY SubSeqEmpty
  <2> QED
    BY <1>1, <2>1, <2>2 DEF Take
<1>2. CASE a # <<>>
  <2>1. Len(a) \in Nat \ {0}
    BY <1>2, EmptySeq
  <2>2. 1 \in 1..Len(a) /\ Len(a) \in 1..Len(a)
    BY <2>1
  <2> QED
    BY <2>2, SubSeqOfConcat1, SubSeqFull DEF Take
<1> QED
  BY <1>1, <1>2

(***************************************************************************)
(* What a field owes to the fields after it: v is read back from what it   *)
(* was packed into, whatever follows, and is refused when that is cut.     *)
(***************************************************************************)
ReadsBack(p, v, Unpack(_)) ==
  /\ \A rest \in Seq(Byte) : Unpack(p.b \o rest) = Read(v, rest)
  /\ \A i \in 0..(Len(p.b) - 1) : ~Unpack(Take(p.b, i)).ok

(* A number of w bytes, here: up to four of them are not zero.             *)
Limit(w) == IF w = 1 THEN 256 ELSE IF w = 2 THEN 65536 ELSE 4294967296

LEMMA NumberRead ==
  ASSUME NEW w \in {1, 2, 4, 8}, NEW n \in Nat, n < Limit(w),
         NEW rest \in Seq(Byte)
  PROVE  UnpackNumber(w, LittleEndian(w, n) \o rest) = Read(n, rest)
<1> DEFINE e == LittleEndian(w, n)
<1>1. w \in Nat /\ n \in Nat
  OBVIOUS
<1>2. /\ e \in Seq(Byte) /\ Len(e) = w
      /\ \A i \in 1..w : e[i] = IF i > 4 THEN 0 ELSE (n \div Weight[i]) % 256
  BY <1>1, LittleEndianBytes
<1> HIDE DEF e
<1>3. FromBytes(e) =
        (IF 1 > w THEN 0 ELSE e[1] * 1) + (IF 2 > w THEN 0 ELSE e[2] * 256)
        + (IF 3 > w THEN 0 ELSE e[3] * 65536)
        + (IF 4 > w THEN 0 ELSE e[4] * 16777216)
  BY <1>2, SMT DEF FromBytes, Weight
<1>4. FromBytes(e) = n
  <2>1. CASE w = 1
    <3>1. e[1] = n % 256
      BY <1>1, <1>2, <2>1, SMT DEF Weight
    <3>2. n < 256
      BY <2>1, SMT DEF Limit
    <3>3. n % 256 = n
      BY <3>2, SMT
    <3> QED
      BY <1>1, <1>3, <2>1, <3>1, <3>3, SMT
  <2>2. CASE w = 2
    <3>1. e[1] = n % 256 /\ e[2] = (n \div 256) % 256
      BY <1>1, <1>2, <2>2, SMT DEF Weight
    <3>2. n < 65536
      BY <2>2, SMT DEF Limit
    <3>3. (n % 256) + ((n \div 256) % 256) * 256 = n
      BY <3>2, SMT
    <3> QED
      BY <1>1, <1>3, <2>2, <3>1, <3>3, SMT
  <2>3. CASE w \in {4, 8}
    <3>1. /\ e[1] = n % 256 /\ e[2] = (n \div 256) % 256
          /\ e[3] = (n \div 65536) % 256 /\ e[4] = (n \div 16777216) % 256
      BY <1>1, <1>2, <2>3, SMT DEF Weight
    <3>2. n < 4294967296
      BY <2>3, SMT DEF Limit
    <3>3. (n % 256) + ((n \div 256) % 256) * 256
          + ((n \div 65536) % 256) * 65536
          + ((n \div 16777216) % 256) * 16777216 = n
      BY <3>2, SMT
    <3>4. FromBytes(e) = e[1] * 1 + e[2] * 256 + e[3] * 65536 + e[4] * 16777216
      BY <1>3, <2>3, SMT
    <3>5. (n % 256) * 1 = n % 256
      BY <1>1
    <3> QED
      BY <3>1, <3>3, <3>4, <3>5, SMT
  <2> QED
    BY <2>1, <2>2, <2>3
<1>5. /\ Take(e \o rest, w) = e /\ Skip(e \o rest, w) = rest
      /\ Len(e \o rest) = w + Len(rest)
  BY <1>2, TakeFirst, SkipFirst, FirstOfConcat
<1>6. ~(Len(e \o rest) < w)
  BY <1>1, <1>5
<1> QED
  BY <1>4, <1>5, <1>6 DEF UnpackNumber, Read, e

(***************************************************************************)
(* A number, an enum or a float is read back as it was written, and the    *)
(* rest of the buffer is left for the next field.                          *)
(***************************************************************************)
THEOREM NumberReadBack ==
  ASSUME NEW w \in {1, 2, 4, 8}, NEW n \in Nat, n < Limit(w)
  PROVE  ReadsBack(Packed(LittleEndian(w, n)), n, LAMBDA b : UnpackNumber(w, b))
<1> DEFINE e == LittleEndian(w, n)
<1>1. w \in Nat
  OBVIOUS
<1>2. e \in Seq(Byte) /\ Len(e) = w
  BY <1>1, LittleEndianBytes
<1>3. \A rest \in Seq(Byte) : UnpackNumber(w, e \o rest) = Read(n, rest)
  BY NumberRead
<1> HIDE DEF e
<1>4. ASSUME NEW i \in 0..(Len(e) - 1) PROVE ~UnpackNumber(w, Take(e, i)).ok
  <2>1. i \in Nat /\ i <= Len(e) /\ i < w
    BY <1>1, <1>2
  <2>2. Len(Take(e, i)) = i
    BY <1>2, <2>1, TakeIsBytes
  <2> QED
    BY <2>1, <2>2 DEF UnpackNumber, Refused
<1>5. Packed(e).b = e
  BY DEF Packed
<1> QED
  BY <1>3, <1>4, <1>5 DEF ReadsBack, e

(***************************************************************************)
(* A string that its length field can count is read back to the last byte, *)
(* and is refused when any of its bytes, or of its length's, are missing.  *)
(***************************************************************************)
PackedString(lw, s) == LittleEndian(lw, Len(s)) \o s

ReadString(lw, b) ==
  AndThen(UnpackNumber(lw, b), LAMBDA l : UnpackString(l.v, l.rest))

THEOREM StringReadBack ==
  ASSUME NEW lw \in {1, 2, 4, 8}, NEW s \in Seq(Byte), Len(s) < Limit(lw)
  PROVE  ReadsBack(Packed(PackedString(lw, s)), s, LAMBDA b : ReadString(lw, b))
<1> DEFINE e == LittleEndian(lw, Len(s))
<1>1. lw \in Nat /\ Len(s) \in Nat
  OBVIOUS
<1>2. e \in Seq(Byte) /\ Len(e) = lw
  BY <1>1, LittleEndianBytes
<1>3. \A t \in Seq(Byte) : UnpackNumber(lw, e \o t) = Read(Len(s), t)
  BY NumberRead
<1> HIDE DEF e
<1>4. ASSUME NEW rest \in Seq(Byte)
      PROVE  ReadString(lw, PackedString(lw, s) \o rest) = Read(s, rest)
  <2>1. (e \o s) \o rest = e \o (s \o rest)
    BY <1>2, ConcatBytes
  <2>2. s \o rest \in Seq(Byte) /\ Len(s \o rest) = Len(s) + Len(rest)
    BY FirstOfConcat
  <2>3. UnpackNumber(lw, PackedString(lw, s) \o rest) = Read(Len(s), s \o rest)
    BY <1>3, <2>1, <2>2 DEF PackedString, e
  <2>4. Take(s \o rest, Len(s)) = s /\ Skip(s \o rest, Len(s)) = rest
    BY TakeFirst, SkipFirst
  <2>5. UnpackString(Len(s), s \o rest) = Read(s, rest)
    <3>1. ~(Len(s \o rest) < Len(s))
      BY <1>1, <2>2
    <3> QED
      BY <2>4, <3>1 DEF UnpackString
  <2> QED
    BY <2>3, <2>5 DEF ReadString, AndThen, Read
<1>5. ASSUME NEW i \in 0..(lw + Len(s) - 1)
      PROVE  ~ReadString(lw, Take(PackedString(lw, s), i)).ok
  <2> DEFINE t == Take(e \o s, i)
  <2>1. i \in Nat /\ i < lw + Len(s)
    BY <1>1
  <2>2. e \o s \in Seq(Byte) /\ Len(e \o s) = lw + Len(s)
    BY <1>2, FirstOfConcat
  <2>3. t \in Seq(Byte) /\ Len(t) = i
    <3>1. i <= Len(e \o s)
      BY <1>1, <2>1, <2>2
    <3> QED
      BY <2>1, <2>2, <3>1, TakeIsBytes
  <2>4. PackedString(lw, s) = e \o s
    BY DEF PackedString, e
  <2>5. CASE i < lw
    <3>1. UnpackNumber(lw, t) = Refused
      BY <2>3, <2>5 DEF UnpackNumber
    <3> QED
      BY <2>4, <3>1 DEF ReadString, AndThen, Refused
  <2>6. CASE lw <= i
    <3> DEFINE c == Take(s, i - lw)
    <3>1. i - lw \in Nat /\ i - lw < Len(s)
      BY <1>1, <2>1, <2>6
    <3>2. c \in Seq(Byte) /\ Len(c) = i - lw
      BY <1>1, <3>1, TakeIsBytes
    <3>3. t = e \o c
      <4>1. Len(e) <= i /\ i <= Len(e) + Len(s)
        BY <1>1, <1>2, <2>1, <2>6
      <4>2. Take(e \o s, i) = e \o Take(s, i - Len(e))
        BY <1>2, <2>1, <4>1, TakeOfConcat
      <4> QED
        BY <1>2, <4>2
    <3>4. UnpackNumber(lw, t) = Read(Len(s), c)
      BY <1>3, <3>2, <3>3
    <3>5. UnpackString(Len(s), c) = Refused
      BY <3>1, <3>2 DEF UnpackString
    <3> QED
      BY <2>4, <3>4, <3>5 DEF ReadString, AndThen, Read, Refused
  <2> QED
    BY <1>1, <2>1, <2>5, <2>6
<1>6. Packed(PackedString(lw, s)).b = PackedString(lw, s)
  BY DEF Packed
<1>7. Len(PackedString(lw, s)) = lw + Len(s)
  BY <1>2, FirstOfConcat DEF PackedString, e
<1> QED
  BY <1>4, <1>5, <1>6, <1>7 DEF ReadsBack

LEMMA TakeWithinFirst ==
  ASSUME NEW a \in Seq(Byte), NEW b \in Seq(Byte), NEW n \in Nat, n <= Len(a)
  PROVE  Take(a \o b, n) = Take(a, n)
<1>1. CASE n = 0
  <2>1. SubSeq(a \o b, 1, 0) = <<>> /\ SubSeq(a, 1, 0) = <<>>
    BY SubSeqEmpty
  <2> QED
    BY <1>1, <2>1 DEF Take
<1>2. CASE n # 0
  <2>1. 1 \in 1..Len(a) /\ n \in 1..Len(a)
    BY <1>2
  <2> QED
    BY <2>1, SubSeqOfConcat1 DEF Take
<1> QED
  BY <1>1, <1>2

(***************************************************************************)
(* Two fields one after the other, as Pack and Unpack of a structure go    *)
(* through them: when each is read back from what it was packed into, and  *)
(* refused when that is cut short, so are both together. It is the step    *)
(* that the recursion over a table repeats.                                *)
(***************************************************************************)
ThenRead(b, UnpackA(_), UnpackB(_)) ==
  AndThen(UnpackA(b), LAMBDA r :
    AndThen(UnpackB(r.rest), LAMBDA s : Read(<<r.v, s.v>>, s.rest)))

THEOREM FieldsReadBack ==
  ASSUME NEW p, NEW q, NEW v, NEW w, NEW UnpackA(_), NEW UnpackB(_),
         p.b \in Seq(Byte), q.b \in Seq(Byte), Then(p, q).ok,
         ReadsBack(p, v, UnpackA), ReadsBack(q, w, UnpackB)
  PROVE  ReadsBack(Then(p, q), <<v, w>>, LAMBDA b : ThenRead(b, UnpackA, UnpackB))
<1> DEFINE a == p.b
           c == q.b
<1>1. Then(p, q).b = a \o c
  BY DEF Then, Packed, Failed
<1>2. /\ a \in Seq(Byte) /\ c \in Seq(Byte)
      /\ Len(a) \in Nat /\ Len(c) \in Nat
  OBVIOUS
<1>3. \A rest \in Seq(Byte) : (a \o c) \o rest = a \o (c \o rest)
  <2>1. \A x, y, z \in Seq(Byte) : (x \o y) \o z = x \o (y \o z)
    BY ConcatBytes
  <2> QED
    BY <2>1, Zenon
<1>4. /\ \A rest \in Seq(Byte) : UnpackA(a \o rest) = Read(v, rest)
      /\ \A i \in 0..(Len(a) - 1) : ~UnpackA(Take(a, i)).ok
  BY DEF ReadsBack
<1>5. /\ \A rest \in Seq(Byte) : UnpackB(c \o rest) = Read(w, rest)
      /\ \A i \in 0..(Len(c) - 1) : ~UnpackB(Take(c, i)).ok
  BY DEF ReadsBack
<1> HIDE DEF a, c
<1>6. ASSUME NEW rest \in Seq(Byte)
      PROVE  ThenRead((a \o c) \o rest, UnpackA, UnpackB) = Read(<<v, w>>, rest)
  <2>1. (a \o c) \o rest = a \o (c \o rest)
    BY <1>3, <1>6
  <2>2. c \o rest \in Seq(Byte)
    BY <1>2, FirstOfConcat
  <2>3. UnpackA((a \o c) \o rest) = Read(v, c \o rest)
    BY <1>4, <2>1, <2>2
  <2>4. UnpackB(c \o rest) = Read(w, rest)
    BY <1>5
  <2> DEFINE r == UnpackA((a \o c) \o rest)
             s == UnpackB(c \o rest)
  <2>5. r.ok /\ r.v = v /\ r.rest = c \o rest
    BY <2>3 DEF Read
  <2>6. s.ok /\ s.v = w /\ s.rest = rest
    BY <2>4 DEF Read
  <2>7. ThenRead((a \o c) \o rest, UnpackA, UnpackB) =
          AndThen(UnpackB(r.rest), LAMBDA y : Read(<<r.v, y.v>>, y.rest))
    BY <2>5 DEF ThenRead, AndThen
  <2>8. UnpackB(r.rest) = s
    BY <2>5
  <2> HIDE DEF r, s
  <2> QED
    BY <2>5, <2>6, <2>7, <2>8 DEF AndThen
<1>7. ASSUME NEW i \in 0..(Len(a \o c) - 1)
      PROVE  ~ThenRead(Take(a \o c, i), UnpackA, UnpackB).ok
  <2>1. Len(a \o c) = Len(a) + Len(c)
    BY <1>2, FirstOfConcat
  <2>2. i \in Nat /\ i < Len(a) + Len(c)
    BY <1>2, <2>1
  <2>3. CASE i < Len(a)
    <3>1. i <= Len(a) /\ i \in 0..(Len(a) - 1)
      BY <1>2, <2>2, <2>3
    <3>2. Take(a \o c, i) = Take(a, i)
      BY <1>2, <2>2, <3>1, TakeWithinFirst
    <3>3. ~UnpackA(Take(a \o c, i)).ok
      BY <1>4, <3>1, <3>2
    <3> QED
      BY <3>3 DEF ThenRead, AndThen, Refused
  <2>4. CASE Len(a) <= i
    <3> DEFINE t == Take(c, i - Len(a))
    <3>1. /\ i - Len(a) \in 0..(Len(c) - 1) /\ i - Len(a) \in Nat
          /\ i - Len(a) <= Len(c) /\ i <= Len(a) + Len(c)
      BY <1>2, <2>2, <2>4
    <3>2. Take(a \o c, i) = a \o t
      BY <1>2, <2>2, <2>4, <3>1, TakeOfConcat
    <3>3. t \in Seq(Byte)
      BY <1>2, <3>1, TakeIsBytes
    <3>4. ~UnpackB(t).ok
      BY <1>5, <3>1
    <3> HIDE DEF t
    <3>5. UnpackA(Take(a \o c, i)) = Read(v, t)
      BY <1>4, <3>2, <3>3
    <3> QED
      BY <3>4, <3>5 DEF ThenRead, AndThen, Read, Refused
  <2> QED
    BY <1>2, <2>2, <2>3, <2>4
<1> QED
  BY <1>1, <1>6, <1>7 DEF ReadsBack
=============================================================================
