----------------------------- MODULE IpcManager -----------------------------
(***************************************************************************)
(* The listener registry of vic-gateway (cloud/ipc_manager.go).  Its three *)
(* managers (protobuf and CLAD to the engine, CLAD to switchboard) carry   *)
(* the same code: RPC handlers register a channel under a message tag, the *)
(* goroutine that reads the socket broadcasts each message to the channels *)
(* of its tag, and one RWMutex guards the map.                             *)
(*                                                                         *)
(* SendToListeners holds the read lock while one goroutine per listener    *)
(* tries for 250 ms to send.  Two threads may be in it at once: CLAD       *)
(* events are forwarded to the listeners of the protobuf manager.  The     *)
(* critical sections under the write lock never wait, so each is one step, *)
(* taken when no sender holds the read lock.                               *)
(***************************************************************************)
EXTENDS Naturals, FiniteSets

CONSTANTS Tag,       \* message types
          Listener,  \* calls of RPC handlers, each with the channel it makes
          Sender,    \* threads that call SendToListeners
          TagOf,     \* the tag a handler listens for
          Unique,    \* handlers that use CreateUniqueChannel
          NumChan,   \* capacity of a listener's channel (numChannels)
          MarkCap    \* capacity of markedForDelete (5 in the code)

ASSUME RegistryAssumption ==
  /\ TagOf \in [Listener -> Tag]
  /\ Unique \subseteq Listener
  /\ IsFiniteSet(Sender)
  /\ NumChan \in Nat \ {0}
  /\ MarkCap \in Nat \ {0}

VARIABLES
  keys,      \* the tags present in managedChannels
  managed,   \* managedChannels: the listeners of a tag
  chan,      \* a listener's channel: not made yet, open or closed
  buf,       \* messages waiting in it
  handler,   \* where the RPC handler is
  sender,    \* where the sending thread is
  todo,      \* its goroutines that still try to send
  marked,    \* listeners in its markedForDelete
  stuck,     \* its goroutines that wait for room in markedForDelete
  panicked   \* a send on, or a second close of, a closed channel

vars == <<keys, managed, chan, buf, handler, sender, todo, marked, stuck,
          panicked>>

TypeOK ==
  /\ keys \in SUBSET Tag
  /\ managed \in [Tag -> SUBSET Listener]
  /\ chan \in [Listener -> {"none", "open", "closed"}]
  /\ buf \in [Listener -> 0..NumChan]
  /\ handler \in [Listener ->
                    {"idle", "checked", "listening", "leaving", "ended"}]
  /\ sender \in [Sender -> {"idle", "send", "cleanup", "locking"}]
  /\ todo \in [Sender -> SUBSET Listener]
  /\ marked \in [Sender -> SUBSET Listener]
  /\ stuck \in [Sender -> SUBSET Listener]
  /\ panicked \in BOOLEAN

Init ==
  /\ keys = {}
  /\ managed = [t \in Tag |-> {}]
  /\ chan = [l \in Listener |-> "none"]
  /\ buf = [l \in Listener |-> 0]
  /\ handler = [l \in Listener |-> "idle"]
  /\ sender = [s \in Sender |-> "idle"]
  /\ todo = [s \in Sender |-> {}]
  /\ marked = [s \in Sender |-> {}]
  /\ stuck = [s \in Sender |-> {}]
  /\ panicked = FALSE

(***************************************************************************)
(* The RWMutex: the write lock is free when nobody holds the read lock,    *)
(* and a thread that waits for the write lock keeps new readers out.       *)
(***************************************************************************)
Readers == {s \in Sender : sender[s] = "send"}
WriteLock == Readers = {} /\ ~panicked
ReadLock ==
  /\ \A l \in Listener : handler[l] # "leaving"
  /\ \A s \in Sender : sender[s] # "locking"
  /\ ~panicked

-----------------------------------------------------------------------------
(* RPC handlers.                                                           *)

(* CreateUniqueChannel looks under the read lock and releases it.          *)
CheckUnique(l) ==
  /\ ReadLock
  /\ l \in Unique
  /\ handler[l] = "idle"
  /\ handler' = [handler EXCEPT ![l] = IF TagOf[l] \in keys THEN "ended"
                                       ELSE "checked"]
  /\ UNCHANGED <<keys, managed, chan, buf, sender, todo, marked, stuck,
                 panicked>>

(* CreateChannel, alone or as the second half of CreateUniqueChannel.      *)
CreateChannel(l) ==
  /\ WriteLock
  /\ handler[l] = IF l \in Unique THEN "checked" ELSE "idle"
  /\ keys' = keys \cup {TagOf[l]}
  /\ managed' = [managed EXCEPT ![TagOf[l]] = @ \cup {l}]
  /\ chan' = [chan EXCEPT ![l] = "open"]
  /\ handler' = [handler EXCEPT ![l] = "listening"]
  /\ UNCHANGED <<buf, sender, todo, marked, stuck, panicked>>

Receive(l) ==
  /\ ~panicked
  /\ handler[l] = "listening"
  /\ buf[l] > 0
  /\ buf' = [buf EXCEPT ![l] = @ - 1]
  /\ UNCHANGED <<keys, managed, chan, handler, sender, todo, marked, stuck,
                 panicked>>

(* The handler has its answer, its client left or its channel is closed:   *)
(* it reads no more and waits for the write lock.                          *)
Leave(l) ==
  /\ ~panicked
  /\ handler[l] = "listening"
  /\ handler' = [handler EXCEPT ![l] = "leaving"]
  /\ UNCHANGED <<keys, managed, chan, buf, sender, todo, marked, stuck,
                 panicked>>

(* Mutant: the key of a tag without listeners stays in the map.            *)
DeleteKeepingKeys(S) ==
  LET found == {l \in S : l \in managed[TagOf[l]]}
  IN  /\ managed' = [t \in Tag |-> managed[t] \ S]
      /\ UNCHANGED keys
      /\ chan' = [l \in Listener |-> IF l \in found THEN "closed" ELSE chan[l]]
      /\ buf' = [l \in Listener |-> IF l \in found /\ buf[l] > 0
                                    THEN buf[l] - 1 ELSE buf[l]]
      /\ panicked' = \E l \in found : chan[l] = "closed" /\ buf[l] > 0

(***************************************************************************)
(* deleteListenerUnsafe for the listeners in S, under the write lock.      *)
(* Those that are registered are removed and closed by SafeClose, which    *)
(* takes a waiting message off the channel before it closes it (and would  *)
(* close a closed channel that still holds one); of the others it only     *)
(* warns.  A tag left without listeners leaves the map.                    *)
(***************************************************************************)
DeleteListeners(S) ==
  LET found == {l \in S : l \in managed[TagOf[l]]}
  IN  /\ managed' = [t \in Tag |-> managed[t] \ S]
      /\ keys' = {t \in keys : managed[t] \ S # {}
                               \/ t \notin {TagOf[l] : l \in S}}
      /\ chan' = [l \in Listener |-> IF l \in found THEN "closed" ELSE chan[l]]
      /\ buf' = [l \in Listener |-> IF l \in found /\ buf[l] > 0
                                    THEN buf[l] - 1 ELSE buf[l]]
      /\ panicked' = \E l \in found : chan[l] = "closed" /\ buf[l] > 0

(* Mutant: the callback does not take the lock.                            *)
UnregisterUnlocked(l) ==
  /\ ~panicked
  /\ handler[l] = "leaving"
  /\ DeleteListeners({l})
  /\ handler' = [handler EXCEPT ![l] = "ended"]
  /\ UNCHANGED <<sender, todo, marked, stuck>>

(* The handler calls its deleteListenerCallback and returns.               *)
Unregister(l) ==
  /\ WriteLock
  /\ handler[l] = "leaving"
  /\ DeleteListeners({l})
  /\ handler' = [handler EXCEPT ![l] = "ended"]
  /\ UNCHANGED <<sender, todo, marked, stuck>>

-----------------------------------------------------------------------------
(* SendToListeners.                                                        *)

(* The read lock is taken and a goroutine started for every listener.      *)
(* (A tag without listeners is ignored and changes nothing.)               *)
Begin(s, t) ==
  /\ ReadLock
  /\ sender[s] = "idle"
  /\ t \in keys
  /\ sender' = [sender EXCEPT ![s] = "send"]
  /\ todo' = [todo EXCEPT ![s] = managed[t]]
  /\ UNCHANGED <<keys, managed, chan, buf, handler, marked, stuck, panicked>>

(* A goroutine sends when the channel has room.                            *)
Deliver(s, l) ==
  /\ ~panicked
  /\ sender[s] = "send"
  /\ l \in todo[s]
  /\ todo' = [todo EXCEPT ![s] = @ \ {l}]
  /\ IF chan[l] = "closed"
     THEN panicked' = TRUE /\ UNCHANGED buf
     ELSE /\ buf[l] < NumChan
          /\ buf' = [buf EXCEPT ![l] = @ + 1]
          /\ UNCHANGED panicked
  /\ UNCHANGED <<keys, managed, chan, handler, sender, marked, stuck>>

(* Mutant: a goroutine waits as long as it takes.                          *)
WaitForRoom(s, l) == FALSE

(***************************************************************************)
(* 250 ms without room: the goroutine marks the listener, or waits for     *)
(* room in markedForDelete, which nobody reads before all are finished.    *)
(***************************************************************************)
GiveUp(s, l) ==
  /\ ~panicked
  /\ sender[s] = "send"
  /\ l \in todo[s]
  /\ buf[l] = NumChan
  /\ todo' = [todo EXCEPT ![s] = @ \ {l}]
  /\ IF Cardinality(marked[s]) < MarkCap
     THEN marked' = [marked EXCEPT ![s] = @ \cup {l}] /\ UNCHANGED stuck
     ELSE stuck' = [stuck EXCEPT ![s] = @ \cup {l}] /\ UNCHANGED marked
  /\ UNCHANGED <<keys, managed, chan, buf, handler, sender, panicked>>

(* Mutant: the read lock is only released when there is something to do.   *)
UnlockForgotten(s) ==
  /\ ~panicked
  /\ sender[s] = "send"
  /\ todo[s] = {} /\ stuck[s] = {}
  /\ marked[s] # {}
  /\ sender' = [sender EXCEPT ![s] = "cleanup"]
  /\ UNCHANGED <<keys, managed, chan, buf, handler, todo, marked, stuck,
                 panicked>>

(* wg.Wait returns and the read lock is released.                          *)
Unlock(s) ==
  /\ ~panicked
  /\ sender[s] = "send"
  /\ todo[s] = {} /\ stuck[s] = {}
  /\ sender' = [sender EXCEPT ![s] = IF marked[s] = {} THEN "idle"
                                     ELSE "cleanup"]
  /\ UNCHANGED <<keys, managed, chan, buf, handler, todo, marked, stuck,
                 panicked>>

(* The deferred function deletes what was marked, under the write lock.    *)
Lock(s) ==
  /\ ~panicked
  /\ sender[s] = "cleanup"
  /\ sender' = [sender EXCEPT ![s] = "locking"]
  /\ UNCHANGED <<keys, managed, chan, buf, handler, todo, marked, stuck,
                 panicked>>

Cleanup(s) ==
  /\ WriteLock
  /\ sender[s] = "locking"
  /\ DeleteListeners(marked[s])
  /\ marked' = [marked EXCEPT ![s] = {}]
  /\ sender' = [sender EXCEPT ![s] = "idle"]
  /\ UNCHANGED <<handler, todo, stuck>>

HandlerStep(l) ==
  \/ CheckUnique(l)
  \/ CreateChannel(l)
  \/ Receive(l)
  \/ Leave(l)
  \/ Unregister(l)

SenderStep(s) ==
  \/ \E t \in Tag : Begin(s, t)
  \/ \E l \in Listener : Deliver(s, l)
  \/ \E l \in Listener : GiveUp(s, l)
  \/ Unlock(s)
  \/ Lock(s)
  \/ Cleanup(s)

Next == (\E l \in Listener : HandlerStep(l)) \/ (\E s \in Sender : SenderStep(s))

Spec == Init /\ [][Next]_vars

(***************************************************************************)
(* Goroutines run, timers fire, and a thread for which the write lock is   *)
(* free again and again gets it.  Handlers need not read, leave or come,   *)
(* and the engine need not send.                                           *)
(***************************************************************************)
FairSpec ==
  /\ Spec
  /\ \A s \in Sender :
       /\ WF_vars(Lock(s) \/ Unlock(s)
                  \/ \E l \in Listener : Deliver(s, l) \/ GiveUp(s, l))
       /\ SF_vars(Cleanup(s))
  /\ \A l \in Listener : SF_vars(Unregister(l))

-----------------------------------------------------------------------------
(* Properties.                                                             *)

(***************************************************************************)
(* Handlers leave, senders give up and delete, and both may be late: still *)
(* no goroutine sends on a closed channel and none is closed twice.        *)
(***************************************************************************)
NeverPanics == ~panicked

(***************************************************************************)
(* A goroutine that still tries to send has a listener that is registered  *)
(* and open, however long its 250 ms are.                                  *)
(***************************************************************************)
SendsToRegistered ==
  \A s \in Sender : \A l \in todo[s] :
    chan[l] = "open" /\ l \in managed[TagOf[l]]

(***************************************************************************)
(* A tag is in the map exactly when somebody listens for it: otherwise     *)
(* CreateUniqueChannel would refuse the RPC for ever.                      *)
(***************************************************************************)
KeysAreListened == keys = {t \in Tag : managed[t] # {}}

(***************************************************************************)
(* A listener is closed by its own handler or by a sender that found its   *)
(* channel full, never on behalf of another listener of the tag.           *)
(***************************************************************************)
ClosedByOwnerOrSender ==
  [][\A l \in Listener :
       chan[l] = "open" /\ chan'[l] = "closed" =>
         handler[l] = "leaving" \/ \E s \in Sender : l \in marked[s]]_vars

(* With no more listeners than markedForDelete holds, a broadcast ends,    *)
(* whether or not the handlers read.                                       *)
BroadcastEnds ==
  \A s \in Sender : sender[s] = "send" ~> sender[s] = "idle"

(* A handler that leaves gets the write lock and returns.                  *)
HandlerReturns ==
  \A l \in Listener : handler[l] = "leaving" ~> handler[l] = "ended"

(***************************************************************************)
(* Threads, locks, late senders and deletions show only as Registry says.  *)
(* A message is due to a listener from the start of the broadcast on, in   *)
(* the hands of a goroutine or in the channel.                             *)
(***************************************************************************)
Condemned(l) == \E s \in Sender : l \in marked[s] \/ l \in stuck[s]

Trying(l) == {s \in Sender : l \in todo[s]}

line == [l \in Listener |-> IF chan[l] = "open" /\ Condemned(l) THEN "slow"
                            ELSE chan[l]]

due == [l \in Listener |-> buf[l] + Cardinality(Trying(l))]

Promise == INSTANCE Registry WITH phase <- handler, line <- line, due <- due

(* Refinement: the registry keeps what Registry promises the handlers.     *)
ImplementsRegistry == Promise!Spec

(***************************************************************************)
(* What the code does not keep.                                            *)
(***************************************************************************)

(* "ProcessMessages loops through incoming messages": it always gets back  *)
(* to reading the socket.                                                  *)
ProcessMessagesLoops == \A s \in Sender : []<>(sender[s] = "idle")
=============================================================================
