---------------------------- MODULE EngineCalls -----------------------------
(* The life of RPC calls: a handler of RpcHandlers makes its channel, writes *)
(* its request, and takes what SendToListeners puts into the channel. The    *)
(* answer carries no number of the request: it is given to every handler     *)
(* that listens for a message of its kind, so calls can disturb each other.  *)
(* Messages of the protobuf socket travel as the field number of their       *)
(* member. The locks of the registry are left to module IpcManager: here a   *)
(* broadcast is one step, which a listener whose channel is full misses and  *)
(* pays for with its channel.                                                *)
EXTENDS RpcHandlers, GatewayWrapper, Sequences, FiniteSets

CONSTANTS
  Calls,     \* calls of RPC handlers
  Plays,     \* which handler each call is of
  MaxParts   \* bound: answers to a request before the last one

VARIABLES
  rpc,       \* the handler a call is of
  pc,        \* where it is
  chan,      \* its channel: none, open or closed
  box,       \* what waits in the channel
  open,      \* requests the engine has, with the handler it took them from
  parts,     \* answers to a request so far
  mixed,     \* the kinds of answer that two calls were after at once
  result     \* what a call returned: a code and whose answer it was (of
             \* UserAuthentication known before it returns)

vars == <<rpc, pc, chan, box, open, parts, mixed, result>>

Row(c) == Handlers[rpc[c]]

(* What a listener is registered under: the manager and the type or tag.    *)
Key(c) == <<Row(c).manager, Row(c).in>>
Registered(k) == {c \in Calls : chan[c] = "open" /\ Key(c) = k}
Owed(k) == {c \in DOMAIN open : Key(c) = k}

-----------------------------------------------------------------------------
(* A varint of n takes a byte for every 7 bits.                             *)
SizeVarint(n) == IF n < 128 THEN 1 ELSE IF n < 16384 THEN 2 ELSE 3
WireBytes == 2

MembersWith(table, n) == {m \in DOMAIN table : table[m] = n}

(* WriteWithID: the size in front comes from the sizer. The engine reads    *)
(* the message by the numbers of the message definition.                    *)
EngineReads ==
  [m \in DOMAIN OneofMarshaler |->
     LET n == OneofMarshaler[m]
     IN  IF /\ m \in OneofFuncs
            /\ OneofSizer[m] = SizeVarint(n * 8 + WireBytes)
            /\ MembersWith(Types, n) # {}
         THEN CHOOSE x \in MembersWith(Types, n) : TRUE ELSE "nothing"]

(* ProcessMessages of what the engine sends: the member of the number.      *)
GatewayReads ==
  [m \in DOMAIN Types |->
     LET made == MembersWith(OneofUnmarshaler, Types[m])
     IN  IF made # {} THEN CHOOSE x \in made : TRUE ELSE "nothing"]

(* The engine (external) answers a request with the message the handler of  *)
(* that request listens for.                                                *)
Questions ==
  {h \in DOMAIN Handlers : Handlers[h].in # "none" /\ Handlers[h].out # "nil"}
Reply ==
  [q \in {<<Handlers[h].manager, Handlers[h].out>> : h \in Questions} |->
     Handlers[CHOOSE h \in Questions :
                <<Handlers[h].manager, Handlers[h].out>> = q]]

(* What the engine takes the request of a handler for, and what the gateway *)
(* takes the answer to a handler for.                                       *)
Asked(r) ==
  <<r.manager, IF r.manager = "proto" THEN EngineReads[r.out] ELSE r.out>>
HeardAs(r) ==
  <<r.manager, IF r.manager = "proto" THEN GatewayReads[r.in] ELSE r.in>>

(* The tables fit: a handler that waits asks what the engine answers; the   *)
(* answer to a request is heard as the message that its handler listens for *)
(* in a channel with room. (Constant, and evaluated by TLC.)                *)
ASSUME AnswersFit ==
  \A h \in DOMAIN Handlers : LET r == Handlers[h] IN
    /\ r.in # "none" => r.room \in Nat \ {0}
    /\ r.out # "nil" =>
         /\ r.wait # "no" => Asked(r) \in DOMAIN Reply
         /\ Asked(r) \in DOMAIN Reply =>
              r.in # "none" /\ HeardAs(Reply[Asked(r)]) = <<r.manager, r.in>>

ASSUME CallsAssumption == Plays \subseteq [Calls -> DOMAIN Handlers]

(* Mutant: listeners are found by the type of the wrapper, which is one for *)
(* all messages.                                                            *)
AllListeners(r) ==
  {c \in Calls : chan[c] = "open" /\ Row(c).manager = r.manager}

(* SendToListeners: who listens for an answer.                              *)
ListenersFor(r) == Registered(HeardAs(r))

-----------------------------------------------------------------------------
Init ==
  /\ rpc \in Plays
  /\ pc = [c \in Calls |-> "idle"]
  /\ chan = [c \in Calls |-> "none"]
  /\ box = [c \in Calls |-> <<>>]
  /\ open = <<>>
  /\ parts = [c \in Calls |-> 0]
  /\ mixed = {}
  /\ result = [c \in Calls |-> [code |-> "none", from |-> c]]

(* return, with the deferred deletion of the listener.                      *)
Return(c, code, from) ==
  /\ pc' = [pc EXCEPT ![c] = "done"]
  /\ result' = [result EXCEPT ![c] = [code |-> code, from |-> from]]
  /\ chan' = [chan EXCEPT ![c] = "none"]
  /\ box' = [box EXCEPT ![c] = <<>>]

(* The ways out before a channel is made: no message to send, a bad action  *)
(* tag, no part of the request set, too many calls in this time.            *)
Refuse(c) ==
  /\ pc[c] = "idle"
  /\ \/ Row(c).manager = "none" /\ Return(c, "answered", c)
     \/ Row(c).check = "kind" /\ Row(c).in = "none"
        /\ Return(c, "InvalidArgument", c)
     \/ Row(c).check = "tag" /\ Return(c, "InvalidArgument", c)
     \/ Row(c).check = "rate" /\ Return(c, "refused", c)
  /\ UNCHANGED <<rpc, open, parts, mixed>>

(* CreateUniqueChannel: the look at the registry.                           *)
CheckUnique(c) ==
  /\ pc[c] = "idle"
  /\ Row(c).check = "unique"
  /\ \/ /\ Registered(Key(c)) # {}
        /\ Return(c, "ERROR_UPDATE_IN_PROGRESS", c)
     \/ /\ Registered(Key(c)) = {}
        /\ pc' = [pc EXCEPT ![c] = "checked"]
        /\ UNCHANGED <<chan, box, result>>
  /\ UNCHANGED <<rpc, open, parts, mixed>>

CreateChannel(c) ==
  /\ pc[c] = IF Row(c).check = "unique" THEN "checked" ELSE "idle"
  /\ Row(c).in # "none"
  /\ pc' = [pc EXCEPT ![c] = "listening"]
  /\ chan' = [chan EXCEPT ![c] = "open"]
  /\ mixed' = IF Registered(Key(c)) # {} \/ Owed(Key(c)) # {}
              THEN mixed \union {Key(c)} ELSE mixed
  /\ UNCHANGED <<rpc, box, open, parts, result>>

ReadyToWrite(c) ==
  /\ Row(c).manager # "none"
  /\ Row(c).check # "kind"
  /\ pc[c] = IF Row(c).in = "none" THEN "idle" ELSE "listening"

(* DefineCustomObject makes its channel before it looks at the definition.  *)
RefuseDefinition(c) ==
  /\ pc[c] = "listening"
  /\ Row(c).check = "kind"
  /\ Return(c, "InvalidArgument", c)
  /\ UNCHANGED <<rpc, open, parts, mixed>>

(* Write, and the return of a handler that does not wait.                   *)
Write(c) ==
  /\ ReadyToWrite(c)
  /\ Row(c).out # "nil"
  /\ LET q == Asked(Row(c))
     IN  open' = IF q \in DOMAIN Reply
                 THEN [o \in DOMAIN open \union {c} |->
                         IF o = c THEN Reply[q] ELSE open[o]]
                 ELSE open
  /\ \/ /\ Row(c).wait \in {"no", "if_on"}
        /\ Return(c, "REQUEST_PROCESSING", c)
     \/ /\ Row(c).wait # "no"
        /\ pc' = [pc EXCEPT ![c] = "waiting"]
        /\ UNCHANGED <<chan, box, result>>
  /\ UNCHANGED <<rpc, parts, mixed>>

(* The socket or the message is broken: the handler returns the error,      *)
(* goes on as if nothing had happened, or waits for an answer that nobody   *)
(* will send.                                                               *)
WriteFails(c) ==
  /\ ReadyToWrite(c)
  /\ IF Row(c).minds THEN Return(c, "error", c)
     ELSE IF Row(c).wait = "no" THEN Return(c, "REQUEST_PROCESSING", c)
     ELSE pc' = [pc EXCEPT ![c] = "lost"] /\ UNCHANGED <<chan, box, result>>
  /\ UNCHANGED <<rpc, open, parts, mixed>>

(* Mutant: what does not fit into a channel is dropped.                     *)
DropForFull(to, a) ==
  /\ box' = [c \in Calls |-> IF c \in to /\ Len(box[c]) < Row(c).room
                             THEN Append(box[c], a) ELSE box[c]]
  /\ UNCHANGED chan

(* SendToListeners, with SafeClose of a channel that stayed full: it takes  *)
(* what waits first and closes.                                             *)
Send(to, a) ==
  LET full == {c \in to : Len(box[c]) = Row(c).room}
  IN  /\ box' = [c \in Calls |->
                   IF c \in full THEN Tail(box[c])
                   ELSE IF c \in to THEN Append(box[c], a) ELSE box[c]]
      /\ chan' = [c \in Calls |-> IF c \in full THEN "closed" ELSE chan[c]]

(* The engine answers request o: once, or for a text or a list in several   *)
(* messages of which the last says so.                                      *)
Answer(o, last) ==
  /\ o \in DOMAIN open
  /\ last \/ (open[o].wait \in {"finished", "list"} /\ parts[o] < MaxParts)
  /\ Send(ListenersFor(open[o]), [from |-> o, last |-> last])
  /\ open' = IF last THEN [c \in DOMAIN open \ {o} |-> open[c]] ELSE open
  /\ parts' = IF last THEN parts ELSE [parts EXCEPT ![o] = @ + 1]
  /\ UNCHANGED <<rpc, pc, mixed, result>>

(* UserAuthentication is authorised: ForceUpdate, and the wait for its      *)
(* response, with the channel still registered.                             *)
Authorised(c, from) ==
  /\ pc' = [pc EXCEPT ![c] = "updating"]
  /\ result' = [result EXCEPT ![c] = [code |-> "none", from |-> from]]
  /\ box' = [box EXCEPT ![c] = Tail(@)]
  /\ UNCHANGED chan

(* Receive: what one message does to the handler.                           *)
Receive(c) ==
  /\ pc[c] \in {"waiting", "lost"}
  /\ box[c] # <<>>
  /\ LET a == Head(box[c])
     IN  \/ /\ Row(c).wait \in {"one", "if_on"}
            /\ Return(c, "RESPONSE_RECEIVED", a.from)
         \/ /\ Row(c).wait = "auth"
            /\ \/ Return(c, "RESPONSE_RECEIVED", a.from)
               \/ Authorised(c, a.from)
         \/ /\ Row(c).wait = "file"
            /\ \/ Return(c, "RESPONSE_RECEIVED", a.from)
               \/ Return(c, "NOT_FOUND", a.from)
         \/ /\ Row(c).wait = "finished" /\ a.last
            /\ \/ Return(c, "RESPONSE_RECEIVED", a.from)
               \/ Return(c, "Internal", a.from)
         \/ /\ Row(c).wait = "list" /\ a.last
            /\ Return(c, "RESPONSE_RECEIVED", a.from)
         \/ /\ Row(c).wait \in {"finished", "list"} /\ ~a.last
            /\ box' = [box EXCEPT ![c] = Tail(@)]
            /\ UNCHANGED <<pc, chan, result>>
  /\ UNCHANGED <<rpc, open, parts, mixed>>

(* The channel was closed: "Failed to retrieve message".                    *)
ReceiveClosed(c) ==
  /\ pc[c] \in {"waiting", "lost"}
  /\ box[c] = <<>> /\ chan[c] = "closed"
  /\ Return(c, "Internal", c)
  /\ UNCHANGED <<rpc, open, parts, mixed>>

(* The tokens are up to date (module ClientTokens): "<-response".           *)
TokensCome(c) ==
  /\ pc[c] = "updating"
  /\ Return(c, "RESPONSE_RECEIVED", result[c].from)
  /\ UNCHANGED <<rpc, open, parts, mixed>>

(* A list did not go on in time.                                            *)
Timeout(c) ==
  /\ pc[c] = "waiting"
  /\ Row(c).wait = "list" /\ box[c] = <<>>
  /\ Return(c, "DeadlineExceeded", c)
  /\ UNCHANGED <<rpc, open, parts, mixed>>

HandlerStep(c) ==
  \/ Refuse(c) \/ CheckUnique(c) \/ CreateChannel(c) \/ RefuseDefinition(c)
  \/ Write(c) \/ WriteFails(c)
  \/ Receive(c) \/ TokensCome(c) \/ ReceiveClosed(c) \/ Timeout(c)

Next ==
  \/ \E c \in Calls : HandlerStep(c)
  \/ \E o \in Calls, last \in BOOLEAN : Answer(o, last)

(* Handlers run, the engine finishes every request it has, the tokens come. *)
Spec ==
  /\ Init /\ [][Next]_vars
  /\ \A c \in Calls : WF_vars(HandlerStep(c)) /\ WF_vars(Answer(c, TRUE))

-----------------------------------------------------------------------------
(* As long as no two calls were after the same kind of answer at once (and  *)
(* no answer of an earlier request was still to come), a call returns the   *)
(* answer to its own request: the handlers of different RPCs never take     *)
(* each other's answers, and a returned call leaves nothing behind.         *)
AnswerIsOwn ==
  \A c \in Calls :
    Key(c) \notin mixed => result[c].from = c

=============================================================================
