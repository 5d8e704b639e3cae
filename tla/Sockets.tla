------------------------------ MODULE Sockets -------------------------------
(* The datagram sockets of internal/ipc as the token, jdocs and log         *)
(* collector services use them. One goroutine reads for all clients of a    *)
(* server and tells them apart by their address; the accepting goroutine    *)
(* and one giver per client pass a new client to the service, which starts  *)
(* a handler for it. A client (baseConn) has a reader goroutine of its own. *)
(* All channels are unbuffered, so that a hand-over is one step.            *)
EXTENDS Naturals, Sequences

CONSTANTS
  Clients,    \* addresses
  Room,       \* datagrams a socket holds before writers wait
  MaxSent,    \* bound: datagrams of each client after its handshakes
  MaxDials    \* bound: times each client is started

VARIABLES
  inbox,      \* the server's socket
  reader,     \* newDatagramServer's goroutine: reading, introducing a client,
              \* handing a datagram over, ended
  buf,        \* the reader's buffer
  known,      \* packetListener.clients
  acceptor,   \* newBaseServer's goroutine: accepting, ended
  offered,    \* clients whose giver waits to send on newConns
  handler,    \* handleConn of a client: none, waiting, serving, stuck, left
  request,    \* the datagram a handler has received
  handled,    \* requests it has handled
  closing,    \* the service and its baseServer: open, ending (the context is
              \* done), waiting (in Close), closed
  deserted,   \* the queue that handlers of the token service pass requests
              \* to has lost its consumer
  dials,      \* times a client was started
  app,        \* a client: none, open, closing, closed
  sent,       \* datagrams it has sent
  outbox,     \* its socket
  ear,        \* its reader: reading, holding an answer, ended
  held,       \* that answer
  answers     \* answers its ReadBlock has returned

serverVars == <<reader, buf, known, acceptor, offered, handler, request,
                handled, closing, deserted>>
clientVars == <<dials, app, sent, outbox, ear, held, answers>>
vars == <<inbox, serverVars, clientVars>>

connPacket(c) == [from |-> c, is |-> "ANKICONN", n |-> 0]
Request(c, n) == [from |-> c, is |-> "request", n |-> n]
Nothing(c, n) == [from |-> c, is |-> "empty", n |-> n]
NoData == [from |-> "nobody", is |-> "nothing", n |-> 0]

Init ==
  /\ inbox = <<>>
  /\ reader = "reading" /\ buf = NoData /\ known = {}
  /\ acceptor = "accepting" /\ offered = {}
  /\ handler = [c \in Clients |-> "none"]
  /\ request = [c \in Clients |-> NoData]
  /\ handled = [c \in Clients |-> <<>>]
  /\ closing = "open" /\ deserted = FALSE
  /\ dials = [c \in Clients |-> 0]
  /\ app = [c \in Clients |-> "none"]
  /\ sent = [c \in Clients |-> 0]
  /\ outbox = [c \in Clients |-> <<>>]
  /\ ear = [c \in Clients |-> "ended"]
  /\ held = [c \in Clients |-> NoData]
  /\ answers = [c \in Clients |-> <<>>]

(* Both kill channels and the server's socket are closed.                   *)
Killed == closing \in {"waiting", "closed"}

(* The listener's kill channel is: the reader closes it when it ends.       *)
ListenerKilled == Killed \/ reader = "ended"

Writable == ~Killed /\ Len(inbox) < Room

-----------------------------------------------------------------------------
(* Clients. A client that is started again takes its old address: what was  *)
(* under way to it is lost, what it has sent is not.                        *)
Dial(c) ==
  /\ app[c] \in {"none", "closed"} /\ dials[c] < MaxDials[c]
  /\ Writable
  /\ dials' = [dials EXCEPT ![c] = @ + 1]
  /\ app' = [app EXCEPT ![c] = "open"]
  /\ ear' = [ear EXCEPT ![c] = "reading"]
  /\ outbox' = [outbox EXCEPT ![c] = <<>>]
  /\ inbox' = Append(inbox, connPacket(c))
  /\ UNCHANGED <<serverVars, sent, held, answers>>

(* Write, of a message or (not by this program) of nothing.                 *)
Write(c) ==
  /\ app[c] = "open" /\ sent[c] < MaxSent[c]
  /\ Writable
  /\ sent' = [sent EXCEPT ![c] = @ + 1]
  /\ \E m \in {Request(c, sent[c] + 1), Nothing(c, sent[c] + 1)} :
       inbox' = Append(inbox, m)
  /\ UNCHANGED <<serverVars, dials, app, outbox, ear, held, answers>>

(* The reader goroutine of baseConn.                                        *)
Hear(c) ==
  /\ ear[c] = "reading" /\ app[c] = "open" /\ outbox[c] # <<>>
  /\ held' = [held EXCEPT ![c] = Head(outbox[c])]
  /\ outbox' = [outbox EXCEPT ![c] = Tail(@)]
  /\ ear' = [ear EXCEPT ![c] = "holding"]
  /\ UNCHANGED <<inbox, serverVars, dials, app, sent, answers>>

ReadBlock(c) ==
  /\ ear[c] = "holding"
  /\ answers' = [answers EXCEPT ![c] = Append(@, held[c])]
  /\ held' = [held EXCEPT ![c] = NoData]
  /\ ear' = [ear EXCEPT ![c] = "reading"]
  /\ UNCHANGED <<inbox, serverVars, dials, app, sent, outbox>>

(* Mutant: the reader waits for ReadBlock only.                             *)
NeverDrops(c) == FALSE

(* It gives up what it holds when kill is closed.                           *)
Drop(c) ==
  /\ ear[c] = "holding" /\ app[c] = "closing"
  /\ held' = [held EXCEPT ![c] = NoData]
  /\ ear' = [ear EXCEPT ![c] = "reading"]
  /\ UNCHANGED <<inbox, serverVars, dials, app, sent, outbox, answers>>

(* Its Read fails on the closed socket.                                     *)
HearNoMore(c) ==
  /\ ear[c] = "reading" /\ app[c] = "closing"
  /\ ear' = [ear EXCEPT ![c] = "ended"]
  /\ UNCHANGED <<inbox, serverVars, dials, app, sent, outbox, held, answers>>

(* Close: kill and the socket are closed, the reader is waited for. Nobody  *)
(* needs to read any more. (Bound: the last socket stays open.)             *)
CloseClient(c) ==
  /\ app[c] = "open" /\ dials[c] < MaxDials[c]
  /\ app' = [app EXCEPT ![c] = "closing"]
  /\ UNCHANGED <<inbox, serverVars, dials, sent, outbox, ear, held, answers>>

ClientClosed(c) ==
  /\ app[c] = "closing" /\ ear[c] = "ended"
  /\ app' = [app EXCEPT ![c] = "closed"]
  /\ UNCHANGED <<inbox, serverVars, dials, sent, outbox, ear, held, answers>>

-----------------------------------------------------------------------------
(* The server's reader.                                                     *)
ReadFrom ==
  /\ reader = "reading" /\ ~Killed /\ inbox # <<>>
  /\ LET m == Head(inbox)
         isConnPacket == m.is = "ANKICONN"
     IN  /\ buf' = m
         /\ inbox' = Tail(inbox)
         /\ known' = IF isConnPacket THEN known \union {m.from} ELSE known
         /\ reader' = IF m.from \in known /\ ~isConnPacket THEN "handing"
                      ELSE IF m.from \notin known /\ isConnPacket
                      THEN "introducing" ELSE "reading"
  /\ UNCHANGED <<acceptor, offered, handler, request, handled, closing,
                 deserted, clientVars>>

(* Mutant: a client that is not waiting misses the datagram.                *)
HandOverOrDrop ==
  /\ reader = "handing"
  /\ reader' = "reading"
  /\ IF handler[buf.from] = "waiting"
     THEN /\ handler' = [handler EXCEPT ![buf.from] = "serving"]
          /\ request' = [request EXCEPT ![buf.from] = buf]
     ELSE UNCHANGED <<handler, request>>
  /\ UNCHANGED <<inbox, buf, known, acceptor, offered, handled, closing,
                 deserted, clientVars>>

(* client.read <- sendbuf, and ReadBlock of the handler.                    *)
HandOver ==
  /\ reader = "handing" /\ handler[buf.from] = "waiting"
  /\ reader' = "reading"
  /\ handler' = [handler EXCEPT ![buf.from] = "serving"]
  /\ request' = [request EXCEPT ![buf.from] = buf]
  /\ UNCHANGED <<inbox, buf, known, acceptor, offered, handled, closing,
                 deserted, clientVars>>

(* Its Read fails: it ends by itself, and with it the clients' handlers and *)
(* the acceptor; the socket stays open. Its buffer goes with it.            *)
ReadFails ==
  /\ reader = "reading" /\ ~Killed
  /\ reader' = "ended" /\ buf' = NoData
  /\ UNCHANGED <<inbox, known, acceptor, offered, handler, request, handled,
                 closing, deserted, clientVars>>

ReaderEnds ==
  /\ reader # "ended" /\ Killed
  /\ reader' = "ended" /\ buf' = NoData
  /\ UNCHANGED <<inbox, known, acceptor, offered, handler, request, handled,
                 closing, deserted, clientVars>>

-----------------------------------------------------------------------------
(* New clients: newClients <- client, Accept, and a giver of its own.       *)
Accept ==
  /\ reader = "introducing" /\ acceptor = "accepting"
  /\ reader' = "reading"
  /\ offered' = offered \union {buf.from}
  /\ UNCHANGED <<inbox, buf, known, acceptor, handler, request, handled,
                 closing, deserted, clientVars>>

AcceptorEnds ==
  /\ acceptor = "accepting" /\ ListenerKilled
  /\ acceptor' = "ended"
  /\ UNCHANGED <<inbox, reader, buf, known, offered, handler, request,
                 handled, closing, deserted, clientVars>>

(* range serv.NewConns(), go handleConn.                                    *)
Give(c) ==
  /\ c \in offered
  /\ offered' = offered \ {c}
  /\ handler' = [handler EXCEPT ![c] = "waiting"]
  /\ UNCHANGED <<inbox, reader, buf, known, acceptor, request, handled,
                 closing, deserted, clientVars>>

GiverEnds(c) ==
  /\ c \in offered /\ Killed
  /\ offered' = offered \ {c}
  /\ UNCHANGED <<inbox, reader, buf, known, acceptor, handler, request,
                 handled, closing, deserted, clientVars>>

-----------------------------------------------------------------------------
(* handleConn: what it has to unpack and answer.                            *)
(* Mutant: the reader hands over its buffer, not a copy.                    *)
BufferOf(c) == buf

RequestOf(c) == request[c]

(* The answer is written to the client's address; a client that is gone is  *)
(* logged, as is an answer after the server's socket was closed; a client   *)
(* whose socket is full is waited for. A handler goes on after what it      *)
(* cannot unpack or answer, and returns when it gets no data.               *)
Reachable(c) == app[c] = "open" /\ ~Killed

Serve(c) ==
  /\ handler[c] = "serving"
  /\ IF RequestOf(c).is = "empty"
     THEN /\ handler' = [handler EXCEPT ![c] = "left"]
          /\ UNCHANGED <<handled, outbox>>
     ELSE /\ Reachable(c) => Len(outbox[c]) < Room
          /\ handled' = [handled EXCEPT ![c] = Append(@, RequestOf(c))]
          /\ outbox' \in {outbox} \union
               IF Reachable(c)
               THEN {[outbox EXCEPT ![c] = Append(@, RequestOf(c))]} ELSE {}
          /\ handler' = [handler EXCEPT ![c] = "waiting"]
  /\ request' = [request EXCEPT ![c] = NoData]
  /\ UNCHANGED <<inbox, reader, buf, known, acceptor, offered, closing,
                 deserted, dials, app, sent, ear, held, answers>>

(* A token request is sent to the queue, which nobody reads any more.       *)
BlockOnQueue(c) ==
  /\ handler[c] = "serving" /\ deserted
  /\ RequestOf(c).is # "empty"
  /\ handler' = [handler EXCEPT ![c] = "stuck"]
  /\ UNCHANGED <<inbox, reader, buf, known, acceptor, offered, request,
                 handled, closing, deserted, clientVars>>

HandlerLeaves(c) ==
  /\ handler[c] = "waiting" /\ ListenerKilled
  /\ handler' = [handler EXCEPT ![c] = "left"]
  /\ UNCHANGED <<inbox, reader, buf, known, acceptor, offered, request,
                 handled, closing, deserted, clientVars>>

(* The context of the token service ends, and with it the consumer of its   *)
(* queue, before or after the goroutine that closes the server sees it: an  *)
(* end after that allows no more than one before.                           *)
QueueEnds ==
  /\ closing = "open" /\ closing' = "ending"
  /\ deserted' = TRUE
  /\ UNCHANGED <<inbox, reader, buf, known, acceptor, offered, handler,
                 request, handled, clientVars>>

(* baseServer.Close, by the goroutine that waits for the end of the         *)
(* context: close(kill) and listen.Close, with what is in the socket, then  *)
(* wg.Wait and close(newConns).                                             *)
CloseServer ==
  /\ \/ closing \in {"open", "ending"} /\ closing' = "waiting" /\ inbox' = <<>>
     \/ /\ closing = "waiting" /\ acceptor = "ended" /\ offered = {}
        /\ closing' = "closed" /\ UNCHANGED inbox
  /\ UNCHANGED <<reader, buf, known, acceptor, offered, handler, request,
                 handled, deserted, clientVars>>

-----------------------------------------------------------------------------
ServerRuns ==
  \/ ReadFrom \/ HandOver \/ ReadFails \/ ReaderEnds
  \/ Accept \/ AcceptorEnds
  \/ QueueEnds \/ CloseServer

ConnRuns(c) ==
  Give(c) \/ GiverEnds(c) \/ Serve(c) \/ BlockOnQueue(c) \/ HandlerLeaves(c)

ClientRuns(c) ==
  Hear(c) \/ ReadBlock(c) \/ Drop(c) \/ HearNoMore(c) \/ ClientClosed(c)

Next ==
  \/ ServerRuns
  \/ \E c \in Clients :
       ConnRuns(c) \/ ClientRuns(c) \/ Dial(c) \/ Write(c) \/ CloseClient(c)

(* Goroutines run: the server's reader, its acceptor, the one that closes   *)
(* it; for each client its giver and then its handler, and its own reader,  *)
(* whose answers it takes until it is closed (Close does not need that).    *)
ReaderRuns == ReadFrom \/ HandOver \/ Accept \/ ReaderEnds

HandlerRuns(c) == Give(c) \/ GiverEnds(c) \/ Serve(c) \/ HandlerLeaves(c)

EarRuns(c) ==
  \/ Hear(c) \/ (app[c] = "open" /\ ReadBlock(c))
  \/ Drop(c) \/ HearNoMore(c) \/ ClientClosed(c)

FairSpec ==
  /\ Init /\ [][Next]_vars
  /\ WF_vars(ReaderRuns) /\ WF_vars(AcceptorEnds)
  /\ WF_vars(closing # "open" /\ CloseServer)
  /\ \A c \in Clients : WF_vars(HandlerRuns(c)) /\ WF_vars(EarRuns(c))

-----------------------------------------------------------------------------
(* A handler gets the datagrams of its own client, all of them and in       *)
(* order, although others are read into the same buffer meanwhile and the   *)
(* client may be started again; a client's answers are its own, in order.   *)
Ascending(s) == \A i, j \in DOMAIN s : i < j => s[i].n < s[j].n

OwnInOrder ==
  \A c \in Clients :
    /\ \A i \in DOMAIN handled[c] : handled[c][i] = Request(c, i)
    /\ \A i \in DOMAIN answers[c] : answers[c][i].from = c
    /\ Ascending(answers[c])

(* Refinement: with all this, a client and the service exchange messages as *)
(* Exchange says; nothing is handled that was not sent, no answer is read   *)
(* but of a request that was handled.                                       *)
Promise == INSTANCE Exchange
ImplementsExchange == Promise!Spec

(* A request is handled, whatever other clients send, close and start       *)
(* again; until the service ends, the reader has ended, or some handler has *)
(* returned because of an empty datagram: nobody takes that client's next   *)
(* one, and the reader waits for ever, for all clients.                     *)
RequestHandled ==
  \A c \in Clients : \A n \in 1..MaxSent[c] :
    sent[c] = n ~> \/ Len(handled[c]) >= n
                   \/ closing # "open" \/ reader = "ended"
                   \/ \E d \in Clients : handler[d] = "left"

(* A service whose context ends closes its server, and Close returns on     *)
(* both ends and leaves no goroutine: the server's reader, its acceptor,    *)
(* givers and handlers, but those of the token service that wait on the     *)
(* queue that ended before; the reader of a client, which may be holding an *)
(* answer that nobody will read.                                            *)
CloseReturns ==
  /\ closing # "open" ~>
       /\ closing = "closed" /\ reader = "ended"
       /\ \A c \in Clients :
            \/ handler[c] \in {"none", "left"}
            \/ handler[c] = "stuck" /\ deserted
  /\ \A c \in Clients : app[c] = "closing" ~> app[c] = "closed"
=============================================================================
