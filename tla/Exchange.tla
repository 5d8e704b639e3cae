------------------------------ MODULE Exchange -------------------------------
(* What the datagram sockets promise a service and its clients, without     *)
(* sockets, reader and goroutines: the requests of a client are handled in  *)
(* the order it sent them, none skipped; it reads answers to requests of    *)
(* its own that were handled, in that order, though some may be lost.       *)
(* Sockets implements this.                                                 *)
EXTENDS Naturals, Sequences

CONSTANT Clients

VARIABLES
  sent,      \* how much each client has sent
  handled,   \* the requests of each client that were handled
  answers    \* the answers each client has read

Request(c, n) == [from |-> c, is |-> "request", n |-> n]

Init ==
  /\ sent = [c \in Clients |-> 0]
  /\ handled = [c \in Clients |-> <<>>]
  /\ answers = [c \in Clients |-> <<>>]

Send(c) ==
  /\ sent' = [sent EXCEPT ![c] = @ + 1]
  /\ UNCHANGED <<handled, answers>>

Handle(c) ==
  /\ Len(handled[c]) < sent[c]
  /\ handled' = [handled EXCEPT ![c] = Append(@, Request(c, Len(@) + 1))]
  /\ UNCHANGED <<sent, answers>>

Read(c) ==
  /\ \E i \in DOMAIN handled[c] :
       /\ \A j \in DOMAIN answers[c] : answers[c][j].n < i
       /\ answers' = [answers EXCEPT ![c] = Append(@, handled[c][i])]
  /\ UNCHANGED <<sent, handled>>

Next == \E c \in Clients : Send(c) \/ Handle(c) \/ Read(c)

Spec == Init /\ [][Next]_<<sent, handled, answers>>
=============================================================================
