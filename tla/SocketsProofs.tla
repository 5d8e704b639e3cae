--------------------------- MODULE SocketsProofs ----------------------------
(* Theorems about Sockets for any number of clients and any size of their   *)
(* sockets, however often clients are started and whenever the server is    *)
(* closed: they implement the abstract module Exchange.                     *)
EXTENDS Sockets, TLAPS

Packets == [from : Clients, is : {"ANKICONN", "request", "empty"}, n : Nat]

(* The types of both ends.                                                  *)
SocketTypeOK ==
  /\ inbox \in Seq(Packets)
  /\ reader \in {"reading", "introducing", "handing", "ended"}
  /\ buf \in Packets \union {NoData}
  /\ known \subseteq Clients /\ offered \subseteq Clients
  /\ acceptor \in {"accepting", "ended"}
  /\ handler \in [Clients -> {"none", "waiting", "serving", "stuck", "left"}]
  /\ request \in [Clients -> Packets \union {NoData}]
  /\ handled \in [Clients -> Seq(Packets)]
  /\ closing \in {"open", "ending", "waiting", "closed"}
  /\ deserted \in BOOLEAN
  /\ dials \in [Clients -> Nat]
  /\ app \in [Clients -> {"none", "open", "closing", "closed"}]
  /\ sent \in [Clients -> Nat]
  /\ outbox \in [Clients -> Seq(Packets)]
  /\ ear \in [Clients -> {"reading", "holding", "ended"}]
  /\ held \in [Clients -> Packets \union {NoData}]
  /\ answers \in [Clients -> Seq(Packets)]

IsData(m, c) == m.from = c /\ m.is # "ANKICONN"

-----------------------------------------------------------------------------
(* A client is introduced once, and has no handler before.                  *)
IntroducedOnce ==
  /\ reader = "introducing" =>
       buf.from \in known \ offered /\ handler[buf.from] = "none"
  /\ \A c \in offered : c \in known /\ handler[c] = "none"
  /\ \A c \in Clients :
       /\ handler[c] # "none" => c \in known
       /\ handler[c] = "none" => handled[c] = <<>>

(* The handshake of a client that is not known comes before its data, while *)
(* the server's socket is open.                                             *)
HandshakeFirst ==
  ~Killed => \A c \in Clients \ known :
    /\ app[c] # "none" => \E i \in DOMAIN inbox : inbox[i] = connPacket(c)
    /\ \A i \in DOMAIN inbox : IsData(inbox[i], c) =>
         \E j \in DOMAIN inbox : j < i /\ inbox[j] = connPacket(c)

-----------------------------------------------------------------------------
(* The way of the datagrams of a client: those that its handler has         *)
(* handled, the one it is at or stuck with, the one in the reader's buffer, *)
(* and, until that is closed, those in the server's socket, none missing.   *)
Busy == {"serving", "stuck"}
Serving(c) == IF handler[c] \in Busy THEN 1 ELSE 0
InBuffer(c) == IF reader = "handing" /\ buf.from = c THEN 1 ELSE 0
Taken(c) == Len(handled[c]) + Serving(c) + InBuffer(c)

HandledOwn ==
  \A c \in Clients : \A i \in DOMAIN handled[c] : handled[c][i] = Request(c, i)

AtItsNext ==
  \A c \in Clients : handler[c] \in Busy =>
    request[c] \in {Request(c, Len(handled[c]) + 1),
                    Nothing(c, Len(handled[c]) + 1)}

HandsItsNext ==
  reader = "handing" =>
    /\ buf \in Packets /\ buf.from \in known /\ buf.is # "ANKICONN"
    /\ handler[buf.from] # "left" =>
         buf.n = Len(handled[buf.from]) + Serving(buf.from) + 1

InSocket(c) ==
  /\ \A i, j \in DOMAIN inbox :
       IsData(inbox[i], c) /\ IsData(inbox[j], c) /\ i < j
         => inbox[i].n < inbox[j].n
  /\ \A i \in DOMAIN inbox : IsData(inbox[i], c) =>
       Taken(c) < inbox[i].n /\ inbox[i].n <= sent[c]
  /\ \A n \in Nat : Taken(c) < n /\ n <= sent[c] =>
       \E i \in DOMAIN inbox : IsData(inbox[i], c) /\ inbox[i].n = n

NoneMissing(c) == Taken(c) <= sent[c] /\ (~Killed => InSocket(c))

UnderWay ==
  reader # "ended" =>
    \A c \in Clients : handler[c] # "left" => NoneMissing(c)

-----------------------------------------------------------------------------
(* The way of the answers: those that a client has read, the one its reader *)
(* holds, those in its socket; all of requests that were handled.           *)
AnswersAre(s, c) ==
  /\ \A i \in DOMAIN s : s[i].from = c /\ s[i].n <= Len(handled[c])
  /\ Ascending(s)

Before(s, n) == \A i \in DOMAIN s : s[i].n < n

AnswersTo(c) ==
  /\ AnswersAre(answers[c], c) /\ AnswersAre(outbox[c], c)
  /\ \A i \in DOMAIN outbox[c] : Before(answers[c], outbox[c][i].n)
  /\ ear[c] = "holding" =>
       /\ held[c] \in Packets
       /\ held[c].from = c /\ held[c].n <= Len(handled[c])
       /\ Before(answers[c], held[c].n)
       /\ \A i \in DOMAIN outbox[c] : held[c].n < outbox[c][i].n

AnswersInOrder == \A c \in Clients : AnswersTo(c)

SocketInv ==
  /\ SocketTypeOK
  /\ IntroducedOnce /\ HandshakeFirst
  /\ HandledOwn /\ AtItsNext /\ HandsItsNext /\ UnderWay
  /\ AnswersInOrder

(* A socket that holds nothing.                                             *)
LEMMA NoPackets == <<>> \in Seq(Packets)
OBVIOUS

(* Nobody is known, nothing is under way.                                   *)
LEMMA SocketInitInv == Init => SocketInv
<1> SUFFICES ASSUME Init PROVE SocketInv
  OBVIOUS
<1>1. SocketTypeOK
  <2>1. deserted \in BOOLEAN
    BY DEF Init
  <2>2. <<>> \in Seq(Packets)
    BY NoPackets
  <2> QED
    BY <2>1, <2>2 DEF Init, SocketTypeOK
<1>2. IntroducedOnce /\ HandshakeFirst
  BY DEF Init, IntroducedOnce, HandshakeFirst
<1>3. HandledOwn /\ AtItsNext /\ HandsItsNext
  BY DEF Init, HandledOwn, AtItsNext, HandsItsNext, Busy
<1>4. UnderWay
  BY DEF Init, UnderWay, NoneMissing, InSocket, Taken, Serving, InBuffer, Busy
<1>5. AnswersInOrder
  <2>1. \A c \in Clients : answers[c] = <<>> /\ outbox[c] = <<>>
                             /\ ear[c] = "ended"
    BY DEF Init
  <2>2. \A c \in Clients : AnswersAre(<<>>, c)
    BY DEF AnswersAre, Ascending
  <2>3. DOMAIN <<>> = {}
    OBVIOUS
  <2> QED
    BY <2>1, <2>2, <2>3 DEF AnswersInOrder, AnswersTo
<1> QED
  BY <1>1, <1>2, <1>3, <1>4, <1>5 DEF SocketInv

(* Counts of datagrams are numbers.                                         *)
LEMMA TakenIsNat ==
  ASSUME SocketTypeOK, NEW c \in Clients
  PROVE  Taken(c) \in Nat /\ Len(handled[c]) \in Nat
<1>1. handled[c] \in Seq(Packets)
  BY DEF SocketTypeOK
<1>2. Len(handled[c]) \in Nat
  BY <1>1
<1>3. Serving(c) \in Nat /\ InBuffer(c) \in Nat
  BY DEF Serving, InBuffer
<1> QED
  BY <1>2, <1>3 DEF Taken

-----------------------------------------------------------------------------
(* A queue of packets, when one is taken and when one is put at its end.    *)
LEMMA HeadAndTail ==
  ASSUME NEW s \in Seq(Packets), s # <<>>
  PROVE  /\ Head(s) = s[1] /\ Head(s) \in Packets /\ 1 \in DOMAIN s
         /\ Tail(s) \in Seq(Packets)
         /\ \A i \in DOMAIN Tail(s) : i \in Nat /\ i + 1 \in DOMAIN s
                                      /\ i + 1 > 1 /\ Tail(s)[i] = s[i + 1]
         /\ \A i \in DOMAIN s : i # 1 => i \in Nat /\ i > 1 /\ i - 1 \in DOMAIN Tail(s)
                                         /\ Tail(s)[i - 1] = s[i]
OBVIOUS

LEMMA PutAtEnd ==
  ASSUME NEW s \in Seq(Packets), NEW m \in Packets
  PROVE  /\ Append(s, m) \in Seq(Packets)
         /\ DOMAIN Append(s, m) = DOMAIN s \union {Len(s) + 1}
         /\ Len(s) + 1 \notin DOMAIN s /\ Len(s) \in Nat
         /\ Append(s, m)[Len(s) + 1] = m
         /\ \A i \in DOMAIN s : i \in Nat /\ i < Len(s) + 1
                                /\ Append(s, m)[i] = s[i]
OBVIOUS

(* What stays as it is when the server's socket, its clients and what is    *)
(* taken of them do.                                                        *)
LEMMA SameWay ==
  ASSUME SocketInv, UNCHANGED sent, ~Killed' => ~Killed /\ inbox' = inbox,
         reader' # "ended" => reader # "ended",
         \A c \in Clients :
           handler'[c] # "left" => handler[c] # "left" /\ Taken(c)' = Taken(c)
  PROVE  UnderWay'
BY DEF SocketInv, UnderWay, NoneMissing, InSocket

(* What a step of a client leaves alone when it sends nothing.              *)
LEMMA SameServer ==
  ASSUME SocketInv, UNCHANGED <<inbox, serverVars, sent>>,
         \A c \in Clients : app'[c] # "none" => app[c] # "none"
  PROVE  IntroducedOnce' /\ HandshakeFirst' /\ HandledOwn' /\ AtItsNext'
         /\ HandsItsNext' /\ UnderWay'
<1> USE DEF SocketInv, serverVars
<1>1. IntroducedOnce' /\ HandledOwn'
  BY DEF IntroducedOnce, HandledOwn
<1>2. AtItsNext' /\ HandsItsNext'
  BY DEF AtItsNext, HandsItsNext, Serving
<1>3. \A c \in Clients : Taken(c)' = Taken(c)
  BY DEF Taken, Serving, InBuffer
<1>4. UnderWay'
  BY <1>3, SameWay DEF Killed
<1>5. HandshakeFirst'
  BY DEF HandshakeFirst, Killed
<1> QED
  BY <1>1, <1>2, <1>4, <1>5

(* What a step of others leaves alone of the answers to a client.           *)
LEMMA SameAnswers ==
  ASSUME SocketInv, NEW c \in Clients,
         answers'[c] = answers[c], outbox'[c] = outbox[c],
         handled'[c] = handled[c],
         ear'[c] = "holding" => ear[c] = "holding" /\ held'[c] = held[c]
  PROVE  AnswersTo(c)'
BY DEF SocketInv, AnswersInOrder, AnswersTo, AnswersAre, Ascending, Before

-----------------------------------------------------------------------------
(* Clients.                                                                 *)

(* A client starts: its handshake is behind all that it sent before.        *)
LEMMA StepDial ==
  ASSUME SocketInv, NEW c \in Clients, Dial(c)
  PROVE  SocketInv'
<1> USE DEF SocketInv
<1> DEFINE m == connPacket(c)
<1>1. m \in Packets /\ m.from = c /\ m.is = "ANKICONN"
  BY DEF connPacket, Packets
<1> HIDE DEF m
<1>2. inbox' = Append(inbox, m) /\ inbox \in Seq(Packets)
      /\ UNCHANGED <<serverVars, sent, held, answers>>
      /\ app' = [app EXCEPT ![c] = "open"] /\ ear' = [ear EXCEPT ![c] = "reading"]
      /\ outbox' = [outbox EXCEPT ![c] = <<>>]
      /\ dials' = [dials EXCEPT ![c] = @ + 1]
      /\ ~Killed /\ ~Killed'
  BY DEF Dial, Writable, Killed, m, serverVars, SocketTypeOK
<1>3. SocketTypeOK'
  <2>1. inbox' \in Seq(Packets)
    BY <1>1, <1>2, PutAtEnd
  <2>2. dials' \in [Clients -> Nat]
    BY <1>2 DEF SocketTypeOK
  <2> QED
    BY <1>2, <2>1, <2>2 DEF SocketTypeOK, serverVars
<1>4. IntroducedOnce' /\ HandledOwn' /\ AtItsNext' /\ HandsItsNext'
  BY <1>2 DEF IntroducedOnce, HandledOwn, AtItsNext, HandsItsNext, Serving,
              serverVars
<1>5. HandshakeFirst'
  <2> SUFFICES ASSUME NEW d \in Clients \ known
               PROVE  /\ app'[d] # "none" =>
                           \E i \in DOMAIN inbox' : inbox'[i] = connPacket(d)
                      /\ \A i \in DOMAIN inbox' : IsData(inbox'[i], d) =>
                           \E j \in DOMAIN inbox' :
                             j < i /\ inbox'[j] = connPacket(d)
    BY <1>2 DEF HandshakeFirst, serverVars
  <2>1. DOMAIN inbox' = DOMAIN inbox \union {Len(inbox) + 1}
        /\ inbox'[Len(inbox) + 1] = m
        /\ \A i \in DOMAIN inbox : inbox'[i] = inbox[i]
    BY <1>1, <1>2, PutAtEnd
  <2>2. d # c => app'[d] = app[d]
    BY <1>2 DEF SocketTypeOK
  <2> QED
    BY <1>1, <1>2, <2>1, <2>2 DEF HandshakeFirst, IsData, m
<1>6. UnderWay'
  <2> SUFFICES ASSUME reader # "ended", NEW d \in Clients, handler[d] # "left"
               PROVE  NoneMissing(d)'
    BY <1>2 DEF UnderWay, serverVars
  <2>1. Taken(d)' = Taken(d) /\ sent' = sent /\ NoneMissing(d)
    BY <1>2 DEF Taken, Serving, InBuffer, serverVars, UnderWay
  <2>2. /\ DOMAIN inbox' = DOMAIN inbox \union {Len(inbox) + 1}
        /\ ~IsData(inbox'[Len(inbox) + 1], d)
        /\ \A i \in DOMAIN inbox : inbox'[i] = inbox[i]
    BY <1>1, <1>2, PutAtEnd DEF IsData
  <2> QED
    BY <1>2, <2>1, <2>2 DEF NoneMissing, InSocket
<1>7. AnswersInOrder'
  BY <1>2 DEF AnswersInOrder, AnswersTo, AnswersAre, Ascending, Before,
              SocketTypeOK, serverVars
<1> QED
  BY <1>3, <1>4, <1>5, <1>6, <1>7

(* It sends its next datagram.                                              *)
LEMMA StepWrite ==
  ASSUME SocketInv, NEW c \in Clients, Write(c)
  PROVE  SocketInv'
<1> USE DEF SocketInv
<1>1. PICK m \in {Request(c, sent[c] + 1), Nothing(c, sent[c] + 1)} :
        inbox' = Append(inbox, m)
  BY DEF Write
<1>2. m \in Packets /\ IsData(m, c) /\ m.n = sent[c] + 1 /\ sent[c] \in Nat
      /\ m.from = c
  BY <1>1 DEF Request, Nothing, IsData, Packets, SocketTypeOK
<1>3. /\ inbox \in Seq(Packets) /\ app[c] = "open"
      /\ sent' = [sent EXCEPT ![c] = @ + 1]
      /\ UNCHANGED <<serverVars, dials, app, outbox, ear, held, answers>>
      /\ ~Killed /\ ~Killed'
  BY DEF Write, Writable, Killed, serverVars, SocketTypeOK
<1>4. /\ inbox' \in Seq(Packets)
      /\ DOMAIN inbox' = DOMAIN inbox \union {Len(inbox) + 1}
      /\ Len(inbox) + 1 \notin DOMAIN inbox /\ Len(inbox) \in Nat
      /\ inbox'[Len(inbox) + 1] = m
      /\ \A i \in DOMAIN inbox : i \in Nat /\ i < Len(inbox) + 1
                                 /\ inbox'[i] = inbox[i]
  BY <1>1, <1>2, <1>3, PutAtEnd
<1>5. SocketTypeOK'
  <2>1. sent' \in [Clients -> Nat]
    BY <1>3 DEF SocketTypeOK
  <2> QED
    BY <1>3, <1>4, <2>1 DEF SocketTypeOK, serverVars
<1>6. IntroducedOnce' /\ HandledOwn' /\ AtItsNext' /\ HandsItsNext'
  BY <1>3 DEF IntroducedOnce, HandledOwn, AtItsNext, HandsItsNext, Serving,
              serverVars
<1>7. HandshakeFirst'
  <2> SUFFICES ASSUME NEW d \in Clients \ known
               PROVE  /\ app[d] # "none" =>
                           \E i \in DOMAIN inbox' : inbox'[i] = connPacket(d)
                      /\ \A i \in DOMAIN inbox' : IsData(inbox'[i], d) =>
                           \E j \in DOMAIN inbox' :
                             j < i /\ inbox'[j] = connPacket(d)
    BY <1>3 DEF HandshakeFirst, serverVars
  <2>1. ASSUME IsData(m, d)
        PROVE  \E j \in DOMAIN inbox :
                 j < Len(inbox) + 1 /\ inbox'[j] = connPacket(d)
    <3>1. d = c /\ app[d] # "none"
      BY <1>2, <1>3, <2>1 DEF IsData
    <3> QED
      BY <1>3, <1>4, <3>1 DEF HandshakeFirst
  <2> QED
    BY <1>3, <1>4, <2>1 DEF HandshakeFirst
<1>8. UnderWay'
  <2> SUFFICES ASSUME reader # "ended", NEW d \in Clients, handler[d] # "left"
               PROVE  NoneMissing(d)'
    BY <1>3 DEF UnderWay, serverVars
  <2>1. Taken(d)' = Taken(d) /\ NoneMissing(d)
    BY <1>3 DEF Taken, Serving, InBuffer, serverVars, UnderWay
  <2>2. CASE d # c
    <3>1. ~IsData(m, d) /\ sent'[d] = sent[d]
      BY <1>2, <1>3, <2>2 DEF IsData, SocketTypeOK
    <3> QED
      BY <1>3, <1>4, <2>1, <3>1 DEF NoneMissing, InSocket
  <2>3. CASE d = c
    <3>1. sent'[c] = sent[c] + 1
      BY <1>3 DEF SocketTypeOK
    <3>2. Taken(c) \in Nat
      BY TakenIsNat
    <3> DEFINE l == Len(inbox) + 1
               t == Taken(c)
    <3>3. t <= sent[c] /\ t \in Nat /\ l \in Nat
      BY <2>1, <2>3, <3>2, <1>4 DEF NoneMissing
    <3>4. \A i \in DOMAIN inbox : IsData(inbox[i], c) =>
            t < inbox[i].n /\ inbox[i].n <= sent[c] /\ inbox[i].n \in Nat
      <4>1. \A i \in DOMAIN inbox : inbox[i] \in Packets
        BY <1>3
      <4>2. \A i \in DOMAIN inbox : inbox[i].n \in Nat
        BY <4>1 DEF Packets
      <4> QED
        BY <1>3, <2>1, <2>3, <4>2 DEF NoneMissing, InSocket
    <3>5. \A i \in DOMAIN inbox' :
            \/ i = l /\ inbox'[i] = m
            \/ i \in DOMAIN inbox /\ inbox'[i] = inbox[i] /\ i < l
      BY <1>4
    <3>6. \A i, j \in DOMAIN inbox' :
            IsData(inbox'[i], c) /\ IsData(inbox'[j], c) /\ i < j
              => inbox'[i].n < inbox'[j].n
      <4> SUFFICES ASSUME NEW i \in DOMAIN inbox', NEW j \in DOMAIN inbox',
                          IsData(inbox'[i], c), IsData(inbox'[j], c), i < j
                   PROVE  inbox'[i].n < inbox'[j].n
        OBVIOUS
      <4>1. CASE j = l
        <5>1. i \in DOMAIN inbox /\ inbox'[i] = inbox[i]
          BY <1>4, <3>3, <3>5, <4>1
        <5> QED
          BY <1>2, <1>4, <3>4, <4>1, <5>1
      <4>2. CASE j # l
        <5>1. j \in DOMAIN inbox /\ i \in DOMAIN inbox /\ inbox'[j] = inbox[j]
              /\ inbox'[i] = inbox[i]
          BY <1>4, <3>3, <3>5, <4>2
        <5> QED
          BY <1>3, <2>1, <2>3, <5>1 DEF NoneMissing, InSocket
      <4> QED
        BY <4>1, <4>2
    <3>7. \A i \in DOMAIN inbox' : IsData(inbox'[i], c) =>
            t < inbox'[i].n /\ inbox'[i].n <= sent[c] + 1
      <4> HIDE DEF t, l
      <4> QED
        BY <1>2, <3>3, <3>4, <3>5
    <3>8. \A n \in Nat : t < n /\ n <= sent[c] + 1 =>
            \E i \in DOMAIN inbox' : IsData(inbox'[i], c) /\ inbox'[i].n = n
      <4> SUFFICES ASSUME NEW n \in Nat, t < n, n <= sent[c] + 1
                   PROVE  \E i \in DOMAIN inbox' :
                            IsData(inbox'[i], c) /\ inbox'[i].n = n
        OBVIOUS
      <4>1. CASE n = sent[c] + 1
        BY <1>2, <1>4, <4>1
      <4>2. CASE n # sent[c] + 1
        <5>1. n <= sent[c]
          BY <1>2, <4>2
        <5>2. PICK i \in DOMAIN inbox : IsData(inbox[i], c) /\ inbox[i].n = n
          BY <1>3, <2>1, <2>3, <5>1 DEF NoneMissing, InSocket
        <5> QED
          BY <1>4, <5>2
      <4> QED
        BY <4>1, <4>2
    <3> HIDE DEF t
    <3>9. t <= sent[c] + 1
      BY <1>2, <3>3
    <3>10. Taken(c)' = t
      BY <2>1, <2>3 DEF t
    <3> QED
      BY <2>3, <3>1, <3>6, <3>7, <3>8, <3>9, <3>10 DEF NoneMissing, InSocket
  <2> QED
    BY <2>2, <2>3
<1>9. AnswersInOrder'
  BY <1>3, SameAnswers DEF AnswersInOrder, serverVars
<1> QED
  BY <1>5, <1>6, <1>7, <1>8, <1>9

(* What was on its way to a client reaches it in the order it was sent, or  *)
(* is given up from its beginning.                                          *)
LEMMA StepHear ==
  ASSUME SocketInv, NEW c \in Clients, Hear(c) \/ ReadBlock(c)
  PROVE  SocketInv'
<1> USE DEF SocketInv
<1>1. UNCHANGED <<inbox, serverVars, dials, app, sent>>
  BY DEF Hear, ReadBlock
<1>2. IntroducedOnce' /\ HandshakeFirst' /\ HandledOwn' /\ AtItsNext'
      /\ HandsItsNext' /\ UnderWay'
  BY <1>1, SameServer
<1>3. UNCHANGED handled
  BY <1>1 DEF serverVars
<1>4. CASE Hear(c)
  <2> DEFINE s == outbox[c]
  <2>1. s \in Seq(Packets) /\ s # <<>>
    BY <1>4 DEF Hear, SocketTypeOK
  <2>2. /\ held' = [held EXCEPT ![c] = Head(s)]
        /\ outbox' = [outbox EXCEPT ![c] = Tail(s)]
        /\ ear' = [ear EXCEPT ![c] = "holding"] /\ UNCHANGED answers
    BY <1>4 DEF Hear
  <2>3. Head(s) \in Packets /\ Tail(s) \in Seq(Packets) /\ Head(s) = s[1]
        /\ 1 \in DOMAIN s
        /\ \A i \in DOMAIN Tail(s) : i \in Nat /\ i + 1 \in DOMAIN s /\ i + 1 > 1
                                     /\ Tail(s)[i] = s[i + 1]
    BY <2>1, HeadAndTail
  <2>4. SocketTypeOK'
    BY <1>1, <2>2, <2>3 DEF SocketTypeOK, serverVars
  <2>5. AnswersAre(s, c) /\ \A i \in DOMAIN s : Before(answers[c], s[i].n)
    BY DEF AnswersInOrder, AnswersTo
  <2>6. AnswersAre(Tail(s), c)
    <3>1. \A i \in DOMAIN Tail(s) :
            Tail(s)[i].from = c /\ Tail(s)[i].n <= Len(handled[c])
      BY <2>3, <2>5 DEF AnswersAre
    <3>2. Ascending(Tail(s))
      <4> SUFFICES ASSUME NEW i \in DOMAIN Tail(s), NEW j \in DOMAIN Tail(s), i < j
                   PROVE  Tail(s)[i].n < Tail(s)[j].n
        BY DEF Ascending
      <4>1. i + 1 < j + 1 /\ i + 1 \in DOMAIN s /\ j + 1 \in DOMAIN s
        BY <2>3
      <4>2. s[i + 1].n < s[j + 1].n
        BY <2>5, <4>1 DEF AnswersAre, Ascending
      <4> QED
        BY <2>3, <4>2
    <3> QED
      BY <3>1, <3>2 DEF AnswersAre
  <2>7. \A i \in DOMAIN Tail(s) :
          Before(answers[c], Tail(s)[i].n) /\ Head(s).n < Tail(s)[i].n
    <3> SUFFICES ASSUME NEW i \in DOMAIN Tail(s)
                 PROVE  Before(answers[c], Tail(s)[i].n) /\ Head(s).n < Tail(s)[i].n
      OBVIOUS
    <3>1. i + 1 \in DOMAIN s /\ 1 < i + 1 /\ Tail(s)[i] = s[i + 1]
      BY <2>3
    <3>2. s[1].n < s[i + 1].n
      BY <2>3, <2>5, <3>1 DEF AnswersAre, Ascending
    <3> QED
      BY <2>3, <2>5, <3>1, <3>2
  <2>8. Head(s).from = c /\ Head(s).n <= Len(handled[c])
        /\ Before(answers[c], Head(s).n)
    BY <2>3, <2>5 DEF AnswersAre
  <2> HIDE DEF s
  <2>9. AnswersInOrder'
    <3> SUFFICES ASSUME NEW d \in Clients PROVE AnswersTo(d)'
      BY DEF AnswersInOrder
    <3>1. CASE d = c
      <4>1. outbox'[c] = Tail(s) /\ held'[c] = Head(s) /\ answers'[c] = answers[c]
        BY <2>2 DEF SocketTypeOK
      <4>2. AnswersAre(answers[c], c)' /\ AnswersAre(outbox[c], c)'
        BY <1>3, <2>6, <4>1 DEF AnswersInOrder, AnswersTo, AnswersAre, Ascending
      <4>3. \A i \in DOMAIN outbox'[c] : Before(answers[c], outbox[c][i].n)'
        BY <2>7, <4>1 DEF Before
      <4>4. Before(answers[c], held[c].n)'
        BY <2>8, <4>1 DEF Before
      <4> QED
        BY <1>3, <2>3, <2>7, <2>8, <3>1, <4>1, <4>2, <4>3, <4>4 DEF AnswersTo
    <3>2. CASE d # c
      <4>1. outbox'[d] = outbox[d] /\ held'[d] = held[d] /\ answers'[d] = answers[d]
            /\ ear'[d] = ear[d]
        BY <2>2, <3>2 DEF SocketTypeOK
      <4> QED
        BY <1>3, <4>1, SameAnswers
    <3> QED
      BY <3>1, <3>2
  <2> QED
    BY <1>2, <2>4, <2>9
<1>5. CASE ReadBlock(c)
  <2> DEFINE s == answers[c]
             m == held[c]
             l == Len(s) + 1
  <2>1. /\ answers' = [answers EXCEPT ![c] = Append(s, m)]
        /\ held' = [held EXCEPT ![c] = NoData]
        /\ ear' = [ear EXCEPT ![c] = "reading"]
        /\ ear[c] = "holding" /\ UNCHANGED outbox
    BY <1>5 DEF ReadBlock
  <2>2. s \in Seq(Packets) /\ m \in Packets /\ m.from = c
        /\ m.n <= Len(handled[c]) /\ Before(s, m.n) /\ AnswersAre(s, c)
        /\ AnswersAre(outbox[c], c)
        /\ \A i \in DOMAIN outbox[c] : m.n < outbox[c][i].n /\ Before(s, outbox[c][i].n)
    BY <2>1 DEF AnswersInOrder, AnswersTo, SocketTypeOK
  <2>3. /\ Append(s, m) \in Seq(Packets)
        /\ DOMAIN Append(s, m) = DOMAIN s \union {l} /\ l \notin DOMAIN s
        /\ Append(s, m)[l] = m /\ l \in Nat
        /\ \A i \in DOMAIN s : i \in Nat /\ i < l /\ Append(s, m)[i] = s[i]
    BY <2>2, PutAtEnd
  <2>4. SocketTypeOK'
    BY <1>1, <2>1, <2>3 DEF SocketTypeOK, serverVars
  <2> HIDE DEF s, m, l
  <2>5. AnswersAre(Append(s, m), c)
    <3>1. \A i \in DOMAIN Append(s, m) : i \in Nat
      BY <2>3
    <3>2. Ascending(Append(s, m))
      <4> SUFFICES ASSUME NEW i \in DOMAIN Append(s, m),
                          NEW j \in DOMAIN Append(s, m), i < j
                   PROVE  Append(s, m)[i].n < Append(s, m)[j].n
        BY DEF Ascending
      <4>1. i \in DOMAIN s
        BY <2>3
      <4>2. CASE j = l
        BY <2>2, <2>3, <4>1, <4>2 DEF Before
      <4>3. CASE j # l
        BY <2>2, <2>3, <4>1, <4>3 DEF AnswersAre, Ascending
      <4> QED
        BY <4>2, <4>3
    <3> QED
      BY <2>2, <2>3, <3>2 DEF AnswersAre
  <2>6. \A i \in DOMAIN outbox[c] : Before(Append(s, m), outbox[c][i].n)
    BY <2>2, <2>3 DEF Before
  <2>7. AnswersInOrder'
    <3> SUFFICES ASSUME NEW d \in Clients PROVE AnswersTo(d)'
      BY DEF AnswersInOrder
    <3>1. CASE d = c
      <4>1. answers'[c] = Append(s, m) /\ ear'[c] = "reading"
        BY <2>1 DEF SocketTypeOK
      <4> QED
        BY <1>3, <2>1, <2>2, <2>5, <2>6, <3>1, <4>1
        DEF AnswersTo, AnswersAre, Ascending, Before
    <3>2. CASE d # c
      <4>1. held'[d] = held[d] /\ answers'[d] = answers[d] /\ ear'[d] = ear[d]
        BY <2>1, <3>2 DEF SocketTypeOK
      <4> QED
        BY <1>3, <2>1, <4>1, SameAnswers
    <3> QED
      BY <3>1, <3>2
  <2> QED
    BY <1>2, <2>4, <2>7
<1> QED
  BY <1>4, <1>5

(* A client is closed, its reader gives up what it holds and ends.          *)
LEMMA StepClose ==
  ASSUME SocketInv, NEW c \in Clients,
         CloseClient(c) \/ Drop(c) \/ HearNoMore(c) \/ ClientClosed(c)
  PROVE  SocketInv'
<1> USE DEF SocketInv
<1>1. UNCHANGED <<inbox, serverVars, dials, sent, outbox, answers>>
  BY DEF CloseClient, Drop, HearNoMore, ClientClosed
<1>2. /\ \A d \in Clients : app'[d] # "none" => app[d] # "none"
      /\ \A d \in Clients :
           ear'[d] = "holding" => ear[d] = "holding" /\ held'[d] = held[d]
  BY DEF CloseClient, Drop, HearNoMore, ClientClosed, SocketTypeOK
<1>3. SocketTypeOK'
  BY <1>1 DEF CloseClient, Drop, HearNoMore, ClientClosed, SocketTypeOK,
              serverVars
<1>4. IntroducedOnce' /\ HandledOwn' /\ AtItsNext' /\ HandsItsNext' /\ UnderWay'
      /\ HandshakeFirst'
  BY <1>1, <1>2, SameServer
<1>5. AnswersInOrder'
  BY <1>1, <1>2, SameAnswers DEF AnswersInOrder, serverVars
<1> QED
  BY <1>3, <1>4, <1>5

-----------------------------------------------------------------------------
(* The server. Steps of it that leave its socket and the handlers' work     *)
(* alone.                                                                   *)
LEMMA SameWork ==
  ASSUME SocketInv, UNCHANGED <<handled, request, clientVars>>,
         ~Killed' => ~Killed /\ inbox' = inbox,
         reader' # "ended" => reader # "ended" /\ buf' = buf,
         reader' = "handing" <=> reader = "handing" /\ reader' # "ended",
         known' = known,
         \A c \in Clients :
           \/ handler'[c] = handler[c]
           \/ handler'[c] = "left" /\ handler[c] = "waiting"
           \/ handler'[c] = "stuck" /\ handler[c] = "serving"
           \/ handler'[c] = "waiting" /\ handler[c] = "none"
  PROVE  HandshakeFirst' /\ HandledOwn' /\ AtItsNext' /\ HandsItsNext'
         /\ UnderWay' /\ AnswersInOrder'
<1> USE DEF SocketInv, clientVars
<1>1. HandshakeFirst' /\ HandledOwn'
  BY DEF HandshakeFirst, HandledOwn
<1>2. \A c \in Clients : handler'[c] \in Busy <=> handler[c] \in Busy
  BY DEF SocketTypeOK, Busy
<1>3. \A c \in Clients : Serving(c)' = Serving(c)
  BY <1>2 DEF Serving
<1>4. \A c \in Clients : handler'[c] # "left" => handler[c] # "left"
  OBVIOUS
<1>5. AtItsNext'
  BY <1>2 DEF AtItsNext
<1>6. HandsItsNext'
  <2> SUFFICES ASSUME reader' = "handing" PROVE HandsItsNext'
    BY DEF HandsItsNext
  <2>1. reader = "handing" /\ buf' = buf /\ buf.from \in Clients
    BY DEF HandsItsNext, SocketTypeOK
  <2> QED
    BY <1>3, <1>4, <2>1 DEF HandsItsNext
<1>7. UnderWay'
  <2>1. \A c \in Clients : reader' # "ended" => Taken(c)' = Taken(c)
    BY <1>3 DEF Taken, InBuffer
  <2> QED
    BY <1>4, <2>1 DEF UnderWay, NoneMissing, InSocket
<1>8. AnswersInOrder'
  BY SameAnswers DEF AnswersInOrder
<1> QED
  BY <1>1, <1>5, <1>6, <1>7, <1>8

(* New clients are passed on; goroutines end when the server is closed.     *)
LEMMA StepEnds ==
  ASSUME SocketInv,
         \/ ReadFails \/ ReaderEnds \/ Accept \/ AcceptorEnds
         \/ QueueEnds \/ CloseServer
         \/ \E c \in Clients : \/ Give(c) \/ GiverEnds(c)
                               \/ BlockOnQueue(c) \/ HandlerLeaves(c)
  PROVE  SocketInv'
<1> USE DEF SocketInv
<1>1. CASE ReadFails \/ ReaderEnds \/ AcceptorEnds \/ QueueEnds \/ CloseServer
  <2>1. UNCHANGED <<known, offered, handled, handler, request, clientVars>>
        /\ (UNCHANGED <<reader, buf>> \/ reader' = "ended")
        /\ (~Killed' => ~Killed /\ inbox' = inbox)
    BY <1>1 DEF ReadFails, ReaderEnds, AcceptorEnds, QueueEnds, CloseServer, Killed
  <2>2. SocketTypeOK'
    <3>1. inbox' \in Seq(Packets)
      <4>1. inbox' = inbox \/ inbox' = <<>>
        BY <1>1 DEF ReadFails, ReaderEnds, AcceptorEnds, QueueEnds, CloseServer
      <4> QED
        BY <4>1, NoPackets DEF SocketTypeOK
    <3>2. deserted' \in BOOLEAN
      BY <1>1 DEF ReadFails, ReaderEnds, AcceptorEnds, QueueEnds, CloseServer,
                  SocketTypeOK
    <3> QED
      BY <1>1, <3>1, <3>2 DEF ReadFails, ReaderEnds, AcceptorEnds, QueueEnds,
         CloseServer, SocketTypeOK, clientVars
  <2>3. IntroducedOnce'
    BY <2>1 DEF IntroducedOnce
  <2> QED
    BY <2>1, <2>2, <2>3, SameWork DEF Killed
<1>2. CASE Accept
  <2>1. UNCHANGED <<inbox, closing, buf, known, handled, handler, request,
                    clientVars>>
        /\ reader = "introducing" /\ reader' = "reading"
        /\ offered' = offered \union {buf.from}
    BY <1>2 DEF Accept
  <2>2. buf.from \in known /\ handler[buf.from] = "none"
    BY <2>1 DEF IntroducedOnce
  <2>3. SocketTypeOK'
    BY <1>2, <2>2 DEF Accept, SocketTypeOK, clientVars
  <2>4. IntroducedOnce'
    BY <2>1, <2>2 DEF IntroducedOnce
  <2> QED
    BY <2>1, <2>3, <2>4, SameWork DEF Killed
<1>3. ASSUME NEW c \in Clients, Give(c) PROVE SocketInv'
  <2>1. UNCHANGED <<inbox, closing, buf, known, reader, handled, request,
                    clientVars>>
        /\ c \in offered /\ offered' = offered \ {c}
        /\ handler' = [handler EXCEPT ![c] = "waiting"]
    BY <1>3 DEF Give
  <2>2. c \in known /\ handler[c] = "none"
    BY <2>1 DEF IntroducedOnce
  <2>3. SocketTypeOK'
    BY <1>3 DEF Give, SocketTypeOK, clientVars
  <2>4. IntroducedOnce'
    BY <2>1, <2>2 DEF IntroducedOnce, SocketTypeOK
  <2>5. \A d \in Clients :
          \/ handler'[d] = handler[d]
          \/ handler'[d] = "waiting" /\ handler[d] = "none"
    BY <2>1, <2>2 DEF SocketTypeOK
  <2> QED
    BY <2>1, <2>3, <2>4, <2>5, SameWork DEF Killed
<1>4. ASSUME NEW c \in Clients, GiverEnds(c) PROVE SocketInv'
  <2>1. UNCHANGED <<inbox, closing, buf, known, reader, handled, request, handler,
                    clientVars>>
        /\ offered' = offered \ {c}
    BY <1>4 DEF GiverEnds
  <2>2. SocketTypeOK'
    BY <1>4 DEF GiverEnds, SocketTypeOK, clientVars
  <2>3. IntroducedOnce'
    BY <2>1 DEF IntroducedOnce
  <2> QED
    BY <2>1, <2>2, <2>3, SameWork DEF Killed
<1>5. ASSUME NEW c \in Clients, HandlerLeaves(c) PROVE SocketInv'
  <2>1. UNCHANGED <<inbox, closing, buf, known, reader, offered, handled, request,
                    clientVars>>
        /\ handler[c] = "waiting" /\ handler' = [handler EXCEPT ![c] = "left"]
    BY <1>5 DEF HandlerLeaves
  <2>2. SocketTypeOK'
    BY <1>5 DEF HandlerLeaves, SocketTypeOK, clientVars
  <2>3. IntroducedOnce'
    BY <2>1 DEF IntroducedOnce, SocketTypeOK
  <2>4. \A d \in Clients :
          \/ handler'[d] = handler[d]
          \/ handler'[d] = "left" /\ handler[d] = "waiting"
    BY <2>1 DEF SocketTypeOK
  <2> QED
    BY <2>1, <2>2, <2>3, <2>4, SameWork DEF Killed
<1>6. ASSUME NEW c \in Clients, BlockOnQueue(c) PROVE SocketInv'
  <2>1. UNCHANGED <<inbox, closing, buf, known, reader, offered, handled, request,
                    clientVars>>
        /\ handler[c] = "serving" /\ handler' = [handler EXCEPT ![c] = "stuck"]
    BY <1>6 DEF BlockOnQueue
  <2>2. SocketTypeOK'
    BY <1>6 DEF BlockOnQueue, SocketTypeOK, clientVars
  <2>3. IntroducedOnce'
    BY <2>1 DEF IntroducedOnce, SocketTypeOK
  <2>4. \A d \in Clients :
          \/ handler'[d] = handler[d]
          \/ handler'[d] = "stuck" /\ handler[d] = "serving"
    BY <2>1 DEF SocketTypeOK
  <2> QED
    BY <2>1, <2>2, <2>3, <2>4, SameWork DEF Killed
<1> QED
  BY <1>1, <1>2, <1>3, <1>4, <1>5, <1>6

(* The reader takes the first datagram: that of a known client is its next  *)
(* one.                                                                     *)
LEMMA StepReadFrom ==
  ASSUME SocketInv, ReadFrom
  PROVE  SocketInv'
<1> USE DEF SocketInv
<1> DEFINE m == Head(inbox)
<1>1. /\ m \in Packets /\ m = inbox[1] /\ 1 \in DOMAIN inbox
      /\ inbox' = Tail(inbox) /\ inbox' \in Seq(Packets)
      /\ \A i \in DOMAIN inbox' : i \in Nat /\ i + 1 \in DOMAIN inbox /\ i + 1 > 1
                                  /\ inbox'[i] = inbox[i + 1]
      /\ \A i \in DOMAIN inbox : i # 1 =>
           i \in Nat /\ i > 1 /\ i - 1 \in DOMAIN inbox' /\ inbox'[i - 1] = inbox[i]
  BY HeadAndTail DEF ReadFrom, SocketTypeOK
<1>2. /\ reader = "reading" /\ buf' = m
      /\ known' = IF m.is = "ANKICONN" THEN known \union {m.from} ELSE known
      /\ reader' = IF m.from \in known /\ m.is # "ANKICONN" THEN "handing"
                   ELSE IF m.from \notin known /\ m.is = "ANKICONN"
                   THEN "introducing" ELSE "reading"
      /\ UNCHANGED <<acceptor, offered, handler, request, handled, closing,
                     deserted, clientVars>>
      /\ ~Killed /\ ~Killed'
  BY DEF ReadFrom, Killed
<1> HIDE DEF m
<1>3. m.from \in Clients /\ m.n \in Nat
  BY <1>1 DEF Packets
<1>4. SocketTypeOK'
  BY <1>1, <1>2, <1>3 DEF SocketTypeOK, clientVars
<1>5. known \subseteq known' /\ UNCHANGED clientVars
  BY <1>2
<1>6. IntroducedOnce'
  <2>1. m.from \notin known => m.from \notin offered /\ handler[m.from] = "none"
    BY <1>3 DEF IntroducedOnce
  <2> QED
    BY <1>2, <1>5, <2>1 DEF IntroducedOnce
<1>7. HandledOwn' /\ AtItsNext'
  BY <1>2 DEF HandledOwn, AtItsNext
<1>8. AnswersInOrder'
  BY <1>2, SameAnswers DEF AnswersInOrder, clientVars
<1>9. ASSUME NEW c \in Clients \ known
      PROVE  ~IsData(m, c)
  <2> SUFFICES ASSUME IsData(m, c) PROVE FALSE
    OBVIOUS
  <2>1. PICK j \in DOMAIN inbox : j < 1 /\ inbox[j] = connPacket(c)
    BY <1>1, <1>2, <1>9 DEF HandshakeFirst
  <2>2. j = 1 \/ (j \in Nat /\ j > 1)
    BY <1>1
  <2> QED
    BY <2>1, <2>2
<1>10. HandshakeFirst'
  <2> SUFFICES ASSUME NEW c \in Clients \ known'
               PROVE  /\ app[c] # "none" =>
                           \E i \in DOMAIN inbox' : inbox'[i] = connPacket(c)
                      /\ \A i \in DOMAIN inbox' : IsData(inbox'[i], c) =>
                           \E j \in DOMAIN inbox' :
                             j < i /\ inbox'[j] = connPacket(c)
    BY <1>2 DEF HandshakeFirst, clientVars
  <2>1. c \notin known /\ m # connPacket(c)
    BY <1>2 DEF connPacket
  <2>2. ASSUME NEW i \in DOMAIN inbox, inbox[i] = connPacket(c)
        PROVE  i - 1 \in DOMAIN inbox' /\ inbox'[i - 1] = connPacket(c)
               /\ i \in Nat
    <3>1. i # 1
      BY <1>1, <2>1, <2>2
    <3> QED
      BY <1>1, <2>2, <3>1
  <2>3. app[c] # "none" => \E i \in DOMAIN inbox' : inbox'[i] = connPacket(c)
    BY <1>2, <2>1, <2>2 DEF HandshakeFirst
  <2>4. ASSUME NEW i \in DOMAIN inbox', IsData(inbox'[i], c)
        PROVE  \E j \in DOMAIN inbox' : j < i /\ inbox'[j] = connPacket(c)
    <3>1. i \in Nat /\ i + 1 \in DOMAIN inbox /\ IsData(inbox[i + 1], c)
      BY <1>1, <2>4
    <3>2. PICK j \in DOMAIN inbox : j < i + 1 /\ inbox[j] = connPacket(c)
      BY <1>2, <2>1, <3>1 DEF HandshakeFirst
    <3>3. j - 1 \in DOMAIN inbox' /\ inbox'[j - 1] = connPacket(c) /\ j \in Nat
      BY <2>2, <3>2
    <3>4. j - 1 < i
      BY <3>1, <3>2, <3>3
    <3> QED
      BY <3>3, <3>4
  <2> QED
    BY <2>3, <2>4
<1>11. ASSUME NEW c \in Clients, handler[c] # "left"
       PROVE  NoneMissing(c)' /\ (IsData(m, c) => m.n = Taken(c) + 1)
  <2> DEFINE t == Taken(c)
             s == sent[c]
             D(p) == IsData(p, c)
  <2>1. NoneMissing(c)
    BY <1>2, <1>11 DEF UnderWay
  <2>2. InBuffer(c) = 0 /\ t \in Nat /\ s \in Nat /\ sent'[c] = s
    BY <1>2, TakenIsNat DEF InBuffer, SocketTypeOK, clientVars
  <2>3. /\ t <= s
        /\ \A i, j \in DOMAIN inbox :
             D(inbox[i]) /\ D(inbox[j]) /\ i < j => inbox[i].n < inbox[j].n
        /\ \A i \in DOMAIN inbox :
             D(inbox[i]) => t < inbox[i].n /\ inbox[i].n <= s
        /\ \A n \in Nat : t < n /\ n <= s =>
             \E i \in DOMAIN inbox : D(inbox[i]) /\ inbox[i].n = n
    BY <1>2, <2>1 DEF NoneMissing, InSocket
  <2>4. \A i \in DOMAIN inbox : inbox[i].n \in Nat
    <3>1. \A i \in DOMAIN inbox : inbox[i] \in Packets
      BY DEF SocketTypeOK
    <3> QED
      BY <3>1 DEF Packets
  <2>5. Taken(c)' = IF D(m) THEN t + 1 ELSE t
    <3>1. InBuffer(c)' = IF D(m) THEN 1 ELSE 0
      BY <1>2, <1>9 DEF InBuffer, IsData
    <3>2. Serving(c)' = Serving(c) /\ handled' = handled
      BY <1>2 DEF Serving
    <3>3. Len(handled[c]) \in Nat /\ Serving(c) \in Nat
      BY TakenIsNat DEF Serving
    <3> QED
      BY <2>2, <3>1, <3>2, <3>3 DEF Taken
  <2> HIDE DEF t, s, D
  <2>6. D(m) => m.n = t + 1
    <3> SUFFICES ASSUME D(m), m.n # t + 1 PROVE FALSE
      OBVIOUS
    <3>1. t < m.n /\ m.n <= s
      BY <1>1, <2>3
    <3>2. t + 1 \in Nat /\ t < t + 1 /\ t + 1 <= s /\ t + 1 < m.n
      BY <1>3, <2>2, <3>1
    <3>3. PICK i \in DOMAIN inbox : D(inbox[i]) /\ inbox[i].n = t + 1
      BY <2>3, <3>2
    <3>4. i # 1 /\ i > 1
      BY <1>1, <3>3
    <3>5. inbox[1].n < inbox[i].n
      BY <1>1, <2>3, <3>3, <3>4
    <3> QED
      BY <1>1, <1>3, <2>2, <3>2, <3>3, <3>5
  <2>7. \A i, j \in DOMAIN inbox' :
          D(inbox'[i]) /\ D(inbox'[j]) /\ i < j => inbox'[i].n < inbox'[j].n
    <3> SUFFICES ASSUME NEW i \in DOMAIN inbox', NEW j \in DOMAIN inbox',
                        D(inbox'[i]), D(inbox'[j]), i < j
                 PROVE  inbox'[i].n < inbox'[j].n
      OBVIOUS
    <3>1. i + 1 \in DOMAIN inbox /\ j + 1 \in DOMAIN inbox /\ i + 1 < j + 1
          /\ inbox'[i] = inbox[i + 1] /\ inbox'[j] = inbox[j + 1]
      BY <1>1
    <3> QED
      BY <2>3, <3>1
  <2> DEFINE u == IF D(m) THEN t + 1 ELSE t
  <2>8. \A i \in DOMAIN inbox' : D(inbox'[i]) => u < inbox'[i].n /\ inbox'[i].n <= s
    <3> SUFFICES ASSUME NEW i \in DOMAIN inbox', D(inbox'[i])
                 PROVE  u < inbox'[i].n /\ inbox'[i].n <= s
      OBVIOUS
    <3>1. i + 1 \in DOMAIN inbox /\ 1 < i + 1 /\ inbox'[i] = inbox[i + 1]
      BY <1>1
    <3>2. t < inbox'[i].n /\ inbox'[i].n <= s
      BY <2>3, <3>1
    <3>3. D(m) => m.n < inbox'[i].n
      BY <1>1, <2>3, <3>1
    <3> QED
      BY <2>6, <3>2, <3>3
  <2>9. \A n \in Nat : u < n /\ n <= s =>
          \E i \in DOMAIN inbox' : D(inbox'[i]) /\ inbox'[i].n = n
    <3> SUFFICES ASSUME NEW n \in Nat, u < n, n <= s
                 PROVE  \E i \in DOMAIN inbox' : D(inbox'[i]) /\ inbox'[i].n = n
      OBVIOUS
    <3>1. t < n
      BY <2>2
    <3>2. PICK i \in DOMAIN inbox : D(inbox[i]) /\ inbox[i].n = n
      BY <2>3, <3>1
    <3>3. i # 1
      BY <1>1, <2>2, <2>6, <3>2
    <3> QED
      BY <1>1, <3>2, <3>3
  <2>10. u <= s
    <3>1. D(m) => t + 1 <= s
      BY <1>1, <2>3, <2>6
    <3> QED
      BY <2>3, <3>1
  <2> QED
    BY <2>2, <2>5, <2>6, <2>7, <2>8, <2>9, <2>10 DEF NoneMissing, InSocket, D, s, t
<1>12. UnderWay'
  BY <1>2, <1>11 DEF UnderWay
<1>13. HandsItsNext'
  <2> SUFFICES ASSUME reader' = "handing"
               PROVE  /\ m \in Packets /\ m.from \in known' /\ m.is # "ANKICONN"
                      /\ handler[m.from] # "left" =>
                           m.n = Len(handled[m.from]) + Serving(m.from) + 1
    BY <1>2 DEF HandsItsNext, Serving
  <2>1. m.from \in known /\ m.is # "ANKICONN" /\ IsData(m, m.from)
    BY <1>2 DEF IsData
  <2>2. handler[m.from] # "left" => m.n = Taken(m.from) + 1
    BY <1>3, <1>11, <2>1
  <2>3. Taken(m.from) = Len(handled[m.from]) + Serving(m.from)
    <3>1. Len(handled[m.from]) \in Nat /\ Serving(m.from) \in Nat
          /\ InBuffer(m.from) = 0
      BY <1>2, <1>3, TakenIsNat DEF Serving, InBuffer
    <3> QED
      BY <3>1 DEF Taken
  <2> QED
    BY <1>1, <1>5, <2>1, <2>2, <2>3
<1> QED
  BY <1>4, <1>6, <1>7, <1>8, <1>10, <1>12, <1>13

(* The reader hands a datagram over to the handler that waits for it.       *)
LEMMA StepHandOver ==
  ASSUME SocketInv, HandOver
  PROVE  SocketInv'
<1> USE DEF SocketInv
<1>0. PICK c \in Clients : c = buf.from
  BY DEF HandOver, HandsItsNext, SocketTypeOK
<1>1. /\ reader = "handing" /\ reader' = "reading" /\ handler[c] = "waiting"
      /\ handler' = [handler EXCEPT ![c] = "serving"]
      /\ request' = [request EXCEPT ![c] = buf]
      /\ UNCHANGED <<inbox, buf, known, acceptor, offered, handled, closing,
                     deserted, clientVars>>
  BY <1>0 DEF HandOver
<1>2. c \in known /\ c = buf.from /\ buf.is # "ANKICONN" /\ buf \in Packets
      /\ buf.n = Len(handled[c]) + Serving(c) + 1
  BY <1>0, <1>1 DEF HandsItsNext
<1>3. Serving(c) = 0 /\ Serving(c)' = 1 /\ Len(handled[c]) \in Nat
      /\ handler'[c] = "serving" /\ request'[c] = buf
  BY <1>1, <1>2, TakenIsNat DEF Serving, Busy, SocketTypeOK
<1>4. buf.n = Len(handled[c]) + 1
  BY <1>2, <1>3
<1>5. buf \in {Request(c, buf.n), Nothing(c, buf.n)}
  BY <1>2 DEF Packets, Request, Nothing
<1>6. SocketTypeOK'
  BY <1>1, <1>2 DEF SocketTypeOK, clientVars
<1>7. \A d \in Clients : d # c => handler'[d] = handler[d] /\ request'[d] = request[d]
  BY <1>1 DEF SocketTypeOK
<1>8. IntroducedOnce'
  BY <1>1, <1>2, <1>3, <1>7 DEF IntroducedOnce
<1>9. HandshakeFirst' /\ HandledOwn' /\ AnswersInOrder'
  BY <1>1, SameAnswers
  DEF HandshakeFirst, Killed, HandledOwn, AnswersInOrder, clientVars
<1>10. AtItsNext'
  BY <1>1, <1>3, <1>4, <1>5, <1>7 DEF AtItsNext
<1>11. HandsItsNext'
  BY <1>1 DEF HandsItsNext
<1>12. UnderWay'
  <2>1. ASSUME NEW d \in Clients PROVE Taken(d)' = Taken(d)
    <3>1. CASE d = c
      <4>1. InBuffer(c) = 1 /\ InBuffer(c)' = 0 /\ handled' = handled
        BY <1>1, <1>2 DEF InBuffer
      <4> QED
        BY <1>3, <3>1, <4>1 DEF Taken
    <3>2. CASE d # c
      <4>1. InBuffer(d)' = InBuffer(d) /\ Serving(d)' = Serving(d)
            /\ handled' = handled
        BY <1>1, <1>2, <1>7, <3>2 DEF InBuffer, Serving
      <4> QED
        BY <4>1 DEF Taken
    <3> QED
      BY <3>1, <3>2
  <2>2. \A d \in Clients : handler'[d] # "left" => handler[d] # "left"
    BY <1>1, <1>7
  <2> QED
    BY <1>1, <2>1, <2>2, SameWay DEF Killed, clientVars
<1> QED
  BY <1>6, <1>8, <1>9, <1>10, <1>11, <1>12

(* A handler returns at an empty datagram, or handles the request; its      *)
(* answer comes after all that were given before.                           *)
LEMMA StepServe ==
  ASSUME SocketInv, NEW c \in Clients, Serve(c)
  PROVE  SocketInv'
<1> USE DEF SocketInv
<1> DEFINE m == request[c]
           l == Len(handled[c])
<1>1. /\ handler[c] = "serving" /\ request' = [request EXCEPT ![c] = NoData]
      /\ UNCHANGED <<inbox, reader, buf, known, acceptor, offered, closing,
                     deserted, dials, app, sent, ear, held, answers>>
      /\ Killed' = Killed
  BY DEF Serve, Killed
<1>2. /\ m \in {Request(c, l + 1), Nothing(c, l + 1)} /\ l \in Nat
      /\ m \in Packets /\ m.from = c /\ m.n = l + 1 /\ c \in known
  <2>1. m \in {Request(c, l + 1), Nothing(c, l + 1)} /\ l \in Nat /\ c \in known
    BY <1>1, TakenIsNat DEF AtItsNext, Busy, IntroducedOnce
  <2> QED
    BY <2>1 DEF Request, Nothing, Packets
<1>3. HandshakeFirst'
  BY <1>1 DEF HandshakeFirst
<1>4. CASE m.is = "empty"
  <2>1. handler' = [handler EXCEPT ![c] = "left"] /\ UNCHANGED <<handled, outbox>>
    BY <1>4 DEF Serve, RequestOf
  <2>2. \A d \in Clients : handler'[d] = IF d = c THEN "left" ELSE handler[d]
    BY <2>1 DEF SocketTypeOK
  <2>3. SocketTypeOK'
    BY <1>1, <2>1 DEF SocketTypeOK
  <2>4. IntroducedOnce'
    BY <1>1, <1>2, <2>1, <2>2 DEF IntroducedOnce
  <2>5. \A d \in Clients : d # c => Serving(d)' = Serving(d)
    BY <2>2 DEF Serving
  <2>6. HandledOwn'
    BY <2>1 DEF HandledOwn
  <2>7. AtItsNext'
    BY <1>1, <2>1, <2>2 DEF AtItsNext, Busy, SocketTypeOK
  <2>8. HandsItsNext'
    <3>1. reader = "handing" => buf.from \in Clients
      BY DEF HandsItsNext, SocketTypeOK
    <3> QED
      BY <1>1, <2>1, <2>2, <2>5, <3>1 DEF HandsItsNext
  <2>9. UnderWay'
    <3>1. \A d \in Clients : handler'[d] # "left" =>
            handler[d] # "left" /\ Taken(d)' = Taken(d)
      BY <1>1, <2>1, <2>2, <2>5 DEF Taken, InBuffer
    <3> QED
      BY <1>1, <3>1, SameWay
  <2>10. AnswersInOrder'
    BY <1>1, <2>1, SameAnswers DEF AnswersInOrder
  <2> QED
    BY <1>3, <2>3, <2>4, <2>6, <2>7, <2>8, <2>9, <2>10
<1>5. CASE m.is # "empty"
  <2>1. /\ handler' = [handler EXCEPT ![c] = "waiting"]
        /\ handled' = [handled EXCEPT ![c] = Append(@, m)]
        /\ outbox' = outbox \/ outbox' = [outbox EXCEPT ![c] = Append(@, m)]
    BY <1>5 DEF Serve, RequestOf
  <2> DEFINE h == handled[c]
  <2>2. /\ h \in Seq(Packets) /\ Append(h, m) \in Seq(Packets)
        /\ DOMAIN Append(h, m) = DOMAIN h \union {l + 1}
        /\ Append(h, m)[l + 1] = m
        /\ \A i \in DOMAIN h : Append(h, m)[i] = h[i]
        /\ Len(Append(h, m)) = l + 1
    <3>1. h \in Seq(Packets)
      BY DEF SocketTypeOK
    <3> QED
      BY <1>2, <3>1, PutAtEnd
  <2>3. m = Request(c, l + 1)
    BY <1>2, <1>5 DEF Nothing
  <2>4. \A d \in Clients :
          /\ handler'[d] = IF d = c THEN "waiting" ELSE handler[d]
          /\ handled'[d] = IF d = c THEN Append(h, m) ELSE handled[d]
    BY <2>1 DEF SocketTypeOK
  <2>5. outbox' \in [Clients -> Seq(Packets)]
        /\ handled' \in [Clients -> Seq(Packets)]
    <3>1. outbox[c] \in Seq(Packets)
      BY DEF SocketTypeOK
    <3>2. Append(outbox[c], m) \in Seq(Packets)
      BY <1>2, <3>1, PutAtEnd
    <3> QED
      BY <2>1, <2>2, <3>2 DEF SocketTypeOK
  <2>6. SocketTypeOK'
    BY <1>1, <2>1, <2>5 DEF SocketTypeOK
  <2> HIDE DEF m, l, h
  <2>7. IntroducedOnce'
    BY <1>1, <1>2, <2>1, <2>4 DEF IntroducedOnce
  <2>8. HandledOwn'
    <3> SUFFICES ASSUME NEW d \in Clients, NEW i \in DOMAIN handled'[d]
                 PROVE  handled'[d][i] = Request(d, i)
      BY DEF HandledOwn
    <3>1. CASE d = c
      <4>1. i \in DOMAIN h \union {l + 1} /\ handled'[c][i] = Append(h, m)[i]
        BY <2>2, <2>4, <3>1
      <4>2. i \in DOMAIN h => h[i] = Request(c, i)
        BY DEF HandledOwn, h
      <4> QED
        BY <2>2, <2>3, <3>1, <4>1, <4>2
    <3>2. CASE d # c
      BY <2>4, <3>2 DEF HandledOwn
    <3> QED
      BY <3>1, <3>2
  <2>9. AtItsNext'
    BY <1>1, <2>4 DEF AtItsNext, Busy, SocketTypeOK
  <2>10. ASSUME NEW d \in Clients
         PROVE  Len(handled[d])' + Serving(d)' = Len(handled[d]) + Serving(d)
    <3>1. CASE d = c
      <4>1. Len(handled'[c]) = l + 1 /\ Len(handled[c]) = l
        BY <2>2, <2>4 DEF l
      <4>2. Serving(c) = 1 /\ Serving(c)' = 0
        BY <1>1, <2>4 DEF Serving, Busy
      <4> QED
        BY <1>2, <3>1, <4>1, <4>2
    <3>2. CASE d # c
      BY <2>4, <3>2 DEF Serving
    <3> QED
      BY <3>1, <3>2
  <2>11. HandsItsNext'
    <3>1. reader = "handing" => buf.from \in Clients
      BY DEF HandsItsNext, SocketTypeOK
    <3> QED
      BY <1>1, <2>4, <2>10, <3>1 DEF HandsItsNext
  <2>12. UnderWay'
    <3>1. \A d \in Clients : Taken(d)' = Taken(d)
      BY <1>1, <2>10 DEF Taken, InBuffer
    <3>2. \A d \in Clients : handler'[d] # "left" => handler[d] # "left"
      BY <1>1, <2>4
    <3> QED
      BY <1>1, <3>1, <3>2, SameWay
  <2>13. AnswersInOrder'
    <3> SUFFICES ASSUME NEW d \in Clients PROVE AnswersTo(d)'
      BY DEF AnswersInOrder
    <3>1. AnswersTo(d)
      BY DEF AnswersInOrder
    <3>2. CASE d # c
      <4>1. outbox'[d] = outbox[d] /\ handled'[d] = handled[d]
        BY <2>1, <2>4, <3>2 DEF SocketTypeOK
      <4> QED
        BY <1>1, <4>1, SameAnswers
    <3>3. CASE d = c
      <4> DEFINE o == outbox[c]
                 k == Len(o) + 1
      <4>1. o \in Seq(Packets) /\ answers[c] \in Seq(Packets)
        BY DEF SocketTypeOK
      <4>2. Len(handled'[c]) = l + 1 /\ Len(handled[c]) = l
        BY <2>2, <2>4 DEF l
      <4>3. \A p \in Packets : p.n <= l => p.n < l + 1 /\ p.n <= l + 1
        BY <1>2 DEF Packets
      <4>4. /\ \A i \in DOMAIN o : o[i] \in Packets /\ o[i].from = c /\ o[i].n <= l
            /\ \A i \in DOMAIN answers[c] :
                 answers[c][i] \in Packets /\ answers[c][i].from = c
                 /\ answers[c][i].n <= l
            /\ Ascending(o) /\ Ascending(answers[c])
        BY <3>1, <3>3, <4>1, <4>2 DEF AnswersTo, AnswersAre
      <4>5. AnswersAre(answers[c], c)'
        BY <1>1, <4>2, <4>3, <4>4 DEF AnswersAre, Ascending
      <4>6. CASE outbox' = outbox
        <5>1. AnswersAre(outbox[c], c)'
          BY <4>2, <4>3, <4>4, <4>6 DEF AnswersAre, Ascending
        <5> QED
          BY <1>1, <3>1, <3>3, <4>2, <4>3, <4>5, <4>6, <5>1
          DEF AnswersTo, Before
      <4>7. CASE outbox' = [outbox EXCEPT ![c] = Append(@, m)]
        <5>1. outbox'[c] = Append(o, m)
          BY <4>7 DEF SocketTypeOK
        <5>2. /\ DOMAIN Append(o, m) = DOMAIN o \union {k} /\ k \notin DOMAIN o
              /\ Append(o, m)[k] = m /\ k \in Nat
              /\ \A i \in DOMAIN o : i \in Nat /\ i < k /\ Append(o, m)[i] = o[i]
          BY <1>2, <4>1, PutAtEnd
        <5> HIDE DEF o, k
        <5>3. Ascending(Append(o, m))
          <6> SUFFICES ASSUME NEW i \in DOMAIN Append(o, m),
                              NEW j \in DOMAIN Append(o, m), i < j
                       PROVE  Append(o, m)[i].n < Append(o, m)[j].n
            BY DEF Ascending
          <6>1. i \in DOMAIN o
            BY <5>2
          <6>2. CASE j = k
            BY <1>2, <4>3, <4>4, <5>2, <6>1, <6>2
          <6>3. CASE j # k
            BY <4>4, <5>2, <6>1, <6>3 DEF Ascending
          <6> QED
            BY <6>2, <6>3
        <5>4. \A i \in DOMAIN Append(o, m) :
                Append(o, m)[i].from = c /\ Append(o, m)[i].n <= l + 1
          BY <1>2, <4>3, <4>4, <5>2
        <5>5. AnswersAre(outbox[c], c)'
          BY <4>2, <5>1, <5>3, <5>4 DEF AnswersAre
        <5>6. \A i \in DOMAIN outbox'[c] : Before(answers[c], outbox[c][i].n)'
          <6>1. \A i \in DOMAIN o : Before(answers[c], o[i].n)
            BY <3>1, <3>3 DEF AnswersTo, o
          <6>2. Before(answers[c], m.n)
            BY <1>2, <4>3, <4>4 DEF Before
          <6> QED
            BY <1>1, <5>1, <5>2, <6>1, <6>2 DEF Before
        <5>7. ASSUME ear'[c] = "holding"
              PROVE  /\ held'[c] \in Packets
                     /\ held'[c].from = c /\ held'[c].n <= Len(handled'[c])
                     /\ Before(answers[c], held[c].n)'
                     /\ \A i \in DOMAIN outbox'[c] : held'[c].n < outbox'[c][i].n
          <6>1. /\ held[c] \in Packets /\ held[c].from = c /\ held[c].n <= l
                /\ Before(answers[c], held[c].n)
                /\ \A i \in DOMAIN o : held[c].n < o[i].n
            BY <1>1, <3>1, <3>3, <4>2, <5>7 DEF AnswersTo, o
          <6>2. \A i \in DOMAIN Append(o, m) : held[c].n < Append(o, m)[i].n
            BY <1>2, <4>3, <5>2, <6>1
          <6> QED
            BY <1>1, <4>2, <4>3, <5>1, <6>1, <6>2 DEF Before
        <5> QED
          BY <3>3, <4>5, <5>5, <5>6, <5>7 DEF AnswersTo
      <4> QED
        BY <2>1, <4>6, <4>7
    <3> QED
      BY <3>2, <3>3
  <2> QED
    BY <1>3, <2>6, <2>7, <2>8, <2>9, <2>11, <2>12, <2>13
<1> QED
  BY <1>4, <1>5

-----------------------------------------------------------------------------
(* Every step of both ends.                                                 *)
LEMMA SocketStepInv == SocketInv /\ [Next]_vars => SocketInv'
<1> SUFFICES ASSUME SocketInv, [Next]_vars PROVE SocketInv'
  OBVIOUS
<1>1. CASE UNCHANGED vars
  <2>1. UNCHANGED <<inbox, serverVars, clientVars>>
    BY <1>1 DEF vars
  <2>2. SocketTypeOK'
    BY <2>1 DEF SocketInv, SocketTypeOK, serverVars, clientVars
  <2>3. AnswersInOrder'
    BY <2>1, SameAnswers DEF SocketInv, AnswersInOrder, serverVars, clientVars
  <2> QED
    BY <2>1, <2>2, <2>3, SameServer DEF SocketInv, clientVars
<1>2. CASE Next
  BY <1>2, StepDial, StepWrite, StepHear, StepClose, StepEnds, StepReadFrom,
     StepHandOver, StepServe
  DEF Next, ServerRuns, ConnRuns, ClientRuns
<1> QED
  BY <1>1, <1>2

(* Every reachable state: its types; a client is introduced once and before *)
(* its data; its datagrams are handled, handed over and in the socket one   *)
(* after the other, none missing, until its handler returns or the reader   *)
(* ends; its answers are of requests that were handled, in that order.      *)
THEOREM SocketInvariant == FairSpec => []SocketInv
<1>1. Init => SocketInv
  BY SocketInitInv
<1>2. SocketInv /\ [Next]_vars => SocketInv'
  BY SocketStepInv
<1>3. Init /\ [][Next]_vars => []SocketInv
  BY <1>1, <1>2, PTL
<1> QED
  BY <1>3, PTL DEF FairSpec

(* The state of both ends of the sockets is well typed.                     *)
THEOREM SocketTypeCorrect == FairSpec => []SocketTypeOK
<1>1. SocketInv => SocketTypeOK
  BY DEF SocketInv
<1> QED
  BY <1>1, SocketInvariant, PTL

(* For any number of clients that share the reader's buffer, whatever each  *)
(* of them is started and closed: a handler handles the requests of its own *)
(* client, all of them and in order, and a client's answers are its own, in *)
(* order.                                                                   *)
THEOREM InOwnOrder == FairSpec => []OwnInOrder
<1>1. SocketInv => OwnInOrder
  BY DEF SocketInv, OwnInOrder, HandledOwn, AnswersInOrder, AnswersTo, AnswersAre
<1> QED
  BY <1>1, SocketInvariant, PTL

-----------------------------------------------------------------------------
(* Sockets implement Exchange.                                              *)

(* What a handler has or is at was sent, also when the reader has ended.    *)
NotAhead ==
  \A c \in Clients : handler[c] # "left" =>
    Len(handled[c]) + Serving(c) <= sent[c]

(* Answers are copies of requests that were handled.                        *)
HandledOf(c) == {handled[c][i] : i \in DOMAIN handled[c]}

AnswersReal ==
  \A c \in Clients :
    /\ \A i \in DOMAIN outbox[c] : outbox[c][i] \in HandledOf(c)
    /\ ear[c] = "holding" => held[c] \in HandledOf(c)

(* What a handler does with its request: it returns if that is empty, or    *)
(* adds it to what is handled and may answer it.                            *)
LEMMA ServeHandles ==
  ASSUME SocketInv, NEW c \in Clients, Serve(c)
  PROVE  /\ handled'[c] = handled[c] \/ handled'[c] = Append(handled[c], request[c])
         /\ handled'[c] # handled[c] =>
              /\ request[c] = Request(c, Len(handled[c]) + 1)
              /\ handler'[c] = "waiting"
              /\ handled' = [handled EXCEPT ![c] = Append(@, request[c])]
         /\ handled'[c] = handled[c] =>
              handled' = handled /\ outbox' = outbox /\ handler'[c] = "left"
         /\ outbox' = outbox \/ outbox' = [outbox EXCEPT ![c] = Append(@, request[c])]
         /\ handler[c] = "serving" /\ request[c] \in Packets
         /\ \A d \in Clients \ {c} : /\ handler'[d] = handler[d]
                                     /\ handled'[d] = handled[d]
                                     /\ outbox'[d] = outbox[d]
         /\ UNCHANGED <<sent, ear, held, answers>>
<1> USE DEF SocketInv
<1>1. /\ handler[c] = "serving" /\ UNCHANGED <<sent, ear, held, answers>>
      /\ request[c] \in {Request(c, Len(handled[c]) + 1),
                         Nothing(c, Len(handled[c]) + 1)}
  BY DEF Serve, AtItsNext, Busy
<1>2. request[c] \in Packets
  BY <1>1, TakenIsNat DEF Request, Nothing, Packets
<1>3. handled[c] \in Seq(Packets)
  BY DEF SocketTypeOK
<1>4. CASE request[c].is = "empty"
  <2>1. handler' = [handler EXCEPT ![c] = "left"] /\ UNCHANGED <<handled, outbox>>
    BY <1>4 DEF Serve, RequestOf
  <2> QED
    BY <1>1, <1>2, <2>1 DEF SocketTypeOK
<1>5. CASE request[c].is # "empty"
  <2>1. /\ handler' = [handler EXCEPT ![c] = "waiting"]
        /\ handled' = [handled EXCEPT ![c] = Append(@, request[c])]
        /\ outbox' = outbox \/ outbox' = [outbox EXCEPT ![c] = Append(@, request[c])]
    BY <1>5 DEF Serve, RequestOf
  <2>2. request[c] = Request(c, Len(handled[c]) + 1)
    BY <1>1, <1>5 DEF Nothing
  <2>3. Append(handled[c], request[c]) # handled[c]
    BY <1>2, <1>3
  <2>4. handled'[c] = Append(handled[c], request[c])
    BY <2>1 DEF SocketTypeOK
  <2> QED
    BY <1>1, <1>2, <2>1, <2>2, <2>3, <2>4 DEF SocketTypeOK
<1> QED
  BY <1>4, <1>5

(* No other step changes what is handled.                                   *)
LEMMA OnlyServeHandles ==
  ASSUME [Next]_vars, \A c \in Clients : ~Serve(c)
  PROVE  UNCHANGED handled
BY DEF Next, ServerRuns, ConnRuns, ClientRuns, ReadFrom, HandOver, ReadFails,
       ReaderEnds, Accept, AcceptorEnds, QueueEnds, CloseServer, Give,
       GiverEnds, BlockOnQueue, HandlerLeaves, Hear, ReadBlock, Drop, HearNoMore, ClientClosed, Dial, Write, CloseClient,
       vars, serverVars, clientVars

LEMMA NotAheadInv ==
  ASSUME SocketInv, NotAhead, [Next]_vars PROVE NotAhead'
<1> USE DEF SocketInv
<1>0. \A c \in Clients : sent[c] \in Nat /\ Len(handled[c]) \in Nat
  BY TakenIsNat DEF SocketTypeOK
<1>1. ASSUME NEW c \in Clients, Serve(c) PROVE NotAhead'
  <2> SUFFICES ASSUME NEW d \in Clients, handler'[d] # "left"
               PROVE  Len(handled'[d]) + Serving(d)' <= sent[d]
    BY <1>1, ServeHandles DEF NotAhead
  <2>1. CASE d = c
    <3>1. handled'[c] = Append(handled[c], request[c]) /\ handler'[c] = "waiting"
      BY <1>1, <2>1, ServeHandles
    <3>2. Len(handled'[c]) = Len(handled[c]) + 1
      BY <1>1, <3>1, ServeHandles DEF SocketTypeOK
    <3>3. Serving(c) = 1 /\ Serving(c)' = 0 /\ handler[c] # "left"
      BY <1>1, <3>1, ServeHandles DEF Serving, Busy
    <3> QED
      BY <1>0, <2>1, <3>2, <3>3 DEF NotAhead
  <2>2. CASE d # c
    <3>1. handled'[d] = handled[d] /\ handler'[d] = handler[d]
      BY <1>1, <2>2, ServeHandles
    <3> QED
      BY <3>1 DEF NotAhead, Serving
  <2> QED
    BY <2>1, <2>2
<1>2. CASE HandOver
  <2>0. PICK c \in Clients : c = buf.from
    BY <1>2 DEF HandOver, HandsItsNext, SocketTypeOK
  <2>1. /\ reader = "handing" /\ handler[c] = "waiting"
        /\ \A d \in Clients : handler'[d] = IF d = c THEN "serving" ELSE handler[d]
        /\ UNCHANGED <<handled, sent>>
    BY <1>2, <2>0 DEF HandOver, SocketTypeOK, clientVars
  <2>2. Taken(c) <= sent[c]
    BY <2>1 DEF UnderWay, NoneMissing
  <2>3. Taken(c) = Len(handled[c]) + 0 + 1
    BY <2>0, <2>1 DEF Taken, Serving, Busy, InBuffer
  <2>4. Serving(c)' = 1
    BY <2>1 DEF Serving, Busy
  <2>5. \A d \in Clients \ {c} : Serving(d)' = Serving(d)
    BY <2>1 DEF Serving
  <2> QED
    BY <1>0, <2>1, <2>2, <2>3, <2>4, <2>5 DEF NotAhead
<1>3. ASSUME NEW c \in Clients, Give(c) PROVE NotAhead'
  <2>1. /\ handler[c] = "none" /\ UNCHANGED <<handled, sent>>
        /\ \A d \in Clients : handler'[d] = IF d = c THEN "waiting" ELSE handler[d]
    BY <1>3 DEF Give, IntroducedOnce, SocketTypeOK, clientVars
  <2>2. \A d \in Clients : Serving(d)' = Serving(d)
    BY <2>1 DEF Serving, Busy
  <2> QED
    BY <2>1, <2>2 DEF NotAhead
<1>4. ASSUME NEW c \in Clients, HandlerLeaves(c) PROVE NotAhead'
  <2>1. /\ UNCHANGED <<handled, sent>>
        /\ \A d \in Clients : handler'[d] = IF d = c THEN "left" ELSE handler[d]
    BY <1>4 DEF HandlerLeaves, SocketTypeOK, clientVars
  <2> QED
    BY <2>1 DEF NotAhead, Serving
<1>5. ASSUME NEW c \in Clients, Write(c) PROVE NotAhead'
  <2>1. UNCHANGED serverVars /\ sent' = [sent EXCEPT ![c] = @ + 1]
    BY <1>5 DEF Write
  <2>2. \A d \in Clients : sent[d] <= sent'[d] /\ sent'[d] \in Nat
    BY <1>0, <2>1 DEF SocketTypeOK
  <2>3. \A d \in Clients : Serving(d) \in Nat /\ Serving(d)' = Serving(d)
    BY <2>1 DEF Serving, serverVars
  <2> QED
    BY <1>0, <2>1, <2>2, <2>3 DEF NotAhead, serverVars
<1>6. ASSUME UNCHANGED <<handler, handled, sent>> PROVE NotAhead'
  BY <1>6 DEF NotAhead, Serving
<1>7. CASE \/ ReadFrom \/ ReadFails \/ ReaderEnds \/ Accept \/ AcceptorEnds
           \/ QueueEnds \/ CloseServer
  BY <1>6, <1>7 DEF ReadFrom, ReadFails, ReaderEnds, Accept, AcceptorEnds,
                    QueueEnds, CloseServer, clientVars
<1>8. ASSUME NEW c \in Clients,
             GiverEnds(c) \/ ClientRuns(c) \/ Dial(c) \/ CloseClient(c)
      PROVE  NotAhead'
  BY <1>6, <1>8 DEF GiverEnds, ClientRuns, Hear, ReadBlock, Drop, HearNoMore,
                    ClientClosed, Dial, CloseClient, serverVars, clientVars
<1>9. CASE UNCHANGED vars
  BY <1>6, <1>9 DEF vars, serverVars, clientVars
<1>10. ASSUME NEW c \in Clients, BlockOnQueue(c) PROVE NotAhead'
  <2>1. /\ handler[c] = "serving" /\ UNCHANGED <<handled, sent>>
        /\ \A d \in Clients : handler'[d] = IF d = c THEN "stuck" ELSE handler[d]
    BY <1>10 DEF BlockOnQueue, SocketTypeOK, clientVars
  <2>2. \A d \in Clients : Serving(d)' = Serving(d)
    BY <2>1 DEF Serving, Busy
  <2> QED
    BY <2>1, <2>2 DEF NotAhead
<1> QED
  BY <1>1, <1>2, <1>3, <1>4, <1>5, <1>7, <1>8, <1>9, <1>10
  DEF Next, ServerRuns, ConnRuns

LEMMA AnswersRealInv ==
  ASSUME SocketInv, AnswersReal, [Next]_vars PROVE AnswersReal'
<1> USE DEF SocketInv
<1>1. ASSUME NEW c \in Clients, Serve(c) PROVE AnswersReal'
  <2> DEFINE h == handled[c]
             m == request[c]
  <2>1. h \in Seq(Packets) /\ m \in Packets
    BY <1>1, ServeHandles DEF SocketTypeOK
  <2>2. \A d \in Clients : HandledOf(d) \subseteq HandledOf(d)'
    <3>1. \A i \in DOMAIN h : i \in DOMAIN Append(h, m) /\ Append(h, m)[i] = h[i]
      BY <2>1, PutAtEnd
    <3>2. \A d \in Clients \ {c} : handled'[d] = handled[d]
      BY <1>1, ServeHandles
    <3>3. handled'[c] = h \/ handled'[c] = Append(h, m)
      BY <1>1, ServeHandles
    <3>4. HandledOf(c) \subseteq HandledOf(c)'
      BY <3>1, <3>3 DEF HandledOf
    <3> QED
      BY <3>2, <3>4 DEF HandledOf
  <2>3. CASE outbox' = outbox
    <3>1. ear' = ear /\ held' = held
      BY <1>1, ServeHandles
    <3> QED
      BY <2>2, <2>3, <3>1 DEF AnswersReal
  <2>4. CASE outbox' # outbox
    <3>1. handled'[c] = Append(h, m) /\ ear' = ear /\ held' = held
          /\ outbox' = [outbox EXCEPT ![c] = Append(@, m)]
      BY <1>1, <2>4, ServeHandles
    <3>2. m \in HandledOf(c)'
      BY <2>1, <3>1, PutAtEnd DEF HandledOf
    <3>3. outbox[c] \in Seq(Packets) /\ outbox'[c] = Append(outbox[c], m)
      BY <3>1 DEF SocketTypeOK
    <3>4. \A i \in DOMAIN outbox'[c] : outbox'[c][i] \in HandledOf(c)'
      BY <2>1, <2>2, <3>2, <3>3, PutAtEnd DEF AnswersReal
    <3>5. \A d \in Clients \ {c} : outbox'[d] = outbox[d]
      BY <3>1 DEF SocketTypeOK
    <3> QED
      BY <2>2, <3>1, <3>4, <3>5 DEF AnswersReal
  <2> QED
    BY <2>3, <2>4
<1>2. ASSUME \A c \in Clients : ~Serve(c) PROVE AnswersReal'
  <2>1. \A c \in Clients : HandledOf(c)' = HandledOf(c)
    BY <1>2, OnlyServeHandles DEF HandledOf
  <2>2. ASSUME UNCHANGED outbox,
               \A c \in Clients : ear'[c] = "holding" =>
                 ear[c] = "holding" /\ held'[c] = held[c]
        PROVE  AnswersReal'
    BY <2>1, <2>2 DEF AnswersReal
  <2>3. ASSUME NEW c \in Clients, Hear(c) PROVE AnswersReal'
    <3>1. outbox[c] \in Seq(Packets) /\ outbox[c] # <<>>
      BY <2>3 DEF Hear, SocketTypeOK
    <3>2. /\ \A d \in Clients :
               /\ outbox'[d] = IF d = c THEN Tail(outbox[c]) ELSE outbox[d]
               /\ held'[d] = IF d = c THEN Head(outbox[c]) ELSE held[d]
               /\ d # c => ear'[d] = ear[d]
      BY <2>3 DEF Hear, SocketTypeOK
    <3>3. /\ Head(outbox[c]) \in HandledOf(c)
          /\ \A i \in DOMAIN Tail(outbox[c]) : Tail(outbox[c])[i] \in HandledOf(c)
      BY <3>1, HeadAndTail DEF AnswersReal
    <3> QED
      BY <2>1, <3>2, <3>3 DEF AnswersReal
  <2>4. ASSUME NEW c \in Clients, Dial(c) PROVE AnswersReal'
    <3>1. \A d \in Clients :
            /\ outbox'[d] = IF d = c THEN <<>> ELSE outbox[d]
            /\ ear'[d] = IF d = c THEN "reading" ELSE ear[d]
            /\ held'[d] = held[d]
      BY <2>4 DEF Dial, SocketTypeOK
    <3> QED
      BY <2>1, <3>1 DEF AnswersReal
  <2>5. ASSUME NEW c \in Clients,
               \/ ReadBlock(c) \/ Drop(c) \/ HearNoMore(c) \/ ClientClosed(c)
               \/ Write(c) \/ CloseClient(c)
        PROVE  AnswersReal'
    BY <2>2, <2>5 DEF ReadBlock, Drop, HearNoMore, ClientClosed, Write,
         CloseClient, SocketTypeOK
  <2>6. ASSUME UNCHANGED clientVars PROVE AnswersReal'
    BY <2>2, <2>6 DEF clientVars
  <2>7. CASE ServerRuns \/ UNCHANGED vars
    BY <2>6, <2>7 DEF ServerRuns, ReadFrom, HandOver, ReadFails, ReaderEnds,
         Accept, AcceptorEnds, QueueEnds, CloseServer, vars
  <2>8. ASSUME NEW c \in Clients, ConnRuns(c) PROVE AnswersReal'
    BY <1>2, <2>6, <2>8 DEF ConnRuns, Give, GiverEnds, BlockOnQueue,
         HandlerLeaves
  <2> QED
    BY <2>3, <2>4, <2>5, <2>7, <2>8 DEF Next, ClientRuns
<1> QED
  BY <1>1, <1>2

(* A step of the sockets is a step of Exchange or changes nothing of it.    *)
LEMMA ExchangeStep ==
  ASSUME SocketInv, NotAhead, AnswersReal, [Next]_vars
  PROVE  Promise!Next \/ UNCHANGED <<sent, handled, answers>>
<1> USE DEF SocketInv
<1>1. ASSUME NEW c \in Clients, Serve(c)
      PROVE  Promise!Handle(c) \/ UNCHANGED <<sent, handled, answers>>
  <2>1. CASE handled'[c] = handled[c]
    BY <1>1, <2>1, ServeHandles
  <2>2. CASE handled'[c] # handled[c]
    <3> DEFINE m == Request(c, Len(handled[c]) + 1)
    <3>1. /\ handled' = [handled EXCEPT ![c] = Append(@, m)]
          /\ handler[c] = "serving" /\ UNCHANGED <<sent, answers>>
      BY <1>1, <2>2, ServeHandles
    <3>2. Len(handled[c]) + 1 <= sent[c]
      BY <3>1 DEF NotAhead, Serving, Busy
    <3>3. Len(handled[c]) < sent[c]
      BY <3>2, TakenIsNat DEF SocketTypeOK
    <3>4. m = Promise!Request(c, Len(handled[c]) + 1)
      BY DEF Request, Promise!Request
    <3> QED
      BY <3>1, <3>3, <3>4 DEF Promise!Handle
  <2> QED
    BY <2>1, <2>2
<1>2. ASSUME NEW c \in Clients, ReadBlock(c) PROVE Promise!Read(c)
  <2>1. /\ answers' = [answers EXCEPT ![c] = Append(@, held[c])]
        /\ ear[c] = "holding" /\ UNCHANGED <<sent, handled>>
    BY <1>2 DEF ReadBlock, serverVars
  <2>2. PICK i \in DOMAIN handled[c] : held[c] = handled[c][i]
    BY <2>1 DEF AnswersReal, HandledOf
  <2>3. held[c] = Request(c, i)
    BY <2>2 DEF HandledOwn
  <2>4. \A j \in DOMAIN answers[c] : answers[c][j].n < i
    BY <2>1, <2>3 DEF AnswersInOrder, AnswersTo, Before, Request
  <2> QED
    BY <2>1, <2>2, <2>4 DEF Promise!Read
<1>3. ASSUME NEW c \in Clients, Write(c) PROVE Promise!Send(c)
  BY <1>3 DEF Write, Promise!Send, serverVars
<1>4. ASSUME NEW c \in Clients,
             \/ Hear(c) \/ Drop(c) \/ HearNoMore(c) \/ ClientClosed(c)
             \/ Dial(c) \/ CloseClient(c)
      PROVE  UNCHANGED <<sent, handled, answers>>
  BY <1>4 DEF Hear, Drop, HearNoMore, ClientClosed, Dial, CloseClient, serverVars
<1>5. CASE ServerRuns \/ UNCHANGED vars
  BY <1>5 DEF ServerRuns, ReadFrom, HandOver, ReadFails, ReaderEnds, Accept,
       AcceptorEnds, QueueEnds, CloseServer, vars, serverVars, clientVars
<1>6. ASSUME NEW c \in Clients,
             Give(c) \/ GiverEnds(c) \/ BlockOnQueue(c) \/ HandlerLeaves(c)
      PROVE  UNCHANGED <<sent, handled, answers>>
  BY <1>6 DEF Give, GiverEnds, BlockOnQueue, HandlerLeaves, clientVars
<1> QED
  BY <1>1, <1>2, <1>3, <1>4, <1>5, <1>6
  DEF Next, ConnRuns, ClientRuns, Promise!Next

(* For any number of clients, restarts and sizes of the sockets, and        *)
(* whenever both ends are closed: what is handled was sent by that client,  *)
(* none skipped, and what a client reads answers its own requests that were *)
(* handled, in order.                                                       *)
THEOREM ExchangeKept == FairSpec => ImplementsExchange
<1>1. Init => Promise!Init /\ NotAhead /\ AnswersReal
  BY DEF Init, Promise!Init, NotAhead, AnswersReal, Serving, Busy
<1>2. SocketInv /\ NotAhead /\ AnswersReal /\ [Next]_vars =>
        NotAhead' /\ AnswersReal'
  BY NotAheadInv, AnswersRealInv
<1>3. SocketInv /\ NotAhead /\ AnswersReal /\ [Next]_vars =>
        [Promise!Next]_<<sent, handled, answers>>
  BY ExchangeStep
<1>4. Init /\ [][Next]_vars /\ []SocketInv => Promise!Spec
  BY <1>1, <1>2, <1>3, PTL DEF Promise!Spec
<1> QED
  BY <1>4, SocketInvariant, PTL DEF FairSpec, ImplementsExchange

-----------------------------------------------------------------------------
(* Until the server is closed, a client that is known is being introduced,  *)
(* is offered to the service, or has had a handler: a datagram of it waits  *)
(* for a handler that is busy or has returned, never for one that nobody    *)
(* starts.                                                                  *)
KnownIsServed ==
  ~Killed => \A c \in known : \/ reader = "introducing" /\ buf.from = c
                              \/ c \in offered
                              \/ handler[c] # "none"

LEMMA KnownIsServedInv ==
  ASSUME SocketInv, KnownIsServed, [Next]_vars PROVE KnownIsServed'
<1> USE DEF SocketInv, Killed
<1>0. known \subseteq Clients
  BY DEF SocketTypeOK
<1>1. CASE ReadFrom
  BY <1>1 DEF ReadFrom, KnownIsServed
<1>2. CASE Accept
  BY <1>2 DEF Accept, KnownIsServed
<1>3. CASE ReadFails \/ ReaderEnds \/ AcceptorEnds \/ QueueEnds \/ CloseServer
  BY <1>3 DEF ReadFails, ReaderEnds, AcceptorEnds, QueueEnds, CloseServer,
              KnownIsServed
<1>4. CASE HandOver
  BY <1>0, <1>4 DEF HandOver, KnownIsServed, SocketTypeOK
<1>5. ASSUME NEW c \in Clients, ConnRuns(c) PROVE KnownIsServed'
  <2>1. CASE Give(c)
    BY <1>0, <2>1 DEF Give, KnownIsServed, SocketTypeOK
  <2>2. CASE GiverEnds(c)
    BY <2>2 DEF GiverEnds, KnownIsServed
  <2>3. CASE HandlerLeaves(c)
    BY <1>0, <2>3 DEF HandlerLeaves, KnownIsServed, SocketTypeOK
  <2>4. CASE Serve(c)
    <3>1. \A d \in Clients : handler'[d] = "none" => handler[d] = "none"
      BY <2>4, ServeHandles DEF Serve
    <3> QED
      BY <1>0, <2>4, <3>1 DEF Serve, KnownIsServed
  <2>5. CASE BlockOnQueue(c)
    BY <1>0, <2>5 DEF BlockOnQueue, KnownIsServed, SocketTypeOK
  <2> QED
    BY <1>5, <2>1, <2>2, <2>3, <2>4, <2>5 DEF ConnRuns
<1>6. ASSUME UNCHANGED serverVars PROVE KnownIsServed'
  BY <1>6 DEF serverVars, KnownIsServed
<1>7. ASSUME NEW c \in Clients,
             ClientRuns(c) \/ Dial(c) \/ Write(c) \/ CloseClient(c)
      PROVE  KnownIsServed'
  BY <1>6, <1>7 DEF ClientRuns, Hear, ReadBlock, Drop, HearNoMore, ClientClosed,
                    Dial, Write, CloseClient
<1>8. CASE UNCHANGED vars
  BY <1>6, <1>8 DEF vars
<1> QED
  BY <1>1, <1>2, <1>3, <1>4, <1>5, <1>7, <1>8 DEF Next, ServerRuns

(* The reader hands over to a client that has, or is about to have, a       *)
(* handler, until the server is closed: what RequestHandled rests on.       *)
HandsToSomebody ==
  reader = "handing" /\ ~Killed =>
    \/ buf.from \in offered
    \/ handler[buf.from] \in {"waiting", "serving", "stuck", "left"}

THEOREM NobodyIsOverlooked == FairSpec => []HandsToSomebody
<1>1. Init => KnownIsServed
  BY DEF Init, KnownIsServed
<1>2. SocketInv /\ KnownIsServed /\ [Next]_vars => KnownIsServed'
  BY KnownIsServedInv
<1>3. SocketInv /\ KnownIsServed => HandsToSomebody
  BY DEF SocketInv, SocketTypeOK, HandsItsNext, KnownIsServed, HandsToSomebody
<1>4. Init /\ [][Next]_vars /\ []SocketInv => []HandsToSomebody
  BY <1>1, <1>2, <1>3, PTL
<1> QED
  BY <1>4, SocketInvariant, PTL DEF FairSpec
=============================================================================
