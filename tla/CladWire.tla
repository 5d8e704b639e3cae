------------------------------ MODULE CladWire ------------------------------
(* CLAD messages on the IPC sockets: a message is packed into one datagram  *)
(* and unpacked by a loop that keeps using one message variable, hands      *)
(* copies of it to listeners and goes on after an error. A union holds a    *)
(* pointer to its tag, so copies share the cell the pointer leads to.       *)
EXTENDS CladForms, FiniteSets

CONSTANTS
  Links,           \* the message flows, each with its union and its framing
  PackOf(_, _),    \* Pack, Size and Unpack of a type: module Clad
  SizeOf(_, _),
  UnpackOf(_, _),
  Payload(_, _, _),  \* a value of a type, from a seed and a length
  Seeds,           \* what the numbers in a message are filled from
  Lengths,         \* lengths of its strings and slices
  Rooms,           \* sizes of the reader's buffer (32768 in the code)
  Junk,            \* datagrams that no Write of this program makes
  MaxFrames        \* bound: datagrams per behaviour

VARIABLES
  link,    \* the flow that is looked at
  wire,    \* datagrams under way: the bytes and, if sent by Write, the message
  frames,  \* datagrams so far
  cells,   \* the tag cells allocated by Unpack
  msg,     \* the loop's variable: pointer to its tag (0 is nil) and value
  held,    \* copies listeners have received, with the tag they had then
  got      \* what the last iteration did with its datagram

wireVars == <<link, wire, frames, cells, msg, held, got>>

Flow(u, prefixed) == [union |-> u, prefixed |-> prefixed]

Message(l, m, k, n) ==
  LET u == Links[l].union
  IN  With(u, m, Payload(u.members[m], k, n))

Byte == 0..255

(* Pack makes bytes or an error, Size a number: what Go's types say.       *)
ASSUME WireAssumption ==
  /\ Rooms \subseteq Nat /\ MaxFrames \in Nat
  /\ \A b \in Junk : b \in Seq(Byte)
  /\ \A l \in DOMAIN Links, k \in Seeds, n \in Lengths :
       \A m \in DOMAIN Links[l].union.members :
         LET type == Una(Links[l].union)
             x == Message(l, m, k, n)
         IN  /\ PackOf(type, x).ok \in BOOLEAN
             /\ PackOf(type, x).b \in Seq(Byte)
             /\ SizeOf(type, x) \in Nat

-----------------------------------------------------------------------------
(* The length in front of a message of the gateway's managers: uint16.     *)
Prefix(l, x) ==
  IF Links[l].prefixed
  THEN LittleEndian(2, SizeOf(Una(Links[l].union), x)) ELSE <<>>

NoMessage == [member |-> "none", k |-> 0, n |-> 0]

WireInit ==
  /\ link \in DOMAIN Links
  /\ wire = <<>>
  /\ frames = 0
  /\ cells = <<>>
  /\ msg = [tag |-> 0, value |-> NoValue]
  /\ held = {}
  /\ got = [what |-> "nothing", of |-> NoMessage, left |-> 0, cut |-> FALSE]

(* Write: Size in front, then Pack; an error of Pack is returned and       *)
(* nothing is sent.                                                        *)
Write(m, k, n) ==
  LET x == Message(link, m, k, n)
      p == PackOf(Una(Links[link].union), x)
  IN  /\ frames < MaxFrames
      /\ wire = <<>>
      /\ frames' = frames + 1
      /\ wire' = IF p.ok
                 THEN <<[bytes |-> Prefix(link, x) \o p.b,
                         of |-> [member |-> m, k |-> k, n |-> n]]>>
                 ELSE wire
      /\ UNCHANGED <<link, cells, msg, held, got>>

(* The peer knows more messages than this program.                         *)
SendJunk(b) ==
  /\ frames < MaxFrames
  /\ wire = <<>>
  /\ frames' = frames + 1
  /\ wire' = <<[bytes |-> b, of |-> NoMessage]>>
  /\ UNCHANGED <<link, cells, msg, held, got>>

-----------------------------------------------------------------------------
(* A reader copies what fits into its buffer; the rest of a datagram is    *)
(* lost.                                                                   *)
Block(room) ==
  LET b == wire[1].bytes IN IF Len(b) <= room THEN b ELSE Take(b, room)

(* The tag the message variable leads to, Tag().                           *)
TagIn(m, c) == IF m.tag = 0 THEN INVALID ELSE c[m.tag]

(* Mutant: Unpack writes the tag into the cell it has.                     *)
UnpackIntoSameCell(b) ==
  LET r == UnpackOf(Una(Links[link].union), b)
      ptr == IF msg.tag = 0 THEN 1 ELSE msg.tag
      tag == IF r.ok THEN b[1] ELSE INVALID
  IN  IF b = <<>> THEN [ok |-> FALSE, cells |-> cells, msg |-> msg, left |-> 0]
      ELSE [ok |-> r.ok,
            cells |-> IF cells = <<>> THEN <<tag>>
                      ELSE [cells EXCEPT ![ptr] = tag],
            msg |-> IF r.ok THEN [tag |-> ptr, value |-> r.v.value]
                    ELSE [msg EXCEPT !.tag = ptr],
            left |-> IF r.ok THEN Len(r.rest) ELSE 0]

(* Unpack of a union with a pointer to its tag: a new cell for every tag   *)
(* that is read, the old value kept when the structure does not follow.    *)
UnpackInto(b) ==
  LET u == Links[link].union
      r == UnpackOf(Una(u), b)
      next == Len(cells) + 1
  IN  IF b = <<>> THEN [ok |-> FALSE, cells |-> cells, msg |-> msg, left |-> 0]
      ELSE IF r.ok
      THEN [ok |-> TRUE, cells |-> Append(cells, b[1]),
            msg |-> [tag |-> next, value |-> r.v.value], left |-> Len(r.rest)]
      ELSE [ok |-> FALSE, cells |-> Append(cells, INVALID),
            msg |-> [msg EXCEPT !.tag = next], left |-> 0]

(* The members the engine's loop turns into events for the listeners of    *)
(* the other manager.                                                      *)
EventMembers ==
  {"Event", "RobotObservedFace", "RobotChangedObservedFaceID",
   "ObjectAvailable", "ObjectConnectionState", "ObjectMoved",
   "ObjectStoppedMoving", "ObjectUpAxisChanged", "ObjectTapped",
   "RobotObservedObject"}

IsEvent(t) ==
  /\ link = "engine_in"
  /\ \E m \in EventMembers : Links[link].union.tag[m] = t

(* One iteration of ProcessMessages, socketReader or handleConn: a block    *)
(* too short for the prefix and one that does not unpack are skipped; a     *)
(* message is handed on by value.                                           *)
ProcessMessages(room) ==
  LET block == Block(room)
      short == Links[link].prefixed /\ Len(block) < 2
      r == UnpackInto(IF Links[link].prefixed THEN Skip(block, 2) ELSE block)
      done == ~short /\ r.ok
  IN  /\ wire # <<>>
      /\ wire' = <<>>
      /\ got' = [what |-> IF done THEN "message" ELSE "skipped",
                 of |-> wire[1].of, left |-> IF done THEN r.left ELSE 0,
                 cut |-> Len(wire[1].bytes) > room]
      /\ cells' = IF short THEN cells ELSE r.cells
      /\ msg' = IF short THEN msg ELSE r.msg
      /\ held' = IF done /\ ~IsEvent(TagIn(r.msg, r.cells))
                 THEN held \union {[copy |-> r.msg,
                                    was |-> TagIn(r.msg, r.cells)]}
                 ELSE held
      /\ UNCHANGED <<link, frames>>

WireNext ==
  \/ /\ frames = 0
     /\ \E m \in DOMAIN Links[link].union.members, k \in Seeds, n \in Lengths :
          Write(m, k, n)
  \/ /\ frames > 0
     /\ \E b \in Junk : SendJunk(b)
  \/ \E room \in Rooms : ProcessMessages(room)

WireSpec == WireInit /\ [][WireNext]_wireVars

-----------------------------------------------------------------------------
(* The length in front of a datagram is the number of bytes that follow:   *)
(* Size and Pack, written apart for every structure, agree. (A message of  *)
(* 65536 bytes or more would not fit the prefix.)                          *)
PrefixIsLength ==
  \A i \in DOMAIN wire :
    (wire[i].of # NoMessage /\ Links[link].prefixed) =>
      wire[i].bytes[1] + 256 * wire[i].bytes[2] = Len(wire[i].bytes) - 2

(* What Write sends, the other end reads back, to the last byte, and the   *)
(* getter of the member returns it; if the datagram was longer than the    *)
(* reader's buffer it is skipped, never taken for a message. A message     *)
(* with a string that its length field cannot count is never sent.         *)
ReadBack ==
  got.of # NoMessage =>
    LET u == Links[link].union
        x == [tag |-> TagIn(msg, cells), value |-> msg.value]
    IN  IF got.cut THEN got.what = "skipped"
        ELSE /\ got.what = "message"
             /\ x = Message(link, got.of.member, got.of.k, got.of.n)
             /\ got.left = 0
             /\ Get(u, got.of.member, x) = "value"

(* A listener's copy of a message keeps its tag, although it shares the    *)
(* tag's cell with the variable that the loop unpacks the next datagram    *)
(* into, even when that one is broken.                                     *)
CopyKeepsTag == \A h \in held : TagIn(h.copy, cells) = h.was
=============================================================================
