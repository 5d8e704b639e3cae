------------------------------ MODULE CladForms ------------------------------
(* What the CLAD messages are made of, and how their leaves are written and *)
(* read: the forms of fields that the emitter knows, the tables that        *)
(* describe structures and unions (modules CladGateway and CladCloud), and  *)
(* numbers and strings in a bytes.Buffer, little-endian. Numbers, enums and *)
(* floats are their bit pattern, a string is the sequence of its bytes.     *)
EXTENDS Integers, Sequences

-----------------------------------------------------------------------------
(* Go types by their width in binary.Read and binary.Write.                *)
Type(w) == [w |-> w]
U8  == Type(1)
I8  == Type(1)
U16 == Type(2)
I16 == Type(2)
U32 == Type(4)
I32 == Type(4)
U64 == Type(8)
I64 == Type(8)
F32 == Type(4)
F64 == Type(8)

(* An enum is sent as its underlying type; its constants.                  *)
Enum(t, values) == [w |-> t.w, values |-> values]

(* Fields. "size" is what the field adds to Size, stated in Size apart from *)
(* the type that Pack writes. A slice or string has a length of type lt,    *)
(* counted as lsize, that Pack refuses beyond max.                          *)
Num(t, size)   == [form |-> "num", w |-> t.w, size |-> size]
Flag(size)     == [form |-> "flag", size |-> size]
Sub(struct)    == [form |-> "sub", of |-> struct]
Una(union)     == [form |-> "union", of |-> union]
Fixed(n, el)   == [form |-> "fixed", n |-> n, el |-> el]
Str(lt, lsize, max) ==
  [form |-> "str", lw |-> lt.w, lsize |-> lsize, max |-> <<max>>]
LongStr(lt, lsize) ==
  [form |-> "str", lw |-> lt.w, lsize |-> lsize, max |-> <<>>]
Arr(lt, lsize, max, el, esize) ==
  [form |-> "arr", lw |-> lt.w, lsize |-> lsize, max |-> <<max>>,
   el |-> el, esize |-> esize]
Loop(lt, lsize, max, el) ==
  [form |-> "loop", lw |-> lt.w, lsize |-> lsize, max |-> <<max>>, el |-> el]

Struct(name, fields) == [name |-> name, fields |-> fields]
Union(name, tag, types, members) ==
  [name |-> name, tag |-> tag, types |-> types, members |-> members]

(* A structure or union inside another one.                                *)
Inner(t) == IF "fields" \in DOMAIN t THEN Sub(t) ELSE Una(t)

(* A union value: the tag, and the value unless the tag is INVALID.        *)
INVALID == 255
NoValue == [name |-> "nil", v |-> <<>>]

-----------------------------------------------------------------------------
(* binary.Write of n in w bytes: what does not fit is cut off.             *)
Weight == <<1, 256, 65536, 16777216>>

LittleEndian(w, n) ==
  [i \in 1..w |-> IF i > 4 THEN 0 ELSE (n \div Weight[i]) % 256]

FromBytes(b) ==
  LET Byte(i) == IF i > Len(b) THEN 0 ELSE b[i] * Weight[i]
  IN  Byte(1) + Byte(2) + Byte(3) + Byte(4)

(* Some function returned an error, or the bytes written so far.           *)
Failed     == [ok |-> FALSE, b |-> <<>>]
Packed(b)  == [ok |-> TRUE, b |-> b]
Then(p, q) == IF p.ok /\ q.ok THEN Packed(p.b \o q.b) ELSE Failed

MemberOf(u, t) == CHOOSE m \in DOMAIN u.tag : u.tag[m] = t
KnownTag(u, t) == \E m \in DOMAIN u.tag : u.tag[m] = t

-----------------------------------------------------------------------------
(* What a read returns: an error, or the value and the rest of the buffer. *)
Refused        == [ok |-> FALSE, v |-> <<>>, rest |-> <<>>]
Read(v, rest)  == [ok |-> TRUE, v |-> v, rest |-> rest]
Skip(b, n)     == SubSeq(b, n + 1, Len(b))
Take(b, n)     == SubSeq(b, 1, n)

(* Go on with the result of a read, unless it failed.                      *)
AndThen(r, Op(_)) == IF r.ok THEN Op(r) ELSE Refused

(* binary.Read of a number or an enum of w bytes.                           *)
UnpackNumber(w, b) ==
  IF Len(b) < w THEN Refused ELSE Read(FromBytes(Take(b, w)), Skip(b, w))

(* buf.Next returns what is there: the string is refused if that is less.  *)
UnpackString(n, b) ==
  IF Len(b) < n THEN Refused ELSE Read(Take(b, n), Skip(b, n))

-----------------------------------------------------------------------------
(* Get<member>: nil unless the tag is the member's; the type assertion on   *)
(* the value panics if unpackStruct made another type.                      *)
Get(u, m, x) ==
  IF x.tag # u.tag[m] THEN "nil"
  ELSE IF x.value.name # u.members[m].name THEN "panic" ELSE "value"

(* New<union>With<member>, Set<member>.                                    *)
With(u, m, v) ==
  [tag |-> u.tag[m], value |-> [name |-> u.members[m].name, v |-> v]]
=============================================================================
