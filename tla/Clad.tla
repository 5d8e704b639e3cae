-------------------------------- MODULE Clad --------------------------------
(* The code the CLAD emitter writes for every structure and union: Size,   *)
(* Pack and Unpack, by recursion over the table of its fields.             *)
EXTENDS CladForms, TLC

(* Mutant: a length of one byte is not checked.                             *)
TooLongForTwoBytes(f, v) == f.lw # 1 /\ f.max # <<>> /\ Len(v) > f.max[1]

TooLong(f, v) == f.max # <<>> /\ Len(v) > f.max[1]

(* The bytes of a number or of a structure of numbers, for binary.Write    *)
(* and binary.Read of a whole slice.                                        *)
RECURSIVE Width(_)
Width(f) ==
  IF f.form = "num" THEN f.w
  ELSE LET W[i \in 0..Len(f.of.fields)] ==
             IF i = 0 THEN 0 ELSE W[i - 1] + Width(f.of.fields[i])
       IN  W[Len(f.of.fields)]

RECURSIVE Pack(_, _), PackEach(_, _)
(* The values of v one after the other, up to the first error.             *)
PackEach(fs, v) ==
  IF v = <<>> THEN Packed(<<>>)
  ELSE Then(Pack(Head(fs), Head(v)), PackEach(Tail(fs), Tail(v)))

PackSlice(el, v) ==
  LET w == Width(el)
      e == [i \in DOMAIN v |-> Pack(el, v[i]).b]
  IN  Packed([j \in 1..(Len(v) * w) |-> e[((j - 1) \div w) + 1][((j - 1) % w) + 1]])

Pack(f, v) ==
  CASE f.form = "num"   -> Packed(LittleEndian(f.w, v))
    [] f.form = "flag"  -> Packed(IF v THEN <<1>> ELSE <<0>>)
    [] f.form = "sub"   -> PackEach(f.of.fields, v)
    [] f.form = "fixed" -> PackSlice(f.el, v)
    [] f.form = "union" ->
         IF v.tag = INVALID THEN Packed(<<INVALID>>)
         ELSE Then(Packed(<<v.tag>>),
                   Pack(Inner(f.of.members[MemberOf(f.of, v.tag)]), v.value.v))
    [] OTHER ->
         IF TooLong(f, v) THEN Failed
         ELSE Then(Packed(LittleEndian(f.lw, Len(v))),
                   CASE f.form = "str" -> Packed(v)
                     [] f.form = "arr" -> PackSlice(f.el, v)
                     [] OTHER -> PackEach([i \in DOMAIN v |-> f.el], v))

RECURSIVE Size(_, _), SizeEach(_, _)
SizeEach(fs, v) ==
  IF v = <<>> THEN 0 ELSE Size(Head(fs), Head(v)) + SizeEach(Tail(fs), Tail(v))

(* Mutant: a Size that forgets the length field.                             *)
SizeWithoutLength(f, v) == Len(v)

SizeString(f, v) == f.lsize + Len(v)

Size(f, v) ==
  CASE f.form \in {"num", "flag"} -> f.size
    [] f.form = "sub"   -> SizeEach(f.of.fields, v)
    [] f.form = "fixed" -> f.n * f.el.size
    [] f.form = "union" ->
         IF v.tag = INVALID THEN 1
         ELSE 1 + Size(Inner(f.of.members[MemberOf(f.of, v.tag)]), v.value.v)
    [] f.form = "str"   -> SizeString(f, v)
    [] f.form = "arr"   -> f.lsize + Len(v) * f.esize
    [] OTHER -> f.lsize + SizeEach([i \in DOMAIN v |-> f.el], v)

RECURSIVE Unpack(_, _), UnpackEach(_, _, _)
(* One field after the other, up to the first error.                       *)
UnpackEach(fs, v, b) ==
  IF fs = <<>> THEN Read(v, b)
  ELSE AndThen(Unpack(Head(fs), b), LAMBDA r :
         UnpackEach(Tail(fs), Append(v, r.v), r.rest))

(* n elements by one binary.Read.                                          *)
UnpackSlice(el, n, b) ==
  LET w == Width(el)
  IN  IF Len(b) < n * w THEN Refused
      ELSE Read([i \in 1..n |-> Unpack(el, SubSeq(b, (i - 1) * w + 1, i * w)).v],
                Skip(b, n * w))

(* unpackStruct: a tag without a structure is an error.                    *)
unpackStruct(u, t, b) ==
  IF ~KnownTag(u, t) THEN Refused
  ELSE LET type == u.types[MemberOf(u, t)]
       IN  AndThen(Unpack(Inner(type), b), LAMBDA r :
             Read([tag |-> t, value |-> [name |-> type.name, v |-> r.v]],
                  r.rest))

Unpack(f, b) ==
  CASE f.form = "num"   -> UnpackNumber(f.w, b)
    [] f.form = "flag" ->
         IF b = <<>> THEN Refused ELSE Read(b[1] # 0, Tail(b))
    [] f.form = "sub"   -> UnpackEach(f.of.fields, <<>>, b)
    [] f.form = "fixed" -> UnpackSlice(f.el, f.n, b)
    [] f.form = "union" ->
         IF b = <<>> THEN Refused
         ELSE IF b[1] = INVALID
         THEN Read([tag |-> INVALID, value |-> NoValue], Tail(b))
         ELSE unpackStruct(f.of, b[1], Tail(b))
    [] OTHER ->
         AndThen(UnpackNumber(f.lw, b), LAMBDA l :
           CASE f.form = "str" -> UnpackString(l.v, l.rest)
             [] f.form = "arr" -> UnpackSlice(f.el, l.v, l.rest)
             [] OTHER -> UnpackEach([i \in 1..l.v |-> f.el], <<>>, l.rest))

=============================================================================
