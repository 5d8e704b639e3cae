----------------------------- MODULE MCCladWire -----------------------------
(* Every message of every flow, cut at the first bytes or not at all.      *)
EXTENDS CladWire, Clad

G == INSTANCE CladGateway
C == INSTANCE CladCloud

-----------------------------------------------------------------------------
(* Both directions of every socket. The managers of the gateway put the     *)
(* size in front and keep one message variable.                             *)
AllLinks ==
  [engine_in       |-> Flow(G!MessageRobotToExternal, TRUE),
   engine_out      |-> Flow(G!MessageExternalToRobot, TRUE),
   switchboard_in  |-> Flow(G!SwitchboardResponse, TRUE),
   switchboard_out |-> Flow(G!SwitchboardRequest, TRUE),
   mic             |-> Flow(C!Message, FALSE),
   token_in        |-> Flow(C!TokenRequest, FALSE),
   token_out       |-> Flow(C!TokenResponse, FALSE),
   docs_in         |-> Flow(C!DocRequest, FALSE),
   docs_out        |-> Flow(C!DocResponse, FALSE),
   logs_in         |-> Flow(C!LogCollectorRequest, FALSE),
   logs_out        |-> Flow(C!LogCollectorResponse, FALSE)]

-----------------------------------------------------------------------------
(* A value for every field: numbers that differ from field to field and    *)
(* from byte to byte, strings and slices of length n: some elements, as    *)
(* many as a length of one byte counts, or one more than the limit (slices *)
(* of structures with strings stay short).                                 *)
Full == 255
Over == 256

Length(f, n) ==
  CASE n \notin {Full, Over} -> n
    [] f.form = "loop" -> 2
    [] n = Full /\ f.lw = 1 -> 255
    [] n = Over /\ f.max # <<>> -> f.max[1] + 1
    [] OTHER -> 2

RECURSIVE Sample(_, _, _)
Sample(f, k, n) ==
  CASE f.form = "num"   -> IF f.w = 1 THEN k ELSE k + 256 * (k + 1)
    [] f.form = "flag"  -> k % 2 = 1
    [] f.form = "sub"   ->
         [i \in 1..Len(f.of.fields) |-> Sample(f.of.fields[i], k + i, n)]
    [] f.form = "union" ->
         IF k % 2 = 0 THEN [tag |-> INVALID, value |-> NoValue]
         ELSE LET m == CHOOSE m \in DOMAIN f.of.members : TRUE
              IN  With(f.of, m, Sample(Inner(f.of.members[m]), k, n))
    [] f.form = "fixed" -> [i \in 1..f.n |-> Sample(f.el, i % 100, n)]
    [] f.form = "str"   -> [i \in 1..Length(f, n) |-> (k + i) % 256]
    [] OTHER -> [i \in 1..Length(f, n) |-> Sample(f.el, (k + i) % 100, 2)]

(* Contents for a member: of the structure or union that it is.            *)
Filled(type, k, n) == Sample(Inner(type), k, n)

-----------------------------------------------------------------------------
Cuts == (0..14) \union {25, 60, 200, 32768}
SomeLengths == {0, 2, Full, Over}
FirstBytes == {<<>>, <<0, 0, 200, 1>>, <<0>>, <<255, 0, 255>>}
=============================================================================
