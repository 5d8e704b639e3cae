------------------------- MODULE VoiceProcessProofs -------------------------
(***************************************************************************)
(* Proofs about VoiceProcess, for any set of streams, any sizes and any    *)
(* channel capacity.                                                       *)
(***************************************************************************)
EXTENDS VoiceProcess, TLAPS

(* Run's variable points at a stream that was created.                     *)
CurrentUsed == strm # NoStream => Used(strm)

(* A stream that was answered has been forgotten by Run, for good: strm    *)
(* only ever moves to a stream that was not used before.                   *)
AnsweredForgotten ==
  \A s \in Stream : answers[s] > 0 => Used(s) /\ s # strm

(* bufferRoutine closes byteChan only once the stream's context is done.   *)
EndedBufferDone ==
  \A s \in Stream : buffer[s] = "end" => Used(s) /\ done[s]

(* Run waits in addBytes only with a stream and ends only after shutdown.  *)
MainPlaces ==
  /\ main = "addBytes" => strm # NoStream
  /\ main = "stopped" => shutdown

(* The inductive invariant.                                                *)
Inv ==
  /\ TypeOK
  /\ CurrentUsed
  /\ AnsweredForgotten
  /\ AtMostOneAnswer
  /\ OpenStreamIsCurrent
  /\ EndedBufferDone
  /\ MainPlaces
  /\ PanicOnlyWhenDone

-----------------------------------------------------------------------------
(* Every initial state of the process satisfies the invariant.             *)
LEMMA InitInv == Init => Inv
<1> SUFFICES ASSUME Init PROVE Inv
  OBVIOUS
<1>1. 0 \in 0..ChanCap
  BY SizeAssumption
<1>2. TypeOK
  BY <1>1 DEF Init, TypeOK
<1>3. CurrentUsed /\ OpenStreamIsCurrent
  BY DEF Init, CurrentUsed, OpenStreamIsCurrent, Used
<1>4. AnsweredForgotten /\ AtMostOneAnswer
  BY DEF Init, AnsweredForgotten, AtMostOneAnswer
<1>5. EndedBufferDone /\ MainPlaces /\ PanicOnlyWhenDone
  BY DEF Init, EndedBufferDone, MainPlaces, PanicOnlyWhenDone
<1> QED
  BY <1>2, <1>3, <1>4, <1>5 DEF Inv

(* Accepting a report writes values of the right types.                    *)
LEMMA AcceptTypes ==
  ASSUME NEW s \in Stream, TypeOK, Accept(s)
  PROVE  /\ closed' \in [Stream -> BOOLEAN]
         /\ raced' \in [Stream -> BOOLEAN]
         /\ done' \in [Stream -> BOOLEAN]
         /\ answers' \in [Stream -> Nat]
         /\ strm' \in Stream \cup {NoStream}
<1>1. CASE s = strm
  <2>1. CloseCurrent
    BY <1>1 DEF Accept
  <2>2. closed' \in [Stream -> BOOLEAN] /\ raced' \in [Stream -> BOOLEAN]
    BY <2>1 DEF CloseCurrent, TypeOK
  <2>3. answers' \in [Stream -> Nat] /\ strm' = NoStream
    BY <1>1 DEF Accept, TypeOK
  <2>4. done' \in [Stream -> BOOLEAN]
    BY <1>1 DEF Accept, TypeOK
  <2> QED
    BY <2>2, <2>3, <2>4
<1>2. CASE s # strm
  BY <1>2 DEF Accept, TypeOK
<1> QED
  BY <1>1, <1>2

(***************************************************************************)
(* The requests, the reports and the goroutines each keep the invariant.   *)
(***************************************************************************)
LEMMA RunStepInv == Inv /\ RunStep => Inv'
<1> SUFFICES ASSUME Inv, RunStep PROVE Inv'
  OBVIOUS
<1> USE StreamAssumption, SizeAssumption
    DEF Inv, TypeOK, CurrentUsed, AnsweredForgotten, AtMostOneAnswer,
        OpenStreamIsCurrent, EndedBufferDone, MainPlaces, PanicOnlyWhenDone,
        Used, Running
<1>1. ASSUME NEW s \in Stream, NEW k \in {"intent", "check"},
             main = "select", ~Used(s), CloseThenCreate(s, k)
      PROVE  Inv'
  BY <1>1 DEF CloseThenCreate, CloseCurrent
<1>2. ASSUME NEW mode \in Modes, NEW locale \in Locales,
             HotwordRejected(mode, locale)
      PROVE  Inv'
  BY <1>2 DEF HotwordRejected, CloseCurrent
<1>3. ASSUME NEW n \in Samples, Audio(n)
      PROVE  Inv'
  BY <1>3 DEF Audio, streamVars
<1>4. CASE AddBytes
  BY <1>4 DEF AddBytes
<1>5. CASE AddBytesPanics
  BY <1>5 DEF AddBytesPanics, streamVars
<1>6. ASSUME NEW s \in Stream, ReceiveIntent(s)
      PROVE  Inv'
  <2>1. CASE s = strm
    <3>1. TypeOK'
      BY <1>6, AcceptTypes DEF ReceiveIntent
    <3>2. /\ answers[s] = 0
          /\ answers' = [answers EXCEPT ![s] = @ + 1]
          /\ strm' = NoStream
          /\ \A t \in Stream : closed'[t] = (t = s \/ closed[t])
          /\ done' = [done EXCEPT ![s] = TRUE]
          /\ UNCHANGED <<kind, buffer, main, shutdown>>
      BY <1>6, <2>1 DEF ReceiveIntent, Accept, CloseCurrent
    <3> QED
      BY <1>6, <2>1, <3>1, <3>2 DEF ReceiveIntent
  <2>2. CASE s # strm
    BY <1>6, <2>2 DEF ReceiveIntent, Accept
  <2> QED
    BY <2>1, <2>2
<1>7. ASSUME NEW s \in Stream, ReceiveError(s)
      PROVE  Inv'
  <2>1. CASE s = strm
    <3>1. TypeOK'
      BY <1>7, AcceptTypes DEF ReceiveError
    <3>2. /\ answers[s] = 0
          /\ answers' = [answers EXCEPT ![s] = @ + 1]
          /\ strm' = NoStream
          /\ \A t \in Stream : closed'[t] = (t = s \/ closed[t])
          /\ done' = [done EXCEPT ![s] = TRUE]
          /\ UNCHANGED <<kind, buffer, main, shutdown>>
      BY <1>7, <2>1 DEF ReceiveError, Accept, CloseCurrent
    <3> QED
      BY <1>7, <2>1, <3>1, <3>2 DEF ReceiveError
  <2>2. CASE s # strm
    BY <1>7, <2>2 DEF ReceiveError, Accept
  <2> QED
    BY <2>1, <2>2
<1>8. CASE Stop
  BY <1>8 DEF Stop, streamVars
<1> QED
  BY <1>1, <1>2, <1>3, <1>4, <1>5, <1>6, <1>7, <1>8
     DEF RunStep, HotwordAccepted, ConnectionCheck, New

(* Taking a chunk from a channel that has one leaves a legal length.       *)
LEMMA TakeChunk ==
  ASSUME NEW c \in 0..ChanCap, c > 0 PROVE c - 1 \in 0..ChanCap
  BY SizeAssumption

LEMMA StreamStepInv ==
  ASSUME NEW s \in Stream, Inv, StreamStep(s) PROVE Inv'
<1> USE StreamAssumption, SizeAssumption
    DEF Inv, TypeOK, CurrentUsed, AnsweredForgotten, AtMostOneAnswer,
        OpenStreamIsCurrent, EndedBufferDone, MainPlaces, PanicOnlyWhenDone,
        Used, Running
<1>1. CASE SendChunk(s)
  <2>1. audioBuf[s] - StreamSize \in Nat /\ chunks[s] + 1 \in 0..ChanCap
    BY <1>1 DEF SendChunk
  <2> QED
    BY <1>1, <2>1 DEF SendChunk
<1>2. CASE BufferEnds(s)
  BY <1>2 DEF BufferEnds
<1>3. ASSUME NEW text \in {"", "text"}, ProcessChunk(s, text)
      PROVE  Inv'
  <2>0. chunks[s] \in 0..ChanCap /\ chunks[s] > 0
    BY <1>3 DEF ProcessChunk
  <2>1. chunks[s] - 1 \in 0..ChanCap
    BY <2>0, TakeChunk
  <2>2. (IF text = "" THEN "range" ELSE "send") \in {"range", "send", "end"}
    OBVIOUS
  <2>3. /\ chunks' \in [Stream -> 0..ChanCap]
        /\ recog' \in [Stream -> {"range", "send", "end"}]
    BY <1>3, <2>1, <2>2 DEF ProcessChunk
  <2>4. UNCHANGED <<strm, main, adding, shutdown, kind, closed, raced, done,
                    audioBuf, buffer, cancel, answers>>
    BY <1>3 DEF ProcessChunk
  <2> QED
    BY <2>3, <2>4
<1>4. CASE RecogniserEnds(s)
  BY <1>4 DEF RecogniserEnds
<1>5. ASSUME NEW seen \in BOOLEAN, CancelResponse(s, seen)
      PROVE  Inv'
  BY <1>5 DEF CancelResponse
<1>6. CASE ReportPanics(s)
  BY <1>6 DEF ReportPanics, streamVars
<1>7. CASE Timeout(s)
  BY <1>7 DEF Timeout
<1> QED
  BY <1>1, <1>2, <1>3, <1>4, <1>5, <1>6, <1>7 DEF StreamStep, Recognise

LEMMA NextInv == Inv /\ [Next]_vars => Inv'
<1> SUFFICES ASSUME Inv, [Next]_vars PROVE Inv'
  OBVIOUS
<1>1. CASE Shutdown
  BY <1>1 DEF Shutdown, Inv, TypeOK, CurrentUsed, AnsweredForgotten,
       AtMostOneAnswer, OpenStreamIsCurrent, EndedBufferDone, MainPlaces,
       PanicOnlyWhenDone, Used
<1>2. CASE UNCHANGED vars
  BY <1>2 DEF vars, streamVars, Inv, TypeOK, CurrentUsed, AnsweredForgotten,
       AtMostOneAnswer, OpenStreamIsCurrent, EndedBufferDone, MainPlaces,
       PanicOnlyWhenDone, Used
<1> QED
  BY <1>1, <1>2, RunStepInv, StreamStepInv DEF Next

(***************************************************************************)
(* The inductive invariant holds in every reachable state.                 *)
(***************************************************************************)
THEOREM Invariance == Spec => []Inv
  BY InitInv, NextInv, PTL DEF Spec

(***************************************************************************)
(* Type correctness of the process and its streamers.                      *)
(***************************************************************************)
THEOREM TypeCorrect == Spec => []TypeOK
<1>1. Inv => TypeOK
  BY DEF Inv
<1> QED
  BY <1>1, Invariance, PTL

(***************************************************************************)
(* However the intent, the timeout and the reports of prior streams race,  *)
(* the robot gets at most one answer for a stream.                         *)
(***************************************************************************)
THEOREM AnsweredOnce == Spec => []AtMostOneAnswer
<1>1. Inv => AtMostOneAnswer
  BY DEF Inv
<1> QED
  BY <1>1, Invariance, PTL

(***************************************************************************)
(* A stream Run has not closed is its current stream.                      *)
(***************************************************************************)
THEOREM NoStreamLost == Spec => []OpenStreamIsCurrent
<1>1. Inv => OpenStreamIsCurrent
  BY DEF Inv
<1> QED
  BY <1>1, Invariance, PTL

(***************************************************************************)
(* A panic needs a done context: the process is safe on live streams.      *)
(***************************************************************************)
THEOREM PanicNeedsDone == Spec => []PanicOnlyWhenDone
<1>1. Inv => PanicOnlyWhenDone
  BY DEF Inv
<1> QED
  BY <1>1, Invariance, PTL

-----------------------------------------------------------------------------
(***************************************************************************)
(* The refinement.  Only CloseThenCreate opens a session, only an accepted *)
(* report answers one, and no other step changes any phase.                *)
(***************************************************************************)
LEMMA InitSession == Init => Session!Init
  BY DEF Init, Session!Init, phase, Used

LEMMA CreateOpens ==
  ASSUME NEW s \in Stream, NEW k \in {"intent", "check"}, Inv,
         ~Used(s), CloseThenCreate(s, k)
  PROVE  Session!Open(s)
<1>1. phase[s] = "idle"
  BY DEF phase, Used
<1>2. /\ strm' = s
      /\ answers' = answers
      /\ \A t \in Stream : Used(t)' = (t = s \/ Used(t))
  BY DEF CloseThenCreate, Inv, TypeOK, Used
<1>3. ASSUME NEW t \in Stream
      PROVE  phase'[t] = IF t = s THEN "open"
                         ELSE IF phase[t] = "open" THEN "superseded"
                         ELSE phase[t]
  BY <1>2 DEF phase, Inv, TypeOK, AnsweredForgotten, CurrentUsed
<1> QED
  BY <1>1, <1>3 DEF Session!Open, phase

LEMMA AcceptAnswers ==
  ASSUME NEW s \in Stream, Inv, Accept(s), UNCHANGED kind
  PROVE  Session!Answer(s) \/ UNCHANGED phase
<1>1. CASE s = strm
  <2>1. phase[s] = "open"
    BY <1>1, StreamAssumption
       DEF phase, Inv, TypeOK, CurrentUsed, AnsweredForgotten
  <2>2. \A t \in Stream : Used(t)' = Used(t)
    BY DEF Used
  <2>3. /\ answers'[s] > 0
        /\ \A t \in Stream \ {s} : answers'[t] = answers[t]
        /\ strm' = NoStream
    BY <1>1 DEF Accept, Inv, TypeOK
  <2>4. Used(s)
    BY <1>1, StreamAssumption DEF Inv, CurrentUsed
  <2>5. ASSUME NEW t \in Stream
        PROVE  phase'[t] = IF t = s THEN "answered" ELSE phase[t]
    BY <1>1, <2>2, <2>3, <2>4, StreamAssumption DEF phase
  <2> QED
    BY <2>1, <2>5 DEF Session!Answer, phase
<1>2. CASE s # strm
  BY <1>2 DEF Accept, phase, Used
<1> QED
  BY <1>1, <1>2

LEMMA StepSession == Inv /\ [Next]_vars => [Session!Next]_phase
<1> SUFFICES ASSUME Inv, [Next]_vars
             PROVE  Session!Next \/ UNCHANGED phase
  OBVIOUS
<1>1. ASSUME NEW s \in Stream, NEW k \in {"intent", "check"},
             ~Used(s), CloseThenCreate(s, k)
      PROVE  Session!Next
  BY <1>1, CreateOpens DEF Session!Next
<1>2. ASSUME NEW s \in Stream, ReceiveIntent(s) \/ ReceiveError(s)
      PROVE  Session!Next \/ UNCHANGED phase
  BY <1>2, AcceptAnswers DEF Session!Next, ReceiveIntent, ReceiveError
<1>3. ASSUME UNCHANGED <<strm, kind, answers>>
      PROVE  UNCHANGED phase
  BY <1>3 DEF phase, Used
<1>4. CASE \E mode \in Modes, locale \in Locales : HotwordRejected(mode, locale)
  BY <1>3, <1>4 DEF HotwordRejected
<1>5. CASE (\E n \in Samples : Audio(n)) \/ AddBytes \/ AddBytesPanics \/ Stop
  BY <1>3, <1>5 DEF Audio, AddBytes, AddBytesPanics, Stop, streamVars
<1>6. CASE \E s \in Stream : StreamStep(s)
  BY <1>3, <1>6 DEF StreamStep, Recognise, SendChunk, BufferEnds, ProcessChunk,
       RecogniserEnds, CancelResponse, ReportPanics, Timeout, streamVars
<1>7. CASE Shutdown \/ UNCHANGED vars
  BY <1>3, <1>7 DEF Shutdown, vars, streamVars
<1> QED
  BY <1>1, <1>2, <1>4, <1>5, <1>6, <1>7
     DEF Next, RunStep, HotwordAccepted, ConnectionCheck, New

(***************************************************************************)
(* The voice process implements VoiceSession: a request opens a session,   *)
(* only the newest can be answered, and only once.                         *)
(***************************************************************************)
THEOREM Refinement == Spec => ImplementsSession
  BY InitSession, StepSession, Invariance, PTL
     DEF Spec, ImplementsSession, Session!Spec
=============================================================================
