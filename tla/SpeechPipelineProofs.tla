------------------------- MODULE SpeechPipelineProofs -------------------------
(***************************************************************************)
(* Proofs about SpeechPipeline, for any streams and decoders and any       *)
(* thresholds of the detector.                                             *)
(***************************************************************************)
EXTENDS SpeechPipeline, TLAPS

Places == Before \cup Past \cup {"range", "send", "end", "panic"}

(* A decoder that runs has the flag to itself.                             *)
DecoderSound ==
  \A u \in Decoding : overarchingIgnore /\ Decoding = {u}

(* The detector that is said to be there is.                               *)
DetectorSound == VADExists => VADInst

(* A recogniser past its test of the flag meets no decoder; the flag and   *)
(* the detector are as it found or left them.                              *)
RecogniserSound(s) ==
  /\ pc[s] \in Past => Decoding = {}
  /\ pc[s] \in Past \ {"go"} => ~overarchingIgnore
  /\ pc[s] = "go" => overarchingIgnore
  /\ pc[s] \in {"made", "vad"} => VADInst
  /\ pc[s] = "drop" => ~VADExists
  /\ pc[s] # "panic"

OneInPast ==
  \A s, t \in Stream : pc[s] \in Past /\ pc[t] \in Past => s = t

Exclusive ==
  apart => /\ DecoderSound
           /\ DetectorSound
           /\ OneInPast
           /\ \A s \in Stream : RecogniserSound(s)

Inv ==
  /\ TypeOK
  /\ DeafHasDecoder
  /\ Exclusive

-----------------------------------------------------------------------------
LEMMA InitInv == Init => Inv
<1> SUFFICES ASSUME Init PROVE Inv
  OBVIOUS
<1>1. TypeOK
  <2>1. 0 \in Nat /\ 0 \in 0..MaxChunks /\ 0 \in 0..Frames /\ 0 <= 0
    BY SpeechAssumption
  <2>2. /\ pc \in [Stream ->
                    Before \cup Past \cup {"range", "send", "end", "panic"}]
        /\ stream \in [Stream -> {"none", "open", "done", "ended"}]
        /\ utterance \in [Utterance -> {"none", "decode", "result"}]
    BY DEF Init
  <2>3. \A s \in Stream : queue[s] <= fed[s]
    BY <2>1 DEF Init
  <2> QED
    BY <2>1, <2>2, <2>3 DEF Init, TypeOK
<1>2. DeafHasDecoder
  BY DEF Init, DeafHasDecoder
<1>3. Exclusive
  BY DEF Init, Exclusive, DecoderSound, DetectorSound, OneInPast, RecogniserSound,
         Past, Decoding
<1> QED
  BY <1>1, <1>2, <1>3 DEF Inv

(* Only the recogniser that steps is somewhere else.                       *)
LEMMA Moves ==
  ASSUME NEW s \in Stream, NEW from, NEW to, TypeOK, Goto(s, from, to)
  PROVE  /\ pc[s] = from
         /\ pc'[s] = to
         /\ \A t \in Stream \ {s} : pc'[t] = pc[t]
BY DEF Goto, TypeOK

LEMMA MovesType ==
  ASSUME NEW s \in Stream, NEW from, NEW to \in Places, TypeOK, Goto(s, from, to)
  PROVE  pc' \in [Stream -> Places]
BY DEF Goto, TypeOK, Places

-----------------------------------------------------------------------------
(* How a step keeps each part.                                             *)

(* The flag is as it was, and nobody who would reset it has gone.          *)
LEMMA DeafKept ==
  ASSUME DeafHasDecoder, overarchingIgnore' = overarchingIgnore,
         \A s \in Stream : pc[s] = "go" => pc'[s] = "go",
         \A u \in Utterance : utterance[u] = "decode" => utterance'[u] = "decode"
  PROVE  DeafHasDecoder'
BY DEF DeafHasDecoder

(* What holds of a recogniser is left alone by what another one does       *)
(* elsewhere.                                                              *)
LEMMA OtherKept ==
  ASSUME NEW t \in Stream, RecogniserSound(t), pc'[t] = pc[t],
         \/ pc[t] \notin Past
         \/ UNCHANGED <<overarchingIgnore, VADExists, VADInst, utterance>>
  PROVE  RecogniserSound(t)'
<1>1. CASE pc[t] \notin Past
  <2>1. "go" \in Past /\ "made" \in Past /\ "vad" \in Past /\ "drop" \in Past
    BY DEF Past
  <2>2. /\ pc'[t] # "go" /\ pc'[t] # "made" /\ pc'[t] # "vad" /\ pc'[t] # "drop"
        /\ pc'[t] # "panic" /\ pc'[t] \notin Past
    BY <1>1, <2>1 DEF RecogniserSound
  <2> QED
    BY <2>2 DEF RecogniserSound
<1>2. CASE UNCHANGED <<overarchingIgnore, VADExists, VADInst, utterance>>
  BY <1>2 DEF RecogniserSound, Decoding
<1> QED
  BY <1>1, <1>2

(* A recogniser past the test is alone there: only its own soundness, the  *)
(* decoders' and the detector's are at stake.                              *)
LEMMA PastKeeps ==
  ASSUME NEW s \in Stream, NEW from \in Past, NEW to, Inv,
         Goto(s, from, to), apart' = apart,
         apart => DecoderSound' /\ DetectorSound' /\ RecogniserSound(s)'
  PROVE  Exclusive'
<1> SUFFICES ASSUME apart'
             PROVE  OneInPast' /\ \A t \in Stream : RecogniserSound(t)'
  BY DEF Exclusive
<1>1. TypeOK /\ apart /\ OneInPast /\ \A t \in Stream : RecogniserSound(t)
  BY DEF Inv, Exclusive
<1>2. pc[s] = from /\ \A t \in Stream \ {s} : pc'[t] = pc[t]
  BY <1>1, Moves
<1>3. \A t \in Stream \ {s} : pc[t] \notin Past /\ pc'[t] \notin Past
  BY <1>1, <1>2 DEF OneInPast
<1>4. OneInPast'
  BY <1>3 DEF OneInPast
<1>5. ASSUME NEW t \in Stream \ {s} PROVE RecogniserSound(t)'
  BY <1>1, <1>2, <1>3, OtherKept
<1> QED
  BY <1>1, <1>4, <1>5

(* A step that stays before the test or outside Process.                   *)
LEMMA OutsideKeeps ==
  ASSUME NEW s \in Stream, NEW from \in Places \ Past, NEW to \in Places \ Past,
         to # "panic", Inv, Goto(s, from, to),
         UNCHANGED <<utterance, overarchingIgnore, VADExists, VADInst, apart>>
  PROVE  DeafHasDecoder' /\ Exclusive'
<1>0. TypeOK /\ DeafHasDecoder
  BY DEF Inv
<1>1. pc[s] = from /\ pc'[s] = to /\ \A t \in Stream \ {s} : pc'[t] = pc[t]
  BY <1>0, Moves
<1>2. DeafHasDecoder'
  <2>1. "go" \in Past
    BY DEF Past
  <2> QED
    BY <1>0, <1>1, <2>1, DeafKept
<1>3. ASSUME apart
      PROVE  /\ DecoderSound' /\ DetectorSound' /\ OneInPast'
             /\ \A t \in Stream : RecogniserSound(t)'
  <2>1. /\ DecoderSound /\ DetectorSound /\ OneInPast
        /\ \A t \in Stream : RecogniserSound(t)
    BY <1>3 DEF Inv, Exclusive
  <2>2. OneInPast'
    BY <1>1, <2>1 DEF OneInPast
  <2>3. DecoderSound' /\ DetectorSound'
    BY <2>1 DEF DecoderSound, DetectorSound, Decoding
  <2>4. RecogniserSound(s)'
    BY <1>1 DEF RecogniserSound, Past
  <2>5. ASSUME NEW t \in Stream \ {s} PROVE RecogniserSound(t)'
    BY <1>1, <2>1, OtherKept
  <2> QED
    BY <2>2, <2>3, <2>4, <2>5
<1> QED
  BY <1>2, <1>3 DEF Exclusive

-----------------------------------------------------------------------------
LEMMA StreamStepInv ==
  ASSUME NEW s \in Stream, Inv, StreamStep(s)
  PROVE  Inv'
<1>1. UNCHANGED <<pc, left, text, answer, package, vad, decoders, apart>>
  BY DEF StreamStep, Open, Timeout, Chunk, BufferEnds
<1>2. UNCHANGED <<voiceBuf, overarchingIgnore, finalResp, InactiveFrames,
                  ActiveFrames, VADExists, VADInst, utterance, audio>>
  BY <1>1 DEF package, vad, counters, decoders
<1>3. TypeOK'
  <2>1. /\ stream' \in [Stream -> {"none", "open", "done", "ended"}]
        /\ fed' \in [Stream -> 0..MaxChunks]
        /\ queue' \in [Stream -> 0..MaxChunks]
        /\ \A t \in Stream : queue'[t] <= fed'[t]
    <3>1. CASE Open(s)
      BY <3>1 DEF Inv, TypeOK, Open
    <3>2. CASE Timeout(s) \/ BufferEnds(s)
      BY <3>2 DEF Inv, TypeOK, Timeout, BufferEnds
    <3>3. CASE Chunk(s)
      BY <3>3, SpeechAssumption DEF Inv, TypeOK, Chunk
    <3> QED
      BY <3>1, <3>2, <3>3 DEF StreamStep
  <2> QED
    BY <1>1, <1>2, <2>1 DEF Inv, TypeOK
<1>4. DeafHasDecoder'
  BY <1>1, <1>2 DEF Inv, DeafHasDecoder
<1>5. Exclusive'
  BY <1>1, <1>2 DEF Inv, Exclusive, DecoderSound, DetectorSound, OneInPast,
                    RecogniserSound, Decoding
<1> QED
  BY <1>3, <1>4, <1>5 DEF Inv

(* Range, RangeEnds and SendIntent.                                        *)
LEMMA OutsideInv ==
  ASSUME NEW s \in Stream, Inv, Range(s) \/ RangeEnds(s) \/ SendIntent(s)
  PROVE  Inv'
<1>1. PICK from \in {"range", "send"}, to \in {"text", "end"} : Goto(s, from, to)
  BY DEF Range, RangeEnds, SendIntent
<1>2. UNCHANGED <<fed, left, text, voiceBuf, overarchingIgnore, finalResp,
                  InactiveFrames, ActiveFrames, VADExists, VADInst, utterance,
                  audio, apart>>
  BY DEF Range, RangeEnds, SendIntent, feed, package, vad, counters, decoders
<1>3. /\ from \in Places \ Past
      /\ to \in Places \ Past /\ to # "panic"
  BY DEF Places, Before, Past
<1>4. TypeOK'
  <2>1. pc' \in [Stream -> Places]
    BY <1>1, <1>3, MovesType DEF Inv
  <2>2. /\ stream' \in [Stream -> {"none", "open", "done", "ended"}]
        /\ answer' \in [Stream -> SUBSET Stream]
    BY DEF Inv, TypeOK, Range, RangeEnds, SendIntent, feed
  <2>3. /\ queue' \in [Stream -> 0..MaxChunks]
        /\ \A t \in Stream : queue'[t] <= fed'[t]
    <3>1. CASE Range(s)
      BY <1>2, <3>1, SpeechAssumption DEF Inv, TypeOK, Range
    <3>2. CASE RangeEnds(s) \/ SendIntent(s)
      BY <1>2, <3>2 DEF Inv, TypeOK, RangeEnds, SendIntent, feed
    <3> QED
      BY <3>1, <3>2
  <2> QED
    BY <1>2, <2>1, <2>2, <2>3 DEF Inv, TypeOK, Places
<1>5. DeafHasDecoder' /\ Exclusive'
  BY <1>1, <1>2, <1>3, OutsideKeeps
<1> QED
  BY <1>4, <1>5 DEF Inv

(* What a step may rely on.                                                *)
LEMMA Relies ==
  ASSUME NEW s \in Stream, Inv
  PROVE  /\ left \in [Stream -> 0..Frames]
         /\ text \in [Stream -> SUBSET Stream]
         /\ voiceBuf \in SUBSET Stream
         /\ finalResp \in SUBSET Stream
         /\ overarchingIgnore \in BOOLEAN
         /\ InactiveFrames \in Nat
         /\ ActiveFrames \in Nat
         /\ VADExists \in BOOLEAN
         /\ VADInst \in BOOLEAN
         /\ apart \in BOOLEAN
         /\ apart => DecoderSound /\ DetectorSound /\ RecogniserSound(s)
BY DEF Inv, TypeOK, Exclusive

(* Where the text is read and returned, and where the flag is found set.   *)
LEMMA TextStepInv ==
  ASSUME NEW s \in Stream, Inv,
         \/ TestText(s) \/ CopyText(s) \/ ClearText(s) \/ ReturnText(s)
         \/ TestIgnore(s) /\ Goto(s, "ignore", "range")
  PROVE  Inv'
<1>1. PICK from \in Before,
           to \in {"copy", "ignore", "clear", "reset", "range", "send"} :
        Goto(s, from, to)
  BY DEF TestText, CopyText, ClearText, ReturnText, Before
<1>2. /\ UNCHANGED <<stream, fed, queue, answer, utterance, audio, apart, left,
                     overarchingIgnore, InactiveFrames, ActiveFrames, VADExists,
                     VADInst>>
      /\ text' \in [Stream -> SUBSET Stream]
      /\ voiceBuf' \in SUBSET Stream
      /\ finalResp' \in SUBSET Stream
  <2>1. CASE TestText(s) \/ CopyText(s) \/ ClearText(s) \/ ReturnText(s)
    BY <2>1, Relies
       DEF TestText, CopyText, ClearText, ReturnText, feed, package, vad, counters,
           decoders
  <2>2. CASE TestIgnore(s) /\ Goto(s, "ignore", "range")
    <3>1. pc'[s] = "range" /\ "range" # "exists"
      BY <2>2, Moves DEF Inv
    <3>2. ~Goto(s, "ignore", "exists")
      BY <3>1, Moves DEF Inv
    <3> QED
      BY <2>2, <3>2, Relies DEF TestIgnore, feed, package, vad, counters, decoders
  <2> QED
    BY <2>1, <2>2
<1>3. /\ from \in Places \ Past
      /\ to \in Places \ Past /\ to # "panic"
  BY DEF Places, Before, Past
<1>4. TypeOK'
  <2>1. pc' \in [Stream -> Places]
    BY <1>1, <1>3, MovesType DEF Inv
  <2> QED
    BY <1>2, <2>1 DEF Inv, TypeOK, Places
<1>5. DeafHasDecoder' /\ Exclusive'
  BY <1>1, <1>2, <1>3, OutsideKeeps
<1> QED
  BY <1>4, <1>5 DEF Inv

(* A recogniser passes the test: apart if no other is past it.             *)
LEMMA PassesInv ==
  ASSUME NEW s \in Stream, Inv, TestIgnore(s), ~Goto(s, "ignore", "range")
  PROVE  Inv'
<1>1. /\ Goto(s, "ignore", "exists") /\ ~overarchingIgnore
      /\ left' = [left EXCEPT ![s] = Frames]
      /\ apart' = (apart /\ \A t \in Stream : pc[t] \notin Past)
  BY DEF TestIgnore
<1>2. UNCHANGED <<stream, fed, queue, answer, utterance, audio, text, voiceBuf,
                  finalResp, overarchingIgnore, InactiveFrames, ActiveFrames,
                  VADExists, VADInst>>
  BY DEF TestIgnore, feed, package, vad, counters, decoders
<1>3. pc[s] = "ignore" /\ pc'[s] = "exists" /\ \A t \in Stream \ {s} : pc'[t] = pc[t]
  BY <1>1, Moves DEF Inv
<1>4. TypeOK'
  <2>1. "exists" \in Places
    BY DEF Places, Past
  <2>2. pc' \in [Stream -> Places]
    BY <1>1, <2>1, MovesType DEF Inv
  <2>3. Frames \in 0..Frames
    BY SpeechAssumption
  <2>4. left' \in [Stream -> 0..Frames] /\ apart' \in BOOLEAN
    BY <1>1, <2>3, Relies
  <2> QED
    BY <1>2, <2>2, <2>4 DEF Inv, TypeOK, Places
<1>5. DeafHasDecoder'
  BY <1>1, <1>2 DEF DeafHasDecoder
<1>6. ASSUME apart'
      PROVE  /\ DecoderSound' /\ DetectorSound' /\ OneInPast'
             /\ \A t \in Stream : RecogniserSound(t)'
  <2>1. apart /\ \A t \in Stream : pc[t] \notin Past
    BY <1>1, <1>6
  <2>2. DecoderSound /\ DetectorSound /\ \A t \in Stream : RecogniserSound(t)
    BY <2>1 DEF Inv, Exclusive
  <2>3. DecoderSound' /\ DetectorSound'
    BY <1>2, <2>2 DEF DecoderSound, DetectorSound, Decoding
  <2>4. OneInPast'
    BY <1>3, <2>1 DEF OneInPast
  <2>5. Decoding' = {}
    BY <1>1, <1>2, <2>2 DEF DecoderSound, Decoding
  <2>6. RecogniserSound(s)'
    BY <1>1, <1>2, <1>3, <2>5 DEF RecogniserSound
  <2>7. ASSUME NEW t \in Stream \ {s} PROVE RecogniserSound(t)'
    BY <1>3, <2>1, <2>2, OtherKept
  <2> QED
    BY <2>3, <2>4, <2>6, <2>7
<1> QED
  BY <1>4, <1>5, <1>6 DEF Inv, Exclusive

-----------------------------------------------------------------------------
(***************************************************************************)
(* A step past the test that starts no decoder: what it may do to each     *)
(* package variable.                                                       *)
(***************************************************************************)
LEMMA ProcessKeeps ==
  ASSUME NEW s \in Stream, NEW from \in Past \ {"go"},
         NEW to \in Past \cup {"range", "panic"},
         Inv, Goto(s, from, to),
         UNCHANGED <<stream, fed, queue, text, answer, finalResp, utterance, audio,
                     apart>>,
         left' \in [Stream -> 0..Frames],
         voiceBuf' \in SUBSET Stream,
         overarchingIgnore' = (to = "go") \/ overarchingIgnore' = overarchingIgnore,
         InactiveFrames' \in Nat,
         ActiveFrames' \in Nat,
         VADExists' \in BOOLEAN,
         VADInst' \in BOOLEAN,
         apart => /\ DetectorSound'
                  /\ to = "go" => overarchingIgnore'
                  /\ to \in {"made", "vad"} => VADInst'
                  /\ to = "drop" => ~VADExists'
                  /\ to # "panic"
  PROVE  Inv'
<1>1. TypeOK'
  <2>1. to \in Places
    BY DEF Places
  <2>2. pc' \in [Stream -> Places]
    BY <2>1, MovesType DEF Inv
  <2>3. overarchingIgnore' \in BOOLEAN
    BY Relies
  <2> QED
    BY <2>2, <2>3 DEF Inv, TypeOK, Places
<1>2. pc[s] = from /\ pc'[s] = to /\ \A t \in Stream \ {s} : pc'[t] = pc[t]
  BY Moves DEF Inv
<1>3. DeafHasDecoder'
  <2>1. CASE overarchingIgnore' /\ to = "go"
    BY <1>2, <2>1 DEF DeafHasDecoder
  <2>2. CASE overarchingIgnore' /\ overarchingIgnore
    <3>1. \/ \E t \in Stream \ {s} : pc[t] = "go"
          \/ \E u \in Utterance : utterance[u] = "decode"
      BY <1>2, <2>2 DEF Inv, DeafHasDecoder
    <3> QED
      BY <1>2, <3>1 DEF DeafHasDecoder
  <2>3. CASE ~overarchingIgnore'
    BY <2>3 DEF DeafHasDecoder
  <2>4. overarchingIgnore' => to = "go" \/ overarchingIgnore
    OBVIOUS
  <2> QED
    BY <2>1, <2>2, <2>3, <2>4
<1>4. ASSUME apart PROVE DecoderSound' /\ RecogniserSound(s)'
  <2>1. Decoding = {} /\ ~overarchingIgnore
    BY <1>2, <1>4, Relies DEF RecogniserSound
  <2>2. Decoding' = {}
    BY <2>1 DEF Decoding
  <2>3. to # "go" => ~overarchingIgnore'
    BY <2>1
  <2>4. "go" \in Past
    BY DEF Past
  <2> QED
    BY <1>2, <1>4, <2>2, <2>3, <2>4 DEF DecoderSound, RecogniserSound
<1>5. Exclusive'
  BY <1>4, PastKeeps
<1> QED
  BY <1>1, <1>3, <1>5 DEF Inv

(* The detector is made or dropped.                                        *)
LEMMA DetectorStepInv ==
  ASSUME NEW s \in Stream, Inv,
         TestExists(s) \/ MakeDetector(s) \/ DropDetector(s)
  PROVE  Inv'
<1>1. PICK from \in {"exists", "make", "made", "forget", "drop", "zero"},
           to \in {"make", "made", "vad", "drop", "zero", "appendLast"} :
        /\ Goto(s, from, to)
        /\ from = "exists" => TestExists(s)
        /\ from \in {"make", "made"} => MakeDetector(s)
        /\ from \in {"forget", "drop", "zero"} => DropDetector(s)
  BY DEF TestExists, MakeDetector, DropDetector
<1>2. UNCHANGED <<stream, fed, queue, left, text, answer, voiceBuf, finalResp,
                  overarchingIgnore, utterance, audio, apart>>
  BY DEF TestExists, MakeDetector, DropDetector, feed, package, decoders
<1>3. pc[s] = from /\ pc'[s] = to
  BY <1>1, Moves DEF Inv
<1>4. /\ InactiveFrames' \in Nat /\ ActiveFrames' \in Nat
      /\ VADExists' \in BOOLEAN /\ VADInst' \in BOOLEAN
  <2>1. CASE TestExists(s)
    BY <2>1, Relies DEF TestExists, vad, counters
  <2>2. CASE MakeDetector(s)
    BY <2>2, Relies DEF MakeDetector, counters
  <2>3. CASE DropDetector(s)
    <3>1. /\ InactiveFrames' \in {InactiveFrames, 0}
          /\ ActiveFrames' \in {ActiveFrames, 0}
          /\ VADExists' \in {VADExists, FALSE}
          /\ VADInst' \in {VADInst, FALSE}
      BY <2>3 DEF DropDetector, counters
    <3>2. InactiveFrames' \in Nat /\ ActiveFrames' \in Nat
      BY <3>1, Relies
    <3>3. VADExists' \in BOOLEAN /\ VADInst' \in BOOLEAN
      BY <3>1, Relies
    <3> QED
      BY <3>2, <3>3
  <2> QED
    BY <2>1, <2>2, <2>3
<1>5. ASSUME apart
      PROVE  /\ DetectorSound'
             /\ to = "go" => overarchingIgnore'
             /\ to \in {"made", "vad"} => VADInst'
             /\ to = "drop" => ~VADExists'
             /\ to # "panic"
  <2>1. DetectorSound /\ RecogniserSound(s)
    BY <1>5, Relies
  <2>2. CASE from = "exists"
    <3>1. /\ UNCHANGED <<VADExists, VADInst>>
          /\ Goto(s, "exists", IF VADExists THEN "vad" ELSE "make")
      BY <1>1, <2>2 DEF TestExists, vad
    <3>2. to = IF VADExists THEN "vad" ELSE "make"
      BY <1>3, <3>1, Moves DEF Inv
    <3> QED
      BY <2>1, <3>1, <3>2 DEF DetectorSound
  <2>3. CASE from \in {"make", "made"}
    <3>1. MakeDetector(s)
      BY <1>1, <2>3
    <3>2. VADInst' /\ to \in {"made", "vad"}
      BY <1>3, <2>1, <3>1, Relies, Moves DEF MakeDetector, Inv
    <3> QED
      BY <3>2 DEF DetectorSound
  <2>4. CASE from \in {"forget", "drop", "zero"}
    <3>1. DropDetector(s)
      BY <1>1, <2>4
    <3>2. to \in {"drop", "zero", "appendLast"}
      BY <1>3, <3>1, Moves DEF DropDetector, Inv
    <3>3. CASE from = "forget"
      <4>1. ~VADExists'
        BY <1>3, <3>1, <3>3 DEF DropDetector, Goto
      <4> QED
        BY <3>2, <4>1 DEF DetectorSound
    <3>4. CASE from = "drop"
      <4>1. ~VADExists' /\ to = "zero"
        BY <1>3, <2>1, <3>1, <3>4, Moves DEF DropDetector, RecogniserSound, Inv, Goto
      <4> QED
        BY <4>1 DEF DetectorSound
    <3>5. CASE from = "zero"
      <4>1. UNCHANGED <<VADExists, VADInst>> /\ to = "appendLast"
        BY <1>3, <3>1, <3>5, Moves DEF DropDetector, Inv, Goto
      <4> QED
        BY <2>1, <4>1 DEF DetectorSound
    <3> QED
      BY <2>4, <3>3, <3>4, <3>5
  <2> QED
    BY <2>2, <2>3, <2>4
<1>6. from \in Past \ {"go"} /\ to \in Past
  BY DEF Past
<1> QED
  BY <1>1, <1>2, <1>4, <1>5, <1>6, Relies, ProcessKeeps

(* A frame of the chunk, or none.                                          *)
LEMMA FrameStepInv ==
  ASSUME NEW s \in Stream, Inv,
         \/ \E active \in BOOLEAN : Frame(s, active)
         \/ EndOfSpeech(s) \/ NoDetector(s) \/ ChunkSeen(s)
  PROVE  Inv'
<1>1. PICK from \in {"made", "vad"}, to \in {"vad", "forget", "append", "panic"} :
        /\ Goto(s, from, to)
        /\ to = "panic" => NoDetector(s)
  BY DEF Frame, EndOfSpeech, NoDetector, ChunkSeen
<1>2. UNCHANGED <<stream, fed, queue, answer, utterance, audio, apart, text,
                  voiceBuf, finalResp, overarchingIgnore, VADExists, VADInst>>
  BY DEF Frame, EndOfSpeech, NoDetector, ChunkSeen, feed, package, decoders, vad
<1>3. pc[s] = from /\ pc'[s] = to
  BY <1>1, Moves DEF Inv
<1>4. left' \in [Stream -> 0..Frames]
  <2>1. left[s] \in 0..Frames /\ left \in [Stream -> 0..Frames]
    BY Relies
  <2>2. left[s] > 0 => left[s] - 1 \in 0..Frames
    BY <2>1, SpeechAssumption
  <2> QED
    BY <2>1, <2>2 DEF Frame, EndOfSpeech, NoDetector, ChunkSeen, Look
<1>5. InactiveFrames' \in Nat /\ ActiveFrames' \in Nat
  BY Relies DEF Frame, EndOfSpeech, NoDetector, ChunkSeen, vad, counters, Counted
<1>6. ASSUME apart
      PROVE  /\ DetectorSound'
             /\ to = "go" => overarchingIgnore'
             /\ to \in {"made", "vad"} => VADInst'
             /\ to = "drop" => ~VADExists'
             /\ to # "panic"
  <2>1. DetectorSound /\ RecogniserSound(s)
    BY <1>6, Relies
  <2>2. VADInst
    BY <1>3, <2>1 DEF RecogniserSound
  <2>3. to # "panic"
    BY <1>1, <2>2 DEF NoDetector
  <2> QED
    BY <1>2, <2>2, <2>3 DEF DetectorSound
<1>7. from \in Past \ {"go"} /\ to \in Past \cup {"panic"}
  BY DEF Past
<1> QED
  BY <1>1, <1>2, <1>4, <1>5, <1>6, <1>7, Relies, ProcessKeeps

(* The chunk is kept, then the flag says whether an utterance has ended.   *)
LEMMA KeepStepInv ==
  ASSUME NEW s \in Stream, Inv, Append(s) \/ SetIgnore(s)
  PROVE  Inv'
<1>1. PICK from \in {"append", "appendLast", "listen", "stop"},
           to \in {"listen", "stop", "range", "go"} :
        /\ Goto(s, from, to)
        /\ to \in {"listen", "stop"} => overarchingIgnore' = overarchingIgnore
        /\ to \in {"range", "go"} => overarchingIgnore' = (to = "go")
  BY DEF Append, SetIgnore
<1>2. /\ UNCHANGED <<stream, fed, queue, answer, utterance, audio, apart, text,
                     left, finalResp, InactiveFrames, ActiveFrames, VADExists,
                     VADInst>>
      /\ voiceBuf' \in SUBSET Stream
  BY Relies DEF Append, SetIgnore, feed, package, vad, counters, decoders
<1>3. overarchingIgnore' = (to = "go") \/ overarchingIgnore' = overarchingIgnore
  BY <1>1
<1>4. ASSUME apart
      PROVE  /\ DetectorSound'
             /\ to = "go" => overarchingIgnore'
             /\ to \in {"made", "vad"} => VADInst'
             /\ to = "drop" => ~VADExists'
             /\ to # "panic"
  BY <1>1, <1>2, <1>4, Relies DEF DetectorSound
<1>5. from \in Past \ {"go"} /\ to \in Past \cup {"range"}
  BY DEF Past
<1> QED
  BY <1>1, <1>2, <1>3, <1>4, <1>5, Relies, ProcessKeeps

-----------------------------------------------------------------------------
(* A decoder starts: the recogniser that starts it knew of no other.       *)
LEMMA GoInv ==
  ASSUME NEW s \in Stream, NEW u \in Utterance, Inv, GoSendUtterance(s, u)
  PROVE  Inv'
<1>1. Goto(s, "go", "range") /\ pc[s] = "go" /\ pc'[s] = "range"
  BY Moves DEF GoSendUtterance, Inv
<1>2. UNCHANGED <<stream, fed, queue, left, text, answer, voiceBuf,
                  overarchingIgnore, finalResp, InactiveFrames, ActiveFrames,
                  VADExists, VADInst, apart>>
  BY DEF GoSendUtterance, feed, package, vad, counters
<1>3. utterance \in [Utterance -> {"none", "decode", "result"}]
      /\ audio \in [Utterance -> SUBSET Stream]
  BY DEF Inv, TypeOK
<1>4. /\ utterance'[u] = "decode"
      /\ \A v \in Utterance \ {u} : utterance'[v] = utterance[v]
  BY <1>3 DEF GoSendUtterance
<1>5. TypeOK'
  <2>1. "range" \in Places
    BY DEF Places
  <2>2. pc' \in [Stream -> Places]
    BY <1>1, <2>1, MovesType DEF Inv
  <2>3. /\ utterance' \in [Utterance -> {"none", "decode", "result"}]
        /\ audio' \in [Utterance -> SUBSET Stream]
    BY <1>3, Relies DEF GoSendUtterance
  <2> QED
    BY <1>2, <2>2, <2>3 DEF Inv, TypeOK, Places
<1>6. DeafHasDecoder'
  BY <1>4 DEF DeafHasDecoder
<1>7. "go" \in Past /\ "range" \notin Past
  BY DEF Past
<1>8. ASSUME apart PROVE DecoderSound' /\ DetectorSound' /\ RecogniserSound(s)'
  <2>1. Decoding = {} /\ overarchingIgnore /\ DetectorSound
    BY <1>1, <1>7, <1>8, Relies DEF RecogniserSound
  <2>2. Decoding' = {u}
    BY <1>4, <2>1 DEF Decoding
  <2>3. DecoderSound' /\ DetectorSound'
    BY <1>2, <2>1, <2>2 DEF DecoderSound, DetectorSound
  <2>4. RecogniserSound(s)'
    BY <1>1, <1>7 DEF RecogniserSound
  <2> QED
    BY <2>3, <2>4
<1>9. Exclusive'
  BY <1>1, <1>2, <1>7, <1>8, PastKeeps
<1> QED
  BY <1>5, <1>6, <1>9 DEF Inv

LEMMA RecogniserStepInv ==
  ASSUME NEW s \in Stream, Inv, RecogniserStep(s)
  PROVE  Inv'
BY OutsideInv, TextStepInv, PassesInv, DetectorStepInv, FrameStepInv, KeepStepInv,
   GoInv
   DEF RecogniserStep, ProcessStep

(* A decoder ends: it was the only one, and nobody was past the test.      *)
LEMMA UtteranceStepInv ==
  ASSUME NEW u \in Utterance, Inv, UtteranceStep(u)
  PROVE  Inv'
<1>1. UNCHANGED <<stream, fed, queue, pc, left, text, answer, voiceBuf,
                  InactiveFrames, ActiveFrames, VADExists, VADInst, apart>>
  BY DEF UtteranceStep, Decode, SetText, feed, vad, counters
<1>2. /\ utterance \in [Utterance -> {"none", "decode", "result"}]
      /\ audio \in [Utterance -> SUBSET Stream]
      /\ finalResp \in SUBSET Stream
      /\ overarchingIgnore \in BOOLEAN
  BY DEF Inv, TypeOK
<1>3. TypeOK'
  <2>1. /\ utterance' \in [Utterance -> {"none", "decode", "result"}]
        /\ audio' \in [Utterance -> SUBSET Stream]
        /\ finalResp' \in SUBSET Stream
        /\ overarchingIgnore' \in BOOLEAN
    BY <1>2 DEF UtteranceStep, Decode, SetText
  <2> QED
    BY <1>1, <2>1 DEF Inv, TypeOK
<1>4. CASE Decode(u)
  <2>1. ~overarchingIgnore'
    BY <1>4 DEF Decode
  <2>2. DeafHasDecoder'
    BY <2>1 DEF DeafHasDecoder
  <2>3. \A v \in Utterance : utterance'[v] = "decode" => v # u /\ utterance[v] = "decode"
    BY <1>2, <1>4 DEF Decode
  <2>4. ASSUME apart
        PROVE  /\ DecoderSound' /\ DetectorSound' /\ OneInPast'
               /\ \A s \in Stream : RecogniserSound(s)'
    <3>1. /\ DecoderSound /\ DetectorSound /\ OneInPast
          /\ \A s \in Stream : RecogniserSound(s)
      BY <2>4 DEF Inv, Exclusive
    <3>2. u \in Decoding
      BY <1>4 DEF Decode, Decoding
    <3>3. Decoding' = {}
      BY <2>3, <3>1, <3>2 DEF DecoderSound, Decoding
    <3>4. \A s \in Stream : pc[s] \notin Past
      BY <3>1, <3>2 DEF RecogniserSound
    <3>5. OneInPast' /\ DetectorSound'
      BY <1>1, <3>1 DEF OneInPast, DetectorSound
    <3>6. \A s \in Stream : RecogniserSound(s)'
      BY <1>1, <3>1, <3>4, OtherKept
    <3> QED
      BY <3>3, <3>5, <3>6 DEF DecoderSound
  <2>5. Exclusive'
    BY <1>1, <2>4 DEF Exclusive
  <2> QED
    BY <1>3, <2>2, <2>5 DEF Inv
<1>5. CASE SetText(u)
  <2>1. overarchingIgnore' = overarchingIgnore
    BY <1>5 DEF SetText
  <2>2. \A v \in Utterance : utterance'[v] = "decode" <=> utterance[v] = "decode"
    BY <1>2, <1>5 DEF SetText
  <2>3. Decoding' = Decoding
    BY <2>2 DEF Decoding
  <2>4. DeafHasDecoder'
    BY <1>1, <2>1, <2>2, DeafKept DEF Inv
  <2>5. Exclusive'
    BY <1>1, <2>1, <2>3
       DEF Inv, Exclusive, DecoderSound, DetectorSound, OneInPast, RecogniserSound
  <2> QED
    BY <1>3, <2>4, <2>5 DEF Inv
<1> QED
  BY <1>4, <1>5 DEF UtteranceStep

LEMMA StutterInv == Inv /\ UNCHANGED vars => Inv'
BY DEF Inv, TypeOK, DeafHasDecoder, Exclusive, DecoderSound, DetectorSound,
       OneInPast, RecogniserSound, Decoding, vars, feed, package, vad, counters,
       decoders

-----------------------------------------------------------------------------
(* The invariant holds in every reachable state.                           *)
THEOREM Invariance == Spec => []Inv
<1>1. Inv /\ [Next]_vars => Inv'
  BY StreamStepInv, RecogniserStepInv, UtteranceStepInv, StutterInv DEF Next
<1> QED
  BY InitInv, <1>1, PTL DEF Spec

(* Every state of the pipeline is well typed (vtr/sherpa.go, vad.go).      *)
THEOREM TypeCorrect == Spec => []TypeOK
<1>1. Inv => TypeOK
  BY DEF Inv
<1> QED
  BY Invariance, <1>1, PTL

(* overarchingIgnore is only set while a goroutine will reset it, however  *)
(* recognisers and decoders overlap (Process and sendUtterance).           *)
THEOREM NeverDeafForGood == Spec => []DeafHasDecoder
<1>1. Inv => DeafHasDecoder
  BY DEF Inv
<1> QED
  BY Invariance, <1>1, PTL

(* An utterance is decoded alone, nothing is counted or kept meanwhile and *)
(* the detector is always there, unless two recognisers have passed the    *)
(* test of overarchingIgnore together (Process, DetectEndOfSpeech and      *)
(* sendUtterance).                                                         *)
THEOREM DecodedAlone == Spec => []DecodesAlone
<1>1. Inv => DecodesAlone
  <2> SUFFICES ASSUME Inv, apart
               PROVE  /\ \A u \in Decoding :
                           Decoding = {u} /\ \A s \in Stream : pc[s] \notin Past
                      /\ ~Crashed
    BY DEF DecodesAlone
  <2>1. DecoderSound /\ \A s \in Stream : RecogniserSound(s)
    BY DEF Inv, Exclusive
  <2> QED
    BY <2>1 DEF DecoderSound, RecogniserSound, Crashed
<1> QED
  BY Invariance, <1>1, PTL
=============================================================================
