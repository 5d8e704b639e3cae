---------------------------- MODULE SpeechPipeline ----------------------------
(***************************************************************************)
(* Speech recognition in vic-cloud (internal/voice/vtr), as the recogniser *)
(* goroutine of every stream calls it (internal/voice/stream/init.go).     *)
(*                                                                         *)
(* Process keeps its state in package variables, which belong to no        *)
(* stream: the audio since the last text, the counters of the voice        *)
(* detector, whether an utterance is being decoded, and the text that came *)
(* of it.  A closed stream has up to ten chunks left in its channel, which *)
(* its recogniser drains while the next stream's already runs; sendUtterance*)
(* is a goroutine of its own.  Every test and assignment of a package      *)
(* variable is a step, but that a frame reads and writes the two counters  *)
(* in one.  A panic of any goroutine ends the process.                     *)
(*                                                                         *)
(* Audio, and the text recognised from it, is the set of streams it was    *)
(* spoken to; the empty text is the empty set.                             *)
(***************************************************************************)
EXTENDS Naturals, FiniteSets

CONSTANTS Stream,          \* the streams of a run
          Utterance,       \* bound: sendUtterance goroutines at a time
          Frames,          \* 320-byte frames of a chunk
          inactiveNumMax,  \* frames of silence that end speech, 10
          ActiveMin,       \* frames of speech it takes, 18
          MaxChunks        \* bound: chunks of a stream

ASSUME SpeechAssumption ==
  /\ Frames \in Nat /\ MaxChunks \in Nat
  /\ inactiveNumMax \in Nat \ {0} /\ ActiveMin \in Nat

VARIABLES
  stream,             \* a stream: not open, open, its context done, its channel closed
  fed,                \* chunks put in its channel so far
  queue,              \* chunks in its channel
  pc,                 \* where its recogniser is
  left,               \* frames of its chunk the detector has to look at
  text,               \* what Process returns to it
  answer,             \* the speech the robot was answered for it
  voiceBuf, overarchingIgnore, finalResp,
  InactiveFrames, ActiveFrames,
  VADExists,
  VADInst,            \* VADInst is not nil
  utterance,          \* what a sendUtterance goroutine does
  audio,              \* the audio it was given
  apart               \* no recogniser has passed the test of overarchingIgnore
                      \* with another one past it

feed == <<stream, fed, queue>>
counters == <<InactiveFrames, ActiveFrames>>
vad == <<counters, VADExists, VADInst>>
decoders == <<utterance, audio>>
package == <<voiceBuf, overarchingIgnore, finalResp>>
vars == <<feed, pc, left, text, answer, package, vad, decoders, apart>>

(* Where a recogniser is in Process: before and past the test of the flag.  *)
Before == {"text", "copy", "clear", "reset", "ignore"}
Past   == {"exists", "make", "made", "vad", "forget", "drop", "zero", "append",
           "appendLast", "listen", "stop", "go"}

TypeOK ==
  /\ stream \in [Stream -> {"none", "open", "done", "ended"}]
  /\ fed \in [Stream -> 0..MaxChunks]
  /\ queue \in [Stream -> 0..MaxChunks]
  /\ \A s \in Stream : queue[s] <= fed[s]
  /\ pc \in [Stream -> Before \cup Past \cup {"range", "send", "end", "panic"}]
  /\ left \in [Stream -> 0..Frames]
  /\ text \in [Stream -> SUBSET Stream]
  /\ answer \in [Stream -> SUBSET Stream]
  /\ voiceBuf \in SUBSET Stream
  /\ overarchingIgnore \in BOOLEAN
  /\ finalResp \in SUBSET Stream
  /\ InactiveFrames \in Nat
  /\ ActiveFrames \in Nat
  /\ VADExists \in BOOLEAN
  /\ VADInst \in BOOLEAN
  /\ utterance \in [Utterance -> {"none", "decode", "result"}]
  /\ audio \in [Utterance -> SUBSET Stream]
  /\ apart \in BOOLEAN

Init ==
  /\ stream = [s \in Stream |-> "none"]
  /\ fed = [s \in Stream |-> 0]
  /\ queue = [s \in Stream |-> 0]
  /\ pc = [s \in Stream |-> "range"]
  /\ left = [s \in Stream |-> 0]
  /\ text = [s \in Stream |-> {}]
  /\ answer = [s \in Stream |-> {}]
  /\ voiceBuf = {}
  /\ overarchingIgnore = FALSE
  /\ finalResp = {}
  /\ InactiveFrames = 0
  /\ ActiveFrames = 0
  /\ VADExists = FALSE
  /\ VADInst = FALSE
  /\ utterance = [u \in Utterance |-> "none"]
  /\ audio = [u \in Utterance |-> {}]
  /\ apart = TRUE

Goto(s, from, to) ==
  /\ pc[s] = from
  /\ pc' = [pc EXCEPT ![s] = to]

-----------------------------------------------------------------------------
(* The life of a stream, as VoiceProcess has it.                           *)

(* A hotword closes the current stream and opens another.                  *)
Open(s) ==
  /\ stream[s] = "none"
  /\ stream' = [t \in Stream |-> IF t = s THEN "open"
                                 ELSE IF stream[t] = "open" THEN "done"
                                 ELSE stream[t]]
  /\ UNCHANGED <<fed, queue, pc, left, text, answer, package, vad, decoders,
                 apart>>

(* Its nine seconds are over.                                              *)
Timeout(s) ==
  /\ stream[s] = "open"
  /\ stream' = [stream EXCEPT ![s] = "done"]
  /\ UNCHANGED <<fed, queue, pc, left, text, answer, package, vad, decoders,
                 apart>>

(* bufferRoutine puts a chunk in audioStream; it may when the context is   *)
(* done.                                                                   *)
Chunk(s) ==
  /\ stream[s] \in {"open", "done"}
  /\ fed[s] < MaxChunks
  /\ fed' = [fed EXCEPT ![s] = @ + 1]
  /\ queue' = [queue EXCEPT ![s] = @ + 1]
  /\ UNCHANGED <<stream, pc, left, text, answer, package, vad, decoders, apart>>

(* It closes the channel.                                                  *)
BufferEnds(s) ==
  /\ stream[s] = "done"
  /\ stream' = [stream EXCEPT ![s] = "ended"]
  /\ UNCHANGED <<fed, queue, pc, left, text, answer, package, vad, decoders,
                 apart>>

-----------------------------------------------------------------------------
(* The recogniser of a stream.                                             *)

Range(s) ==
  /\ queue[s] > 0
  /\ Goto(s, "range", "text")
  /\ queue' = [queue EXCEPT ![s] = @ - 1]
  /\ UNCHANGED <<stream, fed, left, text, answer, package, vad, decoders, apart>>

RangeEnds(s) ==
  /\ stream[s] = "ended"
  /\ queue[s] = 0
  /\ Goto(s, "range", "end")
  /\ UNCHANGED <<feed, left, text, answer, package, vad, decoders, apart>>

(* Process: if finalResp != "" it is read again, cleared and returned, and *)
(* voiceBuf is emptied.                                                    *)
TestText(s) ==
  /\ Goto(s, "text", IF finalResp = {} THEN "ignore" ELSE "copy")
  /\ UNCHANGED <<feed, left, text, answer, package, vad, decoders, apart>>

CopyText(s) ==
  /\ Goto(s, "copy", "clear")
  /\ text' = [text EXCEPT ![s] = finalResp]
  /\ UNCHANGED <<feed, left, answer, package, vad, decoders, apart>>

ClearText(s) ==
  /\ Goto(s, "clear", "reset")
  /\ finalResp' = {}
  /\ UNCHANGED <<feed, left, text, answer, voiceBuf, overarchingIgnore, vad,
                 decoders, apart>>

ReturnText(s) ==
  /\ Goto(s, "reset", IF text[s] = {} THEN "range" ELSE "send")
  /\ voiceBuf' = {}
  /\ UNCHANGED <<feed, left, text, answer, overarchingIgnore, finalResp, vad,
                 decoders, apart>>

(* The intent is reported; Run takes it from the current stream only.      *)
SendIntent(s) ==
  /\ Goto(s, "send", "end")
  /\ IF stream[s] = "open"
     THEN /\ answer' = [answer EXCEPT ![s] = text[s]]
          /\ stream' = [stream EXCEPT ![s] = "done"]
     ELSE UNCHANGED <<answer, stream>>
  /\ UNCHANGED <<fed, queue, left, text, package, vad, decoders, apart>>

(* A chunk is dropped while an utterance is decoded.                       *)
TestIgnore(s) ==
  \/ /\ overarchingIgnore
     /\ Goto(s, "ignore", "range")
     /\ UNCHANGED <<left, apart>>
     /\ UNCHANGED <<feed, text, answer, package, vad, decoders>>
  \/ /\ ~overarchingIgnore
     /\ Goto(s, "ignore", "exists")
     /\ left' = [left EXCEPT ![s] = Frames]
     /\ apart' = (apart /\ \A t \in Stream : pc[t] \notin Past)
     /\ UNCHANGED <<feed, text, answer, package, vad, decoders>>

-----------------------------------------------------------------------------
(* DetectEndOfSpeech.                                                      *)

(* A detector is made if there is none: VADInst first, then VADExists.     *)
TestExists(s) ==
  /\ Goto(s, "exists", IF VADExists THEN "vad" ELSE "make")
  /\ UNCHANGED <<feed, left, text, answer, package, vad, decoders, apart>>

MakeDetector(s) ==
  \/ /\ Goto(s, "make", "made")
     /\ VADInst' = TRUE
     /\ UNCHANGED VADExists
     /\ UNCHANGED <<feed, left, text, answer, package, counters, decoders,
                    apart>>
  \/ /\ VADInst
     /\ Goto(s, "made", "vad")
     /\ VADExists' = TRUE
     /\ UNCHANGED VADInst
     /\ UNCHANGED <<feed, left, text, answer, package, counters, decoders,
                    apart>>

Look(s) ==
  /\ VADInst
  /\ left[s] > 0
  /\ left' = [left EXCEPT ![s] = @ - 1]

(* Another recogniser has dropped the detector: SetMode or Process of a    *)
(* nil VAD panics.                                                         *)
NoDetector(s) ==
  /\ ~VADInst
  /\ \/ Goto(s, "made", "panic")
     \/ left[s] > 0 /\ Goto(s, "vad", "panic")
  /\ UNCHANGED <<feed, left, text, answer, package, vad, decoders, apart>>

(* Speech resets the count of silent frames.                               *)
Counted(active) ==
  IF active THEN <<0, ActiveFrames + 1>> ELSE <<InactiveFrames + 1, ActiveFrames>>

EndsSpeech(count) == count[1] >= inactiveNumMax /\ count[2] > ActiveMin

(* A frame that does not end the speech.                                   *)
Frame(s, active) ==
  /\ Look(s)
  /\ ~EndsSpeech(Counted(active))
  /\ InactiveFrames' = Counted(active)[1]
  /\ ActiveFrames' = Counted(active)[2]
  /\ Goto(s, "vad", "vad")
  /\ UNCHANGED <<feed, text, answer, package, VADExists, VADInst, decoders,
                 apart>>

(* A frame that ends it: the rest of the chunk is not looked at, and the   *)
(* detector and the counters go.  (So they would if the detector failed,   *)
(* which it does only for a frame of another length.)                      *)
EndOfSpeech(s) ==
  /\ Look(s)
  /\ EndsSpeech(Counted(FALSE))
  /\ InactiveFrames' = Counted(FALSE)[1]
  /\ ActiveFrames' = Counted(FALSE)[2]
  /\ Goto(s, "vad", "forget")
  /\ UNCHANGED <<feed, text, answer, package, VADExists, VADInst, decoders,
                 apart>>

DropDetector(s) ==
  \/ /\ Goto(s, "forget", "drop")
     /\ VADExists' = FALSE
     /\ UNCHANGED <<VADInst, counters>>
     /\ UNCHANGED <<feed, left, text, answer, package, decoders, apart>>
  \/ /\ Goto(s, "drop", "zero")
     /\ VADInst' = FALSE
     /\ UNCHANGED <<VADExists, counters>>
     /\ UNCHANGED <<feed, left, text, answer, package, decoders, apart>>
  \/ /\ Goto(s, "zero", "appendLast")
     /\ InactiveFrames' = 0
     /\ ActiveFrames' = 0
     /\ UNCHANGED <<VADExists, VADInst>>
     /\ UNCHANGED <<feed, left, text, answer, package, decoders, apart>>

ChunkSeen(s) ==
  /\ left[s] = 0
  /\ Goto(s, "vad", "append")
  /\ UNCHANGED <<feed, left, text, answer, package, vad, decoders, apart>>

Append(s) ==
  /\ \/ Goto(s, "append", "listen")
     \/ Goto(s, "appendLast", "stop")
  /\ voiceBuf' = voiceBuf \cup {s}
  /\ UNCHANGED <<feed, left, text, answer, overarchingIgnore, finalResp, vad,
                 decoders, apart>>

(* Mutant: the flag is not set when speech ends.                           *)
OnlyResetIgnore(s) ==
  /\ \/ Goto(s, "listen", "range")
     \/ Goto(s, "stop", "go")
  /\ overarchingIgnore' = FALSE
  /\ UNCHANGED <<feed, left, text, answer, voiceBuf, finalResp, vad, decoders,
                 apart>>

SetIgnore(s) ==
  /\ \/ Goto(s, "listen", "range") /\ overarchingIgnore' = FALSE
     \/ Goto(s, "stop", "go") /\ overarchingIgnore' = TRUE
  /\ UNCHANGED <<feed, left, text, answer, voiceBuf, finalResp, vad, decoders,
                 apart>>

(* go sendUtterance with the audio so far.                                 *)
GoSendUtterance(s, u) ==
  /\ utterance[u] = "none"
  /\ Goto(s, "go", "range")
  /\ utterance' = [utterance EXCEPT ![u] = "decode"]
  /\ audio' = [audio EXCEPT ![u] = voiceBuf]
  /\ UNCHANGED <<feed, left, text, answer, package, vad, apart>>

-----------------------------------------------------------------------------
(* sendUtterance.                                                          *)

(* Mutant: a decoder that recognises nothing returns at once.              *)
DecodeOrReturn(u) ==
  /\ utterance[u] = "decode"
  /\ \/ /\ utterance' = [utterance EXCEPT ![u] = "result"]
        /\ overarchingIgnore' = FALSE
     \/ /\ utterance' = [utterance EXCEPT ![u] = "none"]
        /\ UNCHANGED overarchingIgnore
  /\ UNCHANGED <<feed, pc, left, text, answer, voiceBuf, finalResp, vad, audio,
                 apart>>

(* Chunks are taken again before the text is there.                        *)
Decode(u) ==
  /\ utterance[u] = "decode"
  /\ utterance' = [utterance EXCEPT ![u] = "result"]
  /\ overarchingIgnore' = FALSE
  /\ UNCHANGED <<feed, pc, left, text, answer, voiceBuf, finalResp, vad, audio,
                 apart>>

(* Nothing may have been recognised.                                       *)
SetText(u) ==
  /\ utterance[u] = "result"
  /\ utterance' = [utterance EXCEPT ![u] = "none"]
  /\ finalResp' \in {audio[u], {}}
  /\ audio' = [audio EXCEPT ![u] = {}]
  /\ UNCHANGED <<feed, pc, left, text, answer, voiceBuf, overarchingIgnore, vad,
                 apart>>

Crashed == \E s \in Stream : pc[s] = "panic"

StreamStep(s) ==
  /\ ~Crashed
  /\ Open(s) \/ Timeout(s) \/ Chunk(s) \/ BufferEnds(s)

ProcessStep(s) ==
  \/ TestText(s)
  \/ CopyText(s)
  \/ ClearText(s)
  \/ ReturnText(s)
  \/ TestIgnore(s)
  \/ TestExists(s)
  \/ MakeDetector(s)
  \/ \E active \in BOOLEAN : Frame(s, active)
  \/ EndOfSpeech(s)
  \/ DropDetector(s)
  \/ NoDetector(s)
  \/ ChunkSeen(s)
  \/ Append(s)
  \/ SetIgnore(s)
  \/ \E u \in Utterance : GoSendUtterance(s, u)

RecogniserStep(s) ==
  /\ ~Crashed
  /\ Range(s) \/ RangeEnds(s) \/ ProcessStep(s) \/ SendIntent(s)

UtteranceStep(u) ==
  /\ ~Crashed
  /\ Decode(u) \/ SetText(u)

Next ==
  \/ \E s \in Stream : StreamStep(s)
  \/ \E s \in Stream : RecogniserStep(s)
  \/ \E u \in Utterance : UtteranceStep(u)

Spec == Init /\ [][Next]_vars

(* Goroutines run, and decoding ends.                                      *)
FairSpec ==
  /\ Spec
  /\ \A s \in Stream : WF_vars(RecogniserStep(s))
  /\ \A u \in Utterance : WF_vars(UtteranceStep(u))

-----------------------------------------------------------------------------
(* Properties.                                                             *)

(***************************************************************************)
(* The robot is deaf while overarchingIgnore is set, and every goroutine   *)
(* may set and reset it: while it is set, one that will reset it is there, *)
(* however many recognisers and decoders overlap.                          *)
(***************************************************************************)
DeafHasDecoder ==
  overarchingIgnore =>
    \/ \E s \in Stream : pc[s] = "go"
    \/ \E u \in Utterance : utterance[u] = "decode"

(* So it listens again, unless the process ends.                           *)
HearsAgain == overarchingIgnore ~> ~overarchingIgnore \/ Crashed

(***************************************************************************)
(* What the flag, and no lock, is for: an utterance is decoded alone, and  *)
(* while it is no chunk is counted or kept, nor does one meet a detector   *)
(* that was dropped, by whichever stream. Recognisers may overlap as they  *)
(* like, but for two that find the flag unset one after the other before   *)
(* the first one sets it or is done with its chunk.                        *)
(***************************************************************************)
Decoding == {u \in Utterance : utterance[u] = "decode"}

DecodesAlone ==
  apart =>
    /\ \A u \in Decoding :
         Decoding = {u} /\ \A s \in Stream : pc[s] \notin Past
    /\ ~Crashed
=============================================================================
