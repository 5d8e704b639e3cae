---------------------------- MODULE VoiceProcess ----------------------------
(***************************************************************************)
(* The voice process (internal/voice/process.go) and its streamers         *)
(* (internal/voice/stream).                                                *)
(*                                                                         *)
(* One goroutine runs Process.Run: a select over the messages of the mic   *)
(* and the unbuffered channels on which streamers report.  Every accepted  *)
(* hotword and every connection check creates a Streamer, whose init       *)
(* starts three goroutines:                                                *)
(*   - bufferRoutine takes samples from byteChan and cuts them in chunks   *)
(*     for audioStream; it ends when the stream's context is done and then *)
(*     closes both channels;                                               *)
(*   - the recogniser ranges over audioStream and reports one intent;      *)
(*   - cancelResponse waits for the context and reports Timeout unless the *)
(*     stream was closed on purpose.                                       *)
(*                                                                         *)
(* Samples are counted, not stored: the channels that carry them belong to *)
(* one stream, so only how many there are matters here.  A text is any     *)
(* outcome of vtr.Process (module SpeechPipeline looks inside it).         *)
(***************************************************************************)
EXTENDS Naturals

CONSTANTS Stream,      \* identities of the streamers a run may create
          NoStream,    \* the nil *Streamer
          Modes,       \* StreamType of a hotword
          Locales,     \* locale strings of a hotword, by how they parse
          Samples,     \* sizes an Audio message may have
          StreamSize,  \* bytes per chunk handed to the recogniser
          ChanCap,     \* capacity of audioStream (10 in the code)
          MaxBuf,      \* bound: the mic sends no more while this is buffered
          Stoppable    \* bound: whether the process may be shut down

ASSUME StreamAssumption == NoStream \notin Stream
ASSUME SizeAssumption ==
  /\ StreamSize \in Nat \ {0}
  /\ ChanCap \in Nat \ {0}
  /\ MaxBuf \in Nat
  /\ Samples \subseteq Nat
  /\ Stoppable \in BOOLEAN

VARIABLES
  strm,      \* Run's local variable: the current stream or nil
  main,      \* where Run is: its select, in addBytes, stopped, or panicked
  adding,    \* the size of the samples addBytes is sending
  shutdown,  \* the context given to Run is done
  kind,      \* what a stream was created for, "unused" before NewStreamer
  closed,    \* Streamer.closed
  raced,     \* closed was set when the context was already done
  done,      \* the stream's context is done
  audioBuf,  \* bytes in bufferRoutine's buffer
  chunks,    \* chunks in audioStream
  buffer,    \* bufferRoutine: running, or ended with both channels closed
  cancel,    \* cancelResponse: waiting, sending its error, ended
  recog,     \* the recogniser: ranging, sending its intent, ended
  answers    \* final answers written to the robot for the stream

streamVars == <<kind, closed, raced, done, audioBuf, chunks, buffer, cancel,
                recog>>
vars == <<strm, main, adding, shutdown, streamVars, answers>>

TypeOK ==
  /\ strm \in Stream \cup {NoStream}
  /\ main \in {"select", "addBytes", "stopped", "panic"}
  /\ adding \in Samples \cup {0}
  /\ shutdown \in BOOLEAN
  /\ kind \in [Stream -> {"unused", "intent", "check"}]
  /\ closed \in [Stream -> BOOLEAN]
  /\ raced \in [Stream -> BOOLEAN]
  /\ done \in [Stream -> BOOLEAN]
  /\ audioBuf \in [Stream -> Nat]
  /\ chunks \in [Stream -> 0..ChanCap]
  /\ buffer \in [Stream -> {"run", "end"}]
  /\ cancel \in [Stream -> {"wait", "send", "end"}]
  /\ recog \in [Stream -> {"range", "send", "end"}]
  /\ answers \in [Stream -> Nat]

Init ==
  /\ strm = NoStream
  /\ main = "select"
  /\ adding = 0
  /\ shutdown = FALSE
  /\ kind = [s \in Stream |-> "unused"]
  /\ closed = [s \in Stream |-> FALSE]
  /\ raced = [s \in Stream |-> FALSE]
  /\ done = [s \in Stream |-> FALSE]
  /\ audioBuf = [s \in Stream |-> 0]
  /\ chunks = [s \in Stream |-> 0]
  /\ buffer = [s \in Stream |-> "run"]
  /\ cancel = [s \in Stream |-> "wait"]
  /\ recog = [s \in Stream |-> "range"]
  /\ answers = [s \in Stream |-> 0]

Used(s) == kind[s] # "unused"

(* NewStreamer allocates: one identity is as good as another.              *)
New(s) == ~Used(s) /\ s = CHOOSE t \in Stream : ~Used(t)

-----------------------------------------------------------------------------
(* Run: requests.                                                          *)

(***************************************************************************)
(* strm.Close on the current stream, if there is one: the closed flag is   *)
(* set, then the context cancelled.  The flag is a plain bool: only        *)
(* cancelling publishes it to cancelResponse, and a context that was done  *)
(* already publishes nothing.                                              *)
(***************************************************************************)
CloseCurrent ==
  /\ closed' = [t \in Stream |-> t = strm \/ closed[t]]
  /\ raced' = [t \in Stream |-> IF t = strm /\ ~closed[t] THEN done[t]
                                ELSE raced[t]]

(***************************************************************************)
(* The current stream is closed and NewStreamer makes s.  Its context is   *)
(* derived from Run's: a stream created after shutdown is done at once.    *)
(***************************************************************************)
CloseThenCreate(s, k) ==
  /\ CloseCurrent
  /\ done' = [t \in Stream |-> IF t = strm THEN TRUE
                               ELSE IF t = s THEN shutdown ELSE done[t]]
  /\ kind' = [kind EXCEPT ![s] = k]
  /\ strm' = s
  /\ UNCHANGED <<main, adding, shutdown, audioBuf, chunks, buffer, cancel,
                 recog, answers>>

(* modeMap holds Normal and Blackjack; KnowledgeGraph is let through apart. *)
modeMap == {"Normal", "Blackjack"}
ModeAccepted(mode) == mode \in modeMap \/ mode = "KnowledgeGraph"

(* Run replaces the empty locale by en-US; getLanguage wants two parts.    *)
LocaleAccepted(locale) == locale # "malformed"

(***************************************************************************)
(* A hotword the process understands: the current stream, if any, is       *)
(* closed and a new one is created.                                        *)
(***************************************************************************)
HotwordAccepted(s, mode, locale) ==
  /\ main = "select"
  /\ ModeAccepted(mode) /\ LocaleAccepted(locale)
  /\ New(s)
  /\ CloseThenCreate(s, "intent")

(***************************************************************************)
(* A hotword with an unknown mode or locale is answered InvalidConfig by   *)
(* `continue`: the current stream is closed, but strm still points at it.  *)
(***************************************************************************)
HotwordRejected(mode, locale) ==
  /\ main = "select"
  /\ ~ModeAccepted(mode) \/ ~LocaleAccepted(locale)
  /\ CloseCurrent
  /\ done' = [t \in Stream |-> t = strm \/ done[t]]
  /\ UNCHANGED <<strm, main, adding, shutdown, kind, audioBuf, chunks,
                 buffer, cancel, recog, answers>>

ConnectionCheck(s) ==
  /\ main = "select"
  /\ New(s)
  /\ CloseThenCreate(s, "check")

(***************************************************************************)
(* An Audio message for an intent stream: addBytes sends on byteChan,      *)
(* which has no buffer, so Run waits there.  Without a stream, or with a   *)
(* connection check, the samples are dropped and nothing changes.          *)
(***************************************************************************)
Audio(n) ==
  /\ main = "select"
  /\ strm # NoStream
  /\ kind[strm] = "intent"
  /\ audioBuf[strm] < MaxBuf
  /\ main' = "addBytes"
  /\ adding' = n
  /\ UNCHANGED <<strm, shutdown, streamVars, answers>>

(* The rendezvous of addBytes with the select of bufferRoutine.            *)
AddBytes ==
  /\ main = "addBytes"
  /\ buffer[strm] = "run"
  /\ audioBuf' = [audioBuf EXCEPT ![strm] = @ + adding]
  /\ main' = "select"
  /\ adding' = 0
  /\ UNCHANGED <<strm, shutdown, kind, closed, raced, done, chunks, buffer,
                 cancel, recog, answers>>

(* A send on the byteChan that bufferRoutine has closed panics.            *)
AddBytesPanics ==
  /\ main = "addBytes"
  /\ buffer[strm] = "end"
  /\ main' = "panic"
  /\ UNCHANGED <<strm, adding, shutdown, streamVars, answers>>

-----------------------------------------------------------------------------
(* Run: reports of the streamers.                                          *)

(* Mutant: reports are not compared with the current stream.               *)
AcceptAny(s) ==
  /\ strm # NoStream
  /\ answers' = [answers EXCEPT ![s] = @ + 1]
  /\ CloseCurrent
  /\ done' = [t \in Stream |-> t = strm \/ done[t]]
  /\ strm' = NoStream

(***************************************************************************)
(* A report of stream s is written to the robot when s is the current      *)
(* stream, which is then closed and forgotten; any other report is         *)
(* ignored.                                                                *)
(***************************************************************************)
Accept(s) ==
  IF s = strm
  THEN /\ answers' = [answers EXCEPT ![s] = @ + 1]
       /\ CloseCurrent
       /\ done' = [done EXCEPT ![s] = TRUE]
       /\ strm' = NoStream
  ELSE UNCHANGED <<answers, closed, raced, done, strm>>

(* cloudChans.intent                                                       *)
ReceiveIntent(s) ==
  /\ main = "select"
  /\ recog[s] = "send"
  /\ recog' = [recog EXCEPT ![s] = "end"]
  /\ Accept(s)
  /\ UNCHANGED <<main, adding, shutdown, kind, audioBuf, chunks, buffer,
                 cancel>>

(* cloudChans.err and connCheck.err                                        *)
ReceiveError(s) ==
  /\ main = "select"
  /\ cancel[s] = "send"
  /\ cancel' = [cancel EXCEPT ![s] = "end"]
  /\ Accept(s)
  /\ UNCHANGED <<main, adding, shutdown, kind, audioBuf, chunks, buffer,
                 recog>>

-----------------------------------------------------------------------------
(* The goroutines of a stream.                                             *)

(* A panic ends the process: nothing moves afterwards.                     *)
Running == main # "panic"

(* bufferRoutine hands a full chunk to the recogniser.                     *)
SendChunk(s) ==
  /\ Running
  /\ buffer[s] = "run"
  /\ audioBuf[s] >= StreamSize
  /\ chunks[s] < ChanCap
  /\ audioBuf' = [audioBuf EXCEPT ![s] = @ - StreamSize]
  /\ chunks' = [chunks EXCEPT ![s] = @ + 1]
  /\ UNCHANGED <<strm, main, adding, shutdown, kind, closed, raced, done,
                 buffer, cancel, recog, answers>>

(* Mutant: bufferRoutine gives up on a live stream.                        *)
BufferEndsEarly(s) ==
  /\ Running
  /\ Used(s)
  /\ buffer[s] = "run"
  /\ buffer' = [buffer EXCEPT ![s] = "end"]
  /\ audioBuf' = [audioBuf EXCEPT ![s] = 0]
  /\ UNCHANGED <<strm, main, adding, shutdown, kind, closed, raced, done,
                 chunks, cancel, recog, answers>>

(* bufferRoutine sees the context done: its buffer is gone, its deferred   *)
(* calls close audioStream and byteChan.                                   *)
BufferEnds(s) ==
  /\ Running
  /\ Used(s)
  /\ buffer[s] = "run"
  /\ done[s]
  /\ buffer' = [buffer EXCEPT ![s] = "end"]
  /\ audioBuf' = [audioBuf EXCEPT ![s] = 0]
  /\ UNCHANGED <<strm, main, adding, shutdown, kind, closed, raced, done,
                 chunks, cancel, recog, answers>>

(* The recogniser processes a chunk, which may complete a text.            *)
ProcessChunk(s, text) ==
  /\ Running
  /\ recog[s] = "range"
  /\ chunks[s] > 0
  /\ chunks' = [chunks EXCEPT ![s] = @ - 1]
  /\ recog' = [recog EXCEPT ![s] = IF text = "" THEN "range" ELSE "send"]
  /\ UNCHANGED <<strm, main, adding, shutdown, kind, closed, raced, done,
                 audioBuf, buffer, cancel, answers>>

(* Mutant: audioStream is never closed, so the range never ends.           *)
RecogniserWaits(s) == FALSE

(* The range over audioStream ends once the channel is closed and drained. *)
RecogniserEnds(s) ==
  /\ Running
  /\ recog[s] = "range"
  /\ chunks[s] = 0
  /\ buffer[s] = "end"
  /\ recog' = [recog EXCEPT ![s] = "end"]
  /\ UNCHANGED <<strm, main, adding, shutdown, kind, closed, raced, done,
                 audioBuf, chunks, buffer, cancel, answers>>

Recognise(s) ==
  \/ \E text \in {"", "text"} : ProcessChunk(s, text)
  \/ RecogniserEnds(s)

(* Mutant: a context that times out is not reported.                       *)
CancelSilently(s, seen) ==
  /\ Running
  /\ Used(s)
  /\ cancel[s] = "wait"
  /\ done[s]
  /\ cancel' = [cancel EXCEPT ![s] = "end"]
  /\ UNCHANGED <<strm, main, adding, shutdown, kind, closed, raced, done,
                 audioBuf, chunks, buffer, recog, answers>>

(***************************************************************************)
(* cancelResponse wakes up: silent when it sees the stream closed, else it *)
(* reports Timeout.  When Close raced with the context the read of closed  *)
(* is a data race and may return either value.                             *)
(***************************************************************************)
CancelResponse(s, seen) ==
  /\ Running
  /\ Used(s)
  /\ cancel[s] = "wait"
  /\ done[s]
  /\ seen = closed[s] \/ raced[s]
  /\ cancel' = [cancel EXCEPT ![s] = IF seen THEN "end" ELSE "send"]
  /\ UNCHANGED <<strm, main, adding, shutdown, kind, closed, raced, done,
                 audioBuf, chunks, buffer, recog, answers>>

-----------------------------------------------------------------------------
(* Time and shutdown.                                                      *)

(* The stream's nine seconds are over.                                     *)
Timeout(s) ==
  /\ Running
  /\ Used(s)
  /\ ~done[s]
  /\ done' = [done EXCEPT ![s] = TRUE]
  /\ UNCHANGED <<strm, main, adding, shutdown, kind, closed, raced, audioBuf,
                 chunks, buffer, cancel, recog, answers>>

(* The parent context is cancelled, and with it every stream's.            *)
Shutdown ==
  /\ Running
  /\ Stoppable
  /\ ~shutdown
  /\ shutdown' = TRUE
  /\ done' = [s \in Stream |-> Used(s)]
  /\ UNCHANGED <<strm, main, adding, kind, closed, raced, audioBuf, chunks,
                 buffer, cancel, recog, answers>>

(* Run notices; its deferred calls close the channels streamers report on. *)
Stop ==
  /\ main = "select"
  /\ shutdown
  /\ main' = "stopped"
  /\ UNCHANGED <<strm, adding, shutdown, streamVars, answers>>

(* A report on a channel that Run has closed panics.                       *)
ReportPanics(s) ==
  /\ main = "stopped"
  /\ recog[s] = "send" \/ cancel[s] = "send"
  /\ main' = "panic"
  /\ UNCHANGED <<strm, adding, shutdown, streamVars, answers>>

RunStep ==
  \/ \E s \in Stream, mode \in Modes, locale \in Locales :
        HotwordAccepted(s, mode, locale)
  \/ \E mode \in Modes, locale \in Locales : HotwordRejected(mode, locale)
  \/ \E s \in Stream : ConnectionCheck(s)
  \/ \E n \in Samples : Audio(n)
  \/ AddBytes
  \/ AddBytesPanics
  \/ \E s \in Stream : ReceiveIntent(s) \/ ReceiveError(s)
  \/ Stop

StreamStep(s) ==
  \/ SendChunk(s)
  \/ BufferEnds(s)
  \/ Recognise(s)
  \/ \E seen \in BOOLEAN : CancelResponse(s, seen)
  \/ ReportPanics(s)
  \/ Timeout(s)

Next ==
  \/ RunStep
  \/ \E s \in Stream : StreamStep(s)
  \/ Shutdown

Spec == Init /\ [][Next]_vars

(***************************************************************************)
(* Goroutines are scheduled, timers fire, and Go's select picks among its  *)
(* ready cases at random, so a report that keeps being ready is received.  *)
(* The mic owes nothing: no fairness on requests, audio or shutdown.       *)
(***************************************************************************)
StreamFairness(s) ==
  /\ WF_vars(Timeout(s))
  /\ WF_vars(BufferEnds(s))
  /\ WF_vars(\E seen \in BOOLEAN : CancelResponse(s, seen))
  /\ WF_vars(Recognise(s))
  /\ SF_vars(ReceiveIntent(s))
  /\ SF_vars(ReceiveError(s))

FairSpec ==
  /\ Spec
  /\ WF_vars(AddBytes \/ AddBytesPanics)
  /\ \A s \in Stream : StreamFairness(s)

-----------------------------------------------------------------------------
(* Properties.                                                             *)

(***************************************************************************)
(* The recogniser's intent, the timeout error and the late reports of      *)
(* prior streams race for Run's attention; the pointer comparison in Run   *)
(* keeps a stream from being answered twice.                               *)
(***************************************************************************)
AtMostOneAnswer == \A s \in Stream : answers[s] <= 1

(***************************************************************************)
(* Run never loses a stream: one that it has not closed is the one strm    *)
(* points at, so no two streams are fed or billed at the same time.        *)
(***************************************************************************)
OpenStreamIsCurrent ==
  \A s \in Stream : Used(s) /\ ~closed[s] => s = strm

(***************************************************************************)
(* The process dies only on a stream whose context is done: in addBytes on *)
(* the current one, or when a streamer reports after shutdown.             *)
(***************************************************************************)
PanicOnlyWhenDone ==
  main = "panic" => shutdown \/ (strm # NoStream /\ done[strm])

(* The session of VoiceSession a stream stands for.                        *)
phase == [s \in Stream |->
            IF ~Used(s) THEN "idle"
            ELSE IF answers[s] > 0 THEN "answered"
            ELSE IF s = strm THEN "open"
            ELSE "superseded"]

Session == INSTANCE VoiceSession WITH Session <- Stream, phase <- phase

(* Run and its streamers implement the promise of VoiceSession.            *)
ImplementsSession == Session!Spec

(***************************************************************************)
(* Every stream comes to an end: the current one is answered, superseded   *)
(* or rejected and therefore closed, unless the process stops or dies.     *)
(***************************************************************************)
StreamEventuallyClosed ==
  \A s \in Stream :
    strm = s ~> closed[s] \/ main \in {"stopped", "panic"}

(* The three goroutines of a closed stream end.                            *)
RoutinesEnd ==
  \A s \in Stream :
    closed[s] ~> \/ buffer[s] = "end" /\ cancel[s] = "end" /\ recog[s] = "end"
                \/ main \in {"stopped", "panic"}

=============================================================================
