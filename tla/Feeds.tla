------------------------------- MODULE Feeds --------------------------------
(* AudioFeed, CameraFeed and CaptureSingleImage: each switches the engine's *)
(* audio or images on, listens for chunks, puts groups together, sends them *)
(* to its user and switches off when it leaves. The switch is one for all   *)
(* feeds of a source, and a feed notices that its user is gone only when it *)
(* has a group to send.                                                     *)
EXTENDS Integers, Sequences

CONSTANTS
  Feeds,      \* calls of the three RPCs
  Casts,      \* which RPC each call is of
  Room,       \* buffer of a feed's channel (1024 in the code)
  Counts,     \* chunks of a group
  Groups,     \* bound: group numbers before they start over
  MaxLost     \* bound: chunks the engine fails to send

ASSUME FeedsAssumption ==
  /\ Casts \subseteq [Feeds -> {"AudioFeed", "CameraFeed", "CaptureSingleImage"}]
  /\ Room \in Nat \ {0}
  /\ Counts \subseteq Nat \ {0}
  /\ Groups \in Nat \ {0}

VARIABLES
  kind,       \* AudioFeed, CameraFeed or CaptureSingleImage
  at,         \* where the call is
  ear,        \* its channel: none, open or closed
  queue,      \* chunks in the channel
  cache,      \* the group it puts together
  sent,       \* the group it has just given to its user
  gone,       \* its user has left
  mode,       \* the engine sends audio, or images
  next,       \* the engine's next chunk of each source
  lost,       \* chunks the engine failed to send
  failed,     \* sources of which a write or an answer went wrong
  shared      \* sources that two calls have used at once

feedVars == <<kind, at, ear, queue, cache, sent, gone, mode, next, lost,
              failed, shared>>

Sources == {"audio", "image"}
Source(f) == IF kind[f] = "AudioFeed" THEN "audio" ELSE "image"

Active == {f \in Feeds : at[f] \notin {"idle", "done"}}
UsersOf(s) == {f \in Active : Source(f) = s}
Listening(s) == {f \in Feeds : ear[f] = "open" /\ Source(f) = s}

-----------------------------------------------------------------------------
(* The caches differ in names only. Data is kept as the chunks in it.       *)
Empty == [group |-> -1, last |-> -1, data |-> <<>>]
(* Mutant: the number of the last chunk is not set back.                    *)
StartedAtZero(c) == [Empty EXCEPT !.group = c.group, !.last = 0]

Started(c) == [Empty EXCEPT !.group = c.group]

Chunk(n) == [group |-> n.group, id |-> n.id, count |-> n.count]

(* Mutant: only the number of the chunk is looked at.                       *)
FollowsByNumber(k, c) == c.id = k.last + 1

Follows(k, c) == c.id = k.last + 1 /\ c.group = k.group

(* UnpackAudioChunk, UnpackCameraImageChunk: a chunk 0 begins a group,      *)
(* whatever there was; any other has to follow, or all is discarded.        *)
Unpack(k0, c) ==
  LET k == IF c.id = 0 THEN Started(c) ELSE k0
  IN  IF k.group = -1 \/ ~Follows(k, c) THEN Empty
      ELSE [k EXCEPT !.last = c.id, !.data = Append(@, c)]

Ready(k, c) == k.group # -1 /\ c.id = c.count - 1

-----------------------------------------------------------------------------
Chunks == [group : Nat, id : Nat, count : Nat]
Caches == [group : Int, last : Int, data : Seq(Chunks)]

FeedTypeOK ==
  /\ kind \in [Feeds -> {"AudioFeed", "CameraFeed", "CaptureSingleImage"}]
  /\ at \in [Feeds -> {"idle", "enabling", "enabled", "listening", "leaving",
                       "deleted", "disabling", "done"}]
  /\ ear \in [Feeds -> {"none", "open", "closed"}]
  /\ queue \in [Feeds -> Seq(Chunks)]
  /\ cache \in [Feeds -> Caches]
  /\ sent \in [Feeds -> Seq(Chunks)]
  /\ gone \in [Feeds -> BOOLEAN]
  /\ mode \in [Sources -> BOOLEAN]
  /\ next \in [Sources -> Chunks]
  /\ lost \in Nat
  /\ failed \subseteq Sources
  /\ shared \subseteq Sources

FeedInit ==
  /\ kind \in Casts
  /\ at = [f \in Feeds |-> "idle"]
  /\ ear = [f \in Feeds |-> "none"]
  /\ queue = [f \in Feeds |-> <<>>]
  /\ cache = [f \in Feeds |-> Empty]
  /\ sent = [f \in Feeds |-> <<>>]
  /\ gone = [f \in Feeds |-> FALSE]
  /\ mode = [s \in Sources |-> FALSE]
  /\ next = [s \in Sources |-> [group |-> 0, id |-> 0, count |-> 0]]
  /\ lost = 0
  /\ failed = {}
  /\ shared = {}

(* AudioSendModeRequest or EnableImageStreaming is written; the engine      *)
(* reads in order, so that the last write decides.                          *)
SwitchOn(f) ==
  /\ at[f] = "idle"
  /\ at' = [at EXCEPT ![f] = IF Source(f) = "audio" THEN "enabled"
                             ELSE "enabling"]
  /\ mode' = [mode EXCEPT ![Source(f)] = TRUE]
  /\ shared' = IF UsersOf(Source(f)) # {} THEN shared \union {Source(f)}
               ELSE shared
  /\ UNCHANGED <<kind, ear, queue, cache, sent, gone, next, lost, failed>>

(* The write fails: the call returns before it has deferred anything.       *)
SwitchOnFails(f) ==
  /\ at[f] = "idle"
  /\ at' = [at EXCEPT ![f] = "done"]
  /\ UNCHANGED <<kind, ear, queue, cache, sent, gone, mode, next, lost,
                 failed, shared>>

(* The answer to EnableImageStreaming, or none because its channel was      *)
(* closed (module EngineCalls).                                             *)
SwitchedOn(f) ==
  /\ at[f] = "enabling"
  /\ \/ at' = [at EXCEPT ![f] = "enabled"] /\ UNCHANGED failed
     \/ at' = [at EXCEPT ![f] = "done"] /\ failed' = failed \union {Source(f)}
  /\ UNCHANGED <<kind, ear, queue, cache, sent, gone, mode, next, lost, shared>>

Listen(f) ==
  /\ at[f] = "enabled"
  /\ at' = [at EXCEPT ![f] = "listening"]
  /\ ear' = [ear EXCEPT ![f] = "open"]
  /\ cache' = [cache EXCEPT ![f] = Empty]
  /\ UNCHANGED <<kind, queue, sent, gone, mode, next, lost, failed, shared>>

(* The user cancels or breaks the connection; before the loop this shows    *)
(* no earlier.                                                              *)
UserGoes(f) ==
  /\ at[f] = "listening" /\ ~gone[f]
  /\ gone' = [gone EXCEPT ![f] = TRUE]
  /\ UNCHANGED <<kind, at, ear, queue, cache, sent, mode, next, lost, failed,
                 shared>>

-----------------------------------------------------------------------------
(* The engine (external) numbers groups and the chunks in them.             *)
After(n) ==
  IF n.id + 1 < n.count THEN [n EXCEPT !.id = @ + 1]
  ELSE [group |-> (n.group + 1) % Groups, id |-> 0, count |-> 0]

WithCount(n) ==
  IF n.id # 0 THEN {n} ELSE {[n EXCEPT !.count = k] : k \in Counts}

(* SendToListeners, with SafeClose for a channel that stayed full: it takes *)
(* away the chunk that waits longest.                                       *)
Broadcast(s, c) ==
  LET full == {f \in Listening(s) : Len(queue[f]) = Room}
  IN  /\ queue' = [f \in Feeds |->
                     IF f \in full THEN Tail(queue[f])
                     ELSE IF f \in Listening(s) THEN Append(queue[f], c)
                     ELSE queue[f]]
      /\ ear' = [f \in Feeds |-> IF f \in full THEN "closed" ELSE ear[f]]

EngineSends(s) ==
  /\ mode[s]
  /\ \E n \in WithCount(next[s]) :
       /\ Broadcast(s, Chunk(n))
       /\ next' = [next EXCEPT ![s] = After(n)]
  /\ UNCHANGED <<kind, at, cache, sent, gone, mode, lost, failed, shared>>

EngineLoses(s) ==
  /\ mode[s] /\ lost < MaxLost
  /\ lost' = lost + 1
  /\ \E n \in WithCount(next[s]) : next' = [next EXCEPT ![s] = After(n)]
  /\ UNCHANGED <<kind, at, ear, queue, cache, sent, gone, mode, failed, shared>>

-----------------------------------------------------------------------------
(* One turn of the loop over the channel. A whole group is sent; the feed   *)
(* leaves if that fails or the user is gone, and the capture anyway.        *)
ReceiveChunk(f) ==
  /\ at[f] = "listening" /\ queue[f] # <<>>
  /\ queue' = [queue EXCEPT ![f] = Tail(@)]
  /\ LET c == Head(queue[f])
         k == Unpack(cache[f], c)
     IN  IF Ready(k, c)
         THEN /\ sent' = [sent EXCEPT ![f] = k.data]
              /\ cache' = [cache EXCEPT ![f] = Empty]
              /\ at' = [at EXCEPT ![f] =
                          IF gone[f] \/ kind[f] = "CaptureSingleImage"
                          THEN "leaving" ELSE @]
         ELSE /\ cache' = [cache EXCEPT ![f] = k]
              /\ sent' = [sent EXCEPT ![f] = <<>>]
              /\ UNCHANGED at
  /\ UNCHANGED <<kind, ear, gone, mode, next, lost, failed, shared>>

(* "engine stream died unexpectedly"                                        *)
Died(f) ==
  /\ at[f] = "listening" /\ queue[f] = <<>> /\ ear[f] = "closed"
  /\ at' = [at EXCEPT ![f] = "leaving"]
  /\ UNCHANGED <<kind, ear, queue, cache, sent, gone, mode, next, lost, failed,
                 shared>>

(* The deferred deletion of the listener comes before the switch.           *)
DeleteListener(f) ==
  /\ at[f] = "leaving"
  /\ at' = [at EXCEPT ![f] = "deleted"]
  /\ ear' = [ear EXCEPT ![f] = "none"]
  /\ queue' = [queue EXCEPT ![f] = <<>>]
  /\ cache' = [cache EXCEPT ![f] = Empty]
  /\ sent' = [sent EXCEPT ![f] = <<>>]
  /\ UNCHANGED <<kind, gone, mode, next, lost, failed, shared>>

(* Mutant: a capture leaves the images on.                                  *)
SwitchOffUnlessCapture(f) ==
  /\ at[f] = "deleted"
  /\ at' = [at EXCEPT ![f] = IF Source(f) = "audio" THEN "done" ELSE "disabling"]
  /\ \/ /\ mode' = [mode EXCEPT ![Source(f)] =
                      @ /\ kind[f] = "CaptureSingleImage"]
        /\ UNCHANGED failed
     \/ failed' = failed \union {Source(f)} /\ UNCHANGED mode
  /\ UNCHANGED <<kind, ear, queue, cache, sent, gone, next, lost, shared>>

(* The deferred switch, which may fail; the error is not looked at.         *)
SwitchOff(f) ==
  /\ at[f] = "deleted"
  /\ at' = [at EXCEPT ![f] = IF Source(f) = "audio" THEN "done" ELSE "disabling"]
  /\ \/ mode' = [mode EXCEPT ![Source(f)] = FALSE] /\ UNCHANGED failed
     \/ failed' = failed \union {Source(f)} /\ UNCHANGED mode
  /\ UNCHANGED <<kind, ear, queue, cache, sent, gone, next, lost, shared>>

(* EnableImageStreaming waits for the answer when switching off, too.       *)
SwitchedOff(f) ==
  /\ at[f] = "disabling"
  /\ at' = [at EXCEPT ![f] = "done"]
  /\ UNCHANGED <<kind, ear, queue, cache, sent, gone, mode, next, lost, failed,
                 shared>>

FeedStep(f) ==
  \/ SwitchedOn(f) \/ Listen(f) \/ ReceiveChunk(f)
  \/ Died(f) \/ DeleteListener(f) \/ SwitchOff(f) \/ SwitchedOff(f)

FeedNext ==
  \/ \E f \in Feeds :
       SwitchOn(f) \/ SwitchOnFails(f) \/ UserGoes(f) \/ FeedStep(f)
  \/ \E s \in Sources : EngineSends(s) \/ EngineLoses(s)

(* The calls run, and the engine goes on sending what is switched on.       *)
FeedFairness ==
  /\ \A f \in Feeds : WF_feedVars(FeedStep(f))
  /\ \A s \in Sources : WF_feedVars(EngineSends(s))

FeedSpec == FeedInit /\ [][FeedNext]_feedVars /\ FeedFairness

-----------------------------------------------------------------------------
(* What a user gets is one whole group of the engine, its chunks in order,  *)
(* although chunks are lost, the feed may begin in the middle of a group,   *)
(* and SafeClose takes a chunk out of the queue.                            *)
IsWhole(d) ==
  /\ d[Len(d)].count = Len(d)
  /\ \A i \in 1..Len(d) : d[i].id = i - 1 /\ d[i].group = d[1].group

GroupIsWhole == \A f \in Feeds : sent[f] # <<>> => IsWhole(sent[f])

(* The robot does not go on sending what nobody asked for any more: when    *)
(* all calls of a source are over, it is off, however they ended and        *)
(* overlapped, unless a write or an answer failed.                          *)
SilentWhenUnheard ==
  \A s \in Sources : UsersOf(s) = {} /\ s \notin failed => ~mode[s]

(* A feed ends after its user has left, when the next whole group comes or  *)
(* its channel is closed, whatever was lost before. It needs the source for *)
(* itself: the first of two calls to leave switches off for both, and the   *)
(* other one never notices that its user is gone.                           *)
FeedEnds ==
  \A f \in Feeds :
    gone[f] ~> (at[f] = "done" \/ Source(f) \in shared)
=============================================================================
