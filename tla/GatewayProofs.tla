--------------------------- MODULE GatewayProofs ----------------------------
(* Theorems about the RPCs of the gateway: the feeds of images and audio,   *)
(* the feed of maps, behavior control, the calls that wait for an answer of *)
(* the engine, and the BLE proxy that makes such calls. All of them for any *)
(* number of calls and any size of channels, groups and maps.               *)
EXTENDS BleProxy, Feeds, NavMap, BehaviorControl, TLAPS

-----------------------------------------------------------------------------
(* FEEDS OF IMAGES AND AUDIO (Feeds). Reassembly.                           *)

(* What a cache holds: the chunks 0 to last of its group, in order.         *)
CacheInOrder(k) ==
  /\ k.group = -1 => k.last = -1
  /\ Len(k.data) = k.last + 1
  /\ \A i \in 1..Len(k.data) :
       k.data[i].id = i - 1 /\ k.data[i].group = k.group

(* An empty cache and one that was just started are in order.               *)
LEMMA EmptyInOrder ==
  ASSUME NEW c \in Chunks
  PROVE  /\ Empty \in Caches /\ CacheInOrder(Empty)
         /\ Started(c) \in Caches /\ CacheInOrder(Started(c))
         /\ Started(c).group = c.group
<1>1. Empty \in Caches /\ CacheInOrder(Empty)
  BY DEF Empty, Caches, CacheInOrder
<1>2. Started(c) = [group |-> c.group, last |-> -1, data |-> <<>>]
  BY DEF Started, Empty
<1>3. Started(c) \in Caches /\ CacheInOrder(Started(c))
  BY <1>2 DEF Caches, CacheInOrder, Chunks
<1> QED
  BY <1>1, <1>2, <1>3

(* A chunk that follows is put at the end of a cache in order.              *)
LEMMA AppendInOrder ==
  ASSUME NEW k \in Caches, CacheInOrder(k), NEW c \in Chunks,
         k.group # -1, Follows(k, c)
  PROVE  LET n == [k EXCEPT !.last = c.id, !.data = Append(@, c)]
         IN  n \in Caches /\ CacheInOrder(n) /\ n.group = k.group
<1> DEFINE n == [k EXCEPT !.last = c.id, !.data = Append(@, c)]
<1>0. Append(k.data, c) \in Seq(Chunks) /\ c.id \in Int
  BY DEF Caches, Chunks
<1>1. n \in Caches /\ n.group = k.group /\ n.last = c.id
      /\ n.data = Append(k.data, c)
  BY <1>0 DEF Caches
<1> HIDE DEF n
<1>2. Len(n.data) = n.last + 1
  <2>1. Len(Append(k.data, c)) = Len(k.data) + 1
    BY DEF Caches
  <2>2. Len(k.data) = k.last + 1 /\ c.id = k.last + 1
    BY DEF CacheInOrder, Follows
  <2> QED
    BY <1>1, <2>1, <2>2
<1>3. ASSUME NEW i \in 1..Len(n.data)
      PROVE  n.data[i].id = i - 1 /\ n.data[i].group = n.group
  <2>1. Len(n.data) = Len(k.data) + 1
    BY <1>1 DEF Caches
  <2>2. CASE i = Len(k.data) + 1
    <3>1. n.data[i] = c
      BY <1>1, <2>2 DEF Caches
    <3>2. c.id = k.last + 1 /\ c.group = k.group /\ Len(k.data) = k.last + 1
      BY DEF Follows, CacheInOrder
    <3> QED
      BY <1>1, <2>2, <3>1, <3>2 DEF Caches
  <2>3. CASE i # Len(k.data) + 1
    <3>1. i \in 1..Len(k.data)
      BY <1>3, <2>1, <2>3 DEF Caches
    <3>2. n.data[i] = k.data[i]
      BY <1>1, <3>1 DEF Caches
    <3> QED
      BY <1>1, <3>1, <3>2 DEF CacheInOrder
  <2> QED
    BY <2>2, <2>3
<1>4. n.group = -1 => n.last = -1
  BY <1>1
<1>5. CacheInOrder(n)
  BY <1>2, <1>3, <1>4 DEF CacheInOrder
<1> QED
  BY <1>1, <1>5 DEF n

(* Unpacking any chunk whatever into a cache in order gives one in order,   *)
(* and a group that is ready is whole.                                      *)
LEMMA UnpackInOrder ==
  ASSUME NEW k0 \in Caches, CacheInOrder(k0), NEW c \in Chunks
  PROVE  /\ Unpack(k0, c) \in Caches
         /\ CacheInOrder(Unpack(k0, c))
         /\ Ready(Unpack(k0, c), c) =>
              Unpack(k0, c).data # <<>> /\ IsWhole(Unpack(k0, c).data)
<1> DEFINE k == IF c.id = 0 THEN Started(c) ELSE k0
           n == [k EXCEPT !.last = c.id, !.data = Append(@, c)]
<1>1. k \in Caches /\ CacheInOrder(k)
  BY EmptyInOrder
<1>2. CASE k.group = -1 \/ ~Follows(k, c)
  <2>1. Unpack(k0, c) = Empty
    BY <1>2 DEF Unpack
  <2>2. ~Ready(Empty, c)
    BY DEF Ready, Empty
  <2> QED
    BY <2>1, <2>2, EmptyInOrder
<1>3. CASE ~(k.group = -1 \/ ~Follows(k, c))
  <2>1. Unpack(k0, c) = n
    BY <1>3 DEF Unpack
  <2>2. n \in Caches /\ CacheInOrder(n)
    BY <1>1, <1>3, AppendInOrder
  <2>3. n.data = Append(k.data, c) /\ n.last = c.id
    BY <1>1 DEF Caches
  <2>4. Len(n.data) = c.id + 1 /\ n.data[Len(n.data)] = c /\ Len(n.data) > 0
    BY <1>1, <2>2, <2>3 DEF CacheInOrder, Caches, Chunks
  <2>5. ASSUME Ready(n, c) PROVE n.data # <<>> /\ IsWhole(n.data)
    <3>1. c.id = c.count - 1
      BY <2>5 DEF Ready
    <3>2. n.data[Len(n.data)].count = Len(n.data)
      BY <2>4, <3>1 DEF Chunks
    <3>3. \A i \in 1..Len(n.data) :
            n.data[i].id = i - 1 /\ n.data[i].group = n.data[1].group
      <4>1. \A i \in 1..Len(n.data) :
              n.data[i].id = i - 1 /\ n.data[i].group = n.group
        BY <2>2 DEF CacheInOrder
      <4>2. 1 \in 1..Len(n.data)
        BY <2>4, c.id \in Nat DEF Chunks
      <4>3. n.data[1].group = n.group
        BY <4>1, <4>2
      <4> QED
        BY <4>1, <4>3
    <3> QED
      BY <2>4, <3>2, <3>3 DEF IsWhole
  <2> QED
    BY <2>1, <2>2, <2>5
<1> QED
  BY <1>2, <1>3

-----------------------------------------------------------------------------
(* The invariant.                                                           *)

CachesInOrder == \A f \in Feeds : CacheInOrder(cache[f])

(* A source that is on is on for a call that will switch it off.            *)
Holds(f) == at[f] \in {"enabling", "enabled", "listening", "leaving", "deleted"}
OnHasHolder ==
  \A s \in Sources :
    mode[s] => s \in failed \/ \E f \in Feeds : Source(f) = s /\ Holds(f)

FeedInv ==
  FeedTypeOK /\ CachesInOrder /\ GroupIsWhole /\ OnHasHolder

LEMMA FeedInitInv == FeedInit => FeedInv
<1> SUFFICES ASSUME FeedInit PROVE FeedInv
  OBVIOUS
<1> USE FeedsAssumption DEF FeedInit
<1>1. Empty \in Caches /\ CacheInOrder(Empty)
  BY DEF Empty, Caches, CacheInOrder
<1>2. FeedTypeOK
  BY <1>1 DEF FeedTypeOK, Chunks, Sources
<1>3. CachesInOrder /\ GroupIsWhole
  BY <1>1 DEF CachesInOrder, GroupIsWhole
<1>4. OnHasHolder
  BY DEF OnHasHolder
<1> QED
  BY <1>2, <1>3, <1>4 DEF FeedInv

(* The engine's numbering stays in its types.                               *)
LEMMA NextChunk ==
  ASSUME FeedTypeOK, NEW s \in Sources, NEW n \in WithCount(next[s])
  PROVE  Chunk(n) \in Chunks /\ [next EXCEPT ![s] = After(n)] \in [Sources -> Chunks]
<1>1. next[s] \in Chunks
  BY DEF FeedTypeOK
<1>2. n \in Chunks
  BY <1>1, FeedsAssumption DEF WithCount, Chunks
<1>3. After(n) \in Chunks
  <2>1. CASE n.id + 1 < n.count
    BY <1>2, <2>1 DEF After, Chunks
  <2>2. CASE ~(n.id + 1 < n.count)
    <3>1. (n.group + 1) % Groups \in Nat
      BY <1>2, FeedsAssumption DEF Chunks
    <3> QED
      BY <2>2, <3>1 DEF After, Chunks
  <2> QED
    BY <2>1, <2>2
<1> QED
  BY <1>2, <1>3 DEF Chunk, Chunks, FeedTypeOK

(* Broadcasting keeps queues sequences of chunks.                           *)
LEMMA BroadcastType ==
  ASSUME FeedTypeOK, NEW s \in Sources, NEW c \in Chunks, Broadcast(s, c)
  PROVE  /\ queue' \in [Feeds -> Seq(Chunks)]
         /\ ear' \in [Feeds -> {"none", "open", "closed"}]
<1>1. \A f \in Feeds : queue[f] \in Seq(Chunks) /\ ear[f] \in {"none", "open", "closed"}
  BY DEF FeedTypeOK
<1>2. ASSUME NEW f \in Feeds PROVE Append(queue[f], c) \in Seq(Chunks)
  <2>1. queue[f] \in Seq(Chunks)
    BY <1>1
  <2> QED
    BY <2>1
<1>3. \A f \in Feeds : Len(queue[f]) = Room => Tail(queue[f]) \in Seq(Chunks)
  BY <1>1, FeedsAssumption
<1> QED
  BY <1>1, <1>2, <1>3 DEF Broadcast

-----------------------------------------------------------------------------
(* Steps that leave caches and what was sent alone.                         *)
LEMMA SameGroups ==
  ASSUME FeedInv, UNCHANGED <<cache, sent>>
  PROVE  CachesInOrder' /\ GroupIsWhole'
BY DEF FeedInv, CachesInOrder, GroupIsWhole

(* Steps that empty the cache of a feed and what it sent.                   *)
LEMMA EmptiedGroups ==
  ASSUME FeedInv, NEW f \in Feeds,
         cache' = [cache EXCEPT ![f] = Empty],
         sent' = sent \/ sent' = [sent EXCEPT ![f] = <<>>]
  PROVE  CachesInOrder' /\ GroupIsWhole'
<1>1. CacheInOrder(Empty)
  BY DEF Empty, CacheInOrder
<1> QED
  BY <1>1 DEF FeedInv, FeedTypeOK, CachesInOrder, GroupIsWhole

(* A step of one call that leaves the switch alone and stays a holder.      *)
LEMMA SameHolders ==
  ASSUME FeedInv, UNCHANGED <<kind, mode>>, failed \subseteq failed',
         \A f \in Feeds : Holds(f) => Holds(f)' \/ Source(f) \in failed'
  PROVE  OnHasHolder'
BY DEF FeedInv, OnHasHolder, Source

LEMMA StepSwitchOn ==
  ASSUME FeedInv, NEW f \in Feeds,
         SwitchOn(f) \/ SwitchOnFails(f) \/ SwitchedOn(f) \/ Listen(f) \/ UserGoes(f)
  PROVE  FeedInv'
<1> USE DEF FeedInv
<1>0. Source(f) \in Sources
  BY DEF Source, Sources
<1>1. CASE SwitchOn(f)
  <2>1. FeedTypeOK'
    BY <1>0, <1>1 DEF SwitchOn, FeedTypeOK
  <2>2. CachesInOrder' /\ GroupIsWhole'
    BY <1>1, SameGroups DEF SwitchOn
  <2>3. OnHasHolder'
    <3> SUFFICES ASSUME NEW s \in Sources, mode'[s]
                 PROVE  s \in failed' \/ \E g \in Feeds : Source(g)' = s /\ Holds(g)'
      BY DEF OnHasHolder
    <3>1. CASE s = Source(f)
      <4>1. Holds(f)' /\ Source(f)' = s
        BY <1>1, <3>1 DEF SwitchOn, Holds, Source, FeedTypeOK
      <4> QED
        BY <4>1
    <3>2. CASE s # Source(f)
      <4>1. mode[s]
        BY <1>0, <1>1, <3>2 DEF SwitchOn, FeedTypeOK
      <4>2. s \in failed \/ \E g \in Feeds : Source(g) = s /\ Holds(g)
        BY <4>1 DEF OnHasHolder
      <4>3. \A g \in Feeds : Source(g) = s => (Holds(g) => Holds(g)') /\ Source(g)' = s
        BY <1>1, <3>2 DEF SwitchOn, Holds, Source, FeedTypeOK
      <4> QED
        BY <1>1, <4>2, <4>3 DEF SwitchOn
    <3> QED
      BY <3>1, <3>2
  <2> QED
    BY <2>1, <2>2, <2>3
<1>2. CASE SwitchOnFails(f)
  <2>1. FeedTypeOK'
    BY <1>2 DEF SwitchOnFails, FeedTypeOK
  <2>2. CachesInOrder' /\ GroupIsWhole'
    BY <1>2, SameGroups DEF SwitchOnFails
  <2>3. OnHasHolder'
    BY <1>2, SameHolders DEF SwitchOnFails, Holds, FeedTypeOK
  <2> QED
    BY <2>1, <2>2, <2>3
<1>3. CASE SwitchedOn(f)
  <2>1. FeedTypeOK'
    BY <1>0, <1>3 DEF SwitchedOn, FeedTypeOK
  <2>2. CachesInOrder' /\ GroupIsWhole'
    BY <1>3, SameGroups DEF SwitchedOn
  <2>3. \A g \in Feeds : Holds(g) => Holds(g)' \/ Source(g) \in failed'
    BY <1>3 DEF SwitchedOn, Holds, FeedTypeOK
  <2>4. OnHasHolder'
    BY <1>3, <2>3, SameHolders DEF SwitchedOn
  <2> QED
    BY <2>1, <2>2, <2>4
<1>4. CASE Listen(f)
  <2>1. Empty \in Caches
    BY DEF Empty, Caches
  <2>2. FeedTypeOK'
    BY <1>4, <2>1 DEF Listen, FeedTypeOK
  <2>3. CachesInOrder' /\ GroupIsWhole'
    BY <1>4, EmptiedGroups DEF Listen
  <2>4. OnHasHolder'
    BY <1>4, SameHolders DEF Listen, Holds, FeedTypeOK
  <2> QED
    BY <2>2, <2>3, <2>4
<1>5. CASE UserGoes(f)
  <2>1. FeedTypeOK'
    BY <1>5 DEF UserGoes, FeedTypeOK
  <2>2. CachesInOrder' /\ GroupIsWhole'
    BY <1>5, SameGroups DEF UserGoes
  <2>3. OnHasHolder'
    BY <1>5, SameHolders DEF UserGoes, Holds
  <2> QED
    BY <2>1, <2>2, <2>3
<1> QED
  BY <1>1, <1>2, <1>3, <1>4, <1>5

LEMMA StepReceiveChunk ==
  ASSUME FeedInv, NEW f \in Feeds, ReceiveChunk(f)
  PROVE  FeedInv'
<1> USE DEF FeedInv
<1> DEFINE c == Head(queue[f])
           k == Unpack(cache[f], c)
<1>1. c \in Chunks /\ Tail(queue[f]) \in Seq(Chunks)
  BY DEF ReceiveChunk, FeedTypeOK
<1>2. cache[f] \in Caches /\ CacheInOrder(cache[f])
  BY DEF FeedTypeOK, CachesInOrder
<1>3. k \in Caches /\ CacheInOrder(k)
      /\ (Ready(k, c) => k.data # <<>> /\ IsWhole(k.data))
  BY <1>1, <1>2, UnpackInOrder
<1>4. k.data \in Seq(Chunks) /\ Empty \in Caches /\ CacheInOrder(Empty)
  BY <1>3 DEF Caches, Empty, CacheInOrder
<1>5. OnHasHolder'
  <2>1. \A g \in Feeds : Holds(g) => Holds(g)'
    BY DEF ReceiveChunk, Holds, FeedTypeOK
  <2> QED
    BY <2>1, SameHolders DEF ReceiveChunk
<1>6. CASE Ready(k, c)
  <2>1. /\ sent' = [sent EXCEPT ![f] = k.data]
        /\ cache' = [cache EXCEPT ![f] = Empty]
        /\ at' = [at EXCEPT ![f] =
                    IF gone[f] \/ kind[f] = "CaptureSingleImage"
                    THEN "leaving" ELSE @]
        /\ queue' = [queue EXCEPT ![f] = Tail(@)]
        /\ UNCHANGED <<kind, ear, gone, mode, next, lost, failed, shared>>
    BY <1>6 DEF ReceiveChunk
  <2>2. FeedTypeOK'
    BY <1>1, <1>4, <2>1 DEF FeedTypeOK
  <2>3. CachesInOrder'
    BY <1>4, <2>1 DEF CachesInOrder, FeedTypeOK
  <2>4. GroupIsWhole'
    BY <1>3, <1>6, <2>1 DEF GroupIsWhole, FeedTypeOK
  <2> QED
    BY <1>5, <2>2, <2>3, <2>4
<1>7. CASE ~Ready(k, c)
  <2>1. /\ sent' = [sent EXCEPT ![f] = <<>>]
        /\ cache' = [cache EXCEPT ![f] = k]
        /\ queue' = [queue EXCEPT ![f] = Tail(@)]
        /\ UNCHANGED <<kind, at, ear, gone, mode, next, lost, failed, shared>>
    BY <1>7 DEF ReceiveChunk
  <2>2. FeedTypeOK'
    BY <1>1, <1>3, <2>1 DEF FeedTypeOK
  <2>3. CachesInOrder'
    BY <1>3, <2>1 DEF CachesInOrder, FeedTypeOK
  <2>4. GroupIsWhole'
    BY <2>1 DEF GroupIsWhole, FeedTypeOK
  <2> QED
    BY <1>5, <2>2, <2>3, <2>4
<1> QED
  BY <1>6, <1>7

LEMMA StepLeave ==
  ASSUME FeedInv, NEW f \in Feeds,
         Died(f) \/ DeleteListener(f) \/ SwitchOff(f) \/ SwitchedOff(f)
  PROVE  FeedInv'
<1> USE DEF FeedInv
<1>0. Source(f) \in Sources
  BY DEF Source, Sources
<1>1. CASE Died(f)
  <2>1. FeedTypeOK'
    BY <1>1 DEF Died, FeedTypeOK
  <2>2. CachesInOrder' /\ GroupIsWhole'
    BY <1>1, SameGroups DEF Died
  <2>3. OnHasHolder'
    BY <1>1, SameHolders DEF Died, Holds, FeedTypeOK
  <2> QED
    BY <2>1, <2>2, <2>3
<1>2. CASE DeleteListener(f)
  <2>1. Empty \in Caches
    BY DEF Empty, Caches
  <2>2. FeedTypeOK'
    BY <1>2, <2>1 DEF DeleteListener, FeedTypeOK
  <2>3. CachesInOrder' /\ GroupIsWhole'
    BY <1>2, EmptiedGroups DEF DeleteListener
  <2>4. OnHasHolder'
    BY <1>2, SameHolders DEF DeleteListener, Holds, FeedTypeOK
  <2> QED
    BY <2>2, <2>3, <2>4
<1>3. CASE SwitchOff(f)
  <2>1. FeedTypeOK'
    BY <1>0, <1>3 DEF SwitchOff, FeedTypeOK
  <2>2. CachesInOrder' /\ GroupIsWhole'
    BY <1>3, SameGroups DEF SwitchOff
  <2>3. OnHasHolder'
    <3> SUFFICES ASSUME NEW s \in Sources, mode'[s]
                 PROVE  s \in failed' \/ \E g \in Feeds : Source(g)' = s /\ Holds(g)'
      BY DEF OnHasHolder
    <3>1. CASE s = Source(f)
      <4>1. s \in failed'
        BY <1>3, <3>1 DEF SwitchOff, FeedTypeOK
      <4> QED
        BY <4>1
    <3>2. CASE s # Source(f)
      <4>1. mode[s] /\ failed \subseteq failed'
        BY <1>0, <1>3, <3>2 DEF SwitchOff, FeedTypeOK
      <4>2. s \in failed \/ \E g \in Feeds : Source(g) = s /\ Holds(g)
        BY <4>1 DEF OnHasHolder
      <4>3. \A g \in Feeds : Source(g) = s => (Holds(g) => Holds(g)') /\ Source(g)' = s
        BY <1>3, <3>2 DEF SwitchOff, Holds, Source, FeedTypeOK
      <4> QED
        BY <4>1, <4>2, <4>3
    <3> QED
      BY <3>1, <3>2
  <2> QED
    BY <2>1, <2>2, <2>3
<1>4. CASE SwitchedOff(f)
  <2>1. FeedTypeOK'
    BY <1>4 DEF SwitchedOff, FeedTypeOK
  <2>2. CachesInOrder' /\ GroupIsWhole'
    BY <1>4, SameGroups DEF SwitchedOff
  <2>3. OnHasHolder'
    BY <1>4, SameHolders DEF SwitchedOff, Holds, FeedTypeOK
  <2> QED
    BY <2>1, <2>2, <2>3
<1> QED
  BY <1>1, <1>2, <1>3, <1>4

LEMMA StepEngine ==
  ASSUME FeedInv, NEW s \in Sources, EngineSends(s) \/ EngineLoses(s)
  PROVE  FeedInv'
<1> USE DEF FeedInv
<1>1. CASE EngineSends(s)
  <2>1. PICK n \in WithCount(next[s]) :
          Broadcast(s, Chunk(n)) /\ next' = [next EXCEPT ![s] = After(n)]
    BY <1>1 DEF EngineSends
  <2>2. Chunk(n) \in Chunks /\ next' \in [Sources -> Chunks]
    BY <2>1, NextChunk
  <2>3. /\ queue' \in [Feeds -> Seq(Chunks)]
        /\ ear' \in [Feeds -> {"none", "open", "closed"}]
    BY <2>1, <2>2, BroadcastType
  <2>4. FeedTypeOK'
    BY <1>1, <2>2, <2>3 DEF EngineSends, FeedTypeOK
  <2>5. CachesInOrder' /\ GroupIsWhole'
    BY <1>1, SameGroups DEF EngineSends
  <2>6. OnHasHolder'
    BY <1>1, SameHolders DEF EngineSends, Holds
  <2> QED
    BY <2>4, <2>5, <2>6
<1>2. CASE EngineLoses(s)
  <2>1. PICK n \in WithCount(next[s]) : next' = [next EXCEPT ![s] = After(n)]
    BY <1>2 DEF EngineLoses
  <2>2. next' \in [Sources -> Chunks]
    BY <2>1, NextChunk
  <2>3. FeedTypeOK'
    BY <1>2, <2>2 DEF EngineLoses, FeedTypeOK
  <2>4. CachesInOrder' /\ GroupIsWhole'
    BY <1>2, SameGroups DEF EngineLoses
  <2>5. OnHasHolder'
    BY <1>2, SameHolders DEF EngineLoses, Holds
  <2> QED
    BY <2>3, <2>4, <2>5
<1> QED
  BY <1>1, <1>2

LEMMA FeedStutterInv == ASSUME FeedInv, UNCHANGED feedVars PROVE FeedInv'
BY DEF FeedInv, feedVars, FeedTypeOK, CachesInOrder, GroupIsWhole, OnHasHolder,
       Source, Holds

LEMMA FeedStepInv == FeedInv /\ [FeedNext]_feedVars => FeedInv'
<1> SUFFICES ASSUME FeedInv, [FeedNext]_feedVars PROVE FeedInv'
  OBVIOUS
<1>1. ASSUME NEW f \in Feeds,
             SwitchOn(f) \/ SwitchOnFails(f) \/ UserGoes(f) \/ FeedStep(f)
      PROVE  FeedInv'
  BY <1>1, StepSwitchOn, StepReceiveChunk, StepLeave DEF FeedStep
<1>2. ASSUME NEW s \in Sources, EngineSends(s) \/ EngineLoses(s)
      PROVE  FeedInv'
  BY <1>2, StepEngine
<1>3. CASE UNCHANGED feedVars
  BY <1>3, FeedStutterInv
<1> QED
  BY <1>1, <1>2, <1>3 DEF FeedNext

(* Every reachable state is well typed, every cache holds the chunks 0 to   *)
(* last of one group, and a source that is on has a call that will switch   *)
(* it off.                                                                  *)
THEOREM FeedInvariant == FeedSpec => []FeedInv
<1>1. FeedInit => FeedInv
  BY FeedInitInv
<1>2. FeedInv /\ [FeedNext]_feedVars => FeedInv'
  BY FeedStepInv
<1> QED
  BY <1>1, <1>2, PTL DEF FeedSpec

(* The feeds' state is well typed.                                          *)
THEOREM FeedTypeCorrect == FeedSpec => []FeedTypeOK
<1>1. FeedInv => FeedTypeOK
  BY DEF FeedInv
<1> QED
  BY <1>1, FeedInvariant, PTL

(* A user gets whole groups only, whatever the engine loses and whatever    *)
(* SafeClose takes out, for groups and channels of any size.                *)
THEOREM GroupsAreWhole == FeedSpec => []GroupIsWhole
<1>1. FeedInv => GroupIsWhole
  BY DEF FeedInv
<1> QED
  BY <1>1, FeedInvariant, PTL

(* When all calls of a source are over it is off, for any number of calls,  *)
(* unless a write or an answer failed.                                      *)
THEOREM OffWhenUnheard == FeedSpec => []SilentWhenUnheard
<1>1. FeedInv => SilentWhenUnheard
  <2> SUFFICES ASSUME FeedInv, NEW s \in Sources, UsersOf(s) = {},
                      s \notin failed, mode[s]
               PROVE  FALSE
    BY DEF SilentWhenUnheard, FeedInv, FeedTypeOK
  <2>1. PICK f \in Feeds : Source(f) = s /\ Holds(f)
    BY DEF FeedInv, OnHasHolder
  <2>2. f \in UsersOf(s)
    BY <2>1 DEF UsersOf, Active, Holds
  <2> QED
    BY <2>2
<1> QED
  BY <1>1, FeedInvariant, PTL

-----------------------------------------------------------------------------
(* THE FEED OF MAPS (NavMap).                                               *)

(* A message of quads, and what the feed's state may hold.                  *)
Pieces == [map : Nat, part : Nat]
NavMaps == [map : Nat, parts : Seq(Pieces)]

NavTypeOK ==
  /\ nav \in {"idle", "asked", "begins", "quads", "looping", "done"}
  /\ frequency \in BOOLEAN
  /\ begins \in Seq(Nat) /\ Len(begins) <= 1
  /\ quads \in Seq(Pieces)
  /\ ends \in Seq(Nat) /\ Len(ends) <= 1
  /\ pendingMap \in NavMaps
  /\ given \in [map : Nat, parts : Seq(Pieces), inOrder : BOOLEAN]
  /\ shut \subseteq {"begins", "quads", "ends"}
  /\ turn \in [map : Nat \ {0}, part : 0..(Parts + 1)]
  /\ behind \in BOOLEAN

(* The parts at hand and those that wait are the first n of map m.          *)
FirstOf(m, n) ==
  /\ pendingMap.map = m
  /\ Len(pendingMap.parts) + Len(quads) = n
  /\ \A i \in 1..Len(pendingMap.parts) :
       pendingMap.parts[i] = [map |-> m, part |-> i]
  /\ \A i \in 1..Len(quads) :
       quads[i] = [map |-> m, part |-> Len(pendingMap.parts) + i]

(* A feed that is not behind has messages of one kind waiting, and with     *)
(* them has all of the map that was sent so far.                            *)
KeepsUp ==
  nav # "done" /\ ~behind =>
    IF turn.part = 0
    THEN /\ begins = <<>> /\ quads = <<>>
         /\ ends # <<>> =>
              ends = <<turn.map - 1>> /\ FirstOf(turn.map - 1, Parts)
    ELSE /\ ends = <<>>
         /\ \/ turn.part = 1 /\ begins = <<turn.map>> /\ quads = <<>>
            \/ begins = <<>> /\ FirstOf(turn.map, turn.part - 1)

NavInv == NavTypeOK /\ KeepsUp /\ MapIsWhole

(* Nothing is of the types.                                                 *)
LEMMA NothingTypes ==
  /\ NoMap \in NavMaps
  /\ NothingGiven \in [map : Nat, parts : Seq(Pieces), inOrder : BOOLEAN]
<1>1. <<>> \in Seq(Pieces)
  OBVIOUS
<1> QED
  BY <1>1 DEF NoMap, NothingGiven, NavMaps

(* A channel with room for one message, when that is taken.                 *)
LEMMA OneTaken ==
  ASSUME NEW s \in Seq(Nat), Len(s) <= 1, s # <<>>
  PROVE  Head(s) \in Nat /\ Tail(s) = <<>>
OBVIOUS

LEMMA NavInitInv == NavInit => NavInv
<1> SUFFICES ASSUME NavInit PROVE NavInv
  OBVIOUS
<1> USE NavMapAssumption DEF NavInit
<1>1. NavTypeOK
  <2>1. begins \in Seq(Nat) /\ ends \in Seq(Nat) /\ quads \in Seq(Pieces)
        /\ Len(begins) <= 1 /\ Len(ends) <= 1
    OBVIOUS
  <2>2. turn \in [map : Nat \ {0}, part : 0..(Parts + 1)]
    OBVIOUS
  <2> QED
    BY <2>1, <2>2, NothingTypes DEF NavTypeOK
<1>2. KeepsUp
  BY DEF KeepsUp
<1>3. MapIsWhole
  BY DEF MapIsWhole, NothingGiven
<1> QED
  BY <1>1, <1>2, <1>3 DEF NavInv

(* The engine's numbering stays in its types.                               *)
LEMMA NextTurnType ==
  ASSUME NavTypeOK, NextTurn
  PROVE  /\ turn' \in [map : Nat \ {0}, part : 0..(Parts + 1)]
         /\ turn.part <= Parts =>
              turn'.map = turn.map /\ turn'.part = turn.part + 1
         /\ ~(turn.part <= Parts) => turn'.map = turn.map + 1 /\ turn'.part = 0
<1>0. turn.map \in Nat \ {0} /\ turn.part \in 0..(Parts + 1)
      /\ turn = [map |-> turn.map, part |-> turn.part]
  BY DEF NavTypeOK
<1>1. CASE turn.part <= Parts
  <2>1. turn' = [map |-> turn.map, part |-> turn.part + 1]
    BY <1>0, <1>1 DEF NextTurn
  <2>2. turn.part + 1 \in 0..(Parts + 1)
    BY <1>0, <1>1, NavMapAssumption
  <2> QED
    BY <1>0, <1>1, <2>1, <2>2
<1>2. CASE ~(turn.part <= Parts)
  <2>1. turn' = [map |-> turn.map + 1, part |-> 0]
    BY <1>2 DEF NextTurn
  <2> QED
    BY <1>0, <1>2, <2>1, NavMapAssumption
<1> QED
  BY <1>1, <1>2

(* What the engine sends in time keeps the feed abreast.                    *)
LEMMA StepSendsMap == ASSUME NavInv, EngineSendsMap PROVE NavInv'
<1> USE NavMapAssumption DEF NavInv
<1>0. NextTurn /\ turn \in Pieces
  BY DEF EngineSendsMap, NavTypeOK, Pieces
<1>1. NavTypeOK'
  <2>1. Append(quads, turn) \in Seq(Pieces)
    BY <1>0 DEF NavTypeOK
  <2>2. turn.map \in Nat
    BY DEF NavTypeOK
  <2>3. behind' \in BOOLEAN
    BY DEF EngineSendsMap, NavTypeOK
  <2> QED
    BY <1>0, <2>1, <2>2, <2>3, NextTurnType DEF EngineSendsMap, NavTypeOK
<1>2. MapIsWhole'
  BY DEF EngineSendsMap, MapIsWhole
<1>3. KeepsUp'
  <2> SUFFICES ASSUME nav # "done", ~behind'
               PROVE  KeepsUp'
    BY DEF EngineSendsMap, KeepsUp
  <2>0. Heard
    BY DEF EngineSendsMap, AllTaken
  <2>1. CASE turn.part = 0
    <3>1. IsBegin /\ ~IsEnd /\ ~IsQuads
      BY <2>1 DEF IsBegin, IsEnd, IsQuads, NavTypeOK
    <3>2. begins' = <<turn.map>> /\ quads' = quads /\ ends' = ends
      BY <2>0, <3>1 DEF EngineSendsMap
    <3>3. turn'.part = 1 /\ turn'.map = turn.map
      BY <1>0, <2>1, NextTurnType DEF NavTypeOK
    <3>4. quads = <<>> /\ ends = <<>>
      BY <2>0, <3>1 DEF EngineSendsMap, AllTaken, KeepsUp
    <3> QED
      BY <3>2, <3>3, <3>4 DEF KeepsUp
  <2>2. CASE turn.part # 0 /\ turn.part <= Parts
    <3>1. ~IsBegin /\ ~IsEnd /\ IsQuads
      BY <2>2 DEF IsBegin, IsEnd, IsQuads, NavTypeOK
    <3>2. begins' = begins /\ quads' = Append(quads, turn) /\ ends' = ends
          /\ UNCHANGED <<nav, pendingMap>>
      BY <2>0, <3>1 DEF EngineSendsMap
    <3>3. ~behind /\ begins = <<>> /\ ends = <<>>
      BY <2>0, <3>1 DEF EngineSendsMap
    <3>4. FirstOf(turn.map, turn.part - 1)
      BY <2>2, <3>3 DEF KeepsUp
    <3>5. turn'.part = turn.part + 1 /\ turn'.map = turn.map
      BY <1>0, <2>2, NextTurnType
    <3>6. FirstOf(turn.map, turn.part - 1)'
      <4> DEFINE p == pendingMap.parts
      <4>1. p \in Seq(Pieces) /\ quads \in Seq(Pieces) /\ Len(p) \in Nat
            /\ Len(quads) \in Nat /\ turn.part \in Nat
        BY DEF NavTypeOK, NavMaps
      <4>2. Len(quads') = Len(quads) + 1
        BY <1>0, <3>2, <4>1
      <4>3. Len(p) + Len(quads') = turn.part
        <5>1. Len(p) + Len(quads) = turn.part - 1
          BY <3>4 DEF FirstOf
        <5> HIDE DEF p
        <5> QED
          BY <4>1, <4>2, <5>1
      <4>4. ASSUME NEW i \in 1..Len(quads')
            PROVE  quads'[i] = [map |-> turn.map, part |-> Len(p) + i]
        <5>1. CASE i = Len(quads) + 1
          <6>1. quads'[i] = turn
            BY <1>0, <3>2, <4>1, <5>1
          <6>2. turn.part = Len(p) + i
            BY <4>1, <4>2, <4>3, <5>1
          <6>3. turn = [map |-> turn.map, part |-> turn.part]
            BY <1>0 DEF Pieces
          <6> QED
            BY <6>1, <6>2, <6>3
        <5>2. CASE i # Len(quads) + 1
          <6>1. i \in 1..Len(quads)
            BY <4>1, <4>2, <5>2
          <6>2. quads'[i] = quads[i]
            BY <1>0, <3>2, <4>1, <6>1
          <6> QED
            BY <3>4, <6>1, <6>2 DEF FirstOf
        <5> QED
          BY <5>1, <5>2
      <4>5. turn'.part - 1 = turn.part
        BY <3>5, <4>1
      <4> QED
        BY <3>2, <3>4, <3>5, <4>3, <4>4, <4>5 DEF FirstOf
    <3> QED
      BY <2>2, <3>2, <3>3, <3>5, <3>6 DEF KeepsUp, NavTypeOK
  <2>3. CASE ~(turn.part <= Parts)
    <3>1. ~IsBegin /\ IsEnd /\ ~IsQuads /\ turn.part = Parts + 1
      BY <2>3 DEF IsBegin, IsEnd, IsQuads, NavTypeOK
    <3>2. begins' = begins /\ quads' = quads /\ ends' = <<turn.map>>
          /\ UNCHANGED <<nav, pendingMap>>
      BY <2>0, <3>1 DEF EngineSendsMap
    <3>3. ~behind /\ begins = <<>> /\ quads = <<>>
      BY <2>0, <3>1 DEF EngineSendsMap
    <3>4. FirstOf(turn.map, Parts)
      BY <2>3, <3>1, <3>3 DEF KeepsUp
    <3>5. turn'.part = 0 /\ turn'.map - 1 = turn.map
      <4>1. turn'.part = 0 /\ turn'.map = turn.map + 1
        BY <1>0, <2>3, NextTurnType
      <4>2. turn.map \in Nat
        BY DEF NavTypeOK
      <4> QED
        BY <4>1, <4>2
    <3>6. FirstOf(turn.map - 1, Parts)'
      BY <3>2, <3>4, <3>5 DEF FirstOf
    <3> QED
      BY <3>2, <3>3, <3>5, <3>6 DEF KeepsUp
  <2> QED
    BY <2>1, <2>2, <2>3
<1> QED
  BY <1>1, <1>2, <1>3

(* A feed whose channel was closed is behind, or done.                      *)
LEMMA StepGivesUp ==
  ASSUME NavInv, EngineGivesUp \/ ChannelFails \/ SetFrequency \/ StartNavMap
  PROVE  NavInv'
<1> USE NavMapAssumption DEF NavInv
<1>1. CASE EngineGivesUp
  <2>1. Tail(quads) \in Seq(Pieces) \/ ~IsQuads
    <3>1. IsQuads => quads # <<>>
      BY <1>1 DEF EngineGivesUp, Full, IsQuads, NavTypeOK
    <3> QED
      BY <3>1 DEF NavTypeOK
  <2>2. Kind \in {"begins", "quads", "ends"}
    BY DEF Kind
  <2>3. NavTypeOK'
    BY <1>1, <2>1, <2>2, NextTurnType DEF EngineGivesUp, NavTypeOK
  <2>4. KeepsUp' /\ MapIsWhole'
    BY <1>1 DEF EngineGivesUp, KeepsUp, MapIsWhole
  <2> QED
    BY <2>3, <2>4
<1>2. CASE ChannelFails
  <2>1. NavTypeOK'
    <3>1. frequency' \in BOOLEAN
      BY <1>2 DEF ChannelFails, ReturnNavMap, NavTypeOK
    <3>2. begins' = <<>> /\ quads' = <<>> /\ ends' = <<>> /\ nav' = "done"
      BY <1>2 DEF ChannelFails, ReturnNavMap
    <3> QED
      BY <1>2, <3>1, <3>2 DEF ChannelFails, NavTypeOK
  <2>2. KeepsUp' /\ MapIsWhole'
    BY <1>2 DEF ChannelFails, ReturnNavMap, KeepsUp, MapIsWhole
  <2> QED
    BY <2>1, <2>2
<1>3. CASE StartNavMap
  <2>1. NavTypeOK'
    BY <1>3 DEF StartNavMap, NavTypeOK
  <2>2. KeepsUp' /\ MapIsWhole'
    BY <1>3 DEF StartNavMap, KeepsUp, MapIsWhole, FirstOf
  <2> QED
    BY <2>1, <2>2
<1>4. CASE SetFrequency
  <2>1. NavTypeOK'
    BY <1>4 DEF SetFrequency, NavTypeOK
  <2>2. KeepsUp' /\ MapIsWhole'
    BY <1>4 DEF SetFrequency, KeepsUp, MapIsWhole, FirstOf
  <2> QED
    BY <2>1, <2>2
<1> QED
  BY <1>1, <1>2, <1>3, <1>4

LEMMA StepTakeBegin == ASSUME NavInv, TakeBegin PROVE NavInv'
<1> USE NavMapAssumption DEF NavInv
<1> DEFINE m == Head(begins)
<1>1. begins # <<>> /\ m \in Nat /\ Tail(begins) = <<>>
  BY OneTaken DEF TakeBegin, NavTypeOK
<1>2. begins' = <<>> /\ pendingMap' = [map |-> m, parts |-> <<>>]
      /\ given' = NothingGiven
      /\ UNCHANGED <<nav, frequency, quads, ends, shut, turn, behind>>
  BY <1>1 DEF TakeBegin, NewMap
<1>3. NavTypeOK'
  <2>1. pendingMap' \in NavMaps
    BY <1>1, <1>2 DEF NavMaps
  <2> QED
    BY <1>2, <2>1, NothingTypes DEF NavTypeOK
<1>4. MapIsWhole'
  BY <1>2 DEF MapIsWhole, NothingGiven
<1>5. KeepsUp'
  <2> SUFFICES ASSUME nav # "done", ~behind
               PROVE  /\ turn.part = 1 /\ ends' = <<>>
                      /\ FirstOf(turn.map, turn.part - 1)'
    BY <1>2 DEF KeepsUp
  <2>1. turn.part = 1 /\ m = turn.map /\ quads = <<>> /\ ends = <<>>
    BY <1>1 DEF KeepsUp
  <2> QED
    BY <1>2, <2>1 DEF FirstOf
<1> QED
  BY <1>3, <1>4, <1>5

LEMMA StepTakeQuads == ASSUME NavInv, TakeQuads PROVE NavInv'
<1> USE NavMapAssumption DEF NavInv
<1> DEFINE p == pendingMap.parts
<1>1. /\ p \in Seq(Pieces) /\ quads \in Seq(Pieces) /\ quads # <<>>
      /\ Head(quads) \in Pieces /\ Tail(quads) \in Seq(Pieces)
      /\ Len(Tail(quads)) = Len(quads) - 1 /\ Head(quads) = quads[1]
      /\ Len(p) \in Nat /\ Len(quads) \in Nat \ {0}
  BY DEF TakeQuads, NavTypeOK, NavMaps
<1>2. quads' = Tail(quads) /\ given' = NothingGiven
      /\ UNCHANGED <<nav, frequency, begins, ends, shut, turn, behind>>
  BY DEF TakeQuads
<1>3. \/ pendingMap' = pendingMap
      \/ /\ pendingMap # NoMap
         /\ pendingMap' = [map |-> pendingMap.map, parts |-> Append(p, Head(quads))]
  <2>1. pendingMap = [map |-> pendingMap.map, parts |-> p]
    BY DEF NavTypeOK, NavMaps
  <2> HIDE DEF p
  <2>2. [pendingMap EXCEPT !.parts = Append(@, Head(quads))]
          = [map |-> pendingMap.map, parts |-> Append(p, Head(quads))]
    BY <2>1
  <2> QED
    BY <2>2 DEF TakeQuads
<1>4. NavTypeOK'
  <2>1. Append(p, Head(quads)) \in Seq(Pieces)
    BY <1>1
  <2>2. pendingMap' \in NavMaps
    <3>1. pendingMap \in NavMaps /\ pendingMap.map \in Nat
      BY DEF NavTypeOK, NavMaps
    <3>2. [map |-> pendingMap.map, parts |-> Append(p, Head(quads))] \in NavMaps
      BY <2>1, <3>1 DEF NavMaps
    <3> QED
      BY <1>3, <3>1, <3>2
  <2> QED
    BY <1>1, <1>2, <2>2, NothingTypes DEF NavTypeOK
<1>5. MapIsWhole'
  BY <1>2 DEF MapIsWhole, NothingGiven
<1>6. KeepsUp'
  <2> SUFFICES ASSUME nav # "done", ~behind PROVE KeepsUp'
    BY <1>2 DEF KeepsUp
  <2>1. turn.part # 0 /\ begins = <<>> /\ ends = <<>>
        /\ FirstOf(turn.map, turn.part - 1)
    BY <1>1 DEF KeepsUp
  <2>2. pendingMap # NoMap
    BY <2>1 DEF FirstOf, NoMap, NavTypeOK
  <2>3. pendingMap' = [map |-> turn.map, parts |-> Append(p, Head(quads))]
    BY <2>1, <2>2 DEF TakeQuads, NavTypeOK, NavMaps, FirstOf
  <2> DEFINE q == Append(p, Head(quads))
  <2>4. pendingMap'.map = turn.map /\ pendingMap'.parts = q
    BY <2>3
  <2>5. Len(q) = Len(p) + 1
    BY <1>1
  <2>6. Len(q) + Len(quads') = turn.part - 1
    <3>1. Len(p) + Len(quads) = turn.part - 1
      BY <2>1 DEF FirstOf
    <3> QED
      BY <1>1, <1>2, <2>5, <3>1 DEF NavTypeOK
  <2>7. ASSUME NEW i \in 1..Len(q)
        PROVE  q[i] = [map |-> turn.map, part |-> i]
    <3>1. CASE i = Len(p) + 1
      <4>1. q[i] = quads[1]
        BY <1>1, <3>1
      <4>2. quads[1] = [map |-> turn.map, part |-> Len(p) + 1]
        BY <1>1, <2>1 DEF FirstOf
      <4> QED
        BY <3>1, <4>1, <4>2
    <3>2. CASE i # Len(p) + 1
      <4>1. i \in 1..Len(p)
        BY <1>1, <2>5, <3>2
      <4>2. q[i] = p[i]
        BY <1>1, <4>1
      <4> QED
        BY <2>1, <4>1, <4>2 DEF FirstOf
    <3> QED
      BY <3>1, <3>2
  <2>8. ASSUME NEW i \in 1..Len(quads')
        PROVE  quads'[i] = [map |-> turn.map, part |-> Len(q) + i]
    <3>1. i + 1 \in 1..Len(quads) /\ quads'[i] = quads[i + 1]
      BY <1>1, <1>2
    <3>2. quads[i + 1] = [map |-> turn.map, part |-> Len(p) + (i + 1)]
      BY <2>1, <3>1 DEF FirstOf
    <3>3. Len(p) + (i + 1) = Len(q) + i
      <4>1. i \in Nat
        BY <1>1, <1>2
      <4> HIDE DEF p, q
      <4> QED
        BY <1>1, <2>5, <4>1
    <3> QED
      BY <3>1, <3>2, <3>3
  <2> HIDE DEF q
  <2>9. FirstOf(turn.map, turn.part - 1)'
    BY <1>2, <2>4, <2>6, <2>7, <2>8 DEF FirstOf
  <2> QED
    BY <1>2, <2>1, <2>9 DEF KeepsUp
<1> QED
  BY <1>4, <1>5, <1>6

LEMMA StepTakeEnd == ASSUME NavInv, TakeEnd PROVE NavInv'
<1> USE NavMapAssumption DEF NavInv
<1>1. ends' = <<>> /\ pendingMap' = NoMap
      /\ UNCHANGED <<begins, quads, shut, turn, behind>>
  BY OneTaken DEF TakeEnd, NavTypeOK
<1>2. nav = "looping" /\ nav' \in {"looping", "done"} /\ frequency' \in BOOLEAN
  BY DEF TakeEnd, ReturnNavMap, NavTypeOK
<1>3. given' = NothingGiven
      \/ given' = [map |-> pendingMap.map, parts |-> pendingMap.parts,
                   inOrder |-> ~behind]
  BY DEF TakeEnd
<1>4. NavTypeOK'
  <2>1. given' \in [map : Nat, parts : Seq(Pieces), inOrder : BOOLEAN]
    <3>1. pendingMap.map \in Nat /\ pendingMap.parts \in Seq(Pieces)
      BY DEF NavTypeOK, NavMaps
    <3>2. NothingGiven \in [map : Nat, parts : Seq(Pieces), inOrder : BOOLEAN]
      BY NothingTypes
    <3>3. ASSUME NEW b \in BOOLEAN
          PROVE  [map |-> pendingMap.map, parts |-> pendingMap.parts, inOrder |-> b]
                   \in [map : Nat, parts : Seq(Pieces), inOrder : BOOLEAN]
      BY <3>1
    <3>4. (~behind) \in BOOLEAN
      OBVIOUS
    <3> QED
      BY <1>3, <3>2, <3>3, <3>4, Zenon
  <2>2. pendingMap' \in NavMaps
    BY <1>1 DEF NoMap, NavMaps
  <2> QED
    BY <1>1, <1>2, <2>1, <2>2 DEF NavTypeOK
<1>5. ~behind => turn.part = 0 /\ begins = <<>> /\ quads = <<>>
                 /\ FirstOf(turn.map - 1, Parts)
  BY <1>2 DEF KeepsUp, TakeEnd
<1>6. KeepsUp'
  BY <1>1, <1>5 DEF KeepsUp
<1>7. MapIsWhole'
  <2> SUFFICES ASSUME given'.map # 0, given'.inOrder
               PROVE  given'.parts =
                        [i \in 1..Parts |-> [map |-> given'.map, part |-> i]]
    BY DEF MapIsWhole
  <2>0. given' = [map |-> pendingMap.map, parts |-> pendingMap.parts,
                  inOrder |-> ~behind]
    BY <1>3 DEF NothingGiven
  <2>1. given'.map = pendingMap.map /\ given'.parts = pendingMap.parts /\ ~behind
    BY <2>0
  <2>2. Len(pendingMap.parts) = Parts
    BY <1>5, <2>1 DEF FirstOf, NavTypeOK, NavMaps
  <2>3. \A i \in 1..Parts :
          pendingMap.parts[i] = [map |-> pendingMap.map, part |-> i]
    BY <1>5, <2>1, <2>2 DEF FirstOf
  <2>4. pendingMap.parts = [i \in 1..Parts |-> pendingMap.parts[i]]
    BY <2>2 DEF NavTypeOK, NavMaps
  <2> QED
    BY <2>1, <2>3, <2>4
<1> QED
  BY <1>4, <1>6, <1>7

(* Every reachable state of a map feed: its types, that all that waits is   *)
(* of one kind and continues what it has unless it is behind, and that what *)
(* it gave in order is whole.                                               *)
THEOREM NavInvariant == NavSpec => []NavInv
<1>1. NavInit => NavInv
  BY NavInitInv
<1>2. NavInv /\ [NavNext]_navVars => NavInv'
  <2> SUFFICES ASSUME NavInv, [NavNext]_navVars PROVE NavInv'
    OBVIOUS
  <2>1. CASE UNCHANGED navVars
    BY <2>1 DEF navVars, NavInv, NavTypeOK, KeepsUp, MapIsWhole, FirstOf
  <2> QED
    BY <2>1, StepSendsMap, StepGivesUp, StepTakeBegin, StepTakeQuads,
       StepTakeEnd DEF NavNext
<1> QED
  BY <1>1, <1>2, PTL DEF NavSpec

(* A map that is sent to the user is one whole map of the engine, unless    *)
(* the feed was behind: for maps of any length and channels of any size.    *)
THEOREM MapsAreWhole == NavSpec => []MapIsWhole
<1>1. NavInv => MapIsWhole
  BY DEF NavInv
<1> QED
  BY <1>1, NavInvariant, PTL

-----------------------------------------------------------------------------
(* BEHAVIOR CONTROL (BehaviorControl).                                      *)

(* The deferred release comes before the close of done: once the loop can   *)
(* see done, the connection has no control of the robot and cannot get it   *)
(* any more.                                                                *)
Free(c) == holder # c \/ c \in broken

ReleasedBeforeDone ==
  \A c \in Conns : rpcOf[c] = "BehaviorControl" /\ closedDone[c] => Free(c)

(* Only the pump of a call asks for control, and not after its release.     *)
PumpReleased ==
  \A c \in Conns :
    rpcOf[c] = "BehaviorControl" /\ pump[c] \in {"closing", "ended"} => Free(c)

DoneByPump ==
  \A c \in Conns :
    /\ closedDone[c] => pump[c] = "ended"
    /\ loop[c] = "idle" => pump[c] = "none"

(* An answer that waits for a connection's own loop is the newest one; if   *)
(* none waits, the user was told the newest.                                *)
WaitsFor(c) == answers[c].is # None /\ answers[c].is[1] = c

Informed ==
  \A c \in Conns :
    Controls(c) /\ loop[c] = "running" /\ answers[c].open
      => newest[c] = IF WaitsFor(c) THEN answers[c].is ELSE told[c]

(* A loop that does not run has heard nothing.                              *)
NothingHeard ==
  \A c \in Conns : loop[c] # "running" => newest[c] = None /\ told[c] = None

ControlInv ==
  /\ ControlTypeOK
  /\ Informed
  /\ NothingHeard
  /\ PumpReleased
  /\ DoneByPump

LEMMA ControlInitInv == ControlInit => ControlInv
<1> SUFFICES ASSUME ControlInit PROVE ControlInv
  OBVIOUS
<1>1. NotMade \in [open : BOOLEAN, is : Answered]
  BY DEF NotMade, Answered, None
<1>0. None \in Answered
  BY DEF Answered
<1>2. ControlTypeOK
  BY <1>0, <1>1, ControlAssumption DEF ControlInit, ControlTypeOK
<1>3. Informed /\ NothingHeard /\ PumpReleased /\ DoneByPump
  BY DEF ControlInit, Informed, NothingHeard, PumpReleased, DoneByPump
<1> QED
  BY <1>2, <1>3 DEF ControlInv

(* What a channel for answers may be changed to.                            *)
LEMMA AnswerTypes ==
  /\ None \in Answered
  /\ NotMade \in [open : BOOLEAN, is : Answered]
  /\ Opened \in [open : BOOLEAN, is : Answered]
  /\ \A b \in BOOLEAN :
       /\ [open |-> b, is |-> None] \in [open : BOOLEAN, is : Answered]
       /\ \A c \in Conns, n \in News :
            /\ <<c, n>> \in Answered
            /\ [open |-> b, is |-> <<c, n>>] \in [open : BOOLEAN, is : Answered]
BY DEF NotMade, Opened, Answered, None

(* A step that leaves control, the pumps and done alone.                    *)
LEMMA QuietStep ==
  ASSUME ControlInv, UNCHANGED <<rpcOf, pump, closedDone, holder, broken>>,
         \A d \in Conns : loop'[d] = "idle" => loop[d] = "idle"
  PROVE  PumpReleased' /\ DoneByPump'
BY DEF ControlInv, PumpReleased, DoneByPump, Free

(* A step that leaves answers and loops alone.                              *)
LEMMA SameAnswers ==
  ASSUME ControlInv, UNCHANGED <<rpcOf, loop, answers, newest, told>>
  PROVE  Informed' /\ NothingHeard'
BY DEF ControlInv, Informed, NothingHeard, WaitsFor, Controls

(* A loop begins or ends, having heard nothing.                             *)
LEMMA LoopChanges ==
  ASSUME ControlInv, NEW c \in Conns, rpcOf' = rpcOf,
         newest'[c] = None, told'[c] = None,
         answers'[c] = Opened \/ loop'[c] # "running",
         \A d \in Conns \ {c} : /\ loop'[d] = loop[d]
                                /\ answers'[d] = answers[d]
                                /\ newest'[d] = newest[d]
                                /\ told'[d] = told[d]
  PROVE  Informed' /\ NothingHeard'
<1>1. NothingHeard'
  BY DEF ControlInv, NothingHeard
<1>2. ASSUME NEW d \in Conns, Controls(d), loop'[d] = "running", answers'[d].open
      PROVE  newest'[d] = IF WaitsFor(d)' THEN answers'[d].is ELSE told'[d]
  <2>1. CASE d = c
    BY <1>2, <2>1 DEF Opened, WaitsFor
  <2>2. CASE d # c
    BY <1>2, <2>2 DEF ControlInv, Informed, WaitsFor
  <2> QED
    BY <2>1, <2>2
<1>3. Informed'
  BY <1>2 DEF Informed, Controls
<1> QED
  BY <1>1, <1>3

(* EngineAnswers gives some channels another value: what waits in one that  *)
(* stays open is the newest answer there is.                                *)
LEMMA StepEngineAnswers ==
  ASSUME ControlInv, NEW c \in Conns, NEW n \in News, EngineAnswers(c, n)
  PROVE  ControlInv'
<1> USE DEF ControlInv
<1>1. /\ UNCHANGED <<rpcOf, loop, pump, closedDone, requests, left, holder,
                     broken, told>>
      /\ newest' = [newest EXCEPT ![c] = IF loop[c] = "running" THEN <<c, n>> ELSE @]
  BY DEF EngineAnswers, Says
<1>2. answers' \in [Conns -> [open : BOOLEAN, is : Answered]]
  BY AnswerTypes DEF EngineAnswers, ControlTypeOK
<1>3. newest' \in [Conns -> Answered]
  BY <1>1, AnswerTypes DEF ControlTypeOK
<1>4. ControlTypeOK'
  BY <1>1, <1>2, <1>3 DEF ControlTypeOK
<1>5. NothingHeard'
  BY <1>1 DEF NothingHeard, ControlTypeOK
<1>6. ASSUME NEW d \in Conns, Controls(d), loop[d] = "running", answers'[d].open
      PROVE  newest'[d] = IF WaitsFor(d)' THEN answers'[d].is ELSE told[d]
  <2>1. answers'[d] = IF ~Listens(c, d) THEN answers[d]
                      ELSE IF answers[d].is = None
                      THEN [open |-> TRUE, is |-> <<c, n>>]
                      ELSE [open |-> FALSE, is |-> None]
    BY DEF EngineAnswers
  <2>2. answers[d].open
    BY <1>6, <2>1 DEF Listens
  <2>3. newest[d] = IF WaitsFor(d) THEN answers[d].is ELSE told[d]
    BY <1>6, <2>2 DEF Informed
  <2>4. <<c, n>> # None /\ <<c, n>>[1] = c
    BY DEF None
  <2>5. CASE d = c
    <3>1. Listens(c, d)
      BY <2>2, <2>5 DEF Listens
    <3>2. answers'[d].is = <<c, n>>
      BY <1>6, <2>1, <3>1
    <3> QED
      BY <1>1, <1>6, <2>4, <2>5, <3>2 DEF ControlTypeOK, WaitsFor
  <2>6. CASE d # c
    <3>1. newest'[d] = newest[d]
      BY <1>1, <2>6 DEF ControlTypeOK
    <3>2. CASE ~Listens(c, d)
      BY <2>1, <2>3, <3>1, <3>2 DEF WaitsFor
    <3>3. CASE Listens(c, d)
      <4>1. answers[d].is = None /\ answers'[d].is = <<c, n>>
        BY <1>6, <2>1, <3>3
      <4>2. ~WaitsFor(d) /\ ~WaitsFor(d)'
        BY <2>4, <2>6, <4>1 DEF WaitsFor
      <4> QED
        BY <2>3, <3>1, <4>2
    <3> QED
      BY <3>2, <3>3
  <2> QED
    BY <2>5, <2>6
<1>7. Informed'
  BY <1>1, <1>6 DEF Informed, Controls
<1>8. PumpReleased' /\ DoneByPump'
  BY <1>1, QuietStep
<1> QED
  BY <1>4, <1>5, <1>7, <1>8

(* Calls begin and users leave: nobody's pump has ended by that, and only   *)
(* AssumeBehaviorControl takes control.                                     *)
LEMMA StepBegin ==
  ASSUME ControlInv, NEW c \in Conns, Start(c) \/ Assume(c) \/ UserLeaves(c)
  PROVE  ControlInv'
<1> USE DEF ControlInv
<1>1. CASE Start(c)
  <2>1. ControlTypeOK'
    BY <1>1, AnswerTypes DEF Start, ControlTypeOK
  <2>2. Informed' /\ NothingHeard'
    BY <1>1, LoopChanges DEF Start, NothingHeard, ControlTypeOK
  <2>3. PumpReleased'
    BY <1>1 DEF Start, PumpReleased, Free, ControlTypeOK
  <2>4. ~closedDone[c]
    <3>1. loop[c] = "idle"
      BY <1>1 DEF Start
    <3> QED
      BY <1>1, <3>1 DEF DoneByPump, Start
  <2>5. DoneByPump'
    BY <1>1, <2>4 DEF Start, DoneByPump, ControlTypeOK
  <2> QED
    BY <2>1, <2>2, <2>3, <2>5
<1>2. CASE Assume(c)
  <2>1. rpcOf[c] = "AssumeBehaviorControl"
    BY <1>2 DEF Assume, HasPump
  <2>2. ControlTypeOK'
    <3>1. loop' \in [Conns -> {"idle", "running", "returned"}]
          /\ holder' \in Conns \union {nobody}
      BY <1>2 DEF Assume, ControlTypeOK
    <3>2. answers' \in [Conns -> [open : BOOLEAN, is : Answered]]
      BY <1>2, AnswerTypes DEF Assume, ControlTypeOK
    <3> QED
      BY <1>2, <3>1, <3>2 DEF Assume, ControlTypeOK
  <2>5. loop' = [loop EXCEPT ![c] = loop'[c]] /\ loop'[c] \in {"running", "returned"}
    BY <1>2 DEF Assume, ControlTypeOK
  <2>6. answers' = [answers EXCEPT ![c] =
                      IF loop'[c] = "running" THEN Opened ELSE NotMade]
    BY <1>2 DEF Assume
  <2>7. Informed' /\ NothingHeard'
    BY <1>2, <2>5, <2>6, LoopChanges DEF Assume, NothingHeard, ControlTypeOK
  <2>3. DoneByPump'
    BY <1>2 DEF Assume, DoneByPump, ControlTypeOK
  <2>4. PumpReleased'
    BY <1>2, <2>1 DEF Assume, PumpReleased, Free
  <2> QED
    BY <2>2, <2>3, <2>4, <2>7
<1>3. CASE UserLeaves(c)
  <2>1. ControlTypeOK'
    BY <1>3 DEF UserLeaves, ControlTypeOK
  <2>2. Informed' /\ NothingHeard' /\ PumpReleased' /\ DoneByPump'
    BY <1>3, QuietStep, SameAnswers DEF UserLeaves
  <2> QED
    BY <2>1, <2>2
<1> QED
  BY <1>1, <1>2, <1>3

(* The pump.                                                                *)
LEMMA StepPump ==
  ASSUME ControlInv, NEW c \in Conns, RecvRequest(c) \/ PumpEnds(c)
  PROVE  ControlInv'
<1> USE DEF ControlInv
<1>1. CASE RecvRequest(c)
  <2>1. ControlTypeOK'
    <3>1. requests[c] + 1 \in Nat
      BY DEF ControlTypeOK
    <3>2. requests' \in [Conns -> Nat]
      BY <1>1, <3>1 DEF RecvRequest, ControlTypeOK
    <3>3. pump' \in [Conns -> {"none", "receiving", "writing", "ending",
                              "closing", "ended"}]
      BY <1>1 DEF RecvRequest, ControlTypeOK
    <3> QED
      BY <1>1, <3>2, <3>3 DEF RecvRequest, ControlTypeOK
  <2>2. Informed' /\ NothingHeard'
    BY <1>1, SameAnswers DEF RecvRequest
  <2>3. PumpReleased' /\ DoneByPump'
    BY <1>1 DEF RecvRequest, PumpReleased, DoneByPump, Free, ControlTypeOK
  <2> QED
    BY <2>1, <2>2, <2>3
<1>2. CASE Forward(c)
  <2>1. ControlTypeOK'
    BY <1>2 DEF Forward, Release, ControlTypeOK
  <2>2. Informed' /\ NothingHeard'
    BY <1>2, SameAnswers DEF Forward
  <2>3. pump[c] = "writing" /\ pump'[c] \in {"receiving", "ending"}
    BY <1>2 DEF Forward, ControlTypeOK
  <2>4. PumpReleased'
    <3> SUFFICES ASSUME NEW d \in Conns, rpcOf'[d] = "BehaviorControl",
                        pump'[d] \in {"closing", "ended"}
                 PROVE  Free(d)'
      BY DEF PumpReleased
    <3>1. d # c
      BY <2>3
    <3>2. pump[d] \in {"closing", "ended"} /\ rpcOf[d] = "BehaviorControl"
      BY <1>2, <3>1 DEF Forward, ControlTypeOK
    <3>3. Free(d)
      BY <3>2 DEF PumpReleased
    <3>4. holder' \in {c, nobody, holder} /\ d # nobody
      BY <1>2, ControlAssumption DEF Forward, Release
    <3> QED
      BY <1>2, <3>1, <3>3, <3>4 DEF Free, Forward
  <2>5. DoneByPump'
    BY <1>2 DEF Forward, DoneByPump, ControlTypeOK
  <2> QED
    BY <2>1, <2>2, <2>4, <2>5
<1>3. CASE End(c)
  <2>1. ControlTypeOK'
    BY <1>3 DEF End, Release, ControlTypeOK
  <2>2. Informed' /\ NothingHeard'
    BY <1>3, SameAnswers DEF End
  <2>3. PumpReleased'
    <3> SUFFICES ASSUME NEW d \in Conns, rpcOf'[d] = "BehaviorControl",
                        pump'[d] \in {"closing", "ended"}
                 PROVE  Free(d)'
      BY DEF PumpReleased
    <3>1. d # nobody /\ rpcOf[d] = "BehaviorControl"
      BY <1>3, ControlAssumption DEF End
    <3>2. CASE d = c
      <4>1. Controls(c)
        BY <3>1, <3>2 DEF Controls
      <4> QED
        BY <1>3, <3>1, <3>2, <4>1 DEF End, Release, Free
    <3>3. CASE d # c
      <4>1. Free(d)
        BY <1>3, <3>1, <3>3 DEF End, PumpReleased, ControlTypeOK
      <4>2. holder' \in {holder, nobody} /\ broken \subseteq broken'
        BY <1>3 DEF End, Release
      <4> QED
        BY <3>1, <4>1, <4>2 DEF Free
    <3> QED
      BY <3>2, <3>3
  <2>4. DoneByPump'
    BY <1>3 DEF End, DoneByPump, ControlTypeOK
  <2> QED
    BY <2>1, <2>2, <2>3, <2>4
<1>4. CASE CloseDone(c)
  <2>1. ControlTypeOK'
    BY <1>4 DEF CloseDone, ControlTypeOK
  <2>2. Informed' /\ NothingHeard'
    BY <1>4, SameAnswers DEF CloseDone
  <2>3. PumpReleased' /\ DoneByPump'
    BY <1>4 DEF CloseDone, PumpReleased, DoneByPump, Free, ControlTypeOK
  <2> QED
    BY <2>1, <2>2, <2>3
<1> QED
  BY <1>1, <1>2, <1>3, <1>4 DEF PumpEnds

(* The loop.                                                                *)
LEMMA StepLoop ==
  ASSUME ControlInv, NEW c \in Conns,
         LoopDone(c) \/ LoopFails(c) \/ LoopAnswers(c) \/ LoopPings(c)
  PROVE  ControlInv'
<1> USE DEF ControlInv
<1>1. CASE ReturnLoop(c) /\ UNCHANGED <<rpcOf, pump, closedDone, requests, left,
                                         holder, broken>>
  <2>1. ControlTypeOK'
    BY <1>1, AnswerTypes DEF ReturnLoop, ControlTypeOK
  <2>2. PumpReleased' /\ DoneByPump'
    BY <1>1, QuietStep DEF ReturnLoop, ControlTypeOK
  <2>3. Informed' /\ NothingHeard'
    BY <1>1, LoopChanges DEF ReturnLoop, ControlTypeOK
  <2> QED
    BY <2>1, <2>2, <2>3
<1>2. CASE LoopAnswers(c) /\ ~IsFor(c, answers[c].is[1])
  <2>1. /\ answers' = [answers EXCEPT ![c].is = None]
        /\ UNCHANGED <<rpcOf, loop, pump, closedDone, requests, left, holder,
                       broken, newest, told>>
    BY <1>2 DEF LoopAnswers
  <2>2. ControlTypeOK'
    BY <2>1, AnswerTypes DEF ControlTypeOK
  <2>3. PumpReleased' /\ DoneByPump'
    BY <2>1, QuietStep
  <2>4. NothingHeard'
    BY <2>1 DEF NothingHeard
  <2>5. ~WaitsFor(c) /\ ~WaitsFor(c)'
    BY <1>2, <2>1 DEF WaitsFor, IsFor, ControlTypeOK
  <2>6. Informed'
    BY <2>1, <2>5 DEF Informed, WaitsFor, Controls, ControlTypeOK
  <2> QED
    BY <2>2, <2>3, <2>4, <2>6
<1>3. CASE LoopAnswers(c) /\ IsFor(c, answers[c].is[1]) /\ ~left[c]
  <2>1. /\ answers' = [answers EXCEPT ![c].is = None]
        /\ told' = [told EXCEPT ![c] = answers[c].is]
        /\ answers[c].is # None /\ loop[c] = "running"
        /\ UNCHANGED <<rpcOf, loop, pump, closedDone, requests, left, holder,
                       broken, newest>>
    BY <1>3 DEF LoopAnswers
  <2>2. ControlTypeOK'
    BY <2>1, AnswerTypes DEF ControlTypeOK
  <2>3. PumpReleased' /\ DoneByPump'
    BY <2>1, QuietStep
  <2>4. NothingHeard'
    BY <2>1 DEF NothingHeard, ControlTypeOK
  <2>5. Controls(c) => WaitsFor(c)
    BY <1>3, <2>1 DEF Controls, IsFor, WaitsFor
  <2>6. ~WaitsFor(c)' /\ told'[c] = answers[c].is
    BY <2>1 DEF WaitsFor, ControlTypeOK
  <2>7. Informed'
    <3> SUFFICES ASSUME NEW d \in Conns, Controls(d), loop[d] = "running",
                        answers'[d].open
                 PROVE  newest[d] = IF WaitsFor(d)' THEN answers'[d].is ELSE told'[d]
      BY <2>1 DEF Informed, Controls
    <3>1. answers[d].open /\ answers[d] \in [open : BOOLEAN, is : Answered]
      BY <2>1 DEF ControlTypeOK
    <3>2. CASE d = c
      BY <2>5, <2>6, <3>1, <3>2 DEF Informed
    <3>3. CASE d # c
      BY <2>1, <3>1, <3>3 DEF Informed, WaitsFor, ControlTypeOK
    <3> QED
      BY <3>2, <3>3
  <2> QED
    BY <2>2, <2>3, <2>4, <2>7
<1>4. LoopDone(c) \/ LoopFails(c) \/ LoopPings(c)
      \/ (LoopAnswers(c) /\ IsFor(c, answers[c].is[1]) /\ left[c])
      => ReturnLoop(c) /\ UNCHANGED <<rpcOf, pump, closedDone, requests, left,
                                      holder, broken>>
  BY DEF LoopDone, LoopFails, LoopPings, LoopAnswers
<1> QED
  BY <1>1, <1>2, <1>3, <1>4

LEMMA ControlStepInv == ControlInv /\ [ControlNext]_controlVars => ControlInv'
<1> SUFFICES ASSUME ControlInv, [ControlNext]_controlVars PROVE ControlInv'
  OBVIOUS
<1>1. CASE UNCHANGED controlVars
  BY <1>1 DEF controlVars, ControlInv, ControlTypeOK, Informed, NothingHeard,
              WaitsFor, PumpReleased, DoneByPump, Free, Controls
<1>2. CASE ControlNext
  BY <1>2, StepBegin, StepPump, StepLoop, StepEngineAnswers DEF ControlNext
<1> QED
  BY <1>1, <1>2

(* The state is well typed; what users were told or waits for them is the    *)
(* newest; what has released control does not take it again.                *)
THEOREM ControlInvariant == ControlSpec => []ControlInv
<1>1. ControlInit => ControlInv
  BY ControlInitInv
<1>2. ControlInv /\ [ControlNext]_controlVars => ControlInv'
  BY ControlStepInv
<1> QED
  BY <1>1, <1>2, PTL DEF ControlSpec

(* The state of the three RPCs is well typed.                               *)
THEOREM ControlTypeCorrect == ControlSpec => []ControlTypeOK
<1>1. ControlInv => ControlTypeOK
  BY DEF ControlInv
<1> QED
  BY <1>1, ControlInvariant, PTL

(* However many connections share the engine's answers, and a channel of    *)
(* one, a user who controls the robot misses no newest answer of its own    *)
(* while the call goes on.                                                  *)
THEOREM NothingIsMissed == ControlSpec => []KnowsLatest
<1>1. ControlInv => KnowsLatest
  BY DEF ControlInv, Informed, KnowsLatest
<1> QED
  BY <1>1, ControlInvariant, PTL

(* The safety half of ControlIsReleased: from the close of done on, the     *)
(* connection does not have control, unless the write of its release failed.*)
THEOREM ReleasedFirst == ControlSpec => []ReleasedBeforeDone
<1>1. ControlInv => ReleasedBeforeDone
  BY DEF ControlInv, PumpReleased, DoneByPump, ReleasedBeforeDone
<1> QED
  BY <1>1, ControlInvariant, PTL

-----------------------------------------------------------------------------
(* CALLS THAT WAIT FOR THE ENGINE (EngineCalls).                            *)

(* The state of the calls.                                                  *)
Answers == [from : Calls, last : BOOLEAN]
Codes ==
  {"none", "answered", "InvalidArgument", "refused", "error",
   "ERROR_UPDATE_IN_PROGRESS", "REQUEST_PROCESSING", "RESPONSE_RECEIVED",
   "NOT_FOUND", "Internal", "DeadlineExceeded"}
Results == [code : Codes, from : Calls]

CallTypeOK ==
  /\ rpc \in [Calls -> DOMAIN Handlers]
  /\ pc \in [Calls -> {"idle", "checked", "listening", "waiting", "lost",
                       "updating", "done"}]
  /\ chan \in [Calls -> {"none", "open", "closed"}]
  /\ box \in [Calls -> Seq(Answers)]
  /\ DOMAIN open \subseteq Calls
  /\ parts \in [Calls -> Nat]
  /\ result \in [Calls -> Results]

(* A call without a channel has nothing in it; one that writes or waits for *)
(* an answer has one.                                                       *)
ChannelsFit ==
  \A c \in Calls :
    /\ pc[c] \in {"idle", "checked", "done"} => chan[c] = "none"
    /\ chan[c] = "none" => box[c] = <<>>
    /\ chan[c] # "none" => Row(c).in # "none"
    /\ pc[c] \in {"listening", "waiting"} => chan[c] # "none"

(* What the engine owes is an answer of the kind its caller listens for.    *)
OwesTheirKind ==
  \A o \in DOMAIN open :
    /\ pc[o] \in {"waiting", "updating", "done"}
    /\ HeardAs(open[o]) = Key(o)

(* One call of a kind: who is registered for it, or still to be answered.   *)
Involved(c) == chan[c] = "open" \/ c \in DOMAIN open
AloneUnlessMixed ==
  \A c, d \in Calls :
    Involved(c) /\ Involved(d) /\ Key(c) = Key(d) /\ Key(c) \notin mixed
      => c = d

(* Such a call has heard nothing before it has asked, and nothing but       *)
(* answers to itself afterwards.                                            *)
HearsOwn ==
  \A c \in Calls : Key(c) \notin mixed =>
    /\ pc[c] = "listening" => chan[c] = "open" /\ box[c] = <<>>
    /\ \A i \in DOMAIN box[c] : box[c][i].from = c

NotYetReturned ==
  \A c \in Calls : pc[c] \notin {"updating", "done"} => result[c].from = c

(* Nobody waits in vain: a call that waits has its request with the engine, *)
(* the last answer to one in its channel, or a closed channel.              *)
HasLast(s) == \E i \in DOMAIN s : s[i].last
NobodyForgotten ==
  \A c \in Calls : pc[c] = "waiting" =>
    c \in DOMAIN open \/ HasLast(box[c]) \/ chan[c] = "closed"

CallInv ==
  /\ CallTypeOK /\ ChannelsFit /\ OwesTheirKind /\ AloneUnlessMixed
  /\ HearsOwn /\ NotYetReturned /\ AnswerIsOwn /\ NobodyForgotten

(* Nobody has a channel and the engine owes nothing at first.               *)
LEMMA CallInitInv == Init => CallInv
<1> SUFFICES ASSUME Init PROVE CallInv
  OBVIOUS
<1> USE DEF Init
<1>0. DOMAIN open = {}
  OBVIOUS
<1>1. CallTypeOK
  <2>1. rpc \in [Calls -> DOMAIN Handlers]
    BY CallsAssumption
  <2>2. result \in [Calls -> Results]
    BY DEF Results, Codes
  <2>3. box \in [Calls -> Seq(Answers)]
    OBVIOUS
  <2> QED
    BY <1>0, <2>1, <2>2, <2>3 DEF CallTypeOK
<1>2. ChannelsFit
  BY DEF ChannelsFit
<1>3. OwesTheirKind /\ AloneUnlessMixed
  BY <1>0 DEF OwesTheirKind, AloneUnlessMixed, Involved
<1>4. HearsOwn
  BY DEF HearsOwn
<1>5. NotYetReturned /\ AnswerIsOwn /\ NobodyForgotten
  BY DEF NotYetReturned, AnswerIsOwn, NobodyForgotten
<1> QED
  BY <1>1, <1>2, <1>3, <1>4, <1>5 DEF CallInv

-----------------------------------------------------------------------------
(* The steps of a handler.                                                  *)

(* A return leaves nothing behind, and its answer is its own unless calls   *)
(* were mixed. The request may still be with the engine.                    *)
LEMMA ReturnInv ==
  ASSUME CallInv, NEW c \in Calls, NEW status \in Codes, NEW from \in Calls,
         Return(c, status, from), Key(c) \notin mixed => from = c,
         UNCHANGED <<rpc, open, parts, mixed>>
  PROVE  CallInv'
<1> USE DEF CallInv
<1>1. /\ pc' = [pc EXCEPT ![c] = "done"]
      /\ result' = [result EXCEPT ![c] = [code |-> status, from |-> from]]
      /\ chan' = [chan EXCEPT ![c] = "none"]
      /\ box' = [box EXCEPT ![c] = <<>>]
  BY DEF Return
<1>2. \A d \in Calls : Key(d)' = Key(d) /\ Row(d)' = Row(d)
  BY DEF Key, Row
<1>3. CallTypeOK'
  <2>1. [code |-> status, from |-> from] \in Results
    BY DEF Results
  <2>2. <<>> \in Seq(Answers)
    OBVIOUS
  <2> QED
    BY <1>1, <2>1, <2>2 DEF CallTypeOK
<1>4. ChannelsFit'
  BY <1>1, <1>2 DEF ChannelsFit, CallTypeOK
<1>5. OwesTheirKind'
  BY <1>1, <1>2 DEF OwesTheirKind, CallTypeOK
<1>6. AloneUnlessMixed'
  BY <1>1, <1>2 DEF AloneUnlessMixed, Involved, CallTypeOK
<1>7. HearsOwn'
  BY <1>1, <1>2 DEF HearsOwn, CallTypeOK
<1>8. NotYetReturned' /\ AnswerIsOwn'
  BY <1>1, <1>2 DEF NotYetReturned, AnswerIsOwn, CallTypeOK, Results
<1>9. NobodyForgotten'
  BY <1>1 DEF NobodyForgotten, CallTypeOK
<1> QED
  BY <1>3, <1>4, <1>5, <1>6, <1>7, <1>8, <1>9

(* The ways out that answer with an error.                                  *)
LEMMA StepRefuse ==
  ASSUME CallInv, NEW c \in Calls,
         Refuse(c) \/ RefuseDefinition(c) \/ ReceiveClosed(c) \/ Timeout(c)
  PROVE  CallInv'
<1>1. \E status \in Codes : Return(c, status, c)
  <2>1. \/ Return(c, "answered", c) \/ Return(c, "InvalidArgument", c)
        \/ Return(c, "refused", c) \/ Return(c, "Internal", c)
        \/ Return(c, "DeadlineExceeded", c)
    BY DEF Refuse, RefuseDefinition, ReceiveClosed, Timeout
  <2> QED
    BY <2>1 DEF Codes
<1>2. UNCHANGED <<rpc, open, parts, mixed>>
  BY DEF Refuse, RefuseDefinition, ReceiveClosed, Timeout
<1> QED
  BY <1>1, <1>2, ReturnInv

(* A step that changes the place of a call only, to one where nothing more  *)
(* is demanded of it.                                                       *)
LEMMA MoveInv ==
  ASSUME CallInv, NEW c \in Calls, NEW p \in {"checked", "lost"},
         pc[c] \in {"idle", "listening"}, p = "checked" => pc[c] = "idle",
         c \notin DOMAIN open,
         pc' = [pc EXCEPT ![c] = p],
         UNCHANGED <<rpc, chan, box, open, parts, mixed, result>>
  PROVE  CallInv'
<1> USE DEF CallInv
<1>1. \A d \in Calls : Key(d)' = Key(d) /\ Row(d)' = Row(d)
  BY DEF Key, Row
<1>2. CallTypeOK'
  BY DEF CallTypeOK
<1>3. ChannelsFit'
  BY <1>1 DEF ChannelsFit, CallTypeOK
<1>4. OwesTheirKind' /\ AloneUnlessMixed'
  BY <1>1 DEF OwesTheirKind, AloneUnlessMixed, Involved, CallTypeOK
<1>5. HearsOwn'
  BY <1>1 DEF HearsOwn, CallTypeOK
<1>6. NotYetReturned' /\ AnswerIsOwn' /\ NobodyForgotten'
  BY <1>1 DEF NotYetReturned, AnswerIsOwn, NobodyForgotten, CallTypeOK
<1> QED
  BY <1>2, <1>3, <1>4, <1>5, <1>6

(* A call whose request the engine does not have yet.                       *)
LEMMA NotAskedYet ==
  ASSUME CallInv, NEW c \in Calls, pc[c] \in {"idle", "checked", "listening"}
  PROVE  c \notin DOMAIN open
BY DEF CallInv, OwesTheirKind

LEMMA StepCheckUnique ==
  ASSUME CallInv, NEW c \in Calls, CheckUnique(c)
  PROVE  CallInv'
<1>1. CASE Return(c, "ERROR_UPDATE_IN_PROGRESS", c)
  BY <1>1, ReturnInv DEF CheckUnique, Codes
<1>2. CASE pc' = [pc EXCEPT ![c] = "checked"] /\ UNCHANGED <<chan, box, result>>
  BY <1>2, MoveInv, NotAskedYet DEF CheckUnique
<1> QED
  BY <1>1, <1>2 DEF CheckUnique

(* Who makes a channel is alone with its kind, or the kind is mixed now.    *)
LEMMA StepCreateChannel ==
  ASSUME CallInv, NEW c \in Calls, CreateChannel(c)
  PROVE  CallInv'
<1> USE DEF CallInv
<1>0. pc[c] \in {"idle", "checked"} /\ c \notin DOMAIN open
  BY NotAskedYet DEF CreateChannel
<1>1. /\ pc' = [pc EXCEPT ![c] = "listening"]
      /\ chan' = [chan EXCEPT ![c] = "open"]
      /\ UNCHANGED <<rpc, box, open, parts, result>>
      /\ Row(c).in # "none"
  BY DEF CreateChannel
<1>2. \A d \in Calls : Key(d)' = Key(d) /\ Row(d)' = Row(d)
  BY <1>1 DEF Key, Row
<1>3. mixed \subseteq mixed'
  BY DEF CreateChannel
<1>4. chan[c] = "none" /\ box[c] = <<>>
  BY <1>0 DEF ChannelsFit
<1>5. CallTypeOK'
  BY <1>1 DEF CallTypeOK
<1>6. ChannelsFit'
  BY <1>1, <1>2 DEF ChannelsFit, CallTypeOK
<1>7. OwesTheirKind'
  BY <1>0, <1>1, <1>2 DEF OwesTheirKind, CallTypeOK
<1>8. AloneUnlessMixed'
  <2> SUFFICES ASSUME NEW d \in Calls, NEW e \in Calls,
                      Involved(d)', Involved(e)', Key(d) = Key(e),
                      Key(d) \notin mixed'
               PROVE  d = e
    BY <1>2 DEF AloneUnlessMixed
  <2>1. ASSUME NEW g \in Calls, g # c, Involved(g)', Key(g) = Key(c)
        PROVE  Key(c) \in mixed'
    <3>1. Involved(g)
      BY <1>1, <2>1 DEF Involved, CallTypeOK
    <3>2. g \in Registered(Key(c)) \/ g \in Owed(Key(c))
      BY <2>1, <3>1 DEF Involved, Registered, Owed
    <3> QED
      BY <3>2 DEF CreateChannel
  <2>2. CASE d = c \/ e = c
    BY <2>1, <2>2
  <2>3. CASE d # c /\ e # c
    <3>1. Involved(d) /\ Involved(e)
      BY <1>1, <2>3 DEF Involved, CallTypeOK
    <3> QED
      BY <1>3, <3>1 DEF AloneUnlessMixed
  <2> QED
    BY <2>2, <2>3
<1>9. HearsOwn'
  BY <1>1, <1>2, <1>3, <1>4 DEF HearsOwn, CallTypeOK
<1>10. NotYetReturned' /\ AnswerIsOwn' /\ NobodyForgotten'
  BY <1>0, <1>1, <1>2, <1>3
  DEF NotYetReturned, AnswerIsOwn, NobodyForgotten, CallTypeOK
<1> QED
  BY <1>5, <1>6, <1>7, <1>8, <1>9, <1>10

(* The request reaches the engine. Its caller was alone with its channel,   *)
(* or the kind is mixed.                                                    *)
LEMMA StepWrite ==
  ASSUME CallInv, NEW c \in Calls, Write(c)
  PROVE  CallInv'
<1> USE DEF CallInv
<1> DEFINE r == Row(c)
           q == Asked(r)
<1>0. /\ rpc[c] \in DOMAIN Handlers /\ r = Handlers[rpc[c]]
      /\ r.out # "nil"
      /\ pc[c] = IF r.in = "none" THEN "idle" ELSE "listening"
      /\ c \notin DOMAIN open
  BY NotAskedYet DEF Write, ReadyToWrite, CallTypeOK, Row
<1>1. /\ r.wait # "no" => q \in DOMAIN Reply
      /\ q \in DOMAIN Reply => r.in # "none" /\ HeardAs(Reply[q]) = Key(c)
  BY <1>0, AnswersFit DEF Key
<1>2. \A d \in Calls : Key(d)' = Key(d) /\ Row(d)' = Row(d)
  BY DEF Write, Key, Row
<1>3. UNCHANGED <<rpc, parts, mixed>>
  BY DEF Write
<1>4. \/ q \notin DOMAIN Reply /\ open' = open
      \/ /\ q \in DOMAIN Reply
         /\ DOMAIN open' = DOMAIN open \union {c}
         /\ open'[c] = Reply[q]
         /\ \A o \in DOMAIN open : open'[o] = open[o]
  BY <1>0 DEF Write
<1>5. \/ Return(c, "REQUEST_PROCESSING", c)
      \/ /\ r.wait # "no"
         /\ pc' = [pc EXCEPT ![c] = "waiting"]
         /\ UNCHANGED <<chan, box, result>>
  BY DEF Write
<1> HIDE DEF r, q
<1>6. pc' = [pc EXCEPT ![c] = "waiting"] \/ pc' = [pc EXCEPT ![c] = "done"]
  BY <1>5 DEF Return
<1>7. \A d \in Calls : d # c =>
        pc'[d] = pc[d] /\ chan'[d] = chan[d] /\ box'[d] = box[d]
        /\ result'[d] = result[d]
  BY <1>5 DEF Return, CallTypeOK
<1>8. CallTypeOK'
  <2>1. "REQUEST_PROCESSING" \in Codes
    BY DEF Codes
  <2>2. DOMAIN open' \subseteq Calls
    BY <1>4 DEF CallTypeOK
  <2>3. CASE Return(c, "REQUEST_PROCESSING", c)
    BY <1>3, <2>1, <2>2, <2>3 DEF CallTypeOK, Return, Results
  <2>4. CASE pc' = [pc EXCEPT ![c] = "waiting"] /\ UNCHANGED <<chan, box, result>>
    BY <1>3, <2>2, <2>4 DEF CallTypeOK
  <2> QED
    BY <1>5, <2>3, <2>4
<1>9. ChannelsFit'
  <2>1. r.wait # "no" => chan[c] # "none"
    BY <1>0, <1>1 DEF ChannelsFit
  <2>2. CASE Return(c, "REQUEST_PROCESSING", c)
    BY <1>2, <2>2 DEF ChannelsFit, CallTypeOK, Return
  <2>3. CASE r.wait # "no" /\ pc' = [pc EXCEPT ![c] = "waiting"]
             /\ UNCHANGED <<chan, box, result>>
    BY <1>2, <2>1, <2>3 DEF ChannelsFit, CallTypeOK
  <2> QED
    BY <1>5, <2>2, <2>3
<1>10. OwesTheirKind'
  <2> SUFFICES ASSUME NEW o \in DOMAIN open'
               PROVE  /\ pc'[o] \in {"waiting", "updating", "done"}
                      /\ HeardAs(open'[o]) = Key(o)
    BY <1>2, <1>8 DEF OwesTheirKind, CallTypeOK
  <2>1. CASE o = c
    BY <1>0, <1>1, <1>4, <1>6, <2>1 DEF CallTypeOK
  <2>2. CASE o # c
    BY <1>4, <1>7, <2>2 DEF OwesTheirKind, CallTypeOK
  <2> QED
    BY <2>1, <2>2
<1>11. AloneUnlessMixed'
  <2>1. ASSUME NEW d \in Calls, Involved(d)', Key(d) \notin mixed
        PROVE  Involved(d)
    <3>1. CASE d = c
      <4>1. CASE q \in DOMAIN Reply
        <5>1. pc[c] = "listening"
          BY <1>0, <1>1, <4>1
        <5> QED
          BY <2>1, <3>1, <5>1 DEF HearsOwn, Involved
      <4>2. CASE q \notin DOMAIN Reply
        BY <1>4, <1>5, <2>1, <3>1, <4>2 DEF Involved, Return, CallTypeOK
      <4> QED
        BY <4>1, <4>2
    <3>2. CASE d # c
      BY <1>4, <1>7, <2>1, <3>2 DEF Involved
    <3> QED
      BY <3>1, <3>2
  <2> QED
    BY <1>2, <1>3, <2>1 DEF AloneUnlessMixed
<1>12. HearsOwn'
  <2>1. CASE Return(c, "REQUEST_PROCESSING", c)
    BY <1>2, <1>3, <2>1 DEF HearsOwn, CallTypeOK, Return
  <2>2. CASE pc' = [pc EXCEPT ![c] = "waiting"] /\ UNCHANGED <<chan, box, result>>
    BY <1>2, <1>3, <2>2 DEF HearsOwn, CallTypeOK
  <2> QED
    BY <1>5, <2>1, <2>2
<1>13. NotYetReturned' /\ AnswerIsOwn'
  <2>0. result[c].from = c
    BY <1>0 DEF NotYetReturned
  <2>1. CASE Return(c, "REQUEST_PROCESSING", c)
    BY <1>2, <1>3, <2>1 DEF NotYetReturned, AnswerIsOwn, CallTypeOK, Return
  <2>2. CASE pc' = [pc EXCEPT ![c] = "waiting"] /\ UNCHANGED <<chan, box, result>>
    BY <1>2, <1>3, <2>0, <2>2 DEF NotYetReturned, AnswerIsOwn, CallTypeOK
  <2> QED
    BY <1>5, <2>1, <2>2
<1>14. NobodyForgotten'
  <2> SUFFICES ASSUME NEW d \in Calls, pc'[d] = "waiting"
               PROVE  d \in DOMAIN open' \/ HasLast(box'[d]) \/ chan'[d] = "closed"
    BY DEF NobodyForgotten
  <2>1. CASE d = c
    <3>1. r.wait # "no"
      BY <1>5, <2>1 DEF Return, CallTypeOK
    <3> QED
      BY <1>1, <1>4, <2>1, <3>1
  <2>2. CASE d # c
    BY <1>4, <1>7, <2>2 DEF NobodyForgotten
  <2> QED
    BY <2>1, <2>2
<1> QED
  BY <1>8, <1>9, <1>10, <1>11, <1>12, <1>13, <1>14

LEMMA StepWriteFails ==
  ASSUME CallInv, NEW c \in Calls, WriteFails(c)
  PROVE  CallInv'
<1>1. pc[c] \in {"idle", "listening"}
  BY DEF WriteFails, ReadyToWrite
<1>2. \/ Return(c, "error", c) \/ Return(c, "REQUEST_PROCESSING", c)
      \/ pc' = [pc EXCEPT ![c] = "lost"] /\ UNCHANGED <<chan, box, result>>
  BY DEF WriteFails
<1>3. UNCHANGED <<rpc, open, parts, mixed>>
  BY DEF WriteFails
<1>4. CASE Return(c, "error", c) \/ Return(c, "REQUEST_PROCESSING", c)
  BY <1>3, <1>4, ReturnInv DEF Codes
<1>5. CASE pc' = [pc EXCEPT ![c] = "lost"] /\ UNCHANGED <<chan, box, result>>
  BY <1>1, <1>3, <1>5, MoveInv, NotAskedYet
<1> QED
  BY <1>2, <1>4, <1>5

(* What a handler takes from its channel was for it, unless its kind was    *)
(* mixed; what it takes and goes on after was not the last.                 *)
LEMMA StepReceive ==
  ASSUME CallInv, NEW c \in Calls, Receive(c)
  PROVE  CallInv'
<1> USE DEF CallInv
<1> DEFINE a == Head(box[c])
<1>0. pc[c] \in {"waiting", "lost"} /\ box[c] # <<>> /\ box[c] \in Seq(Answers)
  BY DEF Receive, CallTypeOK
<1>1. a \in Answers /\ a = box[c][1] /\ 1 \in DOMAIN box[c]
  BY <1>0
<1>2. Key(c) \notin mixed => a.from = c
  BY <1>1 DEF HearsOwn
<1>3. a.from \in Calls
  BY <1>1 DEF Answers
<1>4. UNCHANGED <<rpc, open, parts, mixed>>
  BY DEF Receive
<1>5. \/ Return(c, "RESPONSE_RECEIVED", a.from) \/ Return(c, "NOT_FOUND", a.from)
      \/ Return(c, "Internal", a.from)
      \/ Authorised(c, a.from)
      \/ /\ ~a.last
         /\ box' = [box EXCEPT ![c] = Tail(@)]
         /\ UNCHANGED <<pc, chan, result>>
  BY DEF Receive
<1> HIDE DEF a
<1>6. CASE \/ Return(c, "RESPONSE_RECEIVED", a.from)
           \/ Return(c, "NOT_FOUND", a.from) \/ Return(c, "Internal", a.from)
  BY <1>2, <1>3, <1>4, <1>6, ReturnInv DEF Codes
<1>7. CASE /\ box' = [box EXCEPT ![c] = Tail(@)] /\ UNCHANGED chan
           /\ \/ ~a.last /\ UNCHANGED <<pc, result>>
              \/ /\ pc' = [pc EXCEPT ![c] = "updating"]
                 /\ result' = [result EXCEPT ![c] =
                                  [code |-> "none", from |-> a.from]]
  <2>1. \A d \in Calls : Key(d)' = Key(d) /\ Row(d)' = Row(d)
    BY <1>4 DEF Key, Row
  <2>2. /\ Tail(box[c]) \in Seq(Answers)
        /\ DOMAIN box[c] = 1..Len(box[c]) /\ Len(box[c]) \in Nat
        /\ DOMAIN Tail(box[c]) = 1..(Len(box[c]) - 1)
        /\ \A i \in 1..(Len(box[c]) - 1) : Tail(box[c])[i] = box[c][i + 1]
    BY <1>0
  <2>3. \A d \in Calls :
          box'[d] = IF d = c THEN Tail(box[c]) ELSE box[d]
    BY <1>7 DEF CallTypeOK
  <2>10. \A d \in Calls :
           /\ pc'[d] = pc[d] \/ (d = c /\ pc'[d] = "updating")
           /\ \/ result'[d] = result[d]
              \/ d = c /\ result'[d] = [code |-> "none", from |-> a.from]
    BY <1>7 DEF CallTypeOK
  <2>4. CallTypeOK'
    <3>1. [code |-> "none", from |-> a.from] \in Results
      BY <1>3 DEF Results, Codes
    <3> QED
      BY <1>4, <1>7, <2>2, <3>1 DEF CallTypeOK
  <2>5. ChannelsFit'
    BY <1>0, <1>7, <2>1, <2>3, <2>10 DEF ChannelsFit
  <2>6. OwesTheirKind' /\ AloneUnlessMixed'
    <3>1. OwesTheirKind'
      BY <1>4, <2>1, <2>10 DEF OwesTheirKind, CallTypeOK
    <3>2. AloneUnlessMixed'
      BY <1>4, <1>7, <2>1 DEF AloneUnlessMixed, Involved
    <3> QED
      BY <3>1, <3>2
  <2>7. HearsOwn'
    <3>1. ASSUME NEW i \in 1..(Len(box[c]) - 1)
          PROVE  i + 1 \in DOMAIN box[c]
      BY <2>2
    <3>2. Key(c) \notin mixed =>
            \A i \in DOMAIN Tail(box[c]) : Tail(box[c])[i].from = c
      BY <2>2, <3>1 DEF HearsOwn
    <3>3. \A d \in Calls : pc'[d] = "listening" => pc[d] = "listening" /\ d # c
      BY <1>0, <2>10
    <3> QED
      BY <1>4, <1>7, <2>1, <2>3, <3>2, <3>3 DEF HearsOwn
  <2>8. NotYetReturned' /\ AnswerIsOwn'
    <3>2. \A d \in Calls : \/ result'[d].from = result[d].from
                           \/ d = c /\ result'[d].from = a.from
      BY <2>10
    <3>3. AnswerIsOwn'
      BY <1>2, <1>4, <2>1, <3>2 DEF AnswerIsOwn
    <3>4. NotYetReturned'
      <4>1. CASE UNCHANGED <<pc, result>>
        BY <4>1 DEF NotYetReturned
      <4>2. CASE pc' = [pc EXCEPT ![c] = "updating"]
        BY <2>10, <4>2 DEF NotYetReturned, CallTypeOK
      <4> QED
        BY <1>7, <4>1, <4>2
    <3> QED
      BY <3>3, <3>4
  <2>9. NobodyForgotten'
    <3>1. ASSUME ~a.last, HasLast(box[c]) PROVE HasLast(Tail(box[c]))
      <4>1. PICK i \in DOMAIN box[c] : box[c][i].last
        BY <3>1 DEF HasLast
      <4>2. i # 1
        BY <1>1, <3>1, <4>1
      <4>3. i - 1 \in DOMAIN Tail(box[c]) /\ Tail(box[c])[i - 1] = box[c][i]
        BY <2>2, <4>2
      <4> QED
        BY <4>1, <4>3 DEF HasLast
    <3> QED
      BY <1>4, <1>7, <2>3, <2>10, <3>1 DEF NobodyForgotten, CallTypeOK
  <2> QED
    BY <2>4, <2>5, <2>6, <2>7, <2>8, <2>9
<1> QED
  BY <1>5, <1>6, <1>7 DEF Authorised

(* UserAuthentication returns the answer that it had before the tokens.     *)
LEMMA StepTokensCome ==
  ASSUME CallInv, NEW c \in Calls, TokensCome(c)
  PROVE  CallInv'
<1>1. Return(c, "RESPONSE_RECEIVED", result[c].from)
      /\ UNCHANGED <<rpc, open, parts, mixed>>
  BY DEF TokensCome
<1>2. result[c].from \in Calls /\ (Key(c) \notin mixed => result[c].from = c)
  BY DEF CallInv, CallTypeOK, Results, AnswerIsOwn
<1> QED
  BY <1>1, <1>2, ReturnInv DEF Codes

-----------------------------------------------------------------------------
(* The engine's answer goes to who listens for the kind of its caller: to   *)
(* the caller alone, unless the kind is mixed.                              *)
LEMMA StepAnswer ==
  ASSUME CallInv, NEW o \in Calls, NEW last \in BOOLEAN, Answer(o, last)
  PROVE  CallInv'
<1> USE DEF CallInv
<1> DEFINE to == ListenersFor(open[o])
           a == [from |-> o, last |-> last]
           full == {c \in to : Len(box[c]) = Row(c).room}
<1>0. o \in DOMAIN open /\ UNCHANGED <<rpc, pc, mixed, result>>
  BY DEF Answer
<1>1. to = {c \in Calls : chan[c] = "open" /\ Key(c) = Key(o)}
  BY <1>0 DEF ListenersFor, Registered, OwesTheirKind
<1>2. /\ box' = [c \in Calls |->
                   IF c \in full THEN Tail(box[c])
                   ELSE IF c \in to THEN Append(box[c], a) ELSE box[c]]
      /\ chan' = [c \in Calls |-> IF c \in full THEN "closed" ELSE chan[c]]
  BY DEF Answer, Send
<1>3. \A d \in Calls : Key(d)' = Key(d) /\ Row(d)' = Row(d)
  BY <1>0 DEF Key, Row
<1>4. \A c \in full : box[c] \in Seq(Answers) /\ box[c] # <<>>
  <2> TAKE c \in full
  <2>1. c \in Calls /\ chan[c] = "open"
    BY <1>1
  <2>2. Row(c).in # "none" /\ rpc[c] \in DOMAIN Handlers
    BY <2>1 DEF ChannelsFit, CallTypeOK
  <2>3. Row(c).room \in Nat \ {0}
    BY <2>2, AnswersFit DEF Row
  <2> QED
    BY <2>1, <2>3 DEF CallTypeOK
<1>5. full \subseteq to /\ to \subseteq Calls
  BY <1>1
<1>6. a \in Answers /\ a.from = o /\ a.last = last
  BY DEF Answers
<1>7. \/ last /\ open' = [c \in DOMAIN open \ {o} |-> open[c]] /\ parts' = parts
      \/ ~last /\ open' = open /\ parts' = [parts EXCEPT ![o] = @ + 1]
  BY DEF Answer
<1>8. /\ DOMAIN open' \subseteq DOMAIN open
      /\ \A c \in DOMAIN open' : open'[c] = open[c]
      /\ \A c \in DOMAIN open : c # o \/ ~last => c \in DOMAIN open'
  BY <1>7
<1>9. \A c \in to : Key(c) \notin mixed => c = o
  BY <1>0, <1>1 DEF AloneUnlessMixed, Involved, CallTypeOK
<1> HIDE DEF to, a, full
<1>10. CallTypeOK'
  <2>1. \A c \in Calls : Append(box[c], a) \in Seq(Answers)
    BY <1>6 DEF CallTypeOK
  <2>2. \A c \in full : Tail(box[c]) \in Seq(Answers)
    BY <1>4
  <2>3. box' \in [Calls -> Seq(Answers)]
    BY <1>2, <2>1, <2>2 DEF CallTypeOK
  <2>4. chan' \in [Calls -> {"none", "open", "closed"}]
    BY <1>2 DEF CallTypeOK
  <2>5. parts' \in [Calls -> Nat]
    <3>1. parts \in [Calls -> Nat] /\ parts[o] + 1 \in Nat
      BY DEF CallTypeOK
    <3> QED
      BY <1>7, <3>1
  <2> QED
    BY <1>0, <1>8, <2>3, <2>4, <2>5 DEF CallTypeOK
<1>11. \A c \in Calls :
         /\ chan[c] = "none" <=> chan'[c] = "none"
         /\ chan'[c] = "open" => chan[c] = "open"
  BY <1>1, <1>2, <1>5 DEF CallTypeOK
<1>12. ChannelsFit'
  <2>1. \A c \in Calls : chan[c] = "none" => box'[c] = box[c]
    BY <1>1, <1>2, <1>5
  <2> QED
    BY <1>0, <1>3, <1>11, <2>1 DEF ChannelsFit
<1>13. OwesTheirKind'
  BY <1>0, <1>3, <1>8 DEF OwesTheirKind, CallTypeOK
<1>14. AloneUnlessMixed'
  BY <1>0, <1>3, <1>8, <1>11 DEF AloneUnlessMixed, Involved
<1>15. HearsOwn'
  <2> SUFFICES ASSUME NEW c \in Calls, Key(c) \notin mixed
               PROVE  /\ pc[c] = "listening" => chan'[c] = "open" /\ box'[c] = <<>>
                      /\ \A i \in DOMAIN box'[c] : box'[c][i].from = c
    BY <1>0, <1>3 DEF HearsOwn
  <2>1. CASE c \notin to
    BY <1>2, <1>5, <2>1 DEF HearsOwn
  <2>2. CASE c \in to
    <3>1. c = o /\ pc[c] # "listening"
      BY <1>0, <1>9, <2>2 DEF OwesTheirKind
    <3>2. box[c] \in Seq(Answers) /\ \A i \in DOMAIN box[c] : box[c][i].from = c
      BY DEF CallTypeOK, HearsOwn
    <3>3. CASE c \in full
      <4>1. box'[c] = Tail(box[c]) /\ box[c] # <<>>
        BY <1>2, <1>4, <3>3
      <4>2. ASSUME NEW i \in DOMAIN Tail(box[c])
            PROVE  i + 1 \in DOMAIN box[c] /\ Tail(box[c])[i] = box[c][i + 1]
        BY <3>2, <4>1
      <4> QED
        BY <3>1, <3>2, <4>1, <4>2
    <3>4. CASE c \notin full
      <4>1. box'[c] = Append(box[c], a)
        BY <1>2, <2>2, <3>4
      <4>2. ASSUME NEW i \in DOMAIN Append(box[c], a)
            PROVE  Append(box[c], a)[i].from = c
        <5>1. \/ i \in DOMAIN box[c] /\ Append(box[c], a)[i] = box[c][i]
              \/ Append(box[c], a)[i] = a
          BY <1>6, <3>2
        <5> QED
          BY <1>6, <3>1, <3>2, <5>1
      <4> QED
        BY <3>1, <4>1, <4>2
    <3> QED
      BY <3>3, <3>4
  <2> QED
    BY <2>1, <2>2
<1>16. NotYetReturned' /\ AnswerIsOwn'
  BY <1>0, <1>3 DEF NotYetReturned, AnswerIsOwn
<1>17. NobodyForgotten'
  <2> SUFFICES ASSUME NEW c \in Calls, pc[c] = "waiting"
               PROVE  c \in DOMAIN open' \/ HasLast(box'[c]) \/ chan'[c] = "closed"
    BY <1>0 DEF NobodyForgotten
  <2>1. CASE c \in full
    BY <1>2, <2>1
  <2>2. CASE c \notin to
    <3>1. box'[c] = box[c] /\ chan'[c] = chan[c]
      BY <1>2, <1>5, <2>2
    <3>2. CASE c = o
      <4>1. chan[c] # "none" /\ chan[c] # "open"
        BY <1>1, <2>2, <3>2 DEF ChannelsFit
      <4> QED
        BY <3>1, <4>1 DEF CallTypeOK
    <3>3. CASE c # o
      BY <1>8, <3>1, <3>3 DEF NobodyForgotten
    <3> QED
      BY <3>2, <3>3
  <2>3. CASE c \in to /\ c \notin full
    <3>1. box'[c] = Append(box[c], a) /\ chan'[c] = chan[c]
      BY <1>2, <1>5, <2>3
    <3>2. box[c] \in Seq(Answers)
      BY DEF CallTypeOK
    <3>3. HasLast(box[c]) => HasLast(Append(box[c], a))
      <4> SUFFICES ASSUME NEW i \in DOMAIN box[c], box[c][i].last
                   PROVE  HasLast(Append(box[c], a))
        BY DEF HasLast
      <4>1. i \in DOMAIN Append(box[c], a) /\ Append(box[c], a)[i] = box[c][i]
        BY <1>6, <3>2
      <4> QED
        BY <4>1 DEF HasLast
    <3>4. last => HasLast(Append(box[c], a))
      <4>1. Len(box[c]) + 1 \in DOMAIN Append(box[c], a)
            /\ Append(box[c], a)[Len(box[c]) + 1] = a
        BY <1>6, <3>2
      <4> QED
        BY <1>6, <4>1 DEF HasLast
    <3> QED
      BY <1>8, <3>1, <3>3, <3>4 DEF NobodyForgotten
  <2> QED
    BY <2>1, <2>2, <2>3
<1> QED
  BY <1>10, <1>12, <1>13, <1>14, <1>15, <1>16, <1>17

-----------------------------------------------------------------------------
(* Every step of a handler.                                                 *)
LEMMA CallStep1 ==
  ASSUME CallInv, NEW c \in Calls, HandlerStep(c) PROVE CallInv'
BY StepRefuse, StepCheckUnique, StepCreateChannel, StepWrite, StepWriteFails,
   StepReceive, StepTokensCome DEF HandlerStep

(* A step that changes nothing of the calls.                                *)
LEMMA CallStutter == ASSUME CallInv, UNCHANGED vars PROVE CallInv'
BY DEF CallInv, vars, CallTypeOK, ChannelsFit, OwesTheirKind, AloneUnlessMixed,
       Involved, HearsOwn, NotYetReturned, AnswerIsOwn, NobodyForgotten, Key, Row

(* Every reachable state of the calls: channels fit the place a handler is  *)
(* at, the engine owes answers of the kind their callers listen for, calls  *)
(* that share a kind are known to, answers reach their own callers          *)
(* otherwise, and whoever waits has its answer to come.                     *)
THEOREM CallInvariant == Spec => []CallInv
<1>1. Init => CallInv
  BY CallInitInv
<1>2. CallInv /\ [Next]_vars => CallInv'
  BY CallStep1, StepAnswer, CallStutter DEF Next
<1> QED
  BY <1>1, <1>2, PTL DEF Spec

-----------------------------------------------------------------------------
(* THE BLE PROXY (BleProxy), which calls the handlers above.                *)

(* The BLE proxy. A request that has not been served yet is the only one of *)
(* its call, and its call has not begun.                                    *)
ProxyTypeOK ==
  /\ inbox \in Seq(Messages)
  /\ ble \in [Calls -> {"none", "sent", "handling", "serving", "streaming",
                        "answered", "panicked"}]
  /\ DOMAIN path = Calls /\ DOMAIN reached = Calls

RequestsApart ==
  \A i \in DOMAIN inbox : inbox[i].kind = "SdkProxyRequest" =>
    /\ inbox[i].call \in Calls /\ ble[inbox[i].call] = "sent"
    /\ \A j \in DOMAIN inbox :
         inbox[j].kind = "SdkProxyRequest" /\ inbox[j].call = inbox[i].call
           => i = j

NotBegun == \A c \in Calls : ble[c] \in {"sent", "handling"} => pc[c] = "idle"

ProxyInv ==
  CallInv /\ ProxyTypeOK /\ RequestsApart /\ NotBegun

(* No request has been taken at first, and there is one of a call at most.  *)
LEMMA ProxyInitInv == ProxyInit => ProxyInv
<1> SUFFICES ASSUME ProxyInit PROVE ProxyInv
  OBVIOUS
<1>1. CallInv
  BY CallInitInv DEF ProxyInit
<1>2. inbox \in Seq(Messages)
      /\ \A i, j \in DOMAIN inbox :
            inbox[i].kind = "SdkProxyRequest" /\ inbox[j].kind = "SdkProxyRequest"
            /\ inbox[i].call = inbox[j].call => i = j
  BY ProxyAssumption DEF ProxyInit, Init
<1>3. ProxyTypeOK
  BY <1>2 DEF ProxyInit, ProxyTypeOK
<1>4. RequestsApart
  <2> SUFFICES ASSUME NEW i \in DOMAIN inbox, inbox[i].kind = "SdkProxyRequest"
               PROVE  inbox[i].call \in Calls /\ ble[inbox[i].call] = "sent"
    BY <1>2 DEF RequestsApart
  <2>1. inbox[i] \in Messages
    BY <1>2
  <2>2. inbox[i].call \in Calls
    BY <2>1 DEF Messages, ExternalConnectionRequest, ClientGuidRefreshRequest
  <2> QED
    BY <2>2 DEF ProxyInit
<1>5. NotBegun
  BY DEF ProxyInit, Init, NotBegun
<1> QED
  BY <1>1, <1>3, <1>4, <1>5 DEF ProxyInv

(* Another handler for a call that has not begun.                           *)
LEMMA HandlerChosen ==
  ASSUME CallInv, NEW c \in Calls, NEW h \in DOMAIN Handlers, pc[c] = "idle",
         rpc' = [rpc EXCEPT ![c] = h],
         UNCHANGED <<pc, chan, box, open, parts, mixed, result>>
  PROVE  CallInv'
<1> USE DEF CallInv
<1>1. \A d \in Calls : d # c => Key(d)' = Key(d) /\ Row(d)' = Row(d)
  BY DEF Key, Row, CallTypeOK
<1>2. c \notin DOMAIN open /\ chan[c] = "none" /\ box[c] = <<>>
      /\ result[c].from = c
  BY NotAskedYet DEF ChannelsFit, NotYetReturned
<1>3. CallTypeOK'
  BY DEF CallTypeOK
<1>4. ChannelsFit'
  BY <1>1, <1>2 DEF ChannelsFit
<1>5. OwesTheirKind'
  BY <1>1, <1>2 DEF OwesTheirKind, CallTypeOK
<1>6. AloneUnlessMixed'
  BY <1>1, <1>2 DEF AloneUnlessMixed, Involved
<1>7. HearsOwn'
  BY <1>1, <1>2 DEF HearsOwn
<1>8. NotYetReturned' /\ AnswerIsOwn' /\ NobodyForgotten'
  BY <1>1, <1>2 DEF NotYetReturned, AnswerIsOwn, NobodyForgotten
<1> QED
  BY <1>3, <1>4, <1>5, <1>6, <1>7, <1>8

(* A step of the loop: the first message is taken.                          *)
LEMMA FirstTaken ==
  ASSUME ProxyInv, inbox # <<>>, inbox' = Tail(inbox), UNCHANGED vars,
         UNCHANGED reached,
         \/ Head(inbox).kind # "SdkProxyRequest" /\ UNCHANGED <<ble, path>>
         \/ /\ Head(inbox).kind = "SdkProxyRequest"
            /\ ble' = [ble EXCEPT ![Head(inbox).call] = "handling"]
            /\ \E p : path' = [path EXCEPT ![Head(inbox).call] = p]
  PROVE  ProxyInv'
<1> USE DEF ProxyInv
<1>0. /\ inbox \in Seq(Messages) /\ Len(inbox) \in Nat \ {0}
      /\ DOMAIN inbox = 1..Len(inbox) /\ Head(inbox) = inbox[1]
      /\ Tail(inbox) \in Seq(Messages) /\ DOMAIN Tail(inbox) = 1..(Len(inbox) - 1)
      /\ \A i \in 1..(Len(inbox) - 1) : Tail(inbox)[i] = inbox[i + 1]
  BY DEF ProxyTypeOK
<1>1. CallInv'
  BY CallStutter
<1>2. ProxyTypeOK'
  BY <1>0 DEF ProxyTypeOK
<1>3. RequestsApart'
  <2> SUFFICES ASSUME NEW i \in DOMAIN inbox', inbox'[i].kind = "SdkProxyRequest"
               PROVE  /\ inbox'[i].call \in Calls /\ ble'[inbox'[i].call] = "sent"
                      /\ \A j \in DOMAIN inbox' :
                           inbox'[j].kind = "SdkProxyRequest"
                           /\ inbox'[j].call = inbox'[i].call => i = j
    BY DEF RequestsApart
  <2>1. i \in Nat /\ i + 1 \in DOMAIN inbox /\ inbox'[i] = inbox[i + 1] /\ i + 1 # 1
    BY <1>0
  <2>2. inbox[i + 1].call \in Calls /\ ble[inbox[i + 1].call] = "sent"
    BY <2>1 DEF RequestsApart
  <2>3. Head(inbox).kind = "SdkProxyRequest" => Head(inbox).call # inbox[i + 1].call
    BY <1>0, <2>1 DEF RequestsApart
  <2>4. ble'[inbox[i + 1].call] = "sent"
    BY <2>2, <2>3 DEF ProxyTypeOK
  <2>5. ASSUME NEW j \in DOMAIN inbox', inbox'[j].kind = "SdkProxyRequest",
               inbox'[j].call = inbox'[i].call
        PROVE  i = j
    <3>1. j \in Nat /\ j + 1 \in DOMAIN inbox /\ inbox'[j] = inbox[j + 1]
      BY <1>0
    <3>2. i + 1 = j + 1
      BY <2>1, <2>5, <3>1 DEF RequestsApart
    <3> QED
      BY <2>1, <3>1, <3>2
  <2> QED
    BY <2>1, <2>2, <2>4, <2>5
<1>4. NotBegun'
  <2>1. UNCHANGED pc
    BY DEF vars
  <2>2. Head(inbox).kind = "SdkProxyRequest" =>
          Head(inbox).call \in Calls /\ ble[Head(inbox).call] = "sent"
    BY <1>0 DEF RequestsApart
  <2> QED
    BY <2>1, <2>2 DEF NotBegun, ProxyTypeOK
<1> QED
  BY <1>1, <1>2, <1>3, <1>4

(* A step on a request's way after the loop has taken it.                   *)
LEMMA OnItsWay ==
  ASSUME ProxyInv, CallInv', NEW c \in Calls,
         ble[c] \in {"handling", "serving", "streaming"},
         NEW b \in {"serving", "streaming", "answered", "panicked"},
         ble' = [ble EXCEPT ![c] = b], UNCHANGED <<inbox, pc>>,
         DOMAIN path' = Calls, DOMAIN reached' = Calls
  PROVE  ProxyInv'
<1> USE DEF ProxyInv
<1>1. ProxyTypeOK'
  BY DEF ProxyTypeOK
<1>2. RequestsApart'
  BY DEF RequestsApart, ProxyTypeOK
<1>3. NotBegun'
  BY DEF NotBegun, ProxyTypeOK
<1> QED
  BY <1>1, <1>2, <1>3

(* A stub leads to rows of the table of handlers only.                      *)
LEMMA HandlersAreRows == \A m : HandlersOf(m) \subseteq DOMAIN Handlers
<1> TAKE m
<1>1. CASE m \in DOMAIN Handlers
  BY <1>1 DEF HandlersOf
<1>2. CASE m \notin DOMAIN Handlers /\ m \in DOMAIN Variants
  <2>1. HandlersOf(m) = Variants[m]
    BY <1>2 DEF HandlersOf
  <2> QED
    BY <1>2, <2>1, ProxyAssumption
<1>3. CASE m \notin DOMAIN Handlers /\ m \notin DOMAIN Variants
  BY <1>3 DEF HandlersOf
<1> QED
  BY <1>1, <1>2, <1>3

(* The goroutine of a request: refused, passed to a handler, answered.      *)
LEMMA StepServe ==
  ASSUME ProxyInv, NEW c \in Calls,
         PostNil(c) \/ Deny(c) \/ Serve(c) \/ Finish(c)
  PROVE  ProxyInv'
<1> USE DEF ProxyInv
<1>1. CASE PostNil(c) \/ Deny(c)
  <2>1. /\ UNCHANGED <<vars, inbox, path, reached>> /\ ble[c] = "handling"
        /\ \/ ble' = [ble EXCEPT ![c] = "answered"]
           \/ ble' = [ble EXCEPT ![c] = "panicked"]
    BY <1>1 DEF PostNil, Deny, WriteResponse
  <2>2. CallInv' /\ UNCHANGED pc
    BY <2>1, CallStutter DEF vars
  <2> QED
    BY <2>1, <2>2, OnItsWay DEF ProxyTypeOK
<1>2. CASE Finish(c)
  <2>1. UNCHANGED <<vars, inbox, path, reached>> /\ ble[c] \in {"serving", "streaming"}
        /\ ble' = [ble EXCEPT ![c] = "answered"]
    BY <1>2 DEF Finish, WriteResponse
  <2>2. CallInv' /\ UNCHANGED pc
    BY <2>1, CallStutter DEF vars
  <2> QED
    BY <2>1, <2>2, OnItsWay DEF ProxyTypeOK
<1>3. CASE Serve(c)
  <2>1. /\ ble[c] = "handling" /\ pc[c] = "idle"
        /\ UNCHANGED <<pc, chan, box, open, parts, mixed, result, inbox, path>>
    BY <1>3 DEF Serve, NotBegun
  <2>2. \/ rpc' = rpc
        \/ \E m : \E h \in HandlersOf(m) : rpc' = [rpc EXCEPT ![c] = h]
    BY <1>3 DEF Serve
  <2>3. \E b \in {"serving", "streaming", "answered"} : ble' = [ble EXCEPT ![c] = b]
    BY <1>3 DEF Serve, WriteResponse
  <2>5. DOMAIN path' = Calls /\ DOMAIN reached' = Calls
    BY <1>3 DEF Serve, ProxyTypeOK
  <2>4. CallInv'
    <3>1. CASE rpc' = rpc
      BY <2>1, <3>1, CallStutter DEF vars
    <3>2. CASE \E m : \E h \in HandlersOf(m) : rpc' = [rpc EXCEPT ![c] = h]
      <4>1. PICK h \in DOMAIN Handlers : rpc' = [rpc EXCEPT ![c] = h]
        BY <3>2, HandlersAreRows
      <4> QED
        BY <2>1, <4>1, HandlerChosen
    <3> QED
      BY <2>2, <3>1, <3>2
  <2> QED
    BY <2>1, <2>3, <2>4, <2>5, OnItsWay
<1> QED
  BY <1>1, <1>2, <1>3

(* A step of a call, or of the engine.                                      *)
LEMMA StepOfCalls ==
  ASSUME ProxyInv,
         \/ \E c \in Calls : CallStep(c)
         \/ \E o \in Calls, last \in BOOLEAN : AnswerStep(o, last)
  PROVE  ProxyInv'
<1> USE DEF ProxyInv
<1>1. UNCHANGED <<inbox, ble, path, reached>>
  BY DEF CallStep, AnswerStep, proxyVars
<1>2. CallInv'
  BY CallStep1, StepAnswer DEF CallStep, AnswerStep
<1>3. NotBegun'
  <2>1. ASSUME NEW d \in Calls, ble[d] \in {"sent", "handling"} PROVE pc'[d] = pc[d]
    <3>1. ASSUME NEW c \in Calls, CallStep(c) PROVE pc'[d] = pc[d]
      <4>1. d # c /\ HandlerStep(c)
        BY <2>1, <3>1 DEF CallStep
      <4>2. UNCHANGED pc \/ \E p : pc' = [pc EXCEPT ![c] = p]
        BY <4>1 DEF HandlerStep, Refuse, CheckUnique, CreateChannel,
           RefuseDefinition, Write, WriteFails, Receive, Authorised, TokensCome,
           ReceiveClosed, Timeout, Return
      <4> QED
        BY <4>1, <4>2 DEF CallTypeOK, CallInv
    <3>2. ASSUME NEW o \in Calls, NEW last \in BOOLEAN, AnswerStep(o, last)
          PROVE  pc'[d] = pc[d]
      BY <3>2 DEF AnswerStep, Answer
    <3> QED
      BY <3>1, <3>2
  <2> QED
    BY <1>1, <2>1 DEF NotBegun
<1>4. ProxyTypeOK' /\ RequestsApart'
  BY <1>1 DEF ProxyTypeOK, RequestsApart
<1> QED
  BY <1>2, <1>3, <1>4

(* Every step of the proxy and of the calls beside it.                      *)
LEMMA ProxyStepInv == ProxyInv /\ [ProxyNext]_allVars => ProxyInv'
<1> SUFFICES ASSUME ProxyInv, [ProxyNext]_allVars PROVE ProxyInv'
  OBVIOUS
<1>1. CASE Read
  BY <1>1, FirstTaken DEF Read, TakeProxy, TakeConnection, TakeRefresh
<1>2. CASE TokensUpdated \/ UNCHANGED allVars
  <2>1. UNCHANGED <<vars, inbox, ble, path, reached>>
    BY <1>2 DEF TokensUpdated, allVars, proxyVars
  <2>2. CallInv' /\ UNCHANGED pc
    BY <2>1, CallStutter DEF ProxyInv, vars
  <2> QED
    BY <2>1, <2>2 DEF ProxyInv, ProxyTypeOK, RequestsApart, NotBegun
<1> QED
  BY <1>1, <1>2, StepServe, StepOfCalls DEF ProxyNext

(* Every reachable state of the proxy and the calls: that of the calls      *)
(* themselves; and one request of a call at most is under way, before that  *)
(* call begins.                                                             *)
THEOREM ProxyInvariant == ProxySpec => []ProxyInv
<1>1. ProxyInit => ProxyInv
  BY ProxyInitInv
<1>2. ProxyInv /\ [ProxyNext]_allVars => ProxyInv'
  BY ProxyStepInv
<1> QED
  BY <1>1, <1>2, PTL DEF ProxySpec

(* By gRPC or by way of switchboard, for any number of calls: an answer     *)
(* that a handler returns is the engine's to that call, unless two calls    *)
(* that listen for the same message were under way together.                *)
THEOREM OwnAnswers == ProxySpec => []AnswerIsOwn
<1>1. ProxyInv => AnswerIsOwn
  BY DEF ProxyInv, CallInv
<1> QED
  BY <1>1, ProxyInvariant, PTL

(* A handler that waits has its request with the engine, an answer in its   *)
(* channel, or a closed channel: what CallReturns needs to hold in every    *)
(* state.                                                                   *)
THEOREM NobodyIsForgotten == ProxySpec => []NobodyForgotten
<1>1. ProxyInv => NobodyForgotten
  BY DEF ProxyInv, CallInv
<1> QED
  BY <1>1, ProxyInvariant, PTL
=============================================================================
