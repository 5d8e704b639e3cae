-------------------------- MODULE MCEngineStreams ---------------------------
(* The streams between engine and users. Two feeds, a map and two control   *)
(* connections share nothing but the registry (module IpcManager): each     *)
(* behavior is about one of the three.                                      *)
EXTENDS Feeds, NavMap, BehaviorControl

VARIABLE about

Two(a, b) == [c \in {1, 2} |-> IF c = 1 THEN a ELSE b]

TwoFeeds ==
  {Two("AudioFeed", "AudioFeed"), Two("CameraFeed", "CaptureSingleImage")}

TwoConns ==
  {Two("BehaviorControl", "AssumeBehaviorControl"),
   Two("AssumeBehaviorControl", "ExternalAudioStreamPlayback")}

StreamsInit ==
  /\ about \in {"feeds", "map", "control"}
  /\ FeedInit /\ NavInit /\ ControlInit
  /\ about # "feeds" => kind = CHOOSE k \in Casts : TRUE
  /\ about # "control" => rpcOf = CHOOSE r \in Rpcs : TRUE

StreamsNext ==
  \/ about = "feeds" /\ FeedNext /\ UNCHANGED <<navVars, controlVars, about>>
  \/ about = "map" /\ NavNext /\ UNCHANGED <<feedVars, controlVars, about>>
  \/ about = "control" /\ ControlNext /\ UNCHANGED <<feedVars, navVars, about>>

StreamsSpec ==
  /\ StreamsInit /\ [][StreamsNext]_<<feedVars, navVars, controlVars, about>>
  /\ FeedFairness /\ ControlFairness
=============================================================================
