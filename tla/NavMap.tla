------------------------------- MODULE NavMap -------------------------------
(* NavMapFeed: the engine sends a map as a begin, some messages of quads    *)
(* and an end; the feed listens for the three kinds on three channels and   *)
(* takes from them by one select, which chooses any channel that has        *)
(* something. The order of the engine's messages is kept in each channel,   *)
(* not between them.                                                        *)
EXTENDS Naturals, Sequences

CONSTANTS
  DataRoom,   \* buffer of the channel for quads (50 in the code)
  Parts,      \* messages of quads in a map
  Maps        \* bound: maps of the engine

ASSUME NavMapAssumption ==
  /\ DataRoom \in Nat \ {0}
  /\ Parts \in Nat

VARIABLES
  nav,        \* the call: idle, asked, the channels it has, looping or done
  frequency,  \* the engine was asked for maps, and not to stop yet
  begins,     \* its three channels
  quads,
  ends,
  pendingMap, \* the map it puts together, as the numbers of its messages
  given,      \* the map it has just sent to its user
  shut,       \* channels that were closed because they stayed full
  turn,       \* the engine's next message: the map and its part
  behind      \* a message was sent when one of another kind still waited, or
              \* when only some of the channels were there

navVars == <<nav, frequency, begins, quads, ends, pendingMap, given, shut,
             turn, behind>>

NoMap == [map |-> 0, parts |-> <<>>]
NothingGiven == [map |-> 0, parts |-> <<>>, inOrder |-> TRUE]

NavInit ==
  /\ nav = "idle"
  /\ frequency = FALSE
  /\ begins = <<>> /\ quads = <<>> /\ ends = <<>>
  /\ pendingMap = NoMap
  /\ given = NothingGiven
  /\ shut = {}
  /\ turn = [map |-> 1, part |-> 0]
  /\ behind = FALSE

(* SetNavMapBroadcastFrequency; if it cannot be written, that is all.       *)
SetFrequency ==
  /\ nav = "idle"
  /\ \/ nav' = "asked" /\ frequency' = TRUE
     \/ nav' = "done" /\ UNCHANGED frequency
  /\ UNCHANGED <<begins, quads, ends, pendingMap, given, shut, turn, behind>>

(* The three channels are made one after the other.                         *)
StartNavMap ==
  /\ nav \in {"asked", "begins", "quads"}
  /\ nav' = CASE nav = "asked" -> "begins" [] nav = "begins" -> "quads"
               [] OTHER -> "looping"
  /\ UNCHANGED <<frequency, begins, quads, ends, pendingMap, given, shut, turn,
                 behind>>

(* Every return after that asks for no more maps, by a deferred write whose *)
(* error nobody sees, when the channels are gone.                           *)
ReturnNavMap ==
  /\ nav' = "done"
  /\ frequency' \in {FALSE, frequency}

-----------------------------------------------------------------------------
AllTaken == begins = <<>> /\ quads = <<>> /\ ends = <<>>

NextTurn ==
  turn' = IF turn.part <= Parts THEN [turn EXCEPT !.part = @ + 1]
          ELSE [map |-> turn.map + 1, part |-> 0]

(* The engine (external): part 0 is the begin, the last one the end.        *)
IsBegin == turn.part = 0
IsEnd   == turn.part > Parts
IsQuads == ~IsBegin /\ ~IsEnd
Kind    == IF IsBegin THEN "begins" ELSE IF IsEnd THEN "ends" ELSE "quads"

Attached ==
  (CASE nav = "begins" -> {"begins"} [] nav = "quads" -> {"begins", "quads"}
     [] nav = "looping" -> {"begins", "quads", "ends"} [] OTHER -> {}) \ shut

Heard == Kind \in Attached

Full ==
  \/ IsBegin /\ begins # <<>>
  \/ IsQuads /\ Len(quads) = DataRoom
  \/ IsEnd /\ ends # <<>>

EngineSendsMap ==
  /\ turn.map <= Maps
  /\ ~(Heard /\ Full)
  /\ NextTurn
  /\ begins' = IF Heard /\ IsBegin THEN <<turn.map>> ELSE begins
  /\ quads' = IF Heard /\ IsQuads THEN Append(quads, turn) ELSE quads
  /\ ends' = IF Heard /\ IsEnd THEN <<turn.map>> ELSE ends
  /\ behind' = IF IsBegin /\ Heard /\ AllTaken THEN FALSE
               ELSE \/ behind \/ ~Heard
                    \/ ~IsQuads /\ quads # <<>>
                    \/ ~IsBegin /\ begins # <<>>
                    \/ ~IsEnd /\ ends # <<>>
  /\ UNCHANGED <<nav, frequency, pendingMap, given, shut>>

(* A channel that stays full: SafeClose takes what waits longest and closes *)
(* the channel.                                                             *)
EngineGivesUp ==
  /\ turn.map <= Maps /\ Heard /\ Full
  /\ NextTurn
  /\ shut' = shut \union {Kind}
  /\ begins' = IF IsBegin THEN <<>> ELSE begins
  /\ quads' = IF IsQuads THEN Tail(quads) ELSE quads
  /\ ends' = IF IsEnd THEN <<>> ELSE ends
  /\ behind' = TRUE
  /\ UNCHANGED <<nav, frequency, pendingMap, given>>

(* select chose a closed channel.                                           *)
ChannelFails ==
  /\ nav = "looping"
  /\ \/ "begins" \in shut /\ begins = <<>>
     \/ "quads" \in shut /\ quads = <<>>
     \/ "ends" \in shut /\ ends = <<>>
  /\ ReturnNavMap
  /\ begins' = <<>> /\ quads' = <<>> /\ ends' = <<>>
  /\ UNCHANGED <<pendingMap, given, shut, turn, behind>>

-----------------------------------------------------------------------------
(* Mutant: a begin keeps the quads of the map it discards.                  *)
NewMapKeepingQuads(m) == [map |-> m, parts |-> pendingMap.parts]

NewMap(m) == [map |-> m, parts |-> <<>>]

TakeBegin ==
  /\ nav = "looping" /\ begins # <<>>
  /\ begins' = Tail(begins)
  /\ pendingMap' = NewMap(Head(begins))
  /\ given' = NothingGiven
  /\ UNCHANGED <<nav, frequency, quads, ends, shut, turn, behind>>

TakeQuads ==
  /\ nav = "looping" /\ quads # <<>>
  /\ quads' = Tail(quads)
  /\ pendingMap' = IF pendingMap = NoMap THEN pendingMap
                   ELSE [pendingMap EXCEPT !.parts = Append(@, Head(quads))]
  /\ given' = NothingGiven
  /\ UNCHANGED <<nav, frequency, begins, ends, shut, turn, behind>>

(* The map goes to the user; the feed returns if that fails.                *)
TakeEnd ==
  /\ nav = "looping" /\ ends # <<>>
  /\ ends' = Tail(ends)
  /\ given' = IF pendingMap = NoMap THEN NothingGiven
              ELSE [map |-> pendingMap.map, parts |-> pendingMap.parts,
                    inOrder |-> ~behind]
  /\ pendingMap' = NoMap
  /\ \/ UNCHANGED <<nav, frequency>>
     \/ pendingMap # NoMap /\ ReturnNavMap
  /\ UNCHANGED <<begins, quads, shut, turn, behind>>

NavNext ==
  \/ SetFrequency \/ StartNavMap
  \/ EngineSendsMap \/ EngineGivesUp \/ ChannelFails
  \/ TakeBegin \/ TakeQuads \/ TakeEnd

NavSpec == NavInit /\ [][NavNext]_navVars

-----------------------------------------------------------------------------
(* A map that is sent is one whole map of the engine, as long as the feed   *)
(* has all its channels when the map begins and has taken what was sent of  *)
(* one kind before the engine sends the next kind; also after a map that it *)
(* caught a part of. (When it is behind, select may take the end before the *)
(* quads, or the next begin before the end.)                                *)
MapIsWhole ==
  given.map # 0 /\ given.inOrder =>
    given.parts = [i \in 1..Parts |-> [map |-> given.map, part |-> i]]
=============================================================================
