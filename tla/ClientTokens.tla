---------------------------- MODULE ClientTokens ----------------------------
(***************************************************************************)
(* The client tokens of vic-gateway (cloud/tokens.go).  Every connection   *)
(* calls CheckToken, which first lets updateListener decide whether the    *)
(* list of tokens has to be read again; the goroutine of                   *)
(* StartUpdateListener reads it; ForceUpdate empties the list and asks for *)
(* it.  They meet on three unbuffered channels, of which notifyValid is    *)
(* shared by all checks, and read and write the list and the index of the  *)
(* token that matched last without a lock.                                 *)
(*                                                                         *)
(* A list is its length: whether a client's token is in it is a choice.    *)
(***************************************************************************)
EXTENDS Naturals, FiniteSets

CONSTANTS Checker,   \* calls of CheckToken
          Forcer,    \* callers of ForceUpdate
          MaxLen     \* bound: tokens in a list

ASSUME ClientTokensAssumption ==
  /\ IsFiniteSet(Checker)
  /\ MaxLen \in Nat \ {0}

NotifyValid == "notifyValid"

ASSUME ForcerAssumption == NotifyValid \notin Forcer

VARIABLES
  length,    \* len(ClientTokens)
  index,     \* recentTokenIndex
  old,       \* lastUpdatedTokens is more than an hour ago
  checker,   \* where a check is
  match,     \* the index of the token a check has matched
  forcer,    \* where a caller of ForceUpdate is
  listener,  \* where updateListener is
  updater,   \* where StartUpdateListener is
  response   \* the channel it will answer on: notifyValid or a forcer's own

list == <<length, index, old>>
checks == <<checker, match>>
updates == <<updater, response>>
vars == <<list, checks, forcer, listener, updates>>

TypeOK ==
  /\ length \in 0..MaxLen
  /\ index \in 0..(MaxLen - 1)
  /\ old \in BOOLEAN
  /\ checker \in [Checker -> {"idle", "check", "wait", "notified", "recent",
                              "range", "matched", "panicked"}]
  /\ match \in [Checker -> 0..(MaxLen - 1)]
  /\ forcer \in [Forcer -> {"idle", "empty", "send", "wait"}]
  /\ listener \in {"receive", "notify", "ask"}
  /\ updater \in {"select", "update", "decode", "respond"}
  /\ response \in Forcer \cup {NotifyValid}

(* Init has read a list of any length from the file or from vic-cloud.     *)
Init ==
  /\ length \in 0..MaxLen
  /\ index = 0
  /\ old \in BOOLEAN
  /\ checker = [c \in Checker |-> "idle"]
  /\ match = [c \in Checker |-> 0]
  /\ forcer = [f \in Forcer |-> "idle"]
  /\ listener = "receive"
  /\ updater = "select"
  /\ response = NotifyValid

HourPasses ==
  /\ ~old
  /\ old' = TRUE
  /\ UNCHANGED <<length, index, checks, forcer, listener, updates>>

-----------------------------------------------------------------------------
(* CheckToken.                                                             *)

Step(c, from, to) ==
  /\ checker[c] = from
  /\ checker' = [checker EXCEPT ![c] = to]

Call(c) ==
  /\ Step(c, "idle", "check")
  /\ UNCHANGED <<list, match, forcer, listener, updates>>

(* The guard for an empty list; the token of this run needs no list.       *)
CheckEmpty(c) ==
  /\ \/ Step(c, "notified", "idle")
     \/ length # 0 /\ Step(c, "notified", "recent")
  /\ UNCHANGED <<list, match, forcer, listener, updates>>

(* ClientTokens[recentTokenIndex], which panics when it is out of range.   *)
TryRecent(c) ==
  /\ IF index < length
     THEN \E to \in {"idle", "range"} : Step(c, "recent", to)
     ELSE Step(c, "recent", "panicked")
  /\ UNCHANGED <<list, match, forcer, listener, updates>>

(* The loop over the list as it is now: a token but the recent may match.  *)
TryAll(c) ==
  /\ \/ Step(c, "range", "idle") /\ UNCHANGED match
     \/ \E i \in 0..(MaxLen - 1) :
          /\ i < length
          /\ i # index
          /\ match' = [match EXCEPT ![c] = i]
          /\ Step(c, "range", "matched")
  /\ UNCHANGED <<list, forcer, listener, updates>>

Remember(c) ==
  /\ Step(c, "matched", "idle")
  /\ index' = match[c]
  /\ UNCHANGED <<length, old, match, forcer, listener, updates>>

-----------------------------------------------------------------------------
(* updateListener.                                                         *)

(* Mutant: a check that the limiter turns down is not answered.            *)
TakeCheckOrDrop(c) ==
  /\ listener = "receive"
  /\ Step(c, "check", "wait")
  /\ listener' \in {"receive", "ask"}
  /\ UNCHANGED <<list, match, forcer, updates>>

(***************************************************************************)
(* A check is received on checkValid.  An update is asked for if the list  *)
(* is old and the limiter allows it; else the check may go on.             *)
(***************************************************************************)
TakeCheck(c) ==
  /\ listener = "receive"
  /\ Step(c, "check", "wait")
  /\ listener' \in IF old THEN {"ask", "notify"} ELSE {"notify"}
  /\ UNCHANGED <<list, match, forcer, updates>>

(* notifyValid is received by any of the checks that wait.                 *)
Notify(c) ==
  /\ listener = "notify"
  /\ Step(c, "wait", "notified")
  /\ listener' = "receive"
  /\ UNCHANGED <<list, match, forcer, updates>>

AskUpdate ==
  /\ listener = "ask"
  /\ updater = "select"
  /\ listener' = "receive"
  /\ updater' = "update"
  /\ response' = NotifyValid
  /\ UNCHANGED <<list, checks, forcer>>

-----------------------------------------------------------------------------
(* ForceUpdate.                                                            *)

ResetIndex(f) ==
  /\ forcer[f] = "idle"
  /\ forcer' = [forcer EXCEPT ![f] = "empty"]
  /\ index' = 0
  /\ UNCHANGED <<length, old, checks, listener, updates>>

EmptyList(f) ==
  /\ forcer[f] = "empty"
  /\ forcer' = [forcer EXCEPT ![f] = "send"]
  /\ length' = 0
  /\ UNCHANGED <<index, old, checks, listener, updates>>

SendForce(f) ==
  /\ forcer[f] = "send"
  /\ updater = "select"
  /\ forcer' = [forcer EXCEPT ![f] = "wait"]
  /\ updater' = "update"
  /\ response' = f
  /\ UNCHANGED <<list, checks, listener>>

-----------------------------------------------------------------------------
(* StartUpdateListener.                                                    *)

(* UpdateTokens fails before it has a document.                            *)
UpdateFails ==
  /\ updater = "update"
  /\ updater' = "respond"
  /\ UNCHANGED <<list, checks, forcer, listener, response>>

(* DecodeTokenJdoc resets the index and the time, then replaces the list.  *)
DecodeTokenJdoc ==
  /\ updater = "update"
  /\ updater' = "decode"
  /\ index' = 0
  /\ old' = FALSE
  /\ UNCHANGED <<length, checks, forcer, listener, response>>

ReplaceList(n) ==
  /\ updater = "decode"
  /\ updater' = "respond"
  /\ length' = n
  /\ UNCHANGED <<index, old, checks, forcer, listener, response>>

RespondToCheck(c) ==
  /\ updater = "respond"
  /\ response = NotifyValid
  /\ Step(c, "wait", "notified")
  /\ updater' = "select"
  /\ UNCHANGED <<list, match, forcer, listener, response>>

(* Mutant: nobody is told when the caller is not a check.                  *)
RespondToNobody(f) ==
  /\ updater = "respond"
  /\ response = f
  /\ updater' = "select"
  /\ response' = NotifyValid
  /\ UNCHANGED <<list, checks, forcer, listener>>

RespondToForcer(f) ==
  /\ updater = "respond"
  /\ response = f
  /\ forcer' = [forcer EXCEPT ![f] = "idle"]
  /\ updater' = "select"
  /\ response' = NotifyValid
  /\ UNCHANGED <<list, checks, listener>>

CheckStep(c) ==
  \/ Call(c)
  \/ CheckEmpty(c)
  \/ TryRecent(c)
  \/ TryAll(c)
  \/ Remember(c)
  \/ TakeCheck(c)
  \/ Notify(c)
  \/ RespondToCheck(c)

ForceStep(f) ==
  \/ ResetIndex(f)
  \/ EmptyList(f)
  \/ SendForce(f)
  \/ RespondToForcer(f)

Update ==
  \/ HourPasses
  \/ AskUpdate
  \/ UpdateFails
  \/ DecodeTokenJdoc
  \/ \E n \in 0..MaxLen : ReplaceList(n)

Next ==
  \/ \E c \in Checker : CheckStep(c)
  \/ \E f \in Forcer : ForceStep(f)
  \/ Update

Spec == Init /\ [][Next]_vars

(***************************************************************************)
(* Goroutines run, vic-cloud answers or the read fails, and a goroutine    *)
(* that waits on a channel is served when others are again and again: Go   *)
(* queues them in order.                                                   *)
(***************************************************************************)
FairSpec ==
  /\ Spec
  /\ \A c \in Checker :
       /\ WF_vars(CheckEmpty(c) \/ TryRecent(c) \/ TryAll(c) \/ Remember(c))
       /\ SF_vars(TakeCheck(c))
       /\ SF_vars(Notify(c) \/ RespondToCheck(c))
  /\ \A f \in Forcer :
       /\ WF_vars(EmptyList(f) \/ RespondToForcer(f))
       /\ SF_vars(SendForce(f))
  /\ SF_vars(AskUpdate)
  /\ SF_vars(\E c \in Checker : Notify(c))
  /\ SF_vars(\E c \in Checker : RespondToCheck(c))
  /\ WF_vars(UpdateFails \/ DecodeTokenJdoc \/ \E n \in 0..MaxLen : ReplaceList(n))

-----------------------------------------------------------------------------
(* Properties.                                                             *)

Waiting == {c \in Checker : checker[c] = "wait"}
Owed == (IF listener = "receive" THEN 0 ELSE 1)
        + (IF updater # "select" /\ response = NotifyValid THEN 1 ELSE 0)

(***************************************************************************)
(* notifyValid is one channel for all checks and says nothing but "go on": *)
(* nobody is stuck only because exactly as many notifications are on their *)
(* way as checks wait, however checks and updates overlap.                 *)
(***************************************************************************)
EveryWaitIsOwed == Cardinality(Waiting) = Owed

(* The updater answers a caller of ForceUpdate that waits for it.          *)
ForcerWaitsForUpdater ==
  \A f \in Forcer :
    forcer[f] = "wait" <=> updater # "select" /\ response = f

(* A check comes to an end, whatever updates fail and whoever else checks. *)
CheckEnds ==
  \A c \in Checker : checker[c] = "check" ~> checker[c] \in {"idle", "panicked"}

(* So does ForceUpdate; the thread that reads switchboard's socket waits.  *)
ForceEnds == \A f \in Forcer : forcer[f] = "empty" ~> forcer[f] = "idle"

(***************************************************************************)
(* What the code does not keep: an empty list is an Unauthenticated answer *)
(* ("no valid tokens") and an index is one of the list, so that a check    *)
(* does not panic.                                                         *)
(***************************************************************************)
CheckNeverPanics == \A c \in Checker : checker[c] # "panicked"
=============================================================================
