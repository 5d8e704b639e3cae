---------------------------- MODULE TokenService ----------------------------
(***************************************************************************)
(* The token service of vic-cloud (internal/token): one goroutine takes    *)
(* requests from an unbuffered queue, talks to the token server and keeps  *)
(* the robot's JWT in memory and in a file; a refresher asks for a new one *)
(* when the token comes due.  The process may crash at any point and is    *)
(* started again.                                                          *)
(*                                                                         *)
(* A token is numbered in the order in which the server issues them.  Its  *)
(* kind says what Init makes of it: "good", "anonymous" (parsed, but with  *)
(* an empty user id, and thrown away by the next start) or "garbage" (does *)
(* not parse).                                                             *)
(***************************************************************************)
EXTENDS Naturals

CONSTANTS Client,      \* connections to the token server, callers of Accessor
          Refresher,   \* the goroutine of refreshRoutine
          MaxToken     \* bound: tokens the server issues

ASSUME ServiceAssumption ==
  /\ Refresher \notin Client
  /\ MaxToken \in Nat \ {0}

Requester == Client \cup {Refresher}

VARIABLES
  phase,      \* the process: down, init (Server.Init done), running, stopped
  file,       \* token.jwt
  current,    \* currentToken
  due,        \* tokens whose RefreshTime has passed
  issued,     \* how many tokens the server has issued
  behind,     \* the clock is behind the token's IssuedAt
  worker,     \* where tokenQueue.routine is
  job,        \* whose request it handles
  bundle,     \* the token in the server's answer
  state,      \* where a requester is
  req,        \* its request: tag and ForceRefresh
  asked,      \* the number of the current token when it asked
  answer,     \* the response: the number of its token, or 0 for an error
  refresher,  \* where refreshRoutine is
  rtok        \* the token it looks at

store == <<file, current>>
queue == <<worker, job, bundle>>
calls == <<state, req, asked, answer>>
vars == <<phase, store, due, issued, behind, queue, calls, refresher, rtok>>

NoToken == [id |-> 0, kind |-> "none"]
Token   == [id : 1..MaxToken, kind : {"good", "anonymous", "garbage"}]
Parsed  == [id : 1..MaxToken, kind : {"good", "anonymous"}]
Tag     == {"Auth", "Secondary", "Reassociate", "Jwt"}

TypeOK ==
  /\ phase \in {"down", "init", "running", "stopped"}
  /\ file \in Token \cup {NoToken}
  /\ current \in Parsed \cup {NoToken}
  /\ due \in SUBSET (1..MaxToken)
  /\ issued \in 0..MaxToken
  /\ behind \in BOOLEAN
  /\ worker \in {"off", "select", "rpc", "save", "saved", "reply"}
  /\ job \in Requester
  /\ bundle \in Parsed \cup {NoToken}
  /\ state \in [Requester -> {"idle", "lost", "sending", "waiting", "answered"}]
  /\ req \in [Requester -> [tag : Tag, force : BOOLEAN]]
  /\ asked \in [Requester -> 0..MaxToken]
  /\ answer \in [Requester -> 0..MaxToken]
  /\ refresher \in {"off", "check", "clock", "timer", "ask", "pause"}
  /\ rtok \in 0..MaxToken

(* A file of an earlier run may be there, of any kind.                     *)
Init ==
  /\ phase = "down"
  /\ issued \in {0, 1}
  /\ file \in {t \in Token \cup {NoToken} : t.id = issued}
  /\ current = NoToken
  /\ due = {}
  /\ behind \in BOOLEAN
  /\ worker = "off"
  /\ job = Refresher
  /\ bundle = NoToken
  /\ state = [p \in Requester |-> "idle"]
  /\ req = [p \in Requester |-> [tag |-> "Jwt", force |-> FALSE]]
  /\ asked = [p \in Requester |-> 0]
  /\ answer = [p \in Requester |-> 0]
  /\ refresher = "off"
  /\ rtok = 0

-----------------------------------------------------------------------------
(* The process.                                                            *)

(***************************************************************************)
(* fileProvider.init: a file that does not parse is removed and ends the   *)
(* process; one without a user is removed; any other is the current token. *)
(***************************************************************************)
Boot ==
  /\ phase = "down"
  /\ phase' = IF file.kind = "garbage" THEN "down" ELSE "init"
  /\ current' = IF file.kind = "good" THEN file ELSE NoToken
  /\ file' = current'
  /\ UNCHANGED <<due, issued, behind, queue, calls, refresher, rtok>>

(* Server.Run, on a goroutine of its own: tokenQueue.init and initRefresher *)
Start ==
  /\ phase = "init"
  /\ phase' = "running"
  /\ worker' = "select"
  /\ refresher' = "check"
  /\ UNCHANGED <<store, due, issued, behind, job, bundle, calls, rtok>>

Stop ==
  /\ phase = "running"
  /\ phase' = "stopped"
  /\ UNCHANGED <<store, due, issued, behind, queue, calls, refresher, rtok>>

Crash ==
  /\ phase # "down"
  /\ phase' = "down"
  /\ current' = NoToken
  /\ worker' = "off"
  /\ bundle' = NoToken
  /\ state' = [p \in Requester |-> "idle"]
  /\ asked' = [p \in Requester |-> 0]
  /\ answer' = [p \in Requester |-> 0]
  /\ req' = [p \in Requester |-> [tag |-> "Jwt", force |-> FALSE]]
  /\ refresher' = "off"
  /\ rtok' = 0
  /\ UNCHANGED <<file, due, issued, behind, job>>

(* Time passes for a token, current or not.                                *)
ComeDue(n) ==
  /\ n \in 1..issued
  /\ n \notin due
  /\ due' = due \cup {n}
  /\ UNCHANGED <<phase, store, issued, behind, queue, calls, refresher, rtok>>

NtpSync ==
  /\ behind
  /\ behind' = FALSE
  /\ UNCHANGED <<phase, store, due, issued, queue, calls, refresher, rtok>>

-----------------------------------------------------------------------------
(* Requests.                                                               *)

(***************************************************************************)
(* Server.handleRequest: `queue <- req`.  Before Run has made the queue    *)
(* the send is on a nil channel and never ends.                            *)
(***************************************************************************)
Send(p, r) ==
  /\ state[p] = "idle"
  /\ state' = [state EXCEPT ![p] = IF phase = "init" THEN "lost" ELSE "sending"]
  /\ req' = [req EXCEPT ![p] = r]
  /\ asked' = [asked EXCEPT ![p] = current.id]
  /\ UNCHANGED <<phase, store, due, issued, behind, queue, answer>>

Ask(c, r) ==
  /\ phase # "down"
  /\ Send(c, r)
  /\ UNCHANGED <<refresher, rtok>>

(* The response is received and the channel closed: the call is over.      *)
Return(p) ==
  /\ state[p] = "answered"
  /\ state' = [state EXCEPT ![p] = "idle"]
  /\ req' = [req EXCEPT ![p] = [tag |-> "Jwt", force |-> FALSE]]
  /\ asked' = [asked EXCEPT ![p] = 0]
  /\ answer' = [answer EXCEPT ![p] = 0]
  /\ UNCHANGED <<phase, store, due, issued, behind, queue>>

Receive(c) == Return(c) /\ UNCHANGED <<refresher, rtok>>

-----------------------------------------------------------------------------
(* tokenQueue.routine.                                                     *)

(***************************************************************************)
(* What can be answered without the server: a JWT that is not yet due, and *)
(* the NullToken errors.                                                   *)
(***************************************************************************)
AnswerNow(r) ==
  \/ r.tag \in {"Jwt", "Secondary"} /\ current = NoToken
  \/ r.tag = "Jwt" /\ current.id \notin due /\ ~r.force

Take(p) ==
  /\ worker = "select"
  /\ state[p] = "sending"
  /\ state' = [state EXCEPT ![p] = "waiting"]
  /\ job' = p
  /\ IF AnswerNow(req[p])
     THEN /\ worker' = "reply"
          /\ answer' = [answer EXCEPT ![p] = current.id]
     ELSE /\ worker' = "rpc"
          /\ UNCHANGED answer
  /\ UNCHANGED <<phase, store, due, issued, behind, bundle, req, asked,
                 refresher, rtok>>

(* An answer with an error: the request failed and nothing is stored.      *)
Fail ==
  /\ worker' = "reply"
  /\ answer' = [answer EXCEPT ![job] = 0]
  /\ bundle' = NoToken

(* getConnection or the RPC fails; errors differ in their code only.       *)
ServerError ==
  /\ worker = "rpc"
  /\ Fail
  /\ UNCHANGED <<phase, store, due, issued, behind, job, state, req, asked,
                 refresher, rtok>>

ParseJwt == req[job].tag \in {"Auth", "Jwt"}

(* Mutant: the token of every kind of request is stored.                   *)
ServerAnswersToStore(t) ==
  /\ worker = "rpc"
  /\ t.id = issued + 1
  /\ issued' = issued + 1
  /\ IF t.kind = "garbage"
     THEN Fail
     ELSE bundle' = t /\ worker' = "save" /\ UNCHANGED answer
  /\ UNCHANGED <<phase, store, due, behind, job, state, req, asked, refresher,
                 rtok>>

(***************************************************************************)
(* The server issues a token.  Only that of a JWT refresh or a primary     *)
(* association is parsed and stored; the others go to the app.             *)
(***************************************************************************)
ServerAnswers(t) ==
  /\ worker = "rpc"
  /\ t.id = issued + 1
  /\ issued' = issued + 1
  /\ IF ~ParseJwt
     THEN /\ worker' = "reply"
          /\ answer' = [answer EXCEPT ![job] = t.id]
          /\ UNCHANGED bundle
     ELSE IF t.kind = "garbage"
          THEN Fail
          ELSE bundle' = t /\ worker' = "save" /\ UNCHANGED answer
  /\ UNCHANGED <<phase, store, due, behind, job, state, req, asked, refresher,
                 rtok>>

(* saveToken: a temporary file renamed over the old one.                   *)
Save ==
  /\ worker = "save"
  /\ file' = bundle
  /\ worker' = "saved"
  /\ UNCHANGED <<phase, current, due, issued, behind, job, bundle, calls,
                 refresher, rtok>>

(* Mutant: the token in memory is the new one although the save failed.    *)
SaveErrorIgnored ==
  /\ worker = "save"
  /\ worker' = "saved"
  /\ UNCHANGED <<phase, store, due, issued, behind, job, bundle, calls,
                 refresher, rtok>>

SaveError ==
  /\ worker = "save"
  /\ Fail
  /\ UNCHANGED <<phase, store, due, issued, behind, job, state, req, asked,
                 refresher, rtok>>

(* Mutant: the request is answered with the token it wanted replaced.      *)
InstallAnswerOld ==
  /\ worker = "saved"
  /\ current' = bundle
  /\ answer' = [answer EXCEPT ![job] = current.id]
  /\ worker' = "reply"
  /\ bundle' = NoToken
  /\ UNCHANGED <<phase, file, due, issued, behind, job, state, req, asked,
                 refresher, rtok>>

(* currentToken is replaced and the response made.                         *)
Install ==
  /\ worker = "saved"
  /\ current' = bundle
  /\ answer' = [answer EXCEPT ![job] = bundle.id]
  /\ worker' = "reply"
  /\ bundle' = NoToken
  /\ UNCHANGED <<phase, file, due, issued, behind, job, state, req, asked,
                 refresher, rtok>>

(* Mutant: an error is logged and not answered.                            *)
ReplyUnlessError ==
  /\ worker = "reply"
  /\ worker' = "select"
  /\ state' = [state EXCEPT ![job] = IF answer[job] = 0 THEN @ ELSE "answered"]
  /\ UNCHANGED <<phase, store, due, issued, behind, job, bundle, req, asked,
                 answer, refresher, rtok>>

(* `req.ch <- response`, whose receiver is waiting.                        *)
Reply ==
  /\ worker = "reply"
  /\ worker' = "select"
  /\ state' = [state EXCEPT ![job] = "answered"]
  /\ UNCHANGED <<phase, store, due, issued, behind, job, bundle, req, asked,
                 answer, refresher, rtok>>

(* The context is done: nobody takes requests any more.                    *)
WorkerExits ==
  /\ phase = "stopped"
  /\ worker = "select"
  /\ worker' = "off"
  /\ UNCHANGED <<phase, store, due, issued, behind, job, bundle, calls,
                 refresher, rtok>>

-----------------------------------------------------------------------------
(* refreshRoutine.  It looks for a token every five minutes, waits until   *)
(* the clock is not behind it, and then for the token to come due.         *)

Check ==
  /\ refresher = "check"
  /\ current # NoToken
  /\ rtok' = current.id
  /\ refresher' = "clock"
  /\ UNCHANGED <<phase, store, due, issued, behind, queue, calls>>

Clock ==
  /\ refresher = "clock"
  /\ ~behind
  /\ refresher' = IF rtok \in due THEN "ask" ELSE "timer"
  /\ UNCHANGED <<phase, store, due, issued, behind, queue, calls, rtok>>

(* Mutant: the timer is never set.                                         *)
TimerForgotten == FALSE

Timer ==
  /\ refresher = "timer"
  /\ rtok \in due
  /\ refresher' = "check"
  /\ rtok' = 0
  /\ UNCHANGED <<phase, store, due, issued, behind, queue, calls>>

AskRefresh ==
  /\ refresher = "ask"
  /\ Send(Refresher, [tag |-> "Jwt", force |-> FALSE])
  /\ UNCHANGED <<refresher, rtok>>

Refreshed ==
  /\ refresher = "ask"
  /\ Return(Refresher)
  /\ refresher' = "pause"
  /\ rtok' = 0

Pause ==
  /\ refresher = "pause"
  /\ refresher' = "check"
  /\ UNCHANGED <<phase, store, due, issued, behind, queue, calls, rtok>>

(* Every sleep of the routine ends with the context.                       *)
RefresherExits ==
  /\ phase = "stopped"
  /\ refresher \in {"check", "clock", "timer", "pause"}
  /\ refresher' = "off"
  /\ rtok' = 0
  /\ UNCHANGED <<phase, store, due, issued, behind, queue, calls>>

Worker ==
  \/ \E p \in Requester : Take(p)
  \/ ServerError
  \/ \E t \in Token : ServerAnswers(t)
  \/ Save
  \/ SaveError
  \/ Install
  \/ Reply
  \/ WorkerExits

Refresh ==
  \/ Check
  \/ Clock
  \/ Timer
  \/ AskRefresh
  \/ Refreshed
  \/ Pause
  \/ RefresherExits

Callers ==
  \/ \E c \in Client, r \in [tag : Tag, force : BOOLEAN] :
       (r.force => r.tag = "Jwt") /\ Ask(c, r)
  \/ \E c \in Client : Receive(c)

Process ==
  \/ Boot
  \/ Start
  \/ Stop
  \/ Crash
  \/ \E n \in 1..MaxToken : ComeDue(n)
  \/ NtpSync

Next == Process \/ Callers \/ Worker \/ Refresh

Spec == Init /\ [][Next]_vars

(***************************************************************************)
(* Goroutines run and timers fire, the server answers or the call fails,   *)
(* and a request that waits in the queue while others are served is taken  *)
(* in the end (Go queues senders in order).  The clock is set sometime.    *)
(***************************************************************************)
FairSpec ==
  /\ Spec
  /\ WF_vars(Start)
  /\ WF_vars(NtpSync)
  /\ \A n \in 1..MaxToken : WF_vars(ComeDue(n))
  /\ WF_vars(ServerError \/ \E t \in Token : ServerAnswers(t))
  /\ WF_vars(Save \/ SaveError)
  /\ WF_vars(Install)
  /\ WF_vars(Reply)
  /\ \A p \in Requester : SF_vars(Take(p))
  /\ \A c \in Client : WF_vars(Receive(c))
  /\ WF_vars(Refresh)

-----------------------------------------------------------------------------
(* Properties.                                                             *)

(***************************************************************************)
(* Between a start and a crash the token in memory is the token on disk,   *)
(* but for the moment between the two assignments of ParseAndStoreToken:   *)
(* a failed save leaves both, and a crash loses neither.                   *)
(***************************************************************************)
MemoryIsFile == phase # "down" /\ worker # "saved" => current = file

(***************************************************************************)
(* A token handed to a requester that asked for the robot's own token is   *)
(* on disk, or a newer one is: no start goes back behind it.               *)
(***************************************************************************)
HandedIsDurable ==
  \A p \in Requester :
    state[p] = "answered" /\ req[p].tag \in {"Auth", "Jwt"} =>
      answer[p] <= file.id

(***************************************************************************)
(* A JWT is never older than the one that was current when it was asked    *)
(* for, and newer when a refresh was forced, whatever was served between.  *)
(***************************************************************************)
AnswerIsFresh ==
  \A p \in Requester :
    state[p] = "answered" /\ req[p].tag = "Jwt" /\ answer[p] # 0 =>
      /\ answer[p] >= asked[p]
      /\ req[p].force => answer[p] > asked[p]

(***************************************************************************)
(* While the service is up the robot's token is replaced only by a newer   *)
(* one, and not on behalf of the app's own associations.                   *)
(***************************************************************************)
ReplacedByNewer ==
  [][phase # "down" /\ phase' # "down" /\ current' # current =>
       /\ current'.id > current.id
       /\ req[job].tag \in {"Auth", "Jwt"}]_vars

(***************************************************************************)
(* For its callers the service is one token that outlives the process, as  *)
(* RobotToken says: the rename of Save is the moment it is replaced, for   *)
(* whoever asked for it and for every start to come, and what is answered  *)
(* without the server is what was current at one moment of the call.       *)
(***************************************************************************)
Handled(p) == state[p] = "waiting" /\ p = job

CallOf(p) ==
  CASE state[p] = "idle"                -> "none"
    [] state[p] \in {"lost", "sending"} -> "asked"
    [] Handled(p) /\ worker = "rpc"     -> "served"
    [] Handled(p) /\ worker = "save"    -> "offered"
    [] OTHER                            -> "settled"

AnswerOf(p) == IF p = job /\ worker = "saved" THEN bundle.id ELSE answer[p]

Robot == INSTANCE RobotToken WITH
  Request <- [tag : Tag, force : BOOLEAN],
  up      <- phase # "down",
  token   <- file,
  call    <- [p \in Requester |-> CallOf(p)],
  answer  <- [p \in Requester |-> AnswerOf(p)]

ImplementsRobotToken == Robot!Spec

(* A request is answered while the service runs, if the queue was there.   *)
RequestAnswered ==
  \A p \in Requester :
    state[p] = "sending" ~> state[p] = "answered" \/ phase # "running"

(***************************************************************************)
(* The refresher asks the server to replace a token that came due, unless  *)
(* the service stops or somebody else replaced it.                         *)
(***************************************************************************)
DueIsRefreshed ==
  \A n \in 1..MaxToken :
    n \in due /\ current.id = n ~>
      \/ worker = "rpc" /\ req[job].tag = "Jwt"
      \/ current.id # n
      \/ phase # "running"
=============================================================================
