------------------------------ MODULE RobotToken ------------------------------
(***************************************************************************)
(* What the token service promises its callers, without its queue, its     *)
(* file and its memory: the robot has one token, which outlives the        *)
(* process; a call reads it, or replaces it by the newest that the server  *)
(* issued, at one moment between the request and the response, and no two  *)
(* calls are at the server at a time.  TokenService implements this.       *)
(***************************************************************************)
EXTENDS Naturals

CONSTANTS Requester, Request, Token, NoToken

VARIABLES
  up,       \* the service has been started
  token,    \* the robot's token
  issued,   \* how many tokens the server has issued
  call,     \* of a requester: none, asked, served, offered, settled
  req,      \* what it asked for
  answer    \* what it is told: the number of a token, or 0 for an error

NoRequest == [tag |-> "Jwt", force |-> FALSE]

NoCalls ==
  /\ call = [p \in Requester |-> "none"]
  /\ req = [p \in Requester |-> NoRequest]
  /\ answer = [p \in Requester |-> 0]

Init ==
  /\ ~up
  /\ token \in Token \cup {NoToken}
  /\ issued \in Nat
  /\ token.id = issued
  /\ NoCalls

(* The start keeps a token, unless it is of no use to the robot.           *)
Start ==
  /\ ~up
  /\ up' = (token.kind # "garbage")
  /\ token' = IF token.kind = "good" THEN token ELSE NoToken
  /\ UNCHANGED <<issued, call, req, answer>>

(* Only the calls are lost in a crash.                                     *)
Crash ==
  /\ up /\ ~up'
  /\ NoCalls'
  /\ UNCHANGED <<token, issued>>

Ask(p, r) ==
  /\ up /\ call[p] = "none"
  /\ call' = [call EXCEPT ![p] = "asked"]
  /\ req' = [req EXCEPT ![p] = r]
  /\ UNCHANGED <<up, token, issued, answer>>

Settle(p, n) ==
  /\ call' = [call EXCEPT ![p] = "settled"]
  /\ answer' = [answer EXCEPT ![p] = n]
  /\ UNCHANGED <<up, req>>

Busy == \E p \in Requester : call[p] \in {"served", "offered"}

OwnToken(p) == req[p].tag \in {"Auth", "Jwt"}
NeedsToken(p) == req[p].tag \in {"Jwt", "Secondary"}

(***************************************************************************)
(* The robot's token is read, by a JWT request that is content with it, or *)
(* it is missed, by a request that cannot do without.                      *)
(***************************************************************************)
Read(p) ==
  /\ call[p] = "asked" /\ ~Busy
  /\ \/ req[p].tag = "Jwt" /\ ~req[p].force /\ token.kind # "garbage"
     \/ NeedsToken(p) /\ token = NoToken
  /\ Settle(p, token.id)
  /\ UNCHANGED <<token, issued>>

Serve(p) ==
  /\ call[p] = "asked" /\ ~Busy
  /\ NeedsToken(p) => token # NoToken
  /\ call' = [call EXCEPT ![p] = "served"]
  /\ UNCHANGED <<up, token, issued, req, answer>>

(***************************************************************************)
(* The server issues a token: the app's goes straight to the app, and one  *)
(* for the robot may be of no use.                                         *)
(***************************************************************************)
Issue(p) ==
  /\ call[p] = "served"
  /\ issued' = issued + 1
  /\ UNCHANGED token
  /\ \/ ~OwnToken(p) /\ Settle(p, issued + 1)
     \/ OwnToken(p) /\ Settle(p, 0)
     \/ /\ OwnToken(p)
        /\ call' = [call EXCEPT ![p] = "offered"]
        /\ UNCHANGED <<up, req, answer>>

(* The token on offer becomes the robot's, and the answer, in one step.    *)
Replace(p, t) ==
  /\ call[p] = "offered"
  /\ t.id = issued /\ t.id > token.id /\ t.kind # "garbage"
  /\ token' = t
  /\ Settle(p, t.id)
  /\ UNCHANGED issued

(* The server refuses, or its token cannot be kept.                        *)
Refuse(p) ==
  /\ call[p] \in {"served", "offered"}
  /\ Settle(p, 0)
  /\ UNCHANGED <<token, issued>>

Return(p) ==
  /\ call[p] = "settled"
  /\ call' = [call EXCEPT ![p] = "none"]
  /\ req' = [req EXCEPT ![p] = NoRequest]
  /\ answer' = [answer EXCEPT ![p] = 0]
  /\ UNCHANGED <<up, token, issued>>

Next ==
  \/ Start \/ Crash
  \/ \E p \in Requester :
       \/ \E r \in Request : Ask(p, r)
       \/ \E t \in Token : Replace(p, t)
       \/ Read(p) \/ Serve(p) \/ Issue(p) \/ Refuse(p) \/ Return(p)

Spec == Init /\ [][Next]_<<up, token, issued, call, req, answer>>
=============================================================================
