-------------------------- MODULE TokenServiceProofs --------------------------
(***************************************************************************)
(* Proofs about TokenService, for any number of callers and tokens.        *)
(***************************************************************************)
EXTENDS TokenService, TLAPS

(* A process that is down holds nothing but the file.                      *)
DownIsEmpty ==
  phase = "down" =>
    /\ current = NoToken
    /\ worker = "off"
    /\ refresher = "off"
    /\ \A p \in Requester : state[p] = "idle"

NotYetStarted == phase = "init" => worker = "off"

(* The routine handles the request of a requester that waits for it.       *)
ServesWaiting == worker \notin {"off", "select"} => state[job] = "waiting"

(* Tokens are stored in the order in which the server issues them.         *)
StoredInOrder ==
  /\ file.id <= issued
  /\ current.id <= file.id
  /\ worker = "save" => bundle # NoToken /\ bundle.id > file.id
                        /\ bundle.id = issued
  /\ worker = "saved" => bundle = file /\ bundle.id > current.id

(* Only the answer to a JWT refresh or a primary association is stored.    *)
StoresParsed == worker \in {"save", "saved"} => req[job].tag \in {"Auth", "Jwt"}

(* A pending request was made when the current token was there or before.  *)
AskedEarlier ==
  \A p \in Requester :
    state[p] \in {"sending", "waiting"} => asked[p] <= current.id

(* What the two properties say of an answer, for one that is on its way.   *)
ReplyIsReady ==
  worker = "reply" =>
    /\ req[job].tag \in {"Auth", "Jwt"} => answer[job] <= file.id
    /\ req[job].tag = "Jwt" /\ answer[job] # 0 =>
         /\ answer[job] >= asked[job]
         /\ req[job].force => answer[job] > asked[job]

Shape == DownIsEmpty /\ NotYetStarted /\ ServesWaiting /\ StoresParsed
Disk  == MemoryIsFile /\ StoredInOrder
Calls == AskedEarlier /\ ReplyIsReady /\ HandedIsDurable /\ AnswerIsFresh

Inv == TypeOK /\ Shape /\ Disk /\ Calls

-----------------------------------------------------------------------------
(* Numbers of tokens are numbers.                                          *)
LEMMA Ids ==
  ASSUME TypeOK
  PROVE  /\ file.id \in 0..MaxToken
         /\ current.id \in 0..MaxToken
         /\ bundle.id \in 0..MaxToken
         /\ issued \in 0..MaxToken
         /\ \A p \in Requester : asked[p] \in Nat /\ answer[p] \in Nat
         /\ NoToken.id = 0
  BY ServiceAssumption DEF TypeOK, Token, Parsed, NoToken

LEMMA InitInv == Init => Inv
<1> SUFFICES ASSUME Init PROVE Inv
  OBVIOUS
<1>1. issued \in 0..MaxToken /\ 0 \in 0..MaxToken
  BY ServiceAssumption DEF Init
<1>2. TypeOK
  BY <1>1 DEF Init, TypeOK, Tag, Requester, NoToken
<1>3. Shape
  BY DEF Init, Shape, DownIsEmpty, NotYetStarted, ServesWaiting, StoresParsed
<1>4. Disk
  BY <1>1 DEF Init, Disk, MemoryIsFile, StoredInOrder, NoToken
<1>5. Calls
  BY DEF Init, Calls, AskedEarlier, ReplyIsReady, HandedIsDurable,
     AnswerIsFresh
<1> QED
  BY <1>2, <1>3, <1>4, <1>5 DEF Inv

(***************************************************************************)
(* Steps that touch neither the store, nor the queue, nor a call.          *)
(***************************************************************************)
LEMMA AsideInv ==
  ASSUME Inv, UNCHANGED <<phase, store, issued, queue, calls>>,
         due' \in SUBSET (1..MaxToken), behind' \in BOOLEAN,
         refresher' \in {"off", "check", "clock", "timer", "ask", "pause"},
         refresher = "off" => refresher' = "off",
         rtok' \in 0..MaxToken
  PROVE  Inv'
<1>1. TypeOK'
  BY DEF Inv, TypeOK, store, queue, calls
<1>2. Shape'
  BY DEF Inv, Shape, DownIsEmpty, NotYetStarted, ServesWaiting, StoresParsed,
     store, queue, calls
<1>3. Disk'
  BY DEF Inv, Disk, MemoryIsFile, StoredInOrder, store, queue
<1>4. Calls'
  BY DEF Inv, Calls, AskedEarlier, ReplyIsReady, HandedIsDurable,
     AnswerIsFresh, store, queue, calls
<1> QED
  BY <1>1, <1>2, <1>3, <1>4 DEF Inv

-----------------------------------------------------------------------------
(* The process starts, stops and crashes.                                  *)
LEMMA ProcessInv == ASSUME Inv, Process PROVE Inv'
<1> USE ServiceAssumption
<1>1. CASE Boot
  <2>1. /\ phase = "down" /\ phase' \in {"down", "init"}
        /\ current' \in {file, NoToken}
        /\ current' # NoToken => file.kind = "good"
        /\ phase' = "down" => current' = NoToken
        /\ file' = current'
        /\ UNCHANGED <<due, issued, behind, queue, calls, refresher, rtok>>
    BY <1>1 DEF Boot
  <2>2. current' \in Parsed \cup {NoToken}
    BY <2>1 DEF Inv, TypeOK, Token, Parsed
  <2>3. TypeOK'
    BY <2>1, <2>2 DEF Inv, TypeOK, Token, Parsed, queue, calls
  <2>4. Shape'
    BY <2>1 DEF Inv, Shape, DownIsEmpty, NotYetStarted, ServesWaiting,
       StoresParsed, queue, calls
  <2>5. Disk'
    BY <2>1, Ids DEF Inv, Shape, DownIsEmpty, Disk, MemoryIsFile,
       StoredInOrder, queue
  <2>6. Calls'
    BY <2>1 DEF Inv, Shape, DownIsEmpty, Calls, AskedEarlier, ReplyIsReady,
       HandedIsDurable, AnswerIsFresh, queue, calls
  <2> QED
    BY <2>3, <2>4, <2>5, <2>6 DEF Inv
<1>2. CASE Start
  <2>1. TypeOK'
    BY <1>2 DEF Start, Inv, TypeOK, store, calls
  <2>2. Shape'
    BY <1>2 DEF Start, Inv, Shape, DownIsEmpty, NotYetStarted, ServesWaiting,
       StoresParsed, store, calls
  <2>3. Disk'
    BY <1>2 DEF Start, Inv, Shape, NotYetStarted, Disk, MemoryIsFile,
       StoredInOrder, store
  <2>4. Calls'
    BY <1>2 DEF Start, Inv, Calls, AskedEarlier, ReplyIsReady,
       HandedIsDurable, AnswerIsFresh, store, calls
  <2> QED
    BY <2>1, <2>2, <2>3, <2>4 DEF Inv
<1>3. CASE Stop
  <2>1. TypeOK'
    BY <1>3 DEF Stop, Inv, TypeOK, store, queue, calls
  <2>2. Shape'
    BY <1>3 DEF Stop, Inv, Shape, DownIsEmpty, NotYetStarted, ServesWaiting,
       StoresParsed, store, queue, calls
  <2>3. Disk'
    BY <1>3 DEF Stop, Inv, Disk, MemoryIsFile, StoredInOrder, store, queue
  <2>4. Calls'
    BY <1>3 DEF Stop, Inv, Calls, AskedEarlier, ReplyIsReady,
       HandedIsDurable, AnswerIsFresh, store, queue, calls
  <2> QED
    BY <2>1, <2>2, <2>3, <2>4 DEF Inv
<1>4. CASE Crash
  <2>1. TypeOK'
    BY <1>4 DEF Crash, Inv, TypeOK, Tag
  <2>2. Shape'
    BY <1>4 DEF Crash, Inv, Shape, DownIsEmpty, NotYetStarted, ServesWaiting,
       StoresParsed
  <2>3. Disk'
    BY <1>4, Ids DEF Crash, Inv, Disk, MemoryIsFile, StoredInOrder
  <2>4. Calls'
    BY <1>4 DEF Crash, Calls, AskedEarlier, ReplyIsReady,
       HandedIsDurable, AnswerIsFresh
  <2> QED
    BY <2>1, <2>2, <2>3, <2>4 DEF Inv
<1>5. ASSUME NEW n \in 1..MaxToken, ComeDue(n)
      PROVE  Inv'
  BY <1>5, AsideInv DEF ComeDue, Inv, TypeOK
<1>6. CASE NtpSync
  BY <1>6, AsideInv DEF NtpSync, Inv, TypeOK
<1> QED
  BY <1>1, <1>2, <1>3, <1>4, <1>5, <1>6 DEF Process

-----------------------------------------------------------------------------
(* A request enters the queue.                                             *)
LEMMA SendInv ==
  ASSUME NEW p \in Requester, NEW r \in [tag : Tag, force : BOOLEAN],
         Inv, phase # "down", Send(p, r), UNCHANGED <<refresher, rtok>>
  PROVE  Inv'
<1> DEFINE to == IF phase = "init" THEN "lost" ELSE "sending"
<1>1. to \in {"lost", "sending"}
  OBVIOUS
<1>2. /\ state[p] = "idle"
      /\ state' = [state EXCEPT ![p] = to]
      /\ req' = [req EXCEPT ![p] = r]
      /\ asked' = [asked EXCEPT ![p] = current.id]
      /\ UNCHANGED <<phase, store, due, issued, behind, queue, answer>>
  BY DEF Send
<1> HIDE DEF to
<1>3. TypeOK'
  <2>1. current.id \in 0..MaxToken
    BY Ids DEF Inv
  <2>2. state' \in [Requester ->
                     {"idle", "lost", "sending", "waiting", "answered"}]
    BY <1>1, <1>2 DEF Inv, TypeOK
  <2> QED
    BY <1>2, <2>1, <2>2 DEF Inv, TypeOK, store, queue
<1>4. \A q \in Requester \ {p} : state'[q] = state[q] /\ req'[q] = req[q]
                                 /\ asked'[q] = asked[q]
  BY <1>2 DEF Inv, TypeOK
<1>5. state'[p] \in {"lost", "sending"} /\ asked'[p] = current.id
  BY <1>1, <1>2 DEF Inv, TypeOK
<1>6. job \in Requester /\ (worker \notin {"off", "select"} => job # p)
  BY <1>2 DEF Inv, TypeOK, Shape, ServesWaiting
<1>7. Shape'
  BY <1>2, <1>4, <1>6 DEF Inv, Shape, DownIsEmpty, NotYetStarted,
     ServesWaiting, StoresParsed, store, queue
<1>8. Disk'
  BY <1>2 DEF Inv, Disk, MemoryIsFile, StoredInOrder, store, queue
<1>9. AskedEarlier'
  <2>1. current' = current /\ current.id <= current.id
    BY <1>2, Ids DEF Inv, store
  <2> QED
    BY <1>4, <1>5, <2>1 DEF Inv, Calls, AskedEarlier
<1>10. ReplyIsReady'
  BY <1>2, <1>4, <1>6 DEF Inv, Calls, ReplyIsReady, store, queue
<1>11. HandedIsDurable' /\ AnswerIsFresh'
  BY <1>2, <1>4, <1>5 DEF Inv, Calls, HandedIsDurable, AnswerIsFresh, store
<1> QED
  BY <1>3, <1>7, <1>8, <1>9, <1>10, <1>11 DEF Inv, Calls

(* A call returns.                                                         *)
LEMMA ReturnInv ==
  ASSUME NEW p \in Requester, Inv, Return(p),
         refresher' \in {"off", "check", "clock", "timer", "ask", "pause"},
         refresher = "off" => refresher' = "off",
         rtok' \in 0..MaxToken
  PROVE  Inv'
<1>1. /\ state[p] = "answered"
      /\ state' = [state EXCEPT ![p] = "idle"]
      /\ req' = [req EXCEPT ![p] = [tag |-> "Jwt", force |-> FALSE]]
      /\ asked' = [asked EXCEPT ![p] = 0]
      /\ answer' = [answer EXCEPT ![p] = 0]
      /\ UNCHANGED <<phase, store, due, issued, behind, queue>>
  BY DEF Return
<1>2. TypeOK'
  <2>1. [tag |-> "Jwt", force |-> FALSE] \in [tag : Tag, force : BOOLEAN]
    BY DEF Tag
  <2>2. 0 \in 0..MaxToken
    BY ServiceAssumption
  <2> QED
    BY <1>1, <2>1, <2>2 DEF Inv, TypeOK, store, queue
<1>3. \A q \in Requester \ {p} : /\ state'[q] = state[q] /\ req'[q] = req[q]
                                 /\ asked'[q] = asked[q]
                                 /\ answer'[q] = answer[q]
  BY <1>1 DEF Inv, TypeOK
<1>4. state'[p] = "idle"
  BY <1>1 DEF Inv, TypeOK
<1>5. job \in Requester /\ (worker \notin {"off", "select"} => job # p)
  BY <1>1 DEF Inv, TypeOK, Shape, ServesWaiting
<1>6. Shape'
  BY <1>1, <1>3, <1>4, <1>5 DEF Inv, Shape, DownIsEmpty, NotYetStarted,
     ServesWaiting, StoresParsed, store, queue
<1>7. Disk'
  BY <1>1 DEF Inv, Disk, MemoryIsFile, StoredInOrder, store, queue
<1>8. AskedEarlier' /\ HandedIsDurable' /\ AnswerIsFresh'
  BY <1>1, <1>3, <1>4 DEF Inv, Calls, AskedEarlier, HandedIsDurable,
     AnswerIsFresh, store
<1>9. ReplyIsReady'
  BY <1>1, <1>3, <1>5 DEF Inv, Calls, ReplyIsReady, store, queue
<1> QED
  BY <1>2, <1>6, <1>7, <1>8, <1>9 DEF Inv, Calls

LEMMA CallersInv == ASSUME Inv, Callers PROVE Inv'
<1>1. ASSUME NEW c \in Client, NEW r \in [tag : Tag, force : BOOLEAN], Ask(c, r)
      PROVE  Inv'
  BY <1>1, SendInv DEF Ask, Requester
<1>2. ASSUME NEW c \in Client, Receive(c)
      PROVE  Inv'
  BY <1>2, ReturnInv DEF Receive, Requester, Inv, TypeOK
<1> QED
  BY <1>1, <1>2 DEF Callers

LEMMA RefreshInv == ASSUME Inv, Refresh PROVE Inv'
<1> USE ServiceAssumption
<1>1. Refresher \in Requester
  BY DEF Requester
<1>2. CASE Check
  <2>1. current.id \in 0..MaxToken
    BY Ids DEF Inv
  <2> QED
    BY <1>2, <2>1, AsideInv DEF Check, Inv, TypeOK
<1>3. CASE Clock
  <2>1. (IF rtok \in due THEN "ask" ELSE "timer") \in {"ask", "timer"}
    OBVIOUS
  <2>2. refresher' \in {"ask", "timer"} /\ refresher = "clock"
    BY <1>3, <2>1 DEF Clock
  <2> QED
    BY <1>3, <2>2, AsideInv DEF Clock, Inv, TypeOK
<1>4. CASE Timer
  BY <1>4, AsideInv DEF Timer, Inv, TypeOK
<1>5. CASE AskRefresh
  <2>1. [tag |-> "Jwt", force |-> FALSE] \in [tag : Tag, force : BOOLEAN]
    BY DEF Tag
  <2>2. phase # "down"
    BY <1>5 DEF AskRefresh, Inv, Shape, DownIsEmpty
  <2> QED
    BY <1>1, <1>5, <2>1, <2>2, SendInv DEF AskRefresh
<1>6. CASE Refreshed
  BY <1>1, <1>6, ReturnInv DEF Refreshed
<1>7. CASE Pause
  BY <1>7, AsideInv DEF Pause, Inv, TypeOK
<1>8. CASE RefresherExits
  BY <1>8, AsideInv DEF RefresherExits, Inv, TypeOK
<1> QED
  BY <1>2, <1>3, <1>4, <1>5, <1>6, <1>7, <1>8 DEF Refresh

-----------------------------------------------------------------------------
(* The routine takes a request, and answers at once or calls the server.   *)
LEMMA TakeInv == ASSUME NEW p \in Requester, Inv, Take(p) PROVE Inv'
<1>1. /\ worker = "select" /\ state[p] = "sending"
      /\ state' = [state EXCEPT ![p] = "waiting"]
      /\ job' = p
      /\ UNCHANGED <<phase, store, due, issued, behind, bundle, req, asked,
                     refresher, rtok>>
  BY DEF Take
<1>2. \/ /\ AnswerNow(req[p])
         /\ worker' = "reply"
         /\ answer' = [answer EXCEPT ![p] = current.id]
      \/ worker' = "rpc" /\ answer' = answer
  BY DEF Take
<1>3. current.id \in 0..MaxToken /\ current.id <= file.id
  BY Ids DEF Inv, Disk, StoredInOrder
<1>4. TypeOK'
  <2>1. answer' \in [Requester -> 0..MaxToken]
    BY <1>2, <1>3 DEF Inv, TypeOK
  <2>2. worker' \in {"reply", "rpc"}
    BY <1>2
  <2> QED
    BY <1>1, <2>1, <2>2 DEF Inv, TypeOK, store
<1>5. /\ state'[p] = "waiting"
      /\ \A q \in Requester \ {p} : state'[q] = state[q] /\ answer'[q] = answer[q]
  BY <1>1, <1>2 DEF Inv, TypeOK
<1>6. worker' \in {"reply", "rpc"} /\ phase \notin {"down", "init"}
  BY <1>1, <1>2 DEF Inv, Shape, DownIsEmpty, NotYetStarted
<1>7. Shape'
  BY <1>1, <1>5, <1>6 DEF Inv, Shape, DownIsEmpty, NotYetStarted,
     ServesWaiting, StoresParsed, store
<1>8. Disk'
  BY <1>1, <1>6 DEF Inv, Disk, MemoryIsFile, StoredInOrder, store
<1>9. AskedEarlier'
  BY <1>1, <1>5 DEF Inv, Calls, AskedEarlier, store
<1>10. ReplyIsReady'
  <2> SUFFICES ASSUME worker' = "reply"
               PROVE  /\ answer'[p] <= file.id
                      /\ req[p].tag = "Jwt" /\ answer'[p] # 0 =>
                           /\ answer'[p] >= asked[p]
                           /\ req[p].force => answer'[p] > asked[p]
    BY <1>1 DEF ReplyIsReady, store
  <2>1. AnswerNow(req[p]) /\ answer'[p] = current.id
    BY <1>2 DEF Inv, TypeOK
  <2>2. asked[p] <= current.id
    BY <1>1 DEF Inv, Calls, AskedEarlier
  <2>3. answer'[p] # 0 => current # NoToken
    BY <2>1 DEF NoToken
  <2>4. answer'[p] # 0 /\ req[p].tag = "Jwt" => ~req[p].force
    BY <2>1, <2>3 DEF AnswerNow
  <2> QED
    BY <1>3, <2>1, <2>2, <2>4, Ids DEF Inv
<1>11. HandedIsDurable' /\ AnswerIsFresh'
  BY <1>1, <1>5 DEF Inv, Calls, HandedIsDurable, AnswerIsFresh, store
<1> QED
  BY <1>4, <1>7, <1>8, <1>9, <1>10, <1>11 DEF Inv, Calls

(***************************************************************************)
(* The routine is about to reply with number n for the request it handles. *)
(***************************************************************************)
LEMMA AnswerInv ==
  ASSUME NEW n \in 0..MaxToken, Inv, worker \notin {"off", "select"},
         worker' = "reply", answer' = [answer EXCEPT ![job] = n],
         UNCHANGED <<phase, due, behind, job, state, req, asked, refresher,
                     rtok>>,
         TypeOK', Disk', current.id <= current'.id,
         phase = "down" => current' = current,
         \A q \in Requester : answer[q] <= file.id => answer[q] <= file'.id,
         req[job].tag \in {"Auth", "Jwt"} => n <= file'.id,
         req[job].tag = "Jwt" /\ n # 0 => n > current.id
  PROVE  Inv'
<1>1. job \in Requester /\ state[job] = "waiting"
  BY DEF Inv, TypeOK, Shape, ServesWaiting
<1>2. /\ answer'[job] = n
      /\ \A q \in Requester \ {job} : answer'[q] = answer[q]
  BY <1>1 DEF Inv, TypeOK
<1>3. Shape'
  BY <1>1 DEF Inv, Shape, DownIsEmpty, NotYetStarted, ServesWaiting,
     StoresParsed
<1>4. \A q \in Requester : asked[q] \in Nat
  BY Ids DEF Inv
<1>5. current.id \in Nat /\ current'.id \in Nat
  BY Ids DEF Inv, TypeOK, Parsed, NoToken
<1>6. AskedEarlier'
  BY <1>4, <1>5 DEF Inv, Calls, AskedEarlier
<1>7. asked[job] <= current.id
  BY <1>1 DEF Inv, Calls, AskedEarlier
<1>8. ReplyIsReady'
  BY <1>1, <1>2, <1>4, <1>5, <1>7 DEF ReplyIsReady
<1>9. HandedIsDurable' /\ AnswerIsFresh'
  BY <1>1, <1>2 DEF Inv, Calls, HandedIsDurable, AnswerIsFresh
<1> QED
  BY <1>3, <1>6, <1>8, <1>9 DEF Inv, Calls

(* A step of the routine on the way to the store.                          *)
LEMMA OnTheWayInv ==
  ASSUME Inv, worker \notin {"off", "select"}, worker' \in {"save", "saved"},
         TypeOK', Disk',
         UNCHANGED <<phase, current, due, behind, job, calls, refresher, rtok>>,
         req[job].tag \in {"Auth", "Jwt"},
         \A q \in Requester : answer[q] <= file.id => answer[q] <= file'.id
  PROVE  Inv'
<1>1. Shape'
  BY DEF Inv, Shape, DownIsEmpty, NotYetStarted, ServesWaiting, StoresParsed,
     calls
<1>2. Calls'
  BY DEF Inv, Calls, AskedEarlier, ReplyIsReady, HandedIsDurable,
     AnswerIsFresh, calls
<1> QED
  BY <1>1, <1>2 DEF Inv

(* Requests that fail leave the store as it is.                            *)
LEMMA FailInv ==
  ASSUME Inv, worker \in {"rpc", "save"}, Fail, issued' \in issued..MaxToken,
         UNCHANGED <<phase, store, due, behind, job, state, req, asked,
                     refresher, rtok>>
  PROVE  Inv'
<1>1. 0 \in 0..MaxToken /\ issued \in 0..MaxToken
  BY ServiceAssumption, Ids DEF Inv
<1>2. /\ worker' = "reply" /\ bundle' = NoToken
      /\ answer' = [answer EXCEPT ![job] = 0]
  BY DEF Fail
<1>3. TypeOK'
  BY <1>1, <1>2 DEF Inv, TypeOK, store
<1>4. file.id \in 0..MaxToken /\ current.id \in 0..MaxToken
  BY Ids DEF Inv
<1>5. Disk'
  BY <1>1, <1>2, <1>4 DEF Inv, Disk, MemoryIsFile, StoredInOrder, store
<1>6. /\ file' = file /\ current' = current /\ 0 <= file.id
      /\ current.id <= current.id
  BY <1>4 DEF store
<1>7. worker \notin {"off", "select"}
  OBVIOUS
<1> QED
  BY <1>1, <1>2, <1>3, <1>5, <1>6, <1>7, AnswerInv

LEMMA ServerAnswersInv ==
  ASSUME NEW t \in Token, Inv, ServerAnswers(t) PROVE Inv'
<1>1. /\ worker = "rpc" /\ t.id = issued + 1 /\ issued' = issued + 1
      /\ UNCHANGED <<phase, store, due, behind, job, state, req, asked,
                     refresher, rtok>>
  BY DEF ServerAnswers
<1>2. /\ t.id \in 1..MaxToken /\ issued \in 0..MaxToken
      /\ file.id \in 0..MaxToken /\ current.id \in 0..MaxToken
  BY Ids DEF Inv, Token
<1>3. issued' \in issued..MaxToken
  BY <1>1, <1>2
<1>4. CASE ~ParseJwt
  <2>1. worker' = "reply" /\ answer' = [answer EXCEPT ![job] = t.id]
        /\ bundle' = bundle
    BY <1>4 DEF ServerAnswers
  <2>2. TypeOK'
    BY <1>1, <1>2, <1>3, <2>1 DEF Inv, TypeOK, store
  <2>3. Disk'
    BY <1>1, <1>2, <2>1 DEF Inv, Disk, MemoryIsFile, StoredInOrder, store
  <2>4. /\ file' = file /\ current' = current /\ current.id <= current.id
        /\ req[job].tag \notin {"Auth", "Jwt"} /\ t.id \in 0..MaxToken
    BY <1>1, <1>2, <1>4 DEF ParseJwt, store
  <2> QED
    BY <1>1, <2>1, <2>2, <2>3, <2>4, AnswerInv
<1>5. CASE ParseJwt /\ t.kind = "garbage"
  <2>1. Fail
    BY <1>5 DEF ServerAnswers
  <2> QED
    BY <1>1, <1>3, <2>1, FailInv
<1>6. CASE ParseJwt /\ t.kind # "garbage"
  <2>1. bundle' = t /\ worker' = "save" /\ answer' = answer
    BY <1>6 DEF ServerAnswers
  <2>2. t \in Parsed /\ t # NoToken
    BY <1>2, <1>6 DEF Token, Parsed, NoToken
  <2>3. TypeOK'
    BY <1>1, <1>2, <1>3, <2>1, <2>2 DEF Inv, TypeOK, store
  <2>4. Disk'
    BY <1>1, <1>2, <2>1, <2>2 DEF Inv, Disk, MemoryIsFile, StoredInOrder, store
  <2> QED
    BY <1>1, <1>6, <2>1, <2>3, <2>4, OnTheWayInv DEF ParseJwt, store, calls
<1> QED
  BY <1>4, <1>5, <1>6

(* The file is replaced, then the token in memory.                         *)
LEMMA SaveInv == ASSUME Inv, Save PROVE Inv'
<1>1. /\ worker = "save" /\ worker' = "saved" /\ file' = bundle
      /\ UNCHANGED <<phase, current, due, issued, behind, job, bundle, calls,
                     refresher, rtok>>
  BY DEF Save
<1>2. /\ bundle.id > file.id /\ bundle.id <= issued /\ current.id <= file.id
      /\ bundle.id \in Nat /\ file.id \in Nat /\ current.id \in Nat
      /\ issued \in Nat
  BY <1>1, Ids DEF Inv, Disk, StoredInOrder
<1>3. TypeOK'
  BY <1>1 DEF Inv, TypeOK, calls, Token, Parsed
<1>4. Disk'
  BY <1>1, <1>2 DEF Disk, MemoryIsFile, StoredInOrder
<1>5. \A q \in Requester : answer[q] <= file.id => answer[q] <= file'.id
  BY <1>1, <1>2, Ids DEF Inv
<1>6. req[job].tag \in {"Auth", "Jwt"}
  BY <1>1 DEF Inv, Shape, StoresParsed
<1> QED
  BY <1>1, <1>3, <1>4, <1>5, <1>6, OnTheWayInv

LEMMA InstallInv == ASSUME Inv, Install PROVE Inv'
<1>1. /\ worker = "saved" /\ worker' = "reply" /\ current' = bundle
      /\ answer' = [answer EXCEPT ![job] = bundle.id] /\ bundle' = NoToken
      /\ UNCHANGED <<phase, file, due, issued, behind, job, state, req, asked,
                     refresher, rtok>>
  BY DEF Install
<1>2. /\ bundle = file /\ bundle.id > current.id
      /\ bundle.id \in 0..MaxToken /\ current.id \in 0..MaxToken
  BY <1>1, Ids DEF Inv, Disk, StoredInOrder
<1>3. TypeOK'
  BY <1>1, <1>2 DEF Inv, TypeOK
<1>4. Disk'
  BY <1>1, <1>2 DEF Inv, Disk, MemoryIsFile, StoredInOrder
<1>5. phase # "down"
  BY <1>1 DEF Inv, Shape, DownIsEmpty
<1>6. /\ current.id <= current'.id /\ bundle.id <= file'.id
      /\ \A q \in Requester : answer[q] <= file.id => answer[q] <= file'.id
  BY <1>1, <1>2
<1> QED
  BY <1>1, <1>2, <1>3, <1>4, <1>5, <1>6, AnswerInv

LEMMA ReplyInv == ASSUME Inv, Reply PROVE Inv'
<1>1. /\ worker = "reply" /\ worker' = "select"
      /\ state' = [state EXCEPT ![job] = "answered"]
      /\ UNCHANGED <<phase, store, due, issued, behind, job, bundle, req,
                     asked, answer, refresher, rtok>>
  BY DEF Reply
<1>2. job \in Requester /\ state'[job] = "answered"
      /\ \A q \in Requester \ {job} : state'[q] = state[q]
  BY <1>1 DEF Inv, TypeOK
<1>3. TypeOK'
  BY <1>1 DEF Inv, TypeOK, store
<1>4. Shape'
  BY <1>1, <1>2 DEF Inv, Shape, DownIsEmpty, NotYetStarted, ServesWaiting,
     StoresParsed, store
<1>5. Disk'
  BY <1>1 DEF Inv, Disk, MemoryIsFile, StoredInOrder, store
<1>6. AskedEarlier' /\ ReplyIsReady'
  BY <1>1, <1>2 DEF Inv, Calls, AskedEarlier, ReplyIsReady, store
<1>7. HandedIsDurable' /\ AnswerIsFresh'
  BY <1>1, <1>2 DEF Inv, Calls, ReplyIsReady, HandedIsDurable, AnswerIsFresh,
     store
<1> QED
  BY <1>3, <1>4, <1>5, <1>6, <1>7 DEF Inv, Calls

LEMMA WorkerExitsInv == ASSUME Inv, WorkerExits PROVE Inv'
<1>1. TypeOK'
  BY DEF WorkerExits, Inv, TypeOK, store, calls
<1>2. Shape'
  BY DEF WorkerExits, Inv, Shape, DownIsEmpty, NotYetStarted, ServesWaiting,
     StoresParsed, store, calls
<1>3. Disk'
  BY DEF WorkerExits, Inv, Disk, MemoryIsFile, StoredInOrder, store
<1>4. Calls'
  BY DEF WorkerExits, Inv, Calls, AskedEarlier, ReplyIsReady,
     HandedIsDurable, AnswerIsFresh, store, calls
<1> QED
  BY <1>1, <1>2, <1>3, <1>4 DEF Inv

LEMMA WorkerInv == ASSUME Inv, Worker PROVE Inv'
<1>1. issued \in issued..MaxToken
  BY Ids DEF Inv
<1>2. CASE ServerError
  BY <1>1, <1>2, FailInv DEF ServerError
<1>3. CASE SaveError
  BY <1>1, <1>3, FailInv DEF SaveError
<1> QED
  BY <1>2, <1>3, TakeInv, ServerAnswersInv, SaveInv, InstallInv, ReplyInv,
     WorkerExitsInv DEF Worker

-----------------------------------------------------------------------------
LEMMA NextInv == Inv /\ [Next]_vars => Inv'
<1>1. ASSUME Inv, UNCHANGED vars PROVE Inv'
  <2>1. due \in SUBSET (1..MaxToken) /\ behind \in BOOLEAN
        /\ rtok \in 0..MaxToken
        /\ refresher \in {"off", "check", "clock", "timer", "ask", "pause"}
    BY <1>1 DEF Inv, TypeOK
  <2> QED
    BY <1>1, <2>1, AsideInv DEF vars
<1> QED
  BY <1>1, ProcessInv, CallersInv, WorkerInv, RefreshInv DEF Next

(***************************************************************************)
(* The inductive invariant holds in every reachable state.                 *)
(***************************************************************************)
THEOREM Invariance == Spec => []Inv
  BY InitInv, NextInv, PTL DEF Spec

(***************************************************************************)
(* Every reachable state is well typed: no token that does not parse ever  *)
(* becomes the current one.                                                *)
(***************************************************************************)
THEOREM TypeCorrect == Spec => []TypeOK
<1>1. Inv => TypeOK
  BY DEF Inv
<1> QED
  BY <1>1, Invariance, PTL

(***************************************************************************)
(* While the process is up, memory and disk hold the same token, but for   *)
(* the moment between the two assignments of ParseAndStoreToken.           *)
(***************************************************************************)
THEOREM DiskFollowed == Spec => []MemoryIsFile
<1>1. Inv => MemoryIsFile
  BY DEF Inv, Disk
<1> QED
  BY <1>1, Invariance, PTL

(***************************************************************************)
(* A token that was handed to a requester is on disk, or a newer one is.   *)
(***************************************************************************)
THEOREM Durable == Spec => []HandedIsDurable
<1>1. Inv => HandedIsDurable
  BY DEF Inv, Calls
<1> QED
  BY <1>1, Invariance, PTL

(***************************************************************************)
(* However many requests were served in between, a JWT is no older than    *)
(* the one that was current when it was asked for.                         *)
(***************************************************************************)
THEOREM Fresh == Spec => []AnswerIsFresh
<1>1. Inv => AnswerIsFresh
  BY DEF Inv, Calls
<1> QED
  BY <1>1, Invariance, PTL

(***************************************************************************)
(* Tokens are replaced by newer ones only, and only on behalf of a JWT     *)
(* refresh or a primary association.                                       *)
(***************************************************************************)
THEOREM NewerOnly == Spec => ReplacedByNewer
<1> DEFINE Newer == phase # "down" /\ phase' # "down" /\ current' # current =>
                      /\ current'.id > current.id
                      /\ req[job].tag \in {"Auth", "Jwt"}
<1>1. ASSUME Inv, Next PROVE Newer
  <2>1. CASE Install
    BY <1>1, <2>1 DEF Install, Inv, Disk, StoredInOrder, Shape, StoresParsed
  <2>2. CASE Worker /\ ~Install
    BY <2>2 DEF Worker, Take, ServerError, ServerAnswers, Save, SaveError,
       Reply, WorkerExits, store
  <2>3. CASE Process
    BY <2>3 DEF Process, Boot, Start, Stop, Crash, ComeDue, NtpSync, store
  <2>4. CASE Callers
    BY <2>4 DEF Callers, Ask, Send, Receive, Return, store
  <2>5. CASE Refresh
    BY <2>5 DEF Refresh, Check, Clock, Timer, AskRefresh, Refreshed, Pause,
       RefresherExits, Send, Return, store
  <2> QED
    BY <1>1, <2>1, <2>2, <2>3, <2>4, <2>5 DEF Next
<1>2. Inv /\ [Next]_vars => [Newer]_vars
  BY <1>1
<1> QED
  BY <1>2, Invariance, PTL DEF Spec, ReplacedByNewer

-----------------------------------------------------------------------------
(* TokenService implements RobotToken.                                     *)

Call == [p \in Requester |-> CallOf(p)]
Told == [p \in Requester |-> AnswerOf(p)]

(* What is seen of a call, by where the call and the routine are.          *)
CallReads ==
  \A p \in Requester :
    /\ CallOf(p) = "none" <=> state[p] = "idle"
    /\ CallOf(p) = "asked" <=> state[p] \in {"lost", "sending"}
    /\ CallOf(p) = "served" <=> Handled(p) /\ worker = "rpc"
    /\ CallOf(p) = "offered" <=> Handled(p) /\ worker = "save"
    /\ CallOf(p) \in {"none", "asked", "served", "offered", "settled"}

LEMMA CallIs == CallReads
<1> SUFFICES ASSUME NEW p \in Requester
             PROVE  /\ CallOf(p) = "none" <=> state[p] = "idle"
                    /\ CallOf(p) = "asked" <=> state[p] \in {"lost", "sending"}
                    /\ CallOf(p) = "served" <=> Handled(p) /\ worker = "rpc"
                    /\ CallOf(p) = "offered" <=> Handled(p) /\ worker = "save"
                    /\ CallOf(p) \in {"none", "asked", "served", "offered",
                                      "settled"}
  BY DEF CallReads
<1>1. CASE state[p] = "idle"
  BY <1>1 DEF CallOf, Handled
<1>2. CASE state[p] \in {"lost", "sending"}
  BY <1>2 DEF CallOf, Handled
<1>3. CASE state[p] \notin {"idle", "lost", "sending"}
  BY <1>3 DEF CallOf, Handled
<1> QED
  BY <1>1, <1>2, <1>3

LEMMA CallIsNext == CallReads'
  BY CallIs, PTL

(* Nobody is at the server while the routine waits for a request.          *)
LEMMA NotBusy == ASSUME worker \notin {"rpc", "save"} PROVE ~Robot!Busy
  BY CallIs DEF CallReads, Robot!Busy

(* One call moves, or is told something.                                   *)
LEMMA OneCall ==
  ASSUME NEW p \in Requester,
         \A q \in Requester \ {p} : CallOf(q)' = CallOf(q)
                                    /\ AnswerOf(q)' = AnswerOf(q)
  PROVE  /\ Call' = [Call EXCEPT ![p] = CallOf(p)']
         /\ Told' = [Told EXCEPT ![p] = AnswerOf(p)']
         /\ AnswerOf(p)' = AnswerOf(p) => Told' = Told
         /\ CallOf(p)' = CallOf(p) => Call' = Call
  BY DEF Call, Told

(* Steps that callers do not see.                                          *)
LEMMA UnseenKept ==
  ASSUME UNCHANGED <<file, issued, req, answer, state, job, bundle>>,
         (phase # "down")' = (phase # "down"),
         worker' = worker \/ {worker, worker'} \subseteq {"off", "select", "reply"}
  PROVE  UNCHANGED <<phase # "down", file, issued, Call, req, Told>>
<1>1. \A p \in Requester : CallOf(p)' = CallOf(p)
  BY DEF CallOf, Handled
<1>2. \A p \in Requester : AnswerOf(p)' = AnswerOf(p)
  BY DEF AnswerOf
<1> QED
  BY <1>1, <1>2 DEF Call, Told

(* A step of the routine that decides what it will answer.                 *)
LEMMA SettleKept ==
  ASSUME NEW n \in Nat, Inv, worker \notin {"off", "select"},
         worker' \in {"saved", "reply"}, AnswerOf(job)' = n,
         UNCHANGED <<phase, req, job, state>>,
         \A q \in Requester \ {job} : answer'[q] = answer[q]
  PROVE  Robot!Settle(job, n)
<1>1. job \in Requester /\ state[job] = "waiting"
  BY DEF Inv, TypeOK, Shape, ServesWaiting
<1>2. CallOf(job)' = "settled"
  BY <1>1, CallIsNext DEF CallReads, Handled
<1>3. ASSUME NEW q \in Requester \ {job}
      PROVE  CallOf(q)' = CallOf(q) /\ AnswerOf(q)' = AnswerOf(q)
  BY <1>3 DEF CallOf, Handled, AnswerOf
<1> QED
  BY <1>1, <1>2, <1>3, OneCall DEF Robot!Settle, Call, Told

-----------------------------------------------------------------------------
LEMMA SendKept ==
  ASSUME NEW p \in Requester, NEW r, Inv, phase # "down", Send(p, r)
  PROVE  Robot!Ask(p, r)
<1>1. /\ state[p] = "idle" /\ state'[p] \in {"lost", "sending"}
      /\ \A q \in Requester \ {p} : state'[q] = state[q]
      /\ req' = [req EXCEPT ![p] = r]
      /\ UNCHANGED <<phase, file, issued, job, worker, bundle, answer>>
  BY DEF Send, Inv, TypeOK, store, queue
<1>2. CallOf(p) = "none" /\ CallOf(p)' = "asked"
  BY <1>1, CallIs, CallIsNext DEF CallReads
<1>3. \A q \in Requester \ {p} : CallOf(q)' = CallOf(q)
  BY <1>1 DEF CallOf, Handled
<1>4. \A q \in Requester : AnswerOf(q)' = AnswerOf(q)
  BY <1>1 DEF AnswerOf
<1>5. Call' = [Call EXCEPT ![p] = "asked"] /\ Told' = Told
  BY <1>2, <1>3, <1>4, OneCall
<1> QED
  BY <1>1, <1>2, <1>5 DEF Robot!Ask, Call, Told

LEMMA ReturnKept ==
  ASSUME NEW p \in Requester, Inv, Return(p) PROVE Robot!Return(p)
<1>1. /\ state[p] = "answered" /\ state'[p] = "idle" /\ answer'[p] = 0
      /\ \A q \in Requester \ {p} : state'[q] = state[q] /\ answer'[q] = answer[q]
      /\ req' = [req EXCEPT ![p] = [tag |-> "Jwt", force |-> FALSE]]
      /\ UNCHANGED <<phase, file, issued, job, worker, bundle>>
  BY DEF Return, Inv, TypeOK, store, queue
<1>2. worker = "saved" => job # p
  BY <1>1 DEF Inv, Shape, ServesWaiting
<1>3. CallOf(p) = "settled" /\ CallOf(p)' = "none" /\ AnswerOf(p)' = 0
  BY <1>1, <1>2, CallIs, CallIsNext DEF CallReads, Handled, AnswerOf
<1>4. \A q \in Requester \ {p} : CallOf(q)' = CallOf(q)
                                 /\ AnswerOf(q)' = AnswerOf(q)
  BY <1>1 DEF CallOf, Handled, AnswerOf
<1> QED
  BY <1>1, <1>3, <1>4, OneCall DEF Robot!Return, Robot!NoRequest, Call, Told

LEMMA TakeKept ==
  ASSUME NEW p \in Requester, Inv, Take(p)
  PROVE  Robot!Read(p) \/ Robot!Serve(p)
<1>1. /\ worker = "select" /\ state[p] = "sending" /\ state'[p] = "waiting"
      /\ \A q \in Requester \ {p} : state'[q] = state[q]
      /\ job' = p
      /\ UNCHANGED <<phase, file, current, issued, bundle, req>>
  BY DEF Take, Inv, TypeOK, store
<1>2. \A q \in Requester \ {p} : answer'[q] = answer[q]
  BY DEF Take, Inv, TypeOK
<1>3. worker' \in {"reply", "rpc"}
  BY DEF Take
<1>4. CallOf(p) = "asked" /\ ~Robot!Busy
  BY <1>1, CallIs, NotBusy DEF CallReads
<1>5. \A q \in Requester \ {p} : CallOf(q)' = CallOf(q)
                                 /\ AnswerOf(q)' = AnswerOf(q)
  BY <1>1, <1>2, <1>3 DEF CallOf, Handled, AnswerOf
<1>6. file = current /\ file \in Parsed \cup {NoToken}
  BY <1>1 DEF Inv, TypeOK, Disk, MemoryIsFile, Shape, DownIsEmpty
<1>7. CASE AnswerNow(req[p])
  <2>1. worker' = "reply" /\ answer'[p] = current.id
    BY <1>7 DEF Take, Inv, TypeOK
  <2>2. CallOf(p)' = "settled" /\ AnswerOf(p)' = file.id
    BY <1>1, <1>6, <2>1, CallIsNext DEF CallReads, Handled, AnswerOf
  <2>3. Robot!Settle(p, file.id)
    BY <1>1, <1>5, <2>2, OneCall DEF Robot!Settle, Call, Told
  <2>4. \/ req[p].tag = "Jwt" /\ ~req[p].force /\ file.kind # "garbage"
        \/ Robot!NeedsToken(p) /\ file = NoToken
    BY <1>6, <1>7 DEF AnswerNow, Robot!NeedsToken, Parsed, NoToken
  <2> QED
    BY <1>1, <1>4, <2>3, <2>4 DEF Robot!Read, Call
<1>8. CASE ~AnswerNow(req[p])
  <2>1. worker' = "rpc" /\ answer' = answer
    BY <1>8 DEF Take
  <2>2. CallOf(p)' = "served" /\ AnswerOf(p)' = AnswerOf(p)
    BY <1>1, <2>1, CallIsNext DEF CallReads, Handled, AnswerOf
  <2>3. Call' = [Call EXCEPT ![p] = "served"] /\ Told' = Told
    BY <1>5, <2>2, OneCall
  <2>4. Robot!NeedsToken(p) => file # NoToken
    BY <1>6, <1>8 DEF AnswerNow, Robot!NeedsToken
  <2> QED
    BY <1>1, <1>4, <2>3, <2>4 DEF Robot!Serve, Call, Told
<1> QED
  BY <1>7, <1>8

LEMMA AtServer ==
  ASSUME Inv, worker \in {"rpc", "save"}
  PROVE  /\ job \in Requester
         /\ CallOf(job) = IF worker = "rpc" THEN "served" ELSE "offered"
BY CallIs DEF CallReads, Handled, Inv, TypeOK, Shape, ServesWaiting

LEMMA FailKept ==
  ASSUME Inv, worker \in {"rpc", "save"}, Fail, UNCHANGED <<phase, req, job, state>>
  PROVE  Robot!Settle(job, 0)
<1>1. /\ answer'[job] = 0 /\ worker' = "reply"
      /\ \A q \in Requester \ {job} : answer'[q] = answer[q]
  BY AtServer DEF Fail, Inv, TypeOK
<1> QED
  BY <1>1, SettleKept DEF AnswerOf

(* The server refuses, or the token cannot be saved.                       *)
LEMMA RefuseKept ==
  ASSUME Inv, ServerError \/ SaveError PROVE Robot!Refuse(job)
<1>1. /\ worker \in {"rpc", "save"} /\ Fail
      /\ UNCHANGED <<phase, file, issued, req, job, state>>
  BY DEF ServerError, SaveError, store
<1> QED
  BY <1>1, AtServer, FailKept DEF Robot!Refuse

LEMMA IssueKept ==
  ASSUME NEW t \in Token, Inv, ServerAnswers(t) PROVE Robot!Issue(job)
<1>1. /\ worker = "rpc" /\ t.id = issued + 1 /\ issued' = issued + 1
      /\ t.id \in Nat
      /\ UNCHANGED <<phase, file, req, job, state>>
  BY ServiceAssumption DEF ServerAnswers, store, Token
<1>2. job \in Requester /\ CallOf(job) = "served" /\ state[job] = "waiting"
  BY <1>1, AtServer DEF Inv, Shape, ServesWaiting
<1>3. CASE ~ParseJwt
  <2>1. /\ answer'[job] = t.id /\ worker' = "reply"
        /\ \A q \in Requester \ {job} : answer'[q] = answer[q]
    BY <1>2, <1>3 DEF ServerAnswers, Inv, TypeOK
  <2>2. AnswerOf(job)' = t.id
    BY <1>1, <2>1 DEF AnswerOf
  <2>3. Robot!Settle(job, t.id)
    BY <1>1, <2>1, <2>2, SettleKept
  <2> QED
    BY <1>1, <1>2, <1>3, <2>3 DEF Robot!Issue, Robot!OwnToken, ParseJwt
<1>4. CASE ParseJwt /\ t.kind = "garbage"
  <2>1. Robot!Settle(job, 0)
    BY <1>1, <1>4, FailKept DEF ServerAnswers
  <2> QED
    BY <1>1, <1>2, <1>4, <2>1 DEF Robot!Issue, Robot!OwnToken, ParseJwt
<1>5. CASE ParseJwt /\ t.kind # "garbage"
  <2>1. worker' = "save" /\ answer' = answer
    BY <1>5 DEF ServerAnswers
  <2>2. CallOf(job)' = "offered"
    BY <1>1, <1>2, <2>1, CallIsNext DEF CallReads, Handled
  <2>3. \A q \in Requester \ {job} : CallOf(q)' = CallOf(q)
    BY <1>1, <2>1 DEF CallOf, Handled
  <2>4. \A q \in Requester : AnswerOf(q)' = AnswerOf(q)
    BY <1>1, <2>1 DEF AnswerOf
  <2>5. Call' = [Call EXCEPT ![job] = "offered"] /\ Told' = Told
    BY <1>1, <1>2, <2>2, <2>3, <2>4, OneCall
  <2> QED
    BY <1>1, <1>2, <1>5, <2>5
       DEF Robot!Issue, Robot!OwnToken, ParseJwt, Call, Told
<1> QED
  BY <1>3, <1>4, <1>5

(* The rename of the file is the moment at which the token is replaced.    *)
LEMMA ReplaceKept ==
  ASSUME Inv, Save PROVE \E t \in Token : Robot!Replace(job, t)
<1>1. /\ worker = "save" /\ worker' = "saved" /\ file' = bundle
      /\ UNCHANGED <<phase, issued, req, job, state, bundle, answer>>
  BY DEF Save, calls
<1>2. bundle \in Parsed /\ bundle.id > file.id /\ bundle.id = issued
  BY <1>1 DEF Inv, TypeOK, Disk, StoredInOrder
<1>3. bundle \in Token /\ bundle.kind # "garbage" /\ bundle.id \in Nat
  BY <1>2, ServiceAssumption DEF Token, Parsed
<1>4. AnswerOf(job)' = bundle.id
  BY <1>1 DEF AnswerOf
<1>5. Robot!Settle(job, bundle.id)
  BY <1>1, <1>3, <1>4, SettleKept
<1>6. Robot!Replace(job, bundle)
  BY <1>1, <1>2, <1>3, <1>5, AtServer DEF Robot!Replace
<1> QED
  BY <1>3, <1>6

(* Memory follows the file: nothing a caller could tell.                   *)
LEMMA InstallUnseen ==
  ASSUME Inv, Install
  PROVE  UNCHANGED <<phase # "down", file, issued, Call, req, Told>>
<1>1. /\ worker = "saved" /\ worker' = "reply"
      /\ answer' = [answer EXCEPT ![job] = bundle.id]
      /\ UNCHANGED <<phase, file, issued, req, job, state>>
  BY DEF Install
<1>2. job \in Requester /\ answer \in [Requester -> 0..MaxToken]
  BY DEF Inv, TypeOK
<1>3. \A p \in Requester : CallOf(p)' = CallOf(p)
  BY <1>1 DEF CallOf, Handled
<1>4. \A p \in Requester : AnswerOf(p)' = AnswerOf(p)
  BY <1>1, <1>2 DEF AnswerOf
<1> QED
  BY <1>1, <1>3, <1>4 DEF Call, Told

(* The response goes out: the call was settled before.                     *)
LEMMA ReplyUnseen ==
  ASSUME Inv, Reply
  PROVE  UNCHANGED <<phase # "down", file, issued, Call, req, Told>>
<1>1. /\ worker = "reply" /\ worker' = "select" /\ state[job] = "waiting"
      /\ state'[job] = "answered"
      /\ \A q \in Requester \ {job} : state'[q] = state[q]
      /\ UNCHANGED <<phase, file, issued, req, job, bundle, answer>>
  BY DEF Reply, Inv, TypeOK, Shape, ServesWaiting, store
<1>2. \A p \in Requester : CallOf(p)' = CallOf(p)
  BY <1>1 DEF CallOf, Handled
<1>3. \A p \in Requester : AnswerOf(p)' = AnswerOf(p)
  BY <1>1 DEF AnswerOf
<1> QED
  BY <1>1, <1>2, <1>3 DEF Call, Told

LEMMA CrashKept == ASSUME Inv, Crash PROVE Robot!Crash
<1>1. /\ phase # "down" /\ phase' = "down" /\ worker' = "off"
      /\ state' = [p \in Requester |-> "idle"]
      /\ answer' = [p \in Requester |-> 0]
      /\ req' = [p \in Requester |-> [tag |-> "Jwt", force |-> FALSE]]
      /\ UNCHANGED <<file, issued>>
  BY DEF Crash
<1>2. \A p \in Requester : CallOf(p)' = "none" /\ AnswerOf(p)' = 0
  BY <1>1, CallIsNext DEF CallReads, AnswerOf
<1> QED
  BY <1>1, <1>2 DEF Robot!Crash, Robot!NoCalls, Robot!NoRequest

LEMMA StartKept == ASSUME Inv, Boot PROVE Robot!Start
<1>1. /\ phase = "down" /\ (phase' # "down") = (file.kind # "garbage")
      /\ file' = IF file.kind = "good" THEN file ELSE NoToken
      /\ UNCHANGED <<issued, req, answer, state, job, worker, bundle>>
  BY DEF Boot, queue, calls
<1>2. \A p \in Requester : CallOf(p)' = CallOf(p) /\ AnswerOf(p)' = AnswerOf(p)
  BY <1>1 DEF CallOf, Handled, AnswerOf
<1> QED
  BY <1>1, <1>2 DEF Robot!Start

-----------------------------------------------------------------------------
LEMMA RobotInit == Init => Robot!Init
<1> SUFFICES ASSUME Init PROVE Robot!Init
  OBVIOUS
<1>1. \A p \in Requester : CallOf(p) = "none" /\ AnswerOf(p) = 0
  BY CallIs DEF Init, CallReads, AnswerOf
<1>2. file \in Token \cup {NoToken} /\ file.id = issued /\ issued \in Nat
  BY DEF Init
<1> QED
  BY <1>1, <1>2 DEF Init, Robot!Init, Robot!NoCalls, Robot!NoRequest

LEMMA RobotStep ==
  ASSUME Inv, Next
  PROVE  \/ Robot!Next
         \/ UNCHANGED <<phase # "down", file, issued, Call, req, Told>>
<1>1. Refresher \in Requester /\ Client \subseteq Requester /\ job \in Requester
  BY DEF Requester, Inv, TypeOK
<1>2. CASE Process
  <2>1. CASE Boot
    BY <2>1, StartKept DEF Robot!Next
  <2>2. CASE Crash
    BY <2>2, CrashKept DEF Robot!Next
  <2>3. CASE Start \/ Stop \/ NtpSync \/ \E n \in 1..MaxToken : ComeDue(n)
    BY <2>3, UnseenKept DEF Inv, Shape, NotYetStarted, Start, Stop, NtpSync,
       ComeDue, store, queue, calls
  <2> QED
    BY <1>2, <2>1, <2>2, <2>3 DEF Process
<1>3. CASE Callers
  <2>1. ASSUME NEW c \in Client, NEW r \in [tag : Tag, force : BOOLEAN],
               Ask(c, r)
        PROVE  Robot!Next
    BY <1>1, <2>1, SendKept DEF Ask, Robot!Next
  <2>2. ASSUME NEW c \in Client, Receive(c)
        PROVE  Robot!Next
    BY <1>1, <2>2, ReturnKept DEF Receive, Robot!Next
  <2> QED
    BY <1>3, <2>1, <2>2 DEF Callers
<1>4. CASE Worker
  <2>1. CASE \E p \in Requester : Take(p)
    BY <2>1, TakeKept DEF Robot!Next
  <2>2. CASE ServerError \/ SaveError
    BY <1>1, <2>2, RefuseKept DEF Robot!Next
  <2>3. CASE \E t \in Token : ServerAnswers(t)
    BY <1>1, <2>3, IssueKept DEF Robot!Next
  <2>4. CASE Save
    BY <1>1, <2>4, ReplaceKept DEF Robot!Next
  <2>5. CASE Install \/ Reply
    BY <2>5, InstallUnseen, ReplyUnseen
  <2>6. CASE WorkerExits
    BY <2>6, UnseenKept DEF WorkerExits, store, calls
  <2> QED
    BY <1>4, <2>1, <2>2, <2>3, <2>4, <2>5, <2>6 DEF Worker
<1>5. CASE Refresh
  <2>1. CASE AskRefresh
    <3>1. phase # "down"
      BY <2>1 DEF AskRefresh, Inv, Shape, DownIsEmpty
    <3>2. [tag |-> "Jwt", force |-> FALSE] \in [tag : Tag, force : BOOLEAN]
      BY DEF Tag
    <3> QED
      BY <1>1, <2>1, <3>1, <3>2, SendKept DEF AskRefresh, Robot!Next
  <2>2. CASE Refreshed
    BY <1>1, <2>2, ReturnKept DEF Refreshed, Robot!Next
  <2>3. CASE Check \/ Clock \/ Timer \/ Pause \/ RefresherExits
    BY <2>3, UnseenKept DEF Check, Clock, Timer, Pause, RefresherExits, store,
       queue, calls
  <2> QED
    BY <1>5, <2>1, <2>2, <2>3 DEF Refresh
<1> QED
  BY <1>2, <1>3, <1>4, <1>5 DEF Next

(***************************************************************************)
(* For any callers and any number of tokens: seen from the callers, the    *)
(* queue, the file and the memory are one token that outlives the process, *)
(* read or replaced at one moment of a call, and replaced only by a newer  *)
(* one that the server issued for the robot itself.                        *)
(***************************************************************************)
THEOREM RobotTokenKept == Spec => ImplementsRobotToken
<1>1. Inv /\ [Next]_vars =>
        [Robot!Next]_<<phase # "down", file, issued, Call, req, Told>>
  <2>1. ASSUME UNCHANGED vars
        PROVE  UNCHANGED <<phase # "down", file, issued, Call, req, Told>>
    BY <2>1, UnseenKept DEF vars, store, queue, calls
  <2> QED
    BY <2>1, RobotStep
<1>2. Inv /\ [Next]_vars =>
        [Robot!Next]_<<phase # "down", file, issued,
                       [p \in Requester |-> CallOf(p)], req,
                       [p \in Requester |-> AnswerOf(p)]>>
  BY <1>1 DEF Call, Told
<1> QED
  BY <1>2, RobotInit, Invariance, PTL DEF Spec, ImplementsRobotToken, Robot!Spec

-----------------------------------------------------------------------------
(***************************************************************************)
(* The safety behind RequestAnswered and DueIsRefreshed: a request that    *)
(* was taken is in the routine's hands, which nothing but Stop or a crash  *)
(* takes from the queue, and the refresher is there for its own answer.    *)
(***************************************************************************)
TakenIsServed ==
  \A p \in Requester :
    state[p] = "waiting" => p = job /\ worker \notin {"off", "select"}

RunningIsServed ==
  /\ phase = "running" => worker # "off" /\ refresher # "off"
  /\ phase \in {"down", "init"} => refresher = "off"

RefresherHears == state[Refresher] # "idle" => refresher = "ask"

AsksWhenDue == refresher = "ask" => rtok \in due

NobodyIsOverlooked ==
  TakenIsServed /\ RunningIsServed /\ RefresherHears /\ AsksWhenDue

LEMMA OverlookedInit == Init => NobodyIsOverlooked
  BY DEF Init, NobodyIsOverlooked, TakenIsServed, RunningIsServed,
     RefresherHears, AsksWhenDue, Requester

LEMMA ProcessOverlooks ==
  ASSUME Inv, NobodyIsOverlooked, Process PROVE NobodyIsOverlooked'
<1> USE DEF NobodyIsOverlooked, TakenIsServed, RunningIsServed, RefresherHears,
            AsksWhenDue
<1>1. CASE Boot
  BY <1>1 DEF Boot, queue, calls
<1>2. CASE Start
  <2>1. worker = "off" /\ refresher = "off"
    BY <1>2 DEF Start, Inv, Shape, NotYetStarted
  <2>2. /\ phase' = "running" /\ worker' = "select" /\ refresher' = "check"
        /\ UNCHANGED <<state, due, job, rtok>>
    BY <1>2 DEF Start, calls
  <2> QED
    BY <2>1, <2>2
<1>3. CASE Stop
  BY <1>3 DEF Stop, queue, calls
<1>4. CASE Crash
  BY <1>4 DEF Crash, Requester
<1>5. CASE NtpSync \/ \E n \in 1..MaxToken : ComeDue(n)
  BY <1>5 DEF NtpSync, ComeDue, queue, calls
<1> QED
  BY <1>1, <1>2, <1>3, <1>4, <1>5 DEF Process

LEMMA SendOverlooks ==
  ASSUME Inv, NobodyIsOverlooked, NEW p \in Requester,
         NEW r \in [tag : Tag, force : BOOLEAN], Send(p, r),
         UNCHANGED <<refresher, rtok>>, p = Refresher => refresher = "ask"
  PROVE  NobodyIsOverlooked'
<1>1. /\ state' = [state EXCEPT ![p] = state'[p]]
      /\ state'[p] \in {"lost", "sending"}
      /\ UNCHANGED <<phase, worker, job, due>>
  BY DEF Send, Inv, TypeOK, queue
<1>2. \A q \in Requester : state'[q] = state[q] \/ q = p
  BY <1>1 DEF Inv, TypeOK
<1>3. TakenIsServed'
  BY <1>1, <1>2 DEF NobodyIsOverlooked, TakenIsServed
<1>4. RefresherHears'
  BY <1>2 DEF NobodyIsOverlooked, RefresherHears, Requester
<1> QED
  BY <1>1, <1>3, <1>4 DEF NobodyIsOverlooked, RunningIsServed, AsksWhenDue

LEMMA ReturnOverlooks ==
  ASSUME Inv, NobodyIsOverlooked, NEW p \in Requester, Return(p),
         \/ refresher' = refresher /\ rtok' = rtok
         \/ p = Refresher /\ refresher' = "pause"
  PROVE  NobodyIsOverlooked'
<1>1. /\ state'[p] = "idle"
      /\ \A q \in Requester \ {p} : state'[q] = state[q]
      /\ UNCHANGED <<phase, worker, job, due>>
  BY DEF Return, Inv, TypeOK, queue
<1>2. TakenIsServed'
  BY <1>1 DEF NobodyIsOverlooked, TakenIsServed
<1>3. RefresherHears'
  BY <1>1 DEF NobodyIsOverlooked, RefresherHears, Requester
<1>4. p = Refresher => refresher = "ask"
  BY DEF Return, NobodyIsOverlooked, RefresherHears
<1>5. \/ refresher' = refresher
      \/ refresher = "ask" /\ refresher' = "pause"
  BY <1>4
<1>6. RunningIsServed'
  BY <1>1, <1>5 DEF NobodyIsOverlooked, RunningIsServed
<1>7. AsksWhenDue'
  BY <1>1 DEF NobodyIsOverlooked, AsksWhenDue
<1> QED
  BY <1>2, <1>3, <1>6, <1>7 DEF NobodyIsOverlooked

LEMMA WorkerOverlooks ==
  ASSUME Inv, NobodyIsOverlooked, Worker PROVE NobodyIsOverlooked'
<1>1. UNCHANGED <<phase, due, refresher, rtok>>
  BY DEF Worker, Take, ServerError, ServerAnswers, Save, SaveError, Install,
     Reply, WorkerExits, store, calls
<1>2. AsksWhenDue'
  BY <1>1 DEF NobodyIsOverlooked, AsksWhenDue
<1>3. ASSUME NEW p \in Requester, Take(p)
      PROVE  TakenIsServed' /\ RunningIsServed' /\ RefresherHears'
  <2>1. /\ worker = "select" /\ worker' \in {"reply", "rpc"} /\ job' = p
        /\ state[p] = "sending" /\ state'[p] = "waiting"
        /\ \A q \in Requester \ {p} : state'[q] = state[q]
    BY <1>3 DEF Take, Inv, TypeOK
  <2>2. \A q \in Requester : state[q] # "waiting"
    BY <2>1 DEF NobodyIsOverlooked, TakenIsServed
  <2>3. TakenIsServed'
    BY <2>1, <2>2 DEF TakenIsServed
  <2>4. RunningIsServed'
    BY <1>1, <2>1 DEF NobodyIsOverlooked, RunningIsServed
  <2>5. RefresherHears'
    BY <1>1, <2>1 DEF NobodyIsOverlooked, RefresherHears, Requester
  <2> QED
    BY <2>3, <2>4, <2>5
<1>4. CASE \/ ServerError \/ Save \/ SaveError \/ Install
           \/ \E t \in Token : ServerAnswers(t)
  <2>1. /\ worker' \in {"save", "saved", "reply"}
        /\ worker \in {"rpc", "save", "saved"}
        /\ UNCHANGED <<state, job>>
    BY <1>4 DEF ServerError, Save, SaveError, Install, ServerAnswers, Fail,
       calls
  <2> QED
    BY <1>1, <1>2, <2>1 DEF NobodyIsOverlooked, TakenIsServed, RunningIsServed,
       RefresherHears
<1>5. CASE Reply
  <2>1. /\ worker' = "select" /\ worker = "reply" /\ state'[job] = "answered"
        /\ \A q \in Requester \ {job} : state'[q] = state[q]
        /\ state[job] = "waiting"
    BY <1>5 DEF Reply, Inv, TypeOK, Shape, ServesWaiting
  <2>2. TakenIsServed'
    BY <2>1 DEF NobodyIsOverlooked, TakenIsServed
  <2>3. RefresherHears'
    BY <1>1, <2>1 DEF NobodyIsOverlooked, RefresherHears, Requester
  <2>4. RunningIsServed'
    BY <1>1, <2>1 DEF NobodyIsOverlooked, RunningIsServed
  <2> QED
    BY <1>2, <2>2, <2>3, <2>4 DEF NobodyIsOverlooked
<1>6. CASE WorkerExits
  BY <1>1, <1>2, <1>6 DEF WorkerExits, NobodyIsOverlooked, TakenIsServed,
     RunningIsServed, RefresherHears, calls
<1> QED
  BY <1>2, <1>3, <1>4, <1>5, <1>6 DEF Worker, NobodyIsOverlooked

LEMMA RefreshOverlooks ==
  ASSUME Inv, NobodyIsOverlooked, Refresh PROVE NobodyIsOverlooked'
<1>1. Refresher \in Requester
  BY DEF Requester
<1>2. CASE AskRefresh
  <2>1. [tag |-> "Jwt", force |-> FALSE] \in [tag : Tag, force : BOOLEAN]
    BY DEF Tag
  <2> QED
    BY <1>1, <1>2, <2>1, SendOverlooks DEF AskRefresh
<1>3. CASE Refreshed
  BY <1>1, <1>3, ReturnOverlooks DEF Refreshed
<1>4. CASE Check \/ Clock \/ Timer \/ Pause \/ RefresherExits
  <2>1. /\ refresher \notin {"off", "ask"}
        /\ UNCHANGED <<phase, due, state, worker, job>>
        /\ refresher' = "off" => phase = "stopped"
        /\ refresher' = "ask" => rtok' \in due
    BY <1>4 DEF Check, Clock, Timer, Pause, RefresherExits, queue, calls
  <2>2. TakenIsServed' /\ RefresherHears' /\ AsksWhenDue'
    BY <2>1 DEF NobodyIsOverlooked, TakenIsServed, RefresherHears, AsksWhenDue
  <2>3. RunningIsServed'
    BY <2>1 DEF NobodyIsOverlooked, RunningIsServed
  <2> QED
    BY <2>2, <2>3 DEF NobodyIsOverlooked
<1> QED
  BY <1>2, <1>3, <1>4 DEF Refresh

(***************************************************************************)
(* For any callers and tokens: while the service runs its routine and its  *)
(* refresher are there, a request that was taken is the one the routine is *)
(* working on, and the refresher asks only for a token that came due.      *)
(***************************************************************************)
THEOREM TakenAreServed == Spec => []NobodyIsOverlooked
<1>1. ASSUME Inv, NobodyIsOverlooked, Callers PROVE NobodyIsOverlooked'
  <2>1. ASSUME NEW c \in Client, NEW r \in [tag : Tag, force : BOOLEAN],
               Ask(c, r)
        PROVE  NobodyIsOverlooked'
    BY <1>1, <2>1, SendOverlooks, ServiceAssumption DEF Ask, Requester
  <2>2. ASSUME NEW c \in Client, Receive(c) PROVE NobodyIsOverlooked'
    <3>1. c \in Requester
      BY DEF Requester
    <3>2. Return(c)
      BY <2>2 DEF Receive
    <3>3. \/ refresher' = refresher /\ rtok' = rtok
          \/ c = Refresher /\ refresher' = "pause"
      BY <2>2 DEF Receive
    <3> QED
      BY <1>1, <3>1, <3>2, <3>3, ReturnOverlooks
  <2> QED
    BY <1>1, <2>1, <2>2 DEF Callers
<1>2. ASSUME UNCHANGED vars, NobodyIsOverlooked PROVE NobodyIsOverlooked'
  BY <1>2 DEF vars, queue, calls, NobodyIsOverlooked, TakenIsServed,
     RunningIsServed, RefresherHears, AsksWhenDue
<1>3. Inv /\ NobodyIsOverlooked /\ [Next]_vars => NobodyIsOverlooked'
  BY <1>1, <1>2, ProcessOverlooks, WorkerOverlooks, RefreshOverlooks DEF Next
<1> QED
  BY <1>3, OverlookedInit, Invariance, PTL DEF Spec
=============================================================================
