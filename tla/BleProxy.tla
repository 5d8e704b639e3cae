------------------------------ MODULE BleProxy ------------------------------
(* Calls that come by way of Bluetooth. The loop that reads from            *)
(* switchboard starts a goroutine for every SdkProxyRequest; it posts the   *)
(* request to the gateway's own HTTP port, where the routes of              *)
(* ExternalInterface lead to a client stub and over gRPC to a handler of    *)
(* EngineCalls; what the handler returns is sent back to switchboard. The   *)
(* loop also answers two requests of switchboard itself, the one for new    *)
(* client tokens not before the tokens are there. A path that is no URL     *)
(* ends the whole process.                                                  *)
EXTENDS EngineCalls, ExternalInterface

CONSTANTS
  Inboxes(_) \* what switchboard may send, in its order, beside given calls

VARIABLES
  inbox,     \* messages of switchboard under way
  reader,    \* ProcessMessages: reading, or waiting for the tokens
  ble,       \* a call's way through the proxy; none for one by gRPC,
             \* panicked if its goroutine has ended the process
  path,      \* the path that was asked for
  reached,   \* the method the route leads to
  code,      \* the status in the SdkProxyResponse of a call
  written    \* the other answers sent to switchboard

proxyVars == <<inbox, reader, ble, path, reached, code, written>>
allVars == <<vars, proxyVars>>

(* Messages of switchboard. A path is kept without its version v1, with the *)
(* slash it may or may not begin with.                                      *)
SdkProxyRequest(c, slash, p) ==
  [kind |-> "SdkProxyRequest", call |-> c, slash |-> slash, path |-> p]
ExternalConnectionRequest == [kind |-> "ExternalConnectionRequest"]
ClientGuidRefreshRequest  == [kind |-> "ClientGuidRefreshRequest"]

NoPath == [slash |-> FALSE, path |-> "none"]

(* A path that net/url (external) refuses, such as one with half an escape. *)
NotAURL == "%"

Running == \A c \in Calls : ble[c] # "panicked"

-----------------------------------------------------------------------------
(* streamNameToURL: words of a name in lower case, with _ between them.     *)
streamNameToURL ==
  [EventStream |-> "event_stream",
   ExternalAudioStreamPlayback |-> "external_audio_stream_playback",
   BehaviorControl |-> "behavior_control", AudioFeed |-> "audio_feed",
   CameraFeed |-> "camera_feed", NavMapFeed |-> "nav_map_feed",
   AssumeBehaviorControl |-> "assume_behavior_control"]

StreamURLs ==
  {streamNameToURL[Streams[i].name] :
     i \in {j \in DOMAIN Streams :
              Streams[j].ServerStreams \/ Streams[j].ClientStreams}}

(* isStream compares with v1/..., which has no slash in front.              *)
isStream(p) == ~p.slash /\ p.path \in StreamURLs

(* The mux (external): of the routes with the path, the one added last.     *)
Matches(p) ==
  {i \in DOMAIN Handle : Handle[i].method = "POST"
                         /\ pattern[Handle[i].name] = p.path}
Route(p) == Handle[CHOOSE i \in Matches(p) : \A j \in Matches(p) : j <= i]

(* Mutant: a stub takes the description after its own.                      *)
StubOfNextStream(r) ==
  LET s == client[r.name]
  IN  IF s.stream THEN Streams[((s.at + 1) % Len(Streams)) + 1].name ELSE r.name

(* The method a route's client stub calls.                                  *)
StubOf(r) ==
  LET s == client[r.name]
  IN  IF s.stream THEN Streams[s.at + 1].name ELSE r.name

(* The route, the stub and the server have to agree on whether the answer   *)
(* is a stream; otherwise the call fails with Unimplemented or Internal.    *)
Agree(r) ==
  LET m == StubOf(r)
  IN  IF r.recv
      THEN /\ request[r.name] = "stream" /\ forward[r.name] = "stream"
           /\ server[m] \in {"feed", "duplex"}
      ELSE /\ request[r.name] = "message" /\ forward[r.name] = "message"
           /\ m \in Methods /\ server[m] = "unary"

(* The handlers of a method; some select their messages by the request.     *)
Variants ==
  [SendOnboardingInput |->
     {"SendOnboardingInput_Complete", "SendOnboardingInput_WakeUpStarted",
      "SendOnboardingInput_WakeUp", "SendOnboardingInput_SkipOnboarding",
      "SendOnboardingInput_Restart", "SendOnboardingInput_SetPhase",
      "SendOnboardingInput_PhaseProgress", "SendOnboardingInput_ChargeInfo",
      "SendOnboardingInput_MarkCompleteAndExit",
      "SendOnboardingInput_unexpected"},
   DeleteCustomObjects |->
     {"DeleteCustomObjects_ARCHETYPES",
      "DeleteCustomObjects_FIXED_CUSTOM_OBJECTS",
      "DeleteCustomObjects_CUSTOM_MARKER_OBJECTS",
      "DeleteCustomObjects_UNKNOWN"},
   DefineCustomObject |->
     {"DefineCustomObject_CustomBox", "DefineCustomObject_CustomCube",
      "DefineCustomObject_CustomWall", "DefineCustomObject_unexpected"}]

HandlersOf(m) ==
  IF m \in DOMAIN Handlers THEN {m}
  ELSE IF m \in DOMAIN Variants THEN Variants[m] ELSE {}

-----------------------------------------------------------------------------
(* What switchboard sends: each request is a call of its own.               *)
Messages ==
  [kind : {"SdkProxyRequest"}, call : Calls, slash : BOOLEAN, path : STRING]
  \union {ExternalConnectionRequest, ClientGuidRefreshRequest}

ASSUME ProxyAssumption ==
  /\ \A r \in Plays : \A b \in Inboxes(r) :
       /\ b \in Seq(Messages)
       /\ \A i, j \in DOMAIN b :
            /\ b[i].kind = "SdkProxyRequest" /\ b[j].kind = "SdkProxyRequest"
            /\ b[i].call = b[j].call
            => i = j
  /\ \A m \in DOMAIN Variants : Variants[m] \subseteq DOMAIN Handlers

ProxyInit ==
  /\ Init
  /\ inbox \in Inboxes(rpc)
  /\ reader = "reading"
  /\ ble = [c \in Calls |->
              IF \E i \in DOMAIN inbox :
                   inbox[i].kind = "SdkProxyRequest" /\ inbox[i].call = c
              THEN "sent" ELSE "none"]
  /\ path = [c \in Calls |-> NoPath]
  /\ reached = [c \in Calls |-> "none"]
  /\ code = [c \in Calls |-> "none"]
  /\ written = {}

(* Mutant: the proxy is called without a goroutine.                         *)
TakeProxyInline ==
  /\ Running /\ reader = "reading" /\ inbox # <<>>
  /\ \A c \in Calls : ble[c] \in {"none", "sent", "answered"}
  /\ Head(inbox).kind = "SdkProxyRequest"
  /\ inbox' = Tail(inbox)
  /\ ble' = [ble EXCEPT ![Head(inbox).call] = "handling"]
  /\ path' = [path EXCEPT ![Head(inbox).call] =
                [slash |-> Head(inbox).slash, path |-> Head(inbox).path]]
  /\ UNCHANGED <<vars, reader, reached, code, written>>

(* handleSwitchboardMessages: go func() { Write(bleProxy.handle(request)) } *)
TakeProxy ==
  /\ Running /\ reader = "reading" /\ inbox # <<>>
  /\ Head(inbox).kind = "SdkProxyRequest"
  /\ inbox' = Tail(inbox)
  /\ ble' = [ble EXCEPT ![Head(inbox).call] = "handling"]
  /\ path' = [path EXCEPT ![Head(inbox).call] =
                [slash |-> Head(inbox).slash, path |-> Head(inbox).path]]
  /\ UNCHANGED <<vars, reader, reached, code, written>>

TakeConnection ==
  /\ Running /\ reader = "reading" /\ inbox # <<>>
  /\ Head(inbox).kind = "ExternalConnectionRequest"
  /\ inbox' = Tail(inbox)
  /\ written' = written \union {"ExternalConnectionResponse"}
  /\ UNCHANGED <<vars, reader, ble, path, reached, code>>

(* ForceUpdate, and the wait for its response.                              *)
TakeRefresh ==
  /\ Running /\ reader = "reading" /\ inbox # <<>>
  /\ Head(inbox).kind = "ClientGuidRefreshRequest"
  /\ inbox' = Tail(inbox)
  /\ reader' = "refreshing"
  /\ UNCHANGED <<vars, ble, path, reached, code, written>>

TokensUpdated ==
  /\ Running /\ reader = "refreshing"
  /\ reader' = "reading"
  /\ written' = written \union {"ClientGuidRefreshResponse"}
  /\ UNCHANGED <<vars, inbox, ble, path, reached, code>>

-----------------------------------------------------------------------------
WriteResponse(c, status) ==
  /\ ble' = [ble EXCEPT ![c] = "answered"]
  /\ code' = [code EXCEPT ![c] = status]

Posted(c) == ~isStream(path[c]) /\ path[c].path # NotAURL

(* handle: the error of http.NewRequest is not looked at, and the request   *)
(* it did not make is nil. Nothing recovers the panic.                      *)
PostNil(c) ==
  /\ Running /\ ble[c] = "handling"
  /\ ~isStream(path[c]) /\ path[c].path = NotAURL
  /\ ble' = [ble EXCEPT ![c] = "panicked"]
  /\ UNCHANGED <<vars, inbox, reader, path, reached, code, written>>

(* A stream is refused, the gateway cannot be reached, or there is no such  *)
(* route or no right to use it.                                             *)
Deny(c) ==
  /\ Running /\ ble[c] = "handling"
  /\ \/ isStream(path[c]) /\ WriteResponse(c, "403")
     \/ Posted(c) /\ WriteResponse(c, "502")
     \/ Posted(c) /\ Matches(path[c]) = {} /\ WriteResponse(c, "404")
     \/ /\ Posted(c) /\ Matches(path[c]) # {}
        /\ StubOf(Route(path[c])) # "UserAuthentication"
        /\ WriteResponse(c, "401")
  /\ UNCHANGED <<vars, inbox, reader, path, reached, written>>

(* The route's handler runs; a stream goes on as long as it likes.          *)
Serve(c) ==
  /\ Running /\ ble[c] = "handling"
  /\ Posted(c) /\ Matches(path[c]) # {}
  /\ LET r == Route(path[c])
         m == IF Agree(r) THEN StubOf(r) ELSE "error"
     IN  /\ reached' = [reached EXCEPT ![c] = m]
         /\ \/ /\ \E h \in HandlersOf(m) : rpc' = [rpc EXCEPT ![c] = h]
               /\ ble' = [ble EXCEPT ![c] = "serving"]
               /\ UNCHANGED code
            \/ /\ HandlersOf(m) = {} /\ (r.recv => m = "error")
               /\ WriteResponse(c, IF m = "error" THEN "501" ELSE "200")
               /\ UNCHANGED rpc
            \/ /\ r.recv /\ m # "error"
               /\ ble' = [ble EXCEPT ![c] = "streaming"]
               /\ UNCHANGED <<rpc, code>>
  /\ UNCHANGED <<pc, chan, box, open, parts, mixed, result,
                 inbox, reader, path, written>>

(* The answer, or 500 in its place if it is too long for switchboard.       *)
Finish(c) ==
  /\ Running
  /\ \/ ble[c] = "serving" /\ pc[c] = "done"
     \/ ble[c] = "streaming"
  /\ \E status \in {"200", "500"} : WriteResponse(c, status)
  /\ UNCHANGED <<vars, inbox, reader, path, reached, written>>

CallStep(c) ==
  /\ Running /\ ble[c] \in {"none", "serving"}
  /\ HandlerStep(c)
  /\ UNCHANGED proxyVars

(* An answer of switchboard to UserAuthentication waits for the loop, too.  *)
AnswerStep(o, last) ==
  /\ Running /\ Answer(o, last)
  /\ open[o].manager = "switchboard" => reader = "reading"
  /\ UNCHANGED proxyVars

Read == TakeProxy \/ TakeConnection \/ TakeRefresh

ProxyNext ==
  \/ Read \/ TokensUpdated
  \/ \E c \in Calls :
       PostNil(c) \/ Deny(c) \/ Serve(c) \/ Finish(c) \/ CallStep(c)
  \/ \E o \in Calls, last \in BOOLEAN : AnswerStep(o, last)

(* The loop reads, goroutines run, the tokens come (module ClientTokens),   *)
(* the engine finishes; a stream need not end.                              *)
ProxySpec ==
  /\ ProxyInit /\ [][ProxyNext]_allVars
  /\ WF_allVars(Read) /\ WF_allVars(TokensUpdated)
  /\ \A c \in Calls :
       /\ WF_allVars(PostNil(c) \/ Deny(c) \/ Serve(c))
       /\ WF_allVars(pc[c] = "done" /\ Finish(c))
       /\ WF_allVars(CallStep(c)) /\ WF_allVars(AnswerStep(c, TRUE))

-----------------------------------------------------------------------------
(* A posted path runs the handler of the RPC whose route has that path:     *)
(* route, request function, client stub, stream description and server,     *)
(* generated apart and numbered apart, fit together.                        *)
PathReachesItsHandler ==
  \A c \in Calls : reached[c] # "none" =>
    /\ reached[c] \in DOMAIN pattern
    /\ pattern[reached[c]] = path[c].path

(* A call whose request the engine has returns, though answers may come     *)
(* faster than it reads, other calls take part in them, the channel may be  *)
(* closed under it, and UserAuthentication waits a second time; unless the  *)
(* process has ended.                                                       *)
CallReturns ==
  \A c \in Calls : pc[c] = "waiting" ~> (pc[c] = "done" \/ ~Running)

(* A request of switchboard is answered, although another one is a stream   *)
(* that never ends, the tokens are being renewed or the engine is slow;     *)
(* except by a stream, by UserAuthentication after a failed Write, and by a *)
(* process that a path has ended.                                           *)
ProxyAnswers ==
  \A c \in Calls :
    ble[c] = "sent" ~>
      \/ ble[c] \in {"answered", "streaming"}
      \/ pc[c] = "lost"
      \/ ~Running

=============================================================================
