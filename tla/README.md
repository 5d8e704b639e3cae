# vic-cloud and vic-gateway in TLA+

The repository builds the service of the Vector robot that talks to the outside:
**vic-cloud** (voice requests, tokens, jdocs) and **vic-gateway** (the gRPC server
of the app and the SDK). In this fork both are one Go process and speech is
recognised on the robot. The process is made of goroutines that share channels,
maps and package variables. What is hard to get right in it, and nearly impossible
to test, is how these interleave. This project models that.

## 1. Inventory

### The parts, their state and their operations

| part | source | state | operations | module |
|---|---|---|---|---|
| voice process | `internal/voice/process.go` | the current stream | hotword, audio, connection check, reports, stop | `VoiceProcess` |
| streamers | `internal/voice/stream` | per stream: context, two channels, three goroutines | create, add samples, cut chunks, recognise, close, time out | `VoiceProcess` |
| speech pipeline | `internal/voice/vtr/{sherpa,vad}.go` | package variables shared by all streams: audio, counters, detector, text | Process, DetectEndOfSpeech, sendUtterance | `SpeechPipeline` |
| token service | `internal/token` | request queue, its consumer, refresh timer | Auth, Secondary, Reassociate, Jwt, refresh, start, stop | `TokenService` |
| token store | `internal/token/identity` | token file, current token | init, parse, save, install | `TokenService` |
| client tokens | `cloud/tokens.go` | list of client tokens, index of the last match | CheckToken, update, ForceUpdate | `ClientTokens` |
| IPC managers | `cloud/ipc_manager.go` | channels of listeners by message tag | CreateChannel, CreateUniqueChannel, deregister, broadcast, read, write | `IpcManager`, `EngineCalls`, `CladWire` |
| RPC handlers | `cloud/message_handler.go` | per call: its channel | one per RPC: write a request, wait for its answer | `RpcHandlers`, `EngineCalls` |
| feeds | `cloud/message_handler.go` | per call: the group of chunks under way | AudioFeed, CameraFeed, CaptureSingleImage; NavMapFeed | `Feeds`, `NavMap` |
| behaviour control | `cloud/message_handler.go` | per call: id, done, two goroutines | BehaviorControl, AssumeBehaviorControl, ExternalAudioStreamPlayback | `BehaviorControl` |
| primary app, update status | `cloud/message_handler.go` | connection id, status flag, last progress | EventStream, StartUpdateEngine, UpdateStatusStream | `AppConnection` |
| BLE proxy | `cloud/switchboard_proxy.go` | names of streams | handle | `BleProxy` |
| gRPC service and routes | `internal/proto/.../external_interface.pb*.go` (generated) | none | stubs, descriptions, server, routes | `ExternalInterface` |
| engine's protobuf messages | `internal/proto/.../shared.pb.go` (generated) | none | encode and decode of the oneofs | `GatewayWrapper` |
| CLAD messages | `internal/clad` (generated) | none | Size, Pack, Unpack, accessors | `CladForms`, `Clad`, `CladCloud`, `CladGateway` |
| IPC sockets | `internal/ipc` | clients by address, reader, acceptor, givers | dial, read, write, close | `Sockets`, `CladWire` |
| jdocs, log collector | `internal/jdocs`, `internal/logcollector` | none | one request, one answer | handlers of `Sockets` |
| IPC router, backoff, STS, intents, start-up, ... | see section 5 | | | not modelled |

### How they interact

* The robot's microphone process sends hotwords and audio to `Process.Run` over a
  socket. `Run` creates a streamer per request; the streamer's goroutines report
  intents and timeouts back to `Run` on unbuffered channels. The recogniser of
  every stream calls the one speech pipeline, whose state is in package variables.
* The engine and switchboard talk to the gateway over datagram sockets. One
  goroutine per socket unpacks each message into one variable and broadcasts it to
  the channels that RPC handlers registered under the message's type. CLAD events
  are forwarded to the listeners of the protobuf manager, so two threads may
  broadcast at once. An answer carries no number of the request it is for.
* A gRPC call, or an HTTP request that the routes turn into one, passes
  `CheckToken` and runs a handler: it registers a channel, writes to the engine and
  waits. Requests that come over Bluetooth reach the loop that reads from
  switchboard, which starts a goroutine that posts them to the gateway's own port.
* Switchboard can force an update of the token list, and waits for it on that loop.
* Feeds switch the engine's audio or images on for everybody, put chunks together
  and switch off when they leave. Behaviour control belongs to one connection at a
  time; a call has a goroutine for each direction.
* An `EventStream` call asks switchboard who is paired before it is primary; the
  connection id it leaves behind keeps the update status stream alive.
* The services (token, jdocs, log collector) accept clients on a datagram socket
  each. Requests for tokens come from there, from the other services and from the
  refresher, and go through one queue; the token is in memory and in a file.

### What is hard, and what would be correct

* *Several streams at once.* A stream that timed out or was superseded still has
  goroutines that report. The robot must get one answer per request, of the
  current request (`ImplementsSession`), and everything must end
  (`StreamEventuallyClosed`, `RoutinesEnd`).
* *Channels closed under a sender.* A send on a closed channel kills the process
  (`PanicOnlyWhenDone`, `NeverPanics`), and messages must not get lost around it
  (`ImplementsRegistry`).
* *Package variables shared without a lock.* Flags that somebody must reset
  (`DeafHasDecoder`, `RunningHasStream`), pairs of values that must fit
  (`SentIsValid`), a list and an index into it (`CheckNeverPanics`).
* *One channel for many.* Checks wait on one `notifyValid` that two goroutines
  answer (`CheckEnds`); calls get every answer of a type (`AnswerIsOwn`,
  `CallReturns`), connections every answer about control, through a channel of
  room one (`KnowsLatest`).
* *Switches and control that somebody must give back* on every way out
  (`SilentWhenUnheard`, `ControlIsReleased`).
* *Messages lost, cut, or taken in another order* (`GroupIsWhole`, `MapIsWhole`,
  `ReadBack`, `ImplementsExchange`).
* *Tables generated apart that must agree* (`PrefixIsLength`, `AnswerIsOwn`,
  `PathReachesItsHandler`).
* *Crashes and failed writes.* A token that was handed out must be on disk
  (`HandedIsDurable`); an answer must not be stale (`AnswerIsFresh`); to those who
  ask there must be one token that outlives the process (`ImplementsRobotToken`).
* *Locks held, and readers kept, while waiting* (`BroadcastEnds`, `HandlerReturns`,
  `CallAnswered`, `ProxyAnswers`, `RequestHandled`), and closing while others wait
  (`CloseReturns`, `FeedEnds`, `ControlEnds`).

The list `hazards` of `PROJECT.json` has these at their lines. Known hazards that no
property is about:

* calls to the token server have no deadline: a server that never answers holds the
  only consumer of the queue (`internal/token/client.go:76`); a request that comes
  before the queue is initialised is lost (`internal/token/token.go:123`);
* `ForceUpdate` empties the list before it asks for a new one (`cloud/tokens.go:260`);
* a `StartUpdateEngine` that finds the flag of a stream that is just ending starts
  no stream (`cloud/message_handler.go:3115`);
* a protobuf message of the engine whose oneof is unset makes the reading goroutine
  panic (`cloud/ipc_manager.go:271`);
* the answer to an `EnableMarkerDetection` that turns detection off is not waited
  for and answers the next call that turns it on (inside `AnswerIsOwn`'s exception);
* two `CreateUniqueChannel` calls may both find the tag free and both register
  (`cloud/ipc_manager.go:188`); nothing panics, and `AnswerIsOwn` excludes such pairs;
* a proxied request whose path is no URL ends the process with a nil dereference
  (`cloud/switchboard_proxy.go:106`); the model has it (`PostNil`), the properties of
  the proxy are about a process that runs;
* a handler of the token service that has a request when the context ends may wait
  on the queue for ever (`internal/token/token.go:123`); the model has it
  (`BlockOnQueue`), `CloseReturns` says that everything else ends beside it;
* in code no service of the robot runs: a second `Close` of a connection panics
  (`internal/ipc/baseconn.go:26`), a short read desynchronises the framing of
  stream sockets (`internal/ipc/stream.go:24`), the slice `conns` is shared without
  a lock (`internal/ipc/baseserver.go:63`), the router may send on a channel while
  it closes (`internal/ipc/multi/server.go:152`), the backoff's test and assignment
  are apart (`internal/token/errorhandler.go:49`), the ring of the development build
  wraps (`internal/cloudproc/dev/connect.go:49`).

## 2. Modules

Each component has a module with its state and actions, a module `MC...` with the
model values of its instances, and its theorems are in a module `...Proofs`
(GatewayProofs for the gateway's RPC modules). Definitions carry the names of the
source; `map` in `PROJECT.json` gives the lines. Operators marked *Mutant* in
comments are variants of the definition that follows them: each property is
violated when one of them takes its place, which shows that the property depends
on that piece of code.

### Cloud services

**VoiceSession** is the abstract specification of the voice process: a request
opens a session and supersedes the open one; the open one is answered at most once.

**VoiceProcess** is `Run` and any number of streamers. `Run` is either in its
select or in `addBytes`. Each stream has a context (`done`), `bufferRoutine`,
recogniser and `cancelResponse`; sending a report and receiving it in `Run` is one
step, since the channels are unbuffered. Samples are counted, texts are a choice.
It implements VoiceSession under the mapping that reads a stream's phase from
`strm` and its answers.

**SpeechPipeline** opens what VoiceProcess takes as a choice: every test and
assignment of a package variable of `vtr` is a step of a recogniser or of a
`sendUtterance` goroutine, but for the two counters, which a frame reads and writes
in one. A frame that meets a detector which another recogniser has dropped ends the
process (`NoDetector`). Audio, and the text recognised from it, is the set of
streams it was spoken to. Recorded is whether two recognisers have found
`overarchingIgnore` unset one after the other, before the first one set it or was
done with its chunk (`apart`); otherwise recognisers overlap as they like.

**RobotToken** is the abstract specification of the token service: one token that
outlives the process. A call reads it, or replaces it by a newer one if it is of a
kind that may, in one step between its start and its answer, or is refused. A crash
takes the calls and leaves the token.

**TokenService** is the queue, its consumer, callers, the refresher and the token
store. A token is its number in the order of issue and how it parses. Save and
install are steps of their own; the process may crash before each of them and is
started again with what the file holds. It implements RobotToken under the mapping
that takes the file as the token and the rename of the saved file as the moment a
call replaces it.

**Exchange** is the abstract specification of the sockets: a client's requests are
handled in the order it sent them, none skipped, and it reads answers to its own
requests that were handled, in order, though some may be lost.

**Sockets** is the unix datagram server as the services use it, with its reader,
acceptor, givers and handlers, and its clients with their reader. Clients are told
apart by address and may be started again. Both ends may be closed at any time; the
server's reader may end at a failed read, which ends handlers and the acceptor but
leaves the socket open; and the context of the token service may take away the
consumer of the queue its handlers send to, which leaves them stuck. It implements
Exchange, with the same variables.

### Gateway

**ClientTokens** is `CheckToken` at each of its reads and writes of the list and
the index, the two goroutines that serve it and `ForceUpdate`. A list is its
length; the rate limiters' answer and whether a token matches are choices.

**Registry** is the abstract specification of the listener registry: a message goes
in one step to all who listen for its type; each gets it once, unless more are due
to it than its channel holds, which costs it the channel; a channel is only closed
when nothing is on its way to it; who wants to be alone is refused only while
somebody listens.

**IpcManager** is the listener registry under its RWMutex, written three times in
the file with the same code. A writer that waits keeps readers out, as in Go.
Messages are counted. It implements Registry under the mapping that counts as due
what waits in the channel and what goroutines of broadcasts still try to send.

**RpcHandlers** is a table with a row for each of the hundred ways to talk to the
engine or switchboard: what a handler checks, writes and listens for, and how long
it waits. **EngineCalls** gives the rows their behaviour: register, write, wait,
return, while answers go to every listener of their type and a listener that stays
full loses its channel. `UserAuthentication`, when it is authorised, waits a second
time, for the update of the client tokens. EngineCalls leaves the locks to
IpcManager, and takes the numbers under which members travel from
**GatewayWrapper**.

**BleProxy** extends EngineCalls by calls that come through switchboard: the loop,
the goroutine per request, the path, the route of **ExternalInterface**, its
client stub, the server's handler and the row of the method. A path that is no URL
makes the goroutine panic, which ends the process.

**Feeds** is AudioFeed, CameraFeed and CaptureSingleImage with the reassembly of
chunks (`Unpack`) and the switch of their source. **NavMap** is the map feed over
three channels and one select, between the message that asks for maps and the
deferred one that ends them. **BehaviorControl** is the two goroutines of the three
bidirectional calls; what the engine has to say of control to one connection goes to
the channels of all. The three share nothing but the registry;
**MCEngineStreams** puts them into one instance in which each behaviour is about
one of them.

**AppConnection** is `EventStream` up to its events, and the update status. The
answer of switchboard and the files of update-engine are choices. Each access to
`connectionId`, `statusStreamRunning`, `lastProgress` and `lastExpected` is a step.
Two history variables record what the properties exclude: primaries that share an
id (`shared`) and goroutines that use the last values at once (`overlapped`).

### Messages

**CladForms** has the forms of fields that the CLAD emitter knows, how numbers and
strings are written and read, and the accessors of a union; **Clad** is size, pack
and unpack for each form, by recursion over a table. **CladCloud** and **CladGateway** are the
structures and unions of the two packages in that notation, one definition each.
**CladWire** sends them: `Write`, the size in front, the datagram, the buffer that
may cut it, the loop that unpacks into one variable, the copies it hands on, and
the tag cells these share. Size, Pack, Unpack and the contents of messages are its
constants, which the run takes from Clad, so that what CladWire says can be proved
apart from the recursion.

**GatewayWrapper** keeps, for each of the 149 members of the engine's oneof and for
the events inside, the number that its struct tag, marshaler and unmarshaler give
it and the length its sizer counts, as one table per generated function.
**ExternalInterface** does the same for the gRPC service: stub, stream description,
server handler, request and forward function, route. The generated code states
these apart, so that it can disagree with itself; EngineCalls and BleProxy compose
them as a call does.

## 3. Runs

| run | instance | shows |
|---|---|---|
| `voice_process` | 2 streams, all modes, rejected locales, stop allowed | refinement of VoiceSession: one answer per request, of the current one; panics only when a context is done; streams and goroutines end |
| `ipc_manager` | 2 listeners of one tag, one unique, 2 threads | refinement of Registry; no send on a closed channel, broadcasts end, handlers return |
| `token_service` | 1 client and the refresher, 3 tokens | refinement of RobotToken: one token across saves, crashes and restarts; answers are durable and fresh, requests answered, due tokens refreshed |
| `client_tokens` | 2 checks, 1 forcer, lists up to 2 | checks and forcers end |
| `speech_pipeline` | 2 streams, 2 decoders, 2 chunks | never deaf for good; an utterance is decoded alone and no detector is missing, unless two recognisers pass the flag together; the robot listens again |
| `app_connection` | 2 streams (ids: same, other, none), 2 updates, 3 calls at once | the primary keeps its id unless ids are shared, callers are answered, the status stream is neither lost nor endless, valid progress unless goroutines overlap |
| `wire` | every message of all 11 flows, strings and slices empty, short, full and too long, 18 buffer sizes, 4 broken datagrams | the size in front fits, what is written is read back or refused whole, copies keep their tags |
| `ble_proxy` | 2 calls: each handler with itself, with those of the same answer, with another; every path, and one that is no URL, through switchboard | answers are one's own, calls return, paths lead to their handlers, the proxy answers |
| `engine_streams` | 2 feeds of a source, 3 maps of 3 parts, 2 connections (control beside control, control beside playback), 2 kinds of news | whole groups and maps, no news of control is missed, nothing left switched on or held, calls end |
| `sockets` | 2 clients, one started twice, sockets of room 1 | refinement of Exchange: requests and answers of the right client, in order; all handled while the reader reads; Close returns, also with a reader that has failed and handlers that are stuck |

**Why the bounds are enough.** The hazards are between a current and an outdated
instance, or between two that meet on one variable, so two of each kind show them.
Sizes are the smallest at which a buffer can be empty, partly full and full, and a
list empty, short and long. `MaxToken` 3 lets a token be replaced while the one
before is being handed out. `MaxCalls` of AppConnection limits calls that are
served *at the same time*, not how many there are: 3 of 4 gives two apps with an
update and one app with two updates. In its instance one stream always brings
`app1`, which loses nothing but a renaming and two SDK clients without an id.
In `wire`, every message is sent with two fillings (unions empty or set) and the
lengths 0, 2, 255 where a byte counts, and one more than the limit; the buffer cuts
at each of the first bytes and at three later ones. In `ble_proxy`, handlers that
share no answer do not interact, so pairs are enough, and a third call adds only
more of the same answers; `MaxParts` 2 gives a list a first, a middle and a last
answer. In `engine_streams`, groups have two chunks and channels room for two, so
that a chunk can be lost, taken out by SafeClose or be the first of the next group;
group numbers start over after two. Maps have three parts with room for two, so the
channel can be full. Two kinds of news (control granted, control lost) are what a
newest answer needs to differ from an older one; `BehaviorControl` and
`AssumeBehaviorControl` listen for the same answers, so one of each shows what two of
a kind do, and playback, which listens for others, is put beside the second. In
`sockets`, room 1 makes each writer wait; a client may be
started twice and send at any point of it; the last socket of a client stays open,
since closing the first shows all that closing does, and requests are at most two
per client. The proofs have none of these bounds.

**Fairness.** Goroutines that can run do (weak fairness of their steps), timers
fire, and whoever waits for a channel or a mutex that becomes free again and again
gets it (strong fairness; Go queues waiters, and `select` picks at random, so a
case that stays ready is taken). The environment is not fair: nobody has to speak,
call, read, leave or send. What is assumed of it is said in each module: the token
server answers or the call fails and the clock is set (TokenService), a decoding
ends (SpeechPipeline), switchboard answers (AppConnection), the engine finishes a
request it has taken and the update of the client tokens comes (EngineCalls; that it
does is what ClientTokens and BleProxy show), the engine goes on sending a source that is on (Feeds),
a client reads its answers until it closes (Sockets).

`CHECK_DEADLOCK FALSE` is used where the system may really stop: streams are used
up, a process has panicked, or nobody calls.

### Findings

Two runs violate a property that states what a comment or a message of the code says.

* `ipc_stuck`: with more slow listeners on a tag than `markedForDelete` holds (5 in
  the code, 1 in the instance) the broadcast never ends and keeps the read lock.
* `client_tokens_panic`: a forced update between the guard of `CheckToken` and its
  use of the list makes it index an empty list.

Met while modelling; the properties say what holds around them:

* audio that arrives between the timeout of a voice stream and its handling by `Run`
  is sent on a closed channel and the process panics (`PanicOnlyWhenDone`);
* a hotword with an unknown mode or a malformed locale closes the stream but leaves
  `strm` pointing at it, so that its late intent still answers;
* what was said to a voice stream that timed out is delivered as the answer to the
  next (`internal/voice/vtr/sherpa.go:14`);
* two primaries with one id (an app that reconnects before its old stream is
  noticed), of which the first to leave clears the id of the other;
* a `StartUpdateEngine` whose two resets enclose the two stores of a running status
  stream leaves a share above 100 % as last known good value (`SentIsValid`);
* two `CreateUniqueChannel` calls may both find the tag free; two calls that are
  after the same type of answer take each other's (`AnswerIsOwn`);
* the first of two feeds of a source to leave switches it off for both, and the
  other never notices that its user has gone (`FeedEnds`);
* a map feed that is behind may send parts of two maps as one (`MapIsWhole`);
* `AssumeBehaviorControl` never releases control (`ControlIsReleased` is about
  `BehaviorControl`);
* a datagram with nothing in it makes a service's handler return, and the next one
  of that client blocks the reader for all clients (`RequestHandled`);
* the deferred message of a map feed ends the maps of every other map feed, too
  (`cloud/message_handler.go:3439`; NavMap has one feed);
* the BLE proxy refuses a stream only if its path comes without a leading slash;
  otherwise the request goes on as long as the stream (`ProxyAnswers`).

## 4. Proofs

All theorems are proved for every value of the constants that satisfies the named
assumptions (channel capacities and sizes positive, the special values distinct
from the sets they are added to, checks and sending threads finite in number). Each is
`Init => Inv`, `Inv /\ [Next]_vars => Inv'`, with one step per action, and the
property from `Inv`.

* **VoiceProcessProofs**: types, at most one answer per stream, no open stream but
  the current one, `PanicOnlyWhenDone`, and that VoiceProcess implements
  VoiceSession. The strengthening is that an answered stream is forgotten for good
  (`AnsweredForgotten`): `strm` only moves to unused streams.
* **IpcManagerProofs**: types, `NeverPanics`, `KeysAreListened`, that senders send
  to registered listeners only, that a closed channel was closed by its owner or
  by a sender that gave up on it, and that IpcManager implements Registry. Needed: a
  channel is open exactly while it is registered under its own tag, only holders of
  the read lock have goroutines that send, and who was given up on has a channel.
  Each action is a step of Registry (`Begin` the broadcast, with a cardinality
  argument for what is due; `Cleanup` the cut of those it finds) or none.
  A second part is about the messages these managers read and write (CladWire), for
  any flows and contents: `CopyKeepsTag` for any codec; `ReadBack` for one that reads
  its own messages and refuses them when they are cut (`RoundTrips`). Needed: what
  is under way is what `Write` makes of a message; a copy leads to a cell that no
  later Unpack writes; a prefix of a framed datagram frames a prefix of the message.
  That premise is a recursion over tables. Its leaves and its step are proved:
  numbers and strings are read back and refused when cut (`NumberReadBack`,
  `StringReadBack`), and two fields that are so are so together (`FieldsReadBack`).
  That the tables are made of such steps, message by message, is what run `wire`
  shows.
* **TokenServiceProofs**: types, `HandedIsDurable`, `AnswerIsFresh`,
  `ReplacedByNewer` (an action property), that memory and disk agree but for the
  moment of replacing, and that TokenService implements RobotToken. Needed: tokens
  are stored in the order of issue, the token that is about to be saved is the last
  issued, a pending request is no younger than the current token, and what the two
  answer properties say holds already of the answer on its way. Each action is a
  step of RobotToken (the successful save the replacement; reading the current
  token, the server's answer and its refusal those of a call) or none.
  `NobodyIsOverlooked`, inductive with these, is the safety behind
  `RequestAnswered` and `DueIsRefreshed`: a request that was taken is the one the
  routine works on, a running service has its routine and its refresher, and the
  refresher asks only for a token that came due.
* **ClientTokensProofs**: types, `EveryWaitIsOwed` and `ForcerWaitsForUpdater`,
  which are inductive together and are the safety behind `CheckEnds` and
  `ForceEnds`. The argument counts: with the cardinality of the waiting checks, each
  step moves as many notifications as waiters.
* **SpeechPipelineProofs**: types, `DeafHasDecoder` unconditionally, and
  `DecodesAlone`. Needed: as long as recognisers are apart, at most one is past the
  test of the flag, none is while an utterance is decoded, `VADExists` never stands
  without a detector where a recogniser is about to use it, and what a recogniser has
  tested still holds where it uses it.
* **AppConnectionProofs**: types, `RunningHasStream` unconditionally,
  `PrimaryKeepsId` as long as ids are not shared, `SentIsValid` as long as the last
  values are used by one at a time. Needed: who waits for switchboard has the lock
  and no other id is set; who uses the pair is alone with it, and the pair is valid
  unless one of its halves has just been stored.
* **GatewayProofs**, one section for each of the gateway's RPC modules:
  * *feeds*: types, `GroupIsWhole` for groups and channels of any size, and
    `SilentWhenUnheard` for any number of calls. Needed: a cache holds the chunks 0
    to `last` of one group, however chunks were lost; a source that is on, and of
    which nothing failed, has a call that has not yet switched it off.
  * *maps*: `MapIsWhole` for maps of any length. Needed: what waits for a feed that
    keeps up is of one kind (its select then has no choice to make) and continues
    what it has already sent.
  * *control*: types, `KnowsLatest` for any number of connections and of news, and
    the safety half of `ControlIsReleased`: from the close of `done` on, a connection
    does not have control. Needed: an answer that waits for a connection's own loop
    is the newest, and if none does, its user was told the newest; of a call
    with a pump only the pump takes control, and it does not return to it after its
    deferred release.
  * *calls*: `AnswerIsOwn`, and the safety half of `CallReturns`
    (`NobodyIsForgotten`): a call that waits without a timer has its request with
    the engine or an answer in its channel. Needed: what the engine owes is of the
    kind its callers listen for, a kind that only one sort of call can bring is not
    in anybody else's channel, and an asker's channel is empty when it asks.
  * *proxy*: the same with calls that come through switchboard.
* **SocketsProofs**: types, `OwnInOrder` for any number of clients, restarts,
  datagrams and sockets of any room. Needed: the datagrams of a client that were
  handled, are being handled, are in the reader's buffer and in the socket are
  consecutive, and none is missing until its handler returns or the reader ends; a
  handshake is read before the data that follows it, and a client is introduced
  once; the answers taken, held and in the client's socket ascend. Then, that
  Sockets implements Exchange, which also needs that a handler is not ahead of its
  client even when the reader has ended or the socket is closed (what is in the
  socket counts only until then), and that answers under way are requests that were
  handled; and the safety half of `RequestHandled` (`NobodyIsOverlooked`):
  until Close, the reader hands over to a client that has or will get a handler.

Several theorems state invariants that no run lists (types, `AtMostOneAnswer`,
`MemoryIsFile`, `EveryWaitIsOwed`, ...): they are the parts of the inductive
invariants a reader should know of.

Only model-checked: the liveness properties (`StreamEventuallyClosed`,
`RoutinesEnd`, `BroadcastEnds`, `HandlerReturns`, `RequestAnswered`,
`DueIsRefreshed`, `CheckEnds`, `ForceEnds`, `HearsAgain`, `CallAnswered`,
`StatusStreamEnds`, `CallReturns`, `ProxyAnswers`, `FeedEnds`, `ControlIsReleased`,
`ControlEnds`, `RequestHandled`, `CloseReturns`), since they rest on fairness; and
what Size, Pack and Unpack of Clad make of a whole table, whose definitions are
recursive and out of TLAPS' reach. So are `PrefixIsLength` and
`PathReachesItsHandler`: they are about closed tables (sizes beside what is packed;
routes, stubs, stream descriptions and server), which TLC evaluates message by
message and path by path, and a theorem would have to take their agreement as its
premise and say it again. Two facts about closed tables stand as premises of proofs
and are evaluated by TLC: `AnswersFit` (every row of RpcHandlers listens for the
member that the engine's answer to it arrives as), an assumption of EngineCalls; and
`RoundTrips`, message by message in run `wire`.

## 5. Not modelled

* The context of the production build is `context.Background()`: a service stops
  only in the test harness (`Stoppable` in VoiceProcess, stop in TokenService, Close
  in Sockets); SIGTERM is a crash.
* The accessors of plain protobuf messages, which state each field once, and the
  protobuf library; TLS, certificates, logging.
* Code that nothing of the robot's build runs: the IPC router and the stream,
  unixpacket and UDP sockets (tools and tests), the permission backoff (no service
  reports the code it waits for), STS credentials and the log upload, the connection
  to a cloud recogniser, offboard vision and the connection history (development).
* Intent matching: sequential functions over word lists.
* Lost updates of the counters of the voice detector and half-written Go strings
  and slices; the CPU clock that a stream raises; the rates of the limiters.
* Events of an `EventStream` and their filters; photo files; the documents of jdocs;
  `UpdateAndRestart`, which reboots.

## 6. Plan

Done, in this order: VoiceSession and VoiceProcess (the answer to the user),
IpcManager, RobotToken and TokenService, ClientTokens, SpeechPipeline, AppConnection; the messages
(CladForms, Clad and its packages, CladWire, GatewayWrapper, ExternalInterface), the calls
(RpcHandlers, EngineCalls, BleProxy), the streams (Feeds, NavMap, BehaviorControl),
Sockets; proofs about every module with a behaviour.

Worth composing next: VoiceProcess with SpeechPipeline (whose words does an answered
session hold), and IpcManager with EngineCalls, whose broadcast is one of Registry
with its cuts at once.
