# A TLA+ model of the nexus mesh VPN

The repository (`src/`, module `github.com/donn/nexus-vpn`) is a WireGuard mesh
VPN in Go: nodes find each other over MQTT, learn their public endpoint with
STUN, configure a userspace WireGuard device, and fall back to a TCP relay; a
DNS server and a dashboard sit beside them. The top-level README describes a
STUN *server*, which the code does not contain; the models follow the code.
The repository has no tests, and `main.go` calls functions (`Run`, `Teardown`,
`ShowStatus`, `ListPeers`, `RunDNS`) that are defined nowhere: every component
is modelled under the calls its exported methods allow, from several
goroutines, since no orchestrator restricts them.

## Inventory

| Component | State | Operations | What is hard | What makes it correct |
|---|---|---|---|---|
| Relay server (`relay.go`) | listener, `clients` map, `WaitGroup`, one goroutine per connection | `Start`, accept loop, `handleClient`, `forwardToPeer`, `Stop` | reconnects racing deferred deletes, stale lookups, blocking writes, shutdown | entries are live; frames go where they are addressed, once and in order; `Stop` ends and leaves nothing |
| Relay client (`relay.go`) | `rc.conn` | `Connect`, `Send`, `Close` | `rc.conn` is published before registration, to `Send` and to other `Connect`s | `Connect` returned nil means registered |
| Relay wire format (`relay.go`) | byte stream | `readMessage`, `sendMessage` | segmentation, deadlines inside a frame, names longer than their length byte can say | decode of encode is the identity, the reader stays in step |
| Discovery (`discovery.go`) | `peers`, MQTT session | heartbeats, presence, health check, `UpdateLocalEndpoint`, `Stop` | crashes, reconnects, retained messages, late heartbeats | the table agrees with what peers announced; the dead are noticed, the living are seen |
| WireGuard manager (`wireguard.go`) | `peers`, device | `Start`, `AddPeer`, `UpdatePeerEndpoint`, `Stop` | map and device changed in two steps, pointers kept across unlock, failing IPC | the map says what the device does |
| WireGuard keys (`wireguard.go`) | key files | `loadOrGenerateKeys`, `GenerateKeys` | first run, crashes and overlaps between two files written in place | a first run stores the node's key; the pair on disk matches |
| STUN client (`stun.go`) | results, endpoint, NAT type | `Discover`, `detectNATType`, `parseBindingResponse`, `RunPeriodicDiscovery` | lost, late and crossed answers, overlapping calls; lengths taken from the packet | the NAT is classified as what it is, from the address the server sent |
| DNS server (`dns.go`) | `peers`, socket, one read buffer | `AddPeer`, `RemovePeer`, `Start`, query handling, upstream failover, `Stop` | a buffer shared by concurrent handlers, two lock sections, silent upstream servers, lengths and pointers taken from the packet | each query gets its own answer, true at one moment; handlers and `Stop` end |
| Noise handshake (`crypto.go`) | keys, transcript hash | messages A and B, `Encrypt`, `Decrypt` | both sides must mix the same transcript | both sides derive one key |
| Dashboard (`dashboard.go`) | mesh state, WebSocket clients | `UpdateMeshState`, `broadcast`, `handleWebSocket` | concurrent writes to a socket, old state after new, a browser that does not read | no update is missed; only an unread connection holds the lock |
| Configuration (`config.go`) | none | `LoadConfig`, defaults, overrides | one file for several nodes | nodes that share a file differ in name and client ID |
| Command line (`main.go`) | context | `up` and others | cancellation reaches every loop | the orchestrator is missing |

How they interact: the signal handler of `up` cancels one context that all
loops look at (`Cancel` in `Relay`, `Discovery` and `Dns`, part of `Shutdown` in
`Dashboard`). Discovery calls
`onPeerUpdate`, which is meant to lead to `UpdatePeerEndpoint`; STUN results are
meant for `UpdateLocalEndpoint`. The code that would connect them is the missing
orchestrator, so the modules are not composed with each other. `Relay` composes
server and clients; `RelayStream` is what one connection of it carries, in bytes;
`Mailbox` is what it promises, and `RelayRefinement` shows that it does.
`NodeStart` composes `LoadConfig`, the key files and two commands.

## Modules

`Relay.tla` models the relay server and the clients of all nodes. `clients` is
`r.clients`; a handler goroutine is a program counter per connection: `first` (the
read of the registration), `read`, `write` (in `sendMessage`, possibly to a looked-up
connection that has since gone), `unregister` and `close` (the two deferred functions,
in the order Go runs them). Locked sections and socket calls are single steps, so
every interleaving of the goroutines between them is explored. A TCP stream is a FIFO
of frames of capacity `Cap`; `Write` blocks when it is full. `ConnLost` breaks a
connection at any moment. `Start` is two steps, so a `Stop` may come between them and
return before the accept loop is spawned (`late`); nobody starts the server again
after `Stop`. `Dial` and `ConnectRegister` are the halves of `Connect`, between which
`rc.conn` is visible to `Send` and may be replaced by another `Connect` of the same
`RelayClientConn`, whose connection then gets both register frames. `crossed` records
the connections whose `Connect` was overtaken in one of these ways. `TLSAvailable`
says whether `buildTLSConfig` succeeds: then the server wants TLS and a client's plain
frames are an unreadable first message; the runs set it to `FALSE`, since otherwise no
client gets past its first read, and the theorems hold for both values. `via` and `id`
in a frame stand for the payload; `seen` is a history variable for the order property.
`go`'s `conn.Write` holds the socket's write lock, so frames of several handlers to
one connection do not mix.

`Bytes.tla` has what the byte formats share: a byte is a digit below `Base`, `Digits`
and `Number` are `binary.BigEndian`'s `PutUint` and `Uint`, with the cut that a
conversion to a narrower type makes.

`RelayStream.tla` is one connection in bytes: `Encode` is `sendMessage`,
`Complete`/`Size`/`Decode` are `readMessage`, with a payload length of `LenWidth`
bytes. `avail` includes what a waiting `readMessage` has already consumed, so
`ReadDeadline` discards exactly that. A name of `Base` bytes or more wraps in its
length byte and is still written whole, and a payload of `Base^LenWidth` bytes or more
(4 GiB in the code) would do the same; what the reader makes of the rest is whatever
the bytes say. The properties therefore speak of the frames sent before the first
length that does not fit (`Fits`, `Sound`), and of connections on which no deadline
has fallen inside a frame (`torn`): after such a deadline the loop of `handleClient`
reads the middle of a frame as a message, and may act on payload bytes nobody sent as
a frame.

`Discovery.tla` models the publishing half of every node and the receiving half
of one, `Self`. The broker, the paho client and time are external: a
subscription receives every retained presence (`due`), a broken session loses
queue and subscription (`SetCleanSession(true)`), handlers of one client run
one at a time (paho's default `OrderMatters`). Ages count heartbeat intervals.
`Down` stands for counts of 3 to 998 and `Offline` for 999 and more, which no
property tells apart. Of a heartbeat the model keeps the sender, the endpoint
and which start of the sender it belongs to. `UpdateLocalEndpoint` stores nothing,
although its comment says the endpoint "will be picked up by the next heartbeat":
the next heartbeat carries none and erases the announced one at every peer
(`Msg(n, NoEndpoint)` in `PublishHeartbeat`).

`WireGuard.tla` models `m.peers` as names to heap objects, since `UpdatePeerEndpoint`
keeps a pointer across the unlock, and the device as keys to endpoints. Names are the
configured peers with a public key (`Start` skips the others). `Start` is modelled
once, on a new manager: a second one, after `Stop` or a failed `Start`, would keep
`m.peers` over a new device. A failing `IpcSet` changes nothing or, as its lines are
applied one by one, has already changed the endpoint. Whether wireguard-go accepts the
lines `wireguard.go` writes is a question about that library, which is not in `src/`;
here any call may succeed or fail. `SequentialTracks` leaves out (`mixed`) the cases
in which map and device really drift apart: two overlapping calls reach the device in
one order and the map in the other, a call fails half way, two names share a key, or a
peer is added with only a fallback, which goes to the device (`wireguard.go:158`) and
not into `PeerState.Endpoint` (`:174`).

`Stun.tla` models overlapping `Discover` calls. Each `bindingRequest` takes a
local port no open socket has. An answer goes to (server, port) and stays on its
way after the socket is closed, so a later socket with the same port may take
it: all requests have the same transaction ID (`stun.go:160`). `Mapping` is the
NAT: independent of the server unless symmetric, and different for different
local ports. With a single server, or when the first does not answer,
`detectNATType` is not called and `GetNATType` keeps the zero value, "No NAT". The
second request of `detectNATType` leaves from another local port than the first,
although a comment says "same local port", so behind a cone NAT it reports a
symmetric one; the opposite error is what `NoFalseCone` excludes.

`StunMessage.tla` is `parseBindingResponse` and the two address parsers, as operators
over bytes of `Width` bits. `LastOffset` is where its loop stops: every round that
goes on takes at least a header, so it iterates `NextOffset` once per byte. `Response`
is what servers send, and external.

`Dns.tla` models `Start`, `serveLoop`, a `handleQuery` goroutine per datagram, the
table behind `d.mu`, `forwardToUpstream` and `Stop`. The buffer is one variable that
every `Receive` overwrites; a handler's reads are separate steps. A read that may
overlap an overwrite (`racing`) is a data race: its outcome is any id that was
received, any name and any form. A query whose compression pointers lead in a circle,
or a torn read of one, ends the process (`Overflow`), since Go does not recover an
exhausted stack: `HandlersFinish` and `StopTerminates` speak of processes that are
alive. `AddPeer` takes any hostname, the wildcard's own too. `foreign` records that a
handler has read a buffer that was not its own datagram; for those the code promises
nothing, and `OwnAnswer` and `Answered` are about the others. `window` holds the
tables since the datagram came, so that `AnswerWasTrue` can ask for one moment at
which the whole answer was right. Between the two locked sections a wildcard may get a
record of its own; the answer is then still all the addresses of one moment, which
`FromTable` names as the one exception.

`DnsName.tla` has `parseDNSName` and `encodeDNSName`. `ParseStep` is one round of the
loop, a recursive call for a pointer included, given what is found at the other
offsets; `Parses` takes as many rounds as there are bytes, for all offsets at once.
A name that needs more comes back to an offset it has been at: then the code's
recursion has no end, and the result is `Endless`. A label may hold any bytes:
`QuestionEchoed` says that a name comes back as it was sent exactly when
`strings.Split` undoes `strings.Join` (`Splittable`). A label with a dot byte comes
back as two labels, and the root name as one empty label more.

`Codecs.tla` puts the three formats together and states what they must compute.
`DnsName` and `StunMessage` have no state: their properties quantify over inputs and
are said of the initial state (`Init => ...`), where TLC evaluates them once.

`Dashboard.tla` models `d.mesh`, `d.clients`, the callers of `UpdateMeshState` and a
`handleWebSocket` goroutine per browser. A `WriteJSON` is two steps, because the
first message is written without `clientsMu`. The websocket library supports one writer
at a time; when the handler's write and a broadcast's overlap, four things may happen:
both go through; one of them panics, which ends the handler (`net/http` recovers it)
or, in a broadcast, the process (`alive`); or one is cut (`Cut`), because
`NextWriter` of the other closes the writer it finds open. A cut write sends
nothing that counts as a state and returns an error, which the handler ignores
(`dashboard.go:232`) and for which `broadcast` closes a connection in good order
(`:249-252`). Buffers hold `Cap` states.

`NodeStart.tla` models what happens before a node serves: `LoadConfig`'s choice of
name and client ID, `loadOrGenerateKeys` and `GenerateKeys`, run by `up` and
`gen-keys` in processes that share a key directory. `os.WriteFile` truncates and
writes in two steps, and `Die` may strike between any two. A file `<stem>.key` is
named by its stem, so a node called `private` or `public` has the file that
`GenerateKeys` writes for its own. A key file that cannot be read, for whatever
reason, leads to a generation (`NoKey`). `up` on any other new node generates
`private.key` and then fails, because it reads `<node>.key` (the run
`node_first_run`); an operator who copies the file (`Install`) makes the next start
succeed.

`Noise.tla` is the handshake with symbolic keys: a hash is the sequence of what was
mixed into it, and a sealed text opens under the same hash only.

`Mailbox.tla` is the abstract specification of the relay: letters posted on a
connection are delivered at most once, in order, to a connection that joined
under the address, or lost. A letter carries its rank, so what is pending on a
connection is a set, of which only the oldest letter may be delivered; a box is a
FIFO. `RelayRefinement.tla` maps `Relay` to it: a letter is pending while it is in
the sender's stream or in its handler's hands, and in the box while it is in the
receiver's stream.

`DiscoveryProofs`, `WireGuardProofs`, `StunProofs`, `DnsProofs`, `DashboardProofs` and
`NodeStartProofs` extend the module they are named after with its inductive invariant
and its theorems; `RelayProofs` extends `RelayRefinement` and has the refinement too,
and `CodecProofs` extends `Codecs`. The `MC*.tla` modules give
model values, configurations, frames and symmetry sets. A definition headed
"Mutant" is a plausible wrong version of the definition that follows it; no
specification uses it. Substituting it makes the property named in
`PROJECT.json` fail, which shows the property can fail.

## Runs

Runs expected to pass:

| Run | Question | Bounds, and why they are enough |
|---|---|---|
| `relay_server` | Are map entries live, sole owners reachable, connected clients registered; does `Stop` leave nothing; does the relay implement `Mailbox`; what can keep `Stop` from returning, or a dead client in the map? | 2 nodes, 2 connections (both may be one node's, so takeovers and overlapping `Connect`s happen), 2 frames in all, from one sender or from both, through buffers of 1, so writes block and lookups grow stale; no symmetry, which liveness checking forbids. More frames and larger buffers only lengthen queues; the theorems below hold for every `Cap` and `MaxSend`. 1.1 million states |
| `codecs` | Does the reader return exactly what was sent, and all of it; are names parsed and echoed; is the address of a response found? | `Base` 8. Frames: two length bytes, limit 2: names of 0 to 2 bytes and one of 9, payloads empty, at the limit, above it and needing both length bytes; 4 frames in every segmentation (1.7 million states). Names: pointers from byte 3, packets of up to 5 bytes of every kind, questions of up to 2 labels with and without dots, the root name included. Responses: bytes of 3 bits, bodies of up to 4 arbitrary bytes, which hold two attributes; every port behind up to 2 attributes of every length |
| `discovery_table` | Does the table agree with what was announced and seen; are the dead noticed, and for good, and the living seen? | 2 nodes, 2 starts each, a queue of 1 besides the retained messages owed: restart, crash, resubscription. 317,803 states |
| `wireguard_race` | Is what the map shows real, whatever calls overlap or fail? | one name, two keys (a key may be replaced), two endpoints, three goroutines, of which the two outside `Start` are symmetric |
| `stun_symmetric` | Is a symmetric NAT never taken for a cone, and a result its server's; does `Discover` return? | 2 callers with 2 calls each, 2 servers, 2 ports, so ports are used again while answers are late |
| `dns_queries` | Does a query get its own answer, from one moment; do handlers and `Stop` end? | 6 datagrams (host, wildcard, foreign name, too short, no question, circle of pointers) of different lengths, any 2 of which arrive, so one is overwritten at every point; 1 change of the table, of the wildcard's record too; 2 upstream servers, the first of which may fail. 1.0 million states |
| `dashboard_clients` | Is any update missed, or an old one left; who can hold the lock? | 2 browsers, 2 updaters, 2 updates, buffers of 1: registration, overlapping writes, leaving and blocking all meet. 1.1 million states |
| `node_start` | Does the pair on disk match; are client IDs distinct? | 3 nodes, of which one is called `private`, 2 processes, 3 generated keys (two that overlap and one that repairs), 2 installations |

Every module with state has a type invariant `TypeOK`, proved with the other
invariants; only `Relay`'s is also listed as a property of a run.

`CHECK_DEADLOCK FALSE` is set throughout because the systems may really come to
rest: bounds on sends, starts and calls are reached, or everything is stopped.

Runs expected to be violated, each a statement of the repository that the code
does not keep (quoted in `PROJECT.json`, "findings"):

* `relay_takeover`: a reconnecting node is removed from the map by the deferred
  delete of its old handler (`relay.go:134`), although it is being served.
* `discovery_retained`: a retained "offline" marks a running node offline.
* `node_first_run`: the first `up` of a node generates a key (`wireguard.go:285`) and
  reads it back under another name (`:84`), so it has none and ends with an error.
* `noise_agree`: the responder does not mix the ephemeral key it sends
  (`crypto.go:84-92`) and the initiator does (`:129`), so the static key is sealed
  under one hash and opened under another: no handshake completes.

Where the code has such a limit and a property can say exactly how far it goes, a
passing run says that instead. `StopHeldByClients`: under a cancelled context, `Stop`
does hang on a client that connects and stays silent, since the first read has no
deadline (`relay.go:110`), or on one that does not read what is forwarded to it, and
on nothing else. Without the cancellation the accept loop goes round on the error of
the closed listener (`relay.go:92-95`) and `Stop` waits for it for ever.
`DeadClientEvicted` and `LockFreed` are of the same kind.

`ConnectRegisters` says what `Connect` returning nil is worth: while the connection is
up, it is registered, or its register frame is the next thing the server reads on it
(and waits there, if the connection is never accepted). It names the ways in which
this fails: the server listens with TLS and the client always dials plain TCP; or,
between the halves of this `Connect`, a `Send` found `rc.conn` before the register frame
was written, or another `Connect` replaced it.

`LatestSent` names one way in which a connected browser misses the latest state: two
calls of `UpdateMeshState` overlap, the broadcast of the newer state passes before
the browser registers, its handler loads that state, and the late broadcast of the
older one cuts the handler's write.

## Fairness

* `Relay!FairSpec`: handlers and `Stop` run when they can, and `Accept` on a
  closed listener returns an error. That is the Go scheduler and the `net`
  package. Nothing is asked of clients, which may stay silent or never read; the
  two liveness properties name these cases as the only exceptions.
* `RelayStream!FairSpec`: bytes that were written arrive, and the handler runs.
* `Discovery!FairSpec`: tickers fire, subscriptions and handlers run, time
  passes. Heartbeats get strong fairness, because only the model's queue bound
  disables them again and again. Nothing makes nodes start, reconnect or crash.
* `Stun!FairSpec`: a request ends, at its deadline if not before.
* `Dns!FairSpec`: `serveLoop`, whose read ends after a second, the handlers, whose
  waits for an upstream server end after three, and `Stop` run when they can.
* `Dashboard!FairSpec`: updaters and handlers run when they can, and a waiter gets
  `clientsMu` in the end (`sync.Mutex` hands it over after a millisecond of
  starvation). Nothing is asked of browsers.

## Proofs

Each theorem has the form `Spec => []P`, where `P` is a property a run checks, or is
a `TypeOK`; one is `Spec => ImplementsMailbox`. They hold for every value of the
constants that satisfies the assumption of the module: any nodes, connections,
goroutines, names, servers and ports, and any value of the bounds, which are thus
bounds of the runs only. What the assumptions ask is that the placeholders (`NoConn`,
`Nil`, `NoIP`, ...) are none of the values they stand apart from, that bounds are
natural numbers, that buffers hold at least one item, and what the configuration
must give: `WireGuard` has finitely many names and callers, of which `Main` is one;
in `Dns` the configured peers have names under the domain, and `Datagrams` is a finite
sequence; in `Dashboard` no browser is an updater; in `Codecs` a
byte can hold the message types, the length bytes of labels and attributes can say
the lengths of what resolvers and servers send, and labels are not empty; in
`NodeStart` the default node is a node.

| Module | Theorem | Property |
|---|---|---|
| `RelayProofs` | `RegistryCorrect`, `OwnerCorrect`, `StopCorrect` | `RegistryLive`, `SoleOwnerReachable`, `StopQuiesced` |
| | `OrderCorrect`, `ConnectCorrect` | `ForwardedInOrder`, `ConnectRegisters` |
| | `RelayIsMailbox` | `ImplementsMailbox` |
| `CodecProofs` | `StreamCleanPrefix`, `StreamInSync` | `CleanPrefix`, `InSync` |
| | `DnsQuestionEchoed`, `DnsParseInBounds` | `QuestionEchoed`, `ParseInBounds` |
| | `StunAddressFound`, `StunNoPanic` | `AddressFound`, `NoPanic` |
| `DiscoveryProofs` | `OnlySilentSuspected`, `OnlyAnnouncedOffline` | `SuspectIsSilent`, `OfflineWasAnnounced` |
| `WireGuardProofs` | `MapFollowsDevice`, `EndpointsGiven`, `OnlyMixedDiverge` | `MappedIsConfigured`, `EndpointWasGiven`, `SequentialTracks` |
| `StunProofs` | `NeverFalseCone`, `ResultsOwnServer` | `NoFalseCone`, `ResultOfItsServer` |
| `DnsProofs` | `AnswersItsOwn`, `AnswersFromOneTable` | `OwnAnswer`, `AnswerWasTrue` |
| | `NeverDenied`, `NoneLeftUnanswered` | `ConfiguredResolves`, `Answered` |
| `DashboardProofs` | `BroadcastsSerialised`, `NoUpdateMissed`, `LeftWithLatest` | `OneBroadcastWriter`, `LatestSent`, `LastIsLatest` |
| `NodeStartProofs` | `SoloPairsMatch`, `DistinctClients` | `PairMatches`, `ClientIDsDistinct` |

`TypeCorrect` in each of them is `Spec => []TypeOK` (`StreamTypeCorrect` in
`CodecProofs`). Every invariant of a passing run is thus also a theorem.

The method is the same throughout. Few of the properties are inductive by themselves,
so each module defines an inductive invariant as a conjunction of named parts; most
were checked with TLC on the instance of the run before they were proved (the parts
`CInv` and `MInv` add to `IInv` are only proved). One lemma shows that `Init` implies
it, lemmas per part or per action show that every step of `[Next]_vars` keeps it,
`Invariance` combines them, and the theorems follow from it.

**Relay.** `IInv` has two layers, and a third part is proved on top of it.

* `RInv`, the registry: types; a writing handler's locals are set
  (`WriterReady`); a `Connect` between its halves has a connection; queued
  frames carry the names their type needs; the server's end is open exactly
  while its handler runs, and a handler has a name from registration on
  (`HandlerShape`); `RegistryLive`; `SoleOwnerMapped`, which extends the owner
  property to the state before the deferred delete, or the delete of another
  connection could not be told from its own; and `StopShape`, which says that
  `Stop` closed the listener first, so no handler is born after `wg.Wait`, and an
  accept loop spawned by a late `Start` accepts nothing.
* `OInv`, the order: a frame in a destination's buffer precedes all frames of
  the same sender that are still upstream: being written, queued, or not sent
  yet (`Ahead`). `WrittenInOrder` also records that the target of a write in
  progress registered the frame's destination and keeps that name for ever;
  this is why a lookup that has become stale can lose a frame and never
  misdelivers one.
* `CInv`, registration: a `Connect` between its halves that nothing has overtaken
  still finds its own connection in `rc.conn`, with nothing written to it and
  nothing read from it but the register frame of a `Connect` it has overtaken
  (`Undisturbed`); and a connection nobody has dialled is in nobody's hands
  (`FreshConns`).

**Refinement.** `RelayIsMailbox` shows that `Init` maps to `Mailbox`'s and that every
step of `Relay`, from `MInv`, is a step of `Mailbox` or leaves its variables alone: one
lemma for each way in which a step moves letters. `MInv` adds to `IInv` that the frame
in a handler's hands is data for a node or an answer on its own connection
(`HandAddressed`). The step that needs the invariant is `WriteFrame`: it is
`Deliver` only because the frame in hand is older than all that is queued behind it,
and because the connection looked up before still has the name it was found under.

**Codecs.** The formats are built from recursive functions and concatenations of
sequences, so these proofs need induction over data. The library's induction theorems
cannot be instantiated here, because they take a predicate as parameter; what replaces
them is induction with a set: `UpTo` says that a set of numbers that holds 0, and with
each number the next, holds all up to a bound, and follows from `LeastNat`, the
well-foundedness of `<`. `Iteration` gives a recursive function its values, as long as
every step stays in one set. On these rest

* `FlattenOffsets`: where each part of a concatenation lies in it, which is what an
  encoder's output looks like to a decoder that reads at offsets;
* `NumberOfDigits` and `DigitsOfNumber`: a number that fits is the number of its digits,
  and digits are the digits of their number. The length fields and `Xor` rest on it.

For the stream, the inductive invariant is `StreamInv`: `TypeOK`, `CleanPrefix` and
`InSync`, where the last two need each other. `DecodeEncode` says that a complete
message at the head of a stream that starts with an encoding is the encoded frame, and
has its size; a longer stream does not change it. So `ReadMessage` takes exactly the
first of the pending encodings, and `SendMessage` appends one. A frame with a length
that does not fit ends what the invariant says, and what came before stays.

For names, every answer after n rounds is an error, endless, or a list of parts that
ends beyond its offset and inside the data; this is kept by a round because a label's
end and a pointer's second byte are checked first. That a question is echoed goes
over its labels from the last one to the first, and needs that `Split` undoes `Join`
for labels without dots (`SplitJoin`). For the converse, `SplitCuts` says that `Split`
cuts the first label that has a dot short, so its length byte, or an earlier byte, is
another one in the echo.

For responses, the offset after k rounds is at least k or the loop has stopped, so
after as many rounds as bytes it has stopped; and in what a server sends, each round
that meets another attribute ends at the next part of the concatenation, since
`Padded` counts the bytes that `Padding` adds.

**Discovery.** What is queued at the broker stays true while it waits, because starts
are only counted up and a retained presence is never withdrawn (`MailTruthful`); from
this the table's entries are true when a message is handled.

**WireGuard.** The heap is described first (`HeapShape`, `CallShape`): every object is
in the map or in a caller's hands, and the pointer of an update is to an object with
the key of the call. `DeviceFirst` says the device knew a key before any object had
it, which gives `MappedIsConfigured` and `EndpointWasGiven`. `SequentialTracks` needs
three more parts about the calls that met no other (`MeetingsMixed`, `AloneTracks`,
`TracksUntilIpc`). That an object is free when `AddPeer` wants one is a counting
argument over the finite sets of names and callers (`FreeObject`).

**Stun.** `CallShape` says what a call has in hand at each point. A late answer taken by
a socket with the same port is still a mapping of that server, and this is all the
comparison in `detectNATType` relies on.

**Dns.** A handler's locals are tied to its datagram until it reads a foreign buffer
(`OwnWork`). The window of tables of a handler always ends with the present table
(`WindowCurrent`), so what a locked section reads was true then; `AnswerReady` keeps
that until the reply is sent, and with it that a handler in its second section has
seen a table without a record for the wildcard. `EnteredFirst` orders `Start` before every handler, and
`TableKept` says a configured name has a record from then on.

**Dashboard.** The latest state was written to a browser, or is held by its handler
for the first message, or a broadcast that will reach it is pending (`SentOrPending`;
`LastOrPending` for what was written last). This is kept because the handler
registers before it reads the state and an updater sets the state before it locks the
table; `WalkLocked` and `WalkInTable` say that a walk sees every registered client. A cut
write of the latest state is made up for by the broadcast that cut it, which still has
to write to the browser, unless that broadcast is of an older state (`raced`).

**NodeStart.** A generation that has met no other is alone, and nobody else writes
`private.key` after it (`SoloAlone`), so the pair it leaves is its own. A process of `up`
has the client ID that goes with its node name (`ConfigLoaded`).

Only model-checked:

* liveness, which is out of the prover's reach: `StopHeldByClients`, `DeadClientEvicted`,
  `AllHandled`, `DownNoticed`, `DownStays`, `LiveSeen`, `DiscoverReturns`, `HandlersFinish`, `StopTerminates`
  and `LockFreed`;
* the runs that are expected to be violated.

## Not modelled

* `Run`, `Teardown`, `ShowStatus`, `ListPeers` and `RunDNS`, called by `main.go`, do
  not exist; `newStatusCmd` and the like only load a configuration and call them.
* `applyDefaults`, the overrides of passwords by the environment and `getNodeIP` are
  independent assignments and a table lookup. Reading, `ExpandEnv` and YAML are I/O.
* `Encrypt` and `Decrypt` keep no state and wrap the library.
* The index page and its script; JSON, HTML, log messages, byte counters, TTLs.
* The `cache` of `DNSServer` and `Dashboard.peers` are never used by the code.
* A response to STUN with an address attribute shorter than an address yields a nil
  IP without an error (`MappedNil`); `Stun` assumes servers that send whole ones.

## Plan

Order: what carries traffic first, then what finds peers, then the rest.

1. Done: `Relay`, `RelayStream`, `Discovery`, `WireGuard`, `Stun`, `RelayProofs`.
2. Done: `Dns` and `DnsName`, `Dashboard`, `NodeStart`, `Noise`, `StunMessage`, and
   `Mailbox` with `RelayRefinement`.
3. Done: the theorems listed under Proofs, those about the byte formats last.
4. Left: liveness, when a prover can do it; and the orchestrator, when the repository
   has one, which would compose `Discovery`, `Stun` and `WireGuard`.
