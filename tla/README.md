# CustomModel 0.3.7: verification project

CustomModel lets an open.mp server publish model files (DFF, TXD) to clients of
SA-MP 0.3.7. A component in the server and an injected library in the client
negotiate over a private frame type, the server sends a manifest of assets, and
the client fetches, verifies and caches each of them and reports the outcome.
The modules in this directory model the core of both sides, TLC checks them on
small instances, and TLAPS proves the invariants that matter most for every
value of the constants.

## 1. The system

| Part | Source | State | Operations |
|---|---|---|---|
| Capability tracker | `server/src/player_capabilities.cpp` | one entry per player id: handshake state, the Hello, negotiated capabilities, reject reason | BeginHandshake, HandleHello, RejectPlayer, RemovePlayer, Reset |
| Handshake endpoint | `server/src/handshake_endpoint.cpp` | none | decodes a claimed frame, asks the tracker, sends the answer |
| Asset registry, manifest file | `server/src/asset_registry.cpp`, `manifest_config.cpp` | assets, name index, total size, revision | RegisterAsset, RemoveAsset, ClearAssets, BuildManifest, LoadManifestConfig |
| Asset publication | `server/src/asset_publication.cpp` | one session per player id: state, revision, expected, ready and failed ids | OnPlayerConnected / Disconnected / Compatible, HandleIncoming, Reset |
| open.mp component | `server/openmp/component.cpp` | owns the four above and the transport | onLoad, free, reset, onPlayerConnect / Disconnect, onReceive |
| RakNet adapter | `client/src/samp/raknet_transport.cpp` | the hook, four connection flags | Initialize, Shutdown, Receive, Send |
| Client handshake | `client/src/protocol/handshake.cpp` | state, welcome, rejection | OnConnected, OnDisconnected, TakeHello, HandleIncoming, ConfirmWelcome |
| DLL entry, client runtime | `client/src/core/dllmain.cpp`, `runtime.cpp` | lifecycle state; the context of the callbacks | Initialize, shutdown; HandleIncomingProtocol, HandleConnectionEvent, PumpAssetResults |
| Asset manager | `client/src/assets/manager.cpp` | manifest receiver, queue, state per asset id, events, generation, one worker thread | Initialize, HandleMessage, DrainEvents, ResetSession, RequestStop, Shutdown; the worker's loop |
| Asset cache | `client/src/assets/cache.cpp` | files on disk | Lookup, CommitVerified, RemoveTemporary |
| Fetch backend | `client/src/assets/winhttp_fetch.cpp` | none | Fetch |
| Packet codec, framing | `shared/src/protocol.cpp`, `transport_frame.cpp` | none | EncodePacket, DecodePacket; Encode, Inspect |
| Shared rules | `shared/src/assets.cpp`, `version.cpp` | none | limits, validation of a description, build numbers |

Interaction. On the server one host thread calls the component's handlers. A
Hello goes to the tracker, the answer is sent, and in the same call a Welcome is
followed by the manifest. Every other message goes to the publication. On the
client the game's network thread runs the Receive hook, which turns what RakNet
returns into connection events, frames and a pump; the runtime's callbacks pass
them to the handshake and the asset manager. The manager's worker thread shares
the manager's state under one mutex; its events go back to the network thread
when the pump drains them.

What is hard here:

* two maps keyed by a reused player id, changed by connects, disconnects,
  resets and messages in any order, and by handlers that stop halfway when the
  transport refuses a packet;
* a worker thread that may hold an item of an old session through a whole
  download, while the session is reset, the next one announces the same ids, or
  the process stops or dies;
* files that survive all of this, and that another game process may be using;
* a download whose blocking calls are each bounded, and whose deadline is looked
  at between them;
* an encoder and a decoder that list the fields of ten messages separately;
* a connection state that is only polled and that lags behind the notification
  of its end;
* one-shot sends: nothing on either side is ever retried.

What makes each part correct: the tracker and the publication keep step and
their books balance; a connection is sent one manifest, after its Welcome; the
registry's limits make every manifest acceptable to the client; the manager
gives every announced asset one true verdict per session; the cache's final
paths only ever receive verified files; a download succeeds with exactly the
announced bytes, and ends; what one end encodes the other decodes, and nothing
else is taken; the adapter announces a connection
once, at the right time; end to end, the server's records are what this client
decided on this connection.

`PROJECT.json` lists every component with its status, and under "hazards" each
of these points at the line where it bites, with the properties that cover it.

## 2. The modules

```
ServerTransport ── PlayerCapabilityTracker ──┐
       │                                     ├── ServerComponent ── EndToEnd
       └── AssetPublication ── AssetRegistry ┘                        │
                  │                 │                                 │
SharedAssets ─────┼─────────────────┘                                 │
       │          └── LivePublication                                 │
       └── ManifestReceiver ──┬── (LivePublication)                   │
                              ├── ClientRuntime ──────────────────────┘
                              └── AssetManager ── AssetCache
                                       └─ implements AssetVerdicts
SharedAssets ── Wire
Fetch ── SharedDirectory
RakNetTransport
ClientLifecycle

The proofs:
AssetPublication, ManifestReceiver ── ManifestProofs ──┬── EndToEndProofs
                                                       └── LivePublicationProofs
AssetManagerProofs, SharedDirectoryProofs, RakNetTransportProofs, ClientLifecycleProofs,
WireProofs
```

| Module | Models | How |
|---|---|---|
| `ServerTransport` | `OpenMpTransport` | `outbox[p]` is what open.mp accepted on player p's present connection; `Transmit` is a Send that succeeds |
| `PlayerCapabilityTracker` | the tracker | each operation is a function of one entry (`AfterHello`, `Refusal`, `FirstFailure` in the code's order of checks), applied to the map by the action of the same name |
| `SharedAssets` | descriptions, limits, messages | a text is a token; `BadText` is any text the rules refuse; `Minus` is the wrapping subtraction of `uint64_t` |
| `AssetRegistry` | registry and file loading | `RegisterResult` is the first check that fails; the load works on `parsed` and replaces `registry` only at the end |
| `AssetPublication` | sessions | `OnPlayerCompatible(p, first, delivered)` sends `first` and then `delivered` messages of the stream; `delivered` smaller than the stream is a Send that was refused |
| `ServerComponent` | the component | one action per handler of the host; `phase` is where `onLoad` and `free` have taken it |
| `LivePublication` | registry, publication and receiver as libraries | the owner changes the registry between publications, which the component itself never does, and while the clients are still reading; `read[p]` is how much of `outbox[p]` player p's client has read |
| `ManifestReceiver` | `ManifestReceiver::Handle` | a function of the receiver's state and the message |
| `AssetCache` | `AssetCache` | `LookupOutcomes`, `CommitOutcomes`, `AfterRemoval`: what each call may leave at the path, with failing file operations (`OnError`) and failing allocations (`OnFault`), which `Sha256File` swallows |
| `AssetManager` | `ClientAssetManager` | one action per section the code holds `mutex_` for and per file or network operation between two sections; `pc` is where the worker is |
| `AssetVerdicts` | the abstract specification of the manager | per session every announced asset gets one verdict, once. Where memory may fail (`lossy`) the verdict may be lost instead (`Lose`), which is what `Fail` does when it cannot queue its event |
| `Fetch` | `WinHttpFetchBackend::Fetch` | a process's worker is at `Request`, or at one of the three points of the loop (`Poll` before the query, `Read`, `Close` after it); `elapsed` is the time its blocking calls took. A file is a sequence of bytes, each the one the digest calls for or not; a handle writes at its own offset |
| `SharedDirectory` | `Process` and the cache's file operations, run by several processes | the temporary path is the same for all of them. `touched` remembers whether somebody else used the file since this process created it |
| `Wire` | `protocol.cpp`, `transport_frame.cpp` | `Written` and `Expected` are the field lists of the encoder and of the decoder; `EncodePacket` and `DecodePacket` take the code's tests in the code's order; the writer and the reader go through the list by the recursive functions `BytesAfter` and `OffsetsAfter`. Between them a frame may be cut, extended or changed at any byte, twice |
| `ClientRuntime` | the handshake and the three callbacks | of the manager it keeps what `AssetVerdicts` promises |
| `EndToEnd` | one client and the component | reliable ordered channels that are emptied between connections |
| `RakNetTransport` | the Receive hook | a call is several steps: `ObserveConnection`, then one packet a step; RakNet's own thread runs between them |
| `ClientLifecycle` | `DllMain`, `ClientRuntime`, installing and restoring the hook | `init` and `detach` are where the initialization thread and the detaching thread are; a step is what one of them does between two points where another can observe or disturb it. Of the vtable only the entry (`slot`) and one other library's hook (`otherNext`) are kept; `Reached` says whether a call arrives at our hook |

A definition whose name ends in `_Something` and that is commented as a mutant
is a plausible mistake in the definition below it. Replacing that definition by
its mutant must break the property `PROJECT.json` pairs it with.

Left out everywhere: logging, statistics, the `Ping`/`Pong` messages no
component handles, and allocation failures outside the asset worker (in
particular in `HandleConnectionEvent` and `onReceive`).

## 3. The runs

| Run | Question |
|---|---|
| `ServerComponent_one` | Do the tracker, the publication and the frames sent stay consistent for every order of host events, Hellos and reports, and every refused Send? |
| `ServerComponent_malformed` | (violation) Does a malformed claimed frame reject the session? |
| `LivePublication` | Does the client's receiver accept every manifest a changing registry produces, however the registry changes while it reads, and agree with the session about it and about the reports it takes? |
| `AssetManager_faults` | Are verdicts neither lost, repeated nor carried over, and final paths clean, under faults, stops, resets and crashes? With a working disk, is what is Ready in the cache, and without faults found again? Does the manager implement `AssetVerdicts`, and does the worker stop? |
| `AssetManager_thrown` | (violation) Does every failure remove the temporary file? The transfer succeeds, an allocation fails before the commit, and the file stays |
| `EndToEnd` | Do both ends agree, with reconnects, resets and refused sends? Is every Hello answered and every asset reported when nothing is refused? |
| `RakNetTransport` | Is a connection announced once, in time, and its end too? |
| `ClientLifecycle_life` | Does a call through the hook find everything in place, and does initialization end with all or nothing, against another library's hook, failures, exit and unload? Are other hooks left alone, and is a shutdown final? |
| `ClientLifecycle_reprotect` | (violation) Do pointers outlive a chained hook when the page's protection cannot be put back? |
| `ClientLifecycle_failure` | (violation) Does every failure end in `Disabled`? |
| `Wire` | Does every message arrive as it was sent, is a packet taken only if it is exactly what the other end would send, and is a damaged one refused for what is wrong with it? |
| `SharedDirectory` | Does a transfer keep its deadline and end, does Fetch deliver exactly the announced bytes, and what can reach the final path when two processes download the same file? |

Every property is paired in `PROJECT.json` with a mutant of a modelled
definition that the same run refutes.

### Bounds

* `ServerComponent_one` has one player id, reused by any number of connections:
  the handlers touch one player's entries only (the proof's lemma
  `OnePlayerChanges` is exactly that fact), so a second id adds no behaviour of
  a record. The Hellos are two acceptable ones that differ, and one for every
  refusal. Two lines that fit the limits together and one that does not; the
  reports name announced and unannounced ids and a wrong revision. `MaxOutbox`
  bounds the frames sent on one connection, at a value that lets a manifest, a
  repeated Welcome and a Reject all fit.
* `LivePublication` has two players, so that two publications can be compared,
  a catalogue that collides in ids and names and exceeds the total, and a
  `WordSize` small enough for the revision to saturate.
* `AssetManager_*`: at most two assets, of the same or of different content
  (`EitherServer`), two generations (a stale item needs two; `_thrown` has
  three), the cache holding anything at the start. `faults` says, per behaviour,
  whether the disk, the memory, both or none may fail. About 390,000 states.
  `_thrown` starts with a clean tmp directory (`CleanSpec`), so that the file its
  trace leaves is the one the transfer wrote.
* `Wire`: a byte has four values and the limits of texts and digests are 2
  to 4 bytes; field widths, field order and header are the code's. Every
  field of every message takes values at, next to and beyond its limit, and
  the packet size is exactly that of the longest valid message, so that a
  length that is one too large shows and a frame that grows is longer than
  any. `Base = 4` is enough because the codec treats a byte as a digit and
  compares it with the magic, the packet id and the limits only. Two damages
  reach every pair of a length and the bytes it counts. About 680,000
  states. The theorems have no such bound: the base is any number, 256
  included.
* `SharedDirectory`: two processes, three bytes in reads of at most two, one tick
  of deadline and one per call. Three bytes is the least that needs two reads and
  can be split unevenly. About 180,000 states. The theorems have no such bound.
* `EndToEnd`: one client, two assets, `MaxOutbox` as above. `refusing` says, per
  behaviour, whether the transports may refuse a frame.
* `RakNetTransport`: at most two frames consumed in one call and four queued
  packets. The connection may come up at any moment, in the middle of a call too;
  then the call returns its packet with `connected_` still false, and the
  connection is announced after a further packet only. `ConnectionIsAnnounced`
  is therefore about connections that have had two packets of the game. The theorems remove both bounds.
* `ClientLifecycle_*`: three attempts instead of 600 (the theorems have no
  bound), one other library, every kind of samp.dll; `ProtectFailures` names the
  VirtualProtect calls that may fail. The detaching thread may begin at any step,
  because the process exits (all other threads have ended then) or because the
  library is unloaded (they run on). `docs/architecture.md:96` calls the normal
  deployment process-lifetime, so what shutdown preserves is claimed only for an
  unload after the initialization (`~overtaken`).

`CHECK_DEADLOCK FALSE` is set where the system may stop: the component after
`free` and at the bounds, the manager after its worker has left, the composed
system after `free`, the client after it shut down.

### Fairness

* `AssetManager!FairSpec`: the worker. The operating system schedules it, its
  file operations return, and `Fetch` ends within its deadline
  (`FetchOptions::transferTimeoutMilliseconds`, `winhttp_fetch.cpp:282`).
  Nothing is assumed of the game thread: stopping, resetting, draining may never
  happen.
* `SharedDirectory!FairSpec`: each process's worker. That a WinHTTP call returns
  within the timeout it was given (`WinHttpSetTimeouts`, `winhttp_fetch.cpp`) is
  the external assumption `Waits`.
* `RakNetTransport!FairSpec`: SA-MP calls Receive in its frame loop, and a call
  ends. Nothing is assumed of the network.
* `ClientLifecycle!FairSpec`: the initialization thread is scheduled, its Sleep
  returns, and the worker it may join stops (`AssetManager`, `WorkerExits`).
* `EndToEnd!FairSystemSpec`: both ends poll (server receive, client receive,
  pump, the Connected event) and the worker settles. Nothing makes a connection
  begin or last.

## 4. What the runs found

1. `ServerComponent_malformed`: `DispatchProtocol` decodes a claimed frame
   before it hands it to the endpoint and drops what does not decode
   (`component.cpp:308`), so the endpoint's typed rejection
   (`handshake_endpoint.cpp:55`) is never reached. `docs/protocol.md:113` and
   `docs/architecture.md:135` say the session is rejected.
2. `AssetManager_thrown`: the handler of an exception in `Process`
   (`manager.cpp:321`) leaves the temporary file. `docs/assets.md:73` says a
   failure removes it.
3. `ClientLifecycle_reprotect`: when the protection of the vtable's page cannot
   be put back, the hook is taken out without looking at what the entry holds
   (`raknet_transport.cpp:361`). A library that chained to it in between goes on
   calling a hook that returns no packet. `docs/architecture.md:96` says the
   adapter stays active then.
4. `ClientLifecycle_failure`: a failing asset manager, a missing RakClient or a
   hook that cannot be installed leads to `Ready` without a transport
   (`runtime.cpp:367-385`). `docs/architecture.md:92` says any failure enters
    `Disabled`.

Four more things a reader of the documentation should know, which are not stated
as violated properties:

* `Lookup` (`cache.cpp:43`) judges a file by the size the present description
  announces. A second id with the same digest and another size removes the
  committed file, whereas `docs/assets.md:73` says the second id finds it. Such
  a description is of no real file (equal digests, different sizes), so
  `CommittedAvoidsRequest` assumes that one content announces one size.
* `Lookup` cannot tell a file that does not fit from one that `Sha256File` has no
  digest of. `Sha256File` swallows a failing allocation (`sha256.cpp:70`), so with
  too little memory an intact committed file is removed and requested again.
  `ReadyIsCached` allows for exactly this where memory may fail, and
  `CommittedAvoidsRequest` is about behaviours without faults.
* Two game processes that share a cache directory use one temporary path.
  MSVC's `ofstream` lets a second one open and truncate the file, and a file
  written to between Verify and rename is committed although no one has verified
  what it then holds; `docs/architecture.md:70` and `docs/protocol.md:181` speak
  of verified files only. `RenamedIsVerified` says this is the only way, and the
  next `Lookup` hashes the entry again and removes it.
* A transfer may outlast `transferTimeoutMilliseconds` by the two blocking calls
  of one turn of the loop (`DeadlineHolds`).

## 5. What is proved

The first half of `EndToEndProofs` is about the server component by itself, from
the assumptions on the constants only (the
policy's capabilities are declared ones, configuration lines are descriptions,
the limits are naturals and below the word size):

* `IInv == RecordsOK /\ HostOK /\ SessionFollowsHandshake`. `RecordsOK` says
  that every entry and every session is well formed on its own (`EntryOK`,
  `SessionOK`), `HostOK` that the registry, the lines read so far and the host's
  view are. `ReportsAddUp` alone is not inductive: that equal sizes mean equal
  sets needs the ready ids to be expected ids and the expected ids to be
  finitely many, which comes from the registry (`RegistryOK`, `AfterStreamOK`).
  `SessionFollowsHandshake` needs that a Hello always ends in a verdict
  (`AfterHelloOK`), that a player becomes compatible only out of a pending
  handshake (`CompatibleWasPending`), and that reports open no session
  (`AfterMessageOK`).
* One lemma per operation on a single entry, session or registry, then
  `OnePlayerChanges` lifts them to the maps, and one lemma per handler shows
  that it keeps `IInv`. The theorems `TypeCorrect`, `BooksBalance` and
  `MapsStayInStep` follow.

It goes on with the frames of a connection. None of their
four properties is inductive: what may be sent next depends on the tracker's
entry and on the session. Two invariants on
top of `IInv`, shown handler by handler, supply that.

* `ChannelsOK` says per player, besides three of the properties (`RejectsLast`,
  `StreamsFollow`, `OneGrant`), what the entry owes to the frames: nothing was
  sent while the handshake is pending, after a Reject the entry is Rejected or,
  after a reset, unknown, and a compatible entry's capabilities are those of an
  accepted Hello. `RejectsAreFinal`, `ManifestsFollowWelcomes` and `OneIdentity`
  follow.
* `RunsOK` says that the manifest messages among the frames are a run of the
  stream from its beginning, that a session that may still be published to has
  been sent none of it, that nothing is in the channel of a player who is not
  connected, and that nobody is connected before the registry has its last
  value. `OneManifest` follows.

`RakNetTransportProofs`, for every `MaximumConsumed` and every queue length: the
invariant relates the four flags to each other and to the history of the
connection. The theorems are `TypeCorrect`, `HelloAfterFirstPacket` and
`AtMostOneHello`; the second rests on the assumption, stated at `Arrive`, that
the server sends frames only in answer to a Hello.

`ClientLifecycleProofs`, for every kind of samp.dll, number of attempts and set
of failing VirtualProtect calls. `OthersAreLeftAlone` and `NothingFollowsShutdown`
follow from each step alone, because every write to the entry and to `state_` is
a compare-and-exchange or the shutdown's own store. `HookComesLast`, `WholeOrGone`
and `PointersOutlive` rest on an invariant: a table of what stands at each step
of the initialization thread (`Progress`, `Outcome`), the shape of the chain of
hooks (`ChainOK`), and, once the detaching thread has begun, `Departure`: a hook
that is reached still has `receiveSlot_`, without which Shutdown would clear the
pointers. They claim nothing once the hook was taken out again (`takenOut`);
the run `ClientLifecycle_reprotect` shows that they could not. `TypeCorrect` adds
that the retries are bounded by the number of attempts.

`AssetManagerProofs`, for any contents, files, faults, messages and number of
sessions. `IInv == FilesOK /\ EventsOK /\ SessionOK`: files are ones the cache
may hold, and a verified temporary file stays intact until it is renamed; every
event carries the present generation (`ReportsAreCurrent`), because the worker
looks at the generation under the mutex and ResetSession empties the list under
it. `CommitsAreVerified` follows.

The module goes on to prove that the manager implements `AssetVerdicts`, its
fairness apart (`ManagerImplementsVerdicts`). `HeldOK` is the invariant it
needs: the receiver's entries have different ids (so that a manifest announces
each once), every queued item is due, belongs to the session and is in the queue
once and not in the worker's hands, an item in hand that is current is due, and
before the manifest is complete nothing is under way. `Moves` sorts the steps:
one announces a whole manifest, settles one verdict, loses one for want of
memory, starts over, halts, or changes no verdict.

`PendingOK` says that what is in the queue is still Queued, and that a pending
asset is in the queue or in the worker's hands unless a stop has come. With
`HeldOK`, by which the queue holds an asset once at most, `PendingItemsAreHeld`
follows.

`CachedOK` is about a disk that does not fail: whatever is queued or in hand
stems from an announced entry, what the session calls Ready is in the cache
unless memory may fail and another entry shares its content, and, where nothing
fails, an item under work whose content is in the cache is on the way that finds
it. Its hypothesis `OneSizePerContent` says that the server announces a digest with one
size; without it `Lookup` removes a good file (see section 4), so
`ReadyAssetsAreCached` and `CommittedIsNotRequested` would be false.

`ManifestProofs` has no theorem of its own; it is what the proofs about
the live publication and about the two ends share, for any assets and limits.

* The registry's total is a sum over a set, a fold of the community modules.
  What it needs of sums (`SumOfSizes`, `OneMoreSize`) is shown by counting: the
  sum of sizes is the cardinality of the set of all bytes (`Bytes`), and a
  finite set for which that failed would have a smallest part for which it fails
  (`SmallestPart`, from the library's theorem that the strict subsets of a
  finite set are well founded). Hence the wrapping subtraction of `RemoveAsset`
  never wraps, and the index of names is exact (`RegisterKeepsGood`,
  `RemoveKeepsGood`, `ClearKeepsGood`).
* `ListedOnce`: `BuildManifest` lists every asset of the registry once.
* `StreamTaken`: a receiver that has taken the first k messages of a stream takes
  the next one, and is then `ReceiverAfter(manifest, k + 1)`. It completes with
  the last message, not before, and never fails.

`LivePublicationProofs`, for any players, catalogue, reports and word size. The
invariant says that for each player there was a registry, `snap[p]`, such that
his frames are the beginning of its stream, his receiver is the one that has read
so many of them, and his session judges reports by it; the present registry may
be another. Two of these registries with one revision have the same assets, as
long as the revision has not reached its largest value (`SameRevisionSameAssets`).
`RegistryIsConsistent`, `ReceiversAgree` and `RevisionsIdentifyContent` follow;
`ReportIsJudged` is the lemma that such a session records exactly the reports
about its own manifest.

The second half of `EndToEndProofs` composes the two ends, for any players, Hellos,
policy, configuration, limits and number of connections. `BothOK` adds to the server's `IInv`:

* `UplinkOK`: the Hello of a connection is the first message on its way, there is
  one, and the server has not answered while it is. Otherwise a second answer
  could follow the one the client acted upon.
* `AnswerOK`: the server has sent nothing, one Reject, or one Welcome and a part
  of the stream from its beginning, and the tracker's entry agrees or was reset.
* `ReadingOK`: the client's state is that of what it has read so far; its
  receiver is `ReceiverAfter(manifest, cursor - 1)`, by `StreamTaken`.
* `ClientOK`: nothing is decided before the manifest is complete, and the
  manager is at rest unless the client is compatible. So a verdict never changes
  within a session, and a report that was true when it was queued is true when it
  arrives.
* `SessionTrue`: what the server has on record, the client has decided.

`SidesAgree`, `RecordsHold` and `ManifestIsTaken` follow. `ClientRuntime` keeps
of the manager only what `AssetVerdicts` promises. `SystemImplementsVerdicts`
shows that the composition stays within that: the announcement comes once in a
session and before any verdict. With `ManagerImplementsVerdicts` both ends of the
abstraction are proved against the same specification.

`SharedDirectoryProofs`, for any number of processes, sizes, buffers and
timeouts. `Counts` bounds what was received by what was announced, so that the
unsigned `Remaining` never wraps, and `elapsed` by the place in the loop;
`OwnsFile` says that an untouched file is the one its process wrote, as long as
it was received.

`WireProofs`, for any base, magic, packet id, limits and messages whose fields
have the C++ types' ranges. What a loop over a list of fields computes is shown
without an induction theorem: the field counts for which a fact holds are a set
of numbers that holds 0 and goes upwards, so it is 0..k (`Upwards`, from the fact
that a set of numbers has a smallest member), and the recursive functions exist
because their beginnings do (`Iteration`).

* Two, four and eight bytes in network order (high byte first) and the number they stand for
  determine each other (`WriteInteger`, `ReadInteger`).
* A field is read as it was written wherever its bytes are, and a field that was
  read would be written with the bytes it came from; hence the same of a list of
  fields (`AllArrive`, `AllRead`). `FieldLists` says that the decoder expects what
  the encoder writes, `ValidCarries` that the ranges the code tests are ones
  the fields can carry, and `Sizes` that no message exceeds the payload limit.
* `EncodeIs`, `DecodeIs` and `DecodedIsEncoded` lift this to packets, past the
  decoder's tests in their order (`PacketTests`, `PayloadTests`).
* `CutFrame`, `GrownFrame` and `ChangedFrame` find, for a frame that lost its
  end, got a byte more, or had a byte changed, the first test it fails; a frame
  longer than any is dropped before the decoder (`Received`, `Claims`).
* The invariant `WireInv` says what the damage makes of the frame, and that the
  outcome is what the receiver makes of it. `RoundTripHolds`, `CanonicalHolds`
  and `RefusalNamesDamageHolds` follow.

All proofs assume only the named assumptions on constants: naturals and their
order (`LimitsAssumption`, `BoundAssumption` and the like), the server's required
capabilities being declared ones (`PolicyAssumption`), the catalogue's and the
configuration's entries being descriptions (`CatalogueAssumption`,
`LinesAssumption`), the reports being Ready or Error messages
(`ReportsAssumption`), the announced contents being among those there are
(`MessagesAssumption`), the modelled client being a player and its Hello one the
server may receive (`MeAssumption`, `IdentityAssumption`), the codec's sizes
being in the order of `protocol.hpp` and `assets.hpp` (`WireAssumption`: the
longest payload within the limit, text limits and message types below 16 bits,
the packet size below 32) and its messages having the fields of the C++ types
(`OutgoingAssumption`); and the hypothesis `OneSizePerContent` where it is named
above.

Only model-checked is liveness, and with it the fairness of the refinement
(`WorkerExits`, `HelloIsAnswered`, `EveryAssetIsReported`, `ConnectionIsAnnounced`,
`EndIsAnnounced`, `InitializationEnds`, `AttemptsEnd`): ENABLED and fairness are
out of the prover's reach. Every safety property of the passing runs has a theorem.

## 6. What is abstracted, and what is not modelled

Abstractions a reader should keep in mind:

* `Lookup` and `Verify` hash a file in one step, so a process that writes to it
  while it is being hashed is not modelled. What the hash decides is: in
  `SharedDirectory` the hash, the removal a Lookup makes of it and the rename are
  steps of their own, and another process's step may come between any two of
  them. In `AssetManager`, which has one process, a Lookup and a CommitVerified
  are one step each; a crash within one of them is not modelled.
* That a process is hashing a file keeps others from removing or replacing it;
  since the hash is one step, `MayBeHashed` lets a removal or a rename fail while
  another process is about to take that step.
* A write reaches the file at once. The stream's buffer is not modelled; `Close`
  may fail for it.
* That a second process may open and write, but neither remove nor rename, a
  file a transfer holds open is Windows' sharing mode for MSVC's `ofstream` and
  `ifstream`.
* Allocation failures are those of the worker: in `Process`, `SetState`, `Fail`
  and the cache's and the digest's own. Those of the network thread (the
  manifest's handling, the pump) and of the server are not modelled.
* SA-MP's, open.mp's and other libraries' parts are marked external in
  `PROJECT.json`, and modelled from how the code uses them.

Not modelled:

* SHA-256 and the PE image and module checks: pure functions of bytes. Files
  are intact or not; the lifecycle module takes the outcome of a check.
* The characters of names and URLs: a text is good, or holds a byte the rules
  refuse.
* The logger, the transport factories, the address tables, tools and tests: no
  state anything else reads.
* The handshake endpoint's own rejection of an undecodable payload: no caller
  reaches it (finding 1).
* An unload while the library still initializes, and the exit between the
  deletion of the asset manager and the reset of its pointer: the model reaches
  both, and no property is stated about them.

## 7. What is left

A composition of `SharedDirectory` with the manager's sessions, in which one
process's interrupted transfer meets the other's queue.
