# Verification of meow-go

meow-go is an Android VPN client: a Flutter user interface, a Kotlin service
that owns the VPN, the mihomo proxy engine as a Go library, and a Rust library
with a tun2socks layer. This directory holds TLA+ modules translated from its
source, TLC configurations that check them on small instances, and proofs
checked by TLAPS. Paths below are relative to `src/`; `bg/`, `aidl/` and so on
are below `core/src/main/java/io/github/madeye/meow/`, `rust/` below
`core/src/main/`, Dart files below `flutter_module/lib/`.

Contents: [the system](#the-system) · [modules](#the-modules) ·
[runs](#the-runs-and-what-they-show) · [bounds](#bounds) ·
[fairness](#fairness) · [proofs](#what-is-proved) ·
[findings](#findings) · [exceptions](#where-the-properties-make-exceptions) ·
[not modelled](#what-is-not-modelled) · [plan](#plan)

## The system

| component | state it keeps | operations | what is hard | what makes it correct |
|---|---|---|---|---|
| **VPN service** `bg/BaseService.kt`, `bg/VpnService.kt`, `bg/MihomoInstance.kt` (process `:vpn`) | `Data.state`, connecting job, instance, close receiver, TUN descriptor; statics of the process: network callback, engine, dialer hook, protect reference, tun2socks flag | onStartCommand, stopRunner, forceLoad, onRevoke, onDestroy, the start sequence, the stop sequence | `onRevoke` runs on a binder thread; stops cancel a suspended start; starts queue behind stops; the system destroys the service when nobody holds it | a connected service has the whole chain in place, a stopped one nothing; every transition ends; the engine never dials unprotected |
| **Go engine switches** `core/src/main/go/mihomo-core` | `engineRunning`, `DefaultSocketHook`, `g_vpnService`, last error | start, stop, set protect, protect a socket | global, shared by all threads; the reference is tested and used without a lock | protected dials; a call through the reference finds it |
| **tun2socks** `rust/mihomo-android-ffi/src/tun2socks.rs`, `lib.rs` | `TUN2SOCKS_RUNNING`, the last error of a thread, the home directory; a reader, a stack driver, relays per run | start, stop, SOCKS5 handshake, packet of a query and of its answer | one static flag for all runs, nobody waits for a run, descriptor numbers are given out again; answers come in pieces, lengths and carries at their limits | a started loop runs, a stopped run ends; a relay begins behind the handshake; the answer reaches its asker and verifies |
| **Binder and connection** `BaseService.Binder`, `aidl/MihomoConnection.kt`, `MainActivity.kt` | callbacks, bandwidth listeners, loop; the state the activity shows | register, listen, broadcast, disconnect | two processes, either may die; broadcast before assignment | the activity shows the state of the service; one loop while somebody listens |
| **Profiles** `database/ClashProfile.kt`, `subscription/SubscriptionService.kt`, `MainActivity.kt` | the table of profiles | add, edit, refresh, select, delete, edit and revert YAML, save proxies | whole rows are written back after a fetch of seconds; no transactions | the user's choices and the upstream backup survive |
| **Home screen and proxy groups** `screens/home_screen.dart`, `widgets/proxy_groups_section.dart` | state, profile, selections of every group | load, select, roll back, replay | answers and events cross; a choice saves the map of all groups | what is shown, saved and used by the engine agree |
| **DNS** `dns_table.rs`, `doh_client.rs`, `tun2socks.rs` | address to name with expiry; the client built once in a process | ask, insert, look up, parse | expiry while in use; compression pointers; messages cut short | a connection gets the name the app asked for while the answer lasts, never another |
| **Obfuscation transports** `rust/mihomo-proxy-patched/src` | partial reads and writes; the plugin's configuration | poll_read, poll_write, poll_flush, poll_shutdown; parse_opts, dial | a poll may stop anywhere in a header, a length or a record; nested 16-bit lengths; one name used in three places | the bytes arrive once and in order, none is held back, the end is noticed; lengths announce what follows; the site that was asked for is dialled |
| **Controller client and its screens** `services/mihomo_api.dart`, `screens/logs_screen.dart`, `screens/connections_screen.dart`, `widgets/mode_card.dart` | buffers, timers, a stream that reconnects | listen, poll, close, set the mode | late and overtaken answers; an engine that restarts under them | what is received is shown; closed connections stay away; the card shows the engine's mode |
| **Daily traffic** `database/DailyTraffic.kt`, `MainActivity.kt`, `screens/traffic_screen.dart`, `services/traffic_history.dart` | a row a day; the rows as the screen read them | read, add, write back; delete what is old and read all | coroutines overlap; totals begin again; months end, the date may go back | never more than was moved; the days of this month are kept |
| **YAML editor and list of subscriptions** `screens/yaml_editor_screen.dart`, `screens/subscriptions_screen.dart`, `SoraEditorPlatformView.kt` | the texts of the editor, the list as read, the navigator's stack | type, validate, save, revert, load, refresh | validation is late, `navigator.pop` removes what is on top | a calm save is valid YAML; the list shows what is stored |
| **Choice of the apps the VPN carries** `screens/per_app_proxy_screen.dart`, `preference/DataStore.kt`, `bg/VpnService.kt` | ticks; two preferences, in the app's process, in their file and in the copy of the `:vpn` process; the rule of the tunnel | load, tick, save; build the tunnel | one process writes what the other read once; apps come and go | a tunnel carries what was ticked when it was built |
| **Settings screen** `screens/settings_screen.dart` | its switches | one load, a request for each tap | opened before there is an engine; taps overlap | a switch shows what the engine is configured with |
| **Providers screen** `screens/providers_screen.dart` | two lists | load both, update one and load again | loads of two tiles overlap | a provider that was updated is listed as updated |
| **Subscription conversion** `subscription/SubscriptionFormat.kt`, `core/src/main/go/mihomo-core/convert.go` | the last error, one for all threads | convert, ask for the reason | the reason is fetched by another call; wrappers give up on their own | who gets no text is told why |
| **Diagnostics** `screens/diagnostics_screen.dart`, `diagnostics.go` | a result and a running flag for each tile | run a test | the engine comes and goes during a test | an OK is that of the last run |
| **Rules screen, notification, logging** | none that matters | one request; output | | not modelled |

The activity (main process) starts the service with an intent, stops and
reloads it with broadcasts, and binds to it for state and traffic. The service
drives the Go engine and the Rust library through JNI in a fixed order. The
Flutter screens call the activity through a method channel and the engine
through its REST controller on the loopback interface. Both processes open the
same Room database and preferences.

## The modules

Each module declares its CONSTANTS with named assumptions, one action for each
handler or step of a coroutine, and at its end the properties. A definition whose
comment begins with *Mutant:* is not part of the specification: it is the
action with a plausible mistake, with which the run of that component must fail.

### `VpnSession`, `VpnService`, `VpnServiceInv`, `VpnService_proofs`

`VpnSession` is what the service promises: a session takes five resources up in
the order in which they need each other (network callback, TUN, protect
reference, engine, tun2socks), serves only with all of them, and gives them back
from the end of the chain.

`VpnService` is the code. `pc` is what the main thread is in the middle of;
with `pc = "idle"` it takes the next message of `mainQ`, the looper's queue.

| code | model |
|---|---|
| `Data.state`, `connectingJob`, `mihomoInstance`, `closeReceiverRegistered`, `notification`; `VpnService.conn` | `state`, `job`, `instance`, `receiver`, `notif`, `conn`: lost with the service object |
| `DefaultNetworkListener.callback`, `engineRunning`, `DefaultSocketHook`, `g_vpnService`, `TUN2SOCKS_RUNNING` | `netCb`, `engine`, `hook`, `protect`, `t2s`: statics that outlive the object and end with the process (`Crash`) |
| `onStartCommand` up to the suspension in `Core.currentProfile` | `OnStartCommand`; the query is `QueryDone`, the rest of the coroutine begins with `WithProfile` or `NoProfile` |
| `preInit`, `startVpn`, `startEngine`, `hub.Parse`, `startTun2Socks`, `changeState(Connected)` | `PreInit` ... `ChangeStateConnected`, steps between which other threads run; each may throw, which leads to `Failed` |
| `stopRunner` on the main thread | `StopRunner`, with `cancelAndJoin` of a connecting job that is suspended (`waiter`, `Cancelled`) |
| `MihomoInstance.stop`, `killProcesses`, the rest of the stop coroutine | `StopTun2Socks`, `StopEngine`, `ClearProtect`, `Release`, `ChangeStateStopped`, `Leave` |
| `onRevoke`, which calls `stopRunner` on a binder thread | `RevokeReads` tests the state, `RevokeWrites` assigns it and posts the coroutine (`OnStop`) |
| `meow_jni_protect` on a goroutine | `Dial`, `ProtectReads`, `ProtectCalls` |
| starts, bindings, bring-down of the activity manager (external) | `StartService`, `BindService`, `BringDown`; `up`, `started`, `uiBound`, `sysBound` |

`patient` is a history variable: users have waited until nothing of an earlier
session was left to run before they started the service again, and have not
broadcast a reload. `VpnServiceInv` adds the inductive invariants: `IInv`, which always
holds, and `RInv`, which adds what holds while users are patient. `VpnService_proofs` proves
both, and the refinement.

### `Tun2Socks`

Several sessions of the Kotlin side on a few descriptor numbers, the entry points of
`lib.rs` with the last error, and the tasks of each run: the reader with its test of
the flag, its `read` and its wait for room in the channel; the stack driver, which may
die; the relays. Packets are counted. `crowded` says that an earlier run had not ended
when the present one was started. It is checked and proved about as a part of `TunPath`.

### `ServiceBinder`, `ServiceBinder_proofs`

The callbacks and listeners of the binder, `changeState` as a broadcast
followed by an assignment, `onRevoke` which does both from another thread, and
activities that register, read the state, show it, leave or die. Of the lifecycle
only the order of the states is kept, so that several activities fit.

### `Profiles`, `YamlEditor`, `PerAppProxy`, `LibraryCalls`, `MethodCalls`, `MethodCalls_proofs`

What the app asks of `MainActivity` over the method channel. `MethodCalls` composes them; they
share nothing that the properties tell apart, so a behaviour follows one of them (`part`),
which adds their state spaces instead of multiplying them.

* `Profiles`: the table with its statements, and a coroutine for each call of the method
  channel that suspends at every query and during the fetch. `asked` records what
  the user last asked for; a destroyed activity cancels all coroutines and settles
  for what has been done.
* `YamlEditor`: the native editor and the messages it sends, the validation timer,
  save and revert, dialogs, the navigator's stack, and the list it is opened from with its
  loads and a refresh. The calls of an editor that is gone go on (`stray`). It follows one row
  at a finer grain than `Profiles` does.
* `PerAppProxy`: the screen of the apps, the preferences with the writes of their file, the
  copy that the `:vpn` process takes, and a tunnel with the rule that `startVpn` gives the
  builder; apps are installed and removed (external).
* `LibraryCalls`: `fetchSubscription` around `nativeConvertSubscription` and
  `nativeGetLastError`, on several threads with one `lastError`; and the tiles of the
  diagnostics screen. A body is one of six kinds, by what becomes of it.

### `Selections`, `Selections_proofs`

The selector groups of the profiles: what the section shows, what the home screen
keeps, what the row stores, what the engine uses, each a map from groups to members;
one queue of platform messages (`inbox`), saves on `Dispatchers.IO` and requests in any
order. A replay takes the groups one after the other and leaves out those whose first
member leads to DIRECT or REJECT (`ResolvesToBypass`, through groups that may lead to each
other). `raced` names the overlaps that have happened, and `missed` the groups for which a
request failed, was overtaken or left out; each excuses the properties that name it and no
other.

### `DnsWire`, `DnsPath`, `TunPackets`, `TunPath`, `TunPath_proofs`

`DnsWire` has the parser of `dns_table.rs` on cells instead of bytes, and a
server that may write a message in every way compression allows. `DnsPath` takes
a query from the TUN reader through the list of servers, the table and the reply
to the connection that is made with it, with a clock, sessions and deaths of the
process, and the way of the user's DoH preference through the process's copy of it, `config.yaml` and
the home directory into the client. `TunPackets` has the bytes
`tun2socks.rs` reads and writes itself: a UDP packet is its header fields with their 16-bit
arithmetic and the length of the rest; the stream of the handshake is a sequence in which only
the bytes the client looks at have a value. `TunPath` composes these and `Tun2Socks`: a
behaviour follows the sessions, the names, a packet or a handshake.

### `Obfs`, `ClientHello`, `V2rayPlugin`, `Transports`, `Obfs_proofs`, `Transports_proofs`

* `Obfs`: the three byte streams over one inner stream that gives and takes any part of
  what it is asked for. A token stands for a byte of the wire (or a message of the
  WebSocket), and one step of `PollRead` for one turn of the loop in `poll_read`.
  The caller flushes between writes only, as the callers in this tree do.
* `ClientHello`: the lengths `build_client_hello` announces, with 16 bits, next to the
  bytes it pushes; of the bytes only their number is kept.
* `V2rayPlugin`: `parse_opts`, one option a step, and `dial` with TCP, TLS and the
  WebSocket's upgrade, each of which may fail. `mux` and unknown options change nothing.
* `Transports` composes them; they share no state, so a behaviour follows one (`side`).

### `EngineApi`, `LogsScreen`, `ConnectionsScreen`, `ModeCard`, `SettingsScreen`, `ProvidersScreen`, `TrafficLedger`, `Screens`, `Screens_proofs`

`EngineApi` is the controller as the screens meet it: it answers while the engine
runs. The six modules after it are the parts of the app that follow it, and `Screens`
composes them around one engine. They share nothing but the engine, so again a behaviour
follows one of them.

* `LogsScreen`: the stream with its delay that doubles, `_pending`, `_logs` and the
  flush timer, which may be null, armed, or cancelled and not null.
* `ConnectionsScreen`: polls every second, dismissed ids, one close and close-all;
  answers arrive in any order.
* `ModeCard`: the mode read when the VPN turns on, the optimistic choice and its
  roll-back, states that reach the card some time after the engine changed.
* `SettingsScreen`: one switch (`allow-lan`; `ipv6` is treated alike), read once when the app
  opens, with taps that overlap and are refused, and an engine that restarts with what its
  profile says.
* `ProvidersScreen`: one provider of each kind, the load of `initState` and those after an
  update, each two requests, and the engine's own refetching (external).
* `TrafficLedger`: totals into differences, a read-modify-write coroutine for each, and
  `getTrafficHistory`, which deletes before it reads. `Midnight` and `Travel` change the date.

## The runs and what they show

| run | states | shows |
|---|---|---|
| `VpnService_Crossing` | 258 thousand | `ProtectedDials`, `ConnectedIsServing`, `TransitionsHaveOwner`, `RevokedIsNoticed` under any order of starts, closes, reloads, revocations, bindings and deaths; every transition ends (`TransitionsSettle`); with patient users nothing is left switched on (`ReleasedWhenOver`) and the service implements `VpnSession` (`ImplementsSession`); `RInv`, with `IInv` in it, is the invariant of the proofs |
| `VpnService_LateDial` | violated | `CallsLiveReference`, see Findings |
| `Tun2Socks_LateRelay` | violated | `NothingFlowsIn`, see Findings |
| `ServiceBinder_Overlap` | 4.6 million | an activity shows the state of the service once nothing is under way; one traffic loop exactly while somebody listens |
| `MethodCalls_App` | 687 thousand | with one coroutine at a time, the table says what the user asked for (`ChoicesKept`); backups are upstream texts that never go back, deleted profiles stay deleted (`RowsOnlyAdvance`); calm saves are valid, the list shows the row; the tunnel carries the apps that were ticked; who gets no subscription is told why and an OK of a test is that of its last run (`AnswersAreOwn`) |
| `Profiles_SelectionLost` | violated | `SelectionsKept`, see Findings |
| `Selections_Choices` | 4.7 million | what is shown, kept and stored is one (`ChoiceIsOne`), a connected engine uses it (`EngineUsesChoice`), the home screen shows the service's state; a choice is taken back only for a reason, and in its own group (`ChoiceStays`) - but for named races |
| `TunPath_Tun` | 1.5 million | a loop that was started when no old run was left runs until its stop, a start is refused only for a session that was abandoned (`StartedLoopRuns`), every stopped run ends (`StoppedRunsEnd`); a connection is named by the latest answer for its address, an app that was told an address is connected by the name it asked for, no server is left out and the user's own is asked first (`UnansweredIfAllFail`); the packet of an answer reaches its asker and verifies (`AnswersAsker`); a relay brings what the target sent and nothing of the handshake (`RelayStartsClean`) |
| `Obfs_Streams` | 465 thousand | bytes are written and read once and in order, records have the length they announce, no stream ends early; what has come is handed on and a closed stream ends (`ReadsCatchUp`); the ClientHello announces what it holds (`HelloFits`); the plugin dials what its options say and fails only for a reason (`DialsWhatWasAsked`) |
| `Obfs_EmptyBody` | violated | `PassthroughEndsWithInner`, see Findings |
| `Screens_Engine` | 486 thousand | received entries are shown, closed connections stay away and the list catches up, the mode card and the switches agree with the engine, an updated provider is listed, traffic is never invented and the days of the month are kept |
| `Screens_LogsStall` | violated | `LogsFlushed`, see Findings |

Every property of a passing run has a mutant: with that one definition
replaced by its *Mutant* the property is violated under the same configuration.

The configurations say `CHECK_DEADLOCK FALSE` where the bounds end the
behaviour (all sessions, polls, queries or events have been used up). In
`VpnService_Crossing` and `ServiceBinder_Overlap` deadlock is checked: somebody can
always bind or leave. Every module states a type invariant; those that earn no run of their own
(`TypeOK`, `EditorTypeOK`, `LedgerTypeOK`, ...) are not listed in the configurations. Those of
`VpnService`, `ServiceBinder`, `Tun2Socks` and `ProvidersScreen` are parts of the inductive
invariants; the other proofs state the types they need next to theirs, without the bounds.

## Bounds

* `VpnService`: `MaxQueue = 3` limits only what users post; the system's own
  messages come on top. Three is enough for a start behind a close behind a
  reload, which is all the receiver tells apart, with the stop of `onRevoke` and
  the answer of the query behind them. Sessions are not counted: the run covers
  behaviours of any length, and so do the proofs, for every `MaxQueue`.
* `Tun2Socks`: three sessions on two descriptor numbers, so that an old run can meet
  the next on another number and the one after on its own; room for one packet, where
  256 would only delay the wait; one relay.
* `ServiceBinder`: two activities, which overlap when one is recreated, two tasks
  waiting, one death of the service, which gives a second life with the same clients.
* `MethodCalls`: for the calls one at a time, two profiles and two versions after the
  first (for the lost selection two coroutines on one profile): rows differ in nothing
  but what they hold, and `refreshAll` treats the second as the first. For the editor, a
  valid and a broken text, two writes of the row, one message of the native editor on its
  way, one save and two loads in progress. For the apps, two with two installations or
  removals, and one save over any choice that is stored, which is all that a later save could
  find. Two fetches, which is what it takes to cross a reason; a test that needs the engine
  and one that does not, with two starts or stops.
* `Selections`: two profiles; one group of two proxies with three events in all - enough to
  switch, choose and reconnect around one another - or two groups with two events: one that
  begins with the other, one that leads through the other to DIRECT, and two that lead to
  each other. A row may hold a member that is gone.
* `TunPath`: for the names, two queries with the three shapes of answers that matter (one address
  with a TTL below the limit; two; one behind an alias), a clock of 0..2, a threshold
  of one entry so that eviction happens, two sessions, two jumps of pointers. For a packet, addresses
  of the words 1, 15059 and 65535, chosen so that the sum of some header has a carry whose
  addition carries again (a checksum folded once fails); headers of five and six words, with
  and without bytes behind the datagram, payloads of 0 and of 65507 bytes, the most a UDP
  datagram holds. For a handshake, all three kinds of address on both sides, a refusal at each
  step, names of 1 and of 255 bytes, and any cut of the stream.
* `Obfs`: headers of one line and of two, and one over the limit; four bytes out and three in, frames of one and two bytes, an empty one and one
  that is longer than the caller's buffer; a base of 2 for the length field and chunks of
  2, so that both of its bytes and the cut at the chunk size matter.
* `ClientHello`: writes around the chunk size and up to 65500, the shortest and the longest name.
  The theorem is for all.
* `V2rayPlugin`: strings of up to three options, which is two for one key and one of another, over
  every key; a host that is a name, one with its port (no name for TLS), one with colons (no
  authority of a URI) and a bare key; paths with and without a slash; a header that http refuses.
* `Screens`: two starts of the engine, two connections, two polls, two log entries with a
  buffer of one, three modes, three taps of a switch in progress, three versions of a
  provider. Traffic: three units over four days with two coroutines and one reading, months
  of two days with the 31 days that are kept scaled to two; what matters is that no month is
  longer than what is kept, which `LedgerAssumption` states.

## Fairness

* `VpnService`: the main thread, the binder thread and the I/O thread that answers
  the query are weakly fair: Android runs runnable threads and SQLite answers.
  Users, the system and the dialer owe nothing.
* `Tun2Socks`: Tokio schedules tasks that can run; `NativeStartTun2Socks`, and what follows a stop
  in the same function, are carried through. Sessions need never be opened or stopped.
  `DriverDies` and the end of relays are not fair.
* `Obfs`: a reader is polled again when the inner stream is ready; an end of file is
  always ready. The peer owes nothing. `ReadsCatchUp` needs no more than that.
* `Screens`: Dart's event loop and timers and the engine's answers; never the user, the
  engine's log or its connections. `ViewCatchesUp` assumes in its premise that the screen
  stays open, in the foreground, with the engine up.
* The other modules state safety only and have no fairness.

## What is proved

Eight modules hold theorems, all checked by TLAPS to the last leaf; each is for every value of
the constants that the named `ASSUME`s of the model admit. Where a theorem needs more, the
column says so. Every inductive invariant below was first checked by TLC on the instance of the
run that lists the property, with bounds in the place of infinite sets where it says that something
exists (`CountInv`, `ReadInv`); the strongest, `RInv`, is an invariant of `VpnService_Crossing`.

| module | theorem | says | inductive invariant |
|---|---|---|---|
| `VpnService_proofs` | `Invariance` | `[]IInv` | `IInv` |
| | `TypeCorrect`, `DialsAreProtected`, `ConnectedServes`, `TransitionsAreOwned`, `RevocationIsNoticed` | `[]TypeOK`, `[]ProtectedDials`, `[]ConnectedIsServing`, `[]TransitionsHaveOwner`, `[]RevokedIsNoticed` | `IInv` |
| | `PatientInvariance` | `[]RInv` | `RInv` |
| | `SessionsAreReleased` | `[]ReleasedWhenOver` | `RInv` |
| | `Refinement` | `Spec => ImplementsSession` | `RInv` |
| `ServiceBinder_proofs` | `BinderInvariance`, `OneLoop`, `ActivitiesInSync` | `[]BInv`, `[]LoopsMatchListeners`, `[]InSync` | `BInv` |
| `TunPath_proofs` | `StartedLoopsRun` | `[]StartedLoopRuns` | `LoopInv` |
| | `AskersAreAnswered` | `[]AnswersAsker` | `UdpInv` |
| | `RelaysStartClean` | `[]RelayStartsClean` | `SocksInv` |
| | `NoServerLeftOut` | `[]UnansweredIfAllFail` | `ServerInv` |
| | `NamesComeFromAnswers`, `FreshAnswersName` | `[]NamedByAnswers`, `[]FreshIsNamed`, given `ParsesTruly` | `NameInv` |
| `Screens_proofs` | `MonthsAreWhole` | `[]MonthIsWhole` | `LedgerInv` |
| | `DaysNeverOvercount` | `[]NeverOvercounts` | `CountInv` |
| | `UpdatesAreListed` | `[]UpdateIsListed` | `ProvidersInv` |
| | `ClosedOnesStayAway` | `[]ClosedStayAway` | `ConnInv` |
| | `CardsAgree` | `[]CardAgrees` | `CardInv` |
| | `SwitchesAgree` | `[]SwitchAgrees` | `SwitchInv` |
| `MethodCalls_proofs` | `AnswersAreTold` | `[]AnswersAreOwn` | `FetchInv`, `TestsInv` |
| | `TunnelsCarryChoice` | `[]CarriesChoice` | `AppsInv` |
| | `ChoicesAreKept`, `RowsAdvance` | `[]ChoicesKept`, `RowsOnlyAdvance`, for `Jobs = {one}` | `TableInv` |
| | `PausedSavesAreValid`, `ListIsCurrent` | `[]CalmSavesAreValid`, `[]ListShowsRow` | `EditorInv` |
| `Selections_proofs` | `SelInvariant` | `[]SelInv` | `SelInv` |
| | `HomeShown` | `[]HomeShowsService` | `StateInv` |
| | `ChoicesAreOne`, `ChoicesStay` | `[]ChoiceIsOne`, `ChoiceStays` | `ProfileInv`, `RowInv`, `SectionShowsHome` |
| | `EngineUsesChoices` | `[]EngineUsesChoice` | `TurnsInv`, `EngineInv` |
| `Obfs_proofs` | `AlwaysWrittenInOrder` | `[]WrittenInOrder` | `WriteInv` |
| | `AlwaysReadInOrder` | `[]ReadInOrder` | `ReadInv` |
| `Transports_proofs` | `HelloAlwaysFits` | `[]HelloFits` | `HelloInv` |
| | `AlwaysDialsWhatWasAsked` | `[]DialsWhatWasAsked` | `PluginInv` |
| | `TransportsKeepTheirPromises` | all four, of `TransportSpec` | those above |

### The VPN service

None of the properties is inductive. That a connected service serves depends
on what the start sequence has put in place at each of its steps (`StartInv`),
on nobody else releasing it meanwhile, which is what the relation of `job`, `pc`
and `waiter` is for (`JobInv`), and on the stop sequence having let go of the
descriptor by the time the state is Stopped (`StopInv`). `onRevoke` can only
write `Stopping`, which is why `ConnectedIsServing` survives it and why
`StoppingHasOwner` needs the queued stop.

The argument has three layers. `QueueStep` shows that every step leaves a sequence of
messages in the queue, and a queued stop in it unless that stop is run, the object
is destroyed or the process dies: nothing after it looks into the queue. `TypeStep`
and `InvStep` then take one action after the other; actions that change nothing but
the queue, the dialer and the activity manager's record share the step `Outside`.
Assumption used: `BroadcastAssumption`.

That nothing outlives its session (`ReleasedWhenOver`) needs more, and only holds while users
are patient. `RInv` adds three things: a queued start finds the service at rest and is the
last message of its lifecycle, so that the session it opens ends before the service is destroyed
(`LastStartInv`); where nothing may be held (`RestInv`); and that the resources are a chain
which the stop sequence takes apart from its end (`ChainInv`). The proof follows the
messages through every operation on the queue (`HasOps`), then again takes one action after the
other. The refinement maps the resources and the state to those of `VpnSession`; `RInv`
says of every step that changes one of them which step of the abstract session it is.

### The binder

`InSync` says nothing while the service is on its way, so its invariant must say why an
activity that shows another state is sure to be told: what was announced last is what a
connected one shows (`UpInv`), what a connecting one has read is current
(`ConnectingInv`), and a revocation under way has met no stop that would answer it too early
(`CalmInv`), which rests on the order of its two tasks (`QueueInv`).

### What passes the TUN

* The loop: from `establish()` to `close()` a session owns its descriptor (`FdInv`); the flag is set
  between sessions only for one that was abandoned (`FlagInv`); a run that was started alone is
  alone (`RunInv`).
* The packet: `Checksum` is folded twice, and `Fold` of a sum of ten 16-bit words is at most
  16 bits after two rounds and keeps the sum's remainder by 65535. The lemmas do this
  arithmetic for all addresses and lengths, where TLC tries three words.
* The handshake: at each phase, how many bytes were read, and that they end where a part of the
  script ends (`SocksInv`).
* The servers: `PushAll` keeps what a list has and adds what it lacks, so the list of a process
  holds the built-in servers and begins with the one it read from the user's preference
  (`ClientInv`); a query that asks has failed with exactly those before its own (`TurnInv`).
* The names: an entry of the table is what the latest insertion for its address left, and stands until
  that ends (`LastInv`); a whole answer's addresses are inserted or still to be (`TodoInv`).
  `ParsesTruly` is the hypothesis: records are for the question's name, hold addresses of
  the answer, and all of them if the message came whole. The parser folds over cells, so this
  would need induction over the message; TLC checks `ParsesTruly` of every message of the run, as
  the assumption `MessagesAssumption` of `MCTunPath`.

### The screens

Each invariant says what an answer under way may be worth when it arrives.

* `LedgerInv`: a reading deletes nothing within `KeptDays` of the latest date, even when the date
  has gone back.
* `CountInv`: each day has a part of what was moved, its row is at most that part wherever it is held
  (table, reading, screen, a coroutine that has read it), and the parts with the differences still
  to be written are at most `moved`, with room for the next difference. Why an overlap loses
  traffic and never invents it: a coroutine writes what it read plus its own difference, and
  both have their place in the day's part.
* `ProvidersInv`: what an errand has read is as new as the latest update, or the errand is known to be
  behind.
* `ConnInv`: a connection is in answers that follow each other (`OnceInv`), so one that was
  shown and closed can only be in an overtaken answer (`AwayInv`).
* `CardInv`: the states on their way turn on and off by turns (`TurnsInv`); undisturbed loads hold the
  engine's mode (`LoadInv`); what mode is shown when nothing would make the card read it anew
  (`ShownInv`).
* `SwitchInv`: a tap alone (`OneTapInv`), and taps that overlap: some answer will leave the
  switch astray, or they are served in order and the last is what is shown and asked for
  (`OverlapInv`).

### The method calls

* `TableInv`: the rows a call has read are the table's but for the texts it fetches and the url it
  edits (`RowsInv`), and the table says what was asked for but for what the call has yet to write
  (`AskedInv`). `Jobs = {one}` is a hypothesis, not a bound chosen for the proof: with two
  coroutines both properties fail, as `Profiles_SelectionLost` shows; the run has one too. Nothing
  else is bounded: any number of profiles, texts, urls and selections.
* `EditorInv`: what the messages of the native editor will make of the text Dart knows (`TextInv`);
  a save of a user who paused waits for the text that was validated (`CallsInv`); when a row is
  newer than what the list has read, somebody will make it read again (`ListInv`).
* `AppsInv`: what the file will hold when all is written is what the app's process has (`WriteInv`);
  the screen follows the user from what is stored (`PickInv`); the tunnel has the rule of the copy
  (`TunnelInv`).
* `FetchInv`, `TestsInv`: a fetch that was given null finds its reason unless it was silent or
  crossed; what runs while the engine is on has seen it.

### The choices of proxies

For any profiles, proxies, number of events and texts whose groups have a member, nested groups
and cycles included. The invariant says what the ends of the queues will bring.

* The last state event in `inbox` has the service's state; when there is none the home screen has it,
  but for a load that wrote an older one (`StateInv`). Events are on and off by turns, as the home screen
  takes them (`TurnsInv`), so the event of an engine that has just started is always one that replays.
* A load that has not read is queued, or the last one read the selected profile (`ProfileInv`).
* `WillHold`: when the saves have run, a row will hold what the home screen keeps, and what a load has
  read will not be overwritten (`RowInv`).
* While an engine runs and no event is queued, a group's choice is in use, or a replay or a
  request for it is on its way; and with requests on their way no replay is, what is shown
  is kept, and what a refusal goes back to is what the engine uses (`EngineInv`).

The argument takes the actions one after the other; what appending, taking off and removing do to
a queue is said once, in the lemmas at the head of the module. Assumption used:
`ChoiceAssumption`. `SectionShowsHome` turned out to be inductive without the exception for
saves that ran out of order, which it and `ChoiceStays` therefore no longer make.

### The transports

For every `Chunk`, `Base`, header, frame, buffer and cut that `BoundAssumption` admits: a chunk and a
frame fit the two bytes of a length (16384 and 256 in the code), and a header has at least one
line and no empty one, which would be its end.

* Writing: what the inner stream has taken and what is kept for it (`Sent`) carries the bytes
  accepted and those of the frame under way, in order; a frame is under way exactly while
  something of it is kept; every record in `Sent` is whole (`WriteInv`). A step appends one frame
  to `Sent` or moves part of it from the buffer to the wire, which leaves `Sent` alone.
* Reading: what the caller was given, followed by `leftover`, is the payload of what was taken
  (`ReadInv`). Of HTTP it says that until the header's end was found everything is in `scratch`
  and its end is yet to come (`HttpReads`); of TLS that `phase` is a place in one of the peer's
  records (`TlsReads`, `AtRecord`). `ScriptIs` says what the peer sends, `ScriptsAre` that each
  of its scripts is such: built from its frames, one after the other.
* The ClientHello (`HelloAssumption`: 212, chunk and name together below 65536, which the code meets
  with chunks of 16384 and names of at most 253 bytes): no sum of 16 bits wraps; a number below
  65536 is its own remainder (`U16Fits`), `FirstTake` is at most a chunk (`FirstTakeFits`), and the
  announced lengths are those of the parts (`BuildAnnounces`).
* The plugin: `cfg` is what the options read so far say, each key by its last value (`ParseInv`), and
  how far the dial has come says which names it has agreed on (`DialInv`).
* `SidesAreTheirOwn` splits a behaviour of `TransportSpec` into the three, so the theorems hold of the
  specification that the run checks.

Sums, the payload of a sequence and lists that are built entry by entry are defined by recursive
functions and folds. The library's induction theorems take operators, which the provers cannot
instantiate; the lemmas about these definitions therefore argue about sets of numbers, which have a
least element (`SmallestNumber` and `Induction`, from `WFMin` and `NatLessThanWellFounded`), and
prove first that the function a recursive definition chooses exists (`FlatExists`).

### Only model-checked

* Liveness (`TransitionsSettle`, `StoppedRunsEnd`, `ReadsCatchUp`, `LogsShown`,
  `ViewCatchesUp`): the prover does not handle fairness and `ENABLED`.
* `ParsesTruly`: that the parser of `DnsWire` reads from every message, of every compression, what its
  answers say. It is a hypothesis of `NamesComeFromAnswers` and `FreshAnswersName`, not a
  conclusion; TLC checks it of every message of the run.

Every other property of a passing run is stated by a theorem.

## Findings

* **`CallsLiveReference`** (`jni_bridge_android.c:58`). `meow_jni_protect` tests
  `g_vpnService` and later calls through it, on a goroutine; the stop sequence deletes and
  clears it on the main thread, and nothing waits for dials that are under way when the
  engine stops. The comment promises 0 when the reference is absent.
* **`SelectionsKept`** (`MainActivity.kt:200`). A refresh writes the row it read before its
  fetch back as a whole, over the proxies chosen meanwhile.
* **`PassthroughEndsWithInner`** (`simple_obfs.rs:178`). When the first response's header ends
  exactly where a read does, `poll_read` returns no byte, which is an end of file.
* **`LogsFlushed`** (`logs_screen.dart:73`). A level chosen while a flush is due cancels the
  timer and keeps it in `_flushTimer`: nothing is shown any more.
* **`NothingFlowsIn`** (`tun2socks.rs:54`). `MihomoInstance.kt:65` says tun2socks is shut down first
  so that no more packets flow into the engine's listener; `stop()` only clears a flag, and
  reader, stack driver and relays are still at work when the engine is shut down.

Seen while modelling, without a run of their own:

* `BaseService.kt:94` admits one bandwidth listener: a second activity, or one that
  follows an activity that died, is never sent the traffic.
* Pausing the log drops what arrives, and does not hold back what is already pending.
* After all connections are closed, the answer to an earlier poll lists them once more; and
  the tile of a `Dismissible` stays in the tree until the close is answered.
* After a revert the list keeps the old text (`subscriptions_screen.dart:133`), which the next
  editor opens with; the home screen is not told either.
* `navigator.pop(true)` after a save removes what is on top by then: the discard dialog is
  answered with yes, the revert dialog too - and the revert is carried out - or, when the
  editor was left meanwhile, the list itself goes.
* `nativeConvertSubscription` (`jni_bridge_android.c:164`) returns null for an empty body
  without setting the last error, although `MihomoEngine.kt:40` says to ask for it: the user
  is told an older reason or none. The last error is one for all threads (`engine.go:25`).
* A converted list longer than 64 KiB is cut (`exports.go:97`, `meow_fill_string`) and stored,
  although the comment at `jni_bridge_android.c:170` says the buffer is there "so we don't
  silently truncate long subs".
* The settings are read once, when the app opens; without an engine the switches say off until
  the app is opened anew. Of two taps that overlap and are both refused, the second may
  restore what the first had shown (`settings_screen.dart:144`).
* Two updates of providers load the lists at the same time, and the older answer may be taken
  last (`providers_screen.dart:48`).
* A save within the 300 ms after a broken edit stores text that was never validated.
* A choice of apps is applied by the next `:vpn` process, not by the next connection: the hint
  "Reconnect VPN to apply changes" (`strings.dart:183`) holds only if that process died.
* With every selected app removed, the builder is told of no app and the tunnel carries all,
  meow included, although `VpnService.kt:111` says that only selected apps go through it.
* The check mark of the same screen works while it loads and stores the empty choice.
* A choice in one group saves what the section shows for every group: what was only the default
  there becomes a choice, which the engine may not use at that moment
  (`proxy_groups_section.dart:122`). A roll-back between a change of profile and the next frame
  saves the choices of the old profile under the new one.
* The host of the plugin's options goes into the Host header, the TLS name and the URI
  (`v2ray_plugin.rs:333`, `346`): a name with its port is refused by TLS, a bare IPv6 address by the
  URI, and a path without a slash lengthens the authority and asks for "/".
* The DoH preference reaches the client only in a new process, and only through a profile
  that has a `dns:` section.

## Where the properties make exceptions

A property of a system that overlaps its work often has races it does not survive. They
are named as history variables, so that everything outside them is checked:

* `patient` (`VpnService`): a start while the service stops, or a reload, can leave a session
  in a service that is about to be destroyed (`stopSelf` without the startId).
* `crowded` (`Tun2Socks`): the end of an old run clears the flag of the next.
* `raced` (`ServiceBinder`): an activity that registers while the state changes may show
  the older one; so may all when `onRevoke` crosses a stop.
* `raced` and `missed` (`Selections`), explained at their declaration; and the frame in which the
  section still shows another profile than the home screen keeps.
* `passedBy` (`DnsPath`): the preference was changed after the process had read it, or the client was
  built from a profile without a `dns:` section; until the process dies the user's server has no turn.
* `Inexpressible` (`V2rayPlugin`): a host that the URI or TLS has no place for, a path without a slash.
* `flushLost` (`LogsScreen`), `stale` (`ConnectionsScreen`: answers overtook each other),
  `adrift` (`ModeCard`: the last answer was crossed by a choice or a restart), `astray`
  (`SettingsScreen`: the engine started without a load or an undisturbed tap since, or
  answers came across each other), `lost` (`ProvidersScreen`: the load after an update failed, or
  one that had read before the update was taken after all), `reverted` and `misplaced`
  (`YamlEditor`), and lists whose newest row was overwritten by an older answer.
* `silent`, `crossed` (`LibraryCalls`): the wrapper gave up without a reason; another
  conversion failed before the reason was asked for. And "many nodes", a text that was cut.
* `early`, `fresh`, `cameOrWent` (`PerAppProxy`): the check mark was tapped while the screen
  loaded; the `:vpn` process had read its preferences before; apps came or went under a
  tunnel. And a "proxy" choice of which no app is installed, which carries them all.
* `Profiles` has one coroutine at a time in `MethodCalls_App`; what two do to each other is the finding.

## What is not modelled

* The engine itself, Android and Flutter: they are external, and appear as what the code in
  `src/` relies on.
* Payload, YAML, JSON and log text; layout, formatting, scrolling, localisation.
* The delay test of the home screen, groups that are no selectors, adding and editing a profile
  from the list.
* The rules screen, the chart of the traffic screen, version and memory in the settings,
  notification and logging. Their state is what was read or drawn last.
* The writer task of tun2socks, which gives a packet up after three refusals; the UDP packets that
  are no queries; a `config.yaml` that cannot be read; geo data and its URLs in it.
* Whether a ClientHello is what a TLS server takes for one; rustls, http and tungstenite, of which
  the instances say what they accept.

## Plan

Done: all modules above with their runs; the proofs of every safety invariant and action property that
a passing run checks, and of the refinement.

Left, in this order:

1. `ParsesTruly` by induction over the cells of a message, as `Obfs_proofs` does it for streams.
   A pointer leads back into the message, so the induction is over the jumps that are left too.
2. Compose: `ServiceBinder`'s lifecycle as an abstraction that `VpnService` implements, and the
   list of subscriptions over `Profiles`.

No module that is proved about uses a RECURSIVE operator: `DnsWire` reads a
name with a recursive function and its messages with folds.
