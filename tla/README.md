# A TLA+ verification of tuicast

tuicast drives character terminals from programs: it connects to hosts (Telnet, SSH,
in memory), interprets what they draw, and lets callers send keys, wait for screens,
observe them, and record what happened. A driver process offers the same over JSON-RPC
on standard input and output, with SDKs, a workbench and an MCP server on top.

This directory holds TLA+ modules of its core, configurations that check them with TLC
on small instances, and theorems checked by TLAPS. Paths below are relative to the
repository's source; line numbers in the modules' comments are those of that source.

1. [The system](#the-system): components, state, interactions, what is hard
2. [The modules](#the-modules) and how they correspond to the code
3. [The runs](#the-runs): what each checks, bounds, fairness
4. [The proofs](#the-proofs)
5. [Findings](#findings) and [known deviations](#known-deviations)
6. [What is not modelled](#what-is-not-modelled)

## The system

| component | state | operations | interacts with |
|---|---|---|---|
| Session (`session.go`) | closing, done, error; the current `changed` channel; output counter; event history, subscribers, unsupported sequences | Send, Press, Resize, WaitFor, WaitForStable, WaitForIdle, Screens, Events, Close; the read loop | reads and writes its stream, applies bytes to its terminal, records them, tells its connection that it has ended |
| Flight recorder (`flightrecorder.go`) | bounded records, bytes kept and dropped, initial dimensions | output, resize, snapshot | one per session; applies output to the terminal under its own lock |
| Server, Connection (`server.go`, `connection.go`) | closed, closeDone and its error; the tracked children | Connect, NewSession, Close | a server owns connections, a connection owns sessions and its transport connection |
| Terminal contract (`screen.go`, `key.go`, `matcher.go`, `terminal.go`) | none | Screen, Matcher, Key | the interface between a session and a terminal |
| ANSI terminal (`ansi/`, `parsing/`, `xterm/`, `vt220/`) | cells, cursor, margins, modes, alternate screen, pending events, parser state | Write, Resize, Snapshot, DrainEvents, EncodeKey | called by the read loop, Resize and every wait |
| Transports (`telnet/`, `ssh/`, `memory/`) | negotiated options, window size, partial commands | Connect, OpenSession; Read, Write, Resize, Close | block the read loop and Send; Close must unblock them |
| Driver server (`driver/server.go`) | connections, sessions, subscriptions, controls, active requests | one handler per JSON-RPC method, Run, Close | serves every request on a goroutine of its own; one writer |
| Exclusive control (`driver/control.go`) | one controller per session; a gate per session; a mutex per control | AcquireSessionControl, Send, Press, WaitFor, Release | shuts the driver's mutating requests out |
| Driver UI, workbench (`driverui/`, `workbench/`) | recordings, replays | Start, Type, Press, AssertText, Stop, Replay, Close | holds exclusive control while it records |
| MCP server (`mcpserver/`) | its own connections and sessions | one tool per operation | a client of the library |
| SDKs (`sdk/`) | pending calls, subscriptions, queued notifications | call, subscribe, close | clients of the driver process |
| Reference application and servers (`reference/`) | pages, size channel | serve a connection | peers of the transports, for tests and demos |

How they interact. A session has one goroutine, its read loop, and any number of callers.
They share state under four locks, `stateMu` and `eventMu` for a moment, `sendMu` and
`resizeMu` across calls of the transport, and broadcast changes by closing the current
`changed` channel and replacing it. The recorder's lock is held while output is applied to
the terminal and recorded. Servers and connections hold their lock only to test `closed`
and to track or forget a child; dialing, opening and closing run without it, so each
operation re-checks `closed` afterwards. The driver keeps the same discipline one level up,
and adds the gate of a session, which a mutating request holds while it runs.

What is hard here, and what correctness means for it:

- *Waiting.* A waiter reads the session's state under a lock, its screen after the unlock,
  and then sleeps. No change may fall into a gap; the end of the session must not hide its
  last screen; "stable" must mean that nothing arrived in the quiet period.
- *Observing.* A slow observer has one slot whose content is replaced while it reads. It
  must never see an old screen after a new one, nor block the session, nor miss the last.
- *Events.* Full histories, full channels, answerbacks that must be sent before the event
  is published. Whoever follows events must see consecutive numbers, or know that it does
  not.
- *Closing.* Anything may be closed by several callers and by itself at the same time,
  while something is being opened. Every Close returns, when it does everything below is
  closed, all callers get one answer, and nothing that was opened is forgotten.
- *Exclusive control.* While a recording holds a session nobody else may send input, and
  letting go waits for its own operations without a deadlock.
- *The screen.* Hundreds of control functions over two buffers, margins, modes and wide
  characters, at any size, in any order, cut anywhere. Nothing may be drawn outside the
  margins, no change may go unnoticed, no string may leak into the text.
- *The wire.* Telnet commands are mixed with the data and cut at any byte; both sides
  negotiate and must stop; the end of a connection must not overtake its data.
- *Registries.* The driver and the MCP service open and close without their lock and
  register with it: whatever the core has open must stay within somebody's reach.
- *Processes.* The SDK's client and the driver's Run end in many ways at once: a closed
  input, a failed write, a canceled call, a process that dies.
- *Timers.* The reference application's timers cannot be taken back; a late one must not drive
  a scenario it does not belong to.
- *Subscriptions.* The response comes first, the replay and the live events join without a
  gap or a duplicate, and every goroutine stops when anything it depends on ends.

PROJECT.json lists these hazards one by one, at the line where each bites, with the
properties that cover it.

## The modules

| module | what it is |
|---|---|
| `FlightRecorder` | the recorder as a value, with its eviction; used by `Session` |
| `Session` | a session with its read loop and all callers |
| `SessionProperties`, `MCSession` | its properties; instances for TLC |
| `SessionProofs` | its types; its traffic; waiting, ending and closing; what is recorded |
| `Loops` | lemmas on loops: induction, and the recursive functions that the models sum and join with |
| `Ownership` | abstract: what a server promises about what it owns |
| `Lifecycle` | Connect, NewSession and Close of the object graph |
| `LifecycleProperties` | its properties and its refinement of `Ownership` |
| `LifecycleProofs` | nothing is leaked; closing is over for every caller; the refinement |
| `Control` | exclusive control of one session of the driver |
| `ControlProperties`, `ControlProofs` | its properties; proofs |
| `Subscriptions` | a session's subscriptions in the driver, to screens and to events |
| `SubscriptionsProperties`, `SubscriptionsProofs` | its properties; proofs |
| `Driver` | the driver's requests, its registry, Run and Close |
| `SdkClient` | the Go SDK's client of a driver process |
| `McpService` | the registries, recordings and failures of the MCP service |
| `Workbench` | recordings and replays under exclusive control |
| `Programs`, `ProgramsProofs` | `Driver`, `SdkClient`, `Workbench` and `McpService` side by side; proofs about them |
| `Terminal`, `TerminalProperties` | the emulation engine; its properties |
| `Parser` | the byte-stream parser before it |
| `Reference` | the reference application's pages and timers |
| `Telnet` | the Telnet transport against the reference Telnet server |
| `Ssh` | the SSH transport against the reference SSH server |
| `Transports`, `TransportsProofs` | `Telnet` and `Ssh` side by side; proofs about them |
| `Displays`, `DisplaysProofs` | `Terminal`, `Parser` and `Reference` side by side; proofs about them |
| `MCTerminal` | `Displays` with the writes of its run |
| `MCTransports` | `Transports` with the scenarios of its run |
| `MCPrograms` | `Programs` with the scripts of its runs |

`Lifecycle`, `Control` and `Subscriptions` are instantiated by their `.cfg` alone.
`MCSession` gives a session its reads, and splits a run into *scenes*: a scene names the
callers, reads, sizes and matchers of one small meeting, so that a run covers several
meetings instead of the product of all. `Transports`, `Programs` and `Displays` put components
side by side that do not share state: a behavior is a behavior of one of them, chosen by `part` in
its first state, and the others' variables stand still. A property of such a module is the
conjunction of the parts' properties of one kind, which are stated in the modules of the
parts. Where the components meet they do so through what a module shows to the next:
`Lifecycle` relies on `Session` only to end; `Driver` and `McpService` have of the core what
`Lifecycle` shows of it; `Workbench` has of a control what `Control` shows of it;
`SdkClient` has of the driver what `Driver` and `Subscriptions` show of it; `Session` has of
the terminal the revision that `TerminalProperties` is about, and of a stream the closing
that `Telnet` and `Ssh` show.

Three conventions hold throughout.

- One step is one critical section, one blocking call, or one operation on a channel. A
  lock whose critical section is one step needs no variable. A lock that is held over
  several steps (`sendMu`, `resizeMu`, the recorder's lock, the gate, a control's mutex) is
  read off the `pc` of its holders: `SendMuFree`, `ResizeMuFree`, `RecorderMuFree`,
  `GateFree`, `Readers`.
- Every caller makes one call. Several calls in a row by one goroutine are several
  callers, of which the order is one of those explored.
- An operator that is used nowhere and has `mutant:` in its comment is a plausible slip in the
  definition after it. Put in its place it makes the property named in PROJECT.json fail:
  that is how each property is known to depend on the code.

**Session.** `session` holds what `stateMu` guards. A `changed` channel is its number; it
is closed once a later one exists or the session is done (`ChangedClosed`). `terminal` is
the contract a session relies on: a revision that grows with every visible change, and
dimensions. A screen is its revision, a matcher the set of revisions it accepts. A `Read`
delivers a chunk (bytes, whether it changes the screen, terminal events), an error, or
both. The read loop is `Read`, `SignalOutput`, `ApplyOutput`, `RecordOutput`,
`SignalApplied`, `DrainEvent`, `AnswerBegin`, `AnswerWrite`, `PublishEvent`,
`CloseEndedStream`, `Finish`, in the order of `readLoop` and `finish`. A wait is
`WaitCapture` (state under the lock), `WaitSnapshot` or `StableSnapshot` (the screen, later),
`WaitSelect`, and for a stable wait `StableCheck` and `StableRecheck` after the timer, which
may fire at any moment. `PublishScreen`, `DropScreen` and `ResendScreen` are the three steps
of `publishScreen`, which the observer's `ReceiveScreen` may come between. `history` is
auxiliary: what was applied and recorded, in order, and the screen at the end.

**FlightRecorder.** Values only: `Output`, `Resized` and `Evict`. Offsets in time and the
bytes themselves are left out.

**Lifecycle.** A connection is named after the Connect that makes it, a session after its
NewSession. `Dial` and the opening of a stream run without locks, and what follows
re-checks `closed`. `close` holds each caller's position in the nested loops of
`Server.Close`, `Connection.Close` and `Session.Close`, so that a caller can join a close
under way at every level. The inside of a session is `Session`'s; here its loop only ends.
`Ownership` says, in seven actions and without any lock or loop, that nothing is born to a parent
that is closing and that a parent ends after its children.

**Control.** `driver` is the part of the driver's state under its mutex that concerns one
session: registered, its controller, closed. `client` are the mutating requests
(`getSessionForMutation`, then the call, then the gate's release), `control` the calls of
AcquireSessionControl, `operation` the calls of a control, `once` the body of a control's
Release and `release` its callers.

**Subscriptions.** `request` follows the handler of a subscribe request from the lookup of
the session to its response and start; `listener` is the channel of `Session.Events`,
`runner` the goroutine of the subscription, `notices` what it has written. A write may fail
at any time, after which `Run` closes the driver. Every subscribe request has an id, and a
client unsubscribes after it has the response. As in the code, a notification that was
already on its way may follow the answer of unsubscribe, and an event subscription that
overflows ends without a last notification.

**Driver.** `script` is what a client sends, a sequence of requests and notifications. `run` is
`Run`: `Take` starts a request's goroutine, `Stop` leaves the select for one of four reasons,
`CloseBegin`, `CoreCloseBegin`, `CloseEnd` and `CloseFails` are `Server.Close` and `core.Close`
within it, and `Return` waits for the requests. A request goes through `Serve` (the first
critical section of its method), `CoreOpen` or `CoreClose` or a wait, the second critical
section (`RegisterConnection`, `RegisterSession`), `Answer` and `Signal`. `core` is what the
core has open. Input requests are in `Control`, subscriptions in `Subscriptions`.

**SdkClient.** `call` is where each call is and what its channel of one holds; `client` the
state under the client's lock. The reader's `Read` handles one message: a response, or a
notification, which it queues or hands to `ReaderDelivers`; `AddSubscription` and
`DeliverQueued` are the two halves of `addSubscription`. `Fail` is done by the reader or by a
call whose write failed; `Finish` is its second half. The driver process is external and may
crash, or hang: then it reads no more, and a write to it need not end. `Reap` is Launch's
goroutine. The consumer has the channel, and can take from it, when `SubscribeEvents` has returned.

**McpService.** A call looks up its object (`Look`), works without the lock, and takes it again
(`Register`, `Recorded`, `RememberFailure`). `Close` is the closing of a session or a connection,
`CloseService`, `CoreCloseBegins` and `CoreCloses` that of the service. `done` is auxiliary.

**Workbench.** `entry` is the manager's state of the session's recording, `lock` the mutex that a
step holds across its send, `user` the Inspector's handlers. `Begin` is a request that comes in;
each further action is a critical section of `Manager`'s methods or a call of the control.
`ShutdownBegin`, `ManagerClose` and `ShutdownTimesOut` are the Inspector's shutdown.

**Terminal.** A terminal is a record and each method of the engine an operator on it, with the
names of the code: `PrintRune`, `Execute`, `HandleEscape`, `HandleCSI`, `HandleOSC` and what they
call. `Write` applies a sequence of recognised control functions; a revision is at most one
per write, as in the code. Colours are a few names.

**Parser.** Bytes are the nine classes that `protectString` and the library tell apart, `host`
what the sender means. The library's state machine (`Advance`) is external.

**Reference.** One variable for the model of the page that is shown, since opening a page makes
it anew. Messages of Bubble Tea come one by one, a timer's after any number of others: `ticks` is
the bag of timers on their way. `LoginKey`, `MenuKey`, `PageKey`, `StartKey`, `Leave`, `Tick`,
`Resize` are the branches of `Application.Update`.

**Telnet.** `wire` holds the bytes on their way; `ReadByte` and `HostReadByte` take one
through the state machine that both ends have (`Processed`), so that a read may end
anywhere. `StoreSize` and `SendSize` are the two halves of Resize; `TakeOldSize` and
`PutNewSize` those of the server's full channel, which takes no size without a width or a height
(`Flat`; this client announces none). `log` is auxiliary.

**Ssh.** `Dial`, `Handshake`, `Cancel`, `SelectResult`, `SelectDone`, `AwaitResult` are
`Connect` with its goroutine; `OpenChannel`, `RequestPty`, `Shell` and `OpenFails` are
`OpenSession`, which a host may refuse (`OpenRefused`; the reference server does not); `Copy`, `Wait` and `Read` the pipe of a session's output and its end. The
server serves its channel's requests one by one.

## The runs

Each run is `tlc -config <cfg> <module>`. Deadlock checking is off everywhere: a host may
fall silent and callers need not call, so all of these systems may rightly stop; that they
do not stop too early is what the liveness properties say.

| run | question | instance |
|---|---|---|
| `MCSessionWaits` | Does a wait miss a change, a match or the end; does stable mean quiet; does a failed wait's recording hold the output it saw? | three scenes: a waiter and 2 reads; a waiter, a resizer and a read; a stable or idle wait, a closer and 2 reads that may draw or not |
| `MCSessionTraffic` | Are screens, events and inputs delivered as promised, and is everyone let go? | four scenes: an observer, a resizer and a read; 2 senders, the answerback and 2 closers; a subscriber, a closer and 2 reads of up to 3 events; a resizer, a closer and 2 reads. A channel of 2, a history of 3, 2 tracked sequences; 3 bytes and 2 records kept |
| `MCLifecycle` | Does the object graph implement `Ownership`, lose nothing, and does every Close return? | 1 connection, 2 sessions, 3 closers of anything |
| `MCControl` | Who may send input, and is everyone answered once something is closed? | 1 request, 2 controls, 2 operations, 2 releases |
| `MCSubscriptions` | Response first, no gap or duplicate, nothing left behind, everything ends? | a subscription of each kind, 3 events, 1 screen; a channel of 1, a history of 2, a replay of 1 |
| `MCTerminal` | Does the engine keep to the margins, keep characters whole and tell its changes; do strings stay out of the text; do the application's pages tell the truth, and do its scenarios go on with one timer each? | 4 calls of about 70 kinds on a screen of 3 by 3, 3 sizes, both profiles; 9 bytes; pages of 2 or 3 columns, 2 timers, 3 generations |
| `MCTransports` | Is data intact, does negotiation stop, does the end follow the data, is everyone told? | Telnet: four scenarios of a host, up to 3 sizes, either end closing; SSH: 3 sizes, 2 pieces of output |
| `MCPrograms` | Is every request answered and nothing out of reach; are recordings true and is control given back; is nothing sent to a closed channel; does everything return? | Driver: three scripts of 4 or 5 requests, every failure; SDK: 3 calls, 2 events, a queue and a channel of 1, a driver that may crash or hang; Workbench: 2 users, 5 requests; MCP: 2 callers, 5 calls |
| `MCSessionScreensStale`, `MCControlShutdown`, `MCTelnetUpdates`, `MCSdkEvents` | the [findings](#findings) | as small as shows them |

*Why these bounds are enough.* The hazards are races of two or three parties around one
change, and every instance has a change, somebody who looks at it, and something that ends
it at any point. Waits do not write shared state (theorem `WakeupsNotLost` rests on exactly
that), so one waiter says what many would; observers and subscribers neither. Two reads make
a second change after the first was seen. Every capacity is exceeded by at least one
element: the recorder's bytes by one read of 4 or by two of 2, its records by two reads and
a resize; the event channel before and after the consumer has read; the replay is shorter
than the history and the history than the events. Two callers of Close are one that runs it
and one that joins; three let a connection's Close meet the server's while a session's is
under way. Two controls are one that holds the session and one that wants it. On a screen of
3 by 3 a wide character fits and is cut, a region of two lines has a line outside, and a
size of 2 by 2 cuts what was drawn; four calls are enough to set a mode or margins, draw,
and disturb it. Nine bytes hold a string with a character of four bytes and what follows it.
The bounds that are the model's and not the code's are `MaxOutput`, `MaxEvents`,
`MaxScreens`, `SendLength`, `MaxCalls`, `MaxBytes`, `InitialEvents` (100 in the code),
`MaxGeneration`, `MaxTicks`, `MaxExtra`, `Events`, `Queue` and `Buffer` (64), and `Output`.

*Fairness.* Goroutines that can run do run, timers fire, and nobody is obliged to call, to
cancel or to type. Beyond that:

- The host owes nothing: an open stream may block Read, Write, Resize and dialing for ever.
- `CloseUnblocksRead` is what the comment on SessionStream (`connection.go:22-23`) demands
  of a transport. `CloseUnblocksWrite` is *not* demanded, but holds for the transports of the
  repository, all built on `net.Conn` or `net.Pipe`. It is assumed by name, in `FairSpec`;
  `ContractSpec` is without it (see the [known deviations](#known-deviations)).
- Strong fairness of `ObserveDone`: once the session is done both `changed` and `done` stay
  ready, and Go's select picks among ready cases at random.
- Strong fairness of the locks that are held across steps (`ClientLock`, `AcquireLock`,
  `ReleaseGate`): a `sync.Mutex` turns to its oldest waiter after a millisecond.
- A call of a session may block while the session runs and returns when it has ended
  (`Control`); that is what `MCSessionWaits` and `MCSessionTraffic` show of the calls.
- A client of the driver reads what is written or breaks off; `Run` closes the driver after a
  failed write (`Subscriptions`), which is its main loop's `defer`.
- A peer of a transport may fall silent: the handshake of SSH and the reads of Telnet are owed
  nothing until their connection is closed. The goroutines of both ends run, and the reference
  application takes the sizes it is given.
- A client of the driver need not send; a wait lasts as long as it likes, but ends with the
  driver. Run's select is not left waiting when a shutdown or a failed write is ready.
- The driver process need not answer the SDK, nor read: Close has a deadline for the response to
  its shutdown call (`CallCancel("shutdown")`) and for the process (`Kill`). The write of a request
  has none, and is owed an end only while the driver reads, or when it cannot any more
  (`Writable`). `CallsReturn` therefore says that Close returns once its request is written.
- A handler of the Inspector runs, and its send returns; the Inspector's shutdown may time out.

*What a wait is not promised.* `MatchIsNoticed`, a part of `WaitsReturn`, speaks of a match
that stays. A screen that matches only between two looks of a waiter may be missed, in the
code as in the model. After the session is done a Resize already under way may still change
the terminal's dimensions; `history.finalRevision` is the last screen the host drew, which
is what the properties speak of.

## The proofs

`tlapm <module>` checks them; they hold for any sets of callers and any bounds that satisfy
the assumptions of the modules:

- `SessionAssumption`, `RecorderAssumption`, `ControlAssumption`: types and positive bounds;
- `LifecycleAssumption`: a connection, a session and neither are three different things;
- `SubscriptionsAssumption`: among others, that a replay is not longer than what a session
  retains (64 of 256 in the code);
- `TelnetAssumption`: what the host and the callers send are bytes, and a greeting is made of
  commands;
- `ScriptAssumption`: a script is a sequence of requests; `UserAssumption`: "nobody" is no user;
- `TerminalAssumption`: what is written is a sequence of the control functions that the parser
  hands over, with numbers as parameters, and a terminal starts with a positive size;
- `DisplaysAssumption`: sizes and generations are numbers, and the event log starts with an event (100 in the code).

TLC evaluates each of them on the instances of the runs. Of `Ssh`, `McpService`, `SdkClient` and
`Parser` nothing is assumed.

| theorem | says |
|---|---|
| `SessionProofs!TypeCorrect` | `TypeOK` of a session |
| `SessionProofs!InputsInOnePiece` | `SendsNotInterleaved` |
| `SessionProofs!EventsReachSubscribers` | `EventsDelivered` |
| `SessionProofs!PublishedInTime` | `PublishedWhenDue` |
| `SessionProofs!WakeupsNotLost` | `NoLostWakeup` |
| `SessionProofs!EndSeenWithFinalScreen` | `EndedSawFinalScreen` |
| `SessionProofs!CloseStops` | `CloseStopsReader` |
| `SessionProofs!OutcomeSettled` | `OutcomeIsFinal` |
| `SessionProofs!StableQuiet` | `StableMeansQuiet` |
| `SessionProofs!ScreensReachObservers` | `ScreensDelivered` |
| `SessionProofs!RecorderCorrect` | `RecorderKeepsNewest` |
| `SessionProofs!ObservedOutputRecorded` | `ObservedOutputIsRecorded` |
| `ControlProofs!InputExclusive` | `ExclusiveInput` |
| `ControlProofs!ReleaseFinal` | `ReleaseIsFinal` |
| `ControlProofs!KeptUntilReleased` | `ControlKept` |
| `LifecycleProofs!NothingIsLeaked` | `NothingLeaks` |
| `LifecycleProofs!LifecycleTypes` | `TypeOK` of `LifecycleProperties` |
| `LifecycleProofs!ClosingIsForEveryone` | `ClosedForEveryone` |
| `LifecycleProofs!OwnershipHolds` | `ImplementsOwnership`, the refinement |
| `SubscriptionsProofs!SubscriptionsTypes` | `TypeOK` of `SubscriptionsProperties` |
| `SubscriptionsProofs!InOrder` | `DeliveredInOrder` |
| `SubscriptionsProofs!NothingIsLost` | `NothingLostOrLeft` |
| `TransportsProofs!DataArrives` | `DataIntact` |
| `TransportsProofs!AnswersDoAlternate` | `AnswersAlternate` |
| `TransportsProofs!OutputBeforeEnd` | `OutputThenEnd` |
| `ProgramsProofs!RequestsAreAnswered` | `EveryRequestAnswered` |
| `ProgramsProofs!NothingLost` | `NothingUnreachable`, of the driver and the MCP service |
| `ProgramsProofs!ControlStays` | `ControlIsNotLost` |
| `ProgramsProofs!WhatIsRecordedWasDone` | `RecordingsAreTrue`, of the Workbench and the MCP service |
| `ProgramsProofs!ClosedStaysClosed` | `ClosedIsFinal`, of the SDK's client |
| `DisplaysProofs!StringsApart` | `StringsStayApart`, of the parser |
| `DisplaysProofs!ScenariosNeverStall` | `NeverStalls`, of the reference application |
| `DisplaysProofs!PagesTellTheTruth` | `PagesAreTrue`, of the reference application |
| `DisplaysProofs!EmulatorInBounds` | `TypeOK` of `TerminalProperties` |
| `DisplaysProofs!RevisionsTell` | `RevisionTellsScreen` |
| `DisplaysProofs!OnlyErasuresSplit` | `OnlyErasureSplits` |

*The types of a session.* `TypeOK` is not inductive: that the terminal never has dimensions it
rejects, and that a drained event is there when it is published, depend on where the read
loop and the resizes are. `TypeInv` adds these two, and one lemma per group of actions shows
that they keep it.

*Waiting.* Two facts are added. `Ended` says what follows from the end: the read loop has
stopped, the stream is closed, and the screen is not older than the final one. `WaitsHold`
says what a waiter's copies are worth: its channel and counter are not newer than the
session's, a finished waiter has the final error, and one that reports the end looked at the
screen after it. The lemmas about the session never mention waiters: they prove one
predicate on steps, `Advances` (channel numbers, counter and revision only grow, a new
revision owes a signal, a signal that was due is still due or has been given, and nothing
follows the end). That `WaitsHold` survives any step that `Advances` is one lemma, that it
survives the waiter's own steps another, and the two together with `StepKinds`, which sorts
the steps of `Next`, make the invariant inductive.

*Observers.* `ScreensHold` is kept per observer and rests on the same `Advances`: what it has
received and what is in its channel rise, stay below the revision that the session has, and end
with the last one it took (`Watches`). An observer that has returned without being canceled took
the final screen. As with waiters, one lemma is about the steps of the session and one about
the observer's own.

*The traffic of a session.* `Traffic` has four parts, each inductive beside `TypeInv`.
`SendsHold`: at most one writer is between its first and last piece, and then the wire ends with
what it sent, for `sendMu` is held over the pieces. `EventsHold`: a subscriber's events and the
history are stretches of numbers that end where the session's sequence does, until the
subscriber is closed or its channel overflows (`Follows`, `Keeps`). `AnswersHold` counts: the
enquiries of the history and the one that is due are no more than the answers on the
wire; a step adds at most one to each (`EnquiriesGrow`, `AnswersGrow`). `UnsupportedHold`: what is
published as unsupported was tracked before, and is published once.

*The recording.* Two invariants are about sums over sequences of any length, which the model
computes by recursive functions. `SetInduction` is induction over the naturals, from the fact
that they are well-founded; with it `LoopDefined` shows that such a function exists, and
`PartBytes`, `BytesDivide`, `PartSize` and `SizesDivide` that a sum, or the size that is left
after a stretch of records, can be taken in two parts. `EvictDrops` says what an eviction does
to a recorder: it drops a prefix, the shortest that makes the rest fit, and puts what it dropped
into the byte count and the initial size. That it is the shortest is why the recorder keeps as many
records as its limits allow: the newest one that was dropped would exceed one of them (`Full`). What
is recorded later only adds to what exceeds, so this stays true. `RecorderHolds` says all this in
terms of how many records are gone, and is kept by `RecorderStep`. `OutputsHold`
compares the output in what was applied with the output in what was recorded. Output is applied
before it is recorded, under the recorder's lock: only the read in hand is applied and not yet
recorded, and while it is, nobody can take the recording. A resize, which has no output, may be
recorded later. So, when the lock is free, the output recorded is the output applied, and what a
waiter saw before is a beginning of it (`OutputsPrefix`).

*Exclusive control.* Each lock carries one fact. `GateKeepsOut`: while a control is being
granted no request is past the gate, so the grant finds nobody at work. `ReleaseWaits`: while a
Release is past its control's mutex nobody operates, so the control that is deleted is in
nobody's use. `OperatesWhileHeld` ties an operation to the session's controller until a close
takes it away. The three with `TypeOK` and `ExclusiveInput` are inductive.

*The object graph.* The module has three parts, each built on the one before. `NothingLeaks`
needs to know what each Close holds (`ClosersHold`: what is on its list or under its hands was
handed out, and it forgets a connection only after closing the transport connection) and that a
session is forgotten after its stream was closed (`LoopsCloseStreams`). `OnlyCloses` is what all
steps of a Close have in common, and `ClosingKeeps` that such a step keeps the invariant, so
that each of the thirteen actions of Close only has to be shown to be such a step. For
`ClosedForEveryone` three facts are kept per Close: for whom it works and that its work is still
undone (`Works`), that what is left is on its list or under its hands (`Lists`), and what it was
told (`Told`); one per pair, that no two do the same work (`Alone`); and `Over` about the
objects themselves. `Persists` is the rely condition: closed is for ever and what is closed gets
no children, so a Close that takes no step loses nothing (`StillWorks`). The refinement adds
that a transport connection is open until somebody closes its connection (`OpenInv`); then
`Track`, `TrackSession`, `Finish`, `CloseOpener` and the first critical sections of the closes
are the steps of `Ownership`, and so is the end of the server's loop; all others are stutters
(`Stutters`).

*The Workbench.* `ControlIsNotLost` needs three facts besides types: a request has a control only
where it installs, replays or releases (`OnlyHoldersHaveControl`), an Inspector that is down in
order has no request in progress (`DownIsDrained`), and whoever holds control is the entry's
recording or a request (`Tracked`). One lemma per kind of step: a handler's, a request that
comes in, the session's close, the Inspector's steps.

*The driver's registry.* An object of the core is named by the request that opened it. The facts
added to `NothingUnreachable` are that tables hold numbers that were given out (`Types`), that
what Run has not taken has not begun (`Unread`), and that a connection, or a session, is named
and registered by exactly one request, which has then finished (`Connected`, `OnConnection`).
Without them two requests might register the same object and a close of one number lose the
other.

*The driver's answers.* `Tally` counts the places of a request among what was written: none until the
request has reached its answer, then one if it is named and the write did not fail; when `Run` has
returned in order nobody is on the way. Appending a number to a sequence adds one place for that
number and none for another (`OneMore`), so each step of a request or of Run changes one count.

*Subscriptions.* What a client was sent, what is left of the replay and what is in the channel
are stretches of the session's events without gaps (`ReplayFollows`, `LiveFollows`,
`ChannelHolds`). They overlap only where the replay reached into what the channel holds as well,
and `last` tells the goroutine how far. That the replay is taken after the channel was
registered is what keeps a gap from opening between them. A replay is whole (`Whole`) only if
the history has as many events to give, hence the assumption. `StartsAfterResponse`,
`RecordHolds` and `RecordTracked` tie the goroutine to its request and to the driver's record of
it.

*The MCP service.* Objects and steps are named by numbers that a call draws when it begins.
`Numbers` says that none is drawn twice, `Unknown` that an object that is not registered yet is
known only to the call that opens it, `Agree` that the registries and the core tell the same of a
session and that a closed service leaves the core closing. For the recordings, `Steps` says that
a call about to record has done its step and that this step is in no recording yet. Most steps
open nothing: `Shrinks`, `Aside` and `Unrecorded` deal with these at once.

*The Workbench's traces.* The trace of a recording is compared with what was chosen from the
session's input, a recursive function over both (`Chosen`); that appending one thing adds it to what
is chosen, or nothing, is `SendingMore` and `SentMore`. `TraceHolds` adds to the property that two
who use a control, requests or the recording, use different ones (`ControlsDiffer`), that nothing
was sent under a control that is still to be granted (`NothingSentYet`), that whoever is about to
send holds the recording's lock and the recording is active (`LockHeld`), and that a replay stays in
its trace (`InTrace`). Then a step that records appends one step to the recording and one to
what was sent under its control, and no other request's comparison changes.

*The programs side by side.* `BeginningOfEach` and `StepOfEach` say that a behavior of `Programs` is
one of each of its components, of which three stand still: that makes the theorems about
`Driver`, `SdkClient`, `Workbench` and `McpService` theorems about `Programs`, whose properties
are those of the run. `Displays` and `Transports` are taken apart in the same way.

*The SDK's channels.* `ClosedStaysClosed` compares a channel with what it was a step before.
`SdkTypes` says what the reader, the queue and the driver's messages hold; `Respects` says of a
step that a closed channel stays closed and gets nothing more. A delivery, by the reader or by
the goroutine that works the queue off, looks at the channel and sends to it under one lock
(`Delivers`), and so do the closes (`ClosesChannel`); nothing else touches the channel but its
consumer (`Consumes`).

*The parser.* The host's own view, what it has written as text and as strings so far, is compared
with the library's state. `FollowsText` says where the library stands outside of a string: what it
printed, with the bytes of a character it still collects, is the host's text. `FollowsStrings` says
that inside of a string `continuation` is what the character still lacks and that the bytes
collected, with their disguise taken off (`TextRestored`), are the host's. So a continuation byte
that looks like the end of a string is never shown to the library as one, and every other end is.

*Timed scenarios.* `InFlight` says that the timers on their way are a bag, `Shaped` that the model is
that of its page. `Goes` says of what a key, a resize or a timer makes of a page: if the scenario goes
on, it went on before and its generation is the same, so the timer that it waits for is still
on its way. Only starting, restarting and resuming make a scenario go on that did not or change its
generation, and they send a timer. A timer that fires is taken from the bag; if it was the one that
the page waits for, the page obeys it and sends the next, or the scenario does not go on.
`TimersStayApart`, a part of `PagesAreTrue`, is the other half: a page's timers are of generations
that it has had, and of the one it has there is one at most (`OneTimerAtMost`). A key that starts a
timer makes a new generation, of which there is none (`OneTimerMore`); a timer that fires is taken
from the bag before it is sent again (`OneTimerLess`). It is said of a page that stays: one that is
left and opened again counts from the start (`OneTimer`, a [known deviation](#known-deviations)).

*The pages.* `Truthful` has a conjunct for each page. Where what is shown does not follow from the
step before alone, it says why: an operation that runs has not ended, and only one that counts by
thirty has failures (`LongRunningTrue`); a screen that is still drawn has accepted no input
(`PartialTrue`); a position that was saved is inside of the screen too (`CursorTrue`). Each page has
lemmas for its keys, its timers and its resize, and no page depends on another, because opening one
makes its model anew.

*The emulator.* `TypeOK` says that the cells that the code indexes exist; `Sound` adds that the
records have their fields, so that it can be kept by what takes a terminal apart and puts it together.
There is one lemma for each method of the engine, and it says three things at once: a sound terminal
stays sound (`Survives`), wide characters that are whole stay whole (`Mends`; with the first,
`Onward`), and if the revision is the same, so is the screen (`Tells`). Most methods end
in `Changed`, which tells of anything (`Redrawn`); the others touch only what a screen does not show
(`Hidden`), or move the cursor, which is told if it has moved (`CursorTold`). What enters and leaves
an alternate screen is `Onward` only, and what erases survives and tells only: these are the
exceptions that the two properties make. A sequence of
parameters, and of control functions, is a loop; that the model's recursive function for it
exists, and keeps what each turn keeps, is by induction on the number of turns (`SetInduction`).

*Wide characters.* `Paired` says of the cells of a buffer that each half has the other beside it. It
is a matter of single rows, so whatever moves rows keeps it (`RowsPaired`). Of `normalizeCells` it
must be shown that blanking a half that is alone leaves no other alone (`NormalizedPaired`): the
partner of a half that stays is one that stays. A character is drawn only where both halves of what was
there have been cleared (`ClearedPaired`), and a wide one only where it has two columns, which
`PrintRune` sees to even in insertion mode, because an insertion leaves the cursor (`CharactersShift`).
A resize makes both buffers whole, whatever they were before.

*Model-checked only.* All liveness: the fairness above, like ENABLED, is out of the prover's reach.
`OutsideMarginsKept` of `MCTerminal` speaks of writes of at most three functions, as its run has
them; it would not be true of a longer write that moves the margins and puts them back, so there
is nothing to prove for every value of the constants.

## Findings

1. *`Screens` can miss the newest screen* (code, `session.go:302-326`, run
   `MCSessionScreensStale`). It compares a snapshot first and reads the current `changed`
   channel afterwards. A screen drawn and signalled in between is noticed only with the
   next change, which a silent host never makes. `WaitFor` reads in the other order.
2. *Closing the driver ends exclusive control too early* (design, `design/workbench.md:22-23`,
   run `MCControlShutdown`). `Close` forgets the controls (`driver/server.go:190`) before it
   closes the sessions (`driver/server.go:193`), and a request in between passes the gate
   beside an operation of the control. `InputExclusive` proves that this is the only way.

3. *The reference servers can stop reading for ever* (design, `design/reference-tui.md:59`, run
   `MCTelnetUpdates`). When the channel of sizes is full, the reader takes the old size out
   and puts the new one in (`reference/telnet/server.go:223-228`). If the application takes the
   old one in between, the reader waits for a size that only it could send: the
   update is not forwarded, and nothing more is read. The SSH server has the same lines
   (`reference/ssh/server.go:162-167`).
4. *The SDK can deliver events out of order* (comment, `sdk/go/session.go:150`, run `MCSdkEvents`).
   `addSubscription` registers the subscription under the lock (`sdk/go/session.go:271-277`) and
   delivers what was queued after it (`sdk/go/session.go:278-280`); the reader may deliver a newer
   event in between (`sdk/go/client.go:253-269`).

### Known deviations

Formulas that TLC shows violated as well, stated in the modules with the comment "Does not hold"
and in no run: they are weaker or rarer disagreements, or of the same kind as a finding.

| formula | what happens |
|---|---|
| `SessionProperties!ObservedIsRecorded` | Resize changes the terminal (`session.go:164`) before it records the resize (`session.go:167`), so a failed wait's recording may lack a resize it saw; `flightrecorder.go:74-76` reads as if it could not. Of output the promise holds: `ObservedOutputIsRecorded` |
| `SessionProperties!CloseReturns` under `ContractSpec` | a stream whose Close unblocks Read (`connection.go:22-23`) but not Write: the read loop's answerback waits for `sendMu`, Close for the read loop. The transports of the repository unblock both |
| `TerminalProperties!RevisionAlwaysTellsScreen` | a repeated 1047 or 1049 clears the screen, or moves the cursor, without a new revision (`ansi/terminal.go:914-955`, `design/terminal-behavior.md:109`). `RevisionTellsScreen` says that nothing else does |
| `TerminalProperties!WideCharactersWhole` | ED, EL and ECH blank one half of a wide character (`ansi/terminal.go:757-810`, `design/terminal-behavior.md:29-32`). `OnlyErasureSplits` says that nothing else does |
| `Telnet!HostKnowsSize` | the size is read before its write is begun: the negotiation and a Resize may write the older one last (`telnet/stream.go:283-293`) |
| `Ssh!SessionEnds` | finding 3 for SSH |
| `SdkClient!StreamsEnd` | a subscription registered after the failure of the client was handled is never finished (`sdk/go/session.go:263-282`, `sdk/go/client.go:318-336`) |
| `SdkClient!CloseReturns` | Close writes its shutdown request into the driver's input before it looks at its timeout (`sdk/go/client.go:288-301`): a driver that has stopped reading keeps it there and is never killed (`sdk/go/client.go:385-386`), against `design/go-sdk.md:169-171`. `CallsReturn` says that Close returns in every other case |
| `McpService!RecordedInOrder` | a step is recorded after it was done and without the session's lock: steps of concurrent calls may change places (`mcpserver/service.go:524-554`) |
| `Reference!OneTimer` | a page that is opened again counts its generations from the start (`reference/application.go:438`, `reference/scrolling.go:30-34`, `136-147`): a timer that was on its way when the page was left passes for the new stream's, and two timers append rows, faster than the 75 ms of `design/reference-tui.md:112-113`. The other timed pages count likewise. `TimersStayApart` says that nothing else gives a scenario a second timer |

## What is not modelled

- *Encodings and layout*: JSON-RPC messages, traces, schemas, the keys' sequences
  (`ansi/terminal.go:147-304`), what the pages look like, the pages without state of their own
  (colors, keys, Unicode), and the event stream of the Inspector's page.
- *Thin layers over libraries*: the in-memory pipe, the accept loops of the reference servers, the
  programs' flags and configuration, the SDK's typed methods over `call`.
- *Other runtimes*: the Python, TypeScript and Java SDKs follow the Go client's protocol with
  scheduling of their own.
- *Data and release*: trace dumps, schemas, examples, packaging.
- *The libraries* are external: Bubble Tea's message loop, `golang.org/x/crypto/ssh`,
  `charmbracelet/x/ansi`, net/http. What is relied on is said where it is modelled.
