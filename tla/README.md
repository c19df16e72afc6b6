# Verification of the AMI client

This directory holds TLA+ specifications of the Go AMI client, the TLC configurations that check
them on small instances, and proofs checked by TLAPS. Paths are relative to the root of the
repository's sources. `PROJECT.json` maps every definition to the lines it models.

## The system

The client keeps one authenticated connection to an Asterisk Manager Interface and multiplexes
over it: requests with one response each, *follows* (a request plus a branch of correlated
events), *lists* (a request whose response is followed by items and a terminal mark), ordinary
event *subscriptions*, and its own keepalive Pings.

### Inventory

**Demux machine** (`internal/demux/{demux,pending,route,branch,retire,types}.go`). State:
pendings by ActionID, branches (subscriptions, follows, lists) with their queues and routing
indexes, retirement records, byte aggregates, a logical clock. Operations: `Admit`,
`CommitWrite`, `AbortNotSent`, `Abandon`, adopt and close of follows and lists, `Route`,
`Subscribe`, `Close`, `Take`, `Expire`, `Kill`. It is synchronous: the session calls it under
its lock and gets `Effects` back (completions, wakes, a fatality). Hard: the calls come in any
order; a response may be routed before its write is reported complete, a list may end before its
response, the server may answer what was given up. Correct means: what the server still owes is
known exactly (a retirement slot per outstanding action), charges and indexes are exact, each
branch ends once, a list exposes a completion only if it is one.

**Session lifecycle** (`client.go`). State: the machine, waiters, branch states, root cause,
contexts. Operations: `Dial`, `readLoop`, `routeOne`, `die`, delivery of effects, `sweepLocked`,
`Close`, `Done`. Reader, expiry loop, keepalive and any number of callers share the session
lock. Hard: many paths race to end the client. Correct: the first cause stands and is the true
one, every waiter gets exactly one completion, `Done` closes once everything has stopped.

**Expiry loop** (`client.go`). Reads the earliest deadline under the lock, sleeps outside it on
a timer and a poke channel. Correct: no record is slept past.

**Dispatch** (`dispatch.go`). One goroutine per `Do`, `DoFollow`, `StartList`: writer admission,
registration, a write with six dispositions, the wait for the answer. Hard: cancellation, death
and failed writes race the answer. Correct: no call that the machine answers with a panic,
nothing left behind, an error that says "not sent" means that no byte was.

**Keepalive** (`keepalive.go`). A worker that sends Pings through the same write slot under its
own timeout and closes the client when one stays unanswered.

**Consumer handles** (`subscription.go`, `list.go`, `branchState`). State: the notify channel
(capacity one), the terminal result, the consumer slot `busy`, the kept completion of a list.
Operations: `Next`, `All`, `Consume`, `Completion`, `Close`. Hard: a consumer looks under the
lock and parks outside it; several goroutines consume and close. Correct: no wake-up is lost,
one consumer at a time, one terminal result, order, an honest end of the stream.

**Framer** (`conn.go`). State: the connection, its two deadlines, `closed`, `rdPoked`, the write
buffer. Operations: `readBanner`, `readMessage`, `writeAction`, `close`. Each operation has a
watcher goroutine that pokes a deadline in the past into the connection when its context ends.
Hard: the poke races the end of its operation, the beginning of a frame and the deadline for the
age of a frame. Correct: an operation that was cancelled ends; the connection is then closed or
as good as new; a write reports what it has sent.

**Wire** (`internal/wire`). The reader parses banner, messages and raw command output line by
line within four budgets, across any grouping of reads; a clean reader survives a cancelled
read. The writer encodes and refuses, without state.

**Queue** (`internal/demux/queue.go`). A slice with a head index; once the dead prefix is large
the tail slides to the front. Correct: first in, first out, and no popped message stays
reachable.

**Classification** (`classify.go`). From a message to the envelope that is routed: its class,
whose ActionID, list mark, count. Pure; repeated fields that disagree make it invalid.

**Dial and login** (`client.go`). Banner, Challenge and Login over the bare connection, before
any goroutine of the session exists. Each answer must be the next message.

**Test server** (`amitest`). State: handlers, registered sessions, violations, `closed`; for
each session whether it has logged in and its event mask. Operations: the accept loop; per
session the login and the dispatch of actions to handlers; from any goroutine `Event`, `Raw`,
`HandleAction`, `Hangup`, `Close` and late replies on captured calls. Hard: broadcasts and
closing go over a snapshot outside the lock, while sessions come, log in and end. Correct: a
broadcast reaches exactly who has logged in and wants it, a Ping is a barrier, a login is not
disturbed, `Close` leaves nothing behind.

**Configuration, values, errors, statistics, diagnostics** (other root files), **examples**.

### How they interact

A call of the application registers with the machine, writes through the framer and waits on its
channel. The reader classifies each message and routes it; the session applies the effects in
the same critical section: completions to waiters, tokens to the notify channels of branches, a
fatality to the teardown. Consumers take from the branch under the lock. The expiry loop and the
keepalive are further callers of the machine. Everything that is shared is shared under the
session lock, the write slot, or an atomic flag. The reader's context and those of callers reach
a blocked read or write through the framer's watchers only. The test server is the other end of
the connection in the repository's own tests.

## Modules

| Module | What it is |
|---|---|
| `Demux` | the machine: one action per call; beside it the set of parked consumers and, as history, what the server has sent |
| `DemuxSafety` | its properties, its inductive invariants, two refinement mappings |
| `Obligations` | abstract: what the server owes for each action, in a bounded pool |
| `Branch` | abstract: what the holder of one branch sees of the machine |
| `Fifo`, `Queue` | abstract: a sequence with charges; the slice of `queue.go` |
| `Session` | extends `Demux`: every goroutine of the session around the machine |
| `SessionSafety` | properties, inductive invariants, liveness of the session |
| `Outcomes` | the dispositions of a write, as framer and session both use them |
| `Link` | abstract: what the framer promises the session about a write |
| `Wire`, `WireSafety` | the parser, line by line; its properties, against a declarative reading of a message; its inductive invariant |
| `Framer`, `FramerSafety` | extends `Wire`: the two operations, their watchers, the clock of a frame, `close`; properties and inductive invariant |
| `Handles` | extends `Branch`: one handle, its consumers, those who close it, the reader |
| `HandlesSafety` | its properties and inductive invariant |
| `Classify` | the class of a message and the owner of its ActionID |
| `TestServer` | extends `Classify`: the accept loop, the sessions and the callers of the test server, over TCP connections |
| `Dial`, `DialSafety` | extends `TestServer`: clients that dial, log in, act and read, and raw clients; properties, inductive invariant, fairness |
| `SumProofs` | induction over finite sets, and what the folds of the models compute |
| `DemuxProofs`, `CountProofs` | proofs about the machine: retirement and branches; counters and aggregates |
| `SessionProofs`, `HandlesProofs`, `FramerProofs`, `QueueProofs`, `DialProofs` | proofs about the other components; the parser's are in `FramerProofs`, the test server's in `DialProofs` |
| `MCDemux`, `MCSession`, `MCHandles`, `MCWire`, `MCFramer`, `MCDial` | values of the constants for TLC |

They compose along the layers of the program.

- `Session` drives `Demux`: each critical section is a machine action conjoined with the
  session's own changes, and it is proved that every step of the session is a step of the
  machine or a stutter.
- `Handles` needs of the machine only what `Branch` promises, and it is proved that `Demux`
  implements `Branch` for all its branches at once (`BranchSpec`).
- `Demux` keeps a queue as a sequence, as `Fifo` does; it is proved that `Queue` implements
  `Fifo`.
- `Framer` runs the parser of `Wire` as its reading goroutine: the hooks of the parser are
  places of their own, where the framer's code runs; it is proved that the framer keeps the parser's
  invariant. `Session` takes its writes from `Outcomes`,
  and it is proved that `Framer` implements `Link`, which says what these outcomes mean.
- `Dial` puts clients and `TestServer` at the two ends of connections that may be reset. What a
  client does with a message after its login is `Session`'s subject; here it answers the pending
  action, fans an event out, or dies.

An operator commented `Fault` is a faulty form of the definition after it. No specification uses
it; each property is tested by putting one in.

### How the models correspond to the code

`Demux`. An ActionID stands for its ticket and its branch, because IDs are unique in a session;
the kinds of actions are disjoint constant sets. The boolean fields of the Go structs are sets
of ActionIDs (`retHeld` of a pending is `pendHold`, of a list `listHold`). A queue is a sequence
of records of source and size. `Route` is split by the class of its message and by what the
ActionID meets: pending, record, list, follow, quarantine, nothing. What classification decides
(own or foreign ID, validity, mark, verdict on the declared count) is an input, over all its
values. A call that the machine rejects without changing anything is no step. The session's duty
to accept only legal calls (an adopted ticket, a live pending) is the guard of the action here,
and `MachineAccepts` checks in `Session` that it is met, since the code panics otherwise.

`Session`. The call that uses ActionID `a` is the process `a` (`pc[a]`); the keepalive worker
runs as the process of its Ping. One critical section with one machine call is one step; `lock`
is held across the steps of a section that makes several. The framer is represented by what it
reports: a write ends with one of the dispositions of `Outcomes`: `complete`, `rejected`,
`canceled`, `closed`, `notSent`, `partial` (which, met by a closed connection, carries
`ErrClosed`: `partialClosed`), a read with a message or a failure. A closed connection yields
only what `writeAction` then returns. The write slot hands itself to the first parked sender, as
a Go channel does. Contexts and timers may end at any time.

`Wire` and `Framer`. Of a line only its kind (field, blank, padding, first line of a legacy
command, its terminator, text) and its length matter. The peer may send any lines; a read of the
transport brings some of them whole and perhaps the beginning of another, may fail, and may
bring data and an error together. A limit counts lines, fields or units of length, as the code
counts lines, fields and bytes. The watchers are processes; a poke, the arming of the deadline
for the age of a frame and the clearing of both are the steps that the code takes, in its order.
An expired deadline fails every operation until it is replaced, which is the contract of
`net.Conn`.

`Queue`. `arr` is the backing array; Go's growth of a slice changes nothing that can be seen, so
it is left out; the threshold is a constant.

`Handles`. A critical section is one step; the atomics are their own steps. `All` stands for
`All` and `Consume`, whose control is the same. The loop body is a place of its own, with the
slot held; it may continue or leave in any way. Actions of `Branch` inside the steps of the
reader stand for the machine call.

`TestServer` and `Dial`. What a session does after it has read a frame is a list of steps
(`todo`), taken one by one: a violation, the marking of a login, each frame it writes. So
broadcasts and `Close` come between any two of them. A critical section under `Server.mu` is one
step and so is one frame written under `wmu`. `Window` is the room of the transport: a write
waits for it, which is how a client that does not read blocks its writers. `Hang` is
`net.Conn.Close`: frames that the parser has buffered are still served, others are lost and
reset the connection. A message is a record of the values of its four envelope fields, repeats
included. `script` is the test; it never changes. Login values come down to whether the secret
is right and what the mask says; the fixed challenge is `issued`.

## Runs

| Run | Instance | Distinct states | Question |
|---|---|---|---|
| `demux_list` | 1 list, 1 subscription, sizes 1–2, counts absent, malformed, 0, 1 | 52 387 | list lifecycle, completion, expiry, branches |
| `demux_follow` | 1 follow, 2 subscriptions, small aggregate | 20 720 | charges, indexes, quarantine |
| `demux_slots` | 1 request, 1 list, 2 Pings, one public slot | 531 700 | retirement slots, the account |
| `session_follow` | 1 follow, 1 Ping | 1 951 600 | legality of calls, leftovers, retry safety, root cause |
| `session_done` | 1 list with its handle, expiry loop, fairness | 522 763 | Done closes, records are resolved, no deadline is slept past |
| `handles` | 2 consumers, list and subscription, 3 messages | 441 276 | the handle, safety and liveness |
| `wire` | 6 lines of every kind, any grouping | 854 489 | limits, framing, what a cancelled read leaves |
| `framer` | 3 lines, a read and a write at a time, cancellations, `close` | 261 754 | deadlines, dispositions, every operation ends |
| `queue` | threshold 2, at most 4 messages | 12 549 | first in, first out; memory |
| `test_server` | 9 tests, 2 connections, 2 calling goroutines | 72 370 | broadcasts, barrier, Close; nobody waits |
| `session_stolen_cause`, `login_disturbed` | | | the findings below |

What each property says is in the comment before it. By theme:

- *What is owed*: `SlotIffOutstanding`, `LateResponseHasHome`, `RecordsWaitForTheMissing`,
  `FullLifetime`, `AccountSpec`; in the session `DeadlineWatched`, `RecordsExpire`.
- *Accounting*: `Aggregates`, `RoutingIndexes`; `MemoryBounded`, `FifoSpec`.
- *Delivery*: `Correlation`, `QuarantineHolds`, `CompletionHonest`, `NoLostWakeup`,
  `BranchSpec`.
- *Calls*: `MachineAccepts`, `WaiterIffPending`, `CompletionWins`, `RetrySafe`,
  `NothingLeftBehind`.
- *Ending*: `CauseHonest`, `DoneCloses`.
- *Handles*: `OneConsumer`, `InOrder`, `EofHonest`, `CompletionKept`, `WaitersReturn`.
- *Connection*: `BudgetsExact`, `FramesWhole`, `NothingTorn`; `OpenIsUsable`, `DeadlineExact`,
  `AgeBlamedRightly`, `LinkSpec`, `OperationsEnd`.
- *Test server*: `SeenByBroadcasts`, `CloseIsFinal`, `PingIsBarrier`, `NobodyWaits`.

### Bounds

`MaxTime` bounds the clock. A machine step that may create a record is taken only while a record
created now could still reach its deadline (`InHorizon`), so no record is stuck at the horizon;
with `RetirementLifetime = 1`, `MaxTime = 2` lets a record be created both at the start and
after idle time, and expire. `MaxSent` bounds what is routed to a handle; three messages and two
consumers give an overtaking consumer, a queue that refills, and a remainder to discard. Caps,
aggregates and pools are so small (one or two items, one or two slots) that each is filled
exactly, exceeded by one, and freed again. One ActionID per kind suffices for properties of one
action; where actions compete (slots, Pings, the write slot, the aggregate of the subscriptions)
the run has two. Sizes 1 and 2 tell item limits from byte limits. The constants `Requests`,
`Follows`, … are sets of strings or model values. `demux_slots` uses the symmetry of its two
Pings: no definition of `Demux` chooses among ActionIDs, and it has no liveness property.

`MaxReceived` bounds the lines the parser gets: six let a message, its padding and the beginning
of the next come in one chunk (`MaxChunk` 2) and put each budget at its limit, one under and one
over. The framer has three, one per read, which is enough to begin a frame, be cancelled in it,
behind it, and in the padding before the next. `Threshold` 2 with four messages lets the queue
slide while it holds messages. `Scripts` are the tests against the server, each chosen for an
interleaving: broadcasts during a change of mask and beside a client that may not read; before a
Ping; `Close` during an accept, twice, and after the listener has broken; unexpected actions and
changing handlers; late replies and `Hangup`; logins that fail; frames that break the rules.
`Window` 1 makes the second frame wait. `MaxIds` is above what any script sends.

`CHECK_DEADLOCK FALSE` is set in every configuration since the system really stops: a client
that has died, with every call returned and every handle closed, has no step left (in the models
the clock is bounded besides). That nothing stops too early is `DoneCloses`, `RecordsExpire` and
`WaitersReturn`.

### Fairness

`SessionFairness`: each goroutine that can run does, time passes, and the timers that the code
itself sets end: those of the write admission, of the write attempt (both from the
configuration) and of the Ping. A read returns once the connection is closed. The context of a
caller is not among them: `Do` sets no timeout for the answer, so a call may wait for as long as
the server is silent and the client lives. Nothing obliges the peer to send anything, a call to
begin, a read to fail, or the application to close. `FairHandlesSpec`: a consumer that can go on
inside `Next`, `All` or `Consume` does; nobody has to call, to return from a loop body, to end a
context, to send or to close. `Fairness` of the framer: what has begun goes on, a watcher whose
context has ended pokes, and the age of a frame passes; but the peer need not send, nor a
context end, and a read or write only returns by itself once its deadline has expired or its
connection is closed. `FairDialSpec`: the accept loop, the sessions, and the callers inside the
methods of the server go on, and the clients in `Readers` read; the others may stop reading, and
no client has to connect or act. Weak fairness is enough in all of them, and is what the Go
scheduler gives a runnable goroutine.

## Proofs

All theorems hold for every value of the constants allowed by the named assumptions:
`KindsAssumption` (the kinds of ActionIDs are finite and disjoint), `LimitsAssumption` (limits
and caps are positive, as `Limits.Validate` demands), `InputsAssumption` (the types of the
inputs), `NobodyAssumption`, `HandlesAssumption` (a reason is neither the clean end nor the
local close), `QueueAssumption`, those of `Wire` on its limits, and `TestServerAssumption` (there are
finitely many connections, a write has room for at least one frame, the scripts name the methods and
frames of the model, and a frame for `Raw` bears no ActionID of a client, whose prefix is random and
unknown to the test).

- **`SumProofs`**. The library states induction with operator parameters, which the provers
  cannot instantiate. Here it is stated over sets instead (`NatInductionOnSets`,
  `SubsetInduction`) and follows from the well-foundedness theorems. With it `SumFunctionOnSet` of
  the community modules is characterised: it does not depend on the order in which it takes its
  elements, and `SumAdd`, `SumChange`, `SumClear` say how it follows a change of the summands.
  `Iterate` gives what a recursive function over a sequence builds.
- **`DemuxProofs`**. `SlotInvariant`: `SlotInductive` is an invariant. It is needed because
  `SlotIffOutstanding` alone is not inductive: whether a slot is released rightly depends on
  which of pending, list and record carries it. The invariant has a part for each
  (`PendingPart`, `ListPart`, `RecordPart`) that says which facts it has seen, and that no two
  of them hold a slot for the same action. Each action touches the parts of one ActionID; a
  frame lemma covers the others. From it follow `SlotsAreExact`, `NoLateResponseIsFatal` and
  `RecordsAreExact`. Then `BranchInvariant`: an ended branch is empty and out of the registration
  order, a queue holds only what was meant for it, and a parked consumer has nothing to take. The
  fan-out of one event over the order and the removal of a branch from it are recursive, so their
  lemmas go by induction. From it `EventsReachTheirBranch`, `CleanListsAreComplete`,
  `NoWakeupIsLost`, `QuarantineIsKept`, `RecordsLiveLong` and the refinement `BranchesAreHeld`:
  `Demux` implements `Branch` for all branches at once.
- **`CountProofs`**. `CountInvariant`: each counter is the size, or the sum of the charges, of what
  it counts. A step changes the branches of one family in a few ways (append, take, give back
  everything), and a sum follows each by a lemma of `SumProofs`; an overflow during a fan-out is
  covered by an induction over the branches it visits. From it `IndexesAreRight`,
  `AggregatesAreExact`, and with `SlotInvariant` the refinement `AccountIsKept`: `Demux`
  implements `Obligations`.
- **`SessionProofs`**. `SessionImplementsMachine`: every step of every goroutine is a machine
  step or leaves the machine alone, so the theorems above hold inside the session
  (`SessionSlotsAreExact`, `SessionNoLateResponseIsFatal`). `SessionInvariant`: a disposition is
  set once, on the way of a call through its places (`PlacePart`), which makes `RetryIsSafe` and
  `CauseIsHonest` inductive. `CauseIsStable`. Then `TicketInvariant`, about the machine alone: a
  ticket is released exactly when its write is resolved and its branch has found an owner or is
  gone. On it rests `CallInvariant`, which ties the place of each call to the lock, its ticket and
  branch, its waiter and channel, and the write slot with its queue. From it
  `MachineAcceptsCalls`, `WaitersAreExact`, `CompletionIsReturned`, `NothingIsLeft` and
  `DeadlinesAreWatched`. Its hard cases are the ones in which one goroutine works for many calls:
  the death sweep, the reader that completes a waiter whose context has ended, and the slot that a
  sender hands to the first one parked.
- **`HandlesProofs`**. `ControlPart` first: the token argument needs that only one goroutine is
  inside the handle, so that no other takes the token, and that the result of an open handle is
  published with its end. Then `StreamPart`, which relates what was handed out, what is queued
  and what was sent, from lemmas about sequences proved there. From both: `NoTokenIsLost`,
  `ConsumersExclude`, `StreamInOrder`, `EofIsHonest`, `CompletionStays`, `IterationsClose`,
  `ResultIsStable`.

- **`FramerProofs`**. `FramerInvariant` has five parts, and `OpenIsUsable` alone is not
  inductive without any of them: `ParserPart` (the reader is dirty or torn only inside a frame),
  `WatchPart` (a watcher lives exactly as long as its operation, and a poke is awaited before
  the deadline is cleared), `ClockPart` (a deadline of each kind has a reason), `ResultPart`
  (what an operation has found out matches what has happened to the connection) and
  `WriterPart`. The steps of the reader leave the writer's part alone and the other way round
  (`OthersKeepRead`, `OthersKeepWrite`). From it `OpenStaysUsable`, `DeadlinesAreExact`,
  `AgeIsBlamedRightly` and the refinement `FramerKeepsPromise`: `Framer` implements `Link`.
  The parser has an invariant of its own, `WireInductive`: the place of a call says what the lines
  it has taken are (`Shape`), its four budgets are the counts and sums of those lines as the
  declarative reading of `WireSafety` measures them (`Measures`), and a stream is torn only by a
  call that failed. One line more does not change what the lines before it are (`AppendExtends`)
  and adds to exactly one of the measures (`AppendMeasures`). `WireInvariant` shows it for the
  parser alone, with `BudgetsAreExact`, `FramesAreWhole` and `NothingIsTorn`; `ParserInvariant` for
  the parser under the framer, which calls it only where nothing is torn.
- **`QueueProofs`**. `QueueInvariant`: dead slots are cleared and the live part is within the
  array. From it `MemoryIsBounded` and the refinement `QueueImplementsFifo`, by lemmas on what a
  push, a pop and a slide do to the live part.

- **`DialProofs`**. `DialInvariant`. None of its three properties is inductive: what a client may
  conclude from a message depends on everything that has been on the connection before. The invariant
  follows it from end to end. `SessionPart` says where each connection is, from the backlog to the
  end of its session; `ClosePart` that after a `Close` nothing of it can start again. `ClientPart`
  and `RequestPart` relate the ids that are pending and on their way to those the client has used;
  `OncePart` says that an action that waits is in one place at a time: on its way, being served, or
  answered. `TodoPart` and `DownPart` say what must hold before a session may write a success
  (it is marked, and its mask is the one that was asked for), and that a success on its way is still
  true. `MaskPart` says which of the answers on their way will bring the client's mask to that of
  the session: the last one, or none, or one that is still to be written, or one that was lost with
  the connection. `CallPart` keeps the late replies and broadcasts of other goroutines from granting
  anything, and `OwedPart` keeps each broadcast ahead of the answer to a later Ping. A step touches
  one connection in one of eighteen ways (`StepEffects`), and each part has a lemma over those. From
  it `CloseWaits`, `BroadcastsSeeClients` and `PingBarrier`. Two conditions came out of the
  attempts: an answer counts only while its client waits for it (a raw client may reuse ids), and
  a mask that is lost stays lost only when its request, its step and its answer are all gone.

Only model-checked: all liveness (`DoneCloses`, `RecordsExpire`, `WaitersReturn`,
`OperationsEnd`, `NobodyWaits`), which is out of the reach of the proof system. Every other property
of a passing run is stated by a theorem.

## Findings

1. A write that has sent some bytes and then meets a connection that the reader has poisoned
   dies with `ErrClosed` at once, and may win over the reader, whose cause is the real one:
   `Err` reports `ErrClosed` for a session that nobody closed (`session_stolen_cause`;
   `dispatch.go:251` and `:284` promise otherwise). `CauseIsHonest` proves that this is the only
   way.
2. The test server marks a session as logged in before it writes the response
   (`amitest/session.go:115`). An `Event` or `Raw` from another goroutine in between may write
   its frame first, and `Dial`, which takes the next message for the answer, fails
   (`login_disturbed`). `amitest.go:250` says that this can never happen. Marking after the
   response is no remedy: `SeenByBroadcasts` then fails, since a client that `Dial` has returned
   could miss the next event. Mark and response would have to be one
   step for other writers, under the session's own write lock.

Met while modelling, without a run of their own:

- `docs/demux.md:150` says that a duplicate response is fatal. While a drain record of a list
  waits for its mark, a second response is absorbed (`route.go:78`), and one that reports an
  error even releases the record.
- `docs/demux.md:378` says that `Kill` zeroes the aggregates. A branch that ended cleanly and
  still drains keeps its queue and its charge. `BranchSpec` shows that the code does this
  consistently.
- `list.go:15` lets an application publish a list once `Next` has returned `io.EOF`. If another
  goroutine closes a list that has ended cleanly with items still queued, `Next` reports
  `io.EOF` too, and those items are gone (`subscription.go:214`). `EofHonest` is what does hold.
- A list that was answered and cleanly complete before its write returned an ambiguous failure
  keeps its ticket, because the panic of `CloseList` is swallowed (`dispatch.go:300`), against
  `dispatch.go:248` ("every ticket obligation has been resolved"). The client is dead by then
  and nothing reads the ticket.
- `conn.go:36` calls a connection usable after a cancelled write that sent nothing. Over
  `crypto/tls` a `Write` that has timed out leaves the connection broken, which the model of
  `net.Conn` here does not know.
- A second `Close` of the test server may return before the first has closed the listener, if
  the accept loop had stopped by itself (`amitest.go:316`).

## Not modelled

- Payloads, header sets, wording of errors, statistics and diagnostics: no property here depends
  on them. Discard counters and `Fatality.Kind`: read by statistics and messages only.
- Validation of options, resolution of limits, folding of names: pure, before any state changes.
- The wire writer (`internal/wire/writer.go`): a pure encoder; its refusal is the outcome
  `rejected`.
- The TLS handshake, and a panic of the reader, which ends the client as a failed read does.
- Of the test server: its TLS certificates, `SessionCount`, the splitting of a write into chunks
  (inside the write lock), `RespondLegacyCommand` and `Call.Raw` (further frames), panics on a
  misused frame builder.
- The examples.

## Plan

Done, in this order: `Demux` with `Obligations`, `Session`, `Branch` and `Handles`, with their
proofs; then `Queue` and `Wire`, `Framer` over `Wire`, with the proofs of queue and framer; then
`Classify`, `TestServer` and `Dial`.

After that the proofs: branches, counters, account and index of the machine; tickets and calls of
the session; the parser, alone and under the framer; the test server with its clients.

Next could come the rest of the limits of the machine (`limits.go`) and the wire writer, both pure.
