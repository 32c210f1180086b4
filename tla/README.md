# keld-benches in TLA+

TLA+ specifications of the parts of `keld-benches` whose correctness depends on
the order in which things happen: the kipc app-link client (TypeScript on Bun);
the Linux measurement harness, from the ownership of a process and the single
sample of paint or memory up to a whole run with its pairing, thermal verdict and
publication; the DMA-BUF matrix runner; and the IPC campaigns. TLC checks each
module on a small instance; TLAPS proves, for every value of the constants, all the
safety properties the passing runs check, of the three link layers, of every
measurement from the single attempt to the published comparison, of the DMA-BUF
matrix and of the campaigns. What is left to TLC is liveness (section 4).

```
tlc -workers 2 -config FrameReader.cfg MCFrameReader.tla
tlapm FrameReaderProofs.tla
```

## 1. The system

The repository measures an application shell (keld) against other toolkits. A
*harness* starts a program under test, times a signal it sends, samples its
memory, takes its process tree down and writes an immutable result document. The
programs under test of the keld arm talk to their host over *kipc*, a framed
protocol on a local socket; its client is kept in the repository, once for the
echo bench and once for the stock application.

| Component | Source | State it keeps | Operations |
|---|---|---|---|
| Frame reader | `linux/keld/*/src/kipc-transport.ts`, class `FrameReader` | chunk queue with arrival times, read and scan cursors, one timer, one waiting promise, closed + error | `push`, `readFrame`, timer callback, `fail` |
| Write queue, drain signal | same file, `writeOneFrame`, `WriteQueue`, `DrainSignal`, `withIoDeadline`; `AppLinkSession.writeFrame`/`close` in `kipc.ts` | promise chain, bytes of the frame in flight, poison, parked waiters, per-call timers | `writeFrame`, `fire`, `wait`, timeouts, `close`, socket drain/close/error |
| Session, directed reader | `kipc.ts` `AppLinkSession`, `DirectedReader`, receive policies | closed, next correlation id, parked frames | `connect`, `receive`, `receiveWhileIdle`, `writeFrame`, `echo`, `allocCorr`, `close` |
| Stock application | `linux/keld/dev-hello/project/src/main.ts` | where its chain of awaits stands | echo, wait for events, answer PING, Call Quit, exit |
| kipc codecs | `kipc-transport.ts`, `kipc.ts` | none | header, varint, postcard strings, call errors, app-link URL |
| Echo bench clients | `kipc-bun-echo/src/main.ts`, `runner.rs`, `kipc-rust-echo/` | timing loop; child process and socket | one bench session |
| IPC campaigns | `kipc-bun-echo/campaign.py`, `paired_campaign.py` | cases, order, partial results | schedule sessions, run the rust pair, weighted order statistics |
| Beacon server, paint attempt | `linux/bench/harness.py`, `_BeaconState`, `BeaconServer`, `_paint_attempt` | accepted time, event, rejections, protocol error; runner locals | HTTP handlers, wait loop, verdict, cleanup |
| Process ownership | `harness.py` `OwnedProcess`, `_process_group_members` | leader generation, group, exit status | capture, group signal, member termination, survivor check |
| Memory attempts | `harness.py` `MemoryStability`, `_product_memory_attempt`, `_memory_attempt` | window of snapshots, membership | observe, sample |
| Product attempts | `harness.py` `_product_*` | CLI generation, captured identities, staged files | launch, census, wait, native close, kill |
| Run, pairing, publication | `harness.py` `run_metric` and below, `run.py` | rounds, samples, invalid rounds | schedule, summarise, publish once |
| Thermal oracle | `linux/bench/thermal.py` | two boundary snapshots | classify |
| Result contracts | `block_result.py`, `schema/result_contract.py` | none | validate documents |
| CI planning | `ci/plan.py`, `ci/required.py` | none | route paths, check evidence |
| DMA-BUF matrix | `linux/webkitgtk/dmabuf-matrix/run_matrix.py` | rows, attempts | schedule, retry, complete |
| Programs under test, Windows harness, differential probe, older clients | `linux/gtk4`, `linux/tauri`, `windows/**`, `macos/**` | none of protocol interest | |

How they interact: the socket's callbacks feed `FrameReader.push` and
`DrainSignal.fire`; the session owns one reader and one write queue and hands both
to every caller; the stock application is one chain of awaits over the session;
any failure the session catches closes it, which fails the reader and wakes the
writer. In the harness, the runner thread and one daemon thread per HTTP request
share `_BeaconState` behind a lock and an event; the runner owns the launched
process through `OwnedProcess`, which sees the kernel only through `/proc`,
pidfds, signals and `wait`.

What is hard: timer callbacks that run late and before or after data they race
with; promises that are abandoned but not cancelled (`withIoDeadline`); frames
parked by one wait for another; two callers of a reader that has room for one;
poisoning after a truncated write; a beacon recorded under the lock and signalled
after it; PIDs that change owner between a check and a signal; groups that fork
while they are taken down; a `/proc` that is read entry by entry while its processes come and go;
counters that restart between the boundaries they are compared at; names that are checked
long before they are used; retries that may hide what they retry; two processes each of which waits for
the other, or for a file of one that is gone.

The properties that make each part correct are in section 3; every hazard, with
its line and the properties aimed at it, is in `PROJECT.json`.

## 2. Modules

```
FrameStream  <--refines--  FrameReader  <--EXTENDS--  ChunkQueue -- MCFrameReader, FrameReaderProofs
FrameLine    <--refines--  LinkWriter    -- MCLinkWriter,   LinkWriterProofs
                           AppLink       -- MCAppLink,      AppLinkProofs
                           PaintAttempt  -- MCPaintAttempt, OwnedProcessProofs
                           OwnedProcess  -- MCOwnedProcess, OwnedProcessProofs
MemoryWindow     <--EXTENDS--  ProductAttempt -- MCProductAttempt, ProductAttemptProofs
ThermalBoundary  <--EXTENDS--  MetricRun      -- MCMetricRun,      MetricRunProofs
                               MatrixRun      -- MCMatrixRun,      MatrixRunProofs
                               Campaign      -- CampaignProofs
```

`AppLink` stands on what the two layers below it are shown to do: `FrameReader`
implements `FrameStream` (whole frames come out in stream order) and `LinkWriter`
implements `FrameLine` (whole frames go onto the stream in order), so a channel in
`AppLink` is a sequence of frames. `MetricRun`
takes an attempt (`PaintAttempt`, `ProductAttempt`) as one step with the outcomes
those modules show it to have: a valid sample, a rejected one, or an exception.
`MatrixRun` takes `OwnedProcess.cleanup` almost the same way: the launched process is gone, or
the cleanup failed. Helpers that were forked past the last scan, which `CleanGroup` excepts, are not
followed there.

### FrameStream, FrameReader, ChunkQueue

`FrameStream` is the promise: the frames of the peer's stream come out whole, in
order and once, until the link closes. `FrameReader` is the class.

* A byte is named by its offset in the peer's stream. The chunk array with its head
  index, cursor and compaction is the interval `consumed..received-1` with the set
  `chunkEnds`; `arrival` is what `#chunkArrivals` says of each unread byte.
* `ChunkQueue` adds the array itself under those offsets: the chunks, the read
  cursor (`chunkIndex`, `head`), the scan cursor (`censusChunkIndex`,
  `censusOffset`, `censusBytes`), entries that are released in place, and
  `CompactChunks`, which slices them off and moves the scan cursor along. Each of its
  actions is one of `FrameReader` together with what that callback does to the
  array. `CursorsAgree` says that the two accounts never part.
* `Leads(r, p, q)` says that whole frames, one behind the other, lead from `p` to
  `q`; `ScanStops` is where the loop of `#incompleteFrameStartedAt` ends.
* One JavaScript turn is one step: `Push` is `push` with everything it calls,
  `ReadFrame` is `readFrame`, `DeadlineFires` the timer callback with its scan
  (`census` is the scan cursor), `SocketFails` every path into `fail` from
  outside.
* `wire.header[p]` is what `decodeHeader` makes of the bytes at `p`: a length or a
  failure. All other header fields are irrelevant to this class.
* Time is a clock in the deadline's units. A due timer may run any number of ticks
  late and after any number of other callbacks.

### FrameLine, LinkWriter

`FrameLine` is the promise of the writing half: a line of frames that leave it whole
from the front, callers that hear "written" only as their own frame goes, and a
line that sends nothing more once it is broken.

`WriteFrame`, `BeginRun`, `Resume`, `SessionCatch` and `AppClose` are the code; a
promise reaction is a step, and `Microtask` keeps timers and socket callbacks from
running while one is ready, as the engine does. The queue's own catch, which sets
the poison a reaction or two after the throw, is part of the step that throws:
nothing of the class reads the poison in between but a call admitted in the same
drain of the microtask queue, which would then fail at its turn instead of at
once. The socket is external: it
takes any part of what it is offered, may drain, and may close.
`outcome` is each caller's promise, `dueBy` its `withIoDeadline`, `deadlineAt`
the frame's own; `waiters` keeps the calls that have timed out and are still
parked in the drain signal.

### AppLink

A task is a chain of awaits with a program counter (`reading`, `got`, `writing`,
`written`, ...). `Want` gives the receive policy of what it is doing, `Parks` what it
may set aside. A frame is a record (`Frames`) of what the policies look at; a body is one of a few
names, and an echo carries the call it answers. A deadline at this level is a timeout that can come at any point
of the wait it guards. The host is not in the repository; it is modelled from how
`main.ts` uses it, and may send `Strays` at any time, refuse, garble, or go away,
all of which set `fault`, so that properties can tell the app's mistakes from the
host's.

### PaintAttempt

Each request is a handler thread; each section under the lock is one step and so
is `accepted.set()` after it. The runner's loop, verdict, `finally` clause and
report are steps of their own, so that handlers run between any two of them, and
after `close()` too, since they are daemon threads. The program under test may
send any mix of good and bad requests, and exit, at any time.

### OwnedProcess

Every `/proc` read and every signal is a step, the scan of `/proc` is one step per
PID, and between any two of them the kernel may fork, exit, reap and reuse a PID
(not one that names a live group, which is what Linux guarantees). `fd` is the
generation a pidfd is bound to. `listed` and `hits` are history: what the harness
listed, and what its signals reached.

### MemoryWindow, ProductAttempt

`MemoryWindow` is `MemoryStability`: `Observe` is `observe()`, with the drift in whole
percent and the window restarted on churn, on drift and without an engine.

`ProductAttempt` is one sample of `_product_paint_attempt` or
`_product_memory_attempt`: `keld dev` is launched, waits for its beacon, has its
descendants counted, is closed through its window, and is killed by captured
generations when that fails, once in the attempt and once in its `finally` block.

* `procs` is the kernel: by PID the generation (start ticks), parent, class, and the
  exit code of a CLI that has not been collected. `Fork`, `Stranger` and `Exit`
  happen between any two steps of the harness. Orphans go to init, and a free PID
  goes to anybody.
* A census is `_product_process_records`: `BeginCensus` reads the entry of the CLI,
  each `ReadEntry` one entry of `/proc` in ascending order, `EndCensus` closes the
  parent relation that was read. Its callers differ in what they do with the members
  (`AfterCensus`, `Keeps`). `CountMember` is one round of `_product_memory_counters`, with
  the generation compared before and after; `ObserveTree` shows a complete tree to the
  window.
* `_product_finish_lifecycle` is `ClosePoll` to `Judge`; the census in the native close and
  the window tools are one step with three outcomes (sent, not sent, raised).
  `_product_force_cleanup` is `BeginForce` to `KillCli`: pidfd_open, the comparison of the
  generation and the signal are separate steps. A process that is gone when the
  signal is sent raises `ProcessLookupError`, which the code does not catch there and
  the model does not either: the attempt ends in its `finally` block, or raises out of it.
* `steady` and `seen` are history: who has been in the tree since the census began, and
  who was there throughout the one before the close.

### ThermalBoundary, MetricRun

`ThermalBoundary` translates `thermal.py`: a snapshot with its errors, `Throttled` before
`Structural`, and the reason that goes into the document.

`MetricRun` is `run_metric` below `run.py`: checks, provenance (`ReadArtifacts`, `GitState`,
`Environment`, `ConfigureArms`, each of which may note problems that bar publication), opening
boundary, priming, orders, samples, closing boundary, comparison, exclusive creation of the
file, dump, exit code. A rejected sample is kept as such; an exception in any attempt
loses all samples of the run and exits with 2. The product variants of `run_metric` have the
same steps in the same order; the map names the lines of `run_metric`. The counters
advance, restart and vanish only while the session is open, and another run may create
the file of the same name at any time. What happens after a dump that fails
half-way is what the code does: the truncated file stays under the name
(`out = "partial"`).

### MatrixRun

`Prepare` is everything before the first row (a native matrix, or a refusal with exit code 2),
then `main()`'s three phases: native rows, the negative control, Keld rows for the opaque
keys (`FromOpaque` skips to the next one); `TakeCensus` and `Finish` are the census of the machine and `matrix_completion`.
A native row is `Launch`, `AwaitReceipt`, `Capture`, `AwaitExit`, `Cleanup` and its judgement; a Keld
row is `Launch`, `AwaitBeacon`, `Cleanup` and its judgement. The probe exits when it likes. What the pixel,
compositor, audit and GPU oracles decide is an input of the judgement.

The beacons of a Keld row are a list, `requests`, to which handler threads append (`BeaconArrives`):
good, without the focus, or wrong otherwise. `AwaitBeacon` ends on a good one, on the exit of the process, which
leaves its own reason in the row, or on the timeout, which leaves none. `KeldReasons` are the code's: of
the rejected beacons only the last one counts (`LastRejected`), a second good one is a protocol error
(`Duplicate`). `OnlyMissed` is history: it says from what happened to the row, not from its reasons, whether
the row missed no more than its picture or its focus, and `RetriesHideNothing` is stated with it. The negative control does not look at the
GPU, and what it finds black is nondeterministic.

### Campaign

Both campaigns with the sessions they really run. `Plan` is the sequence of cases
`main()` works off: controls, priming, pilots, rounds in the order of the code's own
parity rules. A Rust case is two processes and a link file; `AwaitLink` looks at the file
only, so that it goes on with a file that a server wrote before it failed, and waits for
one that will never come from a server that failed earlier. A Bun case is one runner.
Servers, clients and runners fail or hang at any point; `subprocess.run` kills on its
timeout and the `finally` clause kills the server. A kill is taken to work at once. `Check` and
`Receipt` are the two places where `main()` waits for tools without a timeout: git and cargo before the
first case, rustc, cargo and bun after the last one.

## 3. What is checked

Twelve runs, ten of which pass and two of which show a finding; the ten check 40 properties.
`frame_reader` checks deadlock. The other runs turn it off because what they model
really ends: the process exits, the attempt or the cleanup returns, or every write
is answered and the clock has reached its bound.

| Run | Instance | Shows |
|---|---|---|
| `frame_reader` | two readers, four streams of up to seven bytes, chunks of any size, an array that is sliced from two read entries on, deadline 2, clock to 5 | no late frame (`NoLateFrame`), deadline armed exactly when needed (`DeadlineArmed`), buffer bounded (`BoundedBuffer`), no caller forgotten and a complete frame handed out at once (`PromptDelivery`), punctual frames never expire (`SparesPunctual`), the cursors into the chunk array stand where the offsets say (`CursorsAgree`), a started frame settles, and `FrameStream` is implemented |
| `link_writer` | calls of 1, 2 and 2 bytes and an oversized one, deadline 2, clock to 4 | frames never mix, only the last is truncated (`WholeFramesInOrder`), a truncation poisons, close releases and poison settles everybody, every call is answered, and `FrameLine` is implemented (`ImplementsLine`), so "written" means written |
| `stock_app` | the stock program, parking budget 3, two PINGs, five stray frames | no lifecycle frame lost or overtaken around the echo (`EventsInOrder`), a behaving host is never failed (`NoFalseAlarm`), success only after the host agreed, the process ends after its last window |
| `shared_link` | two tasks, three echoes, correlation ids wrapping at 4 | replies never cross, close leaves nobody waiting, every echo settles |
| `paint_attempt` | four requests of four kinds, timeout 1, clock to 2 | the score is the first good beacon, a timeout never scores, nothing left running, the attempt ends |
| `paint_contract` | as above, timeout 2, clock to 3 | *violated*: finding 1 |
| `owned_process` | three PIDs, four processes | group signals stay in the launched group while the leader is uncollected, members are hit only in the listed generation, a clean return leaves nothing forked before the last scan, cleanup ends |
| `owned_process_bound` | as above | *violated*: finding 2 |
| `product_attempt` | paint and memory, four PIDs, two births after the launch, windows of 2, two memory levels | the window behind a memory value holds only what was launched (`NoStrangerMeasured`), a census finds whoever is there throughout it (`CensusComplete`), a valid sample left nothing behind (`ValidMeansGone`), forced cleanup signals captured generations only (`SignalsAsCaptured`) |
| `metric_run` | one or two arms, three rounds, two counters, one throttle each and one restart | a published comparison has one valid sample of each arm in every round and balanced first places (`ComparisonPaired`), "nominal" means no readable counter throttled (`NominalMeansCool`), the file is created once and never replaced (`ResultImmutable`) |
| `matrix_run` | one backend in two styles, three attempts per row, two beacons per Keld row | a complete matrix hides no failure that its rows saw behind a retry (`RetriesHideNothing`) and left no probe behind (`CompleteLeavesNoProbe`) |
| `campaign` | both campaigns, cold and warm, 20 sessions | a campaign that passed its checks comes to the end of its cases and then leaves nothing running, and with its receipt it ends (`CasesEnd`), a manifest rests on a complete and balanced corpus (`ManifestIsComplete`) |

`TypeOK` of `FrameReader` and of `LinkWriter`, and `ResolvedIsWritten` of `LinkWriter`, which `ImplementsLine` implies, are proved
(section 4) and therefore not checked by a run.

### Bounds

Two-byte headers and two-byte payloads give every split the code distinguishes:
inside a header, at its end, inside and at the end of a payload, across frames. Four
streams cover pipelined frames with an unfinished one behind, an empty and a maximal frame, an
undecodable and an oversized header. A threshold of 2 (the code: 1024) and three chunks let the array
be sliced with an unread entry left and a scan cursor on it. `LastArrival` and `LastCall` stop new work early
enough for every deadline to pass before `MaxTime`, so the liveness properties are not
cut off by the clock. Three calls are needed for one frame in flight, one in line
and one that comes late; four for one that is refused. A parking budget of 3 is reached
and exceeded by the host's four events; a `CorrLimit` of 4 wraps within three
calls and Quit. Three PIDs are the leader, a child and a stranger; the fourth birth lets a
stranger take the leader's PID, or a child fork during the cleanup. `LastSpawn` lets the spawn
be late, `Timeout` is counted from it.

`ProductAttempt`: the CLI, two processes that ran before the launch (one the parent of the other, with
PIDs on both sides of the CLI's, so that orphaning and reuse change the tree before and
behind the scan), and one free PID. `MaxBirths` of 7 allows two births after the launch: a
host and a web process for a complete tree, a grandchild, or a PID reused by a stranger. A
window of `Required = 2` (the code: 4) is the least with a churn and a drift inside it;
`Needed = {}` asks a complete tree for the CLI, the host and an engine (with more
classes two births would not complete a tree). Two levels lie more than 1 % apart in
the main process and less in the total, so that windows drift and settle. The memory loop
may repeat without bound.

`MetricRun`: three rounds are a complete block and an incomplete one; two counters allow one to
vanish or throttle behind the other; one throttle and one restart each, in any order, include the
restart that hides a throttle, which `NominalMeansCool` excepts by name; at most one other
source is out of the ordinary at a boundary (a package at its limit, a GPU that is absent, mute or slow).
Problems only accumulate, so one is enough.

`MatrixRun`: an opaque and a transparent key, so that a Keld row exists for one only; `MaxAttempts`
is the code's own 3. One repetition: rows of different keys share nothing but the phase. `MaxRequests`
of 2 is the least with a rejection that a later one hides, with a duplicate, and with a good beacon
behind a bad one.

`Campaign` has no bound: the state space is finite with the code's 20 sessions.

### Fairness

* `FrameReader`: weak fairness of the timer callback and of the clock. Nobody
  has to send or read.
* `LinkWriter`: weak fairness of promise reactions, strong fairness of timers
  and the clock, because socket callbacks and reactions disable both over and
  over but an event loop does not starve due timers. The peer need never drain.
* `AppLink`: fairness of the app's own continuations, of delivery and, strongly, of the timeouts
  that guard a wait; none of the host, except that the bytes it has sent
  arrive.
* `PaintAttempt`: the runner thread and the clock. Handlers and the program under test
  may stall.
* `Campaign`: weak fairness of `Timed`, the steps of `main()` whose waits have a deadline. None of
  `Check` and `Receipt`: `checked()` (`campaign.py:66-68`) and both cargo builds have no timeout, and cargo may
  block on its build lock. So it is not claimed that every campaign ends; `CasesEnd` starts once the checks are
  passed, stops where the receipt begins, and goes on behind it. Nothing of the processes it starts.
* `ProductAttempt`, `MetricRun`, `MatrixRun`: none; only safety is stated.
* `OwnedProcess`: the harness thread; its waits are bounded by `timeout=2`, which
  the model takes as a step that is always possible. Processes owe nothing.

### Findings

1. `HARNESS-CONTRACT.md:129-131` says duplicate and wrong-phase signals reject the
   run. `_paint_attempt` looks at `snapshot.rejections` only when no good beacon was
   accepted, so a wrong-phase beacon followed by a good one yields a valid sample
   (`paint_contract`, `BadSignalRejects`).
2. `linux/bench/README.md:128-130` says cleanup is bound to the spawned generation before the
   group is signalled. `_signal_group` compares start ticks and then calls
   `killpg` on the number; once the attempt's `poll()` has collected the leader, a
   stranger may take the number after the comparison (`owned_process_bound`,
   `GroupSignalBound`). `GroupSignalOwn` shows that this is the only way: while the
   leader is uncollected the signal cannot go astray.

## 4. What is proved

Eight modules of proofs; `OwnedProcessProofs` holds those of `PaintAttempt` too, and `FrameReaderProofs` those of `ChunkQueue`. They hold for all values of the
constants under the assumptions that the modules state and TLC evaluates: sizes, budgets and bounds are
naturals (the bounds of the runs included: no theorem depends on them), deadlines are positive, streams,
callers, calls, tasks, requests, processes, rounds and counters are as many as one likes. What
an assumption says beyond that is a fact of the code:

* `WindowAssumption`: a stability window holds two snapshots or more (the code: 4).
* `RunAssumption`: the arms of a paired run are two different ones, and it has two rounds or more.
* `MatrixAssumption`: the axes of the matrix are finite and not empty.
* `SessionsAssumption`: a campaign has a scored round.
* `LinkAssumption`: there is an id to allocate (`CorrLimit > 1`), strays are frames.

Four theorems about `AppLink` have hypotheses of their own, stated with them below. Every
argument is an inductive invariant, named `IInv` in its module, that was checked by TLC on
the runs' instances before it was proved; each action keeps it by a lemma of its own.

**FrameReader.** `NoLateFrame`, `DeadlineArmed` and the rest are not inductive: that a
frame handed out was punctual follows from the arrival times of its first and last
byte, which are meaningful only if the cursor stands on the interval the arrival
times cover and if those times never decrease along the buffer. `IInv` says this
(`Shape`: cursors in order, arrivals exactly of the unread bytes and monotone; `Punctual`,
`Waiter`, `Armed`), and it is shown operator by operator: what `Buffered`, `Consume`, `ArmAt`,
`Resolve`, `Fail`, `FloodCheck` and `AfterScan` do to a sound reader is a lemma each, and a step is a
composition of them. From it: `TypeCorrect`, `NeverLate`, `AlwaysArmed`,
`AlwaysBounded`, `AlwaysPrompt`, and `Implementation`, that every step maps to a step or a stutter of
`FrameStream`.

`PunctualSpared` is the action property `SparesPunctual`. What the timer finds at its cursor is a
frame only if the cursor stands where a frame starts, and reading may overtake it: `Scanned` says
that whole frames lead from the head of the buffer to the cursor, and it is kept by a scan
(`LeadsOn`), by a read that stays behind the cursor (`LeadsFrom`: the chain of frames from the head is unique) and by
one that overtakes it. The verdict on a frame does not change as further bytes arrive (`CompleteKept`).

**ChunkQueue.** `CursorsAgree` follows from `Agree`: the entries that are left tile the unread bytes, each with the arrival of its
bytes (`Tiled`), and each cursor is at the entry and offset of its byte, or behind the last (`Stands`). `Ahead`, the walk from a
cursor, keeps this for any distance (`AheadStands`), and slicing shifts every index by the same
amount (`CompactAgrees`), the scan cursor's included, which by then may be behind the slice only if the read that slices resets it. From
it: `CursorsKept`, for every threshold and every way to cut the stream. `QueueImplements` says that
the array adds nothing: every behaviour of `ChunkQueue` is one of `FrameReader`, so the theorems above hold of it.

**LinkWriter.** `IInv` adds to the type invariant how the line stands: the wire's runs, then the
frame in flight, then the chain, are the admitted calls in order, and unless the
queue is poisoned every frame before the one in flight is on the wire in full
(`QueueOK`, `WireOK`); the writer's phase, its offset and the last run agree
(`WriterOK`); a pending caller's frame is in line or in flight (`PendingOK`). Without these a
resumed write could not be shown to extend its own run rather than
another's. From it: `Serialized`, `AnswersAreTrue`, `NothingAfterTruncation`, `CloseReleases`,
`PoisonSettles`, `TypeCorrect`.

`Implementation` maps the writer to `FrameLine`: what is sent are the whole runs on the wire (`SentBar`), the line is the
rest of what was admitted (`LineBar`), a poisoned queue is a broken line. Bytes that leave a frame unfinished are stutters; the step that puts
the last one on the wire is `Send`, with its caller told or not.

**MetricRun.** `NominalMeansCool` is about the end of a run and says nothing of how it came there.
`IInv` adds what holds on the way: nothing throttles before the samples (`Calm`); while the session is open,
what the opening boundary read bounds every counter from below, strictly if it has throttled
since, unless one has restarted (`Watched`); the verdict is given once, behind the closing boundary
(`Judged`). `NominalMeansNoAdvance` is the fact about the thermal oracle that
closes the argument. From it: `NominalIsCool`. `NeverReplaced` is the action property `ResultImmutable`:
only the step that created the file leads to the one that dumps into it (`Held`).

`ComparisonIsPaired` needs the counting: sample `i` is of round `RoundAt(i)` and place
`PlaceAt(i)`, as long as no sample was rejected or lost (`Pairing`), the order of an even round is that of the odd one before it
reversed (`Drawn`), so blocks and first places stand in bijection.

**PaintAttempt.** The score could be lost between the handler's lock, its `accepted.set()` and the runner's wait.
`IInv` says that the runner learns of one end only, beacon, exit or timeout (`OneEnd`), that a value was
judged on the beacon that is recorded (`Scored`), and what cleanup and report may find (`Cleaned`, `Reported`).
Handlers move the recorded beacon only while there is none. From it: `ScoreStays`, `TimeoutNeverScores`, `NothingIsLeft`, and
`ReturnedSampleIsSound`, which puts the three together for the sample that is returned.

Its theorems stand in `OwnedProcessProofs`, which extends both modules.

**OwnedProcess.** Births number the generations. Until its status is collected the leader keeps its PID, and with it every
member of the group is of the launch (`LeaderKept`); what a descriptor was opened on and compared to is what was
listed (`Bound`); a scan has, of the PIDs it has read, everyone who was there when it began (`Scanned`). The kernel's steps
keep this by one lemma each about how processes evolve. From it: `GroupSignalsOwn`, `MembersSignalledAsListed`,
`CleanupLeavesNothing`.

**ProductAttempt.** `CensusComplete` says that who is in the tree throughout a census is in its result, though `/proc` is read entry
by entry while others are orphaned and PIDs are reused. The steady processes have steady parents, and each
that was read is on record with its parent as it is (`Steadfast`); the closure of the records therefore reaches them, by
induction on the generation, which is older in a parent than in its child. `Identified` and `Targeting` carry a captured
generation from the census to the signal. `ValidLeavesNothing` follows from `Lifecycle`. `StrangersAreNotMeasured` is about a
window of snapshots: a stranger can be taken for a descendant when the PID of its parent changes hands within one census, but
then that snapshot also counts a generation that is gone (`Remembered`); the next one cannot, differs, and restarts the window.

**MatrixRun.** The attempts at a key are consecutive rows, at most `MaxAttempts`, of which all but the last
missed no more than the picture or the focus (`Attempted`, `Bounded`). That they did is a fact about what happened to them
(`OnlyMissed`), derived from the reasons they are retried on: a native row without the reasons "timeout", "exit",
"receipt" and "nvidia" had a probe that ran its course (`NativeRetry`), and a Keld row without the reason
"exit" was not seen to lose its probe (`KeldRetry`). Phases do not mix (`Ordered`); no key is
scheduled twice (`SchedulesDistinct`, for every shuffle); a row that left its probe is rejected for it (`Reported`). Completion looks
only at which keys have a valid row: with the invariant that says that the last row of every key is the valid one. From it: `RetriesAreShown`,
`NoProbeOutlivesCompletion`.

**Campaign.** `ManifestComplete`. The documents of a campaign are the cases of the plan's rounds so far, in its order, each with its raw file
(`DocsOK`, `FilesOK`); a case is passed without an exception only with its file there (`PlaceOK`); the results and then the manifest come with
the end of the plan (`WrittenOK`). The rest is counting in the plan: its rounds stand at computable places (`PlanIs`), so the documents of a tier and a round are one
for each arm (`OncePerRound`), and the arm that goes first alternates with the round (`FirstAre`, `Balanced`, by a bijection between odd and even rounds). The processes may do
anything meanwhile.

**AppLink.** `IInv`: one task at a time waits on the reader, and it is the one the reader holds; a closed session
has failed its reader; a task that waits is at the operation that needs the answer. From it
`CloseReleasesAll`. Three more invariants stand on it.

* `ExitWaitsForHost`, for a main task whose program has the stock lifecycle loop and strays that forge no agreement: until
  the host has agreed, no agreement is on the wire, unread, parked or in hand, and the loop is still to be left (`Agreement`).
* `RepliesNeverCross`, for finitely many tasks, no more than there are correlation ids to allocate, and a host that forges no call, reply or
  error (it may lose, refuse, delay and garble). Ids wrap, so equal ids do not make the same call. `Age`
  measures how many ids were allocated since; calls and answers are on their way in order of age (`Line`); and every id
  as young as a frame in flight belongs to a task that is not through with its call (`Covered`). Hence, when an id is
  allocated again while its old frame is still on its way, every id would be in use by a task other than the one
  that allocates, and there are not as many. With a second task in the picture the wrong one may wait (`receive` hands a frame to whoever waits): that
  task then fails the session, and no frame is delivered any more (`Doomed`). Without the bound on the tasks the
  property is false, as TLC shows with one id and two tasks: `allocCorr` does not look whether an id is in use.
* `EventsArriveInOrder` and `GoodHostIsServed`, for an app that is a single task, as the stock application is; its program, the parking
  budget and the strays are any. The invariant (`Fit`) joins four accounts of the same frames. The events of the host are
  what the loop has taken, then what is parked and in hand, then what is unread and on the wire, each once (`InOrder`, by the `Rank`
  of an event among the frames around it); an event in hand stands behind the parked ones only while an echo is outstanding.
  Besides events one frame at a time is on its way, the question of the task or the answer to it (`Exchange`), so what an event
  receiver is handed is an event. The host's greeting comes before its events (`Greeted`). A task that reads for anything but an echo has
  emptied the parking place (`Rested`), and Quit is asked only after the last event (`Quitting`): this is why a parked
  event is never overtaken by one from the wire, and why no event reaches a task that waits for the Quit reply. What is in order is also known to
  the app (`Announced`), so it fails on no frame but one that finds the parking place full. With a second task neither
  holds: it may be handed a frame that the first one wants.

**Only model-checked.** Every liveness property (`StartedFrameSettles`, `EveryCallSettles`,
`LastWindowExits`, `EchoSettles`, `AttemptEnds`, `CleanupEnds`, `CasesEnd`): fairness and `ENABLED` are beyond
the prover. Every safety invariant and action property of the passing runs, and both refinements, are proved.

## 5. Not modelled, and why

* Bytes and encodings of frames, varints, postcard strings, call errors: pure codecs.
* `_memory_attempt` and `OwnedProcess.members()`, the older memory metric, which counts a
  process group: `_product_memory_attempt`, which replaced it for the product
  metrics, has the same window over a harder census.
* Percentiles, bootstrap intervals, weighted order statistics: arithmetic over
  values that are valid by then.
* Result schema and contract checks: stateless predicates over one document. `block_corpus` is
  modelled where the campaigns use it.
* CI planning: table lookups with exhaustive unit tests.
* The host's, kernel's, compositor's and program's insides: not in the repository, external. So is the
  Bun child of a runner that the campaign kills.
* `KeyboardInterrupt` and a crash of the harness itself: nothing is recovered from either; there
  is no state to restart from.
* Logging, wording of errors, JSON layout. The PowerShell harness, comparison applications, the older
  kipc clients, the macOS echo pair and the database probe: no protocol state that the modelled parts
  do not have.

Effects of the code that the models keep and that a reader may not expect: a dump that
fails leaves a truncated result under the final name (`harness.py:3871`); a process that
exits between the generation check and the signal makes the forced cleanup of a product
launch raise; a matrix row whose steps raise leaves its probe to whoever started the
matrix; a campaign waits out its whole deadline for the link file of a server that has
already failed; it may wait for ever for git, for cargo's build lock or for a tool that should tell its version; a
Keld row of the matrix whose wrong beacon was followed by an unfocused one is retried as a loss of focus
(`run_matrix.py:1239-1240`); a PING that crosses the Quit Call fails the session (`main.ts:322`), which no run
covers, since they count such a host as faulty.

`ProductAttempt` folds a few raising paths of the code into raises of the same step with the same outcome.

## 6. Plan

Done: steps 1 to 5, 7 to 10, 12; 6 as far as the product metrics go; of 11 the thermal classification.

1. `FrameStream`, `FrameReader`, their proofs.
2. `FrameLine`, `LinkWriter` and their proofs.
3. `AppLink`: session, parking, stock application.
4. `PaintAttempt`.
5. `OwnedProcess`.
6. `MemoryWindow`: stability of a changing process set.
7. `ProductAttempt`: launch, census, native close, forced cleanup of a captured tree.
8. `MetricRun` with `ThermalBoundary`: rounds, orders, verdicts, publication once.
9. `Campaign`: the Rust client and server started and awaited in either order.
10. `MatrixRun`: bounded retries and completion of the DMA-BUF matrix.
11. Pure algorithms against reference definitions: weighted order statistics, summaries,
    varint and header codecs, result contract decisions.
12. `ChunkQueue`: the chunk array with head index, cursors and compaction under the
    interval of `FrameReader`.
13. Proofs: done for every invariant, action property and refinement that the runs check; open: an
    abstract echo service that `AppLink` implements.
