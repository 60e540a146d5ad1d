# Controllers: a TLA+ model of the runtime

The repository holds Controllers, a C library for programs that run kernels on
CPUs and accelerators. A program declares *ctrls* (devices), *tiles* (arrays
with a host copy and one copy per device), kernels and host tasks with the role
(IN, OUT, IO) of each tile, and launches them as if they were plain calls. The
library moves data between the copies and overlaps what it can. What can go
wrong is the overlap: a wait left out or put on the wrong stream is a data race
that shows once in many runs.

## Inventory

| Part | State | Operations | Hard behaviour | Makes it correct |
|---|---|---|---|---|
| Task queue, CPU events (`Ctrl/inc/Core/Ctrl_TaskQueue.h`) | `buffer`, `read`, `write`, `last_finished`; an event is a stream and an index | Push, Pop, FreeTask, Destroy, Record, Wait | lock-free producer and consumer; a buffer that is never reused; waiters that poll | an in-order stream; a wait returns when the work it covers is done, and only then |
| CPU ctrl (`Ctrl_Cpu.c`) | three streams, policy, `mem_moves`, `dependance_mode`, `seq_event`; per tile `device_status`, four events | kernel launch, MoveTo, MoveFrom, Alloc, Select, Free, WaitTile, GlobalSync, Destroy | three threads and the main thread; statuses set at push time, read by later launches | every pair of conflicting jobs is ordered; tasks see sequential results |
| Host tasks and core API (`Ctrl_Core.c`) | host stream; per tile `host_status`, two events | LaunchHostTask, SyncWait, MoveToWait, MoveFromWait, HostTaskWait, Synchronize | host memory shared by host tasks, transfers and zero-copy kernels | the same, across ctrls; waits cover what their docs say |
| Generic events | reference counts | Create, Retain, Release, Wait, Signal | an event shared by a tile and by queued tasks | freed once, after its last waiter |
| Threads and teardown (`Ctrl_Thread_*`, `Ctrl_EndBlock`) | OpenMP team, one thread per stream | spawn, DESTROY tasks, barrier | queues freed while tasks may still be queued elsewhere | no queue used after it is freed; the block ends |
| Queue manager, CUDA/HIP/OpenCL/FPGA ctrls | host queues, driver streams, host and device events | as the CPU ctrl, through a polling thread; change of driver stream every `MAX_STREAM_TASKS` operations (CUDA) | two levels of asynchrony; a device event means nothing before it is issued | as the CPU ctrl; a driver waits only for events already issued; several driver streams still are one stream |
| Device selection and configuration (`Ctrl_Dev`, `Ctrl_ParseConfig`) | weights, list of ctrls | pure functions | priorities, missing sections | the best implementation available is chosen |
| Epsilod (`Epsilod/src/epsilod.c`) | two arrays per process, in host and device; borders | launch, halo exchange, output | MPI messages, transfers and kernels of the inner part interleaved | halos are current when used; every cell is written once, by one process |
| Hitmap (`extern/hitmap`, kept in the repository) | layouts, topologies, patterns | distribution of an index space, neighbours | index arithmetic at the edges: more processes than rows, remainders, weights | blocks are a partition; who receives is who is sent to |
| Kernel macros, CtrlBlas, examples, experiments | - | - | - | not modelled |

How they interact: the program's (main) thread runs every API call. A call
reads and writes tile and ctrl state, which no other thread touches, and pushes
tasks on streams. One thread per stream pops and evaluates them. Threads of
different streams meet only in `last_finished`: a WAITEVENT task makes a stream
poll the counter of another one. `PROJECT.json` lists the hazards of this
design line by line.

## Modules

| Module | Role |
|---|---|
| `TaskQueue` | one queue, its producer, its consumer, its waiters, at the grain of memory accesses |
| `InOrderStream` | what a stream promises: tasks executed once, in order |
| `CpuCtrl` | the whole runtime when all ctrls are CPU ctrls: API calls, streams, memory contents |
| `DriverCtrl` | the same when all ctrls drive accelerators: host queues, queue manager, driver streams |
| `TileDataflow` | what a program relies on: each task finds what sequential calls would leave |
| `StreamRotation` | one kernel stream of a CUDA ctrl over several driver streams |
| `TileLifecycle` | records, buffers and reference counted events of tiles, from Domain to Free |
| `ThreadBlock` | the threads of a `__ctrl_block__`: how they start, and how the block ends |
| `HitLayout` | Hitmap's topologies, layouts and neighbours, as operators |
| `Epsilod` | a distributed stencil: processes, devices, messages |
| `MC...` | small instances of the module named after the prefix |
| `MCCpuVariants`, `MCDriverVariants` | several instances side by side |
| `TaskQueueProofs`, `CpuCtrlProofs`, `StreamRotationProofs`, `DriverCtrlProofs`, `ThreadBlockProofs`, `TileLifecycleProofs`, `TileMemoryProofs`, `EpsilodProofs` | proofs |

How they compose. `TaskQueue` shows that a queue with its consumer is an
`InOrderStream` and that an event is reached when the work it covers is done;
`StreamRotation` shows the same of a kernel stream of a CUDA ctrl. `CpuCtrl`
and `DriverCtrl` use streams and events with just these promises, and both are
shown to implement `TileDataflow`. `TileLifecycle` and `ThreadBlock` cut the
same calls another way: not what memory contains, but what may be destroyed and
when. `Epsilod` extends `HitLayout` and uses a ctrl through what `CpuCtrl` and
`DriverCtrl` promise: jobs on one tile in order, `Ctrl_WaitTile` waits for them.

### TaskQueue and the code

A push is two steps, the slot and then `write` (`PushStore`, `PushPublish`), or
the `exit` of a process that exhausted the queue (`PushExit`), which ends its
threads as well: no action is enabled after it, and tasks and waits under way are
lost. Threads may take steps while `exit` runs; these come before `PushExit`.
A pop is two, seeing `write` grow and growing `read`; then come the evaluation, the count in `last_finished`, the freeing of
the task. `write` and `last_finished` are accessed with relaxed OpenMP atomics;
the model is sequentially consistent, so a reordering of the slot's store with
the increment of `write` by a weakly ordered processor is outside it.
`FreeTask` clears a slot or leaves it: kernel and host tasks stay until the
queue is destroyed. `PushDestroy` requires that nobody waits on the queue. That
is a duty of the queue's users; whether `Ctrl_EndBlock` meets it is the
question of `ThreadBlock`. `before`, `pushed` and `evaluated` are history.

### CpuCtrl and the code

- Jobs are numbered in push order; there is one producer. An event is the number of
  the job it was recorded behind (0: `stream == NULL`, always reached).
- `Ctrl_GenericEvent_StreamWait` pushes a WAITEVENT. A stream waits for all
  WAITEVENTs in front of its next job, in whatever order, so they are a set:
  `waits` of a job, `pending` for those that no job follows yet.
- An API call is one action per loop iteration over its arguments. The pushes
  within an iteration are one step: the main thread reads nothing that stream
  threads write, so they cannot observe more than its order, which is kept.
- `KernelLaunch`, `KernelArgFetch`, `KernelArgSend`, `KernelArgWait` and
  `KernelPush` are the parts of `Ctrl_Cpu_EvalTaskKernelLaunch`;
  `LaunchHostTask`, `HostTaskFetch`, `HostTaskArgWait`, `HostTaskPush` those of
  `Ctrl_LaunchHostTask`. The other actions have the names of their functions.
- Memory is the version (number of the producing task) in each buffer. A job
  reads its inputs when it starts and writes its outputs when it finishes;
  between the two it runs. `seen` records what it read.
- Calls for which the library exits (a copy that was never allocated) or
  returns at once (a null tile, a transfer with a zero-copy ctrl) are not
  taken. Calls it only warns about are taken when `WarnedMoves` is TRUE.
- Arguments of one launch are distinct tiles. Scalars are left out.
- `scope` in `main` is history: the jobs a blocking call is about. For
  `Ctrl_WaitTile(ctrl, tile)` and `Ctrl_GlobalSync(ctrl)` those are the jobs of
  that ctrl, and the host tasks, that touch the tile(s); for
  `Ctrl_Synchronize` all jobs.

### DriverCtrl and the code

- A job has two ends. The queue manager *issues* it (`IssueJob`, the host
  event) and the driver *finishes* it (`FinishJob`, the device event). The
  same job number stands for both events; a wait in a queue says which one.
- Waits are entries of the host queues, as in the code, not sets: the moment a
  device event is handed to the driver decides what the driver waits for.
  `PassHostWait` tests a host event, `CaptureDevWait` is
  `Ctrl_PushEventIfCompat` (a driver that knows the event waits for it in its
  own stream), `TestDevWait` polls an event of another driver.
- `CaptureDevWait` of an event not yet issued hands over nothing: to the driver
  such an event is complete. `EventsIssuedBeforeWaits` says this never happens.
- The four kinds run the same steps. Where their files differ the difference is
  an operator on `Kind`: which host queue the SYNC event of a transfer names
  (CUDA and HIP: that of the other direction), and whose device events a driver
  can wait for (CUDA and HIP: those of all ctrls of the kind; OpenCL and FPGA:
  its own).
- `DriverReady`, `StartJob` and `StreamStep` stand for the vendors' drivers:
  streams in order, streams among each other in any order.

### StreamRotation and the code

`ExecTask` is `Ctrl_Cuda_ExecTask` for one kernel stream: it counts operations,
and after `MAX_STREAM_TASKS` records an event at the end of the old driver
stream and makes the next one wait for it. The other actions are the driver's.
HIP, OpenCL and FPGA ctrls have one driver stream per kernel stream.

### TileLifecycle and the code

A call of the main thread is a list `todo` of operations (retain, release,
push, record, wait, attach, detach, ...) in the order of the source, of which
the main thread does one at a time, so that the queue manager and the host
thread come between any two. `slot` holds the event in each variable of a
record, `ref_count` the counters, `records` and `memory` what is allocated.
`Ctrl_WaitTile` and `Ctrl_GlobalSync` change none of this and are left out; so
is `Ctrl_Alloc` of a selection. The ctrls are CUDA ctrls with one kernel stream
in EXPLICIT mode; HIP, OpenCL and FPGA have the same steps. A driver stream may
run a job as soon as it was issued: the frees must be safe whatever the driver
waits for. `Careless` lets programs free a tile from one ctrl and go on using
it; see "What the code does not promise".

### ThreadBlock and the code

One action per step of each thread: `StartManager`, `Spawn`, `StartCpu`, `Join`
are how threads start, each reading `p_impl` of its ctrl; `TakeJob`,
`TakeWait`, `TakeDestroy` the loops of `Ctrl_Thread_QueueManager`,
`Ctrl_Thread_HostTask` and `Ctrl_Cpu_StreamConsume`; `Synchronize`,
`DestroyCtrl`, `FreeImpl`, `DestroyHost`, `Barrier` are `Ctrl_EndBlock`, which
goes over the ctrls with `next`. One tile is attached to every ctrl, in
EXPLICIT mode. What a call pushes is a sequence of tasks for each queue (`On`,
`Then`). Statuses are left out: whether a launch waits for transfers,
which depends on them, is a choice (`copies`). A thread that is about to use
freed memory stops there, since what it would do is undefined.

### HitLayout, Epsilod and the code

`HitLayout` has, as pure operators, what `Epsilod` takes from Hitmap: plain and
complete two-dimensional array topologies, block layouts with the arithmetic of
`hit_layout_plug_layBlocks_Sig`, weighted blocks, which processes are active,
and neighbours. In `Epsilod` a process works out its borders (`PlanOf`), then
loops: `Compute` swaps arrays, launches kernels and brings borders to the host;
`StartExchange` waits for them and sends; `Receive`, `EndExchange` put halos in
place; `NextIteration` waits for halos and the inner part. `LastWait` and
`Output` end it. The device (`RunJob`) runs jobs on different tiles in any
order. A cell is the number of the iteration that computed it from right
inputs, or `Junk`, so that the numerical kernel needs no model.

## Runs

| Run | Question | Result |
|---|---|---|
| `task_queue` | is the queue an in-order stream; do waits return, and when | holds |
| `cpu_mixed` | a device and a zero-copy ctrl: order, statuses, sequential results, deadlock, jobs finish, calls return | holds |
| `cpu_variants` | order and statuses when tiles are not allocated at first, with two devices and warned moves, with two tiles, under SYNC; no overlap under SYNC; what blocking calls cover | holds |
| `driver_two_kinds` | a CUDA and an OpenCL ctrl share a tile: no driver waits for an event too early; order, no deadlock, jobs finish | holds |
| `driver_variants` | order, statuses, sequential results, deadlock; one kernel stream (CUDA), two (HIP), SYNC (OpenCL) | holds |
| `stream_rotation` | are several driver streams one stream | holds |
| `tile_lifecycle` | reference counts, buffers and records of tiles and selections, with jobs under way | holds |
| `thread_block` | is any job lost at the end of a block; which uses of freed memory are possible; does the block end | holds |
| `epsilod` | are halos fresh, is the output complete, do all processes end; five computations | holds |
| `v_move_from` | a MOVEFROM waits for earlier MOVETOs | violated: `Ctrl_Cpu.c:434` |
| `v_synchronize` | `Ctrl_Synchronize` covers all jobs | violated: `Ctrl_Core.c:729` |
| `v_vertical` | halos are fresh for a stencil with no neighbours along one dimension | violated: `epsilod.c:488` |

The properties:

- `DependencesHonoured`: a job starts only when every earlier job that
  conflicts with it on a buffer has finished. The `...ButMoveFrom` and
  `...ButUnordered` forms leave out the pairs the code does not order: a
  MOVEFROM behind another transfer (CPU ctrls); what follows a reading kernel of
  another stream, and MOVEFROMs of two devices (driver ctrls).
- `CoherentAtRest`: with nothing in flight VALID copies hold the latest version,
  and a tile ever written has one.
- `ImplementsDataflow`, `ImplementsStream`: refinement of `TileDataflow`, the
  program's view, and of `InOrderStream`.
- `WaitsComplete`: blocking calls return only when the jobs in their scope have
  finished. `WaitMeansEvaluated` is the same of one queue.
- `EventsIssuedBeforeWaits`: a device event reaches a driver only after the job
  it belongs to was issued.
- `NoOverlap` (SYNC runs one job at a time), `OneKernelAtOnce`, `WaitsHonoured`.
- `CountsExact`: an event's counter is the number of variables and queued tasks
  that hold it. `MemoryAlive`: buffers outlive jobs on them, issued or not.
  `NoStaleRecord`: no call touches a record that was freed.
- `NoJobLost`, `FreedUseKnown`, `BlockEnds`: the end of a block.
- `FreshHalo`, `OutputCorrect`, `AllFinish`: Epsilod.
- `NoDeadlock`: while a job is unfinished some thread or stream can go on.
  `JobsFinish`, `CallsReturn`, `WaitsReturn`, `KernelsRun`: liveness.
  `WaitsReturn` excepts the exit of an exhausted queue, which ends the waiting
  threads; the other modules have queues that are never exhausted, so what they
  promise is for programs that stay within `CTRL_TASKQUEUE_SIZE`.

### Bounds

`MaxJobs` stops new calls once that many jobs were pushed; a call under way
completes, so runs reach a few more. Three or four jobs let a transfer or a
task be overtaken by another with more in flight on other streams; every
ordering defect this project found shows with at most four. One tile is enough
for orders on a buffer, as waits are per tile; the `one` variants and
`driver_variants` have two, so that tasks combine tiles. `Size` 3 in
`task_queue` lets the queue run out, and the process exit, with both waiters
waiting and tasks left. In
`stream_rotation`, 8 operations, 2 per stream and 3 streams let the rotation come
back to a stream that may still be busy. `tile_lifecycle` asks for 2 jobs out of
four kinds and any number of allocations, selections and frees around them,
from tiles with and without memory and under both policies; 2 ctrls make the last
of several frees release the record. `thread_block` has the four pairs of
ctrls that differ in threads or in their order and 2 calls: enough for
a job in a queue while another queue meets DESTROY, for a read event recorded
over, and for threads that start after the block ended. In `epsilod`, 2 to 4
processes with up to 4 iterations let a process run one iteration ahead of its
neighbours; `eager` instances run device jobs at once, the `Line` instance has
all interleavings. The variants modules exist to check several constants in one
run: the first state picks one. `CHECK_DEADLOCK FALSE` appears where the
system really stops: an exhausted or destroyed queue, and a driver that did all
its operations.

### Fairness

Stream threads and blocked callers spin and each job's evaluation ends, so each
stream, the continuation of a call, the consumer and each waiter of a queue have
weak fairness (in `TaskQueue` only until the process exits). In `DriverCtrl` so do the queue manager for each queue (it visits
all of them in turn), the host thread and each driver stream; in `ThreadBlock`
the main thread, the start of each thread and each queue's consumer; in
`Epsilod` the steps taken together, since all behaviours are finite. Nothing is
assumed about the program, which may stop calling; only in `ThreadBlock` does
it come to the end of its block.

## Proofs

`TaskQueueProofs`, for every capacity, set of tasks and waiters: `TypeCorrect`,
`WaitTheorem`, `Refinement`. The invariant `QueueInv` ties the consumer's
program counter to how far `read` and `last_finished` are ahead of the tasks
evaluated (the counters differ by one or two in the middle of an iteration),
says that slots not yet evaluated hold what was pushed, and that after DESTROY
nobody waits; without the last, resetting the indices would break the promise to
waiters. The only assumptions are `TaskQueueAssumption`: a positive size, and
that DESTROY and the empty slot are no tasks.

`CpuCtrlProofs`, for any number of ctrls, tiles and jobs, any mix of zero-copy
and device ctrls, both policies, all modes: `TypeCorrect`, `WaitsTheorem`,
`DeadlockFreedom`. `CtrlInv` says that events, pending waits and waits of jobs
name jobs pushed before. `TypeOK` alone is not inductive: it says
nothing of the argument index nor of the versions read. Deadlock freedom
follows: of the unfinished jobs take the first pushed (`NatMinimum`, from the
well-foundedness of `<`); all it waits for, and all before it on its stream, were
pushed earlier, so are done. The assumption is `CpuCtrlAssumption`, the types of
the constants.

`CpuCtrlProofs` then goes on, in the same generality, to what conflicting jobs and
blocking calls wait for. `Before(J, m, n)` says that job n cannot start before m has
finished, following waits and in-order streams; `Covered` that an event, or a
set of them, is behind a job or the job is done. The invariant `CpuOrderInv`
puts into words how the code argues: each tile keeps, per stream, the event of
the last job that used it; these events cover all earlier users; who uses the
tile next waits for them. Two parts are less obvious. `OnlyOnDeviceInv`: when
the device has the one valid copy, the last writing kernel came after all
transfers of it, which is why `Ctrl_Cpu_EvalTaskKernelLaunch` may leave those
out. `LaunchInv`: between two arguments of a launch, the waits already on the
stream cover what conflicts with the arguments looked at, also when the fetch for
a later argument pushes jobs in between. From it follow `OrderedExecution`
(`DependencesHonouredButMoveFrom`), `DataRaceFreedom` (`DependencesHonoured`),
`TileWaitsAreComplete`, `SynchronizeIsComplete`; and, from an invariant of its
own (`SerialInv`: each job waits for the one before it), `SyncRunsOneJob` and
`SyncOrdersAccesses`. The hypotheses are on programs, not on the library, and
each names a place where the code keeps less than it would need:

| Hypothesis | Meaning | Without it |
|---|---|---|
| `HostReadersTracked` | tasks that only read a tile in host memory are on one stream: no zero-copy ctrl, or no IN arguments | a tile has one event for readers on several streams (`Ctrl_Cpu.c:822`); `v_synchronize` |
| `MoveFromTracked` | transfers from a device are needed ones, of one device: IMPLICIT mode, no move the library warns of | a MOVEFROM is not ordered after other transfers (`Ctrl_Cpu.c:434`); `v_move_from` |
| `QuietAttach` | a tile is attached to a ctrl while no unfinished job uses it | the allocation overwrites the tile's events (`Ctrl_Cpu.c:380`) |
| `KernelsHaveArguments` | no kernel is launched without arguments | no event of a tile covers it, and under SYNC `seq_event` is recorded in the loop over the arguments only (`Ctrl_Cpu.c:828`) |

`QuietAttach` restricts behaviours; `AttachesQuietly` derives it from how a
program is written (`AttachesEarly`: all tiles attached first, or one ctrl), and
`DataRaceFreedomOfPrograms` states the results for such programs with `Spec`
alone. Under SYNC none of the first three is needed.

Last in `CpuCtrlProofs`, in the same generality: what tasks find in memory. The
theorems of order reduce this to a claim about the list of jobs alone, with no
mention of what has run. `Version(J, n, t)` is the last task before job n that
writes tile t; `Fresh(J, n, b)` says that buffer b will have that version, as
the task itself or a later transfer writes b. `DataflowInv` then has three parts.
`PushedInv`: each job reads fresh buffers, a copy whose status is VALID is fresh,
and some copy of a tile is. In the middle of a launch that is not quite true: a
host task sets statuses while it looks at its arguments, before its push, and a
fetch for a later argument pushes transfers in between; `AnnouncedInv` says which
tiles the statuses run ahead of, and that no transfer in between touches them.
`SeenInv`: a job that started read the versions it is due. `MemInv`: a buffer
holds what the last finished job that wrote it left; this is where the order of
accesses is used, as no conflicting job can have come in between. When nothing
is in flight, fresh means up to date (`OrderedCopies`: `CoherentAtRest`). For the
refinement (`OrderedDataflow`: `ImplementsDataflow`) the push of a task is
`Launch`, its start is `Execute`, every other step stutters. These assume
`DependencesHonoured`; `DataflowOfPrograms` and `DataflowUnderSync` take it from
the theorems above, and need nothing but how the program is written:

| Hypothesis | Meaning | Without it |
|---|---|---|
| `ArgumentsDistinct` | the arguments of one launch are different tiles | a host task with a tile as OUT and as IN argument marks copies before it needs them, and fetches what it is about to write |
| `TransfersImplicit` | IMPLICIT mode, no move the library warns of | in EXPLICIT mode it is for the program to move data; a warned MOVEFROM brings old data to the host and marks it VALID (`Ctrl_Cpu.c:463`) |
| `HostReachable` | a tile with memory on a device has some on the host, or one device only moves memory | a kernel finds its copy out of date, and data cannot come from the other device as the host has no copy (`Ctrl_Cpu.c:649`) |

`StreamRotationProofs`, for any number of driver streams, `MAX_STREAM_TASKS`,
kernels and events, with no hypothesis: `KernelsInTurn`, `WaitsBeforeKernels`,
and the refinement `StreamsAreOne`. `RotationInv` says, for every command on a
driver stream and every operation it must follow, that the operation is over, or
ahead on the same driver stream, or before a turn whose wait is ahead; a turn's
event fires only when all before the turn is over. This is what is lost if the
event is recorded on the wrong stream or one operation too early. The refinement
adds that what was executed is a prefix of what was issued.

`DriverCtrlProofs`, for any number of ctrls of any kinds, kernel streams, tiles
and jobs, both policies, all modes: `TypeCorrect`, `DeadlockFreedom`, and, under
ASYNC, `EventsAreIssued`. `DriverInv` follows a job from its queue to the driver:
it is queued on its own stream, behind smaller numbers only, until it is issued;
a driver is given only events of earlier issued jobs; the host task thread keeps
its job at the head until it is done. Deadlock freedom is then the argument of
`CpuCtrl` with two levels: the unfinished job pushed first is issued, and can
start, or what is ahead of it on its queue is a wait for a job that is done.
For `EventsAreIssued`, lists of waits are closed under a condition (ahead of each
device event is the host event of the same job) that concatenation keeps, so it
is enough to look at what each handler enqueues. Under SYNC that condition fails,
see below. The assumption is `DriverCtrlAssumption`, the types of the constants.

`ThreadBlockProofs`, for any number and kinds of ctrls, kernel streams and
calls, with no hypothesis: `JobsAreNotLost` (`NoJobLost`), `UsesOfFreedAreKnown`
(`FreedUseKnown`). `Ctrl_Synchronize` looks at events only, four of each ctrl and
of the host; why is that enough to discard the queues? In the block, the event in
a slot `Covers` every job that writes and recorded its event there, however
often it was recorded since: who recorded it later waited for the earlier job,
or was behind it on the same queue. (`Covers(e, j)`: a set of positions in queues
that contains e, and with each unfinished task what is before it on its queue and
what it waits for, contains j.) When every event is reached the finished tasks
are such a set, so all writing jobs are done, and the jobs left are reading ones
whose event was overwritten. The rest of `BlockEndInv` carries this to the
moment a queue is destroyed: counters and queue contents agree (`CountInv`,
`JobInv`), a thread that has not started took nothing (`StartInv`), and each wait
has its job behind it, except those of a MOVEFROM of a CPU ctrl on the stream of
the other direction (`QueueInv`).

`TileLifecycleProofs`, for any number of ctrls, tiles, selections and jobs:
`TypesCorrect`, `CountersExact`, `NoStaleRecords`. That counters are exact is not
inductive by itself: it depends on what the main thread is about to do.
`LifecycleInv` therefore describes what is left of the call under way.
`JobForm`: a reference is retained just before the push of the task that takes
it, a slot is released just before it gets another event, and a launch drops its
local `kernel_event` once, at the end; each part of a job has this shape, and
parts one after the other have it (`PartsConcatenated`), so that the handlers
need to be looked at only piece by piece. `FreeForm`, `AllocForm`, `SelectForm`
say where the loops over the ctrls are, and which records and empty slots the
rest relies on. `RecordsInv` ties records, `valid_impls` and slots together: a
tile keeps its record for the host until the last ctrl is gone, and what is not
there has no events. The queue manager and the host thread change only queues
and counters, so they may come between any two operations. The hypothesis
`~Careless` is on programs: a tile is freed from one ctrl only when nothing else
is done with it but frees from the others, and from all of them only when it is
attached to the last; see below for what the code does otherwise. The assumption
is `TileLifecycleAssumption`, the types of the constants.

`TileMemoryProofs`, in the same generality and under the same hypothesis:
`MemoryStaysAlive` (`MemoryAlive`). A free does not look at the queues. It waits
for the events in the slots of the tile, so what has to be shown is that these
events are behind every job on it. A *cover* is a pair of slots, a host event (what
the queue manager has launched) and a device event (what is done), with the
stream of both. `MemoryInv` has these parts. `JobsCovered`: for each job, queued
or launched, there is a cover whose host event is not done before the job is
launched and whose device event is its event or that of a later job of the
stream; or the call under way is yet to push a job and record the events
(`Promised`), as a slot is released before it gets its next event. `HostCovered`
says this of host tasks. `JobsAlive`: jobs are on tiles that have records.
`MemInv`: records have buffers, and a selection has those of the tile it is made
from, which is why that tile must not be freed before (`Unselected`). `CallLeft`
says of what is left of a call that the operations of a job come in an order
that keeps covers (`Before`), and of a free what it has already waited for:
after its two waits there are no jobs of that tile on that ctrl (`NoJobs`), and
only then the record and the buffers go. `MemoryAlive` is not inductive, as it
says nothing of events.

`EpsilodProofs`, for any number of processes, borders, iterations and cells:
`EpsilodTypeCorrect`, `EpsilodFreshHalo`, `EpsilodOutputCorrect`. The program has
two halves, what a process works out before its loop and what it does with it,
and the theorems are about the second: their hypothesis, `PlanFits`, is the
claim about the first, on which the loop relies. It says that a process sends what
its neighbour expects, after bringing it to the host; that a kernel reads only
cells computed by its process, received or on the border of the matrix; and that the
parts written make up the matrix. TLC computes it from the layouts, as a part of
`TypeOK`, for each computation of `epsilod`, and it is where `Vertical`
(`v_vertical`) goes wrong. `EpsilodInv` says of each process which cells of
which array are of which iteration. `Source`: the array that kernels read is
complete until all of them are done. `Computed`, `Fetched`, `Received`, `Moved`:
a cell is new where no job for its tile is left, in the device, in the host, in
the halo of either; what `StartExchange` sends is new because a border's transfer
comes after its kernel on the same tile, and it waited for these tiles. `NetInv`
counts exchanges: the link to a halo holds, in order, what its neighbour has sent
and it has not received, each the border of its iteration, so that a neighbour
may run ahead by any number of iterations. Jobs on different tiles run in any
order, and the kernel of the inner part runs during the exchange, which is
harmless as blocks and halos share no cells. `FreshHalo` is not inductive: it
says nothing of what is on the way.

Only model-checked: of `DriverCtrl` coherence, the refinement of `TileDataflow`,
and the orders, where two kernel streams leave pairs unordered. And for good:
liveness under fairness, which is out of the prover's reach, as are ENABLED and
induction over data: that the plans of `Epsilod` fit for every size, as layouts
add weights up and count the active processes.

## What the code does not promise

Three defects are runs of their own, with traces of a few calls: `v_move_from`,
`v_synchronize`, `v_vertical`. The passing runs stay clear of these and of the
following, which were met while modelling:

- CPU ctrls: `Ctrl_WaitTile` does not wait for zero-copy kernels that read a tile
  (`Ctrl_Cpu.c:822`); a transfer from a device marks the host copy VALID
  though another device has a newer one (`Ctrl_Cpu.c:463`); a second
  allocation overwrites the tile's host events (`Ctrl_Cpu.c:380`).
- CPU ctrls: a kernel without arguments is in no event of a tile, and under SYNC
  in no `seq_event` (`Ctrl_Cpu.c:828`): neither `Ctrl_Synchronize` nor the next
  job waits for it.
- CPU ctrls: a tile allocated on two devices and not on the host never gets from
  one to the other. A kernel that reads it on the second device runs on what that
  copy held; the library prints that the tile has "uninitialized data"
  (`Ctrl_Cpu.c:649`, `:699`).
- Driver ctrls: the SYNC event of a transfer names the queue of the other
  direction (`Ctrl_Cuda.c:486`, HIP too), and after a MOVEFROM the device event
  of the last MOVETO is kept, so `NoOverlapButMoveFrom` leaves out what follows
  a MOVEFROM. On CUDA and HIP a transfer's device event can for the same reason
  reach a driver before it is issued, under SYNC: `EventsIssuedBeforeWaits` then
  fails after two MOVETOs. With several kernel streams a reading kernel's event is
  overwritten by the next reader's (`Ctrl_Cuda.c:882`), so that nothing waits
  for the first; `ThreadBlock` calls it *overlooked*.
- Freeing a tile from one ctrl leaves `p_impls[c].type` and `device_status` as
  they were: a later `Ctrl_Alloc` is ignored, and `Ctrl_FreeInner` without a
  ctrl reads the record that the last free released, if the tile was freed from
  one ctrl before or is not attached to the last ctrl, although the doc says "If
  NULL is passed tiles are freed from any ctrls they are attached to."
  (`Ctrl_Core.h:411`). `Careless` admits such programs; `NoStaleRecord` is then
  violated.
- The end of a block. "Wait for all operations to end before starting cleanup"
  (`Ctrl_Core.c:391`) is not quite met: `Ctrl_Cpu_EvalTaskMoveFromInner`
  leaves waits on the moveTo queue (`Ctrl_Cpu.c:434`), which may poll a queue
  already destroyed, and a thread that starts late reads a `p_impl` already
  freed (`Ctrl_Core.c:405`). `FreedUseKnown` says these, and overlooked
  readers, are all.
- `Ctrl_Cuda_Destroy` destroys `n_kernel_streams` driver streams out of
  `n_kernel_streams * EXTRA_STREAMS`.
- Epsilod and Hitmap: only rank 0 checks that there is enough data for all
  processes; a weighted process with no share at all leaves the others waiting;
  `hit_layout_plug_layBlocks_SigInv` disagrees with
  `hit_layout_plug_layBlocks_Sig` when blocks do not divide the size evenly
  (`hit_layout.c:82`); the inputs of `epsilod` have none of these. All
  messages have one tag: a process relies on MPI's order per pair.

## Plan

Done: queues, CPU ctrls, driver ctrls and queue manager, stream rotation, generic
events and lifecycle, thread block and teardown, Epsilod with its layouts.

Theorems worth proving next, in this order:

1. `DriverCtrl`: the orders, as in `CpuCtrlProofs`, with one kernel stream.
2. `DriverCtrl`: from them coherence and `ImplementsDataflow`, as for `CpuCtrl`.

Extensions worth having: texture allocation and pinned host memory; freeing in
`CpuCtrl`; ctrls of both sorts in one model.

## Not modelled

- Device selection and configuration (`Ctrl_Dev`, `Ctrl_ParseConfig`): pure
  functions without state, reached by unit tests. What they decide is a
  constant of the modules.
- The preprocessor code that generates kernel wrappers, CtrlBlas and its
  kernels, the numerical kernels, vendor drivers, MPI.
- User events and `Ctrl_GenericEvent_StreamSignal`: nothing in the repository
  calls them.
- hwloc binding, copies of strided tiles, textures, profiler markers.
- Hitmap beyond what Epsilod uses (sparse shapes, graph partitioning, files,
  collective communication), the examples and the experiment scripts, which
  are most of the repository's lines: programs that use the library, each
  sequential apart from it.
