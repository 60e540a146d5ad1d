------------------------------ MODULE DriverCtrl ------------------------------
(***************************************************************************)
(* The runtime of the Controllers library when every ctrl drives an        *)
(* accelerator (Ctrl/src/Architectures/Cuda/Ctrl_Cuda.c and its HIP,       *)
(* OpenCL and FPGA siblings, with the queue manager of Core/Ctrl_Core.c).  *)
(*                                                                         *)
(* A call of the main thread pushes tasks on host queues.  One thread, the *)
(* queue manager, takes them from the heads of all queues and issues them  *)
(* to the driver, whose streams execute them later, each in order.  So a   *)
(* job has two ends: it is issued (its host event) and it is done (its     *)
(* device event), and WAITEVENTs of both kinds precede it on its queue.    *)
(* The waits are entries of the queues here, because WHEN a device event   *)
(* is handed to the driver decides what the driver waits for.              *)
(*                                                                         *)
(* Jobs are numbered in the order of their pushes, and an event is the     *)
(* number of the job it records (0: never recorded).                       *)
(***************************************************************************)
EXTENDS Integers, Sequences, FiniteSets, SequencesExt

CONSTANTS
  NCtrls,         \* Ctrl_GetNCtrls()
  Tiles,          \* the tiles of the program
  Kind,           \* Ctrl_Type of each ctrl
  NKernelStreams, \* n_kernel_streams of each ctrl
  Policy,         \* "SYNC" or "ASYNC"
  Modes,          \* dependance modes the program may select
  Accesses,       \* argument lists the program launches tasks with
  InitAttached,   \* <<c, t>>: tile t is allocated on c when the model starts
  AllocFlags,     \* flag sets the program calls Ctrl_Alloc with
  WarnedMoves,    \* may the program move from an invalid copy (a warning)?
  MaxJobs         \* bound: no call is made once this many jobs were pushed

Ctrl == 0 .. NCtrls - 1
Host == -1                     \* stands for the host where a ctrl is expected
KernelStreams(c) == {<<c, "kernel", i>> : i \in 0 .. NKernelStreams[c] - 1}
Htd(c) == <<c, "htd", 0>>
Dth(c) == <<c, "dth", 0>>
DriverStream == UNION {{Htd(c), Dth(c)} \cup KernelStreams(c) : c \in Ctrl}
HostStream == <<Host, "host", 0>>
Stream == {HostStream} \cup DriverStream
Buffer == (Ctrl \cup {Host}) \X Tiles
Role   == {"IN", "OUT", "IO"}
Status == {"UNALLOC", "INVALID", "VALID"}

ASSUME DriverCtrlAssumption ==
  /\ NCtrls \in Nat \ {0}
  /\ Kind \in [Ctrl -> {"CUDA", "HIP", "OPENCL_GPU", "FPGA"}]
  /\ NKernelStreams \in [Ctrl -> Nat \ {0}]
  /\ Policy \in {"SYNC", "ASYNC"}
  /\ Modes \subseteq {"IMPLICIT", "EXPLICIT"}
  /\ Accesses \subseteq Seq([tile : Tiles, role : Role])
  /\ InitAttached \subseteq Ctrl \X Tiles
  /\ AllocFlags \subseteq SUBSET {"HOST", "DEV"}
  /\ WarnedMoves \in BOOLEAN
  /\ MaxJobs \in Nat

VARIABLES
  jobs,               \* every job pushed, in push order
  queue,              \* entries of each host queue not yet taken
  main,               \* what the main thread is doing
  attached,           \* <<c, t>> whose p_impls[c].type is not CTRL_TYPE_NULL
  mode,               \* dependance_mode of each ctrl
  host_status, device_status,
  last_host_read, last_host_write,       \* events of a tile
  last_kernel_read, last_kernel_write,   \* host and device events of a tile
  last_htd, last_dth,                    \* on a ctrl
  host_seq, dev_seq,  \* events of a ctrl's last job under the SYNC policy
  captured,           \* device events handed to a driver stream for its
                      \* next job
  issued,             \* jobs issued, and what the driver runs each after
  seen,               \* for each job started, the versions it found
  done,               \* jobs finished
  mem                 \* version in each buffer: the job that produced it

hostEvents == <<last_host_read, last_host_write>>
kernelEvents == <<last_kernel_read, last_kernel_write>>
tileVars == <<attached, host_status, device_status, hostEvents, kernelEvents,
              last_htd, last_dth>>
seqVars == <<host_seq, dev_seq>>
driverVars == <<captured, issued>>
execVars == <<seen, done, mem>>
vars == <<jobs, queue, main, mode, tileVars, seqVars, driverVars, execVars>>
-----------------------------------------------------------------------------
Idle == [pc |-> "idle", ctrl |-> Host, stream |-> HostStream, args |-> <<>>,
         arg |-> 1, events |-> {}, scope |-> {}]

Ins(args)  == {args[i].tile : i \in {j \in DOMAIN args : args[j].role # "OUT"}}
Outs(args) == {args[i].tile : i \in {j \in DOMAIN args : args[j].role # "IN"}}

ValidImpls(t) == {c \in Ctrl : device_status[<<c, t>>] = "VALID"}
First(S)      == CHOOSE c \in S : \A d \in S : c <= d

Started == DOMAIN seen
Unfinished == DOMAIN jobs \ done

\* Mutant: the event points one task too far.
TicketSkips == Len(jobs) + 2

\* The number of the next job, and so the event of it.
Ticket == Len(jobs) + 1

\* What a host queue holds: WAITEVENTs on a host event or on a device event,
\* and jobs.  A wait for an event that was never recorded is left out: it
\* passes at once.
HostWait(n) == IF n = 0 THEN <<>> ELSE << <<"host", n>> >>
DevWait(n)  == IF n = 0 THEN <<>> ELSE << <<"dev", n>> >>
Both(n)     == HostWait(n) \o DevWait(n)

Enqueue(s, entries) == [queue EXCEPT ![s] = @ \o entries]

\* The waits of every ctrl, one ctrl after the other.
ForEachCtrl(waits) == FlattenSeq([i \in 1 .. NCtrls |-> waits[i - 1]])

\* Mutant: the SYNC policy does not wait.
SyncWaitNever == <<>>

\* Events of every ctrl, waited for under the SYNC policy only.
SyncWait ==
  IF Policy = "SYNC"
  THEN ForEachCtrl([c \in Ctrl |->
                      HostWait(host_seq[c]) \o DevWait(dev_seq[c])])
  ELSE <<>>

\* A push on stream s, behind the WAITEVENTs "waits".
Push(s, reads, writes, waits) ==
  /\ jobs' = Append(jobs, [stream |-> s, reads |-> reads, writes |-> writes])
  /\ queue' = Enqueue(s, waits \o << <<"job", Ticket>> >>)

\* Recording a host event on a stream yields the last job pushed there.
JobsOn(s) == {n \in DOMAIN jobs : jobs[n].stream = s}
LastOn(s) == IF JobsOn(s) = {} THEN 0
             ELSE CHOOSE n \in JobsOn(s) : \A m \in JobsOn(s) : m <= n

IsOpenCL(c) == Kind[c] \in {"OPENCL_GPU", "FPGA"}

RecordSeq(c, host, dev) ==
  /\ host_seq' = IF Policy = "SYNC" THEN [host_seq EXCEPT ![c] = host]
                                    ELSE host_seq
  /\ dev_seq' = IF Policy = "SYNC" THEN [dev_seq EXCEPT ![c] = dev]
                                   ELSE dev_seq
-----------------------------------------------------------------------------
(* Transfers, as the handlers of other tasks and the API call them.        *)

\* Mutant: a transfer to a device does not wait for those from a device.
MoveToWaitNone(t) == <<>>

\* Mutant: the event is recorded before the waits are enqueued.
MoveToWaitSelf(t) == ForEachCtrl([i \in Ctrl |-> Both(Ticket)])

\* The events Ctrl_MoveToWait and Ctrl_MoveFromWait enqueue for every ctrl.
MoveToWait(t)   == ForEachCtrl([i \in Ctrl |-> Both(last_dth[<<i, t>>])])
MoveFromWait(t) == ForEachCtrl([i \in Ctrl |-> Both(last_htd[<<i, t>>])])

\* CUDA and HIP record the queue of the other direction.
HostSeqOfMoveTo(c)   == IF IsOpenCL(c) THEN Ticket ELSE LastOn(Dth(c))
HostSeqOfMoveFrom(c) == IF IsOpenCL(c) THEN Ticket ELSE LastOn(Htd(c))

MoveToInner(c, t) ==
  /\ Push(Htd(c), {<<Host, t>>}, {<<c, t>>},
          MoveToWait(t)
            \o HostWait(last_kernel_read[<<c, t>>])
            \o HostWait(last_kernel_write[<<c, t>>])
            \o HostWait(last_host_write[t])
            \o DevWait(last_kernel_read[<<c, t>>])
            \o DevWait(last_kernel_write[<<c, t>>])
            \o SyncWait)
  /\ last_htd' = [last_htd EXCEPT ![<<c, t>>] = Ticket]
  /\ RecordSeq(c, HostSeqOfMoveTo(c), Ticket)
  /\ host_status' = [host_status EXCEPT ![t] = "VALID"]
  /\ device_status' = [device_status EXCEPT ![<<c, t>>] = "VALID"]
  /\ UNCHANGED <<attached, hostEvents, kernelEvents, last_dth, mode,
                 driverVars, execVars>>

\* The device event kept for the SYNC policy is that of the last transfer in
\* the other direction, on every kind of ctrl.
MoveFromInner(c, t) ==
  /\ Push(Dth(c), {<<c, t>>}, {<<Host, t>>},
          MoveFromWait(t)
            \o HostWait(last_kernel_write[<<c, t>>])
            \o HostWait(last_host_read[t])
            \o HostWait(last_host_write[t])
            \o DevWait(last_kernel_write[<<c, t>>])
            \o SyncWait)
  /\ last_dth' = [last_dth EXCEPT ![<<c, t>>] = Ticket]
  /\ RecordSeq(c, HostSeqOfMoveFrom(c), last_htd[<<c, t>>])
  /\ host_status' = [host_status EXCEPT ![t] = "VALID"]
  /\ device_status' = [device_status EXCEPT ![<<c, t>>] = "VALID"]
  /\ UNCHANGED <<attached, hostEvents, kernelEvents, last_htd, mode,
                 driverVars, execVars>>
-----------------------------------------------------------------------------
(* The API calls of the main thread.  A call starts when it is idle.       *)

CanCall == main.pc = "idle" /\ Len(jobs) < MaxJobs

\* An explicit transfer happens unless both copies are valid already.
NeedsTransfer(c, t) ==
  \/ host_status[t] # "VALID"
  \/ device_status[<<c, t>>] # "VALID"
  \/ mode[c] = "EXPLICIT"

BothAllocated(c, t) ==
  host_status[t] # "UNALLOC" /\ device_status[<<c, t>>] # "UNALLOC"

MoveTo(c, t) ==
  /\ CanCall
  /\ BothAllocated(c, t)
  /\ NeedsTransfer(c, t)
  /\ host_status[t] = "INVALID" => WarnedMoves
  /\ MoveToInner(c, t)
  /\ UNCHANGED main

MoveFrom(c, t) ==
  /\ CanCall
  /\ BothAllocated(c, t)
  /\ NeedsTransfer(c, t)
  /\ device_status[<<c, t>>] = "INVALID" => WarnedMoves
  /\ MoveFromInner(c, t)
  /\ UNCHANGED main

\* Launching a kernel: arguments are taken one by one (actions KernelArg...).
KernelLaunch(c, s, args) ==
  /\ CanCall
  /\ \A i \in DOMAIN args : device_status[<<c, args[i].tile>>] # "UNALLOC"
  /\ main' = [Idle EXCEPT !.pc = "kernel", !.ctrl = c, !.stream = s,
                          !.args = args]
  /\ UNCHANGED <<jobs, queue, mode, tileVars, seqVars, driverVars, execVars>>

LaunchHostTask(args) ==
  /\ CanCall
  /\ \A i \in DOMAIN args : host_status[args[i].tile] # "UNALLOC"
  /\ main' = [Idle EXCEPT !.pc = "hosttask", !.args = args]
  /\ UNCHANGED <<jobs, queue, mode, tileVars, seqVars, driverVars, execVars>>

\* Mutant: the loop over the arguments does not advance.
NextArgForgotten == main

\* The next iteration of the loop over the arguments.
NextArg == [main EXCEPT !.arg = @ + 1]

\* The argument a launch is looking at, once it has one left.
ArgLeft(p) == main.pc = p /\ main.arg <= Len(main.args)
ArgTile == main.args[main.arg].tile
ArgRole == main.args[main.arg].role

\* The input of a kernel must reach the device, through the host.
KernelArgStale(c, t) ==
  /\ ArgRole # "OUT"
  /\ device_status[<<c, t>>] = "INVALID"
  /\ host_status[t] # "UNALLOC"
  /\ mode[c] = "IMPLICIT"

\* The input of a kernel is on another device only: bring it to the host.
KernelArgFetch ==
  /\ ArgLeft("kernel")
  /\ KernelArgStale(main.ctrl, ArgTile)
  /\ host_status[ArgTile] = "INVALID"
  /\ ValidImpls(ArgTile) # {}
  /\ MoveFromInner(First(ValidImpls(ArgTile)), ArgTile)
  /\ UNCHANGED main

KernelArgSend ==
  /\ ArgLeft("kernel")
  /\ KernelArgStale(main.ctrl, ArgTile)
  /\ host_status[ArgTile] = "INVALID" => ValidImpls(ArgTile) = {}
  /\ MoveToInner(main.ctrl, ArgTile)
  /\ UNCHANGED main

\* Transfers of the tile matter to a kernel unless its device holds the only
\* valid copy.
TransfersMatter(c, t) ==
  /\ host_status[t] # "UNALLOC"
  /\ ~(device_status[<<c, t>>] = "VALID" /\ host_status[t] = "INVALID")

\* Mutant: a kernel does not wait for the transfer that fills its input.
KernelWaitNoHtd(c, t, role) ==
  IF role # "IN" /\ TransfersMatter(c, t) THEN Both(last_dth[<<c, t>>])
  ELSE <<>>

\* Mutant: a kernel overwrites its device buffer while it is being sent.
KernelWaitNoDth(c, t, role) ==
  (IF NKernelStreams[c] # 1 THEN Both(last_kernel_write[<<c, t>>]) ELSE <<>>)
    \o (IF TransfersMatter(c, t) THEN Both(last_htd[<<c, t>>]) ELSE <<>>)
    \o (IF role # "IN" /\ NKernelStreams[c] # 1
        THEN Both(last_kernel_read[<<c, t>>]) ELSE <<>>)

\* The waits of a kernel, for one argument.  Kernels of the ctrl need no
\* events between them when it has one kernel stream.
KernelWait(c, t, role) ==
  (IF NKernelStreams[c] # 1 THEN Both(last_kernel_write[<<c, t>>]) ELSE <<>>)
    \o (IF TransfersMatter(c, t) THEN Both(last_htd[<<c, t>>]) ELSE <<>>)
    \o (IF role # "IN" /\ NKernelStreams[c] # 1
        THEN Both(last_kernel_read[<<c, t>>]) ELSE <<>>)
    \o (IF role # "IN" /\ TransfersMatter(c, t)
        THEN Both(last_dth[<<c, t>>]) ELSE <<>>)

KernelArgWait ==
  /\ ArgLeft("kernel")
  /\ ~KernelArgStale(main.ctrl, ArgTile)
  /\ queue' = Enqueue(main.stream, KernelWait(main.ctrl, ArgTile, ArgRole))
  /\ main' = NextArg
  /\ UNCHANGED <<jobs, mode, tileVars, seqVars, driverVars, execVars>>

\* Mutant: the copies a task makes stale are not invalidated.
InvalidateDevicesNot(written) == device_status

\* Device statuses once every valid copy of the written tiles is invalid.
InvalidateDevices(written) ==
  [ct \in Ctrl \X Tiles |->
     IF ct[2] \in written /\ device_status[ct] = "VALID"
     THEN "INVALID" ELSE device_status[ct]]

\* Every argument was looked at: push the kernel, update statuses and events.
KernelPush ==
  LET c    == main.ctrl
      ins  == Ins(main.args)
      outs == Outs(main.args)
  IN /\ main.pc = "kernel"
     /\ main.arg > Len(main.args)
     /\ Push(main.stream, {<<c, t>> : t \in ins}, {<<c, t>> : t \in outs},
             SyncWait)
     /\ device_status' = [ct \in Ctrl \X Tiles |->
          IF ct[1] = c /\ ct[2] \in outs
          THEN "VALID" ELSE InvalidateDevices(outs)[ct]]
     /\ host_status' = [t \in Tiles |->
          IF t \in outs /\ host_status[t] = "VALID"
          THEN "INVALID" ELSE host_status[t]]
     /\ last_kernel_write' = [ct \in Ctrl \X Tiles |->
          IF ct[1] = c /\ ct[2] \in outs
          THEN Ticket ELSE last_kernel_write[ct]]
     /\ last_kernel_read' = [ct \in Ctrl \X Tiles |->
          IF ct[1] = c /\ ct[2] \in ins
          THEN Ticket ELSE last_kernel_read[ct]]
     /\ RecordSeq(c, Ticket, Ticket)
     /\ main' = Idle
     /\ UNCHANGED <<attached, hostEvents, last_htd, last_dth, mode,
                    driverVars, execVars>>

\* Devices whose valid copy an input of a host task is fetched from.
FetchImpls(t) == {c \in ValidImpls(t) : mode[c] = "IMPLICIT"}
HostTaskStale(t) ==
  ArgRole # "OUT" /\ host_status[t] = "INVALID" /\ FetchImpls(t) # {}

HostTaskFetch ==
  /\ ArgLeft("hosttask")
  /\ HostTaskStale(ArgTile)
  /\ MoveFromInner(First(FetchImpls(ArgTile)), ArgTile)
  /\ UNCHANGED main

\* Mutant: a user of host memory does not wait for the transfer that fills it.
HostTaskWaitNoDth(c, t, role) ==
  IF role # "IN" THEN Both(last_htd[<<c, t>>]) ELSE <<>>

\* Events of a ctrl a task using host memory waits for, for one argument.
HostTaskWait(c, t, role) ==
  Both(last_dth[<<c, t>>])
    \o (IF role # "IN" THEN Both(last_htd[<<c, t>>]) ELSE <<>>)

HostTaskArgWait ==
  LET t == ArgTile
      written == {u \in {t} : ArgRole # "IN"}
  IN /\ ArgLeft("hosttask")
     /\ ~HostTaskStale(t)
     /\ queue' = Enqueue(HostStream,
          ForEachCtrl([c \in Ctrl |-> HostTaskWait(c, t, ArgRole)])
            \o HostWait(last_host_write[t])
            \o (IF ArgRole # "IN" THEN HostWait(last_host_read[t]) ELSE <<>>))
     /\ device_status' = InvalidateDevices(written)
     /\ host_status' = [u \in Tiles |->
          IF u \in written THEN "VALID" ELSE host_status[u]]
     /\ main' = NextArg
     /\ UNCHANGED <<jobs, mode, attached, hostEvents, kernelEvents, last_htd,
                    last_dth, seqVars, driverVars, execVars>>

\* Under the SYNC policy the main thread then waits for the task itself.
HostTaskPush ==
  LET ins  == Ins(main.args)
      outs == Outs(main.args)
  IN /\ main.pc = "hosttask"
     /\ main.arg > Len(main.args)
     /\ Push(HostStream, {<<Host, t>> : t \in ins},
             {<<Host, t>> : t \in outs}, SyncWait)
     /\ last_host_write' = [t \in Tiles |->
          IF t \in outs THEN Ticket ELSE last_host_write[t]]
     /\ last_host_read' = [t \in Tiles |->
          IF t \in ins THEN Ticket ELSE last_host_read[t]]
     /\ main' = IF Policy = "SYNC"
                THEN [Idle EXCEPT !.pc = "wait", !.events = {Ticket},
                                  !.scope = {Ticket}]
                ELSE Idle
     /\ UNCHANGED <<attached, host_status, device_status, kernelEvents,
                    last_htd, last_dth, mode, seqVars, driverVars, execVars>>
-----------------------------------------------------------------------------
(* Calls that block the main thread.                                       *)

\* Mutant: the transfers back to the host are not waited for.
TileEventsNoDth(c, t) ==
  {last_host_read[t], last_host_write[t], last_kernel_read[<<c, t>>],
   last_kernel_write[<<c, t>>], last_htd[<<c, t>>]}

\* The events of tile t that ctrl c keeps, the host's included.
TileEvents(c, t) ==
  {last_host_read[t], last_host_write[t], last_kernel_read[<<c, t>>],
   last_kernel_write[<<c, t>>], last_htd[<<c, t>>], last_dth[<<c, t>>]}

\* The event of the last task on the host queue.
HostQueueEvent == {LastOn(HostStream)}

\* Jobs of ctrl c and host tasks that touch tile t.
JobsOf(c, t) ==
  {n \in DOMAIN jobs :
     /\ jobs[n].stream[1] \in {c, Host}
     /\ \E b \in jobs[n].reads \cup jobs[n].writes : b[2] = t}

\* "scope" is a history value: the jobs issued so far that the call is about.
\* Each host event waited for is followed by the device event of the same
\* job, so waiting for both is waiting for the job to be done.
Block(call, events, scope) ==
  /\ main.pc = "idle"
  /\ main' = [Idle EXCEPT !.pc = call, !.events = events \ {0},
                          !.scope = scope]
  /\ UNCHANGED <<jobs, queue, mode, tileVars, seqVars, driverVars, execVars>>

WaitTile(c, t) ==
  /\ <<c, t>> \in attached
  /\ Block("waitTile", TileEvents(c, t), JobsOf(c, t))

TilesOf(c) == {t \in Tiles : <<c, t>> \in attached}

GlobalSync(c) ==
  Block("globalSync", UNION {TileEvents(c, t) : t \in TilesOf(c)},
        UNION {JobsOf(c, t) : t \in TilesOf(c)})

Synchronize ==
  Block("synchronize",
        HostQueueEvent \cup
          UNION {TileEvents(ct[1], ct[2]) : ct \in attached},
        DOMAIN jobs)

Blocked == {"wait", "waitTile", "globalSync", "synchronize"}

Unblock ==
  /\ main.pc \in Blocked
  /\ main.events \subseteq done
  /\ main' = Idle
  /\ UNCHANGED <<jobs, queue, mode, tileVars, seqVars, driverVars, execVars>>
-----------------------------------------------------------------------------
(* Allocation and mode.                                                    *)

\* Attaching a tile to a ctrl creates its events there; those of the host
\* were created with the tile.
AllocTile(c, t, flags) ==
  LET init == <<c, t>> \notin attached
      Fresh(ev) == IF init THEN [ev EXCEPT ![<<c, t>>] = 0] ELSE ev
      wantsHost == "HOST" \in flags \/ "DEV" \notin flags
      wantsDev  == "DEV" \in flags \/ "HOST" \notin flags
  IN /\ CanCall
     /\ attached' = attached \cup {<<c, t>>}
     /\ last_kernel_read' = Fresh(last_kernel_read)
     /\ last_kernel_write' = Fresh(last_kernel_write)
     /\ last_htd' = Fresh(last_htd)
     /\ last_dth' = Fresh(last_dth)
     /\ host_status' = IF wantsHost /\ host_status[t] = "UNALLOC"
                       THEN [host_status EXCEPT ![t] = "INVALID"]
                       ELSE host_status
     /\ device_status' = IF wantsDev /\ device_status[<<c, t>>] = "UNALLOC"
                         THEN [device_status EXCEPT ![<<c, t>>] = "INVALID"]
                         ELSE device_status
     /\ UNCHANGED <<jobs, queue, main, mode, hostEvents, seqVars, driverVars,
                    execVars>>

SetDependanceMode(c, m) ==
  /\ CanCall
  /\ mode' = [mode EXCEPT ![c] = m]
  /\ UNCHANGED <<jobs, queue, main, tileVars, seqVars, driverVars, execVars>>
-----------------------------------------------------------------------------
(* The queue manager.  It polls the queues in turn and never blocks; what  *)
(* it does in one turn may be put off any number of turns by a queue whose *)
(* head must wait, so the model lets it look at any queue next.            *)

Taken(s) == [queue EXCEPT ![s] = Tail(@)]
HeadIs(s, kind) == queue[s] # <<>> /\ Head(queue[s])[1] = kind
HeadJob(s) == Head(queue[s])[2]

\* Mutant: the event counts as recorded when the job is only queued.
HostDoneEarly(n) == TRUE

\* A host event: last_finished of the queue has passed the job, which for a
\* driver means that it is issued.
HostDone(n) == IF jobs[n].stream = HostStream THEN n \in done
                                              ELSE n \in DOMAIN issued

\* The driver of ctrl c can wait for the device events of the job's ctrl.
Compatible(c, n) ==
  LET d == jobs[n].stream[1]
  IN IF IsOpenCL(c) THEN c = d ELSE Kind[c] = Kind[d]

PassHostWait(s) ==
  /\ s # HostStream
  /\ HeadIs(s, "host")
  /\ HostDone(HeadJob(s))
  /\ queue' = Taken(s)
  /\ UNCHANGED <<jobs, main, mode, tileVars, seqVars, driverVars, execVars>>

\* The wait moves to the driver.  An event that no job was issued for yet is
\* no reason to wait.
CaptureDevWait(s) ==
  /\ s # HostStream
  /\ HeadIs(s, "dev")
  /\ Compatible(s[1], HeadJob(s))
  /\ captured' = [captured EXCEPT
                    ![s] = @ \cup ({HeadJob(s)} \cap DOMAIN issued)]
  /\ queue' = Taken(s)
  /\ UNCHANGED <<jobs, main, mode, tileVars, seqVars, issued, execVars>>

\* The driver does not know the event: the queue manager tests it.
TestDevWait(s) ==
  /\ s # HostStream
  /\ HeadIs(s, "dev")
  /\ ~Compatible(s[1], HeadJob(s))
  /\ HeadJob(s) \in DOMAIN issued => HeadJob(s) \in done
  /\ queue' = Taken(s)
  /\ UNCHANGED <<jobs, main, mode, tileVars, seqVars, driverVars, execVars>>

IssueJob(s) ==
  /\ s # HostStream
  /\ HeadIs(s, "job")
  /\ issued' = [n \in DOMAIN issued \cup {HeadJob(s)} |->
                  IF n = HeadJob(s) THEN captured[s] ELSE issued[n]]
  /\ captured' = [captured EXCEPT ![s] = {}]
  /\ queue' = Taken(s)
  /\ UNCHANGED <<jobs, main, mode, tileVars, seqVars, execVars>>

QueueManager(s) ==
  PassHostWait(s) \/ CaptureDevWait(s) \/ TestDevWait(s) \/ IssueJob(s)
-----------------------------------------------------------------------------
(* Execution: by the driver streams and by the host task thread.           *)

\* The host task thread waits for an event itself, whatever its kind.
HostThreadWait ==
  LET s == HostStream
  IN /\ \/ HeadIs(s, "host") /\ HostDone(HeadJob(s))
        \/ /\ HeadIs(s, "dev")
           /\ HeadJob(s) \in DOMAIN issued => HeadJob(s) \in done
     /\ queue' = Taken(s)
     /\ UNCHANGED <<jobs, main, mode, tileVars, seqVars, driverVars, execVars>>

\* A driver stream executes what was issued to it in order, each job after
\* the events handed over before it.
DriverReady(n) ==
  /\ n \in DOMAIN issued
  /\ \A m \in DOMAIN issued :
       m < n /\ jobs[m].stream = jobs[n].stream => m \in done
  /\ issued[n] \subseteq done
HostReady(n) == HeadIs(HostStream, "job") /\ HeadJob(HostStream) = n
CanStart(n) == n \notin Started /\ (DriverReady(n) \/ HostReady(n))

StartJob(n) ==
  /\ CanStart(n)
  /\ seen' = [m \in Started \cup {n} |->
                IF m = n THEN [b \in jobs[n].reads |-> mem[b]] ELSE seen[m]]
  /\ UNCHANGED <<jobs, queue, main, mode, tileVars, seqVars, driverVars, done,
                 mem>>

\* Kernels and host tasks produce a version of their own; a transfer copies.
IsTask(n) == jobs[n].stream[2] \in {"kernel", "host"}
Result(n) == IF IsTask(n) THEN n
             ELSE seen[n][CHOOSE b \in jobs[n].reads : TRUE]

FinishJob(n) ==
  /\ n \in Started \ done
  /\ done' = done \cup {n}
  /\ mem' = [b \in Buffer |-> IF b \in jobs[n].writes THEN Result(n)
                                                     ELSE mem[b]]
  /\ queue' = IF jobs[n].stream = HostStream THEN Taken(HostStream) ELSE queue
  /\ UNCHANGED <<jobs, main, mode, tileVars, seqVars, driverVars, seen>>

StreamStep(s) ==
  \E n \in DOMAIN jobs : jobs[n].stream = s /\ (StartJob(n) \/ FinishJob(n))
-----------------------------------------------------------------------------
InitHost(t) == IF \E c \in Ctrl : <<c, t>> \in InitAttached
               THEN "INVALID" ELSE "UNALLOC"
NoEvents == [t \in Tiles |-> 0]
NoImplEvents == [ct \in Ctrl \X Tiles |-> 0]

Init ==
  /\ jobs = <<>>
  /\ queue = [s \in Stream |-> <<>>]
  /\ main = Idle
  /\ attached = InitAttached
  /\ mode \in [Ctrl -> Modes]
  /\ host_status = [t \in Tiles |-> InitHost(t)]
  /\ device_status = [ct \in Ctrl \X Tiles |->
                        IF ct \in InitAttached THEN "INVALID" ELSE "UNALLOC"]
  /\ last_host_read = NoEvents
  /\ last_host_write = NoEvents
  /\ last_kernel_read = NoImplEvents
  /\ last_kernel_write = NoImplEvents
  /\ last_htd = NoImplEvents
  /\ last_dth = NoImplEvents
  /\ host_seq = [c \in Ctrl |-> 0]
  /\ dev_seq = [c \in Ctrl |-> 0]
  /\ captured = [s \in DriverStream |-> {}]
  /\ issued = <<>>
  /\ seen = <<>>
  /\ done = {}
  /\ mem = [b \in Buffer |-> 0]

Call ==
  \/ \E c \in Ctrl, t \in Tiles : \/ MoveTo(c, t)
                                  \/ MoveFrom(c, t)
                                  \/ WaitTile(c, t)
  \/ \E c \in Ctrl, t \in Tiles, flags \in AllocFlags : AllocTile(c, t, flags)
  \/ \E c \in Ctrl, args \in Accesses :
       \E s \in KernelStreams(c) : KernelLaunch(c, s, args)
  \/ \E args \in Accesses : LaunchHostTask(args)
  \/ \E c \in Ctrl : GlobalSync(c)
  \/ \E c \in Ctrl, m \in Modes : SetDependanceMode(c, m)
  \/ Synchronize

\* What the main thread does inside a call it has started.
Continue ==
  \/ KernelArgFetch
  \/ KernelArgSend
  \/ KernelArgWait
  \/ KernelPush
  \/ HostTaskFetch
  \/ HostTaskArgWait
  \/ HostTaskPush
  \/ Unblock

Next ==
  \/ Call
  \/ Continue
  \/ \E s \in DriverStream : QueueManager(s)
  \/ HostThreadWait
  \/ \E s \in Stream : StreamStep(s)

\* The queue manager looks at every queue again and again; the other threads
\* and the streams of the driver are not suspended for ever.
Fairness ==
  /\ WF_vars(Continue)
  /\ WF_vars(HostThreadWait)
  /\ \A s \in DriverStream : WF_vars(QueueManager(s))
  /\ \A s \in Stream : WF_vars(StreamStep(s))

Spec == Init /\ [][Next]_vars /\ Fairness
-----------------------------------------------------------------------------
(* Properties.                                                             *)

Job == [stream : Stream, reads : SUBSET Buffer, writes : SUBSET Buffer]
Entry == {"host", "dev", "job"} \X DOMAIN jobs
MainState ==
  [pc : {"idle", "kernel", "hosttask"} \cup Blocked,
   ctrl : Ctrl \cup {Host}, stream : Stream, args : Accesses \cup {<<>>},
   arg : Nat, events : SUBSET Nat, scope : SUBSET Nat]
HostEventTable == [Tiles -> 0 .. Len(jobs)]
ImplEventTable == [Ctrl \X Tiles -> 0 .. Len(jobs)]

\* Every variable has its type, and every event or queue entry names a job
\* already pushed.
TypeOK ==
  /\ jobs \in Seq(Job)
  /\ queue \in [Stream -> Seq(Entry)]
  /\ main \in MainState
  /\ attached \subseteq Ctrl \X Tiles
  /\ mode \in [Ctrl -> Modes]
  /\ host_status \in [Tiles -> Status]
  /\ device_status \in [Ctrl \X Tiles -> Status]
  /\ last_host_read \in HostEventTable
  /\ last_host_write \in HostEventTable
  /\ last_kernel_read \in ImplEventTable
  /\ last_kernel_write \in ImplEventTable
  /\ last_htd \in ImplEventTable
  /\ last_dth \in ImplEventTable
  /\ host_seq \in [Ctrl -> 0 .. Len(jobs)]
  /\ dev_seq \in [Ctrl -> 0 .. Len(jobs)]
  /\ captured \in [DriverStream -> SUBSET DOMAIN issued]
  /\ DOMAIN issued \subseteq DOMAIN jobs
  /\ \A n \in DOMAIN issued : issued[n] \subseteq DOMAIN issued
  /\ Started \subseteq DOMAIN jobs
  /\ done \subseteq Started
  /\ mem \in [Buffer -> 0 .. Len(jobs)]

\* A device event is handed to a driver, tested or waited for by a thread
\* only after the job that records it was issued: the host event ahead of it
\* on the queue sees to that.  CUDA would not wait at all for an event that
\* is not recorded, OpenCL would read a cl_event never assigned.
EventsIssuedBeforeWaits ==
  \A s \in Stream :
    HeadIs(s, "dev") => HeadJob(s) \in DOMAIN issued

\* No wait of a queue is for a job behind it on the same queue or on queues
\* that wait for one another: while a job is unfinished, some thread or
\* stream can go on.
NoDeadlock ==
  Unfinished # {} =>
    \/ \E n \in DOMAIN jobs : n \in Started \ done \/ CanStart(n)
    \/ \E s \in Stream :
         \/ HeadIs(s, "job") /\ s # HostStream
         \/ HeadIs(s, "host") /\ HostDone(HeadJob(s))
         \/ /\ HeadIs(s, "dev")
            /\ \/ s # HostStream /\ Compatible(s[1], HeadJob(s))
               \/ HeadJob(s) \in DOMAIN issued => HeadJob(s) \in done

Conflict(m, n) ==
  \/ jobs[m].writes \cap (jobs[n].reads \cup jobs[n].writes) # {}
  \/ jobs[m].reads \cap jobs[n].writes # {}

\* No data race and no reordering: a job runs only when every job pushed
\* before it that touches the same buffer, one of them writing, has finished.
DependencesHonoured ==
  \A n \in Started : \A m \in 1 .. n - 1 : Conflict(m, n) => m \in done

IsKernel(n)   == jobs[n].stream[2] = "kernel"
IsMoveFrom(n) == jobs[n].stream[2] = "dth"

\* The pairs of jobs the code leaves unordered: a writer behind a kernel of
\* another stream that only reads, whose event a later reader may have
\* replaced, and transfers of one tile from two devices.
Unordered(m, n) ==
  \/ /\ IsKernel(m)
     /\ jobs[m].stream # jobs[n].stream
     /\ jobs[m].writes \cap (jobs[n].reads \cup jobs[n].writes) = {}
  \/ IsMoveFrom(m) /\ IsMoveFrom(n)

\* DependencesHonoured for every other pair of jobs: with several kernel
\* streams, several ctrls of any kind, and in both dependance modes.
DependencesHonouredButUnordered ==
  \A n \in Started : \A m \in 1 .. n - 1 :
    Conflict(m, n) /\ ~Unordered(m, n) => m \in done

\* Tasks launched on tiles, and what each found in them.
TilesIn(buffers) == {b[2] : b \in buffers}
TaskNumbers == {n \in DOMAIN jobs : IsTask(n)}
TaskProgram ==
  [n \in TaskNumbers |-> [reads |-> TilesIn(jobs[n].reads),
                          writes |-> TilesIn(jobs[n].writes)]]
Observed ==
  [n \in TaskNumbers \cap Started |->
     [t \in TilesIn(jobs[n].reads) |->
        seen[n][CHOOSE b \in jobs[n].reads : b[2] = t]]]

Dataflow == INSTANCE TileDataflow WITH prog <- TaskProgram, obs <- Observed

\* In IMPLICIT mode the runtime is a correct asynchronous execution of the
\* sequence of launches: every task finds the results it would find if each
\* launch were a call, whatever the driver overlaps.
ImplementsDataflow == Dataflow!Spec

LatestVersion(t) == Dataflow!LastWriter(Len(jobs) + 1, t)

\* The statuses tell the truth: when nothing is in flight, a copy marked
\* VALID holds the latest version, and a tile ever written has such a copy.
CoherentAtRest ==
  main.pc = "idle" /\ Unfinished = {} =>
    \A t \in Tiles :
      /\ host_status[t] = "VALID" => mem[<<Host, t>>] = LatestVersion(t)
      /\ \A c \in ValidImpls(t) : mem[<<c, t>>] = LatestVersion(t)
      /\ LatestVersion(t) # 0 =>
           host_status[t] = "VALID" \/ ValidImpls(t) # {}

\* CTRL_POLICY_SYNC: "no task overlapping".
NoOverlap ==
  Policy = "SYNC" => \A m, n \in Started \ done : m = n

\* What is left of it: two jobs overlap only when one of the earlier and those
\* between is a transfer from a device, which loses the order of the sequence.
NoOverlapButMoveFrom ==
  Policy = "SYNC" =>
    \A m, n \in Started \ done : m < n => \E k \in m .. n - 1 : IsMoveFrom(k)

Returns(calls) == main.pc \in calls /\ main'.pc = "idle"

\* Ctrl_WaitTile and Ctrl_GlobalSync "wait for all operations involving" the
\* tile(s) "to end": those of that ctrl and of the host.
TileWaitsComplete ==
  [][Returns({"waitTile", "globalSync"}) => main.scope \subseteq done]_vars

\* Ctrl_Synchronize: "Wait for all operations to finish".
SynchronizeCompletes ==
  [][Returns({"synchronize"}) => main.scope \subseteq done]_vars

\* Every job the main thread pushes is issued and executed to its end,
\* whatever events it waits for and however the queues are polled.
JobsFinish ==
  \A n \in 1 .. MaxJobs : n \in DOMAIN jobs ~> n \in done

\* Every call of the API returns.
CallsReturn == main.pc # "idle" ~> main.pc = "idle"
=============================================================================
