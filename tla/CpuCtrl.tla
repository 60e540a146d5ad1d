------------------------------- MODULE CpuCtrl -------------------------------
(***************************************************************************)
(* The runtime of the Controllers library when every ctrl is a CPU ctrl:   *)
(* the main thread turns calls of the API into jobs pushed on in-order     *)
(* streams, and orders jobs of different streams with the events it keeps  *)
(* for each tile (Ctrl/src/Architectures/Cpu/Ctrl_Cpu.c and the host-task  *)
(* part of Ctrl/src/Core/Ctrl_Core.c).                                     *)
(*                                                                         *)
(* A job is a KERNEL, HOST, MOVETO or MOVEFROM task.  Every push comes     *)
(* from the main thread, so jobs are numbered in the order of their pushes *)
(* and an event is the number of the job it records (0: stream NULL).      *)
(* WAITEVENT tasks are the set of events a stream must see finished before *)
(* its next job (module TaskQueue has the queue itself, slot by slot).     *)
(***************************************************************************)
EXTENDS Integers, Sequences, FiniteSets

CONSTANTS
  NCtrls,        \* Ctrl_GetNCtrls()
  Tiles,         \* the tiles of the program
  MemMoves,      \* mem_moves of each ctrl: FALSE is a zero-copy ctrl
  Policy,        \* "SYNC" or "ASYNC"
  Modes,         \* dependance modes the program may select
  Accesses,      \* argument lists the program launches tasks with
  InitAttached,  \* <<c, t>>: tile t is allocated on c when the model starts
  AllocFlags,    \* flag sets the program calls Ctrl_Alloc with
  WarnedMoves,   \* may the program move from an invalid copy (a warning)?
  MaxJobs        \* bound: no call is made once this many jobs were pushed

Ctrl == 0 .. NCtrls - 1
Host == -1                     \* stands for the host where a ctrl is expected
HostStream == <<Host, "host">>
Stream == {HostStream} \cup (Ctrl \X {"kernel", "moveTo", "moveFrom"})
Buffer == (Ctrl \cup {Host}) \X Tiles
Role   == {"IN", "OUT", "IO"}
Status == {"UNALLOC", "INVALID", "VALID"}

ASSUME CpuCtrlAssumption ==
  /\ NCtrls \in Nat \ {0}
  /\ MemMoves \in [Ctrl -> BOOLEAN]
  /\ Policy \in {"SYNC", "ASYNC"}
  /\ Modes \subseteq {"IMPLICIT", "EXPLICIT"}
  /\ Accesses \subseteq Seq([tile : Tiles, role : Role])
  /\ InitAttached \subseteq Ctrl \X Tiles
  /\ AllocFlags \subseteq SUBSET {"HOST", "DEV"}
  /\ WarnedMoves \in BOOLEAN
  /\ MaxJobs \in Nat

VARIABLES
  jobs,               \* every job pushed, in push order
  pending,            \* WAITEVENTs on a stream behind its last job
  main,               \* what the main thread is doing
  attached,           \* <<c, t>> whose p_impls[c].type is not CTRL_TYPE_NULL
  mode,               \* dependance_mode of each ctrl
  host_status, device_status,
  last_host_read, last_host_write,       \* events of a tile
  last_kernel_read, last_kernel_write,   \* events of a tile on a ctrl
  last_htd, last_dth,
  seq_event,          \* event of a ctrl's last job under the SYNC policy
  seen,               \* for each job started, the versions it found
  done,               \* jobs finished
  mem                 \* version in each buffer: the job that produced it

hostEvents == <<last_host_read, last_host_write>>
kernelEvents == <<last_kernel_read, last_kernel_write>>
tileVars == <<attached, host_status, device_status, hostEvents, kernelEvents,
              last_htd, last_dth>>
ctrlVars == <<mode, seq_event>>
execVars == <<seen, done, mem>>
vars == <<jobs, pending, main, tileVars, ctrlVars, execVars>>
-----------------------------------------------------------------------------
Idle == [pc |-> "idle", ctrl |-> Host, args |-> <<>>, arg |-> 1,
         events |-> {}, scope |-> {}]

Ins(args)  == {args[i].tile : i \in {j \in DOMAIN args : args[j].role # "OUT"}}
Outs(args) == {args[i].tile : i \in {j \in DOMAIN args : args[j].role # "IN"}}

\* Where the tasks of ctrl c find tile t: a zero-copy ctrl uses host memory.
DeviceBuffer(c, t) == <<IF MemMoves[c] THEN c ELSE Host, t>>
HostBuffer(t) == <<Host, t>>

Impls(t)      == {c \in Ctrl : <<c, t>> \in attached}
ValidImpls(t) == {c \in Ctrl : device_status[<<c, t>>] = "VALID"}
First(S)      == CHOOSE c \in S : \A d \in S : c <= d

Started == DOMAIN seen
Unfinished == DOMAIN jobs \ done

\* Mutant: the event records the write index, one task too far.
TicketLate == Len(jobs) + 2

\* The number the next job gets; recording an event on a stream right after
\* a push there yields it.
Ticket == Len(jobs) + 1

\* Mutant: the SYNC policy does not wait.
SyncWaitNever == {}

\* Events of every ctrl, waited for under the SYNC policy only.
SyncWait == IF Policy = "SYNC" THEN {seq_event[c] : c \in Ctrl} ELSE {}

\* A push on stream s; the WAITEVENTs already there and "events" precede it.
Push(s, reads, writes, events) ==
  jobs' = Append(jobs, [stream |-> s, reads |-> reads, writes |-> writes,
                        waits |-> (pending[s] \cup events) \ {0}])

RecordSeq(c) ==
  seq_event' = IF Policy = "SYNC" THEN [seq_event EXCEPT ![c] = Ticket]
                                  ELSE seq_event
-----------------------------------------------------------------------------
(* Transfers, as the handlers of other tasks and the API call them.        *)

\* Mutant: a transfer to a device does not wait for those from a device.
MoveToWaitNone(t) == {}

\* The events Ctrl_MoveToWait and Ctrl_MoveFromWait enqueue for every ctrl.
MoveToWait(t)   == {last_dth[<<i, t>>] : i \in Impls(t)}
MoveFromWait(t) == {last_htd[<<i, t>>] : i \in Impls(t)}

MoveToInner(c, t) ==
  /\ Push(<<c, "moveTo">>, {HostBuffer(t)}, {DeviceBuffer(c, t)},
          MoveToWait(t)
            \cup {last_kernel_read[<<c, t>>], last_kernel_write[<<c, t>>],
                  last_host_write[t]}
            \cup SyncWait)
  /\ pending' = [pending EXCEPT ![<<c, "moveTo">>] = {}]
  /\ last_htd' = [last_htd EXCEPT ![<<c, t>>] = Ticket]
  /\ RecordSeq(c)
  /\ host_status' = [host_status EXCEPT ![t] = "VALID"]
  /\ device_status' = [device_status EXCEPT ![<<c, t>>] = "VALID"]
  /\ UNCHANGED <<attached, hostEvents, kernelEvents, last_dth, mode, execVars>>

\* The waits for the other transfers of the tile go to the moveTo stream.
MoveFromInner(c, t) ==
  /\ Push(<<c, "moveFrom">>, {DeviceBuffer(c, t)}, {HostBuffer(t)},
          {last_kernel_write[<<c, t>>], last_host_read[t], last_host_write[t]}
            \cup SyncWait)
  /\ pending' = [pending EXCEPT
                   ![<<c, "moveTo">>] = @ \cup (MoveFromWait(t) \ {0}),
                   ![<<c, "moveFrom">>] = {}]
  /\ last_dth' = [last_dth EXCEPT ![<<c, t>>] = Ticket]
  /\ RecordSeq(c)
  /\ host_status' = [host_status EXCEPT ![t] = "VALID"]
  /\ device_status' = [device_status EXCEPT ![<<c, t>>] = "VALID"]
  /\ UNCHANGED <<attached, hostEvents, kernelEvents, last_htd, mode, execVars>>
-----------------------------------------------------------------------------
(* The API calls of the main thread.  A call starts when it is idle.       *)

CanCall == main.pc = "idle" /\ Len(jobs) < MaxJobs

\* An explicit transfer happens unless both copies are valid already.
NeedsTransfer(c, t) ==
  \/ host_status[t] # "VALID"
  \/ device_status[<<c, t>>] # "VALID"
  \/ mode[c] = "EXPLICIT"

MoveTo(c, t) ==
  /\ CanCall
  /\ MemMoves[c]
  /\ host_status[t] # "UNALLOC"
  /\ device_status[<<c, t>>] # "UNALLOC"
  /\ NeedsTransfer(c, t)
  /\ host_status[t] = "INVALID" => WarnedMoves
  /\ MoveToInner(c, t)
  /\ UNCHANGED main

MoveFrom(c, t) ==
  /\ CanCall
  /\ MemMoves[c]
  /\ host_status[t] # "UNALLOC"
  /\ device_status[<<c, t>>] # "UNALLOC"
  /\ NeedsTransfer(c, t)
  /\ device_status[<<c, t>>] = "INVALID" => WarnedMoves
  /\ MoveFromInner(c, t)
  /\ UNCHANGED main

\* Launching a kernel: arguments are taken one by one (actions KernelArg...).
KernelLaunch(c, args) ==
  /\ CanCall
  /\ \A i \in DOMAIN args : IF MemMoves[c]
       THEN device_status[<<c, args[i].tile>>] # "UNALLOC"
       ELSE <<c, args[i].tile>> \in attached
              /\ host_status[args[i].tile] # "UNALLOC"
  /\ main' = [Idle EXCEPT !.pc = "kernel", !.ctrl = c, !.args = args]
  /\ UNCHANGED <<jobs, pending, tileVars, ctrlVars, execVars>>

LaunchHostTask(args) ==
  /\ CanCall
  /\ \A i \in DOMAIN args : host_status[args[i].tile] # "UNALLOC"
  /\ main' = [Idle EXCEPT !.pc = "hosttask", !.args = args]
  /\ UNCHANGED <<jobs, pending, tileVars, ctrlVars, execVars>>

\* Mutant: the loop over the arguments does not advance.
NextArgForgotten == main

\* The next iteration of the loop over the arguments.
NextArg == [main EXCEPT !.arg = @ + 1]

\* The argument a launch is looking at, once it has one left.
ArgLeft(p) == main.pc = p /\ main.arg <= Len(main.args)
ArgTile == main.args[main.arg].tile
ArgRole == main.args[main.arg].role

\* The input of a kernel must reach the device, through the host.
KernelArgStale(c, t) ==
  /\ MemMoves[c]
  /\ ArgRole # "OUT"
  /\ device_status[<<c, t>>] = "INVALID"
  /\ host_status[t] # "UNALLOC"
  /\ mode[c] = "IMPLICIT"

\* The input of a kernel is on another device only: bring it to the host.
KernelArgFetch ==
  /\ ArgLeft("kernel")
  /\ host_status[ArgTile] = "INVALID"
  /\ ValidImpls(ArgTile) # {}
  /\ \/ KernelArgStale(main.ctrl, ArgTile)
     \/ ~MemMoves[main.ctrl] /\ ArgRole # "OUT"
  /\ MoveFromInner(First(ValidImpls(ArgTile)), ArgTile)
  /\ UNCHANGED main

KernelArgSend ==
  /\ ArgLeft("kernel")
  /\ KernelArgStale(main.ctrl, ArgTile)
  /\ host_status[ArgTile] = "INVALID" => ValidImpls(ArgTile) = {}
  /\ MoveToInner(main.ctrl, ArgTile)
  /\ UNCHANGED main

\* Mutant: a writer of host memory does not wait for the transfers reading it.
HostTaskWaitNoHtd(t, role) ==
  {last_dth[<<j, t>>] : j \in Impls(t)}
    \cup {last_host_write[t]}
    \cup (IF role # "IN" THEN {last_host_read[t]} ELSE {})

\* Mutant: a user of host memory does not wait for the transfer that fills it.
HostTaskWaitNoDth(t, role) ==
  {last_host_write[t]}
    \cup (IF role # "IN" THEN {last_htd[<<j, t>>] : j \in Impls(t)}
                              \cup {last_host_read[t]} ELSE {})

\* Events a task using host memory waits for, for one argument.
HostTaskWait(t, role) ==
  {last_dth[<<j, t>>] : j \in Impls(t)}
    \cup (IF role # "IN" THEN {last_htd[<<j, t>>] : j \in Impls(t)} ELSE {})
    \cup {last_host_write[t]}
    \cup (IF role # "IN" THEN {last_host_read[t]} ELSE {})

\* Mutant: a kernel overwrites its device buffer while it is being sent.
DeviceWaitNoDth(c, t, role) ==
  IF \/ host_status[t] = "UNALLOC"
     \/ device_status[<<c, t>>] = "VALID" /\ host_status[t] = "INVALID"
  THEN {}
  ELSE {last_htd[<<c, t>>]}

\* Events a kernel on device memory waits for, for one argument: none when
\* the device holds the only valid copy.
DeviceWait(c, t, role) ==
  IF \/ host_status[t] = "UNALLOC"
     \/ device_status[<<c, t>>] = "VALID" /\ host_status[t] = "INVALID"
  THEN {}
  ELSE {last_htd[<<c, t>>]}
         \cup (IF role # "IN" THEN {last_dth[<<c, t>>]} ELSE {})

KernelArgWait ==
  LET c == main.ctrl
      events == IF MemMoves[c] THEN DeviceWait(c, ArgTile, ArgRole)
                               ELSE HostTaskWait(ArgTile, ArgRole)
  IN /\ ArgLeft("kernel")
     /\ ~KernelArgStale(c, ArgTile)
     /\ ~(/\ ~MemMoves[c]
          /\ ArgRole # "OUT"
          /\ host_status[ArgTile] = "INVALID"
          /\ ValidImpls(ArgTile) # {})
     /\ pending' = [pending EXCEPT ![<<c, "kernel">>] = @ \cup (events \ {0})]
     /\ main' = NextArg
     /\ UNCHANGED <<jobs, tileVars, ctrlVars, execVars>>

\* Mutant: the copies a task makes stale are not invalidated.
InvalidateDevicesNot(written) == device_status

\* Device statuses once every valid copy of the written tiles is invalid.
InvalidateDevices(written) ==
  [ct \in Ctrl \X Tiles |->
     IF ct[2] \in written /\ device_status[ct] = "VALID"
     THEN "INVALID" ELSE device_status[ct]]

\* Every argument was looked at: push the kernel, update statuses and events.
KernelPush ==
  LET c    == main.ctrl
      ins  == Ins(main.args)
      outs == Outs(main.args)
  IN /\ main.pc = "kernel"
     /\ main.arg > Len(main.args)
     /\ Push(<<c, "kernel">>, {DeviceBuffer(c, t) : t \in ins},
             {DeviceBuffer(c, t) : t \in outs}, SyncWait)
     /\ pending' = [pending EXCEPT ![<<c, "kernel">>] = {}]
     /\ device_status' = [ct \in Ctrl \X Tiles |->
          IF MemMoves[c] /\ ct[1] = c /\ ct[2] \in outs
          THEN "VALID" ELSE InvalidateDevices(outs)[ct]]
     /\ IF MemMoves[c]
        THEN /\ host_status' = [t \in Tiles |->
                  IF t \in outs /\ host_status[t] = "VALID"
                  THEN "INVALID" ELSE host_status[t]]
             /\ last_kernel_write' = [ct \in Ctrl \X Tiles |->
                  IF ct[1] = c /\ ct[2] \in outs
                  THEN Ticket ELSE last_kernel_write[ct]]
             /\ last_kernel_read' = [ct \in Ctrl \X Tiles |->
                  IF ct[1] = c /\ ct[2] \in ins
                  THEN Ticket ELSE last_kernel_read[ct]]
             /\ UNCHANGED hostEvents
        ELSE /\ host_status' = [t \in Tiles |->
                  IF t \in outs THEN "VALID" ELSE host_status[t]]
             /\ last_host_write' = [t \in Tiles |->
                  IF t \in outs THEN Ticket ELSE last_host_write[t]]
             /\ last_host_read' = [t \in Tiles |->
                  IF t \in ins THEN Ticket ELSE last_host_read[t]]
             /\ UNCHANGED kernelEvents
     /\ IF main.args = <<>> THEN UNCHANGED seq_event ELSE RecordSeq(c)
     /\ main' = Idle
     /\ UNCHANGED <<attached, last_htd, last_dth, mode, execVars>>

\* Devices whose valid copy an input of a host task is fetched from.
FetchImpls(t) == {c \in ValidImpls(t) : mode[c] = "IMPLICIT"}

HostTaskFetch ==
  /\ ArgLeft("hosttask")
  /\ ArgRole # "OUT"
  /\ host_status[ArgTile] = "INVALID"
  /\ FetchImpls(ArgTile) # {}
  /\ MoveFromInner(First(FetchImpls(ArgTile)), ArgTile)
  /\ UNCHANGED main

HostTaskArgWait ==
  LET t == ArgTile
      written == {u \in {t} : ArgRole # "IN"}
  IN /\ ArgLeft("hosttask")
     /\ ~(/\ ArgRole # "OUT"
          /\ host_status[t] = "INVALID"
          /\ FetchImpls(t) # {})
     /\ pending' = [pending EXCEPT ![HostStream] =
                      @ \cup (HostTaskWait(t, ArgRole) \ {0})]
     /\ device_status' = InvalidateDevices(written)
     /\ host_status' = [u \in Tiles |->
          IF u \in written THEN "VALID" ELSE host_status[u]]
     /\ main' = NextArg
     /\ UNCHANGED <<jobs, attached, hostEvents, kernelEvents, last_htd,
                    last_dth, ctrlVars, execVars>>

\* Under the SYNC policy the main thread then waits for the task itself.
HostTaskPush ==
  LET ins  == Ins(main.args)
      outs == Outs(main.args)
  IN /\ main.pc = "hosttask"
     /\ main.arg > Len(main.args)
     /\ Push(HostStream, {HostBuffer(t) : t \in ins},
             {HostBuffer(t) : t \in outs}, SyncWait)
     /\ pending' = [pending EXCEPT ![HostStream] = {}]
     /\ last_host_write' = [t \in Tiles |->
          IF t \in outs THEN Ticket ELSE last_host_write[t]]
     /\ last_host_read' = [t \in Tiles |->
          IF t \in ins THEN Ticket ELSE last_host_read[t]]
     /\ main' = IF Policy = "SYNC"
                THEN [Idle EXCEPT !.pc = "wait", !.events = {Ticket},
                                  !.scope = {Ticket}]
                ELSE Idle
     /\ UNCHANGED <<attached, host_status, device_status, kernelEvents,
                    last_htd, last_dth, ctrlVars, execVars>>
-----------------------------------------------------------------------------
(* Calls that block the main thread.                                       *)

\* Mutant: the transfers back to the host are not waited for.
TileEventsNoDth(c, t) ==
  {last_host_read[t], last_host_write[t]}
    \cup (IF MemMoves[c]
          THEN {last_kernel_read[<<c, t>>], last_kernel_write[<<c, t>>],
                last_htd[<<c, t>>]}
          ELSE {})

\* The events of tile t that ctrl c keeps, the host's included.
TileEvents(c, t) ==
  {last_host_read[t], last_host_write[t]}
    \cup (IF MemMoves[c]
          THEN {last_kernel_read[<<c, t>>], last_kernel_write[<<c, t>>],
                last_htd[<<c, t>>], last_dth[<<c, t>>]}
          ELSE {})

\* The event of the last task on the host queue.
HostTasks == {n \in DOMAIN jobs : jobs[n].stream = HostStream}
HostQueueEvent == {n \in HostTasks : \A m \in HostTasks : m <= n}

\* Jobs of ctrl c and host tasks that touch tile t.
JobsOf(c, t) ==
  {n \in DOMAIN jobs :
     /\ jobs[n].stream[1] \in {c, Host}
     /\ \E b \in jobs[n].reads \cup jobs[n].writes : b[2] = t}

\* "scope" is a history value: the jobs issued so far that the call is about.
Block(call, events, scope) ==
  /\ main.pc = "idle"
  /\ main' = [Idle EXCEPT !.pc = call, !.events = events \ {0},
                          !.scope = scope]
  /\ UNCHANGED <<jobs, pending, tileVars, ctrlVars, execVars>>

WaitTile(c, t) ==
  /\ <<c, t>> \in attached
  /\ Block("waitTile", TileEvents(c, t), JobsOf(c, t))

TilesOf(c) == {t \in Tiles : <<c, t>> \in attached}

GlobalSync(c) ==
  Block("globalSync", UNION {TileEvents(c, t) : t \in TilesOf(c)},
        UNION {JobsOf(c, t) : t \in TilesOf(c)})

Synchronize ==
  Block("synchronize",
        HostQueueEvent \cup
          UNION {TileEvents(ct[1], ct[2]) : ct \in attached},
        DOMAIN jobs)

Blocked == {"wait", "waitTile", "globalSync", "synchronize"}

Unblock ==
  /\ main.pc \in Blocked
  /\ main.events \subseteq done
  /\ main' = Idle
  /\ UNCHANGED <<jobs, pending, tileVars, ctrlVars, execVars>>
-----------------------------------------------------------------------------
(* Allocation and mode.                                                    *)

\* Attaching a tile to a ctrl creates its events, those of the host included.
AllocTile(c, t, flags) ==
  LET init == <<c, t>> \notin attached
      both == flags = {} \/ flags = {"HOST", "DEV"}
      alias == ~MemMoves[c] /\ host_status[t] # "UNALLOC"
      hostAlloc == /\ ~alias
                   /\ host_status[t] = "UNALLOC"
                   /\ both \/ flags = {"HOST"} \/ ~MemMoves[c]
      devAlloc == /\ MemMoves[c]
                  /\ both \/ flags = {"DEV"}
                  /\ device_status[<<c, t>>] = "UNALLOC"
      Fresh(ev) == IF init THEN [ev EXCEPT ![<<c, t>>] = 0] ELSE ev
      HostFresh(ev) == IF init THEN [ev EXCEPT ![t] = 0] ELSE ev
  IN /\ CanCall
     /\ attached' = attached \cup {<<c, t>>}
     /\ last_host_read' = HostFresh(last_host_read)
     /\ last_host_write' = HostFresh(last_host_write)
     /\ last_kernel_read' = Fresh(last_kernel_read)
     /\ last_kernel_write' = Fresh(last_kernel_write)
     /\ last_htd' = Fresh(last_htd)
     /\ last_dth' = Fresh(last_dth)
     /\ host_status' = IF hostAlloc THEN [host_status EXCEPT ![t] = "INVALID"]
                                    ELSE host_status
     /\ device_status' = IF devAlloc
                         THEN [device_status EXCEPT ![<<c, t>>] = "INVALID"]
                         ELSE device_status
     /\ UNCHANGED <<jobs, pending, main, ctrlVars, execVars>>

SetDependanceMode(c, m) ==
  /\ CanCall
  /\ mode' = [mode EXCEPT ![c] = m]
  /\ UNCHANGED <<jobs, pending, main, tileVars, seq_event, execVars>>
-----------------------------------------------------------------------------
(* The stream threads: each executes its jobs in order, one at a time,     *)
(* waiting for the events before each.                                     *)

StartJob(n) ==
  /\ n \in DOMAIN jobs \ Started
  /\ \A m \in 1 .. n - 1 : jobs[m].stream = jobs[n].stream => m \in done
  /\ jobs[n].waits \subseteq done
  /\ seen' = [m \in Started \cup {n} |->
                IF m = n THEN [b \in jobs[n].reads |-> mem[b]] ELSE seen[m]]
  /\ UNCHANGED <<jobs, pending, main, tileVars, ctrlVars, done, mem>>

\* Kernels and host tasks produce a version of their own; a transfer copies.
IsTask(n) == jobs[n].stream[2] \in {"kernel", "host"}
Result(n) == IF IsTask(n) THEN n
             ELSE seen[n][CHOOSE b \in jobs[n].reads : TRUE]

\* Mutant: last_finished does not count transfers.
FinishedTasks(n) == IF IsTask(n) THEN done \cup {n} ELSE done

\* last_finished of the stream grows past n.
Finished(n) == done \cup {n}

FinishJob(n) ==
  /\ n \in Started \ done
  /\ done' = Finished(n)
  /\ mem' = [b \in Buffer |-> IF b \in jobs[n].writes THEN Result(n)
                                                     ELSE mem[b]]
  /\ UNCHANGED <<jobs, pending, main, tileVars, ctrlVars, seen>>

StreamStep(s) ==
  \E n \in DOMAIN jobs : jobs[n].stream = s /\ (StartJob(n) \/ FinishJob(n))
-----------------------------------------------------------------------------
InitHost(t) == IF \E c \in Ctrl : <<c, t>> \in InitAttached
               THEN "INVALID" ELSE "UNALLOC"
InitDevice(c, t) == IF MemMoves[c] /\ <<c, t>> \in InitAttached
                    THEN "INVALID" ELSE "UNALLOC"
NoEvents == [t \in Tiles |-> 0]
NoImplEvents == [ct \in Ctrl \X Tiles |-> 0]

Init ==
  /\ jobs = <<>>
  /\ pending = [s \in Stream |-> {}]
  /\ main = Idle
  /\ attached = InitAttached
  /\ mode \in [Ctrl -> Modes]
  /\ host_status = [t \in Tiles |-> InitHost(t)]
  /\ device_status = [ct \in Ctrl \X Tiles |-> InitDevice(ct[1], ct[2])]
  /\ last_host_read = NoEvents
  /\ last_host_write = NoEvents
  /\ last_kernel_read = NoImplEvents
  /\ last_kernel_write = NoImplEvents
  /\ last_htd = NoImplEvents
  /\ last_dth = NoImplEvents
  /\ seq_event = [c \in Ctrl |-> 0]
  /\ seen = <<>>
  /\ done = {}
  /\ mem = [b \in Buffer |-> 0]

Call ==
  \/ \E c \in Ctrl, t \in Tiles : \/ MoveTo(c, t)
                                  \/ MoveFrom(c, t)
                                  \/ WaitTile(c, t)
  \/ \E c \in Ctrl, t \in Tiles, flags \in AllocFlags : AllocTile(c, t, flags)
  \/ \E c \in Ctrl, args \in Accesses : KernelLaunch(c, args)
  \/ \E args \in Accesses : LaunchHostTask(args)
  \/ \E c \in Ctrl : GlobalSync(c)
  \/ \E c \in Ctrl, m \in Modes : SetDependanceMode(c, m)
  \/ Synchronize

\* What the main thread does inside a call it has started.
Continue ==
  \/ KernelArgFetch
  \/ KernelArgSend
  \/ KernelArgWait
  \/ KernelPush
  \/ HostTaskFetch
  \/ HostTaskArgWait
  \/ HostTaskPush
  \/ Unblock

Next == Call \/ Continue \/ \E s \in Stream : StreamStep(s)

\* Every thread spins or runs: none is suspended for ever.
Fairness == WF_vars(Continue) /\ \A s \in Stream : WF_vars(StreamStep(s))

Spec == Init /\ [][Next]_vars /\ Fairness
-----------------------------------------------------------------------------
(* Properties.                                                             *)

Job == [stream : Stream, reads : SUBSET Buffer, writes : SUBSET Buffer,
        waits : SUBSET Nat]
MainState ==
  [pc : {"idle", "kernel", "hosttask"} \cup Blocked,
   ctrl : Ctrl \cup {Host}, args : Accesses \cup {<<>>}, arg : Nat,
   events : SUBSET Nat, scope : SUBSET Nat]
HostEventTable == [Tiles -> 0 .. Len(jobs)]
ImplEventTable == [Ctrl \X Tiles -> 0 .. Len(jobs)]

\* Every variable has its type, and every event names a job already pushed:
\* what Ctrl_CpuEvent_Record captures is behind the write index.
TypeOK ==
  /\ jobs \in Seq(Job)
  /\ pending \in [Stream -> SUBSET DOMAIN jobs]
  /\ main \in MainState
  /\ attached \subseteq Ctrl \X Tiles
  /\ mode \in [Ctrl -> Modes]
  /\ host_status \in [Tiles -> Status]
  /\ device_status \in [Ctrl \X Tiles -> Status]
  /\ last_host_read \in HostEventTable
  /\ last_host_write \in HostEventTable
  /\ last_kernel_read \in ImplEventTable
  /\ last_kernel_write \in ImplEventTable
  /\ last_htd \in ImplEventTable
  /\ last_dth \in ImplEventTable
  /\ seq_event \in [Ctrl -> 0 .. Len(jobs)]
  /\ Started \subseteq DOMAIN jobs
  /\ done \subseteq Started
  /\ mem \in [Buffer -> 0 .. Len(jobs)]

\* A job waits only for jobs pushed before it, so waits cannot form a cycle:
\* whatever streams the handlers push their WAITEVENTs on.
WaitsAreEarlier ==
  \A n \in DOMAIN jobs : jobs[n].waits \subseteq 1 .. n - 1

CanStart(n) ==
  /\ n \in DOMAIN jobs \ Started
  /\ \A m \in 1 .. n - 1 : jobs[m].stream = jobs[n].stream => m \in done
  /\ jobs[n].waits \subseteq done

\* The stream threads never wait for one another for ever: while a job is
\* unfinished, some job runs or may start.
NoDeadlock ==
  Unfinished # {} => \E n \in DOMAIN jobs : n \in Started \ done \/ CanStart(n)

Conflict(m, n) ==
  \/ jobs[m].writes \cap (jobs[n].reads \cup jobs[n].writes) # {}
  \/ jobs[m].reads \cap jobs[n].writes # {}

\* No data race and no reordering: a job runs only when every job pushed
\* before it that touches the same buffer, one of them writing, has finished.
DependencesHonoured ==
  \A n \in Started : \A m \in 1 .. n - 1 : Conflict(m, n) => m \in done

IsMoveFrom(n) == jobs[n].stream[2] = "moveFrom"
IsTransfer(n) == ~IsTask(n)

\* The same, for every pair but a MOVEFROM behind another transfer, whose
\* order Ctrl_Cpu.c:434 leaves open.
DependencesHonouredButMoveFrom ==
  \A n \in Started : \A m \in 1 .. n - 1 :
    Conflict(m, n) /\ ~(IsMoveFrom(n) /\ IsTransfer(m)) => m \in done

\* "enqueue wait for appropiate events for a MoveFrom operation in p_queue":
\* a MOVEFROM runs only after the transfers to a device issued before it for
\* its tile, which read the host memory it writes.
MoveFromAfterMoveTo ==
  \A n \in Started : \A m \in 1 .. n - 1 :
    IsMoveFrom(n) /\ jobs[m].stream[2] = "moveTo" /\ Conflict(m, n)
      => m \in done

\* Tasks launched on tiles, and what each found in them.
TilesIn(buffers) == {b[2] : b \in buffers}
TaskNumbers == {n \in DOMAIN jobs : IsTask(n)}
TaskProgram ==
  [n \in TaskNumbers |-> [reads |-> TilesIn(jobs[n].reads),
                          writes |-> TilesIn(jobs[n].writes)]]
Observed ==
  [n \in TaskNumbers \cap Started |->
     [t \in TilesIn(jobs[n].reads) |->
        seen[n][CHOOSE b \in jobs[n].reads : b[2] = t]]]

Dataflow == INSTANCE TileDataflow WITH prog <- TaskProgram, obs <- Observed

\* In IMPLICIT mode the runtime is a correct asynchronous execution of the
\* sequence of launches: every task finds the results it would find if each
\* launch were a call, whatever transfers and overlaps happen in between.
ImplementsDataflow == Dataflow!Spec

\* The version a tile has after the tasks launched so far.
LatestVersion(t) == Dataflow!LastWriter(Len(jobs) + 1, t)

\* The statuses tell the truth: when nothing is in flight, a copy marked
\* VALID holds the latest version, and a tile ever written has such a copy.
CoherentAtRest ==
  main.pc = "idle" /\ Unfinished = {} =>
    \A t \in Tiles :
      /\ host_status[t] = "VALID" => mem[HostBuffer(t)] = LatestVersion(t)
      /\ \A c \in ValidImpls(t) : mem[<<c, t>>] = LatestVersion(t)
      /\ LatestVersion(t) # 0 =>
           host_status[t] = "VALID" \/ ValidImpls(t) # {}

\* CTRL_POLICY_SYNC: "no task overlapping".
NoOverlap ==
  Policy = "SYNC" =>
    \A m, n \in Started \ done : m = n

Returns(calls) == main.pc \in calls /\ main'.pc = "idle"

\* Ctrl_WaitTile and Ctrl_GlobalSync "wait for all operations involving" the
\* tile(s) "to end": those of that ctrl and of the host.
TileWaitsComplete ==
  [][Returns({"waitTile", "globalSync"}) => main.scope \subseteq done]_vars

\* Ctrl_Synchronize: "Wait for all operations to finish".
SynchronizeCompletes ==
  [][Returns({"synchronize"}) => main.scope \subseteq done]_vars

\* Every job the main thread pushes is executed to its end, whatever events
\* it waits for.
JobsFinish ==
  \A n \in 1 .. MaxJobs : n \in DOMAIN jobs ~> n \in done

\* Every call of the API returns: launches run out of arguments, and what a
\* call waits for will happen.
CallsReturn == main.pc # "idle" ~> main.pc = "idle"
=============================================================================
