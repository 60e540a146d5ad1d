----------------------------- MODULE ThreadBlock -----------------------------
(***************************************************************************)
(* The threads of a __ctrl_block__, from Ctrl_Thread_Init to the barrier   *)
(* in Ctrl_EndBlock: the main thread, the thread of the host tasks, the    *)
(* queue manager, and for every CPU ctrl a spawner that forks one thread   *)
(* per stream.  When the block ends the main thread waits for the events   *)
(* of the tile, sends DESTROY tasks and frees the ctrls, while threads may *)
(* not have started yet or still have tasks in their queues.               *)
(*                                                                         *)
(* The program has one tile, attached to every ctrl, and EXPLICIT          *)
(* dependences.  A job of a driver ctrl is done when the queue manager     *)
(* issues it: the device events, that the main thread waits for as well,   *)
(* are in module DriverCtrl.  A call pushes its tasks in one step: nobody  *)
(* else pushes, and a thread that is late sees the same as one that waits  *)
(* for the next task.                                                      *)
(***************************************************************************)
EXTENDS Integers, Sequences

CONSTANTS
  NCtrls,    \* Ctrl_GetNCtrls()
  Kinds,     \* kinds of the ctrls, in order: "MEMMOVES" and "ZEROCOPY" are
             \* CPU ctrls, "DRIVER" are the others
  Streams,   \* kernel streams of a driver ctrl
  Roles,     \* roles of the tile in kernels and host tasks
  MaxCalls   \* bound: calls of the program

Ctrl == 0 .. NCtrls - 1
Host == -1

ASSUME ThreadBlockAssumption ==
  /\ NCtrls \in Nat \ {0} /\ Streams \in Nat \ {0} /\ MaxCalls \in Nat
  /\ Roles \subseteq {"IN", "OUT", "IO"}
  /\ Kinds \subseteq [Ctrl -> {"MEMMOVES", "ZEROCOPY", "DRIVER"}]

Htd(c) == <<c, "htd", 0>>
Dth(c) == <<c, "dth", 0>>
Kernel(c, k) == <<c, "kernel", k>>
HostQueue == <<Host, "host", 0>>
Queue == {HostQueue}
         \cup UNION {{Htd(c), Dth(c)} \cup {Kernel(c, k) : k \in 1 .. Streams} : c \in Ctrl}

MainThread == <<Host, "main", 0>>
HostThread == <<Host, "hosttasks", 0>>
Manager    == <<Host, "manager", 0>>
Spawner(c) == <<c, "spawner", 0>>
CpuThread == UNION {{Htd(c), Dth(c), Kernel(c, 1)} : c \in Ctrl}  \* named as their streams
Thread == {MainThread, HostThread, Manager} \cup {Spawner(c) : c \in Ctrl} \cup CpuThread

\* What Ctrl_CpuEvent_Record writes: a queue and how many tasks it got so far.
Unrecorded == <<HostQueue, 0>>
Slot == ({Host} \cup Ctrl) \X {"read", "write", "htd", "dth"}

VARIABLES
  kind,       \* of each ctrl
  pc,         \* of each thread
  next,       \* the ctrl that Ctrl_EndBlock is at
  calls,      \* calls of the program so far
  queue,      \* tasks pushed and not taken yet
  pushed, last_finished,   \* of each queue
  event,      \* of the tile: on the host and on each ctrl
  jobs,       \* <<queue, index, role>> of each job of the program
  freed,      \* ctrls whose p_impl is freed
  destroyed,  \* queues that are destroyed
  lost        \* jobs that were left in a queue when it was destroyed

queueVars == <<queue, pushed, last_finished>>
vars == <<kind, pc, next, calls, queueVars, event, jobs, freed, destroyed, lost>>

Driver(c) == kind[c] = "DRIVER"
QueuesOf(c) ==
  {Kernel(c, k) : k \in 1 .. (IF Driver(c) THEN Streams ELSE 1)}
  \cup (IF kind[c] = "ZEROCOPY" THEN {} ELSE {Htd(c), Dth(c)})
DriverQueues == UNION {QueuesOf(c) : c \in {d \in Ctrl : Driver(d)}}

EventDone(at) == last_finished[at[1]] >= at[2]
-----------------------------------------------------------------------------
(* Calls of the program. *)
Wait(s, q, for) == [kind |-> "wait", on |-> q, for |-> for, at |-> event[s]]
EachCtrl(k) == [i \in 1 .. NCtrls |-> <<i - 1, k>>]

\* What is pushed: a sequence of tasks for each queue.  Tasks on q alone; some,
\* and others behind them.
On(q, tasks) == [p \in Queue |-> IF p = q THEN tasks ELSE <<>>]
Then(some, others) == [p \in Queue |-> some[p] \o others[p]]

Waits(slots, q, for) == On(q, [i \in DOMAIN slots |-> Wait(slots[i], q, for)])
Job(q)     == On(q, <<[kind |-> "job", on |-> q, for |-> q, at |-> Unrecorded]>>)
Destroy(q) == On(q, <<[kind |-> "destroy", on |-> q, for |-> q, at |-> Unrecorded]>>)

PushAll(tasks) ==
  /\ queue' = [q \in Queue |-> queue[q] \o tasks[q]]
  /\ pushed' = [q \in Queue |-> pushed[q] + Len(tasks[q])]
  /\ UNCHANGED last_finished

\* Pushes the waits of a job on q and the job, and records slots behind it.
Enqueue(waits, q, role, slots) ==
  /\ pc[MainThread] = "block" /\ calls < MaxCalls
  /\ calls' = calls + 1
  /\ PushAll(Then(waits, Job(q)))
  /\ jobs' = jobs \cup {<<q, pushed'[q], role>>}
  /\ event' = [s \in Slot |-> IF s \in slots THEN <<q, pushed'[q]>> ELSE event[s]]
  /\ UNCHANGED <<kind, pc, next, freed, destroyed, lost>>

MoveTo(c) ==
  LET q == Htd(c)
  IN /\ kind[c] # "ZEROCOPY"
     /\ Enqueue(Waits(EachCtrl("dth") \o << <<c, "read">>, <<c, "write">>, <<Host, "write">> >>,
                      q, q),
                q, "IO", {<<c, "htd">>})

\* Mutant: every ctrl passes the stream of the other direction.
MoveFromWaitsSwapped(c) == Htd(c)

\* A CPU ctrl passes Ctrl_MoveFromWait the stream of the other direction.
MoveFromWaits(c) == IF Driver(c) THEN Dth(c) ELSE Htd(c)

MoveFrom(c) ==
  LET q == Dth(c)
  IN /\ kind[c] # "ZEROCOPY"
     /\ Enqueue(Then(Waits(EachCtrl("htd"), MoveFromWaits(c), q),
                     Waits(<< <<c, "write">>, <<Host, "read">>, <<Host, "write">> >>, q, q)),
                q, "IO", {<<c, "dth">>})

\* The slots a job updates, of the host or of a ctrl.
Updated(h, r) == {<<h, k>> : k \in (IF r # "IN" THEN {"write"} ELSE {})
                                   \cup (IF r # "OUT" THEN {"read"} ELSE {})}

HostWaits(q, r) ==
  Waits(EachCtrl("dth") \o (IF r # "IN" THEN EachCtrl("htd") ELSE <<>>)
        \o << <<Host, "write">> >> \o (IF r # "IN" THEN << <<Host, "read">> >> ELSE <<>>),
        q, q)

HostTask(r) == Enqueue(HostWaits(HostQueue, r), HostQueue, r, Updated(Host, r))

\* Whether a kernel waits for the transfers ("copies") depends on the statuses
\* of the tile, which are left out.  The kernels of a ctrl without memory of
\* its own are as host tasks; several kernel streams wait for each other.
Launch(c, k, r, copies) ==
  LET q == Kernel(c, k)
      kernels == IF Driver(c) /\ Streams # 1
                 THEN << <<c, "write">> >> \o (IF r # "IN" THEN << <<c, "read">> >> ELSE <<>>)
                 ELSE <<>>
      transfers == IF copies
                   THEN << <<c, "htd">> >> \o (IF r # "IN" THEN << <<c, "dth">> >> ELSE <<>>)
                   ELSE <<>>
  IN /\ q \in QueuesOf(c)
     /\ IF kind[c] = "ZEROCOPY"
        THEN ~copies /\ Enqueue(HostWaits(q, r), q, r, Updated(Host, r))
        ELSE Enqueue(Waits(kernels \o transfers, q, q), q, r, Updated(c, r))
-----------------------------------------------------------------------------
(* Ctrl_EndBlock. *)
\* Mutant: Ctrl_Synchronize does not look at transfers to the host.
SynchronizeDoneNoDth ==
  /\ \A s \in Slot : s[2] # "dth" => EventDone(event[s])
  /\ last_finished[HostQueue] = pushed[HostQueue]

SynchronizeDone ==
  /\ \A s \in Slot : EventDone(event[s])
  /\ last_finished[HostQueue] = pushed[HostQueue]

Synchronize ==
  /\ pc[MainThread] = "block" /\ SynchronizeDone
  /\ pc' = [pc EXCEPT ![MainThread] = "destroy"]
  /\ UNCHANGED <<kind, next, calls, queueVars, event, jobs, freed, destroyed, lost>>

\* Mutant: the first ctrl alone may stop the queue manager.
SendsDestroyFirst(c) == Driver(c) /\ c = 0

\* One ctrl stops the queue manager: the first that is not a CPU ctrl.
SendsDestroy(c) == Driver(c) /\ \A d \in 0 .. c - 1 : ~Driver(d)

DestroyCtrl ==
  LET c == next
  IN /\ pc[MainThread] = "destroy"
     /\ PushAll(CASE kind[c] = "MEMMOVES" ->
                       Then(Destroy(Kernel(c, 1)), Then(Destroy(Dth(c)), Destroy(Htd(c))))
                  [] kind[c] = "ZEROCOPY" -> Destroy(Kernel(c, 1))
                  [] OTHER -> IF SendsDestroy(c) THEN Destroy(Htd(c)) ELSE On(Htd(c), <<>>))
     /\ pc' = [pc EXCEPT ![MainThread] = "free"]
     /\ UNCHANGED <<kind, next, calls, event, jobs, freed, destroyed, lost>>

FreeImpl ==
  /\ pc[MainThread] = "free"
  /\ freed' = freed \cup {next}
  /\ next' = next + 1
  /\ pc' = [pc EXCEPT ![MainThread] = IF next + 1 < NCtrls THEN "destroy" ELSE "destroyhost"]
  /\ UNCHANGED <<kind, calls, queueVars, event, jobs, destroyed, lost>>

DestroyHost ==
  /\ pc[MainThread] = "destroyhost"
  /\ PushAll(Destroy(HostQueue))
  /\ pc' = [pc EXCEPT ![MainThread] = "barrier"]
  /\ UNCHANGED <<kind, next, calls, event, jobs, freed, destroyed, lost>>

\* The barrier of the team: the threads a spawner forks are not in it.
Team == Thread \ CpuThread
Barrier ==
  /\ \A t \in Team : pc[t] = "barrier"
  /\ pc' = [t \in Thread |-> "end"]
  /\ UNCHANGED <<kind, next, calls, queueVars, event, jobs, freed, destroyed, lost>>
-----------------------------------------------------------------------------
(* The other threads. *)
Goto(t, l) ==
  /\ pc' = [pc EXCEPT ![t] = l]
  /\ UNCHANGED <<kind, next, calls, queueVars, event, jobs, freed, destroyed, lost>>

\* Accesses to p_impl of a ctrl, which fail once it is freed.
Valid(c) == c \notin freed

\* Gets the host queues of the ctrls; CPU ctrls have none for it.
StartManager ==
  /\ pc[Manager] = "start"
  /\ \A c \in Ctrl : Driver(c) => Valid(c)
  /\ Goto(Manager, IF DriverQueues = {} THEN "barrier" ELSE "run")

\* Ctrl_Cpu_GetNumThreads: three threads or one.
Spawn(c) ==
  /\ pc[Spawner(c)] = "start" /\ Valid(c)
  /\ pc' = [t \in Thread |-> IF t = Spawner(c) THEN "join"
                             ELSE IF t \in QueuesOf(c) THEN "start" ELSE pc[t]]
  /\ UNCHANGED <<kind, next, calls, queueVars, event, jobs, freed, destroyed, lost>>

StartCpu(t) ==
  /\ t \in CpuThread /\ pc[t] = "start" /\ Valid(t[1])
  /\ Goto(t, "run")

Join(c) ==
  /\ pc[Spawner(c)] = "join"
  /\ \A t \in QueuesOf(c) : pc[t] = "end"
  /\ Goto(Spawner(c), "barrier")

Consumer(q) == IF q = HostQueue THEN HostThread
               ELSE IF Driver(q[1]) THEN Manager ELSE q
IsNext(q, k) == /\ queue[q] # <<>> /\ Head(queue[q]).kind = k
                /\ pc[Consumer(q)] = "run"

Consume(q) ==
  /\ queue' = [queue EXCEPT ![q] = Tail(@)]
  /\ last_finished' = [last_finished EXCEPT ![q] = @ + 1]
  /\ UNCHANGED <<kind, pc, next, calls, pushed, event, jobs, freed, destroyed, lost>>

TakeWait(q) ==
  /\ IsNext(q, "wait")
  /\ LET at == Head(queue[q]).at IN at[1] \notin destroyed /\ EventDone(at)
  /\ Consume(q)

\* The queue manager finds the stream to launch on in p_impl.
TakeJob(q) ==
  /\ IsNext(q, "job")
  /\ Consumer(q) = Manager => Valid(q[1])
  /\ Consume(q)

\* Jobs in the queues of Q, whose indexes follow from what is left.
JobsLeft(Q) ==
  {j \in jobs : j[1] \in Q /\ j[2] > pushed[j[1]] - Len(queue[j[1]])}

\* The queue manager destroys all its queues when it meets the task in one.
TakeDestroy(q) ==
  LET Q == IF Consumer(q) = Manager THEN DriverQueues ELSE {q}
  IN /\ IsNext(q, "destroy")
     /\ lost' = lost \cup JobsLeft(Q)
     /\ destroyed' = destroyed \cup Q
     /\ queue' = [p \in Queue |-> IF p \in Q THEN <<>> ELSE queue[p]]
     /\ pc' = [pc EXCEPT ![Consumer(q)] = IF Consumer(q) = q THEN "end" ELSE "barrier"]
     /\ UNCHANGED <<kind, next, calls, pushed, last_finished, event, jobs, freed>>
-----------------------------------------------------------------------------
Init ==
  /\ kind \in Kinds
  /\ pc = [t \in Thread |->
             CASE t = MainThread -> "block"
               [] t = HostThread -> "run"
               [] t \in CpuThread -> "none"
               [] \E c \in Ctrl : t = Spawner(c) /\ Driver(c) -> "barrier"  \* no such thread
               [] OTHER -> "start"]
  /\ next = 0 /\ calls = 0
  /\ queue = [q \in Queue |-> <<>>]
  /\ pushed = [q \in Queue |-> 0]
  /\ last_finished = [q \in Queue |-> 0]
  /\ event = [s \in Slot |-> Unrecorded]
  /\ jobs = {} /\ freed = {} /\ destroyed = {} /\ lost = {}

\* A thread that uses what is freed: what it does then is undefined, and the
\* model stops it.
LateStart(t) ==
  /\ pc[t] = "start"
  /\ IF t = Manager THEN \E c \in Ctrl : Driver(c) /\ ~Valid(c) ELSE ~Valid(t[1])
PollsFreed(q)  == IsNext(q, "wait") /\ Head(queue[q]).at[1] \in destroyed
LaunchFreed(q) == IsNext(q, "job") /\ Consumer(q) = Manager /\ ~Valid(q[1])
UsesFreed ==
  (\E t \in Thread : LateStart(t)) \/ \E q \in Queue : PollsFreed(q) \/ LaunchFreed(q)

Ended == \A t \in Team : pc[t] = "end"
Finished == (Ended \/ UsesFreed) /\ UNCHANGED vars

Main ==
  \/ \E c \in Ctrl : MoveTo(c) \/ MoveFrom(c)
  \/ \E r \in Roles :
       \/ HostTask(r)
       \/ \E c \in Ctrl, k \in 1 .. Streams, copies \in BOOLEAN : Launch(c, k, r, copies)
  \/ Synchronize \/ DestroyCtrl \/ FreeImpl \/ DestroyHost \/ Barrier

Start(t) == \/ t = Manager /\ StartManager
            \/ \E c \in Ctrl : t = Spawner(c) /\ (Spawn(c) \/ Join(c))
            \/ StartCpu(t)
Take(q) == TakeWait(q) \/ TakeJob(q) \/ TakeDestroy(q)

Next == Main \/ (\E t \in Thread : Start(t)) \/ (\E q \in Queue : Take(q)) \/ Finished

\* Every thread runs; the queue manager looks at its queues in turn.
Fairness == /\ WF_vars(Main)
            /\ \A t \in Thread : WF_vars(Start(t))
            /\ \A q \in Queue : WF_vars(Take(q))
Spec == Init /\ [][Next]_vars /\ Fairness
-----------------------------------------------------------------------------
\* A kernel that only reads, whose event was recorded anew by a later read:
\* nothing waits for it.
Overlooked(j) == j[3] = "IN" /\ \A s \in Slot : event[s] # <<j[1], j[2]>>

\* "Wait for all operations to end before starting cleanup" (Ctrl_EndBlock):
\* no job is in a queue when the queue is destroyed, neither by its own thread
\* nor by the queue manager, which destroys all queues at the first DESTROY
\* whatever is in the others; but for reading kernels nothing waits for.
NoJobLost == \A j \in lost : Overlooked(j)

Served(t) == CASE t = Manager -> DriverQueues
               [] t \in CpuThread -> {t}
               [] OTHER -> QueuesOf(t[1])
\* A wait for the moveTo stream of a CPU ctrl, that no job needs to follow.
LeftByMoveFrom(q) == kind[q[1]] = "MEMMOVES" /\ Head(queue[q]).for # q

\* Ctrl_EndBlock frees ctrls and threads destroy queues without knowing who is
\* about to read them.  The only ones that can be are threads that start late
\* and have no job, waits that a MOVEFROM of a CPU ctrl left behind, and
\* whatever belongs to a reading kernel that nothing waits for.
FreedUseKnown ==
  /\ \A t \in Thread : LateStart(t) => \A j \in jobs : j[1] \in Served(t) => Overlooked(j)
  /\ \A q \in Queue : PollsFreed(q) \/ LaunchFreed(q) =>
       \/ LeftByMoveFrom(q)
       \/ JobsLeft({q}) # {} /\ \A j \in JobsLeft({q}) : Overlooked(j)

\* The block ends: every thread gets its DESTROY task and comes to the barrier
\* (unless one uses what is freed).
BlockEnds == <>(Ended \/ UsesFreed)
=============================================================================
