---------------------------- MODULE TileLifecycle ----------------------------
(***************************************************************************)
(* What Ctrl_Domain, Ctrl_Alloc, Ctrl_Select and Ctrl_Free create and      *)
(* destroy, while jobs still use it: the records a tile has for the host   *)
(* and for each ctrl, its buffers, and the reference counted events        *)
(* (Core/Ctrl_TaskQueue.h) that tiles, ctrls and queued tasks share.       *)
(*                                                                         *)
(* The ctrls are CUDA ctrls with one kernel stream and EXPLICIT            *)
(* dependences, so that a call moves exactly what it says.  A call of the  *)
(* main thread is broken into the operations on events, queues and records *)
(* that other threads may come between: the main thread does the first     *)
(* operation of "todo", one at a time.  The queue manager and the host     *)
(* thread release the events of the tasks they take.  When a driver waits  *)
(* is left out (module DriverCtrl): its streams may run a job at any time. *)
(***************************************************************************)
EXTENDS Integers, Sequences, FiniteSets, SequencesExt

CONSTANTS
  NCtrls,    \* Ctrl_GetNCtrls()
  Domains,   \* tiles the program declares with Ctrl_Domain
  Selected,  \* the tile each selection is made from
  Starts,    \* pairs of a policy and the <<c, t>> that are allocated when
             \* the model starts
  Jobs,      \* <<call, c, t, role>>: the jobs the program asks for
  Careless,  \* does the program free tiles ctrl by ctrl between other uses,
             \* and from all ctrls whatever ctrls they are attached to?
  MaxJobs    \* bound: jobs the program asks for; it calls the rest at will

Ctrl  == 0 .. NCtrls - 1
Host  == -1
Selections == DOMAIN Selected
Tiles == Domains \cup Selections
NoTile == "none"

Htd(c)    == <<c, "htd">>
Dth(c)    == <<c, "dth">>
Kernel(c) == <<c, "kernel">>
HostQueue == <<Host, "host">>
DriverQueue == UNION {{Htd(c), Dth(c), Kernel(c)} : c \in Ctrl}
Queue == {HostQueue} \cup DriverQueue

ASSUME TileLifecycleAssumption ==
  /\ NCtrls \in Nat \ {0}
  /\ \A s \in Selections : Selected[s] \in Domains /\ s \notin Domains
  /\ IsFiniteSet(Tiles) /\ NoTile \notin Tiles
  /\ Starts \subseteq {"SYNC", "ASYNC"} \X SUBSET (Ctrl \X Domains)
  /\ Jobs \subseteq {"moveto", "movefrom", "launch", "hosttask"}
                \X ({Host} \cup Ctrl) \X Tiles \X {"IN", "OUT", "IO"}
  /\ \A j \in Jobs : j[2] = Host => j[1] = "hosttask"
  /\ Careless \in BOOLEAN
  /\ MaxJobs \in Nat
-----------------------------------------------------------------------------
(* Variables that hold events: of a tile on the host, of a tile on a ctrl, *)
(* of a ctrl, and the local kernel_event of a launch.                      *)
HostSlots(t) == {<<Host, t, "last_host_read">>, <<Host, t, "last_host_write">>}
CpuKind == {"host_last_kernel_read", "host_last_kernel_write",
            "host_last_dth", "host_last_htd"}
DevKind == {"dev_last_kernel_read", "dev_last_kernel_write",
            "dev_last_dth", "dev_last_htd"}
ImplSlots(c, t) == {<<c, t, k>> : k \in CpuKind \cup DevKind}
HostSeq(c) == <<c, NoTile, "host_seq">>
DevSeq(c)  == <<c, NoTile, "dev_seq">>
KernelEvent == <<Host, NoTile, "kernel_event">>
IsDev(s) == s[3] \in DevKind \cup {"dev_seq", "kernel_event"}
Slot == (UNION {HostSlots(t) : t \in Tiles})
        \cup (UNION {ImplSlots(b[1], b[2]) : b \in Ctrl \X Tiles})
        \cup (UNION {{HostSeq(c), DevSeq(c)} : c \in Ctrl})
        \cup {KernelEvent}
CpuSlot == {s \in Slot : ~IsDev(s)}

\* An event is named after the slot it was created for and numbered.
Event(s, k) == <<s[1], s[2], s[3], k>>
NoEvent == Event(KernelEvent, -1)

\* What Ctrl_CpuEvent_Record writes: a queue and how many tasks it got so far.
Unrecorded == <<HostQueue, 0>>

VARIABLES
  policy,        \* "SYNC" or "ASYNC"
  todo,          \* operations left of the call the main thread is in
  jobs,          \* jobs asked for
  type,          \* <<c, t>> whose p_impls[c].type is not CTRL_TYPE_NULL
  records,       \* live records: <<Host, t>> (Ctrl_Tile) and <<c, t>>
  valid_impls,   \* of each tile
  memory,        \* live buffers, on the host and on the ctrls
  host_status, device_status,
  slot,          \* the event in each slot
  recorded,      \* what was last recorded in each slot of a CPU event
  ref_count,     \* of each live event
  queue,         \* tasks pushed and not taken yet
  pushed, last_finished,   \* of each queue
  running        \* jobs launched on each driver stream and not done

tileVars   == <<type, records, valid_impls, memory, host_status, device_status>>
slotVars   == <<slot, recorded>>
queueVars  == <<queue, pushed, last_finished>>
vars == <<policy, todo, jobs, tileVars, slotVars, ref_count, queueVars, running>>

Owner(t) == t \in Domains
Root(t)  == IF Owner(t) THEN t ELSE Selected[t]
Allocated(b) == device_status[b] # "UNALLOC"

\* Selections share the buffers of the tile they are made from.
BufferOf(c, t) == <<c, Root(t)>>

\* The waits of every ctrl, one ctrl after the other.
ForEachCtrl(waits) == FlattenSeq([i \in 1 .. NCtrls |-> waits[i - 1]])
-----------------------------------------------------------------------------
(* Operations of the main thread. *)
StreamWait(s, q) == <<"streamwait", q, s>>

WaitsFor(slots, q) == [i \in DOMAIN slots |-> StreamWait(slots[i], q)]
ImplWaits(t, kinds, q) ==
  ForEachCtrl([c \in Ctrl |-> IF <<c, t>> \in type
                              THEN WaitsFor([i \in DOMAIN kinds |-> <<c, t, kinds[i]>>], q)
                              ELSE <<>>])

SyncWait(q) ==
  IF policy = "SYNC"
  THEN ForEachCtrl([c \in Ctrl |-> WaitsFor(<<HostSeq(c), DevSeq(c)>>, q)])
  ELSE <<>>

\* A job that records the event of s; the slots of its own are updated next.
PushJob(q, kind, s, t) == << <<"retain", s>>, <<"push", q, kind, s, t>> >>

\* Under the SYNC policy the ctrl remembers its last job: the stream of its
\* host event and the slot with its device event.
RecordSeq(c, q, s) ==
  IF policy = "SYNC"
  THEN << <<"record", HostSeq(c), q>>, <<"release", {DevSeq(c)}>>,
          <<"share", DevSeq(c), s>> >>
  ELSE <<>>

MoveToInner(c, t) ==
  ImplWaits(t, <<"host_last_dth", "dev_last_dth">>, Htd(c))
  \o WaitsFor(<< <<c, t, "host_last_kernel_read">>, <<c, t, "host_last_kernel_write">>,
                 <<Host, t, "last_host_write">>,
                 <<c, t, "dev_last_kernel_read">>, <<c, t, "dev_last_kernel_write">> >>,
              Htd(c))
  \o SyncWait(Htd(c))
  \o << <<"release", {<<c, t, "dev_last_htd">>}>>,
        <<"create", {<<c, t, "dev_last_htd">>}>> >>
  \o PushJob(Htd(c), "moveto", <<c, t, "dev_last_htd">>, t)
  \o << <<"record", <<c, t, "host_last_htd">>, Htd(c)>> >>
  \o RecordSeq(c, Dth(c), <<c, t, "dev_last_htd">>)

MoveFromInner(c, t) ==
  ImplWaits(t, <<"host_last_htd", "dev_last_htd">>, Dth(c))
  \o WaitsFor(<< <<c, t, "host_last_kernel_write">>, <<Host, t, "last_host_read">>,
                 <<Host, t, "last_host_write">>, <<c, t, "dev_last_kernel_write">> >>,
              Dth(c))
  \o SyncWait(Dth(c))
  \o << <<"release", {<<c, t, "dev_last_dth">>}>>,
        <<"create", {<<c, t, "dev_last_dth">>}>> >>
  \o PushJob(Dth(c), "movefrom", <<c, t, "dev_last_dth">>, t)
  \o << <<"record", <<c, t, "host_last_dth">>, Dth(c)>> >>
  \o RecordSeq(c, Htd(c), <<c, t, "dev_last_htd">>)

\* A transfer may still be under way: the kernel waits for it.
HostCopyInUse(c, t) ==
  /\ host_status[t] # "UNALLOC"
  /\ ~(device_status[<<c, t>>] = "VALID" /\ host_status[t] = "INVALID")

Update(c, t, q, host, dev) ==
  << <<"record", <<c, t, host>>, q>>, <<"release", {<<c, t, dev>>}>>,
     <<"share", <<c, t, dev>>, KernelEvent>> >>

\* The launch gives up the reference it was created with.
DropKernelEvent == << <<"release", {KernelEvent}>> >>

LaunchInner(c, t, r) ==
  LET q == Kernel(c)
  IN (IF HostCopyInUse(c, t)
      THEN WaitsFor(<< <<c, t, "host_last_htd">>, <<c, t, "dev_last_htd">> >>, q)
           \o (IF r # "IN"
               THEN WaitsFor(<< <<c, t, "host_last_dth">>, <<c, t, "dev_last_dth">> >>, q)
               ELSE <<>>)
      ELSE <<>>)
     \o SyncWait(q)
     \o << <<"create", {KernelEvent}>> >>
     \o PushJob(q, "kernel", KernelEvent, t)
     \o (IF r # "IN"
         THEN Update(c, t, q, "host_last_kernel_write", "dev_last_kernel_write")
         ELSE <<>>)
     \o (IF r # "OUT"
         THEN Update(c, t, q, "host_last_kernel_read", "dev_last_kernel_read")
         ELSE <<>>)
     \o RecordSeq(c, q, KernelEvent)
     \o DropKernelEvent

HostTaskInner(t, r) ==
  ImplWaits(t, <<"host_last_dth", "dev_last_dth">>
               \o (IF r # "IN" THEN <<"host_last_htd", "dev_last_htd">> ELSE <<>>),
            HostQueue)
  \o WaitsFor(<< <<Host, t, "last_host_write">> >>, HostQueue)
  \o (IF r # "IN" THEN WaitsFor(<< <<Host, t, "last_host_read">> >>, HostQueue)
                  ELSE <<>>)
  \o SyncWait(HostQueue)
  \o << <<"push", HostQueue, "hosttask", KernelEvent, t>> >>
  \o (IF r # "IN" THEN << <<"record", <<Host, t, "last_host_write">>, HostQueue>> >>
                  ELSE <<>>)
  \o (IF r # "OUT" THEN << <<"record", <<Host, t, "last_host_read">>, HostQueue>> >>
                   ELSE <<>>)
  \o (IF policy = "SYNC" THEN << <<"synchronize", HostQueue>> >> ELSE <<>>)

InitTile(c, t) == << <<"attach", c, t>>, <<"create", ImplSlots(c, t)>> >>

\* Mutant: a free waits for the device events only.
FreeWaitsDeviceOnly(c, t) == << <<"wait", {<<c, t, k>> : k \in DevKind}>> >>

\* A device event that no job recorded yet counts as done, so the host events
\* come first: they tell that the queue manager has launched the job.
FreeWaits(c, t) ==
  << <<"wait", HostSlots(t) \cup {<<c, t, k>> : k \in CpuKind}>>,
     <<"wait", {<<c, t, k>> : k \in DevKind}>> >>

FreeTile(c, t) ==
  FreeWaits(c, t) \o << <<"release", ImplSlots(c, t)>>, <<"detach", c, t>> >>
FreeHostInner(t) == << <<"release", HostSlots(t)>>, <<"freehost", t>> >>

\* The loop over all ctrls in a call that concerns those t is attached to.
IfAttached(op, t) == [i \in 1 .. NCtrls |-> <<op, i - 1, t>>]
-----------------------------------------------------------------------------
(* The calls of the program, made when the main thread has nothing left    *)
(* to do.  It uses tiles that are attached, and frees selections before    *)
(* the tile they are made from.                                            *)
Live(t) == <<Host, t>> \in records
Attached(c, t) == <<c, t>> \in type
\* Freed from some of its ctrls but not from all.
HalfFreed(t) == \E c \in Ctrl : Attached(c, t) /\ <<c, t>> \notin records
Usable(c, t) == /\ Live(t)
                /\ <<c, t>> \in records
                /\ Allocated(<<c, t>>)
                /\ HalfFreed(t) => Careless

Call(ops) ==
  /\ todo = <<>>
  /\ todo' = ops
  /\ UNCHANGED <<policy, ref_count, slotVars, queueVars, running>>

JobCall(ops) ==
  /\ jobs < MaxJobs
  /\ jobs' = jobs + 1
  /\ Call(ops)

SetStatus(host, dev) ==
  /\ host_status' = host
  /\ device_status' = dev
  /\ UNCHANGED <<type, records, valid_impls>>

\* Mutant: a tile that is attached already is initialised again.
InitTileAlways(c, t) == InitTile(c, t)

InitTileOnce(c, t) == IF Attached(c, t) THEN <<>> ELSE InitTile(c, t)

\* Host memory is allocated once, by the first ctrl.
Alloc(c, t) ==
  /\ Owner(t) /\ Live(t)
  /\ HalfFreed(t) => Careless
  /\ Call(InitTileOnce(c, t))
  /\ SetStatus([host_status EXCEPT ![t] = IF @ = "UNALLOC" THEN "INVALID" ELSE @],
               [device_status EXCEPT ![<<c, t>>] = IF @ = "UNALLOC" THEN "INVALID"
                                                                    ELSE @])
  /\ memory' = memory
       \cup {b \in {<<Host, t>>} : host_status[t] = "UNALLOC"}
       \cup {b \in {<<c, t>>} : ~Allocated(b)}
  /\ UNCHANGED jobs

Select(s) ==
  LET t == Selected[s]
  IN /\ Live(t) /\ ~Live(s)
     /\ valid_impls[s] = 0 /\ host_status[s] = "UNALLOC"  \* not selected before
     /\ HalfFreed(t) => Careless
     /\ \E c \in Ctrl : Attached(c, t)
     /\ Call(<< <<"domain", s>>, <<"create", HostSlots(s)>> >> \o IfAttached("selectif", s))
     /\ SetStatus([host_status EXCEPT ![s] = host_status[t]], device_status)
     /\ UNCHANGED <<jobs, memory>>

Move(c, t, ops) ==
  /\ Usable(c, t) /\ host_status[t] # "UNALLOC"
  /\ JobCall(ops)
  /\ SetStatus([host_status EXCEPT ![t] = "VALID"],
               [device_status EXCEPT ![<<c, t>>] = "VALID"])
  /\ UNCHANGED memory

MoveTo(c, t)   == Move(c, t, MoveToInner(c, t))
MoveFrom(c, t) == Move(c, t, MoveFromInner(c, t))

\* Copies on the ctrls that a write elsewhere makes out of date.
Invalidated(t) ==
  [b \in DOMAIN device_status |->
     IF b[2] = t /\ b \in type /\ device_status[b] = "VALID" THEN "INVALID"
     ELSE device_status[b]]

Launch(c, t, r) ==
  /\ Usable(c, t)
  /\ JobCall(LaunchInner(c, t, r))
  /\ IF r = "IN" THEN SetStatus(host_status, device_status)
     ELSE SetStatus([host_status EXCEPT ![t] = IF @ = "VALID" THEN "INVALID" ELSE @],
                    [Invalidated(t) EXCEPT ![<<c, t>>] = "VALID"])
  /\ UNCHANGED memory

HostTask(t, r) ==
  /\ Live(t) /\ host_status[t] # "UNALLOC"
  /\ HalfFreed(t) => Careless
  /\ JobCall(HostTaskInner(t, r))
  /\ IF r = "IN" THEN SetStatus(host_status, device_status)
     ELSE SetStatus([host_status EXCEPT ![t] = "VALID"], Invalidated(t))
  /\ UNCHANGED memory

MayFree(t) == Live(t) /\ \A s \in Selections : Selected[s] = t => ~Live(s)

Free(c, t) ==
  /\ MayFree(t)
  /\ <<c, t>> \in records
  /\ Call(FreeTile(c, t))
  /\ UNCHANGED <<jobs, tileVars>>

\* Ctrl_Free(NULL, t).
FreeAll(t) ==
  /\ MayFree(t)
  /\ ~Careless => <<NCtrls - 1, t>> \in records /\ ~HalfFreed(t)
  /\ Call(IfAttached("freeif", t))
  /\ UNCHANGED <<jobs, tileVars>>
-----------------------------------------------------------------------------
(* Events. *)
\* The events a slot is made to hold are numbered apart from all in use.
InUse == DOMAIN ref_count
         \cup UNION {{running[q][i].id : i \in DOMAIN running[q]} : q \in DriverQueue}
Unused(s) == {k \in 0 .. Cardinality(InUse) : Event(s, k) \notin InUse}
NewEvent(s) == Event(s, CHOOSE k \in Unused(s) : \A j \in Unused(s) : k <= j)

Retained(e) == [ref_count EXCEPT ![e] = @ + 1]

\* Ctrl_GenericEvent_Release, n[e] times for each event: one whose counter
\* reaches 0 is destroyed.
Released(n) ==
  [e \in {x \in DOMAIN ref_count : ref_count[x] > n[x]} |-> ref_count[e] - n[e]]

HostEventDone(at) == last_finished[at[1]] >= at[2]
DevEventDone(e) ==
  \A q \in DriverQueue : \A i \in DOMAIN running[q] : running[q][i].id # e
EventDone(e, at) == IF IsDev(e) THEN DevEventDone(e) ELSE HostEventDone(at)
-----------------------------------------------------------------------------
(* The main thread does its next operation. *)
Op(name) == todo # <<>> /\ Head(todo)[1] = name
NextOp   == todo' = Tail(todo)

\* A task as it is pushed: it copies the event and what it recorded.
Task(kind, s, t) ==
  [kind |-> kind, tile |-> t,
   id |-> IF kind = "hosttask" THEN NoEvent ELSE slot[s],
   at |-> IF s \in CpuSlot THEN recorded[s] ELSE Unrecorded]

PushOn(q, task) ==
  /\ queue' = [queue EXCEPT ![q] = Append(@, task)]
  /\ pushed' = [pushed EXCEPT ![q] = @ + 1]
  /\ UNCHANGED last_finished

\* Mutant: the queued wait does not hold the event.
HeldByWaitNot(e) == ref_count

\* The task of Ctrl_GenericEvent_StreamWait holds the event too.
HeldByWait(e) == Retained(e)

\* Ctrl_GenericEvent_StreamWait retains the event and then pushes the task;
\* nobody comes between, as the event is only reached through the variable.
PushWait ==
  /\ Op("streamwait") /\ NextOp
  /\ LET q == Head(todo)[2]
         s == Head(todo)[3]
     IN /\ ref_count' = HeldByWait(slot[s])
        /\ PushOn(q, Task("wait", s, NoTile))
  /\ UNCHANGED <<policy, jobs, tileVars, slotVars, running>>

Retain ==
  /\ Op("retain") /\ NextOp
  /\ ref_count' = Retained(slot[Head(todo)[2]])
  /\ UNCHANGED <<policy, jobs, tileVars, slotVars, queueVars, running>>

PushTask ==
  /\ Op("push") /\ NextOp
  /\ LET q == Head(todo)[2]
         kind == Head(todo)[3]
         s == Head(todo)[4]
     IN PushOn(q, Task(kind, s, Head(todo)[5]))
  /\ UNCHANGED <<policy, jobs, tileVars, slotVars, ref_count, running>>

Release ==
  /\ Op("release") /\ NextOp
  /\ LET S == Head(todo)[2]
     IN /\ ref_count' = Released([e \in DOMAIN ref_count |->
                             Cardinality({s \in S : slot[s] = e})])
        /\ slot' = [s \in Slot |-> IF s \in S THEN NoEvent ELSE slot[s]]
  /\ UNCHANGED <<policy, jobs, tileVars, recorded, queueVars, running>>

Create ==
  /\ Op("create") /\ NextOp
  /\ LET S == Head(todo)[2]
     IN /\ slot' = [s \in Slot |-> IF s \in S THEN NewEvent(s) ELSE slot[s]]
        /\ recorded' = [s \in CpuSlot |-> IF s \in S THEN Unrecorded ELSE recorded[s]]
        /\ ref_count' = [e \in DOMAIN ref_count \cup {NewEvent(s) : s \in S} |->
                           IF e \in DOMAIN ref_count THEN ref_count[e] ELSE 1]
  /\ UNCHANGED <<policy, jobs, tileVars, queueVars, running>>

\* Assigns the event of another slot and retains it.
Share ==
  /\ Op("share") /\ NextOp
  /\ slot' = [slot EXCEPT ![Head(todo)[2]] = slot[Head(todo)[3]]]
  /\ ref_count' = Retained(slot[Head(todo)[3]])
  /\ UNCHANGED <<policy, jobs, tileVars, recorded, queueVars, running>>

Record ==
  /\ Op("record") /\ NextOp
  /\ LET q == Head(todo)[3]
     IN recorded' = [recorded EXCEPT ![Head(todo)[2]] = <<q, pushed[q]>>]
  /\ UNCHANGED <<policy, jobs, tileVars, slot, ref_count, queueVars, running>>

Wait ==
  /\ Op("wait") /\ NextOp
  /\ \A s \in Head(todo)[2] : IF IsDev(s) THEN DevEventDone(slot[s])
                                          ELSE HostEventDone(recorded[s])
  /\ UNCHANGED <<policy, jobs, tileVars, slotVars, ref_count, queueVars, running>>

Synchronize ==
  /\ Op("synchronize") /\ NextOp
  /\ LET q == Head(todo)[2] IN last_finished[q] = pushed[q]
  /\ UNCHANGED <<policy, jobs, tileVars, slotVars, ref_count, queueVars, running>>

Domain ==
  /\ Op("domain") /\ NextOp
  /\ records' = records \cup {<<Host, Head(todo)[2]>>}
  /\ UNCHANGED <<policy, jobs, type, valid_impls, memory, host_status, device_status,
                 slotVars, ref_count, queueVars, running>>

Attach ==
  /\ Op("attach") /\ NextOp
  /\ LET b == <<Head(todo)[2], Head(todo)[3]>>
     IN /\ type' = type \cup {b}
        /\ records' = records \cup {b}
        /\ valid_impls' = [valid_impls EXCEPT ![b[2]] = @ + 1]
  /\ UNCHANGED <<policy, jobs, memory, host_status, device_status, slotVars, ref_count,
                 queueVars, running>>

\* The selection gets a part of what the tile it is made from has on a ctrl.
SelectIfAttached ==
  /\ Op("selectif")
  /\ LET c == Head(todo)[2]
         s == Head(todo)[3]
         t == Selected[s]
     IN /\ todo' = (IF Attached(c, t) THEN InitTile(c, s) \o << <<"peek", c, t>> >> ELSE <<>>)
                   \o Tail(todo)
        /\ device_status' = [device_status EXCEPT
             ![<<c, s>>] = IF Attached(c, t) THEN device_status[<<c, t>>] ELSE @]
  /\ UNCHANGED <<policy, jobs, type, records, valid_impls, memory, host_status, slotVars,
                 ref_count, queueVars, running>>

\* Reads the parent's record on a ctrl.
Peek ==
  /\ Op("peek") /\ NextOp
  /\ UNCHANGED <<policy, jobs, tileVars, slotVars, ref_count, queueVars, running>>

\* Mutant: the host part goes with the last but one ctrl.
LastImplEarly(t) == valid_impls[t] = 2

LastImpl(t) == valid_impls[t] = 1

\* The end of a free.  Type and device_status stay as they were.
Detach ==
  /\ Op("detach")
  /\ LET c == Head(todo)[2]
         t == Head(todo)[3]
     IN /\ todo' = (IF LastImpl(t) THEN FreeHostInner(t) ELSE <<>>) \o Tail(todo)
        /\ valid_impls' = [valid_impls EXCEPT ![t] = @ - 1]
        /\ records' = records \ {<<c, t>>}
        /\ memory' = IF Owner(t) THEN memory \ {<<c, t>>} ELSE memory
  /\ UNCHANGED <<policy, jobs, type, host_status, device_status, slotVars, ref_count,
                 queueVars, running>>

FreeHost ==
  /\ Op("freehost") /\ NextOp
  /\ LET t == Head(todo)[2]
     IN /\ records' = records \ {<<Host, t>>}
        /\ memory' = IF Owner(t) THEN memory \ {<<Host, t>>} ELSE memory
  /\ UNCHANGED <<policy, jobs, type, valid_impls, host_status, device_status, slotVars,
                 ref_count, queueVars, running>>

FreeIfAttached ==
  /\ Op("freeif")
  /\ LET c == Head(todo)[2]
         t == Head(todo)[3]
     IN todo' = (IF <<c, t>> \in type THEN FreeTile(c, t) ELSE <<>>) \o Tail(todo)
  /\ UNCHANGED <<policy, jobs, tileVars, slotVars, ref_count, queueVars, running>>
-----------------------------------------------------------------------------
(* The other threads.  A task is dequeued, done, its event released and    *)
(* the task counted in one step: nobody else looks at the read index, and  *)
(* the count is what the others wait for.                                  *)
Consume(q) ==
  /\ queue[q] # <<>>
  /\ queue' = [queue EXCEPT ![q] = Tail(@)]
  /\ last_finished' = [last_finished EXCEPT ![q] = @ + 1]
  /\ ref_count' = Released([e \in DOMAIN ref_count |->
                           IF e = Head(queue[q]).id THEN 1 ELSE 0])
  /\ UNCHANGED <<policy, todo, jobs, tileVars, slotVars, pushed>>

\* The queue manager passes a wait for a device event on to the driver, and
\* leaves a wait for a host event where it is until it is over.
ManagerWait(q) ==
  /\ Consume(q)
  /\ LET task == Head(queue[q])
     IN task.kind = "wait" /\ (IsDev(task.id) \/ HostEventDone(task.at))
  /\ UNCHANGED running

\* It launches a job on the driver stream and records its event behind it.
ManagerLaunch(q) ==
  /\ Consume(q)
  /\ Head(queue[q]).kind # "wait"
  /\ running' = [running EXCEPT ![q] = Append(@, Head(queue[q]))]

\* The host thread waits itself, and runs host tasks.
HostRun ==
  /\ Consume(HostQueue)
  /\ LET task == Head(queue[HostQueue])
     IN task.kind = "wait" => EventDone(task.id, task.at)
  /\ UNCHANGED running

DriverDone(q) ==
  /\ running[q] # <<>>
  /\ running' = [running EXCEPT ![q] = Tail(@)]
  /\ UNCHANGED <<policy, todo, jobs, tileVars, slotVars, ref_count, queueVars>>

\* The program may end here: everything it asked for is done.
Finished ==
  /\ todo = <<>>
  /\ \A q \in Queue : last_finished[q] = pushed[q]
  /\ \A q \in DriverQueue : running[q] = <<>>
  /\ UNCHANGED vars
-----------------------------------------------------------------------------
Init ==
  \E start \in Starts :
  LET A == start[2]
      used == (UNION {HostSlots(t) : t \in Domains})
              \cup (UNION {{HostSeq(c), DevSeq(c)} : c \in Ctrl})
              \cup (UNION {ImplSlots(b[1], b[2]) : b \in A})
      allocated == A \cup {<<Host, b[2]>> : b \in A}
  IN /\ policy = start[1]
     /\ todo = <<>> /\ jobs = 0
     /\ type = A
     /\ records = A \cup {<<Host, t>> : t \in Domains}
     /\ valid_impls = [t \in Tiles |-> Cardinality({b \in A : b[2] = t})]
     /\ memory = allocated
     /\ host_status = [t \in Tiles |-> IF <<Host, t>> \in allocated THEN "INVALID"
                                       ELSE "UNALLOC"]
     /\ device_status = [b \in Ctrl \X Tiles |-> IF b \in A THEN "INVALID"
                                                 ELSE "UNALLOC"]
     /\ slot = [s \in Slot |-> IF s \in used THEN Event(s, 0) ELSE NoEvent]
     /\ recorded = [s \in CpuSlot |-> Unrecorded]
     /\ ref_count = [e \in {Event(s, 0) : s \in used} |-> 1]
     /\ queue = [q \in Queue |-> <<>>]
     /\ pushed = [q \in Queue |-> 0]
     /\ last_finished = [q \in Queue |-> 0]
     /\ running = [q \in DriverQueue |-> <<>>]

CallStep ==
  \/ \E t \in Tiles : FreeAll(t) \/ \E c \in Ctrl : Alloc(c, t) \/ Free(c, t)
  \/ \E s \in Selections : Select(s)
  \/ \E j \in Jobs :
       \/ j[1] = "moveto" /\ MoveTo(j[2], j[3])
       \/ j[1] = "movefrom" /\ MoveFrom(j[2], j[3])
       \/ j[1] = "launch" /\ Launch(j[2], j[3], j[4])
       \/ j[1] = "hosttask" /\ HostTask(j[3], j[4])

MainStep ==
  \/ PushWait \/ Retain \/ PushTask \/ Release \/ Create \/ Share \/ Record \/ Wait
  \/ Synchronize \/ Domain \/ Attach \/ SelectIfAttached \/ Peek \/ Detach \/ FreeHost
  \/ FreeIfAttached

ThreadStep ==
  \/ \E q \in DriverQueue : ManagerWait(q) \/ ManagerLaunch(q) \/ DriverDone(q)
  \/ HostRun

Next == CallStep \/ MainStep \/ ThreadStep \/ Finished
Spec == Init /\ [][Next]_vars
-----------------------------------------------------------------------------
TypeOK ==
  /\ jobs \in 0 .. MaxJobs
  /\ type \subseteq Ctrl \X Tiles
  /\ records \subseteq ({Host} \cup Ctrl) \X Tiles
  /\ valid_impls \in [Tiles -> 0 .. NCtrls]
  /\ memory \subseteq ({Host} \cup Ctrl) \X Domains
  /\ host_status \in [Tiles -> {"UNALLOC", "INVALID", "VALID"}]
  /\ device_status \in [Ctrl \X Tiles -> {"UNALLOC", "INVALID", "VALID"}]
  /\ \A e \in DOMAIN ref_count : ref_count[e] \in Nat \ {0}
  /\ \A q \in Queue : last_finished[q] \in 0 .. pushed[q]

\* Who holds event e: variables in scope, queued tasks (the n-th of a queue),
\* and the task that is pushed next.
SlotsWith(e) == {s \in Slot : slot[s] = e /\ (s = KernelEvent => todo # <<>>)}
TasksWith(e) ==
  UNION {{<<q, last_finished[q] + i>> : i \in {j \in DOMAIN queue[q] : queue[q][j].id = e}} :
           q \in Queue}
HoldsNext(e) == /\ Op("push") /\ Head(todo)[3] # "hosttask"
                /\ slot[Head(todo)[4]] = e

\* The counter of an event is the number of variables and tasks that hold it
\* (Ctrl_GenericEvent_Retain and _Release balance in every call and thread):
\* so no event is destroyed while a tile or a queued wait refers to it, and
\* none is left behind when nobody does.
CountsExact ==
  /\ \A s \in Slot : slot[s] \in DOMAIN ref_count \cup {NoEvent}
  /\ \A q \in Queue : \A i \in DOMAIN queue[q] :
       queue[q][i].id \in DOMAIN ref_count \cup {NoEvent}
  /\ \A e \in DOMAIN ref_count :
       ref_count[e] = Cardinality(SlotsWith(e)) + Cardinality(TasksWith(e))
                      + (IF HoldsNext(e) THEN 1 ELSE 0)

BuffersOf(q, task) ==
  CASE task.kind = "kernel"   -> {BufferOf(q[1], task.tile)}
    [] task.kind \in {"moveto", "movefrom"} ->
         {BufferOf(q[1], task.tile), BufferOf(Host, task.tile)}
    [] task.kind = "hosttask" -> {BufferOf(Host, task.tile)}
    [] OTHER -> {}

\* A buffer, and the records a transfer finds it by, stay until every job on
\* it is done: the frees (Ctrl_Cuda_EvalTaskFreeTile, Ctrl_FreeHostInner)
\* wait long enough, also for jobs the queue manager has not launched yet.
MemoryAlive ==
  /\ \A q \in Queue : \A i \in DOMAIN queue[q] :
       /\ BuffersOf(q, queue[q][i]) \subseteq memory
       /\ queue[q][i].kind \in {"moveto", "movefrom"} =>
            {<<q[1], queue[q][i].tile>>, <<Host, queue[q][i].tile>>} \subseteq records
  /\ \A q \in DriverQueue : \A i \in DOMAIN running[q] :
       BuffersOf(q, running[q][i]) \subseteq memory

\* The records an operation of the main thread reads or writes.
RecordOf(s) == IF s[2] = NoTile THEN {} ELSE {<<s[1], s[2]>>}
TouchedBy(o) ==
  CASE o[1] \in {"retain", "record"} -> RecordOf(o[2])
    [] o[1] = "push"  -> RecordOf(o[4])
    [] o[1] = "streamwait" -> RecordOf(o[3])
    [] o[1] = "share" -> RecordOf(o[2]) \cup RecordOf(o[3])
    [] o[1] \in {"release", "create", "wait"} -> UNION {RecordOf(s) : s \in o[2]}
    [] o[1] \in {"peek", "detach"} -> {<<o[2], o[3]>>, <<Host, o[3]>>}
    [] o[1] \in {"attach", "freeif"} -> {<<Host, o[3]>>}
    [] o[1] = "selectif" -> {<<Host, o[3]>>, <<Host, Selected[o[3]]>>}
    [] o[1] = "freehost" -> {<<Host, o[2]>>}
    [] OTHER -> {}

\* No call reads a record of a tile that was freed, although nothing marks
\* the record of a ctrl as freed (p_impls[c].type keeps its value).
NoStaleRecord == todo # <<>> => TouchedBy(Head(todo)) \subseteq records
=============================================================================
