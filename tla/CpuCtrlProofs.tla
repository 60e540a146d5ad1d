---------------------------- MODULE CpuCtrlProofs ----------------------------
(***************************************************************************)
(* For any number of ctrls and tiles, every policy and mode and whatever   *)
(* the program launches: events name jobs already pushed, and the stream   *)
(* threads never wait for one another for ever; then, conflicting jobs run *)
(* in the order of their pushes; last, every task finds in memory what it  *)
(* would find if each launch were a call, and a copy marked VALID is the   *)
(* last version of its tile: the order reduces this to a claim about the   *)
(* list of jobs alone, the claim the statuses are kept for.                *)
(***************************************************************************)
EXTENDS CpuCtrl, WellFoundedInduction, TLAPS

\* Jobs wait for earlier jobs only; a transfer reads a buffer.
JobsInv ==
  /\ jobs \in Seq(Job)
  /\ WaitsAreEarlier
  /\ \A n \in DOMAIN jobs : IsTask(n) \/ jobs[n].reads # {}

MainInv ==
  /\ main \in MainState
  /\ main.arg >= 1
  /\ main.pc = "kernel" => main.ctrl \in Ctrl

\* Every event names one of the first n jobs.
EventsUpTo(n) ==
  /\ pending \in [Stream -> SUBSET (1 .. n)]
  /\ last_host_read \in [Tiles -> 0 .. n]
  /\ last_host_write \in [Tiles -> 0 .. n]
  /\ last_kernel_read \in [Ctrl \X Tiles -> 0 .. n]
  /\ last_kernel_write \in [Ctrl \X Tiles -> 0 .. n]
  /\ last_htd \in [Ctrl \X Tiles -> 0 .. n]
  /\ last_dth \in [Ctrl \X Tiles -> 0 .. n]
  /\ seq_event \in [Ctrl -> 0 .. n]

EventsInv == EventsUpTo(Len(jobs))

StatusInv ==
  /\ attached \subseteq Ctrl \X Tiles
  /\ mode \in [Ctrl -> Modes]
  /\ host_status \in [Tiles -> Status]
  /\ device_status \in [Ctrl \X Tiles -> Status]

ExecInv ==
  /\ Started \subseteq DOMAIN jobs
  /\ done \subseteq Started
  /\ mem \in [Buffer -> 0 .. Len(jobs)]
  /\ \A n \in Started : seen[n] \in [jobs[n].reads -> 0 .. Len(jobs)]

\* The inductive invariant.
CtrlInv == JobsInv /\ MainInv /\ EventsInv /\ StatusInv /\ ExecInv
-----------------------------------------------------------------------------
\* A set of naturals has a least element.
LEMMA NatMinimum ==
  ASSUME NEW S \in SUBSET Nat, S # {}
  PROVE  \E n \in S : \A m \in S : n <= m
<1>. DEFINE less == {ss \in Nat \X Nat : ss[1] < ss[2]}
<1>1. IsWellFoundedOn(less, Nat)
  BY NatLessThanWellFounded DEF OpToRel
<1>2. PICK n \in S : \A m \in S : ~(<<m, n>> \in less)
  BY <1>1, WFMin, Zenon
<1>3. \A m \in S : m < n => <<m, n>> \in less
  BY SMT
<1>. HIDE DEF less
<1>4. ASSUME NEW m \in S PROVE n <= m
  <2>1. ~(m < n)
    BY <1>2, <1>3
  <2>2. m \in Nat /\ n \in Nat
    OBVIOUS
  <2>. QED
    BY <2>1, <2>2, SMT
<1>. QED
  BY <1>4

\* The first ctrl with a valid copy is one of them.
LEMMA FirstIsMember ==
  ASSUME NEW S \in SUBSET Ctrl, S # {} PROVE First(S) \in S
<1>1. S \in SUBSET Nat
  BY CpuCtrlAssumption, SMT DEF Ctrl
<1>2. \E c \in S : \A d \in S : c <= d
  BY <1>1, NatMinimum
<1>. QED
  BY <1>2 DEF First

\* A push adds a job behind the others and changes none of them.
LEMMA PushGrows ==
  ASSUME JobsInv, EventsInv,
         NEW s \in Stream, NEW reads \in SUBSET Buffer,
         NEW writes \in SUBSET Buffer, NEW events \in SUBSET (0 .. Len(jobs)),
         s[2] \in {"kernel", "host"} \/ reads # {},
         Push(s, reads, writes, events)
  PROVE  /\ JobsInv'
         /\ Len(jobs') = Len(jobs) + 1
         /\ \A n \in DOMAIN jobs : jobs'[n] = jobs[n]
<1>1. pending[s] \subseteq 1 .. Len(jobs)
  BY SMT DEF EventsInv, EventsUpTo, JobsInv
<1>. DEFINE job == [stream |-> s, reads |-> reads, writes |-> writes,
                    waits |-> (pending[s] \cup events) \ {0}]
<1>2. job.waits \subseteq 1 .. Len(jobs)
  <2>1. Len(jobs) \in Nat
    BY SMT DEF JobsInv
  <2>2. events \ {0} \subseteq 1 .. Len(jobs)
    BY <2>1, SMT
  <2>3. job.waits = (pending[s] \cup events) \ {0}
    OBVIOUS
  <2>. HIDE DEF job
  <2>. QED
    BY <1>1, <2>2, <2>3
<1>3. job \in Job
  BY <1>2, SMT DEF Job
<1>4. jobs' = Append(jobs, job)
  BY DEF Push
<1>. HIDE DEF job
<1>5. /\ jobs' \in Seq(Job)
      /\ Len(jobs') = Len(jobs) + 1
      /\ DOMAIN jobs = 1 .. Len(jobs)
      /\ DOMAIN jobs' = 1 .. Len(jobs) + 1
      /\ \A n \in 1 .. Len(jobs) : jobs'[n] = jobs[n]
      /\ jobs'[Len(jobs) + 1] = job
  BY <1>3, <1>4, SMT DEF JobsInv
<1>6. ASSUME NEW n \in DOMAIN jobs' PROVE jobs'[n].waits \subseteq 1 .. n - 1
  <2>1. CASE n = Len(jobs) + 1
    BY <2>1, <1>2, <1>5, SMT DEF JobsInv
  <2>2. CASE n \in DOMAIN jobs
    BY <2>2, <1>5 DEF JobsInv, WaitsAreEarlier
  <2>. QED
    BY <2>1, <2>2, <1>5, SMT DEF JobsInv
<1>7. ASSUME NEW n \in DOMAIN jobs'
      PROVE  jobs'[n].stream[2] \in {"kernel", "host"} \/ jobs'[n].reads # {}
  <2>1. CASE n = Len(jobs) + 1
    BY <2>1, <1>5 DEF job
  <2>2. CASE n \in DOMAIN jobs
    BY <2>2, <1>5 DEF JobsInv, IsTask
  <2>. QED
    BY <2>1, <2>2, <1>5, SMT DEF JobsInv
<1>. QED
  BY <1>5, <1>6, <1>7 DEF JobsInv, WaitsAreEarlier, IsTask

\* What is known of jobs and memory stays true when jobs are added.
LEMMA PushKeepsExec ==
  ASSUME JobsInv, ExecInv, JobsInv', Len(jobs') = Len(jobs) + 1,
         \A n \in DOMAIN jobs : jobs'[n] = jobs[n], UNCHANGED execVars
  PROVE  ExecInv'
<1>1. DOMAIN jobs \subseteq DOMAIN jobs'
  BY SMT DEF JobsInv
<1>2. 0 .. Len(jobs) \subseteq 0 .. Len(jobs')
  BY SMT DEF JobsInv
<1>3. UNCHANGED <<seen, done, mem>>
  BY DEF execVars
<1>4. mem' \in [Buffer -> 0 .. Len(jobs')]
  BY <1>2, <1>3, SMT DEF ExecInv
<1>5. \A n \in Started : seen[n] \in [jobs'[n].reads -> 0 .. Len(jobs')]
  BY <1>2, SMT DEF ExecInv
<1>. QED
  BY <1>1, <1>3, <1>4, <1>5 DEF ExecInv, Started

\* A function stays in its function space when it is updated within it.
LEMMA UpdateTyped ==
  ASSUME NEW D, NEW R, NEW f \in [D -> R], NEW d, NEW r \in R
  PROVE  [f EXCEPT ![d] = r] \in [D -> R]
  OBVIOUS

\* Events stay within the jobs pushed when one more is.
LEMMA EventsGrow ==
  ASSUME NEW n \in Nat, EventsUpTo(n) PROVE EventsUpTo(n + 1)
<1>1. 0 .. n \subseteq 0 .. n + 1 /\ 1 .. n \subseteq 1 .. n + 1
  BY SMT
<1>. QED
  BY <1>1, SMT DEF EventsUpTo

\* After one more push events still name jobs pushed.
LEMMA EventsAfterPush ==
  ASSUME JobsInv, EventsInv
  PROVE  Len(jobs) \in Nat /\ EventsUpTo(Len(jobs) + 1)
<1>1. jobs \in Seq(Job)
  BY DEF JobsInv
<1>2. Len(jobs) \in Nat
  BY <1>1, SMT
<1>3. EventsUpTo(Len(jobs))
  BY DEF EventsInv
<1>. QED
  BY <1>2, <1>3, EventsGrow, Zenon

\* The events each kind of job waits for name jobs already pushed.
LEMMA EventSets ==
  ASSUME JobsInv, EventsInv, StatusInv, NEW c \in Ctrl, NEW t \in Tiles
  PROVE  /\ Len(jobs) \in Nat
         /\ Impls(t) \subseteq Ctrl
         /\ ValidImpls(t) \subseteq Ctrl
         /\ MoveToWait(t) \subseteq 0 .. Len(jobs)
         /\ MoveFromWait(t) \subseteq 0 .. Len(jobs)
         /\ SyncWait \subseteq 0 .. Len(jobs)
         /\ \A role \in Role : DeviceWait(c, t, role) \subseteq 0 .. Len(jobs)
         /\ \A role \in Role : HostTaskWait(t, role) \subseteq 0 .. Len(jobs)
         /\ {last_kernel_read[<<c, t>>], last_kernel_write[<<c, t>>],
             last_host_read[t], last_host_write[t]} \subseteq 0 .. Len(jobs)
<1>1. Len(jobs) \in Nat
  BY SMT DEF JobsInv
<1>2. Impls(t) \subseteq Ctrl /\ ValidImpls(t) \subseteq Ctrl
  BY DEF Impls, ValidImpls
<1>3. /\ 0 \in 0 .. Len(jobs)
      /\ \A i \in Ctrl : /\ last_dth[<<i, t>>] \in 0 .. Len(jobs)
                         /\ last_htd[<<i, t>>] \in 0 .. Len(jobs)
                         /\ last_kernel_read[<<i, t>>] \in 0 .. Len(jobs)
                         /\ last_kernel_write[<<i, t>>] \in 0 .. Len(jobs)
                         /\ seq_event[i] \in 0 .. Len(jobs)
      /\ last_host_read[t] \in 0 .. Len(jobs)
      /\ last_host_write[t] \in 0 .. Len(jobs)
  BY <1>1, SMT DEF EventsInv, EventsUpTo
<1>4. /\ MoveToWait(t) \subseteq 0 .. Len(jobs)
      /\ MoveFromWait(t) \subseteq 0 .. Len(jobs)
  BY <1>2, <1>3 DEF MoveToWait, MoveFromWait
<1>5. SyncWait \subseteq 0 .. Len(jobs)
  BY <1>3 DEF SyncWait
<1>6. \A role \in Role : DeviceWait(c, t, role) \subseteq 0 .. Len(jobs)
  BY <1>3 DEF DeviceWait
<1>7. \A role \in Role : HostTaskWait(t, role) \subseteq 0 .. Len(jobs)
  BY <1>2, <1>3 DEF HostTaskWait
<1>. QED
  BY <1>1, <1>2, <1>3, <1>4, <1>5, <1>6, <1>7

\* The buffers tasks use are buffers of the model.
LEMMA Buffers ==
  ASSUME NEW c \in Ctrl, NEW t \in Tiles
  PROVE  DeviceBuffer(c, t) \in Buffer /\ HostBuffer(t) \in Buffer
  BY DEF DeviceBuffer, HostBuffer, Buffer

\* The streams handlers push on are streams of the model.
LEMMA Streams ==
  ASSUME NEW c \in Ctrl
  PROVE  {<<c, "kernel">>, <<c, "moveTo">>, <<c, "moveFrom">>, HostStream}
           \subseteq Stream
  BY DEF Stream
-----------------------------------------------------------------------------
(* Steps of the main thread.                                               *)

\* A transfer to a device keeps the invariant.
LEMMA MoveToKeepsInv ==
  ASSUME JobsInv, EventsInv, StatusInv, ExecInv,
         NEW c \in Ctrl, NEW t \in Tiles, MoveToInner(c, t)
  PROVE  JobsInv' /\ EventsInv' /\ StatusInv' /\ ExecInv'
<1>. DEFINE s == <<c, "moveTo">>
            events == MoveToWait(t)
              \cup {last_kernel_read[<<c, t>>], last_kernel_write[<<c, t>>],
                    last_host_write[t]}
              \cup SyncWait
<1>1. s \in Stream /\ events \in SUBSET (0 .. Len(jobs))
  BY EventSets, Streams
<1>2. Push(s, {HostBuffer(t)}, {DeviceBuffer(c, t)}, events)
  BY DEF MoveToInner
<1>3. /\ JobsInv'
      /\ Len(jobs') = Len(jobs) + 1
      /\ \A n \in DOMAIN jobs : jobs'[n] = jobs[n]
  <2>. HIDE DEF s, events
  <2>. QED
    BY <1>1, <1>2, Buffers, PushGrows
<1>4. Len(jobs) \in Nat /\ EventsUpTo(Len(jobs) + 1)
  BY EventsAfterPush
<1>5. EventsInv'
  <2>1. Ticket \in 0 .. Len(jobs) + 1
    BY <1>4, SMT DEF Ticket
  <2>2. pending' \in [Stream -> SUBSET (1 .. Len(jobs) + 1)]
    <3>1. pending' = [pending EXCEPT ![s] = {}]
      BY DEF MoveToInner
    <3>2. {} \in SUBSET (1 .. Len(jobs) + 1)
      OBVIOUS
    <3>. QED
      BY <1>4, <3>1, <3>2, UpdateTyped DEF EventsUpTo
  <2>3. last_htd' \in [Ctrl \X Tiles -> 0 .. Len(jobs) + 1]
    BY <1>4, <2>1, SMT DEF EventsUpTo, MoveToInner
  <2>4. seq_event' \in [Ctrl -> 0 .. Len(jobs) + 1]
    BY <1>4, <2>1, SMT DEF EventsUpTo, MoveToInner, RecordSeq
  <2>5. UNCHANGED <<hostEvents, kernelEvents, last_dth>>
    BY DEF MoveToInner
  <2>. QED
    BY <1>3, <1>4, <2>2, <2>3, <2>4, <2>5
       DEF EventsInv, EventsUpTo, hostEvents, kernelEvents
<1>6. StatusInv'
  BY SMT DEF StatusInv, MoveToInner, Status
<1>7. ExecInv'
  BY <1>3, PushKeepsExec DEF MoveToInner
<1>. QED
  BY <1>3, <1>5, <1>6, <1>7

\* A transfer from a device keeps the invariant.
LEMMA MoveFromKeepsInv ==
  ASSUME JobsInv, EventsInv, StatusInv, ExecInv,
         NEW c \in Ctrl, NEW t \in Tiles, MoveFromInner(c, t)
  PROVE  JobsInv' /\ EventsInv' /\ StatusInv' /\ ExecInv'
<1>. DEFINE s == <<c, "moveFrom">>
            events == {last_kernel_write[<<c, t>>], last_host_read[t],
                       last_host_write[t]} \cup SyncWait
<1>1. s \in Stream /\ events \in SUBSET (0 .. Len(jobs))
  BY EventSets, Streams
<1>2. Push(s, {DeviceBuffer(c, t)}, {HostBuffer(t)}, events)
  BY DEF MoveFromInner
<1>3. /\ JobsInv'
      /\ Len(jobs') = Len(jobs) + 1
      /\ \A n \in DOMAIN jobs : jobs'[n] = jobs[n]
  <2>. HIDE DEF s, events
  <2>. QED
    BY <1>1, <1>2, Buffers, PushGrows
<1>4. Len(jobs) \in Nat /\ EventsUpTo(Len(jobs) + 1)
  BY EventsAfterPush
<1>5. MoveFromWait(t) \ {0} \subseteq 1 .. Len(jobs) + 1
  <2>1. MoveFromWait(t) \subseteq 0 .. Len(jobs)
    BY EventSets
  <2>. QED
    BY <1>4, <2>1, SMT
<1>6. EventsInv'
  <2>1. Ticket \in 0 .. Len(jobs) + 1
    BY <1>4, SMT DEF Ticket
  <2>2. pending' \in [Stream -> SUBSET (1 .. Len(jobs) + 1)]
    <3>. DEFINE r == <<c, "moveTo">>
                p == [pending EXCEPT ![r] =
                        pending[r] \cup (MoveFromWait(t) \ {0})]
    <3>1. pending' = [p EXCEPT ![s] = {}]
      BY DEF MoveFromInner
    <3>2. {} \in SUBSET (1 .. Len(jobs) + 1)
      OBVIOUS
    <3>3. pending[r] \cup (MoveFromWait(t) \ {0})
            \in SUBSET (1 .. Len(jobs) + 1)
      BY <1>4, <1>5, Streams DEF EventsUpTo
    <3>4. p \in [Stream -> SUBSET (1 .. Len(jobs) + 1)]
      BY <1>4, <3>3, UpdateTyped DEF EventsUpTo
    <3>. HIDE DEF p
    <3>. QED
      BY <3>1, <3>2, <3>4, UpdateTyped
  <2>3. last_dth' \in [Ctrl \X Tiles -> 0 .. Len(jobs) + 1]
    BY <1>4, <2>1, SMT DEF EventsUpTo, MoveFromInner
  <2>4. seq_event' \in [Ctrl -> 0 .. Len(jobs) + 1]
    BY <1>4, <2>1, SMT DEF EventsUpTo, MoveFromInner, RecordSeq
  <2>5. UNCHANGED <<hostEvents, kernelEvents, last_htd>>
    BY DEF MoveFromInner
  <2>. QED
    BY <1>3, <1>4, <2>2, <2>3, <2>4, <2>5
       DEF EventsInv, EventsUpTo, hostEvents, kernelEvents
<1>7. StatusInv'
  BY SMT DEF StatusInv, MoveFromInner, Status
<1>8. ExecInv'
  BY <1>3, PushKeepsExec DEF MoveFromInner
<1>. QED
  BY <1>3, <1>6, <1>7, <1>8

\* The arguments a launch looks at are tiles of the program.
LEMMA ArgumentsTyped ==
  ASSUME MainInv
  PROVE  /\ Ins(main.args) \subseteq Tiles
         /\ Outs(main.args) \subseteq Tiles
         /\ main.arg <= Len(main.args) => ArgTile \in Tiles /\ ArgRole \in Role
<1>. DEFINE Arg == [tile : Tiles, role : Role]
<1>1. main.args \in Seq(Arg) /\ main.arg \in Nat \ {0}
  <2>1. main.args \in Accesses \cup {<<>>}
    BY DEF MainInv, MainState
  <2>2. Accesses \subseteq Seq(Arg)
    BY CpuCtrlAssumption
  <2>3. <<>> \in Seq(Arg)
    BY SMT
  <2>4. main.arg \in Nat /\ main.arg >= 1
    BY DEF MainInv, MainState
  <2>5. main.arg \in Nat \ {0}
    BY <2>4, SMT
  <2>. QED
    BY <2>1, <2>2, <2>3, <2>5
<1>2. \A i \in DOMAIN main.args : main.args[i] \in Arg
  <2>. HIDE DEF Arg
  <2>. QED
    BY <1>1, SMT
<1>3. main.arg <= Len(main.args) => main.arg \in DOMAIN main.args
  BY <1>1, SMT
<1>. QED
  BY <1>2, <1>3 DEF Ins, Outs, ArgTile, ArgRole

\* Invalidating copies leaves statuses.
LEMMA InvalidateTyped ==
  ASSUME StatusInv, NEW written
  PROVE  InvalidateDevices(written) \in [Ctrl \X Tiles -> Status]
  BY SMT DEF StatusInv, InvalidateDevices, Status

\* Pushing a kernel keeps the invariant.
LEMMA KernelPushKeepsInv == ASSUME CtrlInv, KernelPush PROVE CtrlInv'
<1>. DEFINE c    == main.ctrl
            ins  == Ins(main.args)
            outs == Outs(main.args)
            s    == <<c, "kernel">>
            reads  == {DeviceBuffer(c, t) : t \in ins}
            writes == {DeviceBuffer(c, t) : t \in outs}
            N == Len(jobs) + 1
<1>0. JobsInv /\ MainInv /\ EventsInv /\ StatusInv /\ ExecInv
  BY DEF CtrlInv
<1>1. /\ c \in Ctrl
      /\ s \in Stream
      /\ ins \subseteq Tiles
      /\ outs \subseteq Tiles
  BY <1>0, ArgumentsTyped, Streams DEF KernelPush, MainInv
<1>2. reads \in SUBSET Buffer /\ writes \in SUBSET Buffer
  BY <1>1, Buffers
<1>3. SyncWait \in SUBSET (0 .. Len(jobs))
  <2>1. \A i \in Ctrl : seq_event[i] \in 0 .. Len(jobs)
    BY <1>0, SMT DEF EventsInv, EventsUpTo
  <2>. QED
    BY <2>1 DEF SyncWait
<1>4. Push(s, reads, writes, SyncWait)
  BY DEF KernelPush
<1>5. /\ JobsInv'
      /\ Len(jobs') = N
      /\ \A n \in DOMAIN jobs : jobs'[n] = jobs[n]
  <2>1. s[2] \in {"kernel", "host"}
    OBVIOUS
  <2>. HIDE DEF s, reads, writes
  <2>. QED
    BY <1>0, <1>1, <1>2, <1>3, <1>4, <2>1, PushGrows
<1>6. Len(jobs) \in Nat /\ EventsUpTo(N)
  BY <1>0, EventsAfterPush
<1>7. Ticket \in 0 .. N
  BY <1>6, SMT DEF Ticket
<1>8. EventsInv'
  <2>1. pending' \in [Stream -> SUBSET (1 .. N)]
    <3>1. pending' = [pending EXCEPT ![s] = {}]
      BY DEF KernelPush
    <3>2. {} \in SUBSET (1 .. N)
      OBVIOUS
    <3>. QED
      BY <1>6, <3>1, <3>2, UpdateTyped DEF EventsUpTo
  <2>2. seq_event' \in [Ctrl -> 0 .. N]
    <3>. HIDE DEF N
    <3>. QED
      BY <1>6, <1>7, SMT DEF EventsUpTo, KernelPush, RecordSeq
  <2>3. /\ last_host_read' \in [Tiles -> 0 .. N]
        /\ last_host_write' \in [Tiles -> 0 .. N]
        /\ last_kernel_read' \in [Ctrl \X Tiles -> 0 .. N]
        /\ last_kernel_write' \in [Ctrl \X Tiles -> 0 .. N]
    <3>1. CASE MemMoves[c]
      <4>1. /\ last_kernel_write' = [ct \in Ctrl \X Tiles |->
                 IF ct[1] = c /\ ct[2] \in outs
                 THEN Ticket ELSE last_kernel_write[ct]]
            /\ last_kernel_read' = [ct \in Ctrl \X Tiles |->
                 IF ct[1] = c /\ ct[2] \in ins
                 THEN Ticket ELSE last_kernel_read[ct]]
            /\ UNCHANGED hostEvents
        BY <3>1 DEF KernelPush
      <4>. HIDE DEF N, c, ins, outs
      <4>. QED
        BY <4>1, <1>6, <1>7, SMT DEF EventsUpTo, hostEvents
    <3>2. CASE ~MemMoves[c]
      <4>1. /\ last_host_write' = [t \in Tiles |->
                 IF t \in outs THEN Ticket ELSE last_host_write[t]]
            /\ last_host_read' = [t \in Tiles |->
                 IF t \in ins THEN Ticket ELSE last_host_read[t]]
            /\ UNCHANGED kernelEvents
        BY <3>2 DEF KernelPush
      <4>. HIDE DEF N, c, ins, outs
      <4>. QED
        BY <4>1, <1>6, <1>7, SMT DEF EventsUpTo, kernelEvents
    <3>. QED
      BY <3>1, <3>2
  <2>4. UNCHANGED <<last_htd, last_dth>>
    BY DEF KernelPush
  <2>. QED
    BY <1>5, <1>6, <2>1, <2>2, <2>3, <2>4 DEF EventsInv, EventsUpTo
<1>9. StatusInv'
  <2>1. device_status' = [ct \in Ctrl \X Tiles |->
          IF MemMoves[c] /\ ct[1] = c /\ ct[2] \in outs
          THEN "VALID" ELSE InvalidateDevices(outs)[ct]]
    BY DEF KernelPush
  <2>2. InvalidateDevices(outs) \in [Ctrl \X Tiles -> Status]
    BY <1>0, InvalidateTyped
  <2>3. device_status' \in [Ctrl \X Tiles -> Status]
    <3>. HIDE DEF c, outs
    <3>. QED
      BY <2>1, <2>2, SMT DEF Status
  <2>4. host_status' \in [Tiles -> Status]
    <3>1. \/ host_status' = [t \in Tiles |->
               IF t \in outs /\ host_status[t] = "VALID"
               THEN "INVALID" ELSE host_status[t]]
          \/ host_status' = [t \in Tiles |->
               IF t \in outs THEN "VALID" ELSE host_status[t]]
      BY DEF KernelPush
    <3>. HIDE DEF outs
    <3>. QED
      BY <1>0, <3>1, SMT DEF StatusInv, Status
  <2>5. UNCHANGED <<attached, mode>>
    BY DEF KernelPush
  <2>. QED
    BY <1>0, <2>3, <2>4, <2>5 DEF StatusInv
<1>10. ExecInv'
  BY <1>0, <1>5, PushKeepsExec DEF KernelPush
<1>11. MainInv'
  BY SMT DEF KernelPush, MainInv, MainState, Idle
<1>. QED
  BY <1>5, <1>8, <1>9, <1>10, <1>11 DEF CtrlInv

\* A main thread that blocks has a state of its type (as a record).
LEMMA BlockedRecordTyped ==
  ASSUME NEW call \in Blocked,
         NEW events \in SUBSET Nat, NEW scope \in SUBSET Nat,
         main' = [pc |-> call, ctrl |-> Host, args |-> <<>>, arg |-> 1,
                  events |-> events, scope |-> scope]
  PROVE  MainInv'
<1>1. main' \in MainState
  BY SMT DEF MainState
<1>2. main'.pc = call /\ main'.arg = 1
  OBVIOUS
<1>3. call # "kernel"
  BY DEF Blocked
<1>. QED
  BY <1>1, <1>2, <1>3, SMT DEF MainInv

\* A main thread that blocks has a state of its type.
LEMMA BlockedTyped ==
  ASSUME NEW call \in Blocked,
         NEW events \in SUBSET Nat, NEW scope \in SUBSET Nat,
         main' = [Idle EXCEPT !.pc = call, !.events = events, !.scope = scope]
  PROVE  MainInv'
<1>1. main' = [pc |-> call, ctrl |-> Host, args |-> <<>>, arg |-> 1,
               events |-> events, scope |-> scope]
  BY DEF Idle
<1>. QED
  BY <1>1, BlockedRecordTyped

\* An idle main thread has a state of its type.
LEMMA IdleTyped == ASSUME main' = Idle PROVE MainInv'
<1>1. main' = [pc |-> "idle", ctrl |-> Host, args |-> <<>>, arg |-> 1,
               events |-> {}, scope |-> {}]
  BY DEF Idle
<1>2. main' \in MainState
  BY <1>1, SMT DEF MainState
<1>. QED
  BY <1>1, <1>2, SMT DEF MainInv

\* Pushing a host task keeps the invariant.
LEMMA HostTaskPushKeepsInv == ASSUME CtrlInv, HostTaskPush PROVE CtrlInv'
<1>. DEFINE ins  == Ins(main.args)
            outs == Outs(main.args)
            reads  == {HostBuffer(t) : t \in ins}
            writes == {HostBuffer(t) : t \in outs}
            N == Len(jobs) + 1
<1>0. JobsInv /\ MainInv /\ EventsInv /\ StatusInv /\ ExecInv
  BY DEF CtrlInv
<1>1. ins \subseteq Tiles /\ outs \subseteq Tiles
  BY <1>0, ArgumentsTyped
<1>2. /\ HostStream \in Stream
      /\ reads \in SUBSET Buffer
      /\ writes \in SUBSET Buffer
  BY <1>1 DEF Stream, HostBuffer, Buffer
<1>3. SyncWait \in SUBSET (0 .. Len(jobs))
  <2>1. \A i \in Ctrl : seq_event[i] \in 0 .. Len(jobs)
    BY <1>0, SMT DEF EventsInv, EventsUpTo
  <2>. QED
    BY <2>1 DEF SyncWait
<1>4. Push(HostStream, reads, writes, SyncWait)
  BY DEF HostTaskPush
<1>5. /\ JobsInv'
      /\ Len(jobs') = N
      /\ \A n \in DOMAIN jobs : jobs'[n] = jobs[n]
  <2>1. HostStream[2] \in {"kernel", "host"}
    BY DEF HostStream
  <2>. HIDE DEF reads, writes
  <2>. QED
    BY <1>0, <1>2, <1>3, <1>4, <2>1, PushGrows
<1>6. Len(jobs) \in Nat /\ EventsUpTo(N)
  BY <1>0, EventsAfterPush
<1>7. Ticket \in 0 .. N /\ Ticket \in Nat
  BY <1>6, SMT DEF Ticket
<1>8. EventsInv'
  <2>1. pending' \in [Stream -> SUBSET (1 .. N)]
    <3>1. pending' = [pending EXCEPT ![HostStream] = {}]
      BY DEF HostTaskPush
    <3>2. {} \in SUBSET (1 .. N)
      OBVIOUS
    <3>. QED
      BY <1>6, <3>1, <3>2, UpdateTyped DEF EventsUpTo
  <2>2. /\ last_host_read' \in [Tiles -> 0 .. N]
        /\ last_host_write' \in [Tiles -> 0 .. N]
    <3>1. /\ last_host_write' = [t \in Tiles |->
               IF t \in outs THEN Ticket ELSE last_host_write[t]]
          /\ last_host_read' = [t \in Tiles |->
               IF t \in ins THEN Ticket ELSE last_host_read[t]]
      BY DEF HostTaskPush
    <3>. HIDE DEF N, ins, outs
    <3>. QED
      BY <3>1, <1>6, <1>7, SMT DEF EventsUpTo
  <2>3. UNCHANGED <<last_kernel_read, last_kernel_write, last_htd, last_dth,
                    seq_event>>
    BY DEF HostTaskPush, kernelEvents, ctrlVars
  <2>. QED
    BY <1>5, <1>6, <2>1, <2>2, <2>3 DEF EventsInv, EventsUpTo
<1>9. StatusInv'
  BY <1>0 DEF HostTaskPush, StatusInv, ctrlVars
<1>10. ExecInv'
  BY <1>0, <1>5, PushKeepsExec DEF HostTaskPush
<1>11. MainInv'
  <2>1. \/ main' = Idle
        \/ main' = [Idle EXCEPT !.pc = "wait", !.events = {Ticket},
                                !.scope = {Ticket}]
    BY DEF HostTaskPush
  <2>2. "wait" \in Blocked /\ {Ticket} \in SUBSET Nat
    BY <1>7 DEF Blocked
  <2>. QED
    BY <2>1, <2>2, IdleTyped, BlockedTyped
<1>. QED
  BY <1>5, <1>8, <1>9, <1>10, <1>11 DEF CtrlInv

\* Waits appended to a stream name jobs already pushed.
LEMMA AppendWaits ==
  ASSUME JobsInv, EventsInv, NEW s \in Stream,
         NEW events \in SUBSET (0 .. Len(jobs)),
         pending' = [pending EXCEPT ![s] = pending[s] \cup (events \ {0})]
  PROVE  pending' \in [Stream -> SUBSET (1 .. Len(jobs))]
<1>1. events \ {0} \subseteq 1 .. Len(jobs)
  <2>1. Len(jobs) \in Nat
    BY SMT DEF JobsInv
  <2>. QED
    BY <2>1, SMT
<1>2. pending[s] \cup (events \ {0}) \in SUBSET (1 .. Len(jobs))
  BY <1>1 DEF EventsInv, EventsUpTo
<1>. QED
  BY <1>2, UpdateTyped DEF EventsInv, EventsUpTo

\* Advancing to the next argument keeps the type of the main thread.
LEMMA NextArgTyped ==
  ASSUME MainInv, main' = NextArg PROVE MainInv'
<1>1. main.arg \in Nat
  BY DEF MainInv, MainState
<1>. QED
  BY <1>1, SMT DEF MainInv, MainState, NextArg

\* The waits for an argument of a kernel keep the invariant.
LEMMA KernelArgWaitKeepsInv == ASSUME CtrlInv, KernelArgWait PROVE CtrlInv'
<1>. DEFINE c == main.ctrl
            events == IF MemMoves[c] THEN DeviceWait(c, ArgTile, ArgRole)
                                     ELSE HostTaskWait(ArgTile, ArgRole)
<1>1. JobsInv /\ MainInv /\ EventsInv /\ StatusInv /\ ExecInv
  BY DEF CtrlInv
<1>2. c \in Ctrl /\ ArgTile \in Tiles /\ ArgRole \in Role
  BY <1>1, ArgumentsTyped DEF KernelArgWait, ArgLeft, MainInv
<1>3. events \in SUBSET (0 .. Len(jobs))
  BY <1>1, <1>2, EventSets
<1>4. pending' = [pending EXCEPT ![<<c, "kernel">>] =
                    pending[<<c, "kernel">>] \cup (events \ {0})]
  BY DEF KernelArgWait
<1>5. pending' \in [Stream -> SUBSET (1 .. Len(jobs))]
  <2>. HIDE DEF events
  <2>. QED
    BY <1>1, <1>2, <1>3, <1>4, Streams, AppendWaits
<1>6. UNCHANGED <<jobs, tileVars, ctrlVars, execVars>> /\ main' = NextArg
  BY DEF KernelArgWait
<1>. QED
  BY <1>1, <1>5, <1>6, NextArgTyped
     DEF CtrlInv, JobsInv, EventsInv, EventsUpTo, StatusInv, ExecInv, Started,
         WaitsAreEarlier, IsTask, tileVars, ctrlVars, execVars, hostEvents,
         kernelEvents

\* The waits and statuses of an argument of a host task keep the invariant.
LEMMA HostTaskArgWaitKeepsInv ==
  ASSUME CtrlInv, HostTaskArgWait PROVE CtrlInv'
<1>. DEFINE written == {u \in {ArgTile} : ArgRole # "IN"}
            events == HostTaskWait(ArgTile, ArgRole)
<1>1. JobsInv /\ MainInv /\ EventsInv /\ StatusInv /\ ExecInv
  BY DEF CtrlInv
<1>2. ArgTile \in Tiles /\ ArgRole \in Role
  BY <1>1, ArgumentsTyped DEF HostTaskArgWait, ArgLeft
<1>3. events \in SUBSET (0 .. Len(jobs))
  <2>1. \E c : c \in Ctrl
    BY CpuCtrlAssumption, SMT DEF Ctrl
  <2>. QED
    BY <1>1, <1>2, <2>1, EventSets
<1>4. pending' = [pending EXCEPT ![HostStream] =
                    pending[HostStream] \cup (events \ {0})]
  BY DEF HostTaskArgWait
<1>5. pending' \in [Stream -> SUBSET (1 .. Len(jobs))]
  <2>. HIDE DEF events
  <2>. QED
    BY <1>1, <1>3, <1>4, AppendWaits DEF Stream
<1>6. device_status' \in [Ctrl \X Tiles -> Status]
  BY <1>1, InvalidateTyped DEF HostTaskArgWait
<1>7. host_status' \in [Tiles -> Status]
  <2>1. host_status' = [u \in Tiles |->
          IF u \in written THEN "VALID" ELSE host_status[u]]
    BY DEF HostTaskArgWait
  <2>. HIDE DEF written
  <2>. QED
    BY <1>1, <2>1, SMT DEF StatusInv, Status
<1>8. /\ UNCHANGED <<jobs, attached, hostEvents, kernelEvents, last_htd,
                     last_dth, ctrlVars, execVars>>
      /\ main' = NextArg
  BY DEF HostTaskArgWait
<1>. QED
  BY <1>1, <1>5, <1>6, <1>7, <1>8, NextArgTyped
     DEF CtrlInv, JobsInv, EventsInv, EventsUpTo, StatusInv, ExecInv, Started,
         WaitsAreEarlier, IsTask, ctrlVars, execVars, hostEvents, kernelEvents

\* A step of the main thread that only changes main.
LEMMA OnlyMain ==
  ASSUME CtrlInv, MainInv',
         UNCHANGED <<jobs, pending, tileVars, ctrlVars, execVars>>
  PROVE  CtrlInv'
  BY DEF CtrlInv, JobsInv, EventsInv, EventsUpTo, StatusInv, ExecInv, Started,
     WaitsAreEarlier, IsTask, tileVars, ctrlVars, execVars, hostEvents,
     kernelEvents

\* A transfer issued by whatever call keeps the invariant.
LEMMA TransfersKeepInv ==
  ASSUME CtrlInv, UNCHANGED main,
         \E c \in Ctrl, t \in Tiles : MoveToInner(c, t) \/ MoveFromInner(c, t)
  PROVE  CtrlInv'
<1>1. MainInv'
  BY DEF CtrlInv, MainInv
<1>. QED
  BY <1>1, MoveToKeepsInv, MoveFromKeepsInv DEF CtrlInv

\* The transfers of a launch concern arguments of the launch.
LEMMA ArgTransfersKeepInv ==
  ASSUME CtrlInv, KernelArgFetch \/ KernelArgSend \/ HostTaskFetch
  PROVE  CtrlInv'
<1>1. ArgTile \in Tiles
  BY ArgumentsTyped
     DEF CtrlInv, KernelArgFetch, KernelArgSend, HostTaskFetch, ArgLeft
<1>2. CASE KernelArgFetch
  <2>1. ValidImpls(ArgTile) \in SUBSET Ctrl
    BY DEF ValidImpls
  <2>2. First(ValidImpls(ArgTile)) \in Ctrl
    BY <1>2, <2>1, FirstIsMember DEF KernelArgFetch
  <2>. QED
    BY <1>1, <1>2, <2>2, TransfersKeepInv DEF KernelArgFetch
<1>3. CASE KernelArgSend
  <2>1. main.ctrl \in Ctrl
    BY <1>3 DEF KernelArgSend, ArgLeft, CtrlInv, MainInv
  <2>. QED
    BY <1>1, <1>3, <2>1, TransfersKeepInv DEF KernelArgSend
<1>4. CASE HostTaskFetch
  <2>1. FetchImpls(ArgTile) \in SUBSET Ctrl
    BY DEF FetchImpls, ValidImpls
  <2>2. First(FetchImpls(ArgTile)) \in Ctrl
    BY <1>4, <2>1, FirstIsMember DEF HostTaskFetch
  <2>. QED
    BY <1>1, <1>4, <2>2, TransfersKeepInv DEF HostTaskFetch
<1>. QED
  BY <1>2, <1>3, <1>4

\* Starting a launch only changes what the main thread does.
LEMMA LaunchKeepsInv ==
  ASSUME CtrlInv, NEW args \in Accesses,
         LaunchHostTask(args) \/ \E c \in Ctrl : KernelLaunch(c, args)
  PROVE  CtrlInv'
<1>1. CASE LaunchHostTask(args)
  <2>1. main' = [pc |-> "hosttask", ctrl |-> Host, args |-> args, arg |-> 1,
                 events |-> {}, scope |-> {}]
    BY <1>1 DEF LaunchHostTask, Idle
  <2>2. main' \in MainState
    BY <2>1, SMT DEF MainState
  <2>3. MainInv'
    BY <2>1, <2>2, SMT DEF MainInv
  <2>. QED
    BY <1>1, <2>3, OnlyMain DEF LaunchHostTask
<1>2. ASSUME NEW c \in Ctrl, KernelLaunch(c, args) PROVE CtrlInv'
  <2>1. main' = [pc |-> "kernel", ctrl |-> c, args |-> args, arg |-> 1,
                 events |-> {}, scope |-> {}]
    BY <1>2 DEF KernelLaunch, Idle
  <2>2. main' \in MainState
    BY <2>1, SMT DEF MainState
  <2>3. MainInv'
    BY <2>1, <2>2, SMT DEF MainInv
  <2>. QED
    BY <1>2, <2>3, OnlyMain DEF KernelLaunch
<1>. QED
  BY <1>1, <1>2

\* A call that blocks only changes what the main thread does.
LEMMA BlockKeepsInv ==
  ASSUME CtrlInv, NEW call \in Blocked, NEW events \in SUBSET (0 .. Len(jobs)),
         NEW scope \in SUBSET DOMAIN jobs, Block(call, events, scope)
  PROVE  CtrlInv'
<1>1. events \ {0} \in SUBSET Nat /\ scope \in SUBSET Nat
  BY SMT DEF CtrlInv, JobsInv
<1>2. main' = [Idle EXCEPT !.pc = call, !.events = events \ {0},
                           !.scope = scope]
  BY DEF Block
<1>3. MainInv'
  BY <1>1, <1>2, BlockedTyped
<1>. QED
  BY <1>3, OnlyMain DEF Block

\* The events of a tile name jobs already pushed.
LEMMA TileEventsTyped ==
  ASSUME CtrlInv, NEW c \in Ctrl, NEW t \in Tiles
  PROVE  TileEvents(c, t) \in SUBSET (0 .. Len(jobs))
<1>1. /\ last_dth[<<c, t>>] \in 0 .. Len(jobs)
      /\ last_htd[<<c, t>>] \in 0 .. Len(jobs)
      /\ last_kernel_read[<<c, t>>] \in 0 .. Len(jobs)
      /\ last_kernel_write[<<c, t>>] \in 0 .. Len(jobs)
      /\ last_host_read[t] \in 0 .. Len(jobs)
      /\ last_host_write[t] \in 0 .. Len(jobs)
  BY SMT DEF CtrlInv, EventsInv, EventsUpTo
<1>. QED
  BY <1>1 DEF TileEvents

\* The three calls that wait keep the invariant.
LEMMA WaitCallsKeepInv ==
  ASSUME CtrlInv,
         \/ \E c \in Ctrl, t \in Tiles : WaitTile(c, t)
         \/ \E c \in Ctrl : GlobalSync(c)
         \/ Synchronize
  PROVE  CtrlInv'
<1>1. {"waitTile", "globalSync", "synchronize"} \subseteq Blocked
  BY DEF Blocked
<1>2. \A c \in Ctrl, t \in Tiles : JobsOf(c, t) \in SUBSET DOMAIN jobs
  BY DEF JobsOf
<1>3. ASSUME NEW c \in Ctrl, NEW t \in Tiles, WaitTile(c, t) PROVE CtrlInv'
  BY <1>1, <1>2, <1>3, TileEventsTyped, BlockKeepsInv DEF WaitTile
<1>4. ASSUME NEW c \in Ctrl, GlobalSync(c) PROVE CtrlInv'
  <2>. DEFINE events == UNION {TileEvents(c, t) : t \in TilesOf(c)}
              scope  == UNION {JobsOf(c, t) : t \in TilesOf(c)}
  <2>1. TilesOf(c) \subseteq Tiles
    BY DEF TilesOf
  <2>2. events \in SUBSET (0 .. Len(jobs)) /\ scope \in SUBSET DOMAIN jobs
    BY <1>2, <2>1, TileEventsTyped
  <2>3. Block("globalSync", events, scope)
    BY <1>4 DEF GlobalSync
  <2>. HIDE DEF events, scope
  <2>. QED
    BY <1>1, <2>2, <2>3, BlockKeepsInv
<1>5. CASE Synchronize
  <2>. DEFINE events == HostQueueEvent \cup
                          UNION {TileEvents(ct[1], ct[2]) : ct \in attached}
  <2>1. \A ct \in attached : ct[1] \in Ctrl /\ ct[2] \in Tiles
    BY DEF CtrlInv, StatusInv
  <2>2. HostQueueEvent \subseteq 0 .. Len(jobs)
    <3>1. DOMAIN jobs \subseteq 0 .. Len(jobs)
      BY SMT DEF CtrlInv, JobsInv
    <3>. QED
      BY <3>1 DEF HostQueueEvent, HostTasks
  <2>3. events \in SUBSET (0 .. Len(jobs))
    <3>1. \A ct \in attached :
            TileEvents(ct[1], ct[2]) \in SUBSET (0 .. Len(jobs))
      BY <2>1, TileEventsTyped
    <3>2. ASSUME NEW e \in events PROVE e \in 0 .. Len(jobs)
      <4>1. e \in HostQueueEvent
              \/ \E ct \in attached : e \in TileEvents(ct[1], ct[2])
        OBVIOUS
      <4>. HIDE DEF events
      <4>. QED
        BY <2>2, <3>1, <4>1
    <3>. QED
      BY <3>2
  <2>4. Block("synchronize", events, DOMAIN jobs)
    BY <1>5 DEF Synchronize
  <2>. HIDE DEF events
  <2>. QED
    BY <1>1, <2>3, <2>4, BlockKeepsInv
<1>. QED
  BY <1>3, <1>4, <1>5

\* Attaching or allocating a tile pushes no job and is over at once.
LEMMA AllocLeaves ==
  ASSUME NEW c, NEW t, NEW flags, AllocTile(c, t, flags)
  PROVE  UNCHANGED <<jobs, pending, main, ctrlVars, execVars>>
<1>1. UNCHANGED <<jobs, pending, main>>
  BY DEF AllocTile
<1>2. UNCHANGED <<ctrlVars, execVars>>
  BY DEF AllocTile
<1>. QED
  BY <1>1, <1>2

\* Attaching or allocating a tile keeps the invariant.
LEMMA AllocKeepsInv ==
  ASSUME CtrlInv, NEW c \in Ctrl, NEW t \in Tiles, NEW flags,
         AllocTile(c, t, flags)
  PROVE  CtrlInv'
<1>. DEFINE Number == 0 .. Len(jobs)
<1>1. 0 \in Number /\ EventsUpTo(Len(jobs))
  BY SMT DEF CtrlInv, JobsInv, EventsInv
<1>2. /\ last_host_read' \in {last_host_read, [last_host_read EXCEPT ![t] = 0]}
      /\ last_host_write' \in {last_host_write,
                               [last_host_write EXCEPT ![t] = 0]}
  BY DEF AllocTile
<1>3. /\ last_kernel_read' \in {last_kernel_read,
                                [last_kernel_read EXCEPT ![<<c, t>>] = 0]}
      /\ last_kernel_write' \in {last_kernel_write,
                                 [last_kernel_write EXCEPT ![<<c, t>>] = 0]}
      /\ last_htd' \in {last_htd, [last_htd EXCEPT ![<<c, t>>] = 0]}
      /\ last_dth' \in {last_dth, [last_dth EXCEPT ![<<c, t>>] = 0]}
  BY DEF AllocTile
<1>30. /\ last_host_read \in [Tiles -> Number]
       /\ last_host_write \in [Tiles -> Number]
       /\ last_kernel_read \in [Ctrl \X Tiles -> Number]
       /\ last_kernel_write \in [Ctrl \X Tiles -> Number]
       /\ last_htd \in [Ctrl \X Tiles -> Number]
       /\ last_dth \in [Ctrl \X Tiles -> Number]
  BY <1>1 DEF EventsUpTo
<1>. HIDE DEF Number
<1>4. /\ last_host_read' \in [Tiles -> Number]
      /\ last_host_write' \in [Tiles -> Number]
  <2>1. \A f \in [Tiles -> Number] :
          [f EXCEPT ![t] = 0] \in [Tiles -> Number]
    BY <1>1, UpdateTyped
  <2>. QED
    BY <1>2, <1>30, <2>1
<1>5. /\ last_kernel_read' \in [Ctrl \X Tiles -> Number]
      /\ last_kernel_write' \in [Ctrl \X Tiles -> Number]
      /\ last_htd' \in [Ctrl \X Tiles -> Number]
      /\ last_dth' \in [Ctrl \X Tiles -> Number]
  <2>. DEFINE ct == <<c, t>>
              Impl == Ctrl \X Tiles
              Reset(f) == [f EXCEPT ![ct] = 0]
  <2>1. \A f \in [Impl -> Number] : Reset(f) \in [Impl -> Number]
    BY <1>1, UpdateTyped
  <2>2. /\ last_kernel_read' \in {last_kernel_read, Reset(last_kernel_read)}
        /\ last_kernel_write' \in {last_kernel_write, Reset(last_kernel_write)}
        /\ last_htd' \in {last_htd, Reset(last_htd)}
        /\ last_dth' \in {last_dth, Reset(last_dth)}
    BY <1>3
  <2>. HIDE DEF ct, Impl, Reset
  <2>. QED
    BY <1>30, <2>1, <2>2 DEF Impl
<1>6. UNCHANGED <<jobs, pending, main, ctrlVars, execVars>>
  BY DEF AllocTile
<1>7. EventsInv'
  BY <1>1, <1>4, <1>5, <1>6 DEF EventsInv, EventsUpTo, ctrlVars, Number
<1>8. StatusInv'
  <2>1. attached' = attached \cup {<<c, t>>}
    BY DEF AllocTile
  <2>2. host_status' \in {host_status, [host_status EXCEPT ![t] = "INVALID"]}
    BY DEF AllocTile
  <2>3. device_status' \in {device_status,
                            [device_status EXCEPT ![<<c, t>>] = "INVALID"]}
    BY DEF AllocTile
  <2>4. host_status' \in [Tiles -> Status]
    BY <2>2, UpdateTyped DEF CtrlInv, StatusInv, Status
  <2>5. device_status' \in [Ctrl \X Tiles -> Status]
    BY <2>3, UpdateTyped DEF CtrlInv, StatusInv, Status
  <2>. QED
    BY <1>6, <2>1, <2>4, <2>5 DEF CtrlInv, StatusInv, ctrlVars
<1>. QED
  BY <1>6, <1>7, <1>8
     DEF CtrlInv, JobsInv, MainInv, ExecInv, Started, WaitsAreEarlier, IsTask,
         execVars

\* Changing the dependance mode keeps the invariant.
LEMMA SetModeKeepsInv ==
  ASSUME CtrlInv, NEW c \in Ctrl, NEW m \in Modes, SetDependanceMode(c, m)
  PROVE  CtrlInv'
<1>1. mode' \in [Ctrl -> Modes]
  BY UpdateTyped DEF CtrlInv, StatusInv, SetDependanceMode
<1>2. UNCHANGED <<jobs, pending, main, tileVars, seq_event, execVars>>
  BY DEF SetDependanceMode
<1>. QED
  BY <1>1, <1>2
     DEF CtrlInv, JobsInv, MainInv, EventsInv, EventsUpTo, StatusInv, ExecInv,
         Started, WaitsAreEarlier, IsTask, tileVars, execVars, hostEvents,
         kernelEvents
-----------------------------------------------------------------------------
(* Steps of the stream threads.                                            *)

\* A job that starts finds versions produced by jobs already pushed.
LEMMA StartKeepsInv ==
  ASSUME CtrlInv, NEW n \in DOMAIN jobs, StartJob(n) PROVE CtrlInv'
<1>1. UNCHANGED <<jobs, pending, main, tileVars, ctrlVars, done, mem>>
  BY DEF StartJob
<1>2. seen' = [m \in Started \cup {n} |->
                 IF m = n THEN [b \in jobs[n].reads |-> mem[b]] ELSE seen[m]]
  BY DEF StartJob
<1>3. jobs[n].reads \subseteq Buffer
  <2>1. jobs[n] \in Job
    BY SMT DEF CtrlInv, JobsInv
  <2>. QED
    BY <2>1 DEF Job
<1>4. [b \in jobs[n].reads |-> mem[b]] \in [jobs[n].reads -> 0 .. Len(jobs)]
  BY <1>3, SMT DEF CtrlInv, ExecInv
<1>5. Started' = Started \cup {n}
  BY <1>2 DEF Started
<1>6. \A m \in Started' : seen'[m] \in [jobs[m].reads -> 0 .. Len(jobs)]
  BY <1>2, <1>4, <1>5 DEF CtrlInv, ExecInv
<1>7. ExecInv'
  BY <1>1, <1>5, <1>6 DEF CtrlInv, ExecInv
<1>. QED
  BY <1>1, <1>7
     DEF CtrlInv, JobsInv, MainInv, EventsInv, EventsUpTo, StatusInv,
         WaitsAreEarlier, IsTask, tileVars, ctrlVars, hostEvents, kernelEvents

\* A job that finishes leaves a version produced by a job already pushed.
LEMMA FinishKeepsInv ==
  ASSUME CtrlInv, NEW n \in DOMAIN jobs, FinishJob(n) PROVE CtrlInv'
<1>1. UNCHANGED <<jobs, pending, main, tileVars, ctrlVars, seen>>
  BY DEF FinishJob
<1>2. n \in Started /\ done' = done \cup {n}
  BY DEF FinishJob, Finished
<1>3. Result(n) \in 0 .. Len(jobs)
  <2>1. CASE IsTask(n)
    BY <2>1, SMT DEF CtrlInv, JobsInv, Result
  <2>2. CASE ~IsTask(n)
    <3>1. (CHOOSE b \in jobs[n].reads : TRUE) \in jobs[n].reads
      BY <2>2 DEF CtrlInv, JobsInv
    <3>2. seen[n] \in [jobs[n].reads -> 0 .. Len(jobs)]
      BY <1>2 DEF CtrlInv, ExecInv
    <3>. QED
      BY <2>2, <3>1, <3>2 DEF Result
  <2>. QED
    BY <2>1, <2>2
<1>4. mem' \in [Buffer -> 0 .. Len(jobs)]
  <2>1. mem' = [b \in Buffer |-> IF b \in jobs[n].writes THEN Result(n)
                                                        ELSE mem[b]]
    BY DEF FinishJob
  <2>. QED
    BY <1>3, <2>1, SMT DEF CtrlInv, ExecInv
<1>5. ExecInv'
  BY <1>1, <1>2, <1>4 DEF CtrlInv, ExecInv, Started
<1>. QED
  BY <1>1, <1>5
     DEF CtrlInv, JobsInv, MainInv, EventsInv, EventsUpTo, StatusInv,
         WaitsAreEarlier, IsTask, tileVars, ctrlVars, hostEvents, kernelEvents
-----------------------------------------------------------------------------
\* The invariant holds before the first call.
LEMMA InitEstablishesInv == ASSUME Init PROVE CtrlInv
<1>1. Len(jobs) = 0 /\ jobs \in Seq(Job) /\ DOMAIN jobs = {}
  BY SMT DEF Init
<1>2. JobsInv
  BY <1>1 DEF JobsInv, WaitsAreEarlier
<1>3. MainInv
  <2>1. main = [pc |-> "idle", ctrl |-> Host, args |-> <<>>, arg |-> 1,
                events |-> {}, scope |-> {}]
    BY DEF Init, Idle
  <2>2. main \in MainState
    BY <2>1, SMT DEF MainState
  <2>. QED
    BY <2>1, <2>2, SMT DEF MainInv
<1>4. EventsInv
  <2>1. NoEvents \in [Tiles -> 0 .. 0]
    BY SMT DEF NoEvents
  <2>2. NoImplEvents \in [Ctrl \X Tiles -> 0 .. 0]
    BY SMT DEF NoImplEvents
  <2>3. /\ pending = [s \in Stream |-> {}]
        /\ seq_event = [c \in Ctrl |-> 0]
    BY DEF Init
  <2>4. /\ pending \in [Stream -> SUBSET (1 .. 0)]
        /\ seq_event \in [Ctrl -> 0 .. 0]
    BY <2>3, SMT
  <2>. QED
    BY <1>1, <2>1, <2>2, <2>4 DEF Init, EventsInv, EventsUpTo
<1>5. StatusInv
  <2>1. attached \subseteq Ctrl \X Tiles
    BY CpuCtrlAssumption DEF Init
  <2>2. host_status \in [Tiles -> Status]
    BY SMT DEF Init, InitHost, Status
  <2>3. device_status \in [Ctrl \X Tiles -> Status]
    BY SMT DEF Init, InitDevice, Status
  <2>. QED
    BY <2>1, <2>2, <2>3 DEF Init, StatusInv
<1>6. ExecInv
  <2>1. Started = {}
    BY SMT DEF Init, Started
  <2>2. mem \in [Buffer -> 0 .. 0]
    BY SMT DEF Init
  <2>. QED
    BY <1>1, <2>1, <2>2 DEF Init, ExecInv
<1>. QED
  BY <1>2, <1>3, <1>4, <1>5, <1>6 DEF CtrlInv

\* The invariant is inductive.
LEMMA StepKeepsInv == ASSUME CtrlInv, [Next]_vars PROVE CtrlInv'
<1>1. CASE Call
  <2>1. ASSUME NEW c \in Ctrl, NEW t \in Tiles, MoveTo(c, t) \/ MoveFrom(c, t)
        PROVE  CtrlInv'
    BY <2>1, TransfersKeepInv DEF MoveTo, MoveFrom
  <2>. QED
    BY <1>1, <2>1, WaitCallsKeepInv, AllocKeepsInv, LaunchKeepsInv,
       SetModeKeepsInv DEF Call
<1>2. CASE Continue
  <2>1. CASE Unblock
    BY <2>1, IdleTyped, OnlyMain DEF Unblock
  <2>. QED
    BY <1>2, <2>1, ArgTransfersKeepInv, KernelArgWaitKeepsInv,
       KernelPushKeepsInv, HostTaskArgWaitKeepsInv, HostTaskPushKeepsInv
       DEF Continue
<1>3. CASE \E s \in Stream : StreamStep(s)
  BY <1>3, StartKeepsInv, FinishKeepsInv DEF StreamStep
<1>4. CASE UNCHANGED vars
  <2>1. MainInv'
    BY <1>4 DEF vars, CtrlInv, MainInv
  <2>. QED
    BY <1>4, <2>1, OnlyMain DEF vars
<1>. QED
  BY <1>1, <1>2, <1>3, <1>4 DEF Next

\* The inductive invariant holds of every program: jobs, pending waits and
\* events refer only to jobs pushed before.
THEOREM CtrlInvariant == Spec => []CtrlInv
<1>1. Init => CtrlInv
  BY InitEstablishesInv
<1>2. CtrlInv /\ [Next]_vars => CtrlInv'
  BY StepKeepsInv
<1>. QED
  BY <1>1, <1>2, PTL DEF Spec
-----------------------------------------------------------------------------
\* Every variable has its type; every event names a job already pushed.
THEOREM TypeCorrect == Spec => []TypeOK
<1>1. CtrlInv => TypeOK
  <2>1. ASSUME CtrlInv PROVE DOMAIN jobs = 1 .. Len(jobs)
    BY <2>1, SMT DEF CtrlInv, JobsInv
  <2>. QED
    BY <2>1 DEF CtrlInv, JobsInv, MainInv, EventsInv, EventsUpTo, StatusInv,
       ExecInv, TypeOK, HostEventTable, ImplEventTable
<1>. QED
  BY <1>1, CtrlInvariant, PTL

\* Jobs wait for jobs pushed before them only, on whatever streams.
THEOREM WaitsTheorem == Spec => []WaitsAreEarlier
<1>1. CtrlInv => WaitsAreEarlier
  BY DEF CtrlInv, JobsInv
<1>. QED
  BY <1>1, CtrlInvariant, PTL

\* The stream threads never wait for one another for ever: the unfinished job
\* pushed first has nothing left to wait for.
THEOREM DeadlockFreedom == Spec => []NoDeadlock
<1>1. ASSUME CtrlInv, Unfinished # {}
      PROVE  \E n \in DOMAIN jobs : n \in Started \ done \/ CanStart(n)
  <2>1. DOMAIN jobs = 1 .. Len(jobs) /\ Len(jobs) \in Nat
    BY <1>1, SMT DEF CtrlInv, JobsInv
  <2>2. Unfinished \in SUBSET Nat
    BY <2>1, SMT DEF Unfinished
  <2>3. PICK n \in Unfinished : \A m \in Unfinished : n <= m
    BY <1>1, <2>2, NatMinimum
  <2>4. n \in DOMAIN jobs \ done
    BY DEF Unfinished
  <2>5. ASSUME NEW m \in 1 .. n - 1 PROVE m \in done
    <3>1. m \in DOMAIN jobs /\ ~(n <= m)
      BY <2>1, <2>4, SMT
    <3>. QED
      BY <2>3, <3>1 DEF Unfinished
  <2>6. CASE n \in Started
    BY <2>4, <2>6
  <2>7. CASE n \notin Started
    <3>1. jobs[n].waits \subseteq done
      BY <1>1, <2>4, <2>5 DEF CtrlInv, JobsInv, WaitsAreEarlier
    <3>. QED
      BY <2>4, <2>5, <2>7, <3>1 DEF CanStart
  <2>. QED
    BY <2>6, <2>7
<1>2. CtrlInv => NoDeadlock
  BY <1>1 DEF NoDeadlock
<1>. QED
  BY <1>2, CtrlInvariant, PTL
-----------------------------------------------------------------------------
(***************************************************************************)
(* Conflicting jobs run in the order of their pushes, and the calls that   *)
(* wait return when what they wait for is done.  The proofs follow how the *)
(* code argues: each tile keeps, per stream, the event of the last job     *)
(* that used it, and whoever uses the tile next waits for those events.    *)
(***************************************************************************)

(* The order that waits and in-order streams impose on a sequence of jobs. *)

\* Whoever is in D has everything it waits for directly in D.
ClosedIn(J, D) ==
  \A n \in D : /\ J[n].waits \subseteq D
               /\ \A m \in 1 .. n - 1 : J[m].stream = J[n].stream => m \in D

\* n cannot start before m has finished (or is m): every closed set with n
\* has m, which says that m is reached from n through waits and streams.
Before(J, m, n) ==
  \A D \in SUBSET DOMAIN J : ClosedIn(J, D) /\ n \in D => m \in D

\* Whoever waits for the events E starts after m, or m is in F already.
Covered(J, F, m, E) ==
  m \in F \/ \E e \in E : e \in DOMAIN J /\ Before(J, m, e)

\* K has the jobs of J, and maybe more behind them.
Extends(J, K) == DOMAIN J \subseteq DOMAIN K /\ \A n \in DOMAIN J : K[n] = J[n]

EarlierWaits(J) ==
  /\ J \in Seq(Job)
  /\ \A n \in DOMAIN J : J[n].waits \subseteq 1 .. n - 1

OnStream(s) == {n \in DOMAIN jobs : jobs[n].stream = s}

(* What the theorems assume of a program.                                  *)

\* Tasks that only read a tile in host memory are on one stream: a tile has
\* one event for them, which the last one takes (Ctrl_Cpu.c:822).
HostReadersTracked ==
  \/ \A c \in Ctrl : MemMoves[c]
  \/ \A args \in Accesses : \A i \in DOMAIN args : args[i].role # "IN"

\* A MOVEFROM happens only when the device has the one valid copy, behind the
\* kernel that made it so; in other states nothing orders it after the other
\* transfers of the tile (Ctrl_Cpu.c:434).
MoveFromTracked ==
  /\ \A c, d \in Ctrl : MemMoves[c] /\ MemMoves[d] => c = d
  /\ Modes \subseteq {"IMPLICIT"}
  /\ ~WarnedMoves

(* The jobs the handlers push.                                             *)

Touched(j) == j.reads \cup j.writes
TaskJob(j) == j.stream[2] \in {"kernel", "host"}

HostJob(j) == j.stream = HostStream /\ \A b \in Touched(j) : b[1] = Host

KernelJob(j, c) ==
  /\ j.stream = <<c, "kernel">>
  /\ \A b \in Touched(j) : b = DeviceBuffer(c, b[2]) /\ b[2] \in Tiles

MoveToJob(j, c, t) ==
  /\ j.stream = <<c, "moveTo">>
  /\ j.reads = {HostBuffer(t)}
  /\ j.writes = {<<c, t>>}

MoveFromJob(j, c, t) ==
  /\ j.stream = <<c, "moveFrom">>
  /\ j.reads = {<<c, t>>}
  /\ j.writes = {HostBuffer(t)}

TransferJob(j, c, t) == MoveToJob(j, c, t) \/ MoveFromJob(j, c, t)

(* The invariant.                                                          *)

\* Jobs are of these kinds, on tiles that are attached and allocated.
ShapeInv ==
  \A n \in DOMAIN jobs :
    \/ HostJob(jobs[n])
    \/ \E c \in Ctrl : /\ KernelJob(jobs[n], c)
                       /\ \A b \in Touched(jobs[n]) : <<c, b[2]>> \in attached
    \/ \E c \in Ctrl, t \in Tiles : /\ TransferJob(jobs[n], c, t)
                                   /\ <<c, t>> \in attached
                                   /\ MemMoves[c]
                                   /\ host_status[t] # "UNALLOC"

\* A device copy exists only of attached tiles, on ctrls that move memory.
DeviceInv ==
  \A ct \in Ctrl \X Tiles :
    device_status[ct] # "UNALLOC" => ct \in attached /\ MemMoves[ct[1]]

\* The stream each event of a tile on a ctrl was recorded on.
EventStreamsInv ==
  \A c \in Ctrl, t \in Tiles :
    /\ last_htd[<<c, t>>] \in OnStream(<<c, "moveTo">>) \cup {0}
    /\ last_dth[<<c, t>>] \in OnStream(<<c, "moveFrom">>) \cup {0}
    /\ last_kernel_write[<<c, t>>] \in OnStream(<<c, "kernel">>) \cup {0}

\* The events a tile keeps cover every job that used it on that stream.
TransferEventsInv ==
  \A c \in Ctrl, t \in Tiles, n \in DOMAIN jobs :
    /\ MoveToJob(jobs[n], c, t)
         => Covered(jobs, done, n, {last_htd[<<c, t>>]})
    /\ MoveFromJob(jobs[n], c, t)
         => Covered(jobs, done, n, {last_dth[<<c, t>>]})

KernelEventsInv ==
  \A c \in Ctrl, t \in Tiles, n \in DOMAIN jobs :
    jobs[n].stream = <<c, "kernel">> =>
      /\ <<c, t>> \in jobs[n].reads
           => Covered(jobs, done, n, {last_kernel_read[<<c, t>>]})
      /\ <<c, t>> \in jobs[n].writes
           => Covered(jobs, done, n, {last_kernel_write[<<c, t>>]})

\* Host memory has tasks of several streams, but each writer waits for the
\* one before it.
HostEventsInv ==
  \A t \in Tiles, n \in DOMAIN jobs :
    TaskJob(jobs[n]) =>
      /\ HostBuffer(t) \in jobs[n].writes
           => Covered(jobs, done, n, {last_host_write[t]})
      /\ HostBuffer(t) \in jobs[n].reads
           => Covered(jobs, done, n, {last_host_read[t], last_host_write[t]})

\* Device c has the one valid copy of t.
OnlyOnDevice(c, t) ==
  device_status[<<c, t>>] = "VALID" /\ host_status[t] = "INVALID"

\* Then a kernel wrote it, after all the transfers of that copy: why kernels
\* need not wait for these.
OnlyOnDeviceInv ==
  \A c \in Ctrl, t \in Tiles : OnlyOnDevice(c, t) =>
    \A n \in DOMAIN jobs :
      TransferJob(jobs[n], c, t)
        => Covered(jobs, done, n, {last_kernel_write[<<c, t>>]})

\* The launch under way: the stream of its task, the buffer it uses tile t in,
\* and the events it waits for on behalf of the argument it is looking at.
LaunchStream == IF main.pc = "kernel" THEN <<main.ctrl, "kernel">>
                                      ELSE HostStream
LaunchBuffer(t) == IF main.pc = "kernel" THEN DeviceBuffer(main.ctrl, t)
                                         ELSE HostBuffer(t)
ArgEvents ==
  IF main.arg > Len(main.args) THEN {}
  ELSE IF main.pc = "kernel" /\ MemMoves[main.ctrl]
       THEN DeviceWait(main.ctrl, ArgTile, ArgRole)
       ELSE HostTaskWait(ArgTile, ArgRole)

\* Job j conflicts with a task that uses buffer b in that role.
Hazard(j, b, role) == b \in j.writes \/ (role # "IN" /\ b \in j.reads)

\* What conflicts with an argument already looked at is waited for.
LaunchInv ==
  main.pc \in {"kernel", "hosttask"} =>
    \A i \in DOMAIN main.args, n \in DOMAIN jobs :
      /\ i < main.arg
      /\ Hazard(jobs[n], LaunchBuffer(main.args[i].tile), main.args[i].role)
      => Covered(jobs, done, n, pending[LaunchStream] \cup
                                  OnStream(LaunchStream) \cup ArgEvents)

\* The tiles of a kernel being launched are attached to its ctrl.
LaunchAttachedInv ==
  main.pc = "kernel" =>
    \A i \in DOMAIN main.args : <<main.ctrl, main.args[i].tile>> \in attached

\* Every pair of conflicting jobs is ordered.
OrderInv ==
  \A n \in DOMAIN jobs : \A m \in 1 .. n - 1 :
    Conflict(m, n) /\ (MoveFromTracked \/ ~(IsMoveFrom(n) /\ IsTransfer(m)))
      => Covered(jobs, done, m, {n})

\* A job that started found everything before it finished.
ExecOrderInv ==
  \A n \in Started :
    /\ jobs[n].waits \subseteq done
    /\ \A m \in 1 .. n - 1 : jobs[m].stream = jobs[n].stream => m \in done

\* A call that waits waits for events that cover what it is about.
CallScopeInv ==
  main.pc \in {"waitTile", "globalSync"} =>
    \A n \in main.scope : Covered(jobs, done, n, main.events)

\* What the events of the tiles say of the jobs pushed.
TileEventsInv ==
  /\ EventStreamsInv
  /\ TransferEventsInv
  /\ KernelEventsInv
  /\ HostEventsInv
  /\ OnlyOnDeviceInv

\* The inductive invariant.
CpuOrderInv ==
  /\ ShapeInv
  /\ DeviceInv
  /\ TileEventsInv
  /\ LaunchInv
  /\ LaunchAttachedInv
  /\ OrderInv
  /\ ExecOrderInv
  /\ CallScopeInv
-----------------------------------------------------------------------------
\* Waiting for one more event covers no less.
LEMMA CoveredByMore ==
  ASSUME NEW J, NEW F, NEW m, NEW E1, NEW E2,
         Covered(J, F, m, E1), \A e \in E1 : e \in DOMAIN J => e \in E2
  PROVE  Covered(J, F, m, E2)
  BY DEF Covered

\* A job is covered by its own event.
LEMMA CoveredBySelf ==
  ASSUME NEW J, NEW F, NEW m \in DOMAIN J, NEW E, m \in E
  PROVE  Covered(J, F, m, E)
  BY DEF Covered, Before

\* The order survives pushes: earlier jobs and their waits do not change.
LEMMA CoveredGrows ==
  ASSUME NEW J, NEW K, EarlierWaits(J), Extends(J, K),
         NEW F, NEW G, F \subseteq G, NEW m, NEW E, Covered(J, F, m, E)
  PROVE  Covered(K, G, m, E)
<1>1. CASE m \in F
  BY <1>1 DEF Covered
<1>2. ASSUME NEW e \in E, e \in DOMAIN J, Before(J, m, e)
      PROVE  Before(K, m, e)
  <2>1. SUFFICES ASSUME NEW D \in SUBSET DOMAIN K, ClosedIn(K, D), e \in D
                 PROVE  m \in D
    BY DEF Before
  <2>. DEFINE C == D \cap DOMAIN J
  <2>2. J \in Seq(Job)
    BY DEF EarlierWaits
  <2>3. DOMAIN J = 1 .. Len(J) /\ Len(J) \in Nat
    BY <2>2, SMT
  <2>4. \A n \in C : 1 .. n - 1 \subseteq DOMAIN J
    BY <2>3, SMT
  <2>5. \A n \in C : J[n].waits \subseteq DOMAIN J
    BY <2>4 DEF EarlierWaits
  <2>6. ASSUME NEW n \in C PROVE J[n].waits \subseteq C
    BY <2>1, <2>5 DEF ClosedIn, Extends
  <2>7. ASSUME NEW n \in C, NEW k \in 1 .. n - 1, J[k].stream = J[n].stream
        PROVE  k \in C
    <3>1. k \in DOMAIN J
      BY <2>4
    <3>2. K[k] = J[k] /\ K[n] = J[n]
      BY <3>1 DEF Extends
    <3>. QED
      BY <2>1, <2>7, <3>1, <3>2 DEF ClosedIn
  <2>8. ClosedIn(J, C)
    BY <2>6, <2>7 DEF ClosedIn
  <2>. QED
    BY <1>2, <2>1, <2>8 DEF Before
<1>3. DOMAIN J \subseteq DOMAIN K
  BY DEF Extends
<1>. QED
  BY <1>1, <1>2, <1>3 DEF Covered

\* What is covered by jobs that are covered in turn is covered.
LEMMA CoveredThrough ==
  ASSUME NEW J, NEW F \in SUBSET DOMAIN J, ClosedIn(J, F),
         NEW m, NEW E1, NEW E2, Covered(J, F, m, E1),
         \A e \in E1 : e \in DOMAIN J => Covered(J, F, e, E2)
  PROVE  Covered(J, F, m, E2)
<1>1. CASE m \in F
  BY <1>1 DEF Covered
<1>2. ASSUME NEW e \in E1, e \in DOMAIN J, Before(J, m, e)
      PROVE  Covered(J, F, m, E2)
  <2>1. CASE e \in F
    BY <1>2, <2>1 DEF Before, Covered
  <2>2. ASSUME NEW d \in E2, d \in DOMAIN J, Before(J, e, d)
        PROVE  Before(J, m, d)
    BY <1>2, <2>2 DEF Before
  <2>. QED
    BY <1>2, <2>1, <2>2 DEF Covered
<1>. QED
  BY <1>1, <1>2 DEF Covered

\* A job is behind those it waits for and those before it on its stream.
LEMMA CoveredByNext ==
  ASSUME NEW J, NEW F \in SUBSET DOMAIN J, ClosedIn(J, F), NEW n \in DOMAIN J,
         NEW m, NEW E, Covered(J, F, m, E),
         \A e \in E : e \in DOMAIN J =>
           \/ e \in J[n].waits
           \/ e \in 1 .. n - 1 /\ J[e].stream = J[n].stream
  PROVE  Covered(J, F, m, {n})
<1>1. ASSUME NEW e \in E, e \in DOMAIN J PROVE Before(J, e, n)
  BY <1>1 DEF Before, ClosedIn
<1>2. \A e \in E : e \in DOMAIN J => Covered(J, F, e, {n})
  BY <1>1 DEF Covered
<1>. QED
  BY <1>2, CoveredThrough
-----------------------------------------------------------------------------
\* The host is no ctrl, and the first job has number 1.
LEMMA BasicFacts ==
  ASSUME CtrlInv
  PROVE  /\ Host \notin Ctrl
         /\ DOMAIN jobs = 1 .. Len(jobs)
         /\ Len(jobs) \in Nat
         /\ 0 \notin DOMAIN jobs
         /\ EarlierWaits(jobs)
         /\ done \subseteq DOMAIN jobs
         /\ main.args \in Seq([tile : Tiles, role : Role])
         /\ main.arg \in Nat \ {0}
<1>1. Host \notin Ctrl
  BY CpuCtrlAssumption, SMT DEF Host, Ctrl
<1>2. jobs \in Seq(Job)
  BY DEF CtrlInv, JobsInv
<1>3. DOMAIN jobs = 1 .. Len(jobs) /\ Len(jobs) \in Nat /\ 0 \notin DOMAIN jobs
  BY <1>2, SMT
<1>4. main.args \in Seq([tile : Tiles, role : Role])
  <2>1. main.args \in Accesses \cup {<<>>}
    BY DEF CtrlInv, MainInv, MainState
  <2>2. <<>> \in Seq([tile : Tiles, role : Role])
    BY SMT
  <2>. QED
    BY <2>1, <2>2, CpuCtrlAssumption
<1>5. main.arg \in Nat /\ main.arg >= 1
  BY DEF CtrlInv, MainInv, MainState
<1>6. main.arg \in Nat \ {0}
  BY <1>5, SMT
<1>. QED
  BY <1>1, <1>2, <1>3, <1>4, <1>6
     DEF CtrlInv, JobsInv, EarlierWaits, WaitsAreEarlier, ExecInv

\* What has finished is closed: a job starts last.
LEMMA DoneIsClosed ==
  ASSUME CtrlInv, ExecOrderInv PROVE ClosedIn(jobs, done)
  BY DEF CtrlInv, ExecInv, ExecOrderInv, ClosedIn

\* What a push on stream s does to the jobs and to their order.
AfterPush(s, reads, writes, events) ==
  /\ Ticket = Len(jobs) + 1
  /\ Ticket \notin DOMAIN jobs
  /\ DOMAIN jobs' = DOMAIN jobs \cup {Ticket}
  /\ \A n \in DOMAIN jobs : jobs'[n] = jobs[n]
  /\ jobs'[Ticket].stream = s
  /\ jobs'[Ticket].reads = reads
  /\ jobs'[Ticket].writes = writes
  /\ done' = done
  /\ \A m, E : Covered(jobs, done, m, E) => Covered(jobs', done', m, E)
  /\ \A m, E : /\ Covered(jobs, done, m, E)
               /\ \A e \in E : e \in DOMAIN jobs =>
                    e \in pending[s] \cup events \cup OnStream(s)
               => Covered(jobs', done', m, {Ticket})
  /\ \A m \in OnStream(s) : Covered(jobs', done', m, {Ticket})
  /\ Covered(jobs', done', Ticket, {Ticket})

\* The new job is behind those it waits for and those on its stream; the order
\* of the others stays.
LEMMA PushOrders ==
  ASSUME CtrlInv, CtrlInv', ExecOrderInv, UNCHANGED execVars,
         NEW s \in Stream, NEW reads \in SUBSET Buffer,
         NEW writes \in SUBSET Buffer, NEW events,
         Push(s, reads, writes, events)
  PROVE  AfterPush(s, reads, writes, events) /\ ExecOrderInv'
<1>. DEFINE job == [stream |-> s, reads |-> reads, writes |-> writes,
                    waits |-> (pending[s] \cup events) \ {0}]
<1>1. jobs' = Append(jobs, job)
  BY DEF Push
<1>2. /\ job.stream = s
      /\ job.reads = reads
      /\ job.writes = writes
      /\ job.waits = (pending[s] \cup events) \ {0}
  OBVIOUS
<1>. HIDE DEF job
<1>3. jobs \in Seq(Job) /\ jobs' \in Seq(Job)
  BY DEF CtrlInv, JobsInv
<1>4. /\ Ticket = Len(jobs) + 1
      /\ Ticket \notin DOMAIN jobs
      /\ DOMAIN jobs' = DOMAIN jobs \cup {Ticket}
      /\ DOMAIN jobs = 1 .. Ticket - 1
      /\ 0 \notin DOMAIN jobs
  <2>1. Len(jobs') = Len(jobs) + 1 /\ Len(jobs) \in Nat
    BY <1>1, <1>3, SMT
  <2>2. DOMAIN jobs = 1 .. Len(jobs) /\ DOMAIN jobs' = 1 .. Len(jobs')
    BY <1>3, SMT
  <2>. QED
    BY <2>1, <2>2, SMT DEF Ticket
<1>5. \A n \in DOMAIN jobs : jobs'[n] = jobs[n]
  BY <1>1, <1>3, <1>4, SMT
<1>6. jobs'[Ticket] = job
  BY <1>1, <1>3, SMT DEF Ticket
<1>7. done' = done /\ Started' = Started
  BY DEF execVars, Started
<1>8. \A n \in Started : n \in DOMAIN jobs /\ 1 .. n - 1 \subseteq DOMAIN jobs
  <2>1. Started \subseteq DOMAIN jobs
    BY DEF CtrlInv, ExecInv
  <2>. QED
    BY <1>3, <2>1, SMT
<1>9. ExecOrderInv'
  BY <1>5, <1>7, <1>8 DEF ExecOrderInv
<1>10. Extends(jobs, jobs')
  BY <1>4, <1>5 DEF Extends
<1>11. EarlierWaits(jobs)
  BY BasicFacts
<1>12. \A m, E : Covered(jobs, done, m, E) => Covered(jobs', done', m, E)
  BY <1>7, <1>10, <1>11, CoveredGrows
<1>13. ASSUME NEW m, NEW E, Covered(jobs, done, m, E),
              \A e \in E : e \in DOMAIN jobs =>
                e \in pending[s] \cup events \cup OnStream(s)
       PROVE  Covered(jobs', done', m, {Ticket})
  <2>. DEFINE C == E \cap DOMAIN jobs
  <2>1. Covered(jobs, done, m, C)
    BY <1>13, CoveredByMore
  <2>2. Covered(jobs', done', m, C)
    BY <1>12, <2>1
  <2>3. done' \in SUBSET DOMAIN jobs' /\ ClosedIn(jobs', done')
    <3>1. ClosedIn(jobs, done)
      BY DoneIsClosed
    <3>2. done \subseteq DOMAIN jobs
      BY BasicFacts
    <3>3. \A n \in done : n \in DOMAIN jobs /\ 1 .. n - 1 \subseteq DOMAIN jobs
      BY <1>8 DEF CtrlInv, ExecInv
    <3>. QED
      BY <1>4, <1>5, <1>7, <3>1, <3>2, <3>3 DEF ClosedIn
  <2>4. ASSUME NEW e \in C
        PROVE  \/ e \in jobs'[Ticket].waits
               \/ e \in 1 .. Ticket - 1 /\ jobs'[e].stream = jobs'[Ticket].stream
    BY <1>2, <1>4, <1>5, <1>6, <1>13 DEF OnStream
  <2>5. Ticket \in DOMAIN jobs'
    BY <1>4
  <2>. HIDE DEF C
  <2>. QED
    BY <2>2, <2>3, <2>4, <2>5, CoveredByNext
<1>14. ASSUME NEW m \in OnStream(s) PROVE Covered(jobs', done', m, {Ticket})
  <2>1. Covered(jobs, done, m, {m})
    BY CoveredBySelf DEF OnStream
  <2>. QED
    BY <1>13, <2>1
<1>15. Covered(jobs', done', Ticket, {Ticket})
  BY <1>4, CoveredBySelf
<1>. QED
  BY <1>2, <1>4, <1>5, <1>6, <1>7, <1>9, <1>12, <1>13, <1>14, <1>15
     DEF AfterPush
-----------------------------------------------------------------------------
(* What each push does to the events of the tiles.                         *)

\* A push on no kernel stream leaves the kernel events of the tiles right.
LEMMA KernelEventsKept ==
  ASSUME KernelEventsInv, NEW s, NEW reads, NEW writes, NEW events,
         AfterPush(s, reads, writes, events),
         \A c \in Ctrl : s # <<c, "kernel">>, UNCHANGED kernelEvents
  PROVE  KernelEventsInv'
  BY DEF KernelEventsInv, AfterPush, kernelEvents

\* A transfer leaves the host events of the tiles right.
LEMMA HostEventsKept ==
  ASSUME HostEventsInv, NEW s, NEW reads, NEW writes, NEW events,
         AfterPush(s, reads, writes, events),
         s[2] \notin {"kernel", "host"}, UNCHANGED hostEvents
  PROVE  HostEventsInv'
  BY DEF HostEventsInv, AfterPush, TaskJob, hostEvents

\* A kernel or host task leaves the transfer events of the tiles right.
LEMMA TransferEventsKept ==
  ASSUME TransferEventsInv, NEW s, NEW reads, NEW writes, NEW events,
         AfterPush(s, reads, writes, events),
         s[2] \in {"kernel", "host"}, UNCHANGED <<last_htd, last_dth>>
  PROVE  TransferEventsInv'
<1>1. \A c \in Ctrl, t \in Tiles : ~TransferJob(jobs'[Ticket], c, t)
  BY DEF AfterPush, TransferJob, MoveToJob, MoveFromJob
<1>. QED
  BY <1>1 DEF TransferEventsInv, AfterPush, TransferJob

\* Jobs stay ordered if the new one is ordered after those it conflicts with.
LEMMA OrderKept ==
  ASSUME CtrlInv, OrderInv, NEW s, NEW reads, NEW writes, NEW events,
         AfterPush(s, reads, writes, events),
         \A m \in DOMAIN jobs :
           /\ \/ jobs[m].writes \cap (reads \cup writes) # {}
              \/ jobs[m].reads \cap writes # {}
           /\ MoveFromTracked \/ ~(s[2] = "moveFrom" /\ ~TaskJob(jobs[m]))
           => Covered(jobs', done', m, {Ticket})
  PROVE  OrderInv'
<1>1. SUFFICES ASSUME NEW n \in DOMAIN jobs', NEW m \in 1 .. n - 1,
                      Conflict(m, n)',
                      MoveFromTracked \/ ~(IsMoveFrom(n)' /\ IsTransfer(m)')
               PROVE  Covered(jobs', done', m, {n})
  BY DEF OrderInv, MoveFromTracked
<1>2. DOMAIN jobs = 1 .. Len(jobs) /\ Len(jobs) \in Nat
  BY BasicFacts
<1>3. n \in DOMAIN jobs \cup {Ticket} /\ Ticket = Len(jobs) + 1
  BY DEF AfterPush
<1>4. m \in DOMAIN jobs
  BY <1>2, <1>3, SMT
<1>5. jobs'[m] = jobs[m]
  BY <1>4 DEF AfterPush
<1>6. CASE n \in DOMAIN jobs
  <2>1. jobs'[n] = jobs[n]
    BY <1>6 DEF AfterPush
  <2>2. Covered(jobs, done, m, {n})
    BY <1>1, <1>5, <1>6, <2>1
       DEF OrderInv, Conflict, IsMoveFrom, IsTransfer, IsTask
  <2>. QED
    BY <2>2 DEF AfterPush
<1>7. CASE n = Ticket
  BY <1>1, <1>4, <1>5, <1>7
     DEF AfterPush, Conflict, IsMoveFrom, IsTransfer, IsTask, TaskJob
<1>. QED
  BY <1>3, <1>6, <1>7

\* The transfers of a tile are known by the buffer of the ctrl.
LEMMA TransferOf ==
  ASSUME NEW j, NEW c \in Ctrl, NEW t \in Tiles, NEW d \in Ctrl, NEW u \in Tiles,
         Host \notin Ctrl, TransferJob(j, c, t), TransferJob(j, d, u)
  PROVE  c = d /\ t = u
<1>1. <<c, t>> \in Touched(j) /\ <<d, u>> \in Touched(j)
  BY DEF TransferJob, MoveToJob, MoveFromJob, Touched
<1>2. Touched(j) = {HostBuffer(t), <<c, t>>}
  BY DEF TransferJob, MoveToJob, MoveFromJob, Touched
<1>. QED
  BY <1>1, <1>2 DEF HostBuffer

\* A transfer to a device waits for all it conflicts with.
LEMMA MoveToOrders ==
  ASSUME CtrlInv, CtrlInv', CpuOrderInv,
         NEW c \in Ctrl, NEW t \in Tiles, MoveToInner(c, t),
         device_status[<<c, t>>] # "UNALLOC"
  PROVE  /\ ShapeInv'
         /\ DeviceInv'
         /\ TileEventsInv'
         /\ OrderInv'
         /\ ExecOrderInv'
         /\ \E events : AfterPush(<<c, "moveTo">>, {HostBuffer(t)}, {<<c, t>>}, events)
<1>. DEFINE s == <<c, "moveTo">>
            events == MoveToWait(t)
              \cup {last_kernel_read[<<c, t>>], last_kernel_write[<<c, t>>],
                    last_host_write[t]}
              \cup SyncWait
<1>0. /\ ShapeInv /\ DeviceInv /\ ExecOrderInv /\ OrderInv
      /\ EventStreamsInv /\ TransferEventsInv /\ KernelEventsInv
      /\ HostEventsInv /\ OnlyOnDeviceInv
  BY DEF CpuOrderInv, TileEventsInv
<1>1. /\ AfterPush(s, {HostBuffer(t)}, {DeviceBuffer(c, t)}, events)
      /\ ExecOrderInv'
  <2>1. /\ UNCHANGED execVars
        /\ Push(s, {HostBuffer(t)}, {DeviceBuffer(c, t)}, events)
    BY DEF MoveToInner
  <2>2. /\ s \in Stream
        /\ {HostBuffer(t)} \in SUBSET Buffer
        /\ {DeviceBuffer(c, t)} \in SUBSET Buffer
    BY Buffers, Streams
  <2>. HIDE DEF s, events
  <2>. QED
    BY <1>0, <2>1, <2>2, PushOrders
<1>. HIDE DEF events
<1>2. /\ <<c, t>> \in attached /\ MemMoves[c] /\ DeviceBuffer(c, t) = <<c, t>>
      /\ Host \notin Ctrl
  BY <1>0, BasicFacts DEF DeviceInv, DeviceBuffer
<1>3. MoveToJob(jobs'[Ticket], c, t)
  BY <1>1, <1>2 DEF MoveToJob, AfterPush
<1>4. /\ host_status' = [host_status EXCEPT ![t] = "VALID"]
      /\ device_status' = [device_status EXCEPT ![<<c, t>>] = "VALID"]
      /\ last_htd' = [last_htd EXCEPT ![<<c, t>>] = Ticket]
      /\ UNCHANGED <<attached, hostEvents, kernelEvents, last_dth>>
  BY DEF MoveToInner
<1>5. /\ host_status \in [Tiles -> Status]
      /\ device_status \in [Ctrl \X Tiles -> Status]
      /\ last_htd \in [Ctrl \X Tiles -> 0 .. Len(jobs)]
  BY DEF CtrlInv, StatusInv, EventsInv, EventsUpTo
<1>6. ShapeInv'
  <2>1. \A u \in Tiles : host_status[u] # "UNALLOC" => host_status'[u] # "UNALLOC"
    BY <1>4, <1>5
  <2>2. host_status'[t] # "UNALLOC"
    BY <1>4, <1>5
  <2>3. /\ DOMAIN jobs' = DOMAIN jobs \cup {Ticket}
        /\ \A n \in DOMAIN jobs : jobs'[n] = jobs[n]
    BY <1>1 DEF AfterPush
  <2>4. attached' = attached
    BY <1>4
  <2>5. TransferJob(jobs'[Ticket], c, t)
    BY <1>3 DEF TransferJob
  <2>. QED
    BY <1>0, <1>2, <2>1, <2>2, <2>3, <2>4, <2>5 DEF ShapeInv
<1>7. DeviceInv'
  BY <1>0, <1>2, <1>4, <1>5 DEF DeviceInv
<1>8. last_htd'[<<c, t>>] = Ticket
  BY <1>4, <1>5
<1>9. ASSUME NEW d \in Ctrl, NEW u \in Tiles, ~(c = d /\ t = u)
      PROVE  last_htd'[<<d, u>>] = last_htd[<<d, u>>]
  BY <1>4, <1>5, <1>9
<1>10. EventStreamsInv'
  <2>1. \A r : OnStream(r) \subseteq OnStream(r)'
    BY <1>1 DEF OnStream, AfterPush
  <2>2. Ticket \in OnStream(s)'
    BY <1>1 DEF OnStream, AfterPush
  <2>. QED
    BY <1>0, <1>4, <1>8, <1>9, <2>1, <2>2 DEF EventStreamsInv, kernelEvents
<1>11. TransferEventsInv'
  <2>1. SUFFICES
          ASSUME NEW d \in Ctrl, NEW u \in Tiles, NEW n \in DOMAIN jobs'
          PROVE  /\ MoveToJob(jobs'[n], d, u)
                      => Covered(jobs', done', n, {last_htd'[<<d, u>>]})
                 /\ MoveFromJob(jobs'[n], d, u)
                      => Covered(jobs', done', n, {last_dth'[<<d, u>>]})
    BY DEF TransferEventsInv
  <2>2. CASE n = Ticket
    <3>1. ~MoveFromJob(jobs'[n], d, u)
      BY <1>1, <2>2 DEF AfterPush, MoveFromJob
    <3>2. MoveToJob(jobs'[n], d, u) => c = d /\ t = u
      BY <1>2, <1>3, <2>2, TransferOf DEF TransferJob
    <3>. QED
      BY <1>1, <1>8, <2>2, <3>1, <3>2 DEF AfterPush
  <2>3. CASE n \in DOMAIN jobs
    <3>1. jobs'[n] = jobs[n]
      BY <1>1, <2>3 DEF AfterPush
    <3>2. MoveFromJob(jobs'[n], d, u)
            => Covered(jobs', done', n, {last_dth'[<<d, u>>]})
      BY <1>0, <1>1, <1>4, <2>3, <3>1 DEF AfterPush, TransferEventsInv
    <3>3. CASE c = d /\ t = u
      BY <1>1, <1>8, <2>3, <3>1, <3>2, <3>3
         DEF AfterPush, OnStream, MoveToJob
    <3>4. CASE ~(c = d /\ t = u)
      BY <1>0, <1>1, <1>9, <2>3, <3>1, <3>2, <3>4
         DEF AfterPush, TransferEventsInv
    <3>. QED
      BY <3>3, <3>4
  <2>. QED
    BY <1>1, <2>2, <2>3 DEF AfterPush
<1>12. KernelEventsInv' /\ HostEventsInv'
  BY <1>0, <1>1, <1>4, KernelEventsKept, HostEventsKept
<1>13. OnlyOnDeviceInv'
  <2>1. ASSUME NEW d \in Ctrl, NEW u \in Tiles, OnlyOnDevice(d, u)'
        PROVE  u # t /\ OnlyOnDevice(d, u)
    BY <1>4, <1>5, <2>1 DEF OnlyOnDevice
  <2>2. ASSUME NEW d \in Ctrl, NEW u \in Tiles, u # t
        PROVE  ~TransferJob(jobs'[Ticket], d, u)
    BY <1>2, <1>3, <2>2, TransferOf DEF TransferJob
  <2>. QED
    BY <1>0, <1>1, <1>4, <2>1, <2>2
       DEF OnlyOnDeviceInv, AfterPush, kernelEvents
<1>14. ASSUME NEW m \in DOMAIN jobs,
              \/ jobs[m].writes \cap {HostBuffer(t), <<c, t>>} # {}
              \/ jobs[m].reads \cap {<<c, t>>} # {}
       PROVE  Covered(jobs', done', m, {Ticket})
  <2>1. ASSUME NEW E, Covered(jobs, done, m, E), E \subseteq events
        PROVE  Covered(jobs', done', m, {Ticket})
    BY <1>1, <2>1 DEF AfterPush
  <2>2. /\ {last_kernel_read[<<c, t>>]} \subseteq events
        /\ {last_kernel_write[<<c, t>>]} \subseteq events
        /\ {last_host_write[t]} \subseteq events
        /\ MoveToWait(t) \subseteq events
    BY DEF events
  <2>3. CASE HostBuffer(t) \in jobs[m].writes /\ TaskJob(jobs[m])
    BY <1>0, <2>1, <2>2, <2>3 DEF HostEventsInv
  <2>4. CASE HostJob(jobs[m])
    <3>1. HostBuffer(t) \in jobs[m].writes
      BY <1>2, <1>14, <2>4 DEF HostJob, Touched
    <3>. QED
      BY <2>3, <2>4, <3>1 DEF HostJob, TaskJob, HostStream
  <2>5. ASSUME NEW d \in Ctrl, KernelJob(jobs[m], d)
        PROVE  Covered(jobs', done', m, {Ticket})
    <3>1. CASE HostBuffer(t) \in jobs[m].writes
      BY <2>3, <2>5, <3>1 DEF KernelJob, TaskJob
    <3>2. CASE <<c, t>> \in Touched(jobs[m])
      <4>1. d = c
        BY <1>2, <2>5, <3>2 DEF KernelJob, DeviceBuffer
      <4>2. jobs[m].stream = <<c, "kernel">>
        BY <2>5, <4>1 DEF KernelJob
      <4>3. \/ Covered(jobs, done, m, {last_kernel_read[<<c, t>>]})
            \/ Covered(jobs, done, m, {last_kernel_write[<<c, t>>]})
        BY <1>0, <3>2, <4>2 DEF KernelEventsInv, Touched
      <4>. QED
        BY <2>1, <2>2, <4>3
    <3>. QED
      BY <1>14, <3>1, <3>2 DEF Touched
  <2>6. ASSUME NEW d \in Ctrl, NEW u \in Tiles, TransferJob(jobs[m], d, u),
               <<d, u>> \in attached
        PROVE  Covered(jobs', done', m, {Ticket})
    <3>1. CASE MoveToJob(jobs[m], d, u)
      <4>1. d = c
        BY <1>2, <1>14, <3>1 DEF MoveToJob, HostBuffer
      <4>. QED
        BY <1>1, <3>1, <4>1 DEF AfterPush, OnStream, MoveToJob
    <3>2. CASE MoveFromJob(jobs[m], d, u)
      <4>1. u = t
        BY <1>2, <1>14, <3>2 DEF MoveFromJob, HostBuffer
      <4>2. last_dth[<<d, t>>] \in MoveToWait(t)
        BY <2>6, <4>1 DEF MoveToWait, Impls
      <4>3. Covered(jobs, done, m, {last_dth[<<d, t>>]})
        BY <1>0, <3>2, <4>1 DEF TransferEventsInv
      <4>4. {last_dth[<<d, t>>]} \subseteq events
        BY <2>2, <4>2
      <4>. QED
        BY <2>1, <4>3, <4>4
    <3>. QED
      BY <2>6, <3>1, <3>2 DEF TransferJob
  <2>. QED
    BY <1>0, <2>4, <2>5, <2>6 DEF ShapeInv
<1>15. OrderInv'
  <2>. DEFINE reads == {HostBuffer(t)}
              writes == {DeviceBuffer(c, t)}
  <2>1. \A m \in DOMAIN jobs :
          (jobs[m].writes \cap (reads \cup writes) # {}
             \/ jobs[m].reads \cap writes # {})
            => Covered(jobs', done', m, {Ticket})
    BY <1>2, <1>14
  <2>. HIDE DEF s, reads, writes
  <2>. QED
    BY <1>0, <1>1, <2>1, OrderKept DEF reads, writes
<1>16. \E ev : AfterPush(<<c, "moveTo">>, {HostBuffer(t)}, {<<c, t>>}, ev)
  BY <1>1, <1>2
<1>. QED
  BY <1>1, <1>6, <1>7, <1>10, <1>11, <1>12, <1>13, <1>15, <1>16 DEF TileEventsInv

\* A transfer from a device waits for all it conflicts with, other transfers
\* excepted unless the device has the one valid copy.
LEMMA MoveFromOrders ==
  ASSUME CtrlInv, CtrlInv', CpuOrderInv,
         NEW c \in Ctrl, NEW t \in Tiles, MoveFromInner(c, t),
         device_status[<<c, t>>] # "UNALLOC",
         MoveFromTracked => OnlyOnDevice(c, t)
  PROVE  /\ ShapeInv'
         /\ DeviceInv'
         /\ TileEventsInv'
         /\ OrderInv'
         /\ ExecOrderInv'
         /\ \E events : AfterPush(<<c, "moveFrom">>, {<<c, t>>}, {HostBuffer(t)}, events)
<1>. DEFINE s == <<c, "moveFrom">>
            events == {last_kernel_write[<<c, t>>], last_host_read[t],
                       last_host_write[t]} \cup SyncWait
<1>0. /\ ShapeInv /\ DeviceInv /\ ExecOrderInv /\ OrderInv
      /\ EventStreamsInv /\ TransferEventsInv /\ KernelEventsInv
      /\ HostEventsInv /\ OnlyOnDeviceInv
  BY DEF CpuOrderInv, TileEventsInv
<1>1. /\ AfterPush(s, {DeviceBuffer(c, t)}, {HostBuffer(t)}, events)
      /\ ExecOrderInv'
  <2>1. /\ UNCHANGED execVars
        /\ Push(s, {DeviceBuffer(c, t)}, {HostBuffer(t)}, events)
    BY DEF MoveFromInner
  <2>2. /\ s \in Stream
        /\ {HostBuffer(t)} \in SUBSET Buffer
        /\ {DeviceBuffer(c, t)} \in SUBSET Buffer
    BY Buffers, Streams
  <2>. HIDE DEF s, events
  <2>. QED
    BY <1>0, <2>1, <2>2, PushOrders
<1>. HIDE DEF events
<1>2. /\ <<c, t>> \in attached /\ MemMoves[c] /\ DeviceBuffer(c, t) = <<c, t>>
      /\ Host \notin Ctrl
  BY <1>0, BasicFacts DEF DeviceInv, DeviceBuffer
<1>3. MoveFromJob(jobs'[Ticket], c, t)
  BY <1>1, <1>2 DEF MoveFromJob, AfterPush
<1>4. /\ host_status' = [host_status EXCEPT ![t] = "VALID"]
      /\ device_status' = [device_status EXCEPT ![<<c, t>>] = "VALID"]
      /\ last_dth' = [last_dth EXCEPT ![<<c, t>>] = Ticket]
      /\ UNCHANGED <<attached, hostEvents, kernelEvents, last_htd>>
  BY DEF MoveFromInner
<1>5. /\ host_status \in [Tiles -> Status]
      /\ device_status \in [Ctrl \X Tiles -> Status]
      /\ last_dth \in [Ctrl \X Tiles -> 0 .. Len(jobs)]
  BY DEF CtrlInv, StatusInv, EventsInv, EventsUpTo
<1>6. ShapeInv'
  <2>1. \A u \in Tiles : host_status[u] # "UNALLOC" => host_status'[u] # "UNALLOC"
    BY <1>4, <1>5
  <2>2. host_status'[t] # "UNALLOC"
    BY <1>4, <1>5
  <2>3. /\ DOMAIN jobs' = DOMAIN jobs \cup {Ticket}
        /\ \A n \in DOMAIN jobs : jobs'[n] = jobs[n]
    BY <1>1 DEF AfterPush
  <2>4. attached' = attached
    BY <1>4
  <2>5. TransferJob(jobs'[Ticket], c, t)
    BY <1>3 DEF TransferJob
  <2>. QED
    BY <1>0, <1>2, <2>1, <2>2, <2>3, <2>4, <2>5 DEF ShapeInv
<1>7. DeviceInv'
  BY <1>0, <1>2, <1>4, <1>5 DEF DeviceInv
<1>8. last_dth'[<<c, t>>] = Ticket
  BY <1>4, <1>5
<1>9. ASSUME NEW d \in Ctrl, NEW u \in Tiles, ~(c = d /\ t = u)
      PROVE  last_dth'[<<d, u>>] = last_dth[<<d, u>>]
  BY <1>4, <1>5, <1>9
<1>10. EventStreamsInv'
  <2>1. \A r : OnStream(r) \subseteq OnStream(r)'
    BY <1>1 DEF OnStream, AfterPush
  <2>2. Ticket \in OnStream(s)'
    BY <1>1 DEF OnStream, AfterPush
  <2>. QED
    BY <1>0, <1>4, <1>8, <1>9, <2>1, <2>2 DEF EventStreamsInv, kernelEvents
<1>11. TransferEventsInv'
  <2>1. SUFFICES
          ASSUME NEW d \in Ctrl, NEW u \in Tiles, NEW n \in DOMAIN jobs'
          PROVE  /\ MoveToJob(jobs'[n], d, u)
                      => Covered(jobs', done', n, {last_htd'[<<d, u>>]})
                 /\ MoveFromJob(jobs'[n], d, u)
                      => Covered(jobs', done', n, {last_dth'[<<d, u>>]})
    BY DEF TransferEventsInv
  <2>2. CASE n = Ticket
    <3>1. ~MoveToJob(jobs'[n], d, u)
      BY <1>1, <2>2 DEF AfterPush, MoveToJob
    <3>2. MoveFromJob(jobs'[n], d, u) => c = d /\ t = u
      BY <1>2, <1>3, <2>2, TransferOf DEF TransferJob
    <3>. QED
      BY <1>1, <1>8, <2>2, <3>1, <3>2 DEF AfterPush
  <2>3. CASE n \in DOMAIN jobs
    <3>1. jobs'[n] = jobs[n]
      BY <1>1, <2>3 DEF AfterPush
    <3>2. MoveToJob(jobs'[n], d, u)
            => Covered(jobs', done', n, {last_htd'[<<d, u>>]})
      BY <1>0, <1>1, <1>4, <2>3, <3>1 DEF AfterPush, TransferEventsInv
    <3>3. CASE c = d /\ t = u
      BY <1>1, <1>8, <2>3, <3>1, <3>2, <3>3
         DEF AfterPush, OnStream, MoveFromJob
    <3>4. CASE ~(c = d /\ t = u)
      BY <1>0, <1>1, <1>9, <2>3, <3>1, <3>2, <3>4
         DEF AfterPush, TransferEventsInv
    <3>. QED
      BY <3>3, <3>4
  <2>. QED
    BY <1>1, <2>2, <2>3 DEF AfterPush
<1>12. KernelEventsInv' /\ HostEventsInv'
  BY <1>0, <1>1, <1>4, KernelEventsKept, HostEventsKept
<1>13. OnlyOnDeviceInv'
  <2>1. ASSUME NEW d \in Ctrl, NEW u \in Tiles, OnlyOnDevice(d, u)'
        PROVE  u # t /\ OnlyOnDevice(d, u)
    BY <1>4, <1>5, <2>1 DEF OnlyOnDevice
  <2>2. ASSUME NEW d \in Ctrl, NEW u \in Tiles, u # t
        PROVE  ~TransferJob(jobs'[Ticket], d, u)
    BY <1>2, <1>3, <2>2, TransferOf DEF TransferJob
  <2>. QED
    BY <1>0, <1>1, <1>4, <2>1, <2>2
       DEF OnlyOnDeviceInv, AfterPush, kernelEvents
<1>14. ASSUME NEW m \in DOMAIN jobs,
              \/ jobs[m].writes \cap {HostBuffer(t), <<c, t>>} # {}
              \/ jobs[m].reads \cap {HostBuffer(t)} # {},
              MoveFromTracked \/ TaskJob(jobs[m])
       PROVE  Covered(jobs', done', m, {Ticket})
  <2>1. ASSUME NEW E, Covered(jobs, done, m, E), E \subseteq events
        PROVE  Covered(jobs', done', m, {Ticket})
    BY <1>1, <2>1 DEF AfterPush
  <2>2. /\ {last_kernel_write[<<c, t>>]} \subseteq events
        /\ {last_host_write[t]} \subseteq events
        /\ {last_host_read[t], last_host_write[t]} \subseteq events
    BY DEF events
  <2>3. CASE HostBuffer(t) \in Touched(jobs[m]) /\ TaskJob(jobs[m])
    <3>1. \/ Covered(jobs, done, m, {last_host_write[t]})
          \/ Covered(jobs, done, m, {last_host_read[t], last_host_write[t]})
      BY <1>0, <2>3 DEF HostEventsInv, Touched
    <3>. QED
      BY <2>1, <2>2, <3>1
  <2>4. CASE HostJob(jobs[m])
    <3>1. HostBuffer(t) \in Touched(jobs[m])
      BY <1>2, <1>14, <2>4 DEF HostJob, Touched
    <3>. QED
      BY <2>3, <2>4, <3>1 DEF HostJob, TaskJob, HostStream
  <2>5. ASSUME NEW d \in Ctrl, KernelJob(jobs[m], d)
        PROVE  Covered(jobs', done', m, {Ticket})
    <3>1. CASE HostBuffer(t) \in Touched(jobs[m])
      BY <2>3, <2>5, <3>1 DEF KernelJob, TaskJob
    <3>2. CASE <<c, t>> \in jobs[m].writes
      <4>1. d = c
        BY <1>2, <2>5, <3>2 DEF KernelJob, DeviceBuffer, Touched
      <4>2. jobs[m].stream = <<c, "kernel">>
        BY <2>5, <4>1 DEF KernelJob
      <4>3. Covered(jobs, done, m, {last_kernel_write[<<c, t>>]})
        BY <1>0, <3>2, <4>2 DEF KernelEventsInv
      <4>. QED
        BY <2>1, <2>2, <4>3
    <3>. QED
      BY <1>14, <3>1, <3>2 DEF Touched
  <2>6. ASSUME NEW d \in Ctrl, NEW u \in Tiles, TransferJob(jobs[m], d, u),
               MemMoves[d]
        PROVE  Covered(jobs', done', m, {Ticket})
    <3>1. ~TaskJob(jobs[m])
      BY <2>6 DEF TransferJob, MoveToJob, MoveFromJob, TaskJob
    <3>2. d = c /\ OnlyOnDevice(c, t)
      BY <1>2, <1>14, <2>6, <3>1 DEF MoveFromTracked
    <3>3. u = t
      BY <1>2, <1>14, <2>6
         DEF TransferJob, MoveToJob, MoveFromJob, HostBuffer
    <3>4. Covered(jobs, done, m, {last_kernel_write[<<c, t>>]})
      BY <1>0, <2>6, <3>2, <3>3 DEF OnlyOnDeviceInv
    <3>. QED
      BY <2>1, <2>2, <3>4
  <2>. QED
    BY <1>0, <2>4, <2>5, <2>6 DEF ShapeInv
<1>15. OrderInv'
  <2>. DEFINE reads == {DeviceBuffer(c, t)}
              writes == {HostBuffer(t)}
  <2>1. \A m \in DOMAIN jobs :
          /\ \/ jobs[m].writes \cap (reads \cup writes) # {}
             \/ jobs[m].reads \cap writes # {}
          /\ MoveFromTracked \/ TaskJob(jobs[m])
          => Covered(jobs', done', m, {Ticket})
    BY <1>2, <1>14
  <2>2. s[2] = "moveFrom"
    OBVIOUS
  <2>. HIDE DEF s, reads, writes
  <2>. QED
    BY <1>0, <1>1, <2>1, <2>2, OrderKept DEF reads, writes
<1>16. \E ev : AfterPush(<<c, "moveFrom">>, {<<c, t>>}, {HostBuffer(t)}, ev)
  BY <1>1, <1>2
<1>. QED
  BY <1>1, <1>6, <1>7, <1>10, <1>11, <1>12, <1>13, <1>15, <1>16 DEF TileEventsInv

\* A task waits for all it conflicts with.
LEMMA TaskOrders ==
  ASSUME CtrlInv, CtrlInv', CpuOrderInv, UNCHANGED execVars,
         main.pc \in {"kernel", "hosttask"}, main.arg > Len(main.args),
         Push(LaunchStream, {LaunchBuffer(t) : t \in Ins(main.args)},
              {LaunchBuffer(t) : t \in Outs(main.args)}, SyncWait)
  PROVE  /\ AfterPush(LaunchStream, {LaunchBuffer(t) : t \in Ins(main.args)},
                      {LaunchBuffer(t) : t \in Outs(main.args)}, SyncWait)
         /\ ExecOrderInv'
         /\ OrderInv'
         /\ \A t \in Outs(main.args), n \in DOMAIN jobs :
              LaunchBuffer(t) \in Touched(jobs[n])
                => Covered(jobs', done', n, {Ticket})
<1>. DEFINE s == LaunchStream
            reads == {LaunchBuffer(t) : t \in Ins(main.args)}
            writes == {LaunchBuffer(t) : t \in Outs(main.args)}
<1>0. OrderInv /\ ExecOrderInv /\ LaunchInv
  BY DEF CpuOrderInv
<1>1. Ins(main.args) \subseteq Tiles /\ Outs(main.args) \subseteq Tiles
  BY ArgumentsTyped DEF CtrlInv
<1>2. main.pc = "kernel" => main.ctrl \in Ctrl
  BY DEF CtrlInv, MainInv
<1>3. s \in Stream /\ s[2] \in {"kernel", "host"}
  BY <1>2, Streams DEF LaunchStream, HostStream, Stream
<1>4. reads \in SUBSET Buffer /\ writes \in SUBSET Buffer
  <2>1. \A t \in Tiles : LaunchBuffer(t) \in Buffer
    BY <1>2, Buffers DEF LaunchBuffer, HostBuffer, Buffer
  <2>. QED
    BY <1>1, <2>1
<1>5. AfterPush(s, reads, writes, SyncWait) /\ ExecOrderInv'
  <2>. HIDE DEF s, reads, writes
  <2>1. Push(s, reads, writes, SyncWait)
    BY DEF s, reads, writes
  <2>. QED
    BY <1>0, <1>3, <1>4, <2>1, PushOrders
<1>6. ASSUME NEW i \in DOMAIN main.args, NEW n \in DOMAIN jobs,
             Hazard(jobs[n], LaunchBuffer(main.args[i].tile), main.args[i].role)
      PROVE  Covered(jobs', done', n, {Ticket})
  <2>1. i < main.arg
    <3>1. main.args \in Seq([tile : Tiles, role : Role]) /\ main.arg \in Nat
      BY BasicFacts
    <3>. QED
      BY <3>1, SMT
  <2>2. ArgEvents = {}
    BY DEF ArgEvents
  <2>3. Covered(jobs, done, n, pending[s] \cup OnStream(s) \cup {})
    BY <1>0, <1>6, <2>1, <2>2 DEF LaunchInv
  <2>4. \A e \in pending[s] \cup OnStream(s) \cup {} :
          e \in pending[s] \cup SyncWait \cup OnStream(s)
    OBVIOUS
  <2>. DEFINE E == pending[s] \cup OnStream(s) \cup {}
  <2>5. Covered(jobs, done, n, E) /\ \A e \in E :
          e \in pending[s] \cup SyncWait \cup OnStream(s)
    BY <2>3, <2>4
  <2>. HIDE DEF s, reads, writes, E
  <2>. QED
    BY <1>5, <2>5 DEF AfterPush
<1>7. ASSUME NEW t \in Outs(main.args), NEW n \in DOMAIN jobs,
             LaunchBuffer(t) \in Touched(jobs[n])
      PROVE  Covered(jobs', done', n, {Ticket})
  BY <1>6, <1>7 DEF Outs, Hazard, Touched
<1>8. ASSUME NEW t \in Ins(main.args), NEW n \in DOMAIN jobs,
             LaunchBuffer(t) \in jobs[n].writes
      PROVE  Covered(jobs', done', n, {Ticket})
  BY <1>6, <1>8 DEF Ins, Hazard
<1>9. ASSUME NEW n \in DOMAIN jobs,
             \/ jobs[n].writes \cap (reads \cup writes) # {}
             \/ jobs[n].reads \cap writes # {}
      PROVE  Covered(jobs', done', n, {Ticket})
  <2>1. CASE \E t \in Outs(main.args) : LaunchBuffer(t) \in Touched(jobs[n])
    BY <1>7, <2>1
  <2>2. CASE \E t \in Ins(main.args) : LaunchBuffer(t) \in jobs[n].writes
    BY <1>8, <2>2
  <2>. QED
    BY <1>9, <2>1, <2>2 DEF Touched
<1>10. OrderInv'
  <2>. HIDE DEF s, reads, writes
  <2>. QED
    BY <1>0, <1>5, <1>9, OrderKept
<1>. QED
  BY <1>5, <1>7, <1>10

\* Where readers have no events of their own, all arguments are written.
LEMMA RolesWrite ==
  ASSUME CtrlInv, HostReadersTracked, ~(\A c \in Ctrl : MemMoves[c])
  PROVE  Ins(main.args) \subseteq Outs(main.args)
<1>1. main.args \in Accesses \cup {<<>>}
  BY DEF CtrlInv, MainInv, MainState
<1>2. \A i \in DOMAIN main.args : main.args[i].role # "IN"
  BY <1>1, SMT DEF HostReadersTracked
<1>. QED
  BY <1>2 DEF Ins, Outs

\* The host events of the tiles of a task cover the tasks before it.
LEMMA HostEventsRecorded ==
  ASSUME HostEventsInv,
         NEW ins \in SUBSET Tiles, NEW outs \in SUBSET Tiles, NEW s, NEW events,
         AfterPush(s, {HostBuffer(t) : t \in ins}, {HostBuffer(t) : t \in outs},
                   events),
         \A t \in outs, n \in DOMAIN jobs :
           HostBuffer(t) \in Touched(jobs[n])
             => Covered(jobs', done', n, {Ticket}),
         \A t \in ins \ outs, n \in DOMAIN jobs :
           TaskJob(jobs[n]) /\ HostBuffer(t) \in jobs[n].reads
             => Covered(jobs', done', n, {Ticket}),
         \A t \in Tiles :
           /\ last_host_write'[t] = IF t \in outs THEN Ticket
                                                  ELSE last_host_write[t]
           /\ last_host_read'[t] = IF t \in ins THEN Ticket
                                                ELSE last_host_read[t]
  PROVE  HostEventsInv'
<1>1. SUFFICES
        ASSUME NEW t \in Tiles, NEW n \in DOMAIN jobs', TaskJob(jobs'[n])
        PROVE  /\ HostBuffer(t) \in jobs'[n].writes
                    => Covered(jobs', done', n, {last_host_write'[t]})
               /\ HostBuffer(t) \in jobs'[n].reads
                    => Covered(jobs', done', n,
                               {last_host_read'[t], last_host_write'[t]})
  BY DEF HostEventsInv
<1>2. \A m, e, E : Covered(jobs', done', m, {e}) /\ e \in E
                     => Covered(jobs', done', m, E)
  BY CoveredByMore
<1>3. CASE n = Ticket
  <2>1. /\ HostBuffer(t) \in jobs'[n].writes => t \in outs
        /\ HostBuffer(t) \in jobs'[n].reads => t \in ins
    BY <1>3 DEF AfterPush, HostBuffer
  <2>2. Covered(jobs', done', n, {Ticket})
    BY <1>3 DEF AfterPush
  <2>. QED
    BY <1>2, <2>1, <2>2
<1>4. CASE n \in DOMAIN jobs
  <2>1. jobs'[n] = jobs[n]
    BY <1>4 DEF AfterPush
  <2>2. /\ HostBuffer(t) \in jobs[n].writes
             => Covered(jobs', done', n, {last_host_write[t]})
        /\ HostBuffer(t) \in jobs[n].reads
             => Covered(jobs', done', n,
                        {last_host_read[t], last_host_write[t]})
    BY <1>1, <1>4, <2>1 DEF HostEventsInv, AfterPush
  <2>3. CASE t \in outs
    <3>1. HostBuffer(t) \in Touched(jobs[n])
            => Covered(jobs', done', n, {Ticket})
      BY <1>4, <2>3
    <3>2. HostBuffer(t) \in Touched(jobs[n])
            => Covered(jobs', done', n,
                       {last_host_read'[t], last_host_write'[t]})
      BY <1>2, <2>3, <3>1
    <3>. QED
      BY <2>1, <2>3, <3>1, <3>2 DEF Touched
  <2>4. CASE t \notin outs /\ t \in ins
    <3>1. HostBuffer(t) \in jobs[n].reads
            => Covered(jobs', done', n, {Ticket})
      BY <1>1, <1>4, <2>1, <2>4
    <3>2. HostBuffer(t) \in jobs[n].reads
            => Covered(jobs', done', n,
                       {last_host_read'[t], last_host_write'[t]})
      BY <1>2, <2>4, <3>1
    <3>. QED
      BY <2>1, <2>2, <2>4, <3>2
  <2>5. CASE t \notin outs /\ t \notin ins
    BY <2>1, <2>2, <2>5
  <2>. QED
    BY <2>3, <2>4, <2>5
<1>. QED
  BY <1>3, <1>4 DEF AfterPush

\* Jobs stay on their streams.
LEMMA StreamsGrow ==
  ASSUME NEW s, NEW reads, NEW writes, NEW events,
         AfterPush(s, reads, writes, events)
  PROVE  /\ \A r : OnStream(r) \subseteq OnStream(r)'
         /\ \A r : r = s => Ticket \in OnStream(r)'
<1>1. /\ DOMAIN jobs' = DOMAIN jobs \cup {Ticket}
      /\ \A n \in DOMAIN jobs : jobs'[n] = jobs[n]
      /\ jobs'[Ticket].stream = s
  BY DEF AfterPush
<1>. QED
  BY <1>1 DEF OnStream

\* The events and statuses after a kernel cover what those before it did, and
\* the kernel.
LEMMA KernelOrders ==
  ASSUME CtrlInv, CtrlInv', CpuOrderInv, HostReadersTracked, KernelPush
  PROVE  /\ ShapeInv'
         /\ DeviceInv'
         /\ TileEventsInv'
         /\ OrderInv'
         /\ ExecOrderInv'
<1>. DEFINE c    == main.ctrl
            ins  == Ins(main.args)
            outs == Outs(main.args)
            s    == LaunchStream
            reads == {LaunchBuffer(t) : t \in ins}
            writes == {LaunchBuffer(t) : t \in outs}
<1>0. /\ ShapeInv /\ DeviceInv /\ LaunchAttachedInv
      /\ EventStreamsInv /\ TransferEventsInv /\ KernelEventsInv
      /\ HostEventsInv /\ OnlyOnDeviceInv
  BY DEF CpuOrderInv, TileEventsInv
<1>1. main.pc = "kernel" /\ c \in Ctrl /\ Host \notin Ctrl
  BY BasicFacts DEF KernelPush, CtrlInv, MainInv
<1>2. s = <<c, "kernel">> /\ \A t : LaunchBuffer(t) = DeviceBuffer(c, t)
  BY <1>1 DEF LaunchStream, LaunchBuffer
<1>3. ins \subseteq Tiles /\ outs \subseteq Tiles
  BY ArgumentsTyped DEF CtrlInv
<1>4. \A t \in ins \cup outs : <<c, t>> \in attached
  BY <1>0, <1>1 DEF LaunchAttachedInv, Ins, Outs
<1>5. /\ AfterPush(s, reads, writes, SyncWait)
      /\ ExecOrderInv'
      /\ OrderInv'
      /\ \A t \in outs, n \in DOMAIN jobs :
           DeviceBuffer(c, t) \in Touched(jobs[n])
             => Covered(jobs', done', n, {Ticket})
  <2>1. Push(s, reads, writes, SyncWait)
    <3>1. /\ reads = {DeviceBuffer(c, t) : t \in ins}
          /\ writes = {DeviceBuffer(c, t) : t \in outs}
      BY <1>2
    <3>2. Push(<<c, "kernel">>, {DeviceBuffer(c, t) : t \in ins},
               {DeviceBuffer(c, t) : t \in outs}, SyncWait)
      BY DEF KernelPush
    <3>. HIDE DEF reads, writes, s, ins, outs, c
    <3>. QED
      BY <1>2, <3>1, <3>2
  <2>2. UNCHANGED execVars /\ main.arg > Len(main.args)
    BY DEF KernelPush
  <2>. QED
    BY <1>1, <1>2, <2>1, <2>2, TaskOrders
<1>. HIDE DEF ins, outs, s, reads, writes
<1>6. UNCHANGED <<attached, last_htd, last_dth>>
  BY DEF KernelPush
<1>7. /\ host_status \in [Tiles -> Status]
      /\ device_status \in [Ctrl \X Tiles -> Status]
  BY DEF CtrlInv, StatusInv
<1>8. \A ct \in Ctrl \X Tiles : device_status'[ct] =
        IF MemMoves[c] /\ ct[1] = c /\ ct[2] \in outs THEN "VALID"
        ELSE IF ct[2] \in outs /\ device_status[ct] = "VALID" THEN "INVALID"
        ELSE device_status[ct]
  BY DEF KernelPush, InvalidateDevices, outs
<1>9. \A t \in Tiles : host_status'[t] =
        IF MemMoves[c]
        THEN IF t \in outs /\ host_status[t] = "VALID" THEN "INVALID"
                                                       ELSE host_status[t]
        ELSE IF t \in outs THEN "VALID" ELSE host_status[t]
  BY DEF KernelPush, outs
<1>10. ShapeInv'
  <2>1. \A u \in Tiles : host_status[u] # "UNALLOC" => host_status'[u] # "UNALLOC"
    BY <1>9
  <2>2. /\ KernelJob(jobs'[Ticket], c)
        /\ \A b \in Touched(jobs'[Ticket]) : <<c, b[2]>> \in attached
    <3>1. \A b \in Touched(jobs'[Ticket]) :
            \E t \in ins \cup outs : b = DeviceBuffer(c, t)
      BY <1>2, <1>5 DEF AfterPush, Touched, reads, writes
    <3>2. \A t : DeviceBuffer(c, t)[2] = t
      BY DEF DeviceBuffer
    <3>. QED
      BY <1>2, <1>3, <1>4, <1>5, <3>1, <3>2 DEF AfterPush, KernelJob
  <2>. QED
    BY <1>0, <1>1, <1>5, <1>6, <2>1, <2>2 DEF ShapeInv, AfterPush
<1>11. DeviceInv'
  BY <1>0, <1>4, <1>6, <1>8 DEF DeviceInv
<1>12. TransferEventsInv'
  BY <1>0, <1>2, <1>5, <1>6, TransferEventsKept
<1>13. CASE MemMoves[c]
  <2>1. /\ UNCHANGED hostEvents
        /\ \A ct \in Ctrl \X Tiles :
             /\ last_kernel_write'[ct] = IF ct[1] = c /\ ct[2] \in outs
                                         THEN Ticket ELSE last_kernel_write[ct]
             /\ last_kernel_read'[ct] = IF ct[1] = c /\ ct[2] \in ins
                                        THEN Ticket ELSE last_kernel_read[ct]
    BY <1>13 DEF KernelPush, ins, outs
  <2>2. /\ jobs'[Ticket].reads = {<<c, t>> : t \in ins}
        /\ jobs'[Ticket].writes = {<<c, t>> : t \in outs}
    BY <1>2, <1>5, <1>13 DEF AfterPush, DeviceBuffer, reads, writes
  <2>3. EventStreamsInv'
    <3>1. \A r : OnStream(r) \subseteq OnStream(r)'
      BY <1>5, StreamsGrow
    <3>2. \A d \in Ctrl : d = c => Ticket \in OnStream(<<d, "kernel">>)'
      BY <1>2, <1>5, StreamsGrow
    <3>. QED
      BY <1>0, <1>2, <1>6, <2>1, <3>1, <3>2 DEF EventStreamsInv
  <2>4. KernelEventsInv'
    <3>1. SUFFICES
            ASSUME NEW d \in Ctrl, NEW u \in Tiles, NEW n \in DOMAIN jobs',
                   jobs'[n].stream = <<d, "kernel">>
            PROVE  /\ <<d, u>> \in jobs'[n].reads
                        => Covered(jobs', done', n, {last_kernel_read'[<<d, u>>]})
                   /\ <<d, u>> \in jobs'[n].writes
                        => Covered(jobs', done', n, {last_kernel_write'[<<d, u>>]})
      BY DEF KernelEventsInv
    <3>2. CASE n = Ticket
      BY <1>5, <2>1, <2>2, <3>2 DEF AfterPush
    <3>3. CASE n \in DOMAIN jobs
      <4>1. jobs'[n] = jobs[n]
        BY <1>5, <3>3 DEF AfterPush
      <4>2. d = c => Covered(jobs', done', n, {Ticket})
        BY <1>2, <1>5, <3>1, <3>3, <4>1 DEF AfterPush, OnStream
      <4>3. /\ <<d, u>> \in jobs[n].reads
                 => Covered(jobs', done', n, {last_kernel_read[<<d, u>>]})
            /\ <<d, u>> \in jobs[n].writes
                 => Covered(jobs', done', n, {last_kernel_write[<<d, u>>]})
        BY <1>0, <1>5, <3>1, <3>3, <4>1 DEF AfterPush, KernelEventsInv
      <4>. QED
        BY <2>1, <4>1, <4>2, <4>3
    <3>. QED
      BY <1>5, <3>2, <3>3 DEF AfterPush
  <2>5. HostEventsInv'
    <3>1. \A t : HostBuffer(t) \notin Touched(jobs'[Ticket])
      BY <1>1, <2>2 DEF Touched, HostBuffer
    <3>. QED
      BY <1>0, <1>5, <2>1, <3>1
         DEF HostEventsInv, AfterPush, Touched, hostEvents
  <2>6. OnlyOnDeviceInv'
    <3>1. SUFFICES
            ASSUME NEW d \in Ctrl, NEW u \in Tiles, OnlyOnDevice(d, u)',
                   NEW n \in DOMAIN jobs', TransferJob(jobs'[n], d, u)
            PROVE  Covered(jobs', done', n, {last_kernel_write'[<<d, u>>]})
      BY DEF OnlyOnDeviceInv
    <3>2. n \in DOMAIN jobs /\ jobs'[n] = jobs[n]
      BY <1>2, <1>5, <3>1
         DEF AfterPush, TransferJob, MoveToJob, MoveFromJob
    <3>3. CASE u \in outs
      <4>1. d = c
        BY <1>8, <3>1, <3>3 DEF OnlyOnDevice
      <4>2. DeviceBuffer(c, u) \in Touched(jobs[n])
        BY <1>13, <3>1, <3>2, <4>1
           DEF TransferJob, MoveToJob, MoveFromJob, Touched, DeviceBuffer
      <4>. QED
        BY <1>5, <2>1, <3>2, <3>3, <4>1, <4>2
    <3>4. CASE u \notin outs
      <4>1. OnlyOnDevice(d, u)
        BY <1>8, <1>9, <3>1, <3>4 DEF OnlyOnDevice
      <4>. QED
        BY <1>0, <1>5, <2>1, <3>1, <3>2, <3>4, <4>1
           DEF OnlyOnDeviceInv, AfterPush
    <3>. QED
      BY <3>3, <3>4
  <2>. QED
    BY <1>5, <1>10, <1>11, <1>12, <2>3, <2>4, <2>5, <2>6 DEF TileEventsInv
<1>14. CASE ~MemMoves[c]
  <2>1. /\ UNCHANGED kernelEvents
        /\ \A t \in Tiles :
             /\ last_host_write'[t] = IF t \in outs THEN Ticket
                                                    ELSE last_host_write[t]
             /\ last_host_read'[t] = IF t \in ins THEN Ticket
                                                  ELSE last_host_read[t]
    BY <1>14 DEF KernelPush, ins, outs
  <2>2. /\ jobs'[Ticket].reads = {HostBuffer(t) : t \in ins}
        /\ jobs'[Ticket].writes = {HostBuffer(t) : t \in outs}
    BY <1>2, <1>5, <1>14 DEF AfterPush, DeviceBuffer, HostBuffer, reads, writes
  <2>3. EventStreamsInv'
    <3>1. \A r : OnStream(r) \subseteq OnStream(r)'
      BY <1>5, StreamsGrow
    <3>. QED
      BY <1>0, <1>6, <2>1, <3>1 DEF EventStreamsInv, kernelEvents
  <2>4. KernelEventsInv'
    <3>1. \A d \in Ctrl, u \in Tiles : <<d, u>> \notin Touched(jobs'[Ticket])
      BY <1>1, <2>2 DEF Touched, HostBuffer
    <3>. QED
      BY <1>0, <1>5, <2>1, <3>1
         DEF KernelEventsInv, AfterPush, Touched, kernelEvents
  <2>5. ins \subseteq outs
    BY <1>14, <1>1, RolesWrite DEF ins, outs
  <2>6. HostEventsInv'
    <3>1. AfterPush(s, {HostBuffer(t) : t \in ins}, {HostBuffer(t) : t \in outs},
                    SyncWait)
      BY <1>5, <2>2 DEF AfterPush
    <3>2. \A t \in outs, n \in DOMAIN jobs :
            HostBuffer(t) \in Touched(jobs[n])
              => Covered(jobs', done', n, {Ticket})
      BY <1>5, <1>14 DEF DeviceBuffer, HostBuffer
    <3>. QED
      BY <1>0, <1>3, <2>1, <2>5, <3>1, <3>2, HostEventsRecorded
  <2>7. OnlyOnDeviceInv'
    <3>1. ASSUME NEW d \in Ctrl, NEW u \in Tiles, OnlyOnDevice(d, u)'
          PROVE  OnlyOnDevice(d, u)
      BY <1>8, <1>9, <1>14, <3>1 DEF OnlyOnDevice
    <3>2. \A d \in Ctrl, u \in Tiles : ~TransferJob(jobs'[Ticket], d, u)
      BY <1>2, <1>5 DEF AfterPush, TransferJob, MoveToJob, MoveFromJob
    <3>. QED
      BY <1>0, <1>5, <2>1, <3>1, <3>2
         DEF OnlyOnDeviceInv, AfterPush, kernelEvents
  <2>. QED
    BY <1>5, <1>10, <1>11, <1>12, <2>3, <2>4, <2>6, <2>7 DEF TileEventsInv
<1>. QED
  BY <1>13, <1>14

\* The same of a host task.
LEMMA HostTaskOrders ==
  ASSUME CtrlInv, CtrlInv', CpuOrderInv, HostReadersTracked, HostTaskPush
  PROVE  /\ ShapeInv'
         /\ DeviceInv'
         /\ TileEventsInv'
         /\ OrderInv'
         /\ ExecOrderInv'
<1>. DEFINE ins  == Ins(main.args)
            outs == Outs(main.args)
            reads == {HostBuffer(t) : t \in ins}
            writes == {HostBuffer(t) : t \in outs}
<1>0. /\ ShapeInv /\ DeviceInv
      /\ EventStreamsInv /\ TransferEventsInv /\ KernelEventsInv
      /\ HostEventsInv /\ OnlyOnDeviceInv
  BY DEF CpuOrderInv, TileEventsInv
<1>1. main.pc = "hosttask" /\ Host \notin Ctrl
  BY BasicFacts DEF HostTaskPush
<1>2. LaunchStream = HostStream /\ \A t : LaunchBuffer(t) = HostBuffer(t)
  BY <1>1 DEF LaunchStream, LaunchBuffer
<1>3. ins \subseteq Tiles /\ outs \subseteq Tiles
  BY ArgumentsTyped DEF CtrlInv
<1>4. /\ AfterPush(HostStream, reads, writes, SyncWait)
      /\ ExecOrderInv'
      /\ OrderInv'
      /\ \A t \in outs, n \in DOMAIN jobs :
           HostBuffer(t) \in Touched(jobs[n])
             => Covered(jobs', done', n, {Ticket})
  <2>1. UNCHANGED execVars /\ main.arg > Len(main.args)
    BY DEF HostTaskPush
  <2>2. Push(HostStream, reads, writes, SyncWait)
    BY DEF HostTaskPush
  <2>3. /\ {LaunchBuffer(t) : t \in Ins(main.args)} = reads
        /\ {LaunchBuffer(t) : t \in Outs(main.args)} = writes
    BY <1>2
  <2>. HIDE DEF reads, writes
  <2>. QED
    BY <1>1, <1>2, <2>1, <2>2, <2>3, TaskOrders
<1>5. /\ UNCHANGED <<attached, host_status, device_status, kernelEvents,
                     last_htd, last_dth>>
      /\ \A t \in Tiles :
           /\ last_host_write'[t] = IF t \in outs THEN Ticket
                                                  ELSE last_host_write[t]
           /\ last_host_read'[t] = IF t \in ins THEN Ticket
                                                ELSE last_host_read[t]
  BY DEF HostTaskPush
<1>6. /\ HostJob(jobs'[Ticket])
      /\ \A d \in Ctrl, u \in Tiles : <<d, u>> \notin Touched(jobs'[Ticket])
  <2>1. \A b \in Touched(jobs'[Ticket]) : b[1] = Host
    BY <1>4 DEF AfterPush, Touched, HostBuffer
  <2>. QED
    BY <1>1, <1>4, <2>1 DEF AfterPush, HostJob
<1>7. \A t \in ins \ outs, n \in DOMAIN jobs :
        TaskJob(jobs[n]) /\ HostBuffer(t) \in jobs[n].reads
          => Covered(jobs', done', n, {Ticket})
  <2>1. CASE \A c \in Ctrl : MemMoves[c]
    <3>1. SUFFICES ASSUME NEW n \in DOMAIN jobs, NEW t \in ins,
                          TaskJob(jobs[n]), HostBuffer(t) \in jobs[n].reads
                   PROVE  Covered(jobs', done', n, {Ticket})
      OBVIOUS
    <3>2. \A c \in Ctrl : ~KernelJob(jobs[n], c)
      BY <1>1, <2>1, <3>1 DEF KernelJob, DeviceBuffer, HostBuffer, Touched
    <3>3. \A c \in Ctrl, u \in Tiles : ~TransferJob(jobs[n], c, u)
      BY <3>1 DEF TransferJob, MoveToJob, MoveFromJob, TaskJob
    <3>4. HostJob(jobs[n])
      BY <1>0, <3>2, <3>3 DEF ShapeInv
    <3>. QED
      BY <1>4, <3>4 DEF AfterPush, OnStream, HostJob
  <2>2. CASE ~(\A c \in Ctrl : MemMoves[c])
    BY <2>2, RolesWrite
  <2>. QED
    BY <2>1, <2>2
<1>. HIDE DEF ins, outs
<1>8. ShapeInv'
  BY <1>0, <1>4, <1>5, <1>6 DEF ShapeInv, AfterPush
<1>9. DeviceInv'
  BY <1>0, <1>5 DEF DeviceInv
<1>10. EventStreamsInv'
  <2>1. \A r : OnStream(r) \subseteq OnStream(r)'
    BY <1>4, StreamsGrow
  <2>. QED
    BY <1>0, <1>5, <2>1 DEF EventStreamsInv, kernelEvents
<1>11. TransferEventsInv' /\ KernelEventsInv'
  <2>1. HostStream[2] = "host" /\ \A c \in Ctrl : HostStream # <<c, "kernel">>
    BY <1>1 DEF HostStream
  <2>. QED
    BY <1>0, <1>4, <1>5, <2>1, TransferEventsKept, KernelEventsKept
<1>12. HostEventsInv'
  BY <1>0, <1>3, <1>4, <1>5, <1>7, HostEventsRecorded
<1>13. OnlyOnDeviceInv'
  <2>1. \A d \in Ctrl, u \in Tiles : ~TransferJob(jobs'[Ticket], d, u)
    BY <1>6 DEF TransferJob, MoveToJob, MoveFromJob, Touched
  <2>. QED
    BY <1>0, <1>4, <1>5, <2>1
       DEF OnlyOnDeviceInv, AfterPush, kernelEvents, OnlyOnDevice
<1>. QED
  BY <1>4, <1>8, <1>9, <1>10, <1>11, <1>12, <1>13 DEF TileEventsInv
-----------------------------------------------------------------------------
(* A launch under way.                                                     *)

\* The events a launch waits for on behalf of an argument, and its own stream,
\* cover what conflicts with that argument.
LEMMA ArgCovered ==
  ASSUME CtrlInv, CpuOrderInv,
         main.pc \in {"kernel", "hosttask"}, main.arg <= Len(main.args),
         NEW n \in DOMAIN jobs,
         Hazard(jobs[n], LaunchBuffer(ArgTile), ArgRole)
  PROVE  Covered(jobs, done, n, OnStream(LaunchStream) \cup ArgEvents)
<1>. DEFINE c == main.ctrl
            t == ArgTile
            role == ArgRole
            E == OnStream(LaunchStream) \cup ArgEvents
<1>0. /\ ShapeInv /\ DeviceInv
      /\ EventStreamsInv /\ TransferEventsInv /\ KernelEventsInv
      /\ HostEventsInv /\ OnlyOnDeviceInv
  BY DEF CpuOrderInv, TileEventsInv
<1>1. t \in Tiles /\ role \in Role /\ Host \notin Ctrl
  BY ArgumentsTyped, BasicFacts DEF CtrlInv
<1>2. main.pc = "kernel" => c \in Ctrl
  BY DEF CtrlInv, MainInv
<1>3. ~(main.arg > Len(main.args))
  <2>1. main.args \in Seq([tile : Tiles, role : Role]) /\ main.arg \in Nat
    BY BasicFacts
  <2>. QED
    BY <2>1, SMT
<1>4. ASSUME NEW F, Covered(jobs, done, n, F),
             \A e \in F : e \in DOMAIN jobs => e \in E
      PROVE  Covered(jobs, done, n, E)
  BY <1>4, CoveredByMore
<1>5. CASE main.pc = "kernel" /\ MemMoves[c]
  <2>1. LaunchBuffer(t) = <<c, t>> /\ LaunchStream = <<c, "kernel">>
    BY <1>5 DEF LaunchBuffer, DeviceBuffer, LaunchStream
  <2>2. ArgEvents = DeviceWait(c, t, role)
    BY <1>3, <1>5 DEF ArgEvents
  <2>. HIDE DEF t, role, E
  <2>3. ~HostJob(jobs[n])
    BY <1>1, <1>2, <1>5, <2>1 DEF HostJob, Hazard, Touched, t, role
  <2>4. ASSUME NEW d \in Ctrl, KernelJob(jobs[n], d)
        PROVE  Covered(jobs, done, n, E)
    <3>1. d = c
      BY <1>1, <1>2, <1>5, <2>1, <2>4
         DEF KernelJob, DeviceBuffer, Hazard, Touched, t, role
    <3>2. n \in OnStream(LaunchStream)
      BY <2>1, <2>4, <3>1 DEF KernelJob, OnStream
    <3>. QED
      BY <3>2, CoveredBySelf DEF E
  <2>5. ASSUME NEW d \in Ctrl, NEW u \in Tiles, TransferJob(jobs[n], d, u),
               host_status[u] # "UNALLOC"
        PROVE  Covered(jobs, done, n, E)
    <3>1. d = c /\ u = t
      BY <1>1, <1>2, <1>5, <2>1, <2>5
         DEF TransferJob, MoveToJob, MoveFromJob, HostBuffer, Hazard, t, role
    <3>2. MoveFromJob(jobs[n], c, t) => role # "IN"
      BY <1>1, <1>2, <1>5, <2>1
         DEF MoveFromJob, HostBuffer, Hazard, t, role
    <3>3. CASE OnlyOnDevice(c, t)
      <4>1. Covered(jobs, done, n, {last_kernel_write[<<c, t>>]})
        BY <1>0, <1>1, <1>2, <1>5, <2>5, <3>1, <3>3 DEF OnlyOnDeviceInv
      <4>2. last_kernel_write[<<c, t>>] \in OnStream(LaunchStream) \cup {0}
        BY <1>0, <1>1, <1>2, <1>5, <2>1 DEF EventStreamsInv
      <4>3. 0 \notin DOMAIN jobs
        BY BasicFacts
      <4>4. \A e \in {last_kernel_write[<<c, t>>]} : e \in DOMAIN jobs => e \in E
        BY <4>2, <4>3 DEF E
      <4>. QED
        BY <1>4, <4>1, <4>4
    <3>4. CASE ~OnlyOnDevice(c, t)
      <4>1. DeviceWait(c, t, role) =
              {last_htd[<<c, t>>]}
                \cup (IF role # "IN" THEN {last_dth[<<c, t>>]} ELSE {})
        BY <2>5, <3>1, <3>4 DEF DeviceWait, OnlyOnDevice
      <4>2. CASE MoveToJob(jobs[n], c, t)
        <5>1. Covered(jobs, done, n, {last_htd[<<c, t>>]})
          BY <1>0, <1>1, <1>2, <1>5, <4>2 DEF TransferEventsInv, t
        <5>2. {last_htd[<<c, t>>]} \subseteq E
          BY <2>2, <4>1 DEF E
        <5>. QED
          BY <1>4, <5>1, <5>2
      <4>3. CASE MoveFromJob(jobs[n], c, t)
        <5>1. Covered(jobs, done, n, {last_dth[<<c, t>>]})
          BY <1>0, <1>1, <1>2, <1>5, <4>3 DEF TransferEventsInv, t
        <5>2. {last_dth[<<c, t>>]} \subseteq E
          BY <2>2, <3>2, <4>1, <4>3 DEF E
        <5>. QED
          BY <1>4, <5>1, <5>2
      <4>. QED
        BY <2>5, <3>1, <4>2, <4>3 DEF TransferJob
    <3>. QED
      BY <3>3, <3>4
  <2>. QED
    BY <1>0, <2>3, <2>4, <2>5 DEF ShapeInv, E, t, role
<1>6. CASE ~(main.pc = "kernel" /\ MemMoves[c])
  <2>1. LaunchBuffer(t) = HostBuffer(t)
    BY <1>6 DEF LaunchBuffer, DeviceBuffer, HostBuffer
  <2>2. ArgEvents = HostTaskWait(t, role)
    BY <1>3, <1>6 DEF ArgEvents
  <2>3. /\ {last_host_write[t]} \subseteq E
        /\ role # "IN" => {last_host_read[t], last_host_write[t]} \subseteq E
        /\ \A d \in Impls(t) : /\ {last_dth[<<d, t>>]} \subseteq E
                               /\ role # "IN" => {last_htd[<<d, t>>]} \subseteq E
    BY <2>2 DEF HostTaskWait
  <2>. HIDE DEF t, role, E
  <2>4. CASE TaskJob(jobs[n])
    <3>1. CASE HostBuffer(t) \in jobs[n].writes
      <4>1. Covered(jobs, done, n, {last_host_write[t]})
        BY <1>0, <1>1, <2>4, <3>1 DEF HostEventsInv
      <4>2. {last_host_write[t]} \subseteq E
        BY <2>3
      <4>. QED
        BY <1>4, <4>1, <4>2 DEF E
    <3>2. CASE role # "IN" /\ HostBuffer(t) \in jobs[n].reads
      <4>1. Covered(jobs, done, n, {last_host_read[t], last_host_write[t]})
        BY <1>0, <1>1, <2>4, <3>2 DEF HostEventsInv
      <4>2. {last_host_read[t], last_host_write[t]} \subseteq E
        BY <2>3, <3>2
      <4>. QED
        BY <1>4, <4>1, <4>2 DEF E
    <3>. QED
      BY <2>1, <3>1, <3>2 DEF Hazard, t, role
  <2>5. ASSUME NEW d \in Ctrl, NEW u \in Tiles, TransferJob(jobs[n], d, u),
               <<d, u>> \in attached
        PROVE  Covered(jobs, done, n, E)
    <3>1. u = t
      BY <1>1, <2>1, <2>5
         DEF TransferJob, MoveToJob, MoveFromJob, HostBuffer, Hazard, t, role
    <3>2. d \in Impls(t)
      BY <2>5, <3>1 DEF Impls
    <3>3. CASE MoveToJob(jobs[n], d, t)
      <4>1. role # "IN"
        BY <1>1, <2>1, <3>3 DEF MoveToJob, HostBuffer, Hazard, t, role
      <4>2. Covered(jobs, done, n, {last_htd[<<d, t>>]})
        BY <1>0, <1>1, <3>3 DEF TransferEventsInv
      <4>. QED
        BY <1>4, <2>3, <3>2, <4>1, <4>2
    <3>4. CASE MoveFromJob(jobs[n], d, t)
      <4>1. Covered(jobs, done, n, {last_dth[<<d, t>>]})
        BY <1>0, <1>1, <3>4 DEF TransferEventsInv
      <4>. QED
        BY <1>4, <2>3, <3>2, <4>1
    <3>. QED
      BY <2>5, <3>1, <3>3, <3>4 DEF TransferJob
  <2>6. HostJob(jobs[n]) => TaskJob(jobs[n])
    BY DEF HostJob, TaskJob, HostStream
  <2>7. \A d \in Ctrl : KernelJob(jobs[n], d) => TaskJob(jobs[n])
    BY DEF KernelJob, TaskJob
  <2>. QED
    BY <1>0, <2>4, <2>5, <2>6, <2>7 DEF ShapeInv, E
<1>. QED
  BY <1>5, <1>6

\* The launch goes on to the next argument, having waited for this one.
LEMMA ArgWaitKeepsLaunch ==
  ASSUME CtrlInv, CpuOrderInv,
         main.pc \in {"kernel", "hosttask"}, main.arg <= Len(main.args),
         UNCHANGED <<jobs, done, attached>>, main' = NextArg,
         pending' = [pending EXCEPT ![LaunchStream] =
                       pending[LaunchStream] \cup (ArgEvents \ {0})]
  PROVE  LaunchInv' /\ LaunchAttachedInv'
<1>1. /\ main'.pc = main.pc /\ main'.ctrl = main.ctrl /\ main'.args = main.args
      /\ main'.arg = main.arg + 1
  BY DEF CtrlInv, MainInv, MainState, NextArg
<1>2. /\ LaunchStream' = LaunchStream
      /\ \A t : LaunchBuffer(t)' = LaunchBuffer(t)
      /\ OnStream(LaunchStream)' = OnStream(LaunchStream)
  BY <1>1 DEF LaunchStream, LaunchBuffer, OnStream
<1>3. LaunchStream \in Stream
  BY Streams DEF LaunchStream, CtrlInv, MainInv, Stream
<1>. DEFINE P == pending[LaunchStream]
            E == P \cup OnStream(LaunchStream) \cup ArgEvents
            Q == ArgEvents'
            F == pending'[LaunchStream] \cup OnStream(LaunchStream) \cup Q
<1>4. \A e \in E : e \in DOMAIN jobs => e \in F
  <2>1. pending'[LaunchStream] = P \cup (ArgEvents \ {0})
    BY <1>3 DEF CtrlInv, EventsInv, EventsUpTo
  <2>2. 0 \notin DOMAIN jobs
    BY BasicFacts
  <2>. QED
    BY <2>1, <2>2
<1>5. ASSUME NEW i \in DOMAIN main.args, NEW n \in DOMAIN jobs,
             i < main.arg + 1,
             Hazard(jobs[n], LaunchBuffer(main.args[i].tile), main.args[i].role)
      PROVE  Covered(jobs, done, n, F)
  <2>1. i < main.arg \/ i = main.arg
    <3>1. i \in Nat /\ main.arg \in Nat
      BY BasicFacts, SMT
    <3>. QED
      BY <1>5, <3>1, SMT
  <2>2. CASE i < main.arg
    <3>1. Covered(jobs, done, n, E)
      BY <1>5, <2>2 DEF CpuOrderInv, LaunchInv
    <3>. HIDE DEF E, F
    <3>. QED
      BY <1>4, <3>1, CoveredByMore
  <2>3. CASE i = main.arg
    <3>1. Covered(jobs, done, n, OnStream(LaunchStream) \cup ArgEvents)
      BY <1>5, <2>3, ArgCovered DEF ArgTile, ArgRole
    <3>. DEFINE G == OnStream(LaunchStream) \cup ArgEvents
    <3>2. \A e \in G : e \in DOMAIN jobs => e \in F
      BY <1>4
    <3>3. Covered(jobs, done, n, G)
      BY <3>1
    <3>. HIDE DEF F, G
    <3>. QED
      BY <3>2, <3>3, CoveredByMore
  <2>. QED
    BY <2>1, <2>2, <2>3
<1>6. LaunchInv'
  BY <1>1, <1>2, <1>5 DEF LaunchInv
<1>7. LaunchAttachedInv'
  BY <1>1 DEF CpuOrderInv, LaunchAttachedInv
<1>. QED
  BY <1>6, <1>7

\* A transfer on behalf of an argument: the launch waits for it if it must.
LEMMA TransferKeepsLaunch ==
  ASSUME CtrlInv, CtrlInv', CpuOrderInv, ExecOrderInv', UNCHANGED main,
         NEW r, NEW reads, NEW writes, NEW events,
         AfterPush(r, reads, writes, events),
         main.pc \in {"kernel", "hosttask"}
           => /\ pending'[LaunchStream] = pending[LaunchStream]
              /\ \A e \in ArgEvents : e \in DOMAIN jobs =>
                   \/ e \in ArgEvents'
                   \/ e \in OnStream(r) /\ Ticket \in ArgEvents'
              /\ \A i \in DOMAIN main.args :
                   Hazard(jobs'[Ticket], LaunchBuffer(main.args[i].tile),
                          main.args[i].role)
                     => Ticket \in ArgEvents'
  PROVE  LaunchInv'
<1>1. SUFFICES
        ASSUME main.pc \in {"kernel", "hosttask"},
               NEW i \in DOMAIN main.args, NEW n \in DOMAIN jobs', i < main.arg,
               Hazard(jobs'[n], LaunchBuffer(main.args[i].tile),
                      main.args[i].role)
        PROVE  Covered(jobs', done', n, pending'[LaunchStream] \cup
                                  OnStream(LaunchStream)' \cup ArgEvents')
  BY DEF LaunchInv, LaunchStream, LaunchBuffer, DeviceBuffer, HostBuffer
<1>. DEFINE L == OnStream(LaunchStream)
            M == OnStream(LaunchStream)'
            B == ArgEvents'
            E == (pending[LaunchStream] \cup L \cup ArgEvents) \cap DOMAIN jobs
            F == pending'[LaunchStream] \cup M \cup B
<1>2. CASE n = Ticket
  <2>1. Ticket \in F
    BY <1>1, <1>2
  <2>. QED
    BY <1>2, <2>1, CoveredBySelf
<1>3. CASE n \in DOMAIN jobs
  <2>1. Covered(jobs, done, n, E)
    <3>1. jobs'[n] = jobs[n]
      BY <1>3 DEF AfterPush
    <3>2. Covered(jobs, done, n, pending[LaunchStream] \cup L \cup ArgEvents)
      BY <1>1, <1>3, <3>1 DEF CpuOrderInv, LaunchInv
    <3>. QED
      BY <3>2, CoveredByMore
  <2>2. Covered(jobs', done', n, E)
    <3>. HIDE DEF E
    <3>. QED
      BY <2>1 DEF AfterPush
  <2>3. ASSUME NEW e \in E PROVE Covered(jobs', done', e, F)
    <3>1. e \in DOMAIN jobs'
      BY DEF AfterPush
    <3>2. L \subseteq M
      <4>1. LaunchStream' = LaunchStream
        BY DEF LaunchStream
      <4>. QED
        BY <4>1 DEF OnStream, AfterPush
    <3>3. CASE e \in F
      BY <3>1, <3>3, CoveredBySelf
    <3>4. CASE e \in OnStream(r) /\ Ticket \in F
      <4>1. Covered(jobs', done', e, {Ticket})
        BY <3>4 DEF AfterPush
      <4>. HIDE DEF F
      <4>. QED
        BY <3>4, <4>1, CoveredByMore
    <3>. QED
      BY <1>1, <3>2, <3>3, <3>4
  <2>4. ClosedIn(jobs', done') /\ done' \in SUBSET DOMAIN jobs'
    BY DEF CtrlInv, ExecInv, ExecOrderInv, ClosedIn
  <2>. HIDE DEF E, F
  <2>5. Covered(jobs', done', n, F)
    BY <2>2, <2>3, <2>4, CoveredThrough
  <2>. QED
    BY <2>5 DEF F
<1>. QED
  BY <1>2, <1>3 DEF AfterPush

\* Sending the input of a kernel to its device keeps everything ordered.
LEMMA KernelArgSendKeepsOrder ==
  ASSUME CtrlInv, CtrlInv', CpuOrderInv, KernelArgSend PROVE CpuOrderInv'
<1>. DEFINE c == main.ctrl
            t == ArgTile
            role == ArgRole
<1>1. /\ main.pc = "kernel" /\ main.arg <= Len(main.args) /\ MemMoves[c]
      /\ c \in Ctrl /\ t \in Tiles /\ Host \notin Ctrl
      /\ device_status[<<c, t>>] = "INVALID" /\ host_status[t] # "UNALLOC"
      /\ MoveToInner(c, t) /\ UNCHANGED main
  BY ArgumentsTyped, BasicFacts
     DEF KernelArgSend, ArgLeft, KernelArgStale, CtrlInv, MainInv
<1>. HIDE DEF t
<1>2. /\ ShapeInv' /\ DeviceInv' /\ TileEventsInv' /\ OrderInv' /\ ExecOrderInv'
      /\ \E events :
           AfterPush(<<c, "moveTo">>, {HostBuffer(t)}, {<<c, t>>}, events)
  BY <1>1, MoveToOrders
<1>3. LaunchInv'
  <2>1. PICK events :
          AfterPush(<<c, "moveTo">>, {HostBuffer(t)}, {<<c, t>>}, events)
    BY <1>2
  <2>2. LaunchStream = <<c, "kernel">> /\ LaunchStream \in Stream
    BY <1>1, Streams DEF LaunchStream
  <2>3. pending'[LaunchStream] = pending[LaunchStream]
    BY <1>1, <2>2 DEF MoveToInner, CtrlInv, EventsInv, EventsUpTo
  <2>4. ~(main.arg > Len(main.args))
    <3>1. main.args \in Seq([tile : Tiles, role : Role]) /\ main.arg \in Nat
      BY BasicFacts
    <3>. QED
      BY <1>1, <3>1, SMT
  <2>5. ArgEvents = {last_htd[<<c, t>>]}
          \cup (IF role # "IN" THEN {last_dth[<<c, t>>]} ELSE {})
    BY <1>1, <2>4 DEF ArgEvents, DeviceWait, t
  <2>6. ArgEvents' = {Ticket}
          \cup (IF role # "IN" THEN {last_dth[<<c, t>>]} ELSE {})
    <3>1. /\ host_status'[t] = "VALID" /\ last_dth' = last_dth
          /\ last_htd'[<<c, t>>] = Ticket
      BY <1>1 DEF MoveToInner, CtrlInv, StatusInv, EventsInv, EventsUpTo
    <3>2. device_status'[<<c, t>>] = "VALID"
      BY <1>1 DEF MoveToInner, CtrlInv, StatusInv
    <3>3. ArgEvents' = DeviceWait(c, t, role)'
      BY <1>1, <2>4 DEF ArgEvents, ArgTile, ArgRole, t
    <3>4. t' = t /\ role' = role
      BY <1>1 DEF ArgTile, ArgRole, t
    <3>5. ArgEvents' = {last_htd'[<<c, t>>]}
            \cup (IF role # "IN" THEN {last_dth'[<<c, t>>]} ELSE {})
      BY <1>1, <3>1, <3>2, <3>3, <3>4 DEF DeviceWait
    <3>. QED
      BY <3>1, <3>5
  <2>7. last_htd[<<c, t>>] \in DOMAIN jobs
          => last_htd[<<c, t>>] \in OnStream(<<c, "moveTo">>)
    BY <1>1, BasicFacts DEF CpuOrderInv, TileEventsInv, EventStreamsInv
  <2>. QED
    BY <1>1, <1>2, <2>1, <2>3, <2>5, <2>6, <2>7, TransferKeepsLaunch
<1>4. LaunchAttachedInv' /\ CallScopeInv'
  BY <1>1 DEF CpuOrderInv, LaunchAttachedInv, CallScopeInv, MoveToInner
<1>. QED
  BY <1>2, <1>3, <1>4 DEF CpuOrderInv

\* Neither does fetching an input to the host disturb the order: a task on host
\* memory waits for the transfer, and one on device memory is not concerned.
LEMMA FetchKeepsOrder ==
  ASSUME CtrlInv, CtrlInv', CpuOrderInv, UNCHANGED main,
         main.pc \in {"kernel", "hosttask"}, main.arg <= Len(main.args),
         host_status[ArgTile] = "INVALID",
         main.pc = "kernel" /\ MemMoves[main.ctrl]
           => device_status[<<main.ctrl, ArgTile>>] = "INVALID",
         NEW d \in ValidImpls(ArgTile), MoveFromInner(d, ArgTile)
  PROVE  CpuOrderInv'
<1>. DEFINE c == main.ctrl
            t == ArgTile
            role == ArgRole
            L == LaunchStream
            B == ArgEvents'
<1>1. /\ t \in Tiles /\ role \in Role /\ Host \notin Ctrl
      /\ main.pc = "kernel" => c \in Ctrl
      /\ d \in Ctrl /\ device_status[<<d, t>>] = "VALID" /\ OnlyOnDevice(d, t)
  BY ArgumentsTyped, BasicFacts
     DEF CtrlInv, MainInv, ValidImpls, OnlyOnDevice
<1>. HIDE DEF t
<1>2. MoveFromInner(d, t) /\ host_status[t] = "INVALID"
  BY DEF t
<1>3. /\ ShapeInv' /\ DeviceInv' /\ TileEventsInv' /\ OrderInv' /\ ExecOrderInv'
      /\ \E events :
           AfterPush(<<d, "moveFrom">>, {<<d, t>>}, {HostBuffer(t)}, events)
  BY <1>1, <1>2, MoveFromOrders
<1>4. /\ host_status'[t] = "VALID" /\ last_htd' = last_htd
      /\ last_dth' = [last_dth EXCEPT ![<<d, t>>] = Ticket]
      /\ last_dth \in [Ctrl \X Tiles -> 0 .. Len(jobs)]
      /\ UNCHANGED <<attached, hostEvents>>
      /\ device_status' = [device_status EXCEPT ![<<d, t>>] = "VALID"]
      /\ device_status \in [Ctrl \X Tiles -> Status]
  <2>1. /\ host_status \in [Tiles -> Status]
        /\ device_status \in [Ctrl \X Tiles -> Status]
        /\ last_dth \in [Ctrl \X Tiles -> 0 .. Len(jobs)]
    BY DEF CtrlInv, StatusInv, EventsInv, EventsUpTo
  <2>2. /\ host_status' = [host_status EXCEPT ![t] = "VALID"]
        /\ last_dth' = [last_dth EXCEPT ![<<d, t>>] = Ticket]
        /\ UNCHANGED <<attached, hostEvents, last_htd>>
        /\ device_status' = [device_status EXCEPT ![<<d, t>>] = "VALID"]
    BY <1>2 DEF MoveFromInner
  <2>. QED
    BY <1>1, <2>1, <2>2
<1>5. pending'[L] = pending[L]
  <2>1. L \in Stream /\ L # <<d, "moveTo">> /\ L # <<d, "moveFrom">>
    BY <1>1, Streams DEF LaunchStream, HostStream, Stream
  <2>. QED
    BY <1>2, <2>1 DEF MoveFromInner, CtrlInv, EventsInv, EventsUpTo
<1>6. ~(main.arg > Len(main.args))
  <2>1. main.args \in Seq([tile : Tiles, role : Role]) /\ main.arg \in Nat
    BY BasicFacts
  <2>. QED
    BY <2>1, SMT
<1>7. t' = t /\ role' = role
  BY DEF ArgTile, ArgRole, t
<1>8. ASSUME main.pc = "kernel", MemMoves[c] PROVE LaunchInv'
  <2>1. d # c
    BY <1>1, <1>8 DEF t
  <2>2. device_status[<<c, t>>] = "INVALID" /\ device_status'[<<c, t>>] = "INVALID"
    BY <1>1, <1>4, <1>8, <2>1 DEF t
  <2>3. B = ArgEvents
    <3>1. ArgEvents = DeviceWait(c, t, role) /\ B = DeviceWait(c, t, role)'
      BY <1>6, <1>7, <1>8 DEF ArgEvents, ArgTile, ArgRole, t
    <3>2. last_dth'[<<c, t>>] = last_dth[<<c, t>>]
      BY <1>1, <1>4, <1>8, <2>1
    <3>. QED
      BY <1>2, <1>4, <1>7, <2>2, <3>1, <3>2 DEF DeviceWait
  <2>4. \A i \in DOMAIN main.args :
          ~Hazard(jobs'[Ticket], LaunchBuffer(main.args[i].tile),
                  main.args[i].role)
    <3>1. \A u : LaunchBuffer(u) = <<c, u>> /\ c # Host
      BY <1>1, <1>8 DEF LaunchBuffer, DeviceBuffer
    <3>. QED
      BY <1>3, <2>1, <3>1 DEF Hazard, AfterPush, HostBuffer
  <2>. QED
    BY <1>3, <1>5, <2>3, <2>4, TransferKeepsLaunch
<1>9. ASSUME ~(main.pc = "kernel" /\ MemMoves[c]) PROVE LaunchInv'
  <2>1. d \in Impls(t)
    BY <1>1 DEF CpuOrderInv, DeviceInv, Impls
  <2>2. ArgEvents = HostTaskWait(t, role) /\ B = HostTaskWait(t, role)'
    BY <1>6, <1>7, <1>9 DEF ArgEvents, ArgTile, ArgRole, t
  <2>3. Impls(t)' = Impls(t) /\ Impls(t) \subseteq Ctrl
    BY <1>4, <1>7 DEF Impls
  <2>4. \A j \in Impls(t) : last_dth'[<<j, t>>] = IF j = d THEN Ticket
                                                  ELSE last_dth[<<j, t>>]
    BY <1>1, <1>4, <2>3
  <2>5. Ticket \in B
    BY <1>7, <2>1, <2>2, <2>3, <2>4 DEF HostTaskWait
  <2>6. \A e \in ArgEvents : e \in B \/ e = last_dth[<<d, t>>]
    <3>1. /\ last_host_read'[t] = last_host_read[t]
          /\ last_host_write'[t] = last_host_write[t]
      BY <1>4 DEF hostEvents
    <3>2. B = {last_dth'[<<j, t>>] : j \in Impls(t)}
            \cup (IF role # "IN" THEN {last_htd[<<j, t>>] : j \in Impls(t)}
                                 ELSE {})
            \cup {last_host_write[t]}
            \cup (IF role # "IN" THEN {last_host_read[t]} ELSE {})
      BY <1>4, <1>7, <2>2, <2>3, <3>1 DEF HostTaskWait
    <3>3. \A j \in Impls(t) : \/ last_dth[<<j, t>>] \in B
                              \/ last_dth[<<j, t>>] = last_dth[<<d, t>>]
      BY <2>4, <3>2
    <3>4. \A e \in HostTaskWait(t, role) :
            e \in B \/ \E j \in Impls(t) : e = last_dth[<<j, t>>]
      BY <3>2 DEF HostTaskWait
    <3>. QED
      BY <2>2, <3>3, <3>4
  <2>7. last_dth[<<d, t>>] \in DOMAIN jobs
          => last_dth[<<d, t>>] \in OnStream(<<d, "moveFrom">>)
    BY <1>1, BasicFacts DEF CpuOrderInv, TileEventsInv, EventStreamsInv
  <2>. QED
    BY <1>3, <1>5, <2>5, <2>6, <2>7, TransferKeepsLaunch
<1>10. LaunchAttachedInv' /\ CallScopeInv'
  BY <1>4 DEF CpuOrderInv, LaunchAttachedInv, CallScopeInv
<1>. QED
  BY <1>3, <1>8, <1>9, <1>10 DEF CpuOrderInv

\* Steps that push nothing and leave the tiles alone.
LEMMA OthersKept ==
  ASSUME CpuOrderInv, UNCHANGED <<jobs, tileVars>>, done \subseteq done'
  PROVE  /\ ShapeInv'
         /\ DeviceInv'
         /\ TileEventsInv'
         /\ OrderInv'
         /\ UNCHANGED execVars => ExecOrderInv'
<1>1. UNCHANGED <<attached, host_status, device_status, last_htd, last_dth,
                  last_host_read, last_host_write, last_kernel_read,
                  last_kernel_write>>
  BY DEF tileVars, hostEvents, kernelEvents
<1>2. \A m, E : Covered(jobs, done, m, E) => Covered(jobs', done', m, E)
  BY DEF Covered
<1>3. ShapeInv' /\ DeviceInv'
  BY <1>1 DEF CpuOrderInv, ShapeInv, DeviceInv
<1>4. EventStreamsInv'
  BY <1>1 DEF CpuOrderInv, TileEventsInv, EventStreamsInv, OnStream
<1>5. TransferEventsInv' /\ KernelEventsInv' /\ HostEventsInv'
  BY <1>1, <1>2
     DEF CpuOrderInv, TileEventsInv, TransferEventsInv, KernelEventsInv,
         HostEventsInv
<1>6. OnlyOnDeviceInv'
  BY <1>1, <1>2
     DEF CpuOrderInv, TileEventsInv, OnlyOnDeviceInv, OnlyOnDevice
<1>7. OrderInv'
  BY <1>2
     DEF CpuOrderInv, OrderInv, Conflict, IsMoveFrom, IsTransfer, IsTask,
         MoveFromTracked
<1>8. UNCHANGED execVars => ExecOrderInv'
  BY DEF CpuOrderInv, ExecOrderInv, execVars, Started
<1>. QED
  BY <1>3, <1>4, <1>5, <1>6, <1>7, <1>8 DEF TileEventsInv

\* The waits for an argument of a kernel.
LEMMA KernelArgWaitKeepsOrder ==
  ASSUME CtrlInv, CpuOrderInv, KernelArgWait PROVE CpuOrderInv'
<1>1. /\ UNCHANGED <<jobs, tileVars, execVars>> /\ main' = NextArg
      /\ main.pc = "kernel" /\ main.arg <= Len(main.args)
  BY DEF KernelArgWait, ArgLeft
<1>2. ~(main.arg > Len(main.args))
  <2>1. main.args \in Seq([tile : Tiles, role : Role]) /\ main.arg \in Nat
    BY BasicFacts
  <2>. QED
    BY <1>1, <2>1, SMT
<1>3. pending' = [pending EXCEPT ![LaunchStream] =
                    pending[LaunchStream] \cup (ArgEvents \ {0})]
  BY <1>1, <1>2 DEF KernelArgWait, LaunchStream, ArgEvents
<1>4. LaunchInv' /\ LaunchAttachedInv'
  BY <1>1, <1>3, ArgWaitKeepsLaunch DEF tileVars, execVars
<1>5. CallScopeInv'
  BY <1>1 DEF CallScopeInv, NextArg, CtrlInv, MainInv, MainState
<1>. QED
  BY <1>1, <1>4, <1>5, OthersKept DEF CpuOrderInv, execVars

\* The waits for an argument of a host task, and the copies it makes stale.
LEMMA HostTaskArgWaitKeepsOrder ==
  ASSUME CtrlInv, CpuOrderInv, HostTaskArgWait PROVE CpuOrderInv'
<1>. DEFINE t == ArgTile
            written == {u \in {t} : ArgRole # "IN"}
<1>1. /\ UNCHANGED <<jobs, attached, hostEvents, kernelEvents, last_htd,
                     last_dth, execVars>>
      /\ main' = NextArg /\ main.pc = "hosttask" /\ main.arg <= Len(main.args)
  BY DEF HostTaskArgWait, ArgLeft
<1>2. ~(main.arg > Len(main.args))
  <2>1. main.args \in Seq([tile : Tiles, role : Role]) /\ main.arg \in Nat
    BY BasicFacts
  <2>. QED
    BY <1>1, <2>1, SMT
<1>3. pending' = [pending EXCEPT ![LaunchStream] =
                    pending[LaunchStream] \cup (ArgEvents \ {0})]
  BY <1>1, <1>2 DEF HostTaskArgWait, LaunchStream, ArgEvents
<1>4. LaunchInv' /\ LaunchAttachedInv'
  BY <1>1, <1>3, ArgWaitKeepsLaunch DEF execVars
<1>5. CallScopeInv'
  BY <1>1 DEF CallScopeInv, NextArg, CtrlInv, MainInv, MainState
<1>6. /\ \A ct \in Ctrl \X Tiles : device_status'[ct] =
           IF ct[2] \in written /\ device_status[ct] = "VALID" THEN "INVALID"
           ELSE device_status[ct]
      /\ \A u \in Tiles : host_status'[u] =
           IF u \in written THEN "VALID" ELSE host_status[u]
  BY DEF HostTaskArgWait, InvalidateDevices
<1>. HIDE DEF written
<1>7. ShapeInv' /\ DeviceInv'
  <2>1. \A u \in Tiles : host_status[u] # "UNALLOC" => host_status'[u] # "UNALLOC"
    BY <1>6
  <2>2. ShapeInv'
    BY <1>1, <2>1 DEF CpuOrderInv, ShapeInv
  <2>. QED
    BY <1>1, <1>6, <2>2 DEF CpuOrderInv, DeviceInv
<1>8. TileEventsInv'
  <2>1. \A c \in Ctrl, u \in Tiles : OnlyOnDevice(c, u)' => OnlyOnDevice(c, u)
    BY <1>6 DEF OnlyOnDevice
  <2>2. OnlyOnDeviceInv'
    BY <1>1, <2>1
       DEF CpuOrderInv, TileEventsInv, OnlyOnDeviceInv, kernelEvents, execVars
  <2>. QED
    BY <1>1, <2>2
       DEF CpuOrderInv, TileEventsInv, EventStreamsInv, TransferEventsInv,
           KernelEventsInv, HostEventsInv, kernelEvents, hostEvents, execVars,
           OnStream
<1>9. OrderInv' /\ ExecOrderInv'
  BY <1>1
     DEF CpuOrderInv, OrderInv, ExecOrderInv, Conflict, IsMoveFrom, IsTransfer,
         IsTask, execVars, Started, MoveFromTracked
<1>. QED
  BY <1>4, <1>5, <1>7, <1>8, <1>9 DEF CpuOrderInv

\* The start of a launch: no argument was looked at.
LEMMA LaunchKeepsOrder ==
  ASSUME CtrlInv, CpuOrderInv,
         \/ \E c \in Ctrl, args \in Accesses : KernelLaunch(c, args)
         \/ \E args \in Accesses : LaunchHostTask(args)
  PROVE  CpuOrderInv'
<1>1. UNCHANGED <<jobs, pending, tileVars, execVars>>
  BY DEF KernelLaunch, LaunchHostTask
<1>2. main'.arg = 1 /\ main'.pc \in {"kernel", "hosttask"}
      /\ main'.args \in Accesses
  BY DEF KernelLaunch, LaunchHostTask, Idle
<1>3. \A i \in DOMAIN main'.args :
        main'.args[i] \in [tile : Tiles, role : Role] /\ ~(i < 1)
  <2>. DEFINE Arg == [tile : Tiles, role : Role]
  <2>1. main'.args \in Seq(Arg)
    BY <1>2, CpuCtrlAssumption
  <2>. HIDE DEF Arg
  <2>2. \A i \in DOMAIN main'.args : main'.args[i] \in Arg /\ ~(i < 1)
    BY <2>1, SMT
  <2>. QED
    BY <2>2 DEF Arg
<1>4. LaunchInv'
  BY <1>2, <1>3 DEF LaunchInv
<1>5. LaunchAttachedInv'
  <2>1. ASSUME NEW c \in Ctrl, NEW args \in Accesses, KernelLaunch(c, args)
        PROVE  LaunchAttachedInv'
    <3>1. main'.ctrl = c /\ main'.args = args /\ attached' = attached
      BY <1>1, <2>1 DEF KernelLaunch, Idle, tileVars
    <3>2. \A i \in DOMAIN args : args[i].tile \in Tiles
      BY <1>3, <3>1
    <3>3. \A i \in DOMAIN args : <<c, args[i].tile>> \in attached
      BY <2>1, <3>2 DEF KernelLaunch, CpuOrderInv, DeviceInv
    <3>. QED
      BY <3>1, <3>3 DEF LaunchAttachedInv
  <2>2. ASSUME NEW args \in Accesses, LaunchHostTask(args)
        PROVE  LaunchAttachedInv'
    BY <2>2 DEF LaunchHostTask, Idle, LaunchAttachedInv
  <2>. QED
    BY <2>1, <2>2
<1>6. CallScopeInv'
  BY <1>2 DEF CallScopeInv
<1>7. done \subseteq done' /\ UNCHANGED tileVars
  BY <1>1 DEF execVars
<1>. QED
  BY <1>1, <1>4, <1>5, <1>6, <1>7, OthersKept DEF CpuOrderInv

\* The events a tile keeps on a ctrl cover the jobs of that ctrl and of the
\* host that touch the tile.
LEMMA TileEventsCover ==
  ASSUME CtrlInv, CpuOrderInv, NEW c \in Ctrl, NEW t \in Tiles,
         NEW n \in DOMAIN jobs, jobs[n].stream[1] \in {c, Host},
         NEW b \in Touched(jobs[n]), b[2] = t
  PROVE  Covered(jobs, done, n, TileEvents(c, t))
<1>0. /\ ShapeInv /\ TransferEventsInv /\ KernelEventsInv /\ HostEventsInv
      /\ Host \notin Ctrl
  BY BasicFacts DEF CpuOrderInv, TileEventsInv
<1>. DEFINE E == TileEvents(c, t)
<1>1. ASSUME NEW F, Covered(jobs, done, n, F), F \subseteq E
      PROVE  Covered(jobs, done, n, E)
  <2>. HIDE DEF E
  <2>. QED
    BY <1>1, CoveredByMore
<1>2. b \in Buffer
  <2>1. jobs[n] \in Job
    <3>1. jobs \in Seq(Job)
      BY DEF CtrlInv, JobsInv
    <3>. QED
      BY <3>1, SMT
  <2>. QED
    BY <2>1 DEF Job, Touched
<1>3. b = <<b[1], t>>
  BY <1>2 DEF Buffer
<1>4. ASSUME b = HostBuffer(t), TaskJob(jobs[n])
      PROVE  Covered(jobs, done, n, E)
  <2>1. \/ Covered(jobs, done, n, {last_host_write[t]})
        \/ Covered(jobs, done, n, {last_host_read[t], last_host_write[t]})
    BY <1>0, <1>4 DEF HostEventsInv, Touched
  <2>2. /\ {last_host_write[t]} \subseteq E
        /\ {last_host_read[t], last_host_write[t]} \subseteq E
    BY DEF TileEvents
  <2>. HIDE DEF E
  <2>. QED
    BY <1>1, <2>1, <2>2
<1>5. CASE HostJob(jobs[n])
  BY <1>3, <1>4, <1>5 DEF HostJob, HostBuffer, TaskJob, HostStream
<1>6. ASSUME NEW d \in Ctrl, KernelJob(jobs[n], d)
      PROVE  Covered(jobs, done, n, E)
  <2>1. d = c /\ b = DeviceBuffer(c, t) /\ TaskJob(jobs[n])
    BY <1>0, <1>6 DEF KernelJob, TaskJob
  <2>2. CASE MemMoves[c]
    <3>1. b = <<c, t>>
      BY <2>1, <2>2 DEF DeviceBuffer
    <3>2. \/ Covered(jobs, done, n, {last_kernel_read[<<c, t>>]})
          \/ Covered(jobs, done, n, {last_kernel_write[<<c, t>>]})
      BY <1>0, <1>6, <2>1, <3>1 DEF KernelEventsInv, KernelJob, Touched
    <3>3. /\ {last_kernel_read[<<c, t>>]} \subseteq E
          /\ {last_kernel_write[<<c, t>>]} \subseteq E
      BY <2>2 DEF TileEvents
    <3>. HIDE DEF E
    <3>. QED
      BY <1>1, <3>2, <3>3
  <2>3. CASE ~MemMoves[c]
    BY <1>4, <2>1, <2>3 DEF DeviceBuffer, HostBuffer
  <2>. QED
    BY <2>2, <2>3
<1>7. ASSUME NEW d \in Ctrl, NEW u \in Tiles, TransferJob(jobs[n], d, u),
             MemMoves[d]
      PROVE  Covered(jobs, done, n, E)
  <2>1. d = c /\ u = t
    BY <1>0, <1>7
       DEF TransferJob, MoveToJob, MoveFromJob, HostBuffer, Touched
  <2>2. \/ Covered(jobs, done, n, {last_htd[<<c, t>>]})
        \/ Covered(jobs, done, n, {last_dth[<<c, t>>]})
    BY <1>0, <1>7, <2>1 DEF TransferEventsInv, TransferJob
  <2>3. {last_htd[<<c, t>>]} \subseteq E /\ {last_dth[<<c, t>>]} \subseteq E
    BY <1>7, <2>1 DEF TileEvents
  <2>. HIDE DEF E
  <2>. QED
    BY <1>1, <2>2, <2>3
<1>. HIDE DEF E
<1>8. Covered(jobs, done, n, E)
  BY <1>0, <1>5, <1>6, <1>7 DEF ShapeInv, E
<1>. QED
  BY <1>8 DEF E

\* A call that waits for events that cover what it is about.
LEMMA BlockKeepsOrder ==
  ASSUME CtrlInv, CpuOrderInv, NEW call, NEW events, NEW scope,
         call \in Blocked, Block(call, events, scope),
         call \in {"waitTile", "globalSync"} =>
           \A n \in scope : Covered(jobs, done, n, events)
  PROVE  CpuOrderInv'
<1>1. /\ UNCHANGED <<jobs, pending, tileVars, execVars>>
      /\ main'.pc = call /\ main'.events = events \ {0} /\ main'.scope = scope
  BY DEF Block, Idle
<1>2. LaunchInv' /\ LaunchAttachedInv'
  BY <1>1 DEF LaunchInv, LaunchAttachedInv, Blocked
<1>3. CallScopeInv'
  <2>1. SUFFICES ASSUME call \in {"waitTile", "globalSync"}, NEW n \in scope
                 PROVE  Covered(jobs, done, n, events \ {0})
    BY <1>1 DEF CallScopeInv, execVars
  <2>2. \A e \in events : e \in DOMAIN jobs => e \in events \ {0}
    BY BasicFacts
  <2>. DEFINE E == events \ {0}
  <2>3. Covered(jobs, done, n, events) /\ \A e \in events : e \in DOMAIN jobs => e \in E
    BY <2>1, <2>2
  <2>. HIDE DEF E
  <2>4. Covered(jobs, done, n, E)
    BY <2>3, CoveredByMore
  <2>. QED
    BY <2>4 DEF E
<1>4. done \subseteq done' /\ UNCHANGED tileVars
  BY <1>1 DEF execVars
<1>. QED
  BY <1>1, <1>2, <1>3, <1>4, OthersKept DEF CpuOrderInv

\* The calls that wait.
LEMMA WaitCallsKeepOrder ==
  ASSUME CtrlInv, CpuOrderInv,
         \/ \E c \in Ctrl, t \in Tiles : WaitTile(c, t)
         \/ \E c \in Ctrl : GlobalSync(c)
         \/ Synchronize
  PROVE  CpuOrderInv'
<1>1. ASSUME NEW c \in Ctrl, NEW t \in Tiles, NEW n \in JobsOf(c, t)
      PROVE  Covered(jobs, done, n, TileEvents(c, t))
  BY TileEventsCover DEF JobsOf, Touched
<1>2. ASSUME NEW c \in Ctrl, NEW t \in Tiles, WaitTile(c, t)
      PROVE  CpuOrderInv'
  <2>. DEFINE call == "waitTile"
              events == TileEvents(c, t)
              scope == JobsOf(c, t)
  <2>1. Block(call, events, scope) /\ call \in Blocked
    BY <1>2 DEF WaitTile, Blocked
  <2>2. \A n \in scope : Covered(jobs, done, n, events)
    BY <1>1
  <2>. HIDE DEF call, events, scope
  <2>. QED
    BY <2>1, <2>2, BlockKeepsOrder
<1>3. ASSUME NEW c \in Ctrl, GlobalSync(c) PROVE CpuOrderInv'
  <2>. DEFINE call == "globalSync"
              events == UNION {TileEvents(c, t) : t \in TilesOf(c)}
              scope == UNION {JobsOf(c, t) : t \in TilesOf(c)}
  <2>1. Block(call, events, scope) /\ call \in Blocked
    BY <1>3 DEF GlobalSync, Blocked
  <2>2. ASSUME NEW n \in scope PROVE Covered(jobs, done, n, events)
    <3>1. PICK t \in TilesOf(c) : n \in JobsOf(c, t)
      OBVIOUS
    <3>2. Covered(jobs, done, n, TileEvents(c, t))
      BY <1>1, <3>1 DEF TilesOf
    <3>3. TileEvents(c, t) \subseteq events
      OBVIOUS
    <3>. HIDE DEF events
    <3>. QED
      BY <3>2, <3>3, CoveredByMore
  <2>. HIDE DEF call, events, scope
  <2>. QED
    BY <2>1, <2>2, BlockKeepsOrder
<1>4. ASSUME Synchronize PROVE CpuOrderInv'
  <2>. DEFINE call == "synchronize"
              events == HostQueueEvent \cup
                          UNION {TileEvents(ct[1], ct[2]) : ct \in attached}
              scope == DOMAIN jobs
  <2>1. /\ Block(call, events, scope) /\ call \in Blocked
        /\ call \notin {"waitTile", "globalSync"}
    BY <1>4 DEF Synchronize, Blocked
  <2>. HIDE DEF call, events, scope
  <2>. QED
    BY <2>1, BlockKeepsOrder
<1>. QED
  BY <1>2, <1>3, <1>4

\* The explicit transfers of a program.
LEMMA MovesKeepOrder ==
  ASSUME CtrlInv, CtrlInv', CpuOrderInv, NEW c \in Ctrl, NEW t \in Tiles,
         MoveTo(c, t) \/ MoveFrom(c, t)
  PROVE  CpuOrderInv'
<1>1. UNCHANGED main /\ main.pc = "idle" /\ device_status[<<c, t>>] # "UNALLOC"
  BY DEF MoveTo, MoveFrom, CanCall
<1>2. LaunchInv' /\ LaunchAttachedInv' /\ CallScopeInv'
  BY <1>1 DEF LaunchInv, LaunchAttachedInv, CallScopeInv
<1>3. CASE MoveTo(c, t)
  <2>1. MoveToInner(c, t)
    BY <1>3 DEF MoveTo
  <2>. QED
    BY <1>1, <1>2, <2>1, MoveToOrders DEF CpuOrderInv
<1>4. CASE MoveFrom(c, t)
  <2>1. MoveFromInner(c, t)
    BY <1>4 DEF MoveFrom
  <2>2. ASSUME MoveFromTracked PROVE OnlyOnDevice(c, t)
    <3>1. /\ host_status[t] \in Status /\ device_status[<<c, t>>] \in Status
          /\ mode[c] = "IMPLICIT"
      BY <2>2 DEF CtrlInv, StatusInv, MoveFromTracked
    <3>2. device_status[<<c, t>>] = "VALID"
      BY <1>1, <1>4, <2>2, <3>1 DEF MoveFrom, MoveFromTracked, Status
    <3>3. host_status[t] = "INVALID"
      BY <1>4, <3>1, <3>2 DEF MoveFrom, NeedsTransfer, Status
    <3>. QED
      BY <3>2, <3>3 DEF OnlyOnDevice
  <2>. QED
    BY <1>1, <1>2, <2>1, <2>2, MoveFromOrders DEF CpuOrderInv
<1>. QED
  BY <1>3, <1>4

\* The jobs pushed so far that use the tiles attached now have finished:
\* attaching creates the events of the tile anew, those of the host included.
QuietAttach ==
  \A ct \in attached' \ attached, n \in Unfinished :
    \A b \in Touched(jobs[n]) : b[2] # ct[2]

\* Attaching a tile forgets only events of jobs that have finished.
LEMMA AllocKeepsOrder ==
  ASSUME CtrlInv, CpuOrderInv, QuietAttach,
         NEW c \in Ctrl, NEW t \in Tiles, NEW flags, AllocTile(c, t, flags)
  PROVE  CpuOrderInv'
<1>. DEFINE init == <<c, t>> \notin attached
<1>1. /\ UNCHANGED <<jobs, pending, main, execVars>> /\ main.pc = "idle"
      /\ attached' = attached \cup {<<c, t>>}
      /\ ShapeInv /\ DeviceInv /\ EventStreamsInv /\ TransferEventsInv
      /\ KernelEventsInv /\ HostEventsInv /\ OnlyOnDeviceInv
  BY DEF AllocTile, CanCall, CpuOrderInv, TileEventsInv
<1>2. init => \A n \in DOMAIN jobs : \A b \in Touched(jobs[n]) :
                b[2] = t => n \in done
  BY <1>1 DEF QuietAttach, Unfinished
<1>3. /\ last_host_read \in [Tiles -> 0 .. Len(jobs)]
      /\ last_host_write \in [Tiles -> 0 .. Len(jobs)]
      /\ last_kernel_read \in [Ctrl \X Tiles -> 0 .. Len(jobs)]
      /\ last_kernel_write \in [Ctrl \X Tiles -> 0 .. Len(jobs)]
      /\ last_htd \in [Ctrl \X Tiles -> 0 .. Len(jobs)]
      /\ last_dth \in [Ctrl \X Tiles -> 0 .. Len(jobs)]
      /\ host_status \in [Tiles -> Status]
      /\ device_status \in [Ctrl \X Tiles -> Status]
  BY DEF CtrlInv, StatusInv, EventsInv, EventsUpTo
<1>4. \A u \in Tiles : ~(init /\ u = t) =>
        /\ last_host_read'[u] = last_host_read[u]
        /\ last_host_write'[u] = last_host_write[u]
  BY <1>3 DEF AllocTile
<1>5. \A d \in Ctrl, u \in Tiles : ~(init /\ u = t) =>
        /\ last_kernel_read'[<<d, u>>] = last_kernel_read[<<d, u>>]
        /\ last_kernel_write'[<<d, u>>] = last_kernel_write[<<d, u>>]
        /\ last_htd'[<<d, u>>] = last_htd[<<d, u>>]
        /\ last_dth'[<<d, u>>] = last_dth[<<d, u>>]
  BY <1>3 DEF AllocTile
<1>6. \A d \in Ctrl, u \in Tiles :
        /\ last_kernel_write'[<<d, u>>] \in {last_kernel_write[<<d, u>>], 0}
        /\ last_htd'[<<d, u>>] \in {last_htd[<<d, u>>], 0}
        /\ last_dth'[<<d, u>>] \in {last_dth[<<d, u>>], 0}
  BY <1>3 DEF AllocTile
<1>7. \A u \in Tiles : host_status[u] # "UNALLOC" => host_status'[u] = host_status[u]
  BY <1>3 DEF AllocTile
<1>8. /\ device_status' = device_status
      \/ /\ MemMoves[c]
         /\ device_status' = [device_status EXCEPT ![<<c, t>>] = "INVALID"]
  BY DEF AllocTile
<1>. HIDE DEF init
<1>9. ShapeInv' /\ DeviceInv'
  <2>1. ShapeInv'
    <3>1. /\ jobs' = jobs
          /\ \A ct : ct \in attached => ct \in attached'
          /\ \A u \in Tiles : host_status[u] # "UNALLOC"
                               => host_status'[u] # "UNALLOC"
      BY <1>1, <1>7
    <3>. QED
      BY <1>1, <3>1 DEF ShapeInv
  <2>2. ASSUME NEW ct \in Ctrl \X Tiles, device_status'[ct] # "UNALLOC"
        PROVE  ct \in attached' /\ MemMoves[ct[1]]
    <3>1. CASE device_status'[ct] = device_status[ct]
      BY <1>1, <2>2, <3>1 DEF DeviceInv
    <3>2. CASE ct = <<c, t>> /\ MemMoves[c]
      BY <1>1, <3>2
    <3>. QED
      BY <1>3, <1>8, <3>1, <3>2
  <2>. QED
    BY <2>1, <2>2 DEF DeviceInv
<1>10. EventStreamsInv'
  BY <1>1, <1>6 DEF EventStreamsInv, OnStream
<1>11. TransferEventsInv'
  <2>1. SUFFICES ASSUME NEW d \in Ctrl, NEW u \in Tiles, NEW n \in DOMAIN jobs
                 PROVE  /\ MoveToJob(jobs[n], d, u)
                             => Covered(jobs, done, n, {last_htd'[<<d, u>>]})
                        /\ MoveFromJob(jobs[n], d, u)
                             => Covered(jobs, done, n, {last_dth'[<<d, u>>]})
    BY <1>1 DEF TransferEventsInv, execVars
  <2>2. CASE init /\ u = t
    BY <1>2, <2>2 DEF MoveToJob, MoveFromJob, Touched, HostBuffer, Covered
  <2>3. CASE ~(init /\ u = t)
    BY <1>1, <1>5, <2>3 DEF TransferEventsInv
  <2>. QED
    BY <2>2, <2>3
<1>12. KernelEventsInv'
  <2>1. SUFFICES
          ASSUME NEW d \in Ctrl, NEW u \in Tiles, NEW n \in DOMAIN jobs,
                 jobs[n].stream = <<d, "kernel">>
          PROVE  /\ <<d, u>> \in jobs[n].reads
                      => Covered(jobs, done, n, {last_kernel_read'[<<d, u>>]})
                 /\ <<d, u>> \in jobs[n].writes
                      => Covered(jobs, done, n, {last_kernel_write'[<<d, u>>]})
    BY <1>1 DEF KernelEventsInv, execVars
  <2>2. CASE init /\ u = t
    <3>1. <<d, u>> \in Touched(jobs[n]) => n \in done
      BY <1>2, <2>2
    <3>. QED
      BY <3>1 DEF Touched, Covered
  <2>3. CASE ~(init /\ u = t)
    BY <1>1, <1>5, <2>1, <2>3 DEF KernelEventsInv
  <2>. QED
    BY <2>2, <2>3
<1>13. HostEventsInv'
  <2>1. SUFFICES
          ASSUME NEW u \in Tiles, NEW n \in DOMAIN jobs, TaskJob(jobs[n])
          PROVE  /\ HostBuffer(u) \in jobs[n].writes
                      => Covered(jobs, done, n, {last_host_write'[u]})
                 /\ HostBuffer(u) \in jobs[n].reads
                      => Covered(jobs, done, n,
                                 {last_host_read'[u], last_host_write'[u]})
    BY <1>1 DEF HostEventsInv, execVars
  <2>2. CASE init /\ u = t
    <3>1. HostBuffer(u) \in Touched(jobs[n]) => n \in done
      BY <1>2, <2>2 DEF HostBuffer
    <3>. QED
      BY <3>1 DEF Touched, Covered
  <2>3. CASE ~(init /\ u = t)
    BY <1>1, <1>4, <2>1, <2>3 DEF HostEventsInv
  <2>. QED
    BY <2>2, <2>3
<1>14. OnlyOnDeviceInv'
  <2>1. SUFFICES
          ASSUME NEW d \in Ctrl, NEW u \in Tiles, OnlyOnDevice(d, u)',
                 NEW n \in DOMAIN jobs, TransferJob(jobs[n], d, u)
          PROVE  Covered(jobs, done, n, {last_kernel_write'[<<d, u>>]})
    BY <1>1 DEF OnlyOnDeviceInv, execVars
  <2>2. CASE init /\ u = t
    BY <1>2, <2>1, <2>2
       DEF TransferJob, MoveToJob, MoveFromJob, Touched, HostBuffer, Covered
  <2>3. CASE ~(init /\ u = t)
    <3>1. host_status[u] # "UNALLOC"
      <4>1. ~HostJob(jobs[n]) /\ \A e \in Ctrl : ~KernelJob(jobs[n], e)
        BY <2>1
           DEF TransferJob, MoveToJob, MoveFromJob, HostJob, KernelJob, HostStream
      <4>2. PICK e \in Ctrl, v \in Tiles : /\ TransferJob(jobs[n], e, v)
                                           /\ host_status[v] # "UNALLOC"
        BY <1>1, <4>1 DEF ShapeInv
      <4>. QED
        BY <2>1, <4>2, TransferOf, BasicFacts
    <3>2. host_status[u] = "INVALID"
      BY <1>7, <2>1, <3>1 DEF OnlyOnDevice
    <3>3. device_status[<<d, u>>] = "VALID"
      BY <1>3, <1>8, <2>1 DEF OnlyOnDevice
    <3>. QED
      BY <1>1, <1>5, <2>1, <2>3, <3>2, <3>3
         DEF OnlyOnDeviceInv, OnlyOnDevice
  <2>. QED
    BY <2>2, <2>3
<1>15. LaunchInv' /\ LaunchAttachedInv' /\ CallScopeInv'
  BY <1>1 DEF LaunchInv, LaunchAttachedInv, CallScopeInv
<1>16. OrderInv' /\ ExecOrderInv'
  BY <1>1
     DEF CpuOrderInv, OrderInv, ExecOrderInv, Conflict, IsMoveFrom, IsTransfer,
         IsTask, execVars, Started, MoveFromTracked
<1>. QED
  BY <1>9, <1>10, <1>11, <1>12, <1>13, <1>14, <1>15, <1>16
     DEF CpuOrderInv, TileEventsInv
-----------------------------------------------------------------------------
(* Every step.                                                             *)

\* A step that returns from a call, or changes the mode of a ctrl.
LEMMA IdleKeepsOrder ==
  ASSUME CpuOrderInv, UNCHANGED <<jobs, tileVars, execVars>>, main'.pc = "idle"
  PROVE  CpuOrderInv'
<1>1. LaunchInv' /\ LaunchAttachedInv' /\ CallScopeInv'
  BY DEF LaunchInv, LaunchAttachedInv, CallScopeInv
<1>2. UNCHANGED <<jobs, tileVars>> /\ done \subseteq done'
  BY DEF execVars
<1>. QED
  BY <1>1, <1>2, OthersKept DEF CpuOrderInv

\* Nor does what the main thread is doing, while it does nothing.
LEMMA MainKept ==
  ASSUME CpuOrderInv, UNCHANGED <<jobs, pending, main, tileVars>>,
         done \subseteq done'
  PROVE  LaunchInv' /\ LaunchAttachedInv' /\ CallScopeInv'
<1>1. \A m, E : Covered(jobs, done, m, E) => Covered(jobs', done', m, E)
  BY DEF Covered
<1>2. LaunchInv'
  <2>1. /\ LaunchStream' = LaunchStream
        /\ OnStream(LaunchStream)' = OnStream(LaunchStream)
        /\ ArgEvents' = ArgEvents
        /\ \A t : LaunchBuffer(t)' = LaunchBuffer(t)
    BY DEF LaunchStream, OnStream, ArgEvents, LaunchBuffer, ArgTile, ArgRole,
           DeviceWait, HostTaskWait, Impls, tileVars, hostEvents
  <2>. QED
    BY <1>1, <2>1 DEF CpuOrderInv, LaunchInv
<1>3. LaunchAttachedInv' /\ CallScopeInv'
  BY <1>1 DEF CpuOrderInv, LaunchAttachedInv, CallScopeInv, tileVars
<1>. QED
  BY <1>2, <1>3

\* Execution only helps: what is finished covers itself.
LEMMA StreamStepKeepsOrder ==
  ASSUME CtrlInv, CpuOrderInv, NEW n \in DOMAIN jobs, StartJob(n) \/ FinishJob(n)
  PROVE  CpuOrderInv'
<1>1. UNCHANGED <<jobs, pending, main, tileVars>> /\ done \subseteq done'
  BY DEF StartJob, FinishJob, Finished
<1>2. ExecOrderInv'
  <2>1. \A m \in Started' :
          \/ m \in Started
          \/ /\ jobs[m].waits \subseteq done
             /\ \A k \in 1 .. m - 1 :
                  jobs[k].stream = jobs[m].stream => k \in done
    BY DEF StartJob, FinishJob, Started
  <2>. QED
    BY <1>1, <2>1 DEF CpuOrderInv, ExecOrderInv
<1>. QED
  BY <1>1, <1>2, OthersKept, MainKept DEF CpuOrderInv

\* Nothing is pushed yet.
LEMMA InitIsOrdered == ASSUME Init PROVE CpuOrderInv
<1>1. /\ jobs = <<>> /\ main = Idle /\ attached = InitAttached /\ seen = <<>>
      /\ device_status = [ct \in Ctrl \X Tiles |-> InitDevice(ct[1], ct[2])]
      /\ last_htd = NoImplEvents /\ last_dth = NoImplEvents
      /\ last_kernel_write = NoImplEvents
  BY DEF Init
<1>2. DOMAIN jobs = {} /\ Started = {}
  BY <1>1, SMT DEF Started
<1>3. ShapeInv /\ OrderInv /\ ExecOrderInv
  BY <1>2 DEF ShapeInv, OrderInv, ExecOrderInv
<1>4. DeviceInv
  BY <1>1 DEF DeviceInv, InitDevice
<1>5. LaunchInv /\ LaunchAttachedInv /\ CallScopeInv
  BY <1>1 DEF LaunchInv, LaunchAttachedInv, CallScopeInv, Idle
<1>6. EventStreamsInv
  BY <1>1 DEF EventStreamsInv, NoImplEvents
<1>7. TransferEventsInv /\ KernelEventsInv /\ HostEventsInv /\ OnlyOnDeviceInv
  BY <1>2
     DEF TransferEventsInv, KernelEventsInv, HostEventsInv, OnlyOnDeviceInv
<1>. QED
  BY <1>3, <1>4, <1>5, <1>6, <1>7 DEF CpuOrderInv, TileEventsInv

\* Every step keeps the order, as long as tiles are attached when at rest.
LEMMA StepKeepsOrder ==
  ASSUME CtrlInv, CtrlInv', CpuOrderInv, HostReadersTracked,
         [Next]_vars, [QuietAttach]_vars
  PROVE  CpuOrderInv'
<1>1. CASE UNCHANGED vars
  <2>1. /\ UNCHANGED <<jobs, tileVars>>
        /\ UNCHANGED <<jobs, pending, main, tileVars>>
        /\ done \subseteq done' /\ UNCHANGED execVars
    BY <1>1 DEF vars, execVars
  <2>. QED
    BY <2>1, OthersKept, MainKept DEF CpuOrderInv
<1>2. ASSUME NEW c \in Ctrl, NEW t \in Tiles, MoveTo(c, t) \/ MoveFrom(c, t)
      PROVE  CpuOrderInv'
  BY <1>2, MovesKeepOrder
<1>3. CASE \/ \E c \in Ctrl, t \in Tiles : WaitTile(c, t)
           \/ \E c \in Ctrl : GlobalSync(c)
           \/ Synchronize
  BY <1>3, WaitCallsKeepOrder
<1>4. ASSUME NEW c \in Ctrl, NEW t \in Tiles, NEW flags \in AllocFlags,
             AllocTile(c, t, flags)
      PROVE  CpuOrderInv'
  <2>1. CASE QuietAttach
    BY <1>4, <2>1, AllocKeepsOrder
  <2>2. CASE UNCHANGED vars
    BY <1>1, <2>2
  <2>. QED
    BY <2>1, <2>2
<1>5. CASE \/ \E c \in Ctrl, args \in Accesses : KernelLaunch(c, args)
           \/ \E args \in Accesses : LaunchHostTask(args)
  BY <1>5, LaunchKeepsOrder
<1>6. ASSUME NEW c \in Ctrl, NEW m \in Modes, SetDependanceMode(c, m)
      PROVE  CpuOrderInv'
  BY <1>6, IdleKeepsOrder DEF SetDependanceMode, CanCall
<1>7. CASE Unblock
  BY <1>7, IdleKeepsOrder DEF Unblock, Idle
<1>8. CASE KernelArgSend
  BY <1>8, KernelArgSendKeepsOrder
<1>9. CASE KernelArgFetch
  <2>1. First(ValidImpls(ArgTile)) \in ValidImpls(ArgTile)
    BY <1>9, FirstIsMember DEF KernelArgFetch, ValidImpls
  <2>2. /\ main.pc = "kernel" /\ main.arg <= Len(main.args) /\ UNCHANGED main
        /\ host_status[ArgTile] = "INVALID"
        /\ MoveFromInner(First(ValidImpls(ArgTile)), ArgTile)
        /\ MemMoves[main.ctrl]
             => device_status[<<main.ctrl, ArgTile>>] = "INVALID"
    BY <1>9 DEF KernelArgFetch, ArgLeft, KernelArgStale
  <2>3. PICK d \in ValidImpls(ArgTile) : MoveFromInner(d, ArgTile)
    BY <2>1, <2>2
  <2>. QED
    BY <2>2, <2>3, FetchKeepsOrder
<1>10. CASE HostTaskFetch
  <2>1. First(FetchImpls(ArgTile)) \in ValidImpls(ArgTile)
    BY <1>10, FirstIsMember DEF HostTaskFetch, FetchImpls, ValidImpls
  <2>2. /\ main.pc = "hosttask" /\ main.arg <= Len(main.args) /\ UNCHANGED main
        /\ host_status[ArgTile] = "INVALID"
        /\ MoveFromInner(First(FetchImpls(ArgTile)), ArgTile)
    BY <1>10 DEF HostTaskFetch, ArgLeft
  <2>3. PICK d \in ValidImpls(ArgTile) : MoveFromInner(d, ArgTile)
    BY <2>1, <2>2
  <2>. QED
    BY <2>2, <2>3, FetchKeepsOrder
<1>11. CASE KernelArgWait
  BY <1>11, KernelArgWaitKeepsOrder
<1>12. CASE HostTaskArgWait
  BY <1>12, HostTaskArgWaitKeepsOrder
<1>13. CASE KernelPush
  <2>1. main'.pc = "idle"
    BY <1>13 DEF KernelPush, Idle
  <2>. QED
    BY <1>13, <2>1, KernelOrders
       DEF CpuOrderInv, LaunchInv, LaunchAttachedInv, CallScopeInv
<1>14. CASE HostTaskPush
  <2>1. main'.pc \in {"idle", "wait"}
    BY <1>14 DEF HostTaskPush, Idle
  <2>. QED
    BY <1>14, <2>1, HostTaskOrders
       DEF CpuOrderInv, LaunchInv, LaunchAttachedInv, CallScopeInv
<1>15. ASSUME NEW s \in Stream, StreamStep(s) PROVE CpuOrderInv'
  BY <1>15, StreamStepKeepsOrder DEF StreamStep
<1>16. CASE Call
  BY <1>2, <1>3, <1>4, <1>5, <1>6, <1>16 DEF Call
<1>17. CASE Continue
  BY <1>7, <1>8, <1>9, <1>10, <1>11, <1>12, <1>13, <1>14, <1>17 DEF Continue
<1>. QED
  BY <1>1, <1>15, <1>16, <1>17 DEF Next
-----------------------------------------------------------------------------
(* What the order is for.                                                  *)

\* A job that started finds finished whatever is before it in the order.
LEMMA StartedAfter ==
  ASSUME CtrlInv, CpuOrderInv, NEW n \in Started, NEW m \in 1 .. n - 1,
         Covered(jobs, done, m, {n})
  PROVE  m \in done
<1>1. CASE Before(jobs, m, n)
  <2>. DEFINE D == done \cup {n}
  <2>1. D \subseteq DOMAIN jobs
    BY DEF CtrlInv, ExecInv
  <2>2. ClosedIn(jobs, done)
    BY DoneIsClosed DEF CpuOrderInv
  <2>3. /\ jobs[n].waits \subseteq done
        /\ \A k \in 1 .. n - 1 : jobs[k].stream = jobs[n].stream => k \in done
    BY DEF CpuOrderInv, ExecOrderInv
  <2>4. ClosedIn(jobs, D)
    BY <2>2, <2>3 DEF ClosedIn
  <2>5. m \in D
    BY <1>1, <2>1, <2>4 DEF Before
  <2>6. m # n
    <3>1. n \in Nat
      BY BasicFacts, SMT DEF CtrlInv, ExecInv
    <3>. QED
      BY <3>1, SMT
  <2>. QED
    BY <2>5, <2>6
<1>. QED
  BY <1>1 DEF Covered

\* The invariant holds of every program that keeps its readers of host memory
\* on one stream, as long as it attaches tiles no unfinished job uses.
THEOREM OrderInvariant ==
  ASSUME HostReadersTracked
  PROVE  Spec /\ [][QuietAttach]_vars => []CpuOrderInv
<1>1. Init => CpuOrderInv
  BY InitIsOrdered
<1>2. /\ CtrlInv /\ CtrlInv' /\ CpuOrderInv /\ [Next]_vars
      /\ [QuietAttach]_vars
      => CpuOrderInv'
  BY StepKeepsOrder
<1>. QED
  BY <1>1, <1>2, CtrlInvariant, PTL DEF Spec

\* A job runs only when every job pushed before it that touches the same
\* buffer, one of them writing, has finished: for every pair but a MOVEFROM
\* behind another transfer.
THEOREM OrderedExecution ==
  ASSUME HostReadersTracked
  PROVE  Spec /\ [][QuietAttach]_vars => []DependencesHonouredButMoveFrom
<1>1. ASSUME CtrlInv, CpuOrderInv PROVE DependencesHonouredButMoveFrom
  <2>1. Started \subseteq DOMAIN jobs
    BY <1>1 DEF CtrlInv, ExecInv
  <2>. QED
    BY <1>1, <2>1, StartedAfter
       DEF DependencesHonouredButMoveFrom, CpuOrderInv, OrderInv
<1>2. CtrlInv /\ CpuOrderInv => DependencesHonouredButMoveFrom
  BY <1>1
<1>. QED
  BY <1>2, OrderInvariant, CtrlInvariant, PTL

\* And for every pair when transfers from a device are the runtime's own, or
\* explicit but needed, on one device.
THEOREM DataRaceFreedom ==
  ASSUME HostReadersTracked, MoveFromTracked
  PROVE  Spec /\ [][QuietAttach]_vars => []DependencesHonoured
<1>1. ASSUME CtrlInv, CpuOrderInv PROVE DependencesHonoured
  <2>1. Started \subseteq DOMAIN jobs
    BY <1>1 DEF CtrlInv, ExecInv
  <2>. QED
    BY <1>1, <2>1, StartedAfter
       DEF DependencesHonoured, CpuOrderInv, OrderInv
<1>2. CtrlInv /\ CpuOrderInv => DependencesHonoured
  BY <1>1
<1>. QED
  BY <1>2, OrderInvariant, CtrlInvariant, PTL

\* A call that waits returns when the events it waits for have happened.
LEMMA ReturnsWhenDone ==
  ASSUME [Next]_vars, main.pc \in Blocked, main'.pc = "idle"
  PROVE  main.events \subseteq done
<1>1. main.pc # "idle" /\ main.pc \notin {"kernel", "hosttask"} /\ ~UNCHANGED main
  BY DEF Blocked
<1>2. ~Call
  <2>1. ~(\E c \in Ctrl, t \in Tiles, flags \in AllocFlags :
            AllocTile(c, t, flags))
    BY <1>1, AllocLeaves
  <2>2. ~(\E c \in Ctrl, t \in Tiles :
            MoveTo(c, t) \/ MoveFrom(c, t) \/ WaitTile(c, t))
    BY <1>1 DEF MoveTo, MoveFrom, WaitTile, Block
  <2>3. ~(\E c \in Ctrl, args \in Accesses : KernelLaunch(c, args))
    BY <1>1 DEF KernelLaunch, CanCall
  <2>4. ~(\E args \in Accesses : LaunchHostTask(args))
    BY <1>1 DEF LaunchHostTask, CanCall
  <2>. QED
    BY <1>1, <2>1, <2>2, <2>3, <2>4
       DEF Call, GlobalSync, SetDependanceMode, Synchronize, Block
<1>3. ~(\E s \in Stream : StreamStep(s))
  BY <1>1 DEF StreamStep, StartJob, FinishJob
<1>4. Continue => Unblock
  BY <1>1
     DEF Continue, KernelArgFetch, KernelArgSend, KernelArgWait, KernelPush,
         HostTaskFetch, HostTaskArgWait, HostTaskPush, ArgLeft
<1>. QED
  BY <1>1, <1>2, <1>3, <1>4 DEF Next, vars, Unblock

\* Ctrl_WaitTile and Ctrl_GlobalSync return when the operations of their ctrl
\* and of the host on the tile, or on every tile, have ended.
THEOREM TileWaitsAreComplete ==
  ASSUME HostReadersTracked
  PROVE  Spec /\ [][QuietAttach]_vars => TileWaitsComplete
<1>1. ASSUME CtrlInv, CpuOrderInv, [Next]_vars,
             Returns({"waitTile", "globalSync"})
      PROVE  main.scope \subseteq done
  <2>1. main.events \subseteq done
    BY <1>1, ReturnsWhenDone DEF Returns, Blocked
  <2>2. ASSUME NEW n \in main.scope PROVE n \in done
    <3>1. Covered(jobs, done, n, main.events)
      BY <1>1 DEF CpuOrderInv, CallScopeInv, Returns
    <3>2. ClosedIn(jobs, done) /\ done \in SUBSET DOMAIN jobs
      BY <1>1, DoneIsClosed DEF CpuOrderInv, CtrlInv, ExecInv
    <3>. QED
      BY <2>1, <3>1, <3>2 DEF Covered, Before
  <2>. QED
    BY <2>2
<1>2. CtrlInv /\ CpuOrderInv /\ [Next]_vars
        => [Returns({"waitTile", "globalSync"}) => main.scope \subseteq done]_vars
  BY <1>1
<1>. QED
  BY <1>2, OrderInvariant, CtrlInvariant, PTL DEF Spec, TileWaitsComplete
-----------------------------------------------------------------------------
(* Programs whose tiles are attached when no job uses them, by the way they *)
(* are written.                                                             *)

\* Each of these keeps jobs in flight off the tiles Ctrl_Alloc attaches.
AttachesEarly ==
  \/ AllocFlags = {}                       \* only before the first launch
  \/ Ctrl \X Tiles \subseteq InitAttached
  \/ NCtrls = 1                            \* no other ctrl uses the tile

\* Some ctrl keeps events for the tile.
Home(t) == \E c \in Ctrl : <<c, t>> \in attached

\* Whatever has memory, is being launched on, or was pushed on is attached.
AttachInv ==
  /\ InitAttached \subseteq attached
  /\ \A t \in Tiles : host_status[t] # "UNALLOC" => Home(t)
  /\ \A ct \in Ctrl \X Tiles : device_status[ct] # "UNALLOC" => ct \in attached
  /\ LaunchAttachedInv
  /\ \A i \in DOMAIN main.args : Home(main.args[i].tile)
  /\ \A n \in DOMAIN jobs : \A b \in Touched(jobs[n]) : Home(b[2])

\* A push adds a job that touches the buffers it is given.
LEMMA PushTouches ==
  ASSUME CtrlInv, CtrlInv', NEW s, NEW reads, NEW writes, NEW events,
         Push(s, reads, writes, events)
  PROVE  \A n \in DOMAIN jobs' :
           \/ n \in DOMAIN jobs /\ jobs'[n] = jobs[n]
           \/ Touched(jobs'[n]) = reads \cup writes
<1>. DEFINE job == [stream |-> s, reads |-> reads, writes |-> writes,
                    waits |-> (pending[s] \cup events) \ {0}]
<1>1. jobs' = Append(jobs, job)
  BY DEF Push
<1>2. Touched(job) = reads \cup writes
  BY DEF Touched
<1>. HIDE DEF job
<1>3. jobs \in Seq(Job) /\ jobs' \in Seq(Job)
  BY DEF CtrlInv, JobsInv
<1>4. \A n \in DOMAIN jobs' :
        \/ n \in DOMAIN jobs /\ jobs'[n] = jobs[n]
        \/ jobs'[n] = job
  BY <1>1, <1>3, SMT
<1>. QED
  BY <1>2, <1>4

\* Transfers are of tiles that have memory.
LEMMA TransferKeepsAttach ==
  ASSUME CtrlInv, CtrlInv', AttachInv, NEW c \in Ctrl, NEW t \in Tiles,
         MoveToInner(c, t) \/ MoveFromInner(c, t),
         host_status[t] # "UNALLOC", device_status[<<c, t>>] # "UNALLOC",
         UNCHANGED main
  PROVE  AttachInv'
<1>1. /\ host_status' = [host_status EXCEPT ![t] = "VALID"]
      /\ device_status' = [device_status EXCEPT ![<<c, t>>] = "VALID"]
      /\ attached' = attached
  BY DEF MoveToInner, MoveFromInner
<1>2. /\ host_status \in [Tiles -> Status]
      /\ device_status \in [Ctrl \X Tiles -> Status]
  BY DEF CtrlInv, StatusInv
<1>3. \A u : Home(u)' = Home(u)
  BY <1>1 DEF Home
<1>4. \A n \in DOMAIN jobs' :
        \/ n \in DOMAIN jobs /\ jobs'[n] = jobs[n]
        \/ Touched(jobs'[n]) = {HostBuffer(t), DeviceBuffer(c, t)}
  <2>1. CASE MoveToInner(c, t)
    BY <2>1, PushTouches DEF MoveToInner
  <2>2. CASE MoveFromInner(c, t)
    BY <2>2, PushTouches DEF MoveFromInner
  <2>. QED
    BY <2>1, <2>2
<1>5. HostBuffer(t)[2] = t /\ DeviceBuffer(c, t)[2] = t
  BY DEF HostBuffer, DeviceBuffer
<1>6. LaunchAttachedInv'
  BY <1>1 DEF AttachInv, LaunchAttachedInv
<1>7. \A n \in DOMAIN jobs' : \A b \in Touched(jobs'[n]) : Home(b[2])'
  <2>1. Home(t)
    BY DEF AttachInv
  <2>. QED
    BY <1>3, <1>4, <1>5, <2>1 DEF AttachInv
<1>. QED
  BY <1>1, <1>2, <1>3, <1>6, <1>7 DEF AttachInv

\* Tasks are of tiles of a launch.
LEMMA TaskKeepsAttach ==
  ASSUME CtrlInv, CtrlInv', AttachInv, KernelPush \/ HostTaskPush
  PROVE  AttachInv'
<1>. DEFINE ins == Ins(main.args)
            outs == Outs(main.args)
<1>1. /\ attached' = attached /\ main'.args = <<>>
      /\ main'.pc \in {"idle", "wait"}
  <2>1. /\ attached' = attached
        /\ \/ main' = Idle
           \/ main' = [Idle EXCEPT !.pc = "wait", !.events = {Ticket},
                                   !.scope = {Ticket}]
    BY DEF KernelPush, HostTaskPush
  <2>2. CASE main' = Idle
    BY <2>1, <2>2 DEF Idle
  <2>3. ASSUME main' = [Idle EXCEPT !.pc = "wait", !.events = {Ticket},
                                    !.scope = {Ticket}]
        PROVE  main'.args = <<>> /\ main'.pc = "wait"
    <3>1. main' = [pc |-> "wait", ctrl |-> Host, args |-> <<>>, arg |-> 1,
                   events |-> {Ticket}, scope |-> {Ticket}]
      BY <2>3 DEF Idle
    <3>. QED
      BY <3>1
  <2>. QED
    BY <2>1, <2>2, <2>3
<1>2. \A u : Home(u)' = Home(u)
  BY <1>1 DEF Home
<1>3. \A t \in ins \cup outs : Home(t)
  BY DEF AttachInv, Ins, Outs
<1>4. \A n \in DOMAIN jobs' : \A b \in Touched(jobs'[n]) : Home(b[2])
  <2>1. CASE KernelPush
    <3>. DEFINE reads == {DeviceBuffer(main.ctrl, t) : t \in ins}
                writes == {DeviceBuffer(main.ctrl, t) : t \in outs}
                s == <<main.ctrl, "kernel">>
    <3>1. Push(s, reads, writes, SyncWait)
      BY <2>1 DEF KernelPush
    <3>2. \A b \in reads \cup writes : b[2] \in ins \cup outs
      BY DEF DeviceBuffer
    <3>. HIDE DEF reads, writes, s
    <3>. QED
      BY <1>3, <3>1, <3>2, PushTouches DEF AttachInv
  <2>2. CASE HostTaskPush
    <3>. DEFINE reads == {HostBuffer(t) : t \in ins}
                writes == {HostBuffer(t) : t \in outs}
    <3>1. Push(HostStream, reads, writes, SyncWait)
      BY <2>2 DEF HostTaskPush
    <3>2. \A b \in reads \cup writes : b[2] \in ins \cup outs
      BY DEF HostBuffer
    <3>. HIDE DEF reads, writes
    <3>. QED
      BY <1>3, <3>1, <3>2, PushTouches DEF AttachInv
  <2>. QED
    BY <2>1, <2>2
<1>5. \A t \in Tiles : host_status'[t] # "UNALLOC" => Home(t)
  BY <1>3 DEF KernelPush, HostTaskPush, AttachInv
<1>6. \A ct \in Ctrl \X Tiles : device_status'[ct] # "UNALLOC" => ct \in attached
  <2>1. CASE KernelPush
    <3>1. \A t \in outs : <<main.ctrl, t>> \in attached
      BY <2>1 DEF KernelPush, AttachInv, LaunchAttachedInv, Outs
    <3>2. \A ct \in Ctrl \X Tiles :
            \/ ct[1] = main.ctrl /\ ct[2] \in outs
            \/ device_status'[ct] # "UNALLOC" => device_status[ct] # "UNALLOC"
      BY <2>1 DEF KernelPush, InvalidateDevices
    <3>. QED
      BY <3>1, <3>2 DEF AttachInv
  <2>2. CASE HostTaskPush
    BY <2>2 DEF HostTaskPush, AttachInv
  <2>. QED
    BY <2>1, <2>2
<1>7. DOMAIN main'.args = {}
  <2>1. DOMAIN <<>> = {}
    BY SMT
  <2>. QED
    BY <1>1, <2>1
<1>. QED
  BY <1>1, <1>2, <1>4, <1>5, <1>6, <1>7 DEF AttachInv, LaunchAttachedInv

\* Steps that change no job, no status and no attachment, and either return or
\* keep the launch.
LEMMA OthersKeepAttach ==
  ASSUME AttachInv, UNCHANGED <<jobs, attached, host_status, device_status>>,
         \/ main'.args = <<>> /\ main'.pc # "kernel"
         \/ main'.args = main.args /\ main'.pc = main.pc /\ main'.ctrl = main.ctrl
  PROVE  AttachInv'
<1>1. \A u : Home(u)' = Home(u)
  BY DEF Home
<1>2. DOMAIN <<>> = {}
  BY SMT
<1>3. LaunchAttachedInv' /\ \A i \in DOMAIN main'.args : Home(main'.args[i].tile)
  BY <1>2 DEF AttachInv, LaunchAttachedInv
<1>. QED
  BY <1>1, <1>3 DEF AttachInv

\* Tasks are launched on tiles that have memory.
LEMMA LaunchKeepsAttach ==
  ASSUME CtrlInv, AttachInv,
         \/ \E c \in Ctrl, args \in Accesses : KernelLaunch(c, args)
         \/ \E args \in Accesses : LaunchHostTask(args)
  PROVE  AttachInv'
<1>1. UNCHANGED <<jobs, attached, host_status, device_status>>
  BY DEF KernelLaunch, LaunchHostTask, tileVars
<1>2. \A u : Home(u)' = Home(u)
  BY <1>1 DEF Home
<1>3. ASSUME NEW args \in Accesses, NEW i \in DOMAIN args
      PROVE  args[i].tile \in Tiles
  <2>. DEFINE Arg == [tile : Tiles, role : Role]
  <2>1. args \in Seq(Arg)
    BY CpuCtrlAssumption
  <2>. HIDE DEF Arg
  <2>2. args[i] \in Arg
    BY <2>1, SMT
  <2>. QED
    BY <2>2 DEF Arg
<1>4. ASSUME NEW c \in Ctrl, NEW args \in Accesses, KernelLaunch(c, args)
      PROVE  AttachInv'
  <2>1. main'.args = args /\ main'.ctrl = c
    BY <1>4 DEF KernelLaunch, Idle
  <2>2. \A i \in DOMAIN args : <<c, args[i].tile>> \in attached
    BY <1>3, <1>4 DEF KernelLaunch, AttachInv
  <2>3. LaunchAttachedInv' /\ \A i \in DOMAIN main'.args : Home(main'.args[i].tile)
    BY <1>1, <2>1, <2>2 DEF LaunchAttachedInv, Home
  <2>. QED
    BY <1>1, <1>2, <2>3 DEF AttachInv
<1>5. ASSUME NEW args \in Accesses, LaunchHostTask(args) PROVE AttachInv'
  <2>1. main'.args = args /\ main'.pc = "hosttask"
    BY <1>5 DEF LaunchHostTask, Idle
  <2>2. \A i \in DOMAIN args : Home(args[i].tile)
    BY <1>3, <1>5 DEF LaunchHostTask, AttachInv
  <2>3. LaunchAttachedInv' /\ \A i \in DOMAIN main'.args : Home(main'.args[i].tile)
    BY <2>1, <2>2 DEF LaunchAttachedInv
  <2>. QED
    BY <1>1, <1>2, <2>3 DEF AttachInv
<1>. QED
  BY <1>4, <1>5

\* Memory is allocated for tiles that are attached.
LEMMA AllocKeepsAttach ==
  ASSUME CtrlInv, AttachInv, NEW c \in Ctrl, NEW t \in Tiles, NEW flags,
         AllocTile(c, t, flags)
  PROVE  AttachInv'
<1>1. /\ UNCHANGED <<jobs, main>> /\ attached' = attached \cup {<<c, t>>}
      /\ \/ host_status' = host_status
         \/ host_status' = [host_status EXCEPT ![t] = "INVALID"]
      /\ \/ device_status' = device_status
         \/ device_status' = [device_status EXCEPT ![<<c, t>>] = "INVALID"]
  BY DEF AllocTile
<1>2. /\ host_status \in [Tiles -> Status]
      /\ device_status \in [Ctrl \X Tiles -> Status]
  BY DEF CtrlInv, StatusInv
<1>3. (\A u : Home(u) => Home(u)') /\ Home(t)'
  BY <1>1 DEF Home
<1>4. \A u \in Tiles : host_status'[u] # "UNALLOC" => Home(u)'
  BY <1>1, <1>2, <1>3 DEF AttachInv
<1>5. \A ct \in Ctrl \X Tiles : device_status'[ct] # "UNALLOC" => ct \in attached'
  BY <1>1, <1>2 DEF AttachInv
<1>6. LaunchAttachedInv' /\ InitAttached \subseteq attached'
  BY <1>1 DEF AttachInv, LaunchAttachedInv
<1>. QED
  BY <1>1, <1>3, <1>4, <1>5, <1>6 DEF AttachInv

\* So do the other steps.
LEMMA StepKeepsAttach ==
  ASSUME CtrlInv, CtrlInv', AttachInv, [Next]_vars PROVE AttachInv'
<1>1. CASE UNCHANGED vars
  BY <1>1, OthersKeepAttach DEF vars, tileVars
<1>2. ASSUME NEW c \in Ctrl, NEW t \in Tiles, MoveTo(c, t) \/ MoveFrom(c, t)
      PROVE  AttachInv'
  BY <1>2, TransferKeepsAttach DEF MoveTo, MoveFrom
<1>3. ASSUME NEW call, NEW events, NEW scope, Block(call, events, scope),
             call \in Blocked
      PROVE  AttachInv'
  <2>1. main'.args = <<>> /\ main'.pc # "kernel"
    BY <1>3 DEF Block, Idle, Blocked
  <2>. QED
    BY <1>3, <2>1, OthersKeepAttach DEF Block, tileVars
<1>4. CASE \/ \E c \in Ctrl, t \in Tiles : WaitTile(c, t)
           \/ \E c \in Ctrl : GlobalSync(c)
           \/ Synchronize
  <2>1. \E call \in Blocked : \E events, scope : Block(call, events, scope)
    BY <1>4 DEF WaitTile, GlobalSync, Synchronize, Blocked
  <2>. QED
    BY <1>3, <2>1
<1>5. CASE \E c \in Ctrl, m \in Modes : SetDependanceMode(c, m)
  BY <1>5, OthersKeepAttach DEF SetDependanceMode, tileVars
<1>6. CASE Unblock
  <2>1. main'.args = <<>> /\ main'.pc # "kernel"
    BY <1>6 DEF Unblock, Idle
  <2>. QED
    BY <1>6, <2>1, OthersKeepAttach DEF Unblock, tileVars
<1>7. CASE KernelArgSend
  <2>1. main.ctrl \in Ctrl /\ ArgTile \in Tiles
    BY <1>7, ArgumentsTyped DEF KernelArgSend, ArgLeft, CtrlInv, MainInv
  <2>. QED
    BY <1>7, <2>1, TransferKeepsAttach DEF KernelArgSend, KernelArgStale
<1>8. CASE KernelArgFetch \/ HostTaskFetch
  <2>1. ArgTile \in Tiles /\ host_status[ArgTile] = "INVALID" /\ UNCHANGED main
    BY <1>8, ArgumentsTyped
       DEF KernelArgFetch, HostTaskFetch, ArgLeft, CtrlInv, MainInv
  <2>2. \E d \in ValidImpls(ArgTile) : MoveFromInner(d, ArgTile)
    BY <1>8, FirstIsMember
       DEF KernelArgFetch, HostTaskFetch, FetchImpls, ValidImpls
  <2>3. PICK d \in Ctrl : /\ MoveFromInner(d, ArgTile)
                          /\ device_status[<<d, ArgTile>>] = "VALID"
    BY <2>2 DEF ValidImpls
  <2>. QED
    BY <2>1, <2>3, TransferKeepsAttach
<1>9. CASE KernelArgWait
  BY <1>9, OthersKeepAttach DEF KernelArgWait, NextArg, tileVars, CtrlInv, MainInv, MainState
<1>10. CASE HostTaskArgWait
  <2>1. ArgTile \in Tiles /\ main.arg \in DOMAIN main.args
    BY <1>10, ArgumentsTyped, BasicFacts, SMT
       DEF HostTaskArgWait, ArgLeft, CtrlInv, MainInv
  <2>2. Home(ArgTile)
    BY <2>1 DEF AttachInv, ArgTile
  <2>3. /\ attached' = attached /\ jobs' = jobs
        /\ main'.args = main.args /\ main'.pc = main.pc
        /\ main.pc = "hosttask"
    BY <1>10 DEF HostTaskArgWait, NextArg, ArgLeft, CtrlInv, MainInv, MainState
  <2>4. \A u : Home(u)' = Home(u)
    BY <2>3 DEF Home
  <2>5. \A u \in Tiles : host_status'[u] # "UNALLOC" => Home(u)
    BY <1>10, <2>2 DEF HostTaskArgWait, AttachInv
  <2>6. \A ct \in Ctrl \X Tiles : device_status'[ct] # "UNALLOC" => ct \in attached
    BY <1>10 DEF HostTaskArgWait, AttachInv, InvalidateDevices
  <2>7. LaunchAttachedInv'
    BY <2>3 DEF LaunchAttachedInv
  <2>. QED
    BY <2>3, <2>4, <2>5, <2>6, <2>7 DEF AttachInv
<1>11. CASE KernelPush \/ HostTaskPush
  BY <1>11, TaskKeepsAttach
<1>12. CASE \E s \in Stream : StreamStep(s)
  BY <1>12, OthersKeepAttach DEF StreamStep, StartJob, FinishJob, tileVars
<1>13. CASE Call
  BY <1>2, <1>4, <1>5, <1>13, LaunchKeepsAttach, AllocKeepsAttach DEF Call
<1>14. CASE Continue
  BY <1>6, <1>7, <1>8, <1>9, <1>10, <1>11, <1>14 DEF Continue
<1>. QED
  BY <1>1, <1>12, <1>13, <1>14 DEF Next

\* Initially only attached tiles have memory.
LEMMA InitIsAttached == ASSUME Init PROVE AttachInv
<1>1. /\ jobs = <<>> /\ main = Idle /\ attached = InitAttached
      /\ device_status = [ct \in Ctrl \X Tiles |-> InitDevice(ct[1], ct[2])]
      /\ host_status = [t \in Tiles |-> InitHost(t)]
  BY DEF Init
<1>2. DOMAIN jobs = {} /\ DOMAIN main.args = {} /\ main.pc = "idle"
  <2>1. DOMAIN <<>> = {}
    BY SMT
  <2>. QED
    BY <1>1, <2>1 DEF Idle
<1>. QED
  BY <1>1, <1>2
     DEF AttachInv, LaunchAttachedInv, Home, InitHost, InitDevice

\* Such programs attach tiles no job uses.
THEOREM AttachesQuietly ==
  ASSUME AttachesEarly PROVE Spec => [][QuietAttach]_vars
<1>1. ASSUME CtrlInv, AttachInv, Next PROVE QuietAttach
  <2>1. SUFFICES ASSUME NEW ct \in attached' \ attached, NEW n \in Unfinished,
                        NEW b \in Touched(jobs[n])
                 PROVE  b[2] # ct[2]
    BY DEF QuietAttach
  <2>2. PICK c \in Ctrl, t \in Tiles, flags \in AllocFlags : AllocTile(c, t, flags)
    <3>1. attached' # attached
      OBVIOUS
    <3>2. ~Continue
      BY <3>1
         DEF Continue, KernelArgFetch, KernelArgSend, KernelArgWait, KernelPush,
             HostTaskFetch, HostTaskArgWait, HostTaskPush, Unblock,
             MoveToInner, MoveFromInner, tileVars
    <3>3. ~(\E s \in Stream : StreamStep(s))
      BY <3>1 DEF StreamStep, StartJob, FinishJob, tileVars
    <3>4. /\ ~(\E c \in Ctrl, t \in Tiles : MoveTo(c, t) \/ MoveFrom(c, t))
          /\ ~(\E c \in Ctrl, t \in Tiles : WaitTile(c, t))
          /\ ~(\E c \in Ctrl : GlobalSync(c)) /\ ~Synchronize
      <4>1. ~(\E c \in Ctrl, t \in Tiles : MoveTo(c, t) \/ MoveFrom(c, t))
        <5>1. \A c, t : MoveTo(c, t) => attached' = attached
          BY ONLY DEF MoveTo, MoveToInner
        <5>2. \A c, t : MoveFrom(c, t) => attached' = attached
          BY ONLY DEF MoveFrom, MoveFromInner
        <5>. QED
          BY ONLY <3>1, <5>1, <5>2
      <4>2. \A call, events, scope : ~Block(call, events, scope)
        BY <3>1 DEF Block, tileVars
      <4>. QED
        BY <4>1, <4>2 DEF WaitTile, GlobalSync, Synchronize
    <3>5. /\ ~(\E c \in Ctrl, args \in Accesses : KernelLaunch(c, args))
          /\ ~(\E args \in Accesses : LaunchHostTask(args))
          /\ ~(\E c \in Ctrl, m \in Modes : SetDependanceMode(c, m))
      BY <3>1 DEF KernelLaunch, LaunchHostTask, SetDependanceMode, tileVars
    <3>6. Call
      BY <1>1, <3>2, <3>3 DEF Next
    <3>. QED
      BY <3>4, <3>5, <3>6 DEF Call
  <2>3. attached' = attached \cup {<<c, t>>}
    BY <2>2 DEF AllocTile
  <2>4. ct = <<c, t>> /\ <<c, t>> \notin attached
    BY <2>3
  <2>5. Home(b[2])
    BY <1>1 DEF AttachInv, Unfinished
  <2>6. AllocFlags # {} /\ ~(Ctrl \X Tiles \subseteq InitAttached)
    BY <1>1, <2>2, <2>4 DEF AttachInv
  <2>7. \A d \in Ctrl : d = c
    <3>1. NCtrls = 1
      BY <2>6 DEF AttachesEarly
    <3>. QED
      BY <3>1, SMT DEF Ctrl
  <2>. QED
    BY <2>4, <2>5, <2>7 DEF Home
<1>2. CtrlInv /\ CtrlInv' /\ AttachInv /\ [Next]_vars => AttachInv'
  BY StepKeepsAttach
<1>3. Init => AttachInv
  BY InitIsAttached
<1>4. CtrlInv /\ AttachInv /\ [Next]_vars => [QuietAttach]_vars
  BY <1>1
<1>. QED
  BY <1>2, <1>3, <1>4, CtrlInvariant, PTL DEF Spec

\* With no hypothesis on what the program does next, only on how it is written.
THEOREM DataRaceFreedomOfPrograms ==
  ASSUME HostReadersTracked, AttachesEarly
  PROVE  /\ Spec => []DependencesHonouredButMoveFrom
         /\ MoveFromTracked => (Spec => []DependencesHonoured)
         /\ Spec => TileWaitsComplete
<1>1. Spec => []DependencesHonouredButMoveFrom
  BY AttachesQuietly, OrderedExecution, PTL
<1>2. ASSUME MoveFromTracked PROVE Spec => []DependencesHonoured
  BY <1>2, AttachesQuietly, DataRaceFreedom, PTL
<1>3. Spec => TileWaitsComplete
  BY AttachesQuietly, TileWaitsAreComplete, PTL
<1>. QED
  BY <1>1, <1>2, <1>3
-----------------------------------------------------------------------------
(* Ctrl_Synchronize, for programs whose kernels have arguments: it looks for *)
(* the kernels of a ctrl among the events of the tiles.                      *)

\* The dimensions of a kernel are no tile: a kernel of the library may have none.
KernelsHaveArguments == <<>> \notin Accesses

\* A blocked Ctrl_Synchronize waits for events that cover every job.
SynchronizeInv ==
  /\ main.pc = "kernel" => main.args # <<>>
  /\ \A n \in DOMAIN jobs :
       jobs[n].stream[2] = "kernel" => Touched(jobs[n]) # {}
  /\ main.pc = "synchronize" =>
       \A n \in main.scope : Covered(jobs, done, n, main.events)

\* A push adds a job behind the others.
LEMMA PushAppends ==
  ASSUME CtrlInv, CtrlInv', NEW s, NEW reads, NEW writes, NEW events,
         Push(s, reads, writes, events)
  PROVE  /\ Ticket = Len(jobs) + 1 /\ Len(jobs') = Ticket
         /\ DOMAIN jobs' = DOMAIN jobs \cup {Ticket}
         /\ \A n \in DOMAIN jobs : jobs'[n] = jobs[n]
         /\ jobs'[Ticket].stream = s
         /\ jobs'[Ticket].waits = (pending[s] \cup events) \ {0}
<1>. DEFINE job == [stream |-> s, reads |-> reads, writes |-> writes,
                    waits |-> (pending[s] \cup events) \ {0}]
<1>1. jobs' = Append(jobs, job)
  BY DEF Push
<1>2. job.stream = s /\ job.waits = (pending[s] \cup events) \ {0}
  OBVIOUS
<1>. HIDE DEF job
<1>3. jobs \in Seq(Job) /\ jobs' \in Seq(Job)
  BY DEF CtrlInv, JobsInv
<1>4. /\ Ticket = Len(jobs) + 1 /\ Len(jobs') = Ticket
      /\ DOMAIN jobs' = DOMAIN jobs \cup {Ticket}
      /\ \A n \in DOMAIN jobs : jobs'[n] = jobs[n]
  BY <1>1, <1>3, SMT DEF Ticket
<1>5. jobs'[Ticket] = job
  BY <1>1, <1>3, SMT DEF Ticket
<1>. QED
  BY <1>2, <1>4, <1>5

\* Every job is covered by the event of the host queue and those of the tiles.
LEMMA AllCovered ==
  ASSUME CtrlInv, CpuOrderInv, SynchronizeInv, NEW n \in DOMAIN jobs
  PROVE  Covered(jobs, done, n, HostQueueEvent \cup
                   UNION {TileEvents(ct[1], ct[2]) : ct \in attached})
<1>. DEFINE E == HostQueueEvent \cup
                   UNION {TileEvents(ct[1], ct[2]) : ct \in attached}
<1>1. ASSUME NEW c \in Ctrl, NEW t \in Tiles, <<c, t>> \in attached,
             jobs[n].stream[1] = c, NEW b \in Touched(jobs[n]), b[2] = t
      PROVE  Covered(jobs, done, n, E)
  <2>1. Covered(jobs, done, n, TileEvents(c, t))
    BY <1>1, TileEventsCover
  <2>2. TileEvents(c, t) \subseteq E
    BY <1>1
  <2>. HIDE DEF E
  <2>. QED
    BY <2>1, <2>2, CoveredByMore
<1>2. CASE HostJob(jobs[n])
  <2>1. n \in HostTasks /\ HostTasks \subseteq 1 .. Len(jobs) /\ Len(jobs) \in Nat
    BY <1>2, BasicFacts DEF HostTasks, HostJob
  <2>. DEFINE S == {Len(jobs) - k : k \in HostTasks}
  <2>2. S \in SUBSET Nat /\ S # {}
    BY <2>1, SMT
  <2>3. PICK l \in S : \A k \in S : l <= k
    BY <2>2, NatMinimum
  <2>4. PICK e \in HostTasks : l = Len(jobs) - e
    BY <2>3
  <2>5. \A k \in HostTasks : k <= e
    <3>1. \A k \in HostTasks : l <= Len(jobs) - k
      BY <2>3
    <3>. QED
      BY <2>1, <2>4, <3>1, SMT
  <2>6. e \in HostQueueEvent /\ e \in DOMAIN jobs
    BY <2>5 DEF HostQueueEvent, HostTasks
  <2>7. n = e \/ n \in 1 .. e - 1
    BY <2>1, <2>5, SMT
  <2>8. jobs[n].stream = jobs[e].stream
    BY <2>1 DEF HostTasks
  <2>9. Before(jobs, n, e)
    BY <2>7, <2>8 DEF Before, ClosedIn
  <2>. QED
    BY <2>6, <2>9 DEF Covered
<1>3. ASSUME NEW c \in Ctrl, KernelJob(jobs[n], c),
             \A b \in Touched(jobs[n]) : <<c, b[2]>> \in attached
      PROVE  Covered(jobs, done, n, E)
  <2>1. PICK b \in Touched(jobs[n]) : TRUE
    BY <1>3 DEF SynchronizeInv, KernelJob
  <2>2. b[2] \in Tiles /\ <<c, b[2]>> \in attached /\ jobs[n].stream[1] = c
    BY <1>3, <2>1 DEF KernelJob
  <2>. HIDE DEF E
  <2>. QED
    BY <1>1, <2>2
<1>4. ASSUME NEW c \in Ctrl, NEW t \in Tiles, TransferJob(jobs[n], c, t),
             <<c, t>> \in attached
      PROVE  Covered(jobs, done, n, E)
  <2>1. /\ HostBuffer(t) \in Touched(jobs[n]) /\ HostBuffer(t)[2] = t
        /\ jobs[n].stream[1] = c
    BY <1>4 DEF TransferJob, MoveToJob, MoveFromJob, Touched, HostBuffer
  <2>. HIDE DEF E
  <2>. QED
    BY <1>1, <1>4, <2>1
<1>5. ShapeInv
  BY DEF CpuOrderInv
<1>. QED
  BY <1>2, <1>3, <1>4, <1>5 DEF ShapeInv

\* Every step keeps the scope of Ctrl_Synchronize covered.
LEMMA StepKeepsSynchronize ==
  ASSUME CtrlInv, CtrlInv', CpuOrderInv, CpuOrderInv', SynchronizeInv,
         KernelsHaveArguments, [Next]_vars
  PROVE  SynchronizeInv'
<1>1. ASSUME UNCHANGED <<jobs, main>>, done \subseteq done'
      PROVE  SynchronizeInv'
  BY <1>1 DEF SynchronizeInv, Covered
<1>2. ASSUME UNCHANGED jobs, main'.pc \notin {"kernel", "synchronize"}
      PROVE  SynchronizeInv'
  BY <1>2 DEF SynchronizeInv
<1>3. ASSUME NEW s, NEW reads, NEW writes, NEW events,
             Push(s, reads, writes, events),
             s[2] = "kernel" => reads \cup writes # {},
             main'.pc # "kernel" \/ main' = main, main'.pc # "synchronize"
      PROVE  SynchronizeInv'
  <2>1. /\ DOMAIN jobs' = DOMAIN jobs \cup {Ticket}
        /\ \A n \in DOMAIN jobs : jobs'[n] = jobs[n]
        /\ jobs'[Ticket].stream = s /\ Ticket \notin DOMAIN jobs
    <3>1. /\ DOMAIN jobs' = DOMAIN jobs \cup {Ticket}
          /\ \A n \in DOMAIN jobs : jobs'[n] = jobs[n]
          /\ jobs'[Ticket].stream = s
          /\ Ticket = Len(jobs) + 1
      BY <1>3, PushAppends
    <3>2. DOMAIN jobs = 1 .. Len(jobs) /\ Len(jobs) \in Nat
      BY BasicFacts
    <3>3. Ticket \notin DOMAIN jobs
      BY <3>1, <3>2, SMT
    <3>. QED
      BY <3>1, <3>3
  <2>2. Touched(jobs'[Ticket]) = reads \cup writes
    BY <1>3, <2>1, PushTouches
  <2>. QED
    BY <1>3, <2>1, <2>2 DEF SynchronizeInv
<1>4. ASSUME NEW c \in Ctrl, NEW t \in Tiles,
             MoveToInner(c, t) \/ MoveFromInner(c, t), UNCHANGED main,
             main.pc # "synchronize"
      PROVE  SynchronizeInv'
  <2>1. \E s, reads, writes, events :
          Push(s, reads, writes, events) /\ s[2] # "kernel"
    <3>1. <<c, "moveTo">>[2] # "kernel" /\ <<c, "moveFrom">>[2] # "kernel"
      OBVIOUS
    <3>. QED
      BY <1>4, <3>1 DEF MoveToInner, MoveFromInner
  <2>. QED
    BY <1>3, <1>4, <2>1
<1>5. CASE UNCHANGED vars
  BY <1>1, <1>5 DEF vars, execVars
<1>6. CASE \E c \in Ctrl, t \in Tiles : MoveTo(c, t) \/ MoveFrom(c, t)
  BY <1>4, <1>6 DEF MoveTo, MoveFrom, CanCall
<1>7. CASE \/ \E c \in Ctrl, t \in Tiles : WaitTile(c, t)
           \/ \E c \in Ctrl : GlobalSync(c)
  BY <1>2, <1>7 DEF WaitTile, GlobalSync, Block, Idle
<1>8. CASE Synchronize
  <2>. DEFINE E == HostQueueEvent \cup
                     UNION {TileEvents(ct[1], ct[2]) : ct \in attached}
  <2>1. /\ main'.pc = "synchronize" /\ main'.events = E \ {0}
        /\ main'.scope = DOMAIN jobs /\ jobs' = jobs /\ done' = done
    BY <1>8 DEF Synchronize, Block, Idle, execVars
  <2>2. ASSUME NEW n \in DOMAIN jobs PROVE Covered(jobs, done, n, E \ {0})
    <3>1. Covered(jobs, done, n, E)
      BY AllCovered
    <3>2. 0 \notin DOMAIN jobs
      BY BasicFacts
    <3>. HIDE DEF E
    <3>. QED
      BY <3>1, <3>2 DEF Covered
  <2>. HIDE DEF E
  <2>. QED
    BY <2>1, <2>2 DEF SynchronizeInv
<1>9. ASSUME NEW c \in Ctrl, NEW t \in Tiles, NEW flags, AllocTile(c, t, flags)
      PROVE  SynchronizeInv'
  BY <1>1, <1>9 DEF AllocTile, execVars
<1>10. ASSUME NEW c \in Ctrl, NEW args \in Accesses, KernelLaunch(c, args)
       PROVE  SynchronizeInv'
  <2>1. main'.pc = "kernel" /\ main'.args = args /\ jobs' = jobs
    BY <1>10 DEF KernelLaunch, Idle
  <2>. QED
    BY <2>1 DEF SynchronizeInv, KernelsHaveArguments
<1>11. CASE \E args \in Accesses : LaunchHostTask(args)
  BY <1>2, <1>11 DEF LaunchHostTask, Idle
<1>12. CASE \E c \in Ctrl, m \in Modes : SetDependanceMode(c, m)
  BY <1>1, <1>12 DEF SetDependanceMode, execVars
<1>13. CASE Unblock
  BY <1>2, <1>13 DEF Unblock, Idle
<1>14. CASE KernelArgSend
  <2>1. main.ctrl \in Ctrl /\ ArgTile \in Tiles
    BY <1>14, ArgumentsTyped DEF KernelArgSend, ArgLeft, CtrlInv, MainInv
  <2>. QED
    BY <1>4, <1>14, <2>1 DEF KernelArgSend, ArgLeft
<1>15. CASE KernelArgFetch \/ HostTaskFetch
  <2>1. ArgTile \in Tiles /\ UNCHANGED main /\ main.pc # "synchronize"
    BY <1>15, ArgumentsTyped
       DEF KernelArgFetch, HostTaskFetch, ArgLeft, CtrlInv, MainInv
  <2>2. \E d \in ValidImpls(ArgTile) : MoveFromInner(d, ArgTile)
    BY <1>15, FirstIsMember
       DEF KernelArgFetch, HostTaskFetch, FetchImpls, ValidImpls
  <2>3. \E d \in Ctrl : MoveFromInner(d, ArgTile)
    BY <2>2 DEF ValidImpls
  <2>. QED
    BY <1>4, <2>1, <2>3
<1>16. CASE KernelArgWait \/ HostTaskArgWait
  <2>1. /\ jobs' = jobs /\ main'.args = main.args /\ main'.pc = main.pc
        /\ main.pc # "synchronize"
    BY <1>16
       DEF KernelArgWait, HostTaskArgWait, NextArg, ArgLeft, CtrlInv, MainInv,
           MainState
  <2>. QED
    BY <2>1 DEF SynchronizeInv
<1>17. CASE KernelPush
  <2>. DEFINE c == main.ctrl
              s == <<c, "kernel">>
              reads == {DeviceBuffer(c, t) : t \in Ins(main.args)}
              writes == {DeviceBuffer(c, t) : t \in Outs(main.args)}
  <2>1. Push(s, reads, writes, SyncWait) /\ main'.pc = "idle"
    BY <1>17 DEF KernelPush, Idle
  <2>2. reads \cup writes # {}
    <3>1. main.args # <<>> /\ main.args \in Seq([tile : Tiles, role : Role])
      BY <1>17, BasicFacts DEF SynchronizeInv, KernelPush
    <3>2. 1 \in DOMAIN main.args
      BY <3>1, SMT
    <3>3. main.args[1].tile \in Ins(main.args) \cup Outs(main.args)
      BY <3>2 DEF Ins, Outs
    <3>. QED
      BY <3>3
  <2>. HIDE DEF s, reads, writes
  <2>. QED
    BY <1>3, <2>1, <2>2
<1>18. CASE HostTaskPush
  <2>1. HostStream[2] # "kernel"
    BY DEF HostStream
  <2>2. main'.pc \in {"idle", "wait"}
    BY <1>18 DEF HostTaskPush, Idle
  <2>3. \E reads, writes : Push(HostStream, reads, writes, SyncWait)
    BY <1>18 DEF HostTaskPush
  <2>. QED
    BY <1>3, <2>1, <2>2, <2>3
<1>19. CASE \E s \in Stream : StreamStep(s)
  BY <1>1, <1>19 DEF StreamStep, StartJob, FinishJob, Finished
<1>20. CASE Call
  BY <1>6, <1>7, <1>8, <1>9, <1>10, <1>11, <1>12, <1>20 DEF Call
<1>21. CASE Continue
  BY <1>13, <1>14, <1>15, <1>16, <1>17, <1>18, <1>21 DEF Continue
<1>. QED
  BY <1>5, <1>19, <1>20, <1>21 DEF Next

\* "Wait for all operations to finish": Ctrl_Synchronize does, if readers of
\* host memory share a stream and no kernel goes without arguments.
THEOREM SynchronizeIsComplete ==
  ASSUME HostReadersTracked, KernelsHaveArguments
  PROVE  Spec /\ [][QuietAttach]_vars => SynchronizeCompletes
<1>1. ASSUME CtrlInv, CpuOrderInv, SynchronizeInv, [Next]_vars,
             Returns({"synchronize"})
      PROVE  main.scope \subseteq done
  <2>1. main.events \subseteq done
    BY <1>1, ReturnsWhenDone DEF Returns, Blocked
  <2>2. ASSUME NEW n \in main.scope PROVE n \in done
    <3>1. Covered(jobs, done, n, main.events)
      BY <1>1 DEF SynchronizeInv, Returns
    <3>2. ClosedIn(jobs, done) /\ done \in SUBSET DOMAIN jobs
      BY <1>1, DoneIsClosed DEF CpuOrderInv, CtrlInv, ExecInv
    <3>. QED
      BY <2>1, <3>1, <3>2 DEF Covered, Before
  <2>. QED
    BY <2>2
<1>2. CtrlInv /\ CpuOrderInv /\ SynchronizeInv /\ [Next]_vars
        => [Returns({"synchronize"}) => main.scope \subseteq done]_vars
  BY <1>1
<1>3. CtrlInv /\ CtrlInv' /\ CpuOrderInv /\ CpuOrderInv' /\ SynchronizeInv
        /\ [Next]_vars => SynchronizeInv'
  BY StepKeepsSynchronize
<1>4. Init => SynchronizeInv
  <2>1. ASSUME Init PROVE DOMAIN jobs = {} /\ main.pc = "idle"
    BY <2>1, SMT DEF Init, Idle
  <2>. QED
    BY <2>1 DEF SynchronizeInv
<1>. QED
  BY <1>2, <1>3, <1>4, OrderInvariant, CtrlInvariant, PTL
     DEF Spec, SynchronizeCompletes
-----------------------------------------------------------------------------
\* Under the SYNC policy every job waits for the one before it, which the main
\* thread keeps in seq_event or, after a host task, has waited for itself.
SerialInv ==
  Policy = "SYNC" =>
    /\ main.pc = "kernel" => main.args # <<>>
    /\ \/ Len(jobs) \in {0} \cup done \cup {seq_event[c] : c \in Ctrl}
       \/ main.pc = "wait" /\ main.events = {Len(jobs)}
    /\ \A n \in DOMAIN jobs : n = 1 \/ n - 1 \in jobs[n].waits \cup done
    /\ \A n \in Started : 1 .. n - 1 \subseteq done

\* A push under the SYNC policy waits for the job before it, if the main
\* thread is not about to wait for that job itself.
LEMMA PushIsSerial ==
  ASSUME CtrlInv, CtrlInv', SerialInv, Policy = "SYNC", main.pc # "wait",
         NEW s, NEW reads, NEW writes, NEW events,
         Push(s, reads, writes, events), SyncWait \subseteq events,
         UNCHANGED execVars
  PROVE  /\ \A n \in DOMAIN jobs' : n = 1 \/ n - 1 \in jobs'[n].waits \cup done'
         /\ \A n \in Started' : 1 .. n - 1 \subseteq done'
         /\ Len(jobs') = Ticket
<1>1. /\ Ticket = Len(jobs) + 1 /\ Len(jobs') = Ticket
      /\ DOMAIN jobs' = DOMAIN jobs \cup {Ticket}
      /\ \A n \in DOMAIN jobs : jobs'[n] = jobs[n]
      /\ jobs'[Ticket].waits = (pending[s] \cup events) \ {0}
  BY PushAppends
<1>2. done' = done /\ Started' = Started
  BY DEF execVars, Started
<1>3. Ticket = 1 \/ Ticket - 1 \in jobs'[Ticket].waits \cup done
  <2>1. Len(jobs) \in Nat /\ Ticket - 1 = Len(jobs)
    BY <1>1, BasicFacts, SMT
  <2>2. CASE Len(jobs) = 0
    BY <1>1, <2>2
  <2>3. CASE Len(jobs) \in done
    BY <2>1, <2>3
  <2>4. CASE Len(jobs) # 0 /\ Len(jobs) \in {seq_event[c] : c \in Ctrl}
    <3>1. Len(jobs) \in SyncWait
      BY <2>4 DEF SyncWait
    <3>. QED
      BY <1>1, <2>1, <2>4, <3>1
  <2>. QED
    BY <2>2, <2>3, <2>4 DEF SerialInv
<1>4. \A n \in DOMAIN jobs : n = 1 \/ n - 1 \in jobs'[n].waits \cup done
  BY <1>1 DEF SerialInv
<1>. QED
  BY <1>1, <1>2, <1>3, <1>4 DEF SerialInv

\* Transfers and kernels leave their event in seq_event, host tasks are
\* waited for, and a job that starts finds every earlier one finished.
LEMMA StepKeepsSerial ==
  ASSUME CtrlInv, CtrlInv', SerialInv, KernelsHaveArguments, [Next]_vars
  PROVE  SerialInv'
<1>. SUFFICES ASSUME Policy = "SYNC" PROVE SerialInv'
  BY DEF SerialInv
<1>1. ASSUME UNCHANGED <<jobs, seq_event, seen, done>>,
             main.pc # "wait" \/ main' = main,
             main'.pc = "kernel" => main'.args # <<>>
      PROVE  SerialInv'
  <2>1. Started' = Started
    BY <1>1 DEF Started
  <2>. QED
    BY <1>1, <2>1 DEF SerialInv
<1>2. ASSUME NEW s, NEW reads, NEW writes, NEW events,
             Push(s, reads, writes, events), SyncWait \subseteq events,
             UNCHANGED execVars, main.pc # "wait", NEW c \in Ctrl,
             RecordSeq(c), main' = main \/ main' = Idle
      PROVE  SerialInv'
  <2>1. /\ \A n \in DOMAIN jobs' : n = 1 \/ n - 1 \in jobs'[n].waits \cup done'
        /\ \A n \in Started' : 1 .. n - 1 \subseteq done'
        /\ Len(jobs') = Ticket
    BY <1>2, PushIsSerial
  <2>2. seq_event'[c] = Ticket
    BY <1>2 DEF RecordSeq, CtrlInv, EventsInv, EventsUpTo
  <2>3. Len(jobs') \in {seq_event'[d] : d \in Ctrl}
    BY <2>1, <2>2, <1>2
  <2>4. main'.pc = "kernel" => main'.args # <<>>
    BY <1>2 DEF SerialInv, Idle
  <2>. QED
    BY <2>1, <2>3, <2>4 DEF SerialInv
<1>3. ASSUME NEW c \in Ctrl, NEW t \in Tiles,
             MoveToInner(c, t) \/ MoveFromInner(c, t), UNCHANGED main,
             main.pc # "wait"
      PROVE  SerialInv'
  <2>1. \E s, reads, writes, events :
          Push(s, reads, writes, events) /\ SyncWait \subseteq events
    BY <1>3 DEF MoveToInner, MoveFromInner
  <2>2. RecordSeq(c) /\ UNCHANGED execVars
    BY <1>3 DEF MoveToInner, MoveFromInner
  <2>. QED
    BY <1>2, <1>3, <2>1, <2>2
<1>4. CASE UNCHANGED vars
  BY <1>1, <1>4 DEF vars, execVars, ctrlVars, SerialInv
<1>5. CASE \E c \in Ctrl, t \in Tiles : MoveTo(c, t) \/ MoveFrom(c, t)
  BY <1>3, <1>5 DEF MoveTo, MoveFrom, CanCall
<1>6. CASE \/ \E c \in Ctrl, t \in Tiles : WaitTile(c, t)
           \/ \E c \in Ctrl : GlobalSync(c)
           \/ Synchronize
  BY <1>1, <1>6
     DEF WaitTile, GlobalSync, Synchronize, Block, Idle, execVars, ctrlVars
<1>7. CASE \/ \E c \in Ctrl, t \in Tiles, flags \in AllocFlags :
                AllocTile(c, t, flags)
           \/ \E c \in Ctrl, m \in Modes : SetDependanceMode(c, m)
  <2>1. \A c, t, flags : AllocTile(c, t, flags) =>
          UNCHANGED <<jobs, main, ctrlVars, execVars>>
    BY AllocLeaves
  <2>2. \A c, m : SetDependanceMode(c, m) =>
          UNCHANGED <<jobs, main, seq_event, execVars>>
    BY Zenon DEF SetDependanceMode
  <2>3. UNCHANGED <<jobs, seq_event, seen, done>> /\ UNCHANGED main
    BY <1>7, <2>1, <2>2 DEF execVars, ctrlVars
  <2>. QED
    BY <1>1, <2>3 DEF SerialInv
<1>8. CASE \/ \E c \in Ctrl, args \in Accesses : KernelLaunch(c, args)
           \/ \E args \in Accesses : LaunchHostTask(args)
  <2>1. UNCHANGED <<jobs, seq_event, seen, done>> /\ main.pc # "wait"
    BY <1>8 DEF KernelLaunch, LaunchHostTask, CanCall, execVars, ctrlVars
  <2>2. main'.pc = "kernel" => main'.args # <<>>
    BY <1>8 DEF KernelLaunch, LaunchHostTask, Idle, KernelsHaveArguments
  <2>. QED
    BY <1>1, <2>1, <2>2
<1>9. CASE Unblock
  <2>1. /\ UNCHANGED <<jobs, seq_event, seen, done>> /\ main'.pc = "idle"
        /\ main.events \subseteq done
    BY <1>9 DEF Unblock, Idle, execVars, ctrlVars
  <2>2. Len(jobs) \in {0} \cup done \cup {seq_event[c] : c \in Ctrl}
    BY <2>1 DEF SerialInv
  <2>3. Started' = Started
    BY <2>1 DEF Started
  <2>. QED
    BY <2>1, <2>2, <2>3 DEF SerialInv
<1>10. CASE KernelArgSend
  <2>1. main.ctrl \in Ctrl /\ ArgTile \in Tiles
    BY <1>10, ArgumentsTyped DEF KernelArgSend, ArgLeft, CtrlInv, MainInv
  <2>. QED
    BY <1>3, <1>10, <2>1 DEF KernelArgSend, ArgLeft
<1>11. CASE KernelArgFetch \/ HostTaskFetch
  <2>1. ArgTile \in Tiles /\ UNCHANGED main /\ main.pc # "wait"
    BY <1>11, ArgumentsTyped
       DEF KernelArgFetch, HostTaskFetch, ArgLeft, CtrlInv, MainInv
  <2>2. \E d \in ValidImpls(ArgTile) : MoveFromInner(d, ArgTile)
    BY <1>11, FirstIsMember
       DEF KernelArgFetch, HostTaskFetch, FetchImpls, ValidImpls
  <2>3. \E d \in Ctrl : MoveFromInner(d, ArgTile)
    BY <2>2 DEF ValidImpls
  <2>. QED
    BY <1>3, <2>1, <2>3
<1>12. CASE KernelArgWait \/ HostTaskArgWait
  <2>1. /\ UNCHANGED <<jobs, seq_event, seen, done>> /\ main.pc # "wait"
        /\ main'.args = main.args /\ main'.pc = main.pc
    BY <1>12
       DEF KernelArgWait, HostTaskArgWait, NextArg, ArgLeft, CtrlInv, MainInv,
           MainState, execVars, ctrlVars
  <2>. QED
    BY <1>1, <2>1 DEF SerialInv
<1>13. CASE KernelPush
  <2>1. main.pc = "kernel" /\ main.args # <<>> /\ main.ctrl \in Ctrl
    BY <1>13 DEF KernelPush, SerialInv, CtrlInv, MainInv
  <2>2. /\ RecordSeq(main.ctrl) /\ main' = Idle /\ UNCHANGED execVars
        /\ \E s, reads, writes : Push(s, reads, writes, SyncWait)
    BY <1>13, <2>1 DEF KernelPush
  <2>. QED
    BY <1>2, <2>1, <2>2
<1>14. CASE HostTaskPush
  <2>1. /\ \E reads, writes : Push(HostStream, reads, writes, SyncWait)
        /\ main.pc # "wait" /\ UNCHANGED execVars
        /\ main'.pc = "wait" /\ main'.events = {Ticket}
    BY <1>14 DEF HostTaskPush, Idle
  <2>2. /\ \A n \in DOMAIN jobs' : n = 1 \/ n - 1 \in jobs'[n].waits \cup done'
        /\ \A n \in Started' : 1 .. n - 1 \subseteq done'
        /\ Len(jobs') = Ticket
    BY <2>1, PushIsSerial
  <2>. QED
    BY <2>1, <2>2 DEF SerialInv
<1>15. ASSUME NEW n \in DOMAIN jobs, StartJob(n)
       PROVE  SerialInv'
  <2>1. /\ UNCHANGED <<jobs, main, seq_event, done>>
        /\ jobs[n].waits \subseteq done /\ Started' = Started \cup {n}
    BY <1>15 DEF StartJob, Started, ctrlVars
  <2>2. 1 .. n - 1 \subseteq done
    <3>1. n \in Nat \ {0} /\ done \subseteq Started
      BY BasicFacts, SMT DEF CtrlInv, ExecInv
    <3>2. CASE n = 1
      BY <3>2, SMT
    <3>3. CASE n # 1
      <4>1. n - 1 \in done
        BY <2>1, <3>3 DEF SerialInv
      <4>2. 1 .. (n - 1) - 1 \subseteq done
        BY <3>1, <4>1 DEF SerialInv
      <4>. QED
        BY <3>1, <4>1, <4>2, SMT
    <3>. QED
      BY <3>2, <3>3
  <2>. QED
    BY <2>1, <2>2 DEF SerialInv
<1>16. ASSUME NEW n \in DOMAIN jobs, FinishJob(n)
       PROVE  SerialInv'
  <2>1. /\ UNCHANGED <<jobs, main, seq_event, seen>> /\ done \subseteq done'
    BY <1>16 DEF FinishJob, Finished, ctrlVars
  <2>2. Started' = Started
    BY <2>1 DEF Started
  <2>. QED
    BY <2>1, <2>2 DEF SerialInv
<1>17. CASE \E s \in Stream : StreamStep(s)
  BY <1>15, <1>16, <1>17 DEF StreamStep
<1>18. CASE Call
  BY <1>5, <1>6, <1>7, <1>8, <1>18 DEF Call
<1>19. CASE Continue
  BY <1>9, <1>10, <1>11, <1>12, <1>13, <1>14, <1>19 DEF Continue
<1>. QED
  BY <1>4, <1>17, <1>18, <1>19 DEF Next

\* The SYNC policy serializes the jobs of every program whose kernels have
\* arguments, whatever its transfers and the number of ctrls.
THEOREM SerialInvariant ==
  ASSUME KernelsHaveArguments PROVE Spec => []SerialInv
<1>1. ASSUME Init PROVE SerialInv
  <2>1. Len(jobs) = 0 /\ DOMAIN jobs = {}
    BY <1>1, SMT DEF Init
  <2>2. Started = {}
    BY <1>1, SMT DEF Init, Started
  <2>. QED
    BY <1>1, <2>1, <2>2 DEF SerialInv, Init, Idle
<1>2. CtrlInv /\ CtrlInv' /\ SerialInv /\ [Next]_vars => SerialInv'
  BY StepKeepsSerial
<1>. QED
  BY <1>1, <1>2, CtrlInvariant, PTL DEF Spec

\* CTRL_POLICY_SYNC: "no task overlapping".
THEOREM SyncRunsOneJob ==
  ASSUME KernelsHaveArguments PROVE Spec => []NoOverlap
<1>1. ASSUME CtrlInv, SerialInv PROVE NoOverlap
  <2>. SUFFICES ASSUME Policy = "SYNC", NEW m \in Started \ done,
                       NEW n \in Started \ done
                PROVE  m = n
    BY DEF NoOverlap
  <2>1. m \in Nat \ {0} /\ n \in Nat \ {0}
    BY <1>1, BasicFacts, SMT DEF CtrlInv, ExecInv
  <2>2. m \notin 1 .. n - 1 /\ n \notin 1 .. m - 1
    BY <1>1 DEF SerialInv
  <2>. QED
    BY <2>1, <2>2, SMT
<1>. QED
  BY <1>1, CtrlInvariant, SerialInvariant, PTL

\* Under the SYNC policy there is no data race, whoever reads host memory and
\* whenever tiles are attached.
THEOREM SyncOrdersAccesses ==
  ASSUME KernelsHaveArguments, Policy = "SYNC"
  PROVE  Spec => []DependencesHonoured
<1>1. ASSUME SerialInv PROVE DependencesHonoured
  BY <1>1 DEF SerialInv, DependencesHonoured
<1>. QED
  BY <1>1, SerialInvariant, PTL
-----------------------------------------------------------------------------
(* The versions of a tile along a sequence J of jobs.                      *)

\* The tasks before n that write tile t.
Writing(J, n, t) ==
  {m \in DOMAIN J : TaskJob(J[m]) /\ m < n /\ t \in TilesIn(J[m].writes)}

\* The version of t before n: the last of them, 0 for none.
Last(S) == IF S = {} THEN 0 ELSE CHOOSE m \in S : \A k \in S : k <= m
Version(J, n, t) == Last(Writing(J, n, t))

\* The version of t that job m leaves in a buffer: a transfer leaves the one
\* before it.
Produced(J, m, t) == IF TaskJob(J[m]) THEN m ELSE Version(J, m, t)

\* Buffer b has got that version when the jobs before n are done: the task that
\* produced it wrote b, or a later transfer did.
Fresh(J, n, b) ==
  \/ Version(J, n, b[2]) = 0
  \/ \E m \in DOMAIN J : /\ Version(J, n, b[2]) <= m /\ m < n
                         /\ b \in J[m].writes

(* What the theorems assume of a program.                                  *)

\* Arguments of one launch are distinct tiles.
ArgumentsDistinct ==
  \A args \in Accesses : \A i, j \in DOMAIN args :
    args[i].tile = args[j].tile => i = j

\* The runtime transfers what tasks need, and the program asks for no transfer
\* that the library warns of.
TransfersImplicit == Modes \subseteq {"IMPLICIT"} /\ ~WarnedMoves

\* A version can get from any device to any other, through the host: a tile
\* with memory on a device has some on the host, or there is one device.
HostReachable ==
  \/ {"DEV"} \notin AllocFlags
  \/ \A c, d \in Ctrl : MemMoves[c] /\ MemMoves[d] => c = d

(* The invariant.                                                          *)

\* A transfer is of one tile.
OneTileInv ==
  \A n \in DOMAIN jobs : TaskJob(jobs[n]) \/
    \A b, d \in Touched(jobs[n]) : b[2] = d[2]

\* Each job reads buffers that have the versions of their tiles.
ReadsFreshInv ==
  \A n \in DOMAIN jobs : \A b \in jobs[n].reads : Fresh(jobs, n, b)

\* The host task being launched writes t, and the statuses say so already.
Announced(t) ==
  main.pc = "hosttask" /\
    \E i \in DOMAIN main.args : /\ i < main.arg
                                /\ main.args[i].tile = t
                                /\ main.args[i].role # "IN"

\* The statuses tell which buffers have the version of a tile; one of them has.
CopiesInv ==
  \A t \in Tiles : ~Announced(t) =>
    /\ host_status[t] = "VALID" => Fresh(jobs, Ticket, HostBuffer(t))
    /\ \A c \in ValidImpls(t) : Fresh(jobs, Ticket, <<c, t>>)
    /\ \/ Version(jobs, Ticket, t) = 0
       \/ host_status[t] = "VALID"
       \/ ValidImpls(t) # {}

\* Of a tile announced, the host will have the one valid copy.
AnnouncedInv ==
  \A t \in Tiles : Announced(t) =>
    host_status[t] = "VALID" /\ ValidImpls(t) = {}

\* An input already looked at is where the task will read it.
InputsInv ==
  main.pc \in {"kernel", "hosttask"} =>
    \A i \in DOMAIN main.args :
      i < main.arg /\ main.args[i].role # "OUT"
        => Fresh(jobs, Ticket, LaunchBuffer(main.args[i].tile))

\* Tasks are launched on memory that is allocated.
AllocatedInv ==
  /\ \A ct \in Ctrl \X Tiles : device_status[ct] # "UNALLOC" =>
       /\ MemMoves[ct[1]]
       /\ {"DEV"} \notin AllocFlags => host_status[ct[2]] # "UNALLOC"
  /\ main.pc = "hosttask" =>
       \A i \in DOMAIN main.args : host_status[main.args[i].tile] # "UNALLOC"
  /\ main.pc = "kernel" =>
       \A i \in DOMAIN main.args :
         IF MemMoves[main.ctrl]
         THEN device_status[<<main.ctrl, main.args[i].tile>>] # "UNALLOC"
         ELSE host_status[main.args[i].tile] # "UNALLOC"

\* A job that started found the versions of its tiles, of finished tasks.
SeenInv ==
  \A n \in Started : \A b \in jobs[n].reads :
    seen[n][b] = Version(jobs, n, b[2]) /\ seen[n][b] \in done \cup {0}

\* A buffer has what the last job that finished writing it produced.
MemInv ==
  \A b \in Buffer :
    /\ mem[b] \in done \cup {0}
    /\ \/ mem[b] = 0 /\ \A k \in done : b \notin jobs[k].writes
       \/ \E m \in done : /\ b \in jobs[m].writes
                          /\ \A k \in done : b \in jobs[k].writes => k <= m
                          /\ mem[b] = Produced(jobs, m, b[2])

\* What the main thread keeps true as it pushes jobs.
PushedInv ==
  /\ OneTileInv
  /\ ReadsFreshInv
  /\ CopiesInv
  /\ AnnouncedInv
  /\ InputsInv
  /\ AllocatedInv

\* The inductive invariant.
DataflowInv == PushedInv /\ SeenInv /\ MemInv
-----------------------------------------------------------------------------
\* A set of naturals with a bound has a greatest element.
LEMMA NatMaximum ==
  ASSUME NEW S \in SUBSET Nat, S # {}, NEW N \in Nat, \A m \in S : m <= N
  PROVE  \E n \in S : \A m \in S : m <= n
<1>. DEFINE Bounds == {k \in Nat : \A m \in S : m <= k}
<1>1. PICK u \in Bounds : \A k \in Bounds : u <= k
  <2>1. N \in Bounds /\ Bounds \subseteq Nat
    OBVIOUS
  <2>. HIDE DEF Bounds
  <2>. QED
    BY <2>1, NatMinimum
<1>2. u \in Nat /\ \A m \in S : m <= u
  OBVIOUS
<1>3. ASSUME u \notin S PROVE FALSE
  <2>1. \A m \in S : m < u
    BY <1>2, <1>3, SMT
  <2>2. u - 1 \in Nat /\ \A m \in S : m <= u - 1
    <3>1. PICK m \in S : m < u
      BY <2>1
    <3>2. u \in Nat /\ m \in Nat
      BY <1>2
    <3>3. u - 1 \in Nat
      BY <3>1, <3>2, SMT
    <3>4. \A k \in S : k \in Nat /\ k < u
      BY <2>1
    <3>. HIDE DEF Bounds
    <3>. QED
      BY <3>2, <3>3, <3>4, SMT
  <2>3. u <= u - 1
    BY <1>1, <2>2
  <2>. QED
    BY <1>2, <2>3, SMT
<1>. QED
  BY <1>2, <1>3

\* The version of a tile is the greatest of the tasks that write it.
LEMMA VersionFacts ==
  ASSUME NEW J, DOMAIN J \subseteq Nat \ {0}, NEW n \in Nat, NEW t
  PROVE  /\ Version(J, n, t) \in Writing(J, n, t) \cup {0}
         /\ Version(J, n, t) \in Nat
         /\ \A k \in Writing(J, n, t) : k <= Version(J, n, t)
         /\ Version(J, n, t) = 0 <=> Writing(J, n, t) = {}
<1>. DEFINE S == Writing(J, n, t)
<1>1. S \subseteq DOMAIN J /\ \A m \in S : m < n
  BY DEF Writing
<1>2. CASE S = {}
  BY <1>2 DEF Version, Last
<1>3. CASE S # {}
  <2>1. S \in SUBSET Nat /\ \A m \in S : m <= n
    BY <1>1, SMT
  <2>. HIDE DEF S
  <2>2. \E m \in S : \A k \in S : k <= m
    BY <1>3, <2>1, NatMaximum
  <2>3. Version(J, n, t) = CHOOSE m \in S : \A k \in S : k <= m
    BY <1>3 DEF Version, Last, S
  <2>4. Version(J, n, t) \in S /\ \A k \in S : k <= Version(J, n, t)
    BY <2>2, <2>3
  <2>5. Version(J, n, t) \in Nat /\ Version(J, n, t) # 0
    BY <1>1, <2>4
  <2>. QED
    BY <1>3, <2>4, <2>5 DEF S
<1>. QED
  BY <1>2, <1>3

\* And whoever is the greatest of them is the version.
LEMMA VersionIs ==
  ASSUME NEW J, DOMAIN J \subseteq Nat \ {0}, NEW n \in Nat, NEW t,
         NEW w \in Nat, w \in Writing(J, n, t) \cup {0},
         \A k \in Writing(J, n, t) : k <= w
  PROVE  Version(J, n, t) = w
<1>1. /\ Version(J, n, t) \in Writing(J, n, t) \cup {0}
      /\ Version(J, n, t) \in Nat
      /\ \A k \in Writing(J, n, t) : k <= Version(J, n, t)
      /\ Version(J, n, t) = 0 <=> Writing(J, n, t) = {}
  BY VersionFacts
<1>2. w # 0 => Version(J, n, t) <= w /\ w <= Version(J, n, t)
  BY <1>1
<1>3. w = 0 => Version(J, n, t) = 0
  <2>1. ASSUME w = 0, NEW k \in Writing(J, n, t) PROVE FALSE
    <3>1. k \in Nat \ {0} /\ k <= 0
      BY <2>1 DEF Writing
    <3>. QED
      BY <3>1, SMT
  <2>. QED
    BY <1>1, <2>1
<1>. QED
  BY <1>1, <1>2, <1>3, SMT

\* One more job changes none of the versions before it.
LEMMA VersionsKept ==
  ASSUME NEW J, NEW K, NEW N \in Nat \ {0}, DOMAIN J = 1 .. N - 1,
         DOMAIN K = 1 .. N, \A n \in DOMAIN J : K[n] = J[n]
  PROVE  /\ \A n \in 1 .. N : \A t : Version(K, n, t) = Version(J, n, t)
         /\ \A n \in 1 .. N : \A b : Fresh(K, n, b) <=> Fresh(J, n, b)
<1>1. /\ DOMAIN J \subseteq Nat \ {0} /\ DOMAIN K \subseteq Nat \ {0}
      /\ N + 1 \in Nat /\ N \in DOMAIN K /\ N < N + 1
      /\ \A n \in DOMAIN K : n <= N /\ n < N + 1
      /\ \A n \in DOMAIN J : n < N /\ n < N + 1
      /\ \A n \in 1 .. N, m \in DOMAIN K : m < n => m \in DOMAIN J
      /\ \A m \in DOMAIN K : m = N \/ m \in DOMAIN J
      /\ DOMAIN J \subseteq DOMAIN K /\ 1 .. N \subseteq Nat
  BY SMT
<1>2. \A n \in 1 .. N : \A t : Writing(K, n, t) = Writing(J, n, t)
  BY <1>1 DEF Writing
<1>3. \A n \in 1 .. N : \A t : Version(K, n, t) = Version(J, n, t)
  BY <1>2 DEF Version
<1>4. \A n \in 1 .. N : \A b : Fresh(K, n, b) <=> Fresh(J, n, b)
  <2>. SUFFICES ASSUME NEW n \in 1 .. N, NEW b
                PROVE  Fresh(K, n, b) <=> Fresh(J, n, b)
    OBVIOUS
  <2>1. Version(K, n, b[2]) = Version(J, n, b[2])
    BY <1>3
  <2>2. \A m : m \in DOMAIN K /\ m < n <=> m \in DOMAIN J /\ m < n
    BY <1>1
  <2>. QED
    BY <2>1, <2>2 DEF Fresh
<1>. QED
  BY <1>3, <1>4

\* A task makes itself the version of the tiles it writes, and the buffers a
\* job writes are fresh.
LEMMA VersionsPushed ==
  ASSUME NEW J, NEW K, NEW N \in Nat \ {0}, DOMAIN J = 1 .. N - 1,
         DOMAIN K = 1 .. N, \A n \in DOMAIN J : K[n] = J[n]
  PROVE  /\ \A t : Version(K, N + 1, t) =
              IF TaskJob(K[N]) /\ t \in TilesIn(K[N].writes) THEN N
              ELSE Version(J, N, t)
         /\ \A b \in K[N].writes : Fresh(K, N + 1, b)
         /\ \A b : /\ Fresh(J, N, b)
                   /\ ~TaskJob(K[N]) \/ b[2] \notin TilesIn(K[N].writes)
                   => Fresh(K, N + 1, b)
<1>1. /\ DOMAIN J \subseteq Nat \ {0} /\ DOMAIN K \subseteq Nat \ {0}
      /\ N + 1 \in Nat /\ N \in DOMAIN K /\ N < N + 1
      /\ \A n \in DOMAIN K : n <= N /\ n < N + 1
      /\ \A n \in DOMAIN J : n < N /\ n < N + 1
      /\ \A n \in 1 .. N, m \in DOMAIN K : m < n => m \in DOMAIN J
      /\ \A m \in DOMAIN K : m = N \/ m \in DOMAIN J
      /\ DOMAIN J \subseteq DOMAIN K /\ 1 .. N \subseteq Nat
  BY SMT
<1>5. ASSUME NEW t PROVE Version(K, N + 1, t) =
              IF TaskJob(K[N]) /\ t \in TilesIn(K[N].writes) THEN N
              ELSE Version(J, N, t)
  <2>1. CASE TaskJob(K[N]) /\ t \in TilesIn(K[N].writes)
    <3>1. N \in Writing(K, N + 1, t) /\ \A k \in Writing(K, N + 1, t) : k <= N
      BY <1>1, <2>1 DEF Writing
    <3>. QED
      BY <1>1, <2>1, <3>1, VersionIs
  <2>2. CASE ~(TaskJob(K[N]) /\ t \in TilesIn(K[N].writes))
    <3>1. Writing(K, N + 1, t) = Writing(J, N, t)
      BY <1>1, <2>2 DEF Writing
    <3>. QED
      BY <2>2, <3>1 DEF Version
  <2>. QED
    BY <2>1, <2>2
<1>6. \A t : Version(K, N + 1, t) <= N
  <2>1. \A t : Version(K, N + 1, t) \in Writing(K, N + 1, t) \cup {0}
    BY <1>1, VersionFacts
  <2>2. \A t : \A m \in Writing(K, N + 1, t) : m <= N
    BY <1>1 DEF Writing
  <2>3. 0 <= N
    BY SMT
  <2>. QED
    BY <2>1, <2>2, <2>3
<1>7. \A b \in K[N].writes : Fresh(K, N + 1, b)
  BY <1>1, <1>6 DEF Fresh
<1>8. ASSUME NEW b, Fresh(J, N, b),
             ~TaskJob(K[N]) \/ b[2] \notin TilesIn(K[N].writes)
      PROVE  Fresh(K, N + 1, b)
  <2>1. Version(K, N + 1, b[2]) = Version(J, N, b[2])
    BY <1>5, <1>8
  <2>. QED
    BY <1>1, <1>8, <2>1 DEF Fresh
<1>. QED
  BY <1>5, <1>7, <1>8

\* A transfer behind the task that produced a version finds that version.
LEMMA VersionStays ==
  ASSUME NEW J, DOMAIN J \subseteq Nat \ {0}, NEW n \in Nat, NEW t,
         NEW m \in DOMAIN J, m < n, ~TaskJob(J[m]), Version(J, n, t) <= m
  PROVE  Version(J, m, t) = Version(J, n, t)
<1>. DEFINE w == Version(J, n, t)
<1>1. /\ w \in Writing(J, n, t) \cup {0} /\ w \in Nat
      /\ \A k \in Writing(J, n, t) : k <= w
  BY VersionFacts
<1>2. w # m
  BY <1>1 DEF Writing
<1>3. m \in Nat /\ m # 0
  OBVIOUS
<1>. HIDE DEF w
<1>4. w < m
  BY <1>1, <1>2, <1>3, SMT DEF w
<1>5. Writing(J, m, t) \subseteq Writing(J, n, t)
  <2>1. \A k \in DOMAIN J : k < m => k < n
    BY <1>3, SMT
  <2>. QED
    BY <2>1 DEF Writing
<1>6. w \in Writing(J, m, t) \cup {0}
  BY <1>1, <1>4 DEF Writing
<1>. QED
  BY <1>1, <1>3, <1>5, <1>6, VersionIs DEF w
-----------------------------------------------------------------------------
(* The stream threads: ordered accesses find what the list of jobs says.   *)

\* When the writers of a fresh buffer before n have finished, and none behind
\* n has, memory holds the version of the tile.
LEMMA MemoryHasVersion ==
  ASSUME CtrlInv, MemInv, NEW n \in Nat, NEW b \in Buffer, Fresh(jobs, n, b),
         \A m \in DOMAIN jobs : m < n /\ b \in jobs[m].writes => m \in done,
         \A m \in done : b \in jobs[m].writes => m < n
  PROVE  mem[b] = Version(jobs, n, b[2])
<1>. DEFINE t == b[2]
            w == Version(jobs, n, t)
<1>1. DOMAIN jobs \subseteq Nat \ {0} /\ done \subseteq DOMAIN jobs
  BY BasicFacts, SMT
<1>2. /\ w \in Writing(jobs, n, t) \cup {0} /\ w \in Nat
      /\ \A k \in Writing(jobs, n, t) : k <= w
      /\ w = 0 <=> Writing(jobs, n, t) = {}
  BY <1>1, VersionFacts
<1>3. \/ w = 0
      \/ \E m \in DOMAIN jobs : w <= m /\ m < n /\ b \in jobs[m].writes
  BY DEF Fresh
<1>. HIDE DEF w
<1>4. CASE mem[b] = 0 /\ \A k \in done : b \notin jobs[k].writes
  BY <1>3, <1>4 DEF w
<1>5. ASSUME NEW m \in done, b \in jobs[m].writes,
             \A k \in done : b \in jobs[k].writes => k <= m,
             mem[b] = Produced(jobs, m, t)
      PROVE  mem[b] = w
  <2>1. m < n /\ m \in DOMAIN jobs /\ m \in Nat
    BY <1>1, <1>5
  <2>2. w <= m
    <3>1. CASE w = 0
      BY <2>1, <3>1, SMT
    <3>2. ASSUME NEW k \in DOMAIN jobs, w <= k, k < n, b \in jobs[k].writes
          PROVE  w <= m
      <4>1. k <= m /\ k \in Nat
        BY <1>1, <1>5, <3>2
      <4>. QED
        BY <1>2, <2>1, <3>2, <4>1, SMT
    <3>. QED
      BY <1>3, <3>1, <3>2
  <2>3. CASE TaskJob(jobs[m])
    <3>1. m \in Writing(jobs, n, t)
      BY <1>5, <2>1, <2>3 DEF Writing, TilesIn
    <3>2. m <= w
      BY <1>2, <3>1
    <3>. QED
      BY <1>2, <1>5, <2>1, <2>2, <2>3, <3>2, SMT DEF Produced
  <2>4. CASE ~TaskJob(jobs[m])
    <3>1. Version(jobs, m, t) = w
      BY <1>1, <2>1, <2>2, <2>4, VersionStays DEF w
    <3>. QED
      BY <1>5, <2>4, <3>1 DEF Produced
  <2>. QED
    BY <2>3, <2>4
<1>. QED
  BY <1>4, <1>5 DEF MemInv, w

\* What a job finds in the buffers it reads when it starts.
LEMMA StartFindsVersions ==
  ASSUME CtrlInv, DataflowInv, DependencesHonoured',
         NEW n \in DOMAIN jobs, StartJob(n)
  PROVE  \A b \in jobs[n].reads :
           /\ mem[b] = Version(jobs, n, b[2])
           /\ mem[b] \in done \cup {0}
<1>1. /\ DOMAIN jobs \subseteq Nat \ {0} /\ done \subseteq Started
      /\ Started \subseteq DOMAIN jobs
      /\ \A m \in DOMAIN jobs : 1 .. m - 1 \subseteq DOMAIN jobs
      /\ \A k, m \in DOMAIN jobs : k < m => k \in 1 .. m - 1
  <2>1. DOMAIN jobs = 1 .. Len(jobs) /\ Len(jobs) \in Nat
    BY BasicFacts
  <2>2. done \subseteq Started /\ Started \subseteq DOMAIN jobs
    BY DEF CtrlInv, ExecInv
  <2>. QED
    BY <2>1, <2>2, SMT
<1>2. /\ n \notin Started /\ UNCHANGED <<jobs, done>>
      /\ n \in Started' /\ Started \subseteq Started'
  BY DEF StartJob, Started
<1>. SUFFICES ASSUME NEW b \in jobs[n].reads
              PROVE  /\ mem[b] = Version(jobs, n, b[2])
                     /\ mem[b] \in done \cup {0}
  OBVIOUS
<1>3. b \in Buffer
  <2>1. jobs[n] \in Job
    BY SMT DEF CtrlInv, JobsInv
  <2>. QED
    BY <2>1, SMT DEF Job
<1>4. ASSUME NEW m \in DOMAIN jobs, m < n, b \in jobs[m].writes
      PROVE  m \in done
  <2>1. m \in 1 .. n - 1
    BY <1>1, <1>4
  <2>2. Conflict(m, n)'
    BY <1>2, <1>4 DEF Conflict
  <2>. QED
    BY <1>2, <2>1, <2>2 DEF DependencesHonoured
<1>5. ASSUME NEW m \in done, b \in jobs[m].writes
      PROVE  m < n
  <2>1. m # n /\ m \in DOMAIN jobs /\ m \in Started'
    BY <1>1, <1>2
  <2>2. CASE n < m
    <3>1. n \in 1 .. m - 1
      BY <1>1, <2>1, <2>2
    <3>2. Conflict(n, m)'
      BY <1>2, <1>5 DEF Conflict
    <3>3. n \in done'
      BY <2>1, <3>1, <3>2 DEF DependencesHonoured
    <3>. QED
      BY <1>1, <1>2, <3>3
  <2>3. m \in Nat /\ n \in Nat
    BY <1>1, <2>1
  <2>. QED
    BY <2>1, <2>2, <2>3, SMT
<1>6. Fresh(jobs, n, b)
  BY DEF DataflowInv, PushedInv, ReadsFreshInv
<1>7. n \in Nat
  BY <1>1
<1>8. mem[b] \in done \cup {0}
  BY <1>3 DEF DataflowInv, MemInv
<1>. QED
  BY <1>3, <1>4, <1>5, <1>6, <1>7, <1>8, MemoryHasVersion DEF DataflowInv

\* Starting a job keeps what jobs saw and what memory holds.
LEMMA StartKeepsVersions ==
  ASSUME CtrlInv, DataflowInv, DependencesHonoured',
         NEW n \in DOMAIN jobs, StartJob(n)
  PROVE  SeenInv' /\ MemInv'
<1>1. UNCHANGED <<jobs, done, mem>>
  BY DEF StartJob
<1>2. MemInv'
  BY <1>1 DEF DataflowInv, MemInv
<1>3. /\ Started' = Started \cup {n} /\ n \notin Started
      /\ \A m \in Started : seen'[m] = seen[m]
      /\ \A b \in jobs[n].reads : seen'[n][b] = mem[b]
  BY DEF StartJob, Started
<1>4. \A b \in jobs[n].reads :
        mem[b] = Version(jobs, n, b[2]) /\ mem[b] \in done \cup {0}
  BY StartFindsVersions
<1>5. SeenInv'
  BY <1>1, <1>3, <1>4 DEF DataflowInv, SeenInv
<1>. QED
  BY <1>2, <1>5

\* A job that finishes produces the version it stands for.
LEMMA FinishProduces ==
  ASSUME CtrlInv, OneTileInv, SeenInv, NEW n \in Started,
         NEW b \in jobs[n].writes
  PROVE  /\ Result(n) = Produced(jobs, n, b[2])
         /\ Result(n) \in done \cup {n, 0}
<1>1. n \in DOMAIN jobs
  BY DEF CtrlInv, ExecInv
<1>2. CASE TaskJob(jobs[n])
  BY <1>2 DEF Result, IsTask, TaskJob, Produced
<1>3. CASE ~TaskJob(jobs[n])
  <2>1. jobs[n].reads # {}
    BY <1>1, <1>3 DEF CtrlInv, JobsInv, IsTask, TaskJob
  <2>2. PICK d \in jobs[n].reads : d = CHOOSE e \in jobs[n].reads : TRUE
    BY <2>1
  <2>3. Result(n) = seen[n][d]
    BY <1>3, <2>2 DEF Result, IsTask, TaskJob
  <2>4. d[2] = b[2]
    BY <1>1, <1>3 DEF OneTileInv, Touched
  <2>. QED
    BY <1>3, <2>3, <2>4 DEF SeenInv, Produced
<1>. QED
  BY <1>2, <1>3

\* Finishing a job keeps what jobs saw and what memory holds.
LEMMA FinishKeepsVersions ==
  ASSUME CtrlInv, DataflowInv, DependencesHonoured,
         NEW n \in DOMAIN jobs, FinishJob(n)
  PROVE  SeenInv' /\ MemInv'
<1>1. /\ UNCHANGED <<jobs, seen>> /\ done' = done \cup {n}
      /\ n \in Started /\ n \notin done
  BY DEF FinishJob, Finished
<1>2. SeenInv'
  BY <1>1 DEF DataflowInv, SeenInv, Started
<1>3. /\ \A b \in Buffer : b \notin jobs[n].writes => mem'[b] = mem[b]
      /\ \A b \in Buffer : b \in jobs[n].writes => mem'[b] = Result(n)
  BY DEF FinishJob
<1>4. ASSUME NEW k \in done, NEW b \in jobs[n].writes, b \in jobs[k].writes
      PROVE  k <= n
  <2>1. k \in Started /\ k \in Nat /\ n \in Nat \ {0}
    BY BasicFacts, SMT DEF CtrlInv, ExecInv
  <2>2. ASSUME n < k PROVE FALSE
    <3>1. n \in 1 .. k - 1
      BY <2>1, <2>2, SMT
    <3>2. Conflict(n, k)
      BY <1>4 DEF Conflict
    <3>. QED
      BY <1>1, <2>1, <3>1, <3>2 DEF DependencesHonoured
  <2>. QED
    BY <2>1, <2>2, SMT
<1>5. n \in Nat
  BY BasicFacts, SMT
<1>6. n <= n
  BY <1>5, SMT
<1>7. ASSUME NEW b \in Buffer
      PROVE  /\ mem'[b] \in done' \cup {0}
             /\ \/ mem'[b] = 0 /\ \A k \in done' : b \notin jobs[k].writes
                \/ \E m \in done' :
                     /\ b \in jobs[m].writes
                     /\ \A k \in done' : b \in jobs[k].writes => k <= m
                     /\ mem'[b] = Produced(jobs, m, b[2])
  <2>1. CASE b \in jobs[n].writes
    <3>1. /\ Result(n) = Produced(jobs, n, b[2])
          /\ Result(n) \in done \cup {n, 0}
      BY <1>1, <2>1, FinishProduces DEF DataflowInv, PushedInv
    <3>2. \A k \in done' : b \in jobs[k].writes => k <= n
      BY <1>1, <1>4, <1>6, <2>1
    <3>. QED
      BY <1>1, <1>3, <2>1, <3>1, <3>2
  <2>2. CASE b \notin jobs[n].writes
    BY <1>1, <1>3, <2>2 DEF DataflowInv, MemInv
  <2>. QED
    BY <2>1, <2>2
<1>8. MemInv'
  BY <1>1, <1>7 DEF MemInv
<1>. QED
  BY <1>2, <1>8

\* A push changes neither, and leaves the versions before it as they were.
LEMMA PushKeepsVersions ==
  ASSUME CtrlInv, CtrlInv', SeenInv, MemInv, UNCHANGED execVars,
         NEW s, NEW reads, NEW writes, NEW events,
         Push(s, reads, writes, events)
  PROVE  SeenInv' /\ MemInv'
<1>1. /\ DOMAIN jobs = 1 .. Ticket - 1 /\ DOMAIN jobs' = 1 .. Ticket
      /\ Ticket \in Nat \ {0} /\ \A n \in DOMAIN jobs : jobs'[n] = jobs[n]
      /\ DOMAIN jobs \subseteq 1 .. Ticket
  <2>1. /\ Ticket = Len(jobs) + 1 /\ Len(jobs') = Ticket
        /\ \A n \in DOMAIN jobs : jobs'[n] = jobs[n]
    BY PushAppends
  <2>2. /\ DOMAIN jobs = 1 .. Len(jobs) /\ Len(jobs) \in Nat
        /\ DOMAIN jobs' = 1 .. Len(jobs')
    BY SMT DEF CtrlInv, JobsInv
  <2>. QED
    BY <2>1, <2>2, SMT
<1>2. \A n \in 1 .. Ticket : \A t : Version(jobs', n, t) = Version(jobs, n, t)
  <2>. DEFINE J == jobs
              K == jobs'
              N == Ticket
  <2>1. /\ N \in Nat \ {0} /\ DOMAIN J = 1 .. N - 1 /\ DOMAIN K = 1 .. N
        /\ \A n \in DOMAIN J : K[n] = J[n]
    BY <1>1
  <2>. HIDE DEF J, K, N
  <2>2. \A n \in 1 .. N : \A t : Version(K, n, t) = Version(J, n, t)
    BY <2>1, VersionsKept
  <2>. QED
    BY <2>2 DEF J, K, N
<1>3. \A n \in DOMAIN jobs : \A t :
        /\ Version(jobs', n, t) = Version(jobs, n, t)
        /\ Produced(jobs', n, t) = Produced(jobs, n, t)
  BY <1>1, <1>2 DEF Produced
<1>4. UNCHANGED <<seen, done, mem>> /\ Started' = Started
  BY DEF execVars, Started
<1>5. Started \subseteq DOMAIN jobs /\ done \subseteq DOMAIN jobs
  BY DEF CtrlInv, ExecInv
<1>6. SeenInv'
  BY <1>1, <1>3, <1>4, <1>5 DEF SeenInv
<1>7. MemInv'
  BY <1>1, <1>3, <1>4, <1>5 DEF MemInv
<1>. QED
  BY <1>6, <1>7
-----------------------------------------------------------------------------
(* The main thread: what a push does to versions and copies.               *)

\* What a push does to the versions of tiles and to the buffers that have them.
VersionsAfter(s, reads, writes) ==
  /\ DOMAIN jobs' = DOMAIN jobs \cup {Ticket}
  /\ \A n \in DOMAIN jobs : jobs'[n] = jobs[n]
  /\ jobs'[Ticket].stream = s
  /\ jobs'[Ticket].reads = reads
  /\ jobs'[Ticket].writes = writes
  /\ \A n \in DOMAIN jobs' : \A b : Fresh(jobs', n, b) <=> Fresh(jobs, n, b)
  /\ \A t : s[2] \notin {"kernel", "host"} \/ t \notin TilesIn(writes)
       => Version(jobs', Ticket', t) = Version(jobs, Ticket, t)
  /\ \A b \in writes : Fresh(jobs', Ticket', b)
  /\ \A b : /\ Fresh(jobs, Ticket, b)
            /\ s[2] \notin {"kernel", "host"} \/ b[2] \notin TilesIn(writes)
            => Fresh(jobs', Ticket', b)

\* That is what a push does.
LEMMA PushVersions ==
  ASSUME CtrlInv, CtrlInv', NEW s, NEW reads, NEW writes, NEW events,
         Push(s, reads, writes, events)
  PROVE  VersionsAfter(s, reads, writes)
<1>. DEFINE job == [stream |-> s, reads |-> reads, writes |-> writes,
                    waits |-> (pending[s] \cup events) \ {0}]
            J == jobs
            K == jobs'
            N == Ticket
<1>1. jobs' = Append(jobs, job)
  BY DEF Push
<1>2. job.stream = s /\ job.reads = reads /\ job.writes = writes
  OBVIOUS
<1>. HIDE DEF job
<1>3. jobs \in Seq(Job) /\ jobs' \in Seq(Job)
  BY DEF CtrlInv, JobsInv
<1>4. /\ N \in Nat \ {0} /\ DOMAIN J = 1 .. N - 1 /\ DOMAIN K = 1 .. N
      /\ \A n \in DOMAIN J : K[n] = J[n]
      /\ DOMAIN K = DOMAIN J \cup {N}
      /\ K[N] = job /\ Ticket' = N + 1
  <2>1. /\ Ticket = Len(jobs) + 1 /\ Len(jobs') = Ticket
        /\ Ticket' = Len(jobs') + 1
        /\ \A n \in DOMAIN jobs : jobs'[n] = jobs[n]
        /\ jobs'[Ticket] = job
    BY <1>1, <1>3, SMT DEF Ticket
  <2>2. /\ DOMAIN jobs = 1 .. Len(jobs) /\ Len(jobs) \in Nat
        /\ DOMAIN jobs' = 1 .. Len(jobs')
    BY <1>3, SMT
  <2>. QED
    BY <2>1, <2>2, SMT
<1>. HIDE DEF J, K, N
<1>5. \A n \in 1 .. N : \A b : Fresh(K, n, b) <=> Fresh(J, n, b)
  BY <1>4, VersionsKept
<1>6. TaskJob(K[N]) <=> s[2] \in {"kernel", "host"}
  BY <1>2, <1>4 DEF TaskJob
<1>7. K[N].writes = writes
  BY <1>2, <1>4
<1>8. \A t : Version(K, N + 1, t) =
               IF TaskJob(K[N]) /\ t \in TilesIn(K[N].writes) THEN N
               ELSE Version(J, N, t)
  BY <1>4, VersionsPushed
<1>9. \A b \in K[N].writes : Fresh(K, N + 1, b)
  BY <1>4, VersionsPushed
<1>10. \A b : /\ Fresh(J, N, b)
              /\ ~TaskJob(K[N]) \/ b[2] \notin TilesIn(K[N].writes)
              => Fresh(K, N + 1, b)
  BY <1>4, VersionsPushed
<1>11. \A t : s[2] \notin {"kernel", "host"} \/ t \notin TilesIn(writes)
         => Version(K, N + 1, t) = Version(J, N, t)
  BY <1>6, <1>7, <1>8
<1>12. \A b \in writes : Fresh(K, N + 1, b)
  BY <1>7, <1>9
<1>13. \A b : /\ Fresh(J, N, b)
              /\ s[2] \notin {"kernel", "host"} \/ b[2] \notin TilesIn(writes)
              => Fresh(K, N + 1, b)
  BY <1>6, <1>7, <1>10
<1>. QED
  BY <1>2, <1>4, <1>5, <1>11, <1>12, <1>13 DEF VersionsAfter, J, K, N

\* A push of a job that reads what is fresh keeps the list of jobs right.
LEMMA ReadsKept ==
  ASSUME OneTileInv, ReadsFreshInv, NEW s, NEW reads, NEW writes,
         VersionsAfter(s, reads, writes),
         \A b \in reads : Fresh(jobs, Ticket, b),
         \/ s[2] \in {"kernel", "host"}
         \/ \A b, d \in reads \cup writes : b[2] = d[2]
  PROVE  OneTileInv' /\ ReadsFreshInv'
<1>1. OneTileInv'
  BY DEF OneTileInv, VersionsAfter, TaskJob, Touched
<1>2. ReadsFreshInv'
  <2>. SUFFICES ASSUME NEW n \in DOMAIN jobs', NEW b \in jobs'[n].reads
                PROVE  Fresh(jobs', n, b)
    BY DEF ReadsFreshInv
  <2>1. Fresh(jobs', n, b) <=> Fresh(jobs, n, b)
    BY DEF VersionsAfter
  <2>2. CASE n \in DOMAIN jobs
    BY <2>1, <2>2 DEF ReadsFreshInv, VersionsAfter
  <2>3. CASE n = Ticket
    BY <2>1, <2>3 DEF VersionsAfter
  <2>. QED
    BY <2>2, <2>3 DEF VersionsAfter
<1>. QED
  BY <1>1, <1>2

\* Where the statuses promise no copy, every buffer has the tile as it is.
LEMMA UnwrittenIsFresh ==
  ASSUME CopiesInv, NEW t \in Tiles, ~Announced(t), host_status[t] # "VALID",
         ValidImpls(t) = {}, NEW b, b[2] = t
  PROVE  Fresh(jobs, Ticket, b)
  BY DEF CopiesInv, Fresh

\* The arguments of a launch, and how far it has looked at them.
LEMMA ArgumentFacts ==
  ASSUME CtrlInv
  PROVE  /\ \A i \in DOMAIN main.args :
              main.args[i].tile \in Tiles /\ main.args[i].role \in Role
         /\ main.arg > Len(main.args) =>
              \A i \in DOMAIN main.args : i < main.arg
         /\ main.arg <= Len(main.args) => main.arg \in DOMAIN main.args
         /\ \A i \in DOMAIN main.args : /\ i < main.arg => i # main.arg
                                        /\ i < main.arg + 1 <=>
                                             i < main.arg \/ i = main.arg
<1>. DEFINE Arg == [tile : Tiles, role : Role]
<1>1. main.args \in Seq(Arg) /\ main.arg \in Nat \ {0}
  BY BasicFacts
<1>2. \A r \in Arg : r.tile \in Tiles /\ r.role \in Role
  OBVIOUS
<1>. HIDE DEF Arg
<1>3. \A i \in DOMAIN main.args : main.args[i] \in Arg /\ i \in 1 .. Len(main.args)
  BY <1>1, SMT
<1>4. Len(main.args) \in Nat /\ DOMAIN main.args = 1 .. Len(main.args)
  BY <1>1, SMT
<1>5. main.arg > Len(main.args) => \A i \in 1 .. Len(main.args) : i < main.arg
  BY <1>1, <1>4, SMT
<1>6. main.arg <= Len(main.args) => main.arg \in 1 .. Len(main.args)
  BY <1>1, <1>4, SMT
<1>7. \A i \in 1 .. Len(main.args) :
        /\ i < main.arg => i # main.arg
        /\ i < main.arg + 1 <=> i < main.arg \/ i = main.arg
  BY <1>1, <1>4, SMT
<1>. QED
  BY <1>2, <1>3, <1>4, <1>5, <1>6, <1>7

\* A transfer from a copy that has the version makes the other one have it.
LEMMA TransferKeepsCopies ==
  ASSUME CtrlInv, CtrlInv', PushedInv, NEW c \in Ctrl, NEW t \in Tiles,
         NEW s, NEW reads, NEW writes, NEW events,
         Push(s, reads, writes, events), s[2] \notin {"kernel", "host"},
         reads \cup writes = {HostBuffer(t), <<c, t>>},
         \A b \in reads : Fresh(jobs, Ticket, b),
         host_status' = [host_status EXCEPT ![t] = "VALID"],
         device_status' = [device_status EXCEPT ![<<c, t>>] = "VALID"],
         host_status[t] # "UNALLOC", device_status[<<c, t>>] # "UNALLOC",
         ~Announced(t), UNCHANGED main
  PROVE  PushedInv'
<1>1. VersionsAfter(s, reads, writes)
  BY PushVersions
<1>2. \A b : Fresh(jobs, Ticket, b) => Fresh(jobs', Ticket', b)
  BY <1>1 DEF VersionsAfter
<1>3. /\ Fresh(jobs', Ticket', HostBuffer(t))
      /\ Fresh(jobs', Ticket', <<c, t>>)
  BY <1>1, <1>2 DEF VersionsAfter
<1>4. HostBuffer(t)[2] = t /\ <<c, t>>[2] = t
  BY DEF HostBuffer
<1>5. OneTileInv' /\ ReadsFreshInv'
  BY <1>1, <1>4, ReadsKept DEF PushedInv
<1>6. /\ host_status \in [Tiles -> Status]
      /\ device_status \in [Ctrl \X Tiles -> Status]
  BY DEF CtrlInv, StatusInv
<1>7. /\ host_status'[t] = "VALID"
      /\ \A u \in Tiles : u # t => host_status'[u] = host_status[u]
      /\ \A d \in Ctrl, u \in Tiles : d # c \/ u # t
           => device_status'[<<d, u>>] = device_status[<<d, u>>]
      /\ device_status'[<<c, t>>] = "VALID"
  BY <1>6
<1>8. \A u : Announced(u)' = Announced(u)
  BY DEF Announced
<1>9. /\ ValidImpls(t)' = ValidImpls(t) \cup {c}
      /\ \A u \in Tiles : u # t => ValidImpls(u)' = ValidImpls(u)
  BY <1>7 DEF ValidImpls
<1>10. CopiesInv'
  <2>. SUFFICES ASSUME NEW u \in Tiles, ~Announced(u)'
                PROVE  /\ host_status'[u] = "VALID"
                            => Fresh(jobs', Ticket', HostBuffer(u))
                       /\ \A d \in ValidImpls(u)' : Fresh(jobs', Ticket', <<d, u>>)
                       /\ \/ Version(jobs', Ticket', u) = 0
                          \/ host_status'[u] = "VALID"
                          \/ ValidImpls(u)' # {}
    BY DEF CopiesInv
  <2>1. /\ host_status[u] = "VALID" => Fresh(jobs, Ticket, HostBuffer(u))
        /\ \A d \in ValidImpls(u) : Fresh(jobs, Ticket, <<d, u>>)
        /\ \/ Version(jobs, Ticket, u) = 0
           \/ host_status[u] = "VALID"
           \/ ValidImpls(u) # {}
    BY <1>8 DEF PushedInv, CopiesInv
  <2>2. CASE u = t
    BY <1>2, <1>3, <1>7, <1>9, <2>1, <2>2
  <2>3. CASE u # t
    <3>1. Version(jobs', Ticket', u) = Version(jobs, Ticket, u)
      BY <1>1 DEF VersionsAfter
    <3>. QED
      BY <1>2, <1>7, <1>9, <2>1, <2>3, <3>1
  <2>. QED
    BY <2>2, <2>3
<1>11. AnnouncedInv'
  BY <1>7, <1>8, <1>9 DEF PushedInv, AnnouncedInv
<1>12. InputsInv'
  <2>1. \A u : LaunchBuffer(u)' = LaunchBuffer(u)
    BY DEF LaunchBuffer
  <2>. QED
    BY <1>2, <2>1 DEF PushedInv, InputsInv
<1>13. AllocatedInv'
  <2>1. \A ct \in Ctrl \X Tiles : device_status'[ct] = "UNALLOC"
                                    <=> device_status[ct] = "UNALLOC"
    BY <1>6
  <2>2. \A u \in Tiles : host_status'[u] = "UNALLOC"
                           <=> host_status[u] = "UNALLOC"
    BY <1>6
  <2>3. \A i \in DOMAIN main.args : main.args[i].tile \in Tiles
    BY ArgumentFacts
  <2>4. main.pc = "kernel" => main.ctrl \in Ctrl
    BY DEF CtrlInv, MainInv
  <2>5. AllocatedInv
    BY DEF PushedInv
  <2>6. \A ct \in Ctrl \X Tiles : ct[2] \in Tiles
    OBVIOUS
  <2>. QED
    BY <2>1, <2>2, <2>3, <2>4, <2>5, <2>6 DEF AllocatedInv
<1>. QED
  BY <1>5, <1>10, <1>11, <1>12, <1>13 DEF PushedInv

\* The source of a transfer to a device: host memory, valid or never written.
LEMMA MoveToKeepsCopies ==
  ASSUME CtrlInv, CtrlInv', PushedInv, NEW c \in Ctrl, NEW t \in Tiles,
         MoveToInner(c, t), UNCHANGED main, ~Announced(t),
         device_status[<<c, t>>] # "UNALLOC", host_status[t] # "UNALLOC",
         host_status[t] = "VALID" \/ ValidImpls(t) = {}
  PROVE  PushedInv'
<1>1. MemMoves[c]
  BY DEF PushedInv, AllocatedInv
<1>2. DeviceBuffer(c, t) = <<c, t>> /\ HostBuffer(t)[2] = t
  BY <1>1 DEF DeviceBuffer, HostBuffer
<1>3. Fresh(jobs, Ticket, HostBuffer(t))
  <2>1. CASE host_status[t] = "VALID"
    BY <2>1 DEF PushedInv, CopiesInv
  <2>2. CASE host_status[t] # "VALID"
    BY <1>2, <2>2, UnwrittenIsFresh DEF PushedInv
  <2>. QED
    BY <2>1, <2>2
<1>. DEFINE reads == {HostBuffer(t)}
            writes == {DeviceBuffer(c, t)}
            events == MoveToWait(t)
              \cup {last_kernel_read[<<c, t>>], last_kernel_write[<<c, t>>],
                    last_host_write[t]}
              \cup SyncWait
<1>4. /\ Push(<<c, "moveTo">>, reads, writes, events)
      /\ host_status' = [host_status EXCEPT ![t] = "VALID"]
      /\ device_status' = [device_status EXCEPT ![<<c, t>>] = "VALID"]
  BY DEF MoveToInner
<1>5. /\ <<c, "moveTo">>[2] \notin {"kernel", "host"}
      /\ reads \cup writes = {HostBuffer(t), <<c, t>>}
      /\ \A b \in reads : Fresh(jobs, Ticket, b)
  BY <1>2, <1>3
<1>. HIDE DEF reads, writes, events
<1>. QED
  BY <1>4, <1>5, TransferKeepsCopies

\* The source of a transfer from a device: a valid copy.
LEMMA MoveFromKeepsCopies ==
  ASSUME CtrlInv, CtrlInv', PushedInv, NEW c \in Ctrl, NEW t \in Tiles,
         MoveFromInner(c, t), UNCHANGED main, ~Announced(t),
         host_status[t] # "UNALLOC", c \in ValidImpls(t)
  PROVE  PushedInv'
<1>1. device_status[<<c, t>>] = "VALID"
  BY DEF ValidImpls
<1>2. MemMoves[c]
  BY <1>1 DEF PushedInv, AllocatedInv
<1>3. DeviceBuffer(c, t) = <<c, t>>
  BY <1>2 DEF DeviceBuffer
<1>4. Fresh(jobs, Ticket, <<c, t>>)
  BY DEF PushedInv, CopiesInv
<1>. DEFINE reads == {DeviceBuffer(c, t)}
            writes == {HostBuffer(t)}
            events == {last_kernel_write[<<c, t>>], last_host_read[t],
                       last_host_write[t]} \cup SyncWait
<1>5. /\ Push(<<c, "moveFrom">>, reads, writes, events)
      /\ host_status' = [host_status EXCEPT ![t] = "VALID"]
      /\ device_status' = [device_status EXCEPT ![<<c, t>>] = "VALID"]
  BY DEF MoveFromInner
<1>6. /\ <<c, "moveFrom">>[2] \notin {"kernel", "host"}
      /\ reads \cup writes = {HostBuffer(t), <<c, t>>}
      /\ \A b \in reads : Fresh(jobs, Ticket, b)
  BY <1>3, <1>4
<1>7. device_status[<<c, t>>] # "UNALLOC"
  BY <1>1
<1>. HIDE DEF reads, writes, events
<1>. QED
  BY <1>5, <1>6, <1>7, TransferKeepsCopies
-----------------------------------------------------------------------------
(* The steps of the main thread.                                           *)

\* Explicit transfers that the library does not warn of.
LEMMA MovesKeepCopies ==
  ASSUME CtrlInv, CtrlInv', PushedInv, ~WarnedMoves,
         NEW c \in Ctrl, NEW t \in Tiles, MoveTo(c, t) \/ MoveFrom(c, t)
  PROVE  PushedInv'
<1>1. main.pc = "idle" /\ UNCHANGED main
  BY DEF MoveTo, MoveFrom, CanCall
<1>2. ~Announced(t)
  BY <1>1 DEF Announced
<1>3. host_status[t] \in Status /\ device_status[<<c, t>>] \in Status
  BY DEF CtrlInv, StatusInv
<1>4. CASE MoveTo(c, t)
  <2>1. /\ MoveToInner(c, t)
        /\ host_status[t] # "UNALLOC" /\ host_status[t] # "INVALID"
        /\ device_status[<<c, t>>] # "UNALLOC"
    BY <1>4 DEF MoveTo
  <2>2. host_status[t] = "VALID"
    BY <1>3, <2>1 DEF Status
  <2>. QED
    BY <1>1, <1>2, <2>1, <2>2, MoveToKeepsCopies
<1>5. CASE MoveFrom(c, t)
  <2>1. /\ MoveFromInner(c, t) /\ host_status[t] # "UNALLOC"
        /\ device_status[<<c, t>>] # "UNALLOC"
        /\ device_status[<<c, t>>] # "INVALID"
    BY <1>5 DEF MoveFrom
  <2>2. c \in ValidImpls(t)
    BY <1>3, <2>1 DEF Status, ValidImpls
  <2>. QED
    BY <1>1, <1>2, <2>1, <2>2, MoveFromKeepsCopies
<1>. QED
  BY <1>4, <1>5

\* The transfers of the inputs of a launch.
LEMMA ArgTransfersKeepCopies ==
  ASSUME CtrlInv, CtrlInv', PushedInv,
         KernelArgFetch \/ KernelArgSend \/ HostTaskFetch
  PROVE  PushedInv'
<1>1. main.arg <= Len(main.args) /\ UNCHANGED main
  BY DEF KernelArgFetch, KernelArgSend, HostTaskFetch, ArgLeft
<1>2. ArgTile \in Tiles /\ main.arg \in DOMAIN main.args
  BY <1>1, ArgumentsTyped, ArgumentFacts DEF CtrlInv
<1>3. CASE KernelArgFetch
  <2>1. PICK d \in ValidImpls(ArgTile) : MoveFromInner(d, ArgTile)
    BY <1>3, FirstIsMember DEF KernelArgFetch, ValidImpls
  <2>2. d \in Ctrl /\ host_status[ArgTile] # "UNALLOC" /\ main.pc = "kernel"
    BY <1>3 DEF KernelArgFetch, ValidImpls, ArgLeft
  <2>3. ~Announced(ArgTile)
    BY <2>2 DEF Announced
  <2>. QED
    BY <1>1, <1>2, <2>1, <2>2, <2>3, MoveFromKeepsCopies
<1>4. CASE KernelArgSend
  <2>1. /\ MoveToInner(main.ctrl, ArgTile) /\ main.pc = "kernel"
        /\ device_status[<<main.ctrl, ArgTile>>] # "UNALLOC"
        /\ host_status[ArgTile] # "UNALLOC"
        /\ host_status[ArgTile] = "INVALID" => ValidImpls(ArgTile) = {}
    BY <1>4 DEF KernelArgSend, KernelArgStale, ArgLeft
  <2>2. host_status[ArgTile] = "VALID" \/ ValidImpls(ArgTile) = {}
    <3>1. host_status[ArgTile] \in Status
      BY <1>2 DEF CtrlInv, StatusInv
    <3>. QED
      BY <2>1, <3>1 DEF Status
  <2>3. main.ctrl \in Ctrl /\ ~Announced(ArgTile)
    BY <2>1 DEF CtrlInv, MainInv, Announced
  <2>. QED
    BY <1>1, <1>2, <2>1, <2>2, <2>3, MoveToKeepsCopies
<1>5. CASE HostTaskFetch
  <2>1. PICK d \in FetchImpls(ArgTile) : MoveFromInner(d, ArgTile)
    BY <1>5, FirstIsMember DEF HostTaskFetch, FetchImpls, ValidImpls
  <2>2. d \in Ctrl /\ d \in ValidImpls(ArgTile) /\ host_status[ArgTile] = "INVALID"
    BY <1>5 DEF HostTaskFetch, FetchImpls, ValidImpls
  <2>3. ~Announced(ArgTile)
    BY <1>2, <2>2 DEF PushedInv, AnnouncedInv
  <2>. QED
    BY <1>1, <1>2, <2>1, <2>2, <2>3, MoveFromKeepsCopies
<1>. QED
  BY <1>3, <1>4, <1>5

\* With no launch under way, and copies as they were, nothing changes.
LEMMA IdleKeepsCopies ==
  ASSUME PushedInv, UNCHANGED <<jobs, host_status, device_status>>,
         main.pc \notin {"kernel", "hosttask"},
         main'.pc \notin {"kernel", "hosttask"}
  PROVE  PushedInv'
<1>1. OneTileInv' /\ ReadsFreshInv'
  BY DEF PushedInv, OneTileInv, ReadsFreshInv
<1>2. \A t : ~Announced(t) /\ ~Announced(t)'
  BY DEF Announced
<1>3. \A t : ValidImpls(t)' = ValidImpls(t)
  BY DEF ValidImpls
<1>4. CopiesInv'
  BY <1>2, <1>3 DEF PushedInv, CopiesInv, Ticket
<1>5. AnnouncedInv' /\ InputsInv'
  BY <1>2 DEF AnnouncedInv, InputsInv
<1>6. AllocatedInv'
  BY DEF PushedInv, AllocatedInv
<1>. QED
  BY <1>1, <1>4, <1>5, <1>6 DEF PushedInv

\* A launch starts on memory that is allocated, and has looked at no argument.
LEMMA LaunchKeepsCopies ==
  ASSUME CtrlInv, PushedInv, NEW args \in Accesses,
         LaunchHostTask(args) \/ \E c \in Ctrl : KernelLaunch(c, args)
  PROVE  PushedInv'
<1>1. /\ main.pc = "idle" /\ UNCHANGED <<jobs, host_status, device_status>>
      /\ main'.args = args /\ main'.arg = 1
  BY DEF LaunchHostTask, KernelLaunch, CanCall, tileVars, Idle
<1>2. \A i \in DOMAIN args : ~(i < 1)
  <2>1. args \in Seq([tile : Tiles, role : Role])
    BY CpuCtrlAssumption
  <2>. QED
    BY <2>1, SMT
<1>3. \A t : ~Announced(t) /\ ~Announced(t)'
  BY <1>1, <1>2 DEF Announced
<1>4. OneTileInv' /\ ReadsFreshInv'
  BY <1>1 DEF PushedInv, OneTileInv, ReadsFreshInv
<1>5. \A t : ValidImpls(t)' = ValidImpls(t)
  BY <1>1 DEF ValidImpls
<1>6. CopiesInv'
  BY <1>1, <1>3, <1>5 DEF PushedInv, CopiesInv, Ticket
<1>7. AnnouncedInv' /\ InputsInv'
  BY <1>1, <1>2, <1>3 DEF AnnouncedInv, InputsInv
<1>8. AllocatedInv'
  <2>1. CASE LaunchHostTask(args)
    <3>1. main'.pc = "hosttask"
      BY <2>1 DEF LaunchHostTask, Idle
    <3>. QED
      BY <1>1, <2>1, <3>1 DEF PushedInv, AllocatedInv, LaunchHostTask
  <2>2. ASSUME NEW c \in Ctrl, KernelLaunch(c, args) PROVE AllocatedInv'
    <3>1. main'.pc = "kernel" /\ main'.ctrl = c
      BY <2>2 DEF KernelLaunch, Idle
    <3>. QED
      BY <1>1, <2>2, <3>1 DEF PushedInv, AllocatedInv, KernelLaunch
  <2>. QED
    BY <2>1, <2>2
<1>. QED
  BY <1>4, <1>6, <1>7, <1>8 DEF PushedInv

\* Allocating memory makes no copy valid, and device memory comes with host
\* memory unless the program asks for the device alone.
LEMMA AllocKeepsCopies ==
  ASSUME CtrlInv, PushedInv, NEW c \in Ctrl, NEW t \in Tiles,
         NEW flags \in AllocFlags, AllocTile(c, t, flags)
  PROVE  PushedInv'
<1>1. /\ main.pc = "idle" /\ UNCHANGED <<jobs, main>>
      /\ \/ host_status' = host_status
         \/ /\ host_status[t] = "UNALLOC"
            /\ host_status' = [host_status EXCEPT ![t] = "INVALID"]
      /\ \/ device_status' = device_status
         \/ /\ device_status[<<c, t>>] = "UNALLOC"
            /\ device_status' = [device_status EXCEPT ![<<c, t>>] = "INVALID"]
  BY DEF AllocTile, CanCall
<1>2. /\ host_status \in [Tiles -> Status]
      /\ device_status \in [Ctrl \X Tiles -> Status]
  BY DEF CtrlInv, StatusInv
<1>3. \A u : ~Announced(u) /\ ~Announced(u)'
  BY <1>1 DEF Announced
<1>4. OneTileInv' /\ ReadsFreshInv'
  BY <1>1 DEF PushedInv, OneTileInv, ReadsFreshInv
<1>5. /\ \A u \in Tiles : host_status'[u] = "VALID" <=> host_status[u] = "VALID"
      /\ \A ct \in Ctrl \X Tiles :
           device_status'[ct] = "VALID" <=> device_status[ct] = "VALID"
  BY <1>1, <1>2
<1>6. \A u \in Tiles : ValidImpls(u)' = ValidImpls(u)
  BY <1>5 DEF ValidImpls
<1>7. CopiesInv'
  BY <1>1, <1>3, <1>5, <1>6 DEF PushedInv, CopiesInv, Ticket
<1>8. AnnouncedInv' /\ InputsInv'
  BY <1>1, <1>3 DEF AnnouncedInv, InputsInv
<1>9. AllocatedInv'
  <2>1. \A u \in Tiles : host_status[u] # "UNALLOC" => host_status'[u] # "UNALLOC"
    BY <1>1, <1>2
  <2>2. ASSUME NEW ct \in Ctrl \X Tiles, device_status'[ct] # "UNALLOC"
        PROVE  /\ MemMoves[ct[1]]
               /\ {"DEV"} \notin AllocFlags => host_status'[ct[2]] # "UNALLOC"
    <3>1. CASE device_status[ct] # "UNALLOC"
      BY <2>1, <3>1 DEF PushedInv, AllocatedInv
    <3>2. CASE device_status[ct] = "UNALLOC"
      <4>1. device_status' # device_status
        BY <2>2, <3>2
      <4>2. /\ MemMoves[c]
            /\ flags = {} \/ flags = {"HOST", "DEV"} \/ flags = {"DEV"}
            /\ device_status' = [device_status EXCEPT ![<<c, t>>] = "INVALID"]
        BY <4>1 DEF AllocTile
      <4>3. ct = <<c, t>>
        BY <1>2, <2>2, <3>2, <4>2
      <4>4. flags # {"DEV"} /\ host_status[t] = "UNALLOC"
              => host_status' = [host_status EXCEPT ![t] = "INVALID"]
        BY <4>2 DEF AllocTile
      <4>5. flags # {"DEV"} => host_status'[t] # "UNALLOC"
        BY <1>2, <2>1, <4>4
      <4>. QED
        BY <4>2, <4>3, <4>5
    <3>. QED
      BY <3>1, <3>2
  <2>. QED
    BY <1>1, <2>2 DEF AllocatedInv
<1>. QED
  BY <1>4, <1>7, <1>8, <1>9 DEF PushedInv

\* An input of a kernel that needs no transfer is where the kernel reads it.
LEMMA KernelInputIsFresh ==
  ASSUME CtrlInv, PushedInv, TransfersImplicit, HostReachable,
         KernelArgWait, ArgRole # "OUT"
  PROVE  Fresh(jobs, Ticket, DeviceBuffer(main.ctrl, ArgTile))
<1>. DEFINE c == main.ctrl
            t == ArgTile
<1>1. /\ main.pc = "kernel" /\ main.arg <= Len(main.args)
      /\ ~KernelArgStale(c, t)
      /\ ~(/\ ~MemMoves[c]
           /\ host_status[t] = "INVALID"
           /\ ValidImpls(t) # {})
  BY DEF KernelArgWait, ArgLeft
<1>2. /\ c \in Ctrl /\ t \in Tiles /\ main.arg \in DOMAIN main.args
      /\ t = main.args[main.arg].tile
  BY <1>1, ArgumentsTyped, ArgumentFacts DEF CtrlInv, MainInv, ArgTile
<1>3. mode[c] = "IMPLICIT"
  BY <1>2 DEF CtrlInv, StatusInv, TransfersImplicit
<1>4. ~Announced(t)
  BY <1>1 DEF Announced
<1>5. host_status[t] \in Status /\ device_status[<<c, t>>] \in Status
  BY <1>2 DEF CtrlInv, StatusInv
<1>6. AllocatedInv /\ CopiesInv
  BY DEF PushedInv
<1>7. DeviceBuffer(c, t)[2] = t
  BY DEF DeviceBuffer
<1>8. CASE MemMoves[c]
  <2>1. DeviceBuffer(c, t) = <<c, t>>
    BY <1>8 DEF DeviceBuffer
  <2>2. device_status[<<c, t>>] # "UNALLOC"
    BY <1>1, <1>2, <1>6, <1>8 DEF AllocatedInv
  <2>3. CASE device_status[<<c, t>>] = "VALID"
    BY <1>2, <1>4, <1>6, <2>1, <2>3 DEF CopiesInv, ValidImpls
  <2>4. CASE device_status[<<c, t>>] = "INVALID"
    <3>1. host_status[t] = "UNALLOC"
      BY <1>1, <1>3, <1>8, <2>4 DEF KernelArgStale
    <3>2. {"DEV"} \in AllocFlags
      BY <1>2, <1>6, <2>2, <3>1 DEF AllocatedInv
    <3>3. \A d \in ValidImpls(t) : d = c
      <4>1. ASSUME NEW d \in ValidImpls(t) PROVE d \in Ctrl /\ MemMoves[d]
        BY <1>2, <1>6 DEF ValidImpls, AllocatedInv
      <4>. QED
        BY <1>2, <1>8, <3>2, <4>1 DEF HostReachable
    <3>4. ValidImpls(t) = {}
      BY <2>4, <3>3 DEF ValidImpls
    <3>. QED
      BY <1>2, <1>4, <1>6, <1>7, <3>1, <3>4, UnwrittenIsFresh
  <2>. QED
    BY <1>5, <2>2, <2>3, <2>4 DEF Status
<1>9. CASE ~MemMoves[c]
  <2>1. DeviceBuffer(c, t) = HostBuffer(t)
    BY <1>9 DEF DeviceBuffer, HostBuffer
  <2>2. host_status[t] # "UNALLOC"
    BY <1>1, <1>2, <1>6, <1>9 DEF AllocatedInv
  <2>3. CASE host_status[t] = "VALID"
    BY <1>2, <1>4, <1>6, <2>1, <2>3 DEF CopiesInv
  <2>4. CASE host_status[t] = "INVALID"
    BY <1>1, <1>2, <1>4, <1>6, <1>7, <1>9, <2>4, UnwrittenIsFresh
  <2>. QED
    BY <1>5, <2>2, <2>3, <2>4 DEF Status
<1>. QED
  BY <1>8, <1>9

\* The next argument of a launch.
LEMMA NextArgFacts ==
  ASSUME CtrlInv, main' = NextArg
  PROVE  /\ main'.pc = main.pc /\ main'.args = main.args
         /\ main'.ctrl = main.ctrl /\ main'.arg = main.arg + 1
BY DEF NextArg, CtrlInv, MainInv, MainState

\* The waits for an argument of a kernel.
LEMMA KernelArgWaitKeepsCopies ==
  ASSUME CtrlInv, PushedInv, TransfersImplicit, HostReachable, KernelArgWait
  PROVE  PushedInv'
<1>1. /\ UNCHANGED <<jobs, host_status, device_status>> /\ main' = NextArg
      /\ main.pc = "kernel" /\ main.arg <= Len(main.args)
  BY DEF KernelArgWait, ArgLeft, tileVars
<1>2. /\ main'.pc = "kernel" /\ main'.args = main.args
      /\ main'.ctrl = main.ctrl /\ main'.arg = main.arg + 1
  BY <1>1, NextArgFacts
<1>3. \A u : ~Announced(u) /\ ~Announced(u)'
  BY <1>1, <1>2 DEF Announced
<1>4. OneTileInv' /\ ReadsFreshInv'
  BY <1>1 DEF PushedInv, OneTileInv, ReadsFreshInv
<1>5. \A u : ValidImpls(u)' = ValidImpls(u) /\ LaunchBuffer(u)' = LaunchBuffer(u)
  BY <1>1, <1>2 DEF ValidImpls, LaunchBuffer
<1>6. CopiesInv'
  BY <1>1, <1>3, <1>5 DEF PushedInv, CopiesInv, Ticket
<1>7. AnnouncedInv'
  BY <1>3 DEF AnnouncedInv
<1>8. InputsInv'
  <2>. SUFFICES ASSUME NEW i \in DOMAIN main.args, i < main.arg + 1,
                       main.args[i].role # "OUT"
                PROVE  Fresh(jobs, Ticket, LaunchBuffer(main.args[i].tile))
    BY <1>1, <1>2, <1>5 DEF InputsInv, Ticket
  <2>1. i < main.arg \/ i = main.arg
    BY ArgumentFacts
  <2>2. CASE i < main.arg
    BY <1>1, <2>2 DEF PushedInv, InputsInv
  <2>3. CASE i = main.arg
    <3>1. ArgRole # "OUT"
      BY <2>3 DEF ArgRole
    <3>2. LaunchBuffer(main.args[i].tile) = DeviceBuffer(main.ctrl, ArgTile)
      BY <1>1, <2>3 DEF LaunchBuffer, ArgTile
    <3>. QED
      BY <3>1, <3>2, KernelInputIsFresh
  <2>. QED
    BY <2>1, <2>2, <2>3
<1>9. AllocatedInv'
  BY <1>1, <1>2 DEF PushedInv, AllocatedInv
<1>. QED
  BY <1>4, <1>6, <1>7, <1>8, <1>9 DEF PushedInv

\* A host task announces the tile it writes before the task is pushed; what
\* it reads has another tile, or the same memory as it was.
LEMMA HostTaskArgWaitKeepsCopies ==
  ASSUME CtrlInv, PushedInv, ArgumentsDistinct, TransfersImplicit,
         HostTaskArgWait
  PROVE  PushedInv'
<1>. DEFINE t == ArgTile
            written == {u \in {t} : ArgRole # "IN"}
<1>1. /\ jobs' = jobs /\ main' = NextArg
      /\ main.pc = "hosttask" /\ main.arg <= Len(main.args)
      /\ device_status' = InvalidateDevices(written)
      /\ host_status' = [u \in Tiles |->
           IF u \in written THEN "VALID" ELSE host_status[u]]
      /\ ArgRole # "OUT" /\ host_status[t] = "INVALID" => FetchImpls(t) = {}
  BY DEF HostTaskArgWait, ArgLeft
<1>2. /\ main'.pc = "hosttask" /\ main'.args = main.args
      /\ main'.ctrl = main.ctrl /\ main'.arg = main.arg + 1
  BY <1>1, NextArgFacts
<1>3. /\ t \in Tiles /\ main.arg \in DOMAIN main.args
      /\ t = main.args[main.arg].tile /\ ArgRole = main.args[main.arg].role
  BY <1>1, ArgumentsTyped, ArgumentFacts DEF CtrlInv, ArgTile, ArgRole
<1>4. /\ host_status \in [Tiles -> Status]
      /\ device_status \in [Ctrl \X Tiles -> Status]
  BY DEF CtrlInv, StatusInv
<1>5. \A u : u \in written <=> u = t /\ ArgRole # "IN"
  OBVIOUS
<1>. HIDE DEF t, written
<1>6. /\ \A u \in Tiles : u \notin written => host_status'[u] = host_status[u]
      /\ \A u \in Tiles : u \in written => host_status'[u] = "VALID"
      /\ \A ct \in Ctrl \X Tiles : ct[2] \notin written =>
           device_status'[ct] = device_status[ct]
      /\ \A ct \in Ctrl \X Tiles : ct[2] \in written =>
           device_status'[ct] # "VALID"
      /\ \A ct \in Ctrl \X Tiles : device_status'[ct] # "UNALLOC" =>
           device_status[ct] # "UNALLOC"
  BY <1>1, <1>4 DEF InvalidateDevices
<1>7. /\ \A u \in Tiles : u \notin written => ValidImpls(u)' = ValidImpls(u)
      /\ \A u \in Tiles : u \in written => ValidImpls(u)' = {}
  BY <1>6 DEF ValidImpls
<1>8. \A u : Announced(u)' <=> Announced(u) \/ u \in written
  BY <1>1, <1>2, <1>3, <1>5, ArgumentFacts DEF Announced
<1>9. OneTileInv' /\ ReadsFreshInv'
  BY <1>1 DEF PushedInv, OneTileInv, ReadsFreshInv
<1>10. CopiesInv'
  BY <1>1, <1>6, <1>7, <1>8 DEF PushedInv, CopiesInv, Ticket
<1>11. AnnouncedInv'
  BY <1>6, <1>7, <1>8 DEF PushedInv, AnnouncedInv
<1>12. \A u : LaunchBuffer(u)' = HostBuffer(u) /\ LaunchBuffer(u) = HostBuffer(u)
  BY <1>1, <1>2 DEF LaunchBuffer
<1>13. AllocatedInv /\ CopiesInv
  BY DEF PushedInv
<1>14. ASSUME ArgRole # "OUT" PROVE Fresh(jobs, Ticket, HostBuffer(t))
  <2>1. ~Announced(t)
    <3>1. ASSUME NEW i \in DOMAIN main.args, i < main.arg, main.args[i].tile = t
          PROVE  FALSE
      <4>1. main.args \in Accesses
        <5>1. main.args # <<>>
          BY <1>1, <1>3, SMT
        <5>. QED
          BY <5>1 DEF CtrlInv, MainInv, MainState
      <4>2. i = main.arg
        BY <1>3, <3>1, <4>1 DEF ArgumentsDistinct
      <4>. QED
        BY <3>1, <4>2, ArgumentFacts
    <3>. QED
      BY <3>1 DEF Announced
  <2>2. host_status[t] # "UNALLOC"
    BY <1>1, <1>3, <1>13 DEF AllocatedInv
  <2>3. CASE host_status[t] = "VALID"
    BY <1>3, <1>13, <2>1, <2>3 DEF CopiesInv
  <2>4. CASE host_status[t] = "INVALID"
    <3>1. ValidImpls(t) = {}
      <4>1. \A c \in Ctrl : mode[c] = "IMPLICIT"
        BY DEF CtrlInv, StatusInv, TransfersImplicit
      <4>2. FetchImpls(t) = {}
        BY <1>1, <1>14, <2>4 DEF t
      <4>. QED
        BY <4>1, <4>2 DEF FetchImpls, ValidImpls
    <3>2. HostBuffer(t)[2] = t
      BY DEF HostBuffer
    <3>. QED
      BY <1>3, <1>13, <2>1, <2>4, <3>1, <3>2, UnwrittenIsFresh
  <2>. QED
    BY <1>3, <1>4, <2>2, <2>3, <2>4 DEF Status
<1>15. InputsInv'
  <2>. SUFFICES ASSUME NEW i \in DOMAIN main.args, i < main.arg + 1,
                       main.args[i].role # "OUT"
                PROVE  Fresh(jobs, Ticket, HostBuffer(main.args[i].tile))
    BY <1>1, <1>2, <1>12 DEF InputsInv, Ticket
  <2>1. i < main.arg \/ i = main.arg
    BY ArgumentFacts
  <2>2. CASE i < main.arg
    BY <1>1, <1>12, <2>2 DEF PushedInv, InputsInv
  <2>3. CASE i = main.arg
    BY <1>3, <1>14, <2>3
  <2>. QED
    BY <2>1, <2>2, <2>3
<1>16. AllocatedInv'
  <2>1. \A u \in Tiles : host_status[u] # "UNALLOC" => host_status'[u] # "UNALLOC"
    BY <1>6
  <2>2. \A i \in DOMAIN main.args : main.args[i].tile \in Tiles
    BY ArgumentFacts
  <2>3. \A ct \in Ctrl \X Tiles : ct[2] \in Tiles
    OBVIOUS
  <2>. QED
    BY <1>1, <1>2, <1>6, <1>13, <2>1, <2>2, <2>3 DEF AllocatedInv
<1>. QED
  BY <1>9, <1>10, <1>11, <1>15, <1>16 DEF PushedInv

\* The tiles a task reads and writes are those of its arguments, and their
\* inputs are fresh.
LEMMA TaskBuffers ==
  ASSUME CtrlInv, PushedInv, main.pc \in {"kernel", "hosttask"},
         main.arg > Len(main.args)
  PROVE  /\ \A b \in {LaunchBuffer(t) : t \in Ins(main.args)} :
              Fresh(jobs, Ticket, b)
         /\ TilesIn({LaunchBuffer(t) : t \in Outs(main.args)}) = Outs(main.args)
         /\ Ins(main.args) \subseteq Tiles /\ Outs(main.args) \subseteq Tiles
<1>1. ASSUME NEW t \in Ins(main.args) PROVE Fresh(jobs, Ticket, LaunchBuffer(t))
  <2>1. PICK i \in DOMAIN main.args :
          main.args[i].tile = t /\ main.args[i].role # "OUT"
    BY DEF Ins
  <2>2. i < main.arg
    BY ArgumentFacts
  <2>. QED
    BY <2>1, <2>2 DEF PushedInv, InputsInv
<1>2. \A t : LaunchBuffer(t)[2] = t
  BY DEF LaunchBuffer, DeviceBuffer, HostBuffer
<1>3. TilesIn({LaunchBuffer(t) : t \in Outs(main.args)}) = Outs(main.args)
  BY <1>2 DEF TilesIn
<1>. QED
  BY <1>1, <1>3, ArgumentsTyped DEF CtrlInv

\* The task of a kernel makes its copies the valid ones.
LEMMA KernelPushKeepsCopies ==
  ASSUME CtrlInv, CtrlInv', PushedInv, KernelPush PROVE PushedInv'
<1>. DEFINE c    == main.ctrl
            s    == <<c, "kernel">>
            ins  == Ins(main.args)
            outs == Outs(main.args)
            reads  == {DeviceBuffer(c, t) : t \in ins}
            writes == {DeviceBuffer(c, t) : t \in outs}
<1>1. /\ Push(s, reads, writes, SyncWait) /\ main' = Idle
      /\ main.pc = "kernel" /\ main.arg > Len(main.args)
  BY DEF KernelPush
<1>2. c \in Ctrl /\ \A t : LaunchBuffer(t) = DeviceBuffer(c, t)
  BY <1>1 DEF CtrlInv, MainInv, LaunchBuffer
<1>3. /\ \A b \in reads : Fresh(jobs, Ticket, b)
      /\ TilesIn(writes) = outs
      /\ ins \subseteq Tiles /\ outs \subseteq Tiles
  BY <1>1, <1>2, TaskBuffers
<1>4. s[2] \in {"kernel", "host"}
  OBVIOUS
<1>5. \A t \in outs : DeviceBuffer(c, t) \in writes
  OBVIOUS
<1>6. /\ host_status \in [Tiles -> Status]
      /\ device_status \in [Ctrl \X Tiles -> Status]
  BY DEF CtrlInv, StatusInv
<1>7. \A ct \in Ctrl \X Tiles : device_status'[ct] =
        IF MemMoves[c] /\ ct[1] = c /\ ct[2] \in outs THEN "VALID"
        ELSE IF ct[2] \in outs /\ device_status[ct] = "VALID" THEN "INVALID"
        ELSE device_status[ct]
  BY DEF KernelPush, InvalidateDevices
<1>8. \A t \in Tiles : host_status'[t] =
        IF t \notin outs THEN host_status[t]
        ELSE IF ~MemMoves[c] THEN "VALID"
        ELSE IF host_status[t] = "VALID" THEN "INVALID"
        ELSE host_status[t]
  BY DEF KernelPush
<1>. HIDE DEF s, ins, outs, reads, writes
<1>9. VersionsAfter(s, reads, writes)
  BY <1>1, PushVersions
<1>10. OneTileInv' /\ ReadsFreshInv'
  BY <1>3, <1>4, <1>9, ReadsKept DEF PushedInv
<1>11. \A t : ~Announced(t) /\ ~Announced(t)'
  BY <1>1 DEF Announced, Idle
<1>12. ASSUME NEW t \in Tiles
       PROVE  /\ host_status'[t] = "VALID" => Fresh(jobs', Ticket', HostBuffer(t))
              /\ \A d \in ValidImpls(t)' : Fresh(jobs', Ticket', <<d, t>>)
              /\ \/ Version(jobs', Ticket', t) = 0
                 \/ host_status'[t] = "VALID"
                 \/ ValidImpls(t)' # {}
  <2>1. CASE t \notin outs
    <3>1. /\ host_status'[t] = host_status[t]
          /\ ValidImpls(t)' = ValidImpls(t)
      BY <1>7, <1>8, <2>1 DEF ValidImpls
    <3>2. /\ Version(jobs', Ticket', t) = Version(jobs, Ticket, t)
          /\ \A b : b[2] = t /\ Fresh(jobs, Ticket, b) => Fresh(jobs', Ticket', b)
      BY <1>3, <1>9, <2>1 DEF VersionsAfter
    <3>3. HostBuffer(t)[2] = t /\ \A d : <<d, t>>[2] = t
      BY DEF HostBuffer
    <3>4. CopiesInv
      BY DEF PushedInv
    <3>. QED
      BY <1>11, <3>1, <3>2, <3>3, <3>4 DEF CopiesInv
  <2>2. CASE t \in outs /\ MemMoves[c]
    <3>1. ValidImpls(t)' = {c} /\ host_status'[t] # "VALID"
      BY <1>2, <1>7, <1>8, <2>2 DEF ValidImpls
    <3>2. DeviceBuffer(c, t) = <<c, t>>
      BY <2>2 DEF DeviceBuffer
    <3>3. Fresh(jobs', Ticket', <<c, t>>)
      BY <1>5, <1>9, <2>2, <3>2 DEF VersionsAfter
    <3>. QED
      BY <3>1, <3>3
  <2>3. CASE t \in outs /\ ~MemMoves[c]
    <3>1. ValidImpls(t)' = {} /\ host_status'[t] = "VALID"
      BY <1>2, <1>7, <1>8, <2>3 DEF ValidImpls
    <3>2. DeviceBuffer(c, t) = HostBuffer(t)
      BY <2>3 DEF DeviceBuffer, HostBuffer
    <3>3. Fresh(jobs', Ticket', HostBuffer(t))
      BY <1>5, <1>9, <2>3, <3>2 DEF VersionsAfter
    <3>. QED
      BY <3>1, <3>3
  <2>. QED
    BY <2>1, <2>2, <2>3
<1>13. CopiesInv'
  BY <1>12 DEF CopiesInv
<1>14. AnnouncedInv' /\ InputsInv'
  BY <1>1, <1>11 DEF AnnouncedInv, InputsInv, Idle
<1>15. AllocatedInv'
  <2>1. AllocatedInv
    BY DEF PushedInv
  <2>2. \A t \in outs : MemMoves[c] => device_status[<<c, t>>] # "UNALLOC"
    BY <1>1, <2>1 DEF AllocatedInv, Outs, outs
  <2>3. \A ct \in Ctrl \X Tiles :
          device_status'[ct] # "UNALLOC" => device_status[ct] # "UNALLOC"
    <3>1. \A ct \in Ctrl \X Tiles : ct = <<ct[1], ct[2]>>
      OBVIOUS
    <3>. QED
      BY <1>7, <2>2, <3>1
  <2>4. \A t \in Tiles : host_status[t] # "UNALLOC" => host_status'[t] # "UNALLOC"
    BY <1>8
  <2>5. \A ct \in Ctrl \X Tiles : ct[2] \in Tiles
    OBVIOUS
  <2>6. main'.pc = "idle"
    BY <1>1 DEF Idle
  <2>. QED
    BY <2>1, <2>3, <2>4, <2>5, <2>6 DEF AllocatedInv
<1>. QED
  BY <1>10, <1>13, <1>14, <1>15 DEF PushedInv

\* The host task produces what was announced of its tiles.
LEMMA HostTaskPushKeepsCopies ==
  ASSUME CtrlInv, CtrlInv', PushedInv, HostTaskPush PROVE PushedInv'
<1>. DEFINE ins  == Ins(main.args)
            outs == Outs(main.args)
            reads  == {HostBuffer(t) : t \in ins}
            writes == {HostBuffer(t) : t \in outs}
<1>1. /\ Push(HostStream, reads, writes, SyncWait)
      /\ main'.pc \in {"idle", "wait"}
      /\ main.pc = "hosttask" /\ main.arg > Len(main.args)
      /\ UNCHANGED <<host_status, device_status>>
  BY DEF HostTaskPush, Idle
<1>2. \A t : LaunchBuffer(t) = HostBuffer(t)
  BY <1>1 DEF LaunchBuffer
<1>3. /\ \A b \in reads : Fresh(jobs, Ticket, b)
      /\ TilesIn(writes) = outs
      /\ ins \subseteq Tiles /\ outs \subseteq Tiles
  BY <1>1, <1>2, TaskBuffers
<1>4. HostStream[2] \in {"kernel", "host"}
  BY DEF HostStream
<1>5. \A t \in outs : HostBuffer(t) \in writes
  OBVIOUS
<1>6. \A t : t \in outs <=> Announced(t)
  <2>1. \A t : t \in outs <=> \E i \in DOMAIN main.args :
                main.args[i].tile = t /\ main.args[i].role # "IN"
    BY DEF Outs
  <2>. QED
    BY <1>1, <2>1, ArgumentFacts DEF Announced
<1>. HIDE DEF ins, outs, reads, writes
<1>7. VersionsAfter(HostStream, reads, writes)
  BY <1>1, PushVersions
<1>8. OneTileInv' /\ ReadsFreshInv'
  BY <1>3, <1>4, <1>7, ReadsKept DEF PushedInv
<1>9. \A t : ~Announced(t)' /\ ValidImpls(t)' = ValidImpls(t)
  BY <1>1 DEF Announced, ValidImpls
<1>10. ASSUME NEW t \in Tiles
       PROVE  /\ host_status'[t] = "VALID" => Fresh(jobs', Ticket', HostBuffer(t))
              /\ \A d \in ValidImpls(t)' : Fresh(jobs', Ticket', <<d, t>>)
              /\ \/ Version(jobs', Ticket', t) = 0
                 \/ host_status'[t] = "VALID"
                 \/ ValidImpls(t)' # {}
  <2>1. CASE t \notin outs
    <3>1. /\ Version(jobs', Ticket', t) = Version(jobs, Ticket, t)
          /\ \A b : b[2] = t /\ Fresh(jobs, Ticket, b) => Fresh(jobs', Ticket', b)
      BY <1>3, <1>7, <2>1 DEF VersionsAfter
    <3>2. HostBuffer(t)[2] = t /\ \A d : <<d, t>>[2] = t
      BY DEF HostBuffer
    <3>3. CopiesInv
      BY DEF PushedInv
    <3>. QED
      BY <1>1, <1>6, <1>9, <2>1, <3>1, <3>2, <3>3 DEF CopiesInv
  <2>2. CASE t \in outs
    <3>1. host_status[t] = "VALID" /\ ValidImpls(t) = {}
      BY <1>6, <2>2 DEF PushedInv, AnnouncedInv
    <3>2. Fresh(jobs', Ticket', HostBuffer(t))
      BY <1>5, <1>7, <2>2 DEF VersionsAfter
    <3>. QED
      BY <1>1, <1>9, <3>1, <3>2
  <2>. QED
    BY <2>1, <2>2
<1>11. CopiesInv'
  BY <1>10 DEF CopiesInv
<1>12. AnnouncedInv' /\ InputsInv'
  BY <1>1, <1>9 DEF AnnouncedInv, InputsInv
<1>13. AllocatedInv'
  BY <1>1 DEF PushedInv, AllocatedInv
<1>. QED
  BY <1>8, <1>11, <1>12, <1>13 DEF PushedInv
-----------------------------------------------------------------------------
(* Every step keeps the invariant.                                         *)

\* The steps of the main thread push at most one job and execute none.
LEMMA MainPushesAtMostOne ==
  ASSUME Call \/ Continue
  PROVE  /\ UNCHANGED execVars
         /\ \/ UNCHANGED jobs
            \/ \E s, reads, writes, events : Push(s, reads, writes, events)
<1>1. ASSUME NEW c, NEW t, MoveToInner(c, t) \/ MoveFromInner(c, t)
      PROVE  /\ UNCHANGED execVars
             /\ \E s, reads, writes, events : Push(s, reads, writes, events)
  BY <1>1 DEF MoveToInner, MoveFromInner
<1>2. ASSUME \/ \E c \in Ctrl, t \in Tiles : MoveTo(c, t) \/ MoveFrom(c, t)
             \/ KernelArgFetch \/ KernelArgSend \/ HostTaskFetch
      PROVE  \E c, t : MoveToInner(c, t) \/ MoveFromInner(c, t)
  BY <1>2 DEF MoveTo, MoveFrom, KernelArgFetch, KernelArgSend, HostTaskFetch
<1>3. ASSUME KernelPush \/ HostTaskPush
      PROVE  /\ UNCHANGED execVars
             /\ \E s, reads, writes, events : Push(s, reads, writes, events)
  BY <1>3 DEF KernelPush, HostTaskPush
<1>4. ASSUME \/ \E c \in Ctrl, t \in Tiles : WaitTile(c, t)
             \/ \E c \in Ctrl : GlobalSync(c)
             \/ Synchronize \/ Unblock
      PROVE  UNCHANGED <<jobs, execVars>>
  BY <1>4 DEF WaitTile, GlobalSync, Synchronize, Block, Unblock
<1>5. ASSUME \/ \E c \in Ctrl, t \in Tiles, flags \in AllocFlags :
                  AllocTile(c, t, flags)
             \/ \E c \in Ctrl, args \in Accesses : KernelLaunch(c, args)
             \/ \E args \in Accesses : LaunchHostTask(args)
             \/ \E c \in Ctrl, m \in Modes : SetDependanceMode(c, m)
             \/ KernelArgWait \/ HostTaskArgWait
      PROVE  UNCHANGED <<jobs, execVars>>
  <2>1. \A c, t, flags : AllocTile(c, t, flags) => UNCHANGED <<jobs, execVars>>
    BY AllocLeaves
  <2>2. CASE \/ \E c \in Ctrl, args \in Accesses : KernelLaunch(c, args)
             \/ \E args \in Accesses : LaunchHostTask(args)
             \/ \E c \in Ctrl, m \in Modes : SetDependanceMode(c, m)
    BY <2>2 DEF KernelLaunch, LaunchHostTask, SetDependanceMode
  <2>3. CASE KernelArgWait \/ HostTaskArgWait
    BY <2>3 DEF KernelArgWait, HostTaskArgWait
  <2>. QED
    BY <1>5, <2>1, <2>2, <2>3
<1>. QED
  BY <1>1, <1>2, <1>3, <1>4, <1>5 DEF Call, Continue

\* The part about jobs and copies, for the steps of the main thread.
LEMMA MainKeepsPushed ==
  ASSUME CtrlInv, CtrlInv', PushedInv, ArgumentsDistinct, TransfersImplicit,
         HostReachable, Call \/ Continue
  PROVE  PushedInv'
<1>1. ASSUME NEW c \in Ctrl, NEW t \in Tiles, MoveTo(c, t) \/ MoveFrom(c, t)
      PROVE  PushedInv'
  BY <1>1, MovesKeepCopies DEF TransfersImplicit
<1>2. CASE \/ \E c \in Ctrl, t \in Tiles : WaitTile(c, t)
           \/ \E c \in Ctrl : GlobalSync(c)
           \/ Synchronize
  <2>1. \E call \in {"waitTile", "globalSync", "synchronize"} :
          \E events, scope : Block(call, events, scope)
    BY <1>2 DEF WaitTile, GlobalSync, Synchronize
  <2>2. /\ UNCHANGED <<jobs, host_status, device_status>>
        /\ main.pc = "idle"
        /\ main'.pc \in {"waitTile", "globalSync", "synchronize"}
    BY <2>1 DEF Block, tileVars, Idle
  <2>. QED
    BY <2>2, IdleKeepsCopies
<1>3. ASSUME NEW c \in Ctrl, NEW t \in Tiles, NEW flags \in AllocFlags,
             AllocTile(c, t, flags)
      PROVE  PushedInv'
  BY <1>3, AllocKeepsCopies
<1>4. CASE \/ \E c \in Ctrl, args \in Accesses : KernelLaunch(c, args)
           \/ \E args \in Accesses : LaunchHostTask(args)
  BY <1>4, LaunchKeepsCopies
<1>5. ASSUME NEW c \in Ctrl, NEW m \in Modes, SetDependanceMode(c, m)
      PROVE  PushedInv'
  <2>1. /\ UNCHANGED <<jobs, host_status, device_status, main>>
        /\ main.pc = "idle"
    BY <1>5 DEF SetDependanceMode, CanCall, tileVars
  <2>. QED
    BY <2>1, IdleKeepsCopies
<1>6. CASE Unblock
  <2>1. /\ UNCHANGED <<jobs, host_status, device_status>>
        /\ main.pc \in Blocked /\ main'.pc = "idle"
    BY <1>6 DEF Unblock, tileVars, Idle
  <2>. QED
    BY <2>1, IdleKeepsCopies DEF Blocked
<1>7. CASE KernelArgFetch \/ KernelArgSend \/ HostTaskFetch
  BY <1>7, ArgTransfersKeepCopies
<1>8. CASE KernelArgWait
  BY <1>8, KernelArgWaitKeepsCopies
<1>9. CASE HostTaskArgWait
  BY <1>9, HostTaskArgWaitKeepsCopies
<1>10. CASE KernelPush
  BY <1>10, KernelPushKeepsCopies
<1>11. CASE HostTaskPush
  BY <1>11, HostTaskPushKeepsCopies
<1>12. CASE Call
  BY <1>1, <1>2, <1>3, <1>4, <1>5, <1>12 DEF Call
<1>13. CASE Continue
  BY <1>6, <1>7, <1>8, <1>9, <1>10, <1>11, <1>13 DEF Continue
<1>. QED
  BY <1>12, <1>13

\* And for the threads of the streams, and no step at all.
LEMMA PushedKept ==
  ASSUME PushedInv, UNCHANGED <<jobs, main, host_status, device_status>>
  PROVE  PushedInv'
<1>1. \A t : /\ Announced(t)' = Announced(t)
             /\ ValidImpls(t)' = ValidImpls(t)
             /\ LaunchBuffer(t)' = LaunchBuffer(t)
  BY DEF Announced, ValidImpls, LaunchBuffer
<1>2. OneTileInv' /\ ReadsFreshInv'
  BY DEF PushedInv, OneTileInv, ReadsFreshInv
<1>3. CopiesInv' /\ AnnouncedInv' /\ InputsInv'
  BY <1>1 DEF PushedInv, CopiesInv, AnnouncedInv, InputsInv, Ticket
<1>4. AllocatedInv'
  BY DEF PushedInv, AllocatedInv
<1>. QED
  BY <1>2, <1>3, <1>4 DEF PushedInv

\* Every step keeps the invariant of a program whose accesses are ordered.
LEMMA StepKeepsDataflow ==
  ASSUME CtrlInv, CtrlInv', DataflowInv, ArgumentsDistinct, TransfersImplicit,
         HostReachable, DependencesHonoured, DependencesHonoured', [Next]_vars
  PROVE  DataflowInv'
<1>1. CASE Call \/ Continue
  <2>1. PushedInv'
    BY <1>1, MainKeepsPushed DEF DataflowInv
  <2>2. UNCHANGED execVars
    BY <1>1, MainPushesAtMostOne
  <2>3. CASE UNCHANGED jobs
    <3>1. UNCHANGED <<jobs, seen, done, mem>>
      BY <2>2, <2>3 DEF execVars
    <3>2. SeenInv' /\ MemInv'
      BY <3>1 DEF DataflowInv, SeenInv, MemInv, Started
    <3>. QED
      BY <2>1, <3>2 DEF DataflowInv
  <2>4. ASSUME NEW s, NEW reads, NEW writes, NEW events,
               Push(s, reads, writes, events)
        PROVE  DataflowInv'
    BY <2>1, <2>2, <2>4, PushKeepsVersions DEF DataflowInv
  <2>. QED
    BY <1>1, <2>3, <2>4, MainPushesAtMostOne
<1>2. ASSUME NEW n \in DOMAIN jobs, StartJob(n) \/ FinishJob(n)
      PROVE  DataflowInv'
  <2>1. UNCHANGED <<jobs, main, host_status, device_status>>
    BY <1>2 DEF StartJob, FinishJob, tileVars
  <2>. QED
    BY <1>2, <2>1, PushedKept, StartKeepsVersions, FinishKeepsVersions
       DEF DataflowInv
<1>3. CASE UNCHANGED vars
  <2>1. UNCHANGED <<jobs, main, host_status, device_status, seen, done, mem>>
    BY <1>3 DEF vars, tileVars, execVars
  <2>2. SeenInv' /\ MemInv'
    BY <2>1 DEF DataflowInv, SeenInv, MemInv, Started
  <2>. QED
    BY <2>1, <2>2, PushedKept DEF DataflowInv
<1>. QED
  BY <1>1, <1>2, <1>3 DEF Next, StreamStep

\* At the start nothing is written and no copy is valid.
LEMMA InitHasVersions == ASSUME Init PROVE DataflowInv
<1>1. /\ DOMAIN jobs = {} /\ done = {} /\ Started = {}
  BY SMT DEF Init, Started
<1>2. main.pc = "idle"
  BY DEF Init, Idle
<1>3. OneTileInv /\ ReadsFreshInv
  BY <1>1 DEF OneTileInv, ReadsFreshInv
<1>4. \A t : ~Announced(t)
  BY <1>2 DEF Announced
<1>5. \A n, t : Version(jobs, n, t) = 0
  BY <1>1 DEF Version, Last, Writing
<1>6. CopiesInv /\ AnnouncedInv /\ InputsInv
  BY <1>2, <1>4, <1>5 DEF CopiesInv, AnnouncedInv, InputsInv, Fresh
<1>7. AllocatedInv
  <2>1. ASSUME NEW ct \in Ctrl \X Tiles, device_status[ct] # "UNALLOC"
        PROVE  MemMoves[ct[1]] /\ host_status[ct[2]] # "UNALLOC"
    <3>1. MemMoves[ct[1]] /\ <<ct[1], ct[2]>> \in InitAttached
      BY <2>1 DEF Init, InitDevice
    <3>. QED
      BY <3>1 DEF Init, InitHost
  <2>. QED
    BY <1>2, <2>1 DEF AllocatedInv
<1>8. SeenInv /\ MemInv
  BY <1>1 DEF SeenInv, MemInv, Init
<1>. QED
  BY <1>3, <1>6, <1>7, <1>8 DEF DataflowInv, PushedInv

\* The invariant holds of every program whose accesses are ordered.
THEOREM DataflowInvariant ==
  ASSUME ArgumentsDistinct, TransfersImplicit, HostReachable
  PROVE  Spec /\ []DependencesHonoured => []DataflowInv
<1>1. Init => DataflowInv
  BY InitHasVersions
<1>2. /\ CtrlInv /\ CtrlInv' /\ DependencesHonoured /\ DependencesHonoured'
      /\ DataflowInv /\ [Next]_vars
      => DataflowInv'
  BY StepKeepsDataflow
<1>. QED
  BY <1>1, <1>2, CtrlInvariant, PTL DEF Spec
-----------------------------------------------------------------------------
(* What the program sees.                                                  *)

\* The last writer of the abstract specification is the version before n.
LEMMA LastWriterIsVersion ==
  ASSUME NEW n, NEW t PROVE Dataflow!LastWriter(n, t) = Version(jobs, n, t)
<1>1. DOMAIN TaskProgram = {m \in DOMAIN jobs : TaskJob(jobs[m])}
  BY DEF TaskProgram, TaskNumbers, IsTask, TaskJob
<1>2. \A m \in DOMAIN TaskProgram :
        TaskProgram[m].writes = TilesIn(jobs[m].writes)
  BY DEF TaskProgram
<1>3. Dataflow!Writers(n, t) = Writing(jobs, n, t)
  BY <1>1, <1>2 DEF Dataflow!Writers, Writing
<1>4. Dataflow!LastWriter(n, t) = Last(Dataflow!Writers(n, t))
  BY DEF Dataflow!LastWriter, Last
<1>. QED
  BY <1>3, <1>4 DEF Version

\* The statuses tell the truth when nothing is in flight.
LEMMA AtRest ==
  ASSUME CtrlInv, DataflowInv PROVE CoherentAtRest
<1>. SUFFICES ASSUME main.pc = "idle", Unfinished = {}, NEW t \in Tiles
              PROVE  /\ host_status[t] = "VALID"
                          => mem[HostBuffer(t)] = LatestVersion(t)
                     /\ \A c \in ValidImpls(t) : mem[<<c, t>>] = LatestVersion(t)
                     /\ LatestVersion(t) # 0 =>
                          host_status[t] = "VALID" \/ ValidImpls(t) # {}
  BY DEF CoherentAtRest
<1>1. LatestVersion(t) = Version(jobs, Ticket, t)
  BY LastWriterIsVersion DEF LatestVersion, Ticket
<1>2. ~Announced(t)
  BY DEF Announced
<1>3. DOMAIN jobs \subseteq done /\ done \subseteq DOMAIN jobs
  BY DEF Unfinished, CtrlInv, ExecInv
<1>4. Ticket \in Nat /\ \A m \in DOMAIN jobs : m < Ticket
  <2>1. DOMAIN jobs = 1 .. Len(jobs) /\ Len(jobs) \in Nat
    BY BasicFacts
  <2>. QED
    BY <2>1, SMT DEF Ticket
<1>5. ASSUME NEW b \in Buffer, Fresh(jobs, Ticket, b)
      PROVE  mem[b] = Version(jobs, Ticket, b[2])
  BY <1>3, <1>4, <1>5, MemoryHasVersion DEF DataflowInv
<1>6. /\ HostBuffer(t) \in Buffer /\ HostBuffer(t)[2] = t
      /\ \A c \in ValidImpls(t) : <<c, t>> \in Buffer /\ <<c, t>>[2] = t
  BY DEF HostBuffer, Buffer, ValidImpls
<1>7. CopiesInv
  BY DEF DataflowInv, PushedInv
<1>. QED
  BY <1>1, <1>2, <1>5, <1>6, <1>7 DEF CopiesInv

\* What a job that read the buffers of j and found v there saw in the tiles.
SawIn(j, v) == [t \in TilesIn(j.reads) |-> v[CHOOSE b \in j.reads : b[2] = t]]

\* What was observed stays, if no task starts.
LEMMA ObservedKept ==
  ASSUME (TaskNumbers \cap Started)' = TaskNumbers \cap Started,
         \A m \in TaskNumbers \cap Started :
           jobs'[m] = jobs[m] /\ seen'[m] = seen[m]
  PROVE  Observed' = Observed
<1>1. Observed = [m \in TaskNumbers \cap Started |-> SawIn(jobs[m], seen[m])]
  BY DEF Observed, SawIn
<1>2. Observed' = [m \in (TaskNumbers \cap Started)' |->
                     SawIn(jobs'[m], seen'[m])]
  BY DEF Observed, SawIn
<1>. QED
  BY <1>1, <1>2

\* A push of a task is a launch; a push of a transfer is none of the program's
\* business.
LEMMA PushRefines ==
  ASSUME CtrlInv, CtrlInv', UNCHANGED execVars,
         NEW s, NEW reads, NEW writes, NEW events,
         Push(s, reads, writes, events)
  PROVE  Dataflow!Launch \/ UNCHANGED Dataflow!vars
<1>1. VersionsAfter(s, reads, writes)
  BY PushVersions
<1>2. /\ DOMAIN jobs' = DOMAIN jobs \cup {Ticket}
      /\ \A m \in DOMAIN jobs : jobs'[m] = jobs[m]
  BY <1>1 DEF VersionsAfter
<1>3. UNCHANGED seen /\ Started' = Started /\ Started \subseteq DOMAIN jobs
  BY DEF execVars, Started, CtrlInv, ExecInv
<1>4. Ticket \notin DOMAIN jobs /\ \A m \in DOMAIN jobs : m < Ticket
  <2>1. DOMAIN jobs = 1 .. Len(jobs) /\ Len(jobs) \in Nat
    BY BasicFacts
  <2>. QED
    BY <2>1, SMT DEF Ticket
<1>5. /\ TaskNumbers' = IF TaskJob(jobs'[Ticket]) THEN TaskNumbers \cup {Ticket}
                                           ELSE TaskNumbers
      /\ TaskNumbers \subseteq DOMAIN jobs
  BY <1>2, <1>4 DEF TaskNumbers, IsTask, TaskJob
<1>6. /\ DOMAIN TaskProgram = TaskNumbers
      /\ DOMAIN TaskProgram' = TaskNumbers'
      /\ \A m \in TaskNumbers : TaskProgram'[m] = TaskProgram[m]
  BY <1>2, <1>5 DEF TaskProgram
<1>7. Observed' = Observed
  <2>1. (TaskNumbers \cap Started)' = TaskNumbers \cap Started
    BY <1>3, <1>4, <1>5
  <2>2. \A m \in TaskNumbers \cap Started : jobs'[m] = jobs[m] /\ seen'[m] = seen[m]
    BY <1>2, <1>3
  <2>. QED
    BY <2>1, <2>2, ObservedKept
<1>8. CASE TaskJob(jobs'[Ticket])
  <2>1. /\ DOMAIN TaskProgram' = DOMAIN TaskProgram \cup {Ticket}
        /\ Ticket \in DOMAIN TaskProgram' \ DOMAIN TaskProgram
        /\ \A m \in DOMAIN TaskProgram : m < Ticket
    BY <1>4, <1>5, <1>6, <1>8
  <2>2. TaskProgram'[Ticket] \in Dataflow!Access
    <3>1. jobs'[Ticket] \in Job
      <4>1. jobs' \in Seq(Job) /\ Ticket \in DOMAIN jobs'
        BY <1>2 DEF CtrlInv, JobsInv
      <4>. QED
        BY <4>1, SMT
    <3>2. /\ jobs'[Ticket].reads \in SUBSET Buffer
          /\ jobs'[Ticket].writes \in SUBSET Buffer
      BY <3>1, SMT DEF Job
    <3>3. \A bs \in SUBSET Buffer : TilesIn(bs) \in SUBSET Tiles
      BY DEF TilesIn, Buffer
    <3>4. TaskProgram'[Ticket] = [reads |-> TilesIn(jobs'[Ticket].reads),
                                  writes |-> TilesIn(jobs'[Ticket].writes)]
      BY <2>1, <1>6 DEF TaskProgram
    <3>. QED
      BY <3>2, <3>3, <3>4 DEF Dataflow!Access
  <2>. QED
    BY <1>6, <1>7, <2>1, <2>2 DEF Dataflow!Launch
<1>9. CASE ~TaskJob(jobs'[Ticket])
  <2>1. TaskNumbers' = TaskNumbers
    BY <1>5, <1>9
  <2>2. TaskProgram' = TaskProgram
    <3>1. \A m \in TaskNumbers : jobs'[m] = jobs[m]
      BY <1>2, <1>5
    <3>. QED
      BY <2>1, <3>1 DEF TaskProgram
  <2>. QED
    BY <1>7, <2>2 DEF Dataflow!vars
<1>. QED
  BY <1>8, <1>9

\* A task that starts finds what it would find if each launch were a call.
LEMMA StartRefines ==
  ASSUME CtrlInv, DataflowInv, DependencesHonoured',
         NEW n \in DOMAIN jobs, StartJob(n)
  PROVE  \/ Dataflow!Execute(n) /\ n \in DOMAIN TaskProgram
         \/ UNCHANGED Dataflow!vars
<1>1. /\ UNCHANGED jobs /\ n \notin Started /\ Started' = Started \cup {n}
      /\ \A m \in Started : seen'[m] = seen[m]
      /\ \A b \in jobs[n].reads : seen'[n][b] = mem[b]
  BY DEF StartJob, Started
<1>2. TaskNumbers' = TaskNumbers /\ TaskProgram' = TaskProgram
  BY <1>1 DEF TaskNumbers, TaskProgram, IsTask
<1>3. CASE ~IsTask(n)
  <2>1. (TaskNumbers \cap Started)' = TaskNumbers \cap Started
    BY <1>1, <1>2, <1>3 DEF TaskNumbers
  <2>2. \A m \in TaskNumbers \cap Started : jobs'[m] = jobs[m] /\ seen'[m] = seen[m]
    BY <1>1
  <2>3. Observed' = Observed
    BY <2>1, <2>2, ObservedKept
  <2>. QED
    BY <1>2, <2>3 DEF Dataflow!vars
<1>4. CASE IsTask(n)
  <2>1. /\ DOMAIN Observed = TaskNumbers \cap Started
        /\ DOMAIN Observed' = DOMAIN Observed \cup {n}
        /\ n \in TaskNumbers /\ n \notin DOMAIN Observed
        /\ DOMAIN TaskProgram = TaskNumbers
    BY <1>1, <1>2, <1>4 DEF Observed, TaskNumbers, TaskProgram
  <2>2. TaskProgram[n].reads = TilesIn(jobs[n].reads)
    BY <2>1 DEF TaskProgram
  <2>3. \A b \in jobs[n].reads :
          mem[b] = Version(jobs, n, b[2]) /\ mem[b] \in done \cup {0}
    BY StartFindsVersions
  <2>4. ASSUME NEW t \in TilesIn(jobs[n].reads)
        PROVE  /\ Dataflow!LastWriter(n, t) \in DOMAIN Observed \cup {0}
               /\ seen'[n][CHOOSE b \in jobs[n].reads : b[2] = t]
                    = Dataflow!LastWriter(n, t)
    <3>1. PICK b \in jobs[n].reads :
            b = (CHOOSE e \in jobs[n].reads : e[2] = t) /\ b[2] = t
      BY DEF TilesIn
    <3>2. mem[b] = Version(jobs, n, t) /\ mem[b] \in done \cup {0}
      BY <2>3, <3>1
    <3>3. Version(jobs, n, t) \in Writing(jobs, n, t) \cup {0}
      <4>1. DOMAIN jobs \subseteq Nat \ {0}
        BY BasicFacts, SMT
      <4>2. n \in Nat
        BY <4>1
      <4>. QED
        BY <4>1, <4>2, VersionFacts
    <3>4. Writing(jobs, n, t) \subseteq TaskNumbers /\ done \subseteq Started
      BY DEF Writing, TaskNumbers, IsTask, TaskJob, CtrlInv, ExecInv
    <3>5. 0 \notin DOMAIN jobs /\ done \subseteq DOMAIN jobs
      BY BasicFacts
    <3>6. Dataflow!LastWriter(n, t) = Version(jobs, n, t)
      BY LastWriterIsVersion
    <3>7. Dataflow!LastWriter(n, t) \in DOMAIN Observed \cup {0}
      BY <2>1, <3>2, <3>3, <3>4, <3>5, <3>6 DEF Writing
    <3>8. seen'[n][CHOOSE e \in jobs[n].reads : e[2] = t] = mem[b]
      BY <1>1, <3>1
    <3>. QED
      BY <3>2, <3>6, <3>7, <3>8
  <2>5. ASSUME NEW m \in DOMAIN Observed PROVE Observed'[m] = Observed[m]
    <3>1. m \in TaskNumbers \cap Started /\ m \in TaskNumbers' \cap Started'
      BY <1>1, <1>2, <2>1
    <3>2. /\ Observed[m] = SawIn(jobs[m], seen[m])
          /\ Observed'[m] = SawIn(jobs'[m], seen'[m])
      BY <3>1 DEF Observed, SawIn
    <3>3. seen'[m] = seen[m] /\ jobs' = jobs
      BY <1>1, <3>1
    <3>. QED
      BY <3>2, <3>3
  <2>6. Observed'[n] = [t \in TaskProgram[n].reads |-> Dataflow!LastWriter(n, t)]
    <3>1. Observed'[n] = [t \in TilesIn(jobs'[n].reads) |->
               seen'[n][CHOOSE b \in jobs'[n].reads : b[2] = t]]
      BY <1>1, <1>2, <2>1 DEF Observed
    <3>. QED
      BY <1>1, <2>2, <2>4, <3>1
  <2>7. Observed' = [m \in DOMAIN Observed \cup {n} |->
                       IF m = n THEN [t \in TaskProgram[n].reads |->
                                        Dataflow!LastWriter(n, t)]
                                ELSE Observed[m]]
    <3>1. Observed' = [m \in DOMAIN Observed' |-> Observed'[m]]
      BY DEF Observed
    <3>. QED
      BY <2>1, <2>5, <2>6, <3>1
  <2>. QED
    BY <1>2, <2>1, <2>2, <2>4, <2>7 DEF Dataflow!Execute
<1>. QED
  BY <1>3, <1>4

\* Every step is one of the abstract specification, or none there.
LEMMA StepIsDataflow ==
  ASSUME CtrlInv, CtrlInv', DataflowInv, DependencesHonoured', [Next]_vars
  PROVE  [Dataflow!Next]_(Dataflow!vars)
<1>1. CASE Call \/ Continue
  <2>1. UNCHANGED execVars
    BY <1>1, MainPushesAtMostOne
  <2>2. CASE UNCHANGED jobs
    <3>1. UNCHANGED <<jobs, seen>>
      BY <2>1, <2>2 DEF execVars
    <3>. QED
      BY <3>1 DEF Dataflow!vars, TaskProgram, Observed, TaskNumbers, IsTask,
                  Started
  <2>3. ASSUME NEW s, NEW reads, NEW writes, NEW events,
               Push(s, reads, writes, events)
        PROVE  [Dataflow!Next]_(Dataflow!vars)
    BY <2>1, <2>3, PushRefines DEF Dataflow!Next
  <2>. QED
    BY <1>1, <2>2, <2>3, MainPushesAtMostOne
<1>2. ASSUME NEW n \in DOMAIN jobs, StartJob(n)
      PROVE  [Dataflow!Next]_(Dataflow!vars)
  BY <1>2, StartRefines DEF Dataflow!Next
<1>3. ASSUME NEW n \in DOMAIN jobs, FinishJob(n) \/ UNCHANGED vars
      PROVE  [Dataflow!Next]_(Dataflow!vars)
  <2>1. UNCHANGED <<jobs, seen>>
    BY <1>3 DEF FinishJob, vars, execVars
  <2>. QED
    BY <2>1 DEF Dataflow!vars, TaskProgram, Observed, TaskNumbers, IsTask,
                Started
<1>4. CASE UNCHANGED vars
  <2>1. UNCHANGED <<jobs, seen>>
    BY <1>4 DEF vars, execVars
  <2>. QED
    BY <2>1 DEF Dataflow!vars, TaskProgram, Observed, TaskNumbers, IsTask,
                Started
<1>. QED
  BY <1>1, <1>2, <1>3, <1>4 DEF Next, StreamStep

\* Copies marked valid are, whenever accesses are ordered.
THEOREM OrderedCopies ==
  ASSUME ArgumentsDistinct, TransfersImplicit, HostReachable
  PROVE  Spec /\ []DependencesHonoured => []CoherentAtRest
<1>1. CtrlInv /\ DataflowInv => CoherentAtRest
  BY AtRest
<1>. QED
  BY <1>1, DataflowInvariant, CtrlInvariant, PTL

\* And tasks find the results they would find if each launch were a call.
THEOREM OrderedDataflow ==
  ASSUME ArgumentsDistinct, TransfersImplicit, HostReachable
  PROVE  Spec /\ []DependencesHonoured => ImplementsDataflow
<1>1. Init => Dataflow!Init
  <2>1. ASSUME Init PROVE TaskProgram = <<>> /\ Observed = <<>>
    <3>1. jobs = <<>> /\ DOMAIN jobs = {} /\ TaskNumbers = {}
      BY <2>1, SMT DEF Init, TaskNumbers
    <3>. QED
      BY <3>1, SMT DEF TaskProgram, Observed
  <2>. QED
    BY <2>1 DEF Dataflow!Init
<1>2. CtrlInv /\ CtrlInv' /\ DataflowInv /\ DependencesHonoured' /\ [Next]_vars
        => [Dataflow!Next]_(Dataflow!vars)
  BY StepIsDataflow
<1>. QED
  BY <1>1, <1>2, DataflowInvariant, CtrlInvariant, PTL
     DEF Spec, ImplementsDataflow, Dataflow!Spec
-----------------------------------------------------------------------------
(* With no hypothesis on the order of accesses, only on how the program is  *)
(* written.                                                                 *)

\* Under the ASYNC policy: with one device that moves memory and transfers that
\* are needed, every task finds the result of the last launch before it that
\* wrote the tile, and at rest the copies marked valid have the last one.
THEOREM DataflowOfPrograms ==
  ASSUME HostReadersTracked, AttachesEarly, MoveFromTracked, ArgumentsDistinct
  PROVE  /\ Spec => []CoherentAtRest
         /\ Spec => ImplementsDataflow
<1>1. TransfersImplicit /\ HostReachable
  BY DEF MoveFromTracked, TransfersImplicit, HostReachable
<1>2. Spec => []DependencesHonoured
  BY DataRaceFreedomOfPrograms
<1>3. Spec => []CoherentAtRest
  BY <1>1, <1>2, OrderedCopies, PTL
<1>4. Spec => ImplementsDataflow
  BY <1>1, <1>2, OrderedDataflow, PTL
<1>. QED
  BY <1>3, <1>4

\* Under the SYNC policy: the same for any number of devices.
THEOREM DataflowUnderSync ==
  ASSUME Policy = "SYNC", KernelsHaveArguments, ArgumentsDistinct,
         TransfersImplicit, HostReachable
  PROVE  /\ Spec => []CoherentAtRest
         /\ Spec => ImplementsDataflow
<1>1. Spec => []DependencesHonoured
  BY SyncOrdersAccesses
<1>2. Spec => []CoherentAtRest
  BY <1>1, OrderedCopies, PTL
<1>3. Spec => ImplementsDataflow
  BY <1>1, OrderedDataflow, PTL
<1>. QED
  BY <1>2, <1>3
=============================================================================
