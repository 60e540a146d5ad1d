-------------------------- MODULE ThreadBlockProofs --------------------------
(***************************************************************************)
(* What the end of a block loses and what it frees too early.  When the    *)
(* main thread leaves the block, the event of each job that writes was     *)
(* reached, or the event of a later job that waited for it: only reading   *)
(* jobs that nothing waits for can be unfinished.                          *)
(***************************************************************************)
EXTENDS ThreadBlock, SequenceTheorems, TLAPS

Task == [kind : {"wait", "job", "destroy"}, on : Queue, for : Queue, at : Queue \X Nat]

TypeInv ==
  /\ kind \in [Ctrl -> {"MEMMOVES", "ZEROCOPY", "DRIVER"}]
  /\ pc \in [Thread -> {"none", "start", "run", "join", "barrier", "end", "block",
                        "destroy", "free", "destroyhost"}]
  /\ next \in Nat
  /\ queue \in [Queue -> Seq(Task)]
  /\ pushed \in [Queue -> Nat]
  /\ last_finished \in [Queue -> Nat]
  /\ event \in [Slot -> Queue \X Nat]
  /\ jobs \subseteq Queue \X Nat \X {"IN", "OUT", "IO"}
  /\ freed \subseteq Nat
  /\ destroyed \subseteq Queue
  /\ lost \subseteq jobs

InBlock == pc[MainThread] = "block"

\* The ctrl that Ctrl_EndBlock is at.
NextInv == pc[MainThread] \in {"block", "destroy", "free"} => next \in Ctrl

\* Before Ctrl_EndBlock nothing is freed; after it no call is made.
BlockInv == InBlock => freed = {} /\ destroyed = {} /\ lost = {}

\* Tasks in a queue are those pushed and not finished; a queue that is
\* destroyed gets at most the DESTROY of the main thread.
CountInv ==
  /\ \A q \in Queue \ destroyed : last_finished[q] + Len(queue[q]) = pushed[q]
  /\ \A q \in destroyed : \A i \in DOMAIN queue[q] : queue[q][i].kind = "destroy"

\* Jobs are numbered as they were pushed on the queues their ctrls have.
Done(j) == j[2] <= last_finished[j[1]]
JobInv ==
  \A j \in jobs :
    /\ j[1] = HostQueue \/ \E c \in Ctrl : j[1] \in QueuesOf(c)
    /\ 1 <= j[2] /\ j[2] <= pushed[j[1]]
    /\ j[1] \in destroyed => j[2] <= pushed[j[1]] - Len(queue[j[1]])

\* The tasks of a queue: jobs are those of the program, a wait is in front of
\* the job it is for, unless a MOVEFROM of a CPU ctrl put it on the stream of
\* the other direction; DESTROY comes when the block is over.
FollowedByJob(q, i) == \E k \in DOMAIN queue[q] : i < k /\ queue[q][k].kind = "job"
QueueInv ==
  \A q \in Queue : \A i \in DOMAIN queue[q] :
    /\ queue[q][i].kind = "job" =>
         \E r \in {"IN", "OUT", "IO"} : <<q, pushed[q] - Len(queue[q]) + i, r>> \in jobs
    /\ queue[q][i].kind = "wait" =>
         \/ queue[q][i].for = q /\ FollowedByJob(q, i)
         \/ queue[q][i].for # q /\ kind[q[1]] = "MEMMOVES"
    /\ queue[q][i].kind = "destroy" => ~InBlock

\* A thread that did not start took nothing from its queues.
Untouched(Q) == \A q \in Q : last_finished[q] = 0
StartInv ==
  /\ pc[MainThread] # "start" /\ pc[HostThread] # "start"
  /\ pc[Manager] = "start" => Untouched(DriverQueues)
  /\ \A c \in Ctrl :
       /\ pc[Spawner(c)] = "start" => ~Driver(c) /\ \A q \in QueuesOf(c) : pc[q] = "none"
       /\ ~Driver(c) => \A q \in QueuesOf(c) :
                          pc[q] \in {"none", "start"} => Untouched({q})
  /\ \A t \in CpuThread : pc[t] = "start" => ~Driver(t[1]) /\ t \in QueuesOf(t[1])

\* A set of positions in queues that has with a task not finished all that was
\* pushed before it, and what these wait for.
Position == Queue \X Nat
Closed(D) ==
  \A p \in D : p[2] > last_finished[p[1]] =>
    /\ \A i \in 1 .. p[2] : <<p[1], i>> \in D
    /\ \A i \in DOMAIN queue[p[1]] :
         queue[p[1]][i].kind = "wait" /\ last_finished[p[1]] + i <= p[2]
         => queue[p[1]][i].at \in D

\* Who waits for event e waits for job j.
Covers(e, j) ==
  \A D \in SUBSET Position : Closed(D) /\ e \in D => Done(j) \/ <<j[1], j[2]>> \in D

\* The slot where a job that writes records its event.
WriteSlot(q) ==
  IF q = HostQueue THEN <<Host, "write">>
  ELSE IF q = Htd(q[1]) THEN <<q[1], "htd">>
  ELSE IF q = Dth(q[1]) THEN <<q[1], "dth">>
  ELSE IF kind[q[1]] = "ZEROCOPY" THEN <<Host, "write">>
  ELSE <<q[1], "write">>

\* In the block the events of the tile cover all jobs that write; after it only
\* jobs nothing waits for are not finished.
CoverInv ==
  /\ InBlock => \A j \in jobs : j[3] # "IN" => Covers(event[WriteSlot(j[1])], j)
  /\ ~InBlock => \A j \in jobs : Done(j) \/ Overlooked(j)

BlockEndInv ==
  /\ TypeInv /\ NextInv /\ BlockInv /\ CountInv /\ JobInv /\ QueueInv /\ StartInv
  /\ CoverInv /\ NoJobLost

(* Queues and tasks.                                                       *)

\* The queues have different names.
LEMMA QueueNames ==
  /\ HostQueue \in Queue
  /\ \A c \in Ctrl : /\ Htd(c) \in Queue /\ Dth(c) \in Queue
                     /\ \A k \in 1 .. Streams : Kernel(c, k) \in Queue
                     /\ Kernel(c, 1) \in Queue
                     /\ QueuesOf(c) \subseteq Queue
                     /\ \A q \in QueuesOf(c) : q[1] = c
  /\ DriverQueues \subseteq Queue
  /\ \A q \in Queue : q # HostQueue => q[1] \in Ctrl
  /\ HostQueue[1] \notin Ctrl
<1>1. 1 \in 1 .. Streams /\ Ctrl \subseteq Nat
  BY ThreadBlockAssumption DEF Ctrl
<1>2. HostQueue \in Queue /\ HostQueue[1] \notin Ctrl
  BY <1>1 DEF Queue, HostQueue, Host
<1>3. ASSUME NEW c \in Ctrl
      PROVE  /\ Htd(c) \in Queue /\ Dth(c) \in Queue
             /\ \A k \in 1 .. Streams : Kernel(c, k) \in Queue
  BY DEF Queue
<1>4. ASSUME NEW c \in Ctrl
      PROVE  QueuesOf(c) \subseteq Queue /\ \A q \in QueuesOf(c) : q[1] = c
  <2>1. ASSUME NEW q \in QueuesOf(c)
        PROVE  q = Htd(c) \/ q = Dth(c) \/ \E k \in 1 .. Streams : q = Kernel(c, k)
    BY <1>1 DEF QueuesOf
  <2>2. \A k : Kernel(c, k)[1] = c
    BY DEF Kernel
  <2>3. Htd(c)[1] = c /\ Dth(c)[1] = c
    BY DEF Htd, Dth
  <2>. QED
    BY <1>3, <2>1, <2>2, <2>3
<1>5. DriverQueues \subseteq Queue
  BY <1>4 DEF DriverQueues
<1>6. ASSUME NEW q \in Queue, q # HostQueue
      PROVE  q[1] \in Ctrl
  BY <1>6 DEF Queue, Htd, Dth, Kernel
<1>. QED
  BY <1>1, <1>2, <1>3, <1>4, <1>5, <1>6

\* What a push leaves in a queue.
LEMMA PushLeaves ==
  ASSUME TypeInv, NEW tasks \in [Queue -> Seq(Task)], PushAll(tasks), NEW q \in Queue
  PROVE  /\ queue'[q] = queue[q] \o tasks[q] /\ queue'[q] \in Seq(Task)
         /\ pushed'[q] = pushed[q] + Len(tasks[q])
         /\ Len(queue'[q]) = Len(queue[q]) + Len(tasks[q])
         /\ pushed'[q] - Len(queue'[q]) = pushed[q] - Len(queue[q])
         /\ \A i \in DOMAIN queue[q] : i \in DOMAIN queue'[q] /\ queue'[q][i] = queue[q][i]
         /\ \A k \in DOMAIN tasks[q] : /\ Len(queue[q]) + k \in DOMAIN queue'[q]
                                       /\ queue'[q][Len(queue[q]) + k] = tasks[q][k]
         /\ \A i \in DOMAIN queue'[q] :
              \/ i \in DOMAIN queue[q]
              \/ \E k \in DOMAIN tasks[q] : i = Len(queue[q]) + k
<1>1. queue[q] \in Seq(Task) /\ tasks[q] \in Seq(Task) /\ pushed[q] \in Nat
  BY DEF TypeInv
<1>2. queue'[q] = queue[q] \o tasks[q] /\ pushed'[q] = pushed[q] + Len(tasks[q])
  BY DEF PushAll
<1>3. queue'[q] \in Seq(Task) /\ Len(queue'[q]) = Len(queue[q]) + Len(tasks[q])
  BY <1>1, <1>2
<1>4. DOMAIN queue[q] = 1 .. Len(queue[q]) /\ DOMAIN tasks[q] = 1 .. Len(tasks[q])
      /\ DOMAIN queue'[q] = 1 .. Len(queue'[q])
      /\ Len(queue[q]) \in Nat /\ Len(tasks[q]) \in Nat
  BY <1>1, <1>3
<1>5. \A i \in DOMAIN queue[q] : i \in DOMAIN queue'[q] /\ queue'[q][i] = queue[q][i]
  BY <1>1, <1>2, <1>3, <1>4
<1>6. ASSUME NEW k \in DOMAIN tasks[q]
      PROVE  /\ Len(queue[q]) + k \in DOMAIN queue'[q]
             /\ queue'[q][Len(queue[q]) + k] = tasks[q][k]
  BY <1>1, <1>2, <1>3, <1>4
<1>7. ASSUME NEW i \in DOMAIN queue'[q], i \notin DOMAIN queue[q]
      PROVE  \E k \in DOMAIN tasks[q] : i = Len(queue[q]) + k
  <2>1. i \in Nat /\ i > Len(queue[q]) /\ i <= Len(queue[q]) + Len(tasks[q])
    BY <1>3, <1>4, <1>7
  <2>2. i - Len(queue[q]) \in 1 .. Len(tasks[q]) /\ i = Len(queue[q]) + (i - Len(queue[q]))
    BY <1>4, <2>1
  <2>3. i - Len(queue[q]) \in DOMAIN tasks[q]
    BY <1>4, <2>2
  <2>. QED
    BY <2>2, <2>3
<1>8. pushed'[q] - Len(queue'[q]) = pushed[q] - Len(queue[q])
  BY <1>1, <1>2, <1>3, <1>4
<1>. QED
  BY <1>2, <1>3, <1>5, <1>6, <1>7, <1>8

\* What remains when the head of a queue is taken.
LEMMA TailLeaves ==
  ASSUME NEW s \in Seq(Task), s # <<>>
  PROVE  /\ Tail(s) \in Seq(Task) /\ Len(Tail(s)) = Len(s) - 1 /\ Head(s) = s[1]
         /\ 1 \in DOMAIN s /\ Len(s) \in Nat /\ Head(s) \in Task
         /\ \A i \in DOMAIN Tail(s) : i + 1 \in DOMAIN s /\ Tail(s)[i] = s[i + 1]
         /\ \A i \in DOMAIN s : i = 1 \/ (i - 1 \in DOMAIN Tail(s) /\ Tail(s)[i - 1] = s[i])
<1>1. Len(s) \in Nat /\ DOMAIN s = 1 .. Len(s) /\ Len(s) > 0 /\ Head(s) = s[1]
  OBVIOUS
<1>2. Tail(s) \in Seq(Task) /\ Len(Tail(s)) = Len(s) - 1
      /\ DOMAIN Tail(s) = 1 .. (Len(s) - 1)
  BY <1>1
<1>3. \A i \in 1 .. (Len(s) - 1) : Tail(s)[i] = s[i + 1]
  BY <1>1
<1>. QED
  BY <1>1, <1>2, <1>3

\* Sequences of waits.
LEMMA WaitsType ==
  ASSUME TypeInv, NEW slots \in Seq(Slot), NEW q \in Queue, NEW for \in Queue
  PROVE  /\ Waits(slots, q, for) \in [Queue -> Seq(Task)]
         /\ \A p \in Queue : p # q => Waits(slots, q, for)[p] = <<>>
         /\ DOMAIN Waits(slots, q, for)[q] = DOMAIN slots
         /\ Len(Waits(slots, q, for)[q]) = Len(slots)
         /\ \A i \in DOMAIN slots :
              Waits(slots, q, for)[q][i]
                = [kind |-> "wait", on |-> q, for |-> for, at |-> event[slots[i]]]
<1>. DEFINE W == [i \in DOMAIN slots |-> Wait(slots[i], q, for)]
<1>1. DOMAIN slots = 1 .. Len(slots) /\ Len(slots) \in Nat
      /\ \A i \in DOMAIN slots : slots[i] \in Slot
  OBVIOUS
<1>2. \A s \in Slot : Wait(s, q, for) \in Task
  BY DEF TypeInv, Wait, Task
<1>3. W \in Seq(Task) /\ Len(W) = Len(slots)
  BY <1>1, <1>2
<1>4. \A i \in DOMAIN slots : W[i] = Wait(slots[i], q, for)
  OBVIOUS
<1>5. Waits(slots, q, for) = [p \in Queue |-> IF p = q THEN W ELSE <<>>]
  BY DEF Waits, On
<1>. HIDE DEF W
<1>6. << >> \in Seq(Task)
  OBVIOUS
<1>7. DOMAIN W = DOMAIN slots
  BY <1>1, <1>3
<1>. QED
  BY <1>3, <1>4, <1>5, <1>6, <1>7 DEF Wait

\* Tasks behind others.
LEMMA ThenLeaves ==
  ASSUME NEW f \in [Queue -> Seq(Task)], NEW g \in [Queue -> Seq(Task)]
  PROVE  /\ Then(f, g) \in [Queue -> Seq(Task)]
         /\ \A q \in Queue :
              /\ Len(Then(f, g)[q]) = Len(f[q]) + Len(g[q])
              /\ Len(f[q]) \in Nat /\ Len(g[q]) \in Nat
              /\ DOMAIN f[q] = 1 .. Len(f[q]) /\ DOMAIN g[q] = 1 .. Len(g[q])
              /\ DOMAIN Then(f, g)[q] = 1 .. Len(f[q]) + Len(g[q])
              /\ \A i \in DOMAIN f[q] : Then(f, g)[q][i] = f[q][i]
              /\ \A i \in DOMAIN g[q] : Then(f, g)[q][Len(f[q]) + i] = g[q][i]
<1>1. ASSUME NEW q \in Queue
      PROVE  /\ Then(f, g)[q] = f[q] \o g[q]
             /\ f[q] \in Seq(Task) /\ g[q] \in Seq(Task)
  BY DEF Then
<1>2. ASSUME NEW q \in Queue
      PROVE  /\ Then(f, g)[q] \in Seq(Task)
             /\ Len(Then(f, g)[q]) = Len(f[q]) + Len(g[q])
             /\ Len(f[q]) \in Nat /\ Len(g[q]) \in Nat
             /\ DOMAIN f[q] = 1 .. Len(f[q]) /\ DOMAIN g[q] = 1 .. Len(g[q])
             /\ DOMAIN Then(f, g)[q] = 1 .. Len(f[q]) + Len(g[q])
  <2>. DEFINE s == f[q]  t == g[q]  u == Then(f, g)[q]
  <2>1. s \in Seq(Task) /\ t \in Seq(Task) /\ u = s \o t
    BY <1>1
  <2>. HIDE DEF s, t, u
  <2>2. u \in Seq(Task) /\ Len(u) = Len(s) + Len(t)
    BY <2>1
  <2>. QED
    BY <2>1, <2>2 DEF s, t, u
<1>3. ASSUME NEW q \in Queue
      PROVE  /\ \A i \in DOMAIN f[q] : Then(f, g)[q][i] = f[q][i]
             /\ \A i \in DOMAIN g[q] : Then(f, g)[q][Len(f[q]) + i] = g[q][i]
  <2>. DEFINE s == f[q]  t == g[q]  u == Then(f, g)[q]
  <2>1. s \in Seq(Task) /\ t \in Seq(Task) /\ u = s \o t
    BY <1>1
  <2>. HIDE DEF s, t, u
  <2>2. \A i \in DOMAIN s : u[i] = s[i]
    BY <2>1
  <2>3. \A i \in DOMAIN t : u[Len(s) + i] = t[i]
    BY <2>1
  <2>. QED
    BY <2>2, <2>3 DEF s, t, u
<1>4. Then(f, g) \in [Queue -> Seq(Task)]
  BY <1>2 DEF Then
<1>. QED
  BY <1>2, <1>3, <1>4

(* A call of the program.                                                  *)

\* What a call must wait for: what it records anew covers what it covered.
GoodWaits(waits, q, r, slots) ==
  /\ waits \in [Queue -> Seq(Task)]
  /\ q \in Queue /\ (q = HostQueue \/ \E c \in Ctrl : q \in QueuesOf(c))
  /\ r \in {"IN", "OUT", "IO"}
  /\ \A p \in Queue : \A i \in DOMAIN waits[p] :
       /\ waits[p][i].kind = "wait"
       /\ waits[p][i].for = p => p = q
       /\ waits[p][i].for # p => kind[p[1]] = "MEMMOVES"
  /\ r # "IN" => WriteSlot(q) \in slots
  /\ \A j \in jobs : j[3] # "IN" /\ WriteSlot(j[1]) \in slots =>
       \/ j[1] = q
       \/ \E i \in DOMAIN waits[q] : waits[q][i].at = event[WriteSlot(j[1])]

\* The tasks a call pushes: its waits, and the job on q.
LEMMA CallTasks ==
  ASSUME NEW q \in Queue, NEW waits \in [Queue -> Seq(Task)]
  PROVE  /\ Then(waits, Job(q)) \in [Queue -> Seq(Task)]
         /\ Len(Then(waits, Job(q))[q]) = Len(waits[q]) + 1
         /\ DOMAIN Then(waits, Job(q))[q] = 1 .. Len(waits[q]) + 1
         /\ Len(waits[q]) \in Nat
         /\ Then(waits, Job(q))[q][Len(waits[q]) + 1].kind = "job"
         /\ \A p \in Queue : \A i \in DOMAIN waits[p] :
              i \in DOMAIN Then(waits, Job(q))[p] /\ Then(waits, Job(q))[p][i] = waits[p][i]
         /\ \A p \in Queue : \A i \in DOMAIN Then(waits, Job(q))[p] :
              i \in DOMAIN waits[p] \/ (p = q /\ i = Len(waits[q]) + 1)
<1>. DEFINE t == [kind |-> "job", on |-> q, for |-> q, at |-> Unrecorded]
<1>1. t \in Task
  BY QueueNames DEF Task, Unrecorded
<1>2. Job(q) = [p \in Queue |-> IF p = q THEN <<t>> ELSE <<>>]
  BY DEF Job, On
<1>3. t.kind = "job"
  OBVIOUS
<1>. HIDE DEF t
<1>4. << t >> \in Seq(Task) /\ << >> \in Seq(Task) /\ Len(<<t>>) = 1 /\ <<t>>[1] = t
      /\ Len(<< >>) = 0
  BY <1>1
<1>5. Job(q) \in [Queue -> Seq(Task)] /\ Len(Job(q)[q]) = 1 /\ Job(q)[q][1].kind = "job"
      /\ \A p \in Queue : p # q => Len(Job(q)[p]) = 0
  BY <1>2, <1>3, <1>4
<1>. DEFINE f == Job(q)
<1>6. f \in [Queue -> Seq(Task)] /\ Len(f[q]) = 1 /\ f[q][1].kind = "job"
      /\ \A p \in Queue : p # q => Len(f[p]) = 0
  BY <1>5
<1>. HIDE DEF f
<1>. DEFINE g == Then(waits, f)
<1>7. /\ g \in [Queue -> Seq(Task)]
      /\ \A p \in Queue :
           /\ Len(g[p]) = Len(waits[p]) + Len(f[p])
           /\ Len(waits[p]) \in Nat /\ Len(f[p]) \in Nat
           /\ DOMAIN waits[p] = 1 .. Len(waits[p]) /\ DOMAIN f[p] = 1 .. Len(f[p])
           /\ DOMAIN g[p] = 1 .. Len(waits[p]) + Len(f[p])
           /\ \A i \in DOMAIN waits[p] : g[p][i] = waits[p][i]
           /\ \A i \in DOMAIN f[p] : g[p][Len(waits[p]) + i] = f[p][i]
  BY <1>6, ThenLeaves
<1>. HIDE DEF g
<1>8. Len(g[q]) = Len(waits[q]) + 1 /\ DOMAIN g[q] = 1 .. Len(waits[q]) + 1
      /\ Len(waits[q]) \in Nat /\ g[q][Len(waits[q]) + 1].kind = "job"
  <2>1. 1 \in DOMAIN f[q]
    BY <1>6, <1>7
  <2>. QED
    BY <1>6, <1>7, <2>1
<1>9. ASSUME NEW p \in Queue, NEW i \in DOMAIN waits[p]
      PROVE  i \in DOMAIN g[p] /\ g[p][i] = waits[p][i]
  <2>1. i \in 1 .. Len(waits[p]) /\ Len(waits[p]) \in Nat /\ Len(f[p]) \in Nat
    BY <1>7
  <2>2. i \in 1 .. Len(waits[p]) + Len(f[p])
    BY <2>1
  <2>3. DOMAIN g[p] = 1 .. Len(waits[p]) + Len(f[p]) /\ g[p][i] = waits[p][i]
    BY <1>7
  <2>. QED
    BY <2>2, <2>3
<1>10. ASSUME NEW p \in Queue, NEW i \in DOMAIN g[p], i \notin DOMAIN waits[p]
       PROVE  p = q /\ i = Len(waits[q]) + 1
  <2>1. /\ i \in 1 .. Len(waits[p]) + Len(f[p]) /\ i \notin 1 .. Len(waits[p])
        /\ Len(waits[p]) \in Nat /\ Len(f[p]) \in Nat
    BY <1>7, <1>10
  <2>2. Len(f[p]) # 0
    BY <2>1
  <2>3. p = q /\ Len(f[p]) = 1
    BY <1>6, <2>2
  <2>. QED
    BY <2>1, <2>3
<1>. QED
  BY <1>7, <1>8, <1>9, <1>10 DEF f, g

\* A call keeps types, counts, jobs and queues.
LEMMA CallKeepsQueues ==
  ASSUME BlockEndInv, NEW waits, NEW q, NEW r, NEW slots \in SUBSET Slot,
         GoodWaits(waits, q, r, slots), Enqueue(waits, q, r, slots)
  PROVE  /\ TypeInv' /\ NextInv' /\ BlockInv' /\ CountInv' /\ JobInv' /\ QueueInv'
         /\ StartInv' /\ NoJobLost' /\ InBlock /\ InBlock'
         /\ pushed'[q] = pushed[q] + Len(waits[q]) + 1
         /\ \A i \in DOMAIN waits[q] : last_finished[q] + Len(queue[q]) + i < pushed'[q]
<1>. DEFINE tasks == Then(waits, Job(q))
            k == <<q, pushed'[q], r>>
<1>1. /\ TypeInv /\ BlockInv /\ CountInv /\ JobInv /\ QueueInv /\ StartInv /\ CoverInv
      /\ NoJobLost
      /\ q \in Queue /\ waits \in [Queue -> Seq(Task)] /\ r \in {"IN", "OUT", "IO"}
  BY DEF BlockEndInv, GoodWaits
<1>2. /\ PushAll(tasks) /\ InBlock /\ InBlock' /\ jobs' = jobs \cup {k}
      /\ event' = [s \in Slot |-> IF s \in slots THEN <<q, pushed'[q]>> ELSE event[s]]
      /\ UNCHANGED <<kind, pc, next, freed, destroyed, lost, last_finished>>
      /\ freed = {} /\ destroyed = {} /\ lost = {}
  BY <1>1 DEF Enqueue, PushAll, InBlock, BlockInv
<1>3. /\ tasks \in [Queue -> Seq(Task)]
      /\ Len(tasks[q]) = Len(waits[q]) + 1 /\ DOMAIN tasks[q] = 1 .. Len(waits[q]) + 1
      /\ Len(waits[q]) \in Nat /\ tasks[q][Len(waits[q]) + 1].kind = "job"
      /\ \A p \in Queue : \A i \in DOMAIN waits[p] :
           i \in DOMAIN tasks[p] /\ tasks[p][i] = waits[p][i]
      /\ \A p \in Queue : \A i \in DOMAIN tasks[p] :
           i \in DOMAIN waits[p] \/ (p = q /\ i = Len(waits[q]) + 1)
  BY <1>1, CallTasks
<1>. HIDE DEF tasks
<1>4. \A p \in Queue :
         /\ queue'[p] \in Seq(Task)
         /\ pushed'[p] = pushed[p] + Len(tasks[p])
         /\ Len(queue'[p]) = Len(queue[p]) + Len(tasks[p])
         /\ pushed'[p] - Len(queue'[p]) = pushed[p] - Len(queue[p])
         /\ \A i \in DOMAIN queue[p] : i \in DOMAIN queue'[p] /\ queue'[p][i] = queue[p][i]
         /\ \A i \in DOMAIN tasks[p] : /\ Len(queue[p]) + i \in DOMAIN queue'[p]
                                       /\ queue'[p][Len(queue[p]) + i] = tasks[p][i]
         /\ \A i \in DOMAIN queue'[p] :
              \/ i \in DOMAIN queue[p]
              \/ \E n \in DOMAIN tasks[p] : i = Len(queue[p]) + n
  <2>1. tasks \in [Queue -> Seq(Task)] /\ PushAll(tasks) /\ TypeInv
    BY <1>1, <1>2, <1>3
  <2>. QED
    BY <2>1, PushLeaves, Zenon
<1>5. \A p \in Queue : /\ queue[p] \in Seq(Task) /\ Len(queue[p]) \in Nat
                       /\ DOMAIN queue[p] = 1 .. Len(queue[p])
                       /\ DOMAIN waits[p] = 1 .. Len(waits[p]) /\ Len(waits[p]) \in Nat
                       /\ Len(tasks[p]) \in Nat /\ pushed[p] \in Nat
                       /\ last_finished[p] \in Nat
  <2>1. \A p \in Queue : queue[p] \in Seq(Task) /\ waits[p] \in Seq(Task)
                         /\ tasks[p] \in Seq(Task) /\ pushed[p] \in Nat
                         /\ last_finished[p] \in Nat
    BY <1>1, <1>3 DEF TypeInv
  <2>. QED
    BY <2>1
<1>6. ASSUME NEW p \in Queue
      PROVE  pushed'[p] \in Nat /\ pushed[p] <= pushed'[p]
  <2>1. pushed'[p] = pushed[p] + Len(tasks[p]) /\ Len(tasks[p]) \in Nat /\ pushed[p] \in Nat
    BY <1>4, <1>5
  <2>. QED
    BY <2>1
<1>7. pushed'[q] = pushed[q] + Len(waits[q]) + 1
      /\ \A i \in DOMAIN waits[q] : last_finished[q] + Len(queue[q]) + i < pushed'[q]
  <2>1. last_finished[q] + Len(queue[q]) = pushed[q]
    BY <1>1, <1>2 DEF CountInv
  <2>2. pushed'[q] = pushed[q] + (Len(waits[q]) + 1)
    BY <1>1, <1>3, <1>4
  <2>3. /\ DOMAIN waits[q] = 1 .. Len(waits[q]) /\ Len(waits[q]) \in Nat
        /\ Len(queue[q]) \in Nat /\ pushed[q] \in Nat /\ last_finished[q] \in Nat
    BY <1>1, <1>5
  <2>. DEFINE a == Len(waits[q])  b == Len(queue[q])  u == pushed[q]  v == pushed'[q]
              x == last_finished[q]  W == DOMAIN waits[q]
  <2>4. x + b = u /\ v = u + (a + 1) /\ W = 1 .. a /\ a \in Nat /\ b \in Nat
        /\ u \in Nat /\ x \in Nat
    BY <2>1, <2>2, <2>3
  <2>. HIDE DEF a, b, u, v, x, W
  <2>5. v = u + a + 1 /\ \A i \in W : x + b + i < v
    BY <2>4
  <2>. QED
    BY <2>5 DEF a, b, u, v, x, W
<1>8. TypeInv'
  <2>1. k \in Queue \X Nat \X {"IN", "OUT", "IO"}
    BY <1>1, <1>6
  <2>2. jobs' \subseteq Queue \X Nat \X {"IN", "OUT", "IO"}
    BY <1>1, <1>2, <2>1 DEF TypeInv
  <2>3. queue' \in [Queue -> Seq(Task)] /\ pushed' \in [Queue -> Nat]
    BY <1>2, <1>4, <1>6 DEF PushAll
  <2>4. event' \in [Slot -> Queue \X Nat]
    BY <1>1, <1>2, <1>6 DEF TypeInv
  <2>5. lost' \subseteq jobs' /\ last_finished' \in [Queue -> Nat]
    BY <1>1, <1>2 DEF TypeInv
  <2>. QED
    BY <1>1, <1>2, <2>2, <2>3, <2>4, <2>5 DEF TypeInv
<1>9. NextInv' /\ BlockInv' /\ NoJobLost'
  BY <1>2 DEF NextInv, BlockInv, NoJobLost, BlockEndInv
<1>10. CountInv'
  <2>1. ASSUME NEW p \in Queue
        PROVE  last_finished'[p] + Len(queue'[p]) = pushed'[p]
    <3>1. last_finished[p] + Len(queue[p]) = pushed[p]
      BY <1>1, <1>2 DEF CountInv
    <3>2. /\ pushed'[p] = pushed[p] + Len(tasks[p])
          /\ Len(queue'[p]) = Len(queue[p]) + Len(tasks[p])
      BY <1>4
    <3>3. Len(tasks[p]) \in Nat /\ Len(queue[p]) \in Nat /\ last_finished[p] \in Nat
      BY <1>5
    <3>4. last_finished'[p] = last_finished[p]
      BY <1>2
    <3>. DEFINE a == Len(tasks[p])  b == Len(queue[p])  d == Len(queue'[p])
                u == pushed[p]  v == pushed'[p]  x == last_finished[p]
    <3>5. x + b = u /\ v = u + a /\ d = b + a /\ a \in Nat /\ b \in Nat /\ x \in Nat
      BY <3>1, <3>2, <3>3
    <3>. HIDE DEF a, b, d, u, v, x
    <3>6. x + d = v
      BY <3>5
    <3>. QED
      BY <3>4, <3>6 DEF d, v, x
  <2>. QED
    BY <1>2, <2>1 DEF CountInv
<1>11. JobInv'
  <2>1. ASSUME NEW j \in jobs
        PROVE  /\ j[1] = HostQueue \/ \E c \in Ctrl : j[1] \in QueuesOf(c)'
               /\ 1 <= j[2] /\ j[2] <= pushed'[j[1]]
    <3>1. /\ j[1] = HostQueue \/ \E c \in Ctrl : j[1] \in QueuesOf(c)
          /\ 1 <= j[2] /\ j[2] <= pushed[j[1]] /\ j[1] \in Queue /\ j[2] \in Nat
      BY <1>1 DEF JobInv, TypeInv
    <3>2. \A c \in Ctrl : QueuesOf(c)' = QueuesOf(c)
      BY <1>2 DEF QueuesOf, Driver
    <3>. QED
      BY <1>5, <1>6, <3>1, <3>2
  <2>2. k[1] = HostQueue \/ \E c \in Ctrl : k[1] \in QueuesOf(c)'
    <3>1. \A c \in Ctrl : QueuesOf(c)' = QueuesOf(c)
      BY <1>2 DEF QueuesOf, Driver
    <3>2. q = HostQueue \/ \E c \in Ctrl : q \in QueuesOf(c)
      BY DEF GoodWaits
    <3>. QED
      BY <3>1, <3>2
  <2>3. 1 <= k[2] /\ k[2] <= pushed'[k[1]]
    BY <1>1, <1>5, <1>6, <1>7
  <2>. HIDE DEF k
  <2>. QED
    BY <1>2, <2>1, <2>2, <2>3 DEF JobInv
<1>12. QueueInv'
  <2>1. ASSUME NEW p \in Queue, NEW i \in DOMAIN queue[p], queue[p][i].kind = "job"
        PROVE  \E x \in {"IN", "OUT", "IO"} :
                 <<p, pushed'[p] - Len(queue'[p]) + i, x>> \in jobs'
    <3>1. PICK x \in {"IN", "OUT", "IO"} : <<p, pushed[p] - Len(queue[p]) + i, x>> \in jobs
      BY <1>1, <2>1 DEF QueueInv
    <3>2. pushed'[p] - Len(queue'[p]) = pushed[p] - Len(queue[p])
      BY <1>4
    <3>. QED
      BY <1>2, <3>1, <3>2
  <2>2. ASSUME NEW p \in Queue, NEW i \in DOMAIN queue[p], queue[p][i].kind = "wait"
        PROVE  \/ queue'[p][i].for = p /\ FollowedByJob(p, i)'
               \/ queue'[p][i].for # p /\ kind'[p[1]] = "MEMMOVES"
    <3>1. \/ queue[p][i].for = p /\ FollowedByJob(p, i)
          \/ queue[p][i].for # p /\ kind[p[1]] = "MEMMOVES"
      BY <1>1, <2>2 DEF QueueInv
    <3>2. FollowedByJob(p, i) => FollowedByJob(p, i)'
      BY <1>4 DEF FollowedByJob
    <3>. QED
      BY <1>2, <1>4, <3>1, <3>2
  <2>3. ASSUME NEW p \in Queue, NEW n \in DOMAIN tasks[p], n \notin DOMAIN waits[p]
        PROVE  /\ p = q /\ tasks[p][n].kind = "job"
               /\ <<p, pushed'[p] - Len(queue'[p]) + (Len(queue[p]) + n), r>> \in jobs'
    <3>1. p = q /\ n = Len(waits[q]) + 1
      BY <1>3, <2>3
    <3>2. pushed'[q] - Len(queue'[q]) + (Len(queue[q]) + n) = pushed'[q]
      <4>1. Len(queue'[q]) = Len(queue[q]) + (Len(waits[q]) + 1)
        BY <1>1, <1>3, <1>4
      <4>2. Len(queue[q]) \in Nat /\ Len(waits[q]) \in Nat /\ pushed'[q] \in Nat
        BY <1>1, <1>5, <1>6
      <4>. DEFINE a == Len(waits[q])  b == Len(queue[q])  d == Len(queue'[q])
                  v == pushed'[q]
      <4>3. d = b + (a + 1) /\ n = a + 1 /\ a \in Nat /\ b \in Nat /\ v \in Nat
        BY <3>1, <4>1, <4>2
      <4>. HIDE DEF a, b, d, v
      <4>4. v - d + (b + n) = v
        BY <4>3
      <4>. QED
        BY <4>4 DEF b, d, v
    <3>. QED
      BY <1>2, <1>3, <3>1, <3>2
  <2>4. ASSUME NEW p \in Queue, NEW n \in DOMAIN waits[p],
               NEW i, i = Len(queue[p]) + n
        PROVE  /\ tasks[p][n].kind = "wait"
               /\ \/ tasks[p][n].for = p /\ FollowedByJob(p, i)'
                  \/ tasks[p][n].for # p /\ kind'[p[1]] = "MEMMOVES"
    <3>1. tasks[p][n] = waits[p][n] /\ waits[p][n].kind = "wait"
          /\ (waits[p][n].for = p => p = q)
          /\ (waits[p][n].for # p => kind[p[1]] = "MEMMOVES")
      BY <1>3 DEF GoodWaits
    <3>2. ASSUME p = q
          PROVE  FollowedByJob(p, i)'
      <4>1. /\ Len(queue[q]) + (Len(waits[q]) + 1) \in DOMAIN queue'[q]
            /\ queue'[q][Len(queue[q]) + (Len(waits[q]) + 1)].kind = "job"
        <5>1. Len(waits[q]) + 1 \in DOMAIN tasks[q]
          BY <1>3
        <5>. QED
          BY <1>1, <1>3, <1>4, <5>1
      <4>2. Len(queue[p]) + n < Len(queue[q]) + (Len(waits[q]) + 1)
        <5>. DEFINE a == Len(waits[q])  b == Len(queue[q])
        <5>1. n \in 1 .. a /\ a \in Nat /\ b \in Nat
          BY <1>1, <1>5, <3>2
        <5>. HIDE DEF a, b
        <5>2. b + n < b + (a + 1)
          BY <5>1
        <5>. QED
          BY <3>2, <5>2 DEF a, b
      <4>. DEFINE m == Len(queue[q]) + (Len(waits[q]) + 1)
      <4>3. m \in DOMAIN queue'[p] /\ queue'[p][m].kind = "job" /\ i < m
        BY <2>4, <3>2, <4>1, <4>2
      <4>. HIDE DEF m
      <4>. QED
        BY <4>3 DEF FollowedByJob
    <3>. QED
      BY <1>2, <3>1, <3>2
  <2>5. ASSUME NEW p \in Queue, NEW i \in DOMAIN queue'[p]
        PROVE  /\ queue'[p][i].kind = "job" =>
                    \E x \in {"IN", "OUT", "IO"} :
                      <<p, pushed'[p] - Len(queue'[p]) + i, x>> \in jobs'
               /\ queue'[p][i].kind = "wait" =>
                    \/ queue'[p][i].for = p /\ FollowedByJob(p, i)'
                    \/ queue'[p][i].for # p /\ kind'[p[1]] = "MEMMOVES"
               /\ queue'[p][i].kind # "destroy"
    <3>1. CASE i \in DOMAIN queue[p]
      <4>1. queue'[p][i] = queue[p][i]
        BY <1>4, <3>1
      <4>2. queue[p][i].kind # "destroy"
        BY <1>1, <1>2, <3>1 DEF QueueInv
      <4>. QED
        BY <2>1, <2>2, <3>1, <4>1, <4>2
    <3>2. CASE i \notin DOMAIN queue[p]
      <4>1. PICK n \in DOMAIN tasks[p] : i = Len(queue[p]) + n
        BY <1>4, <3>2
      <4>2. queue'[p][i] = tasks[p][n]
        BY <1>4, <4>1
      <4>3. CASE n \in DOMAIN waits[p]
        <5>1. /\ tasks[p][n].kind = "wait"
              /\ \/ tasks[p][n].for = p /\ FollowedByJob(p, i)'
                 \/ tasks[p][n].for # p /\ kind'[p[1]] = "MEMMOVES"
          BY <2>4, <4>1, <4>3
        <5>. QED
          BY <4>2, <5>1
      <4>4. CASE n \notin DOMAIN waits[p]
        BY <1>1, <2>3, <4>1, <4>2, <4>4
      <4>. QED
        BY <4>3, <4>4
    <3>. QED
      BY <3>1, <3>2
  <2>. QED
    BY <2>5 DEF QueueInv
<1>13. StartInv'
  BY <1>1, <1>2 DEF StartInv, Untouched, QueuesOf, DriverQueues, Driver
<1>. QED
  BY <1>2, <1>7, <1>8, <1>9, <1>10, <1>11, <1>12, <1>13

\* The slot of a queue's writing jobs is one of the tile's.
LEMMA WriteSlotType ==
  ASSUME NEW q \in Queue
  PROVE  WriteSlot(q) \in Slot
<1>1. q = HostQueue \/ q[1] \in Ctrl
  BY QueueNames
<1>. QED
  BY <1>1 DEF WriteSlot, Slot

\* A call keeps that events cover writing jobs.
LEMMA CallKeepsCover ==
  ASSUME BlockEndInv, NEW waits, NEW q, NEW r, NEW slots \in SUBSET Slot,
         GoodWaits(waits, q, r, slots), Enqueue(waits, q, r, slots)
  PROVE  CoverInv'
<1>. DEFINE tasks == Then(waits, Job(q))
            k == <<q, pushed'[q], r>>
            e == <<q, pushed'[q]>>
<1>1. /\ TypeInv /\ JobInv /\ CoverInv /\ CountInv /\ BlockInv
      /\ q \in Queue /\ waits \in [Queue -> Seq(Task)] /\ r \in {"IN", "OUT", "IO"}
  BY DEF BlockEndInv, GoodWaits
<1>2. /\ PushAll(tasks) /\ jobs' = jobs \cup {k}
      /\ event' = [s \in Slot |-> IF s \in slots THEN e ELSE event[s]]
      /\ UNCHANGED <<kind, last_finished>>
  BY <1>1 DEF Enqueue, PushAll
<1>3. /\ TypeInv' /\ InBlock /\ InBlock' /\ CountInv'
      /\ pushed'[q] = pushed[q] + Len(waits[q]) + 1
      /\ \A i \in DOMAIN waits[q] : last_finished[q] + Len(queue[q]) + i < pushed'[q]
  BY CallKeepsQueues
<1>4. /\ tasks \in [Queue -> Seq(Task)]
      /\ \A i \in DOMAIN waits[q] : i \in DOMAIN tasks[q] /\ tasks[q][i] = waits[q][i]
  BY <1>1, CallTasks
<1>. HIDE DEF tasks
<1>5. \A p \in Queue :
         /\ \A i \in DOMAIN queue[p] : i \in DOMAIN queue'[p] /\ queue'[p][i] = queue[p][i]
         /\ \A i \in DOMAIN tasks[p] : /\ Len(queue[p]) + i \in DOMAIN queue'[p]
                                       /\ queue'[p][Len(queue[p]) + i] = tasks[p][i]
  BY <1>1, <1>2, <1>4, PushLeaves
<1>6. /\ pushed[q] \in Nat /\ pushed'[q] \in Nat /\ last_finished[q] \in Nat
      /\ Len(waits[q]) \in Nat /\ Len(queue[q]) \in Nat
      /\ DOMAIN waits[q] \subseteq Nat
  <2>1. waits[q] \in Seq(Task) /\ queue[q] \in Seq(Task)
    BY <1>1 DEF TypeInv
  <2>2. pushed[q] \in Nat /\ pushed'[q] \in Nat /\ last_finished[q] \in Nat
    BY <1>1, <1>3 DEF TypeInv
  <2>. QED
    BY <2>1, <2>2
<1>7. pushed[q] < pushed'[q] /\ last_finished'[q] = last_finished[q]
      /\ last_finished[q] < pushed'[q] /\ 1 <= pushed'[q]
  <2>1. last_finished[q] + Len(queue[q]) = pushed[q]
    BY <1>1, <1>3 DEF CountInv, BlockInv
  <2>. DEFINE a == Len(waits[q])  b == Len(queue[q])  u == pushed[q]  v == pushed'[q]
              x == last_finished[q]
  <2>2. x + b = u /\ v = u + a + 1 /\ a \in Nat /\ b \in Nat /\ x \in Nat /\ u \in Nat
    BY <1>3, <1>6, <2>1
  <2>. HIDE DEF a, b, u, v, x
  <2>3. u < v /\ x < v /\ 1 <= v
    BY <2>2
  <2>. QED
    BY <1>2, <2>3 DEF u, v, x
<1>8. ASSUME NEW D \in SUBSET Position, Closed(D)'
      PROVE  Closed(D)
  <2>1. ASSUME NEW p \in D, p[2] > last_finished[p[1]]
        PROVE  /\ \A i \in 1 .. p[2] : <<p[1], i>> \in D
               /\ \A i \in DOMAIN queue[p[1]] :
                    queue[p[1]][i].kind = "wait" /\ last_finished[p[1]] + i <= p[2]
                    => queue[p[1]][i].at \in D
    <3>1. p[1] \in Queue
      BY DEF Position
    <3>2. /\ \A i \in 1 .. p[2] : <<p[1], i>> \in D
          /\ \A i \in DOMAIN queue'[p[1]] :
               queue'[p[1]][i].kind = "wait" /\ last_finished[p[1]] + i <= p[2]
               => queue'[p[1]][i].at \in D
      BY <1>2, <1>8, <2>1 DEF Closed
    <3>. QED
      BY <1>5, <3>1, <3>2
  <2>. QED
    BY <2>1 DEF Closed
<1>9. ASSUME NEW D \in SUBSET Position, Closed(D)', e \in D
      PROVE  /\ \A i \in 1 .. pushed'[q] : <<q, i>> \in D
             /\ \A i \in DOMAIN waits[q] : waits[q][i].kind = "wait" => waits[q][i].at \in D
  <2>1. e[1] = q /\ e[2] = pushed'[q]
    OBVIOUS
  <2>. HIDE DEF e
  <2>2. e[2] > last_finished'[e[1]]
    BY <1>6, <1>7, <2>1
  <2>3. /\ \A i \in 1 .. pushed'[q] : <<q, i>> \in D
        /\ \A i \in DOMAIN queue'[q] :
             queue'[q][i].kind = "wait" /\ last_finished'[q] + i <= pushed'[q]
             => queue'[q][i].at \in D
    BY <1>9, <2>1, <2>2 DEF Closed
  <2>4. ASSUME NEW i \in DOMAIN waits[q], waits[q][i].kind = "wait"
        PROVE  waits[q][i].at \in D
    <3>. DEFINE m == Len(queue[q]) + i
    <3>1. m \in DOMAIN queue'[q] /\ queue'[q][m] = waits[q][i]
      BY <1>1, <1>4, <1>5
    <3>2. last_finished'[q] + m <= pushed'[q]
      <4>. DEFINE b == Len(queue[q])  v == pushed'[q]  x == last_finished[q]
      <4>1. x + b + i < v /\ x \in Nat /\ b \in Nat /\ i \in Nat /\ v \in Nat
        BY <1>3, <1>6
      <4>2. m = b + i /\ last_finished'[q] = x
        BY <1>7
      <4>. HIDE DEF b, v, x, m
      <4>3. x + m <= v
        BY <4>1, <4>2
      <4>. QED
        BY <4>2, <4>3 DEF v
    <3>. HIDE DEF m
    <3>. QED
      BY <2>3, <2>4, <3>1, <3>2
  <2>. QED
    BY <2>3, <2>4
<1>10. \A p \in Queue : WriteSlot(p)' = WriteSlot(p)
  BY <1>2 DEF WriteSlot
<1>11. ASSUME NEW j \in jobs, j[3] # "IN"
       PROVE  Covers(event[WriteSlot(j[1])], j)'
  <2>. DEFINE s == WriteSlot(j[1])
  <2>1. /\ j[1] \in Queue /\ j[2] \in Nat /\ 1 <= j[2] /\ j[2] <= pushed[j[1]] /\ s \in Slot
        /\ Covers(event[s], j) /\ WriteSlot(j[1])' = s
    BY <1>1, <1>3, <1>10, <1>11, WriteSlotType DEF TypeInv, JobInv, CoverInv
  <2>2. Done(j) <=> Done(j)'
    BY <1>2 DEF Done
  <2>. HIDE DEF s
  <2>3. ASSUME NEW D \in SUBSET Position, Closed(D)', event'[s] \in D
        PROVE  Done(j)' \/ <<j[1], j[2]>> \in D
    <3>1. Closed(D)
      BY <1>8, <2>3
    <3>2. CASE s \notin slots
      BY <1>2, <2>1, <2>2, <2>3, <3>1, <3>2 DEF Covers
    <3>3. CASE s \in slots
      <4>1. e \in D
        BY <1>2, <2>1, <2>3, <3>3
      <4>2. CASE j[1] = q
        <5>1. j[2] \in 1 .. pushed'[q]
          BY <1>6, <1>7, <2>1, <4>2
        <5>. QED
          BY <1>9, <2>3, <4>1, <4>2, <5>1
      <4>3. CASE j[1] # q
        <5>1. \E i \in DOMAIN waits[q] : waits[q][i].at = event[s]
          BY <1>11, <3>3, <4>3 DEF GoodWaits, s
        <5>2. \A i \in DOMAIN waits[q] : waits[q][i].kind = "wait"
          BY <1>1 DEF GoodWaits
        <5>3. event[s] \in D
          BY <1>9, <2>3, <4>1, <5>1, <5>2
        <5>. QED
          BY <2>1, <2>2, <3>1, <5>3 DEF Covers
      <4>. QED
        BY <4>2, <4>3
    <3>. QED
      BY <3>2, <3>3
  <2>4. event[WriteSlot(j[1])]' = event'[s]
    BY <2>1
  <2>5. \A D \in SUBSET Position :
          Closed(D)' /\ event'[s] \in D => Done(j)' \/ <<j[1], j[2]>> \in D
    BY <2>3
  <2>. QED
    BY <2>4, <2>5 DEF Covers
<1>12. ASSUME NEW j, j = k, r # "IN"
       PROVE  Covers(event[WriteSlot(j[1])], j)'
  <2>1. WriteSlot(q)' = WriteSlot(q) /\ WriteSlot(q) \in slots /\ WriteSlot(q) \in Slot
    BY <1>1, <1>10, <1>12, WriteSlotType DEF GoodWaits
  <2>2. j[1] = q /\ j[2] = pushed'[q]
    BY <1>12
  <2>3. event[WriteSlot(j[1])]' = <<j[1], j[2]>>
    BY <1>2, <2>1, <2>2
  <2>. QED
    BY <2>3 DEF Covers
<1>13. ASSUME NEW j \in jobs', j[3] # "IN"
       PROVE  Covers(event[WriteSlot(j[1])], j)'
  <2>1. CASE j \in jobs
    BY <1>11, <1>13, <2>1
  <2>2. CASE j = k
    <3>1. r # "IN"
      BY <1>13, <2>2
    <3>. QED
      BY <1>12, <2>2, <3>1
  <2>. QED
    BY <1>2, <2>1, <2>2
<1>. QED
  BY <1>3, <1>13 DEF CoverInv

(* The calls wait for what they record anew.                               *)

Has(s, x) == \E i \in DOMAIN s : s[i] = x

\* What one of two sequences has, their concatenation has.
LEMMA ConcatHas ==
  ASSUME NEW s \in Seq(Slot), NEW t \in Seq(Slot), NEW x, Has(s, x) \/ Has(t, x)
  PROVE  s \o t \in Seq(Slot) /\ Has(s \o t, x)
<1>1. s \o t \in Seq(Slot)
  OBVIOUS
<1>2. ASSUME NEW i \in DOMAIN s, s[i] = x
      PROVE  i \in DOMAIN (s \o t) /\ (s \o t)[i] = x
  BY <1>2
<1>3. ASSUME NEW i \in DOMAIN t, t[i] = x
      PROVE  Len(s) + i \in DOMAIN (s \o t) /\ (s \o t)[Len(s) + i] = x
  BY <1>3
<1>. QED
  BY <1>1, <1>2, <1>3 DEF Has

\* A list with one event of each ctrl.
LEMMA EachCtrlType ==
  ASSUME NEW k \in {"read", "write", "htd", "dth"}
  PROVE  EachCtrl(k) \in Seq(Slot)
<1>1. NCtrls \in Nat /\ \A i \in 1 .. NCtrls : <<i - 1, k>> \in Slot
  BY ThreadBlockAssumption DEF Slot, Ctrl
<1>. QED
  BY <1>1 DEF EachCtrl

\* Waits for the event of the job's slot are good, if all are put on its stream.
LEMMA WaitsAreGood ==
  ASSUME TypeInv, NEW list \in Seq(Slot), NEW q \in Queue, NEW r \in {"IN", "OUT", "IO"},
         NEW slots, q = HostQueue \/ \E c \in Ctrl : q \in QueuesOf(c),
         r # "IN" => WriteSlot(q) \in slots,
         \A j \in jobs : j[3] # "IN" /\ WriteSlot(j[1]) \in slots =>
           j[1] = q \/ Has(list, WriteSlot(j[1]))
  PROVE  GoodWaits(Waits(list, q, q), q, r, slots)
<1>. DEFINE w == Waits(list, q, q)
<1>1. /\ w \in [Queue -> Seq(Task)]
      /\ \A p \in Queue : p # q => w[p] = <<>>
      /\ DOMAIN w[q] = DOMAIN list
      /\ \A i \in DOMAIN list :
           w[q][i] = [kind |-> "wait", on |-> q, for |-> q, at |-> event[list[i]]]
  BY WaitsType
<1>. HIDE DEF w
<1>2. DOMAIN << >> = {}
  OBVIOUS
<1>3. ASSUME NEW p \in Queue, NEW i \in DOMAIN w[p]
      PROVE  p = q /\ w[p][i].kind = "wait" /\ w[p][i].for = q
  BY <1>1, <1>2
<1>4. ASSUME NEW j \in jobs, j[3] # "IN", WriteSlot(j[1]) \in slots, j[1] # q
      PROVE  \E i \in DOMAIN w[q] : w[q][i].at = event[WriteSlot(j[1])]
  <2>1. PICK i \in DOMAIN list : list[i] = WriteSlot(j[1])
    BY <1>4 DEF Has
  <2>. QED
    BY <1>1, <2>1
<1>. QED
  BY <1>1, <1>3, <1>4 DEF GoodWaits, w

\* Whose jobs record a slot.
LEMMA SlotOwner ==
  ASSUME TypeInv, NEW q \in Queue, q = HostQueue \/ \E c \in Ctrl : q \in QueuesOf(c)
  PROVE  /\ \A h : WriteSlot(q) # <<h, "read">>
         /\ \A c \in Ctrl :
              /\ WriteSlot(q) = <<c, "htd">> => q = Htd(c)
              /\ WriteSlot(q) = <<c, "dth">> => q = Dth(c)
              /\ WriteSlot(q) = <<c, "write">> =>
                   \E k \in 1 .. (IF Driver(c) THEN Streams ELSE 1) : q = Kernel(c, k)
<1>1. \A c \in Ctrl : <<Host, "write">> # <<c, "write">>
  BY QueueNames DEF HostQueue
<1>2. CASE q = HostQueue
  BY <1>1, <1>2 DEF WriteSlot
<1>3. CASE q # HostQueue
  <2>1. PICK d \in Ctrl : q \in QueuesOf(d) /\ q[1] = d
    BY <1>3, QueueNames
  <2>2. \/ q = Htd(d) \/ q = Dth(d)
        \/ \E k \in 1 .. (IF Driver(d) THEN Streams ELSE 1) : q = Kernel(d, k)
    BY <2>1 DEF QueuesOf
  <2>. QED
    BY <1>1, <1>3, <2>1, <2>2 DEF WriteSlot
<1>. QED
  BY <1>2, <1>3

\* The queues of the kernels differ from those of the transfers.
LEMMA KernelSlot ==
  ASSUME NEW c \in Ctrl, NEW k
  PROVE  WriteSlot(Kernel(c, k)) = IF kind[c] = "ZEROCOPY" THEN <<Host, "write">>
                                   ELSE <<c, "write">>
<1>1. /\ Kernel(c, k) # HostQueue /\ Kernel(c, k) # Htd(c) /\ Kernel(c, k) # Dth(c)
      /\ Kernel(c, k)[1] = c
  BY QueueNames DEF Kernel, Htd, Dth, HostQueue
<1>. QED
  BY <1>1 DEF WriteSlot

\* A transfer to a device.
LEMMA MoveToGood ==
  ASSUME BlockEndInv, NEW c \in Ctrl, MoveTo(c)
  PROVE  \E w, q, r : \E slots \in SUBSET Slot :
           GoodWaits(w, q, r, slots) /\ Enqueue(w, q, r, slots)
<1>. DEFINE list == EachCtrl("dth") \o << <<c, "read">>, <<c, "write">>, <<Host, "write">> >>
            q == Htd(c)
            slots == {<<c, "htd">>}
<1>1. TypeInv /\ JobInv
  BY DEF BlockEndInv
<1>2. kind[c] # "ZEROCOPY" /\ Enqueue(Waits(list, q, q), q, "IO", slots)
  BY DEF MoveTo
<1>3. list \in Seq(Slot)
  <2>1. << <<c, "read">>, <<c, "write">>, <<Host, "write">> >> \in Seq(Slot)
    BY DEF Slot
  <2>. QED
    BY <2>1, EachCtrlType
<1>. HIDE DEF list
<1>4. q \in Queue /\ q \in QueuesOf(c) /\ slots \in SUBSET Slot
  BY <1>2, QueueNames DEF QueuesOf, Slot
<1>5. WriteSlot(q) = <<c, "htd">>
  BY QueueNames DEF WriteSlot, Htd, HostQueue
<1>6. \A j \in jobs : WriteSlot(j[1]) \in slots => j[1] = q
  BY <1>1, SlotOwner DEF JobInv, TypeInv
<1>7. GoodWaits(Waits(list, q, q), q, "IO", slots)
  BY <1>1, <1>3, <1>4, <1>5, <1>6, WaitsAreGood
<1>. QED
  BY <1>2, <1>4, <1>7

\* A transfer from a device.
LEMMA MoveFromGood ==
  ASSUME BlockEndInv, NEW c \in Ctrl, MoveFrom(c)
  PROVE  \E w, q, r : \E slots \in SUBSET Slot :
           GoodWaits(w, q, r, slots) /\ Enqueue(w, q, r, slots)
<1>. DEFINE some == EachCtrl("htd")
            list == << <<c, "write">>, <<Host, "read">>, <<Host, "write">> >>
            q == Dth(c)
            m == MoveFromWaits(c)
            slots == {<<c, "dth">>}
            f == Waits(some, m, q)
            g == Waits(list, q, q)
            w == Then(f, g)
<1>1. TypeInv /\ JobInv
  BY DEF BlockEndInv
<1>2. kind[c] # "ZEROCOPY" /\ Enqueue(w, q, "IO", slots)
  BY DEF MoveFrom
<1>3. some \in Seq(Slot) /\ list \in Seq(Slot)
  BY EachCtrlType DEF Slot
<1>4. q \in Queue /\ q \in QueuesOf(c) /\ slots \in SUBSET Slot
  BY <1>2, QueueNames DEF QueuesOf, Slot
<1>5. WriteSlot(q) = <<c, "dth">>
  BY QueueNames DEF WriteSlot, Htd, Dth, HostQueue
<1>6. \A j \in jobs : WriteSlot(j[1]) \in slots => j[1] = q
  BY <1>1, SlotOwner DEF JobInv, TypeInv
<1>7. m \in Queue /\ (m # q => kind[m[1]] = "MEMMOVES")
  BY <1>1, <1>2, QueueNames DEF MoveFromWaits, TypeInv, Htd, Driver
<1>. HIDE DEF some, list, q, m, slots
<1>8. /\ f \in [Queue -> Seq(Task)]
      /\ \A p \in Queue : \A i \in DOMAIN f[p] :
           p = m /\ f[p][i].kind = "wait" /\ f[p][i].for = q
  <2>1. /\ f \in [Queue -> Seq(Task)]
        /\ \A p \in Queue : p # m => f[p] = <<>>
        /\ DOMAIN f[m] = DOMAIN some
        /\ \A i \in DOMAIN some :
             f[m][i] = [kind |-> "wait", on |-> m, for |-> q, at |-> event[some[i]]]
    BY <1>1, <1>3, <1>4, <1>7, WaitsType
  <2>. HIDE DEF f
  <2>. QED
    BY <1>7, <2>1
<1>9. /\ g \in [Queue -> Seq(Task)]
      /\ \A p \in Queue : \A i \in DOMAIN g[p] :
           p = q /\ g[p][i].kind = "wait" /\ g[p][i].for = q
  <2>1. /\ g \in [Queue -> Seq(Task)]
        /\ \A p \in Queue : p # q => g[p] = <<>>
        /\ DOMAIN g[q] = DOMAIN list
        /\ \A i \in DOMAIN list :
             g[q][i] = [kind |-> "wait", on |-> q, for |-> q, at |-> event[list[i]]]
    BY <1>1, <1>3, <1>4, WaitsType
  <2>. HIDE DEF g
  <2>2. ASSUME NEW p \in Queue, NEW i \in DOMAIN g[p]
        PROVE  p = q
    <3>1. DOMAIN << >> = {}
      OBVIOUS
    <3>. QED
      BY <2>1, <2>2, <3>1
  <2>3. ASSUME NEW i \in DOMAIN g[q]
        PROVE  g[q][i].kind = "wait" /\ g[q][i].for = q
    <3>1. g[q][i] = [kind |-> "wait", on |-> q, for |-> q, at |-> event[list[i]]]
      BY <2>1, <2>3
    <3>. QED
      BY <3>1
  <2>4. ASSUME NEW p \in Queue, NEW i \in DOMAIN g[p]
        PROVE  p = q /\ g[p][i].kind = "wait" /\ g[p][i].for = q
    BY <2>2, <2>3, <2>4
  <2>5. g \in [Queue -> Seq(Task)]
    BY <2>1
  <2>. QED
    BY <2>4, <2>5, Zenon
<1>. HIDE DEF f, g
<1>14. f \in [Queue -> Seq(Task)] /\ g \in [Queue -> Seq(Task)]
  BY <1>8, <1>9
<1>10. /\ w \in [Queue -> Seq(Task)]
       /\ \A p \in Queue :
            /\ Len(f[p]) \in Nat /\ Len(g[p]) \in Nat
            /\ DOMAIN f[p] = 1 .. Len(f[p]) /\ DOMAIN g[p] = 1 .. Len(g[p])
            /\ DOMAIN w[p] = 1 .. Len(f[p]) + Len(g[p])
            /\ \A n \in DOMAIN f[p] : w[p][n] = f[p][n]
            /\ \A n \in DOMAIN g[p] : w[p][Len(f[p]) + n] = g[p][n]
  <2>1. w \in [Queue -> Seq(Task)]
    BY <1>14, ThenLeaves
  <2>2. ASSUME NEW p \in Queue
        PROVE  /\ Len(f[p]) \in Nat /\ Len(g[p]) \in Nat
               /\ DOMAIN f[p] = 1 .. Len(f[p]) /\ DOMAIN g[p] = 1 .. Len(g[p])
               /\ DOMAIN w[p] = 1 .. Len(f[p]) + Len(g[p])
    <3>1. f[p] \in Seq(Task) /\ g[p] \in Seq(Task) /\ w[p] \in Seq(Task)
      BY <1>14, <2>1
    <3>2. Len(w[p]) = Len(f[p]) + Len(g[p])
      BY <1>14, ThenLeaves
    <3>. DEFINE s == f[p]  t == g[p]  u == w[p]
    <3>3. s \in Seq(Task) /\ t \in Seq(Task) /\ u \in Seq(Task) /\ Len(u) = Len(s) + Len(t)
      BY <3>1, <3>2
    <3>. HIDE DEF s, t, u
    <3>4. /\ Len(s) \in Nat /\ Len(t) \in Nat
          /\ DOMAIN s = 1 .. Len(s) /\ DOMAIN t = 1 .. Len(t)
          /\ DOMAIN u = 1 .. Len(s) + Len(t)
      BY <3>3
    <3>. QED
      BY <3>4 DEF s, t, u
  <2>3. ASSUME NEW p \in Queue
        PROVE  /\ \A n \in DOMAIN f[p] : w[p][n] = f[p][n]
               /\ \A n \in DOMAIN g[p] : w[p][Len(f[p]) + n] = g[p][n]
    <3>1. \A n \in DOMAIN f[p] : w[p][n] = f[p][n]
      BY ONLY <1>14, <2>3, ThenLeaves, Zenon
    <3>2. \A n \in DOMAIN g[p] : w[p][Len(f[p]) + n] = g[p][n]
      BY ONLY <1>14, <2>3, ThenLeaves, Zenon
    <3>. QED
      BY <3>1, <3>2
  <2>. QED
    BY <2>1, <2>2, <2>3, Zenon
<1>. HIDE DEF w
<1>11. ASSUME NEW p \in Queue, NEW i \in DOMAIN w[p]
       PROVE  w[p][i].kind = "wait" /\ w[p][i].for = q /\ (p = q \/ p = m)
  <2>1. /\ Len(f[p]) \in Nat /\ Len(g[p]) \in Nat
        /\ DOMAIN f[p] = 1 .. Len(f[p]) /\ DOMAIN g[p] = 1 .. Len(g[p])
        /\ DOMAIN w[p] = 1 .. Len(f[p]) + Len(g[p])
        /\ \A n \in DOMAIN f[p] : w[p][n] = f[p][n]
        /\ \A n \in DOMAIN g[p] : w[p][Len(f[p]) + n] = g[p][n]
    BY <1>10
  <2>2. CASE i \in DOMAIN f[p]
    BY <1>8, <2>1, <2>2
  <2>3. CASE i \notin DOMAIN f[p]
    <3>. DEFINE a == Len(f[p])  b == Len(g[p])
    <3>1. a \in Nat /\ b \in Nat /\ i \in 1 .. a + b /\ i \notin 1 .. a
      BY <2>1, <2>3
    <3>. HIDE DEF a, b
    <3>2. i - a \in 1 .. b /\ i = a + (i - a)
      BY <3>1
    <3>3. i - a \in DOMAIN g[p] /\ w[p][a + (i - a)] = g[p][i - a]
      BY <2>1, <3>2 DEF a, b
    <3>. QED
      BY <1>9, <3>2, <3>3
  <2>. QED
    BY <2>2, <2>3
<1>12. GoodWaits(w, q, "IO", slots)
  <2>1. WriteSlot(q) \in slots
    BY <1>5 DEF slots
  <2>. QED
    BY <1>4, <1>6, <1>7, <1>10, <1>11, <2>1 DEF GoodWaits
<1>. QED
  BY <1>2, <1>4, <1>12

\* What a host task, and a kernel on host memory, waits for.
LEMMA HostWaitsGood ==
  ASSUME BlockEndInv, NEW q \in Queue, q = HostQueue \/ \E c \in Ctrl : q \in QueuesOf(c),
         WriteSlot(q) = <<Host, "write">>, NEW r \in {"IN", "OUT", "IO"}
  PROVE  GoodWaits(HostWaits(q, r), q, r, Updated(Host, r))
         /\ Updated(Host, r) \in SUBSET Slot
<1>. DEFINE reads == EachCtrl("dth") \o (IF r # "IN" THEN EachCtrl("htd") ELSE <<>>)
            writes == << <<Host, "write">> >>
            last == IF r # "IN" THEN << <<Host, "read">> >> ELSE <<>>
            list == reads \o writes \o last
            x == <<Host, "write">>
<1>1. TypeInv /\ JobInv
  BY DEF BlockEndInv
<1>2. reads \in Seq(Slot) /\ writes \in Seq(Slot) /\ last \in Seq(Slot) /\ Has(writes, x)
  <2>1. EachCtrl("dth") \in Seq(Slot) /\ EachCtrl("htd") \in Seq(Slot) /\ <<>> \in Seq(Slot)
    BY EachCtrlType
  <2>2. (IF r # "IN" THEN EachCtrl("htd") ELSE <<>>) \in Seq(Slot)
    BY <2>1
  <2>3. reads \in Seq(Slot)
    BY <2>1, <2>2
  <2>4. writes \in Seq(Slot) /\ last \in Seq(Slot)
    BY DEF Slot
  <2>5. 1 \in DOMAIN writes /\ writes[1] = x
    OBVIOUS
  <2>. QED
    BY <2>3, <2>4, <2>5 DEF Has
<1>3. HostWaits(q, r) = Waits(list, q, q)
  BY DEF HostWaits
<1>. HIDE DEF reads, writes, last, x
<1>4. list \in Seq(Slot) /\ Has(list, x)
  <2>1. reads \o writes \in Seq(Slot) /\ Has(reads \o writes, x)
    BY <1>2, ConcatHas
  <2>. QED
    BY <1>2, <2>1, ConcatHas
<1>. HIDE DEF list
<1>5. Updated(Host, r) \in SUBSET Slot
  BY DEF Updated, Slot
<1>6. r # "IN" => WriteSlot(q) \in Updated(Host, r)
  BY DEF Updated
<1>7. ASSUME NEW j \in jobs, WriteSlot(j[1]) \in Updated(Host, r)
      PROVE  WriteSlot(j[1]) = x
  <2>1. WriteSlot(j[1]) # <<Host, "read">>
    BY <1>1, SlotOwner DEF JobInv, TypeInv
  <2>. QED
    BY <1>7, <2>1 DEF Updated, x
<1>8. GoodWaits(Waits(list, q, q), q, r, Updated(Host, r))
  BY <1>1, <1>4, <1>6, <1>7, WaitsAreGood
<1>. QED
  BY <1>3, <1>5, <1>8

\* What a host task waits for.
LEMMA HostTaskGood ==
  ASSUME BlockEndInv, NEW x \in Roles, HostTask(x)
  PROVE  \E w, q, r : \E slots \in SUBSET Slot :
           GoodWaits(w, q, r, slots) /\ Enqueue(w, q, r, slots)
<1>1. HostQueue \in Queue /\ WriteSlot(HostQueue) = <<Host, "write">>
      /\ x \in {"IN", "OUT", "IO"}
  BY QueueNames, ThreadBlockAssumption DEF WriteSlot
<1>2. GoodWaits(HostWaits(HostQueue, x), HostQueue, x, Updated(Host, x))
      /\ Updated(Host, x) \in SUBSET Slot
  BY <1>1, HostWaitsGood
<1>3. Enqueue(HostWaits(HostQueue, x), HostQueue, x, Updated(Host, x))
  BY DEF HostTask
<1>. QED
  BY <1>2, <1>3

\* A kernel: of a ctrl with one stream it follows the others, of a ctrl with
\* several it waits for the last that wrote.
LEMMA LaunchGood ==
  ASSUME BlockEndInv, NEW c \in Ctrl, NEW k \in 1 .. Streams, NEW x \in Roles,
         NEW copies \in BOOLEAN, Launch(c, k, x, copies)
  PROVE  \E w, q, r : \E slots \in SUBSET Slot :
           GoodWaits(w, q, r, slots) /\ Enqueue(w, q, r, slots)
<1>. DEFINE q == Kernel(c, k)
            kernels == IF Driver(c) /\ Streams # 1
                       THEN << <<c, "write">> >> \o (IF x # "IN" THEN << <<c, "read">> >> ELSE <<>>)
                       ELSE <<>>
            transfers == IF copies
                         THEN << <<c, "htd">> >> \o (IF x # "IN" THEN << <<c, "dth">> >> ELSE <<>>)
                         ELSE <<>>
            list == kernels \o transfers
<1>1. TypeInv /\ JobInv
  BY DEF BlockEndInv
<1>2. /\ q \in QueuesOf(c)
      /\ kind[c] = "ZEROCOPY" => Enqueue(HostWaits(q, x), q, x, Updated(Host, x))
      /\ kind[c] # "ZEROCOPY" => Enqueue(Waits(list, q, q), q, x, Updated(c, x))
  BY DEF Launch
<1>3. q \in Queue /\ x \in {"IN", "OUT", "IO"}
  BY <1>2, QueueNames, ThreadBlockAssumption
<1>4. CASE kind[c] = "ZEROCOPY"
  <2>1. WriteSlot(q) = <<Host, "write">>
    BY <1>4, KernelSlot
  <2>2. GoodWaits(HostWaits(q, x), q, x, Updated(Host, x)) /\ Updated(Host, x) \in SUBSET Slot
    BY <1>2, <1>3, <2>1, HostWaitsGood
  <2>. QED
    BY <1>2, <1>4, <2>2
<1>5. CASE kind[c] # "ZEROCOPY"
  <2>. DEFINE s == <<c, "write">>
  <2>1. WriteSlot(q) = s
    BY <1>5, KernelSlot
  <2>2. s \in Slot /\ <<c, "read">> \in Slot /\ <<c, "htd">> \in Slot /\ <<c, "dth">> \in Slot
    BY DEF Slot
  <2>3. /\ kernels \in Seq(Slot) /\ transfers \in Seq(Slot)
        /\ Driver(c) /\ Streams # 1 => Has(kernels, s)
    <3>1. /\ <<s>> \in Seq(Slot) /\ << <<c, "htd">> >> \in Seq(Slot) /\ <<>> \in Seq(Slot)
          /\ << <<c, "read">> >> \in Seq(Slot) /\ << <<c, "dth">> >> \in Seq(Slot)
      BY <2>2
    <3>2. Has(<<s>>, s)
      <4>1. 1 \in DOMAIN <<s>> /\ <<s>>[1] = s
        OBVIOUS
      <4>. QED
        BY <4>1 DEF Has
    <3>. DEFINE a == <<s>>  b == IF x # "IN" THEN << <<c, "read">> >> ELSE <<>>
                d == << <<c, "htd">> >>  e == IF x # "IN" THEN << <<c, "dth">> >> ELSE <<>>
    <3>3. a \in Seq(Slot) /\ b \in Seq(Slot) /\ d \in Seq(Slot) /\ e \in Seq(Slot) /\ Has(a, s)
      BY <3>1, <3>2
    <3>. HIDE DEF a, b, d, e, s
    <3>4. a \o b \in Seq(Slot) /\ Has(a \o b, s) /\ d \o e \in Seq(Slot)
      BY <3>3, ConcatHas
    <3>5. /\ kernels = IF Driver(c) /\ Streams # 1 THEN a \o b ELSE <<>>
          /\ transfers = IF copies THEN d \o e ELSE <<>>
      BY DEF a, b, d, e, s
    <3>. HIDE DEF kernels, transfers
    <3>. QED
      BY <3>1, <3>4, <3>5
  <2>. HIDE DEF kernels, transfers
  <2>4. list \in Seq(Slot) /\ (Driver(c) /\ Streams # 1 => Has(list, s))
    <3>1. list \in Seq(Slot)
      BY <2>3
    <3>2. Has(kernels, s) => Has(list, s)
      BY <2>3, ConcatHas
    <3>. QED
      BY <2>3, <3>1, <3>2
  <2>. HIDE DEF list
  <2>5. Updated(c, x) \in SUBSET Slot /\ (x # "IN" => WriteSlot(q) \in Updated(c, x))
    BY <1>3, <2>1, <2>2 DEF Updated
  <2>6. ASSUME NEW j \in jobs, WriteSlot(j[1]) \in Updated(c, x)
        PROVE  j[1] = q \/ Has(list, WriteSlot(j[1]))
    <3>1. j[1] \in Queue /\ (j[1] = HostQueue \/ \E d \in Ctrl : j[1] \in QueuesOf(d))
      BY <1>1 DEF JobInv, TypeInv
    <3>2. WriteSlot(j[1]) = s
      <4>1. WriteSlot(j[1]) # <<c, "read">>
        BY <1>1, <3>1, SlotOwner
      <4>. QED
        BY <2>6, <4>1 DEF Updated
    <3>3. \E i \in 1 .. (IF Driver(c) THEN Streams ELSE 1) : j[1] = Kernel(c, i)
      BY <1>1, <3>1, <3>2, SlotOwner
    <3>4. CASE Driver(c) /\ Streams # 1
      BY <2>4, <3>2, <3>4
    <3>5. CASE ~(Driver(c) /\ Streams # 1)
      <4>1. j[1] = Kernel(c, 1)
        BY <3>3, <3>5
      <4>2. \E i \in 1 .. (IF Driver(c) THEN Streams ELSE 1) : q = Kernel(c, i)
        BY <1>1, <1>2, <1>3, <2>1, SlotOwner
      <4>3. q = Kernel(c, 1)
        BY <3>5, <4>2
      <4>. QED
        BY <4>1, <4>3
    <3>. QED
      BY <3>4, <3>5
  <2>7. GoodWaits(Waits(list, q, q), q, x, Updated(c, x))
    BY <1>1, <1>2, <1>3, <2>4, <2>5, <2>6, WaitsAreGood
  <2>. QED
    BY <1>2, <1>5, <2>5, <2>7
<1>. QED
  BY <1>4, <1>5

(* The end of the block.                                                   *)

\* After the block, tasks are only finished: what nothing waits for stays so.
LEMMA AfterBlock ==
  ASSUME TypeInv, JobInv, CoverInv, NoJobLost, ~InBlock, ~InBlock',
         UNCHANGED <<jobs, event>>,
         \A q \in Queue : last_finished[q] <= last_finished'[q],
         \A q \in Queue : last_finished'[q] \in Nat
  PROVE  /\ CoverInv' /\ BlockInv'
         /\ lost' = lost => NoJobLost'
<1>1. \A j : Overlooked(j)' <=> Overlooked(j)
  BY DEF Overlooked
<1>2. ASSUME NEW j \in jobs, Done(j)
      PROVE  Done(j)'
  <2>1. /\ j[2] <= last_finished[j[1]] /\ last_finished[j[1]] <= last_finished'[j[1]]
        /\ j[2] \in Nat /\ last_finished[j[1]] \in Nat /\ last_finished'[j[1]] \in Nat
    BY <1>2 DEF TypeInv, Done
  <2>. QED
    BY <2>1 DEF Done
<1>3. CoverInv'
  BY <1>1, <1>2 DEF CoverInv
<1>4. lost' = lost => NoJobLost'
  BY <1>1 DEF NoJobLost
<1>. QED
  BY <1>3, <1>4 DEF BlockInv

\* The main thread pushes DESTROY tasks.
LEMMA DestroyKeeps ==
  ASSUME BlockEndInv, NEW tasks \in [Queue -> Seq(Task)], PushAll(tasks),
         \A q \in Queue : \A i \in DOMAIN tasks[q] : tasks[q][i].kind = "destroy",
         ~InBlock, ~InBlock', UNCHANGED <<kind, event, jobs, destroyed, lost>>
  PROVE  /\ CountInv' /\ JobInv' /\ QueueInv' /\ CoverInv' /\ BlockInv' /\ NoJobLost'
         /\ queue' \in [Queue -> Seq(Task)] /\ pushed' \in [Queue -> Nat]
<1>1. TypeInv /\ CountInv /\ JobInv /\ QueueInv /\ CoverInv /\ NoJobLost
  BY DEF BlockEndInv
<1>2. \A p \in Queue :
         /\ queue'[p] \in Seq(Task)
         /\ pushed'[p] = pushed[p] + Len(tasks[p])
         /\ Len(queue'[p]) = Len(queue[p]) + Len(tasks[p])
         /\ pushed'[p] - Len(queue'[p]) = pushed[p] - Len(queue[p])
         /\ \A i \in DOMAIN queue[p] : i \in DOMAIN queue'[p] /\ queue'[p][i] = queue[p][i]
         /\ \A i \in DOMAIN tasks[p] : /\ Len(queue[p]) + i \in DOMAIN queue'[p]
                                       /\ queue'[p][Len(queue[p]) + i] = tasks[p][i]
         /\ \A i \in DOMAIN queue'[p] :
              \/ i \in DOMAIN queue[p]
              \/ \E n \in DOMAIN tasks[p] : i = Len(queue[p]) + n
  BY <1>1, PushLeaves
<1>3. last_finished' = last_finished /\ queue' = [q \in Queue |-> queue[q] \o tasks[q]]
      /\ pushed' = [q \in Queue |-> pushed[q] + Len(tasks[q])]
  BY DEF PushAll
<1>4. ASSUME NEW p \in Queue
      PROVE  /\ Len(queue[p]) \in Nat /\ Len(tasks[p]) \in Nat /\ pushed[p] \in Nat
             /\ last_finished[p] \in Nat
  <2>1. queue[p] \in Seq(Task) /\ tasks[p] \in Seq(Task) /\ pushed[p] \in Nat
        /\ last_finished[p] \in Nat
    BY <1>1 DEF TypeInv
  <2>. QED
    BY <2>1
<1>5. ASSUME NEW p \in Queue
      PROVE  pushed'[p] \in Nat /\ pushed[p] <= pushed'[p]
  <2>1. pushed'[p] = pushed[p] + Len(tasks[p]) /\ Len(tasks[p]) \in Nat /\ pushed[p] \in Nat
    BY <1>2, <1>4
  <2>. QED
    BY <2>1
<1>6. queue' \in [Queue -> Seq(Task)] /\ pushed' \in [Queue -> Nat]
  BY <1>2, <1>3, <1>5
<1>7. ASSUME NEW p \in Queue, NEW i \in DOMAIN queue'[p], i \notin DOMAIN queue[p]
      PROVE  queue'[p][i].kind = "destroy"
  <2>1. PICK n \in DOMAIN tasks[p] : i = Len(queue[p]) + n
    BY <1>2, <1>7
  <2>2. queue'[p][i] = tasks[p][n]
    BY <1>2, <2>1
  <2>. QED
    BY <2>2
<1>8. CountInv'
  <2>1. ASSUME NEW p \in Queue \ destroyed
        PROVE  last_finished'[p] + Len(queue'[p]) = pushed'[p]
    <3>. DEFINE a == Len(tasks[p])  b == Len(queue[p])  d == Len(queue'[p])
                u == pushed[p]  v == pushed'[p]  x == last_finished[p]
    <3>1. x + b = u /\ v = u + a /\ d = b + a
      BY <1>1, <1>2 DEF CountInv
    <3>2. a \in Nat /\ b \in Nat /\ x \in Nat
      BY <1>4
    <3>. HIDE DEF a, b, d, u, v, x
    <3>3. x + d = v
      BY <3>1, <3>2
    <3>. QED
      BY <1>3, <3>3 DEF d, v, x
  <2>2. ASSUME NEW p \in destroyed, NEW i \in DOMAIN queue'[p]
        PROVE  queue'[p][i].kind = "destroy"
    <3>1. p \in Queue
      BY <1>1 DEF TypeInv
    <3>2. CASE i \in DOMAIN queue[p]
      BY <1>1, <1>2, <3>1, <3>2 DEF CountInv
    <3>3. CASE i \notin DOMAIN queue[p]
      BY <1>7, <3>1, <3>3
    <3>. QED
      BY <3>2, <3>3
  <2>. QED
    BY <2>1, <2>2 DEF CountInv
<1>9. JobInv'
  <2>1. ASSUME NEW j \in jobs
        PROVE  /\ j[1] = HostQueue \/ \E c \in Ctrl : j[1] \in QueuesOf(c)'
               /\ 1 <= j[2] /\ j[2] <= pushed'[j[1]]
               /\ j[1] \in destroyed => j[2] <= pushed'[j[1]] - Len(queue'[j[1]])
    <3>1. j[1] \in Queue /\ j[2] \in Nat
      BY <1>1 DEF TypeInv
    <3>2. /\ j[1] = HostQueue \/ \E c \in Ctrl : j[1] \in QueuesOf(c)
          /\ 1 <= j[2] /\ j[2] <= pushed[j[1]]
          /\ j[1] \in destroyed => j[2] <= pushed[j[1]] - Len(queue[j[1]])
      BY <1>1 DEF JobInv
    <3>3. \A c \in Ctrl : QueuesOf(c)' = QueuesOf(c)
      BY DEF QueuesOf, Driver
    <3>4. /\ pushed'[j[1]] - Len(queue'[j[1]]) = pushed[j[1]] - Len(queue[j[1]])
          /\ pushed[j[1]] <= pushed'[j[1]] /\ pushed[j[1]] \in Nat /\ pushed'[j[1]] \in Nat
      BY <1>2, <1>4, <1>5, <3>1
    <3>5. j[2] <= pushed'[j[1]]
      BY <3>1, <3>2, <3>4
    <3>. QED
      BY <3>2, <3>3, <3>4, <3>5
  <2>. QED
    BY <2>1 DEF JobInv
<1>10. QueueInv'
  <2>1. ASSUME NEW p \in Queue, NEW i \in DOMAIN queue'[p]
        PROVE  /\ queue'[p][i].kind = "job" =>
                    \E x \in {"IN", "OUT", "IO"} :
                      <<p, pushed'[p] - Len(queue'[p]) + i, x>> \in jobs'
               /\ queue'[p][i].kind = "wait" =>
                    \/ queue'[p][i].for = p /\ FollowedByJob(p, i)'
                    \/ queue'[p][i].for # p /\ kind'[p[1]] = "MEMMOVES"
    <3>1. CASE i \in DOMAIN queue[p]
      <4>1. queue'[p][i] = queue[p][i]
            /\ pushed'[p] - Len(queue'[p]) = pushed[p] - Len(queue[p])
        BY <1>2, <3>1
      <4>2. FollowedByJob(p, i) => FollowedByJob(p, i)'
        BY <1>2 DEF FollowedByJob
      <4>3. /\ queue[p][i].kind = "job" =>
                 \E x \in {"IN", "OUT", "IO"} :
                   <<p, pushed[p] - Len(queue[p]) + i, x>> \in jobs
            /\ queue[p][i].kind = "wait" =>
                 \/ queue[p][i].for = p /\ FollowedByJob(p, i)
                 \/ queue[p][i].for # p /\ kind[p[1]] = "MEMMOVES"
        BY <1>1, <3>1 DEF QueueInv
      <4>. QED
        BY <1>1, <4>1, <4>2, <4>3
    <3>2. CASE i \notin DOMAIN queue[p]
      BY <1>7, <3>2
    <3>. QED
      BY <3>1, <3>2
  <2>. QED
    BY <2>1 DEF QueueInv
<1>11. \A q \in Queue : last_finished[q] <= last_finished'[q] /\ last_finished'[q] \in Nat
  BY <1>3, <1>4
<1>. QED
  BY <1>1, <1>6, <1>8, <1>9, <1>10, <1>11, AfterBlock

\* A step that moves threads on and leaves queues alone, in the block or after.
LEMMA ThreadsMove ==
  ASSUME BlockEndInv, UNCHANGED <<kind, queueVars, event, jobs, destroyed, lost>>,
         InBlock' <=> InBlock, InBlock => freed' = freed
  PROVE  /\ CountInv' /\ JobInv' /\ QueueInv' /\ CoverInv' /\ BlockInv' /\ NoJobLost'
         /\ queue' \in [Queue -> Seq(Task)] /\ pushed' \in [Queue -> Nat]
         /\ last_finished' \in [Queue -> Nat] /\ event' \in [Slot -> Queue \X Nat]
<1>1. TypeInv /\ CountInv /\ JobInv /\ QueueInv /\ CoverInv /\ NoJobLost /\ BlockInv
      /\ UNCHANGED <<queue, pushed, last_finished>>
  BY DEF BlockEndInv, queueVars
<1>2. CountInv'
  BY <1>1 DEF CountInv
<1>3. JobInv'
  BY <1>1 DEF JobInv, QueuesOf, Driver
<1>4. QueueInv'
  BY <1>1 DEF QueueInv, FollowedByJob
<1>5. BlockInv'
  BY <1>1 DEF BlockInv
<1>6. \A D : Closed(D)' <=> Closed(D)
  BY <1>1 DEF Closed
<1>7. \A j : (Done(j)' <=> Done(j)) /\ (Overlooked(j)' <=> Overlooked(j))
  BY <1>1 DEF Done, Overlooked
<1>8. \A q : WriteSlot(q)' = WriteSlot(q)
  BY DEF WriteSlot
<1>9. ASSUME NEW j \in jobs
      PROVE  Covers(event[WriteSlot(j[1])], j)' <=> Covers(event[WriteSlot(j[1])], j)
  BY <1>6, <1>7, <1>8 DEF Covers
<1>10. CoverInv'
  BY <1>1, <1>7, <1>8, <1>9 DEF CoverInv
<1>11. NoJobLost'
  BY <1>1, <1>7 DEF NoJobLost
<1>. QED
  BY <1>1, <1>2, <1>3, <1>4, <1>5, <1>10, <1>11 DEF TypeInv

(* Steps of the main thread and the start of the others.                   *)

\* The threads have different names.
LEMMA ThreadNames ==
  /\ MainThread \in Thread /\ HostThread \in Thread /\ Manager \in Thread
  /\ MainThread # HostThread /\ MainThread # Manager /\ HostThread # Manager
  /\ \A t \in CpuThread : t \in Thread /\ t # MainThread /\ t # HostThread /\ t # Manager
  /\ \A c \in Ctrl : /\ Spawner(c) \in Thread /\ Spawner(c) \notin CpuThread
                     /\ Spawner(c) # MainThread /\ Spawner(c) # HostThread
                     /\ Spawner(c) # Manager /\ Spawner(c)[1] = c
                     /\ \A q \in QueuesOf(c) : ~Driver(c) => q \in CpuThread
  /\ \A c, d \in Ctrl : Spawner(c) = Spawner(d) => c = d
  /\ \A t \in Thread : \/ t \in {MainThread, HostThread, Manager} \/ t \in CpuThread
                       \/ \E c \in Ctrl : t = Spawner(c)
<1>1. MainThread # HostThread /\ MainThread # Manager /\ HostThread # Manager
  BY DEF MainThread, HostThread, Manager
<1>2. MainThread \in Thread /\ HostThread \in Thread /\ Manager \in Thread
  BY DEF Thread
<1>3. ASSUME NEW t \in CpuThread
      PROVE  t \in Thread /\ t # MainThread /\ t # HostThread /\ t # Manager
             /\ t[2] \in {"htd", "dth", "kernel"}
  <2>1. PICK c \in Ctrl : t \in {Htd(c), Dth(c), Kernel(c, 1)}
    BY DEF CpuThread
  <2>. QED
    BY <2>1 DEF Thread, MainThread, HostThread, Manager, Htd, Dth, Kernel
<1>4. ASSUME NEW c \in Ctrl
      PROVE  /\ Spawner(c) \in Thread /\ Spawner(c) \notin CpuThread
             /\ Spawner(c) # MainThread /\ Spawner(c) # HostThread
             /\ Spawner(c) # Manager /\ Spawner(c)[1] = c
  <2>1. Spawner(c) \in Thread
    BY DEF Thread
  <2>2. Spawner(c)[2] = "spawner"
    BY DEF Spawner
  <2>. QED
    BY <1>3, <2>1, <2>2 DEF Spawner, MainThread, HostThread, Manager
<1>5. ASSUME NEW c \in Ctrl, ~Driver(c), NEW q \in QueuesOf(c)
      PROVE  q \in CpuThread
  <2>1. q = Htd(c) \/ q = Dth(c) \/ q = Kernel(c, 1)
    BY <1>5 DEF QueuesOf
  <2>. QED
    BY <2>1 DEF CpuThread
<1>6. \A c, d \in Ctrl : Spawner(c) = Spawner(d) => c = d
  BY DEF Spawner
<1>7. \A t \in Thread : \/ t \in {MainThread, HostThread, Manager} \/ t \in CpuThread
                        \/ \E c \in Ctrl : t = Spawner(c)
  BY DEF Thread
<1>. QED
  BY <1>1, <1>2, <1>3, <1>4, <1>5, <1>6, <1>7

\* The queues of a ctrl are not those of another.
LEMMA QueuesApart ==
  ASSUME NEW c \in Ctrl, NEW d \in Ctrl, NEW q \in QueuesOf(c), q \in QueuesOf(d)
  PROVE  c = d
BY QueueNames

\* A step of threads that were started, which finishes no task.
LEMMA StartStays ==
  ASSUME StartInv, UNCHANGED <<kind, last_finished>>,
         \A t \in Thread : \/ pc'[t] = pc[t]
                           \/ pc[t] # "none" /\ pc'[t] \notin {"none", "start"}
  PROVE  StartInv'
<1>1. /\ \A c : QueuesOf(c)' = QueuesOf(c) /\ (Driver(c)' <=> Driver(c))
      /\ DriverQueues' = DriverQueues
      /\ \A Q : Untouched(Q)' <=> Untouched(Q)
  BY DEF QueuesOf, Driver, DriverQueues, Untouched
<1>2. pc'[MainThread] # "start" /\ pc'[HostThread] # "start"
  BY ThreadNames DEF StartInv
<1>3. pc'[Manager] = "start" => Untouched(DriverQueues)
  BY ThreadNames DEF StartInv
<1>4. ASSUME NEW c \in Ctrl, pc'[Spawner(c)] = "start"
      PROVE  ~Driver(c) /\ \A q \in QueuesOf(c) : pc'[q] = "none"
  <2>1. pc[Spawner(c)] = "start"
    BY <1>4, ThreadNames
  <2>2. ~Driver(c) /\ \A q \in QueuesOf(c) : pc[q] = "none" /\ q \in Thread
    BY <2>1, ThreadNames DEF StartInv
  <2>. QED
    BY <2>2
<1>5. ASSUME NEW c \in Ctrl, ~Driver(c), NEW q \in QueuesOf(c),
             pc'[q] \in {"none", "start"}
      PROVE  Untouched({q})
  <2>1. pc[q] \in {"none", "start"}
    BY <1>5, ThreadNames
  <2>. QED
    BY <1>5, <2>1 DEF StartInv
<1>6. ASSUME NEW t \in CpuThread, pc'[t] = "start"
      PROVE  ~Driver(t[1]) /\ t \in QueuesOf(t[1])
  <2>1. pc[t] = "start"
    BY <1>6, ThreadNames
  <2>. QED
    BY <2>1 DEF StartInv
<1>7. Untouched(DriverQueues)' <=> Untouched(DriverQueues)
  BY <1>1 DEF Untouched
<1>8. ASSUME NEW c \in Ctrl, ~Driver(c)', NEW q \in QueuesOf(c)',
             pc'[q] \in {"none", "start"}
      PROVE  Untouched({q})'
  BY <1>1, <1>5, <1>8
<1>. QED
  BY <1>1, <1>2, <1>3, <1>4, <1>6, <1>7, <1>8 DEF StartInv

\* Ctrl_EndBlock begins when every event is reached.
LEMMA SynchronizeKeeps ==
  ASSUME BlockEndInv, Synchronize
  PROVE  BlockEndInv'
<1>1. TypeInv /\ CountInv /\ JobInv /\ QueueInv /\ CoverInv /\ NoJobLost /\ BlockInv
      /\ StartInv
  BY DEF BlockEndInv
<1>2. /\ InBlock /\ SynchronizeDone /\ pc' = [pc EXCEPT ![MainThread] = "destroy"]
      /\ UNCHANGED <<kind, next, calls, queue, pushed, last_finished, event, jobs, freed,
                     destroyed, lost>>
  BY DEF Synchronize, InBlock, queueVars
<1>3. pc'[MainThread] = "destroy" /\ ~InBlock'
      /\ \A t \in Thread : t # MainThread => pc'[t] = pc[t]
  BY <1>1, <1>2, ThreadNames DEF TypeInv, InBlock
<1>4. TypeInv' /\ NextInv'
  BY <1>1, <1>2, <1>3, ThreadNames DEF TypeInv, NextInv, InBlock, BlockEndInv
<1>5. BlockInv' /\ NoJobLost'
  BY <1>1, <1>2, <1>3 DEF BlockInv, NoJobLost
<1>6. CountInv' /\ JobInv'
  BY <1>1, <1>2 DEF CountInv, JobInv, QueuesOf, Driver
<1>7. QueueInv'
  BY <1>1, <1>2, <1>3 DEF QueueInv, FollowedByJob
<1>8. StartInv'
  BY <1>1, <1>2, <1>3, StartStays DEF InBlock
<1>9. \A s \in Slot : event[s] \in Queue \X Nat /\ event[s][2] <= last_finished[event[s][1]]
  <2>1. \A s \in Slot : event[s] \in Queue \X Nat
    BY <1>1 DEF TypeInv
  <2>2. \A s \in Slot : last_finished[event[s][1]] >= event[s][2]
    BY <1>2 DEF SynchronizeDone, EventDone
  <2>. QED
    BY <1>1, <2>1, <2>2 DEF TypeInv
<1>10. ASSUME NEW j \in jobs
       PROVE  Done(j) \/ Overlooked(j)
  <2>1. j[1] \in Queue /\ j[2] \in Nat
    BY <1>1 DEF TypeInv
  <2>2. ASSUME NEW s \in Slot, event[s] = <<j[1], j[2]>>
        PROVE  Done(j)
    BY <1>9, <2>2 DEF Done
  <2>3. CASE j[3] = "IN"
    BY <2>2, <2>3 DEF Overlooked
  <2>4. CASE j[3] # "IN"
    <3>. DEFINE s == WriteSlot(j[1])  D == {event[s]}
    <3>1. s \in Slot /\ Covers(event[s], j)
      BY <1>1, <1>2, <2>1, <2>4, WriteSlotType DEF CoverInv
    <3>. HIDE DEF s
    <3>2. D \in SUBSET Position /\ event[s] \in D
      BY <1>9, <3>1 DEF Position
    <3>3. Closed(D)
      <4>1. ASSUME NEW p \in D, p[2] > last_finished[p[1]]
            PROVE  FALSE
        <5>1. p = event[s] /\ p[2] <= last_finished[p[1]]
          BY <1>9, <3>1
        <5>2. p[2] \in Nat /\ last_finished[p[1]] \in Nat
          BY <1>1, <1>9, <3>1, <5>1 DEF TypeInv
        <5>. QED
          BY <4>1, <5>1, <5>2
      <4>. QED
        BY <4>1 DEF Closed
    <3>4. Done(j) \/ <<j[1], j[2]>> \in D
      BY <3>1, <3>2, <3>3 DEF Covers
    <3>. QED
      BY <2>2, <3>1, <3>4
  <2>. QED
    BY <2>3, <2>4
<1>11. CoverInv'
  <2>1. \A j \in jobs : (Done(j)' <=> Done(j)) /\ (Overlooked(j)' <=> Overlooked(j))
    BY <1>2 DEF Done, Overlooked
  <2>. QED
    BY <1>2, <1>3, <1>10, <2>1 DEF CoverInv
<1>. QED
  BY <1>4, <1>5, <1>6, <1>7, <1>8, <1>11 DEF BlockEndInv

\* DESTROY tasks, as sequences for each queue.
LEMMA DestroyTasks ==
  ASSUME NEW q \in Queue
  PROVE  /\ Destroy(q) \in [Queue -> Seq(Task)]
         /\ \A p \in Queue : \A i \in DOMAIN Destroy(q)[p] : Destroy(q)[p][i].kind = "destroy"
         /\ On(q, <<>>) \in [Queue -> Seq(Task)]
         /\ \A p \in Queue : DOMAIN On(q, <<>>)[p] = {}
<1>. DEFINE t == [kind |-> "destroy", on |-> q, for |-> q, at |-> Unrecorded]
<1>1. t \in Task /\ t.kind = "destroy"
  BY QueueNames DEF Task, Unrecorded
<1>2. Destroy(q) = [p \in Queue |-> IF p = q THEN <<t>> ELSE <<>>]
  BY DEF Destroy, On
<1>. HIDE DEF t
<1>3. << t >> \in Seq(Task) /\ << >> \in Seq(Task) /\ <<t>>[1] = t /\ DOMAIN <<t>> = {1}
      /\ DOMAIN << >> = {}
  BY <1>1
<1>4. On(q, <<>>) = [p \in Queue |-> <<>>]
  BY DEF On
<1>. QED
  BY <1>1, <1>2, <1>3, <1>4

\* DESTROY tasks of one ctrl, pushed together.
LEMMA DestroysTogether ==
  ASSUME NEW f \in [Queue -> Seq(Task)], NEW g \in [Queue -> Seq(Task)],
         \A p \in Queue : \A i \in DOMAIN f[p] : f[p][i].kind = "destroy",
         \A p \in Queue : \A i \in DOMAIN g[p] : g[p][i].kind = "destroy"
  PROVE  /\ Then(f, g) \in [Queue -> Seq(Task)]
         /\ \A p \in Queue : \A i \in DOMAIN Then(f, g)[p] : Then(f, g)[p][i].kind = "destroy"
<1>1. Then(f, g) \in [Queue -> Seq(Task)]
  BY ThenLeaves
<1>2. ASSUME NEW p \in Queue, NEW i \in DOMAIN Then(f, g)[p]
      PROVE  Then(f, g)[p][i].kind = "destroy"
  <2>. DEFINE s == f[p]  t == g[p]  u == Then(f, g)[p]
  <2>1. s \in Seq(Task) /\ t \in Seq(Task) /\ u = s \o t
    BY DEF Then
  <2>2. /\ \A n \in DOMAIN s : s[n].kind = "destroy"
        /\ \A n \in DOMAIN t : t[n].kind = "destroy"
        /\ i \in DOMAIN u
    BY <1>2
  <2>. HIDE DEF s, t, u
  <2>3. u \in Seq(Task) /\ Len(u) = Len(s) + Len(t) /\ Len(s) \in Nat /\ Len(t) \in Nat
        /\ DOMAIN s = 1 .. Len(s) /\ DOMAIN t = 1 .. Len(t) /\ DOMAIN u = 1 .. Len(u)
    BY <2>1
  <2>4. CASE i \in DOMAIN s
    <3>1. u[i] = s[i]
      BY <2>1, <2>4
    <3>. QED
      BY <2>2, <2>4, <3>1 DEF u
  <2>5. CASE i \notin DOMAIN s
    <3>1. i - Len(s) \in DOMAIN t /\ i = Len(s) + (i - Len(s))
      BY <2>2, <2>3, <2>5
    <3>2. u[i] = t[i - Len(s)]
      BY <2>1, <2>2, <2>3, <2>5
    <3>. QED
      BY <2>2, <3>1, <3>2 DEF u
  <2>. QED
    BY <2>4, <2>5
<1>. QED
  BY <1>1, <1>2

\* The main thread goes on after the block.
LEMMA MainGoesOn ==
  ASSUME TypeInv, StartInv, pc[MainThread] \notin {"none", "block"},
         NEW l \in {"destroy", "free", "destroyhost", "barrier"},
         pc' = [pc EXCEPT ![MainThread] = l], UNCHANGED <<kind, last_finished>>
  PROVE  /\ StartInv' /\ ~InBlock /\ ~InBlock'
         /\ pc' \in [Thread -> {"none", "start", "run", "join", "barrier", "end", "block",
                                "destroy", "free", "destroyhost"}]
<1>1. pc'[MainThread] = l /\ \A t \in Thread : t # MainThread => pc'[t] = pc[t]
  BY ThreadNames DEF TypeInv
<1>2. StartInv'
  BY <1>1, StartStays
<1>. QED
  BY <1>1, <1>2, ThreadNames DEF TypeInv, InBlock

\* Ctrl_Destroy of one ctrl keeps the invariant.
LEMMA DestroyCtrlKeeps ==
  ASSUME BlockEndInv, DestroyCtrl
  PROVE  BlockEndInv'
<1>. DEFINE c == next
            tasks == CASE kind[c] = "MEMMOVES" ->
                       Then(Destroy(Kernel(c, 1)), Then(Destroy(Dth(c)), Destroy(Htd(c))))
                  [] kind[c] = "ZEROCOPY" -> Destroy(Kernel(c, 1))
                  [] OTHER -> IF SendsDestroy(c) THEN Destroy(Htd(c)) ELSE On(Htd(c), <<>>)
<1>1. TypeInv /\ StartInv
  BY DEF BlockEndInv
<1>2. /\ pc[MainThread] = "destroy" /\ pc' = [pc EXCEPT ![MainThread] = "free"]
      /\ PushAll(tasks)
      /\ UNCHANGED <<kind, next, calls, event, jobs, freed, destroyed, lost, last_finished>>
  BY DEF DestroyCtrl, PushAll
<1>9. c \in Ctrl /\ NextInv'
  BY <1>1, <1>2 DEF BlockEndInv, NextInv, TypeInv
<1>3. Kernel(c, 1) \in Queue /\ Dth(c) \in Queue /\ Htd(c) \in Queue
  BY <1>9, QueueNames
<1>4. \/ tasks = Then(Destroy(Kernel(c, 1)), Then(Destroy(Dth(c)), Destroy(Htd(c))))
      \/ tasks = Destroy(Kernel(c, 1)) \/ tasks = Destroy(Htd(c)) \/ tasks = On(Htd(c), <<>>)
  OBVIOUS
<1>. HIDE DEF tasks
<1>5. /\ tasks \in [Queue -> Seq(Task)]
      /\ \A p \in Queue : \A i \in DOMAIN tasks[p] : tasks[p][i].kind = "destroy"
  <2>1. CASE tasks = Then(Destroy(Kernel(c, 1)), Then(Destroy(Dth(c)), Destroy(Htd(c))))
    <3>. DEFINE f == Destroy(Kernel(c, 1))  g == Then(Destroy(Dth(c)), Destroy(Htd(c)))
    <3>1. /\ g \in [Queue -> Seq(Task)]
          /\ \A p \in Queue : \A i \in DOMAIN g[p] : g[p][i].kind = "destroy"
      BY <1>3, DestroyTasks, DestroysTogether
    <3>2. /\ f \in [Queue -> Seq(Task)]
          /\ \A p \in Queue : \A i \in DOMAIN f[p] : f[p][i].kind = "destroy"
      BY <1>3, DestroyTasks
    <3>3. tasks = Then(f, g)
      BY <2>1
    <3>. HIDE DEF f, g
    <3>. QED
      BY <3>1, <3>2, <3>3, DestroysTogether
  <2>2. ASSUME NEW q \in Queue, tasks = Destroy(q)
        PROVE  /\ tasks \in [Queue -> Seq(Task)]
               /\ \A p \in Queue : \A i \in DOMAIN tasks[p] : tasks[p][i].kind = "destroy"
    <3>. DEFINE f == Destroy(q)
    <3>1. /\ f \in [Queue -> Seq(Task)]
          /\ \A p \in Queue : \A i \in DOMAIN f[p] : f[p][i].kind = "destroy"
      BY DestroyTasks
    <3>2. tasks = f
      BY <2>2
    <3>. HIDE DEF f
    <3>. QED
      BY <3>1, <3>2
  <2>3. CASE tasks = On(Htd(c), <<>>)
    BY <1>3, <2>3, DestroyTasks
  <2>. QED
    BY <1>3, <1>4, <2>1, <2>2, <2>3
<1>6. /\ StartInv' /\ ~InBlock /\ ~InBlock'
      /\ pc' \in [Thread -> {"none", "start", "run", "join", "barrier", "end", "block",
                             "destroy", "free", "destroyhost"}]
  BY <1>1, <1>2, MainGoesOn
<1>7. /\ CountInv' /\ JobInv' /\ QueueInv' /\ CoverInv' /\ BlockInv' /\ NoJobLost'
      /\ queue' \in [Queue -> Seq(Task)] /\ pushed' \in [Queue -> Nat]
  BY <1>2, <1>5, <1>6, DestroyKeeps
<1>8. TypeInv'
  BY <1>1, <1>2, <1>6, <1>7 DEF TypeInv
<1>. QED
  BY <1>6, <1>7, <1>8, <1>9 DEF BlockEndInv

\* The DESTROY task of the host queue keeps the invariant.
LEMMA DestroyHostKeeps ==
  ASSUME BlockEndInv, DestroyHost
  PROVE  BlockEndInv'
<1>1. TypeInv /\ StartInv
  BY DEF BlockEndInv
<1>2. /\ pc[MainThread] = "destroyhost" /\ pc' = [pc EXCEPT ![MainThread] = "barrier"]
      /\ PushAll(Destroy(HostQueue))
      /\ UNCHANGED <<kind, next, calls, event, jobs, freed, destroyed, lost, last_finished>>
  BY DEF DestroyHost, PushAll
<1>3. /\ Destroy(HostQueue) \in [Queue -> Seq(Task)]
      /\ \A p \in Queue : \A i \in DOMAIN Destroy(HostQueue)[p] :
           Destroy(HostQueue)[p][i].kind = "destroy"
  BY QueueNames, DestroyTasks
<1>4. /\ StartInv' /\ ~InBlock /\ ~InBlock'
      /\ pc' \in [Thread -> {"none", "start", "run", "join", "barrier", "end", "block",
                             "destroy", "free", "destroyhost"}]
  BY <1>1, <1>2, MainGoesOn
<1>5. /\ CountInv' /\ JobInv' /\ QueueInv' /\ CoverInv' /\ BlockInv' /\ NoJobLost'
      /\ queue' \in [Queue -> Seq(Task)] /\ pushed' \in [Queue -> Nat]
  BY <1>2, <1>3, <1>4, DestroyKeeps
<1>6. TypeInv'
  BY <1>1, <1>2, <1>4, <1>5 DEF TypeInv
<1>7. NextInv'
  BY <1>1, <1>2, ThreadNames DEF NextInv, TypeInv
<1>. QED
  BY <1>4, <1>5, <1>6, <1>7 DEF BlockEndInv

\* So does the main thread freeing what the ctrls were.
LEMMA FreeImplKeeps ==
  ASSUME BlockEndInv, FreeImpl
  PROVE  BlockEndInv'
<1>1. TypeInv /\ StartInv
  BY DEF BlockEndInv
<1>. DEFINE l == IF next + 1 < NCtrls THEN "destroy" ELSE "destroyhost"
<1>2. /\ pc[MainThread] = "free" /\ pc' = [pc EXCEPT ![MainThread] = l]
      /\ next' = next + 1 /\ freed' = freed \cup {next}
      /\ UNCHANGED <<kind, calls, queueVars, event, jobs, destroyed, lost, last_finished>>
  BY DEF FreeImpl, queueVars
<1>3. l \in {"destroy", "free", "destroyhost", "barrier"}
  OBVIOUS
<1>. HIDE DEF l
<1>4. /\ StartInv' /\ ~InBlock /\ ~InBlock'
      /\ pc' \in [Thread -> {"none", "start", "run", "join", "barrier", "end", "block",
                             "destroy", "free", "destroyhost"}]
  BY <1>1, <1>2, <1>3, MainGoesOn
<1>5. /\ CountInv' /\ JobInv' /\ QueueInv' /\ CoverInv' /\ BlockInv' /\ NoJobLost'
      /\ queue' \in [Queue -> Seq(Task)] /\ pushed' \in [Queue -> Nat]
      /\ last_finished' \in [Queue -> Nat] /\ event' \in [Slot -> Queue \X Nat]
  BY <1>2, <1>4, ThreadsMove
<1>6. TypeInv'
  <2>1. next' \in Nat /\ freed' \subseteq Nat
    <3>1. next \in Nat /\ freed \subseteq Nat
      BY <1>1, Zenon DEF TypeInv
    <3>2. next' = next + 1 /\ freed' = freed \cup {next}
      BY <1>2
    <3>. QED
      BY ONLY <3>1, <3>2
  <2>2. /\ kind' \in [Ctrl -> {"MEMMOVES", "ZEROCOPY", "DRIVER"}]
        /\ jobs' \subseteq Queue \X Nat \X {"IN", "OUT", "IO"}
        /\ destroyed' \subseteq Queue /\ lost' \subseteq jobs'
    <3>1. kind' = kind /\ jobs' = jobs /\ destroyed' = destroyed /\ lost' = lost
      BY <1>2
    <3>2. /\ kind \in [Ctrl -> {"MEMMOVES", "ZEROCOPY", "DRIVER"}]
          /\ jobs \subseteq Queue \X Nat \X {"IN", "OUT", "IO"}
          /\ destroyed \subseteq Queue /\ lost \subseteq jobs
      BY <1>1, Zenon DEF TypeInv
    <3>. QED
      BY ONLY <3>1, <3>2
  <2>. QED
    BY <1>4, <1>5, <2>1, <2>2 DEF TypeInv
<1>7. NextInv'
  <2>1. pc'[MainThread] = l
    BY <1>1, <1>2, ThreadNames DEF TypeInv
  <2>2. l # "destroyhost" => next + 1 < NCtrls
    BY DEF l
  <2>3. l \in {"destroy", "destroyhost"}
    BY DEF l
  <2>. QED
    BY <1>1, <1>2, <2>1, <2>2, <2>3, ThreadBlockAssumption DEF NextInv, Ctrl, TypeInv
<1>. QED
  BY <1>4, <1>5, <1>6, <1>7 DEF BlockEndInv

\* So does the barrier that closes the parallel region.
LEMMA BarrierKeeps ==
  ASSUME BlockEndInv, Barrier
  PROVE  BlockEndInv'
<1>1. TypeInv /\ StartInv /\ NextInv
  BY DEF BlockEndInv
<1>2. /\ pc[MainThread] = "barrier" /\ pc' = [t \in Thread |-> "end"]
      /\ UNCHANGED <<kind, next, calls, queueVars, event, jobs, freed, destroyed, lost>>
  BY ThreadNames DEF Barrier, Team
<1>3. ~InBlock /\ ~InBlock' /\ NextInv'
  BY <1>2, ThreadNames DEF InBlock, NextInv
<1>4. /\ CountInv' /\ JobInv' /\ QueueInv' /\ CoverInv' /\ BlockInv' /\ NoJobLost'
      /\ queue' \in [Queue -> Seq(Task)] /\ pushed' \in [Queue -> Nat]
      /\ last_finished' \in [Queue -> Nat] /\ event' \in [Slot -> Queue \X Nat]
  BY <1>2, <1>3, ThreadsMove
<1>5. TypeInv'
  BY <1>1, <1>2, <1>4 DEF TypeInv
<1>6. StartInv'
  <2>1. \A t \in Thread : pc'[t] = "end"
    BY <1>2
  <2>2. \A c \in Ctrl : QueuesOf(c)' = QueuesOf(c) /\ (Driver(c)' <=> Driver(c))
    BY <1>2 DEF QueuesOf, Driver
  <2>. QED
    BY <2>1, <2>2, ThreadNames DEF StartInv
<1>. QED
  BY <1>3, <1>4, <1>5, <1>6 DEF BlockEndInv

\* A thread other than the main one goes on.
LEMMA ThreadGoesOn ==
  ASSUME BlockEndInv, NEW t \in Thread, t # MainThread,
         NEW l \in {"none", "start", "run", "join", "barrier", "end"},
         Goto(t, l), StartInv'
  PROVE  BlockEndInv'
<1>1. TypeInv /\ NextInv
  BY DEF BlockEndInv
<1>2. /\ pc' = [pc EXCEPT ![t] = l]
      /\ UNCHANGED <<kind, next, calls, queueVars, event, jobs, freed, destroyed, lost>>
  BY DEF Goto
<1>3. pc'[MainThread] = pc[MainThread]
  BY <1>1, <1>2, ThreadNames DEF TypeInv
<1>4. (InBlock' <=> InBlock) /\ NextInv'
  BY <1>1, <1>2, <1>3 DEF InBlock, NextInv
<1>5. /\ CountInv' /\ JobInv' /\ QueueInv' /\ CoverInv' /\ BlockInv' /\ NoJobLost'
      /\ queue' \in [Queue -> Seq(Task)] /\ pushed' \in [Queue -> Nat]
      /\ last_finished' \in [Queue -> Nat] /\ event' \in [Slot -> Queue \X Nat]
  BY <1>2, <1>4, ThreadsMove
<1>6. TypeInv'
  BY <1>1, <1>2, <1>5 DEF TypeInv
<1>. QED
  BY <1>4, <1>5, <1>6 DEF BlockEndInv

\* So does a thread that starts its loop.
LEMMA StartsKeep ==
  ASSUME BlockEndInv,
         \/ StartManager
         \/ \E c \in Ctrl : Join(c)
         \/ \E t \in Thread : StartCpu(t)
  PROVE  BlockEndInv'
<1>1. TypeInv /\ StartInv
  BY DEF BlockEndInv
<1>2. PICK t \in Thread, l \in {"barrier", "run"} :
        t # MainThread /\ pc[t] \in {"start", "join"} /\ Goto(t, l)
  <2>1. CASE StartManager
    BY <2>1, ThreadNames DEF StartManager
  <2>2. CASE \E c \in Ctrl : Join(c)
    BY <2>2, ThreadNames DEF Join
  <2>3. CASE \E t \in Thread : StartCpu(t)
    BY <2>3, ThreadNames DEF StartCpu
  <2>. QED
    BY <2>1, <2>2, <2>3
<1>3. /\ pc' = [pc EXCEPT ![t] = l] /\ UNCHANGED <<kind, last_finished>>
  BY <1>2 DEF Goto, queueVars
<1>4. \A x \in Thread : pc'[x] = pc[x] \/ (pc[x] # "none" /\ pc'[x] \notin {"none", "start"})
  BY <1>1, <1>2, <1>3 DEF TypeInv
<1>5. StartInv'
  BY <1>1, <1>3, <1>4, StartStays
<1>. QED
  BY <1>2, <1>5, ThreadGoesOn

\* So does the thread of a ctrl that starts its queues' threads.
LEMMA SpawnKeeps ==
  ASSUME BlockEndInv, NEW c \in Ctrl, Spawn(c)
  PROVE  BlockEndInv'
<1>1. TypeInv /\ NextInv /\ StartInv
  BY DEF BlockEndInv
<1>2. /\ pc[Spawner(c)] = "start"
      /\ pc' = [t \in Thread |-> IF t = Spawner(c) THEN "join"
                                 ELSE IF t \in QueuesOf(c) THEN "start" ELSE pc[t]]
      /\ UNCHANGED <<kind, next, calls, queueVars, event, jobs, freed, destroyed, lost>>
  BY DEF Spawn
<1>3. ~Driver(c) /\ \A q \in QueuesOf(c) : pc[q] = "none" /\ q \in CpuThread
  BY <1>1, <1>2, ThreadNames DEF StartInv
<1>4. /\ pc'[Spawner(c)] = "join"
      /\ \A q \in QueuesOf(c) : pc'[q] = "start"
      /\ \A t \in Thread : t # Spawner(c) /\ t \notin QueuesOf(c) => pc'[t] = pc[t]
  BY <1>2, <1>3, ThreadNames
<1>5. pc'[MainThread] = pc[MainThread]
  BY <1>3, <1>4, ThreadNames
<1>6. (InBlock' <=> InBlock) /\ NextInv'
  BY <1>1, <1>2, <1>5 DEF InBlock, NextInv
<1>7. /\ CountInv' /\ JobInv' /\ QueueInv' /\ CoverInv' /\ BlockInv' /\ NoJobLost'
      /\ queue' \in [Queue -> Seq(Task)] /\ pushed' \in [Queue -> Nat]
      /\ last_finished' \in [Queue -> Nat] /\ event' \in [Slot -> Queue \X Nat]
  BY <1>2, <1>6, ThreadsMove
<1>8. TypeInv'
  BY <1>1, <1>2, <1>7 DEF TypeInv
<1>9. /\ \A d \in Ctrl : QueuesOf(d)' = QueuesOf(d) /\ (Driver(d)' <=> Driver(d))
      /\ DriverQueues' = DriverQueues /\ last_finished' = last_finished
  BY <1>2 DEF QueuesOf, Driver, DriverQueues, queueVars
<1>10. StartInv'
  <2>1. /\ pc'[MainThread] # "start" /\ pc'[HostThread] # "start"
        /\ pc'[Manager] = "start" => Untouched(DriverQueues)
    BY <1>1, <1>3, <1>4, ThreadNames DEF StartInv
  <2>2. Untouched(DriverQueues)' <=> Untouched(DriverQueues)
    BY <1>9 DEF Untouched
  <2>3. ASSUME NEW d \in Ctrl, pc'[Spawner(d)] = "start"
        PROVE  ~Driver(d) /\ \A q \in QueuesOf(d) : pc'[q] = "none"
    <3>1. d # c
      BY <1>4, <2>3
    <3>2. Spawner(d) # Spawner(c) /\ Spawner(d) \notin QueuesOf(c) /\ Spawner(d) \in Thread
      BY <1>3, <3>1, ThreadNames
    <3>3. pc[Spawner(d)] = "start"
      BY <1>4, <2>3, <3>2
    <3>4. ~Driver(d) /\ \A q \in QueuesOf(d) : pc[q] = "none" /\ q \in CpuThread
      BY <1>1, <3>3, ThreadNames DEF StartInv
    <3>5. ASSUME NEW q \in QueuesOf(d)
          PROVE  pc'[q] = pc[q]
      BY <1>4, <3>1, <3>4, QueuesApart, ThreadNames
    <3>. QED
      BY <3>4, <3>5
  <2>4. ASSUME NEW d \in Ctrl, ~Driver(d), NEW q \in QueuesOf(d),
               pc'[q] \in {"none", "start"}
        PROVE  Untouched({q})'
    <3>1. pc[q] \in {"none", "start"}
      BY <1>3, <1>4, <2>4, ThreadNames
    <3>2. Untouched({q})
      BY <1>1, <2>4, <3>1 DEF StartInv
    <3>. QED
      BY <1>9, <3>2 DEF Untouched
  <2>5. ASSUME NEW t \in CpuThread, pc'[t] = "start"
        PROVE  ~Driver(t[1])' /\ t \in QueuesOf(t[1])'
    <3>1. CASE t \in QueuesOf(c)
      BY <1>3, <1>9, <3>1, QueueNames
    <3>2. CASE t \notin QueuesOf(c)
      <4>1. pc[t] = "start"
        BY <1>4, <2>5, <3>2, ThreadNames
      <4>2. ~Driver(t[1]) /\ t \in QueuesOf(t[1])
        BY <1>1, <4>1 DEF StartInv
      <4>. QED
        BY <1>2, <4>2 DEF Driver, QueuesOf
    <3>. QED
      BY <3>1, <3>2
  <2>. QED
    BY <1>9, <2>1, <2>2, <2>3, <2>4, <2>5 DEF StartInv
<1>. QED
  BY <1>6, <1>7, <1>8, <1>10 DEF BlockEndInv

(* Streams.                                                                *)

\* A task that is not DESTROY is finished.
LEMMA ConsumeKeeps ==
  ASSUME BlockEndInv, NEW q \in Queue, NEW k \in {"wait", "job"}, IsNext(q, k), Consume(q),
         k = "wait" => EventDone(Head(queue[q]).at)
  PROVE  BlockEndInv'
<1>1. TypeInv /\ NextInv /\ BlockInv /\ CountInv /\ JobInv /\ QueueInv /\ StartInv
      /\ CoverInv /\ NoJobLost
  BY DEF BlockEndInv
<1>. DEFINE s == queue[q]
<1>2. /\ s # <<>> /\ Head(s).kind = k /\ pc[Consumer(q)] = "run"
      /\ queue' = [queue EXCEPT ![q] = Tail(s)]
      /\ last_finished' = [last_finished EXCEPT ![q] = @ + 1]
      /\ UNCHANGED <<kind, pc, next, calls, pushed, event, jobs, freed, destroyed, lost>>
  BY DEF IsNext, Consume
<1>3. s \in Seq(Task)
  BY <1>1 DEF TypeInv
<1>4. queue'[q] = Tail(s) /\ \A p \in Queue : p # q => queue'[p] = queue[p]
  BY <1>1, <1>2 DEF TypeInv
<1>5. /\ last_finished'[q] = last_finished[q] + 1
      /\ \A p \in Queue : p # q => last_finished'[p] = last_finished[p]
      /\ \A p \in Queue : last_finished[p] \in Nat /\ last_finished'[p] \in Nat
                          /\ last_finished[p] <= last_finished'[p]
  BY <1>1, <1>2 DEF TypeInv
<1>. HIDE DEF s
<1>6. /\ Tail(s) \in Seq(Task) /\ Len(Tail(s)) = Len(s) - 1 /\ Head(s) = s[1]
      /\ 1 \in DOMAIN s /\ Len(s) \in Nat /\ Head(s) \in Task
      /\ \A i \in DOMAIN Tail(s) : i + 1 \in DOMAIN s /\ Tail(s)[i] = s[i + 1]
      /\ \A i \in DOMAIN s : i = 1 \/ (i - 1 \in DOMAIN Tail(s) /\ Tail(s)[i - 1] = s[i])
  BY <1>2, <1>3, TailLeaves
<1>7. DOMAIN s \subseteq Nat /\ DOMAIN Tail(s) \subseteq Nat
  BY <1>3, <1>6
<1>8. q \notin destroyed
  BY <1>1, <1>2, <1>6 DEF CountInv, s
<1>9. TypeInv' /\ NextInv' /\ (InBlock' <=> InBlock) /\ BlockInv'
  <2>1. queue' \in [Queue -> Seq(Task)] /\ last_finished' \in [Queue -> Nat]
    BY <1>1, <1>2, <1>6 DEF TypeInv
  <2>. QED
    BY <1>1, <1>2, <2>1 DEF TypeInv, NextInv, InBlock, BlockInv
<1>10. pushed[q] \in Nat /\ last_finished[q] + Len(s) = pushed[q]
  BY <1>1, <1>8 DEF TypeInv, CountInv, s
<1>11. last_finished'[q] + Len(queue'[q]) = pushed'[q]
  <2>. DEFINE a == Len(s)  b == Len(Tail(s))  x == last_finished[q]  u == pushed[q]
  <2>1. b = a - 1 /\ a \in Nat /\ x \in Nat /\ x + a = u
    BY <1>5, <1>6, <1>10
  <2>2. last_finished'[q] = x + 1 /\ Len(queue'[q]) = b /\ pushed'[q] = u
    BY <1>2, <1>4, <1>5
  <2>. HIDE DEF a, b, x, u
  <2>. QED
    BY <2>1, <2>2
<1>12. CountInv'
  <2>1. destroyed' = destroyed /\ pushed' = pushed
    BY <1>2
  <2>2. ASSUME NEW p \in Queue, p # q
        PROVE  queue'[p] = queue[p] /\ last_finished'[p] = last_finished[p]
    BY <1>1, <1>2, <2>2 DEF TypeInv
  <2>3. ASSUME NEW p \in Queue \ destroyed
        PROVE  last_finished'[p] + Len(queue'[p]) = pushed'[p]
    BY <1>1, <1>11, <2>1, <2>2 DEF CountInv
  <2>4. ASSUME NEW p \in destroyed, NEW i \in DOMAIN queue'[p]
        PROVE  queue'[p][i].kind = "destroy"
    <3>1. p # q /\ p \in Queue
      BY <1>1, <1>8 DEF TypeInv
    <3>. QED
      BY <1>1, <2>2, <2>4, <3>1 DEF CountInv
  <2>. QED
    BY <2>1, <2>3, <2>4 DEF CountInv
<1>13. JobInv'
  <2>1. \A c \in Ctrl : QueuesOf(c)' = QueuesOf(c)
    BY <1>2 DEF QueuesOf, Driver
  <2>2. \A p \in Queue : p \in destroyed => queue'[p] = queue[p]
    BY <1>4, <1>8
  <2>. QED
    BY <1>1, <1>2, <2>1, <2>2 DEF JobInv, TypeInv
<1>14. QueueInv'
  <2>1. ASSUME NEW p \in Queue, p # q, NEW i \in DOMAIN queue'[p]
        PROVE  /\ queue'[p][i].kind = "job" =>
                    \E x \in {"IN", "OUT", "IO"} :
                      <<p, pushed'[p] - Len(queue'[p]) + i, x>> \in jobs'
               /\ queue'[p][i].kind = "wait" =>
                    \/ queue'[p][i].for = p /\ FollowedByJob(p, i)'
                    \/ queue'[p][i].for # p /\ kind'[p[1]] = "MEMMOVES"
               /\ queue'[p][i].kind = "destroy" => ~InBlock'
    <3>1. queue'[p] = queue[p] /\ pushed' = pushed /\ jobs' = jobs /\ kind' = kind
      BY <1>2, <1>4, <2>1
    <3>2. FollowedByJob(p, i)' <=> FollowedByJob(p, i)
      BY <3>1 DEF FollowedByJob
    <3>. QED
      BY <1>1, <1>9, <2>1, <3>1, <3>2 DEF QueueInv
  <2>2. ASSUME NEW i \in DOMAIN queue'[q]
        PROVE  /\ queue'[q][i].kind = "job" =>
                    \E x \in {"IN", "OUT", "IO"} :
                      <<q, pushed'[q] - Len(queue'[q]) + i, x>> \in jobs'
               /\ queue'[q][i].kind = "wait" =>
                    \/ queue'[q][i].for = q /\ FollowedByJob(q, i)'
                    \/ queue'[q][i].for # q /\ kind'[q[1]] = "MEMMOVES"
               /\ queue'[q][i].kind = "destroy" => ~InBlock'
    <3>1. i \in Nat /\ i + 1 \in DOMAIN s /\ queue'[q][i] = s[i + 1]
      BY <1>4, <1>6, <1>7, <2>2
    <3>2. pushed'[q] - Len(queue'[q]) + i = pushed[q] - Len(s) + (i + 1)
      <4>. DEFINE a == Len(s)  b == Len(Tail(s))  u == pushed[q]
      <4>1. b = a - 1 /\ a \in Nat /\ u \in Nat /\ i \in Nat
        BY <1>6, <1>10, <3>1
      <4>2. pushed'[q] = u /\ Len(queue'[q]) = b
        BY <1>2, <1>4
      <4>. HIDE DEF a, b, u
      <4>3. u - b + i = u - a + (i + 1)
        BY <4>1
      <4>. QED
        BY <4>2, <4>3 DEF a, u
    <3>3. FollowedByJob(q, i + 1) => FollowedByJob(q, i)'
      <4>1. ASSUME NEW n \in DOMAIN s, i + 1 < n, s[n].kind = "job"
            PROVE  n - 1 \in DOMAIN queue'[q] /\ i < n - 1 /\ queue'[q][n - 1].kind = "job"
        <5>1. n \in Nat /\ n # 1 /\ i < n - 1
          BY <1>7, <3>1, <4>1
        <5>. QED
          BY <1>4, <1>6, <4>1, <5>1
      <4>. QED
        BY <4>1 DEF FollowedByJob, s
    <3>4. /\ s[i + 1].kind = "job" =>
               \E x \in {"IN", "OUT", "IO"} : <<q, pushed[q] - Len(s) + (i + 1), x>> \in jobs
          /\ s[i + 1].kind = "wait" =>
               \/ s[i + 1].for = q /\ FollowedByJob(q, i + 1)
               \/ s[i + 1].for # q /\ kind[q[1]] = "MEMMOVES"
          /\ s[i + 1].kind = "destroy" => ~InBlock
      BY <1>1, <3>1 DEF QueueInv, s
    <3>5. jobs' = jobs /\ kind' = kind
      BY <1>2
    <3>. QED
      BY <1>9, <3>1, <3>2, <3>3, <3>4, <3>5
  <2>. QED
    BY <2>1, <2>2 DEF QueueInv
<1>15. StartInv'
  <2>1. /\ \A c : QueuesOf(c)' = QueuesOf(c) /\ (Driver(c)' <=> Driver(c))
        /\ DriverQueues' = DriverQueues /\ pc' = pc
    BY <1>2 DEF QueuesOf, Driver, DriverQueues
  <2>2. ASSUME pc[Manager] = "start"
        PROVE  Untouched(DriverQueues)'
    <3>1. Untouched(DriverQueues)
      BY <1>1, <2>2 DEF StartInv
    <3>2. q \notin DriverQueues
      <4>1. ASSUME q \in DriverQueues
            PROVE  Consumer(q) = Manager
        <5>1. PICK c \in Ctrl : Driver(c) /\ q \in QueuesOf(c)
          BY <4>1 DEF DriverQueues
        <5>2. q[1] = c /\ q # HostQueue
          BY <5>1, QueueNames
        <5>. QED
          BY <5>1, <5>2 DEF Consumer
      <4>. QED
        BY <1>2, <2>2, <4>1
    <3>. QED
      BY <1>5, <2>1, <3>1, <3>2, QueueNames DEF Untouched
  <2>3. ASSUME NEW c \in Ctrl, ~Driver(c), NEW p \in QueuesOf(c), pc[p] \in {"none", "start"}
        PROVE  Untouched({p})'
    <3>1. Untouched({p}) /\ p \in Queue
      BY <1>1, <2>3, QueueNames DEF StartInv
    <3>2. Consumer(p) = p
      BY <2>3, QueueNames DEF Consumer
    <3>3. p # q
      BY <1>2, <2>3, <3>2
    <3>. QED
      BY <1>5, <3>1, <3>3 DEF Untouched
  <2>. QED
    BY <1>1, <2>1, <2>2, <2>3 DEF StartInv
<1>16. CASE ~InBlock
  <2>1. CoverInv' /\ NoJobLost'
    BY <1>1, <1>2, <1>5, <1>9, <1>16, AfterBlock
  <2>. QED
    BY <1>9, <1>12, <1>13, <1>14, <1>15, <2>1 DEF BlockEndInv
<1>17. CASE InBlock
  <2>. DEFINE a == Head(s).at
              x == last_finished[q]
  <2>1. NoJobLost' /\ destroyed = {}
    BY <1>1, <1>2, <1>17 DEF NoJobLost, BlockInv
  <2>2. a \in Position /\ (k = "wait" => a[2] <= last_finished[a[1]])
    <3>1. a \in Position
      BY <1>6 DEF Task, Position
    <3>2. k = "wait" => last_finished[a[1]] >= a[2]
      BY DEF EventDone, s
    <3>3. a[1] \in Queue /\ a[2] \in Nat
      BY <3>1 DEF Position
    <3>4. last_finished[a[1]] \in Nat
      BY <1>5, <3>3
    <3>. QED
      BY <3>1, <3>2, <3>3, <3>4
  <2>. HIDE DEF a
  <2>3. ASSUME NEW D \in SUBSET Position, Closed(D)'
        PROVE  \E E \in SUBSET Position :
                 /\ D \subseteq E /\ Closed(E)
                 /\ \A p \in E : p \in D \/ p[2] <= last_finished'[p[1]]
    <3>. DEFINE A == {<<q, i>> : i \in 0 .. x + 1}
                B == IF k = "wait" THEN {a} ELSE {}
                E == D \cup A \cup B
    <3>1. x \in Nat
      BY <1>5
    <3>2. \A p \in A : p[1] = q /\ p[2] \in 0 .. x + 1
      OBVIOUS
    <3>3. E \in SUBSET Position
      BY <2>2, <3>1 DEF Position
    <3>4. \A p \in B : p[2] <= last_finished[p[1]] /\ p \in Position
      BY <2>2
    <3>5. \A p \in A : p[2] <= last_finished'[p[1]]
      BY <1>5, <3>1, <3>2
    <3>6. \A p \in B : p[2] <= last_finished'[p[1]]
      <4>1. ASSUME NEW p \in B
            PROVE  p[2] <= last_finished'[p[1]]
        <5>1. p[1] \in Queue /\ p[2] \in Nat /\ p[2] <= last_finished[p[1]]
          BY <3>4 DEF Position
        <5>. QED
          BY <1>5, <5>1
      <4>. QED
        BY <4>1
    <3>7. ASSUME NEW p \in E, p[2] > last_finished[p[1]]
          PROVE  /\ \A i \in 1 .. p[2] : <<p[1], i>> \in E
                 /\ \A i \in DOMAIN queue[p[1]] :
                      queue[p[1]][i].kind = "wait" /\ last_finished[p[1]] + i <= p[2]
                      => queue[p[1]][i].at \in E
      <4>1. p[1] \in Queue /\ p[2] \in Nat /\ last_finished[p[1]] \in Nat
        BY <1>5, <3>3 DEF Position
      <4>2. p \notin B
        <5>1. ASSUME p \in B
              PROVE  FALSE
          <6>1. p[2] <= last_finished[p[1]]
            BY <3>4, <5>1
          <6>. QED
            BY <3>7, <4>1, <6>1
        <5>. QED
          BY <5>1
      <4>3. CASE p[1] # q
        <5>1. p \in D
          BY <3>2, <4>2, <4>3
        <5>2. p[2] > last_finished'[p[1]]
          BY <1>5, <3>7, <4>1, <4>3
        <5>3. queue'[p[1]] = queue[p[1]] /\ last_finished'[p[1]] = last_finished[p[1]]
          BY <1>4, <1>5, <4>1, <4>3
        <5>4. /\ \A i \in 1 .. p[2] : <<p[1], i>> \in D
              /\ \A i \in DOMAIN queue[p[1]] :
                   queue[p[1]][i].kind = "wait" /\ last_finished[p[1]] + i <= p[2]
                   => queue[p[1]][i].at \in D
          BY <2>3, <5>1, <5>2, <5>3 DEF Closed
        <5>. QED
          BY <5>4
      <4>4. CASE p[1] = q
        <5>1. p[2] >= x + 1
          BY <3>1, <3>7, <4>1, <4>4
        <5>2. p[2] > x + 1 => p \in D
          BY <3>1, <3>2, <4>1, <4>2
        <5>3. p[2] > x + 1 =>
                /\ \A i \in 1 .. p[2] : <<q, i>> \in D
                /\ \A i \in DOMAIN queue'[q] :
                     queue'[q][i].kind = "wait" /\ last_finished'[q] + i <= p[2]
                     => queue'[q][i].at \in D
          BY <1>5, <2>3, <4>4, <5>2 DEF Closed
        <5>4. ASSUME NEW i \in 1 .. p[2]
              PROVE  <<p[1], i>> \in E
          <6>1. CASE p[2] > x + 1
            BY <4>4, <5>3, <6>1
          <6>2. CASE p[2] = x + 1
            BY <3>1, <4>4, <6>2
          <6>. QED
            BY <3>1, <4>1, <5>1, <6>1, <6>2
        <5>5. ASSUME NEW i \in DOMAIN s, s[i].kind = "wait", x + i <= p[2]
              PROVE  s[i].at \in E
          <6>1. CASE i = 1
            <7>1. k = "wait" /\ s[i].at = a
              BY <1>2, <1>6, <5>5, <6>1 DEF a
            <7>. QED
              BY <7>1
          <6>2. CASE i # 1
            <7>1. i - 1 \in DOMAIN queue'[q] /\ queue'[q][i - 1] = s[i] /\ i \in Nat
              BY <1>4, <1>6, <1>7, <6>2
            <7>2. i >= 1
              BY <1>3
            <7>3. p[2] > x + 1 /\ last_finished'[q] + (i - 1) <= p[2]
              BY <1>5, <3>1, <4>1, <5>5, <6>2, <7>1, <7>2
            <7>4. queue'[q][i - 1].at \in D
              BY <5>3, <5>5, <7>1, <7>3
            <7>. QED
              BY <7>1, <7>4
          <6>. QED
            BY <6>1, <6>2
        <5>. QED
          BY <4>4, <5>4, <5>5 DEF s
      <4>. QED
        BY <4>3, <4>4
    <3>8. Closed(E)
      BY <3>7 DEF Closed
    <3>9. \A p \in E : p \in D \/ p[2] <= last_finished'[p[1]]
      BY <3>5, <3>6
    <3>. HIDE DEF E
    <3>10. D \subseteq E
      BY DEF E
    <3>. QED
      BY <3>3, <3>8, <3>9, <3>10
  <2>4. \A p : WriteSlot(p)' = WriteSlot(p)
    BY <1>2 DEF WriteSlot
  <2>5. ASSUME NEW j \in jobs, j[3] # "IN"
        PROVE  Covers(event[WriteSlot(j[1])], j)'
    <3>. DEFINE e == event[WriteSlot(j[1])]
    <3>1. Covers(e, j)
      BY <1>1, <1>17, <2>5 DEF CoverInv
    <3>2. event'[WriteSlot(j[1])'] = e
      BY <1>2, <2>4
    <3>. HIDE DEF e
    <3>3. j[1] \in Queue /\ j[2] \in Nat
      BY <1>1 DEF TypeInv
    <3>4. ASSUME NEW D \in SUBSET Position, Closed(D)', e \in D
          PROVE  Done(j)' \/ <<j[1], j[2]>> \in D
      <4>1. PICK E \in SUBSET Position :
              /\ D \subseteq E /\ Closed(E)
              /\ \A p \in E : p \in D \/ p[2] <= last_finished'[p[1]]
        BY <2>3, <3>4
      <4>2. Done(j) \/ <<j[1], j[2]>> \in E
        BY <3>1, <3>4, <4>1 DEF Covers
      <4>3. Done(j) => Done(j)'
        BY <1>5, <3>3 DEF Done
      <4>4. <<j[1], j[2]>> \in E => <<j[1], j[2]>> \in D \/ j[2] <= last_finished'[j[1]]
        BY <4>1
      <4>. QED
        BY <4>2, <4>3, <4>4 DEF Done
    <3>. QED
      BY <3>2, <3>4 DEF Covers
  <2>6. CoverInv'
    BY <1>2, <1>9, <1>17, <2>5 DEF CoverInv
  <2>. QED
    BY <1>9, <1>12, <1>13, <1>14, <1>15, <2>1, <2>6 DEF BlockEndInv
<1>. QED
  BY <1>16, <1>17

\* After the block, what is left in a queue is not done.
LEMMA LeftIsOverlooked ==
  ASSUME BlockEndInv, ~InBlock, NEW j \in jobs, j[2] > pushed[j[1]] - Len(queue[j[1]])
  PROVE  Overlooked(j)
<1>1. TypeInv /\ CountInv /\ JobInv /\ CoverInv
  BY DEF BlockEndInv
<1>. DEFINE u == pushed[j[1]]  b == Len(queue[j[1]])  x == last_finished[j[1]]
<1>2. j[1] \in Queue /\ j[2] \in Nat /\ queue[j[1]] \in Seq(Task)
      /\ u \in Nat /\ x \in Nat
  BY <1>1 DEF TypeInv
<1>3. b \in Nat /\ j[2] > u - b
  BY <1>2
<1>4. j[1] \in destroyed => j[2] <= u - b
  BY <1>1 DEF JobInv
<1>5. j[1] \notin destroyed => x + b = u
  BY <1>1, <1>2 DEF CountInv
<1>. HIDE DEF u, b, x
<1>6. ~(j[2] <= x)
  BY <1>2, <1>3, <1>4, <1>5
<1>7. ~Done(j)
  BY <1>6 DEF Done, x
<1>. QED
  BY <1>1, <1>7 DEF CoverInv

\* A thread meets DESTROY.
LEMMA TakeDestroyKeeps ==
  ASSUME BlockEndInv, NEW q \in Queue, TakeDestroy(q)
  PROVE  BlockEndInv'
<1>. DEFINE Q == IF Consumer(q) = Manager THEN DriverQueues ELSE {q}
            t == Consumer(q)
            l == IF Consumer(q) = q THEN "end" ELSE "barrier"
<1>1. TypeInv /\ NextInv /\ BlockInv /\ CountInv /\ JobInv /\ QueueInv /\ StartInv
      /\ CoverInv /\ NoJobLost
  BY DEF BlockEndInv
<1>2. /\ queue[q] # <<>> /\ Head(queue[q]).kind = "destroy" /\ pc[t] = "run"
      /\ lost' = lost \cup JobsLeft(Q)
      /\ destroyed' = destroyed \cup Q
      /\ queue' = [p \in Queue |-> IF p \in Q THEN <<>> ELSE queue[p]]
      /\ pc' = [pc EXCEPT ![t] = l]
      /\ UNCHANGED <<kind, next, calls, pushed, last_finished, event, jobs, freed>>
  BY DEF TakeDestroy, IsNext
<1>3. Q \subseteq Queue /\ l \in {"end", "barrier"} /\ t # MainThread
  <2>1. q # MainThread
    BY DEF Queue, HostQueue, Htd, Dth, Kernel, MainThread
  <2>. QED
    BY <2>1, QueueNames, ThreadNames DEF Consumer
<1>. HIDE DEF Q, l, t
<1>4. ~InBlock
  <2>1. queue[q] \in Seq(Task)
    BY <1>1 DEF TypeInv
  <2>2. 1 \in DOMAIN queue[q] /\ queue[q][1].kind = "destroy"
    BY <1>2, <2>1, TailLeaves
  <2>. QED
    BY <1>1, <2>2 DEF QueueInv
<1>5. pc'[MainThread] = pc[MainThread]
  BY <1>1, <1>2, <1>3, ThreadNames DEF TypeInv
<1>6. ~InBlock' /\ NextInv'
  BY <1>1, <1>2, <1>4, <1>5 DEF InBlock, NextInv
<1>7. TypeInv'
  <2>1. queue' \in [Queue -> Seq(Task)]
    <3>1. <<>> \in Seq(Task)
      OBVIOUS
    <3>. QED
      BY <1>1, <1>2, <3>1 DEF TypeInv
  <2>2. lost' \subseteq jobs' /\ destroyed' \subseteq Queue
    BY <1>1, <1>2, <1>3 DEF TypeInv, JobsLeft
  <2>3. pc' \in [Thread -> {"none", "start", "run", "join", "barrier", "end", "block",
                            "destroy", "free", "destroyhost"}]
    BY <1>1, <1>2, <1>3 DEF TypeInv
  <2>. QED
    BY <1>1, <1>2, <2>1, <2>2, <2>3 DEF TypeInv
<1>8. /\ \A p \in Queue \ Q : queue'[p] = queue[p]
      /\ \A p \in Q : queue'[p] = <<>>
      /\ Len(<<>>) = 0 /\ DOMAIN <<>> = {}
  BY <1>2, <1>3
<1>9. CountInv'
  <2>1. \A p \in Queue \ destroyed' : last_finished'[p] + Len(queue'[p]) = pushed'[p]
    BY <1>1, <1>2, <1>8 DEF CountInv
  <2>2. ASSUME NEW p \in destroyed', NEW i \in DOMAIN queue'[p]
        PROVE  queue'[p][i].kind = "destroy"
    <3>1. p \notin Q
      BY <1>8, <2>2
    <3>2. p \in destroyed /\ p \in Queue
      BY <1>1, <1>2, <2>2, <3>1 DEF TypeInv
    <3>. QED
      BY <1>1, <1>8, <2>2, <3>1, <3>2 DEF CountInv
  <2>. QED
    BY <2>1, <2>2 DEF CountInv
<1>10. JobInv'
  <2>1. \A c : QueuesOf(c)' = QueuesOf(c)
    BY <1>2 DEF QueuesOf, Driver
  <2>2. ASSUME NEW j \in jobs, j[1] \in destroyed'
        PROVE  j[2] <= pushed'[j[1]] - Len(queue'[j[1]])
    <3>1. j[1] \in Queue /\ j[2] \in Nat /\ pushed[j[1]] \in Nat /\ pushed' = pushed
      BY <1>1, <1>2 DEF TypeInv
    <3>2. CASE j[1] \in Q
      <4>1. Len(queue'[j[1]]) = 0
        BY <1>8, <3>2
      <4>2. j[2] <= pushed[j[1]]
        BY <1>1 DEF JobInv
      <4>. QED
        BY <3>1, <4>1, <4>2
    <3>3. CASE j[1] \notin Q
      <4>1. j[1] \in destroyed /\ queue'[j[1]] = queue[j[1]]
        BY <1>2, <1>8, <2>2, <3>1, <3>3
      <4>2. j[2] <= pushed[j[1]] - Len(queue[j[1]])
        BY <1>1, <4>1 DEF JobInv
      <4>. QED
        BY <3>1, <4>1, <4>2
    <3>. QED
      BY <3>2, <3>3
  <2>. QED
    BY <1>1, <1>2, <2>1, <2>2 DEF JobInv
<1>11. QueueInv'
  <2>1. ASSUME NEW p \in Queue, NEW i \in DOMAIN queue'[p]
        PROVE  /\ queue'[p][i].kind = "job" =>
                    \E x \in {"IN", "OUT", "IO"} :
                      <<p, pushed'[p] - Len(queue'[p]) + i, x>> \in jobs'
               /\ queue'[p][i].kind = "wait" =>
                    \/ queue'[p][i].for = p /\ FollowedByJob(p, i)'
                    \/ queue'[p][i].for # p /\ kind'[p[1]] = "MEMMOVES"
    <3>1. p \notin Q
      BY <1>8, <2>1
    <3>2. queue'[p] = queue[p] /\ pushed' = pushed /\ jobs' = jobs /\ kind' = kind
      BY <1>2, <1>8, <3>1
    <3>3. FollowedByJob(p, i)' <=> FollowedByJob(p, i)
      BY <3>2 DEF FollowedByJob
    <3>. QED
      BY <1>1, <2>1, <3>2, <3>3 DEF QueueInv
  <2>. QED
    BY <1>6, <2>1 DEF QueueInv
<1>12. StartInv'
  BY <1>1, <1>2, <1>3, StartStays DEF TypeInv
<1>13. CoverInv' /\ BlockInv'
  <2>1. \A p \in Queue : last_finished[p] <= last_finished'[p] /\ last_finished'[p] \in Nat
    BY <1>1, <1>2 DEF TypeInv
  <2>. QED
    BY <1>1, <1>2, <1>4, <1>6, <2>1, AfterBlock
<1>14. NoJobLost'
  <2>1. \A j : Overlooked(j)' <=> Overlooked(j)
    BY <1>2 DEF Overlooked
  <2>2. \A j \in JobsLeft(Q) : Overlooked(j)
    BY <1>4, LeftIsOverlooked DEF JobsLeft
  <2>. QED
    BY <1>1, <1>2, <2>1, <2>2 DEF NoJobLost
<1>. QED
  BY <1>6, <1>7, <1>9, <1>10, <1>11, <1>12, <1>13, <1>14 DEF BlockEndInv

(* The theorems.                                                           *)

\* The threads of a block begin with empty queues.
LEMMA InitIsInBlock ==
  Init => BlockEndInv
<1>. SUFFICES ASSUME Init PROVE BlockEndInv
  OBVIOUS
<1>1. /\ kind \in Kinds /\ next = 0 /\ jobs = {} /\ freed = {} /\ destroyed = {} /\ lost = {}
      /\ queue = [q \in Queue |-> <<>>] /\ pushed = [q \in Queue |-> 0]
      /\ last_finished = [q \in Queue |-> 0] /\ event = [s \in Slot |-> Unrecorded]
  BY DEF Init
<1>2. /\ pc[MainThread] = "block" /\ pc[HostThread] = "run" /\ pc[Manager] = "start"
      /\ \A t \in CpuThread : pc[t] = "none"
      /\ \A c \in Ctrl : pc[Spawner(c)] = IF Driver(c) THEN "barrier" ELSE "start"
  BY ThreadNames DEF Init
<1>3. pc \in [Thread -> {"none", "start", "run", "join", "barrier", "end", "block",
                         "destroy", "free", "destroyhost"}]
  <2>1. \E f : pc = [t \in Thread |-> f[t]]
    BY DEF Init
  <2>2. \A t \in Thread : pc[t] \in {"none", "start", "run", "block", "barrier"}
    BY <1>2, ThreadNames
  <2>. QED
    BY <2>1, <2>2
<1>4. TypeInv
  <2>1. <<>> \in Seq(Task) /\ Unrecorded \in Queue \X Nat
    BY QueueNames DEF Unrecorded
  <2>2. kind \in [Ctrl -> {"MEMMOVES", "ZEROCOPY", "DRIVER"}]
    BY <1>1, ThreadBlockAssumption
  <2>. QED
    BY <1>1, <1>3, <2>1, <2>2 DEF TypeInv
<1>5. NextInv /\ BlockInv /\ JobInv /\ NoJobLost
  BY <1>1, ThreadBlockAssumption DEF NextInv, Ctrl, BlockInv, JobInv, NoJobLost
<1>6. CountInv /\ QueueInv
  <2>1. Len(<<>>) = 0 /\ DOMAIN <<>> = {}
    OBVIOUS
  <2>. QED
    BY <1>1, <2>1 DEF CountInv, QueueInv
<1>7. StartInv
  <2>1. DriverQueues \subseteq Queue /\ \A c \in Ctrl : QueuesOf(c) \subseteq Queue
    BY QueueNames
  <2>2. \A q \in Queue : last_finished[q] = 0
    BY <1>1
  <2>. QED
    BY <1>2, <2>1, <2>2, ThreadNames DEF StartInv, Untouched
<1>8. CoverInv
  BY <1>1, <1>2 DEF CoverInv, InBlock
<1>. QED
  BY <1>4, <1>5, <1>6, <1>7, <1>8 DEF BlockEndInv

\* Every call of the program keeps the invariant.
LEMMA CallsKeep ==
  ASSUME BlockEndInv,
         \/ \E c \in Ctrl : MoveTo(c) \/ MoveFrom(c)
         \/ \E r \in Roles :
              \/ HostTask(r)
              \/ \E c \in Ctrl, k \in 1 .. Streams, copies \in BOOLEAN : Launch(c, k, r, copies)
  PROVE  BlockEndInv'
<1>1. \E w, q, r : \E slots \in SUBSET Slot :
        GoodWaits(w, q, r, slots) /\ Enqueue(w, q, r, slots)
  BY MoveToGood, MoveFromGood, HostTaskGood, LaunchGood
<1>2. PICK w, q, r : \E slots \in SUBSET Slot :
        GoodWaits(w, q, r, slots) /\ Enqueue(w, q, r, slots)
  BY <1>1
<1>3. PICK slots \in SUBSET Slot : GoodWaits(w, q, r, slots) /\ Enqueue(w, q, r, slots)
  BY <1>2
<1>. QED
  BY <1>3, CallKeepsQueues, CallKeepsCover DEF BlockEndInv

\* A step that changes nothing keeps the invariant.
LEMMA StutterKeeps ==
  ASSUME BlockEndInv, UNCHANGED vars
  PROVE  BlockEndInv'
<1>1. TypeInv /\ NextInv /\ StartInv
  BY DEF BlockEndInv
<1>2. UNCHANGED <<kind, pc, next, queueVars, event, jobs, freed, destroyed, lost>>
  BY DEF vars
<1>3. /\ CountInv' /\ JobInv' /\ QueueInv' /\ CoverInv' /\ BlockInv' /\ NoJobLost'
      /\ queue' \in [Queue -> Seq(Task)] /\ pushed' \in [Queue -> Nat]
      /\ last_finished' \in [Queue -> Nat] /\ event' \in [Slot -> Queue \X Nat]
  BY <1>2, ThreadsMove DEF InBlock
<1>4. TypeInv' /\ NextInv'
  BY <1>1, <1>2, <1>3 DEF TypeInv, NextInv
<1>5. StartInv'
  BY <1>1, <1>2, StartStays DEF queueVars
<1>. QED
  BY <1>3, <1>4, <1>5 DEF BlockEndInv

\* Every step keeps the invariant.
LEMMA StepKeepsBlockEnd ==
  BlockEndInv /\ [Next]_vars => BlockEndInv'
<1>. SUFFICES ASSUME BlockEndInv, [Next]_vars PROVE BlockEndInv'
  OBVIOUS
<1>1. CASE Main
  <2>1. CASE Synchronize \/ DestroyCtrl \/ FreeImpl \/ DestroyHost \/ Barrier
    BY <2>1, SynchronizeKeeps, DestroyCtrlKeeps, FreeImplKeeps, DestroyHostKeeps,
       BarrierKeeps
  <2>. QED
    BY <1>1, <2>1, CallsKeep DEF Main
<1>2. CASE \E t \in Thread : Start(t)
  BY <1>2, StartsKeep, SpawnKeeps DEF Start
<1>3. CASE \E q \in Queue : Take(q)
  <2>1. PICK q \in Queue : TakeWait(q) \/ TakeJob(q) \/ TakeDestroy(q)
    BY <1>3 DEF Take
  <2>2. CASE TakeWait(q)
    BY <2>2, ConsumeKeeps DEF TakeWait
  <2>3. CASE TakeJob(q)
    BY <2>3, ConsumeKeeps DEF TakeJob
  <2>. QED
    BY <2>1, <2>2, <2>3, TakeDestroyKeeps
<1>4. CASE UNCHANGED vars
  BY <1>4, StutterKeeps
<1>. QED
  BY <1>1, <1>2, <1>3, <1>4 DEF Next, Finished

\* The invariant of a block and its end, for any ctrls, streams and calls.
THEOREM BlockEndInvariant ==
  Spec => []BlockEndInv
<1>1. Init => BlockEndInv
  BY InitIsInBlock
<1>2. BlockEndInv /\ [Next]_vars => BlockEndInv'
  BY StepKeepsBlockEnd
<1>. QED
  BY <1>1, <1>2, PTL DEF Spec

\* No job is in a queue when it is destroyed, but reading kernels that nothing
\* waits for.
THEOREM JobsAreNotLost ==
  Spec => []NoJobLost
<1>1. BlockEndInv => NoJobLost
  BY DEF BlockEndInv
<1>. QED
  BY <1>1, BlockEndInvariant, PTL

\* What is freed while it is about to be used belongs to threads that start
\* late and have no job, to waits a MOVEFROM left behind, or to such kernels.
THEOREM UsesOfFreedAreKnown ==
  Spec => []FreedUseKnown
<1>1. ASSUME BlockEndInv PROVE FreedUseKnown
  <2>1. TypeInv /\ BlockInv /\ CountInv /\ JobInv /\ QueueInv /\ StartInv /\ CoverInv
    BY <1>1 DEF BlockEndInv
  <2>2. ASSUME NEW t \in Thread, LateStart(t), NEW j \in jobs, j[1] \in Served(t)
        PROVE  Overlooked(j)
    <3>1. pc[t] = "start" /\ freed # {}
      BY <2>2 DEF LateStart, Valid
    <3>2. ~InBlock
      BY <2>1, <3>1 DEF BlockInv
    <3>3. Done(j) \/ Overlooked(j)
      BY <2>1, <3>2 DEF CoverInv
    <3>4. last_finished[j[1]] = 0
      <4>1. CASE t = Manager
        <5>1. Served(t) = DriverQueues
          BY <4>1, ThreadNames DEF Served
        <5>. QED
          BY <2>1, <2>2, <3>1, <4>1, <5>1 DEF StartInv, Untouched
      <4>2. CASE t \in CpuThread
        <5>1. j[1] = t
          BY <2>2, <4>2, ThreadNames DEF Served
        <5>2. ~Driver(t[1]) /\ t \in QueuesOf(t[1])
          BY <2>1, <3>1, <4>2 DEF StartInv
        <5>3. t[1] \in Ctrl
          BY <4>2 DEF CpuThread, Htd, Dth, Kernel
        <5>. QED
          BY <2>1, <3>1, <5>1, <5>2, <5>3 DEF StartInv, Untouched
      <4>3. CASE \E c \in Ctrl : t = Spawner(c)
        <5>1. PICK c \in Ctrl : t = Spawner(c)
          BY <4>3
        <5>2. Served(t) = QueuesOf(c)
          BY <5>1, ThreadNames DEF Served
        <5>3. ~Driver(c) /\ \A q \in QueuesOf(c) : pc[q] = "none"
          BY <2>1, <3>1, <5>1 DEF StartInv
        <5>. QED
          BY <2>1, <2>2, <5>2, <5>3 DEF StartInv, Untouched
      <4>4. CASE t = MainThread \/ t = HostThread
        BY <2>1, <3>1, <4>4 DEF StartInv
      <4>. QED
        BY <4>1, <4>2, <4>3, <4>4, ThreadNames
    <3>5. ~Done(j)
      BY <2>1, <3>4 DEF Done, JobInv, TypeInv
    <3>. QED
      BY <3>3, <3>5
  <2>3. ASSUME NEW q \in Queue, PollsFreed(q) \/ LaunchFreed(q), ~LeftByMoveFrom(q)
        PROVE  JobsLeft({q}) # {} /\ \A j \in JobsLeft({q}) : Overlooked(j)
    <3>1. ~InBlock
      BY <2>1, <2>3 DEF BlockInv, PollsFreed, LaunchFreed, Valid
    <3>2. queue[q] # <<>> /\ Head(queue[q]).kind \in {"wait", "job"}
      BY <2>3 DEF PollsFreed, LaunchFreed, IsNext
    <3>3. 1 \in DOMAIN queue[q] /\ Head(queue[q]) = queue[q][1]
      BY <2>1, <3>2, TailLeaves DEF TypeInv
    <3>4. queue[q][1].kind = "job" \/ FollowedByJob(q, 1)
      BY <2>1, <2>3, <3>2, <3>3 DEF QueueInv, LeftByMoveFrom
    <3>5. PICK i \in DOMAIN queue[q] : queue[q][i].kind = "job"
      BY <3>3, <3>4 DEF FollowedByJob
    <3>6. PICK r \in {"IN", "OUT", "IO"} : <<q, pushed[q] - Len(queue[q]) + i, r>> \in jobs
      BY <2>1, <3>5 DEF QueueInv
    <3>7. pushed[q] - Len(queue[q]) + i > pushed[q] - Len(queue[q])
      <4>. DEFINE s == queue[q]  u == pushed[q]
      <4>1. s \in Seq(Task) /\ u \in Nat /\ i \in DOMAIN s
        BY <2>1 DEF TypeInv
      <4>. HIDE DEF s, u
      <4>2. Len(s) \in Nat /\ i \in 1 .. Len(s)
        BY <4>1
      <4>3. u - Len(s) + i > u - Len(s)
        BY <4>1, <4>2
      <4>. QED
        BY <4>3 DEF s, u
    <3>8. JobsLeft({q}) # {}
      <4>. DEFINE j == <<q, pushed[q] - Len(queue[q]) + i, r>>
      <4>1. j \in jobs /\ j[1] = q /\ j[2] = pushed[q] - Len(queue[q]) + i
        BY <3>6
      <4>. HIDE DEF j
      <4>2. j \in JobsLeft({q})
        BY <3>7, <4>1 DEF JobsLeft
      <4>. QED
        BY <4>2
    <3>9. \A j \in JobsLeft({q}) : Overlooked(j)
      BY <1>1, <3>1, LeftIsOverlooked DEF JobsLeft
    <3>. QED
      BY <3>8, <3>9
  <2>. QED
    BY <2>2, <2>3 DEF FreedUseKnown
<1>. QED
  BY <1>1, BlockEndInvariant, PTL
=============================================================================
