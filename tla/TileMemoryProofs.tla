--------------------------- MODULE TileMemoryProofs ---------------------------
(***************************************************************************)
(* For any number of ctrls, tiles and selections and any jobs: a buffer,   *)
(* and the records a transfer finds it by, stay until every job on it is   *)
(* done, also the jobs that are still queued when the free is called.      *)
(***************************************************************************)
EXTENDS TileLifecycleProofs

(* Which event tells that the jobs on a stream are done.                   *)

\* Each use of a tile on a ctrl has a host event, which tells what the queue
\* manager has launched, and a device event, which tells what is done.  A
\* cover is such a pair, with the stream both are recorded on.
Covers(c, t) ==
  {<< <<c, t, "host_last_htd">>, <<c, t, "dev_last_htd">>, Htd(c)>>,
   << <<c, t, "host_last_dth">>, <<c, t, "dev_last_dth">>, Dth(c)>>,
   << <<c, t, "host_last_kernel_read">>, <<c, t, "dev_last_kernel_read">>, Kernel(c)>>,
   << <<c, t, "host_last_kernel_write">>, <<c, t, "dev_last_kernel_write">>, Kernel(c)>>}
AllCovers == UNION {Covers(b[1], b[2]) : b \in Ctrl \X Tiles}

\* What the operations S that are left of a job do with a cover: they record
\* its host event, they share the local kernel_event with its device slot, they
\* push the job whose event that slot has or gets.
Recording(S, x) == <<"record", x[1], x[3]>> \in S
Sharing(S, x)   == <<"share", x[2], KernelEvent>> \in S
Pushing(S, x) ==
  \E p \in S : /\ p[1] = "push" /\ p[2] = x[3]
               /\ p[4] = x[2] \/ (p[4] = KernelEvent /\ Sharing(S, x))
Promised(S, x) == Pushing(S, x) /\ Recording(S, x)

Elems(l) == {l[i] : i \in DOMAIN l}
Left == Elems(todo)
IsJob(task) == task.kind # "wait"

\* The event of a cover when the operations left are done.
Ev(x) == IF Sharing(Left, x) THEN slot[KernelEvent] ELSE slot[x[2]]

\* Host event h, recorded on q, is done only when m tasks of q are.
Within(h, q, m) == \/ <<"record", h, q>> \in Left
                   \/ recorded[h][1] = q /\ m <= recorded[h][2]

\* The i-th task of the stream is a job both events of the cover wait for.
Stands(x, i) ==
  LET q == x[3]
  IN /\ IsJob(queue[q][i]) /\ queue[q][i].id = Ev(x)
     /\ Within(x[1], q, last_finished[q] + i)

\* The cover waits for the n-th job of its stream, which is still queued, or
\* for the i-th of those launched.
Behind(x, n) == \E i \in DOMAIN queue[x[3]] : n <= last_finished[x[3]] + i /\ Stands(x, i)
Ahead(x, i)  == \E j \in DOMAIN running[x[3]] : i <= j /\ running[x[3]][j].id = Ev(x)
Covered(x, n) == Promised(Left, x) \/ Behind(x, n)

JobsCovered ==
  \A q \in DriverQueue :
    /\ \A i \in DOMAIN queue[q] : IsJob(queue[q][i]) =>
         \E x \in Covers(q[1], queue[q][i].tile) :
           x[3] = q /\ Covered(x, last_finished[q] + i)
    /\ \A i \in DOMAIN running[q] :
         \E x \in Covers(q[1], running[q][i].tile) :
           x[3] = q /\ (Covered(x, 0) \/ Ahead(x, i))

HostCovered ==
  \A i \in DOMAIN queue[HostQueue] : IsJob(queue[HostQueue][i]) =>
    \E h \in HostSlots(queue[HostQueue][i].tile) :
      Within(h, HostQueue, last_finished[HostQueue] + i)

(* What jobs find, and what is there.                                      *)

\* A job for a tile on a ctrl, or on the host.
Alive(c, t) == IF c = Host THEN Live(t) /\ host_status[t] # "UNALLOC"
                           ELSE <<c, t>> \in records

JobsAlive ==
  /\ \A q \in Queue : \A i \in DOMAIN queue[q] : IsJob(queue[q][i]) =>
       /\ queue[q][i].kind = "hosttask" <=> q = HostQueue
       /\ Alive(q[1], queue[q][i].tile)
  /\ \A q \in DriverQueue : \A i \in DOMAIN running[q] :
       /\ running[q][i].kind \notin {"wait", "hosttask"}
       /\ Alive(q[1], running[q][i].tile)

\* Records have their buffers, and those of a selection are those of the tile
\* it is made from.
MemInv ==
  /\ \A c \in Ctrl, t \in Domains : <<c, t>> \in records => <<c, t>> \in memory
  /\ \A t \in Domains : Live(t) /\ host_status[t] # "UNALLOC" => <<Host, t>> \in memory
  /\ \A s \in Selections :
       Live(s) => Live(Selected[s]) /\ host_status[Selected[s]] # "UNALLOC"
  /\ \A c \in Ctrl, s \in Selections : <<c, s>> \in records => <<c, Selected[s]>> \in records
  /\ \A c \in Ctrl, t \in Domains : ~Attached(c, t) /\ Allocated(<<c, t>>) => <<c, t>> \in memory

(* What is left of a call.                                                 *)

NoJobs(c, t) ==
  \A q \in DriverQueue : q[1] = c =>
    /\ \A i \in DOMAIN queue[q] : IsJob(queue[q][i]) => queue[q][i].tile # t
    /\ \A i \in DOMAIN running[q] : running[q][i].tile # t
NoHostJobs(t) ==
  \A i \in DOMAIN queue[HostQueue] : IsJob(queue[HostQueue][i]) => queue[HostQueue][i].tile # t
HostDone(c, t) ==
  \A h \in HostSlots(t) \cup {<<c, t, k>> : k \in CpuKind} : HostEventDone(recorded[h])
Unselected(t) == \A s \in Selections : Selected[s] = t => ~Live(s)

\* Operation o of a job for t on c comes before those of S: an event of a cover
\* is replaced only on the way to a job that the cover is going to wait for.
Ok(c, t, o, S) ==
  /\ o[1] \in {"record", "share"} => \A p \in S : p[1] # "push"
  /\ o[1] = "record" =>
       /\ \A x \in AllCovers : o[2] = x[1] => o[3] = x[3]
       /\ \A s \in Tiles : o[2] \in HostSlots(s) => o[3] = HostQueue
  /\ o[1] = "share" => \A x \in AllCovers : o[2] = x[2] => o[3] = KernelEvent
  /\ o[1] \in {"release", "create"} =>
       \A x \in AllCovers : o[2] = {x[2]} => Sharing(S, x) \/ Promised(S, x)
  /\ o[1] = "create" => \E d \in Slot \ CpuSlot : o[2] = {d}
  /\ o = <<"release", {KernelEvent}>> => \A x \in AllCovers : ~Sharing(S, x)
  /\ o = <<"create", {KernelEvent}>> => \A x \in AllCovers : Sharing(S, x) => Promised(S, x)
  /\ o[1] = "push" =>
       /\ o[2][1] = c /\ o[5] = t
       /\ IF c = Host
          THEN /\ o[2] = HostQueue /\ o[3] = "hosttask"
               /\ \E h \in HostSlots(t) : <<"record", h, HostQueue>> \in S
          ELSE /\ o[3] # "hosttask"
               /\ \E x \in Covers(c, t) :
                    /\ x[3] = o[2] /\ Recording(S, x)
                    /\ o[4] = x[2] \/ (o[4] = KernelEvent /\ Sharing(S, x))
               /\ \A x \in AllCovers : o[4] = x[2] => ~Sharing(S, x)

\* The operations l of a job are in order when those of R come after them.
Later(l, i) == {l[j] : j \in i + 1 .. Len(l)}
Before(c, t, l, R) ==
  /\ l \in Seq(JobOps)
  /\ \A i \in 1 .. Len(l) : Ok(c, t, l[i], Later(l, i) \cup R)

JobLeft == \E c \in Ctrl \cup {Host}, t \in Tiles : Before(c, t, todo, {}) /\ Alive(c, t)

\* A free waits until no job is left, the launched ones included.
RoundLeft(c, t, rest) ==
  \/ todo = <<HostWait(c, t), DevWait(c, t), TileRelease(c, t), <<"detach", c, t>> >> \o rest
  \/ /\ todo = <<DevWait(c, t), TileRelease(c, t), <<"detach", c, t>> >> \o rest
     /\ HostDone(c, t)
  \/ /\ todo = <<TileRelease(c, t), <<"detach", c, t>> >> \o rest
     /\ NoJobs(c, t) /\ NoHostJobs(t)
  \/ /\ todo = << <<"detach", c, t>> >> \o rest
     /\ NoJobs(c, t) /\ NoHostJobs(t)
HostLeft(t, rest) ==
  /\ NoHostJobs(t)
  /\ \/ todo = << <<"release", HostSlots(t)>>, <<"freehost", t>> >> \o rest
     \/ todo = << <<"freehost", t>> >> \o rest
FreeLeft ==
  \E t \in Tiles, n \in 0 .. NCtrls :
    /\ Unselected(t)
    /\ \/ todo = Loop("freeif", n, t)
       \/ \E c \in Ctrl : RoundLeft(c, t, Loop("freeif", n, t))
       \/ HostLeft(t, Loop("freeif", n, t))

\* A record is made for a tile that has its buffer, and no job knows it yet.
Backed(c, t) == IF t \in Domains THEN <<c, t>> \in memory ELSE <<c, Selected[t]>> \in records
InitLeft(c, t, rest) ==
  \/ /\ todo = << <<"attach", c, t>>, <<"create", ImplSlots(c, t)>> >> \o rest
     /\ Backed(c, t)
  \/ /\ todo = << <<"create", ImplSlots(c, t)>> >> \o rest
     /\ NoJobs(c, t)
AllocLeft == \E c \in Ctrl, t \in Domains : InitLeft(c, t, <<>>)

SelectLeft ==
  \E s \in Selections, n \in 0 .. NCtrls :
    /\ Live(Selected[s]) /\ host_status[Selected[s]] # "UNALLOC"
    /\ \A c \in Ctrl : Attached(c, Selected[s]) => <<c, Selected[s]>> \in records
    /\ \/ /\ todo = << <<"domain", s>>, <<"create", HostSlots(s)>> >> \o Loop("selectif", n, s)
          /\ ~Live(s)
       \/ /\ todo = << <<"create", HostSlots(s)>> >> \o Loop("selectif", n, s)
          /\ NoHostJobs(s)
       \/ todo = Loop("selectif", n, s)
       \/ \E c \in Ctrl :
            \/ InitLeft(c, s, << <<"peek", c, Selected[s]>> >> \o Loop("selectif", n, s))
            \/ todo = << <<"peek", c, Selected[s]>> >> \o Loop("selectif", n, s)

OtherLeft == todo = <<>> \/ FreeLeft \/ AllocLeft \/ SelectLeft
CallLeft == JobLeft \/ OtherLeft

MemoryInv == JobsCovered /\ HostCovered /\ JobsAlive /\ MemInv /\ CallLeft
-----------------------------------------------------------------------------
(* Covers.                                                                 *)

\* The slots and the stream of a cover.
LEMMA CoverFacts ==
  ASSUME NEW c \in Ctrl, NEW t \in Tiles, NEW x \in Covers(c, t)
  PROVE  /\ x \in AllCovers
         /\ x[1] \in {<<c, t, k>> : k \in CpuKind} /\ x[2] \in {<<c, t, k>> : k \in DevKind}
         /\ x[1] \in ImplSlots(c, t) /\ x[2] \in ImplSlots(c, t)
         /\ x[1] \in CpuSlot /\ x[2] \in Slot /\ x[2] \notin CpuSlot /\ x[2] # KernelEvent
         /\ x[3] \in DriverQueue /\ x[3] # HostQueue /\ x[3][1] = c
<1>1. \E h \in CpuKind, d \in DevKind :
        x[1] = <<c, t, h>> /\ x[2] = <<c, t, d>> /\ x[3] \in {Htd(c), Dth(c), Kernel(c)}
  BY KindNames, SMT DEF Covers
<1>2. PICK h \in CpuKind, d \in DevKind :
        x[1] = <<c, t, h>> /\ x[2] = <<c, t, d>> /\ x[3] \in {Htd(c), Dth(c), Kernel(c)}
  BY <1>1
<1>3. x[1] \in ImplSlots(c, t) /\ x[2] \in ImplSlots(c, t) /\ x[1] \in CpuSlot
  BY <1>2, SlotKinds
<1>4. x[2] \in Slot /\ x[2] # KernelEvent
  BY <1>3, SlotKinds
<1>5. x[2] \notin CpuSlot
  <2>1. IsDev(x[2])
    BY <1>2 DEF IsDev
  <2>. QED
    BY <2>1 DEF CpuSlot
<1>6. x[3] \in DriverQueue /\ x[3] # HostQueue
  BY <1>2, QueuesAre DEF DriverQueue
<1>7. x[3][1] = c
  BY <1>2, SMT DEF Htd, Dth, Kernel
<1>8. x \in AllCovers
  <2>1. <<c, t>> \in Ctrl \X Tiles /\ <<c, t>>[1] = c /\ <<c, t>>[2] = t
    OBVIOUS
  <2>. QED
    BY <2>1 DEF AllCovers
<1>. QED
  BY <1>2, <1>3, <1>4, <1>5, <1>6, <1>7, <1>8

\* Every cover is one of a tile on a ctrl.
LEMMA CoverOf ==
  ASSUME NEW x \in AllCovers
  PROVE  \E c \in Ctrl, t \in Tiles : x \in Covers(c, t)
<1>1. PICK b \in Ctrl \X Tiles : x \in Covers(b[1], b[2])
  BY DEF AllCovers
<1>2. b[1] \in Ctrl /\ b[2] \in Tiles
  OBVIOUS
<1>. QED
  BY <1>1, <1>2

\* The four covers of a tile on a ctrl.
LEMMA FourCovers ==
  ASSUME NEW c \in Ctrl, NEW t \in Tiles, NEW x \in Covers(c, t)
  PROVE  \/ x[1][3] = "host_last_htd" /\ x[2][3] = "dev_last_htd" /\ x[3] = Htd(c)
         \/ x[1][3] = "host_last_dth" /\ x[2][3] = "dev_last_dth" /\ x[3] = Dth(c)
         \/ /\ x[1][3] = "host_last_kernel_read" /\ x[2][3] = "dev_last_kernel_read"
            /\ x[3] = Kernel(c)
         \/ /\ x[1][3] = "host_last_kernel_write" /\ x[2][3] = "dev_last_kernel_write"
            /\ x[3] = Kernel(c)
  BY SMT DEF Covers

\* A slot is in one cover, so the stream it is recorded on is always the same.
LEMMA CoversApart ==
  ASSUME NEW x \in AllCovers, NEW y \in AllCovers
  PROVE  /\ x[1] = y[1] => x[3] = y[3] /\ x[2] = y[2]
         /\ x[2] = y[2] => x[3] = y[3] /\ x[1] = y[1]
<1>1. PICK c \in Ctrl, t \in Tiles : x \in Covers(c, t)
  BY CoverOf
<1>2. PICK d \in Ctrl, s \in Tiles : y \in Covers(d, s)
  BY CoverOf
<1>3. /\ x[1] = <<c, t, x[1][3]>> /\ x[2] = <<c, t, x[2][3]>>
      /\ y[1] = <<d, s, y[1][3]>> /\ y[2] = <<d, s, y[2][3]>>
  <2>1. x[1] \in {<<c, t, k>> : k \in CpuKind} /\ x[2] \in {<<c, t, k>> : k \in DevKind}
    BY <1>1, CoverFacts
  <2>2. y[1] \in {<<d, s, k>> : k \in CpuKind} /\ y[2] \in {<<d, s, k>> : k \in DevKind}
    BY <1>2, CoverFacts
  <2>. QED
    BY <2>1, <2>2
<1>4. ASSUME c = d, t = s, x[1][3] = y[1][3] \/ x[2][3] = y[2][3]
      PROVE  x[3] = y[3] /\ x[1][3] = y[1][3] /\ x[2][3] = y[2][3]
  <2>1. \/ x[1][3] = "host_last_htd" /\ x[2][3] = "dev_last_htd" /\ x[3] = Htd(c)
        \/ x[1][3] = "host_last_dth" /\ x[2][3] = "dev_last_dth" /\ x[3] = Dth(c)
        \/ /\ x[1][3] = "host_last_kernel_read" /\ x[2][3] = "dev_last_kernel_read"
           /\ x[3] = Kernel(c)
        \/ /\ x[1][3] = "host_last_kernel_write" /\ x[2][3] = "dev_last_kernel_write"
           /\ x[3] = Kernel(c)
    BY <1>1, FourCovers
  <2>2. \/ y[1][3] = "host_last_htd" /\ y[2][3] = "dev_last_htd" /\ y[3] = Htd(c)
        \/ y[1][3] = "host_last_dth" /\ y[2][3] = "dev_last_dth" /\ y[3] = Dth(c)
        \/ /\ y[1][3] = "host_last_kernel_read" /\ y[2][3] = "dev_last_kernel_read"
           /\ y[3] = Kernel(c)
        \/ /\ y[1][3] = "host_last_kernel_write" /\ y[2][3] = "dev_last_kernel_write"
           /\ y[3] = Kernel(c)
    BY <1>2, <1>4, FourCovers
  <2>. QED
    BY ONLY <1>4, <2>1, <2>2, SMT
<1>5. x[1] = y[1] \/ x[2] = y[2] => c = d /\ t = s
  BY <1>3, SMT
<1>. QED
  BY <1>3, <1>4, <1>5

\* A slot of a tile on a ctrl is in none of another's covers.
LEMMA OtherCovers ==
  ASSUME NEW c \in Ctrl, NEW t \in Tiles, NEW x \in Covers(c, t)
  PROVE  /\ \A d \in Ctrl, s \in Tiles :
              x[1] \in ImplSlots(d, s) \/ x[2] \in ImplSlots(d, s) => d = c /\ s = t
         /\ \A s \in Tiles : x[1] \notin HostSlots(s) /\ x[2] \notin HostSlots(s)
         /\ \A d \in Ctrl : /\ x[1] # HostSeq(d) /\ x[2] # DevSeq(d)
<1>1. x[1] \in ImplSlots(c, t) /\ x[2] \in ImplSlots(c, t)
  BY CoverFacts
<1>2. RecordOf(x[1]) = {<<c, t>>} /\ RecordOf(x[2]) = {<<c, t>>}
  BY <1>1, SlotRecords
<1>3. ASSUME NEW d \in Ctrl, NEW s \in Tiles, x[1] \in ImplSlots(d, s) \/ x[2] \in ImplSlots(d, s)
      PROVE  d = c /\ s = t
  <2>1. {<<c, t>>} = {<<d, s>>}
    BY <1>2, <1>3, SlotRecords
  <2>2. <<c, t>> = <<d, s>>
    BY <2>1
  <2>. QED
    BY <2>2
<1>4. ASSUME NEW s \in Tiles, x[1] \in HostSlots(s) \/ x[2] \in HostSlots(s)
      PROVE  FALSE
  <2>1. {<<c, t>>} = {<<Host, s>>}
    BY <1>2, <1>4, SlotRecords
  <2>2. <<c, t>> = <<Host, s>>
    BY <2>1
  <2>. QED
    BY <2>2, Names
<1>5. \A d \in Ctrl : RecordOf(HostSeq(d)) = {} /\ RecordOf(DevSeq(d)) = {}
  BY SlotRecords
<1>. QED
  BY <1>2, <1>3, <1>4, <1>5
-----------------------------------------------------------------------------
(* Operations in order.                                                    *)

\* The operations of a list are its head and those of its tail.
LEMMA ElemsTailed ==
  ASSUME NEW E, NEW l \in Seq(E), l # <<>>
  PROVE  /\ Elems(l) = {Head(l)} \cup Elems(Tail(l))
         /\ Elems(Tail(l)) = Later(l, 1)
         /\ \A i \in 1 .. Len(Tail(l)) : /\ i + 1 \in 1 .. Len(l) /\ Tail(l)[i] = l[i + 1]
                                         /\ Later(Tail(l), i) = Later(l, i + 1)
<1>. DEFINE r == Tail(l)
<1>1. /\ r \in Seq(E) /\ Len(l) \in Nat \ {0} /\ DOMAIN l = 1 .. Len(l) /\ Head(l) = l[1]
      /\ DOMAIN r = 1 .. Len(l) - 1
      /\ \A i \in 1 .. Len(l) - 1 : r[i] = l[i + 1]
  BY Tailed
<1>2. Len(r) = Len(l) - 1
  BY HeadTailProperties
<1>. HIDE DEF r
<1>3. \A i \in 2 .. Len(l) : i - 1 \in 1 .. Len(l) - 1 /\ i - 1 + 1 = i
  BY <1>1, SMT
<1>4. \A i \in 1 .. Len(l) - 1 : i + 1 \in 2 .. Len(l) /\ i + 1 \in 1 .. Len(l) /\ i \in Nat
  BY <1>1, SMT
<1>5. Elems(r) = {l[j] : j \in 2 .. Len(l)}
  <2>1. \A i \in DOMAIN r : r[i] = l[i + 1] /\ i + 1 \in 2 .. Len(l)
    BY <1>1, <1>4
  <2>2. \A j \in 2 .. Len(l) : j - 1 \in DOMAIN r /\ r[j - 1] = l[j]
    BY <1>1, <1>3
  <2>. QED
    BY <2>1, <2>2 DEF Elems
<1>6. 1 + 1 = 2
  BY SMT
<1>7. Elems(r) = Later(l, 1)
  BY <1>5, <1>6 DEF Later
<1>8. 1 \in 1 .. Len(l) /\ \A i \in 1 .. Len(l) : i = 1 \/ i \in 2 .. Len(l)
  BY <1>1, SMT
<1>9. \A i \in 2 .. Len(l) : i \in 1 .. Len(l)
  BY <1>1, SMT
<1>10. Elems(l) = {Head(l)} \cup Elems(r)
  BY <1>1, <1>5, <1>8, <1>9 DEF Elems
<1>11. ASSUME NEW i \in 1 .. Len(r) PROVE Later(r, i) = Later(l, i + 1)
  <2>1. \A j \in i + 1 .. Len(r) : j \in 1 .. Len(l) - 1 /\ j + 1 \in i + 1 + 1 .. Len(l)
    BY <1>1, <1>2, SMT
  <2>2. \A j \in i + 1 + 1 .. Len(l) :
          j - 1 \in i + 1 .. Len(r) /\ j - 1 \in 1 .. Len(l) - 1 /\ j - 1 + 1 = j
    BY <1>1, <1>2, SMT
  <2>3. \A j \in i + 1 .. Len(r) : r[j] = l[j + 1]
    BY <1>1, <2>1
  <2>4. \A j \in i + 1 + 1 .. Len(l) : r[j - 1] = l[j]
    BY <1>1, <2>2
  <2>5. ASSUME NEW o \in Later(r, i) PROVE o \in Later(l, i + 1)
    <3>1. PICK j \in i + 1 .. Len(r) : o = r[j]
      BY DEF Later
    <3>2. o = l[j + 1] /\ j + 1 \in i + 1 + 1 .. Len(l)
      BY <2>1, <2>3, <3>1
    <3>. QED
      BY <3>2 DEF Later
  <2>6. ASSUME NEW o \in Later(l, i + 1) PROVE o \in Later(r, i)
    <3>1. PICK j \in i + 1 + 1 .. Len(l) : o = l[j]
      BY DEF Later
    <3>2. o = r[j - 1] /\ j - 1 \in i + 1 .. Len(r)
      BY <2>2, <2>4, <3>1
    <3>. QED
      BY <3>2 DEF Later
  <2>. QED
    BY <2>5, <2>6
<1>. QED
  BY <1>1, <1>2, <1>4, <1>7, <1>10, <1>11 DEF r

\* What is left is in order when the first operation is done.
LEMMA BeforeTailed ==
  ASSUME NEW c, NEW t, NEW l, Before(c, t, l, {}), l # <<>>
  PROVE  /\ Before(c, t, Tail(l), {})
         /\ Head(l) \in JobOps /\ Ok(c, t, Head(l), Elems(Tail(l)))
         /\ Elems(l) = {Head(l)} \cup Elems(Tail(l))
<1>0. l \in Seq(JobOps)
  BY DEF Before
<1>1. /\ Tail(l) \in Seq(JobOps) /\ Len(l) \in Nat \ {0} /\ Head(l) = l[1] /\ l[1] \in JobOps
  BY <1>0, Tailed
<1>2. 1 \in 1 .. Len(l)
  BY <1>1, SMT
<1>3. \A i \in 1 .. Len(l) : Ok(c, t, l[i], Later(l, i))
  BY DEF Before
<1>4. /\ Elems(l) = {Head(l)} \cup Elems(Tail(l))
      /\ Elems(Tail(l)) = Later(l, 1)
      /\ \A i \in 1 .. Len(Tail(l)) : /\ i + 1 \in 1 .. Len(l) /\ Tail(l)[i] = l[i + 1]
                                      /\ Later(Tail(l), i) = Later(l, i + 1)
  BY <1>0, ElemsTailed
<1>5. Ok(c, t, Head(l), Elems(Tail(l)))
  BY <1>1, <1>2, <1>3, <1>4
<1>6. \A i \in 1 .. Len(Tail(l)) : Ok(c, t, Tail(l)[i], Later(Tail(l), i) \cup {})
  BY <1>3, <1>4
<1>. QED
  BY <1>1, <1>4, <1>5, <1>6 DEF Before

\* Two lists one after the other.
LEMMA BeforeJoined ==
  ASSUME NEW c, NEW t, NEW R, NEW v, NEW w, Before(c, t, v, Elems(w) \cup R),
         Before(c, t, w, R)
  PROVE  Before(c, t, Cat(v, w), R) /\ Elems(Cat(v, w)) = Elems(v) \cup Elems(w)
<1>0. v \in Seq(JobOps) /\ w \in Seq(JobOps)
  BY DEF Before
<1>. DEFINE l == Cat(v, w)
            m == Len(v)
            n == Len(w)
<1>1. /\ l \in Seq(JobOps) /\ m \in Nat /\ n \in Nat
      /\ DOMAIN v = 1 .. m /\ DOMAIN w = 1 .. n /\ DOMAIN l = 1 .. m + n
      /\ \A i \in 1 .. m : l[i] = v[i]
      /\ \A i \in 1 .. n : l[m + i] = w[i]
  BY <1>0, Concatenated DEF Cat
<1>. HIDE DEF l, m, n
<1>2. Len(l) = m + n
  BY <1>1, LenProperties, SMT
<1>3. /\ \A i \in 1 .. m + n : i \in 1 .. m \/ (i - m \in 1 .. n /\ m + (i - m) = i)
      /\ \A i \in 1 .. m : i \in 1 .. m + n
      /\ \A i \in 1 .. n : m + i \in 1 .. m + n
  BY <1>1, SMT
<1>4. Elems(l) = Elems(v) \cup Elems(w)
  <2>1. ASSUME NEW o \in Elems(l) PROVE o \in Elems(v) \cup Elems(w)
    <3>1. PICK i \in 1 .. m + n : o = l[i]
      BY <1>1 DEF Elems
    <3>2. CASE i \in 1 .. m
      BY <1>1, <3>1, <3>2 DEF Elems
    <3>3. CASE i - m \in 1 .. n /\ m + (i - m) = i
      <4>1. l[m + (i - m)] = w[i - m]
        BY <1>1, <3>3
      <4>. QED
        BY <1>1, <3>1, <3>3, <4>1 DEF Elems
    <3>. QED
      BY <1>3, <3>2, <3>3
  <2>2. Elems(v) \subseteq Elems(l) /\ Elems(w) \subseteq Elems(l)
    BY <1>1, <1>3 DEF Elems
  <2>. QED
    BY <2>1, <2>2
<1>5. ASSUME NEW i \in 1 .. m PROVE Ok(c, t, l[i], Later(l, i) \cup R)
  <2>1. Later(l, i) = Later(v, i) \cup Elems(w)
    <3>1. \A j \in i + 1 .. m : j \in 1 .. m /\ j \in i + 1 .. m + n
      BY <1>1, SMT
    <3>2. \A j \in i + 1 .. m + n : j \in i + 1 .. m \/ (j - m \in 1 .. n /\ m + (j - m) = j)
      BY <1>1, SMT
    <3>3. \A j \in 1 .. n : m + j \in i + 1 .. m + n
      BY <1>1, SMT
    <3>4. Later(l, i) = {l[j] : j \in i + 1 .. m + n} /\ Later(v, i) = {v[j] : j \in i + 1 .. m}
          /\ Elems(w) = {w[j] : j \in 1 .. n}
      BY <1>1, <1>2 DEF Later, Elems, m
    <3>5. ASSUME NEW o \in Later(l, i) PROVE o \in Later(v, i) \cup Elems(w)
      <4>1. PICK j \in i + 1 .. m + n : o = l[j]
        BY <3>4
      <4>2. CASE j \in i + 1 .. m
        BY <1>1, <3>1, <3>4, <4>1, <4>2
      <4>3. CASE j - m \in 1 .. n /\ m + (j - m) = j
        <5>1. l[m + (j - m)] = w[j - m]
          BY <1>1, <4>3
        <5>. QED
          BY <3>4, <4>1, <4>3, <5>1
      <4>. QED
        BY <3>2, <4>2, <4>3
    <3>6. ASSUME NEW j \in i + 1 .. m PROVE v[j] \in Later(l, i)
      BY <1>1, <3>1, <3>4
    <3>7. ASSUME NEW j \in 1 .. n PROVE w[j] \in Later(l, i)
      BY <1>1, <3>3, <3>4
    <3>. QED
      BY <3>4, <3>5, <3>6, <3>7
  <2>2. Ok(c, t, v[i], Later(v, i) \cup (Elems(w) \cup R))
    BY DEF Before, m
  <2>3. Later(v, i) \cup (Elems(w) \cup R) = (Later(v, i) \cup Elems(w)) \cup R
    OBVIOUS
  <2>. QED
    BY <1>1, <2>1, <2>2, <2>3
<1>6. ASSUME NEW i \in 1 .. n PROVE Ok(c, t, l[m + i], Later(l, m + i) \cup R)
  <2>1. Later(l, m + i) = Later(w, i)
    <3>1. \A j \in m + i + 1 .. m + n :
            j - m \in i + 1 .. n /\ j - m \in 1 .. n /\ m + (j - m) = j
      BY <1>1, SMT
    <3>2. \A j \in i + 1 .. n : m + j \in m + i + 1 .. m + n /\ j \in 1 .. n
      BY <1>1, SMT
    <3>3. Later(l, m + i) = {l[j] : j \in m + i + 1 .. m + n}
          /\ Later(w, i) = {w[j] : j \in i + 1 .. n}
      BY <1>2 DEF Later, n
    <3>4. \A j \in m + i + 1 .. m + n : l[j] = w[j - m]
      BY <1>1, <3>1
    <3>5. \A j \in i + 1 .. n : w[j] = l[m + j]
      BY <1>1, <3>2
    <3>. QED
      BY <3>1, <3>2, <3>3, <3>4, <3>5
  <2>2. Ok(c, t, w[i], Later(w, i) \cup R)
    BY DEF Before, n
  <2>. QED
    BY <1>1, <2>1, <2>2
<1>7. \A i \in 1 .. m + n : Ok(c, t, l[i], Later(l, i) \cup R)
  <2>. TAKE i \in 1 .. m + n
  <2>1. CASE i \in 1 .. m
    BY <1>5, <2>1
  <2>2. CASE i - m \in 1 .. n /\ m + (i - m) = i
    <3>1. Ok(c, t, l[m + (i - m)], Later(l, m + (i - m)) \cup R)
      BY <1>6, <2>2
    <3>. QED
      BY <2>2, <3>1
  <2>. QED
    BY <1>3, <2>1, <2>2
<1>8. Before(c, t, l, R)
  BY <1>1, <1>2, <1>7 DEF Before
<1>. QED
  BY <1>4, <1>8 DEF l

\* The operations of one list and those that come after it.
Both(V, R) == V \cup R

\* So with the operations of the second given.
LEMMA Joined ==
  ASSUME NEW c, NEW t, NEW R, NEW V, NEW v, NEW w, NEW l, l = Cat(v, w),
         Elems(w) = V, Before(c, t, w, R), Before(c, t, v, Both(V, R))
  PROVE  Before(c, t, l, R) /\ Elems(l) = Elems(v) \cup V
<1>1. Before(c, t, v, Elems(w) \cup R)
  BY Zenon DEF Both
<1>2. Before(c, t, Cat(v, w), R) /\ Elems(Cat(v, w)) = Elems(v) \cup Elems(w)
  BY <1>1, BeforeJoined
<1>. QED
  BY <1>2, Zenon

\* Each of five lists is in order when those after it follow.
Row(c, t, p0, p1, p2, p3, p4, R) ==
  \E R0, R1, R2, R3 :
    /\ R3 = Both(Elems(p4), R) /\ R2 = Both(Elems(p3), R3) /\ R1 = Both(Elems(p2), R2)
    /\ R0 = Both(Elems(p1), R1)
    /\ Before(c, t, p4, R) /\ Before(c, t, p3, R3) /\ Before(c, t, p2, R2)
    /\ Before(c, t, p1, R1) /\ Before(c, t, p0, R0)

\* Five lists one after the other.
LEMMA FiveJoined ==
  ASSUME NEW c, NEW t, NEW p0, NEW p1, NEW p2, NEW p3, NEW p4, NEW R, NEW l,
         Row(c, t, p0, p1, p2, p3, p4, R), l = Cat(Cat(Cat(Cat(p0, p1), p2), p3), p4)
  PROVE  /\ Before(c, t, l, R)
         /\ Elems(l) = Elems(p0) \cup Elems(p1) \cup Elems(p2) \cup Elems(p3) \cup Elems(p4)
<1>0. PICK R0, R1, R2, R3 :
        /\ R3 = Both(Elems(p4), R) /\ R2 = Both(Elems(p3), R3) /\ R1 = Both(Elems(p2), R2)
        /\ R0 = Both(Elems(p1), R1)
        /\ Before(c, t, p4, R) /\ Before(c, t, p3, R3) /\ Before(c, t, p2, R2)
        /\ Before(c, t, p1, R1) /\ Before(c, t, p0, R0)
  BY DEF Row
<1>. DEFINE l1 == Cat(p0, p1)
            l2 == Cat(l1, p2)
            l3 == Cat(l2, p3)
            l4 == Cat(l3, p4)
<1>1. l = l4
  OBVIOUS
<1>2. l1 = Cat(p0, p1) /\ l2 = Cat(l1, p2) /\ l3 = Cat(l2, p3) /\ l4 = Cat(l3, p4)
  OBVIOUS
<1>. HIDE DEF l1, l2, l3, l4
<1>3. Before(c, t, p0, Both(Elems(p1), R1))
  BY <1>0, Zenon
<1>4. Before(c, t, l1, R1) /\ Elems(l1) = Elems(p0) \cup Elems(p1)
  <2>1. Before(c, t, p1, R1)
    BY <1>0
  <2>. QED
    BY ONLY <1>2, <1>3, <2>1, Joined
<1>5. Before(c, t, l1, Both(Elems(p2), R2))
  BY <1>0, <1>4, Zenon
<1>6. Before(c, t, l2, R2) /\ Elems(l2) = Elems(l1) \cup Elems(p2)
  <2>1. Before(c, t, p2, R2)
    BY <1>0
  <2>. QED
    BY ONLY <1>2, <1>5, <2>1, Joined
<1>7. Before(c, t, l2, Both(Elems(p3), R3))
  BY <1>0, <1>6, Zenon
<1>8. Before(c, t, l3, R3) /\ Elems(l3) = Elems(l2) \cup Elems(p3)
  <2>1. Before(c, t, p3, R3)
    BY <1>0
  <2>. QED
    BY ONLY <1>2, <1>7, <2>1, Joined
<1>9. Before(c, t, l3, Both(Elems(p4), R))
  BY <1>0, <1>8, Zenon
<1>10. Before(c, t, l4, R) /\ Elems(l4) = Elems(l3) \cup Elems(p4)
  <2>1. Before(c, t, p4, R)
    BY <1>0
  <2>. QED
    BY ONLY <1>2, <1>9, <2>1, Joined
<1>. QED
  BY <1>1, <1>4, <1>6, <1>8, <1>10

\* What a list of three has.
LEMMA ElemsOfThree ==
  ASSUME NEW a, NEW b, NEW d
  PROVE  Elems(<<a, b, d>>) = {a, b, d}
<1>. DEFINE l == <<a, b, d>>
<1>1. DOMAIN l = {1, 2, 3} /\ l[1] = a /\ l[2] = b /\ l[3] = d
  BY SMT
<1>. HIDE DEF l
<1>2. Elems(l) = {a, b, d}
  BY ONLY <1>1 DEF Elems
<1>. QED
  BY <1>2 DEF l

\* A list of up to three operations.
LEMMA BeforeFew ==
  ASSUME NEW c, NEW t, NEW R, NEW a \in JobOps, NEW b \in JobOps, NEW d \in JobOps
  PROVE  /\ Before(c, t, <<>>, R) /\ Elems(<<>>) = {}
         /\ Ok(c, t, a, R) => Before(c, t, <<a>>, R)
         /\ Ok(c, t, a, {b} \cup R) /\ Ok(c, t, b, R) => Before(c, t, <<a, b>>, R)
         /\ Ok(c, t, a, {b, d} \cup R) /\ Ok(c, t, b, {d} \cup R) /\ Ok(c, t, d, R) =>
              Before(c, t, <<a, b, d>>, R)
         /\ Elems(<<a>>) = {a} /\ Elems(<<a, b>>) = {a, b} /\ Elems(<<a, b, d>>) = {a, b, d}
<1>1. /\ <<>> \in Seq(JobOps) /\ Len(<<>>) = 0 /\ 1 .. 0 = {} /\ DOMAIN <<>> = {}
  BY SMT
<1>2. /\ <<a>> \in Seq(JobOps) /\ Len(<<a>>) = 1 /\ 1 .. 1 = {1} /\ DOMAIN <<a>> = {1}
      /\ <<a>>[1] = a
  BY SMT
<1>3. /\ <<a, b>> \in Seq(JobOps) /\ Len(<<a, b>>) = 2 /\ 1 .. 2 = {1, 2}
      /\ DOMAIN <<a, b>> = {1, 2} /\ <<a, b>>[1] = a /\ <<a, b>>[2] = b
  BY SMT
<1>4. /\ <<a, b, d>> \in Seq(JobOps) /\ Len(<<a, b, d>>) = 3 /\ 1 .. 3 = {1, 2, 3}
      /\ DOMAIN <<a, b, d>> = {1, 2, 3} /\ <<a, b, d>>[1] = a /\ <<a, b, d>>[2] = b
      /\ <<a, b, d>>[3] = d
  BY SMT
<1>5. Before(c, t, <<>>, R) /\ Elems(<<>>) = {}
  BY <1>1 DEF Before, Elems
<1>6. ASSUME NEW l, Len(l) = 1, l[1] = a PROVE Later(l, 1) = {}
  BY <1>6, SMT DEF Later
<1>7. ASSUME NEW l, Len(l) = 2, l[1] = a, l[2] = b PROVE Later(l, 1) = {b} /\ Later(l, 2) = {}
  <2>1. 1 + 1 .. 2 = {2} /\ 2 + 1 .. 2 = {}
    BY SMT
  <2>. QED
    BY <1>7, <2>1 DEF Later
<1>8. ASSUME NEW l, Len(l) = 3, l[1] = a, l[2] = b, l[3] = d
      PROVE  Later(l, 1) = {b, d} /\ Later(l, 2) = {d} /\ Later(l, 3) = {}
  <2>1. 1 + 1 .. 3 = {2, 3} /\ 2 + 1 .. 3 = {3} /\ 3 + 1 .. 3 = {}
    BY SMT
  <2>. QED
    BY <1>8, <2>1 DEF Later
<1>9. Ok(c, t, a, R) => Before(c, t, <<a>>, R)
  BY <1>2, <1>6 DEF Before
<1>10. Ok(c, t, a, {b} \cup R) /\ Ok(c, t, b, R) => Before(c, t, <<a, b>>, R)
  BY <1>3, <1>7 DEF Before
<1>11. Ok(c, t, a, {b, d} \cup R) /\ Ok(c, t, b, {d} \cup R) /\ Ok(c, t, d, R) =>
         Before(c, t, <<a, b, d>>, R)
  BY <1>4, <1>8 DEF Before
<1>12. Elems(<<a>>) = {a} /\ Elems(<<a, b>>) = {a, b} /\ Elems(<<a, b, d>>) = {a, b, d}
  BY <1>2, <1>3, <1>4 DEF Elems
<1>. QED
  BY <1>5, <1>9, <1>10, <1>11, <1>12
-----------------------------------------------------------------------------
(* The jobs, when they are called.                                         *)

NoPushIn(S) == \A p \in S : p[1] # "push"
NoShareIn(S) == \A x \in AllCovers : ~Sharing(S, x)

\* What is shared when a job is called is promised to its event.
Fresh(S) == \A x \in AllCovers : Sharing(S, x) => Promised(S, x)

\* Operations that concern no cover.
LEMMA OkPlain ==
  ASSUME NEW c, NEW t, NEW S
  PROVE  \A o : o[1] \in {"streamwait", "retain", "synchronize"} => Ok(c, t, o, S)
<1>. TAKE o
<1>. HAVE o[1] \in {"streamwait", "retain", "synchronize"}
<1>1. o[1] \notin {"record", "share", "release", "create", "push"}
  BY SMT
<1>2. o # <<"release", {KernelEvent}>> /\ o # <<"create", {KernelEvent}>>
  BY <1>1
<1>. QED
  BY <1>1, <1>2 DEF Ok

\* An event is recorded.
LEMMA OkRecord ==
  ASSUME NEW c, NEW t, NEW S, NoPushIn(S), NEW h, NEW q,
         \A x \in AllCovers : h = x[1] => q = x[3],
         \A s \in Tiles : h \in HostSlots(s) => q = HostQueue
  PROVE  Ok(c, t, <<"record", h, q>>, S)
<1>. DEFINE o == <<"record", h, q>>
<1>1. o[1] = "record" /\ o[2] = h /\ o[3] = q
  OBVIOUS
<1>. HIDE DEF o
<1>2. o[1] \notin {"share", "release", "create", "push"}
  BY <1>1
<1>3. o # <<"release", {KernelEvent}>> /\ o # <<"create", {KernelEvent}>>
  BY <1>2
<1>4. Ok(c, t, o, S)
  BY <1>1, <1>2, <1>3 DEF Ok, NoPushIn
<1>. QED
  BY <1>4 DEF o

\* An event is shared.
LEMMA OkShare ==
  ASSUME NEW c, NEW t, NEW S, NoPushIn(S), NEW d, NEW s,
         s = KernelEvent \/ \A x \in AllCovers : d # x[2]
  PROVE  Ok(c, t, <<"share", d, s>>, S)
<1>. DEFINE o == <<"share", d, s>>
<1>1. o[1] = "share" /\ o[2] = d /\ o[3] = s
  OBVIOUS
<1>. HIDE DEF o
<1>2. o[1] \notin {"record", "release", "create", "push"}
  BY <1>1
<1>3. o # <<"release", {KernelEvent}>> /\ o # <<"create", {KernelEvent}>>
  BY <1>2
<1>4. Ok(c, t, o, S)
  BY <1>1, <1>2, <1>3 DEF Ok, NoPushIn
<1>. QED
  BY <1>4 DEF o

\* A slot is emptied.
LEMMA OkRelease ==
  ASSUME NEW c, NEW t, NEW S, NEW s,
         \A x \in AllCovers : s = x[2] => Sharing(S, x) \/ Promised(S, x),
         s = KernelEvent => NoShareIn(S)
  PROVE  Ok(c, t, <<"release", {s}>>, S)
<1>. DEFINE o == <<"release", {s}>>
<1>1. o[1] = "release" /\ o[2] = {s}
  OBVIOUS
<1>2. o = <<"release", {KernelEvent}>> => s = KernelEvent
  <2>1. o = <<"release", {KernelEvent}>> => {s} = {KernelEvent}
    BY Zenon
  <2>. QED
    BY <2>1
<1>. HIDE DEF o
<1>3. \A x : {s} = {x} => s = x
  OBVIOUS
<1>4. o[1] \notin {"record", "share", "create", "push"}
  BY <1>1
<1>5. o # <<"create", {KernelEvent}>>
  BY <1>4
<1>6. \A x \in AllCovers : o[2] = {x[2]} => Sharing(S, x) \/ Promised(S, x)
  BY <1>1, <1>3
<1>7. o = <<"release", {KernelEvent}>> => \A x \in AllCovers : ~Sharing(S, x)
  BY <1>2 DEF NoShareIn
<1>8. Ok(c, t, o, S)
  BY ONLY <1>4, <1>5, <1>6, <1>7 DEF Ok
<1>. QED
  BY <1>8 DEF o

\* A slot is filled with a new event.
LEMMA OkCreate ==
  ASSUME NEW c, NEW t, NEW S, NEW s \in Slot \ CpuSlot,
         \A x \in AllCovers : s = x[2] => Promised(S, x),
         s = KernelEvent => Fresh(S)
  PROVE  Ok(c, t, <<"create", {s}>>, S)
<1>. DEFINE o == <<"create", {s}>>
<1>1. o[1] = "create" /\ o[2] = {s}
  OBVIOUS
<1>2. o = <<"create", {KernelEvent}>> => s = KernelEvent
  <2>1. o = <<"create", {KernelEvent}>> => {s} = {KernelEvent}
    BY Zenon
  <2>. QED
    BY <2>1
<1>. HIDE DEF o
<1>3. \A x : {s} = {x} => s = x
  OBVIOUS
<1>4. o[1] \notin {"record", "share", "release", "push"}
  BY <1>1
<1>5. o # <<"release", {KernelEvent}>>
  BY <1>4
<1>6. \A x \in AllCovers : o[2] = {x[2]} => Sharing(S, x) \/ Promised(S, x)
  BY <1>1, <1>3
<1>7. o = <<"create", {KernelEvent}>> =>
        \A x \in AllCovers : Sharing(S, x) => Promised(S, x)
  BY <1>2 DEF Fresh
<1>8. \E d \in Slot \ CpuSlot : o[2] = {d}
  BY <1>1
<1>9. Ok(c, t, o, S)
  BY ONLY <1>4, <1>5, <1>6, <1>7, <1>8 DEF Ok
<1>. QED
  BY <1>9 DEF o

\* A job is pushed.
LEMMA OkPush ==
  ASSUME NEW c, NEW t, NEW S, NEW q, NEW kind, NEW s, q[1] = c,
         IF c = Host
         THEN /\ q = HostQueue /\ kind = "hosttask"
              /\ \E h \in HostSlots(t) : <<"record", h, HostQueue>> \in S
         ELSE /\ kind # "hosttask"
              /\ \E x \in Covers(c, t) :
                   /\ x[3] = q /\ Recording(S, x)
                   /\ s = x[2] \/ (s = KernelEvent /\ Sharing(S, x))
              /\ \A x \in AllCovers : s = x[2] => ~Sharing(S, x)
  PROVE  Ok(c, t, <<"push", q, kind, s, t>>, S)
<1>. DEFINE o == <<"push", q, kind, s, t>>
<1>1. o[1] = "push" /\ o[2] = q /\ o[3] = kind /\ o[4] = s /\ o[5] = t
  OBVIOUS
<1>. HIDE DEF o
<1>2. o[1] \notin {"record", "share", "release", "create"}
  BY <1>1
<1>3. o # <<"release", {KernelEvent}>> /\ o # <<"create", {KernelEvent}>>
  BY <1>2
<1>4. Ok(c, t, o, S)
  BY <1>1, <1>2, <1>3 DEF Ok
<1>. QED
  BY <1>4 DEF o

\* Waits may come first.
LEMMA WaitsOrdered ==
  ASSUME NEW c, NEW t, NEW R, NEW l \in Seq(LiveWaits)
  PROVE  Before(c, t, l, R) /\ \A o \in Elems(l) : o[1] = "streamwait"
<1>1. Len(l) \in Nat /\ DOMAIN l = 1 .. Len(l) /\ \A i \in 1 .. Len(l) : l[i] \in LiveWaits
  BY SMT
<1>2. \A o \in LiveWaits : o[1] = "streamwait"
  BY DEF LiveWaits
<1>3. l \in Seq(JobOps)
  BY WaitsPlain DEF Plain, Part, JobList
<1>4. \A i \in 1 .. Len(l) : Ok(c, t, l[i], Later(l, i) \cup R)
  BY <1>1, <1>2, OkPlain
<1>5. Before(c, t, l, R)
  BY <1>3, <1>4 DEF Before
<1>6. \A o \in Elems(l) : o[1] = "streamwait"
  BY <1>1, <1>2 DEF Elems
<1>. QED
  BY <1>5, <1>6

\* What a job leaves behind under the SYNC policy concerns no cover.
LEMMA RecordSeqOrdered ==
  ASSUME NEW c, NEW t, NEW R, NoPushIn(R), NEW d \in Ctrl, NEW q \in Queue, NEW s \in Slot
  PROVE  /\ Before(c, t, RecordSeq(d, q, s), R)
         /\ NoPushIn(Elems(RecordSeq(d, q, s))) /\ NoShareIn(Elems(RecordSeq(d, q, s)))
         /\ \A h : (h \in AllCovers => <<"record", h[1], h[3]>> \notin Elems(RecordSeq(d, q, s)))
<1>. DEFINE a == <<"record", HostSeq(d), q>>
            b == <<"release", {DevSeq(d)}>>
            e == <<"share", DevSeq(d), s>>
<1>0. /\ HostSeq(d) \in CpuSlot /\ DevSeq(d) \in Slot /\ DevSeq(d) # KernelEvent
  BY SlotKinds
<1>1. a \in JobOps /\ b \in JobOps /\ e \in JobOps
  BY <1>0, JobOpsAre
<1>2. \A x \in AllCovers : HostSeq(d) # x[1] /\ DevSeq(d) # x[2]
  BY CoverOf, OtherCovers
<1>3. \A z \in Tiles : HostSeq(d) \notin HostSlots(z)
  <2>1. RecordOf(HostSeq(d)) = {}
    BY ONLY SlotRecords, d \in Ctrl
  <2>2. \A z \in Tiles : \A h \in HostSlots(z) : RecordOf(h) = {<<Host, z>>}
    BY ONLY SlotRecords, Zenon
  <2>3. \A z \in Tiles : {<<Host, z>>} # {}
    OBVIOUS
  <2>. QED
    BY ONLY <2>1, <2>2, <2>3, Zenon
<1>4. NoPushIn({b, e} \cup R) /\ NoPushIn({e} \cup R)
  BY DEF NoPushIn
<1>5. Ok(c, t, a, {b, e} \cup R)
  BY <1>2, <1>3, <1>4, OkRecord
<1>6. Ok(c, t, b, {e} \cup R)
  BY <1>0, <1>2, OkRelease
<1>7. Ok(c, t, e, R)
  BY <1>2, OkShare
<1>8. a[1] = "record" /\ b[1] = "release" /\ e[1] = "share" /\ e[2] = DevSeq(d) /\ a[2] = HostSeq(d)
  OBVIOUS
<1>9. RecordSeq(d, q, s) \in {<<a, b, e>>, <<>>}
  BY DEF RecordSeq
<1>. HIDE DEF a, b, e
<1>10. Before(c, t, <<a, b, e>>, R) /\ Elems(<<a, b, e>>) = {a, b, e}
       /\ Before(c, t, <<>>, R) /\ Elems(<<>>) = {}
  <2>1. Before(c, t, <<a, b, e>>, R)
    BY ONLY <1>1, <1>5, <1>6, <1>7, BeforeFew
  <2>2. Elems(<<a, b, e>>) = {a, b, e}
    BY ONLY ElemsOfThree
  <2>3. Before(c, t, <<>>, R) /\ Elems(<<>>) = {}
    BY ONLY <1>1, BeforeFew
  <2>. QED
    BY ONLY <2>1, <2>2, <2>3
<1>11. NoPushIn({a, b, e}) /\ NoShareIn({a, b, e})
       /\ \A h \in AllCovers : <<"record", h[1], h[3]>> \notin {a, b, e}
  <2>1. \A x \in AllCovers : <<"share", x[2], KernelEvent>> \notin {a, b, e}
    <3>1. \A d2 : <<"share", d2, KernelEvent>>[1] = "share" /\ <<"share", d2, KernelEvent>>[2] = d2
      OBVIOUS
    <3>. QED
      BY <1>2, <1>8, <3>1
  <2>2. \A h \in AllCovers : <<"record", h[1], h[3]>> \notin {a, b, e}
    <3>1. \A d2, q2 : <<"record", d2, q2>>[1] = "record" /\ <<"record", d2, q2>>[2] = d2
      OBVIOUS
    <3>. QED
      BY <1>2, <1>8, <3>1
  <2>. QED
    BY <1>8, <2>1, <2>2 DEF NoPushIn, NoShareIn, Sharing
<1>12. NoPushIn({}) /\ NoShareIn({})
  BY DEF NoPushIn, NoShareIn, Sharing
<1>. QED
  BY <1>9, <1>10, <1>11, <1>12

\* A set of operations that pushes the job of a cover and records its event.
LEMMA PromisedBy ==
  ASSUME NEW S, NEW x \in AllCovers, NEW p \in S, p[1] = "push", p[2] = x[3],
         p[4] = x[2] \/ (p[4] = KernelEvent /\ Sharing(S, x)), Recording(S, x)
  PROVE  Promised(S, x)
  BY DEF Promised, Pushing

\* A transfer replaces its device event on the way to the job it pushes.
LEMMA TransferOrdered ==
  ASSUME NEW c \in Ctrl, NEW t \in Tiles, NEW x \in Covers(c, t),
         NEW kind \in Kinds \ {"hosttask"}, NEW w \in Seq(LiveWaits), NEW q \in Queue,
         NEW s \in Slot
  PROVE  LET l == w \o << <<"release", {x[2]}>>, <<"create", {x[2]}>> >>
                    \o PushJob(x[3], kind, x[2], t) \o << <<"record", x[1], x[3]>> >>
                    \o RecordSeq(c, q, s)
         IN Before(c, t, l, {}) /\ Fresh(Elems(l))
<1>. DEFINE o1 == <<"release", {x[2]}>>
            o2 == <<"create", {x[2]}>>
            o3 == <<"retain", x[2]>>
            o4 == <<"push", x[3], kind, x[2], t>>
            o5 == <<"record", x[1], x[3]>>
            p1 == <<o1, o2>>
            p2 == <<o3, o4>>
            p3 == <<o5>>
            p4 == RecordSeq(c, q, s)
            Q == Elems(p4)
<1>0. /\ x \in AllCovers /\ x[1] \in CpuSlot /\ x[2] \in Slot /\ x[2] \notin CpuSlot
      /\ x[2] # KernelEvent /\ x[3] \in DriverQueue /\ x[3] # HostQueue /\ x[3][1] = c
      /\ x[3] \in Queue
  <2>1. /\ x \in AllCovers /\ x[1] \in CpuSlot /\ x[2] \in Slot /\ x[2] \notin CpuSlot
        /\ x[2] # KernelEvent /\ x[3] \in DriverQueue /\ x[3] # HostQueue /\ x[3][1] = c
    BY CoverFacts
  <2>. QED
    BY <2>1, QueuesAre
<1>1. /\ o1 \in JobOps /\ o2 \in JobOps /\ o3 \in JobOps /\ o4 \in JobOps /\ o5 \in JobOps
  BY <1>0, JobOpsAre
<1>2. /\ Before(c, t, p4, {}) /\ NoPushIn(Q) /\ NoShareIn(Q)
  <2>1. NoPushIn({})
    BY DEF NoPushIn
  <2>. QED
    BY <2>1, RecordSeqOrdered
<1>3. PushJob(x[3], kind, x[2], t) = p2
  BY DEF PushJob
<1>4. c # Host
  BY Names
<1>. HIDE DEF Q, p4
<1>5. /\ Sharing({o5} \cup Q, x) = FALSE
      /\ \A y \in AllCovers : ~Sharing({o1, o2} \cup ({o3, o4} \cup ({o5} \cup Q)), y)
      /\ \A y \in AllCovers : ~Sharing({o5} \cup Q, y)
  <2>1. \A d : /\ <<"share", d, KernelEvent>> # o1 /\ <<"share", d, KernelEvent>> # o2
               /\ <<"share", d, KernelEvent>> # o3 /\ <<"share", d, KernelEvent>> # o4
               /\ <<"share", d, KernelEvent>> # o5
    <3>1. \A d : <<"share", d, KernelEvent>>[1] = "share"
      OBVIOUS
    <3>2. o1[1] # "share" /\ o2[1] # "share" /\ o3[1] # "share" /\ o4[1] # "share"
          /\ o5[1] # "share"
      OBVIOUS
    <3>. HIDE DEF o1, o2, o3, o4, o5
    <3>. QED
      BY <3>1, <3>2
  <2>. HIDE DEF o1, o2, o3, o4, o5
  <2>2. \A y \in AllCovers : <<"share", y[2], KernelEvent>> \notin Q
    BY <1>2 DEF NoShareIn, Sharing
  <2>. QED
    BY <1>0, <2>1, <2>2 DEF Sharing
<1>6. Recording({o5} \cup Q, x) /\ Recording({o3, o4} \cup ({o5} \cup Q), x)
      /\ Recording({o2} \cup ({o3, o4} \cup ({o5} \cup Q)), x)
  BY DEF Recording
<1>7. \A S : {o3, o4} \cup ({o5} \cup Q) \subseteq S /\ Recording(S, x) => Promised(S, x)
  <2>1. o4[1] = "push" /\ o4[2] = x[3] /\ o4[4] = x[2]
    OBVIOUS
  <2>. HIDE DEF o1, o2, o3, o4, o5
  <2>. QED
    BY <1>0, <2>1, PromisedBy
<1>8. \A y \in AllCovers : x[2] = y[2] => y[1] = x[1] /\ y[3] = x[3]
  BY <1>0, CoversApart
<1>9. \A S, y : y[1] = x[1] /\ y[2] = x[2] /\ y[3] = x[3] /\ Promised(S, x) => Promised(S, y)
  BY DEF Promised, Pushing, Recording, Sharing
<1>10. Ok(c, t, o1, {o2} \cup ({o3, o4} \cup ({o5} \cup Q)))
  <2>. DEFINE S == {o2} \cup ({o3, o4} \cup ({o5} \cup Q))
  <2>1. Promised(S, x)
    BY <1>6, <1>7
  <2>. HIDE DEF S
  <2>2. \A y \in AllCovers : x[2] = y[2] => Promised(S, y)
    BY <1>8, <1>9, <2>1
  <2>3. Ok(c, t, o1, S)
    BY <1>0, <2>2, OkRelease
  <2>. QED
    BY <2>3 DEF S
<1>11. Ok(c, t, o2, {o3, o4} \cup ({o5} \cup Q))
  <2>. DEFINE S == {o3, o4} \cup ({o5} \cup Q)
  <2>1. Promised(S, x)
    BY <1>6, <1>7
  <2>. HIDE DEF S
  <2>2. \A y \in AllCovers : x[2] = y[2] => Promised(S, y)
    BY <1>8, <1>9, <2>1
  <2>3. Ok(c, t, o2, S)
    BY <1>0, <2>2, OkCreate
  <2>. QED
    BY <2>3 DEF S
<1>12. Ok(c, t, o3, {o4} \cup ({o5} \cup Q))
  BY OkPlain
<1>13. Ok(c, t, o4, {o5} \cup Q)
  BY <1>0, <1>4, <1>5, <1>6, OkPush
<1>14. Ok(c, t, o5, Q)
  <2>1. \A s2 \in Tiles : x[1] \notin HostSlots(s2)
    BY OtherCovers
  <2>2. \A y \in AllCovers : x[1] = y[1] => x[3] = y[3]
    BY <1>0, CoversApart
  <2>. QED
    BY <1>2, <2>1, <2>2, OkRecord
<1>. HIDE DEF o1, o2, o3, o4, o5
<1>. DEFINE V1 == {o1, o2}
            V2 == {o3, o4}
            V3 == {o5}
            R3 == Q
            R2 == Both(V3, R3)
            R1 == Both(V2, R2)
<1>15. /\ Before(c, t, p1, R1) /\ Elems(p1) = V1
       /\ Before(c, t, p2, R2) /\ Elems(p2) = V2
       /\ Before(c, t, p3, R3) /\ Elems(p3) = V3
  BY <1>1, <1>10, <1>11, <1>12, <1>13, <1>14, BeforeFew DEF Both
<1>16. /\ Before(c, t, w, Both(V1, R1))
       /\ \A o \in Elems(w) : o[1] = "streamwait"
  BY WaitsOrdered
<1>. HIDE DEF p1, p2, p3, V1, V2, V3, R1, R2, R3
<1>. DEFINE l1 == Cat(w, p1)
            l2 == Cat(l1, p2)
            l3 == Cat(l2, p3)
            l4 == Cat(l3, p4)
<1>. HIDE DEF l1, l2, l3, l4
<1>17. Before(c, t, l1, R1) /\ Elems(l1) = Elems(w) \cup V1
  <2>1. l1 = Cat(w, p1)
    BY DEF l1
  <2>. QED
    BY ONLY <1>15, <1>16, <2>1, Joined
<1>18. Before(c, t, l2, R2) /\ Elems(l2) = Elems(l1) \cup V2
  <2>1. Before(c, t, l1, Both(V2, R2))
    BY <1>17 DEF R1
  <2>2. l2 = Cat(l1, p2)
    BY DEF l2
  <2>. QED
    BY ONLY <1>15, <2>1, <2>2, Joined
<1>19. Before(c, t, l3, R3) /\ Elems(l3) = Elems(l2) \cup V3
  <2>1. Before(c, t, l2, Both(V3, R3))
    BY <1>18 DEF R2
  <2>2. l3 = Cat(l2, p3)
    BY DEF l3
  <2>. QED
    BY ONLY <1>15, <2>1, <2>2, Joined
<1>20. Before(c, t, l4, {}) /\ Elems(l4) = Elems(l3) \cup Q
  <2>1. Elems(p4) = Q
    BY DEF Q
  <2>2. Before(c, t, l3, Both(Q, {}))
    BY <1>19 DEF R3, Both
  <2>3. l4 = Cat(l3, p4)
    BY DEF l4
  <2>. QED
    BY ONLY <1>2, <2>1, <2>2, <2>3, Joined
<1>21. Fresh(Elems(l4))
  <2>1. Elems(l4)
          = Elems(w) \cup ({o1, o2} \cup ({o3, o4} \cup ({o5} \cup Q)))
    BY <1>17, <1>18, <1>19, <1>20 DEF V1, V2, V3
  <2>2. \A d : <<"share", d, KernelEvent>>[1] # "streamwait"
    OBVIOUS
  <2>3. \A y \in AllCovers : <<"share", y[2], KernelEvent>> \notin Elems(w)
    BY <1>16, <2>2
  <2>. QED
    BY <1>5, <2>1, <2>3 DEF Fresh, Sharing
<1>. QED
  <2>1. l4 = w \o p1 \o p2 \o p3 \o p4
    BY DEF l1, l2, l3, l4, Cat
  <2>. QED
    BY <1>3, <1>20, <1>21, <2>1 DEF p1, p2, p3, p4, o1, o2, o3, o4, o5

\* What follows the push of a kernel: each event it shares with a device slot is
\* recorded as the cover of the slot asks.
Chunk(c, t, q, u) ==
  /\ \A R : NoPushIn(R) => Before(c, t, u, R)
  /\ NoPushIn(Elems(u))
  /\ \A y \in AllCovers : Sharing(Elems(u), y) => Recording(Elems(u), y) /\ y[3] = q

\* Nothing is such a part.
LEMMA NoChunk ==
  ASSUME NEW c, NEW t, NEW q
  PROVE  Chunk(c, t, q, <<>>)
<1>1. KernelEvent \in Slot
  BY SlotKinds
<1>2. <<"retain", KernelEvent>> \in JobOps
  BY <1>1, JobOpsAre
<1>3. (\A R : Before(c, t, <<>>, R)) /\ Elems(<<>>) = {}
  <2>. DEFINE o == <<"retain", KernelEvent>>
  <2>1. o \in JobOps
    BY <1>2
  <2>. HIDE DEF o
  <2>. QED
    BY <2>1, BeforeFew
<1>. QED
  BY <1>3 DEF Chunk, NoPushIn, Sharing

\* What a ctrl remembers of its last job is such a part.
LEMMA RecordSeqChunk ==
  ASSUME NEW c, NEW t, NEW q, NEW d \in Ctrl, NEW p \in Queue, NEW s \in Slot
  PROVE  Chunk(c, t, q, RecordSeq(d, p, s))
<1>1. NoPushIn({})
  BY DEF NoPushIn
<1>. DEFINE u == RecordSeq(d, p, s)
<1>2. (\A R : NoPushIn(R) => Before(c, t, u, R)) /\ NoPushIn(Elems(u)) /\ NoShareIn(Elems(u))
  BY <1>1, RecordSeqOrdered
<1>. HIDE DEF u
<1>3. Chunk(c, t, q, u)
  BY <1>2 DEF Chunk, NoShareIn
<1>. QED
  BY <1>3 DEF u

\* So is the update of the events of a use of the tile.
LEMMA UpdateChunk ==
  ASSUME NEW c \in Ctrl, NEW t \in Tiles, NEW x \in Covers(c, t)
  PROVE  LET u == << <<"record", x[1], x[3]>>, <<"release", {x[2]}>>,
                     <<"share", x[2], KernelEvent>> >>
         IN /\ Chunk(c, t, x[3], u)
            /\ Recording(Elems(u), x) /\ Sharing(Elems(u), x)
<1>. DEFINE a == <<"record", x[1], x[3]>>
            b == <<"release", {x[2]}>>
            e == <<"share", x[2], KernelEvent>>
<1>0. /\ x \in AllCovers /\ x[1] \in CpuSlot /\ x[2] \in Slot /\ x[2] # KernelEvent
      /\ x[3] \in Queue /\ KernelEvent \in Slot
  <2>1. /\ x \in AllCovers /\ x[1] \in CpuSlot /\ x[2] \in Slot /\ x[2] # KernelEvent
        /\ x[3] \in DriverQueue
    BY CoverFacts
  <2>. QED
    BY <2>1, QueuesAre, SlotKinds
<1>1. a \in JobOps /\ b \in JobOps /\ e \in JobOps
  BY <1>0, JobOpsAre
<1>2. /\ \A y \in AllCovers : x[1] = y[1] => x[3] = y[3]
      /\ \A y \in AllCovers : x[2] = y[2] => y[1] = x[1] /\ y[3] = x[3]
  BY <1>0, CoversApart
<1>3. \A z \in Tiles : x[1] \notin HostSlots(z)
  BY OtherCovers
<1>4. a[1] = "record" /\ b[1] = "release" /\ e[1] = "share"
  OBVIOUS
<1>5. ASSUME NEW R, NoPushIn(R) PROVE Before(c, t, <<a, b, e>>, R)
  <2>1. NoPushIn({b, e} \cup R) /\ NoPushIn({e} \cup R)
    BY <1>4, <1>5 DEF NoPushIn
  <2>2. Ok(c, t, a, {b, e} \cup R)
    BY <1>2, <1>3, <2>1, OkRecord
  <2>3. Ok(c, t, b, {e} \cup R)
    <3>1. \A y \in AllCovers : x[2] = y[2] => Sharing({e} \cup R, y)
      BY DEF Sharing
    <3>. QED
      BY <1>0, <3>1, OkRelease
  <2>4. Ok(c, t, e, R)
    BY <1>5, OkShare
  <2>. HIDE DEF a, b, e
  <2>. QED
    BY <1>1, <2>2, <2>3, <2>4, BeforeFew
<1>6. \A y \in AllCovers : e = <<"share", y[2], KernelEvent>> => x[2] = y[2]
  <2>1. \A d : <<"share", d, KernelEvent>>[2] = d
    OBVIOUS
  <2>. QED
    BY <2>1
<1>7. \A d : <<"share", d, KernelEvent>>[1] = "share"
  OBVIOUS
<1>8. \A y \in AllCovers : y[1] = x[1] /\ y[3] = x[3] => a = <<"record", y[1], y[3]>>
  OBVIOUS
<1>. HIDE DEF a, b, e
<1>9. Elems(<<a, b, e>>) = {a, b, e}
  BY ONLY ElemsOfThree
<1>10. NoPushIn({a, b, e})
  BY <1>4 DEF NoPushIn
<1>11. \A y \in AllCovers : Sharing({a, b, e}, y) => Recording({a, b, e}, y) /\ y[3] = x[3]
  BY <1>2, <1>4, <1>6, <1>7, <1>8 DEF Sharing, Recording
<1>12. Recording({a, b, e}, x) /\ Sharing({a, b, e}, x)
  BY DEF Sharing, Recording, a, e
<1>13. Chunk(c, t, x[3], <<a, b, e>>)
  BY <1>5, <1>9, <1>10, <1>11 DEF Chunk
<1>14. Recording(Elems(<<a, b, e>>), x) /\ Sharing(Elems(<<a, b, e>>), x)
  BY <1>9, <1>12
<1>. QED
  BY <1>13, <1>14 DEF a, b, e

\* A launch makes its event, and shares it with the slots it is going to push
\* and record it for.
LEMMA LaunchOrdered ==
  ASSUME NEW c \in Ctrl, NEW t \in Tiles, NEW x \in Covers(c, t), NEW w \in Seq(LiveWaits),
         NEW u1, NEW u2, NEW u3, Chunk(c, t, x[3], u1), Chunk(c, t, x[3], u2),
         Chunk(c, t, x[3], u3),
         \/ Recording(Elems(u1), x) /\ Sharing(Elems(u1), x)
         \/ Recording(Elems(u2), x) /\ Sharing(Elems(u2), x)
  PROVE  LET l == w \o << <<"create", {KernelEvent}>> >>
                    \o PushJob(x[3], "kernel", KernelEvent, t) \o u1 \o u2 \o u3
                    \o DropKernelEvent
         IN Before(c, t, l, {}) /\ Fresh(Elems(l))
<1>. DEFINE o1 == <<"create", {KernelEvent}>>
            o2 == <<"retain", KernelEvent>>
            o3 == <<"push", x[3], "kernel", KernelEvent, t>>
            o4 == <<"release", {KernelEvent}>>
            p1 == <<o1>>
            p2 == <<o2, o3>>
            p6 == <<o4>>
<1>0. /\ x \in AllCovers /\ x[2] # KernelEvent /\ x[3][1] = c
      /\ x[3] \in Queue /\ KernelEvent \in Slot \ CpuSlot
      /\ \A y \in AllCovers : y[2] # KernelEvent
  <2>1. /\ x \in AllCovers /\ x[2] # KernelEvent /\ x[3] \in DriverQueue /\ x[3][1] = c
    BY CoverFacts
  <2>2. \A y \in AllCovers : y[2] # KernelEvent
    BY CoverOf, CoverFacts
  <2>3. KernelEvent \notin CpuSlot
    BY DEF CpuSlot, IsDev, KernelEvent
  <2>. QED
    BY <2>1, <2>2, <2>3, QueuesAre, SlotKinds
<1>1. o1 \in JobOps /\ o2 \in JobOps /\ o3 \in JobOps /\ o4 \in JobOps
  <2>1. "kernel" \in Kinds
    BY DEF Kinds
  <2>. QED
    BY <1>0, <2>1, JobOpsAre
<1>2. PushJob(x[3], "kernel", KernelEvent, t) = p2 /\ DropKernelEvent = p6
  BY DEF PushJob, DropKernelEvent
<1>3. o1[1] = "create" /\ o2[1] = "retain" /\ o3[1] = "push" /\ o4[1] = "release"
      /\ o3[2] = x[3] /\ o3[4] = KernelEvent
  OBVIOUS
<1>4. /\ \A y : o1 # <<"share", y[2], KernelEvent>>
      /\ \A y : o2 # <<"share", y[2], KernelEvent>>
      /\ \A y : o3 # <<"share", y[2], KernelEvent>>
      /\ \A y : o4 # <<"share", y[2], KernelEvent>>
  <2>1. \A d : <<"share", d, KernelEvent>>[1] = "share"
    OBVIOUS
  <2>. HIDE DEF o1, o2, o3, o4
  <2>. QED
    BY <1>3, <2>1
<1>5. c # Host
  BY Names
<1>. DEFINE U1 == Elems(u1)
            U2 == Elems(u2)
            U3 == Elems(u3)
            R6 == {o4}
            R5 == U3 \cup R6
            R4 == U2 \cup R5
            R3 == U1 \cup R4
            R2 == {o2, o3} \cup R3
<1>. HIDE DEF U1, U2, U3
<1>6. /\ NoPushIn(R6) /\ NoPushIn(R5) /\ NoPushIn(R4)
  BY <1>3 DEF Chunk, NoPushIn, U2, U3
<1>7. /\ Before(c, t, u1, R4) /\ Before(c, t, u2, R5) /\ Before(c, t, u3, R6)
  BY <1>6 DEF Chunk
<1>8. ASSUME NEW y \in AllCovers, NEW S, S = R3 \/ S = R2 \/ S = {o1} \cup R2, Sharing(S, y)
      PROVE  Recording(R3, y) /\ y[3] = x[3]
  <2>1. Sharing(U1, y) \/ Sharing(U2, y) \/ Sharing(U3, y)
    <3>. HIDE DEF o1, o2, o3, o4
    <3>. QED
      BY <1>4, <1>8 DEF Sharing
  <2>2. (Recording(U1, y) \/ Recording(U2, y) \/ Recording(U3, y)) /\ y[3] = x[3]
    BY <2>1 DEF Chunk, U1, U2, U3
  <2>. QED
    BY <2>2 DEF Recording
<1>9. /\ Sharing(R3, x) /\ Recording(R3, x)
  BY DEF Sharing, Recording, U1, U2
<1>10. ASSUME NEW S, S = R2 \/ S = {o1} \cup R2 PROVE Fresh(S)
  <2>. SUFFICES ASSUME NEW y \in AllCovers, Sharing(S, y) PROVE Promised(S, y)
    BY DEF Fresh
  <2>1. Recording(R3, y) /\ y[3] = x[3]
    BY <1>8, <1>10
  <2>2. Recording(S, y)
    BY <1>10, <2>1 DEF Recording
  <2>3. o3 \in S
    BY <1>10
  <2>. HIDE DEF o1, o2, o3, o4
  <2>. QED
    BY <1>3, <2>1, <2>2, <2>3, PromisedBy
<1>11. Ok(c, t, o1, R2)
  <2>1. Fresh(R2)
    BY <1>10
  <2>. HIDE DEF R2
  <2>. QED
    BY <1>0, <2>1, OkCreate
<1>12. Ok(c, t, o2, {o3} \cup R3)
  BY OkPlain
<1>13. Ok(c, t, o3, R3)
  <2>. HIDE DEF R3
  <2>. QED
    BY <1>0, <1>5, <1>9, OkPush
<1>14. Ok(c, t, o4, {})
  <2>1. NoShareIn({})
    BY DEF NoShareIn, Sharing
  <2>. QED
    BY <1>0, <2>1, OkRelease
<1>. HIDE DEF o1, o2, o3, o4
<1>15. /\ Before(c, t, p1, R2) /\ Elems(p1) = {o1}
       /\ Before(c, t, p2, R3) /\ Elems(p2) = {o2, o3}
       /\ Before(c, t, p6, {}) /\ Elems(p6) = R6
  <2>. HIDE DEF R2, R3
  <2>. QED
    BY <1>1, <1>11, <1>12, <1>13, <1>14, BeforeFew
<1>16. Before(c, t, w, {o1} \cup R2) /\ \A o \in Elems(w) : o[1] = "streamwait"
  BY WaitsOrdered
<1>. HIDE DEF p1, p2, p6
<1>. DEFINE l1 == w \o p1 \o p2 \o u1 \o u2
            l2 == Cat(l1, u3)
            l3 == Cat(l2, p6)
            R1 == {o1} \cup R2
<1>17. /\ R4 = Both(Elems(u2), R5) /\ R3 = Both(Elems(u1), R4) /\ R2 = Both(Elems(p2), R3)
       /\ R1 = Both(Elems(p1), R2) /\ R5 = Both(U3, R6) /\ R6 = Both(R6, {})
  BY <1>15 DEF Both, U1, U2
<1>18. l1 = Cat(Cat(Cat(Cat(w, p1), p2), u1), u2) /\ l2 = Cat(l1, u3)
       /\ l3 = Cat(l2, p6) /\ Elems(u3) = U3
  BY DEF U3, Cat
<1>. HIDE DEF R1, R2, R3, R4, R5, R6, l1, l2, l3
<1>19. /\ Before(c, t, l1, R5)
       /\ Elems(l1) = Elems(w) \cup Elems(p1) \cup Elems(p2) \cup Elems(u1) \cup Elems(u2)
  <2>1. Before(c, t, w, R1)
    BY <1>16 DEF R1
  <2>2. Row(c, t, w, p1, p2, u1, u2, R5)
    BY ONLY <1>7, <1>15, <1>17, <2>1 DEF Row
  <2>. QED
    BY ONLY <1>18, <2>2, FiveJoined
<1>20. Before(c, t, l2, R6) /\ Elems(l2) = Elems(l1) \cup U3
  <2>1. Before(c, t, l1, Both(U3, R6))
    BY <1>17, <1>19, Zenon
  <2>. QED
    BY ONLY <1>7, <1>18, <2>1, Joined
<1>21. Before(c, t, l3, {}) /\ Elems(l3) = Elems(l2) \cup R6
  <2>1. Before(c, t, l2, Both(R6, {}))
    BY <1>17, <1>20, Zenon
  <2>. QED
    BY ONLY <1>15, <1>18, <2>1, Joined
<1>22. Elems(l3) = Elems(w) \cup R1
  BY <1>15, <1>19, <1>20, <1>21 DEF R1, R2, R3, R4, R5, R6, U1, U2
<1>23. Fresh(Elems(l3))
  <2>1. Fresh(R1)
    BY <1>10 DEF R1
  <2>2. \A d : <<"share", d, KernelEvent>>[1] # "streamwait"
    OBVIOUS
  <2>3. \A y \in AllCovers : <<"share", y[2], KernelEvent>> \notin Elems(w)
    BY <1>16, <2>2
  <2>. SUFFICES ASSUME NEW y \in AllCovers, Sharing(Elems(l3), y) PROVE Promised(Elems(l3), y)
    BY DEF Fresh
  <2>4. Sharing(R1, y)
    BY <1>22, <2>3 DEF Sharing
  <2>5. Promised(R1, y)
    BY <2>1, <2>4 DEF Fresh
  <2>. QED
    BY <1>22, <2>5 DEF Promised, Pushing, Recording, Sharing
<1>. QED
  <2>1. l3 = w \o p1 \o p2 \o u1 \o u2 \o u3 \o p6
    BY DEF l1, l2, l3, Cat
  <2>. QED
    BY <1>2, <1>21, <1>23, <2>1 DEF p1, p2, p6, o1, o2, o3, o4

\* The transfer to a ctrl.
LEMMA MoveToOrdered ==
  ASSUME NEW c \in Ctrl, NEW t \in Tiles, <<c, t>> \in records, Live(t),
         \A d \in Ctrl : Attached(d, t) => <<d, t>> \in records
  PROVE  Before(c, t, MoveToInner(c, t), {}) /\ Fresh(Elems(MoveToInner(c, t)))
<1>. DEFINE p1 == ImplWaits(t, <<"host_last_dth", "dev_last_dth">>, Htd(c))
            p2 == WaitsFor(<< <<c, t, "host_last_kernel_read">>, <<c, t, "host_last_kernel_write">>,
                              <<Host, t, "last_host_write">>, <<c, t, "dev_last_kernel_read">>,
                              <<c, t, "dev_last_kernel_write">> >>, Htd(c))
            p3 == SyncWait(Htd(c))
            w == p1 \o p2 \o p3
            x == << <<c, t, "host_last_htd">>, <<c, t, "dev_last_htd">>, Htd(c)>>
            l == w \o << <<"release", {x[2]}>>, <<"create", {x[2]}>> >>
                   \o PushJob(x[3], "moveto", x[2], t) \o << <<"record", x[1], x[3]>> >>
                   \o RecordSeq(c, Dth(c), x[2])
<1>0. Htd(c) \in Queue /\ Dth(c) \in Queue
  BY QueuesAre
<1>1. /\ <<c, t, "host_last_kernel_read">> \in LiveSlots
      /\ <<c, t, "host_last_kernel_write">> \in LiveSlots
      /\ <<c, t, "dev_last_kernel_read">> \in LiveSlots
      /\ <<c, t, "dev_last_kernel_write">> \in LiveSlots
      /\ <<Host, t, "last_host_write">> \in LiveSlots
  BY TileSlots, KindNames
<1>2. p1 \in Seq(LiveWaits)
  <2>1. <<"host_last_dth", "dev_last_dth">> \in Seq(CpuKind \cup DevKind)
    BY DEF CpuKind, DevKind
  <2>. QED
    BY <1>0, <2>1, ImplWaitsAre
<1>3. p2 \in Seq(LiveWaits)
  <2>1. << <<c, t, "host_last_kernel_read">>, <<c, t, "host_last_kernel_write">>,
           <<Host, t, "last_host_write">>, <<c, t, "dev_last_kernel_read">>,
           <<c, t, "dev_last_kernel_write">> >> \in Seq(LiveSlots)
    BY <1>1
  <2>. QED
    BY <1>0, <2>1, WaitsForAre
<1>4. p3 \in Seq(LiveWaits)
  BY <1>0, SyncWaitAre
<1>5. x \in Covers(c, t) /\ x[1] = <<c, t, "host_last_htd">> /\ x[2] = <<c, t, "dev_last_htd">>
      /\ x[3] = Htd(c)
  BY DEF Covers
<1>6. MoveToInner(c, t) = l
  BY DEF MoveToInner
<1>7. "moveto" \in Kinds \ {"hosttask"}
  BY DEF Kinds
<1>8. x[2] \in Slot
  BY <1>5, CoverFacts
<1>. HIDE DEF p1, p2, p3, x
<1>9. w \in Seq(LiveWaits)
  BY <1>2, <1>3, <1>4
<1>. HIDE DEF w
<1>10. Before(c, t, l, {}) /\ Fresh(Elems(l))
  BY <1>0, <1>5, <1>7, <1>8, <1>9, TransferOrdered
<1>. QED
  BY <1>6, <1>10

\* The transfer from a ctrl.
LEMMA MoveFromOrdered ==
  ASSUME NEW c \in Ctrl, NEW t \in Tiles, <<c, t>> \in records, Live(t),
         \A d \in Ctrl : Attached(d, t) => <<d, t>> \in records
  PROVE  Before(c, t, MoveFromInner(c, t), {}) /\ Fresh(Elems(MoveFromInner(c, t)))
<1>. DEFINE p1 == ImplWaits(t, <<"host_last_htd", "dev_last_htd">>, Dth(c))
            p2 == WaitsFor(<< <<c, t, "host_last_kernel_write">>,
                              <<Host, t, "last_host_read">>, <<Host, t, "last_host_write">>,
                              <<c, t, "dev_last_kernel_write">> >>, Dth(c))
            p3 == SyncWait(Dth(c))
            w == p1 \o p2 \o p3
            x == << <<c, t, "host_last_dth">>, <<c, t, "dev_last_dth">>, Dth(c)>>
            s == <<c, t, "dev_last_htd">>
            l == w \o << <<"release", {x[2]}>>, <<"create", {x[2]}>> >>
                   \o PushJob(x[3], "movefrom", x[2], t) \o << <<"record", x[1], x[3]>> >>
                   \o RecordSeq(c, Htd(c), s)
<1>0. Htd(c) \in Queue /\ Dth(c) \in Queue
  BY QueuesAre
<1>1. /\ <<c, t, "host_last_kernel_write">> \in LiveSlots
      /\ <<c, t, "dev_last_kernel_write">> \in LiveSlots
      /\ <<c, t, "dev_last_htd">> \in LiveSlots
      /\ <<Host, t, "last_host_read">> \in LiveSlots
      /\ <<Host, t, "last_host_write">> \in LiveSlots
  BY TileSlots, KindNames
<1>2. p1 \in Seq(LiveWaits)
  <2>1. <<"host_last_htd", "dev_last_htd">> \in Seq(CpuKind \cup DevKind)
    BY DEF CpuKind, DevKind
  <2>. QED
    BY <1>0, <2>1, ImplWaitsAre
<1>3. p2 \in Seq(LiveWaits)
  <2>1. << <<c, t, "host_last_kernel_write">>, <<Host, t, "last_host_read">>,
           <<Host, t, "last_host_write">>, <<c, t, "dev_last_kernel_write">> >>
          \in Seq(LiveSlots)
    BY <1>1
  <2>. QED
    BY <1>0, <2>1, WaitsForAre
<1>4. p3 \in Seq(LiveWaits)
  BY <1>0, SyncWaitAre
<1>5. x \in Covers(c, t) /\ x[1] = <<c, t, "host_last_dth">> /\ x[2] = <<c, t, "dev_last_dth">>
      /\ x[3] = Dth(c)
  BY DEF Covers
<1>6. MoveFromInner(c, t) = l
  BY DEF MoveFromInner
<1>7. "movefrom" \in Kinds \ {"hosttask"}
  BY DEF Kinds
<1>8. s \in Slot
  BY <1>1 DEF LiveSlots
<1>. HIDE DEF p1, p2, p3, x, s
<1>9. w \in Seq(LiveWaits)
  BY <1>2, <1>3, <1>4
<1>. HIDE DEF w
<1>10. Before(c, t, l, {}) /\ Fresh(Elems(l))
  BY <1>0, <1>5, <1>7, <1>8, <1>9, TransferOrdered
<1>. QED
  BY <1>6, <1>10

\* The launch of a kernel: it reads the tile, writes it, or does both.
LEMMA LaunchInnerOrdered ==
  ASSUME NEW c \in Ctrl, NEW t \in Tiles, NEW r, <<c, t>> \in records
  PROVE  Before(c, t, LaunchInner(c, t, r), {}) /\ Fresh(Elems(LaunchInner(c, t, r)))
<1>. DEFINE q == Kernel(c)
            a1 == WaitsFor(<< <<c, t, "host_last_htd">>, <<c, t, "dev_last_htd">> >>, q)
            a2 == WaitsFor(<< <<c, t, "host_last_dth">>, <<c, t, "dev_last_dth">> >>, q)
            w1 == IF HostCopyInUse(c, t)
                  THEN a1 \o (IF r # "IN" THEN a2 ELSE <<>>)
                  ELSE <<>>
            w2 == SyncWait(q)
            w == w1 \o w2
            x == << <<c, t, "host_last_kernel_write">>, <<c, t, "dev_last_kernel_write">>, q>>
            y == << <<c, t, "host_last_kernel_read">>, <<c, t, "dev_last_kernel_read">>, q>>
            v1 == Update(c, t, q, "host_last_kernel_write", "dev_last_kernel_write")
            v2 == Update(c, t, q, "host_last_kernel_read", "dev_last_kernel_read")
            u1 == IF r # "IN" THEN v1 ELSE <<>>
            u2 == IF r # "OUT" THEN v2 ELSE <<>>
            u3 == RecordSeq(c, q, KernelEvent)
<1>0. q \in Queue /\ KernelEvent \in Slot
  BY QueuesAre, SlotKinds
<1>1. /\ <<c, t, "host_last_htd">> \in LiveSlots /\ <<c, t, "dev_last_htd">> \in LiveSlots
      /\ <<c, t, "host_last_dth">> \in LiveSlots /\ <<c, t, "dev_last_dth">> \in LiveSlots
  BY TileSlots, KindNames
<1>2. a1 \in Seq(LiveWaits) /\ a2 \in Seq(LiveWaits)
  <2>1. /\ << <<c, t, "host_last_htd">>, <<c, t, "dev_last_htd">> >> \in Seq(LiveSlots)
        /\ << <<c, t, "host_last_dth">>, <<c, t, "dev_last_dth">> >> \in Seq(LiveSlots)
    BY <1>1
  <2>. QED
    BY <1>0, <2>1, WaitsForAre
<1>3. w2 \in Seq(LiveWaits)
  BY <1>0, SyncWaitAre
<1>4. x \in Covers(c, t) /\ y \in Covers(c, t) /\ x[3] = q /\ y[3] = q
      /\ x[1] = <<c, t, "host_last_kernel_write">> /\ x[2] = <<c, t, "dev_last_kernel_write">>
      /\ y[1] = <<c, t, "host_last_kernel_read">> /\ y[2] = <<c, t, "dev_last_kernel_read">>
  BY DEF Covers
<1>5. /\ v1 = << <<"record", x[1], x[3]>>, <<"release", {x[2]}>>, <<"share", x[2], KernelEvent>> >>
      /\ v2 = << <<"record", y[1], y[3]>>, <<"release", {y[2]}>>, <<"share", y[2], KernelEvent>> >>
  BY <1>4 DEF Update
<1>6. LaunchInner(c, t, r)
        = w \o << <<"create", {KernelEvent}>> >> \o PushJob(q, "kernel", KernelEvent, t)
            \o u1 \o u2 \o u3 \o DropKernelEvent
  BY DEF LaunchInner
<1>. HIDE DEF x, y, a1, a2, w2, v1, v2, q
<1>7. w \in Seq(LiveWaits)
  <2>1. w1 \in Seq(LiveWaits)
    BY <1>2
  <2>. HIDE DEF w1
  <2>. QED
    BY <1>3, <2>1
<1>8. /\ Chunk(c, t, q, v1) /\ Recording(Elems(v1), x) /\ Sharing(Elems(v1), x)
      /\ Chunk(c, t, q, v2) /\ Recording(Elems(v2), y) /\ Sharing(Elems(v2), y)
  BY <1>4, <1>5, UpdateChunk
<1>9. Chunk(c, t, q, u3)
  BY <1>0, RecordSeqChunk
<1>10. Chunk(c, t, q, u1) /\ Chunk(c, t, q, u2)
  BY <1>8, NoChunk
<1>11. \E z \in Covers(c, t) : /\ z[3] = q
                               /\ \/ Recording(Elems(u1), z) /\ Sharing(Elems(u1), z)
                                  \/ Recording(Elems(u2), z) /\ Sharing(Elems(u2), z)
  <2>1. CASE r # "IN"
    <3>1. u1 = v1
      BY <2>1
    <3>. QED
      BY <1>4, <1>8, <3>1
  <2>2. CASE r # "OUT"
    <3>1. u2 = v2
      BY <2>2
    <3>. QED
      BY <1>4, <1>8, <3>1
  <2>3. r # "IN" \/ r # "OUT"
    OBVIOUS
  <2>. QED
    BY <2>1, <2>2, <2>3
<1>12. PICK z \in Covers(c, t) : /\ z[3] = q
                                 /\ \/ Recording(Elems(u1), z) /\ Sharing(Elems(u1), z)
                                    \/ Recording(Elems(u2), z) /\ Sharing(Elems(u2), z)
  BY <1>11
<1>. DEFINE l == w \o << <<"create", {KernelEvent}>> >> \o PushJob(z[3], "kernel", KernelEvent, t)
                   \o u1 \o u2 \o u3 \o DropKernelEvent
<1>. HIDE DEF w, u1, u2, u3
<1>13. /\ Chunk(c, t, z[3], u1) /\ Chunk(c, t, z[3], u2) /\ Chunk(c, t, z[3], u3)
  BY <1>9, <1>10, <1>12
<1>14. Before(c, t, l, {}) /\ Fresh(Elems(l))
  BY <1>7, <1>12, <1>13, LaunchOrdered
<1>. QED
  BY <1>6, <1>12, <1>14

\* The call of a host task.
LEMMA HostTaskOrdered ==
  ASSUME NEW t \in Tiles, NEW r, Live(t),
         \A d \in Ctrl : Attached(d, t) => <<d, t>> \in records
  PROVE  Before(Host, t, HostTaskInner(t, r), {}) /\ Fresh(Elems(HostTaskInner(t, r)))
<1>. DEFINE hw == <<Host, t, "last_host_write">>
            hr == <<Host, t, "last_host_read">>
            kinds == <<"host_last_dth", "dev_last_dth">>
                     \o (IF r # "IN" THEN <<"host_last_htd", "dev_last_htd">> ELSE <<>>)
            w1 == ImplWaits(t, kinds, HostQueue)
            w2 == WaitsFor(<<hw>>, HostQueue)
            v3 == WaitsFor(<<hr>>, HostQueue)
            w3 == IF r # "IN" THEN v3 ELSE <<>>
            w4 == SyncWait(HostQueue)
            w == w1 \o w2 \o w3 \o w4
            o1 == <<"push", HostQueue, "hosttask", KernelEvent, t>>
            o2 == <<"record", hw, HostQueue>>
            o3 == <<"record", hr, HostQueue>>
            o4 == <<"synchronize", HostQueue>>
            p1 == <<o1>>
            p2 == IF r # "IN" THEN <<o2>> ELSE <<>>
            p3 == IF r # "OUT" THEN <<o3>> ELSE <<>>
            p4 == IF policy = "SYNC" THEN <<o4>> ELSE <<>>
            l == Cat(Cat(Cat(Cat(w, p1), p2), p3), p4)
<1>0. HostQueue \in Queue /\ HostQueue[1] = Host /\ KernelEvent \in Slot
  BY QueuesAre, SlotKinds DEF HostQueue
<1>1. /\ hw \in LiveSlots /\ hr \in LiveSlots /\ hw \in CpuSlot /\ hr \in CpuSlot
      /\ hw \in HostSlots(t) /\ hr \in HostSlots(t)
  BY TileSlots DEF HostSlots
<1>2. w1 \in Seq(LiveWaits)
  <2>1. kinds \in Seq(CpuKind \cup DevKind)
    <3>1. /\ <<"host_last_dth", "dev_last_dth">> \in Seq(CpuKind \cup DevKind)
          /\ <<"host_last_htd", "dev_last_htd">> \in Seq(CpuKind \cup DevKind)
          /\ <<>> \in Seq(CpuKind \cup DevKind)
      BY DEF CpuKind, DevKind
    <3>. DEFINE K == CpuKind \cup DevKind
                k1 == <<"host_last_dth", "dev_last_dth">>
                k2 == IF r # "IN" THEN <<"host_last_htd", "dev_last_htd">> ELSE <<>>
    <3>2. k1 \in Seq(K) /\ k2 \in Seq(K)
      BY <3>1
    <3>. HIDE DEF K, k1, k2
    <3>3. k1 \o k2 \in Seq(K)
      BY <3>2
    <3>. QED
      BY <3>3 DEF K, k1, k2
  <2>. HIDE DEF kinds
  <2>. QED
    BY <1>0, <2>1, ImplWaitsAre
<1>3. w2 \in Seq(LiveWaits) /\ v3 \in Seq(LiveWaits)
  <2>1. <<hw>> \in Seq(LiveSlots) /\ <<hr>> \in Seq(LiveSlots)
    BY <1>1
  <2>. HIDE DEF hw, hr
  <2>. QED
    BY <1>0, <2>1, WaitsForAre
<1>4. w4 \in Seq(LiveWaits)
  BY <1>0, SyncWaitAre
<1>5. HostTaskInner(t, r) = l
  BY DEF HostTaskInner, Cat
<1>. HIDE DEF hw, hr, kinds, w1, w2, v3, w4
<1>6. w \in Seq(LiveWaits)
  BY <1>2, <1>3, <1>4
<1>7. o1 \in JobOps /\ o2 \in JobOps /\ o3 \in JobOps /\ o4 \in JobOps
  <2>1. "hosttask" \in Kinds
    BY DEF Kinds
  <2>. QED
    BY <1>0, <1>1, <2>1, JobOpsAre
<1>8. /\ \A y \in AllCovers : hw # y[1] /\ hr # y[1]
  <2>1. \A y \in AllCovers : y[1] \notin HostSlots(t)
    BY CoverOf, OtherCovers
  <2>. QED
    BY <1>1, <2>1
<1>9. o1[1] = "push" /\ o2[1] = "record" /\ o3[1] = "record" /\ o4[1] = "synchronize"
  OBVIOUS
<1>. DEFINE R3 == Elems(p4)
            R2 == Elems(p3) \cup R3
            R1 == Elems(p2) \cup R2
            R0 == Elems(p1) \cup R1
<1>. HIDE DEF w, o1, o2, o3, o4
<1>10. /\ \A R : Ok(Host, t, o2, R) => Before(Host, t, <<o2>>, R)
       /\ \A R : Ok(Host, t, o3, R) => Before(Host, t, <<o3>>, R)
       /\ \A R : Ok(Host, t, o4, R) => Before(Host, t, <<o4>>, R)
       /\ \A R : Ok(Host, t, o1, R) => Before(Host, t, <<o1>>, R)
       /\ \A R : Before(Host, t, <<>>, R)
       /\ Elems(<<o1>>) = {o1} /\ Elems(<<o2>>) = {o2} /\ Elems(<<o3>>) = {o3}
       /\ Elems(<<o4>>) = {o4} /\ Elems(<<>>) = {}
  BY <1>7, BeforeFew
<1>11. /\ Elems(p1) = {o1} /\ Elems(p2) = (IF r # "IN" THEN {o2} ELSE {})
       /\ Elems(p3) = (IF r # "OUT" THEN {o3} ELSE {})
       /\ Elems(p4) = (IF policy = "SYNC" THEN {o4} ELSE {})
  BY <1>10
<1>12. NoPushIn(R3) /\ NoPushIn(R2)
  BY <1>9, <1>11 DEF NoPushIn
<1>13. Before(Host, t, p4, {})
  <2>1. Ok(Host, t, o4, {})
    BY <1>9, OkPlain
  <2>. QED
    BY <1>10, <2>1
<1>14. Before(Host, t, p3, R3)
  <2>1. Ok(Host, t, o3, R3)
    BY <1>8, <1>12, OkRecord DEF o3
  <2>. QED
    BY <1>10, <2>1
<1>15. Before(Host, t, p2, R2)
  <2>1. Ok(Host, t, o2, R2)
    BY <1>8, <1>12, OkRecord DEF o2
  <2>. QED
    BY <1>10, <2>1
<1>16. Before(Host, t, p1, R1)
  <2>1. r # "IN" \/ r # "OUT"
    OBVIOUS
  <2>2. o2 \in R1 \/ o3 \in R1
    BY <1>11, <2>1
  <2>3. \E h \in HostSlots(t) : <<"record", h, HostQueue>> \in R1
    BY <1>1, <2>2 DEF o2, o3
  <2>. HIDE DEF R1
  <2>4. Ok(Host, t, o1, R1)
    BY <1>0, <2>3, OkPush DEF o1
  <2>. QED
    BY <1>10, <2>4
<1>17. Before(Host, t, w, R0) /\ \A o \in Elems(w) : o[1] = "streamwait"
  BY <1>6, WaitsOrdered
<1>18. /\ R3 = Both(Elems(p4), {}) /\ R2 = Both(Elems(p3), R3) /\ R1 = Both(Elems(p2), R2)
       /\ R0 = Both(Elems(p1), R1)
  BY DEF Both
<1>19. \A o \in R0 : o[1] # "share"
  BY <1>9, <1>11
<1>20. R0 = Elems(p1) \cup Elems(p2) \cup Elems(p3) \cup Elems(p4)
  OBVIOUS
<1>. HIDE DEF p1, p2, p3, p4, R0, R1, R2, R3
<1>21. Row(Host, t, w, p1, p2, p3, p4, {})
  BY ONLY <1>13, <1>14, <1>15, <1>16, <1>17, <1>18 DEF Row
<1>22. l = Cat(Cat(Cat(Cat(w, p1), p2), p3), p4)
  OBVIOUS
<1>. HIDE DEF l
<1>23. /\ Before(Host, t, l, {})
       /\ Elems(l) = Elems(w) \cup Elems(p1) \cup Elems(p2) \cup Elems(p3) \cup Elems(p4)
  BY ONLY <1>21, <1>22, FiveJoined
<1>24. \A o \in Elems(l) : o[1] # "share"
  BY <1>17, <1>19, <1>20, <1>23
<1>25. \A y \in AllCovers : ~Sharing(Elems(l), y)
  <2>1. \A y : <<"share", y[2], KernelEvent>>[1] = "share"
    OBVIOUS
  <2>. QED
    BY <1>24, <2>1 DEF Sharing
<1>. QED
  BY <1>5, <1>23, <1>25 DEF Fresh
-----------------------------------------------------------------------------
(* What is left of other calls.                                            *)

\* They push, share and record nothing.
Quiet(S) == \A o \in S : o[1] \notin {"push", "share", "record"}

\* So they promise no cover anything and record no event of one.
LEMMA QuietFacts ==
  ASSUME NEW S, Quiet(S)
  PROVE  /\ \A x : ~Promised(S, x) /\ ~Sharing(S, x)
         /\ \A h, q : <<"record", h, q>> \notin S
<1>1. \A h, q : <<"record", h, q>>[1] = "record" /\ <<"share", h, q>>[1] = "share"
  OBVIOUS
<1>. QED
  BY <1>1 DEF Quiet, Promised, Pushing, Sharing

\* Calls that are not for a job consist of other operations.
LEMMA OtherOps == OtherLeft => todo \in Seq(CallOps)
<1>. DEFINE C == CallOps
<1>0. /\ \A S \in SUBSET Slot : /\ <<"wait", S>> \in C /\ <<"release", S>> \in C
                                /\ <<"create", S>> \in C
      /\ \A c \in Ctrl, t \in Tiles :
           /\ <<"attach", c, t>> \in C /\ <<"detach", c, t>> \in C /\ <<"peek", c, t>> \in C
      /\ \A t \in Tiles : <<"domain", t>> \in C /\ <<"freehost", t>> \in C
  BY CallOpsAre
<1>1. /\ \A t \in Tiles : HostSlots(t) \in SUBSET Slot
      /\ \A c \in Ctrl, t \in Tiles : /\ ImplSlots(c, t) \in SUBSET Slot
                                      /\ HostSlots(t) \cup {<<c, t, k>> : k \in CpuKind} \in SUBSET Slot
                                      /\ {<<c, t, k>> : k \in DevKind} \in SUBSET Slot
  <2>1. \A c \in Ctrl, t \in Tiles : \A k \in CpuKind \cup DevKind : <<c, t, k>> \in Slot
    BY SlotKinds
  <2>. QED
    BY <2>1, SlotKinds
<1>2. \A n \in 0 .. NCtrls, t \in Tiles : /\ Loop("freeif", n, t) \in Seq(C)
                                          /\ Loop("selectif", n, t) \in Seq(C)
  BY LoopOps
<1>3. ASSUME NEW c \in Ctrl, NEW t \in Tiles
      PROVE  /\ HostWait(c, t) \in C /\ DevWait(c, t) \in C /\ TileRelease(c, t) \in C
             /\ <<"create", ImplSlots(c, t)>> \in C
  <2>. HIDE DEF C
  <2>. QED
    BY <1>0, <1>1 DEF HostWait, DevWait, TileRelease
<1>. HIDE DEF C
<1>4. ASSUME NEW l \in Seq(C), NEW a \in C, NEW b \in C, NEW d \in C, NEW e \in C
      PROVE  /\ <<a>> \o l \in Seq(C) /\ <<a, b>> \o l \in Seq(C)
             /\ <<a, b, d>> \o l \in Seq(C) /\ <<a, b, d, e>> \o l \in Seq(C)
  BY PrefixedOps
<1>5. ASSUME NEW c \in Ctrl, NEW t \in Tiles, NEW rest \in Seq(C), RoundLeft(c, t, rest)
      PROVE  todo \in Seq(C)
  <2>. DEFINE a == HostWait(c, t)
              b == DevWait(c, t)
              d == TileRelease(c, t)
              e == <<"detach", c, t>>
  <2>1. a \in C /\ b \in C /\ d \in C /\ e \in C
    BY <1>0, <1>3
  <2>2. \/ todo = <<a, b, d, e>> \o rest \/ todo = <<b, d, e>> \o rest
        \/ todo = <<d, e>> \o rest \/ todo = <<e>> \o rest
    BY <1>5 DEF RoundLeft
  <2>. HIDE DEF a, b, d, e
  <2>3. /\ <<a, b, d, e>> \o rest \in Seq(C) /\ <<b, d, e>> \o rest \in Seq(C)
        /\ <<d, e>> \o rest \in Seq(C) /\ <<e>> \o rest \in Seq(C)
    BY ONLY <1>4, <1>5, <2>1
  <2>. QED
    BY ONLY <2>2, <2>3
<1>6. ASSUME NEW t \in Tiles, NEW rest \in Seq(C), HostLeft(t, rest)
      PROVE  todo \in Seq(C)
  <2>. DEFINE a == <<"release", HostSlots(t)>>
              b == <<"freehost", t>>
  <2>1. a \in C /\ b \in C
    BY <1>0, <1>1
  <2>2. todo = <<a, b>> \o rest \/ todo = <<b>> \o rest
    BY <1>6 DEF HostLeft
  <2>. HIDE DEF a, b
  <2>. QED
    BY <1>4, <2>1, <2>2
<1>7. ASSUME NEW c \in Ctrl, NEW t \in Tiles, NEW rest \in Seq(C), InitLeft(c, t, rest)
      PROVE  todo \in Seq(C)
  <2>. DEFINE a == <<"attach", c, t>>
              b == <<"create", ImplSlots(c, t)>>
  <2>1. a \in C /\ b \in C
    BY <1>0, <1>3
  <2>2. todo = <<a, b>> \o rest \/ todo = <<b>> \o rest
    BY <1>7 DEF InitLeft
  <2>. HIDE DEF a, b
  <2>. QED
    BY <1>4, <2>1, <2>2
<1>8. <<>> \in Seq(C)
  OBVIOUS
<1>9. FreeLeft => todo \in Seq(C)
  BY <1>2, <1>5, <1>6 DEF FreeLeft
<1>10. AllocLeft => todo \in Seq(C)
  <2>1. \A t \in Domains : t \in Tiles
    BY DEF Tiles
  <2>. QED
    BY <1>7, <1>8, <2>1 DEF AllocLeft
<1>11. SelectLeft => todo \in Seq(C)
  <2>1. SUFFICES ASSUME NEW s \in Selections, NEW n \in 0 .. NCtrls,
                        \/ todo = << <<"domain", s>>, <<"create", HostSlots(s)>> >> \o Loop("selectif", n, s)
                        \/ todo = << <<"create", HostSlots(s)>> >> \o Loop("selectif", n, s)
                        \/ todo = Loop("selectif", n, s)
                        \/ \E c \in Ctrl :
                             \/ InitLeft(c, s, << <<"peek", c, Selected[s]>> >> \o Loop("selectif", n, s))
                             \/ todo = << <<"peek", c, Selected[s]>> >> \o Loop("selectif", n, s)
                 PROVE  todo \in Seq(C)
    BY DEF SelectLeft
  <2>. DEFINE rest == Loop("selectif", n, s)
              a == <<"domain", s>>
              b == <<"create", HostSlots(s)>>
  <2>2. s \in Tiles /\ Selected[s] \in Tiles
    BY Names
  <2>3. rest \in Seq(C) /\ a \in C /\ b \in C
    BY <1>0, <1>1, <1>2, <2>2
  <2>4. \A c \in Ctrl : << <<"peek", c, Selected[s]>> >> \o rest \in Seq(C)
    <3>1. \A c \in Ctrl : <<"peek", c, Selected[s]>> \in C
      BY <1>0, <2>2
    <3>2. \A o \in C : <<o>> \o rest \in Seq(C)
      <4>. HIDE DEF rest
      <4>. QED
        BY <1>4, <2>3
    <3>. QED
      BY <3>1, <3>2
  <2>. HIDE DEF a, b, rest
  <2>5. <<a, b>> \o rest \in Seq(C) /\ <<b>> \o rest \in Seq(C)
    BY <1>4, <2>3
  <2>6. CASE todo = <<a, b>> \o rest \/ todo = <<b>> \o rest \/ todo = rest
    BY <2>3, <2>5, <2>6
  <2>7. ASSUME NEW c \in Ctrl, InitLeft(c, s, << <<"peek", c, Selected[s]>> >> \o rest)
        PROVE  todo \in Seq(C)
    BY <1>7, <2>2, <2>4, <2>7
  <2>8. ASSUME NEW c \in Ctrl, todo = << <<"peek", c, Selected[s]>> >> \o rest
        PROVE  todo \in Seq(C)
    BY <2>4, <2>8
  <2>. QED
    BY <2>1, <2>6, <2>7, <2>8 DEF a, b, rest
<1>. QED
  BY <1>8, <1>9, <1>10, <1>11 DEF OtherLeft, C

\* So they are quiet.
LEMMA OtherQuiet == OtherLeft => Quiet(Left)
<1>. SUFFICES ASSUME OtherLeft, NEW o \in Left PROVE o[1] \notin {"push", "share", "record"}
  BY DEF Quiet
<1>1. todo \in Seq(CallOps)
  BY OtherOps
<1>2. o \in CallOps
  BY <1>1 DEF Left, Elems
<1>. QED
  BY <1>2, CallOpFacts
-----------------------------------------------------------------------------
(* Steps of the main thread keep what covers the jobs.                     *)

\* The main thread only adds to the queues.
Grows ==
  /\ last_finished' = last_finished /\ running' = running
  /\ \A q \in Queue : /\ pushed[q] <= pushed'[q]
                      /\ \A i \in DOMAIN queue[q] : /\ i \in DOMAIN queue'[q]
                                                    /\ queue'[q][i] = queue[q][i]

\* A step keeps a cover: the job it waits for is promised, or just pushed, or
\* the same as before.
KeepsRecord(h, q) == \A m \in Nat : m <= pushed[q] /\ Within(h, q, m) => Within(h, q, m)'
Keeps(x) ==
  \/ Promised(Left, x)'
  \/ Behind(x, pushed[x[3]])'
  \/ ~Promised(Left, x) /\ Ev(x)' = Ev(x) /\ KeepsRecord(x[1], x[3])

\* The positions in a queue.
QueuePlaces ==
  \A q \in Queue :
    /\ last_finished[q] \in Nat /\ pushed[q] \in Nat
    /\ \A i \in DOMAIN queue[q] : /\ i \in Nat /\ 1 <= i /\ queue[q][i] \in TaskSet
                                  /\ last_finished[q] + i \in Nat
                                  /\ last_finished[q] + i <= pushed[q]
                                  /\ last_finished[q] < last_finished[q] + i

\* A queue holds the tasks pushed after the last one finished.
LEMMA Positions == QueueTypes => QueuePlaces
<1>. SUFFICES ASSUME QueueTypes, NEW q \in Queue
              PROVE  /\ last_finished[q] \in Nat /\ pushed[q] \in Nat
                     /\ \A i \in DOMAIN queue[q] :
                          /\ i \in Nat /\ 1 <= i /\ queue[q][i] \in TaskSet
                          /\ last_finished[q] + i \in Nat
                          /\ last_finished[q] + i <= pushed[q]
                          /\ last_finished[q] < last_finished[q] + i
  BY DEF QueuePlaces
<1>1. /\ last_finished[q] \in Nat /\ pushed[q] \in Nat /\ queue[q] \in Seq(TaskSet)
      /\ pushed[q] = last_finished[q] + Len(queue[q])
  BY DEF QueueTypes
<1>2. Len(queue[q]) \in Nat /\ DOMAIN queue[q] = 1 .. Len(queue[q])
      /\ \A i \in DOMAIN queue[q] : queue[q][i] \in TaskSet
  BY <1>1
<1>. QED
  BY <1>1, <1>2, SMT

\* Positions of a stream.
LEMMA RunningPositions ==
  ASSUME QueueTypes, NEW q \in DriverQueue
  PROVE  \A i \in DOMAIN running[q] : i \in Nat /\ 1 <= i /\ running[q][i] \in TaskSet
<1>1. running[q] \in Seq(TaskSet)
  BY DEF QueueTypes
<1>2. Len(running[q]) \in Nat /\ DOMAIN running[q] = 1 .. Len(running[q])
      /\ \A i \in DOMAIN running[q] : running[q][i] \in TaskSet
  BY <1>1
<1>. QED
  BY <1>1, <1>2, SMT

\* A cover that is kept still covers what it covered.
LEMMA CoverKept ==
  ASSUME QueueTypes, QueueTypes', Grows, NEW x \in AllCovers, x[3] \in DriverQueue, Keeps(x)
  PROVE  /\ \A n \in Nat : n <= pushed[x[3]] /\ Covered(x, n) => Covered(x, n)'
         /\ \A i : Ahead(x, i) => Covered(x, 0)' \/ Ahead(x, i)'
<1>. DEFINE q == x[3]
<1>0. /\ q \in Queue /\ last_finished[q] \in Nat /\ pushed[q] \in Nat /\ pushed'[q] \in Nat
      /\ pushed[q] <= pushed'[q] /\ last_finished'[q] = last_finished[q]
      /\ running'[q] = running[q]
      /\ \A i \in DOMAIN queue[q] :
           /\ i \in Nat /\ i \in DOMAIN queue'[q] /\ queue'[q][i] = queue[q][i]
           /\ last_finished[q] + i \in Nat /\ last_finished[q] + i <= pushed[q]
      /\ \A i \in DOMAIN queue'[q] : i \in Nat
  <2>1. q \in Queue
    BY QueuesAre
  <2>2. /\ last_finished[q] \in Nat /\ pushed[q] \in Nat
        /\ \A i \in DOMAIN queue[q] :
             i \in Nat /\ last_finished[q] + i \in Nat /\ last_finished[q] + i <= pushed[q]
    BY <2>1, Positions DEF QueuePlaces
  <2>3. pushed'[q] \in Nat /\ \A i \in DOMAIN queue'[q] : i \in Nat
    <3>1. QueuePlaces'
      BY Positions, PTL
    <3>. QED
      BY <2>1, <3>1 DEF QueuePlaces
  <2>. QED
    BY <2>1, <2>2, <2>3 DEF Grows
<1>1. CASE Promised(Left, x)'
  BY <1>1 DEF Covered
<1>2. CASE Behind(x, pushed[x[3]])'
  <2>1. PICK i \in DOMAIN queue'[q] : pushed'[q] <= last_finished'[q] + i /\ Stands(x, i)'
    BY <1>2 DEF Behind
  <2>2. \A n \in Nat : n <= pushed[q] => n <= last_finished'[q] + i
    BY <1>0, <2>1, SMT
  <2>3. \A n \in Nat : n <= pushed[q] => Behind(x, n)'
    BY <2>1, <2>2 DEF Behind
  <2>4. 0 \in Nat /\ 0 <= pushed[q]
    BY <1>0, SMT
  <2>. QED
    BY <2>3, <2>4 DEF Covered
<1>3. CASE ~Promised(Left, x) /\ Ev(x)' = Ev(x) /\ KeepsRecord(x[1], x[3])
  <2>1. ASSUME NEW n \in Nat, n <= pushed[q], Covered(x, n) PROVE Covered(x, n)'
    <3>1. PICK i \in DOMAIN queue[q] : n <= last_finished[q] + i /\ Stands(x, i)
      BY <1>3, <2>1 DEF Covered, Behind
    <3>2. /\ IsJob(queue[q][i]) /\ queue[q][i].id = Ev(x)
          /\ Within(x[1], q, last_finished[q] + i)
      BY <3>1 DEF Stands
    <3>3. PICK m \in Nat : m <= pushed[q] /\ m = last_finished[q] + i /\ m = last_finished'[q] + i
      BY <1>0
    <3>4. Within(x[1], q, m)'
      <4>1. Within(x[1], q, m)
        BY <3>2, <3>3, Zenon
      <4>. QED
        BY <1>3, <3>3, <4>1 DEF KeepsRecord
    <3>5. i \in DOMAIN queue'[q] /\ queue'[q][i] = queue[q][i] /\ last_finished'[q] = last_finished[q]
      BY <1>0
    <3>6. Stands(x, i)'
      <4>1. IsJob(queue'[q][i]) /\ queue'[q][i].id = Ev(x)'
        BY <1>3, <3>2, <3>5 DEF IsJob
      <4>2. Within(x[1], q, last_finished[q] + i)'
        BY <1>0, <3>3, <3>4 DEF Within
      <4>. QED
        BY <4>1, <4>2 DEF Stands, IsJob
    <3>7. Behind(x, n)'
      BY <3>1, <3>5, <3>6 DEF Behind
    <3>. QED
      BY <3>7 DEF Covered
  <2>2. ASSUME NEW i, Ahead(x, i) PROVE Ahead(x, i)'
    BY <1>0, <1>3, <2>2 DEF Ahead
  <2>. QED
    BY <2>1, <2>2
<1>. QED
  BY <1>1, <1>2, <1>3 DEF Keeps

\* So every job stays covered, when those that are added are.
LEMMA JobsStayCovered ==
  ASSUME TypeInv, QueueTypes', Grows, JobsCovered, JobsAlive,
         \A q \in DriverQueue : \A i \in DOMAIN queue'[q] :
           IsJob(queue[q][i])' /\ i \notin DOMAIN queue[q] =>
             \E x \in Covers(q[1], queue'[q][i].tile) :
               x[3] = q /\ Covered(x, last_finished[q] + i)',
         \A d \in Ctrl, s \in Tiles : (\A x \in Covers(d, s) : Keeps(x)) \/ NoJobs(d, s)
  PROVE  JobsCovered'
<1>0. QueueTypes
  BY DEF TypeInv
<1>1. ASSUME NEW q \in DriverQueue, NEW t, <<q[1], t>> \in records, ~NoJobs(q[1], t)
      PROVE  /\ q[1] \in Ctrl /\ t \in Tiles
             /\ \A x \in Covers(q[1], t) : x \in AllCovers /\ x[3] \in DriverQueue /\ Keeps(x)
  <2>1. q[1] \in Ctrl
    <3>1. PICK c \in Ctrl : q \in {Htd(c), Dth(c), Kernel(c)}
      BY QueuesAre
    <3>. QED
      BY <3>1, SMT DEF Htd, Dth, Kernel
  <2>2. t \in Tiles
    BY <1>1 DEF TypeInv, TileTypes
  <2>. QED
    BY <1>1, <2>1, <2>2, CoverFacts
<1>2. ASSUME NEW q \in DriverQueue, NEW i \in DOMAIN queue'[q], IsJob(queue[q][i])'
      PROVE  \E x \in Covers(q[1], queue'[q][i].tile) :
               x[3] = q /\ Covered(x, last_finished[q] + i)'
  <2>1. CASE i \notin DOMAIN queue[q]
    BY <1>2, <2>1
  <2>2. CASE i \in DOMAIN queue[q]
    <3>0. q \in Queue /\ q # HostQueue
      BY QueuesAre
    <3>1. queue'[q][i] = queue[q][i] /\ last_finished'[q] = last_finished[q]
      BY <2>2, <3>0 DEF Grows
    <3>2. IsJob(queue[q][i])
      BY <1>2, <3>1 DEF IsJob
    <3>3. \E x \in Covers(q[1], queue[q][i].tile) : x[3] = q /\ Covered(x, last_finished[q] + i)
      BY <2>2, <3>2 DEF JobsCovered
    <3>7. last_finished[q] + i \in Nat /\ last_finished[q] + i <= pushed[q]
      BY <1>0, <2>2, <3>0, Positions DEF QueuePlaces
    <3>14. PICK n \in Nat : n = last_finished[q] + i
      BY <3>7
    <3>15. PICK t : t = queue[q][i].tile
      OBVIOUS
    <3>12. n = last_finished[q] + i /\ t = queue[q][i].tile
      BY <3>14, <3>15
    <3>13. PICK x \in Covers(q[1], t) : x[3] = q /\ Covered(x, n)
      BY <3>3, <3>12, Zenon
    <3>4. <<q[1], t>> \in records
      <4>1. q[1] # Host
        <5>1. PICK c \in Ctrl : q \in {Htd(c), Dth(c), Kernel(c)}
          BY QueuesAre
        <5>2. q[1] = c
          BY <5>1, SMT DEF Htd, Dth, Kernel
        <5>. QED
          BY <5>2, Names
      <4>. QED
        BY <2>2, <3>0, <3>2, <3>12, <4>1 DEF JobsAlive, Alive
    <3>5. ~NoJobs(q[1], t)
      BY <2>2, <3>2, <3>12 DEF NoJobs
    <3>6. x \in AllCovers /\ x[3] \in DriverQueue /\ Keeps(x)
      BY <1>1, <3>4, <3>5
    <3>8. Covered(x, n)'
      <4>1. n <= pushed[x[3]]
        BY <3>7, <3>12, <3>13
      <4>. QED
        BY <1>0, <3>6, <3>13, <4>1, CoverKept
    <3>9. queue'[q][i].tile = t /\ n = last_finished'[q] + i
      BY <3>1, <3>12
    <3>11. Covered(x, last_finished[q] + i)'
      BY <3>8, <3>9, Zenon DEF Covered, Behind
    <3>. QED
      BY <3>9, <3>11, <3>13
  <2>. QED
    BY <2>1, <2>2
<1>3. ASSUME NEW q \in DriverQueue, NEW i \in DOMAIN running'[q]
      PROVE  \E x \in Covers(q[1], running'[q][i].tile) :
               x[3] = q /\ (Covered(x, 0)' \/ Ahead(x, i)')
  <2>1. running'[q] = running[q]
    BY DEF Grows
  <2>. DEFINE t == running[q][i].tile
  <2>2. PICK x \in Covers(q[1], t) : x[3] = q /\ (Covered(x, 0) \/ Ahead(x, i))
    BY <2>1 DEF JobsCovered
  <2>3. <<q[1], t>> \in records
    <3>1. q[1] # Host
      <4>1. PICK c \in Ctrl : q \in {Htd(c), Dth(c), Kernel(c)}
        BY QueuesAre
      <4>2. q[1] = c
        BY <4>1, SMT DEF Htd, Dth, Kernel
      <4>. QED
        BY <4>2, Names
    <3>. QED
      BY <2>1, <3>1 DEF JobsAlive, Alive
  <2>4. ~NoJobs(q[1], t)
    BY <2>1 DEF NoJobs
  <2>5. x \in AllCovers /\ x[3] \in DriverQueue /\ Keeps(x)
    BY <1>1, <2>3, <2>4
  <2>6. 0 \in Nat /\ 0 <= pushed[q]
    <3>1. q \in Queue
      BY QueuesAre
    <3>2. pushed[q] \in Nat
      BY <1>0, <3>1, Positions DEF QueuePlaces
    <3>. QED
      BY <3>2, SMT
  <2>. HIDE DEF t
  <2>7. Covered(x, 0)' \/ Ahead(x, i)'
    BY <1>0, <2>2, <2>5, <2>6, CoverKept
  <2>8. running'[q][i].tile = t
    BY <2>1 DEF t
  <2>. QED
    BY <2>2, <2>7, <2>8
<1>. QED
  BY <1>2, <1>3 DEF JobsCovered

\* So do the host tasks.
LEMMA HostTasksStayCovered ==
  ASSUME TypeInv, QueueTypes', Grows, HostCovered, JobsAlive,
         \A i \in DOMAIN queue'[HostQueue] :
           IsJob(queue[HostQueue][i])' /\ i \notin DOMAIN queue[HostQueue] =>
             \E h \in HostSlots(queue'[HostQueue][i].tile) :
               Within(h, HostQueue, last_finished[HostQueue] + i)',
         \A s \in Tiles : (\A h \in HostSlots(s) : KeepsRecord(h, HostQueue)) \/ NoHostJobs(s)
  PROVE  HostCovered'
<1>. DEFINE q == HostQueue
<1>0. QueueTypes /\ q \in Queue /\ q[1] = Host
  BY QueuesAre DEF TypeInv, HostQueue
<1>1. SUFFICES ASSUME NEW i \in DOMAIN queue'[q], IsJob(queue[q][i])', i \in DOMAIN queue[q]
               PROVE  \E h \in HostSlots(queue'[q][i].tile) : Within(h, q, last_finished[q] + i)'
  BY DEF HostCovered
<1>2. queue'[q][i] = queue[q][i] /\ last_finished'[q] = last_finished[q]
  BY <1>0, <1>1 DEF Grows
<1>3. IsJob(queue[q][i])
  BY <1>1, <1>2 DEF IsJob
<1>7. last_finished[q] + i \in Nat /\ last_finished[q] + i <= pushed[q]
  BY <1>0, <1>1, Positions DEF QueuePlaces
<1>12. PICK n \in Nat : n = last_finished[q] + i
  BY <1>7
<1>13. PICK t : t = queue[q][i].tile
  OBVIOUS
<1>11. n = last_finished[q] + i /\ t = queue[q][i].tile
  BY <1>12, <1>13
<1>. HIDE DEF q
<1>4. PICK h \in HostSlots(t) : Within(h, q, n)
  <2>1. \E h \in HostSlots(queue[q][i].tile) : Within(h, q, last_finished[q] + i)
    BY <1>1, <1>3 DEF HostCovered, q
  <2>. QED
    BY <1>11, <2>1, Zenon
<1>5. t \in Tiles
  <2>1. Alive(q[1], t)
    BY <1>0, <1>1, <1>3, <1>11 DEF JobsAlive
  <2>2. Live(t)
    BY <1>0, <2>1 DEF Alive
  <2>. QED
    BY <2>2 DEF Live, TypeInv, TileTypes
<1>6. ~NoHostJobs(t)
  BY <1>1, <1>3, <1>11 DEF NoHostJobs, q
<1>8. Within(h, q, n)'
  <2>1. KeepsRecord(h, q)
    BY <1>4, <1>5, <1>6 DEF q
  <2>2. n <= pushed[q]
    BY <1>7, <1>11
  <2>. QED
    BY <1>4, <2>1, <2>2 DEF KeepsRecord
<1>9. n = last_finished'[q] + i /\ queue'[q][i].tile = t
  BY <1>2, <1>11
<1>10. Within(h, q, last_finished[q] + i)'
  BY <1>8, <1>9, Zenon DEF Within
<1>. QED
  BY <1>4, <1>9, <1>10
-----------------------------------------------------------------------------
(* The operations of a job.                                                *)

\* What the first operation has to do with a cover.
LEMMA HeadCovers ==
  ASSUME NEW o, NEW S, NEW x
  PROVE  /\ o[1] # "share" => (Sharing({o} \cup S, x) <=> Sharing(S, x))
         /\ o[1] # "record" => \A h, q : <<"record", h, q>> \in {o} \cup S
                                          <=> <<"record", h, q>> \in S
         /\ o[1] \notin {"push", "share", "record"} => (Promised({o} \cup S, x) <=> Promised(S, x))
         /\ o[1] \in {"share", "record"} /\ NoPushIn(S) => ~Promised({o} \cup S, x)
<1>1. \A h, q : <<"record", h, q>>[1] = "record" /\ <<"share", h, q>>[1] = "share"
  OBVIOUS
<1>2. o[1] # "share" => (Sharing({o} \cup S, x) <=> Sharing(S, x))
  BY <1>1 DEF Sharing
<1>3. o[1] # "record" => \A h, q : <<"record", h, q>> \in {o} \cup S
                                     <=> <<"record", h, q>> \in S
  BY <1>1
<1>4. o[1] # "push" => (Pushing({o} \cup S, x) => \E p \in S : p[1] = "push")
  BY DEF Pushing
<1>5. ASSUME o[1] \notin {"push", "share", "record"}
      PROVE  Promised({o} \cup S, x) <=> Promised(S, x)
  <2>1. Sharing({o} \cup S, x) <=> Sharing(S, x)
    BY <1>2, <1>5
  <2>2. Recording({o} \cup S, x) <=> Recording(S, x)
    BY <1>3, <1>5 DEF Recording
  <2>3. Pushing({o} \cup S, x) <=> Pushing(S, x)
    <3>1. \A p \in {o} \cup S : p[1] = "push" => p \in S
      BY <1>5
    <3>. HIDE DEF Sharing
    <3>. QED
      BY <2>1, <3>1 DEF Pushing
  <2>. QED
    BY <2>2, <2>3 DEF Promised
<1>6. ASSUME o[1] \in {"share", "record"}, NoPushIn(S) PROVE ~Promised({o} \cup S, x)
  BY <1>4, <1>6 DEF Promised, NoPushIn
<1>. QED
  BY <1>2, <1>3, <1>5, <1>6

\* Recorded events of a cover, and of the host, keep their queue.
RecordsKeep ==
  /\ \A x \in AllCovers : KeepsRecord(x[1], x[3])
  /\ \A s \in Tiles : \A h \in HostSlots(s) : KeepsRecord(h, HostQueue)

\* Nothing is recorded.
LEMMA NotRecorded ==
  ASSUME NEW o, NEW S, Left = {o} \cup S, Left' = S, o[1] # "record", recorded' = recorded
  PROVE  RecordsKeep
<1>1. \A h, q : <<"record", h, q>> \in Left <=> <<"record", h, q>> \in Left'
  BY HeadCovers
<1>2. \A h, q : KeepsRecord(h, q)
  BY <1>1 DEF KeepsRecord, Within
<1>. QED
  BY <1>2 DEF RecordsKeep

\* An event is recorded on the queue it is always recorded on.
LEMMA RecordKeeps ==
  ASSUME TypeInv, NEW c, NEW t, NEW o, NEW S, Left = {o} \cup S, Left' = S, Ok(c, t, o, S),
         o[1] = "record", o[2] \in CpuSlot, o[3] \in Queue, slot' = slot,
         recorded' = [recorded EXCEPT ![o[2]] = <<o[3], pushed[o[3]]>>]
  PROVE  (\A x \in AllCovers : Keeps(x)) /\ RecordsKeep
<1>1. ASSUME NEW h \in CpuSlot, NEW q, o[2] = h => o[3] = q PROVE KeepsRecord(h, q)
  <2>. SUFFICES ASSUME NEW m \in Nat, m <= pushed[q], Within(h, q, m) PROVE Within(h, q, m)'
    BY DEF KeepsRecord
  <2>1. CASE o[2] = h
    <3>1. recorded'[h] = <<q, pushed[q]>>
      BY <1>1, <2>1 DEF TypeInv
    <3>. QED
      BY <3>1 DEF Within
  <2>2. CASE o[2] # h
    <3>1. recorded'[h] = recorded[h]
      BY <1>1, <2>2 DEF TypeInv
    <3>2. <<"record", h, q>> \in {o} \cup S => <<"record", h, q>> \in S
      <4>1. <<"record", h, q>>[2] = h
        OBVIOUS
      <4>. QED
        BY <2>2, <4>1
    <3>. QED
      BY <3>1, <3>2 DEF Within
  <2>. QED
    BY <2>1, <2>2
<1>2. /\ NoPushIn(S)
      /\ \A x \in AllCovers : o[2] = x[1] => o[3] = x[3]
      /\ \A s \in Tiles : o[2] \in HostSlots(s) => o[3] = HostQueue
  BY DEF Ok, NoPushIn
<1>3. ASSUME NEW x \in AllCovers PROVE Keeps(x) /\ KeepsRecord(x[1], x[3])
  <2>1. x[1] \in CpuSlot
    BY CoverOf, CoverFacts
  <2>2. KeepsRecord(x[1], x[3])
    BY <1>1, <1>2, <2>1
  <2>3. ~Promised(Left, x) /\ (Sharing(Left, x) <=> Sharing(S, x))
    BY <1>2, HeadCovers
  <2>4. Ev(x)' = Ev(x)
    BY <2>3 DEF Ev, Sharing
  <2>. QED
    BY <2>2, <2>3, <2>4 DEF Keeps
<1>4. ASSUME NEW s \in Tiles, NEW h \in HostSlots(s) PROVE KeepsRecord(h, HostQueue)
  <2>1. h \in CpuSlot
    BY SlotKinds
  <2>. QED
    BY <1>1, <1>2, <2>1
<1>. QED
  BY <1>3, <1>4 DEF RecordsKeep

\* The event of the launch is shared with a slot.
LEMMA ShareKeeps ==
  ASSUME TypeInv, NEW c, NEW t, NEW o, NEW S, Left = {o} \cup S, Left' = S, Ok(c, t, o, S),
         o[1] = "share", o[2] \in Slot \ {KernelEvent}, o[3] \in Slot,
         slot' = [slot EXCEPT ![o[2]] = slot[o[3]]], recorded' = recorded, o \in JobOps
  PROVE  (\A x \in AllCovers : Keeps(x)) /\ RecordsKeep
<1>1. RecordsKeep
  BY NotRecorded
<1>2. NoPushIn(S) /\ \A x \in AllCovers : o[2] = x[2] => o[3] = KernelEvent
  BY DEF Ok, NoPushIn
<1>3. slot'[KernelEvent] = slot[KernelEvent] /\ slot'[o[2]] = slot[o[3]]
      /\ \A s \in Slot : s # o[2] => slot'[s] = slot[s]
  BY SlotKinds DEF TypeInv
<1>4. o = <<"share", o[2], o[3]>>
  <2>1. \A a \in JobOps : a[1] = "share" => a \in {"share"} \X (Slot \ {KernelEvent}) \X Slot
    <3>1. \A a \in JobOps : \/ a \in Waits \/ a \in {"retain"} \X Slot \/ a \in Pushes
                            \/ a \in Changes \/ a \in Shares \/ a \in Records
                            \/ a \in {"synchronize"} \X Queue
      BY DEF JobOps
    <3>2. \A a : /\ a \in Waits => a[1] = "streamwait"
                 /\ a \in {"retain"} \X Slot => a[1] = "retain"
                 /\ a \in Pushes => a[1] = "push"
                 /\ a \in Changes => a[1] \in {"release", "create"}
                 /\ a \in Records => a[1] = "record"
                 /\ a \in {"synchronize"} \X Queue => a[1] = "synchronize"
      BY DEF Waits, Pushes, Changes, Records
    <3>. QED
      BY <3>1, <3>2 DEF Shares
  <2>2. o \in {"share"} \X (Slot \ {KernelEvent}) \X Slot
    BY <2>1
  <2>. QED
    BY <2>2
<1>5. ASSUME NEW x \in AllCovers PROVE Keeps(x)
  <2>1. x[2] \in Slot
    BY CoverOf, CoverFacts
  <2>2. ~Promised(Left, x)
    BY <1>2, HeadCovers
  <2>3. CASE o[2] = x[2]
    <3>1. o[3] = KernelEvent
      BY <1>2, <2>3
    <3>2. Sharing(Left, x)
      BY <1>4, <2>3, <3>1 DEF Sharing
    <3>3. slot'[x[2]] = slot[KernelEvent] /\ slot'[KernelEvent] = slot[KernelEvent]
      BY <1>3, <2>3, <3>1
    <3>4. Ev(x)' = Ev(x)
      BY <3>2, <3>3 DEF Ev
    <3>. QED
      BY <1>1, <2>2, <3>4 DEF Keeps, RecordsKeep
  <2>4. CASE o[2] # x[2]
    <3>1. Sharing(Left, x) <=> Sharing(S, x)
      <4>1. <<"share", x[2], KernelEvent>>[2] = x[2]
        OBVIOUS
      <4>. QED
        BY <2>4, <4>1 DEF Sharing
    <3>2. slot'[x[2]] = slot[x[2]] /\ slot'[KernelEvent] = slot[KernelEvent]
      BY <1>3, <2>1, <2>4
    <3>3. Ev(x)' = Ev(x)
      BY <3>1, <3>2 DEF Ev, Sharing
    <3>. QED
      BY <1>1, <2>2, <3>3 DEF Keeps, RecordsKeep
  <2>. QED
    BY <2>3, <2>4
<1>. QED
  BY <1>1, <1>5

\* A slot is emptied, or filled with a new event.
LEMMA ChangeKeeps ==
  ASSUME TypeInv, NEW c, NEW t, NEW o, NEW S, Left = {o} \cup S, Left' = S, Ok(c, t, o, S),
         o[1] \in {"release", "create"}, NEW s \in Slot, o[2] = {s}, recorded' = recorded,
         \A d \in Slot : d # s => slot'[d] = slot[d],
         s = KernelEvent => o = <<"release", {KernelEvent}>> \/ o = <<"create", {KernelEvent}>>
  PROVE  (\A x \in AllCovers : Keeps(x)) /\ RecordsKeep
<1>1. RecordsKeep
  BY NotRecorded
<1>2. KernelEvent \in Slot
  BY SlotKinds
<1>3. ASSUME NEW x \in AllCovers PROVE Keeps(x)
  <2>1. x[2] \in Slot /\ x[2] # KernelEvent
    BY CoverOf, CoverFacts
  <2>2. (Promised(Left, x) <=> Promised(S, x)) /\ (Sharing(Left, x) <=> Sharing(S, x))
    BY HeadCovers
  <2>3. CASE Promised(S, x)
    BY <2>3 DEF Keeps, Promised, Pushing, Recording, Sharing
  <2>4. CASE ~Promised(S, x)
    <3>1. s = x[2] => Sharing(S, x)
      <4>1. s = x[2] => o[2] = {x[2]}
        OBVIOUS
      <4>2. o[2] = {x[2]} => Sharing(S, x) \/ Promised(S, x)
        BY DEF Ok
      <4>. QED
        BY <2>4, <4>1, <4>2
    <3>2. s = KernelEvent => ~Sharing(S, x)
      <4>1. /\ o = <<"release", {KernelEvent}>> => ~Sharing(S, x)
            /\ o = <<"create", {KernelEvent}>> => (Sharing(S, x) => Promised(S, x))
        BY DEF Ok
      <4>. QED
        BY <2>4, <4>1
    <3>3. IF Sharing(S, x) THEN slot'[KernelEvent] = slot[KernelEvent]
                           ELSE slot'[x[2]] = slot[x[2]]
      BY <1>2, <2>1, <3>1, <3>2
    <3>4. Ev(x)' = Ev(x)
      BY <2>2, <3>3 DEF Ev, Sharing
    <3>. QED
      BY <1>1, <2>2, <2>4, <3>4 DEF Keeps, RecordsKeep
  <2>. QED
    BY <2>3, <2>4
<1>. QED
  BY <1>1, <1>3

\* Other operations leave the slots alone.
LEMMA PlainKeeps ==
  ASSUME NEW o, NEW S, Left = {o} \cup S, Left' = S,
         o[1] \notin {"push", "share", "record"}, UNCHANGED slotVars
  PROVE  (\A x \in AllCovers : Keeps(x)) /\ RecordsKeep
<1>0. slot' = slot /\ recorded' = recorded
  BY DEF slotVars
<1>1. RecordsKeep
  BY <1>0, NotRecorded
<1>2. ASSUME NEW x \in AllCovers PROVE Keeps(x)
  <2>1. (Promised(Left, x) <=> Promised(S, x)) /\ (Sharing(Left, x) <=> Sharing(S, x))
    BY HeadCovers
  <2>2. CASE Promised(S, x)
    BY <2>2 DEF Keeps, Promised, Pushing, Recording, Sharing
  <2>3. CASE ~Promised(S, x)
    <3>1. Ev(x)' = Ev(x)
      BY <1>0, <2>1 DEF Ev, Sharing
    <3>. QED
      BY <1>1, <2>1, <2>3, <3>1 DEF Keeps, RecordsKeep
  <2>. QED
    BY <2>2, <2>3
<1>. QED
  BY <1>1, <1>2

\* The task that is pushed is the last of its queue.
LEMMA PushGrows ==
  ASSUME QueueTypes, NEW q \in Queue, NEW task \in TaskSet, PushOn(q, task), running' = running
  PROVE  /\ Grows
         /\ \A p \in Queue : \A i \in DOMAIN queue'[p] :
              i \notin DOMAIN queue[p] =>
                p = q /\ queue'[p][i] = task /\ pushed'[p] = last_finished'[p] + i
         /\ \E i \in DOMAIN queue'[q] :
              queue'[q][i] = task /\ pushed'[q] = last_finished'[q] + i
<1>1. /\ \A p \in Queue : queue[p] \in Seq(TaskSet) /\ pushed[p] \in Nat /\ last_finished[p] \in Nat
                          /\ pushed[p] = last_finished[p] + Len(queue[p])
      /\ queue' = [queue EXCEPT ![q] = Append(queue[q], task)]
      /\ pushed' = [pushed EXCEPT ![q] = pushed[q] + 1]
      /\ last_finished' = last_finished
  BY DEF QueueTypes, PushOn
<1>2. /\ queue'[q] = Append(queue[q], task) /\ pushed'[q] = pushed[q] + 1
      /\ \A p \in Queue : p # q => queue'[p] = queue[p] /\ pushed'[p] = pushed[p]
  BY <1>1 DEF QueueTypes
<1>. DEFINE n == Len(queue[q])
<1>3. /\ n \in Nat /\ DOMAIN queue[q] = 1 .. n /\ DOMAIN queue'[q] = 1 .. n + 1
      /\ \A i \in 1 .. n : queue'[q][i] = queue[q][i]
      /\ queue'[q][n + 1] = task
  BY <1>1, <1>2, Appended
<1>4. pushed[q] = last_finished[q] + n /\ last_finished[q] \in Nat
  BY <1>1
<1>. HIDE DEF n
<1>5. /\ n + 1 \in 1 .. n + 1 /\ \A i \in 1 .. n : i \in 1 .. n + 1
      /\ \A i \in 1 .. n + 1 : i \notin 1 .. n => i = n + 1
      /\ pushed[q] + 1 = last_finished[q] + (n + 1)
  <2>1. n \in Nat
    BY <1>3
  <2>2. /\ n + 1 \in 1 .. n + 1 /\ \A i \in 1 .. n : i \in 1 .. n + 1
        /\ \A i \in 1 .. n + 1 : i \notin 1 .. n => i = n + 1
    BY ONLY <2>1, SMT
  <2>3. \A a, b \in Nat : b = a + n => b + 1 = a + (n + 1)
    BY ONLY <2>1, SMT
  <2>4. pushed[q] \in Nat
    BY <1>1
  <2>. QED
    BY <1>4, <2>2, <2>3, <2>4
<1>6. Grows
  <2>1. \A p \in Queue : pushed[p] <= pushed'[p]
    <3>. TAKE p \in Queue
    <3>1. pushed[p] \in Nat /\ (pushed'[p] = pushed[p] \/ pushed'[p] = pushed[p] + 1)
      BY <1>1, <1>2
    <3>. QED
      BY <3>1, SMT
  <2>2. \A p \in Queue : \A i \in DOMAIN queue[p] : i \in DOMAIN queue'[p] /\ queue'[p][i] = queue[p][i]
    BY <1>2, <1>3, <1>5
  <2>. QED
    BY <1>1, <2>1, <2>2 DEF Grows
<1>7. \A p \in Queue : \A i \in DOMAIN queue'[p] :
        i \notin DOMAIN queue[p] =>
          p = q /\ queue'[p][i] = task /\ pushed'[p] = last_finished'[p] + i
  BY <1>1, <1>2, <1>3, <1>5
<1>8. \E i \in DOMAIN queue'[q] : queue'[q][i] = task /\ pushed'[q] = last_finished'[q] + i
  BY <1>1, <1>2, <1>3, <1>5
<1>. QED
  BY <1>6, <1>7, <1>8

\* A job is pushed: the cover it was promised to waits for it.
LEMMA PushKeeps ==
  ASSUME TypeInv, TypeInv', NEW c \in Ctrl \cup {Host}, NEW t \in Tiles, NEW o, NEW S,
         Left = {o} \cup S, Left' = S, Ok(c, t, o, S), o[1] = "push",
         o[2] \in Queue, o[3] \in Kinds, o[4] \in Slot, o[5] \in Tiles,
         PushOn(o[2], Task(o[3], o[4], o[5])), UNCHANGED slotVars, running' = running
  PROVE  /\ Grows /\ RecordsKeep
         /\ \A x \in AllCovers : Keeps(x)
         /\ \A q \in DriverQueue : \A i \in DOMAIN queue'[q] :
              i \notin DOMAIN queue[q] =>
                \E x \in Covers(q[1], queue'[q][i].tile) :
                  x[3] = q /\ Covered(x, last_finished[q] + i)'
         /\ \A i \in DOMAIN queue'[HostQueue] :
              i \notin DOMAIN queue[HostQueue] =>
                \E h \in HostSlots(queue'[HostQueue][i].tile) :
                  Within(h, HostQueue, last_finished[HostQueue] + i)'
         /\ \A q \in Queue : \A i \in DOMAIN queue'[q] :
              i \notin DOMAIN queue[q] => /\ q[1] = c /\ queue'[q][i].tile = t
                                          /\ queue'[q][i].kind = "hosttask" <=> q = HostQueue
<1>. DEFINE q == o[2]
            task == Task(o[3], o[4], o[5])
<1>0. slot' = slot /\ recorded' = recorded /\ QueueTypes
  BY DEF slotVars, TypeInv
<1>1. RecordsKeep
  BY <1>0, NotRecorded
<1>2. task \in TaskSet /\ task.kind = o[3] /\ task.tile = o[5]
      /\ (o[3] # "hosttask" => task.id = slot[o[4]])
  <2>1. o[5] \in Tiles \cup {NoTile} /\ o[3] \in Kinds \cup {"wait"}
    OBVIOUS
  <2>. QED
    BY <2>1, TaskTypes DEF Task
<1>3. IsJob(task)
  BY <1>2 DEF IsJob, Kinds
<1>4. /\ q[1] = c /\ o[5] = t
      /\ IF c = Host
         THEN /\ q = HostQueue /\ o[3] = "hosttask"
              /\ \E h \in HostSlots(t) : <<"record", h, HostQueue>> \in S
         ELSE /\ o[3] # "hosttask"
              /\ \E x \in Covers(c, t) :
                   /\ x[3] = q /\ Recording(S, x)
                   /\ o[4] = x[2] \/ (o[4] = KernelEvent /\ Sharing(S, x))
              /\ \A x \in AllCovers : o[4] = x[2] => ~Sharing(S, x)
  BY DEF Ok
<1>. HIDE DEF task, q
<1>5. PushOn(q, task) /\ q \in Queue
  BY DEF q, task
<1>6. /\ Grows
      /\ \A p \in Queue : \A i \in DOMAIN queue'[p] :
           i \notin DOMAIN queue[p] =>
             p = q /\ queue'[p][i] = task /\ pushed'[p] = last_finished'[p] + i
      /\ \E i \in DOMAIN queue'[q] :
           queue'[q][i] = task /\ pushed'[q] = last_finished'[q] + i
  BY <1>0, <1>2, <1>5, PushGrows
<1>7. /\ \A p \in Queue : pushed'[p] \in Nat
      /\ \A p \in Queue : \A i \in DOMAIN queue'[p] : last_finished'[p] + i \in Nat
  <2>1. QueueTypes'
    BY DEF TypeInv
  <2>2. QueuePlaces'
    BY <2>1, Positions, PTL
  <2>. QED
    BY <2>2 DEF QueuePlaces
<1>8. c = Host \/ (c \in Ctrl /\ c # Host)
  BY Names
<1>9. ASSUME NEW x \in AllCovers, x[3] = q, Recording(S, x), c # Host,
             o[4] = x[2] \/ (o[4] = KernelEvent /\ Sharing(S, x))
      PROVE  Behind(x, pushed[x[3]])'
  <2>1. PICK i \in DOMAIN queue'[q] : queue'[q][i] = task /\ pushed'[q] = last_finished'[q] + i
    BY <1>6
  <2>2. task.id = slot[o[4]]
    BY <1>2, <1>4, <1>9
  <2>3. Ev(x)' = slot[o[4]]
    <3>1. x[2] # KernelEvent
      BY CoverOf, CoverFacts
    <3>2. CASE o[4] = x[2]
      <4>1. ~Sharing(S, x)
        BY <1>4, <1>9, <3>2
      <4>. QED
        BY <1>0, <3>2, <4>1 DEF Ev, Sharing
    <3>3. CASE o[4] = KernelEvent /\ Sharing(S, x)
      BY <1>0, <3>3 DEF Ev, Sharing
    <3>. QED
      BY <1>9, <3>2, <3>3
  <2>4. <<"record", x[1], q>> \in Left'
    BY <1>9 DEF Recording
  <2>5. Stands(x, i)'
    <3>1. IsJob(queue'[q][i]) /\ queue'[q][i].id = Ev(x)'
      BY <1>3, <2>1, <2>2, <2>3
    <3>2. Within(x[1], q, last_finished[q] + i)'
      BY <2>4 DEF Within
    <3>. QED
      BY <1>9, <3>1, <3>2 DEF Stands, IsJob
  <2>6. pushed'[q] <= last_finished'[q] + i
    <3>1. pushed'[q] \in Nat
      BY <1>5, <1>7
    <3>. QED
      BY <2>1, <3>1, SMT
  <2>. QED
    BY <1>9, <2>1, <2>5, <2>6 DEF Behind
<1>10. ASSUME NEW x \in AllCovers PROVE Keeps(x)
  <2>1. (Sharing(Left, x) <=> Sharing(S, x)) /\ (Recording(Left, x) <=> Recording(S, x))
    BY HeadCovers DEF Recording
  <2>2. CASE Promised(S, x)
    BY <2>2 DEF Keeps, Promised, Pushing, Recording, Sharing
  <2>3. CASE ~Promised(S, x) /\ Promised(Left, x)
    <3>1. Recording(S, x) /\ Pushing(Left, x) /\ ~Pushing(S, x)
      BY <2>1, <2>3 DEF Promised
    <3>2. x[3] = q /\ (o[4] = x[2] \/ (o[4] = KernelEvent /\ Sharing(S, x)))
      <4>. HIDE DEF Sharing
      <4>. QED
        BY <2>1, <3>1 DEF Pushing, q
    <3>3. c # Host
      <4>1. x[3] # HostQueue
        BY CoverOf, CoverFacts
      <4>. QED
        BY <1>4, <3>2, <4>1
    <3>. QED
      BY <1>9, <3>1, <3>2, <3>3 DEF Keeps
  <2>4. CASE ~Promised(Left, x)
    <3>1. Ev(x)' = Ev(x)
      BY <1>0, <2>1 DEF Ev, Sharing
    <3>. QED
      BY <1>1, <2>4, <3>1 DEF Keeps, RecordsKeep
  <2>. QED
    BY <2>2, <2>3, <2>4
<1>11. ASSUME NEW p \in DriverQueue, NEW i \in DOMAIN queue'[p], i \notin DOMAIN queue[p]
       PROVE  \E x \in Covers(p[1], queue'[p][i].tile) :
                x[3] = p /\ Covered(x, last_finished[p] + i)'
  <2>1. p \in Queue /\ p # HostQueue
    BY QueuesAre
  <2>2. p = q /\ queue'[p][i] = task /\ pushed'[p] = last_finished'[p] + i
    BY <1>6, <1>11, <2>1
  <2>3. c # Host
    BY <1>4, <2>1, <2>2
  <2>4. PICK x \in Covers(c, t) : /\ x[3] = q /\ Recording(S, x)
                                  /\ o[4] = x[2] \/ (o[4] = KernelEvent /\ Sharing(S, x))
    BY <1>4, <2>3
  <2>5. x \in AllCovers
    BY <1>8, <2>3, CoverFacts
  <2>6. Behind(x, pushed[x[3]])'
    BY <1>9, <2>3, <2>4, <2>5
  <2>7. Covered(x, last_finished[p] + i)'
    <3>1. Behind(x, last_finished[p] + i)'
      BY <2>2, <2>4, <2>6 DEF Behind
    <3>. QED
      BY <3>1 DEF Covered
  <2>8. p[1] = c /\ queue'[p][i].tile = t
    BY <1>2, <1>4, <2>2
  <2>. QED
    BY <2>2, <2>4, <2>7, <2>8
<1>12. ASSUME NEW i \in DOMAIN queue'[HostQueue], i \notin DOMAIN queue[HostQueue]
       PROVE  \E h \in HostSlots(queue'[HostQueue][i].tile) :
                Within(h, HostQueue, last_finished[HostQueue] + i)'
  <2>1. HostQueue = q /\ queue'[HostQueue][i] = task
    BY <1>6, <1>12, QueuesAre
  <2>2. c = Host
    BY <1>4, <2>1 DEF HostQueue
  <2>3. PICK h \in HostSlots(t) : <<"record", h, HostQueue>> \in S
    BY <1>4, <2>2
  <2>4. Within(h, HostQueue, last_finished[HostQueue] + i)'
    BY <2>3 DEF Within
  <2>. QED
    BY <1>2, <1>4, <2>1, <2>3, <2>4
<1>13. ASSUME NEW p \in Queue, NEW i \in DOMAIN queue'[p], i \notin DOMAIN queue[p]
       PROVE  /\ p[1] = c /\ queue'[p][i].tile = t
              /\ queue'[p][i].kind = "hosttask" <=> p = HostQueue
  <2>1. p = q /\ queue'[p][i] = task
    BY <1>6, <1>13
  <2>2. HostQueue[1] = Host
    BY DEF HostQueue
  <2>. QED
    BY <1>2, <1>4, <2>1, <2>2
<1>. QED
  BY <1>1, <1>6, <1>10, <1>11, <1>12, <1>13
-----------------------------------------------------------------------------
(* A step of a job.                                                        *)

\* What is pushed is a job of the call, and covered.
Added(c, t) ==
  /\ \A q \in DriverQueue : \A i \in DOMAIN queue'[q] :
       IsJob(queue[q][i])' /\ i \notin DOMAIN queue[q] =>
         \E x \in Covers(q[1], queue'[q][i].tile) :
           x[3] = q /\ Covered(x, last_finished[q] + i)'
  /\ \A i \in DOMAIN queue'[HostQueue] :
       IsJob(queue[HostQueue][i])' /\ i \notin DOMAIN queue[HostQueue] =>
         \E h \in HostSlots(queue'[HostQueue][i].tile) :
           Within(h, HostQueue, last_finished[HostQueue] + i)'
  /\ \A q \in Queue : \A i \in DOMAIN queue'[q] :
       IsJob(queue[q][i])' /\ i \notin DOMAIN queue[q] =>
         /\ q[1] = c /\ queue'[q][i].tile = t
         /\ queue'[q][i].kind = "hosttask" <=> q = HostQueue

\* Nothing is pushed.
LEMMA StillGrows ==
  ASSUME QueueTypes, UNCHANGED queueVars, running' = running, NEW c, NEW t
  PROVE  Grows /\ Added(c, t)
<1>1. queue' = queue /\ pushed' = pushed /\ last_finished' = last_finished
  BY DEF queueVars
<1>2. \A q \in Queue : pushed[q] \in Nat
  BY DEF QueueTypes
<1>3. \A q \in Queue : pushed[q] <= pushed'[q]
  <2>. TAKE q \in Queue
  <2>1. pushed[q] \in Nat /\ pushed'[q] = pushed[q]
    BY <1>1, <1>2
  <2>. QED
    BY <2>1, SMT
<1>4. \A q \in DriverQueue : q \in Queue
  BY QueuesAre
<1>. QED
  BY <1>1, <1>3, <1>4, Zenon DEF Grows, Added

\* Covers, records and queues in one operation of a job.
LEMMA JobOperation ==
  ASSUME TypeInv, TypeInv', RecordsInv, TodoForm, MainStep,
         NEW c \in Ctrl \cup {Host}, NEW t \in Tiles, NEW o, NEW S, o = Head(todo), o \in JobOps,
         Left = {o} \cup S, Left' = S, Ok(c, t, o, S)
  PROVE  /\ Grows /\ RecordsKeep /\ Added(c, t)
         /\ \A x \in AllCovers : Keeps(x)
         /\ UNCHANGED tileVars
<1>0. QueueTypes /\ QueueTypes' /\ slot \in [Slot -> Ids] /\ recorded \in [CpuSlot -> Queue \X Nat]
  BY DEF TypeInv
<1>1. todo # <<>> /\ OpOK
  BY NextAction, HeadFacts
<1>2. CASE o[1] = "push"
  <2>1. PushTask
    BY <1>2, NextAction
  <2>2. /\ PushOn(o[2], Task(o[3], o[4], o[5])) /\ UNCHANGED slotVars /\ running' = running
        /\ UNCHANGED tileVars
    BY <2>1 DEF PushTask
  <2>3. o[2] \in Queue /\ o[3] \in Kinds /\ o[4] \in Slot /\ o[5] \in Tiles
    BY <1>2, JobOpFacts
  <2>4. /\ Grows /\ RecordsKeep /\ \A x \in AllCovers : Keeps(x)
        /\ Added(c, t)
    BY <1>2, <2>2, <2>3, PushKeeps DEF Added
  <2>. QED
    BY <2>2, <2>4
<1>3. CASE o[1] = "streamwait"
  <2>1. PushWait
    BY <1>3, NextAction
  <2>. DEFINE task == Task("wait", o[3], NoTile)
  <2>2. PushOn(o[2], task) /\ UNCHANGED slotVars /\ running' = running /\ UNCHANGED tileVars
    BY <2>1 DEF PushWait
  <2>3. o[2] \in Queue /\ o[3] \in Slot
    BY <1>3, JobOpFacts
  <2>4. task \in TaskSet /\ task.kind = "wait"
    <3>1. "wait" \in Kinds \cup {"wait"} /\ NoTile \in Tiles \cup {NoTile}
      OBVIOUS
    <3>. QED
      BY <2>3, <3>1, TaskTypes DEF Task
  <2>. HIDE DEF task
  <2>5. /\ Grows
        /\ \A p \in Queue : \A i \in DOMAIN queue'[p] :
             i \notin DOMAIN queue[p] => queue'[p][i] = task
    BY <1>0, <2>2, <2>3, <2>4, PushGrows
  <2>6. Added(c, t)
    <3>1. \A q \in Queue : \A i \in DOMAIN queue'[q] :
            i \notin DOMAIN queue[q] => ~IsJob(queue[q][i])'
      BY <2>4, <2>5 DEF IsJob
    <3>2. HostQueue \in Queue /\ \A q \in DriverQueue : q \in Queue
      BY QueuesAre
    <3>. QED
      BY <3>1, <3>2, Zenon DEF Added
  <2>7. (\A x \in AllCovers : Keeps(x)) /\ RecordsKeep
    BY <1>3, <2>2, PlainKeeps
  <2>. QED
    BY <2>2, <2>5, <2>6, <2>7
<1>4. CASE o[1] \in {"retain", "synchronize"}
  <2>1. Retain \/ Synchronize
    BY <1>4, NextAction
  <2>2. UNCHANGED queueVars /\ UNCHANGED slotVars /\ running' = running /\ UNCHANGED tileVars
    BY <2>1 DEF Retain, Synchronize
  <2>. QED
    BY <1>0, <1>4, <2>2, PlainKeeps, StillGrows
<1>5. CASE o[1] = "record"
  <2>1. Record
    BY <1>5, NextAction
  <2>2. /\ UNCHANGED queueVars /\ slot' = slot /\ running' = running /\ UNCHANGED tileVars
        /\ recorded' = [recorded EXCEPT ![o[2]] = <<o[3], pushed[o[3]]>>]
    BY <2>1 DEF Record
  <2>3. o[2] \in CpuSlot /\ o[3] \in Queue
    BY <1>5, JobOpFacts
  <2>4. (\A x \in AllCovers : Keeps(x)) /\ RecordsKeep
    BY <1>5, <2>2, <2>3, RecordKeeps
  <2>. QED
    BY <1>0, <2>2, <2>4, StillGrows
<1>6. CASE o[1] = "share"
  <2>1. Share
    BY <1>6, NextAction
  <2>2. /\ UNCHANGED queueVars /\ recorded' = recorded /\ running' = running /\ UNCHANGED tileVars
        /\ slot' = [slot EXCEPT ![o[2]] = slot[o[3]]]
    BY <2>1 DEF Share
  <2>3. o[2] \in Slot \ {KernelEvent} /\ o[3] \in Slot
    BY <1>6, JobOpFacts
  <2>4. (\A x \in AllCovers : Keeps(x)) /\ RecordsKeep
    BY <1>6, <2>2, <2>3, ShareKeeps
  <2>. QED
    BY <1>0, <2>2, <2>4, StillGrows
<1>7. CASE o[1] \in {"release", "create"}
  <2>1. PICK s \in Slot : o[2] = {s}
    BY <1>7, JobOpFacts
  <2>2. s = KernelEvent => o = <<"release", {KernelEvent}>> \/ o = <<"create", {KernelEvent}>>
    <3>1. o \in Changes
      <4>1. \A a : /\ a \in Waits => a[1] = "streamwait"
                   /\ a \in {"retain"} \X Slot => a[1] = "retain"
                   /\ a \in Pushes => a[1] = "push"
                   /\ a \in Shares => a[1] = "share"
                   /\ a \in Records => a[1] = "record"
                   /\ a \in {"synchronize"} \X Queue => a[1] = "synchronize"
        BY DEF Waits, Pushes, Shares, Records
      <4>. QED
        BY <1>7, <4>1 DEF JobOps
    <3>2. o = <<o[1], o[2]>>
      BY <3>1 DEF Changes
    <3>. QED
      BY <1>7, <2>1, <3>2
  <2>3. Release \/ Create
    BY <1>7, NextAction
  <2>4. UNCHANGED queueVars /\ running' = running /\ UNCHANGED tileVars
    BY <2>3 DEF Release, Create
  <2>5. \A d \in Slot : d # s => slot'[d] = slot[d]
    BY <2>1, <2>3 DEF Release, Create
  <2>6. CASE o[1] = "release"
    <3>1. recorded' = recorded
      BY <2>6, NextAction DEF Release
    <3>2. (\A x \in AllCovers : Keeps(x)) /\ RecordsKeep
      BY <1>7, <2>1, <2>2, <2>5, <3>1, ChangeKeeps
    <3>. QED
      BY <1>0, <2>4, <3>2, StillGrows
  <2>7. CASE o[1] = "create"
    <3>1. Create
      BY <2>7, NextAction
    <3>2. recorded' = [d \in CpuSlot |-> IF d \in {s} THEN Unrecorded ELSE recorded[d]]
      BY <2>1, <3>1 DEF Create
    <3>3. s \notin CpuSlot
      <4>1. PICK d \in Slot \ CpuSlot : o[2] = {d}
        BY <2>7 DEF Ok
      <4>. QED
        BY <2>1, <4>1
    <3>4. recorded' = recorded
      BY <1>0, <3>2, <3>3
    <3>5. (\A x \in AllCovers : Keeps(x)) /\ RecordsKeep
      BY <1>7, <2>1, <2>2, <2>5, <3>4, ChangeKeeps
    <3>. QED
      BY <1>0, <2>4, <3>5, StillGrows
  <2>. QED
    BY <1>7, <2>6, <2>7
<1>. QED
  BY <1>2, <1>3, <1>4, <1>5, <1>6, <1>7, JobOpFacts

\* So a step of a job keeps the invariant.
LEMMA JobStep ==
  ASSUME LifecycleInv, LifecycleInv', MemoryInv, JobLeft, MainStep
  PROVE  MemoryInv'
<1>0. /\ TypeInv /\ TypeInv' /\ RecordsInv /\ TodoForm
      /\ JobsCovered /\ HostCovered /\ JobsAlive /\ MemInv
  BY DEF LifecycleInv, MemoryInv
<1>1. PICK c \in Ctrl \cup {Host}, t \in Tiles : Before(c, t, todo, {}) /\ Alive(c, t)
  BY DEF JobLeft
<1>. DEFINE o == Head(todo)
            S == Elems(Tail(todo))
<1>2. todo # <<>>
  BY NextAction
<1>3. /\ Before(c, t, Tail(todo), {}) /\ o \in JobOps /\ Ok(c, t, o, S)
      /\ Left = {o} \cup S
  BY <1>1, <1>2, BeforeTailed DEF Left
<1>4. todo' = Tail(todo)
  <2>1. o[1] \in {"streamwait", "retain", "push", "release", "create", "share",
                  "record", "synchronize"}
    BY <1>3, JobOpFacts
  <2>2. \/ PushWait \/ Retain \/ PushTask \/ Release \/ Create \/ Share \/ Record
        \/ Synchronize
    BY <2>1, NextAction
  <2>. QED
    BY <2>2 DEF PushWait, Retain, PushTask, Release, Create, Share, Record, Synchronize, NextOp
<1>5. Left' = S
  BY <1>4 DEF Left, Elems
<1>. HIDE DEF S
<1>6. /\ Grows /\ RecordsKeep /\ Added(c, t)
      /\ \A x \in AllCovers : Keeps(x)
      /\ UNCHANGED tileVars
  <2>. HIDE DEF o
  <2>1. o = Head(todo)
    BY DEF o
  <2>. QED
    BY <1>0, <1>3, <1>5, <2>1, JobOperation
<1>7. /\ type' = type /\ records' = records /\ memory' = memory
      /\ host_status' = host_status /\ device_status' = device_status
  BY <1>6 DEF tileVars
<1>8. QueueTypes'
  BY <1>0 DEF TypeInv
<1>9. JobsCovered'
  <2>1. \A d \in Ctrl, s \in Tiles : \A x \in Covers(d, s) : Keeps(x)
    BY <1>6, CoverFacts
  <2>2. \A q \in DriverQueue : \A i \in DOMAIN queue'[q] :
          IsJob(queue[q][i])' /\ i \notin DOMAIN queue[q] =>
            \E x \in Covers(q[1], queue'[q][i].tile) :
              x[3] = q /\ Covered(x, last_finished[q] + i)'
    BY <1>6, Zenon DEF Added
  <2>. QED
    BY <1>0, <1>6, <1>8, <2>1, <2>2, JobsStayCovered
<1>10. HostCovered'
  <2>1. \A s \in Tiles : \A h \in HostSlots(s) : KeepsRecord(h, HostQueue)
    BY <1>6 DEF RecordsKeep
  <2>2. \A i \in DOMAIN queue'[HostQueue] :
          IsJob(queue[HostQueue][i])' /\ i \notin DOMAIN queue[HostQueue] =>
            \E h \in HostSlots(queue'[HostQueue][i].tile) :
              Within(h, HostQueue, last_finished[HostQueue] + i)'
    BY <1>6, Zenon DEF Added
  <2>. QED
    BY <1>0, <1>6, <1>8, <2>1, <2>2, HostTasksStayCovered
<1>11. \A d, s : Alive(d, s) => Alive(d, s)'
  BY <1>7 DEF Alive, Live
<1>12. JobsAlive'
  <2>1. ASSUME NEW q \in Queue, NEW i \in DOMAIN queue'[q], IsJob(queue[q][i])'
        PROVE  /\ queue'[q][i].kind = "hosttask" <=> q = HostQueue
               /\ Alive(q[1], queue[q][i].tile)'
    <3>1. CASE i \in DOMAIN queue[q]
      <4>1. queue'[q][i] = queue[q][i]
        BY <1>6, <3>1 DEF Grows
      <4>2. IsJob(queue[q][i])
        BY <2>1, <4>1 DEF IsJob
      <4>3. queue[q][i].kind = "hosttask" <=> q = HostQueue
        BY <1>0, <3>1, <4>2 DEF JobsAlive
      <4>4. Alive(q[1], queue[q][i].tile)
        BY <1>0, <3>1, <4>2 DEF JobsAlive
      <4>5. Alive(q[1], queue[q][i].tile)'
        BY <1>7, <4>1, <4>4 DEF Alive, Live
      <4>. QED
        BY <4>1, <4>3, <4>5
    <3>2. CASE i \notin DOMAIN queue[q]
      <4>1. /\ q[1] = c /\ queue'[q][i].tile = t
            /\ queue'[q][i].kind = "hosttask" <=> q = HostQueue
        BY <1>6, <2>1, <3>2, Zenon DEF Added
      <4>2. Alive(q[1], queue[q][i].tile)'
        BY <1>1, <1>7, <4>1 DEF Alive, Live
      <4>. QED
        BY <4>1, <4>2
    <3>. QED
      BY <3>1, <3>2
  <2>2. ASSUME NEW q \in DriverQueue, NEW i \in DOMAIN running'[q]
        PROVE  /\ running'[q][i].kind \notin {"wait", "hosttask"}
               /\ Alive(q[1], running[q][i].tile)'
    BY <1>0, <1>6, <1>7 DEF JobsAlive, Grows, Alive, Live
  <2>. QED
    BY <2>1, <2>2 DEF JobsAlive
<1>13. MemInv'
  BY <1>0, <1>7 DEF MemInv, Live, Attached, Allocated
<1>14. JobLeft'
  BY <1>1, <1>3, <1>4, <1>7 DEF JobLeft, Alive, Live
<1>. QED
  BY <1>9, <1>10, <1>12, <1>13, <1>14 DEF MemoryInv, CallLeft
-----------------------------------------------------------------------------
(* The operations of other calls.                                          *)

\* What else they leave alone.
LEMMA CallFrames ==
  ASSUME MainStep, Head(todo)[1] \notin {"streamwait", "retain", "push", "share", "record",
                                         "synchronize"}
  PROVE  LET o == Head(todo)
         IN /\ queue' = queue /\ last_finished' = last_finished /\ pushed' = pushed
            /\ running' = running
            /\ o[1] # "create" => recorded' = recorded
            /\ o[1] = "create" =>
                 recorded' = [s \in CpuSlot |-> IF s \in o[2] THEN Unrecorded ELSE recorded[s]]
            /\ o[1] # "selectif" => device_status' = device_status
            /\ o[1] = "selectif" =>
                 \E v : device_status' = [device_status EXCEPT ![<<o[2], o[3]>>] = v]
            /\ o[1] \notin {"detach", "freehost"} => memory' = memory
            /\ o[1] = "detach" =>
                 memory' = IF Owner(o[3]) THEN memory \ {<<o[2], o[3]>>} ELSE memory
            /\ o[1] = "freehost" =>
                 memory' = IF Owner(o[2]) THEN memory \ {<<Host, o[2]>>} ELSE memory
            /\ o[1] = "wait" =>
                 \A s \in o[2] : IF IsDev(s) THEN DevEventDone(slot[s])
                                             ELSE HostEventDone(recorded[s])
<1>1. Head(todo)[1] \in {"wait", "peek", "release", "create", "domain", "attach", "selectif",
                         "detach", "freehost", "freeif"}
  BY NextAction
<1>2. CASE Head(todo)[1] = "wait"
  BY <1>2, NextAction DEF Wait, tileVars, slotVars, queueVars
<1>3. CASE Head(todo)[1] = "peek"
  BY <1>3, NextAction DEF Peek, tileVars, slotVars, queueVars
<1>4. CASE Head(todo)[1] = "release"
  BY <1>4, NextAction DEF Release, tileVars, queueVars
<1>5. CASE Head(todo)[1] = "create"
  BY <1>5, NextAction DEF Create, tileVars, queueVars
<1>6. CASE Head(todo)[1] = "domain"
  BY <1>6, NextAction DEF Domain, slotVars, queueVars
<1>7. CASE Head(todo)[1] = "attach"
  BY <1>7, NextAction DEF Attach, slotVars, queueVars
<1>8. CASE Head(todo)[1] = "selectif"
  BY <1>8, NextAction DEF SelectIfAttached, slotVars, queueVars
<1>9. CASE Head(todo)[1] = "detach"
  BY <1>9, NextAction DEF Detach, slotVars, queueVars
<1>10. CASE Head(todo)[1] = "freehost"
  BY <1>10, NextAction DEF FreeHost, slotVars, queueVars
<1>11. CASE Head(todo)[1] = "freeif"
  BY <1>11, NextAction DEF FreeIfAttached, tileVars, slotVars, queueVars
<1>. QED
  BY <1>1, <1>2, <1>3, <1>4, <1>5, <1>6, <1>7, <1>8, <1>9, <1>10, <1>11

\* They change the events of a tile only when no job is there for it.
Touches(S) == /\ \A d \in Slot : d \notin S => slot'[d] = slot[d]
              /\ \A d \in CpuSlot : d \notin S => recorded'[d] = recorded[d]
Idle(S) == \/ S = {}
           \/ \E c \in Ctrl, t \in Tiles : S = ImplSlots(c, t) /\ NoJobs(c, t)
           \/ \E t \in Tiles : S = HostSlots(t) /\ NoHostJobs(t)
Calm == /\ queue' = queue /\ last_finished' = last_finished /\ pushed' = pushed
        /\ running' = running
        /\ \E S : Touches(S) /\ Idle(S)

\* So what jobs wait for stays as it is.
LEMMA CalmKeeps ==
  ASSUME TypeInv, TypeInv', JobsCovered, HostCovered, JobsAlive,
         Quiet(Left), Quiet(Left)', Calm
  PROVE  JobsCovered' /\ HostCovered'
<1>0. QueueTypes /\ QueueTypes'
  BY DEF TypeInv
<1>1. UNCHANGED queueVars /\ running' = running
  BY DEF Calm, queueVars
<1>2. Grows /\ Added(Host, NoTile)
  BY <1>0, <1>1, StillGrows
<1>3. PICK S : Touches(S) /\ Idle(S)
  BY DEF Calm
<1>4. /\ \A x : ~Promised(Left, x) /\ ~Sharing(Left, x) /\ ~Sharing(Left, x)'
      /\ \A h, q : <<"record", h, q>> \notin Left
  <2>1. \A x : ~Promised(Left, x) /\ ~Sharing(Left, x)
    BY QuietFacts
  <2>2. \A h, q : <<"record", h, q>> \notin Left
    BY QuietFacts
  <2>3. \A x : ~Sharing(Left, x)'
    <3>1. Quiet(Left')
      BY DEF Quiet
    <3>2. PICK T : T = Left'
      OBVIOUS
    <3>3. \A x : ~Sharing(T, x)
      BY <3>1, <3>2, QuietFacts
    <3>. QED
      BY <3>2, <3>3 DEF Sharing
  <2>. QED
    BY <2>1, <2>2, <2>3
<1>5. \A h \in CpuSlot : h \notin S => \A q : KeepsRecord(h, q)
  BY <1>3, <1>4 DEF Touches, KeepsRecord, Within
<1>6. ASSUME NEW x \in AllCovers, x[1] \notin S, x[2] \notin S PROVE Keeps(x)
  <2>1. x[1] \in CpuSlot /\ x[2] \in Slot
    BY CoverOf, CoverFacts
  <2>2. Ev(x)' = Ev(x)
    BY <1>3, <1>4, <1>6, <2>1 DEF Ev, Touches
  <2>. QED
    BY <1>4, <1>5, <1>6, <2>1, <2>2 DEF Keeps
<1>7. \A d \in Ctrl, s \in Tiles : (\A x \in Covers(d, s) : Keeps(x)) \/ NoJobs(d, s)
  <2>. SUFFICES ASSUME NEW d \in Ctrl, NEW s \in Tiles, ~NoJobs(d, s), NEW x \in Covers(d, s)
                PROVE  Keeps(x)
    OBVIOUS
  <2>1. x \in AllCovers
    BY CoverFacts
  <2>2. x[1] \notin S /\ x[2] \notin S
    BY <1>3, OtherCovers DEF Idle
  <2>. QED
    BY <1>6, <2>1, <2>2
<1>8. \A s \in Tiles : (\A h \in HostSlots(s) : KeepsRecord(h, HostQueue)) \/ NoHostJobs(s)
  <2>. SUFFICES ASSUME NEW s \in Tiles, ~NoHostJobs(s), NEW h \in HostSlots(s)
                PROVE  KeepsRecord(h, HostQueue)
    OBVIOUS
  <2>1. h \in CpuSlot
    BY SlotKinds
  <2>2. h[1] = Host /\ h[2] = s
    BY DEF HostSlots
  <2>3. \A c \in Ctrl, t \in Tiles : h \notin ImplSlots(c, t)
    <3>1. \A c, t : \A g \in ImplSlots(c, t) : g[1] = c
      BY DEF ImplSlots
    <3>. QED
      BY <2>2, <3>1, Names
  <2>4. \A t \in Tiles : h \in HostSlots(t) => t = s
    BY <2>2 DEF HostSlots
  <2>5. h \notin S
    BY <1>3, <2>3, <2>4 DEF Idle
  <2>. QED
    BY <1>5, <2>1, <2>5
<1>9. JobsCovered'
  <2>1. \A q \in DriverQueue : \A i \in DOMAIN queue'[q] :
          IsJob(queue[q][i])' /\ i \notin DOMAIN queue[q] =>
            \E x \in Covers(q[1], queue'[q][i].tile) :
              x[3] = q /\ Covered(x, last_finished[q] + i)'
    BY <1>2, Zenon DEF Added
  <2>. QED
    BY <1>0, <1>2, <1>7, <2>1, JobsStayCovered
<1>10. HostCovered'
  <2>1. \A i \in DOMAIN queue'[HostQueue] :
          IsJob(queue[HostQueue][i])' /\ i \notin DOMAIN queue[HostQueue] =>
            \E h \in HostSlots(queue'[HostQueue][i].tile) :
              Within(h, HostQueue, last_finished[HostQueue] + i)'
    BY <1>2, Zenon DEF Added
  <2>. QED
    BY <1>0, <1>2, <1>8, <2>1, HostTasksStayCovered
<1>. QED
  BY <1>9, <1>10

\* Jobs find their records when those that a step removes are of no job.
LEMMA AliveKept ==
  ASSUME TypeInv, JobsAlive, queue' = queue, running' = running,
         \A c \in Ctrl, t \in Tiles : <<c, t>> \in records =>
           <<c, t>> \in records' \/ NoJobs(c, t),
         \A t \in Tiles : Live(t) /\ host_status[t] # "UNALLOC" =>
           (Live(t)' /\ host_status'[t] # "UNALLOC") \/ NoHostJobs(t)
  PROVE  JobsAlive'
<1>1. /\ \A q \in DriverQueue : q[1] \in Ctrl /\ q[1] # Host /\ q \in Queue /\ q # HostQueue
      /\ HostQueue[1] = Host
      /\ \A q \in Queue : q = HostQueue \/ q \in DriverQueue
  <2>1. \A q \in DriverQueue : q[1] \in Ctrl
    <3>. TAKE q \in DriverQueue
    <3>1. PICK c \in Ctrl : q \in {Htd(c), Dth(c), Kernel(c)}
      BY QueuesAre
    <3>. QED
      BY <3>1, SMT DEF Htd, Dth, Kernel
  <2>. QED
    BY <2>1, Names, QueuesAre DEF HostQueue, Queue
<1>2. \A c, t : <<c, t>> \in records => t \in Tiles
  BY DEF TypeInv, TileTypes
<1>3. ASSUME NEW q \in Queue, NEW i \in DOMAIN queue'[q], IsJob(queue[q][i])'
      PROVE  /\ queue'[q][i].kind = "hosttask" <=> q = HostQueue
             /\ Alive(q[1], queue[q][i].tile)'
  <2>1. IsJob(queue[q][i])
    BY <1>3 DEF IsJob
  <2>2. /\ queue[q][i].kind = "hosttask" <=> q = HostQueue
        /\ Alive(q[1], queue[q][i].tile)
    BY <1>3, <2>1 DEF JobsAlive
  <2>3. PICK t : t = queue[q][i].tile
    OBVIOUS
  <2>4. Alive(q[1], t)'
    <3>1. CASE q = HostQueue
      <4>1. q[1] = Host
        BY <1>1, <3>1
      <4>2. Live(t) /\ host_status[t] # "UNALLOC"
        BY <2>2, <2>3, <4>1 DEF Alive
      <4>3. t \in Tiles
        BY <1>2, <4>2 DEF Live
      <4>4. ~NoHostJobs(t)
        BY <1>3, <2>1, <2>3, <3>1 DEF NoHostJobs
      <4>5. Live(t)' /\ host_status'[t] # "UNALLOC"
        BY <4>2, <4>3, <4>4
      <4>. QED
        BY <4>1, <4>5 DEF Alive
    <3>2. CASE q \in DriverQueue
      <4>1. q[1] \in Ctrl /\ q[1] # Host
        BY <1>1, <3>2
      <4>2. <<q[1], t>> \in records
        BY <2>2, <2>3, <4>1 DEF Alive
      <4>3. t \in Tiles
        BY <1>2, <4>2
      <4>4. ~NoJobs(q[1], t)
        BY <1>3, <2>1, <2>3, <3>2 DEF NoJobs
      <4>5. <<q[1], t>> \in records'
        BY <4>1, <4>2, <4>3, <4>4
      <4>. QED
        BY <4>1, <4>5 DEF Alive
    <3>. QED
      BY <1>1, <3>1, <3>2
  <2>5. queue'[q][i].tile = t
    BY <2>3
  <2>. QED
    BY <2>2, <2>4, <2>5 DEF Alive, Live
<1>4. ASSUME NEW q \in DriverQueue, NEW i \in DOMAIN running'[q]
      PROVE  /\ running'[q][i].kind \notin {"wait", "hosttask"}
             /\ Alive(q[1], running[q][i].tile)'
  <2>1. /\ running[q][i].kind \notin {"wait", "hosttask"}
        /\ Alive(q[1], running[q][i].tile)
    BY <1>4 DEF JobsAlive
  <2>2. PICK t : t = running[q][i].tile
    OBVIOUS
  <2>3. q[1] \in Ctrl /\ q[1] # Host
    BY <1>1
  <2>4. <<q[1], t>> \in records
    BY <2>1, <2>2, <2>3 DEF Alive
  <2>5. ~NoJobs(q[1], t)
    BY <1>4, <2>2 DEF NoJobs
  <2>6. <<q[1], t>> \in records'
    BY <1>2, <2>3, <2>4, <2>5
  <2>. QED
    BY <2>1, <2>2, <2>3, <2>6 DEF Alive
<1>. QED
  BY <1>3, <1>4 DEF JobsAlive

\* An operation of another call keeps what jobs wait for and what they find.
Safe == Calm /\ JobsAlive' /\ MemInv'

\* Nothing is made or removed.
LEMMA PlainSafe ==
  ASSUME TypeInv, JobsAlive, MemInv, MainStep,
         Head(todo)[1] \in {"wait", "peek", "freeif", "release", "create"},
         Head(todo)[1] \in {"release", "create"} => Idle(Head(todo)[2])
  PROVE  Safe
<1>. DEFINE o == Head(todo)
<1>1. /\ queue' = queue /\ last_finished' = last_finished /\ pushed' = pushed
      /\ running' = running /\ memory' = memory /\ device_status' = device_status
      /\ o[1] # "create" => recorded' = recorded
      /\ o[1] = "create" =>
           recorded' = [s \in CpuSlot |-> IF s \in o[2] THEN Unrecorded ELSE recorded[s]]
  BY CallFrames
<1>2. /\ type' = type /\ records' = records /\ host_status' = host_status
      /\ o[1] \notin {"release", "create"} => slot' = slot
      /\ o[1] = "release" => slot' = [s \in Slot |-> IF s \in o[2] THEN NoEvent ELSE slot[s]]
      /\ o[1] = "create" => slot' = [s \in Slot |-> IF s \in o[2] THEN NewEvent(s) ELSE slot[s]]
  BY Frames
<1>3. Calm
  <2>1. CASE o[1] \in {"release", "create"}
    <3>1. Touches(o[2])
      BY <1>1, <1>2, <2>1 DEF Touches
    <3>2. Idle(o[2])
      BY <2>1
    <3>. HIDE DEF o
    <3>. QED
      BY <1>1, <3>1, <3>2 DEF Calm
  <2>2. CASE o[1] \notin {"release", "create"}
    <3>1. Touches({}) /\ Idle({})
      BY <1>1, <1>2, <2>2 DEF Touches, Idle
    <3>. QED
      BY <1>1, <3>1 DEF Calm
  <2>. QED
    BY <2>1, <2>2
<1>4. JobsAlive'
  <2>1. /\ \A c \in Ctrl, t \in Tiles : <<c, t>> \in records =>
             <<c, t>> \in records' \/ NoJobs(c, t)
        /\ \A t \in Tiles : Live(t) /\ host_status[t] # "UNALLOC" =>
             (Live(t)' /\ host_status'[t] # "UNALLOC") \/ NoHostJobs(t)
    BY <1>2 DEF Live
  <2>. QED
    BY <1>1, <2>1, AliveKept
<1>5. MemInv'
  BY <1>1, <1>2 DEF MemInv, Live, Attached, Allocated
<1>. QED
  BY <1>3, <1>4, <1>5 DEF Safe

\* No events are made or removed.
LEMMA EventsStay ==
  ASSUME queue' = queue, last_finished' = last_finished, pushed' = pushed,
         running' = running, slot' = slot, recorded' = recorded
  PROVE  Calm
<1>1. Touches({}) /\ Idle({})
  BY DEF Touches, Idle
<1>. QED
  BY <1>1 DEF Calm

\* A selection gets the status of its tile on a ctrl.
LEMMA SelectSafe ==
  ASSUME TypeInv, JobsAlive, MemInv, MainStep, Head(todo)[1] = "selectif",
         Head(todo)[3] \in Selections
  PROVE  Safe
<1>1. /\ queue' = queue /\ last_finished' = last_finished /\ pushed' = pushed
      /\ running' = running /\ memory' = memory /\ recorded' = recorded
      /\ \E v : device_status' = [device_status EXCEPT ![<<Head(todo)[2], Head(todo)[3]>>] = v]
  BY CallFrames
<1>2. type' = type /\ records' = records /\ host_status' = host_status /\ slot' = slot
  BY Frames
<1>3. Calm
  BY <1>1, <1>2, EventsStay
<1>4. JobsAlive'
  <2>1. /\ \A c \in Ctrl, t \in Tiles : <<c, t>> \in records =>
             <<c, t>> \in records' \/ NoJobs(c, t)
        /\ \A t \in Tiles : Live(t) /\ host_status[t] # "UNALLOC" =>
             (Live(t)' /\ host_status'[t] # "UNALLOC") \/ NoHostJobs(t)
    BY <1>2 DEF Live
  <2>. QED
    BY <1>1, <2>1, AliveKept
<1>5. \A c \in Ctrl, t \in Domains : device_status'[<<c, t>>] = device_status[<<c, t>>]
  <2>. TAKE c \in Ctrl, t \in Domains
  <2>1. t # Head(todo)[3] /\ t \in Tiles
    BY TileLifecycleAssumption DEF Tiles
  <2>2. <<c, t>> # <<Head(todo)[2], Head(todo)[3]>> /\ <<c, t>> \in Ctrl \X Tiles
    BY <2>1
  <2>3. device_status \in [Ctrl \X Tiles -> Status]
    BY DEF TypeInv, TileTypes
  <2>. QED
    BY <1>1, <2>2, <2>3
<1>6. MemInv'
  BY <1>1, <1>2, <1>5 DEF MemInv, Live, Attached, Allocated
<1>. QED
  BY <1>3, <1>4, <1>6 DEF Safe

\* A tile is made: a selection of one that lives and is allocated.
LEMMA DomainSafe ==
  ASSUME TypeInv, JobsAlive, MemInv, MainStep, Head(todo)[1] = "domain",
         NEW s \in Selections, Head(todo)[2] = s,
         Live(Selected[s]), host_status[Selected[s]] # "UNALLOC"
  PROVE  Safe
<1>1. /\ queue' = queue /\ last_finished' = last_finished /\ pushed' = pushed
      /\ running' = running /\ memory' = memory /\ recorded' = recorded
      /\ device_status' = device_status
  BY CallFrames
<1>2. /\ type' = type /\ records' = records \cup {<<Host, s>>} /\ host_status' = host_status
      /\ slot' = slot
  BY Frames
<1>3. Calm
  BY <1>1, <1>2, EventsStay
<1>4. JobsAlive'
  <2>1. /\ \A c \in Ctrl, t \in Tiles : <<c, t>> \in records =>
             <<c, t>> \in records' \/ NoJobs(c, t)
        /\ \A t \in Tiles : Live(t) /\ host_status[t] # "UNALLOC" =>
             (Live(t)' /\ host_status'[t] # "UNALLOC") \/ NoHostJobs(t)
    BY <1>2 DEF Live
  <2>. QED
    BY <1>1, <2>1, AliveKept
<1>5. /\ \A t : t # s => (Live(t)' <=> Live(t))
      /\ \A t : Live(t) => Live(t)'
      /\ \A c \in Ctrl : \A t : <<c, t>> \in records' <=> <<c, t>> \in records
  BY <1>2, Names DEF Live
<1>6. MemInv'
  <2>1. \A c \in Ctrl, t \in Domains : <<c, t>> \in records' => <<c, t>> \in memory'
    BY <1>1, <1>5 DEF MemInv
  <2>2. \A t \in Domains : Live(t)' /\ host_status'[t] # "UNALLOC" => <<Host, t>> \in memory'
    <3>1. s \notin Domains
      BY TileLifecycleAssumption
    <3>. QED
      BY <1>1, <1>2, <1>5, <3>1 DEF MemInv
  <2>3. \A r \in Selections :
          Live(r)' => Live(Selected[r])' /\ host_status'[Selected[r]] # "UNALLOC"
    BY <1>2, <1>5 DEF MemInv
  <2>4. \A c \in Ctrl, r \in Selections : <<c, r>> \in records' => <<c, Selected[r]>> \in records'
    BY <1>5 DEF MemInv
  <2>5. \A c \in Ctrl, t \in Domains :
          ~Attached(c, t)' /\ Allocated(<<c, t>>)' => <<c, t>> \in memory'
    BY <1>1, <1>2 DEF MemInv, Attached, Allocated
  <2>. QED
    BY <2>1, <2>2, <2>3, <2>4, <2>5 DEF MemInv
<1>. QED
  BY <1>3, <1>4, <1>6 DEF Safe

\* A record is made for a tile that has its buffer.
LEMMA AttachSafe ==
  ASSUME TypeInv, JobsAlive, MemInv, MainStep, Head(todo)[1] = "attach",
         NEW c \in Ctrl, NEW t \in Tiles, Head(todo)[2] = c, Head(todo)[3] = t, Backed(c, t)
  PROVE  Safe
<1>1. /\ queue' = queue /\ last_finished' = last_finished /\ pushed' = pushed
      /\ running' = running /\ memory' = memory /\ recorded' = recorded
      /\ device_status' = device_status
  BY CallFrames
<1>2. /\ type' = type \cup {<<c, t>>} /\ records' = records \cup {<<c, t>>}
      /\ host_status' = host_status /\ slot' = slot
  BY Frames
<1>3. Calm
  BY <1>1, <1>2, EventsStay
<1>4. JobsAlive'
  <2>1. /\ \A d \in Ctrl, s \in Tiles : <<d, s>> \in records =>
             <<d, s>> \in records' \/ NoJobs(d, s)
        /\ \A s \in Tiles : Live(s) /\ host_status[s] # "UNALLOC" =>
             (Live(s)' /\ host_status'[s] # "UNALLOC") \/ NoHostJobs(s)
    BY <1>2 DEF Live
  <2>. QED
    BY <1>1, <2>1, AliveKept
<1>5. /\ \A s : Live(s)' <=> Live(s)
      /\ \A d, s : <<d, s>> \in records' <=> <<d, s>> \in records \/ (d = c /\ s = t)
  BY <1>2, Names DEF Live
<1>6. MemInv'
  <2>1. \A d \in Ctrl, s \in Domains : <<d, s>> \in records' => <<d, s>> \in memory'
    BY <1>1, <1>5 DEF MemInv, Backed
  <2>2. \A s \in Domains : Live(s)' /\ host_status'[s] # "UNALLOC" => <<Host, s>> \in memory'
    BY <1>1, <1>2, <1>5 DEF MemInv
  <2>3. \A r \in Selections :
          Live(r)' => Live(Selected[r])' /\ host_status'[Selected[r]] # "UNALLOC"
    BY <1>2, <1>5 DEF MemInv
  <2>4. \A d \in Ctrl, r \in Selections : <<d, r>> \in records' => <<d, Selected[r]>> \in records'
    <3>1. t \in Selections => t \notin Domains
      BY TileLifecycleAssumption
    <3>. QED
      BY <1>5, <3>1 DEF MemInv, Backed
  <2>5. \A d \in Ctrl, s \in Domains :
          ~Attached(d, s)' /\ Allocated(<<d, s>>)' => <<d, s>> \in memory'
    BY <1>1, <1>2 DEF MemInv, Attached, Allocated
  <2>. QED
    BY <2>1, <2>2, <2>3, <2>4, <2>5 DEF MemInv
<1>. QED
  BY <1>3, <1>4, <1>6 DEF Safe

\* A record goes when no job and no selection of the tile is left.
LEMMA DetachSafe ==
  ASSUME TypeInv, RecordsInv, JobsAlive, MemInv, MainStep, Head(todo)[1] = "detach",
         NEW c \in Ctrl, NEW t \in Tiles, Head(todo)[2] = c, Head(todo)[3] = t,
         <<c, t>> \in records, NoJobs(c, t), Unselected(t)
  PROVE  Safe
<1>1. /\ queue' = queue /\ last_finished' = last_finished /\ pushed' = pushed
      /\ running' = running /\ recorded' = recorded /\ device_status' = device_status
      /\ memory' = IF Owner(t) THEN memory \ {<<c, t>>} ELSE memory
  BY CallFrames
<1>2. /\ type' = type /\ records' = records \ {<<c, t>>} /\ host_status' = host_status
      /\ slot' = slot
  BY Frames
<1>3. Calm
  BY <1>1, <1>2, EventsStay
<1>5. /\ \A s : Live(s)' <=> Live(s)
      /\ \A d, s : <<d, s>> \in records' <=> <<d, s>> \in records /\ ~(d = c /\ s = t)
      /\ \A d, s : <<d, s>> \in memory /\ ~(d = c /\ s = t) => <<d, s>> \in memory'
      /\ \A s : <<Host, s>> \in memory => <<Host, s>> \in memory'
  BY <1>1, <1>2, Names DEF Live
<1>4. JobsAlive'
  <2>1. /\ \A d \in Ctrl, s \in Tiles : <<d, s>> \in records =>
             <<d, s>> \in records' \/ NoJobs(d, s)
        /\ \A s \in Tiles : Live(s) /\ host_status[s] # "UNALLOC" =>
             (Live(s)' /\ host_status'[s] # "UNALLOC") \/ NoHostJobs(s)
    BY <1>2, <1>5
  <2>. QED
    BY <1>1, <2>1, AliveKept
<1>6. MemInv'
  <2>1. \A d \in Ctrl, s \in Domains : <<d, s>> \in records' => <<d, s>> \in memory'
    BY <1>5 DEF MemInv
  <2>2. \A s \in Domains : Live(s)' /\ host_status'[s] # "UNALLOC" => <<Host, s>> \in memory'
    BY <1>2, <1>5 DEF MemInv
  <2>3. \A r \in Selections :
          Live(r)' => Live(Selected[r])' /\ host_status'[Selected[r]] # "UNALLOC"
    BY <1>2, <1>5 DEF MemInv
  <2>4. \A d \in Ctrl, r \in Selections : <<d, r>> \in records' => <<d, Selected[r]>> \in records'
    <3>. TAKE d \in Ctrl, r \in Selections
    <3>1. Selected[r] = t => <<d, r>> \notin records
      <4>1. r \in Tiles
        BY Names
      <4>. QED
        BY <4>1 DEF Unselected, RecordsInv
    <3>. QED
      BY <1>5, <3>1 DEF MemInv
  <2>5. \A d \in Ctrl, s \in Domains :
          ~Attached(d, s)' /\ Allocated(<<d, s>>)' => <<d, s>> \in memory'
    <3>1. Attached(c, t)
      BY DEF RecordsInv
    <3>. QED
      BY <1>1, <1>2, <1>5, <3>1 DEF MemInv, Attached, Allocated
  <2>. QED
    BY <2>1, <2>2, <2>3, <2>4, <2>5 DEF MemInv
<1>. QED
  BY <1>3, <1>4, <1>6 DEF Safe

\* So does the host part.
LEMMA FreeHostSafe ==
  ASSUME TypeInv, JobsAlive, MemInv, MainStep, Head(todo)[1] = "freehost",
         NEW t \in Tiles, Head(todo)[2] = t, NoHostJobs(t), Unselected(t)
  PROVE  Safe
<1>1. /\ queue' = queue /\ last_finished' = last_finished /\ pushed' = pushed
      /\ running' = running /\ recorded' = recorded /\ device_status' = device_status
      /\ memory' = IF Owner(t) THEN memory \ {<<Host, t>>} ELSE memory
  BY CallFrames
<1>2. /\ type' = type /\ records' = records \ {<<Host, t>>} /\ host_status' = host_status
      /\ slot' = slot
  BY Frames
<1>3. Calm
  BY <1>1, <1>2, EventsStay
<1>5. /\ \A s : Live(s)' <=> Live(s) /\ s # t
      /\ \A d \in Ctrl : \A s : <<d, s>> \in records' <=> <<d, s>> \in records
      /\ \A d \in Ctrl : \A s : <<d, s>> \in memory => <<d, s>> \in memory'
      /\ \A s : s # t /\ <<Host, s>> \in memory => <<Host, s>> \in memory'
  BY <1>1, <1>2, Names DEF Live
<1>4. JobsAlive'
  <2>1. /\ \A d \in Ctrl, s \in Tiles : <<d, s>> \in records =>
             <<d, s>> \in records' \/ NoJobs(d, s)
        /\ \A s \in Tiles : Live(s) /\ host_status[s] # "UNALLOC" =>
             (Live(s)' /\ host_status'[s] # "UNALLOC") \/ NoHostJobs(s)
    BY <1>2, <1>5
  <2>. QED
    BY <1>1, <2>1, AliveKept
<1>6. MemInv'
  <2>1. \A d \in Ctrl, s \in Domains : <<d, s>> \in records' => <<d, s>> \in memory'
    BY <1>5 DEF MemInv
  <2>2. \A s \in Domains : Live(s)' /\ host_status'[s] # "UNALLOC" => <<Host, s>> \in memory'
    BY <1>2, <1>5 DEF MemInv
  <2>3. \A r \in Selections :
          Live(r)' => Live(Selected[r])' /\ host_status'[Selected[r]] # "UNALLOC"
    BY <1>2, <1>5 DEF MemInv, Unselected
  <2>4. \A d \in Ctrl, r \in Selections : <<d, r>> \in records' => <<d, Selected[r]>> \in records'
    BY <1>5 DEF MemInv
  <2>5. \A d \in Ctrl, s \in Domains :
          ~Attached(d, s)' /\ Allocated(<<d, s>>)' => <<d, s>> \in memory'
    BY <1>1, <1>2, <1>5 DEF MemInv, Attached, Allocated
  <2>. QED
    BY <2>1, <2>2, <2>3, <2>4, <2>5 DEF MemInv
<1>. QED
  BY <1>3, <1>4, <1>6 DEF Safe
-----------------------------------------------------------------------------
(* A step of a free.                                                       *)

\* When the events a free waits for are done, no job on the tile is left.
LEMMA WaitedFor ==
  ASSUME TypeInv, JobsCovered, HostCovered, Quiet(Left), NEW c \in Ctrl, NEW t \in Tiles,
         HostDone(c, t), \A k \in DevKind : DevEventDone(slot[<<c, t, k>>])
  PROVE  NoJobs(c, t) /\ NoHostJobs(t)
<1>0. QueuePlaces
  BY Positions DEF TypeInv
<1>1. /\ \A x : ~Promised(Left, x) /\ ~Sharing(Left, x)
      /\ \A h, q : <<"record", h, q>> \notin Left
  BY QuietFacts
<1>2. recorded \in [CpuSlot -> Queue \X Nat]
  BY DEF TypeInv
<1>3. ASSUME NEW h \in CpuSlot, HostEventDone(recorded[h]), NEW q \in Queue,
             NEW i \in DOMAIN queue[q]
      PROVE  ~Within(h, q, last_finished[q] + i)
  <2>1. SUFFICES ASSUME Within(h, q, last_finished[q] + i) PROVE FALSE
    OBVIOUS
  <2>2. recorded[h][1] = q /\ last_finished[q] + i <= recorded[h][2]
    BY <1>1, <2>1 DEF Within
  <2>3. recorded[h][2] \in Nat
    BY <1>2
  <2>4. recorded[h][2] <= last_finished[q]
    BY <1>3, <2>2 DEF HostEventDone
  <2>5. /\ last_finished[q] \in Nat /\ last_finished[q] + i \in Nat
        /\ last_finished[q] < last_finished[q] + i
    BY <1>0 DEF QueuePlaces
  <2>. QED
    BY <2>2, <2>3, <2>4, <2>5, SMT
<1>4. ASSUME NEW x \in Covers(c, t), NEW n PROVE ~Covered(x, n)
  <2>1. SUFFICES ASSUME NEW i \in DOMAIN queue[x[3]], Stands(x, i) PROVE FALSE
    BY <1>1 DEF Covered, Behind
  <2>2. x[1] \in CpuSlot /\ x[3] \in Queue
    BY CoverFacts, QueuesAre
  <2>3. HostEventDone(recorded[x[1]])
    <3>1. x[1] \in {<<c, t, k>> : k \in CpuKind}
      BY CoverFacts
    <3>. QED
      BY <3>1 DEF HostDone
  <2>. QED
    BY <1>3, <2>1, <2>2, <2>3 DEF Stands
<1>5. ASSUME NEW x \in Covers(c, t), NEW i PROVE ~Ahead(x, i)
  <2>1. x[3] \in DriverQueue
    BY CoverFacts
  <2>2. Ev(x) = slot[x[2]]
    BY <1>1 DEF Ev
  <2>3. DevEventDone(slot[x[2]])
    <3>1. x[2] \in {<<c, t, k>> : k \in DevKind}
      BY CoverFacts
    <3>. QED
      BY <3>1
  <2>. QED
    BY <2>1, <2>2, <2>3 DEF Ahead, DevEventDone
<1>6. NoJobs(c, t)
  <2>1. ASSUME NEW q \in DriverQueue, q[1] = c, NEW i \in DOMAIN queue[q], IsJob(queue[q][i]),
               queue[q][i].tile = t
        PROVE  FALSE
    <3>1. \E x \in Covers(q[1], queue[q][i].tile) :
            x[3] = q /\ Covered(x, last_finished[q] + i)
      BY <2>1 DEF JobsCovered
    <3>2. PICK n : n = last_finished[q] + i
      OBVIOUS
    <3>3. \E x \in Covers(c, t) : Covered(x, n)
      BY <2>1, <3>1, <3>2, Zenon
    <3>. QED
      BY <1>4, <3>3
  <2>2. ASSUME NEW q \in DriverQueue, q[1] = c, NEW i \in DOMAIN running[q],
               running[q][i].tile = t
        PROVE  FALSE
    <3>1. \E x \in Covers(q[1], running[q][i].tile) :
            x[3] = q /\ (Covered(x, 0) \/ Ahead(x, i))
      BY <2>2 DEF JobsCovered
    <3>2. \E x \in Covers(c, t) : Covered(x, 0) \/ Ahead(x, i)
      BY <2>2, <3>1, Zenon
    <3>. QED
      BY <1>4, <1>5, <3>2
  <2>. QED
    BY <2>1, <2>2 DEF NoJobs
<1>7. NoHostJobs(t)
  <2>1. SUFFICES ASSUME NEW i \in DOMAIN queue[HostQueue], IsJob(queue[HostQueue][i]),
                        queue[HostQueue][i].tile = t
                 PROVE  FALSE
    BY DEF NoHostJobs
  <2>2. PICK h \in HostSlots(queue[HostQueue][i].tile) :
          Within(h, HostQueue, last_finished[HostQueue] + i)
    BY <2>1 DEF HostCovered
  <2>3. h \in CpuSlot /\ HostEventDone(recorded[h])
    BY <2>1, <2>2, SlotKinds DEF HostDone
  <2>. QED
    BY <1>3, <2>1, <2>2, <2>3, QueuesAre
<1>. QED
  BY <1>6, <1>7

\* What a wait tells.
LEMMA WaitTells ==
  ASSUME MainStep, NEW c \in Ctrl, NEW t \in Tiles
  PROVE  /\ Head(todo) = HostWait(c, t) => HostDone(c, t) /\ HostDone(c, t)'
         /\ Head(todo) = DevWait(c, t) => \A k \in DevKind : DevEventDone(slot[<<c, t, k>>])
<1>1. ASSUME Head(todo) = HostWait(c, t) PROVE HostDone(c, t) /\ HostDone(c, t)'
  <2>1. /\ Head(todo)[1] = "wait"
        /\ Head(todo)[2] = HostSlots(t) \cup {<<c, t, k>> : k \in CpuKind}
    BY <1>1 DEF HostWait
  <2>2. /\ \A s \in Head(todo)[2] : IF IsDev(s) THEN DevEventDone(slot[s])
                                                ELSE HostEventDone(recorded[s])
        /\ recorded' = recorded /\ last_finished' = last_finished
    BY <2>1, CallFrames
  <2>3. \A s \in CpuSlot : ~IsDev(s)
    BY DEF CpuSlot
  <2>4. \A s \in Head(todo)[2] : s \in CpuSlot
    BY <2>1, SlotKinds
  <2>5. HostDone(c, t)
    BY <2>1, <2>2, <2>3, <2>4 DEF HostDone
  <2>. QED
    BY <2>2, <2>5 DEF HostDone, HostEventDone
<1>2. ASSUME Head(todo) = DevWait(c, t), NEW k \in DevKind PROVE DevEventDone(slot[<<c, t, k>>])
  <2>1. Head(todo)[1] = "wait" /\ Head(todo)[2] = {<<c, t, j>> : j \in DevKind}
    BY <1>2 DEF DevWait
  <2>2. \A s \in Head(todo)[2] : IF IsDev(s) THEN DevEventDone(slot[s])
                                             ELSE HostEventDone(recorded[s])
    BY <2>1, CallFrames
  <2>3. IsDev(<<c, t, k>>)
    BY DEF IsDev
  <2>. QED
    BY <2>1, <2>2, <2>3
<1>. QED
  BY <1>1, <1>2

\* A round of a free.
LEMMA RoundStep ==
  ASSUME LifecycleInv, MemoryInv, Quiet(Left), MainStep, NEW c \in Ctrl, NEW t \in Tiles,
         NEW rest \in Seq(CallOps), RoundLeft(c, t, rest), Unselected(t)
  PROVE  /\ Safe /\ Unselected(t)'
         /\ RoundLeft(c, t, rest)' \/ HostLeft(t, rest)' \/ todo' = rest
<1>. DEFINE a == HostWait(c, t)
            b == DevWait(c, t)
            d == TileRelease(c, t)
            e == <<"detach", c, t>>
<1>0. /\ TypeInv /\ RecordsInv /\ TodoForm
      /\ JobsCovered /\ HostCovered /\ JobsAlive /\ MemInv
  BY DEF LifecycleInv, MemoryInv
<1>1. /\ a[1] = "wait" /\ b[1] = "wait" /\ d[1] = "release" /\ d[2] = ImplSlots(c, t)
      /\ e[1] = "detach" /\ e[2] = c /\ e[3] = t
  BY DEF HostWait, DevWait, TileRelease
<1>2. OpOK
  BY <1>0, NextAction, HeadFacts
<1>3. NoJobs(c, t) /\ Calm => NoJobs(c, t)'
  BY DEF NoJobs, Calm
<1>4. NoHostJobs(t) /\ Calm => NoHostJobs(t)'
  BY DEF NoHostJobs, Calm
<1>5. /\ todo = <<a, b, d, e>> \o rest => Head(todo) = a /\ Tail(todo) = <<b, d, e>> \o rest
      /\ todo = <<b, d, e>> \o rest => Head(todo) = b /\ Tail(todo) = <<d, e>> \o rest
      /\ todo = <<d, e>> \o rest => Head(todo) = d /\ Tail(todo) = <<e>> \o rest
      /\ todo = <<e>> \o rest => Head(todo) = e /\ Tail(todo) = rest
  <2>. HIDE DEF a, b, d, e
  <2>1. /\ Head(<<a, b, d, e>> \o rest) = a /\ Tail(<<a, b, d, e>> \o rest) = <<b, d, e>> \o rest
        /\ Head(<<b, d, e>> \o rest) = b /\ Tail(<<b, d, e>> \o rest) = <<d, e>> \o rest
    BY ONLY Prefixed, rest \in Seq(CallOps)
  <2>2. /\ Head(<<d, e>> \o rest) = d /\ Tail(<<d, e>> \o rest) = <<e>> \o rest
        /\ Head(<<e>> \o rest) = e /\ Tail(<<e>> \o rest) = rest
    BY ONLY Prefixed, rest \in Seq(CallOps)
  <2>. QED
    BY ONLY <2>1, <2>2
<1>6. CASE todo = <<a, b, d, e>> \o rest
  <2>1. Head(todo) = a /\ Tail(todo) = <<b, d, e>> \o rest /\ Head(todo)[1] = "wait"
    BY <1>1, <1>5, <1>6
  <2>2. Safe
    BY <1>0, <2>1, PlainSafe
  <2>3. todo' = <<b, d, e>> \o rest /\ records' = records
    BY <2>1, Frames
  <2>4. HostDone(c, t)'
    BY <2>1, WaitTells
  <2>. QED
    BY <2>2, <2>3, <2>4 DEF RoundLeft, Unselected, Live
<1>7. CASE todo = <<b, d, e>> \o rest /\ HostDone(c, t)
  <2>1. Head(todo) = b /\ Tail(todo) = <<d, e>> \o rest /\ Head(todo)[1] = "wait"
    BY <1>1, <1>5, <1>7
  <2>2. Safe
    BY <1>0, <2>1, PlainSafe
  <2>3. todo' = <<d, e>> \o rest /\ records' = records
    BY <2>1, Frames
  <2>4. NoJobs(c, t) /\ NoHostJobs(t)
    BY <1>0, <1>7, <2>1, WaitTells, WaitedFor
  <2>5. NoJobs(c, t)' /\ NoHostJobs(t)'
    BY <1>3, <1>4, <2>2, <2>4 DEF Safe
  <2>. QED
    BY <2>2, <2>3, <2>5 DEF RoundLeft, Unselected, Live
<1>8. CASE todo = <<d, e>> \o rest /\ NoJobs(c, t) /\ NoHostJobs(t)
  <2>1. /\ Head(todo) = d /\ Tail(todo) = <<e>> \o rest
        /\ Head(todo)[1] = "release" /\ Head(todo)[2] = ImplSlots(c, t)
    BY <1>1, <1>5, <1>8
  <2>2. Safe
    <3>1. Idle(Head(todo)[2])
      BY <1>8, <2>1 DEF Idle
    <3>. QED
      BY <1>0, <2>1, <3>1, PlainSafe
  <2>3. todo' = <<e>> \o rest /\ records' = records
    BY <2>1, Frames
  <2>4. NoJobs(c, t)' /\ NoHostJobs(t)'
    BY <1>3, <1>4, <1>8, <2>2 DEF Safe
  <2>. QED
    BY <2>2, <2>3, <2>4 DEF RoundLeft, Unselected, Live
<1>9. CASE todo = <<e>> \o rest /\ NoJobs(c, t) /\ NoHostJobs(t)
  <2>1. /\ Tail(todo) = rest
        /\ Head(todo)[1] = "detach" /\ Head(todo)[2] = c /\ Head(todo)[3] = t
    BY <1>1, <1>5, <1>9
  <2>2. <<c, t>> \in records
    BY <1>2, <2>1 DEF OpOK
  <2>3. Safe
    BY <1>0, <1>9, <2>1, <2>2, DetachSafe
  <2>4. /\ records' = records \ {<<c, t>>}
        /\ todo' = (IF LastImpl(t) THEN FreeHostInner(t) ELSE <<>>) \o rest
    BY <2>1, Frames
  <2>5. Unselected(t)'
    BY <2>4 DEF Unselected, Live
  <2>6. NoHostJobs(t)'
    BY <1>4, <1>9, <2>3 DEF Safe
  <2>7. HostLeft(t, rest)' \/ todo' = rest
    <3>1. CASE LastImpl(t)
      <4>1. todo' = << <<"release", HostSlots(t)>>, <<"freehost", t>> >> \o rest
        BY <2>4, <3>1 DEF FreeHostInner
      <4>. QED
        BY <2>6, <4>1 DEF HostLeft
    <3>2. CASE ~LastImpl(t)
      <4>1. todo' = <<>> \o rest
        BY <2>4, <3>2
      <4>. QED
        BY <4>1, Prefixed
    <3>. QED
      BY <3>1, <3>2
  <2>. QED
    BY <2>3, <2>5, <2>7
<1>10. \/ todo = <<a, b, d, e>> \o rest
       \/ todo = <<b, d, e>> \o rest /\ HostDone(c, t)
       \/ todo = <<d, e>> \o rest /\ NoJobs(c, t) /\ NoHostJobs(t)
       \/ todo = <<e>> \o rest /\ NoJobs(c, t) /\ NoHostJobs(t)
  BY DEF RoundLeft
<1>. HIDE DEF a, b, d, e
<1>. QED
  BY <1>6, <1>7, <1>8, <1>9, <1>10

\* The host part of a free.
LEMMA HostLeftStep ==
  ASSUME LifecycleInv, MemoryInv, MainStep, NEW t \in Tiles,
         NEW rest \in Seq(CallOps), HostLeft(t, rest), Unselected(t)
  PROVE  /\ Safe /\ Unselected(t)'
         /\ HostLeft(t, rest)' \/ todo' = rest
<1>. DEFINE a == <<"release", HostSlots(t)>>
            b == <<"freehost", t>>
<1>0. TypeInv /\ JobsAlive /\ MemInv /\ NoHostJobs(t)
  BY DEF LifecycleInv, MemoryInv, HostLeft
<1>1. a[1] = "release" /\ a[2] = HostSlots(t) /\ b[1] = "freehost" /\ b[2] = t
  OBVIOUS
<1>2. /\ todo = <<a, b>> \o rest => Head(todo) = a /\ Tail(todo) = <<b>> \o rest
      /\ todo = <<b>> \o rest => Head(todo) = b /\ Tail(todo) = rest
  <2>. HIDE DEF a, b
  <2>1. /\ Head(<<a, b>> \o rest) = a /\ Tail(<<a, b>> \o rest) = <<b>> \o rest
        /\ Head(<<b>> \o rest) = b /\ Tail(<<b>> \o rest) = rest
        /\ <<a, b, a, b>> \o rest # <<>>
    BY Prefixed
  <2>. QED
    BY <2>1
<1>3. NoHostJobs(t) /\ Calm => NoHostJobs(t)'
  BY DEF NoHostJobs, Calm
<1>4. CASE todo = <<a, b>> \o rest
  <2>1. /\ Tail(todo) = <<b>> \o rest
        /\ Head(todo)[1] = "release" /\ Head(todo)[2] = HostSlots(t)
    BY <1>1, <1>2, <1>4
  <2>2. Safe
    <3>1. Idle(Head(todo)[2])
      BY <1>0, <2>1 DEF Idle
    <3>. QED
      BY <1>0, <2>1, <3>1, PlainSafe
  <2>3. todo' = <<b>> \o rest /\ records' = records
    BY <2>1, Frames
  <2>4. NoHostJobs(t)'
    BY <1>0, <1>3, <2>2 DEF Safe
  <2>. QED
    BY <2>2, <2>3, <2>4 DEF HostLeft, Unselected, Live
<1>5. CASE todo = <<b>> \o rest
  <2>1. Tail(todo) = rest /\ Head(todo)[1] = "freehost" /\ Head(todo)[2] = t
    BY <1>1, <1>2, <1>5
  <2>2. Safe
    BY <1>0, <2>1, FreeHostSafe
  <2>3. todo' = rest /\ records' = records \ {<<Host, t>>}
    BY <2>1, Frames
  <2>. QED
    BY <2>2, <2>3 DEF Unselected, Live
<1>. QED
  BY <1>4, <1>5 DEF HostLeft

\* A step of a free.
LEMMA FreeStep ==
  ASSUME LifecycleInv, MemoryInv, Quiet(Left), MainStep, FreeLeft
  PROVE  Safe /\ FreeLeft'
<1>0. /\ TypeInv /\ JobsAlive /\ MemInv /\ todo # <<>>
  BY NextAction DEF LifecycleInv, MemoryInv
<1>1. PICK t \in Tiles, n \in 0 .. NCtrls :
        /\ Unselected(t)
        /\ \/ todo = Loop("freeif", n, t)
           \/ \E c \in Ctrl : RoundLeft(c, t, Loop("freeif", n, t))
           \/ HostLeft(t, Loop("freeif", n, t))
  BY DEF FreeLeft
<1>. DEFINE rest == Loop("freeif", n, t)
<1>2. rest \in Seq(CallOps)
  BY LoopOps
<1>. HIDE DEF rest
<1>3. CASE \E c \in Ctrl : RoundLeft(c, t, rest)
  <2>1. PICK c \in Ctrl : RoundLeft(c, t, rest)
    BY <1>3
  <2>2. /\ Safe /\ Unselected(t)'
        /\ RoundLeft(c, t, rest)' \/ HostLeft(t, rest)' \/ todo' = rest
    BY <1>1, <1>2, <2>1, RoundStep
  <2>. QED
    BY <2>2 DEF FreeLeft, rest
<1>4. CASE HostLeft(t, rest)
  <2>1. /\ Safe /\ Unselected(t)'
        /\ HostLeft(t, rest)' \/ todo' = rest
    BY <1>1, <1>2, <1>4, HostLeftStep
  <2>. QED
    BY <2>1 DEF FreeLeft, rest
<1>5. CASE todo = Loop("freeif", n, t)
  <2>1. n > 0 /\ NCtrls - n \in Ctrl /\ n - 1 \in 0 .. NCtrls
        /\ Head(todo) = <<"freeif", NCtrls - n, t>> /\ Tail(todo) = Loop("freeif", n - 1, t)
    <3>1. n > 0 \/ n = 0
      BY SMT DEF Ctrl
    <3>2. n > 0
      BY <1>0, <1>5, <3>1, LoopFacts
    <3>. QED
      BY <1>5, <3>2, LoopFacts
  <2>. DEFINE c == NCtrls - n
              m == n - 1
              more == Loop("freeif", m, t)
  <2>2. c \in Ctrl /\ m \in 0 .. NCtrls /\ Tail(todo) = more /\ more \in Seq(CallOps)
        /\ Head(todo) = <<"freeif", c, t>>
    BY <2>1, LoopOps
  <2>. HIDE DEF c, m, more
  <2>3. Head(todo)[1] = "freeif" /\ Head(todo)[2] = c /\ Head(todo)[3] = t
    BY <2>2
  <2>4. Safe
    BY <1>0, <2>3, PlainSafe
  <2>5. /\ todo' = (IF Attached(c, t) THEN FreeTile(c, t) ELSE <<>>) \o more
        /\ records' = records
    BY <2>2, <2>3, Frames
  <2>6. Unselected(t)'
    BY <1>1, <2>5 DEF Unselected, Live
  <2>7. RoundLeft(c, t, more)' \/ todo' = more
    <3>1. CASE Attached(c, t)
      <4>1. todo' = <<HostWait(c, t), DevWait(c, t), TileRelease(c, t), <<"detach", c, t>> >>
                    \o more
        BY <2>5, <3>1, FreeTileIs
      <4>. QED
        BY <4>1 DEF RoundLeft
    <3>2. CASE ~Attached(c, t)
      BY <2>2, <2>5, <3>2, Prefixed
    <3>. QED
      BY <3>1, <3>2
  <2>8. \/ todo' = Loop("freeif", m, t)
        \/ RoundLeft(c, t, Loop("freeif", m, t))'
    BY <2>7 DEF more
  <2>9. PICK i \in 0 .. NCtrls : i = m
    BY <2>2
  <2>. QED
    BY <2>2, <2>4, <2>6, <2>8, <2>9 DEF FreeLeft
<1>. QED
  BY <1>1, <1>3, <1>4, <1>5 DEF rest
-----------------------------------------------------------------------------
(* A step of an allocation or a selection.                                 *)

\* A tile that is not on a ctrl has no jobs there.
LEMMA NoRecordNoJobs ==
  ASSUME JobsAlive, NEW c \in Ctrl, NEW t, <<c, t>> \notin records
  PROVE  NoJobs(c, t)
<1>1. \A q \in DriverQueue : q \in Queue /\ q # HostQueue
  BY QueuesAre
<1>2. c # Host
  BY Names
<1>. SUFFICES ASSUME NEW q \in DriverQueue, q[1] = c
              PROVE  /\ \A i \in DOMAIN queue[q] : IsJob(queue[q][i]) => queue[q][i].tile # t
                     /\ \A i \in DOMAIN running[q] : running[q][i].tile # t
  BY DEF NoJobs
<1>3. \A i \in DOMAIN queue[q] : IsJob(queue[q][i]) => <<q[1], queue[q][i].tile>> \in records
  BY <1>1, <1>2 DEF JobsAlive, Alive
<1>4. \A i \in DOMAIN running[q] : <<q[1], running[q][i].tile>> \in records
  BY <1>1, <1>2 DEF JobsAlive, Alive
<1>. QED
  BY <1>3, <1>4

\* Nor has one that is gone on the host.
LEMMA NotLiveNoJobs ==
  ASSUME JobsAlive, NEW t, ~Live(t)
  PROVE  NoHostJobs(t)
<1>1. HostQueue \in Queue /\ HostQueue[1] = Host
  BY QueuesAre DEF HostQueue
<1>. QED
  BY <1>1 DEF JobsAlive, Alive, NoHostJobs

\* A tile gets its record on a ctrl and the events of it.
LEMMA InitLeftStep ==
  ASSUME LifecycleInv, MemoryInv, MainStep, NEW c \in Ctrl, NEW t \in Tiles,
         NEW rest \in Seq(CallOps), InitLeft(c, t, rest)
  PROVE  /\ Safe /\ host_status' = host_status
         /\ InitLeft(c, t, rest)' \/ todo' = rest
         /\ records' = records \/ records' = records \cup {<<c, t>>}
         /\ type' = type \/ type' = type \cup {<<c, t>>}
<1>. DEFINE a == <<"attach", c, t>>
            b == <<"create", ImplSlots(c, t)>>
<1>0. TypeInv /\ RecordsInv /\ TodoForm /\ JobsAlive /\ MemInv
  BY DEF LifecycleInv, MemoryInv
<1>1. /\ a[1] = "attach" /\ a[2] = c /\ a[3] = t
      /\ b[1] = "create" /\ b[2] = ImplSlots(c, t)
  OBVIOUS
<1>2. /\ todo = <<a, b>> \o rest => Head(todo) = a /\ Tail(todo) = <<b>> \o rest
      /\ todo = <<b>> \o rest => Head(todo) = b /\ Tail(todo) = rest
  <2>. HIDE DEF a, b
  <2>1. /\ Head(<<a, b>> \o rest) = a /\ Tail(<<a, b>> \o rest) = <<b>> \o rest
        /\ Head(<<b>> \o rest) = b /\ Tail(<<b>> \o rest) = rest
        /\ <<a, b, a, b>> \o rest # <<>>
    BY Prefixed
  <2>. QED
    BY <2>1
<1>3. CASE todo = <<a, b>> \o rest /\ Backed(c, t)
  <2>1. /\ Tail(todo) = <<b>> \o rest
        /\ Head(todo)[1] = "attach" /\ Head(todo)[2] = c /\ Head(todo)[3] = t
    BY <1>1, <1>2, <1>3
  <2>2. Safe
    BY <1>0, <1>3, <2>1, AttachSafe
  <2>3. /\ todo' = <<b>> \o rest /\ host_status' = host_status
        /\ records' = records \cup {<<c, t>>} /\ type' = type \cup {<<c, t>>}
    BY <2>1, Frames
  <2>4. NoJobs(c, t)'
    <3>1. OpOK
      BY <1>0, NextAction, HeadFacts
    <3>2. ~Attached(c, t)
      BY <2>1, <3>1 DEF OpOK
    <3>3. <<c, t>> \notin records
      BY <1>0, <3>2 DEF RecordsInv
    <3>4. NoJobs(c, t)
      BY <1>0, <3>3, NoRecordNoJobs
    <3>. QED
      BY <2>2, <3>4 DEF NoJobs, Safe, Calm
  <2>. QED
    BY <2>2, <2>3, <2>4 DEF InitLeft
<1>4. CASE todo = <<b>> \o rest /\ NoJobs(c, t)
  <2>1. /\ Tail(todo) = rest
        /\ Head(todo)[1] = "create" /\ Head(todo)[2] = ImplSlots(c, t)
    BY <1>1, <1>2, <1>4
  <2>2. Safe
    <3>1. Idle(Head(todo)[2])
      BY <1>4, <2>1 DEF Idle
    <3>. QED
      BY <1>0, <2>1, <3>1, PlainSafe
  <2>3. /\ todo' = rest /\ host_status' = host_status
        /\ records' = records /\ type' = type
    BY <2>1, Frames
  <2>. QED
    BY <2>2, <2>3
<1>. QED
  BY <1>3, <1>4 DEF InitLeft

\* A step of Ctrl_Alloc.
LEMMA AllocStep ==
  ASSUME LifecycleInv, MemoryInv, MainStep, AllocLeft
  PROVE  Safe /\ OtherLeft'
<1>1. PICK c \in Ctrl, t \in Domains : InitLeft(c, t, <<>>)
  BY DEF AllocLeft
<1>2. t \in Tiles /\ <<>> \in Seq(CallOps)
  BY DEF Tiles
<1>3. Safe /\ (InitLeft(c, t, <<>>)' \/ todo' = <<>>)
  BY <1>1, <1>2, InitLeftStep
<1>. QED
  BY <1>3 DEF OtherLeft, AllocLeft

\* What a selection needs of its tile.
Selecting(s) ==
  /\ Live(Selected[s]) /\ host_status[Selected[s]] # "UNALLOC"
  /\ \A c \in Ctrl : Attached(c, Selected[s]) => <<c, Selected[s]>> \in records

\* A step of the loop of Ctrl_Select.
LEMMA SelectLoopStep ==
  ASSUME LifecycleInv, MemoryInv, MainStep, NEW s \in Selections, NEW n \in 0 .. NCtrls,
         Selecting(s), todo = Loop("selectif", n, s)
  PROVE  /\ Safe /\ Selecting(s)'
         /\ \E m \in 0 .. NCtrls :
              \/ todo' = Loop("selectif", m, s)
              \/ \E c \in Ctrl :
                   InitLeft(c, s, << <<"peek", c, Selected[s]>> >> \o Loop("selectif", m, s))'
<1>0. TypeInv /\ JobsAlive /\ MemInv /\ todo # <<>>
  BY NextAction DEF LifecycleInv, MemoryInv
<1>1. n > 0 /\ NCtrls - n \in Ctrl /\ n - 1 \in 0 .. NCtrls
      /\ Head(todo) = <<"selectif", NCtrls - n, s>> /\ Tail(todo) = Loop("selectif", n - 1, s)
  <2>1. n > 0 \/ n = 0
    BY SMT
  <2>2. n > 0
    BY <1>0, <2>1, LoopFacts
  <2>. QED
    BY <2>2, LoopFacts
<1>. DEFINE c == NCtrls - n
            m == n - 1
            more == Loop("selectif", m, s)
            t == Selected[s]
<1>2. /\ c \in Ctrl /\ m \in 0 .. NCtrls /\ Tail(todo) = more
      /\ Head(todo) = <<"selectif", c, s>>
  BY <1>1
<1>3. s \in Tiles /\ t \in Tiles /\ s \notin Domains
  BY Names, TileLifecycleAssumption
<1>4. more \in Seq(CallOps)
  BY <1>2, <1>3, LoopOps
<1>. HIDE DEF c, m, more
<1>5. Head(todo)[1] = "selectif" /\ Head(todo)[2] = c /\ Head(todo)[3] = s
  BY <1>2
<1>6. Safe
  BY <1>0, <1>5, SelectSafe
<1>7. /\ todo' = (IF Attached(c, t) THEN InitTile(c, s) \o << <<"peek", c, t>> >> ELSE <<>>)
                 \o more
      /\ type' = type /\ records' = records /\ host_status' = host_status
  BY <1>2, <1>5, Frames
<1>8. Selecting(s)'
  BY <1>7 DEF Selecting, Attached, Live
<1>9. CASE Attached(c, t)
  <2>1. Backed(c, s)'
    BY <1>2, <1>3, <1>7, <1>9 DEF Backed, Selecting
  <2>. DEFINE v == <<"attach", c, s>>
              w == <<"create", ImplSlots(c, s)>>
              u == <<"peek", c, t>>
  <2>2. v \in CallOps /\ w \in CallOps /\ u \in CallOps
    <3>1. ImplSlots(c, s) \in SUBSET Slot
      BY <1>2, <1>3, SlotKinds
    <3>2. v \in CallOps /\ u \in CallOps
      BY <1>2, <1>3, CallOpsAre
    <3>3. w \in CallOps
      BY <3>1, CallOpsAre
    <3>. QED
      BY <3>2, <3>3
  <2>3. todo' = (<<v, w>> \o <<u>>) \o more
    BY <1>7, <1>9, FreeTileIs
  <2>. HIDE DEF v, w, u
  <2>4. Cat(Cat(<<v, w>>, <<u>>), more) = Cat(<<v, w>>, Cat(<<u>>, more))
    <3>1. <<v, w>> \in Seq(CallOps) /\ <<u>> \in Seq(CallOps)
      BY <2>2
    <3>2. \A x, y, z \in Seq(CallOps) : Cat(Cat(x, y), z) = Cat(x, Cat(y, z))
      BY CatAssociative
    <3>. QED
      BY ONLY <1>4, <3>1, <3>2, Zenon
  <2>5. todo' = <<v, w>> \o (<<u>> \o more)
    BY <2>3, <2>4 DEF Cat
  <2>6. InitLeft(c, s, << <<"peek", c, t>> >> \o more)'
    BY <2>1, <2>5 DEF InitLeft, v, w, u
  <2>7. InitLeft(c, s, << <<"peek", c, Selected[s]>> >> \o Loop("selectif", m, s))'
    BY <2>6 DEF more
  <2>8. PICK d \in Ctrl : d = c
    BY <1>2
  <2>9. PICK i \in 0 .. NCtrls : i = m
    BY <1>2
  <2>10. InitLeft(d, s, << <<"peek", d, Selected[s]>> >> \o Loop("selectif", i, s))'
    BY <2>7, <2>8, <2>9
  <2>. QED
    BY <1>6, <1>8, <2>10
<1>10. CASE ~Attached(c, t)
  <2>1. todo' = more
    BY <1>4, <1>7, <1>10, Prefixed
  <2>. QED
    BY <1>2, <1>6, <1>8, <2>1 DEF more
<1>. QED
  BY <1>9, <1>10

\* A step of Ctrl_Select.
LEMMA SelectStep ==
  ASSUME LifecycleInv, MemoryInv, MainStep, SelectLeft
  PROVE  Safe /\ SelectLeft'
<1>0. TypeInv /\ JobsAlive /\ MemInv
  BY DEF LifecycleInv, MemoryInv
<1>1. PICK s \in Selections, n \in 0 .. NCtrls :
        /\ Selecting(s)
        /\ \/ /\ todo = << <<"domain", s>>, <<"create", HostSlots(s)>> >> \o Loop("selectif", n, s)
              /\ ~Live(s)
           \/ /\ todo = << <<"create", HostSlots(s)>> >> \o Loop("selectif", n, s)
              /\ NoHostJobs(s)
           \/ todo = Loop("selectif", n, s)
           \/ \E c \in Ctrl :
                \/ InitLeft(c, s, << <<"peek", c, Selected[s]>> >> \o Loop("selectif", n, s))
                \/ todo = << <<"peek", c, Selected[s]>> >> \o Loop("selectif", n, s)
  BY DEF SelectLeft, Selecting
<1>. DEFINE rest == Loop("selectif", n, s)
            a == <<"domain", s>>
            b == <<"create", HostSlots(s)>>
            t == Selected[s]
<1>2. s \in Tiles /\ t \in Tiles /\ t # s
  BY Names
<1>3. rest \in Seq(CallOps)
  BY <1>2, LoopOps
<1>4. a[1] = "domain" /\ a[2] = s /\ b[1] = "create" /\ b[2] = HostSlots(s)
  OBVIOUS
<1>5. /\ todo = <<a, b>> \o rest => Head(todo) = a /\ Tail(todo) = <<b>> \o rest
      /\ todo = <<b>> \o rest => Head(todo) = b /\ Tail(todo) = rest
  <2>. HIDE DEF a, b, rest
  <2>1. /\ Head(<<a, b>> \o rest) = a /\ Tail(<<a, b>> \o rest) = <<b>> \o rest
        /\ Head(<<b>> \o rest) = b /\ Tail(<<b>> \o rest) = rest
        /\ <<a, b, a, b>> \o rest # <<>>
    BY <1>3, Prefixed
  <2>. QED
    BY <2>1
<1>6. CASE todo = <<a, b>> \o rest /\ ~Live(s)
  <2>1. Tail(todo) = <<b>> \o rest /\ Head(todo)[1] = "domain" /\ Head(todo)[2] = s
    BY <1>4, <1>5, <1>6
  <2>2. Safe
    BY <1>0, <1>1, <2>1, DomainSafe DEF Selecting
  <2>3. /\ todo' = <<b>> \o rest /\ type' = type /\ host_status' = host_status
        /\ records' = records \cup {<<Host, s>>}
    BY <2>1, Frames
  <2>4. NoHostJobs(s)'
    <3>1. NoHostJobs(s)
      BY <1>0, <1>6, NotLiveNoJobs
    <3>. QED
      BY <2>2, <3>1 DEF NoHostJobs, Safe, Calm
  <2>5. Selecting(s)'
    BY <1>1, <2>3 DEF Selecting, Attached, Live
  <2>. QED
    BY <2>2, <2>3, <2>4, <2>5 DEF SelectLeft, Selecting
<1>7. CASE todo = <<b>> \o rest /\ NoHostJobs(s)
  <2>1. Tail(todo) = rest /\ Head(todo)[1] = "create" /\ Head(todo)[2] = HostSlots(s)
    BY <1>4, <1>5, <1>7
  <2>2. Safe
    <3>1. Idle(Head(todo)[2])
      BY <1>2, <1>7, <2>1 DEF Idle
    <3>. QED
      BY <1>0, <2>1, <3>1, PlainSafe
  <2>3. todo' = rest /\ type' = type /\ host_status' = host_status /\ records' = records
    BY <2>1, Frames
  <2>4. Selecting(s)'
    BY <1>1, <2>3 DEF Selecting, Attached, Live
  <2>. QED
    BY <2>2, <2>3, <2>4 DEF SelectLeft, Selecting
<1>8. CASE todo = rest
  <2>1. /\ Safe /\ Selecting(s)'
        /\ \E m \in 0 .. NCtrls :
             \/ todo' = Loop("selectif", m, s)
             \/ \E c \in Ctrl :
                  InitLeft(c, s, << <<"peek", c, Selected[s]>> >> \o Loop("selectif", m, s))'
    BY <1>1, <1>8, SelectLoopStep
  <2>. QED
    BY <2>1 DEF SelectLeft, Selecting
<1>9. ASSUME NEW c \in Ctrl, InitLeft(c, s, << <<"peek", c, t>> >> \o rest)
      PROVE  Safe /\ SelectLeft'
  <2>. DEFINE u == <<"peek", c, t>>
              more == <<u>> \o rest
  <2>1. more \in Seq(CallOps)
    <3>1. u \in CallOps
      BY <1>2, CallOpsAre
    <3>. HIDE DEF u, rest
    <3>. QED
      BY <1>3, <3>1, PrefixedOps
  <2>2. InitLeft(c, s, more)
    BY <1>9
  <2>. HIDE DEF more
  <2>3. /\ Safe /\ host_status' = host_status
        /\ InitLeft(c, s, more)' \/ todo' = more
        /\ records' = records \/ records' = records \cup {<<c, s>>}
        /\ type' = type \/ type' = type \cup {<<c, s>>}
    BY <1>2, <2>1, <2>2, InitLeftStep
  <2>4. Selecting(s)'
    BY <1>1, <1>2, <2>3 DEF Selecting, Attached, Live
  <2>. QED
    BY <2>3, <2>4 DEF SelectLeft, Selecting, more
<1>10. ASSUME NEW c \in Ctrl, todo = << <<"peek", c, t>> >> \o rest
       PROVE  Safe /\ SelectLeft'
  <2>. DEFINE u == <<"peek", c, t>>
  <2>1. Head(todo) = u /\ Tail(todo) = rest
    <3>. HIDE DEF u, rest
    <3>1. Head(<<u>> \o rest) = u /\ Tail(<<u>> \o rest) = rest /\ <<u, u, u, u>> \o rest # <<>>
      BY <1>3, Prefixed
    <3>. QED
      BY <1>10, <3>1 DEF u
  <2>2. Head(todo)[1] = "peek"
    BY <2>1
  <2>3. Safe
    BY <1>0, <2>2, PlainSafe
  <2>4. todo' = rest /\ type' = type /\ host_status' = host_status /\ records' = records
    BY <2>1, <2>2, Frames
  <2>5. Selecting(s)'
    BY <1>1, <2>4 DEF Selecting, Attached, Live
  <2>. QED
    BY <2>3, <2>4, <2>5 DEF SelectLeft, Selecting
<1>. QED
  BY <1>1, <1>6, <1>7, <1>8, <1>9, <1>10

\* So a step of any other call keeps the invariant.
LEMMA OtherStep ==
  ASSUME LifecycleInv, LifecycleInv', MemoryInv, OtherLeft, MainStep
  PROVE  MemoryInv'
<1>0. /\ TypeInv /\ TypeInv' /\ JobsCovered /\ HostCovered /\ JobsAlive /\ todo # <<>>
  BY NextAction DEF LifecycleInv, MemoryInv
<1>1. Quiet(Left)
  BY OtherQuiet
<1>2. Safe /\ OtherLeft'
  <2>1. CASE FreeLeft
    BY <1>1, <2>1, FreeStep DEF OtherLeft
  <2>2. CASE AllocLeft
    BY <2>2, AllocStep
  <2>3. CASE SelectLeft
    BY <2>3, SelectStep DEF OtherLeft
  <2>. QED
    BY <1>0, <2>1, <2>2, <2>3 DEF OtherLeft
<1>3. Quiet(Left)'
  BY <1>2, OtherQuiet, PTL
<1>4. JobsCovered' /\ HostCovered'
  BY <1>0, <1>1, <1>2, <1>3, CalmKeeps DEF Safe
<1>. QED
  BY <1>2, <1>4 DEF MemoryInv, Safe, CallLeft
-----------------------------------------------------------------------------
(* A call.                                                                 *)

\* What a call leaves as it is, and what it may do to the statuses.
CallFrame ==
  /\ todo = <<>>
  /\ queue' = queue /\ last_finished' = last_finished /\ pushed' = pushed
  /\ running' = running /\ slot' = slot /\ recorded' = recorded
  /\ type' = type /\ records' = records
CallStatus ==
  /\ \A t \in Tiles : host_status[t] # "UNALLOC" => host_status'[t] # "UNALLOC"
  /\ memory \subseteq memory'
  /\ \A t \in Domains : host_status[t] = "UNALLOC" /\ host_status'[t] # "UNALLOC" =>
       <<Host, t>> \in memory'
  /\ \A c \in Ctrl, t \in Domains : Allocated(<<c, t>>)' =>
       Allocated(<<c, t>>) \/ Attached(c, t) \/ <<c, t>> \in memory'

\* The operations of a new call start with no event of a job in use.
LEMMA CallCovers ==
  ASSUME TypeInv, TypeInv', JobsCovered, HostCovered, JobsAlive, CallFrame, Fresh(Left')
  PROVE  JobsCovered' /\ HostCovered'
<1>0. QueueTypes /\ QueueTypes'
  BY DEF TypeInv
<1>1. UNCHANGED queueVars /\ running' = running /\ slot' = slot /\ recorded' = recorded
  BY DEF CallFrame, queueVars
<1>2. Grows /\ Added(Host, NoTile)
  BY <1>0, <1>1, StillGrows
<1>3. Left = {}
  BY DEF CallFrame, Left, Elems
<1>4. \A x : ~Promised(Left, x) /\ ~Sharing(Left, x)
  BY <1>3 DEF Promised, Pushing, Sharing
<1>5. \A h, q : KeepsRecord(h, q)
  BY <1>1, <1>3 DEF KeepsRecord, Within
<1>6. ASSUME NEW x \in AllCovers PROVE Keeps(x)
  <2>1. CASE Sharing(Left', x)
    <3>1. Promised(Left', x)
      BY <2>1 DEF Fresh
    <3>. QED
      BY <3>1 DEF Keeps, Promised, Pushing, Recording, Sharing
  <2>2. CASE ~Sharing(Left', x)
    <3>1. Ev(x)' = Ev(x)
      BY <1>1, <1>4, <2>2 DEF Ev, Sharing
    <3>. QED
      BY <1>4, <1>5, <3>1 DEF Keeps
  <2>. QED
    BY <2>1, <2>2
<1>7. JobsCovered'
  <2>1. \A d \in Ctrl, s \in Tiles : \A x \in Covers(d, s) : Keeps(x)
    BY <1>6, CoverFacts
  <2>2. \A q \in DriverQueue : \A i \in DOMAIN queue'[q] :
          IsJob(queue[q][i])' /\ i \notin DOMAIN queue[q] =>
            \E x \in Covers(q[1], queue'[q][i].tile) :
              x[3] = q /\ Covered(x, last_finished[q] + i)'
    BY <1>2, Zenon DEF Added
  <2>. QED
    BY <1>0, <1>2, <2>1, <2>2, JobsStayCovered
<1>8. HostCovered'
  <2>1. \A i \in DOMAIN queue'[HostQueue] :
          IsJob(queue[HostQueue][i])' /\ i \notin DOMAIN queue[HostQueue] =>
            \E h \in HostSlots(queue'[HostQueue][i].tile) :
              Within(h, HostQueue, last_finished[HostQueue] + i)'
    BY <1>2, Zenon DEF Added
  <2>. QED
    BY <1>0, <1>2, <1>5, <2>1, HostTasksStayCovered
<1>. QED
  BY <1>7, <1>8

\* So a call keeps the invariant.
LEMMA CallSafe ==
  ASSUME TypeInv, TypeInv', RecordsInv, MemoryInv, CallFrame, CallStatus,
         OtherLeft' \/ (JobLeft' /\ Fresh(Left'))
  PROVE  MemoryInv'
<1>0. JobsCovered /\ HostCovered /\ JobsAlive /\ MemInv
  BY DEF MemoryInv
<1>1. Fresh(Left')
  <2>1. CASE OtherLeft'
    <3>1. Quiet(Left)'
      BY <2>1, OtherQuiet, PTL
    <3>2. Quiet(Left')
      BY <3>1 DEF Quiet
    <3>3. PICK T : T = Left'
      OBVIOUS
    <3>4. \A x : ~Sharing(T, x)
      BY <3>2, <3>3, QuietFacts
    <3>. QED
      BY <3>3, <3>4 DEF Fresh
  <2>. QED
    BY <2>1
<1>2. JobsCovered' /\ HostCovered'
  BY <1>0, <1>1, CallCovers
<1>3. \A t : Live(t)' <=> Live(t)
  BY DEF CallFrame, Live
<1>4. JobsAlive'
  <2>1. /\ \A c \in Ctrl, t \in Tiles : <<c, t>> \in records =>
             <<c, t>> \in records' \/ NoJobs(c, t)
        /\ \A t \in Tiles : Live(t) /\ host_status[t] # "UNALLOC" =>
             (Live(t)' /\ host_status'[t] # "UNALLOC") \/ NoHostJobs(t)
    BY <1>3 DEF CallFrame, CallStatus
  <2>2. queue' = queue /\ running' = running
    BY DEF CallFrame
  <2>. QED
    BY <1>0, <2>1, <2>2, AliveKept
<1>5. MemInv'
  <2>0. type' = type /\ records' = records
    BY DEF CallFrame
  <2>1. \A c \in Ctrl, t \in Domains : <<c, t>> \in records' => <<c, t>> \in memory'
    BY <1>0, <2>0 DEF MemInv, CallStatus
  <2>2. \A t \in Domains : Live(t)' /\ host_status'[t] # "UNALLOC" => <<Host, t>> \in memory'
    BY <1>0, <1>3 DEF MemInv, CallStatus
  <2>3. \A s \in Selections :
          Live(s)' => Live(Selected[s])' /\ host_status'[Selected[s]] # "UNALLOC"
    BY <1>0, <1>3, Names DEF MemInv, CallStatus
  <2>4. \A c \in Ctrl, s \in Selections : <<c, s>> \in records' => <<c, Selected[s]>> \in records'
    BY <1>0, <2>0 DEF MemInv
  <2>5. \A c \in Ctrl, t \in Domains :
          ~Attached(c, t)' /\ Allocated(<<c, t>>)' => <<c, t>> \in memory'
    BY <1>0, <2>0 DEF MemInv, CallStatus, Attached
  <2>. QED
    BY <2>1, <2>2, <2>3, <2>4, <2>5 DEF MemInv
<1>. QED
  BY <1>2, <1>4, <1>5 DEF MemoryInv, CallLeft

\* What the calls have in common.
LEMMA CallUnchanged ==
  ASSUME NEW ops, Call(ops), UNCHANGED <<type, records>>
  PROVE  CallFrame /\ todo' = ops /\ Left' = Elems(ops)
BY DEF Call, CallFrame, slotVars, queueVars, Left, Elems

\* Statuses that stay, or become those of the copies a job writes.
LEMMA StatusKept ==
  ASSUME TypeInv, memory' = memory,
         \A t \in Tiles : host_status[t] # "UNALLOC" => host_status'[t] # "UNALLOC",
         \A t \in Domains : host_status[t] = "UNALLOC" => host_status'[t] = "UNALLOC",
         \A c \in Ctrl, t \in Domains : Allocated(<<c, t>>)' =>
            Allocated(<<c, t>>) \/ Attached(c, t)
  PROVE  CallStatus
BY DEF CallStatus

\* Frees.
LEMMA FreeCall ==
  ASSUME LifecycleInv, LifecycleInv', MemoryInv, NEW t \in Tiles,
         FreeAll(t) \/ \E c \in Ctrl : Free(c, t)
  PROVE  MemoryInv'
<1>0. TypeInv /\ TypeInv' /\ RecordsInv
  BY DEF LifecycleInv
<1>1. MayFree(t) /\ UNCHANGED tileVars
  BY DEF FreeAll, Free
<1>2. /\ type' = type /\ records' = records /\ memory' = memory
      /\ host_status' = host_status /\ device_status' = device_status
  BY <1>1 DEF tileVars
<1>3. CallStatus
  <2>1. \A c, s : Allocated(<<c, s>>)' <=> Allocated(<<c, s>>)
    BY <1>2 DEF Allocated
  <2>. QED
    BY <1>0, <1>2, <2>1, StatusKept
<1>4. Unselected(t)'
  BY <1>1, <1>2 DEF MayFree, Unselected, Live
<1>5. CASE FreeAll(t)
  <2>1. Call(IfAttached("freeif", t))
    BY <1>5 DEF FreeAll
  <2>2. CallFrame /\ todo' = Loop("freeif", NCtrls, t) /\ NCtrls \in 0 .. NCtrls
    BY <1>2, <2>1, CallUnchanged, LoopStarts
  <2>3. OtherLeft'
    BY <1>4, <2>2 DEF OtherLeft, FreeLeft
  <2>. QED
    BY <1>0, <1>3, <2>2, <2>3, CallSafe
<1>6. ASSUME NEW c \in Ctrl, Free(c, t) PROVE MemoryInv'
  <2>1. Call(FreeTile(c, t))
    BY <1>6 DEF Free
  <2>. DEFINE l == <<HostWait(c, t), DevWait(c, t), TileRelease(c, t), <<"detach", c, t>> >>
  <2>2. CallFrame /\ todo' = l
    BY <1>2, <2>1, CallUnchanged, FreeTileIs
  <2>3. 0 \in 0 .. NCtrls /\ Loop("freeif", 0, t) = <<>>
    <3>1. 0 \in 0 .. NCtrls
      BY Names, SMT
    <3>. QED
      BY <3>1, LoopFacts
  <2>4. l \o <<>> = l
    OBVIOUS
  <2>. HIDE DEF l
  <2>5. todo' = l \o Loop("freeif", 0, t)
    BY <2>2, <2>3, <2>4
  <2>6. RoundLeft(c, t, Loop("freeif", 0, t))'
    BY <2>5 DEF RoundLeft, l
  <2>7. OtherLeft'
    BY <1>4, <2>3, <2>6 DEF OtherLeft, FreeLeft
  <2>. QED
    BY <1>0, <1>3, <2>2, <2>7, CallSafe
<1>. QED
  BY <1>5, <1>6

\* Ctrl_Alloc: a tile that was freed from a ctrl has no buffer there and no
\* record, and gets neither again.
LEMMA AllocCall ==
  ASSUME LifecycleInv, LifecycleInv', MemoryInv, NEW c \in Ctrl, NEW t \in Tiles, Alloc(c, t)
  PROVE  MemoryInv'
<1>0. TypeInv /\ TypeInv' /\ RecordsInv /\ MemInv
  BY DEF LifecycleInv, MemoryInv
<1>1. /\ Owner(t) /\ Call(InitTileOnce(c, t)) /\ UNCHANGED <<type, records>>
      /\ host_status' = [host_status EXCEPT ![t] = IF @ = "UNALLOC" THEN "INVALID" ELSE @]
      /\ device_status' = [device_status EXCEPT ![<<c, t>>] =
                             IF @ = "UNALLOC" THEN "INVALID" ELSE @]
      /\ memory' = memory \cup {b \in {<<Host, t>>} : host_status[t] = "UNALLOC"}
                          \cup {b \in {<<c, t>>} : ~Allocated(b)}
  BY DEF Alloc, SetStatus
<1>2. CallFrame /\ todo' = InitTileOnce(c, t)
  BY <1>1, CallUnchanged
<1>3. t \in Domains
  BY <1>1 DEF Owner
<1>4. host_status \in [Tiles -> Status] /\ device_status \in [Ctrl \X Tiles -> Status]
  BY <1>0 DEF TypeInv, TileTypes
<1>5. CallStatus
  <2>1. \A s \in Tiles : /\ s # t => host_status'[s] = host_status[s]
                         /\ host_status[s] # "UNALLOC" => host_status'[s] # "UNALLOC"
    BY <1>1, <1>4
  <2>2. memory \subseteq memory'
    BY <1>1
  <2>3. \A s \in Domains : s \in Tiles
    BY DEF Tiles
  <2>4. \A s \in Domains : host_status[s] = "UNALLOC" /\ host_status'[s] # "UNALLOC" =>
          <<Host, s>> \in memory'
    BY <1>1, <2>1, <2>3
  <2>5. ASSUME NEW d \in Ctrl, NEW s \in Domains, Allocated(<<d, s>>)'
        PROVE  Allocated(<<d, s>>) \/ <<d, s>> \in memory'
    <3>1. CASE <<d, s>> = <<c, t>>
      BY <1>1, <3>1
    <3>2. CASE <<d, s>> # <<c, t>>
      <4>1. <<d, s>> \in Ctrl \X Tiles
        BY <2>3
      <4>2. device_status'[<<d, s>>] = device_status[<<d, s>>]
        BY <1>1, <1>4, <3>2, <4>1
      <4>. QED
        BY <2>5, <4>2 DEF Allocated
    <3>. QED
      BY <3>1, <3>2
  <2>. QED
    BY <2>1, <2>2, <2>4, <2>5 DEF CallStatus
<1>6. OtherLeft'
  <2>1. CASE Attached(c, t)
    BY <1>2, <2>1 DEF InitTileOnce, OtherLeft
  <2>2. CASE ~Attached(c, t)
    <3>. DEFINE l == << <<"attach", c, t>>, <<"create", ImplSlots(c, t)>> >>
    <3>1. todo' = l
      BY <1>2, <2>2, FreeTileIs DEF InitTileOnce
    <3>2. l \o <<>> = l
      OBVIOUS
    <3>. HIDE DEF l
    <3>3. todo' = l \o <<>>
      BY <3>1, <3>2
    <3>4. <<c, t>> \in memory'
      BY <1>0, <1>1, <1>3, <2>2 DEF MemInv
    <3>5. InitLeft(c, t, <<>>)'
      BY <1>3, <3>3, <3>4 DEF InitLeft, Backed, l
    <3>. QED
      BY <1>3, <3>5 DEF OtherLeft, AllocLeft
  <2>. QED
    BY <2>1, <2>2
<1>. QED
  BY <1>0, <1>2, <1>5, <1>6, CallSafe

\* Ctrl_Select.
LEMMA SelectCall ==
  ASSUME LifecycleInv, LifecycleInv', MemoryInv, ~Careless, NEW s \in Selections, Select(s)
  PROVE  MemoryInv'
<1>. DEFINE t == Selected[s]
            ops == << <<"domain", s>>, <<"create", HostSlots(s)>> >> \o IfAttached("selectif", s)
<1>0. TypeInv /\ TypeInv' /\ RecordsInv /\ MemInv
  BY DEF LifecycleInv, MemoryInv
<1>1. /\ Live(t) /\ ~Live(s) /\ ~HalfFreed(t)
      /\ \E c \in Ctrl : Attached(c, t)
      /\ Call(ops) /\ UNCHANGED <<type, records>> /\ memory' = memory
      /\ host_status' = [host_status EXCEPT ![s] = host_status[t]]
      /\ device_status' = device_status
  BY DEF Select, SetStatus
<1>2. CallFrame /\ todo' = ops
  <2>. HIDE DEF ops
  <2>. QED
    BY <1>1, CallUnchanged
<1>3. s \in Tiles /\ t \in Tiles /\ t # s /\ s \notin Domains
  BY Names, TileLifecycleAssumption
<1>4. host_status \in [Tiles -> Status]
  BY <1>0 DEF TypeInv, TileTypes
<1>5. host_status[t] # "UNALLOC"
  <2>1. PICK c \in Ctrl : <<c, t>> \in type
    BY <1>1 DEF Attached
  <2>. QED
    BY <1>0, <2>1 DEF RecordsInv
<1>6. /\ \A r \in Tiles : r # s => host_status'[r] = host_status[r]
      /\ host_status'[s] = host_status[t]
  BY <1>1, <1>3, <1>4
<1>7. CallStatus
  <2>1. \A r \in Tiles : host_status[r] # "UNALLOC" => host_status'[r] # "UNALLOC"
    BY <1>5, <1>6
  <2>2. \A r \in Domains : host_status[r] = "UNALLOC" => host_status'[r] = "UNALLOC"
    BY <1>3, <1>6 DEF Tiles
  <2>3. \A c, r : Allocated(<<c, r>>)' <=> Allocated(<<c, r>>)
    BY <1>1 DEF Allocated
  <2>. QED
    BY <1>0, <1>1, <2>1, <2>2, <2>3, StatusKept
<1>8. OtherLeft'
  <2>1. Live(Selected[s])' /\ host_status'[Selected[s]] # "UNALLOC" /\ ~Live(s)'
    BY <1>1, <1>3, <1>5, <1>6 DEF Live
  <2>2. \A c \in Ctrl : Attached(c, Selected[s])' => <<c, Selected[s]>> \in records'
    BY <1>1 DEF HalfFreed, Attached
  <2>3. NCtrls \in 0 .. NCtrls
        /\ todo' = << <<"domain", s>>, <<"create", HostSlots(s)>> >> \o Loop("selectif", NCtrls, s)
    BY <1>2, LoopStarts
  <2>4. SelectLeft'
    BY <2>1, <2>2, <2>3 DEF SelectLeft
  <2>. QED
    BY <2>4 DEF OtherLeft
<1>. QED
  BY <1>0, <1>2, <1>7, <1>8, CallSafe

\* A write elsewhere makes no copy an allocated one.
LEMMA InvalidatedKeeps ==
  ASSUME TypeInv, NEW t, NEW b \in Ctrl \X Tiles, Invalidated(t)[b] # "UNALLOC"
  PROVE  device_status[b] # "UNALLOC"
<1>1. device_status \in [Ctrl \X Tiles -> Status]
  BY DEF TypeInv, TileTypes
<1>2. Invalidated(t)[b] = IF b[2] = t /\ b \in type /\ device_status[b] = "VALID"
                          THEN "INVALID" ELSE device_status[b]
  BY <1>1 DEF Invalidated
<1>3. CASE b[2] = t /\ b \in type /\ device_status[b] = "VALID"
  BY <1>3
<1>4. CASE ~(b[2] = t /\ b \in type /\ device_status[b] = "VALID")
  BY <1>2, <1>4
<1>. QED
  BY <1>3, <1>4

\* A transfer.
LEMMA MoveCall ==
  ASSUME LifecycleInv, LifecycleInv', MemoryInv, NEW c \in Ctrl, NEW t \in Tiles, NEW ops,
         Move(c, t, ops), Before(c, t, ops, {}), Fresh(Elems(ops))
  PROVE  MemoryInv'
<1>0. TypeInv /\ TypeInv' /\ RecordsInv
  BY DEF LifecycleInv
<1>1. /\ Usable(c, t) /\ host_status[t] # "UNALLOC" /\ Call(ops)
      /\ host_status' = [host_status EXCEPT ![t] = "VALID"]
      /\ device_status' = [device_status EXCEPT ![<<c, t>>] = "VALID"]
      /\ UNCHANGED <<type, records>> /\ memory' = memory
  BY DEF Move, JobCall, SetStatus
<1>2. CallFrame /\ todo' = ops /\ Left' = Elems(ops)
  BY <1>1, CallUnchanged
<1>3. host_status \in [Tiles -> Status] /\ device_status \in [Ctrl \X Tiles -> Status]
  BY <1>0 DEF TypeInv, TileTypes
<1>4. CallStatus
  <2>1. \A s \in Tiles : /\ host_status[s] # "UNALLOC" => host_status'[s] # "UNALLOC"
                         /\ host_status[s] = "UNALLOC" => host_status'[s] = "UNALLOC"
    BY <1>1, <1>3
  <2>2. \A d \in Ctrl, s \in Tiles : Allocated(<<d, s>>)' => Allocated(<<d, s>>)
    <3>. SUFFICES ASSUME NEW d \in Ctrl, NEW s \in Tiles, Allocated(<<d, s>>)'
                  PROVE  Allocated(<<d, s>>)
      OBVIOUS
    <3>1. CASE <<d, s>> = <<c, t>>
      BY <1>1, <3>1 DEF Usable
    <3>2. CASE <<d, s>> # <<c, t>>
      BY <1>1, <1>3, <3>2 DEF Allocated
    <3>. QED
      BY <3>1, <3>2
  <2>3. \A s \in Domains : s \in Tiles
    BY DEF Tiles
  <2>. QED
    BY <1>0, <1>1, <2>1, <2>2, <2>3, StatusKept
<1>5. Alive(c, t)'
  BY <1>1, Names DEF Alive, Usable
<1>6. JobLeft'
  BY <1>2, <1>5 DEF JobLeft
<1>. QED
  BY <1>0, <1>2, <1>4, <1>6, CallSafe

\* A launch.
LEMMA LaunchCall ==
  ASSUME LifecycleInv, LifecycleInv', MemoryInv, NEW c \in Ctrl, NEW t \in Tiles, NEW r,
         Launch(c, t, r)
  PROVE  MemoryInv'
<1>. DEFINE ops == LaunchInner(c, t, r)
<1>0. TypeInv /\ TypeInv' /\ RecordsInv
  BY DEF LifecycleInv
<1>1. /\ Usable(c, t) /\ Call(ops) /\ memory' = memory /\ UNCHANGED <<type, records>>
      /\ \/ host_status' = host_status /\ device_status' = device_status
         \/ /\ host_status' = [host_status EXCEPT ![t] = IF @ = "VALID" THEN "INVALID" ELSE @]
            /\ device_status' = [Invalidated(t) EXCEPT ![<<c, t>>] = "VALID"]
  BY DEF Launch, JobCall, SetStatus
<1>2. Before(c, t, ops, {}) /\ Fresh(Elems(ops))
  BY <1>1, LaunchInnerOrdered DEF Usable
<1>. HIDE DEF ops
<1>3. CallFrame /\ todo' = ops /\ Left' = Elems(ops)
  BY <1>1, CallUnchanged
<1>4. host_status \in [Tiles -> Status] /\ Invalidated(t) \in [Ctrl \X Tiles -> Status]
  BY <1>0, InvalidatedTypes DEF TypeInv, TileTypes
<1>5. CallStatus
  <2>1. \A s \in Tiles : /\ host_status[s] # "UNALLOC" => host_status'[s] # "UNALLOC"
                         /\ host_status[s] = "UNALLOC" => host_status'[s] = "UNALLOC"
    BY <1>1, <1>4
  <2>2. \A d \in Ctrl, s \in Tiles : Allocated(<<d, s>>)' => Allocated(<<d, s>>)
    <3>. SUFFICES ASSUME NEW d \in Ctrl, NEW s \in Tiles, Allocated(<<d, s>>)'
                  PROVE  Allocated(<<d, s>>)
      OBVIOUS
    <3>1. CASE <<d, s>> = <<c, t>>
      BY <1>1, <3>1 DEF Usable
    <3>2. CASE <<d, s>> # <<c, t>>
      <4>1. <<d, s>> \in Ctrl \X Tiles
        OBVIOUS
      <4>2. device_status'[<<d, s>>] \in {device_status[<<d, s>>], Invalidated(t)[<<d, s>>]}
        BY <1>1, <1>4, <3>2, <4>1
      <4>. QED
        BY <1>0, <4>1, <4>2, InvalidatedKeeps DEF Allocated
    <3>. QED
      BY <3>1, <3>2
  <2>3. \A s \in Domains : s \in Tiles
    BY DEF Tiles
  <2>. QED
    BY <1>0, <1>1, <2>1, <2>2, <2>3, StatusKept
<1>6. Alive(c, t)'
  BY <1>1, Names DEF Alive, Usable
<1>7. JobLeft'
  BY <1>2, <1>3, <1>6 DEF JobLeft
<1>. QED
  BY <1>0, <1>2, <1>3, <1>5, <1>7, CallSafe

\* A host task.
LEMMA HostTaskCall ==
  ASSUME LifecycleInv, LifecycleInv', MemoryInv, ~Careless, NEW t \in Tiles, NEW r,
         HostTask(t, r)
  PROVE  MemoryInv'
<1>. DEFINE ops == HostTaskInner(t, r)
<1>0. TypeInv /\ TypeInv' /\ RecordsInv
  BY DEF LifecycleInv
<1>1. /\ Live(t) /\ host_status[t] # "UNALLOC" /\ ~HalfFreed(t)
      /\ Call(ops) /\ memory' = memory /\ UNCHANGED <<type, records>>
      /\ \/ host_status' = host_status /\ device_status' = device_status
         \/ /\ host_status' = [host_status EXCEPT ![t] = "VALID"]
            /\ device_status' = Invalidated(t)
  BY DEF HostTask, JobCall, SetStatus
<1>2. Before(Host, t, ops, {}) /\ Fresh(Elems(ops))
  <2>1. \A d \in Ctrl : Attached(d, t) => <<d, t>> \in records
    BY <1>1 DEF HalfFreed
  <2>. QED
    BY <1>1, <2>1, HostTaskOrdered
<1>. HIDE DEF ops
<1>3. CallFrame /\ todo' = ops /\ Left' = Elems(ops)
  BY <1>1, CallUnchanged
<1>4. host_status \in [Tiles -> Status]
  BY <1>0 DEF TypeInv, TileTypes
<1>5. \A s \in Tiles : /\ host_status[s] # "UNALLOC" => host_status'[s] # "UNALLOC"
                       /\ host_status[s] = "UNALLOC" => host_status'[s] = "UNALLOC"
  BY <1>1, <1>4
<1>6. CallStatus
  <2>2. \A d \in Ctrl, s \in Tiles : Allocated(<<d, s>>)' => Allocated(<<d, s>>)
    <3>. SUFFICES ASSUME NEW d \in Ctrl, NEW s \in Tiles, Allocated(<<d, s>>)'
                  PROVE  Allocated(<<d, s>>)
      OBVIOUS
    <3>1. <<d, s>> \in Ctrl \X Tiles
      OBVIOUS
    <3>2. device_status'[<<d, s>>] \in {device_status[<<d, s>>], Invalidated(t)[<<d, s>>]}
      BY <1>1
    <3>. QED
      BY <1>0, <3>1, <3>2, InvalidatedKeeps DEF Allocated
  <2>3. \A s \in Domains : s \in Tiles
    BY DEF Tiles
  <2>. QED
    BY <1>0, <1>1, <1>5, <2>2, <2>3, StatusKept
<1>7. Alive(Host, t)'
  BY <1>1, <1>5 DEF Alive, Live
<1>8. JobLeft'
  BY <1>2, <1>3, <1>7 DEF JobLeft
<1>. QED
  BY <1>0, <1>2, <1>3, <1>6, <1>8, CallSafe

\* So every call keeps the invariant.
LEMMA CallMemory ==
  ASSUME LifecycleInv, LifecycleInv', MemoryInv, ~Careless, CallStep
  PROVE  MemoryInv'
<1>1. ASSUME NEW t \in Tiles, FreeAll(t) \/ \E c \in Ctrl : Free(c, t) PROVE MemoryInv'
  BY <1>1, FreeCall
<1>2. ASSUME NEW t \in Tiles, NEW c \in Ctrl, Alloc(c, t) PROVE MemoryInv'
  BY <1>2, AllocCall
<1>3. ASSUME NEW s \in Selections, Select(s) PROVE MemoryInv'
  BY <1>3, SelectCall
<1>4. ASSUME NEW j \in Jobs,
             \/ j[1] = "moveto" /\ MoveTo(j[2], j[3])
             \/ j[1] = "movefrom" /\ MoveFrom(j[2], j[3])
             \/ j[1] = "launch" /\ Launch(j[2], j[3], j[4])
             \/ j[1] = "hosttask" /\ HostTask(j[3], j[4])
      PROVE  MemoryInv'
  <2>. DEFINE c == j[2]
              t == j[3]
              r == j[4]
  <2>1. t \in Tiles /\ (j[1] # "hosttask" => c \in Ctrl)
    BY TileLifecycleAssumption
  <2>. HIDE DEF c, t, r
  <2>2. ASSUME c \in Ctrl, Usable(c, t)
        PROVE  /\ Before(c, t, MoveToInner(c, t), {}) /\ Fresh(Elems(MoveToInner(c, t)))
               /\ Before(c, t, MoveFromInner(c, t), {}) /\ Fresh(Elems(MoveFromInner(c, t)))
    <3>1. /\ <<c, t>> \in records /\ Live(t)
          /\ \A d \in Ctrl : Attached(d, t) => <<d, t>> \in records
      BY <2>2 DEF Usable, HalfFreed
    <3>. QED
      BY <2>1, <2>2, <3>1, MoveToOrdered, MoveFromOrdered
  <2>3. CASE j[1] = "moveto" /\ MoveTo(c, t)
    <3>1. Move(c, t, MoveToInner(c, t)) /\ Usable(c, t) /\ c \in Ctrl
      BY <2>1, <2>3 DEF MoveTo, Move
    <3>. QED
      BY <2>1, <2>2, <3>1, MoveCall
  <2>4. CASE j[1] = "movefrom" /\ MoveFrom(c, t)
    <3>1. Move(c, t, MoveFromInner(c, t)) /\ Usable(c, t) /\ c \in Ctrl
      BY <2>1, <2>4 DEF MoveFrom, Move
    <3>. QED
      BY <2>1, <2>2, <3>1, MoveCall
  <2>5. CASE j[1] = "launch" /\ Launch(c, t, r)
    <3>1. c \in Ctrl
      BY <2>1, <2>5
    <3>. QED
      BY <2>1, <2>5, <3>1, LaunchCall
  <2>6. CASE j[1] = "hosttask" /\ HostTask(t, r)
    BY <2>1, <2>6, HostTaskCall
  <2>. QED
    BY <1>4, <2>3, <2>4, <2>5, <2>6 DEF c, t, r
<1>. QED
  BY <1>1, <1>2, <1>3, <1>4 DEF CallStep
-----------------------------------------------------------------------------
(* A step of another thread.                                               *)

\* They take the first task of a queue, or the first job of a stream.
ThreadFrame ==
  /\ todo' = todo /\ slot' = slot /\ recorded' = recorded
  /\ type' = type /\ records' = records /\ memory' = memory
  /\ host_status' = host_status /\ device_status' = device_status

\* Where a task is before, k, and after, i.
Same(q, k, i) == queue'[q][i] = queue[q][k] /\ last_finished'[q] + i = last_finished[q] + k

\* The queue a task is taken from moves by one, the others stay.
LEMMA Consumed ==
  ASSUME QueueTypes, NEW q \in Queue, Consume(q)
  PROVE  \A p \in Queue :
           /\ \A i \in DOMAIN queue'[p] : \E k \in DOMAIN queue[p] :
                Same(p, k, i) /\ (p = q => 1 < k)
           /\ \A k \in DOMAIN queue[p] :
                (p = q /\ k = 1) \/ \E i \in DOMAIN queue'[p] : Same(p, k, i)
           /\ last_finished[p] <= last_finished'[p]
<1>1. /\ \A p \in Queue : queue[p] \in Seq(TaskSet) /\ last_finished[p] \in Nat
      /\ queue \in [Queue -> Seq(TaskSet)] /\ last_finished \in [Queue -> Nat]
  BY DEF QueueTypes
<1>2. /\ queue' = [queue EXCEPT ![q] = Tail(queue[q])] /\ queue[q] # <<>>
      /\ last_finished' = [last_finished EXCEPT ![q] = last_finished[q] + 1]
  BY DEF Consume
<1>3. /\ queue'[q] = Tail(queue[q]) /\ last_finished'[q] = last_finished[q] + 1
      /\ \A p \in Queue : p # q => queue'[p] = queue[p] /\ last_finished'[p] = last_finished[p]
  BY <1>1, <1>2
<1>. TAKE p \in Queue
<1>4. CASE p # q
  <2>1. queue'[p] = queue[p] /\ last_finished'[p] = last_finished[p] /\ last_finished[p] \in Nat
    BY <1>1, <1>3, <1>4
  <2>2. last_finished[p] <= last_finished'[p]
    BY <2>1, SMT
  <2>. QED
    BY <1>4, <2>1, <2>2 DEF Same
<1>5. CASE p = q
  <2>. DEFINE l == queue[q]
              n == Len(l)
              f == last_finished[q]
  <2>1. /\ n \in Nat \ {0} /\ DOMAIN l = 1 .. n /\ DOMAIN Tail(l) = 1 .. n - 1
        /\ \A i \in 1 .. n - 1 : Tail(l)[i] = l[i + 1]
        /\ f \in Nat
    BY <1>1, <1>2, Tailed
  <2>2. queue'[q] = Tail(l) /\ last_finished'[q] = f + 1
    BY <1>3
  <2>. HIDE DEF l, n, f
  <2>3. /\ \A i \in 1 .. n - 1 : /\ i + 1 \in 1 .. n /\ 1 < i + 1
                                 /\ (f + 1) + i = f + (i + 1)
        /\ \A k \in 1 .. n : k = 1 \/ (k - 1 \in 1 .. n - 1 /\ (k - 1) + 1 = k
                                       /\ (f + 1) + (k - 1) = f + k)
        /\ f <= f + 1
    <3>1. n \in Nat /\ f \in Nat
      BY <2>1
    <3>. QED
      BY ONLY <3>1, SMT
  <2>4. ASSUME NEW i \in DOMAIN queue'[q]
        PROVE  \E k \in DOMAIN queue[q] : Same(q, k, i) /\ 1 < k
    <3>1. i \in 1 .. n - 1
      BY <2>1, <2>2, <2>4
    <3>2. PICK k \in 1 .. n : k = i + 1 /\ 1 < k /\ (f + 1) + i = f + k
      BY <2>3, <3>1
    <3>3. Tail(l)[i] = l[k]
      BY <2>1, <3>1, <3>2
    <3>4. Same(q, k, i)
      BY <2>2, <3>2, <3>3 DEF Same, l, f
    <3>. QED
      BY <2>1, <3>2, <3>4 DEF l
  <2>5. ASSUME NEW k \in DOMAIN queue[q], k # 1
        PROVE  \E i \in DOMAIN queue'[q] : Same(q, k, i)
    <3>1. k \in 1 .. n
      BY <2>1, <2>5 DEF l
    <3>2. PICK i \in 1 .. n - 1 : i = k - 1 /\ i + 1 = k /\ (f + 1) + i = f + k
      BY <2>3, <2>5, <3>1
    <3>3. Tail(l)[i] = l[k]
      BY <2>1, <3>2
    <3>4. Same(q, k, i)
      BY <2>2, <3>2, <3>3 DEF Same, l, f
    <3>. QED
      BY <2>1, <2>2, <3>4
  <2>6. last_finished[q] <= last_finished'[q]
    BY <2>2, <2>3 DEF f
  <2>. QED
    BY <1>5, <2>4, <2>5, <2>6
<1>. QED
  BY <1>4, <1>5

\* No job is new, and none is taken back.
Fewer ==
  /\ \A q \in Queue :
       /\ last_finished[q] <= last_finished'[q]
       /\ \A i \in DOMAIN queue'[q] : \E k \in DOMAIN queue[q] : Same(q, k, i)
  /\ \A q \in DriverQueue : \A i \in DOMAIN running'[q] :
       \/ \E k \in DOMAIN running[q] : running'[q][i] = running[q][k]
       \/ \E k \in DOMAIN queue[q] : IsJob(queue[q][k]) /\ running'[q][i] = queue[q][k]

\* So what is left of the call is as before.
LEMMA ThreadLeft ==
  ASSUME TypeInv, TypeInv', ThreadFrame, Fewer, CallLeft
  PROVE  CallLeft'
<1>0. /\ todo' = todo /\ type' = type /\ records' = records /\ memory' = memory
      /\ host_status' = host_status /\ recorded' = recorded
  BY DEF ThreadFrame
<1>1. ASSUME NEW c, NEW t, NoJobs(c, t) PROVE NoJobs(c, t)'
  <2>1. ASSUME NEW q \in DriverQueue, q[1] = c, NEW i \in DOMAIN queue'[q], IsJob(queue[q][i])'
        PROVE  queue'[q][i].tile # t
    <3>1. q \in Queue
      BY QueuesAre
    <3>2. PICK k \in DOMAIN queue[q] : queue'[q][i] = queue[q][k]
      BY <2>1, <3>1 DEF Fewer, Same
    <3>3. IsJob(queue[q][k])
      BY <2>1, <3>2 DEF IsJob
    <3>. QED
      BY <1>1, <2>1, <3>2, <3>3 DEF NoJobs
  <2>2. ASSUME NEW q \in DriverQueue, q[1] = c, NEW i \in DOMAIN running'[q]
        PROVE  running'[q][i].tile # t
    <3>1. CASE \E k \in DOMAIN running[q] : running'[q][i] = running[q][k]
      BY <1>1, <2>2, <3>1 DEF NoJobs
    <3>2. CASE \E k \in DOMAIN queue[q] : IsJob(queue[q][k]) /\ running'[q][i] = queue[q][k]
      BY <1>1, <2>2, <3>2 DEF NoJobs
    <3>. QED
      BY <2>2, <3>1, <3>2 DEF Fewer
  <2>. QED
    BY <2>1, <2>2 DEF NoJobs
<1>2. ASSUME NEW t, NoHostJobs(t) PROVE NoHostJobs(t)'
  <2>1. SUFFICES ASSUME NEW i \in DOMAIN queue'[HostQueue], IsJob(queue[HostQueue][i])'
                 PROVE  queue'[HostQueue][i].tile # t
    BY DEF NoHostJobs
  <2>2. PICK k \in DOMAIN queue[HostQueue] : queue'[HostQueue][i] = queue[HostQueue][k]
    BY <2>1, QueuesAre DEF Fewer, Same
  <2>3. IsJob(queue[HostQueue][k])
    BY <2>1, <2>2 DEF IsJob
  <2>. QED
    BY <1>2, <2>2, <2>3 DEF NoHostJobs
<1>3. ASSUME NEW c \in Ctrl, NEW t \in Tiles, HostDone(c, t) PROVE HostDone(c, t)'
  <2>1. ASSUME NEW h \in CpuSlot, HostEventDone(recorded[h]) PROVE HostEventDone(recorded[h])'
    <3>1. recorded[h] \in Queue \X Nat
      BY DEF TypeInv
    <3>. DEFINE q == recorded[h][1]
                m == recorded[h][2]
    <3>2. q \in Queue /\ m \in Nat /\ last_finished[q] >= m
      BY <2>1, <3>1 DEF HostEventDone
    <3>3. last_finished[q] \in Nat /\ last_finished'[q] \in Nat
      BY <3>2 DEF TypeInv, QueueTypes
    <3>4. last_finished[q] <= last_finished'[q]
      BY <3>2 DEF Fewer
    <3>5. last_finished'[q] >= m
      BY <3>2, <3>3, <3>4, SMT
    <3>. QED
      BY <1>0, <3>5 DEF HostEventDone
  <2>2. \A h \in HostSlots(t) \cup {<<c, t, k>> : k \in CpuKind} : h \in CpuSlot
    BY SlotKinds
  <2>. QED
    BY <1>0, <1>3, <2>1, <2>2 DEF HostDone
<1>4. \A t : Live(t)' <=> Live(t)
  BY <1>0 DEF Live
<1>5. CASE JobLeft
  BY <1>0, <1>5 DEF JobLeft, Alive, Live, CallLeft
<1>6. CASE todo = <<>>
  BY <1>0, <1>6 DEF CallLeft, OtherLeft
<1>7. CASE FreeLeft
  <2>1. PICK t \in Tiles, n \in 0 .. NCtrls :
          /\ Unselected(t)
          /\ \/ todo = Loop("freeif", n, t)
             \/ \E c \in Ctrl : RoundLeft(c, t, Loop("freeif", n, t))
             \/ HostLeft(t, Loop("freeif", n, t))
    BY <1>7 DEF FreeLeft
  <2>2. Unselected(t)'
    BY <1>4, <2>1 DEF Unselected
  <2>3. \A c \in Ctrl : \A rest : RoundLeft(c, t, rest) => RoundLeft(c, t, rest)'
    <3>. TAKE c \in Ctrl
    <3>1. /\ NoJobs(c, t) => NoJobs(c, t)'
          /\ NoHostJobs(t) => NoHostJobs(t)'
          /\ HostDone(c, t) => HostDone(c, t)'
      BY <1>1, <1>2, <1>3
    <3>. QED
      BY <1>0, <3>1 DEF RoundLeft
  <2>4. \A rest : HostLeft(t, rest) => HostLeft(t, rest)'
    BY <1>0, <1>2 DEF HostLeft
  <2>5. FreeLeft'
    BY <1>0, <2>1, <2>2, <2>3, <2>4 DEF FreeLeft
  <2>. QED
    BY <2>5 DEF CallLeft, OtherLeft
<1>8. \A c, t, rest : InitLeft(c, t, rest) => InitLeft(c, t, rest)'
  BY <1>0, <1>1 DEF InitLeft, Backed
<1>9. CASE AllocLeft
  BY <1>8, <1>9 DEF AllocLeft, CallLeft, OtherLeft
<1>10. CASE SelectLeft
  <2>1. PICK s \in Selections, n \in 0 .. NCtrls :
          /\ Selecting(s)
          /\ \/ /\ todo = << <<"domain", s>>, <<"create", HostSlots(s)>> >> \o Loop("selectif", n, s)
                /\ ~Live(s)
             \/ /\ todo = << <<"create", HostSlots(s)>> >> \o Loop("selectif", n, s)
                /\ NoHostJobs(s)
             \/ todo = Loop("selectif", n, s)
             \/ \E c \in Ctrl :
                  \/ InitLeft(c, s, << <<"peek", c, Selected[s]>> >> \o Loop("selectif", n, s))
                  \/ todo = << <<"peek", c, Selected[s]>> >> \o Loop("selectif", n, s)
    BY <1>10 DEF SelectLeft, Selecting
  <2>2. Selecting(s)' /\ (~Live(s) => ~Live(s)') /\ (NoHostJobs(s) => NoHostJobs(s)')
    BY <1>0, <1>2, <1>4, <2>1 DEF Selecting, Attached, Live
  <2>3. SelectLeft'
    BY <1>0, <1>8, <2>1, <2>2 DEF SelectLeft, Selecting
  <2>. QED
    BY <2>3 DEF CallLeft, OtherLeft
<1>. QED
  BY <1>5, <1>6, <1>7, <1>9, <1>10 DEF CallLeft, OtherLeft

\* And jobs find what they found.
LEMMA ThreadAlive ==
  ASSUME TypeInv, JobsAlive, MemInv, ThreadFrame, Fewer
  PROVE  JobsAlive' /\ MemInv'
<1>0. /\ type' = type /\ records' = records /\ memory' = memory
      /\ host_status' = host_status /\ device_status' = device_status
  BY DEF ThreadFrame
<1>1. \A q \in DriverQueue : q \in Queue /\ q # HostQueue
  BY QueuesAre
<1>2. ASSUME NEW q \in Queue, NEW i \in DOMAIN queue'[q], IsJob(queue[q][i])'
      PROVE  /\ queue'[q][i].kind = "hosttask" <=> q = HostQueue
             /\ Alive(q[1], queue[q][i].tile)'
  <2>1. PICK k \in DOMAIN queue[q] : queue'[q][i] = queue[q][k]
    BY <1>2 DEF Fewer, Same
  <2>2. IsJob(queue[q][k])
    BY <1>2, <2>1 DEF IsJob
  <2>3. /\ queue[q][k].kind = "hosttask" <=> q = HostQueue
        /\ Alive(q[1], queue[q][k].tile)
    BY <2>2 DEF JobsAlive
  <2>. QED
    BY <1>0, <2>1, <2>3 DEF Alive, Live
<1>3. ASSUME NEW q \in DriverQueue, NEW i \in DOMAIN running'[q]
      PROVE  /\ running'[q][i].kind \notin {"wait", "hosttask"}
             /\ Alive(q[1], running[q][i].tile)'
  <2>1. CASE \E k \in DOMAIN running[q] : running'[q][i] = running[q][k]
    BY <1>0, <2>1 DEF JobsAlive, Alive, Live
  <2>2. CASE \E k \in DOMAIN queue[q] : IsJob(queue[q][k]) /\ running'[q][i] = queue[q][k]
    <3>1. PICK k \in DOMAIN queue[q] : IsJob(queue[q][k]) /\ running'[q][i] = queue[q][k]
      BY <2>2
    <3>2. /\ queue[q][k].kind # "hosttask" /\ queue[q][k].kind # "wait"
          /\ Alive(q[1], queue[q][k].tile)
      BY <1>1, <3>1 DEF JobsAlive, IsJob
    <3>. QED
      BY <1>0, <3>1, <3>2 DEF Alive, Live
  <2>. QED
    BY <1>3, <2>1, <2>2 DEF Fewer
<1>4. MemInv'
  BY <1>0 DEF MemInv, Live, Attached, Allocated
<1>. QED
  BY <1>2, <1>3, <1>4 DEF JobsAlive

\* What a job waits for stays: it is promised, or done when it was.
LEMMA ThreadCovers ==
  ASSUME ThreadFrame
  PROVE  /\ \A x : Promised(Left, x)' <=> Promised(Left, x)
         /\ \A x : Ev(x)' = Ev(x)
         /\ \A h, q, m : Within(h, q, m)' <=> Within(h, q, m)
<1>1. todo' = todo /\ slot' = slot /\ recorded' = recorded
  BY DEF ThreadFrame
<1>2. Left' = Left
  BY <1>1 DEF Left
<1>3. \A x : Promised(Left, x)' <=> Promised(Left, x)
  BY <1>2 DEF Promised, Pushing, Recording, Sharing
<1>4. \A x : Ev(x)' = Ev(x)
  BY <1>1, <1>2 DEF Ev, Sharing
<1>5. \A h, q, m : Within(h, q, m)' <=> Within(h, q, m)
  BY <1>1, <1>2 DEF Within
<1>. QED
  BY <1>3, <1>4, <1>5

\* A cover that waits for a queued job still does, when it is not the first.
LEMMA BehindKept ==
  ASSUME QueueTypes, ThreadFrame, NEW q \in Queue, Consume(q), NEW x, x[3] \in Queue, NEW n,
         Behind(x, n)
  PROVE  Behind(x, n)' \/ (x[3] = q /\ Stands(x, 1) /\ n <= last_finished[q] + 1)
<1>1. PICK k \in DOMAIN queue[x[3]] : n <= last_finished[x[3]] + k /\ Stands(x, k)
  BY DEF Behind
<1>2. CASE x[3] = q /\ k = 1
  BY <1>1, <1>2
<1>3. CASE ~(x[3] = q /\ k = 1)
  <2>1. PICK i \in DOMAIN queue'[x[3]] : Same(x[3], k, i)
    BY <1>3, Consumed
  <2>2. PICK m : m = last_finished[x[3]] + k
    OBVIOUS
  <2>3. m = last_finished'[x[3]] + i /\ queue'[x[3]][i] = queue[x[3]][k] /\ n <= m
    BY <1>1, <2>1, <2>2 DEF Same
  <2>4. IsJob(queue[x[3]][k]) /\ queue[x[3]][k].id = Ev(x) /\ Within(x[1], x[3], m)
    BY <1>1, <2>2 DEF Stands
  <2>5. Ev(x)' = Ev(x) /\ Within(x[1], x[3], m)'
    BY <2>4, ThreadCovers
  <2>6. Within(x[1], x[3], last_finished[x[3]] + i)'
    BY <2>3, <2>5, Zenon DEF Within
  <2>7. Stands(x, i)'
    BY <2>3, <2>4, <2>5, <2>6 DEF Stands, IsJob
  <2>. QED
    BY <2>3, <2>7 DEF Behind
<1>. QED
  BY <1>2, <1>3

\* A queued job stays covered, also the one that becomes the first.
LEMMA QueuedStayCovered ==
  ASSUME TypeInv, JobsCovered, JobsAlive, ThreadFrame, NEW p \in Queue, Consume(p),
         NEW q \in DriverQueue, NEW i \in DOMAIN queue'[q], IsJob(queue[q][i])'
  PROVE  \E x \in Covers(q[1], queue'[q][i].tile) :
           x[3] = q /\ Covered(x, last_finished[q] + i)'
<1>0. QueueTypes /\ QueuePlaces /\ q \in Queue
  BY Positions, QueuesAre DEF TypeInv
<1>1. PICK k \in DOMAIN queue[q] : Same(q, k, i) /\ (q = p => 1 < k)
  BY <1>0, Consumed
<1>2. queue'[q][i] = queue[q][k] /\ last_finished'[q] + i = last_finished[q] + k
  BY <1>1 DEF Same
<1>3. IsJob(queue[q][k])
  BY <1>2 DEF IsJob
<1>4. PICK n, t : n = last_finished[q] + k /\ t = queue[q][k].tile
  OBVIOUS
<1>5. \E x \in Covers(q[1], queue[q][k].tile) : x[3] = q /\ Covered(x, last_finished[q] + k)
  BY <1>3 DEF JobsCovered
<1>6. PICK x \in Covers(q[1], t) : x[3] = q /\ Covered(x, n)
  BY <1>4, <1>5, Zenon
<1>7. Covered(x, n)'
  <2>1. CASE Promised(Left, x)
    BY <2>1, ThreadCovers DEF Covered
  <2>2. CASE Behind(x, n)
    <3>1. Behind(x, n)' \/ (x[3] = p /\ n <= last_finished[p] + 1)
      BY <1>0, <1>6, <2>2, BehindKept
    <3>2. CASE x[3] = p /\ n <= last_finished[p] + 1
      <4>1. q = p /\ 1 < k /\ k \in Nat /\ last_finished[q] \in Nat
        BY <1>0, <1>1, <1>6, <3>2 DEF QueuePlaces
      <4>2. last_finished[q] + k <= last_finished[q] + 1
        BY <1>4, <3>2, <4>1
      <4>3. FALSE
        BY ONLY <4>1, <4>2, SMT
      <4>. QED
        BY <4>3
    <3>. QED
      BY <3>1, <3>2 DEF Covered
  <2>. QED
    BY <1>6, <2>1, <2>2 DEF Covered
<1>8. n = last_finished'[q] + i /\ queue'[q][i].tile = t
  BY <1>2, <1>4
<1>9. Covered(x, last_finished[q] + i)'
  BY <1>7, <1>8, Zenon DEF Covered, Behind
<1>. QED
  BY <1>6, <1>8, <1>9

\* So do host tasks.
LEMMA HostTasksCovered ==
  ASSUME TypeInv, HostCovered, ThreadFrame, NEW p \in Queue, Consume(p)
  PROVE  HostCovered'
<1>. DEFINE q == HostQueue
<1>0. QueueTypes /\ q \in Queue
  BY QueuesAre DEF TypeInv
<1>1. SUFFICES ASSUME NEW i \in DOMAIN queue'[q], IsJob(queue[q][i])'
               PROVE  \E h \in HostSlots(queue'[q][i].tile) : Within(h, q, last_finished[q] + i)'
  BY DEF HostCovered
<1>2. PICK k \in DOMAIN queue[q] : Same(q, k, i)
  BY <1>0, Consumed
<1>3. queue'[q][i] = queue[q][k] /\ last_finished'[q] + i = last_finished[q] + k
  BY <1>2 DEF Same
<1>4. IsJob(queue[q][k])
  BY <1>1, <1>3 DEF IsJob
<1>5. PICK n, t : n = last_finished[q] + k /\ t = queue[q][k].tile
  OBVIOUS
<1>. HIDE DEF q
<1>6. PICK h \in HostSlots(t) : Within(h, q, n)
  <2>1. \E h \in HostSlots(queue[q][k].tile) : Within(h, q, last_finished[q] + k)
    BY <1>4 DEF HostCovered, q
  <2>. QED
    BY <1>5, <2>1, Zenon
<1>7. Within(h, q, n)'
  BY <1>6, ThreadCovers
<1>8. n = last_finished'[q] + i /\ queue'[q][i].tile = t
  BY <1>3, <1>5
<1>9. Within(h, q, last_finished[q] + i)'
  BY <1>7, <1>8, Zenon DEF Within
<1>. QED
  BY <1>6, <1>8, <1>9

\* The steps that take a task.
Takes(q) ==
  /\ Consume(q)
  /\ \/ /\ running' = running
        /\ q = HostQueue \/ ~IsJob(Head(queue[q]))
     \/ /\ q \in DriverQueue /\ IsJob(Head(queue[q]))
        /\ running' = [running EXCEPT ![q] = Append(@, Head(queue[q]))]

\* Jobs on a stream stay covered, and the one that is launched is too.
LEMMA LaunchedStayCovered ==
  ASSUME TypeInv, TypeInv', JobsCovered, ThreadFrame, NEW p \in Queue, Takes(p),
         NEW q \in DriverQueue, NEW i \in DOMAIN running'[q]
  PROVE  /\ \E x \in Covers(q[1], running'[q][i].tile) :
              x[3] = q /\ (Covered(x, 0)' \/ Ahead(x, i)')
         /\ \/ \E k \in DOMAIN running[q] : running'[q][i] = running[q][k]
            \/ \E k \in DOMAIN queue[q] : IsJob(queue[q][k]) /\ running'[q][i] = queue[q][k]
<1>0. /\ QueueTypes /\ QueuePlaces /\ q \in Queue /\ q # HostQueue
      /\ Consume(p) /\ queue[p] # <<>>
  BY Positions, QueuesAre DEF TypeInv, Takes, Consume
<1>. DEFINE head == Head(queue[p])
            l == running[q]
            n == Len(l)
<1>1. /\ queue[p] \in Seq(TaskSet) /\ l \in Seq(TaskSet)
      /\ running \in [DriverQueue -> Seq(TaskSet)] /\ last_finished[p] \in Nat
  BY <1>0 DEF QueueTypes
<1>2. /\ 1 \in DOMAIN queue[p] /\ head = queue[p][1] /\ head \in TaskSet
  <2>1. /\ Len(queue[p]) \in Nat \ {0} /\ DOMAIN queue[p] = 1 .. Len(queue[p])
        /\ Head(queue[p]) = queue[p][1] /\ queue[p][1] \in TaskSet
    BY <1>0, <1>1, Tailed
  <2>. QED
    BY <2>1
<1>. HIDE DEF head
<1>3. \/ running'[q] = l
      \/ q = p /\ IsJob(head) /\ running'[q] = Append(l, head)
  BY <1>1 DEF Takes, head
<1>4. /\ n \in Nat /\ DOMAIN l = 1 .. n /\ Append(l, head) \in Seq(TaskSet)
      /\ DOMAIN Append(l, head) = 1 .. n + 1
      /\ \A j \in 1 .. n : Append(l, head)[j] = l[j]
      /\ Append(l, head)[n + 1] = head
  <2>. HIDE DEF l
  <2>. QED
    BY <1>1, <1>2, Appended
<1>5. /\ \A j \in 1 .. n : j \in 1 .. n + 1 /\ j <= n + 1
      /\ \A j \in 1 .. n + 1 : (j \in 1 .. n \/ j = n + 1) /\ j <= n + 1
      /\ n + 1 \in 1 .. n + 1
  <2>1. n \in Nat
    BY <1>4
  <2>. QED
    BY ONLY <2>1, SMT
<1>. HIDE DEF l, n
<1>6. \A j \in DOMAIN l : j \in DOMAIN running'[q] /\ running'[q][j] = l[j]
  BY <1>3, <1>4, <1>5
\* The cover of the job that is launched waits for it on the stream now.
<1>7. ASSUME NEW x, x[3] = q, q = p, Stands(x, 1) PROVE Ahead(x, i)'
  <2>1. IsJob(head) /\ head.id = Ev(x)
    BY <1>2, <1>7 DEF Stands
  <2>2. running'[q] = Append(l, head)
    <3>1. running' = [running EXCEPT ![p] = Append(@, Head(queue[p]))]
      BY <1>0, <1>7, <2>1 DEF Takes, head
    <3>. QED
      BY <1>1, <1>7, <3>1 DEF head, l
  <2>3. i <= n + 1 /\ n + 1 \in DOMAIN running'[q] /\ running'[q][n + 1].id = Ev(x)
    BY <1>4, <1>5, <2>1, <2>2
  <2>4. Ev(x)' = Ev(x)
    BY ThreadCovers
  <2>. QED
    BY <1>7, <2>3, <2>4 DEF Ahead
<1>8. ASSUME NEW x, x[3] = q, NEW m, Covered(x, m), m = 0 \/ m = last_finished[q] + 1
      PROVE  Covered(x, 0)' \/ Ahead(x, i)'
  <2>1. CASE Promised(Left, x)
    BY <2>1, ThreadCovers DEF Covered
  <2>2. CASE Behind(x, m)
    <3>1. Behind(x, m)' \/ (x[3] = p /\ Stands(x, 1))
      BY <1>0, <1>8, <2>2, BehindKept
    <3>2. CASE Behind(x, m)'
      <4>1. PICK k \in DOMAIN queue'[q] : m <= last_finished'[q] + k /\ Stands(x, k)'
        BY <1>8, <3>2 DEF Behind
      <4>2. QueuePlaces'
        <5>1. QueueTypes'
          BY DEF TypeInv
        <5>. QED
          BY <5>1, Positions, PTL
      <4>3. last_finished'[q] + k \in Nat
        BY <1>0, <4>1, <4>2 DEF QueuePlaces
      <4>4. 0 <= last_finished'[q] + k
        BY <4>3, SMT
      <4>5. Behind(x, 0)'
        BY <1>8, <4>1, <4>4 DEF Behind
      <4>. QED
        BY <4>5 DEF Covered
    <3>3. CASE x[3] = p /\ Stands(x, 1)
      BY <1>7, <1>8, <3>3
    <3>. QED
      BY <3>1, <3>2, <3>3
  <2>. QED
    BY <1>8, <2>1, <2>2 DEF Covered
<1>9. CASE i \in DOMAIN l
  <2>1. running'[q][i] = l[i]
    BY <1>6, <1>9
  <2>2. PICK t : t = l[i].tile
    OBVIOUS
  <2>3. PICK x \in Covers(q[1], t) : x[3] = q /\ (Covered(x, 0) \/ Ahead(x, i))
    <3>1. \E x \in Covers(q[1], running[q][i].tile) : x[3] = q /\ (Covered(x, 0) \/ Ahead(x, i))
      BY <1>9 DEF JobsCovered, l
    <3>. QED
      BY <2>2, <3>1 DEF l
  <2>4. Ahead(x, i) => Ahead(x, i)'
    <3>1. Ev(x)' = Ev(x)
      BY ThreadCovers
    <3>. QED
      BY <1>6, <2>3, <3>1 DEF Ahead, l
  <2>5. Covered(x, 0)' \/ Ahead(x, i)'
    BY <1>8, <2>3, <2>4
  <2>. QED
    BY <1>9, <2>1, <2>2, <2>3, <2>5 DEF l
<1>10. CASE i \notin DOMAIN l
  <2>1. q = p /\ IsJob(head) /\ running'[q][i] = head
    BY <1>3, <1>4, <1>5, <1>10
  <2>2. PICK t, m : t = head.tile /\ m = last_finished[q] + 1
    OBVIOUS
  <2>3. PICK x \in Covers(q[1], t) : x[3] = q /\ Covered(x, m)
    <3>1. \E x \in Covers(q[1], queue[q][1].tile) : x[3] = q /\ Covered(x, last_finished[q] + 1)
      BY <1>2, <2>1 DEF JobsCovered
    <3>. QED
      BY <1>2, <2>1, <2>2, <3>1, Zenon
  <2>4. Covered(x, 0)' \/ Ahead(x, i)'
    BY <1>8, <2>2, <2>3
  <2>5. running'[q][i].tile = t
    BY <2>1, <2>2
  <2>. QED
    BY <1>2, <2>1, <2>3, <2>4, <2>5
<1>. QED
  BY <1>9, <1>10

\* A task is taken from a queue.
LEMMA TakeStep ==
  ASSUME LifecycleInv, LifecycleInv', MemoryInv, ThreadFrame, NEW p \in Queue, Takes(p)
  PROVE  MemoryInv'
<1>0. /\ TypeInv /\ TypeInv' /\ QueueTypes /\ Consume(p)
      /\ JobsCovered /\ HostCovered /\ JobsAlive /\ MemInv /\ CallLeft
  BY DEF LifecycleInv, MemoryInv, TypeInv, Takes
<1>1. JobsCovered'
  <2>1. \A q \in DriverQueue : \A i \in DOMAIN queue'[q] : IsJob(queue[q][i])' =>
          \E x \in Covers(q[1], queue'[q][i].tile) :
            x[3] = q /\ Covered(x, last_finished[q] + i)'
    BY <1>0, QueuedStayCovered
  <2>2. \A q \in DriverQueue : \A i \in DOMAIN running'[q] :
          \E x \in Covers(q[1], running'[q][i].tile) :
            x[3] = q /\ (Covered(x, 0)' \/ Ahead(x, i)')
    BY <1>0, LaunchedStayCovered
  <2>. QED
    BY <2>1, <2>2 DEF JobsCovered
<1>2. HostCovered'
  BY <1>0, HostTasksCovered
<1>3. Fewer
  <2>1. \A q \in Queue :
          /\ last_finished[q] <= last_finished'[q]
          /\ \A i \in DOMAIN queue'[q] : \E k \in DOMAIN queue[q] : Same(q, k, i)
    BY <1>0, Consumed
  <2>2. \A q \in DriverQueue : \A i \in DOMAIN running'[q] :
          \/ \E k \in DOMAIN running[q] : running'[q][i] = running[q][k]
          \/ \E k \in DOMAIN queue[q] : IsJob(queue[q][k]) /\ running'[q][i] = queue[q][k]
    BY <1>0, LaunchedStayCovered
  <2>. QED
    BY <2>1, <2>2 DEF Fewer
<1>4. JobsAlive' /\ MemInv'
  BY <1>0, <1>3, ThreadAlive
<1>5. CallLeft'
  BY <1>0, <1>3, ThreadLeft
<1>. QED
  BY <1>1, <1>2, <1>4, <1>5 DEF MemoryInv

\* A driver is done with the first job of a stream.
LEMMA DoneStep ==
  ASSUME LifecycleInv, LifecycleInv', MemoryInv, ThreadFrame, NEW p \in DriverQueue,
         running[p] # <<>>, running' = [running EXCEPT ![p] = Tail(@)],
         queue' = queue, last_finished' = last_finished
  PROVE  MemoryInv'
<1>0. /\ TypeInv /\ TypeInv' /\ QueueTypes
      /\ JobsCovered /\ HostCovered /\ JobsAlive /\ MemInv /\ CallLeft
  BY DEF LifecycleInv, MemoryInv, TypeInv
<1>1. running \in [DriverQueue -> Seq(TaskSet)]
  BY <1>0 DEF QueueTypes
\* Where a job is on its stream before the step, k, and after it, i.
<1>2. ASSUME NEW q \in DriverQueue
      PROVE  \E s \in {0, 1} :
               /\ \A i \in DOMAIN running'[q] : /\ i \in Int /\ i + s \in DOMAIN running[q]
                                                /\ running'[q][i] = running[q][i + s]
               /\ \A k \in DOMAIN running[q] : \A i \in DOMAIN running'[q] :
                    i + s <= k => /\ k - s \in DOMAIN running'[q] /\ i <= k - s
                                  /\ running'[q][k - s] = running[q][k]
  <2>. DEFINE l == running[q]
              n == Len(l)
  <2>1. l \in Seq(TaskSet)
    BY <1>1
  <2>2. n \in Nat /\ DOMAIN l = 1 .. n
    BY <2>1
  <2>3. CASE q # p
    <3>1. running'[q] = l
      BY <1>1, <2>3
    <3>. HIDE DEF l, n
    <3>2. \A i \in 1 .. n : i \in Int /\ i + 0 = i /\ i - 0 = i
      BY <2>2, SMT
    <3>3. \A k, i \in 1 .. n : i + 0 <= k => i <= k - 0
      BY <2>2, SMT
    <3>. QED
      BY <2>2, <3>1, <3>2, <3>3 DEF l
  <2>4. CASE q = p
    <3>1. l # <<>>
      BY <2>4
    <3>2. running'[q] = Tail(l)
      BY <1>1, <2>4
    <3>. HIDE DEF l
    <3>3. DOMAIN Tail(l) = 1 .. n - 1 /\ \A i \in 1 .. n - 1 : Tail(l)[i] = l[i + 1]
      BY <2>1, <3>1, Tailed
    <3>. HIDE DEF n
    <3>4. \A i \in 1 .. n - 1 : i \in Int /\ i + 1 \in 1 .. n
      BY <2>2, SMT
    <3>5. \A k \in 1 .. n : \A i \in 1 .. n - 1 :
            i + 1 <= k => k - 1 \in 1 .. n - 1 /\ i <= k - 1 /\ (k - 1) + 1 = k
      BY <2>2, SMT
    <3>. QED
      BY <2>2, <3>2, <3>3, <3>4, <3>5 DEF l
  <2>. QED
    BY <2>3, <2>4
<1>3. /\ \A x : Ev(x)' = Ev(x)
      /\ \A x, n : Covered(x, n) => Covered(x, n)'
  <2>1. ASSUME NEW x, NEW n, Behind(x, n) PROVE Behind(x, n)'
    <3>1. PICK i \in DOMAIN queue[x[3]] : n <= last_finished[x[3]] + i /\ Stands(x, i)
      BY <2>1 DEF Behind
    <3>2. Stands(x, i)'
      BY <3>1, ThreadCovers DEF Stands, IsJob
    <3>. QED
      BY <3>1, <3>2 DEF Behind
  <2>. QED
    BY <2>1, ThreadCovers DEF Covered
<1>4. JobsCovered'
  <2>1. ASSUME NEW q \in DriverQueue, NEW i \in DOMAIN queue'[q], IsJob(queue[q][i])'
        PROVE  \E x \in Covers(q[1], queue'[q][i].tile) :
                 x[3] = q /\ Covered(x, last_finished[q] + i)'
    <3>1. queue'[q][i] = queue[q][i] /\ last_finished'[q] + i = last_finished[q] + i
      OBVIOUS
    <3>2. \E x \in Covers(q[1], queue[q][i].tile) : x[3] = q /\ Covered(x, last_finished[q] + i)
      BY <1>0, <2>1 DEF JobsCovered, IsJob
    <3>3. PICK n : n = last_finished[q] + i
      OBVIOUS
    <3>4. PICK x \in Covers(q[1], queue[q][i].tile) : x[3] = q /\ Covered(x, n)
      BY <3>2, <3>3, Zenon
    <3>5. Covered(x, n)'
      BY <1>3, <3>4
    <3>6. n = last_finished'[q] + i
      BY <3>1, <3>3
    <3>7. Covered(x, last_finished[q] + i)'
      BY <3>5, <3>6, Zenon DEF Covered, Behind
    <3>. QED
      BY <3>1, <3>4, <3>7
  <2>2. ASSUME NEW q \in DriverQueue, NEW i \in DOMAIN running'[q]
        PROVE  \E x \in Covers(q[1], running'[q][i].tile) :
                 x[3] = q /\ (Covered(x, 0)' \/ Ahead(x, i)')
    <3>1. PICK s \in {0, 1} :
               /\ \A j \in DOMAIN running'[q] : /\ j \in Int /\ j + s \in DOMAIN running[q]
                                                /\ running'[q][j] = running[q][j + s]
               /\ \A k \in DOMAIN running[q] : \A j \in DOMAIN running'[q] :
                    j + s <= k => /\ k - s \in DOMAIN running'[q] /\ j <= k - s
                                  /\ running'[q][k - s] = running[q][k]
      BY <1>2
    <3>2. PICK m \in DOMAIN running[q] : m = i + s /\ running'[q][i] = running[q][m]
      BY <3>1
    <3>3. PICK x \in Covers(q[1], running[q][m].tile) :
            x[3] = q /\ (Covered(x, 0) \/ Ahead(x, m))
      BY <1>0 DEF JobsCovered
    <3>4. CASE Covered(x, 0)
      BY <1>3, <3>2, <3>3, <3>4
    <3>5. CASE Ahead(x, m)
      <4>1. PICK k \in DOMAIN running[q] : m <= k /\ running[q][k].id = Ev(x)
        BY <3>3, <3>5 DEF Ahead
      <4>2. PICK j \in DOMAIN running'[q] : i <= j /\ running'[q][j] = running[q][k]
        BY <3>1, <3>2, <4>1
      <4>3. running'[q][j].id = Ev(x)'
        BY <1>3, <4>1, <4>2
      <4>4. Ahead(x, i)'
        BY <3>3, <4>2, <4>3 DEF Ahead
      <4>. QED
        BY <3>2, <3>3, <4>4
    <3>. QED
      BY <3>3, <3>4, <3>5
  <2>. QED
    BY <2>1, <2>2 DEF JobsCovered
<1>5. HostCovered'
  BY <1>0, ThreadCovers DEF HostCovered, IsJob
<1>6. Fewer
  <2>1. ASSUME NEW q \in Queue
        PROVE  /\ last_finished[q] <= last_finished'[q]
               /\ \A i \in DOMAIN queue'[q] : \E k \in DOMAIN queue[q] : Same(q, k, i)
    <3>1. last_finished[q] \in Nat
      BY <1>0 DEF QueueTypes
    <3>2. last_finished[q] <= last_finished'[q]
      BY <3>1, SMT
    <3>. QED
      BY <3>2 DEF Same
  <2>2. \A q \in DriverQueue : \A i \in DOMAIN running'[q] :
          \E k \in DOMAIN running[q] : running'[q][i] = running[q][k]
    <3>. TAKE q \in DriverQueue
    <3>1. PICK s \in {0, 1} :
            \A i \in DOMAIN running'[q] : /\ i + s \in DOMAIN running[q]
                                          /\ running'[q][i] = running[q][i + s]
      BY <1>2
    <3>. QED
      BY <3>1
  <2>. QED
    BY <2>1, <2>2 DEF Fewer
<1>7. JobsAlive' /\ MemInv'
  BY <1>0, <1>6, ThreadAlive
<1>8. CallLeft'
  BY <1>0, <1>6, ThreadLeft
<1>. QED
  BY <1>4, <1>5, <1>7, <1>8 DEF MemoryInv

\* So every step of another thread keeps the invariant.
LEMMA ThreadMemory ==
  ASSUME LifecycleInv, LifecycleInv', MemoryInv, ThreadStep
  PROVE  MemoryInv'
<1>1. ASSUME NEW q \in Queue, Consume(q) PROVE ThreadFrame
  BY <1>1 DEF Consume, ThreadFrame, tileVars, slotVars
<1>2. ASSUME NEW q \in DriverQueue, ManagerWait(q) PROVE MemoryInv'
  <2>1. q \in Queue /\ Consume(q) /\ Takes(q)
    BY <1>2, QueuesAre DEF ManagerWait, Takes, IsJob
  <2>. QED
    BY <1>1, <2>1, TakeStep
<1>3. ASSUME NEW q \in DriverQueue, ManagerLaunch(q) PROVE MemoryInv'
  <2>1. q \in Queue /\ Consume(q) /\ Takes(q)
    BY <1>3, QueuesAre DEF ManagerLaunch, Takes, IsJob
  <2>. QED
    BY <1>1, <2>1, TakeStep
<1>4. ASSUME NEW q \in DriverQueue, DriverDone(q) PROVE MemoryInv'
  <2>1. /\ ThreadFrame /\ running[q] # <<>> /\ running' = [running EXCEPT ![q] = Tail(@)]
        /\ queue' = queue /\ last_finished' = last_finished
    BY <1>4 DEF DriverDone, ThreadFrame, tileVars, slotVars, queueVars
  <2>. QED
    BY <2>1, DoneStep
<1>5. ASSUME HostRun PROVE MemoryInv'
  <2>1. HostQueue \in Queue /\ Consume(HostQueue) /\ Takes(HostQueue)
    BY <1>5, QueuesAre DEF HostRun, Takes
  <2>. QED
    BY <1>1, <2>1, TakeStep
<1>. QED
  BY <1>2, <1>3, <1>4, <1>5 DEF ThreadStep
-----------------------------------------------------------------------------
(* The invariant.                                                          *)

\* It holds when the model starts: nothing is queued.
LEMMA StartsMemory == Init => MemoryInv
<1>. SUFFICES ASSUME Init PROVE MemoryInv
  OBVIOUS
<1>1. PICK start \in Starts :
        LET A == start[2]
            allocated == A \cup {<<Host, b[2]>> : b \in A}
        IN /\ todo = <<>>
           /\ type = A
           /\ records = A \cup {<<Host, t>> : t \in Domains}
           /\ memory = allocated
           /\ host_status = [t \in Tiles |-> IF <<Host, t>> \in allocated THEN "INVALID"
                                             ELSE "UNALLOC"]
           /\ device_status = [b \in Ctrl \X Tiles |-> IF b \in A THEN "INVALID"
                                                       ELSE "UNALLOC"]
           /\ queue = [q \in Queue |-> <<>>]
           /\ running = [q \in DriverQueue |-> <<>>]
  BY Zenon DEF Init
<1>. DEFINE A == start[2]
<1>2. A \subseteq Ctrl \X Domains
  BY TileLifecycleAssumption
<1>3. /\ todo = <<>> /\ type = A /\ records = A \cup {<<Host, t>> : t \in Domains}
      /\ memory = A \cup {<<Host, b[2]>> : b \in A}
      /\ host_status = [t \in Tiles |-> IF <<Host, t>> \in memory THEN "INVALID" ELSE "UNALLOC"]
      /\ device_status = [b \in Ctrl \X Tiles |-> IF b \in A THEN "INVALID" ELSE "UNALLOC"]
      /\ \A q \in Queue : queue[q] = <<>>
      /\ \A q \in DriverQueue : running[q] = <<>>
  BY <1>1
<1>. HIDE DEF A
<1>4. \A q \in DriverQueue : q \in Queue
  BY QueuesAre
<1>5. \A q \in Queue : DOMAIN queue[q] = {}
  <2>1. DOMAIN <<>> = {}
    OBVIOUS
  <2>. QED
    BY <1>3, <2>1
<1>6. \A q \in DriverQueue : DOMAIN running[q] = {}
  <2>1. DOMAIN <<>> = {}
    OBVIOUS
  <2>. QED
    BY <1>3, <2>1
<1>7. JobsCovered /\ HostCovered /\ JobsAlive
  BY <1>4, <1>5, <1>6, QueuesAre DEF JobsCovered, HostCovered, JobsAlive
<1>8. MemInv
  <2>1. /\ \A c \in Ctrl : \A t : <<c, t>> \in records <=> <<c, t>> \in A
        /\ \A t : Live(t) <=> t \in Domains
        /\ \A t \in Domains : t \in Tiles
    BY <1>2, <1>3, Names DEF Live, Tiles
  <2>2. \A c \in Ctrl, t \in Domains : <<c, t>> \in records => <<c, t>> \in memory
    BY <1>3, <2>1
  <2>3. \A t \in Domains : Live(t) /\ host_status[t] # "UNALLOC" => <<Host, t>> \in memory
    BY <1>3, <2>1
  <2>4. \A s \in Selections : ~Live(s)
    BY <2>1, TileLifecycleAssumption
  <2>5. \A c \in Ctrl, s \in Selections : <<c, s>> \notin records
    <3>. SUFFICES ASSUME NEW c \in Ctrl, NEW s \in Selections, <<c, s>> \in records PROVE FALSE
      OBVIOUS
    <3>1. <<c, s>> \in Ctrl \X Domains
      BY <1>2, <2>1, Zenon
    <3>2. s \in Domains
      BY <3>1
    <3>3. s \notin Domains
      BY ONLY TileLifecycleAssumption, s \in Selections
    <3>. QED
      BY <3>2, <3>3
  <2>6. \A c \in Ctrl, t \in Domains : ~Attached(c, t) => ~Allocated(<<c, t>>)
    BY <1>3, <2>1 DEF Attached, Allocated
  <2>. QED
    BY <2>2, <2>3, <2>4, <2>5, <2>6 DEF MemInv
<1>. QED
  BY <1>3, <1>7, <1>8 DEF MemoryInv, CallLeft, OtherLeft

\* Every step keeps it.
LEMMA MemoryStep ==
  LifecycleInv /\ LifecycleInv' /\ MemoryInv /\ ~Careless /\ [Next]_vars => MemoryInv'
<1>. SUFFICES ASSUME LifecycleInv, LifecycleInv', MemoryInv, ~Careless, [Next]_vars
              PROVE  MemoryInv'
  OBVIOUS
<1>1. CASE UNCHANGED vars
  <2>1. /\ queue' = queue /\ last_finished' = last_finished /\ pushed' = pushed
        /\ running' = running /\ slot' = slot /\ recorded' = recorded
        /\ ThreadFrame
    BY <1>1 DEF vars, tileVars, slotVars, queueVars, ThreadFrame
  <2>2. TypeInv /\ TypeInv' /\ JobsCovered /\ HostCovered /\ JobsAlive /\ MemInv /\ CallLeft
    BY DEF LifecycleInv, MemoryInv
  <2>3. Fewer
    <3>1. ASSUME NEW q \in Queue
          PROVE  /\ last_finished[q] <= last_finished'[q]
                 /\ \A i \in DOMAIN queue'[q] : \E k \in DOMAIN queue[q] : Same(q, k, i)
      <4>1. last_finished[q] \in Nat
        BY <2>2 DEF TypeInv, QueueTypes
      <4>2. last_finished[q] <= last_finished'[q]
        BY <2>1, <4>1, SMT
      <4>. QED
        BY <2>1, <4>2 DEF Same
    <3>. QED
      BY <2>1, <3>1 DEF Fewer
  <2>4. Left' = Left
    BY <2>1 DEF ThreadFrame, Left
  <2>5. /\ \A x : Promised(Left, x)' <=> Promised(Left, x)
        /\ \A x : Ev(x)' = Ev(x)
        /\ \A h, q, m : Within(h, q, m)' <=> Within(h, q, m)
    BY <2>1, ThreadCovers
  <2>6. /\ \A x, n : Covered(x, n) => Covered(x, n)'
        /\ \A x, i : Ahead(x, i) => Ahead(x, i)'
    <3>1. \A x, i : Stands(x, i) => Stands(x, i)'
      BY <2>1, <2>5 DEF Stands, IsJob
    <3>2. \A x, n : Behind(x, n) => Behind(x, n)'
      BY <2>1, <3>1 DEF Behind
    <3>. QED
      BY <2>1, <2>5, <3>2 DEF Covered, Ahead
  <2>7. JobsCovered'
    BY <2>1, <2>2, <2>6 DEF JobsCovered, IsJob
  <2>8. HostCovered'
    BY <2>1, <2>2, <2>5 DEF HostCovered, IsJob
  <2>9. JobsAlive' /\ MemInv' /\ CallLeft'
    BY <2>1, <2>2, <2>3, ThreadAlive, ThreadLeft
  <2>. QED
    BY <2>7, <2>8, <2>9 DEF MemoryInv
<1>2. CASE CallStep
  BY <1>2, CallMemory
<1>3. CASE MainStep
  BY <1>3, JobStep, OtherStep DEF MemoryInv, CallLeft
<1>4. CASE ThreadStep
  BY <1>4, ThreadMemory
<1>5. CASE Finished
  BY <1>1, <1>5 DEF Finished
<1>. QED
  BY <1>1, <1>2, <1>3, <1>4, <1>5 DEF Next

\* And it says that buffers and records stay.
LEMMA MemoryStays == LifecycleInv /\ MemoryInv => MemoryAlive
<1>. SUFFICES ASSUME LifecycleInv, MemoryInv PROVE MemoryAlive
  OBVIOUS
<1>0. /\ TypeInv /\ RecordsInv /\ JobsAlive /\ MemInv /\ QueueTypes
  BY DEF LifecycleInv, MemoryInv, TypeInv
<1>1. \A c, t : <<c, t>> \in records => t \in Tiles /\ c \in {Host} \cup Ctrl
  BY <1>0 DEF TypeInv, TileTypes
<1>2. /\ \A q \in DriverQueue : q[1] \in Ctrl /\ q[1] # Host /\ q \in Queue /\ q # HostQueue
      /\ HostQueue[1] = Host
      /\ \A q \in Queue : q = HostQueue \/ q \in DriverQueue
  <2>1. \A q \in DriverQueue : q[1] \in Ctrl
    <3>. TAKE q \in DriverQueue
    <3>1. PICK c \in Ctrl : q \in {Htd(c), Dth(c), Kernel(c)}
      BY QueuesAre
    <3>. QED
      BY <3>1, SMT DEF Htd, Dth, Kernel
  <2>. QED
    BY <2>1, Names, QueuesAre DEF HostQueue, Queue
<1>3. ASSUME NEW c \in Ctrl, NEW t, <<c, t>> \in records
      PROVE  BufferOf(c, t) \in memory /\ BufferOf(Host, t) \in memory /\ <<Host, t>> \in records
  <2>1. t \in Tiles /\ Live(t) /\ Attached(c, t)
    BY <1>0, <1>1, <1>3 DEF RecordsInv
  <2>2. host_status[t] # "UNALLOC"
    <3>1. <<c, t>> \in type
      BY <2>1 DEF Attached
    <3>. QED
      BY <1>0, <3>1 DEF RecordsInv
  <2>3. CASE t \in Domains
    BY <1>0, <1>3, <2>1, <2>2, <2>3 DEF MemInv, BufferOf, Root, Owner, Live
  <2>4. CASE t \notin Domains
    <3>1. t \in Selections /\ Selected[t] \in Domains
      BY <2>1, <2>4, TileLifecycleAssumption DEF Tiles
    <3>2. <<c, Selected[t]>> \in records
      BY <1>0, <1>3, <3>1 DEF MemInv
    <3>3. Live(Selected[t]) /\ host_status[Selected[t]] # "UNALLOC"
      BY <1>0, <2>1, <3>1 DEF MemInv
    <3>4. <<c, Selected[t]>> \in memory /\ <<Host, Selected[t]>> \in memory
      BY <1>0, <3>1, <3>2, <3>3 DEF MemInv
    <3>. QED
      BY <2>1, <2>4, <3>4 DEF BufferOf, Root, Owner, Live
  <2>. QED
    BY <2>3, <2>4
<1>4. ASSUME NEW t, Alive(Host, t) PROVE BufferOf(Host, t) \in memory
  <2>1. t \in Tiles /\ Live(t) /\ host_status[t] # "UNALLOC"
    BY <1>1, <1>4 DEF Alive, Live
  <2>2. CASE t \in Domains
    BY <1>0, <2>1, <2>2 DEF MemInv, BufferOf, Root, Owner
  <2>3. CASE t \notin Domains
    <3>1. t \in Selections /\ Selected[t] \in Domains
      BY <2>1, <2>3, TileLifecycleAssumption DEF Tiles
    <3>2. <<Host, Selected[t]>> \in memory
      BY <1>0, <2>1, <3>1 DEF MemInv
    <3>. QED
      BY <2>3, <3>2 DEF BufferOf, Root, Owner
  <2>. QED
    BY <2>2, <2>3
<1>5. ASSUME NEW q \in Queue, NEW i \in DOMAIN queue[q]
      PROVE  /\ BuffersOf(q, queue[q][i]) \subseteq memory
             /\ queue[q][i].kind \in {"moveto", "movefrom"} =>
                  {<<q[1], queue[q][i].tile>>, <<Host, queue[q][i].tile>>} \subseteq records
  <2>. DEFINE task == queue[q][i]
  <2>1. IsJob(task) =>
          /\ task.kind = "hosttask" <=> q = HostQueue
          /\ Alive(q[1], task.tile)
    BY <1>0, <1>5 DEF JobsAlive
  <2>. HIDE DEF task
  <2>2. CASE ~IsJob(task)
    BY <2>2 DEF IsJob, BuffersOf, task
  <2>3. CASE IsJob(task) /\ q = HostQueue
    <3>1. task.kind = "hosttask" /\ Alive(Host, task.tile)
      BY <1>2, <2>1, <2>3
    <3>2. BufferOf(Host, task.tile) \in memory
      BY <1>4, <3>1
    <3>. QED
      BY <3>1, <3>2 DEF BuffersOf, task
  <2>4. CASE IsJob(task) /\ q \in DriverQueue
    <3>1. q[1] \in Ctrl /\ q[1] # Host /\ task.kind # "hosttask"
      BY <1>2, <2>1, <2>4
    <3>2. <<q[1], task.tile>> \in records
      BY <2>1, <2>4, <3>1 DEF Alive
    <3>3. /\ BufferOf(q[1], task.tile) \in memory /\ BufferOf(Host, task.tile) \in memory
          /\ <<Host, task.tile>> \in records
      BY <1>3, <3>1, <3>2
    <3>. QED
      BY <3>1, <3>2, <3>3 DEF BuffersOf, task
  <2>. QED
    BY <1>2, <2>2, <2>3, <2>4
<1>6. ASSUME NEW q \in DriverQueue, NEW i \in DOMAIN running[q]
      PROVE  BuffersOf(q, running[q][i]) \subseteq memory
  <2>1. /\ running[q][i].kind \notin {"wait", "hosttask"}
        /\ Alive(q[1], running[q][i].tile)
    BY <1>0, <1>6 DEF JobsAlive
  <2>2. q[1] \in Ctrl /\ q[1] # Host
    BY <1>2
  <2>3. <<q[1], running[q][i].tile>> \in records
    BY <2>1, <2>2 DEF Alive
  <2>4. /\ BufferOf(q[1], running[q][i].tile) \in memory
        /\ BufferOf(Host, running[q][i].tile) \in memory
    BY <1>3, <2>2, <2>3
  <2>. QED
    BY <2>1, <2>4 DEF BuffersOf
<1>. QED
  BY <1>5, <1>6 DEF MemoryAlive

\* When the program frees tiles as Ctrl_Free asks, the buffers of a tile, and
\* the records a transfer finds it by, are there until every job on it is done,
\* also the jobs the queue manager has not launched when the tile is freed.
THEOREM MemoryStaysAlive ==
  ASSUME ~Careless
  PROVE  Spec => []MemoryAlive
<1>1. LifecycleInv /\ ~Careless /\ [Next]_vars => LifecycleInv'
  BY StepKeeps
<1>2. Spec => []LifecycleInv
  BY LifecycleInvariant
<1>3. Init => MemoryInv
  BY StartsMemory
<1>4. LifecycleInv /\ LifecycleInv' /\ MemoryInv /\ [Next]_vars => MemoryInv'
  BY MemoryStep
<1>5. LifecycleInv /\ MemoryInv => MemoryAlive
  BY MemoryStays
<1>. QED
  BY <1>2, <1>3, <1>4, <1>5, PTL DEF Spec
=============================================================================
