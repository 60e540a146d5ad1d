--------------------------- MODULE DriverCtrlProofs ---------------------------
(***************************************************************************)
(* For any number of ctrls of any kinds, kernel streams and tiles, every   *)
(* policy and mode and whatever the program launches: events name jobs     *)
(* already pushed, the queue manager, the drivers and the host task thread *)
(* never wait for one another for ever, and under the ASYNC policy nobody  *)
(* waits for a device event whose job was not issued.                      *)
(***************************************************************************)
EXTENDS DriverCtrl, SequenceTheorems, WellFoundedInduction, TLAPS

\* A job a driver executes, and the events such jobs leave (0: none yet).
OnDriver(n) == jobs[n].stream # HostStream
DriverEvents == {n \in 0 .. Len(jobs) : n = 0 \/ OnDriver(n)}

\* A transfer reads a buffer.
JobsInv ==
  /\ jobs \in Seq(Job)
  /\ \A n \in DOMAIN jobs : IsTask(n) \/ jobs[n].reads # {}

MainInv ==
  /\ main \in MainState
  /\ main.arg >= 1
  /\ main.pc = "kernel" => /\ main.ctrl \in Ctrl
                           /\ main.stream \in KernelStreams(main.ctrl)

\* Every event names a job already pushed, a device event one of a driver.
EventsInv ==
  /\ last_host_read \in HostEventTable
  /\ last_host_write \in HostEventTable
  /\ last_kernel_read \in [Ctrl \X Tiles -> DriverEvents]
  /\ last_kernel_write \in [Ctrl \X Tiles -> DriverEvents]
  /\ last_htd \in [Ctrl \X Tiles -> DriverEvents]
  /\ last_dth \in [Ctrl \X Tiles -> DriverEvents]
  /\ host_seq \in [Ctrl -> 0 .. Len(jobs)]
  /\ dev_seq \in [Ctrl -> DriverEvents]

StatusInv ==
  /\ attached \subseteq Ctrl \X Tiles
  /\ mode \in [Ctrl -> Modes]
  /\ host_status \in [Tiles -> Status]
  /\ device_status \in [Ctrl \X Tiles -> Status]

ExecInv ==
  /\ Started \subseteq DOMAIN jobs
  /\ done \subseteq Started
  /\ mem \in [Buffer -> 0 .. Len(jobs)]
  /\ \A n \in Started : seen[n] \in [jobs[n].reads -> 0 .. Len(jobs)]

(* What the queues hold.                                                   *)

Waits == ({"host"} \X DOMAIN jobs)
           \cup ({"dev"} \X {n \in DOMAIN jobs : OnDriver(n)})
Entries == Waits \cup ({"job"} \X DOMAIN jobs)

Holds(q, e) == \E i \in DOMAIN q : q[i] = e

\* Whatever is ahead of a job on its queue has a smaller number.
JobsBehind(q) ==
  \A j \in DOMAIN q : q[j][1] = "job" => \A i \in 1 .. j - 1 : q[i][2] < q[j][2]

\* Ahead of a wait for a device event whose job is not in S there is one for
\* the host event of that job.
DevBehind(q, S) ==
  \A j \in DOMAIN q : q[j][1] = "dev" =>
    q[j][2] \in S \/ \E i \in 1 .. j - 1 : q[i] = <<"host", q[j][2]>>

\* The lists of waits the handlers enqueue.
WaitList ==
  {w \in Seq(Waits) : Policy = "ASYNC" => DevBehind(w, {})}

\* A job is queued on its stream until it is issued or, on the host, done.
HomeInv ==
  /\ \A s \in Stream, n \in DOMAIN jobs :
       Holds(queue[s], <<"job", n>>) =>
         jobs[n].stream = s /\ n \notin done /\ n \notin DOMAIN issued
  /\ \A n \in DOMAIN jobs :
       \/ Holds(queue[jobs[n].stream], <<"job", n>>)
       \/ n \in DOMAIN issued
       \/ n \in done

\* Drivers run the jobs of their streams, each after earlier ones only.
IssuedInv ==
  /\ DOMAIN issued \subseteq DOMAIN jobs
  /\ \A n \in DOMAIN issued : OnDriver(n)
  /\ \A n \in DOMAIN issued :
       issued[n] \subseteq DOMAIN issued /\ \A m \in issued[n] : m < n
  /\ captured \in [DriverStream -> SUBSET DOMAIN issued]
  /\ \A s \in DriverStream, n \in DOMAIN jobs :
       Holds(queue[s], <<"job", n>>) => \A m \in captured[s] : m < n

\* A driver starts what was issued to it, the host thread what is at the head
\* of its queue, where it stays until it is done.
StartedInv ==
  \A n \in Started :
    IF OnDriver(n) THEN n \in DOMAIN issued
    ELSE n \in done \/ HostReady(n)

EntriesInv ==
  /\ queue \in [Stream -> Seq(Entries)]
  /\ \A s \in Stream : JobsBehind(queue[s])
  /\ Policy = "ASYNC" => \A s \in Stream : DevBehind(queue[s], DOMAIN issued)

QueueInv == EntriesInv /\ HomeInv /\ IssuedInv /\ StartedInv

\* The inductive invariant.
DriverInv ==
  JobsInv /\ MainInv /\ EventsInv /\ StatusInv /\ ExecInv /\ QueueInv
-----------------------------------------------------------------------------
(* Numbers and sequences.                                                  *)

\* A set of naturals has a least element.
LEMMA LeastNumber ==
  ASSUME NEW S \in SUBSET Nat, S # {}
  PROVE  \E n \in S : \A m \in S : n <= m
<1>. DEFINE less == {ss \in Nat \X Nat : ss[1] < ss[2]}
<1>1. IsWellFoundedOn(less, Nat)
  BY NatLessThanWellFounded DEF OpToRel
<1>2. PICK n \in S : \A m \in S : ~(<<m, n>> \in less)
  BY <1>1, WFMin, Zenon
<1>3. \A m \in S : m < n => <<m, n>> \in less
  BY SMT
<1>. HIDE DEF less
<1>4. ASSUME NEW m \in S PROVE n <= m
  <2>1. ~(m < n)
    BY <1>2, <1>3
  <2>2. m \in Nat /\ n \in Nat
    OBVIOUS
  <2>. QED
    BY <2>1, <2>2, SMT
<1>. QED
  BY <1>4

\* A set of numbers up to a bound has a greatest element.
LEMMA GreatestNumber ==
  ASSUME NEW N \in Nat, NEW S \in SUBSET (0 .. N), S # {}
  PROVE  \E n \in S : \A m \in S : m <= n
<1>. DEFINE T == {k \in 0 .. N : N - k \in S}
<1>1. T \in SUBSET Nat
  BY SMT
<1>2. T # {}
  <2>1. PICK n \in S : TRUE
    OBVIOUS
  <2>2. N - n \in 0 .. N /\ N - (N - n) = n
    BY <2>1, SMT
  <2>. QED
    BY <2>1, <2>2
<1>3. PICK k \in T : \A l \in T : k <= l
  <2>. HIDE DEF T
  <2>. QED
    BY <1>1, <1>2, LeastNumber
<1>4. N - k \in S
  BY <1>3
<1>5. ASSUME NEW m \in S PROVE m <= N - k
  <2>1. N - m \in T
    BY SMT
  <2>2. k <= N - m
    BY <1>3, <2>1
  <2>. QED
    BY <1>3, <2>2, SMT
<1>. QED
  BY <1>4, <1>5

\* Elements of two sequences one after the other.
LEMMA Concatenated ==
  ASSUME NEW E, NEW q \in Seq(E), NEW w \in Seq(E)
  PROVE  /\ q \o w \in Seq(E)
         /\ Len(q) \in Nat /\ Len(w) \in Nat
         /\ DOMAIN q = 1 .. Len(q) /\ DOMAIN w = 1 .. Len(w)
         /\ DOMAIN (q \o w) = 1 .. Len(q) + Len(w)
         /\ \A i \in 1 .. Len(q) : (q \o w)[i] = q[i]
         /\ \A i \in 1 .. Len(w) : (q \o w)[Len(q) + i] = w[i]
         /\ \A i \in 1 .. Len(q) + Len(w) :
              i \in 1 .. Len(q) \/ i - Len(q) \in 1 .. Len(w)
  BY SMT

\* What the concatenation of two sequences holds.
LEMMA HoldsConcatenated ==
  ASSUME NEW E, NEW q \in Seq(E), NEW w \in Seq(E), NEW e
  PROVE  Holds(q \o w, e) <=> Holds(q, e) \/ Holds(w, e)
<1>1. ASSUME Holds(q, e) PROVE Holds(q \o w, e)
  <2>1. PICK i \in DOMAIN q : q[i] = e
    BY <1>1 DEF Holds
  <2>2. i \in DOMAIN (q \o w) /\ (q \o w)[i] = e
    BY <2>1, Concatenated, SMT
  <2>. QED
    BY <2>2 DEF Holds
<1>2. ASSUME Holds(w, e) PROVE Holds(q \o w, e)
  <2>1. PICK i \in DOMAIN w : w[i] = e
    BY <1>2 DEF Holds
  <2>2. Len(q) + i \in DOMAIN (q \o w) /\ (q \o w)[Len(q) + i] = e
    BY <2>1, Concatenated, SMT
  <2>. QED
    BY <2>2 DEF Holds
<1>3. ASSUME Holds(q \o w, e) PROVE Holds(q, e) \/ Holds(w, e)
  <2>1. PICK i \in DOMAIN (q \o w) : (q \o w)[i] = e
    BY <1>3 DEF Holds
  <2>2. CASE i \in 1 .. Len(q)
    BY <2>1, <2>2, Concatenated DEF Holds
  <2>3. CASE i \notin 1 .. Len(q)
    <3>1. i - Len(q) \in DOMAIN w /\ i = Len(q) + (i - Len(q))
      BY <2>1, <2>3, Concatenated, SMT
    <3>2. w[i - Len(q)] = e
      BY <2>1, <3>1, Concatenated
    <3>. QED
      BY <3>1, <3>2 DEF Holds
  <2>. QED
    BY <2>2, <2>3
<1>. QED
  BY <1>1, <1>2, <1>3

\* What is left of a queue when its head is taken.
LEMMA Tailed ==
  ASSUME NEW E, NEW q \in Seq(E), q # <<>>
  PROVE  /\ Tail(q) \in Seq(E)
         /\ Len(q) \in Nat \ {0}
         /\ DOMAIN q = 1 .. Len(q)
         /\ Head(q) = q[1] /\ q[1] \in E
         /\ DOMAIN Tail(q) = 1 .. Len(q) - 1
         /\ \A i \in 1 .. Len(q) - 1 : Tail(q)[i] = q[i + 1]
         /\ \A i \in 2 .. Len(q) :
              i - 1 \in DOMAIN Tail(q) /\ q[i] = Tail(q)[i - 1]
  BY HeadTailProperties, SMT

\* Taking the head of a queue leaves the others.
LEMMA HoldsTailed ==
  ASSUME NEW E, NEW q \in Seq(E), q # <<>>, NEW e
  PROVE  /\ Holds(Tail(q), e) => Holds(q, e)
         /\ Holds(q, e) /\ e # Head(q) => Holds(Tail(q), e)
<1>1. ASSUME Holds(Tail(q), e) PROVE Holds(q, e)
  <2>1. PICK i \in DOMAIN Tail(q) : Tail(q)[i] = e
    BY <1>1 DEF Holds
  <2>2. i + 1 \in DOMAIN q /\ q[i + 1] = e
    BY <2>1, Tailed, SMT
  <2>. QED
    BY <2>2 DEF Holds
<1>2. ASSUME Holds(q, e), e # Head(q) PROVE Holds(Tail(q), e)
  <2>1. PICK i \in DOMAIN q : q[i] = e
    BY <1>2 DEF Holds
  <2>2. i \in 2 .. Len(q)
    BY <1>2, <2>1, Tailed, SMT
  <2>3. i - 1 \in DOMAIN Tail(q) /\ Tail(q)[i - 1] = e
    BY <2>1, <2>2, Tailed, SMT
  <2>. QED
    BY <2>3 DEF Holds
<1>. QED
  BY <1>1, <1>2

\* Jobs stay behind smaller numbers when entries follow them and, among these,
\* jobs are behind all the others.
LEMMA JobsBehindConcatenated ==
  ASSUME NEW E, NEW q \in Seq(E), NEW w \in Seq(E),
         JobsBehind(q), JobsBehind(w),
         \A j \in DOMAIN w : w[j][1] = "job" =>
           \A i \in DOMAIN q : q[i][2] < w[j][2]
  PROVE  JobsBehind(q \o w)
<1>. SUFFICES ASSUME NEW j \in DOMAIN (q \o w), (q \o w)[j][1] = "job",
                     NEW i \in 1 .. j - 1
              PROVE  (q \o w)[i][2] < (q \o w)[j][2]
  BY DEF JobsBehind
<1>1. /\ DOMAIN q = 1 .. Len(q) /\ DOMAIN w = 1 .. Len(w)
      /\ Len(q) \in Nat /\ Len(w) \in Nat
      /\ DOMAIN (q \o w) = 1 .. Len(q) + Len(w)
      /\ \A k \in 1 .. Len(q) : (q \o w)[k] = q[k]
      /\ \A k \in 1 .. Len(w) : (q \o w)[Len(q) + k] = w[k]
  BY Concatenated
<1>2. CASE j \in 1 .. Len(q)
  <2>1. i \in 1 .. Len(q) /\ i \in 1 .. j - 1
    BY <1>1, <1>2, SMT
  <2>2. (q \o w)[i] = q[i] /\ (q \o w)[j] = q[j]
    BY <1>1, <1>2, <2>1
  <2>. QED
    BY <1>1, <1>2, <2>1, <2>2 DEF JobsBehind
<1>3. CASE j \notin 1 .. Len(q)
  <2>1. j - Len(q) \in 1 .. Len(w) /\ j = Len(q) + (j - Len(q))
    BY <1>1, <1>3, SMT
  <2>2. (q \o w)[j] = w[j - Len(q)]
    BY <1>1, <2>1
  <2>3. CASE i \in 1 .. Len(q)
    <3>1. (q \o w)[i] = q[i]
      BY <1>1, <2>3
    <3>. QED
      BY <1>1, <2>1, <2>2, <2>3, <3>1
  <2>4. CASE i \notin 1 .. Len(q)
    <3>1. /\ i - Len(q) \in 1 .. Len(w) /\ i = Len(q) + (i - Len(q))
          /\ i - Len(q) \in 1 .. (j - Len(q)) - 1
      BY <1>1, <2>1, <2>4, SMT
    <3>2. (q \o w)[i] = w[i - Len(q)]
      BY <1>1, <3>1
    <3>. QED
      BY <1>1, <2>1, <2>2, <3>1, <3>2 DEF JobsBehind
  <2>. QED
    BY <2>3, <2>4
<1>. QED
  BY <1>2, <1>3

\* Waits for device events stay behind their host events when entries follow
\* them, if those are behind theirs.
LEMMA DevBehindConcatenated ==
  ASSUME NEW E, NEW q \in Seq(E), NEW w \in Seq(E), NEW S,
         DevBehind(q, S), DevBehind(w, S)
  PROVE  DevBehind(q \o w, S)
<1>. SUFFICES ASSUME NEW j \in DOMAIN (q \o w), (q \o w)[j][1] = "dev",
                     (q \o w)[j][2] \notin S
              PROVE  \E i \in 1 .. j - 1 :
                       (q \o w)[i] = <<"host", (q \o w)[j][2]>>
  BY DEF DevBehind
<1>1. /\ DOMAIN q = 1 .. Len(q) /\ DOMAIN w = 1 .. Len(w)
      /\ Len(q) \in Nat /\ Len(w) \in Nat
      /\ DOMAIN (q \o w) = 1 .. Len(q) + Len(w)
      /\ \A k \in 1 .. Len(q) : (q \o w)[k] = q[k]
      /\ \A k \in 1 .. Len(w) : (q \o w)[Len(q) + k] = w[k]
  BY Concatenated
<1>2. CASE j \in 1 .. Len(q)
  <2>1. (q \o w)[j] = q[j]
    BY <1>1, <1>2
  <2>2. PICK i \in 1 .. j - 1 : q[i] = <<"host", q[j][2]>>
    BY <1>1, <1>2, <2>1 DEF DevBehind
  <2>3. i \in 1 .. Len(q)
    BY <1>1, <1>2, SMT
  <2>4. (q \o w)[i] = q[i]
    BY <1>1, <2>3
  <2>. QED
    BY <2>1, <2>2, <2>4
<1>3. CASE j \notin 1 .. Len(q)
  <2>1. j - Len(q) \in 1 .. Len(w) /\ j = Len(q) + (j - Len(q))
    BY <1>1, <1>3, SMT
  <2>2. (q \o w)[j] = w[j - Len(q)]
    BY <1>1, <2>1
  <2>3. PICK i \in 1 .. (j - Len(q)) - 1 : w[i] = <<"host", w[j - Len(q)][2]>>
    BY <1>1, <2>1, <2>2 DEF DevBehind
  <2>4. i \in 1 .. Len(w) /\ Len(q) + i \in 1 .. j - 1
    BY <1>1, <2>1, SMT
  <2>5. (q \o w)[Len(q) + i] = w[i]
    BY <1>1, <2>4
  <2>. QED
    BY <2>2, <2>3, <2>4, <2>5
<1>. QED
  BY <1>2, <1>3

\* Taking the head leaves jobs behind smaller numbers.
LEMMA JobsBehindTailed ==
  ASSUME NEW E, NEW q \in Seq(E), q # <<>>, JobsBehind(q)
  PROVE  /\ JobsBehind(Tail(q))
         /\ \A j \in DOMAIN Tail(q) : Tail(q)[j][1] = "job" =>
              Head(q)[2] < Tail(q)[j][2]
<1>1. /\ Len(q) \in Nat \ {0} /\ DOMAIN q = 1 .. Len(q) /\ Head(q) = q[1]
      /\ DOMAIN Tail(q) = 1 .. Len(q) - 1
      /\ \A i \in 1 .. Len(q) - 1 : Tail(q)[i] = q[i + 1]
  BY Tailed
<1>2. ASSUME NEW j \in DOMAIN Tail(q), Tail(q)[j][1] = "job"
      PROVE  /\ Head(q)[2] < Tail(q)[j][2]
             /\ \A i \in 1 .. j - 1 : Tail(q)[i][2] < Tail(q)[j][2]
  <2>1. j + 1 \in DOMAIN q /\ 1 \in 1 .. (j + 1) - 1
    BY <1>1, SMT
  <2>2. Tail(q)[j] = q[j + 1]
    BY <1>1
  <2>3. \A i \in 1 .. (j + 1) - 1 : q[i][2] < q[j + 1][2]
    BY <1>2, <2>1, <2>2 DEF JobsBehind
  <2>4. Head(q)[2] < Tail(q)[j][2]
    BY <1>1, <2>1, <2>2, <2>3
  <2>5. ASSUME NEW i \in 1 .. j - 1 PROVE Tail(q)[i][2] < Tail(q)[j][2]
    <3>1. i \in 1 .. Len(q) - 1 /\ i + 1 \in 1 .. (j + 1) - 1
      BY <1>1, SMT
    <3>2. Tail(q)[i] = q[i + 1]
      BY <1>1, <3>1
    <3>. QED
      BY <2>2, <2>3, <3>1, <3>2
  <2>. QED
    BY <2>4, <2>5
<1>. QED
  BY <1>2 DEF JobsBehind

\* A wait for a host event is taken when the device event of the job was
\* issued too.
LEMMA DevBehindTailed ==
  ASSUME NEW E, NEW q \in Seq(E), q # <<>>, NEW S, NEW T, S \subseteq T,
         DevBehind(q, S),
         \A j \in DOMAIN q :
           q[j][1] = "dev" /\ Head(q) = <<"host", q[j][2]>> => q[j][2] \in T
  PROVE  DevBehind(Tail(q), T)
<1>1. /\ Len(q) \in Nat \ {0} /\ DOMAIN q = 1 .. Len(q) /\ Head(q) = q[1]
      /\ DOMAIN Tail(q) = 1 .. Len(q) - 1
      /\ \A i \in 1 .. Len(q) - 1 : Tail(q)[i] = q[i + 1]
      /\ \A i \in 2 .. Len(q) :
           i - 1 \in DOMAIN Tail(q) /\ q[i] = Tail(q)[i - 1]
  BY Tailed
<1>. SUFFICES ASSUME NEW j \in DOMAIN Tail(q), Tail(q)[j][1] = "dev",
                     Tail(q)[j][2] \notin T
              PROVE  \E i \in 1 .. j - 1 :
                       Tail(q)[i] = <<"host", Tail(q)[j][2]>>
  BY DEF DevBehind
<1>2. j + 1 \in DOMAIN q /\ Tail(q)[j] = q[j + 1]
  BY <1>1, SMT
<1>3. PICK i \in 1 .. (j + 1) - 1 : q[i] = <<"host", q[j + 1][2]>>
  BY <1>2 DEF DevBehind
<1>4. i # 1
  BY <1>1, <1>2, <1>3
<1>5. i \in 2 .. Len(q) /\ i - 1 \in 1 .. j - 1
  BY <1>1, <1>2, <1>3, <1>4, SMT
<1>6. q[i] = Tail(q)[i - 1]
  BY <1>1, <1>5
<1>. QED
  BY <1>2, <1>3, <1>5, <1>6

\* A recursion over the numbers up to N has a solution: the least N without
\* one would be one more than a number with one.
LEMMA FlattenDefined ==
  ASSUME NEW M \in Nat \ {0}, NEW S, NEW seqs \in [1 .. M -> S]
  PROVE  \E f : f = [i \in 1 .. M |->
                       IF i = 1 THEN seqs[i] ELSE f[i - 1] \o seqs[i]]
<1>. DEFINE Body(N, f) == [i \in 1 .. N |->
              IF i = 1 THEN seqs[i] ELSE f[i - 1] \o seqs[i]]
            Bad == {N \in Nat \ {0} : ~ \E f : f = Body(N, f)}
<1>1. ASSUME Bad # {} PROVE FALSE
  <2>1. Bad \in SUBSET Nat
    OBVIOUS
  <2>2. PICK N \in Bad : \A m \in Bad : N <= m
    <3>. HIDE DEF Bad
    <3>. QED
      BY <1>1, <2>1, LeastNumber
  <2>3. CASE N = 1
    <3>. DEFINE f == [i \in 1 .. 1 |-> seqs[i]]
    <3>1. f = Body(1, f)
      BY SMT
    <3>. QED
      BY <2>2, <2>3, <3>1
  <2>4. CASE N # 1
    <3>1. N \in Nat /\ N - 1 \in Nat \ {0} /\ ~(N <= N - 1)
      BY <2>2, <2>4, SMT
    <3>2. N - 1 \notin Bad
      BY <2>2, <3>1
    <3>3. PICK g : g = Body(N - 1, g)
      BY <3>1, <3>2
    <3>. DEFINE f == [i \in 1 .. N |->
                        IF i = N THEN g[N - 1] \o seqs[N] ELSE g[i]]
    <3>4. ASSUME NEW i \in 1 .. N
          PROVE  f[i] = IF i = 1 THEN seqs[i] ELSE f[i - 1] \o seqs[i]
      <4>1. CASE i = N
        <5>1. f[i - 1] = g[N - 1]
          <6>1. N - 1 \in 1 .. N /\ N - 1 # N
            BY <3>1, SMT
          <6>. QED
            BY <4>1, <6>1
        <5>. QED
          BY <2>4, <4>1, <5>1
      <4>2. CASE i # N /\ i # 1
        <5>1. i \in 1 .. N - 1 /\ i - 1 \in 1 .. N /\ i - 1 # N
          BY <3>1, <4>2, SMT
        <5>2. f[i] = g[i] /\ f[i - 1] = g[i - 1]
          BY <4>2, <5>1
        <5>3. g[i] = g[i - 1] \o seqs[i]
          BY <3>3, <4>2, <5>1
        <5>. HIDE DEF f
        <5>. QED
          BY <4>2, <5>2, <5>3
      <4>3. CASE i # N /\ i = 1
        <5>1. i \in 1 .. N - 1
          BY <3>1, <4>3, SMT
        <5>. QED
          BY <3>3, <4>3, <5>1
      <4>. QED
        BY <4>1, <4>2, <4>3
    <3>5. f = Body(N, f)
      <4>1. DOMAIN f = 1 .. N /\ f = [i \in 1 .. N |-> f[i]]
        OBVIOUS
      <4>. HIDE DEF f
      <4>. QED
        BY <3>4, <4>1
    <3>. QED
      BY <2>2, <3>5
  <2>. QED
    BY <2>3, <2>4
<1>2. M \notin Bad
  BY <1>1
<1>. QED
  BY <1>2

\* A set of sequences closed under concatenation has their concatenation.
LEMMA FlattenedIn ==
  ASSUME NEW M \in Nat \ {0}, NEW S, NEW seqs \in [1 .. M -> S],
         \A v, w \in S : v \o w \in S
  PROVE  FlattenSeq(seqs) \in S
<1>1. Len(seqs) = M
  <2>1. seqs \in Seq(S)
    BY SMT
  <2>2. DOMAIN seqs = 1 .. M
    OBVIOUS
  <2>. QED
    BY <2>1, <2>2, LenProperties, SMT
<1>. DEFINE Fits(f) == f = [i \in 1 .. M |->
              IF i = 1 THEN seqs[i] ELSE f[i - 1] \o seqs[i]]
            flat == CHOOSE f : Fits(f)
<1>2. Fits(flat)
  <2>1. \E f : Fits(f)
    BY FlattenDefined
  <2>. HIDE DEF Fits
  <2>. QED
    BY <2>1
<1>3. FlattenSeq(seqs) = flat[M]
  BY <1>1 DEF FlattenSeq
<1>4. \A i \in 1 .. M :
        flat[i] = IF i = 1 THEN seqs[i] ELSE flat[i - 1] \o seqs[i]
  BY <1>2
<1>. HIDE DEF flat
<1>. DEFINE Bad == {i \in 1 .. M : flat[i] \notin S}
<1>5. ASSUME Bad # {} PROVE FALSE
  <2>1. Bad \in SUBSET Nat
    BY SMT
  <2>2. PICK i \in Bad : \A m \in Bad : i <= m
    <3>. HIDE DEF Bad
    <3>. QED
      BY <1>5, <2>1, LeastNumber
  <2>3. CASE i = 1
    BY <1>4, <2>2, <2>3
  <2>4. CASE i # 1
    <3>1. i - 1 \in 1 .. M /\ ~(i <= i - 1)
      BY <2>2, <2>4, SMT
    <3>2. flat[i - 1] \in S
      BY <2>2, <3>1
    <3>. QED
      BY <1>4, <2>2, <2>4, <3>2
  <2>. QED
    BY <2>3, <2>4
<1>6. M \in 1 .. M
  BY SMT
<1>. QED
  BY <1>3, <1>5, <1>6
-----------------------------------------------------------------------------
(* The waits the handlers enqueue.                                         *)

\* Events are numbers of jobs, or 0.
LEMMA EventNumbers ==
  ASSUME JobsInv
  PROVE  /\ Len(jobs) \in Nat
         /\ DOMAIN jobs = 1 .. Len(jobs)
         /\ DriverEvents \subseteq 0 .. Len(jobs)
         /\ \A n \in 0 .. Len(jobs) : n # 0 => n \in DOMAIN jobs
         /\ \A n \in DriverEvents : n # 0 => n \in DOMAIN jobs /\ OnDriver(n)
         /\ 0 \in DriverEvents /\ 0 \in 0 .. Len(jobs)
<1>1. Len(jobs) \in Nat /\ DOMAIN jobs = 1 .. Len(jobs)
  BY SMT DEF JobsInv
<1>2. \A n \in 0 .. Len(jobs) : n # 0 => n \in DOMAIN jobs
  BY <1>1, SMT
<1>3. 0 \in 0 .. Len(jobs)
  BY <1>1, SMT
<1>. QED
  BY <1>1, <1>2, <1>3 DEF DriverEvents

\* Jobs are on streams of the model and use its buffers.
LEMMA JobTyped ==
  ASSUME JobsInv, NEW n \in DOMAIN jobs
  PROVE  /\ jobs[n] \in Job
         /\ jobs[n].stream \in Stream
         /\ jobs[n].reads \in SUBSET Buffer
         /\ jobs[n].writes \in SUBSET Buffer
<1>1. jobs[n] \in Job
  <2>1. jobs \in Seq(Job)
    BY DEF JobsInv
  <2>. HIDE DEF Job
  <2>. QED
    BY <2>1, SMT
<1>. QED
  BY <1>1 DEF Job

\* No wait at all.
LEMMA NoWait == <<>> \in WaitList
<1>1. <<>> \in Seq(Waits) /\ DOMAIN <<>> = {}
  BY SMT
<1>. QED
  BY <1>1 DEF WaitList, DevBehind

\* Lists of waits one after the other.
LEMMA WaitsConcatenated ==
  ASSUME NEW v \in WaitList, NEW w \in WaitList PROVE v \o w \in WaitList
<1>1. v \in Seq(Waits) /\ w \in Seq(Waits)
  BY DEF WaitList
<1>2. v \o w \in Seq(Waits)
  BY <1>1, Concatenated
<1>3. Policy = "ASYNC" => DevBehind(v \o w, {})
  BY <1>1, DevBehindConcatenated DEF WaitList
<1>. QED
  BY <1>2, <1>3 DEF WaitList

\* A list of one element.
LEMMA OneWait ==
  ASSUME NEW E, NEW e \in E
  PROVE  /\ << e >> \in Seq(E) /\ Len(<< e >>) = 1 /\ DOMAIN << e >> = {1}
         /\ << e >>[1] = e
         /\ \A x : Holds(<< e >>, x) <=> x = e
<1>1. /\ << e >> \in Seq(E) /\ Len(<< e >>) = 1 /\ DOMAIN << e >> = {1}
      /\ << e >>[1] = e
  BY SMT
<1>. QED
  BY <1>1 DEF Holds

\* The wait for a host event.
LEMMA HostWaitListed ==
  ASSUME JobsInv, NEW n \in 0 .. Len(jobs)
  PROVE  /\ HostWait(n) \in WaitList
         /\ n # 0 => Holds(HostWait(n), <<"host", n>>)
<1>1. CASE n = 0
  BY <1>1, NoWait DEF HostWait
<1>2. CASE n # 0
  <2>1. n \in DOMAIN jobs
    BY <1>2, EventNumbers
  <2>2. <<"host", n>> \in Waits
    BY <2>1 DEF Waits
  <2>3. HostWait(n) = << <<"host", n>> >>
    BY <1>2 DEF HostWait
  <2>4. /\ HostWait(n) \in Seq(Waits) /\ DOMAIN HostWait(n) = {1}
        /\ HostWait(n)[1] = <<"host", n>> /\ Holds(HostWait(n), <<"host", n>>)
    BY <2>2, <2>3, OneWait
  <2>5. DevBehind(HostWait(n), {})
    BY <2>4 DEF DevBehind
  <2>. QED
    BY <2>4, <2>5 DEF WaitList
<1>. QED
  BY <1>1, <1>2

\* The wait for a device event, behind one for the host event of that job.
LEMMA DevWaitListed ==
  ASSUME JobsInv, NEW w \in WaitList, NEW n \in DriverEvents,
         n # 0 => Holds(w, <<"host", n>>)
  PROVE  w \o DevWait(n) \in WaitList
<1>. DEFINE d == DevWait(n)
<1>0. w \in Seq(Waits)
  BY DEF WaitList
<1>1. CASE n = 0
  <2>1. d \in WaitList
    BY <1>1, NoWait DEF DevWait
  <2>. QED
    BY <2>1, WaitsConcatenated
<1>2. CASE n # 0
  <2>1. <<"dev", n>> \in Waits
    BY <1>2, EventNumbers DEF Waits
  <2>2. d = << <<"dev", n>> >>
    BY <1>2 DEF DevWait
  <2>3. d \in Seq(Waits) /\ Len(d) = 1 /\ d[1] = <<"dev", n>>
    BY <2>1, <2>2, OneWait
  <2>. HIDE DEF d
  <2>4. /\ w \o d \in Seq(Waits)
        /\ Len(w) \in Nat /\ DOMAIN w = 1 .. Len(w)
        /\ DOMAIN (w \o d) = 1 .. Len(w) + Len(d)
        /\ \A i \in 1 .. Len(w) : (w \o d)[i] = w[i]
        /\ \A i \in 1 .. Len(d) : (w \o d)[Len(w) + i] = d[i]
    <3>1. /\ w \o d \in Seq(Waits)
          /\ Len(w) \in Nat /\ DOMAIN w = 1 .. Len(w)
          /\ DOMAIN (w \o d) = 1 .. Len(w) + Len(d)
      BY ONLY <1>0, <2>3, Concatenated
    <3>2. \A i \in 1 .. Len(w) : (w \o d)[i] = w[i]
      BY ONLY <1>0, <2>3, Concatenated
    <3>3. \A i \in 1 .. Len(d) : (w \o d)[Len(w) + i] = d[i]
      BY ONLY <1>0, <2>3, Concatenated
    <3>. QED
      BY <3>1, <3>2, <3>3
  <2>5. (w \o d)[Len(w) + 1] = <<"dev", n>>
    BY <2>3, <2>4, SMT
  <2>6. PICK h \in 1 .. Len(w) : w[h] = <<"host", n>>
    BY <1>2, <2>4 DEF Holds
  <2>7. ASSUME Policy = "ASYNC" PROVE DevBehind(w \o d, {})
    <3>. SUFFICES ASSUME NEW j \in DOMAIN (w \o d), (w \o d)[j][1] = "dev"
                  PROVE  \E i \in 1 .. j - 1 :
                           (w \o d)[i] = <<"host", (w \o d)[j][2]>>
      BY DEF DevBehind
    <3>1. CASE j = Len(w) + 1
      <4>1. h \in 1 .. j - 1 /\ (w \o d)[h] = <<"host", n>>
        BY <2>4, <2>6, <3>1, SMT
      <4>2. (w \o d)[j][2] = n
        BY <2>5, <3>1
      <4>. QED
        BY <4>1, <4>2
    <3>2. CASE j # Len(w) + 1
      <4>1. j \in DOMAIN w /\ (w \o d)[j] = w[j]
        BY <2>3, <2>4, <3>2, SMT
      <4>2. PICK i \in 1 .. j - 1 : w[i] = <<"host", w[j][2]>>
        BY <2>7, <4>1 DEF WaitList, DevBehind
      <4>3. (w \o d)[i] = w[i]
        BY <2>4, <4>1, <4>2, SMT
      <4>. QED
        BY <4>1, <4>2, <4>3
    <3>. QED
      BY <3>1, <3>2
  <2>. QED
    BY <2>4, <2>7 DEF WaitList, d
<1>. QED
  BY <1>1, <1>2

\* What is waited for goes on being waited for as the list grows.
LEMMA HostWaitKept ==
  ASSUME NEW v \in WaitList, NEW w \in WaitList, NEW e
  PROVE  /\ Holds(v, e) => Holds(v \o w, e)
         /\ Holds(w, e) => Holds(v \o w, e)
  BY HoldsConcatenated DEF WaitList

\* The waits for both events of a job.
LEMMA BothListed ==
  ASSUME JobsInv, NEW n \in DriverEvents PROVE Both(n) \in WaitList
<1>1. n \in 0 .. Len(jobs)
  BY DEF DriverEvents
<1>. QED
  BY <1>1, HostWaitListed, DevWaitListed DEF Both

\* Waits of all the ctrls.
LEMMA ForEachCtrlListed ==
  ASSUME NEW waits \in [Ctrl -> WaitList]
  PROVE  ForEachCtrl(waits) \in WaitList
<1>. DEFINE seqs == [i \in 1 .. NCtrls |-> waits[i - 1]]
<1>1. NCtrls \in Nat \ {0}
  BY DriverCtrlAssumption
<1>2. seqs \in [1 .. NCtrls -> WaitList]
  <2>1. \A i \in 1 .. NCtrls : i - 1 \in Ctrl
    BY <1>1, SMT DEF Ctrl
  <2>. QED
    BY <2>1
<1>3. \A v, w \in WaitList : v \o w \in WaitList
  BY WaitsConcatenated
<1>4. FlattenSeq(seqs) \in WaitList
  <2>. HIDE DEF seqs
  <2>. QED
    BY <1>1, <1>2, <1>3, FlattenedIn
<1>. QED
  BY <1>4 DEF ForEachCtrl

\* The events of the SYNC policy.
LEMMA SyncWaitListed ==
  ASSUME JobsInv, EventsInv PROVE SyncWait \in WaitList
<1>1. CASE Policy # "SYNC"
  BY <1>1, NoWait DEF SyncWait
<1>2. CASE Policy = "SYNC"
  <2>. DEFINE waits == [c \in Ctrl |->
                          HostWait(host_seq[c]) \o DevWait(dev_seq[c])]
  <2>1. ASSUME NEW c \in Ctrl
        PROVE  HostWait(host_seq[c]) \o DevWait(dev_seq[c]) \in WaitList
    <3>1. host_seq[c] \in 0 .. Len(jobs) /\ dev_seq[c] \in DriverEvents
      BY DEF EventsInv
    <3>2. HostWait(host_seq[c]) \in WaitList
      BY <3>1, HostWaitListed
    <3>3. DevWait(dev_seq[c]) \in WaitList
      <4>1. CASE dev_seq[c] = 0
        BY <4>1, NoWait DEF DevWait
      <4>2. CASE dev_seq[c] # 0
        <5>1. <<"dev", dev_seq[c]>> \in Waits
          BY <3>1, <4>2, EventNumbers DEF Waits
        <5>2. DevWait(dev_seq[c]) \in Seq(Waits)
          BY <4>2, <5>1, OneWait DEF DevWait
        <5>. QED
          BY <1>2, <5>2 DEF WaitList
      <4>. QED
        BY <4>1, <4>2
    <3>. QED
      BY <3>2, <3>3, WaitsConcatenated
  <2>2. waits \in [Ctrl -> WaitList]
    BY <2>1
  <2>3. SyncWait = ForEachCtrl(waits)
    BY <1>2 DEF SyncWait
  <2>. HIDE DEF waits
  <2>. QED
    BY <2>2, <2>3, ForEachCtrlListed
<1>. QED
  BY <1>1, <1>2

\* The waits for the transfers of a tile.
LEMMA TransferWaitsListed ==
  ASSUME JobsInv, EventsInv, NEW t \in Tiles
  PROVE  MoveToWait(t) \in WaitList /\ MoveFromWait(t) \in WaitList
<1>. DEFINE dth == [i \in Ctrl |-> Both(last_dth[<<i, t>>])]
            htd == [i \in Ctrl |-> Both(last_htd[<<i, t>>])]
<1>1. \A i \in Ctrl : /\ last_dth[<<i, t>>] \in DriverEvents
                      /\ last_htd[<<i, t>>] \in DriverEvents
  BY DEF EventsInv
<1>2. dth \in [Ctrl -> WaitList] /\ htd \in [Ctrl -> WaitList]
  BY <1>1, BothListed
<1>3. MoveToWait(t) = ForEachCtrl(dth) /\ MoveFromWait(t) = ForEachCtrl(htd)
  BY DEF MoveToWait, MoveFromWait
<1>. HIDE DEF dth, htd
<1>. QED
  BY <1>2, <1>3, ForEachCtrlListed

\* The events of a tile that handlers look at.
LEMMA TileEventsTyped ==
  ASSUME JobsInv, EventsInv, NEW c \in Ctrl, NEW t \in Tiles
  PROVE  /\ last_host_read[t] \in 0 .. Len(jobs)
         /\ last_host_write[t] \in 0 .. Len(jobs)
         /\ \A n \in {last_kernel_read[<<c, t>>], last_kernel_write[<<c, t>>],
                      last_htd[<<c, t>>], last_dth[<<c, t>>]} :
              n \in DriverEvents /\ n \in 0 .. Len(jobs)
<1>1. /\ last_host_read[t] \in 0 .. Len(jobs)
      /\ last_host_write[t] \in 0 .. Len(jobs)
  BY DEF EventsInv, HostEventTable
<1>2. \A n \in {last_kernel_read[<<c, t>>], last_kernel_write[<<c, t>>],
                last_htd[<<c, t>>], last_dth[<<c, t>>]} : n \in DriverEvents
  BY DEF EventsInv
<1>. QED
  BY <1>1, <1>2 DEF DriverEvents

\* The waits of a transfer to a device.
LEMMA MoveToWaitsListed ==
  ASSUME JobsInv, EventsInv, NEW c \in Ctrl, NEW t \in Tiles
  PROVE  MoveToWait(t)
           \o HostWait(last_kernel_read[<<c, t>>])
           \o HostWait(last_kernel_write[<<c, t>>])
           \o HostWait(last_host_write[t])
           \o DevWait(last_kernel_read[<<c, t>>])
           \o DevWait(last_kernel_write[<<c, t>>])
           \o SyncWait \in WaitList
<1>. DEFINE kr == last_kernel_read[<<c, t>>]
            kw == last_kernel_write[<<c, t>>]
            hw == last_host_write[t]
            w0 == MoveToWait(t)
            w1 == w0 \o HostWait(kr)
            w2 == w1 \o HostWait(kw)
            w3 == w2 \o HostWait(hw)
            w4 == w3 \o DevWait(kr)
            w5 == w4 \o DevWait(kw)
<1>1. /\ kr \in DriverEvents /\ kw \in DriverEvents
      /\ kr \in 0 .. Len(jobs) /\ kw \in 0 .. Len(jobs)
      /\ hw \in 0 .. Len(jobs)
  BY TileEventsTyped
<1>. HIDE DEF kr, kw, hw
<1>2. /\ HostWait(kr) \in WaitList /\ HostWait(kw) \in WaitList
      /\ HostWait(hw) \in WaitList
      /\ kr # 0 => Holds(HostWait(kr), <<"host", kr>>)
      /\ kw # 0 => Holds(HostWait(kw), <<"host", kw>>)
  BY <1>1, HostWaitListed
<1>3. w0 \in WaitList /\ SyncWait \in WaitList
  BY TransferWaitsListed, SyncWaitListed
<1>. HIDE DEF w0
<1>4. w1 \in WaitList /\ (kr # 0 => Holds(w1, <<"host", kr>>))
  BY <1>2, <1>3, WaitsConcatenated, HostWaitKept
<1>. HIDE DEF w1
<1>5. /\ w2 \in WaitList /\ (kr # 0 => Holds(w2, <<"host", kr>>))
      /\ kw # 0 => Holds(w2, <<"host", kw>>)
  BY <1>2, <1>4, WaitsConcatenated, HostWaitKept
<1>. HIDE DEF w2
<1>6. /\ w3 \in WaitList /\ (kr # 0 => Holds(w3, <<"host", kr>>))
      /\ kw # 0 => Holds(w3, <<"host", kw>>)
  BY <1>2, <1>5, WaitsConcatenated, HostWaitKept
<1>. HIDE DEF w3
<1>7. w4 \in WaitList
  BY <1>1, <1>6, DevWaitListed
<1>8. kw # 0 => Holds(w4, <<"host", kw>>)
  <2>1. w3 \in Seq(Waits)
    BY <1>6 DEF WaitList
  <2>2. DevWait(kr) \in Seq(Waits)
    <3>1. CASE kr = 0
      BY <3>1, NoWait DEF DevWait, WaitList
    <3>2. CASE kr # 0
      <4>1. <<"dev", kr>> \in Waits
        BY <1>1, <3>2, EventNumbers DEF Waits
      <4>. QED
        BY <3>2, <4>1, OneWait DEF DevWait
    <3>. QED
      BY <3>1, <3>2
  <2>. QED
    BY <1>6, <2>1, <2>2, HoldsConcatenated
<1>. HIDE DEF w4
<1>9. w5 \in WaitList
  BY <1>1, <1>7, <1>8, DevWaitListed
<1>10. w5 \o SyncWait \in WaitList
  BY <1>3, <1>9, WaitsConcatenated
<1>. QED
  BY <1>10 DEF w5, w4, w3, w2, w1, w0, kr, kw, hw

\* The waits of a transfer from a device.
LEMMA MoveFromWaitsListed ==
  ASSUME JobsInv, EventsInv, NEW c \in Ctrl, NEW t \in Tiles
  PROVE  MoveFromWait(t)
           \o HostWait(last_kernel_write[<<c, t>>])
           \o HostWait(last_host_read[t])
           \o HostWait(last_host_write[t])
           \o DevWait(last_kernel_write[<<c, t>>])
           \o SyncWait \in WaitList
<1>. DEFINE kw == last_kernel_write[<<c, t>>]
            hr == last_host_read[t]
            hw == last_host_write[t]
            w0 == MoveFromWait(t)
            w1 == w0 \o HostWait(kw)
            w2 == w1 \o HostWait(hr)
            w3 == w2 \o HostWait(hw)
            w4 == w3 \o DevWait(kw)
<1>1. /\ kw \in DriverEvents /\ kw \in 0 .. Len(jobs)
      /\ hr \in 0 .. Len(jobs) /\ hw \in 0 .. Len(jobs)
  BY TileEventsTyped
<1>. HIDE DEF kw, hr, hw
<1>2. /\ HostWait(kw) \in WaitList /\ HostWait(hr) \in WaitList
      /\ HostWait(hw) \in WaitList
      /\ kw # 0 => Holds(HostWait(kw), <<"host", kw>>)
  BY <1>1, HostWaitListed
<1>3. w0 \in WaitList /\ SyncWait \in WaitList
  BY TransferWaitsListed, SyncWaitListed
<1>. HIDE DEF w0
<1>4. w1 \in WaitList /\ (kw # 0 => Holds(w1, <<"host", kw>>))
  BY <1>2, <1>3, WaitsConcatenated, HostWaitKept
<1>. HIDE DEF w1
<1>5. w2 \in WaitList /\ (kw # 0 => Holds(w2, <<"host", kw>>))
  BY <1>2, <1>4, WaitsConcatenated, HostWaitKept
<1>. HIDE DEF w2
<1>6. w3 \in WaitList /\ (kw # 0 => Holds(w3, <<"host", kw>>))
  BY <1>2, <1>5, WaitsConcatenated, HostWaitKept
<1>. HIDE DEF w3
<1>7. w4 \in WaitList
  BY <1>1, <1>6, DevWaitListed
<1>8. w4 \o SyncWait \in WaitList
  BY <1>3, <1>7, WaitsConcatenated
<1>. QED
  BY <1>8 DEF w4, w3, w2, w1, w0, kw, hr, hw

\* The waits of a kernel for one argument.
LEMMA KernelWaitListed ==
  ASSUME JobsInv, EventsInv, NEW c \in Ctrl, NEW t \in Tiles, NEW role
  PROVE  KernelWait(c, t, role) \in WaitList
<1>1. /\ Both(last_kernel_write[<<c, t>>]) \in WaitList
      /\ Both(last_kernel_read[<<c, t>>]) \in WaitList
      /\ Both(last_htd[<<c, t>>]) \in WaitList
      /\ Both(last_dth[<<c, t>>]) \in WaitList
  BY TileEventsTyped, BothListed
<1>. DEFINE w1 == IF NKernelStreams[c] # 1
                  THEN Both(last_kernel_write[<<c, t>>]) ELSE <<>>
            w2 == IF TransfersMatter(c, t) THEN Both(last_htd[<<c, t>>])
                  ELSE <<>>
            w3 == IF role # "IN" /\ NKernelStreams[c] # 1
                  THEN Both(last_kernel_read[<<c, t>>]) ELSE <<>>
            w4 == IF role # "IN" /\ TransfersMatter(c, t)
                  THEN Both(last_dth[<<c, t>>]) ELSE <<>>
<1>2. /\ w1 \in WaitList /\ w2 \in WaitList
      /\ w3 \in WaitList /\ w4 \in WaitList
  BY <1>1, NoWait
<1>3. KernelWait(c, t, role) = w1 \o w2 \o w3 \o w4
  BY DEF KernelWait
<1>. HIDE DEF w1, w2, w3, w4
<1>4. w1 \o w2 \in WaitList
  BY <1>2, WaitsConcatenated
<1>5. w1 \o w2 \o w3 \in WaitList
  BY <1>2, <1>4, WaitsConcatenated
<1>6. w1 \o w2 \o w3 \o w4 \in WaitList
  BY <1>2, <1>5, WaitsConcatenated
<1>. QED
  BY <1>3, <1>6

\* The waits of a host task for one argument.
LEMMA HostTaskWaitsListed ==
  ASSUME JobsInv, EventsInv, NEW t \in Tiles, NEW role
  PROVE  ForEachCtrl([c \in Ctrl |-> HostTaskWait(c, t, role)])
           \o HostWait(last_host_write[t])
           \o (IF role # "IN" THEN HostWait(last_host_read[t]) ELSE <<>>)
           \in WaitList
<1>. DEFINE waits == [c \in Ctrl |-> HostTaskWait(c, t, role)]
            w1 == HostWait(last_host_write[t])
            w2 == IF role # "IN" THEN HostWait(last_host_read[t]) ELSE <<>>
<1>1. ASSUME NEW c \in Ctrl PROVE HostTaskWait(c, t, role) \in WaitList
  <2>. DEFINE v1 == Both(last_dth[<<c, t>>])
              v2 == IF role # "IN" THEN Both(last_htd[<<c, t>>]) ELSE <<>>
  <2>1. v1 \in WaitList /\ v2 \in WaitList
    BY TileEventsTyped, BothListed, NoWait
  <2>2. HostTaskWait(c, t, role) = v1 \o v2
    BY DEF HostTaskWait
  <2>. HIDE DEF v1, v2
  <2>. QED
    BY <2>1, <2>2, WaitsConcatenated
<1>2. ForEachCtrl(waits) \in WaitList
  <2>1. waits \in [Ctrl -> WaitList]
    BY <1>1
  <2>. HIDE DEF waits
  <2>. QED
    BY <2>1, ForEachCtrlListed
<1>3. w1 \in WaitList /\ w2 \in WaitList
  <2>1. last_host_read[t] \in 0 .. Len(jobs) /\ last_host_write[t] \in 0 .. Len(jobs)
    BY DEF EventsInv, HostEventTable
  <2>. QED
    BY <2>1, HostWaitListed, NoWait
<1>. HIDE DEF waits, w1, w2
<1>4. ForEachCtrl(waits) \o w1 \in WaitList
  BY <1>2, <1>3, WaitsConcatenated
<1>5. ForEachCtrl(waits) \o w1 \o w2 \in WaitList
  BY <1>3, <1>4, WaitsConcatenated
<1>. QED
  BY <1>5 DEF waits, w1, w2

\* The last job on a stream.
LEMMA LastOnTyped ==
  ASSUME JobsInv, NEW s
  PROVE  /\ LastOn(s) \in 0 .. Len(jobs)
         /\ s # HostStream => LastOn(s) \in DriverEvents
<1>1. CASE JobsOn(s) = {}
  BY <1>1, EventNumbers DEF LastOn
<1>2. CASE JobsOn(s) # {}
  <2>1. JobsOn(s) \in SUBSET (0 .. Len(jobs))
    BY EventNumbers, SMT DEF JobsOn
  <2>2. \E n \in JobsOn(s) : \A m \in JobsOn(s) : m <= n
    BY <1>2, <2>1, EventNumbers, GreatestNumber
  <2>3. LastOn(s) \in JobsOn(s)
    BY <1>2, <2>2 DEF LastOn
  <2>. QED
    BY <2>1, <2>3 DEF JobsOn, DriverEvents, OnDriver
<1>. QED
  BY <1>1, <1>2
-----------------------------------------------------------------------------
(* How the queues change.                                                  *)

\* Entries and waits by kind.
LEMMA EntryKinds ==
  /\ Waits \subseteq Entries
  /\ \A e \in Entries : /\ e[2] \in DOMAIN jobs
                        /\ e[1] \in {"host", "dev", "job"}
                        /\ e = <<e[1], e[2]>>
                        /\ e[1] = "dev" => OnDriver(e[2])
  /\ \A e \in Waits : e[1] # "job"
<1>1. ASSUME NEW e \in Waits
      PROVE  /\ e[2] \in DOMAIN jobs
             /\ e[1] \in {"host", "dev"}
             /\ e = <<e[1], e[2]>>
             /\ e[1] = "dev" => OnDriver(e[2])
  <2>1. CASE e \in {"host"} \X DOMAIN jobs
    BY <2>1
  <2>2. CASE e \in {"dev"} \X {n \in DOMAIN jobs : OnDriver(n)}
    BY <2>2
  <2>. QED
    BY <2>1, <2>2 DEF Waits
<1>2. ASSUME NEW e \in {"job"} \X DOMAIN jobs
      PROVE  e[2] \in DOMAIN jobs /\ e[1] = "job" /\ e = <<e[1], e[2]>>
  OBVIOUS
<1>. QED
  BY <1>1, <1>2 DEF Entries

\* Entries added behind a queue.
LEMMA Enqueued ==
  ASSUME NEW E, queue \in [Stream -> Seq(E)], NEW s \in Stream,
         NEW w \in Seq(E), queue' = Enqueue(s, w)
  PROVE  /\ queue' \in [Stream -> Seq(E)]
         /\ queue'[s] = queue[s] \o w
         /\ \A r \in Stream : r # s => queue'[r] = queue[r]
         /\ \A r \in Stream : \A e :
              Holds(queue'[r], e) <=>
                Holds(queue[r], e) \/ (r = s /\ Holds(w, e))
         /\ \A r \in Stream : queue[r] # <<>> =>
              queue'[r] # <<>> /\ Head(queue'[r]) = Head(queue[r])
<1>1. queue[s] \o w \in Seq(E)
  BY Concatenated
<1>2. queue' = [queue EXCEPT ![s] = queue[s] \o w]
  BY DEF Enqueue
<1>3. /\ queue' \in [Stream -> Seq(E)]
      /\ queue'[s] = queue[s] \o w
      /\ \A r \in Stream : r # s => queue'[r] = queue[r]
  BY <1>1, <1>2
<1>4. ASSUME NEW r \in Stream, NEW e
      PROVE  Holds(queue'[r], e) <=>
               Holds(queue[r], e) \/ (r = s /\ Holds(w, e))
  <2>1. CASE r = s
    <3>1. queue[s] \in Seq(E)
      OBVIOUS
    <3>2. Holds(queue[s] \o w, e) <=> Holds(queue[s], e) \/ Holds(w, e)
      BY <3>1, HoldsConcatenated
    <3>. QED
      BY <1>3, <2>1, <3>2
  <2>2. CASE r # s
    BY <1>3, <2>2
  <2>. QED
    BY <2>1, <2>2
<1>5. ASSUME NEW r \in Stream, queue[r] # <<>>
      PROVE  queue'[r] # <<>> /\ Head(queue'[r]) = Head(queue[r])
  <2>1. CASE r = s
    <3>1. queue[s] \in Seq(E) /\ queue[s] # <<>>
      BY <1>5, <2>1
    <3>2. queue[s] \o w # <<>> /\ Head(queue[s] \o w) = Head(queue[s])
      <4>. DEFINE q == queue[s]
      <4>1. q \in Seq(E) /\ q # <<>>
        BY <3>1
      <4>. HIDE DEF q
      <4>2. q \o w # <<>> /\ Head(q \o w) = Head(q)
        BY <4>1, SMT
      <4>. QED
        BY <4>2 DEF q
    <3>. QED
      BY <1>3, <2>1, <3>2
  <2>2. CASE r # s
    BY <1>3, <1>5, <2>2
  <2>. QED
    BY <2>1, <2>2
<1>. QED
  BY <1>3, <1>4, <1>5

\* Waits enqueued behind a queue.
LEMMA WaitsKeepQueues ==
  ASSUME JobsInv, QueueInv, NEW s \in Stream, NEW w \in WaitList,
         queue' = Enqueue(s, w), UNCHANGED <<jobs, driverVars, execVars>>
  PROVE  QueueInv'
<1>1. w \in Seq(Waits) /\ Waits \subseteq Entries
  BY EntryKinds DEF WaitList
<1>2. w \in Seq(Entries)
  <2>. HIDE DEF Waits, Entries
  <2>. QED
    BY <1>1, SMT
<1>3. queue \in [Stream -> Seq(Entries)]
  BY DEF QueueInv, EntriesInv
<1>4. UNCHANGED <<jobs, captured, issued, seen, done, mem>>
  BY DEF driverVars, execVars
<1>5. Entries' = Entries
  BY <1>4 DEF Entries, Waits, OnDriver
<1>6. ASSUME NEW i \in DOMAIN w PROVE w[i] \in Waits /\ w[i][1] # "job"
  <2>1. w[i] \in Waits
    <3>. HIDE DEF Waits
    <3>. QED
      BY <1>1, SMT
  <2>. QED
    BY <2>1, EntryKinds
<1>7. \A n : ~Holds(w, <<"job", n>>)
  BY <1>6 DEF Holds
<1>8. /\ queue' \in [Stream -> Seq(Entries)]
      /\ queue'[s] = queue[s] \o w
      /\ \A r \in Stream : r # s => queue'[r] = queue[r]
      /\ \A r \in Stream : \A e :
           Holds(queue'[r], e) <=> Holds(queue[r], e) \/ (r = s /\ Holds(w, e))
      /\ \A r \in Stream : queue[r] # <<>> =>
           queue'[r] # <<>> /\ Head(queue'[r]) = Head(queue[r])
  BY <1>2, <1>3, Enqueued
<1>9. \A r \in Stream : \A n :
        Holds(queue'[r], <<"job", n>>) <=> Holds(queue[r], <<"job", n>>)
  BY <1>7, <1>8
<1>10. EntriesInv'
  <2>1. JobsBehind(queue[s] \o w)
    <3>1. JobsBehind(w)
      BY <1>6 DEF JobsBehind
    <3>2. queue[s] \in Seq(Entries) /\ JobsBehind(queue[s])
      BY <1>3 DEF QueueInv, EntriesInv
    <3>. QED
      BY <1>2, <1>6, <3>1, <3>2, JobsBehindConcatenated
  <2>2. ASSUME Policy = "ASYNC" PROVE DevBehind(queue[s] \o w, DOMAIN issued)
    <3>1. DevBehind(w, DOMAIN issued)
      BY <2>2 DEF WaitList, DevBehind
    <3>2. queue[s] \in Seq(Entries) /\ DevBehind(queue[s], DOMAIN issued)
      BY <1>3, <2>2 DEF QueueInv, EntriesInv
    <3>. QED
      BY <1>2, <3>1, <3>2, DevBehindConcatenated
  <2>3. ASSUME NEW r \in Stream
        PROVE  /\ JobsBehind(queue'[r])
               /\ Policy = "ASYNC" => DevBehind(queue'[r], DOMAIN issued)
    <3>1. CASE r = s
      BY <1>8, <2>1, <2>2, <3>1
    <3>2. CASE r # s
      BY <1>8, <3>2 DEF QueueInv, EntriesInv
    <3>. QED
      BY <3>1, <3>2
  <2>. QED
    BY <1>4, <1>5, <1>8, <2>3 DEF EntriesInv
<1>11. HomeInv'
  <2>1. \A n \in DOMAIN jobs : jobs[n].stream \in Stream
    BY JobTyped
  <2>. QED
    BY <1>4, <1>9, <2>1 DEF QueueInv, HomeInv
<1>12. IssuedInv'
  <2>1. DriverStream \subseteq Stream
    BY DEF Stream
  <2>. QED
    BY <1>4, <1>9, <2>1 DEF QueueInv, IssuedInv, OnDriver
<1>13. StartedInv'
  <2>1. HostStream \in Stream
    BY DEF Stream
  <2>2. \A n : HostReady(n) => HostReady(n)'
    BY <1>8, <2>1 DEF HostReady, HeadIs, HeadJob
  <2>. QED
    BY <1>4, <2>2 DEF QueueInv, StartedInv, Started, OnDriver
<1>. QED
  BY <1>10, <1>11, <1>12, <1>13 DEF QueueInv

\* A push adds a job behind the others and changes none of them.
LEMMA PushGrows ==
  ASSUME JobsInv, NEW s \in Stream, NEW reads \in SUBSET Buffer,
         NEW writes \in SUBSET Buffer, NEW w,
         s[2] \in {"kernel", "host"} \/ reads # {}, Push(s, reads, writes, w)
  PROVE  /\ JobsInv'
         /\ Len(jobs) \in Nat /\ Ticket = Len(jobs) + 1
         /\ Len(jobs') = Len(jobs) + 1
         /\ DOMAIN jobs = 1 .. Len(jobs)
         /\ DOMAIN jobs' = 1 .. Len(jobs) + 1
         /\ \A n \in DOMAIN jobs : jobs'[n] = jobs[n]
         /\ jobs'[Len(jobs) + 1] =
              [stream |-> s, reads |-> reads, writes |-> writes]
<1>. DEFINE job == [stream |-> s, reads |-> reads, writes |-> writes]
<1>1. job \in Job
  BY DEF Job
<1>2. jobs' = Append(jobs, job)
  BY DEF Push
<1>3. jobs \in Seq(Job)
  BY DEF JobsInv
<1>4. /\ jobs' \in Seq(Job)
      /\ Len(jobs) \in Nat
      /\ Len(jobs') = Len(jobs) + 1
      /\ DOMAIN jobs = 1 .. Len(jobs)
      /\ DOMAIN jobs' = 1 .. Len(jobs) + 1
      /\ \A n \in 1 .. Len(jobs) : jobs'[n] = jobs[n]
      /\ jobs'[Len(jobs) + 1] = job
  <2>. HIDE DEF job, Job
  <2>. QED
    BY <1>1, <1>2, <1>3, SMT
<1>5. ASSUME NEW n \in DOMAIN jobs'
      PROVE  jobs'[n].stream[2] \in {"kernel", "host"} \/ jobs'[n].reads # {}
  <2>1. CASE n = Len(jobs) + 1
    BY <2>1, <1>4
  <2>2. CASE n \in DOMAIN jobs
    BY <2>2, <1>4 DEF JobsInv, IsTask
  <2>. QED
    BY <2>1, <2>2, <1>4, SMT
<1>6. JobsInv'
  BY <1>4, <1>5 DEF JobsInv, IsTask
<1>. QED
  BY <1>4, <1>6 DEF Ticket

\* A job pushed, behind its waits.
LEMMA PushKeepsQueues ==
  ASSUME JobsInv, QueueInv, ExecInv, NEW s \in Stream,
         NEW reads \in SUBSET Buffer, NEW writes \in SUBSET Buffer,
         NEW w \in WaitList,
         s[2] \in {"kernel", "host"} \/ reads # {},
         Push(s, reads, writes, w), UNCHANGED <<driverVars, execVars>>
  PROVE  QueueInv'
<1>. DEFINE N == Len(jobs) + 1
            e == <<"job", N>>
            x == w \o << e >>
<1>1. /\ Len(jobs) \in Nat /\ Ticket = N
      /\ DOMAIN jobs = 1 .. Len(jobs)
      /\ DOMAIN jobs' = 1 .. N
      /\ \A n \in DOMAIN jobs : jobs'[n] = jobs[n]
      /\ jobs'[N].stream = s
  <2>1. /\ Len(jobs) \in Nat /\ Ticket = Len(jobs) + 1
        /\ DOMAIN jobs = 1 .. Len(jobs)
        /\ DOMAIN jobs' = 1 .. Len(jobs) + 1
        /\ \A n \in DOMAIN jobs : jobs'[n] = jobs[n]
        /\ jobs'[Len(jobs) + 1] =
             [stream |-> s, reads |-> reads, writes |-> writes]
    BY PushGrows
  <2>2. jobs'[N].stream = s
    BY <2>1
  <2>. QED
    BY <2>1, <2>2
<1>2. /\ DOMAIN jobs \subseteq DOMAIN jobs' /\ N \in DOMAIN jobs'
      /\ \A n \in DOMAIN jobs' : n \in DOMAIN jobs \/ n = N
      /\ N \notin DOMAIN jobs
      /\ \A n \in DOMAIN jobs : n < N /\ n # N
  BY <1>1, SMT
<1>3. UNCHANGED <<captured, issued, seen, done, mem>>
  BY DEF driverVars, execVars
<1>4. /\ Entries \subseteq Entries' /\ Waits \subseteq Entries
      /\ e \in Entries'
  <2>1. \A n \in DOMAIN jobs : OnDriver(n) => OnDriver(n)'
    BY <1>1 DEF OnDriver
  <2>2. Entries \subseteq Entries'
    BY <1>2, <2>1 DEF Entries, Waits
  <2>. QED
    BY <1>2, <2>2, EntryKinds DEF Entries
<1>5. queue' = Enqueue(s, x)
  BY <1>1 DEF Push
<1>6. /\ w \in Seq(Waits) /\ queue \in [Stream -> Seq(Entries)]
  BY DEF WaitList, QueueInv, EntriesInv
<1>7. ASSUME NEW i \in DOMAIN w
      PROVE  w[i] \in Waits /\ w[i][1] # "job" /\ w[i][2] < N
  <2>1. w[i] \in Waits
    <3>. HIDE DEF Waits
    <3>. QED
      BY <1>6, SMT
  <2>. QED
    BY <1>2, <2>1, EntryKinds
<1>8. ASSUME NEW r \in Stream, NEW i \in DOMAIN queue[r]
      PROVE  queue[r][i] \in Entries /\ queue[r][i][2] < N
  <2>1. queue[r] \in Seq(Entries)
    BY <1>6
  <2>2. queue[r][i] \in Entries
    <3>. HIDE DEF Entries
    <3>. QED
      BY <2>1, SMT
  <2>. QED
    BY <1>2, <2>2, EntryKinds
<1>9. /\ w \in Seq(Entries') /\ << e >> \in Seq(Entries')
      /\ queue \in [Stream -> Seq(Entries')]
      /\ DOMAIN << e >> = {1} /\ << e >>[1] = e
      /\ \A y : Holds(<< e >>, y) <=> y = e
  <2>. DEFINE E2 == Entries'
  <2>1. Entries \subseteq E2 /\ Waits \subseteq E2 /\ e \in E2
    BY <1>4
  <2>. HIDE DEF E2, Entries, Waits
  <2>2. Seq(Entries) \subseteq Seq(E2) /\ w \in Seq(E2)
    BY <1>6, <2>1, SMT
  <2>3. queue \in [Stream -> Seq(E2)]
    BY <1>6, <2>2
  <2>4. /\ << e >> \in Seq(E2) /\ DOMAIN << e >> = {1} /\ << e >>[1] = e
        /\ \A y : Holds(<< e >>, y) <=> y = e
    <3>. HIDE DEF e
    <3>. QED
      BY <2>1, OneWait
  <2>. QED
    BY <2>2, <2>3, <2>4 DEF E2
<1>10. x \in Seq(Entries') /\ \A y : Holds(x, y) <=> Holds(w, y) \/ y = e
  <2>. HIDE DEF e
  <2>. QED
    BY <1>9, Concatenated, HoldsConcatenated
<1>. HIDE DEF x
<1>11. /\ queue' \in [Stream -> Seq(Entries')]
       /\ queue'[s] = queue[s] \o x
       /\ \A r \in Stream : r # s => queue'[r] = queue[r]
       /\ \A r \in Stream : \A y :
            Holds(queue'[r], y) <=> Holds(queue[r], y) \/ (r = s /\ Holds(x, y))
       /\ \A r \in Stream : queue[r] # <<>> =>
            queue'[r] # <<>> /\ Head(queue'[r]) = Head(queue[r])
  BY <1>5, <1>9, <1>10, Enqueued
<1>12. \A n : ~Holds(w, <<"job", n>>)
  BY <1>7 DEF Holds
<1>13. \A r \in Stream : \A n :
         Holds(queue'[r], <<"job", n>>) <=>
           Holds(queue[r], <<"job", n>>) \/ (r = s /\ n = N)
  BY <1>10, <1>11, <1>12
<1>14. \A r \in Stream : ~Holds(queue[r], <<"job", N>>)
  <2>1. \A r \in Stream : \A i \in DOMAIN queue[r] : queue[r][i][2] # N
    BY <1>2, <1>8, EntryKinds
  <2>. QED
    BY <2>1 DEF Holds
<1>15. EntriesInv'
  <2>1. JobsBehind(x)
    <3>1. JobsBehind(w)
      BY <1>7 DEF JobsBehind
    <3>2. JobsBehind(<< e >>)
      <4>1. 1 .. 1 - 1 = {}
        BY SMT
      <4>. QED
        BY <1>9, <4>1 DEF JobsBehind
    <3>3. \A j \in DOMAIN << e >> : << e >>[j][1] = "job" =>
            \A i \in DOMAIN w : w[i][2] < << e >>[j][2]
      BY <1>7, <1>9
    <3>. QED
      BY <1>9, <3>1, <3>2, <3>3, JobsBehindConcatenated DEF x
  <2>2. JobsBehind(queue[s] \o x)
    <3>1. queue[s] \in Seq(Entries') /\ JobsBehind(queue[s])
      BY <1>9 DEF QueueInv, EntriesInv
    <3>2. ASSUME NEW j \in DOMAIN x, x[j][1] = "job",
                 NEW i \in DOMAIN queue[s]
          PROVE  queue[s][i][2] < x[j][2]
      <4>1. Holds(x, x[j])
        BY DEF Holds
      <4>2. x[j] = e
        <5>1. x[j] = e \/ Holds(w, x[j])
          BY <1>10, <4>1
        <5>2. ~Holds(w, x[j])
          BY <1>7, <3>2 DEF Holds
        <5>. QED
          BY <5>1, <5>2
      <4>. QED
        BY <1>8, <4>2
    <3>. QED
      BY <1>10, <2>1, <3>1, <3>2, JobsBehindConcatenated
  <2>3. ASSUME Policy = "ASYNC" PROVE DevBehind(queue[s] \o x, DOMAIN issued)
    <3>1. DevBehind(w, DOMAIN issued)
      BY <2>3 DEF WaitList, DevBehind
    <3>2. DevBehind(<< e >>, DOMAIN issued)
      BY <1>9 DEF DevBehind
    <3>3. DevBehind(x, DOMAIN issued)
      BY <1>9, <3>1, <3>2, DevBehindConcatenated DEF x
    <3>4. queue[s] \in Seq(Entries') /\ DevBehind(queue[s], DOMAIN issued)
      BY <1>9, <2>3 DEF QueueInv, EntriesInv
    <3>. QED
      BY <1>10, <3>3, <3>4, DevBehindConcatenated
  <2>4. ASSUME NEW r \in Stream
        PROVE  /\ JobsBehind(queue'[r])
               /\ Policy = "ASYNC" => DevBehind(queue'[r], DOMAIN issued)
    <3>1. CASE r = s
      BY <1>11, <2>2, <2>3, <3>1
    <3>2. CASE r # s
      BY <1>11, <3>2 DEF QueueInv, EntriesInv
    <3>. QED
      BY <3>1, <3>2
  <2>. QED
    BY <1>3, <1>11, <2>4 DEF EntriesInv
<1>16. N \notin done /\ N \notin DOMAIN issued /\ N \notin Started
       /\ DOMAIN issued \subseteq DOMAIN jobs
  BY <1>2 DEF ExecInv, QueueInv, IssuedInv
<1>17. HomeInv'
  <2>1. ASSUME NEW r \in Stream, NEW n \in DOMAIN jobs',
               Holds(queue'[r], <<"job", n>>)
        PROVE  jobs'[n].stream = r /\ n \notin done /\ n \notin DOMAIN issued
    <3>1. CASE n = N
      BY <1>1, <1>13, <1>14, <1>16, <2>1, <3>1
    <3>2. CASE n # N
      BY <1>1, <1>2, <1>13, <2>1, <3>2 DEF QueueInv, HomeInv
    <3>. QED
      BY <3>1, <3>2
  <2>2. ASSUME NEW n \in DOMAIN jobs'
        PROVE  \/ Holds(queue'[jobs'[n].stream], <<"job", n>>)
               \/ n \in DOMAIN issued
               \/ n \in done
    <3>1. CASE n = N
      BY <1>1, <1>13, <3>1
    <3>2. CASE n # N
      <4>1. n \in DOMAIN jobs /\ jobs'[n] = jobs[n] /\ jobs[n].stream \in Stream
        BY <1>1, <1>2, <3>2, JobTyped
      <4>. QED
        BY <1>13, <4>1 DEF QueueInv, HomeInv
    <3>. QED
      BY <3>1, <3>2
  <2>. QED
    BY <1>3, <2>1, <2>2 DEF HomeInv
<1>18. IssuedInv'
  <2>1. DriverStream \subseteq Stream
    BY DEF Stream
  <2>2. ASSUME NEW r \in DriverStream, NEW n \in DOMAIN jobs',
               Holds(queue'[r], <<"job", n>>), NEW m \in captured[r]
        PROVE  m < n
    <3>1. m \in DOMAIN jobs
      BY <1>16 DEF QueueInv, IssuedInv
    <3>2. CASE n = N
      BY <1>2, <3>1, <3>2
    <3>3. CASE n # N
      BY <1>2, <1>13, <2>1, <2>2, <3>3 DEF QueueInv, IssuedInv
    <3>. QED
      BY <3>2, <3>3
  <2>. QED
    BY <1>1, <1>2, <1>3, <2>2 DEF QueueInv, IssuedInv, OnDriver
<1>19. StartedInv'
  <2>1. HostStream \in Stream
    BY DEF Stream
  <2>2. \A n : HostReady(n) => HostReady(n)'
    BY <1>11, <2>1 DEF HostReady, HeadIs, HeadJob
  <2>3. ASSUME NEW n \in Started
        PROVE  IF OnDriver(n)' THEN n \in DOMAIN issued
               ELSE n \in done \/ HostReady(n)'
    <3>1. OnDriver(n)' <=> OnDriver(n)
      BY <1>1 DEF ExecInv, OnDriver
    <3>. QED
      BY <2>2, <3>1 DEF QueueInv, StartedInv
  <2>. QED
    BY <1>3, <2>3 DEF StartedInv, Started
<1>. QED
  BY <1>15, <1>17, <1>18, <1>19 DEF QueueInv

\* The head of a queue taken.
LEMMA HeadTaken ==
  ASSUME NEW E, queue \in [Stream -> Seq(E)], NEW s \in Stream,
         queue[s] # <<>>, queue' = Taken(s)
  PROVE  /\ queue' \in [Stream -> Seq(E)]
         /\ queue'[s] = Tail(queue[s])
         /\ \A r \in Stream : r # s => queue'[r] = queue[r]
         /\ \A r \in Stream : \A e : Holds(queue'[r], e) => Holds(queue[r], e)
         /\ \A r \in Stream : \A e :
              Holds(queue[r], e) /\ (r # s \/ e # Head(queue[s])) =>
                Holds(queue'[r], e)
<1>1. queue[s] \in Seq(E) /\ Tail(queue[s]) \in Seq(E)
  <2>1. queue[s] \in Seq(E)
    OBVIOUS
  <2>. QED
    BY <2>1, Tailed
<1>2. queue' = [queue EXCEPT ![s] = Tail(queue[s])]
  BY DEF Taken
<1>3. /\ queue' \in [Stream -> Seq(E)]
      /\ queue'[s] = Tail(queue[s])
      /\ \A r \in Stream : r # s => queue'[r] = queue[r]
  BY <1>1, <1>2
<1>4. ASSUME NEW r \in Stream, NEW e
      PROVE  /\ Holds(queue'[r], e) => Holds(queue[r], e)
             /\ Holds(queue[r], e) /\ (r # s \/ e # Head(queue[s])) =>
                  Holds(queue'[r], e)
  <2>1. CASE r = s
    <3>1. /\ Holds(Tail(queue[s]), e) => Holds(queue[s], e)
          /\ Holds(queue[s], e) /\ e # Head(queue[s]) =>
               Holds(Tail(queue[s]), e)
      BY <1>1, HoldsTailed
    <3>. QED
      BY <1>3, <2>1, <3>1
  <2>2. CASE r # s
    BY <1>3, <2>2
  <2>. QED
    BY <2>1, <2>2
<1>. QED
  BY <1>3, <1>4

\* The entries left when a head is taken, of whatever kind: a job is ahead of
\* smaller numbers no longer, a wait for a host event has had its effect.
LEMMA TakingKeepsEntries ==
  ASSUME JobsInv, EntriesInv, NEW s \in Stream, queue[s] # <<>>,
         queue' = Taken(s), HeadIs(s, "host") => HostDone(HeadJob(s)),
         UNCHANGED jobs, DOMAIN issued \subseteq DOMAIN issued'
  PROVE  /\ EntriesInv'
         /\ \A n : Holds(queue'[s], <<"job", n>>) => HeadJob(s) < n
<1>1. queue \in [Stream -> Seq(Entries)] /\ JobsBehind(queue[s])
  BY DEF EntriesInv
<1>2. queue[s] \in Seq(Entries)
  BY <1>1
<1>3. Entries' = Entries
  BY DEF Entries, Waits, OnDriver
<1>4. /\ queue' \in [Stream -> Seq(Entries)]
      /\ queue'[s] = Tail(queue[s])
      /\ \A r \in Stream : r # s => queue'[r] = queue[r]
  BY <1>1, HeadTaken
<1>5. /\ JobsBehind(Tail(queue[s]))
      /\ \A j \in DOMAIN Tail(queue[s]) : Tail(queue[s])[j][1] = "job" =>
           Head(queue[s])[2] < Tail(queue[s])[j][2]
  BY <1>1, <1>2, JobsBehindTailed
<1>6. \A n : Holds(queue'[s], <<"job", n>>) => HeadJob(s) < n
  BY <1>4, <1>5 DEF Holds, HeadJob
<1>7. ASSUME Policy = "ASYNC" PROVE DevBehind(Tail(queue[s]), DOMAIN issued')
  <2>1. DevBehind(queue[s], DOMAIN issued)
    BY <1>7 DEF EntriesInv
  <2>2. ASSUME NEW j \in DOMAIN queue[s], queue[s][j][1] = "dev",
               Head(queue[s]) = <<"host", queue[s][j][2]>>
        PROVE  queue[s][j][2] \in DOMAIN issued'
    <3>1. queue[s][j] \in Entries
      <4>. HIDE DEF Entries
      <4>. QED
        BY <1>2, SMT
    <3>2. OnDriver(queue[s][j][2])
      BY <2>2, <3>1, EntryKinds
    <3>3. HeadIs(s, "host") /\ HeadJob(s) = queue[s][j][2]
      BY <2>2 DEF HeadIs, HeadJob
    <3>. QED
      BY <3>2, <3>3 DEF HostDone, OnDriver
  <2>. QED
    BY <1>2, <2>1, <2>2, DevBehindTailed
<1>8. ASSUME NEW r \in Stream
      PROVE  /\ JobsBehind(queue'[r])
             /\ Policy = "ASYNC" => DevBehind(queue'[r], DOMAIN issued')
  <2>1. CASE r = s
    BY <1>4, <1>5, <1>7, <2>1
  <2>2. CASE r # s
    <3>1. queue'[r] = queue[r]
      BY <1>4, <2>2
    <3>2. JobsBehind(queue[r])
      BY DEF EntriesInv
    <3>3. ASSUME Policy = "ASYNC" PROVE DevBehind(queue[r], DOMAIN issued')
      <4>1. DevBehind(queue[r], DOMAIN issued)
        BY <3>3 DEF EntriesInv
      <4>. QED
        BY <4>1 DEF DevBehind
    <3>. QED
      BY <3>1, <3>2, <3>3
  <2>. QED
    BY <2>1, <2>2
<1>. QED
  BY <1>3, <1>4, <1>6, <1>8 DEF EntriesInv

\* A wait taken from a queue, handed to the driver or not.
LEMMA WaitTakenKeepsQueues ==
  ASSUME JobsInv, QueueInv, NEW s \in Stream,
         \/ HeadIs(s, "host") /\ HostDone(HeadJob(s))
         \/ HeadIs(s, "dev"),
         queue' = Taken(s),
         \/ captured' = captured
         \/ /\ s \in DriverStream
            /\ captured' = [captured EXCEPT
                              ![s] = @ \cup ({HeadJob(s)} \cap DOMAIN issued)],
         UNCHANGED <<jobs, issued, execVars>>
  PROVE  QueueInv'
<1>1. UNCHANGED <<jobs, issued, seen, done, mem>>
  BY DEF execVars
<1>2. queue[s] # <<>> /\ Head(queue[s])[1] # "job"
      /\ (HeadIs(s, "host") => HostDone(HeadJob(s)))
  BY DEF HeadIs
<1>3. /\ EntriesInv'
      /\ \A n : Holds(queue'[s], <<"job", n>>) => HeadJob(s) < n
  <2>1. EntriesInv
    BY DEF QueueInv
  <2>. QED
    BY <1>1, <1>2, <2>1, TakingKeepsEntries
<1>4. queue \in [Stream -> Seq(Entries)]
  BY DEF QueueInv, EntriesInv
<1>5. /\ \A r \in Stream : r # s => queue'[r] = queue[r]
      /\ \A r \in Stream : \A e : Holds(queue'[r], e) => Holds(queue[r], e)
      /\ \A r \in Stream : \A e :
           Holds(queue[r], e) /\ (r # s \/ e # Head(queue[s])) =>
             Holds(queue'[r], e)
  BY <1>2, <1>4, HeadTaken
<1>6. \A n : Head(queue[s]) # <<"job", n>>
  BY <1>2
<1>7. \A r \in Stream : \A n :
        Holds(queue'[r], <<"job", n>>) <=> Holds(queue[r], <<"job", n>>)
  BY <1>5, <1>6
<1>8. HomeInv'
  <2>1. \A n \in DOMAIN jobs : jobs[n].stream \in Stream
    BY JobTyped
  <2>. QED
    BY <1>1, <1>7, <2>1 DEF QueueInv, HomeInv
<1>9. IssuedInv'
  <2>1. DriverStream \subseteq Stream
    BY DEF Stream
  <2>2. captured' \in [DriverStream -> SUBSET DOMAIN issued]
    BY DEF QueueInv, IssuedInv
  <2>3. ASSUME NEW r \in DriverStream, NEW n \in DOMAIN jobs,
               Holds(queue'[r], <<"job", n>>), NEW m \in captured'[r]
        PROVE  m < n
    <3>1. CASE m \in captured[r]
      BY <1>7, <2>1, <2>3, <3>1 DEF QueueInv, IssuedInv
    <3>2. CASE m \notin captured[r]
      <4>1. r = s /\ m = HeadJob(s)
        BY <3>2 DEF QueueInv, IssuedInv
      <4>. QED
        BY <1>3, <2>3, <4>1
    <3>. QED
      BY <3>1, <3>2
  <2>. QED
    BY <1>1, <2>2, <2>3 DEF QueueInv, IssuedInv, OnDriver
<1>10. StartedInv'
  <2>1. HostStream \in Stream
    BY DEF Stream
  <2>2. ASSUME NEW n, HostReady(n) PROVE HostReady(n)'
    <3>1. s # HostStream
      BY <1>2, <2>2 DEF HostReady, HeadIs
    <3>. QED
      BY <1>5, <2>1, <2>2, <3>1 DEF HostReady, HeadIs, HeadJob
  <2>. QED
    BY <1>1, <2>2 DEF QueueInv, StartedInv, Started, OnDriver
<1>. QED
  BY <1>3, <1>8, <1>9, <1>10 DEF QueueInv

\* A job issued.
LEMMA IssueKeepsQueues ==
  ASSUME JobsInv, QueueInv, NEW s \in DriverStream, IssueJob(s)
  PROVE  QueueInv'
<1>. DEFINE n == HeadJob(s)
<1>1. UNCHANGED <<jobs, seen, done, mem>>
  BY DEF IssueJob, execVars
<1>2. s \in Stream /\ s # HostStream /\ HeadIs(s, "job")
  BY DEF IssueJob, Stream
<1>3. queue \in [Stream -> Seq(Entries)]
  BY DEF QueueInv, EntriesInv
<1>4. queue[s] # <<>> /\ queue' = Taken(s)
  BY <1>2 DEF IssueJob, HeadIs
<1>5. Head(queue[s]) = <<"job", n>> /\ Holds(queue[s], <<"job", n>>)
  <2>1. queue[s] \in Seq(Entries)
    BY <1>2, <1>3
  <2>2. /\ Head(queue[s]) = queue[s][1] /\ queue[s][1] \in Entries
        /\ 1 \in DOMAIN queue[s]
    <3>1. /\ Head(queue[s]) = queue[s][1] /\ queue[s][1] \in Entries
          /\ Len(queue[s]) \in Nat \ {0} /\ DOMAIN queue[s] = 1 .. Len(queue[s])
      BY <1>4, <2>1, Tailed
    <3>. QED
      BY <3>1, SMT
  <2>3. Head(queue[s]) = <<"job", n>>
    BY <1>2, <2>2, EntryKinds DEF HeadIs, HeadJob
  <2>. QED
    BY <2>2, <2>3 DEF Holds
<1>6. n \in DOMAIN jobs
  <2>1. <<"job", n>> \in Entries
    <3>1. queue[s] \in Seq(Entries)
      BY <1>2, <1>3
    <3>2. Head(queue[s]) \in Entries
      BY <1>4, <3>1, Tailed
    <3>. QED
      BY <1>5, <3>2
  <2>. QED
    BY <2>1, EntryKinds
<1>7. jobs[n].stream = s /\ n \notin done /\ n \notin DOMAIN issued
  BY <1>2, <1>5, <1>6 DEF QueueInv, HomeInv
<1>8. /\ DOMAIN issued' = DOMAIN issued \cup {n}
      /\ issued'[n] = captured[s]
      /\ \A m \in DOMAIN issued : issued'[m] = issued[m]
      /\ captured' = [captured EXCEPT ![s] = {}]
  BY <1>7 DEF IssueJob
<1>. HIDE DEF n
<1>9. /\ EntriesInv'
      /\ \A m : Holds(queue'[s], <<"job", m>>) => n < m
  <2>1. EntriesInv /\ ~HeadIs(s, "host") /\ DOMAIN issued \subseteq DOMAIN issued'
    BY <1>2, <1>8 DEF QueueInv, HeadIs
  <2>. QED
    BY <1>1, <1>2, <1>4, <2>1, TakingKeepsEntries DEF n
<1>10. /\ \A r \in Stream : r # s => queue'[r] = queue[r]
       /\ \A r \in Stream : \A e : Holds(queue'[r], e) => Holds(queue[r], e)
       /\ \A r \in Stream : \A e :
            Holds(queue[r], e) /\ (r # s \/ e # Head(queue[s])) =>
              Holds(queue'[r], e)
  BY <1>2, <1>3, <1>4, HeadTaken
<1>11. HomeInv'
  <2>1. ASSUME NEW r \in Stream, NEW m \in DOMAIN jobs,
               Holds(queue'[r], <<"job", m>>)
        PROVE  jobs[m].stream = r /\ m \notin done /\ m \notin DOMAIN issued'
    <3>1. jobs[m].stream = r /\ m \notin done /\ m \notin DOMAIN issued
      BY <1>10, <2>1 DEF QueueInv, HomeInv
    <3>2. m # n
      <4>1. n \in Nat
        BY <1>6, EventNumbers, SMT
      <4>2. ASSUME m = n PROVE FALSE
        <5>1. n < n
          BY <1>7, <1>9, <2>1, <3>1, <4>2
        <5>. QED
          BY <4>1, <5>1, SMT
      <4>. QED
        BY <4>2
    <3>. QED
      BY <1>8, <3>1, <3>2
  <2>2. ASSUME NEW m \in DOMAIN jobs
        PROVE  \/ Holds(queue'[jobs[m].stream], <<"job", m>>)
               \/ m \in DOMAIN issued'
               \/ m \in done
    <3>1. jobs[m].stream \in Stream
      BY JobTyped
    <3>2. CASE m = n
      BY <1>8, <3>2
    <3>3. CASE m # n
      <4>1. <<"job", m>> # Head(queue[s])
        BY <1>5, <3>3
      <4>. QED
        BY <1>8, <1>10, <3>1, <4>1 DEF QueueInv, HomeInv
    <3>. QED
      BY <3>2, <3>3
  <2>. QED
    BY <1>1, <2>1, <2>2 DEF HomeInv
<1>12. IssuedInv'
  <2>1. DriverStream \subseteq Stream
    BY DEF Stream
  <2>2. captured' \in [DriverStream -> SUBSET DOMAIN issued']
    BY <1>8 DEF QueueInv, IssuedInv
  <2>3. ASSUME NEW r \in DriverStream, NEW m \in DOMAIN jobs,
               Holds(queue'[r], <<"job", m>>), NEW k \in captured'[r]
        PROVE  k < m
    <3>1. r # s
      BY <1>8 DEF QueueInv, IssuedInv
    <3>2. k \in captured[r] /\ Holds(queue[r], <<"job", m>>)
      BY <1>8, <1>10, <2>1, <2>3, <3>1 DEF QueueInv, IssuedInv
    <3>. QED
      BY <2>1, <3>2 DEF QueueInv, IssuedInv
  <2>4. ASSUME NEW m \in DOMAIN issued'
        PROVE  /\ m \in DOMAIN jobs
               /\ jobs[m].stream # HostStream
               /\ issued'[m] \subseteq DOMAIN issued'
               /\ \A k \in issued'[m] : k < m
    <3>1. CASE m = n
      <4>1. captured[s] \subseteq DOMAIN issued
        BY DEF QueueInv, IssuedInv
      <4>2. \A k \in captured[s] : k < n
        BY <1>5, <1>6 DEF QueueInv, IssuedInv
      <4>. QED
        BY <1>2, <1>6, <1>7, <1>8, <3>1, <4>1, <4>2
    <3>2. CASE m # n
      BY <1>8, <3>2 DEF QueueInv, IssuedInv, OnDriver
    <3>. QED
      BY <3>1, <3>2
  <2>. QED
    BY <1>1, <2>2, <2>3, <2>4 DEF IssuedInv, OnDriver
<1>13. StartedInv'
  <2>1. HostStream \in Stream
    BY DEF Stream
  <2>2. \A m : HostReady(m) => HostReady(m)'
    BY <1>2, <1>10, <2>1 DEF HostReady, HeadIs, HeadJob
  <2>. QED
    BY <1>1, <1>8, <2>2 DEF QueueInv, StartedInv, Started, OnDriver
<1>. QED
  BY <1>9, <1>11, <1>12, <1>13 DEF QueueInv

\* The head of the host queue that is a job.
LEMMA HostHead ==
  ASSUME QueueInv, NEW n, HostReady(n)
  PROVE  /\ queue[HostStream] # <<>>
         /\ Head(queue[HostStream]) = <<"job", n>>
         /\ Holds(queue[HostStream], <<"job", n>>)
         /\ n \in DOMAIN jobs
         /\ jobs[n].stream = HostStream /\ n \notin done
         /\ n \notin DOMAIN issued
<1>1. HostStream \in Stream
  BY DEF Stream
<1>2. queue[HostStream] \in Seq(Entries) /\ queue[HostStream] # <<>>
  BY <1>1 DEF QueueInv, EntriesInv, HostReady, HeadIs
<1>3. /\ Head(queue[HostStream]) = queue[HostStream][1]
      /\ queue[HostStream][1] \in Entries
      /\ 1 \in DOMAIN queue[HostStream]
  <2>1. /\ Head(queue[HostStream]) = queue[HostStream][1]
        /\ queue[HostStream][1] \in Entries
        /\ Len(queue[HostStream]) \in Nat \ {0}
        /\ DOMAIN queue[HostStream] = 1 .. Len(queue[HostStream])
    BY <1>2, Tailed
  <2>. QED
    BY <2>1, SMT
<1>4. Head(queue[HostStream]) = <<"job", n>> /\ n \in DOMAIN jobs
  BY <1>3, EntryKinds DEF HostReady, HeadIs, HeadJob
<1>5. Holds(queue[HostStream], <<"job", n>>)
  BY <1>3, <1>4 DEF Holds
<1>. QED
  BY <1>1, <1>2, <1>4, <1>5 DEF QueueInv, HomeInv

\* A job started.
LEMMA StartKeepsQueues ==
  ASSUME JobsInv, QueueInv, NEW n \in DOMAIN jobs, StartJob(n)
  PROVE  QueueInv'
<1>1. UNCHANGED <<jobs, queue, captured, issued, done>>
  BY DEF StartJob, driverVars
<1>2. Started' = Started \cup {n}
  BY DEF StartJob, Started
<1>3. EntriesInv' /\ HomeInv' /\ IssuedInv'
  BY <1>1 DEF QueueInv, EntriesInv, Entries, Waits, HomeInv, IssuedInv, OnDriver
<1>4. IF OnDriver(n) THEN n \in DOMAIN issued ELSE n \in done \/ HostReady(n)
  <2>1. DriverReady(n) \/ HostReady(n)
    BY DEF StartJob, CanStart
  <2>2. CASE DriverReady(n)
    BY <2>2 DEF DriverReady, QueueInv, IssuedInv
  <2>3. CASE HostReady(n)
    BY <2>3, HostHead DEF OnDriver
  <2>. QED
    BY <2>1, <2>2, <2>3
<1>5. \A m : HostReady(m)' <=> HostReady(m)
  BY <1>1 DEF HostReady, HeadIs, HeadJob
<1>6. StartedInv'
  BY <1>1, <1>2, <1>4, <1>5 DEF QueueInv, StartedInv, OnDriver
<1>. QED
  BY <1>3, <1>6 DEF QueueInv

\* A job finished.
LEMMA FinishKeepsQueues ==
  ASSUME JobsInv, QueueInv, ExecInv, NEW n \in DOMAIN jobs, FinishJob(n)
  PROVE  QueueInv'
<1>1. UNCHANGED <<jobs, captured, issued, seen>>
  BY DEF FinishJob, driverVars
<1>2. n \in Started /\ n \notin done /\ done' = done \cup {n}
  BY DEF FinishJob
<1>3. Entries' = Entries
  BY <1>1 DEF Entries, Waits, OnDriver
<1>4. HostStream \in Stream /\ queue \in [Stream -> Seq(Entries)]
  BY DEF Stream, QueueInv, EntriesInv
<1>5. \A r \in Stream, m \in DOMAIN jobs : Holds(queue[r], <<"job", m>>) =>
        jobs[m].stream = r /\ m \notin done /\ m \notin DOMAIN issued
  BY DEF QueueInv, HomeInv
<1>6. /\ EntriesInv'
      /\ \A r \in Stream, m \in DOMAIN jobs :
           Holds(queue'[r], <<"job", m>>) =>
             Holds(queue[r], <<"job", m>>) /\ m # n
      /\ \A r \in Stream, m \in DOMAIN jobs :
           Holds(queue[r], <<"job", m>>) /\ m # n =>
             Holds(queue'[r], <<"job", m>>)
      /\ \A m \in Started :
           ~OnDriver(m) /\ m \notin done' => HostReady(m)'
  <2>1. CASE OnDriver(n)
    <3>1. queue' = queue /\ n \in DOMAIN issued
      BY <1>2, <2>1 DEF FinishJob, OnDriver, QueueInv, StartedInv
    <3>2. EntriesInv'
      BY <1>1, <1>3, <3>1 DEF QueueInv, EntriesInv
    <3>3. \A m : HostReady(m) => HostReady(m)'
      BY <3>1 DEF HostReady, HeadIs, HeadJob
    <3>4. \A m \in Started : ~OnDriver(m) /\ m \notin done' => HostReady(m)'
      BY <1>2, <3>3 DEF QueueInv, StartedInv
    <3>. QED
      BY <1>5, <3>1, <3>2, <3>4
  <2>2. CASE ~OnDriver(n)
    <3>1. HostReady(n)
      BY <1>2, <2>2 DEF QueueInv, StartedInv
    <3>2. /\ queue[HostStream] # <<>>
          /\ Head(queue[HostStream]) = <<"job", n>>
      BY <3>1, HostHead
    <3>3. queue' = Taken(HostStream)
      BY <2>2 DEF FinishJob, OnDriver
    <3>4. /\ EntriesInv'
          /\ \A m : Holds(queue'[HostStream], <<"job", m>>) =>
                      HeadJob(HostStream) < m
      <4>1. EntriesInv /\ ~HeadIs(HostStream, "host")
        BY <3>2 DEF QueueInv, HeadIs
      <4>. QED
        BY <1>1, <1>4, <3>2, <3>3, <4>1, TakingKeepsEntries
    <3>5. /\ \A r \in Stream : r # HostStream => queue'[r] = queue[r]
          /\ \A r \in Stream : \A e : Holds(queue'[r], e) => Holds(queue[r], e)
          /\ \A r \in Stream : \A e :
               Holds(queue[r], e)
                 /\ (r # HostStream \/ e # Head(queue[HostStream])) =>
                 Holds(queue'[r], e)
      BY <1>4, <3>2, <3>3, HeadTaken
    <3>6. ASSUME NEW r \in Stream, NEW m \in DOMAIN jobs,
                 Holds(queue'[r], <<"job", m>>)
          PROVE  Holds(queue[r], <<"job", m>>) /\ m # n
      <4>1. Holds(queue[r], <<"job", m>>)
        BY <3>5, <3>6
      <4>2. n \in Nat
        BY EventNumbers, SMT
      <4>3. ASSUME m = n PROVE FALSE
        <5>1. r = HostStream
          BY <1>5, <2>2, <4>1, <4>3 DEF OnDriver
        <5>2. n < n
          BY <3>2, <3>4, <3>6, <4>3, <5>1 DEF HeadJob
        <5>. QED
          BY <4>2, <5>2, SMT
      <4>. QED
        BY <4>1, <4>3
    <3>7. ASSUME NEW r \in Stream, NEW m \in DOMAIN jobs,
                 Holds(queue[r], <<"job", m>>), m # n
          PROVE  Holds(queue'[r], <<"job", m>>)
      BY <3>2, <3>5, <3>7
    <3>8. ASSUME NEW m \in Started, ~OnDriver(m), m \notin done' PROVE FALSE
      <4>1. HostReady(m) /\ m # n
        BY <1>2, <3>8 DEF QueueInv, StartedInv
      <4>. QED
        BY <3>1, <4>1 DEF HostReady
    <3>. QED
      BY <3>4, <3>6, <3>7, <3>8
  <2>. QED
    BY <2>1, <2>2
<1>7. HomeInv'
  <2>1. \A m \in DOMAIN jobs : jobs[m].stream \in Stream
    BY JobTyped
  <2>2. ASSUME NEW m \in DOMAIN jobs
        PROVE  \/ Holds(queue'[jobs[m].stream], <<"job", m>>)
               \/ m \in DOMAIN issued
               \/ m \in done'
    BY <1>2, <1>6, <2>1 DEF QueueInv, HomeInv
  <2>. QED
    BY <1>1, <1>2, <1>5, <1>6, <2>2 DEF HomeInv
<1>8. IssuedInv'
  <2>1. DriverStream \subseteq Stream
    BY DEF Stream
  <2>. QED
    BY <1>1, <1>6, <2>1 DEF QueueInv, IssuedInv, OnDriver
<1>9. StartedInv'
  BY <1>1, <1>2, <1>6 DEF QueueInv, StartedInv, Started, OnDriver
<1>. QED
  BY <1>6, <1>7, <1>8, <1>9 DEF QueueInv

\* Steps that leave jobs, queues and drivers alone.
LEMMA StutterKeepsQueues ==
  ASSUME QueueInv, UNCHANGED <<jobs, queue, driverVars, execVars>>
  PROVE  QueueInv'
<1>1. UNCHANGED <<jobs, queue, captured, issued, seen, done>>
  BY DEF driverVars, execVars
<1>. QED
  BY <1>1 DEF QueueInv, EntriesInv, Entries, Waits, HomeInv, IssuedInv,
              StartedInv, Started, OnDriver, HostReady, HeadIs, HeadJob
-----------------------------------------------------------------------------
(* Steps of the main thread.                                               *)

\* The streams handlers push on are streams of the model; all but one are of
\* drivers.
LEMMA Streams ==
  ASSUME NEW c \in Ctrl
  PROVE  /\ HostStream \in Stream
         /\ DriverStream \subseteq Stream
         /\ Htd(c) \in DriverStream /\ Dth(c) \in DriverStream
         /\ KernelStreams(c) \subseteq DriverStream
         /\ Htd(c) # HostStream /\ Dth(c) # HostStream
         /\ \A s \in KernelStreams(c) : s # HostStream /\ s[2] = "kernel"
         /\ HostStream[2] = "host"
<1>1. /\ HostStream \in Stream
      /\ DriverStream \subseteq Stream
      /\ Htd(c) \in DriverStream /\ Dth(c) \in DriverStream
      /\ KernelStreams(c) \subseteq DriverStream
  BY DEF Stream, DriverStream
<1>2. Htd(c)[2] = "htd" /\ Dth(c)[2] = "dth" /\ HostStream[2] = "host"
  BY DEF Htd, Dth, HostStream
<1>3. \A s \in KernelStreams(c) : s[2] = "kernel"
  BY DEF KernelStreams
<1>. QED
  BY <1>1, <1>2, <1>3

\* What is known of jobs and memory stays true when jobs are added.
LEMMA PushKeepsExec ==
  ASSUME ExecInv, Len(jobs) \in Nat, Len(jobs') = Len(jobs) + 1,
         DOMAIN jobs \subseteq DOMAIN jobs',
         \A n \in DOMAIN jobs : jobs'[n] = jobs[n], UNCHANGED execVars
  PROVE  ExecInv'
<1>1. 0 .. Len(jobs) \subseteq 0 .. Len(jobs')
  BY SMT
<1>2. UNCHANGED <<seen, done, mem>>
  BY DEF execVars
<1>3. mem' \in [Buffer -> 0 .. Len(jobs')]
  BY <1>1, <1>2, SMT DEF ExecInv
<1>4. \A n \in Started : seen[n] \in [jobs'[n].reads -> 0 .. Len(jobs')]
  BY <1>1, SMT DEF ExecInv
<1>. QED
  BY <1>2, <1>3, <1>4 DEF ExecInv, Started

\* A function stays in its function space when it is updated within it.
LEMMA UpdateTyped ==
  ASSUME NEW D, NEW R, NEW f \in [D -> R], NEW d, NEW r \in R
  PROVE  [f EXCEPT ![d] = r] \in [D -> R]
  OBVIOUS

\* Functions into a set are functions into a larger one.
LEMMA LargerRange ==
  ASSUME NEW D, NEW R, NEW T, R \subseteq T, NEW f \in [D -> R]
  PROVE  f \in [D -> T]
  OBVIOUS

\* Events known before a push still are events, and so is the new job.
LEMMA EventsAfterPush ==
  ASSUME JobsInv, EventsInv, NEW s, JobsInv', Len(jobs') = Len(jobs) + 1,
         \A n \in DOMAIN jobs : jobs'[n] = jobs[n],
         jobs'[Len(jobs) + 1].stream = s
  PROVE  /\ Ticket \in 0 .. Len(jobs')
         /\ s # HostStream => Ticket \in DriverEvents'
         /\ 0 .. Len(jobs) \subseteq 0 .. Len(jobs')
         /\ DriverEvents \subseteq DriverEvents'
         /\ last_host_read \in [Tiles -> 0 .. Len(jobs')]
         /\ last_host_write \in [Tiles -> 0 .. Len(jobs')]
         /\ last_kernel_read \in [Ctrl \X Tiles -> DriverEvents']
         /\ last_kernel_write \in [Ctrl \X Tiles -> DriverEvents']
         /\ last_htd \in [Ctrl \X Tiles -> DriverEvents']
         /\ last_dth \in [Ctrl \X Tiles -> DriverEvents']
         /\ host_seq \in [Ctrl -> 0 .. Len(jobs')]
         /\ dev_seq \in [Ctrl -> DriverEvents']
<1>1. Len(jobs) \in Nat
  BY EventNumbers
<1>2. Ticket \in 0 .. Len(jobs') /\ 0 .. Len(jobs) \subseteq 0 .. Len(jobs')
  BY <1>1, SMT DEF Ticket
<1>3. s # HostStream => Ticket \in DriverEvents'
  BY <1>2 DEF Ticket, DriverEvents, OnDriver
<1>4. DriverEvents \subseteq DriverEvents'
  <2>1. ASSUME NEW n \in DriverEvents PROVE n \in DriverEvents'
    <3>1. n \in 0 .. Len(jobs')
      BY <1>2 DEF DriverEvents
    <3>2. n = 0 \/ OnDriver(n)'
      BY EventNumbers DEF OnDriver
    <3>. QED
      BY <3>1, <3>2 DEF DriverEvents
  <2>. QED
    BY <2>1
<1>5. /\ last_host_read \in [Tiles -> 0 .. Len(jobs')]
      /\ last_host_write \in [Tiles -> 0 .. Len(jobs')]
      /\ host_seq \in [Ctrl -> 0 .. Len(jobs')]
  BY <1>2 DEF EventsInv, HostEventTable
<1>6. /\ last_kernel_read \in [Ctrl \X Tiles -> DriverEvents']
      /\ last_kernel_write \in [Ctrl \X Tiles -> DriverEvents']
      /\ last_htd \in [Ctrl \X Tiles -> DriverEvents']
      /\ last_dth \in [Ctrl \X Tiles -> DriverEvents']
      /\ dev_seq \in [Ctrl -> DriverEvents']
  BY <1>4, LargerRange DEF EventsInv
<1>. QED
  BY <1>2, <1>3, <1>4, <1>5, <1>6

\* A transfer to a device keeps the invariant.
LEMMA MoveToKeepsInv ==
  ASSUME JobsInv, EventsInv, StatusInv, ExecInv, QueueInv,
         NEW c \in Ctrl, NEW t \in Tiles, MoveToInner(c, t)
  PROVE  JobsInv' /\ EventsInv' /\ StatusInv' /\ ExecInv' /\ QueueInv'
<1>. DEFINE s == Htd(c)
            reads == {<<Host, t>>}
            writes == {<<c, t>>}
            w == MoveToWait(t)
                   \o HostWait(last_kernel_read[<<c, t>>])
                   \o HostWait(last_kernel_write[<<c, t>>])
                   \o HostWait(last_host_write[t])
                   \o DevWait(last_kernel_read[<<c, t>>])
                   \o DevWait(last_kernel_write[<<c, t>>])
                   \o SyncWait
<1>1. w \in WaitList
  BY MoveToWaitsListed
<1>2. s \in Stream /\ s # HostStream
  BY Streams
<1>3. /\ reads \in SUBSET Buffer /\ writes \in SUBSET Buffer
      /\ s[2] \in {"kernel", "host"} \/ reads # {}
  BY DEF Buffer
<1>4. Push(s, reads, writes, w)
  BY DEF MoveToInner
<1>5. UNCHANGED <<driverVars, execVars>>
  BY DEF MoveToInner
<1>. HIDE DEF s, reads, writes, w
<1>6. /\ JobsInv'
      /\ Len(jobs) \in Nat
      /\ Len(jobs') = Len(jobs) + 1
      /\ DOMAIN jobs = 1 .. Len(jobs)
      /\ DOMAIN jobs' = 1 .. Len(jobs) + 1
      /\ \A n \in DOMAIN jobs : jobs'[n] = jobs[n]
      /\ jobs'[Len(jobs) + 1] =
           [stream |-> s, reads |-> reads, writes |-> writes]
  BY <1>2, <1>3, <1>4, PushGrows
<1>7. QueueInv'
  BY <1>1, <1>2, <1>3, <1>4, <1>5, PushKeepsQueues
<1>8. ExecInv'
  <2>1. DOMAIN jobs \subseteq DOMAIN jobs'
    BY <1>6, SMT
  <2>. QED
    BY <1>5, <1>6, <2>1, PushKeepsExec
<1>9. EventsInv'
  <2>1. jobs'[Len(jobs) + 1].stream = s
    BY <1>6
  <2>2. /\ Ticket \in 0 .. Len(jobs') /\ Ticket \in DriverEvents'
        /\ 0 .. Len(jobs) \subseteq 0 .. Len(jobs')
        /\ last_host_read \in [Tiles -> 0 .. Len(jobs')]
        /\ last_host_write \in [Tiles -> 0 .. Len(jobs')]
        /\ last_kernel_read \in [Ctrl \X Tiles -> DriverEvents']
        /\ last_kernel_write \in [Ctrl \X Tiles -> DriverEvents']
        /\ last_htd \in [Ctrl \X Tiles -> DriverEvents']
        /\ last_dth \in [Ctrl \X Tiles -> DriverEvents']
        /\ host_seq \in [Ctrl -> 0 .. Len(jobs')]
        /\ dev_seq \in [Ctrl -> DriverEvents']
    BY <1>2, <1>6, <2>1, EventsAfterPush
  <2>3. HostSeqOfMoveTo(c) \in 0 .. Len(jobs')
    BY <2>2, LastOnTyped DEF HostSeqOfMoveTo
  <2>4. /\ UNCHANGED <<last_host_read, last_host_write, last_kernel_read,
                       last_kernel_write, last_dth>>
        /\ last_htd' = [last_htd EXCEPT ![<<c, t>>] = Ticket]
        /\ RecordSeq(c, HostSeqOfMoveTo(c), Ticket)
    BY DEF MoveToInner, hostEvents, kernelEvents
  <2>5. last_htd' \in [Ctrl \X Tiles -> DriverEvents']
    BY <2>2, <2>4, UpdateTyped
  <2>6. /\ host_seq' \in [Ctrl -> 0 .. Len(jobs')]
        /\ dev_seq' \in [Ctrl -> DriverEvents']
    BY <2>2, <2>3, <2>4, UpdateTyped DEF RecordSeq
  <2>. QED
    BY <2>2, <2>4, <2>5, <2>6 DEF EventsInv, HostEventTable
<1>10. StatusInv'
  <2>1. /\ host_status' = [host_status EXCEPT ![t] = "VALID"]
        /\ device_status' = [device_status EXCEPT ![<<c, t>>] = "VALID"]
        /\ UNCHANGED <<attached, mode>>
    BY DEF MoveToInner
  <2>. QED
    BY <2>1, UpdateTyped DEF StatusInv, Status
<1>. QED
  BY <1>6, <1>7, <1>8, <1>9, <1>10

\* A transfer from a device keeps the invariant.
LEMMA MoveFromKeepsInv ==
  ASSUME JobsInv, EventsInv, StatusInv, ExecInv, QueueInv,
         NEW c \in Ctrl, NEW t \in Tiles, MoveFromInner(c, t)
  PROVE  JobsInv' /\ EventsInv' /\ StatusInv' /\ ExecInv' /\ QueueInv'
<1>. DEFINE s == Dth(c)
            reads == {<<c, t>>}
            writes == {<<Host, t>>}
            w == MoveFromWait(t)
                   \o HostWait(last_kernel_write[<<c, t>>])
                   \o HostWait(last_host_read[t])
                   \o HostWait(last_host_write[t])
                   \o DevWait(last_kernel_write[<<c, t>>])
                   \o SyncWait
<1>1. w \in WaitList
  BY MoveFromWaitsListed
<1>2. s \in Stream /\ s # HostStream
  BY Streams
<1>3. /\ reads \in SUBSET Buffer /\ writes \in SUBSET Buffer
      /\ s[2] \in {"kernel", "host"} \/ reads # {}
  BY DEF Buffer
<1>4. Push(s, reads, writes, w)
  BY DEF MoveFromInner
<1>5. UNCHANGED <<driverVars, execVars>>
  BY DEF MoveFromInner
<1>. HIDE DEF s, reads, writes, w
<1>6. /\ JobsInv'
      /\ Len(jobs) \in Nat
      /\ Len(jobs') = Len(jobs) + 1
      /\ DOMAIN jobs = 1 .. Len(jobs)
      /\ DOMAIN jobs' = 1 .. Len(jobs) + 1
      /\ \A n \in DOMAIN jobs : jobs'[n] = jobs[n]
      /\ jobs'[Len(jobs) + 1] =
           [stream |-> s, reads |-> reads, writes |-> writes]
  BY <1>2, <1>3, <1>4, PushGrows
<1>7. QueueInv'
  BY <1>1, <1>2, <1>3, <1>4, <1>5, PushKeepsQueues
<1>8. ExecInv'
  <2>1. DOMAIN jobs \subseteq DOMAIN jobs'
    BY <1>6, SMT
  <2>. QED
    BY <1>5, <1>6, <2>1, PushKeepsExec
<1>9. EventsInv'
  <2>1. jobs'[Len(jobs) + 1].stream = s
    BY <1>6
  <2>2. /\ Ticket \in 0 .. Len(jobs') /\ Ticket \in DriverEvents'
        /\ 0 .. Len(jobs) \subseteq 0 .. Len(jobs')
        /\ last_host_read \in [Tiles -> 0 .. Len(jobs')]
        /\ last_host_write \in [Tiles -> 0 .. Len(jobs')]
        /\ last_kernel_read \in [Ctrl \X Tiles -> DriverEvents']
        /\ last_kernel_write \in [Ctrl \X Tiles -> DriverEvents']
        /\ last_htd \in [Ctrl \X Tiles -> DriverEvents']
        /\ last_dth \in [Ctrl \X Tiles -> DriverEvents']
        /\ host_seq \in [Ctrl -> 0 .. Len(jobs')]
        /\ dev_seq \in [Ctrl -> DriverEvents']
    BY <1>2, <1>6, <2>1, EventsAfterPush
  <2>3. /\ HostSeqOfMoveFrom(c) \in 0 .. Len(jobs')
        /\ last_htd[<<c, t>>] \in DriverEvents'
    BY <2>2, LastOnTyped DEF HostSeqOfMoveFrom
  <2>4. /\ UNCHANGED <<last_host_read, last_host_write, last_kernel_read,
                       last_kernel_write, last_htd>>
        /\ last_dth' = [last_dth EXCEPT ![<<c, t>>] = Ticket]
        /\ RecordSeq(c, HostSeqOfMoveFrom(c), last_htd[<<c, t>>])
    BY DEF MoveFromInner, hostEvents, kernelEvents
  <2>5. last_dth' \in [Ctrl \X Tiles -> DriverEvents']
    BY <2>2, <2>4, UpdateTyped
  <2>6. /\ host_seq' \in [Ctrl -> 0 .. Len(jobs')]
        /\ dev_seq' \in [Ctrl -> DriverEvents']
    BY <2>2, <2>3, <2>4, UpdateTyped DEF RecordSeq
  <2>. QED
    BY <2>2, <2>4, <2>5, <2>6 DEF EventsInv, HostEventTable
<1>10. StatusInv'
  <2>1. /\ host_status' = [host_status EXCEPT ![t] = "VALID"]
        /\ device_status' = [device_status EXCEPT ![<<c, t>>] = "VALID"]
        /\ UNCHANGED <<attached, mode>>
    BY DEF MoveFromInner
  <2>. QED
    BY <2>1, UpdateTyped DEF StatusInv, Status
<1>. QED
  BY <1>6, <1>7, <1>8, <1>9, <1>10

\* The ctrl chosen among some is one of them.
LEMMA FirstIsMember ==
  ASSUME NEW S \in SUBSET Ctrl, S # {}
  PROVE  First(S) \in S
<1>1. Ctrl \subseteq Nat
  BY DriverCtrlAssumption, SMT DEF Ctrl
<1>2. \E c \in S : \A d \in S : c <= d
  BY <1>1, LeastNumber
<1>. QED
  BY <1>2 DEF First

\* The arguments a launch looks at are tiles of the program.
LEMMA ArgumentsTyped ==
  ASSUME MainInv
  PROVE  /\ Ins(main.args) \subseteq Tiles
         /\ Outs(main.args) \subseteq Tiles
         /\ main.arg <= Len(main.args) => ArgTile \in Tiles /\ ArgRole \in Role
<1>. DEFINE Arg == [tile : Tiles, role : Role]
<1>1. main.args \in Seq(Arg) /\ main.arg \in Nat \ {0}
  <2>1. main.args \in Accesses \cup {<<>>}
    BY DEF MainInv, MainState
  <2>2. Accesses \subseteq Seq(Arg)
    BY DriverCtrlAssumption
  <2>3. <<>> \in Seq(Arg)
    BY SMT
  <2>4. main.arg \in Nat /\ main.arg >= 1
    BY DEF MainInv, MainState
  <2>5. main.arg \in Nat \ {0}
    BY <2>4, SMT
  <2>. QED
    BY <2>1, <2>2, <2>3, <2>5
<1>2. \A i \in DOMAIN main.args : main.args[i] \in Arg
  <2>. HIDE DEF Arg
  <2>. QED
    BY <1>1, SMT
<1>3. main.arg <= Len(main.args) => main.arg \in DOMAIN main.args
  BY <1>1, SMT
<1>. QED
  BY <1>2, <1>3 DEF Ins, Outs, ArgTile, ArgRole

\* Invalidating copies leaves statuses.
LEMMA InvalidateTyped ==
  ASSUME StatusInv, NEW written
  PROVE  InvalidateDevices(written) \in [Ctrl \X Tiles -> Status]
  BY SMT DEF StatusInv, InvalidateDevices, Status

\* A main thread that blocks has a state of its type (as a record).
LEMMA BlockedRecordTyped ==
  ASSUME NEW call \in Blocked,
         NEW events \in SUBSET Nat, NEW scope \in SUBSET Nat,
         main' = [pc |-> call, ctrl |-> Host, stream |-> HostStream,
                  args |-> <<>>, arg |-> 1, events |-> events,
                  scope |-> scope]
  PROVE  MainInv'
<1>1. HostStream \in Stream
  BY DEF Stream
<1>2. main' \in MainState
  BY <1>1, SMT DEF MainState
<1>3. main'.pc = call /\ main'.arg = 1
  OBVIOUS
<1>4. call # "kernel"
  BY DEF Blocked
<1>. QED
  BY <1>2, <1>3, <1>4, SMT DEF MainInv

\* A main thread that blocks has a state of its type.
LEMMA BlockedTyped ==
  ASSUME NEW call \in Blocked,
         NEW events \in SUBSET Nat, NEW scope \in SUBSET Nat,
         main' = [Idle EXCEPT !.pc = call, !.events = events, !.scope = scope]
  PROVE  MainInv'
<1>1. main' = [pc |-> call, ctrl |-> Host, stream |-> HostStream,
               args |-> <<>>, arg |-> 1, events |-> events, scope |-> scope]
  BY DEF Idle
<1>. QED
  BY <1>1, BlockedRecordTyped

\* An idle main thread has a state of its type.
LEMMA IdleTyped == ASSUME main' = Idle PROVE MainInv'
<1>1. main' = [pc |-> "idle", ctrl |-> Host, stream |-> HostStream,
               args |-> <<>>, arg |-> 1, events |-> {}, scope |-> {}]
  BY DEF Idle
<1>2. HostStream \in Stream
  BY DEF Stream
<1>3. main' \in MainState
  BY <1>1, <1>2, SMT DEF MainState
<1>4. main'.pc = "idle" /\ main'.arg = 1
  BY <1>1
<1>. QED
  BY <1>3, <1>4, SMT DEF MainInv

\* Pushing a kernel keeps the invariant.
LEMMA KernelPushKeepsInv == ASSUME DriverInv, KernelPush PROVE DriverInv'
<1>. DEFINE c    == main.ctrl
            s    == main.stream
            ins  == Ins(main.args)
            outs == Outs(main.args)
            reads  == {<<c, t>> : t \in ins}
            writes == {<<c, t>> : t \in outs}
<1>0. JobsInv /\ MainInv /\ EventsInv /\ StatusInv /\ ExecInv /\ QueueInv
  BY DEF DriverInv
<1>1. /\ c \in Ctrl /\ s \in KernelStreams(c)
      /\ ins \subseteq Tiles /\ outs \subseteq Tiles
  BY <1>0, ArgumentsTyped DEF KernelPush, MainInv
<1>2. s \in Stream /\ s # HostStream /\ s[2] = "kernel"
  BY <1>1, Streams
<1>3. reads \in SUBSET Buffer /\ writes \in SUBSET Buffer
  BY <1>1 DEF Buffer
<1>4. Push(s, reads, writes, SyncWait)
  BY DEF KernelPush
<1>5. UNCHANGED <<driverVars, execVars>>
  BY DEF KernelPush
<1>6. SyncWait \in WaitList
  BY <1>0, SyncWaitListed
<1>7. /\ RecordSeq(c, Ticket, Ticket)
      /\ last_kernel_write' = [ct \in Ctrl \X Tiles |->
           IF ct[1] = c /\ ct[2] \in outs
           THEN Ticket ELSE last_kernel_write[ct]]
      /\ last_kernel_read' = [ct \in Ctrl \X Tiles |->
           IF ct[1] = c /\ ct[2] \in ins
           THEN Ticket ELSE last_kernel_read[ct]]
      /\ UNCHANGED <<last_host_read, last_host_write, last_htd, last_dth>>
  BY DEF KernelPush, hostEvents
<1>8. /\ device_status' = [ct \in Ctrl \X Tiles |->
           IF ct[1] = c /\ ct[2] \in outs
           THEN "VALID" ELSE InvalidateDevices(outs)[ct]]
      /\ host_status' = [t \in Tiles |->
           IF t \in outs /\ host_status[t] = "VALID"
           THEN "INVALID" ELSE host_status[t]]
      /\ UNCHANGED <<attached, mode>>
  BY DEF KernelPush
<1>. HIDE DEF c, s, ins, outs, reads, writes
<1>9. /\ JobsInv'
      /\ Len(jobs) \in Nat
      /\ Len(jobs') = Len(jobs) + 1
      /\ DOMAIN jobs = 1 .. Len(jobs)
      /\ DOMAIN jobs' = 1 .. Len(jobs) + 1
      /\ \A n \in DOMAIN jobs : jobs'[n] = jobs[n]
      /\ jobs'[Len(jobs) + 1] =
           [stream |-> s, reads |-> reads, writes |-> writes]
  BY <1>0, <1>2, <1>3, <1>4, PushGrows
<1>10. QueueInv'
  BY <1>0, <1>2, <1>3, <1>4, <1>5, <1>6, PushKeepsQueues
<1>11. ExecInv'
  <2>1. DOMAIN jobs \subseteq DOMAIN jobs'
    BY <1>9, SMT
  <2>. QED
    BY <1>0, <1>5, <1>9, <2>1, PushKeepsExec
<1>12. EventsInv'
  <2>1. jobs'[Len(jobs) + 1].stream = s
    BY <1>9
  <2>2. /\ Ticket \in 0 .. Len(jobs') /\ Ticket \in DriverEvents'
        /\ last_host_read \in [Tiles -> 0 .. Len(jobs')]
        /\ last_host_write \in [Tiles -> 0 .. Len(jobs')]
        /\ last_kernel_read \in [Ctrl \X Tiles -> DriverEvents']
        /\ last_kernel_write \in [Ctrl \X Tiles -> DriverEvents']
        /\ last_htd \in [Ctrl \X Tiles -> DriverEvents']
        /\ last_dth \in [Ctrl \X Tiles -> DriverEvents']
        /\ host_seq \in [Ctrl -> 0 .. Len(jobs')]
        /\ dev_seq \in [Ctrl -> DriverEvents']
    BY <1>0, <1>2, <1>9, <2>1, EventsAfterPush
  <2>3. /\ last_kernel_read' \in [Ctrl \X Tiles -> DriverEvents']
        /\ last_kernel_write' \in [Ctrl \X Tiles -> DriverEvents']
    BY <1>7, <2>2
  <2>4. /\ host_seq' \in [Ctrl -> 0 .. Len(jobs')]
        /\ dev_seq' \in [Ctrl -> DriverEvents']
    BY <1>7, <2>2, UpdateTyped DEF RecordSeq
  <2>. QED
    BY <1>7, <2>2, <2>3, <2>4 DEF EventsInv, HostEventTable
<1>13. StatusInv'
  <2>1. InvalidateDevices(outs) \in [Ctrl \X Tiles -> Status]
    BY <1>0, InvalidateTyped
  <2>2. device_status' \in [Ctrl \X Tiles -> Status]
    BY <1>8, <2>1, SMT DEF Status
  <2>3. host_status' \in [Tiles -> Status]
    BY <1>0, <1>8, SMT DEF StatusInv, Status
  <2>. QED
    BY <1>0, <1>8, <2>2, <2>3 DEF StatusInv
<1>14. MainInv'
  BY IdleTyped DEF KernelPush
<1>. QED
  BY <1>9, <1>10, <1>11, <1>12, <1>13, <1>14 DEF DriverInv

\* Pushing a host task keeps the invariant.
LEMMA HostTaskPushKeepsInv == ASSUME DriverInv, HostTaskPush PROVE DriverInv'
<1>. DEFINE ins  == Ins(main.args)
            outs == Outs(main.args)
            reads  == {<<Host, t>> : t \in ins}
            writes == {<<Host, t>> : t \in outs}
<1>0. JobsInv /\ MainInv /\ EventsInv /\ StatusInv /\ ExecInv /\ QueueInv
  BY DEF DriverInv
<1>1. ins \subseteq Tiles /\ outs \subseteq Tiles
  BY <1>0, ArgumentsTyped
<1>2. HostStream \in Stream /\ HostStream[2] = "host"
  BY DEF Stream, HostStream
<1>3. reads \in SUBSET Buffer /\ writes \in SUBSET Buffer
  BY <1>1 DEF Buffer
<1>4. Push(HostStream, reads, writes, SyncWait)
  BY DEF HostTaskPush
<1>5. UNCHANGED <<driverVars, execVars>>
  BY DEF HostTaskPush
<1>6. SyncWait \in WaitList
  BY <1>0, SyncWaitListed
<1>7. /\ last_host_write' = [t \in Tiles |->
           IF t \in outs THEN Ticket ELSE last_host_write[t]]
      /\ last_host_read' = [t \in Tiles |->
           IF t \in ins THEN Ticket ELSE last_host_read[t]]
      /\ UNCHANGED <<last_kernel_read, last_kernel_write, last_htd, last_dth,
                     host_seq, dev_seq, attached, mode, host_status,
                     device_status>>
  BY DEF HostTaskPush, kernelEvents, seqVars
<1>. HIDE DEF ins, outs, reads, writes
<1>9. /\ JobsInv'
      /\ Len(jobs) \in Nat /\ Ticket = Len(jobs) + 1
      /\ Len(jobs') = Len(jobs) + 1
      /\ DOMAIN jobs = 1 .. Len(jobs)
      /\ DOMAIN jobs' = 1 .. Len(jobs) + 1
      /\ \A n \in DOMAIN jobs : jobs'[n] = jobs[n]
      /\ jobs'[Len(jobs) + 1] =
           [stream |-> HostStream, reads |-> reads, writes |-> writes]
  BY <1>0, <1>2, <1>3, <1>4, PushGrows
<1>10. QueueInv'
  BY <1>0, <1>2, <1>3, <1>4, <1>5, <1>6, PushKeepsQueues
<1>11. ExecInv'
  <2>1. DOMAIN jobs \subseteq DOMAIN jobs'
    BY <1>9, SMT
  <2>. QED
    BY <1>0, <1>5, <1>9, <2>1, PushKeepsExec
<1>12. EventsInv'
  <2>1. jobs'[Len(jobs) + 1].stream = HostStream
    BY <1>9
  <2>2. /\ Ticket \in 0 .. Len(jobs')
        /\ last_host_read \in [Tiles -> 0 .. Len(jobs')]
        /\ last_host_write \in [Tiles -> 0 .. Len(jobs')]
        /\ last_kernel_read \in [Ctrl \X Tiles -> DriverEvents']
        /\ last_kernel_write \in [Ctrl \X Tiles -> DriverEvents']
        /\ last_htd \in [Ctrl \X Tiles -> DriverEvents']
        /\ last_dth \in [Ctrl \X Tiles -> DriverEvents']
        /\ host_seq \in [Ctrl -> 0 .. Len(jobs')]
        /\ dev_seq \in [Ctrl -> DriverEvents']
    BY <1>0, <1>9, <2>1, EventsAfterPush
  <2>3. /\ last_host_read' \in [Tiles -> 0 .. Len(jobs')]
        /\ last_host_write' \in [Tiles -> 0 .. Len(jobs')]
    BY <1>7, <2>2
  <2>. QED
    BY <1>7, <2>2, <2>3 DEF EventsInv, HostEventTable
<1>13. StatusInv'
  BY <1>0, <1>7 DEF StatusInv
<1>14. MainInv'
  <2>1. \/ main' = Idle
        \/ main' = [Idle EXCEPT !.pc = "wait", !.events = {Ticket},
                                !.scope = {Ticket}]
    BY DEF HostTaskPush
  <2>2. "wait" \in Blocked /\ {Ticket} \in SUBSET Nat
    BY <1>9, SMT DEF Blocked
  <2>. QED
    BY <2>1, <2>2, IdleTyped, BlockedTyped
<1>. QED
  BY <1>9, <1>10, <1>11, <1>12, <1>13, <1>14 DEF DriverInv

\* Advancing to the next argument keeps the type of the main thread.
LEMMA NextArgTyped ==
  ASSUME MainInv, main' = NextArg PROVE MainInv'
<1>1. main.arg \in Nat /\ main.arg >= 1
  BY DEF MainInv, MainState
<1>2. main.arg + 1 \in Nat /\ main.arg + 1 >= 1
  BY <1>1, SMT
<1>3. main' = [main EXCEPT !.arg = main.arg + 1]
  BY DEF NextArg
<1>4. main' \in MainState
  BY <1>2, <1>3, SMT DEF MainInv, MainState
<1>5. /\ main'.arg = main.arg + 1
      /\ main'.pc = main.pc /\ main'.ctrl = main.ctrl
      /\ main'.stream = main.stream
  BY <1>3 DEF MainInv, MainState
<1>. QED
  BY <1>2, <1>4, <1>5 DEF MainInv

\* Events stay what they are when nothing is pushed.
LEMMA EventsKept ==
  ASSUME EventsInv,
         UNCHANGED <<jobs, hostEvents, kernelEvents, last_htd, last_dth,
                     seqVars>>
  PROVE  EventsInv'
  BY DEF EventsInv, HostEventTable, DriverEvents, OnDriver, hostEvents,
     kernelEvents, seqVars

\* Jobs, their execution and their results stay what they are.
LEMMA ExecKept ==
  ASSUME JobsInv, ExecInv, UNCHANGED <<jobs, execVars>>
  PROVE  JobsInv' /\ ExecInv'
<1>1. UNCHANGED <<jobs, seen, done, mem>>
  BY DEF execVars
<1>. QED
  BY <1>1 DEF JobsInv, IsTask, ExecInv, Started

\* The waits for an argument of a kernel keep the invariant.
LEMMA KernelArgWaitKeepsInv ==
  ASSUME DriverInv, KernelArgWait PROVE DriverInv'
<1>1. JobsInv /\ MainInv /\ EventsInv /\ StatusInv /\ ExecInv /\ QueueInv
  BY DEF DriverInv
<1>2. main.ctrl \in Ctrl /\ main.stream \in Stream /\ ArgTile \in Tiles
  BY <1>1, ArgumentsTyped, Streams DEF KernelArgWait, ArgLeft, MainInv
<1>3. KernelWait(main.ctrl, ArgTile, ArgRole) \in WaitList
  BY <1>1, <1>2, KernelWaitListed
<1>4. /\ queue' = Enqueue(main.stream,
                          KernelWait(main.ctrl, ArgTile, ArgRole))
      /\ main' = NextArg
      /\ UNCHANGED <<jobs, mode, tileVars, seqVars, driverVars, execVars>>
  BY DEF KernelArgWait
<1>5. QueueInv'
  BY <1>1, <1>2, <1>3, <1>4, WaitsKeepQueues
<1>6. EventsInv' /\ JobsInv' /\ ExecInv'
  BY <1>1, <1>4, EventsKept, ExecKept DEF tileVars
<1>7. StatusInv'
  BY <1>1, <1>4 DEF StatusInv, tileVars
<1>. QED
  BY <1>1, <1>4, <1>5, <1>6, <1>7, NextArgTyped DEF DriverInv

\* The waits and statuses of an argument of a host task keep the invariant.
LEMMA HostTaskArgWaitKeepsInv ==
  ASSUME DriverInv, HostTaskArgWait PROVE DriverInv'
<1>. DEFINE written == {u \in {ArgTile} : ArgRole # "IN"}
            waits == ForEachCtrl([c \in Ctrl |->
                                    HostTaskWait(c, ArgTile, ArgRole)])
                       \o HostWait(last_host_write[ArgTile])
                       \o (IF ArgRole # "IN"
                           THEN HostWait(last_host_read[ArgTile]) ELSE <<>>)
<1>1. JobsInv /\ MainInv /\ EventsInv /\ StatusInv /\ ExecInv /\ QueueInv
  BY DEF DriverInv
<1>2. HostStream \in Stream /\ ArgTile \in Tiles
  BY <1>1, ArgumentsTyped DEF HostTaskArgWait, ArgLeft, Stream
<1>3. waits \in WaitList
  BY <1>1, <1>2, HostTaskWaitsListed
<1>4. /\ queue' = Enqueue(HostStream, waits)
      /\ device_status' = InvalidateDevices(written)
      /\ host_status' = [u \in Tiles |->
           IF u \in written THEN "VALID" ELSE host_status[u]]
      /\ main' = NextArg
      /\ UNCHANGED <<jobs, mode, attached, hostEvents, kernelEvents, last_htd,
                     last_dth, seqVars, driverVars, execVars>>
  BY DEF HostTaskArgWait
<1>. HIDE DEF waits, written
<1>5. QueueInv'
  BY <1>1, <1>2, <1>3, <1>4, WaitsKeepQueues
<1>6. EventsInv' /\ JobsInv' /\ ExecInv'
  BY <1>1, <1>4, EventsKept, ExecKept
<1>7. StatusInv'
  <2>1. device_status' \in [Ctrl \X Tiles -> Status]
    BY <1>1, <1>4, InvalidateTyped
  <2>2. host_status' \in [Tiles -> Status]
    BY <1>1, <1>4, SMT DEF StatusInv, Status
  <2>. QED
    BY <1>1, <1>4, <2>1, <2>2 DEF StatusInv
<1>. QED
  BY <1>1, <1>4, <1>5, <1>6, <1>7, NextArgTyped DEF DriverInv

\* A step of the main thread that only changes main.
LEMMA OnlyMain ==
  ASSUME DriverInv, MainInv',
         UNCHANGED <<jobs, queue, mode, tileVars, seqVars, driverVars,
                     execVars>>
  PROVE  DriverInv'
<1>1. EventsInv' /\ JobsInv' /\ ExecInv'
  BY EventsKept, ExecKept DEF DriverInv, tileVars
<1>2. StatusInv'
  BY DEF DriverInv, StatusInv, tileVars
<1>3. QueueInv'
  BY StutterKeepsQueues DEF DriverInv
<1>. QED
  BY <1>1, <1>2, <1>3 DEF DriverInv

\* A transfer issued by whatever call keeps the invariant.
LEMMA TransfersKeepInv ==
  ASSUME DriverInv, UNCHANGED main,
         \E c \in Ctrl, t \in Tiles : MoveToInner(c, t) \/ MoveFromInner(c, t)
  PROVE  DriverInv'
<1>1. MainInv'
  <2>1. MainInv
    BY DEF DriverInv
  <2>. QED
    BY <2>1 DEF MainInv, MainState
<1>. QED
  BY <1>1, MoveToKeepsInv, MoveFromKeepsInv DEF DriverInv

\* The transfers of a launch concern arguments of the launch.
LEMMA ArgTransfersKeepInv ==
  ASSUME DriverInv, KernelArgFetch \/ KernelArgSend \/ HostTaskFetch
  PROVE  DriverInv'
<1>1. ArgTile \in Tiles
  BY ArgumentsTyped
     DEF DriverInv, KernelArgFetch, KernelArgSend, HostTaskFetch, ArgLeft
<1>2. CASE KernelArgFetch
  <2>1. ValidImpls(ArgTile) \in SUBSET Ctrl
    BY DEF ValidImpls
  <2>2. First(ValidImpls(ArgTile)) \in Ctrl
    BY <1>2, <2>1, FirstIsMember DEF KernelArgFetch
  <2>. QED
    BY <1>1, <1>2, <2>2, TransfersKeepInv DEF KernelArgFetch
<1>3. CASE KernelArgSend
  <2>1. main.ctrl \in Ctrl
    BY <1>3 DEF KernelArgSend, ArgLeft, DriverInv, MainInv
  <2>. QED
    BY <1>1, <1>3, <2>1, TransfersKeepInv DEF KernelArgSend
<1>4. CASE HostTaskFetch
  <2>1. FetchImpls(ArgTile) \in SUBSET Ctrl /\ FetchImpls(ArgTile) # {}
    BY <1>4 DEF FetchImpls, ValidImpls, HostTaskFetch, HostTaskStale
  <2>2. First(FetchImpls(ArgTile)) \in Ctrl
    BY <2>1, FirstIsMember
  <2>. QED
    BY <1>1, <1>4, <2>2, TransfersKeepInv DEF HostTaskFetch
<1>. QED
  BY <1>2, <1>3, <1>4

\* Starting a launch only changes what the main thread does.
LEMMA LaunchKeepsInv ==
  ASSUME DriverInv, NEW args \in Accesses,
         \/ LaunchHostTask(args)
         \/ \E c \in Ctrl : \E s \in KernelStreams(c) : KernelLaunch(c, s, args)
  PROVE  DriverInv'
<1>1. CASE LaunchHostTask(args)
  <2>1. main' = [pc |-> "hosttask", ctrl |-> Host, stream |-> HostStream,
                 args |-> args, arg |-> 1, events |-> {}, scope |-> {}]
    BY <1>1 DEF LaunchHostTask, Idle
  <2>2. HostStream \in Stream
    BY DEF Stream
  <2>3. main' \in MainState
    BY <2>1, <2>2, SMT DEF MainState
  <2>4. main'.pc = "hosttask" /\ main'.arg = 1
    BY <2>1
  <2>5. MainInv'
    BY <2>3, <2>4, SMT DEF MainInv
  <2>. QED
    BY <1>1, <2>5, OnlyMain DEF LaunchHostTask
<1>2. ASSUME NEW c \in Ctrl, NEW s \in KernelStreams(c),
             KernelLaunch(c, s, args)
      PROVE  DriverInv'
  <2>1. main' = [pc |-> "kernel", ctrl |-> c, stream |-> s,
                 args |-> args, arg |-> 1, events |-> {}, scope |-> {}]
    BY <1>2 DEF KernelLaunch, Idle
  <2>2. s \in Stream
    BY Streams
  <2>3. main' \in MainState
    BY <2>1, <2>2, SMT DEF MainState
  <2>4. main'.ctrl = c /\ main'.stream = s /\ main'.arg = 1
    BY <2>1
  <2>5. MainInv'
    BY <2>3, <2>4, SMT DEF MainInv
  <2>. QED
    BY <1>2, <2>5, OnlyMain DEF KernelLaunch
<1>. QED
  BY <1>1, <1>2

\* A call that blocks only changes what the main thread does.
LEMMA BlockKeepsInv ==
  ASSUME DriverInv, NEW call \in Blocked,
         NEW events \in SUBSET (0 .. Len(jobs)), NEW scope \in SUBSET DOMAIN jobs,
         Block(call, events, scope)
  PROVE  DriverInv'
<1>1. Len(jobs) \in Nat /\ DOMAIN jobs = 1 .. Len(jobs)
  BY EventNumbers DEF DriverInv
<1>2. events \ {0} \in SUBSET Nat /\ scope \in SUBSET Nat
  BY <1>1, SMT
<1>3. main' = [Idle EXCEPT !.pc = call, !.events = events \ {0},
                           !.scope = scope]
  BY DEF Block
<1>4. MainInv'
  BY <1>2, <1>3, BlockedTyped
<1>. QED
  BY <1>4, OnlyMain DEF Block

\* The calls that wait, and the end of any of them, keep the invariant.
LEMMA WaitCallsKeepInv ==
  ASSUME DriverInv,
         \/ \E c \in Ctrl, t \in Tiles : WaitTile(c, t)
         \/ \E c \in Ctrl : GlobalSync(c)
         \/ Synchronize
  PROVE  DriverInv'
<1>1. {"waitTile", "globalSync", "synchronize"} \subseteq Blocked
  BY DEF Blocked
<1>2. \A c \in Ctrl, t \in Tiles :
        /\ JobsOf(c, t) \in SUBSET DOMAIN jobs
        /\ TileEvents(c, t) \in SUBSET (0 .. Len(jobs))
  BY TileEventsTyped DEF JobsOf, TileEvents, DriverInv
<1>3. ASSUME NEW c \in Ctrl, NEW t \in Tiles, WaitTile(c, t) PROVE DriverInv'
  BY <1>1, <1>2, <1>3, BlockKeepsInv DEF WaitTile
<1>4. ASSUME NEW c \in Ctrl, GlobalSync(c) PROVE DriverInv'
  <2>. DEFINE events == UNION {TileEvents(c, t) : t \in TilesOf(c)}
              scope  == UNION {JobsOf(c, t) : t \in TilesOf(c)}
  <2>1. TilesOf(c) \subseteq Tiles
    BY DEF TilesOf
  <2>2. events \in SUBSET (0 .. Len(jobs)) /\ scope \in SUBSET DOMAIN jobs
    BY <1>2, <2>1
  <2>3. Block("globalSync", events, scope)
    BY <1>4 DEF GlobalSync
  <2>. HIDE DEF events, scope
  <2>. QED
    BY <1>1, <2>2, <2>3, BlockKeepsInv
<1>5. CASE Synchronize
  <2>. DEFINE events == HostQueueEvent \cup
                          UNION {TileEvents(ct[1], ct[2]) : ct \in attached}
  <2>1. \A ct \in attached : ct[1] \in Ctrl /\ ct[2] \in Tiles
    BY DEF DriverInv, StatusInv
  <2>2. HostQueueEvent \subseteq 0 .. Len(jobs)
    BY LastOnTyped DEF HostQueueEvent, DriverInv
  <2>3. events \in SUBSET (0 .. Len(jobs))
    <3>1. \A ct \in attached :
            TileEvents(ct[1], ct[2]) \in SUBSET (0 .. Len(jobs))
      BY <1>2, <2>1
    <3>2. ASSUME NEW e \in events PROVE e \in 0 .. Len(jobs)
      <4>1. e \in HostQueueEvent
              \/ \E ct \in attached : e \in TileEvents(ct[1], ct[2])
        OBVIOUS
      <4>. HIDE DEF events
      <4>. QED
        BY <2>2, <3>1, <4>1
    <3>. QED
      BY <3>2
  <2>4. Block("synchronize", events, DOMAIN jobs)
    BY <1>5 DEF Synchronize
  <2>. HIDE DEF events
  <2>. QED
    BY <1>1, <2>3, <2>4, BlockKeepsInv
<1>. QED
  BY <1>3, <1>4, <1>5

\* Attaching or allocating a tile keeps the invariant.
LEMMA AllocKeepsInv ==
  ASSUME DriverInv, NEW c \in Ctrl, NEW t \in Tiles, NEW flags,
         AllocTile(c, t, flags)
  PROVE  DriverInv'
<1>. DEFINE ct == <<c, t>>
            Impl == Ctrl \X Tiles
            Reset(f) == [f EXCEPT ![ct] = 0]
<1>0. JobsInv /\ MainInv /\ EventsInv /\ StatusInv /\ ExecInv /\ QueueInv
  BY DEF DriverInv
<1>1. /\ last_kernel_read' \in {last_kernel_read, Reset(last_kernel_read)}
      /\ last_kernel_write' \in {last_kernel_write, Reset(last_kernel_write)}
      /\ last_htd' \in {last_htd, Reset(last_htd)}
      /\ last_dth' \in {last_dth, Reset(last_dth)}
  BY DEF AllocTile
<1>2. UNCHANGED <<jobs, queue, main, mode, last_host_read, last_host_write,
                  host_seq, dev_seq, driverVars, execVars>>
  BY DEF AllocTile, hostEvents, seqVars
<1>3. DriverEvents' = DriverEvents
  BY <1>2 DEF DriverEvents, OnDriver
<1>4. 0 \in DriverEvents
  BY <1>0, EventNumbers
<1>5. EventsInv'
  <2>1. \A f \in [Impl -> DriverEvents] : Reset(f) \in [Impl -> DriverEvents]
    BY <1>4, UpdateTyped
  <2>. HIDE DEF Reset
  <2>. QED
    BY <1>0, <1>1, <1>2, <1>3, <2>1 DEF EventsInv, HostEventTable
<1>6. StatusInv'
  <2>1. attached' = attached \cup {<<c, t>>}
    BY DEF AllocTile
  <2>2. host_status' \in {host_status, [host_status EXCEPT ![t] = "INVALID"]}
    BY DEF AllocTile
  <2>3. device_status' \in {device_status,
                            [device_status EXCEPT ![<<c, t>>] = "INVALID"]}
    BY DEF AllocTile
  <2>4. host_status' \in [Tiles -> Status]
    BY <1>0, <2>2, UpdateTyped DEF StatusInv, Status
  <2>5. device_status' \in [Ctrl \X Tiles -> Status]
    BY <1>0, <2>3, UpdateTyped DEF StatusInv, Status
  <2>. QED
    BY <1>0, <1>2, <2>1, <2>4, <2>5 DEF StatusInv
<1>7. QueueInv'
  BY <1>0, <1>2, StutterKeepsQueues
<1>8. JobsInv' /\ ExecInv'
  BY <1>0, <1>2, ExecKept
<1>9. MainInv'
  BY <1>0, <1>2 DEF MainInv, MainState
<1>. QED
  BY <1>5, <1>6, <1>7, <1>8, <1>9 DEF DriverInv

\* Changing the dependance mode keeps the invariant.
LEMMA SetModeKeepsInv ==
  ASSUME DriverInv, NEW c \in Ctrl, NEW m \in Modes, SetDependanceMode(c, m)
  PROVE  DriverInv'
<1>0. JobsInv /\ MainInv /\ EventsInv /\ StatusInv /\ ExecInv /\ QueueInv
  BY DEF DriverInv
<1>1. mode' \in [Ctrl -> Modes]
  BY <1>0, UpdateTyped DEF StatusInv, SetDependanceMode
<1>2. UNCHANGED <<jobs, queue, main, tileVars, seqVars, driverVars, execVars>>
  BY DEF SetDependanceMode
<1>3. EventsInv' /\ JobsInv' /\ ExecInv'
  BY <1>0, <1>2, EventsKept, ExecKept DEF tileVars
<1>4. StatusInv'
  BY <1>0, <1>1, <1>2 DEF StatusInv, tileVars
<1>5. QueueInv'
  BY <1>0, <1>2, StutterKeepsQueues
<1>6. MainInv'
  BY <1>0, <1>2 DEF MainInv, MainState
<1>. QED
  BY <1>3, <1>4, <1>5, <1>6 DEF DriverInv
-----------------------------------------------------------------------------
(* Steps of the queue manager, the drivers and the host task thread.       *)

\* Steps that leave the main thread's data alone.
LEMMA MainKept ==
  ASSUME DriverInv, JobsInv', ExecInv', QueueInv',
         UNCHANGED <<jobs, main, mode, tileVars, seqVars>>
  PROVE  DriverInv'
<1>1. EventsInv'
  BY EventsKept DEF DriverInv, tileVars
<1>2. StatusInv' /\ MainInv'
  BY DEF DriverInv, StatusInv, MainInv, MainState, tileVars
<1>. QED
  BY <1>1, <1>2 DEF DriverInv

\* Whatever the queue manager takes from a queue, the invariant holds.
LEMMA QueueManagerKeepsInv ==
  ASSUME DriverInv, NEW s \in DriverStream, QueueManager(s)
  PROVE  DriverInv'
<1>0. JobsInv /\ ExecInv /\ QueueInv /\ s \in Stream
  BY DEF DriverInv, Stream
<1>1. UNCHANGED <<jobs, main, mode, tileVars, seqVars, execVars>>
  BY DEF QueueManager, PassHostWait, CaptureDevWait, TestDevWait, IssueJob
<1>2. CASE PassHostWait(s) \/ TestDevWait(s)
  <2>1. /\ \/ HeadIs(s, "host") /\ HostDone(HeadJob(s))
           \/ HeadIs(s, "dev")
        /\ queue' = Taken(s)
        /\ captured' = captured /\ issued' = issued
    BY <1>2 DEF PassHostWait, TestDevWait, driverVars
  <2>. QED
    BY <1>0, <1>1, <2>1, WaitTakenKeepsQueues, ExecKept, MainKept
<1>3. CASE CaptureDevWait(s)
  <2>1. /\ HeadIs(s, "dev")
        /\ queue' = Taken(s)
        /\ captured' = [captured EXCEPT
                          ![s] = @ \cup ({HeadJob(s)} \cap DOMAIN issued)]
        /\ issued' = issued
    BY <1>3 DEF CaptureDevWait
  <2>2. QueueInv'
    BY <1>0, <1>1, <2>1, WaitTakenKeepsQueues
  <2>. QED
    BY <1>0, <1>1, <2>2, ExecKept, MainKept
<1>4. CASE IssueJob(s)
  BY <1>0, <1>1, <1>4, IssueKeepsQueues, ExecKept, MainKept
<1>. QED
  BY <1>2, <1>3, <1>4 DEF QueueManager

\* A wait of the host task thread that ends keeps the invariant.
LEMMA HostThreadKeepsInv == ASSUME DriverInv, HostThreadWait PROVE DriverInv'
<1>0. JobsInv /\ ExecInv /\ QueueInv /\ HostStream \in Stream
  BY DEF DriverInv, Stream
<1>1. /\ \/ HeadIs(HostStream, "host") /\ HostDone(HeadJob(HostStream))
         \/ HeadIs(HostStream, "dev")
      /\ queue' = Taken(HostStream)
      /\ UNCHANGED <<jobs, main, mode, tileVars, seqVars, execVars>>
      /\ captured' = captured /\ issued' = issued
  BY DEF HostThreadWait, driverVars
<1>2. QueueInv'
  BY <1>0, <1>1, WaitTakenKeepsQueues
<1>. QED
  BY <1>0, <1>1, <1>2, ExecKept, MainKept

\* A job that starts finds versions produced by jobs already pushed.
LEMMA StartKeepsInv ==
  ASSUME DriverInv, NEW n \in DOMAIN jobs, StartJob(n) PROVE DriverInv'
<1>0. JobsInv /\ ExecInv /\ QueueInv
  BY DEF DriverInv
<1>1. UNCHANGED <<jobs, queue, main, mode, tileVars, seqVars, driverVars, done,
                  mem>>
  BY DEF StartJob
<1>2. seen' = [m \in Started \cup {n} |->
                 IF m = n THEN [b \in jobs[n].reads |-> mem[b]] ELSE seen[m]]
  BY DEF StartJob
<1>3. jobs[n].reads \subseteq Buffer
  BY <1>0, JobTyped
<1>4. [b \in jobs[n].reads |-> mem[b]] \in [jobs[n].reads -> 0 .. Len(jobs)]
  BY <1>0, <1>3, SMT DEF ExecInv
<1>5. Started' = Started \cup {n}
  BY <1>2 DEF Started
<1>6. \A m \in Started' : seen'[m] \in [jobs[m].reads -> 0 .. Len(jobs)]
  BY <1>0, <1>2, <1>4, <1>5 DEF ExecInv
<1>7. ExecInv'
  BY <1>0, <1>1, <1>5, <1>6 DEF ExecInv
<1>8. JobsInv'
  BY <1>0, <1>1 DEF JobsInv, IsTask
<1>. QED
  BY <1>0, <1>1, <1>7, <1>8, StartKeepsQueues, MainKept

\* A job that finishes leaves a version produced by a job already pushed.
LEMMA FinishKeepsInv ==
  ASSUME DriverInv, NEW n \in DOMAIN jobs, FinishJob(n) PROVE DriverInv'
<1>0. JobsInv /\ ExecInv /\ QueueInv
  BY DEF DriverInv
<1>1. UNCHANGED <<jobs, main, mode, tileVars, seqVars, driverVars, seen>>
  BY DEF FinishJob
<1>2. n \in Started /\ done' = done \cup {n}
  BY DEF FinishJob
<1>3. Result(n) \in 0 .. Len(jobs)
  <2>1. CASE IsTask(n)
    <3>1. n \in 0 .. Len(jobs)
      BY <1>0, EventNumbers, SMT
    <3>. QED
      BY <2>1, <3>1 DEF Result
  <2>2. CASE ~IsTask(n)
    <3>1. (CHOOSE b \in jobs[n].reads : TRUE) \in jobs[n].reads
      BY <1>0, <2>2 DEF JobsInv
    <3>2. seen[n] \in [jobs[n].reads -> 0 .. Len(jobs)]
      BY <1>0, <1>2 DEF ExecInv
    <3>. QED
      BY <2>2, <3>1, <3>2 DEF Result
  <2>. QED
    BY <2>1, <2>2
<1>4. mem' \in [Buffer -> 0 .. Len(jobs)]
  <2>1. mem' = [b \in Buffer |-> IF b \in jobs[n].writes THEN Result(n)
                                                        ELSE mem[b]]
    BY DEF FinishJob
  <2>. QED
    BY <1>0, <1>3, <2>1, SMT DEF ExecInv
<1>5. ExecInv'
  BY <1>0, <1>1, <1>2, <1>4 DEF ExecInv, Started
<1>6. JobsInv'
  BY <1>0, <1>1 DEF JobsInv, IsTask
<1>. QED
  BY <1>0, <1>1, <1>5, <1>6, FinishKeepsQueues, MainKept
-----------------------------------------------------------------------------
\* The invariant holds before the first call.
LEMMA InitEstablishesInv == ASSUME Init PROVE DriverInv
<1>1. Len(jobs) = 0 /\ jobs \in Seq(Job) /\ DOMAIN jobs = {}
  BY SMT DEF Init
<1>2. JobsInv
  BY <1>1 DEF JobsInv
<1>3. MainInv
  <2>1. main = [pc |-> "idle", ctrl |-> Host, stream |-> HostStream,
                args |-> <<>>, arg |-> 1, events |-> {}, scope |-> {}]
    BY DEF Init, Idle
  <2>2. HostStream \in Stream
    BY DEF Stream
  <2>3. main \in MainState
    BY <2>1, <2>2, SMT DEF MainState
  <2>4. main.pc = "idle" /\ main.arg = 1
    BY <2>1
  <2>. QED
    BY <2>3, <2>4, SMT DEF MainInv
<1>4. EventsInv
  <2>1. 0 \in DriverEvents /\ 0 \in 0 .. Len(jobs)
    BY <1>2, EventNumbers
  <2>2. /\ NoEvents \in [Tiles -> 0 .. Len(jobs)]
        /\ NoImplEvents \in [Ctrl \X Tiles -> DriverEvents]
    BY <2>1 DEF NoEvents, NoImplEvents
  <2>3. host_seq = [c \in Ctrl |-> 0] /\ dev_seq = [c \in Ctrl |-> 0]
    BY DEF Init
  <2>4. host_seq \in [Ctrl -> 0 .. Len(jobs)] /\ dev_seq \in [Ctrl -> DriverEvents]
    BY <2>1, <2>3
  <2>. QED
    BY <2>2, <2>4 DEF Init, EventsInv, HostEventTable
<1>5. StatusInv
  <2>1. attached \subseteq Ctrl \X Tiles
    BY DriverCtrlAssumption DEF Init
  <2>2. host_status \in [Tiles -> Status]
    BY SMT DEF Init, InitHost, Status
  <2>3. device_status \in [Ctrl \X Tiles -> Status]
    BY SMT DEF Init, Status
  <2>. QED
    BY <2>1, <2>2, <2>3 DEF Init, StatusInv
<1>6. Started = {} /\ DOMAIN issued = {} /\ done = {}
  BY SMT DEF Init, Started
<1>7. ExecInv
  <2>1. mem \in [Buffer -> 0 .. Len(jobs)]
    BY <1>1, SMT DEF Init
  <2>. QED
    BY <1>6, <2>1 DEF ExecInv
<1>8. \A s \in Stream : queue[s] = <<>>
  BY DEF Init
<1>9. EntriesInv
  <2>1. <<>> \in Seq(Entries)
    <3>. HIDE DEF Entries
    <3>. QED
      BY SMT
  <2>2. queue \in [Stream -> Seq(Entries)]
    BY <2>1 DEF Init
  <2>3. DOMAIN << >> = {}
    BY SMT
  <2>4. JobsBehind(<<>>) /\ DevBehind(<<>>, DOMAIN issued)
    BY <2>3 DEF JobsBehind, DevBehind
  <2>. QED
    BY <1>8, <2>2, <2>4 DEF EntriesInv
<1>10. HomeInv
  BY <1>1 DEF HomeInv
<1>11. IssuedInv
  <2>1. captured \in [DriverStream -> SUBSET DOMAIN issued]
    BY DEF Init
  <2>. QED
    BY <1>1, <1>6, <2>1 DEF IssuedInv
<1>12. StartedInv
  BY <1>6 DEF StartedInv
<1>. QED
  BY <1>2, <1>3, <1>4, <1>5, <1>7, <1>9, <1>10, <1>11, <1>12
     DEF DriverInv, QueueInv

\* The invariant is inductive.
LEMMA StepKeepsInv == ASSUME DriverInv, [Next]_vars PROVE DriverInv'
<1>1. CASE Call
  <2>1. ASSUME NEW c \in Ctrl, NEW t \in Tiles, MoveTo(c, t) \/ MoveFrom(c, t)
        PROVE  DriverInv'
    BY <2>1, TransfersKeepInv DEF MoveTo, MoveFrom
  <2>. QED
    BY <1>1, <2>1, WaitCallsKeepInv, AllocKeepsInv, LaunchKeepsInv,
       SetModeKeepsInv DEF Call
<1>2. CASE Continue
  <2>1. CASE Unblock
    BY <2>1, IdleTyped, OnlyMain DEF Unblock
  <2>. QED
    BY <1>2, <2>1, ArgTransfersKeepInv, KernelArgWaitKeepsInv,
       KernelPushKeepsInv, HostTaskArgWaitKeepsInv, HostTaskPushKeepsInv
       DEF Continue
<1>3. CASE \E s \in DriverStream : QueueManager(s)
  BY <1>3, QueueManagerKeepsInv
<1>4. CASE HostThreadWait
  BY <1>4, HostThreadKeepsInv
<1>5. CASE \E s \in Stream : StreamStep(s)
  BY <1>5, StartKeepsInv, FinishKeepsInv DEF StreamStep
<1>6. CASE UNCHANGED vars
  <2>1. MainInv'
    BY <1>6 DEF vars, DriverInv, MainInv, MainState
  <2>. QED
    BY <1>6, <2>1, OnlyMain DEF vars
<1>. QED
  BY <1>1, <1>2, <1>3, <1>4, <1>5, <1>6 DEF Next

\* The inductive invariant holds of every program: queues, events and what
\* the drivers were given name jobs already pushed, and no queue holds a job
\* ahead of what it is behind.
THEOREM DriverInvariant == Spec => []DriverInv
<1>1. Init => DriverInv
  BY InitEstablishesInv
<1>2. DriverInv /\ [Next]_vars => DriverInv'
  BY StepKeepsInv
<1>. QED
  BY <1>1, <1>2, PTL DEF Spec
-----------------------------------------------------------------------------
\* Every variable has its type; every event or queue entry names a job already
\* pushed.
THEOREM TypeCorrect == Spec => []TypeOK
<1>1. ASSUME DriverInv PROVE TypeOK
  <2>1. JobsInv /\ EventsInv /\ MainInv /\ StatusInv /\ ExecInv /\ QueueInv
    BY <1>1 DEF DriverInv
  <2>2. DriverEvents \subseteq 0 .. Len(jobs)
    BY DEF DriverEvents
  <2>3. /\ last_kernel_read \in ImplEventTable
        /\ last_kernel_write \in ImplEventTable
        /\ last_htd \in ImplEventTable
        /\ last_dth \in ImplEventTable
        /\ dev_seq \in [Ctrl -> 0 .. Len(jobs)]
    BY <2>1, <2>2, LargerRange DEF EventsInv, ImplEventTable
  <2>4. queue \in [Stream -> Seq(Entry)]
    <3>1. Entries \subseteq Entry
      <4>1. ASSUME NEW e \in Entries PROVE e \in Entry
        <5>1. /\ e[2] \in DOMAIN jobs /\ e[1] \in {"host", "dev", "job"}
              /\ e = <<e[1], e[2]>>
          BY EntryKinds
        <5>. QED
          BY <5>1 DEF Entry
      <4>. QED
        BY <4>1
    <3>2. queue \in [Stream -> Seq(Entries)]
      BY <2>1 DEF QueueInv, EntriesInv
    <3>3. Seq(Entries) \subseteq Seq(Entry)
      <4>. HIDE DEF Entries, Entry
      <4>. QED
        BY <3>1, SMT
    <3>. QED
      BY <3>2, <3>3, LargerRange
  <2>5. /\ captured \in [DriverStream -> SUBSET DOMAIN issued]
        /\ DOMAIN issued \subseteq DOMAIN jobs
        /\ \A n \in DOMAIN issued : issued[n] \subseteq DOMAIN issued
    BY <2>1 DEF QueueInv, IssuedInv
  <2>. QED
    BY <2>1, <2>3, <2>4, <2>5
       DEF JobsInv, MainInv, EventsInv, StatusInv, ExecInv, TypeOK
<1>. QED
  BY <1>1, DriverInvariant, PTL

\* Whatever the queue manager, the drivers and the host task thread wait for,
\* one of them can go on while a job is unfinished: either the unfinished job
\* pushed first can start, or what is ahead of it on its queue can be taken.
THEOREM DeadlockFreedom == Spec => []NoDeadlock
<1>1. ASSUME DriverInv, Unfinished # {}
      PROVE  NoDeadlock
  <2>. /\ JobsInv /\ ExecInv /\ QueueInv
       /\ DOMAIN jobs = 1 .. Len(jobs) /\ Len(jobs) \in Nat
    BY <1>1, EventNumbers DEF DriverInv
  <2>1. Unfinished \in SUBSET Nat
    BY SMT DEF Unfinished
  <2>2. PICK n \in Unfinished : \A m \in Unfinished : n <= m
    BY <1>1, <2>1, LeastNumber
  <2>3. n \in DOMAIN jobs /\ n \notin done /\ n \in Nat
    BY SMT DEF Unfinished
  <2>4. ASSUME NEW m \in DOMAIN jobs, m < n PROVE m \in done
    <3>1. ~(n <= m)
      BY <2>3, <2>4, SMT
    <3>. QED
      BY <2>2, <3>1 DEF Unfinished
  <2>5. CASE n \in Started
    BY <2>3, <2>5 DEF NoDeadlock
  <2>6. CASE n \notin Started /\ n \in DOMAIN issued
    <3>1. \A m \in DOMAIN issued : m < n => m \in done
      BY <2>4 DEF QueueInv, IssuedInv
    <3>2. issued[n] \subseteq done
      BY <2>6, <3>1 DEF QueueInv, IssuedInv
    <3>3. CanStart(n)
      BY <2>6, <3>1, <3>2 DEF CanStart, DriverReady
    <3>. QED
      BY <2>3, <3>3 DEF NoDeadlock
  <2>7. CASE n \notin Started /\ n \notin DOMAIN issued
    <3>. DEFINE s == jobs[n].stream
                q == queue[s]
                m == HeadJob(s)
    <3>1. s \in Stream /\ Holds(q, <<"job", n>>)
      BY <2>3, <2>7, JobTyped DEF QueueInv, HomeInv
    <3>2. q \in Seq(Entries) /\ JobsBehind(q)
      BY <3>1 DEF QueueInv, EntriesInv
    <3>3. PICK j \in DOMAIN q : q[j] = <<"job", n>>
      BY <3>1 DEF Holds
    <3>4. q # <<>>
      BY <3>3, SMT
    <3>5. /\ Len(q) \in Nat \ {0} /\ DOMAIN q = 1 .. Len(q)
          /\ Head(q) = q[1] /\ q[1] \in Entries
      <4>. HIDE DEF q
      <4>. QED
        BY <3>2, <3>4, Tailed
    <3>6. 1 \in DOMAIN q /\ (j # 1 => 1 \in 1 .. j - 1)
      BY <3>3, <3>5, SMT
    <3>7. CASE j = 1
      <4>1. HeadIs(s, "job") /\ m = n
        BY <3>3, <3>4, <3>5, <3>7 DEF HeadIs, HeadJob
      <4>2. CASE s = HostStream
        BY <2>3, <2>7, <4>1, <4>2 DEF NoDeadlock, CanStart, HostReady
      <4>3. CASE s # HostStream
        BY <3>1, <4>1, <4>3 DEF NoDeadlock
      <4>. QED
        BY <4>2, <4>3
    <3>8. CASE j # 1
      <4>1. /\ Head(q) = <<Head(q)[1], m>>
            /\ Head(q)[1] \in {"host", "dev", "job"}
            /\ m \in DOMAIN jobs
        BY <3>5, EntryKinds DEF HeadJob
      <4>2. q[1][2] < n
        BY <3>2, <3>3, <3>6, <3>8 DEF JobsBehind
      <4>3. m < n
        BY <3>5, <4>2 DEF HeadJob
      <4>4. m \in done
        BY <2>4, <4>1, <4>3
      <4>5. CASE Head(q)[1] = "host"
        <5>1. HostDone(m)
          BY <4>4 DEF HostDone, ExecInv, QueueInv, StartedInv, OnDriver
        <5>2. HeadIs(s, "host")
          BY <3>4, <4>5 DEF HeadIs
        <5>. QED
          BY <3>1, <5>1, <5>2 DEF NoDeadlock
      <4>6. CASE Head(q)[1] = "dev"
        <5>1. HeadIs(s, "dev")
          BY <3>4, <4>6 DEF HeadIs
        <5>. QED
          BY <3>1, <4>4, <5>1 DEF NoDeadlock
      <4>7. CASE Head(q)[1] = "job"
        <5>1. Holds(q, <<"job", m>>)
          BY <3>5, <3>6, <4>1, <4>7 DEF Holds
        <5>. QED
          BY <3>1, <4>1, <4>4, <5>1 DEF QueueInv, HomeInv
      <4>. QED
        BY <4>1, <4>5, <4>6, <4>7
    <3>. QED
      BY <3>7, <3>8
  <2>. QED
    BY <2>5, <2>6, <2>7
<1>2. DriverInv => NoDeadlock
  BY <1>1 DEF NoDeadlock
<1>. QED
  BY <1>2, DriverInvariant, PTL

\* Under the ASYNC policy a device event is handed to a driver, tested or
\* waited for only after the job that records it was issued.
THEOREM EventsAreIssued ==
  ASSUME Policy = "ASYNC" PROVE Spec => []EventsIssuedBeforeWaits
<1>1. ASSUME DriverInv PROVE EventsIssuedBeforeWaits
  <2>1. QueueInv
    BY <1>1 DEF DriverInv
  <2>2. ASSUME NEW s \in Stream, HeadIs(s, "dev")
        PROVE  HeadJob(s) \in DOMAIN issued
    <3>1. /\ queue[s] \in Seq(Entries)
          /\ DevBehind(queue[s], DOMAIN issued)
          /\ queue[s] # <<>>
      BY <2>1, <2>2 DEF QueueInv, EntriesInv, HeadIs
    <3>2. /\ Len(queue[s]) \in Nat \ {0}
          /\ DOMAIN queue[s] = 1 .. Len(queue[s])
          /\ Head(queue[s]) = queue[s][1]
      BY <3>1, Tailed
    <3>3. 1 \in DOMAIN queue[s] /\ 1 .. 1 - 1 = {}
      BY <3>2, SMT
    <3>4. queue[s][1][1] = "dev" /\ queue[s][1][2] = HeadJob(s)
      BY <2>2, <3>2 DEF HeadIs, HeadJob
    <3>. QED
      BY <3>1, <3>3, <3>4 DEF DevBehind
  <2>. QED
    BY <2>2 DEF EventsIssuedBeforeWaits
<1>. QED
  BY <1>1, DriverInvariant, PTL
=============================================================================
