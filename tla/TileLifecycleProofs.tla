-------------------------- MODULE TileLifecycleProofs --------------------------
(***************************************************************************)
(* For any number of ctrls, tiles and selections and any jobs: the counter *)
(* of an event is the number of variables and tasks that hold it, and no   *)
(* call reads a record that was freed.  The program is assumed to free a   *)
(* tile from one ctrl only as the last thing it does with it there, and    *)
(* from all ctrls only when it is attached to the last (~Careless): the    *)
(* code checks neither.                                                    *)
(***************************************************************************)
EXTENDS TileLifecycle, FiniteSetTheorems, SequenceTheorems,
        WellFoundedInduction, TLAPS

(* Types.                                                                  *)

Kinds == {"moveto", "movefrom", "kernel", "hosttask"}
Ids   == {Event(s, k) : s \in Slot, k \in Int}
TaskSet == [kind : Kinds \cup {"wait"}, tile : Tiles \cup {NoTile},
            id : Ids, at : Queue \X Nat]
Status == {"UNALLOC", "INVALID", "VALID"}

TileTypes ==
  /\ type \subseteq Ctrl \X Tiles
  /\ records \subseteq ({Host} \cup Ctrl) \X Tiles
  /\ valid_impls \in [Tiles -> Nat]
  /\ memory \subseteq ({Host} \cup Ctrl) \X Domains
  /\ host_status \in [Tiles -> Status]
  /\ device_status \in [Ctrl \X Tiles -> Status]

CountTypes ==
  /\ DOMAIN ref_count \subseteq Ids
  /\ NoEvent \notin DOMAIN ref_count
  /\ IsFiniteSet(DOMAIN ref_count)
  /\ ref_count \in [DOMAIN ref_count -> Nat \ {0}]

QueueTypes ==
  /\ queue \in [Queue -> Seq(TaskSet)]
  /\ running \in [DriverQueue -> Seq(TaskSet)]
  /\ pushed \in [Queue -> Nat]
  /\ last_finished \in [Queue -> Nat]
  /\ \A q \in Queue : pushed[q] = last_finished[q] + Len(queue[q])

TypeInv ==
  /\ policy \in {"SYNC", "ASYNC"}
  /\ jobs \in 0 .. MaxJobs
  /\ slot \in [Slot -> Ids]
  /\ recorded \in [CpuSlot -> Queue \X Nat]
  /\ TileTypes /\ CountTypes /\ QueueTypes

(* What a tile has, and what its slots hold.                               *)

Empty(S) == \A s \in S : slot[s] = NoEvent
CtrlsOf(t) == {c \in Ctrl : <<c, t>> \in records}

\* A tile loses its record for the host with that of its last ctrl, and what
\* is not there has no events.
RecordsInv ==
  /\ \A c \in Ctrl, t \in Tiles : <<c, t>> \in records => Attached(c, t) /\ Live(t)
  /\ \A t \in Tiles : valid_impls[t] = Cardinality(CtrlsOf(t))
  /\ \A b \in type : host_status[b[2]] # "UNALLOC"
  /\ \A t \in Tiles : ~Live(t) => Empty(HostSlots(t))
  /\ \A c \in Ctrl, t \in Tiles : ~Attached(c, t) => Empty(ImplSlots(c, t))

(* The operations of a job.                                                *)

Waits == {"streamwait"} \X Queue \X Slot
Pushes == {"push"} \X Queue \X Kinds \X Slot \X Tiles
Changes == {"release", "create"} \X {{s} : s \in Slot}
Shares == {"share"} \X (Slot \ {KernelEvent}) \X Slot
Records == {"record"} \X CpuSlot \X Queue
JobOps == Waits \cup ({"retain"} \X Slot) \cup Pushes \cup Changes \cup Shares
          \cup Records \cup ({"synchronize"} \X Queue)

\* The slots an operation gives an event to.
Fills(o) == CASE o[1] = "create" -> o[2] [] o[1] = "share" -> {o[2]} [] OTHER -> {}
TileFills(o) == Fills(o) \ {KernelEvent}
PushesEvent(o) == o[1] = "push" /\ o[3] # "hosttask"

\* A reference is taken just before the push of the task that holds it, and a
\* slot is emptied just before it is filled.
Follows(a, b) ==
  /\ a[1] = "retain" => PushesEvent(b) /\ b[4] = a[2]
  /\ PushesEvent(b) => a = <<"retain", b[4]>>
  /\ TileFills(b) # {} => a = <<"release", TileFills(b)>>

JobList(l) ==
  /\ l \in Seq(JobOps)
  /\ \A i \in 1 .. Len(l) : TouchedBy(l[i]) \subseteq records
  /\ \A i \in 1 .. Len(l) - 1 : Follows(l[i], l[i + 1])
  /\ l # <<>> => l[Len(l)][1] # "retain"

\* The first operation needs none before it.
Opens(l) == l # <<>> => ~PushesEvent(l[1]) /\ TileFills(l[1]) = {}

\* The local kernel_event is created once, and the launch drops it last.
NoKernelEvent(l) == \A i \in 1 .. Len(l) : KernelEvent \notin Fills(l[i])
Drops(l) == l # <<>> /\ l[Len(l)] = <<"release", {KernelEvent}>>
KernelEventOnce(l) ==
  \/ /\ NoKernelEvent(l)
     /\ slot[KernelEvent] = NoEvent \/ Drops(l)
  \/ /\ slot[KernelEvent] = NoEvent /\ Drops(l)
     /\ \E i \in 1 .. Len(l) :
          \A j \in 1 .. Len(l) : j # i => KernelEvent \notin Fills(l[j])

JobForm ==
  /\ JobList(todo)
  /\ todo # <<>> => Empty(TileFills(Head(todo)))
  /\ KernelEventOnce(todo)

(* What is left of a call that frees, allocates or selects a tile.         *)

\* The last n rounds of the loop over all ctrls.
Loop(op, n, t) == [i \in 1 .. n |-> <<op, NCtrls - n + i - 1, t>>]

HostWait(c, t)   == <<"wait", HostSlots(t) \cup {<<c, t, k>> : k \in CpuKind}>>
DevWait(c, t)    == <<"wait", {<<c, t, k>> : k \in DevKind}>>
TileRelease(c, t) == <<"release", ImplSlots(c, t)>>

\* The rounds left find no record freed but not detached, and the last ctrl
\* keeps the tile's record for the host.
FreeLoop(t, n) ==
  n > 0 => /\ <<NCtrls - 1, t>> \in records
           /\ \A c \in NCtrls - n .. NCtrls - 1 : Attached(c, t) => <<c, t>> \in records

FreeRound(c, t, n, rest) ==
  /\ <<c, t>> \in records
  /\ n > 0 => c < NCtrls - n
  /\ \/ todo = <<HostWait(c, t), DevWait(c, t), TileRelease(c, t), <<"detach", c, t>> >> \o rest
     \/ todo = <<DevWait(c, t), TileRelease(c, t), <<"detach", c, t>> >> \o rest
     \/ todo = <<TileRelease(c, t), <<"detach", c, t>> >> \o rest
     \/ todo = << <<"detach", c, t>> >> \o rest

FreeHostForm(t) ==
  /\ Live(t)
  /\ \A c \in Ctrl : <<c, t>> \notin records
  /\ \/ todo = << <<"release", HostSlots(t)>>, <<"freehost", t>> >>
     \/ todo = << <<"freehost", t>> >> /\ Empty(HostSlots(t))

FreeForm ==
  /\ slot[KernelEvent] = NoEvent
  /\ \E t \in Tiles :
       \/ \E n \in 0 .. NCtrls :
            /\ FreeLoop(t, n)
            /\ \/ todo = Loop("freeif", n, t)
               \/ \E c \in Ctrl : FreeRound(c, t, n, Loop("freeif", n, t))
       \/ FreeHostForm(t)

\* Ctrl c is given a record of t.
InitForm(c, t, rest) ==
  \/ todo = << <<"attach", c, t>>, <<"create", ImplSlots(c, t)>> >> \o rest /\ ~Attached(c, t)
  \/ /\ todo = << <<"create", ImplSlots(c, t)>> >> \o rest
     /\ <<c, t>> \in records /\ Empty(ImplSlots(c, t))

AllocForm ==
  /\ slot[KernelEvent] = NoEvent
  /\ \E c \in Ctrl, t \in Tiles :
       Live(t) /\ host_status[t] # "UNALLOC" /\ InitForm(c, t, <<>>)

SelectLoop(s, n) ==
  /\ Live(Selected[s]) /\ host_status[s] # "UNALLOC"
  /\ \A c \in Ctrl : Attached(c, Selected[s]) => <<c, Selected[s]>> \in records
  /\ \A c \in NCtrls - n .. NCtrls - 1 : ~Attached(c, s)

SelectRound(s, c, rest) ==
  /\ Live(s) /\ <<c, Selected[s]>> \in records
  /\ \/ InitForm(c, s, << <<"peek", c, Selected[s]>> >> \o rest)
     \/ todo = << <<"peek", c, Selected[s]>> >> \o rest

SelectForm ==
  /\ slot[KernelEvent] = NoEvent
  /\ \E s \in Selections, n \in 0 .. NCtrls :
       /\ SelectLoop(s, n)
       /\ \/ /\ todo = << <<"domain", s>>, <<"create", HostSlots(s)>> >> \o Loop("selectif", n, s)
             /\ ~Live(s)
          \/ /\ todo = << <<"create", HostSlots(s)>> >> \o Loop("selectif", n, s)
             /\ Live(s) /\ Empty(HostSlots(s))
          \/ todo = Loop("selectif", n, s) /\ Live(s)
          \/ \E c \in Ctrl : c < NCtrls - n /\ SelectRound(s, c, Loop("selectif", n, s))

TodoForm == JobForm \/ FreeForm \/ AllocForm \/ SelectForm
-----------------------------------------------------------------------------
(* Numbers and sequences.                                                  *)

\* A set of naturals has a least element.
LEMMA LeastNumber ==
  ASSUME NEW S \in SUBSET Nat, S # {}
  PROVE  \E n \in S : \A m \in S : n <= m
<1>. DEFINE less == {ss \in Nat \X Nat : ss[1] < ss[2]}
<1>1. IsWellFoundedOn(less, Nat)
  BY NatLessThanWellFounded DEF OpToRel
<1>2. PICK n \in S : \A m \in S : ~(<<m, n>> \in less)
  BY <1>1, WFMin, Zenon
<1>3. \A m \in S : m < n => <<m, n>> \in less
  BY SMT
<1>. HIDE DEF less
<1>4. ASSUME NEW m \in S PROVE n <= m
  <2>1. ~(m < n)
    BY <1>2, <1>3
  <2>2. m \in Nat /\ n \in Nat
    OBVIOUS
  <2>. QED
    BY <2>1, <2>2, SMT
<1>. QED
  BY <1>4

\* Elements of two sequences one after the other.
LEMMA Concatenated ==
  ASSUME NEW E, NEW q \in Seq(E), NEW w \in Seq(E)
  PROVE  /\ q \o w \in Seq(E)
         /\ Len(q) \in Nat /\ Len(w) \in Nat
         /\ DOMAIN q = 1 .. Len(q) /\ DOMAIN w = 1 .. Len(w)
         /\ DOMAIN (q \o w) = 1 .. Len(q) + Len(w)
         /\ \A i \in 1 .. Len(q) : (q \o w)[i] = q[i]
         /\ \A i \in 1 .. Len(w) : (q \o w)[Len(q) + i] = w[i]
         /\ \A i \in 1 .. Len(q) + Len(w) :
              i \in 1 .. Len(q) \/ i - Len(q) \in 1 .. Len(w)
  BY SMT

\* What is left of a queue when its head is taken.
LEMMA Tailed ==
  ASSUME NEW E, NEW q \in Seq(E), q # <<>>
  PROVE  /\ Tail(q) \in Seq(E)
         /\ Len(q) \in Nat \ {0}
         /\ DOMAIN q = 1 .. Len(q)
         /\ Head(q) = q[1] /\ q[1] \in E
         /\ DOMAIN Tail(q) = 1 .. Len(q) - 1
         /\ \A i \in 1 .. Len(q) - 1 : Tail(q)[i] = q[i + 1]
         /\ \A i \in 2 .. Len(q) :
              i - 1 \in DOMAIN Tail(q) /\ q[i] = Tail(q)[i - 1]
  BY HeadTailProperties, SMT

\* A recursion over the numbers up to N has a solution: the least N without
\* one would be one more than a number with one.
LEMMA FlattenDefined ==
  ASSUME NEW M \in Nat \ {0}, NEW S, NEW seqs \in [1 .. M -> S]
  PROVE  \E f : f = [i \in 1 .. M |->
                       IF i = 1 THEN seqs[i] ELSE f[i - 1] \o seqs[i]]
<1>. DEFINE Body(N, f) == [i \in 1 .. N |->
              IF i = 1 THEN seqs[i] ELSE f[i - 1] \o seqs[i]]
            Bad == {N \in Nat \ {0} : ~ \E f : f = Body(N, f)}
<1>1. ASSUME Bad # {} PROVE FALSE
  <2>1. Bad \in SUBSET Nat
    OBVIOUS
  <2>2. PICK N \in Bad : \A m \in Bad : N <= m
    <3>. HIDE DEF Bad
    <3>. QED
      BY <1>1, <2>1, LeastNumber
  <2>3. CASE N = 1
    <3>. DEFINE f == [i \in 1 .. 1 |-> seqs[i]]
    <3>1. f = Body(1, f)
      BY SMT
    <3>. QED
      BY <2>2, <2>3, <3>1
  <2>4. CASE N # 1
    <3>1. N \in Nat /\ N - 1 \in Nat \ {0} /\ ~(N <= N - 1)
      BY <2>2, <2>4, SMT
    <3>2. N - 1 \notin Bad
      BY <2>2, <3>1
    <3>3. PICK g : g = Body(N - 1, g)
      BY <3>1, <3>2
    <3>. DEFINE f == [i \in 1 .. N |->
                        IF i = N THEN g[N - 1] \o seqs[N] ELSE g[i]]
    <3>4. ASSUME NEW i \in 1 .. N
          PROVE  f[i] = IF i = 1 THEN seqs[i] ELSE f[i - 1] \o seqs[i]
      <4>1. CASE i = N
        <5>1. f[i - 1] = g[N - 1]
          <6>1. N - 1 \in 1 .. N /\ N - 1 # N
            BY <3>1, SMT
          <6>. QED
            BY <4>1, <6>1
        <5>. QED
          BY <2>4, <4>1, <5>1
      <4>2. CASE i # N /\ i # 1
        <5>1. i \in 1 .. N - 1 /\ i - 1 \in 1 .. N /\ i - 1 # N
          BY <3>1, <4>2, SMT
        <5>2. f[i] = g[i] /\ f[i - 1] = g[i - 1]
          BY <4>2, <5>1
        <5>3. g[i] = g[i - 1] \o seqs[i]
          BY <3>3, <4>2, <5>1
        <5>. HIDE DEF f
        <5>. QED
          BY <4>2, <5>2, <5>3
      <4>3. CASE i # N /\ i = 1
        <5>1. i \in 1 .. N - 1
          BY <3>1, <4>3, SMT
        <5>. QED
          BY <3>3, <4>3, <5>1
      <4>. QED
        BY <4>1, <4>2, <4>3
    <3>5. f = Body(N, f)
      <4>1. DOMAIN f = 1 .. N /\ f = [i \in 1 .. N |-> f[i]]
        OBVIOUS
      <4>. HIDE DEF f
      <4>. QED
        BY <3>4, <4>1
    <3>. QED
      BY <2>2, <3>5
  <2>. QED
    BY <2>3, <2>4
<1>2. M \notin Bad
  BY <1>1
<1>. QED
  BY <1>2

\* A set of sequences closed under concatenation has their concatenation.
LEMMA FlattenedIn ==
  ASSUME NEW M \in Nat \ {0}, NEW S, NEW seqs \in [1 .. M -> S],
         \A v, w \in S : v \o w \in S
  PROVE  FlattenSeq(seqs) \in S
<1>1. Len(seqs) = M
  <2>1. seqs \in Seq(S)
    BY SMT
  <2>2. DOMAIN seqs = 1 .. M
    OBVIOUS
  <2>. QED
    BY <2>1, <2>2, LenProperties, SMT
<1>. DEFINE Fits(f) == f = [i \in 1 .. M |->
              IF i = 1 THEN seqs[i] ELSE f[i - 1] \o seqs[i]]
            flat == CHOOSE f : Fits(f)
<1>2. Fits(flat)
  <2>1. \E f : Fits(f)
    BY FlattenDefined
  <2>. HIDE DEF Fits
  <2>. QED
    BY <2>1
<1>3. FlattenSeq(seqs) = flat[M]
  BY <1>1 DEF FlattenSeq
<1>4. \A i \in 1 .. M :
        flat[i] = IF i = 1 THEN seqs[i] ELSE flat[i - 1] \o seqs[i]
  BY <1>2
<1>. HIDE DEF flat
<1>. DEFINE Bad == {i \in 1 .. M : flat[i] \notin S}
<1>5. ASSUME Bad # {} PROVE FALSE
  <2>1. Bad \in SUBSET Nat
    BY SMT
  <2>2. PICK i \in Bad : \A m \in Bad : i <= m
    <3>. HIDE DEF Bad
    <3>. QED
      BY <1>5, <2>1, LeastNumber
  <2>3. CASE i = 1
    BY <1>4, <2>2, <2>3
  <2>4. CASE i # 1
    <3>1. i - 1 \in 1 .. M /\ ~(i <= i - 1)
      BY <2>2, <2>4, SMT
    <3>2. flat[i - 1] \in S
      BY <2>2, <3>1
    <3>. QED
      BY <1>4, <2>2, <2>4, <3>2
  <2>. QED
    BY <2>3, <2>4
<1>6. M \in 1 .. M
  BY SMT
<1>. QED
  BY <1>3, <1>5, <1>6

\* Operations put before others are done first.
LEMMA Prefixed ==
  ASSUME NEW E, NEW l \in Seq(E), NEW a, NEW b, NEW c, NEW d
  PROVE  /\ << >> \o l = l /\ l \o << >> = l
         /\ <<a>> \o l # <<>> /\ Head(<<a>> \o l) = a /\ Tail(<<a>> \o l) = l
         /\ <<a, b>> \o l # <<>> /\ Head(<<a, b>> \o l) = a
         /\ Tail(<<a, b>> \o l) = <<b>> \o l
         /\ <<a, b, c>> \o l # <<>> /\ Head(<<a, b, c>> \o l) = a
         /\ Tail(<<a, b, c>> \o l) = <<b, c>> \o l
         /\ <<a, b, c, d>> \o l # <<>> /\ Head(<<a, b, c, d>> \o l) = a
         /\ Tail(<<a, b, c, d>> \o l) = <<b, c, d>> \o l
<1>1. << >> \o l = l /\ l \o << >> = l
  BY SMT
<1>2. <<a>> \o l # <<>> /\ Head(<<a>> \o l) = a /\ Tail(<<a>> \o l) = l
  BY SMT
<1>3. <<a, b>> \o l # <<>> /\ Head(<<a, b>> \o l) = a /\ Tail(<<a, b>> \o l) = <<b>> \o l
  BY SMT
<1>4. /\ <<a, b, c>> \o l # <<>> /\ Head(<<a, b, c>> \o l) = a
      /\ Tail(<<a, b, c>> \o l) = <<b, c>> \o l
  BY SMT
<1>5. /\ <<a, b, c, d>> \o l # <<>> /\ Head(<<a, b, c, d>> \o l) = a
      /\ Tail(<<a, b, c, d>> \o l) = <<b, c, d>> \o l
  BY SMT
<1>. QED
  BY <1>1, <1>2, <1>3, <1>4, <1>5

\* The head of a call and what is left of it.
LEMMA PrefixedOps ==
  ASSUME NEW E, NEW l \in Seq(E), NEW a \in E, NEW b \in E, NEW c \in E, NEW d \in E
  PROVE  /\ <<a>> \o l \in Seq(E) /\ <<a, b>> \o l \in Seq(E)
         /\ <<a, b, c>> \o l \in Seq(E) /\ <<a, b, c, d>> \o l \in Seq(E)
  BY SMT
-----------------------------------------------------------------------------
(* Slots and events.                                                       *)

\* The ctrls are numbers apart from the host, and tiles are not NoTile.
LEMMA Names ==
  /\ Ctrl \subseteq Nat /\ Host \notin Ctrl /\ NCtrls - 1 \in Ctrl /\ 0 \in Ctrl
  /\ NCtrls \in Nat \ {0}
  /\ \A c \in Ctrl : c # Host
  /\ NoTile \notin Tiles
  /\ \A t \in Tiles : t # NoTile
  /\ \A s \in Selections : s \in Tiles /\ Selected[s] \in Tiles /\ Selected[s] # s
  BY TileLifecycleAssumption, SMT DEF Ctrl, Host, Tiles, Selections

\* A slot is of the host or of a ctrl for a tile, of a ctrl, or kernel_event.
LEMMA SlotMembers ==
  \A s : s \in Slot <=> \/ \E t \in Tiles : s \in HostSlots(t)
                        \/ \E c \in Ctrl, t \in Tiles : s \in ImplSlots(c, t)
                        \/ \E c \in Ctrl : s \in {HostSeq(c), DevSeq(c)}
                        \/ s = KernelEvent
<1>. TAKE s
<1>1. s \in UNION {HostSlots(t) : t \in Tiles} <=> \E t \in Tiles : s \in HostSlots(t)
  OBVIOUS
<1>2. s \in UNION {ImplSlots(b[1], b[2]) : b \in Ctrl \X Tiles}
        <=> \E c \in Ctrl, t \in Tiles : s \in ImplSlots(c, t)
  <2>1. ASSUME NEW b \in Ctrl \X Tiles, s \in ImplSlots(b[1], b[2])
        PROVE  \E c \in Ctrl, t \in Tiles : s \in ImplSlots(c, t)
    <3>1. b[1] \in Ctrl /\ b[2] \in Tiles
      OBVIOUS
    <3>. QED
      BY <2>1, <3>1
  <2>2. ASSUME NEW c \in Ctrl, NEW t \in Tiles, s \in ImplSlots(c, t)
        PROVE  \E b \in Ctrl \X Tiles : s \in ImplSlots(b[1], b[2])
    <3>1. <<c, t>> \in Ctrl \X Tiles /\ <<c, t>>[1] = c /\ <<c, t>>[2] = t
      OBVIOUS
    <3>. QED
      BY <2>2, <3>1
  <2>. QED
    BY <2>1, <2>2
<1>3. s \in UNION {{HostSeq(c), DevSeq(c)} : c \in Ctrl}
        <=> \E c \in Ctrl : s \in {HostSeq(c), DevSeq(c)}
  OBVIOUS
<1>. DEFINE A == UNION {HostSlots(t) : t \in Tiles}
            B == UNION {ImplSlots(b[1], b[2]) : b \in Ctrl \X Tiles}
            C == UNION {{HostSeq(c), DevSeq(c)} : c \in Ctrl}
<1>4. Slot = A \cup B \cup C \cup {KernelEvent}
  BY DEF Slot
<1>. HIDE DEF A, B, C
<1>5. s \in Slot <=> s \in A \/ s \in B \/ s \in C \/ s = KernelEvent
  BY <1>4
<1>. USE DEF A, B, C
<1>. QED
  BY <1>1, <1>2, <1>3, <1>5, Zenon

\* What kinds of slots there are.
LEMMA SlotKinds ==
  /\ KernelEvent \in Slot
  /\ \A t \in Tiles : HostSlots(t) \subseteq CpuSlot /\ KernelEvent \notin HostSlots(t)
  /\ \A c \in Ctrl, t \in Tiles :
       /\ ImplSlots(c, t) \subseteq Slot /\ KernelEvent \notin ImplSlots(c, t)
       /\ \A k \in CpuKind \cup DevKind : <<c, t, k>> \in ImplSlots(c, t)
       /\ \A k \in CpuKind : <<c, t, k>> \in CpuSlot
  /\ \A c \in Ctrl : /\ HostSeq(c) \in CpuSlot /\ DevSeq(c) \in Slot \ {KernelEvent}
  /\ CpuSlot \subseteq Slot
<1>0. KernelEvent \in Slot /\ CpuSlot \subseteq Slot
  BY SlotMembers DEF CpuSlot
<1>1. ASSUME NEW t \in Tiles
      PROVE  HostSlots(t) \subseteq CpuSlot /\ KernelEvent \notin HostSlots(t)
  <2>1. HostSlots(t) \subseteq Slot
    BY SlotMembers
  <2>2. \A s \in HostSlots(t) : ~IsDev(s) /\ s # KernelEvent
    BY SMT DEF HostSlots, IsDev, DevKind, KernelEvent
  <2>. QED
    BY <2>1, <2>2 DEF CpuSlot
<1>2. ASSUME NEW c \in Ctrl, NEW t \in Tiles
      PROVE  /\ ImplSlots(c, t) \subseteq Slot /\ KernelEvent \notin ImplSlots(c, t)
             /\ \A k \in CpuKind \cup DevKind : <<c, t, k>> \in ImplSlots(c, t)
             /\ \A k \in CpuKind : <<c, t, k>> \in CpuSlot
  <2>1. ImplSlots(c, t) \subseteq Slot
    BY SlotMembers
  <2>2. KernelEvent \notin ImplSlots(c, t)
    BY Names, SMT DEF ImplSlots, KernelEvent
  <2>3. \A k \in CpuKind \cup DevKind : <<c, t, k>> \in ImplSlots(c, t)
    BY DEF ImplSlots
  <2>4. \A k \in CpuKind : ~IsDev(<<c, t, k>>)
    BY SMT DEF CpuKind, IsDev, DevKind
  <2>. QED
    BY <2>1, <2>2, <2>3, <2>4 DEF CpuSlot
<1>3. ASSUME NEW c \in Ctrl
      PROVE  HostSeq(c) \in CpuSlot /\ DevSeq(c) \in Slot \ {KernelEvent}
  <2>1. HostSeq(c) \in Slot /\ DevSeq(c) \in Slot
    BY SlotMembers
  <2>2. ~IsDev(HostSeq(c)) /\ DevSeq(c) # KernelEvent
    BY SMT DEF HostSeq, DevSeq, IsDev, DevKind, KernelEvent
  <2>. QED
    BY <2>1, <2>2 DEF CpuSlot
<1>. QED
  BY <1>0, <1>1, <1>2, <1>3



\* The record a slot is in.
LEMMA SlotRecords ==
  /\ RecordOf(KernelEvent) = {}
  /\ \A t \in Tiles : \A s \in HostSlots(t) : RecordOf(s) = {<<Host, t>>}
  /\ \A c \in Ctrl, t \in Tiles : \A s \in ImplSlots(c, t) : RecordOf(s) = {<<c, t>>}
  /\ \A c \in Ctrl : RecordOf(HostSeq(c)) = {} /\ RecordOf(DevSeq(c)) = {}
<1>1. \A t \in Tiles : \A s \in HostSlots(t) : RecordOf(s) = {<<Host, t>>}
  BY Names, SMT DEF HostSlots, RecordOf
<1>2. \A c \in Ctrl, t \in Tiles : \A s \in ImplSlots(c, t) : RecordOf(s) = {<<c, t>>}
  BY Names, SMT DEF ImplSlots, RecordOf
<1>3. \A c \in Ctrl : RecordOf(HostSeq(c)) = {} /\ RecordOf(DevSeq(c)) = {}
  BY SMT DEF HostSeq, DevSeq, RecordOf
<1>4. RecordOf(KernelEvent) = {}
  BY SMT DEF KernelEvent, RecordOf
<1>. QED
  BY <1>1, <1>2, <1>3, <1>4

\* A slot is a triple: who has it, of which tile, and its name.
LEMMA SlotTriples ==
  \A s \in Slot : /\ s = <<s[1], s[2], s[3]>>
                  /\ s \in ({Host} \cup Ctrl) \X (Tiles \cup {NoTile})
                             \X ({"last_host_read", "last_host_write", "host_seq",
                                  "dev_seq", "kernel_event"} \cup CpuKind \cup DevKind)
<1>. DEFINE Triples == ({Host} \cup Ctrl) \X (Tiles \cup {NoTile})
                         \X ({"last_host_read", "last_host_write", "host_seq",
                              "dev_seq", "kernel_event"} \cup CpuKind \cup DevKind)
<1>1. ASSUME NEW s \in Slot PROVE s \in Triples
  <2>1. \A t \in Tiles : HostSlots(t) \subseteq Triples
    BY DEF HostSlots
  <2>2. \A c \in Ctrl, t \in Tiles : ImplSlots(c, t) \subseteq Triples
    BY DEF ImplSlots
  <2>3. \A c \in Ctrl : {HostSeq(c), DevSeq(c)} \subseteq Triples
    BY DEF HostSeq, DevSeq
  <2>4. KernelEvent \in Triples
    BY DEF KernelEvent
  <2>. HIDE DEF Triples
  <2>. QED
    BY <2>1, <2>2, <2>3, <2>4, SlotMembers
<1>2. \A s \in Triples : s = <<s[1], s[2], s[3]>>
  BY SMT
<1>. QED
  BY <1>1, <1>2

\* There are finitely many slots.
LEMMA SlotsFinite == IsFiniteSet(Slot) /\ \A S \in SUBSET Slot : IsFiniteSet(S)
<1>. DEFINE K == {"last_host_read", "last_host_write", "host_seq", "dev_seq",
                  "kernel_event"} \cup CpuKind \cup DevKind
            C == {Host} \cup Ctrl
            T == Tiles \cup {NoTile}
            Triples == C \X T \X K
            Pairs == C \X (T \X K)
            f == [p \in Pairs |-> <<p[1], p[2][1], p[2][2]>>]
<1>1. IsFiniteSet(C)
  <2>1. IsFiniteSet(Ctrl)
    BY Names, FS_Interval, SMT DEF Ctrl
  <2>. QED
    BY <2>1, FS_Singleton, FS_Union
<1>2. IsFiniteSet(T)
  BY TileLifecycleAssumption, FS_Singleton, FS_Union
<1>3. IsFiniteSet(K)
  <2>1. K = {"last_host_read"} \cup {"last_host_write"} \cup {"host_seq"} \cup {"dev_seq"}
            \cup {"kernel_event"} \cup {"host_last_kernel_read"}
            \cup {"host_last_kernel_write"} \cup {"host_last_dth"} \cup {"host_last_htd"}
            \cup {"dev_last_kernel_read"} \cup {"dev_last_kernel_write"}
            \cup {"dev_last_dth"} \cup {"dev_last_htd"}
    BY DEF CpuKind, DevKind
  <2>2. \A x : IsFiniteSet({x})
    BY FS_Singleton
  <2>3. \A A, B : IsFiniteSet(A) /\ IsFiniteSet(B) => IsFiniteSet(A \cup B)
    BY FS_Union
  <2>. HIDE DEF K
  <2>. QED
    BY <2>1, <2>2, <2>3
<1>4. IsFiniteSet(Pairs)
  <2>. HIDE DEF C, T, K
  <2>1. IsFiniteSet(T \X K)
    BY <1>2, <1>3, FS_Product
  <2>. QED
    BY <1>1, <2>1, FS_Product
<1>5. f \in Surjection(Pairs, Triples)
  <2>. HIDE DEF C, T, K
  <2>1. f \in [Pairs -> Triples]
    OBVIOUS
  <2>2. \A s \in Triples : \E p \in Pairs : f[p] = s
    <3>1. TAKE s \in Triples
    <3>2. <<s[1], <<s[2], s[3]>> >> \in Pairs
      OBVIOUS
    <3>3. f[<<s[1], <<s[2], s[3]>> >>] = s
      BY <3>2
    <3>. QED
      BY <3>2, <3>3
  <2>. QED
    BY <2>1, <2>2 DEF Surjection
<1>6. IsFiniteSet(Triples)
  <2>. HIDE DEF Pairs, Triples, f
  <2>. QED
    BY <1>4, <1>5, FS_Surjection
<1>7. Slot \subseteq Triples
  BY SlotTriples
<1>8. IsFiniteSet(Slot)
  <2>. HIDE DEF Triples
  <2>. QED
    BY <1>6, <1>7, FS_Subset
<1>. QED
  BY <1>8, FS_Subset

\* An event tells the slot it was created for and its number.
LEMMA EventNames ==
  /\ \A s1, s2 \in Slot : \A k1, k2 \in Int :
       Event(s1, k1) = Event(s2, k2) => s1 = s2 /\ k1 = k2
  /\ NoEvent \in Ids
  /\ \A s \in Slot : \A k \in Nat : Event(s, k) \in Ids /\ Event(s, k) # NoEvent
<1>1. \A s1, s2 \in Slot : \A k1, k2 \in Int :
       Event(s1, k1) = Event(s2, k2) => s1 = s2 /\ k1 = k2
  <2>1. \A a1, b1, c1, k1, a2, b2, c2, k2 :
          <<a1, b1, c1, k1>> = <<a2, b2, c2, k2>> =>
            <<a1, b1, c1>> = <<a2, b2, c2>> /\ k1 = k2
    BY SMT
  <2>. QED
    BY <2>1, SlotTriples DEF Event
<1>2. KernelEvent \in Slot /\ -1 \in Int
  BY SlotKinds
<1>. QED
  BY <1>1, <1>2, SMT DEF NoEvent, Ids
-----------------------------------------------------------------------------
(* The operations of a job.                                                *)

\* Slots of records that are there.
LiveSlots == {s \in Slot : RecordOf(s) \subseteq records}
LiveWaits == {"streamwait"} \X Queue \X LiveSlots

\* What the operations of a job look like.
LEMMA JobOpFacts ==
  ASSUME NEW o \in JobOps
  PROVE  /\ o[1] \in {"streamwait", "retain", "push", "release", "create", "share",
                      "record", "synchronize"}
         /\ o[1] = "streamwait" => o[2] \in Queue /\ o[3] \in Slot
         /\ o[1] = "retain" => o[2] \in Slot
         /\ o[1] = "push" => /\ o[2] \in Queue /\ o[3] \in Kinds /\ o[4] \in Slot
                             /\ o[5] \in Tiles
         /\ o[1] \in {"release", "create"} => \E s \in Slot : o[2] = {s}
         /\ o[1] = "share" => o[2] \in Slot \ {KernelEvent} /\ o[3] \in Slot
         /\ o[1] = "record" => o[2] \in CpuSlot /\ o[3] \in Queue
         /\ o[1] = "synchronize" => o[2] \in Queue
<1>1. CASE o \in Waits
  BY <1>1, SMT DEF Waits
<1>2. CASE o \in {"retain"} \X Slot
  BY <1>2, SMT
<1>3. CASE o \in Pushes
  BY <1>3, SMT DEF Pushes
<1>4. CASE o \in Changes
  <2>1. o[1] \in {"release", "create"} /\ o[2] \in {{s} : s \in Slot}
    BY <1>4, SMT DEF Changes
  <2>2. \E s \in Slot : o[2] = {s}
    BY <2>1
  <2>. QED
    BY <2>1, <2>2
<1>5. CASE o \in Shares
  BY <1>5, SMT DEF Shares
<1>6. CASE o \in Records
  BY <1>6, SMT DEF Records
<1>7. CASE o \in {"synchronize"} \X Queue
  BY <1>7, SMT
<1>. QED
  BY <1>1, <1>2, <1>3, <1>4, <1>5, <1>6, <1>7 DEF JobOps

\* The operations of a job, one by one.
LEMMA JobOpsAre ==
  /\ \A q \in Queue, s \in Slot : <<"streamwait", q, s>> \in JobOps
  /\ \A s \in Slot : <<"retain", s>> \in JobOps
  /\ \A q \in Queue, k \in Kinds, s \in Slot, t \in Tiles : <<"push", q, k, s, t>> \in JobOps
  /\ \A s \in Slot : <<"release", {s}>> \in JobOps /\ <<"create", {s}>> \in JobOps
  /\ \A d \in Slot \ {KernelEvent}, s \in Slot : <<"share", d, s>> \in JobOps
  /\ \A s \in CpuSlot, q \in Queue : <<"record", s, q>> \in JobOps
  /\ \A q \in Queue : <<"synchronize", q>> \in JobOps
<1>1. \A q \in Queue, s \in Slot : <<"streamwait", q, s>> \in JobOps
  BY DEF JobOps, Waits
<1>2. \A s \in Slot : <<"retain", s>> \in JobOps
  BY DEF JobOps
<1>3. \A q \in Queue, k \in Kinds, s \in Slot, t \in Tiles : <<"push", q, k, s, t>> \in JobOps
  BY DEF JobOps, Pushes
<1>4. \A s \in Slot : <<"release", {s}>> \in JobOps /\ <<"create", {s}>> \in JobOps
  BY DEF JobOps, Changes
<1>5. \A d \in Slot \ {KernelEvent}, s \in Slot : <<"share", d, s>> \in JobOps
  BY DEF JobOps, Shares
<1>6. \A s \in CpuSlot, q \in Queue : <<"record", s, q>> \in JobOps
  BY DEF JobOps, Records
<1>7. \A q \in Queue : <<"synchronize", q>> \in JobOps
  BY DEF JobOps
<1>. QED
  BY <1>1, <1>2, <1>3, <1>4, <1>5, <1>6, <1>7

\* The records they touch, and the slots they fill.
LEMMA TouchedAre ==
  /\ \A q, s : TouchedBy(<<"streamwait", q, s>>) = RecordOf(s)
  /\ \A s : TouchedBy(<<"retain", s>>) = RecordOf(s)
  /\ \A q, k, s, t : TouchedBy(<<"push", q, k, s, t>>) = RecordOf(s)
  /\ \A s : TouchedBy(<<"release", {s}>>) = RecordOf(s)
  /\ \A s : TouchedBy(<<"create", {s}>>) = RecordOf(s)
  /\ \A d, s : TouchedBy(<<"share", d, s>>) = RecordOf(d) \cup RecordOf(s)
  /\ \A s, q : TouchedBy(<<"record", s, q>>) = RecordOf(s)
  /\ \A q : TouchedBy(<<"synchronize", q>>) = {}
<1>1. \A q, s : TouchedBy(<<"streamwait", q, s>>) = RecordOf(s)
  BY DEF TouchedBy
<1>2. \A s : TouchedBy(<<"retain", s>>) = RecordOf(s)
  BY DEF TouchedBy
<1>3. \A q, k, s, t : TouchedBy(<<"push", q, k, s, t>>) = RecordOf(s)
  BY DEF TouchedBy
<1>4. \A s : TouchedBy(<<"release", {s}>>) = UNION {RecordOf(x) : x \in {s}}
  BY DEF TouchedBy
<1>5. \A s : TouchedBy(<<"create", {s}>>) = UNION {RecordOf(x) : x \in {s}}
  BY DEF TouchedBy
<1>6. \A s : UNION {RecordOf(x) : x \in {s}} = RecordOf(s)
  OBVIOUS
<1>7. \A d, s : TouchedBy(<<"share", d, s>>) = RecordOf(d) \cup RecordOf(s)
  BY DEF TouchedBy
<1>8. \A s, q : TouchedBy(<<"record", s, q>>) = RecordOf(s)
  BY DEF TouchedBy
<1>9. \A q : TouchedBy(<<"synchronize", q>>) = {}
  BY DEF TouchedBy
<1>. QED
  BY <1>1, <1>2, <1>3, <1>4, <1>5, <1>6, <1>7, <1>8, <1>9

\* The slots an operation gives an event to, by its name.
LEMMA FillsAre ==
  /\ \A o : o[1] = "create" => Fills(o) = o[2]
  /\ \A o : o[1] = "share" => Fills(o) = {o[2]}
  /\ \A o : o[1] \notin {"create", "share"} => Fills(o) = {}
  BY DEF Fills

\* A part of a job that needs nothing before it and does not create the local
\* kernel_event.
Part(l)  == JobList(l) /\ Opens(l)
Plain(l) == Part(l) /\ NoKernelEvent(l)

\* Parts one after the other are one.
LEMMA PartsConcatenated ==
  ASSUME NEW v, NEW w, Part(v), Part(w)
  PROVE  /\ Part(v \o w)
         /\ NoKernelEvent(v) /\ NoKernelEvent(w) => NoKernelEvent(v \o w)
<1>0. v \in Seq(JobOps) /\ w \in Seq(JobOps)
  BY DEF Part, JobList
<1>1. /\ v \o w \in Seq(JobOps)
      /\ Len(v) \in Nat /\ Len(w) \in Nat
      /\ DOMAIN v = 1 .. Len(v) /\ DOMAIN w = 1 .. Len(w)
      /\ DOMAIN (v \o w) = 1 .. Len(v) + Len(w)
      /\ \A i \in 1 .. Len(v) : (v \o w)[i] = v[i]
      /\ \A i \in 1 .. Len(w) : (v \o w)[Len(v) + i] = w[i]
      /\ \A i \in 1 .. Len(v) + Len(w) :
           i \in 1 .. Len(v) \/ i - Len(v) \in 1 .. Len(w)
  BY <1>0, Concatenated
<1>2. Len(v \o w) = Len(v) + Len(w)
  BY <1>0, SMT
<1>3. /\ v # <<>> <=> Len(v) > 0
      /\ w # <<>> <=> Len(w) > 0
      /\ v \o w # <<>> <=> Len(v) + Len(w) > 0
  BY <1>0, SMT
<1>4. ASSUME NEW i \in 1 .. Len(v \o w)
      PROVE  TouchedBy((v \o w)[i]) \subseteq records
  <2>1. CASE i \in 1 .. Len(v)
    BY <1>1, <2>1 DEF Part, JobList
  <2>2. CASE i \notin 1 .. Len(v)
    <3>1. i - Len(v) \in 1 .. Len(w) /\ i = Len(v) + (i - Len(v))
      BY <1>1, <1>2, <2>2, SMT
    <3>2. (v \o w)[i] = w[i - Len(v)]
      BY <1>1, <3>1
    <3>. QED
      BY <3>1, <3>2 DEF Part, JobList
  <2>. QED
    BY <2>1, <2>2
<1>5. ASSUME NEW i \in 1 .. Len(v \o w) - 1
      PROVE  Follows((v \o w)[i], (v \o w)[i + 1])
  <2>1. CASE i \in 1 .. Len(v) - 1
    <3>1. i \in 1 .. Len(v) /\ i + 1 \in 1 .. Len(v)
      BY <1>1, <2>1, SMT
    <3>2. (v \o w)[i] = v[i] /\ (v \o w)[i + 1] = v[i + 1]
      BY <1>1, <3>1
    <3>. QED
      BY <2>1, <3>2 DEF Part, JobList
  <2>2. CASE i = Len(v)
    <3>1. i \in 1 .. Len(v) /\ 1 \in 1 .. Len(w) /\ Len(v) > 0 /\ Len(w) > 0
      BY <1>1, <1>2, <2>2, SMT
    <3>2. (v \o w)[i] = v[Len(v)] /\ (v \o w)[i + 1] = w[1]
      BY <1>1, <2>2, <3>1
    <3>3. v # <<>> /\ w # <<>>
      BY <1>3, <3>1
    <3>4. v[Len(v)][1] # "retain" /\ ~PushesEvent(w[1]) /\ TileFills(w[1]) = {}
      BY <3>3 DEF Part, JobList, Opens
    <3>. QED
      BY <3>2, <3>4 DEF Follows
  <2>3. CASE i \notin 1 .. Len(v) - 1 /\ i # Len(v)
    <3>0. i \in 1 .. Len(v) + Len(w) - 1 /\ Len(v) \in Nat /\ Len(w) \in Nat
      BY <1>1, <1>2
    <3>. DEFINE nv == Len(v)
                nw == Len(w)
    <3>. HIDE DEF nv, nw
    <3>a. i \in 1 .. nv + nw - 1 /\ nv \in Nat /\ nw \in Nat /\ i \notin 1 .. nv - 1 /\ i # nv
      BY <2>3, <3>0 DEF nv, nw
    <3>b. /\ i - nv \in 1 .. nw - 1
          /\ i - nv \in 1 .. nw /\ i - nv + 1 \in 1 .. nw
          /\ i = nv + (i - nv) /\ i + 1 = nv + (i - nv + 1)
      BY <3>a, SMT
    <3>1. /\ i - Len(v) \in 1 .. Len(w) - 1
          /\ i - Len(v) \in 1 .. Len(w) /\ i - Len(v) + 1 \in 1 .. Len(w)
          /\ i = Len(v) + (i - Len(v)) /\ i + 1 = Len(v) + (i - Len(v) + 1)
      BY <3>b DEF nv, nw
    <3>2. (v \o w)[i] = w[i - Len(v)] /\ (v \o w)[i + 1] = w[i - Len(v) + 1]
      BY <1>1, <3>1
    <3>3. Follows(w[i - Len(v)], w[i - Len(v) + 1])
      BY <3>1 DEF Part, JobList
    <3>. QED
      BY <3>2, <3>3
  <2>. QED
    BY <2>1, <2>2, <2>3
<1>6. ASSUME v \o w # <<>> PROVE (v \o w)[Len(v \o w)][1] # "retain"
  <2>1. CASE w = <<>>
    <3>1. Len(w) = 0 /\ Len(v) > 0
      BY <1>1, <1>3, <1>6, <2>1, SMT
    <3>2. Len(v \o w) = Len(v) /\ Len(v) \in 1 .. Len(v)
      BY <1>1, <1>2, <3>1, SMT
    <3>3. (v \o w)[Len(v \o w)] = v[Len(v)] /\ v # <<>>
      BY <1>1, <1>3, <3>1, <3>2
    <3>. QED
      BY <3>3 DEF Part, JobList
  <2>2. CASE w # <<>>
    <3>1. Len(w) \in 1 .. Len(w)
      BY <1>1, <1>3, <2>2, SMT
    <3>2. (v \o w)[Len(v) + Len(w)] = w[Len(w)]
      BY <1>1, <3>1
    <3>. QED
      BY <1>2, <2>2, <3>2 DEF Part, JobList
  <2>. QED
    BY <2>1, <2>2
<1>7. Opens(v \o w)
  <2>. SUFFICES ASSUME v \o w # <<>>
                PROVE  ~PushesEvent((v \o w)[1]) /\ TileFills((v \o w)[1]) = {}
    BY DEF Opens
  <2>1. CASE v = <<>>
    <3>1. v \o w = w
      BY <1>0, <2>1, Prefixed
    <3>. QED
      BY <3>1 DEF Part, Opens
  <2>2. CASE v # <<>>
    <3>1. 1 \in 1 .. Len(v)
      BY <1>1, <1>3, <2>2, SMT
    <3>2. (v \o w)[1] = v[1]
      BY <1>1, <3>1
    <3>. QED
      BY <2>2, <3>2 DEF Part, Opens
  <2>. QED
    BY <2>1, <2>2
<1>8. ASSUME NoKernelEvent(v), NoKernelEvent(w) PROVE NoKernelEvent(v \o w)
  <2>. SUFFICES ASSUME NEW i \in 1 .. Len(v \o w)
                PROVE  KernelEvent \notin Fills((v \o w)[i])
    BY DEF NoKernelEvent
  <2>1. CASE i \in 1 .. Len(v)
    BY <1>1, <1>8, <2>1 DEF NoKernelEvent
  <2>2. CASE i \notin 1 .. Len(v)
    <3>1. i - Len(v) \in 1 .. Len(w) /\ i = Len(v) + (i - Len(v))
      BY <1>1, <1>2, <2>2, SMT
    <3>2. (v \o w)[i] = w[i - Len(v)]
      BY <1>1, <3>1
    <3>. QED
      BY <1>8, <3>1, <3>2 DEF NoKernelEvent
  <2>. QED
    BY <2>1, <2>2
<1>9. JobList(v \o w)
  BY <1>1, <1>4, <1>5, <1>6 DEF JobList
<1>. QED
  BY <1>7, <1>8, <1>9 DEF Part

\* So are plain parts.
LEMMA PlainConcatenated ==
  ASSUME NEW v, NEW w, Plain(v), Plain(w)
  PROVE  Plain(v \o w)
  BY PartsConcatenated DEF Plain

\* What is left of a job is one, but for what its first operation needs.
LEMMA JobTailed ==
  ASSUME NEW l, JobList(l), l # <<>>
  PROVE  /\ JobList(Tail(l))
         /\ Head(l) = l[1] /\ Head(l) \in JobOps /\ TouchedBy(Head(l)) \subseteq records
         /\ Tail(l) # <<>> => Follows(Head(l), Head(Tail(l)))
         /\ Head(l)[1] = "retain" => Tail(l) # <<>>
         /\ NoKernelEvent(l) => NoKernelEvent(Tail(l)) /\ KernelEvent \notin Fills(Head(l))
         /\ Drops(l) => Drops(Tail(l)) \/ (Tail(l) = <<>> /\ Head(l) = <<"release", {KernelEvent}>>)
<1>0. l \in Seq(JobOps)
  BY DEF JobList
<1>1. /\ Tail(l) \in Seq(JobOps)
      /\ Len(l) \in Nat \ {0}
      /\ DOMAIN l = 1 .. Len(l)
      /\ Head(l) = l[1] /\ l[1] \in JobOps
      /\ \A i \in 1 .. Len(l) - 1 : Tail(l)[i] = l[i + 1]
  BY <1>0, Tailed
<1>2. /\ Len(Tail(l)) = Len(l) - 1
      /\ Tail(l) # <<>> <=> Len(l) > 1
      /\ Tail(l) # <<>> => Head(Tail(l)) = Tail(l)[1]
  <2>1. Len(Tail(l)) = Len(l) - 1
    BY <1>0, HeadTailProperties
  <2>2. Tail(l) # <<>> <=> Len(Tail(l)) > 0
    <3>1. Len(<<>>) = 0
      BY EmptySeq
    <3>2. Tail(l) # <<>> => Len(Tail(l)) \in Nat \ {0}
      BY ONLY <1>1, EmptySeq
    <3>. QED
      BY <3>1, <3>2
  <2>3. Tail(l) # <<>> => Head(Tail(l)) = Tail(l)[1]
    BY <1>1
  <2>. QED
    BY <1>1, <2>1, <2>2, <2>3
<1>3. ASSUME NEW i \in 1 .. Len(Tail(l))
      PROVE  TouchedBy(Tail(l)[i]) \subseteq records
  <2>1. i + 1 \in 1 .. Len(l) /\ Tail(l)[i] = l[i + 1]
    BY <1>1, <1>2, SMT
  <2>. QED
    BY <2>1 DEF JobList
<1>4. ASSUME NEW i \in 1 .. Len(Tail(l)) - 1
      PROVE  Follows(Tail(l)[i], Tail(l)[i + 1])
  <2>1. /\ i + 1 \in 1 .. Len(l) - 1 /\ Tail(l)[i] = l[i + 1]
        /\ Tail(l)[i + 1] = l[i + 1 + 1]
    BY <1>1, <1>2, SMT
  <2>. QED
    BY <2>1 DEF JobList
<1>5. ASSUME Tail(l) # <<>>
      PROVE  /\ Tail(l)[Len(Tail(l))] = l[Len(l)]
             /\ Follows(Head(l), Head(Tail(l)))
  <2>1. /\ Len(l) - 1 \in 1 .. Len(l) - 1 /\ 1 \in 1 .. Len(l) - 1
        /\ Len(l) - 1 + 1 = Len(l)
    BY <1>1, <1>2, <1>5, SMT
  <2>2. Tail(l)[Len(Tail(l))] = l[Len(l)] /\ Head(Tail(l)) = l[1 + 1]
    BY <1>1, <1>2, <1>5, <2>1
  <2>3. Follows(l[1], l[1 + 1])
    BY <2>1 DEF JobList
  <2>. QED
    BY <1>1, <2>2, <2>3
<1>6. 1 \in 1 .. Len(l)
  BY <1>1, SMT
<1>7. ASSUME Tail(l) = <<>> PROVE Len(l) = 1
  BY <1>1, <1>2, <1>7, SMT
<1>8. JobList(Tail(l))
  BY <1>1, <1>3, <1>4, <1>5 DEF JobList
<1>9. TouchedBy(Head(l)) \subseteq records
  BY <1>1, <1>6 DEF JobList
<1>10. Head(l)[1] = "retain" => Tail(l) # <<>>
  BY <1>1, <1>7 DEF JobList
<1>11. ASSUME NoKernelEvent(l)
       PROVE  NoKernelEvent(Tail(l)) /\ KernelEvent \notin Fills(Head(l))
  <2>1. ASSUME NEW i \in 1 .. Len(Tail(l)) PROVE KernelEvent \notin Fills(Tail(l)[i])
    <3>1. i + 1 \in 1 .. Len(l) /\ Tail(l)[i] = l[i + 1]
      BY <1>1, <1>2, SMT
    <3>. QED
      BY <1>11, <3>1 DEF NoKernelEvent
  <2>. QED
    BY <1>1, <1>6, <1>11, <2>1 DEF NoKernelEvent
<1>12. Drops(l) => Drops(Tail(l)) \/ (Tail(l) = <<>> /\ Head(l) = <<"release", {KernelEvent}>>)
  BY <1>1, <1>5, <1>7 DEF Drops
<1>. QED
  BY <1>1, <1>5, <1>8, <1>9, <1>10, <1>11, <1>12

\* The slots a call may use.
LEMMA LiveSlotsAre ==
  /\ KernelEvent \in LiveSlots
  /\ \A c \in Ctrl : HostSeq(c) \in LiveSlots /\ DevSeq(c) \in LiveSlots
  /\ \A t \in Tiles : Live(t) => HostSlots(t) \subseteq LiveSlots
  /\ \A c \in Ctrl, t \in Tiles : <<c, t>> \in records => ImplSlots(c, t) \subseteq LiveSlots
  /\ LiveSlots \subseteq Slot
<1>1. CpuSlot \subseteq Slot
  BY SlotKinds
<1>2. KernelEvent \in LiveSlots /\ LiveSlots \subseteq Slot
  BY SlotKinds, SlotRecords DEF LiveSlots
<1>3. \A c \in Ctrl : HostSeq(c) \in LiveSlots /\ DevSeq(c) \in LiveSlots
  BY <1>1, SlotKinds, SlotRecords DEF LiveSlots
<1>4. \A t \in Tiles : Live(t) => HostSlots(t) \subseteq LiveSlots
  BY <1>1, SlotKinds, SlotRecords DEF LiveSlots, Live
<1>5. \A c \in Ctrl, t \in Tiles : <<c, t>> \in records => ImplSlots(c, t) \subseteq LiveSlots
  BY SlotKinds, SlotRecords DEF LiveSlots
<1>. QED
  BY <1>2, <1>3, <1>4, <1>5

\* Waits are a plain part.
LEMMA WaitsPlain ==
  ASSUME NEW l \in Seq(LiveWaits)
  PROVE  Plain(l)
<1>1. Len(l) \in Nat /\ \A i \in 1 .. Len(l) : l[i] \in LiveWaits
  BY SMT
<1>2. \A o \in LiveWaits : o \in JobOps /\ TouchedBy(o) \subseteq records
  <2>1. TAKE o \in LiveWaits
  <2>2. o = <<"streamwait", o[2], o[3]>> /\ o[2] \in Queue /\ o[3] \in LiveSlots
    BY DEF LiveWaits
  <2>3. o[3] \in Slot /\ RecordOf(o[3]) \subseteq records
    BY <2>2 DEF LiveSlots
  <2>. QED
    BY <2>2, <2>3, JobOpsAre, TouchedAre
<1>3. \A o \in LiveWaits : o[1] = "streamwait"
  BY DEF LiveWaits
<1>4. \A o \in LiveWaits : /\ o[1] # "retain" /\ ~PushesEvent(o) /\ Fills(o) = {}
                           /\ TileFills(o) = {}
  BY <1>3, FillsAre DEF PushesEvent, TileFills
<1>5. l \in Seq(JobOps)
  BY <1>2, SMT
<1>6. \A i \in 1 .. Len(l) - 1 : i \in 1 .. Len(l) /\ i + 1 \in 1 .. Len(l)
  BY <1>1, SMT
<1>7. l # <<>> => 1 \in 1 .. Len(l) /\ Len(l) \in 1 .. Len(l)
  BY SMT
<1>8. \A i \in 1 .. Len(l) - 1 : Follows(l[i], l[i + 1])
  BY <1>1, <1>4, <1>6 DEF Follows
<1>9. JobList(l)
  BY <1>1, <1>2, <1>4, <1>5, <1>7, <1>8 DEF JobList
<1>10. Opens(l)
  BY <1>1, <1>4, <1>7 DEF Opens
<1>11. NoKernelEvent(l)
  BY <1>1, <1>4 DEF NoKernelEvent
<1>. QED
  BY <1>9, <1>10, <1>11 DEF Plain, Part

\* A call waits for live slots.
LEMMA WaitsForAre ==
  ASSUME NEW q \in Queue, NEW slots \in Seq(LiveSlots)
  PROVE  WaitsFor(slots, q) \in Seq(LiveWaits)
<1>1. slots \in [1 .. Len(slots) -> LiveSlots] /\ Len(slots) \in Nat
  BY SMT
<1>2. WaitsFor(slots, q) = [i \in 1 .. Len(slots) |-> <<"streamwait", q, slots[i]>>]
  BY <1>1 DEF WaitsFor, StreamWait
<1>3. \A i \in 1 .. Len(slots) : <<"streamwait", q, slots[i]>> \in LiveWaits
  BY <1>1 DEF LiveWaits
<1>4. WaitsFor(slots, q) \in [1 .. Len(slots) -> LiveWaits]
  BY <1>2, <1>3
<1>. QED
  BY <1>1, <1>4, SMT

\* The waits of all ctrls, one ctrl after the other.
LEMMA ForEachCtrlWaits ==
  ASSUME NEW waits \in [Ctrl -> Seq(LiveWaits)]
  PROVE  ForEachCtrl(waits) \in Seq(LiveWaits)
<1>. DEFINE seqs == [i \in 1 .. NCtrls |-> waits[i - 1]]
<1>1. \A i \in 1 .. NCtrls : i - 1 \in Ctrl
  BY Names, SMT DEF Ctrl
<1>2. seqs \in [1 .. NCtrls -> Seq(LiveWaits)]
  BY <1>1
<1>3. \A v, w \in Seq(LiveWaits) : v \o w \in Seq(LiveWaits)
  BY Concatenated
<1>. HIDE DEF seqs
<1>4. FlattenSeq(seqs) \in Seq(LiveWaits)
  BY <1>2, <1>3, Names, FlattenedIn
<1>. QED
  BY <1>4 DEF ForEachCtrl, seqs

\* A tile's records on all the ctrls it is attached to are live.
LEMMA ImplWaitsAre ==
  ASSUME NEW t \in Tiles, NEW q \in Queue, NEW kinds \in Seq(CpuKind \cup DevKind),
         \A c \in Ctrl : Attached(c, t) => <<c, t>> \in records
  PROVE  ImplWaits(t, kinds, q) \in Seq(LiveWaits)
<1>. DEFINE waits == [c \in Ctrl |-> IF <<c, t>> \in type
                        THEN WaitsFor([i \in DOMAIN kinds |-> <<c, t, kinds[i]>>], q)
                        ELSE <<>>]
<1>1. ASSUME NEW c \in Ctrl, <<c, t>> \in type
      PROVE  WaitsFor([i \in DOMAIN kinds |-> <<c, t, kinds[i]>>], q) \in Seq(LiveWaits)
  <2>1. ImplSlots(c, t) \subseteq LiveSlots
    BY <1>1, LiveSlotsAre DEF Attached
  <2>2. \A k \in CpuKind \cup DevKind : <<c, t, k>> \in LiveSlots
    BY <2>1, SlotKinds
  <2>3. kinds \in [1 .. Len(kinds) -> CpuKind \cup DevKind] /\ Len(kinds) \in Nat
        /\ DOMAIN kinds = 1 .. Len(kinds)
    BY SMT
  <2>4. [i \in DOMAIN kinds |-> <<c, t, kinds[i]>>] \in [1 .. Len(kinds) -> LiveSlots]
    BY <2>2, <2>3
  <2>. DEFINE slots == [i \in DOMAIN kinds |-> <<c, t, kinds[i]>>]
  <2>. HIDE DEF slots
  <2>5. slots \in Seq(LiveSlots)
    BY <2>3, <2>4, SMT DEF slots
  <2>6. WaitsFor(slots, q) \in Seq(LiveWaits)
    BY <2>5, WaitsForAre
  <2>. QED
    BY <2>6 DEF slots
<1>2. <<>> \in Seq(LiveWaits)
  BY SMT
<1>3. \A c \in Ctrl : waits[c] \in Seq(LiveWaits)
  BY <1>1, <1>2
<1>4. waits \in [Ctrl -> Seq(LiveWaits)]
  BY <1>3
<1>. HIDE DEF waits
<1>5. ForEachCtrl(waits) \in Seq(LiveWaits)
  BY <1>4, ForEachCtrlWaits
<1>. QED
  BY <1>5 DEF ImplWaits, waits

\* The waits of the SYNC policy.
LEMMA SyncWaitAre ==
  ASSUME NEW q \in Queue
  PROVE  SyncWait(q) \in Seq(LiveWaits)
<1>. DEFINE waits == [c \in Ctrl |-> WaitsFor(<<HostSeq(c), DevSeq(c)>>, q)]
<1>1. ASSUME NEW c \in Ctrl PROVE WaitsFor(<<HostSeq(c), DevSeq(c)>>, q) \in Seq(LiveWaits)
  <2>1. <<HostSeq(c), DevSeq(c)>> \in Seq(LiveSlots)
    BY LiveSlotsAre
  <2>. QED
    BY <2>1, WaitsForAre
<1>2. waits \in [Ctrl -> Seq(LiveWaits)]
  BY <1>1
<1>. HIDE DEF waits
<1>3. ForEachCtrl(waits) \in Seq(LiveWaits)
  BY <1>2, ForEachCtrlWaits
<1>4. <<>> \in Seq(LiveWaits)
  BY SMT
<1>. QED
  BY <1>3, <1>4 DEF SyncWait, waits

\* One operation that neither pushes nor fills is a plain part.
LEMMA OneOp ==
  ASSUME NEW o \in JobOps, TouchedBy(o) \subseteq records,
         o[1] # "retain", ~PushesEvent(o), Fills(o) = {}
  PROVE  Plain(<<o>>)
<1>1. <<o>> \in Seq(JobOps) /\ Len(<<o>>) = 1 /\ <<o>>[1] = o
  OBVIOUS
<1>2. \A i \in 1 .. 1 : i = 1
  BY SMT
<1>3. 1 .. 1 - 1 = {}
  BY SMT
<1>4. JobList(<<o>>)
  BY <1>1, <1>2, <1>3 DEF JobList
<1>5. Opens(<<o>>) /\ NoKernelEvent(<<o>>)
  BY <1>1, <1>2 DEF Opens, NoKernelEvent, TileFills
<1>. QED
  BY <1>4, <1>5 DEF Plain, Part

\* A job is pushed with a reference to its event.
LEMMA PushJobPlain ==
  ASSUME NEW q \in Queue, NEW k \in Kinds \ {"hosttask"}, NEW s \in LiveSlots, NEW t \in Tiles
  PROVE  Plain(PushJob(q, k, s, t))
<1>. DEFINE a == <<"retain", s>>
            b == <<"push", q, k, s, t>>
            l == <<a, b>>
<1>0. s \in Slot /\ RecordOf(s) \subseteq records
  BY DEF LiveSlots
<1>1. /\ a \in JobOps /\ b \in JobOps /\ TouchedBy(a) \subseteq records
      /\ TouchedBy(b) \subseteq records
  BY <1>0, JobOpsAre, TouchedAre
<1>2. /\ Fills(a) = {} /\ Fills(b) = {} /\ ~PushesEvent(a) /\ PushesEvent(b)
      /\ b[1] # "retain" /\ b[4] = s
  BY FillsAre DEF PushesEvent
<1>3. Follows(a, b)
  BY <1>2 DEF Follows, TileFills
<1>4. l \in Seq(JobOps) /\ Len(l) = 2 /\ l[1] = a /\ l[2] = b
  BY <1>1
<1>. HIDE DEF a, b, l
<1>5. /\ \A i \in 1 .. 2 : i = 1 \/ i = 2
      /\ \A i \in 1 .. 2 - 1 : i = 1 /\ i + 1 = 2
  BY SMT
<1>6. \A i \in 1 .. Len(l) : TouchedBy(l[i]) \subseteq records /\ KernelEvent \notin Fills(l[i])
  BY <1>1, <1>2, <1>4, <1>5
<1>7. \A i \in 1 .. Len(l) - 1 : Follows(l[i], l[i + 1])
  BY <1>3, <1>4, <1>5
<1>8. JobList(l)
  BY <1>2, <1>4, <1>6, <1>7 DEF JobList
<1>9. Opens(l) /\ NoKernelEvent(l)
  BY <1>2, <1>4, <1>6 DEF Opens, NoKernelEvent, TileFills
<1>. QED
  BY <1>8, <1>9 DEF Plain, Part, PushJob, a, b, l

\* A slot is emptied and given a new event.
LEMMA RefillPlain ==
  ASSUME NEW s \in LiveSlots, s # KernelEvent
  PROVE  Plain(<< <<"release", {s}>>, <<"create", {s}>> >>)
<1>. DEFINE a == <<"release", {s}>>
            b == <<"create", {s}>>
            l == <<a, b>>
<1>0. s \in Slot /\ RecordOf(s) \subseteq records
  BY DEF LiveSlots
<1>1. /\ a \in JobOps /\ b \in JobOps /\ TouchedBy(a) \subseteq records
      /\ TouchedBy(b) \subseteq records
  BY <1>0, JobOpsAre, TouchedAre
<1>2. /\ Fills(a) = {} /\ Fills(b) = {s} /\ ~PushesEvent(a) /\ ~PushesEvent(b)
      /\ a[1] # "retain" /\ b[1] # "retain"
  BY FillsAre DEF PushesEvent
<1>3. Follows(a, b)
  BY <1>2 DEF Follows, TileFills
<1>4. l \in Seq(JobOps) /\ Len(l) = 2 /\ l[1] = a /\ l[2] = b
  BY <1>1
<1>. HIDE DEF a, b, l
<1>5. /\ \A i \in 1 .. 2 : i = 1 \/ i = 2
      /\ \A i \in 1 .. 2 - 1 : i = 1 /\ i + 1 = 2
  BY SMT
<1>6. \A i \in 1 .. Len(l) : TouchedBy(l[i]) \subseteq records /\ KernelEvent \notin Fills(l[i])
  BY <1>1, <1>2, <1>4, <1>5
<1>7. \A i \in 1 .. Len(l) - 1 : Follows(l[i], l[i + 1])
  BY <1>3, <1>4, <1>5
<1>8. JobList(l)
  BY <1>2, <1>4, <1>6, <1>7 DEF JobList
<1>9. Opens(l) /\ NoKernelEvent(l)
  BY <1>2, <1>4, <1>6 DEF Opens, NoKernelEvent, TileFills
<1>. QED
  BY <1>8, <1>9 DEF Plain, Part, a, b, l

\* A job is recorded for the host, and its event put in another slot.
LEMMA RememberPlain ==
  ASSUME NEW x \in CpuSlot, x \in LiveSlots, NEW q \in Queue,
         NEW d \in LiveSlots, d # KernelEvent, NEW s \in LiveSlots
  PROVE  Plain(<< <<"record", x, q>>, <<"release", {d}>>, <<"share", d, s>> >>)
<1>. DEFINE r == <<"record", x, q>>
            a == <<"release", {d}>>
            b == <<"share", d, s>>
            l == <<r, a, b>>
<1>0. /\ d \in Slot /\ RecordOf(d) \subseteq records /\ RecordOf(x) \subseteq records
      /\ s \in Slot /\ RecordOf(s) \subseteq records
  BY DEF LiveSlots
<1>1. /\ a \in JobOps /\ b \in JobOps /\ r \in JobOps
      /\ TouchedBy(a) \subseteq records /\ TouchedBy(b) \subseteq records
      /\ TouchedBy(r) \subseteq records
  <2>1. a \in JobOps /\ b \in JobOps /\ r \in JobOps
    BY <1>0, JobOpsAre
  <2>2. TouchedBy(a) = RecordOf(d) /\ TouchedBy(r) = RecordOf(x)
    BY TouchedAre
  <2>3. TouchedBy(b) = RecordOf(d) \cup RecordOf(s)
    BY TouchedAre
  <2>. QED
    BY <1>0, <2>1, <2>2, <2>3
<1>2. /\ Fills(r) = {} /\ Fills(a) = {} /\ Fills(b) = {d}
      /\ ~PushesEvent(r) /\ ~PushesEvent(a) /\ ~PushesEvent(b)
      /\ r[1] # "retain" /\ a[1] # "retain" /\ b[1] # "retain"
  BY FillsAre DEF PushesEvent
<1>3. Follows(r, a) /\ Follows(a, b)
  BY <1>2 DEF Follows, TileFills
<1>4. l \in Seq(JobOps) /\ Len(l) = 3 /\ l[1] = r /\ l[2] = a /\ l[3] = b
  BY <1>1
<1>. HIDE DEF r, a, b, l
<1>5. /\ \A i \in 1 .. 3 : i = 1 \/ i = 2 \/ i = 3
      /\ \A i \in 1 .. 3 - 1 : (i = 1 /\ i + 1 = 2) \/ (i = 2 /\ i + 1 = 3)
  BY SMT
<1>6. \A i \in 1 .. Len(l) : TouchedBy(l[i]) \subseteq records /\ KernelEvent \notin Fills(l[i])
  BY <1>1, <1>2, <1>4, <1>5
<1>7. \A i \in 1 .. Len(l) - 1 : Follows(l[i], l[i + 1])
  BY <1>3, <1>4, <1>5
<1>8. JobList(l)
  BY <1>2, <1>4, <1>6, <1>7 DEF JobList
<1>9. Opens(l) /\ NoKernelEvent(l)
  BY <1>2, <1>4, <1>6 DEF Opens, NoKernelEvent, TileFills
<1>. QED
  BY <1>8, <1>9 DEF Plain, Part, r, a, b, l

\* The queues of a ctrl and of the host.
LEMMA QueuesAre ==
  /\ HostQueue \in Queue
  /\ \A c \in Ctrl : Htd(c) \in Queue /\ Dth(c) \in Queue /\ Kernel(c) \in Queue
  /\ DriverQueue \subseteq Queue /\ HostQueue \notin DriverQueue
  /\ \A q \in DriverQueue : \E c \in Ctrl : q \in {Htd(c), Dth(c), Kernel(c)}
<1>1. \A c \in Ctrl : Htd(c) \in DriverQueue /\ Dth(c) \in DriverQueue /\ Kernel(c) \in DriverQueue
  BY DEF DriverQueue
<1>2. \A q \in DriverQueue : \E c \in Ctrl : q \in {Htd(c), Dth(c), Kernel(c)}
  BY DEF DriverQueue
<1>3. \A c \in Ctrl : HostQueue \notin {Htd(c), Dth(c), Kernel(c)}
  BY SMT DEF HostQueue, Htd, Dth, Kernel
<1>. QED
  BY <1>1, <1>2, <1>3 DEF Queue

\* What a job leaves behind under the SYNC policy.
LEMMA RecordSeqPlain ==
  ASSUME NEW c \in Ctrl, NEW q \in Queue, NEW s \in LiveSlots
  PROVE  Plain(RecordSeq(c, q, s))
<1>1. HostSeq(c) \in CpuSlot /\ HostSeq(c) \in LiveSlots /\ DevSeq(c) \in LiveSlots
      /\ DevSeq(c) # KernelEvent
  BY LiveSlotsAre, SlotKinds
<1>2. Plain(<< <<"record", HostSeq(c), q>>, <<"release", {DevSeq(c)}>>,
               <<"share", DevSeq(c), s>> >>)
  BY <1>1, RememberPlain
<1>3. Plain(<<>>)
  <2>1. <<>> \in Seq(LiveWaits)
    BY SMT
  <2>. QED
    BY <2>1, WaitsPlain
<1>. QED
  BY <1>2, <1>3 DEF RecordSeq

\* A kernel becomes the last one that uses the tile.
LEMMA UpdatePlain ==
  ASSUME NEW c \in Ctrl, NEW t \in Tiles, <<c, t>> \in records, NEW q \in Queue,
         NEW host \in CpuKind, NEW dev \in DevKind
  PROVE  Plain(Update(c, t, q, host, dev))
<1>1. /\ <<c, t, host>> \in CpuSlot /\ <<c, t, host>> \in LiveSlots
      /\ <<c, t, dev>> \in LiveSlots /\ <<c, t, dev>> # KernelEvent
  BY LiveSlotsAre, SlotKinds
<1>2. KernelEvent \in LiveSlots
  BY LiveSlotsAre
<1>3. \A x \in CpuSlot, d \in LiveSlots :
        x \in LiveSlots /\ d # KernelEvent =>
          Plain(<< <<"record", x, q>>, <<"release", {d}>>, <<"share", d, KernelEvent>> >>)
  BY <1>2, RememberPlain
<1>. DEFINE x == <<c, t, host>>
            d == <<c, t, dev>>
<1>. HIDE DEF x, d
<1>4. Plain(<< <<"record", x, q>>, <<"release", {d}>>, <<"share", d, KernelEvent>> >>)
  BY <1>1, <1>3 DEF x, d
<1>. QED
  BY <1>4 DEF Update, x, d

\* Operations that are a part by themselves.
LEMMA OneOpPlain ==
  /\ Plain(<<>>)
  /\ \A x \in CpuSlot, q \in Queue : x \in LiveSlots => Plain(<< <<"record", x, q>> >>)
  /\ \A s \in LiveSlots : Plain(<< <<"release", {s}>> >>)
  /\ \A t \in Tiles : Plain(<< <<"push", HostQueue, "hosttask", KernelEvent, t>> >>)
  /\ Plain(<< <<"synchronize", HostQueue>> >>)
<1>0. <<>> \in Seq(LiveWaits)
  BY SMT
<1>1. Plain(<<>>)
  BY <1>0, WaitsPlain
<1>2. ASSUME NEW x \in CpuSlot, NEW q \in Queue, x \in LiveSlots
      PROVE  Plain(<< <<"record", x, q>> >>)
  <2>. DEFINE o == <<"record", x, q>>
  <2>1. o \in JobOps /\ TouchedBy(o) \subseteq records
    BY <1>2, JobOpsAre, TouchedAre DEF LiveSlots
  <2>2. o[1] # "retain" /\ ~PushesEvent(o) /\ Fills(o) = {}
    BY FillsAre DEF PushesEvent
  <2>. HIDE DEF o
  <2>3. Plain(<<o>>)
    BY <2>1, <2>2, OneOp
  <2>. QED
    BY <2>3 DEF o
<1>3. ASSUME NEW s \in LiveSlots PROVE Plain(<< <<"release", {s}>> >>)
  <2>. DEFINE o == <<"release", {s}>>
  <2>1. o \in JobOps /\ TouchedBy(o) \subseteq records
    BY JobOpsAre, TouchedAre DEF LiveSlots
  <2>2. o[1] # "retain" /\ ~PushesEvent(o) /\ Fills(o) = {}
    BY FillsAre DEF PushesEvent
  <2>. HIDE DEF o
  <2>3. Plain(<<o>>)
    BY <2>1, <2>2, OneOp
  <2>. QED
    BY <2>3 DEF o
<1>4. ASSUME NEW t \in Tiles
      PROVE  Plain(<< <<"push", HostQueue, "hosttask", KernelEvent, t>> >>)
  <2>. DEFINE o == <<"push", HostQueue, "hosttask", KernelEvent, t>>
  <2>1. "hosttask" \in Kinds /\ KernelEvent \in Slot
    BY SlotKinds DEF Kinds
  <2>2. o \in JobOps /\ TouchedBy(o) \subseteq records
    BY <2>1, QueuesAre, JobOpsAre, TouchedAre, SlotRecords
  <2>3. o[1] # "retain" /\ ~PushesEvent(o) /\ Fills(o) = {}
    BY FillsAre DEF PushesEvent
  <2>. HIDE DEF o
  <2>4. Plain(<<o>>)
    BY <2>2, <2>3, OneOp
  <2>. QED
    BY <2>4 DEF o
<1>5. Plain(<< <<"synchronize", HostQueue>> >>)
  <2>. DEFINE o == <<"synchronize", HostQueue>>
  <2>1. o \in JobOps /\ TouchedBy(o) \subseteq records
    BY QueuesAre, JobOpsAre, TouchedAre
  <2>2. o[1] # "retain" /\ ~PushesEvent(o) /\ Fills(o) = {}
    BY FillsAre DEF PushesEvent
  <2>. HIDE DEF o
  <2>3. Plain(<<o>>)
    BY <2>1, <2>2, OneOp
  <2>. QED
    BY <2>3 DEF o
<1>. QED
  BY <1>1, <1>2, <1>3, <1>4, <1>5

\* The slots of a tile that a call uses are live.
LEMMA TileSlots ==
  ASSUME NEW t \in Tiles
  PROVE  /\ Live(t) => /\ <<Host, t, "last_host_read">> \in LiveSlots
                       /\ <<Host, t, "last_host_write">> \in LiveSlots
                       /\ <<Host, t, "last_host_read">> \in CpuSlot
                       /\ <<Host, t, "last_host_write">> \in CpuSlot
         /\ \A c \in Ctrl : <<c, t>> \in records =>
              \A k \in CpuKind \cup DevKind : <<c, t, k>> \in LiveSlots
         /\ \A c \in Ctrl : /\ \A k \in CpuKind : <<c, t, k>> \in CpuSlot
                            /\ \A k \in DevKind : <<c, t, k>> # KernelEvent
<1>1. /\ <<Host, t, "last_host_read">> \in HostSlots(t)
      /\ <<Host, t, "last_host_write">> \in HostSlots(t)
  BY DEF HostSlots
<1>2. ASSUME NEW c \in Ctrl, NEW k \in DevKind PROVE <<c, t, k>> # KernelEvent
  <2>1. <<c, t, k>> \in ImplSlots(c, t)
    BY SlotKinds
  <2>. QED
    BY <2>1, SlotKinds
<1>3. Live(t) => HostSlots(t) \subseteq LiveSlots
  BY LiveSlotsAre
<1>4. \A c \in Ctrl : <<c, t>> \in records =>
        \A k \in CpuKind \cup DevKind : <<c, t, k>> \in LiveSlots
  BY LiveSlotsAre, SlotKinds
<1>. QED
  BY <1>1, <1>2, <1>3, <1>4, SlotKinds

\* The names of a ctrl's events of a tile.
LEMMA KindNames ==
  /\ CpuKind = {"host_last_kernel_read", "host_last_kernel_write", "host_last_dth",
                "host_last_htd"}
  /\ DevKind = {"dev_last_kernel_read", "dev_last_kernel_write", "dev_last_dth",
                "dev_last_htd"}
  BY DEF CpuKind, DevKind

\* The parts of a job in a row.
LEMMA PlainRow ==
  /\ \A a, b : Plain(a) /\ Plain(b) => Plain(a \o b)
  /\ \A a, b, c : Plain(a) /\ Plain(b) /\ Plain(c) => Plain(a \o b \o c)
  /\ \A a, b, c, d : Plain(a) /\ Plain(b) /\ Plain(c) /\ Plain(d) => Plain(a \o b \o c \o d)
<1>1. \A a, b : Plain(a) /\ Plain(b) => Plain(a \o b)
  BY PlainConcatenated
<1>2. \A a, b, c : Plain(a) /\ Plain(b) /\ Plain(c) => Plain(a \o b \o c)
  BY <1>1
<1>. QED
  BY <1>1, <1>2

\* The transfer of a tile to a ctrl is a plain part.
LEMMA MoveToPlain ==
  ASSUME NEW c \in Ctrl, NEW t \in Tiles, <<c, t>> \in records, Live(t),
         \A d \in Ctrl : Attached(d, t) => <<d, t>> \in records
  PROVE  Plain(MoveToInner(c, t))
<1>. DEFINE p1 == ImplWaits(t, <<"host_last_dth", "dev_last_dth">>, Htd(c))
            p2 == WaitsFor(<< <<c, t, "host_last_kernel_read">>, <<c, t, "host_last_kernel_write">>,
                              <<Host, t, "last_host_write">>, <<c, t, "dev_last_kernel_read">>,
                              <<c, t, "dev_last_kernel_write">> >>, Htd(c))
            p3 == SyncWait(Htd(c))
            p4 == << <<"release", {<<c, t, "dev_last_htd">>}>>,
                     <<"create", {<<c, t, "dev_last_htd">>}>> >>
            p5 == PushJob(Htd(c), "moveto", <<c, t, "dev_last_htd">>, t)
            p6 == << <<"record", <<c, t, "host_last_htd">>, Htd(c)>> >>
            p7 == RecordSeq(c, Dth(c), <<c, t, "dev_last_htd">>)
<1>0. Htd(c) \in Queue /\ Dth(c) \in Queue
  BY QueuesAre
<1>a. \A k \in CpuKind \cup DevKind : <<c, t, k>> \in LiveSlots
  BY TileSlots
<1>b. <<c, t, "host_last_htd">> \in CpuSlot /\ <<c, t, "dev_last_htd">> # KernelEvent
  BY TileSlots, KindNames
<1>c. /\ <<c, t, "host_last_kernel_read">> \in LiveSlots
      /\ <<c, t, "host_last_kernel_write">> \in LiveSlots
      /\ <<c, t, "dev_last_kernel_read">> \in LiveSlots
      /\ <<c, t, "dev_last_kernel_write">> \in LiveSlots
      /\ <<c, t, "dev_last_htd">> \in LiveSlots
      /\ <<c, t, "host_last_htd">> \in LiveSlots
      /\ <<Host, t, "last_host_write">> \in LiveSlots
  BY <1>a, TileSlots, KindNames
<1>1. Plain(p1)
  <2>1. <<"host_last_dth", "dev_last_dth">> \in Seq(CpuKind \cup DevKind)
    BY DEF CpuKind, DevKind
  <2>2. p1 \in Seq(LiveWaits)
    BY <1>0, <2>1, ImplWaitsAre
  <2>. HIDE DEF p1
  <2>. QED
    BY <2>2, WaitsPlain
<1>2. Plain(p2)
  <2>1. << <<c, t, "host_last_kernel_read">>, <<c, t, "host_last_kernel_write">>,
           <<Host, t, "last_host_write">>, <<c, t, "dev_last_kernel_read">>,
           <<c, t, "dev_last_kernel_write">> >> \in Seq(LiveSlots)
    BY <1>c
  <2>2. p2 \in Seq(LiveWaits)
    BY <1>0, <2>1, WaitsForAre
  <2>. HIDE DEF p2
  <2>. QED
    BY <2>2, WaitsPlain
<1>3. Plain(p3)
  BY <1>0, SyncWaitAre, WaitsPlain
<1>4. Plain(p4)
  BY <1>b, <1>c, RefillPlain
<1>5. Plain(p5)
  <2>1. "moveto" \in Kinds \ {"hosttask"}
    BY DEF Kinds
  <2>. QED
    BY <1>0, <1>c, <2>1, PushJobPlain
<1>6. Plain(p6)
  BY <1>0, <1>b, <1>c, OneOpPlain
<1>7. Plain(p7)
  BY <1>0, <1>c, RecordSeqPlain
<1>8. MoveToInner(c, t) = p1 \o p2 \o p3 \o p4 \o p5 \o p6 \o p7
  BY DEF MoveToInner
<1>. HIDE DEF p1, p2, p3, p4, p5, p6, p7
<1>9. Plain(p1 \o p2 \o p3 \o p4)
  BY <1>1, <1>2, <1>3, <1>4, PlainRow
<1>10. Plain(p1 \o p2 \o p3 \o p4 \o p5 \o p6 \o p7)
  BY <1>5, <1>6, <1>7, <1>9, PlainRow
<1>. QED
  BY <1>8, <1>10

\* So is the transfer from a ctrl.
LEMMA MoveFromPlain ==
  ASSUME NEW c \in Ctrl, NEW t \in Tiles, <<c, t>> \in records, Live(t),
         \A d \in Ctrl : Attached(d, t) => <<d, t>> \in records
  PROVE  Plain(MoveFromInner(c, t))
<1>. DEFINE p1 == ImplWaits(t, <<"host_last_htd", "dev_last_htd">>, Dth(c))
            p2 == WaitsFor(<< <<c, t, "host_last_kernel_write">>,
                              <<Host, t, "last_host_read">>, <<Host, t, "last_host_write">>,
                              <<c, t, "dev_last_kernel_write">> >>, Dth(c))
            p3 == SyncWait(Dth(c))
            p4 == << <<"release", {<<c, t, "dev_last_dth">>}>>,
                     <<"create", {<<c, t, "dev_last_dth">>}>> >>
            p5 == PushJob(Dth(c), "movefrom", <<c, t, "dev_last_dth">>, t)
            p6 == << <<"record", <<c, t, "host_last_dth">>, Dth(c)>> >>
            p7 == RecordSeq(c, Htd(c), <<c, t, "dev_last_htd">>)
<1>0. Htd(c) \in Queue /\ Dth(c) \in Queue
  BY QueuesAre
<1>a. \A k \in CpuKind \cup DevKind : <<c, t, k>> \in LiveSlots
  BY TileSlots
<1>b. <<c, t, "host_last_dth">> \in CpuSlot /\ <<c, t, "dev_last_dth">> # KernelEvent
  BY TileSlots, KindNames
<1>c. /\ <<c, t, "host_last_kernel_write">> \in LiveSlots
      /\ <<c, t, "dev_last_kernel_write">> \in LiveSlots
      /\ <<c, t, "dev_last_dth">> \in LiveSlots
      /\ <<c, t, "dev_last_htd">> \in LiveSlots
      /\ <<c, t, "host_last_dth">> \in LiveSlots
      /\ <<Host, t, "last_host_read">> \in LiveSlots
      /\ <<Host, t, "last_host_write">> \in LiveSlots
  BY <1>a, TileSlots, KindNames
<1>1. Plain(p1)
  <2>1. <<"host_last_htd", "dev_last_htd">> \in Seq(CpuKind \cup DevKind)
    BY DEF CpuKind, DevKind
  <2>2. p1 \in Seq(LiveWaits)
    BY <1>0, <2>1, ImplWaitsAre
  <2>. HIDE DEF p1
  <2>. QED
    BY <2>2, WaitsPlain
<1>2. Plain(p2)
  <2>1. << <<c, t, "host_last_kernel_write">>, <<Host, t, "last_host_read">>,
           <<Host, t, "last_host_write">>, <<c, t, "dev_last_kernel_write">> >>
          \in Seq(LiveSlots)
    BY <1>c
  <2>2. p2 \in Seq(LiveWaits)
    BY <1>0, <2>1, WaitsForAre
  <2>. HIDE DEF p2
  <2>. QED
    BY <2>2, WaitsPlain
<1>3. Plain(p3)
  BY <1>0, SyncWaitAre, WaitsPlain
<1>4. Plain(p4)
  BY <1>b, <1>c, RefillPlain
<1>5. Plain(p5)
  <2>1. "movefrom" \in Kinds \ {"hosttask"}
    BY DEF Kinds
  <2>. QED
    BY <1>0, <1>c, <2>1, PushJobPlain
<1>6. Plain(p6)
  BY <1>0, <1>b, <1>c, OneOpPlain
<1>7. Plain(p7)
  BY <1>0, <1>c, RecordSeqPlain
<1>8. MoveFromInner(c, t) = p1 \o p2 \o p3 \o p4 \o p5 \o p6 \o p7
  BY DEF MoveFromInner
<1>. HIDE DEF p1, p2, p3, p4, p5, p6, p7
<1>9. Plain(p1 \o p2 \o p3 \o p4)
  BY <1>1, <1>2, <1>3, <1>4, PlainRow
<1>10. Plain(p1 \o p2 \o p3 \o p4 \o p5 \o p6 \o p7)
  BY <1>5, <1>6, <1>7, <1>9, PlainRow
<1>. QED
  BY <1>8, <1>10

\* So is the call of a host task.
LEMMA HostTaskPlain ==
  ASSUME NEW t \in Tiles, NEW r, Live(t),
         \A d \in Ctrl : Attached(d, t) => <<d, t>> \in records
  PROVE  Plain(HostTaskInner(t, r))
<1>. DEFINE kinds == <<"host_last_dth", "dev_last_dth">>
                     \o (IF r # "IN" THEN <<"host_last_htd", "dev_last_htd">> ELSE <<>>)
            p1 == ImplWaits(t, kinds, HostQueue)
            p2 == WaitsFor(<< <<Host, t, "last_host_write">> >>, HostQueue)
            p3 == IF r # "IN" THEN WaitsFor(<< <<Host, t, "last_host_read">> >>, HostQueue)
                              ELSE <<>>
            p4 == SyncWait(HostQueue)
            p5 == << <<"push", HostQueue, "hosttask", KernelEvent, t>> >>
            p6 == IF r # "IN"
                  THEN << <<"record", <<Host, t, "last_host_write">>, HostQueue>> >>
                  ELSE <<>>
            p7 == IF r # "OUT"
                  THEN << <<"record", <<Host, t, "last_host_read">>, HostQueue>> >>
                  ELSE <<>>
            p8 == IF policy = "SYNC" THEN << <<"synchronize", HostQueue>> >> ELSE <<>>
<1>0. HostQueue \in Queue
  BY QueuesAre
<1>a. /\ <<Host, t, "last_host_read">> \in LiveSlots
      /\ <<Host, t, "last_host_write">> \in LiveSlots
      /\ <<Host, t, "last_host_read">> \in CpuSlot
      /\ <<Host, t, "last_host_write">> \in CpuSlot
  BY TileSlots
<1>1. Plain(p1)
  <2>1. /\ <<"host_last_dth", "dev_last_dth">> \in Seq(CpuKind \cup DevKind)
        /\ <<"host_last_htd", "dev_last_htd">> \in Seq(CpuKind \cup DevKind)
        /\ <<>> \in Seq(CpuKind \cup DevKind)
    BY DEF CpuKind, DevKind
  <2>2. kinds \in Seq(CpuKind \cup DevKind)
    BY <2>1, Concatenated
  <2>. HIDE DEF kinds
  <2>3. p1 \in Seq(LiveWaits)
    BY <1>0, <2>2, ImplWaitsAre
  <2>. HIDE DEF p1
  <2>. QED
    BY <2>3, WaitsPlain
<1>2. Plain(p2) /\ Plain(p3)
  <2>1. /\ << <<Host, t, "last_host_write">> >> \in Seq(LiveSlots)
        /\ << <<Host, t, "last_host_read">> >> \in Seq(LiveSlots)
    BY <1>a
  <2>2. /\ WaitsFor(<< <<Host, t, "last_host_write">> >>, HostQueue) \in Seq(LiveWaits)
        /\ WaitsFor(<< <<Host, t, "last_host_read">> >>, HostQueue) \in Seq(LiveWaits)
    BY <1>0, <2>1, WaitsForAre
  <2>. QED
    BY <2>2, WaitsPlain, OneOpPlain
<1>3. Plain(p4)
  BY <1>0, SyncWaitAre, WaitsPlain
<1>4. Plain(p5) /\ Plain(p8)
  BY OneOpPlain
<1>5. Plain(p6) /\ Plain(p7)
  BY <1>0, <1>a, OneOpPlain
<1>8. HostTaskInner(t, r) = p1 \o p2 \o p3 \o p4 \o p5 \o p6 \o p7 \o p8
  BY DEF HostTaskInner
<1>. HIDE DEF p1, p2, p3, p4, p5, p6, p7, p8
<1>9. Plain(p1 \o p2 \o p3 \o p4)
  BY <1>1, <1>2, <1>3, PlainRow
<1>10. Plain(p1 \o p2 \o p3 \o p4 \o p5 \o p6 \o p7)
  BY <1>4, <1>5, <1>9, PlainRow
<1>. QED
  BY <1>4, <1>8, <1>10, PlainRow

\* One sequence after another.
Cat(a, b) == a \o b

\* The order in which sequences are put together does not matter.
LEMMA CatAssociative ==
  ASSUME NEW E, NEW x \in Seq(E), NEW y \in Seq(E), NEW z \in Seq(E)
  PROVE  Cat(x, y) \in Seq(E) /\ Cat(Cat(x, y), z) = Cat(x, Cat(y, z))
<1>1. x \o y \in Seq(E)
  BY SMT
<1>2. (x \o y) \o z = x \o (y \o z)
  BY ConcatAssociative
<1>. QED
  BY <1>1, <1>2 DEF Cat

\* So parts may be put together from the right.
LEMMA Regrouped ==
  ASSUME NEW E, NEW b \in Seq(E), NEW r1 \in Seq(E), NEW r2 \in Seq(E), NEW r3 \in Seq(E),
         NEW r4 \in Seq(E), NEW r5 \in Seq(E)
  PROVE  Cat(Cat(Cat(Cat(Cat(b, r1), r2), r3), r4), r5)
           = Cat(b, Cat(Cat(Cat(Cat(r1, r2), r3), r4), r5))
<1>1. \A x, y, z \in Seq(E) : Cat(x, y) \in Seq(E) /\ Cat(Cat(x, y), z) = Cat(x, Cat(y, z))
  BY CatAssociative
<1>. DEFINE r12 == Cat(r1, r2)
            r123 == Cat(r12, r3)
            r1234 == Cat(r123, r4)
<1>2. r12 \in Seq(E) /\ Cat(Cat(b, r1), r2) = Cat(b, r12)
  BY <1>1
<1>3. r123 \in Seq(E) /\ Cat(Cat(b, r12), r3) = Cat(b, r123)
  BY <1>1, <1>2
<1>4. r1234 \in Seq(E) /\ Cat(Cat(b, r123), r4) = Cat(b, r1234)
  BY <1>1, <1>3
<1>5. Cat(Cat(b, r1234), r5) = Cat(b, Cat(r1234, r5))
  BY <1>1, <1>4
<1>. QED
  BY <1>2, <1>3, <1>4, <1>5

\* The length of two sequences one after the other, and its last element.
LEMMA LengthConcatenated ==
  ASSUME NEW E, NEW v \in Seq(E), NEW w \in Seq(E)
  PROVE  /\ Len(v) \in Nat /\ Len(w) \in Nat /\ Len(v \o w) = Len(v) + Len(w)
         /\ v \o w # <<>> <=> v # <<>> \/ w # <<>>
         /\ Len(w) > 0 => (v \o w)[Len(v) + Len(w)] = w[Len(w)]
  BY SMT

\* A launch creates the local kernel_event between two plain parts, the last
\* of which ends by dropping it.
LEMMA LaunchParts ==
  ASSUME NEW c \in Ctrl, NEW t \in Tiles, NEW r, <<c, t>> \in records
  PROVE  \E before, after :
           /\ Plain(before) /\ Plain(after) /\ Drops(after)
           /\ LaunchInner(c, t, r) = before \o << <<"create", {KernelEvent}>> >> \o after
<1>. DEFINE q == Kernel(c)
            w1 == IF HostCopyInUse(c, t)
                  THEN WaitsFor(<< <<c, t, "host_last_htd">>, <<c, t, "dev_last_htd">> >>, q)
                       \o (IF r # "IN"
                           THEN WaitsFor(<< <<c, t, "host_last_dth">>,
                                            <<c, t, "dev_last_dth">> >>, q)
                           ELSE <<>>)
                  ELSE <<>>
            w2 == SyncWait(q)
            cr == << <<"create", {KernelEvent}>> >>
            r1 == PushJob(q, "kernel", KernelEvent, t)
            r2 == IF r # "IN"
                  THEN Update(c, t, q, "host_last_kernel_write", "dev_last_kernel_write")
                  ELSE <<>>
            r3 == IF r # "OUT"
                  THEN Update(c, t, q, "host_last_kernel_read", "dev_last_kernel_read")
                  ELSE <<>>
            r4 == RecordSeq(c, q, KernelEvent)
            r5 == << <<"release", {KernelEvent}>> >>
<1>0. q \in Queue
  BY QueuesAre
<1>a. KernelEvent \in LiveSlots
  BY LiveSlotsAre
<1>b. \A k \in CpuKind \cup DevKind : <<c, t, k>> \in LiveSlots
  BY TileSlots
<1>c. /\ <<c, t, "host_last_htd">> \in LiveSlots /\ <<c, t, "dev_last_htd">> \in LiveSlots
      /\ <<c, t, "host_last_dth">> \in LiveSlots /\ <<c, t, "dev_last_dth">> \in LiveSlots
  BY <1>b, KindNames
<1>1. Plain(w1)
  <2>1. /\ << <<c, t, "host_last_htd">>, <<c, t, "dev_last_htd">> >> \in Seq(LiveSlots)
        /\ << <<c, t, "host_last_dth">>, <<c, t, "dev_last_dth">> >> \in Seq(LiveSlots)
    BY <1>c
  <2>. DEFINE u == WaitsFor(<< <<c, t, "host_last_htd">>, <<c, t, "dev_last_htd">> >>, q)
              v == WaitsFor(<< <<c, t, "host_last_dth">>, <<c, t, "dev_last_dth">> >>, q)
  <2>2. u \in Seq(LiveWaits) /\ v \in Seq(LiveWaits)
    BY <1>0, <2>1, WaitsForAre
  <2>3. w1 = IF HostCopyInUse(c, t) THEN u \o (IF r # "IN" THEN v ELSE <<>>) ELSE <<>>
    OBVIOUS
  <2>. HIDE DEF u, v, w1
  <2>4. Plain(u) /\ Plain(v) /\ Plain(<<>>)
    BY <2>2, WaitsPlain, OneOpPlain
  <2>5. Plain(u \o v) /\ Plain(u \o <<>>)
    BY <2>4, PlainRow
  <2>. QED
    BY <2>3, <2>4, <2>5
<1>2. Plain(w2)
  BY <1>0, SyncWaitAre, WaitsPlain
<1>3. Plain(r1)
  <2>1. "kernel" \in Kinds \ {"hosttask"}
    BY DEF Kinds
  <2>. QED
    BY <1>0, <1>a, <2>1, PushJobPlain
<1>4. Plain(r2) /\ Plain(r3)
  <2>1. /\ Plain(Update(c, t, q, "host_last_kernel_write", "dev_last_kernel_write"))
        /\ Plain(Update(c, t, q, "host_last_kernel_read", "dev_last_kernel_read"))
    BY <1>0, UpdatePlain, KindNames
  <2>. QED
    BY <2>1, OneOpPlain
<1>5. Plain(r4)
  BY <1>0, <1>a, RecordSeqPlain
<1>6. Plain(r5)
  BY <1>a, OneOpPlain
<1>7. LaunchInner(c, t, r) = w1 \o w2 \o cr \o r1 \o r2 \o r3 \o r4 \o r5
  BY DEF LaunchInner, DropKernelEvent
<1>8. /\ cr \in Seq(JobOps) /\ Len(r5) = 1 /\ r5[1] = <<"release", {KernelEvent}>>
      /\ r5 # <<>>
  BY JobOpsAre, SlotKinds
<1>. HIDE DEF w1, w2, cr, r1, r2, r3, r4, r5
<1>9. Plain(w1 \o w2) /\ Plain(r1 \o r2 \o r3 \o r4)
  BY <1>1, <1>2, <1>3, <1>4, <1>5, PlainRow
<1>. DEFINE after == r1 \o r2 \o r3 \o r4 \o r5
<1>10. Plain(after)
  BY <1>6, <1>9, PlainRow
<1>11. w1 \o w2 \o cr \o r1 \o r2 \o r3 \o r4 \o r5 = (w1 \o w2) \o cr \o after
  <2>1. \A p : Plain(p) => p \in Seq(JobOps)
    BY DEF Plain, Part, JobList
  <2>. DEFINE b == w1 \o w2 \o cr
  <2>2. /\ r1 \in Seq(JobOps) /\ r2 \in Seq(JobOps) /\ r3 \in Seq(JobOps)
        /\ r4 \in Seq(JobOps) /\ r5 \in Seq(JobOps) /\ w1 \o w2 \in Seq(JobOps)
    BY <1>3, <1>4, <1>5, <1>6, <1>9, <2>1
  <2>3. b \in Seq(JobOps)
    BY <1>8, <2>2, Concatenated
  <2>. HIDE DEF b
  <2>4. b \o r1 \o r2 \o r3 \o r4 \o r5 = b \o after
    <3>. HIDE DEF after
    <3>0. /\ b \in Seq(JobOps) /\ r1 \in Seq(JobOps) /\ r2 \in Seq(JobOps)
          /\ r3 \in Seq(JobOps) /\ r4 \in Seq(JobOps) /\ r5 \in Seq(JobOps)
      BY <2>2, <2>3
    <3>1. Cat(Cat(Cat(Cat(Cat(b, r1), r2), r3), r4), r5)
            = Cat(b, Cat(Cat(Cat(Cat(r1, r2), r3), r4), r5))
      <4>1. ASSUME NEW x \in Seq(JobOps), NEW x1 \in Seq(JobOps), NEW x2 \in Seq(JobOps),
                   NEW x3 \in Seq(JobOps), NEW x4 \in Seq(JobOps), NEW x5 \in Seq(JobOps)
            PROVE  Cat(Cat(Cat(Cat(Cat(x, x1), x2), x3), x4), x5)
                     = Cat(x, Cat(Cat(Cat(Cat(x1, x2), x3), x4), x5))
        BY Regrouped
      <4>. QED
        BY <3>0, <4>1
    <3>. QED
      BY <3>1, Zenon DEF after, Cat
  <2>. QED
    BY <2>4 DEF b
<1>12. Drops(after)
  <2>. DEFINE a == r1 \o r2 \o r3 \o r4
  <2>1. a \in Seq(JobOps) /\ r5 \in Seq(JobOps)
    BY <1>6, <1>9 DEF Plain, Part, JobList
  <2>. HIDE DEF a
  <2>2. Len(a \o r5) = Len(a) + 1 /\ Len(a) \in Nat /\ a \o r5 # <<>>
    BY <1>8, <2>1, LengthConcatenated
  <2>3. 1 \in 1 .. Len(r5)
    BY <1>8, SMT
  <2>4. (a \o r5)[Len(a) + 1] = r5[1]
    BY <2>1, <2>3, Concatenated
  <2>. QED
    BY <1>8, <2>2, <2>4 DEF Drops, a
<1>. HIDE DEF after
<1>. QED
  BY <1>7, <1>9, <1>10, <1>11, <1>12 DEF cr

\* So a launch is a part that creates kernel_event once and drops it last.
LEMMA LaunchPart ==
  ASSUME NEW c \in Ctrl, NEW t \in Tiles, NEW r, <<c, t>> \in records,
         slot[KernelEvent] = NoEvent
  PROVE  Part(LaunchInner(c, t, r)) /\ KernelEventOnce(LaunchInner(c, t, r))
<1>. DEFINE o == <<"create", {KernelEvent}>>
            cr == <<o>>
            l == LaunchInner(c, t, r)
<1>1. PICK before, after :
        /\ Plain(before) /\ Plain(after) /\ Drops(after)
        /\ l = before \o cr \o after
  BY LaunchParts
<1>2. /\ o \in JobOps /\ TouchedBy(o) \subseteq records
      /\ o[1] # "retain" /\ ~PushesEvent(o) /\ TileFills(o) = {}
  <2>1. o \in JobOps /\ TouchedBy(o) \subseteq records
    BY SlotKinds, JobOpsAre, TouchedAre, SlotRecords
  <2>2. o[1] # "retain" /\ ~PushesEvent(o) /\ Fills(o) = {KernelEvent}
    BY FillsAre DEF PushesEvent
  <2>. QED
    BY <2>1, <2>2 DEF TileFills
<1>. HIDE DEF o, l
<1>3. Part(cr)
  <2>1. cr \in Seq(JobOps) /\ Len(cr) = 1 /\ cr[1] = o
    BY <1>2
  <2>2. (\A i \in 1 .. 1 : i = 1) /\ 1 .. 1 - 1 = {}
    BY SMT
  <2>. HIDE DEF cr
  <2>3. JobList(cr)
    BY <1>2, <2>1, <2>2 DEF JobList
  <2>4. Opens(cr)
    BY <1>2, <2>1 DEF Opens
  <2>. QED
    BY <2>3, <2>4 DEF Part
<1>4. Part(before) /\ Part(after)
  BY <1>1 DEF Plain
<1>5. Part(before \o cr)
  BY <1>3, <1>4, PartsConcatenated
<1>6. Part(l)
  BY <1>1, <1>4, <1>5, PartsConcatenated
<1>7. /\ before \in Seq(JobOps) /\ after \in Seq(JobOps) /\ cr \in Seq(JobOps)
      /\ before \o cr \in Seq(JobOps) /\ Len(cr) = 1
  <2>1. Len(cr) = 1
    OBVIOUS
  <2>. HIDE DEF cr
  <2>. QED
    BY <1>3, <1>4, <1>5, <2>1 DEF Part, JobList
<1>. HIDE DEF cr
<1>8. Len(before \o cr) = Len(before) + 1 /\ Len(before) \in Nat /\ Len(after) \in Nat
      /\ Len(l) = Len(before) + 1 + Len(after)
  <2>1. Len(before) \in Nat /\ Len(before \o cr) = Len(before) + 1
    <3>1. Len(before) \in Nat /\ Len(before \o cr) = Len(before) + Len(cr)
      BY ONLY <1>7, LengthConcatenated, Zenon
    <3>. QED
      BY ONLY <1>7, <3>1
  <2>. DEFINE v == before \o cr
  <2>2. v \in Seq(JobOps) /\ l = v \o after
    BY <1>1, <1>7
  <2>. HIDE DEF v
  <2>3. Len(after) \in Nat /\ Len(l) = Len(v) + Len(after)
    BY <1>7, <2>2, LengthConcatenated
  <2>. QED
    BY <2>1, <2>3 DEF v
<1>9. Drops(l)
  <2>1. Len(after) > 0 /\ after[Len(after)] = <<"release", {KernelEvent}>>
    BY <1>1, <1>7, SMT DEF Drops
  <2>2. Len(after) \in 1 .. Len(after)
    BY <1>8, <2>1, SMT
  <2>3. l[Len(before \o cr) + Len(after)] = after[Len(after)]
    BY <1>1, <1>7, <2>2, Concatenated
  <2>4. l # <<>> /\ Len(l) = Len(before \o cr) + Len(after)
    BY <1>1, <1>7, <1>8, LengthConcatenated DEF Drops
  <2>. QED
    BY <2>1, <2>3, <2>4 DEF Drops
<1>10. Len(before) + 1 \in 1 .. Len(l)
  BY <1>8, SMT
<1>11. ASSUME NEW j \in 1 .. Len(l), j # Len(before) + 1
       PROVE  KernelEvent \notin Fills(l[j])
  <2>1. CASE j \in 1 .. Len(before)
    <3>1. j \in 1 .. Len(before \o cr)
      BY <1>8, <2>1, SMT
    <3>2. l[j] = (before \o cr)[j]
      BY <1>1, <1>7, <3>1, Concatenated
    <3>3. (before \o cr)[j] = before[j]
      BY <1>7, <2>1, Concatenated
    <3>. QED
      BY <1>1, <2>1, <3>2, <3>3 DEF Plain, NoKernelEvent
  <2>2. CASE j \notin 1 .. Len(before)
    <3>1. /\ j - (Len(before) + 1) \in 1 .. Len(after)
          /\ j = Len(before \o cr) + (j - (Len(before) + 1))
      BY <1>8, <1>11, <2>2, SMT
    <3>2. l[j] = after[j - (Len(before) + 1)]
      BY <1>1, <1>7, <3>1, Concatenated
    <3>. QED
      BY <1>1, <3>1, <3>2 DEF Plain, NoKernelEvent
  <2>. QED
    BY <2>1, <2>2
<1>. QED
  BY <1>6, <1>9, <1>10, <1>11 DEF KernelEventOnce, l
-----------------------------------------------------------------------------
(* The event a slot is made to hold is not in use.                         *)

\* The image of a finite set is finite.
LEMMA ImageFinite ==
  ASSUME NEW S, IsFiniteSet(S), NEW T, NEW f \in [S -> T],
         \A y \in T : \E x \in S : f[x] = y
  PROVE  IsFiniteSet(T)
<1>1. f \in Surjection(S, T)
  BY DEF Surjection
<1>. QED
  BY <1>1, FS_Surjection

\* There are finitely many queues.
LEMMA QueuesFinite == IsFiniteSet(Queue) /\ IsFiniteSet(DriverQueue)
<1>. DEFINE fh == [c \in Ctrl |-> Htd(c)]
            fd == [c \in Ctrl |-> Dth(c)]
            fk == [c \in Ctrl |-> Kernel(c)]
            H == {fh[c] : c \in Ctrl}
            D == {fd[c] : c \in Ctrl}
            K == {fk[c] : c \in Ctrl}
<1>1. IsFiniteSet(Ctrl)
  BY Names, FS_Interval, SMT DEF Ctrl
<1>2. DriverQueue \subseteq H \cup D \cup K
  <2>1. \A c \in Ctrl : Htd(c) \in H /\ Dth(c) \in D /\ Kernel(c) \in K
    OBVIOUS
  <2>. HIDE DEF H, D, K
  <2>. QED
    BY <2>1, QueuesAre
<1>3. IsFiniteSet(H) /\ IsFiniteSet(D) /\ IsFiniteSet(K)
  <2>1. fh \in [Ctrl -> H] /\ \A y \in H : \E c \in Ctrl : fh[c] = y
    OBVIOUS
  <2>2. fd \in [Ctrl -> D] /\ \A y \in D : \E c \in Ctrl : fd[c] = y
    OBVIOUS
  <2>3. fk \in [Ctrl -> K] /\ \A y \in K : \E c \in Ctrl : fk[c] = y
    OBVIOUS
  <2>. HIDE DEF fh, fd, fk, H, D, K
  <2>4. IsFiniteSet(H)
    BY <1>1, <2>1, ImageFinite
  <2>5. IsFiniteSet(D)
    BY <1>1, <2>2, ImageFinite
  <2>6. IsFiniteSet(K)
    BY <1>1, <2>3, ImageFinite
  <2>. QED
    BY <2>4, <2>5, <2>6
<1>. HIDE DEF H, D, K
<1>4. IsFiniteSet(H \cup D \cup K)
  BY <1>3, FS_Union
<1>5. IsFiniteSet(DriverQueue)
  BY <1>2, <1>4, FS_Subset
<1>. QED
  BY <1>5, FS_Singleton, FS_Union DEF Queue

\* Finitely many events are in use.
LEMMA InUseFinite ==
  ASSUME CountTypes, QueueTypes
  PROVE  IsFiniteSet(InUse)
<1>. DEFINE ids == [q \in DriverQueue |-> {running[q][i].id : i \in DOMAIN running[q]}]
            Family == {ids[q] : q \in DriverQueue}
<1>1. ASSUME NEW q \in DriverQueue PROVE IsFiniteSet(ids[q])
  <2>. DEFINE f == [i \in DOMAIN running[q] |-> running[q][i].id]
  <2>1. running[q] \in Seq(TaskSet)
    BY DEF QueueTypes
  <2>2. Len(running[q]) \in Nat /\ DOMAIN running[q] = 1 .. Len(running[q])
    BY <2>1, SMT
  <2>3. IsFiniteSet(DOMAIN running[q])
    BY <2>2, FS_Interval, SMT
  <2>4. ids[q] = {running[q][i].id : i \in DOMAIN running[q]}
    OBVIOUS
  <2>5. f \in [DOMAIN running[q] -> ids[q]]
    BY <2>4
  <2>6. \A y \in ids[q] : \E i \in DOMAIN running[q] : f[i] = y
    BY <2>4
  <2>. HIDE DEF f, ids
  <2>. QED
    BY <2>3, <2>5, <2>6, ImageFinite
<1>2. IsFiniteSet(Family)
  <2>0. DOMAIN ids = DriverQueue /\ ids = [q \in DriverQueue |-> ids[q]]
    OBVIOUS
  <2>. HIDE DEF ids
  <2>1. ids \in [DriverQueue -> Family] /\ \A y \in Family : \E q \in DriverQueue : ids[q] = y
    BY <2>0
  <2>. HIDE DEF Family
  <2>. QED
    BY <2>1, QueuesFinite, ImageFinite
<1>3. \A S \in Family : IsFiniteSet(S)
  <2>. HIDE DEF ids
  <2>. QED
    BY <1>1
<1>4. IsFiniteSet(UNION Family)
  <2>. HIDE DEF Family
  <2>. QED
    BY <1>2, <1>3, FS_UNION
<1>5. InUse = DOMAIN ref_count \cup UNION Family
  BY DEF InUse
<1>. HIDE DEF Family
<1>. QED
  BY <1>4, <1>5, FS_Union DEF CountTypes

\* There is always a number left for a new event.
LEMMA NewEventUnused ==
  ASSUME CountTypes, QueueTypes, NEW s \in Slot
  PROVE  /\ NewEvent(s) \notin InUse
         /\ NewEvent(s) \in Ids /\ NewEvent(s) # NoEvent
         /\ \E k \in Nat : NewEvent(s) = Event(s, k)
<1>. DEFINE N == Cardinality(InUse)
<1>0. IsFiniteSet(InUse)
  BY InUseFinite
<1>1. N \in Nat
  BY <1>0, FS_CardinalityType
<1>2. Unused(s) \in SUBSET Nat
  BY <1>1, SMT DEF Unused
<1>3. Unused(s) # {}
  <2>. SUFFICES ASSUME Unused(s) = {} PROVE FALSE
    OBVIOUS
  <2>. DEFINE f == [k \in 0 .. N |-> Event(s, k)]
  <2>1. \A k \in 0 .. N : Event(s, k) \in InUse
    BY DEF Unused
  <2>2. \A j, k \in 0 .. N : f[j] = f[k] => j = k
    <3>1. \A k \in 0 .. N : k \in Int
      BY <1>1, SMT
    <3>. QED
      BY <3>1, EventNames
  <2>a. f \in [0 .. N -> InUse]
    BY <2>1
  <2>. HIDE DEF f, N
  <2>3. f \in Injection(0 .. N, InUse)
    BY <2>2, <2>a DEF Injection, IsInjective
  <2>. USE DEF N
  <2>4. Cardinality(0 .. N) <= N
    BY <1>0, <2>3, FS_Injection
  <2>5. Cardinality(0 .. N) = N + 1
    BY <1>1, FS_Interval, SMT
  <2>. HIDE DEF N
  <2>. QED
    BY <1>1, <2>4, <2>5, SMT
<1>4. \E k \in Unused(s) : \A j \in Unused(s) : k <= j
  BY <1>2, <1>3, LeastNumber
<1>. DEFINE least == CHOOSE k \in Unused(s) : \A j \in Unused(s) : k <= j
<1>5. least \in Unused(s)
  BY <1>4
<1>6. NewEvent(s) = Event(s, least)
  BY DEF NewEvent
<1>. HIDE DEF least
<1>7. Event(s, least) \notin InUse /\ least \in Nat
  BY <1>2, <1>5 DEF Unused
<1>. QED
  BY <1>6, <1>7, EventNames
-----------------------------------------------------------------------------
(* The operations of the other calls.                                      *)

CallOps == ({"wait", "release", "create"} \X SUBSET Slot)
           \cup ({"attach", "detach", "freeif", "selectif", "peek"} \X Ctrl \X Tiles)
           \cup ({"domain", "freehost"} \X Tiles)

\* The operations of other calls, one by one.
LEMMA CallOpsAre ==
  /\ \A S \in SUBSET Slot : /\ <<"wait", S>> \in CallOps
                            /\ <<"release", S>> \in CallOps
                            /\ <<"create", S>> \in CallOps
  /\ \A c \in Ctrl, t \in Tiles :
       /\ <<"attach", c, t>> \in CallOps /\ <<"detach", c, t>> \in CallOps
       /\ <<"freeif", c, t>> \in CallOps /\ <<"selectif", c, t>> \in CallOps
       /\ <<"peek", c, t>> \in CallOps
  /\ \A t \in Tiles : <<"domain", t>> \in CallOps /\ <<"freehost", t>> \in CallOps
  BY DEF CallOps

\* None of them pushes or takes a reference.
LEMMA CallOpFacts ==
  ASSUME NEW o \in CallOps
  PROVE  /\ o[1] \notin {"streamwait", "retain", "push", "share", "record", "synchronize"}
         /\ ~PushesEvent(o)
         /\ o[1] \in {"release", "create"} => o[2] \in SUBSET Slot
  BY SMT DEF CallOps, PushesEvent

\* A round of the loop over all ctrls.
LEMMA LoopFacts ==
  ASSUME NEW op, NEW n \in 0 .. NCtrls, NEW t
  PROVE  /\ Loop(op, n, t) \in Seq({op} \X Ctrl \X {t})
         /\ n = 0 => Loop(op, n, t) = <<>>
         /\ n > 0 => /\ Loop(op, n, t) # <<>>
                     /\ NCtrls - n \in Ctrl /\ n - 1 \in 0 .. NCtrls
                     /\ Head(Loop(op, n, t)) = <<op, NCtrls - n, t>>
                     /\ Tail(Loop(op, n, t)) = Loop(op, n - 1, t)
<1>0. NCtrls \in Nat /\ n \in Nat /\ n <= NCtrls
  BY Names, SMT
<1>1. ASSUME NEW i \in 1 .. n PROVE NCtrls - n + i - 1 \in Ctrl
  BY <1>0, SMT DEF Ctrl
<1>. DEFINE l == Loop(op, n, t)
<1>2. l \in [1 .. n -> {op} \X Ctrl \X {t}]
  BY <1>1 DEF Loop
<1>3. \A i \in 1 .. n : l[i] = <<op, NCtrls - n + i - 1, t>>
  BY DEF Loop
<1>4. n = 0 => l = <<>>
  BY SMT DEF Loop
<1>. HIDE DEF l
<1>5. l \in Seq({op} \X Ctrl \X {t}) /\ Len(l) = n
  BY <1>0, <1>2, SMT
<1>6. ASSUME n > 0
      PROVE  /\ l # <<>> /\ NCtrls - n \in Ctrl /\ n - 1 \in 0 .. NCtrls
             /\ Head(l) = <<op, NCtrls - n, t>>
             /\ Tail(l) = Loop(op, n - 1, t)
  <2>1. l # <<>>
    BY <1>5, <1>6, SMT
  <2>2. NCtrls - n \in Ctrl /\ n - 1 \in 0 .. NCtrls /\ 1 \in 1 .. n /\ n - 1 \in Nat
        /\ NCtrls - n + 1 - 1 = NCtrls - n
    BY <1>0, <1>6, SMT DEF Ctrl
  <2>3. Head(l) = <<op, NCtrls - n, t>>
    <3>1. Head(l) = l[1]
      BY <1>5, <2>1, Tailed
    <3>2. l[1] = <<op, NCtrls - n + 1 - 1, t>>
      BY <1>3, <2>2
    <3>. QED
      BY <2>2, <3>1, <3>2
  <2>4. /\ Tail(l) \in Seq({op} \X Ctrl \X {t}) /\ DOMAIN Tail(l) = 1 .. n - 1
        /\ \A i \in 1 .. n - 1 : Tail(l)[i] = l[i + 1]
    BY <1>5, <2>1, Tailed
  <2>5. Tail(l) = [i \in 1 .. n - 1 |-> Tail(l)[i]]
    <3>. DEFINE r == Tail(l)
                E == {op} \X Ctrl \X {t}
    <3>1. r \in Seq(E) /\ DOMAIN r = 1 .. n - 1
      BY <2>4
    <3>. HIDE DEF r, E
    <3>2. r \in [1 .. Len(r) -> E]
      BY <3>1, LenProperties
    <3>3. r = [i \in DOMAIN r |-> r[i]]
      BY <3>2
    <3>4. r = [i \in 1 .. n - 1 |-> r[i]]
      BY <3>1, <3>3
    <3>. QED
      BY <3>4 DEF r
  <2>6. ASSUME NEW i \in 1 .. n - 1
        PROVE  Tail(l)[i] = <<op, NCtrls - (n - 1) + i - 1, t>>
    <3>1. i + 1 \in 1 .. n /\ NCtrls - n + (i + 1) - 1 = NCtrls - (n - 1) + i - 1
      BY <1>0, SMT
    <3>2. l[i + 1] = <<op, NCtrls - n + (i + 1) - 1, t>>
      BY <1>3, <3>1
    <3>. QED
      BY <2>4, <3>1, <3>2
  <2>7. Tail(l) = [i \in 1 .. n - 1 |-> <<op, NCtrls - (n - 1) + i - 1, t>>]
    BY <2>5, <2>6, Zenon
  <2>. QED
    BY <2>1, <2>2, <2>3, <2>7 DEF Loop
<1>. QED
  BY <1>4, <1>5, <1>6 DEF l

\* A loop over all ctrls has a round left for each.
LEMMA LoopStarts ==
  ASSUME NEW op, NEW t
  PROVE  IfAttached(op, t) = Loop(op, NCtrls, t) /\ NCtrls \in 0 .. NCtrls
<1>1. \A i \in 1 .. NCtrls : i - 1 = NCtrls - NCtrls + i - 1
  BY Names, SMT
<1>2. NCtrls \in 0 .. NCtrls
  BY Names, SMT
<1>. QED
  BY <1>1, <1>2 DEF IfAttached, Loop

\* The main thread does the operation at the head of the call.
LEMMA NextAction ==
  ASSUME MainStep
  PROVE  /\ todo # <<>>
         /\ Head(todo)[1] = "streamwait" => PushWait
         /\ Head(todo)[1] = "retain" => Retain
         /\ Head(todo)[1] = "push" => PushTask
         /\ Head(todo)[1] = "release" => Release
         /\ Head(todo)[1] = "create" => Create
         /\ Head(todo)[1] = "share" => Share
         /\ Head(todo)[1] = "record" => Record
         /\ Head(todo)[1] = "wait" => Wait
         /\ Head(todo)[1] = "synchronize" => Synchronize
         /\ Head(todo)[1] = "domain" => Domain
         /\ Head(todo)[1] = "attach" => Attach
         /\ Head(todo)[1] = "selectif" => SelectIfAttached
         /\ Head(todo)[1] = "peek" => Peek
         /\ Head(todo)[1] = "detach" => Detach
         /\ Head(todo)[1] = "freehost" => FreeHost
         /\ Head(todo)[1] = "freeif" => FreeIfAttached
         /\ Head(todo)[1] \in {"streamwait", "retain", "push", "release", "create", "share",
                               "record", "wait", "synchronize", "domain", "attach",
                               "selectif", "peek", "detach", "freehost", "freeif"}
<1>1. CASE PushWait
  BY <1>1, SMT DEF PushWait, Op
<1>2. CASE Retain
  BY <1>2, SMT DEF Retain, Op
<1>3. CASE PushTask
  BY <1>3, SMT DEF PushTask, Op
<1>4. CASE Release
  BY <1>4, SMT DEF Release, Op
<1>5. CASE Create
  BY <1>5, SMT DEF Create, Op
<1>6. CASE Share
  BY <1>6, SMT DEF Share, Op
<1>7. CASE Record
  BY <1>7, SMT DEF Record, Op
<1>8. CASE Wait
  BY <1>8, SMT DEF Wait, Op
<1>9. CASE Synchronize
  BY <1>9, SMT DEF Synchronize, Op
<1>10. CASE Domain
  BY <1>10, SMT DEF Domain, Op
<1>11. CASE Attach
  BY <1>11, SMT DEF Attach, Op
<1>12. CASE SelectIfAttached
  BY <1>12, SMT DEF SelectIfAttached, Op
<1>13. CASE Peek
  BY <1>13, SMT DEF Peek, Op
<1>14. CASE Detach
  BY <1>14, SMT DEF Detach, Op
<1>15. CASE FreeHost
  BY <1>15, SMT DEF FreeHost, Op
<1>16. CASE FreeIfAttached
  BY <1>16, SMT DEF FreeIfAttached, Op
<1>. QED
  BY <1>1, <1>2, <1>3, <1>4, <1>5, <1>6, <1>7, <1>8, <1>9, <1>10, <1>11, <1>12, <1>13, <1>14, <1>15, <1>16 DEF MainStep
-----------------------------------------------------------------------------
(* The main thread's next operation.                                       *)

\* A launch is over when its local kernel_event is dropped.
LEMMA IdleKernelEvent ==
  ASSUME TodoForm, todo = <<>>
  PROVE  slot[KernelEvent] = NoEvent
<1>1. CASE JobForm
  BY <1>1 DEF JobForm, KernelEventOnce, Drops
<1>2. CASE FreeForm \/ AllocForm \/ SelectForm
  BY <1>2 DEF FreeForm, AllocForm, SelectForm
<1>. QED
  BY <1>1, <1>2 DEF TodoForm

\* No task is about to be pushed with a reference already taken for it.
NoPush == todo # <<>> => ~PushesEvent(Head(todo))

\* The slots with an event.
Holding(e) == {s \in Slot : slot[s] = e}

Counts ==
  /\ \A s \in Slot : slot[s] \in DOMAIN ref_count \cup {NoEvent}
  /\ \A q \in Queue : \A i \in DOMAIN queue[q] :
       queue[q][i].id \in DOMAIN ref_count \cup {NoEvent}
  /\ \A e \in DOMAIN ref_count :
       ref_count[e] = Cardinality(Holding(e)) + Cardinality(TasksWith(e))
                      + (IF ~NoPush /\ slot[Head(todo)[4]] = e THEN 1 ELSE 0)

\* The local kernel_event is empty when it is not in scope, so all slots with
\* an event hold it.
LEMMA CountsAre ==
  TypeInv /\ TodoForm => (CountsExact <=> Counts)
<1>. SUFFICES ASSUME TypeInv, TodoForm PROVE CountsExact <=> Counts
  OBVIOUS
<1>1. ASSUME NEW e \in DOMAIN ref_count PROVE SlotsWith(e) = Holding(e)
  <2>1. e # NoEvent
    BY DEF TypeInv, CountTypes
  <2>2. \A s \in Slot : slot[s] = e /\ s = KernelEvent => todo # <<>>
    BY <2>1, IdleKernelEvent
  <2>. QED
    BY <2>2 DEF SlotsWith, Holding
<1>2. ASSUME NEW e PROVE HoldsNext(e) <=> (~NoPush /\ slot[Head(todo)[4]] = e)
  BY DEF HoldsNext, NoPush, PushesEvent, Op
<1>. QED
  BY <1>1, <1>2 DEF CountsExact, Counts

\* The tasks that hold an event, by queue and number.
TasksNumbered ==
  \A e : /\ TasksWith(e) \subseteq Queue \X Nat
         /\ \A q \in Queue, n \in Nat :
              <<q, n>> \in TasksWith(e)
                <=> /\ n - last_finished[q] \in DOMAIN queue[q]
                    /\ queue[q][n - last_finished[q]].id = e

\* A task is known by its queue and its number in it.
LEMMA TaskMembers == QueueTypes => TasksNumbered
<1>. SUFFICES ASSUME QueueTypes, NEW e
              PROVE  /\ TasksWith(e) \subseteq Queue \X Nat
                     /\ \A q \in Queue, n \in Nat :
                          <<q, n>> \in TasksWith(e)
                            <=> /\ n - last_finished[q] \in DOMAIN queue[q]
                                /\ queue[q][n - last_finished[q]].id = e
  BY DEF TasksNumbered
<1>0. ASSUME NEW q \in Queue
      PROVE  last_finished[q] \in Nat /\ DOMAIN queue[q] \subseteq Nat
  <2>1. queue[q] \in Seq(TaskSet) /\ last_finished[q] \in Nat
    BY DEF QueueTypes
  <2>. QED
    BY <2>1, SMT
<1>1. ASSUME NEW x
      PROVE  x \in TasksWith(e)
               <=> \E q \in Queue : \E i \in DOMAIN queue[q] :
                     queue[q][i].id = e /\ x = <<q, last_finished[q] + i>>
  <2>. DEFINE of(q) == {<<q, last_finished[q] + i>> :
                          i \in {j \in DOMAIN queue[q] : queue[q][j].id = e}}
  <2>1. TasksWith(e) = UNION {of(q) : q \in Queue}
    BY DEF TasksWith
  <2>2. ASSUME NEW q \in Queue
        PROVE  x \in of(q) <=> \E i \in DOMAIN queue[q] :
                     queue[q][i].id = e /\ x = <<q, last_finished[q] + i>>
    OBVIOUS
  <2>. HIDE DEF of
  <2>. QED
    BY <2>1, <2>2
<1>2. TasksWith(e) \subseteq Queue \X Nat
  <2>1. ASSUME NEW x \in TasksWith(e) PROVE x \in Queue \X Nat
    <3>1. PICK q \in Queue : \E i \in DOMAIN queue[q] :
                     queue[q][i].id = e /\ x = <<q, last_finished[q] + i>>
      BY <1>1
    <3>2. PICK i \in DOMAIN queue[q] : x = <<q, last_finished[q] + i>>
      BY <3>1
    <3>3. last_finished[q] + i \in Nat
      BY <1>0, SMT
    <3>. QED
      BY <3>2, <3>3
  <2>. QED
    BY <2>1
<1>3. ASSUME NEW q \in Queue, NEW n \in Nat
      PROVE  <<q, n>> \in TasksWith(e)
               <=> /\ n - last_finished[q] \in DOMAIN queue[q]
                   /\ queue[q][n - last_finished[q]].id = e
  <2>0. last_finished[q] \in Nat /\ DOMAIN queue[q] \subseteq Nat
    BY <1>0
  <2>1. ASSUME <<q, n>> \in TasksWith(e)
        PROVE  /\ n - last_finished[q] \in DOMAIN queue[q]
               /\ queue[q][n - last_finished[q]].id = e
    <3>1. PICK p \in Queue : \E i \in DOMAIN queue[p] :
                     queue[p][i].id = e /\ <<q, n>> = <<p, last_finished[p] + i>>
      BY <1>1, <2>1
    <3>2. PICK i \in DOMAIN queue[p] : queue[p][i].id = e /\ <<q, n>> = <<p, last_finished[p] + i>>
      BY <3>1
    <3>3. p = q /\ n = last_finished[q] + i
      BY <3>2
    <3>4. n - last_finished[q] = i
      <4>1. i \in Nat
        BY <2>0, <3>3
      <4>. QED
        BY <2>0, <3>3, <4>1, SMT
    <3>. QED
      BY <3>2, <3>3, <3>4
  <2>2. ASSUME n - last_finished[q] \in DOMAIN queue[q],
               queue[q][n - last_finished[q]].id = e
        PROVE  <<q, n>> \in TasksWith(e)
    <3>. DEFINE i == n - last_finished[q]
    <3>1. n = last_finished[q] + i
      BY <2>0, SMT
    <3>2. i \in DOMAIN queue[q] /\ queue[q][i].id = e
      BY <2>2
    <3>. HIDE DEF i
    <3>. QED
      BY <1>1, <3>1, <3>2
  <2>. QED
    BY <2>1, <2>2
<1>. QED
  BY <1>2, <1>3

\* Only finitely many tasks hold an event.
LEMMA TasksFinite ==
  QueueTypes => \A e : IsFiniteSet(TasksWith(e))
<1>. SUFFICES ASSUME QueueTypes, NEW e PROVE IsFiniteSet(TasksWith(e))
  OBVIOUS
<1>. DEFINE of == [q \in Queue |-> {<<q, last_finished[q] + i>> :
                      i \in {j \in DOMAIN queue[q] : queue[q][j].id = e}}]
            Family == {of[q] : q \in Queue}
<1>1. ASSUME NEW q \in Queue PROVE IsFiniteSet(of[q])
  <2>. DEFINE J == {j \in DOMAIN queue[q] : queue[q][j].id = e}
              f == [i \in J |-> <<q, last_finished[q] + i>>]
  <2>1. queue[q] \in Seq(TaskSet)
    BY DEF QueueTypes
  <2>2. Len(queue[q]) \in Nat /\ DOMAIN queue[q] = 1 .. Len(queue[q])
    BY <2>1, SMT
  <2>3. IsFiniteSet(DOMAIN queue[q])
    <3>. DEFINE n == Len(queue[q])
    <3>1. n \in Nat /\ DOMAIN queue[q] = 1 .. n
      BY <2>2
    <3>. HIDE DEF n
    <3>2. 1 \in Int /\ n \in Int
      BY <3>1, SMT
    <3>. QED
      BY <3>1, <3>2, FS_Interval
  <2>3a. IsFiniteSet(J)
    <3>1. J \subseteq DOMAIN queue[q]
      OBVIOUS
    <3>. HIDE DEF J
    <3>. QED
      BY <2>3, <3>1, FS_Subset
  <2>4. of[q] = {<<q, last_finished[q] + i>> : i \in J}
    OBVIOUS
  <2>5. f \in [J -> of[q]]
    BY <2>4
  <2>6. \A y \in of[q] : \E i \in J : f[i] = y
    BY <2>4
  <2>. HIDE DEF f, of, J
  <2>. QED
    BY <2>3a, <2>5, <2>6, ImageFinite
<1>2. IsFiniteSet(Family)
  <2>0. DOMAIN of = Queue /\ of = [q \in Queue |-> of[q]]
    OBVIOUS
  <2>. HIDE DEF of
  <2>1. of \in [Queue -> Family] /\ \A y \in Family : \E q \in Queue : of[q] = y
    BY <2>0
  <2>. HIDE DEF Family
  <2>. QED
    BY <2>1, QueuesFinite, ImageFinite
<1>3. \A S \in Family : IsFiniteSet(S)
  <2>. HIDE DEF of
  <2>. QED
    BY <1>1
<1>4. IsFiniteSet(UNION Family)
  <2>. HIDE DEF Family
  <2>. QED
    BY <1>2, <1>3, FS_UNION
<1>5. TasksWith(e) = UNION Family
  BY DEF TasksWith
<1>. HIDE DEF Family
<1>. QED
  BY <1>4, <1>5

\* A task is added behind those of its queue.
LEMMA Appended ==
  ASSUME NEW E, NEW l \in Seq(E), NEW x \in E
  PROVE  /\ Append(l, x) \in Seq(E)
         /\ Len(l) \in Nat /\ Len(Append(l, x)) = Len(l) + 1
         /\ DOMAIN l = 1 .. Len(l) /\ DOMAIN Append(l, x) = 1 .. Len(l) + 1
         /\ \A i \in 1 .. Len(l) : Append(l, x)[i] = l[i]
         /\ Append(l, x)[Len(l) + 1] = x
  BY SMT

\* The tasks of the queues stay when one is pushed.
LEMMA QueuesPushed ==
  ASSUME QueueTypes, NEW q \in Queue, NEW task \in TaskSet, PushOn(q, task)
  PROVE  \A p \in Queue : \A i \in DOMAIN queue'[p] :
           \/ queue'[p][i] = task
           \/ i \in DOMAIN queue[p] /\ queue'[p][i] = queue[p][i]
<1>. DEFINE l == queue[q]
            k == Len(queue[q])
<1>1. /\ l \in Seq(TaskSet)
      /\ queue' = [queue EXCEPT ![q] = Append(l, task)] /\ DOMAIN queue = Queue
  BY DEF QueueTypes, PushOn
<1>2. /\ k \in Nat /\ DOMAIN l = 1 .. k /\ DOMAIN queue'[q] = 1 .. k + 1
      /\ \A i \in 1 .. k : queue'[q][i] = l[i]
      /\ queue'[q][k + 1] = task
  <2>1. queue'[q] = Append(l, task) /\ k = Len(l)
    BY <1>1
  <2>. HIDE DEF l, k
  <2>. QED
    BY <1>1, <2>1, Appended
<1>3. \A p \in Queue : p # q => queue'[p] = queue[p]
  BY <1>1
<1>4. ASSUME NEW p \in Queue, NEW i \in DOMAIN queue'[p]
       PROVE  \/ queue'[p][i] = task
              \/ i \in DOMAIN queue[p] /\ queue'[p][i] = queue[p][i]
  <2>1. CASE p # q
    BY <1>3, <2>1
  <2>2. CASE p = q
    <3>1. i \in 1 .. k \/ i = k + 1
      <4>1. i \in 1 .. k + 1
        BY <1>2, <1>4, <2>2
      <4>. HIDE DEF k
      <4>. QED
        BY <1>2, <4>1, SMT
    <3>. QED
      BY <1>2, <2>2, <3>1
  <2>. QED
    BY <2>1, <2>2
<1>. QED
  BY <1>4

\* A task that is pushed holds its event.
LEMMA TasksPushed ==
  ASSUME QueueTypes, QueueTypes', NEW q \in Queue, NEW task \in TaskSet, PushOn(q, task),
         NEW e
  PROVE  /\ task.id = e => TasksWith(e)' = TasksWith(e) \cup {<<q, pushed[q] + 1>>}
         /\ task.id # e => TasksWith(e)' = TasksWith(e)
         /\ <<q, pushed[q] + 1>> \notin TasksWith(e)
<1>. DEFINE l == queue[q]
            k == Len(queue[q])
            f == last_finished[q]
            new == <<q, pushed[q] + 1>>
<1>1. /\ l \in Seq(TaskSet) /\ f \in Nat /\ pushed[q] = f + k
      /\ queue' = [queue EXCEPT ![q] = Append(l, task)] /\ DOMAIN queue = Queue
      /\ last_finished' = last_finished
  BY DEF QueueTypes, PushOn
<1>2. /\ k \in Nat /\ DOMAIN l = 1 .. k /\ DOMAIN queue'[q] = 1 .. k + 1
      /\ \A i \in 1 .. k : queue'[q][i] = l[i]
      /\ queue'[q][k + 1] = task
  <2>1. queue'[q] = Append(l, task) /\ k = Len(l)
    BY <1>1
  <2>. HIDE DEF l, k
  <2>. QED
    BY <1>1, <2>1, Appended
<1>3. \A p \in Queue : p # q => queue'[p] = queue[p]
  BY <1>1
<1>4. /\ TasksWith(e) \subseteq Queue \X Nat /\ TasksWith(e)' \subseteq Queue \X Nat
      /\ \A p \in Queue, n \in Nat :
           <<p, n>> \in TasksWith(e)
             <=> /\ n - last_finished[p] \in DOMAIN queue[p]
                 /\ queue[p][n - last_finished[p]].id = e
      /\ \A p \in Queue, n \in Nat :
           <<p, n>> \in TasksWith(e)'
             <=> /\ n - last_finished'[p] \in DOMAIN queue'[p]
                 /\ queue'[p][n - last_finished'[p]].id = e
  <2>1. QueueTypes' => TasksNumbered'
    BY TaskMembers, PTL
  <2>. QED
    BY <2>1, TaskMembers DEF TasksNumbered
<1>5. pushed[q] + 1 \in Nat /\ (pushed[q] + 1) - f = k + 1 /\ k + 1 \notin 1 .. k
  <2>. HIDE DEF k, f
  <2>. QED
    BY <1>1, <1>2, SMT
<1>6. new \notin TasksWith(e)
  <2>1. new \in TasksWith(e) <=> (pushed[q] + 1) - f \in DOMAIN l /\ l[(pushed[q] + 1) - f].id = e
    <3>1. \A n \in Nat :
             <<q, n>> \in TasksWith(e) <=> n - f \in DOMAIN l /\ l[n - f].id = e
      BY <1>4
    <3>. DEFINE z == pushed[q] + 1
    <3>2. z \in Nat
      BY <1>5
    <3>. HIDE DEF z
    <3>3. <<q, z>> \in TasksWith(e) <=> z - f \in DOMAIN l /\ l[z - f].id = e
      BY <3>1, <3>2
    <3>. QED
      BY <3>3 DEF z
  <2>. HIDE DEF k, l, f, new
  <2>. QED
    BY <1>2, <1>5, <2>1
<1>7. ASSUME NEW p \in Queue, NEW n \in Nat, <<p, n>> # new
      PROVE  <<p, n>> \in TasksWith(e)' <=> <<p, n>> \in TasksWith(e)
  <2>1. CASE p # q
    BY <1>1, <1>3, <1>4, <2>1
  <2>2. CASE p = q
    <3>. DEFINE m == n - f
    <3>1. n # pushed[q] + 1
      BY <1>7, <2>2
    <3>2. m # k + 1
      <4>. HIDE DEF k, f
      <4>. QED
        BY <1>1, <1>2, <3>1, SMT DEF m
    <3>3. /\ <<q, n>> \in TasksWith(e) <=> m \in DOMAIN l /\ l[m].id = e
          /\ <<q, n>> \in TasksWith(e)' <=> m \in DOMAIN queue'[q] /\ queue'[q][m].id = e
      BY <1>1, <1>4
    <3>4. m \in 1 .. k + 1 <=> m \in 1 .. k
      <4>1. m \in Int
        <5>. HIDE DEF f
        <5>. QED
          BY <1>1, SMT DEF m
      <4>. HIDE DEF k, m
      <4>. QED
        BY <1>2, <3>2, <4>1, SMT
    <3>. HIDE DEF m, k, l, f
    <3>. QED
      BY <1>2, <2>2, <3>3, <3>4
  <2>. QED
    BY <2>1, <2>2
<1>8. new \in TasksWith(e)' <=> task.id = e
  <2>1. k + 1 \in 1 .. k + 1
    <3>. HIDE DEF k
    <3>. QED
      BY <1>2, SMT
  <2>2. new \in TasksWith(e)' <=> k + 1 \in DOMAIN queue'[q] /\ queue'[q][k + 1].id = e
    <3>1. new \in TasksWith(e)' <=> /\ (pushed[q] + 1) - last_finished'[q] \in DOMAIN queue'[q]
                                   /\ queue'[q][(pushed[q] + 1) - last_finished'[q]].id = e
      <4>1. \A n \in Nat :
             <<q, n>> \in TasksWith(e)' <=> /\ n - last_finished'[q] \in DOMAIN queue'[q]
                                                 /\ queue'[q][n - last_finished'[q]].id = e
        BY <1>4
      <4>. DEFINE z == pushed[q] + 1
      <4>2. z \in Nat
        BY <1>5
      <4>. HIDE DEF z
      <4>3. <<q, z>> \in TasksWith(e)' <=> /\ z - last_finished'[q] \in DOMAIN queue'[q]
                                          /\ queue'[q][z - last_finished'[q]].id = e
        BY <4>1, <4>2
      <4>. QED
        BY <4>3 DEF z
    <3>2. (pushed[q] + 1) - last_finished'[q] = k + 1
      BY <1>1, <1>5
    <3>. HIDE DEF k, l, f, new
    <3>. QED
      BY <3>1, <3>2
  <2>. HIDE DEF k, new, l, f
  <2>. QED
    BY <1>2, <2>1, <2>2
<1>9. \A x \in Queue \X Nat : x = <<x[1], x[2]>> /\ x[1] \in Queue /\ x[2] \in Nat
  OBVIOUS
<1>10. new \in Queue \X Nat
  BY <1>5
<1>11. \A x : x # new => (x \in TasksWith(e)' <=> x \in TasksWith(e))
  <2>. HIDE DEF new, l, k, f
  <2>. QED
    BY <1>4, <1>7, <1>9
<1>. HIDE DEF new
<1>13. task.id = e => TasksWith(e)' = TasksWith(e) \cup {new}
  BY <1>8, <1>11
<1>14. task.id # e => TasksWith(e)' = TasksWith(e)
  BY <1>6, <1>8, <1>11
<1>. QED
  BY <1>6, <1>13, <1>14 DEF new

\* A task that is taken holds its event no more.
LEMMA TasksConsumed ==
  ASSUME QueueTypes, QueueTypes', NEW q \in Queue, Consume(q), NEW e
  PROVE  /\ TasksWith(e)' = TasksWith(e) \ {<<q, last_finished[q] + 1>>}
         /\ <<q, last_finished[q] + 1>> \in TasksWith(e) <=> Head(queue[q]).id = e
         /\ Head(queue[q]) \in TaskSet
         /\ 1 \in DOMAIN queue[q] /\ Head(queue[q]) = queue[q][1]
         /\ \A p \in Queue : \A i \in DOMAIN queue'[p] :
              \E j \in DOMAIN queue[p] :
                /\ queue'[p][i] = queue[p][j]
                /\ queue'[p][i].id = e => <<p, last_finished[p] + j>> \in TasksWith(e)'
<1>. DEFINE l == queue[q]
            k == Len(queue[q])
            f == last_finished[q]
            old == <<q, last_finished[q] + 1>>
<1>1. /\ l \in Seq(TaskSet) /\ l # <<>> /\ f \in Nat
      /\ queue' = [queue EXCEPT ![q] = Tail(l)] /\ DOMAIN queue = Queue
      /\ last_finished' = [last_finished EXCEPT ![q] = f + 1] /\ DOMAIN last_finished = Queue
  BY DEF QueueTypes, Consume
<1>2. /\ k \in Nat \ {0} /\ DOMAIN l = 1 .. k /\ DOMAIN queue'[q] = 1 .. k - 1
      /\ \A i \in 1 .. k - 1 : queue'[q][i] = l[i + 1]
      /\ Head(l) = l[1] /\ l[1] \in TaskSet
      /\ last_finished'[q] = f + 1
  <2>1. queue'[q] = Tail(l) /\ k = Len(l) /\ last_finished'[q] = f + 1
    BY <1>1
  <2>. HIDE DEF l, k, f
  <2>. QED
    BY <1>1, <2>1, Tailed
<1>3. \A p \in Queue : p # q => queue'[p] = queue[p] /\ last_finished'[p] = last_finished[p]
  BY <1>1
<1>4. /\ TasksWith(e) \subseteq Queue \X Nat /\ TasksWith(e)' \subseteq Queue \X Nat
      /\ \A p \in Queue, n \in Nat :
           <<p, n>> \in TasksWith(e)
             <=> /\ n - last_finished[p] \in DOMAIN queue[p]
                 /\ queue[p][n - last_finished[p]].id = e
      /\ \A p \in Queue, n \in Nat :
           <<p, n>> \in TasksWith(e)'
             <=> /\ n - last_finished'[p] \in DOMAIN queue'[p]
                 /\ queue'[p][n - last_finished'[p]].id = e
  <2>1. QueueTypes' => TasksNumbered'
    BY TaskMembers, PTL
  <2>. QED
    BY <2>1, TaskMembers DEF TasksNumbered
<1>5. f + 1 \in Nat /\ (f + 1) - f = 1 /\ 1 \in 1 .. k
  <2>. HIDE DEF k, f
  <2>. QED
    BY <1>1, <1>2, SMT
<1>6. old \in TasksWith(e) <=> Head(l).id = e
  <2>1. old \in TasksWith(e) <=> (f + 1) - f \in DOMAIN l /\ l[(f + 1) - f].id = e
    <3>1. \A n \in Nat :
             <<q, n>> \in TasksWith(e) <=> n - f \in DOMAIN l /\ l[n - f].id = e
      BY <1>4
    <3>. DEFINE z == f + 1
    <3>2. z \in Nat
      BY <1>5
    <3>. HIDE DEF z
    <3>3. <<q, z>> \in TasksWith(e) <=> z - f \in DOMAIN l /\ l[z - f].id = e
      BY <3>1, <3>2
    <3>. QED
      BY <3>3 DEF z
  <2>. HIDE DEF k, l, f, old
  <2>. QED
    BY <1>2, <1>5, <2>1
<1>7. ASSUME NEW p \in Queue, NEW n \in Nat
      PROVE  <<p, n>> \in TasksWith(e)' <=> <<p, n>> \in TasksWith(e) /\ <<p, n>> # old
  <2>1. CASE p # q
    BY <1>3, <1>4, <2>1
  <2>2. CASE p = q
    <3>. DEFINE m == n - f
                d == n - (f + 1)
    <3>1. <<p, n>> # old <=> m # 1
      <4>1. <<p, n>> # old <=> n # f + 1
        BY <2>2
      <4>. HIDE DEF f, old
      <4>. QED
        BY <1>1, <4>1, SMT DEF m
    <3>3. /\ <<q, n>> \in TasksWith(e) <=> m \in DOMAIN l /\ l[m].id = e
          /\ <<q, n>> \in TasksWith(e)' <=> d \in DOMAIN queue'[q] /\ queue'[q][d].id = e
      BY <1>2, <1>4
    <3>4. /\ d + 1 = m
          /\ d \in 1 .. k - 1 <=> m \in 1 .. k /\ m # 1
      <4>1. m \in Int /\ d \in Int /\ d + 1 = m
        <5>. HIDE DEF f
        <5>. QED
          BY <1>1, SMT DEF m, d
      <4>. HIDE DEF k, m, d
      <4>. QED
        BY <1>2, <4>1, SMT
    <3>. HIDE DEF m, k, l, f, d, old
    <3>. QED
      BY <1>2, <2>2, <3>1, <3>3, <3>4
  <2>. QED
    BY <2>1, <2>2
<1>9. \A x \in Queue \X Nat : x = <<x[1], x[2]>> /\ x[1] \in Queue /\ x[2] \in Nat
  OBVIOUS
<1>11. \A x : x \in TasksWith(e)' <=> x \in TasksWith(e) /\ x # old
  <2>. HIDE DEF old, l, k, f
  <2>. QED
    BY <1>4, <1>7, <1>9
<1>12. ASSUME NEW p \in Queue, NEW i \in DOMAIN queue'[p]
       PROVE  \E j \in DOMAIN queue[p] :
                /\ queue'[p][i] = queue[p][j]
                /\ queue'[p][i].id = e => <<p, last_finished[p] + j>> \in TasksWith(e)'
  <2>0. last_finished[p] \in Nat /\ DOMAIN queue[p] \subseteq Nat /\ queue[p] \in Seq(TaskSet)
    <3>1. last_finished[p] \in Nat /\ queue[p] \in Seq(TaskSet)
      BY DEF QueueTypes
    <3>. QED
      BY <3>1, SMT
  <2>1. CASE p # q
    <3>1. i \in DOMAIN queue[p] /\ queue'[p] = queue[p] /\ i \in Nat
      BY <1>3, <1>12, <2>0, <2>1
    <3>. DEFINE n == last_finished[p] + i
    <3>2. n \in Nat /\ n - last_finished[p] = i
      BY <2>0, <3>1, SMT
    <3>. HIDE DEF n
    <3>3. queue'[p][i].id = e => <<p, n>> \in TasksWith(e)'
      BY <1>3, <1>4, <2>1, <3>1, <3>2
    <3>. QED
      BY <3>1, <3>3 DEF n
  <2>2. CASE p = q
    <3>1. i \in 1 .. k - 1
      BY <1>2, <1>12, <2>2
    <3>. DEFINE n == f + (i + 1)
    <3>2. i + 1 \in 1 .. k /\ n \in Nat /\ n - (f + 1) = i
      <4>. HIDE DEF k, f
      <4>. QED
        BY <1>1, <1>2, <3>1, SMT DEF n
    <3>3. queue'[p][i] = queue[p][i + 1] /\ i + 1 \in DOMAIN queue[p]
      BY <1>2, <2>2, <3>1, <3>2
    <3>. HIDE DEF n
    <3>4. queue'[p][i].id = e => <<p, n>> \in TasksWith(e)'
      BY <1>2, <1>4, <1>12, <2>2, <3>2
    <3>. QED
      BY <2>2, <3>3, <3>4 DEF n
  <2>. QED
    BY <2>1, <2>2
<1>. HIDE DEF old
<1>13. TasksWith(e)' = TasksWith(e) \ {old}
  BY <1>11
<1>. QED
  BY <1>2, <1>5, <1>6, <1>12, <1>13 DEF old
-----------------------------------------------------------------------------
(* How the operations and the other threads keep the counts.               *)

\* How many slots and tasks hold an event is a number.
LEMMA Sizes ==
  ASSUME TypeInv, NEW e
  PROVE  /\ IsFiniteSet(Holding(e)) /\ Cardinality(Holding(e)) \in Nat
         /\ IsFiniteSet(TasksWith(e)) /\ Cardinality(TasksWith(e)) \in Nat
<1>1. IsFiniteSet(Holding(e))
  <2>1. Holding(e) \subseteq Slot
    BY DEF Holding
  <2>. QED
    BY <2>1, SlotsFinite, FS_Subset
<1>2. IsFiniteSet(TasksWith(e))
  BY TasksFinite DEF TypeInv
<1>. QED
  BY <1>1, <1>2, FS_CardinalityType

\* A set grows by one element it did not have, or loses one it had.
LEMMA OneMoreOrLess ==
  ASSUME NEW S, IsFiniteSet(S), NEW x
  PROVE  /\ x \notin S => Cardinality(S \cup {x}) = Cardinality(S) + 1
         /\ x \in S => Cardinality(S \ {x}) = Cardinality(S) - 1 /\ Cardinality(S) > 0
         /\ x \notin S => Cardinality(S \ {x}) = Cardinality(S)
<1>1. x \notin S => Cardinality(S \cup {x}) = Cardinality(S) + 1
  BY FS_AddElement
<1>2. x \in S => Cardinality(S \ {x}) = Cardinality(S) - 1
  BY FS_RemoveElement
<1>3. x \in S => Cardinality(S) > 0
  BY FS_EmptySet, FS_CardinalityType, SMT
<1>4. x \notin S => S \ {x} = S
  OBVIOUS
<1>. QED
  BY <1>1, <1>2, <1>3, <1>4

\* An operation on neither events nor queues.
LEMMA CountsKept ==
  ASSUME TypeInv, Counts, NoPush, NoPush', slot' = slot, ref_count' = ref_count,
         UNCHANGED queueVars
  PROVE  Counts'
<1>1. queue' = queue /\ last_finished' = last_finished
  BY DEF queueVars
<1>2. \A e : TasksWith(e)' = TasksWith(e) /\ Holding(e)' = Holding(e)
  BY <1>1 DEF TasksWith, Holding
<1>. QED
  BY <1>1, <1>2 DEF Counts

\* The reference of a task that is pushed next.
LEMMA CountsRetained ==
  ASSUME TypeInv, Counts, NoPush, NoPush' = FALSE, slot' = slot, UNCHANGED queueVars,
         NEW s \in Slot, ref_count' = Retained(slot[s]), Head(todo')[4] = s
  PROVE  Counts'
<1>1. queue' = queue /\ last_finished' = last_finished
  BY DEF queueVars
<1>2. \A e : TasksWith(e)' = TasksWith(e) /\ Holding(e)' = Holding(e)
  BY <1>1 DEF TasksWith, Holding
<1>3. DOMAIN ref_count' = DOMAIN ref_count
  BY DEF Retained
<1>4. ASSUME NEW e \in DOMAIN ref_count
      PROVE  ref_count'[e] = Cardinality(Holding(e)') + Cardinality(TasksWith(e)')
                             + (IF slot[s] = e THEN 1 ELSE 0)
  <2>. DEFINE H == Cardinality(Holding(e))
              T == Cardinality(TasksWith(e))
  <2>1. H \in Nat /\ T \in Nat
    BY Sizes
  <2>2. ref_count[e] = H + T + 0
    BY DEF Counts
  <2>3. ref_count'[e] = IF slot[s] = e THEN ref_count[e] + 1 ELSE ref_count[e]
    BY DEF Retained
  <2>4. Cardinality(Holding(e)') = H /\ Cardinality(TasksWith(e)') = T
    BY <1>2
  <2>. HIDE DEF H, T
  <2>. QED
    BY <2>1, <2>2, <2>3, <2>4, SMT
<1>. QED
  BY <1>1, <1>3, <1>4 DEF Counts

\* A task that is pushed holds an event with a reference of its own, or with
\* the one that was taken for it.
LEMMA CountsPushed ==
  ASSUME TypeInv, QueueTypes', Counts, NoPush', slot' = slot,
         NEW q \in Queue, NEW task \in TaskSet, PushOn(q, task),
         task.id \in DOMAIN ref_count \cup {NoEvent},
         DOMAIN ref_count' = DOMAIN ref_count,
         \A e \in DOMAIN ref_count :
           ref_count'[e] + (IF ~NoPush /\ slot[Head(todo)[4]] = e THEN 1 ELSE 0)
             = ref_count[e] + (IF task.id = e THEN 1 ELSE 0),
         ref_count' \in [DOMAIN ref_count -> Nat]
  PROVE  Counts'
<1>0. QueueTypes
  BY DEF TypeInv
<1>1. \A e : Holding(e)' = Holding(e)
  BY DEF Holding
<1>2. ASSUME NEW e \in DOMAIN ref_count
      PROVE  ref_count'[e] = Cardinality(Holding(e)') + Cardinality(TasksWith(e)')
  <2>. DEFINE H == Cardinality(Holding(e))
              T == Cardinality(TasksWith(e))
              T2 == Cardinality(TasksWith(e)')
              r == ref_count[e]
              r2 == ref_count'[e]
              next == IF ~NoPush /\ slot[Head(todo)[4]] = e THEN 1 ELSE 0
  <2>1. H \in Nat /\ T \in Nat /\ r2 \in Nat
    BY Sizes
  <2>2. r = H + T + next
    BY DEF Counts
  <2>3. r2 + next = r + (IF task.id = e THEN 1 ELSE 0)
    OBVIOUS
  <2>4. T2 = T + (IF task.id = e THEN 1 ELSE 0)
    <3>1. CASE task.id = e
      <4>. DEFINE x == <<q, pushed[q] + 1>>
      <4>1. TasksWith(e)' = TasksWith(e) \cup {x} /\ x \notin TasksWith(e)
        BY <1>0, <3>1, TasksPushed
      <4>. HIDE DEF x
      <4>2. Cardinality(TasksWith(e) \cup {x}) = T + 1
        BY <4>1, Sizes, OneMoreOrLess
      <4>. QED
        BY <3>1, <4>1, <4>2
    <3>2. CASE task.id # e
      <4>1. TasksWith(e)' = TasksWith(e)
        BY <1>0, <3>2, TasksPushed
      <4>2. T2 = T
        BY <4>1
      <4>. HIDE DEF T2, T
      <4>. QED
        BY <2>1, <3>2, <4>2, SMT
    <3>. QED
      BY <3>1, <3>2
  <2>5. Cardinality(Holding(e)') = H
    BY <1>1
  <2>6. next \in {0, 1}
    OBVIOUS
  <2>. HIDE DEF H, T, T2, r, r2, next
  <2>7. r2 = H + T2
    BY <2>1, <2>2, <2>3, <2>4, <2>6, SMT
  <2>. QED
    BY <2>5, <2>7 DEF T2, r2
<1>3. \A s \in Slot : slot'[s] \in DOMAIN ref_count' \cup {NoEvent}
  BY DEF Counts
<1>4. ASSUME NEW p \in Queue, NEW i \in DOMAIN queue'[p]
      PROVE  queue'[p][i].id \in DOMAIN ref_count' \cup {NoEvent}
  <2>1. \/ queue'[p][i] = task
        \/ i \in DOMAIN queue[p] /\ queue'[p][i] = queue[p][i]
    BY <1>0, QueuesPushed
  <2>. QED
    BY <2>1 DEF Counts
<1>5. \A e \in DOMAIN ref_count : 
        /\ Cardinality(Holding(e)') \in Nat /\ Cardinality(TasksWith(e)') \in Nat
        /\ ref_count'[e] = Cardinality(Holding(e)') + Cardinality(TasksWith(e)') + 0
  <2>1. ASSUME NEW e \in DOMAIN ref_count
        PROVE  /\ Cardinality(Holding(e)') \in Nat /\ Cardinality(TasksWith(e)') \in Nat
               /\ ref_count'[e] = Cardinality(Holding(e)') + Cardinality(TasksWith(e)') + 0
    <3>1. Cardinality(Holding(e)') \in Nat
      BY <1>1, Sizes
    <3>2. Cardinality(TasksWith(e)') \in Nat
      <4>1. IsFiniteSet(TasksWith(e)')
        <5>1. TasksWith(e)' \subseteq TasksWith(e) \cup {<<q, pushed[q] + 1>>}
          BY <1>0, TasksPushed
        <5>2. IsFiniteSet(TasksWith(e) \cup {<<q, pushed[q] + 1>>})
          BY Sizes, FS_AddElement
        <5>. QED
          BY <5>1, <5>2, FS_Subset
      <4>. QED
        BY <4>1, FS_CardinalityType
    <3>. DEFINE H == Cardinality(Holding(e)')
                T == Cardinality(TasksWith(e)')
    <3>3. ref_count'[e] = H + T
      BY <1>2
    <3>. HIDE DEF H, T
    <3>4. H \in Nat /\ T \in Nat
      BY <3>1, <3>2 DEF H, T
    <3>5. H + T = H + T + 0
      BY <3>4, SMT
    <3>. QED
      BY <3>3, <3>4, <3>5 DEF H, T
  <2>. QED
    BY <2>1
<1>. QED
  BY <1>3, <1>4, <1>5 DEF Counts

\* A release takes one reference for each slot it empties.
LEMMA CountsReleased ==
  ASSUME TypeInv, Counts, NoPush, NoPush', UNCHANGED queueVars, NEW S \in SUBSET Slot,
         slot' = [s \in Slot |-> IF s \in S THEN NoEvent ELSE slot[s]],
         ref_count' = Released([e \in DOMAIN ref_count |-> Cardinality({s \in S : slot[s] = e})])
  PROVE  Counts'
<1>. DEFINE n == [e \in DOMAIN ref_count |-> Cardinality({s \in S : slot[s] = e})]
<1>0. queue' = queue /\ last_finished' = last_finished
  BY DEF queueVars
<1>1. /\ DOMAIN ref_count' = {e \in DOMAIN ref_count : ref_count[e] > n[e]}
      /\ \A e \in DOMAIN ref_count' : ref_count'[e] = ref_count[e] - n[e]
  BY DEF Released
<1>2. \A e : TasksWith(e)' = TasksWith(e)
  BY <1>0 DEF TasksWith
<1>3. ASSUME NEW e \in DOMAIN ref_count
      PROVE  /\ Holding(e)' = Holding(e) \ S
             /\ IsFiniteSet(Holding(e)') /\ Cardinality(Holding(e)') \in Nat
             /\ n[e] \in Nat
             /\ Cardinality(Holding(e)') = Cardinality(Holding(e)) - n[e]
             /\ ref_count[e] = Cardinality(Holding(e)) + Cardinality(TasksWith(e))
  <2>1. e # NoEvent
    BY DEF TypeInv, CountTypes
  <2>2. Holding(e)' = Holding(e) \ S
    BY <2>1 DEF Holding
  <2>3. {s \in S : slot[s] = e} = Holding(e) \cap S
    BY DEF Holding
  <2>4. n[e] = Cardinality(Holding(e) \cap S)
    BY <2>3
  <2>. HIDE DEF n
  <2>5. /\ IsFiniteSet(Holding(e) \ S) /\ IsFiniteSet(Holding(e) \cap S)
        /\ Cardinality(Holding(e) \ S) = Cardinality(Holding(e)) - Cardinality(Holding(e) \cap S)
    BY Sizes, FS_Difference, FS_Intersection
  <2>6. Cardinality(Holding(e) \ S) \in Nat /\ Cardinality(Holding(e) \cap S) \in Nat
    BY <2>5, FS_CardinalityType
  <2>7. ref_count[e] = Cardinality(Holding(e)) + Cardinality(TasksWith(e))
    <3>. DEFINE H == Cardinality(Holding(e))
                T == Cardinality(TasksWith(e))
    <3>1. ref_count[e] = H + T + 0
      BY DEF Counts
    <3>2. H \in Nat /\ T \in Nat
      BY Sizes
    <3>. HIDE DEF H, T
    <3>3. ref_count[e] = H + T
      BY <3>1, <3>2, SMT
    <3>. QED
      BY <3>3 DEF H, T
  <2>. QED
    BY <2>2, <2>4, <2>5, <2>6, <2>7
<1>. HIDE DEF n
<1>4. ASSUME NEW e \in DOMAIN ref_count
      PROVE  /\ e \in DOMAIN ref_count'
                  <=> Cardinality(Holding(e)') + Cardinality(TasksWith(e)) > 0
             /\ e \in DOMAIN ref_count' =>
                  ref_count'[e] = Cardinality(Holding(e)') + Cardinality(TasksWith(e)') + 0
  <2>. DEFINE H == Cardinality(Holding(e))
              T == Cardinality(TasksWith(e))
              H2 == Cardinality(Holding(e)')
              r == ref_count[e]
              m == n[e]
  <2>1. H \in Nat /\ T \in Nat /\ H2 \in Nat /\ m \in Nat
    BY <1>3, Sizes
  <2>2. H2 = H - m /\ r = H + T
    BY <1>3
  <2>3. e \in DOMAIN ref_count' <=> r > m
    BY <1>1
  <2>4. e \in DOMAIN ref_count' => ref_count'[e] = r - m
    BY <1>1
  <2>5. Cardinality(TasksWith(e)') = T
    BY <1>2
  <2>. HIDE DEF H, T, H2, r, m
  <2>6. r > m <=> H2 + T > 0
    BY <2>1, <2>2, SMT
  <2>7. r - m = H2 + T + 0
    BY <2>1, <2>2, SMT
  <2>. QED
    BY <2>3, <2>4, <2>5, <2>6, <2>7 DEF H2, T
<1>5. ASSUME NEW s \in Slot
      PROVE  slot'[s] \in DOMAIN ref_count' \cup {NoEvent}
  <2>1. CASE s \in S \/ slot[s] = NoEvent
    BY <2>1
  <2>2. CASE s \notin S /\ slot[s] # NoEvent
    <3>0. PICK e : e = slot[s]
      OBVIOUS
    <3>1. slot'[s] = e
      BY <2>2, <3>0
    <3>2. e \in DOMAIN ref_count
      BY <2>2, <3>0 DEF Counts
    <3>3. s \in Holding(e)'
      BY <3>1 DEF Holding
    <3>4. IsFiniteSet(Holding(e)') /\ Cardinality(TasksWith(e)) \in Nat
      BY <1>3, <3>2, Sizes
    <3>5. Cardinality(Holding(e)') > 0 /\ Cardinality(Holding(e)') \in Nat
      BY <3>3, <3>4, OneMoreOrLess, FS_CardinalityType
    <3>6. Cardinality(Holding(e)') + Cardinality(TasksWith(e)) > 0
      <4>. DEFINE H2 == Cardinality(Holding(e)')
                  T == Cardinality(TasksWith(e))
      <4>1. H2 > 0 /\ H2 \in Nat /\ T \in Nat
        BY <3>4, <3>5
      <4>. HIDE DEF H2, T
      <4>2. H2 + T > 0
        BY <4>1, SMT
      <4>. QED
        BY <4>2 DEF H2, T
    <3>7. e \in DOMAIN ref_count'
      BY <1>4, <3>2, <3>6
    <3>. QED
      BY <3>1, <3>7
  <2>. QED
    BY <2>1, <2>2
<1>6. ASSUME NEW q \in Queue, NEW i \in DOMAIN queue[q]
      PROVE  queue[q][i].id \in DOMAIN ref_count' \cup {NoEvent}
  <2>0. PICK e : e = queue[q][i].id
    OBVIOUS
  <2>1. CASE e = NoEvent
    BY <2>0, <2>1
  <2>2. CASE e # NoEvent
    <3>1. e \in DOMAIN ref_count
      BY <2>0, <2>2 DEF Counts
    <3>2. TasksWith(e) # {}
      <4>1. <<q, last_finished[q] + i>> \in TasksWith(e)
        BY <2>0 DEF TasksWith
      <4>. QED
        BY <4>1
    <3>4. /\ Cardinality(Holding(e)') \in Nat /\ Cardinality(TasksWith(e)) \in Nat
          /\ IsFiniteSet(TasksWith(e))
      BY <1>3, <3>1, Sizes
    <3>5. Cardinality(TasksWith(e)) > 0
      BY <3>2, <3>4, OneMoreOrLess
    <3>6. Cardinality(Holding(e)') + Cardinality(TasksWith(e)) > 0
      <4>. DEFINE H2 == Cardinality(Holding(e)')
                  T == Cardinality(TasksWith(e))
      <4>1. T > 0 /\ H2 \in Nat /\ T \in Nat
        BY <3>4, <3>5
      <4>. HIDE DEF H2, T
      <4>2. H2 + T > 0
        BY <4>1, SMT
      <4>. QED
        BY <4>2 DEF H2, T
    <3>7. e \in DOMAIN ref_count'
      BY <1>4, <3>1, <3>6
    <3>. QED
      BY <2>0, <3>7
  <2>. QED
    BY <2>1, <2>2
<1>7. \A e \in DOMAIN ref_count' : e \in DOMAIN ref_count
  BY <1>1
<1>8. \A e \in DOMAIN ref_count' :
        ref_count'[e] = Cardinality(Holding(e)') + Cardinality(TasksWith(e)') + 0
  BY <1>4, <1>7
<1>9. \A q \in Queue : \A i \in DOMAIN queue'[q] :
        queue'[q][i].id \in DOMAIN ref_count' \cup {NoEvent}
  BY <1>0, <1>6
<1>. QED
  BY <1>5, <1>8, <1>9 DEF Counts

\* A task that is taken gives up its reference.
LEMMA CountsConsumed ==
  ASSUME TypeInv, QueueTypes', Counts, NEW q \in Queue, Consume(q)
  PROVE  Counts'
<1>. DEFINE id == Head(queue[q]).id
            x == <<q, last_finished[q] + 1>>
<1>0. QueueTypes
  BY DEF TypeInv
<1>1. /\ slot' = slot /\ todo' = todo
      /\ ref_count' = Released([e \in DOMAIN ref_count |-> IF e = id THEN 1 ELSE 0])
  BY DEF Consume, slotVars
<1>. DEFINE next(e) == IF ~NoPush /\ slot[Head(todo)[4]] = e THEN 1 ELSE 0
<1>2. NoPush' = NoPush /\ \A e : Holding(e)' = Holding(e)
  BY <1>1 DEF NoPush, Holding
<1>3. ASSUME NEW e
      PROVE  /\ TasksWith(e)' = TasksWith(e) \ {x}
             /\ x \in TasksWith(e) <=> id = e
  BY <1>0, TasksConsumed
<1>. HIDE DEF x, id
<1>4. ASSUME NEW e \in DOMAIN ref_count
      PROVE  /\ e \in DOMAIN ref_count' <=> 
                   Cardinality(Holding(e)) + Cardinality(TasksWith(e)') + next(e) > 0
             /\ e \in DOMAIN ref_count' =>
                  ref_count'[e] = Cardinality(Holding(e)) + Cardinality(TasksWith(e)') + next(e)
             /\ IsFiniteSet(TasksWith(e)')
             /\ Cardinality(Holding(e)) \in Nat /\ Cardinality(TasksWith(e)') \in Nat
             /\ next(e) \in {0, 1}
  <2>. DEFINE H == Cardinality(Holding(e))
              T == Cardinality(TasksWith(e))
              T2 == Cardinality(TasksWith(e)')
              r == ref_count[e]
              m == IF e = id THEN 1 ELSE 0
              k == next(e)
  <2>1. IsFiniteSet(TasksWith(e)')
    BY <1>3, Sizes, FS_Subset
  <2>2. H \in Nat /\ T \in Nat /\ T2 \in Nat /\ k \in {0, 1} /\ m \in {0, 1}
    BY <2>1, Sizes, FS_CardinalityType
  <2>3. T2 = T - m
    <3>1. CASE e = id
      <4>1. Cardinality(TasksWith(e) \ {x}) = T - 1
        BY <1>3, <3>1, Sizes, OneMoreOrLess
      <4>2. T2 = T - 1
        BY <1>3, <4>1
      <4>. QED
        BY <3>1, <4>2
    <3>2. CASE e # id
      <4>1. T2 = T
        <5>1. TasksWith(e)' = TasksWith(e)
          BY <1>3, <3>2
        <5>. QED
          BY <5>1
      <4>2. m = 0
        BY <3>2
      <4>. HIDE DEF T2, T, m
      <4>. QED
        BY <2>2, <4>1, <4>2, SMT
    <3>. QED
      BY <3>1, <3>2
  <2>4. r = H + T + k
    BY DEF Counts
  <2>5. e \in DOMAIN ref_count' <=> r > m
    BY <1>1 DEF Released
  <2>6. e \in DOMAIN ref_count' => ref_count'[e] = r - m
    BY <1>1 DEF Released
  <2>. HIDE DEF H, T, T2, r, m, k, next
  <2>7. r > m <=> H + T2 + k > 0
    BY <2>2, <2>3, <2>4, SMT
  <2>8. r - m = H + T2 + k
    BY <2>2, <2>3, <2>4, SMT
  <2>. QED
    BY <2>1, <2>2, <2>5, <2>6, <2>7, <2>8 DEF H, T2, k
<1>5. \A e \in DOMAIN ref_count' : e \in DOMAIN ref_count
  BY <1>1 DEF Released
<1>6. ASSUME NEW e \in DOMAIN ref_count, Holding(e) # {} \/ TasksWith(e)' # {}
      PROVE  e \in DOMAIN ref_count'
  <2>. DEFINE H == Cardinality(Holding(e))
              T2 == Cardinality(TasksWith(e)')
              k == next(e)
  <2>1. H \in Nat /\ T2 \in Nat /\ k \in {0, 1}
    BY <1>4
  <2>2. H > 0 \/ T2 > 0
    BY <1>4, <1>6, Sizes, OneMoreOrLess
  <2>. HIDE DEF H, T2, k, next
  <2>3. H + T2 + k > 0
    BY <2>1, <2>2, SMT
  <2>. QED
    BY <1>4, <2>3 DEF H, T2, k
<1>7. ASSUME NEW s \in Slot
      PROVE  slot'[s] \in DOMAIN ref_count' \cup {NoEvent}
  <2>0. PICK e : e = slot[s]
    OBVIOUS
  <2>1. Holding(e) # {}
    BY <2>0 DEF Holding
  <2>2. e \in DOMAIN ref_count \cup {NoEvent}
    BY <2>0 DEF Counts
  <2>. QED
    BY <1>1, <1>6, <2>0, <2>1, <2>2
<1>8. ASSUME NEW p \in Queue, NEW i \in DOMAIN queue'[p]
      PROVE  queue'[p][i].id \in DOMAIN ref_count' \cup {NoEvent}
  <2>0. PICK e : e = queue'[p][i].id
    OBVIOUS
  <2>1. PICK j \in DOMAIN queue[p] :
                /\ queue'[p][i] = queue[p][j]
                /\ queue'[p][i].id = e => <<p, last_finished[p] + j>> \in TasksWith(e)'
    BY <1>0, TasksConsumed
  <2>2. e \in DOMAIN ref_count \cup {NoEvent}
    BY <2>0, <2>1 DEF Counts
  <2>3. TasksWith(e)' # {}
    BY <2>0, <2>1
  <2>4. e \in DOMAIN ref_count' \cup {NoEvent}
    BY <1>6, <2>2, <2>3
  <2>. QED
    BY <2>0, <2>4
<1>9. ASSUME NEW e \in DOMAIN ref_count'
      PROVE  ref_count'[e] = Cardinality(Holding(e)') + Cardinality(TasksWith(e)')
                             + (IF ~NoPush' /\ slot'[Head(todo')[4]] = e THEN 1 ELSE 0)
  <2>1. ref_count'[e] = Cardinality(Holding(e)) + Cardinality(TasksWith(e)') + next(e)
    BY <1>4, <1>5
  <2>. QED
    BY <1>1, <1>2, <2>1
<1>. HIDE DEF next
<1>. QED
  BY <1>7, <1>8, <1>9 DEF Counts

\* A slot that is assigned the event of another takes a reference.
LEMMA CountsShared ==
  ASSUME TypeInv, Counts, NoPush, NoPush', UNCHANGED queueVars,
         NEW d \in Slot, NEW s \in Slot, slot[d] = NoEvent,
         slot' = [slot EXCEPT ![d] = slot[s]], ref_count' = Retained(slot[s])
  PROVE  Counts'
<1>0. queue' = queue /\ last_finished' = last_finished
  BY DEF queueVars
<1>1. \A e : TasksWith(e)' = TasksWith(e)
  BY <1>0 DEF TasksWith
<1>2. DOMAIN ref_count' = DOMAIN ref_count
  BY DEF Retained
<1>3. DOMAIN slot = Slot
  BY DEF TypeInv
<1>4. ASSUME NEW e \in DOMAIN ref_count
      PROVE  ref_count'[e] = Cardinality(Holding(e)') + Cardinality(TasksWith(e)') + 0
  <2>0. e # NoEvent
    BY DEF TypeInv, CountTypes
  <2>. DEFINE H == Cardinality(Holding(e))
              H2 == Cardinality(Holding(e)')
              T == Cardinality(TasksWith(e))
              r == ref_count[e]
              m == IF slot[s] = e THEN 1 ELSE 0
  <2>1. H \in Nat /\ T \in Nat
    BY Sizes
  <2>2. r = H + T + 0
    BY DEF Counts
  <2>3. m \in {0, 1} /\ H2 = H + m
    <3>1. CASE slot[s] = e
      <4>1. Holding(e)' = Holding(e) \cup {d} /\ d \notin Holding(e)
        BY <1>3, <2>0, <3>1 DEF Holding
      <4>2. Cardinality(Holding(e) \cup {d}) = H + 1
        BY <4>1, Sizes, OneMoreOrLess
      <4>. QED
        BY <3>1, <4>1, <4>2
    <3>2. CASE slot[s] # e
      <4>1. Holding(e)' = Holding(e)
        BY <1>3, <2>0, <3>2 DEF Holding
      <4>2. H2 = H /\ m = 0
        BY <3>2, <4>1
      <4>. HIDE DEF H, H2, m
      <4>. QED
        BY <2>1, <4>2, SMT
    <3>. QED
      BY <3>1, <3>2
  <2>4. ref_count'[e] = IF slot[s] = e THEN r + 1 ELSE r
    BY DEF Retained
  <2>5. Cardinality(TasksWith(e)') = T
    BY <1>1
  <2>6. ref_count'[e] = r + m
    <3>1. r \in Nat
      BY DEF TypeInv, CountTypes
    <3>2. m = IF slot[s] = e THEN 1 ELSE 0
      OBVIOUS
    <3>. HIDE DEF r, m
    <3>. QED
      BY <2>4, <3>1, <3>2, SMT
  <2>. HIDE DEF H, H2, T, r, m
  <2>7. ref_count'[e] = H2 + T + 0
    BY <2>1, <2>2, <2>3, <2>6, SMT
  <2>. QED
    BY <2>5, <2>7 DEF H2
<1>5. ASSUME NEW x \in Slot PROVE slot'[x] \in DOMAIN ref_count' \cup {NoEvent}
  BY <1>2, <1>3 DEF Counts
<1>. QED
  BY <1>0, <1>2, <1>4, <1>5 DEF Counts

\* Events that are created have one slot each, and nobody else has them.
LEMMA CountsCreated ==
  ASSUME TypeInv, Counts, NoPush, NoPush', UNCHANGED queueVars, NEW S \in SUBSET Slot,
         Empty(S),
         slot' = [s \in Slot |-> IF s \in S THEN NewEvent(s) ELSE slot[s]],
         ref_count' = [e \in DOMAIN ref_count \cup {NewEvent(s) : s \in S} |->
                         IF e \in DOMAIN ref_count THEN ref_count[e] ELSE 1]
  PROVE  Counts'
<1>0. queue' = queue /\ last_finished' = last_finished
  BY DEF queueVars
<1>1. \A e : TasksWith(e)' = TasksWith(e)
  BY <1>0 DEF TasksWith
<1>2. ASSUME NEW s \in S
      PROVE  /\ NewEvent(s) \notin DOMAIN ref_count /\ NewEvent(s) # NoEvent
             /\ \E k \in Nat : NewEvent(s) = Event(s, k)
  <2>1. s \in Slot /\ CountTypes /\ QueueTypes
    BY DEF TypeInv
  <2>2. NewEvent(s) \notin InUse
    BY <2>1, NewEventUnused
  <2>3. NewEvent(s) \notin DOMAIN ref_count
    BY <2>2 DEF InUse
  <2>. QED
    BY <2>1, <2>3, NewEventUnused
<1>3. ASSUME NEW e \in DOMAIN ref_count
      PROVE  ref_count'[e] = Cardinality(Holding(e)') + Cardinality(TasksWith(e)') + 0
  <2>1. e # NoEvent
    BY DEF TypeInv, CountTypes
  <2>2. Holding(e)' = Holding(e)
    <3>1. \A s \in S : slot[s] # e /\ slot'[s] # e
      BY <1>2, <2>1 DEF Empty
    <3>2. \A s \in Slot \ S : slot'[s] = slot[s]
      OBVIOUS
    <3>. QED
      BY <3>1, <3>2 DEF Holding
  <2>3. ref_count'[e] = ref_count[e]
    OBVIOUS
  <2>. QED
    BY <1>1, <2>2, <2>3 DEF Counts
<1>4. ASSUME NEW e \in DOMAIN ref_count', e \notin DOMAIN ref_count
      PROVE  ref_count'[e] = Cardinality(Holding(e)') + Cardinality(TasksWith(e)') + 0
  <2>1. PICK s \in S : e = NewEvent(s)
    BY <1>4
  <2>2. e # NoEvent /\ ref_count'[e] = 1
    BY <1>2, <1>4, <2>1
  <2>3. TasksWith(e) = {}
    <3>1. \A q \in Queue : \A i \in DOMAIN queue[q] : queue[q][i].id # e
      BY <1>4, <2>2 DEF Counts
    <3>. QED
      BY <3>1 DEF TasksWith
  <2>4. Holding(e)' = {s}
    <3>1. ASSUME NEW r \in Slot, slot'[r] = e PROVE r = s
      <4>1. CASE r \in S
        <5>1. PICK j \in Nat : NewEvent(r) = Event(r, j)
          BY <1>2, <4>1
        <5>2. PICK k \in Nat : NewEvent(s) = Event(s, k)
          BY <1>2
        <5>3. Event(r, j) = Event(s, k) /\ s \in Slot /\ j \in Int /\ k \in Int
          BY <2>1, <3>1, <4>1, <5>1, <5>2, SMT
        <5>. QED
          BY <5>3, EventNames
      <4>2. CASE r \notin S
        BY <1>4, <2>2, <3>1, <4>2 DEF Counts
      <4>. QED
        BY <4>1, <4>2
    <3>2. s \in Slot /\ slot'[s] = e
      BY <2>1
    <3>. QED
      BY <3>1, <3>2 DEF Holding
  <2>5. Cardinality(Holding(e)') = 1 /\ Cardinality(TasksWith(e)') = 0
    BY <1>1, <2>3, <2>4, FS_Singleton, FS_EmptySet
  <2>. DEFINE H == Cardinality(Holding(e)')
              T == Cardinality(TasksWith(e)')
  <2>6. H = 1 /\ T = 0
    BY <2>5
  <2>. HIDE DEF H, T
  <2>7. H + T + 0 = 1
    BY <2>6, SMT
  <2>. QED
    BY <2>2, <2>7 DEF H, T
<1>5. ASSUME NEW x \in Slot PROVE slot'[x] \in DOMAIN ref_count' \cup {NoEvent}
  BY DEF Counts
<1>6. ASSUME NEW q \in Queue, NEW i \in DOMAIN queue'[q]
      PROVE  queue'[q][i].id \in DOMAIN ref_count' \cup {NoEvent}
  BY <1>0 DEF Counts
<1>. QED
  BY <1>3, <1>4, <1>5, <1>6 DEF Counts
-----------------------------------------------------------------------------
(* The operations left of a job, step by step.                             *)

\* The next operation of a job.
LEMMA JobHead ==
  ASSUME JobForm, todo # <<>>
  PROVE  /\ Head(todo) \in JobOps /\ TouchedBy(Head(todo)) \subseteq records
         /\ Head(todo)[1] = "create" => Empty(Head(todo)[2])
         /\ Head(todo)[1] = "share" => slot[Head(todo)[2]] = NoEvent
         /\ Head(todo)[1] # "retain" =>
              (Tail(todo) # <<>> => ~PushesEvent(Head(Tail(todo))))
         /\ Head(todo)[1] = "retain" => /\ Tail(todo) # <<>> /\ PushesEvent(Head(Tail(todo)))
                                        /\ Head(Tail(todo))[4] = Head(todo)[2]
<1>. DEFINE o == Head(todo)
            next == Head(Tail(todo))
<1>1. /\ JobList(todo) /\ Empty(TileFills(o)) /\ KernelEventOnce(todo)
  BY DEF JobForm
<1>2. /\ o \in JobOps /\ TouchedBy(o) \subseteq records
      /\ Tail(todo) # <<>> => Follows(o, next)
      /\ o[1] = "retain" => Tail(todo) # <<>>
      /\ NoKernelEvent(todo) => KernelEvent \notin Fills(o)
  BY <1>1, JobTailed
<1>. HIDE DEF o, next
<1>3. KernelEvent \in Fills(o) => slot[KernelEvent] = NoEvent
  BY <1>1, <1>2 DEF KernelEventOnce
<1>4. Empty(Fills(o))
  BY <1>1, <1>3 DEF Empty, TileFills
<1>5. o[1] = "create" => Empty(o[2])
  BY <1>4, FillsAre
<1>6. o[1] = "share" => slot[o[2]] = NoEvent
  <2>1. o[1] = "share" => Fills(o) = {o[2]}
    BY FillsAre
  <2>. QED
    BY <1>4, <2>1 DEF Empty
<1>7. Tail(todo) # <<>> /\ PushesEvent(next) => o[1] = "retain"
  BY <1>2, SMT DEF Follows
<1>8. o[1] = "retain" => PushesEvent(next) /\ next[4] = o[2]
  BY <1>2, SMT DEF Follows
<1>. QED
  BY <1>2, <1>5, <1>6, <1>7, <1>8 DEF o, next

\* What is left of a job when an operation is done: it may empty slots, or
\* fill those it is meant to.
LEMMA JobFormStep ==
  ASSUME JobForm, todo # <<>>, todo' = Tail(todo), records' = records,
         Head(todo)[1] = "release" => \A s \in Head(todo)[2] : slot'[s] = NoEvent,
         KernelEvent \notin Fills(Head(todo)) => slot'[KernelEvent] \in {slot[KernelEvent], NoEvent}
  PROVE  JobForm'
<1>. DEFINE o == Head(todo)
            rest == Tail(todo)
            next == Head(Tail(todo))
<1>1. JobList(todo) /\ Empty(TileFills(o)) /\ KernelEventOnce(todo)
  BY DEF JobForm
<1>2. /\ JobList(rest) /\ o = todo[1] /\ o \in JobOps
      /\ rest # <<>> => Follows(o, next)
      /\ NoKernelEvent(todo) => NoKernelEvent(rest) /\ KernelEvent \notin Fills(o)
      /\ Drops(todo) => Drops(rest) \/ (rest = <<>> /\ o = <<"release", {KernelEvent}>>)
  BY <1>1, JobTailed
<1>2a. /\ todo \in Seq(JobOps) /\ rest \in Seq(JobOps)
       /\ Len(todo) \in Nat \ {0} /\ Len(rest) = Len(todo) - 1
       /\ \A i \in 1 .. Len(rest) : rest[i] = todo[i + 1]
  <2>1. todo \in Seq(JobOps)
    BY <1>1 DEF JobList
  <2>. QED
    BY <2>1, SMT
<1>. HIDE DEF o, rest, next
<1>3. JobList(todo)'
  BY <1>2, SMT DEF JobList, rest
<1>4. todo' # <<>> => Empty(TileFills(Head(todo)))'
  <2>1. SUFFICES ASSUME rest # <<>>, NEW s \in TileFills(next)
                 PROVE  slot'[s] = NoEvent
    BY DEF Empty, rest, next, TileFills, Fills
  <2>2. o = <<"release", TileFills(next)>>
    BY <1>2, <2>1 DEF Follows
  <2>3. o[1] = "release" /\ o[2] = TileFills(next)
    BY <2>2
  <2>. QED
    BY <2>3 DEF o
<1>5. NoKernelEvent(rest) \/ \E i \in 1 .. Len(todo) :
          \A j \in 1 .. Len(todo) : j # i => KernelEvent \notin Fills(todo[j])
  BY <1>1, <1>2 DEF KernelEventOnce
<1>6. o = <<"release", {KernelEvent}>> => slot'[KernelEvent] = NoEvent /\ KernelEvent \notin Fills(o)
  <2>. SUFFICES ASSUME o = <<"release", {KernelEvent}>>
                PROVE  slot'[KernelEvent] = NoEvent /\ KernelEvent \notin Fills(o)
    OBVIOUS
  <2>1. o[1] = "release" /\ o[2] = {KernelEvent}
    OBVIOUS
  <2>2. slot'[KernelEvent] = NoEvent
    BY <2>1 DEF o
  <2>3. Fills(o) = {}
    BY <2>1, FillsAre
  <2>. QED
    BY <2>2, <2>3
<1>7. KernelEvent \notin Fills(o) => slot'[KernelEvent] \in {slot[KernelEvent], NoEvent}
  BY DEF o
<1>8. \/ NoKernelEvent(rest) /\ (slot'[KernelEvent] = NoEvent \/ Drops(rest))
      \/ /\ slot'[KernelEvent] = NoEvent /\ Drops(rest)
         /\ \E i \in 1 .. Len(rest) :
              \A j \in 1 .. Len(rest) : j # i => KernelEvent \notin Fills(rest[j])
  <2>1. CASE NoKernelEvent(todo) /\ (slot[KernelEvent] = NoEvent \/ Drops(todo))
    <3>1. NoKernelEvent(rest) /\ KernelEvent \notin Fills(o)
      BY <1>2, <2>1
    <3>2. slot'[KernelEvent] = NoEvent \/ Drops(rest)
      BY <1>2, <1>6, <1>7, <2>1, <3>1
    <3>. QED
      BY <3>1, <3>2
  <2>2. CASE /\ slot[KernelEvent] = NoEvent /\ Drops(todo)
             /\ \E i \in 1 .. Len(todo) :
                  \A j \in 1 .. Len(todo) : j # i => KernelEvent \notin Fills(todo[j])
    <3>1. PICK i \in 1 .. Len(todo) :
                  \A j \in 1 .. Len(todo) : j # i => KernelEvent \notin Fills(todo[j])
      BY <2>2
    <3>2. ASSUME i = 1 PROVE NoKernelEvent(rest)
      <4>1. ASSUME NEW j \in 1 .. Len(rest) PROVE KernelEvent \notin Fills(rest[j])
        <5>1. j + 1 \in 1 .. Len(todo) /\ j + 1 # i
          BY <1>2a, <3>2, SMT
        <5>. QED
          BY <1>2a, <3>1, <5>1
      <4>. QED
        BY <4>1 DEF NoKernelEvent
    <3>3. CASE KernelEvent \in Fills(o)
      <4>1. i = 1
        <5>1. 1 \in 1 .. Len(todo)
          BY <1>2a, SMT
        <5>. QED
          BY <1>2, <3>1, <3>3, <5>1
      <4>2. Drops(rest)
        BY <1>2, <1>6, <2>2, <3>3
      <4>. QED
        BY <3>2, <4>1, <4>2
    <3>4. CASE KernelEvent \notin Fills(o)
      <4>1. slot'[KernelEvent] = NoEvent
        BY <1>7, <2>2, <3>4
      <4>2. CASE i = 1
        BY <3>2, <4>1, <4>2
      <4>3. CASE i # 1
        <5>1. i - 1 \in 1 .. Len(rest)
          BY <1>2a, <4>3, SMT
        <5>2. ASSUME NEW j \in 1 .. Len(rest), j # i - 1
              PROVE  KernelEvent \notin Fills(rest[j])
          <6>1. j + 1 \in 1 .. Len(todo) /\ j + 1 # i
            BY <1>2a, <5>2, SMT
          <6>. QED
            BY <1>2a, <3>1, <6>1
        <5>3. rest # <<>>
          BY <1>2a, <5>1, SMT
        <5>. QED
          BY <1>2, <2>2, <4>1, <5>1, <5>2, <5>3
      <4>. QED
        BY <4>2, <4>3
    <3>. QED
      BY <3>3, <3>4
  <2>. QED
    BY <1>1, <2>1, <2>2 DEF KernelEventOnce
<1>9. KernelEventOnce(todo)'
  <2>1. todo' = rest
    BY DEF rest
  <2>. QED
    BY <1>8, <2>1 DEF KernelEventOnce, NoKernelEvent, Drops
<1>. QED
  BY <1>3, <1>4, <1>9 DEF JobForm
-----------------------------------------------------------------------------
(* The operations left of the other calls, step by step.                   *)

\* What the next operation of such a call relies on.
HeadOK ==
  LET o == Head(todo)
  IN /\ o \in CallOps
     /\ TouchedBy(o) \subseteq records
     /\ o[1] = "create" => Empty(o[2]) /\ KernelEvent \notin o[2]
     /\ o[1] = "detach" => <<o[2], o[3]>> \in records /\ o[2] \in Ctrl
     /\ o[1] = "attach" => /\ ~Attached(o[2], o[3]) /\ Live(o[3])
                           /\ o[2] \in Ctrl /\ o[3] \in Tiles
                           /\ host_status[o[3]] # "UNALLOC"
     /\ o[1] = "freehost" => /\ Empty(HostSlots(o[2])) /\ o[2] \in Tiles
                             /\ \A c \in Ctrl : <<c, o[2]>> \notin records
     /\ o[1] = "selectif" => o[2] \in Ctrl /\ o[3] \in Selections
     /\ o[1] = "domain" => o[2] \in Tiles

\* The records such an operation reads or writes.
LEMMA CallTouched ==
  ASSUME NEW c \in Ctrl, NEW t \in Tiles
  PROVE  /\ TouchedBy(HostWait(c, t)) \subseteq {<<Host, t>>, <<c, t>>}
         /\ TouchedBy(DevWait(c, t)) \subseteq {<<c, t>>}
         /\ TouchedBy(TileRelease(c, t)) \subseteq {<<c, t>>}
         /\ TouchedBy(<<"create", ImplSlots(c, t)>>) \subseteq {<<c, t>>}
         /\ TouchedBy(<<"release", HostSlots(t)>>) \subseteq {<<Host, t>>}
         /\ TouchedBy(<<"create", HostSlots(t)>>) \subseteq {<<Host, t>>}
         /\ TouchedBy(<<"detach", c, t>>) = {<<c, t>>, <<Host, t>>}
         /\ TouchedBy(<<"peek", c, t>>) = {<<c, t>>, <<Host, t>>}
         /\ TouchedBy(<<"attach", c, t>>) = {<<Host, t>>}
         /\ TouchedBy(<<"freeif", c, t>>) = {<<Host, t>>}
         /\ TouchedBy(<<"selectif", c, t>>) = {<<Host, t>>, <<Host, Selected[t]>>}
         /\ TouchedBy(<<"freehost", t>>) = {<<Host, t>>}
         /\ TouchedBy(<<"domain", t>>) = {}
<1>1. \A s \in HostSlots(t) : RecordOf(s) = {<<Host, t>>}
  BY SlotRecords
<1>2. \A s \in ImplSlots(c, t) : RecordOf(s) = {<<c, t>>}
  BY SlotRecords
<1>3. /\ {<<c, t, k>> : k \in CpuKind} \subseteq ImplSlots(c, t)
      /\ {<<c, t, k>> : k \in DevKind} \subseteq ImplSlots(c, t)
  BY DEF ImplSlots
<1>4. \A S : /\ TouchedBy(<<"wait", S>>) = UNION {RecordOf(s) : s \in S}
             /\ TouchedBy(<<"release", S>>) = UNION {RecordOf(s) : s \in S}
             /\ TouchedBy(<<"create", S>>) = UNION {RecordOf(s) : s \in S}
  BY SMT DEF TouchedBy
<1>5. \A S, U : (\A s \in S : RecordOf(s) \subseteq U)
                  => UNION {RecordOf(s) : s \in S} \subseteq U
  OBVIOUS
<1>6. TouchedBy(HostWait(c, t)) \subseteq {<<Host, t>>, <<c, t>>}
  <2>. DEFINE S == HostSlots(t) \cup {<<c, t, k>> : k \in CpuKind}
  <2>1. \A s \in S : RecordOf(s) \subseteq {<<Host, t>>, <<c, t>>}
    BY <1>1, <1>2, <1>3
  <2>2. HostWait(c, t) = <<"wait", S>>
    BY DEF HostWait
  <2>. HIDE DEF S
  <2>3. TouchedBy(<<"wait", S>>) = UNION {RecordOf(s) : s \in S}
    BY <1>4
  <2>. QED
    BY <1>5, <2>1, <2>2, <2>3
<1>7. TouchedBy(DevWait(c, t)) \subseteq {<<c, t>>}
  <2>. DEFINE S == {<<c, t, k>> : k \in DevKind}
  <2>1. \A s \in S : RecordOf(s) \subseteq {<<c, t>>}
    BY <1>2, <1>3
  <2>2. DevWait(c, t) = <<"wait", S>>
    BY DEF DevWait
  <2>. HIDE DEF S
  <2>3. TouchedBy(<<"wait", S>>) = UNION {RecordOf(s) : s \in S}
    BY <1>4
  <2>. QED
    BY <1>5, <2>1, <2>2, <2>3
<1>8. /\ TouchedBy(TileRelease(c, t)) \subseteq {<<c, t>>}
      /\ TouchedBy(<<"create", ImplSlots(c, t)>>) \subseteq {<<c, t>>}
  <2>1. UNION {RecordOf(s) : s \in ImplSlots(c, t)} \subseteq {<<c, t>>}
    BY <1>2, <1>5
  <2>. QED
    BY <1>4, <2>1 DEF TileRelease
<1>9. /\ TouchedBy(<<"release", HostSlots(t)>>) \subseteq {<<Host, t>>}
      /\ TouchedBy(<<"create", HostSlots(t)>>) \subseteq {<<Host, t>>}
  <2>1. UNION {RecordOf(s) : s \in HostSlots(t)} \subseteq {<<Host, t>>}
    BY <1>1, <1>5
  <2>. QED
    BY <1>4, <2>1
<1>10. /\ TouchedBy(<<"detach", c, t>>) = {<<c, t>>, <<Host, t>>}
       /\ TouchedBy(<<"peek", c, t>>) = {<<c, t>>, <<Host, t>>}
       /\ TouchedBy(<<"attach", c, t>>) = {<<Host, t>>}
       /\ TouchedBy(<<"freeif", c, t>>) = {<<Host, t>>}
  BY SMT DEF TouchedBy
<1>11. /\ TouchedBy(<<"selectif", c, t>>) = {<<Host, t>>, <<Host, Selected[t]>>}
       /\ TouchedBy(<<"freehost", t>>) = {<<Host, t>>}
       /\ TouchedBy(<<"domain", t>>) = {}
  BY SMT DEF TouchedBy
<1>. QED
  BY <1>6, <1>7, <1>8, <1>9, <1>10, <1>11

\* A loop over all ctrls is made of such operations.
LEMMA LoopOps ==
  ASSUME NEW op \in {"freeif", "selectif"}, NEW n \in 0 .. NCtrls, NEW t \in Tiles
  PROVE  Loop(op, n, t) \in Seq(CallOps)
<1>1. {op} \X Ctrl \X {t} \subseteq CallOps
  BY DEF CallOps
<1>2. Loop(op, n, t) \in Seq({op} \X Ctrl \X {t})
  BY LoopFacts
<1>. DEFINE l == Loop(op, n, t)
            E == {op} \X Ctrl \X {t}
<1>. HIDE DEF l, E
<1>3. ASSUME l \in Seq(E), E \subseteq CallOps PROVE l \in Seq(CallOps)
  BY <1>3, SMT
<1>. QED
  BY <1>1, <1>2, <1>3 DEF l, E

\* Two pairs one after the other.
LEMMA FourOps ==
  ASSUME NEW a, NEW b, NEW c, NEW d
  PROVE  <<a, b>> \o <<c, d>> = <<a, b, c, d>>
<1>. DEFINE v == <<a, b>>
            w == <<c, d>>
            E == {a, b, c, d}
            x == <<a, b, c, d>>
            y == Cat(v, w)
<1>1. /\ v \in Seq(E) /\ w \in Seq(E) /\ x \in Seq(E)
      /\ Len(v) = 2 /\ Len(w) = 2 /\ Len(x) = 4
      /\ v[1] = a /\ v[2] = b /\ w[1] = c /\ w[2] = d
      /\ x[1] = a /\ x[2] = b /\ x[3] = c /\ x[4] = d
  BY SMT
<1>2. ASSUME NEW S, NEW p \in Seq(S), NEW q \in Seq(S), Len(p) = 2, Len(q) = 2
      PROVE  /\ Cat(p, q) \in Seq(S) /\ Len(Cat(p, q)) = 4
             /\ Cat(p, q)[1] = p[1] /\ Cat(p, q)[2] = p[2]
             /\ Cat(p, q)[3] = q[1] /\ Cat(p, q)[4] = q[2]
  <2>1. Len(p \o q) = 4
    <3>1. Len(p \o q) = Len(p) + Len(q)
      BY LengthConcatenated
    <3>. QED
      BY <1>2, <3>1, SMT
  <2>2. p \o q \in Seq(S) /\ \A i \in 1 .. Len(p) : (p \o q)[i] = p[i]
    BY Concatenated
  <2>3. \A i \in 1 .. Len(q) : (p \o q)[Len(p) + i] = q[i]
    BY Concatenated
  <2>4. /\ 1 \in 1 .. Len(q) /\ 2 \in 1 .. Len(q) /\ 1 \in 1 .. Len(p) /\ 2 \in 1 .. Len(p)
        /\ Len(p) + 1 = 3 /\ Len(p) + 2 = 4
    BY <1>2, SMT
  <2>5. (p \o q)[1] = p[1] /\ (p \o q)[2] = p[2]
    BY <2>2, <2>4
  <2>6. (p \o q)[Len(p) + 1] = q[1] /\ (p \o q)[Len(p) + 2] = q[2]
    BY <2>3, <2>4
  <2>. QED
    BY <2>1, <2>2, <2>4, <2>5, <2>6 DEF Cat
<1>. HIDE DEF v, w, x, E
<1>3. /\ y \in Seq(E) /\ Len(y) = 4 /\ y[1] = a /\ y[2] = b /\ y[3] = c /\ y[4] = d
  BY <1>1, <1>2
<1>. HIDE DEF y
<1>4. ASSUME NEW i \in 1 .. Len(y) PROVE y[i] = x[i]
  <2>1. i \in {1, 2, 3, 4}
    BY <1>3, SMT
  <2>. QED
    BY <1>1, <1>3, <2>1
<1>5. y = x
  BY <1>1, <1>3, <1>4, SeqEqual
<1>. QED
  BY <1>5 DEF v, w, x, y, Cat

\* A tile is freed from a ctrl by four operations, and given a record by two.
LEMMA FreeTileIs ==
  \A c, t : /\ FreeTile(c, t) = <<HostWait(c, t), DevWait(c, t), TileRelease(c, t),
                                  <<"detach", c, t>> >>
            /\ InitTile(c, t) = << <<"attach", c, t>>, <<"create", ImplSlots(c, t)>> >>
            /\ FreeHostInner(t) = << <<"release", HostSlots(t)>>, <<"freehost", t>> >>
<1>. TAKE c, t
<1>1. FreeTile(c, t) = <<HostWait(c, t), DevWait(c, t)>>
                       \o <<TileRelease(c, t), <<"detach", c, t>> >>
  BY DEF FreeTile, FreeWaits, HostWait, DevWait, TileRelease
<1>. DEFINE a == HostWait(c, t)
            b == DevWait(c, t)
            d == TileRelease(c, t)
            e == <<"detach", c, t>>
<1>2. <<a, b>> \o <<d, e>> = <<a, b, d, e>>
  <2>. HIDE DEF a, b, d, e
  <2>. QED
    BY FourOps
<1>. QED
  BY <1>1, <1>2 DEF InitTile, FreeHostInner

\* When nothing is left to do, the main thread is between two calls.
LEMMA DoneForm ==
  ASSUME todo' = <<>>, slot'[KernelEvent] = NoEvent
  PROVE  JobForm'
<1>1. <<>> \in Seq(JobOps) /\ Len(<<>>) = 0 /\ 1 .. 0 = {}
  BY SMT
<1>2. 1 .. Len(<<>>) = {} /\ 1 .. Len(<<>>) - 1 = {}
  BY <1>1, SMT
<1>3. JobList(todo)'
  BY <1>1, <1>2, SMT DEF JobList
<1>4. KernelEventOnce(todo)'
  BY <1>2 DEF KernelEventOnce, NoKernelEvent
<1>. QED
  BY <1>3, <1>4 DEF JobForm

\* The effect of an operation on what the forms of a call depend on.
LEMMA Frames ==
  ASSUME MainStep
  PROVE  LET o == Head(todo)
             kept == type' = type /\ records' = records /\ host_status' = host_status
         IN /\ o[1] \in {"wait", "peek"} => todo' = Tail(todo) /\ kept /\ slot' = slot
            /\ o[1] = "release" =>
                 /\ todo' = Tail(todo) /\ kept
                 /\ slot' = [s \in Slot |-> IF s \in o[2] THEN NoEvent ELSE slot[s]]
            /\ o[1] = "create" =>
                 /\ todo' = Tail(todo) /\ kept
                 /\ slot' = [s \in Slot |-> IF s \in o[2] THEN NewEvent(s) ELSE slot[s]]
            /\ o[1] = "domain" =>
                 /\ todo' = Tail(todo) /\ slot' = slot /\ type' = type /\ host_status' = host_status
                 /\ records' = records \cup {<<Host, o[2]>>}
            /\ o[1] = "attach" =>
                 /\ todo' = Tail(todo) /\ slot' = slot /\ host_status' = host_status
                 /\ records' = records \cup {<<o[2], o[3]>>}
                 /\ type' = type \cup {<<o[2], o[3]>>}
            /\ o[1] = "selectif" =>
                 /\ kept /\ slot' = slot
                 /\ todo' = (IF Attached(o[2], Selected[o[3]])
                             THEN InitTile(o[2], o[3]) \o << <<"peek", o[2], Selected[o[3]]>> >>
                             ELSE <<>>) \o Tail(todo)
            /\ o[1] = "detach" =>
                 /\ slot' = slot /\ type' = type /\ host_status' = host_status
                 /\ records' = records \ {<<o[2], o[3]>>}
                 /\ todo' = (IF LastImpl(o[3]) THEN FreeHostInner(o[3]) ELSE <<>>) \o Tail(todo)
            /\ o[1] = "freehost" =>
                 /\ todo' = Tail(todo) /\ slot' = slot /\ type' = type /\ host_status' = host_status
                 /\ records' = records \ {<<Host, o[2]>>}
            /\ o[1] = "freeif" =>
                 /\ kept /\ slot' = slot
                 /\ todo' = (IF Attached(o[2], o[3]) THEN FreeTile(o[2], o[3]) ELSE <<>>)
                            \o Tail(todo)
<1>. DEFINE o == Head(todo)
<1>1. o[1] \in {"wait", "peek"} => /\ todo' = Tail(todo) /\ slot' = slot
         /\ type' = type /\ records' = records /\ host_status' = host_status
  BY NextAction DEF Wait, Peek, NextOp, tileVars, slotVars
<1>2. o[1] = "release" =>
         /\ todo' = Tail(todo)
         /\ type' = type /\ records' = records /\ host_status' = host_status
         /\ slot' = [s \in Slot |-> IF s \in o[2] THEN NoEvent ELSE slot[s]]
  BY NextAction DEF Release, NextOp, tileVars
<1>3. o[1] = "create" =>
         /\ todo' = Tail(todo)
         /\ type' = type /\ records' = records /\ host_status' = host_status
         /\ slot' = [s \in Slot |-> IF s \in o[2] THEN NewEvent(s) ELSE slot[s]]
  BY NextAction DEF Create, NextOp, tileVars
<1>4. o[1] = "domain" =>
         /\ todo' = Tail(todo) /\ slot' = slot /\ type' = type /\ host_status' = host_status
         /\ records' = records \cup {<<Host, o[2]>>}
  BY NextAction DEF Domain, NextOp, slotVars
<1>5. o[1] = "attach" =>
         /\ todo' = Tail(todo) /\ slot' = slot /\ host_status' = host_status
         /\ records' = records \cup {<<o[2], o[3]>>}
         /\ type' = type \cup {<<o[2], o[3]>>}
  BY NextAction DEF Attach, NextOp, slotVars
<1>6. o[1] = "selectif" =>
         /\ type' = type /\ records' = records /\ host_status' = host_status /\ slot' = slot
         /\ todo' = (IF Attached(o[2], Selected[o[3]])
                     THEN InitTile(o[2], o[3]) \o << <<"peek", o[2], Selected[o[3]]>> >>
                     ELSE <<>>) \o Tail(todo)
  BY NextAction DEF SelectIfAttached, slotVars
<1>7. o[1] = "detach" =>
         /\ slot' = slot /\ type' = type /\ host_status' = host_status
         /\ records' = records \ {<<o[2], o[3]>>}
         /\ todo' = (IF LastImpl(o[3]) THEN FreeHostInner(o[3]) ELSE <<>>) \o Tail(todo)
  BY NextAction DEF Detach, slotVars
<1>8. o[1] = "freehost" =>
         /\ todo' = Tail(todo) /\ slot' = slot /\ type' = type /\ host_status' = host_status
         /\ records' = records \ {<<Host, o[2]>>}
  BY NextAction DEF FreeHost, NextOp, slotVars
<1>9. o[1] = "freeif" =>
         /\ type' = type /\ records' = records /\ host_status' = host_status /\ slot' = slot
         /\ todo' = (IF Attached(o[2], o[3]) THEN FreeTile(o[2], o[3]) ELSE <<>>)
                    \o Tail(todo)
  BY NextAction DEF FreeIfAttached, tileVars, slotVars, Attached
<1>. HIDE DEF o
<1>. QED
  BY <1>1, <1>2, <1>3, <1>4, <1>5, <1>6, <1>7, <1>8, <1>9 DEF o

\* The ctrls a tile has records on are finitely many.
LEMMA CtrlsFinite ==
  /\ IsFiniteSet(Ctrl) /\ Cardinality(Ctrl) = NCtrls
  /\ \A t : IsFiniteSet(CtrlsOf(t)) /\ Cardinality(CtrlsOf(t)) \in 0 .. NCtrls
<1>1. IsFiniteSet(Ctrl) /\ Cardinality(Ctrl) = NCtrls
  <2>1. NCtrls \in Nat \ {0}
    BY Names
  <2>2. 0 \in Int /\ NCtrls - 1 \in Int /\ ~(0 > NCtrls - 1) /\ NCtrls - 1 - 0 + 1 = NCtrls
    BY <2>1, SMT
  <2>3. IsFiniteSet(0 .. NCtrls - 1) /\ Cardinality(0 .. NCtrls - 1) = NCtrls
    BY <2>1, <2>2, FS_Interval, SMT
  <2>. QED
    BY <2>3 DEF Ctrl
<1>2. ASSUME NEW t
      PROVE  IsFiniteSet(CtrlsOf(t)) /\ Cardinality(CtrlsOf(t)) \in 0 .. NCtrls
  <2>1. CtrlsOf(t) \subseteq Ctrl
    BY DEF CtrlsOf
  <2>2. IsFiniteSet(CtrlsOf(t)) /\ Cardinality(CtrlsOf(t)) <= NCtrls
    BY <1>1, <2>1, FS_Subset
  <2>3. Cardinality(CtrlsOf(t)) \in Nat
    BY <2>2, FS_CardinalityType
  <2>. QED
    BY <2>2, <2>3, Names, SMT
<1>. QED
  BY <1>1, <1>2

\* A free of a tile from a ctrl.  With its last record goes the one for the
\* host, and then no round is left.
LEMMA FreeRoundStep ==
  ASSUME TypeInv, RecordsInv, slot[KernelEvent] = NoEvent,
         NEW t \in Tiles, NEW n \in 0 .. NCtrls, FreeLoop(t, n), NEW c \in Ctrl,
         FreeRound(c, t, n, Loop("freeif", n, t))
  PROVE  todo # <<>> /\ HeadOK /\ (MainStep => FreeForm')
<1>. DEFINE rest == Loop("freeif", n, t)
            d == <<"detach", c, t>>
<1>0. rest \in Seq(CallOps) /\ (n = 0 => rest = <<>>)
  BY LoopOps, LoopFacts
<1>1. <<c, t>> \in records /\ <<Host, t>> \in records /\ (n > 0 => c < NCtrls - n)
  BY DEF FreeRound, RecordsInv, Live
<1>2. \/ todo = <<HostWait(c, t), DevWait(c, t), TileRelease(c, t), d>> \o rest
      \/ todo = <<DevWait(c, t), TileRelease(c, t), d>> \o rest
      \/ todo = <<TileRelease(c, t), d>> \o rest
      \/ todo = <<d>> \o rest
  BY DEF FreeRound
<1>. HIDE DEF rest
<1>3. ASSUME records' = records, type' = type, slot'[KernelEvent] = NoEvent,
             \/ todo' = <<DevWait(c, t), TileRelease(c, t), d>> \o rest
             \/ todo' = <<TileRelease(c, t), d>> \o rest
             \/ todo' = <<d>> \o rest
      PROVE  FreeForm'
  <2>1. FreeRound(c, t, n, Loop("freeif", n, t))'
    BY <1>1, <1>3 DEF FreeRound, rest
  <2>2. FreeLoop(t, n)'
    BY <1>3 DEF FreeLoop, Attached
  <2>. QED
    BY <1>3, <2>1, <2>2 DEF FreeForm
<1>4. /\ HostWait(c, t) \in CallOps /\ HostWait(c, t)[1] = "wait"
      /\ DevWait(c, t) \in CallOps /\ DevWait(c, t)[1] = "wait"
      /\ TileRelease(c, t) \in CallOps /\ TileRelease(c, t)[1] = "release"
      /\ TileRelease(c, t)[2] = ImplSlots(c, t)
      /\ d \in CallOps /\ d[1] = "detach" /\ d[2] = c /\ d[3] = t
  <2>1. HostSlots(t) \cup {<<c, t, k>> : k \in CpuKind} \in SUBSET Slot
    BY SlotKinds
  <2>2. {<<c, t, k>> : k \in DevKind} \in SUBSET Slot
    BY SlotKinds
  <2>3. ImplSlots(c, t) \in SUBSET Slot
    BY SlotKinds
  <2>. QED
    BY <2>1, <2>2, <2>3, CallOpsAre DEF HostWait, DevWait, TileRelease
<1>5. /\ TouchedBy(HostWait(c, t)) \subseteq records
      /\ TouchedBy(DevWait(c, t)) \subseteq records
      /\ TouchedBy(TileRelease(c, t)) \subseteq records
      /\ TouchedBy(d) \subseteq records
  <2>1. {<<Host, t>>, <<c, t>>} \subseteq records /\ {<<c, t>>} \subseteq records
    BY <1>1
  <2>2. /\ TouchedBy(HostWait(c, t)) \subseteq {<<Host, t>>, <<c, t>>}
        /\ TouchedBy(DevWait(c, t)) \subseteq {<<c, t>>}
        /\ TouchedBy(TileRelease(c, t)) \subseteq {<<c, t>>}
        /\ TouchedBy(d) = {<<c, t>>, <<Host, t>>}
    BY CallTouched
  <2>3. /\ TouchedBy(HostWait(c, t)) \subseteq records
        /\ TouchedBy(DevWait(c, t)) \subseteq records
        /\ TouchedBy(TileRelease(c, t)) \subseteq records
    BY <2>1, <2>2, Zenon
  <2>4. TouchedBy(d) \subseteq records
    BY <1>1, <2>2, Zenon
  <2>. QED
    BY <2>3, <2>4
<1>. HIDE DEF d
<1>6. CASE todo = <<HostWait(c, t), DevWait(c, t), TileRelease(c, t), d>> \o rest
  <2>1. /\ todo # <<>> /\ Head(todo) = HostWait(c, t)
        /\ Tail(todo) = <<DevWait(c, t), TileRelease(c, t), d>> \o rest
    BY <1>0, <1>6, Prefixed
  <2>2. HeadOK
    BY <1>4, <1>5, <2>1, SMT DEF HeadOK
  <2>3. ASSUME MainStep PROVE FreeForm'
    BY <1>3, <1>4, <2>1, <2>3, Frames
  <2>. QED
    BY <2>1, <2>2, <2>3
<1>7. CASE todo = <<DevWait(c, t), TileRelease(c, t), d>> \o rest
  <2>1. /\ todo # <<>> /\ Head(todo) = DevWait(c, t)
        /\ Tail(todo) = <<TileRelease(c, t), d>> \o rest
    BY <1>0, <1>7, Prefixed
  <2>2. HeadOK
    BY <1>4, <1>5, <2>1, SMT DEF HeadOK
  <2>3. ASSUME MainStep PROVE FreeForm'
    BY <1>3, <1>4, <2>1, <2>3, Frames
  <2>. QED
    BY <2>1, <2>2, <2>3
<1>8. CASE todo = <<TileRelease(c, t), d>> \o rest
  <2>1. /\ todo # <<>> /\ Head(todo) = TileRelease(c, t)
        /\ Tail(todo) = <<d>> \o rest
    BY <1>0, <1>8, Prefixed
  <2>2. HeadOK
    BY <1>4, <1>5, <2>1, SMT DEF HeadOK
  <2>3. ASSUME MainStep PROVE FreeForm'
    <3>1. /\ todo' = <<d>> \o rest /\ type' = type /\ records' = records
          /\ slot' = [s \in Slot |-> IF s \in ImplSlots(c, t) THEN NoEvent ELSE slot[s]]
      <4>1. Head(todo)[1] = "release" /\ Head(todo)[2] = ImplSlots(c, t)
        BY <1>4, <2>1
      <4>2. /\ todo' = Tail(todo) /\ type' = type /\ records' = records
            /\ slot' = [s \in Slot |-> IF s \in Head(todo)[2] THEN NoEvent ELSE slot[s]]
        BY <2>3, <4>1, Frames
      <4>. QED
        BY <2>1, <4>1, <4>2, Zenon
    <3>2. slot'[KernelEvent] = NoEvent
      BY <3>1, SlotKinds
    <3>. QED
      BY <1>3, <3>1, <3>2
  <2>. QED
    BY <2>1, <2>2, <2>3
<1>9. CASE todo = <<d>> \o rest
  <2>1. todo # <<>> /\ Head(todo) = d /\ Tail(todo) = rest
    BY <1>0, <1>9, Prefixed
  <2>2. HeadOK
    BY <1>1, <1>4, <1>5, <2>1, SMT DEF HeadOK
  <2>3. ASSUME MainStep PROVE FreeForm'
    <3>1. /\ slot' = slot /\ type' = type /\ records' = records \ {<<c, t>>}
          /\ todo' = (IF LastImpl(t) THEN FreeHostInner(t) ELSE <<>>) \o rest
      BY <1>4, <2>1, <2>3, Frames
    <3>2. valid_impls[t] = Cardinality(CtrlsOf(t)) /\ IsFiniteSet(CtrlsOf(t)) /\ c \in CtrlsOf(t)
      BY <1>1, CtrlsFinite DEF RecordsInv, CtrlsOf
    <3>3. n > 0 => /\ NCtrls - 1 \in CtrlsOf(t) /\ NCtrls - 1 # c
                   /\ <<NCtrls - 1, t>> \in records
      <4>1. n > 0 => NCtrls - 1 # c
        BY <1>1, Names, SMT DEF Ctrl
      <4>. QED
        BY <4>1, Names DEF FreeLoop, CtrlsOf
    <3>4. CASE LastImpl(t)
      <4>1. CtrlsOf(t) = {c}
        <5>1. Cardinality(CtrlsOf(t)) = 1
          BY <3>2, <3>4 DEF LastImpl
        <5>2. \E x : CtrlsOf(t) = {x}
          BY <3>2, <5>1, FS_Singleton
        <5>. QED
          BY <3>2, <5>2
      <4>2. n = 0
        <5>1. ~(n > 0)
          BY <3>3, <4>1
        <5>. QED
          BY <5>1, SMT
      <4>3. todo' = FreeHostInner(t)
        <5>1. todo' = FreeHostInner(t) \o <<>>
          BY <1>0, <3>1, <3>4, <4>2
        <5>2. FreeHostInner(t) \in Seq(CallOps)
          <6>1. <<"release", HostSlots(t)>> \in CallOps /\ <<"freehost", t>> \in CallOps
            BY CallOpsAre, SlotKinds
          <6>. DEFINE x == <<"release", HostSlots(t)>>
                      y == <<"freehost", t>>
          <6>2. FreeHostInner(t) = <<x, y>>
            BY FreeTileIs
          <6>. HIDE DEF x, y
          <6>3. x \in CallOps /\ y \in CallOps
            BY <6>1 DEF x, y
          <6>. QED
            BY <6>2, <6>3
        <5>. QED
          BY <5>1, <5>2, Prefixed
      <4>4. FreeHostForm(t)'
        <5>1. <<Host, t>> \in records'
          BY <1>1, <3>1, Names
        <5>2. \A x \in Ctrl : <<x, t>> \notin records'
          BY <3>1, <4>1 DEF CtrlsOf
        <5>. QED
          BY <4>3, <5>1, <5>2, FreeTileIs DEF FreeHostForm, Live
      <4>. QED
        BY <3>1, <4>4 DEF FreeForm
    <3>5. CASE ~LastImpl(t)
      <4>1. todo' = rest
        BY <1>0, <3>1, <3>5, Prefixed
      <4>2. FreeLoop(t, n)'
        <5>1. SUFFICES ASSUME n > 0
                       PROVE  /\ <<NCtrls - 1, t>> \in records'
                              /\ \A x \in NCtrls - n .. NCtrls - 1 :
                                   <<x, t>> \in type' => <<x, t>> \in records'
          BY DEF FreeLoop, Attached
        <5>2. <<NCtrls - 1, t>> \in records'
          BY <3>1, <3>3, <5>1
        <5>3. ASSUME NEW x \in NCtrls - n .. NCtrls - 1, <<x, t>> \in type'
              PROVE  <<x, t>> \in records'
          <6>1. x # c
            BY <1>1, <5>1, Names, SMT DEF Ctrl
          <6>2. <<x, t>> \in records
            BY <3>1, <5>1, <5>3 DEF FreeLoop, Attached
          <6>. QED
            BY <3>1, <6>1, <6>2
        <5>. QED
          BY <5>2, <5>3
      <4>. QED
        BY <3>1, <4>1, <4>2 DEF FreeForm, rest
    <3>. QED
      BY <3>4, <3>5
  <2>. QED
    BY <2>1, <2>2, <2>3
<1>. QED
  BY <1>2, <1>6, <1>7, <1>8, <1>9

\* A call that asks for no job, or none at all.
OtherForm == FreeForm \/ AllocForm \/ SelectForm \/ (JobForm /\ todo = <<>>)

\* A free: of a tile from one ctrl or all, and of its host part.
LEMMA FreeFormStep ==
  ASSUME TypeInv, RecordsInv, FreeForm, todo # <<>>
  PROVE  HeadOK /\ (MainStep => OtherForm')
<1>1. slot[KernelEvent] = NoEvent
  BY DEF FreeForm
<1>2. PICK t \in Tiles : \/ \E n \in 0 .. NCtrls :
                              /\ FreeLoop(t, n)
                              /\ \/ todo = Loop("freeif", n, t)
                                 \/ \E c \in Ctrl : FreeRound(c, t, n, Loop("freeif", n, t))
                         \/ FreeHostForm(t)
  BY DEF FreeForm
<1>3. ASSUME NEW n \in 0 .. NCtrls, FreeLoop(t, n), NEW c \in Ctrl,
             FreeRound(c, t, n, Loop("freeif", n, t))
      PROVE  HeadOK /\ (MainStep => OtherForm')
  BY <1>1, <1>3, FreeRoundStep DEF OtherForm
<1>4. ASSUME NEW n \in 0 .. NCtrls, FreeLoop(t, n), todo = Loop("freeif", n, t)
      PROVE  HeadOK /\ (MainStep => OtherForm')
  <2>1. n > 0
    <3>1. n # 0
      BY <1>4, LoopFacts
    <3>. QED
      BY <3>1, SMT
  <2>2. PICK c \in Ctrl : c = NCtrls - n
    BY <1>4, <2>1, LoopFacts
  <2>. DEFINE rest == Loop("freeif", n - 1, t)
  <2>3. /\ Head(todo) = <<"freeif", c, t>> /\ Tail(todo) = rest
        /\ n - 1 \in 0 .. NCtrls /\ rest \in Seq(CallOps)
    <3>1. /\ Head(todo) = <<"freeif", c, t>> /\ Tail(todo) = rest
          /\ n - 1 \in 0 .. NCtrls
      BY <1>4, <2>1, <2>2, LoopFacts
    <3>. QED
      BY <3>1, LoopOps
  <2>4. <<"freeif", c, t>>[1] = "freeif" /\ <<"freeif", c, t>>[2] = c /\ <<"freeif", c, t>>[3] = t
    OBVIOUS
  <2>5. <<Host, t>> \in records
    BY <1>4, <2>1, Names DEF FreeLoop, RecordsInv, Live
  <2>6. HeadOK
    <3>1. TouchedBy(<<"freeif", c, t>>) \subseteq records
      <4>1. TouchedBy(<<"freeif", c, t>>) = {<<Host, t>>}
        BY CallTouched
      <4>. QED
        BY <2>5, <4>1
    <3>2. <<"freeif", c, t>> \in CallOps
      BY CallOpsAre
    <3>. DEFINE o == <<"freeif", c, t>>
    <3>3. Head(todo) = o /\ o[1] = "freeif" /\ o \in CallOps /\ TouchedBy(o) \subseteq records
      BY <2>3, <3>1, <3>2
    <3>. HIDE DEF o
    <3>. QED
      BY <3>3, SMT DEF HeadOK
  <2>7. ASSUME MainStep PROVE FreeForm'
    <3>1. /\ type' = type /\ records' = records /\ slot' = slot
          /\ todo' = (IF Attached(c, t) THEN FreeTile(c, t) ELSE <<>>) \o rest
      <4>1. /\ Head(todo)[1] = "freeif" /\ Head(todo)[2] = c /\ Head(todo)[3] = t
        BY <2>3, <2>4
      <4>2. /\ type' = type /\ records' = records /\ slot' = slot
            /\ todo' = (IF Attached(Head(todo)[2], Head(todo)[3])
                        THEN FreeTile(Head(todo)[2], Head(todo)[3]) ELSE <<>>) \o Tail(todo)
        BY <2>7, <4>1, Frames
      <4>. QED
        BY <2>3, <4>1, <4>2, Zenon
    <3>2. FreeLoop(t, n - 1)'
      <4>1. n - 1 > 0 => NCtrls - (n - 1) .. NCtrls - 1 \subseteq NCtrls - n .. NCtrls - 1
        BY Names, SMT
      <4>. QED
        BY <1>4, <2>1, <3>1, <4>1 DEF FreeLoop, Attached
    <3>3. CASE Attached(c, t)
      <4>1. <<c, t>> \in records
        <5>1. c \in NCtrls - n .. NCtrls - 1
          BY <2>2, Names, SMT DEF Ctrl
        <5>. QED
          BY <1>4, <2>1, <3>3, <5>1 DEF FreeLoop
      <4>2. n - 1 > 0 => c < NCtrls - (n - 1)
        BY <2>2, Names, SMT
      <4>3. FreeRound(c, t, n - 1, rest)'
        BY <3>1, <3>3, <4>1, <4>2, FreeTileIs DEF FreeRound
      <4>. QED
        BY <1>1, <2>3, <3>1, <3>2, <4>3 DEF FreeForm
    <3>4. CASE ~Attached(c, t)
      <4>1. todo' = rest
        <5>1. todo' = <<>> \o rest
          BY <3>1, <3>4
        <5>. HIDE DEF rest
        <5>. QED
          BY <2>3, <5>1, Prefixed
      <4>. QED
        BY <1>1, <2>3, <3>1, <3>2, <4>1 DEF FreeForm
    <3>. QED
      BY <3>3, <3>4
  <2>. QED
    BY <2>6, <2>7 DEF OtherForm
<1>5. ASSUME FreeHostForm(t) PROVE HeadOK /\ (MainStep => OtherForm')
  <2>. DEFINE x == <<"release", HostSlots(t)>>
              y == <<"freehost", t>>
  <2>1. /\ <<Host, t>> \in records /\ \A c \in Ctrl : <<c, t>> \notin records
        /\ \/ todo = <<x, y>>
           \/ todo = <<y>> /\ Empty(HostSlots(t))
    BY <1>5 DEF FreeHostForm, Live
  <2>2. /\ x \in CallOps /\ x[1] = "release" /\ x[2] = HostSlots(t)
        /\ TouchedBy(x) \subseteq records
    <3>1. TouchedBy(x) \subseteq {<<Host, t>>}
      BY Names, CallTouched
    <3>. QED
      BY <2>1, <3>1, CallOpsAre, SlotKinds
  <2>3. /\ y \in CallOps /\ y[1] = "freehost" /\ y[2] = t
        /\ TouchedBy(y) \subseteq records
    <3>1. TouchedBy(y) = {<<Host, t>>}
      BY Names, CallTouched
    <3>. QED
      BY <2>1, <3>1, CallOpsAre
  <2>. HIDE DEF x, y
  <2>4. CASE todo = <<x, y>>
    <3>1. Head(todo) = x /\ Tail(todo) = <<y>>
      BY <2>4
    <3>2. HeadOK
      BY <2>2, <3>1, SMT DEF HeadOK
    <3>3. ASSUME MainStep PROVE FreeForm'
      <4>1. /\ todo' = <<y>> /\ type' = type /\ records' = records
            /\ slot' = [s \in Slot |-> IF s \in HostSlots(t) THEN NoEvent ELSE slot[s]]
        <5>1. Head(todo)[1] = "release" /\ Head(todo)[2] = HostSlots(t)
          BY <2>2, <3>1
        <5>2. /\ todo' = Tail(todo) /\ type' = type /\ records' = records
              /\ slot' = [s \in Slot |-> IF s \in Head(todo)[2] THEN NoEvent ELSE slot[s]]
          BY <3>3, <5>1, Frames
        <5>. QED
          BY <3>1, <5>1, <5>2, Zenon
      <4>2. slot'[KernelEvent] = NoEvent /\ Empty(HostSlots(t))'
        BY <1>1, <4>1, SlotKinds DEF Empty
      <4>3. FreeHostForm(t)'
        BY <2>1, <4>1, <4>2 DEF FreeHostForm, Live, y
      <4>. QED
        BY <4>2, <4>3 DEF FreeForm
    <3>. QED
      BY <3>2, <3>3 DEF OtherForm
  <2>5. CASE todo = <<y>> /\ Empty(HostSlots(t))
    <3>1. Head(todo) = y /\ Tail(todo) = <<>>
      BY <2>5, SMT
    <3>2. HeadOK
      BY <2>1, <2>3, <2>5, <3>1, SMT DEF HeadOK
    <3>3. ASSUME MainStep PROVE JobForm' /\ todo' = <<>>
      <4>1. todo' = <<>> /\ slot' = slot
        BY <2>3, <3>1, <3>3, Frames
      <4>. QED
        BY <1>1, <4>1, DoneForm
    <3>. QED
      BY <3>2, <3>3 DEF OtherForm
  <2>. QED
    BY <2>1, <2>4, <2>5
<1>. QED
  BY <1>2, <1>3, <1>4, <1>5

\* A tile is given a record on a ctrl, and then the events of the record.
LEMMA InitFormStep ==
  ASSUME TypeInv, RecordsInv, slot[KernelEvent] = NoEvent, NEW c \in Ctrl, NEW t \in Tiles,
         Live(t), host_status[t] # "UNALLOC", NEW rest \in Seq(CallOps), InitForm(c, t, rest)
  PROVE  /\ todo # <<>> /\ HeadOK
         /\ MainStep => /\ slot'[KernelEvent] = NoEvent /\ host_status' = host_status
                        /\ records \subseteq records' /\ type' \subseteq type \cup {<<c, t>>}
                        /\ InitForm(c, t, rest)' \/ todo' = rest
<1>. DEFINE x == <<"attach", c, t>>
            y == <<"create", ImplSlots(c, t)>>
<1>0. <<Host, t>> \in records
  BY DEF Live
<1>1. /\ x \in CallOps /\ x[1] = "attach" /\ x[2] = c /\ x[3] = t
      /\ TouchedBy(x) \subseteq records
  <2>1. TouchedBy(x) = {<<Host, t>>}
    BY CallTouched
  <2>. QED
    BY <1>0, <2>1, CallOpsAre
<1>2. /\ y \in CallOps /\ y[1] = "create" /\ y[2] = ImplSlots(c, t)
      /\ TouchedBy(y) \subseteq {<<c, t>>}
  BY CallOpsAre, SlotKinds, CallTouched
<1>3. KernelEvent \in Slot /\ KernelEvent \notin ImplSlots(c, t)
  BY SlotKinds
<1>4. \/ todo = <<x, y>> \o rest /\ ~Attached(c, t)
      \/ todo = <<y>> \o rest /\ <<c, t>> \in records /\ Empty(ImplSlots(c, t))
  BY DEF InitForm
<1>. HIDE DEF x, y
<1>5. CASE todo = <<x, y>> \o rest /\ ~Attached(c, t)
  <2>1. todo # <<>> /\ Head(todo) = x /\ Tail(todo) = <<y>> \o rest
    BY <1>5, Prefixed
  <2>2. HeadOK
    BY <1>1, <1>5, <2>1, SMT DEF HeadOK
  <2>3. ASSUME MainStep
        PROVE  /\ slot'[KernelEvent] = NoEvent /\ host_status' = host_status
               /\ records \subseteq records' /\ type' \subseteq type \cup {<<c, t>>}
               /\ InitForm(c, t, rest)'
    <3>1. /\ todo' = <<y>> \o rest /\ slot' = slot /\ host_status' = host_status
          /\ records' = records \cup {<<c, t>>}
          /\ type' = type \cup {<<c, t>>}
      <4>1. Head(todo)[1] = "attach" /\ Head(todo)[2] = c /\ Head(todo)[3] = t
        BY <1>1, <2>1
      <4>2. /\ todo' = Tail(todo) /\ slot' = slot /\ host_status' = host_status
            /\ records' = records \cup {<<Head(todo)[2], Head(todo)[3]>>}
            /\ type' = type \cup {<<Head(todo)[2], Head(todo)[3]>>}
        BY <2>3, <4>1, Frames
      <4>. QED
        BY <2>1, <4>1, <4>2, Zenon
    <3>2. Empty(ImplSlots(c, t))'
      BY <1>5, <3>1 DEF RecordsInv, Empty
    <3>3. InitForm(c, t, rest)'
      BY <3>1, <3>2 DEF InitForm, y
    <3>. QED
      BY <3>1, <3>3
  <2>. QED
    BY <2>1, <2>2, <2>3
<1>6. CASE todo = <<y>> \o rest /\ <<c, t>> \in records /\ Empty(ImplSlots(c, t))
  <2>1. todo # <<>> /\ Head(todo) = y /\ Tail(todo) = rest
    BY <1>6, Prefixed
  <2>2. HeadOK
    <3>1. TouchedBy(y) \subseteq records
      BY <1>2, <1>6
    <3>. QED
      BY <1>2, <1>3, <1>6, <2>1, <3>1, SMT DEF HeadOK
  <2>3. ASSUME MainStep
        PROVE  /\ slot'[KernelEvent] = NoEvent /\ host_status' = host_status
               /\ records \subseteq records' /\ type' \subseteq type \cup {<<c, t>>}
               /\ todo' = rest
    <3>1. /\ todo' = rest /\ host_status' = host_status
          /\ records' = records /\ type' = type
          /\ slot' = [s \in Slot |-> IF s \in ImplSlots(c, t) THEN NewEvent(s) ELSE slot[s]]
      <4>1. Head(todo)[1] = "create" /\ Head(todo)[2] = ImplSlots(c, t)
        BY <1>2, <2>1
      <4>2. /\ todo' = Tail(todo) /\ host_status' = host_status
            /\ records' = records /\ type' = type
            /\ slot' = [s \in Slot |-> IF s \in Head(todo)[2] THEN NewEvent(s) ELSE slot[s]]
        BY <2>3, <4>1, Frames
      <4>. QED
        BY <2>1, <4>1, <4>2, Zenon
    <3>. QED
      BY <1>3, <3>1
  <2>. QED
    BY <2>1, <2>2, <2>3
<1>. QED
  BY <1>4, <1>5, <1>6

\* An allocation that attaches a tile to a ctrl.
LEMMA AllocFormStep ==
  ASSUME TypeInv, RecordsInv, AllocForm, todo # <<>>
  PROVE  HeadOK /\ (MainStep => OtherForm')
<1>1. slot[KernelEvent] = NoEvent
  BY DEF AllocForm
<1>2. PICK c \in Ctrl, t \in Tiles :
        Live(t) /\ host_status[t] # "UNALLOC" /\ InitForm(c, t, <<>>)
  BY DEF AllocForm
<1>. DEFINE rest == <<>>
<1>3. rest \in Seq(CallOps)
  BY SMT
<1>4. InitForm(c, t, rest)
  BY <1>2
<1>. HIDE DEF rest
<1>5. /\ HeadOK
      /\ MainStep => /\ slot'[KernelEvent] = NoEvent /\ host_status' = host_status
                     /\ records \subseteq records'
                     /\ InitForm(c, t, rest)' \/ todo' = rest
  BY <1>1, <1>2, <1>3, <1>4, InitFormStep
<1>6. ASSUME MainStep, InitForm(c, t, rest)' PROVE AllocForm'
  <2>1. Live(t)' /\ host_status'[t] # "UNALLOC" /\ slot'[KernelEvent] = NoEvent
    BY <1>2, <1>5, <1>6 DEF Live
  <2>2. InitForm(c, t, <<>>)'
    BY <1>6 DEF rest
  <2>. QED
    BY <2>1, <2>2 DEF AllocForm
<1>7. ASSUME MainStep, todo' = rest PROVE JobForm' /\ todo' = <<>>
  BY <1>5, <1>7, DoneForm DEF rest
<1>. QED
  BY <1>5, <1>6, <1>7 DEF OtherForm

\* What the rounds left of a selection rely on stays when records are added
\* for the selection on other ctrls.
LEMMA SelectLoopKept ==
  ASSUME NEW s \in Selections, NEW n \in 0 .. NCtrls, SelectLoop(s, n),
         NEW m \in 0 .. n, NEW c, c < NCtrls - m, NCtrls - m \in Int, c \in Int,
         records \subseteq records', host_status' = host_status,
         type' \subseteq type \cup {<<c, s>>}
  PROVE  SelectLoop(s, m)'
<1>1. Selected[s] # s
  BY Names
<1>2. Live(Selected[s])' /\ host_status'[s] # "UNALLOC"
  BY DEF SelectLoop, Live
<1>3. ASSUME NEW x \in Ctrl, <<x, Selected[s]>> \in type'
      PROVE  <<x, Selected[s]>> \in records'
  <2>1. <<x, Selected[s]>> \in type
    BY <1>1, <1>3
  <2>. QED
    BY <2>1 DEF SelectLoop, Attached
<1>4. ASSUME NEW x \in NCtrls - m .. NCtrls - 1 PROVE <<x, s>> \notin type'
  <2>1. x \in NCtrls - n .. NCtrls - 1 /\ x # c
    BY Names, SMT
  <2>2. <<x, s>> \notin type
    BY <2>1 DEF SelectLoop, Attached
  <2>. QED
    BY <2>1, <2>2
<1>. QED
  BY <1>2, <1>3, <1>4 DEF SelectLoop, Attached

\* A round of a selection.
LEMMA SelectRoundStep ==
  ASSUME TypeInv, RecordsInv, slot[KernelEvent] = NoEvent,
         NEW s \in Selections, NEW n \in 0 .. NCtrls, SelectLoop(s, n), NEW c \in Ctrl,
         c < NCtrls - n, SelectRound(s, c, Loop("selectif", n, s))
  PROVE  todo # <<>> /\ HeadOK /\ (MainStep => SelectForm')
<1>. DEFINE rest == Loop("selectif", n, s)
            t == Selected[s]
            p == <<"peek", c, t>>
            more == <<p>> \o rest
<1>0. rest \in Seq(CallOps) /\ p \in CallOps /\ p[1] = "peek" /\ t \in Tiles /\ s \in Tiles
  BY LoopOps, CallOpsAre, Names
<1>1. /\ Live(s) /\ <<c, t>> \in records /\ host_status[s] # "UNALLOC" /\ Live(t)
      /\ InitForm(c, s, more) \/ todo = more
  BY DEF SelectRound, SelectLoop
<1>2. n \in 0 .. n /\ NCtrls - n \in Int /\ c \in Int
  BY Names, SMT DEF Ctrl
<1>3. ASSUME slot'[KernelEvent] = NoEvent, host_status' = host_status,
             records \subseteq records', type' \subseteq type \cup {<<c, s>>},
             InitForm(c, s, more)' \/ todo' = more \/ todo' = rest
      PROVE  SelectForm'
  <2>1. SelectLoop(s, n)'
    BY <1>2, <1>3, SelectLoopKept
  <2>2. Live(s)' /\ <<c, t>> \in records'
    BY <1>1, <1>3 DEF Live
  <2>3. CASE todo' = rest
    BY <1>3, <2>1, <2>2, <2>3 DEF SelectForm
  <2>4. CASE InitForm(c, s, more)' \/ todo' = more
    <3>1. SelectRound(s, c, rest)'
      BY <2>2, <2>4 DEF SelectRound
    <3>. QED
      BY <1>3, <2>1, <3>1 DEF SelectForm
  <2>. QED
    BY <1>3, <2>3, <2>4
<1>. HIDE DEF rest, p
<1>4. more \in Seq(CallOps)
  BY <1>0, PrefixedOps
<1>5. CASE InitForm(c, s, more)
  <2>. HIDE DEF more
  <2>. QED
    BY <1>0, <1>1, <1>3, <1>4, <1>5, InitFormStep
<1>6. CASE todo = more
  <2>1. todo # <<>> /\ Head(todo) = p /\ Tail(todo) = rest
    BY <1>0, <1>6, Prefixed
  <2>2. HeadOK
    <3>1. TouchedBy(p) \subseteq records
      <4>1. TouchedBy(p) = {<<c, t>>, <<Host, t>>}
        BY <1>0, CallTouched DEF p
      <4>. QED
        BY <1>1, <4>1 DEF Live
    <3>. QED
      BY <1>0, <2>1, <3>1, SMT DEF HeadOK
  <2>3. ASSUME MainStep PROVE SelectForm'
    <3>1. /\ todo' = rest /\ type' = type /\ records' = records /\ host_status' = host_status
          /\ slot' = slot
      BY <1>0, <2>1, <2>3, Frames
    <3>2. records \subseteq records' /\ type' \subseteq type \cup {<<c, s>>}
      BY <3>1
    <3>. QED
      BY <1>3, <3>1, <3>2
  <2>. QED
    BY <2>1, <2>2, <2>3
<1>. QED
  BY <1>1, <1>5, <1>6

\* A selection.
LEMMA SelectFormStep ==
  ASSUME TypeInv, RecordsInv, SelectForm, todo # <<>>
  PROVE  HeadOK /\ (MainStep => OtherForm')
<1>1. slot[KernelEvent] = NoEvent
  BY DEF SelectForm
<1>2. PICK s \in Selections, n \in 0 .. NCtrls :
       /\ SelectLoop(s, n)
       /\ \/ /\ todo = << <<"domain", s>>, <<"create", HostSlots(s)>> >> \o Loop("selectif", n, s)
             /\ ~Live(s)
          \/ /\ todo = << <<"create", HostSlots(s)>> >> \o Loop("selectif", n, s)
             /\ Live(s) /\ Empty(HostSlots(s))
          \/ todo = Loop("selectif", n, s) /\ Live(s)
          \/ \E c \in Ctrl : c < NCtrls - n /\ SelectRound(s, c, Loop("selectif", n, s))
  BY <1>1 DEF SelectForm
<1>. DEFINE rest == Loop("selectif", n, s)
            x == <<"domain", s>>
            y == <<"create", HostSlots(s)>>
            t == Selected[s]
<1>3. /\ rest \in Seq(CallOps) /\ s \in Tiles /\ t \in Tiles /\ t # s
      /\ Live(t) /\ host_status[s] # "UNALLOC"
  BY <1>2, LoopOps, Names DEF SelectLoop
<1>4. /\ x \in CallOps /\ x[1] = "domain" /\ x[2] = s /\ TouchedBy(x) = {}
      /\ y \in CallOps /\ y[1] = "create" /\ y[2] = HostSlots(s)
      /\ TouchedBy(y) \subseteq {<<Host, s>>}
  BY <1>3, Names, CallOpsAre, SlotKinds, CallTouched
<1>5. KernelEvent \in Slot /\ KernelEvent \notin HostSlots(s)
  BY <1>3, SlotKinds
<1>6. ASSUME records \subseteq records', type' = type, host_status' = host_status
      PROVE  SelectLoop(s, n)'
  BY <1>2, <1>6 DEF SelectLoop, Live, Attached
<1>. HIDE DEF x, y
<1>7. CASE todo = <<x, y>> \o rest /\ ~Live(s)
  <2>. HIDE DEF rest
  <2>1. Head(todo) = x /\ Tail(todo) = <<y>> \o rest
    BY <1>3, <1>7, Prefixed
  <2>2. HeadOK
    <3>1. TouchedBy(x) \subseteq records
      BY <1>4
    <3>. QED
      BY <1>3, <1>4, <2>1, <3>1, SMT DEF HeadOK
  <2>3. ASSUME MainStep PROVE SelectForm'
    <3>1. /\ todo' = <<y>> \o rest /\ slot' = slot /\ type' = type /\ host_status' = host_status
          /\ records' = records \cup {<<Host, s>>}
      <4>1. Head(todo)[1] = "domain" /\ Head(todo)[2] = s
        BY <1>4, <2>1
      <4>2. /\ todo' = Tail(todo) /\ slot' = slot /\ type' = type /\ host_status' = host_status
            /\ records' = records \cup {<<Host, Head(todo)[2]>>}
        BY <2>3, <4>1, Frames
      <4>. QED
        BY <2>1, <4>1, <4>2, Zenon
    <3>2. SelectLoop(s, n)'
      BY <1>6, <3>1
    <3>3. Live(s)' /\ Empty(HostSlots(s))'
      BY <1>3, <1>7, <3>1 DEF Live, RecordsInv, Empty
    <3>. QED
      BY <1>1, <3>1, <3>2, <3>3 DEF SelectForm, rest, y
  <2>. QED
    BY <2>2, <2>3 DEF OtherForm
<1>8. CASE todo = <<y>> \o rest /\ Live(s) /\ Empty(HostSlots(s))
  <2>. HIDE DEF rest
  <2>1. Head(todo) = y /\ Tail(todo) = rest
    BY <1>3, <1>8, Prefixed
  <2>2. HeadOK
    <3>1. TouchedBy(y) \subseteq records
      BY <1>4, <1>8 DEF Live
    <3>. QED
      BY <1>4, <1>5, <1>8, <2>1, <3>1, SMT DEF HeadOK
  <2>3. ASSUME MainStep PROVE SelectForm'
    <3>1. /\ todo' = rest /\ type' = type /\ host_status' = host_status /\ records' = records
          /\ slot' = [r \in Slot |-> IF r \in HostSlots(s) THEN NewEvent(r) ELSE slot[r]]
      <4>1. Head(todo)[1] = "create" /\ Head(todo)[2] = HostSlots(s)
        BY <1>4, <2>1
      <4>2. /\ todo' = Tail(todo) /\ type' = type /\ host_status' = host_status
            /\ records' = records
            /\ slot' = [r \in Slot |-> IF r \in Head(todo)[2] THEN NewEvent(r) ELSE slot[r]]
        BY <2>3, <4>1, Frames
      <4>. QED
        BY <2>1, <4>1, <4>2, Zenon
    <3>2. SelectLoop(s, n)' /\ Live(s)' /\ slot'[KernelEvent] = NoEvent
      BY <1>1, <1>5, <1>6, <1>8, <3>1 DEF Live
    <3>. QED
      BY <3>1, <3>2 DEF SelectForm, rest
  <2>. QED
    BY <2>2, <2>3 DEF OtherForm
<1>9. CASE todo = rest /\ Live(s)
  <2>1. n > 0
    <3>1. n # 0
      BY <1>9, LoopFacts
    <3>. QED
      BY <3>1, SMT
  <2>2. PICK c \in Ctrl : c = NCtrls - n
    BY <2>1, LoopFacts
  <2>. DEFINE less == Loop("selectif", n - 1, s)
              o == <<"selectif", c, s>>
              p == <<"peek", c, t>>
  <2>3. /\ Head(todo) = o /\ Tail(todo) = less
        /\ n - 1 \in 0 .. NCtrls /\ less \in Seq(CallOps)
    <3>1. Head(todo) = o /\ Tail(todo) = less /\ n - 1 \in 0 .. NCtrls
      BY <1>9, <2>1, <2>2, LoopFacts
    <3>. QED
      BY <1>3, <3>1, LoopOps
  <2>4. /\ o[1] = "selectif" /\ o[2] = c /\ o[3] = s /\ o \in CallOps
        /\ TouchedBy(o) \subseteq records
    <3>1. TouchedBy(o) = {<<Host, s>>, <<Host, t>>}
      BY <1>3, CallTouched
    <3>2. TouchedBy(o) \subseteq records
      BY <1>3, <1>9, <3>1 DEF Live
    <3>. QED
      BY <1>3, <3>2, CallOpsAre
  <2>. HIDE DEF o, rest, less
  <2>5. HeadOK
    BY <2>3, <2>4, SMT DEF HeadOK
  <2>6. ASSUME MainStep PROVE SelectForm'
    <3>1. /\ type' = type /\ records' = records /\ slot' = slot /\ host_status' = host_status
          /\ todo' = (IF Attached(c, t) THEN InitTile(c, s) \o <<p>> ELSE <<>>) \o less
      <4>1. Head(todo)[1] = "selectif" /\ Head(todo)[2] = c /\ Head(todo)[3] = s
        BY <2>3, <2>4
      <4>2. /\ type' = type /\ records' = records /\ slot' = slot /\ host_status' = host_status
            /\ todo' = (IF Attached(Head(todo)[2], Selected[Head(todo)[3]])
                        THEN InitTile(Head(todo)[2], Head(todo)[3])
                             \o << <<"peek", Head(todo)[2], Selected[Head(todo)[3]]>> >>
                        ELSE <<>>) \o Tail(todo)
        BY <2>6, <4>1, Frames
      <4>. QED
        BY <2>3, <4>1, <4>2, Zenon
    <3>2. /\ n - 1 \in 0 .. n /\ c < NCtrls - (n - 1) /\ NCtrls - (n - 1) \in Int /\ c \in Int
      BY <2>1, <2>2, Names, SMT
    <3>3. records \subseteq records' /\ type' \subseteq type \cup {<<c, s>>}
      BY <3>1
    <3>4. SelectLoop(s, n - 1)' /\ Live(s)'
      BY <1>2, <1>9, <3>1, <3>2, <3>3, SelectLoopKept DEF Live
    <3>5. CASE Attached(c, t)
      <4>1. <<c, t>> \in records /\ ~Attached(c, s)
        <5>1. c \in NCtrls - n .. NCtrls - 1
          BY <2>1, <2>2, Names, SMT DEF Ctrl
        <5>. QED
          BY <1>2, <3>5, <5>1 DEF SelectLoop
      <4>. DEFINE a == <<"attach", c, s>>
                  b == <<"create", ImplSlots(c, s)>>
      <4>2. todo' = <<a, b>> \o (<<p>> \o less)
        <5>1. todo' = (<<a, b>> \o <<p>>) \o less
          BY <3>1, <3>5, FreeTileIs
        <5>2. a \in CallOps /\ b \in CallOps /\ p \in CallOps
          BY <1>3, CallOpsAre, SlotKinds
        <5>. HIDE DEF a, b, p
        <5>. DEFINE v == <<a, b>>
                    w == <<p>>
        <5>3. v \in Seq(CallOps) /\ w \in Seq(CallOps)
          BY <5>2
        <5>. HIDE DEF v, w
        <5>4. Cat(Cat(v, w), less) = Cat(v, Cat(w, less))
          BY <2>3, <5>3, CatAssociative
        <5>. QED
          BY <5>1, <5>4 DEF Cat, v, w
      <4>3. InitForm(c, s, <<p>> \o less)'
        BY <3>1, <4>1, <4>2 DEF InitForm, Attached
      <4>4. SelectRound(s, c, less)'
        BY <3>1, <3>4, <4>1, <4>3 DEF SelectRound
      <4>. QED
        BY <1>1, <2>3, <3>1, <3>2, <3>4, <4>4 DEF SelectForm, less
    <3>6. CASE ~Attached(c, t)
      <4>1. todo' = less
        BY <2>3, <3>1, <3>6, Prefixed
      <4>. QED
        BY <1>1, <2>3, <3>1, <3>4, <4>1 DEF SelectForm, less
    <3>. QED
      BY <3>5, <3>6
  <2>. QED
    BY <2>5, <2>6 DEF OtherForm
<1>10. CASE \E c \in Ctrl : c < NCtrls - n /\ SelectRound(s, c, rest)
  <2>1. PICK c \in Ctrl : c < NCtrls - n /\ SelectRound(s, c, rest)
    BY <1>10
  <2>. QED
    BY <1>1, <1>2, <2>1, SelectRoundStep DEF OtherForm
<1>. QED
  BY <1>2, <1>7, <1>8, <1>9, <1>10 DEF x, y

\* The other calls push nothing.
LEMMA OtherFormPushes ==
  OtherForm /\ TypeInv /\ RecordsInv => TodoForm /\ NoPush
<1>. SUFFICES ASSUME OtherForm, TypeInv, RecordsInv PROVE TodoForm /\ NoPush
  OBVIOUS
<1>1. CASE todo = <<>>
  BY <1>1 DEF OtherForm, TodoForm, NoPush
<1>2. CASE todo # <<>>
  <2>1. HeadOK
    BY <1>2, FreeFormStep, AllocFormStep, SelectFormStep DEF OtherForm
  <2>2. ~PushesEvent(Head(todo))
    BY <2>1, CallOpFacts DEF HeadOK
  <2>. QED
    BY <2>2 DEF OtherForm, TodoForm, NoPush
<1>. QED
  BY <1>1, <1>2
-----------------------------------------------------------------------------
(* What every operation of the main thread relies on.                      *)

OpOK ==
  LET o == Head(todo)
  IN /\ TouchedBy(o) \subseteq records
     /\ o[1] = "streamwait" => o[2] \in Queue /\ o[3] \in Slot
     /\ o[1] = "retain" => o[2] \in Slot
     /\ o[1] = "push" => o[2] \in Queue /\ o[3] \in Kinds /\ o[4] \in Slot /\ o[5] \in Tiles
     /\ o[1] = "share" => o[2] \in Slot /\ o[3] \in Slot /\ slot[o[2]] = NoEvent
     /\ o[1] = "record" => o[2] \in CpuSlot /\ o[3] \in Queue
     /\ o[1] \in {"release", "create"} => o[2] \in SUBSET Slot
     /\ o[1] = "create" => Empty(o[2])
     /\ o[1] = "detach" => /\ <<o[2], o[3]>> \in records
                           /\ o[2] \in Ctrl /\ o[3] \in Tiles
     /\ o[1] = "attach" => /\ ~Attached(o[2], o[3]) /\ Live(o[3])
                           /\ o[2] \in Ctrl /\ o[3] \in Tiles
                           /\ host_status[o[3]] # "UNALLOC"
     /\ o[1] = "freehost" => /\ Empty(HostSlots(o[2])) /\ o[2] \in Tiles
                             /\ \A c \in Ctrl : <<c, o[2]>> \notin records
     /\ o[1] = "selectif" => o[2] \in Ctrl /\ o[3] \in Selections
     /\ o[1] = "domain" => o[2] \in Tiles

\* The next operation of any call finds what it relies on.
LEMMA HeadFacts ==
  ASSUME TypeInv, RecordsInv, TodoForm, todo # <<>>
  PROVE  OpOK
<1>. DEFINE o == Head(todo)
<1>1. CASE JobForm
  <2>1. /\ o \in JobOps /\ TouchedBy(o) \subseteq records
        /\ o[1] = "create" => Empty(o[2])
        /\ o[1] = "share" => slot[o[2]] = NoEvent
    BY <1>1, JobHead
  <2>. HIDE DEF o
  <2>2. /\ o[1] \in {"streamwait", "retain", "push", "release", "create", "share",
                      "record", "synchronize"}
        /\ o[1] = "streamwait" => o[2] \in Queue /\ o[3] \in Slot
        /\ o[1] = "retain" => o[2] \in Slot
        /\ o[1] = "push" => o[2] \in Queue /\ o[3] \in Kinds /\ o[4] \in Slot /\ o[5] \in Tiles
        /\ o[1] \in {"release", "create"} => \E s \in Slot : o[2] = {s}
        /\ o[1] = "share" => o[2] \in Slot \ {KernelEvent} /\ o[3] \in Slot
        /\ o[1] = "record" => o[2] \in CpuSlot /\ o[3] \in Queue
    BY <2>1, JobOpFacts
  <2>3. o[1] \in {"release", "create"} => o[2] \in SUBSET Slot
    BY <2>2
  <2>4. o[1] \notin {"detach", "attach", "freehost", "selectif", "domain"}
    BY <2>2
  <2>. QED
    BY <2>1, <2>2, <2>3, <2>4 DEF OpOK, o
<1>2. CASE FreeForm \/ AllocForm \/ SelectForm
  <2>1. HeadOK
    BY <1>2, FreeFormStep, AllocFormStep, SelectFormStep
  <2>2. /\ o \in CallOps /\ TouchedBy(o) \subseteq records
        /\ o[1] = "create" => Empty(o[2])
        /\ o[1] = "detach" => <<o[2], o[3]>> \in records /\ o[2] \in Ctrl
        /\ o[1] = "attach" => /\ ~Attached(o[2], o[3]) /\ Live(o[3])
                              /\ o[2] \in Ctrl /\ o[3] \in Tiles
                              /\ host_status[o[3]] # "UNALLOC"
        /\ o[1] = "freehost" => /\ Empty(HostSlots(o[2])) /\ o[2] \in Tiles
                                /\ \A c \in Ctrl : <<c, o[2]>> \notin records
        /\ o[1] = "selectif" => o[2] \in Ctrl /\ o[3] \in Selections
        /\ o[1] = "domain" => o[2] \in Tiles
    BY <2>1 DEF HeadOK
  <2>. HIDE DEF o
  <2>3. /\ o[1] \notin {"streamwait", "retain", "push", "share", "record", "synchronize"}
        /\ o[1] \in {"release", "create"} => o[2] \in SUBSET Slot
    BY <2>2, CallOpFacts
  <2>4. o[1] = "detach" => o[3] \in Tiles
    BY <2>2, SMT DEF TypeInv, TileTypes
  <2>. QED
    BY <2>2, <2>3, <2>4 DEF OpOK, o
<1>. QED
  BY <1>1, <1>2 DEF TodoForm

\* What an operation leaves of its call, and whether a push follows.
LEMMA MainForm ==
  ASSUME TypeInv, RecordsInv, TodoForm, MainStep
  PROVE  \/ OtherForm' /\ NoPush /\ Head(todo)[1] \notin {"retain", "push"}
         \/ /\ JobForm'
            /\ Head(todo)[1] # "retain" => NoPush'
            /\ Head(todo)[1] # "push" => NoPush
            /\ Head(todo)[1] = "retain" => /\ todo' # <<>> /\ PushesEvent(Head(todo'))
                                           /\ Head(todo')[4] = Head(todo)[2]
<1>0. todo # <<>>
  BY NextAction
<1>1. CASE JobForm
  <2>. DEFINE o == Head(todo)
  <2>1. /\ o \in JobOps
        /\ o[1] # "retain" => (Tail(todo) # <<>> => ~PushesEvent(Head(Tail(todo))))
        /\ o[1] = "retain" => /\ Tail(todo) # <<>> /\ PushesEvent(Head(Tail(todo)))
                              /\ Head(Tail(todo))[4] = o[2]
    BY <1>0, <1>1, JobHead
  <2>2. /\ o[1] \in {"streamwait", "retain", "push", "release", "create", "share",
                      "record", "synchronize"}
        /\ o[1] \in {"release", "create"} => \E s \in Slot : o[2] = {s}
        /\ o[1] = "share" => o[2] \in Slot \ {KernelEvent}
    <3>. HIDE DEF o
    <3>. QED
      BY <2>1, JobOpFacts
  <2>3. /\ todo' = Tail(todo) /\ records' = records
        /\ o[1] \in {"streamwait", "retain", "push", "record", "synchronize"} => slot' = slot
        /\ o[1] = "share" => slot' = [slot EXCEPT ![o[2]] = slot[o[3]]]
        /\ o[1] = "release" => slot' = [s \in Slot |-> IF s \in o[2] THEN NoEvent ELSE slot[s]]
        /\ o[1] = "create" => slot' = [s \in Slot |-> IF s \in o[2] THEN NewEvent(s) ELSE slot[s]]
    <3>1. CASE o[1] = "streamwait"
      BY <3>1, NextAction DEF PushWait, NextOp, tileVars, slotVars
    <3>2. CASE o[1] = "retain"
      BY <3>2, NextAction DEF Retain, NextOp, tileVars, slotVars
    <3>3. CASE o[1] = "push"
      BY <3>3, NextAction DEF PushTask, NextOp, tileVars, slotVars
    <3>4. CASE o[1] = "record"
      BY <3>4, NextAction DEF Record, NextOp, tileVars
    <3>5. CASE o[1] = "synchronize"
      BY <3>5, NextAction DEF Synchronize, NextOp, tileVars, slotVars
    <3>6. CASE o[1] = "share"
      BY <3>6, NextAction DEF Share, NextOp, tileVars
    <3>7. CASE o[1] \in {"release", "create"}
      BY <3>7, Frames
    <3>. HIDE DEF o
    <3>. QED
      BY <2>2, <3>1, <3>2, <3>3, <3>4, <3>5, <3>6, <3>7
  <2>4. DOMAIN slot = Slot /\ KernelEvent \in Slot
    BY SlotKinds DEF TypeInv
  <2>. HIDE DEF o
  <2>5. o[1] = "release" => \A s \in o[2] : slot'[s] = NoEvent
    BY <2>2, <2>3
  <2>6. KernelEvent \notin Fills(o) => slot'[KernelEvent] \in {slot[KernelEvent], NoEvent}
    <3>1. CASE o[1] \in {"streamwait", "retain", "push", "record", "synchronize"}
      BY <2>3, <3>1
    <3>2. CASE o[1] = "share"
      BY <2>2, <2>3, <2>4, <3>2
    <3>3. CASE o[1] = "release"
      BY <2>3, <2>4, <3>3
    <3>4. CASE o[1] = "create"
      <4>1. Fills(o) = o[2]
        BY <3>4, FillsAre
      <4>. QED
        BY <2>3, <2>4, <3>4, <4>1
    <3>. QED
      BY <2>2, <3>1, <3>2, <3>3, <3>4
  <2>7. JobForm'
    BY <1>0, <1>1, <2>3, <2>5, <2>6, JobFormStep DEF o
  <2>8. o[1] # "push" => NoPush
    BY DEF o, NoPush, PushesEvent
  <2>9. o[1] # "retain" => NoPush'
    BY <2>1, <2>3 DEF NoPush
  <2>. QED
    BY <2>1, <2>3, <2>7, <2>8, <2>9 DEF o
<1>2. CASE FreeForm \/ AllocForm \/ SelectForm
  <2>1. OtherForm'
    BY <1>0, <1>2, FreeFormStep, AllocFormStep, SelectFormStep
  <2>2. NoPush
    BY <1>2, OtherFormPushes DEF OtherForm
  <2>3. Head(todo) \in CallOps
    BY <1>0, <1>2, FreeFormStep, AllocFormStep, SelectFormStep DEF HeadOK
  <2>4. Head(todo)[1] \notin {"retain", "push"}
    BY <2>3, CallOpFacts
  <2>. QED
    BY <2>1, <2>2, <2>4
<1>. QED
  BY <1>1, <1>2 DEF TodoForm
-----------------------------------------------------------------------------
(* Types, step by step.                                                    *)

\* An event that is retained.
LEMMA RetainedTypes ==
  ASSUME CountTypes, NEW e, ref_count' = Retained(e)
  PROVE  CountTypes'
<1>1. DOMAIN ref_count' = DOMAIN ref_count
  BY DEF Retained
<1>2. ASSUME NEW x \in DOMAIN ref_count PROVE ref_count'[x] \in Nat \ {0}
  <2>1. ref_count[x] \in Nat \ {0} /\ ref_count[x] + 1 \in Nat \ {0}
    <3>1. ref_count[x] \in Nat \ {0}
      BY DEF CountTypes
    <3>. DEFINE r == ref_count[x]
    <3>. HIDE DEF r
    <3>2. r \in Nat \ {0} => r + 1 \in Nat \ {0}
      BY SMT
    <3>. QED
      BY <3>1, <3>2 DEF r
  <2>2. ref_count'[x] = IF x = e THEN ref_count[x] + 1 ELSE ref_count[x]
    BY DEF Retained
  <2>. QED
    BY <2>1, <2>2
<1>3. ref_count' = [x \in DOMAIN ref_count |-> ref_count'[x]]
  BY DEF Retained
<1>4. ref_count' \in [DOMAIN ref_count -> Nat \ {0}]
  BY <1>2, <1>3
<1>. QED
  BY <1>1, <1>4 DEF CountTypes

\* Events that are released, and some of them destroyed.
LEMMA ReleasedTypes ==
  ASSUME CountTypes, NEW n \in [DOMAIN ref_count -> Nat], ref_count' = Released(n)
  PROVE  CountTypes'
<1>1. DOMAIN ref_count' \subseteq DOMAIN ref_count
  BY DEF Released
<1>2. ASSUME NEW x \in DOMAIN ref_count' PROVE ref_count'[x] \in Nat \ {0}
  <2>1. /\ x \in DOMAIN ref_count /\ ref_count[x] > n[x]
        /\ ref_count'[x] = ref_count[x] - n[x]
    BY DEF Released
  <2>2. ref_count[x] \in Nat /\ n[x] \in Nat
    BY <2>1 DEF CountTypes
  <2>. DEFINE r == ref_count[x]
              m == n[x]
  <2>. HIDE DEF r, m
  <2>3. r \in Nat /\ m \in Nat /\ r > m => r - m \in Nat \ {0}
    BY SMT
  <2>. QED
    BY <2>1, <2>2, <2>3 DEF r, m
<1>3. ref_count' = [x \in DOMAIN ref_count' |-> ref_count'[x]]
  BY DEF Released
<1>4. ref_count' \in [DOMAIN ref_count' -> Nat \ {0}]
  BY <1>2, <1>3
<1>5. IsFiniteSet(DOMAIN ref_count')
  BY <1>1, FS_Subset DEF CountTypes
<1>. QED
  BY <1>1, <1>4, <1>5 DEF CountTypes

\* Events that are created.
LEMMA CreatedTypes ==
  ASSUME CountTypes, QueueTypes, NEW S \in SUBSET Slot,
         ref_count' = [e \in DOMAIN ref_count \cup {NewEvent(s) : s \in S} |->
                         IF e \in DOMAIN ref_count THEN ref_count[e] ELSE 1]
  PROVE  CountTypes'
<1>. DEFINE New == {NewEvent(s) : s \in S}
<1>1. \A s \in S : NewEvent(s) \in Ids /\ NewEvent(s) # NoEvent
  BY NewEventUnused
<1>2. New \subseteq Ids /\ NoEvent \notin New
  BY <1>1
<1>3. IsFiniteSet(New)
  <2>. DEFINE f == [s \in S |-> NewEvent(s)]
  <2>1. f \in [S -> New] /\ \A y \in New : \E s \in S : f[s] = y
    OBVIOUS
  <2>. HIDE DEF f, New
  <2>. QED
    BY <2>1, SlotsFinite, ImageFinite
<1>4. DOMAIN ref_count' = DOMAIN ref_count \cup New
  OBVIOUS
<1>5. \A e \in DOMAIN ref_count' : ref_count'[e] = IF e \in DOMAIN ref_count THEN ref_count[e] ELSE 1
  OBVIOUS
<1>6. ref_count' = [e \in DOMAIN ref_count' |-> ref_count'[e]]
  OBVIOUS
<1>. HIDE DEF New
<1>7. \A e \in DOMAIN ref_count : ref_count[e] \in Nat \ {0}
  BY DEF CountTypes
<1>8. \A e \in DOMAIN ref_count' : ref_count'[e] \in Nat \ {0}
  <2>1. 1 \in Nat \ {0}
    BY SMT
  <2>. QED
    BY <1>5, <1>7, <2>1
<1>9. ref_count' \in [DOMAIN ref_count' -> Nat \ {0}]
  BY <1>6, <1>8
<1>10. IsFiniteSet(DOMAIN ref_count')
  BY <1>3, <1>4, FS_Union DEF CountTypes
<1>. QED
  BY <1>2, <1>4, <1>9, <1>10 DEF CountTypes

\* A task as it is pushed.
LEMMA TaskTypes ==
  ASSUME TypeInv, NEW kind \in Kinds \cup {"wait"}, NEW s \in Slot, NEW t \in Tiles \cup {NoTile}
  PROVE  Task(kind, s, t) \in TaskSet
<1>1. slot[s] \in Ids /\ NoEvent \in Ids
  BY EventNames DEF TypeInv
<1>2. (IF s \in CpuSlot THEN recorded[s] ELSE Unrecorded) \in Queue \X Nat
  BY QueuesAre DEF TypeInv, Unrecorded
<1>. QED
  BY <1>1, <1>2 DEF Task, TaskSet

\* A queue that gets a task.
LEMMA PushTypes ==
  ASSUME QueueTypes, NEW q \in Queue, NEW task \in TaskSet, PushOn(q, task),
         running' = running
  PROVE  QueueTypes'
<1>1. /\ queue[q] \in Seq(TaskSet) /\ pushed[q] \in Nat /\ last_finished[q] \in Nat
      /\ pushed[q] = last_finished[q] + Len(queue[q])
  BY DEF QueueTypes
<1>2. /\ queue' = [queue EXCEPT ![q] = Append(queue[q], task)]
      /\ pushed' = [pushed EXCEPT ![q] = pushed[q] + 1]
      /\ last_finished' = last_finished
  BY DEF PushOn
<1>. DEFINE l == queue[q]
            m == Append(queue[q], task)
            k == pushed[q]
            f == last_finished[q]
<1>3. m \in Seq(TaskSet) /\ Len(l) \in Nat /\ Len(m) = Len(l) + 1
  BY <1>1, Appended
<1>4. k + 1 \in Nat /\ k + 1 = f + Len(m)
  <2>1. k = f + Len(l) /\ k \in Nat /\ f \in Nat
    BY <1>1
  <2>. HIDE DEF l, m, k, f
  <2>. QED
    BY <1>3, <2>1, SMT
<1>5. queue' \in [Queue -> Seq(TaskSet)] /\ queue'[q] = m
  BY <1>2, <1>3 DEF QueueTypes
<1>6. pushed' \in [Queue -> Nat] /\ pushed'[q] = k + 1
  BY <1>2, <1>4 DEF QueueTypes
<1>7. ASSUME NEW p \in Queue PROVE pushed'[p] = last_finished'[p] + Len(queue'[p])
  <2>1. CASE p = q
    <3>. HIDE DEF m, k
    <3>1. k + 1 = last_finished'[p] + Len(m)
      BY <1>2, <1>4, <2>1
    <3>. QED
      BY <1>5, <1>6, <2>1, <3>1
  <2>2. CASE p # q
    BY <1>2, <2>2 DEF QueueTypes
  <2>. QED
    BY <2>1, <2>2
<1>. QED
  BY <1>2, <1>5, <1>6, <1>7 DEF QueueTypes

\* A queue that loses its head.
LEMMA ConsumeTypes ==
  ASSUME QueueTypes, NEW q \in Queue, Consume(q),
         running' \in [DriverQueue -> Seq(TaskSet)]
  PROVE  QueueTypes'
<1>1. /\ queue[q] \in Seq(TaskSet) /\ pushed[q] \in Nat /\ last_finished[q] \in Nat
      /\ pushed[q] = last_finished[q] + Len(queue[q])
  BY DEF QueueTypes
<1>2. /\ queue[q] # <<>>
      /\ queue' = [queue EXCEPT ![q] = Tail(queue[q])]
      /\ last_finished' = [last_finished EXCEPT ![q] = last_finished[q] + 1]
      /\ pushed' = pushed
  BY DEF Consume
<1>. DEFINE l == queue[q]
            m == Tail(queue[q])
            k == pushed[q]
            f == last_finished[q]
<1>3. m \in Seq(TaskSet) /\ Len(l) \in Nat /\ Len(m) = Len(l) - 1
  <2>1. l \in Seq(TaskSet) /\ l # <<>> /\ m = Tail(l)
    BY <1>1, <1>2
  <2>. HIDE DEF l, m
  <2>. QED
    BY <2>1, HeadTailProperties, LenProperties
<1>4. f + 1 \in Nat /\ k = (f + 1) + Len(m)
  <2>1. k = f + Len(l) /\ k \in Nat /\ f \in Nat
    BY <1>1
  <2>. HIDE DEF l, m, k, f
  <2>. QED
    BY <1>3, <2>1, SMT
<1>5. queue' \in [Queue -> Seq(TaskSet)] /\ queue'[q] = m
  BY <1>2, <1>3 DEF QueueTypes
<1>6. last_finished' \in [Queue -> Nat] /\ last_finished'[q] = f + 1
  BY <1>2, <1>4 DEF QueueTypes
<1>7. ASSUME NEW p \in Queue PROVE pushed'[p] = last_finished'[p] + Len(queue'[p])
  <2>1. CASE p = q
    <3>1. pushed'[p] = k
      BY <1>2, <2>1
    <3>. HIDE DEF m, k, f
    <3>. QED
      BY <1>4, <1>5, <1>6, <2>1, <3>1
  <2>2. CASE p # q
    BY <1>2, <2>2 DEF QueueTypes
  <2>. QED
    BY <2>1, <2>2
<1>. QED
  BY <1>2, <1>5, <1>6, <1>7 DEF QueueTypes

\* The counters a release takes references from.
LEMMA ReleaseCounts ==
  ASSUME NEW S \in SUBSET Slot
  PROVE  [e \in DOMAIN ref_count |-> Cardinality({s \in S : slot[s] = e})]
           \in [DOMAIN ref_count -> Nat]
<1>1. ASSUME NEW e \in DOMAIN ref_count PROVE Cardinality({s \in S : slot[s] = e}) \in Nat
  <2>1. {s \in S : slot[s] = e} \in SUBSET Slot
    OBVIOUS
  <2>. DEFINE H == {s \in S : slot[s] = e}
  <2>2. IsFiniteSet(H)
    BY <2>1, SlotsFinite
  <2>. HIDE DEF H
  <2>3. Cardinality(H) \in Nat
    BY <2>2, FS_CardinalityType
  <2>. QED
    BY <2>3 DEF H
<1>. QED
  BY <1>1

\* A ctrl with a record of a tile is one of its valid_impls.
LEMMA DetachedImpls ==
  ASSUME RecordsInv, NEW c \in Ctrl, NEW t \in Tiles, <<c, t>> \in records
  PROVE  valid_impls[t] \in Nat \ {0} /\ valid_impls[t] - 1 \in Nat
<1>1. valid_impls[t] = Cardinality(CtrlsOf(t))
  BY DEF RecordsInv
<1>2. IsFiniteSet(CtrlsOf(t)) /\ Cardinality(CtrlsOf(t)) \in Nat
  BY CtrlsFinite, FS_CardinalityType
<1>3. CtrlsOf(t) # {}
  BY DEF CtrlsOf
<1>4. Cardinality(CtrlsOf(t)) # 0
  BY <1>2, <1>3, FS_EmptySet
<1>. DEFINE k == valid_impls[t]
<1>5. k \in Nat /\ k # 0
  BY <1>1, <1>2, <1>4
<1>. HIDE DEF k
<1>6. k \in Nat \ {0} /\ k - 1 \in Nat
  BY <1>5, SMT
<1>. QED
  BY <1>6 DEF k

\* Types are kept by the main thread's operations.
LEMMA MainTypes ==
  ASSUME TypeInv, RecordsInv, TodoForm, MainStep
  PROVE  TypeInv'
<1>. DEFINE o == Head(todo)
<1>0. todo # <<>>
  BY NextAction
<1>1. OpOK
  BY <1>0, HeadFacts
<1>2. /\ policy \in {"SYNC", "ASYNC"} /\ jobs \in 0 .. MaxJobs
      /\ slot \in [Slot -> Ids] /\ recorded \in [CpuSlot -> Queue \X Nat]
      /\ TileTypes /\ CountTypes /\ QueueTypes
  BY DEF TypeInv
<1>4. CASE o[1] = "streamwait"
  <2>1. /\ o[2] \in Queue /\ o[3] \in Slot
        /\ PushWait
    BY <1>1, <1>4, NextAction DEF OpOK
  <2>2. /\ ref_count' = Retained(slot[o[3]])
        /\ PushOn(o[2], Task("wait", o[3], NoTile))
        /\ UNCHANGED <<policy, jobs, tileVars, slotVars, running>>
    BY <2>1 DEF PushWait, HeldByWait
  <2>. HIDE DEF o
  <2>3. Task("wait", o[3], NoTile) \in TaskSet
    BY <2>1, TaskTypes
  <2>4. QueueTypes'
    BY <1>2, <2>1, <2>2, <2>3, PushTypes
  <2>5. CountTypes'
    BY <1>2, <2>2, RetainedTypes
  <2>. QED
    BY <1>2, <2>2, <2>4, <2>5 DEF TypeInv, TileTypes, tileVars, slotVars
<1>5. CASE o[1] = "retain"
  <2>1. /\ ref_count' = Retained(slot[o[2]])
        /\ UNCHANGED <<policy, jobs, tileVars, slotVars, queueVars, running>>
    BY <1>5, NextAction DEF Retain
  <2>. HIDE DEF o
  <2>2. CountTypes'
    BY <1>2, <2>1, RetainedTypes
  <2>. QED
    BY <1>2, <2>1, <2>2 DEF TypeInv, TileTypes, QueueTypes, tileVars, slotVars, queueVars
<1>6. CASE o[1] = "push"
  <2>1. /\ o[2] \in Queue /\ o[3] \in Kinds /\ o[4] \in Slot /\ o[5] \in Tiles
        /\ PushTask
    BY <1>1, <1>6, NextAction DEF OpOK
  <2>2. /\ PushOn(o[2], Task(o[3], o[4], o[5]))
        /\ UNCHANGED <<policy, jobs, tileVars, slotVars, ref_count, running>>
    BY <2>1 DEF PushTask
  <2>. HIDE DEF o
  <2>3. Task(o[3], o[4], o[5]) \in TaskSet
    BY <2>1, TaskTypes
  <2>4. QueueTypes'
    BY <1>2, <2>1, <2>2, <2>3, PushTypes
  <2>. QED
    BY <1>2, <2>2, <2>4 DEF TypeInv, TileTypes, CountTypes, tileVars, slotVars
<1>7. CASE o[1] = "release"
  <2>1. o[2] \in SUBSET Slot /\ Release
    BY <1>1, <1>7, NextAction DEF OpOK
  <2>2. /\ ref_count' = Released([e \in DOMAIN ref_count |->
                                   Cardinality({s \in o[2] : slot[s] = e})])
        /\ slot' = [s \in Slot |-> IF s \in o[2] THEN NoEvent ELSE slot[s]]
        /\ UNCHANGED <<policy, jobs, tileVars, recorded, queueVars, running>>
    BY <2>1 DEF Release
  <2>. DEFINE n == [e \in DOMAIN ref_count |-> Cardinality({s \in o[2] : slot[s] = e})]
  <2>3. n \in [DOMAIN ref_count -> Nat] /\ ref_count' = Released(n)
    BY <2>1, <2>2, ReleaseCounts
  <2>. HIDE DEF o, n
  <2>4. CountTypes'
    BY <1>2, <2>3, ReleasedTypes
  <2>5. slot' \in [Slot -> Ids]
    BY <1>2, <2>2, EventNames
  <2>. QED
    BY <1>2, <2>2, <2>4, <2>5 DEF TypeInv, TileTypes, QueueTypes, tileVars, queueVars
<1>8. CASE o[1] = "create"
  <2>1. o[2] \in SUBSET Slot /\ Create
    BY <1>1, <1>8, NextAction DEF OpOK
  <2>2. /\ slot' = [s \in Slot |-> IF s \in o[2] THEN NewEvent(s) ELSE slot[s]]
        /\ recorded' = [s \in CpuSlot |-> IF s \in o[2] THEN Unrecorded ELSE recorded[s]]
        /\ ref_count' = [e \in DOMAIN ref_count \cup {NewEvent(s) : s \in o[2]} |->
                           IF e \in DOMAIN ref_count THEN ref_count[e] ELSE 1]
        /\ UNCHANGED <<policy, jobs, tileVars, queueVars, running>>
    BY <2>1 DEF Create
  <2>. HIDE DEF o
  <2>3. CountTypes'
    BY <1>2, <2>1, <2>2, CreatedTypes
  <2>4. \A s \in Slot : NewEvent(s) \in Ids
    BY <1>2, NewEventUnused
  <2>5. slot' \in [Slot -> Ids]
    BY <1>2, <2>2, <2>4
  <2>6. Unrecorded \in Queue \X Nat
    BY QueuesAre DEF Unrecorded
  <2>7. recorded' \in [CpuSlot -> Queue \X Nat]
    BY <1>2, <2>2, <2>6
  <2>. QED
    BY <1>2, <2>2, <2>3, <2>5, <2>7 DEF TypeInv, TileTypes, QueueTypes, tileVars, queueVars
<1>9. CASE o[1] = "share"
  <2>1. o[2] \in Slot /\ o[3] \in Slot /\ Share
    BY <1>1, <1>9, NextAction DEF OpOK
  <2>2. /\ slot' = [slot EXCEPT ![o[2]] = slot[o[3]]]
        /\ ref_count' = Retained(slot[o[3]])
        /\ UNCHANGED <<policy, jobs, tileVars, recorded, queueVars, running>>
    BY <2>1 DEF Share
  <2>. HIDE DEF o
  <2>3. CountTypes'
    BY <1>2, <2>2, RetainedTypes
  <2>4. slot' \in [Slot -> Ids]
    BY <1>2, <2>1, <2>2
  <2>. QED
    BY <1>2, <2>2, <2>3, <2>4 DEF TypeInv, TileTypes, QueueTypes, tileVars, queueVars
<1>10. CASE o[1] = "record"
  <2>1. o[2] \in CpuSlot /\ o[3] \in Queue /\ Record
    BY <1>1, <1>10, NextAction DEF OpOK
  <2>2. /\ recorded' = [recorded EXCEPT ![o[2]] = <<o[3], pushed[o[3]]>>]
        /\ UNCHANGED <<policy, jobs, tileVars, slot, ref_count, queueVars, running>>
    BY <2>1 DEF Record
  <2>. HIDE DEF o
  <2>3. <<o[3], pushed[o[3]]>> \in Queue \X Nat
    BY <1>2, <2>1 DEF QueueTypes
  <2>4. recorded' \in [CpuSlot -> Queue \X Nat]
    BY <1>2, <2>2, <2>3
  <2>. QED
    BY <1>2, <2>2, <2>4 DEF TypeInv, TileTypes, CountTypes, QueueTypes, tileVars, queueVars
<1>11. CASE o[1] \in {"wait", "peek", "freeif", "synchronize"}
  <2>1. UNCHANGED <<policy, jobs, tileVars, slotVars, ref_count, queueVars, running>>
    BY <1>11, NextAction DEF Wait, Peek, FreeIfAttached, Synchronize
  <2>. QED
    BY <1>2, <2>1 DEF TypeInv, TileTypes, CountTypes, QueueTypes, tileVars, slotVars, queueVars
<1>12. CASE o[1] = "domain"
  <2>1. o[2] \in Tiles /\ Domain
    BY <1>1, <1>12, NextAction DEF OpOK
  <2>2. /\ records' = records \cup {<<Host, o[2]>>}
        /\ UNCHANGED <<policy, jobs, type, valid_impls, memory, host_status, device_status,
                       slotVars, ref_count, queueVars, running>>
    BY <2>1 DEF Domain
  <2>. HIDE DEF o
  <2>. QED
    BY <1>2, <2>1, <2>2 DEF TypeInv, TileTypes, CountTypes, QueueTypes, slotVars, queueVars
<1>13. CASE o[1] = "attach"
  <2>1. o[2] \in Ctrl /\ o[3] \in Tiles /\ Attach
    BY <1>1, <1>13, NextAction DEF OpOK
  <2>2. /\ type' = type \cup {<<o[2], o[3]>>}
        /\ records' = records \cup {<<o[2], o[3]>>}
        /\ valid_impls' = [valid_impls EXCEPT ![o[3]] = @ + 1]
        /\ UNCHANGED <<policy, jobs, memory, host_status, device_status,
                       slotVars, ref_count, queueVars, running>>
    BY <2>1 DEF Attach
  <2>. HIDE DEF o
  <2>3. valid_impls' \in [Tiles -> Nat]
    BY <1>2, <2>1, <2>2 DEF TileTypes
  <2>. QED
    BY <1>2, <2>1, <2>2, <2>3 DEF TypeInv, TileTypes, CountTypes, QueueTypes, slotVars, queueVars
<1>14. CASE o[1] = "selectif"
  <2>1. o[2] \in Ctrl /\ o[3] \in Selections /\ SelectIfAttached
    BY <1>1, <1>14, NextAction DEF OpOK
  <2>2. /\ device_status' = [device_status EXCEPT ![<<o[2], o[3]>>] =
              IF Attached(o[2], Selected[o[3]]) THEN device_status[<<o[2], Selected[o[3]]>>]
              ELSE @]
        /\ UNCHANGED <<policy, jobs, type, records, valid_impls, memory, host_status,
                       slotVars, ref_count, queueVars, running>>
    BY <2>1 DEF SelectIfAttached
  <2>. HIDE DEF o
  <2>3. <<o[2], Selected[o[3]]>> \in Ctrl \X Tiles
    BY <2>1, Names
  <2>4. device_status' \in [Ctrl \X Tiles -> Status]
    BY <1>2, <2>2, <2>3 DEF TileTypes
  <2>. QED
    BY <1>2, <2>2, <2>4 DEF TypeInv, TileTypes, CountTypes, QueueTypes, slotVars, queueVars
<1>15. CASE o[1] = "detach"
  <2>1. o[2] \in Ctrl /\ o[3] \in Tiles /\ <<o[2], o[3]>> \in records /\ Detach
    BY <1>1, <1>15, NextAction DEF OpOK
  <2>2. /\ valid_impls' = [valid_impls EXCEPT ![o[3]] = @ - 1]
        /\ records' = records \ {<<o[2], o[3]>>}
        /\ memory' \subseteq memory
        /\ UNCHANGED <<policy, jobs, type, host_status, device_status,
                       slotVars, ref_count, queueVars, running>>
    BY <2>1 DEF Detach
  <2>. HIDE DEF o
  <2>3. valid_impls[o[3]] - 1 \in Nat
    BY <2>1, DetachedImpls
  <2>4. valid_impls' \in [Tiles -> Nat]
    BY <1>2, <2>2, <2>3 DEF TileTypes
  <2>. QED
    BY <1>2, <2>2, <2>4 DEF TypeInv, TileTypes, CountTypes, QueueTypes, slotVars, queueVars
<1>16. CASE o[1] = "freehost"
  <2>1. /\ records' \subseteq records
        /\ memory' \subseteq memory
        /\ UNCHANGED <<policy, jobs, type, valid_impls, host_status, device_status,
                       slotVars, ref_count, queueVars, running>>
    BY <1>16, NextAction DEF FreeHost
  <2>. QED
    BY <1>2, <2>1 DEF TypeInv, TileTypes, CountTypes, QueueTypes, slotVars, queueVars
<1>. QED
  BY <1>4, <1>5, <1>6, <1>7, <1>8, <1>9, <1>10, <1>11, <1>12, <1>13, <1>14, <1>15, <1>16,
     NextAction
-----------------------------------------------------------------------------
(* The records of tiles, step by step.                                     *)

\* An operation that leaves the records alone, and gives events to slots of
\* records that are there.
LEMMA RecordsKept ==
  ASSUME RecordsInv, type' = type, records' = records, valid_impls' = valid_impls,
         \A b \in type : host_status'[b[2]] # "UNALLOC",
         \A s \in Slot : \/ slot'[s] \in {slot[s], NoEvent}
                         \/ RecordOf(s) \subseteq records
  PROVE  RecordsInv'
<1>1. \A t : CtrlsOf(t)' = CtrlsOf(t) /\ (Live(t)' <=> Live(t))
  BY DEF CtrlsOf, Live
<1>2. \A c, t : Attached(c, t)' <=> Attached(c, t)
  BY DEF Attached
<1>3. ASSUME NEW t \in Tiles, ~Live(t) PROVE Empty(HostSlots(t))'
  <2>1. ASSUME NEW s \in HostSlots(t) PROVE slot'[s] = NoEvent
    <3>1. s \in Slot /\ RecordOf(s) = {<<Host, t>>}
      BY SlotMembers, SlotRecords
    <3>2. ~(RecordOf(s) \subseteq records)
      BY <1>3, <3>1 DEF Live
    <3>3. slot[s] = NoEvent
      BY <1>3 DEF RecordsInv, Empty
    <3>. QED
      BY <3>1, <3>2, <3>3
  <2>. QED
    BY <2>1 DEF Empty
<1>4. ASSUME NEW c \in Ctrl, NEW t \in Tiles, ~Attached(c, t) PROVE Empty(ImplSlots(c, t))'
  <2>1. ASSUME NEW s \in ImplSlots(c, t) PROVE slot'[s] = NoEvent
    <3>1. s \in Slot /\ RecordOf(s) = {<<c, t>>}
      BY SlotMembers, SlotRecords
    <3>2. ~(RecordOf(s) \subseteq records)
      BY <1>4, <3>1 DEF RecordsInv
    <3>3. slot[s] = NoEvent
      BY <1>4 DEF RecordsInv, Empty
    <3>. QED
      BY <3>1, <3>2, <3>3
  <2>. QED
    BY <2>1 DEF Empty
<1>. QED
  BY <1>1, <1>2, <1>3, <1>4 DEF RecordsInv

\* A tile gets the record of a ctrl.
LEMMA RecordsAttached ==
  ASSUME RecordsInv, NEW c \in Ctrl, NEW t \in Tiles, TypeInv,
         ~Attached(c, t), Live(t), host_status[t] # "UNALLOC",
         type' = type \cup {<<c, t>>}, records' = records \cup {<<c, t>>},
         valid_impls' = [valid_impls EXCEPT ![t] = @ + 1],
         host_status' = host_status, slot' = slot
  PROVE  RecordsInv'
<1>1. \A x \in Tiles : Live(x)' <=> Live(x)
  BY Names DEF Live
<1>2. \A d \in Ctrl, x \in Tiles : Attached(d, x)' <=> Attached(d, x) \/ (d = c /\ x = t)
  BY DEF Attached
<1>3. c \notin CtrlsOf(t)
  BY DEF RecordsInv, CtrlsOf
<1>4. CtrlsOf(t)' = CtrlsOf(t) \cup {c} /\ \A x \in Tiles : x # t => CtrlsOf(x)' = CtrlsOf(x)
  BY DEF CtrlsOf
<1>5. Cardinality(CtrlsOf(t)') = Cardinality(CtrlsOf(t)) + 1
  <2>1. IsFiniteSet(CtrlsOf(t))
    BY CtrlsFinite
  <2>. QED
    BY <1>3, <1>4, <2>1, FS_AddElement
<1>6. ASSUME NEW x \in Tiles PROVE valid_impls'[x] = Cardinality(CtrlsOf(x)')
  <2>1. valid_impls[x] = Cardinality(CtrlsOf(x)) /\ DOMAIN valid_impls = Tiles
    BY DEF RecordsInv, TypeInv, TileTypes
  <2>2. valid_impls'[x] = IF x = t THEN valid_impls[t] + 1 ELSE valid_impls[x]
    BY <2>1
  <2>. QED
    BY <1>4, <1>5, <2>1, <2>2
<1>7. \A b \in type' : host_status'[b[2]] # "UNALLOC"
  BY DEF RecordsInv
<1>8. \A x \in Tiles : ~Live(x) => Empty(HostSlots(x))'
  BY DEF RecordsInv, Empty
<1>9. \A d \in Ctrl, x \in Tiles : ~Attached(d, x) => Empty(ImplSlots(d, x))'
  BY DEF RecordsInv, Empty
<1>10. \A d \in Ctrl, x \in Tiles : <<d, x>> \in records' => Attached(d, x)' /\ Live(x)'
  BY <1>1, <1>2 DEF RecordsInv
<1>. QED
  BY <1>1, <1>2, <1>6, <1>7, <1>8, <1>9, <1>10 DEF RecordsInv

\* It loses that of a ctrl, and then that of the host.
LEMMA RecordsDetached ==
  ASSUME RecordsInv, NEW c \in Ctrl, NEW t \in Tiles, TypeInv,
         <<c, t>> \in records,
         type' = type, records' = records \ {<<c, t>>},
         valid_impls' = [valid_impls EXCEPT ![t] = @ - 1],
         host_status' = host_status, slot' = slot
  PROVE  RecordsInv'
<1>1. \A x \in Tiles : Live(x)' <=> Live(x)
  BY Names DEF Live
<1>2. \A d \in Ctrl, x \in Tiles : Attached(d, x)' <=> Attached(d, x)
  BY DEF Attached
<1>3. c \in CtrlsOf(t)
  BY DEF CtrlsOf
<1>4. CtrlsOf(t)' = CtrlsOf(t) \ {c} /\ \A x \in Tiles : x # t => CtrlsOf(x)' = CtrlsOf(x)
  BY DEF CtrlsOf
<1>5. Cardinality(CtrlsOf(t)') = Cardinality(CtrlsOf(t)) - 1
  <2>1. IsFiniteSet(CtrlsOf(t))
    BY CtrlsFinite
  <2>. QED
    BY <1>3, <1>4, <2>1, FS_RemoveElement
<1>6. ASSUME NEW x \in Tiles PROVE valid_impls'[x] = Cardinality(CtrlsOf(x)')
  <2>1. valid_impls[x] = Cardinality(CtrlsOf(x)) /\ DOMAIN valid_impls = Tiles
    BY DEF RecordsInv, TypeInv, TileTypes
  <2>2. valid_impls'[x] = IF x = t THEN valid_impls[t] - 1 ELSE valid_impls[x]
    BY <2>1
  <2>. QED
    BY <1>4, <1>5, <2>1, <2>2
<1>7. \A b \in type' : host_status'[b[2]] # "UNALLOC"
  BY DEF RecordsInv
<1>8. \A x \in Tiles : ~Live(x) => Empty(HostSlots(x))'
  BY DEF RecordsInv, Empty
<1>9. \A d \in Ctrl, x \in Tiles : ~Attached(d, x) => Empty(ImplSlots(d, x))'
  BY DEF RecordsInv, Empty
<1>10. \A d \in Ctrl, x \in Tiles : <<d, x>> \in records' => Attached(d, x)' /\ Live(x)'
  BY <1>1, <1>2 DEF RecordsInv
<1>. QED
  BY <1>1, <1>2, <1>6, <1>7, <1>8, <1>9, <1>10 DEF RecordsInv

\* A tile gets or loses its record for the host.
LEMMA RecordsOfHost ==
  ASSUME RecordsInv, NEW t \in Tiles, type' = type, valid_impls' = valid_impls,
         host_status' = host_status, slot' = slot,
         \/ records' = records \cup {<<Host, t>>}
         \/ /\ records' = records \ {<<Host, t>>}
            /\ Empty(HostSlots(t)) /\ \A c \in Ctrl : <<c, t>> \notin records
  PROVE  RecordsInv'
<1>1. \A x \in Tiles : x # t => (Live(x)' <=> Live(x))
  BY DEF Live
<1>2. \A d, x : Attached(d, x)' <=> Attached(d, x)
  BY DEF Attached
<1>3. \A d \in Ctrl, x \in Tiles : <<d, x>> \in records' <=> <<d, x>> \in records
  BY Names
<1>4. \A x \in Tiles : CtrlsOf(x)' = CtrlsOf(x)
  BY <1>3 DEF CtrlsOf
<1>5. Live(t)' \/ (Empty(HostSlots(t)) /\ \A c \in Ctrl : <<c, t>> \notin records)
  BY DEF Live
<1>6. \A d \in Ctrl, x \in Tiles : <<d, x>> \in records' => Attached(d, x)' /\ Live(x)'
  BY <1>1, <1>2, <1>3, <1>5 DEF RecordsInv
<1>7. ASSUME NEW x \in Tiles, ~Live(x)' PROVE Empty(HostSlots(x))'
  <2>1. Live(t) => Live(t)' \/ Empty(HostSlots(t))
    BY <1>5
  <2>2. Empty(HostSlots(x))
    BY <1>1, <1>5, <1>7, <2>1 DEF RecordsInv
  <2>. QED
    BY <2>2 DEF Empty
<1>8. \A d \in Ctrl, x \in Tiles : ~Attached(d, x) => Empty(ImplSlots(d, x))'
  BY DEF RecordsInv, Empty
<1>9. \A x \in Tiles : valid_impls'[x] = Cardinality(CtrlsOf(x)')
  BY <1>4 DEF RecordsInv
<1>10. \A b \in type' : host_status'[b[2]] # "UNALLOC"
  BY DEF RecordsInv
<1>. QED
  BY <1>2, <1>6, <1>7, <1>8, <1>9, <1>10 DEF RecordsInv

\* What the main thread's operations do to the records of tiles.
LEMMA MainRecords ==
  ASSUME TypeInv, RecordsInv, TodoForm, MainStep
  PROVE  RecordsInv'
<1>. DEFINE o == Head(todo)
<1>0. todo # <<>>
  BY NextAction
<1>1. OpOK
  BY <1>0, HeadFacts
<1>2. \A b \in type : host_status[b[2]] # "UNALLOC"
  BY DEF RecordsInv
<1>3. DOMAIN slot = Slot
  BY DEF TypeInv
<1>4. CASE o[1] \in {"streamwait", "retain", "push", "record", "wait", "peek", "freeif",
                     "synchronize", "selectif"}
  <2>1. /\ type' = type /\ records' = records /\ valid_impls' = valid_impls
        /\ host_status' = host_status /\ slot' = slot
    <3>1. CASE o[1] \in {"streamwait", "retain", "push"}
      BY <3>1, NextAction DEF PushWait, Retain, PushTask, tileVars, slotVars
    <3>2. CASE o[1] \in {"record", "wait", "peek"}
      BY <3>2, NextAction DEF Record, Wait, Peek, tileVars, slotVars
    <3>3. CASE o[1] \in {"freeif", "synchronize", "selectif"}
      BY <3>3, NextAction DEF FreeIfAttached, Synchronize, SelectIfAttached, tileVars, slotVars
    <3>. QED
      BY <1>4, <3>1, <3>2, <3>3
  <2>2. \A b \in type : host_status'[b[2]] # "UNALLOC"
    BY <1>2, <2>1
  <2>3. \A s \in Slot : slot'[s] \in {slot[s], NoEvent}
    BY <2>1
  <2>. QED
    BY <2>1, <2>2, <2>3, RecordsKept
<1>5. CASE o[1] \in {"release", "create", "share"}
  <2>1. type' = type /\ records' = records /\ valid_impls' = valid_impls
        /\ host_status' = host_status
    BY <1>5, NextAction DEF Release, Create, Share, tileVars
  <2>2. \A b \in type : host_status'[b[2]] # "UNALLOC"
    BY <1>2, <2>1
  <2>3. ASSUME NEW s \in Slot
        PROVE  slot'[s] \in {slot[s], NoEvent} \/ RecordOf(s) \subseteq records
    <3>1. CASE o[1] = "release"
      BY <3>1, NextAction DEF Release
    <3>2. CASE o[1] = "create"
      <4>1. s \notin o[2] => slot'[s] = slot[s]
        BY <3>2, NextAction DEF Create
      <4>2. TouchedBy(o) = UNION {RecordOf(x) : x \in o[2]} /\ TouchedBy(o) \subseteq records
        BY <1>1, <3>2 DEF TouchedBy, OpOK
      <4>. HIDE DEF o
      <4>3. s \in o[2] => RecordOf(s) \subseteq records
        BY <4>2
      <4>. QED
        BY <4>1, <4>3
    <3>3. CASE o[1] = "share"
      <4>1. s # o[2] => slot'[s] = slot[s]
        BY <1>3, <3>3, NextAction DEF Share
      <4>2. TouchedBy(o) = RecordOf(o[2]) \cup RecordOf(o[3]) /\ TouchedBy(o) \subseteq records
        BY <1>1, <3>3 DEF TouchedBy, OpOK
      <4>. HIDE DEF o
      <4>. QED
        BY <4>1, <4>2
    <3>. QED
      BY <1>5, <3>1, <3>2, <3>3
  <2>. QED
    BY <2>1, <2>2, <2>3, RecordsKept
<1>6. CASE o[1] = "attach"
  <2>1. /\ o[2] \in Ctrl /\ o[3] \in Tiles /\ ~Attached(o[2], o[3]) /\ Live(o[3])
        /\ host_status[o[3]] # "UNALLOC" /\ Attach
    BY <1>1, <1>6, NextAction DEF OpOK
  <2>2. /\ type' = type \cup {<<o[2], o[3]>>} /\ records' = records \cup {<<o[2], o[3]>>}
        /\ valid_impls' = [valid_impls EXCEPT ![o[3]] = @ + 1]
        /\ host_status' = host_status /\ slot' = slot
    BY <2>1 DEF Attach, slotVars
  <2>. HIDE DEF o
  <2>. QED
    BY <2>1, <2>2, RecordsAttached
<1>7. CASE o[1] = "detach"
  <2>1. o[2] \in Ctrl /\ o[3] \in Tiles /\ <<o[2], o[3]>> \in records /\ Detach
    BY <1>1, <1>7, NextAction DEF OpOK
  <2>2. /\ type' = type /\ records' = records \ {<<o[2], o[3]>>}
        /\ valid_impls' = [valid_impls EXCEPT ![o[3]] = @ - 1]
        /\ host_status' = host_status /\ slot' = slot
    BY <2>1 DEF Detach, slotVars
  <2>. HIDE DEF o
  <2>. QED
    BY <2>1, <2>2, RecordsDetached
<1>8. CASE o[1] = "domain"
  <2>1. /\ o[2] \in Tiles /\ type' = type /\ valid_impls' = valid_impls
        /\ host_status' = host_status /\ slot' = slot
        /\ records' = records \cup {<<Host, o[2]>>}
    BY <1>1, <1>8, NextAction DEF OpOK, Domain, slotVars
  <2>. HIDE DEF o
  <2>. QED
    BY <2>1, RecordsOfHost
<1>9. CASE o[1] = "freehost"
  <2>1. /\ o[2] \in Tiles /\ type' = type /\ valid_impls' = valid_impls
        /\ host_status' = host_status /\ slot' = slot
        /\ records' = records \ {<<Host, o[2]>>}
        /\ Empty(HostSlots(o[2])) /\ \A c \in Ctrl : <<c, o[2]>> \notin records
    BY <1>1, <1>9, NextAction DEF OpOK, FreeHost, slotVars
  <2>. HIDE DEF o
  <2>. QED
    BY <2>1, RecordsOfHost
<1>. QED
  BY <1>4, <1>5, <1>6, <1>7, <1>8, <1>9, NextAction
-----------------------------------------------------------------------------
(* The counters, step by step.                                             *)

\* A push that takes its reference with a retain of its own comes next after
\* that retain, and only there.
LEMMA MainPushes ==
  ASSUME TypeInv, RecordsInv, TodoForm, MainStep, TypeInv', RecordsInv'
  PROVE  /\ TodoForm'
         /\ Head(todo)[1] # "retain" => NoPush'
         /\ Head(todo)[1] # "push" => NoPush
         /\ Head(todo)[1] = "retain" => NoPush' = FALSE /\ Head(todo')[4] = Head(todo)[2]
<1>1. OtherForm' => TodoForm' /\ NoPush'
  <2>1. (OtherForm /\ TypeInv /\ RecordsInv)' => (TodoForm /\ NoPush)'
    BY OtherFormPushes, PTL
  <2>. QED
    BY <2>1
<1>2. CASE OtherForm' /\ NoPush /\ Head(todo)[1] \notin {"retain", "push"}
  BY <1>1, <1>2
<1>3. CASE /\ JobForm'
           /\ Head(todo)[1] # "retain" => NoPush'
           /\ Head(todo)[1] # "push" => NoPush
           /\ Head(todo)[1] = "retain" => /\ todo' # <<>> /\ PushesEvent(Head(todo'))
                                          /\ Head(todo')[4] = Head(todo)[2]
  <2>1. TodoForm'
    BY <1>3 DEF TodoForm
  <2>2. Head(todo)[1] = "retain" => ~NoPush'
    BY <1>3 DEF NoPush
  <2>3. NoPush' \in BOOLEAN
    BY DEF NoPush, PushesEvent
  <2>. QED
    BY <1>3, <2>1, <2>2, <2>3
<1>. QED
  BY <1>2, <1>3, MainForm

\* The counters are exact after every operation of the main thread.
LEMMA MainCounts ==
  ASSUME TypeInv, RecordsInv, TodoForm, MainStep, TypeInv', RecordsInv', Counts
  PROVE  Counts'
<1>. DEFINE o == Head(todo)
<1>0. todo # <<>>
  BY NextAction
<1>1. OpOK
  BY <1>0, HeadFacts
<1>2. /\ o[1] # "retain" => NoPush'
      /\ o[1] # "push" => NoPush
      /\ o[1] = "retain" => NoPush' = FALSE /\ Head(todo')[4] = o[2]
  BY MainPushes
<1>3. /\ QueueTypes' /\ ref_count \in [DOMAIN ref_count -> Nat]
      /\ NoEvent \notin DOMAIN ref_count
  BY DEF TypeInv, CountTypes
<1>4. \A s \in Slot : slot[s] \in DOMAIN ref_count \cup {NoEvent}
  BY DEF Counts
<1>5. CASE o[1] \in {"wait", "peek", "freeif", "synchronize", "record", "domain", "attach",
                     "selectif", "detach", "freehost"}
  <2>1. slot' = slot /\ ref_count' = ref_count /\ UNCHANGED queueVars
    <3>1. CASE o[1] \in {"wait", "peek", "freeif"}
      BY <3>1, NextAction DEF Wait, Peek, FreeIfAttached, slotVars
    <3>2. CASE o[1] \in {"synchronize", "record", "domain"}
      BY <3>2, NextAction DEF Synchronize, Record, Domain, slotVars
    <3>3. CASE o[1] \in {"attach", "selectif"}
      BY <3>3, NextAction DEF Attach, SelectIfAttached, slotVars
    <3>4. CASE o[1] \in {"detach", "freehost"}
      BY <3>4, NextAction DEF Detach, FreeHost, slotVars
    <3>. QED
      BY <1>5, <3>1, <3>2, <3>3, <3>4
  <2>. QED
    BY <1>2, <1>5, <2>1, CountsKept
<1>6. CASE o[1] = "retain"
  <2>1. o[2] \in Slot /\ Retain
    BY <1>1, <1>6, NextAction DEF OpOK
  <2>2. ref_count' = Retained(slot[o[2]]) /\ slot' = slot /\ UNCHANGED queueVars
    BY <2>1 DEF Retain, slotVars
  <2>3. NoPush /\ NoPush' = FALSE /\ Head(todo')[4] = o[2]
    BY <1>2, <1>6
  <2>. HIDE DEF o
  <2>. QED
    BY <2>1, <2>2, <2>3, CountsRetained
<1>7. CASE o[1] = "push"
  <2>. DEFINE task == Task(o[3], o[4], o[5])
  <2>1. /\ o[2] \in Queue /\ o[3] \in Kinds /\ o[4] \in Slot /\ o[5] \in Tiles
        /\ PushTask
    BY <1>1, <1>7, NextAction DEF OpOK
  <2>2. PushOn(o[2], task) /\ slot' = slot /\ ref_count' = ref_count
    BY <2>1 DEF PushTask, slotVars
  <2>3. task.id = IF o[3] = "hosttask" THEN NoEvent ELSE slot[o[4]]
    BY DEF Task
  <2>4. ~NoPush <=> o[3] # "hosttask"
    BY <1>0, <1>7 DEF NoPush, PushesEvent
  <2>5. task \in TaskSet
    <3>. HIDE DEF o
    <3>. QED
      BY <2>1, TaskTypes
  <2>6. Head(todo)[4] = o[4]
    OBVIOUS
  <2>7. NoPush'
    BY <1>2, <1>7
  <2>. HIDE DEF o, task
  <2>8. task.id \in DOMAIN ref_count \cup {NoEvent}
    BY <1>4, <2>1, <2>3
  <2>9. ASSUME NEW e \in DOMAIN ref_count
        PROVE  ref_count'[e] + (IF ~NoPush /\ slot[Head(todo)[4]] = e THEN 1 ELSE 0)
                 = ref_count[e] + (IF task.id = e THEN 1 ELSE 0)
    <3>1. (~NoPush /\ slot[Head(todo)[4]] = e) <=> task.id = e
      BY <1>3, <2>3, <2>4, <2>6
    <3>. QED
      BY <2>2, <3>1, Zenon
  <2>. QED
    BY <1>3, <2>1, <2>2, <2>5, <2>7, <2>8, <2>9, CountsPushed
<1>8. CASE o[1] = "streamwait"
  <2>. DEFINE task == Task("wait", o[3], NoTile)
  <2>1. o[2] \in Queue /\ o[3] \in Slot /\ PushWait
    BY <1>1, <1>8, NextAction DEF OpOK
  <2>2. PushOn(o[2], task) /\ slot' = slot /\ ref_count' = Retained(slot[o[3]])
    BY <2>1 DEF PushWait, HeldByWait, slotVars
  <2>3. task.id = slot[o[3]]
    BY DEF Task
  <2>4. NoPush /\ NoPush'
    BY <1>2, <1>8
  <2>5. task \in TaskSet
    <3>. HIDE DEF o
    <3>. QED
      BY <2>1, TaskTypes
  <2>. HIDE DEF o, task
  <2>6. task.id \in DOMAIN ref_count \cup {NoEvent}
    BY <1>4, <2>1, <2>3
  <2>7. DOMAIN ref_count' = DOMAIN ref_count
    BY <2>2 DEF Retained
  <2>8. ASSUME NEW e \in DOMAIN ref_count
        PROVE  /\ ref_count'[e] \in Nat
               /\ ref_count'[e] + (IF ~NoPush /\ slot[Head(todo)[4]] = e THEN 1 ELSE 0)
                    = ref_count[e] + (IF task.id = e THEN 1 ELSE 0)
    <3>1. ref_count'[e] = IF slot[o[3]] = e THEN ref_count[e] + 1 ELSE ref_count[e]
      BY <2>2 DEF Retained
    <3>. DEFINE r == ref_count[e]
                r2 == ref_count'[e]
    <3>2. r \in Nat
      BY <1>3
    <3>3. r2 = IF task.id = e THEN r + 1 ELSE r
      BY <2>3, <3>1
    <3>. HIDE DEF r, r2
    <3>4. r2 \in Nat /\ r2 + 0 = r + (IF task.id = e THEN 1 ELSE 0)
      BY <3>2, <3>3, SMT
    <3>5. (IF ~NoPush /\ slot[Head(todo)[4]] = e THEN 1 ELSE 0) = 0
      BY <2>4
    <3>. QED
      BY <3>4, <3>5 DEF r, r2
  <2>9. ref_count' \in [DOMAIN ref_count -> Nat]
    <3>1. ref_count' = [e \in DOMAIN ref_count |-> ref_count'[e]]
      BY <2>2 DEF Retained
    <3>. QED
      BY <2>8, <3>1
  <2>. QED
    BY <1>3, <2>1, <2>2, <2>4, <2>5, <2>6, <2>7, <2>8, <2>9, CountsPushed
<1>9. CASE o[1] = "release"
  <2>1. o[2] \in SUBSET Slot /\ Release
    BY <1>1, <1>9, NextAction DEF OpOK
  <2>2. /\ ref_count' = Released([e \in DOMAIN ref_count |->
                                   Cardinality({s \in o[2] : slot[s] = e})])
        /\ slot' = [s \in Slot |-> IF s \in o[2] THEN NoEvent ELSE slot[s]]
        /\ UNCHANGED queueVars
    BY <2>1 DEF Release
  <2>3. NoPush /\ NoPush'
    BY <1>2, <1>9
  <2>. HIDE DEF o
  <2>. QED
    BY <2>1, <2>2, <2>3, CountsReleased
<1>10. CASE o[1] = "create"
  <2>1. o[2] \in SUBSET Slot /\ Empty(o[2]) /\ Create
    BY <1>1, <1>10, NextAction DEF OpOK
  <2>2. /\ slot' = [s \in Slot |-> IF s \in o[2] THEN NewEvent(s) ELSE slot[s]]
        /\ ref_count' = [e \in DOMAIN ref_count \cup {NewEvent(s) : s \in o[2]} |->
                           IF e \in DOMAIN ref_count THEN ref_count[e] ELSE 1]
        /\ UNCHANGED queueVars
    BY <2>1 DEF Create
  <2>3. NoPush /\ NoPush'
    BY <1>2, <1>10
  <2>. HIDE DEF o
  <2>. QED
    BY <2>1, <2>2, <2>3, CountsCreated
<1>11. CASE o[1] = "share"
  <2>1. o[2] \in Slot /\ o[3] \in Slot /\ slot[o[2]] = NoEvent /\ Share
    BY <1>1, <1>11, NextAction DEF OpOK
  <2>2. /\ slot' = [slot EXCEPT ![o[2]] = slot[o[3]]]
        /\ ref_count' = Retained(slot[o[3]])
        /\ UNCHANGED queueVars
    BY <2>1 DEF Share
  <2>3. NoPush /\ NoPush'
    BY <1>2, <1>11
  <2>. HIDE DEF o
  <2>. QED
    BY <2>1, <2>2, <2>3, CountsShared
<1>. QED
  BY <1>5, <1>6, <1>7, <1>8, <1>9, <1>10, <1>11, NextAction
-----------------------------------------------------------------------------
(* The other threads.                                                      *)

\* What is left of a call does not depend on what they change.
LEMMA FormsKept ==
  ASSUME TodoForm, todo' = todo, slot' = slot, records' = records, type' = type,
         host_status' = host_status
  PROVE  TodoForm'
<1>1. /\ \A S : Empty(S)' <=> Empty(S)
      /\ \A t : Live(t)' <=> Live(t)
      /\ \A c, t : Attached(c, t)' <=> Attached(c, t)
  BY DEF Empty, Live, Attached
<1>2. CASE JobForm
  <2>1. JobForm'
    BY <1>1, <1>2 DEF JobForm, JobList, KernelEventOnce
  <2>. QED
    BY <2>1 DEF TodoForm
<1>3. CASE FreeForm
  <2>1. ASSUME NEW t, NEW n PROVE FreeLoop(t, n)' <=> FreeLoop(t, n)
    BY <1>1 DEF FreeLoop
  <2>2. ASSUME NEW c, NEW t, NEW n, NEW rest
        PROVE  FreeRound(c, t, n, rest) => FreeRound(c, t, n, rest)'
    BY DEF FreeRound
  <2>3. ASSUME NEW t PROVE FreeHostForm(t) => FreeHostForm(t)'
    BY <1>1 DEF FreeHostForm
  <2>4. FreeForm'
    BY <1>3, <2>1, <2>2, <2>3 DEF FreeForm
  <2>. QED
    BY <2>4 DEF TodoForm
<1>4. CASE AllocForm
  <2>1. AllocForm'
    BY <1>1, <1>4 DEF AllocForm, InitForm
  <2>. QED
    BY <2>1 DEF TodoForm
<1>5. CASE SelectForm
  <2>1. \A c, t, rest : InitForm(c, t, rest) => InitForm(c, t, rest)'
    BY <1>1 DEF InitForm
  <2>2. \A s, n : SelectLoop(s, n) => SelectLoop(s, n)'
    BY <1>1 DEF SelectLoop
  <2>3. \A s, c, rest : SelectRound(s, c, rest) => SelectRound(s, c, rest)'
    BY <1>1, <2>1 DEF SelectRound
  <2>4. PICK s \in Selections, n \in 0 .. NCtrls :
          /\ SelectLoop(s, n)
          /\ \/ /\ todo = << <<"domain", s>>, <<"create", HostSlots(s)>> >> \o Loop("selectif", n, s)
                /\ ~Live(s)
             \/ /\ todo = << <<"create", HostSlots(s)>> >> \o Loop("selectif", n, s)
                /\ Live(s) /\ Empty(HostSlots(s))
             \/ todo = Loop("selectif", n, s) /\ Live(s)
             \/ \E c \in Ctrl : c < NCtrls - n /\ SelectRound(s, c, Loop("selectif", n, s))
    BY <1>5 DEF SelectForm
  <2>5. \A c : SelectRound(s, c, Loop("selectif", n, s))
                 => SelectRound(s, c, Loop("selectif", n, s))'
    BY <2>3
  <2>6. SelectLoop(s, n)'
    BY <2>2, <2>4
  <2>7. slot'[KernelEvent] = NoEvent
    BY <1>5 DEF SelectForm
  <2>. DEFINE loop == Loop("selectif", n, s)
              two == << <<"domain", s>>, <<"create", HostSlots(s)>> >> \o loop
              one == << <<"create", HostSlots(s)>> >> \o loop
  <2>8. \/ todo' = two /\ ~Live(s)'
        \/ todo' = one /\ Live(s)' /\ Empty(HostSlots(s))'
        \/ todo' = loop /\ Live(s)'
        \/ \E c \in Ctrl : c < NCtrls - n /\ SelectRound(s, c, loop)'
    <3>1. \/ todo = two /\ ~Live(s)
          \/ todo = one /\ Live(s) /\ Empty(HostSlots(s))
          \/ todo = loop /\ Live(s)
          \/ \E c \in Ctrl : c < NCtrls - n /\ SelectRound(s, c, loop)
      BY <2>4
    <3>2. \A c : SelectRound(s, c, loop) => SelectRound(s, c, loop)'
      BY <2>5
    <3>. HIDE DEF loop, two, one
    <3>. QED
      BY <1>1, <3>1, <3>2
  <2>9. SelectForm'
    BY <2>6, <2>7, <2>8 DEF SelectForm
  <2>. QED
    BY <2>9 DEF TodoForm
<1>. QED
  BY <1>2, <1>3, <1>4, <1>5 DEF TodoForm

\* They keep the invariant.
LEMMA ThreadKeeps ==
  ASSUME TypeInv, RecordsInv, TodoForm, Counts, ThreadStep
  PROVE  TypeInv' /\ RecordsInv' /\ TodoForm' /\ Counts'
<1>1. /\ policy \in {"SYNC", "ASYNC"} /\ jobs \in 0 .. MaxJobs
      /\ slot \in [Slot -> Ids] /\ recorded \in [CpuSlot -> Queue \X Nat]
      /\ TileTypes /\ CountTypes /\ QueueTypes
  BY DEF TypeInv
<1>2. ASSUME NEW q \in Queue, Consume(q), running' \in [DriverQueue -> Seq(TaskSet)]
      PROVE  TypeInv' /\ RecordsInv' /\ TodoForm' /\ Counts'
  <2>1. /\ policy' = policy /\ todo' = todo /\ jobs' = jobs
        /\ UNCHANGED tileVars /\ slot' = slot /\ recorded' = recorded
    BY <1>2 DEF Consume, slotVars
  <2>2. type' = type /\ records' = records /\ valid_impls' = valid_impls
        /\ host_status' = host_status /\ memory' = memory /\ device_status' = device_status
    BY <2>1 DEF tileVars
  <2>3. QueueTypes'
    BY <1>1, <1>2, ConsumeTypes
  <2>4. CountTypes'
    <3>. DEFINE n == [e \in DOMAIN ref_count |-> IF e = Head(queue[q]).id THEN 1 ELSE 0]
    <3>1. n \in [DOMAIN ref_count -> Nat] /\ ref_count' = Released(n)
      BY <1>2 DEF Consume
    <3>. HIDE DEF n
    <3>. QED
      BY <1>1, <3>1, ReleasedTypes
  <2>5. TypeInv'
    BY <1>1, <2>1, <2>2, <2>3, <2>4 DEF TypeInv, TileTypes
  <2>6. TodoForm'
    BY <2>1, <2>2, FormsKept
  <2>7. Counts'
    BY <1>2, <2>3, CountsConsumed
  <2>8. RecordsInv'
    <3>1. \A b \in type : host_status'[b[2]] # "UNALLOC"
      BY <2>2 DEF RecordsInv
    <3>2. \A s \in Slot : slot'[s] \in {slot[s], NoEvent}
      BY <2>1
    <3>. QED
      BY <2>1, <2>2, <3>1, <3>2, RecordsKept
  <2>. QED
    BY <2>5, <2>6, <2>7, <2>8
<1>3. ASSUME NEW q \in DriverQueue, ManagerWait(q)
      PROVE  TypeInv' /\ RecordsInv' /\ TodoForm' /\ Counts'
  <2>1. q \in Queue /\ Consume(q) /\ running' \in [DriverQueue -> Seq(TaskSet)]
    BY <1>1, <1>3 DEF Queue, ManagerWait, QueueTypes
  <2>. QED
    BY <1>2, <2>1
<1>4. ASSUME NEW q \in DriverQueue, ManagerLaunch(q)
      PROVE  TypeInv' /\ RecordsInv' /\ TodoForm' /\ Counts'
  <2>1. q \in Queue /\ Consume(q) /\ queue[q] \in Seq(TaskSet) /\ queue[q] # <<>>
        /\ running' = [running EXCEPT ![q] = Append(@, Head(queue[q]))]
    BY <1>1, <1>4 DEF Queue, ManagerLaunch, Consume, QueueTypes
  <2>2. Head(queue[q]) \in TaskSet
    BY <2>1, HeadTailProperties
  <2>3. running[q] \in Seq(TaskSet)
    BY <1>1 DEF QueueTypes
  <2>4. Append(running[q], Head(queue[q])) \in Seq(TaskSet)
    BY <2>2, <2>3, Appended
  <2>5. running' \in [DriverQueue -> Seq(TaskSet)]
    BY <1>1, <2>1, <2>4 DEF QueueTypes
  <2>. QED
    BY <1>2, <2>1, <2>5
<1>5. ASSUME HostRun
      PROVE  TypeInv' /\ RecordsInv' /\ TodoForm' /\ Counts'
  <2>1. HostQueue \in Queue /\ Consume(HostQueue)
        /\ running' \in [DriverQueue -> Seq(TaskSet)]
    BY <1>1, <1>5 DEF Queue, HostRun, QueueTypes
  <2>. QED
    BY <1>2, <2>1
<1>6. ASSUME NEW q \in DriverQueue, DriverDone(q)
      PROVE  TypeInv' /\ RecordsInv' /\ TodoForm' /\ Counts'
  <2>1. /\ running[q] # <<>> /\ running' = [running EXCEPT ![q] = Tail(@)]
        /\ UNCHANGED <<policy, todo, jobs, type, records, valid_impls, memory, host_status,
                       device_status, slot, recorded, ref_count, queue, pushed, last_finished>>
    BY <1>6 DEF DriverDone, tileVars, slotVars, queueVars
  <2>2. Tail(running[q]) \in Seq(TaskSet)
    BY <1>1, <2>1, HeadTailProperties DEF QueueTypes
  <2>3. running' \in [DriverQueue -> Seq(TaskSet)]
    BY <1>1, <2>1, <2>2 DEF QueueTypes
  <2>4. TypeInv'
    BY <1>1, <2>1, <2>3 DEF TypeInv, TileTypes, CountTypes, QueueTypes
  <2>5. TodoForm'
    BY <2>1, FormsKept
  <2>6. RecordsInv'
    <3>1. \A b \in type : host_status'[b[2]] # "UNALLOC"
      BY <2>1 DEF RecordsInv
    <3>2. \A s \in Slot : slot'[s] \in {slot[s], NoEvent}
      BY <2>1
    <3>. QED
      BY <2>1, <3>1, <3>2, RecordsKept
  <2>7. Counts'
    <3>1. \A e : TasksWith(e)' = TasksWith(e) /\ Holding(e)' = Holding(e)
      BY <2>1 DEF TasksWith, Holding
    <3>2. NoPush' = NoPush
      BY <2>1 DEF NoPush
    <3>. QED
      BY <2>1, <3>1, <3>2 DEF Counts
  <2>. QED
    BY <2>4, <2>5, <2>6, <2>7
<1>. QED
  BY <1>3, <1>4, <1>5, <1>6 DEF ThreadStep
-----------------------------------------------------------------------------
(* The calls of the program.                                               *)

\* A call changes the state of copies, and leaves the rest to its operations.
LEMMA CallKeeps ==
  ASSUME TypeInv, RecordsInv, Counts, todo = <<>>,
         UNCHANGED <<policy, ref_count, slotVars, queueVars, running>>,
         UNCHANGED <<type, records, valid_impls>>,
         jobs' \in 0 .. MaxJobs, memory' \subseteq ({Host} \cup Ctrl) \X Domains,
         host_status' \in [Tiles -> Status], device_status' \in [Ctrl \X Tiles -> Status],
         \A b \in type : host_status'[b[2]] # "UNALLOC",
         OtherForm' \/ (JobForm' /\ NoPush')
  PROVE  TypeInv' /\ RecordsInv' /\ TodoForm' /\ Counts'
<1>1. slot' = slot /\ recorded' = recorded /\ ref_count' = ref_count
  BY DEF slotVars
<1>2. TypeInv'
  BY <1>1 DEF TypeInv, TileTypes, CountTypes, QueueTypes, queueVars
<1>3. RecordsInv'
  <2>1. \A s \in Slot : slot'[s] \in {slot[s], NoEvent}
    BY <1>1
  <2>. QED
    BY <2>1, RecordsKept
<1>4. TodoForm' /\ NoPush'
  <2>1. (OtherForm /\ TypeInv /\ RecordsInv)' => (TodoForm /\ NoPush)'
    BY OtherFormPushes, PTL
  <2>. QED
    BY <1>2, <1>3, <2>1 DEF TodoForm
<1>5. NoPush
  BY DEF NoPush
<1>6. Counts'
  BY <1>1, <1>4, <1>5, CountsKept
<1>. QED
  BY <1>2, <1>3, <1>4, <1>6

\* The operations of a job are one when the call is made.
LEMMA JobStarts ==
  ASSUME NEW l, Part(l), KernelEventOnce(l), slot' = slot, records' = records, todo' = l
  PROVE  JobForm' /\ NoPush'
<1>0. l \in Seq(JobOps)
  BY DEF Part, JobList
<1>1. l # <<>> => Head(l) = l[1]
  BY <1>0, HeadTailProperties
<1>2. JobList(todo)'
  BY DEF Part, JobList
<1>3. KernelEventOnce(todo)'
  BY DEF KernelEventOnce
<1>4. l # <<>> => ~PushesEvent(Head(l)) /\ TileFills(Head(l)) = {}
  BY <1>1 DEF Part, Opens
<1>5. NoPush'
  BY <1>4 DEF NoPush
<1>6. todo' # <<>> => Empty(TileFills(Head(todo)))'
  BY <1>4 DEF Empty
<1>. QED
  BY <1>2, <1>3, <1>5, <1>6 DEF JobForm

\* One that has no kernel_event of its own is, between two calls.
LEMMA PlainStarts ==
  ASSUME NEW l, Plain(l), slot[KernelEvent] = NoEvent
  PROVE  Part(l) /\ KernelEventOnce(l)
  BY DEF Plain, KernelEventOnce

\* A write on one ctrl or on the host.
LEMMA InvalidatedTypes ==
  ASSUME TypeInv, NEW t
  PROVE  Invalidated(t) \in [Ctrl \X Tiles -> Status]
<1>1. \A b \in Ctrl \X Tiles : device_status[b] \in Status
  BY DEF TypeInv, TileTypes
<1>2. DOMAIN device_status = Ctrl \X Tiles
  BY DEF TypeInv, TileTypes
<1>. QED
  BY <1>1, <1>2 DEF Invalidated, Status

\* Allocation.
LEMMA AllocKeeps ==
  ASSUME TypeInv, RecordsInv, TodoForm, Counts, NEW c \in Ctrl, NEW t \in Tiles, Alloc(c, t)
  PROVE  TypeInv' /\ RecordsInv' /\ TodoForm' /\ Counts'
<1>0. /\ t \in Domains /\ Live(t) /\ todo = <<>> /\ todo' = InitTileOnce(c, t)
      /\ UNCHANGED <<policy, ref_count, slotVars, queueVars, running>>
      /\ UNCHANGED <<type, records, valid_impls>> /\ jobs' = jobs
      /\ host_status' = [host_status EXCEPT ![t] = IF @ = "UNALLOC" THEN "INVALID" ELSE @]
      /\ device_status' = [device_status EXCEPT ![<<c, t>>] =
                             IF @ = "UNALLOC" THEN "INVALID" ELSE @]
      /\ memory' = memory \cup {b \in {<<Host, t>>} : host_status[t] = "UNALLOC"}
                          \cup {b \in {<<c, t>>} : ~Allocated(b)}
  BY DEF Alloc, Owner, Call, SetStatus
<1>1. TileTypes /\ jobs \in 0 .. MaxJobs /\ slot[KernelEvent] = NoEvent /\ slot' = slot
  BY <1>0, IdleKernelEvent DEF TypeInv, slotVars
<1>2. host_status' \in [Tiles -> Status] /\ host_status'[t] # "UNALLOC"
  BY <1>0, <1>1 DEF TileTypes, Status
<1>3. device_status' \in [Ctrl \X Tiles -> Status]
  BY <1>0, <1>1 DEF TileTypes, Status
<1>4. memory' \subseteq ({Host} \cup Ctrl) \X Domains
  BY <1>0, <1>1 DEF TileTypes
<1>5. \A b \in type : host_status'[b[2]] # "UNALLOC"
  <2>1. \A x \in Tiles : host_status[x] # "UNALLOC" => host_status'[x] # "UNALLOC"
    BY <1>0, <1>1 DEF TileTypes
  <2>2. \A b \in type : b[2] \in Tiles
    BY <1>1 DEF TileTypes
  <2>. QED
    BY <2>1, <2>2 DEF RecordsInv
<1>6. OtherForm' \/ (JobForm' /\ NoPush')
  <2>1. CASE Attached(c, t)
    <3>1. todo' = <<>>
      BY <1>0, <2>1 DEF InitTileOnce
    <3>. QED
      BY <1>1, <3>1, DoneForm DEF NoPush
  <2>2. CASE ~Attached(c, t)
    <3>1. todo' = << <<"attach", c, t>>, <<"create", ImplSlots(c, t)>> >> \o <<>>
      <4>1. todo' = << <<"attach", c, t>>, <<"create", ImplSlots(c, t)>> >>
        BY <1>0, <2>2, FreeTileIs DEF InitTileOnce
      <4>. DEFINE a == <<"attach", c, t>>
                  b == <<"create", ImplSlots(c, t)>>
      <4>. HIDE DEF a, b
      <4>2. <<a, b>> \o <<>> = <<a, b>>
        BY SMT
      <4>. QED
        BY <4>1, <4>2 DEF a, b
    <3>2. Live(t)' /\ ~Attached(c, t)'
      BY <1>0, <2>2 DEF Live, Attached
    <3>3. InitForm(c, t, <<>>)'
      BY <3>1, <3>2 DEF InitForm
    <3>4. AllocForm'
      BY <1>1, <1>2, <3>2, <3>3 DEF AllocForm
    <3>. QED
      BY <3>4 DEF OtherForm
  <2>. QED
    BY <2>1, <2>2
<1>. QED
  BY <1>0, <1>1, <1>2, <1>3, <1>4, <1>5, <1>6, CallKeeps

\* Selection.
LEMMA SelectKeeps ==
  ASSUME TypeInv, RecordsInv, TodoForm, Counts, ~Careless, NEW s \in Selections, Select(s)
  PROVE  TypeInv' /\ RecordsInv' /\ TodoForm' /\ Counts'
<1>. DEFINE t == Selected[s]
<1>0. /\ Live(t) /\ ~Live(s) /\ host_status[s] = "UNALLOC" /\ ~HalfFreed(t)
      /\ \E c \in Ctrl : Attached(c, t)
      /\ todo = <<>>
      /\ todo' = << <<"domain", s>>, <<"create", HostSlots(s)>> >> \o IfAttached("selectif", s)
      /\ UNCHANGED <<policy, ref_count, slotVars, queueVars, running>>
      /\ UNCHANGED <<type, records, valid_impls>> /\ jobs' = jobs /\ memory' = memory
      /\ host_status' = [host_status EXCEPT ![s] = host_status[t]]
      /\ device_status' = device_status
  BY DEF Select, Call, SetStatus
<1>a. s \in Tiles /\ t \in Tiles
  BY Names
<1>1. TileTypes /\ jobs \in 0 .. MaxJobs /\ slot[KernelEvent] = NoEvent /\ slot' = slot
  BY <1>0, IdleKernelEvent DEF TypeInv, slotVars
<1>. HIDE DEF t
<1>2. host_status[t] # "UNALLOC"
  BY <1>0 DEF RecordsInv, Attached
<1>3. host_status' \in [Tiles -> Status] /\ host_status'[s] # "UNALLOC"
  BY <1>0, <1>1, <1>2, <1>a DEF TileTypes
<1>4. \A b \in type : host_status'[b[2]] # "UNALLOC"
  <2>1. \A x \in Tiles : host_status[x] # "UNALLOC" => host_status'[x] # "UNALLOC"
    BY <1>0, <1>1, <1>3 DEF TileTypes
  <2>2. \A b \in type : b[2] \in Tiles
    BY <1>1 DEF TileTypes
  <2>. QED
    BY <2>1, <2>2 DEF RecordsInv
<1>5. \A c \in Ctrl : ~Attached(c, s)'
  BY <1>0 DEF RecordsInv, Attached
<1>6. \A c \in Ctrl : Attached(c, t)' => <<c, t>> \in records'
  BY <1>0 DEF HalfFreed, Attached
<1>7. SelectLoop(s, NCtrls)'
  <2>1. \A c \in NCtrls - NCtrls .. NCtrls - 1 : c \in Ctrl
    BY Names, SMT DEF Ctrl
  <2>2. \A c \in NCtrls - NCtrls .. NCtrls - 1 : ~Attached(c, s)'
    BY <1>5, <2>1
  <2>3. Live(t)'
    BY <1>0 DEF Live
  <2>. QED
    BY <1>3, <1>6, <2>2, <2>3 DEF SelectLoop, t
<1>8. SelectForm'
  <2>1. todo' = << <<"domain", s>>, <<"create", HostSlots(s)>> >> \o Loop("selectif", NCtrls, s)
    BY <1>0, LoopStarts
  <2>2. NCtrls \in 0 .. NCtrls
    BY LoopStarts
  <2>3. ~Live(s)'
    BY <1>0 DEF Live
  <2>4. slot'[KernelEvent] = NoEvent
    BY <1>1
  <2>. QED
    BY <1>7, <2>1, <2>2, <2>3, <2>4 DEF SelectForm
<1>9. memory' \subseteq ({Host} \cup Ctrl) \X Domains /\ device_status' \in [Ctrl \X Tiles -> Status]
  BY <1>0, <1>1 DEF TileTypes
<1>. QED
  BY <1>0, <1>1, <1>3, <1>4, <1>8, <1>9, CallKeeps DEF OtherForm

\* A call that frees a tile from one ctrl, or from all.
LEMMA FreeKeeps ==
  ASSUME TypeInv, RecordsInv, TodoForm, Counts, ~Careless, NEW t \in Tiles,
         FreeAll(t) \/ \E c \in Ctrl : Free(c, t)
  PROVE  TypeInv' /\ RecordsInv' /\ TodoForm' /\ Counts'
<1>0. /\ todo = <<>> /\ jobs' = jobs
      /\ UNCHANGED <<policy, ref_count, slotVars, queueVars, running>>
      /\ UNCHANGED <<type, records, valid_impls, memory, host_status, device_status>>
  BY DEF FreeAll, Free, Call, tileVars
<1>1. TileTypes /\ jobs \in 0 .. MaxJobs /\ slot[KernelEvent] = NoEvent /\ slot' = slot
  BY <1>0, IdleKernelEvent DEF TypeInv, slotVars
<1>2. /\ memory' \subseteq ({Host} \cup Ctrl) \X Domains
      /\ host_status' \in [Tiles -> Status] /\ device_status' \in [Ctrl \X Tiles -> Status]
      /\ \A b \in type : host_status'[b[2]] # "UNALLOC"
  BY <1>0, <1>1 DEF TileTypes, RecordsInv
<1>3. FreeForm'
  <2>1. CASE FreeAll(t)
    <3>1. <<NCtrls - 1, t>> \in records /\ ~HalfFreed(t) /\ todo' = IfAttached("freeif", t)
      BY <2>1 DEF FreeAll, Call
    <3>2. todo' = Loop("freeif", NCtrls, t) /\ NCtrls \in 0 .. NCtrls
      BY <3>1, LoopStarts
    <3>3. \A c \in NCtrls - NCtrls .. NCtrls - 1 : c \in Ctrl
      BY Names, SMT DEF Ctrl
    <3>4. \A c \in NCtrls - NCtrls .. NCtrls - 1 : Attached(c, t)' => <<c, t>> \in records'
      BY <1>0, <3>1, <3>3 DEF HalfFreed, Attached
    <3>5. FreeLoop(t, NCtrls)'
      BY <1>0, <3>1, <3>4 DEF FreeLoop
    <3>6. slot'[KernelEvent] = NoEvent
      BY <1>1
    <3>. QED
      BY <3>2, <3>5, <3>6 DEF FreeForm
  <2>2. CASE \E c \in Ctrl : Free(c, t)
    <3>1. PICK c \in Ctrl : Free(c, t)
      BY <2>2
    <3>2. <<c, t>> \in records /\ todo' = FreeTile(c, t)
      BY <3>1 DEF Free, Call
    <3>3. 0 \in 0 .. NCtrls /\ ~(0 > 0)
      BY Names, SMT
    <3>4. Loop("freeif", 0, t) = <<>>
      BY <3>3, LoopFacts
    <3>5. todo' = <<HostWait(c, t), DevWait(c, t), TileRelease(c, t), <<"detach", c, t>> >> \o <<>>
      <4>1. todo' = <<HostWait(c, t), DevWait(c, t), TileRelease(c, t), <<"detach", c, t>> >>
        BY <3>2, FreeTileIs
      <4>. DEFINE a == HostWait(c, t)
                  b == DevWait(c, t)
                  d == TileRelease(c, t)
                  e == <<"detach", c, t>>
      <4>. HIDE DEF a, b, d, e
      <4>2. <<a, b, d, e>> \o <<>> = <<a, b, d, e>>
        BY SMT
      <4>. QED
        BY <4>1, <4>2 DEF a, b, d, e
    <3>6. FreeRound(c, t, 0, <<>>)'
      BY <1>0, <3>2, <3>3, <3>5 DEF FreeRound
    <3>7. FreeLoop(t, 0)'
      BY <3>3 DEF FreeLoop
    <3>8. slot'[KernelEvent] = NoEvent
      BY <1>1
    <3>. QED
      BY <3>3, <3>4, <3>6, <3>7, <3>8 DEF FreeForm
  <2>. QED
    BY <2>1, <2>2
<1>. QED
  BY <1>0, <1>1, <1>2, <1>3, CallKeeps DEF OtherForm

\* A job: a transfer, a launch or a host task.
LEMMA JobKeeps ==
  ASSUME TypeInv, RecordsInv, TodoForm, Counts, ~Careless, NEW j \in Jobs,
         \/ j[1] = "moveto" /\ MoveTo(j[2], j[3])
         \/ j[1] = "movefrom" /\ MoveFrom(j[2], j[3])
         \/ j[1] = "launch" /\ Launch(j[2], j[3], j[4])
         \/ j[1] = "hosttask" /\ HostTask(j[3], j[4])
  PROVE  TypeInv' /\ RecordsInv' /\ TodoForm' /\ Counts'
<1>. DEFINE c == j[2]
            t == j[3]
            r == j[4]
<1>1. t \in Tiles /\ (j[1] # "hosttask" => c \in Ctrl)
  <2>1. j \in {"moveto", "movefrom", "launch", "hosttask"}
               \X ({Host} \cup Ctrl) \X Tiles \X {"IN", "OUT", "IO"}
    BY TileLifecycleAssumption
  <2>2. j[2] = Host => j[1] = "hosttask"
    BY TileLifecycleAssumption
  <2>. QED
    BY <2>1, <2>2
<1>2. TileTypes /\ jobs \in 0 .. MaxJobs
  BY DEF TypeInv
<1>3. Invalidated(t) \in [Ctrl \X Tiles -> Status]
  BY InvalidatedTypes
<1>. HIDE DEF c, t, r
<1>4. ASSUME NEW l, JobCall(l), memory' = memory, UNCHANGED <<type, records, valid_impls>>,
             host_status' \in [Tiles -> Status],
             \A x \in Tiles : host_status[x] # "UNALLOC" => host_status'[x] # "UNALLOC",
             device_status' \in [Ctrl \X Tiles -> Status],
             slot[KernelEvent] = NoEvent => Part(l) /\ KernelEventOnce(l)
      PROVE  TypeInv' /\ RecordsInv' /\ TodoForm' /\ Counts'
  <2>1. /\ jobs < MaxJobs /\ jobs' = jobs + 1 /\ todo = <<>> /\ todo' = l
        /\ UNCHANGED <<policy, ref_count, slotVars, queueVars, running>>
    BY <1>4 DEF JobCall, Call
  <2>2. jobs' \in 0 .. MaxJobs
    <3>1. MaxJobs \in Nat
      BY TileLifecycleAssumption
    <3>. QED
      BY <1>2, <2>1, <3>1, SMT
  <2>3. memory' \subseteq ({Host} \cup Ctrl) \X Domains
    BY <1>2, <1>4 DEF TileTypes
  <2>4. \A b \in type : host_status'[b[2]] # "UNALLOC"
    <3>1. \A b \in type : b[2] \in Tiles
      BY <1>2 DEF TileTypes
    <3>. QED
      BY <1>4, <3>1 DEF RecordsInv
  <2>5. slot[KernelEvent] = NoEvent /\ slot' = slot
    BY <2>1, IdleKernelEvent DEF slotVars
  <2>6. JobForm' /\ NoPush'
    BY <1>4, <2>1, <2>5, JobStarts
  <2>. QED
    BY <1>4, <2>1, <2>2, <2>3, <2>4, <2>6, CallKeeps
<1>5. host_status \in [Tiles -> Status] /\ device_status \in [Ctrl \X Tiles -> Status]
  BY <1>2 DEF TileTypes
<1>6. CASE j[1] \in {"moveto", "movefrom"}
  <2>1. /\ c \in Ctrl /\ Usable(c, t)
        /\ \/ JobCall(MoveToInner(c, t))
           \/ JobCall(MoveFromInner(c, t))
        /\ SetStatus([host_status EXCEPT ![t] = "VALID"],
                     [device_status EXCEPT ![<<c, t>>] = "VALID"])
        /\ memory' = memory
    BY <1>1, <1>6 DEF MoveTo, MoveFrom, Move, c, t
  <2>2. /\ <<c, t>> \in records /\ Live(t)
        /\ \A d \in Ctrl : Attached(d, t) => <<d, t>> \in records
    BY <2>1 DEF Usable, HalfFreed
  <2>3. Plain(MoveToInner(c, t)) /\ Plain(MoveFromInner(c, t))
    BY <1>1, <2>1, <2>2, MoveToPlain, MoveFromPlain
  <2>4. /\ UNCHANGED <<type, records, valid_impls>>
        /\ host_status' = [host_status EXCEPT ![t] = "VALID"]
        /\ device_status' = [device_status EXCEPT ![<<c, t>>] = "VALID"]
    BY <2>1 DEF SetStatus
  <2>5. /\ host_status' \in [Tiles -> Status] /\ device_status' \in [Ctrl \X Tiles -> Status]
        /\ \A x \in Tiles : host_status[x] # "UNALLOC" => host_status'[x] # "UNALLOC"
    BY <1>5, <2>4 DEF Status
  <2>6. slot[KernelEvent] = NoEvent =>
          /\ Part(MoveToInner(c, t)) /\ KernelEventOnce(MoveToInner(c, t))
          /\ Part(MoveFromInner(c, t)) /\ KernelEventOnce(MoveFromInner(c, t))
    BY <2>3, PlainStarts
  <2>. QED
    BY <1>4, <2>1, <2>4, <2>5, <2>6
<1>7. CASE j[1] = "launch"
  <2>1. /\ c \in Ctrl /\ <<c, t>> \in records /\ JobCall(LaunchInner(c, t, r))
        /\ \/ SetStatus(host_status, device_status)
           \/ SetStatus([host_status EXCEPT ![t] = IF @ = "VALID" THEN "INVALID" ELSE @],
                        [Invalidated(t) EXCEPT ![<<c, t>>] = "VALID"])
        /\ memory' = memory
    BY <1>1, <1>7 DEF Launch, Usable, c, t, r
  <2>2. slot[KernelEvent] = NoEvent =>
          Part(LaunchInner(c, t, r)) /\ KernelEventOnce(LaunchInner(c, t, r))
    BY <1>1, <2>1, LaunchPart
  <2>3. UNCHANGED <<type, records, valid_impls>>
    BY <2>1 DEF SetStatus
  <2>4. /\ host_status' \in [Tiles -> Status] /\ device_status' \in [Ctrl \X Tiles -> Status]
        /\ \A x \in Tiles : host_status[x] # "UNALLOC" => host_status'[x] # "UNALLOC"
    <3>1. CASE SetStatus(host_status, device_status)
      BY <1>5, <3>1 DEF SetStatus
    <3>2. CASE SetStatus([host_status EXCEPT ![t] = IF @ = "VALID" THEN "INVALID" ELSE @],
                         [Invalidated(t) EXCEPT ![<<c, t>>] = "VALID"])
      <4>1. /\ host_status' = [host_status EXCEPT ![t] = IF @ = "VALID" THEN "INVALID" ELSE @]
            /\ device_status' = [Invalidated(t) EXCEPT ![<<c, t>>] = "VALID"]
        BY <3>2 DEF SetStatus
      <4>2. host_status' \in [Tiles -> Status]
        BY <1>5, <4>1 DEF Status
      <4>3. device_status' \in [Ctrl \X Tiles -> Status]
        BY <1>3, <4>1 DEF Status
      <4>4. \A x \in Tiles : host_status[x] # "UNALLOC" => host_status'[x] # "UNALLOC"
        BY <1>5, <4>1
      <4>. QED
        BY <4>2, <4>3, <4>4
    <3>. QED
      BY <2>1, <3>1, <3>2
  <2>. QED
    BY <1>4, <2>1, <2>2, <2>3, <2>4
<1>8. CASE j[1] = "hosttask"
  <2>1. /\ Live(t) /\ ~HalfFreed(t) /\ JobCall(HostTaskInner(t, r))
        /\ \/ SetStatus(host_status, device_status)
           \/ SetStatus([host_status EXCEPT ![t] = "VALID"], Invalidated(t))
        /\ memory' = memory
    BY <1>8 DEF HostTask, t, r
  <2>2. \A d \in Ctrl : Attached(d, t) => <<d, t>> \in records
    BY <2>1 DEF HalfFreed
  <2>3. Plain(HostTaskInner(t, r))
    BY <1>1, <2>1, <2>2, HostTaskPlain
  <2>4. slot[KernelEvent] = NoEvent =>
          Part(HostTaskInner(t, r)) /\ KernelEventOnce(HostTaskInner(t, r))
    BY <2>3, PlainStarts
  <2>5. UNCHANGED <<type, records, valid_impls>>
    BY <2>1 DEF SetStatus
  <2>6. /\ host_status' \in [Tiles -> Status] /\ device_status' \in [Ctrl \X Tiles -> Status]
        /\ \A x \in Tiles : host_status[x] # "UNALLOC" => host_status'[x] # "UNALLOC"
    BY <1>3, <1>5, <2>1 DEF SetStatus, Status
  <2>. QED
    BY <1>4, <2>1, <2>4, <2>5, <2>6
<1>. QED
  BY <1>6, <1>7, <1>8

\* Every call keeps the invariant.
LEMMA CallsKeep ==
  ASSUME TypeInv, RecordsInv, TodoForm, Counts, ~Careless, CallStep
  PROVE  TypeInv' /\ RecordsInv' /\ TodoForm' /\ Counts'
  BY AllocKeeps, SelectKeeps, FreeKeeps, JobKeeps DEF CallStep
-----------------------------------------------------------------------------
(* The invariant.                                                          *)

\* The model starts with an event in each slot in use, and nothing under way.
LEMMA StartsInv ==
  Init => TypeInv /\ RecordsInv /\ TodoForm /\ Counts
<1>. SUFFICES ASSUME Init PROVE TypeInv /\ RecordsInv /\ TodoForm /\ Counts
  OBVIOUS
<1>1. PICK start \in Starts :
        LET A == start[2]
            used == (UNION {HostSlots(t) : t \in Domains})
                    \cup (UNION {{HostSeq(c), DevSeq(c)} : c \in Ctrl})
                    \cup (UNION {ImplSlots(b[1], b[2]) : b \in A})
            allocated == A \cup {<<Host, b[2]>> : b \in A}
        IN /\ policy = start[1]
           /\ todo = <<>> /\ jobs = 0
           /\ type = A
           /\ records = A \cup {<<Host, t>> : t \in Domains}
           /\ valid_impls = [t \in Tiles |-> Cardinality({b \in A : b[2] = t})]
           /\ memory = allocated
           /\ host_status = [t \in Tiles |-> IF <<Host, t>> \in allocated THEN "INVALID"
                                             ELSE "UNALLOC"]
           /\ device_status = [b \in Ctrl \X Tiles |-> IF b \in A THEN "INVALID"
                                                       ELSE "UNALLOC"]
           /\ slot = [s \in Slot |-> IF s \in used THEN Event(s, 0) ELSE NoEvent]
           /\ recorded = [s \in CpuSlot |-> Unrecorded]
           /\ ref_count = [e \in {Event(s, 0) : s \in used} |-> 1]
           /\ queue = [q \in Queue |-> <<>>]
           /\ pushed = [q \in Queue |-> 0]
           /\ last_finished = [q \in Queue |-> 0]
           /\ running = [q \in DriverQueue |-> <<>>]
  BY DEF Init
<1>. DEFINE A == start[2]
            used == (UNION {HostSlots(t) : t \in Domains})
                    \cup (UNION {{HostSeq(c), DevSeq(c)} : c \in Ctrl})
                    \cup (UNION {ImplSlots(b[1], b[2]) : b \in A})
            allocated == A \cup {<<Host, b[2]>> : b \in A}
            New == {Event(s, 0) : s \in used}
<1>2. /\ policy = start[1] /\ todo = <<>> /\ jobs = 0
      /\ type = A /\ records = A \cup {<<Host, t>> : t \in Domains}
      /\ valid_impls = [t \in Tiles |-> Cardinality({b \in A : b[2] = t})]
      /\ memory = allocated
      /\ host_status = [t \in Tiles |-> IF <<Host, t>> \in allocated THEN "INVALID"
                                        ELSE "UNALLOC"]
      /\ device_status = [b \in Ctrl \X Tiles |-> IF b \in A THEN "INVALID" ELSE "UNALLOC"]
      /\ slot = [s \in Slot |-> IF s \in used THEN Event(s, 0) ELSE NoEvent]
      /\ recorded = [s \in CpuSlot |-> Unrecorded]
      /\ ref_count = [e \in New |-> 1]
      /\ queue = [q \in Queue |-> <<>>] /\ pushed = [q \in Queue |-> 0]
      /\ last_finished = [q \in Queue |-> 0] /\ running = [q \in DriverQueue |-> <<>>]
  BY <1>1
<1>3. /\ start[1] \in {"SYNC", "ASYNC"} /\ A \subseteq Ctrl \X Domains
      /\ Domains \subseteq Tiles /\ MaxJobs \in Nat
  <2>1. start \in {"SYNC", "ASYNC"} \X SUBSET (Ctrl \X Domains)
    BY TileLifecycleAssumption
  <2>. QED
    BY <2>1, TileLifecycleAssumption DEF Tiles
<1>4. \A b \in A : b = <<b[1], b[2]>> /\ b[1] \in Ctrl /\ b[2] \in Domains
  BY <1>3
<1>. DEFINE H == UNION {HostSlots(t) : t \in Domains}
            Q == UNION {{HostSeq(c), DevSeq(c)} : c \in Ctrl}
            I == UNION {ImplSlots(b[1], b[2]) : b \in A}
<1>5. /\ \A s : s \in H <=> \E t \in Domains : s \in HostSlots(t)
      /\ \A s : s \in Q <=> \E c \in Ctrl : s \in {HostSeq(c), DevSeq(c)}
      /\ \A s : s \in I <=> \E b \in A : s \in ImplSlots(b[1], b[2])
  OBVIOUS
<1>6. used = H \cup Q \cup I
  OBVIOUS
<1>. HIDE DEF A, H, Q, I, used, allocated
<1>7. used \subseteq Slot \ {KernelEvent}
  <2>1. H \subseteq Slot \ {KernelEvent}
    BY <1>3, <1>5, SlotKinds
  <2>2. Q \subseteq Slot \ {KernelEvent}
    <3>1. \A c \in Ctrl : HostSeq(c) # KernelEvent
      BY SMT DEF HostSeq, KernelEvent
    <3>. QED
      BY <1>5, <3>1, SlotKinds
  <2>3. I \subseteq Slot \ {KernelEvent}
    BY <1>3, <1>4, <1>5, SlotKinds
  <2>. QED
    BY <1>6, <2>1, <2>2, <2>3
<1>8. \A s \in used : /\ Event(s, 0) \in Ids /\ Event(s, 0) # NoEvent
                      /\ \A r \in used : Event(s, 0) = Event(r, 0) => s = r
  <2>1. 0 \in Nat /\ 0 \in Int
    BY SMT
  <2>. QED
    BY <1>7, <2>1, EventNames
<1>9. slot \in [Slot -> Ids]
  BY <1>2, <1>8, EventNames
<1>10. CountTypes
  <2>1. IsFiniteSet(New)
    <3>. DEFINE f == [s \in used |-> Event(s, 0)]
    <3>1. f \in [used -> New] /\ \A y \in New : \E s \in used : f[s] = y
      OBVIOUS
    <3>2. IsFiniteSet(used)
      BY <1>7, SlotsFinite
    <3>. HIDE DEF f, New
    <3>. QED
      BY <3>1, <3>2, ImageFinite
  <2>2. New \subseteq Ids /\ NoEvent \notin New
    BY <1>8
  <2>. HIDE DEF New
  <2>3. DOMAIN ref_count = New
    BY <1>2
  <2>4. 1 \in Nat \ {0}
    BY SMT
  <2>5. ref_count \in [New -> Nat \ {0}]
    BY <1>2, <2>4
  <2>. QED
    BY <2>1, <2>2, <2>3, <2>5 DEF CountTypes
<1>11. QueueTypes
  <2>1. <<>> \in Seq(TaskSet) /\ 0 \in Nat /\ 0 = 0 + Len(<<>>)
    BY SMT
  <2>2. /\ queue \in [Queue -> Seq(TaskSet)] /\ running \in [DriverQueue -> Seq(TaskSet)]
        /\ pushed \in [Queue -> Nat] /\ last_finished \in [Queue -> Nat]
    BY <1>2, <2>1
  <2>3. \A q \in Queue : queue[q] = <<>> /\ pushed[q] = 0 /\ last_finished[q] = 0
    BY <1>2
  <2>. QED
    BY <2>1, <2>2, <2>3 DEF QueueTypes
<1>12. ASSUME NEW t \in Tiles
       PROVE  /\ CtrlsOf(t) = {c \in Ctrl : <<c, t>> \in A}
              /\ Cardinality({b \in A : b[2] = t}) = Cardinality(CtrlsOf(t))
              /\ Cardinality({b \in A : b[2] = t}) \in Nat
  <2>1. \A c \in Ctrl : <<c, t>> \in records <=> <<c, t>> \in A
    BY <1>2, Names
  <2>2. CtrlsOf(t) = {c \in Ctrl : <<c, t>> \in A}
    BY <2>1 DEF CtrlsOf
  <2>. DEFINE B == {b \in A : b[2] = t}
              f == [c \in CtrlsOf(t) |-> <<c, t>>]
  <2>3. f \in [CtrlsOf(t) -> B]
    BY <2>2
  <2>4. \A c, d \in CtrlsOf(t) : f[c] = f[d] => c = d
    OBVIOUS
  <2>5. \A b \in B : \E c \in CtrlsOf(t) : f[c] = b
    <3>1. \A b \in B : b[1] \in CtrlsOf(t) /\ f[b[1]] = b
      BY <1>4, <2>2
    <3>. QED
      BY <3>1
  <2>6. IsFiniteSet(CtrlsOf(t))
    <3>1. IsFiniteSet(Ctrl) /\ CtrlsOf(t) \subseteq Ctrl
      BY CtrlsFinite DEF CtrlsOf
    <3>. QED
      BY <3>1, FS_Subset
  <2>. HIDE DEF f, B
  <2>7. f \in Bijection(CtrlsOf(t), B)
    BY <2>3, <2>4, <2>5 DEF Bijection, Injection, Surjection, IsInjective
  <2>8. Cardinality(B) = Cardinality(CtrlsOf(t)) /\ Cardinality(B) \in Nat
    BY <2>6, <2>7, FS_Bijection, FS_CardinalityType DEF ExistsBijection
  <2>. QED
    BY <2>2, <2>8 DEF B
<1>13. TileTypes
  <2>1. memory \subseteq ({Host} \cup Ctrl) \X Domains
    <3>1. \A b \in A : b \in Ctrl \X Domains /\ <<Host, b[2]>> \in {Host} \X Domains
      BY <1>3, <1>4
    <3>. QED
      BY <1>2, <3>1 DEF allocated
  <2>2. records \subseteq ({Host} \cup Ctrl) \X Tiles /\ type \subseteq Ctrl \X Tiles
    BY <1>2, <1>3
  <2>3. valid_impls \in [Tiles -> Nat]
    BY <1>2, <1>12
  <2>4. host_status \in [Tiles -> Status] /\ device_status \in [Ctrl \X Tiles -> Status]
    BY <1>2 DEF Status
  <2>. QED
    BY <2>1, <2>2, <2>3, <2>4 DEF TileTypes
<1>14. TypeInv
  <2>1. jobs \in 0 .. MaxJobs
    BY <1>2, <1>3, SMT
  <2>2. Unrecorded \in Queue \X Nat
    BY QueuesAre DEF Unrecorded
  <2>. QED
    BY <1>2, <1>3, <1>9, <1>10, <1>11, <1>13, <2>1, <2>2 DEF TypeInv
<1>15. RecordsInv
  <2>1. \A c \in Ctrl, t \in Tiles : <<c, t>> \in records => Attached(c, t) /\ Live(t)
    <3>1. ASSUME NEW c \in Ctrl, NEW t \in Tiles, <<c, t>> \in records
          PROVE  Attached(c, t) /\ Live(t)
      <4>1. <<c, t>> \in A
        BY <1>2, <3>1, Names
      <4>2. t \in Domains
        BY <1>3, <4>1
      <4>. QED
        BY <1>2, <4>1, <4>2 DEF Attached, Live
    <3>. QED
      BY <3>1
  <2>2. \A t \in Tiles : valid_impls[t] = Cardinality(CtrlsOf(t))
    BY <1>2, <1>12
  <2>3. ASSUME NEW b \in type PROVE host_status[b[2]] # "UNALLOC"
    <3>1. <<Host, b[2]>> \in allocated /\ b[2] \in Tiles
      BY <1>2, <1>3, <1>4 DEF allocated
    <3>. QED
      BY <1>2, <3>1
  <2>4. ASSUME NEW t \in Tiles, ~Live(t), NEW s \in HostSlots(t) PROVE slot[s] = NoEvent
    <3>1. t \notin Domains /\ s \in Slot
      BY <1>2, <2>4, SlotMembers DEF Live
    <3>2. RecordOf(s) = {<<Host, t>>}
      BY SlotRecords
    <3>3. s \notin H
      <4>1. \A x \in Domains : s \in HostSlots(x) => RecordOf(s) = {<<Host, x>>}
        BY <1>3, SlotRecords
      <4>2. ASSUME NEW x \in Domains, {<<Host, x>>} = {<<Host, t>>} PROVE x = t
        <5>1. <<Host, x>> = <<Host, t>>
          BY <4>2, Zenon
        <5>. QED
          BY <5>1
      <4>. QED
        BY <1>5, <3>1, <3>2, <4>1, <4>2
    <3>4. s \notin Q
      BY <1>5, <3>2, SlotRecords
    <3>5. s \notin I
      <4>1. \A b \in A : s \in ImplSlots(b[1], b[2]) => RecordOf(s) = {<<b[1], b[2]>>}
        BY <1>3, <1>4, SlotRecords
      <4>2. \A b \in A : {<<b[1], b[2]>>} # {<<Host, t>>}
        BY <1>4, Names
      <4>. QED
        BY <1>5, <3>2, <4>1, <4>2
    <3>. QED
      BY <1>2, <1>6, <3>1, <3>3, <3>4, <3>5
  <2>5. ASSUME NEW c \in Ctrl, NEW t \in Tiles, ~Attached(c, t), NEW s \in ImplSlots(c, t)
        PROVE  slot[s] = NoEvent
    <3>1. <<c, t>> \notin A /\ s \in Slot
      BY <1>2, <2>5, SlotMembers DEF Attached
    <3>2. RecordOf(s) = {<<c, t>>}
      BY SlotRecords
    <3>3. s \notin H
      <4>1. \A x \in Domains : s \in HostSlots(x) => RecordOf(s) = {<<Host, x>>}
        BY <1>3, SlotRecords
      <4>2. ASSUME NEW x \in Domains, {<<Host, x>>} = {<<c, t>>} PROVE FALSE
        <5>1. <<Host, x>> = <<c, t>>
          BY <4>2, Zenon
        <5>. QED
          BY <5>1, Names
      <4>. QED
        BY <1>5, <3>2, <4>1, <4>2
    <3>4. s \notin Q
      BY <1>5, <3>2, SlotRecords
    <3>5. s \notin I
      <4>1. \A b \in A : s \in ImplSlots(b[1], b[2]) => RecordOf(s) = {b}
        BY <1>3, <1>4, SlotRecords
      <4>2. \A b \in A : {b} # {<<c, t>>}
        BY <3>1
      <4>. QED
        BY <1>5, <3>2, <4>1, <4>2
    <3>. QED
      BY <1>2, <1>6, <3>1, <3>3, <3>4, <3>5
  <2>. QED
    BY <2>1, <2>2, <2>3, <2>4, <2>5 DEF RecordsInv, Empty
<1>16. slot[KernelEvent] = NoEvent
  BY <1>2, <1>7, SlotKinds
<1>17. TodoForm
  <2>1. <<>> \in Seq(JobOps) /\ 1 .. Len(<<>>) = {} /\ 1 .. Len(<<>>) - 1 = {}
    BY SMT
  <2>2. JobList(<<>>)
    BY <2>1 DEF JobList
  <2>3. KernelEventOnce(<<>>)
    BY <1>16, <2>1 DEF KernelEventOnce, NoKernelEvent
  <2>. QED
    BY <1>2, <2>2, <2>3 DEF TodoForm, JobForm
<1>18. Counts
  <2>1. DOMAIN ref_count = New /\ NoPush
    BY <1>2 DEF NoPush
  <2>2. \A s \in Slot : slot[s] \in New \cup {NoEvent}
    BY <1>2
  <2>3. \A q \in Queue : DOMAIN queue[q] = {}
    <3>1. DOMAIN <<>> = {}
      BY SMT
    <3>. QED
      BY <1>2, <3>1
  <2>4. \A e : TasksWith(e) = {}
    BY <2>3 DEF TasksWith
  <2>5. ASSUME NEW e \in New
        PROVE  ref_count[e] = 1 /\ Cardinality(Holding(e)) = 1
    <3>1. PICK s \in used : e = Event(s, 0)
      OBVIOUS
    <3>2. Holding(e) = {s}
      BY <1>2, <1>7, <1>8, <3>1 DEF Holding
    <3>. QED
      BY <1>2, <3>2, FS_Singleton
  <2>. HIDE DEF New
  <2>6. Cardinality({}) = 0 /\ 1 = 1 + 0 + 0
    BY FS_EmptySet, SMT
  <2>7. ASSUME NEW e \in New
        PROVE  ref_count[e] = Cardinality(Holding(e)) + Cardinality(TasksWith(e))
                      + (IF ~NoPush /\ slot[Head(todo)[4]] = e THEN 1 ELSE 0)
    <3>1. (IF ~NoPush /\ slot[Head(todo)[4]] = e THEN 1 ELSE 0) = 0
      BY <2>1
    <3>. QED
      BY <2>4, <2>5, <2>6, <3>1
  <2>. QED
    BY <2>1, <2>2, <2>3, <2>7 DEF Counts
<1>. QED
  BY <1>14, <1>15, <1>17, <1>18

\* The inductive invariant.
LifecycleInv == TypeInv /\ RecordsInv /\ TodoForm /\ Counts

\* Every step keeps the invariant.
LEMMA StepKeeps ==
  LifecycleInv /\ ~Careless /\ [Next]_vars => LifecycleInv'
<1>. SUFFICES ASSUME TypeInv, RecordsInv, TodoForm, Counts, ~Careless, [Next]_vars
              PROVE  TypeInv' /\ RecordsInv' /\ TodoForm' /\ Counts'
  BY DEF LifecycleInv
<1>1. CASE CallStep
  BY <1>1, CallsKeep
<1>2. CASE MainStep
  <2>1. TypeInv'
    BY <1>2, MainTypes
  <2>2. RecordsInv'
    BY <1>2, MainRecords
  <2>3. TodoForm'
    BY <1>2, <2>1, <2>2, MainPushes
  <2>4. Counts'
    BY <1>2, <2>1, <2>2, MainCounts
  <2>. QED
    BY <2>1, <2>2, <2>3, <2>4
<1>3. CASE ThreadStep
  BY <1>3, ThreadKeeps
<1>4. CASE UNCHANGED vars
  <2>1. UNCHANGED <<policy, todo, jobs, type, records, valid_impls, memory, host_status,
                    device_status, slot, recorded, ref_count, queue, pushed, last_finished,
                    running>>
    BY <1>4 DEF vars, tileVars, slotVars, queueVars
  <2>2. TypeInv'
    BY <2>1 DEF TypeInv, TileTypes, CountTypes, QueueTypes
  <2>3. RecordsInv'
    <3>1. \A b \in type : host_status'[b[2]] # "UNALLOC"
      BY <2>1 DEF RecordsInv
    <3>2. \A s \in Slot : slot'[s] \in {slot[s], NoEvent}
      BY <2>1
    <3>. QED
      BY <2>1, <3>1, <3>2, RecordsKept
  <2>4. TodoForm'
    BY <2>1, FormsKept
  <2>5. Counts'
    <3>1. \A e : TasksWith(e)' = TasksWith(e) /\ Holding(e)' = Holding(e)
      BY <2>1 DEF TasksWith, Holding
    <3>2. NoPush' = NoPush
      BY <2>1 DEF NoPush
    <3>. QED
      BY <2>1, <3>1, <3>2 DEF Counts
  <2>. QED
    BY <2>2, <2>3, <2>4, <2>5
<1>. QED
  BY <1>1, <1>2, <1>3, <1>4 DEF Next, Finished

\* It holds of every state a program reaches that is not careless: each call
\* finds the records and events its operations left rely on.
THEOREM LifecycleInvariant ==
  ASSUME ~Careless
  PROVE  Spec => []LifecycleInv
<1>1. Init => LifecycleInv
  BY StartsInv DEF LifecycleInv
<1>2. LifecycleInv /\ [Next]_vars => LifecycleInv'
  BY StepKeeps
<1>. QED
  BY <1>1, <1>2, PTL DEF Spec

\* Variables keep their types: what a tile counts as valid_impls is at most
\* the number of ctrls (the attach in Ctrl_InitTile and the end of the frees),
\* an event that is there has a counter above 0, and no queue finishes more
\* tasks than it was given.
THEOREM TypesCorrect ==
  ASSUME ~Careless
  PROVE  Spec => []TypeOK
<1>1. LifecycleInv => TypeOK
  <2>. SUFFICES ASSUME LifecycleInv PROVE TypeOK
    OBVIOUS
  <2>1. TypeInv /\ RecordsInv
    BY DEF LifecycleInv
  <2>2. valid_impls \in [Tiles -> 0 .. NCtrls]
    <3>1. \A t \in Tiles : valid_impls[t] \in 0 .. NCtrls
      BY <2>1, CtrlsFinite DEF RecordsInv
    <3>. QED
      BY <2>1, <3>1 DEF TypeInv, TileTypes
  <2>3. \A e \in DOMAIN ref_count : ref_count[e] \in Nat \ {0}
    BY <2>1 DEF TypeInv, CountTypes
  <2>4. ASSUME NEW q \in Queue PROVE last_finished[q] \in 0 .. pushed[q]
    <3>. DEFINE f == last_finished[q]
                k == pushed[q]
                n == Len(queue[q])
    <3>1. queue[q] \in Seq(TaskSet) /\ f \in Nat /\ k \in Nat /\ k = f + n
      BY <2>1 DEF TypeInv, QueueTypes
    <3>2. n \in Nat
      BY <3>1, LenProperties
    <3>. HIDE DEF f, k, n
    <3>3. f \in 0 .. k
      BY <3>1, <3>2, SMT
    <3>. QED
      BY <3>3 DEF f, k
  <2>. QED
    BY <2>1, <2>2, <2>3, <2>4 DEF TypeOK, TypeInv, TileTypes, Status
<1>. QED
  BY <1>1, LifecycleInvariant, PTL

\* The counter of an event is the number of variables and tasks that hold it:
\* Ctrl_GenericEvent_Retain and Ctrl_GenericEvent_Release balance in every
\* call of the main thread and in the threads that take its tasks, in whatever
\* order they run.
THEOREM CountersExact ==
  ASSUME ~Careless
  PROVE  Spec => []CountsExact
<1>1. LifecycleInv => CountsExact
  BY CountsAre DEF LifecycleInv
<1>. QED
  BY <1>1, LifecycleInvariant, PTL

\* Every operation of a call finds the records it reads or writes, although
\* p_impls[c].type is kept when the record of a ctrl is freed.
THEOREM NoStaleRecords ==
  ASSUME ~Careless
  PROVE  Spec => []NoStaleRecord
<1>1. LifecycleInv => NoStaleRecord
  BY HeadFacts DEF LifecycleInv, NoStaleRecord, OpOK
<1>. QED
  BY <1>1, LifecycleInvariant, PTL
=============================================================================
