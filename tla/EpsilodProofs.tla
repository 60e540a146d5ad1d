---------------------------- MODULE EpsilodProofs ----------------------------
(***************************************************************************)
(* For any number of processes, iterations and borders, at any speed of    *)
(* processes, devices and messages: if the plans of the processes fit each *)
(* other (Fits), every kernel reads what the iteration before computed,    *)
(* and the output is complete.                                             *)
(***************************************************************************)
EXTENDS Epsilod, FunctionTheorems, FiniteSetTheorems, TLAPS

(* Sequences.                                                              *)

\* The elements of a finite set, in some order.
LEMMA SeqOfSet ==
  ASSUME NEW S, IsFiniteSet(S)
  PROVE  /\ SetToSeq(S) \in Seq(S)
         /\ \A x \in S : \E i \in DOMAIN SetToSeq(S) : SetToSeq(S)[i] = x
<1>. DEFINE n == Cardinality(S)
            q == SetToSeq(S)
<1>1. n \in Nat /\ ExistsBijection(1 .. n, S)
  BY FS_CardinalityType
<1>. HIDE DEF n
<1>2. PICK f \in Bijection(1 .. n, S) : TRUE
  BY <1>1 DEF ExistsBijection
<1>3. f \in [1 .. n -> S] /\ \A a, b \in 1 .. n : f[a] = f[b] => a = b
  BY <1>2, Fun_BijectionProperties, Zenon
<1>4. f \in [1 .. n -> S] /\ IsInjective(f)
  BY <1>3 DEF IsInjective
<1>5. q \in [1 .. n -> S] /\ IsInjective(q)
  BY <1>4, Zenon DEF SetToSeq, n
<1>. HIDE DEF q
<1>6. q \in Injection(1 .. n, S)
  BY <1>5 DEF Injection
<1>7. IsFiniteSet(1 .. n) /\ Cardinality(1 .. n) = n
  BY <1>1, FS_Interval
<1>8. q \in Surjection(1 .. n, S)
  BY <1>6, <1>7, FS_Injection DEF n
<1>9. \A x \in S : \E i \in 1 .. n : q[i] = x
  BY <1>8 DEF Surjection
<1>10. q \in Seq(S) /\ DOMAIN q = 1 .. n
  BY <1>1, <1>5
<1>. QED
  BY <1>9, <1>10 DEF q

\* One message.
LEMMA SeqOfOne ==
  ASSUME NEW m
  PROVE  SetToSeq({m}) = <<m>>
<1>1. IsFiniteSet({m}) /\ Cardinality({m}) = 1
  BY FS_Singleton
<1>. DEFINE q == SetToSeq({m})
            f == <<m>>
<1>2. f \in [1 .. 1 -> {m}] /\ IsInjective(f)
  BY DEF IsInjective
<1>3. q \in [1 .. 1 -> {m}]
  BY <1>1, <1>2, Zenon DEF SetToSeq
<1>. HIDE DEF q
<1>4. q = <<m>>
  BY <1>3
<1>. QED
  BY <1>4 DEF q

\* A sequence without its i-th element.
LEMMA Removed ==
  ASSUME NEW E, NEW s \in Seq(E), NEW i \in DOMAIN s
  PROVE  /\ RemoveAt(s, i) \in Seq(E)
         /\ \A j \in DOMAIN RemoveAt(s, i) :
              LET k == IF j < i THEN j ELSE j + 1
              IN j \in Int /\ k \in DOMAIN s /\ k # i /\ RemoveAt(s, i)[j] = s[k]
         /\ \A k \in DOMAIN s : k # i =>
              \E j \in DOMAIN RemoveAt(s, i) : RemoveAt(s, i)[j] = s[k]
<1>. DEFINE a == SubSeq(s, 1, i - 1)
            b == SubSeq(s, i + 1, Len(s))
            r == a \o b
            n == Len(s)
<1>1. n \in Nat /\ i \in 1 .. n /\ DOMAIN s = 1 .. n
  OBVIOUS
<1>2. /\ a \in Seq(E) /\ Len(a) = i - 1 /\ \A j \in 1 .. i - 1 : a[j] = s[j]
      /\ b \in Seq(E) /\ Len(b) = n - i /\ \A j \in 1 .. n - i : b[j] = s[i + j]
  <2>1. a \in Seq(E) /\ Len(a) = i - 1 /\ \A j \in 1 .. i - 1 : a[j] = s[j]
    BY <1>1
  <2>2. b \in Seq(E) /\ Len(b) = n - i
    BY <1>1
  <2>3. \A j \in 1 .. n - i : b[j] = s[i + j]
    BY <1>1
  <2>. QED
    BY ONLY <2>1, <2>2, <2>3, Zenon
<1>. HIDE DEF a, b, n
<1>3. /\ r \in Seq(E) /\ Len(r) = n - 1 /\ DOMAIN r = 1 .. n - 1
      /\ \A j \in 1 .. n - 1 : j < i => r[j] = a[j]
      /\ \A j \in 1 .. n - 1 : ~(j < i) => r[j] = b[j - (i - 1)]
  <2>1. Len(a) + Len(b) = n - 1 /\ n - 1 \in Nat
    BY <1>1, <1>2
  <2>2. r \in Seq(E) /\ Len(r) = n - 1 /\ DOMAIN r = 1 .. n - 1
    <3>0. \A x, y \in Seq(E) : x \o y \in Seq(E) /\ Len(x \o y) = Len(x) + Len(y)
      BY ONLY SMT
    <3>1. r \in Seq(E) /\ Len(r) = Len(a) + Len(b)
      BY ONLY <1>2, <3>0
    <3>2. DOMAIN r = 1 .. Len(r)
      BY <3>1
    <3>. QED
      BY <2>1, <3>1, <3>2
  <2>3. \A j \in 1 .. Len(a) + Len(b) : r[j] = IF j <= Len(a) THEN a[j] ELSE b[j - Len(a)]
    BY <1>2
  <2>. HIDE DEF r
  <2>4. ASSUME NEW j \in 1 .. n - 1
        PROVE  (j < i <=> j <= Len(a)) /\ j \in 1 .. Len(a) + Len(b) /\ Len(a) = i - 1
    <3>1. Len(a) = i - 1 /\ i \in Int /\ j \in Int /\ 1 <= j /\ j <= n - 1
      BY <1>1, <1>2
    <3>. QED
      BY ONLY <2>1, <3>1
  <2>. QED
    BY <2>2, <2>3, <2>4
<1>. HIDE DEF r
<1>4. \A j \in 1 .. n - 1 : r[j] = s[IF j < i THEN j ELSE j + 1]
  <2>1. ASSUME NEW j \in 1 .. n - 1, j < i PROVE r[j] = s[j]
    BY <1>1, <1>2, <1>3, <2>1
  <2>2. ASSUME NEW j \in 1 .. n - 1, ~(j < i) PROVE r[j] = s[j + 1]
    <3>1. j - (i - 1) \in 1 .. n - i /\ i + (j - (i - 1)) = j + 1
      BY <1>1, <2>2
    <3>. QED
      BY <1>2, <1>3, <2>2, <3>1
  <2>. QED
    BY <2>1, <2>2
<1>5. ASSUME NEW k \in DOMAIN s, k # i PROVE \E j \in DOMAIN r : r[j] = s[k]
  <2>1. CASE k < i
    BY <1>1, <1>3, <1>4, <2>1
  <2>2. CASE k > i
    <3>1. k - 1 \in 1 .. n - 1 /\ ~(k - 1 < i) /\ (k - 1) + 1 = k
      BY <1>1, <2>2
    <3>2. r[k - 1] = s[k]
      BY <1>4, <3>1
    <3>. QED
      BY <1>3, <3>1, <3>2
  <2>. QED
    BY <1>1, <1>5, <2>1, <2>2
<1>6. RemoveAt(s, i) = r
  BY DEF RemoveAt, r, a, b
<1>7. ASSUME NEW j \in DOMAIN r
      PROVE  LET k == IF j < i THEN j ELSE j + 1
             IN j \in Int /\ k \in DOMAIN s /\ k # i /\ r[j] = s[k]
  <2>1. j \in 1 .. n - 1 /\ r[j] = s[IF j < i THEN j ELSE j + 1]
    BY <1>3, <1>4
  <2>. QED
    BY ONLY <1>1, <2>1
<1>. QED
  BY ONLY <1>3, <1>5, <1>6, <1>7
-----------------------------------------------------------------------------
(* What is needed of the plans.                                            *)

Borders == ActiveBorders(input)
DevSet == ToSet(DevTiles(input))
Kernels(p) == ToSet(plan[p].kernels)
Fetches(p) == ToSet(plan[p].moved)

\* The cells a process computes or receives, and those it may read.
Used(p, c) == \/ \E t \in Kernels(p) : c \in CellsOf(p, t)
              \/ \E b \in Borders : c \in CellsOf(p, In(b))
Readable(p, c) == c \in CellsOf(p, All) /\ (Inside(input, c) => Used(p, c))

TilesFit ==
  \A p \in Procs(input) :
    /\ plan[p].kernels \in Seq(DevSet \cup {InnerTile})
    /\ plan[p].moved \in Seq(DevSet)
    /\ Fetches(p) \subseteq Kernels(p)
    /\ \A t \in Kernels(p) : \A c \in CellsOf(p, t) :
         /\ c \in CellsOf(p, All) /\ Inside(input, c)
         /\ \A b \in Borders : c \notin CellsOf(p, In(b))
         /\ \A v \in input.stencil : Readable(p, Around(c, v))
    /\ \A b \in Borders : CellsOf(p, In(b)) \subseteq CellsOf(p, All)

BordersFit ==
  \A p \in Procs(input), b \in Borders :
    /\ plan[p].from[b] = NullRank => \A c \in CellsOf(p, In(b)) : ~Inside(input, c)
    /\ plan[p].from[b] # NullRank =>
         /\ plan[p].from[b] \in Procs(input)
         /\ plan[plan[p].from[b]].to[b] = p
         /\ CellsOf(p, In(b)) = CellsOf(plan[p].from[b], Out(b))
    /\ plan[p].to[b] # NullRank =>
         /\ plan[p].to[b] \in Procs(input)
         /\ plan[plan[p].to[b]].from[b] = p
         /\ \A o \in Borders \ {b} : plan[p].to[o] # plan[p].to[b]
         /\ \A c \in CellsOf(p, Out(b)) : \E t \in Fetches(p) : c \in CellsOf(p, t)

\* The borders a process receives or sends.
NeighboursAre ==
  \A p \in Procs(input) :
    /\ Neighbours(p, "from") = {b \in Borders : plan[p].from[b] # NullRank}
    /\ Neighbours(p, "to") = {b \in Borders : plan[p].to[b] # NullRank}

OutputFits ==
  \A c \in Cells(Whole(input)) :
    \E p \in Procs(input) :
      /\ {q \in Procs(input) : c \in plan[q].io} = {p}
      /\ c \in CellsOf(p, All)
      /\ Inside(input, c) => \E t \in Kernels(p) : c \in CellsOf(p, t)

PlanInv ==
  /\ input \in Inputs /\ Fits(input, plan)
  /\ TilesFit /\ BordersFit /\ NeighboursAre /\ OutputFits
  /\ IsFiniteSet(Borders) /\ input.iterations \in Nat /\ 0 < input.iterations

\* The plans a computation starts with.
LEMMA PlanFitsAtStart ==
  ASSUME \A in \in Inputs : PlanFits(in), Init
  PROVE  PlanInv
<1>1. input \in Inputs /\ plan = [p \in Procs(input) |-> PlanOf(input, p)]
  BY DEF Init
<1>2. Fits(input, plan)
  BY <1>1 DEF PlanFits
<1>3. IsFiniteSet(Borders) /\ input.iterations \in Nat /\ 0 < input.iterations
  <2>1. IsFiniteSet(Borders) /\ input \in Input
    BY <1>1, EpsilodAssumption DEF Borders
  <2>. QED
    BY <2>1 DEF Input
<1>4. NeighboursAre
  <2>1. ASSUME NEW p \in Procs(input)
        PROVE  DOMAIN plan[p].from = Borders /\ DOMAIN plan[p].to = Borders
    BY <1>1 DEF PlanOf, Borders
  <2>. QED
    BY <2>1 DEF Neighbours, NeighboursAre
<1>. DEFINE Block(p) == UNION {plan[p].cells[t] : t \in ToSet(plan[p].kernels)}
            Halo(p) == UNION {plan[p].cells[In(b)] : b \in ActiveBorders(input)}
            Fetched(p) == UNION {plan[p].cells[t] : t \in ToSet(plan[p].moved)}
<1>5. \A p \in Procs(input) :
        /\ plan[p].kernels \in Seq(ToSet(DevTiles(input)) \cup {InnerTile})
        /\ plan[p].moved \in Seq(ToSet(DevTiles(input)))
        /\ ToSet(plan[p].moved) \subseteq ToSet(plan[p].kernels)
        /\ Block(p) \cup Halo(p) \subseteq plan[p].cells[All]
        /\ Block(p) \cap Halo(p) = {}
        /\ \A c \in Block(p) :
             /\ Inside(input, c)
             /\ \A v \in input.stencil :
                  /\ Around(c, v) \in plan[p].cells[All]
                  /\ Inside(input, Around(c, v)) => Around(c, v) \in Block(p) \cup Halo(p)
  BY <1>2, Zenon DEF Fits
<1>6. \A p \in Procs(input), b \in ActiveBorders(input) :
        /\ IF plan[p].from[b] = NullRank
           THEN \A c \in plan[p].cells[In(b)] : ~Inside(input, c)
           ELSE /\ plan[p].from[b] \in Procs(input) /\ plan[plan[p].from[b]].to[b] = p
                /\ plan[p].cells[In(b)] = plan[plan[p].from[b]].cells[Out(b)]
        /\ plan[p].to[b] # NullRank =>
             /\ plan[p].to[b] \in Procs(input) /\ plan[plan[p].to[b]].from[b] = p
             /\ \A o \in ActiveBorders(input) \ {b} : plan[p].to[o] # plan[p].to[b]
             /\ plan[p].cells[Out(b)] \subseteq Fetched(p)
  BY <1>2, Zenon DEF Fits
<1>7. \A c \in Cells(Whole(input)) :
        \E p \in Procs(input) :
          /\ {q \in Procs(input) : c \in plan[q].io} = {p}
          /\ c \in plan[p].cells[All]
          /\ Inside(input, c) => c \in Block(p)
  BY <1>2, Zenon DEF Fits
<1>8. \A p, c : /\ c \in Block(p) <=> \E t \in Kernels(p) : c \in CellsOf(p, t)
                /\ c \in Halo(p) <=> \E b \in Borders : c \in CellsOf(p, In(b))
                /\ c \in Fetched(p) <=> \E t \in Fetches(p) : c \in CellsOf(p, t)
  BY DEF Kernels, Borders, Fetches, CellsOf
<1>. HIDE DEF Block, Halo, Fetched
<1>9. \A p, c : Used(p, c) <=> c \in Block(p) \cup Halo(p)
  BY <1>8 DEF Used
<1>10. TilesFit
  <2>. SUFFICES ASSUME NEW p \in Procs(input)
                PROVE  /\ plan[p].kernels \in Seq(DevSet \cup {InnerTile})
                       /\ plan[p].moved \in Seq(DevSet)
                       /\ Fetches(p) \subseteq Kernels(p)
                       /\ \A t \in Kernels(p) : \A c \in CellsOf(p, t) :
                            /\ c \in CellsOf(p, All) /\ Inside(input, c)
                            /\ \A b \in Borders : c \notin CellsOf(p, In(b))
                            /\ \A v \in input.stencil : Readable(p, Around(c, v))
                       /\ \A b \in Borders : CellsOf(p, In(b)) \subseteq CellsOf(p, All)
    BY DEF TilesFit
  <2>1. /\ plan[p].kernels \in Seq(DevSet \cup {InnerTile})
        /\ plan[p].moved \in Seq(DevSet)
        /\ Fetches(p) \subseteq Kernels(p)
    BY <1>5, Zenon DEF DevSet, Fetches, Kernels
  <2>2. Block(p) \subseteq CellsOf(p, All) /\ Halo(p) \subseteq CellsOf(p, All)
        /\ \A c \in Block(p) : c \notin Halo(p) /\ Inside(input, c)
    BY <1>5 DEF CellsOf
  <2>3. \A c \in Block(p), v \in input.stencil : Readable(p, Around(c, v))
    BY <1>5, <1>9 DEF Readable, CellsOf
  <2>. QED
    BY <1>8, <2>1, <2>2, <2>3
<1>11. BordersFit
  <2>. SUFFICES ASSUME NEW p \in Procs(input), NEW b \in Borders
                PROVE  /\ plan[p].from[b] = NullRank => \A c \in CellsOf(p, In(b)) : ~Inside(input, c)
                       /\ plan[p].from[b] # NullRank =>
                            /\ plan[p].from[b] \in Procs(input)
                            /\ plan[plan[p].from[b]].to[b] = p
                            /\ CellsOf(p, In(b)) = CellsOf(plan[p].from[b], Out(b))
                       /\ plan[p].to[b] # NullRank =>
                            /\ plan[p].to[b] \in Procs(input)
                            /\ plan[plan[p].to[b]].from[b] = p
                            /\ \A o \in Borders \ {b} : plan[p].to[o] # plan[p].to[b]
                            /\ \A c \in CellsOf(p, Out(b)) : \E t \in Fetches(p) : c \in CellsOf(p, t)
    BY DEF BordersFit
  <2>1. b \in ActiveBorders(input)
    BY DEF Borders
  <2>2. plan[p].from[b] = NullRank => \A c \in CellsOf(p, In(b)) : ~Inside(input, c)
    BY <1>6, <2>1 DEF CellsOf
  <2>3. plan[p].from[b] # NullRank =>
          /\ plan[p].from[b] \in Procs(input)
          /\ plan[plan[p].from[b]].to[b] = p
          /\ CellsOf(p, In(b)) = CellsOf(plan[p].from[b], Out(b))
    BY <1>6, <2>1 DEF CellsOf
  <2>4. plan[p].to[b] # NullRank =>
          /\ plan[p].to[b] \in Procs(input)
          /\ plan[plan[p].to[b]].from[b] = p
          /\ \A o \in Borders \ {b} : plan[p].to[o] # plan[p].to[b]
    BY <1>6, <2>1 DEF Borders
  <2>5. plan[p].to[b] # NullRank => CellsOf(p, Out(b)) \subseteq Fetched(p)
    BY <1>6, <2>1 DEF CellsOf
  <2>. QED
    BY <1>8, <2>2, <2>3, <2>4, <2>5
<1>12. OutputFits
  BY <1>7, <1>8 DEF OutputFits, CellsOf
<1>. QED
  BY <1>1, <1>2, <1>3, <1>4, <1>10, <1>11, <1>12 DEF PlanInv
-----------------------------------------------------------------------------
(* The invariant.                                                          *)

Places == {"compute", "send", "exchange", "halo", "last", "output", "done"}
JobSet ==
  [op : {"kernel", "from", "to"}, iter : Nat,
   tile : DevSet \cup {InnerTile, All} \cup {In(b) : b \in Borders}]
Pending(p, op, t) == \E i \in DOMAIN jobs[p] : jobs[p][i].op = op /\ jobs[p][i].tile = t

TypeInv ==
  /\ pc \in [Procs(input) -> Places] /\ iter \in [Procs(input) -> Nat]
  /\ jobs \in [Procs(input) -> Seq(JobSet)]
  /\ DOMAIN host = Procs(input) /\ DOMAIN device = Procs(input)
  /\ expects \in [Procs(input) -> SUBSET Borders]
  /\ DOMAIN net = Procs(input) \X Procs(input)

\* Matrices keep their shape.
Shaped(p) ==
  /\ DOMAIN host[p] = Arrays /\ DOMAIN device[p] = Arrays
  /\ \A a \in Arrays : DOMAIN host[p][a] = CellsOf(p, All)
                       /\ DOMAIN device[p][a] = CellsOf(p, All)

\* Where a process is in its iterations.
Placed(p) ==
  /\ pc[p] = "compute" => iter[p] < input.iterations
  /\ pc[p] \in {"send", "exchange", "halo"} => 0 < iter[p] /\ iter[p] < input.iterations
  /\ pc[p] \in {"last", "output", "done"} => 0 < iter[p] /\ iter[p] = input.iterations
  /\ expects[p] \subseteq Neighbours(p, "from")
  /\ expects[p] # {} => pc[p] = "exchange"

\* Jobs are of the iteration and the place of their process.
JobFits(p, j) ==
  /\ j.iter = iter[p]
  /\ j.op = "kernel" => /\ pc[p] \in {"send", "exchange", "halo", "last"}
                        /\ j.tile \in Kernels(p)
                        /\ pc[p] \in {"exchange", "halo"} => j.tile = InnerTile
  /\ j.op = "from" => \/ pc[p] = "send" /\ j.tile \in Fetches(p)
                      \/ pc[p] = "output" /\ j.tile = All
  /\ j.op = "to" => pc[p] = "halo" /\ \E b \in Borders : j.tile = In(b)
JobsInv(p) ==
  /\ \A i \in DOMAIN jobs[p] : JobFits(p, jobs[p][i])
  /\ \A i, j \in DOMAIN jobs[p] :
       i < j /\ jobs[p][j].op = "kernel" => jobs[p][i].op = "kernel"

\* No cell of the device holds Junk, and the border of the matrix stays 0.
Clean(p) ==
  \A a \in Arrays : \A c \in CellsOf(p, All) :
    /\ device[p][a][c] # Junk
    /\ ~Inside(input, c) => host[p][a][c] = 0 /\ device[p][a][c] = 0

\* A matrix has, where it is read, what it should have after iteration k.
Right(p, mat, k) == \A c \in CellsOf(p, All) : Used(p, c) => mat[c] = Expected(c, k)

\* What kernels read, and what has been computed.
Source(p) ==
  /\ pc[p] = "compute" => Right(p, device[p][Mat(iter[p])], iter[p])
  /\ pc[p] \in {"send", "exchange", "halo", "last"} =>
       Right(p, device[p][Mat(iter[p] - 1)], iter[p] - 1)
Computed(p) ==
  pc[p] # "compute" =>
    \A t \in Kernels(p) : ~Pending(p, "kernel", t) =>
      \A c \in CellsOf(p, t) : device[p][Mat(iter[p])][c] = iter[p]

\* What has been brought to the host, received there, and put in the device.
Fetched(p) ==
  pc[p] = "send" =>
    \A t \in Fetches(p) : ~Pending(p, "from", t) =>
      \A c \in CellsOf(p, t) : host[p][Mat(iter[p])][c] = iter[p]
Received(p) ==
  pc[p] \in {"exchange", "halo"} =>
    \A b \in Borders \ expects[p] : \A c \in CellsOf(p, In(b)) :
      host[p][Mat(iter[p])][c] = Expected(c, iter[p])
Moved(p) ==
  pc[p] = "halo" =>
    \A b \in Borders : ~Pending(p, "to", In(b)) =>
      \A c \in CellsOf(p, In(b)) : device[p][Mat(iter[p])][c] = Expected(c, iter[p])
Brought(p) ==
  pc[p] \in {"output", "done"} /\ ~Pending(p, "from", All) =>
    \A c \in CellsOf(p, All) : host[p][Mat(iter[p])][c] = device[p][Mat(iter[p])][c]

Local(p) ==
  /\ Shaped(p) /\ Placed(p) /\ JobsInv(p) /\ Clean(p) /\ Source(p) /\ Computed(p)
  /\ Fetched(p) /\ Received(p) /\ Moved(p) /\ Brought(p)

\* The exchanges a process has started, and the halos it has received.
Sent(p) == IF pc[p] \in {"compute", "exchange", "halo"} THEN iter[p] ELSE iter[p] - 1
Got(p, b) == IF b \in expects[p] THEN Sent(p) - 1 ELSE Sent(p)

\* The messages on the way to a halo: those of the next n iterations after k.
HaloOf(p, b, k) == [c \in CellsOf(p, In(b)) |-> Expected(c, k)]
Messages(p, b, k, n) == [i \in 1 .. n |-> HaloOf(p, b, k + i)]
LinkInv(p, b, q) ==
  LET n == Sent(q) - Got(p, b)
  IN n \in Nat /\ net[<<q, p>>] = Messages(p, b, Got(p, b), n)
NetInv ==
  \A p, q \in Procs(input) : \A b \in Neighbours(p, "from") :
    q = plan[p].from[b] => LinkInv(p, b, q)

LocalInv == \A p \in Procs(input) : Local(p)
EpsilodInv == PlanInv /\ TypeInv /\ LocalInv /\ NetInv
-----------------------------------------------------------------------------
(* A step of one process.                                                  *)

\* Process q is not touched.
Same(q) ==
  /\ pc'[q] = pc[q] /\ iter'[q] = iter[q] /\ jobs'[q] = jobs[q]
  /\ host'[q] = host[q] /\ device'[q] = device[q] /\ expects'[q] = expects[q]
SamePlan == input' = input /\ plan' = plan
SameSteps(q) == pc'[q] = pc[q] /\ iter'[q] = iter[q] /\ expects'[q] = expects[q]

\* Nothing is said of other processes.
LEMMA LocalStays ==
  ASSUME NEW q, Local(q), Same(q), SamePlan
  PROVE  Local(q)'
<1>1. \A op, t : Pending(q, op, t)' <=> Pending(q, op, t)
  BY DEF Pending, Same
<1>2. \A c, k : Expected(c, k)' = Expected(c, k)
  BY DEF Expected, SamePlan
<1>3. Borders' = Borders /\ Kernels(q)' = Kernels(q) /\ Fetches(q)' = Fetches(q)
      /\ Neighbours(q, "from")' = Neighbours(q, "from")
      /\ \A t : CellsOf(q, t)' = CellsOf(q, t)
  BY DEF Borders, Kernels, Fetches, Neighbours, CellsOf, SamePlan
<1>4. \A c : Used(q, c)' <=> Used(q, c)
  BY <1>3 DEF Used
<1>5. Shaped(q)'
  BY <1>3 DEF Shaped, Local, Same
<1>6. Placed(q)'
  BY <1>3 DEF Placed, Local, Same, SamePlan
<1>7. JobsInv(q)'
  BY <1>3 DEF JobsInv, JobFits, Local, Same
<1>8. Clean(q)'
  BY <1>3 DEF Clean, Local, Same, SamePlan
<1>9. Source(q)'
  BY <1>2, <1>3, <1>4 DEF Source, Right, Local, Same
<1>10. Computed(q)'
  BY <1>1, <1>3 DEF Computed, Local, Same
<1>11. Fetched(q)'
  BY <1>1, <1>3 DEF Fetched, Local, Same
<1>12. Received(q)'
  BY <1>2, <1>3 DEF Received, Local, Same
<1>13. Moved(q)'
  BY <1>1, <1>2, <1>3 DEF Moved, Local, Same
<1>14. Brought(q)'
  BY <1>1, <1>3 DEF Brought, Local, Same
<1>. QED
  BY <1>5, <1>6, <1>7, <1>8, <1>9, <1>10, <1>11, <1>12, <1>13, <1>14 DEF Local

\* The plans stay as they are.
LEMMA PlanStays == PlanInv /\ SamePlan => PlanInv'
<1>. SUFFICES ASSUME PlanInv, SamePlan PROVE PlanInv'
  OBVIOUS
<1>1. /\ Borders' = Borders /\ DevSet' = DevSet /\ Procs(input)' = Procs(input)
      /\ \A p : Kernels(p)' = Kernels(p) /\ Fetches(p)' = Fetches(p)
      /\ \A p, t : CellsOf(p, t)' = CellsOf(p, t)
      /\ \A p : Neighbours(p, "from")' = Neighbours(p, "from")
                /\ Neighbours(p, "to")' = Neighbours(p, "to")
  BY DEF SamePlan, Borders, DevSet, Kernels, Fetches, CellsOf, Neighbours
<1>2. \A p, c : Readable(p, c)' <=> Readable(p, c)
  BY <1>1 DEF Readable, Used, SamePlan
<1>3. TilesFit'
  BY <1>1, <1>2 DEF PlanInv, TilesFit, SamePlan
<1>4. BordersFit'
  BY <1>1 DEF PlanInv, BordersFit, SamePlan
<1>5. NeighboursAre'
  BY <1>1 DEF PlanInv, NeighboursAre, SamePlan
<1>6. OutputFits'
  BY <1>1 DEF PlanInv, OutputFits, SamePlan
<1>. QED
  BY <1>1, <1>3, <1>4, <1>5, <1>6 DEF PlanInv, SamePlan

\* Messages stay what they are when nobody sends or receives.
LEMMA NetStays ==
  ASSUME PlanInv, NetInv, SamePlan, net' = net, \A q \in Procs(input) : Sent(q)' = Sent(q),
         \A q \in Procs(input) : expects'[q] = expects[q]
  PROVE  NetInv'
<1>1. Procs(input)' = Procs(input) /\ \A p : Neighbours(p, "from")' = Neighbours(p, "from")
  BY DEF SamePlan, Neighbours
<1>2. ASSUME NEW p \in Procs(input), NEW q \in Procs(input), NEW b \in Neighbours(p, "from"),
             LinkInv(p, b, q)
      PROVE  LinkInv(p, b, q)'
  <2>1. Got(p, b)' = Got(p, b) /\ Sent(q)' = Sent(q)
    BY <1>2 DEF Got
  <2>2. CellsOf(p, In(b))' = CellsOf(p, In(b)) /\ \A c, k : Expected(c, k)' = Expected(c, k)
    BY DEF CellsOf, Expected, SamePlan
  <2>. QED
    BY <1>2, <2>1, <2>2 DEF LinkInv, Messages, HaloOf
<1>. QED
  BY <1>1, <1>2 DEF NetInv, SamePlan
-----------------------------------------------------------------------------
(* Launches.                                                               *)

\* Two sequences, one after the other.
LEMMA Joined ==
  ASSUME NEW E, NEW s \in Seq(E), NEW t \in Seq(E)
  PROVE  /\ s \o t \in Seq(E) /\ DOMAIN (s \o t) \subseteq Int
         /\ \A i \in DOMAIN (s \o t) :
              \/ i \in DOMAIN s /\ (s \o t)[i] = s[i]
              \/ \E j \in DOMAIN t : i = Len(s) + j /\ (s \o t)[i] = t[j]
         /\ \A i \in DOMAIN s : i \in DOMAIN (s \o t) /\ (s \o t)[i] = s[i] /\ i <= Len(s)
         /\ \A j \in DOMAIN t : Len(s) + j \in DOMAIN (s \o t) /\ (s \o t)[Len(s) + j] = t[j]
                                /\ 0 < j
<1>. DEFINE r == s \o t
<1>1. /\ Len(s) \in Nat /\ Len(t) \in Nat /\ DOMAIN s = 1 .. Len(s) /\ DOMAIN t = 1 .. Len(t)
  OBVIOUS
<1>2. /\ r \in Seq(E) /\ Len(r) = Len(s) + Len(t) /\ DOMAIN r = 1 .. Len(s) + Len(t)
      /\ \A i \in 1 .. Len(s) + Len(t) : r[i] = IF i <= Len(s) THEN s[i] ELSE t[i - Len(s)]
  OBVIOUS
<1>. HIDE DEF r
<1>3. ASSUME NEW i \in DOMAIN r
      PROVE  \/ i \in DOMAIN s /\ r[i] = s[i]
             \/ \E j \in DOMAIN t : i = Len(s) + j /\ r[i] = t[j]
  <2>1. CASE i <= Len(s)
    BY <1>1, <1>2, <1>3, <2>1
  <2>2. CASE ~(i <= Len(s))
    <3>1. i - Len(s) \in DOMAIN t /\ i = Len(s) + (i - Len(s)) /\ r[i] = t[i - Len(s)]
      BY <1>1, <1>2, <1>3, <2>2
    <3>. QED
      BY <3>1
  <2>. QED
    BY <2>1, <2>2
<1>4. \A i \in DOMAIN s : i \in DOMAIN r /\ r[i] = s[i] /\ i <= Len(s)
  BY <1>1, <1>2
<1>5. ASSUME NEW j \in DOMAIN t
      PROVE  Len(s) + j \in DOMAIN r /\ r[Len(s) + j] = t[j] /\ 0 < j
  <2>1. j \in Nat /\ 0 < j /\ ~(Len(s) + j <= Len(s)) /\ (Len(s) + j) - Len(s) = j
        /\ Len(s) + j \in 1 .. Len(s) + Len(t)
    BY <1>1, <1>5
  <2>. QED
    BY <1>2, <2>1
<1>6. DOMAIN r \subseteq Int
  BY <1>1, <1>2
<1>. QED
  BY <1>2, <1>3, <1>4, <1>5, <1>6 DEF r

\* The tiles jobs are for.
JobTiles == DevSet \cup {InnerTile, All} \cup {In(b) : b \in Borders}

\* A job for each tile of a sequence.
LEMMA JobsOf ==
  ASSUME NEW s \in Seq(JobTiles), NEW op \in {"kernel", "from", "to"}, NEW k \in Nat
  PROVE  LET new == [i \in DOMAIN s |-> Job(op, s[i], k)]
         IN new \in Seq(JobSet) /\ DOMAIN new = DOMAIN s
            /\ \A i \in DOMAIN s : new[i] = Job(op, s[i], k)
<1>1. \A t \in JobTiles : Job(op, t, k) \in JobSet
  BY DEF Job, JobSet, JobTiles
<1>2. Len(s) \in Nat /\ DOMAIN s = 1 .. Len(s) /\ \A i \in DOMAIN s : s[i] \in JobTiles
  OBVIOUS
<1>. DEFINE new == [i \in DOMAIN s |-> Job(op, s[i], k)]
<1>3. DOMAIN new = DOMAIN s /\ \A i \in DOMAIN s : new[i] = Job(op, s[i], k)
  OBVIOUS
<1>4. new \in [1 .. Len(s) -> JobSet]
  BY <1>1, <1>2
<1>. HIDE DEF new
<1>5. new \in Seq(JobSet)
  BY <1>2, <1>4
<1>. QED
  BY <1>3, <1>5 DEF new

\* What a job is.
LEMMA JobIs ==
  ASSUME NEW op, NEW t, NEW k
  PROVE  Job(op, t, k).op = op /\ Job(op, t, k).tile = t /\ Job(op, t, k).iter = k
  BY DEF Job

\* A process about to compute, or done, has no jobs; one whose kernels are
\* waited for has those of the inner part at most.
LEMMA NoJobsLeft ==
  ASSUME TypeInv, NEW p \in Procs(input), JobsInv(p), pc[p] \in {"compute", "done"}
  PROVE  jobs[p] = <<>>
<1>1. jobs[p] \in Seq(JobSet)
  BY DEF TypeInv
<1>2. ASSUME NEW i \in DOMAIN jobs[p] PROVE FALSE
  <2>1. jobs[p][i] \in JobSet /\ JobFits(p, jobs[p][i])
    BY <1>1, <1>2 DEF JobsInv
  <2>. QED
    BY <2>1 DEF JobSet, JobFits
<1>. DEFINE s == jobs[p]
            E == JobSet
<1>3. s \in Seq(E) /\ DOMAIN s = {}
  BY <1>1, <1>2
<1>. HIDE DEF s, E
<1>4. Len(s) \in Nat /\ DOMAIN s = 1 .. Len(s)
  BY <1>3
<1>5. Len(s) = 0
  BY <1>3, <1>4
<1>6. s = <<>>
  BY <1>3, <1>5
<1>. QED
  BY <1>6 DEF s

\* The arrays of successive iterations.
LEMMA ArraysSwap ==
  ASSUME NEW k \in Nat
  PROVE  /\ Mat(k) \in Arrays /\ Mat(k) # Mat(k + 1) /\ (k + 1) - 1 = k
         /\ 0 < k => k - 1 \in Nat /\ Mat(k - 1) \in Arrays /\ Mat(k - 1) # Mat(k)
  BY DEF Mat, Arrays
-----------------------------------------------------------------------------
(* Steps of the main thread.                                               *)

\* What a step of process p leaves as it was, and what it keeps.
Frame(p) == SamePlan /\ \A q \in Procs(input) \ {p} : Same(q)
Kept(p) == Frame(p) /\ TypeInv' /\ Local(p)' /\ NetInv'

\* Process p goes on to a place, an iteration, jobs and halos to wait for.
GoesOn(p, place, k, new, rest) ==
  /\ place \in Places /\ k \in Nat /\ new \in Seq(JobSet) /\ rest \in SUBSET Borders
  /\ pc' = [pc EXCEPT ![p] = place] /\ iter' = [iter EXCEPT ![p] = k]
  /\ jobs' = [jobs EXCEPT ![p] = new] /\ expects' = [expects EXCEPT ![p] = rest]
  /\ DOMAIN host' = DOMAIN host /\ DOMAIN device' = DOMAIN device /\ DOMAIN net' = DOMAIN net

\* The types, when only what p has changes.
LEMMA TypesKept ==
  ASSUME TypeInv, SamePlan, NEW p \in Procs(input), NEW place, NEW k, NEW new, NEW rest,
         GoesOn(p, place, k, new, rest)
  PROVE  /\ TypeInv'
         /\ pc'[p] = place /\ iter'[p] = k /\ jobs'[p] = new /\ expects'[p] = rest
         /\ \A q \in Procs(input) \ {p} :
              pc'[q] = pc[q] /\ iter'[q] = iter[q] /\ jobs'[q] = jobs[q] /\ expects'[q] = expects[q]
<1>. USE DEF GoesOn
<1>1. JobSet' = JobSet /\ Procs(input)' = Procs(input)
  BY DEF JobSet, DevSet, Borders, SamePlan
<1>2. pc' \in [Procs(input) -> Places] /\ iter' \in [Procs(input) -> Nat]
  BY DEF TypeInv
<1>3. jobs' \in [Procs(input) -> Seq(JobSet)]
  <2>. DEFINE S == Seq(JobSet)
  <2>1. jobs \in [Procs(input) -> S] /\ new \in S
    BY DEF TypeInv
  <2>. HIDE DEF S
  <2>2. jobs' \in [Procs(input) -> S]
    BY <2>1
  <2>. QED
    BY <2>2 DEF S
<1>4. expects' \in [Procs(input) -> SUBSET Borders] /\ Borders' = Borders
  BY DEF TypeInv, Borders, SamePlan
<1>5. TypeInv'
  BY <1>1, <1>2, <1>3, <1>4 DEF TypeInv
<1>6. /\ p \in DOMAIN pc /\ p \in DOMAIN iter /\ p \in DOMAIN jobs /\ p \in DOMAIN expects
      /\ DOMAIN pc = Procs(input) /\ DOMAIN iter = Procs(input) /\ DOMAIN jobs = Procs(input)
      /\ DOMAIN expects = Procs(input)
  BY DEF TypeInv
<1>. QED
  BY <1>5, <1>6 DEF TypeInv

\* What is the same in the next state when the plan is.
LEMMA PlanTerms ==
  ASSUME SamePlan
  PROVE  /\ Borders' = Borders /\ DevSet' = DevSet /\ Procs(input)' = Procs(input)
         /\ \A p : Kernels(p)' = Kernels(p) /\ Fetches(p)' = Fetches(p)
         /\ \A p, t : CellsOf(p, t)' = CellsOf(p, t)
         /\ \A p : Neighbours(p, "from")' = Neighbours(p, "from")
                   /\ Neighbours(p, "to")' = Neighbours(p, "to")
         /\ \A p, c : Used(p, c)' <=> Used(p, c)
         /\ \A c, k : Expected(c, k)' = Expected(c, k)
         /\ input'.iterations = input.iterations
<1>1. /\ Borders' = Borders /\ DevSet' = DevSet /\ Procs(input)' = Procs(input)
      /\ \A p : Kernels(p)' = Kernels(p) /\ Fetches(p)' = Fetches(p)
      /\ \A p, t : CellsOf(p, t)' = CellsOf(p, t)
      /\ \A p : Neighbours(p, "from")' = Neighbours(p, "from")
                /\ Neighbours(p, "to")' = Neighbours(p, "to")
  BY DEF SamePlan, Borders, DevSet, Kernels, Fetches, CellsOf, Neighbours
<1>2. \A p, c : Used(p, c)' <=> Used(p, c)
  BY <1>1 DEF Used
<1>3. \A c, k : Expected(c, k)' = Expected(c, k)
  BY DEF Expected, SamePlan
<1>. QED
  BY <1>1, <1>2, <1>3 DEF SamePlan

\* A cell that is computed has the number of the iteration.
LEMMA ComputedIs ==
  ASSUME PlanInv, NEW p \in Procs(input), NEW t \in Kernels(p), NEW c \in CellsOf(p, t)
  PROVE  /\ c \in CellsOf(p, All) /\ Inside(input, c) /\ Used(p, c)
         /\ \A k : Expected(c, k) = k
         /\ \A b \in Borders : c \notin CellsOf(p, In(b))
         /\ \A v \in input.stencil : Readable(p, Around(c, v))
  BY DEF PlanInv, TilesFit, Used, Expected

\* The jobs of an iteration.
LEMMA IterationJobs ==
  ASSUME PlanInv, TypeInv, NEW p \in Procs(input), NEW k \in Nat, NEW last \in BOOLEAN
  PROVE  LET moved == IF last THEN <<>> ELSE plan[p].moved
             new == [i \in DOMAIN plan[p].kernels |-> Job("kernel", plan[p].kernels[i], k)]
                      \o [i \in DOMAIN moved |-> Job("from", moved[i], k)]
         IN /\ new \in Seq(JobSet) /\ DOMAIN new \subseteq Int
            /\ \A i \in DOMAIN new :
                 \/ \E t \in Kernels(p) : new[i] = Job("kernel", t, k)
                 \/ ~last /\ \E t \in Fetches(p) : new[i] = Job("from", t, k)
            /\ \A t \in Kernels(p) : \E i \in DOMAIN new : new[i] = Job("kernel", t, k)
            /\ ~last => \A t \in Fetches(p) : \E i \in DOMAIN new : new[i] = Job("from", t, k)
            /\ \A i, j \in DOMAIN new : i < j /\ new[j].op = "kernel" => new[i].op = "kernel"
<1>. DEFINE tiles == plan[p].kernels
            moved == IF last THEN <<>> ELSE plan[p].moved
            a == [i \in DOMAIN tiles |-> Job("kernel", tiles[i], k)]
            b == [i \in DOMAIN moved |-> Job("from", moved[i], k)]
            new == a \o b
<1>1. /\ tiles \in Seq(DevSet \cup {InnerTile}) /\ moved \in Seq(DevSet)
      /\ Kernels(p) = ToSet(tiles)
      /\ ~last => Fetches(p) = ToSet(moved)
  BY DEF PlanInv, TilesFit, Kernels, Fetches
<1>2. last => DOMAIN moved = {}
  OBVIOUS
<1>. HIDE DEF tiles, moved
<1>20. tiles \in Seq(JobTiles) /\ moved \in Seq(JobTiles)
  <2>1. \A A, B : A \subseteq B => \A s : s \in Seq(A) => s \in Seq(B)
    OBVIOUS
  <2>2. DevSet \cup {InnerTile} \subseteq JobTiles /\ DevSet \subseteq JobTiles
    BY DEF JobTiles
  <2>. QED
    BY <1>1, <2>1, <2>2
<1>3. a \in Seq(JobSet) /\ DOMAIN a = DOMAIN tiles
      /\ \A i \in DOMAIN tiles : a[i] = Job("kernel", tiles[i], k)
  <2>. SUFFICES LET new1 == [i \in DOMAIN tiles |-> Job("kernel", tiles[i], k)]
                IN new1 \in Seq(JobSet) /\ DOMAIN new1 = DOMAIN tiles
                   /\ \A i \in DOMAIN tiles : new1[i] = Job("kernel", tiles[i], k)
    BY DEF a
  <2>. QED
    BY ONLY <1>20, k \in Nat, JobsOf
<1>4. b \in Seq(JobSet) /\ DOMAIN b = DOMAIN moved
      /\ \A i \in DOMAIN moved : b[i] = Job("from", moved[i], k)
  <2>. SUFFICES LET new1 == [i \in DOMAIN moved |-> Job("from", moved[i], k)]
                IN new1 \in Seq(JobSet) /\ DOMAIN new1 = DOMAIN moved
                   /\ \A i \in DOMAIN moved : new1[i] = Job("from", moved[i], k)
    BY DEF b
  <2>. QED
    BY ONLY <1>20, k \in Nat, JobsOf
<1>21. /\ \A t : t \in Kernels(p) <=> \E i \in DOMAIN tiles : t = tiles[i]
       /\ ~last => \A t : t \in Fetches(p) <=> \E i \in DOMAIN moved : t = moved[i]
  <2>1. \A s : \A t : t \in ToSet(s) <=> \E i \in DOMAIN s : t = s[i]
    BY DEF ToSet
  <2>. QED
    BY <1>1, <2>1, Zenon
<1>. HIDE DEF a, b
<1>5. /\ \A i \in DOMAIN a : \E t \in Kernels(p) : a[i] = Job("kernel", t, k)
      /\ \A t \in Kernels(p) : \E i \in DOMAIN a : a[i] = Job("kernel", t, k)
  BY <1>3, <1>21
<1>6. /\ \A i \in DOMAIN b : ~last /\ \E t \in Fetches(p) : b[i] = Job("from", t, k)
      /\ ~last => \A t \in Fetches(p) : \E i \in DOMAIN b : b[i] = Job("from", t, k)
  BY <1>2, <1>4, <1>21
<1>7. /\ new \in Seq(JobSet) /\ DOMAIN new \subseteq Int
      /\ \A i \in DOMAIN new : \/ i \in DOMAIN a /\ new[i] = a[i]
                               \/ \E j \in DOMAIN b : i = Len(a) + j /\ new[i] = b[j]
      /\ \A i \in DOMAIN a : i \in DOMAIN new /\ new[i] = a[i] /\ i <= Len(a)
      /\ \A j \in DOMAIN b : Len(a) + j \in DOMAIN new /\ new[Len(a) + j] = b[j] /\ 0 < j
  BY <1>3, <1>4, Joined
<1>8. Len(a) \in Nat /\ DOMAIN a \subseteq Int /\ DOMAIN b \subseteq Int
  BY <1>3, <1>4
<1>. HIDE DEF new
<1>9. ASSUME NEW i \in DOMAIN new
      PROVE  \/ \E t \in Kernels(p) : new[i] = Job("kernel", t, k)
             \/ ~last /\ \E t \in Fetches(p) : new[i] = Job("from", t, k)
  BY <1>5, <1>6, <1>7, <1>9
<1>10. \A t \in Kernels(p) : \E i \in DOMAIN new : new[i] = Job("kernel", t, k)
  BY <1>5, <1>7
<1>11. ~last => \A t \in Fetches(p) : \E i \in DOMAIN new : new[i] = Job("from", t, k)
  BY <1>6, <1>7
<1>12. ASSUME NEW i \in DOMAIN new, NEW j \in DOMAIN new, i < j, new[j].op = "kernel"
       PROVE  new[i].op = "kernel"
  <2>1. \A n \in DOMAIN a : a[n].op = "kernel"
    BY <1>5, JobIs
  <2>2. \A n \in DOMAIN b : b[n].op = "from"
    BY <1>6, JobIs
  <2>3. j \in DOMAIN a
    BY <1>7, <1>12, <2>2
  <2>4. i \in DOMAIN a /\ new[i] = a[i]
    BY <1>7, <1>8, <1>12, <2>3
  <2>. QED
    BY <2>1, <2>4
<1>13. new \in Seq(JobSet) /\ DOMAIN new \subseteq Int
  BY <1>7
<1>. QED
  BY ONLY <1>9, <1>10, <1>11, <1>12, <1>13, Zenon DEF new, a, b, tiles, moved

\* Kernels are launched.
LEMMA ComputeKeeps ==
  ASSUME EpsilodInv, NEW p \in Procs(input), Compute(p)
  PROVE  Kept(p)
<1>. DEFINE k == iter[p] + 1
            last == IsLast(k)
            moved == IF last THEN <<>> ELSE plan[p].moved
            new == [i \in DOMAIN plan[p].kernels |-> Job("kernel", plan[p].kernels[i], k)]
                     \o [i \in DOMAIN moved |-> Job("from", moved[i], k)]
<1>1. /\ pc[p] = "compute"
      /\ iter' = [iter EXCEPT ![p] = k]
      /\ jobs' = [jobs EXCEPT ![p] = jobs[p] \o new]
      /\ pc' = [pc EXCEPT ![p] = IF last THEN "last" ELSE "send"]
      /\ UNCHANGED <<input, plan, host, device, net, expects>>
  BY DEF Compute, Launch, Goto
<1>2. /\ PlanInv /\ TypeInv /\ Local(p) /\ NetInv /\ SamePlan
      /\ iter[p] \in Nat /\ k \in Nat /\ last \in BOOLEAN
      /\ input.iterations \in Nat /\ expects[p] \in SUBSET Borders
  <2>1. PlanInv /\ TypeInv /\ Local(p) /\ NetInv /\ SamePlan
    BY <1>1 DEF EpsilodInv, LocalInv, SamePlan
  <2>2. iter[p] \in Nat /\ input.iterations \in Nat /\ expects[p] \in SUBSET Borders
    BY <2>1 DEF TypeInv, PlanInv
  <2>3. last \in BOOLEAN
    BY DEF IsLast
  <2>. QED
    BY <2>1, <2>2, <2>3
<1>3. /\ new \in Seq(JobSet) /\ DOMAIN new \subseteq Int
      /\ \A i \in DOMAIN new :
           \/ \E t \in Kernels(p) : new[i] = Job("kernel", t, k)
           \/ ~last /\ \E t \in Fetches(p) : new[i] = Job("from", t, k)
      /\ \A t \in Kernels(p) : \E i \in DOMAIN new : new[i] = Job("kernel", t, k)
      /\ ~last => \A t \in Fetches(p) : \E i \in DOMAIN new : new[i] = Job("from", t, k)
      /\ \A i, j \in DOMAIN new : i < j /\ new[j].op = "kernel" => new[i].op = "kernel"
  BY ONLY <1>2, p \in Procs(input), IterationJobs, Zenon DEF new, moved
<1>30. PICK n : n = new
  OBVIOUS
<1>4. jobs' = [jobs EXCEPT ![p] = n] /\ expects' = [expects EXCEPT ![p] = expects[p]]
  <2>1. jobs[p] = <<>>
    BY <1>1, <1>2, NoJobsLeft DEF Local
  <2>2. <<>> \o new = new
    <3>. HIDE DEF new
    <3>. QED
      BY <1>3
  <2>3. expects' = [expects EXCEPT ![p] = expects[p]]
    BY <1>1, <1>2 DEF TypeInv
  <2>. QED
    BY <1>1, <1>30, <2>1, <2>2, <2>3
<1>31. /\ n \in Seq(JobSet) /\ DOMAIN n \subseteq Int
       /\ \A i \in DOMAIN n :
            \/ \E t \in Kernels(p) : n[i] = Job("kernel", t, k)
            \/ ~last /\ \E t \in Fetches(p) : n[i] = Job("from", t, k)
       /\ \A t \in Kernels(p) : \E i \in DOMAIN n : n[i] = Job("kernel", t, k)
       /\ ~last => \A t \in Fetches(p) : \E i \in DOMAIN n : n[i] = Job("from", t, k)
       /\ \A i, j \in DOMAIN n : i < j /\ n[j].op = "kernel" => n[i].op = "kernel"
  <2>. HIDE DEF new, last, k
  <2>. QED
    BY ONLY <1>3, <1>30
<1>5. last <=> k = input.iterations
  BY DEF IsLast
<1>6. \A op, t, m : Job(op, t, m).op = op /\ Job(op, t, m).tile = t /\ Job(op, t, m).iter = m
  BY JobIs
<1>. DEFINE place == IF last THEN "last" ELSE "send"
<1>7. place \in Places
  BY DEF Places
<1>. HIDE DEF k, last, new
<1>8. /\ TypeInv'
      /\ pc'[p] = place /\ iter'[p] = k /\ jobs'[p] = n /\ expects'[p] = expects[p]
      /\ \A q \in Procs(input) \ {p} :
           pc'[q] = pc[q] /\ iter'[q] = iter[q] /\ jobs'[q] = jobs[q] /\ expects'[q] = expects[q]
  <2>. HIDE DEF place
  <2>1. pc' = [pc EXCEPT ![p] = place]
    BY <1>1 DEF place
  <2>2. DOMAIN host' = DOMAIN host /\ DOMAIN device' = DOMAIN device /\ DOMAIN net' = DOMAIN net
    BY <1>1
  <2>3. GoesOn(p, place, k, n, expects[p])
    BY <1>1, <1>2, <1>31, <1>4, <1>7, <2>1, <2>2 DEF GoesOn
  <2>. QED
    BY ONLY <1>2, <2>3, p \in Procs(input), TypesKept
<1>9. Frame(p)
  BY <1>1, <1>2, <1>8 DEF Frame, Same
<1>10. /\ Borders' = Borders /\ DevSet' = DevSet /\ Procs(input)' = Procs(input)
       /\ Kernels(p)' = Kernels(p) /\ Fetches(p)' = Fetches(p)
       /\ \A t : CellsOf(p, t)' = CellsOf(p, t)
       /\ Neighbours(p, "from")' = Neighbours(p, "from")
       /\ \A c : Used(p, c)' <=> Used(p, c)
       /\ \A c, m : Expected(c, m)' = Expected(c, m)
       /\ input' = input
  BY <1>2, PlanTerms DEF SamePlan
<1>11. /\ \A t \in Kernels(p) : Pending(p, "kernel", t)'
       /\ ~last => \A t \in Fetches(p) : Pending(p, "from", t)'
  BY <1>31, <1>6, <1>8, <1>10 DEF Pending
<1>12. k = iter[p] + 1 /\ k - 1 = iter[p] /\ 0 < k
  BY <1>2 DEF k
<1>13. Shaped(p)'
  BY <1>1, <1>2, <1>10 DEF Local, Shaped
<1>14. Placed(p)'
  <2>1. k <= input.iterations
    BY <1>1, <1>2, <1>12 DEF Local, Placed
  <2>2. expects[p] = {}
    BY <1>1, <1>2 DEF Local, Placed
  <2>. QED
    BY <1>2, <1>5, <1>8, <1>10, <1>12, <2>1, <2>2 DEF Placed
<1>15. JobsInv(p)'
  <2>1. \A i \in DOMAIN n : JobFits(p, n[i])'
    <3>. TAKE i \in DOMAIN n
    <3>1. CASE \E t \in Kernels(p) : n[i] = Job("kernel", t, k)
      BY <1>6, <1>8, <1>10, <3>1 DEF JobFits
    <3>2. CASE ~last /\ \E t \in Fetches(p) : n[i] = Job("from", t, k)
      BY <1>6, <1>8, <1>10, <3>2 DEF JobFits
    <3>. QED
      BY <1>31, <3>1, <3>2
  <2>2. jobs'[p] = n
    BY <1>8
  <2>. QED
    BY ONLY <1>31, <2>1, <2>2 DEF JobsInv
<1>16. Clean(p)'
  BY <1>1, <1>2, <1>10 DEF Local, Clean
<1>17. Source(p)'
  BY <1>1, <1>2, <1>8, <1>10, <1>12 DEF Local, Source, Right
<1>18. Computed(p)' /\ Fetched(p)' /\ Received(p)' /\ Moved(p)' /\ Brought(p)'
  BY <1>8, <1>10, <1>11 DEF Computed, Fetched, Received, Moved, Brought
<1>19. NetInv'
  <2>1. ASSUME NEW q \in Procs(input) PROVE Sent(q)' = Sent(q) /\ expects'[q] = expects[q]
    BY <1>1, <1>8, <1>12, <2>1 DEF Sent
  <2>. QED
    BY <1>1, <1>2, <2>1, NetStays
<1>. QED
  BY <1>8, <1>9, <1>13, <1>14, <1>15, <1>16, <1>17, <1>18, <1>19 DEF Kept, Local

\* A step of p that leaves the matrices alone.
LEMMA QuietStep ==
  ASSUME EpsilodInv, NEW p \in Procs(input), NEW place, NEW k, NEW n, NEW rest,
         GoesOn(p, place, k, n, rest), UNCHANGED <<input, plan, host, device>>
  PROVE  /\ Frame(p) /\ TypeInv' /\ Shaped(p)' /\ Clean(p)' /\ SamePlan
         /\ pc'[p] = place /\ iter'[p] = k /\ jobs'[p] = n /\ expects'[p] = rest
         /\ PlanInv /\ TypeInv /\ Local(p) /\ NetInv
<1>1. SamePlan /\ PlanInv /\ TypeInv /\ Local(p) /\ NetInv
  BY DEF SamePlan, EpsilodInv, LocalInv
<1>2. /\ TypeInv'
      /\ pc'[p] = place /\ iter'[p] = k /\ jobs'[p] = n /\ expects'[p] = rest
      /\ \A q \in Procs(input) \ {p} :
           pc'[q] = pc[q] /\ iter'[q] = iter[q] /\ jobs'[q] = jobs[q] /\ expects'[q] = expects[q]
  BY ONLY <1>1, GoesOn(p, place, k, n, rest), p \in Procs(input), TypesKept
<1>3. Frame(p)
  BY <1>1, <1>2 DEF Frame, Same
<1>4. Shaped(p)' /\ Clean(p)'
  <2>1. \A t : CellsOf(p, t)' = CellsOf(p, t)
    BY <1>1, PlanTerms
  <2>. QED
    BY <1>1, <2>1 DEF Local, Shaped, Clean
<1>. QED
  BY <1>1, <1>2, <1>3, <1>4

\* What the halos that are put in the device are.
HaloJobs(k) == {Job("to", In(b), k) : b \in Borders}
LEMMA HaloJobsAre ==
  ASSUME PlanInv, NEW k \in Nat
  PROVE  /\ SetToSeq(HaloJobs(k)) \in Seq(JobSet)
         /\ \A i \in DOMAIN SetToSeq(HaloJobs(k)) :
              \E b \in Borders : SetToSeq(HaloJobs(k))[i] = Job("to", In(b), k)
         /\ \A b \in Borders : \E i \in DOMAIN SetToSeq(HaloJobs(k)) :
              SetToSeq(HaloJobs(k))[i] = Job("to", In(b), k)
<1>. DEFINE S == HaloJobs(k)
            s == SetToSeq(S)
<1>1. IsFiniteSet(S)
  <2>. DEFINE f == [b \in Borders |-> Job("to", In(b), k)]
  <2>1. f \in Surjection(Borders, S)
    BY DEF Surjection, HaloJobs
  <2>2. IsFiniteSet(Borders)
    BY DEF PlanInv
  <2>. HIDE DEF f
  <2>. QED
    BY ONLY <2>1, <2>2, FS_Surjection
<1>2. S \subseteq JobSet
  BY DEF HaloJobs, JobSet, Job
<1>. HIDE DEF S
<1>3. s \in Seq(S) /\ \A x \in S : \E i \in DOMAIN s : s[i] = x
  BY <1>1, SeqOfSet
<1>. HIDE DEF s
<1>4. s \in Seq(JobSet) /\ \A i \in DOMAIN s : s[i] \in S
  <2>. DEFINE J == JobSet
  <2>1. S \subseteq J
    BY <1>2
  <2>. HIDE DEF J
  <2>2. s \in Seq(J) /\ \A i \in DOMAIN s : s[i] \in S
    BY <1>3, <2>1
  <2>. QED
    BY <2>2 DEF J
<1>5. \A x : x \in S <=> \E b \in Borders : x = Job("to", In(b), k)
  BY DEF S, HaloJobs
<1>6. s = SetToSeq(HaloJobs(k))
  BY DEF s, S
<1>. QED
  BY ONLY <1>3, <1>4, <1>5, <1>6

\* All messages have been received.
LEMMA EndExchangeKeeps ==
  ASSUME EpsilodInv, NEW p \in Procs(input), EndExchange(p)
  PROVE  Kept(p)
<1>1. PICK k, m : k = iter[p] /\ m = SetToSeq(HaloJobs(iter[p]))
  OBVIOUS
<1>2. PICK n : n = jobs[p] \o m
  OBVIOUS
<1>3. /\ pc[p] = "exchange" /\ expects[p] = {}
      /\ jobs' = [jobs EXCEPT ![p] = n] /\ pc' = [pc EXCEPT ![p] = "halo"]
      /\ UNCHANGED <<input, plan, iter, host, device, net, expects>>
  BY <1>1, <1>2 DEF EndExchange, Launch, Goto, HaloJobs, Borders
<1>4. /\ PlanInv /\ TypeInv /\ Local(p) /\ NetInv /\ SamePlan
  BY <1>3 DEF EpsilodInv, LocalInv, SamePlan
<1>5. k \in Nat /\ jobs[p] \in Seq(JobSet)
  BY <1>1, <1>4 DEF TypeInv
<1>6. /\ m \in Seq(JobSet)
      /\ \A i \in DOMAIN m : \E b \in Borders : m[i] = Job("to", In(b), k)
      /\ \A b \in Borders : \E i \in DOMAIN m : m[i] = Job("to", In(b), k)
  BY ONLY <1>1, <1>4, <1>5, HaloJobsAre
<1>7. \A op, t, j : Job(op, t, j).op = op /\ Job(op, t, j).tile = t /\ Job(op, t, j).iter = j
  BY JobIs
<1>8. PICK o : o = jobs[p]
  OBVIOUS
<1>9. /\ n \in Seq(JobSet) /\ DOMAIN n \subseteq Int
      /\ \A i \in DOMAIN n :
           \/ i \in DOMAIN o /\ n[i] = o[i]
           \/ \E j \in DOMAIN m : i = Len(o) + j /\ n[i] = m[j]
      /\ \A i \in DOMAIN o : i \in DOMAIN n /\ n[i] = o[i] /\ i <= Len(o)
      /\ \A j \in DOMAIN m : Len(o) + j \in DOMAIN n /\ n[Len(o) + j] = m[j] /\ 0 < j
  <2>1. o \in Seq(JobSet) /\ m \in Seq(JobSet) /\ n = o \o m
    BY <1>2, <1>5, <1>6, <1>8
  <2>2. /\ o \o m \in Seq(JobSet) /\ DOMAIN (o \o m) \subseteq Int
        /\ \A i \in DOMAIN (o \o m) :
             \/ i \in DOMAIN o /\ (o \o m)[i] = o[i]
             \/ \E j \in DOMAIN m : i = Len(o) + j /\ (o \o m)[i] = m[j]
        /\ \A i \in DOMAIN o : i \in DOMAIN (o \o m) /\ (o \o m)[i] = o[i] /\ i <= Len(o)
        /\ \A j \in DOMAIN m : Len(o) + j \in DOMAIN (o \o m)
                               /\ (o \o m)[Len(o) + j] = m[j] /\ 0 < j
    BY ONLY <2>1, Joined
  <2>. QED
    BY ONLY <2>1, <2>2, Zenon
<1>10. GoesOn(p, "halo", k, n, {})
  <2>1. /\ iter' = [iter EXCEPT ![p] = k] /\ expects' = [expects EXCEPT ![p] = {}]
    BY <1>1, <1>3, <1>4 DEF TypeInv
  <2>. QED
    BY <1>3, <1>5, <1>9, <2>1 DEF GoesOn, Places
<1>11. /\ Frame(p) /\ TypeInv' /\ Shaped(p)' /\ Clean(p)'
       /\ pc'[p] = "halo" /\ iter'[p] = k /\ jobs'[p] = n /\ expects'[p] = {}
  BY ONLY EpsilodInv, p \in Procs(input), <1>3, <1>10, QuietStep
<1>12. /\ Borders' = Borders /\ Procs(input)' = Procs(input)
       /\ Kernels(p)' = Kernels(p) /\ Fetches(p)' = Fetches(p)
       /\ \A t : CellsOf(p, t)' = CellsOf(p, t)
       /\ Neighbours(p, "from")' = Neighbours(p, "from")
       /\ \A c, j : Expected(c, j)' = Expected(c, j)
       /\ input' = input
  BY <1>4, PlanTerms DEF SamePlan
<1>13. /\ \A b \in Borders : Pending(p, "to", In(b))'
       /\ \A t : Pending(p, "kernel", t) => Pending(p, "kernel", t)'
  <2>1. \A b \in Borders : \E i \in DOMAIN n : n[i] = Job("to", In(b), k)
    BY ONLY <1>6, <1>9
  <2>2. \A i \in DOMAIN o : \E j \in DOMAIN n : n[j] = o[i]
    BY ONLY <1>9
  <2>3. \A b \in Borders : Pending(p, "to", In(b))'
    BY <1>7, <1>11, <2>1 DEF Pending
  <2>4. \A t : Pending(p, "kernel", t) => Pending(p, "kernel", t)'
    BY <1>8, <1>11, <2>2 DEF Pending
  <2>. QED
    BY <2>3, <2>4
<1>14. Placed(p)'
  BY <1>1, <1>3, <1>4, <1>11, <1>12 DEF Local, Placed
<1>15. JobsInv(p)'
  <2>1. \A i \in DOMAIN o : o[i].op = "kernel" /\ JobFits(p, o[i])'
    <3>. TAKE i \in DOMAIN o
    <3>1. JobFits(p, o[i]) /\ o[i] \in JobSet
      BY <1>4, <1>5, <1>8 DEF Local, JobsInv
    <3>2. o[i].op = "kernel"
      BY <1>3, <3>1 DEF JobFits, JobSet
    <3>. QED
      BY <1>1, <1>3, <1>11, <1>12, <3>1, <3>2 DEF JobFits
  <2>2. \A j \in DOMAIN m : m[j].op = "to" /\ JobFits(p, m[j])'
    BY <1>6, <1>7, <1>11, <1>12 DEF JobFits
  <2>3. \A i \in DOMAIN n : JobFits(p, n[i])'
    BY <1>9, <2>1, <2>2
  <2>4. ASSUME NEW i \in DOMAIN n, NEW j \in DOMAIN n, i < j, n[j].op = "kernel"
        PROVE  n[i].op = "kernel"
    <3>1. j \in DOMAIN o /\ j <= Len(o)
      BY <1>9, <2>2, <2>4
    <3>2. Len(o) \in Nat /\ \A l \in DOMAIN m : l \in Nat /\ 0 < l
      BY <1>5, <1>6, <1>8
    <3>3. i \in DOMAIN o /\ n[i] = o[i]
      BY <1>9, <2>4, <3>1, <3>2
    <3>. QED
      BY <2>1, <3>3
  <2>. QED
    BY <1>11, <2>3, <2>4 DEF JobsInv
<1>16. Computed(p)'
  BY <1>1, <1>3, <1>4, <1>11, <1>12, <1>13 DEF Local, Computed
<1>17. Received(p)'
  BY <1>1, <1>3, <1>4, <1>11, <1>12 DEF Local, Received
<1>18. Source(p)'
  <2>1. \A c : Used(p, c)' <=> Used(p, c)
    BY <1>4, PlanTerms
  <2>. QED
    BY <1>1, <1>3, <1>4, <1>11, <1>12, <2>1 DEF Local, Source, Right
<1>19. Fetched(p)' /\ Moved(p)' /\ Brought(p)'
  BY <1>11, <1>12, <1>13 DEF Fetched, Moved, Brought
<1>20. NetInv'
  <2>1. ASSUME NEW q \in Procs(input) PROVE Sent(q)' = Sent(q) /\ expects'[q] = expects[q]
    BY <1>1, <1>3, <1>11, <2>1 DEF Sent, Frame, Same
  <2>. QED
    BY <1>3, <1>4, <2>1, NetStays
<1>. QED
  BY <1>11, <1>14, <1>15, <1>16, <1>17, <1>18, <1>19, <1>20 DEF Kept, Local

\* A sequence of jobs without elements.
LEMMA NoElements ==
  ASSUME NEW E, NEW s \in Seq(E), DOMAIN s = {}
  PROVE  s = <<>>
<1>1. Len(s) \in Nat /\ DOMAIN s = 1 .. Len(s)
  OBVIOUS
<1>2. Len(s) = 0
  BY <1>1
<1>. QED
  BY <1>2

\* The halos are in the device and the inner part is computed.
LEMMA NextIterationKeeps ==
  ASSUME EpsilodInv, NEW p \in Procs(input), NextIteration(p)
  PROVE  Kept(p)
<1>1. PICK k, n, e : k = iter[p] /\ n = jobs[p] /\ e = expects[p]
  OBVIOUS
<1>2. /\ pc[p] = "halo" /\ HaloWaited(p) /\ pc' = [pc EXCEPT ![p] = "compute"]
      /\ UNCHANGED <<input, plan, iter, jobs, host, device, net, expects>>
  BY DEF NextIteration, Goto
<1>3. PlanInv /\ TypeInv /\ Local(p) /\ NetInv /\ SamePlan
  BY <1>2 DEF EpsilodInv, LocalInv, SamePlan
<1>4. k \in Nat /\ n \in Seq(JobSet) /\ e \in SUBSET Borders
  BY <1>1, <1>3 DEF TypeInv
<1>5. DOMAIN n = {}
  <2>. SUFFICES ASSUME NEW i \in DOMAIN n PROVE FALSE
    OBVIOUS
  <2>1. n[i] \in JobSet /\ JobFits(p, n[i])
    BY <1>1, <1>3, <1>4 DEF Local, JobsInv
  <2>2. n[i].tile # InnerTile /\ \A b \in Borders : n[i].tile # In(b)
    BY <1>1, <1>2 DEF HaloWaited, Waited, Borders
  <2>. QED
    BY <1>2, <2>1, <2>2 DEF JobFits, JobSet
<1>6. \A op, t : ~Pending(p, op, t)
  BY <1>1, <1>5 DEF Pending
<1>7. GoesOn(p, "compute", k, n, e)
  <2>1. /\ iter' = [iter EXCEPT ![p] = k] /\ expects' = [expects EXCEPT ![p] = e]
        /\ jobs' = [jobs EXCEPT ![p] = n]
    BY <1>1, <1>2, <1>3 DEF TypeInv
  <2>. QED
    BY <1>2, <1>4, <2>1 DEF GoesOn, Places
<1>8. /\ Frame(p) /\ TypeInv' /\ Shaped(p)' /\ Clean(p)'
      /\ pc'[p] = "compute" /\ iter'[p] = k /\ jobs'[p] = n /\ expects'[p] = e
  BY ONLY EpsilodInv, p \in Procs(input), <1>2, <1>7, QuietStep
<1>9. /\ Borders' = Borders /\ Procs(input)' = Procs(input)
      /\ \A t : CellsOf(p, t)' = CellsOf(p, t)
      /\ Neighbours(p, "from")' = Neighbours(p, "from")
      /\ \A c : Used(p, c)' <=> Used(p, c)
      /\ \A c, j : Expected(c, j)' = Expected(c, j)
      /\ input' = input
  BY <1>3, PlanTerms DEF SamePlan
<1>10. Placed(p)' /\ e = {}
  BY <1>1, <1>2, <1>3, <1>8, <1>9 DEF Local, Placed
<1>11. JobsInv(p)'
  BY <1>5, <1>8 DEF JobsInv
<1>12. Source(p)'
  <2>1. ASSUME NEW c \in CellsOf(p, All), Used(p, c)
        PROVE  device[p][Mat(k)][c] = Expected(c, k)
    <3>1. ASSUME NEW t \in Kernels(p), c \in CellsOf(p, t)
          PROVE  device[p][Mat(k)][c] = Expected(c, k)
      <4>1. device[p][Mat(k)][c] = k
        BY <1>1, <1>2, <1>3, <1>6, <3>1 DEF Local, Computed
      <4>2. \A m : Expected(c, m) = m
        BY ONLY <1>3, <3>1, p \in Procs(input), ComputedIs
      <4>. QED
        BY <4>1, <4>2
    <3>2. ASSUME NEW b \in Borders, c \in CellsOf(p, In(b))
          PROVE  device[p][Mat(k)][c] = Expected(c, k)
      BY <1>1, <1>2, <1>3, <1>6, <3>2 DEF Local, Moved
    <3>. QED
      BY <2>1, <3>1, <3>2 DEF Used
  <2>. QED
    BY <1>2, <1>8, <1>9, <2>1 DEF Source, Right
<1>13. Computed(p)' /\ Fetched(p)' /\ Received(p)' /\ Moved(p)' /\ Brought(p)'
  BY <1>8 DEF Computed, Fetched, Received, Moved, Brought
<1>14. NetInv'
  <2>1. ASSUME NEW q \in Procs(input) PROVE Sent(q)' = Sent(q) /\ expects'[q] = expects[q]
    BY <1>1, <1>2, <1>8, <2>1 DEF Sent, Frame, Same
  <2>. QED
    BY <1>2, <1>3, <2>1, NetStays
<1>. QED
  BY <1>8, <1>10, <1>11, <1>12, <1>13, <1>14 DEF Kept, Local

\* The last kernels have ended.
LEMMA LastWaitKeeps ==
  ASSUME EpsilodInv, NEW p \in Procs(input), LastWait(p)
  PROVE  Kept(p)
<1>1. PICK k, o, e : k = iter[p] /\ o = jobs[p] /\ e = expects[p]
  OBVIOUS
<1>2. PICK n : n = <<Job("from", All, k)>>
  OBVIOUS
<1>3. /\ pc[p] = "last" /\ \A t \in DevSet \cup {InnerTile} : Waited(p, t)
      /\ pc' = [pc EXCEPT ![p] = "output"] /\ jobs' = [jobs EXCEPT ![p] = o \o n]
      /\ UNCHANGED <<input, plan, iter, host, device, net, expects>>
  BY <1>1, <1>2 DEF LastWait, Goto, Launch, DevSet
<1>4. PlanInv /\ TypeInv /\ Local(p) /\ NetInv /\ SamePlan
  BY <1>3 DEF EpsilodInv, LocalInv, SamePlan
<1>5. k \in Nat /\ o \in Seq(JobSet) /\ e \in SUBSET Borders
  BY <1>1, <1>4 DEF TypeInv
<1>6. n \in Seq(JobSet) /\ DOMAIN n = {1} /\ n[1] = Job("from", All, k)
  <2>1. Job("from", All, k) \in JobSet
    BY <1>5 DEF Job, JobSet
  <2>. QED
    BY <1>2, <2>1
<1>7. o = <<>>
  <2>1. Kernels(p) \subseteq DevSet \cup {InnerTile}
    <3>1. plan[p].kernels \in Seq(DevSet \cup {InnerTile})
      BY <1>4 DEF PlanInv, TilesFit
    <3>. QED
      BY <3>1 DEF Kernels, ToSet
  <2>2. ASSUME NEW i \in DOMAIN o PROVE FALSE
    <3>1. o[i] \in JobSet /\ JobFits(p, o[i])
      BY <1>1, <1>4, <1>5, <2>2 DEF Local, JobsInv
    <3>2. \A t \in DevSet \cup {InnerTile} : o[i].tile # t
      BY <1>1, <1>3, <2>2 DEF Waited
    <3>. QED
      BY <1>3, <2>1, <3>1, <3>2 DEF JobFits, JobSet
  <2>. QED
    BY ONLY <1>5, <2>2, NoElements
<1>8. o \o n = n
  BY <1>6, <1>7
<1>9. \A op, t : ~Pending(p, op, t)
  BY <1>1, <1>7 DEF Pending
<1>10. GoesOn(p, "output", k, n, e)
  <2>1. /\ iter' = [iter EXCEPT ![p] = k] /\ expects' = [expects EXCEPT ![p] = e]
    BY <1>1, <1>3, <1>4 DEF TypeInv
  <2>. QED
    BY <1>3, <1>5, <1>6, <1>8, <2>1 DEF GoesOn, Places
<1>11. /\ Frame(p) /\ TypeInv' /\ Shaped(p)' /\ Clean(p)'
       /\ pc'[p] = "output" /\ iter'[p] = k /\ jobs'[p] = n /\ expects'[p] = e
  BY ONLY EpsilodInv, p \in Procs(input), <1>3, <1>10, QuietStep
<1>12. /\ Borders' = Borders /\ Procs(input)' = Procs(input) /\ Kernels(p)' = Kernels(p)
       /\ \A t : CellsOf(p, t)' = CellsOf(p, t)
       /\ Neighbours(p, "from")' = Neighbours(p, "from")
       /\ input' = input
  BY <1>4, PlanTerms DEF SamePlan
<1>13. Job("from", All, k).op = "from" /\ Job("from", All, k).tile = All
       /\ Job("from", All, k).iter = k
  BY JobIs
<1>14. Placed(p)'
  BY <1>1, <1>3, <1>4, <1>11, <1>12 DEF Local, Placed
<1>15. JobsInv(p)'
  BY <1>6, <1>11, <1>13 DEF JobsInv, JobFits
<1>16. Computed(p)'
  BY <1>1, <1>3, <1>4, <1>9, <1>11, <1>12 DEF Local, Computed
<1>17. Pending(p, "from", All)'
  BY <1>6, <1>11, <1>13 DEF Pending
<1>18. Source(p)' /\ Fetched(p)' /\ Received(p)' /\ Moved(p)' /\ Brought(p)'
  BY <1>11, <1>17 DEF Source, Fetched, Received, Moved, Brought
<1>19. NetInv'
  <2>1. ASSUME NEW q \in Procs(input) PROVE Sent(q)' = Sent(q) /\ expects'[q] = expects[q]
    BY <1>1, <1>3, <1>11, <2>1 DEF Sent, Frame, Same
  <2>. QED
    BY <1>3, <1>4, <2>1, NetStays
<1>. QED
  BY <1>11, <1>14, <1>15, <1>16, <1>18, <1>19 DEF Kept, Local

\* The matrix is in the host.
LEMMA OutputKeeps ==
  ASSUME EpsilodInv, NEW p \in Procs(input), Output(p)
  PROVE  Kept(p)
<1>1. PICK k, n, e : k = iter[p] /\ n = jobs[p] /\ e = expects[p]
  OBVIOUS
<1>2. /\ pc[p] = "output" /\ Waited(p, All) /\ pc' = [pc EXCEPT ![p] = "done"]
      /\ UNCHANGED <<input, plan, iter, jobs, host, device, net, expects>>
  BY DEF Output, Goto
<1>3. PlanInv /\ TypeInv /\ Local(p) /\ NetInv /\ SamePlan
  BY <1>2 DEF EpsilodInv, LocalInv, SamePlan
<1>4. k \in Nat /\ n \in Seq(JobSet) /\ e \in SUBSET Borders
  BY <1>1, <1>3 DEF TypeInv
<1>5. DOMAIN n = {}
  <2>. SUFFICES ASSUME NEW i \in DOMAIN n PROVE FALSE
    OBVIOUS
  <2>1. n[i] \in JobSet /\ JobFits(p, n[i])
    BY <1>1, <1>3, <1>4 DEF Local, JobsInv
  <2>2. n[i].tile # All
    BY <1>1, <1>2 DEF Waited
  <2>. QED
    BY <1>2, <2>1, <2>2 DEF JobFits, JobSet
<1>6. GoesOn(p, "done", k, n, e)
  <2>1. /\ iter' = [iter EXCEPT ![p] = k] /\ expects' = [expects EXCEPT ![p] = e]
        /\ jobs' = [jobs EXCEPT ![p] = n]
    BY <1>1, <1>2, <1>3 DEF TypeInv
  <2>. QED
    BY <1>2, <1>4, <2>1 DEF GoesOn, Places
<1>7. /\ Frame(p) /\ TypeInv' /\ Shaped(p)' /\ Clean(p)'
      /\ pc'[p] = "done" /\ iter'[p] = k /\ jobs'[p] = n /\ expects'[p] = e
  BY ONLY EpsilodInv, p \in Procs(input), <1>2, <1>6, QuietStep
<1>8. /\ Procs(input)' = Procs(input) /\ Kernels(p)' = Kernels(p)
      /\ \A t : CellsOf(p, t)' = CellsOf(p, t)
      /\ Neighbours(p, "from")' = Neighbours(p, "from")
      /\ input' = input
  BY <1>3, PlanTerms DEF SamePlan
<1>9. \A op, t : Pending(p, op, t)' <=> Pending(p, op, t)
  BY <1>1, <1>7 DEF Pending
<1>10. Placed(p)'
  BY <1>1, <1>2, <1>3, <1>7, <1>8 DEF Local, Placed
<1>11. JobsInv(p)'
  BY <1>5, <1>7 DEF JobsInv
<1>12. Computed(p)' /\ Brought(p)'
  BY <1>1, <1>2, <1>3, <1>7, <1>8, <1>9 DEF Local, Computed, Brought
<1>13. Source(p)' /\ Fetched(p)' /\ Received(p)' /\ Moved(p)'
  BY <1>7 DEF Source, Fetched, Received, Moved
<1>14. NetInv'
  <2>1. ASSUME NEW q \in Procs(input) PROVE Sent(q)' = Sent(q) /\ expects'[q] = expects[q]
    BY <1>1, <1>2, <1>7, <2>1 DEF Sent, Frame, Same
  <2>. QED
    BY <1>2, <1>3, <2>1, NetStays
<1>. QED
  BY <1>7, <1>10, <1>11, <1>12, <1>13, <1>14 DEF Kept, Local
-----------------------------------------------------------------------------
(* Messages.                                                               *)

\* Sent and received are integers.
LEMMA Counts ==
  ASSUME TypeInv, NEW p \in Procs(input)
  PROVE  iter[p] \in Nat /\ Sent(p) \in Int /\ \A b : Got(p, b) \in Int
  BY DEF TypeInv, Sent, Got

\* A link that nobody uses.
LEMMA LinkStays ==
  ASSUME SamePlan, NEW r, NEW b, NEW q, LinkInv(r, b, q),
         Got(r, b)' = Got(r, b), Sent(q)' = Sent(q), net'[<<q, r>>] = net[<<q, r>>]
  PROVE  LinkInv(r, b, q)'
<1>1. CellsOf(r, In(b))' = CellsOf(r, In(b)) /\ \A c, k : Expected(c, k)' = Expected(c, k)
  BY DEF CellsOf, Expected, SamePlan
<1>. QED
  BY <1>1 DEF LinkInv, Messages, HaloOf

\* The elements of two sequences, one after the other.
LEMMA JoinedAt ==
  ASSUME NEW E, NEW s \in Seq(E), NEW t \in Seq(E)
  PROVE  /\ s \o t \in Seq(E) /\ Len(s \o t) = Len(s) + Len(t)
         /\ \A i \in 1 .. Len(s) + Len(t) :
              (s \o t)[i] = IF i <= Len(s) THEN s[i] ELSE t[i - Len(s)]
  OBVIOUS

\* One more message.
LEMMA MessageAdded ==
  ASSUME NEW r, NEW b, NEW g \in Int, NEW n \in Nat
  PROVE  Messages(r, b, g, n) \o <<HaloOf(r, b, g + n + 1)>> = Messages(r, b, g, n + 1)
<1>. DEFINE h(i) == HaloOf(r, b, g + i)
            s == [i \in 1 .. n |-> h(i)]
            t == <<HaloOf(r, b, g + n + 1)>>
            u == [i \in 1 .. n + 1 |-> h(i)]
            E == {h(i) : i \in 1 .. n + 1}
<1>1. s \in Seq(E) /\ Len(s) = n /\ u \in Seq(E) /\ Len(u) = n + 1
  <2>1. s \in [1 .. n -> E] /\ u \in [1 .. n + 1 -> E]
    OBVIOUS
  <2>2. DOMAIN s = 1 .. n /\ DOMAIN u = 1 .. n + 1
    OBVIOUS
  <2>. HIDE DEF s, u, E
  <2>. QED
    BY <2>1, <2>2
<1>2. h(n + 1) = HaloOf(r, b, g + n + 1)
  <2>1. g + (n + 1) = g + n + 1
    OBVIOUS
  <2>. QED
    BY <2>1
<1>3. t \in Seq(E) /\ Len(t) = 1 /\ t[1] = h(n + 1)
  <2>1. HaloOf(r, b, g + n + 1) \in E
    <3>1. n + 1 \in 1 .. n + 1
      OBVIOUS
    <3>. HIDE DEF h
    <3>. QED
      BY <1>2, <3>1
  <2>. HIDE DEF E, h
  <2>. QED
    BY <1>2, <2>1
<1>4. /\ \A i \in 1 .. n : s[i] = h(i)
      /\ \A i \in 1 .. n + 1 : u[i] = h(i)
  <2>. HIDE DEF h
  <2>. QED
    OBVIOUS
<1>. HIDE DEF s, t, u, E, h
<1>5. s \o t = u
  <2>. DEFINE v == s \o t
  <2>1. /\ v \in Seq(E) /\ Len(v) = n + 1
        /\ \A i \in 1 .. n + 1 : v[i] = IF i <= n THEN s[i] ELSE t[i - n]
    <3>1. s \in Seq(E) /\ t \in Seq(E) /\ Len(s) = n /\ Len(t) = 1 /\ n \in Nat
      BY <1>1, <1>3
    <3>2. v \in Seq(E) /\ Len(v) = Len(s) + Len(t)
          /\ \A i \in 1 .. Len(s) + Len(t) :
               v[i] = IF i <= Len(s) THEN s[i] ELSE t[i - Len(s)]
      BY ONLY <3>1, JoinedAt DEF v
    <3>. HIDE DEF v
    <3>. QED
      BY ONLY <3>1, <3>2
  <2>2. \A i \in 1 .. n + 1 : v[i] = u[i]
    <3>. HIDE DEF v
    <3>. SUFFICES ASSUME NEW i \in 1 .. n + 1 PROVE v[i] = u[i]
      OBVIOUS
    <3>1. CASE i <= n
      BY <1>4, <2>1, <3>1
    <3>2. CASE i = n + 1
      <4>1. v[i] = t[i - n] /\ i - n = 1
        BY <2>1, <3>2
      <4>. QED
        BY <1>3, <1>4, <3>2, <4>1
    <3>. QED
      BY <3>1, <3>2
  <2>. HIDE DEF v
  <2>3. v = u
    BY <1>1, <2>1, <2>2
  <2>. QED
    BY <2>3 DEF v
<1>. QED
  BY <1>5 DEF Messages, s, t, u, h

\* The elements of no set.
LEMMA SeqOfNone == SetToSeq({}) = <<>>
<1>. DEFINE q == SetToSeq({})
            E == {}
<1>1. q \in Seq(E)
  BY SeqOfSet, FS_EmptySet
<1>. HIDE DEF q
<1>2. DOMAIN q = {}
  <2>1. \A i \in DOMAIN q : q[i] \in E
    BY <1>1
  <2>. QED
    BY <2>1
<1>. HIDE DEF E
<1>3. q = <<>>
  BY <1>1, <1>2, NoElements
<1>. QED
  BY <1>3 DEF q

\* Nothing comes after a sequence.
LEMMA JoinedNone ==
  ASSUME NEW E, NEW s \in Seq(E)
  PROVE  s \o <<>> = s
  OBVIOUS

\* What is on the way to a halo is a sequence.
LEMMA MessagesAre ==
  ASSUME NEW r, NEW b, NEW g, NEW n \in Nat
  PROVE  \E E : Messages(r, b, g, n) \in Seq(E)
<1>. DEFINE h(i) == HaloOf(r, b, g + i)
            E == {h(i) : i \in 1 .. n}
            s == [i \in 1 .. n |-> h(i)]
<1>1. s \in [1 .. n -> E]
  OBVIOUS
<1>. HIDE DEF s, E
<1>2. s \in Seq(E)
  BY <1>1
<1>. QED
  BY <1>2 DEF Messages, s

\* What process p sends across a border when it starts an exchange.
Message(p, b) == [c \in CellsOf(p, Out(b)) |-> host[p][Mat(iter[p])][c]]

\* A halo without a neighbour, and one with a neighbour that sends to it.
LEMMA Neighbouring ==
  ASSUME PlanInv, NEW p \in Procs(input), NEW b \in Neighbours(p, "from")
  PROVE  /\ b \in Borders /\ plan[p].from[b] \in Procs(input)
         /\ plan[plan[p].from[b]].to[b] = p
         /\ b \in Neighbours(plan[p].from[b], "to")
         /\ CellsOf(p, In(b)) = CellsOf(plan[p].from[b], Out(b))
         /\ \A o \in Neighbours(plan[p].from[b], "to") \ {b} :
              plan[plan[p].from[b]].to[o] # p
         /\ \A c \in CellsOf(p, In(b)) : \E t \in Fetches(plan[p].from[b]) :
              c \in CellsOf(plan[p].from[b], t)
<1>. DEFINE q == plan[p].from[b]
<1>1. b \in Borders /\ q # NullRank
  BY DEF PlanInv, NeighboursAre
<1>2. q \in Procs(input) /\ plan[q].to[b] = p /\ CellsOf(p, In(b)) = CellsOf(q, Out(b))
  BY <1>1 DEF PlanInv, BordersFit
<1>3. p # NullRank
  BY DEF NullRank, Procs
<1>. HIDE DEF q
<1>4. /\ \A o \in Borders \ {b} : plan[q].to[o] # plan[q].to[b]
      /\ \A c \in CellsOf(q, Out(b)) : \E t \in Fetches(q) : c \in CellsOf(q, t)
  BY <1>1, <1>2, <1>3 DEF PlanInv, BordersFit
<1>5. Neighbours(q, "to") = {x \in Borders : plan[q].to[x] # NullRank}
  BY <1>2 DEF PlanInv, NeighboursAre
<1>. QED
  BY <1>1, <1>2, <1>3, <1>4, <1>5 DEF q

\* Borders are sent to the neighbours, and the exchange begins.
LEMMA StartExchangeKeeps ==
  ASSUME EpsilodInv, NEW p \in Procs(input), StartExchange(p)
  PROVE  Kept(p)
<1>1. PICK k, n, e : k = iter[p] /\ n = jobs[p] /\ e = Neighbours(p, "from")
  OBVIOUS
<1>. DEFINE S(link) == {Message(p, b) : b \in {x \in Neighbours(p, "to") :
                                                 link = <<p, plan[p].to[x]>>}}
<1>2. /\ pc[p] = "send" /\ \A t \in DevSet : Waited(p, t)
      /\ net' = [link \in DOMAIN net |-> net[link] \o SetToSeq(S(link))]
      /\ pc' = [pc EXCEPT ![p] = "exchange"] /\ expects' = [expects EXCEPT ![p] = e]
      /\ UNCHANGED <<input, plan, iter, jobs, host, device>>
  BY <1>1 DEF StartExchange, Goto, DevSet, Message
<1>3. PlanInv /\ TypeInv /\ Local(p) /\ NetInv /\ SamePlan
  BY <1>2 DEF EpsilodInv, LocalInv, SamePlan
<1>4. /\ k \in Nat /\ n \in Seq(JobSet) /\ e \in SUBSET Borders /\ expects[p] = {}
      /\ 0 < k /\ k < input.iterations
  BY <1>1, <1>2, <1>3 DEF TypeInv, PlanInv, NeighboursAre, Local, Placed
<1>5. GoesOn(p, "exchange", k, n, e)
  <2>1. /\ iter' = [iter EXCEPT ![p] = k] /\ jobs' = [jobs EXCEPT ![p] = n]
    BY <1>1, <1>2, <1>3 DEF TypeInv
  <2>2. DOMAIN net' = DOMAIN net
    BY <1>2
  <2>. QED
    BY <1>2, <1>4, <2>1, <2>2 DEF GoesOn, Places
<1>6. /\ Frame(p) /\ TypeInv' /\ Shaped(p)' /\ Clean(p)'
      /\ pc'[p] = "exchange" /\ iter'[p] = k /\ jobs'[p] = n /\ expects'[p] = e
  BY ONLY EpsilodInv, p \in Procs(input), <1>2, <1>5, QuietStep
<1>7. /\ Borders' = Borders /\ Procs(input)' = Procs(input) /\ Kernels(p)' = Kernels(p)
      /\ \A t : CellsOf(p, t)' = CellsOf(p, t)
      /\ Neighbours(p, "from")' = Neighbours(p, "from")
      /\ \A c : Used(p, c)' <=> Used(p, c)
      /\ \A c, j : Expected(c, j)' = Expected(c, j)
      /\ input' = input
  BY <1>3, PlanTerms DEF SamePlan
<1>8. \A op, t : Pending(p, op, t)' <=> Pending(p, op, t)
  BY <1>1, <1>6 DEF Pending
<1>9. Placed(p)'
  BY <1>1, <1>4, <1>6, <1>7 DEF Placed
<1>10. Kernels(p) \subseteq DevSet \cup {InnerTile} /\ Fetches(p) \subseteq DevSet
       /\ Fetches(p) \subseteq Kernels(p)
  <2>1. /\ plan[p].kernels \in Seq(DevSet \cup {InnerTile}) /\ plan[p].moved \in Seq(DevSet)
        /\ Fetches(p) \subseteq Kernels(p)
    BY <1>3 DEF PlanInv, TilesFit
  <2>2. \A E : \A s \in Seq(E) : ToSet(s) \subseteq E
    BY DEF ToSet
  <2>3. Kernels(p) = ToSet(plan[p].kernels) /\ Fetches(p) = ToSet(plan[p].moved)
    BY DEF Kernels, Fetches
  <2>. QED
    BY ONLY <2>1, <2>2, <2>3
<1>11. JobsInv(p)'
  <2>1. ASSUME NEW i \in DOMAIN n PROVE JobFits(p, n[i])'
    <3>1. n[i] \in JobSet /\ JobFits(p, n[i])
      BY <1>1, <1>3, <1>4, <2>1 DEF Local, JobsInv
    <3>2. \A t \in DevSet : n[i].tile # t
      BY <1>1, <1>2, <2>1 DEF Waited
    <3>3. n[i].op = "kernel" /\ n[i].tile \in Kernels(p) /\ n[i].tile = InnerTile
      BY <1>2, <1>10, <3>1, <3>2 DEF JobFits, JobSet
    <3>. QED
      BY <1>1, <1>6, <1>7, <3>1, <3>3 DEF JobFits
  <2>. QED
    BY <1>1, <1>3, <1>6, <2>1 DEF Local, JobsInv
<1>12. Source(p)'
  BY <1>1, <1>2, <1>3, <1>6, <1>7 DEF Local, Source, Right
<1>13. Computed(p)'
  BY <1>1, <1>2, <1>3, <1>6, <1>7, <1>8 DEF Local, Computed
<1>14. Received(p)'
  <2>1. Mat(k) \in Arrays
    BY <1>4, ArraysSwap
  <2>2. ASSUME NEW b \in Borders \ e, NEW c \in CellsOf(p, In(b))
        PROVE  host[p][Mat(k)][c] = Expected(c, k)
    <3>1. plan[p].from[b] = NullRank
      BY <1>1, <1>3 DEF PlanInv, NeighboursAre
    <3>2. ~Inside(input, c) /\ c \in CellsOf(p, All)
      BY <1>3, <3>1 DEF PlanInv, BordersFit, TilesFit
    <3>. QED
      BY <1>3, <2>1, <3>2 DEF Local, Clean, Expected
  <2>. QED
    BY <1>2, <1>6, <1>7, <2>2 DEF Received
<1>15. Fetched(p)' /\ Moved(p)' /\ Brought(p)'
  BY <1>6 DEF Fetched, Moved, Brought
<1>16. ASSUME NEW r \in Procs(input), NEW b \in Neighbours(r, "from")
       PROVE  Got(r, b)' = Got(r, b)
  <2>1. CASE r = p
    BY <1>1, <1>2, <1>4, <1>6, <2>1 DEF Got, Sent
  <2>2. CASE r # p
    BY <1>6, <2>2 DEF Got, Sent, Frame, Same
  <2>. QED
    BY <2>1, <2>2
<1>17. Sent(p)' = Sent(p) + 1 /\ Sent(p) + 1 = k
       /\ \A q \in Procs(input) \ {p} : Sent(q)' = Sent(q)
  BY <1>1, <1>2, <1>4, <1>6 DEF Sent, Frame, Same
<1>18. ASSUME NEW r \in Procs(input), NEW b \in Neighbours(r, "from"),
              p = plan[r].from[b], LinkInv(r, b, p)
       PROVE  LinkInv(r, b, p)'
  <2>1. /\ b \in Borders /\ plan[p].to[b] = r /\ b \in Neighbours(p, "to")
        /\ CellsOf(r, In(b)) = CellsOf(p, Out(b))
        /\ \A o \in Neighbours(p, "to") \ {b} : plan[p].to[o] # r
        /\ \A c \in CellsOf(r, In(b)) : \E t \in Fetches(p) : c \in CellsOf(p, t)
    BY <1>3, <1>18, Neighbouring
  <2>2. S(<<p, r>>) = {Message(p, b)}
    <3>1. {x \in Neighbours(p, "to") : <<p, r>> = <<p, plan[p].to[x]>>} = {b}
      BY <2>1
    <3>. QED
      BY <3>1
  <2>3. Message(p, b) = HaloOf(r, b, k)
    <3>1. ASSUME NEW c \in CellsOf(r, In(b))
          PROVE  host[p][Mat(k)][c] = Expected(c, k)
      <4>1. PICK t \in Fetches(p) : c \in CellsOf(p, t)
        BY <2>1
      <4>2. ~Pending(p, "from", t)
        BY <1>2, <1>10 DEF Pending, Waited
      <4>3. host[p][Mat(k)][c] = k
        BY <1>1, <1>2, <1>3, <4>1, <4>2 DEF Local, Fetched
      <4>4. t \in Kernels(p)
        BY <1>10
      <4>5. \A m : Expected(c, m) = m
        BY ONLY <1>3, p \in Procs(input), <4>1, <4>4, ComputedIs
      <4>. QED
        BY <4>3, <4>5
    <3>. QED
      BY <1>1, <2>1, <3>1 DEF Message, HaloOf
  <2>4. PICK g, m : g = Got(r, b) /\ m = Sent(p) - g
    OBVIOUS
  <2>5. m \in Nat /\ net[<<p, r>>] = Messages(r, b, g, m) /\ g \in Int /\ g + m + 1 = k
    <3>1. g \in Int /\ Sent(p) \in Int
      BY <1>3, <2>4, Counts
    <3>. QED
      BY <1>17, <1>18, <2>4, <3>1 DEF LinkInv
  <2>6. net'[<<p, r>>] = Messages(r, b, g, m + 1)
    <3>1. <<p, r>> \in DOMAIN net
      BY <1>3 DEF TypeInv
    <3>2. net'[<<p, r>>] = net[<<p, r>>] \o SetToSeq(S(<<p, r>>))
      BY <1>2, <3>1
    <3>3. net'[<<p, r>>] = Messages(r, b, g, m) \o <<HaloOf(r, b, k)>>
      BY <2>2, <2>3, <2>5, <3>2, SeqOfOne
    <3>4. Messages(r, b, g, m) \o <<HaloOf(r, b, g + m + 1)>> = Messages(r, b, g, m + 1)
      BY ONLY <2>5, MessageAdded
    <3>. QED
      BY ONLY <2>5, <3>3, <3>4
  <2>7. Got(r, b)' = g /\ Sent(p)' - g = m + 1 /\ m + 1 \in Nat
    <3>1. Sent(p) \in Int /\ g \in Int
      BY <1>3, <2>4, Counts
    <3>. QED
      BY <1>16, <1>17, <2>4, <2>5, <3>1
  <2>8. Messages(r, b, g, m + 1)' = Messages(r, b, g, m + 1)
    <3>1. \A i : HaloOf(r, b, i)' = HaloOf(r, b, i)
      BY <1>3, PlanTerms DEF HaloOf
    <3>. QED
      BY <3>1 DEF Messages
  <2>. QED
    BY <2>6, <2>7, <2>8 DEF LinkInv
<1>19. ASSUME NEW r \in Procs(input), NEW b \in Neighbours(r, "from"), NEW q \in Procs(input),
              q # p, LinkInv(r, b, q)
       PROVE  LinkInv(r, b, q)'
  <2>1. S(<<q, r>>) = {} /\ <<q, r>> \in DOMAIN net
    BY <1>3, <1>19 DEF TypeInv
  <2>2. net'[<<q, r>>] = net[<<q, r>>] \o <<>>
    BY <1>2, <2>1, SeqOfNone
  <2>3. PICK g, m : g = Got(r, b) /\ m = Sent(q) - g
    OBVIOUS
  <2>4. m \in Nat /\ net[<<q, r>>] = Messages(r, b, g, m)
    BY <1>19, <2>3 DEF LinkInv
  <2>5. net'[<<q, r>>] = net[<<q, r>>]
    <3>1. PICK E : Messages(r, b, g, m) \in Seq(E)
      BY ONLY <2>4, MessagesAre
    <3>. QED
      BY ONLY <2>2, <2>4, <3>1, JoinedNone
  <2>. QED
    BY <1>3, <1>16, <1>17, <1>19, <2>5, LinkStays
<1>20. NetInv'
  <2>1. \A r : plan'[r].from = plan[r].from /\ Neighbours(r, "from")' = Neighbours(r, "from")
    BY <1>2, <1>3, PlanTerms
  <2>. QED
    BY <1>3, <1>7, <1>18, <1>19, <2>1 DEF NetInv
<1>. QED
  BY <1>6, <1>9, <1>11, <1>12, <1>13, <1>14, <1>15, <1>20 DEF Kept, Local

\* A matrix of a process when a part of it is written.
LEMMA WrittenTo ==
  ASSUME NEW m, NEW p \in DOMAIN m, NEW a \in DOMAIN m[p], NEW part,
         DOMAIN part \subseteq DOMAIN m[p][a], NEW w,
         w = [m EXCEPT ![p][a] = Written(m[p][a], part)]
  PROVE  /\ DOMAIN w = DOMAIN m /\ DOMAIN w[p] = DOMAIN m[p]
         /\ \A q \in DOMAIN m \ {p} : w[q] = m[q]
         /\ \A x \in DOMAIN m[p] : DOMAIN w[p][x] = DOMAIN m[p][x]
         /\ \A x \in DOMAIN m[p] \ {a} : w[p][x] = m[p][x]
         /\ \A c \in DOMAIN part : w[p][a][c] = part[c]
         /\ \A c \in DOMAIN m[p][a] \ DOMAIN part : w[p][a][c] = m[p][a][c]
<1>. DEFINE s == Written(m[p][a], part)
<1>1. /\ DOMAIN s = DOMAIN m[p][a]
      /\ \A c \in DOMAIN part : s[c] = part[c]
      /\ \A c \in DOMAIN m[p][a] \ DOMAIN part : s[c] = m[p][a][c]
  BY DEF Written
<1>. HIDE DEF s
<1>2. /\ DOMAIN w = DOMAIN m /\ DOMAIN w[p] = DOMAIN m[p] /\ w[p][a] = s
      /\ \A q \in DOMAIN m \ {p} : w[q] = m[q]
      /\ \A x \in DOMAIN m[p] \ {a} : w[p][x] = m[p][x]
  <2>1. w = [m EXCEPT ![p] = [m[p] EXCEPT ![a] = s]]
    BY DEF s
  <2>. QED
    BY <2>1
<1>. QED
  BY <1>1, <1>2

\* The next message of a link.
LEMMA NextMessage ==
  ASSUME NEW r, NEW b, NEW g \in Int, NEW n \in Nat, Messages(r, b, g, n) # <<>>
  PROVE  /\ 0 < n /\ n - 1 \in Nat /\ Head(Messages(r, b, g, n)) = HaloOf(r, b, g + 1)
         /\ Tail(Messages(r, b, g, n)) = Messages(r, b, g + 1, n - 1)
<1>. DEFINE h(i) == HaloOf(r, b, i)
            s == [i \in 1 .. n |-> h(g + i)]
            u == [i \in 1 .. n - 1 |-> h(g + 1 + i)]
            E == {h(g + i) : i \in 1 .. n}
<1>1. s \in [1 .. n -> E] /\ \A i \in 1 .. n : s[i] = h(g + i)
  <2>. HIDE DEF h
  <2>. QED
    OBVIOUS
<1>2. s # <<>>
  BY DEF Messages
<1>3. Messages(r, b, g, n) = s /\ Messages(r, b, g + 1, n - 1) = u
  BY DEF Messages
<1>4. \A i \in 1 .. n - 1 : u[i] = h(g + 1 + i)
  <2>. HIDE DEF h
  <2>. QED
    OBVIOUS
<1>5. DOMAIN u = 1 .. n - 1 /\ DOMAIN s = 1 .. n
  OBVIOUS
<1>51. u = [i \in 1 .. n - 1 |-> u[i]]
  OBVIOUS
<1>. HIDE DEF s, u, E, h
<1>6. s \in Seq(E) /\ Len(s) = n
  BY <1>1, <1>5
<1>7. 0 < n /\ n - 1 \in Nat
  <2>1. n # 0
    BY <1>2, <1>6
  <2>. QED
    BY <2>1
<1>8. Head(s) = h(g + 1)
  BY <1>1, <1>6, <1>7
<1>9. Tail(s) = u
  <2>. DEFINE t == Tail(s)
  <2>1. t \in Seq(E) /\ Len(t) = n - 1 /\ \A i \in 1 .. n - 1 : t[i] = s[i + 1]
    BY <1>2, <1>6, <1>7
  <2>. HIDE DEF t
  <2>2. \A i \in 1 .. n - 1 : t[i] = u[i]
    <3>. TAKE i \in 1 .. n - 1
    <3>1. i + 1 \in 1 .. n /\ g + (i + 1) = g + 1 + i
      OBVIOUS
    <3>2. t[i] = h(g + (i + 1))
      BY <1>1, <2>1, <3>1
    <3>. QED
      BY <1>4, <3>1, <3>2
  <2>3. DOMAIN t = 1 .. n - 1 /\ t = [i \in DOMAIN t |-> t[i]]
    BY <2>1
  <2>4. t = u
    BY <1>51, <2>2, <2>3
  <2>. QED
    BY <2>4 DEF t
<1>. QED
  BY <1>3, <1>7, <1>8, <1>9 DEF h

\* A halo is received.
LEMMA ReceiveKeeps ==
  ASSUME EpsilodInv, NEW p \in Procs(input), Receive(p)
  PROVE  Kept(p)
<1>1. PICK k, n, a : k = iter[p] /\ n = jobs[p] /\ a = Mat(iter[p])
  OBVIOUS
<1>2. PICK b \in expects[p] :
        LET link == <<plan[p].from[b], p>>
            message == Head(net[link])
        IN /\ net[link] # <<>>
           /\ net' = [net EXCEPT ![link] = Tail(@)]
           /\ host' = [host EXCEPT ![p][Mat(iter[p])] =
                         Written(@, [c \in CellsOf(p, In(b)) |->
                            IF c \in DOMAIN message THEN message[c] ELSE Junk])]
           /\ expects' = [expects EXCEPT ![p] = @ \ {b}]
           /\ UNCHANGED <<input, plan, pc, iter, jobs, device>>
  BY Zenon DEF Receive
<1>3. PICK s, e : s = plan[p].from[b] /\ e = expects[p] \ {b}
  OBVIOUS
<1>4. PICK message : message = Head(net[<<s, p>>])
  OBVIOUS
<1>. DEFINE part == [c \in CellsOf(p, In(b)) |->
                       IF c \in DOMAIN message THEN message[c] ELSE Junk]
<1>5. /\ net[<<s, p>>] # <<>> /\ net' = [net EXCEPT ![<<s, p>>] = Tail(net[<<s, p>>])]
      /\ host' = [host EXCEPT ![p][a] = Written(host[p][a], part)]
      /\ expects' = [expects EXCEPT ![p] = e]
      /\ UNCHANGED <<input, plan, pc, iter, jobs, device>>
  BY <1>1, <1>2, <1>3, <1>4
<1>6. PlanInv /\ TypeInv /\ Local(p) /\ NetInv /\ SamePlan
  BY <1>5 DEF EpsilodInv, LocalInv, SamePlan
<1>7. /\ k \in Nat /\ n \in Seq(JobSet) /\ e \in SUBSET Borders /\ a \in Arrays
      /\ pc[p] = "exchange" /\ 0 < k /\ k < input.iterations
      /\ b \in Neighbours(p, "from") /\ b \in Borders /\ a = Mat(k)
      /\ e \subseteq Neighbours(p, "from")
  <2>1. /\ k \in Nat /\ n \in Seq(JobSet) /\ e \in SUBSET Borders /\ a = Mat(k) /\ b \in Borders
    BY <1>1, <1>3, <1>6 DEF TypeInv
  <2>2. /\ expects[p] \subseteq Neighbours(p, "from") /\ pc[p] = "exchange"
        /\ 0 < k /\ k < input.iterations
    BY <1>1, <1>6 DEF Local, Placed
  <2>3. a \in Arrays
    BY <2>1, ArraysSwap
  <2>. QED
    BY <1>3, <2>1, <2>2, <2>3
<1>8. /\ s \in Procs(input)
      /\ \A o \in Neighbours(s, "to") \ {b} : plan[s].to[o] # p
  BY <1>3, <1>6, <1>7, Neighbouring
<1>9. PICK g, l : g = Got(p, b) /\ l = Sent(s) - g
  OBVIOUS
<1>10. /\ g = k - 1 /\ g \in Int /\ l \in Nat /\ net[<<s, p>>] = Messages(p, b, g, l)
       /\ g + 1 = k
  <2>1. g = k - 1
    BY <1>1, <1>7, <1>9 DEF Got, Sent
  <2>2. LinkInv(p, b, s)
    BY <1>3, <1>6, <1>7, <1>8 DEF NetInv
  <2>3. l \in Nat /\ net[<<s, p>>] = Messages(p, b, g, l)
    BY ONLY <1>9, <2>2, Zenon DEF LinkInv
  <2>. QED
    BY <1>7, <2>1, <2>3
<1>11. /\ 0 < l /\ l - 1 \in Nat /\ message = HaloOf(p, b, k)
       /\ Tail(net[<<s, p>>]) = Messages(p, b, k, l - 1)
  <2>1. /\ 0 < l /\ l - 1 \in Nat /\ Head(Messages(p, b, g, l)) = HaloOf(p, b, g + 1)
        /\ Tail(Messages(p, b, g, l)) = Messages(p, b, g + 1, l - 1)
    <3>1. Messages(p, b, g, l) # <<>> /\ g \in Int /\ l \in Nat
      BY <1>5, <1>10
    <3>. QED
      BY ONLY <3>1, NextMessage
  <2>. QED
    BY <1>4, <1>10, <2>1
<1>12. /\ DOMAIN part = CellsOf(p, In(b))
       /\ \A c \in CellsOf(p, In(b)) : part[c] = Expected(c, k)
  BY <1>11 DEF HaloOf
<1>13. CellsOf(p, In(b)) \subseteq CellsOf(p, All)
  BY <1>6, <1>7 DEF PlanInv, TilesFit
<1>. HIDE DEF part
<1>14. /\ DOMAIN host' = DOMAIN host /\ DOMAIN host'[p] = Arrays
       /\ \A q \in Procs(input) \ {p} : host'[q] = host[q]
       /\ \A x \in Arrays : DOMAIN host'[p][x] = CellsOf(p, All)
       /\ \A x \in Arrays \ {a} : host'[p][x] = host[p][x]
       /\ \A c \in CellsOf(p, In(b)) : host'[p][a][c] = Expected(c, k)
       /\ \A c \in CellsOf(p, All) \ CellsOf(p, In(b)) : host'[p][a][c] = host[p][a][c]
  <2>1. /\ p \in DOMAIN host /\ DOMAIN host[p] = Arrays /\ DOMAIN host = Procs(input)
        /\ \A x \in Arrays : DOMAIN host[p][x] = CellsOf(p, All)
    BY <1>6 DEF TypeInv, Local, Shaped
  <2>2. PICK w : w = host'
    OBVIOUS
  <2>3. /\ DOMAIN w = DOMAIN host /\ DOMAIN w[p] = DOMAIN host[p]
        /\ \A q \in DOMAIN host \ {p} : w[q] = host[q]
        /\ \A x \in DOMAIN host[p] : DOMAIN w[p][x] = DOMAIN host[p][x]
        /\ \A x \in DOMAIN host[p] \ {a} : w[p][x] = host[p][x]
        /\ \A c \in DOMAIN part : w[p][a][c] = part[c]
        /\ \A c \in DOMAIN host[p][a] \ DOMAIN part : w[p][a][c] = host[p][a][c]
    <3>1. /\ p \in DOMAIN host /\ a \in DOMAIN host[p] /\ DOMAIN part \subseteq DOMAIN host[p][a]
          /\ w = [host EXCEPT ![p][a] = Written(host[p][a], part)]
      BY <1>5, <1>7, <1>12, <1>13, <2>1, <2>2
    <3>. QED
      BY ONLY <3>1, WrittenTo
  <2>. QED
    BY <1>7, <1>12, <2>1, <2>2, <2>3
<1>15. /\ TypeInv'
       /\ pc'[p] = "exchange" /\ iter'[p] = k /\ jobs'[p] = n /\ expects'[p] = e
       /\ \A q \in Procs(input) \ {p} :
            pc'[q] = pc[q] /\ iter'[q] = iter[q] /\ jobs'[q] = jobs[q] /\ expects'[q] = expects[q]
  <2>1. GoesOn(p, "exchange", k, n, e)
    <3>1. /\ iter' = [iter EXCEPT ![p] = k] /\ jobs' = [jobs EXCEPT ![p] = n]
          /\ pc' = [pc EXCEPT ![p] = "exchange"]
      BY <1>1, <1>5, <1>6, <1>7 DEF TypeInv
    <3>2. DOMAIN net' = DOMAIN net /\ DOMAIN host' = DOMAIN host /\ DOMAIN device' = DOMAIN device
      BY <1>5, <1>14
    <3>. QED
      BY <1>5, <1>7, <3>1, <3>2 DEF GoesOn, Places
  <2>. QED
    BY ONLY <1>6, <2>1, p \in Procs(input), TypesKept
<1>16. Frame(p)
  BY <1>5, <1>6, <1>14, <1>15 DEF Frame, Same
<1>17. /\ Borders' = Borders /\ Procs(input)' = Procs(input) /\ Kernels(p)' = Kernels(p)
       /\ \A t : CellsOf(p, t)' = CellsOf(p, t)
       /\ Neighbours(p, "from")' = Neighbours(p, "from")
       /\ \A c : Used(p, c)' <=> Used(p, c)
       /\ \A c, j : Expected(c, j)' = Expected(c, j)
       /\ input' = input /\ device' = device
  BY <1>5, <1>6, PlanTerms DEF SamePlan
<1>18. \A op, t : Pending(p, op, t)' <=> Pending(p, op, t)
  BY <1>1, <1>15 DEF Pending
<1>19. Shaped(p)'
  BY <1>6, <1>14, <1>17 DEF Local, Shaped
<1>20. Placed(p)'
  BY <1>7, <1>15, <1>17 DEF Placed
<1>21. JobsInv(p)'
  BY <1>1, <1>6, <1>7, <1>15, <1>17 DEF Local, JobsInv, JobFits
<1>22. Clean(p)'
  <2>1. ASSUME NEW x \in Arrays, NEW c \in CellsOf(p, All), ~Inside(input, c)
        PROVE  host'[p][x][c] = 0
    <3>1. host[p][x][c] = 0
      BY <1>6, <2>1 DEF Local, Clean
    <3>2. Expected(c, k) = 0
      BY <2>1 DEF Expected
    <3>. QED
      BY <1>14, <3>1, <3>2
  <2>. QED
    BY <1>6, <1>17, <2>1 DEF Local, Clean
<1>23. Source(p)' /\ Computed(p)'
  BY <1>1, <1>6, <1>7, <1>15, <1>17, <1>18 DEF Local, Source, Right, Computed
<1>24. Received(p)'
  <2>1. ASSUME NEW x \in Borders \ e, NEW c \in CellsOf(p, In(x))
        PROVE  host'[p][Mat(k)][c] = Expected(c, k)
    <3>1. CASE c \in CellsOf(p, In(b))
      BY <1>7, <1>14, <3>1
    <3>2. CASE c \notin CellsOf(p, In(b))
      <4>1. x \in Borders \ expects[p] /\ c \in CellsOf(p, All)
        BY <1>3, <1>6, <2>1, <3>2 DEF PlanInv, TilesFit
      <4>2. host[p][Mat(k)][c] = Expected(c, k)
        BY <1>1, <1>6, <1>7, <2>1, <4>1 DEF Local, Received
      <4>. QED
        BY <1>7, <1>14, <3>2, <4>1, <4>2
    <3>. QED
      BY <3>1, <3>2
  <2>. QED
    BY <1>15, <1>17, <2>1 DEF Received
<1>25. Fetched(p)' /\ Moved(p)' /\ Brought(p)'
  BY <1>15 DEF Fetched, Moved, Brought
<1>26. \A q \in Procs(input) : Sent(q)' = Sent(q)
  BY <1>1, <1>7, <1>15 DEF Sent
<1>27. LinkInv(p, b, s)'
  <2>1. Got(p, b)' = k
    BY <1>3, <1>15, <1>7 DEF Got, Sent
  <2>2. Sent(s)' - k = l - 1
    BY <1>6, <1>7, <1>8, <1>9, <1>10, <1>26, Counts
  <2>3. net'[<<s, p>>] = Messages(p, b, k, l - 1)
    BY <1>5, <1>6, <1>8, <1>11 DEF TypeInv
  <2>4. Messages(p, b, k, l - 1)' = Messages(p, b, k, l - 1)
    <3>1. \A i : HaloOf(p, b, i)' = HaloOf(p, b, i)
      BY <1>17 DEF HaloOf
    <3>. QED
      BY <3>1 DEF Messages
  <2>. QED
    BY <1>11, <2>1, <2>2, <2>3, <2>4 DEF LinkInv
<1>28. ASSUME NEW r \in Procs(input), NEW x \in Neighbours(r, "from"), NEW q \in Procs(input),
              q = plan[r].from[x], ~(r = p /\ x = b), LinkInv(r, x, q)
       PROVE  LinkInv(r, x, q)'
  <2>1. net'[<<q, r>>] = net[<<q, r>>]
    <3>1. <<q, r>> # <<s, p>>
      <4>. SUFFICES ASSUME q = s, r = p PROVE FALSE
        OBVIOUS
      <4>1. x \in Neighbours(s, "to") /\ plan[s].to[x] = p
        BY <1>6, <1>28, Neighbouring
      <4>. QED
        BY <1>8, <1>28, <4>1
    <3>. QED
      BY <1>5, <1>6, <3>1 DEF TypeInv
  <2>2. Got(r, x)' = Got(r, x)
    <3>1. x \in expects'[r] <=> x \in expects[r]
      BY <1>3, <1>15, <1>28
    <3>. QED
      BY <1>26, <3>1 DEF Got
  <2>. QED
    BY <1>6, <1>26, <1>28, <2>1, <2>2, LinkStays
<1>29. NetInv'
  <2>1. \A r : plan'[r].from = plan[r].from /\ Neighbours(r, "from")' = Neighbours(r, "from")
    BY <1>5, <1>6, PlanTerms
  <2>. QED
    BY <1>3, <1>6, <1>17, <1>27, <1>28, <2>1 DEF NetInv
<1>. QED
  BY <1>15, <1>16, <1>19, <1>20, <1>21, <1>22, <1>23, <1>24, <1>25, <1>29 DEF Kept, Local
-----------------------------------------------------------------------------
(* Steps of the device.                                                    *)

\* The i-th job of p ends, and only matrices of p change.
JobStep(p, i) ==
  /\ i \in DOMAIN jobs[p] /\ jobs' = [jobs EXCEPT ![p] = RemoveAt(jobs[p], i)]
  /\ \A j \in 1 .. i - 1 : jobs[p][j].tile # jobs[p][i].tile
  /\ UNCHANGED <<input, plan, pc, iter, net, expects>>
  /\ DOMAIN host' = DOMAIN host /\ DOMAIN device' = DOMAIN device
  /\ \A q \in Procs(input) \ {p} : host'[q] = host[q] /\ device'[q] = device[q]

\* What does not depend on the job.
LEMMA JobEnds ==
  ASSUME EpsilodInv, NEW p \in Procs(input), NEW i, JobStep(p, i), NEW job, job = jobs[p][i]
  PROVE  /\ SamePlan /\ PlanInv /\ TypeInv /\ Local(p) /\ NetInv
         /\ Frame(p) /\ TypeInv' /\ JobsInv(p)' /\ Placed(p)' /\ NetInv'
         /\ pc'[p] = pc[p] /\ iter'[p] = iter[p] /\ expects'[p] = expects[p]
         /\ job \in JobSet /\ JobFits(p, job) /\ iter[p] \in Nat
         /\ \A op, t : Pending(p, op, t) =>
              Pending(p, op, t)' \/ (op = job.op /\ t = job.tile)
         /\ job.op # "kernel" => ~Pending(p, "kernel", job.tile)
<1>1. PICK k, n, e, m, place : /\ k = iter[p] /\ n = jobs[p] /\ e = expects[p]
                               /\ m = RemoveAt(jobs[p], i) /\ place = pc[p]
  OBVIOUS
<1>2. /\ i \in DOMAIN n /\ job = n[i] /\ jobs' = [jobs EXCEPT ![p] = m]
      /\ \A j \in 1 .. i - 1 : n[j].tile # job.tile
      /\ UNCHANGED <<input, plan, pc, iter, net, expects>>
      /\ DOMAIN host' = DOMAIN host /\ DOMAIN device' = DOMAIN device
      /\ \A q \in Procs(input) \ {p} : host'[q] = host[q] /\ device'[q] = device[q]
  BY <1>1 DEF JobStep
<1>3. SamePlan /\ PlanInv /\ TypeInv /\ Local(p) /\ NetInv
  BY <1>2 DEF SamePlan, EpsilodInv, LocalInv
<1>4. k \in Nat /\ n \in Seq(JobSet) /\ e \in SUBSET Borders /\ place \in Places
  BY <1>1, <1>3 DEF TypeInv
<1>5. /\ m \in Seq(JobSet)
      /\ \A j \in DOMAIN m :
           LET l == IF j < i THEN j ELSE j + 1
           IN j \in Int /\ l \in DOMAIN n /\ l # i /\ m[j] = n[l]
      /\ \A l \in DOMAIN n : l # i => \E j \in DOMAIN m : m[j] = n[l]
  <2>1. m = RemoveAt(n, i)
    BY <1>1
  <2>. QED
    BY ONLY <1>2, <1>4, <2>1, Removed
<1>6. /\ TypeInv'
      /\ pc'[p] = place /\ iter'[p] = k /\ jobs'[p] = m /\ expects'[p] = e
      /\ \A q \in Procs(input) \ {p} :
           pc'[q] = pc[q] /\ iter'[q] = iter[q] /\ jobs'[q] = jobs[q] /\ expects'[q] = expects[q]
  <2>1. GoesOn(p, place, k, m, e)
    <3>1. /\ iter' = [iter EXCEPT ![p] = k] /\ expects' = [expects EXCEPT ![p] = e]
          /\ pc' = [pc EXCEPT ![p] = place]
      BY <1>1, <1>2, <1>3 DEF TypeInv
    <3>2. DOMAIN net' = DOMAIN net
      BY <1>2
    <3>. QED
      BY <1>2, <1>4, <1>5, <3>1, <3>2 DEF GoesOn
  <2>. QED
    BY ONLY <1>3, <2>1, p \in Procs(input), TypesKept
<1>7. Frame(p)
  BY <1>2, <1>3, <1>6 DEF Frame, Same
<1>8. /\ Borders' = Borders /\ Procs(input)' = Procs(input) /\ Kernels(p)' = Kernels(p)
      /\ Fetches(p)' = Fetches(p)
      /\ Neighbours(p, "from")' = Neighbours(p, "from")
      /\ input' = input
  BY <1>3, PlanTerms DEF SamePlan
<1>9. Placed(p)'
  BY <1>1, <1>3, <1>6, <1>8 DEF Local, Placed
<1>10. job \in JobSet /\ JobFits(p, job) /\ i \in Int /\ DOMAIN n \subseteq Nat
  <2>1. job \in JobSet /\ i \in Int /\ DOMAIN n \subseteq Nat
    BY <1>2, <1>4
  <2>2. JobFits(p, job)
    BY <1>1, <1>2, <1>3 DEF Local, JobsInv
  <2>. QED
    BY <2>1, <2>2
<1>11. JobsInv(p)'
  <2>1. \A l \in DOMAIN n : JobFits(p, n[l])
    BY <1>1, <1>3 DEF Local, JobsInv
  <2>2. \A x : JobFits(p, x) => JobFits(p, x)'
    BY <1>1, <1>6, <1>8 DEF JobFits
  <2>3. \A j \in DOMAIN m : JobFits(p, m[j])'
    BY <1>5, <2>1, <2>2
  <2>4. \A x, y \in DOMAIN n : x < y /\ n[y].op = "kernel" => n[x].op = "kernel"
    BY <1>1, <1>3 DEF Local, JobsInv
  <2>5. ASSUME NEW x \in DOMAIN m, NEW y \in DOMAIN m, x < y, m[y].op = "kernel"
        PROVE  m[x].op = "kernel"
    <3>. DEFINE l(j) == IF j < i THEN j ELSE j + 1
    <3>1. l(x) \in DOMAIN n /\ l(y) \in DOMAIN n /\ m[x] = n[l(x)] /\ m[y] = n[l(y)]
      BY <1>5
    <3>2. l(x) < l(y)
      BY <1>5, <1>10, <2>5
    <3>. HIDE DEF l
    <3>. QED
      BY <2>4, <2>5, <3>1, <3>2
  <2>. QED
    BY <1>6, <2>3, <2>5 DEF JobsInv
<1>12. ASSUME NEW op, NEW t, Pending(p, op, t)
       PROVE  Pending(p, op, t)' \/ (op = job.op /\ t = job.tile)
  <2>1. PICK l \in DOMAIN n : n[l].op = op /\ n[l].tile = t
    BY <1>1, <1>12 DEF Pending
  <2>2. CASE l = i
    BY <1>2, <2>1, <2>2
  <2>3. CASE l # i
    <3>1. PICK j \in DOMAIN m : m[j] = n[l]
      BY <1>5, <2>3
    <3>. QED
      BY <1>6, <2>1, <3>1 DEF Pending
  <2>. QED
    BY <2>2, <2>3
<1>13. ASSUME job.op # "kernel" PROVE ~Pending(p, "kernel", job.tile)
  <2>. SUFFICES ASSUME NEW l \in DOMAIN n, n[l].op = "kernel", n[l].tile = job.tile
                PROVE  FALSE
    BY <1>1 DEF Pending
  <2>1. ~(i < l)
    BY <1>1, <1>2, <1>3, <1>13 DEF Local, JobsInv
  <2>2. l # i
    BY <1>2, <1>13
  <2>3. l \in 1 .. i - 1
    <3>1. Len(n) \in Nat /\ DOMAIN n = 1 .. Len(n)
      BY <1>4
    <3>. QED
      BY <1>10, <2>1, <2>2, <3>1
  <2>. QED
    BY <1>2, <2>3
<1>14. NetInv'
  <2>1. ASSUME NEW q \in Procs(input) PROVE Sent(q)' = Sent(q) /\ expects'[q] = expects[q]
    BY <1>1, <1>6, <2>1 DEF Sent
  <2>. QED
    BY <1>2, <1>3, <2>1, NetStays
<1>. QED
  BY <1>1, <1>3, <1>4, <1>6, <1>7, <1>9, <1>10, <1>11, <1>12, <1>13, <1>14

\* A matrix of p has new values v in the cells of a tile, in array a.
Rewrites(new, old, p, a, t, v) ==
  /\ DOMAIN new[p] = Arrays
  /\ \A x \in Arrays : DOMAIN new[p][x] = CellsOf(p, All)
  /\ \A x \in Arrays \ {a} : new[p][x] = old[p][x]
  /\ \A c \in CellsOf(p, t) : new[p][a][c] = v[c]
  /\ \A c \in CellsOf(p, All) \ CellsOf(p, t) : new[p][a][c] = old[p][a][c]

\* A written part is one.
LEMMA RewritesPart ==
  ASSUME NEW p, NEW m, p \in DOMAIN m, DOMAIN m[p] = Arrays,
         \A x \in Arrays : DOMAIN m[p][x] = CellsOf(p, All),
         NEW a \in Arrays, NEW t, CellsOf(p, t) \subseteq CellsOf(p, All), NEW v, NEW w,
         DOMAIN v = CellsOf(p, t), w = [m EXCEPT ![p][a] = Written(m[p][a], v)]
  PROVE  /\ Rewrites(w, m, p, a, t, v) /\ DOMAIN w = DOMAIN m
         /\ \A q \in DOMAIN m \ {p} : w[q] = m[q]
<1>1. /\ DOMAIN w = DOMAIN m /\ DOMAIN w[p] = DOMAIN m[p]
      /\ \A q \in DOMAIN m \ {p} : w[q] = m[q]
      /\ \A x \in DOMAIN m[p] : DOMAIN w[p][x] = DOMAIN m[p][x]
      /\ \A x \in DOMAIN m[p] \ {a} : w[p][x] = m[p][x]
      /\ \A c \in DOMAIN v : w[p][a][c] = v[c]
      /\ \A c \in DOMAIN m[p][a] \ DOMAIN v : w[p][a][c] = m[p][a][c]
  <2>1. a \in DOMAIN m[p] /\ DOMAIN v \subseteq DOMAIN m[p][a]
    OBVIOUS
  <2>. QED
    BY ONLY <2>1, p \in DOMAIN m, w = [m EXCEPT ![p][a] = Written(m[p][a], v)], WrittenTo
<1>. QED
  BY <1>1 DEF Rewrites

\* A kernel writes what the iteration computes.
KernelRuns(p, i, job, a, v, w) ==
  /\ JobStep(p, i) /\ job = jobs[p][i] /\ job.op = "kernel" /\ a = Mat(iter[p])
  /\ host' = host /\ v = [c \in CellsOf(p, job.tile) |-> Updated(p, c, iter[p])]
  /\ w = device' /\ w = [device EXCEPT ![p][a] = Written(device[p][a], v)]

\* It keeps what is to be kept.
LEMMA KernelKeeps ==
  ASSUME EpsilodInv, NEW p \in Procs(input), NEW i, NEW job, NEW a, NEW v, NEW w,
         KernelRuns(p, i, job, a, v, w)
  PROVE  Kept(p)
<1>0. /\ JobStep(p, i) /\ job = jobs[p][i] /\ job.op = "kernel" /\ a = Mat(iter[p])
      /\ host' = host /\ v = [c \in CellsOf(p, job.tile) |-> Updated(p, c, iter[p])]
      /\ w = device' /\ w = [device EXCEPT ![p][a] = Written(device[p][a], v)]
  BY DEF KernelRuns
<1>1. PICK k, t, place : k = iter[p] /\ t = job.tile /\ place = pc[p]
  OBVIOUS
<1>2. /\ SamePlan /\ PlanInv /\ TypeInv /\ Local(p) /\ NetInv
      /\ Frame(p) /\ TypeInv' /\ JobsInv(p)' /\ Placed(p)' /\ NetInv'
      /\ pc'[p] = place /\ iter'[p] = k /\ expects'[p] = expects[p]
      /\ job \in JobSet /\ JobFits(p, job) /\ k \in Nat
      /\ \A op, u : Pending(p, op, u) =>
           Pending(p, op, u)' \/ (op = "kernel" /\ u = t)
  BY <1>0, <1>1, JobEnds
<1>3. /\ t \in Kernels(p) /\ place \in {"send", "exchange", "halo", "last"} /\ 0 < k
  BY <1>0, <1>1, <1>2 DEF JobFits, Local, Placed
<1>4. /\ a \in Arrays /\ a = Mat(k) /\ Mat(k - 1) \in Arrays /\ Mat(k - 1) # a /\ k - 1 \in Nat
  BY <1>0, <1>1, <1>2, <1>3, ArraysSwap
<1>5. /\ p \in DOMAIN device /\ DOMAIN device[p] = Arrays
      /\ \A x \in Arrays : DOMAIN device[p][x] = CellsOf(p, All)
      /\ DOMAIN host[p] = Arrays
      /\ \A x \in Arrays : DOMAIN host[p][x] = CellsOf(p, All)
  BY <1>0, <1>2 DEF TypeInv, Local, Shaped
<1>6. \A u \in Kernels(p) : \A c \in CellsOf(p, u) :
        /\ c \in CellsOf(p, All) /\ Inside(input, c)
        /\ \A b \in Borders : c \notin CellsOf(p, In(b))
        /\ \A o \in input.stencil : Readable(p, Around(c, o))
  BY <1>0, <1>2, ComputedIs
<1>7. \A c \in CellsOf(p, t) : v[c] = k
  <2>1. ASSUME NEW c \in CellsOf(p, t), NEW o \in input.stencil
        PROVE  device[p][Mat(k - 1)][Around(c, o)] = Expected(Around(c, o), k - 1)
    <3>1. PICK d : d = Around(c, o)
      OBVIOUS
    <3>2. d \in CellsOf(p, All) /\ (Inside(input, d) => Used(p, d))
      BY <1>0, <1>3, <1>6, <3>1 DEF Readable
    <3>3. CASE Used(p, d)
      BY <1>0, <1>1, <1>2, <1>3, <3>1, <3>2, <3>3 DEF Local, Source, Right
    <3>4. CASE ~Inside(input, d)
      BY <1>0, <1>2, <1>4, <3>1, <3>2, <3>4 DEF Local, Clean, Expected
    <3>. QED
      BY <1>0, <3>2, <3>3, <3>4
  <2>. QED
    BY <1>0, <1>1, <2>1 DEF Updated
<1>8. Rewrites(w, device, p, a, t, v)
  <2>1. CellsOf(p, t) \subseteq CellsOf(p, All) /\ DOMAIN v = CellsOf(p, t)
    BY <1>0, <1>1, <1>3, <1>6
  <2>. QED
    BY ONLY <1>4, <1>5, <2>1, <1>0,
       RewritesPart
<1>9. /\ DOMAIN device'[p] = Arrays
      /\ \A x \in Arrays : DOMAIN device'[p][x] = CellsOf(p, All)
      /\ \A x \in Arrays \ {a} : device'[p][x] = device[p][x]
      /\ \A c \in CellsOf(p, t) : device'[p][a][c] = k
      /\ \A c \in CellsOf(p, All) \ CellsOf(p, t) : device'[p][a][c] = device[p][a][c]
  <2>1. w = device'
    BY <1>0
  <2>. QED
    BY <1>7, <1>8, <2>1 DEF Rewrites
<1>10. /\ Borders' = Borders /\ Kernels(p)' = Kernels(p) /\ Fetches(p)' = Fetches(p)
       /\ \A u : CellsOf(p, u)' = CellsOf(p, u)
       /\ \A c : Used(p, c)' <=> Used(p, c)
       /\ \A c, j : Expected(c, j)' = Expected(c, j)
       /\ input' = input /\ host' = host
  BY <1>0, <1>2, PlanTerms DEF SamePlan
<1>11. Shaped(p)'
  BY <1>5, <1>9, <1>10 DEF Shaped
<1>12. Clean(p)'
  <2>1. ASSUME NEW x \in Arrays, NEW c \in CellsOf(p, All)
        PROVE  device'[p][x][c] # Junk /\ (~Inside(input, c) => device'[p][x][c] = 0)
    <3>1. CASE x = a /\ c \in CellsOf(p, t)
      <4>1. device'[p][x][c] = k /\ Inside(input, c)
        BY <1>3, <1>6, <1>9, <3>1
      <4>2. k # Junk
        BY <1>2 DEF Junk
      <4>. QED
        BY <4>1, <4>2
    <3>2. CASE ~(x = a /\ c \in CellsOf(p, t))
      <4>1. device'[p][x][c] = device[p][x][c]
        BY <1>9, <2>1, <3>2
      <4>. QED
        BY <1>2, <4>1 DEF Local, Clean
    <3>. QED
      BY <3>1, <3>2
  <2>. QED
    BY <1>2, <1>10, <2>1 DEF Local, Clean
<1>13. Source(p)'
  <2>1. Right(p, device[p][Mat(k - 1)], k - 1)
    BY <1>1, <1>2, <1>3 DEF Local, Source
  <2>2. device'[p][Mat(k - 1)] = device[p][Mat(k - 1)]
    BY <1>4, <1>9
  <2>. QED
    BY <1>2, <1>3, <1>10, <2>1, <2>2 DEF Source, Right
<1>14. Computed(p)'
  <2>1. ASSUME NEW u \in Kernels(p), ~Pending(p, "kernel", u)', NEW c \in CellsOf(p, u)
        PROVE  device'[p][a][c] = k
    <3>1. CASE c \in CellsOf(p, t)
      BY <1>9, <3>1
    <3>2. CASE c \notin CellsOf(p, t)
      <4>1. ~Pending(p, "kernel", u)
        BY <1>2, <2>1, <3>2
      <4>2. device[p][a][c] = k
        BY <1>1, <1>2, <1>3, <1>4, <2>1, <4>1 DEF Local, Computed
      <4>. QED
        BY <1>6, <1>9, <2>1, <3>2, <4>2
    <3>. QED
      BY <3>1, <3>2
  <2>. QED
    BY <1>2, <1>4, <1>10, <2>1 DEF Computed
<1>15. Fetched(p)' /\ Received(p)'
  <2>1. \A u : Pending(p, "from", u) => Pending(p, "from", u)'
    BY <1>2
  <2>. QED
    BY <1>1, <1>2, <1>10, <2>1 DEF Local, Fetched, Received
<1>16. Moved(p)'
  <2>1. ASSUME place = "halo", NEW b \in Borders, ~Pending(p, "to", In(b))',
               NEW c \in CellsOf(p, In(b))
        PROVE  device'[p][a][c] = Expected(c, k)
    <3>1. ~Pending(p, "to", In(b))
      BY <1>2, <2>1
    <3>2. device[p][a][c] = Expected(c, k)
      BY <1>1, <1>2, <1>4, <2>1, <3>1 DEF Local, Moved
    <3>3. c \in CellsOf(p, All) /\ c \notin CellsOf(p, t)
      BY <1>2, <1>3, <1>6 DEF PlanInv, TilesFit
    <3>. QED
      BY <1>9, <3>2, <3>3
  <2>. QED
    BY <1>2, <1>4, <1>10, <2>1 DEF Moved
<1>17. Brought(p)'
  BY <1>2, <1>3 DEF Brought
<1>. QED
  BY <1>2, <1>11, <1>12, <1>13, <1>14, <1>15, <1>16, <1>17 DEF Kept, Local

\* A border, or the whole matrix, is brought to the host.
FetchRuns(p, i, job, a, v, w) ==
  /\ JobStep(p, i) /\ job = jobs[p][i] /\ job.op = "from" /\ a = Mat(iter[p])
  /\ device' = device /\ v = [c \in CellsOf(p, job.tile) |-> device[p][a][c]]
  /\ w = host' /\ w = [host EXCEPT ![p][a] = Written(host[p][a], v)]

\* It keeps what is to be kept.
LEMMA FetchKeeps ==
  ASSUME EpsilodInv, NEW p \in Procs(input), NEW i, NEW job, NEW a, NEW v, NEW w,
         FetchRuns(p, i, job, a, v, w)
  PROVE  Kept(p)
<1>0. /\ JobStep(p, i) /\ job = jobs[p][i] /\ job.op = "from" /\ a = Mat(iter[p])
      /\ device' = device /\ v = [c \in CellsOf(p, job.tile) |-> device[p][a][c]]
      /\ w = host' /\ w = [host EXCEPT ![p][a] = Written(host[p][a], v)]
  BY DEF FetchRuns
<1>1. PICK k, t, place : k = iter[p] /\ t = job.tile /\ place = pc[p]
  OBVIOUS
<1>2. /\ SamePlan /\ PlanInv /\ TypeInv /\ Local(p) /\ NetInv
      /\ Frame(p) /\ TypeInv' /\ JobsInv(p)' /\ Placed(p)' /\ NetInv'
      /\ pc'[p] = place /\ iter'[p] = k /\ expects'[p] = expects[p]
      /\ job \in JobSet /\ JobFits(p, job) /\ k \in Nat
      /\ \A op, u : Pending(p, op, u) =>
           Pending(p, op, u)' \/ (op = "from" /\ u = t)
      /\ ~Pending(p, "kernel", t)
  BY <1>0, <1>1, JobEnds
<1>3. \/ place = "send" /\ t \in Fetches(p)
      \/ place = "output" /\ t = All
  BY <1>0, <1>1, <1>2 DEF JobFits
<1>4. a \in Arrays /\ a = Mat(k)
  BY <1>0, <1>1, <1>2, ArraysSwap
<1>5. /\ p \in DOMAIN host /\ DOMAIN host[p] = Arrays
      /\ \A x \in Arrays : DOMAIN host[p][x] = CellsOf(p, All)
      /\ DOMAIN device[p] = Arrays
      /\ \A x \in Arrays : DOMAIN device[p][x] = CellsOf(p, All)
  BY <1>0, <1>2 DEF TypeInv, Local, Shaped
<1>6. /\ Fetches(p) \subseteq Kernels(p)
      /\ \A u \in Kernels(p) : CellsOf(p, u) \subseteq CellsOf(p, All)
  BY <1>0, <1>2 DEF PlanInv, TilesFit
<1>7. CellsOf(p, t) \subseteq CellsOf(p, All) /\ DOMAIN v = CellsOf(p, t)
  BY <1>0, <1>1, <1>3, <1>6
<1>8. Rewrites(w, host, p, a, t, v)
  BY ONLY <1>4, <1>5, <1>7, <1>0,
     RewritesPart
<1>9. /\ DOMAIN host'[p] = Arrays
      /\ \A x \in Arrays : DOMAIN host'[p][x] = CellsOf(p, All)
      /\ \A x \in Arrays \ {a} : host'[p][x] = host[p][x]
      /\ \A c \in CellsOf(p, t) : host'[p][a][c] = device[p][a][c]
      /\ \A c \in CellsOf(p, All) \ CellsOf(p, t) : host'[p][a][c] = host[p][a][c]
  <2>1. w = host' /\ \A c \in CellsOf(p, t) : v[c] = device[p][a][c]
    BY <1>0, <1>1
  <2>. QED
    BY <1>8, <2>1 DEF Rewrites
<1>10. /\ Borders' = Borders /\ Kernels(p)' = Kernels(p) /\ Fetches(p)' = Fetches(p)
       /\ \A u : CellsOf(p, u)' = CellsOf(p, u)
       /\ \A c : Used(p, c)' <=> Used(p, c)
       /\ \A c, j : Expected(c, j)' = Expected(c, j)
       /\ input' = input /\ device' = device
  BY <1>0, <1>2, PlanTerms DEF SamePlan
<1>11. Shaped(p)'
  BY <1>5, <1>9, <1>10 DEF Shaped
<1>12. Clean(p)'
  <2>1. ASSUME NEW x \in Arrays, NEW c \in CellsOf(p, All), ~Inside(input, c)
        PROVE  host'[p][x][c] = 0
    <3>1. host[p][x][c] = 0 /\ device[p][x][c] = 0
      BY <1>2, <2>1 DEF Local, Clean
    <3>. QED
      BY <1>9, <3>1
  <2>. QED
    BY <1>2, <1>10, <2>1 DEF Local, Clean
<1>13. Source(p)' /\ Moved(p)'
  <2>1. \A u : Pending(p, "to", u) => Pending(p, "to", u)'
    BY <1>2
  <2>. QED
    BY <1>1, <1>2, <1>10, <2>1 DEF Local, Source, Right, Moved
<1>14. Computed(p)'
  <2>1. \A u : Pending(p, "kernel", u) => Pending(p, "kernel", u)'
    BY <1>2
  <2>. QED
    BY <1>1, <1>2, <1>10, <2>1 DEF Local, Computed
<1>15. Fetched(p)'
  <2>1. ASSUME place = "send", NEW u \in Fetches(p), ~Pending(p, "from", u)',
               NEW c \in CellsOf(p, u)
        PROVE  host'[p][a][c] = k
    <3>1. CASE c \in CellsOf(p, t)
      <4>1. t \in Kernels(p)
        BY <1>3, <1>6, <2>1
      <4>2. device[p][a][c] = k
        BY <1>1, <1>2, <1>4, <2>1, <3>1, <4>1 DEF Local, Computed
      <4>. QED
        BY <1>9, <3>1, <4>2
    <3>2. CASE c \notin CellsOf(p, t)
      <4>1. ~Pending(p, "from", u)
        BY <1>2, <2>1, <3>2
      <4>2. host[p][a][c] = k
        BY <1>1, <1>2, <1>4, <2>1, <4>1 DEF Local, Fetched
      <4>. QED
        BY <1>6, <1>9, <2>1, <3>2, <4>2
    <3>. QED
      BY <3>1, <3>2
  <2>. QED
    BY <1>2, <1>4, <1>10, <2>1 DEF Fetched
<1>16. Received(p)'
  BY <1>2, <1>3 DEF Received
<1>17. Brought(p)'
  <2>1. ASSUME place \in {"output", "done"}, NEW c \in CellsOf(p, All)
        PROVE  host'[p][a][c] = device[p][a][c]
    BY <1>3, <1>9, <2>1
  <2>. QED
    BY <1>2, <1>4, <1>10, <2>1 DEF Brought
<1>. QED
  BY <1>2, <1>11, <1>12, <1>13, <1>14, <1>15, <1>16, <1>17 DEF Kept, Local

\* A halo is put in the device.
HaloRuns(p, i, job, a, v, w) ==
  /\ JobStep(p, i) /\ job = jobs[p][i] /\ job.op = "to" /\ a = Mat(iter[p])
  /\ host' = host /\ v = [c \in CellsOf(p, job.tile) |-> host[p][a][c]]
  /\ w = device' /\ w = [device EXCEPT ![p][a] = Written(device[p][a], v)]

\* It keeps what is to be kept.
LEMMA HaloKeeps ==
  ASSUME EpsilodInv, NEW p \in Procs(input), NEW i, NEW job, NEW a, NEW v, NEW w,
         HaloRuns(p, i, job, a, v, w)
  PROVE  Kept(p)
<1>0. /\ JobStep(p, i) /\ job = jobs[p][i] /\ job.op = "to" /\ a = Mat(iter[p])
      /\ host' = host /\ v = [c \in CellsOf(p, job.tile) |-> host[p][a][c]]
      /\ w = device' /\ w = [device EXCEPT ![p][a] = Written(device[p][a], v)]
  BY DEF HaloRuns
<1>1. PICK k, t : k = iter[p] /\ t = job.tile
  OBVIOUS
<1>2. /\ SamePlan /\ PlanInv /\ TypeInv /\ Local(p) /\ NetInv
      /\ Frame(p) /\ TypeInv' /\ JobsInv(p)' /\ Placed(p)' /\ NetInv'
      /\ pc'[p] = pc[p] /\ iter'[p] = k /\ expects'[p] = expects[p]
      /\ job \in JobSet /\ JobFits(p, job) /\ k \in Nat
      /\ \A op, u : Pending(p, op, u) =>
           Pending(p, op, u)' \/ (op = "to" /\ u = t)
  BY <1>0, <1>1, JobEnds
<1>3. PICK b \in Borders : t = In(b)
  BY <1>0, <1>1, <1>2 DEF JobFits
<1>4. /\ pc[p] = "halo" /\ 0 < k /\ expects[p] = {}
  BY <1>0, <1>1, <1>2 DEF JobFits, Local, Placed
<1>5. /\ a \in Arrays /\ a = Mat(k) /\ Mat(k - 1) \in Arrays /\ Mat(k - 1) # a /\ k - 1 \in Nat
  BY <1>0, <1>1, <1>2, <1>4, ArraysSwap
<1>6. /\ p \in DOMAIN device /\ DOMAIN device[p] = Arrays
      /\ \A x \in Arrays : DOMAIN device[p][x] = CellsOf(p, All)
      /\ DOMAIN host[p] = Arrays
      /\ \A x \in Arrays : DOMAIN host[p][x] = CellsOf(p, All)
  BY <1>0, <1>2 DEF TypeInv, Local, Shaped
<1>7. \A c \in CellsOf(p, t) : v[c] = Expected(c, k)
  BY <1>0, <1>1, <1>2, <1>3, <1>4, <1>5 DEF Local, Received
<1>8. Rewrites(w, device, p, a, t, v)
  <2>1. CellsOf(p, t) \subseteq CellsOf(p, All) /\ DOMAIN v = CellsOf(p, t)
    BY <1>0, <1>1, <1>2, <1>3 DEF PlanInv, TilesFit
  <2>. QED
    BY ONLY <1>5, <1>6, <2>1, <1>0,
       RewritesPart
<1>9. /\ DOMAIN device'[p] = Arrays
      /\ \A x \in Arrays : DOMAIN device'[p][x] = CellsOf(p, All)
      /\ \A x \in Arrays \ {a} : device'[p][x] = device[p][x]
      /\ \A c \in CellsOf(p, t) : device'[p][a][c] = Expected(c, k)
      /\ \A c \in CellsOf(p, All) \ CellsOf(p, t) : device'[p][a][c] = device[p][a][c]
  <2>1. w = device'
    BY <1>0
  <2>. QED
    BY <1>7, <1>8, <2>1 DEF Rewrites
<1>10. /\ Borders' = Borders /\ Kernels(p)' = Kernels(p)
       /\ \A u : CellsOf(p, u)' = CellsOf(p, u)
       /\ \A c : Used(p, c)' <=> Used(p, c)
       /\ \A c, j : Expected(c, j)' = Expected(c, j)
       /\ input' = input /\ host' = host
  BY <1>0, <1>2, PlanTerms DEF SamePlan
<1>11. Shaped(p)'
  BY <1>6, <1>9, <1>10 DEF Shaped
<1>12. Clean(p)'
  <2>1. ASSUME NEW x \in Arrays, NEW c \in CellsOf(p, All)
        PROVE  device'[p][x][c] # Junk /\ (~Inside(input, c) => device'[p][x][c] = 0)
    <3>1. CASE x = a /\ c \in CellsOf(p, t)
      <4>1. device'[p][x][c] = Expected(c, k)
        BY <1>9, <3>1
      <4>2. Expected(c, k) # Junk /\ (~Inside(input, c) => Expected(c, k) = 0)
        BY <1>2 DEF Junk, Expected
      <4>. QED
        BY <4>1, <4>2
    <3>2. CASE ~(x = a /\ c \in CellsOf(p, t))
      <4>1. device'[p][x][c] = device[p][x][c]
        BY <1>9, <2>1, <3>2
      <4>. QED
        BY <1>2, <4>1 DEF Local, Clean
    <3>. QED
      BY <3>1, <3>2
  <2>. QED
    BY <1>2, <1>10, <2>1 DEF Local, Clean
<1>13. Source(p)'
  <2>1. Right(p, device[p][Mat(k - 1)], k - 1)
    BY <1>1, <1>2, <1>4 DEF Local, Source
  <2>2. device'[p][Mat(k - 1)] = device[p][Mat(k - 1)]
    BY <1>5, <1>9
  <2>. QED
    BY <1>2, <1>4, <1>10, <2>1, <2>2 DEF Source, Right
<1>14. Computed(p)'
  <2>1. ASSUME NEW u \in Kernels(p), ~Pending(p, "kernel", u)', NEW c \in CellsOf(p, u)
        PROVE  device'[p][a][c] = k
    <3>1. c \in CellsOf(p, All) /\ c \notin CellsOf(p, t)
      BY <1>2, <1>3, <2>1, ComputedIs
    <3>2. ~Pending(p, "kernel", u)
      BY <1>2, <2>1
    <3>3. device[p][a][c] = k
      BY <1>1, <1>2, <1>4, <1>5, <2>1, <3>2 DEF Local, Computed
    <3>. QED
      BY <1>9, <3>1, <3>3
  <2>. QED
    BY <1>2, <1>5, <1>10, <2>1 DEF Computed
<1>15. Received(p)'
  BY <1>1, <1>2, <1>10 DEF Local, Received
<1>16. Moved(p)'
  <2>1. ASSUME NEW o \in Borders, ~Pending(p, "to", In(o))', NEW c \in CellsOf(p, In(o))
        PROVE  device'[p][a][c] = Expected(c, k)
    <3>1. CASE c \in CellsOf(p, t)
      BY <1>9, <3>1
    <3>2. CASE c \notin CellsOf(p, t)
      <4>1. ~Pending(p, "to", In(o))
        BY <1>2, <2>1, <3>2
      <4>2. device[p][a][c] = Expected(c, k)
        BY <1>1, <1>2, <1>4, <1>5, <2>1, <4>1 DEF Local, Moved
      <4>3. c \in CellsOf(p, All)
        BY <1>2, <2>1 DEF PlanInv, TilesFit
      <4>. QED
        BY <1>9, <3>2, <4>2, <4>3
    <3>. QED
      BY <3>1, <3>2
  <2>. QED
    BY <1>2, <1>5, <1>10, <2>1 DEF Moved
<1>17. Fetched(p)' /\ Brought(p)'
  BY <1>2, <1>4 DEF Fetched, Brought
<1>. QED
  BY <1>2, <1>11, <1>12, <1>13, <1>14, <1>15, <1>16, <1>17 DEF Kept, Local

\* A job ends.
LEMMA RunJobKeeps ==
  ASSUME EpsilodInv, NEW p \in Procs(input), RunJob(p)
  PROVE  Kept(p)
<1>1. PICK i \in DOMAIN jobs[p] :
        LET job == jobs[p][i]
            a == Mat(job.iter)
            cells == CellsOf(p, job.tile)
        IN /\ \A j \in 1 .. i - 1 : jobs[p][j].tile # job.tile
           /\ jobs' = [jobs EXCEPT ![p] = RemoveAt(@, i)]
           /\ \/ /\ job.op = "kernel"
                 /\ device' = [device EXCEPT ![p][a] =
                                 Written(@, [c \in cells |-> Updated(p, c, job.iter)])]
                 /\ UNCHANGED host
              \/ /\ job.op = "from"
                 /\ host' = [host EXCEPT ![p][a] =
                               Written(@, [c \in cells |-> device[p][a][c]])]
                 /\ UNCHANGED device
              \/ /\ job.op = "to"
                 /\ device' = [device EXCEPT ![p][a] =
                                 Written(@, [c \in cells |-> host[p][a][c]])]
                 /\ UNCHANGED host
           /\ UNCHANGED <<input, plan, pc, iter, net, expects>>
  BY Zenon DEF RunJob
<1>2. PICK job, a : job = jobs[p][i] /\ a = Mat(iter[p])
  OBVIOUS
<1>3. job.iter = iter[p] /\ p \in DOMAIN host /\ p \in DOMAIN device /\ p \in DOMAIN jobs
      /\ DOMAIN host = Procs(input) /\ DOMAIN device = Procs(input)
  BY <1>2 DEF EpsilodInv, LocalInv, Local, JobsInv, JobFits, TypeInv
<1>4. PICK x, y, z : /\ x = [c \in CellsOf(p, job.tile) |-> Updated(p, c, iter[p])]
                     /\ y = [c \in CellsOf(p, job.tile) |-> device[p][a][c]]
                     /\ z = [c \in CellsOf(p, job.tile) |-> host[p][a][c]]
  OBVIOUS
<1>5. /\ \A j \in 1 .. i - 1 : jobs[p][j].tile # job.tile
      /\ jobs' = [jobs EXCEPT ![p] = RemoveAt(jobs[p], i)]
      /\ \/ /\ job.op = "kernel" /\ host' = host
            /\ device' = [device EXCEPT ![p][a] = Written(device[p][a], x)]
         \/ /\ job.op = "from" /\ device' = device
            /\ host' = [host EXCEPT ![p][a] = Written(host[p][a], y)]
         \/ /\ job.op = "to" /\ host' = host
            /\ device' = [device EXCEPT ![p][a] = Written(device[p][a], z)]
      /\ UNCHANGED <<input, plan, pc, iter, net, expects>>
  BY <1>1, <1>2, <1>3, <1>4
<1>6. PICK w, u : w = device' /\ u = host'
  OBVIOUS
<1>7. JobStep(p, i)
  <2>1. /\ DOMAIN host' = DOMAIN host /\ DOMAIN device' = DOMAIN device
        /\ \A q \in Procs(input) \ {p} : host'[q] = host[q] /\ device'[q] = device[q]
    BY <1>3, <1>5
  <2>. QED
    BY <1>2, <1>5, <2>1 DEF JobStep
<1>8. CASE job.op = "kernel"
  <2>1. host' = host /\ w = [device EXCEPT ![p][a] = Written(device[p][a], x)]
    BY <1>5, <1>6, <1>8
  <2>2. KernelRuns(p, i, job, a, x, w)
    BY <1>2, <1>4, <1>6, <1>7, <1>8, <2>1 DEF KernelRuns
  <2>. QED
    BY ONLY EpsilodInv, p \in Procs(input), <2>2, KernelKeeps
<1>9. CASE job.op = "from"
  <2>1. device' = device /\ u = [host EXCEPT ![p][a] = Written(host[p][a], y)]
    BY <1>5, <1>6, <1>9
  <2>2. FetchRuns(p, i, job, a, y, u)
    BY <1>2, <1>4, <1>6, <1>7, <1>9, <2>1 DEF FetchRuns
  <2>. QED
    BY ONLY EpsilodInv, p \in Procs(input), <2>2, FetchKeeps
<1>10. CASE job.op = "to"
  <2>1. host' = host /\ w = [device EXCEPT ![p][a] = Written(device[p][a], z)]
    BY <1>5, <1>6, <1>10
  <2>2. HaloRuns(p, i, job, a, z, w)
    BY <1>2, <1>4, <1>6, <1>7, <1>10, <2>1 DEF HaloRuns
  <2>. QED
    BY ONLY EpsilodInv, p \in Procs(input), <2>2, HaloKeeps
<1>. QED
  BY <1>5, <1>8, <1>9, <1>10
-----------------------------------------------------------------------------
(* The invariant holds.                                                    *)

\* At the start.
LEMMA InvAtStart ==
  ASSUME \A in \in Inputs : PlanFits(in), Init
  PROVE  EpsilodInv
<1>1. PlanInv
  BY PlanFitsAtStart
<1>2. /\ pc = [p \in Procs(input) |-> "compute"] /\ iter = [p \in Procs(input) |-> 0]
      /\ jobs = [p \in Procs(input) |-> <<>>]
      /\ host = [p \in Procs(input) |->
                   [a \in Arrays |-> [c \in CellsOf(p, All) |-> 0]]]
      /\ device = host
      /\ net = [link \in Procs(input) \X Procs(input) |-> <<>>]
      /\ expects = [p \in Procs(input) |-> {}]
  BY DEF Init
<1>3. TypeInv
  <2>1. <<>> \in Seq(JobSet)
    <3>. DEFINE E == JobSet
    <3>. HIDE DEF E
    <3>1. <<>> \in Seq(E)
      OBVIOUS
    <3>. QED
      BY <3>1 DEF E
  <2>2. jobs \in [Procs(input) -> Seq(JobSet)]
    <3>. DEFINE S == Seq(JobSet)
    <3>1. <<>> \in S
      BY <2>1
    <3>. HIDE DEF S
    <3>2. jobs \in [Procs(input) -> S]
      BY <1>2, <3>1
    <3>. QED
      BY <3>2 DEF S
  <2>. QED
    BY <1>2, <2>2 DEF TypeInv, Places
<1>4. ASSUME NEW p \in Procs(input) PROVE Local(p)
  <2>1. /\ pc[p] = "compute" /\ iter[p] = 0 /\ jobs[p] = <<>> /\ expects[p] = {}
        /\ host[p] = [a \in Arrays |-> [c \in CellsOf(p, All) |-> 0]]
        /\ device[p] = host[p]
    BY <1>2
  <2>2. Shaped(p) /\ \A a \in Arrays, c \in CellsOf(p, All) : host[p][a][c] = 0 /\ device[p][a][c] = 0
    BY <2>1 DEF Shaped
  <2>3. Placed(p)
    BY <1>1, <2>1 DEF Placed, PlanInv
  <2>4. JobsInv(p)
    BY <2>1 DEF JobsInv
  <2>5. Clean(p)
    BY <2>2 DEF Clean, Junk
  <2>6. Source(p)
    <3>1. Mat(0) \in Arrays
      BY ArraysSwap
    <3>2. \A c : Expected(c, 0) = 0
      BY DEF Expected
    <3>. QED
      BY <2>1, <2>2, <3>1, <3>2 DEF Source, Right
  <2>7. Computed(p) /\ Fetched(p) /\ Received(p) /\ Moved(p) /\ Brought(p)
    BY <2>1 DEF Computed, Fetched, Received, Moved, Brought
  <2>. QED
    BY <2>2, <2>3, <2>4, <2>5, <2>6, <2>7 DEF Local
<1>5. ASSUME NEW p \in Procs(input), NEW q \in Procs(input), NEW b PROVE LinkInv(p, b, q)
  <2>1. Sent(q) = 0 /\ Got(p, b) = 0
    BY <1>2 DEF Sent, Got
  <2>2. Messages(p, b, 0, 0) = <<>>
    BY DEF Messages
  <2>3. net[<<q, p>>] = <<>>
    BY <1>2
  <2>. QED
    BY <2>1, <2>2, <2>3 DEF LinkInv
<1>. QED
  BY <1>1, <1>3, <1>4, <1>5 DEF EpsilodInv, LocalInv, NetInv

\* A step of one process keeps the invariant of all.
LEMMA KeptKeeps ==
  ASSUME EpsilodInv, NEW p \in Procs(input), Kept(p)
  PROVE  EpsilodInv'
<1>1. SamePlan /\ PlanInv /\ TypeInv' /\ Local(p)' /\ NetInv'
  BY DEF Kept, Frame, EpsilodInv
<1>2. PlanInv' /\ Procs(input)' = Procs(input)
  BY <1>1, PlanStays, PlanTerms
<1>3. ASSUME NEW q \in Procs(input) PROVE Local(q)'
  <2>1. CASE q = p
    BY <1>1, <2>1
  <2>2. CASE q # p
    <3>1. Local(q) /\ Same(q)
      BY <2>2 DEF Kept, Frame, EpsilodInv, LocalInv
    <3>. QED
      BY <1>1, <3>1, LocalStays
  <2>. QED
    BY <2>1, <2>2
<1>. QED
  BY <1>1, <1>2, <1>3 DEF EpsilodInv, LocalInv

\* Every step keeps it.
LEMMA InvKept ==
  ASSUME EpsilodInv, [Next \/ Terminated]_vars
  PROVE  EpsilodInv'
<1>1. CASE UNCHANGED vars
  <2>1. SamePlan /\ TypeInv' /\ net' = net /\ \A q : Same(q)
    <3>1. UNCHANGED <<input, plan, pc, iter, jobs, host, device, net, expects>>
      BY <1>1 DEF vars
    <3>2. JobSet' = JobSet /\ Borders' = Borders
      BY <3>1 DEF JobSet, DevSet, Borders
    <3>. QED
      BY <3>1, <3>2 DEF SamePlan, Same, EpsilodInv, TypeInv
  <2>2. PlanInv' /\ Procs(input)' = Procs(input)
    BY <2>1, PlanStays, PlanTerms DEF EpsilodInv
  <2>3. ASSUME NEW q \in Procs(input) PROVE Local(q)'
    BY <2>1, LocalStays DEF EpsilodInv, LocalInv
  <2>4. NetInv'
    <3>1. ASSUME NEW q \in Procs(input) PROVE Sent(q)' = Sent(q) /\ expects'[q] = expects[q]
      BY <2>1 DEF Sent, Same
    <3>. QED
      BY <2>1, <3>1, NetStays DEF EpsilodInv
  <2>. QED
    BY <2>1, <2>2, <2>3, <2>4 DEF EpsilodInv, LocalInv
<1>2. CASE Next
  <2>1. PICK p \in Procs(input) : RunJob(p) \/ Step(p)
    BY <1>2 DEF Next
  <2>2. Kept(p)
    <3>1. CASE RunJob(p)
      BY <3>1, RunJobKeeps
    <3>2. CASE Compute(p)
      BY <3>2, ComputeKeeps
    <3>3. CASE StartExchange(p)
      BY <3>3, StartExchangeKeeps
    <3>4. CASE Receive(p)
      BY <3>4, ReceiveKeeps
    <3>5. CASE EndExchange(p)
      BY <3>5, EndExchangeKeeps
    <3>6. CASE NextIteration(p)
      BY <3>6, NextIterationKeeps
    <3>7. CASE LastWait(p)
      BY <3>7, LastWaitKeeps
    <3>8. CASE Output(p)
      BY <3>8, OutputKeeps
    <3>. QED
      BY <2>1, <3>1, <3>2, <3>3, <3>4, <3>5, <3>6, <3>7, <3>8 DEF Step
  <2>. QED
    BY <2>2, KeptKeeps
<1>. QED
  BY <1>1, <1>2 DEF Terminated

\* The invariant is what was to be shown.
LEMMA InvIsTypeOK == EpsilodInv => TypeOK
<1>. SUFFICES ASSUME EpsilodInv PROVE TypeOK
  OBVIOUS
<1>1. input \in Inputs /\ Fits(input, plan)
  BY DEF EpsilodInv, PlanInv
<1>2. ASSUME NEW p \in Procs(input)
      PROVE  /\ pc[p] \in {"compute", "send", "exchange", "halo", "last", "output",
                           "done"}
             /\ iter[p] \in 0 .. input.iterations
             /\ \A a \in Arrays : DOMAIN host[p][a] = CellsOf(p, All)
                                  /\ DOMAIN device[p][a] = CellsOf(p, All)
             /\ expects[p] \subseteq Neighbours(p, "from")
             /\ expects[p] # {} => pc[p] = "exchange"
             /\ \A i \in DOMAIN jobs[p] : jobs[p][i].iter = iter[p]
  <2>1. Local(p) /\ TypeInv /\ PlanInv
    BY DEF EpsilodInv, LocalInv
  <2>2. pc[p] \in Places /\ iter[p] \in Nat /\ input.iterations \in Nat
    BY <2>1 DEF TypeInv, PlanInv
  <2>3. iter[p] \in 0 .. input.iterations
    BY <2>1, <2>2 DEF Local, Placed, Places
  <2>. QED
    BY <2>1, <2>2, <2>3 DEF Local, Shaped, Placed, Places, JobsInv, JobFits
<1>. QED
  BY <1>1, <1>2 DEF TypeOK

\* What is written is right.
LEMMA InvIsOutputCorrect == EpsilodInv => OutputCorrect
<1>. SUFFICES ASSUME EpsilodInv, Done, NEW c \in Cells(Whole(input))
              PROVE  \E p \in Procs(input) :
                       /\ {q \in Procs(input) : c \in plan[q].io} = {p}
                       /\ host[p][OutputArray(input)][c] = Expected(c, input.iterations)
  BY DEF OutputCorrect
<1>1. PlanInv /\ TypeInv
  BY DEF EpsilodInv
<1>2. PICK p \in Procs(input) :
        /\ {q \in Procs(input) : c \in plan[q].io} = {p}
        /\ c \in CellsOf(p, All)
        /\ Inside(input, c) => \E t \in Kernels(p) : c \in CellsOf(p, t)
  BY <1>1 DEF PlanInv, OutputFits
<1>3. Local(p) /\ pc[p] = "done"
  BY DEF EpsilodInv, LocalInv, Done
<1>4. iter[p] = input.iterations /\ iter[p] \in Nat
  BY <1>1, <1>3 DEF Local, Placed, TypeInv
<1>5. Mat(iter[p]) = OutputArray(input) /\ Mat(iter[p]) \in Arrays
  BY <1>4 DEF Mat, OutputArray, Arrays
<1>6. \A op, t : ~Pending(p, op, t)
  <2>1. jobs[p] = <<>>
    BY <1>1, <1>3, NoJobsLeft DEF Local
  <2>. QED
    BY <2>1 DEF Pending
<1>7. host[p][Mat(iter[p])][c] = Expected(c, iter[p])
  <2>1. CASE Inside(input, c)
    <3>1. PICK t \in Kernels(p) : c \in CellsOf(p, t)
      BY <1>2, <2>1
    <3>2. device[p][Mat(iter[p])][c] = iter[p]
      BY <1>3, <1>6, <3>1 DEF Local, Computed
    <3>3. host[p][Mat(iter[p])][c] = device[p][Mat(iter[p])][c]
      BY <1>2, <1>3, <1>6 DEF Local, Brought
    <3>. QED
      BY <2>1, <3>2, <3>3 DEF Expected
  <2>2. CASE ~Inside(input, c)
    BY <1>2, <1>3, <1>5, <2>2 DEF Local, Clean, Expected
  <2>. QED
    BY <2>1, <2>2
<1>. QED
  BY <1>2, <1>4, <1>5, <1>7

\* If the plans of the processes fit each other at the start, for any number
\* of processes, each stays in its iterations, with matrices of their shape,
\* and what it has launched and waits for belongs to its iteration
\* (stencilComputation).
THEOREM EpsilodTypeCorrect ==
  (\A in \in Inputs : PlanFits(in)) => (Spec => []TypeOK)
<1>. SUFFICES ASSUME \A in \in Inputs : PlanFits(in) PROVE Spec => []TypeOK
  OBVIOUS
<1>1. Init => EpsilodInv
  BY InvAtStart
<1>2. EpsilodInv /\ [Next \/ Terminated]_vars => EpsilodInv'
  BY InvKept
<1>. QED
  BY <1>1, <1>2, InvIsTypeOK, PTL DEF Spec

\* No kernel reads a halo that has not arrived, or one that has been replaced,
\* or that comes from another place of the matrix: the waits of the tiles, the
\* exchange and the two arrays are enough, however late messages and jobs are.
THEOREM EpsilodFreshHalo ==
  (\A in \in Inputs : PlanFits(in)) => (Spec => []FreshHalo)
<1>. SUFFICES ASSUME \A in \in Inputs : PlanFits(in) PROVE Spec => []FreshHalo
  OBVIOUS
<1>1. Init => EpsilodInv
  BY InvAtStart
<1>2. EpsilodInv /\ [Next \/ Terminated]_vars => EpsilodInv'
  BY InvKept
<1>3. EpsilodInv => FreshHalo
  BY DEF EpsilodInv, LocalInv, Local, Clean, FreshHalo
<1>. QED
  BY <1>1, <1>2, <1>3, PTL DEF Spec

\* When all processes are done, each cell of the whole matrix is written by one
\* of them, with the value of the last iteration.
THEOREM EpsilodOutputCorrect ==
  (\A in \in Inputs : PlanFits(in)) => (Spec => []OutputCorrect)
<1>. SUFFICES ASSUME \A in \in Inputs : PlanFits(in) PROVE Spec => []OutputCorrect
  OBVIOUS
<1>1. Init => EpsilodInv
  BY InvAtStart
<1>2. EpsilodInv /\ [Next \/ Terminated]_vars => EpsilodInv'
  BY InvKept
<1>. QED
  BY <1>1, <1>2, InvIsOutputCorrect, PTL DEF Spec
=============================================================================
