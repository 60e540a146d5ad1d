------------------------------- MODULE Epsilod -------------------------------
(***************************************************************************)
(* stencilComputation: an iterative stencil distributed over processes.    *)
(*                                                                         *)
(* Every process keeps its block of the matrix and a halo around it, in    *)
(* two arrays that change roles in every iteration, in the host and in its *)
(* device.  An iteration launches kernels for the borders and the inner    *)
(* part of the block, brings the borders to the host, exchanges them with  *)
(* the neighbours by messages and puts the halo received in the device     *)
(* while the inner part may still be computing.                            *)
(*                                                                         *)
(* A cell holds the number of the iteration that computed it from the      *)
(* right inputs; the border of the whole matrix, which nobody computes,    *)
(* stays at 0, and Junk is what came from a wrong input.  The ctrl is seen *)
(* through what CpuCtrl and DriverCtrl promise: jobs on the same tile run  *)
(* in order, the others in any order, and Ctrl_WaitTile waits for those of *)
(* a tile.                                                                 *)
(***************************************************************************)
EXTENDS HitLayout

CONSTANT Inputs  \* the computations considered, see Input

\* procs: number of MPI processes; partition: "plain" (EPSILOD_PARTITION
\* unset or r0), "grid" (r) or "weighted" (w0) with the weights of the
\* processes; sizes: of the matrix, per dimension; stencil: offsets with a
\* weight other than 0; iterations.  eager is a bound: jobs
\* run in the order of their launch and before anything else happens; those of
\* different processes touch nothing in common.
Input ==
  [procs : Nat \ {0}, partition : {"plain", "grid", "weighted"},
   weights : Seq(Nat), sizes : Seq(Nat), stencil : SUBSET Seq(Int),
   iterations : Nat \ {0}, eager : BOOLEAN]

Junk == -1
Arrays == {0, 1}
-----------------------------------------------------------------------------
(* What every process works out before the loop, for an input.             *)

Dims(in) == DOMAIN in.sizes
Procs(in) == 0 .. in.procs - 1
BorderLow(in, d) == -Min({v[d] : v \in in.stencil})
BorderHigh(in, d) == Max({v[d] : v \in in.stencil})

\* shp, and shpInner: the part to compute.
Whole(in) == [d \in Dims(in) |-> [begin |-> 0, end |-> in.sizes[d] - 1]]
Inner(in) ==
  [d \in Dims(in) |-> [begin |-> BorderLow(in, d),
                       end |-> in.sizes[d] - 1 - BorderHigh(in, d)]]

Layout(in) ==
  IF in.partition = "weighted"
  THEN LayDimWeightedBlocks(TopPlain(in.procs), Inner(in), 1, in.weights)
  ELSE LayBlocks(IF in.partition = "grid" /\ Len(in.sizes) = 2
                 THEN TopArray2DComplete(in.procs) ELSE TopPlain(in.procs),
                 Inner(in))

\* hit_shapeTransform in one dimension.
FirstOf(sig, n) == [sig EXCEPT !.end = sig.begin + n - 1]
LastOf(sig, n)  == [sig EXCEPT !.begin = sig.end - n + 1]
Grow(sig, low, high) == [begin |-> sig.begin + low, end |-> sig.end + high]

Expanded(in, p) ==
  [d \in Dims(in) |->
     Grow(LayShape(Layout(in), p)[d], -BorderLow(in, d), BorderHigh(in, d))]
InnerLocal(in, p) ==
  [d \in Dims(in) |->
     Grow(LayShape(Layout(in), p)[d], BorderHigh(in, d), -BorderLow(in, d))]

\* The halo with shift b, and what is sent to the process it is for.
BorderIn(in, p, b) ==
  [d \in Dims(in) |->
     LET sig == LayShape(Layout(in), p)[d]
         low == BorderLow(in, d)
         high == BorderHigh(in, d)
     IN CASE b[d] = -1 -> Grow(FirstOf(sig, low), -low, -low)
          [] b[d] = 0  -> sig
          [] b[d] = 1  -> Grow(LastOf(sig, high), high, high)]

BorderOut(in, p, b) ==
  [d \in Dims(in) |->
     LET sig == LayShape(Layout(in), p)[d]
     IN CASE b[d] = -1 -> LastOf(sig, BorderLow(in, d))
          [] b[d] = 0  -> sig
          [] b[d] = 1  -> FirstOf(sig, BorderHigh(in, d))]

\* The borders as computed in the device: those of a dimension do not take
\* the cells of the dimensions before it.
OutDev(in, p, d, side) ==
  [e \in Dims(in) |->
     LET sig == LayShape(Layout(in), p)[e]
     IN CASE e < d -> InnerLocal(in, p)[e]
          [] e = d -> IF side = "first" THEN FirstOf(sig, BorderHigh(in, e))
                                        ELSE LastOf(sig, BorderLow(in, e))
          [] e > d -> sig]

\* What is read and written by a process: its halo only at the edges of the
\* whole matrix.
IoShape(in, p) ==
  [d \in Dims(in) |->
     LET sig == Expanded(in, p)[d]
         whole == Whole(in)[d]
     IN Grow(sig,
             IF whole.begin \in sig.begin .. sig.end THEN 0 ELSE BorderLow(in, d),
             IF whole.end \in sig.begin .. sig.end THEN 0 ELSE -BorderHigh(in, d))]

\* The borders with a weight in the stencil.  Their number is built with the
\* last dimension as its lowest digit and taken apart from the first one, so
\* that the shift is the sign vector of the offset reversed.  A border without
\* a neighbour stays active: the code compares with -1, not HIT_RANK_NULL.
Sign(n) == IF n < 0 THEN -1 ELSE IF n = 0 THEN 0 ELSE 1
ActiveBorders(in) ==
  {Reverse([d \in Dims(in) |-> Sign(v[d])]) : v \in in.stencil}
    \ {[d \in Dims(in) |-> 0]}

\* Mutant: a border is sent to the process whose border is received.
OppositeSame(b) == b

Opposite(b) == [d \in DOMAIN b |-> -b[d]]
-----------------------------------------------------------------------------
(* Tiles, by name, with their cells.                                       *)

All == <<"all">>
InnerTile == <<"inner">>
Dev(d, side) == <<"dev", d, side>>
In(b) == <<"in", b>>
Out(b) == <<"out", b>>

DevTiles(in) ==
  FlattenSeq([d \in Dims(in) |-> <<Dev(d, "first"), Dev(d, "last")>>])

TileShape(in, p, t) ==
  CASE t[1] = "all"   -> Expanded(in, p)
    [] t[1] = "inner" -> InnerLocal(in, p)
    [] t[1] = "dev"   -> OutDev(in, p, t[2], t[3])
    [] t[1] = "in"    -> BorderIn(in, p, t[2])
    [] t[1] = "out"   -> BorderOut(in, p, t[2])

Tiles(in) ==
  {All, InnerTile} \cup ToSet(DevTiles(in))
    \cup {In(b) : b \in ActiveBorders(in)} \cup {Out(b) : b \in ActiveBorders(in)}

\* On a plain topology only the borders of the first dimension are moved.
BordersMoved(in) ==
  LET dims == IF Layout(in).topo.type = "PLAIN" THEN 1 ELSE Len(in.sizes)
  IN SubSeq(DevTiles(in), 1, 2 * dims)

\* What process p keeps of all that: the cells of its tiles, those a kernel is
\* launched for and those brought to the host, the neighbour each halo comes
\* from and the one it sends the opposite border to.
PlanOf(in, p) ==
  LET cells == [t \in Tiles(in) |-> Cells(TileShape(in, p, t))]
      Nonempty(tiles) == SelectSeq(tiles, LAMBDA t : cells[t] # {})
  IN
  [cells |-> cells,
   kernels |-> Append(Nonempty(DevTiles(in)), InnerTile),
   moved |-> Nonempty(BordersMoved(in)),
   from |-> [b \in ActiveBorders(in) |-> NeighborN(Layout(in), p, b)],
   to |-> [b \in ActiveBorders(in) |-> NeighborN(Layout(in), p, Opposite(b))],
   io |-> Cells(IoShape(in, p))]

\* The cells to compute, and the cell at an offset of the stencil.
Inside(in, c) ==
  \A d \in DOMAIN c : c[d] \in Inner(in)[d].begin .. Inner(in)[d].end
Around(c, v) == [d \in DOMAIN c |-> c[d] + v[d]]

\* What the plans P of all processes have to be for a computation: kernels read
\* what is computed, received or on the border of the matrix (1), a process
\* sends what the other expects (2) and brought to the host (3), and the parts
\* written are the whole matrix (4).
Fits(in, P) ==
  LET Block(p) == UNION {P[p].cells[t] : t \in ToSet(P[p].kernels)}
      Halo(p) == UNION {P[p].cells[In(b)] : b \in ActiveBorders(in)}
      Fetched(p) == UNION {P[p].cells[t] : t \in ToSet(P[p].moved)}
  IN
  /\ \A p \in Procs(in) :
       /\ P[p].kernels \in Seq(ToSet(DevTiles(in)) \cup {InnerTile})
       /\ P[p].moved \in Seq(ToSet(DevTiles(in)))
       /\ ToSet(P[p].moved) \subseteq ToSet(P[p].kernels)
       /\ Block(p) \cup Halo(p) \subseteq P[p].cells[All]
       /\ Block(p) \cap Halo(p) = {}
       /\ \A c \in Block(p) :
            /\ Inside(in, c)
            /\ \A v \in in.stencil : LET a == Around(c, v) IN         \* (1)
                 /\ a \in P[p].cells[All]
                 /\ Inside(in, a) => a \in Block(p) \cup Halo(p)
  /\ \A p \in Procs(in), b \in ActiveBorders(in) :
       LET q == P[p].from[b]
           r == P[p].to[b]
       IN /\ IF q = NullRank                                          \* (2)
             THEN \A c \in P[p].cells[In(b)] : ~Inside(in, c)
             ELSE /\ q \in Procs(in) /\ P[q].to[b] = p
                  /\ P[p].cells[In(b)] = P[q].cells[Out(b)]
          /\ r # NullRank =>
               /\ r \in Procs(in) /\ P[r].from[b] = p
               /\ \A o \in ActiveBorders(in) \ {b} : P[p].to[o] # r
               /\ P[p].cells[Out(b)] \subseteq Fetched(p)               \* (3)
  /\ \A c \in Cells(Whole(in)) :                                      \* (4)
       \E p \in Procs(in) :
         /\ {q \in Procs(in) : c \in P[q].io} = {p}
         /\ c \in P[p].cells[All]
         /\ Inside(in, c) => c \in Block(p)

PlanFits(in) == Fits(in, [p \in Procs(in) |-> PlanOf(in, p)])

\* Every process has cells to compute between its borders, and the stencil is
\* around the cell it is for.
ASSUME EpsilodAssumption ==
  /\ IsFiniteSet(Inputs)
  /\ \A in \in Inputs :
       /\ in \in Input
       /\ IsFiniteSet(ActiveBorders(in))
       /\ \A v \in in.stencil : Len(v) = Len(in.sizes)
       /\ \A d \in Dims(in) : BorderLow(in, d) >= 0 /\ BorderHigh(in, d) >= 0
       /\ \A p \in Procs(in) : LayActive(Layout(in), p)
       /\ \A p \in Procs(in), d \in Dims(in) :
            Card(LayShape(Layout(in), p)[d]) > BorderLow(in, d) + BorderHigh(in, d)
-----------------------------------------------------------------------------
VARIABLES
  input,   \* the computation
  plan,    \* what each process worked out for it
  pc,      \* where the main thread of each process is
  iter,    \* iterations started; the arrays have been swapped as often
  jobs,    \* launched and not finished in the device, in launch order
  host,    \* the two arrays in the host, as far as the process has them
  device,  \* and in its device
  net,     \* messages from a process to another, in order
  expects  \* halos whose message has not arrived

vars == <<input, plan, pc, iter, jobs, host, device, net, expects>>

Job(op, t, k) == [op |-> op, tile |-> t, iter |-> k]

\* tileMat after k swaps.
Mat(k) == k % 2
\* io_tile or io_copy.
OutputArray(in) == IF in.iterations % 2 = 0 THEN 0 ELSE 1

CellsOf(p, t) == plan[p].cells[t]

\* A matrix when a part of it is written, as part @@ mat: the provers have no
\* definition of @@.
Written(mat, part) ==
  [c \in DOMAIN part \cup DOMAIN mat |->
     IF c \in DOMAIN part THEN part[c] ELSE mat[c]]

\* What a cell should hold after iteration k.
Expected(c, k) == IF Inside(input, c) THEN k ELSE 0

\* Ctrl_WaitTile returns.
Waited(p, t) == \A i \in DOMAIN jobs[p] : jobs[p][i].tile # t

Init ==
  /\ input \in Inputs
  /\ plan = [p \in Procs(input) |-> PlanOf(input, p)]
  /\ pc = [p \in Procs(input) |-> "compute"]
  /\ iter = [p \in Procs(input) |-> 0]
  /\ jobs = [p \in Procs(input) |-> <<>>]
  /\ host = [p \in Procs(input) |->
               [a \in Arrays |-> [c \in CellsOf(p, All) |-> 0]]]
  /\ device = host
  /\ net = [link \in Procs(input) \X Procs(input) |-> <<>>]
  /\ expects = [p \in Procs(input) |-> {}]

Goto(p, place) == pc' = [pc EXCEPT ![p] = place]
Launch(p, new) == jobs' = [jobs EXCEPT ![p] = @ \o new]

\* Mutant: the last iteration is treated as one more of the loop.
IsLastLate(k) == k > input.iterations

IsLast(k) == k = input.iterations

\* 4.8.1 and 4.8.2: swap the arrays, launch the kernels and bring the borders.
Compute(p) ==
  LET k == iter[p] + 1
      tiles == plan[p].kernels
      moved == IF IsLast(k) THEN <<>> ELSE plan[p].moved
  IN /\ pc[p] = "compute"
     /\ iter' = [iter EXCEPT ![p] = k]
     /\ Launch(p, [i \in DOMAIN tiles |-> Job("kernel", tiles[i], k)]
                    \o [i \in DOMAIN moved |-> Job("from", moved[i], k)])
     /\ Goto(p, IF IsLast(k) THEN "last" ELSE "send")
     /\ UNCHANGED <<input, plan, host, device, net, expects>>

Neighbours(p, dir) ==
  {b \in DOMAIN plan[p][dir] : plan[p][dir][b] # NullRank}

\* hit_patternDo: start the sends and the receptions.
StartExchange(p) ==
  LET mat == host[p][Mat(iter[p])]
      Message(b) == [c \in CellsOf(p, Out(b)) |-> mat[c]]
  IN /\ pc[p] = "send"
     /\ \A t \in ToSet(DevTiles(input)) : Waited(p, t)
     /\ net' = [link \in DOMAIN net |->
                  net[link] \o
                    SetToSeq({Message(b) : b \in
                      {x \in Neighbours(p, "to") :
                         link = <<p, plan[p].to[x]>>}})]
     /\ expects' = [expects EXCEPT ![p] = Neighbours(p, "from")]
     /\ Goto(p, "exchange")
     /\ UNCHANGED <<input, plan, iter, jobs, host, device>>

\* A message is received in the halo; a cell of other coordinates than the
\* one it is for is Junk.
Receive(p) ==
  \E b \in expects[p] :
    LET link == <<plan[p].from[b], p>>
        message == Head(net[link])
    IN /\ net[link] # <<>>
       /\ net' = [net EXCEPT ![link] = Tail(@)]
       /\ host' = [host EXCEPT ![p][Mat(iter[p])] =
                     Written(@, [c \in CellsOf(p, In(b)) |->
                        IF c \in DOMAIN message THEN message[c] ELSE Junk])]
       /\ expects' = [expects EXCEPT ![p] = @ \ {b}]
       /\ UNCHANGED <<input, plan, pc, iter, jobs, device>>

\* MPI_Waitall returns; the halos are moved to the device.
EndExchange(p) ==
  /\ pc[p] = "exchange" /\ expects[p] = {}
  /\ Launch(p, SetToSeq({Job("to", In(b), iter[p]) : b \in ActiveBorders(input)}))
  /\ Goto(p, "halo")
  /\ UNCHANGED <<input, plan, iter, host, device, net, expects>>

\* Mutant: the kernel of the inner part is not waited for.
HaloWaitedBordersOnly(p) == \A b \in ActiveBorders(input) : Waited(p, In(b))

HaloWaited(p) ==
  /\ \A b \in ActiveBorders(input) : Waited(p, In(b))
  /\ Waited(p, InnerTile)

NextIteration(p) ==
  /\ pc[p] = "halo" /\ HaloWaited(p)
  /\ Goto(p, "compute")
  /\ UNCHANGED <<input, plan, iter, jobs, host, device, net, expects>>

\* After the last kernels the whole matrix is brought to the host ...
LastWait(p) ==
  /\ pc[p] = "last"
  /\ \A t \in ToSet(DevTiles(input)) \cup {InnerTile} : Waited(p, t)
  /\ Launch(p, <<Job("from", All, iter[p])>>)
  /\ Goto(p, "output")
  /\ UNCHANGED <<input, plan, iter, host, device, net, expects>>

\* ... and written.
Output(p) ==
  /\ pc[p] = "output"
  /\ Waited(p, All)
  /\ Goto(p, "done")
  /\ UNCHANGED <<input, plan, iter, jobs, host, device, net, expects>>

\* updateCell: a cell is right when all the cells around it were.
Updated(p, c, k) ==
  LET source == device[p][Mat(k - 1)]
  IN IF \A v \in input.stencil :
          source[Around(c, v)] = Expected(Around(c, v), k - 1)
     THEN k ELSE Junk

\* The device runs a job none of whose predecessors uses the same tile.
RunJob(p) ==
  \E i \in DOMAIN jobs[p] :
    LET job == jobs[p][i]
        a == Mat(job.iter)
        cells == CellsOf(p, job.tile)
    IN /\ \A j \in 1 .. i - 1 : jobs[p][j].tile # job.tile
       /\ input.eager => i = 1 /\ \A q \in 0 .. p - 1 : jobs[q] = <<>>
       /\ jobs' = [jobs EXCEPT ![p] = RemoveAt(@, i)]
       /\ \/ /\ job.op = "kernel"
             /\ device' = [device EXCEPT ![p][a] =
                             Written(@, [c \in cells |-> Updated(p, c, job.iter)])]
             /\ UNCHANGED host
          \/ /\ job.op = "from"
             /\ host' = [host EXCEPT ![p][a] =
                           Written(@, [c \in cells |-> device[p][a][c]])]
             /\ UNCHANGED device
          \/ /\ job.op = "to"
             /\ device' = [device EXCEPT ![p][a] =
                             Written(@, [c \in cells |-> host[p][a][c]])]
             /\ UNCHANGED host
       /\ UNCHANGED <<input, plan, pc, iter, net, expects>>

Step(p) ==
  \/ Compute(p) \/ StartExchange(p) \/ Receive(p) \/ EndExchange(p)
  \/ NextIteration(p) \/ LastWait(p) \/ Output(p)

Next ==
  \E p \in Procs(input) :
    \/ RunJob(p)
    \/ (input.eager => \A q \in Procs(input) : jobs[q] = <<>>) /\ Step(p)

Done == \A p \in Procs(input) : pc[p] = "done"
Terminated == Done /\ UNCHANGED vars

Spec == Init /\ [][Next \/ Terminated]_vars

\* Threads go on, messages arrive, jobs end.
Fairness == WF_vars(Next)
FairSpec == Spec /\ Fairness
-----------------------------------------------------------------------------
(* Properties.                                                             *)

\* The processes have divided the work so that their plans fit each other.
\* Matrices have the shape of the block and its halo; a process starts no
\* iteration but those asked for, and what it waits for or has launched
\* belongs to the iteration it is in.
TypeOK ==
  /\ input \in Inputs
  /\ (\A p \in Procs(input) : iter[p] = 0) => Fits(input, plan)
  /\ \A p \in Procs(input) :
       /\ pc[p] \in {"compute", "send", "exchange", "halo", "last", "output",
                     "done"}
       /\ iter[p] \in 0 .. input.iterations
       /\ \A a \in Arrays : DOMAIN host[p][a] = CellsOf(p, All)
                            /\ DOMAIN device[p][a] = CellsOf(p, All)
       /\ expects[p] \subseteq Neighbours(p, "from")
       /\ expects[p] # {} => pc[p] = "exchange"
       /\ \A i \in DOMAIN jobs[p] : jobs[p][i].iter = iter[p]

\* Every kernel reads, in its block and in its halo, what the iteration before
\* it computed: no halo is used before it arrived, is replaced while it is
\* used, or comes from another place of the matrix.
FreshHalo ==
  \A p \in Procs(input), a \in Arrays :
    \A c \in CellsOf(p, All) : device[p][a][c] # Junk

\* When all processes are done, every cell of the matrix is written by exactly
\* one of them, with the value of the last iteration.
OutputCorrect ==
  Done =>
    \A c \in Cells(Whole(input)) :
      \E p \in Procs(input) :
        /\ {q \in Procs(input) : c \in plan[q].io} = {p}
        /\ host[p][OutputArray(input)][c] = Expected(c, input.iterations)

\* Every process ends.
AllFinish == <>Done
=============================================================================
