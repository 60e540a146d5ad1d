------------------------------ MODULE HitLayout ------------------------------
(* The Hitmap topologies and layouts an Epsilod program chooses between:     *)
(* how the processes are arranged, which part of a shape each of them gets,  *)
(* and who its neighbours are (hit_topology.c, hit_layout.c).                *)
(*                                                                           *)
(* A shape has one signature [begin, end] per dimension, with stride 1 as in *)
(* Epsilod.  Dimensions are numbered from 1, process ranks from 0.  A layout *)
(* is a record of what hit_layout_wrapper keeps: topo, the origShape it      *)
(* divides, the dimension restrictToDim (NODIM: none) and the weights.       *)
(* The float arithmetic of the weighted layout is exact here; its rounding   *)
(* moves a block boundary, for the process before and the one after it       *)
(* alike.                                                                    *)
EXTENDS Integers, Sequences, FiniteSets, FiniteSetsExt, SequencesExt

NullRank == -9999999       \* HIT_RANK_NULL
NODIM == 0                 \* HIT_LAYOUT_NODIM, -1 where dimensions are from 0
NullSig == [begin |-> 0, end |-> -1]

Card(sig) == sig.end - sig.begin + 1
Cells(shape) ==
  LET Dim == DOMAIN shape
      Coordinates == UNION {shape[d].begin .. shape[d].end : d \in Dim}
  IN {c \in [Dim -> Coordinates] :
        \A d \in Dim : c[d] \in shape[d].begin .. shape[d].end}
-----------------------------------------------------------------------------
(* Topologies.                                                             *)

\* One dimension with all the processes.
TopPlain(procs) == [type |-> "PLAIN", card |-> <<procs>>]

\* Two dimensions: the factors of procs nearest to its square root, searched
\* from there with the higher up and the lower down.
TopArray2DComplete(procs) ==
  LET root == CHOOSE r \in 1..procs : r * r <= procs /\ (r + 1) * (r + 1) > procs
      search[low \in 1..procs, high \in 1..procs] ==
        IF low * high = procs THEN <<high, low>>
        ELSE IF low * high < procs THEN search[low, high + 1]
        ELSE IF low = 2 THEN <<procs, 1>>
        ELSE search[low - 1, high]
  IN [type |-> "ARRAY2DCOMP", card |-> search[root, root]]

\* The ranks of a process, one per dimension of the topology.
SelfRanks(topo, p) ==
  IF topo.type = "PLAIN" THEN <<p>>
                         ELSE <<p \div topo.card[2], p % topo.card[2]>>

\* The process with some ranks: row-major, null outside the topology.
RankInternal(topo, ranks) ==
  LET linear == FoldLeft(LAMBDA n, d : n * topo.card[d] + ranks[d], 0,
                         [d \in 1..Len(topo.card) |-> d])
      size == FoldLeft(LAMBDA n, c : n * c, 1, topo.card)
  IN IF linear \in 0 .. size - 1 THEN linear ELSE NullRank
-----------------------------------------------------------------------------
(* Blocks: parts of equal size, the first ones one longer.                 *)

\* Mutant: the longer parts are not made room for.
BlocksBeginEven(p, procs, blocks) == p * (blocks \div Min({blocks, procs}))

BlocksBegin(p, procs, blocks) ==
  LET divisor == Min({blocks, procs})
  IN p * (blocks \div divisor) + Min({p, blocks % divisor})

BlocksSig(p, procs, sig) ==
  LET blocks == Card(sig)
  IN IF blocks = 0 \/ BlocksBegin(p, procs, blocks) >= blocks THEN NullSig
     ELSE [begin |-> sig.begin + BlocksBegin(p, procs, blocks),
           end |-> sig.begin + BlocksBegin(p + 1, procs, blocks) - 1]
-----------------------------------------------------------------------------
(* Weighted blocks: parts proportional to the weights of the processes.    *)

\* The weights of the first p processes.
Ratio(weights, p) == FoldLeft(LAMBDA a, b : a + b, 0, SubSeq(weights, 1, p))
WeightedBegin(p, weights, blocks) ==
  (Ratio(weights, p) * blocks) \div Ratio(weights, Len(weights))

WeightedSig(p, weights, sig) ==
  LET begin == WeightedBegin(p, weights, Card(sig))
      end == WeightedBegin(p + 1, weights, Card(sig)) - 1
  IN IF Card(sig) <= 0 \/ p >= Len(weights) \/ end < begin THEN NullSig
     ELSE [begin |-> sig.begin + begin, end |-> sig.begin + end]

\* The processes that get something, in order; and the a-th of them.
WeightedActives(weights, sig) ==
  SelectSeq([p \in 1..Len(weights) |-> p - 1],
            LAMBDA p : WeightedSig(p, weights, sig) # NullSig)
WeightedRanks(a, weights, sig) ==
  LET actives == WeightedActives(weights, sig)
  IN IF a \in 0 .. Len(actives) - 1 THEN actives[a + 1] ELSE NullRank
-----------------------------------------------------------------------------
(* Layouts.                                                                *)

LayBlocks(topo, shape) ==
  [topo |-> topo, origShape |-> shape, restrictToDim |-> NODIM,
   weights |-> <<>>]

\* As many weights as the topology has processes in the dimension: none in a
\* dimension it has not.
LayDimWeightedBlocks(topo, shape, dim, weights) ==
  LET card == IF dim \in DOMAIN topo.card THEN topo.card[dim] ELSE 0
  IN [topo |-> topo, origShape |-> shape, restrictToDim |-> dim,
      weights |-> SubSeq(weights, 1, Min({card, Len(weights)}))]

\* On a plain topology a restricted layout divides that dimension alone.
PlainProjection(lay) ==
  lay.topo.type = "PLAIN" /\ lay.restrictToDim # NODIM
NotDivided(lay, d) ==
  \/ PlainProjection(lay) /\ d # lay.restrictToDim
  \/ d \notin DOMAIN lay.topo.card

\* The part of process p.
LayShape(lay, p) ==
  [d \in DOMAIN lay.origShape |->
     LET sig == lay.origShape[d]
         rank == SelfRanks(lay.topo, p)[d]
     IN IF NotDivided(lay, d) THEN sig
        ELSE IF d = lay.restrictToDim THEN WeightedSig(rank, lay.weights, sig)
        ELSE BlocksSig(rank, lay.topo.card[d], sig)]

LayActive(lay, p) == \A d \in DOMAIN lay.origShape : LayShape(lay, p)[d] # NullSig

NumActives(lay, d) ==
  LET sig == lay.origShape[d]
  IN IF d = lay.restrictToDim THEN Len(WeightedActives(lay.weights, sig))
     ELSE IF NotDivided(lay, d) THEN Card(sig)
     ELSE Min({Card(sig), lay.topo.card[d]})

\* The neighbour in one dimension, which does not wrap: `source` counts the
\* active processes, the result is a rank of the topology.
NeighborFrom(lay, source, d, shift) ==
  LET active == source + shift
  IN IF active \notin 0 .. NumActives(lay, d) - 1 THEN NullRank
     ELSE IF d = lay.restrictToDim
          THEN WeightedRanks(active, lay.weights, lay.origShape[d])
          ELSE active

\* The process that is `shifts` away from p: null as soon as one rank is.
NeighborN(lay, p, shifts) ==
  LET dims == DOMAIN lay.topo.card
      rank == [d \in dims |->
                 NeighborFrom(lay, SelfRanks(lay.topo, p)[d], d, shifts[d])]
  IN IF \/ \E d \in DOMAIN shifts \ dims : shifts[d] # 0
        \/ \E d \in dims : rank[d] = NullRank
     THEN NullRank
     ELSE RankInternal(lay.topo, rank)
=============================================================================
