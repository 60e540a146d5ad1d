---------------------------- MODULE TileDataflow ----------------------------
(***************************************************************************)
(* What a program that uses the library relies on: kernels and host tasks  *)
(* are launched one after the other, may be executed later and in another  *)
(* order, but each finds in every tile it reads the result of the last     *)
(* task launched before it that writes the tile - as if every launch were  *)
(* a plain call.  No memory, transfer, stream or event appears here.       *)
(***************************************************************************)
EXTENDS Naturals

CONSTANT Tiles

VARIABLES
  prog,  \* tasks launched: a number, increasing, to the tiles it accesses
  obs    \* for each task executed, the version found in each tile it reads

vars == <<prog, obs>>

Access == [reads : SUBSET Tiles, writes : SUBSET Tiles]

\* The task whose result a plain sequence of calls would leave in t before n.
Writers(n, t) == {m \in DOMAIN prog : m < n /\ t \in prog[m].writes}
LastWriter(n, t) ==
  IF Writers(n, t) = {} THEN 0
  ELSE CHOOSE m \in Writers(n, t) : \A k \in Writers(n, t) : k <= m

Init == prog = <<>> /\ obs = <<>>

\* One more launch.
Launch ==
  /\ \E n \in DOMAIN prog' \ DOMAIN prog :
       /\ DOMAIN prog' = DOMAIN prog \cup {n}
       /\ \A m \in DOMAIN prog : m < n
       /\ prog'[n] \in Access
  /\ \A m \in DOMAIN prog : prog'[m] = prog[m]
  /\ obs' = obs

\* A task executes once the tasks whose results it reads did.
Execute(n) ==
  /\ n \in DOMAIN prog \ DOMAIN obs
  /\ \A t \in prog[n].reads : LastWriter(n, t) \in DOMAIN obs \cup {0}
  /\ obs' = [m \in DOMAIN obs \cup {n} |->
               IF m = n THEN [t \in prog[n].reads |-> LastWriter(n, t)]
                        ELSE obs[m]]
  /\ prog' = prog

Next == Launch \/ \E n \in DOMAIN prog : Execute(n)

Spec == Init /\ [][Next]_vars
=============================================================================
