---------------------------- MODULE MCCpuVariants ----------------------------
(* Small instances of CpuCtrl side by side: the first state picks one, and  *)
(* the properties say which of them they are about.                         *)
EXTENDS Integers, TLC

CONSTANTS a, b  \* tiles

VARIABLES
  variant,  \* the instance this behaviour is one of
  jobs, pending, main, attached, mode, host_status, device_status,
  last_host_read, last_host_write, last_kernel_read, last_kernel_write,
  last_htd, last_dth, seq_event, seen, done, mem

Arg(t, r) == [tile |-> t, role |-> r]
AnyRole == {<<Arg(a, r)>> : r \in {"IN", "OUT", "IO"}}

\* The tile is not allocated at first, and may be in any way at any time.
Alloc == INSTANCE CpuCtrl WITH
  NCtrls <- 1, Tiles <- {a}, MemMoves <- (0 :> TRUE), Policy <- "ASYNC",
  Modes <- {"IMPLICIT"}, Accesses <- AnyRole, InitAttached <- {},
  AllocFlags <- SUBSET {"HOST", "DEV"}, WarnedMoves <- FALSE, MaxJobs <- 3

\* Two devices in both modes, with transfers from invalid copies.
Two == INSTANCE CpuCtrl WITH
  NCtrls <- 2, Tiles <- {a}, MemMoves <- (0 :> TRUE @@ 1 :> TRUE),
  Policy <- "ASYNC", Modes <- {"IMPLICIT", "EXPLICIT"}, Accesses <- AnyRole,
  InitAttached <- {0, 1} \X {a}, AllocFlags <- {}, WarnedMoves <- TRUE,
  MaxJobs <- 3

\* One device; a tile produced and consumed, and one computed from it.
One == INSTANCE CpuCtrl WITH
  NCtrls <- 1, Tiles <- {a, b}, MemMoves <- (0 :> TRUE), Policy <- "ASYNC",
  Modes <- {"IMPLICIT"},
  Accesses <- {<<Arg(a, "OUT")>>, <<Arg(a, "IN"), Arg(b, "OUT")>>,
               <<Arg(b, "IN"), Arg(a, "IO")>>},
  InitAttached <- {0} \X {a, b}, AllocFlags <- {}, WarnedMoves <- FALSE,
  MaxJobs <- 4

\* A device and a ctrl that works on host memory, under the SYNC policy.
Sync == INSTANCE CpuCtrl WITH
  NCtrls <- 2, Tiles <- {a}, MemMoves <- (0 :> TRUE @@ 1 :> FALSE),
  Policy <- "SYNC", Modes <- {"IMPLICIT"}, Accesses <- AnyRole,
  InitAttached <- {0, 1} \X {a}, AllocFlags <- {}, WarnedMoves <- FALSE,
  MaxJobs <- 3

Init ==
  \/ variant = "alloc" /\ Alloc!Init
  \/ variant = "two" /\ Two!Init
  \/ variant = "one" /\ One!Init
  \/ variant = "sync" /\ Sync!Init

Next ==
  /\ UNCHANGED variant
  /\ \/ variant = "alloc" /\ Alloc!Next
     \/ variant = "two" /\ Two!Next
     \/ variant = "one" /\ One!Next
     \/ variant = "sync" /\ Sync!Next

vars == <<variant, Two!vars>>
Spec == Init /\ [][Next]_vars

\* Every access is ordered, but for a MOVEFROM behind another transfer when
\* there are two devices (Ctrl_Cpu.c:434).
DependencesHonoured ==
  CASE variant = "alloc" -> Alloc!DependencesHonoured
    [] variant = "two" -> Two!DependencesHonouredButMoveFrom
    [] variant = "one" -> One!DependencesHonoured
    [] variant = "sync" -> Sync!DependencesHonoured

\* Copies marked valid are, when all is at rest and no program asked for a
\* transfer the library warns of.
CoherentAtRest ==
  CASE variant = "alloc" -> Alloc!CoherentAtRest
    [] variant = "two" -> TRUE
    [] variant = "one" -> One!CoherentAtRest
    [] variant = "sync" -> Sync!CoherentAtRest

\* CTRL_POLICY_SYNC: "no task overlapping".
NoOverlap == variant = "sync" => Sync!NoOverlap

\* A call that blocks returns only when the jobs it is about have finished:
\* Ctrl_WaitTile and Ctrl_GlobalSync those on the tile, Ctrl_Synchronize all.
WaitsComplete == Two!TileWaitsComplete /\ Two!SynchronizeCompletes
=============================================================================
