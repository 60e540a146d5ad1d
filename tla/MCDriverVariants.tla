--------------------------- MODULE MCDriverVariants ---------------------------
(* Small instances of DriverCtrl side by side: the first state picks one,   *)
(* and the properties say which of them they are about.                     *)
EXTENDS Integers, TLC

CONSTANTS a, b  \* tiles

VARIABLES
  variant,  \* the instance this behaviour is one of
  jobs, queue, main, attached, mode, host_status, device_status,
  last_host_read, last_host_write, last_kernel_read, last_kernel_write,
  last_htd, last_dth, host_seq, dev_seq, captured, issued, seen, done, mem

Arg(t, r) == [tile |-> t, role |-> r]
AnyRole == {<<Arg(a, r)>> : r \in {"IN", "OUT", "IO"}}

\* One device with one kernel stream; a tile written, and another changed
\* with it.
One == INSTANCE DriverCtrl WITH
  NCtrls <- 1, Tiles <- {a, b}, Kind <- (0 :> "CUDA"),
  NKernelStreams <- (0 :> 1), Policy <- "ASYNC", Modes <- {"IMPLICIT"},
  Accesses <- {<<Arg(a, "OUT")>>, <<Arg(a, "IN"), Arg(b, "IO")>>},
  InitAttached <- {0} \X {a, b}, AllocFlags <- {}, WarnedMoves <- FALSE,
  MaxJobs <- 4

\* Two kernel streams on a device.
Streams == INSTANCE DriverCtrl WITH
  NCtrls <- 1, Tiles <- {a}, Kind <- (0 :> "HIP"),
  NKernelStreams <- (0 :> 2), Policy <- "ASYNC", Modes <- {"IMPLICIT"},
  Accesses <- AnyRole, InitAttached <- {<<0, a>>}, AllocFlags <- {},
  WarnedMoves <- FALSE, MaxJobs <- 3

\* The SYNC policy, with kernels that depend on nothing else.
Sync == INSTANCE DriverCtrl WITH
  NCtrls <- 1, Tiles <- {a, b}, Kind <- (0 :> "OPENCL_GPU"),
  NKernelStreams <- (0 :> 2), Policy <- "SYNC", Modes <- {"IMPLICIT"},
  Accesses <- {<<Arg(a, "IO")>>, <<Arg(b, "IO")>>},
  InitAttached <- {0} \X {a, b}, AllocFlags <- {}, WarnedMoves <- FALSE,
  MaxJobs <- 4

Init ==
  \/ variant = "one" /\ One!Init
  \/ variant = "streams" /\ Streams!Init
  \/ variant = "sync" /\ Sync!Init

Next ==
  /\ UNCHANGED variant
  /\ \/ variant = "one" /\ One!Next
     \/ variant = "streams" /\ Streams!Next
     \/ variant = "sync" /\ Sync!Next

vars == <<variant, One!vars>>
Spec == Init /\ [][Next]_vars

\* No thread or driver stream waits for ever.
NoDeadlock ==
  CASE variant = "one" -> One!NoDeadlock
    [] variant = "streams" -> Streams!NoDeadlock
    [] variant = "sync" -> Sync!NoDeadlock

\* Every access is ordered; with two kernel streams, but for the pairs the
\* code leaves open (Unordered).
DependencesHonoured ==
  CASE variant = "one" -> One!DependencesHonoured
    [] variant = "streams" -> Streams!DependencesHonouredButUnordered
    [] variant = "sync" -> Sync!DependencesHonouredButUnordered

\* With one kernel stream the copies marked valid are, when all is at rest.
CoherentAtRest == variant = "one" => One!CoherentAtRest

\* With one kernel stream the launches behave as if run one by one
\* (TileDataflow).
ImplementsDataflow ==
  /\ variant = "one" => One!Dataflow!Init
  /\ [][variant = "one" => One!Dataflow!Next]_(One!Dataflow!vars)

\* Under the SYNC policy jobs overlap only behind a transfer from the device.
NoOverlapButMoveFrom == variant = "sync" => Sync!NoOverlapButMoveFrom
=============================================================================
