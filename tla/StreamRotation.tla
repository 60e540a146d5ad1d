---------------------------- MODULE StreamRotation ----------------------------
(***************************************************************************)
(* A kernel stream of a CUDA ctrl over its EXTRA_STREAMS driver streams.   *)
(*                                                                         *)
(* The driver blocks when too many operations are queued on one stream, so *)
(* Ctrl_Cuda_ExecTask moves to the next driver stream every                *)
(* MAX_STREAM_TASKS operations, with an event that makes the new stream    *)
(* wait for the end of the old one.  The streams taken together must still *)
(* be one stream: DriverCtrl, and every wait it drops because "we only     *)
(* have 1 driver kernel stream", relies on that.                           *)
(*                                                                         *)
(* Operations are numbered in the order the queue manager issues them; a   *)
(* kernel and its event are known by that number.                          *)
(***************************************************************************)
EXTENDS Integers, Sequences, SequencesExt

CONSTANTS
  EXTRA_STREAMS,     \* driver streams of one kernel stream
  MAX_STREAM_TASKS,  \* operations before the stream is changed
  Foreign,           \* events of other streams and ctrls
  MaxOps             \* bound: operations issued

ASSUME StreamRotationAssumption ==
  /\ EXTRA_STREAMS \in Nat \ {0}
  /\ MAX_STREAM_TASKS \in Nat \ {0}
  /\ MaxOps \in Nat

VARIABLES
  ops,      \* operations issued: a kernel, or a wait for a foreign event
  count,    \* p_stream_op_count of the stream
  index,    \* p_stream_indexes of the stream
  turns,    \* times the stream was changed; numbers the events of the changes
  driver,   \* what each driver stream has left to do
  running,  \* kernels being executed
  executed, \* kernels finished, in the order they did
  fired     \* events that are complete

vars == <<ops, count, index, turns, driver, running, executed, fired>>
issueVars == <<ops, count, index, turns>>
-----------------------------------------------------------------------------
DriverStream == 0 .. EXTRA_STREAMS - 1

KernelOp == <<"kernel">>
WaitOp(e) == <<"wait", e>>
Op == {KernelOp} \cup {WaitOp(e) : e \in Foreign}

\* Events: of the end of a driver stream, of a kernel, of somebody else.
Turn(n)     == <<"turn", n>>
KernelEv(n) == <<"kernel", n>>
OtherEv(e)  == <<"foreign", e>>

\* Commands of the driver.
Run(n)     == <<"run", n>>
Record(ev) == <<"record", ev>>
Await(ev)  == <<"await", ev>>

\* What an operation, the n-th, enqueues on its driver stream.
Commands(op, n) ==
  IF op = KernelOp THEN <<Run(n), Record(KernelEv(n))>>
                   ELSE <<Await(OtherEv(op[2]))>>

On(s, cmds) == [driver EXCEPT ![s] = @ \o cmds]

Rotates == count + 1 = MAX_STREAM_TASKS

NextIndex == (index + 1) % EXTRA_STREAMS

\* Mutant: the new stream does not wait for the old one.
HandOverUnordered(cmds) ==
  [On(index, <<Record(Turn(turns))>>) EXCEPT ![NextIndex] = @ \o cmds]

\* Mutant: the operation that changes the stream is lost.
HandOverLost(cmds) ==
  [On(index, <<Record(Turn(turns))>>)
     EXCEPT ![NextIndex] = @ \o <<Await(Turn(turns))>>]

\* The end of the old stream is recorded and the new one waits for it.  With
\* one driver stream both are the same.
HandOver(cmds) ==
  [On(index, <<Record(Turn(turns))>>)
     EXCEPT ![NextIndex] = @ \o <<Await(Turn(turns))>> \o cmds]

ExecTask(op) ==
  LET cmds == Commands(op, Len(ops) + 1)
  IN /\ Len(ops) < MaxOps
     /\ ops' = Append(ops, op)
     /\ IF Rotates
        THEN /\ driver' = HandOver(cmds)
             /\ count' = 0
             /\ index' = NextIndex
             /\ turns' = turns + 1
        ELSE /\ driver' = On(index, cmds)
             /\ count' = count + 1
             /\ UNCHANGED <<index, turns>>
     /\ UNCHANGED <<running, executed, fired>>
-----------------------------------------------------------------------------
(* The driver: every stream on its own, each in order.                     *)

HeadIs(s, kind) == driver[s] # <<>> /\ Head(driver[s])[1] = kind
Arg(s) == Head(driver[s])[2]
Taken(s) == [driver EXCEPT ![s] = Tail(@)]

StartKernel(s) ==
  /\ HeadIs(s, "run")
  /\ Arg(s) \notin running
  /\ running' = running \cup {Arg(s)}
  /\ UNCHANGED <<issueVars, driver, executed, fired>>

FinishKernel(s) ==
  /\ HeadIs(s, "run")
  /\ Arg(s) \in running
  /\ running' = running \ {Arg(s)}
  /\ executed' = Append(executed, Arg(s))
  /\ driver' = Taken(s)
  /\ UNCHANGED <<issueVars, fired>>

FireEvent(s) ==
  /\ HeadIs(s, "record")
  /\ fired' = fired \cup {Arg(s)}
  /\ driver' = Taken(s)
  /\ UNCHANGED <<issueVars, running, executed>>

PassWait(s) ==
  /\ HeadIs(s, "await")
  /\ Arg(s) \in fired
  /\ driver' = Taken(s)
  /\ UNCHANGED <<issueVars, running, executed, fired>>

StreamStep(s) ==
  StartKernel(s) \/ FinishKernel(s) \/ FireEvent(s) \/ PassWait(s)

\* Another stream or ctrl completes the job behind event e.
FireForeign(e) ==
  /\ OtherEv(e) \notin fired
  /\ fired' = fired \cup {OtherEv(e)}
  /\ UNCHANGED <<issueVars, driver, running, executed>>
-----------------------------------------------------------------------------
Init ==
  /\ ops = <<>>
  /\ count = 0
  /\ index = 0
  /\ turns = 0
  /\ driver = [s \in DriverStream |-> <<>>]
  /\ running = {}
  /\ executed = <<>>
  /\ fired = {}

Next ==
  \/ \E op \in Op : ExecTask(op)
  \/ \E s \in DriverStream : StreamStep(s)
  \/ \E e \in Foreign : FireForeign(e)

\* The driver executes every stream, and the jobs of others end (JobsFinish
\* of DriverCtrl).
Fairness ==
  /\ \A s \in DriverStream : WF_vars(StreamStep(s))
  /\ \A e \in Foreign : WF_vars(FireForeign(e))

Spec == Init /\ [][Next]_vars /\ Fairness
-----------------------------------------------------------------------------
(* Properties.                                                             *)

Event == {Turn(n) : n \in 0 .. turns} \cup {KernelEv(n) : n \in DOMAIN ops}
           \cup {OtherEv(e) : e \in Foreign}
Command == {Run(n) : n \in DOMAIN ops}
             \cup {Record(ev) : ev \in Event} \cup {Await(ev) : ev \in Event}

\* Kernels of one kernel stream never overlap, on whatever driver streams
\* they are: launches omit the events between them for that reason.
OneKernelAtOnce == \A m, n \in running : m = n

\* A kernel starts only after every event the queue manager made its stream
\* wait for before it, even if the stream was changed in between.
WaitsHonoured ==
  \A n \in running \cup Range(executed) :
    \A m \in 1 .. n : ops[m] # KernelOp => OtherEv(ops[m][2]) \in fired

\* The kernels among operations o, by their numbers.
KernelsOf(o) ==
  LET Upto[n \in 0 .. Len(o)] ==
        IF n = 0 THEN <<>>
        ELSE IF o[n] = KernelOp THEN Append(Upto[n - 1], n) ELSE Upto[n - 1]
  IN Upto[Len(o)]

KernelNumbers == KernelsOf(ops)

Stream == INSTANCE InOrderStream WITH issued <- KernelNumbers,
                                      Tasks <- 1 .. MaxOps

\* The driver streams together are one in-order stream: kernels are executed
\* once each, in the order the queue manager issued them.
ImplementsStream == Stream!Spec

\* Every kernel issued is executed: the waits between streams are no cycle.
KernelsRun ==
  \A n \in 1 .. MaxOps :
    (n \in DOMAIN ops /\ ops[n] = KernelOp) ~> n \in Range(executed)
=============================================================================
