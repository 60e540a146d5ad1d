--------------------------- MODULE TaskQueueProofs ---------------------------
(***************************************************************************)
(* For every capacity, every set of tasks and any number of waiters: the   *)
(* queue with its consumer implements an in-order stream, and a wait for   *)
(* an event returns only once the tasks it covers were evaluated.          *)
(***************************************************************************)
EXTENDS TaskQueue, TLAPS

\* Where the consumer is, in terms of the tasks evaluated and counted.
ConsumerInv ==
  /\ consumer \in {"pop", "found", "free"} =>
       read = Len(evaluated) /\ read = last_finished + 1
  /\ consumer = "found" => read < write
  /\ consumer = "eval" =>
       read = Len(evaluated) + 1 /\ read = last_finished + 2
  /\ consumer = "count" =>
       read = Len(evaluated) /\ read = last_finished + 2
  /\ consumer \in {"free", "count"} => read >= 1

\* What lies in the buffer, while the queue exists.
BufferInv ==
  /\ read <= write
  /\ write = Len(pushed)
  /\ \A i \in Len(evaluated) .. write - 1 : buffer[i] = pushed[i + 1]
  /\ producer = "stored" => write < Size /\ buffer[write] \in Task

\* The inductive invariant.
QueueInv ==
  /\ TypeOK
  /\ consumer # "end" => ConsumerInv /\ BufferInv
  /\ Len(evaluated) <= Len(pushed)
  /\ \A i \in 1 .. Len(evaluated) : evaluated[i] = pushed[i]
  /\ \A i \in 1 .. Len(pushed) : pushed[i] = Destroy => producer = "closed"
  /\ producer = "stored" /\ buffer[write] = Destroy => waiting = {}
  /\ producer = "closed" => waiting = {}
  /\ consumer = "end" => producer = "closed"
  /\ \A w \in waiting : before[w] <= event[w] + 1

\* The invariant holds of an empty queue.
LEMMA InitInv == ASSUME Init PROVE QueueInv
<1>1. TypeOK
  BY TaskQueueAssumption, SMT DEF Init, TypeOK, Slot, Task
<1>2. ConsumerInv /\ BufferInv
  BY TaskQueueAssumption, SMT DEF Init, ConsumerInv, BufferInv, Slot
<1>. QED
  BY <1>1, <1>2, SMT DEF Init, QueueInv

\* The producer and the waiters leave the consumer's invariant alone.
LEMMA StoreKeepsInv ==
  ASSUME QueueInv, NEW t \in Task, PushStore(t), t = Destroy => waiting = {}
  PROVE  QueueInv'
<1>. USE TaskQueueAssumption
<1>1. TypeOK'
  BY SMT DEF QueueInv, TypeOK, PushStore, Slot
<1>2. (consumer # "end" => ConsumerInv)'
  BY SMT DEF QueueInv, PushStore, ConsumerInv
<1>3. (consumer # "end" => BufferInv)'
  BY SMT DEF QueueInv, TypeOK, PushStore, BufferInv, Slot
<1>. QED
  BY <1>1, <1>2, <1>3, SMT DEF QueueInv, TypeOK, PushStore, Slot

\* Publishing a slot lengthens what is pushed by the task stored in it.
LEMMA PublishKeepsInv == ASSUME QueueInv, PushPublish PROVE QueueInv'
<1>. USE TaskQueueAssumption
<1>1. /\ consumer # "end"
      /\ write < Size
      /\ buffer[write] \in Task
      /\ write = Len(pushed)
  BY SMT DEF QueueInv, PushPublish, BufferInv
<1>2. TypeOK'
  BY <1>1, SMT DEF QueueInv, TypeOK, PushPublish, Slot
<1>3. ConsumerInv'
  BY <1>1, SMT DEF QueueInv, TypeOK, PushPublish, ConsumerInv
<1>4. BufferInv'
  <2>1. \A i \in 1 .. Len(pushed) : pushed'[i] = pushed[i]
    BY <1>1, SMT DEF QueueInv, TypeOK, PushPublish
  <2>2. pushed'[write + 1] = buffer[write] /\ Len(pushed') = write + 1
    BY <1>1, SMT DEF QueueInv, TypeOK, PushPublish
  <2>3. ASSUME NEW i \in Len(evaluated) .. write
        PROVE  buffer[i] = pushed'[i + 1]
    <3>1. CASE i = write
      BY <3>1, <2>2
    <3>2. CASE i < write
      <4>1. i + 1 \in 1 .. Len(pushed) /\ i \in Len(evaluated) .. write - 1
        BY <3>2, <1>1, SMT DEF QueueInv, TypeOK
      <4>. QED
        BY <4>1, <2>1, <1>1, SMT DEF QueueInv, BufferInv
    <3>. QED
      BY <3>1, <3>2, SMT DEF QueueInv, TypeOK
  <2>4. write' = write + 1 /\ producer' # "stored"
    BY SMT DEF PushPublish
  <2>5. UNCHANGED <<buffer, read, evaluated>>
    BY SMT DEF PushPublish
  <2>6. read <= write'
    BY <2>4, <1>1, SMT DEF QueueInv, TypeOK, BufferInv
  <2>7. \A i \in Len(evaluated') .. write' - 1 : buffer'[i] = pushed'[i + 1]
    <3>1. Len(evaluated') .. write' - 1 = Len(evaluated) .. write
      BY <2>4, <2>5, SMT DEF QueueInv, TypeOK
    <3>. QED
      BY <3>1, <2>3, <2>5
  <2>. QED
    BY <2>2, <2>4, <2>5, <2>6, <2>7 DEF BufferInv
<1>. QED
  BY <1>1, <1>2, <1>3, <1>4, SMT DEF QueueInv, TypeOK, PushPublish

\* The exit of the process leaves the queue as it was.
LEMMA ExitKeepsInv == ASSUME QueueInv, PushExit PROVE QueueInv'
  BY SMT DEF QueueInv, TypeOK, PushExit, queueVars, ConsumerInv, BufferInv

\* An event recorded covers every task pushed before it.
LEMMA RecordKeepsInv ==
  ASSUME QueueInv, NEW w \in Waiters, Record(w) PROVE QueueInv'
<1>. USE TaskQueueAssumption
<1>1. /\ consumer # "end"
      /\ write = Len(pushed)
  BY SMT DEF QueueInv, Record, BufferInv
<1>2. TypeOK'
  BY <1>1, SMT DEF QueueInv, TypeOK, Record, Recorded, queueVars
<1>3. (ConsumerInv /\ BufferInv)'
  BY <1>1, SMT DEF QueueInv, Record, queueVars, ConsumerInv, BufferInv
<1>4. ASSUME NEW v \in waiting' PROVE before'[v] <= event'[v] + 1
  BY <1>1, SMT DEF QueueInv, TypeOK, Record, Recorded, queueVars
<1>. QED
  BY <1>1, <1>2, <1>3, <1>4, SMT DEF QueueInv, Record, queueVars

\* A waiter that leaves changes nothing of the queue.
LEMMA WaitKeepsInv ==
  ASSUME QueueInv, NEW w \in Waiters, Wait(w) PROVE QueueInv'
  BY SMT DEF QueueInv, TypeOK, Wait, queueVars, ConsumerInv, BufferInv

\* Taking a task moves read to it, never past write.
LEMMA PopKeepsInv == ASSUME QueueInv, PopFind \/ PopTake PROVE QueueInv'
<1>1. CASE PopFind
  BY <1>1, TaskQueueAssumption, SMT
     DEF QueueInv, TypeOK, PopFind, queueVars, ConsumerInv, BufferInv
<1>2. CASE PopTake
  BY <1>2, TaskQueueAssumption, SMT
     DEF QueueInv, TypeOK, PopTake, queueVars, ConsumerInv, BufferInv
<1>. QED
  BY <1>1, <1>2

\* The slot taken holds the next task pushed and not evaluated yet.
LEMMA CurrentIsNext ==
  ASSUME QueueInv, consumer = "eval"
  PROVE  /\ Len(evaluated) < Len(pushed)
         /\ Current = pushed[Len(evaluated) + 1]
         /\ Current \in Task
<1>1. /\ read = Len(evaluated) + 1
      /\ read <= write
      /\ write = Len(pushed)
      /\ \A i \in Len(evaluated) .. write - 1 : buffer[i] = pushed[i + 1]
  BY SMT DEF QueueInv, ConsumerInv, BufferInv
<1>2. Len(evaluated) \in Len(evaluated) .. write - 1
  BY <1>1, SMT DEF QueueInv, TypeOK
<1>3. Current = pushed[Len(evaluated) + 1]
  <2>1. read - 1 = Len(evaluated)
    BY <1>1, SMT DEF QueueInv, TypeOK
  <2>2. buffer[Len(evaluated)] = pushed[Len(evaluated) + 1]
    BY <1>1, <1>2
  <2>. QED
    BY <2>1, <2>2 DEF Current
<1>4. Len(evaluated) + 1 \in 1 .. Len(pushed)
  BY <1>1, SMT DEF QueueInv, TypeOK
<1>. QED
  BY <1>1, <1>3, <1>4, SMT DEF QueueInv, TypeOK

\* What was evaluated stays a prefix of what was pushed.
LEMMA EvalKeepsInv == ASSUME QueueInv, Eval PROVE QueueInv'
<1>1. consumer = "eval"
  BY DEF Eval
<1>2. /\ Len(evaluated) < Len(pushed)
      /\ Current = pushed[Len(evaluated) + 1]
      /\ Current \in Task
  BY <1>1, CurrentIsNext
<1>3. /\ evaluated' = Append(evaluated, Current)
      /\ consumer' = "count"
      /\ UNCHANGED <<queueVars, producer, event, before, waiting, pushed>>
  BY DEF Eval
<1>4. /\ evaluated' \in Seq(Task \cup {NoTask})
      /\ Len(evaluated') = Len(evaluated) + 1
      /\ evaluated'[Len(evaluated) + 1] = Current
      /\ \A i \in 1 .. Len(evaluated) : evaluated'[i] = evaluated[i]
  BY <1>2, <1>3, SMT DEF QueueInv, TypeOK
<1>5. TypeOK'
  BY <1>3, <1>4, SMT DEF QueueInv, TypeOK, queueVars
<1>6. ConsumerInv'
  BY <1>1, <1>3, <1>4, SMT DEF QueueInv, TypeOK, ConsumerInv, queueVars
<1>7. BufferInv'
  BY <1>1, <1>3, <1>4, SMT DEF QueueInv, TypeOK, BufferInv, queueVars
<1>8. ASSUME NEW i \in 1 .. Len(evaluated') PROVE evaluated'[i] = pushed'[i]
  <2>1. CASE i = Len(evaluated) + 1
    BY <2>1, <1>2, <1>3, <1>4
  <2>2. CASE i \in 1 .. Len(evaluated)
    BY <2>2, <1>3, <1>4 DEF QueueInv
  <2>. QED
    BY <2>1, <2>2, <1>4, SMT DEF QueueInv, TypeOK
<1>. QED
  BY <1>1, <1>2, <1>3, <1>4, <1>5, <1>6, <1>7, <1>8, SMT
     DEF QueueInv, TypeOK, queueVars

\* last_finished counts the tasks evaluated.
LEMMA CountKeepsInv == ASSUME QueueInv, Count PROVE QueueInv'
  BY TaskQueueAssumption, SMT
     DEF QueueInv, TypeOK, Count, ConsumerInv, BufferInv

\* A slot is cleared only once its task was evaluated.
LEMMA FreeKeepsInv == ASSUME QueueInv, FreeTask PROVE QueueInv'
<1>. USE TaskQueueAssumption
<1>1. /\ consumer = "free"
      /\ consumer' = "pop"
      /\ UNCHANGED <<read, write, last_finished, producer, event, before,
                     waiting, pushed, evaluated>>
  BY DEF FreeTask
<1>2. read = Len(evaluated) /\ read <= write /\ read >= 1
  BY <1>1, SMT DEF QueueInv, ConsumerInv, BufferInv
<1>3. buffer' \in [Slot -> Task \cup {NoTask}]
  BY <1>2, SMT DEF FreeTask, QueueInv, TypeOK
<1>4. \A i \in Len(evaluated) .. Size - 1 : buffer'[i] = buffer[i]
  BY <1>2, SMT DEF FreeTask, QueueInv, TypeOK, Slot
<1>5. TypeOK'
  BY <1>1, <1>3, SMT DEF QueueInv, TypeOK
<1>6. ConsumerInv'
  BY <1>1, SMT DEF QueueInv, ConsumerInv
<1>7. BufferInv'
  BY <1>1, <1>2, <1>4, SMT DEF QueueInv, TypeOK, BufferInv
<1>8. producer = "stored" => buffer'[write] = buffer[write]
  BY <1>1, <1>2, <1>4, SMT DEF QueueInv, TypeOK, BufferInv
<1>. QED
  BY <1>1, <1>5, <1>6, <1>7, <1>8, SMT DEF QueueInv, TypeOK

\* When the consumer meets DESTROY nobody waits any more.
LEMMA DestroyKeepsInv == ASSUME QueueInv, QueueDestroy PROVE QueueInv'
<1>1. consumer = "eval" /\ Current = Destroy
  BY DEF QueueDestroy
<1>2. /\ Len(evaluated) < Len(pushed)
      /\ pushed[Len(evaluated) + 1] = Destroy
  BY <1>1, CurrentIsNext
<1>3. producer = "closed"
  BY <1>2, SMT DEF QueueInv, TypeOK
<1>4. TypeOK'
  BY TaskQueueAssumption, SMT DEF QueueInv, TypeOK, QueueDestroy
<1>. QED
  BY <1>3, <1>4, SMT DEF QueueInv, QueueDestroy

\* A stuttering step keeps the invariant.
LEMMA StutterKeepsInv == ASSUME QueueInv, UNCHANGED vars PROVE QueueInv'
  BY DEF QueueInv, vars, queueVars, TypeOK, ConsumerInv, BufferInv, Current

\* The invariant is inductive.
LEMMA NextKeepsInv == ASSUME QueueInv, [Next]_vars PROVE QueueInv'
<1>1. CASE Produce
  <2>1. CASE PushDestroy
    BY <2>1, StoreKeepsInv DEF PushDestroy, Task
  <2>2. ASSUME NEW t \in Tasks, PushStore(t) PROVE QueueInv'
    BY <2>2, StoreKeepsInv, TaskQueueAssumption DEF Task
  <2>. QED
    BY <1>1, <2>1, <2>2, PublishKeepsInv, ExitKeepsInv DEF Produce
<1>2. CASE Consume
  BY <1>2, PopKeepsInv, EvalKeepsInv, CountKeepsInv, FreeKeepsInv,
     DestroyKeepsInv DEF Consume
<1>3. CASE \E w \in Waiters : Record(w) \/ Wait(w)
  BY <1>3, RecordKeepsInv, WaitKeepsInv
<1>4. CASE UNCHANGED vars
  BY <1>4, StutterKeepsInv
<1>. QED
  BY <1>1, <1>2, <1>3, <1>4 DEF Next

\* The inductive invariant holds of every queue: slots not yet evaluated hold
\* the tasks pushed, and the consumer counts behind what it evaluated.
THEOREM QueueInvariant == Spec => []QueueInv
<1>1. Init => QueueInv
  BY InitInv
<1>2. QueueInv /\ [Next]_vars => QueueInv'
  BY NextKeepsInv
<1>. QED
  BY <1>1, <1>2, PTL DEF Spec

\* Every variable of the queue has its type, whatever its capacity.
THEOREM TypeCorrect == Spec => []TypeOK
<1>1. QueueInv => TypeOK
  BY DEF QueueInv
<1>. QED
  BY <1>1, QueueInvariant, PTL

\* A wait returns only when every task that was in the queue when its event
\* was recorded has been evaluated: what orders jobs of different streams.
THEOREM WaitTheorem == Spec => WaitMeansEvaluated
<1>1. ASSUME QueueInv, [Next]_vars
      PROVE  [\A w \in waiting \ waiting' : Len(evaluated) >= before[w]]_vars
  <2>1. ASSUME NEW w \in waiting \ waiting', NEW v \in Waiters, Wait(v)
        PROVE  Len(evaluated) >= before[w]
    <3>1. w = v /\ last_finished >= event[w] /\ w \in waiting
      BY <2>1 DEF Wait
    <3>2. consumer # "end" /\ ConsumerInv
      BY <1>1, <3>1, SMT DEF QueueInv
    <3>3. Len(evaluated) >= last_finished + 1
      BY <1>1, <3>2, SMT DEF QueueInv, TypeOK, ConsumerInv
    <3>4. before[w] <= event[w] + 1
      BY <1>1, <3>1 DEF QueueInv
    <3>. QED
      BY <1>1, <3>1, <3>3, <3>4, SMT DEF QueueInv, TypeOK
  <2>2. ASSUME ~\E v \in Waiters : Wait(v)
        PROVE  waiting \ waiting' = {}
    BY <1>1, <2>2, SMT
       DEF Next, Produce, Consume, PushPublish, PushExit, PushDestroy,
           PushStore, PopFind, PopTake, Eval, Count, FreeTask, QueueDestroy,
           Record, vars
  <2>. QED
    BY <2>1, <2>2
<1>. QED
  BY <1>1, QueueInvariant, PTL DEF Spec, WaitMeansEvaluated

\* Each publication issues a task of the abstract stream, each evaluation
\* executes the oldest one left, and nothing else is visible.
LEMMA StepRefines ==
  ASSUME QueueInv, [Next]_vars PROVE [Stream!Next]_(Stream!vars)
<1>1. CASE PushPublish
  <2>1. buffer[write] \in Task
    BY <1>1, SMT DEF QueueInv, BufferInv, PushPublish
  <2>2. Stream!Issue(buffer[write])
    BY <1>1 DEF PushPublish, Stream!Issue
  <2>. QED
    BY <2>1, <2>2 DEF Stream!Next
<1>2. CASE Eval
  <2>1. consumer = "eval"
    BY <1>2 DEF Eval
  <2>2. /\ Len(evaluated) < Len(pushed)
        /\ Current = pushed[Len(evaluated) + 1]
    BY <2>1, CurrentIsNext
  <2>3. Stream!Execute
    BY <1>2, <2>2 DEF Eval, Stream!Execute
  <2>. QED
    BY <2>3 DEF Stream!Next
<1>3. CASE ~PushPublish /\ ~Eval
  <2>1. UNCHANGED <<pushed, evaluated>>
    BY <1>3, SMT
       DEF Next, Produce, Consume, PushExit, PushDestroy, PushStore, PopFind,
           PopTake, Count, FreeTask, QueueDestroy, Record, Wait, vars
  <2>. QED
    BY <2>1 DEF Stream!vars
<1>. QED
  BY <1>1, <1>2, <1>3

\* For every capacity: the queue and its consumer execute the tasks pushed,
\* each once, in the order of the pushes.
THEOREM Refinement == Spec => ImplementsStream
<1>1. Init => Stream!Init
  BY DEF Init, Stream!Init
<1>2. QueueInv /\ [Next]_vars => [Stream!Next]_(Stream!vars)
  BY StepRefines
<1>. QED
  BY <1>1, <1>2, QueueInvariant, PTL DEF Spec, Stream!Spec, ImplementsStream
=============================================================================
