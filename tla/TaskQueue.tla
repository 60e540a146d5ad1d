------------------------------ MODULE TaskQueue ------------------------------
(***************************************************************************)
(* One Ctrl_TaskQueue at the grain of its memory accesses, with its single *)
(* producer (the main thread), the stream thread that consumes it, and     *)
(* threads that wait for events recorded on it                             *)
(* (Ctrl/inc/Core/Ctrl_TaskQueue.h, Ctrl_Cpu_StreamConsume).               *)
(*                                                                         *)
(* The buffer is not circular: write only grows, and a push that finds it  *)
(* at CTRL_TASKQUEUE_SIZE ends the whole process.                          *)
(***************************************************************************)
EXTENDS Integers, Sequences

CONSTANTS
  Tasks,   \* tasks the producer may push
  Size,    \* CTRL_TASKQUEUE_SIZE
  Waiters, \* threads that wait for an event of this queue
  NoTask   \* a slot nobody wrote, or whose task was freed

Destroy == "CTRL_TASK_TYPE_DESTROYCTRL"
Slot == 0 .. Size - 1
Task == Tasks \cup {Destroy}

ASSUME TaskQueueAssumption ==
  /\ Size \in Nat \ {0}
  /\ Destroy \notin Tasks
  /\ NoTask \notin Task

VARIABLES
  buffer, read, write, last_finished,  \* Ctrl_TaskQueue
  producer,   \* "idle", "stored" (slot written, not published), "closed"
              \* (DESTROY was pushed) or "exited" (and all threads with it)
  consumer,   \* "pop", "found", "eval", "count", "free" or "end"
  event,      \* what each waiter waits for; -1 is always finished
  waiting,    \* waiters that poll last_finished
  before,     \* history: tasks in the queue when a waiter's event was recorded
  pushed,     \* history: every task stored in a slot and published
  evaluated   \* history: every task whose evaluation ended

queueVars == <<buffer, read, write, last_finished>>
vars == <<queueVars, producer, consumer, event, before, waiting, pushed,
          evaluated>>

\* The process has not exited: its threads can go on.
Running == producer # "exited"
-----------------------------------------------------------------------------
(* The producer: Ctrl_TaskQueue_Push and Ctrl_CpuEvent_Record.             *)

\* The slot is written first.
PushStore(t) ==
  /\ producer = "idle"
  /\ write < Size
  /\ buffer' = [buffer EXCEPT ![write] = t]
  /\ producer' = "stored"
  /\ UNCHANGED <<read, write, last_finished, consumer, event, before, waiting,
                 pushed, evaluated>>

\* Then write grows, which publishes it.
PushPublish ==
  /\ producer = "stored"
  /\ write' = write + 1
  /\ pushed' = Append(pushed, buffer[write])
  /\ producer' = IF buffer[write] = Destroy THEN "closed" ELSE "idle"
  /\ UNCHANGED <<buffer, read, last_finished, consumer, event, before, waiting,
                 evaluated>>

\* The queue is exhausted: exit ends the process, and with it the consumer,
\* the waiters and every task that is still in the queue. Steps that threads
\* take while exit runs come before this one.
PushExit ==
  /\ producer = "idle"
  /\ write >= Size
  /\ producer' = "exited"
  /\ UNCHANGED <<queueVars, consumer, event, before, waiting, pushed,
                 evaluated>>

\* Mutant: an event recorded in between two tasks.
RecordedEarly == write - 2

\* Mutant: the event waits for a task that is not there.
RecordedLate == write

\* The task an event recorded now waits for: the last one in the queue.
Recorded == write - 1

\* The main thread records an event; waiter w then waits for it (another
\* stream through a WAITEVENT, or the main thread itself).
Record(w) ==
  /\ producer = "idle"
  /\ w \notin waiting
  /\ event' = [event EXCEPT ![w] = Recorded]
  /\ before' = [before EXCEPT ![w] = Len(pushed)]
  /\ waiting' = waiting \cup {w}
  /\ UNCHANGED <<queueVars, producer, consumer, pushed, evaluated>>

\* The queue asks of its users that nobody waits on it any more when they
\* push DESTROY: its memory is released.
PushDestroy ==
  /\ waiting = {}
  /\ PushStore(Destroy)
-----------------------------------------------------------------------------
(* The waiters: Ctrl_CpuEvent_Wait.                                        *)

Wait(w) ==
  /\ Running
  /\ w \in waiting
  /\ last_finished >= event[w]
  /\ waiting' = waiting \ {w}
  /\ UNCHANGED <<queueVars, producer, consumer, event, before, pushed,
                 evaluated>>
-----------------------------------------------------------------------------
(* The consumer: Ctrl_TaskQueue_Pop and the loop of the stream thread.     *)

\* The polling loop sees a published task.
PopFind ==
  /\ consumer = "pop"
  /\ write # read
  /\ consumer' = "found"
  /\ UNCHANGED <<queueVars, producer, event, before, waiting, pushed,
                 evaluated>>

\* read grows; the task is the slot behind it.
PopTake ==
  /\ consumer = "found"
  /\ read' = read + 1
  /\ consumer' = "eval"
  /\ UNCHANGED <<buffer, write, last_finished, producer, event, before,
                 waiting, pushed, evaluated>>

\* Mutant: the slot after the one taken.
CurrentNext == buffer[read % Size]

\* The task taken.
Current == buffer[read - 1]

\* The task is evaluated where it lies.
Eval ==
  /\ consumer = "eval"
  /\ Current # Destroy
  /\ evaluated' = Append(evaluated, Current)
  /\ consumer' = "count"
  /\ UNCHANGED <<queueVars, producer, event, before, waiting, pushed>>

Count ==
  /\ consumer = "count"
  /\ last_finished' = last_finished + 1
  /\ consumer' = "free"
  /\ UNCHANGED <<buffer, read, write, producer, event, before, waiting, pushed,
                 evaluated>>

\* Kernel and host tasks are kept until the queue is destroyed, others are
\* cleared at once.
FreeTask ==
  /\ consumer = "free"
  /\ \/ buffer' = [buffer EXCEPT ![read - 1] = NoTask]
     \/ buffer' = buffer
  /\ consumer' = "pop"
  /\ UNCHANGED <<read, write, last_finished, producer, event, before, waiting,
                 pushed, evaluated>>

\* A DESTROY task ends the loop; the queue is reset and its memory released.
QueueDestroy ==
  /\ consumer = "eval"
  /\ Current = Destroy
  /\ read' = 0
  /\ write' = 0
  /\ last_finished' = 0
  /\ consumer' = "end"
  /\ UNCHANGED <<buffer, producer, event, before, waiting, pushed, evaluated>>
-----------------------------------------------------------------------------
Init ==
  /\ buffer = [i \in Slot |-> NoTask]
  /\ read = 0
  /\ write = 0
  /\ last_finished = -1
  /\ producer = "idle"
  /\ consumer = "pop"
  /\ event = [w \in Waiters |-> -1]
  /\ before = [w \in Waiters |-> 0]
  /\ waiting = {}
  /\ pushed = <<>>
  /\ evaluated = <<>>

Produce == \/ PushPublish
           \/ PushExit
           \/ PushDestroy
           \/ \E t \in Tasks : PushStore(t)
Consume ==
  /\ Running
  /\ PopFind \/ PopTake \/ Eval \/ Count \/ FreeTask \/ QueueDestroy

Next == Produce \/ Consume \/ \E w \in Waiters : Record(w) \/ Wait(w)

\* The consumer and the waiters spin; a push once begun ends. A process that
\* exited has none of them any more.
Fairness ==
  /\ WF_vars(Consume)
  /\ WF_vars(PushPublish)
  /\ \A w \in Waiters : WF_vars(Wait(w))

Spec == Init /\ [][Next]_vars /\ Fairness
-----------------------------------------------------------------------------
(* Properties.                                                             *)

\* Every variable has its type.
TypeOK ==
  /\ buffer \in [Slot -> Task \cup {NoTask}]
  /\ read \in 0 .. Size
  /\ write \in 0 .. Size
  /\ last_finished \in -1 .. Size - 1
  /\ producer \in {"idle", "stored", "closed", "exited"}
  /\ consumer \in {"pop", "found", "eval", "count", "free", "end"}
  /\ event \in [Waiters -> -1 .. Size - 1]
  /\ before \in [Waiters -> Nat]
  /\ waiting \subseteq Waiters
  /\ pushed \in Seq(Task)
  /\ evaluated \in Seq(Task \cup {NoTask})

\* A wait returns only when every task that was in the queue when the event
\* was recorded has been evaluated.
WaitMeansEvaluated ==
  [][\A w \in waiting \ waiting' : Len(evaluated) >= before[w]]_vars

\* Together with its consumer the queue is an in-order stream.
Stream == INSTANCE InOrderStream WITH issued <- pushed, executed <- evaluated,
                                      Tasks <- Task
ImplementsStream == Stream!Spec

\* Every wait for an event returns, as the tasks before it are all executed,
\* unless a push into the exhausted queue ends the process first
\* (Ctrl_CpuEvent_Wait, Ctrl_TaskQueue_Push).
WaitsReturn ==
  \A w \in Waiters : w \in waiting ~> (w \notin waiting \/ ~Running)
=============================================================================
