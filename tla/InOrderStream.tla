---------------------------- MODULE InOrderStream ----------------------------
(***************************************************************************)
(* What a task queue and the thread that consumes it are together: a       *)
(* stream that executes the tasks issued on it, each once, in order.       *)
(***************************************************************************)
EXTENDS Naturals, Sequences

CONSTANT Tasks

VARIABLES
  issued,   \* tasks issued, in order
  executed  \* tasks executed, in order

vars == <<issued, executed>>

Init == issued = <<>> /\ executed = <<>>

Issue(t) == issued' = Append(issued, t) /\ UNCHANGED executed

Execute ==
  /\ Len(executed) < Len(issued)
  /\ executed' = Append(executed, issued[Len(executed) + 1])
  /\ UNCHANGED issued

Next == Execute \/ \E t \in Tasks : Issue(t)

Spec == Init /\ [][Next]_vars
=============================================================================
