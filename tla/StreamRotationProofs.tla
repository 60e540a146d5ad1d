------------------------- MODULE StreamRotationProofs -------------------------
(***************************************************************************)
(* For any number of driver streams, any MAX_STREAM_TASKS and any kernels  *)
(* and waits: the driver streams that Ctrl_Cuda_ExecTask rotates over are  *)
(* together one in-order stream.                                           *)
(*                                                                         *)
(* The argument: on its driver stream, a command has before it whatever it *)
(* must follow, or the wait for the turn behind which that was issued; and *)
(* the event of a turn fires when all that was issued before it is over.   *)
(***************************************************************************)
EXTENDS StreamRotation, SequenceTheorems, WellFoundedInduction, TLAPS

\* The first operation behind turn k.
Behind(k) == (k + 1) * MAX_STREAM_TASKS

AnyEvent == ({"turn", "kernel"} \X Nat) \cup ({"foreign"} \X Foreign)
AnyCommand == ({"run"} \X Nat) \cup ({"record", "await"} \X AnyEvent)

(* Of operations o, when those of x are executed, events f have fired and  *)
(* the driver streams have D left to do.                                   *)

\* The command that the end of operation m depends on, and whether it is over.
Pending(o, m) == IF o[m] = KernelOp THEN Run(m) ELSE Await(OtherEv(o[m][2]))
Complete(o, x, f, m) == IF o[m] = KernelOp THEN m \in x
                                           ELSE OtherEv(o[m][2]) \in f

\* What is at place j of stream s, or will be, comes after operation m.
Follows(o, x, f, D, s, j, m) ==
  \/ Complete(o, x, f, m)
  \/ \E i \in 1 .. j - 1 :
       /\ i \in DOMAIN D[s]
       /\ \/ D[s][i] = Pending(o, m)
          \/ \E k \in Nat : D[s][i] = Await(Turn(k)) /\ m < Behind(k)

\* A kernel comes after every operation before it, the end of a driver stream
\* after every operation before the turn.
InOrder(o, x, f, D) ==
  \A s \in DriverStream : \A j \in DOMAIN D[s] :
    /\ \A n \in Nat : D[s][j] = Run(n) =>
         \A m \in 1 .. n - 1 : Follows(o, x, f, D, s, j, m)
    /\ \A k \in Nat : D[s][j] = Record(Turn(k)) =>
         /\ Behind(k) <= Len(o) + 1
         /\ \A m \in 1 .. Behind(k) - 1 : Follows(o, x, f, D, s, j, m)

\* The kernels that are left are on one stream each, once.
RunsLeft(o, x, D) ==
  /\ \A s \in DriverStream : \A j \in DOMAIN D[s] : \A n \in Nat :
       D[s][j] = Run(n) => n \in DOMAIN o /\ o[n] = KernelOp /\ n \notin x
  /\ \A s, t \in DriverStream : \A i \in DOMAIN D[s], j \in DOMAIN D[t] :
       D[s][i] = D[t][j] /\ D[s][i][1] = "run" => s = t /\ i = j

DriverInv(o, x, f, D) ==
  /\ D \in [DriverStream -> Seq(AnyCommand)]
  /\ InOrder(o, x, f, D)
  /\ RunsLeft(o, x, D)

CountInv ==
  /\ ops \in Seq(Op)
  /\ count \in 0 .. MAX_STREAM_TASKS - 1
  /\ turns \in Nat
  /\ index \in DriverStream
  /\ Len(ops) - count + MAX_STREAM_TASKS = Behind(turns)
  /\ executed \in Seq(Nat)

Over(m) == Complete(ops, Range(executed), fired, m)

\* The event of a turn has fired: all that was issued before it is over.
TurnInv ==
  \A k \in Nat : Turn(k) \in fired =>
    Behind(k) <= Len(ops) + 1 /\ \A m \in 1 .. Behind(k) - 1 : Over(m)

\* What was issued since the last turn is over or on the current stream, which
\* starts with the wait for that turn.
CurrentInv ==
  /\ \A m \in DOMAIN ops : m >= Len(ops) - count =>
       Over(m) \/ \E i \in DOMAIN driver[index] : driver[index][i] = Pending(ops, m)
  /\ turns > 0 =>
       \/ Turn(turns - 1) \in fired
       \/ \E i \in DOMAIN driver[index] : driver[index][i] = Await(Turn(turns - 1))

RunInv ==
  /\ \A n \in running : \E s \in DriverStream :
       driver[s] # <<>> /\ driver[s][1] = Run(n)
  /\ \A n \in running \cup Range(executed) :
       n \in DOMAIN ops /\ ops[n] = KernelOp /\ \A m \in 1 .. n - 1 : Over(m)

\* The inductive invariant.
RotationInv ==
  /\ CountInv
  /\ DriverInv(ops, Range(executed), fired, driver)
  /\ TurnInv
  /\ CurrentInv
  /\ RunInv

\* What was executed is the beginning of what was issued.
PrefixInv ==
  /\ Len(executed) <= Len(KernelNumbers)
  /\ \A i \in DOMAIN executed : executed[i] = KernelNumbers[i]
-----------------------------------------------------------------------------
(* Commands on driver streams.                                             *)

Put(D, s, c) == [D EXCEPT ![s] = Append(@, c)]
Drop(D, s) == [D EXCEPT ![s] = Tail(@)]

\* A sequence with one more element.
LEMMA Appended ==
  ASSUME NEW E, NEW q \in Seq(E), NEW e \in E
  PROVE  /\ Append(q, e) \in Seq(E) /\ Len(q) \in Nat /\ Len(Append(q, e)) = Len(q) + 1
         /\ DOMAIN q = 1 .. Len(q)
         /\ DOMAIN Append(q, e) = DOMAIN q \cup {Len(q) + 1}
         /\ \A i \in DOMAIN q : Append(q, e)[i] = q[i]
         /\ Append(q, e)[Len(q) + 1] = e
  BY SMT

\* Where the commands are once one more is enqueued on stream s.
LEMMA PutPlaces ==
  ASSUME NEW D \in [DriverStream -> Seq(AnyCommand)], NEW s \in DriverStream,
         NEW c \in AnyCommand
  PROVE  /\ Put(D, s, c) \in [DriverStream -> Seq(AnyCommand)]
         /\ \A t \in DriverStream : t # s => Put(D, s, c)[t] = D[t]
         /\ DOMAIN Put(D, s, c)[s] = DOMAIN D[s] \cup {Len(D[s]) + 1}
         /\ \A i \in DOMAIN D[s] : Put(D, s, c)[s][i] = D[s][i]
         /\ Put(D, s, c)[s][Len(D[s]) + 1] = c
         /\ Len(D[s]) \in Nat /\ DOMAIN D[s] = 1 .. Len(D[s])
         /\ Len(Put(D, s, c)[s]) = Len(D[s]) + 1
<1>. HIDE DEF AnyCommand
<1>1. /\ \A t \in DriverStream : t # s => Put(D, s, c)[t] = D[t]
      /\ Put(D, s, c)[s] = Append(D[s], c)
      /\ DOMAIN Put(D, s, c) = DriverStream
  BY DEF Put
<1>2. D[s] \in Seq(AnyCommand)
  OBVIOUS
<1>3. /\ Append(D[s], c) \in Seq(AnyCommand)
      /\ DOMAIN Append(D[s], c) = DOMAIN D[s] \cup {Len(D[s]) + 1}
      /\ \A i \in DOMAIN D[s] : Append(D[s], c)[i] = D[s][i]
      /\ Append(D[s], c)[Len(D[s]) + 1] = c
      /\ Len(D[s]) \in Nat /\ DOMAIN D[s] = 1 .. Len(D[s])
      /\ Len(Append(D[s], c)) = Len(D[s]) + 1
  BY <1>2, SMT
<1>4. Put(D, s, c) \in [DriverStream -> Seq(AnyCommand)]
  BY <1>1, <1>3 DEF Put
<1>. QED
  BY <1>1, <1>3, <1>4

\* Where the commands are once the first of stream s is gone.
LEMMA DropPlaces ==
  ASSUME NEW D \in [DriverStream -> Seq(AnyCommand)], NEW s \in DriverStream,
         D[s] # <<>>
  PROVE  /\ Drop(D, s) \in [DriverStream -> Seq(AnyCommand)]
         /\ \A t \in DriverStream : t # s => Drop(D, s)[t] = D[t]
         /\ Head(D[s]) = D[s][1] /\ 1 \in DOMAIN D[s]
         /\ \A i \in DOMAIN Drop(D, s)[s] :
              /\ i \in Nat \ {0} /\ i + 1 \in DOMAIN D[s]
              /\ Drop(D, s)[s][i] = D[s][i + 1]
         /\ \A i \in DOMAIN D[s] :
              i \in Nat \ {0} /\ (i # 1 => i - 1 \in DOMAIN Drop(D, s)[s])
<1>. HIDE DEF AnyCommand
<1>1. /\ \A t \in DriverStream : t # s => Drop(D, s)[t] = D[t]
      /\ Drop(D, s)[s] = Tail(D[s])
      /\ DOMAIN Drop(D, s) = DriverStream
  BY DEF Drop
<1>2. D[s] \in Seq(AnyCommand)
  OBVIOUS
<1>3. /\ Tail(D[s]) \in Seq(AnyCommand)
      /\ Head(D[s]) = D[s][1] /\ 1 \in DOMAIN D[s]
      /\ \A i \in DOMAIN Tail(D[s]) :
           /\ i \in Nat \ {0} /\ i + 1 \in DOMAIN D[s]
           /\ Tail(D[s])[i] = D[s][i + 1]
      /\ \A i \in DOMAIN D[s] :
           i \in Nat \ {0} /\ (i # 1 => i - 1 \in DOMAIN Tail(D[s]))
  <2>1. /\ Tail(D[s]) \in Seq(AnyCommand) /\ Head(D[s]) = D[s][1]
        /\ Len(Tail(D[s])) = Len(D[s]) - 1
        /\ \A i \in 1 .. Len(Tail(D[s])) : Tail(D[s])[i] = D[s][i + 1]
    BY <1>2, HeadTailProperties
  <2>2. /\ Len(D[s]) \in Nat \ {0} /\ DOMAIN D[s] = 1 .. Len(D[s])
        /\ DOMAIN Tail(D[s]) = 1 .. Len(Tail(D[s]))
    BY <1>2, <2>1, SMT
  <2>. QED
    BY <2>1, <2>2, SMT
<1>4. Drop(D, s) \in [DriverStream -> Seq(AnyCommand)]
  BY <1>1, <1>3 DEF Drop
<1>. QED
  BY <1>1, <1>3, <1>4

\* A command keeps its place when one is enqueued behind it.
LEMMA FollowsPut ==
  ASSUME NEW o, NEW x, NEW f, NEW D, D \in [DriverStream -> Seq(AnyCommand)],
         NEW s \in DriverStream, NEW c \in AnyCommand
  PROVE  \A t \in DriverStream : \A j, m :
           Follows(o, x, f, D, t, j, m) => Follows(o, x, f, Put(D, s, c), t, j, m)
<1>. DEFINE E == Put(D, s, c)
<1>1. /\ E \in [DriverStream -> Seq(AnyCommand)]
      /\ \A t \in DriverStream : t # s => E[t] = D[t]
      /\ DOMAIN E[s] = DOMAIN D[s] \cup {Len(D[s]) + 1}
      /\ \A i \in DOMAIN D[s] : E[s][i] = D[s][i]
  BY PutPlaces
<1>. HIDE DEF E
<1>2. \A t \in DriverStream : \A i \in DOMAIN D[t] :
        i \in DOMAIN E[t] /\ E[t][i] = D[t][i]
  BY <1>1
<1>3. \A t \in DriverStream : \A j, m :
        Follows(o, x, f, D, t, j, m) => Follows(o, x, f, E, t, j, m)
  BY <1>2 DEF Follows
<1>. QED
  BY <1>3 DEF E

\* A command that comes after all it must follow may be enqueued.
LEMMA PutKeepsDriver ==
  ASSUME NEW o, NEW x, NEW f, NEW D, DriverInv(o, x, f, D),
         NEW s \in DriverStream, NEW c \in AnyCommand,
         \A n \in Nat : c = Run(n) =>
           /\ n \in DOMAIN o /\ o[n] = KernelOp /\ n \notin x
           /\ \A t \in DriverStream : \A i \in DOMAIN D[t] : D[t][i] # c
           /\ \A m \in 1 .. n - 1 : Follows(o, x, f, D, s, Len(D[s]) + 1, m),
         \A k \in Nat : c = Record(Turn(k)) =>
           /\ Behind(k) <= Len(o) + 1
           /\ \A m \in 1 .. Behind(k) - 1 :
                Follows(o, x, f, D, s, Len(D[s]) + 1, m)
  PROVE  DriverInv(o, x, f, Put(D, s, c))
<1>. DEFINE E == Put(D, s, c)
            last == Len(D[s]) + 1
<1>1. D \in [DriverStream -> Seq(AnyCommand)]
  BY DEF DriverInv
<1>2. /\ E \in [DriverStream -> Seq(AnyCommand)]
      /\ \A t \in DriverStream : t # s => E[t] = D[t]
      /\ DOMAIN E[s] = DOMAIN D[s] \cup {last}
      /\ \A i \in DOMAIN D[s] : E[s][i] = D[s][i]
      /\ E[s][last] = c
  BY <1>1, PutPlaces
<1>3. \A t \in DriverStream : \A j \in DOMAIN E[t] :
        \/ j \in DOMAIN D[t] /\ E[t][j] = D[t][j]
        \/ t = s /\ j = last /\ E[t][j] = c
  BY <1>2
<1>4. \A t \in DriverStream : \A j, m :
        Follows(o, x, f, D, t, j, m) => Follows(o, x, f, E, t, j, m)
  BY <1>1, FollowsPut
<1>. HIDE DEF E, last
<1>5. InOrder(o, x, f, E)
  <2>. SUFFICES ASSUME NEW t \in DriverStream, NEW j \in DOMAIN E[t]
                PROVE  /\ \A n \in Nat : E[t][j] = Run(n) =>
                            \A m \in 1 .. n - 1 : Follows(o, x, f, E, t, j, m)
                       /\ \A k \in Nat : E[t][j] = Record(Turn(k)) =>
                            /\ Behind(k) <= Len(o) + 1
                            /\ \A m \in 1 .. Behind(k) - 1 :
                                 Follows(o, x, f, E, t, j, m)
    BY DEF InOrder
  <2>1. CASE j \in DOMAIN D[t] /\ E[t][j] = D[t][j]
    BY <1>4, <2>1 DEF DriverInv, InOrder
  <2>2. CASE t = s /\ j = last /\ E[t][j] = c
    BY <1>4, <2>2 DEF last
  <2>. QED
    BY <1>3, <2>1, <2>2
<1>6. RunsLeft(o, x, E)
  <2>1. \A t \in DriverStream : \A j \in DOMAIN E[t] : \A n \in Nat :
          E[t][j] = Run(n) => n \in DOMAIN o /\ o[n] = KernelOp /\ n \notin x
    BY <1>3 DEF DriverInv, RunsLeft
  <2>2. c[1] = "run" => \E n \in Nat : c = Run(n)
    <3>1. c \in {"run"} \X Nat \/ c \in {"record", "await"} \X AnyEvent
      BY DEF AnyCommand
    <3>. HIDE DEF AnyEvent
    <3>2. CASE c \in {"run"} \X Nat
      BY <3>2, SMT DEF Run
    <3>3. CASE c \in {"record", "await"} \X AnyEvent
      BY <3>3, SMT
    <3>. QED
      BY <3>1, <3>2, <3>3
  <2>3. c[1] = "run" =>
          \A t \in DriverStream : \A i \in DOMAIN D[t] : D[t][i] # c
    BY <2>2
  <2>4. \A t, u \in DriverStream : \A i \in DOMAIN E[t], j \in DOMAIN E[u] :
          E[t][i] = E[u][j] /\ E[t][i][1] = "run" => t = u /\ i = j
    <3>. SUFFICES ASSUME NEW t \in DriverStream, NEW u \in DriverStream,
                         NEW i \in DOMAIN E[t], NEW j \in DOMAIN E[u],
                         E[t][i] = E[u][j], E[t][i][1] = "run"
                  PROVE  t = u /\ i = j
      OBVIOUS
    <3>1. CASE /\ i \in DOMAIN D[t] /\ E[t][i] = D[t][i]
               /\ j \in DOMAIN D[u] /\ E[u][j] = D[u][j]
      <4>1. D[t][i] = D[u][j] /\ D[t][i][1] = "run"
        BY <3>1
      <4>. QED
        BY <3>1, <4>1 DEF DriverInv, RunsLeft
    <3>2. CASE \/ t = s /\ i = last /\ E[t][i] = c
               \/ u = s /\ j = last /\ E[u][j] = c
      <4>1. c[1] = "run" /\ E[t][i] = c /\ E[u][j] = c
        BY <3>2
      <4>2. t = s /\ i = last /\ u = s /\ j = last
        BY <1>3, <2>3, <4>1
      <4>. QED
        BY <4>2
    <3>. QED
      BY <1>3, <3>1, <3>2
  <2>. QED
    BY <2>1, <2>4 DEF RunsLeft
<1>. QED
  BY <1>2, <1>5, <1>6 DEF DriverInv, E

\* The first command of a stream goes when what it stands for is over.
LEMMA DropKeepsDriver ==
  ASSUME NEW o, NEW x, NEW f, NEW D, DriverInv(o, x, f, D),
         Len(o) \in Nat, DOMAIN o = 1 .. Len(o),
         NEW s \in DriverStream, D[s] # <<>>,
         NEW y, NEW g, x \subseteq y, f \subseteq g,
         \A n \in y \ x : D[s][1] = Run(n),
         \A m \in DOMAIN o : D[s][1] = Pending(o, m) => Complete(o, y, g, m),
         \A k \in Nat : D[s][1] = Await(Turn(k)) =>
           \A m \in DOMAIN o : m < Behind(k) => Complete(o, y, g, m)
  PROVE  DriverInv(o, y, g, Drop(D, s))
<1>. DEFINE E == Drop(D, s)
<1>1. D \in [DriverStream -> Seq(AnyCommand)]
  BY DEF DriverInv
<1>2. /\ E \in [DriverStream -> Seq(AnyCommand)]
      /\ \A t \in DriverStream : t # s => E[t] = D[t]
      /\ 1 \in DOMAIN D[s]
      /\ \A i \in DOMAIN E[s] :
           i \in Nat \ {0} /\ i + 1 \in DOMAIN D[s] /\ E[s][i] = D[s][i + 1]
      /\ \A i \in DOMAIN D[s] :
           i \in Nat \ {0} /\ (i # 1 => i - 1 \in DOMAIN E[s])
  BY <1>1, DropPlaces
<1>. HIDE DEF E
<1>3. \A m : Complete(o, x, f, m) => Complete(o, y, g, m)
  BY DEF Complete
<1>4. ASSUME NEW t \in DriverStream, t # s, NEW j, NEW m,
             Follows(o, x, f, D, t, j, m)
      PROVE  Follows(o, y, g, E, t, j, m)
  BY <1>2, <1>3, <1>4 DEF Follows
<1>5. ASSUME NEW j \in DOMAIN E[s], NEW m \in DOMAIN o,
             Follows(o, x, f, D, s, j + 1, m)
      PROVE  Follows(o, y, g, E, s, j, m)
  <2>1. CASE Complete(o, x, f, m)
    BY <1>3, <2>1 DEF Follows
  <2>2. ASSUME NEW i \in 1 .. j, i \in DOMAIN D[s], NEW c, D[s][i] = c, i # 1
        PROVE  i - 1 \in 1 .. j - 1 /\ i - 1 \in DOMAIN E[s] /\ E[s][i - 1] = c
    <3>1. i - 1 \in DOMAIN E[s] /\ i \in Nat /\ j \in Nat
      BY <1>2, <2>2
    <3>2. E[s][i - 1] = D[s][(i - 1) + 1] /\ (i - 1) + 1 = i
      BY <1>2, <3>1, SMT
    <3>3. i - 1 \in 1 .. j - 1
      BY <2>2, <3>1, SMT
    <3>. QED
      BY <2>2, <3>1, <3>2, <3>3
  <2>3. j \in Nat /\ (j + 1) - 1 = j
    BY <1>2, SMT
  <2>4. ASSUME NEW i \in 1 .. j, i \in DOMAIN D[s], D[s][i] = Pending(o, m)
        PROVE  Follows(o, y, g, E, s, j, m)
    <3>1. CASE i = 1
      BY <2>4, <3>1 DEF Follows
    <3>2. CASE i # 1
      BY <2>2, <2>4, <3>2 DEF Follows
    <3>. QED
      BY <3>1, <3>2
  <2>5. ASSUME NEW i \in 1 .. j, i \in DOMAIN D[s], NEW k \in Nat,
               D[s][i] = Await(Turn(k)), m < Behind(k)
        PROVE  Follows(o, y, g, E, s, j, m)
    <3>1. CASE i = 1
      BY <2>5, <3>1 DEF Follows
    <3>2. CASE i # 1
      BY <2>2, <2>5, <3>2 DEF Follows
    <3>. QED
      BY <3>1, <3>2
  <2>. QED
    BY <1>5, <2>1, <2>3, <2>4, <2>5 DEF Follows
<1>6. ASSUME NEW t \in DriverStream, NEW j \in DOMAIN E[t], NEW h \in Nat,
             h <= Len(o) + 1,
             \A l \in DOMAIN D[t] : D[t][l] = E[t][j] =>
               \A m \in 1 .. h - 1 : Follows(o, x, f, D, t, l, m)
      PROVE  \A m \in 1 .. h - 1 : Follows(o, y, g, E, t, j, m)
  <2>1. CASE t # s
    BY <1>2, <1>4, <1>6, <2>1
  <2>2. CASE t = s
    <3>1. j + 1 \in DOMAIN D[s] /\ D[s][j + 1] = E[s][j]
      BY <1>2, <2>2
    <3>2. \A m \in 1 .. h - 1 : m \in DOMAIN o
      BY <1>6, SMT
    <3>. QED
      BY <1>5, <1>6, <2>2, <3>1, <3>2
  <2>. QED
    BY <2>1, <2>2
<1>7. \A t \in DriverStream : \A j \in DOMAIN E[t] :
        \E i \in DOMAIN D[t] : /\ E[t][j] = D[t][i]
                               /\ t # s => i = j
                               /\ t = s => i = j + 1
  BY <1>2
<1>8. \A t \in DriverStream : \A j \in DOMAIN E[t] :
        \A n \in Nat : E[t][j] = Run(n) =>
          n \in DOMAIN o /\ o[n] = KernelOp /\ n \notin x
  BY <1>7 DEF DriverInv, RunsLeft
<1>9. InOrder(o, y, g, E)
  <2>. SUFFICES ASSUME NEW t \in DriverStream, NEW j \in DOMAIN E[t]
                PROVE  /\ \A n \in Nat : E[t][j] = Run(n) =>
                            \A m \in 1 .. n - 1 : Follows(o, y, g, E, t, j, m)
                       /\ \A k \in Nat : E[t][j] = Record(Turn(k)) =>
                            /\ Behind(k) <= Len(o) + 1
                            /\ \A m \in 1 .. Behind(k) - 1 :
                                 Follows(o, y, g, E, t, j, m)
    BY DEF InOrder
  <2>1. ASSUME NEW n \in Nat, E[t][j] = Run(n)
        PROVE  \A m \in 1 .. n - 1 : Follows(o, y, g, E, t, j, m)
    <3>1. n <= Len(o) + 1
      BY <1>8, <2>1, SMT
    <3>2. \A l \in DOMAIN D[t] : D[t][l] = E[t][j] =>
            \A m \in 1 .. n - 1 : Follows(o, x, f, D, t, l, m)
      BY <2>1 DEF DriverInv, InOrder
    <3>. QED
      BY <1>6, <3>1, <3>2
  <2>2. ASSUME NEW k \in Nat, E[t][j] = Record(Turn(k))
        PROVE  /\ Behind(k) <= Len(o) + 1
               /\ \A m \in 1 .. Behind(k) - 1 : Follows(o, y, g, E, t, j, m)
    <3>1. /\ Behind(k) <= Len(o) + 1
          /\ \A l \in DOMAIN D[t] : D[t][l] = E[t][j] =>
               \A m \in 1 .. Behind(k) - 1 : Follows(o, x, f, D, t, l, m)
      BY <1>7, <2>2 DEF DriverInv, InOrder
    <3>2. Behind(k) \in Nat
      BY StreamRotationAssumption, SMT DEF Behind
    <3>. QED
      BY <1>6, <3>1, <3>2
  <2>. QED
    BY <2>1, <2>2
<1>10. RunsLeft(o, y, E)
  <2>1. ASSUME NEW t \in DriverStream, NEW j \in DOMAIN E[t], NEW n \in Nat,
               E[t][j] = Run(n)
        PROVE  n \notin y
    <3>1. PICK i \in DOMAIN D[t] : /\ D[t][i] = Run(n)
                                   /\ t # s => i = j
                                   /\ t = s => i = j + 1
      BY <1>7, <2>1
    <3>2. ASSUME n \in y \ x PROVE FALSE
      <4>1. D[s][1] = Run(n) /\ D[t][i][1] = "run"
        BY <3>1, <3>2 DEF Run
      <4>2. t = s /\ i = 1
        BY <1>2, <3>1, <4>1 DEF DriverInv, RunsLeft
      <4>3. j + 1 = 1 /\ j \in Nat \ {0}
        BY <1>2, <3>1, <4>2
      <4>. QED
        BY <4>3, SMT
    <3>. QED
      BY <1>8, <2>1, <3>2
  <2>2. ASSUME NEW t \in DriverStream, NEW u \in DriverStream,
               NEW i \in DOMAIN E[t], NEW j \in DOMAIN E[u],
               E[t][i] = E[u][j], E[t][i][1] = "run"
        PROVE  t = u /\ i = j
    <3>1. PICK a \in DOMAIN D[t] : /\ E[t][i] = D[t][a]
                                   /\ t # s => a = i
                                   /\ t = s => a = i + 1
      BY <1>7
    <3>2. PICK b \in DOMAIN D[u] : /\ E[u][j] = D[u][b]
                                   /\ u # s => b = j
                                   /\ u = s => b = j + 1
      BY <1>7
    <3>3. D[t][a] = D[u][b] /\ D[t][a][1] = "run"
      BY <2>2, <3>1, <3>2
    <3>4. t = u /\ a = b
      BY <3>3 DEF DriverInv, RunsLeft
    <3>5. CASE t # s
      BY <3>1, <3>2, <3>4, <3>5
    <3>6. CASE t = s
      <4>1. i \in Nat /\ j \in Nat /\ i + 1 = j + 1
        BY <1>2, <3>1, <3>2, <3>4, <3>6
      <4>. QED
        BY <3>4, <4>1, SMT
    <3>. QED
      BY <3>5, <3>6
  <2>. QED
    BY <1>8, <2>1, <2>2 DEF RunsLeft
<1>. QED
  BY <1>2, <1>9, <1>10 DEF DriverInv, E

\* One more operation changes nothing for those before it.
LEMMA IssueKeepsDriver ==
  ASSUME NEW o \in Seq(Op), NEW op \in Op, NEW x, NEW f, NEW D,
         DriverInv(o, x, f, D)
  PROVE  DriverInv(Append(o, op), x, f, D)
<1>. DEFINE p == Append(o, op)
<1>. HIDE DEF Op
<1>1. /\ Len(o) \in Nat /\ Len(p) = Len(o) + 1
      /\ DOMAIN o = 1 .. Len(o) /\ DOMAIN o \subseteq DOMAIN p
      /\ \A m \in DOMAIN o : p[m] = o[m]
  BY SMT
<1>. HIDE DEF p
<1>2. ASSUME NEW m \in DOMAIN o
      PROVE  \A t, j : Follows(o, x, f, D, t, j, m) => Follows(p, x, f, D, t, j, m)
  BY <1>1, <1>2 DEF Follows, Complete, Pending
<1>3. \A k \in Nat : Behind(k) \in Nat
  BY StreamRotationAssumption, SMT DEF Behind
<1>4. \A h \in Nat : h <= Len(o) + 1 =>
        /\ h <= Len(p) + 1
        /\ \A m \in 1 .. h - 1 : m \in DOMAIN o
  BY <1>1, SMT
<1>5. \A n \in DOMAIN o : n \in Nat /\ n <= Len(o) + 1
  BY <1>1, SMT
<1>6. InOrder(p, x, f, D)
  <2>. SUFFICES ASSUME NEW t \in DriverStream, NEW j \in DOMAIN D[t]
                PROVE  /\ \A n \in Nat : D[t][j] = Run(n) =>
                            \A m \in 1 .. n - 1 : Follows(p, x, f, D, t, j, m)
                       /\ \A k \in Nat : D[t][j] = Record(Turn(k)) =>
                            /\ Behind(k) <= Len(p) + 1
                            /\ \A m \in 1 .. Behind(k) - 1 :
                                 Follows(p, x, f, D, t, j, m)
    BY DEF InOrder
  <2>1. ASSUME NEW n \in Nat, D[t][j] = Run(n)
        PROVE  \A m \in 1 .. n - 1 : Follows(p, x, f, D, t, j, m)
    <3>1. n \in DOMAIN o
      BY <2>1 DEF DriverInv, RunsLeft
    <3>2. \A m \in 1 .. n - 1 : Follows(o, x, f, D, t, j, m)
      BY <2>1 DEF DriverInv, InOrder
    <3>. QED
      BY <1>2, <1>4, <1>5, <3>1, <3>2
  <2>2. ASSUME NEW k \in Nat, D[t][j] = Record(Turn(k))
        PROVE  /\ Behind(k) <= Len(p) + 1
               /\ \A m \in 1 .. Behind(k) - 1 : Follows(p, x, f, D, t, j, m)
    <3>1. /\ Behind(k) <= Len(o) + 1
          /\ \A m \in 1 .. Behind(k) - 1 : Follows(o, x, f, D, t, j, m)
      BY <2>2 DEF DriverInv, InOrder
    <3>. QED
      BY <1>2, <1>3, <1>4, <3>1
  <2>. QED
    BY <2>1, <2>2
<1>7. RunsLeft(p, x, D)
  BY <1>1 DEF DriverInv, RunsLeft
<1>. QED
  BY <1>6, <1>7 DEF DriverInv, p
-----------------------------------------------------------------------------
(* The steps of the driver.                                                *)

\* What is first on a stream follows what is over.
LEMMA FirstFollows ==
  ASSUME NEW o, NEW x, NEW f, NEW D, NEW s, NEW m, Follows(o, x, f, D, s, 1, m)
  PROVE  Complete(o, x, f, m)
<1>1. 1 .. 1 - 1 = {}
  BY SMT
<1>. QED
  BY <1>1 DEF Follows

\* A stream goes past its first command when what this stands for is over.
LEMMA TakeKeepsInv ==
  ASSUME RotationInv, NEW s \in DriverStream, driver[s] # <<>>,
         driver' = Taken(s), UNCHANGED issueVars, executed' \in Seq(Nat),
         fired \subseteq fired', Range(executed) \subseteq Range(executed'),
         \A n \in Range(executed') \ Range(executed) :
           n \in Nat /\ driver[s][1] = Run(n),
         \A m \in DOMAIN ops : driver[s][1] = Pending(ops, m) => Over(m)',
         \A k \in Nat : driver[s][1] = Await(Turn(k)) =>
           /\ Turn(k) \in fired
           /\ \A m \in DOMAIN ops : m < Behind(k) => Over(m)',
         \A k \in Nat : Turn(k) \in fired' \ fired =>
           driver[s][1] = Record(Turn(k)),
         running' \subseteq running, \A n \in running' : driver[s][1] # Run(n)
  PROVE  RotationInv'
<1>. DEFINE x == Range(executed)
            y == Range(executed')
            E == Drop(driver, s)
<1>1. /\ CountInv /\ DriverInv(ops, x, fired, driver) /\ TurnInv /\ CurrentInv
      /\ RunInv
  BY DEF RotationInv
<1>2. /\ ops' = ops /\ count' = count /\ index' = index /\ turns' = turns
      /\ driver' = E
  BY DEF issueVars, Taken, Drop
<1>3. \A m : Over(m)' <=> Complete(ops, y, fired', m)
  BY <1>2 DEF Over
<1>4. \A m : Over(m) => Over(m)'
  BY <1>2 DEF Over, Complete
<1>5. /\ Len(ops) \in Nat /\ DOMAIN ops = 1 .. Len(ops)
  <2>1. ops \in Seq(Op)
    BY <1>1 DEF CountInv
  <2>. HIDE DEF Op
  <2>. QED
    BY <2>1, SMT
<1>6. /\ \A t \in DriverStream : t # s => E[t] = driver[t]
      /\ 1 \in DOMAIN driver[s]
      /\ \A i \in DOMAIN E[s] :
           i \in Nat \ {0} /\ i + 1 \in DOMAIN driver[s] /\ E[s][i] = driver[s][i + 1]
      /\ \A i \in DOMAIN driver[s] :
           i \in Nat \ {0} /\ (i # 1 => i - 1 \in DOMAIN E[s])
  <2>1. driver \in [DriverStream -> Seq(AnyCommand)]
    BY <1>1 DEF DriverInv
  <2>. QED
    BY <2>1, DropPlaces
<1>. HIDE DEF x, y, E
<1>7. DriverInv(ops, y, fired', E)
  <2>1. /\ x \subseteq y /\ \A n \in y \ x : driver[s][1] = Run(n)
        /\ \A m \in DOMAIN ops :
             driver[s][1] = Pending(ops, m) => Complete(ops, y, fired', m)
        /\ \A k \in Nat : driver[s][1] = Await(Turn(k)) =>
             \A m \in DOMAIN ops : m < Behind(k) => Complete(ops, y, fired', m)
    BY <1>3 DEF x, y
  <2>. QED
    BY <1>1, <1>5, <2>1, DropKeepsDriver DEF E
<1>8. CountInv'
  BY <1>1, <1>2 DEF CountInv, Behind
<1>9. TurnInv'
  <2>. SUFFICES ASSUME NEW k \in Nat, Turn(k) \in fired'
                PROVE  /\ Behind(k) <= Len(ops) + 1
                       /\ \A m \in 1 .. Behind(k) - 1 : Over(m)'
    BY <1>2 DEF TurnInv, Behind
  <2>1. CASE Turn(k) \in fired
    BY <1>1, <1>4, <2>1 DEF TurnInv
  <2>2. CASE driver[s][1] = Record(Turn(k))
    <3>1. /\ Behind(k) <= Len(ops) + 1
          /\ \A m \in 1 .. Behind(k) - 1 : Follows(ops, x, fired, driver, s, 1, m)
      BY <1>1, <1>6, <2>2 DEF DriverInv, InOrder
    <3>. QED
      BY <1>4, <3>1, FirstFollows DEF Over, x
  <2>. QED
    BY <2>1, <2>2
<1>10. ASSUME NEW t \in DriverStream, NEW i \in DOMAIN driver[t],
              NEW c, driver[t][i] = c
       PROVE  \/ \E j \in DOMAIN E[t] : E[t][j] = c
              \/ t = s /\ i = 1
  <2>1. CASE t # s
    BY <1>6, <1>10, <2>1
  <2>2. CASE t = s /\ i # 1
    <3>1. i - 1 \in DOMAIN E[s] /\ i \in Nat
      BY <1>6, <2>2
    <3>2. E[s][i - 1] = driver[s][(i - 1) + 1] /\ (i - 1) + 1 = i
      BY <1>6, <3>1, SMT
    <3>. QED
      BY <1>10, <2>2, <3>1, <3>2
  <2>. QED
    BY <2>1, <2>2
<1>11. CurrentInv'
  <2>1. index \in DriverStream
    BY <1>1 DEF CountInv
  <2>2. ASSUME NEW m \in DOMAIN ops, m >= Len(ops) - count
        PROVE  \/ Over(m)'
               \/ \E i \in DOMAIN E[index] : E[index][i] = Pending(ops, m)
    <3>1. CASE Over(m)
      BY <1>4, <3>1
    <3>2. ASSUME NEW i \in DOMAIN driver[index],
                 driver[index][i] = Pending(ops, m)
          PROVE  \/ Over(m)'
                 \/ \E j \in DOMAIN E[index] : E[index][j] = Pending(ops, m)
      <4>1. CASE index = s /\ i = 1
        BY <3>2, <4>1
      <4>. QED
        BY <1>10, <2>1, <3>2, <4>1
    <3>. QED
      BY <1>1, <2>2, <3>1, <3>2 DEF CurrentInv
  <2>3. ASSUME turns > 0
        PROVE  \/ Turn(turns - 1) \in fired'
               \/ \E i \in DOMAIN E[index] : E[index][i] = Await(Turn(turns - 1))
    <3>1. turns - 1 \in Nat
      BY <1>1, <2>3, SMT DEF CountInv
    <3>2. CASE Turn(turns - 1) \in fired
      BY <3>2
    <3>3. ASSUME NEW i \in DOMAIN driver[index],
                 driver[index][i] = Await(Turn(turns - 1))
          PROVE  \/ Turn(turns - 1) \in fired'
                 \/ \E j \in DOMAIN E[index] :
                      E[index][j] = Await(Turn(turns - 1))
      <4>1. CASE index = s /\ i = 1
        BY <3>1, <3>3, <4>1
      <4>. QED
        BY <1>10, <2>1, <3>3, <4>1
    <3>. QED
      BY <1>1, <2>3, <3>2, <3>3 DEF CurrentInv
  <2>. QED
    BY <1>2, <2>2, <2>3 DEF CurrentInv, Pending
<1>12. RunInv'
  <2>1. ASSUME NEW n \in running'
        PROVE  \E t \in DriverStream : E[t] # <<>> /\ E[t][1] = Run(n)
    <3>1. PICK t \in DriverStream : driver[t] # <<>> /\ driver[t][1] = Run(n)
      BY <1>1 DEF RunInv
    <3>2. t # s
      BY <3>1
    <3>. QED
      BY <1>6, <3>1, <3>2
  <2>2. ASSUME NEW n \in running' \cup y
        PROVE  n \in DOMAIN ops /\ ops[n] = KernelOp /\ \A m \in 1 .. n - 1 : Over(m)'
    <3>1. CASE n \in running \cup x
      BY <1>1, <1>4, <3>1 DEF RunInv, x
    <3>2. CASE n \in y \ x
      <4>1. n \in Nat /\ driver[s][1] = Run(n)
        BY <3>2 DEF x, y
      <4>2. n \in DOMAIN ops /\ ops[n] = KernelOp
        BY <1>1, <1>6, <4>1 DEF DriverInv, RunsLeft
      <4>3. \A m \in 1 .. n - 1 : Follows(ops, x, fired, driver, s, 1, m)
        BY <1>1, <1>6, <4>1 DEF DriverInv, InOrder
      <4>. QED
        BY <1>4, <4>2, <4>3, FirstFollows DEF Over, x
    <3>. QED
      BY <2>2, <3>1, <3>2
  <2>. QED
    BY <1>2, <2>1, <2>2 DEF RunInv, y
<1>. QED
  BY <1>2, <1>7, <1>8, <1>9, <1>11, <1>12 DEF RotationInv, y

\* What the first command of a stream is.
LEMMA HeadCommand ==
  ASSUME RotationInv, NEW s \in DriverStream, driver[s] # <<>>
  PROVE  /\ Head(driver[s]) = driver[s][1] /\ 1 \in DOMAIN driver[s]
         /\ HeadIs(s, "run") => Arg(s) \in Nat /\ driver[s][1] = Run(Arg(s))
         /\ HeadIs(s, "record") => driver[s][1] = Record(Arg(s))
         /\ HeadIs(s, "await") => driver[s][1] = Await(Arg(s))
<1>1. driver \in [DriverStream -> Seq(AnyCommand)]
  BY DEF RotationInv, DriverInv
<1>2. Head(driver[s]) = driver[s][1] /\ 1 \in DOMAIN driver[s]
  BY <1>1, DropPlaces
<1>3. driver[s][1] \in AnyCommand
  <2>. HIDE DEF AnyCommand
  <2>. QED
    BY <1>1, <1>2, ElementOfSeq, SMT
<1>. DEFINE c == driver[s][1]
<1>. HIDE DEF c
<1>4. \/ c \in {"run"} \X Nat
      \/ c \in {"record", "await"} \X AnyEvent
  BY <1>3 DEF AnyCommand, c
<1>5. /\ c[1] = "run" => c[2] \in Nat /\ c = <<"run", c[2]>>
      /\ c[1] = "record" => c = <<"record", c[2]>>
      /\ c[1] = "await" => c = <<"await", c[2]>>
  <2>. HIDE DEF AnyEvent
  <2>. QED
    BY <1>4, SMT
<1>6. Head(driver[s]) = c
  BY <1>2 DEF c
<1>. QED
  BY <1>2, <1>5, <1>6 DEF HeadIs, Arg, Run, Record, Await, c

\* Commands of different kinds differ.
LEMMA CommandsDiffer ==
  \A n, e, k, v :
    /\ Run(n) # Record(e) /\ Run(n) # Await(e) /\ Record(e) # Await(v)
    /\ Run(n) = Run(k) => n = k
    /\ Record(e) = Record(v) => e = v
    /\ Await(e) = Await(v) => e = v
    /\ Turn(n) # OtherEv(e) /\ Turn(n) # KernelEv(k)
    /\ OtherEv(e) = OtherEv(v) => e = v
BY SMT DEF Run, Record, Await, Turn, OtherEv, KernelEv

\* A kernel starts when it is first on its stream.
LEMMA StartKeepsInv ==
  ASSUME RotationInv, NEW s \in DriverStream, StartKernel(s)
  PROVE  RotationInv'
<1>1. /\ UNCHANGED <<ops, count, index, turns, driver, executed, fired>>
      /\ running' = running \cup {Arg(s)} /\ driver[s] # <<>>
      /\ HeadIs(s, "run")
  BY DEF StartKernel, issueVars, HeadIs
<1>2. /\ 1 \in DOMAIN driver[s] /\ Arg(s) \in Nat
      /\ driver[s][1] = Run(Arg(s))
  BY <1>1, HeadCommand
<1>3. /\ Arg(s) \in DOMAIN ops /\ ops[Arg(s)] = KernelOp
      /\ \A m \in 1 .. Arg(s) - 1 :
           Follows(ops, Range(executed), fired, driver, s, 1, m)
  BY <1>2 DEF RotationInv, DriverInv, RunsLeft, InOrder
<1>4. \A m \in 1 .. Arg(s) - 1 : Over(m)
  BY <1>3, FirstFollows DEF Over
<1>5. RunInv'
  BY <1>1, <1>2, <1>3, <1>4 DEF RotationInv, RunInv, Over
<1>. QED
  BY <1>1, <1>5 DEF RotationInv, CountInv, TurnInv, CurrentInv, Over

\* A kernel is over when it is executed.
LEMMA FinishKeepsInv ==
  ASSUME RotationInv, NEW s \in DriverStream, FinishKernel(s)
  PROVE  RotationInv'
<1>. DEFINE n == Arg(s)
<1>1. /\ UNCHANGED issueVars /\ fired' = fired /\ driver' = Taken(s)
      /\ running' = running \ {n} /\ executed' = Append(executed, n)
      /\ driver[s] # <<>> /\ HeadIs(s, "run")
  BY DEF FinishKernel, HeadIs
<1>2. n \in Nat /\ driver[s][1] = Run(n)
  BY <1>1, HeadCommand
<1>3. executed \in Seq(Nat)
  BY DEF RotationInv, CountInv
<1>. HIDE DEF n
<1>4. /\ executed' \in Seq(Nat)
      /\ DOMAIN executed' = DOMAIN executed \cup {Len(executed) + 1}
      /\ \A i \in DOMAIN executed : executed'[i] = executed[i]
      /\ executed'[Len(executed) + 1] = n
  BY <1>1, <1>2, <1>3, SMT
<1>5. Range(executed') = Range(executed) \cup {n}
  <2>1. ASSUME NEW i \in DOMAIN executed' PROVE executed'[i] \in Range(executed) \cup {n}
    <3>1. CASE i \in DOMAIN executed
      BY <1>4, <3>1 DEF Range
    <3>2. CASE i = Len(executed) + 1
      BY <1>4, <3>2
    <3>. QED
      BY <1>4, <2>1, <3>1, <3>2
  <2>2. Range(executed') \subseteq Range(executed) \cup {n}
    BY <2>1, Zenon DEF Range
  <2>3. ASSUME NEW i \in DOMAIN executed PROVE executed[i] \in Range(executed')
    <3>1. i \in DOMAIN executed' /\ executed'[i] = executed[i]
      BY <1>4, <2>3
    <3>. QED
      BY <3>1, Zenon DEF Range
  <2>4. n \in Range(executed')
    BY <1>4, Zenon DEF Range
  <2>5. Range(executed) \subseteq Range(executed')
    BY <2>3, Zenon DEF Range
  <2>. QED
    BY <2>2, <2>4, <2>5, Zenon
<1>6. \A m \in DOMAIN ops : driver[s][1] = Pending(ops, m) => Over(m)'
  <2>. SUFFICES ASSUME NEW m \in DOMAIN ops, Run(n) = Pending(ops, m)
                PROVE  Over(m)'
    BY <1>2
  <2>1. ops[m] = KernelOp /\ m = n
    BY CommandsDiffer DEF Pending
  <2>. QED
    BY <1>1, <1>5, <2>1 DEF Over, Complete, issueVars
<1>7. /\ \A k \in Nat : driver[s][1] # Await(Turn(k))
      /\ \A p \in running' : driver[s][1] # Run(p)
  BY <1>1, <1>2, CommandsDiffer
<1>8. /\ \A p \in Range(executed') \ Range(executed) :
           p \in Nat /\ driver[s][1] = Run(p)
      /\ Range(executed) \subseteq Range(executed')
  BY <1>2, <1>5
<1>9. running' \subseteq running
  BY <1>1
<1>. QED
  BY <1>1, <1>4, <1>6, <1>7, <1>8, <1>9, TakeKeepsInv

\* The event of a driver stream fires when all before it on the stream is over.
LEMMA FireKeepsInv ==
  ASSUME RotationInv, NEW s \in DriverStream, FireEvent(s)
  PROVE  RotationInv'
<1>1. /\ UNCHANGED <<issueVars, running, executed>> /\ driver' = Taken(s)
      /\ fired' = fired \cup {Arg(s)}
      /\ driver[s] # <<>> /\ HeadIs(s, "record")
  BY DEF FireEvent, HeadIs
<1>2. driver[s][1] = Record(Arg(s))
  BY <1>1, HeadCommand
<1>3. \A n, e, m : /\ driver[s][1] # Run(n) /\ driver[s][1] # Await(e)
                   /\ driver[s][1] # Pending(ops, m)
  BY <1>2, CommandsDiffer DEF Pending
<1>4. \A k \in Nat : Turn(k) \in fired' \ fired => driver[s][1] = Record(Turn(k))
  BY <1>1, <1>2
<1>5. executed' \in Seq(Nat) /\ Range(executed') = Range(executed)
  BY <1>1 DEF RotationInv, CountInv
<1>6. UNCHANGED issueVars /\ running' \subseteq running /\ fired \subseteq fired'
  BY <1>1
<1>. QED
  BY <1>1, <1>3, <1>4, <1>5, <1>6, TakeKeepsInv

\* A wait is over when its event has fired; for a turn, so is all before it.
LEMMA PassKeepsInv ==
  ASSUME RotationInv, NEW s \in DriverStream, PassWait(s)
  PROVE  RotationInv'
<1>1. /\ UNCHANGED <<issueVars, running, executed, fired>> /\ driver' = Taken(s)
      /\ Arg(s) \in fired /\ driver[s] # <<>> /\ HeadIs(s, "await")
  BY DEF PassWait, HeadIs
<1>2. driver[s][1] = Await(Arg(s))
  BY <1>1, HeadCommand
<1>3. \A m : Over(m)' <=> Over(m)
  BY <1>1 DEF Over, issueVars
<1>4. \A n : driver[s][1] # Run(n)
  BY <1>2, CommandsDiffer
<1>5. \A m \in DOMAIN ops : driver[s][1] = Pending(ops, m) => Over(m)'
  <2>1. SUFFICES ASSUME NEW m \in DOMAIN ops, driver[s][1] = Pending(ops, m) PROVE Over(m)
    BY <1>3
  <2>2. ops[m] # KernelOp
    BY <1>4, <2>1 DEF Pending
  <2>3. Await(Arg(s)) = Await(OtherEv(ops[m][2]))
    BY <1>2, <2>1, <2>2 DEF Pending
  <2>4. OtherEv(ops[m][2]) = Arg(s)
    BY <2>3, CommandsDiffer
  <2>. QED
    BY <1>1, <2>2, <2>4 DEF Over, Complete
<1>6. ASSUME NEW k \in Nat, driver[s][1] = Await(Turn(k))
      PROVE  /\ Turn(k) \in fired
             /\ \A m \in DOMAIN ops : m < Behind(k) => Over(m)'
  <2>1. Turn(k) \in fired
    BY <1>1, <1>2, <1>6, CommandsDiffer
  <2>2. \A m \in 1 .. Behind(k) - 1 : Over(m)
    BY <2>1 DEF RotationInv, TurnInv
  <2>3. \A m \in DOMAIN ops : m < Behind(k) => m \in 1 .. Behind(k) - 1
    <3>1. ops \in Seq(Op) /\ Behind(k) \in Nat
      BY StreamRotationAssumption, SMT DEF RotationInv, CountInv, Behind
    <3>. HIDE DEF Op
    <3>. QED
      BY <3>1, SMT
  <2>. QED
    BY <1>3, <2>1, <2>2, <2>3
<1>7. executed' \in Seq(Nat) /\ Range(executed') = Range(executed)
  BY <1>1 DEF RotationInv, CountInv
<1>8. /\ UNCHANGED issueVars /\ running' \subseteq running /\ fired \subseteq fired'
      /\ \A k \in Nat : Turn(k) \notin fired' \ fired
  BY <1>1
<1>. QED
  BY <1>1, <1>4, <1>5, <1>6, <1>7, <1>8, TakeKeepsInv

\* The job behind an event of another stream ends.
LEMMA ForeignKeepsInv ==
  ASSUME RotationInv, NEW e \in Foreign, FireForeign(e)
  PROVE  RotationInv'
<1>1. /\ UNCHANGED <<ops, count, index, turns, driver, running, executed>>
      /\ fired' = fired \cup {OtherEv(e)}
  BY DEF FireForeign, issueVars
<1>2. \A m : Over(m) => Over(m)'
  BY <1>1 DEF Over, Complete
<1>3. \A k : Turn(k) \in fired' => Turn(k) \in fired
  BY <1>1, CommandsDiffer
<1>4. \A t, j, m :
        Follows(ops, Range(executed), fired, driver, t, j, m)
          => Follows(ops, Range(executed), fired', driver, t, j, m)
  BY <1>1 DEF Follows, Complete
<1>5. DriverInv(ops, Range(executed), fired', driver)
  <2>1. InOrder(ops, Range(executed), fired', driver)
    BY <1>4, SMT DEF RotationInv, DriverInv, InOrder
  <2>. QED
    BY <2>1 DEF RotationInv, DriverInv
<1>6. CountInv' /\ RunInv'
  BY <1>1, <1>2 DEF RotationInv, CountInv, RunInv, Behind
<1>7. TurnInv'
  BY <1>1, <1>2, <1>3 DEF RotationInv, TurnInv, Behind
<1>8. CurrentInv'
  BY <1>1, <1>2 DEF RotationInv, CurrentInv, Pending
<1>. QED
  BY <1>1, <1>5, <1>6, <1>7, <1>8 DEF RotationInv
-----------------------------------------------------------------------------
(* The queue manager.                                                      *)

\* E has the commands of D in their places.
Keeps(D, E) ==
  \A t \in DriverStream : \A i \in DOMAIN D[t] :
    i \in DOMAIN E[t] /\ E[t][i] = D[t][i]

\* Enqueuing a command leaves the others in their places.
LEMMA PutKeeps ==
  ASSUME NEW D, D \in [DriverStream -> Seq(AnyCommand)], NEW s \in DriverStream,
         NEW c \in AnyCommand
  PROVE  Keeps(D, Put(D, s, c))
<1>. DEFINE E == Put(D, s, c)
<1>1. /\ E \in [DriverStream -> Seq(AnyCommand)]
      /\ \A t \in DriverStream : t # s => E[t] = D[t]
      /\ DOMAIN E[s] = DOMAIN D[s] \cup {Len(D[s]) + 1}
      /\ \A i \in DOMAIN D[s] : E[s][i] = D[s][i]
  BY PutPlaces
<1>. HIDE DEF E
<1>2. Keeps(D, E)
  BY <1>1 DEF Keeps
<1>. QED
  BY <1>2 DEF E

\* An operation is a kernel or a wait for somebody else's event.
LEMMA OpKinds ==
  ASSUME NEW op \in Op
  PROVE  \/ op = KernelOp
         \/ op # KernelOp /\ op[2] \in Foreign
<1>1. op = KernelOp \/ \E e \in Foreign : op = WaitOp(e)
  BY DEF Op
<1>2. \A e : WaitOp(e) # KernelOp /\ WaitOp(e)[2] = e
  BY SMT DEF WaitOp, KernelOp
<1>. QED
  BY <1>1, <1>2

\* The commands of operation n enqueued on stream s.
Enqueue(D, s, o, n) == [D EXCEPT ![s] = @ \o Commands(o[n], n)]

\* Operation n goes on a stream where it follows those before it.
LEMMA CommandsKeepDriver ==
  ASSUME NEW o, NEW x, NEW f, NEW D, DriverInv(o, x, f, D),
         NEW s \in DriverStream, NEW n \in Nat, n \in DOMAIN o,
         o[n] \in Op, n \notin x,
         \A t \in DriverStream : \A i \in DOMAIN D[t] : D[t][i] # Run(n),
         \A m \in 1 .. n - 1 : Follows(o, x, f, D, s, Len(D[s]) + 1, m)
  PROVE  /\ DriverInv(o, x, f, Enqueue(D, s, o, n))
         /\ Keeps(D, Enqueue(D, s, o, n))
         /\ \E i \in DOMAIN Enqueue(D, s, o, n)[s] :
              Enqueue(D, s, o, n)[s][i] = Pending(o, n)
<1>. DEFINE E == Enqueue(D, s, o, n)
<1>1. D \in [DriverStream -> Seq(AnyCommand)]
  BY DEF DriverInv
<1>2. CASE o[n] = KernelOp
  <2>. DEFINE c == Run(n)
              r == Record(KernelEv(n))
              D1 == Put(D, s, c)
              D2 == Put(D1, s, r)
  <2>1. c \in AnyCommand /\ r \in AnyCommand
    BY DEF AnyCommand, AnyEvent, Run, Record, KernelEv
  <2>2. \A k : c = Run(k) => k = n
    BY CommandsDiffer
  <2>3. \A k : c # Record(Turn(k)) /\ r # Run(k)
    BY CommandsDiffer
  <2>4. \A k : r # Record(Turn(k))
    BY CommandsDiffer
  <2>5. Commands(o[n], n) = <<c, r>> /\ Pending(o, n) = c
    BY <1>2 DEF Commands, Pending
  <2>. HIDE DEF c, r
  <2>6. DriverInv(o, x, f, D1)
    <3>1. \A t \in DriverStream : \A i \in DOMAIN D[t] : D[t][i] # c
      BY DEF c
    <3>. QED
      BY <1>2, <2>1, <2>2, <2>3, <3>1, PutKeepsDriver
  <2>7. /\ D1[s] = Append(D[s], c) /\ Len(D[s]) + 1 \in DOMAIN D1[s]
        /\ D1[s][Len(D[s]) + 1] = c
    BY <1>1, <2>1, PutPlaces DEF Put
  <2>8. Keeps(D, D1)
    BY <1>1, <2>1, PutKeeps
  <2>9. D1 \in [DriverStream -> Seq(AnyCommand)]
    BY <2>6 DEF DriverInv
  <2>10. DriverInv(o, x, f, D2)
    <3>. HIDE DEF D1
    <3>. QED
      BY <2>1, <2>3, <2>4, <2>6, PutKeepsDriver
  <2>11. Keeps(D1, D2)
    <3>. HIDE DEF D1
    <3>. QED
      BY <2>1, <2>9, PutKeeps
  <2>12. D2 = [D EXCEPT ![s] = @ \o <<c, r>>]
    <3>1. Append(Append(D[s], c), r) = D[s] \o <<c, r>>
      <4>. DEFINE q == D[s]
      <4>1. q \in Seq(AnyCommand)
        BY <1>1
      <4>. HIDE DEF q, AnyCommand
      <4>2. Append(Append(q, c), r) = q \o <<c, r>>
        BY <2>1, <4>1, SMT
      <4>. QED
        BY <4>2 DEF q
    <3>. QED
      BY <1>1, <3>1 DEF Put
  <2>. HIDE DEF D1, D2
  <2>13. Keeps(D, D2) /\ \E i \in DOMAIN D2[s] : D2[s][i] = c
    BY <2>7, <2>8, <2>11 DEF Keeps
  <2>. QED
    <3>1. D2 = E
      BY <2>5, <2>12 DEF Enqueue
    <3>. HIDE DEF E
    <3>2. /\ DriverInv(o, x, f, E) /\ Keeps(D, E)
          /\ \E i \in DOMAIN E[s] : E[s][i] = Pending(o, n)
      BY <2>5, <2>10, <2>13, <3>1
    <3>. QED
      BY <3>2 DEF E
<1>3. CASE o[n] # KernelOp /\ o[n][2] \in Foreign
  <2>. DEFINE c == Await(OtherEv(o[n][2]))
              D1 == Put(D, s, c)
  <2>1. c \in AnyCommand
    BY <1>3, SMT DEF AnyCommand, AnyEvent, Await, OtherEv
  <2>2. \A k : c # Record(Turn(k)) /\ c # Run(k)
    BY CommandsDiffer
  <2>3. Commands(o[n], n) = <<c>> /\ Pending(o, n) = c
    BY <1>3 DEF Commands, Pending
  <2>. HIDE DEF c
  <2>4. DriverInv(o, x, f, D1)
    BY <2>1, <2>2, PutKeepsDriver
  <2>5. /\ D1[s] = Append(D[s], c) /\ Len(D[s]) + 1 \in DOMAIN D1[s]
        /\ D1[s][Len(D[s]) + 1] = c
    BY <1>1, <2>1, PutPlaces DEF Put
  <2>6. Keeps(D, D1)
    BY <1>1, <2>1, PutKeeps
  <2>7. D1 = [D EXCEPT ![s] = @ \o <<c>>]
    <3>1. Append(D[s], c) = D[s] \o <<c>>
      <4>. DEFINE q == D[s]
      <4>1. q \in Seq(AnyCommand)
        BY <1>1
      <4>. HIDE DEF q, AnyCommand
      <4>2. Append(q, c) = q \o <<c>>
        BY <2>1, <4>1, SMT
      <4>. QED
        BY <4>2 DEF q
    <3>. QED
      BY <1>1, <3>1 DEF Put
  <2>. HIDE DEF D1
  <2>. QED
    <3>1. D1 = E
      BY <2>3, <2>7 DEF Enqueue
    <3>. HIDE DEF E
    <3>2. /\ DriverInv(o, x, f, E) /\ Keeps(D, E)
          /\ \E i \in DOMAIN E[s] : E[s][i] = Pending(o, n)
      BY <2>3, <2>4, <2>5, <2>6, <3>1
    <3>. QED
      BY <3>2 DEF E
<1>. QED
  BY <1>2, <1>3, OpKinds

\* What is enqueued next on the current stream follows every operation.
LEMMA NextFollowsAll ==
  ASSUME RotationInv, NEW m \in DOMAIN ops
  PROVE  Follows(ops, Range(executed), fired, driver, index,
                 Len(driver[index]) + 1, m)
<1>. DEFINE D == driver[index]
<1>1. /\ CountInv /\ TurnInv /\ CurrentInv
      /\ driver \in [DriverStream -> Seq(AnyCommand)]
  BY DEF RotationInv, DriverInv
<1>2. D \in Seq(AnyCommand)
  BY <1>1 DEF CountInv
<1>3. m \in Nat /\ Len(ops) \in Nat /\ m >= 1
  <2>1. ops \in Seq(Op)
    BY <1>1 DEF CountInv
  <2>. HIDE DEF Op
  <2>. QED
    BY <2>1, SMT
<1>4. \A i \in DOMAIN D : i \in 1 .. (Len(D) + 1) - 1
  <2>. HIDE DEF D, AnyCommand
  <2>. QED
    BY <1>2, SMT
<1>. HIDE DEF D
<1>5. CASE m >= Len(ops) - count
  BY <1>1, <1>4, <1>5 DEF CurrentInv, Follows, Over, D
<1>6. CASE ~(m >= Len(ops) - count)
  <2>1. /\ turns \in Nat /\ count \in Nat /\ MAX_STREAM_TASKS \in Nat
        /\ Len(ops) - count + MAX_STREAM_TASKS = Behind(turns)
    BY <1>1, StreamRotationAssumption, SMT DEF CountInv
  <2>2. turns > 0
    <3>1. turns = 0 => Behind(turns) = MAX_STREAM_TASKS
      BY <2>1, SMT DEF Behind
    <3>. QED
      BY <1>3, <1>6, <2>1, <3>1, SMT
  <2>3. turns - 1 \in Nat /\ Behind(turns - 1) = Len(ops) - count
    <3>1. turns - 1 \in Nat /\ (turns - 1) + 1 = turns
      BY <2>1, <2>2, SMT
    <3>2. (turns + 1) * MAX_STREAM_TASKS
            = turns * MAX_STREAM_TASKS + MAX_STREAM_TASKS
      BY <2>1, SMT
    <3>3. turns * MAX_STREAM_TASKS \in Nat
      BY <2>1, SMT
    <3>. QED
      BY <1>3, <2>1, <3>1, <3>2, <3>3, SMT DEF Behind
  <2>4. m < Behind(turns - 1) /\ m \in 1 .. Behind(turns - 1) - 1
    BY <1>3, <1>6, <2>1, <2>3, SMT
  <2>5. CASE Turn(turns - 1) \in fired
    BY <1>1, <2>3, <2>4, <2>5 DEF TurnInv, Follows, Over
  <2>6. CASE \E i \in DOMAIN D : D[i] = Await(Turn(turns - 1))
    BY <1>4, <2>3, <2>4, <2>6 DEF Follows, D
  <2>. QED
    BY <1>1, <2>2, <2>5, <2>6 DEF CurrentInv, D
<1>. QED
  BY <1>5, <1>6

\* The number of the operation that is issued now.
Latest == Len(ops) + 1

\* The operation that is issued now is not on any driver stream yet, and the
\* current one is behind all the others.
LEMMA IssueFinds ==
  ASSUME RotationInv, NEW op \in Op, ops' = Append(ops, op)
  PROVE  /\ ops \in Seq(Op) /\ ops' \in Seq(Op) /\ Latest \in Nat \ {0}
         /\ Len(ops) \in Nat /\ Len(ops') = Latest
         /\ DOMAIN ops = 1 .. Latest - 1 /\ DOMAIN ops' = 1 .. Latest
         /\ ops'[Latest] = op /\ \A m \in DOMAIN ops : ops'[m] = ops[m]
         /\ DriverInv(ops', Range(executed), fired, driver)
         /\ Latest \notin Range(executed)
         /\ \A t \in DriverStream : \A i \in DOMAIN driver[t] : driver[t][i] # Run(Latest)
         /\ \A m \in 1 .. Latest - 1 :
              Follows(ops', Range(executed), fired, driver, index,
                      Len(driver[index]) + 1, m)
<1>. DEFINE o == ops'
            n == Latest
<1>0. o = Append(ops, op) /\ n = Len(ops) + 1
  BY DEF Latest
<1>. HIDE DEF o, n
<1>1. ops \in Seq(Op) /\ DriverInv(ops, Range(executed), fired, driver) /\ RunInv
  BY DEF RotationInv, CountInv
<1>2. /\ o \in Seq(Op) /\ n \in Nat \ {0} /\ Len(ops) \in Nat /\ Len(o) = n
      /\ DOMAIN ops = 1 .. n - 1 /\ DOMAIN o = 1 .. n
      /\ o[n] = op /\ \A m \in DOMAIN ops : o[m] = ops[m]
  <2>. HIDE DEF Op
  <2>. QED
    BY <1>0, <1>1, SMT
<1>3. n \notin DOMAIN ops
  BY <1>2, SMT
<1>4. DriverInv(o, Range(executed), fired, driver)
  BY <1>0, <1>1, IssueKeepsDriver
<1>5. n \notin Range(executed)
  BY <1>1, <1>3 DEF RunInv
<1>6. \A t \in DriverStream : \A i \in DOMAIN driver[t] : driver[t][i] # Run(n)
  BY <1>1, <1>2, <1>3 DEF DriverInv, RunsLeft
<1>7. ASSUME NEW m \in 1 .. n - 1
      PROVE  Follows(o, Range(executed), fired, driver, index,
                     Len(driver[index]) + 1, m)
  <2>1. m \in DOMAIN ops /\ o[m] = ops[m]
    BY <1>2
  <2>2. Follows(ops, Range(executed), fired, driver, index,
                Len(driver[index]) + 1, m)
    BY <2>1, NextFollowsAll
  <2>. QED
    BY <2>1, <2>2 DEF Follows, Complete, Pending
<1>. QED
  BY <1>1, <1>2, <1>4, <1>5, <1>6, <1>7 DEF o, n

\* What an operation that is issued does to the rest of the invariant.
LEMMA IssueKeepsInv ==
  ASSUME RotationInv, NEW op \in Op, ops' = Append(ops, op),
         UNCHANGED <<running, executed, fired>>,
         DriverInv(ops', Range(executed), fired, driver'),
         Keeps(driver, driver'), CountInv', CurrentInv'
  PROVE  RotationInv'
<1>1. /\ CountInv /\ DriverInv(ops, Range(executed), fired, driver) /\ TurnInv
      /\ RunInv
  BY DEF RotationInv
<1>2. /\ running' = running /\ executed' = executed /\ fired' = fired
  OBVIOUS
<1>3. /\ Len(ops) \in Nat /\ Len(ops') = Len(ops) + 1 /\ DOMAIN ops = 1 .. Len(ops)
      /\ DOMAIN ops \subseteq DOMAIN ops'
      /\ \A m \in DOMAIN ops : ops'[m] = ops[m]
  <2>1. ops \in Seq(Op)
    BY <1>1 DEF CountInv
  <2>. HIDE DEF Op
  <2>. QED
    BY <2>1, SMT
<1>4. \A m \in DOMAIN ops : Over(m) => Over(m)'
  BY <1>2, <1>3 DEF Over, Complete
<1>5. \A h \in Nat : h <= Len(ops) + 1 =>
        h <= Len(ops') + 1 /\ \A m \in 1 .. h - 1 : m \in DOMAIN ops
  BY <1>3, SMT
<1>6. TurnInv'
  <2>. SUFFICES ASSUME NEW k \in Nat, Turn(k) \in fired
                PROVE  /\ Behind(k) <= Len(ops') + 1
                       /\ \A m \in 1 .. Behind(k) - 1 : Over(m)'
    BY <1>2 DEF TurnInv, Behind
  <2>1. /\ Behind(k) <= Len(ops) + 1
        /\ \A m \in 1 .. Behind(k) - 1 : Over(m)
    BY <1>1 DEF TurnInv
  <2>2. Behind(k) \in Nat
    BY StreamRotationAssumption, SMT DEF Behind
  <2>. QED
    BY <1>4, <1>5, <2>1, <2>2
<1>7. RunInv'
  <2>1. ASSUME NEW r \in running
        PROVE  \E s \in DriverStream : driver'[s] # <<>> /\ driver'[s][1] = Run(r)
    <3>1. PICK s \in DriverStream : driver[s] # <<>> /\ driver[s][1] = Run(r)
      BY <1>1 DEF RunInv
    <3>2. 1 \in DOMAIN driver[s]
      BY <1>1, <3>1, DropPlaces DEF DriverInv
    <3>3. 1 \in DOMAIN driver'[s] /\ driver'[s][1] = Run(r)
      BY <3>1, <3>2 DEF Keeps
    <3>4. driver'[s] # <<>>
      BY <3>3, SMT
    <3>. QED
      BY <3>3, <3>4
  <2>2. ASSUME NEW r \in running \cup Range(executed)
        PROVE  /\ r \in DOMAIN ops' /\ ops'[r] = KernelOp
               /\ \A m \in 1 .. r - 1 : Over(m)'
    <3>1. /\ r \in DOMAIN ops /\ ops[r] = KernelOp
          /\ \A m \in 1 .. r - 1 : Over(m)
      BY <1>1 DEF RunInv
    <3>2. r \in Nat /\ r <= Len(ops) + 1
      BY <1>3, <3>1, SMT
    <3>. QED
      BY <1>3, <1>4, <1>5, <3>1, <3>2
  <2>. QED
    BY <1>2, <2>1, <2>2 DEF RunInv
<1>. QED
  BY <1>2, <1>6, <1>7 DEF RotationInv

\* An operation goes on the current stream.
LEMMA StayKeepsInv ==
  ASSUME RotationInv, NEW op \in Op, ExecTask(op), ~Rotates
  PROVE  RotationInv'
<1>. DEFINE x == Range(executed)
            n == Len(ops) + 1
<1>1. /\ ops' = Append(ops, op) /\ count' = count + 1
      /\ driver' = On(index, Commands(op, n))
      /\ UNCHANGED <<index, turns, running, executed, fired>>
  BY DEF ExecTask
<1>2. /\ CountInv /\ CurrentInv
  BY DEF RotationInv
<1>3. index \in DriverStream
  BY <1>2 DEF CountInv
<1>n. n = Len(ops) + 1 /\ n = Latest
  BY DEF Latest
<1>. HIDE DEF x, n
<1>4. /\ ops' \in Seq(Op) /\ n \in Nat \ {0} /\ Len(ops) \in Nat /\ Len(ops') = n
      /\ DOMAIN ops = 1 .. n - 1 /\ DOMAIN ops' = 1 .. n
      /\ ops'[n] = op /\ \A m \in DOMAIN ops : ops'[m] = ops[m]
      /\ DriverInv(ops', x, fired, driver) /\ n \notin x
      /\ \A t \in DriverStream : \A i \in DOMAIN driver[t] : driver[t][i] # Run(n)
      /\ \A m \in 1 .. n - 1 :
           Follows(ops', x, fired, driver, index, Len(driver[index]) + 1, m)
  BY <1>1, <1>n, IssueFinds DEF x
<1>5. n \in Nat /\ n \in DOMAIN ops' /\ ops'[n] \in Op
  BY <1>4, SMT
<1>6. /\ DriverInv(ops', x, fired, driver') /\ Keeps(driver, driver')
      /\ \E i \in DOMAIN driver'[index] : driver'[index][i] = Pending(ops', n)
  <2>. DEFINE o == ops'
              E == Enqueue(driver, index, o, n)
  <2>1. driver' = E /\ o = ops'
    BY <1>1, <1>4, <1>n DEF On, Enqueue
  <2>2. /\ DriverInv(o, x, fired, driver) /\ o[n] \in Op /\ n \in DOMAIN o
        /\ \A m \in 1 .. n - 1 :
             Follows(o, x, fired, driver, index, Len(driver[index]) + 1, m)
    BY <1>4, <1>5
  <2>. HIDE DEF o
  <2>3. /\ DriverInv(o, x, fired, E) /\ Keeps(driver, E)
        /\ \E i \in DOMAIN E[index] : E[index][i] = Pending(o, n)
    BY <1>3, <1>4, <1>5, <2>2, CommandsKeepDriver
  <2>. HIDE DEF E
  <2>. QED
    BY <2>1, <2>3
<1>7. CountInv'
  <2>1. /\ count \in 0 .. MAX_STREAM_TASKS - 1 /\ count + 1 # MAX_STREAM_TASKS
        /\ Len(ops) - count + MAX_STREAM_TASKS = Behind(turns)
        /\ turns \in Nat /\ executed \in Seq(Nat)
    BY <1>2 DEF CountInv, Rotates
  <2>2. count + 1 \in 0 .. MAX_STREAM_TASKS - 1
    BY <2>1, StreamRotationAssumption, SMT
  <2>3. n - (count + 1) + MAX_STREAM_TASKS = Behind(turns)
    BY <1>4, <2>1, StreamRotationAssumption, SMT DEF n
  <2>. QED
    BY <1>1, <1>3, <1>4, <2>1, <2>2, <2>3 DEF CountInv, Behind
<1>8. CurrentInv'
  <2>1. count \in Int /\ n - (count + 1) = Len(ops) - count
    BY <1>2, <1>4, SMT DEF CountInv, n
  <2>2. ASSUME NEW m \in DOMAIN ops', m >= Len(ops) - count
        PROVE  \/ Over(m)'
               \/ \E i \in DOMAIN driver'[index] :
                    driver'[index][i] = Pending(ops', m)
    <3>1. CASE m = n
      BY <1>6, <3>1
    <3>2. CASE m # n
      <4>1. m \in DOMAIN ops /\ ops'[m] = ops[m]
        BY <1>4, <3>2, SMT
      <4>2. Over(m) => Over(m)'
        BY <1>1, <4>1 DEF Over, Complete
      <4>3. Pending(ops', m) = Pending(ops, m)
        BY <4>1 DEF Pending
      <4>. QED
        BY <1>2, <1>3, <1>6, <2>2, <4>1, <4>2, <4>3 DEF CurrentInv, Keeps
    <3>. QED
      BY <3>1, <3>2
  <2>3. turns > 0 =>
          \/ Turn(turns - 1) \in fired
          \/ \E i \in DOMAIN driver'[index] : driver'[index][i] = Await(Turn(turns - 1))
    BY <1>2, <1>3, <1>6 DEF CurrentInv, Keeps
  <2>. QED
    BY <1>1, <1>4, <2>1, <2>2, <2>3 DEF CurrentInv
<1>. QED
  BY <1>1, <1>6, <1>7, <1>8, IssueKeepsInv DEF x

\* Enqueuing one command is appending a sequence of one.
LEMMA PutIsConcat ==
  ASSUME NEW D \in [DriverStream -> Seq(AnyCommand)], NEW s \in DriverStream,
         NEW c \in AnyCommand
  PROVE  Put(D, s, c) = [D EXCEPT ![s] = @ \o <<c>>]
<1>1. Append(D[s], c) = D[s] \o <<c>>
  <2>. DEFINE q == D[s]
  <2>1. q \in Seq(AnyCommand)
    OBVIOUS
  <2>. HIDE DEF q, AnyCommand
  <2>2. Append(q, c) = q \o <<c>>
    BY <2>1, SMT
  <2>. QED
    BY <2>2 DEF q
<1>. QED
  BY <1>1 DEF Put

\* Enqueuing a command adds no other.
LEMMA PutAddsOne ==
  ASSUME NEW D, D \in [DriverStream -> Seq(AnyCommand)], NEW s \in DriverStream,
         NEW c \in AnyCommand, NEW r, c # r,
         \A u \in DriverStream : \A i \in DOMAIN D[u] : D[u][i] # r
  PROVE  \A u \in DriverStream : \A i \in DOMAIN Put(D, s, c)[u] :
           Put(D, s, c)[u][i] # r
<1>. DEFINE E == Put(D, s, c)
<1>1. /\ \A u \in DriverStream : u # s => E[u] = D[u]
      /\ DOMAIN E[s] = DOMAIN D[s] \cup {Len(D[s]) + 1}
      /\ \A i \in DOMAIN D[s] : E[s][i] = D[s][i]
      /\ E[s][Len(D[s]) + 1] = c
  BY PutPlaces
<1>. HIDE DEF E
<1>2. \A u \in DriverStream : \A i \in DOMAIN E[u] : E[u][i] # r
  BY <1>1
<1>. QED
  BY <1>2 DEF E

\* Command c is on stream s.
IsOn(D, s, c) == \E i \in DOMAIN D[s] : D[s][i] = c

\* The end of stream s recorded at turn k, and stream t made to wait for it
\* before operation n.
ChangeStream(D, s, t, k, o, n) ==
  [[D EXCEPT ![s] = @ \o <<Record(Turn(k))>>]
     EXCEPT ![t] = @ \o <<Await(Turn(k))>> \o Commands(o[n], n)]

\* The end of stream s is recorded at operation n, which starts the next turn;
\* stream t waits for it and takes the operation.
LEMMA TurnKeepsDriver ==
  ASSUME NEW o, NEW x, NEW f, NEW D, DriverInv(o, x, f, D),
         NEW s \in DriverStream, NEW t \in DriverStream,
         NEW k \in Nat, NEW n \in Nat, n = Behind(k), n = Len(o),
         n \in DOMAIN o, o[n] \in Op, n \notin x,
         \A u \in DriverStream : \A i \in DOMAIN D[u] : D[u][i] # Run(n),
         \A m \in 1 .. n - 1 : Follows(o, x, f, D, s, Len(D[s]) + 1, m)
  PROVE  /\ DriverInv(o, x, f, ChangeStream(D, s, t, k, o, n))
         /\ Keeps(D, ChangeStream(D, s, t, k, o, n))
         /\ IsOn(ChangeStream(D, s, t, k, o, n), t, Pending(o, n))
         /\ IsOn(ChangeStream(D, s, t, k, o, n), t, Await(Turn(k)))
<1>. DEFINE c == Record(Turn(k))
            a == Await(Turn(k))
            E == ChangeStream(D, s, t, k, o, n)
            D1 == Put(D, s, c)
            D2 == Put(D1, t, a)
            D3 == Enqueue(D2, t, o, n)
<1>. HIDE DEF E
<1>1. c \in AnyCommand /\ a \in AnyCommand
  BY SMT DEF AnyCommand, AnyEvent, Record, Await, Turn
<1>2. /\ \A r : c # Run(r) /\ a # Run(r)
      /\ \A r : a # Record(Turn(r))
      /\ \A r : c = Record(Turn(r)) => r = k
  <2>1. \A r : Turn(k) = Turn(r) => r = k
    BY SMT DEF Turn
  <2>. QED
    BY <2>1, CommandsDiffer
<1>3. a = Await(Turn(k))
  OBVIOUS
<1>4. D \in [DriverStream -> Seq(AnyCommand)]
  BY DEF DriverInv
<1>5. D1 = [D EXCEPT ![s] = @ \o <<c>>]
  BY <1>1, <1>4, PutIsConcat
<1>6. D1 \in [DriverStream -> Seq(AnyCommand)]
  BY <1>1, <1>4, PutPlaces
<1>7. Keeps(D, D1)
  BY <1>1, <1>4, PutKeeps
<1>8. E = [D1 EXCEPT ![t] = @ \o <<a>> \o Commands(o[n], n)]
  BY <1>5 DEF E, ChangeStream
<1>. HIDE DEF c, a
<1>9. DriverInv(o, x, f, D1)
  <2>1. \A r \in Nat : c = Record(Turn(r)) =>
          /\ Behind(r) <= Len(o) + 1
          /\ \A m \in 1 .. Behind(r) - 1 :
               Follows(o, x, f, D, s, Len(D[s]) + 1, m)
    <3>1. n <= Len(o) + 1
      BY SMT
    <3>. QED
      BY <1>2, <3>1
  <2>. QED
    BY <1>1, <1>2, <2>1, PutKeepsDriver
<1>10. \A u \in DriverStream : \A i \in DOMAIN D1[u] : D1[u][i] # Run(n)
  BY <1>1, <1>2, <1>4, PutAddsOne
<1>. HIDE DEF D1
<1>11. D2 = [D1 EXCEPT ![t] = @ \o <<a>>]
  BY <1>1, <1>6, PutIsConcat
<1>12. /\ D2 \in [DriverStream -> Seq(AnyCommand)]
       /\ \A u \in DriverStream : u # t => D2[u] = D1[u]
       /\ DOMAIN D2[t] = DOMAIN D1[t] \cup {Len(D1[t]) + 1}
       /\ \A i \in DOMAIN D1[t] : D2[t][i] = D1[t][i]
       /\ D2[t][Len(D1[t]) + 1] = a
       /\ Len(D1[t]) \in Nat /\ Len(D2[t]) = Len(D1[t]) + 1
  <2>1. \A u \in DriverStream : u # t => D2[u] = D1[u]
    BY <1>1, <1>6, PutPlaces
  <2>2. D2 \in [DriverStream -> Seq(AnyCommand)]
    BY <1>1, <1>6, PutPlaces
  <2>3. /\ DOMAIN D2[t] = DOMAIN D1[t] \cup {Len(D1[t]) + 1}
        /\ \A i \in DOMAIN D1[t] : D2[t][i] = D1[t][i]
        /\ D2[t][Len(D1[t]) + 1] = a
        /\ Len(D1[t]) \in Nat /\ Len(D2[t]) = Len(D1[t]) + 1
    <3>1. ASSUME NEW F, F = D1
          PROVE  /\ Put(F, t, a)[t][Len(F[t]) + 1] = a
                 /\ DOMAIN Put(F, t, a)[t] = DOMAIN F[t] \cup {Len(F[t]) + 1}
                 /\ \A i \in DOMAIN F[t] : Put(F, t, a)[t][i] = F[t][i]
                 /\ Len(F[t]) \in Nat /\ Len(Put(F, t, a)[t]) = Len(F[t]) + 1
      <4>. HIDE DEF AnyCommand, D1
      <4>1. F \in [DriverStream -> Seq(AnyCommand)]
        BY <1>6, <3>1
      <4>2. t \in DriverStream
        OBVIOUS
      <4>3. /\ DOMAIN Put(F, t, a)[t] = DOMAIN F[t] \cup {Len(F[t]) + 1}
            /\ Put(F, t, a)[t][Len(F[t]) + 1] = a
        <5>1. a \in AnyCommand
          BY ONLY <1>1
        <5>2. ASSUME NEW b \in AnyCommand
              PROVE  /\ DOMAIN Put(F, t, b)[t] = DOMAIN F[t] \cup {Len(F[t]) + 1}
                     /\ Put(F, t, b)[t][Len(F[t]) + 1] = b
          BY ONLY <4>1, <4>2, <5>2, PutPlaces
        <5>. QED
          BY ONLY <5>1, <5>2
      <4>4. \A i \in DOMAIN F[t] : Put(F, t, a)[t][i] = F[t][i]
        BY ONLY <1>1, <4>1, <4>2, PutPlaces
      <4>5. Len(F[t]) \in Nat /\ Len(Put(F, t, a)[t]) = Len(F[t]) + 1
        BY ONLY <1>1, <4>1, <4>2, PutPlaces
      <4>. QED
        BY <4>3, <4>4, <4>5
    <3>. QED
      BY <3>1
  <2>. QED
    BY <2>1, <2>2, <2>3
<1>13. Keeps(D1, D2)
  BY <1>1, <1>6, PutKeeps
<1>14. DriverInv(o, x, f, D2)
  BY <1>1, <1>2, <1>9, PutKeepsDriver
<1>15. \A u \in DriverStream : \A i \in DOMAIN D2[u] : D2[u][i] # Run(n)
  BY <1>1, <1>2, <1>6, <1>10, PutAddsOne
<1>16. D3 = E
  <2>1. DOMAIN D1 = DriverStream /\ DOMAIN D2 = DriverStream
    BY <1>6, <1>12
  <2>2. D2[t] = D1[t] \o <<a>>
    BY <1>11, <2>1
  <2>3. D3 = [D2 EXCEPT ![t] = D1[t] \o <<a>> \o Commands(o[n], n)]
    BY <2>2 DEF Enqueue
  <2>. QED
    BY <1>8, <1>11, <2>1, <2>3
<1>. HIDE DEF D2
<1>17. \A m \in 1 .. n - 1 : Follows(o, x, f, D2, t, Len(D2[t]) + 1, m)
  <2>1. \A m \in 1 .. n - 1 : m < Behind(k)
    BY SMT
  <2>2. Len(D1[t]) + 1 \in 1 .. (Len(D2[t]) + 1) - 1
    BY <1>12, SMT
  <2>. QED
    BY <1>3, <1>12, <2>1, <2>2 DEF Follows
<1>18. /\ DriverInv(o, x, f, D3) /\ Keeps(D2, D3)
       /\ \E i \in DOMAIN D3[t] : D3[t][i] = Pending(o, n)
  BY <1>14, <1>15, <1>17, CommandsKeepDriver
<1>. HIDE DEF D3
<1>19. Keeps(D, D3) /\ \E i \in DOMAIN D3[t] : D3[t][i] = a
  BY <1>7, <1>12, <1>13, <1>18 DEF Keeps
<1>. QED
  <2>1. /\ DriverInv(o, x, f, E) /\ Keeps(D, E)
        /\ IsOn(E, t, Pending(o, n)) /\ IsOn(E, t, Await(Turn(k)))
    BY <1>3, <1>16, <1>18, <1>19 DEF IsOn
  <2>. QED
    BY <2>1 DEF E

\* The driver stream is changed, and the operation goes on the new one.
LEMMA RotateKeepsInv ==
  ASSUME RotationInv, NEW op \in Op, ExecTask(op), Rotates
  PROVE  RotationInv'
<1>. DEFINE x == Range(executed)
            n == Latest
            t == NextIndex
            k == turns
<1>1. /\ ops' = Append(ops, op) /\ count' = 0 /\ index' = t /\ turns' = turns + 1
      /\ driver' = HandOver(Commands(op, n))
      /\ UNCHANGED <<running, executed, fired>>
  BY DEF ExecTask, Latest
<1>2. CountInv
  BY DEF RotationInv
<1>3. /\ index \in DriverStream /\ turns \in Nat /\ executed \in Seq(Nat)
      /\ count + 1 = MAX_STREAM_TASKS /\ MAX_STREAM_TASKS \in Nat \ {0}
      /\ Len(ops) - count + MAX_STREAM_TASKS = Behind(turns)
  BY <1>2, StreamRotationAssumption DEF CountInv, Rotates
<1>4. t \in DriverStream
  <2>1. index + 1 \in Nat /\ EXTRA_STREAMS \in Nat \ {0}
    BY <1>3, StreamRotationAssumption, SMT DEF DriverStream
  <2>. QED
    BY <2>1, SMT DEF NextIndex, DriverStream
<1>5. /\ ops' \in Seq(Op) /\ n \in Nat \ {0} /\ Len(ops) \in Nat /\ Len(ops') = n
      /\ DOMAIN ops = 1 .. n - 1 /\ DOMAIN ops' = 1 .. n
      /\ ops'[n] = op /\ \A m \in DOMAIN ops : ops'[m] = ops[m]
      /\ DriverInv(ops', x, fired, driver) /\ n \notin x
      /\ \A u \in DriverStream : \A i \in DOMAIN driver[u] : driver[u][i] # Run(n)
      /\ \A m \in 1 .. n - 1 :
           Follows(ops', x, fired, driver, index, Len(driver[index]) + 1, m)
  BY <1>1, IssueFinds
<1>6. n \in Nat /\ n \in DOMAIN ops' /\ ops'[n] \in Op
  BY <1>5, SMT
<1>7. n = Behind(k)
  <2>1. count \in Int /\ Behind(turns) \in Int
    BY <1>2, <1>3, SMT DEF CountInv, Behind
  <2>. QED
    BY <1>3, <1>5, <2>1, SMT DEF Latest
<1>. HIDE DEF x, n, t
<1>8. /\ DriverInv(ops', x, fired, driver') /\ Keeps(driver, driver')
      /\ \E i \in DOMAIN driver'[t] : driver'[t][i] = Pending(ops', n)
      /\ \E i \in DOMAIN driver'[t] : driver'[t][i] = Await(Turn(k))
  <2>. DEFINE o == ops'
              E == ChangeStream(driver, index, t, k, o, n)
  <2>1. driver' = E /\ o = ops'
    BY <1>1, <1>5 DEF HandOver, On, t, ChangeStream
  <2>2. /\ DriverInv(o, x, fired, driver) /\ o[n] \in Op /\ n \in DOMAIN o
        /\ \A m \in 1 .. n - 1 :
             Follows(o, x, fired, driver, index, Len(driver[index]) + 1, m)
        /\ n = Len(o)
    BY <1>5, <1>6
  <2>. HIDE DEF o
  <2>3. /\ DriverInv(o, x, fired, E) /\ Keeps(driver, E)
        /\ \E i \in DOMAIN E[t] : E[t][i] = Pending(o, n)
        /\ \E i \in DOMAIN E[t] : E[t][i] = Await(Turn(k))
    <3>1. /\ \A u \in DriverStream : \A i \in DOMAIN driver[u] : driver[u][i] # Run(n)
          /\ index \in DriverStream /\ t \in DriverStream /\ k \in Nat /\ n \in Nat
          /\ n = Behind(k) /\ n \notin x
      BY <1>3, <1>4, <1>5, <1>6, <1>7
    <3>. HIDE DEF k, E
    <3>2. DriverInv(o, x, fired, E)
      BY <2>2, <3>1, TurnKeepsDriver DEF E
    <3>3. Keeps(driver, E)
      BY <2>2, <3>1, TurnKeepsDriver DEF E
    <3>4. IsOn(E, t, Pending(o, n)) /\ IsOn(E, t, Await(Turn(k)))
      BY <2>2, <3>1, TurnKeepsDriver DEF E
    <3>. QED
      BY <3>2, <3>3, <3>4 DEF IsOn
  <2>. HIDE DEF E
  <2>. QED
    BY <2>1, <2>3
<1>9. CountInv'
  <2>1. 0 \in 0 .. MAX_STREAM_TASKS - 1 /\ turns + 1 \in Nat
    BY <1>3, SMT
  <2>2. Behind(turns + 1) = Behind(turns) + MAX_STREAM_TASKS
    <3>1. ((turns + 1) + 1) * MAX_STREAM_TASKS
            = (turns + 1) * MAX_STREAM_TASKS + MAX_STREAM_TASKS
      BY <1>3, SMT
    <3>. QED
      BY <3>1 DEF Behind
  <2>3. n - 0 + MAX_STREAM_TASKS = Behind(turns + 1)
    BY <1>3, <1>6, <1>7, <2>2, SMT
  <2>. QED
    BY <1>1, <1>3, <1>4, <1>5, <2>1, <2>3 DEF CountInv, Behind
<1>10. CurrentInv'
  <2>1. \A m \in DOMAIN ops' : m >= n - 0 => m = n
    BY <1>5, SMT
  <2>2. (turns + 1) - 1 = turns
    BY <1>3, SMT
  <2>. QED
    BY <1>1, <1>5, <1>8, <2>1, <2>2 DEF CurrentInv
<1>. QED
  BY <1>1, <1>8, <1>9, <1>10, IssueKeepsInv DEF x
-----------------------------------------------------------------------------
(* The invariant.                                                          *)

\* Nothing is issued at the start.
LEMMA InitRotationInv == Init => RotationInv
<1>. SUFFICES ASSUME Init PROVE RotationInv
  OBVIOUS
<1>1. /\ ops = <<>> /\ count = 0 /\ index = 0 /\ turns = 0 /\ running = {}
      /\ executed = <<>> /\ fired = {}
      /\ driver = [s \in DriverStream |-> <<>>]
  BY DEF Init
<1>2. CountInv
  <2>1. /\ ops \in Seq(Op) /\ executed \in Seq(Nat) /\ Len(ops) = 0
    BY <1>1, SMT
  <2>2. /\ count \in 0 .. MAX_STREAM_TASKS - 1 /\ index \in DriverStream
        /\ Behind(turns) = MAX_STREAM_TASKS
    BY <1>1, StreamRotationAssumption, SMT DEF DriverStream, Behind
  <2>. QED
    BY <1>1, <2>1, <2>2, StreamRotationAssumption, SMT DEF CountInv
<1>3. /\ driver \in [DriverStream -> Seq(AnyCommand)]
      /\ \A s \in DriverStream : DOMAIN driver[s] = {}
  <2>. HIDE DEF AnyCommand
  <2>1. <<>> \in Seq(AnyCommand) /\ DOMAIN <<>> = {}
    BY SMT
  <2>. QED
    BY <1>1, <2>1
<1>4. Range(executed) = {}
  BY <1>1, SMT DEF Range
<1>5. DriverInv(ops, Range(executed), fired, driver)
  BY <1>3 DEF DriverInv, InOrder, RunsLeft
<1>6. TurnInv /\ RunInv
  BY <1>1, <1>4 DEF TurnInv, RunInv
<1>7. CurrentInv
  <2>1. DOMAIN ops = {} /\ ~(turns > 0)
    BY <1>1, SMT
  <2>. QED
    BY <2>1 DEF CurrentInv
<1>. QED
  BY <1>2, <1>5, <1>6, <1>7 DEF RotationInv

\* Every step keeps the invariant.
LEMMA NextKeepsRotationInv == RotationInv /\ [Next]_vars => RotationInv'
<1>. SUFFICES ASSUME RotationInv, [Next]_vars PROVE RotationInv'
  OBVIOUS
<1>1. ASSUME NEW op \in Op, ExecTask(op) PROVE RotationInv'
  BY <1>1, StayKeepsInv, RotateKeepsInv
<1>2. ASSUME NEW s \in DriverStream, StreamStep(s) PROVE RotationInv'
  BY <1>2, StartKeepsInv, FinishKeepsInv, FireKeepsInv, PassKeepsInv
     DEF StreamStep
<1>3. ASSUME NEW e \in Foreign, FireForeign(e) PROVE RotationInv'
  BY <1>3, ForeignKeepsInv
<1>4. ASSUME UNCHANGED vars PROVE RotationInv'
  BY <1>4 DEF vars, RotationInv, CountInv, TurnInv, CurrentInv, RunInv, Over
<1>. QED
  BY <1>1, <1>2, <1>3, <1>4 DEF Next

\* Commands follow what they must, on whatever driver streams those are.
THEOREM RotationInvariant == Spec => []RotationInv
<1>1. Init => RotationInv
  BY InitRotationInv
<1>2. RotationInv /\ [Next]_vars => RotationInv'
  BY NextKeepsRotationInv
<1>. QED
  BY <1>1, <1>2, PTL DEF Spec

\* Kernels of one kernel stream never overlap, on whatever driver streams they
\* are: the launches that leave out the events between them rely on it.
THEOREM KernelsInTurn == Spec => []OneKernelAtOnce
<1>1. RotationInv => OneKernelAtOnce
  <2>. SUFFICES ASSUME RotationInv, NEW m \in running, NEW n \in running
                PROVE  m = n
    BY DEF OneKernelAtOnce
  <2>1. ASSUME NEW a \in running, NEW b \in running, a < b PROVE FALSE
    <3>1. PICK s \in DriverStream : driver[s] # <<>> /\ driver[s][1] = Run(a)
      BY DEF RotationInv, RunInv
    <3>2. /\ a \in DOMAIN ops /\ ops[a] = KernelOp
          /\ b \in DOMAIN ops /\ \A i \in 1 .. b - 1 : Over(i)
      BY DEF RotationInv, RunInv
    <3>3. a \in 1 .. b - 1 /\ a \in Nat
      <4>1. ops \in Seq(Op)
        BY DEF RotationInv, CountInv
      <4>. HIDE DEF Op
      <4>. QED
        BY <2>1, <3>2, <4>1, SMT
    <3>4. a \in Range(executed)
      BY <3>2, <3>3 DEF Over, Complete
    <3>5. 1 \in DOMAIN driver[s]
      BY <3>1, HeadCommand
    <3>6. a \notin Range(executed)
      BY <3>1, <3>3, <3>5 DEF RotationInv, DriverInv, RunsLeft
    <3>. QED
      BY <3>4, <3>6
  <2>2. m \in Nat /\ n \in Nat
    <3>1. m \in DOMAIN ops /\ n \in DOMAIN ops /\ ops \in Seq(Op)
      BY DEF RotationInv, RunInv, CountInv
    <3>. HIDE DEF Op
    <3>. QED
      BY <3>1, SMT
  <2>3. m < n \/ n < m \/ m = n
    BY <2>2, SMT
  <2>. QED
    BY <2>1, <2>3
<1>. QED
  BY <1>1, RotationInvariant, PTL

\* A kernel starts only when every event that its stream was made to wait for
\* before it has fired, even if the driver stream was changed in between.
THEOREM WaitsBeforeKernels == Spec => []WaitsHonoured
<1>1. RotationInv => WaitsHonoured
  <2>. SUFFICES ASSUME RotationInv, NEW n \in running \cup Range(executed),
                       NEW m \in 1 .. n, ops[m] # KernelOp
                PROVE  OtherEv(ops[m][2]) \in fired
    BY DEF WaitsHonoured
  <2>1. /\ n \in DOMAIN ops /\ ops[n] = KernelOp
        /\ \A i \in 1 .. n - 1 : Over(i)
    BY DEF RotationInv, RunInv
  <2>2. m \in 1 .. n - 1
    <3>1. ops \in Seq(Op)
      BY DEF RotationInv, CountInv
    <3>2. n \in Nat
      <4>. HIDE DEF Op
      <4>. QED
        BY <2>1, <3>1, SMT
    <3>3. m # n
      BY <2>1
    <3>. QED
      BY <3>2, <3>3, SMT
  <2>. QED
    BY <2>1, <2>2 DEF Over, Complete
<1>. QED
  BY <1>1, RotationInvariant, PTL
-----------------------------------------------------------------------------
(* The kernels among the operations.                                       *)

\* f[n] has the kernels of the first n operations of o: the recursion that
\* KernelsOf is defined with.
CountsKernels(o, f) ==
  f = [n \in 0 .. Len(o) |->
         IF n = 0 THEN <<>>
         ELSE IF o[n] = KernelOp THEN Append(f[n - 1], n) ELSE f[n - 1]]

\* A set of natural numbers that is not empty has a minimum.
LEMMA LeastNumber ==
  ASSUME NEW S \in SUBSET Nat, S # {}
  PROVE  \E n \in S : \A m \in S : n <= m
<1>. DEFINE less == {p \in Nat \X Nat : p[1] < p[2]}
<1>1. IsWellFoundedOn(less, Nat)
  BY NatLessThanWellFounded DEF OpToRel
<1>2. PICK n \in S : \A m \in S : ~(<<m, n>> \in less)
  BY <1>1, WFMin, Zenon
<1>3. \A m \in S : m < n => <<m, n>> \in less
  BY SMT
<1>. HIDE DEF less
<1>4. ASSUME NEW m \in S PROVE n <= m
  <2>1. ~(m < n) /\ m \in Nat /\ n \in Nat
    BY <1>2, <1>3
  <2>. QED
    BY <2>1, SMT
<1>. QED
  BY <1>4

\* The recursion has a solution: the least length without one would be one
\* more than a length with one.
LEMMA KernelsDefined ==
  ASSUME NEW o \in Seq(Op)
  PROVE  \E f : CountsKernels(o, f) /\ KernelsOf(o) = f[Len(o)]
<1>. DEFINE Body(N, f) == [n \in 0 .. N |->
              IF n = 0 THEN <<>>
              ELSE IF o[n] = KernelOp THEN Append(f[n - 1], n) ELSE f[n - 1]]
            Bad == {N \in Nat : ~ \E f : f = Body(N, f)}
<1>1. Bad = {}
  <2>. SUFFICES ASSUME Bad # {} PROVE FALSE
    OBVIOUS
  <2>1. Bad \in SUBSET Nat
    OBVIOUS
  <2>2. PICK N \in Bad : \A m \in Bad : N <= m
    <3>. HIDE DEF Bad
    <3>. QED
      BY <2>1, LeastNumber
  <2>3. CASE N = 0
    <3>. DEFINE f == [n \in 0 .. 0 |-> <<>>]
    <3>1. f = Body(0, f)
      BY SMT
    <3>. QED
      BY <2>2, <2>3, <3>1
  <2>4. CASE N # 0
    <3>1. N \in Nat /\ N - 1 \in Nat /\ ~(N <= N - 1)
      BY <2>2, <2>4, SMT
    <3>2. N - 1 \notin Bad
      BY <2>2, <3>1
    <3>3. PICK g : g = Body(N - 1, g)
      BY <3>1, <3>2
    <3>. DEFINE f == [n \in 0 .. N |->
                   IF n = N THEN IF o[N] = KernelOp THEN Append(g[N - 1], N)
                                                    ELSE g[N - 1]
                            ELSE g[n]]
    <3>4. ASSUME NEW n \in 0 .. N
          PROVE  f[n] = IF n = 0 THEN <<>>
                        ELSE IF o[n] = KernelOp THEN Append(f[n - 1], n)
                                                ELSE f[n - 1]
      <4>1. CASE n = N
        <5>1. f[n - 1] = g[N - 1]
          <6>1. N - 1 \in 0 .. N /\ N - 1 # N
            BY <3>1, SMT
          <6>. QED
            BY <4>1, <6>1
        <5>. QED
          BY <2>4, <4>1, <5>1
      <4>2. CASE n # N /\ n # 0
        <5>1. n \in 0 .. N - 1 /\ n - 1 \in 0 .. N /\ n - 1 # N
          BY <3>1, <4>2, SMT
        <5>2. f[n] = g[n] /\ f[n - 1] = g[n - 1]
          BY <4>2, <5>1
        <5>3. g[n] = IF o[n] = KernelOp THEN Append(g[n - 1], n) ELSE g[n - 1]
          BY <3>3, <4>2, <5>1
        <5>. HIDE DEF f
        <5>. QED
          BY <4>2, <5>2, <5>3
      <4>3. CASE n # N /\ n = 0
        <5>1. n \in 0 .. N - 1
          BY <3>1, <4>3, SMT
        <5>. QED
          BY <3>3, <4>3, <5>1
      <4>. QED
        BY <4>1, <4>2, <4>3
    <3>5. f = Body(N, f)
      <4>1. DOMAIN f = 0 .. N /\ f = [n \in 0 .. N |-> f[n]]
        OBVIOUS
      <4>. HIDE DEF f
      <4>. QED
        BY <3>4, <4>1
    <3>. QED
      BY <2>2, <3>5
  <2>. QED
    BY <2>3, <2>4
<1>2. Len(o) \in Nat
  <2>. HIDE DEF Op
  <2>. QED
    BY SMT
<1>3. \E f : CountsKernels(o, f)
  BY <1>1, <1>2 DEF CountsKernels
<1>. DEFINE F == CHOOSE f : CountsKernels(o, f)
<1>4. CountsKernels(o, F)
  BY <1>3
<1>5. KernelsOf(o) = F[Len(o)]
  BY DEF KernelsOf, CountsKernels
<1>. QED
  BY <1>4, <1>5

\* The kernels among no operations.
LEMMA KernelsOfNone == KernelsOf(<<>>) = <<>>
<1>1. <<>> \in Seq(Op) /\ Len(<<>>) = 0
  <2>. HIDE DEF Op
  <2>. QED
    BY SMT
<1>2. PICK f : CountsKernels(<<>>, f) /\ KernelsOf(<<>>) = f[Len(<<>>)]
  BY <1>1, KernelsDefined
<1>3. 0 \in 0 .. 0
  BY SMT
<1>. QED
  BY <1>1, <1>2, <1>3 DEF CountsKernels

\* One more operation adds itself if it is a kernel.
LEMMA KernelsOfAppend ==
  ASSUME NEW o \in Seq(Op), NEW op \in Op
  PROVE  KernelsOf(Append(o, op))
           = IF op = KernelOp THEN Append(KernelsOf(o), Len(o) + 1)
                              ELSE KernelsOf(o)
<1>. DEFINE p == Append(o, op)
            N == Len(o)
<1>1. /\ p \in Seq(Op) /\ N \in Nat /\ Len(p) = N + 1 /\ p[N + 1] = op
      /\ \A n \in 1 .. N : p[n] = o[n]
  <2>. HIDE DEF Op
  <2>. QED
    BY SMT
<1>. HIDE DEF p, N
<1>2. PICK f : CountsKernels(o, f) /\ KernelsOf(o) = f[N]
  BY KernelsDefined DEF N
<1>3. PICK g : CountsKernels(p, g) /\ KernelsOf(p) = g[N + 1]
  BY <1>1, KernelsDefined
<1>4. \A n \in 0 .. N :
        f[n] = IF n = 0 THEN <<>>
               ELSE IF o[n] = KernelOp THEN Append(f[n - 1], n) ELSE f[n - 1]
  BY <1>2 DEF CountsKernels, N
<1>5. \A n \in 0 .. N + 1 :
        g[n] = IF n = 0 THEN <<>>
               ELSE IF p[n] = KernelOp THEN Append(g[n - 1], n) ELSE g[n - 1]
  BY <1>1, <1>3 DEF CountsKernels
<1>6. g[N] = f[N]
  <2>. DEFINE Bad == {n \in 0 .. N : g[n] # f[n]}
  <2>1. Bad \in SUBSET Nat
    BY <1>1, SMT
  <2>2. ASSUME Bad # {} PROVE FALSE
    <3>1. PICK n \in Bad : \A m \in Bad : n <= m
      <4>. HIDE DEF Bad
      <4>. QED
        BY <2>1, <2>2, LeastNumber
    <3>2. n \in 0 .. N /\ n \in 0 .. N + 1 /\ g[n] # f[n]
      BY <1>1, <3>1, SMT
    <3>3. CASE n = 0
      BY <1>4, <1>5, <3>2, <3>3
    <3>4. CASE n # 0
      <4>1. /\ n \in 1 .. N /\ n - 1 \in 0 .. N /\ ~(n <= n - 1)
        BY <1>1, <3>2, <3>4, SMT
      <4>2. g[n - 1] = f[n - 1]
        BY <3>1, <4>1
      <4>3. p[n] = o[n]
        BY <1>1, <4>1
      <4>. QED
        BY <1>4, <1>5, <3>2, <3>4, <4>2, <4>3
    <3>. QED
      BY <3>3, <3>4
  <2>3. N \in 0 .. N
    BY <1>1, SMT
  <2>. QED
    BY <2>2, <2>3
<1>7. g[N + 1] = IF op = KernelOp THEN Append(f[N], N + 1) ELSE f[N]
  <2>1. N + 1 \in 0 .. N + 1 /\ N + 1 # 0 /\ (N + 1) - 1 = N
    BY <1>1, SMT
  <2>2. g[N + 1] = IF p[N + 1] = KernelOp THEN Append(g[(N + 1) - 1], N + 1)
                                          ELSE g[(N + 1) - 1]
    BY <1>5, <2>1
  <2>. QED
    BY <1>1, <1>6, <2>1, <2>2
<1>. QED
  BY <1>2, <1>3, <1>7 DEF p, N

\* KernelNumbers has the kernels issued, in the order they were.
KernelsInv ==
  /\ KernelNumbers \in Seq(Nat)
  /\ \A i, j \in DOMAIN KernelNumbers : i < j => KernelNumbers[i] < KernelNumbers[j]
  /\ \A n : (\E i \in DOMAIN KernelNumbers : KernelNumbers[i] = n)
              <=> n \in DOMAIN ops /\ ops[n] = KernelOp

OrderInv == KernelsInv /\ PrefixInv

\* The kernel that finishes is the next of those issued.
LEMMA NextKernelFinishes ==
  ASSUME RotationInv, OrderInv, NEW s \in DriverStream, FinishKernel(s)
  PROVE  /\ Len(executed) < Len(KernelNumbers)
         /\ KernelNumbers[Len(executed) + 1] = Arg(s)
<1>. DEFINE n == Arg(s)
            K == KernelNumbers
            L == Len(executed)
<1>1. driver[s] # <<>> /\ HeadIs(s, "run")
  BY DEF FinishKernel, HeadIs
<1>2. n \in Nat /\ 1 \in DOMAIN driver[s] /\ driver[s][1] = Run(n)
  BY <1>1, HeadCommand
<1>. HIDE DEF n
<1>3. n \in DOMAIN ops /\ ops[n] = KernelOp /\ n \notin Range(executed)
  BY <1>2 DEF RotationInv, DriverInv, RunsLeft
<1>4. n \in running /\ \A m \in 1 .. n - 1 : Over(m)
  BY DEF FinishKernel, RotationInv, RunInv, n
<1>5. /\ K \in Seq(Nat) /\ executed \in Seq(Nat)
      /\ \A i, j \in DOMAIN K : i < j => K[i] < K[j]
      /\ L <= Len(K) /\ \A i \in DOMAIN executed : executed[i] = K[i]
  BY DEF OrderInv, KernelsInv, PrefixInv, RotationInv, CountInv
<1>6. PICK j \in DOMAIN K : K[j] = n
  BY <1>3 DEF OrderInv, KernelsInv
<1>7. \A i \in DOMAIN K : K[i] \in DOMAIN ops /\ ops[K[i]] = KernelOp
  BY DEF OrderInv, KernelsInv
<1>. HIDE DEF K
<1>8. /\ Len(K) \in Nat /\ L \in Nat /\ DOMAIN K = 1 .. Len(K)
      /\ DOMAIN executed = 1 .. L /\ \A i \in DOMAIN K : K[i] \in Nat
  BY <1>5, SMT
<1>9. j > L
  <2>1. ASSUME j <= L PROVE FALSE
    <3>1. j \in DOMAIN executed
      BY <1>6, <1>8, <2>1, SMT
    <3>2. executed[j] = n
      BY <1>5, <1>6, <3>1
    <3>. QED
      BY <1>3, <3>1, <3>2 DEF Range
  <2>. QED
    BY <1>6, <1>8, <2>1, SMT
<1>10. L + 1 \in DOMAIN K /\ L < Len(K)
  BY <1>6, <1>8, <1>9, SMT
<1>11. j = L + 1
  <2>1. ASSUME L + 1 < j PROVE FALSE
    <3>1. K[L + 1] < n /\ K[L + 1] \in Nat
      BY <1>5, <1>6, <1>8, <1>10, <2>1
    <3>2. K[L + 1] >= 1
      <4>1. K[L + 1] \in DOMAIN ops /\ ops \in Seq(Op)
        BY <1>7, <1>10 DEF RotationInv, CountInv
      <4>. HIDE DEF Op
      <4>. QED
        BY <4>1, SMT
    <3>3. K[L + 1] \in 1 .. n - 1
      BY <1>2, <3>1, <3>2, SMT
    <3>4. K[L + 1] \in Range(executed)
      BY <1>4, <1>7, <1>10, <3>3 DEF Over, Complete
    <3>5. PICK i \in DOMAIN executed : executed[i] = K[L + 1]
      BY <3>4 DEF Range
    <3>6. i \in DOMAIN K /\ i < L + 1
      BY <1>8, <1>10, SMT
    <3>7. K[i] < K[L + 1] /\ K[i] = K[L + 1]
      BY <1>5, <1>10, <3>5, <3>6
    <3>. QED
      BY <3>1, <3>7, SMT
  <2>. QED
    BY <1>6, <1>8, <1>9, <2>1, SMT
<1>. QED
  BY <1>6, <1>10, <1>11 DEF K, n

\* Issuing an operation adds it to the kernels, or nothing.
LEMMA IssueKernel ==
  ASSUME RotationInv, NEW op \in Op, ExecTask(op)
  PROVE  /\ UNCHANGED executed
         /\ KernelNumbers' = IF op = KernelOp
                             THEN Append(KernelNumbers, Len(ops) + 1)
                             ELSE KernelNumbers
         /\ Len(ops) + 1 \in 1 .. MaxOps
<1>1. ops' = Append(ops, op) /\ UNCHANGED executed /\ Len(ops) < MaxOps
  BY DEF ExecTask
<1>2. ops \in Seq(Op)
  BY DEF RotationInv, CountInv
<1>3. KernelsOf(Append(ops, op)) = IF op = KernelOp
                                   THEN Append(KernelsOf(ops), Len(ops) + 1)
                                   ELSE KernelsOf(ops)
  BY <1>2, KernelsOfAppend
<1>4. Len(ops) \in Nat
  <2>. HIDE DEF Op
  <2>. QED
    BY <1>2, SMT
<1>. QED
  BY <1>1, <1>3, <1>4, StreamRotationAssumption, SMT DEF KernelNumbers

\* Only issuing an operation changes the kernels issued.
LEMMA OtherSteps ==
  ASSUME ops' = ops
  PROVE  KernelNumbers' = KernelNumbers
BY DEF KernelNumbers

\* Every step keeps the kernels in order.
LEMMA NextKeepsOrderInv ==
  ASSUME RotationInv, OrderInv, [Next]_vars
  PROVE  OrderInv'
<1>. DEFINE K == KernelNumbers
<1>1. /\ K \in Seq(Nat) /\ ops \in Seq(Op) /\ executed \in Seq(Nat)
      /\ \A i, j \in DOMAIN K : i < j => K[i] < K[j]
      /\ \A n : (\E i \in DOMAIN K : K[i] = n) <=> n \in DOMAIN ops /\ ops[n] = KernelOp
      /\ Len(executed) <= Len(K) /\ \A i \in DOMAIN executed : executed[i] = K[i]
  BY DEF OrderInv, KernelsInv, PrefixInv, RotationInv, CountInv
<1>2. ASSUME NEW op \in Op, ExecTask(op) PROVE OrderInv'
  <2>. DEFINE n == Len(ops) + 1
  <2>1. /\ executed' = executed /\ ops' = Append(ops, op)
        /\ K' = IF op = KernelOp THEN Append(K, n) ELSE K
    BY <1>2, IssueKernel DEF ExecTask
  <2>2. /\ n \in Nat /\ \A m \in DOMAIN ops : m \in Nat /\ m < n /\ ops'[m] = ops[m]
        /\ DOMAIN ops' = DOMAIN ops \cup {n} /\ ops'[n] = op
    <3>. HIDE DEF Op
    <3>. QED
      BY <1>1, <2>1, SMT
  <2>. HIDE DEF n, K
  <2>3. CASE op = KernelOp
    <3>1. /\ K' \in Seq(Nat) /\ Len(K') = Len(K) + 1 /\ Len(K) \in Nat
          /\ DOMAIN K' = DOMAIN K \cup {Len(K) + 1} /\ K'[Len(K) + 1] = n
          /\ \A i \in DOMAIN K : i \in 1 .. Len(K) /\ K'[i] = K[i]
          /\ DOMAIN executed \subseteq DOMAIN K
      <4>1. K' = Append(K, n)
        BY <2>1, <2>3
      <4>2. /\ K' \in Seq(Nat) /\ Len(K') = Len(K) + 1 /\ Len(K) \in Nat
            /\ DOMAIN K' = DOMAIN K \cup {Len(K) + 1} /\ K'[Len(K) + 1] = n
            /\ DOMAIN K = 1 .. Len(K)
            /\ \A i \in DOMAIN K : K'[i] = K[i]
        BY <1>1, <2>2, <4>1, Appended
      <4>3. DOMAIN executed = 1 .. Len(executed) /\ Len(executed) \in Nat
        BY <1>1
      <4>. QED
        BY <1>1, <4>2, <4>3
    <3>2. \A i \in DOMAIN K : K[i] \in DOMAIN ops
      BY <1>1
    <3>3. \A i, j \in DOMAIN K' : i < j => K'[i] < K'[j]
      <4>. SUFFICES ASSUME NEW i \in DOMAIN K', NEW j \in DOMAIN K', i < j
                    PROVE  K'[i] < K'[j]
        OBVIOUS
      <4>1. i \in DOMAIN K
        BY <3>1, SMT
      <4>2. CASE j \in DOMAIN K
        BY <1>1, <3>1, <4>1, <4>2
      <4>3. CASE j = Len(K) + 1
        BY <2>2, <3>1, <3>2, <4>1, <4>3
      <4>. QED
        BY <3>1, <4>2, <4>3
    <3>4. \A m : (\E i \in DOMAIN K' : K'[i] = m)
                   <=> m \in DOMAIN ops' /\ ops'[m] = KernelOp
      <4>. SUFFICES ASSUME NEW m
                    PROVE  (\E i \in DOMAIN K' : K'[i] = m)
                             <=> m \in DOMAIN ops' /\ ops'[m] = KernelOp
        OBVIOUS
      <4>1. CASE m = n
        BY <2>2, <2>3, <3>1, <4>1
      <4>2. CASE m # n
        <5>1. (\E i \in DOMAIN K' : K'[i] = m) <=> \E i \in DOMAIN K : K[i] = m
          BY <3>1, <4>2
        <5>2. m \in DOMAIN ops' /\ ops'[m] = KernelOp
                <=> m \in DOMAIN ops /\ ops[m] = KernelOp
          BY <2>2, <4>2
        <5>. QED
          BY <1>1, <5>1, <5>2
      <4>. QED
        BY <4>1, <4>2
    <3>5. KernelsInv'
      BY <3>1, <3>3, <3>4 DEF KernelsInv, K
    <3>6. Len(executed) <= Len(K') /\ \A i \in DOMAIN executed : executed[i] = K'[i]
      <4>1. Len(executed) \in Nat
        BY <1>1, SMT
      <4>2. Len(executed) <= Len(K')
        BY <1>1, <3>1, <4>1, SMT
      <4>. QED
        BY <1>1, <3>1, <4>2
    <3>. QED
      BY <2>1, <3>5, <3>6 DEF OrderInv, PrefixInv, K
  <2>4. CASE op # KernelOp
    <3>1. K' = K
      BY <2>1, <2>4
    <3>2. \A m : m \in DOMAIN ops' /\ ops'[m] = KernelOp
                   <=> m \in DOMAIN ops /\ ops[m] = KernelOp
      BY <2>2, <2>4
    <3>. QED
      BY <1>1, <2>1, <3>1, <3>2 DEF OrderInv, KernelsInv, PrefixInv, K
  <2>. QED
    BY <2>3, <2>4
<1>3. ASSUME NEW s \in DriverStream, FinishKernel(s) PROVE OrderInv'
  <2>1. /\ ops' = ops /\ executed' = Append(executed, Arg(s)) /\ K' = K
    BY <1>3, OtherSteps DEF FinishKernel, issueVars
  <2>2. Len(executed) < Len(K) /\ K[Len(executed) + 1] = Arg(s)
    BY <1>3, NextKernelFinishes
  <2>3. Arg(s) \in Nat
    BY <1>3, HeadCommand DEF FinishKernel, HeadIs
  <2>. HIDE DEF K
  <2>4. /\ Len(executed') = Len(executed) + 1
        /\ DOMAIN executed' = DOMAIN executed \cup {Len(executed) + 1}
        /\ \A i \in DOMAIN executed : executed'[i] = executed[i]
        /\ executed'[Len(executed) + 1] = Arg(s)
        /\ Len(executed) + 1 <= Len(K)
    <3>1. /\ Len(executed') = Len(executed) + 1
          /\ DOMAIN executed' = DOMAIN executed \cup {Len(executed) + 1}
          /\ \A i \in DOMAIN executed : executed'[i] = executed[i]
          /\ executed'[Len(executed) + 1] = Arg(s)
          /\ Len(executed) \in Nat
      BY <1>1, <2>1, <2>3, Appended
    <3>2. Len(K) \in Nat
      BY <1>1
    <3>. QED
      BY <2>2, <3>1, <3>2
  <2>5. PrefixInv'
    BY <1>1, <2>1, <2>2, <2>4 DEF PrefixInv, K
  <2>. QED
    BY <1>1, <2>1, <2>5 DEF OrderInv, KernelsInv, K
<1>4. ASSUME ops' = ops, executed' = executed PROVE OrderInv'
  <2>1. K' = K
    BY <1>4, OtherSteps
  <2>. QED
    BY <1>4, <2>1 DEF OrderInv, KernelsInv, PrefixInv
<1>5. ASSUME NEW s \in DriverStream, StreamStep(s) PROVE OrderInv'
  BY <1>3, <1>4, <1>5
     DEF StreamStep, StartKernel, FireEvent, PassWait, issueVars
<1>6. ASSUME NEW e \in Foreign, FireForeign(e) PROVE OrderInv'
  BY <1>4, <1>6 DEF FireForeign, issueVars
<1>7. ASSUME UNCHANGED vars PROVE OrderInv'
  BY <1>4, <1>7 DEF vars
<1>. QED
  BY <1>2, <1>5, <1>6, <1>7 DEF Next

\* The driver streams together are one in-order stream: every kernel issued is
\* executed once, in the order the queue manager issued them.
THEOREM StreamsAreOne == Spec => ImplementsStream
<1>1. Init => OrderInv /\ Stream!Init
  <2>. SUFFICES ASSUME Init PROVE OrderInv /\ Stream!Init
    OBVIOUS
  <2>1. ops = <<>> /\ executed = <<>> /\ KernelNumbers = <<>>
    BY KernelsOfNone DEF Init, KernelNumbers
  <2>2. /\ <<>> \in Seq(Nat) /\ DOMAIN <<>> = {} /\ Len(<<>>) = 0
    BY SMT
  <2>3. KernelsInv
    BY <2>1, <2>2 DEF KernelsInv
  <2>4. PrefixInv
    <3>1. 0 <= 0
      BY SMT
    <3>. QED
      BY <2>1, <2>2, <3>1 DEF PrefixInv
  <2>. QED
    BY <2>1, <2>3, <2>4 DEF OrderInv, Stream!Init
<1>2. RotationInv /\ OrderInv /\ [Next]_vars => OrderInv'
  BY NextKeepsOrderInv
<1>3. RotationInv /\ OrderInv /\ [Next]_vars => [Stream!Next]_(Stream!vars)
  <2>. SUFFICES ASSUME RotationInv, OrderInv, [Next]_vars
                PROVE  [Stream!Next]_(Stream!vars)
    OBVIOUS
  <2>1. ASSUME ops' = ops, executed' = executed
        PROVE  UNCHANGED Stream!vars
    BY <2>1, OtherSteps DEF Stream!vars
  <2>2. ASSUME NEW op \in Op, ExecTask(op)
        PROVE  [Stream!Next]_(Stream!vars)
    <3>1. CASE op = KernelOp
      <4>1. Stream!Issue(Len(ops) + 1) /\ Len(ops) + 1 \in 1 .. MaxOps
        BY <2>2, <3>1, IssueKernel DEF Stream!Issue
      <4>. QED
        BY <4>1 DEF Stream!Next
    <3>2. CASE op # KernelOp
      BY <2>2, <3>2, IssueKernel DEF Stream!vars
    <3>. QED
      BY <3>1, <3>2
  <2>3. ASSUME NEW s \in DriverStream, FinishKernel(s)
        PROVE  Stream!Execute
    <3>1. /\ ops' = ops /\ executed' = Append(executed, Arg(s))
          /\ KernelNumbers' = KernelNumbers
      BY <2>3, OtherSteps DEF FinishKernel, issueVars
    <3>. QED
      BY <2>3, <3>1, NextKernelFinishes DEF Stream!Execute
  <2>4. ASSUME NEW s \in DriverStream, StreamStep(s)
        PROVE  [Stream!Next]_(Stream!vars)
    BY <2>1, <2>3, <2>4
       DEF StreamStep, StartKernel, FireEvent, PassWait, issueVars, Stream!Next
  <2>5. ASSUME NEW e \in Foreign, FireForeign(e)
        PROVE  UNCHANGED Stream!vars
    BY <2>1, <2>5 DEF FireForeign, issueVars
  <2>6. ASSUME UNCHANGED vars PROVE UNCHANGED Stream!vars
    BY <2>1, <2>6 DEF vars
  <2>. QED
    BY <2>2, <2>4, <2>5, <2>6 DEF Next
<1>. QED
  BY <1>1, <1>2, <1>3, RotationInvariant, PTL
     DEF Spec, ImplementsStream, Stream!Spec
=============================================================================
