------------------------------ MODULE MCEpsilod ------------------------------
(* Small computations for Epsilod.                                          *)
EXTENDS Epsilod

\* 1dc2 of the test program: three processes, all interleavings.
Line == [procs |-> 3, partition |-> "plain", weights |-> <<>>, sizes |-> <<11>>,
         stencil |-> {<<-1>>, <<1>>}, iterations |-> 3, eager |-> FALSE]

\* A stencil to one side, three processes: none waits for the one after it.
OneSided == [Line EXCEPT !.stencil = {<<-1>>, <<0>>},
                         !.sizes = <<7>>, !.iterations = 4, !.eager = TRUE]

\* 1dc2 with three processes of different weights.
Weighted == [Line EXCEPT !.partition = "weighted",
                         !.weights = <<1, 2, 1>>, !.sizes = <<15>>,
                         !.eager = TRUE]

\* 2df5, to two cells on one side of each dimension and to the diagonal: four
\* processes on a grid.
Grid == [procs |-> 4, partition |-> "grid", weights |-> <<>>, sizes |-> <<8, 9>>,
         stencil |-> {<<-2, 0>>, <<-1, -1>>, <<-1, 0>>, <<0, -2>>, <<0, -1>>},
         iterations |-> 2, eager |-> TRUE]

\* 2d4, the first dimension divided.
Rows == [Grid EXCEPT !.procs = 2, !.partition = "plain", !.iterations = 4,
           !.sizes = <<8, 5>>,
           !.stencil = {<<-1, 0>>, <<1, 0>>, <<0, -1>>, <<0, 1>>}]

\* A stencil along the first dimension of two.
Vertical == [Rows EXCEPT !.stencil = {<<-1, 0>>, <<1, 0>>}, !.sizes = <<8, 3>>]

MCInputs == {Line, OneSided, Weighted, Grid, Rows}
VerticalInput == {Vertical}
=============================================================================
