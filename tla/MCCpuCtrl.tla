----------------------------- MODULE MCCpuCtrl -----------------------------
(* Small instances of CpuCtrl: the constants its configurations choose.    *)
EXTENDS CpuCtrl, TLC

CONSTANTS a, b  \* tiles

OneDevice   == (0 :> TRUE)
TwoZeroCopy == (0 :> FALSE @@ 1 :> FALSE)
\* A device, and a ctrl that works on host memory.
Mixed       == (0 :> TRUE @@ 1 :> FALSE)

Arg(t, r) == [tile |-> t, role |-> r]
\* One tile, every role.
OneArg == {<<Arg(a, r)>> : r \in Role}
\* One tile, written in every job.
Writing == {<<Arg(a, r)>> : r \in {"OUT", "IO"}}

AllAttached == Ctrl \X Tiles
=============================================================================
