---------------------------- MODULE MCDriverCtrl ----------------------------
(* Small instances of DriverCtrl: the constants its configurations choose. *)
EXTENDS DriverCtrl

CONSTANTS a, b  \* tiles

OneCuda == (0 :> "CUDA")
\* Two drivers that do not know the events of each other.
CudaAndOpenCL == (0 :> "CUDA" @@ 1 :> "OPENCL_GPU")
OneStream == [c \in Ctrl |-> 1]

Arg(t, r) == [tile |-> t, role |-> r]
\* One tile, every role.
OneArg == {<<Arg(a, r)>> : r \in Role}
\* One tile, changed.
OneIO == {<<Arg(a, "IO")>>}

AllAttached == Ctrl \X Tiles
\* The second ctrl gets the tile when the program asks for it.
FirstAttached == {<<0, a>>}
NoFlags == {{}}
=============================================================================
