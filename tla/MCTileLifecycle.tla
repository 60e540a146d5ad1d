--------------------------- MODULE MCTileLifecycle ---------------------------
(* Small instances of TileLifecycle: the constants its configurations      *)
(* choose.                                                                  *)
EXTENDS TileLifecycle, TLC

CONSTANTS whole, part  \* a tile and a selection of it

OneSelection == (part :> whole)
\* The tile is only declared, or has memory on both ctrls.
SomeStarts == {<<"ASYNC", {}>>, <<"SYNC", Ctrl \X {whole}>>}
\* A kernel and a host task on the tile, and transfers of the selection to one
\* ctrl and from the other.
SomeJobs ==
  {<<"launch", 0, whole, "IO">>, <<"moveto", 0, part, "IO">>,
   <<"hosttask", Host, whole, "IN">>, <<"movefrom", 1, part, "IO">>}
=============================================================================
