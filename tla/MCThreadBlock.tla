---------------------------- MODULE MCThreadBlock ----------------------------
(* Small instances of ThreadBlock: the constants its configurations choose. *)
EXTENDS ThreadBlock

Pair(a, b) == [c \in Ctrl |-> IF c = 0 THEN a ELSE b]
\* The pairs of ctrls that differ in their threads or in their order.
SomePairs == {Pair("MEMMOVES", "DRIVER"), Pair("ZEROCOPY", "ZEROCOPY"),
              Pair("DRIVER", "ZEROCOPY"), Pair("DRIVER", "DRIVER")}
=============================================================================
