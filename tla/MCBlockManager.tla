--------------------------- MODULE MCBlockManager ---------------------------
(* A driver seeds a set of two blocks; two worker nodes download it, one  *)
(* of them with two task threads calling get_blocks at the same time.     *)
EXTENDS BlockManager, TLC

CONSTANTS s, a, b, a1, a2, b1

MCNodes == {s, a, b}
MCWorkers == {a, b}
MCCallers == {a1, a2, b1}
MCNodeOf == (a1 :> a) @@ (a2 :> a) @@ (b1 :> b)
====
