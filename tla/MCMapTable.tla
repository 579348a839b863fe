----------------------------- MODULE MCMapTable -----------------------------
EXTENDS MapTable, TLC

CONSTANTS a, b, c, d, e

(* a and b collide in full and push c, their neighbour, from its home; no   *)
(* chain of these runs over the end of the slots.                           *)
Hashes == (a :> 16) @@ (b :> 16) @@ (c :> 1)

(* Four keys at home in the last slot but one of sixteen, one in the last.  *)
WrappingHashes == (a :> 14) @@ (b :> 30) @@ (c :> 46) @@ (d :> 62) @@ (e :> 15)
=============================================================================
