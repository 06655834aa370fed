--------------------------- MODULE MCLuaTableNext ---------------------------
(* Traversals of small tables; the hashes are those of MCLuaTable. *)
EXTENDS LuaTableNext, TLC

CONSTANTS a, b, v1

\* Residues of Float64bits modulo 105 for 1 and 3; two strings that collide
\* with each other in two nodes and, in four, one each with an integer's place.
MCHash == (1 :> 93) @@ (3 :> 12) @@ (a :> 5) @@ (b :> 7)
=============================================================================
