----------------------------- MODULE MCLuaTable -----------------------------
(***************************************************************************)
(* LuaTable on small instances: the invariants of the node structure,      *)
(* the length operator, and the table as an implementation of LuaMap.      *)
(***************************************************************************)
EXTENDS LuaTableLen, TLC

CONSTANTS a, b, v1, v2

\* math.Float64bits of the integers in use, modulo 105: the code only takes
\* remainders by 1, 3, 7 and 15, which divide it.  The exponent field of an
\* integer n >= 1 is 1023 + Log, its fraction (n - 2^Log) / 2^Log.
Pow52Mod105 == 16 \* 2^52 % 105
LogFloor(n) == CHOOSE e \in 0 .. n : 2^e <= n /\ n < 2^(e + 1)
\* (n - 2^e) * 2^(52 - e) % 105: divide by 2^e modulo 105 (53 is 1/2).
FloatBits(n) ==
  LET e == LogFloor(n)
  IN (((1023 + e) * Pow52Mod105) + ((n - 2^e) * Pow52Mod105 * (53^e % 105))) % 105

\* The strings collide with each other, and with 1 and 5 in four nodes.
MCHash ==
  [k \in Keys |-> IF k \in IntKeys THEN (IF k <= 0 THEN 0 ELSE FloatBits(k))
                  ELSE 8]
=============================================================================
