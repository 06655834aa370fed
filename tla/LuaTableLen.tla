---------------------------- MODULE LuaTableLen ----------------------------
(***************************************************************************)
(* The length operator: GetN and unboundSearch of lua/ltable.go, which     *)
(* look for a boundary by bisection in whichever part must hold one.       *)
(***************************************************************************)
EXTENDS LuaTable

CONSTANT MAX_INT  \* llimits.go:16, 2^31 - 3

ASSUME MaxIntAssumption == MAX_INT \in Nat \ {0}

\* !GetNum(j).IsNil(); a key outside IntKeys is never present.
Present(j) == j \in IntKeys /\ Get(j) # Nil

\* Broken: keeps the wrong half.
BisectSwapped(lo, hi) ==
  LET step[b \in Nat \X Nat] ==
        LET m == (b[1] + b[2]) \div 2
        IN IF b[2] - b[1] <= 1 THEN b[1]
           ELSE step[IF Present(m) THEN <<b[1], m>> ELSE <<m, b[2]>>]
  IN step[<<lo, hi>>]

\* The bisection of both functions: lo is 0 or present, hi is absent.
Bisect(lo, hi) ==
  LET step[b \in Nat \X Nat] ==
        LET m == (b[1] + b[2]) \div 2
        IN IF b[2] - b[1] <= 1 THEN b[1]
           ELSE step[IF Present(m) THEN <<m, b[2]>> ELSE <<b[1], m>>]
  IN step[<<lo, hi>>]

\* The loop meant for tables "built with bad purposes": it runs while the
\* entry is nil, so it stops at the first present key and returns one less.
LinearSearch == (CHOOSE i \in IntKeys : /\ i > 0 /\ Present(i)
                                        /\ \A j \in 1 .. i - 1 : ~Present(j)) - 1

\* Doubles the upper bound until it is absent.
UnboundSearch(start) ==
  LET probe[b \in Nat \X Nat] ==
        IF ~Present(b[2]) THEN Bisect(b[1], b[2])
        ELSE IF 2 * b[2] > MAX_INT THEN LinearSearch
        ELSE probe[<<b[2], 2 * b[2]>>]
  IN probe[<<start, start + 1>>]

GetN ==
  LET j == Len(array)
  IN IF j > 0 /\ array[j] = Nil THEN Bisect(0, j)
     ELSE IF dummy THEN j
     ELSE UnboundSearch(j)

\* ltable.go:604, "a `boundary' is an integer index such that t[i] is non-nil
\* and t[i+1] is nil (and 0 if t[1] is nil)": # returns one whatever the
\* split between the two parts and whatever holes they have.
LengthIsBoundary ==
  Idle => /\ GetN = 0 \/ Present(GetN)
          /\ ~Present(GetN + 1)
=============================================================================
