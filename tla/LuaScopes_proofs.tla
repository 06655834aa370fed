-------------------------- MODULE LuaScopes_proofs --------------------------
(***************************************************************************)
(* Proofs about LuaScopes: names, upvalues and blocks of a program of any  *)
(* size and nesting.                                                       *)
(***************************************************************************)
EXTENDS LuaScopes, SequenceTheorems, WellFoundedInduction, TLAPS

-----------------------------------------------------------------------------
(* Numbers: the least, the greatest, induction and recursion *)

LEMMA Least ==
  ASSUME NEW T \in SUBSET Nat, T # {}
  PROVE  \E n \in T : \A m \in T : n <= m
<1>1. PICK n \in T : \A m \in T : <<m, n>> \notin OpToRel(<, Nat)
  BY NatLessThanWellFounded, WFMin, Zenon
<1>2. \A m \in T : ~(m < n)
  BY <1>1, Zenon DEF OpToRel
<1>. QED
  BY <1>2

LEMMA Induct ==
  ASSUME NEW P \in SUBSET Nat, 0 \in P, \A n \in P : n + 1 \in P
  PROVE  P = Nat
<1>. SUFFICES ASSUME P # Nat PROVE FALSE
  OBVIOUS
<1>1. PICK n \in Nat \ P : \A m \in Nat \ P : n <= m
  BY Least
<1>2. n # 0 /\ n - 1 \in P
  BY <1>1
<1>. QED
  BY <1>1, <1>2

LEMMA MinIs ==
  ASSUME NEW S \in SUBSET Nat, S # {}
  PROVE  Min(S) \in S /\ \A y \in S : Min(S) <= y
BY Least DEF Min

\* A set of numbers that has a bound has a greatest one.
LEMMA MaxIs ==
  ASSUME NEW S \in SUBSET Nat, S # {}, NEW b \in Nat, \A x \in S : x <= b
  PROVE  Max(S) \in S /\ \A y \in S : y <= Max(S)
<1>. DEFINE T == {m \in Nat : \A x \in S : x <= m}
<1>1. PICK m \in T : \A k \in T : m <= k
  BY Least
<1>2. m \in S
  <2>. SUFFICES ASSUME m \notin S PROVE FALSE
    OBVIOUS
  <2>1. \A x \in S : x < m
    BY <1>1
  <2>2. PICK x \in S : x < m
    BY <2>1
  <2>3. m - 1 \in T
    BY <2>1, <2>2
  <2>. QED
    BY <1>1, <2>3
<1>3. \E x \in S : \A y \in S : x >= y
  BY <1>1, <1>2
<1>. QED
  BY <1>3 DEF Max

\* A function that is defined by recursion on numbers exists.
IsStep(step, V) == step \in [Nat \X V -> V]
Repeats(f, V, a, step) ==
  /\ f \in [Nat -> V] /\ f[0] = a
  /\ \A n \in Nat : f[n + 1] = step[<<n, f[n]>>]

LEMMA Recursion ==
  ASSUME NEW V, NEW a \in V, NEW step, IsStep(step, V)
  PROVE  \E f : Repeats(f, V, a, step)
<1>. USE DEF IsStep
<1>. DEFINE Up(n, g) == /\ g \in [0 .. n -> V] /\ g[0] = a
                        /\ \A i \in 0 .. n - 1 : g[i + 1] = step[<<i, g[i]>>]
            E == {n \in Nat : \E g \in [0 .. n -> V] : Up(n, g)}
<1>1. 0 \in E
  <2>. DEFINE g == [i \in 0 .. 0 |-> a]
  <2>1. Up(0, g)
    OBVIOUS
  <2>. QED
    BY <2>1
<1>2. ASSUME NEW n \in E PROVE n + 1 \in E
  <2>1. PICK g \in [0 .. n -> V] : Up(n, g)
    OBVIOUS
  <2>. DEFINE h == [i \in 0 .. n + 1 |-> IF i <= n THEN g[i] ELSE step[<<n, g[n]>>]]
  <2>2. h \in [0 .. n + 1 -> V]
    BY <2>1
  <2>3. \A i \in 0 .. n : h[i] = g[i]
    OBVIOUS
  <2>4. h[n + 1] = step[<<n, g[n]>>]
    OBVIOUS
  <2>. HIDE DEF h
  <2>5. Up(n + 1, h)
    <3>1. h[0] = a
      BY <2>1, <2>3
    <3>2. ASSUME NEW i \in 0 .. (n + 1) - 1 PROVE h[i + 1] = step[<<i, h[i]>>]
      <4>1. CASE i = n
        BY <2>3, <2>4, <4>1
      <4>2. CASE i # n
        <5>1. i \in 0 .. n - 1 /\ i + 1 \in 0 .. n /\ i \in 0 .. n
          BY <4>2
        <5>2. g[i + 1] = step[<<i, g[i]>>]
          BY <2>1, <5>1
        <5>. QED
          BY <2>3, <5>1, <5>2
      <4>. QED
        BY <4>1, <4>2
    <3>. QED
      BY <2>2, <3>1, <3>2
  <2>. QED
    BY <2>2, <2>5, SMTT(20)
<1>. HIDE DEF Up
<1>3. E = Nat
  BY <1>1, <1>2, Induct
<1>4. \A n \in Nat : \E g : Up(n, g)
  BY <1>3
<1>. DEFINE G(n) == CHOOSE g : Up(n, g)
            f == [n \in Nat |-> G(n)[n]]
<1>5. \A n \in Nat : Up(n, G(n))
  BY <1>4
<1>. HIDE DEF G
<1>6. ASSUME NEW n \in Nat, NEW g, NEW k \in Nat, NEW h, k <= n, Up(n, g), Up(k, h)
      PROVE  \A i \in 0 .. k : g[i] = h[i]
  <2>. DEFINE P == {i \in Nat : i <= k => g[i] = h[i]}
  <2>1. 0 \in P
    BY <1>6 DEF Up
  <2>2. \A i \in P : i + 1 \in P
    <3>. SUFFICES ASSUME NEW i \in P, i + 1 <= k PROVE g[i + 1] = h[i + 1]
      OBVIOUS
    <3>1. g[i] = h[i] /\ i \in 0 .. n - 1 /\ i \in 0 .. k - 1
      BY <1>6
    <3>. QED
      BY <1>6, <3>1 DEF Up
  <2>. HIDE DEF P
  <2>3. P = Nat
    BY <2>1, <2>2, Induct DEF P
  <2>. QED
    BY <2>3 DEF P
<1>7. f[0] = a
  BY <1>5 DEF Up
<1>8. ASSUME NEW n \in Nat PROVE f[n + 1] = step[<<n, f[n]>>] /\ f[n] \in V
  <2>1. Up(n + 1, G(n + 1)) /\ Up(n, G(n))
    BY <1>5
  <2>2. G(n + 1)[n] = G(n)[n]
    BY <2>1, <1>6
  <2>3. G(n + 1)[n + 1] = step[<<n, G(n + 1)[n]>>] /\ G(n)[n] \in V
    BY <2>1 DEF Up
  <2>4. f[n] = G(n)[n] /\ f[n + 1] = G(n + 1)[n + 1]
    OBVIOUS
  <2>. QED
    BY <2>2, <2>3, <2>4
<1>. HIDE DEF f
<1>9. f \in [Nat -> V]
  BY <1>8 DEF f
<1>. QED
  BY <1>7, <1>8, <1>9 DEF Repeats

\* The same from any number to any other.
RepeatsFrom(f, V, lo, hi, a, step) ==
  /\ f \in [lo .. hi -> V]
  /\ \A l \in lo .. hi : f[l] = IF l = lo THEN a ELSE step[<<l, f[l - 1]>>]

LEMMA RecursionFrom ==
  ASSUME NEW V, NEW lo \in Nat, NEW hi \in Nat, NEW a \in V, NEW step, IsStep(step, V)
  PROVE  \E f : RepeatsFrom(f, V, lo, hi, a, step)
<1>. DEFINE up == [p \in Nat \X V |-> step[<<lo + p[1] + 1, p[2]>>]]
<1>1. IsStep(up, V)
  BY DEF IsStep
<1>2. \A n \in Nat, v \in V : up[<<n, v>>] = step[<<lo + n + 1, v>>]
  OBVIOUS
<1>. HIDE DEF up
<1>a. PICK g : Repeats(g, V, a, up)
  BY <1>1, Recursion
<1>3. g \in [Nat -> V] /\ g[0] = a /\ \A n \in Nat : g[n + 1] = up[<<n, g[n]>>]
  BY <1>a DEF Repeats
<1>. DEFINE f == [l \in lo .. hi |-> g[l - lo]]
<1>4. f \in [lo .. hi -> V] /\ \A l \in lo .. hi : f[l] = g[l - lo]
  BY <1>3
<1>5. ASSUME NEW l \in lo .. hi PROVE f[l] = IF l = lo THEN a ELSE step[<<l, f[l - 1]>>]
  <2>1. CASE l = lo
    BY <1>3, <2>1
  <2>2. CASE l # lo
    <3>. DEFINE m == l - lo - 1
    <3>1. m \in Nat /\ m + 1 = l - lo /\ lo + m + 1 = l /\ l - 1 \in lo .. hi /\ (l - 1) - lo = m
      BY <2>2
    <3>2. f[l] = g[m + 1] /\ f[l - 1] = g[m]
      BY <3>1
    <3>. HIDE DEF m, f
    <3>3. g[m + 1] = step[<<lo + m + 1, g[m]>>]
      BY <1>2, <1>3, <3>1
    <3>. QED
      BY <2>2, <3>1, <3>2, <3>3
  <2>. QED
    BY <2>1, <2>2
<1>. HIDE DEF f
<1>. QED
  BY <1>4, <1>5 DEF RepeatsFrom
-----------------------------------------------------------------------------
(* The places of a name *)

Kind(home, l) == IF l = home THEN "VLOCAL" ELSE "VUPVAL"

\* What indexUpValue makes of the places, level by level from home inwards.
InfoOK(n, info) ==
  LET home == Home(n)
  IN  \A l \in home .. Len(fs) :
        info[l] = IF l = home THEN SearchVar(fs[l], n)
                  ELSE IndexUpValue(fs[l], Kind(home, l - 1), info[l - 1])

LEMMA PlacesAre ==
  ASSUME NEW n, Home(n) \in Nat, Len(fs) \in Nat, SearchVar(fs[Home(n)], n) \in Nat,
         \A l \in 1 .. Len(fs) : \A k, i : IndexUpValue(fs[l], k, i) \in Nat, Home(n) > 0
  PROVE  \E info \in [Home(n) .. Len(fs) -> Nat] :
           /\ InfoOK(n, info)
           /\ Places(n) = [l \in Home(n) .. Len(fs) |-> [k |-> Kind(Home(n), l), info |-> info[l]]]
<1>. DEFINE home == Home(n)  L == Len(fs)  a == SearchVar(fs[Home(n)], n)
            val(p) == IF p[1] \in home + 1 .. L
                       THEN IndexUpValue(fs[p[1]], Kind(home, p[1] - 1), p[2]) ELSE 0
            step == [p \in Nat \X Nat |-> val(p)]
<1>0. home \in Nat /\ L \in Nat /\ a \in Nat /\ home > 0
  OBVIOUS
<1>1. IsStep(step, Nat)
  <2>1. ASSUME NEW p \in Nat \X Nat PROVE val(p) \in Nat
    <3>1. p[1] \in home + 1 .. L => p[1] \in 1 .. Len(fs)
      BY <1>0
    <3>2. p[1] \in 1 .. Len(fs) => IndexUpValue(fs[p[1]], Kind(home, p[1] - 1), p[2]) \in Nat
      OBVIOUS
    <3>. QED
      BY <3>1, <3>2
  <2>. HIDE DEF val
  <2>. QED
    BY <2>1 DEF IsStep
<1>2. ASSUME NEW l \in home + 1 .. L, NEW i \in Nat
      PROVE  step[<<l, i>>] = IndexUpValue(fs[l], Kind(home, l - 1), i)
  <2>1. <<l, i>> \in Nat \X Nat
    BY <1>0
  <2>2. val(<<l, i>>) = IndexUpValue(fs[l], Kind(home, l - 1), i)
    OBVIOUS
  <2>. HIDE DEF val
  <2>. QED
    BY <2>1, <2>2
<1>. HIDE DEF home, L, a, val, step
<1>a. PICK g : RepeatsFrom(g, Nat, home, L, a, step)
  BY <1>0, <1>1, RecursionFrom
<1>3. /\ g \in [home .. L -> Nat]
      /\ \A l \in home .. L : g[l] = IF l = home THEN a ELSE step[<<l, g[l - 1]>>]
  BY <1>a DEF RepeatsFrom
<1>4. \A l \in home .. L : g[l] = IF l = home THEN SearchVar(fs[l], n)
                  ELSE IndexUpValue(fs[l], Kind(home, l - 1), g[l - 1])
  <2>. SUFFICES ASSUME NEW l \in home .. L, l # home
                PROVE  g[l] = IndexUpValue(fs[l], Kind(home, l - 1), g[l - 1])
    BY <1>0, <1>3 DEF a, home
  <2>1. l \in home + 1 .. L /\ l - 1 \in home .. L /\ g[l - 1] \in Nat
    BY <1>0, <1>3
  <2>. QED
    BY <1>2, <1>3, <2>1
<1>. DEFINE Body1(i) == [l \in home .. L |-> IF l = home THEN SearchVar(fs[l], n)
                  ELSE IndexUpValue(fs[l], Kind(home, l - 1), i[l - 1])]
            info == CHOOSE i : i = Body1(i)
<1>5. g = Body1(g)
  BY <1>3, <1>4
<1>6. info = Body1(info)
  BY <1>5
<1>. HIDE DEF info
<1>7. \A l \in home .. L : info[l] = g[l]
  <2>. DEFINE P == {m \in Nat : home + m <= L => info[home + m] = g[home + m]}
  <2>1. 0 \in P
    BY <1>0, <1>5, <1>6
  <2>2. ASSUME NEW m \in P PROVE m + 1 \in P
    <3>. SUFFICES ASSUME home + (m + 1) <= L PROVE info[home + (m + 1)] = g[home + (m + 1)]
      OBVIOUS
    <3>. DEFINE l == home + (m + 1)
    <3>1. l \in home .. L /\ l # home /\ l - 1 = home + m
      BY <1>0
    <3>2. info[l - 1] = g[l - 1]
      BY <1>0, <3>1
    <3>. HIDE DEF l
    <3>. QED
      BY <1>5, <1>6, <3>1, <3>2 DEF l
  <2>. HIDE DEF P
  <2>3. P = Nat
    BY <2>1, <2>2, Induct DEF P
  <2>4. TAKE l \in home .. L
  <2>5. l - home \in P /\ home + (l - home) = l
    BY <1>0, <2>3
  <2>. QED
    BY <2>5 DEF P
<1>8. info = g
  BY <1>3, <1>6, <1>7
<1>9. InfoOK(n, info) /\ info \in [home .. L -> Nat]
  BY <1>3, <1>4, <1>8 DEF InfoOK, home, L
<1>10. Places(n) = [l \in home .. L |-> [k |-> Kind(home, l), info |-> info[l]]]
  BY DEF Places, home, L, info, Kind
<1>. QED
  BY <1>9, <1>10 DEF home, L
-----------------------------------------------------------------------------
(* The invariant that is inductive *)

Rec == [name : Name \cup {Hidden}, id : 0 .. MAXDECLS]
BlockRec == [nActVar : Nat, upval : BOOLEAN, isBreakable : BOOLEAN, first : BOOLEAN]
UpRec == [k : {"VLOCAL", "VUPVAL"}, info : Nat, id : Nat]
FuncRec == [actvar : Seq(Rec), pending : Seq(Rec), bl : Seq(BlockRec), upvalues : Seq(UpRec),
            isVarArg : SUBSET {"HASARG", "NEEDSARG", "ISVARARG"}, numParams : Int]

\* The first part of a for statement is under way.
ForPending(f) == f.pending # <<>> /\ f.pending[1].name = Hidden

\* Hidden variables have no number, all others have one.
NumbersOK(vs) == \A i \in 1 .. Len(vs) : vs[i].id = 0 <=> vs[i].name = Hidden

\* Blocks begin in their order, within the variables there are.
BlocksOK(f) ==
  /\ \A i \in 1 .. Len(f.bl) : f.bl[i].nActVar <= Len(f.actvar)
  /\ \A i, j \in 1 .. Len(f.bl) : i <= j => f.bl[i].nActVar <= f.bl[j].nActVar
  /\ Len(f.bl) > 0 => f.bl[1].first

\* What is pending is a list of names or the four variables of a for statement,
\* whose block has just been entered.
PendingOK(f) ==
  IF ForPending(f)
  THEN /\ Len(f.pending) = 4 /\ f.pending[4].name # Hidden
       /\ \A i \in 1 .. 3 : f.pending[i].name = Hidden
       /\ Len(f.bl) > 0 /\ f.bl[Len(f.bl)].first /\ f.bl[Len(f.bl)].nActVar = Len(f.actvar)
  ELSE \A i \in 1 .. Len(f.pending) : f.pending[i].name # Hidden

LimitsOK(f) ==
  /\ Len(f.actvar) + Len(f.pending) <= LUAI_MAXVARS
  /\ Len(f.upvalues) <= LUAI_MAXUPVALUES

FuncOK(f) ==
  /\ f \in FuncRec
  /\ NumbersOK(f.actvar) /\ NumbersOK(f.pending)
  /\ BlocksOK(f) /\ PendingOK(f) /\ LimitsOK(f)

AllVars(f) == f.actvar \o f.pending

\* A number is that of one variable, active or pending, of one function.
Distinct(s) ==
  \A l, m \in 1 .. Len(s) : \A i \in 1 .. Len(AllVars(s[l])), j \in 1 .. Len(AllVars(s[m])) :
    AllVars(s[l])[i].id = AllVars(s[m])[j].id /\ AllVars(s[l])[i].id # 0 => l = m /\ i = j

\* c is the number of an active variable of level l.
ActiveIn(s, l, c) == \E i \in 1 .. Len(s[l].actvar) : s[l].actvar[i].id = c

\* An upvalue has the number of what it is made from, one step out.
UpvalueOK(s, l, u) ==
  /\ l > 1 /\ u.id # 0
  /\ u.k = "VLOCAL" => u.info \in 1 .. Len(s[l - 1].actvar) /\ s[l - 1].actvar[u.info].id = u.id
  /\ u.k = "VUPVAL" => u.info \in 1 .. Len(s[l - 1].upvalues) /\ s[l - 1].upvalues[u.info].id = u.id
  /\ \E m \in 1 .. l - 1 : ActiveIn(s, m, u.id)

UpvaluesOK(s) ==
  \A l \in 1 .. Len(s) : \A j \in 1 .. Len(s[l].upvalues) :
    /\ UpvalueOK(s, l, s[l].upvalues[j])
    /\ \A i \in 1 .. Len(s[l].upvalues) : s[l].upvalues[i].id = s[l].upvalues[j].id => i = j

CapturedOK(s, cap) == \A c \in cap : c # 0 /\ \E l \in 1 .. Len(s) : ActiveIn(s, l, c)

\* The variables of block i.
BlockEnd(f, i) == IF i = Len(f.bl) THEN Len(f.actvar) ELSE f.bl[i + 1].nActVar
FuncCloses(f, cap) ==
  \A i \in 1 .. Len(f.bl) :
    f.bl[i].upval <=> \E v \in f.bl[i].nActVar + 1 .. BlockEnd(f, i) : f.actvar[v].id \in cap
ClosesOK(s, cap) == \A l \in 1 .. Len(s) : FuncCloses(s[l], cap)

\* Where the scopes of the source are: scope a belongs to level lev[a], its
\* variables follow the first lo[a] active ones there, and blk[a] is the block
\* that begins it, 0 for the scope of a function.
ScopeEnd(vis, lo, a) == lo[a] + Len(vis[a])

InOrder(vis, lev, lo, blk) ==
  \A a, b \in 1 .. Len(vis) :
    a < b => /\ lev[a] <= lev[b]
             /\ lev[a] = lev[b] => ScopeEnd(vis, lo, a) <= lo[b] /\ blk[a] < blk[b]

\* Scope a is among the variables of its function f.
ScopeFits(f, vis, lev, lo, blk, a) ==
  /\ ScopeEnd(vis, lo, a) <= Len(f.actvar)
  /\ \A i \in 1 .. Len(vis[a]) : f.actvar[lo[a] + i] = vis[a][i]
  /\ blk[a] # 0 =>
       /\ blk[a] \in 1 .. Len(f.bl) /\ f.bl[blk[a]].first
       /\ a > 1 /\ lev[a - 1] = lev[a]
       /\ ScopeEnd(vis, lo, a - 1) = f.bl[blk[a]].nActVar

\* The scopes of function f, at level l, hold all that a program can name there;
\* the last one is open, and every statement with a block has begun one, but a
\* for statement of which only the first part was read.
LevelFits(f, vis, lev, lo, blk, l) ==
  /\ \A i \in 1 .. Len(f.actvar) :
       \/ f.actvar[i].name = Hidden
       \/ \E a \in 1 .. Len(vis) : lev[a] = l /\ i \in lo[a] + 1 .. ScopeEnd(vis, lo, a)
  /\ \E a \in 1 .. Len(vis) :
       /\ lev[a] = l /\ ScopeEnd(vis, lo, a) = Len(f.actvar)
       /\ \A b \in a + 1 .. Len(vis) : lev[b] > l
  /\ \A i \in 1 .. Len(f.bl) : f.bl[i].first =>
       IF i = Len(f.bl) /\ ForPending(f)
       THEN \A a \in 1 .. Len(vis) : lev[a] = l => blk[a] # i
       ELSE \E a \in 1 .. Len(vis) : lev[a] = l /\ blk[a] = i

ScopesAt(s, vis, lev, lo, blk) ==
  /\ lev \in [1 .. Len(vis) -> 1 .. Len(s)] /\ lo \in [1 .. Len(vis) -> Nat]
  /\ blk \in [1 .. Len(vis) -> Nat]
  /\ InOrder(vis, lev, lo, blk)
  /\ \A a \in 1 .. Len(vis) : ScopeFits(s[lev[a]], vis, lev, lo, blk, a)
  /\ \A l \in 1 .. Len(s) : LevelFits(s[l], vis, lev, lo, blk, l)
ScopesOK(s, vis) == \E lev, lo, blk : ScopesAt(s, vis, lev, lo, blk)

TypesOK(s, vis, cap) ==
  /\ s \in Seq(FuncRec) /\ Len(s) > 0
  /\ \A l \in 1 .. Len(s) : FuncOK(s[l])
  /\ vis \in Seq(Seq(Rec)) /\ Len(vis) > 0
  /\ cap \in SUBSET (1 .. MAXDECLS)

Sound(s, vis, cap) ==
  /\ TypesOK(s, vis, cap)
  /\ Distinct(s)
  /\ UpvaluesOK(s)
  /\ CapturedOK(s, cap)
  /\ ClosesOK(s, cap)
  /\ ScopesOK(s, vis)

IInv == Sound(fs, visible, captured) /\ failed \in BOOLEAN
-----------------------------------------------------------------------------
(* What a name is resolved to *)

LEMMA FuncTypes ==
  ASSUME NEW f \in FuncRec
  PROVE  /\ f.actvar \in Seq(Rec) /\ f.pending \in Seq(Rec)
         /\ f.bl \in Seq(BlockRec) /\ f.upvalues \in Seq(UpRec)
         /\ Len(f.actvar) \in Nat /\ Len(f.pending) \in Nat /\ Len(f.bl) \in Nat /\ Len(f.upvalues) \in Nat
         /\ f.isVarArg \in SUBSET {"HASARG", "NEEDSARG", "ISVARARG"} /\ f.numParams \in Int
BY DEF FuncRec

LEMMA MaxDeclsType == MAXDECLS \in Nat
BY LimitAssumption

LEMMA RecTypes ==
  ASSUME NEW v \in Rec
  PROVE  v.id \in Nat /\ v.id <= MAXDECLS /\ v.name \in Name \cup {Hidden}
BY MaxDeclsType DEF Rec

\* searchVar finds the last register of the name.
LEMMA SearchIs ==
  ASSUME NEW f \in FuncRec, NEW n
  PROVE  /\ SearchVar(f, n) \in 0 .. Len(f.actvar)
         /\ SearchVar(f, n) > 0 => f.actvar[SearchVar(f, n)].name = n
         /\ \A i \in 1 .. Len(f.actvar) : f.actvar[i].name = n => i <= SearchVar(f, n)
<1>. DEFINE regs == {i \in DOMAIN f.actvar : f.actvar[i].name = n}  len == Len(f.actvar)
<1>1. DOMAIN f.actvar = 1 .. len /\ len \in Nat
  BY FuncTypes
<1>2. SearchVar(f, n) = IF regs = {} THEN 0 ELSE Max(regs)
  BY DEF SearchVar
<1>3. regs \in SUBSET Nat /\ \A i \in regs : i <= len
  BY <1>1
<1>4. CASE regs = {}
  BY <1>1, <1>2, <1>4
<1>5. CASE regs # {}
  <2>1. Max(regs) \in regs /\ \A i \in regs : i <= Max(regs)
    <3>. HIDE DEF regs, len
    <3>. QED
      BY <1>1, <1>3, <1>5, MaxIs
  <2>. DEFINE m == Max(regs)
  <2>2. m \in 1 .. len /\ f.actvar[m].name = n
    BY <1>1, <2>1
  <2>3. \A i \in 1 .. len : f.actvar[i].name = n => i <= m
    BY <1>1, <2>1
  <2>4. SearchVar(f, n) = m
    BY <1>2, <1>5
  <2>. HIDE DEF m, regs
  <2>. QED
    BY <1>1, <2>2, <2>3, <2>4
<1>. QED
  BY <1>4, <1>5

\* singleVarAux stops at the innermost function that has the variable.
LEMMA HomeIs ==
  ASSUME TypesOK(fs, visible, captured), NEW n
  PROVE  /\ Home(n) \in 0 .. Len(fs) /\ Len(fs) \in Nat
         /\ Home(n) > 0 => SearchVar(fs[Home(n)], n) > 0
         /\ \A l \in 1 .. Len(fs) : SearchVar(fs[l], n) > 0 => l <= Home(n)
<1>. DEFINE S == {l \in DOMAIN fs : SearchVar(fs[l], n) > 0}  T == {0} \cup S  len == Len(fs)
<1>1. DOMAIN fs = 1 .. len /\ len \in Nat
  BY DEF TypesOK
<1>2. Home(n) = Max(T)
  BY DEF Home
<1>3. T \in SUBSET Nat /\ T # {} /\ \A i \in T : i <= len
  BY <1>1
<1>4. Max(T) \in T /\ \A i \in T : i <= Max(T)
  <2>. HIDE DEF T, len
  <2>. QED
    BY <1>1, <1>3, MaxIs
<1>. QED
  BY <1>1, <1>2, <1>3, <1>4

\* The last variable of a name among the active ones, and the last declaration
\* of it in the source.
LEMMA MeantIs ==
  ASSUME TypesOK(fs, visible, captured), ScopesOK(fs, visible), NEW n \in Name
  PROVE  /\ Home(n) = 0 => Meant(n) = 0
         /\ Home(n) > 0 => Meant(n) = fs[Home(n)].actvar[SearchVar(fs[Home(n)], n)].id
<1>. DEFINE L == Len(fs)  V == Len(visible)
            scopes == {a \in DOMAIN visible : \E i \in DOMAIN visible[a] : visible[a][i].name = n}
<1>1. /\ L \in Nat /\ V \in Nat /\ DOMAIN visible = 1 .. V
      /\ \A l \in 1 .. L : fs[l] \in FuncRec
      /\ \A a \in 1 .. V : visible[a] \in Seq(Rec) /\ Len(visible[a]) \in Nat
                           /\ DOMAIN visible[a] = 1 .. Len(visible[a])
  BY DEF TypesOK, FuncOK
<1>2. PICK lev, lo, blk : ScopesAt(fs, visible, lev, lo, blk)
  BY DEF ScopesOK
<1>3. n # Hidden
  BY NameAssumption
<1>4. /\ \A a \in 1 .. V : lev[a] \in 1 .. L /\ lo[a] \in Nat
      /\ \A a, b \in 1 .. V : a < b => lev[a] <= lev[b]
      /\ \A a, b \in 1 .. V : a < b /\ lev[a] = lev[b] => lo[a] + Len(visible[a]) <= lo[b]
      /\ \A a \in 1 .. V : lo[a] + Len(visible[a]) <= Len(fs[lev[a]].actvar)
      /\ \A a \in 1 .. V : \A i \in 1 .. Len(visible[a]) : fs[lev[a]].actvar[lo[a] + i] = visible[a][i]
      /\ \A l \in 1 .. L : \A i \in 1 .. Len(fs[l].actvar) : fs[l].actvar[i].name # Hidden =>
           \E a \in 1 .. V : lev[a] = l /\ i \in lo[a] + 1 .. lo[a] + Len(visible[a])
  BY <1>2 DEF ScopesAt, InOrder, ScopeFits, LevelFits, ScopeEnd
<1>5. ASSUME NEW l \in 1 .. L, NEW i \in 1 .. Len(fs[l].actvar), fs[l].actvar[i].name = n
      PROVE  \E a \in scopes : lev[a] = l /\ i - lo[a] \in 1 .. Len(visible[a])
                               /\ visible[a][i - lo[a]].name = n
  <2>1. PICK a \in 1 .. V : lev[a] = l /\ i \in lo[a] + 1 .. lo[a] + Len(visible[a])
    BY <1>3, <1>4, <1>5
  <2>. DEFINE len == Len(visible[a])  o == lo[a]  j == i - o
  <2>2. len \in Nat /\ o \in Nat /\ i \in o + 1 .. o + len
    BY <1>1, <1>4, <2>1
  <2>3. j \in 1 .. len /\ o + j = i
    <3>. HIDE DEF len, o
    <3>. QED
      BY <2>2
  <2>4. visible[a][j].name = n
    <3>1. fs[l].actvar[o + j] = visible[a][j]
      BY <1>4, <2>1, <2>3
    <3>. QED
      BY <1>5, <2>3, <3>1
  <2>. QED
    BY <1>1, <2>1, <2>3, <2>4
<1>6. ASSUME NEW a \in scopes, NEW j \in 1 .. Len(visible[a]), visible[a][j].name = n
      PROVE  /\ lo[a] + j \in 1 .. Len(fs[lev[a]].actvar)
             /\ fs[lev[a]].actvar[lo[a] + j] = visible[a][j]
             /\ lo[a] + j <= SearchVar(fs[lev[a]], n)
  <2>1. a \in 1 .. V /\ lev[a] \in 1 .. L /\ lo[a] \in Nat /\ fs[lev[a]] \in FuncRec
    BY <1>1, <1>4
  <2>. DEFINE len == Len(visible[a])  o == lo[a]  m == Len(fs[lev[a]].actvar)
  <2>2. o + len <= m /\ len \in Nat /\ o \in Nat /\ m \in Nat
    BY <1>1, <1>4, <2>1, FuncTypes
  <2>3. o + j \in 1 .. m
    <3>. HIDE DEF len, o, m
    <3>1. j \in 1 .. len
      BY DEF len
    <3>. QED
      BY <2>2, <3>1
  <2>4. fs[lev[a]].actvar[lo[a] + j] = visible[a][j]
    BY <1>4, <2>1
  <2>. QED
    BY <1>6, <2>1, <2>3, <2>4, SearchIs
<1>7. Meant(n) = IF scopes = {} THEN 0
                 ELSE visible[Max(scopes)][Max({i \in DOMAIN visible[Max(scopes)] : visible[Max(scopes)][i].name = n})].id
  BY DEF Meant
<1>8. CASE scopes = {}
  <2>1. Home(n) = 0
    <3>. SUFFICES ASSUME Home(n) > 0 PROVE FALSE
      BY HomeIs
    <3>1. Home(n) \in 1 .. L /\ SearchVar(fs[Home(n)], n) > 0
      BY HomeIs
    <3>. DEFINE h == Home(n)  r == SearchVar(fs[h], n)
    <3>2. r \in 1 .. Len(fs[h].actvar) /\ fs[h].actvar[r].name = n
      BY <1>1, <3>1, SearchIs, FuncTypes
    <3>. HIDE DEF h, r
    <3>. QED
      BY <1>5, <1>8, <3>1, <3>2 DEF h
  <2>2. Meant(n) = 0
    <3>. HIDE DEF scopes
    <3>. QED
      BY <1>7, <1>8
  <2>. QED
    BY <1>8, <2>1, <2>2
<1>9. CASE scopes # {}
  <2>. DEFINE a == Max(scopes)  here == {i \in DOMAIN visible[a] : visible[a][i].name = n}
  <2>1. a \in scopes /\ \A b \in scopes : b <= a
    <3>1. scopes \in SUBSET Nat /\ \A b \in scopes : b <= V
      BY <1>1
    <3>. HIDE DEF scopes, V
    <3>. QED
      BY <1>1, <1>9, <3>1, MaxIs
  <2>. HIDE DEF a
  <2>2. /\ a \in 1 .. V /\ DOMAIN visible[a] = 1 .. Len(visible[a]) /\ Len(visible[a]) \in Nat
        /\ lev[a] \in 1 .. L /\ lo[a] \in Nat
    BY <1>1, <1>4, <2>1
  <2>. DEFINE j == Max(here)
  <2>3. j \in here /\ \A i \in here : i <= j
    <3>1. here \in SUBSET Nat /\ here # {} /\ \A b \in here : b <= Len(visible[a])
      BY <2>1, <2>2
    <3>. HIDE DEF here
    <3>. QED
      BY <2>2, <3>1, MaxIs
  <2>. HIDE DEF j
  <2>4. j \in 1 .. Len(visible[a]) /\ visible[a][j].name = n
    BY <2>2, <2>3
  <2>. DEFINE h == Home(n)  r == SearchVar(fs[h], n)
  <2>5. /\ lo[a] + j \in 1 .. Len(fs[lev[a]].actvar)
        /\ fs[lev[a]].actvar[lo[a] + j] = visible[a][j]
        /\ lo[a] + j <= SearchVar(fs[lev[a]], n)
    BY <1>6, <2>1, <2>4
  <2>6. SearchVar(fs[lev[a]], n) > 0
    <3>1. SearchVar(fs[lev[a]], n) \in Nat
      BY <1>1, <2>2, SearchIs, FuncTypes
    <3>. QED
      BY <2>5, <3>1
  <2>7. h \in 1 .. L /\ lev[a] <= h
    BY <2>2, <2>6, HomeIs
  <2>8. r > 0 /\ r \in 1 .. Len(fs[h].actvar) /\ fs[h].actvar[r].name = n
        /\ \A i \in 1 .. Len(fs[h].actvar) : fs[h].actvar[i].name = n => i <= r
    <3>1. fs[h] \in FuncRec /\ r > 0
      BY <1>1, <2>7, HomeIs
    <3>. QED
      BY <3>1, SearchIs, FuncTypes
  <2>. HIDE DEF h, r
  <2>9. PICK b \in scopes : lev[b] = h /\ r - lo[b] \in 1 .. Len(visible[b])
                            /\ visible[b][r - lo[b]].name = n
    BY <1>5, <2>7, <2>8
  <2>10. b \in 1 .. V /\ b <= a /\ lo[b] \in Nat /\ Len(visible[b]) \in Nat
    BY <1>1, <1>4, <2>1, <2>9
  <2>11. lev[a] = h
    <3>1. b < a => lev[b] <= lev[a]
      BY <1>4, <2>2, <2>10
    <3>2. b = a \/ b < a
      BY <2>2, <2>10
    <3>. QED
      BY <2>2, <2>7, <2>9, <3>1, <3>2
  <2>12. lo[a] + j <= r
    BY <2>4, <2>5, <2>8, <2>11
  <2>13. b = a
    <3>. SUFFICES ASSUME b # a PROVE FALSE
      OBVIOUS
    <3>1. b < a
      BY <2>2, <2>10
    <3>2. lo[b] + Len(visible[b]) <= lo[a]
      BY <1>4, <2>2, <2>9, <2>10, <2>11, <3>1
    <3>. DEFINE x == lo[b]  y == Len(visible[b])  z == lo[a]
    <3>3. x \in Nat /\ y \in Nat /\ z \in Nat /\ r \in Nat /\ j \in Nat /\ j >= 1
          /\ x + y <= z /\ r - x <= y /\ z + j <= r
      BY <2>2, <2>4, <2>8, <2>9, <2>10, <2>12, <3>2, SearchIs
    <3>. HIDE DEF x, y, z
    <3>. QED
      BY <3>3
  <2>14. r - lo[a] \in here
    BY <2>2, <2>9, <2>13
  <2>15. r = lo[a] + j
    <3>1. r - lo[a] <= j
      BY <2>3, <2>14
    <3>2. r \in Nat /\ lo[a] \in Nat /\ j \in Nat
      BY <2>2, <2>4, <2>8
    <3>. QED
      BY <2>12, <3>1, <3>2
  <2>16. Meant(n) = visible[a][j].id
    BY <1>7, <1>9 DEF a, j
  <2>17. visible[a][j] = fs[h].actvar[r]
    BY <2>5, <2>11, <2>15
  <2>. QED
    BY <2>7, <2>16, <2>17 DEF h, r
<1>. QED
  BY <1>8, <1>9
-----------------------------------------------------------------------------
(* What a name is at every level *)

LEMMA IndexIs ==
  ASSUME NEW f \in FuncRec, NEW k, NEW info
  PROVE  /\ IndexUpValue(f, k, info) \in 1 .. Len(f.upvalues) + 1
         /\ IndexUpValue(f, k, info) <= Len(f.upvalues) =>
              SameUpvalue(f.upvalues[IndexUpValue(f, k, info)], k, info)
         /\ IndexUpValue(f, k, info) = Len(f.upvalues) + 1 =>
              \A j \in 1 .. Len(f.upvalues) : ~SameUpvalue(f.upvalues[j], k, info)
<1>. DEFINE same == {j \in DOMAIN f.upvalues : SameUpvalue(f.upvalues[j], k, info)}  len == Len(f.upvalues)
<1>1. DOMAIN f.upvalues = 1 .. len /\ len \in Nat
  BY FuncTypes
<1>2. IndexUpValue(f, k, info) = IF same = {} THEN len + 1 ELSE Min(same)
  BY DEF IndexUpValue
<1>3. CASE same = {}
  BY <1>1, <1>2, <1>3
<1>4. CASE same # {}
  <2>1. same \in SUBSET Nat
    BY <1>1
  <2>2. Min(same) \in same
    <3>. HIDE DEF same
    <3>. QED
      BY <1>4, <2>1, MinIs
  <2>. DEFINE m == Min(same)
  <2>3. m \in 1 .. len /\ SameUpvalue(f.upvalues[m], k, info)
    BY <1>1, <2>2
  <2>4. IndexUpValue(f, k, info) = m
    BY <1>2, <1>4
  <2>. HIDE DEF m, same
  <2>. QED
    BY <1>1, <2>3, <2>4
<1>. QED
  BY <1>3, <1>4

\* info is the place of the name at every level from home inwards: its register
\* there, and then the one upvalue made for the variable, or the next one.
MeansAt(l, x, c) ==
  /\ x \in 1 .. Len(fs[l].upvalues) + 1
  /\ \A j \in 1 .. Len(fs[l].upvalues) : fs[l].upvalues[j].id = c <=> j = x
PlacesOK(n, info) ==
  LET home == Home(n)
  IN  /\ info \in [home .. Len(fs) -> Nat]
      /\ Places(n) = [l \in home .. Len(fs) |-> [k |-> Kind(home, l), info |-> info[l]]]
      /\ info[home] = SearchVar(fs[home], n)
      /\ \A l \in home + 1 .. Len(fs) : MeansAt(l, info[l], Meant(n))

ResolvesOK == /\ TypesOK(fs, visible, captured) /\ Distinct(fs)
              /\ UpvaluesOK(fs) /\ ScopesOK(fs, visible)

LEMMA OnlyOne ==
  ASSUME NEW s, Distinct(s), NEW l \in 1 .. Len(s), NEW m \in 1 .. Len(s),
         NEW i \in 1 .. Len(AllVars(s[l])), NEW j \in 1 .. Len(AllVars(s[m])),
         AllVars(s[l])[i].id = AllVars(s[m])[j].id, AllVars(s[l])[i].id # 0
  PROVE  l = m /\ i = j
BY DEF Distinct

LEMMA ActiveOnce ==
  ASSUME NEW s \in Seq(FuncRec), Distinct(s), NEW l \in 1 .. Len(s), NEW m \in 1 .. Len(s),
         NEW i \in 1 .. Len(s[l].actvar), NEW j \in 1 .. Len(s[m].actvar),
         s[l].actvar[i].id = s[m].actvar[j].id, s[l].actvar[i].id # 0
  PROVE  l = m /\ i = j
<1>1. \A k \in 1 .. Len(s) : \A h \in 1 .. Len(s[k].actvar) :
        h \in 1 .. Len(AllVars(s[k])) /\ AllVars(s[k])[h] = s[k].actvar[h]
  <2>1. TAKE k \in 1 .. Len(s)
  <2>2. TAKE h \in 1 .. Len(s[k].actvar)
  <2>3. s[k] \in FuncRec
    OBVIOUS
  <2>4. /\ s[k].actvar \in Seq(Rec) /\ s[k].pending \in Seq(Rec)
        /\ Len(s[k].actvar) \in Nat /\ Len(s[k].pending) \in Nat
    BY <2>3, FuncTypes
  <2>. DEFINE a == s[k].actvar  p == s[k].pending
  <2>5. a \in Seq(Rec) /\ p \in Seq(Rec) /\ Len(a) \in Nat /\ Len(p) \in Nat /\ h \in 1 .. Len(a)
    BY <2>4
  <2>. HIDE DEF a, p
  <2>6. Len(a \o p) = Len(a) + Len(p) /\ (a \o p)[h] = a[h]
    BY <2>5, ConcatProperties
  <2>7. h \in 1 .. Len(a \o p)
    BY <2>5, <2>6
  <2>. QED
    BY <2>6, <2>7 DEF AllVars, a, p
<1>2. /\ i \in 1 .. Len(AllVars(s[l])) /\ AllVars(s[l])[i] = s[l].actvar[i]
      /\ j \in 1 .. Len(AllVars(s[m])) /\ AllVars(s[m])[j] = s[m].actvar[j]
  BY <1>1
<1>3. AllVars(s[l])[i].id = AllVars(s[m])[j].id /\ AllVars(s[l])[i].id # 0
  BY <1>2
<1>. QED
  BY <1>2, <1>3, OnlyOne

\* One step inwards, by induction along the levels.
LEMMA MeansInwards ==
  ASSUME ResolvesOK, NEW n \in Name, Home(n) > 0, NEW l \in Home(n) + 1 .. Len(fs), NEW x \in Nat,
         IF l = Home(n) + 1 THEN x = SearchVar(fs[Home(n)], n) ELSE MeansAt(l - 1, x, Meant(n))
  PROVE  MeansAt(l, IndexUpValue(fs[l], Kind(Home(n), l - 1), x), Meant(n))
<1>. DEFINE h == Home(n)  c == Meant(n)  r == SearchVar(fs[h], n)  k == Kind(h, l - 1)
            u(j) == fs[l].upvalues[j]
<1>1. /\ h \in 1 .. Len(fs) /\ Len(fs) \in Nat /\ h < l /\ l \in 1 .. Len(fs) /\ l - 1 \in 1 .. Len(fs)
      /\ l - 1 >= h /\ \A m \in 1 .. Len(fs) : fs[m] \in FuncRec
  BY HomeIs DEF ResolvesOK, TypesOK, FuncOK
<1>2. /\ r \in 1 .. Len(fs[h].actvar) /\ fs[h].actvar[r].name = n /\ fs[h].actvar[r].id = c /\ c # 0
  <2>1. r > 0 /\ fs[h] \in FuncRec
    BY <1>1, HomeIs DEF ResolvesOK
  <2>2. r \in 1 .. Len(fs[h].actvar) /\ fs[h].actvar[r].name = n
    BY <2>1, SearchIs, FuncTypes
  <2>3. fs[h].actvar[r].id = c
    BY MeantIs DEF ResolvesOK
  <2>4. NumbersOK(fs[h].actvar)
    BY <1>1 DEF ResolvesOK, TypesOK, FuncOK
  <2>. QED
    BY <2>2, <2>3, <2>4, NameAssumption DEF NumbersOK
<1>3. \A j \in 1 .. Len(fs[l].upvalues) : UpvalueOK(fs, l, u(j)) /\ u(j) \in UpRec
      /\ \A i \in 1 .. Len(fs[l].upvalues) : u(i).id = u(j).id => i = j
  BY <1>1, FuncTypes DEF ResolvesOK, UpvaluesOK
<1>4. ASSUME NEW m \in 1 .. Len(fs), NEW i \in 1 .. Len(fs[m].actvar), fs[m].actvar[i].id = c
      PROVE  m = h /\ i = r
  <2>1. fs \in Seq(FuncRec) /\ Distinct(fs)
    BY DEF ResolvesOK, TypesOK
  <2>. HIDE DEF h, r, c
  <2>2. fs[m].actvar[i].id = fs[h].actvar[r].id /\ fs[m].actvar[i].id # 0
    BY <1>2, <1>4
  <2>3. h \in 1 .. Len(fs) /\ r \in 1 .. Len(fs[h].actvar) /\ i \in 1 .. Len(fs[m].actvar)
    BY <1>1, <1>2
  <2>. QED
    BY <2>1, <2>2, <2>3, ActiveOnce
<1>5. ASSUME NEW j \in 1 .. Len(fs[l].upvalues)
      PROVE  SameUpvalue(u(j), k, x) <=> u(j).id = c
  <2>1. /\ u(j).k = "VLOCAL" => u(j).info \in 1 .. Len(fs[l - 1].actvar)
                                /\ fs[l - 1].actvar[u(j).info].id = u(j).id
        /\ u(j).k = "VUPVAL" => u(j).info \in 1 .. Len(fs[l - 1].upvalues)
                                /\ fs[l - 1].upvalues[u(j).info].id = u(j).id
        /\ u(j).k = "VLOCAL" \/ u(j).k = "VUPVAL"
    BY <1>3 DEF UpvalueOK, UpRec
  <2>2. CASE l = h + 1
    <3>1. l - 1 = h /\ x = r /\ k = "VLOCAL"
      BY <1>1, <2>2 DEF Kind
    <3>. HIDE DEF h, r, c, k, u
    <3>2. SameUpvalue(u(j), k, x) => u(j).id = c
      BY <1>2, <2>1, <3>1 DEF SameUpvalue
    <3>3. ASSUME u(j).id = c, u(j).k = "VUPVAL" PROVE FALSE
      <4>. DEFINE w == fs[h].upvalues[u(j).info]
      <4>1. u(j).info \in 1 .. Len(fs[h].upvalues) /\ w.id = c
        BY <2>1, <3>1, <3>3
      <4>2. UpvalueOK(fs, h, w)
        BY <1>1, <4>1 DEF ResolvesOK, UpvaluesOK
      <4>3. PICK m \in 1 .. h - 1 : ActiveIn(fs, m, c)
        BY <4>1, <4>2 DEF UpvalueOK
      <4>4. m \in 1 .. Len(fs) /\ m # h
        BY <1>1, <4>3
      <4>. QED
        BY <1>4, <4>3, <4>4 DEF ActiveIn
    <3>4. u(j).id = c => SameUpvalue(u(j), k, x)
      BY <1>1, <1>4, <2>1, <3>1, <3>3 DEF SameUpvalue
    <3>. QED
      BY <3>2, <3>4
  <2>3. CASE l # h + 1
    <3>1. l - 1 # h /\ k = "VUPVAL" /\ MeansAt(l - 1, x, c)
      BY <1>1, <2>3 DEF Kind
    <3>. HIDE DEF h, r, c, k, u
    <3>2. \A i \in 1 .. Len(fs[l - 1].upvalues) : fs[l - 1].upvalues[i].id = c <=> i = x
      BY <3>1 DEF MeansAt
    <3>3. SameUpvalue(u(j), k, x) => u(j).id = c
      BY <2>1, <3>1, <3>2 DEF SameUpvalue
    <3>4. u(j).id = c => SameUpvalue(u(j), k, x)
      BY <1>1, <1>4, <2>1, <3>1, <3>2 DEF SameUpvalue
    <3>. QED
      BY <3>3, <3>4
  <2>. QED
    BY <2>2, <2>3
<1>. DEFINE y == IndexUpValue(fs[l], k, x)  len == Len(fs[l].upvalues)
<1>6. /\ y \in 1 .. len + 1 /\ len \in Nat
      /\ y <= len => SameUpvalue(u(y), k, x)
      /\ y = len + 1 => \A j \in 1 .. len : ~SameUpvalue(u(j), k, x)
  BY <1>1, IndexIs, FuncTypes
<1>7. \A j \in 1 .. len : u(j).id = c <=> j = y
  <2>. HIDE DEF h, r, c, k, y
  <2>1. CASE y <= len
    <3>1. y \in 1 .. len /\ u(y).id = c
      BY <1>5, <1>6, <2>1
    <3>. QED
      BY <1>3, <3>1
  <2>2. CASE y = len + 1
    BY <1>5, <1>6, <2>2
  <2>. QED
    BY <1>6, <2>1, <2>2, SMTT(20)
<1>. QED
  BY <1>6, <1>7 DEF MeansAt

LEMMA PlacesMean ==
  ASSUME ResolvesOK, NEW n \in Name, Home(n) > 0
  PROVE  \E info : PlacesOK(n, info)
<1>. DEFINE h == Home(n)  L == Len(fs)  r == SearchVar(fs[h], n)
<1>1. h \in 1 .. L /\ L \in Nat /\ \A m \in 1 .. L : fs[m] \in FuncRec
  BY HomeIs DEF ResolvesOK, TypesOK, FuncOK
<1>2. r \in Nat
  BY <1>1, SearchIs, FuncTypes
<1>3. \A l \in 1 .. L : \A k, i : IndexUpValue(fs[l], k, i) \in Nat
  BY <1>1, IndexIs, FuncTypes
<1>4. PICK info \in [h .. L -> Nat] :
        /\ InfoOK(n, info)
        /\ Places(n) = [l \in h .. L |-> [k |-> Kind(h, l), info |-> info[l]]]
  BY <1>1, <1>2, <1>3, PlacesAre
<1>5. /\ info[h] = r
      /\ \A l \in h + 1 .. L : info[l] = IndexUpValue(fs[l], Kind(h, l - 1), info[l - 1])
  BY <1>1, <1>4 DEF InfoOK
<1>. DEFINE P == {m \in Nat : h + 1 + m <= L => MeansAt(h + 1 + m, info[h + 1 + m], Meant(n))}
<1>. HIDE DEF h, L, r
<1>6. ASSUME NEW l \in h + 1 .. L, l # h + 1 => MeansAt(l - 1, info[l - 1], Meant(n))
      PROVE  MeansAt(l, info[l], Meant(n))
  <2>1. info[l - 1] \in Nat /\ (l = h + 1 => info[l - 1] = r) /\ h > 0
    <3>1. l - 1 \in h .. L /\ (l = h + 1 => l - 1 = h) /\ h > 0
      BY <1>1
    <3>2. info[l - 1] \in Nat
      BY <1>4, <3>1
    <3>3. l = h + 1 => info[l - 1] = r
      BY <1>5, <3>1
    <3>. QED
      BY <3>1, <3>2, <3>3
  <2>. DEFINE x == info[l - 1]
  <2>2. IF l = h + 1 THEN x = r ELSE MeansAt(l - 1, x, Meant(n))
    BY <1>6, <2>1
  <2>3. info[l] = IndexUpValue(fs[l], Kind(h, l - 1), x)
    BY <1>5
  <2>. HIDE DEF x
  <2>. QED
    BY <2>1, <2>2, <2>3, MeansInwards DEF h, L, r, x
<1>7. 0 \in P
  BY <1>1, <1>6
<1>8. ASSUME NEW m \in P PROVE m + 1 \in P
  <2>. SUFFICES ASSUME h + 1 + (m + 1) <= L
                PROVE  MeansAt(h + 1 + (m + 1), info[h + 1 + (m + 1)], Meant(n))
    OBVIOUS
  <2>. DEFINE l == h + 1 + (m + 1)
  <2>1. l \in h + 1 .. L /\ l - 1 = h + 1 + m /\ h + 1 + m <= L
    BY <1>1
  <2>2. MeansAt(l - 1, info[l - 1], Meant(n))
    BY <2>1
  <2>. HIDE DEF l
  <2>. QED
    BY <1>6, <2>1, <2>2 DEF l
<1>9. P \in SUBSET Nat
  OBVIOUS
<1>. HIDE DEF P
<1>11. P = Nat
  BY <1>7, <1>8, <1>9, Induct
<1>10. ASSUME NEW l \in h + 1 .. L PROVE MeansAt(l, info[l], Meant(n))
  <2>1. l - (h + 1) \in Nat /\ h + 1 + (l - (h + 1)) = l /\ l <= L
    BY <1>1
  <2>2. l - (h + 1) \in P
    BY <1>11, <2>1
  <2>. QED
    BY <2>1, <2>2 DEF P
<1>. QED
  BY <1>4, <1>5, <1>10 DEF PlacesOK, h, L, r
-----------------------------------------------------------------------------
(* The invariant has the properties *)

LEMMA NamesResolve == IInv => NameMeansInnermost
<1>. SUFFICES ASSUME IInv, NEW n \in Name
     PROVE  /\ Home(n) = 0 => Meant(n) = 0
            /\ Home(n) = Len(fs) => Func.actvar[Places(n)[Len(fs)].info].id = Meant(n)
            /\ Home(n) \in 1 .. Len(fs) - 1 /\ Places(n)[Len(fs)].info \in DOMAIN Func.upvalues =>
                 Func.upvalues[Places(n)[Len(fs)].info].id = Meant(n)
  BY DEF NameMeansInnermost
<1>1. ResolvesOK /\ TypesOK(fs, visible, captured) /\ ScopesOK(fs, visible)
  BY DEF IInv, Sound, ResolvesOK
<1>2. Len(fs) \in Nat \ {0} /\ fs[Len(fs)] \in FuncRec /\ Home(n) \in 0 .. Len(fs)
  BY <1>1, HomeIs DEF TypesOK, FuncOK
<1>3. CASE Home(n) = 0
  BY <1>1, <1>2, <1>3, MeantIs
<1>4. CASE Home(n) > 0
  <2>1. PICK info : PlacesOK(n, info)
    BY <1>1, <1>4, PlacesMean
  <2>. DEFINE h == Home(n)  L == Len(fs)
  <2>2. h \in 1 .. L /\ L \in h .. L /\ L \in Nat
    BY <1>2, <1>4
  <2>3. Places(n)[L].info = info[L] /\ info[h] = SearchVar(fs[h], n)
        /\ \A l \in h + 1 .. L : MeansAt(l, info[l], Meant(n))
    BY <2>1, <2>2 DEF PlacesOK
  <2>4. CASE h = L
    BY <1>1, <1>4, <2>3, <2>4, MeantIs DEF Func
  <2>5. CASE h # L
    <3>1. MeansAt(L, info[L], Meant(n)) /\ DOMAIN fs[L].upvalues = 1 .. Len(fs[L].upvalues)
      BY <1>2, <2>2, <2>3, <2>5, FuncTypes
    <3>. QED
      BY <1>4, <2>3, <2>5, <3>1 DEF MeansAt, Func
  <2>. QED
    BY <2>4, <2>5
<1>. QED
  BY <1>2, <1>3, <1>4

\* Every chain of captures ends in the variable it was made for: by induction
\* along the levels, which unfolds the recursive Denoted.
LEMMA ChainsEnd ==
  ASSUME fs \in Seq(FuncRec), UpvaluesOK(fs), NEW l \in 1 .. Len(fs), NEW j \in 1 .. Len(fs[l].upvalues)
  PROVE  Denoted[l][j] = fs[l].upvalues[j].id
<1>. DEFINE L == Len(fs)
            Step(d) == [m \in DOMAIN fs |-> [i \in DOMAIN fs[m].upvalues |->
               LET u == fs[m].upvalues[i]
               IN  IF m > 1 /\ u.k = "VLOCAL" /\ u.info \in DOMAIN fs[m - 1].actvar
                   THEN fs[m - 1].actvar[u.info].id
                   ELSE IF m > 1 /\ u.k = "VUPVAL" /\ u.info \in DOMAIN fs[m - 1].upvalues
                   THEN d[m - 1][u.info]
                   ELSE -1]]
            e == [m \in 1 .. L |-> [i \in 1 .. Len(fs[m].upvalues) |-> fs[m].upvalues[i].id]]
<1>1. /\ L \in Nat /\ DOMAIN fs = 1 .. L
      /\ \A m \in 1 .. L : /\ fs[m] \in FuncRec
                           /\ DOMAIN fs[m].upvalues = 1 .. Len(fs[m].upvalues)
                           /\ DOMAIN fs[m].actvar = 1 .. Len(fs[m].actvar)
  BY FuncTypes
<1>2. \A m \in 1 .. L : \A i \in 1 .. Len(fs[m].upvalues) :
        /\ fs[m].upvalues[i] \in UpRec /\ UpvalueOK(fs, m, fs[m].upvalues[i])
  BY <1>1, FuncTypes DEF UpvaluesOK
<1>3. ASSUME NEW d, NEW m \in 1 .. L, NEW i \in 1 .. Len(fs[m].upvalues),
             m > 1 => \A g \in 1 .. Len(fs[m - 1].upvalues) : d[m - 1][g] = fs[m - 1].upvalues[g].id
      PROVE  Step(d)[m][i] = fs[m].upvalues[i].id
  <2>. DEFINE u == fs[m].upvalues[i]
  <2>1. Step(d)[m][i] = IF m > 1 /\ u.k = "VLOCAL" /\ u.info \in DOMAIN fs[m - 1].actvar
                   THEN fs[m - 1].actvar[u.info].id
                   ELSE IF m > 1 /\ u.k = "VUPVAL" /\ u.info \in DOMAIN fs[m - 1].upvalues
                   THEN d[m - 1][u.info]
                   ELSE -1
    BY <1>1
  <2>2. u \in UpRec /\ UpvalueOK(fs, m, u)
    BY <1>2
  <2>. HIDE DEF u, Step
  <2>3. m > 1 /\ m - 1 \in 1 .. L
    BY <1>1, <2>2 DEF UpvalueOK
  <2>4. CASE u.k = "VLOCAL"
    BY <1>1, <2>1, <2>2, <2>3, <2>4 DEF UpvalueOK, u
  <2>5. CASE u.k = "VUPVAL"
    BY <1>1, <1>3, <2>1, <2>2, <2>3, <2>5 DEF UpvalueOK, u
  <2>. QED
    BY <2>2, <2>4, <2>5 DEF UpRec
<1>4. e = Step(e)
  <2>1. \A m \in 1 .. L : \A i \in 1 .. Len(fs[m].upvalues) : Step(e)[m][i] = fs[m].upvalues[i].id
    <3>1. TAKE m \in 1 .. L
    <3>2. TAKE i \in 1 .. Len(fs[m].upvalues)
    <3>3. m > 1 => \A g \in 1 .. Len(fs[m - 1].upvalues) : e[m - 1][g] = fs[m - 1].upvalues[g].id
      BY <1>1
    <3>. HIDE DEF e, Step
    <3>. QED
      BY <1>3, <3>3
  <2>2. Step(e) = [m \in 1 .. L |-> Step(e)[m]]
        /\ \A m \in 1 .. L : Step(e)[m] = [i \in 1 .. Len(fs[m].upvalues) |-> Step(e)[m][i]]
    <3>. HIDE DEF e
    <3>. QED
      BY <1>1
  <2>. HIDE DEF Step
  <2>3. \A m \in 1 .. L : Step(e)[m] = e[m]
    BY <2>1, <2>2
  <2>. QED
    BY <2>2, <2>3
<1>5. Denoted = Step(Denoted)
  BY <1>4 DEF Denoted
<1>. HIDE DEF Step, e
<1>. DEFINE P == {m \in Nat : m + 1 <= L =>
                    \A g \in 1 .. Len(fs[m + 1].upvalues) : Denoted[m + 1][g] = fs[m + 1].upvalues[g].id}
<1>6. 0 \in P
  <2>1. ~(1 > 1)
    OBVIOUS
  <2>. QED
    BY <1>1, <1>3, <1>5, <2>1
<1>7. ASSUME NEW m \in P PROVE m + 1 \in P
  <2>. SUFFICES ASSUME m + 1 + 1 <= L, NEW g \in 1 .. Len(fs[m + 1 + 1].upvalues)
                PROVE  Denoted[m + 1 + 1][g] = fs[m + 1 + 1].upvalues[g].id
    OBVIOUS
  <2>. DEFINE q == m + 1 + 1
  <2>1. q \in 1 .. L /\ q - 1 = m + 1 /\ m + 1 <= L
    BY <1>1
  <2>2. \A i \in 1 .. Len(fs[q - 1].upvalues) : Denoted[q - 1][i] = fs[q - 1].upvalues[i].id
    BY <2>1
  <2>. HIDE DEF q, P
  <2>3. g \in 1 .. Len(fs[q].upvalues)
    BY DEF q
  <2>4. Step(Denoted)[q][g] = fs[q].upvalues[g].id
    BY <1>3, <2>1, <2>2, <2>3
  <2>. QED
    BY <1>5, <2>4 DEF q
<1>8. P \in SUBSET Nat
  OBVIOUS
<1>. HIDE DEF P
<1>9. P = Nat
  BY <1>6, <1>7, <1>8, Induct
<1>10. l - 1 \in P /\ l - 1 + 1 = l /\ l <= L
  BY <1>1, <1>9
<1>. QED
  BY <1>10 DEF P

LEMMA UpvaluesMean == IInv => UpvaluesKeepMeaning
<1>. SUFFICES ASSUME IInv, NEW l \in 1 .. Len(fs), NEW j \in 1 .. Len(fs[l].upvalues)
     PROVE  /\ Denoted[l][j] = fs[l].upvalues[j].id
            /\ \A i \in 1 .. j - 1 : Denoted[l][i] # Denoted[l][j]
  <2>1. \A l \in DOMAIN fs : l \in 1 .. Len(fs) /\ DOMAIN fs[l].upvalues = 1 .. Len(fs[l].upvalues)
    BY FuncTypes DEF IInv, Sound, TypesOK
  <2>. QED
    BY <2>1 DEF UpvaluesKeepMeaning
<1>1. fs \in Seq(FuncRec) /\ UpvaluesOK(fs)
  BY DEF IInv, Sound, TypesOK
<1>2. \A i \in 1 .. Len(fs[l].upvalues) : Denoted[l][i] = fs[l].upvalues[i].id
  BY <1>1, ChainsEnd
<1>3. fs[l] \in FuncRec /\ Len(fs[l].upvalues) \in Nat
  BY <1>1, FuncTypes
<1>4. \A i \in 1 .. j - 1 : i \in 1 .. Len(fs[l].upvalues) /\ i # j
  BY <1>3
<1>. QED
  BY <1>1, <1>2, <1>4 DEF UpvaluesOK

LEMMA CapturedAreClosed == IInv => BlocksCloseCaptured
<1>. SUFFICES ASSUME IInv PROVE BlocksCloseCaptured
  OBVIOUS
<1>1. /\ DOMAIN fs = 1 .. Len(fs) /\ \A l \in 1 .. Len(fs) : DOMAIN fs[l].bl = 1 .. Len(fs[l].bl)
  BY FuncTypes DEF IInv, Sound, TypesOK
<1>. QED
  BY <1>1 DEF IInv, Sound, ClosesOK, FuncCloses, BlocksCloseCaptured, BlockEnd

LEMMA LimitsHold == IInv => WithinLimits
<1>. SUFFICES ASSUME IInv PROVE WithinLimits
  OBVIOUS
<1>1. DOMAIN fs = 1 .. Len(fs) /\ \A l \in 1 .. Len(fs) : LimitsOK(fs[l])
  BY DEF IInv, Sound, TypesOK, FuncOK
<1>. QED
  BY <1>1 DEF LimitsOK, WithinLimits
-----------------------------------------------------------------------------
(* What changes of one function leave alone *)

Put(s, f) == [s EXCEPT ![Len(s)] = f]

LEMMA PutIs ==
  ASSUME NEW s \in Seq(FuncRec), Len(s) > 0, NEW f \in FuncRec
  PROVE  /\ Put(s, f) \in Seq(FuncRec) /\ Len(Put(s, f)) = Len(s) /\ Len(s) \in Nat
         /\ Put(s, f)[Len(s)] = f
         /\ \A l \in 1 .. Len(s) : l # Len(s) => Put(s, f)[l] = s[l]
<1>1. Len(s) \in 1 .. Len(s) /\ Len(s) \in Nat
  BY LenProperties
<1>. QED
  BY <1>1, ExceptSeq DEF Put

LEMMA VarsOf ==
  ASSUME NEW f \in FuncRec
  PROVE  /\ AllVars(f) \in Seq(Rec) /\ Len(AllVars(f)) = Len(f.actvar) + Len(f.pending)
         /\ Len(AllVars(f)) \in Nat
         /\ \A i \in 1 .. Len(AllVars(f)) :
              AllVars(f)[i] = IF i <= Len(f.actvar) THEN f.actvar[i] ELSE f.pending[i - Len(f.actvar)]
<1>. DEFINE a == f.actvar  p == f.pending
<1>1. a \in Seq(Rec) /\ p \in Seq(Rec) /\ Len(a) \in Nat /\ Len(p) \in Nat /\ AllVars(f) = a \o p
  BY FuncTypes DEF AllVars
<1>. HIDE DEF a, p
<1>2. /\ a \o p \in Seq(Rec) /\ Len(a \o p) = Len(a) + Len(p)
      /\ \A i \in 1 .. Len(a) + Len(p) : (a \o p)[i] = IF i <= Len(a) THEN a[i] ELSE p[i - Len(a)]
  BY <1>1, ConcatProperties
<1>3. Len(a \o p) \in Nat
  BY <1>1, <1>2
<1>. QED
  BY <1>1, <1>2, <1>3 DEF a, p

LEMMA ActiveOnly ==
  ASSUME NEW f \in FuncRec, Len(f.pending) = 0
  PROVE  /\ Len(AllVars(f)) = Len(f.actvar)
         /\ \A i \in 1 .. Len(f.actvar) : AllVars(f)[i] = f.actvar[i]
<1>. DEFINE n == Len(f.actvar)
<1>1. n \in Nat /\ Len(AllVars(f)) = n
  <2>1. Len(AllVars(f)) = n + Len(f.pending)
    BY VarsOf
  <2>2. n \in Nat
    BY FuncTypes
  <2>. HIDE DEF n
  <2>. QED
    BY <2>1, <2>2
<1>2. \A i \in 1 .. n : AllVars(f)[i] = IF i <= n THEN f.actvar[i] ELSE f.pending[i - n]
  BY <1>1, VarsOf
<1>. HIDE DEF n
<1>3. \A i \in 1 .. n : i <= n
  BY <1>1
<1>. QED
  BY <1>1, <1>2, <1>3 DEF n

\* g has the variables of f, or the first of them, active or pending.
KeepsVars(f, g) ==
  /\ Len(AllVars(g)) <= Len(AllVars(f))
  /\ \A i \in 1 .. Len(AllVars(g)) : AllVars(g)[i] = AllVars(f)[i]

LEMMA DistinctKept ==
  ASSUME NEW s \in Seq(FuncRec), NEW t \in Seq(FuncRec), Distinct(s), Len(t) <= Len(s),
         \A l \in 1 .. Len(t) : KeepsVars(s[l], t[l])
  PROVE  Distinct(t)
<1>1. Len(s) \in Nat /\ Len(t) \in Nat /\ \A l \in 1 .. Len(t) : l \in 1 .. Len(s)
  BY LenProperties
<1>2. ASSUME NEW l \in 1 .. Len(t), NEW i \in 1 .. Len(AllVars(t[l]))
      PROVE  i \in 1 .. Len(AllVars(s[l])) /\ AllVars(t[l])[i] = AllVars(s[l])[i]
  <2>1. s[l] \in FuncRec /\ t[l] \in FuncRec
    BY <1>1
  <2>2. Len(AllVars(s[l])) \in Nat /\ Len(AllVars(t[l])) \in Nat
    BY <2>1, VarsOf
  <2>. QED
    BY <2>2 DEF KeepsVars
<1>3. ASSUME NEW l \in 1 .. Len(t), NEW m \in 1 .. Len(t), NEW i \in 1 .. Len(AllVars(t[l])),
             NEW j \in 1 .. Len(AllVars(t[m])), AllVars(t[l])[i].id = AllVars(t[m])[j].id,
             AllVars(t[l])[i].id # 0
      PROVE  l = m /\ i = j
  <2>1. /\ i \in 1 .. Len(AllVars(s[l])) /\ AllVars(t[l])[i] = AllVars(s[l])[i]
        /\ j \in 1 .. Len(AllVars(s[m])) /\ AllVars(t[m])[j] = AllVars(s[m])[j]
    BY <1>2
  <2>. QED
    BY <1>1, <1>3, <2>1 DEF Distinct
<1>. QED
  BY <1>3 DEF Distinct

LEMMA UpvaluesKept ==
  ASSUME NEW s \in Seq(FuncRec), NEW t \in Seq(FuncRec), UpvaluesOK(s),
         \A l \in 1 .. Len(t) : \/ t[l].upvalues = <<>>
                                \/ l <= Len(s) /\ t[l].upvalues = s[l].upvalues,
         \A m \in 1 .. Len(t) : m < Len(s) => t[m].actvar = s[m].actvar /\ t[m].upvalues = s[m].upvalues
  PROVE  UpvaluesOK(t)
<1>. SUFFICES ASSUME NEW l \in 1 .. Len(t), NEW j \in 1 .. Len(t[l].upvalues)
              PROVE  /\ UpvalueOK(t, l, t[l].upvalues[j])
                     /\ \A i \in 1 .. Len(t[l].upvalues) : t[l].upvalues[i].id = t[l].upvalues[j].id => i = j
  BY DEF UpvaluesOK
<1>1. Len(s) \in Nat /\ Len(t) \in Nat
  BY LenProperties
<1>2. l \in 1 .. Len(s) /\ t[l].upvalues = s[l].upvalues
  BY <1>1
<1>. DEFINE u == s[l].upvalues[j]
<1>3. UpvalueOK(s, l, u) /\ \A i \in 1 .. Len(s[l].upvalues) : s[l].upvalues[i].id = u.id => i = j
  BY <1>2 DEF UpvaluesOK
<1>4. \A m \in 1 .. l - 1 : t[m].actvar = s[m].actvar /\ t[m].upvalues = s[m].upvalues
  BY <1>1, <1>2
<1>. HIDE DEF u
<1>5. l - 1 \in 1 .. l - 1
  BY <1>3 DEF UpvalueOK
<1>6. UpvalueOK(t, l, u)
  <2>1. /\ l > 1 /\ u.id # 0
        /\ u.k = "VLOCAL" => u.info \in 1 .. Len(s[l - 1].actvar) /\ s[l - 1].actvar[u.info].id = u.id
        /\ u.k = "VUPVAL" => u.info \in 1 .. Len(s[l - 1].upvalues) /\ s[l - 1].upvalues[u.info].id = u.id
        /\ \E m \in 1 .. l - 1 : ActiveIn(s, m, u.id)
    BY <1>3 DEF UpvalueOK
  <2>2. t[l - 1].actvar = s[l - 1].actvar /\ t[l - 1].upvalues = s[l - 1].upvalues
    BY <1>4, <1>5
  <2>3. \E m \in 1 .. l - 1 : ActiveIn(t, m, u.id)
    BY <1>4, <2>1 DEF ActiveIn
  <2>. QED
    BY <2>1, <2>2, <2>3 DEF UpvalueOK
<1>. QED
  BY <1>2, <1>3, <1>6 DEF u

\* The sequence w goes on from v.
Extends(v, w) == Len(v) <= Len(w) /\ \A i \in 1 .. Len(v) : w[i] = v[i]

LEMMA CapturedKept ==
  ASSUME NEW s \in Seq(FuncRec), NEW t \in Seq(FuncRec), NEW cap, CapturedOK(s, cap), Len(s) <= Len(t),
         \A l \in 1 .. Len(s) : Extends(s[l].actvar, t[l].actvar)
  PROVE  CapturedOK(t, cap)
<1>1. Len(s) \in Nat /\ Len(t) \in Nat /\ \A l \in 1 .. Len(s) : l \in 1 .. Len(t)
  BY LenProperties
<1>2. ASSUME NEW l \in 1 .. Len(s), NEW i \in 1 .. Len(s[l].actvar)
      PROVE  i \in 1 .. Len(t[l].actvar) /\ t[l].actvar[i] = s[l].actvar[i]
  <2>1. Len(s[l].actvar) \in Nat /\ Len(t[l].actvar) \in Nat
    <3>1. s[l] \in FuncRec /\ t[l] \in FuncRec
      BY <1>1
    <3>. QED
      BY <3>1, FuncTypes
  <2>2. Len(s[l].actvar) <= Len(t[l].actvar) /\ t[l].actvar[i] = s[l].actvar[i]
    BY DEF Extends
  <2>. QED
    BY <2>1, <2>2
<1>. QED
  <2>1. ASSUME NEW c \in cap PROVE c # 0 /\ \E l \in 1 .. Len(t) : ActiveIn(t, l, c)
    <3>1. c # 0 /\ \E l \in 1 .. Len(s) : ActiveIn(s, l, c)
      BY DEF CapturedOK
    <3>2. PICK l \in 1 .. Len(s) : ActiveIn(s, l, c)
      BY <3>1
    <3>3. PICK i \in 1 .. Len(s[l].actvar) : s[l].actvar[i].id = c
      BY <3>2 DEF ActiveIn
    <3>4. ActiveIn(t, l, c)
      BY <1>2, <3>3 DEF ActiveIn
    <3>. QED
      BY <1>1, <3>1, <3>4
  <2>. QED
    BY <2>1 DEF CapturedOK

\* g has the active variables of f and its blocks; a block that is new begins
\* no scope, unless it is that of a for statement under way.
SameShape(f, g) ==
  /\ g.actvar = f.actvar
  /\ Len(f.bl) <= Len(g.bl)
  /\ \A i \in 1 .. Len(f.bl) : g.bl[i].first = f.bl[i].first /\ g.bl[i].nActVar = f.bl[i].nActVar
  /\ \A i \in Len(f.bl) + 1 .. Len(g.bl) : g.bl[i].first => i = Len(g.bl) /\ ForPending(g)
  /\ ForPending(f) => ForPending(g) /\ Len(g.bl) = Len(f.bl)
  /\ ForPending(g) /\ Len(g.bl) = Len(f.bl) => ForPending(f)

LEMMA ScopesKept ==
  ASSUME NEW s \in Seq(FuncRec), NEW t \in Seq(FuncRec), NEW vis, ScopesOK(s, vis), Len(t) = Len(s),
         \A l \in 1 .. Len(s) : SameShape(s[l], t[l])
  PROVE  ScopesOK(t, vis)
<1>1. PICK lev, lo, blk : ScopesAt(s, vis, lev, lo, blk)
  BY DEF ScopesOK
<1>2. \A l \in 1 .. Len(s) : Len(s[l].bl) \in Nat /\ Len(t[l].bl) \in Nat
  BY FuncTypes
<1>3. ASSUME NEW a \in 1 .. Len(vis) PROVE ScopeFits(t[lev[a]], vis, lev, lo, blk, a)
  <2>. DEFINE f == s[lev[a]]  g == t[lev[a]]
  <2>1. lev[a] \in 1 .. Len(s) /\ ScopeFits(f, vis, lev, lo, blk, a)
    BY <1>1 DEF ScopesAt
  <2>2. SameShape(f, g) /\ Len(f.bl) \in Nat /\ Len(g.bl) \in Nat
    BY <1>2, <2>1
  <2>. HIDE DEF f, g
  <2>3. \A i \in 1 .. Len(f.bl) : i \in 1 .. Len(g.bl)
    BY <2>2 DEF SameShape
  <2>4. ScopeFits(g, vis, lev, lo, blk, a)
    BY <2>1, <2>2, <2>3 DEF SameShape, ScopeFits
  <2>. QED
    BY <2>4 DEF g
<1>4. ASSUME NEW l \in 1 .. Len(s) PROVE LevelFits(t[l], vis, lev, lo, blk, l)
  <2>. DEFINE f == s[l]  g == t[l]
  <2>1. LevelFits(f, vis, lev, lo, blk, l)
    BY <1>1 DEF ScopesAt
  <2>2. SameShape(f, g) /\ Len(f.bl) \in Nat /\ Len(g.bl) \in Nat
    BY <1>2
  <2>. HIDE DEF f, g
  <2>3. \A i \in 1 .. Len(g.bl) : i \in 1 .. Len(f.bl) \/ i \in Len(f.bl) + 1 .. Len(g.bl)
    BY <2>2
  <2>4. \A a \in 1 .. Len(vis) : lev[a] = l => blk[a] = 0 \/ blk[a] \in 1 .. Len(f.bl)
    BY <1>1 DEF ScopesAt, ScopeFits, f
  <2>5. ASSUME NEW i \in 1 .. Len(g.bl), g.bl[i].first
        PROVE  IF i = Len(g.bl) /\ ForPending(g)
               THEN \A a \in 1 .. Len(vis) : lev[a] = l => blk[a] # i
               ELSE \E a \in 1 .. Len(vis) : lev[a] = l /\ blk[a] = i
    <3>1. CASE i \in 1 .. Len(f.bl)
      <4>1. /\ f.bl[i].first /\ (ForPending(f) => ForPending(g) /\ Len(g.bl) = Len(f.bl))
            /\ IF i = Len(f.bl) /\ ForPending(f)
               THEN \A a \in 1 .. Len(vis) : lev[a] = l => blk[a] # i
               ELSE \E a \in 1 .. Len(vis) : lev[a] = l /\ blk[a] = i
        BY <2>1, <2>2, <2>5, <3>1 DEF SameShape, LevelFits
      <4>2. i = Len(g.bl) /\ ForPending(g) => i = Len(f.bl) /\ ForPending(f)
        BY <2>2, <3>1 DEF SameShape
      <4>3. CASE i = Len(f.bl) /\ ForPending(f)
        BY <4>1, <4>3
      <4>4. CASE ~(i = Len(f.bl) /\ ForPending(f))
        <5>1. ~(i = Len(g.bl) /\ ForPending(g))
          BY <4>2, <4>4
        <5>. QED
          BY <4>1, <4>4, <5>1
      <4>. QED
        BY <4>3, <4>4
    <3>2. CASE i \in Len(f.bl) + 1 .. Len(g.bl)
      BY <2>2, <2>4, <2>5, <3>2, SMTT(20) DEF SameShape
    <3>. QED
      BY <2>3, <3>1, <3>2
  <2>6. LevelFits(g, vis, lev, lo, blk, l)
    BY <2>1, <2>2, <2>5 DEF SameShape, LevelFits
  <2>. QED
    BY <2>6 DEF g
<1>. QED
  BY <1>1, <1>3, <1>4 DEF ScopesAt, ScopesOK

\* What is left to show when one step changes the innermost function only.
LEMMA SoundPut ==
  ASSUME NEW s, NEW vis, NEW cap, Sound(s, vis, cap), NEW g, FuncOK(g),
         Extends(s[Len(s)].actvar, g.actvar), g.upvalues = s[Len(s)].upvalues,
         Distinct(Put(s, g)), FuncCloses(g, cap),
         NEW vis2 \in Seq(Seq(Rec)), Len(vis2) > 0, ScopesOK(Put(s, g), vis2)
  PROVE  Sound(Put(s, g), vis2, cap)
<1>. DEFINE t == Put(s, g)
<1>1. s \in Seq(FuncRec) /\ Len(s) > 0 /\ g \in FuncRec
  BY DEF Sound, TypesOK, FuncOK
<1>2. /\ t \in Seq(FuncRec) /\ Len(t) = Len(s) /\ Len(s) \in Nat /\ t[Len(s)] = g
      /\ \A l \in 1 .. Len(s) : l # Len(s) => t[l] = s[l]
  BY <1>1, PutIs
<1>. HIDE DEF t
<1>3. \A l \in 1 .. Len(t) : FuncOK(t[l])
  BY <1>2 DEF Sound, TypesOK
<1>4. UpvaluesOK(t)
  <2>1. \A l \in 1 .. Len(t) : l <= Len(s) /\ t[l].upvalues = s[l].upvalues
    BY <1>2
  <2>2. \A m \in 1 .. Len(t) : m < Len(s) => t[m].actvar = s[m].actvar /\ t[m].upvalues = s[m].upvalues
    BY <1>2
  <2>3. UpvaluesOK(s)
    BY DEF Sound
  <2>4. \A l \in 1 .. Len(t) : \/ t[l].upvalues = <<>>
                               \/ l <= Len(s) /\ t[l].upvalues = s[l].upvalues
    BY <2>1
  <2>. QED
    BY <1>1, <1>2, <2>2, <2>3, <2>4, UpvaluesKept
<1>5. CapturedOK(t, cap)
  <2>1. \A l \in 1 .. Len(s) : Extends(s[l].actvar, t[l].actvar)
    <3>1. TAKE l \in 1 .. Len(s)
    <3>2. Len(s[l].actvar) \in Nat
      BY <1>1, FuncTypes
    <3>. QED
      BY <1>2, <3>2, SMTT(20) DEF Extends
  <2>. QED
    BY <1>1, <1>2, <2>1, CapturedKept DEF Sound
<1>6. ClosesOK(t, cap)
  BY <1>2 DEF Sound, ClosesOK
<1>7. TypesOK(t, vis2, cap)
  BY <1>1, <1>2, <1>3 DEF Sound, TypesOK
<1>8. Distinct(t) /\ ScopesOK(t, vis2)
  BY DEF t
<1>9. Sound(t, vis2, cap)
  BY <1>4, <1>5, <1>6, <1>7, <1>8 DEF Sound
<1>. QED
  BY <1>9 DEF t
-----------------------------------------------------------------------------
(* The numbers of variables *)

\* What the invariant says of the innermost function and of the last scope.
LEMMA Innermost ==
  ASSUME NEW s, NEW vis, NEW cap, Sound(s, vis, cap)
  PROVE  /\ s \in Seq(FuncRec) /\ Len(s) \in Nat /\ Len(s) \in 1 .. Len(s)
         /\ s[Len(s)] \in FuncRec /\ FuncOK(s[Len(s)]) /\ FuncCloses(s[Len(s)], cap)
         /\ vis \in Seq(Seq(Rec)) /\ Len(vis) \in Nat /\ Len(vis) \in 1 .. Len(vis)
         /\ \A l \in 1 .. Len(s) : s[l] \in FuncRec
         /\ \A a \in 1 .. Len(vis) : vis[a] \in Seq(Rec) /\ Len(vis[a]) \in Nat
<1>1. s \in Seq(FuncRec) /\ Len(s) \in Nat /\ Len(s) > 0
      /\ vis \in Seq(Seq(Rec)) /\ Len(vis) \in Nat /\ Len(vis) > 0
  BY LenProperties DEF Sound, TypesOK
<1>2. Len(s) \in 1 .. Len(s) /\ Len(vis) \in 1 .. Len(vis)
  BY <1>1
<1>3. \A a \in 1 .. Len(vis) : vis[a] \in Seq(Rec) /\ Len(vis[a]) \in Nat
  BY <1>1, LenProperties
<1>. QED
  BY <1>1, <1>2, <1>3 DEF Sound, TypesOK, ClosesOK

LEMMA LiveIs ==
  ASSUME NEW s \in Seq(FuncRec), NEW c
  PROVE  c \in Live(s) <=> \E l \in 1 .. Len(s) : \E i \in 1 .. Len(AllVars(s[l])) : AllVars(s[l])[i].id = c
<1>1. DOMAIN s = 1 .. Len(s) /\ \A l \in 1 .. Len(s) : s[l] \in FuncRec
  OBVIOUS
<1>2. \A l \in 1 .. Len(s) : DOMAIN AllVars(s[l]) = 1 .. Len(AllVars(s[l]))
  BY <1>1, VarsOf
<1>3. Live(s) = {v.id : v \in UNION {Range(AllVars(s[l])) : l \in 1 .. Len(s)}}
  BY <1>1 DEF Live, AllVars
<1>4. \A l \in 1 .. Len(s) : Range(AllVars(s[l])) = {AllVars(s[l])[i] : i \in 1 .. Len(AllVars(s[l]))}
  BY <1>2 DEF Range
<1>5. c \in Live(s) => \E l \in 1 .. Len(s) : \E i \in 1 .. Len(AllVars(s[l])) : AllVars(s[l])[i].id = c
  <2>. SUFFICES ASSUME c \in Live(s)
                PROVE  \E l \in 1 .. Len(s) : \E i \in 1 .. Len(AllVars(s[l])) : AllVars(s[l])[i].id = c
    OBVIOUS
  <2>1. PICK v : c = v.id /\ \E l \in 1 .. Len(s) : v \in Range(AllVars(s[l]))
    BY <1>3
  <2>. QED
    BY <1>4, <2>1
<1>6. ASSUME NEW l \in 1 .. Len(s), NEW i \in 1 .. Len(AllVars(s[l])), AllVars(s[l])[i].id = c
      PROVE  c \in Live(s)
  <2>1. AllVars(s[l])[i] \in Range(AllVars(s[l]))
    BY <1>4
  <2>. QED
    BY <1>3, <1>6, <2>1
<1>. QED
  BY <1>5, <1>6

LEMMA NumberTypes ==
  ASSUME NEW s \in Seq(FuncRec), NEW l \in 1 .. Len(s), NEW i \in 1 .. Len(AllVars(s[l]))
  PROVE  AllVars(s[l])[i] \in Rec /\ AllVars(s[l])[i].id \in Nat /\ AllVars(s[l])[i].id <= MAXDECLS
<1>1. s[l] \in FuncRec
  OBVIOUS
<1>2. AllVars(s[l]) \in Seq(Rec)
  BY <1>1, VarsOf
<1>. QED
  BY <1>2, RecTypes

\* No variable has a number above next.
Above(s, nx) == \A l \in 1 .. Len(s) : \A i \in 1 .. Len(AllVars(s[l])) : AllVars(s[l])[i].id <= nx

LEMMA NextIs ==
  ASSUME fs \in Seq(FuncRec)
  PROVE  next \in 0 .. MAXDECLS /\ Above(fs, next)
<1>. DEFINE S == {0} \cup Live(fs)
<1>1. \A c \in Live(fs) : c \in Nat /\ c <= MAXDECLS
  <2>1. TAKE c \in Live(fs)
  <2>2. PICK l \in 1 .. Len(fs) : \E i \in 1 .. Len(AllVars(fs[l])) : AllVars(fs[l])[i].id = c
    BY LiveIs
  <2>. QED
    BY <2>2, NumberTypes
<1>2. S \in SUBSET Nat /\ S # {} /\ \A c \in S : c <= MAXDECLS
  BY <1>1, MaxDeclsType
<1>3. \A c \in Live(fs) : c \in S
  OBVIOUS
<1>4. next = Max(S)
  BY DEF next
<1>. HIDE DEF S
<1>5. next \in S /\ \A c \in S : c <= next
  BY <1>2, <1>4, MaxDeclsType, MaxIs
<1>6. Above(fs, next)
  BY <1>3, <1>5, LiveIs DEF Above
<1>. QED
  BY <1>2, <1>5, <1>6, MaxDeclsType

\* The variables of t are those of s, hidden ones, and ones of its last function
\* with new numbers that follow each other.
Fresh(s, t, nx, b) ==
  \A l \in 1 .. Len(t) : \A i \in 1 .. Len(AllVars(t[l])) :
    LET v == AllVars(t[l])[i]
    IN  \/ l <= Len(s) /\ i <= Len(AllVars(s[l])) /\ v = AllVars(s[l])[i]
        \/ v.id = 0
        \/ l = Len(t) /\ v.id > nx /\ v.id = b + i

LEMMA DistinctFresh ==
  ASSUME NEW s \in Seq(FuncRec), NEW t \in Seq(FuncRec), Distinct(s), NEW nx \in Nat, Above(s, nx),
         NEW b \in Int, Fresh(s, t, nx, b)
  PROVE  Distinct(t)
<1>. SUFFICES ASSUME NEW l \in 1 .. Len(t), NEW m \in 1 .. Len(t), NEW i \in 1 .. Len(AllVars(t[l])),
                     NEW j \in 1 .. Len(AllVars(t[m])), AllVars(t[l])[i].id = AllVars(t[m])[j].id,
                     AllVars(t[l])[i].id # 0
              PROVE  l = m /\ i = j
  BY DEF Distinct
<1>1. Len(s) \in Nat /\ Len(t) \in Nat
  BY LenProperties
<1>. DEFINE Old(k, h) == k \in 1 .. Len(s) /\ h \in 1 .. Len(AllVars(s[k])) /\ AllVars(t[k])[h] = AllVars(s[k])[h]
            New(k, h) == k = Len(t) /\ AllVars(t[k])[h].id > nx /\ AllVars(t[k])[h].id = b + h
<1>2. ASSUME NEW k \in 1 .. Len(t), NEW h \in 1 .. Len(AllVars(t[k])), AllVars(t[k])[h].id # 0
      PROVE  h \in Int /\ (Old(k, h) \/ New(k, h))
  <2>1. k <= Len(s) => k \in 1 .. Len(s) /\ s[k] \in FuncRec
    BY <1>1
  <2>2. k <= Len(s) => Len(AllVars(s[k])) \in Nat
    BY <2>1, VarsOf
  <2>. QED
    BY <1>2, <2>1, <2>2, SMTT(20) DEF Fresh
<1>3. ASSUME NEW k \in 1 .. Len(t), NEW h \in 1 .. Len(AllVars(t[k])), Old(k, h)
      PROVE  AllVars(t[k])[h].id <= nx
  BY <1>3 DEF Above
<1>4. AllVars(t[l])[i].id \in Nat
  BY NumberTypes
<1>5. CASE Old(l, i) /\ Old(m, j)
  BY <1>5, OnlyOne
<1>6. CASE New(l, i) /\ New(m, j)
  BY <1>2, <1>6
<1>7. ~(Old(l, i) /\ New(m, j)) /\ ~(New(l, i) /\ Old(m, j))
  <2>1. Old(l, i) => AllVars(t[l])[i].id <= nx
    BY <1>3
  <2>2. Old(m, j) => AllVars(t[m])[j].id <= nx
    BY <1>3
  <2>. QED
    BY <1>4, <2>1, <2>2, SMTT(20)
<1>8. (Old(l, i) \/ New(l, i)) /\ (Old(m, j) \/ New(m, j))
  BY <1>2
<1>. QED
  BY <1>5, <1>6, <1>7, <1>8
\* The same for a change of the innermost function.
FreshIn(f, g, nx, b) ==
  \A i \in 1 .. Len(AllVars(g)) :
    \/ i <= Len(AllVars(f)) /\ AllVars(g)[i] = AllVars(f)[i]
    \/ AllVars(g)[i].id = 0
    \/ AllVars(g)[i].id > nx /\ AllVars(g)[i].id = b + i

LEMMA DistinctPut ==
  ASSUME NEW s \in Seq(FuncRec), Len(s) > 0, NEW g \in FuncRec, Distinct(s), NEW nx \in Nat, Above(s, nx),
         NEW b \in Int, FreshIn(s[Len(s)], g, nx, b)
  PROVE  Distinct(Put(s, g))
<1>. DEFINE t == Put(s, g)
<1>1. /\ t \in Seq(FuncRec) /\ Len(t) = Len(s) /\ Len(s) \in Nat /\ t[Len(s)] = g
      /\ \A l \in 1 .. Len(s) : l # Len(s) => t[l] = s[l]
  BY PutIs
<1>. HIDE DEF t
<1>2. ASSUME NEW l \in 1 .. Len(t), NEW i \in 1 .. Len(AllVars(t[l])), l # Len(s)
      PROVE  l <= Len(s) /\ i <= Len(AllVars(s[l])) /\ AllVars(t[l])[i] = AllVars(s[l])[i]
  <2>1. l \in 1 .. Len(s) /\ t[l] = s[l] /\ s[l] \in FuncRec
    BY <1>1, <1>2
  <2>2. Len(AllVars(s[l])) \in Nat
    BY <2>1, VarsOf
  <2>. QED
    BY <2>1, <2>2
<1>3. Fresh(s, t, nx, b)
  BY <1>1, <1>2 DEF Fresh, FreshIn
<1>4. Distinct(t)
  BY <1>1, <1>3, DistinctFresh
<1>. QED
  BY <1>4 DEF t

LEMMA KeepsDistinct ==
  ASSUME NEW s \in Seq(FuncRec), Len(s) > 0, NEW g \in FuncRec, Distinct(s), KeepsVars(s[Len(s)], g)
  PROVE  Distinct(Put(s, g))
<1>. DEFINE t == Put(s, g)
<1>1. /\ t \in Seq(FuncRec) /\ Len(t) = Len(s) /\ Len(s) \in Nat /\ t[Len(s)] = g
      /\ \A l \in 1 .. Len(s) : l # Len(s) => t[l] = s[l]
  BY PutIs
<1>. HIDE DEF t
<1>2. ASSUME NEW l \in 1 .. Len(t) PROVE KeepsVars(s[l], t[l])
  <2>1. s[l] \in FuncRec
    BY <1>1
  <2>2. Len(AllVars(s[l])) \in Nat
    BY <2>1, VarsOf
  <2>. QED
    BY <1>1, <2>2 DEF KeepsVars
<1>3. Distinct(t)
  BY <1>1, <1>2, DistinctKept
<1>. QED
  BY <1>3 DEF t

LEMMA SameShapeAlways ==
  ASSUME NEW f \in FuncRec
  PROVE  SameShape(f, f)
BY FuncTypes DEF SameShape

LEMMA ScopesPut ==
  ASSUME NEW s \in Seq(FuncRec), Len(s) > 0, NEW g \in FuncRec, NEW vis, ScopesOK(s, vis),
         SameShape(s[Len(s)], g)
  PROVE  ScopesOK(Put(s, g), vis)
<1>. DEFINE t == Put(s, g)
<1>1. /\ t \in Seq(FuncRec) /\ Len(t) = Len(s) /\ Len(s) \in Nat /\ t[Len(s)] = g
      /\ \A l \in 1 .. Len(s) : l # Len(s) => t[l] = s[l]
  BY PutIs
<1>. HIDE DEF t
<1>2. ASSUME NEW l \in 1 .. Len(s) PROVE SameShape(s[l], t[l])
  <2>1. s[l] \in FuncRec
    OBVIOUS
  <2>. QED
    BY <1>1, <2>1, SameShapeAlways
<1>3. ScopesOK(t, vis)
  BY <1>1, <1>2, ScopesKept
<1>. QED
  BY <1>3 DEF t
-----------------------------------------------------------------------------
(* Blocks and declarations of one function *)

\* g is f with one more block.
Entered(f, g, first) ==
  /\ g \in FuncRec /\ g.actvar = f.actvar /\ g.pending = f.pending /\ g.upvalues = f.upvalues
  /\ Len(g.bl) = Len(f.bl) + 1 /\ \A i \in 1 .. Len(f.bl) : g.bl[i] = f.bl[i]
  /\ g.bl[Len(f.bl) + 1].nActVar = Len(f.actvar) /\ g.bl[Len(f.bl) + 1].upval = FALSE
  /\ g.bl[Len(f.bl) + 1].first = first

LEMMA EnterIs ==
  ASSUME NEW f \in FuncRec, NEW first \in BOOLEAN, NEW breakable \in BOOLEAN
  PROVE  Entered(f, Enter(f, first, breakable), first)
<1>. DEFINE b == [nActVar |-> Len(f.actvar), upval |-> FALSE, isBreakable |-> breakable, first |-> first]
            bl == Append(f.bl, b)
            g == [f EXCEPT !.bl = bl]
<1>1. b \in BlockRec /\ f.bl \in Seq(BlockRec) /\ Len(f.bl) \in Nat
  BY FuncTypes DEF BlockRec
<1>2. b.nActVar = Len(f.actvar) /\ b.upval = FALSE /\ b.first = first
  OBVIOUS
<1>3. Enter(f, first, breakable) = g
  BY DEF Enter
<1>. HIDE DEF b
<1>4. /\ bl \in Seq(BlockRec) /\ Len(bl) = Len(f.bl) + 1 /\ bl[Len(f.bl) + 1] = b
      /\ \A i \in 1 .. Len(f.bl) : bl[i] = f.bl[i]
  BY <1>1, AppendProperties
<1>. HIDE DEF bl
<1>5. /\ g \in FuncRec /\ g.actvar = f.actvar /\ g.pending = f.pending
      /\ g.upvalues = f.upvalues /\ g.bl = bl
  BY <1>4 DEF FuncRec
<1>. QED
  BY <1>2, <1>3, <1>4, <1>5 DEF Entered

LEMMA BlockTypes ==
  ASSUME NEW f \in FuncRec, NEW i \in 1 .. Len(f.bl)
  PROVE  f.bl[i] \in BlockRec /\ f.bl[i].nActVar \in Nat
         /\ f.bl[i].upval \in BOOLEAN /\ f.bl[i].first \in BOOLEAN
<1>1. f.bl[i] \in BlockRec
  BY FuncTypes
<1>. QED
  BY <1>1 DEF BlockRec

\* The variables of f are hidden, or none that a closure uses, from i on.
Unused(f, i, cap) == \A v \in i + 1 .. Len(f.actvar) : f.actvar[v].id \notin cap

\* New blocks and new active variables that no closure uses yet leave closing to
\* the blocks that had it.
LEMMA ClosesKept ==
  ASSUME NEW f \in FuncRec, NEW g \in FuncRec, NEW cap, BlocksOK(f), BlocksOK(g), FuncCloses(f, cap),
         Extends(f.actvar, g.actvar), Unused(g, Len(f.actvar), cap), Len(f.bl) <= Len(g.bl),
         \A i \in 1 .. Len(f.bl) : g.bl[i] = f.bl[i],
         \A i \in Len(f.bl) + 1 .. Len(g.bl) : g.bl[i].nActVar >= Len(f.actvar) /\ g.bl[i].upval = FALSE
  PROVE  FuncCloses(g, cap)
<1>. DEFINE n == Len(f.bl)  m == Len(g.bl)  p == Len(f.actvar)  q == Len(g.actvar)
<1>1. /\ n \in Nat /\ m \in Nat /\ p \in Nat /\ q \in Nat /\ n <= m /\ p <= q
      /\ \A i \in 1 .. n : f.bl[i] \in BlockRec /\ f.bl[i].nActVar \in Nat
      /\ \A i \in 1 .. m : g.bl[i] \in BlockRec /\ g.bl[i].nActVar \in Nat
  <2>1. n <= m /\ p <= q
    BY DEF Extends
  <2>. QED
    BY <2>1, FuncTypes, BlockTypes
<1>2. /\ \A v \in 1 .. p : g.actvar[v] = f.actvar[v]
      /\ \A v \in p + 1 .. q : g.actvar[v].id \notin cap
  BY DEF Extends, Unused
<1>3. \A i \in 1 .. m : g.bl[i].nActVar <= q /\ \A j \in 1 .. m : i <= j => g.bl[i].nActVar <= g.bl[j].nActVar
  BY DEF BlocksOK
<1>4. \A i \in 1 .. n : f.bl[i].nActVar <= p
  BY DEF BlocksOK
<1>5. \A i \in 1 .. n : g.bl[i].nActVar = f.bl[i].nActVar /\ g.bl[i].upval = f.bl[i].upval
  OBVIOUS
<1>6. \A i \in n + 1 .. m : g.bl[i].nActVar >= p /\ g.bl[i].upval = FALSE
  OBVIOUS
<1>7. \A i \in 1 .. n : f.bl[i].upval <=> \E v \in f.bl[i].nActVar + 1 .. BlockEnd(f, i) : f.actvar[v].id \in cap
  BY DEF FuncCloses
<1>8. \A i \in 1 .. m : BlockEnd(g, i) \in Nat /\ BlockEnd(g, i) <= q
                        /\ (i < n => BlockEnd(g, i) = BlockEnd(f, i))
                        /\ (i = n => BlockEnd(g, i) >= p /\ BlockEnd(f, i) = p)
  <2>1. TAKE i \in 1 .. m
  <2>2. BlockEnd(g, i) = IF i = m THEN q ELSE g.bl[i + 1].nActVar
    BY DEF BlockEnd
  <2>3. BlockEnd(f, i) = IF i = n THEN p ELSE f.bl[i + 1].nActVar
    BY DEF BlockEnd
  <2>. HIDE DEF n, m, p, q
  <2>4. i # m => i + 1 \in 1 .. m
    BY <1>1
  <2>5. i < n => i + 1 \in 1 .. n /\ i # m
    BY <1>1
  <2>6. i = n /\ i # m => i + 1 \in n + 1 .. m
    BY <1>1
  <2>7. BlockEnd(g, i) \in Nat /\ BlockEnd(g, i) <= q
    BY <1>1, <1>3, <2>2, <2>4
  <2>8. i < n => BlockEnd(g, i) = BlockEnd(f, i)
    BY <1>5, <2>2, <2>3, <2>5
  <2>9. i = n => BlockEnd(g, i) >= p /\ BlockEnd(f, i) = p
    BY <1>1, <1>6, <2>2, <2>3, <2>6
  <2>. QED
    BY <2>7, <2>8, <2>9
<1>9. \A i \in 1 .. n : i < n => BlockEnd(f, i) <= p
  <2>1. TAKE i \in 1 .. n
  <2>2. BlockEnd(f, i) = IF i = n THEN p ELSE f.bl[i + 1].nActVar
    BY DEF BlockEnd
  <2>. HIDE DEF n, p
  <2>3. i < n => i + 1 \in 1 .. n
    BY <1>1
  <2>. QED
    BY <1>1, <1>4, <2>2, <2>3
<1>. SUFFICES ASSUME NEW i \in 1 .. m
     PROVE  g.bl[i].upval <=> \E v \in g.bl[i].nActVar + 1 .. BlockEnd(g, i) : g.actvar[v].id \in cap
  BY DEF FuncCloses
<1>. HIDE DEF n, m, p, q
<1>10. CASE i \in 1 .. n
  <2>. DEFINE lo == f.bl[i].nActVar  e == BlockEnd(f, i)  d == BlockEnd(g, i)
  <2>1. /\ lo \in Nat /\ d \in Nat /\ e \in Nat /\ d <= q /\ e <= p /\ e <= d /\ lo <= p
        /\ (d = e \/ (e = p /\ d >= p)) /\ g.bl[i].nActVar = lo
    BY <1>1, <1>4, <1>5, <1>8, <1>9, <1>10
  <2>2. f.bl[i].upval <=> \E v \in lo + 1 .. e : f.actvar[v].id \in cap
    BY <1>7, <1>10
  <2>3. g.bl[i].upval = f.bl[i].upval
    BY <1>5, <1>10
  <2>. HIDE DEF lo, e, d
  <2>4. \A v \in lo + 1 .. d : v \in lo + 1 .. e \/ v \in p + 1 .. q
    BY <1>1, <2>1
  <2>5. \A v \in lo + 1 .. e : v \in 1 .. p /\ v \in lo + 1 .. d
    BY <1>1, <2>1
  <2>6. (\E v \in lo + 1 .. d : g.actvar[v].id \in cap) <=> (\E v \in lo + 1 .. e : f.actvar[v].id \in cap)
    BY <1>2, <2>4, <2>5
  <2>. QED
    BY <2>1, <2>2, <2>3, <2>6 DEF d
<1>11. CASE i \in n + 1 .. m
  <2>1. g.bl[i].nActVar \in Nat /\ g.bl[i].nActVar >= p /\ BlockEnd(g, i) \in Nat /\ BlockEnd(g, i) <= q
    BY <1>1, <1>6, <1>8, <1>11
  <2>. DEFINE lo == g.bl[i].nActVar  d == BlockEnd(g, i)
  <2>2. lo \in Nat /\ lo >= p /\ d \in Nat /\ d <= q
    BY <2>1
  <2>. HIDE DEF lo, d
  <2>3. \A v \in lo + 1 .. d : v \in p + 1 .. q
    BY <1>1, <2>2
  <2>. QED
    BY <1>2, <1>6, <1>11, <2>3 DEF lo, d
<1>. QED
  BY <1>1, <1>10, <1>11

LEMMA ListsAre ==
  ASSUME NEW n \in Nat, NEW ns \in Lists(n)
  PROVE  \E k \in 0 .. n : ns \in [1 .. k -> Name] /\ Len(ns) = k /\ DOMAIN ns = 1 .. k
<1>1. PICK k \in 0 .. n : ns \in [1 .. k -> Name]
  BY DEF Lists
<1>2. ns \in Seq(Name) /\ DOMAIN ns = 1 .. k /\ k \in Nat
  BY <1>1
<1>3. Len(ns) = k
  BY <1>2
<1>. QED
  BY <1>1, <1>2, <1>3

LEMMA LocalsAre ==
  ASSUME NEW k \in Nat, NEW ns \in [1 .. k -> Name], NEW first \in Nat, first + k <= MAXDECLS
  PROVE  LET w == Locals(first, ns)
         IN  /\ w \in Seq(Rec) /\ Len(w) = k
             /\ \A i \in 1 .. k : w[i].name # Hidden /\ w[i].id = first + i
<1>. DEFINE w == Locals(first, ns)
<1>1. w = [i \in 1 .. k |-> Local(ns[i], first + i)]
  BY DEF Locals
<1>2. \A i \in 1 .. k : Local(ns[i], first + i) \in Rec
  BY MaxDeclsType DEF Local, Rec
<1>3. w \in [1 .. k -> Rec]
  BY <1>1, <1>2
<1>4. \A i \in 1 .. k : w[i].name = ns[i] /\ w[i].id = first + i
  BY <1>1 DEF Local
<1>5. \A i \in 1 .. k : ns[i] # Hidden
  BY NameAssumption
<1>. HIDE DEF w
<1>6. w \in Seq(Rec) /\ Len(w) = k
  BY <1>3
<1>. QED
  BY <1>4, <1>5, <1>6 DEF w

\* The first n elements of a sequence, and the others.
LEMMA PrefixIs ==
  ASSUME NEW S, NEW p \in Seq(S), NEW n \in 0 .. Len(p)
  PROVE  SubSeq(p, 1, n) \in Seq(S) /\ Len(SubSeq(p, 1, n)) = n /\ \A i \in 1 .. n : SubSeq(p, 1, n)[i] = p[i]
<1>1. Len(p) \in Nat /\ n \in Int /\ \A i \in 1 .. n : p[i] \in S
  BY LenProperties
<1>2. SubSeq(p, 1, n) \in Seq(S)
  BY <1>1, SubSeqProperties
<1>3. Len(SubSeq(p, 1, n)) = IF 1 <= n THEN n - 1 + 1 ELSE 0
  BY <1>1, SubSeqProperties
<1>4. \A i \in 1 .. n - 1 + 1 : SubSeq(p, 1, n)[i] = p[1 + i - 1]
  BY <1>1, SubSeqProperties
<1>5. n - 1 + 1 = n /\ \A i \in 1 .. n : 1 + i - 1 = i
  BY <1>1
<1>6. Len(SubSeq(p, 1, n)) = n
  BY <1>3, <1>5
<1>7. \A i \in 1 .. n : SubSeq(p, 1, n)[i] = p[i]
  BY <1>4, <1>5
<1>. QED
  BY <1>2, <1>6, <1>7

LEMMA SuffixIs ==
  ASSUME NEW S, NEW p \in Seq(S), NEW n \in 0 .. Len(p)
  PROVE  LET w == SubSeq(p, n + 1, Len(p))
         IN  w \in Seq(S) /\ Len(w) = Len(p) - n /\ \A i \in 1 .. Len(p) - n : w[i] = p[n + i]
<1>. DEFINE k == Len(p)  w == SubSeq(p, n + 1, k)
<1>1. k \in Nat /\ n \in Nat /\ n <= k /\ n + 1 \in Int /\ \A i \in n + 1 .. k : p[i] \in S
  BY LenProperties
<1>. HIDE DEF k
<1>2. w \in Seq(S)
  BY <1>1, SubSeqProperties
<1>3. Len(w) = IF n + 1 <= k THEN k - (n + 1) + 1 ELSE 0
  BY <1>1, SubSeqProperties
<1>4. \A i \in 1 .. k - (n + 1) + 1 : w[i] = p[n + 1 + i - 1]
  BY <1>1, SubSeqProperties
<1>5. k - (n + 1) + 1 = k - n /\ \A i \in 1 .. k - n : n + 1 + i - 1 = n + i
  BY <1>1
<1>. HIDE DEF w
<1>6. Len(w) = k - n
  BY <1>1, <1>3
<1>7. \A i \in 1 .. k - n : w[i] = p[n + i]
  BY <1>4, <1>5
<1>. QED
  BY <1>2, <1>6, <1>7 DEF w, k

LEMMA AdjustIs ==
  ASSUME NEW f \in FuncRec, NEW n \in 0 .. Len(f.pending)
  PROVE  LET g == Adjust(f, n)
         IN  /\ g \in FuncRec /\ g.bl = f.bl /\ g.upvalues = f.upvalues
             /\ Len(g.actvar) = Len(f.actvar) + n
             /\ \A i \in 1 .. Len(f.actvar) : g.actvar[i] = f.actvar[i]
             /\ \A i \in 1 .. n : g.actvar[Len(f.actvar) + i] = f.pending[i]
             /\ Len(g.pending) = Len(f.pending) - n
             /\ \A i \in 1 .. Len(f.pending) - n : g.pending[i] = f.pending[n + i]
<1>. DEFINE a == f.actvar  p == f.pending  v == SubSeq(p, 1, n)  w == SubSeq(p, n + 1, Len(p))
            b == a \o v  g == [f EXCEPT !.actvar = b, !.pending = w]
<1>1. a \in Seq(Rec) /\ p \in Seq(Rec) /\ Len(a) \in Nat /\ Len(p) \in Nat /\ n \in Nat /\ n <= Len(p)
  BY FuncTypes
<1>2. Adjust(f, n) = g
  BY DEF Adjust
<1>. HIDE DEF a, p
<1>3. v \in Seq(Rec) /\ Len(v) = n /\ \A i \in 1 .. n : v[i] = p[i]
  BY <1>1, PrefixIs
<1>4. w \in Seq(Rec) /\ Len(w) = Len(p) - n /\ \A i \in 1 .. Len(p) - n : w[i] = p[n + i]
  BY <1>1, SuffixIs
<1>. HIDE DEF v, w
<1>5. b \in Seq(Rec) /\ Len(b) = Len(a) + n
      /\ \A i \in 1 .. Len(a) + n : b[i] = IF i <= Len(a) THEN a[i] ELSE v[i - Len(a)]
  BY <1>1, <1>3, ConcatProperties
<1>6. (\A i \in 1 .. Len(a) : b[i] = a[i]) /\ \A i \in 1 .. n : b[Len(a) + i] = p[i]
  <2>1. \A i \in 1 .. n : Len(a) + i \in 1 .. Len(a) + n /\ ~(Len(a) + i <= Len(a)) /\ Len(a) + i - Len(a) = i
    BY <1>1
  <2>. QED
    BY <1>1, <1>3, <1>5, <2>1
<1>. HIDE DEF b
<1>7. /\ g \in FuncRec /\ g.actvar = b /\ g.pending = w
      /\ g.upvalues = f.upvalues /\ g.bl = f.bl
  BY <1>4, <1>5 DEF FuncRec
<1>. QED
  BY <1>2, <1>4, <1>5, <1>6, <1>7 DEF a, p

LEMMA DeclareIs ==
  ASSUME NEW f \in FuncRec, NEW w \in Seq(Rec)
  PROVE  LET g == Declare(f, w)
         IN  g \in FuncRec /\ g.actvar = f.actvar /\ g.pending = w /\ g.bl = f.bl /\ g.upvalues = f.upvalues
BY DEF Declare, FuncRec

\* A list of declarations of the program.
Named(w) == \A i \in 1 .. Len(w) : w[i].name # Hidden

LEMMA NamedNumbers ==
  ASSUME NEW w \in Seq(Rec), Named(w), \A i \in 1 .. Len(w) : w[i].id # 0
  PROVE  NumbersOK(w)
BY DEF Named, NumbersOK

\* newLocalVar for a list of names keeps the invariant.
LEMMA DeclareOK ==
  ASSUME NEW f \in FuncRec, FuncOK(f), f.pending = <<>>, NEW nx \in Nat, NEW w \in Seq(Rec), Named(w),
         \A i \in 1 .. Len(w) : w[i].id = nx + i, Len(f.actvar) + Len(w) <= LUAI_MAXVARS
  PROVE  LET g == Declare(f, w)
         IN  FuncOK(g) /\ SameShape(f, g) /\ FreshIn(f, g, nx, nx - Len(f.actvar))
<1>. DEFINE g == Declare(f, w)  p == Len(f.actvar)  q == Len(w)
<1>1. g \in FuncRec /\ g.actvar = f.actvar /\ g.pending = w /\ g.bl = f.bl /\ g.upvalues = f.upvalues
  BY DeclareIs
<1>2. p \in Nat /\ q \in Nat /\ Len(f.bl) \in Nat /\ Len(f.pending) = 0
  BY FuncTypes, LenProperties, EmptySeq
<1>. HIDE DEF g
<1>3. ~ForPending(f) /\ ~ForPending(g)
  <2>1. w # <<>> => 1 \in 1 .. q
    BY <1>2, EmptySeq
  <2>2. w # <<>> => w[1].name # Hidden
    BY <2>1 DEF Named
  <2>. QED
    BY <1>1, <2>2 DEF ForPending
<1>4. FuncOK(g)
  <2>1. NumbersOK(w)
    BY <1>2, NamedNumbers
  <2>2. PendingOK(g)
    BY <1>1, <1>3 DEF PendingOK, Named
  <2>3. NumbersOK(g.actvar) /\ BlocksOK(g)
    BY <1>1 DEF FuncOK, BlocksOK
  <2>4. LimitsOK(g)
    BY <1>1 DEF FuncOK, LimitsOK
  <2>. QED
    BY <1>1, <2>1, <2>2, <2>3, <2>4 DEF FuncOK
<1>5. SameShape(f, g)
  BY <1>1, <1>2, <1>3 DEF SameShape
<1>6. FreshIn(f, g, nx, nx - p)
  <2>1. Len(AllVars(f)) = p /\ \A i \in 1 .. p : AllVars(f)[i] = f.actvar[i]
    BY <1>2, ActiveOnly
  <2>2. Len(AllVars(g)) = p + q /\ \A i \in 1 .. p + q : AllVars(g)[i] = IF i <= p THEN f.actvar[i] ELSE w[i - p]
    BY <1>1, VarsOf
  <2>. SUFFICES ASSUME NEW i \in 1 .. p + q
       PROVE  \/ i <= p /\ AllVars(g)[i] = AllVars(f)[i]
              \/ AllVars(g)[i].id > nx /\ AllVars(g)[i].id = nx - p + i
    BY <2>1, <2>2 DEF FreshIn
  <2>. HIDE DEF p, q
  <2>3. CASE i <= p
    <3>1. i \in 1 .. p
      BY <1>2, <2>3
    <3>. QED
      BY <2>1, <2>2, <2>3, <3>1
  <2>4. CASE i > p
    <3>1. i - p \in 1 .. q
      BY <1>2, <2>4
    <3>2. AllVars(g)[i] = w[i - p]
      BY <1>2, <2>2, <2>4
    <3>3. w[i - p].id = nx + (i - p)
      BY <3>1 DEF q
    <3>4. nx + (i - p) > nx /\ nx + (i - p) = nx - p + i
      BY <1>2, <3>1
    <3>. QED
      BY <3>2, <3>3, <3>4
  <2>. QED
    BY <1>2, <2>3, <2>4
<1>. QED
  BY <1>4, <1>5, <1>6 DEF g

LEMMA DeclareSound ==
  ASSUME NEW s, NEW vis, NEW cap, Sound(s, vis, cap), NEW nx \in Nat, Above(s, nx),
         s[Len(s)].pending = <<>>, NEW w \in Seq(Rec), Named(w),
         \A i \in 1 .. Len(w) : w[i].id = nx + i,
         Len(s[Len(s)].actvar) + Len(w) <= LUAI_MAXVARS
  PROVE  Sound(Put(s, Declare(s[Len(s)], w)), vis, cap)
<1>. DEFINE f == s[Len(s)]  g == Declare(f, w)
<1>1. /\ s \in Seq(FuncRec) /\ Len(s) > 0 /\ f \in FuncRec /\ FuncOK(f)
      /\ FuncCloses(f, cap) /\ vis \in Seq(Seq(Rec)) /\ Len(vis) > 0 /\ Distinct(s) /\ ScopesOK(s, vis)
  BY Innermost DEF Sound
<1>2. g \in FuncRec /\ g.actvar = f.actvar /\ g.bl = f.bl /\ g.upvalues = f.upvalues
  BY <1>1, DeclareIs
<1>3. FuncOK(g) /\ SameShape(f, g) /\ FreshIn(f, g, nx, nx - Len(f.actvar))
  BY <1>1, DeclareOK
<1>4. Len(f.actvar) \in Nat /\ nx - Len(f.actvar) \in Int
  BY <1>1, FuncTypes
<1>. HIDE DEF g
<1>5. FuncCloses(g, cap)
  BY <1>1, <1>2 DEF FuncCloses, BlockEnd
<1>6. Extends(f.actvar, g.actvar)
  BY <1>2, <1>4 DEF Extends
<1>7. Distinct(Put(s, g))
  BY <1>1, <1>2, <1>3, <1>4, DistinctPut
<1>8. ScopesOK(Put(s, g), vis)
  BY <1>1, <1>2, <1>3, ScopesPut
<1>9. Sound(Put(s, g), vis, cap)
  BY <1>1, <1>2, <1>3, <1>5, <1>6, <1>7, <1>8, SoundPut
<1>. QED
  BY <1>9 DEF g
-----------------------------------------------------------------------------
(* Scopes begin and grow *)

\* The scopes w2 are those of vis and one more, w.
OneMore(vis, vis2, w) ==
  /\ Len(vis2) = Len(vis) + 1 /\ vis2[Len(vis) + 1] = w
  /\ \A a \in 1 .. Len(vis) : vis2[a] = vis[a]

\* What is known of scopes, with their lengths.
LEMMA ScopesAre ==
  ASSUME NEW s \in Seq(FuncRec), NEW vis \in Seq(Seq(Rec)), NEW lev, NEW lo, NEW blk,
         ScopesAt(s, vis, lev, lo, blk)
  PROVE  \A a \in 1 .. Len(vis) :
           /\ lev[a] \in 1 .. Len(s) /\ lo[a] \in Nat /\ blk[a] \in Nat
           /\ Len(vis[a]) \in Nat /\ ScopeEnd(vis, lo, a) \in Nat
           /\ lo[a] <= ScopeEnd(vis, lo, a)
           /\ ScopeEnd(vis, lo, a) <= Len(s[lev[a]].actvar)
           /\ blk[a] \in 0 .. Len(s[lev[a]].bl)
<1>1. TAKE a \in 1 .. Len(vis)
<1>2. lev[a] \in 1 .. Len(s) /\ lo[a] \in Nat /\ blk[a] \in Nat
  BY DEF ScopesAt
<1>3. Len(vis[a]) \in Nat
  BY LenProperties
<1>4. ScopesAt(s, vis, lev, lo, blk) => ScopeFits(s[lev[a]], vis, lev, lo, blk, a)
  BY DEF ScopesAt
<1>5. ScopeEnd(vis, lo, a) <= Len(s[lev[a]].actvar) /\ (blk[a] # 0 => blk[a] \in 1 .. Len(s[lev[a]].bl))
  BY <1>4 DEF ScopeFits
<1>6. Len(s[lev[a]].bl) \in Nat
  BY <1>2, FuncTypes
<1>7. ScopeEnd(vis, lo, a) \in Nat /\ lo[a] <= ScopeEnd(vis, lo, a)
  BY <1>2, <1>3 DEF ScopeEnd
<1>8. blk[a] \in 0 .. Len(s[lev[a]].bl)
  BY <1>2, <1>5, <1>6
<1>. QED
  BY <1>2, <1>3, <1>5, <1>7, <1>8

\* The last scope is the open one of the innermost function.
LEMMA LastScope ==
  ASSUME NEW s \in Seq(FuncRec), Len(s) > 0, NEW vis \in Seq(Seq(Rec)), NEW lev, NEW lo, NEW blk,
         ScopesAt(s, vis, lev, lo, blk)
  PROVE  /\ Len(vis) \in 1 .. Len(vis) /\ lev[Len(vis)] = Len(s)
         /\ ScopeEnd(vis, lo, Len(vis)) = Len(s[Len(s)].actvar)
<1>. DEFINE L == Len(s)  V == Len(vis)
<1>1. L \in Nat /\ V \in Nat /\ L \in 1 .. L
  BY LenProperties
<1>2. LevelFits(s[L], vis, lev, lo, blk, L)
  BY <1>1 DEF ScopesAt
<1>3. PICK a \in 1 .. V : lev[a] = L /\ ScopeEnd(vis, lo, a) = Len(s[L].actvar)
                          /\ \A b \in a + 1 .. V : lev[b] > L
  BY <1>2 DEF LevelFits
<1>4. V \in 1 .. V /\ lev[V] \in 1 .. L
  <2>1. lev \in [1 .. V -> 1 .. L]
    BY DEF ScopesAt
  <2>. HIDE DEF V, L
  <2>2. V \in 1 .. V
    BY <1>1, <1>3
  <2>. QED
    BY <2>1, <2>2
<1>5. a = V
  <2>. HIDE DEF V, L
  <2>1. a # V => V \in a + 1 .. V
    BY <1>1, <1>3
  <2>2. ~(lev[V] > L)
    BY <1>1, <1>4
  <2>. QED
    BY <1>3, <2>1, <2>2
<1>. QED
  BY <1>3, <1>4, <1>5

\* Scope w begins in function f, which becomes g: after the first o variables,
\* with block q.
NewScope(f, g, w, o, q) ==
  /\ o \in Nat /\ Len(f.actvar) <= o /\ Len(g.actvar) = o + Len(w)
  /\ \A i \in 1 .. Len(f.actvar) : g.actvar[i] = f.actvar[i]
  /\ \A i \in Len(f.actvar) + 1 .. o : g.actvar[i].name = Hidden
  /\ \A i \in 1 .. Len(w) : g.actvar[o + i] = w[i]
  /\ q \in 1 .. Len(g.bl) /\ g.bl[q].first /\ g.bl[q].nActVar = Len(f.actvar)
  /\ Len(f.bl) <= Len(g.bl)
  /\ \A i \in 1 .. Len(f.bl) : g.bl[i] = f.bl[i]
  /\ \A i \in Len(f.bl) + 1 .. Len(g.bl) : g.bl[i].first => i = q
  /\ IF ForPending(f) THEN q = Len(f.bl) ELSE q > Len(f.bl)
  /\ ~ForPending(g)

LEMMA ScopesEnter ==
  ASSUME NEW s \in Seq(FuncRec), Len(s) > 0, NEW g \in FuncRec, NEW w \in Seq(Rec), NEW o, NEW q,
         NewScope(s[Len(s)], g, w, o, q),
         NEW vis \in Seq(Seq(Rec)), NEW vis2 \in Seq(Seq(Rec)), OneMore(vis, vis2, w), ScopesOK(s, vis)
  PROVE  ScopesOK(Put(s, g), vis2)
<1>. DEFINE L == Len(s)  V == Len(vis)  f == s[L]  t == Put(s, g)
<1>1. PICK lev, lo, blk : ScopesAt(s, vis, lev, lo, blk)
  BY DEF ScopesOK
<1>2. /\ t \in Seq(FuncRec) /\ Len(t) = L /\ L \in Nat /\ t[L] = g /\ L \in 1 .. L
      /\ \A l \in 1 .. L : l # L => t[l] = s[l]
  <2>1. /\ t \in Seq(FuncRec) /\ Len(t) = Len(s) /\ Len(s) \in Nat /\ t[Len(s)] = g
        /\ \A l \in 1 .. Len(s) : l # Len(s) => t[l] = s[l]
    BY PutIs
  <2>2. L \in 1 .. L
    BY <2>1
  <2>. QED
    BY <2>1, <2>2
<1>. DEFINE lev2 == [a \in 1 .. V + 1 |-> IF a = V + 1 THEN L ELSE lev[a]]
            lo2 == [a \in 1 .. V + 1 |-> IF a = V + 1 THEN o ELSE lo[a]]
            blk2 == [a \in 1 .. V + 1 |-> IF a = V + 1 THEN q ELSE blk[a]]
<1>3. /\ V \in Nat /\ Len(vis2) = V + 1 /\ vis2[V + 1] = w /\ (\A a \in 1 .. V : vis2[a] = vis[a])
      /\ Len(w) \in Nat
  BY LenProperties DEF OneMore
<1>4. /\ V + 1 \in 1 .. V + 1 /\ (\A a \in 1 .. V : a \in 1 .. V + 1 /\ a # V + 1)
      /\ \A a \in 1 .. V + 1 : a \in 1 .. V \/ a = V + 1
  <2>1. V \in Nat
    BY <1>3
  <2>. HIDE DEF V
  <2>. QED
    BY <2>1
<1>5. /\ lev2[V + 1] = L /\ lo2[V + 1] = o /\ blk2[V + 1] = q
      /\ \A a \in 1 .. V : lev2[a] = lev[a] /\ lo2[a] = lo[a] /\ blk2[a] = blk[a]
  BY <1>4
<1>6. f \in FuncRec /\ Len(f.actvar) \in Nat /\ Len(f.bl) \in Nat /\ Len(g.bl) \in Nat /\ o \in Nat /\ q \in Nat
  BY <1>2, FuncTypes DEF NewScope
<1>7. \A a \in 1 .. V :
           /\ lev[a] \in 1 .. L /\ lo[a] \in Nat /\ blk[a] \in Nat
           /\ ScopeEnd(vis, lo, a) \in Nat
           /\ ScopeEnd(vis, lo, a) <= Len(s[lev[a]].actvar)
           /\ blk[a] \in 0 .. Len(s[lev[a]].bl)
  BY <1>1, ScopesAre
<1>8. V \in 1 .. V /\ lev[V] = L /\ ScopeEnd(vis, lo, V) = Len(f.actvar)
  BY <1>1, LastScope
<1>9. NewScope(f, g, w, o, q)
  OBVIOUS
<1>10. lev2 \in [1 .. V + 1 -> 1 .. L] /\ lo2 \in [1 .. V + 1 -> Nat] /\ blk2 \in [1 .. V + 1 -> Nat]
  BY <1>2, <1>4, <1>6, <1>7
<1>11. ScopesAt(s, vis, lev, lo, blk)
  BY <1>1
<1>. HIDE DEF f, t, lev2, lo2, blk2, L, V
<1>12. ScopeEnd(vis2, lo2, V + 1) = o + Len(w) /\ \A a \in 1 .. V : ScopeEnd(vis2, lo2, a) = ScopeEnd(vis, lo, a)
  BY <1>3, <1>5 DEF ScopeEnd
<1>13. ASSUME NEW a \in 1 .. V, lev[a] = L PROVE blk[a] < q /\ ScopeEnd(vis, lo, a) <= o
  <2>1. blk[a] \in 0 .. Len(f.bl) /\ ScopeEnd(vis, lo, a) <= Len(f.actvar)
    BY <1>7, <1>13 DEF f
  <2>2. ForPending(f) => blk[a] # q
    <3>1. LevelFits(f, vis, lev, lo, blk, L)
      BY <1>2, <1>11 DEF ScopesAt, L, f
    <3>2. ForPending(f) => q = Len(f.bl) /\ f.bl[q].first /\ q \in 1 .. Len(f.bl)
      BY <1>6, <1>9, SMTT(20) DEF NewScope
    <3>. QED
      BY <1>13, <3>1, <3>2 DEF LevelFits, V
  <2>3. blk[a] < q
    BY <1>6, <1>9, <2>1, <2>2 DEF NewScope
  <2>4. ScopeEnd(vis, lo, a) <= o
    BY <1>6, <1>7, <1>9, <2>1 DEF NewScope
  <2>. QED
    BY <2>3, <2>4
<1>14. InOrder(vis2, lev2, lo2, blk2)
  <2>1. ASSUME NEW a \in 1 .. V + 1, NEW b \in 1 .. V + 1, a < b
        PROVE  /\ lev2[a] <= lev2[b]
               /\ lev2[a] = lev2[b] => ScopeEnd(vis2, lo2, a) <= lo2[b] /\ blk2[a] < blk2[b]
    <3>1. a \in 1 .. V
      BY <1>3, <2>1
    <3>2. CASE b \in 1 .. V
      <4>1. /\ lev[a] <= lev[b]
            /\ lev[a] = lev[b] => ScopeEnd(vis, lo, a) <= lo[b] /\ blk[a] < blk[b]
        BY <1>11, <2>1, <3>1, <3>2 DEF ScopesAt, InOrder, V
      <4>. QED
        BY <1>5, <1>12, <3>1, <3>2, <4>1
    <3>3. CASE b = V + 1
      <4>1. lev[a] <= L
        BY <1>2, <1>7, <3>1
      <4>. QED
        BY <1>5, <1>12, <1>13, <3>1, <3>3, <4>1
    <3>. QED
      BY <1>4, <3>2, <3>3
  <2>. QED
    BY <1>3, <2>1 DEF InOrder
<1>15. ASSUME NEW a \in 1 .. V + 1 PROVE ScopeFits(t[lev2[a]], vis2, lev2, lo2, blk2, a)
  <2>1. CASE a = V + 1
    <3>1. t[lev2[a]] = g /\ lo2[a] = o /\ blk2[a] = q /\ vis2[a] = w /\ ScopeEnd(vis2, lo2, a) = o + Len(w)
      BY <1>2, <1>3, <1>5, <1>12, <2>1
    <3>2. a > 1 /\ a - 1 = V /\ lev2[a - 1] = lev2[a] /\ ScopeEnd(vis2, lo2, a - 1) = Len(f.actvar)
      BY <1>3, <1>5, <1>8, <1>12, <2>1
    <3>3. Len(g.actvar) = o + Len(w) /\ Len(g.actvar) \in Nat
      BY <1>3, <1>6, <1>9 DEF NewScope
    <3>. QED
      BY <1>9, <3>1, <3>2, <3>3 DEF NewScope, ScopeFits
  <2>2. CASE a \in 1 .. V
    <3>. DEFINE e == s[lev[a]]  h == t[lev[a]]
    <3>1. ScopeFits(e, vis, lev, lo, blk, a)
      BY <1>11, <2>2 DEF ScopesAt, V
    <3>2. lev[a] \in 1 .. L /\ lo[a] \in Nat /\ Len(vis[a]) \in Nat
      <4>1. vis[a] \in Seq(Rec)
        BY <2>2 DEF V
      <4>. QED
        BY <1>7, <2>2, <4>1, LenProperties
    <3>3. lev[a] # L => h = e
      BY <1>2, <3>2
    <3>4. lev[a] = L => h = g /\ e = f
      BY <1>2 DEF f
    <3>5. /\ Len(e.actvar) <= Len(h.actvar) /\ Len(e.bl) <= Len(h.bl)
          /\ \A i \in 1 .. Len(e.actvar) : h.actvar[i] = e.actvar[i]
          /\ \A i \in 1 .. Len(e.bl) : h.bl[i] = e.bl[i]
      <4>1. e \in FuncRec /\ Len(e.actvar) \in Nat /\ Len(e.bl) \in Nat
        BY <3>2, FuncTypes DEF L
      <4>2. Len(f.actvar) <= Len(g.actvar)
        BY <1>3, <1>6, <1>9 DEF NewScope
      <4>3. /\ Len(f.bl) <= Len(g.bl) /\ (\A i \in 1 .. Len(f.actvar) : g.actvar[i] = f.actvar[i])
            /\ \A i \in 1 .. Len(f.bl) : g.bl[i] = f.bl[i]
        BY <1>9 DEF NewScope
      <4>. HIDE DEF e, h
      <4>4. CASE lev[a] = L
        BY <3>4, <4>2, <4>3, <4>4
      <4>5. CASE lev[a] # L
        BY <3>3, <4>1, <4>5
      <4>. QED
        BY <4>4, <4>5
    <3>6. /\ Len(e.actvar) \in Nat /\ Len(e.bl) \in Nat /\ Len(h.actvar) \in Nat /\ Len(h.bl) \in Nat
      <4>1. e \in FuncRec /\ h \in FuncRec
        BY <1>2, <3>2 DEF L
      <4>. QED
        BY <4>1, FuncTypes
    <3>. HIDE DEF e, h
    <3>7. ScopeEnd(vis, lo, a) = lo[a] + Len(vis[a]) /\ ScopeEnd(vis, lo, a) <= Len(e.actvar)
      BY <3>1 DEF ScopeFits, ScopeEnd
    <3>8. \A i \in 1 .. Len(vis[a]) : lo[a] + i \in 1 .. Len(e.actvar)
      <4>. DEFINE d == lo[a]  n == Len(vis[a])  x == Len(e.actvar)
      <4>1. d \in Nat /\ n \in Nat /\ x \in Nat /\ d + n <= x
        BY <3>2, <3>6, <3>7
      <4>. HIDE DEF d, n, x
      <4>2. \A i \in 1 .. n : d + i \in 1 .. x
        BY <4>1
      <4>. QED
        BY <4>2 DEF d, n, x
    <3>9. blk[a] # 0 => a > 1 /\ a - 1 \in 1 .. V
      BY <1>3, <2>2, <3>1 DEF ScopeFits
    <3>10. /\ lev2[a] = lev[a] /\ lo2[a] = lo[a] /\ blk2[a] = blk[a] /\ vis2[a] = vis[a]
           /\ ScopeEnd(vis2, lo2, a) = ScopeEnd(vis, lo, a)
           /\ blk[a] # 0 => lev2[a - 1] = lev[a - 1] /\ ScopeEnd(vis2, lo2, a - 1) = ScopeEnd(vis, lo, a - 1)
      BY <1>3, <1>5, <1>12, <2>2, <3>9
    <3>11. ScopeEnd(vis, lo, a) <= Len(h.actvar)
      <4>. DEFINE x == ScopeEnd(vis, lo, a)  y == Len(e.actvar)  z == Len(h.actvar)
      <4>1. x <= y /\ y <= z /\ x \in Int /\ y \in Nat /\ z \in Nat
        BY <3>2, <3>5, <3>6, <3>7
      <4>. HIDE DEF x, y, z
      <4>2. x <= z
        BY <4>1
      <4>. QED
        BY <4>2 DEF x, z
    <3>12. \A i \in 1 .. Len(vis[a]) : h.actvar[lo[a] + i] = vis[a][i]
      BY <3>1, <3>5, <3>8 DEF ScopeFits
    <3>13. blk[a] # 0 => blk[a] \in 1 .. Len(h.bl) /\ blk[a] \in 1 .. Len(e.bl)
      BY <3>1, <3>5, <3>6 DEF ScopeFits
    <3>14. blk[a] # 0 =>
             /\ blk[a] \in 1 .. Len(h.bl) /\ h.bl[blk[a]].first
             /\ a > 1 /\ lev[a - 1] = lev[a]
             /\ ScopeEnd(vis, lo, a - 1) = h.bl[blk[a]].nActVar
      BY <3>1, <3>5, <3>13 DEF ScopeFits
    <3>15. ScopeFits(h, vis2, lev2, lo2, blk2, a)
      BY <3>10, <3>11, <3>12, <3>14 DEF ScopeFits
    <3>. QED
      BY <3>10, <3>15 DEF h
  <2>. QED
    BY <1>4, <2>1, <2>2
<1>16. ASSUME NEW l \in 1 .. L, l # L PROVE LevelFits(t[l], vis2, lev2, lo2, blk2, l)
  <2>. DEFINE e == s[l]
  <2>1. t[l] = e /\ LevelFits(e, vis, lev, lo, blk, l)
    BY <1>2, <1>11, <1>16 DEF ScopesAt, L
  <2>. HIDE DEF e
  <2>2. \A i \in 1 .. Len(e.actvar) : e.actvar[i].name # Hidden =>
          \E a \in 1 .. V + 1 : lev2[a] = l /\ i \in lo2[a] + 1 .. ScopeEnd(vis2, lo2, a)
    BY <1>4, <1>5, <1>12, <2>1 DEF LevelFits, V
  <2>3. \E a \in 1 .. V + 1 : /\ lev2[a] = l /\ ScopeEnd(vis2, lo2, a) = Len(e.actvar)
                              /\ \A b \in a + 1 .. V + 1 : lev2[b] > l
    <3>1. PICK a \in 1 .. V : /\ lev[a] = l /\ ScopeEnd(vis, lo, a) = Len(e.actvar)
                              /\ \A b \in a + 1 .. V : lev[b] > l
      BY <2>1 DEF LevelFits, V
    <3>2. \A b \in a + 1 .. V + 1 : b = V + 1 \/ (b \in a + 1 .. V /\ b \in 1 .. V)
      BY <1>3
    <3>3. L > l
      BY <1>2, <1>16
    <3>. QED
      BY <1>4, <1>5, <1>12, <3>1, <3>2, <3>3
  <2>4. \A i \in 1 .. Len(e.bl) : e.bl[i].first =>
          IF i = Len(e.bl) /\ ForPending(e)
          THEN \A a \in 1 .. V + 1 : lev2[a] = l => blk2[a] # i
          ELSE \E a \in 1 .. V + 1 : lev2[a] = l /\ blk2[a] = i
    <3>. SUFFICES ASSUME NEW i \in 1 .. Len(e.bl), e.bl[i].first
                  PROVE  IF i = Len(e.bl) /\ ForPending(e)
                         THEN \A a \in 1 .. V + 1 : lev2[a] = l => blk2[a] # i
                         ELSE \E a \in 1 .. V + 1 : lev2[a] = l /\ blk2[a] = i
      OBVIOUS
    <3>1. IF i = Len(e.bl) /\ ForPending(e)
          THEN \A a \in 1 .. V : lev[a] = l => blk[a] # i
          ELSE \E a \in 1 .. V : lev[a] = l /\ blk[a] = i
      BY <2>1 DEF LevelFits, V
    <3>2. CASE i = Len(e.bl) /\ ForPending(e)
      BY <1>4, <1>5, <1>16, <3>1, <3>2
    <3>3. CASE ~(i = Len(e.bl) /\ ForPending(e))
      BY <1>4, <1>5, <3>1, <3>3
    <3>. QED
      BY <3>2, <3>3
  <2>. QED
    BY <1>3, <2>1, <2>2, <2>3, <2>4 DEF LevelFits
<1>17. LevelFits(g, vis2, lev2, lo2, blk2, L)
  <2>1. LevelFits(f, vis, lev, lo, blk, L)
    BY <1>2, <1>11 DEF ScopesAt, L, f
  <2>2. ASSUME NEW i \in 1 .. Len(g.actvar), g.actvar[i].name # Hidden
        PROVE  \E a \in 1 .. V + 1 : lev2[a] = L /\ i \in lo2[a] + 1 .. ScopeEnd(vis2, lo2, a)
    <3>1. i \in 1 .. Len(f.actvar) \/ i \in Len(f.actvar) + 1 .. o \/ i \in o + 1 .. o + Len(w)
      BY <1>3, <1>6, <1>9 DEF NewScope
    <3>2. CASE i \in 1 .. Len(f.actvar)
      <4>1. f.actvar[i].name # Hidden
        BY <1>9, <2>2, <3>2 DEF NewScope
      <4>2. PICK a \in 1 .. V : lev[a] = L /\ i \in lo[a] + 1 .. ScopeEnd(vis, lo, a)
        BY <2>1, <3>2, <4>1 DEF LevelFits, V
      <4>. QED
        BY <1>4, <1>5, <1>12, <4>2
    <3>3. CASE i \in Len(f.actvar) + 1 .. o
      BY <1>9, <2>2, <3>3 DEF NewScope
    <3>4. CASE i \in o + 1 .. o + Len(w)
      BY <1>4, <1>5, <1>12, <3>4
    <3>. QED
      BY <3>1, <3>2, <3>3, <3>4
  <2>3. \E a \in 1 .. V + 1 : /\ lev2[a] = L /\ ScopeEnd(vis2, lo2, a) = Len(g.actvar)
                              /\ \A b \in a + 1 .. V + 1 : lev2[b] > L
    <3>1. \A b \in V + 1 + 1 .. V + 1 : FALSE
      BY <1>3
    <3>2. ScopeEnd(vis2, lo2, V + 1) = Len(g.actvar)
      BY <1>9, <1>12 DEF NewScope
    <3>. QED
      BY <1>4, <1>5, <3>1, <3>2
  <2>4. ASSUME NEW i \in 1 .. Len(g.bl), g.bl[i].first
        PROVE  \E a \in 1 .. V + 1 : lev2[a] = L /\ blk2[a] = i
    <3>1. i \in 1 .. Len(f.bl) \/ i \in Len(f.bl) + 1 .. Len(g.bl)
      BY <1>6
    <3>2. CASE i = q
      BY <1>4, <1>5, <3>2
    <3>3. CASE i \in Len(f.bl) + 1 .. Len(g.bl)
      BY <1>9, <2>4, <3>2, <3>3 DEF NewScope
    <3>4. CASE i \in 1 .. Len(f.bl) /\ i # q
      <4>1. f.bl[i].first /\ ~(i = Len(f.bl) /\ ForPending(f))
        BY <1>9, <2>4, <3>4 DEF NewScope
      <4>2. PICK a \in 1 .. V : lev[a] = L /\ blk[a] = i
        BY <2>1, <3>4, <4>1 DEF LevelFits, V
      <4>. QED
        BY <1>4, <1>5, <4>2
    <3>. QED
      BY <3>1, <3>2, <3>3, <3>4
  <2>5. ~ForPending(g)
    BY <1>9 DEF NewScope
  <2>. QED
    BY <1>3, <2>2, <2>3, <2>4, <2>5 DEF LevelFits
<1>18. \A l \in 1 .. L : LevelFits(t[l], vis2, lev2, lo2, blk2, l)
  BY <1>2, <1>16, <1>17
<1>19. ScopesAt(t, vis2, lev2, lo2, blk2)
  BY <1>2, <1>3, <1>10, <1>14, <1>15, <1>18 DEF ScopesAt
<1>20. ScopesOK(t, vis2)
  BY <1>19 DEF ScopesOK
<1>. QED
  BY <1>20 DEF t

\* The last scope goes on with w, as the variables of function f do in g.
Grown(vis, vis2, w) ==
  LET V == Len(vis)
  IN  /\ Len(vis2) = V /\ \A a \in 1 .. V : a # V => vis2[a] = vis[a]
      /\ Len(vis2[V]) = Len(vis[V]) + Len(w)
      /\ \A i \in 1 .. Len(vis[V]) : vis2[V][i] = vis[V][i]
      /\ \A i \in 1 .. Len(w) : vis2[V][Len(vis[V]) + i] = w[i]
VarsGrown(f, g, w) ==
  /\ Len(g.actvar) = Len(f.actvar) + Len(w)
  /\ \A i \in 1 .. Len(f.actvar) : g.actvar[i] = f.actvar[i]
  /\ \A i \in 1 .. Len(w) : g.actvar[Len(f.actvar) + i] = w[i]
  /\ g.bl = f.bl
  /\ ~ForPending(f) /\ ~ForPending(g)

LEMMA ScopesGrow ==
  ASSUME NEW s \in Seq(FuncRec), Len(s) > 0, NEW g \in FuncRec, NEW w \in Seq(Rec),
         VarsGrown(s[Len(s)], g, w),
         NEW vis \in Seq(Seq(Rec)), NEW vis2 \in Seq(Seq(Rec)), Grown(vis, vis2, w), ScopesOK(s, vis)
  PROVE  ScopesOK(Put(s, g), vis2)
<1>. DEFINE L == Len(s)  V == Len(vis)  f == s[L]  t == Put(s, g)  p == Len(f.actvar)  n == Len(vis[V])
<1>1. PICK lev, lo, blk : ScopesAt(s, vis, lev, lo, blk)
  BY DEF ScopesOK
<1>2. /\ t \in Seq(FuncRec) /\ Len(t) = L /\ L \in Nat /\ t[L] = g /\ L \in 1 .. L
      /\ \A l \in 1 .. L : l # L => t[l] = s[l]
  <2>1. /\ t \in Seq(FuncRec) /\ Len(t) = Len(s) /\ Len(s) \in Nat /\ t[Len(s)] = g
        /\ \A l \in 1 .. Len(s) : l # Len(s) => t[l] = s[l]
    BY PutIs
  <2>2. L \in 1 .. L
    BY <2>1
  <2>. QED
    BY <2>1, <2>2
<1>3. V \in 1 .. V /\ V \in Nat /\ lev[V] = L /\ ScopeEnd(vis, lo, V) = p
  BY <1>1, LastScope, LenProperties
<1>4. \A a \in 1 .. V :
           /\ lev[a] \in 1 .. L /\ lo[a] \in Nat /\ blk[a] \in Nat
           /\ Len(vis[a]) \in Nat /\ ScopeEnd(vis, lo, a) \in Nat
           /\ ScopeEnd(vis, lo, a) <= Len(s[lev[a]].actvar)
  BY <1>1, ScopesAre
<1>5. f \in FuncRec /\ p \in Nat /\ Len(w) \in Nat /\ n \in Nat
  BY <1>2, <1>3, <1>4, FuncTypes, LenProperties
<1>6. VarsGrown(f, g, w)
  OBVIOUS
<1>7. /\ Len(vis2) = V /\ (\A a \in 1 .. V : a # V => vis2[a] = vis[a]) /\ Len(vis2[V]) = n + Len(w)
      /\ (\A i \in 1 .. n : vis2[V][i] = vis[V][i]) /\ \A i \in 1 .. Len(w) : vis2[V][n + i] = w[i]
  BY DEF Grown
<1>8. ScopesAt(s, vis, lev, lo, blk)
  BY <1>1
<1>9. lo[V] + n = p /\ lo[V] \in Nat
  BY <1>3, <1>4 DEF ScopeEnd
<1>. HIDE DEF f, t, L, V, p, n
<1>10. /\ \A a \in 1 .. V : a # V => ScopeEnd(vis2, lo, a) = ScopeEnd(vis, lo, a)
       /\ ScopeEnd(vis2, lo, V) = p + Len(w)
  <2>1. \A a \in 1 .. V : a # V => ScopeEnd(vis2, lo, a) = ScopeEnd(vis, lo, a)
    BY <1>7 DEF ScopeEnd
  <2>2. ScopeEnd(vis2, lo, V) = lo[V] + (n + Len(w))
    BY <1>7 DEF ScopeEnd
  <2>3. lo[V] + (n + Len(w)) = p + Len(w)
    <3>. DEFINE x == lo[V]  y == Len(w)
    <3>1. x \in Nat /\ y \in Nat /\ n \in Nat /\ x + n = p
      BY <1>5, <1>9
    <3>. HIDE DEF x, y
    <3>2. x + (n + y) = p + y
      BY <3>1
    <3>. QED
      BY <3>2 DEF x, y
  <2>. QED
    BY <2>1, <2>2, <2>3
<1>11. InOrder(vis2, lev, lo, blk)
  <2>1. ASSUME NEW a \in 1 .. V, NEW b \in 1 .. V, a < b
        PROVE  /\ lev[a] <= lev[b]
               /\ lev[a] = lev[b] => ScopeEnd(vis2, lo, a) <= lo[b] /\ blk[a] < blk[b]
    <3>1. a # V
      BY <1>3, <2>1
    <3>. QED
      BY <1>8, <1>10, <2>1, <3>1 DEF ScopesAt, InOrder, V
  <2>. QED
    BY <1>7, <2>1 DEF InOrder
<1>12. Len(g.actvar) = p + Len(w) /\ g.bl = f.bl /\ ~ForPending(f) /\ ~ForPending(g)
       /\ (\A i \in 1 .. p : g.actvar[i] = f.actvar[i]) /\ \A i \in 1 .. Len(w) : g.actvar[p + i] = w[i]
  BY <1>6 DEF VarsGrown, p
<1>13. ASSUME NEW a \in 1 .. V PROVE ScopeFits(t[lev[a]], vis2, lev, lo, blk, a)
  <2>. DEFINE e == s[lev[a]]  h == t[lev[a]]
  <2>1. ScopeFits(e, vis, lev, lo, blk, a)
    BY <1>8 DEF ScopesAt, V
  <2>2. (lev[a] # L => h = e) /\ (lev[a] = L => h = g /\ e = f)
    BY <1>2, <1>4 DEF f
  <2>3. e \in FuncRec /\ Len(e.actvar) \in Nat
    BY <1>4, FuncTypes DEF L
  <2>. HIDE DEF e, h
  <2>4. h.bl = e.bl /\ Len(e.actvar) <= Len(h.actvar)
        /\ \A i \in 1 .. Len(e.actvar) : h.actvar[i] = e.actvar[i]
    <3>1. CASE lev[a] = L
      BY <1>5, <1>12, <2>2, <3>1 DEF p
    <3>2. CASE lev[a] # L
      BY <2>2, <2>3, <3>2
    <3>. QED
      BY <3>1, <3>2
  <2>5. blk[a] # 0 => a - 1 \in 1 .. V /\ a - 1 # V
    BY <1>3, <2>1 DEF ScopeFits
  <2>6. blk[a] # 0 =>
             /\ blk[a] \in 1 .. Len(h.bl) /\ h.bl[blk[a]].first
             /\ a > 1 /\ lev[a - 1] = lev[a]
             /\ ScopeEnd(vis2, lo, a - 1) = h.bl[blk[a]].nActVar
    BY <1>10, <2>1, <2>4, <2>5 DEF ScopeFits
  <2>. DEFINE d == lo[a]  k == Len(vis[a])  x == Len(e.actvar)
  <2>7. d \in Nat /\ k \in Nat /\ x \in Nat /\ d + k <= x
    BY <1>4, <2>1, <2>3 DEF ScopeFits, ScopeEnd
  <2>8. \A i \in 1 .. k : h.actvar[d + i] = vis[a][i]
    <3>1. \A i \in 1 .. k : e.actvar[d + i] = vis[a][i]
      BY <2>1 DEF ScopeFits
    <3>2. \A i \in 1 .. x : h.actvar[i] = e.actvar[i]
      BY <2>4
    <3>. HIDE DEF d, k, x
    <3>3. \A i \in 1 .. k : d + i \in 1 .. x
      BY <2>7
    <3>. QED
      BY <3>1, <3>2, <3>3
  <2>9. CASE a = V
    <3>1. h = g /\ d = lo[V] /\ k = n
      BY <1>3, <2>2, <2>9 DEF n
    <3>2. ASSUME NEW i \in 1 .. Len(vis2[V]) PROVE g.actvar[d + i] = vis2[V][i]
      <4>1. CASE i \in 1 .. n
        BY <1>7, <2>8, <2>9, <3>1, <4>1
      <4>2. CASE i \in n + 1 .. n + Len(w)
        <5>1. i - n \in 1 .. Len(w) /\ n + (i - n) = i
          BY <1>5, <4>2
        <5>2. d + i = p + (i - n)
          <6>1. d \in Nat /\ n \in Nat /\ d + n = p /\ i \in Int
            BY <1>5, <1>9, <3>1, <4>2
          <6>. HIDE DEF d
          <6>. QED
            BY <6>1
        <5>3. vis2[V][i] = w[i - n] /\ g.actvar[p + (i - n)] = w[i - n]
          BY <1>7, <1>12, <5>1
        <5>. QED
          BY <5>2, <5>3
      <4>3. i \in 1 .. n \/ i \in n + 1 .. n + Len(w)
        BY <1>5, <1>7
      <4>. QED
        BY <4>1, <4>2, <4>3
    <3>3. ScopeEnd(vis2, lo, a) <= Len(h.actvar)
      BY <1>5, <1>10, <1>12, <2>9, <3>1
    <3>4. \A i \in 1 .. Len(vis2[a]) : h.actvar[lo[a] + i] = vis2[a][i]
      BY <2>9, <3>1, <3>2
    <3>. QED
      BY <2>6, <3>3, <3>4 DEF ScopeFits, h
  <2>10. CASE a # V
    <3>1. vis2[a] = vis[a] /\ ScopeEnd(vis2, lo, a) = ScopeEnd(vis, lo, a)
      BY <1>7, <1>10, <2>10
    <3>2. ScopeEnd(vis, lo, a) <= Len(h.actvar)
      <4>1. h \in FuncRec /\ Len(h.actvar) \in Nat
        BY <1>2, <1>4, FuncTypes DEF h
      <4>. QED
        BY <1>4, <2>1, <2>3, <2>4, <4>1 DEF ScopeFits
    <3>. QED
      BY <2>6, <2>8, <3>1, <3>2 DEF ScopeFits, h
  <2>. QED
    BY <2>9, <2>10
<1>14. ASSUME NEW l \in 1 .. L, l # L PROVE LevelFits(t[l], vis2, lev, lo, blk, l)
  <2>1. t[l] = s[l] /\ LevelFits(s[l], vis, lev, lo, blk, l)
    BY <1>2, <1>8, <1>14 DEF ScopesAt, L
  <2>2. \A a \in 1 .. V : lev[a] = l => ScopeEnd(vis2, lo, a) = ScopeEnd(vis, lo, a)
    BY <1>3, <1>10, <1>14
  <2>. QED
    BY <1>7, <2>1, <2>2, SMTT(20) DEF LevelFits, V
<1>15. LevelFits(g, vis2, lev, lo, blk, L)
  <2>1. LevelFits(f, vis, lev, lo, blk, L)
    BY <1>2, <1>8 DEF ScopesAt, L, f
  <2>2. ASSUME NEW i \in 1 .. Len(g.actvar), g.actvar[i].name # Hidden
        PROVE  \E a \in 1 .. V : lev[a] = L /\ i \in lo[a] + 1 .. ScopeEnd(vis2, lo, a)
    <3>1. CASE i \in 1 .. p
      <4>1. PICK a \in 1 .. V : lev[a] = L /\ i \in lo[a] + 1 .. ScopeEnd(vis, lo, a)
        BY <1>12, <2>1, <2>2, <3>1 DEF LevelFits, V, p
      <4>. DEFINE x == lo[a]  y == ScopeEnd(vis, lo, a)  z == ScopeEnd(vis2, lo, a)
      <4>2. x \in Nat /\ y \in Nat /\ z \in Nat /\ y <= z
        <5>1. a # V => z = y
          BY <1>10
        <5>2. a = V => z = p + Len(w) /\ y = p
          BY <1>3, <1>10
        <5>. QED
          BY <1>4, <1>5, <5>1, <5>2
      <4>3. i \in x + 1 .. y
        BY <4>1
      <4>. HIDE DEF x, y, z
      <4>4. i \in x + 1 .. z
        BY <4>2, <4>3
      <4>. QED
        BY <4>1, <4>4 DEF x, z
    <3>2. CASE i \in p + 1 .. p + Len(w)
      <4>1. i \in lo[V] + 1 .. ScopeEnd(vis2, lo, V)
        BY <1>5, <1>9, <1>10, <3>2
      <4>. QED
        BY <1>3, <4>1
    <3>3. i \in 1 .. p \/ i \in p + 1 .. p + Len(w)
      BY <1>5, <1>12
    <3>. QED
      BY <3>1, <3>2, <3>3
  <2>3. \E a \in 1 .. V : /\ lev[a] = L /\ ScopeEnd(vis2, lo, a) = Len(g.actvar)
                          /\ \A b \in a + 1 .. V : lev[b] > L
    <3>1. \A b \in V + 1 .. V : FALSE
      BY <1>3
    <3>. QED
      BY <1>3, <1>10, <1>12, <3>1
  <2>4. \A i \in 1 .. Len(g.bl) : g.bl[i].first => \E a \in 1 .. V : lev[a] = L /\ blk[a] = i
    BY <1>12, <2>1 DEF LevelFits, V
  <2>. QED
    BY <1>7, <1>12, <2>2, <2>3, <2>4 DEF LevelFits
<1>16. \A l \in 1 .. L : LevelFits(t[l], vis2, lev, lo, blk, l)
  BY <1>2, <1>14, <1>15
<1>17. lev \in [1 .. V -> 1 .. L] /\ lo \in [1 .. V -> Nat] /\ blk \in [1 .. V -> Nat]
  BY <1>8 DEF ScopesAt, L, V
<1>18. ScopesAt(t, vis2, lev, lo, blk)
  BY <1>2, <1>7, <1>11, <1>13, <1>16, <1>17 DEF ScopesAt
<1>19. ScopesOK(t, vis2)
  BY <1>18 DEF ScopesOK
<1>. QED
  BY <1>19 DEF t
-----------------------------------------------------------------------------
(* Local variables become active *)

LEMMA AdjustKeeps ==
  ASSUME NEW f \in FuncRec, NEW n \in 0 .. Len(f.pending)
  PROVE  KeepsVars(f, Adjust(f, n))
<1>. DEFINE g == Adjust(f, n)  p == Len(f.actvar)  q == Len(f.pending)
<1>1. /\ g \in FuncRec /\ Len(g.actvar) = p + n /\ Len(g.pending) = q - n
      /\ \A i \in 1 .. p : g.actvar[i] = f.actvar[i]
      /\ \A i \in 1 .. n : g.actvar[p + i] = f.pending[i]
      /\ \A i \in 1 .. q - n : g.pending[i] = f.pending[n + i]
  BY AdjustIs
<1>2. p \in Nat /\ q \in Nat /\ n \in Nat /\ n <= q
  BY FuncTypes
<1>3. /\ Len(AllVars(f)) = p + q
      /\ \A i \in 1 .. Len(AllVars(f)) :
              AllVars(f)[i] = IF i <= p THEN f.actvar[i] ELSE f.pending[i - p]
  BY VarsOf
<1>. HIDE DEF g
<1>4. /\ Len(AllVars(g)) = p + n + (q - n)
      /\ \A i \in 1 .. Len(AllVars(g)) :
              AllVars(g)[i] = IF i <= p + n THEN g.actvar[i] ELSE g.pending[i - (p + n)]
  BY <1>1, VarsOf
<1>. HIDE DEF p, q
<1>5. Len(AllVars(g)) = p + q
  BY <1>2, <1>4
<1>6. ASSUME NEW i \in 1 .. p + q PROVE AllVars(g)[i] = AllVars(f)[i]
  <2>1. CASE i \in 1 .. p
    <3>1. i <= p + n /\ i <= p
      BY <1>2, <2>1
    <3>. QED
      BY <1>1, <1>3, <1>4, <1>5, <2>1, <3>1
  <2>2. CASE i \in p + 1 .. p + n
    <3>1. i - p \in 1 .. n /\ p + (i - p) = i /\ i <= p + n /\ ~(i <= p)
      BY <1>2, <2>2
    <3>. QED
      BY <1>1, <1>3, <1>4, <1>5, <3>1
  <2>3. CASE i \in p + n + 1 .. p + q
    <3>1. i - (p + n) \in 1 .. q - n /\ n + (i - (p + n)) = i - p /\ ~(i <= p + n) /\ ~(i <= p)
      <4>1. p \in Nat /\ n \in Nat /\ q \in Nat /\ i \in Int /\ p + n + 1 <= i /\ i <= p + q
        BY <1>2, <2>3
      <4>. QED
        BY <4>1
    <3>2. AllVars(g)[i] = g.pending[i - (p + n)]
      BY <1>4, <1>5, <3>1
    <3>3. AllVars(f)[i] = f.pending[i - p]
      BY <1>3, <3>1
    <3>4. g.pending[i - (p + n)] = f.pending[n + (i - (p + n))]
      BY <1>1, <3>1
    <3>. QED
      BY <3>1, <3>2, <3>3, <3>4
  <2>. QED
    BY <1>2, <2>1, <2>2, <2>3
<1>7. Len(AllVars(g)) <= Len(AllVars(f))
  BY <1>2, <1>3, <1>5
<1>. QED
  BY <1>5, <1>6, <1>7 DEF KeepsVars, g

\* No closure uses a variable that is pending.
LEMMA PendingUnused ==
  ASSUME NEW s, NEW vis, NEW cap, Sound(s, vis, cap), NEW i \in 1 .. Len(s[Len(s)].pending)
  PROVE  s[Len(s)].pending[i].id \notin cap
<1>. DEFINE L == Len(s)  f == s[L]  p == Len(f.actvar)
<1>1. /\ s \in Seq(FuncRec) /\ L \in 1 .. L /\ f \in FuncRec /\ \A l \in 1 .. L : s[l] \in FuncRec
      /\ Distinct(s) /\ CapturedOK(s, cap)
  BY Innermost DEF Sound
<1>2. p \in Nat /\ Len(f.pending) \in Nat
  BY <1>1, FuncTypes
<1>3. /\ Len(AllVars(f)) = p + Len(f.pending)
      /\ \A j \in 1 .. Len(AllVars(f)) :
              AllVars(f)[j] = IF j <= p THEN f.actvar[j] ELSE f.pending[j - p]
  BY <1>1, VarsOf
<1>. DEFINE c == f.pending[i].id  j == p + i
<1>. SUFFICES ASSUME c \in cap PROVE FALSE
  OBVIOUS
<1>4. PICK l \in 1 .. L : c # 0 /\ ActiveIn(s, l, c)
  BY <1>1 DEF CapturedOK
<1>5. PICK k \in 1 .. Len(s[l].actvar) : s[l].actvar[k].id = c
  BY <1>4 DEF ActiveIn
<1>6. k \in 1 .. Len(AllVars(s[l])) /\ AllVars(s[l])[k] = s[l].actvar[k]
  <2>1. s[l] \in FuncRec
    BY <1>1
  <2>. DEFINE h == s[l]  x == Len(h.actvar)
  <2>2. x \in Nat /\ Len(h.pending) \in Nat /\ Len(AllVars(h)) = x + Len(h.pending)
        /\ \A m \in 1 .. Len(AllVars(h)) : AllVars(h)[m] = IF m <= x THEN h.actvar[m] ELSE h.pending[m - x]
    BY <2>1, FuncTypes, VarsOf
  <2>3. k \in 1 .. x
    BY <1>5
  <2>. HIDE DEF h, x
  <2>4. k \in 1 .. Len(AllVars(h)) /\ k <= x
    BY <2>2, <2>3
  <2>. QED
    BY <2>2, <2>4 DEF h
<1>7. i \in 1 .. Len(f.pending)
  OBVIOUS
<1>. HIDE DEF f, p, L
<1>8. j \in 1 .. Len(AllVars(f)) /\ ~(j <= p) /\ j - p = i
  BY <1>2, <1>3, <1>7
<1>9. AllVars(f)[j].id = c
  BY <1>3, <1>8
<1>. HIDE DEF c, j
<1>10. l = L /\ k = j
  <2>1. /\ L \in 1 .. Len(s) /\ l \in 1 .. Len(s) /\ s[L] = f
        /\ AllVars(s[l])[k].id = AllVars(s[L])[j].id /\ AllVars(s[l])[k].id # 0
        /\ j \in 1 .. Len(AllVars(s[L]))
    BY <1>1, <1>4, <1>5, <1>6, <1>8, <1>9 DEF f, L
  <2>2. Distinct(s)
    BY <1>1
  <2>3. k \in 1 .. Len(AllVars(s[l]))
    BY <1>6
  <2>. QED
    BY <2>1, <2>2, <2>3, OnlyOne
<1>11. k \in 1 .. p
  BY <1>5, <1>10 DEF f, p
<1>. QED
  BY <1>2, <1>8, <1>10, <1>11

\* The numbers of active variables and of those that join them.
LEMMA GrownNumbers ==
  ASSUME NEW a \in Seq(Rec), NEW w \in Seq(Rec), NEW b \in Seq(Rec), NumbersOK(a), NumbersOK(w),
         Len(b) = Len(a) + Len(w),
         \A i \in 1 .. Len(a) : b[i] = a[i],
         \A i \in 1 .. Len(w) : b[Len(a) + i] = w[i]
  PROVE  NumbersOK(b)
<1>1. Len(a) \in Nat /\ Len(w) \in Nat
  BY LenProperties
<1>. SUFFICES ASSUME NEW i \in 1 .. Len(b) PROVE b[i].id = 0 <=> b[i].name = Hidden
  BY DEF NumbersOK
<1>2. CASE i \in 1 .. Len(a)
  BY <1>2 DEF NumbersOK
<1>3. CASE i \in Len(a) + 1 .. Len(a) + Len(w)
  <2>1. i - Len(a) \in 1 .. Len(w) /\ Len(a) + (i - Len(a)) = i
    BY <1>1, <1>3
  <2>. DEFINE k == i - Len(a)
  <2>2. k \in 1 .. Len(w) /\ b[i] = w[k]
    BY <2>1
  <2>3. w[k].id = 0 <=> w[k].name = Hidden
    BY <2>2 DEF NumbersOK
  <2>. QED
    BY <2>2, <2>3
<1>. QED
  BY <1>1, <1>2, <1>3

\* adjustLocalVars for all that is pending.
LEMMA AdjustOK ==
  ASSUME NEW f \in FuncRec, FuncOK(f), ~ForPending(f)
  PROVE  LET g == Adjust(f, Len(f.pending))
         IN  FuncOK(g) /\ VarsGrown(f, g, f.pending) /\ g.pending = <<>>
<1>. DEFINE p == Len(f.actvar)  q == Len(f.pending)  g == Adjust(f, q)
<1>1. p \in Nat /\ q \in Nat /\ q \in 0 .. q /\ f.actvar \in Seq(Rec) /\ f.pending \in Seq(Rec)
  <2>1. p \in Nat /\ q \in Nat /\ f.actvar \in Seq(Rec) /\ f.pending \in Seq(Rec)
    BY FuncTypes
  <2>. QED
    BY <2>1
<1>2. /\ g \in FuncRec /\ g.bl = f.bl /\ g.upvalues = f.upvalues
      /\ Len(g.actvar) = p + q /\ Len(g.pending) = q - q
      /\ \A i \in 1 .. p : g.actvar[i] = f.actvar[i]
      /\ \A i \in 1 .. q : g.actvar[p + i] = f.pending[i]
  BY <1>1, AdjustIs
<1>. HIDE DEF g
<1>3. Len(g.pending) = 0 /\ g.pending = <<>> /\ g.actvar \in Seq(Rec)
  <2>1. Len(g.pending) = 0
    BY <1>1, <1>2
  <2>2. g.pending \in Seq(Rec) /\ g.actvar \in Seq(Rec)
    BY <1>2, FuncTypes
  <2>. QED
    BY <2>1, <2>2, EmptySeq
<1>4. ~ForPending(g)
  BY <1>3 DEF ForPending
<1>5. NumbersOK(g.actvar)
  <2>1. NumbersOK(f.actvar) /\ NumbersOK(f.pending)
    BY DEF FuncOK
  <2>. QED
    BY <1>1, <1>2, <1>3, <2>1, GrownNumbers
<1>6. NumbersOK(g.pending) /\ PendingOK(g)
  <2>1. \A i \in 1 .. Len(g.pending) : FALSE
    BY <1>3
  <2>. QED
    BY <1>4, <2>1 DEF NumbersOK, PendingOK
<1>7. BlocksOK(g)
  <2>1. BlocksOK(f) /\ \A i \in 1 .. Len(f.bl) : f.bl[i].nActVar \in Nat
    BY BlockTypes DEF FuncOK
  <2>2. \A i \in 1 .. Len(f.bl) : f.bl[i].nActVar <= p
    BY <2>1 DEF BlocksOK
  <2>. HIDE DEF p, q
  <2>3. \A i \in 1 .. Len(g.bl) : g.bl[i].nActVar <= Len(g.actvar)
    BY <1>1, <1>2, <2>1, <2>2
  <2>. QED
    BY <1>2, <2>1, <2>3 DEF BlocksOK
<1>8. LimitsOK(g)
  <2>1. p + q <= LUAI_MAXVARS /\ Len(f.upvalues) <= LUAI_MAXUPVALUES
    BY DEF FuncOK, LimitsOK
  <2>2. Len(g.actvar) + Len(g.pending) = p + q
    BY <1>1, <1>2, <1>3
  <2>. QED
    BY <1>2, <2>1, <2>2 DEF LimitsOK
<1>9. VarsGrown(f, g, f.pending)
  BY <1>2, <1>4 DEF VarsGrown
<1>. QED
  BY <1>2, <1>3, <1>5, <1>6, <1>7, <1>8, <1>9 DEF FuncOK, g

LEMMA ActivateSound ==
  ASSUME NEW s, NEW vis, NEW cap, Sound(s, vis, cap), ~ForPending(s[Len(s)])
  PROVE  Sound(Put(s, Adjust(s[Len(s)], Len(s[Len(s)].pending))),
               [vis EXCEPT ![Len(vis)] = @ \o s[Len(s)].pending], cap)
<1>. DEFINE f == s[Len(s)]  w == f.pending  g == Adjust(f, Len(w))  V == Len(vis)
            vis2 == [vis EXCEPT ![V] = vis[V] \o w]
<1>1. /\ s \in Seq(FuncRec) /\ Len(s) > 0 /\ f \in FuncRec /\ FuncOK(f)
      /\ FuncCloses(f, cap) /\ vis \in Seq(Seq(Rec)) /\ V \in 1 .. V /\ Distinct(s) /\ ScopesOK(s, vis)
      /\ vis[V] \in Seq(Rec)
  BY Innermost DEF Sound
<1>2. w \in Seq(Rec) /\ Len(w) \in Nat /\ Len(w) \in 0 .. Len(w) /\ Len(f.actvar) \in Nat
  <2>1. w \in Seq(Rec) /\ Len(w) \in Nat /\ Len(f.actvar) \in Nat
    BY <1>1, FuncTypes
  <2>. QED
    BY <2>1
<1>3. FuncOK(g) /\ VarsGrown(f, g, w)
  BY <1>1, AdjustOK
<1>4. g \in FuncRec /\ g.bl = f.bl /\ g.upvalues = f.upvalues /\ KeepsVars(f, g)
  BY <1>1, <1>2, AdjustIs, AdjustKeeps
<1>5. \A i \in 1 .. Len(w) : w[i].id \notin cap
  BY PendingUnused
<1>6. Grown(vis, vis2, w) /\ vis2 \in Seq(Seq(Rec)) /\ Len(vis2) > 0
  <2>. DEFINE u == vis[V] \o w
  <2>1. /\ u \in Seq(Rec) /\ Len(u) = Len(vis[V]) + Len(w)
        /\ \A i \in 1 .. Len(vis[V]) + Len(w) : u[i] = IF i <= Len(vis[V]) THEN vis[V][i] ELSE w[i - Len(vis[V])]
    BY <1>1, <1>2, ConcatProperties
  <2>. HIDE DEF u, w
  <2>2. /\ vis2 \in Seq(Seq(Rec)) /\ Len(vis2) = V
        /\ \A j \in 1 .. V : vis2[j] = IF j = V THEN u ELSE vis[j]
    BY <1>1, <2>1, ExceptSeq DEF u
  <2>. DEFINE n == Len(vis[V])  m == Len(w)
  <2>3. n \in Nat /\ m \in Nat
    BY <1>1, <1>2, LenProperties
  <2>4. \A i \in 1 .. n + m : u[i] = IF i <= n THEN vis[V][i] ELSE w[i - n]
    BY <2>1
  <2>. HIDE DEF n, m, vis2, V
  <2>5. \A i \in 1 .. n : i \in 1 .. n + m /\ i <= n
    BY <2>3
  <2>6. (\A i \in 1 .. n : u[i] = vis[V][i]) /\ \A i \in 1 .. m : u[n + i] = w[i]
    <3>1. \A i \in 1 .. n : u[i] = vis[V][i]
      BY <2>4, <2>5
    <3>2. ASSUME NEW i \in 1 .. m PROVE u[n + i] = w[i]
      <4>. DEFINE j == n + i
      <4>1. j \in 1 .. n + m /\ ~(j <= n) /\ j - n = i
        BY <2>3, <3>2
      <4>. HIDE DEF j
      <4>2. u[j] = w[i]
        BY <2>4, <4>1
      <4>. QED
        BY <4>2 DEF j
    <3>. QED
      BY <3>1, <3>2
  <2>7. Len(u) = n + m
    BY <2>1 DEF n, m
  <2>8. vis2[V] = u /\ V > 0
    BY <1>1, <2>2
  <2>. QED
    BY <2>2, <2>6, <2>7, <2>8 DEF Grown, n, m, V
<1>. HIDE DEF g, vis2
<1>7. Extends(f.actvar, g.actvar)
  <2>1. Len(f.actvar) <= Len(g.actvar)
    <3>. DEFINE p == Len(f.actvar)  q == Len(w)
    <3>1. p \in Nat /\ q \in Nat /\ Len(g.actvar) = p + q
      BY <1>2, <1>3 DEF VarsGrown
    <3>. HIDE DEF p, q
    <3>. QED
      BY <3>1 DEF p
  <2>. QED
    BY <1>3, <2>1 DEF VarsGrown, Extends
<1>8. Unused(g, Len(f.actvar), cap)
  <2>1. \A v \in Len(f.actvar) + 1 .. Len(g.actvar) :
          v - Len(f.actvar) \in 1 .. Len(w) /\ Len(f.actvar) + (v - Len(f.actvar)) = v
    <3>. DEFINE p == Len(f.actvar)  q == Len(w)
    <3>1. p \in Nat /\ q \in Nat /\ Len(g.actvar) = p + q
      BY <1>2, <1>3 DEF VarsGrown
    <3>. HIDE DEF p, q
    <3>2. \A v \in p + 1 .. Len(g.actvar) : v - p \in 1 .. q /\ p + (v - p) = v
      BY <3>1
    <3>. QED
      BY <3>2 DEF p, q
  <2>. QED
    BY <1>3, <1>5, <2>1 DEF Unused, VarsGrown
<1>9. FuncCloses(g, cap)
  <2>1. BlocksOK(f) /\ BlocksOK(g)
    BY <1>1, <1>3 DEF FuncOK
  <2>2. Len(f.bl) \in Nat /\ Len(f.bl) <= Len(g.bl) /\ \A i \in Len(f.bl) + 1 .. Len(g.bl) : FALSE
    BY <1>1, <1>4, FuncTypes
  <2>. QED
    BY <1>1, <1>4, <1>7, <1>8, <2>1, <2>2, ClosesKept
<1>10. Distinct(Put(s, g))
  BY <1>1, <1>4, KeepsDistinct
<1>11. ScopesOK(Put(s, g), vis2)
  BY <1>1, <1>2, <1>3, <1>4, <1>6, ScopesGrow
<1>12. Sound(Put(s, g), vis2, cap)
  BY <1>1, <1>3, <1>4, <1>6, <1>7, <1>9, <1>10, <1>11, SoundPut
<1>. QED
  BY <1>12 DEF g, vis2
-----------------------------------------------------------------------------
(* Blocks are entered *)

LEMMA EnterBlocks ==
  ASSUME NEW f \in FuncRec, BlocksOK(f), NEW first \in BOOLEAN, NEW breakable \in BOOLEAN,
         Len(f.bl) > 0 \/ first
  PROVE  BlocksOK(Enter(f, first, breakable))
<1>. DEFINE g == Enter(f, first, breakable)  n == Len(f.bl)  p == Len(f.actvar)
<1>1. /\ g \in FuncRec /\ g.actvar = f.actvar /\ Len(g.bl) = n + 1
      /\ \A i \in 1 .. n : g.bl[i] = f.bl[i]
      /\ g.bl[n + 1].nActVar = p /\ g.bl[n + 1].first = first
  <2>1. Entered(f, g, first)
    BY EnterIs
  <2>. HIDE DEF g
  <2>. QED
    BY <2>1 DEF Entered
<1>2. n \in Nat /\ p \in Nat /\ \A i \in 1 .. n : f.bl[i].nActVar \in Nat
  BY FuncTypes, BlockTypes
<1>3. /\ \A i \in 1 .. n : f.bl[i].nActVar <= p
      /\ \A i, j \in 1 .. n : i <= j => f.bl[i].nActVar <= f.bl[j].nActVar
      /\ (n > 0 => f.bl[1].first) /\ (n > 0 \/ first)
  BY DEF BlocksOK
<1>. HIDE DEF g, n, p
<1>4. \A i \in 1 .. n + 1 : i \in 1 .. n \/ i = n + 1
  BY <1>2
<1>5. \A i \in 1 .. n + 1 : g.bl[i].nActVar <= p
  BY <1>1, <1>2, <1>3, <1>4
<1>6. ASSUME NEW i \in 1 .. n + 1, NEW j \in 1 .. n + 1, i <= j
      PROVE  g.bl[i].nActVar <= g.bl[j].nActVar
  <2>1. CASE j = n + 1
    BY <1>1, <1>5, <2>1
  <2>2. CASE j \in 1 .. n
    <3>1. i \in 1 .. n
      BY <1>2, <1>6, <2>2
    <3>. QED
      BY <1>1, <1>3, <1>6, <2>2, <3>1
  <2>. QED
    BY <1>4, <2>1, <2>2
<1>7. g.bl[1].first
  <2>1. CASE n > 0
    <3>1. 1 \in 1 .. n
      BY <1>2, <2>1
    <3>. QED
      BY <1>1, <1>3, <2>1, <3>1
  <2>2. CASE ~(n > 0)
    <3>1. n + 1 = 1
      BY <1>2, <2>2
    <3>. QED
      BY <1>1, <1>3, <2>2, <3>1
  <2>. QED
    BY <2>1, <2>2
<1>8. Len(g.actvar) = p
  BY <1>1 DEF p
<1>9. BlocksOK(g)
  BY <1>1, <1>5, <1>6, <1>7, <1>8 DEF BlocksOK
<1>. QED
  BY <1>9 DEF g

LEMMA AdjustBlocks ==
  ASSUME NEW f \in FuncRec, BlocksOK(f), NEW n \in 0 .. Len(f.pending)
  PROVE  BlocksOK(Adjust(f, n))
<1>. DEFINE g == Adjust(f, n)  p == Len(f.actvar)
<1>1. g \in FuncRec /\ g.bl = f.bl /\ Len(g.actvar) = p + n
  BY AdjustIs
<1>2. p \in Nat /\ n \in Nat
  BY FuncTypes
<1>3. \A i \in 1 .. Len(f.bl) : f.bl[i].nActVar <= p /\ f.bl[i].nActVar \in Nat
  BY BlockTypes DEF BlocksOK
<1>. HIDE DEF g, p
<1>4. \A i \in 1 .. Len(f.bl) : f.bl[i].nActVar <= p + n
  BY <1>2, <1>3
<1>5. BlocksOK(g)
  BY <1>1, <1>4 DEF BlocksOK
<1>. QED
  BY <1>5 DEF g

LEMMA AppendScope ==
  ASSUME NEW vis \in Seq(Seq(Rec)), NEW w \in Seq(Rec)
  PROVE  OneMore(vis, Append(vis, w), w) /\ Append(vis, w) \in Seq(Seq(Rec)) /\ Len(Append(vis, w)) > 0
<1>1. Len(vis) \in Nat
  BY LenProperties
<1>2. /\ Append(vis, w) \in Seq(Seq(Rec)) /\ Len(Append(vis, w)) = Len(vis) + 1
      /\ (\A a \in 1 .. Len(vis) : Append(vis, w)[a] = vis[a]) /\ Append(vis, w)[Len(vis) + 1] = w
  BY AppendProperties
<1>3. Len(Append(vis, w)) > 0
  BY <1>1, <1>2
<1>. QED
  BY <1>2, <1>3 DEF OneMore

\* A block that begins a scope keeps the invariant.
LEMMA ScopeSound ==
  ASSUME NEW s, NEW vis, NEW cap, Sound(s, vis, cap), NEW g, FuncOK(g),
         g.upvalues = s[Len(s)].upvalues, KeepsVars(s[Len(s)], g),
         NEW w \in Seq(Rec), NEW o, NEW q, NewScope(s[Len(s)], g, w, o, q),
         Unused(g, Len(s[Len(s)].actvar), cap),
         \A i \in Len(s[Len(s)].bl) + 1 .. Len(g.bl) :
           g.bl[i].nActVar >= Len(s[Len(s)].actvar) /\ g.bl[i].upval = FALSE
  PROVE  Sound(Put(s, g), Append(vis, w), cap)
<1>. DEFINE f == s[Len(s)]  vis2 == Append(vis, w)
<1>1. /\ s \in Seq(FuncRec) /\ Len(s) > 0 /\ f \in FuncRec /\ FuncOK(f) /\ g \in FuncRec
      /\ FuncCloses(f, cap) /\ vis \in Seq(Seq(Rec)) /\ Distinct(s) /\ ScopesOK(s, vis)
  BY Innermost DEF Sound, FuncOK
<1>2. OneMore(vis, vis2, w) /\ vis2 \in Seq(Seq(Rec)) /\ Len(vis2) > 0
  BY <1>1, AppendScope
<1>3. NewScope(f, g, w, o, q) /\ BlocksOK(f) /\ BlocksOK(g)
  BY <1>1 DEF FuncOK
<1>. HIDE DEF vis2
<1>4. Extends(f.actvar, g.actvar)
  <2>. DEFINE p == Len(f.actvar)  k == Len(w)
  <2>1. p \in Nat /\ k \in Nat /\ o \in Nat /\ p <= o /\ Len(g.actvar) = o + k
    BY <1>1, <1>3, FuncTypes, LenProperties DEF NewScope
  <2>. HIDE DEF p, k
  <2>2. p <= Len(g.actvar)
    BY <2>1
  <2>. QED
    BY <1>3, <2>2 DEF NewScope, Extends, p
<1>5. FuncCloses(g, cap)
  <2>1. Len(f.bl) <= Len(g.bl) /\ \A i \in 1 .. Len(f.bl) : g.bl[i] = f.bl[i]
    BY <1>3 DEF NewScope
  <2>. QED
    BY <1>1, <1>3, <1>4, <2>1, ClosesKept
<1>6. Distinct(Put(s, g))
  BY <1>1, KeepsDistinct
<1>7. ScopesOK(Put(s, g), vis2)
  BY <1>1, <1>2, <1>3, ScopesEnter
<1>8. Sound(Put(s, g), vis2, cap)
  BY <1>1, <1>2, <1>4, <1>5, <1>6, <1>7, SoundPut
<1>. QED
  BY <1>8 DEF vis2

\* What entering a block leaves of a function on which nothing is pending.
LEMMA EnterOK ==
  ASSUME NEW f \in FuncRec, FuncOK(f), f.pending = <<>>, NEW first \in BOOLEAN, NEW breakable \in BOOLEAN,
         Len(f.bl) > 0 \/ first
  PROVE  LET g == Enter(f, first, breakable)
         IN  FuncOK(g) /\ g.pending = <<>> /\ KeepsVars(f, g) /\ ~ForPending(g)
<1>. DEFINE g == Enter(f, first, breakable)
<1>1. g \in FuncRec /\ g.actvar = f.actvar /\ g.pending = f.pending /\ g.upvalues = f.upvalues
  <2>1. Entered(f, g, first)
    BY EnterIs
  <2>. HIDE DEF g
  <2>. QED
    BY <2>1 DEF Entered
<1>2. BlocksOK(g)
  BY EnterBlocks DEF FuncOK
<1>. HIDE DEF g
<1>3. ~ForPending(g) /\ AllVars(g) = AllVars(f)
  BY <1>1 DEF ForPending, AllVars
<1>4. PendingOK(g)
  <2>1. \A i \in 1 .. Len(g.pending) : FALSE
    BY <1>1, EmptySeq
  <2>. QED
    BY <1>3, <2>1 DEF PendingOK
<1>5. NumbersOK(g.actvar) /\ NumbersOK(g.pending) /\ LimitsOK(g)
  BY <1>1 DEF FuncOK, LimitsOK
<1>6. KeepsVars(f, g)
  BY <1>3, VarsOf DEF KeepsVars
<1>. QED
  BY <1>1, <1>2, <1>3, <1>4, <1>5, <1>6 DEF FuncOK, g

\* g is f at the beginning of a statement with a block.
Begun(f, g) ==
  /\ FuncOK(g) /\ g.upvalues = f.upvalues /\ g.actvar = f.actvar /\ KeepsVars(f, g)
  /\ NewScope(f, g, <<>>, Len(f.actvar), Len(f.bl) + 1)
  /\ \A i \in Len(f.bl) + 1 .. Len(g.bl) : g.bl[i].nActVar >= Len(f.actvar) /\ g.bl[i].upval = FALSE

LEMMA DoBegins ==
  ASSUME NEW f \in FuncRec, FuncOK(f), f.pending = <<>>
  PROVE  Begun(f, Enter(f, TRUE, FALSE))
<1>. DEFINE g == Enter(f, TRUE, FALSE)  n == Len(f.bl)  p == Len(f.actvar)
<1>1. Entered(f, g, TRUE)
  BY EnterIs
<1>2. FuncOK(g) /\ KeepsVars(f, g) /\ ~ForPending(g)
  BY EnterOK
<1>3. n \in Nat /\ p \in Nat
  BY FuncTypes
<1>4. ~ForPending(f) /\ Len(<<>>) = 0
  BY DEF ForPending
<1>. HIDE DEF g
<1>5. /\ g.actvar = f.actvar /\ g.upvalues = f.upvalues /\ Len(g.bl) = n + 1
      /\ (\A i \in 1 .. n : g.bl[i] = f.bl[i]) /\ g.bl[n + 1].nActVar = p
      /\ g.bl[n + 1].first = TRUE /\ g.bl[n + 1].upval = FALSE
  BY <1>1 DEF Entered
<1>. HIDE DEF n, p
<1>6. /\ n + 1 \in 1 .. n + 1 /\ n <= n + 1 /\ n + 1 > n /\ p + 0 = p
      /\ \A i \in n + 1 .. n + 1 : i = n + 1
      /\ (\A i \in p + 1 .. p : FALSE) /\ \A i \in 1 .. 0 : FALSE
  BY <1>3
<1>7. NewScope(f, g, <<>>, p, n + 1)
  BY <1>2, <1>3, <1>4, <1>5, <1>6 DEF NewScope, n, p
<1>8. \A i \in n + 1 .. Len(g.bl) : g.bl[i].nActVar >= p /\ g.bl[i].upval = FALSE
  BY <1>3, <1>5, <1>6
<1>9. Begun(f, g)
  BY <1>2, <1>5, <1>7, <1>8 DEF Begun, n, p
<1>. QED
  BY <1>9 DEF g

LEMMA LoopBegins ==
  ASSUME NEW f \in FuncRec, FuncOK(f), f.pending = <<>>
  PROVE  Begun(f, Enter(Enter(f, TRUE, TRUE), FALSE, FALSE))
<1>. DEFINE h == Enter(f, TRUE, TRUE)  g == Enter(h, FALSE, FALSE)  n == Len(f.bl)  p == Len(f.actvar)
<1>1. Entered(f, h, TRUE) /\ h \in FuncRec
  BY EnterIs DEF Entered
<1>2. FuncOK(h) /\ h.pending = <<>>
  BY EnterOK
<1>3. n \in Nat /\ p \in Nat
  BY FuncTypes
<1>4. ~ForPending(f) /\ Len(<<>>) = 0
  BY DEF ForPending
<1>. HIDE DEF h
<1>5. /\ h.actvar = f.actvar /\ h.pending = f.pending /\ h.upvalues = f.upvalues /\ Len(h.bl) = n + 1
      /\ (\A i \in 1 .. n : h.bl[i] = f.bl[i]) /\ h.bl[n + 1].nActVar = p
      /\ h.bl[n + 1].first = TRUE /\ h.bl[n + 1].upval = FALSE
  BY <1>1 DEF Entered
<1>6. Len(h.bl) > 0
  BY <1>3, <1>5
<1>7. Entered(h, g, FALSE)
  BY <1>1, EnterIs
<1>8. FuncOK(g) /\ KeepsVars(h, g) /\ ~ForPending(g)
  BY <1>1, <1>2, <1>6, EnterOK
<1>. HIDE DEF g
<1>9. /\ g.actvar = f.actvar /\ g.upvalues = f.upvalues /\ g.pending = f.pending /\ Len(g.bl) = n + 1 + 1
      /\ (\A i \in 1 .. n + 1 : g.bl[i] = h.bl[i]) /\ g.bl[n + 1 + 1].nActVar = p
      /\ g.bl[n + 1 + 1].first = FALSE /\ g.bl[n + 1 + 1].upval = FALSE
  BY <1>5, <1>7 DEF Entered, p
<1>. HIDE DEF n, p
<1>10. /\ n + 1 \in 1 .. n + 1 + 1 /\ n + 1 \in 1 .. n + 1 /\ n <= n + 1 + 1 /\ n + 1 > n /\ p + 0 = p
       /\ (\A i \in n + 1 .. n + 1 + 1 : i = n + 1 \/ i = n + 1 + 1)
       /\ (\A i \in 1 .. n : i \in 1 .. n + 1)
       /\ (\A i \in p + 1 .. p : FALSE) /\ \A i \in 1 .. 0 : FALSE
  BY <1>3
<1>11. g.bl[n + 1].nActVar = p /\ g.bl[n + 1].first /\ g.bl[n + 1].upval = FALSE
       /\ \A i \in 1 .. n : g.bl[i] = f.bl[i]
  BY <1>5, <1>9, <1>10
<1>12. \A i \in n + 1 .. Len(g.bl) : g.bl[i].nActVar >= p /\ g.bl[i].upval = FALSE /\ (g.bl[i].first => i = n + 1)
  BY <1>3, <1>9, <1>10, <1>11
<1>13. NewScope(f, g, <<>>, p, n + 1)
  BY <1>3, <1>4, <1>8, <1>9, <1>10, <1>11, <1>12 DEF NewScope, n, p
<1>14. KeepsVars(f, g)
  <2>1. AllVars(h) = AllVars(f)
    BY <1>5 DEF AllVars
  <2>. QED
    BY <1>8, <2>1 DEF KeepsVars
<1>15. Begun(f, g)
  BY <1>8, <1>9, <1>12, <1>13, <1>14 DEF Begun, n, p
<1>. QED
  BY <1>15 DEF g, h

LEMMA BegunSound ==
  ASSUME NEW s, NEW vis, NEW cap, Sound(s, vis, cap), NEW g, Begun(s[Len(s)], g)
  PROVE  Sound(Put(s, g), Append(vis, <<>>), cap)
<1>. DEFINE f == s[Len(s)]
<1>1. f \in FuncRec /\ Len(f.actvar) \in Nat
  BY Innermost, FuncTypes
<1>2. Unused(g, Len(f.actvar), cap)
  <2>1. \A v \in Len(f.actvar) + 1 .. Len(f.actvar) : FALSE
    BY <1>1
  <2>. QED
    BY <2>1 DEF Unused, Begun
<1>3. <<>> \in Seq(Rec)
  BY EmptySeq
<1>. QED
  BY <1>2, <1>3, ScopeSound DEF Begun

LEMMA EnterBlockKeeps ==
  ASSUME NEW loop \in BOOLEAN, Sound(fs, visible, captured), EnterBlock(loop)
  PROVE  Sound(fs, visible, captured)'
<1>. DEFINE f == fs[Len(fs)]
            g == IF loop THEN Enter(Enter(f, TRUE, TRUE), FALSE, FALSE) ELSE Enter(f, TRUE, FALSE)
<1>1. f.pending = <<>> /\ fs' = Put(fs, g) /\ visible' = Append(visible, <<>>) /\ captured' = captured
  BY DEF EnterBlock, Statement, Func, SetFunc, Put
<1>2. f \in FuncRec /\ FuncOK(f)
  BY Innermost
<1>3. Begun(f, g)
  <2>1. CASE loop
    BY <1>1, <1>2, <2>1, LoopBegins
  <2>2. CASE ~loop
    BY <1>1, <1>2, <2>2, DoBegins
  <2>. QED
    BY <2>1, <2>2
<1>. HIDE DEF g
<1>4. Sound(Put(fs, g), Append(visible, <<>>), captured)
  BY <1>3, BegunSound
<1>. QED
  BY <1>1, <1>4
-----------------------------------------------------------------------------
(* The for statement *)

LEMMA ListIs ==
  ASSUME NEW S, NEW k \in Nat, NEW w \in [1 .. k -> S]
  PROVE  w \in Seq(S) /\ Len(w) = k
OBVIOUS

\* The four variables of a for statement.
ForVars(w, id) ==
  /\ w \in Seq(Rec) /\ Len(w) = 4
  /\ \A i \in 1 .. 3 : w[i].name = Hidden /\ w[i].id = 0
  /\ w[4].name # Hidden /\ w[4].id = id

LEMMA ForVarsAre ==
  ASSUME NEW n \in Name, NEW nx \in Nat, nx < MAXDECLS
  PROVE  ForVars(Control \o Locals(nx, <<n>>), nx + 1)
<1>. DEFINE v == Locals(nx, <<n>>)  w == Control \o v  c == Control
<1>1. v \in Seq(Rec) /\ Len(v) = 1 /\ v[1].name # Hidden /\ v[1].id = nx + 1
  <2>. DEFINE ns == <<n>>
  <2>1. ns \in [1 .. 1 -> Name] /\ 1 \in Nat /\ nx + 1 <= MAXDECLS
    BY MaxDeclsType
  <2>. HIDE DEF ns
  <2>2. /\ Locals(nx, ns) \in Seq(Rec) /\ Len(Locals(nx, ns)) = 1
        /\ \A i \in 1 .. 1 : Locals(nx, ns)[i].name # Hidden /\ Locals(nx, ns)[i].id = nx + i
    BY <2>1, LocalsAre
  <2>. QED
    BY <2>2 DEF ns
<1>2. c \in Seq(Rec) /\ Len(c) = 3 /\ \A i \in 1 .. 3 : c[i].name = Hidden /\ c[i].id = 0
  <2>1. Local(Hidden, 0) \in Rec /\ Local(Hidden, 0).name = Hidden /\ Local(Hidden, 0).id = 0
    BY MaxDeclsType DEF Local, Rec
  <2>2. c \in [1 .. 3 -> Rec]
    BY <2>1 DEF Control
  <2>3. \A i \in 1 .. 3 : c[i] = Local(Hidden, 0)
    BY DEF Control
  <2>. HIDE DEF c
  <2>4. c \in Seq(Rec) /\ Len(c) = 3
    BY <2>2, ListIs
  <2>. QED
    BY <2>1, <2>3, <2>4
<1>. HIDE DEF v, c
<1>. DEFINE u == c \o v
<1>3. /\ u \in Seq(Rec) /\ Len(u) = Len(c) + Len(v)
      /\ \A i \in 1 .. Len(c) + Len(v) : u[i] = IF i <= Len(c) THEN c[i] ELSE v[i - Len(c)]
  BY <1>1, <1>2, ConcatProperties
<1>. HIDE DEF u
<1>4. u \in Seq(Rec) /\ Len(u) = 4 /\ (\A i \in 1 .. 3 : u[i] = c[i]) /\ u[4] = v[1]
  <2>1. Len(c) + Len(v) = 4
    BY <1>1, <1>2
  <2>2. \A i \in 1 .. 4 : u[i] = IF i <= 3 THEN c[i] ELSE v[i - 3]
    BY <1>2, <1>3, <2>1
  <2>. QED
    BY <1>3, <2>1, <2>2
<1>. HIDE DEF u
<1>5. ForVars(u, nx + 1)
  BY <1>1, <1>2, <1>4 DEF ForVars
<1>. QED
  BY <1>5 DEF u, c, v

\* g is f in a for statement whose expressions are compiled.
ForBegun(f, g, nx) ==
  /\ FuncOK(g) /\ SameShape(f, g) /\ FreshIn(f, g, nx, nx - Len(f.actvar) - 3)
  /\ g.actvar = f.actvar /\ g.upvalues = f.upvalues
  /\ Len(f.bl) <= Len(g.bl) /\ \A i \in 1 .. Len(f.bl) : g.bl[i] = f.bl[i]
  /\ \A i \in Len(f.bl) + 1 .. Len(g.bl) : g.bl[i].nActVar >= Len(f.actvar) /\ g.bl[i].upval = FALSE

LEMMA ForBegins ==
  ASSUME NEW f \in FuncRec, FuncOK(f), f.pending = <<>>, NEW nx \in Nat, NEW w, ForVars(w, nx + 1),
         Len(f.actvar) + 4 <= LUAI_MAXVARS
  PROVE  ForBegun(f, Declare(Enter(f, TRUE, TRUE), w), nx)
<1>. DEFINE h == Enter(f, TRUE, TRUE)  g == Declare(h, w)  n == Len(f.bl)  p == Len(f.actvar)
<1>1. Entered(f, h, TRUE) /\ h \in FuncRec
  BY EnterIs DEF Entered
<1>2. BlocksOK(h)
  BY EnterBlocks DEF FuncOK
<1>3. n \in Nat /\ p \in Nat /\ ~ForPending(f) /\ Len(f.pending) = 0
  BY FuncTypes, EmptySeq DEF ForPending
<1>4. /\ w \in Seq(Rec) /\ Len(w) = 4 /\ (\A i \in 1 .. 3 : w[i].name = Hidden /\ w[i].id = 0)
      /\ w[4].name # Hidden /\ w[4].id = nx + 1
  BY DEF ForVars
<1>. HIDE DEF h
<1>5. g \in FuncRec /\ g.actvar = h.actvar /\ g.pending = w /\ g.bl = h.bl /\ g.upvalues = h.upvalues
  BY <1>1, <1>4, DeclareIs
<1>. HIDE DEF g
<1>6. /\ g.actvar = f.actvar /\ g.upvalues = f.upvalues /\ Len(g.bl) = n + 1
      /\ (\A i \in 1 .. n : g.bl[i] = f.bl[i]) /\ g.bl[n + 1].nActVar = p
      /\ g.bl[n + 1].first = TRUE /\ g.bl[n + 1].upval = FALSE
  BY <1>1, <1>5 DEF Entered
<1>7. ForPending(g)
  <2>1. Len(w) # 0 /\ 1 \in 1 .. 3
    BY <1>4
  <2>2. w # <<>>
    BY <2>1, EmptySeq
  <2>. QED
    BY <1>4, <1>5, <2>1, <2>2 DEF ForPending
<1>8. FuncOK(g)
  <2>1. PendingOK(g)
    <3>1. Len(g.bl) > 0 /\ g.bl[Len(g.bl)].first /\ g.bl[Len(g.bl)].nActVar = Len(g.actvar)
      BY <1>3, <1>6
    <3>. QED
      BY <1>4, <1>5, <1>7, <3>1 DEF PendingOK
  <2>2. NumbersOK(g.pending)
    <3>1. \A i \in 1 .. Len(w) : i \in 1 .. 3 \/ i = 4
      BY <1>4
    <3>2. ASSUME NEW i \in 1 .. Len(w) PROVE w[i].id = 0 <=> w[i].name = Hidden
      <4>1. CASE i \in 1 .. 3
        BY <1>4, <4>1
      <4>2. CASE i = 4
        <5>1. nx + 1 # 0
          OBVIOUS
        <5>. QED
          BY <1>4, <4>2, <5>1
      <4>. QED
        BY <3>1, <4>1, <4>2
    <3>. QED
      BY <1>5, <3>2 DEF NumbersOK
  <2>3. BlocksOK(g)
    BY <1>2, <1>5 DEF BlocksOK
  <2>4. LimitsOK(g)
    BY <1>4, <1>5, <1>6 DEF FuncOK, LimitsOK
  <2>5. NumbersOK(g.actvar)
    BY <1>6 DEF FuncOK
  <2>. QED
    BY <1>5, <2>1, <2>2, <2>3, <2>4, <2>5 DEF FuncOK
<1>. HIDE DEF n
<1>9. SameShape(f, g)
  <2>1. n <= n + 1 /\ n # n + 1 /\ \A i \in n + 1 .. n + 1 : i = n + 1
    BY <1>3
  <2>. QED
    BY <1>3, <1>6, <1>7, <2>1 DEF SameShape, n
<1>10. FreshIn(f, g, nx, nx - p - 3)
  <2>1. Len(AllVars(f)) = p /\ \A i \in 1 .. p : AllVars(f)[i] = f.actvar[i]
    BY <1>3, ActiveOnly
  <2>2. Len(AllVars(g)) = p + 4 /\ \A i \in 1 .. p + 4 : AllVars(g)[i] = IF i <= p THEN f.actvar[i] ELSE w[i - p]
    <3>1. Len(AllVars(g)) = Len(g.actvar) + Len(g.pending)
      BY <1>5, VarsOf
    <3>2. Len(g.actvar) = p /\ Len(g.pending) = 4
      BY <1>4, <1>5, <1>6
    <3>3. \A i \in 1 .. Len(AllVars(g)) :
            AllVars(g)[i] = IF i <= Len(g.actvar) THEN g.actvar[i] ELSE g.pending[i - Len(g.actvar)]
      BY <1>5, VarsOf
    <3>. HIDE DEF p
    <3>. QED
      BY <1>5, <1>6, <3>1, <3>2, <3>3
  <2>. HIDE DEF p
  <2>3. ASSUME NEW i \in 1 .. p + 4
        PROVE  \/ i <= p /\ AllVars(g)[i] = AllVars(f)[i]
               \/ AllVars(g)[i].id = 0
               \/ AllVars(g)[i].id > nx /\ AllVars(g)[i].id = nx - p - 3 + i
    <3>1. CASE i <= p
      <4>1. i \in 1 .. p
        BY <1>3, <3>1
      <4>. QED
        BY <2>1, <2>2, <3>1, <4>1
    <3>2. CASE i \in p + 1 .. p + 3
      <4>1. i - p \in 1 .. 3 /\ ~(i <= p)
        BY <1>3, <3>2
      <4>. QED
        BY <1>4, <2>2, <4>1
    <3>3. CASE i = p + 4
      <4>1. i - p = 4 /\ ~(i <= p) /\ nx - p - 3 + i = nx + 1 /\ nx + 1 > nx
        BY <1>3, <3>3
      <4>2. AllVars(g)[i] = w[4]
        BY <2>2, <4>1
      <4>. QED
        BY <1>4, <4>1, <4>2
    <3>. QED
      BY <1>3, <3>1, <3>2, <3>3
  <2>. QED
    BY <2>1, <2>2, <2>3 DEF FreshIn
<1>11. /\ n <= Len(g.bl)
       /\ \A i \in n + 1 .. Len(g.bl) : g.bl[i].nActVar >= p /\ g.bl[i].upval = FALSE
  <2>1. n <= n + 1 /\ p >= p /\ \A i \in n + 1 .. n + 1 : i = n + 1
    BY <1>3
  <2>. QED
    BY <1>6, <2>1
<1>. QED
  BY <1>6, <1>8, <1>9, <1>10, <1>11 DEF ForBegun, g, h, n

\* A function that has the active variables it had, and new blocks.
LEMMA FuncSound ==
  ASSUME NEW s, NEW vis, NEW cap, Sound(s, vis, cap), NEW nx \in Nat, Above(s, nx), NEW b \in Int,
         NEW g, FuncOK(g), SameShape(s[Len(s)], g), FreshIn(s[Len(s)], g, nx, b),
         g.upvalues = s[Len(s)].upvalues, FuncCloses(g, cap)
  PROVE  Sound(Put(s, g), vis, cap)
<1>. DEFINE f == s[Len(s)]
<1>1. /\ s \in Seq(FuncRec) /\ Len(s) > 0 /\ f \in FuncRec /\ g \in FuncRec
      /\ vis \in Seq(Seq(Rec)) /\ Len(vis) > 0 /\ Distinct(s) /\ ScopesOK(s, vis)
  BY Innermost DEF Sound, FuncOK
<1>2. Len(f.actvar) \in Nat /\ g.actvar = f.actvar
  BY <1>1, FuncTypes DEF SameShape
<1>3. Extends(f.actvar, g.actvar)
  BY <1>2 DEF Extends
<1>4. Distinct(Put(s, g))
  BY <1>1, DistinctPut
<1>5. ScopesOK(Put(s, g), vis)
  BY <1>1, ScopesPut
<1>. QED
  BY <1>1, <1>3, <1>4, <1>5, SoundPut

LEMMA ForStatKeeps ==
  ASSUME NEW n \in Name, Sound(fs, visible, captured), ForStat(n)
  PROVE  Sound(fs, visible, captured)'
<1>. DEFINE f == fs[Len(fs)]  w == Control \o Locals(next, <<n>>)  g == Declare(Enter(f, TRUE, TRUE), w)
            p == Len(f.actvar)
<1>1. /\ fs \in Seq(FuncRec) /\ f \in FuncRec /\ FuncOK(f) /\ FuncCloses(f, captured)
  BY Innermost
<1>2. next \in Nat /\ next <= MAXDECLS /\ Above(fs, next) /\ next < MAXDECLS
  BY <1>1, NextIs, MaxDeclsType DEF ForStat
<1>3. CASE TooManyVars(Func, 4)
  <2>1. fs' = fs /\ visible' = visible /\ captured' = captured
    BY <1>3 DEF ForStat, Fail
  <2>. QED
    BY <2>1
<1>4. CASE ~TooManyVars(Func, 4)
  <2>1. /\ f.pending = <<>> /\ fs' = Put(fs, g) /\ visible' = visible /\ captured' = captured
    BY <1>4 DEF ForStat, Statement, Func, SetFunc, Put
  <2>2. p \in Nat /\ p + 4 <= LUAI_MAXVARS
    <3>1. p \in Nat
      BY <1>1, FuncTypes
    <3>2. ~(p + 4 > LUAI_MAXVARS)
      BY <1>4 DEF TooManyVars, Func
    <3>. HIDE DEF p
    <3>. QED
      BY <3>1, <3>2, LimitAssumption
  <2>3. ForVars(w, next + 1)
    BY <1>2, ForVarsAre
  <2>. HIDE DEF w
  <2>8. ForBegun(f, g, next)
    BY <1>1, <1>2, <2>1, <2>2, <2>3, ForBegins
  <2>. HIDE DEF g
  <2>4. /\ FuncOK(g) /\ SameShape(f, g) /\ FreshIn(f, g, next, next - p - 3)
        /\ g.actvar = f.actvar /\ g.upvalues = f.upvalues
        /\ Len(f.bl) <= Len(g.bl) /\ (\A i \in 1 .. Len(f.bl) : g.bl[i] = f.bl[i])
        /\ \A i \in Len(f.bl) + 1 .. Len(g.bl) : g.bl[i].nActVar >= p /\ g.bl[i].upval = FALSE
    BY <2>8 DEF ForBegun
  <2>5. FuncCloses(g, captured)
    <3>1. Extends(f.actvar, g.actvar)
      BY <2>2, <2>4 DEF Extends
    <3>2. Unused(g, p, captured)
      <4>1. \A v \in p + 1 .. p : FALSE
        BY <2>2
      <4>. QED
        BY <2>4, <4>1 DEF Unused
    <3>3. BlocksOK(f) /\ BlocksOK(g) /\ g \in FuncRec
      BY <1>1, <2>4 DEF FuncOK
    <3>. QED
      BY <1>1, <2>4, <3>1, <3>2, <3>3, ClosesKept
  <2>6. next - p - 3 \in Int
    BY <1>2, <2>2
  <2>7. Sound(Put(fs, g), visible, captured)
    BY <1>2, <2>4, <2>5, <2>6, FuncSound
  <2>. QED
    BY <2>1, <2>7
<1>. QED
  BY <1>3, <1>4

LEMMA KeepsFurther ==
  ASSUME NEW f \in FuncRec, NEW g \in FuncRec, NEW h \in FuncRec, KeepsVars(f, g), KeepsVars(g, h)
  PROVE  KeepsVars(f, h)
<1>1. Len(AllVars(f)) \in Nat /\ Len(AllVars(g)) \in Nat /\ Len(AllVars(h)) \in Nat
  BY VarsOf
<1>2. \A i \in 1 .. Len(AllVars(h)) : i \in 1 .. Len(AllVars(g))
  BY <1>1 DEF KeepsVars
<1>. QED
  BY <1>1, <1>2 DEF KeepsVars

LEMMA EnterKeeps ==
  ASSUME NEW f \in FuncRec, NEW g, NEW first, Entered(f, g, first)
  PROVE  KeepsVars(f, g)
<1>1. AllVars(g) = AllVars(f)
  BY DEF Entered, AllVars
<1>. QED
  BY <1>1, VarsOf DEF KeepsVars

\* g is f in the block of a for statement: the four variables are active.
ForEntered(f, g) ==
  /\ FuncOK(g) /\ g.upvalues = f.upvalues /\ KeepsVars(f, g)
  /\ Len(g.actvar) = Len(f.actvar) + 4
  /\ \A i \in 1 .. 4 : g.actvar[Len(f.actvar) + i] = f.pending[i]
  /\ NewScope(f, g, <<f.pending[4]>>, Len(f.actvar) + 3, Len(f.bl))
  /\ \A i \in Len(f.bl) + 1 .. Len(g.bl) : g.bl[i].nActVar >= Len(f.actvar) /\ g.bl[i].upval = FALSE

LEMMA ForEnters ==
  ASSUME NEW f \in FuncRec, FuncOK(f), ForPending(f)
  PROVE  ForEntered(f, Enter(Adjust(Enter(Adjust(f, 3), FALSE, FALSE), 1), FALSE, FALSE))
<1>. DEFINE f1 == Adjust(f, 3)  f2 == Enter(f1, FALSE, FALSE)  f3 == Adjust(f2, 1)
            g == Enter(f3, FALSE, FALSE)  n == Len(f.bl)  p == Len(f.actvar)
<1>1. /\ Len(f.pending) = 4 /\ (\A i \in 1 .. 3 : f.pending[i].name = Hidden)
      /\ n > 0 /\ f.bl[n].first /\ f.bl[n].nActVar = p /\ BlocksOK(f)
      /\ NumbersOK(f.actvar) /\ NumbersOK(f.pending) /\ LimitsOK(f)
  BY DEF FuncOK, PendingOK
<1>2. n \in Nat /\ p \in Nat /\ f.actvar \in Seq(Rec) /\ f.pending \in Seq(Rec)
  BY FuncTypes
<1>3. 3 \in 0 .. Len(f.pending)
  BY <1>1
<1>4. /\ f1 \in FuncRec /\ f1.bl = f.bl /\ f1.upvalues = f.upvalues
      /\ Len(f1.actvar) = p + 3 /\ (\A i \in 1 .. p : f1.actvar[i] = f.actvar[i])
      /\ (\A i \in 1 .. 3 : f1.actvar[p + i] = f.pending[i])
      /\ Len(f1.pending) = Len(f.pending) - 3
      /\ \A i \in 1 .. Len(f.pending) - 3 : f1.pending[i] = f.pending[3 + i]
  BY <1>3, AdjustIs
<1>5. KeepsVars(f, f1) /\ BlocksOK(f1)
  BY <1>1, <1>3, AdjustKeeps, AdjustBlocks
<1>. HIDE DEF f1
<1>6. Len(f1.pending) = 1 /\ f1.pending[1] = f.pending[4]
  BY <1>1, <1>4
<1>7. Entered(f1, f2, FALSE)
  BY <1>4, EnterIs
<1>8. BlocksOK(f2)
  BY <1>1, <1>4, <1>5, EnterBlocks
<1>. HIDE DEF f2
<1>9. KeepsVars(f1, f2) /\ f2 \in FuncRec
  BY <1>4, <1>7, EnterKeeps DEF Entered
<1>10. /\ f2.actvar = f1.actvar /\ Len(f2.pending) = 1 /\ f2.pending[1] = f.pending[4]
       /\ f2.upvalues = f.upvalues
       /\ Len(f2.bl) = n + 1 /\ (\A i \in 1 .. n : f2.bl[i] = f.bl[i])
       /\ f2.bl[n + 1].nActVar = p + 3 /\ f2.bl[n + 1].upval = FALSE /\ f2.bl[n + 1].first = FALSE
  BY <1>4, <1>6, <1>7 DEF Entered
<1>11. 1 \in 0 .. Len(f2.pending)
  BY <1>10
<1>12. /\ f3 \in FuncRec /\ f3.bl = f2.bl /\ f3.upvalues = f2.upvalues
       /\ Len(f3.actvar) = Len(f2.actvar) + 1
       /\ (\A i \in 1 .. Len(f2.actvar) : f3.actvar[i] = f2.actvar[i])
       /\ (\A i \in 1 .. 1 : f3.actvar[Len(f2.actvar) + i] = f2.pending[i])
       /\ Len(f3.pending) = Len(f2.pending) - 1
  BY <1>9, <1>11, AdjustIs
<1>13. KeepsVars(f2, f3) /\ BlocksOK(f3)
  BY <1>8, <1>9, <1>11, AdjustKeeps, AdjustBlocks
<1>. HIDE DEF f3
<1>14. Entered(f3, g, FALSE)
  BY <1>12, EnterIs
<1>15. BlocksOK(g)
  <2>1. Len(f3.bl) > 0
    BY <1>2, <1>10, <1>12
  <2>. QED
    BY <1>12, <1>13, <2>1, EnterBlocks
<1>. HIDE DEF g
<1>16. KeepsVars(f3, g) /\ g \in FuncRec
  BY <1>12, <1>14, EnterKeeps DEF Entered
<1>17. KeepsVars(f, g)
  BY <1>4, <1>5, <1>9, <1>12, <1>13, <1>16, KeepsFurther
<1>18. /\ g.actvar = f3.actvar /\ g.pending = f3.pending /\ g.upvalues = f.upvalues
       /\ Len(g.bl) = n + 1 + 1 /\ (\A i \in 1 .. n + 1 : g.bl[i] = f2.bl[i])
       /\ g.bl[n + 1 + 1].nActVar = Len(f3.actvar) /\ g.bl[n + 1 + 1].upval = FALSE
       /\ g.bl[n + 1 + 1].first = FALSE
  BY <1>10, <1>12, <1>14 DEF Entered
<1>. HIDE DEF n, p
<1>19. /\ Len(g.actvar) = p + 4 /\ (\A i \in 1 .. p : g.actvar[i] = f.actvar[i])
       /\ \A i \in 1 .. 4 : g.actvar[p + i] = f.pending[i]
  <2>1. Len(f2.actvar) = p + 3 /\ p + 3 + 1 = p + 4
    BY <1>2, <1>4, <1>10
  <2>2. Len(g.actvar) = p + 4
    BY <1>12, <1>18, <2>1
  <2>3. \A i \in 1 .. p + 3 : g.actvar[i] = f1.actvar[i]
    BY <1>10, <1>12, <1>18, <2>1
  <2>4. (\A i \in 1 .. p : i \in 1 .. p + 3) /\ \A i \in 1 .. 3 : p + i \in 1 .. p + 3
    BY <1>2
  <2>5. g.actvar[p + 4] = f.pending[4]
    <3>1. f3.actvar[Len(f2.actvar) + 1] = f2.pending[1]
      BY <1>12
    <3>. QED
      BY <1>10, <1>18, <2>1, <3>1
  <2>6. \A i \in 1 .. 3 : g.actvar[p + i] = f.pending[i]
    BY <1>4, <2>3, <2>4
  <2>7. \A i \in 1 .. 4 : i \in 1 .. 3 \/ i = 4
    OBVIOUS
  <2>8. \A i \in 1 .. p : g.actvar[i] = f.actvar[i]
    BY <1>4, <2>3, <2>4
  <2>9. \A i \in 1 .. 4 : g.actvar[p + i] = f.pending[i]
    BY <2>5, <2>6, <2>7
  <2>. QED
    BY <2>2, <2>8, <2>9
<1>20. Len(g.pending) = 0 /\ ~ForPending(g)
  <2>1. Len(g.pending) = 0
    BY <1>10, <1>12, <1>18
  <2>2. g.pending \in Seq(Rec)
    BY <1>16, FuncTypes
  <2>. QED
    BY <2>1, <2>2, EmptySeq DEF ForPending
<1>21. FuncOK(g)
  <2>1. NumbersOK(g.actvar)
    <3>1. g.actvar \in Seq(Rec)
      BY <1>16, FuncTypes
    <3>2. /\ Len(g.actvar) = Len(f.actvar) + Len(f.pending)
          /\ (\A i \in 1 .. Len(f.actvar) : g.actvar[i] = f.actvar[i])
          /\ \A i \in 1 .. Len(f.pending) : g.actvar[Len(f.actvar) + i] = f.pending[i]
      BY <1>1, <1>19 DEF p
    <3>. QED
      BY <1>1, <1>2, <3>1, <3>2, GrownNumbers
  <2>2. NumbersOK(g.pending) /\ PendingOK(g)
    <3>1. \A i \in 1 .. Len(g.pending) : FALSE
      BY <1>20
    <3>. QED
      BY <1>20, <3>1 DEF NumbersOK, PendingOK
  <2>3. LimitsOK(g)
    <3>1. p + 4 <= LUAI_MAXVARS /\ Len(f.upvalues) <= LUAI_MAXUPVALUES
      BY <1>1 DEF LimitsOK, p
    <3>2. Len(g.actvar) + Len(g.pending) = p + 4
      BY <1>2, <1>19, <1>20
    <3>. QED
      BY <1>18, <3>1, <3>2 DEF LimitsOK
  <2>. QED
    BY <1>15, <1>16, <2>1, <2>2, <2>3 DEF FuncOK
<1>22. \A i \in 1 .. n : g.bl[i] = f.bl[i]
  <2>1. \A i \in 1 .. n : i \in 1 .. n + 1
    BY <1>2
  <2>. QED
    BY <1>10, <1>18, <2>1
<1>23. \A i \in n + 1 .. Len(g.bl) : g.bl[i].nActVar >= p /\ g.bl[i].upval = FALSE /\ ~g.bl[i].first
  <2>1. n + 1 \in 1 .. n + 1 /\ p + 3 >= p /\ p + 4 >= p /\ \A i \in n + 1 .. n + 1 + 1 : i = n + 1 \/ i = n + 1 + 1
    BY <1>2
  <2>2. g.bl[n + 1] = f2.bl[n + 1] /\ g.bl[n + 1 + 1].nActVar = p + 4
    BY <1>18, <1>19, <2>1
  <2>3. ASSUME NEW i \in n + 1 .. Len(g.bl)
        PROVE  g.bl[i].nActVar >= p /\ g.bl[i].upval = FALSE /\ ~g.bl[i].first
    <3>1. CASE i = n + 1
      BY <1>10, <2>1, <2>2, <3>1
    <3>2. CASE i = n + 1 + 1
      BY <1>18, <2>1, <2>2, <3>2
    <3>. QED
      BY <1>18, <2>1, <3>1, <3>2
  <2>. QED
    BY <2>3
<1>24. NewScope(f, g, <<f.pending[4]>>, p + 3, n)
  <2>1. p + 3 \in Nat /\ p <= p + 3 /\ p + 4 = p + 3 + 1
    BY <1>2
  <2>2. \A i \in p + 1 .. p + 3 : g.actvar[i].name = Hidden
    <3>1. TAKE i \in p + 1 .. p + 3
    <3>. DEFINE j == i - p
    <3>2. j \in 1 .. 3 /\ j \in 1 .. 4 /\ p + j = i
      BY <1>2
    <3>. HIDE DEF j
    <3>3. g.actvar[p + j] = f.pending[j] /\ f.pending[j].name = Hidden
      BY <1>1, <1>19, <3>2
    <3>. QED
      BY <3>2, <3>3
  <2>3. n \in 1 .. Len(g.bl) /\ g.bl[n].first /\ g.bl[n].nActVar = p /\ n <= Len(g.bl)
    <3>1. n \in 1 .. n /\ n \in 1 .. n + 1 + 1 /\ n <= n + 1 + 1
      BY <1>1, <1>2
    <3>2. g.bl[n] = f.bl[n]
      BY <1>22, <3>1
    <3>. QED
      BY <1>1, <1>18, <3>1, <3>2
  <2>. DEFINE w == <<f.pending[4]>>
  <2>4. Len(w) = 1 /\ w[1] = f.pending[4]
    OBVIOUS
  <2>. HIDE DEF w
  <2>5. \A i \in 1 .. Len(w) : g.actvar[p + 3 + i] = w[i]
    <3>1. \A i \in 1 .. Len(w) : i = 1
      BY <2>4
    <3>2. g.actvar[p + 3 + 1] = w[1]
      BY <1>19, <2>1, <2>4
    <3>. QED
      BY <3>1, <3>2
  <2>6. Len(g.actvar) = p + 3 + Len(w)
    BY <1>19, <2>1, <2>4
  <2>7. NewScope(f, g, w, p + 3, n)
    BY <1>19, <1>20, <1>22, <1>23, <2>1, <2>2, <2>3, <2>5, <2>6 DEF NewScope, n, p
  <2>. QED
    BY <2>7 DEF w
<1>25. ForEntered(f, g)
  BY <1>17, <1>18, <1>19, <1>21, <1>23, <1>24 DEF ForEntered, n, p
<1>. QED
  BY <1>25 DEF g, f1, f2, f3

LEMMA ForBodyKeeps ==
  ASSUME Sound(fs, visible, captured), ForBody
  PROVE  Sound(fs, visible, captured)'
<1>. DEFINE f == fs[Len(fs)]  p == Len(f.actvar)
            g == Enter(Adjust(Enter(Adjust(f, 3), FALSE, FALSE), 1), FALSE, FALSE)
<1>1. /\ f \in FuncRec /\ FuncOK(f) /\ p \in Nat /\ f.pending \in Seq(Rec)
  BY Innermost, FuncTypes
<1>2. /\ f.pending # <<>> /\ Head(f.pending).name = Hidden
      /\ fs' = Put(fs, g) /\ visible' = Append(visible, <<f.pending[4]>>) /\ captured' = captured
  BY DEF ForBody, Declaring, Func, SetFunc, Put
<1>3. ForPending(f)
  BY <1>1, <1>2 DEF ForPending
<1>4. ForEntered(f, g)
  BY <1>1, <1>3, ForEnters
<1>. HIDE DEF g
<1>5. Unused(g, p, captured)
  <2>1. Len(f.pending) = 4 /\ \A i \in 1 .. 4 : f.pending[i].id \notin captured
    <3>1. Len(f.pending) = 4
      BY <1>1, <1>3 DEF FuncOK, PendingOK
    <3>. QED
      BY <3>1, PendingUnused
  <2>2. ASSUME NEW v \in p + 1 .. Len(g.actvar) PROVE g.actvar[v].id \notin captured
    <3>. DEFINE j == v - p
    <3>1. j \in 1 .. 4 /\ p + j = v
      <4>1. Len(g.actvar) = p + 4
        BY <1>4 DEF ForEntered
      <4>. HIDE DEF p
      <4>. QED
        BY <1>1, <4>1
    <3>. HIDE DEF j
    <3>2. g.actvar[p + j] = f.pending[j]
      BY <1>4, <3>1 DEF ForEntered
    <3>. QED
      BY <2>1, <3>1, <3>2
  <2>. QED
    BY <2>2 DEF Unused
<1>6. <<f.pending[4]>> \in Seq(Rec)
  <2>1. Len(f.pending) = 4
    BY <1>1, <1>3 DEF FuncOK, PendingOK
  <2>2. f.pending[4] \in Rec
    BY <1>1, <2>1
  <2>. QED
    BY <2>2
<1>7. Sound(Put(fs, g), Append(visible, <<f.pending[4]>>), captured)
  BY <1>4, <1>5, <1>6, ScopeSound DEF ForEntered
<1>. QED
  BY <1>2, <1>7
-----------------------------------------------------------------------------
(* Functions begin *)

\* openFunc and parList: a function with its parameters.
NewFunc(h, w) ==
  /\ h \in FuncRec /\ h.actvar = w /\ h.pending = <<>> /\ h.bl = <<>> /\ h.upvalues = <<>>

\* A function whose pending variables are any in a set, and what EXCEPT makes of it.
PreRec(S) ==
  [actvar : Seq(Rec), pending : Seq(S), bl : Seq(BlockRec), upvalues : Seq(UpRec),
   isVarArg : SUBSET {"HASARG", "NEEDSARG", "ISVARARG"}, numParams : Int]

LEMMA OpenedIs ==
  ASSUME NEW S
  PROVE  /\ Opened \in PreRec(S) /\ Len(Opened.actvar) = 0
         /\ Opened.actvar = <<>> /\ Opened.bl = <<>> /\ Opened.upvalues = <<>>
<1>1. /\ <<>> \in Seq(Rec) /\ <<>> \in Seq(BlockRec) /\ <<>> \in Seq(UpRec) /\ <<>> \in Seq(S)
  BY EmptySeq
<1>2. /\ Opened.actvar = <<>> /\ Opened.bl = <<>> /\ Opened.upvalues = <<>>
  BY DEF Opened
<1>3. Opened \in PreRec(S)
  BY <1>1 DEF Opened, PreRec
<1>. QED
  BY <1>2, <1>3

LEMMA DeclaredIs ==
  ASSUME NEW S, NEW f \in PreRec(S), NEW d \in Seq(S)
  PROVE  LET g == Declare(f, d)
         IN  g \in PreRec(S) /\ g.actvar = f.actvar /\ g.bl = f.bl /\ g.upvalues = f.upvalues /\ g.pending = d
  BY DEF Declare, PreRec

Activated(f, w, b, g) == g = [f EXCEPT !.actvar = w, !.pending = b]
WithArgs(f, v, k, e, g) == g = [f EXCEPT !.isVarArg = v, !.numParams = k, !.pending = e]

LEMMA ActiveSet ==
  ASSUME NEW S, NEW f \in PreRec(S), NEW w \in Seq(Rec), NEW b \in Seq(S),
         NEW g, Activated(f, w, b, g)
  PROVE  g \in PreRec(S) /\ g.actvar = w /\ g.bl = f.bl /\ g.upvalues = f.upvalues
  BY DEF PreRec, Activated

LEMMA ParamsSet ==
  ASSUME NEW S, NEW f \in PreRec(S), NEW v \in SUBSET {"HASARG", "NEEDSARG", "ISVARARG"}, NEW k \in Int,
         NEW e \in Seq(Rec), NEW g, WithArgs(f, v, k, e, g)
  PROVE  g \in FuncRec /\ g.actvar = f.actvar /\ g.bl = f.bl /\ g.upvalues = f.upvalues /\ g.pending = e
  BY DEF PreRec, FuncRec, WithArgs

LEMMA WithParamsIs ==
  ASSUME NEW w \in Seq(Rec), NEW dots \in BOOLEAN
  PROVE  NewFunc(WithParams(w, dots), w)
<1>. DEFINE R == Rec \cup {Local(Arg, 0)}
            more == IF dots THEN <<Local(Arg, 0)>> ELSE <<>>
            d == w \o more
            a == SubSeq(d, 1, Len(w))
<1>1. w \in Seq(R) /\ more \in Seq(R) /\ Len(w) \in Nat /\ Len(more) \in Nat
  <2>1. Local(Arg, 0) \in R
    OBVIOUS
  <2>2. \A i \in 1 .. Len(w) : w[i] \in R
    OBVIOUS
  <2>. HIDE DEF R
  <2>3. w \in Seq(R)
    BY <2>2, LenProperties
  <2>4. more \in Seq(R)
    BY <2>1, EmptySeq
  <2>. QED
    BY <2>3, <2>4, LenProperties
<1>. HIDE DEF R, more
<1>2. /\ d \in Seq(R) /\ Len(d) = Len(w) + Len(more)
      /\ \A i \in 1 .. Len(w) + Len(more) : d[i] = IF i <= Len(w) THEN w[i] ELSE more[i - Len(w)]
  BY <1>1, ConcatProperties
<1>3. a = w
  <2>1. Len(w) \in 0 .. Len(d)
    BY <1>1, <1>2
  <2>. HIDE DEF d
  <2>2. a \in Seq(R) /\ Len(a) = Len(w) /\ \A i \in 1 .. Len(w) : a[i] = d[i]
    BY <1>2, <2>1, PrefixIs
  <2>. DEFINE n == Len(w)  m == Len(more)
  <2>3. n \in Nat /\ m \in Nat /\ \A i \in 1 .. n + m : d[i] = IF i <= n THEN w[i] ELSE more[i - n]
    BY <1>1, <1>2
  <2>. HIDE DEF n, m
  <2>4. \A i \in 1 .. n : i \in 1 .. n + m /\ i <= n
    BY <2>3
  <2>5. \A i \in 1 .. n : d[i] = w[i]
    BY <2>3, <2>4
  <2>. HIDE DEF a
  <2>6. \A i \in 1 .. Len(a) : a[i] = w[i]
    BY <2>2, <2>5 DEF n
  <2>. QED
    BY <1>1, <2>2, <2>6, SeqEqual
<1>4. <<>> \o a = w
  BY <1>3, ConcatEmptySeq
<1>. DEFINE f == Adjust(Declare(Opened, d), Len(w))
            v == IF dots THEN {"HASARG", "NEEDSARG", "ISVARARG"} ELSE {}
            k == Len(f.actvar) - (IF dots THEN 1 ELSE 0)
            h == [f EXCEPT !.isVarArg = v, !.numParams = k, !.pending = <<>>]
<1>5. h = WithParams(w, dots)
  BY DEF WithParams, more
<1>. HIDE DEF d
<1>6. Opened \in PreRec(R) /\ Opened.actvar = <<>> /\ Opened.bl = <<>> /\ Opened.upvalues = <<>>
  BY OpenedIs
<1>. DEFINE f1 == Declare(Opened, d)  b == SubSeq(d, Len(w) + 1, Len(d))
<1>7. f1 \in PreRec(R) /\ f1.actvar = Opened.actvar /\ f1.bl = Opened.bl /\ f1.upvalues = Opened.upvalues
      /\ f1.pending = d
  BY <1>2, <1>6, DeclaredIs
<1>. HIDE DEF f1
<1>8. f \in PreRec(R) /\ f.actvar = w /\ f.bl = Opened.bl /\ f.upvalues = Opened.upvalues
  <2>1. b \in Seq(R)
    <3>1. Len(w) \in 0 .. Len(d)
      BY <1>1, <1>2
    <3>. QED
      BY <1>2, <3>1, SuffixIs
  <2>. HIDE DEF a, b
  <2>2. Activated(f1, w, b, f)
    BY <1>4, <1>6, <1>7 DEF Adjust, Activated, f1, a, b
  <2>. HIDE DEF f
  <2>3. f \in PreRec(R) /\ f.actvar = w /\ f.bl = f1.bl /\ f.upvalues = f1.upvalues
    BY <1>7, <2>1, <2>2, ActiveSet
  <2>. QED
    BY <1>7, <2>3
<1>. HIDE DEF f
<1>9. k \in Int
  BY <1>1, <1>8
<1>10. v \in SUBSET {"HASARG", "NEEDSARG", "ISVARARG"}
  OBVIOUS
<1>. HIDE DEF k, v
<1>11. h \in FuncRec /\ h.actvar = f.actvar /\ h.bl = f.bl /\ h.upvalues = f.upvalues /\ h.pending = <<>>
  <2>. DEFINE e == <<>>
  <2>1. e \in Seq(Rec)
    BY EmptySeq
  <2>2. WithArgs(f, v, k, e, h)
    BY DEF WithArgs
  <2>. HIDE DEF e, h
  <2>3. h \in FuncRec /\ h.actvar = f.actvar /\ h.bl = f.bl /\ h.upvalues = f.upvalues /\ h.pending = e
    BY <1>8, <1>9, <1>10, <2>1, <2>2, ParamsSet
  <2>. QED
    BY <2>3 DEF e
<1>. HIDE DEF h
<1>14. NewFunc(h, w)
  BY <1>6, <1>8, <1>11 DEF NewFunc
<1>. QED
  BY <1>5, <1>14

LEMMA NewFuncOK ==
  ASSUME NEW h, NEW w \in Seq(Rec), NewFunc(h, w), Named(w), \A i \in 1 .. Len(w) : w[i].id # 0,
         Len(w) <= LUAI_MAXVARS
  PROVE  FuncOK(h) /\ ~ForPending(h) /\ Len(h.bl) = 0
<1>1. h \in FuncRec /\ h.actvar = w /\ Len(h.pending) = 0 /\ Len(h.bl) = 0 /\ Len(h.upvalues) = 0
  BY EmptySeq DEF NewFunc
<1>2. ~ForPending(h)
  BY DEF NewFunc, ForPending
<1>3. \A i \in 1 .. 0 : FALSE
  OBVIOUS
<1>4. NumbersOK(h.actvar) /\ NumbersOK(h.pending)
  BY <1>1, <1>3, NamedNumbers DEF NumbersOK
<1>5. BlocksOK(h)
  BY <1>1, <1>3 DEF BlocksOK
<1>6. PendingOK(h)
  BY <1>1, <1>2, <1>3 DEF PendingOK
<1>7. LimitsOK(h)
  BY <1>1, LimitAssumption, LenProperties DEF LimitsOK
<1>. QED
  BY <1>1, <1>2, <1>4, <1>5, <1>6, <1>7 DEF FuncOK

LEMMA ScopesOpen ==
  ASSUME NEW s \in Seq(FuncRec), Len(s) > 0, NEW h \in FuncRec, Len(h.bl) = 0,
         NEW vis \in Seq(Seq(Rec)), NEW vis2, OneMore(vis, vis2, h.actvar), ScopesOK(s, vis)
  PROVE  ScopesOK(Append(s, h), vis2)
<1>. DEFINE L == Len(s)  V == Len(vis)  t == Append(s, h)  w == h.actvar
<1>1. PICK lev, lo, blk : ScopesAt(s, vis, lev, lo, blk)
  BY DEF ScopesOK
<1>2. /\ t \in Seq(FuncRec) /\ Len(t) = L + 1 /\ L \in Nat /\ t[L + 1] = h
      /\ \A l \in 1 .. L : t[l] = s[l]
  BY AppendProperties, LenProperties
<1>. DEFINE lev2 == [a \in 1 .. V + 1 |-> IF a = V + 1 THEN L + 1 ELSE lev[a]]
            lo2 == [a \in 1 .. V + 1 |-> IF a = V + 1 THEN 0 ELSE lo[a]]
            blk2 == [a \in 1 .. V + 1 |-> IF a = V + 1 THEN 0 ELSE blk[a]]
<1>3. /\ V \in Nat /\ Len(vis2) = V + 1 /\ vis2[V + 1] = w /\ (\A a \in 1 .. V : vis2[a] = vis[a])
      /\ Len(w) \in Nat
  BY FuncTypes, LenProperties DEF OneMore
<1>4. /\ V + 1 \in 1 .. V + 1 /\ (\A a \in 1 .. V : a \in 1 .. V + 1 /\ a # V + 1)
      /\ \A a \in 1 .. V + 1 : a \in 1 .. V \/ a = V + 1
  BY <1>3
<1>5. /\ lev2[V + 1] = L + 1 /\ lo2[V + 1] = 0 /\ blk2[V + 1] = 0
      /\ \A a \in 1 .. V : lev2[a] = lev[a] /\ lo2[a] = lo[a] /\ blk2[a] = blk[a]
  BY <1>4
<1>6. \A a \in 1 .. V : lev[a] \in 1 .. L /\ lo[a] \in Nat /\ blk[a] \in Nat
  BY <1>1, ScopesAre
<1>7. ScopesAt(s, vis, lev, lo, blk)
  BY <1>1
<1>8. \A l \in 1 .. L : l \in 1 .. L + 1 /\ l # L + 1 /\ l < L + 1
  BY <1>2
<1>9. lev2 \in [1 .. V + 1 -> 1 .. L + 1] /\ lo2 \in [1 .. V + 1 -> Nat] /\ blk2 \in [1 .. V + 1 -> Nat]
  BY <1>2, <1>4, <1>6, <1>8
<1>. HIDE DEF t, lev2, lo2, blk2, L, V, w
<1>10. ScopeEnd(vis2, lo2, V + 1) = Len(w) /\ \A a \in 1 .. V : ScopeEnd(vis2, lo2, a) = ScopeEnd(vis, lo, a)
  BY <1>3, <1>5 DEF ScopeEnd
<1>11. InOrder(vis2, lev2, lo2, blk2)
  <2>1. ASSUME NEW a \in 1 .. V + 1, NEW b \in 1 .. V + 1, a < b
        PROVE  /\ lev2[a] <= lev2[b]
               /\ lev2[a] = lev2[b] => ScopeEnd(vis2, lo2, a) <= lo2[b] /\ blk2[a] < blk2[b]
    <3>1. a \in 1 .. V
      BY <1>3, <2>1
    <3>2. CASE b \in 1 .. V
      <4>1. /\ lev[a] <= lev[b]
            /\ lev[a] = lev[b] => ScopeEnd(vis, lo, a) <= lo[b] /\ blk[a] < blk[b]
        BY <1>7, <2>1, <3>1, <3>2 DEF ScopesAt, InOrder, V
      <4>. QED
        BY <1>5, <1>10, <3>1, <3>2, <4>1
    <3>3. CASE b = V + 1
      <4>1. lev[a] < L + 1
        BY <1>6, <1>8, <3>1
      <4>2. lev[a] \in Nat /\ L + 1 \in Nat
        BY <1>2, <1>6, <3>1
      <4>. QED
        BY <1>5, <3>1, <3>3, <4>1, <4>2
    <3>. QED
      BY <1>4, <3>2, <3>3
  <2>. QED
    BY <1>3, <2>1 DEF InOrder
<1>12. ASSUME NEW a \in 1 .. V + 1 PROVE ScopeFits(t[lev2[a]], vis2, lev2, lo2, blk2, a)
  <2>1. CASE a = V + 1
    <3>1. t[lev2[a]] = h /\ lo2[a] = 0 /\ blk2[a] = 0 /\ vis2[a] = w /\ ScopeEnd(vis2, lo2, a) = Len(w)
      BY <1>2, <1>3, <1>5, <1>10, <2>1
    <3>2. Len(w) <= Len(h.actvar) /\ \A i \in 1 .. Len(w) : h.actvar[0 + i] = w[i]
      BY <1>3 DEF w
    <3>. QED
      BY <3>1, <3>2 DEF ScopeFits
  <2>2. CASE a \in 1 .. V
    <3>. DEFINE e == s[lev[a]]
    <3>1. ScopeFits(e, vis, lev, lo, blk, a)
      BY <1>7, <2>2 DEF ScopesAt, V
    <3>2. lev[a] \in 1 .. L /\ t[lev[a]] = e
      BY <1>2, <1>6, <2>2
    <3>. HIDE DEF e
    <3>3. blk[a] # 0 => a > 1 /\ a - 1 \in 1 .. V
      BY <1>3, <2>2, <3>1 DEF ScopeFits
    <3>4. /\ lev2[a] = lev[a] /\ lo2[a] = lo[a] /\ blk2[a] = blk[a] /\ vis2[a] = vis[a]
          /\ ScopeEnd(vis2, lo2, a) = ScopeEnd(vis, lo, a)
          /\ blk[a] # 0 => lev2[a - 1] = lev[a - 1] /\ ScopeEnd(vis2, lo2, a - 1) = ScopeEnd(vis, lo, a - 1)
      BY <1>3, <1>5, <1>10, <2>2, <3>3
    <3>5. ScopeFits(e, vis2, lev2, lo2, blk2, a)
      BY <3>1, <3>4 DEF ScopeFits
    <3>. QED
      BY <3>2, <3>4, <3>5
  <2>. QED
    BY <1>4, <2>1, <2>2
<1>13. ASSUME NEW l \in 1 .. L PROVE LevelFits(t[l], vis2, lev2, lo2, blk2, l)
  <2>. DEFINE e == s[l]
  <2>1. t[l] = e /\ LevelFits(e, vis, lev, lo, blk, l)
    BY <1>2, <1>7 DEF ScopesAt, L
  <2>. HIDE DEF e
  <2>2. \A i \in 1 .. Len(e.actvar) : e.actvar[i].name # Hidden =>
          \E a \in 1 .. V + 1 : lev2[a] = l /\ i \in lo2[a] + 1 .. ScopeEnd(vis2, lo2, a)
    <3>. SUFFICES ASSUME NEW i \in 1 .. Len(e.actvar), e.actvar[i].name # Hidden
                  PROVE  \E a \in 1 .. V + 1 : lev2[a] = l /\ i \in lo2[a] + 1 .. ScopeEnd(vis2, lo2, a)
      OBVIOUS
    <3>1. PICK a \in 1 .. V : lev[a] = l /\ i \in lo[a] + 1 .. ScopeEnd(vis, lo, a)
      BY <2>1 DEF LevelFits, V
    <3>2. a \in 1 .. V + 1 /\ lev2[a] = lev[a] /\ lo2[a] = lo[a] /\ ScopeEnd(vis2, lo2, a) = ScopeEnd(vis, lo, a)
      BY <1>4, <1>5, <1>10
    <3>. QED
      BY <3>1, <3>2
  <2>3. \E a \in 1 .. V + 1 : /\ lev2[a] = l /\ ScopeEnd(vis2, lo2, a) = Len(e.actvar)
                              /\ \A b \in a + 1 .. V + 1 : lev2[b] > l
    <3>1. PICK a \in 1 .. V : /\ lev[a] = l /\ ScopeEnd(vis, lo, a) = Len(e.actvar)
                              /\ \A b \in a + 1 .. V : lev[b] > l
      BY <2>1 DEF LevelFits, V
    <3>2. \A b \in a + 1 .. V + 1 : b = V + 1 \/ (b \in a + 1 .. V /\ b \in 1 .. V)
      BY <1>3
    <3>3. L + 1 > l
      BY <1>2
    <3>4. a \in 1 .. V + 1 /\ lev2[a] = l /\ ScopeEnd(vis2, lo2, a) = Len(e.actvar)
      BY <1>4, <1>5, <1>10, <3>1
    <3>5. ASSUME NEW b \in a + 1 .. V + 1 PROVE lev2[b] > l
      BY <1>5, <3>1, <3>2, <3>3
    <3>. QED
      BY <3>4, <3>5
  <2>4. ASSUME NEW i \in 1 .. Len(e.bl), e.bl[i].first
        PROVE  IF i = Len(e.bl) /\ ForPending(e)
               THEN \A a \in 1 .. V + 1 : lev2[a] = l => blk2[a] # i
               ELSE \E a \in 1 .. V + 1 : lev2[a] = l /\ blk2[a] = i
    <3>1. IF i = Len(e.bl) /\ ForPending(e)
          THEN \A a \in 1 .. V : lev[a] = l => blk[a] # i
          ELSE \E a \in 1 .. V : lev[a] = l /\ blk[a] = i
      BY <2>1, <2>4 DEF LevelFits, V
    <3>2. CASE i = Len(e.bl) /\ ForPending(e)
      <4>1. \A a \in 1 .. V + 1 : lev2[a] = l => blk2[a] # i
        BY <1>4, <1>5, <1>8, <3>1, <3>2
      <4>. QED
        BY <3>2, <4>1
    <3>3. CASE ~(i = Len(e.bl) /\ ForPending(e))
      <4>1. PICK a \in 1 .. V : lev[a] = l /\ blk[a] = i
        BY <3>1, <3>3
      <4>2. a \in 1 .. V + 1 /\ lev2[a] = l /\ blk2[a] = i
        BY <1>4, <1>5, <4>1
      <4>. QED
        BY <3>3, <4>2
    <3>. QED
      BY <3>2, <3>3
  <2>5. Len(vis2) = V + 1
    BY <1>3
  <2>6. LevelFits(e, vis2, lev2, lo2, blk2, l)
    BY <2>2, <2>3, <2>4, <2>5 DEF LevelFits
  <2>. QED
    BY <2>1, <2>6
<1>14. LevelFits(h, vis2, lev2, lo2, blk2, L + 1)
  <2>1. \A i \in 1 .. Len(h.actvar) : i \in lo2[V + 1] + 1 .. ScopeEnd(vis2, lo2, V + 1)
    BY <1>3, <1>5, <1>10 DEF w
  <2>2. \A b \in V + 1 + 1 .. V + 1 : FALSE
    BY <1>3
  <2>3. \A i \in 1 .. 0 : FALSE
    OBVIOUS
  <2>4. ScopeEnd(vis2, lo2, V + 1) = Len(h.actvar)
    BY <1>10 DEF w
  <2>. QED
    BY <1>3, <1>4, <1>5, <2>1, <2>2, <2>3, <2>4 DEF LevelFits
<1>15. \A l \in 1 .. L + 1 : LevelFits(t[l], vis2, lev2, lo2, blk2, l)
  <2>1. \A l \in 1 .. L + 1 : l \in 1 .. L \/ l = L + 1
    BY <1>2
  <2>. QED
    BY <1>2, <1>13, <1>14, <2>1
<1>16. ScopesAt(t, vis2, lev2, lo2, blk2)
  BY <1>2, <1>3, <1>9, <1>11, <1>12, <1>15 DEF ScopesAt
<1>17. ScopesOK(t, vis2)
  BY <1>16 DEF ScopesOK
<1>. QED
  BY <1>17 DEF t

LEMMA OpenSound ==
  ASSUME NEW s, NEW vis, NEW cap, Sound(s, vis, cap), NEW nx \in Nat, Above(s, nx), NEW h,
         NEW w \in Seq(Rec), NewFunc(h, w), Named(w), \A i \in 1 .. Len(w) : w[i].id = nx + i,
         Len(w) <= LUAI_MAXVARS
  PROVE  Sound(Append(s, h), Append(vis, w), cap)
<1>. DEFINE L == Len(s)  t == Append(s, h)  vis2 == Append(vis, w)
<1>1. /\ s \in Seq(FuncRec) /\ L \in Nat /\ L > 0 /\ vis \in Seq(Seq(Rec)) /\ Distinct(s) /\ UpvaluesOK(s)
      /\ CapturedOK(s, cap) /\ ClosesOK(s, cap) /\ ScopesOK(s, vis) /\ cap \in SUBSET (1 .. MAXDECLS)
      /\ \A l \in 1 .. L : FuncOK(s[l])
  BY Innermost DEF Sound, TypesOK
<1>2. \A i \in 1 .. Len(w) : w[i].id # 0
  BY LenProperties
<1>3. FuncOK(h) /\ ~ForPending(h) /\ Len(h.bl) = 0
  BY <1>2, NewFuncOK
<1>4. h \in FuncRec /\ h.actvar = w /\ Len(h.pending) = 0 /\ h.upvalues = <<>>
  BY EmptySeq DEF NewFunc
<1>5. /\ t \in Seq(FuncRec) /\ Len(t) = L + 1 /\ t[L + 1] = h
      /\ \A l \in 1 .. L : t[l] = s[l]
  BY <1>1, <1>4, AppendProperties
<1>6. OneMore(vis, vis2, w) /\ vis2 \in Seq(Seq(Rec)) /\ Len(vis2) > 0
  BY <1>1, AppendScope
<1>7. \A l \in 1 .. L + 1 : l \in 1 .. L \/ l = L + 1
  BY <1>1
<1>. HIDE DEF t, vis2, L
<1>8. TypesOK(t, vis2, cap)
  BY <1>1, <1>3, <1>5, <1>6, <1>7, SMTT(20) DEF TypesOK
<1>9. Distinct(t)
  <2>1. Fresh(s, t, nx, nx)
    <3>1. ASSUME NEW l \in 1 .. L, NEW i \in 1 .. Len(AllVars(t[l]))
          PROVE  l <= Len(s) /\ i <= Len(AllVars(s[l])) /\ AllVars(t[l])[i] = AllVars(s[l])[i]
      <4>1. t[l] = s[l] /\ l <= Len(s)
        BY <1>1, <1>5 DEF L
      <4>. QED
        BY <4>1
    <3>2. ASSUME NEW i \in 1 .. Len(AllVars(h)) PROVE AllVars(h)[i].id > nx /\ AllVars(h)[i].id = nx + i
      <4>1. i \in 1 .. Len(w) /\ AllVars(h)[i] = w[i]
        BY <1>4, ActiveOnly
      <4>. QED
        BY <4>1
    <3>. QED
      BY <1>5, <1>7, <3>1, <3>2 DEF Fresh
  <2>. QED
    BY <1>1, <1>5, <2>1, DistinctFresh
<1>10. UpvaluesOK(t)
  <2>1. \A l \in 1 .. Len(t) : t[l].upvalues = <<>> \/ (l <= Len(s) /\ t[l].upvalues = s[l].upvalues)
    BY <1>1, <1>4, <1>5, <1>7 DEF L
  <2>2. \A m \in 1 .. Len(t) : m < Len(s) => t[m].actvar = s[m].actvar /\ t[m].upvalues = s[m].upvalues
    BY <1>1, <1>5, <1>7 DEF L
  <2>. QED
    BY <1>1, <1>5, <2>1, <2>2, UpvaluesKept
<1>11. CapturedOK(t, cap)
  <2>1. \A l \in 1 .. Len(s) : Extends(s[l].actvar, t[l].actvar)
    <3>1. \A l \in 1 .. Len(s) : Len(s[l].actvar) \in Nat /\ t[l] = s[l]
      BY <1>1, <1>5, FuncTypes DEF L
    <3>. QED
      BY <3>1 DEF Extends
  <2>2. Len(s) <= Len(t)
    BY <1>1, <1>5 DEF L
  <2>. QED
    BY <1>1, <1>5, <2>1, <2>2, CapturedKept
<1>12. ClosesOK(t, cap)
  <2>1. FuncCloses(h, cap)
    BY <1>3 DEF FuncCloses
  <2>. QED
    BY <1>1, <1>5, <1>7, <2>1 DEF ClosesOK, L
<1>13. ScopesOK(t, vis2)
  BY <1>1, <1>3, <1>4, <1>6, ScopesOpen DEF t, L
<1>14. Sound(t, vis2, cap)
  BY <1>8, <1>9, <1>10, <1>11, <1>12, <1>13 DEF Sound
<1>. QED
  BY <1>14 DEF t, vis2

LEMMA SamePut ==
  ASSUME NEW s \in Seq(FuncRec), Len(s) > 0
  PROVE  Put(s, s[Len(s)]) = s
<1>. DEFINE e == s[Len(s)]  t == Put(s, e)
<1>1. Len(s) \in Nat /\ e \in FuncRec
  BY LenProperties, ElementOfSeq
<1>2. /\ t \in Seq(FuncRec) /\ Len(t) = Len(s) /\ t[Len(s)] = e
      /\ \A l \in 1 .. Len(s) : l # Len(s) => t[l] = s[l]
  <2>. HIDE DEF e
  <2>. QED
    BY <1>1, PutIs
<1>. HIDE DEF t
<1>3. \A l \in 1 .. Len(s) : t[l] = s[l]
  BY <1>2
<1>4. t = s
  BY <1>2, <1>3, SeqEqual
<1>. QED
  BY <1>4 DEF t

\* The numbers of what a statement or a function declares.
LEMMA DeclaredList ==
  ASSUME NEW n \in Nat, NEW ns \in Lists(n), NEW first \in Nat, first + Len(ns) <= MAXDECLS
  PROVE  /\ Locals(first, ns) \in Seq(Rec) /\ Len(Locals(first, ns)) = Len(ns) /\ Len(ns) \in Nat
         /\ Named(Locals(first, ns))
         /\ \A i \in 1 .. Len(Locals(first, ns)) : Locals(first, ns)[i].id = first + i
<1>1. PICK k \in 0 .. n : ns \in [1 .. k -> Name] /\ Len(ns) = k
  BY ListsAre
<1>. DEFINE w == Locals(first, ns)
<1>2. k \in Nat /\ first + k <= MAXDECLS
  BY <1>1
<1>3. /\ w \in Seq(Rec) /\ Len(w) = k
      /\ \A i \in 1 .. k : w[i].name # Hidden /\ w[i].id = first + i
  BY <1>1, <1>2, LocalsAre
<1>. HIDE DEF w
<1>4. /\ w \in Seq(Rec) /\ Len(w) = Len(ns) /\ Len(ns) \in Nat /\ Named(w)
      /\ \A i \in 1 .. Len(w) : w[i].id = first + i
  BY <1>1, <1>2, <1>3 DEF Named
<1>. QED
  BY <1>4 DEF w

LEMMA LocalStatKeeps ==
  ASSUME NEW ns \in Lists(2), Sound(fs, visible, captured), LocalStat(ns)
  PROVE  Sound(fs, visible, captured)'
<1>. DEFINE f == fs[Len(fs)]  w == Locals(next, ns)  p == Len(f.actvar)
<1>1. fs \in Seq(FuncRec) /\ f \in FuncRec /\ p \in Nat
  BY Innermost, FuncTypes
<1>2. next \in Nat /\ Above(fs, next) /\ next + Len(ns) <= MAXDECLS
  BY <1>1, NextIs DEF LocalStat
<1>3. CASE TooManyVars(Func, Len(ns))
  <2>1. fs' = fs /\ visible' = visible /\ captured' = captured
    BY <1>3 DEF LocalStat, Fail
  <2>. QED
    BY <2>1
<1>4. CASE ~TooManyVars(Func, Len(ns))
  <2>1. /\ f.pending = <<>> /\ fs' = Put(fs, Declare(f, w)) /\ visible' = visible /\ captured' = captured
    BY <1>4 DEF LocalStat, Statement, Func, SetFunc, Put
  <2>2. w \in Seq(Rec) /\ Len(w) = Len(ns) /\ Len(ns) \in Nat /\ Named(w)
        /\ \A i \in 1 .. Len(w) : w[i].id = next + i
    BY <1>2, DeclaredList
  <2>. HIDE DEF w
  <2>3. p + Len(w) <= LUAI_MAXVARS
    <3>1. ~(p + Len(ns) > LUAI_MAXVARS)
      BY <1>4 DEF TooManyVars, Func
    <3>. HIDE DEF p
    <3>. QED
      BY <1>1, <2>2, <3>1, LimitAssumption
  <2>4. Sound(Put(fs, Declare(f, w)), visible, captured)
    BY <1>2, <2>1, <2>2, <2>3, DeclareSound
  <2>. QED
    BY <2>1, <2>4
<1>. QED
  BY <1>3, <1>4

LEMMA EndLocalKeeps ==
  ASSUME Sound(fs, visible, captured), EndLocal
  PROVE  Sound(fs, visible, captured)'
<1>. DEFINE f == fs[Len(fs)]
<1>1. /\ f.pending # <<>> /\ Head(f.pending).name # Hidden
      /\ fs' = Put(fs, Adjust(f, Len(f.pending)))
      /\ visible' = [visible EXCEPT ![Len(visible)] = @ \o f.pending] /\ captured' = captured
  BY DEF EndLocal, Declaring, Func, SetFunc, Put
<1>2. f.pending \in Seq(Rec)
  BY Innermost, FuncTypes
<1>3. ~ForPending(f)
  BY <1>1, <1>2 DEF ForPending
<1>4. Sound(Put(fs, Adjust(f, Len(f.pending))), [visible EXCEPT ![Len(visible)] = @ \o f.pending], captured)
  BY <1>3, ActivateSound
<1>. QED
  BY <1>1, <1>4

LEMMA UseDotsKeeps ==
  ASSUME Sound(fs, visible, captured), UseDots
  PROVE  Sound(fs, visible, captured)'
<1>. DEFINE f == fs[Len(fs)]  g == [f EXCEPT !.isVarArg = @ \ {"NEEDSARG"}]
<1>1. fs' = Put(fs, g) /\ visible' = visible /\ captured' = captured
  BY DEF UseDots, Func, SetFunc, Put
<1>2. /\ fs \in Seq(FuncRec) /\ Len(fs) > 0 /\ f \in FuncRec /\ FuncOK(f) /\ FuncCloses(f, captured)
      /\ Distinct(fs) /\ ScopesOK(fs, visible) /\ visible \in Seq(Seq(Rec)) /\ Len(visible) > 0
  BY Innermost DEF Sound
<1>3. /\ g \in FuncRec /\ g.actvar = f.actvar /\ g.pending = f.pending
      /\ g.bl = f.bl /\ g.upvalues = f.upvalues
  BY <1>2 DEF FuncRec
<1>. HIDE DEF g
<1>4. FuncOK(g) /\ FuncCloses(g, captured) /\ ForPending(g) = ForPending(f)
  BY <1>2, <1>3 DEF FuncOK, BlocksOK, PendingOK, LimitsOK, ForPending, FuncCloses, BlockEnd
<1>5. Len(f.actvar) \in Nat /\ Len(f.bl) \in Nat /\ AllVars(g) = AllVars(f) /\ Len(AllVars(f)) \in Nat
  BY <1>2, <1>3, FuncTypes, VarsOf DEF AllVars
<1>6. KeepsVars(f, g) /\ Extends(f.actvar, g.actvar)
  BY <1>3, <1>5 DEF KeepsVars, Extends
<1>7. SameShape(f, g)
  <2>1. SameShape(f, f)
    BY <1>2, SameShapeAlways
  <2>. QED
    BY <1>3, <1>4, <2>1 DEF SameShape
<1>8. Distinct(Put(fs, g)) /\ ScopesOK(Put(fs, g), visible)
  BY <1>2, <1>3, <1>6, <1>7, KeepsDistinct, ScopesPut
<1>9. Sound(Put(fs, g), visible, captured)
  BY <1>2, <1>3, <1>4, <1>6, <1>8, SoundPut
<1>. QED
  BY <1>1, <1>9

LEMMA FunctionKeeps ==
  ASSUME NEW ns \in Lists(MAXPARAMS), NEW dots \in BOOLEAN, Sound(fs, visible, captured), Function(ns, dots)
  PROVE  Sound(fs, visible, captured)'
<1>. DEFINE f == fs[Len(fs)]  w == Locals(next, ns)  h == WithParams(w, dots)
            n == Len(ns) + (IF dots THEN 1 ELSE 0)
<1>1. fs \in Seq(FuncRec) /\ Len(fs) > 0 /\ next \in Nat /\ Above(fs, next) /\ next + Len(ns) <= MAXDECLS
  BY Innermost, NextIs DEF Function, Body
<1>2. CASE TooManyVars(Opened, n)
  <2>1. fs' = fs /\ visible' = visible /\ captured' = captured
    BY <1>2 DEF Function, Body, Fail
  <2>. QED
    BY <2>1
<1>3. CASE ~TooManyVars(Opened, n)
  <2>1. fs' = Append(Put(fs, f), h) /\ visible' = Append(visible, w) /\ captured' = captured
    BY <1>3 DEF Function, Body, Func, SetFunc, Put
  <2>2. Put(fs, f) = fs
    BY <1>1, SamePut
  <2>3. MAXPARAMS \in Nat
    BY LimitAssumption
  <2>4. w \in Seq(Rec) /\ Len(w) = Len(ns) /\ Len(ns) \in Nat /\ Named(w)
        /\ \A i \in 1 .. Len(w) : w[i].id = next + i
    BY <1>1, <2>3, DeclaredList
  <2>. HIDE DEF w
  <2>5. Len(w) <= LUAI_MAXVARS
    <3>1. Len(Opened.actvar) = 0
      BY OpenedIs
    <3>2. ~(0 + n > LUAI_MAXVARS)
      BY <1>3, <3>1 DEF TooManyVars
    <3>. QED
      BY <2>4, <3>2, LimitAssumption
  <2>6. NewFunc(h, w)
    BY <2>4, WithParamsIs
  <2>. HIDE DEF h
  <2>7. Sound(Append(fs, h), Append(visible, w), captured)
    BY <1>1, <2>4, <2>5, <2>6, OpenSound
  <2>. QED
    BY <2>1, <2>2, <2>7
<1>. QED
  BY <1>2, <1>3

LEMMA FuncEqual ==
  ASSUME NEW f \in FuncRec, NEW g \in FuncRec, f.actvar = g.actvar, f.pending = g.pending, f.bl = g.bl,
         f.upvalues = g.upvalues, f.isVarArg = g.isVarArg, f.numParams = g.numParams
  PROVE  f = g
  BY DEF FuncRec

LEMMA PutTwice ==
  ASSUME NEW s \in Seq(FuncRec), Len(s) > 0, NEW f \in FuncRec, NEW g \in FuncRec
  PROVE  Put(Put(s, f), g) = Put(s, g)
<1>1. /\ Put(s, f) \in Seq(FuncRec) /\ Len(Put(s, f)) = Len(s) /\ Len(s) \in Nat
      /\ \A l \in 1 .. Len(s) : l # Len(s) => Put(s, f)[l] = s[l]
  BY PutIs
<1>2. /\ Put(s, g) \in Seq(FuncRec) /\ Len(Put(s, g)) = Len(s) /\ Put(s, g)[Len(s)] = g
      /\ \A l \in 1 .. Len(s) : l # Len(s) => Put(s, g)[l] = s[l]
  BY PutIs
<1>. DEFINE r == Put(s, f)  t == Put(s, g)  q == Put(r, g)
<1>3. /\ q \in Seq(FuncRec) /\ Len(q) = Len(r) /\ q[Len(r)] = g
      /\ \A l \in 1 .. Len(r) : l # Len(r) => q[l] = r[l]
  BY <1>1, PutIs
<1>. HIDE DEF q, r, t
<1>4. \A l \in 1 .. Len(s) : q[l] = t[l]
  BY <1>1, <1>2, <1>3 DEF r, t
<1>5. q \in Seq(FuncRec) /\ t \in Seq(FuncRec) /\ Len(q) = Len(s) /\ Len(t) = Len(s)
  BY <1>1, <1>2, <1>3 DEF r, t
<1>6. q = t
  BY <1>4, <1>5, SeqEqual
<1>. QED
  BY <1>6 DEF q, r, t

\* A variable that is in scope at once.
WithVar(f, v) == [f EXCEPT !.actvar = Append(@, v)]

LEMMA WithVarIs ==
  ASSUME NEW f \in FuncRec, Len(f.pending) = 0, NEW v \in Rec
  PROVE  /\ Adjust(Declare(f, <<v>>), 1) = WithVar(f, v)
         /\ WithVar(f, v) \in FuncRec /\ Len(WithVar(f, v).pending) = 0
         /\ WithVar(f, v).actvar = Append(f.actvar, v)
<1>. DEFINE w == <<v>>  g == Declare(f, w)  h == WithVar(f, v)  a == Adjust(g, 1)
<1>1. w \in Seq(Rec) /\ Len(w) = 1 /\ w[1] = v
  OBVIOUS
<1>2. f.actvar \in Seq(Rec) /\ f.pending \in Seq(Rec)
  BY FuncTypes
<1>3. Append(f.actvar, v) \in Seq(Rec)
  BY <1>2, AppendProperties
<1>4. /\ h \in FuncRec /\ h.actvar = Append(f.actvar, v) /\ h.pending = f.pending /\ h.bl = f.bl
      /\ h.upvalues = f.upvalues /\ h.isVarArg = f.isVarArg /\ h.numParams = f.numParams
  BY <1>3 DEF WithVar, FuncRec
<1>. HIDE DEF w
<1>5. /\ g \in FuncRec /\ g.actvar = f.actvar /\ g.pending = w /\ g.bl = f.bl /\ g.upvalues = f.upvalues
      /\ g.isVarArg = f.isVarArg /\ g.numParams = f.numParams
  BY <1>1 DEF FuncRec, Declare
<1>. HIDE DEF g, h
<1>6. Len(g.pending) = 1 /\ 1 \in 0 .. Len(g.pending)
  <2>1. Len(g.pending) = 1
    BY <1>1, <1>5
  <2>. QED
    BY <2>1
<1>7. a \in FuncRec /\ a.bl = g.bl /\ a.upvalues = g.upvalues
  BY <1>5, <1>6, AdjustIs
<1>8. a.isVarArg = g.isVarArg /\ a.numParams = g.numParams
  BY <1>5 DEF Adjust, FuncRec
<1>9. a.pending = f.pending
  <2>1. Len(a.pending) = Len(g.pending) - 1
    BY <1>5, <1>6, AdjustIs
  <2>2. Len(a.pending) = 0 /\ a.pending \in Seq(Rec)
    <3>. HIDE DEF a
    <3>1. Len(a.pending) = 0
      BY <1>6, <2>1
    <3>2. a.pending \in Seq(Rec)
      BY <1>7, FuncTypes
    <3>. QED
      BY <3>1, <3>2
  <2>. HIDE DEF a
  <2>3. \A i \in 1 .. 0 : a.pending[i] = f.pending[i]
    OBVIOUS
  <2>. QED
    BY <1>2, <2>2, <2>3, SeqEqual
<1>10. a.actvar = h.actvar
  <2>1. /\ Len(a.actvar) = Len(g.actvar) + 1
        /\ \A i \in 1 .. Len(g.actvar) : a.actvar[i] = g.actvar[i]
        /\ \A i \in 1 .. 1 : a.actvar[Len(g.actvar) + i] = g.pending[i]
    BY <1>5, <1>6, AdjustIs
  <2>2. a.actvar \in Seq(Rec) /\ h.actvar \in Seq(Rec) /\ Len(f.actvar) \in Nat
    BY <1>2, <1>4, <1>7, FuncTypes
  <2>. HIDE DEF a
  <2>3. /\ Len(h.actvar) = Len(f.actvar) + 1 /\ h.actvar[Len(f.actvar) + 1] = v
        /\ \A i \in 1 .. Len(f.actvar) : h.actvar[i] = f.actvar[i]
    BY <1>2, <1>4, AppendProperties
  <2>4. a.actvar[Len(f.actvar) + 1] = v
    BY <1>1, <1>5, <2>1
  <2>. DEFINE n == Len(f.actvar)
  <2>5. \A i \in 1 .. n + 1 : i \in 1 .. n \/ i = n + 1
    BY <2>2
  <2>. HIDE DEF n
  <2>6. \A i \in 1 .. n + 1 : a.actvar[i] = h.actvar[i]
    BY <1>5, <2>1, <2>3, <2>4, <2>5 DEF n
  <2>7. Len(a.actvar) = n + 1 /\ Len(h.actvar) = n + 1
    BY <1>5, <2>1, <2>3 DEF n
  <2>. QED
    BY <2>2, <2>6, <2>7, SeqEqual
<1>. HIDE DEF a
<1>11. a = h
  BY <1>4, <1>5, <1>7, <1>8, <1>9, <1>10, FuncEqual
<1>. QED
  BY <1>4, <1>11 DEF a, g, h, w

\* localFunc declares the function and activates it.
LEMMA VarSound ==
  ASSUME NEW s, NEW vis, NEW cap, Sound(s, vis, cap), NEW nx \in Nat, Above(s, nx), nx < MAXDECLS,
         Len(s[Len(s)].pending) = 0, s[Len(s)].pending = <<>>, NEW v \in Rec, v.name # Hidden, v.id = nx + 1,
         Len(s[Len(s)].actvar) + 1 <= LUAI_MAXVARS
  PROVE  /\ Sound(Put(s, WithVar(s[Len(s)], v)), [vis EXCEPT ![Len(vis)] = Append(@, v)], cap)
         /\ Above(Put(s, WithVar(s[Len(s)], v)), nx + 1)
<1>. DEFINE f == s[Len(s)]  w == <<v>>  g == Declare(f, w)  h == WithVar(f, v)
            s1 == Put(s, g)  V == Len(vis)
<1>1. /\ s \in Seq(FuncRec) /\ Len(s) > 0 /\ Len(s) \in Nat /\ f \in FuncRec /\ FuncOK(f)
      /\ vis \in Seq(Seq(Rec)) /\ V \in 1 .. V /\ vis[V] \in Seq(Rec)
  BY Innermost
<1>2. w \in Seq(Rec) /\ Len(w) = 1 /\ Named(w) /\ \A i \in 1 .. Len(w) : w[i].id = nx + i
  BY DEF Named
<1>3. /\ h \in FuncRec /\ Len(h.pending) = 0 /\ h.actvar = Append(f.actvar, v) /\ Adjust(g, 1) = h
  BY <1>1, WithVarIs
<1>4. Append(vis[V], v) = vis[V] \o w
  BY <1>1, AppendIsConcat
<1>. HIDE DEF w
<1>5. g \in FuncRec /\ g.pending = w
  BY <1>1, <1>2, DeclareIs
<1>6. Sound(s1, vis, cap)
  BY <1>1, <1>2, DeclareSound
<1>7. /\ Len(s1) = Len(s) /\ s1[Len(s1)] = g
  <2>1. Len(s1) = Len(s) /\ s1[Len(s)] = g
    BY <1>1, <1>5, PutIs
  <2>. HIDE DEF s1
  <2>. QED
    BY <2>1
<1>. HIDE DEF g, h
<1>8. ~ForPending(g)
  <2>1. w[1].name # Hidden
    BY <1>2 DEF Named
  <2>. QED
    BY <1>5, <2>1 DEF ForPending
<1>. HIDE DEF s1
<1>9. Sound(Put(s1, Adjust(g, 1)), [vis EXCEPT ![V] = vis[V] \o w], cap)
  <2>1. Sound(Put(s1, Adjust(g, Len(g.pending))), [vis EXCEPT ![V] = vis[V] \o g.pending], cap)
    BY <1>6, <1>7, <1>8, ActivateSound
  <2>. QED
    BY <1>2, <1>5, <2>1
<1>10. Put(s1, Adjust(g, 1)) = Put(s, h)
  <2>1. Put(Put(s, g), h) = Put(s, h)
    BY <1>1, <1>3, <1>5, PutTwice
  <2>. QED
    BY <1>3, <2>1 DEF s1
<1>11. Sound(Put(s, h), [vis EXCEPT ![V] = Append(vis[V], v)], cap)
  BY <1>4, <1>9, <1>10
<1>12. Above(Put(s, h), nx + 1)
  <2>1. /\ Len(Put(s, h)) = Len(s) /\ Put(s, h)[Len(s)] = h
        /\ \A l \in 1 .. Len(s) : l # Len(s) => Put(s, h)[l] = s[l]
    BY <1>1, <1>3, PutIs
  <2>2. ASSUME NEW l \in 1 .. Len(s), l # Len(s), NEW i \in 1 .. Len(AllVars(s[l]))
        PROVE  AllVars(s[l])[i].id <= nx + 1
    <3>1. AllVars(s[l])[i].id <= nx /\ AllVars(s[l])[i].id \in Nat
      BY <1>1, <2>2, NumberTypes DEF Above
    <3>. QED
      BY <3>1
  <2>3. ASSUME NEW i \in 1 .. Len(AllVars(h)) PROVE AllVars(h)[i].id <= nx + 1
    <3>. DEFINE n == Len(f.actvar)
    <3>. DEFINE a == f.actvar  b == Append(a, v)
    <3>1. /\ n \in Nat /\ Len(h.actvar) = n + 1 /\ h.actvar[n + 1] = v
          /\ \A j \in 1 .. n : h.actvar[j] = f.actvar[j]
      <4>1. a \in Seq(Rec) /\ Len(a) \in Nat
        BY <1>1, FuncTypes
      <4>. HIDE DEF a
      <4>2. /\ Len(b) = Len(a) + 1 /\ b[Len(a) + 1] = v
            /\ \A j \in 1 .. Len(a) : b[j] = a[j]
        BY <4>1, AppendProperties
      <4>. HIDE DEF b
      <4>3. h.actvar = b
        BY <1>3 DEF a, b
      <4>. QED
        BY <4>1, <4>2, <4>3 DEF a
    <3>2. Len(AllVars(h)) = Len(h.actvar) /\ AllVars(h)[i] = h.actvar[i]
      BY <1>3, ActiveOnly
    <3>3. Len(AllVars(f)) = n /\ \A j \in 1 .. n : AllVars(f)[j] = f.actvar[j]
      BY <1>1, ActiveOnly
    <3>. HIDE DEF n
    <3>4. i \in 1 .. n \/ i = n + 1
      BY <3>1, <3>2
    <3>5. CASE i \in 1 .. n
      <4>1. AllVars(h)[i] = AllVars(f)[i] /\ i \in 1 .. Len(AllVars(f))
        BY <3>1, <3>2, <3>3, <3>5
      <4>. DEFINE L == Len(s)
      <4>2. L \in 1 .. L /\ L = Len(s)
        BY <1>1
      <4>3. i \in 1 .. Len(AllVars(s[L]))
        BY <4>1
      <4>. HIDE DEF L
      <4>4. AllVars(s[L])[i].id <= nx /\ AllVars(s[L])[i].id \in Nat
        BY <1>1, <4>2, <4>3, NumberTypes DEF Above
      <4>5. AllVars(f)[i].id <= nx /\ AllVars(f)[i].id \in Nat
        BY <4>4 DEF L
      <4>. QED
        BY <4>1, <4>5
    <3>6. CASE i = n + 1
      BY <3>1, <3>2, <3>6
    <3>. QED
      BY <3>4, <3>5, <3>6
  <2>. QED
    BY <1>1, <2>1, <2>2, <2>3, SMTT(20) DEF Above
<1>. QED
  BY <1>11, <1>12 DEF h

LEMMA LocalFunctionKeeps ==
  ASSUME NEW n \in Name, NEW ns \in Lists(MAXPARAMS), NEW dots \in BOOLEAN, Sound(fs, visible, captured),
         LocalFunction(n, ns, dots)
  PROVE  Sound(fs, visible, captured)'
<1>. DEFINE f == fs[Len(fs)]  v == Local(n, next + 1)  nx == next + 1  w == Locals(nx, ns)
            h == WithParams(w, dots)  k == Len(ns) + (IF dots THEN 1 ELSE 0)
            s1 == Put(fs, WithVar(f, v))  vis1 == [visible EXCEPT ![Len(visible)] = Append(@, v)]
<1>1. /\ fs \in Seq(FuncRec) /\ Len(fs) > 0 /\ f \in FuncRec /\ next \in Nat /\ Above(fs, next)
      /\ next < MAXDECLS /\ f.pending = <<>>
  BY Innermost, NextIs DEF LocalFunction, Statement, Func
<1>2. nx \in Nat /\ nx = next + 1 /\ nx <= MAXDECLS
  BY <1>1, MaxDeclsType
<1>3. v \in Rec /\ v.name # Hidden /\ v.id = next + 1
  <2>. HIDE DEF nx
  <2>1. nx \in 0 .. MAXDECLS
    BY <1>2, MaxDeclsType
  <2>. QED
    BY <1>2, <2>1, NameAssumption DEF Local, Rec
<1>4. CASE TooManyVars(Func, 1) \/ TooManyVars(Opened, k)
  <2>1. fs' = fs /\ visible' = visible /\ captured' = captured
    BY <1>4 DEF LocalFunction, Body, Fail
  <2>. QED
    BY <2>1
<1>5. CASE ~TooManyVars(Func, 1) /\ ~TooManyVars(Opened, k)
  <2>1. /\ fs' = Append(s1, h) /\ visible' = Append(vis1, w) /\ captured' = captured
        /\ nx + Len(ns) <= MAXDECLS
    BY <1>5 DEF LocalFunction, Body, Func, SetFunc, Put, WithVar
  <2>2. Len(f.actvar) + 1 <= LUAI_MAXVARS
    <3>. DEFINE p == Len(f.actvar)
    <3>1. p \in Nat /\ ~(p + 1 > LUAI_MAXVARS)
      BY <1>1, <1>5, FuncTypes DEF TooManyVars, Func
    <3>. HIDE DEF p
    <3>2. p + 1 <= LUAI_MAXVARS
      BY <3>1, LimitAssumption
    <3>. QED
      BY <3>2 DEF p
  <2>3. Len(f.pending) = 0
    BY <1>1, EmptySeq
  <2>. HIDE DEF v, nx
  <2>4. Sound(s1, vis1, captured) /\ Above(s1, nx)
    BY <1>1, <1>2, <1>3, <2>2, <2>3, VarSound
  <2>5. MAXPARAMS \in Nat
    BY LimitAssumption
  <2>6. w \in Seq(Rec) /\ Len(w) = Len(ns) /\ Len(ns) \in Nat /\ Named(w)
        /\ \A i \in 1 .. Len(w) : w[i].id = nx + i
    BY <1>2, <2>1, <2>5, DeclaredList
  <2>. HIDE DEF w, s1, vis1
  <2>7. Len(w) <= LUAI_MAXVARS
    <3>1. Len(Opened.actvar) = 0
      BY OpenedIs
    <3>2. ~(0 + k > LUAI_MAXVARS)
      BY <1>5, <3>1 DEF TooManyVars
    <3>. QED
      BY <2>6, <3>2, LimitAssumption
  <2>8. NewFunc(h, w)
    BY <2>6, WithParamsIs
  <2>. HIDE DEF h
  <2>9. Sound(Append(s1, h), Append(vis1, w), captured)
    BY <1>2, <2>4, <2>6, <2>7, <2>8, OpenSound
  <2>. QED
    BY <2>1, <2>9
<1>. QED
  BY <1>4, <1>5
-----------------------------------------------------------------------------
(* Functions and blocks end *)

\* What is captured of the variables that are left.
LEMMA CapturedShrinks ==
  ASSUME NEW s \in Seq(FuncRec), NEW t \in Seq(FuncRec), NEW cap, Distinct(s), CapturedOK(s, cap),
         Len(t) <= Len(s), \A l \in 1 .. Len(t) : KeepsVars(s[l], t[l]),
         \A l \in 1 .. Len(t) : \A i \in 1 .. Len(AllVars(t[l])) :
           i <= Len(s[l].actvar) => i <= Len(t[l].actvar)
  PROVE  CapturedOK(t, cap \cap Live(t))
<1>. SUFFICES ASSUME NEW c \in cap \cap Live(t)
              PROVE  c # 0 /\ \E l \in 1 .. Len(t) : ActiveIn(t, l, c)
  BY DEF CapturedOK
<1>1. c # 0 /\ \E l \in 1 .. Len(s) : ActiveIn(s, l, c)
  BY DEF CapturedOK
<1>2. PICK l \in 1 .. Len(s) : \E i \in 1 .. Len(s[l].actvar) : s[l].actvar[i].id = c
  BY <1>1 DEF ActiveIn
<1>3. PICK i \in 1 .. Len(s[l].actvar) : s[l].actvar[i].id = c
  BY <1>2
<1>4. PICK m \in 1 .. Len(t) : \E j \in 1 .. Len(AllVars(t[m])) : AllVars(t[m])[j].id = c
  BY LiveIs
<1>5. PICK j \in 1 .. Len(AllVars(t[m])) : AllVars(t[m])[j].id = c
  BY <1>4
<1>6. /\ Len(s) \in Nat /\ Len(t) \in Nat /\ m \in 1 .. Len(s) /\ s[l] \in FuncRec
      /\ s[m] \in FuncRec /\ t[m] \in FuncRec
  BY LenProperties, ElementOfSeq
<1>7. j \in 1 .. Len(AllVars(s[m])) /\ AllVars(s[m])[j] = AllVars(t[m])[j]
  <2>1. Len(AllVars(t[m])) \in Nat /\ Len(AllVars(s[m])) \in Nat
    BY <1>6, VarsOf
  <2>. QED
    BY <1>5, <2>1 DEF KeepsVars
<1>8. i \in 1 .. Len(AllVars(s[l])) /\ AllVars(s[l])[i] = s[l].actvar[i] /\ Len(s[l].actvar) \in Nat
  <2>. DEFINE p == Len(s[l].actvar)  q == Len(s[l].pending)  n == Len(AllVars(s[l]))
  <2>1. p \in Nat /\ q \in Nat /\ n = p + q /\ i \in 1 .. p
    BY <1>6, FuncTypes, VarsOf
  <2>2. \A k \in 1 .. n : AllVars(s[l])[k] = IF k <= p THEN s[l].actvar[k] ELSE s[l].pending[k - p]
    BY <1>6, VarsOf
  <2>. HIDE DEF p, q, n
  <2>3. i \in 1 .. n /\ i <= p
    BY <2>1
  <2>. QED
    BY <2>1, <2>2, <2>3 DEF p, n
<1>9. l = m /\ i = j
  <2>1. AllVars(s[l])[i].id = c /\ AllVars(s[m])[j].id = c
    BY <1>3, <1>5, <1>7, <1>8
  <2>2. AllVars(s[l])[i].id = AllVars(s[m])[j].id /\ AllVars(s[l])[i].id # 0
    BY <1>1, <2>1
  <2>3. l \in 1 .. Len(s) /\ m \in 1 .. Len(s) /\ i \in 1 .. Len(AllVars(s[l])) /\ j \in 1 .. Len(AllVars(s[m]))
    BY <1>6, <1>7, <1>8
  <2>4. Distinct(s)
    OBVIOUS
  <2>. QED
    BY <2>2, <2>3, <2>4, OnlyOne
<1>10. i \in 1 .. Len(t[m].actvar)
  <2>1. i <= Len(s[m].actvar)
    BY <1>3, <1>8, <1>9
  <2>2. i <= Len(t[m].actvar) /\ Len(t[m].actvar) \in Nat
    BY <1>5, <1>6, <1>9, <2>1, FuncTypes
  <2>. QED
    BY <1>3, <1>8, <2>2
<1>11. t[m].actvar[i].id = c
  <2>. DEFINE p == Len(t[m].actvar)
  <2>1. j \in 1 .. p /\ p \in Nat
    BY <1>6, <1>9, <1>10, FuncTypes
  <2>2. AllVars(t[m])[j] = IF j <= p THEN t[m].actvar[j] ELSE t[m].pending[j - p]
    BY <1>5, <1>6, VarsOf
  <2>. HIDE DEF p
  <2>. QED
    BY <1>5, <1>9, <2>1, <2>2
<1>. QED
  BY <1>1, <1>10, <1>11 DEF ActiveIn

\* A block that is left closes what it closed: its variables are alive.
LEMMA ClosesLive ==
  ASSUME NEW t \in Seq(FuncRec), NEW l \in 1 .. Len(t), NEW cap, BlocksOK(t[l]), FuncCloses(t[l], cap)
  PROVE  FuncCloses(t[l], cap \cap Live(t))
<1>. DEFINE f == t[l]  n == Len(f.actvar)  B == Len(f.bl)
<1>1. f \in FuncRec
  BY ElementOfSeq
<1>2. n \in Nat /\ B \in Nat
  BY <1>1, FuncTypes
<1>3. ASSUME NEW v \in 1 .. n PROVE f.actvar[v].id \in Live(t)
  <2>. DEFINE q == Len(f.pending)  N == Len(AllVars(f))
  <2>1. q \in Nat /\ N = n + q /\ \A i \in 1 .. N : AllVars(f)[i] = IF i <= n THEN f.actvar[i] ELSE f.pending[i - n]
    BY <1>1, FuncTypes, VarsOf
  <2>. HIDE DEF q, n, N
  <2>2. v \in 1 .. N /\ v <= n
    BY <1>2, <1>3, <2>1
  <2>3. AllVars(f)[v] = f.actvar[v]
    BY <2>1, <2>2
  <2>4. \E i \in 1 .. Len(AllVars(f)) : AllVars(f)[i].id = f.actvar[v].id
    BY <2>2, <2>3 DEF N
  <2>. QED
    BY <2>4, LiveIs
<1>4. ASSUME NEW i \in 1 .. B
      PROVE  /\ f.bl[i].nActVar \in Nat /\ BlockEnd(f, i) \in Nat /\ BlockEnd(f, i) <= n
  <2>1. f.bl[i].nActVar \in Nat
    BY <1>1, BlockTypes
  <2>2. CASE i = B
    BY <1>2, <2>1, <2>2 DEF BlockEnd
  <2>3. CASE i # B
    <3>1. i + 1 \in 1 .. B
      BY <1>2, <2>3
    <3>2. f.bl[i + 1].nActVar \in Nat /\ f.bl[i + 1].nActVar <= n
      BY <1>1, <3>1, BlockTypes DEF BlocksOK
    <3>. QED
      BY <2>1, <2>3, <3>2 DEF BlockEnd
  <2>. QED
    BY <2>2, <2>3
<1>. HIDE DEF f, n, B
<1>5. ASSUME NEW i \in 1 .. B
      PROVE  f.bl[i].upval <=> \E v \in f.bl[i].nActVar + 1 .. BlockEnd(f, i) : f.actvar[v].id \in cap \cap Live(t)
  <2>1. f.bl[i].upval <=> \E v \in f.bl[i].nActVar + 1 .. BlockEnd(f, i) : f.actvar[v].id \in cap
    BY DEF FuncCloses, f, B
  <2>2. \A v \in f.bl[i].nActVar + 1 .. BlockEnd(f, i) : v \in 1 .. n
    BY <1>2, <1>4
  <2>. QED
    BY <1>3, <2>1, <2>2
<1>. QED
  BY <1>5 DEF FuncCloses, f, B

\* The scopes but the last one.
LEMMA FrontIs ==
  ASSUME NEW S, NEW p \in Seq(S), Len(p) > 0
  PROVE  /\ Front(p) \in Seq(S) /\ Len(Front(p)) = Len(p) - 1 /\ Len(p) \in Nat
         /\ \A i \in 1 .. Len(p) - 1 : Front(p)[i] = p[i]
<1>1. Len(p) \in Nat /\ Len(p) - 1 \in 0 .. Len(p)
  BY LenProperties
<1>. DEFINE n == Len(p) - 1
<1>2. Front(p) = SubSeq(p, 1, n)
  BY DEF Front
<1>3. n \in 0 .. Len(p)
  BY <1>1
<1>. HIDE DEF n
<1>4. SubSeq(p, 1, n) \in Seq(S) /\ Len(SubSeq(p, 1, n)) = n /\ \A i \in 1 .. n : SubSeq(p, 1, n)[i] = p[i]
  BY <1>3, PrefixIs
<1>. QED
  BY <1>1, <1>2, <1>4 DEF n

LEMMA ScopesClose ==
  ASSUME NEW s \in Seq(FuncRec), Len(s) > 1, Len(s[Len(s)].bl) = 0,
         NEW vis \in Seq(Seq(Rec)), Len(vis) > 0, ScopesOK(s, vis)
  PROVE  ScopesOK(Front(s), Front(vis)) /\ Len(vis) > 1
<1>. DEFINE L == Len(s)  V == Len(vis)  t == Front(s)  vis2 == Front(vis)
<1>1. PICK lev, lo, blk : ScopesAt(s, vis, lev, lo, blk)
  BY DEF ScopesOK
<1>2. /\ t \in Seq(FuncRec) /\ Len(t) = L - 1 /\ L \in Nat /\ \A l \in 1 .. L - 1 : t[l] = s[l]
  BY FrontIs
<1>3. /\ vis2 \in Seq(Seq(Rec)) /\ Len(vis2) = V - 1 /\ V \in Nat /\ \A a \in 1 .. V - 1 : vis2[a] = vis[a]
  BY FrontIs
<1>4. /\ V \in 1 .. V /\ lev[V] = L
      /\ \A a \in 1 .. V : lev[a] \in 1 .. L /\ lo[a] \in Nat /\ blk[a] \in Nat
      /\ \A a \in 1 .. V : lev[a] = L => blk[a] = 0
  <2>1. V \in 1 .. V /\ lev[V] = L
    BY <1>1, LastScope
  <2>2. \A a \in 1 .. V : lev[a] \in 1 .. L /\ lo[a] \in Nat /\ blk[a] \in 0 .. Len(s[lev[a]].bl)
    BY <1>1, ScopesAre
  <2>3. \A a \in 1 .. V : lev[a] \in 1 .. L /\ lo[a] \in Nat /\ blk[a] \in Nat
    BY <1>1, ScopesAre
  <2>. QED
    BY <2>1, <2>2, <2>3
<1>5. ScopesAt(s, vis, lev, lo, blk)
  BY <1>1
<1>. HIDE DEF t, vis2
<1>6. \A a \in 1 .. V - 1 : a \in 1 .. V /\ lev[a] \in 1 .. L - 1
  <2>1. ASSUME NEW a \in 1 .. V - 1, lev[a] = L PROVE FALSE
    <3>1. a \in 1 .. V /\ a < V
      BY <1>3
    <3>2. blk[a] < blk[V]
      BY <1>4, <1>5, <2>1, <3>1 DEF ScopesAt, InOrder
    <3>3. blk[a] = 0 /\ blk[V] = 0
      BY <1>4, <2>1, <3>1
    <3>. QED
      BY <3>2, <3>3
  <2>2. \A a \in 1 .. V - 1 : a \in 1 .. V
    BY <1>3
  <2>3. \A a \in 1 .. V : lev[a] \in 1 .. L
    BY <1>4
  <2>4. \A l \in 1 .. L : l # L => l \in 1 .. L - 1
    BY <1>2
  <2>. HIDE DEF L, V
  <2>. QED
    BY <2>1, <2>2, <2>3, <2>4
<1>7. V > 1
  <2>1. 1 \in 1 .. L /\ L # 1
    BY <1>2
  <2>2. PICK a \in 1 .. V : lev[a] = 1
    BY <1>5, <2>1 DEF ScopesAt, LevelFits
  <2>. QED
    BY <1>3, <1>4, <2>1, <2>2
<1>. DEFINE lev2 == [a \in 1 .. V - 1 |-> lev[a]]
            lo2 == [a \in 1 .. V - 1 |-> lo[a]]
            blk2 == [a \in 1 .. V - 1 |-> blk[a]]
<1>8. lev2 \in [1 .. V - 1 -> 1 .. L - 1] /\ lo2 \in [1 .. V - 1 -> Nat] /\ blk2 \in [1 .. V - 1 -> Nat]
  BY <1>4, <1>6
<1>9. \A a \in 1 .. V - 1 : lev2[a] = lev[a] /\ lo2[a] = lo[a] /\ blk2[a] = blk[a]
  OBVIOUS
<1>. HIDE DEF lev2, lo2, blk2, L, V
<1>10. \A a \in 1 .. V - 1 : ScopeEnd(vis2, lo2, a) = ScopeEnd(vis, lo, a)
  BY <1>3, <1>9 DEF ScopeEnd
<1>11. InOrder(vis2, lev2, lo2, blk2)
  <2>1. ASSUME NEW a \in 1 .. V - 1, NEW b \in 1 .. V - 1, a < b
        PROVE  /\ lev2[a] <= lev2[b]
               /\ lev2[a] = lev2[b] => ScopeEnd(vis2, lo2, a) <= lo2[b] /\ blk2[a] < blk2[b]
    <3>1. /\ lev[a] <= lev[b]
          /\ lev[a] = lev[b] => ScopeEnd(vis, lo, a) <= lo[b] /\ blk[a] < blk[b]
      BY <1>5, <1>6, <2>1 DEF ScopesAt, InOrder, V
    <3>. QED
      BY <1>9, <1>10, <3>1
  <2>. QED
    BY <1>3, <2>1 DEF InOrder
<1>12. ASSUME NEW a \in 1 .. V - 1 PROVE ScopeFits(t[lev2[a]], vis2, lev2, lo2, blk2, a)
  <2>. DEFINE e == s[lev[a]]
  <2>1. ScopeFits(e, vis, lev, lo, blk, a)
    BY <1>5, <1>6 DEF ScopesAt, V
  <2>2. t[lev2[a]] = e
    BY <1>2, <1>6, <1>9
  <2>. HIDE DEF e
  <2>3. blk[a] # 0 => a > 1 /\ a - 1 \in 1 .. V - 1
    BY <1>3, <2>1 DEF ScopeFits
  <2>4. /\ lev2[a] = lev[a] /\ lo2[a] = lo[a] /\ blk2[a] = blk[a] /\ vis2[a] = vis[a]
        /\ ScopeEnd(vis2, lo2, a) = ScopeEnd(vis, lo, a)
        /\ blk[a] # 0 => lev2[a - 1] = lev[a - 1] /\ ScopeEnd(vis2, lo2, a - 1) = ScopeEnd(vis, lo, a - 1)
    BY <1>3, <1>9, <1>10, <2>3
  <2>5. ScopeFits(e, vis2, lev2, lo2, blk2, a)
    BY <2>1, <2>4 DEF ScopeFits
  <2>. QED
    BY <2>2, <2>5
<1>13. ASSUME NEW l \in 1 .. L - 1 PROVE LevelFits(t[l], vis2, lev2, lo2, blk2, l)
  <2>. DEFINE e == s[l]
  <2>1. t[l] = e /\ LevelFits(e, vis, lev, lo, blk, l) /\ l # L
    <3>1. l \in 1 .. L /\ l # L
      BY <1>2
    <3>. QED
      BY <1>2, <1>5, <3>1 DEF ScopesAt, L
  <2>. HIDE DEF e
  <2>9. \A a \in 1 .. V : lev[a] = l => a \in 1 .. V - 1
    BY <1>3, <1>4, <2>1 DEF V, L
  <2>2. \A i \in 1 .. Len(e.actvar) : e.actvar[i].name # Hidden =>
          \E a \in 1 .. V - 1 : lev2[a] = l /\ i \in lo2[a] + 1 .. ScopeEnd(vis2, lo2, a)
    <3>1. ASSUME NEW i \in 1 .. Len(e.actvar), e.actvar[i].name # Hidden
          PROVE  \E a \in 1 .. V - 1 : lev2[a] = l /\ i \in lo2[a] + 1 .. ScopeEnd(vis2, lo2, a)
      <4>1. PICK a \in 1 .. V : lev[a] = l /\ i \in lo[a] + 1 .. ScopeEnd(vis, lo, a)
        BY <2>1, <3>1 DEF LevelFits, V
      <4>2. a \in 1 .. V - 1
        BY <2>9, <4>1
      <4>. QED
        BY <1>9, <1>10, <4>1, <4>2
    <3>. QED
      BY <3>1
  <2>3. \E a \in 1 .. V - 1 : /\ lev2[a] = l /\ ScopeEnd(vis2, lo2, a) = Len(e.actvar)
                              /\ \A b \in a + 1 .. V - 1 : lev2[b] > l
    <3>1. PICK a \in 1 .. V : /\ lev[a] = l /\ ScopeEnd(vis, lo, a) = Len(e.actvar)
                              /\ \A b \in a + 1 .. V : lev[b] > l
      BY <2>1 DEF LevelFits, V
    <3>2. a \in 1 .. V - 1
      BY <2>9, <3>1
    <3>3. \A b \in a + 1 .. V - 1 : b \in a + 1 .. V /\ b \in 1 .. V - 1
      BY <1>3
    <3>. QED
      BY <1>9, <1>10, <3>1, <3>2, <3>3
  <2>4. ASSUME NEW i \in 1 .. Len(e.bl), e.bl[i].first
        PROVE  IF i = Len(e.bl) /\ ForPending(e)
               THEN \A a \in 1 .. V - 1 : lev2[a] = l => blk2[a] # i
               ELSE \E a \in 1 .. V - 1 : lev2[a] = l /\ blk2[a] = i
    <3>1. IF i = Len(e.bl) /\ ForPending(e)
          THEN \A a \in 1 .. V : lev[a] = l => blk[a] # i
          ELSE \E a \in 1 .. V : lev[a] = l /\ blk[a] = i
      BY <2>1, <2>4 DEF LevelFits, V
    <3>2. CASE i = Len(e.bl) /\ ForPending(e)
      BY <1>6, <1>9, <3>1, <3>2
    <3>3. CASE ~(i = Len(e.bl) /\ ForPending(e))
      BY <1>9, <2>9, <3>1, <3>3
    <3>. QED
      BY <3>2, <3>3
  <2>5. Len(vis2) = V - 1
    BY <1>3
  <2>6. LevelFits(e, vis2, lev2, lo2, blk2, l)
    BY <2>2, <2>3, <2>4, <2>5 DEF LevelFits
  <2>. QED
    BY <2>1, <2>6
<1>14. ScopesAt(t, vis2, lev2, lo2, blk2)
  BY <1>2, <1>3, <1>8, <1>11, <1>12, <1>13 DEF ScopesAt
<1>15. ScopesOK(t, vis2)
  BY <1>14 DEF ScopesOK
<1>. QED
  BY <1>7, <1>15 DEF t, vis2, V

LEMMA CloseSound ==
  ASSUME NEW s, NEW vis, NEW cap, Sound(s, vis, cap), Len(s) > 1, Len(s[Len(s)].bl) = 0
  PROVE  Sound(Front(s), Front(vis), cap \cap Live(Front(s)))
<1>. DEFINE L == Len(s)  t == Front(s)  vis2 == Front(vis)  cap2 == cap \cap Live(t)
<1>1. /\ s \in Seq(FuncRec) /\ L \in Nat /\ vis \in Seq(Seq(Rec)) /\ Len(vis) > 0 /\ Distinct(s)
      /\ UpvaluesOK(s) /\ CapturedOK(s, cap) /\ ClosesOK(s, cap) /\ ScopesOK(s, vis)
      /\ cap \in SUBSET (1 .. MAXDECLS)
      /\ \A l \in 1 .. L : FuncOK(s[l])
  BY Innermost DEF Sound, TypesOK
<1>2. /\ t \in Seq(FuncRec) /\ Len(t) = L - 1 /\ Len(s) = L /\ L > 1 /\ \A l \in 1 .. L - 1 : t[l] = s[l]
  BY <1>1, FrontIs
<1>3. ScopesOK(t, vis2) /\ Len(vis) > 1
  BY <1>1, ScopesClose
<1>4. vis2 \in Seq(Seq(Rec)) /\ Len(vis2) > 0
  <2>1. vis2 \in Seq(Seq(Rec)) /\ Len(vis2) = Len(vis) - 1 /\ Len(vis) \in Nat
    BY <1>1, FrontIs
  <2>. HIDE DEF vis2
  <2>. QED
    BY <1>3, <2>1
<1>. HIDE DEF t, vis2, L
<1>5. /\ Len(t) \in Nat /\ Len(t) > 0 /\ Len(t) <= Len(s) /\ Len(t) < Len(s)
      /\ \A l \in 1 .. Len(t) : l \in 1 .. L /\ l <= Len(s) /\ t[l] = s[l]
  BY <1>1, <1>2
<1>13. \A l \in 1 .. Len(t) : FuncOK(t[l]) /\ t[l] \in FuncRec
  BY <1>1, <1>5 DEF FuncOK
<1>6. \A l \in 1 .. Len(t) : KeepsVars(s[l], t[l])
  <2>1. ASSUME NEW l \in 1 .. Len(t) PROVE KeepsVars(t[l], t[l])
    <3>1. Len(AllVars(t[l])) \in Nat
      BY <1>13, VarsOf
    <3>. QED
      BY <3>1 DEF KeepsVars
  <2>. QED
    BY <1>5, <2>1
<1>7. TypesOK(t, vis2, cap2)
  <2>1. cap2 \in SUBSET (1 .. MAXDECLS)
    BY <1>1
  <2>. HIDE DEF cap2
  <2>. QED
    BY <1>2, <1>4, <1>5, <1>13, <2>1 DEF TypesOK
<1>8. Distinct(t)
  BY <1>1, <1>2, <1>5, <1>6, DistinctKept
<1>9. UpvaluesOK(t)
  <2>1. \A l \in 1 .. Len(t) : l <= Len(s) /\ t[l].upvalues = s[l].upvalues /\ t[l].actvar = s[l].actvar
    BY <1>5
  <2>. QED
    BY <1>1, <1>2, <2>1, UpvaluesKept
<1>10. CapturedOK(t, cap2)
  <2>1. \A l \in 1 .. Len(t) : \A i \in 1 .. Len(AllVars(t[l])) :
          i <= Len(s[l].actvar) => i <= Len(t[l].actvar)
    BY <1>5
  <2>. QED
    BY <1>1, <1>2, <1>5, <1>6, <2>1, CapturedShrinks
<1>11. ClosesOK(t, cap2)
  <2>1. \A l \in 1 .. Len(t) : BlocksOK(t[l]) /\ FuncCloses(t[l], cap)
    BY <1>1, <1>2, <1>5 DEF ClosesOK, FuncOK
  <2>. QED
    BY <1>2, <2>1, ClosesLive DEF ClosesOK
<1>12. Sound(t, vis2, cap2)
  BY <1>3, <1>7, <1>8, <1>9, <1>10, <1>11 DEF Sound
<1>. QED
  BY <1>12 DEF t, vis2

LEMMA CloseFunctionKeeps ==
  ASSUME Sound(fs, visible, captured), CloseFunction
  PROVE  Sound(fs, visible, captured)'
<1>1. /\ Len(fs) > 1 /\ fs[Len(fs)].bl = <<>>
      /\ fs' = Front(fs) /\ visible' = Front(visible) /\ captured' = captured \cap Live(Front(fs))
  BY DEF CloseFunction, Func
<1>2. Len(fs[Len(fs)].bl) = 0
  BY <1>1, EmptySeq
<1>3. Sound(Front(fs), Front(visible), captured \cap Live(Front(fs)))
  BY <1>1, <1>2, CloseSound
<1>. QED
  BY <1>1, <1>3

\* g is f without the blocks from i on, which is the last one that begins a statement.
Left(f, g, i) ==
  /\ i \in 1 .. Len(f.bl) /\ f.bl[i].first /\ \A j \in i + 1 .. Len(f.bl) : ~f.bl[j].first
  /\ g \in FuncRec /\ Len(g.pending) = 0 /\ g.upvalues = f.upvalues
  /\ Len(g.bl) = i - 1 /\ \A j \in 1 .. i - 1 : g.bl[j] = f.bl[j]
  /\ Len(g.actvar) = f.bl[i].nActVar /\ \A v \in 1 .. f.bl[i].nActVar : g.actvar[v] = f.actvar[v]

LEMMA StatementBlockIs ==
  ASSUME NEW f \in FuncRec, BlocksOK(f), Len(f.bl) > 0
  PROVE  /\ StatementBlock(f) \in 1 .. Len(f.bl) /\ f.bl[StatementBlock(f)].first
         /\ \A j \in StatementBlock(f) + 1 .. Len(f.bl) : ~f.bl[j].first
<1>. DEFINE B == Len(f.bl)  S == {i \in 1 .. B : f.bl[i].first}  m == Max(S)
            P(i) == f.bl[i].first /\ \A j \in i + 1 .. Len(f.bl) : ~f.bl[j].first
<1>1. B \in Nat /\ DOMAIN f.bl = 1 .. B
  BY FuncTypes, LenProperties
<1>2. 1 \in S /\ S \in SUBSET Nat /\ \A i \in S : i <= B
  BY <1>1 DEF BlocksOK
<1>3. m \in S /\ \A j \in S : j <= m
  <2>. HIDE DEF S, B
  <2>. QED
    BY <1>1, <1>2, MaxIs
<1>. HIDE DEF m
<1>4. \A j \in m + 1 .. B : ~f.bl[j].first
  BY <1>1, <1>3
<1>5. \E i \in DOMAIN f.bl : P(i)
  BY <1>1, <1>3, <1>4
<1>. DEFINE k == CHOOSE i \in DOMAIN f.bl : P(i)
<1>6. k \in DOMAIN f.bl /\ P(k)
  BY <1>5
<1>7. k = StatementBlock(f)
  BY DEF StatementBlock
<1>. HIDE DEF k
<1>. QED
  BY <1>1, <1>6, <1>7

LEMMA LeaveIs ==
  ASSUME NEW f \in FuncRec, BlocksOK(f), Len(f.bl) > 0, Len(f.pending) = 0
  PROVE  Left(f, Leave(f), StatementBlock(f))
<1>. DEFINE i == StatementBlock(f)  n == f.bl[i].nActVar  g == Leave(f)
            b == SubSeq(f.bl, 1, i - 1)  a == SubSeq(f.actvar, 1, n)
<1>1. /\ i \in 1 .. Len(f.bl) /\ f.bl[i].first /\ \A j \in i + 1 .. Len(f.bl) : ~f.bl[j].first
  BY StatementBlockIs
<1>2. /\ f.bl \in Seq(BlockRec) /\ f.actvar \in Seq(Rec) /\ Len(f.bl) \in Nat /\ Len(f.actvar) \in Nat
  BY FuncTypes
<1>3. n \in Nat /\ n <= Len(f.actvar)
  BY <1>1, BlockTypes DEF BlocksOK
<1>4. g = [f EXCEPT !.bl = b, !.actvar = a]
  BY DEF Leave, RemoveVars, FuncRec
<1>. DEFINE h == i - 1
<1>5. h \in 0 .. Len(f.bl) /\ h = i - 1
  BY <1>1, <1>2
<1>6. n \in 0 .. Len(f.actvar)
  BY <1>2, <1>3
<1>. HIDE DEF i, h, n
<1>7. b \in Seq(BlockRec) /\ Len(b) = h /\ \A j \in 1 .. h : b[j] = f.bl[j]
  BY <1>2, <1>5, PrefixIs
<1>8. a \in Seq(Rec) /\ Len(a) = n /\ \A v \in 1 .. n : a[v] = f.actvar[v]
  BY <1>2, <1>6, PrefixIs
<1>. HIDE DEF b, a, g
<1>9. g \in FuncRec /\ g.bl = b /\ g.actvar = a /\ g.pending = f.pending /\ g.upvalues = f.upvalues
  BY <1>4, <1>7, <1>8 DEF FuncRec
<1>10. Left(f, g, i)
  BY <1>1, <1>5, <1>7, <1>8, <1>9 DEF Left, n
<1>. QED
  BY <1>10 DEF g, i

LEMMA LeaveVars ==
  ASSUME NEW f \in FuncRec, FuncOK(f), Len(f.pending) = 0, NEW g, NEW i, Left(f, g, i)
  PROVE  /\ KeepsVars(f, g) /\ Len(AllVars(g)) = Len(g.actvar) /\ ~ForPending(g)
         /\ Len(g.actvar) \in Nat /\ Len(g.actvar) <= Len(f.actvar)
<1>1. /\ Len(AllVars(g)) = Len(g.actvar) /\ Len(g.actvar) \in Nat
      /\ \A v \in 1 .. Len(g.actvar) : AllVars(g)[v] = g.actvar[v]
  BY ActiveOnly, FuncTypes DEF Left
<1>2. /\ Len(AllVars(f)) = Len(f.actvar) /\ Len(f.actvar) \in Nat
      /\ \A v \in 1 .. Len(f.actvar) : AllVars(f)[v] = f.actvar[v]
  BY ActiveOnly, FuncTypes
<1>3. /\ Len(g.actvar) <= Len(f.actvar)
      /\ \A v \in 1 .. Len(g.actvar) : g.actvar[v] = f.actvar[v]
  BY DEF Left, FuncOK, BlocksOK
<1>4. ~ForPending(g)
  BY EmptySeq DEF Left, ForPending, FuncRec
<1>5. \A v \in 1 .. Len(g.actvar) : v \in 1 .. Len(f.actvar)
  BY <1>1, <1>2, <1>3
<1>. QED
  BY <1>1, <1>2, <1>3, <1>4, <1>5 DEF KeepsVars

LEMMA LeaveOK ==
  ASSUME NEW f \in FuncRec, FuncOK(f), Len(f.pending) = 0, NEW g, NEW i, Left(f, g, i)
  PROVE  FuncOK(g)
<1>1. /\ Len(g.actvar) \in Nat /\ Len(g.actvar) <= Len(f.actvar) /\ ~ForPending(g) /\ g \in FuncRec
  BY LeaveVars DEF Left
<1>2. Len(f.bl) \in Nat /\ Len(f.actvar) \in Nat /\ i \in Nat
  BY FuncTypes DEF Left
<1>3. NumbersOK(g.actvar) /\ NumbersOK(g.pending)
  <2>1. \A v \in 1 .. Len(g.actvar) : v \in 1 .. Len(f.actvar) /\ g.actvar[v] = f.actvar[v]
    BY <1>1, <1>2 DEF Left
  <2>2. \A v \in 1 .. 0 : FALSE
    OBVIOUS
  <2>. QED
    BY <2>1, <2>2, SMTT(20) DEF FuncOK, NumbersOK, Left
<1>4. BlocksOK(g)
  <2>1. /\ i \in 1 .. Len(f.bl) /\ Len(g.bl) = i - 1
        /\ \A j \in 1 .. i - 1 : j \in 1 .. Len(f.bl) /\ j <= i /\ g.bl[j] = f.bl[j]
    BY <1>2 DEF Left
  <2>2. \A j \in 1 .. i - 1 : g.bl[j].nActVar <= Len(g.actvar)
    BY <2>1 DEF Left, FuncOK, BlocksOK
  <2>3. \A j, k \in 1 .. i - 1 : j <= k => g.bl[j].nActVar <= g.bl[k].nActVar
    BY <2>1, SMTT(20) DEF FuncOK, BlocksOK
  <2>4. i - 1 > 0 => g.bl[1].first
    <3>1. i - 1 > 0 => 1 \in 1 .. i - 1 /\ Len(f.bl) > 0
      BY <1>2, <2>1
    <3>. QED
      BY <2>1, <3>1 DEF FuncOK, BlocksOK
  <2>. QED
    BY <2>1, <2>2, <2>3, <2>4 DEF BlocksOK
<1>5. PendingOK(g)
  <2>1. \A v \in 1 .. 0 : FALSE
    OBVIOUS
  <2>. QED
    BY <1>1, <2>1 DEF PendingOK, Left
<1>6. LimitsOK(g)
  <2>1. Len(g.pending) = 0 /\ g.upvalues = f.upvalues
    BY DEF Left
  <2>2. Len(f.actvar) <= LUAI_MAXVARS /\ Len(f.upvalues) <= LUAI_MAXUPVALUES
    BY <1>2 DEF FuncOK, LimitsOK
  <2>3. Len(g.actvar) + 0 <= LUAI_MAXVARS
    BY <1>1, <1>2, <2>2, LimitAssumption
  <2>. QED
    BY <2>1, <2>2, <2>3 DEF LimitsOK
<1>. QED
  BY <1>1, <1>3, <1>4, <1>5, <1>6 DEF FuncOK

LEMMA LeaveCloses ==
  ASSUME NEW f \in FuncRec, FuncOK(f), Len(f.pending) = 0, NEW g, NEW i, Left(f, g, i), NEW cap,
         FuncCloses(f, cap)
  PROVE  FuncCloses(g, cap)
<1>1. /\ Len(g.actvar) \in Nat /\ Len(g.actvar) <= Len(f.actvar) /\ Len(f.bl) \in Nat /\ i \in 1 .. Len(f.bl)
      /\ Len(g.bl) = i - 1 /\ i \in Nat
  <2>1. Len(g.actvar) \in Nat /\ Len(g.actvar) <= Len(f.actvar) /\ Len(f.bl) \in Nat
    BY LeaveVars, FuncTypes
  <2>2. i \in 1 .. Len(f.bl) /\ Len(g.bl) = i - 1
    BY DEF Left
  <2>. QED
    BY <2>1, <2>2
<1>. SUFFICES ASSUME NEW j \in 1 .. i - 1
              PROVE  g.bl[j].upval <=> \E v \in g.bl[j].nActVar + 1 .. BlockEnd(g, j) : g.actvar[v].id \in cap
  BY <1>1 DEF FuncCloses
<1>2. j \in 1 .. Len(f.bl) /\ j # Len(f.bl) /\ j + 1 \in 1 .. Len(f.bl) /\ g.bl[j] = f.bl[j]
  BY <1>1 DEF Left
<1>3. f.bl[j].upval <=> \E v \in f.bl[j].nActVar + 1 .. BlockEnd(f, j) : f.actvar[v].id \in cap
  BY <1>2 DEF FuncCloses
<1>4. BlockEnd(g, j) = BlockEnd(f, j) /\ BlockEnd(f, j) <= Len(g.actvar) /\ BlockEnd(f, j) \in Nat
  <2>1. BlockEnd(f, j) = f.bl[j + 1].nActVar
    BY <1>2 DEF BlockEnd
  <2>2. CASE j = i - 1
    <3>1. j + 1 = i
      BY <1>1, <2>2
    <3>. QED
      BY <1>1, <2>1, <2>2, <3>1 DEF BlockEnd, Left
  <2>3. CASE j # i - 1
    <3>1. j + 1 \in 1 .. i - 1 /\ j + 1 <= i
      BY <1>1, <2>3
    <3>2. g.bl[j + 1] = f.bl[j + 1]
      BY <3>1 DEF Left
    <3>3. f.bl[j + 1].nActVar <= f.bl[i].nActVar
      BY <1>1, <1>2, <3>1 DEF FuncOK, BlocksOK
    <3>4. BlockEnd(g, j) = g.bl[j + 1].nActVar
      BY <1>1, <2>3 DEF BlockEnd
    <3>5. f.bl[j + 1].nActVar \in Nat
      BY <1>2, BlockTypes
    <3>. QED
      BY <2>1, <3>2, <3>3, <3>4, <3>5 DEF Left
  <2>. QED
    BY <2>2, <2>3
<1>5. f.bl[j].nActVar \in Nat
  BY <1>2, BlockTypes
<1>6. \A v \in f.bl[j].nActVar + 1 .. BlockEnd(f, j) : g.actvar[v] = f.actvar[v]
  <2>1. \A v \in f.bl[j].nActVar + 1 .. BlockEnd(f, j) : v \in 1 .. Len(g.actvar)
    BY <1>1, <1>4, <1>5
  <2>. QED
    BY <2>1 DEF Left
<1>. QED
  BY <1>2, <1>3, <1>4, <1>6

\* The last scope is that of the statement that ends; the one before goes on.
LeftScope(f, vis, lev, lo, blk, L, i) ==
  LET V == Len(vis)
  IN  /\ V > 1 /\ lev[V] = L /\ blk[V] = i /\ lev[V - 1] = L
      /\ ScopeEnd(vis, lo, V - 1) = f.bl[i].nActVar
      /\ \A a \in 1 .. V - 1 :
           lev[a] = L => ScopeEnd(vis, lo, a) <= f.bl[i].nActVar /\ blk[a] < i
      /\ lo[V] >= f.bl[i].nActVar

LEMMA LeftScopeIs ==
  ASSUME NEW s \in Seq(FuncRec), Len(s) > 0, NEW g, NEW i, Left(s[Len(s)], g, i), ~ForPending(s[Len(s)]),
         NEW vis \in Seq(Seq(Rec)), NEW lev, NEW lo, NEW blk, ScopesAt(s, vis, lev, lo, blk)
  PROVE  LeftScope(s[Len(s)], vis, lev, lo, blk, Len(s), i)
<1>. DEFINE L == Len(s)  V == Len(vis)  f == s[L]  n == f.bl[i].nActVar
<1>1. /\ V \in 1 .. V /\ lev[V] = L /\ V \in Nat /\ L \in 1 .. L
      /\ \A a \in 1 .. V : /\ lev[a] \in 1 .. L /\ lo[a] \in Nat /\ blk[a] \in Nat
                           /\ ScopeEnd(vis, lo, a) \in Nat /\ lo[a] <= ScopeEnd(vis, lo, a)
  <2>1. V \in Nat /\ L \in Nat /\ L > 0
    BY LenProperties
  <2>. QED
    BY <2>1, LastScope, ScopesAre
<1>2. f \in FuncRec /\ Len(f.bl) \in Nat /\ i \in 1 .. Len(f.bl) /\ f.bl[i].first
      /\ \A j \in i + 1 .. Len(f.bl) : ~f.bl[j].first
  BY <1>1, FuncTypes, ElementOfSeq DEF Left
<1>3. n \in Nat
  BY <1>2, BlockTypes
<1>4. InOrder(vis, lev, lo, blk) /\ LevelFits(f, vis, lev, lo, blk, L) /\ ScopeFits(f, vis, lev, lo, blk, V)
  BY <1>1 DEF ScopesAt
<1>5. ~ForPending(f)
  OBVIOUS
<1>. HIDE DEF f, n, L
<1>6. PICK a \in 1 .. V : lev[a] = L /\ blk[a] = i
  BY <1>2, <1>4, <1>5 DEF LevelFits
<1>7. a = V
  <2>. SUFFICES ASSUME a < V PROVE FALSE
    BY <1>1
  <2>1. blk[a] < blk[V]
    BY <1>1, <1>4, <1>6 DEF InOrder
  <2>2. blk[V] # 0 /\ blk[V] \in Nat /\ i < blk[V]
    BY <1>1, <1>2, <1>6, <2>1
  <2>3. blk[V] \in 1 .. Len(f.bl) /\ f.bl[blk[V]].first
    BY <1>4, <2>2 DEF ScopeFits
  <2>4. blk[V] \in i + 1 .. Len(f.bl)
    BY <1>2, <2>2, <2>3
  <2>. QED
    BY <1>2, <2>3, <2>4
<1>8. blk[V] = i /\ i # 0
  BY <1>2, <1>6, <1>7
<1>9. V > 1 /\ lev[V - 1] = L /\ ScopeEnd(vis, lo, V - 1) = n
  BY <1>1, <1>4, <1>8 DEF ScopeFits, n
<1>. HIDE DEF V
<1>10. /\ V - 1 \in 1 .. V /\ V - 1 < V /\ V \in 1 .. V
       /\ \A b \in 1 .. V - 1 : b \in 1 .. V /\ b < V /\ (b < V - 1 \/ b = V - 1)
  BY <1>1, <1>9
<1>11. ScopeEnd(vis, lo, V - 1) <= lo[V]
  BY <1>1, <1>4, <1>9, <1>10 DEF InOrder, V
<1>12. ASSUME NEW b \in 1 .. V - 1, lev[b] = L
       PROVE  ScopeEnd(vis, lo, b) <= n /\ blk[b] < i
  <2>1. blk[b] < i
    BY <1>1, <1>4, <1>8, <1>10, <1>12 DEF InOrder, V
  <2>2. CASE b = V - 1
    BY <1>3, <1>9, <2>1, <2>2
  <2>3. CASE b < V - 1
    <3>1. ScopeEnd(vis, lo, b) <= lo[V - 1]
      BY <1>4, <1>9, <1>10, <1>12, <2>3 DEF InOrder, V
    <3>2. lo[V - 1] <= n /\ lo[V - 1] \in Nat /\ ScopeEnd(vis, lo, b) \in Nat
      BY <1>1, <1>9, <1>10
    <3>. QED
      BY <1>3, <2>1, <3>1, <3>2
  <2>. QED
    BY <1>10, <2>2, <2>3
<1>13. lo[V] >= n /\ lo[V] \in Nat
  BY <1>1, <1>3, <1>9, <1>10, <1>11
<1>. QED
  BY <1>1, <1>8, <1>9, <1>12, <1>13 DEF LeftScope, V, L, f, n

LEMMA ScopesLeave ==
  ASSUME NEW s \in Seq(FuncRec), Len(s) > 0, NEW g \in FuncRec, NEW i, Left(s[Len(s)], g, i),
         ~ForPending(s[Len(s)]), ~ForPending(g),
         NEW vis \in Seq(Seq(Rec)), Len(vis) > 0, ScopesOK(s, vis)
  PROVE  ScopesOK(Put(s, g), Front(vis)) /\ Len(vis) > 1
<1>. DEFINE L == Len(s)  V == Len(vis)  f == s[L]  n == f.bl[i].nActVar  t == Put(s, g)  vis2 == Front(vis)
<1>1. PICK lev, lo, blk : ScopesAt(s, vis, lev, lo, blk)
  BY DEF ScopesOK
<1>2. /\ t \in Seq(FuncRec) /\ Len(t) = L /\ L \in Nat /\ t[L] = g /\ f = s[L]
      /\ \A l \in 1 .. L : l # L => t[l] = s[l]
  BY PutIs
<1>3. /\ vis2 \in Seq(Seq(Rec)) /\ Len(vis2) = V - 1 /\ V \in Nat /\ \A a \in 1 .. V - 1 : vis2[a] = vis[a]
  BY FrontIs
<1>4. /\ V > 1 /\ lev[V] = L /\ blk[V] = i /\ lev[V - 1] = L /\ ScopeEnd(vis, lo, V - 1) = n
      /\ \A a \in 1 .. V - 1 : lev[a] = L => ScopeEnd(vis, lo, a) <= n /\ blk[a] < i
      /\ lo[V] >= n
  <2>1. LeftScope(f, vis, lev, lo, blk, L, i)
    BY <1>1, LeftScopeIs
  <2>. HIDE DEF f, L
  <2>. QED
    BY <2>1 DEF LeftScope
<1>5. \A a \in 1 .. V : /\ lev[a] \in 1 .. L /\ lo[a] \in Nat /\ blk[a] \in Nat
                        /\ ScopeEnd(vis, lo, a) \in Nat /\ lo[a] <= ScopeEnd(vis, lo, a)
  BY <1>1, ScopesAre
<1>6. /\ i \in 1 .. Len(f.bl) /\ Len(g.bl) = i - 1 /\ (\A j \in 1 .. i - 1 : g.bl[j] = f.bl[j])
      /\ Len(g.actvar) = n /\ (\A v \in 1 .. n : g.actvar[v] = f.actvar[v])
  BY DEF Left
<1>7. n \in Nat /\ f \in FuncRec /\ Len(f.bl) \in Nat /\ n <= Len(g.actvar)
  <2>1. Len(g.actvar) \in Nat
    BY FuncTypes
  <2>2. f \in FuncRec
    BY <1>2, ElementOfSeq
  <2>. QED
    BY <1>6, <2>1, <2>2, FuncTypes
<1>8. ScopesAt(s, vis, lev, lo, blk) /\ ~ForPending(f) /\ ~ForPending(g)
  BY <1>1
<1>9. \A a \in 1 .. V - 1 : a \in 1 .. V
  BY <1>3
<1>. HIDE DEF t, vis2, f, n
<1>. DEFINE lev2 == [a \in 1 .. V - 1 |-> lev[a]]
            lo2 == [a \in 1 .. V - 1 |-> lo[a]]
            blk2 == [a \in 1 .. V - 1 |-> blk[a]]
<1>10. lev2 \in [1 .. V - 1 -> 1 .. L] /\ lo2 \in [1 .. V - 1 -> Nat] /\ blk2 \in [1 .. V - 1 -> Nat]
  BY <1>5, <1>9
<1>11. \A a \in 1 .. V - 1 : lev2[a] = lev[a] /\ lo2[a] = lo[a] /\ blk2[a] = blk[a]
  OBVIOUS
<1>. HIDE DEF lev2, lo2, blk2, L, V
<1>12. \A a \in 1 .. V - 1 : ScopeEnd(vis2, lo2, a) = ScopeEnd(vis, lo, a)
  BY <1>3, <1>11 DEF ScopeEnd
<1>13. InOrder(vis2, lev2, lo2, blk2)
  <2>1. ASSUME NEW a \in 1 .. V - 1, NEW b \in 1 .. V - 1, a < b
        PROVE  /\ lev2[a] <= lev2[b]
               /\ lev2[a] = lev2[b] => ScopeEnd(vis2, lo2, a) <= lo2[b] /\ blk2[a] < blk2[b]
    <3>1. /\ lev[a] <= lev[b]
          /\ lev[a] = lev[b] => ScopeEnd(vis, lo, a) <= lo[b] /\ blk[a] < blk[b]
      BY <1>8, <1>9, <2>1 DEF ScopesAt, InOrder, V
    <3>. QED
      BY <1>11, <1>12, <3>1
  <2>. QED
    BY <1>3, <2>1 DEF InOrder
<1>14. ASSUME NEW a \in 1 .. V - 1 PROVE ScopeFits(t[lev2[a]], vis2, lev2, lo2, blk2, a)
  <2>. DEFINE e == s[lev[a]]
  <2>1. ScopeFits(e, vis, lev, lo, blk, a)
    BY <1>8, <1>9 DEF ScopesAt, V
  <2>. HIDE DEF e
  <2>3. blk[a] # 0 => a > 1 /\ a - 1 \in 1 .. V - 1
    BY <1>3, <2>1 DEF ScopeFits
  <2>4. /\ lev2[a] = lev[a] /\ lo2[a] = lo[a] /\ blk2[a] = blk[a] /\ vis2[a] = vis[a]
        /\ ScopeEnd(vis2, lo2, a) = ScopeEnd(vis, lo, a)
        /\ blk[a] # 0 => lev2[a - 1] = lev[a - 1] /\ ScopeEnd(vis2, lo2, a - 1) = ScopeEnd(vis, lo, a - 1)
    BY <1>3, <1>11, <1>12, <2>3
  <2>5. CASE lev[a] = L
    <3>1. e = f /\ t[lev2[a]] = g
      BY <1>2, <2>4, <2>5 DEF e
    <3>2. ScopeEnd(vis, lo, a) <= Len(g.actvar)
      BY <1>4, <1>6, <2>5
    <3>3. \A j \in 1 .. Len(vis[a]) : g.actvar[lo[a] + j] = vis[a][j]
      <4>1. lo[a] \in Nat /\ Len(vis[a]) \in Nat /\ lo[a] + Len(vis[a]) <= n
        <5>1. vis[a] \in Seq(Rec)
          BY <1>9, ElementOfSeq DEF V
        <5>. QED
          BY <1>4, <1>5, <1>9, <2>5, <5>1, LenProperties DEF ScopeEnd
      <4>2. \A j \in 1 .. Len(vis[a]) : lo[a] + j \in 1 .. n
        <5>. DEFINE d == lo[a]  k == Len(vis[a])
        <5>1. d \in Nat /\ k \in Nat /\ d + k <= n /\ n \in Nat
          BY <1>7, <4>1
        <5>. HIDE DEF d, k, n
        <5>2. \A j \in 1 .. k : d + j \in 1 .. n
          BY <5>1
        <5>. QED
          BY <5>2 DEF d, k
      <4>3. \A j \in 1 .. Len(vis[a]) : f.actvar[lo[a] + j] = vis[a][j]
        BY <2>1, <3>1 DEF ScopeFits
      <4>4. ASSUME NEW j \in 1 .. Len(vis[a]) PROVE g.actvar[lo[a] + j] = vis[a][j]
        <5>. DEFINE v == lo[a] + j
        <5>1. v \in 1 .. n /\ f.actvar[v] = vis[a][j]
          BY <4>2, <4>3
        <5>. HIDE DEF v
        <5>2. g.actvar[v] = vis[a][j]
          BY <1>6, <5>1
        <5>. QED
          BY <5>2 DEF v
      <4>. QED
        BY <4>4
    <3>4. blk[a] # 0 => /\ blk[a] \in 1 .. Len(g.bl) /\ g.bl[blk[a]].first
                        /\ a > 1 /\ lev[a - 1] = lev[a]
                        /\ ScopeEnd(vis, lo, a - 1) = g.bl[blk[a]].nActVar
      <4>. SUFFICES ASSUME blk[a] # 0
                    PROVE  /\ blk[a] \in 1 .. Len(g.bl) /\ g.bl[blk[a]].first
                           /\ a > 1 /\ lev[a - 1] = lev[a]
                           /\ ScopeEnd(vis, lo, a - 1) = g.bl[blk[a]].nActVar
        OBVIOUS
      <4>1. /\ blk[a] \in 1 .. Len(f.bl) /\ f.bl[blk[a]].first
            /\ a > 1 /\ lev[a - 1] = lev[a]
            /\ ScopeEnd(vis, lo, a - 1) = f.bl[blk[a]].nActVar
        BY <2>1, <3>1 DEF ScopeFits
      <4>2. blk[a] \in 1 .. i - 1
        BY <1>4, <1>6, <1>7, <2>5, <4>1
      <4>. QED
        BY <1>6, <4>1, <4>2
    <3>. QED
      BY <2>4, <3>1, <3>2, <3>3, <3>4 DEF ScopeFits
  <2>6. CASE lev[a] # L
    <3>1. t[lev2[a]] = e
      BY <1>2, <1>5, <1>9, <2>4, <2>6 DEF e
    <3>2. ScopeFits(e, vis2, lev2, lo2, blk2, a)
      BY <2>1, <2>4 DEF ScopeFits
    <3>. QED
      BY <3>1, <3>2
  <2>. QED
    BY <2>5, <2>6
<1>15. ASSUME NEW l \in 1 .. L, l # L PROVE LevelFits(t[l], vis2, lev2, lo2, blk2, l)
  <2>. DEFINE e == s[l]
  <2>1. t[l] = e /\ LevelFits(e, vis, lev, lo, blk, l)
    BY <1>2, <1>8, <1>15 DEF ScopesAt, L
  <2>. HIDE DEF e
  <2>9. \A a \in 1 .. V : lev[a] = l => a \in 1 .. V - 1
    BY <1>3, <1>4, <1>15
  <2>2. \A j \in 1 .. Len(e.actvar) : e.actvar[j].name # Hidden =>
          \E a \in 1 .. V - 1 : lev2[a] = l /\ j \in lo2[a] + 1 .. ScopeEnd(vis2, lo2, a)
    <3>1. ASSUME NEW j \in 1 .. Len(e.actvar), e.actvar[j].name # Hidden
          PROVE  \E a \in 1 .. V - 1 : lev2[a] = l /\ j \in lo2[a] + 1 .. ScopeEnd(vis2, lo2, a)
      <4>1. PICK a \in 1 .. V : lev[a] = l /\ j \in lo[a] + 1 .. ScopeEnd(vis, lo, a)
        BY <2>1, <3>1 DEF LevelFits, V
      <4>2. a \in 1 .. V - 1
        BY <2>9, <4>1
      <4>. QED
        BY <1>11, <1>12, <4>1, <4>2
    <3>. QED
      BY <3>1
  <2>3. \E a \in 1 .. V - 1 : /\ lev2[a] = l /\ ScopeEnd(vis2, lo2, a) = Len(e.actvar)
                              /\ \A b \in a + 1 .. V - 1 : lev2[b] > l
    <3>1. PICK a \in 1 .. V : /\ lev[a] = l /\ ScopeEnd(vis, lo, a) = Len(e.actvar)
                              /\ \A b \in a + 1 .. V : lev[b] > l
      BY <2>1 DEF LevelFits, V
    <3>2. a \in 1 .. V - 1
      BY <2>9, <3>1
    <3>3. \A b \in a + 1 .. V - 1 : b \in a + 1 .. V /\ b \in 1 .. V - 1
      BY <1>3
    <3>. QED
      BY <1>11, <1>12, <3>1, <3>2, <3>3
  <2>4. ASSUME NEW j \in 1 .. Len(e.bl), e.bl[j].first
        PROVE  IF j = Len(e.bl) /\ ForPending(e)
               THEN \A a \in 1 .. V - 1 : lev2[a] = l => blk2[a] # j
               ELSE \E a \in 1 .. V - 1 : lev2[a] = l /\ blk2[a] = j
    <3>1. IF j = Len(e.bl) /\ ForPending(e)
          THEN \A a \in 1 .. V : lev[a] = l => blk[a] # j
          ELSE \E a \in 1 .. V : lev[a] = l /\ blk[a] = j
      BY <2>1, <2>4 DEF LevelFits, V
    <3>2. CASE j = Len(e.bl) /\ ForPending(e)
      BY <1>9, <1>11, <3>1, <3>2
    <3>3. CASE ~(j = Len(e.bl) /\ ForPending(e))
      BY <1>11, <2>9, <3>1, <3>3
    <3>. QED
      BY <3>2, <3>3
  <2>5. Len(vis2) = V - 1
    BY <1>3
  <2>6. LevelFits(e, vis2, lev2, lo2, blk2, l)
    BY <2>2, <2>3, <2>4, <2>5 DEF LevelFits
  <2>. QED
    BY <2>1, <2>6
<1>16. LevelFits(g, vis2, lev2, lo2, blk2, L)
  <2>1. LevelFits(f, vis, lev, lo, blk, L)
    <3>1. L \in 1 .. L
      BY <1>2 DEF L
    <3>. QED
      BY <1>2, <1>8, <3>1 DEF ScopesAt, L
  <2>2. \A j \in 1 .. Len(g.actvar) : g.actvar[j].name # Hidden =>
          \E a \in 1 .. V - 1 : lev2[a] = L /\ j \in lo2[a] + 1 .. ScopeEnd(vis2, lo2, a)
    <3>1. ASSUME NEW j \in 1 .. Len(g.actvar), g.actvar[j].name # Hidden
          PROVE  \E a \in 1 .. V - 1 : lev2[a] = L /\ j \in lo2[a] + 1 .. ScopeEnd(vis2, lo2, a)
      <4>1. j \in 1 .. Len(f.actvar) /\ f.actvar[j].name # Hidden /\ j <= n
        <5>1. j \in 1 .. n /\ j <= n
          BY <1>6, <1>7
        <5>2. n <= Len(f.actvar) /\ Len(f.actvar) \in Nat
          <6>1. V - 1 \in 1 .. V
            BY <1>3, <1>4
          <6>2. ScopeEnd(vis, lo, V - 1) <= Len(s[lev[V - 1]].actvar)
            BY <1>8, <6>1 DEF ScopesAt, ScopeFits, V
          <6>. QED
            BY <1>2, <1>4, <1>7, <6>2, FuncTypes
        <5>. QED
          BY <1>6, <1>7, <3>1, <5>1, <5>2, SMTT(20)
      <4>2. PICK a \in 1 .. V : lev[a] = L /\ j \in lo[a] + 1 .. ScopeEnd(vis, lo, a)
        BY <2>1, <4>1 DEF LevelFits, V
      <4>3. a # V
        <5>1. V \in 1 .. V
          BY <1>3, <1>4
        <5>2. lo[a] \in Nat /\ j > lo[a]
          BY <1>5, <4>2
        <5>3. j \in Nat /\ ~(j > n)
          BY <1>7, <4>1
        <5>. QED
          BY <1>4, <1>7, <5>2, <5>3
      <4>4. a \in 1 .. V - 1
        BY <1>3, <4>3
      <4>. QED
        BY <1>11, <1>12, <4>2, <4>4
    <3>. QED
      BY <3>1
  <2>3. \E a \in 1 .. V - 1 : /\ lev2[a] = L /\ ScopeEnd(vis2, lo2, a) = Len(g.actvar)
                              /\ \A b \in a + 1 .. V - 1 : lev2[b] > L
    <3>1. V - 1 \in 1 .. V - 1 /\ \A b \in V - 1 + 1 .. V - 1 : FALSE
      BY <1>3, <1>4
    <3>. QED
      BY <1>4, <1>6, <1>11, <1>12, <3>1
  <2>4. ASSUME NEW j \in 1 .. Len(g.bl), g.bl[j].first
        PROVE  IF j = Len(g.bl) /\ ForPending(g)
               THEN \A a \in 1 .. V - 1 : lev2[a] = L => blk2[a] # j
               ELSE \E a \in 1 .. V - 1 : lev2[a] = L /\ blk2[a] = j
    <3>1. j \in 1 .. i - 1 /\ j \in 1 .. Len(f.bl) /\ f.bl[j].first /\ j # i
      BY <1>6, <1>7, <2>4
    <3>2. PICK a \in 1 .. V : lev[a] = L /\ blk[a] = j
      BY <1>8, <2>1, <3>1 DEF LevelFits, V
    <3>3. a \in 1 .. V - 1
      BY <1>3, <1>4, <3>1, <3>2
    <3>. QED
      BY <1>8, <1>11, <3>2, <3>3
  <2>5. Len(vis2) = V - 1
    BY <1>3
  <2>. QED
    BY <2>2, <2>3, <2>4, <2>5 DEF LevelFits
<1>17. \A l \in 1 .. L : LevelFits(t[l], vis2, lev2, lo2, blk2, l)
  BY <1>2, <1>15, <1>16
<1>18. ScopesAt(t, vis2, lev2, lo2, blk2)
  BY <1>2, <1>3, <1>10, <1>13, <1>14, <1>17 DEF ScopesAt
<1>19. ScopesOK(t, vis2)
  BY <1>18 DEF ScopesOK
<1>. QED
  BY <1>4, <1>19 DEF t, vis2, V

LEMMA LeaveSound ==
  ASSUME NEW s, NEW vis, NEW cap, Sound(s, vis, cap), NEW g, NEW i, Left(s[Len(s)], g, i),
         Len(s[Len(s)].pending) = 0, ~ForPending(s[Len(s)])
  PROVE  Sound(Put(s, g), Front(vis), cap \cap Live(Put(s, g)))
<1>. DEFINE L == Len(s)  f == s[L]  t == Put(s, g)  vis2 == Front(vis)  cap2 == cap \cap Live(t)
<1>1. /\ s \in Seq(FuncRec) /\ L \in Nat /\ L > 0 /\ vis \in Seq(Seq(Rec)) /\ Len(vis) > 0 /\ Distinct(s)
      /\ UpvaluesOK(s) /\ CapturedOK(s, cap) /\ ClosesOK(s, cap) /\ ScopesOK(s, vis)
      /\ cap \in SUBSET (1 .. MAXDECLS) /\ f \in FuncRec /\ FuncOK(f) /\ FuncCloses(f, cap)
      /\ \A l \in 1 .. L : FuncOK(s[l])
  BY Innermost DEF Sound, TypesOK
<1>2. /\ KeepsVars(f, g) /\ Len(AllVars(g)) = Len(g.actvar) /\ ~ForPending(g)
  BY <1>1, LeaveVars
<1>3. FuncOK(g) /\ FuncCloses(g, cap)
  BY <1>1, LeaveOK, LeaveCloses
<1>4. g \in FuncRec /\ g.upvalues = f.upvalues
  BY DEF Left
<1>5. /\ t \in Seq(FuncRec) /\ Len(t) = L /\ Len(s) = L /\ t[L] = g /\ s[L] = f
      /\ \A l \in 1 .. L : l # L => t[l] = s[l]
  BY <1>1, <1>4, PutIs
<1>6. ScopesOK(t, vis2) /\ Len(vis) > 1
  BY <1>1, <1>2, <1>4, ScopesLeave
<1>7. vis2 \in Seq(Seq(Rec)) /\ Len(vis2) > 0
  <2>1. vis2 \in Seq(Seq(Rec)) /\ Len(vis2) = Len(vis) - 1 /\ Len(vis) \in Nat
    BY <1>1, FrontIs
  <2>. HIDE DEF vis2
  <2>. QED
    BY <1>6, <2>1
<1>8. Distinct(t)
  BY <1>1, <1>2, <1>4, KeepsDistinct
<1>. HIDE DEF t, vis2, L, f
<1>9. \A l \in 1 .. L : KeepsVars(s[l], t[l])
  <2>1. ASSUME NEW l \in 1 .. L, l # L PROVE KeepsVars(s[l], t[l])
    <3>1. Len(AllVars(s[l])) \in Nat
      BY <1>1, VarsOf DEF FuncOK
    <3>. QED
      BY <1>5, <2>1, <3>1 DEF KeepsVars
  <2>. QED
    BY <1>2, <1>5, <2>1
<1>10. TypesOK(t, vis2, cap2)
  <2>1. cap2 \in SUBSET (1 .. MAXDECLS)
    BY <1>1
  <2>2. \A l \in 1 .. L : FuncOK(t[l])
    BY <1>1, <1>3, <1>5
  <2>. HIDE DEF cap2
  <2>. QED
    BY <1>1, <1>5, <1>7, <2>1, <2>2 DEF TypesOK
<1>11. UpvaluesOK(t)
  <2>1. \A l \in 1 .. Len(t) : l <= Len(s) /\ t[l].upvalues = s[l].upvalues
    BY <1>1, <1>4, <1>5
  <2>2. \A l \in 1 .. Len(t) : l < Len(s) => t[l].actvar = s[l].actvar /\ t[l].upvalues = s[l].upvalues
    BY <1>1, <1>5
  <2>. QED
    BY <1>1, <1>5, <2>1, <2>2, UpvaluesKept
<1>12. CapturedOK(t, cap2)
  <2>1. \A l \in 1 .. Len(t) : \A j \in 1 .. Len(AllVars(t[l])) :
          j <= Len(s[l].actvar) => j <= Len(t[l].actvar)
    <3>1. Len(g.actvar) \in Nat
      BY <1>4, FuncTypes
    <3>2. \A j \in 1 .. Len(AllVars(g)) : j <= Len(g.actvar)
      BY <1>2, <3>1
    <3>. QED
      BY <1>5, <3>2
  <2>2. Len(t) <= Len(s)
    BY <1>1, <1>5
  <2>. QED
    BY <1>1, <1>5, <1>9, <2>1, <2>2, CapturedShrinks
<1>13. ClosesOK(t, cap2)
  <2>1. \A l \in 1 .. Len(t) : BlocksOK(t[l]) /\ FuncCloses(t[l], cap)
    BY <1>1, <1>3, <1>5 DEF ClosesOK, FuncOK
  <2>. QED
    BY <1>5, <2>1, ClosesLive DEF ClosesOK
<1>14. Sound(t, vis2, cap2)
  BY <1>6, <1>8, <1>10, <1>11, <1>12, <1>13 DEF Sound
<1>. QED
  BY <1>14 DEF t, vis2

LEMMA LeaveBlockKeeps ==
  ASSUME Sound(fs, visible, captured), LeaveBlock
  PROVE  Sound(fs, visible, captured)'
<1>. DEFINE f == fs[Len(fs)]  g == Leave(f)
<1>1. /\ f.pending = <<>> /\ f.bl # <<>>
      /\ fs' = Put(fs, g) /\ visible' = Front(visible) /\ captured' = captured \cap Live(Put(fs, g))
  BY DEF LeaveBlock, Statement, Func, SetFunc, Put
<1>2. f \in FuncRec /\ FuncOK(f)
  BY Innermost
<1>3. Len(f.pending) = 0 /\ ~ForPending(f)
  BY <1>1, EmptySeq DEF ForPending
<1>4. Len(f.bl) > 0
  <2>1. f.bl \in Seq(BlockRec)
    BY <1>2, FuncTypes
  <2>. QED
    BY <1>1, <2>1, EmptySeq, LenProperties
<1>5. Left(f, g, StatementBlock(f))
  BY <1>2, <1>3, <1>4, LeaveIs DEF FuncOK
<1>. HIDE DEF g
<1>6. Sound(Put(fs, g), Front(visible), captured \cap Live(Put(fs, g)))
  BY <1>3, <1>5, LeaveSound
<1>. QED
  BY <1>1, <1>6
-----------------------------------------------------------------------------
(* Names are used *)

\* g is f with blocks marked or upvalues added.
SameLevel(f, g) ==
  /\ g \in FuncRec /\ g.actvar = f.actvar /\ g.pending = f.pending
  /\ Len(g.bl) = Len(f.bl)
  /\ \A i \in 1 .. Len(f.bl) : g.bl[i].first = f.bl[i].first /\ g.bl[i].nActVar = f.bl[i].nActVar
  /\ Extends(f.upvalues, g.upvalues)

LEMMA SameLevelKeeps ==
  ASSUME NEW f \in FuncRec, FuncOK(f), NEW g, SameLevel(f, g), Len(g.upvalues) <= LUAI_MAXUPVALUES
  PROVE  FuncOK(g) /\ KeepsVars(f, g) /\ SameShape(f, g)
<1>1. /\ g \in FuncRec /\ g.actvar = f.actvar /\ g.pending = f.pending /\ Len(g.bl) = Len(f.bl)
      /\ \A i \in 1 .. Len(f.bl) : g.bl[i].first = f.bl[i].first /\ g.bl[i].nActVar = f.bl[i].nActVar
  BY DEF SameLevel
<1>2. /\ Len(f.bl) \in Nat /\ Len(f.actvar) \in Nat /\ Len(AllVars(f)) \in Nat /\ AllVars(g) = AllVars(f)
  BY <1>1, FuncTypes, VarsOf DEF AllVars
<1>3. ForPending(g) = ForPending(f)
  BY <1>1 DEF ForPending
<1>4. BlocksOK(g)
  <2>1. Len(f.bl) > 0 => 1 \in 1 .. Len(f.bl)
    BY <1>2
  <2>. QED
    BY <1>1, <2>1 DEF FuncOK, BlocksOK
<1>5. PendingOK(g)
  <2>1. Len(f.bl) > 0 => Len(f.bl) \in 1 .. Len(f.bl)
    BY <1>2
  <2>. QED
    BY <1>1, <1>3, <2>1 DEF FuncOK, PendingOK
<1>6. FuncOK(g)
  BY <1>1, <1>4, <1>5 DEF FuncOK, LimitsOK
<1>7. KeepsVars(f, g)
  BY <1>2 DEF KeepsVars
<1>8. SameShape(f, g)
  <2>1. \A i \in Len(f.bl) + 1 .. Len(f.bl) : FALSE
    BY <1>2
  <2>. QED
    BY <1>1, <1>2, <1>3, <2>1 DEF SameShape
<1>. QED
  BY <1>6, <1>7, <1>8

\* The block of g that the variable x belongs to closes upvalues.
Marked(f, g, x) ==
  \A i \in 1 .. Len(f.bl) :
    g.bl[i].upval <=> f.bl[i].upval \/ x \in f.bl[i].nActVar + 1 .. BlockEnd(f, i)

LEMMA MarkIs ==
  ASSUME NEW f \in FuncRec, FuncOK(f), NEW x \in 1 .. Len(f.actvar)
  PROVE  /\ SameLevel(f, MarkUpval(f, x)) /\ MarkUpval(f, x).upvalues = f.upvalues
         /\ Marked(f, MarkUpval(f, x), x)
<1>. DEFINE B == Len(f.bl)  around == {i \in DOMAIN f.bl : f.bl[i].nActVar < x}  g == MarkUpval(f, x)
<1>1. /\ B \in Nat /\ DOMAIN f.bl = 1 .. B /\ f.bl \in Seq(BlockRec) /\ Len(f.actvar) \in Nat
      /\ \A i \in 1 .. B : f.bl[i] \in BlockRec /\ f.bl[i].nActVar \in Nat
      /\ \A i \in 1 .. B : f.bl[i].nActVar <= Len(f.actvar)
      /\ \A i, j \in 1 .. B : i <= j => f.bl[i].nActVar <= f.bl[j].nActVar
  BY FuncTypes, BlockTypes, LenProperties DEF FuncOK, BlocksOK
<1>9. Extends(f.upvalues, f.upvalues)
  BY FuncTypes DEF Extends
<1>2. CASE around = {}
  <2>1. g = f
    BY <1>2 DEF MarkUpval
  <2>2. \A i \in 1 .. B : f.bl[i].nActVar >= x
    BY <1>1, <1>2
  <2>3. \A i \in 1 .. B : x \notin f.bl[i].nActVar + 1 .. BlockEnd(f, i)
    BY <1>1, <2>2
  <2>. QED
    BY <1>9, <2>1, <2>3 DEF SameLevel, Marked
<1>3. CASE around # {}
  <2>. DEFINE m == Max(around)
  <2>1. m \in around /\ \A i \in around : i <= m
    <3>1. around \in SUBSET Nat /\ around # {} /\ \A i \in around : i <= B
      BY <1>1, <1>3
    <3>. HIDE DEF around, B
    <3>. QED
      BY <1>1, <3>1, MaxIs
  <2>. DEFINE b == [f.bl EXCEPT ![m].upval = TRUE]
  <2>2. g = [f EXCEPT !.bl = b]
    BY <1>3 DEF MarkUpval
  <2>. HIDE DEF m
  <2>3. m \in 1 .. B /\ f.bl[m].nActVar < x /\ \A i \in 1 .. B : i > m => f.bl[i].nActVar >= x
    BY <1>1, <2>1
  <2>. DEFINE r == [f.bl[m] EXCEPT !.upval = TRUE]
  <2>4. r \in BlockRec /\ r.upval = TRUE /\ r.nActVar = f.bl[m].nActVar /\ r.first = f.bl[m].first
    BY <1>1, <2>3 DEF BlockRec
  <2>5. /\ b \in Seq(BlockRec) /\ Len(b) = B
        /\ \A i \in 1 .. B : b[i] = IF i = m THEN r ELSE f.bl[i]
    <3>1. b = [f.bl EXCEPT ![m] = r]
      OBVIOUS
    <3>. HIDE DEF r, b
    <3>. QED
      BY <1>1, <2>3, <2>4, <3>1, ExceptSeq
  <2>. HIDE DEF r, b, g, around, B
  <2>6. g \in FuncRec /\ g.actvar = f.actvar /\ g.pending = f.pending /\ g.bl = b /\ g.upvalues = f.upvalues
    BY <2>2, <2>5 DEF FuncRec
  <2>7. SameLevel(f, g)
    BY <1>9, <2>4, <2>5, <2>6 DEF SameLevel, B
  <2>8. ASSUME NEW i \in 1 .. B
        PROVE  x \in f.bl[i].nActVar + 1 .. BlockEnd(f, i) <=> i = m
    <3>1. CASE i = m
      <4>1. CASE m = B
        BY <1>1, <2>3, <3>1, <4>1 DEF BlockEnd, B
      <4>2. CASE m # B
        <5>1. m + 1 \in 1 .. B /\ m + 1 > m
          BY <1>1, <2>3, <4>2
        <5>2. f.bl[m + 1].nActVar >= x
          BY <2>3, <5>1
        <5>. QED
          BY <1>1, <2>3, <3>1, <4>2, <5>1, <5>2 DEF BlockEnd, B
      <4>. QED
        BY <4>1, <4>2
    <3>2. CASE i > m
      BY <1>1, <2>3, <3>2
    <3>3. CASE i < m
      <4>1. i + 1 \in 1 .. B /\ i + 1 <= m /\ i # B
        BY <1>1, <2>3, <3>3
      <4>2. BlockEnd(f, i) = f.bl[i + 1].nActVar
        BY <4>1 DEF BlockEnd, B
      <4>3. f.bl[i + 1].nActVar <= f.bl[m].nActVar /\ f.bl[i + 1].nActVar \in Nat /\ f.bl[m].nActVar \in Nat
        BY <1>1, <2>3, <4>1
      <4>. QED
        BY <1>1, <2>3, <3>3, <4>2, <4>3
    <3>. QED
      BY <1>1, <2>3, <3>1, <3>2, <3>3
  <2>9. Marked(f, g, x)
    <3>1. \A i \in 1 .. B : f.bl[i].upval \in BOOLEAN
      BY BlockTypes DEF B
    <3>. QED
      BY <2>4, <2>5, <2>6, <2>8, <3>1 DEF Marked, B
  <2>. QED
    BY <2>6, <2>7, <2>9 DEF g
<1>. QED
  BY <1>2, <1>3

\* The variable x is captured.
LEMMA MarkCloses ==
  ASSUME NEW f \in FuncRec, FuncOK(f), NEW x \in 1 .. Len(f.actvar), NEW g, SameLevel(f, g), Marked(f, g, x),
         NEW cap, FuncCloses(f, cap),
         \A v \in 1 .. Len(f.actvar) : f.actvar[v].id = f.actvar[x].id => v = x
  PROVE  FuncCloses(g, cap \cup {f.actvar[x].id})
<1>. DEFINE c == f.actvar[x].id
<1>1. /\ Len(g.bl) = Len(f.bl) /\ g.actvar = f.actvar /\ Len(f.bl) \in Nat /\ Len(f.actvar) \in Nat
      /\ \A i \in 1 .. Len(f.bl) : g.bl[i].nActVar = f.bl[i].nActVar
  BY FuncTypes DEF SameLevel
<1>. SUFFICES ASSUME NEW i \in 1 .. Len(f.bl)
              PROVE  g.bl[i].upval <=> \E v \in g.bl[i].nActVar + 1 .. BlockEnd(g, i) : g.actvar[v].id \in cap \cup {c}
  BY <1>1 DEF FuncCloses
<1>2. BlockEnd(g, i) = BlockEnd(f, i) /\ BlockEnd(f, i) \in Nat /\ BlockEnd(f, i) <= Len(f.actvar)
      /\ f.bl[i].nActVar \in Nat
  <2>1. f.bl[i].nActVar \in Nat
    BY BlockTypes
  <2>2. CASE i = Len(f.bl)
    BY <1>1, <2>1, <2>2 DEF BlockEnd
  <2>3. CASE i # Len(f.bl)
    <3>1. i + 1 \in 1 .. Len(f.bl)
      BY <1>1, <2>3
    <3>2. f.bl[i + 1].nActVar \in Nat /\ f.bl[i + 1].nActVar <= Len(f.actvar)
      BY <3>1, BlockTypes DEF FuncOK, BlocksOK
    <3>. QED
      BY <1>1, <2>1, <2>3, <3>1, <3>2 DEF BlockEnd
  <2>. QED
    BY <2>2, <2>3
<1>3. f.bl[i].upval <=> \E v \in f.bl[i].nActVar + 1 .. BlockEnd(f, i) : f.actvar[v].id \in cap
  BY DEF FuncCloses
<1>4. g.bl[i].upval <=> f.bl[i].upval \/ x \in f.bl[i].nActVar + 1 .. BlockEnd(f, i)
  BY DEF Marked
<1>5. \A v \in f.bl[i].nActVar + 1 .. BlockEnd(f, i) : v \in 1 .. Len(f.actvar)
  BY <1>1, <1>2
<1>6. \A v \in f.bl[i].nActVar + 1 .. BlockEnd(f, i) : f.actvar[v].id = c <=> v = x
  BY <1>5
<1>. HIDE DEF c
<1>. DEFINE E == f.bl[i].nActVar + 1 .. BlockEnd(f, i)
<1>7. \A v \in E : f.actvar[v].id = c <=> v = x
  BY <1>6
<1>8. /\ f.bl[i].upval <=> \E v \in E : f.actvar[v].id \in cap
      /\ g.bl[i].upval <=> f.bl[i].upval \/ x \in E
  BY <1>3, <1>4
<1>9. g.bl[i].nActVar + 1 .. BlockEnd(g, i) = E /\ g.actvar = f.actvar
  BY <1>1, <1>2
<1>. HIDE DEF E
<1>10. (\E v \in E : f.actvar[v].id \in cap \cup {c}) <=> (\E v \in E : f.actvar[v].id \in cap) \/ x \in E
  BY <1>7
<1>11. g.bl[i].upval <=> \E v \in E : g.actvar[v].id \in cap \cup {c}
  BY <1>8, <1>9, <1>10
<1>. QED
  BY <1>9, <1>11 DEF c

\* A variable of another function is captured.
LEMMA OtherCloses ==
  ASSUME NEW f \in FuncRec, FuncOK(f), NEW g, SameLevel(f, g), g.bl = f.bl, NEW cap, FuncCloses(f, cap), NEW c,
         \A v \in 1 .. Len(f.actvar) : f.actvar[v].id # c
  PROVE  FuncCloses(g, cap \cup {c})
<1>1. g.actvar = f.actvar /\ Len(f.bl) \in Nat /\ Len(f.actvar) \in Nat
  BY FuncTypes DEF SameLevel
<1>. SUFFICES ASSUME NEW i \in 1 .. Len(f.bl)
              PROVE  f.bl[i].upval <=> \E v \in f.bl[i].nActVar + 1 .. BlockEnd(f, i) : f.actvar[v].id \in cap \cup {c}
  BY <1>1 DEF FuncCloses, BlockEnd
<1>2. BlockEnd(f, i) \in Nat /\ BlockEnd(f, i) <= Len(f.actvar) /\ f.bl[i].nActVar \in Nat
  <2>1. f.bl[i].nActVar \in Nat
    BY BlockTypes
  <2>2. CASE i = Len(f.bl)
    BY <1>1, <2>1, <2>2 DEF BlockEnd
  <2>3. CASE i # Len(f.bl)
    <3>1. i + 1 \in 1 .. Len(f.bl)
      BY <1>1, <2>3
    <3>2. f.bl[i + 1].nActVar \in Nat /\ f.bl[i + 1].nActVar <= Len(f.actvar)
      BY <3>1, BlockTypes DEF FuncOK, BlocksOK
    <3>. QED
      BY <1>1, <2>1, <2>3, <3>1, <3>2 DEF BlockEnd
  <2>. QED
    BY <2>2, <2>3
<1>3. f.bl[i].upval <=> \E v \in f.bl[i].nActVar + 1 .. BlockEnd(f, i) : f.actvar[v].id \in cap
  BY DEF FuncCloses
<1>4. \A v \in f.bl[i].nActVar + 1 .. BlockEnd(f, i) : v \in 1 .. Len(f.actvar)
  BY <1>1, <1>2
<1>. QED
  BY <1>3, <1>4

\* g is f with one more upvalue.
Added(f, g, u) ==
  /\ Len(g.upvalues) = Len(f.upvalues) + 1 /\ g.upvalues[Len(f.upvalues) + 1] = u
  /\ \A j \in 1 .. Len(f.upvalues) : g.upvalues[j] = f.upvalues[j]

LEMMA AddIs ==
  ASSUME NEW f \in FuncRec, NEW u \in UpRec, NEW g, g = [f EXCEPT !.upvalues = Append(@, u)]
  PROVE  SameLevel(f, g) /\ g.bl = f.bl /\ Added(f, g, u)
<1>. DEFINE a == f.upvalues  b == Append(a, u)
<1>1. a \in Seq(UpRec) /\ Len(a) \in Nat
  BY FuncTypes
<1>. HIDE DEF a
<1>2. /\ b \in Seq(UpRec) /\ Len(b) = Len(a) + 1 /\ b[Len(a) + 1] = u
      /\ \A j \in 1 .. Len(a) : b[j] = a[j]
  BY <1>1, AppendProperties
<1>3. g = [f EXCEPT !.upvalues = b]
  BY DEF a
<1>. HIDE DEF b
<1>4. g \in FuncRec /\ g.actvar = f.actvar /\ g.pending = f.pending /\ g.bl = f.bl /\ g.upvalues = b
  BY <1>2, <1>3 DEF FuncRec
<1>5. Extends(a, b)
  BY <1>1, <1>2 DEF Extends
<1>. QED
  BY <1>2, <1>4, <1>5 DEF SameLevel, Added, a

\* The functions t after the name n, found at level h as variable x, was used.
UsedAt(t, h, x, c, info) ==
  /\ t \in Seq(FuncRec) /\ Len(t) = Len(fs)
  /\ \A l \in 1 .. Len(fs) :
       /\ SameLevel(fs[l], t[l])
       /\ IF l = h THEN Marked(fs[l], t[l], x) ELSE t[l].bl = fs[l].bl
       /\ IF l > h /\ info[l] > Len(fs[l].upvalues)
          THEN Added(fs[l], t[l], [k |-> Kind(h, l - 1), info |-> info[l - 1], id |-> c])
          ELSE t[l].upvalues = fs[l].upvalues

\* The variable that is found, and where it is from its level inwards.
Found(h, x, c, info) ==
  /\ h \in 1 .. Len(fs) /\ h < Len(fs) /\ x \in 1 .. Len(fs[h].actvar)
  /\ fs[h].actvar[x].id = c /\ c # 0 /\ c \in 1 .. MAXDECLS
  /\ info[h] = x /\ \A l \in h .. Len(fs) : info[l] \in Nat
  /\ \A l \in h + 1 .. Len(fs) : MeansAt(l, info[l], c) /\ info[l] <= LUAI_MAXUPVALUES

LEMMA FoundIs ==
  ASSUME Sound(fs, visible, captured), NEW n \in Name, Home(n) > 0, Home(n) < Len(fs),
         NEW info, PlacesOK(n, info),
         \A l \in Home(n) + 1 .. Len(fs) : info[l] <= LUAI_MAXUPVALUES
  PROVE  Found(Home(n), SearchVar(fs[Home(n)], n), Meant(n), info)
<1>. DEFINE h == Home(n)  x == SearchVar(fs[h], n)  c == Meant(n)  f == fs[h]
<1>1. TypesOK(fs, visible, captured) /\ ScopesOK(fs, visible)
  BY DEF Sound
<1>2. h \in 1 .. Len(fs) /\ Len(fs) \in Nat /\ x > 0 /\ h < Len(fs)
  BY <1>1, HomeIs
<1>3. f \in FuncRec /\ FuncOK(f)
  BY <1>1, <1>2 DEF TypesOK, FuncOK
<1>4. c = f.actvar[x].id
  BY <1>1, MeantIs
<1>. HIDE DEF c, f, h
<1>5. x \in 0 .. Len(f.actvar) /\ (x > 0 => f.actvar[x].name = n) /\ Len(f.actvar) \in Nat
  BY <1>3, SearchIs, FuncTypes DEF f
<1>6. x \in 1 .. Len(f.actvar) /\ f.actvar[x].name = n
  BY <1>2, <1>5
<1>. HIDE DEF x
<1>7. f.actvar[x] \in Rec
  <2>1. f.actvar \in Seq(Rec)
    BY <1>3, FuncTypes
  <2>. QED
    BY <1>6, <2>1, ElementOfSeq
<1>8. c # 0 /\ c \in Nat /\ c <= MAXDECLS
  <2>1. n # Hidden
    BY NameAssumption
  <2>2. f.actvar[x].id # 0
    BY <1>3, <1>6, <2>1 DEF FuncOK, NumbersOK
  <2>. QED
    BY <1>4, <1>7, <2>2, RecTypes
<1>9. c \in 1 .. MAXDECLS
  BY <1>8, MaxDeclsType
<1>10. /\ info[h] = x /\ (\A l \in h .. Len(fs) : info[l] \in Nat)
       /\ \A l \in h + 1 .. Len(fs) : MeansAt(l, info[l], c)
  BY DEF PlacesOK, x, c, h
<1>11. \A l \in h + 1 .. Len(fs) : info[l] <= LUAI_MAXUPVALUES
  BY DEF h
<1>12. Found(h, x, c, info)
  BY <1>2, <1>4, <1>6, <1>8, <1>9, <1>10, <1>11 DEF Found, f
<1>. QED
  BY <1>12 DEF h, x, c, f

LEMMA UsedLevels ==
  ASSUME Sound(fs, visible, captured), NEW h, NEW x, NEW c, NEW info, Found(h, x, c, info),
         NEW t, UsedAt(t, h, x, c, info), NEW l \in 1 .. Len(fs)
  PROVE  FuncOK(t[l]) /\ KeepsVars(fs[l], t[l]) /\ SameShape(fs[l], t[l])
<1>1. fs[l] \in FuncRec /\ FuncOK(fs[l]) /\ h \in Nat /\ l \in Nat /\ Len(fs) \in Nat
  BY LenProperties DEF Sound, TypesOK, FuncOK, Found
<1>2. SameLevel(fs[l], t[l])
  BY DEF UsedAt
<1>3. Len(fs[l].upvalues) <= LUAI_MAXUPVALUES /\ Len(fs[l].upvalues) \in Nat
  BY <1>1, FuncTypes DEF FuncOK, LimitsOK
<1>4. Len(t[l].upvalues) <= LUAI_MAXUPVALUES
  <2>1. CASE l > h /\ info[l] > Len(fs[l].upvalues)
    <3>1. Len(t[l].upvalues) = Len(fs[l].upvalues) + 1
      BY <2>1 DEF UsedAt, Added
    <3>2. l \in h + 1 .. Len(fs)
      BY <1>1, <2>1
    <3>3. info[l] \in 1 .. Len(fs[l].upvalues) + 1 /\ info[l] <= LUAI_MAXUPVALUES
      BY <3>2 DEF Found, MeansAt
    <3>4. info[l] = Len(fs[l].upvalues) + 1
      BY <1>3, <2>1, <3>3
    <3>. QED
      BY <3>1, <3>3, <3>4
  <2>2. CASE ~(l > h /\ info[l] > Len(fs[l].upvalues))
    BY <1>3, <2>2 DEF UsedAt
  <2>. QED
    BY <2>1, <2>2
<1>. QED
  BY <1>1, <1>2, <1>4, SameLevelKeeps

\* Every level from the one after home inwards has an upvalue for the variable.
LEMMA UsedCarries ==
  ASSUME fs \in Seq(FuncRec), NEW h, NEW x, NEW c, NEW info, Found(h, x, c, info),
         NEW t, UsedAt(t, h, x, c, info), NEW l \in h + 1 .. Len(fs)
  PROVE  info[l] \in 1 .. Len(t[l].upvalues) /\ t[l].upvalues[info[l]].id = c
<1>1. h \in Nat /\ h > 0 /\ Len(fs) \in Nat /\ l \in 1 .. Len(fs) /\ l > h /\ l \in Nat
  BY LenProperties DEF Found
<1>2. fs[l] \in FuncRec /\ Len(fs[l].upvalues) \in Nat
  BY <1>1, ElementOfSeq, FuncTypes
<1>3. /\ info[l] \in 1 .. Len(fs[l].upvalues) + 1
      /\ \A j \in 1 .. Len(fs[l].upvalues) : fs[l].upvalues[j].id = c <=> j = info[l]
  BY DEF Found, MeansAt
<1>4. CASE info[l] > Len(fs[l].upvalues)
  <2>1. info[l] = Len(fs[l].upvalues) + 1
    BY <1>2, <1>3, <1>4
  <2>2. Added(fs[l], t[l], [k |-> Kind(h, l - 1), info |-> info[l - 1], id |-> c])
    BY <1>1, <1>4 DEF UsedAt
  <2>. QED
    BY <1>3, <2>1, <2>2 DEF Added
<1>5. CASE ~(info[l] > Len(fs[l].upvalues))
  <2>1. info[l] \in 1 .. Len(fs[l].upvalues)
    BY <1>2, <1>3, <1>5
  <2>2. t[l].upvalues = fs[l].upvalues
    BY <1>1, <1>5 DEF UsedAt
  <2>. QED
    BY <1>3, <2>1, <2>2
<1>. QED
  BY <1>4, <1>5

LEMMA UsedUpvalues ==
  ASSUME fs \in Seq(FuncRec), UpvaluesOK(fs), NEW h, NEW x, NEW c, NEW info, Found(h, x, c, info),
         NEW t, UsedAt(t, h, x, c, info)
  PROVE  UpvaluesOK(t)
<1>1. /\ Len(t) = Len(fs) /\ Len(fs) \in Nat
      /\ \A l \in 1 .. Len(fs) : /\ t[l].actvar = fs[l].actvar /\ Extends(fs[l].upvalues, t[l].upvalues)
                                 /\ Len(fs[l].upvalues) \in Nat
  BY LenProperties, ElementOfSeq, FuncTypes DEF UsedAt, SameLevel
<1>2. h \in 1 .. Len(fs) /\ h \in Nat /\ c # 0 /\ x \in 1 .. Len(fs[h].actvar) /\ fs[h].actvar[x].id = c
      /\ info[h] = x
  BY DEF Found
<1>3. ASSUME NEW l \in 1 .. Len(fs), NEW j \in 1 .. Len(fs[l].upvalues)
      PROVE  UpvalueOK(t, l, fs[l].upvalues[j])
  <2>. DEFINE u == fs[l].upvalues[j]
  <2>1. UpvalueOK(fs, l, u)
    BY DEF UpvaluesOK
  <2>. HIDE DEF u
  <2>2. l > 1 /\ l - 1 \in 1 .. Len(fs) /\ \A m \in 1 .. l - 1 : m \in 1 .. Len(fs)
    BY <1>1, <2>1 DEF UpvalueOK
  <2>3. /\ t[l - 1].actvar = fs[l - 1].actvar
        /\ Len(fs[l - 1].upvalues) <= Len(t[l - 1].upvalues)
        /\ \A i \in 1 .. Len(fs[l - 1].upvalues) : t[l - 1].upvalues[i] = fs[l - 1].upvalues[i]
    BY <1>1, <2>2 DEF Extends
  <2>4. \A i \in 1 .. Len(fs[l - 1].upvalues) : i \in 1 .. Len(t[l - 1].upvalues)
    <3>1. Len(t[l - 1].upvalues) \in Int
      <4>1. t[l - 1] \in FuncRec
        BY <2>2 DEF UsedAt, SameLevel
      <4>. QED
        BY <4>1, FuncTypes
    <3>. QED
      BY <1>1, <2>2, <2>3, <3>1
  <2>5. \E m \in 1 .. l - 1 : ActiveIn(t, m, u.id)
    BY <1>1, <2>1, <2>2 DEF UpvalueOK, ActiveIn
  <2>6. UpvalueOK(t, l, u)
    BY <2>1, <2>3, <2>4, <2>5 DEF UpvalueOK
  <2>. QED
    BY <2>6 DEF u
<1>4. ASSUME NEW l \in 1 .. Len(fs), l > h
      PROVE  UpvalueOK(t, l, [k |-> Kind(h, l - 1), info |-> info[l - 1], id |-> c])
  <2>. DEFINE u == [k |-> Kind(h, l - 1), info |-> info[l - 1], id |-> c]
  <2>1. l > 1 /\ l - 1 \in 1 .. Len(fs) /\ h \in 1 .. l - 1 /\ l \in Nat
    BY <1>1, <1>2, <1>4
  <2>2. u.k = Kind(h, l - 1) /\ u.info = info[l - 1] /\ u.id = c
    OBVIOUS
  <2>. HIDE DEF u
  <2>3. ActiveIn(t, h, c)
    BY <1>1, <1>2 DEF ActiveIn
  <2>4. CASE l - 1 = h
    <3>1. u.k = "VLOCAL" /\ u.info = x
      BY <1>2, <2>2, <2>4 DEF Kind
    <3>2. x \in 1 .. Len(t[l - 1].actvar) /\ t[l - 1].actvar[x].id = c
      BY <1>1, <1>2, <2>4
    <3>3. UpvalueOK(t, l, u)
      BY <1>2, <2>1, <2>2, <2>3, <3>1, <3>2 DEF UpvalueOK
    <3>. QED
      BY <3>3 DEF u
  <2>5. CASE l - 1 # h
    <3>1. u.k = "VUPVAL" /\ u.info = info[l - 1]
      BY <2>2, <2>5 DEF Kind
    <3>. DEFINE p == l - 1
    <3>2. p \in h + 1 .. Len(fs)
      BY <1>1, <1>2, <1>4, <2>1, <2>5
    <3>. HIDE DEF p
    <3>3. info[p] \in 1 .. Len(t[p].upvalues) /\ t[p].upvalues[info[p]].id = c
      BY <3>2, UsedCarries
    <3>4. UpvalueOK(t, l, u)
      BY <1>2, <2>1, <2>2, <2>3, <3>1, <3>3 DEF UpvalueOK, p
    <3>. QED
      BY <3>4 DEF u
  <2>. QED
    BY <2>4, <2>5
<1>5. ASSUME NEW l \in 1 .. Len(fs), NEW j \in 1 .. Len(t[l].upvalues)
      PROVE  /\ UpvalueOK(t, l, t[l].upvalues[j])
             /\ \A i \in 1 .. Len(t[l].upvalues) : t[l].upvalues[i].id = t[l].upvalues[j].id => i = j
  <2>1. CASE l > h /\ info[l] > Len(fs[l].upvalues)
    <3>. DEFINE u == [k |-> Kind(h, l - 1), info |-> info[l - 1], id |-> c]  n == Len(fs[l].upvalues)
    <3>1. /\ Len(t[l].upvalues) = n + 1 /\ t[l].upvalues[n + 1] = u
          /\ \A i \in 1 .. n : t[l].upvalues[i] = fs[l].upvalues[i]
      BY <2>1 DEF UsedAt, Added
    <3>2. n \in Nat /\ u.id = c /\ UpvalueOK(t, l, u)
      BY <1>1, <1>4, <2>1
    <3>3. \A i \in 1 .. n : fs[l].upvalues[i].id # c
      <4>1. l \in h + 1 .. Len(fs)
        BY <1>1, <1>2, <2>1
      <4>2. \A i \in 1 .. n : fs[l].upvalues[i].id = c <=> i = info[l]
        BY <4>1 DEF Found, MeansAt
      <4>. QED
        BY <2>1, <3>2, <4>2
    <3>4. /\ \A i \in 1 .. n : UpvalueOK(t, l, fs[l].upvalues[i])
          /\ \A i, k \in 1 .. n : fs[l].upvalues[i].id = fs[l].upvalues[k].id => i = k
      BY <1>3 DEF UpvaluesOK
    <3>. HIDE DEF u, n
    <3>5. \A i \in 1 .. n + 1 : i \in 1 .. n \/ i = n + 1
      BY <3>2
    <3>6. j \in 1 .. n + 1
      BY <3>1
    <3>7. UpvalueOK(t, l, t[l].upvalues[j])
      BY <3>1, <3>2, <3>4, <3>5, <3>6
    <3>8. ASSUME NEW i \in 1 .. n + 1, t[l].upvalues[i].id = t[l].upvalues[j].id PROVE i = j
      <4>1. CASE i \in 1 .. n /\ j \in 1 .. n
        BY <3>1, <3>4, <3>8, <4>1
      <4>2. CASE i = n + 1 /\ j \in 1 .. n
        BY <3>1, <3>2, <3>3, <3>8, <4>2
      <4>3. CASE i \in 1 .. n /\ j = n + 1
        BY <3>1, <3>2, <3>3, <3>8, <4>3
      <4>4. CASE i = n + 1 /\ j = n + 1
        BY <4>4
      <4>. QED
        BY <3>5, <3>6, <4>1, <4>2, <4>3, <4>4
    <3>. QED
      BY <3>1, <3>7, <3>8
  <2>2. CASE ~(l > h /\ info[l] > Len(fs[l].upvalues))
    <3>1. t[l].upvalues = fs[l].upvalues
      BY <2>2 DEF UsedAt
    <3>2. /\ UpvalueOK(t, l, fs[l].upvalues[j])
          /\ \A i \in 1 .. Len(fs[l].upvalues) : fs[l].upvalues[i].id = fs[l].upvalues[j].id => i = j
      BY <1>3, <3>1 DEF UpvaluesOK
    <3>. QED
      BY <3>1, <3>2
  <2>. QED
    BY <2>1, <2>2
<1>. QED
  BY <1>1, <1>5 DEF UpvaluesOK

LEMMA UsedSound ==
  ASSUME Sound(fs, visible, captured), NEW h, NEW x, NEW c, NEW info, Found(h, x, c, info),
         NEW t, UsedAt(t, h, x, c, info)
  PROVE  Sound(t, visible, captured \cup {c})
<1>1. /\ fs \in Seq(FuncRec) /\ Len(fs) > 0 /\ Len(fs) \in Nat /\ Distinct(fs) /\ UpvaluesOK(fs)
      /\ CapturedOK(fs, captured) /\ ClosesOK(fs, captured) /\ ScopesOK(fs, visible)
      /\ captured \in SUBSET (1 .. MAXDECLS) /\ visible \in Seq(Seq(Rec)) /\ Len(visible) > 0
      /\ \A l \in 1 .. Len(fs) : FuncOK(fs[l]) /\ fs[l] \in FuncRec
  BY LenProperties DEF Sound, TypesOK, FuncOK
<1>2. t \in Seq(FuncRec) /\ Len(t) = Len(fs) /\ \A l \in 1 .. Len(fs) : SameLevel(fs[l], t[l])
  BY DEF UsedAt
<1>3. \A l \in 1 .. Len(fs) : FuncOK(t[l]) /\ KeepsVars(fs[l], t[l]) /\ SameShape(fs[l], t[l])
  BY UsedLevels
<1>4. /\ h \in 1 .. Len(fs) /\ c # 0 /\ c \in 1 .. MAXDECLS /\ x \in 1 .. Len(fs[h].actvar)
      /\ fs[h].actvar[x].id = c
  BY DEF Found
<1>5. TypesOK(t, visible, captured \cup {c})
  BY <1>1, <1>2, <1>3, <1>4 DEF TypesOK
<1>6. Distinct(t)
  BY <1>1, <1>2, <1>3, DistinctKept
<1>7. UpvaluesOK(t)
  BY <1>1, UsedUpvalues
<1>8. CapturedOK(t, captured \cup {c})
  <2>1. \A l \in 1 .. Len(fs) : t[l].actvar = fs[l].actvar
    BY <1>2 DEF SameLevel
  <2>2. ActiveIn(t, h, c)
    BY <1>4, <2>1 DEF ActiveIn
  <2>3. ASSUME NEW d \in captured PROVE d # 0 /\ \E l \in 1 .. Len(fs) : ActiveIn(t, l, d)
    <3>1. d # 0 /\ \E l \in 1 .. Len(fs) : ActiveIn(fs, l, d)
      BY <1>1 DEF CapturedOK
    <3>2. PICK l \in 1 .. Len(fs) : ActiveIn(fs, l, d)
      BY <3>1
    <3>3. ActiveIn(t, l, d)
      BY <2>1, <3>2 DEF ActiveIn
    <3>. QED
      BY <3>1, <3>3
  <2>. QED
    BY <1>2, <1>4, <2>2, <2>3 DEF CapturedOK
<1>9. ClosesOK(t, captured \cup {c})
  <2>1. ASSUME NEW l \in 1 .. Len(fs), l # h PROVE FuncCloses(t[l], captured \cup {c})
    <3>1. \A v \in 1 .. Len(fs[l].actvar) : fs[l].actvar[v].id # c
      BY <1>1, <1>4, <2>1, ActiveOnce
    <3>2. t[l].bl = fs[l].bl
      BY <2>1 DEF UsedAt
    <3>3. FuncCloses(fs[l], captured)
      BY <1>1 DEF ClosesOK
    <3>. QED
      BY <1>1, <1>2, <3>1, <3>2, <3>3, OtherCloses
  <2>2. FuncCloses(t[h], captured \cup {c})
    <3>1. \A v \in 1 .. Len(fs[h].actvar) : fs[h].actvar[v].id = fs[h].actvar[x].id => v = x
      BY <1>1, <1>4, ActiveOnce
    <3>2. Marked(fs[h], t[h], x)
      BY <1>4 DEF UsedAt
    <3>3. FuncCloses(fs[h], captured) /\ SameLevel(fs[h], t[h]) /\ FuncOK(fs[h]) /\ fs[h] \in FuncRec
      BY <1>1, <1>2, <1>4 DEF ClosesOK
    <3>4. FuncCloses(t[h], captured \cup {fs[h].actvar[x].id})
      BY <1>4, <3>1, <3>2, <3>3, MarkCloses
    <3>. QED
      BY <1>4, <3>4
  <2>. QED
    BY <1>2, <2>1, <2>2 DEF ClosesOK
<1>10. ScopesOK(t, visible)
  BY <1>1, <1>2, <1>3, ScopesKept
<1>. QED
  BY <1>5, <1>6, <1>7, <1>8, <1>9, <1>10 DEF Sound

\* One level after the name was resolved.
LEMMA ResolvedIs ==
  ASSUME Sound(fs, visible, captured), NEW n \in Name, NEW info, PlacesOK(n, info),
         Found(Home(n), SearchVar(fs[Home(n)], n), Meant(n), info), NEW l \in 1 .. Len(fs),
         NEW g, g = Resolved(n, Places(n), l, Meant(n))
  PROVE  /\ SameLevel(fs[l], g)
         /\ IF l = Home(n) THEN Marked(fs[l], g, SearchVar(fs[Home(n)], n)) ELSE g.bl = fs[l].bl
         /\ IF l > Home(n) /\ info[l] > Len(fs[l].upvalues)
            THEN Added(fs[l], g, [k |-> Kind(Home(n), l - 1), info |-> info[l - 1], id |-> Meant(n)])
            ELSE g.upvalues = fs[l].upvalues
<1>. DEFINE h == Home(n)  x == SearchVar(fs[h], n)  c == Meant(n)  p == Places(n)  L == Len(fs)
            u == [k |-> Kind(h, l - 1), info |-> info[l - 1], id |-> c]
<1>1. h \in 1 .. L /\ h < L /\ x \in 1 .. Len(fs[h].actvar) /\ c \in Nat /\ info[h] = x
      /\ \A m \in h .. L : info[m] \in Nat
  BY DEF Found
<1>2. p = [m \in h .. L |-> [k |-> Kind(h, m), info |-> info[m]]]
  BY DEF PlacesOK
<1>3. fs[l] \in FuncRec /\ FuncOK(fs[l]) /\ L \in Nat /\ l \in Nat /\ h \in Nat
  BY <1>1, LenProperties DEF Sound, TypesOK, FuncOK
<1>4. g = IF l = h /\ h < L THEN MarkUpval(fs[l], p[l].info)
          ELSE IF l > h /\ p[l].info > Len(fs[l].upvalues)
          THEN [fs[l] EXCEPT !.upvalues = Append(@, [k |-> p[l - 1].k, info |-> p[l - 1].info, id |-> c])]
          ELSE fs[l]
  BY DEF Resolved
<1>. HIDE DEF h, c, p, x, L
<1>5. \A m \in h .. L : p[m].k = Kind(h, m) /\ p[m].info = info[m]
  BY <1>2
<1>6. CASE l = h
  <2>1. l \in h .. L
    BY <1>1, <1>3, <1>6
  <2>2. g = MarkUpval(fs[l], x)
    BY <1>1, <1>4, <1>5, <1>6, <2>1
  <2>3. x \in 1 .. Len(fs[l].actvar) /\ ~(l > h)
    BY <1>1, <1>3, <1>6
  <2>4. SameLevel(fs[l], g) /\ g.upvalues = fs[l].upvalues /\ Marked(fs[l], g, x)
    BY <1>3, <2>2, <2>3, MarkIs
  <2>. QED
    BY <1>6, <2>3, <2>4 DEF h, x
<1>7. CASE l # h
  <2>1. CASE l > h /\ info[l] > Len(fs[l].upvalues)
    <3>1. l \in h .. L /\ l - 1 \in h .. L
      BY <1>1, <1>3, <2>1 DEF L
    <3>2. g = [fs[l] EXCEPT !.upvalues = Append(@, u)]
      BY <1>4, <1>5, <1>7, <2>1, <3>1
    <3>3. u \in UpRec
      BY <1>1, <3>1 DEF UpRec, Kind
    <3>. HIDE DEF u
    <3>4. SameLevel(fs[l], g) /\ g.bl = fs[l].bl /\ Added(fs[l], g, u)
      BY <1>3, <3>2, <3>3, AddIs
    <3>. QED
      BY <1>7, <2>1, <3>4 DEF h, u, c
  <2>2. CASE ~(l > h /\ info[l] > Len(fs[l].upvalues))
    <3>1. l > h => l \in h .. L
      BY <1>3 DEF L
    <3>2. g = fs[l]
      BY <1>4, <1>5, <1>7, <2>2, <3>1
    <3>3. SameLevel(fs[l], fs[l])
      BY <1>3, FuncTypes DEF SameLevel, Extends
    <3>. QED
      BY <1>7, <2>2, <3>2, <3>3 DEF h
  <2>. QED
    BY <2>1, <2>2
<1>. QED
  BY <1>6, <1>7

LEMMA UseKeeps ==
  ASSUME NEW n \in Name, Sound(fs, visible, captured), Use(n)
  PROVE  Sound(fs, visible, captured)'
<1>. DEFINE h == Home(n)  L == Len(fs)  p == Places(n)  c == Meant(n)  x == SearchVar(fs[h], n)
            t == [l \in DOMAIN fs |-> Resolved(n, p, l, c)]
<1>1. h > 0
  BY DEF Use
<1>2. TypesOK(fs, visible, captured) /\ ResolvesOK /\ fs \in Seq(FuncRec) /\ L \in Nat /\ DOMAIN fs = 1 .. L
  BY LenProperties DEF Sound, TypesOK, ResolvesOK
<1>3. h \in 0 .. L /\ h \in 1 .. L
  BY <1>1, <1>2, HomeIs
<1>4. PICK info : PlacesOK(n, info)
  BY <1>1, <1>2, PlacesMean
<1>5. p = [l \in h .. L |-> [k |-> Kind(h, l), info |-> info[l]]] /\ \A l \in h .. L : info[l] \in Nat
  BY <1>4 DEF PlacesOK
<1>6. CASE \E l \in h + 1 .. L : TooManyUpvalues(fs[l], p[l])
  <2>1. fs' = fs /\ visible' = visible /\ captured' = captured
    BY <1>6 DEF Use, Fail
  <2>. QED
    BY <2>1
<1>7. CASE ~\E l \in h + 1 .. L : TooManyUpvalues(fs[l], p[l])
  <2>1. /\ fs' = t /\ visible' = visible
        /\ captured' = IF h < L THEN captured \cup {c} ELSE captured
    BY <1>7 DEF Use
  <2>2. CASE h < L
    <3>1. \A l \in h + 1 .. L : info[l] <= LUAI_MAXUPVALUES
      <4>1. ASSUME NEW l \in h + 1 .. L PROVE info[l] <= LUAI_MAXUPVALUES
        <5>1. l \in h .. L
          BY <1>2, <1>3
        <5>. HIDE DEF p, h, L
        <5>2. p[l].info = info[l] /\ info[l] \in Nat
          BY <1>5, <5>1
        <5>3. ~(p[l].info > LUAI_MAXUPVALUES)
          BY <1>7 DEF TooManyUpvalues
        <5>. QED
          BY <5>2, <5>3, LimitAssumption
      <4>. QED
        BY <4>1
    <3>2. Found(h, x, c, info)
      BY <1>1, <1>4, <2>2, <3>1, FoundIs
    <3>3. UsedAt(t, h, x, c, info)
      <4>1. ASSUME NEW l \in 1 .. L
            PROVE  /\ SameLevel(fs[l], t[l])
                   /\ IF l = h THEN Marked(fs[l], t[l], x) ELSE t[l].bl = fs[l].bl
                   /\ IF l > h /\ info[l] > Len(fs[l].upvalues)
                      THEN Added(fs[l], t[l], [k |-> Kind(h, l - 1), info |-> info[l - 1], id |-> c])
                      ELSE t[l].upvalues = fs[l].upvalues
        <5>. DEFINE g == t[l]
        <5>1. g = Resolved(n, p, l, c)
          BY <1>2
        <5>. HIDE DEF g
        <5>2. /\ SameLevel(fs[l], g)
              /\ IF l = h THEN Marked(fs[l], g, x) ELSE g.bl = fs[l].bl
              /\ IF l > h /\ info[l] > Len(fs[l].upvalues)
                 THEN Added(fs[l], g, [k |-> Kind(h, l - 1), info |-> info[l - 1], id |-> c])
                 ELSE g.upvalues = fs[l].upvalues
          BY <1>4, <3>2, <5>1, ResolvedIs
        <5>. QED
          BY <5>2 DEF g
      <4>2. t \in Seq(FuncRec) /\ Len(t) = L
        <5>1. \A l \in 1 .. L : t[l] \in FuncRec
          BY <4>1 DEF SameLevel
        <5>2. t \in [1 .. L -> FuncRec]
          BY <1>2, <5>1
        <5>. HIDE DEF t, L
        <5>. QED
          BY <1>2, <5>2, ListIs
      <4>. HIDE DEF t
      <4>. QED
        BY <4>1, <4>2 DEF UsedAt
    <3>. HIDE DEF t, h, x, c
    <3>4. Sound(t, visible, captured \cup {c})
      BY <3>2, <3>3, UsedSound
    <3>. QED
      BY <2>1, <2>2, <3>4
  <2>3. CASE ~(h < L)
    <3>1. \A l \in 1 .. L : Resolved(n, p, l, c) = fs[l]
      <4>1. \A l \in 1 .. L : ~(l = h /\ h < L) /\ ~(l > h)
        BY <1>2, <1>3, <2>3
      <4>. HIDE DEF p, c
      <4>. QED
        BY <4>1 DEF Resolved
    <3>2. t = fs
      <4>1. \A l \in 1 .. L : t[l] = fs[l]
        BY <1>2, <3>1
      <4>2. \A l \in 1 .. L : fs[l] \in FuncRec
        BY <1>2, ElementOfSeq
      <4>3. t \in [1 .. L -> FuncRec]
        BY <1>2, <4>1, <4>2
      <4>. HIDE DEF t, L
      <4>4. t \in Seq(FuncRec) /\ Len(t) = L
        BY <1>2, <4>3, ListIs
      <4>. QED
        BY <1>2, <4>1, <4>4, SeqEqual DEF L
    <3>. HIDE DEF t
    <3>3. fs' = fs /\ visible' = visible /\ captured' = captured
      BY <2>1, <2>3, <3>2
    <3>. QED
      BY <3>3
  <2>. QED
    BY <2>2, <2>3
<1>. QED
  BY <1>6, <1>7
-----------------------------------------------------------------------------
(* The invariant holds *)

LEMMA InitSound == Init => IInv
<1>. SUFFICES ASSUME Init PROVE IInv
  OBVIOUS
<1>. DEFINE f == [Opened EXCEPT !.isVarArg = {"ISVARARG"}]  s == <<f>>
            e == <<>>  vis == <<e>>
<1>1. fs = s /\ visible = vis /\ captured = {} /\ failed = FALSE
  BY DEF Init
<1>2. e \in Seq(Rec) /\ Len(e) = 0
  BY EmptySeq
<1>3. NewFunc(f, e)
  <2>1. Opened \in PreRec(Rec) /\ Opened.actvar = <<>> /\ Opened.bl = <<>> /\ Opened.upvalues = <<>>
    BY OpenedIs
  <2>2. Opened.pending = <<>>
    BY DEF Opened
  <2>. QED
    BY <2>1, <2>2 DEF NewFunc, PreRec, FuncRec
<1>. HIDE DEF f, e
<1>4. Named(e) /\ \A i \in 1 .. Len(e) : e[i].id # 0
  BY <1>2 DEF Named
<1>5. Len(e) <= LUAI_MAXVARS
  BY <1>2, LimitAssumption
<1>6. FuncOK(f) /\ ~ForPending(f) /\ Len(f.bl) = 0
  BY <1>2, <1>3, <1>4, <1>5, NewFuncOK
<1>7. f \in FuncRec /\ f.actvar = e /\ Len(f.pending) = 0 /\ Len(f.upvalues) = 0
  BY <1>3, EmptySeq DEF NewFunc
<1>8. s \in Seq(FuncRec) /\ Len(s) = 1 /\ s[1] = f /\ vis \in Seq(Seq(Rec)) /\ Len(vis) = 1 /\ vis[1] = e
  BY <1>2, <1>7
<1>. HIDE DEF s, vis
<1>9. (\A l \in 1 .. Len(s) : l = 1) /\ \A i \in 1 .. 0 : FALSE
  BY <1>8
<1>10. TypesOK(s, vis, {})
  BY <1>6, <1>8, <1>9 DEF TypesOK
<1>11. Distinct(s)
  <2>1. Len(AllVars(f)) = 0
    BY <1>2, <1>7, ActiveOnly
  <2>. QED
    BY <1>8, <1>9, <2>1 DEF Distinct
<1>12. UpvaluesOK(s) /\ CapturedOK(s, {}) /\ ClosesOK(s, {})
  BY <1>6, <1>7, <1>8, <1>9 DEF UpvaluesOK, CapturedOK, ClosesOK, FuncCloses
<1>13. ScopesOK(s, vis)
  <2>. DEFINE lev == [a \in 1 .. 1 |-> 1]  lo == [a \in 1 .. 1 |-> 0]
  <2>1. lev \in [1 .. 1 -> 1 .. 1] /\ lo \in [1 .. 1 -> Nat] /\ lev[1] = 1 /\ lo[1] = 0
        /\ \A a \in 1 .. 1 : a = 1
    OBVIOUS
  <2>. HIDE DEF lev, lo
  <2>2. ScopeEnd(vis, lo, 1) = 0
    BY <1>2, <1>8, <2>1 DEF ScopeEnd
  <2>3. InOrder(vis, lev, lo, lo)
    BY <1>8, <2>1 DEF InOrder
  <2>4. ScopeFits(f, vis, lev, lo, lo, 1)
    BY <1>2, <1>7, <1>8, <1>9, <2>1, <2>2 DEF ScopeFits
  <2>5. LevelFits(f, vis, lev, lo, lo, 1)
    <3>1. 1 \in 1 .. 1 /\ \A b \in 1 + 1 .. 1 : FALSE
      OBVIOUS
    <3>. QED
      BY <1>2, <1>6, <1>7, <1>8, <1>9, <2>1, <2>2, <3>1 DEF LevelFits
  <2>6. ScopesAt(s, vis, lev, lo, lo)
    BY <1>8, <2>1, <2>3, <2>4, <2>5 DEF ScopesAt
  <2>. QED
    BY <2>6 DEF ScopesOK
<1>14. Sound(s, vis, {})
  BY <1>10, <1>11, <1>12, <1>13 DEF Sound
<1>. QED
  BY <1>1, <1>14 DEF IInv, s, vis

\* What holds now is kept by every step.
LEMMA NextSound == IInv /\ [Next]_vars => IInv'
<1>. SUFFICES ASSUME IInv, [Next]_vars PROVE IInv'
  OBVIOUS
<1>1. Sound(fs, visible, captured) /\ failed \in BOOLEAN
  BY DEF IInv
<1>2. Sound(fs, visible, captured)'
  <2>1. CASE \E n \in Name : Use(n)
    BY <1>1, <2>1, UseKeeps
  <2>2. CASE \E ns \in Lists(2) \ {<<>>} : LocalStat(ns)
    BY <1>1, <2>2, LocalStatKeeps
  <2>3. CASE EndLocal
    BY <1>1, <2>3, EndLocalKeeps
  <2>4. CASE \E ns \in Lists(MAXPARAMS), dots \in BOOLEAN : Function(ns, dots)
    BY <1>1, <2>4, FunctionKeeps
  <2>5. CASE \E n \in Name, ns \in Lists(MAXPARAMS), dots \in BOOLEAN : LocalFunction(n, ns, dots)
    BY <1>1, <2>5, LocalFunctionKeeps
  <2>6. CASE UseDots
    BY <1>1, <2>6, UseDotsKeeps
  <2>7. CASE CloseFunction
    BY <1>1, <2>7, CloseFunctionKeeps
  <2>8. CASE \E loop \in BOOLEAN : EnterBlock(loop)
    BY <1>1, <2>8, EnterBlockKeeps
  <2>9. CASE \E n \in Name : ForStat(n)
    BY <1>1, <2>9, ForStatKeeps
  <2>10. CASE ForBody
    BY <1>1, <2>10, ForBodyKeeps
  <2>11. CASE LeaveBlock
    BY <1>1, <2>11, LeaveBlockKeeps
  <2>12. CASE UNCHANGED vars
    BY <1>1, <2>12 DEF vars
  <2>. QED
    BY <2>1, <2>2, <2>3, <2>4, <2>5, <2>6, <2>7, <2>8, <2>9, <2>10, <2>11, <2>12 DEF Next
<1>3. failed' \in BOOLEAN
  BY <1>1 DEF Next, vars, Use, LocalStat, EndLocal, Function, LocalFunction, Body, UseDots, CloseFunction,
              EnterBlock, ForStat, ForBody, LeaveBlock, Fail
<1>. QED
  BY <1>2, <1>3 DEF IInv

LEMMA IInvHolds == Spec => []IInv
<1>1. Init => IInv
  BY InitSound
<1>2. IInv /\ [Next]_vars => IInv'
  BY NextSound
<1>. QED
  BY <1>1, <1>2, PTL DEF Spec
-----------------------------------------------------------------------------
\* singleVar resolves a name to the innermost declaration of it in scope: through
\* any number of enclosing functions and blocks, while other declarations are
\* pending, and although functions have upvalues already.
THEOREM NamesMeanInnermost == Spec => []NameMeansInnermost
  BY IInvHolds, NamesResolve, PTL

\* An upvalue that indexUpValue made denotes the variable it was made for until its
\* function ends, whatever the enclosing functions declare and end meanwhile, and
\* is the only one of its function that does.
THEOREM UpvaluesAlwaysMean == Spec => []UpvaluesKeepMeaning
  BY IInvHolds, UpvaluesMean, PTL

\* leaveBlock emits OP_CLOSE for a block exactly if a closure uses one of its
\* variables: markUpval marks the block of the variable, at any depth of nesting.
THEOREM CapturedAlwaysClosed == Spec => []BlocksCloseCaptured
  BY IInvHolds, CapturedAreClosed, PTL

\* No program makes the compiler index the arrays of active variables and of
\* upvalues past their ends: the checks of newLocalVar and indexUpValue suffice.
THEOREM ArraysNotOverrun == Spec => []WithinLimits
  BY IInvHolds, LimitsHold, PTL
=============================================================================
