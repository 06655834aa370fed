------------------------- MODULE LuaUpvalues_proofs -------------------------
(***************************************************************************)
(* Proofs about LuaUpvalues, for every size of the stack, every depth of   *)
(* calls and every number of variables and upvalues.                       *)
(***************************************************************************)
EXTENDS LuaUpvalues, Integers, SequenceTheorems, WellFoundedInduction, TLAPS

UpvalRec == [array : Nat, pos : Nat, inScope : BOOLEAN, kept : Val]
FrameRec == [base : Nat, n : Nat, up : Nat, protected : BOOLEAN]

MemoryOK == memory \in Seq(Seq(Val)) /\ memory # <<>>
UpvalsOK == upvals \in Seq(UpvalRec)

\* No upvalue dangles: the slot it points to exists.
PointersOK ==
  \A u \in 1 .. Len(upvals) :
    /\ upvals[u].array \in 1 .. Len(memory)
    /\ upvals[u].pos \in 1 .. Len(memory[upvals[u].array])

\* The list descends, so the members at or above a slot are at its head.
OpenOK ==
  /\ open \in Seq(Nat)
  /\ \A i \in 1 .. Len(open) : open[i] \in 1 .. Len(upvals)
  /\ \A i, j \in 1 .. Len(open) : i < j => Slot(open[i]) >= Slot(open[j])
  /\ OpenAreInScope

\* Every frame has room for its variables, and the next one begins above them.
FramesOK ==
  /\ frames \in Seq(FrameRec)
  /\ \A f \in 1 .. Len(frames) :
       /\ frames[f].base > 1
       /\ frames[f].n <= MAXVARS
       /\ frames[f].base + MAXVARS <= Len(Stack) + 1
       /\ frames[f].up \in 0 .. Len(upvals)
  /\ \A f, g \in 1 .. Len(frames) : f < g => frames[f].base + frames[f].n < frames[g].base

\* PointsToVariable.
VariablesOK ==
  \A u \in 1 .. Len(upvals) :
    upvals[u].inScope =>
      /\ upvals[u].array = Len(memory)
      /\ \E f \in 1 .. Len(frames) :
           upvals[u].pos \in frames[f].base .. frames[f].base + frames[f].n - 1

\* The strengthening of the invariants that is inductive.
IInv == MemoryOK /\ UpvalsOK /\ PointersOK /\ OpenOK /\ FramesOK /\ VariablesOK
-----------------------------------------------------------------------------
(* Sequences and memory *)

LEMMA LeastNumber ==
  ASSUME NEW T \in SUBSET Nat, T # {}
  PROVE  \E m \in T : \A k \in T : m <= k
<1>1. PICK m \in T : \A k \in T : ~(<<k, m>> \in OpToRel(<, Nat))
  BY NatLessThanWellFounded, WFMin
<1>2. \A k \in T : ~(k < m)
  BY <1>1 DEF OpToRel
<1>. QED
  BY <1>2

\* A function on 1..n is a sequence of length n.
LEMMA FunIsSeq ==
  ASSUME NEW S, NEW n \in Nat, NEW f \in [1 .. n -> S]
  PROVE  f \in Seq(S) /\ Len(f) = n
OBVIOUS

\* An assignment to a slot moves nothing.
LEMMA WriteSlot ==
  ASSUME NEW m \in Seq(Seq(Val)), NEW a \in 1 .. Len(m), NEW p \in 1 .. Len(m[a]), NEW v \in Val,
         NEW w, w = [m EXCEPT ![a][p] = v]
  PROVE  /\ w \in Seq(Seq(Val)) /\ Len(w) = Len(m)
         /\ \A b \in 1 .. Len(m) : Len(w[b]) = Len(m[b])
<1>1. m[a] \in Seq(Val)
  BY ElementOfSeq
<1>. DEFINE e == [m[a] EXCEPT ![p] = v]
<1>2. e \in Seq(Val) /\ Len(e) = Len(m[a])
  BY <1>1, ExceptSeq
<1>3. w = [m EXCEPT ![a] = e]
  OBVIOUS
<1>. HIDE DEF e
<1>4. w \in Seq(Seq(Val)) /\ Len(w) = Len(m)
      /\ \A b \in 1 .. Len(m) : w[b] = IF b = a THEN e ELSE m[b]
  BY <1>2, <1>3, ExceptSeq, SMTT(30)
<1>. QED
  BY <1>2, <1>4

\* What an upvalue refers to is a value.
LEMMA ContentIsValue ==
  ASSUME MemoryOK, PointersOK, NEW u \in 1 .. Len(upvals)
  PROVE  Content(u) \in Val
<1>1. upvals[u].array \in 1 .. Len(memory) /\ upvals[u].pos \in 1 .. Len(memory[upvals[u].array])
  BY DEF PointersOK
<1>2. memory[upvals[u].array] \in Seq(Val)
  BY <1>1, ElementOfSeq DEF MemoryOK
<1>3. memory[upvals[u].array][upvals[u].pos] \in Val
  BY <1>1, <1>2, ElementOfSeq
<1>. QED
  BY <1>3 DEF Content

LEMMA UpvalTypes ==
  ASSUME UpvalsOK
  PROVE  /\ Len(upvals) \in Nat /\ DOMAIN upvals = 1 .. Len(upvals)
         /\ \A u \in 1 .. Len(upvals) :
              /\ upvals[u] \in UpvalRec
              /\ upvals[u].array \in Nat /\ upvals[u].pos \in Nat
              /\ upvals[u].inScope \in BOOLEAN /\ upvals[u].kept \in Val
              /\ upvals[u] = [array |-> upvals[u].array, pos |-> upvals[u].pos,
                              inScope |-> upvals[u].inScope, kept |-> upvals[u].kept]
<1>1. Len(upvals) \in Nat /\ DOMAIN upvals = 1 .. Len(upvals)
  BY LenProperties DEF UpvalsOK
<1>2. \A u \in 1 .. Len(upvals) : upvals[u] \in UpvalRec
  BY ElementOfSeq DEF UpvalsOK
<1>. QED
  BY <1>1, <1>2 DEF UpvalRec

LEMMA FrameTypes ==
  ASSUME FramesOK
  PROVE  /\ Len(frames) \in Nat /\ DOMAIN frames = 1 .. Len(frames)
         /\ \A f \in 1 .. Len(frames) :
              /\ frames[f] \in FrameRec
              /\ frames[f].base \in Nat /\ frames[f].n \in Nat /\ frames[f].up \in Nat
              /\ frames[f].protected \in BOOLEAN
<1>1. Len(frames) \in Nat /\ DOMAIN frames = 1 .. Len(frames)
  BY LenProperties DEF FramesOK
<1>2. \A f \in 1 .. Len(frames) : frames[f] \in FrameRec
  BY ElementOfSeq DEF FramesOK
<1>. QED
  BY <1>1, <1>2 DEF FrameRec
-----------------------------------------------------------------------------
(* The list of open upvalues *)

\* The search of fFindUpVal and fClose ends where the list passes the level.
LEMMA AtOrAboveSplits ==
  ASSUME UpvalsOK, OpenOK, NEW level \in Nat
  PROVE  /\ AtOrAbove(level) \in 0 .. Len(open)
         /\ \A i \in 1 .. Len(open) :
              IF i <= AtOrAbove(level) THEN Slot(open[i]) >= level ELSE Slot(open[i]) < level
<1>0. /\ Len(open) \in Nat
      /\ \A i \in 1 .. Len(open) : Slot(open[i]) \in Nat
      /\ \A i, j \in 1 .. Len(open) : i < j => Slot(open[i]) >= Slot(open[j])
  BY UpvalTypes DEF OpenOK, Slot
<1>. DEFINE P(k) == /\ \A i \in 1 .. k : Slot(open[i]) >= level
                    /\ k < Len(open) => Slot(open[k + 1]) < level
<1>1. \E k \in 0 .. Len(open) : P(k)
  <2>. DEFINE T == { k \in 0 .. Len(open) : \A i \in 1 .. Len(open) : i > k => Slot(open[i]) < level }
  <2>1. T \in SUBSET Nat /\ T # {}
    <3>1. Len(open) \in T
      BY <1>0
    <3>. QED
      BY <3>1
  <2>2. PICK m \in T : \A k \in T : m <= k
    <3>. HIDE DEF T
    <3>. QED
      BY <2>1, LeastNumber
  <2>3. \A i \in 1 .. m : Slot(open[i]) >= level
    <3>1. CASE m = 0
      BY <3>1
    <3>2. CASE m # 0
      <4>1. m \in 1 .. Len(open) /\ m - 1 \in 0 .. Len(open) /\ ~(m <= m - 1)
        BY <1>0, <2>2, <3>2
      <4>2. m - 1 \notin T
        <5>. HIDE DEF T
        <5>. QED
          BY <2>2, <4>1
      <4>3. Slot(open[m]) >= level
        <5>1. PICK i \in 1 .. Len(open) : i > m - 1 /\ ~(Slot(open[i]) < level)
          BY <4>1, <4>2
        <5>2. ~(i > m)
          BY <2>2, <5>1
        <5>3. i = m
          BY <1>0, <4>1, <5>1, <5>2
        <5>. QED
          BY <1>0, <4>1, <5>1, <5>3
      <4>. QED
        BY <1>0, <4>1, <4>3
    <3>. QED
      BY <3>1, <3>2
  <2>4. m < Len(open) => Slot(open[m + 1]) < level
    BY <1>0, <2>2
  <2>. QED
    BY <2>2, <2>3, <2>4
<1>2. AtOrAbove(level) \in 0 .. Len(open) /\ P(AtOrAbove(level))
  <2>1. AtOrAbove(level) = CHOOSE k \in 0 .. Len(open) : P(k)
    BY DEF AtOrAbove
  <2>. HIDE DEF P
  <2>. QED
    BY <1>1, <2>1
<1>3. ASSUME NEW i \in 1 .. Len(open), ~(i <= AtOrAbove(level))
      PROVE  Slot(open[i]) < level
  <2>. DEFINE k == AtOrAbove(level)
  <2>1. k \in 0 .. Len(open) /\ k < Len(open) /\ k + 1 \in 1 .. Len(open) /\ k + 1 <= i
    BY <1>0, <1>2, <1>3
  <2>2. Slot(open[k + 1]) < level
    BY <1>2, <2>1
  <2>. HIDE DEF k
  <2>. QED
    BY <1>0, <2>1, <2>2
<1>. QED
  BY <1>2, <1>3

\* The members of the list that stay, in their order.
LEMMA ClosedIs ==
  ASSUME UpvalsOK, OpenOK, NEW level \in Nat
  PROVE  LET k == AtOrAbove(level)
         IN  /\ Closed(level) \in Seq(Nat)
             /\ Len(Closed(level)) = Len(open) - k
             /\ \A i \in 1 .. Len(open) - k : Closed(level)[i] = open[k + i]
<1>. DEFINE k == AtOrAbove(level)
<1>1. k \in 0 .. Len(open) /\ Len(open) \in Nat
  BY AtOrAboveSplits DEF OpenOK
<1>2. Closed(level) = SubSeq(open, k + 1, Len(open))
  BY DEF Closed
<1>3. \A i \in k + 1 .. Len(open) : open[i] \in Nat
  BY <1>1, ElementOfSeq DEF OpenOK
<1>4. k + 1 \in Int /\ Len(open) \in Int
  BY <1>1
<1>. HIDE DEF k
<1>5. /\ SubSeq(open, k + 1, Len(open)) \in Seq(Nat)
      /\ Len(SubSeq(open, k + 1, Len(open))) =
           IF k + 1 <= Len(open) THEN Len(open) - (k + 1) + 1 ELSE 0
      /\ \A i \in 1 .. Len(open) - (k + 1) + 1 :
            SubSeq(open, k + 1, Len(open))[i] = open[(k + 1) + i - 1]
  BY <1>3, <1>4, SubSeqProperties
<1>6. /\ Len(Closed(level)) = Len(open) - k
      /\ \A i \in 1 .. Len(open) - k : Closed(level)[i] = open[k + i]
  <2>1. \A i \in 1 .. Len(open) - k : (k + 1) + i - 1 = k + i /\ i \in 1 .. Len(open) - (k + 1) + 1
    BY <1>1
  <2>. QED
    BY <1>1, <1>2, <1>5, <2>1
<1>. QED
  BY <1>2, <1>5, <1>6 DEF k

\* fClose takes the variables from level on off the list, and no other.
LEMMA CloseFromKeepsOpen ==
  ASSUME IInv, NEW level \in Nat, CloseFrom(level)
  PROVE  /\ UpvalsOK' /\ Len(upvals') = Len(upvals)
         /\ \A u \in 1 .. Len(upvals) :
              /\ upvals'[u].array = upvals[u].array /\ upvals'[u].pos = upvals[u].pos
              /\ upvals'[u].inScope <=> upvals[u].inScope /\ upvals[u].pos < level
         /\ OpenOK'
<1>. DEFINE k == AtOrAbove(level)
            up == OutOfScope(level)
<1>0. UpvalsOK /\ OpenOK /\ MemoryOK /\ PointersOK
  BY DEF IInv
<1>1. \A u \in 1 .. Len(upvals) : up[u] = IF upvals[u].inScope /\ upvals[u].pos >= level
                                         THEN [upvals[u] EXCEPT !.inScope = FALSE, !.kept = Content(u)]
                                         ELSE upvals[u]
  BY <1>0, UpvalTypes DEF OutOfScope, Slot
<1>2. \A u \in 1 .. Len(upvals) :
        /\ up[u] \in UpvalRec
        /\ up[u].array = upvals[u].array /\ up[u].pos = upvals[u].pos
        /\ up[u].inScope <=> upvals[u].inScope /\ upvals[u].pos < level
  <2>. SUFFICES ASSUME NEW u \in 1 .. Len(upvals)
                PROVE  /\ up[u] \in UpvalRec
                       /\ up[u].array = upvals[u].array /\ up[u].pos = upvals[u].pos
                       /\ up[u].inScope <=> upvals[u].inScope /\ upvals[u].pos < level
    OBVIOUS
  <2>. HIDE DEF up
  <2>0. /\ upvals[u] = [array |-> upvals[u].array, pos |-> upvals[u].pos,
                        inScope |-> upvals[u].inScope, kept |-> upvals[u].kept]
        /\ upvals[u] \in UpvalRec /\ upvals[u].pos \in Nat /\ upvals[u].array \in Nat
        /\ upvals[u].inScope \in BOOLEAN
    BY <1>0, UpvalTypes
  <2>1. CASE upvals[u].inScope /\ upvals[u].pos >= level
    <3>1. up[u] = [upvals[u] EXCEPT !.inScope = FALSE, !.kept = Content(u)]
      BY <1>1, <2>1
    <3>2. up[u] = [array |-> upvals[u].array, pos |-> upvals[u].pos, inScope |-> FALSE,
                   kept |-> Content(u)]
      BY <2>0, <3>1
    <3>3. Content(u) \in Val
      BY <1>0, ContentIsValue
    <3>. QED
      BY <2>0, <2>1, <3>2, <3>3 DEF UpvalRec
  <2>2. CASE ~(upvals[u].inScope /\ upvals[u].pos >= level)
    <3>1. up[u] = upvals[u]
      BY <1>1, <2>2
    <3>2. upvals[u].inScope => upvals[u].pos < level
      BY <2>0, <2>2
    <3>. QED
      BY <2>0, <3>1, <3>2
  <2>. QED
    BY <2>1, <2>2
<1>3. up \in Seq(UpvalRec) /\ Len(up) = Len(upvals)
  <2>1. up \in [1 .. Len(upvals) -> UpvalRec]
    <3>1. DOMAIN up = 1 .. Len(upvals) /\ up = [u \in DOMAIN up |-> up[u]]
      BY <1>0, UpvalTypes DEF OutOfScope
    <3>. HIDE DEF up
    <3>. QED
      BY <1>2, <3>1
  <2>. HIDE DEF up
  <2>. QED
    BY <1>0, <2>1, UpvalTypes, FunIsSeq
<1>4. upvals' = up /\ open' = Closed(level)
  BY DEF CloseFrom
<1>. HIDE DEF up
<1>5. /\ UpvalsOK' /\ Len(upvals') = Len(upvals)
      /\ \A u \in 1 .. Len(upvals) :
           /\ upvals'[u].array = upvals[u].array /\ upvals'[u].pos = upvals[u].pos
           /\ upvals'[u].inScope <=> upvals[u].inScope /\ upvals[u].pos < level
  BY <1>2, <1>3, <1>4 DEF UpvalsOK
<1>6. /\ k \in 0 .. Len(open) /\ Len(open) \in Nat
      /\ \A i \in 1 .. Len(open) :
           IF i <= k THEN Slot(open[i]) >= level ELSE Slot(open[i]) < level
      /\ open' \in Seq(Nat) /\ Len(open') = Len(open) - k
      /\ \A i \in 1 .. Len(open) - k : open'[i] = open[k + i]
  <2>1. Len(open) \in Nat
    BY <1>0 DEF OpenOK
  <2>. QED
    BY <1>0, <1>4, <2>1, AtOrAboveSplits, ClosedIs
<1>. HIDE DEF k
<1>7. \A i \in 1 .. Len(open') : /\ k + i \in 1 .. Len(open) /\ open'[i] = open[k + i]
                                 /\ open[k + i] \in 1 .. Len(upvals) /\ Slot(open[k + i]) < level
  BY <1>0, <1>6 DEF OpenOK
<1>8. \A u \in 1 .. Len(upvals) : Slot(u)' = Slot(u)
  BY <1>5 DEF Slot
<1>9. \A i, j \in 1 .. Len(open') : i < j => upvals'[open'[i]].pos >= upvals'[open'[j]].pos
  <2>. SUFFICES ASSUME NEW i \in 1 .. Len(open'), NEW j \in 1 .. Len(open'), i < j
                PROVE  upvals'[open'[i]].pos >= upvals'[open'[j]].pos
    OBVIOUS
  <2>1. k + i < k + j
    BY <1>6
  <2>2. Slot(open[k + i]) >= Slot(open[k + j])
    BY <1>0, <1>7, <2>1 DEF OpenOK
  <2>. QED
    BY <1>5, <1>7, <2>2 DEF Slot
<1>10. { open'[i] : i \in DOMAIN open' } = { u \in DOMAIN upvals' : upvals'[u].inScope }
  <2>1. DOMAIN open' = 1 .. Len(open') /\ DOMAIN upvals' = 1 .. Len(upvals)
        /\ DOMAIN open = 1 .. Len(open) /\ DOMAIN upvals = 1 .. Len(upvals)
    BY <1>0, <1>5, <1>6, LenProperties DEF UpvalsOK, OpenOK
  <2>2. ASSUME NEW i \in 1 .. Len(open')
        PROVE  open'[i] \in 1 .. Len(upvals) /\ upvals'[open'[i]].inScope
    <3>1. upvals[open[k + i]].inScope
      BY <1>0, <1>7, <2>1 DEF OpenOK, OpenAreInScope
    <3>. QED
      BY <1>5, <1>7, <3>1 DEF Slot
  <2>3. ASSUME NEW u \in 1 .. Len(upvals), upvals'[u].inScope
        PROVE  \E i \in 1 .. Len(open') : open'[i] = u
    <3>1. upvals[u].inScope /\ upvals[u].pos < level
      BY <1>5, <2>3
    <3>2. PICK j \in 1 .. Len(open) : open[j] = u
      BY <1>0, <2>1, <3>1 DEF OpenOK, OpenAreInScope
    <3>3. ~(j <= k)
      <4>1. Slot(open[j]) < level /\ Slot(open[j]) \in Nat
        BY <1>0, <3>1, <3>2, UpvalTypes DEF Slot
      <4>. QED
        BY <1>6, <4>1
    <3>4. j - k \in 1 .. Len(open') /\ k + (j - k) = j
      BY <1>6, <3>3
    <3>. QED
      BY <1>7, <3>2, <3>4
  <2>. QED
    BY <2>1, <2>2, <2>3
<1>11. \A i \in 1 .. Len(open') : open'[i] \in 1 .. Len(upvals')
  BY <1>5, <1>7
<1>12. OpenOK'
  BY <1>6, <1>9, <1>10, <1>11 DEF OpenOK, OpenAreInScope, Slot
<1>. QED
  BY <1>5, <1>12

\* fFindUpVal puts the new member where the list passes its slot.
LEMMA ChainedIs ==
  ASSUME UpvalsOK, OpenOK, NEW level \in Nat, NEW u \in Nat
  PROVE  LET k == AtOrAbove(level)
         IN  /\ Chained(u, level) \in Seq(Nat)
             /\ Len(Chained(u, level)) = Len(open) + 1
             /\ \A i \in 1 .. Len(open) + 1 :
                  Chained(u, level)[i] = IF i <= k THEN open[i]
                                         ELSE IF i = k + 1 THEN u ELSE open[i - 1]
<1>. DEFINE k == AtOrAbove(level)
            head == SubSeq(open, 1, k)
            rest == Closed(level)
<1>1. k \in 0 .. Len(open) /\ Len(open) \in Nat
  BY AtOrAboveSplits DEF OpenOK
<1>2. /\ rest \in Seq(Nat) /\ Len(rest) = Len(open) - k
      /\ \A i \in 1 .. Len(open) - k : rest[i] = open[k + i]
  BY ClosedIs
<1>3. Chained(u, level) = head \o <<u>> \o rest
  BY DEF Chained
<1>. HIDE DEF k, rest
<1>4. head \in Seq(Nat) /\ Len(head) = k /\ \A i \in 1 .. k : head[i] = open[i]
  <2>1. \A i \in 1 .. k : open[i] \in Nat
    BY <1>1, ElementOfSeq DEF OpenOK
  <2>2. 1 \in Int /\ k \in Int
    BY <1>1
  <2>3. /\ head \in Seq(Nat) /\ Len(head) = IF 1 <= k THEN k - 1 + 1 ELSE 0
        /\ \A i \in 1 .. k - 1 + 1 : head[i] = open[1 + i - 1]
    BY <2>1, <2>2, SubSeqProperties
  <2>4. \A i \in 1 .. k : 1 + i - 1 = i /\ i \in 1 .. k - 1 + 1
    BY <1>1
  <2>. QED
    BY <1>1, <2>3, <2>4
<1>. HIDE DEF head
<1>. DEFINE h1 == head \o <<u>>
<1>5. /\ h1 \in Seq(Nat) /\ Len(h1) = k + 1
      /\ \A i \in 1 .. k + 1 : h1[i] = IF i <= k THEN head[i] ELSE u
  <2>1. <<u>> \in Seq(Nat) /\ Len(<<u>>) = 1 /\ <<u>>[1] = u
    OBVIOUS
  <2>2. /\ h1 \in Seq(Nat) /\ Len(h1) = Len(head) + Len(<<u>>)
        /\ \A i \in 1 .. Len(head) + Len(<<u>>) :
             h1[i] = IF i <= Len(head) THEN head[i] ELSE <<u>>[i - Len(head)]
    BY <1>4, <2>1, ConcatProperties
  <2>. HIDE DEF h1
  <2>3. \A i \in 1 .. k + 1 : ~(i <= k) => i - k = 1
    BY <1>1
  <2>. QED
    BY <1>1, <1>4, <2>1, <2>2, <2>3
<1>6. Chained(u, level) = h1 \o rest
  BY <1>3
<1>. HIDE DEF h1
<1>7. /\ Chained(u, level) \in Seq(Nat) /\ Len(Chained(u, level)) = (k + 1) + (Len(open) - k)
      /\ \A i \in 1 .. (k + 1) + (Len(open) - k) :
           Chained(u, level)[i] = IF i <= k + 1 THEN h1[i] ELSE rest[i - (k + 1)]
  <2>1. h1 \in Seq(Nat) /\ rest \in Seq(Nat)
    BY <1>2, <1>5
  <2>2. /\ h1 \o rest \in Seq(Nat) /\ Len(h1 \o rest) = Len(h1) + Len(rest)
        /\ \A i \in 1 .. Len(h1) + Len(rest) :
             (h1 \o rest)[i] = IF i <= Len(h1) THEN h1[i] ELSE rest[i - Len(h1)]
    BY <2>1, ConcatProperties
  <2>3. Len(h1) = k + 1 /\ Len(rest) = Len(open) - k
    BY <1>2, <1>5
  <2>. QED
    BY <1>6, <2>2, <2>3
<1>8. (k + 1) + (Len(open) - k) = Len(open) + 1
  BY <1>1
<1>9. \A i \in 1 .. Len(open) + 1 :
        /\ i <= k => i \in 1 .. k + 1 /\ i <= k + 1 /\ i \in 1 .. k
        /\ i = k + 1 => i \in 1 .. k + 1 /\ i <= k + 1 /\ ~(i <= k)
        /\ ~(i <= k) /\ i # k + 1 => /\ ~(i <= k + 1) /\ i - (k + 1) \in 1 .. Len(open) - k
                                     /\ k + (i - (k + 1)) = i - 1
  BY <1>1
<1>10. ASSUME NEW i \in 1 .. Len(open) + 1
       PROVE  Chained(u, level)[i] = IF i <= k THEN open[i]
                                     ELSE IF i = k + 1 THEN u ELSE open[i - 1]
  <2>1. CASE i <= k
    BY <1>4, <1>5, <1>7, <1>8, <1>9, <2>1
  <2>2. CASE i = k + 1
    BY <1>5, <1>7, <1>8, <1>9, <2>2
  <2>3. CASE ~(i <= k) /\ i # k + 1
    BY <1>2, <1>7, <1>8, <1>9, <2>3
  <2>. QED
    BY <2>1, <2>2, <2>3
<1>. QED
  BY <1>7, <1>8, <1>10 DEF k
-----------------------------------------------------------------------------
(* What the steps have in common *)

\* The arrays stay where they are and as long as they are.
SameShape ==
  /\ memory' \in Seq(Seq(Val)) /\ Len(memory') = Len(memory)
  /\ \A b \in 1 .. Len(memory) : Len(memory'[b]) = Len(memory[b])

SameSlots ==
  /\ UpvalsOK' /\ Len(upvals') = Len(upvals)
  /\ \A u \in 1 .. Len(upvals) : upvals'[u].pos = upvals[u].pos

SamePointers == SameSlots /\ \A u \in 1 .. Len(upvals) : upvals'[u].array = upvals[u].array

SameScopes == \A u \in 1 .. Len(upvals) : upvals'[u].inScope = upvals[u].inScope

LEMMA NowExists ==
  ASSUME MemoryOK
  PROVE  /\ Len(memory) \in Nat \ {0} /\ Len(memory) \in 1 .. Len(memory)
         /\ Stack \in Seq(Val) /\ Len(Stack) \in Nat /\ Stack = memory[Len(memory)]
<1>1. Len(memory) \in Nat \ {0} /\ Len(memory) \in 1 .. Len(memory)
  BY LenProperties, EmptySeq DEF MemoryOK
<1>2. memory[Len(memory)] \in Seq(Val)
  BY <1>1, ElementOfSeq DEF MemoryOK
<1>. QED
  BY <1>1, <1>2, LenProperties DEF Stack, Now

LEMMA SameShapeKeepsMemory ==
  ASSUME MemoryOK, PointersOK, SameShape, SamePointers
  PROVE  MemoryOK' /\ PointersOK' /\ Len(Stack') = Len(Stack)
<1>1. MemoryOK'
  BY NowExists, EmptySeq DEF MemoryOK, SameShape
<1>2. PointersOK'
  BY DEF PointersOK, SameShape, SamePointers, SameSlots
<1>3. Len(Stack') = Len(Stack)
  BY NowExists DEF SameShape, Stack, Now
<1>. QED
  BY <1>1, <1>2, <1>3

LEMMA SameListKeepsOpen ==
  ASSUME UpvalsOK, OpenOK, SameSlots, SameScopes, UNCHANGED open
  PROVE  OpenOK'
<1>1. DOMAIN upvals = 1 .. Len(upvals) /\ DOMAIN upvals' = 1 .. Len(upvals)
  BY LenProperties DEF UpvalsOK, SameSlots
<1>2. { u \in DOMAIN upvals' : upvals'[u].inScope } = { u \in DOMAIN upvals : upvals[u].inScope }
  BY <1>1 DEF SameScopes
<1>3. OpenAreInScope'
  BY <1>2 DEF OpenOK, OpenAreInScope
<1>. QED
  BY <1>3 DEF OpenOK, SameSlots, Slot

\* A step that changes no frame.
LEMMA SameFramesKeep ==
  ASSUME FramesOK, VariablesOK, SamePointers, SameScopes, UNCHANGED frames,
         Len(memory') = Len(memory), Len(Stack') = Len(Stack)
  PROVE  FramesOK' /\ VariablesOK'
<1>1. FramesOK'
  BY DEF FramesOK, SamePointers, SameSlots
<1>2. VariablesOK'
  BY DEF VariablesOK, SamePointers, SameSlots, SameScopes
<1>. QED
  BY <1>1, <1>2

\* The running function, and the slots it may use.
LEMMA Running ==
  ASSUME MemoryOK, FramesOK, InFunction
  PROVE  /\ Len(frames) \in Nat \ {0} /\ Len(frames) \in 1 .. Len(frames)
         /\ Frame = frames[Len(frames)] /\ Frame \in FrameRec
         /\ Frame.base \in Nat /\ Frame.base > 1 /\ Frame.n \in Nat /\ Frame.n <= MAXVARS
         /\ Frame.up \in 0 .. Len(upvals)
         /\ FreeSlot = Frame.base + Frame.n
         /\ \A i \in 0 .. Frame.n - 1 : Frame.base + i \in 1 .. Len(Stack)
         /\ Frame.n < MAXVARS => FreeSlot \in 1 .. Len(Stack)
<1>1. Len(frames) \in Nat \ {0} /\ Len(frames) \in 1 .. Len(frames)
  BY LenProperties, EmptySeq DEF FramesOK, InFunction
<1>2. /\ Frame = frames[Len(frames)] /\ Frame \in FrameRec
      /\ Frame.base \in Nat /\ Frame.base > 1 /\ Frame.n \in Nat /\ Frame.n <= MAXVARS
      /\ Frame.up \in 0 .. Len(upvals)
      /\ Frame.base + MAXVARS <= Len(Stack) + 1
  BY <1>1, FrameTypes DEF FramesOK, Frame
<1>3. FreeSlot = Frame.base + Frame.n
  BY DEF FreeSlot, InFunction
<1>4. MAXVARS \in Nat /\ Len(Stack) \in Nat
  BY BoundAssumption, NowExists
<1>. DEFINE b == Frame.base
            n == Frame.n
<1>5. b \in Nat /\ b > 1 /\ n \in Nat /\ n <= MAXVARS /\ b + MAXVARS <= Len(Stack) + 1
  BY <1>2
<1>. HIDE DEF b, n
<1>6. /\ \A i \in 0 .. n - 1 : b + i \in 1 .. Len(Stack)
      /\ n < MAXVARS => b + n \in 1 .. Len(Stack)
  BY <1>4, <1>5
<1>. QED
  BY <1>1, <1>2, <1>3, <1>6 DEF b, n

\* The running function's variables become more or fewer.
LEMMA WithVarsKeepsFrames ==
  ASSUME MemoryOK, FramesOK, InFunction, NEW n \in Nat, n <= MAXVARS, frames' = WithVars(n),
         Len(upvals') = Len(upvals), Len(Stack') = Len(Stack)
  PROVE  /\ FramesOK' /\ Len(frames') = Len(frames)
         /\ \A f \in 1 .. Len(frames) :
              /\ frames'[f].base = frames[f].base
              /\ frames'[f].n = IF f = Len(frames) THEN n ELSE frames[f].n
<1>. DEFINE L == Len(frames)
            e == [frames[L] EXCEPT !.n = n]
<1>1. L \in Nat \ {0} /\ L \in 1 .. L /\ frames[L] \in FrameRec /\ frames \in Seq(FrameRec)
  BY Running, FrameTypes DEF FramesOK
<1>2. /\ e \in FrameRec /\ e.base = frames[L].base /\ e.n = n /\ e.up = frames[L].up
  <2>. HIDE DEF L
  <2>. QED
    BY <1>1 DEF FrameRec
<1>3. frames' = [frames EXCEPT ![L] = e]
  BY DEF WithVars
<1>. HIDE DEF e
<1>4. /\ frames' \in Seq(FrameRec) /\ Len(frames') = L
      /\ \A f \in 1 .. L : frames'[f] = IF f = L THEN e ELSE frames[f]
  BY <1>1, <1>2, <1>3, ExceptSeq
<1>5. \A f \in 1 .. L : /\ frames'[f].base = frames[f].base
                        /\ frames'[f].n = IF f = L THEN n ELSE frames[f].n
                        /\ frames'[f].up = frames[f].up
  BY <1>2, <1>4
<1>6. \A f, g \in 1 .. L : f < g => f # L
  BY <1>1
<1>7. \A f, g \in 1 .. L : f < g => frames'[f].base + frames'[f].n < frames'[g].base
  BY <1>5, <1>6 DEF FramesOK
<1>8. FramesOK'
  <2>. HIDE DEF L
  <2>1. \A f \in 1 .. L :
          /\ frames'[f].base > 1
          /\ frames'[f].n <= MAXVARS
          /\ frames'[f].base + MAXVARS <= Len(Stack') + 1
          /\ frames'[f].up \in 0 .. Len(upvals')
    BY <1>5 DEF FramesOK, L
  <2>. QED
    BY <1>4, <1>7, <2>1 DEF FramesOK
<1>. QED
  BY <1>4, <1>5, <1>8
-----------------------------------------------------------------------------
(* The steps *)

LEMMA DeclareKeepsIInv == IInv /\ Declare => IInv'
<1>. SUFFICES ASSUME IInv, Declare PROVE IInv'
  OBVIOUS
<1>0. /\ MemoryOK /\ UpvalsOK /\ PointersOK /\ OpenOK /\ FramesOK /\ VariablesOK
      /\ InFunction /\ Frame.n < MAXVARS /\ frames' = WithVars(Frame.n + 1)
      /\ UNCHANGED <<upvals, open>>
  BY DEF IInv, Declare
<1>1. SamePointers /\ SameScopes
  BY <1>0 DEF SamePointers, SameSlots, SameScopes, UpvalsOK
<1>2. SameShape
  <2>1. PICK v \in Val : memory' = [memory EXCEPT ![Len(memory)][FreeSlot] = v]
    BY DEF Declare, Now
  <2>2. Len(memory) \in 1 .. Len(memory) /\ FreeSlot \in 1 .. Len(memory[Len(memory)])
    BY <1>0, NowExists, Running
  <2>. QED
    BY <1>0, <2>1, <2>2, WriteSlot DEF MemoryOK, SameShape
<1>3. MemoryOK' /\ PointersOK' /\ Len(Stack') = Len(Stack) /\ Len(memory') = Len(memory)
  BY <1>0, <1>1, <1>2, SameShapeKeepsMemory DEF SameShape
<1>4. OpenOK'
  BY <1>0, <1>1, SameListKeepsOpen DEF SamePointers
<1>5. Frame.n + 1 \in Nat /\ Frame.n + 1 <= MAXVARS
  BY <1>0, BoundAssumption, Running
<1>6. /\ FramesOK' /\ Len(frames') = Len(frames)
      /\ \A f \in 1 .. Len(frames) :
           /\ frames'[f].base = frames[f].base
           /\ frames'[f].n = IF f = Len(frames) THEN Frame.n + 1 ELSE frames[f].n
  BY <1>0, <1>3, <1>5, WithVarsKeepsFrames
<1>7. VariablesOK'
  <2>. SUFFICES ASSUME NEW u \in 1 .. Len(upvals), upvals[u].inScope
                PROVE  /\ upvals[u].array = Len(memory')
                       /\ \E f \in 1 .. Len(frames') :
                            upvals[u].pos \in frames'[f].base .. frames'[f].base + frames'[f].n - 1
    BY <1>0 DEF VariablesOK
  <2>1. /\ upvals[u].array = Len(memory)
        /\ \E f \in 1 .. Len(frames) :
             upvals[u].pos \in frames[f].base .. frames[f].base + frames[f].n - 1
    BY <1>0 DEF VariablesOK
  <2>2. PICK f \in 1 .. Len(frames) :
          upvals[u].pos \in frames[f].base .. frames[f].base + frames[f].n - 1
    BY <2>1
  <2>3. frames'[f].n >= frames[f].n /\ frames'[f].n \in Nat
    BY <1>0, <1>6, FrameTypes, Running, SMTT(30)
  <2>4. upvals[u].pos \in frames'[f].base .. frames'[f].base + frames'[f].n - 1
    <3>1. frames[f].base \in Nat /\ frames[f].n \in Nat /\ frames'[f].base = frames[f].base
      BY <1>0, <1>6, FrameTypes
    <3>. DEFINE p == upvals[u].pos
                n0 == frames[f].n
                n1 == frames'[f].n
                b == frames[f].base
    <3>2. n0 \in Nat /\ n1 \in Nat /\ n1 >= n0 /\ b \in Nat /\ p \in b .. b + n0 - 1
      BY <2>2, <2>3, <3>1
    <3>. HIDE DEF p, n0, n1, b
    <3>3. p \in b .. b + n1 - 1
      BY <3>2
    <3>. QED
      BY <3>1, <3>3 DEF p, n1, b
  <2>. QED
    BY <1>3, <1>6, <2>1, <2>4
<1>. QED
  BY <1>1, <1>3, <1>4, <1>6, <1>7 DEF IInv, SamePointers, SameSlots

LEMMA AssignKeepsIInv == IInv /\ Assign => IInv'
<1>. SUFFICES ASSUME IInv, Assign PROVE IInv'
  OBVIOUS
<1>0. /\ MemoryOK /\ UpvalsOK /\ PointersOK /\ OpenOK /\ FramesOK /\ VariablesOK
      /\ InFunction /\ UNCHANGED <<upvals, open, frames>>
  BY DEF IInv, Assign
<1>1. SamePointers /\ SameScopes
  BY <1>0 DEF SamePointers, SameSlots, SameScopes, UpvalsOK
<1>2. SameShape
  <2>1. PICK i \in 0 .. Frame.n - 1,
             v \in Val \cup (IF Frame.up = NoUpval THEN {} ELSE {Content(Frame.up)}) :
          memory' = [memory EXCEPT ![Len(memory)][Frame.base + i] = v]
    BY DEF Assign, Now
  <2>2. /\ Len(memory) \in 1 .. Len(memory)
        /\ Frame.base + i \in 1 .. Len(memory[Len(memory)])
    BY <1>0, NowExists, Running
  <2>3. v \in Val
    <3>1. Frame.up # NoUpval => Frame.up \in 1 .. Len(upvals)
      BY <1>0, Running DEF NoUpval
    <3>. QED
      BY <1>0, <3>1, ContentIsValue
  <2>. QED
    BY <1>0, <2>1, <2>2, <2>3, WriteSlot DEF MemoryOK, SameShape
<1>3. MemoryOK' /\ PointersOK' /\ Len(Stack') = Len(Stack) /\ Len(memory') = Len(memory)
  BY <1>0, <1>1, <1>2, SameShapeKeepsMemory DEF SameShape
<1>. QED
  BY <1>0, <1>1, <1>3, SameListKeepsOpen, SameFramesKeep DEF IInv, SamePointers, SameSlots

LEMMA SetUpvalKeepsIInv == IInv /\ SetUpval => IInv'
<1>. SUFFICES ASSUME IInv, SetUpval PROVE IInv'
  OBVIOUS
<1>0. /\ MemoryOK /\ UpvalsOK /\ PointersOK /\ OpenOK /\ FramesOK /\ VariablesOK
      /\ InFunction /\ Frame.up # NoUpval /\ UNCHANGED <<open, frames>>
  BY DEF IInv, SetUpval
<1>. DEFINE w == Frame.up
<1>1. w \in 1 .. Len(upvals)
  BY <1>0, Running DEF NoUpval
<1>2. PICK v \in Val :
        /\ memory' = [memory EXCEPT ![upvals[w].array][upvals[w].pos] = v]
        /\ upvals' = [upvals EXCEPT ![w].kept = v]
  BY DEF SetUpval, Slot
<1>. HIDE DEF w
<1>3. SamePointers /\ SameScopes
  <2>. DEFINE e == [upvals[w] EXCEPT !.kept = v]
  <2>1. /\ e \in UpvalRec /\ e.array = upvals[w].array /\ e.pos = upvals[w].pos
        /\ e.inScope = upvals[w].inScope
    BY <1>0, <1>1, UpvalTypes DEF UpvalRec
  <2>2. upvals' = [upvals EXCEPT ![w] = e]
    BY <1>2
  <2>. HIDE DEF e
  <2>3. /\ upvals' \in Seq(UpvalRec) /\ Len(upvals') = Len(upvals)
        /\ \A u \in 1 .. Len(upvals) : upvals'[u] = IF u = w THEN e ELSE upvals[u]
    BY <1>0, <1>1, <2>1, <2>2, ExceptSeq DEF UpvalsOK
  <2>. QED
    BY <2>1, <2>3 DEF SamePointers, SameSlots, SameScopes, UpvalsOK
<1>4. SameShape
  BY <1>0, <1>1, <1>2, WriteSlot DEF MemoryOK, PointersOK, SameShape
<1>5. MemoryOK' /\ PointersOK' /\ Len(Stack') = Len(Stack) /\ Len(memory') = Len(memory)
  BY <1>0, <1>3, <1>4, SameShapeKeepsMemory DEF SameShape
<1>. QED
  BY <1>0, <1>3, <1>5, SameListKeepsOpen, SameFramesKeep DEF IInv, SamePointers, SameSlots

LEMMA CaptureKeepsIInv == IInv /\ Capture => IInv'
<1>. SUFFICES ASSUME IInv, Capture PROVE IInv'
  OBVIOUS
<1>0. /\ MemoryOK /\ UpvalsOK /\ PointersOK /\ OpenOK /\ FramesOK /\ VariablesOK
      /\ InFunction /\ UNCHANGED <<memory, frames>>
  BY DEF IInv, Capture
<1>. DEFINE N == Len(upvals)
<1>1. PICK i \in 0 .. Frame.n - 1 :
        /\ upvals' = Append(upvals, [array |-> Now, pos |-> Frame.base + i, inScope |-> TRUE,
                                     kept |-> Stack[Frame.base + i]])
        /\ open' = Chained(N + 1, Frame.base + i)
  BY DEF Capture
<1>. DEFINE slot == Frame.base + i
            e == [array |-> Now, pos |-> slot, inScope |-> TRUE, kept |-> Stack[slot]]
            k == AtOrAbove(slot)
<1>2. slot \in 1 .. Len(Stack) /\ slot \in Frame.base .. Frame.base + Frame.n - 1 /\ slot \in Nat
  BY <1>0, Running
<1>. HIDE DEF slot
<1>3. e \in UpvalRec /\ e.array = Len(memory) /\ e.pos = slot /\ e.inScope = TRUE
  <2>1. Stack[slot] \in Val /\ Now \in Nat /\ Now = Len(memory)
    BY <1>0, <1>2, NowExists, ElementOfSeq DEF Now
  <2>. QED
    BY <1>2, <2>1 DEF UpvalRec
<1>. HIDE DEF e
<1>4. /\ UpvalsOK' /\ Len(upvals') = N + 1 /\ N \in Nat
      /\ \A u \in 1 .. N : upvals'[u] = upvals[u]
      /\ upvals'[N + 1] = e
  <2>1. upvals' = Append(upvals, e)
    BY <1>1 DEF e, slot
  <2>. QED
    BY <1>0, <1>3, <2>1, AppendProperties, LenProperties DEF UpvalsOK
<1>5. /\ open' \in Seq(Nat) /\ Len(open') = Len(open) + 1
      /\ \A j \in 1 .. Len(open) + 1 :
           open'[j] = IF j <= k THEN open[j] ELSE IF j = k + 1 THEN N + 1 ELSE open[j - 1]
  <2>1. open' = Chained(N + 1, slot) /\ N + 1 \in Nat
    BY <1>1, <1>4 DEF slot
  <2>. QED
    BY <1>0, <1>2, <2>1, ChainedIs
<1>6. /\ k \in 0 .. Len(open) /\ Len(open) \in Nat
      /\ \A j \in 1 .. Len(open) :
           IF j <= k THEN Slot(open[j]) >= slot ELSE Slot(open[j]) < slot
  <2>1. Len(open) \in Nat
    BY <1>0 DEF OpenOK
  <2>. QED
    BY <1>0, <1>2, <2>1, AtOrAboveSplits
<1>. HIDE DEF k, N
\* The members, and where their slots are.
<1>7. \A j \in 1 .. Len(open) + 1 :
        \/ j <= k /\ j \in 1 .. Len(open) /\ open'[j] = open[j]
        \/ j = k + 1 /\ open'[j] = N + 1
        \/ j > k + 1 /\ j - 1 \in 1 .. Len(open) /\ j - 1 > k /\ open'[j] = open[j - 1]
  BY <1>5, <1>6
<1>8. \A j \in 1 .. Len(open) :
        /\ open[j] \in 1 .. N /\ open[j] \in 1 .. N + 1 /\ upvals'[open[j]] = upvals[open[j]]
        /\ Slot(open[j]) \in Nat /\ upvals'[open[j]].pos = Slot(open[j])
  <2>. SUFFICES ASSUME NEW j \in 1 .. Len(open)
                PROVE  /\ open[j] \in 1 .. N /\ open[j] \in 1 .. N + 1
                       /\ upvals'[open[j]] = upvals[open[j]]
                       /\ Slot(open[j]) \in Nat /\ upvals'[open[j]].pos = Slot(open[j])
    OBVIOUS
  <2>1. open[j] \in 1 .. N
    BY <1>0 DEF OpenOK, N
  <2>2. upvals[open[j]].pos \in Nat
    BY <1>0, <2>1, UpvalTypes DEF N
  <2>. QED
    BY <1>4, <2>1, <2>2 DEF Slot
<1>13. upvals'[N + 1].pos = slot /\ N + 1 \in 1 .. N + 1
  BY <1>3, <1>4
<1>9. \A j \in 1 .. Len(open) + 1 :
        /\ open'[j] \in 1 .. N + 1
        /\ \/ j <= k /\ j \in 1 .. Len(open) /\ upvals'[open'[j]].pos = Slot(open[j])
           \/ j = k + 1 /\ upvals'[open'[j]].pos = slot
           \/ /\ j > k + 1 /\ j - 1 \in 1 .. Len(open) /\ j - 1 > k
              /\ upvals'[open'[j]].pos = Slot(open[j - 1])
  BY <1>7, <1>8, <1>13
<1>10. ASSUME NEW a \in 1 .. Len(open'), NEW b \in 1 .. Len(open'), a < b
       PROVE  upvals'[open'[a]].pos >= upvals'[open'[b]].pos
  <2>0. a \in 1 .. Len(open) + 1 /\ b \in 1 .. Len(open) + 1 /\ a \in Nat /\ b \in Nat
    BY <1>5, <1>6
  <2>. DEFINE A == upvals'[open'[a]].pos
              B == upvals'[open'[b]].pos
  <2>1. \/ a <= k /\ a \in 1 .. Len(open) /\ A = Slot(open[a])
        \/ a = k + 1 /\ A = slot
        \/ a > k + 1 /\ a - 1 \in 1 .. Len(open) /\ a - 1 > k /\ A = Slot(open[a - 1])
    BY <1>9, <2>0
  <2>2. \/ b <= k /\ b \in 1 .. Len(open) /\ B = Slot(open[b])
        \/ b = k + 1 /\ B = slot
        \/ b > k + 1 /\ b - 1 \in 1 .. Len(open) /\ b - 1 > k /\ B = Slot(open[b - 1])
    BY <1>9, <2>0
  <2>. SUFFICES A >= B
    OBVIOUS
  <2>. HIDE DEF A, B
  <2>3. \A g, h \in 1 .. Len(open) : g < h => Slot(open[g]) >= Slot(open[h])
    BY <1>0 DEF OpenOK
  <2>4. \A j \in 1 .. Len(open) : Slot(open[j]) \in Nat
    BY <1>8
  <2>5. CASE a <= k /\ a \in 1 .. Len(open) /\ A = Slot(open[a])
    <3>1. CASE b <= k /\ b \in 1 .. Len(open) /\ B = Slot(open[b])
      BY <1>10, <2>3, <2>5, <3>1
    <3>2. CASE b = k + 1 /\ B = slot
      BY <1>6, <2>5, <3>2
    <3>3. CASE b > k + 1 /\ b - 1 \in 1 .. Len(open) /\ b - 1 > k /\ B = Slot(open[b - 1])
      BY <1>6, <2>0, <2>3, <2>5, <3>3
    <3>. QED
      BY <2>2, <3>1, <3>2, <3>3
  <2>6. CASE a = k + 1 /\ A = slot
    <3>1. b > k + 1 /\ b - 1 \in 1 .. Len(open) /\ b - 1 > k /\ B = Slot(open[b - 1])
      BY <1>6, <1>10, <2>0, <2>2, <2>6
    <3>2. ~(b - 1 <= k)
      BY <1>6, <2>0, <3>1
    <3>. QED
      BY <1>2, <1>6, <2>4, <2>6, <3>1, <3>2
  <2>7. CASE a > k + 1 /\ a - 1 \in 1 .. Len(open) /\ a - 1 > k /\ A = Slot(open[a - 1])
    <3>1. b > k + 1 /\ b - 1 \in 1 .. Len(open) /\ B = Slot(open[b - 1]) /\ a - 1 < b - 1
      BY <1>6, <1>10, <2>0, <2>2, <2>7
    <3>. QED
      BY <2>3, <2>7, <3>1
  <2>. QED
    BY <2>1, <2>5, <2>6, <2>7
<1>11. { open'[j] : j \in DOMAIN open' } = { u \in DOMAIN upvals' : upvals'[u].inScope }
  <2>1. /\ DOMAIN open' = 1 .. Len(open) + 1 /\ DOMAIN upvals' = 1 .. N + 1
        /\ DOMAIN open = 1 .. Len(open) /\ DOMAIN upvals = 1 .. N
    BY <1>0, <1>4, <1>5, LenProperties DEF UpvalsOK, OpenOK, N
  <2>2. ASSUME NEW j \in 1 .. Len(open) + 1
        PROVE  open'[j] \in 1 .. N + 1 /\ upvals'[open'[j]].inScope
    <3>1. \A h \in 1 .. Len(open) : upvals'[open[h]].inScope
      <4>1. \A h \in 1 .. Len(open) : upvals[open[h]].inScope
        BY <1>0, <2>1 DEF OpenOK, OpenAreInScope
      <4>. QED
        BY <1>8, <4>1
    <3>2. upvals'[N + 1].inScope
      BY <1>3, <1>4
    <3>. QED
      BY <1>7, <1>9, <3>1, <3>2
  <2>3. ASSUME NEW u \in 1 .. N + 1, upvals'[u].inScope
        PROVE  \E j \in 1 .. Len(open) + 1 : open'[j] = u
    <3>1. CASE u = N + 1
      <4>1. k + 1 \in 1 .. Len(open) + 1 /\ ~(k + 1 <= k)
        BY <1>6
      <4>. QED
        BY <1>5, <3>1, <4>1
    <3>2. CASE u # N + 1
      <4>1. u \in 1 .. N /\ upvals[u].inScope
        BY <1>4, <2>3, <3>2
      <4>2. PICK j \in 1 .. Len(open) : open[j] = u
        BY <1>0, <2>1, <4>1 DEF OpenOK, OpenAreInScope
      <4>3. CASE j <= k
        BY <1>5, <1>6, <4>2, <4>3
      <4>4. CASE ~(j <= k)
        <5>1. j + 1 \in 1 .. Len(open) + 1 /\ ~(j + 1 <= k) /\ j + 1 # k + 1 /\ (j + 1) - 1 = j
          BY <1>6, <4>4
        <5>. QED
          BY <1>5, <4>2, <5>1
      <4>. QED
        BY <4>3, <4>4
    <3>. QED
      BY <3>1, <3>2
  <2>. QED
    BY <2>1, <2>2, <2>3
<1>12. OpenOK'
  <2>1. \A j \in 1 .. Len(open') : open'[j] \in 1 .. Len(upvals')
    BY <1>4, <1>5, <1>9
  <2>. QED
    BY <1>5, <1>10, <1>11, <2>1 DEF OpenOK, OpenAreInScope, Slot
<1>14. MemoryOK' /\ PointersOK'
  <2>1. Len(memory) \in 1 .. Len(memory) /\ slot \in 1 .. Len(memory[Len(memory)])
    BY <1>0, <1>2, NowExists
  <2>2. \A u \in 1 .. N + 1 : u \in 1 .. N \/ u = N + 1
    BY <1>4
  <2>. QED
    BY <1>0, <1>3, <1>4, <2>1, <2>2 DEF MemoryOK, PointersOK, N
<1>15. FramesOK'
  <2>1. Len(Stack') = Len(Stack)
    BY <1>0 DEF Stack, Now
  <2>2. \A f \in 1 .. Len(frames) : frames[f].up \in 0 .. N + 1
    BY <1>0, <1>4 DEF FramesOK, N
  <2>. QED
    BY <1>0, <1>4, <2>1, <2>2 DEF FramesOK
<1>16. VariablesOK'
  <2>1. Len(frames) \in 1 .. Len(frames) /\ Frame = frames[Len(frames)]
    BY <1>0, Running
  <2>2. \A u \in 1 .. N + 1 : u \in 1 .. N \/ u = N + 1
    BY <1>4
  <2>. QED
    BY <1>0, <1>2, <1>3, <1>4, <2>1, <2>2 DEF VariablesOK, N
<1>. QED
  BY <1>4, <1>12, <1>14, <1>15, <1>16 DEF IInv

LEMMA LeaveBlockKeepsIInv == IInv /\ LeaveBlock => IInv'
<1>. SUFFICES ASSUME IInv, LeaveBlock PROVE IInv'
  OBVIOUS
<1>0. /\ MemoryOK /\ UpvalsOK /\ PointersOK /\ OpenOK /\ FramesOK /\ VariablesOK
      /\ InFunction /\ UNCHANGED memory
  BY DEF IInv, LeaveBlock
<1>1. PICK n \in 0 .. Frame.n - 1 : frames' = WithVars(n) /\ CloseFrom(Frame.base + n)
  BY DEF LeaveBlock
<1>. DEFINE level == Frame.base + n
            L == Len(frames)
<1>2. /\ n \in Nat /\ n <= MAXVARS /\ level \in Nat /\ L \in Nat \ {0} /\ Frame = frames[L]
      /\ L \in 1 .. L
  BY <1>0, BoundAssumption, Running
<1>3. /\ UpvalsOK' /\ Len(upvals') = Len(upvals)
      /\ \A u \in 1 .. Len(upvals) :
           /\ upvals'[u].array = upvals[u].array /\ upvals'[u].pos = upvals[u].pos
           /\ upvals'[u].inScope <=> upvals[u].inScope /\ upvals[u].pos < level
      /\ OpenOK'
  <2>. HIDE DEF level
  <2>1. CloseFrom(level)
    BY <1>1 DEF level
  <2>. QED
    BY <1>2, <2>1, CloseFromKeepsOpen
<1>4. SamePointers /\ SameShape /\ Len(Stack') = Len(Stack)
  BY <1>0, <1>3 DEF SamePointers, SameSlots, SameShape, MemoryOK, Stack, Now
<1>5. /\ FramesOK' /\ Len(frames') = L
      /\ \A f \in 1 .. L :
           /\ frames'[f].base = frames[f].base
           /\ frames'[f].n = IF f = L THEN n ELSE frames[f].n
  BY <1>0, <1>1, <1>2, <1>3, <1>4, WithVarsKeepsFrames
<1>6. VariablesOK'
  <2>. SUFFICES ASSUME NEW u \in 1 .. Len(upvals), upvals[u].inScope, upvals[u].pos < level
                PROVE  /\ upvals[u].array = Len(memory)
                       /\ \E f \in 1 .. L :
                            upvals[u].pos \in frames'[f].base .. frames'[f].base + frames'[f].n - 1
    BY <1>0, <1>3, <1>5 DEF VariablesOK
  <2>1. upvals[u].array = Len(memory)
    BY <1>0 DEF VariablesOK
  <2>2. PICK f \in 1 .. L : upvals[u].pos \in frames[f].base .. frames[f].base + frames[f].n - 1
    BY <1>0 DEF VariablesOK
  <2>3. CASE f # L
    BY <1>5, <2>1, <2>2, <2>3
  <2>4. CASE f = L
    <3>1. frames[L].base \in Nat /\ upvals[u].pos \in Nat /\ upvals[u].pos >= frames[L].base
      BY <1>0, <1>2, <2>2, <2>4, FrameTypes, UpvalTypes
    <3>2. upvals[u].pos \in frames[L].base .. frames[L].base + n - 1
      BY <1>2, <3>1
    <3>. QED
      BY <1>2, <1>5, <2>1, <3>2
  <2>. QED
    BY <2>3, <2>4
<1>. QED
  BY <1>0, <1>3, <1>4, <1>5, <1>6, SameShapeKeepsMemory DEF IInv

\* The functions above frame m go away, and the variables from level on.
LEMMA UnwindKeepsIInv ==
  ASSUME IInv, SameShape, NEW m \in Nat, m + 1 \in 1 .. Len(frames),
         NEW level \in Nat, level <= frames[m + 1].base,
         CloseFrom(level), frames' = SubSeq(frames, 1, m)
  PROVE  IInv'
<1>0. /\ MemoryOK /\ UpvalsOK /\ PointersOK /\ OpenOK /\ FramesOK /\ VariablesOK
      /\ Len(frames) \in Nat
  BY FrameTypes DEF IInv
<1>1. /\ UpvalsOK' /\ Len(upvals') = Len(upvals)
      /\ \A u \in 1 .. Len(upvals) :
           /\ upvals'[u].array = upvals[u].array /\ upvals'[u].pos = upvals[u].pos
           /\ upvals'[u].inScope <=> upvals[u].inScope /\ upvals[u].pos < level
      /\ OpenOK'
  BY CloseFromKeepsOpen
<1>2. SamePointers
  BY <1>1 DEF SamePointers, SameSlots
<1>3. MemoryOK' /\ PointersOK' /\ Len(Stack') = Len(Stack) /\ Len(memory') = Len(memory)
  BY <1>0, <1>2, SameShapeKeepsMemory DEF SameShape
<1>4. /\ frames' \in Seq(FrameRec) /\ Len(frames') = m
      /\ \A f \in 1 .. m : f \in 1 .. Len(frames) /\ frames'[f] = frames[f]
  <2>1. \A f \in 1 .. m : f \in 1 .. Len(frames) /\ frames[f] \in FrameRec
    BY <1>0, FrameTypes
  <2>2. 1 \in Int /\ m \in Int
    OBVIOUS
  <2>3. /\ SubSeq(frames, 1, m) \in Seq(FrameRec)
        /\ Len(SubSeq(frames, 1, m)) = IF 1 <= m THEN m - 1 + 1 ELSE 0
        /\ \A f \in 1 .. m - 1 + 1 : SubSeq(frames, 1, m)[f] = frames[1 + f - 1]
    BY <2>1, <2>2, SubSeqProperties
  <2>4. \A f \in 1 .. m : f \in 1 .. m - 1 + 1 /\ 1 + f - 1 = f
    OBVIOUS
  <2>. QED
    BY <2>1, <2>3, <2>4
<1>5. FramesOK'
  BY <1>0, <1>1, <1>3, <1>4 DEF FramesOK
<1>6. VariablesOK'
  <2>. SUFFICES ASSUME NEW u \in 1 .. Len(upvals), upvals[u].inScope, upvals[u].pos < level
                PROVE  /\ upvals[u].array = Len(memory)
                       /\ \E f \in 1 .. m :
                            upvals[u].pos \in frames[f].base .. frames[f].base + frames[f].n - 1
    BY <1>1, <1>3, <1>4 DEF VariablesOK
  <2>1. upvals[u].array = Len(memory)
    BY <1>0 DEF VariablesOK
  <2>2. PICK f \in 1 .. Len(frames) :
          upvals[u].pos \in frames[f].base .. frames[f].base + frames[f].n - 1
    BY <1>0 DEF VariablesOK
  <2>3. f \in 1 .. m
    <3>. SUFFICES ASSUME ~(f <= m) PROVE FALSE
      BY <1>0
    <3>0. frames[f].base \in Nat /\ frames[m + 1].base \in Nat /\ frames[m + 1].n \in Nat
          /\ upvals[u].pos \in Nat
      BY <1>0, FrameTypes, UpvalTypes
    <3>1. f = m + 1 \/ m + 1 < f
      OBVIOUS
    <3>2. frames[m + 1].base <= frames[f].base
      BY <1>0, <3>0, <3>1, SMTT(30) DEF FramesOK
    <3>3. upvals[u].pos < frames[m + 1].base /\ upvals[u].pos >= frames[f].base
      <4>1. upvals[u].pos >= frames[f].base
        <5>. DEFINE a == frames[f].base  b == frames[f].base + frames[f].n - 1  x == upvals[u].pos
        <5>1. x \in a .. b
          BY <2>2
        <5>. HIDE DEF a, b, x
        <5>2. x >= a
          BY ONLY <5>1
        <5>. QED
          BY <5>2 DEF a, x
      <4>2. upvals[u].pos < level /\ level <= frames[m + 1].base /\ level \in Nat
        OBVIOUS
      <4>. QED
        BY ONLY <3>0, <4>1, <4>2
    <3>. QED
      BY ONLY <3>0, <3>2, <3>3
  <2>. QED
    BY <2>1, <2>2, <2>3
<1>. QED
  BY <1>1, <1>3, <1>5, <1>6 DEF IInv

LEMMA ReturnKeepsIInv == IInv /\ Return => IInv'
<1>. SUFFICES ASSUME IInv, Return PROVE IInv'
  OBVIOUS
<1>0. /\ MemoryOK /\ FramesOK
      /\ InFunction /\ UNCHANGED memory /\ CloseFrom(Frame.base)
      /\ frames' = SubSeq(frames, 1, Len(frames) - 1)
  BY DEF IInv, Return
<1>. DEFINE m == Len(frames) - 1
<1>1. m \in Nat /\ m + 1 \in 1 .. Len(frames) /\ Frame = frames[m + 1] /\ Frame.base \in Nat
  BY <1>0, Running
<1>2. SameShape
  BY <1>0 DEF SameShape, MemoryOK
<1>. HIDE DEF m
<1>3. frames' = SubSeq(frames, 1, m)
  BY <1>0 DEF m
<1>4. Frame.base <= frames[m + 1].base
  BY <1>1
<1>. QED
  BY <1>0, <1>1, <1>2, <1>3, <1>4, UnwindKeepsIInv

LEMMA ErrorKeepsIInv == IInv /\ Error => IInv'
<1>. SUFFICES ASSUME IInv, Error PROVE IInv'
  OBVIOUS
<1>0. /\ MemoryOK /\ FramesOK /\ DOMAIN frames = 1 .. Len(frames)
      /\ Len(frames) \in Nat
  BY FrameTypes DEF IInv
<1>1. PICK p \in 1 .. Len(frames), v \in Val :
        /\ CloseFrom(frames[p].base - 1)
        /\ memory' = [memory EXCEPT ![Len(memory)][frames[p].base - 1] = v]
        /\ frames' = SubSeq(frames, 1, p - 1)
  BY <1>0 DEF Error, Now
<1>. DEFINE m == p - 1
            level == frames[p].base - 1
<1>2. /\ m \in Nat /\ m + 1 = p /\ level \in Nat /\ level <= frames[p].base
      /\ level \in 1 .. Len(Stack)
  <2>1. frames[p].base \in Nat /\ frames[p].base > 1 /\ frames[p].base + MAXVARS <= Len(Stack) + 1
    BY <1>0, FrameTypes DEF FramesOK
  <2>2. MAXVARS \in Nat /\ Len(Stack) \in Nat
    BY <1>0, BoundAssumption, NowExists
  <2>. QED
    BY <2>1, <2>2
<1>. HIDE DEF m, level
<1>3. SameShape
  <2>1. memory' = [memory EXCEPT ![Len(memory)][level] = v]
    BY <1>1 DEF level
  <2>2. Len(memory) \in 1 .. Len(memory) /\ level \in 1 .. Len(memory[Len(memory)])
    BY <1>0, <1>2, NowExists
  <2>. QED
    BY <1>0, <2>1, <2>2, WriteSlot DEF MemoryOK, SameShape
<1>4. CloseFrom(level) /\ frames' = SubSeq(frames, 1, m) /\ level <= frames[m + 1].base
      /\ m + 1 \in 1 .. Len(frames)
  BY <1>1, <1>2 DEF m, level
<1>. QED
  BY <1>2, <1>3, <1>4, UnwindKeepsIInv

\* correctstack: the members of the list, which are the upvalues in scope,
\* follow the stack to its new place.
LEMMA ReallocateMoves ==
  ASSUME IInv, Reallocate, UNCHANGED open
  PROVE  /\ MemoryOK' /\ PointersOK' /\ SameSlots /\ SameScopes
         /\ Len(memory') = Len(memory) + 1
         /\ Len(Stack') = NewSize + 1 /\ NewSize \in Nat /\ Len(Stack) <= NewSize
         /\ \A u \in 1 .. Len(upvals) : upvals[u].inScope => upvals'[u].array = Len(memory')
<1>0. /\ MemoryOK /\ UpvalsOK /\ PointersOK /\ OpenOK
      /\ Len(memory) \in Nat \ {0} /\ Stack \in Seq(Val) /\ Len(Stack) \in Nat
      /\ DOMAIN open = 1 .. Len(open) /\ DOMAIN upvals = 1 .. Len(upvals)
  BY NowExists, LenProperties DEF IInv, UpvalsOK, OpenOK
<1>1. NewSize \in Nat /\ Len(Stack) <= NewSize
  BY <1>0, BoundAssumption DEF NewSize
<1>2. PICK v \in Val :
        memory' = Append(memory, [p \in 1 .. NewSize + 1 |-> IF p <= Len(Stack) THEN Stack[p] ELSE v])
  BY DEF Reallocate
<1>. DEFINE new == [p \in 1 .. NewSize + 1 |-> IF p <= Len(Stack) THEN Stack[p] ELSE v]
<1>3. new \in Seq(Val) /\ Len(new) = NewSize + 1
  <2>1. \A p \in 1 .. NewSize + 1 : (IF p <= Len(Stack) THEN Stack[p] ELSE v) \in Val
    BY <1>0, ElementOfSeq
  <2>2. new \in [1 .. NewSize + 1 -> Val]
    BY <2>1
  <2>. HIDE DEF new
  <2>. QED
    BY <1>1, <2>2, FunIsSeq
<1>. HIDE DEF new
<1>4. /\ memory' \in Seq(Seq(Val)) /\ memory' # <<>> /\ Len(memory') = Len(memory) + 1
      /\ \A a \in 1 .. Len(memory) : memory'[a] = memory[a]
      /\ memory'[Len(memory) + 1] = new
  <2>1. memory' = Append(memory, new)
    BY <1>2 DEF new
  <2>. QED
    BY <1>0, <1>3, <2>1, AppendProperties DEF MemoryOK
<1>5. Len(Stack') = NewSize + 1
  BY <1>3, <1>4 DEF Stack, Now
<1>6. \A u \in 1 .. Len(upvals) :
        upvals'[u] = IF \E i \in 1 .. Len(open) : open[i] = u
                     THEN [upvals[u] EXCEPT !.array = Len(memory) + 1] ELSE upvals[u]
  BY <1>0 DEF Reallocate, Corrected, Now
<1>7. \A u \in 1 .. Len(upvals) : upvals[u].inScope <=> \E i \in 1 .. Len(open) : open[i] = u
  BY <1>0 DEF OpenOK, OpenAreInScope
<1>8. ASSUME NEW u \in 1 .. Len(upvals)
      PROVE  /\ upvals'[u] \in UpvalRec /\ upvals'[u].pos = upvals[u].pos
             /\ upvals'[u].inScope = upvals[u].inScope
             /\ upvals[u].inScope => upvals'[u].array = Len(memory) + 1
             /\ upvals'[u].array \in {upvals[u].array, Len(memory) + 1}
  <2>1. /\ upvals[u] = [array |-> upvals[u].array, pos |-> upvals[u].pos,
                        inScope |-> upvals[u].inScope, kept |-> upvals[u].kept]
        /\ upvals[u] \in UpvalRec
    BY <1>0, UpvalTypes
  <2>2. CASE upvals[u].inScope
    <3>1. upvals'[u] = [upvals[u] EXCEPT !.array = Len(memory) + 1]
      BY <1>6, <1>7, <2>2
    <3>. QED
      BY <1>0, <2>1, <3>1 DEF UpvalRec
  <2>3. CASE ~upvals[u].inScope
    <3>1. upvals'[u] = upvals[u]
      BY <1>6, <1>7, <2>3
    <3>. QED
      BY <2>1, <2>3, <3>1
  <2>. QED
    BY <2>2, <2>3
<1>9. upvals' \in Seq(UpvalRec) /\ Len(upvals') = Len(upvals)
  <2>1. upvals' \in [1 .. Len(upvals) -> UpvalRec]
    <3>1. DOMAIN upvals' = 1 .. Len(upvals) /\ upvals' = [u \in 1 .. Len(upvals) |-> upvals'[u]]
      BY <1>0 DEF Reallocate, Corrected
    <3>. QED
      BY <1>8, <3>1
  <2>2. Len(upvals) \in Nat
    BY <1>0, UpvalTypes
  <2>. QED
    BY <2>1, <2>2, FunIsSeq
<1>10. SameSlots /\ SameScopes
  BY <1>8, <1>9 DEF SameSlots, SameScopes, UpvalsOK
<1>11. PointersOK'
  <2>. SUFFICES ASSUME NEW u \in 1 .. Len(upvals)
                PROVE  /\ upvals'[u].array \in 1 .. Len(memory')
                       /\ upvals'[u].pos \in 1 .. Len(memory'[upvals'[u].array])
    BY <1>9 DEF PointersOK
  <2>1. upvals[u].array \in 1 .. Len(memory) /\ upvals[u].pos \in 1 .. Len(memory[upvals[u].array])
    BY <1>0 DEF PointersOK
  <2>2. CASE upvals[u].inScope
    <3>1. upvals[u].array = Len(memory)
      BY <2>2 DEF IInv, VariablesOK
    <3>2. upvals[u].pos \in 1 .. Len(Stack)
      BY <1>0, <2>1, <3>1, NowExists
    <3>3. upvals[u].pos \in 1 .. NewSize + 1
      BY <1>0, <1>1, <3>2
    <3>4. Len(memory) + 1 \in 1 .. Len(memory')
      BY <1>0, <1>4
    <3>. QED
      BY <1>3, <1>4, <1>8, <2>2, <3>3, <3>4
  <2>3. CASE ~upvals[u].inScope
    <3>1. upvals'[u] = upvals[u]
      BY <1>6, <1>7, <2>3
    <3>2. upvals[u].array \in 1 .. Len(memory')
      BY <1>0, <1>4, <2>1
    <3>. QED
      BY <1>4, <2>1, <3>1, <3>2
  <2>. QED
    BY <2>2, <2>3
<1>. QED
  BY <1>1, <1>4, <1>5, <1>8, <1>10, <1>11 DEF MemoryOK

\* The next function gets the slots above the running one's variables.
LEMMA FreeSlotIsFree ==
  ASSUME MemoryOK, FramesOK
  PROVE  /\ FreeSlot \in Nat \ {0} /\ FreeSlot <= Len(Stack) + 1
         /\ \A f \in 1 .. Len(frames) : frames[f].base + frames[f].n <= FreeSlot
<1>1. CASE frames = <<>>
  BY <1>1, NowExists DEF FreeSlot
<1>2. CASE InFunction
  <2>. DEFINE L == Len(frames)
  <2>1. /\ L \in Nat \ {0} /\ L \in 1 .. L /\ Frame = frames[L] /\ FreeSlot = frames[L].base + frames[L].n
    BY <1>2, Running
  <2>2. /\ frames[L].base \in Nat /\ frames[L].base > 1
        /\ frames[L].n \in Nat /\ frames[L].n <= MAXVARS
        /\ frames[L].base + MAXVARS <= Len(Stack) + 1
    <3>. HIDE DEF L
    <3>. QED
      BY <2>1, FrameTypes DEF FramesOK, L
  <2>3. MAXVARS \in Nat /\ Len(Stack) \in Nat
    BY BoundAssumption, NowExists
  <2>4. FreeSlot \in Nat \ {0} /\ FreeSlot <= Len(Stack) + 1
    BY <2>1, <2>2, <2>3
  <2>5. ASSUME NEW f \in 1 .. Len(frames)
        PROVE  frames[f].base + frames[f].n <= FreeSlot
    <3>1. frames[f].base \in Nat /\ frames[f].n \in Nat
      BY FrameTypes
    <3>2. CASE f = L
      BY <2>1, <2>2, <3>2
    <3>3. CASE f < L
      <4>1. frames[f].base + frames[f].n < frames[L].base
        BY <2>1, <3>3 DEF FramesOK
      <4>. QED
        BY <2>1, <2>2, <3>1, <4>1
    <3>. QED
      BY <2>1, <3>2, <3>3
  <2>. QED
    BY <2>4, <2>5
<1>. QED
  BY <1>1, <1>2 DEF InFunction

LEMMA CallKeepsIInv == IInv /\ Call => IInv'
<1>. SUFFICES ASSUME IInv, Call PROVE IInv'
  OBVIOUS
<1>0. /\ MemoryOK /\ UpvalsOK /\ PointersOK /\ OpenOK /\ FramesOK /\ VariablesOK
      /\ UNCHANGED open /\ Len(Stack) \in Nat /\ MAXVARS \in Nat
      /\ Len(frames) \in Nat /\ Len(upvals) \in Nat /\ DOMAIN upvals = 1 .. Len(upvals)
  BY NowExists, FrameTypes, UpvalTypes, BoundAssumption DEF IInv, Call
<1>1. PICK up \in 0 .. Len(upvals), protected \in BOOLEAN :
        frames' = Append(frames, [base |-> FreeSlot + 1, n |-> 0, up |-> up,
                                  protected |-> protected])
  BY <1>0 DEF Call, NoUpval
<1>. DEFINE e == [base |-> FreeSlot + 1, n |-> 0, up |-> up, protected |-> protected]
            L == Len(frames)
<1>2. /\ FreeSlot \in Nat \ {0} /\ FreeSlot <= Len(Stack) + 1
      /\ \A f \in 1 .. L : frames[f].base + frames[f].n <= FreeSlot
  BY <1>0, FreeSlotIsFree
<1>3. e \in FrameRec /\ e.base = FreeSlot + 1 /\ e.n = 0 /\ e.up = up
  BY <1>2 DEF FrameRec
<1>. HIDE DEF e
<1>4. /\ frames' \in Seq(FrameRec) /\ Len(frames') = L + 1
      /\ \A f \in 1 .. L : frames'[f] = frames[f]
      /\ frames'[L + 1] = e
  <2>1. frames' = Append(frames, e)
    BY <1>1 DEF e
  <2>. QED
    BY <1>0, <1>3, <2>1, AppendProperties DEF FramesOK
\* The memory, whether it moves or not.
<1>5. /\ MemoryOK' /\ PointersOK' /\ SameSlots /\ SameScopes
      /\ \A u \in 1 .. Len(upvals) : upvals[u].inScope => upvals'[u].array = Len(memory')
      /\ Len(Stack') \in Nat /\ Len(Stack) <= Len(Stack') /\ FreeSlot + MAXVARS <= Len(Stack')
  <2>1. CASE FreeSlot + MAXVARS <= Len(Stack) /\ UNCHANGED <<memory, upvals>>
    <3>1. MemoryOK' /\ PointersOK' /\ Len(Stack') = Len(Stack)
      BY <1>0, <2>1 DEF MemoryOK, PointersOK, Stack, Now
    <3>2. SameSlots /\ SameScopes
      BY <1>0, <2>1 DEF SameSlots, SameScopes, UpvalsOK
    <3>3. \A u \in 1 .. Len(upvals) : upvals[u].inScope => upvals'[u].array = Len(memory')
      BY <1>0, <2>1 DEF VariablesOK
    <3>. QED
      BY <1>0, <2>1, <3>1, <3>2, <3>3
  <2>2. CASE Reallocate
    <3>1. /\ MemoryOK' /\ PointersOK' /\ SameSlots /\ SameScopes
          /\ Len(Stack') = NewSize + 1 /\ NewSize \in Nat /\ Len(Stack) <= NewSize
          /\ \A u \in 1 .. Len(upvals) : upvals[u].inScope => upvals'[u].array = Len(memory')
      BY <1>0, <2>2, ReallocateMoves
    <3>2. FreeSlot + MAXVARS <= NewSize + 1
      BY <1>0, <1>2 DEF NewSize
    <3>. QED
      BY <1>0, <3>1, <3>2
  <2>. QED
    BY <2>1, <2>2 DEF Call
<1>6. OpenOK'
  BY <1>0, <1>5, SameListKeepsOpen
<1>7. \A f \in 1 .. L + 1 : f \in 1 .. L \/ f = L + 1
  BY <1>0
<1>8. FramesOK'
  <2>1. ASSUME NEW f \in 1 .. L + 1
        PROVE  /\ frames'[f].base > 1
               /\ frames'[f].n <= MAXVARS
               /\ frames'[f].base + MAXVARS <= Len(Stack') + 1
               /\ frames'[f].up \in 0 .. Len(upvals')
    <3>1. Len(upvals') = Len(upvals)
      BY <1>5 DEF SameSlots
    <3>2. CASE f \in 1 .. L
      <4>1. /\ frames[f].base > 1 /\ frames[f].n <= MAXVARS
            /\ frames[f].base + MAXVARS <= Len(Stack) + 1
            /\ frames[f].up \in 0 .. Len(upvals) /\ frames[f].base \in Nat
        BY <1>0, <3>2, FrameTypes DEF FramesOK
      <4>. QED
        BY <1>0, <1>4, <1>5, <3>1, <3>2, <4>1, SMTT(30)
    <3>3. CASE f = L + 1
      BY <1>0, <1>2, <1>3, <1>4, <1>5, <3>1, <3>3
    <3>. QED
      BY <1>7, <3>2, <3>3
  <2>2. ASSUME NEW f \in 1 .. L + 1, NEW g \in 1 .. L + 1, f < g
        PROVE  frames'[f].base + frames'[f].n < frames'[g].base
    <3>1. f \in 1 .. L
      BY <1>0, <2>2
    <3>2. CASE g \in 1 .. L
      BY <1>0, <1>4, <2>2, <3>1, <3>2 DEF FramesOK
    <3>3. CASE g = L + 1
      <4>1. frames[f].base + frames[f].n <= FreeSlot /\ frames[f].base \in Nat /\ frames[f].n \in Nat
        BY <1>0, <1>2, <3>1, FrameTypes
      <4>. QED
        BY <1>2, <1>3, <1>4, <3>1, <3>3, <4>1, SMTT(30)
    <3>. QED
      BY <1>7, <3>2, <3>3
  <2>. QED
    BY <1>4, <2>1, <2>2 DEF FramesOK
<1>9. VariablesOK'
  <2>1. \A f \in 1 .. L : f \in 1 .. L + 1
    BY <1>0
  <2>. QED
    BY <1>0, <1>4, <1>5, <2>1 DEF VariablesOK, SameSlots, SameScopes
<1>. QED
  BY <1>5, <1>6, <1>8, <1>9 DEF IInv, SameSlots

LEMMA InitEstablishesIInv == Init => IInv
<1>. SUFFICES ASSUME Init PROVE IInv
  OBVIOUS
<1>0. /\ upvals = <<>> /\ open = <<>> /\ frames = <<>>
      /\ Len(upvals) = 0 /\ Len(open) = 0 /\ Len(frames) = 0
  BY DEF Init
<1>1. MemoryOK
  <2>1. PICK v \in Val : memory = << [p \in 1 .. STACKSIZE |-> v] >>
    BY DEF Init
  <2>2. [p \in 1 .. STACKSIZE |-> v] \in Seq(Val)
    BY BoundAssumption
  <2>. QED
    BY <2>1, <2>2 DEF MemoryOK
<1>2. OpenOK
  BY <1>0 DEF OpenOK, OpenAreInScope
<1>. QED
  BY <1>0, <1>1, <1>2 DEF IInv, UpvalsOK, PointersOK, FramesOK, VariablesOK

LEMMA StutterKeepsIInv == IInv /\ UNCHANGED vars => IInv'
<1>. SUFFICES ASSUME IInv, UNCHANGED vars PROVE IInv'
  OBVIOUS
<1>1. UNCHANGED <<memory, upvals, open, frames>>
  BY DEF vars
<1>2. MemoryOK' /\ UpvalsOK' /\ PointersOK' /\ VariablesOK'
  BY <1>1 DEF IInv, MemoryOK, UpvalsOK, PointersOK, VariablesOK
<1>3. OpenOK' /\ FramesOK'
  BY <1>1 DEF IInv, OpenOK, OpenAreInScope, Slot, FramesOK, Stack, Now
<1>. QED
  BY <1>2, <1>3 DEF IInv

LEMMA NextKeepsIInv == IInv /\ [Next]_vars => IInv'
BY DeclareKeepsIInv, AssignKeepsIInv, SetUpvalKeepsIInv, CaptureKeepsIInv, LeaveBlockKeepsIInv,
   CallKeepsIInv, ReturnKeepsIInv, ErrorKeepsIInv, StutterKeepsIInv DEF Next

LEMMA IInvHolds == Spec => []IInv
BY InitEstablishesIInv, NextKeepsIInv, PTL DEF Spec
-----------------------------------------------------------------------------
(* The theorems *)

\* Whatever is captured in whichever order, and however blocks, functions and
\* protected calls end, the list that correctstack walks holds the captured
\* variables in scope and no other.
THEOREM ListHoldsVariablesInScope == Spec => []OpenAreInScope
<1>1. IInv => OpenAreInScope
  BY DEF IInv, OpenOK
<1>. QED
  BY <1>1, IInvHolds, PTL

\* An upvalue whose variable is in scope points to it, in the present stack,
\* through any number of reallocations.
THEOREM UpvaluesFollowVariables == Spec => []PointsToVariable
<1>1. IInv => PointsToVariable
  <2>. SUFFICES ASSUME IInv PROVE PointsToVariable
    OBVIOUS
  <2>1. DOMAIN upvals = 1 .. Len(upvals) /\ DOMAIN frames = 1 .. Len(frames)
    BY UpvalTypes, FrameTypes DEF IInv
  <2>. QED
    BY <2>1 DEF IInv, VariablesOK, PointsToVariable, Slot, Now
<1>. QED
  BY <1>1, IInvHolds, PTL

\* The stack has a slot for every variable of every frame, and every upvalue,
\* open or closed, points to a slot: dGrowStack makes the stack large enough.
SlotsExist ==
  /\ PointersOK
  /\ \A f \in 1 .. Len(frames) : \A i \in 0 .. frames[f].n - 1 :
       frames[f].base + i \in 1 .. Len(Stack)

THEOREM NoSlotIsMissing == Spec => []SlotsExist
<1>1. IInv => SlotsExist
  <2>. SUFFICES ASSUME IInv, NEW f \in 1 .. Len(frames), NEW i \in 0 .. frames[f].n - 1
                PROVE  PointersOK /\ frames[f].base + i \in 1 .. Len(Stack)
    BY DEF SlotsExist, IInv
  <2>1. /\ frames[f].base \in Nat /\ frames[f].n \in Nat /\ frames[f].base > 1
        /\ frames[f].n <= MAXVARS /\ frames[f].base + MAXVARS <= Len(Stack) + 1
    BY FrameTypes DEF IInv, FramesOK
  <2>2. Len(Stack) \in Nat /\ MAXVARS \in Nat
    BY NowExists, BoundAssumption DEF IInv
  <2>. QED
    BY <2>1, <2>2, SMTT(20) DEF IInv
<1>. QED
  BY <1>1, IInvHolds, PTL
=============================================================================
