-------------------------- MODULE LuaTokens_proofs --------------------------
(***************************************************************************)
(* Proofs that LuaLexer implements LuaTokens: the tokens that the parser   *)
(* gets are those of the text by their definitions on its positions.       *)
(*                                                                         *)
(* The tokens owed from a position on (Owed) are fixed by the element      *)
(* there; Between says of each loop of llex how far it has come in that    *)
(* element, what it has in its buffer, and that the end of the element by  *)
(* its definition is the one that is seen from where llex stands.          *)
(***************************************************************************)
EXTENDS LuaLexer_proofs, FiniteSetTheorems

-----------------------------------------------------------------------------
(* Positions of a text *)

LEMMA CharsAt ==
  ASSUME NEW w \in Seq(Char), NEW p \in Nat \ {0}
  PROVE  /\ Len(w) \in Nat
         /\ p <= Len(w) => CharAt(w, p) = w[p] /\ w[p] \in Char /\ CharAt(w, p) # EOZ
         /\ p > Len(w) => CharAt(w, p) = EOZ
<1>1. Len(w) \in Nat
  OBVIOUS
<1>2. p <= Len(w) => w[p] \in Char
  BY <1>1
<1>. QED
  BY <1>1, <1>2, CharsAre DEF CharAt

LEMMA AfterIs ==
  ASSUME NEW w \in Seq(Char), NEW i \in 1 .. Len(w) + 1, NEW S, EOZ \notin S
  PROVE  /\ After(w, i, S) \in i .. Len(w) + 1 /\ CharAt(w, After(w, i, S)) \notin S
         /\ \A h \in i .. After(w, i, S) - 1 : w[h] \in S
<1>. DEFINE N == {j \in i .. Len(w) + 1 : CharAt(w, j) \notin S}
<1>1. Len(w) \in Nat /\ i \in Nat /\ i >= 1 /\ i <= Len(w) + 1
  OBVIOUS
<1>2. CharAt(w, Len(w) + 1) = EOZ
  BY <1>1, CharsAt
<1>3. N \in SUBSET Nat /\ Len(w) + 1 \in N
  BY <1>1, <1>2
<1>4. PICK m \in N : \A k \in N : m <= k
  BY <1>3, LeastNumber
<1>5. m \in i .. Len(w) + 1 /\ CharAt(w, m) \notin S
  BY <1>4
<1>6. ASSUME NEW h \in i .. m - 1 PROVE w[h] \in S
  <2>1. h \in Nat \ {0} /\ h <= Len(w) /\ h < m /\ h \in i .. Len(w) + 1
    BY <1>1, <1>5
  <2>2. CharAt(w, h) = w[h]
    BY <2>1, CharsAt
  <2>3. h \notin N
    BY <1>4, <2>1
  <2>. QED
    BY <2>1, <2>2, <2>3
<1>7. \E j \in i .. Len(w) + 1 : CharAt(w, j) \notin S /\ \A h \in i .. j - 1 : w[h] \in S
  BY <1>5, <1>6
<1>. QED
  BY <1>7 DEF After

LEMMA AfterOnly ==
  ASSUME NEW w \in Seq(Char), NEW i \in 1 .. Len(w) + 1, NEW S, EOZ \notin S,
         NEW j \in i .. Len(w) + 1, CharAt(w, j) \notin S, \A h \in i .. j - 1 : w[h] \in S
  PROVE  After(w, i, S) = j
<1>. DEFINE a == After(w, i, S)
<1>1. /\ a \in i .. Len(w) + 1 /\ CharAt(w, a) \notin S /\ \A h \in i .. a - 1 : w[h] \in S
  BY AfterIs
<1>2. Len(w) \in Nat /\ a \in Nat \ {0} /\ j \in Nat \ {0} /\ i \in Nat
  BY <1>1
<1>. HIDE DEF a
<1>3. ~(j < a)
  <2>. SUFFICES ASSUME j < a PROVE FALSE
    OBVIOUS
  <2>1. j \in i .. a - 1 /\ j <= Len(w)
    BY <1>1, <1>2
  <2>. QED
    BY <1>1, <1>2, <2>1, CharsAt
<1>4. ~(a < j)
  <2>. SUFFICES ASSUME a < j PROVE FALSE
    OBVIOUS
  <2>1. a \in i .. j - 1 /\ a <= Len(w)
    BY <1>1, <1>2
  <2>. QED
    BY <1>1, <1>2, <2>1, CharsAt
<1>5. a = j
  BY <1>2, <1>3, <1>4
<1>. QED
  BY <1>5 DEF a

LEMMA AfterStep ==
  ASSUME NEW w \in Seq(Char), NEW i \in 1 .. Len(w) + 1, NEW S, EOZ \notin S
  PROVE  /\ CharAt(w, i) \in S => i + 1 \in 1 .. Len(w) + 1 /\ After(w, i, S) = After(w, i + 1, S)
         /\ CharAt(w, i) \notin S => After(w, i, S) = i
<1>1. Len(w) \in Nat /\ i \in Nat \ {0}
  OBVIOUS
<1>2. CASE CharAt(w, i) \in S
  <2>1. i <= Len(w) /\ w[i] \in S
    BY <1>1, <1>2, CharsAt
  <2>2. i + 1 \in 1 .. Len(w) + 1
    BY <1>1, <2>1
  <2>. DEFINE a == After(w, i + 1, S)
  <2>3. a \in i + 1 .. Len(w) + 1 /\ CharAt(w, a) \notin S /\ \A h \in i + 1 .. a - 1 : w[h] \in S
    BY <2>2, AfterIs
  <2>. HIDE DEF a
  <2>4. a \in i .. Len(w) + 1 /\ \A h \in i .. a - 1 : w[h] \in S
    BY <1>1, <2>1, <2>3
  <2>5. After(w, i, S) = a
    BY <2>3, <2>4, AfterOnly
  <2>. QED
    BY <1>2, <2>2, <2>5 DEF a
<1>3. CASE CharAt(w, i) \notin S
  <2>1. i \in i .. Len(w) + 1 /\ \A h \in i .. i - 1 : w[h] \in S
    BY <1>1
  <2>2. After(w, i, S) = i
    BY <1>3, <2>1, AfterOnly
  <2>. QED
    BY <1>3, <2>2
<1>. QED
  BY <1>2, <1>3

LEMMA FirstIs ==
  ASSUME NEW w \in Seq(Char), NEW i \in 1 .. Len(w) + 1, NEW P
  PROVE  LET f == First(w, i, P)
         IN f \in i .. Len(w) + 1 /\ (f > Len(w) \/ f \in P) /\ \A h \in i .. f - 1 : h \notin P
<1>. DEFINE N == {j \in i .. Len(w) + 1 : j > Len(w) \/ j \in P}
<1>1. Len(w) \in Nat /\ i \in Nat /\ i >= 1 /\ i <= Len(w) + 1
  OBVIOUS
<1>2. N \in SUBSET Nat /\ Len(w) + 1 \in N
  BY <1>1
<1>3. PICK m \in N : \A k \in N : m <= k
  BY <1>2, LeastNumber
<1>4. m \in i .. Len(w) + 1 /\ (m > Len(w) \/ m \in P)
  BY <1>3
<1>5. \A h \in i .. m - 1 : h \notin P
  BY <1>1, <1>3, <1>4
<1>6. \E j \in i .. Len(w) + 1 : (j > Len(w) \/ j \in P) /\ \A h \in i .. j - 1 : h \notin P
  BY <1>4, <1>5
<1>. QED
  BY <1>6 DEF First

LEMMA FirstOnly ==
  ASSUME NEW w \in Seq(Char), NEW i \in 1 .. Len(w) + 1, NEW P,
         NEW j \in i .. Len(w) + 1, j > Len(w) \/ j \in P, \A h \in i .. j - 1 : h \notin P
  PROVE  First(w, i, P) = j
<1>. DEFINE f == First(w, i, P)
<1>1. f \in i .. Len(w) + 1 /\ (f > Len(w) \/ f \in P) /\ \A h \in i .. f - 1 : h \notin P
  BY FirstIs
<1>2. Len(w) \in Nat /\ f \in Nat /\ j \in Nat /\ i \in Nat
  BY <1>1
<1>. HIDE DEF f
<1>3. ~(j < f)
  BY <1>1, <1>2
<1>4. ~(f < j)
  BY <1>1, <1>2
<1>5. f = j
  BY <1>2, <1>3, <1>4
<1>. QED
  BY <1>5 DEF f

LEMMA FirstStep ==
  ASSUME NEW w \in Seq(Char), NEW i \in 1 .. Len(w) + 1, NEW P
  PROVE  /\ i <= Len(w) /\ i \notin P => First(w, i, P) = First(w, i + 1, P)
         /\ i > Len(w) \/ i \in P => First(w, i, P) = i
<1>1. Len(w) \in Nat /\ i \in Nat \ {0}
  OBVIOUS
<1>2. CASE i <= Len(w) /\ i \notin P
  <2>1. i + 1 \in 1 .. Len(w) + 1
    BY <1>1, <1>2
  <2>. DEFINE f == First(w, i + 1, P)
  <2>2. f \in i + 1 .. Len(w) + 1 /\ (f > Len(w) \/ f \in P) /\ \A h \in i + 1 .. f - 1 : h \notin P
    BY <2>1, FirstIs
  <2>. HIDE DEF f
  <2>3. f \in i .. Len(w) + 1 /\ \A h \in i .. f - 1 : h \notin P
    BY <1>1, <1>2, <2>2
  <2>4. First(w, i, P) = f
    BY <2>2, <2>3, FirstOnly
  <2>. QED
    BY <1>2, <2>4 DEF f
<1>3. CASE i > Len(w) \/ i \in P
  <2>1. i \in i .. Len(w) + 1 /\ \A h \in i .. i - 1 : h \notin P
    BY <1>1
  <2>2. First(w, i, P) = i
    BY <1>3, <2>1, FirstOnly
  <2>. QED
    BY <1>3, <2>2
<1>. QED
  BY <1>2, <1>3
-----------------------------------------------------------------------------
(* Breaks of lines *)

LEMMA SecondIs ==
  ASSUME NEW w \in Seq(Char), NEW p \in 1 .. Len(w)
  PROVE  Second(w)[p] <=> p > 1 /\ {w[p], w[p - 1]} = Newlines /\ ~Second(w)[p - 1]
<1>. DEFINE B(f, q) == q > 1 /\ {w[q], w[q - 1]} = Newlines /\ ~f[q - 1]
            E == {m \in Nat : \E f : f = [q \in 1 .. m |-> B(f, q)]}
<1>1. 0 \in E
  <2>. DEFINE f == [q \in 1 .. 0 |-> TRUE]
  <2>1. f = [q \in 1 .. 0 |-> B(f, q)]
    OBVIOUS
  <2>. QED
    BY <2>1
<1>2. ASSUME NEW m \in E PROVE m + 1 \in E
  <2>1. PICK f : f = [q \in 1 .. m |-> B(f, q)]
    OBVIOUS
  <2>. DEFINE g == [q \in 1 .. m + 1 |-> B(f, q)]
  <2>2. ASSUME NEW q \in 1 .. m + 1 PROVE B(f, q) = B(g, q)
    <3>1. CASE q > 1
      <4>1. q - 1 \in 1 .. m /\ q - 1 \in 1 .. m + 1
        BY <3>1
      <4>2. f[q - 1] = B(f, q - 1)
        BY <2>1, <4>1
      <4>3. g[q - 1] = B(f, q - 1)
        BY <4>1
      <4>. QED
        BY <4>2, <4>3
    <3>. QED
      BY <3>1
  <2>3. g = [q \in 1 .. m + 1 |-> B(g, q)]
    BY <2>2
  <2>. HIDE DEF g, B
  <2>4. \E h : h = [q \in 1 .. m + 1 |-> B(h, q)]
    BY <2>3
  <2>. QED
    BY <2>4
<1>3. E = Nat
  <2>1. E \in SUBSET Nat
    OBVIOUS
  <2>. HIDE DEF E
  <2>. QED
    BY <1>1, <1>2, <2>1, Induct
<1>4. PICK f : f = [q \in 1 .. Len(w) |-> B(f, q)]
  <2>1. Len(w) \in E
    BY <1>3
  <2>. QED
    BY <2>1
<1>5. Second(w) = [q \in 1 .. Len(w) |-> B(Second(w), q)]
  BY <1>4 DEF Second
<1>6. Second(w)[p] = B(Second(w), p)
  BY <1>5
<1>. QED
  BY <1>6

\* No position is reached between the two characters of a line break.
Clean(w, p) == p <= Len(w) => ~Second(w)[p]

LEMMA NewlinePair ==
  ASSUME NEW a, NEW b
  PROVE  /\ {b, a} = Newlines => a \in Newlines /\ b \in Newlines /\ a # b
         /\ a \in Newlines /\ b \in Newlines /\ a # b => {b, a} = Newlines
BY DEF Newlines

LEMMA SecondAfter ==
  ASSUME NEW w \in Seq(Char), NEW p \in 1 .. Len(w), p + 1 <= Len(w)
  PROVE  /\ w[p] \notin Newlines => ~Second(w)[p + 1]
         /\ Second(w)[p] => ~Second(w)[p + 1]
         /\ w[p] \in Newlines /\ ~Second(w)[p]
              => (Second(w)[p + 1] <=> w[p + 1] \in Newlines /\ w[p + 1] # w[p])
<1>1. p + 1 \in 1 .. Len(w) /\ p + 1 > 1 /\ p + 1 - 1 = p
  OBVIOUS
<1>2. Second(w)[p + 1] <=> {w[p + 1], w[p]} = Newlines /\ ~Second(w)[p]
  <2>. DEFINE q == p + 1
  <2>1. q \in 1 .. Len(w) /\ q > 1 /\ q - 1 = p
    BY <1>1
  <2>. HIDE DEF q
  <2>2. Second(w)[q] <=> q > 1 /\ {w[q], w[q - 1]} = Newlines /\ ~Second(w)[q - 1]
    BY <2>1, SecondIs
  <2>3. Second(w)[q] <=> {w[q], w[p]} = Newlines /\ ~Second(w)[p]
    BY <2>1, <2>2
  <2>. QED
    BY <2>3 DEF q
<1>3. w[p] \in Newlines /\ w[p + 1] \in Newlines /\ w[p + 1] # w[p] <=> {w[p + 1], w[p]} = Newlines
  <2>. DEFINE a == w[p]  b == w[p + 1]
  <2>. HIDE DEF a, b
  <2>1. a \in Newlines /\ b \in Newlines /\ b # a <=> {b, a} = Newlines
    <3>1. {b, a} = Newlines => a \in Newlines /\ b \in Newlines /\ a # b
      BY NewlinePair
    <3>2. a \in Newlines /\ b \in Newlines /\ a # b => {b, a} = Newlines
      BY NewlinePair
    <3>. QED
      BY <3>1, <3>2
  <2>. QED
    BY <2>1 DEF a, b
<1>. QED
  BY <1>2, <1>3

LEMMA LineTypes ==
  ASSUME NEW w \in Seq(Char), NEW p \in Nat
  PROVE  /\ IsFiniteSet({q \in Breaks(w) : q < p}) /\ Cardinality({q \in Breaks(w) : q < p}) \in Nat
         /\ Line(w, p) \in Nat
<1>. DEFINE B == {q \in Breaks(w) : q < p}
<1>1. Len(w) \in Nat /\ DOMAIN w = 1 .. Len(w)
  OBVIOUS
<1>2. B \subseteq 1 .. Len(w)
  BY <1>1 DEF Breaks
<1>3. IsFiniteSet(1 .. Len(w))
  BY <1>1, FS_Interval
<1>4. IsFiniteSet(B)
  BY <1>2, <1>3, FS_Subset
<1>5. Cardinality(B) \in Nat
  BY <1>4, FS_CardinalityType
<1>. QED
  BY <1>4, <1>5 DEF Line

LEMMA LineAfter ==
  ASSUME NEW w \in Seq(Char), NEW p \in 1 .. Len(w)
  PROVE  Line(w, p + 1) = IF p \in Breaks(w) THEN Line(w, p) + 1 ELSE Line(w, p)
<1>. DEFINE B == {q \in Breaks(w) : q < p}  C == {q \in Breaks(w) : q < p + 1}
<1>1. p \in Nat /\ Breaks(w) \subseteq Nat /\ IsFiniteSet(B) /\ Cardinality(B) \in Nat
  BY LineTypes DEF Breaks
<1>2. CASE p \in Breaks(w)
  <2>1. C = B \cup {p} /\ p \notin B
    BY <1>1, <1>2
  <2>2. Cardinality(C) = Cardinality(B) + 1
    BY <1>1, <2>1, FS_AddElement
  <2>. QED
    BY <1>1, <1>2, <2>2 DEF Line
<1>3. CASE p \notin Breaks(w)
  <2>1. C = B
    BY <1>1, <1>3
  <2>. QED
    BY <1>3, <2>1 DEF Line
<1>. QED
  BY <1>2, <1>3

LEMMA LineAtStart ==
  ASSUME NEW w \in Seq(Char) PROVE Line(w, 1) = 1 /\ Clean(w, 1)
<1>1. Breaks(w) \subseteq 1 .. Len(w)
  BY DEF Breaks
<1>2. {q \in Breaks(w) : q < 1} = {}
  BY <1>1
<1>3. Line(w, 1) = 1
  <2>1. Cardinality({q \in Breaks(w) : q < 1}) = 0
    BY <1>2, FS_EmptySet, Zenon
  <2>. QED
    BY <2>1 DEF Line
<1>4. ASSUME 1 <= Len(w) PROVE ~Second(w)[1]
  <2>1. 1 \in 1 .. Len(w)
    BY <1>4
  <2>2. Second(w)[1] => 1 > 1
    BY <2>1, SecondIs
  <2>. QED
    BY <2>2
<1>. QED
  BY <1>3, <1>4 DEF Clean

\* Behind a character that is no newline, and behind a line break.
LEMMA CleanAfter ==
  ASSUME NEW w \in Seq(Char), NEW p \in 1 .. Len(w), w[p] \notin Newlines
  PROVE  p + 1 \in 1 .. Len(w) + 1 /\ Clean(w, p + 1) /\ Line(w, p + 1) = Line(w, p)
<1>1. p \notin Breaks(w)
  BY DEF Breaks
<1>. QED
  BY <1>1, SecondAfter, LineAfter DEF Clean

LEMMA BreakEnds ==
  ASSUME NEW w \in Seq(Char), NEW p \in 1 .. Len(w), w[p] \in Newlines, Clean(w, p)
  PROVE  LET pair == CharAt(w, p + 1) \in Newlines /\ CharAt(w, p + 1) # w[p]
             e == PastBreak(w, p)
         IN /\ p \in Breaks(w)
            /\ pair => p + 1 \in 1 .. Len(w) /\ p + 1 \notin Breaks(w) /\ e = p + 2
            /\ ~pair => e = p + 1
            /\ e \in p + 1 .. Len(w) + 1 /\ Clean(w, e) /\ Line(w, e) = Line(w, p) + 1
<1>. DEFINE pair == CharAt(w, p + 1) \in Newlines /\ CharAt(w, p + 1) # w[p]  e == PastBreak(w, p)
<1>1. Len(w) \in Nat /\ p \in Nat \ {0} /\ p <= Len(w) /\ DOMAIN w = 1 .. Len(w) /\ ~Second(w)[p]
  BY DEF Clean
<1>2. p \in Breaks(w)
  BY <1>1 DEF Breaks
<1>3. Line(w, p + 1) = Line(w, p) + 1
  BY <1>2, LineAfter
<1>4. EOZ \notin Newlines
  BY DEF EOZ, Newlines
<1>5. CASE p + 1 <= Len(w)
  <2>1. CharAt(w, p + 1) = w[p + 1] /\ p + 1 \in 1 .. Len(w) /\ p < Len(w)
    BY <1>1, <1>5, CharsAt
  <2>2. Second(w)[p + 1] <=> pair
    BY <1>1, <1>5, <2>1, SecondAfter
  <2>3. CASE pair
    <3>1. e = p + 2 /\ p + 1 \notin Breaks(w)
      BY <2>1, <2>2, <2>3 DEF PastBreak, Breaks
    <3>2. Line(w, p + 1 + 1) = Line(w, p + 1) /\ p + 1 + 1 = p + 2
      BY <2>1, <3>1, LineAfter
    <3>3. p + 2 <= Len(w) => ~Second(w)[p + 1 + 1]
      BY <1>1, <2>1, <2>2, <2>3, SecondAfter
    <3>. QED
      BY <1>1, <1>2, <1>3, <2>1, <2>3, <3>1, <3>2, <3>3 DEF Clean
  <2>4. CASE ~pair
    <3>1. e = p + 1
      BY <2>1, <2>2, <2>4 DEF PastBreak
    <3>. QED
      BY <1>1, <1>2, <1>3, <2>1, <2>2, <2>4, <3>1 DEF Clean
  <2>. QED
    BY <2>3, <2>4
<1>6. CASE p + 1 > Len(w)
  <2>1. CharAt(w, p + 1) = EOZ /\ ~(p < Len(w))
    BY <1>1, <1>6, CharsAt
  <2>2. e = p + 1 /\ ~pair
    BY <1>4, <2>1 DEF PastBreak
  <2>. QED
    BY <1>1, <1>2, <1>3, <1>6, <2>2 DEF Clean
<1>. QED
  BY <1>1, <1>5, <1>6
-----------------------------------------------------------------------------
(* Where the analyser stands in the text *)

Taken(w, p) == IF p <= Len(w) THEN p ELSE Len(w)

Placed(z, w, p) ==
  /\ TextAt(z, w) /\ p \in 1 .. Len(w) + 1
  /\ z.c = CharAt(w, p) /\ z.taken = Taken(w, p)

Stands(l, w, p) ==
  /\ IsLex(l) /\ Placed(l.z, w, p) /\ Clean(w, p)
  /\ l.lineNumber = Line(w, p)

LEMMA GetChPlaces ==
  ASSUME NEW w \in Seq(Char), NEW z, StreamAt(z, w, z.taken), z.n \in Nat
  PROVE  Placed(GetCh(z), w, z.taken + 1)
<1>. DEFINE g == GetCh(z)  k == z.taken
<1>1. k \in Nat /\ Len(w) \in Nat /\ k <= Len(w)
  BY TextTypes
<1>2. GetsNext(g, z, w, k)
  BY <1>1, GetChDelivers
<1>3. TextAt(g, w)
  BY GetChReads
<1>. HIDE DEF g, k
<1>4. k + 1 \in Nat \ {0} /\ k + 1 \in 1 .. Len(w) + 1
  BY <1>1
<1>5. CASE k = Len(w)
  <2>1. g.c = EOZ /\ g.taken = k
    BY <1>1, <1>2, <1>5 DEF GetsNext, k
  <2>2. CharAt(w, k + 1) = EOZ /\ ~(k + 1 <= Len(w))
    BY <1>1, <1>4, <1>5, CharsAt
  <2>. QED
    BY <1>3, <1>4, <1>5, <2>1, <2>2 DEF Placed, Taken, g, k
<1>6. CASE k # Len(w)
  <2>1. g.c = w[k + 1] /\ g.taken = k + 1
    BY <1>1, <1>2, <1>6 DEF GetsNext, k
  <2>2. k + 1 <= Len(w)
    BY <1>1, <1>6
  <2>3. CharAt(w, k + 1) = w[k + 1]
    BY <1>4, <2>2, CharsAt
  <2>. QED
    BY <1>3, <1>4, <2>1, <2>2, <2>3 DEF Placed, Taken, g, k
<1>. QED
  BY <1>5, <1>6

LEMMA NextPlaces ==
  ASSUME NEW w \in Seq(Char), NEW z, NEW p \in 1 .. Len(w), Placed(z, w, p)
  PROVE  Placed(GetCh(z), w, p + 1) /\ z.c = w[p] /\ w[p] \in Char /\ z.c # EOZ
<1>1. Len(w) \in Nat /\ p \in Nat \ {0} /\ p <= Len(w)
  OBVIOUS
<1>2. z.c = w[p] /\ w[p] \in Char /\ z.c # EOZ /\ z.taken = p
  BY <1>1, CharsAt DEF Placed, Taken
<1>3. StreamAt(z, w, z.taken) /\ z.n \in Nat
  BY <1>2 DEF Placed, TextAt
<1>. QED
  BY <1>2, <1>3, GetChPlaces

\* All but the place and the buffer.
Alike(m, l) ==
  /\ m.lastLine = l.lastLine /\ m.t = l.t /\ m.lookAhead = l.lookAhead /\ m.ahead = l.ahead
  /\ m.mode = l.mode /\ m.caller = l.caller /\ m.bracket = l.bracket /\ m.count = l.count
  /\ m.sep = l.sep /\ m.comment = l.comment /\ m.del = l.del /\ m.code = l.code

LEMMA NextStands ==
  ASSUME NEW w \in Seq(Char), NEW l, NEW p \in 1 .. Len(w), Stands(l, w, p), w[p] \notin Newlines
  PROVE  /\ Stands(NextChar(l), w, p + 1) /\ Alike(NextChar(l), l) /\ NextChar(l).buff = l.buff
         /\ Stands(SaveAndNext(l), w, p + 1) /\ Alike(SaveAndNext(l), l)
         /\ SaveAndNext(l).buff = Append(l.buff, w[p])
<1>. DEFINE g == GetCh(l.z)  m == NextChar(l)  s == Save(l, Current(l))  n == SaveAndNext(l)
<1>1. Placed(g, w, p + 1) /\ l.z.c = w[p]
  BY NextPlaces DEF Stands
<1>2. Clean(w, p + 1) /\ Line(w, p + 1) = Line(w, p)
  BY CleanAfter
<1>3. m = [l EXCEPT !.z = g]
  BY DEF NextChar
<1>4. s = [l EXCEPT !.buff = Append(l.buff, w[p])] /\ n = NextChar(s)
  BY <1>1 DEF Save, Current, SaveAndNext
<1>. HIDE DEF m, s, n, g
<1>5. IsLex(m) /\ m.z = g /\ m.lineNumber = l.lineNumber /\ Alike(m, l) /\ m.buff = l.buff
  BY <1>3 DEF Stands, IsLex, LexFields, Alike
<1>6. /\ IsLex(s) /\ s.z = l.z /\ s.lineNumber = l.lineNumber /\ Alike(s, l)
      /\ s.buff = Append(l.buff, w[p])
  BY <1>4 DEF Stands, IsLex, LexFields, Alike
<1>7. n = [s EXCEPT !.z = g]
  BY <1>4, <1>6 DEF NextChar, g
<1>8. IsLex(n) /\ n.z = g /\ n.lineNumber = s.lineNumber /\ Alike(n, s) /\ n.buff = s.buff
  BY <1>6, <1>7 DEF IsLex, LexFields, Alike
<1>9. Stands(m, w, p + 1) /\ Alike(m, l) /\ m.buff = l.buff
  BY <1>1, <1>2, <1>5 DEF Stands
<1>10. Stands(n, w, p + 1) /\ Alike(n, l) /\ n.buff = Append(l.buff, w[p])
  BY <1>1, <1>2, <1>6, <1>8 DEF Stands, Alike
<1>. QED
  BY <1>9, <1>10 DEF m, n

Saved(m, l, c) == Alike(m, l) /\ m.buff = Append(l.buff, c)

LEMMA SaveStands ==
  ASSUME NEW w, NEW l, NEW p, NEW c, Stands(l, w, p)
  PROVE  Stands(Save(l, c), w, p) /\ Saved(Save(l, c), l, c)
<1>. DEFINE s == Save(l, c)
<1>1. s = [l EXCEPT !.buff = Append(l.buff, c)]
  BY DEF Save
<1>. HIDE DEF s
<1>2. /\ IsLex(s) /\ s.z = l.z /\ s.lineNumber = l.lineNumber /\ Alike(s, l)
      /\ s.buff = Append(l.buff, c)
  BY <1>1 DEF Stands, IsLex, LexFields, Alike
<1>. QED
  BY <1>2 DEF Stands, s, Saved

LEMMA ResetStands ==
  ASSUME NEW w, NEW l, NEW p, Stands(l, w, p)
  PROVE  Stands(Reset(l), w, p) /\ Alike(Reset(l), l) /\ Reset(l).buff = <<>>
<1>. DEFINE r == Reset(l)
<1>1. r = [l EXCEPT !.buff = <<>>]
  BY DEF Reset
<1>. HIDE DEF r
<1>2. /\ IsLex(r) /\ r.z = l.z /\ r.lineNumber = l.lineNumber /\ Alike(r, l) /\ r.buff = <<>>
  BY <1>1 DEF Stands, IsLex, LexFields, Alike
<1>. QED
  BY <1>2 DEF Stands, r

LEMMA IncStands ==
  ASSUME NEW w \in Seq(Char), NEW l, NEW p \in 1 .. Len(w), Stands(l, w, p), w[p] \in Newlines
  PROVE  /\ Stands(IncLineNumber(l), w, PastBreak(w, p)) /\ Alike(IncLineNumber(l), l)
         /\ IncLineNumber(l).buff = l.buff
<1>. DEFINE first == NextChar(l)  g == GetCh(l.z)  h == GetCh(g)
            c == CharAt(w, p + 1)  pair == c \in Newlines /\ c # w[p]
            after == IF pair THEN NextChar(first) ELSE first
            e == PastBreak(w, p)  m == IncLineNumber(l)
<1>1. Placed(g, w, p + 1) /\ l.z.c = w[p]
  BY NextPlaces DEF Stands
<1>2. first = [l EXCEPT !.z = g]
  BY DEF NextChar
<1>. HIDE DEF g, first
<1>3. /\ IsLex(first) /\ first.z = g /\ first.lineNumber = l.lineNumber /\ Alike(first, l)
      /\ first.buff = l.buff
  BY <1>2 DEF Stands, IsLex, LexFields, Alike
<1>4. g.c = c
  BY <1>1 DEF Placed
<1>5. m = [after EXCEPT !.lineNumber = @ + 1]
  BY <1>1, <1>3, <1>4 DEF IncLineNumber, At, Current, first
<1>6. Clean(w, p)
  BY DEF Stands
<1>7. /\ pair => p + 1 \in 1 .. Len(w) /\ e = p + 2
      /\ ~pair => e = p + 1
      /\ Clean(w, e) /\ Line(w, e) = Line(w, p) + 1
  BY <1>6, BreakEnds
<1>. HIDE DEF e, m, c
<1>8. /\ IsLex(after) /\ Placed(after.z, w, e) /\ after.lineNumber = l.lineNumber
      /\ Alike(after, l) /\ after.buff = l.buff
  <2>1. CASE pair
    <3>1. Placed(h, w, p + 1 + 1) /\ p + 1 + 1 = p + 2
      BY <1>1, <1>7, <2>1, NextPlaces
    <3>2. after = [first EXCEPT !.z = h]
      BY <1>3, <2>1 DEF NextChar
    <3>. HIDE DEF h, after
    <3>3. /\ IsLex(after) /\ after.z = h /\ after.lineNumber = first.lineNumber /\ Alike(after, first)
          /\ after.buff = first.buff
      BY <1>3, <3>2 DEF IsLex, LexFields, Alike
    <3>. QED
      BY <1>3, <1>7, <2>1, <3>1, <3>3 DEF Alike
  <2>2. CASE ~pair
    BY <1>1, <1>3, <1>7, <2>2
  <2>. QED
    BY <2>1, <2>2
<1>. HIDE DEF after, pair
<1>9. /\ IsLex(m) /\ m.z = after.z /\ m.lineNumber = after.lineNumber + 1 /\ Alike(m, after)
      /\ m.buff = after.buff
  BY <1>5, <1>8 DEF IsLex, LexFields, Alike
<1>10. m.lineNumber = Line(w, e)
  BY <1>7, <1>8, <1>9 DEF Stands
<1>. QED
  BY <1>7, <1>8, <1>9, <1>10 DEF Stands, Alike, m, e

LEMMA StandsToo ==
  ASSUME NEW w, NEW l, NEW m, NEW p, Stands(l, w, p), IsLex(m), m.z = l.z, m.lineNumber = l.lineNumber
  PROVE  Stands(m, w, p)
BY DEF Stands

LEMMA StandsAt ==
  ASSUME NEW w \in Seq(Char), NEW l, NEW p, Stands(l, w, p)
  PROVE  /\ p \in 1 .. Len(w) + 1 /\ Len(w) \in Nat /\ l.z.c = CharAt(w, p)
         /\ \A S : At(l, S) <=> CharAt(w, p) \in S
         /\ p <= Len(w) => p \in 1 .. Len(w) /\ CharAt(w, p) = w[p] /\ w[p] \in Char /\ w[p] # EOZ
         /\ p > Len(w) => CharAt(w, p) = EOZ /\ p = Len(w) + 1
<1>1. Len(w) \in Nat /\ p \in 1 .. Len(w) + 1 /\ l.z.c = CharAt(w, p)
  BY DEF Stands, Placed
<1>. QED
  BY <1>1, CharsAt DEF At, Current

-----------------------------------------------------------------------------
(* Parts of a text *)

LEMMA SliceMore ==
  ASSUME NEW w \in Seq(Char), NEW a \in Nat \ {0}, NEW p \in Nat, a <= p, p <= Len(w)
  PROVE  /\ SubSeq(w, a, p - 1) \in Seq(Char) /\ SubSeq(w, a, p) = Append(SubSeq(w, a, p - 1), w[p])
<1>. DEFINE s == SubSeq(w, a, p - 1)  t == SubSeq(w, a, p)
<1>1. Len(w) \in Nat /\ w[p] \in Char /\ p - 1 \in Nat /\ a <= p - 1 + 1 /\ p - 1 <= Len(w)
  OBVIOUS
<1>2. s \in Seq(Char) /\ Len(s) = p - 1 - a + 1 /\ \A i \in 1 .. p - 1 - a + 1 : s[i] = w[a + i - 1]
  BY <1>1, SliceOf
<1>3. t \in Seq(Char) /\ Len(t) = p - a + 1 /\ \A i \in 1 .. p - a + 1 : t[i] = w[a + i - 1]
  BY <1>1, SliceOf
<1>. HIDE DEF s, t
<1>4. Append(s, w[p]) \in Seq(Char) /\ Len(Append(s, w[p])) = Len(s) + 1
  BY <1>1, <1>2, SMTT(20)
<1>5. Len(Append(s, w[p])) = Len(t)
  BY <1>2, <1>3, <1>4
<1>6. ASSUME NEW i \in 1 .. Len(t) PROVE t[i] = Append(s, w[p])[i]
  <2>1. CASE i <= Len(s)
    <3>1. i \in 1 .. Len(s) /\ i \in 1 .. p - 1 - a + 1
      BY <1>2, <2>1
    <3>2. Append(s, w[p])[i] = s[i]
      BY <1>1, <1>2, <3>1
    <3>. QED
      BY <1>2, <1>3, <3>1, <3>2
  <2>2. CASE i > Len(s)
    <3>1. i = Len(s) + 1 /\ a + i - 1 = p
      BY <1>2, <1>3, <2>2
    <3>2. Append(s, w[p])[i] = w[p]
      BY <1>1, <1>2, <3>1, SMTT(20)
    <3>. QED
      BY <1>3, <3>1, <3>2
  <2>3. i \in Nat /\ Len(s) \in Nat
    BY <1>2, <1>3
  <2>4. i <= Len(s) \/ i > Len(s)
    BY <2>3
  <2>. QED
    BY <2>1, <2>2, <2>4
<1>7. t = Append(s, w[p])
  BY <1>3, <1>4, <1>5, <1>6, SeqEqual
<1>. QED
  BY <1>2, <1>7 DEF s, t

LEMMA SliceNone ==
  ASSUME NEW w \in Seq(Char), NEW a \in Nat \ {0}, a <= Len(w) + 1
  PROVE  SubSeq(w, a, a - 1) = <<>>
<1>1. a - 1 \in Nat /\ a <= a - 1 + 1 /\ a - 1 <= Len(w) /\ a - 1 - a + 1 = 0
  OBVIOUS
<1>2. SubSeq(w, a, a - 1) \in Seq(Char) /\ Len(SubSeq(w, a, a - 1)) = 0
  BY <1>1, SliceOf
<1>. QED
  BY <1>2, EmptySeq

LEMMA PieceTypes ==
  ASSUME NEW w \in Seq(Char), NEW p \in 1 .. Len(w)
  PROVE  Piece(w, p) \in Seq(Char)
<1>1. w[p] \in Char
  OBVIOUS
<1>. QED
  BY <1>1, CharsAre DEF Piece

LEMMA ContentIs ==
  ASSUME NEW w \in Seq(Char), NEW i \in 1 .. Len(w) + 1
  PROVE  /\ Content(w, i, i) = <<>>
         /\ \A j \in i .. Len(w) : Content(w, i, j + 1) = Content(w, i, j) \o Piece(w, j)
<1>. DEFINE B(f, q) == IF q = i THEN <<>> ELSE f[q - 1] \o Piece(w, q - 1)
            E == {m \in Nat : \E f : f = [q \in i .. i + m |-> B(f, q)]}
<1>0. Len(w) \in Nat /\ i \in Nat
  OBVIOUS
<1>1. 0 \in E
  <2>. DEFINE f == [q \in i .. i + 0 |-> <<>>]
  <2>1. \A q \in i .. i + 0 : q = i
    BY <1>0
  <2>2. f = [q \in i .. i + 0 |-> B(f, q)]
    BY <2>1
  <2>. QED
    BY <2>2
<1>2. ASSUME NEW m \in E PROVE m + 1 \in E
  <2>1. PICK f : f = [q \in i .. i + m |-> B(f, q)]
    OBVIOUS
  <2>. DEFINE g == [q \in i .. i + (m + 1) |-> B(f, q)]
  <2>2. ASSUME NEW q \in i .. i + (m + 1) PROVE B(f, q) = B(g, q)
    <3>1. CASE q # i
      <4>1. q - 1 \in i .. i + m /\ q - 1 \in i .. i + (m + 1)
        BY <1>0, <3>1
      <4>2. f[q - 1] = B(f, q - 1)
        BY <2>1, <4>1
      <4>3. g[q - 1] = B(f, q - 1)
        BY <4>1
      <4>. QED
        BY <4>2, <4>3
    <3>. QED
      BY <3>1
  <2>3. g = [q \in i .. i + (m + 1) |-> B(g, q)]
    BY <2>2
  <2>. HIDE DEF g, B
  <2>4. \E h : h = [q \in i .. i + (m + 1) |-> B(h, q)]
    BY <2>3
  <2>. QED
    BY <2>4
<1>3. E = Nat
  <2>1. E \in SUBSET Nat
    OBVIOUS
  <2>. HIDE DEF E
  <2>. QED
    BY <1>1, <1>2, <2>1, Induct
<1>4. PICK f : f = [q \in i .. Len(w) + 1 |-> B(f, q)]
  <2>. DEFINE m == Len(w) + 1 - i
  <2>1. m \in Nat /\ i + m = Len(w) + 1
    BY <1>0
  <2>. HIDE DEF m
  <2>2. m \in E
    BY <1>3, <2>1
  <2>3. \E f : f = [q \in i .. i + m |-> B(f, q)]
    BY <2>2
  <2>. QED
    BY <2>1, <2>3
<1>. DEFINE C == Contents(w, i)
<1>5. C = [q \in i .. Len(w) + 1 |-> B(C, q)]
  BY <1>4 DEF Contents
<1>. HIDE DEF C
<1>6. C[i] = B(C, i)
  BY <1>0, <1>5
<1>7. ASSUME NEW j \in i .. Len(w) PROVE C[j + 1] = C[j] \o Piece(w, j)
  <2>1. j + 1 \in i .. Len(w) + 1 /\ j + 1 # i /\ j + 1 - 1 = j
    BY <1>0
  <2>2. C[j + 1] = B(C, j + 1)
    BY <1>5, <2>1
  <2>. QED
    BY <2>1, <2>2
<1>. QED
  BY <1>6, <1>7 DEF Content, C

LEMMA ContentTypes ==
  ASSUME NEW w \in Seq(Char), NEW i \in 1 .. Len(w) + 1, NEW j \in i .. Len(w) + 1
  PROVE  Content(w, i, j) \in Seq(Char)
<1>. DEFINE E == {m \in Nat : i + m <= Len(w) + 1 => Content(w, i, i + m) \in Seq(Char)}
<1>0. Len(w) \in Nat /\ i \in Nat /\ i + 0 = i
  OBVIOUS
<1>1. 0 \in E
  BY <1>0, ContentIs, NoneIsText
<1>2. ASSUME NEW m \in E PROVE m + 1 \in E
  <2>. SUFFICES ASSUME i + (m + 1) <= Len(w) + 1 PROVE Content(w, i, i + (m + 1)) \in Seq(Char)
    OBVIOUS
  <2>. DEFINE q == i + m
  <2>1. q \in i .. Len(w) /\ q \in 1 .. Len(w) /\ q + 1 = i + (m + 1) /\ q <= Len(w) + 1
    BY <1>0
  <2>. HIDE DEF q
  <2>2. Content(w, i, q) \in Seq(Char)
    BY <2>1 DEF q
  <2>3. Piece(w, q) \in Seq(Char)
    BY <2>1, PieceTypes
  <2>4. Content(w, i, q + 1) = Content(w, i, q) \o Piece(w, q)
    BY <2>1, ContentIs
  <2>5. Content(w, i, q + 1) \in Seq(Char)
    <3>. DEFINE a == Content(w, i, q)  b == Piece(w, q)
    <3>. HIDE DEF a, b
    <3>1. a \o b \in Seq(Char)
      BY <2>2, <2>3 DEF a, b
    <3>. QED
      BY <2>4, <3>1 DEF a, b
  <2>. QED
    BY <2>1, <2>5
<1>3. E = Nat
  <2>1. E \in SUBSET Nat
    OBVIOUS
  <2>. HIDE DEF E
  <2>. QED
    BY <1>1, <1>2, <2>1, Induct
<1>4. j - i \in Nat /\ i + (j - i) = j /\ j <= Len(w) + 1
  BY <1>0
<1>5. j - i \in E
  BY <1>3, <1>4
<1>. QED
  BY <1>4, <1>5

-----------------------------------------------------------------------------
(* Numbers of escapes *)

LEMMA DigitTypes == ASSUME NEW d PROVE DigitValue(d) \in Nat
BY DEF DigitValue

\* f is upTo of Decimal for the text s.
DecimalUpTo(s, f) ==
  f = [j \in 0 .. Len(s) |-> IF j = 0 THEN 0 ELSE 10 * f[j - 1] + DigitValue(s[j])]

LEMMA DecimalIs ==
  ASSUME NEW s \in Seq(Char)
  PROVE  \E f : DecimalUpTo(s, f) /\ Decimal(s) = f[Len(s)]
<1>. DEFINE B(f, q) == IF q = 0 THEN 0 ELSE 10 * f[q - 1] + DigitValue(s[q])
            E == {m \in Nat : \E f : f = [q \in 0 .. m |-> B(f, q)]}
<1>1. 0 \in E
  <2>. DEFINE f == [q \in 0 .. 0 |-> 0]
  <2>1. \A q \in 0 .. 0 : q = 0
    OBVIOUS
  <2>2. f = [q \in 0 .. 0 |-> B(f, q)]
    BY <2>1
  <2>. QED
    BY <2>2
<1>2. ASSUME NEW m \in E PROVE m + 1 \in E
  <2>1. PICK f : f = [q \in 0 .. m |-> B(f, q)]
    OBVIOUS
  <2>. DEFINE g == [q \in 0 .. m + 1 |-> B(f, q)]
  <2>2. ASSUME NEW q \in 0 .. m + 1 PROVE B(f, q) = B(g, q)
    <3>1. CASE q # 0
      <4>1. q - 1 \in 0 .. m /\ q - 1 \in 0 .. m + 1
        BY <3>1
      <4>. HIDE DEF B
      <4>2. f[q - 1] = B(f, q - 1)
        BY <2>1, <4>1
      <4>3. g[q - 1] = B(f, q - 1)
        BY <4>1
      <4>4. f[q - 1] = g[q - 1]
        BY <4>2, <4>3
      <4>. HIDE DEF g
      <4>. QED
        BY <4>4 DEF B
    <3>. QED
      BY <3>1
  <2>. HIDE DEF B
  <2>3. g = [q \in 0 .. m + 1 |-> B(g, q)]
    BY <2>2
  <2>. HIDE DEF g
  <2>4. \E h : h = [q \in 0 .. m + 1 |-> B(h, q)]
    BY <2>3
  <2>. QED
    BY <2>4
<1>3. E = Nat
  <2>1. E \in SUBSET Nat
    OBVIOUS
  <2>. HIDE DEF E
  <2>. QED
    BY <1>1, <1>2, <2>1, Induct
<1>4. \E f : f = [q \in 0 .. Len(s) |-> B(f, q)]
  <2>1. Len(s) \in E
    BY <1>3
  <2>. QED
    BY <2>1
<1>5. \E f : DecimalUpTo(s, f)
  BY <1>4 DEF DecimalUpTo
<1>6. DecimalUpTo(s, CHOOSE f : DecimalUpTo(s, f))
  BY <1>5
<1>7. Decimal(s) = (CHOOSE f : DecimalUpTo(s, f))[Len(s)]
  BY DEF Decimal, DecimalUpTo
<1>. QED
  BY <1>6, <1>7

LEMMA DecimalTypes ==
  ASSUME NEW s \in Seq(Char), NEW f, DecimalUpTo(s, f), NEW j \in 0 .. Len(s)
  PROVE  f[j] \in Nat
<1>. DEFINE E == {m \in Nat : m <= Len(s) => f[m] \in Nat}
<1>0. /\ Len(s) \in Nat
      /\ \A q \in 0 .. Len(s) : f[q] = IF q = 0 THEN 0 ELSE 10 * f[q - 1] + DigitValue(s[q])
  <2>. DEFINE B(q) == IF q = 0 THEN 0 ELSE 10 * f[q - 1] + DigitValue(s[q])
  <2>1. f = [q \in 0 .. Len(s) |-> B(q)]
    BY DEF DecimalUpTo
  <2>. HIDE DEF B
  <2>2. \A q \in 0 .. Len(s) : f[q] = B(q)
    BY <2>1
  <2>. QED
    BY <2>2 DEF B
<1>1. 0 \in E
  BY <1>0
<1>2. ASSUME NEW m \in E PROVE m + 1 \in E
  <2>. SUFFICES ASSUME m + 1 <= Len(s) PROVE f[m + 1] \in Nat
    OBVIOUS
  <2>1. f[m] \in Nat /\ m + 1 \in 0 .. Len(s) /\ m + 1 # 0 /\ m + 1 - 1 = m
    BY <1>0
  <2>2. f[m + 1] = 10 * f[m] + DigitValue(s[m + 1])
    BY <1>0, <2>1
  <2>3. DigitValue(s[m + 1]) \in Nat
    BY DigitTypes
  <2>. QED
    BY <2>1, <2>2, <2>3
<1>3. E = Nat
  <2>1. E \in SUBSET Nat
    OBVIOUS
  <2>. HIDE DEF E
  <2>. QED
    BY <1>1, <1>2, <2>1, Induct
<1>. QED
  BY <1>0, <1>3

LEMMA DecimalOfNone == Decimal(<<>>) = 0
<1>1. PICK f : DecimalUpTo(<<>>, f) /\ Decimal(<<>>) = f[Len(<<>>)]
  BY DecimalIs, NoneIsText
<1>2. Len(<<>>) = 0
  OBVIOUS
<1>3. f[0] = 0
  BY <1>1, <1>2 DEF DecimalUpTo
<1>. QED
  BY <1>1, <1>2, <1>3

LEMMA DecimalMore ==
  ASSUME NEW s \in Seq(Char), NEW d \in Char
  PROVE  /\ Decimal(s) \in Nat /\ Decimal(Append(s, d)) = 10 * Decimal(s) + DigitValue(d)
<1>. DEFINE t == Append(s, d)  n == Len(s)
<1>1. /\ t \in Seq(Char) /\ Len(t) = n + 1 /\ n \in Nat /\ t[n + 1] = d
      /\ \A j \in 1 .. n : t[j] = s[j]
  OBVIOUS
<1>. HIDE DEF t, n
<1>2. PICK f : DecimalUpTo(s, f) /\ Decimal(s) = f[n]
  BY DecimalIs DEF n
<1>3. PICK g : DecimalUpTo(t, g) /\ Decimal(t) = g[n + 1]
  BY <1>1, DecimalIs
<1>4. \A q \in 0 .. n : f[q] = IF q = 0 THEN 0 ELSE 10 * f[q - 1] + DigitValue(s[q])
  BY <1>2 DEF DecimalUpTo, n
<1>5. \A q \in 0 .. n + 1 : g[q] = IF q = 0 THEN 0 ELSE 10 * g[q - 1] + DigitValue(t[q])
  BY <1>1, <1>3 DEF DecimalUpTo
<1>. DEFINE E == {m \in Nat : m <= n => g[m] = f[m]}
<1>6. 0 \in E
  <2>1. 0 \in 0 .. n /\ 0 \in 0 .. n + 1
    BY <1>1
  <2>2. g[0] = 0 /\ f[0] = 0
    BY <1>4, <1>5, <2>1
  <2>. QED
    BY <2>2
<1>7. ASSUME NEW m \in E PROVE m + 1 \in E
  <2>. SUFFICES ASSUME m + 1 <= n PROVE g[m + 1] = f[m + 1]
    OBVIOUS
  <2>. DEFINE q == m + 1
  <2>1. g[m] = f[m] /\ q \in 0 .. n /\ q \in 0 .. n + 1 /\ q \in 1 .. n /\ q # 0 /\ q - 1 = m
    BY <1>1
  <2>. HIDE DEF q
  <2>2. g[q] = 10 * g[q - 1] + DigitValue(t[q])
    BY <1>5, <2>1
  <2>3. f[q] = 10 * f[q - 1] + DigitValue(s[q])
    BY <1>4, <2>1
  <2>4. t[q] = s[q]
    BY <1>1, <2>1
  <2>5. g[q - 1] = f[q - 1]
    BY <2>1
  <2>6. g[q] = f[q]
    BY <2>2, <2>3, <2>4, <2>5
  <2>. QED
    BY <2>6 DEF q
<1>8. E = Nat
  <2>1. E \in SUBSET Nat
    OBVIOUS
  <2>. HIDE DEF E
  <2>. QED
    BY <1>6, <1>7, <2>1, Induct
<1>9. g[n] = f[n]
  BY <1>1, <1>8
<1>10. n + 1 \in 0 .. n + 1 /\ n + 1 # 0 /\ n + 1 - 1 = n
  BY <1>1
<1>11. g[n + 1] = 10 * g[n] + DigitValue(d)
  BY <1>1, <1>5, <1>10
<1>12. f[n] \in Nat
  <2>1. n \in 0 .. Len(s)
    BY <1>1 DEF n
  <2>. QED
    BY <1>2, <2>1, DecimalTypes
<1>. QED
  BY <1>2, <1>3, <1>9, <1>11, <1>12 DEF t
-----------------------------------------------------------------------------
(* Strings *)

\* What the value of a string consists of.
Unit == Char \cup {Bell} \cup {Byte(v) : v \in Nat}

LEMMA PastBreakBound ==
  ASSUME NEW w \in Seq(Char), NEW p \in 1 .. Len(w)
  PROVE  PastBreak(w, p) \in p + 1 .. Len(w) + 1
<1>1. Len(w) \in Nat /\ p \in Nat /\ p <= Len(w)
  OBVIOUS
<1>. QED
  BY <1>1 DEF PastBreak

\* The digits of an escape, at most three, and their number.
EscapeDigits(w, j) == LET d == After(w, j + 1, Digits) - j - 1 IN IF d > 3 THEN 3 ELSE d
EscapeCode(w, j) == Decimal(SubSeq(w, j + 1, j + EscapeDigits(w, j)))

LEMMA EscapeIs ==
  ASSUME NEW w, NEW j
  PROVE  LET c == CharAt(w, j + 1)
         IN /\ c \in Newlines => EscapeAt(w, j) = Plain("part", <<"\n">>, PastBreak(w, j + 1))
            /\ c = EOZ => EscapeAt(w, j) = Plain("part", <<>>, j + 1)
            /\ c = "a" => EscapeAt(w, j) = Plain("part", <<Bell>>, j + 2)
            /\ c \in Digits /\ EscapeCode(w, j) > UCHAR_MAX
                 => EscapeAt(w, j) = Plain("error", "escape", j + 1 + EscapeDigits(w, j))
            /\ c \in Digits /\ ~(EscapeCode(w, j) > UCHAR_MAX)
                 => EscapeAt(w, j) = Plain("part", <<Byte(EscapeCode(w, j))>>, j + 1 + EscapeDigits(w, j))
            /\ c \notin Newlines \cup {EOZ, "a"} \cup Digits => EscapeAt(w, j) = Plain("part", <<c>>, j + 2)
<1>. DEFINE c == CharAt(w, j + 1)  n == EscapeDigits(w, j)  code == EscapeCode(w, j)
            digits == IF code > UCHAR_MAX THEN Error("escape", j + 1 + n)
                      ELSE Plain("part", <<Byte(code)>>, j + 1 + n)
<1>1. EscapeAt(w, j) =
        CASE c \in Newlines -> Plain("part", <<"\n">>, PastBreak(w, j + 1))
          [] c = EOZ -> Skipped(j + 1)
          [] c = "a" -> Plain("part", <<Bell>>, j + 2)
          [] c \in Digits -> digits
          [] c \notin Newlines \cup {EOZ, "a"} \cup Digits -> Plain("part", <<c>>, j + 2)
  BY DEF EscapeAt, EscapeDigits, EscapeCode
<1>. HIDE DEF c, n, code, digits
<1>2. c \in Newlines => c # EOZ /\ c # "a" /\ c \notin Digits
  BY DEF Newlines, EOZ, Digits
<1>3. EOZ # "a" /\ EOZ \notin Digits /\ "a" \notin Digits
  BY DEF Newlines, EOZ, Digits
<1>4. c \in Newlines => EscapeAt(w, j) = Plain("part", <<"\n">>, PastBreak(w, j + 1))
  BY <1>1, <1>2
<1>5. c = EOZ => EscapeAt(w, j) = Skipped(j + 1)
  BY <1>1, <1>2, <1>3
<1>6. c = "a" => EscapeAt(w, j) = Plain("part", <<Bell>>, j + 2)
  BY <1>1, <1>2, <1>3
<1>7. c \in Digits => EscapeAt(w, j) = digits
  BY <1>1, <1>2, <1>3
<1>8. c \notin Newlines \cup {EOZ, "a"} \cup Digits => EscapeAt(w, j) = Plain("part", <<c>>, j + 2)
  BY <1>1
<1>. QED
  BY <1>4, <1>5, <1>6, <1>7, <1>8 DEF Skipped, Error, c, n, code, digits

\* A part of a string, or its rest, from position j on.
PartOK(w, x, j) ==
  /\ x = Plain(x.kind, x.value, x.end) /\ x.kind \in {"part", "error", "<string>"}
  /\ x.kind # "error" => x.value \in Seq(Unit) /\ x.end \in j + 1 .. Len(w) + 1

LEMMA PlainFields ==
  ASSUME NEW k, NEW v, NEW e
  PROVE  LET x == Plain(k, v, e)
         IN x.kind = k /\ x.value = v /\ x.end = e
BY DEF Plain

LEMMA PartIs ==
  ASSUME NEW w \in Seq(Char), NEW j \in 1 .. Len(w) + 1, NEW k \in {"part", "<string>"}, NEW v \in Seq(Unit),
         NEW e \in j + 1 .. Len(w) + 1
  PROVE  PartOK(w, Plain(k, v, e), j)
BY DEF PartOK, Plain

LEMMA UnitsAre ==
  /\ \A c \in Char : c \in Unit /\ <<c>> \in Seq(Unit)
  /\ <<>> \in Seq(Unit) /\ <<Bell>> \in Seq(Unit) /\ <<"\n">> \in Seq(Unit)
  /\ \A v \in Nat : Byte(v) \in Unit /\ <<Byte(v)>> \in Seq(Unit)
<1>1. /\ \A c \in Char : c \in Unit
      /\ Bell \in Unit /\ "\n" \in Unit /\ \A v \in Nat : Byte(v) \in Unit
  BY CharsAre DEF Unit
<1>2. \A u \in Unit : <<u>> \in Seq(Unit)
  OBVIOUS
<1>3. <<>> \in Seq(Unit)
  OBVIOUS
<1>. HIDE DEF Unit
<1>. QED
  BY <1>1, <1>2, <1>3

LEMMA EscapeDigitsAre ==
  ASSUME NEW w \in Seq(Char), NEW j \in 1 .. Len(w), CharAt(w, j + 1) \in Digits
  PROVE  /\ EscapeDigits(w, j) \in 1 .. 3 /\ j + EscapeDigits(w, j) <= Len(w)
         /\ EscapeCode(w, j) \in Nat
<1>. DEFINE a == After(w, j + 1, Digits)  n == EscapeDigits(w, j)
<1>1. Len(w) \in Nat /\ j \in Nat /\ j + 1 \in 1 .. Len(w) + 1 /\ EOZ \notin Digits
  BY DEF Digits, EOZ
<1>2. a = After(w, j + 1 + 1, Digits) /\ j + 1 + 1 \in 1 .. Len(w) + 1
  BY <1>1, AfterStep
<1>3. After(w, j + 1 + 1, Digits) \in j + 1 + 1 .. Len(w) + 1
  BY <1>1, <1>2, AfterIs
<1>. HIDE DEF a
<1>4. a \in Nat /\ a >= j + 2 /\ a <= Len(w) + 1
  BY <1>1, <1>2, <1>3
<1>5. n = IF a - j - 1 > 3 THEN 3 ELSE a - j - 1
  BY DEF EscapeDigits, a
<1>. HIDE DEF n
<1>6. n \in 1 .. 3 /\ j + n <= Len(w) /\ j + n \in Nat /\ j + 1 <= j + n + 1
  BY <1>1, <1>4, <1>5
<1>7. SubSeq(w, j + 1, j + n) \in Seq(Char)
  BY <1>1, <1>6, SliceOf
<1>8. Decimal(SubSeq(w, j + 1, j + n)) \in Nat
  BY <1>7, DecimalMore, CharsAre
<1>. QED
  BY <1>6, <1>8 DEF EscapeCode, n

LEMMA EscapeOK ==
  ASSUME NEW w \in Seq(Char), NEW j \in 1 .. Len(w)
  PROVE  PartOK(w, EscapeAt(w, j), j) /\ EscapeAt(w, j).kind \in {"part", "error"}
<1>. DEFINE c == CharAt(w, j + 1)  x == EscapeAt(w, j)  n == EscapeDigits(w, j)  code == EscapeCode(w, j)
<1>0. /\ Len(w) \in Nat /\ j \in Nat \ {0} /\ j <= Len(w) /\ j + 1 \in Nat \ {0} /\ j \in 1 .. Len(w) + 1
      /\ j + 1 \in j + 1 .. Len(w) + 1
  OBVIOUS
<1>1. /\ j + 1 <= Len(w) => c = w[j + 1] /\ c \in Char /\ j + 1 \in 1 .. Len(w) /\ j + 2 \in j + 1 .. Len(w) + 1
      /\ j + 1 > Len(w) => c = EOZ
  BY <1>0, CharsAt
<1>2. c \in Newlines => c # EOZ
  BY DEF Newlines, EOZ
<1>. HIDE DEF c, x, n, code
<1>3. CASE c \in Newlines
  <2>1. j + 1 \in 1 .. Len(w)
    BY <1>0, <1>1, <1>2, <1>3
  <2>2. PastBreak(w, j + 1) \in j + 1 + 1 .. Len(w) + 1
    BY <2>1, PastBreakBound
  <2>3. PastBreak(w, j + 1) \in j + 1 .. Len(w) + 1
    BY <1>0, <2>2
  <2>4. x = Plain("part", <<"\n">>, PastBreak(w, j + 1))
    BY <1>3, EscapeIs DEF x, c
  <2>5. PartOK(w, x, j)
    BY <1>0, <2>3, <2>4, PartIs, UnitsAre
  <2>9. x.kind = "part"
    BY <2>4 DEF Plain
  <2>. QED
    BY <2>5, <2>9 DEF x
<1>4. CASE c = EOZ
  <2>1. x = Plain("part", <<>>, j + 1)
    BY <1>4, EscapeIs DEF x, c
  <2>2. PartOK(w, x, j)
    BY <1>0, <2>1, PartIs, UnitsAre
  <2>9. x.kind = "part"
    BY <2>1 DEF Plain
  <2>. QED
    BY <2>2, <2>9 DEF x
<1>5. CASE c = "a"
  <2>1. x = Plain("part", <<Bell>>, j + 2)
    BY <1>5, EscapeIs DEF x, c
  <2>2. j + 2 \in j + 1 .. Len(w) + 1
    BY <1>0, <1>1, <1>5 DEF EOZ
  <2>3. PartOK(w, x, j)
    BY <1>0, <2>1, <2>2, PartIs, UnitsAre
  <2>9. x.kind = "part"
    BY <2>1 DEF Plain
  <2>. QED
    BY <2>3, <2>9 DEF x
<1>6. CASE c \in Digits
  <2>1. n \in 1 .. 3 /\ j + n <= Len(w) /\ code \in Nat
    BY <1>6, EscapeDigitsAre DEF c, n, code
  <2>2. j + 1 + n \in j + 1 .. Len(w) + 1
    BY <1>0, <2>1
  <2>3. CASE code > UCHAR_MAX
    <3>1. x = Plain("error", "escape", j + 1 + n)
      BY <1>6, <2>3, EscapeIs DEF x, c, n, code
    <3>. QED
      BY <3>1, PlainFields DEF PartOK, Plain, x
  <2>4. CASE ~(code > UCHAR_MAX)
    <3>1. x = Plain("part", <<Byte(code)>>, j + 1 + n)
      BY <1>6, <2>4, EscapeIs DEF x, c, n, code
    <3>2. <<Byte(code)>> \in Seq(Unit)
      BY <2>1, UnitsAre
    <3>3. PartOK(w, x, j)
      BY <1>0, <2>2, <3>1, <3>2, PartIs
    <3>9. x.kind = "part"
      BY <3>1 DEF Plain
    <3>. QED
      BY <3>3, <3>9 DEF x
  <2>. QED
    BY <2>3, <2>4
<1>7. CASE c \notin Newlines \cup {EOZ, "a"} \cup Digits
  <2>1. x = Plain("part", <<c>>, j + 2)
    BY <1>7, EscapeIs DEF x, c
  <2>2. j + 2 \in j + 1 .. Len(w) + 1 /\ c \in Char
    BY <1>0, <1>1, <1>7
  <2>3. PartOK(w, x, j)
    BY <1>0, <2>1, <2>2, PartIs, UnitsAre
  <2>9. x.kind = "part"
    BY <2>1 DEF Plain
  <2>. QED
    BY <2>3, <2>9 DEF x
<1>. QED
  BY <1>3, <1>4, <1>5, <1>6, <1>7

LEMMA PartOfStringIs ==
  ASSUME NEW w, NEW i, NEW j, w[i] \in Quotes
  PROVE  LET c == CharAt(w, j)
         IN /\ c = w[i] => PartOfString(w, i, j) = Plain("<string>", <<>>, j + 1)
            /\ c \in Newlines \cup {EOZ} => PartOfString(w, i, j) = Plain("error", "unfinished", j)
            /\ c = Backslash => PartOfString(w, i, j) = EscapeAt(w, j)
            /\ c \notin {w[i], EOZ, Backslash} \cup Newlines => PartOfString(w, i, j) = Plain("part", <<c>>, j + 1)
<1>. DEFINE c == CharAt(w, j)  q == w[i]
<1>1. PartOfString(w, i, j) =
        CASE c = q -> Plain("<string>", <<>>, j + 1)
          [] c \in Newlines \cup {EOZ} -> Error("unfinished", j)
          [] c = Backslash -> EscapeAt(w, j)
          [] c \notin {q, EOZ, Backslash} \cup Newlines -> Plain("part", <<c>>, j + 1)
  BY DEF PartOfString
<1>. HIDE DEF c, q
<1>2. q \notin Newlines \cup {EOZ} /\ q # Backslash /\ Backslash \notin Newlines \cup {EOZ}
  BY DEF Newlines, EOZ, Quotes, Backslash, q
<1>3. c = q => PartOfString(w, i, j) = Plain("<string>", <<>>, j + 1)
  BY <1>1, <1>2
<1>4. c \in Newlines \cup {EOZ} => PartOfString(w, i, j) = Error("unfinished", j)
  BY <1>1, <1>2
<1>5. c = Backslash => PartOfString(w, i, j) = EscapeAt(w, j)
  BY <1>1, <1>2
<1>6. c \notin {q, EOZ, Backslash} \cup Newlines => PartOfString(w, i, j) = Plain("part", <<c>>, j + 1)
  BY <1>1
<1>. QED
  BY <1>3, <1>4, <1>5, <1>6 DEF c, q, Error

LEMMA PartOfStringOK ==
  ASSUME NEW w \in Seq(Char), NEW i, NEW j \in 1 .. Len(w) + 1, w[i] \in Quotes
  PROVE  PartOK(w, PartOfString(w, i, j), j)
<1>. DEFINE c == CharAt(w, j)  x == PartOfString(w, i, j)
<1>0. Len(w) \in Nat /\ j \in Nat \ {0} /\ w[i] \in Quotes
  OBVIOUS
<1>1. c # EOZ => j \in 1 .. Len(w) /\ c \in Char /\ j + 1 \in j + 1 .. Len(w) + 1
  BY <1>0, CharsAt
<1>2. w[i] # EOZ /\ Backslash # EOZ
  BY DEF Quotes, EOZ, Backslash
<1>. HIDE DEF c, x
<1>3. CASE c = w[i]
  <2>1. x = Plain("<string>", <<>>, j + 1)
    BY <1>0, <1>3, PartOfStringIs DEF x, c
  <2>2. PartOK(w, x, j)
    BY <1>1, <1>2, <1>3, <2>1, PartIs, UnitsAre
  <2>. QED
    BY <2>2 DEF x
<1>4. CASE c \in Newlines \cup {EOZ}
  <2>1. x = Plain("error", "unfinished", j)
    BY <1>0, <1>4, PartOfStringIs DEF x, c
  <2>2. PartOK(w, x, j)
    BY <2>1 DEF PartOK, Plain
  <2>. QED
    BY <2>2 DEF x
<1>5. CASE c = Backslash
  <2>1. x = EscapeAt(w, j)
    BY <1>0, <1>5, PartOfStringIs DEF x, c
  <2>2. PartOK(w, x, j)
    BY <1>1, <1>2, <1>5, <2>1, EscapeOK
  <2>. QED
    BY <2>2 DEF x
<1>6. CASE c \notin {w[i], EOZ, Backslash} \cup Newlines
  <2>1. x = Plain("part", <<c>>, j + 1)
    BY <1>0, <1>6, PartOfStringIs DEF x, c
  <2>2. c \in Char /\ j + 1 \in j + 1 .. Len(w) + 1
    BY <1>1, <1>6
  <2>3. PartOK(w, x, j)
    BY <2>1, <2>2, PartIs, UnitsAre
  <2>. QED
    BY <2>3 DEF x
<1>. QED
  BY <1>3, <1>4, <1>5, <1>6

\* The value of a string from position j on, by its first part.
LEMMA QuotedIs ==
  ASSUME NEW w \in Seq(Char), NEW i \in 1 .. Len(w), w[i] \in Quotes
  PROVE  \A j \in i + 1 .. Len(w) + 1 :
           QuotedFrom(w, i)[j] = LET x == PartOfString(w, i, j)
                                 IN IF x.kind = "part" THEN Joined(x, QuotedFrom(w, i)[x.end]) ELSE x
<1>. DEFINE X(j) == PartOfString(w, i, j)
            B(f, j) == IF X(j).kind = "part" THEN Joined(X(j), f[X(j).end]) ELSE X(j)
            n == Len(w) + 1
            D(m) == {j \in i + 1 .. n : j + m >= n}
            E == {m \in Nat : \E f : f = [j \in D(m) |-> B(f, j)]}
<1>0. Len(w) \in Nat /\ i \in Nat \ {0} /\ i <= Len(w) /\ n \in Nat
  OBVIOUS
<1>1. ASSUME NEW j \in i + 1 .. n, X(j).kind = "part" PROVE X(j).end \in j + 1 .. n
  <2>1. j \in 1 .. Len(w) + 1
    BY <1>0
  <2>2. PartOK(w, X(j), j)
    BY <2>1, PartOfStringOK
  <2>. QED
    BY <1>1, <2>2 DEF PartOK
<1>2. 0 \in E
  <2>. DEFINE f == [j \in D(0) |-> X(j)]
  <2>1. ASSUME NEW j \in D(0) PROVE X(j) = B(f, j)
    <3>1. j = n
      BY <1>0
    <3>2. X(j).kind # "part"
      <4>. SUFFICES ASSUME X(j).kind = "part" PROVE FALSE
        OBVIOUS
      <4>. DEFINE e == X(j).end
      <4>1. e \in j + 1 .. n
        BY <1>1
      <4>2. j = n /\ n \in Nat
        BY <1>0, <3>1
      <4>. HIDE DEF e, n, D
      <4>. QED
        BY <4>1, <4>2
    <3>. QED
      BY <3>2
  <2>. HIDE DEF B, D
  <2>2. f = [j \in D(0) |-> B(f, j)]
    BY <2>1
  <2>. HIDE DEF f
  <2>3. \E h : h = [j \in D(0) |-> B(h, j)]
    BY <2>2
  <2>. QED
    BY <2>3
<1>3. ASSUME NEW m \in E PROVE m + 1 \in E
  <2>1. PICK f : f = [j \in D(m) |-> B(f, j)]
    OBVIOUS
  <2>. DEFINE g == [j \in D(m + 1) |-> B(f, j)]
  <2>2. ASSUME NEW j \in D(m + 1) PROVE B(f, j) = B(g, j)
    <3>1. CASE X(j).kind = "part"
      <4>. DEFINE e == X(j).end
      <4>1. e \in j + 1 .. n
        BY <1>1, <3>1
      <4>. HIDE DEF e, n
      <4>2. e \in D(m) /\ e \in D(m + 1)
        BY <1>0, <4>1
      <4>. HIDE DEF B, D
      <4>3. f[e] = B(f, e)
        BY <2>1, <4>2
      <4>4. g[e] = B(f, e)
        BY <4>2
      <4>5. f[e] = g[e]
        BY <4>3, <4>4
      <4>. HIDE DEF g
      <4>. QED
        BY <4>5 DEF B, e
    <3>. QED
      BY <3>1
  <2>. HIDE DEF B, D
  <2>3. g = [j \in D(m + 1) |-> B(g, j)]
    BY <2>2
  <2>. HIDE DEF g
  <2>4. \E h : h = [j \in D(m + 1) |-> B(h, j)]
    BY <2>3
  <2>. QED
    BY <2>4
<1>4. E = Nat
  <2>1. E \in SUBSET Nat
    OBVIOUS
  <2>. HIDE DEF E
  <2>. QED
    BY <1>2, <1>3, <2>1, Induct
<1>5. \E f : f = [j \in i + 1 .. n |-> B(f, j)]
  <2>1. D(n) = i + 1 .. n
    BY <1>0
  <2>. HIDE DEF D, B, n
  <2>2. n \in E
    BY <1>0, <1>4
  <2>3. \E f : f = [j \in D(n) |-> B(f, j)]
    BY <2>2
  <2>. QED
    BY <2>1, <2>3
<1>6. QuotedFrom(w, i) = CHOOSE f : f = [j \in i + 1 .. n |-> B(f, j)]
  BY DEF QuotedFrom
<1>. DEFINE Q == QuotedFrom(w, i)
<1>7. Q = [j \in i + 1 .. n |-> B(Q, j)]
  <2>. HIDE DEF B, n
  <2>. QED
    BY <1>5, <1>6
<1>8. ASSUME NEW j \in i + 1 .. n PROVE Q[j] = B(Q, j)
  <2>. HIDE DEF B, n, Q
  <2>. QED
    BY <1>7
<1>. QED
  BY <1>8

\* What is left of a string from j on.
RestOK(w, x, j) ==
  /\ x = Plain(x.kind, x.value, x.end) /\ x.kind \in {"error", "<string>"}
  /\ x.kind = "<string>" => x.value \in Seq(Unit) /\ x.end \in j + 1 .. Len(w) + 1

LEMMA JoinedOK ==
  ASSUME NEW w \in Seq(Char), NEW j \in Nat, NEW x, x.value \in Seq(Unit), NEW e \in Nat, j < e,
         NEW rest, RestOK(w, rest, e)
  PROVE  RestOK(w, Joined(x, rest), j)
<1>1. CASE rest.kind = "error"
  <2>1. Joined(x, rest) = rest
    BY <1>1 DEF Joined
  <2>. QED
    BY <1>1, <2>1 DEF RestOK
<1>2. CASE rest.kind # "error"
  <2>. DEFINE v == x.value \o rest.value  y == Joined(x, rest)  d == rest.end
  <2>1. rest.kind = "<string>" /\ rest.value \in Seq(Unit) /\ d \in e + 1 .. Len(w) + 1
    BY <1>2 DEF RestOK
  <2>2. y = Plain("<string>", v, d)
    BY <2>1 DEF Joined
  <2>3. v \in Seq(Unit)
    BY <2>1
  <2>4. d \in j + 1 .. Len(w) + 1
    BY <2>1
  <2>. HIDE DEF v, y, d
  <2>5. RestOK(w, y, j)
    BY <2>2, <2>3, <2>4 DEF RestOK, Plain
  <2>. QED
    BY <2>5 DEF y
<1>. QED
  BY <1>1, <1>2

LEMMA QuotedOK ==
  ASSUME NEW w \in Seq(Char), NEW i \in 1 .. Len(w), w[i] \in Quotes
  PROVE  \A j \in i + 1 .. Len(w) + 1 : RestOK(w, QuotedFrom(w, i)[j], j)
<1>. DEFINE X(j) == PartOfString(w, i, j)  Q == QuotedFrom(w, i)
            n == Len(w) + 1
            E == {m \in Nat : \A j \in i + 1 .. n : j + m >= n => RestOK(w, Q[j], j)}
<1>0. Len(w) \in Nat /\ i \in Nat \ {0} /\ i <= Len(w) /\ n \in Nat
  OBVIOUS
<1>1. ASSUME NEW j \in i + 1 .. n PROVE PartOK(w, X(j), j)
  <2>1. j \in 1 .. Len(w) + 1
    BY <1>0
  <2>. QED
    BY <2>1, PartOfStringOK
<1>2. ASSUME NEW j \in i + 1 .. n
      PROVE  Q[j] = IF X(j).kind = "part" THEN Joined(X(j), Q[X(j).end]) ELSE X(j)
  BY QuotedIs
<1>. HIDE DEF Q
<1>3. ASSUME NEW j \in i + 1 .. n, X(j).kind # "part" PROVE RestOK(w, Q[j], j)
  <2>1. Q[j] = X(j)
    BY <1>2, <1>3
  <2>. QED
    BY <1>1, <1>3, <2>1 DEF PartOK, RestOK
<1>4. 0 \in E
  <2>1. ASSUME NEW j \in i + 1 .. n, j + 0 >= n PROVE RestOK(w, Q[j], j)
    <3>1. j = n
      BY <1>0, <2>1
    <3>2. X(j).kind # "part"
      <4>. SUFFICES ASSUME X(j).kind = "part" PROVE FALSE
        OBVIOUS
      <4>. DEFINE e == X(j).end
      <4>1. e \in j + 1 .. n
        BY <1>1 DEF PartOK
      <4>. HIDE DEF e, n
      <4>. QED
        BY <1>0, <3>1, <4>1
    <3>. QED
      BY <1>3, <3>2
  <2>. QED
    BY <2>1
<1>5. ASSUME NEW m \in E PROVE m + 1 \in E
  <2>1. ASSUME NEW j \in i + 1 .. n, j + (m + 1) >= n PROVE RestOK(w, Q[j], j)
    <3>1. CASE X(j).kind = "part"
      <4>. DEFINE x == X(j)  e == x.end
      <4>1. x.value \in Seq(Unit) /\ e \in j + 1 .. n
        BY <1>1, <3>1 DEF PartOK
      <4>2. e \in i + 1 .. n /\ e + m >= n /\ j \in Nat /\ e \in Nat /\ j < e
        BY <1>0, <2>1, <4>1
      <4>3. RestOK(w, Q[e], e)
        BY <4>2
      <4>4. Q[j] = Joined(x, Q[e])
        BY <1>2, <3>1
      <4>. HIDE DEF x, e
      <4>. QED
        BY <4>1, <4>2, <4>3, <4>4, JoinedOK
    <3>. QED
      BY <1>3, <3>1
  <2>. QED
    BY <2>1
<1>6. E = Nat
  <2>1. E \in SUBSET Nat
    OBVIOUS
  <2>. HIDE DEF E
  <2>. QED
    BY <1>4, <1>5, <2>1, Induct
<1>7. n \in E
  BY <1>0, <1>6
<1>8. \A j \in i + 1 .. n : j + n >= n
  BY <1>0
<1>9. \A j \in i + 1 .. n : RestOK(w, Q[j], j)
  <2>. HIDE DEF n
  <2>. QED
    BY <1>7, <1>8
<1>. QED
  BY <1>9 DEF Q

\* v is what has been read of the string at i up to j.
ReadUpTo(w, i, v, j) ==
  v \in Seq(Unit) /\ Quoted(w, i) = Joined(Plain("part", v, j), QuotedFrom(w, i)[j])

LEMMA NothingRead ==
  ASSUME NEW w \in Seq(Char), NEW i \in 1 .. Len(w), w[i] \in Quotes
  PROVE  ReadUpTo(w, i, <<>>, i + 1)
<1>. DEFINE q == QuotedFrom(w, i)[i + 1]
<1>1. i + 1 \in i + 1 .. Len(w) + 1
  OBVIOUS
<1>2. RestOK(w, q, i + 1)
  BY <1>1, QuotedOK
<1>. HIDE DEF q
<1>3. q.kind = "error" \/ <<>> \o q.value = q.value
  BY <1>2 DEF RestOK
<1>4. Joined(Plain("part", <<>>, i + 1), q) = q
  BY <1>2, <1>3 DEF Joined, Plain, RestOK
<1>5. Quoted(w, i) = q
  BY DEF Quoted, q
<1>. QED
  BY <1>4, <1>5, UnitsAre DEF ReadUpTo, q

LEMMA ReadMore ==
  ASSUME NEW w \in Seq(Char), NEW i \in 1 .. Len(w), w[i] \in Quotes,
         NEW j \in i + 1 .. Len(w) + 1, NEW v, ReadUpTo(w, i, v, j),
         NEW u, NEW e, PartOfString(w, i, j) = Plain("part", u, e)
  PROVE  /\ u \in Seq(Unit) /\ e \in j + 1 .. Len(w) + 1 /\ ReadUpTo(w, i, v \o u, e)
<1>. DEFINE Q == QuotedFrom(w, i)  x == PartOfString(w, i, j)  r == Q[e]
<1>0. Len(w) \in Nat /\ i \in Nat /\ i >= 1
  OBVIOUS
<1>9. j \in 1 .. Len(w) + 1 /\ j \in Nat
  BY <1>0
<1>1. PartOK(w, x, j)
  BY <1>9, PartOfStringOK
<1>10. x = Plain("part", u, e)
  OBVIOUS
<1>11. Q[j] = IF x.kind = "part" THEN Joined(x, Q[x.end]) ELSE x
  BY QuotedIs
<1>. HIDE DEF x
<1>2. x.kind = "part" /\ x.value = u /\ x.end = e
  BY <1>10 DEF Plain
<1>3. Q[j] = Joined(x, r)
  BY <1>2, <1>11
<1>12. u \in Seq(Unit) /\ e \in j + 1 .. Len(w) + 1
  BY <1>1, <1>2 DEF PartOK
<1>4. u \in Seq(Unit) /\ e \in j + 1 .. Len(w) + 1 /\ e \in i + 1 .. Len(w) + 1
  BY <1>0, <1>9, <1>12
<1>5. RestOK(w, r, e)
  BY <1>4, QuotedOK
<1>13. v \in Seq(Unit)
  BY DEF ReadUpTo
<1>6. v \in Seq(Unit) /\ v \o u \in Seq(Unit)
  <2>. HIDE DEF Unit
  <2>. QED
    BY <1>4, <1>13
<1>7. Quoted(w, i) = Joined(Plain("part", v, j), Q[j])
  BY DEF ReadUpTo
<1>. HIDE DEF r, Q
<1>8. Joined(Plain("part", v, j), Joined(x, r)) = Joined(Plain("part", v \o u, e), r)
  <2>1. CASE r.kind = "error"
    BY <2>1 DEF Joined
  <2>2. CASE r.kind # "error"
    <3>1. r.value \in Seq(Unit)
      BY <1>5, <2>2 DEF RestOK
    <3>2. v \o (u \o r.value) = (v \o u) \o r.value
      <4>. DEFINE y == r.value
      <4>. HIDE DEF y, Unit
      <4>1. y \in Seq(Unit)
        BY <3>1 DEF y
      <4>2. u \in Seq(Unit) /\ v \in Seq(Unit)
        BY <1>4, <1>6
      <4>3. (v \o u) \o y = v \o (u \o y)
        BY ONLY <4>1, <4>2, ConcatAssociative, SMTT(30)
      <4>. QED
        BY <4>3 DEF y
    <3>3. Joined(x, r) = Plain(r.kind, u \o r.value, r.end)
      BY <1>2, <2>2 DEF Joined
    <3>4. Joined(Plain("part", v, j), Plain(r.kind, u \o r.value, r.end))
            = Plain(r.kind, v \o (u \o r.value), r.end)
      BY <2>2 DEF Joined, Plain
    <3>5. Joined(Plain("part", v \o u, e), r) = Plain(r.kind, (v \o u) \o r.value, r.end)
      BY <2>2 DEF Joined, Plain
    <3>. QED
      BY <3>2, <3>3, <3>4, <3>5
  <2>. QED
    BY <2>1, <2>2
<1>. QED
  BY <1>3, <1>4, <1>6, <1>7, <1>8 DEF ReadUpTo, r, Q

LEMMA ReadToEnd ==
  ASSUME NEW w \in Seq(Char), NEW i \in 1 .. Len(w), w[i] \in Quotes,
         NEW j \in i + 1 .. Len(w) + 1, NEW v, ReadUpTo(w, i, v, j), NEW e,
         PartOfString(w, i, j) = Plain("<string>", <<>>, e)
  PROVE  Quoted(w, i) = Plain("<string>", v, e)
<1>. DEFINE Q == QuotedFrom(w, i)  x == PartOfString(w, i, j)
<1>1. Q[j] = IF x.kind = "part" THEN Joined(x, Q[x.end]) ELSE x
  BY QuotedIs
<1>2. v \in Seq(Unit) /\ Quoted(w, i) = Joined(Plain("part", v, j), Q[j])
  BY DEF ReadUpTo
<1>3. v \o <<>> = v
  BY <1>2, ConcatEmptySeq
<1>4. x = Plain("<string>", <<>>, e)
  OBVIOUS
<1>. HIDE DEF Q, x
<1>5. Q[j] = x /\ x.kind = "<string>" /\ x.value = <<>> /\ x.end = e
  BY <1>1, <1>4 DEF Plain
<1>6. Joined(Plain("part", v, j), x) = Plain("<string>", v \o <<>>, e)
  BY <1>5 DEF Joined, Plain
<1>. QED
  BY <1>2, <1>3, <1>5, <1>6

LEMMA ReadToError ==
  ASSUME NEW w \in Seq(Char), NEW i \in 1 .. Len(w), w[i] \in Quotes,
         NEW j \in i + 1 .. Len(w) + 1, NEW v, ReadUpTo(w, i, v, j), NEW u, NEW e,
         PartOfString(w, i, j) = Plain("error", u, e)
  PROVE  Quoted(w, i) = Plain("error", u, e)
<1>. DEFINE Q == QuotedFrom(w, i)  x == PartOfString(w, i, j)
<1>1. Q[j] = IF x.kind = "part" THEN Joined(x, Q[x.end]) ELSE x
  BY QuotedIs
<1>2. v \in Seq(Unit) /\ Quoted(w, i) = Joined(Plain("part", v, j), Q[j])
  BY DEF ReadUpTo
<1>3. x = Plain("error", u, e)
  OBVIOUS
<1>. HIDE DEF Q, x
<1>4. Q[j] = x /\ x.kind = "error"
  BY <1>1, <1>3 DEF Plain
<1>. QED
  BY <1>2, <1>3, <1>4 DEF Joined

-----------------------------------------------------------------------------
(* Elements of a text *)

\* A symbol of one character; d is behind it, long says that a long bracket begins.
Alone(c, d, long) ==
  \/ c = "-" /\ d # "-"
  \/ c = "[" /\ ~long /\ d # "="
  \/ c \in {"=", "<", "~"} /\ d # "="
  \/ c \in {"]", Backslash, NUL, "#", SIGNATURE}

\* The element x at i, by the characters c at i and d behind it.
ElementBy(w, i, c, d, x) ==
  /\ c \in Newlines \cup {Space} => x = Skipped(i + 1)
  /\ c = "-" /\ d = "-" => x = Comment(w, i)
  /\ c = "[" /\ LongOpen(w, i) => x = Enclosed(w, i)
  /\ c = "[" /\ ~LongOpen(w, i) /\ d = "=" => x = Error("delimiter", After(w, i + 1, {"="}))
  /\ c \in {"=", "<", "~"} /\ d = "=" => x = SymbolAt(w, i, 2)
  /\ c \in Quotes => x = Quoted(w, i)
  /\ c \in Digits \/ (c = "." /\ d \in Digits) => x = Numeral(w, i)
  /\ c = "." /\ d \notin Digits => x = Dots(w, i)
  /\ c \in Initials => x = Word(w, i)
  /\ Alone(c, d, LongOpen(w, i)) => x = SymbolAt(w, i, 1)

LEMMA LexemeIs ==
  ASSUME NEW w, NEW i
  PROVE  ElementBy(w, i, w[i], CharAt(w, i + 1), Lexeme(w, i))
<1>. DEFINE c == w[i]  d == CharAt(w, i + 1)  long == LongOpen(w, i)  x == Lexeme(w, i)
<1>. DEFINE comment == c = "-" /\ d = "-"
            opening == c = "[" /\ (long \/ d = "=")
            equality == c \in {"=", "<", "~"} /\ d = "="
            number == c \in Digits \/ (c = "." /\ d \in Digits)
            dots == c = "." /\ d \notin Digits
            bracket == IF long THEN Enclosed(w, i) ELSE Error("delimiter", After(w, i + 1, {"="}))
            one == SymbolAt(w, i, 1)  two == SymbolAt(w, i, 2)
<1>1. x = CASE c \in Newlines \cup {Space} -> Skipped(i + 1)
            [] comment -> Comment(w, i)
            [] opening -> bracket
            [] equality -> two
            [] c \in Quotes -> Quoted(w, i)
            [] number -> Numeral(w, i)
            [] dots -> Dots(w, i)
            [] c \in Initials -> Word(w, i)
            [] ~comment /\ ~opening /\ ~equality /\ ~number /\ ~dots
               /\ c \notin Newlines \cup {Space} \cup Quotes \cup Initials -> one
  BY DEF Lexeme
<1>. DEFINE space == c \in Newlines \cup {Space}  quote == c \in Quotes  letter == c \in Initials
            other == ~comment /\ ~opening /\ ~equality /\ ~number /\ ~dots
                     /\ c \notin Newlines \cup {Space} \cup Quotes \cup Initials
<1>2. c \in {"]", Backslash, NUL, "#", SIGNATURE}
        => ~space /\ ~quote /\ ~letter /\ ~comment /\ ~opening /\ ~equality /\ ~number /\ ~dots
  BY DEF Newlines, Quotes, Digits, Initials, Letters, NUL, SIGNATURE, Backslash, Space
<1>3. space => ~comment /\ ~opening /\ ~equality /\ ~quote /\ ~number /\ ~dots /\ ~letter /\ ~other
  BY DEF Newlines, Quotes, Digits, Initials, Letters, Space
<1>4. c \in {"-", "[", "=", "<", "~", "."} => ~space /\ ~quote /\ ~letter /\ c \notin Digits
  BY DEF Newlines, Quotes, Digits, Initials, Letters, Space
<1>5. quote => ~space /\ ~comment /\ ~opening /\ ~equality /\ ~number /\ ~dots /\ ~letter /\ ~other
  BY DEF Newlines, Quotes, Digits, Initials, Letters, Space
<1>6. letter => ~space /\ ~comment /\ ~opening /\ ~equality /\ ~number /\ ~dots /\ ~quote /\ ~other
  BY DEF Newlines, Quotes, Digits, Initials, Letters, Space
<1>7. number => ~space /\ ~comment /\ ~opening /\ ~equality /\ ~quote /\ ~dots /\ ~letter /\ ~other
  BY DEF Newlines, Quotes, Digits, Initials, Letters, Space
<1>8. ~space /\ ~quote /\ ~letter => c \notin Newlines \cup {Space} \cup Quotes \cup Initials
  OBVIOUS
<1>. HIDE DEF c, d, x, long, bracket, one, two
<1>9. ~(comment /\ opening) /\ ~(comment /\ equality) /\ ~(comment /\ dots) /\ ~(opening /\ equality)
      /\ ~(opening /\ dots) /\ ~(equality /\ dots)
  OBVIOUS
<1>10. ~(other /\ comment) /\ ~(other /\ opening) /\ ~(other /\ equality) /\ ~(other /\ dots)
  OBVIOUS
<1>11. comment \/ opening \/ equality \/ dots => ~space /\ ~quote /\ ~letter /\ ~number
  BY <1>4
<1>12. Alone(c, d, long) => other
  <2>1. c = "-" /\ d # "-" => other
    BY <1>4, <1>8
  <2>2. c = "[" /\ ~long /\ d # "=" => other
    BY <1>4, <1>8
  <2>3. c \in {"=", "<", "~"} /\ d # "=" => other
    BY <1>4, <1>8
  <2>4. c \in {"]", Backslash, NUL, "#", SIGNATURE} => other
    BY <1>2, <1>8
  <2>. QED
    BY <2>1, <2>2, <2>3, <2>4 DEF Alone
<1>13. other => ~space /\ ~quote /\ ~letter /\ ~number
  OBVIOUS
<1>. DEFINE Sk == Skipped(i + 1)  Co == Comment(w, i)  Qu == Quoted(w, i)  Nu == Numeral(w, i)
            Do == Dots(w, i)  Wo == Word(w, i)
<1>14. x = CASE space -> Sk [] comment -> Co [] opening -> bracket [] equality -> two
             [] quote -> Qu [] number -> Nu [] dots -> Do [] letter -> Wo [] other -> one
  BY <1>1
<1>. HIDE DEF space, comment, opening, equality, quote, number, dots, letter, other, Sk, Co, Qu, Nu, Do, Wo
<1>15. space => x = Sk
  BY <1>3, <1>14
<1>16. comment => x = Co
  BY <1>9, <1>10, <1>11, <1>14
<1>17. opening => x = bracket
  BY <1>9, <1>10, <1>11, <1>14
<1>18. equality => x = two
  BY <1>9, <1>10, <1>11, <1>14
<1>19. quote => x = Qu
  BY <1>5, <1>14
<1>20. number => x = Nu
  BY <1>7, <1>14
<1>21. dots => x = Do
  BY <1>9, <1>10, <1>11, <1>14
<1>22. letter => x = Wo
  BY <1>6, <1>14
<1>23. other => x = one
  BY <1>10, <1>13, <1>14
<1>24. opening /\ long => x = Enclosed(w, i)
  BY <1>17 DEF bracket
<1>25. opening /\ ~long => x = Error("delimiter", After(w, i + 1, {"="}))
  BY <1>17 DEF bracket
<1>26. c \in Newlines \cup {Space} => x = Skipped(i + 1)
  BY <1>15 DEF space, Sk
<1>27. c = "-" /\ d = "-" => x = Comment(w, i)
  BY <1>16 DEF comment, Co
<1>28. c = "[" /\ long => x = Enclosed(w, i)
  BY <1>24 DEF opening
<1>29. c = "[" /\ ~long /\ d = "=" => x = Error("delimiter", After(w, i + 1, {"="}))
  BY <1>25 DEF opening
<1>30. c \in {"=", "<", "~"} /\ d = "=" => x = SymbolAt(w, i, 2)
  BY <1>18 DEF equality, two
<1>31. c \in Quotes => x = Quoted(w, i)
  BY <1>19 DEF quote, Qu
<1>32. c \in Digits \/ (c = "." /\ d \in Digits) => x = Numeral(w, i)
  BY <1>20 DEF number, Nu
<1>33. c = "." /\ d \notin Digits => x = Dots(w, i)
  BY <1>21 DEF dots, Do
<1>34. c \in Initials => x = Word(w, i)
  BY <1>22 DEF letter, Wo
<1>35. Alone(c, d, long) => x = SymbolAt(w, i, 1)
  BY <1>12, <1>23 DEF one
<1>37. c = "[" /\ LongOpen(w, i) => x = Enclosed(w, i)
  BY <1>28 DEF long
<1>38. c = "[" /\ ~LongOpen(w, i) /\ d = "=" => x = Error("delimiter", After(w, i + 1, {"="}))
  BY <1>29 DEF long
<1>39. Alone(c, d, LongOpen(w, i)) => x = SymbolAt(w, i, 1)
  BY <1>35 DEF long
<1>36. ElementBy(w, i, c, d, x)
  BY <1>26, <1>27, <1>37, <1>38, <1>30, <1>31, <1>32, <1>33, <1>34, <1>39, Zenon DEF ElementBy
<1>. QED
  BY <1>36 DEF c, d, x

Kinds == {"part", "error", "symbol", "<string>", "<number>", "reserved", "<name>"}

\* An element of the text that begins at i.
ElementOK(w, x, i) ==
  /\ x = Plain(x.kind, x.value, x.end) /\ x.kind \in Kinds
  /\ x.kind # "error" => x.end \in i + 1 .. Len(w) + 1

LEMMA ElementIs ==
  ASSUME NEW w, NEW i, NEW x, NEW k \in Kinds, NEW v, NEW e, x = Plain(k, v, e),
         k # "error" => e \in i + 1 .. Len(w) + 1
  PROVE  ElementOK(w, x, i)
<1>1. x.kind = k /\ x.value = v /\ x.end = e
  BY DEF Plain
<1>. QED
  BY <1>1 DEF ElementOK

LEMMA LevelIs ==
  ASSUME NEW w \in Seq(Char), NEW i \in 1 .. Len(w)
  PROVE  Level(w, i) \in Nat
<1>1. Len(w) \in Nat /\ i \in Nat /\ i + 1 \in 1 .. Len(w) + 1 /\ EOZ \notin {"="}
  BY DEF EOZ
<1>. DEFINE a == After(w, i + 1, {"="})
<1>2. a \in i + 1 .. Len(w) + 1
  BY <1>1, AfterIs
<1>. HIDE DEF a
<1>3. a - i - 1 \in Nat
  BY <1>1, <1>2
<1>. QED
  BY <1>3 DEF Level, a

\* Where the text of a long bracket begins.
LEMMA InsideIs ==
  ASSUME NEW w \in Seq(Char), NEW i \in 1 .. Len(w), LongOpen(w, i)
  PROVE  /\ Level(w, i) \in Nat /\ i + Level(w, i) + 2 \in 1 .. Len(w) + 1
         /\ Inside(w, i) \in i + Level(w, i) + 2 .. Len(w) + 1
<1>. DEFINE l == Level(w, i)  start == i + l + 2  c == CharAt(w, start)
<1>1. Len(w) \in Nat /\ i \in Nat /\ i >= 1 /\ l \in Nat
  BY LevelIs
<1>2. i + l + 1 <= Len(w)
  BY DEF LongOpen, Bracket
<1>. HIDE DEF l
<1>3. start \in 1 .. Len(w) + 1 /\ start \in Nat \ {0}
  BY <1>1, <1>2
<1>4. c = EOZ => c \notin Newlines
  BY DEF EOZ, Newlines
<1>5. start > Len(w) => c = EOZ
  BY <1>3, CharsAt
<1>6. Inside(w, i) = IF c \in Newlines THEN PastBreak(w, start) ELSE start
  BY DEF Inside, l
<1>. HIDE DEF start, c
<1>7. CASE c \in Newlines
  <2>1. start \in 1 .. Len(w)
    BY <1>1, <1>3, <1>4, <1>5, <1>7
  <2>2. PastBreak(w, start) \in start + 1 .. Len(w) + 1
    BY <2>1, PastBreakBound
  <2>3. Inside(w, i) \in start .. Len(w) + 1
    BY <1>1, <1>3, <1>6, <1>7, <2>2
  <2>. QED
    BY <1>1, <1>3, <2>3 DEF start, l
<1>8. CASE c \notin Newlines
  <2>1. Inside(w, i) \in start .. Len(w) + 1
    BY <1>1, <1>3, <1>6, <1>8
  <2>. QED
    BY <1>1, <1>3, <2>1 DEF start, l
<1>. QED
  BY <1>7, <1>8

LEMMA EnclosedOK ==
  ASSUME NEW w \in Seq(Char), NEW i \in 1 .. Len(w), LongOpen(w, i)
  PROVE  ElementOK(w, Enclosed(w, i), i)
<1>. DEFINE l == Level(w, i)  s == Inside(w, i)
            close == First(w, s, Closes(w, i))  nest == First(w, s, Nests(w, i))
            e == close + l + 2  x == Enclosed(w, i)
<1>1. Len(w) \in Nat /\ i \in Nat /\ l \in Nat /\ s \in i + l + 2 .. Len(w) + 1
  BY InsideIs
<1>2. s \in 1 .. Len(w) + 1
  BY <1>1
<1>3. close \in s .. Len(w) + 1 /\ (close > Len(w) \/ close \in Closes(w, i))
  BY <1>2, FirstIs
<1>4. x = IF nest < close THEN Error("nesting", nest + 2)
          ELSE IF close > Len(w) THEN Error("unfinished", close)
          ELSE Plain("<string>", Content(w, s, close), e)
  BY DEF Enclosed
<1>5. close \in Closes(w, i) => close + l + 1 <= Len(w)
  BY DEF Closes, Bracket
<1>. HIDE DEF l, s, close, nest, x
<1>6. CASE nest < close
  <2>1. x = Plain("error", "nesting", nest + 2)
    BY <1>4, <1>6 DEF Error
  <2>. QED
    BY <2>1, ElementIs DEF x, Kinds
<1>7. CASE ~(nest < close) /\ close > Len(w)
  <2>1. x = Plain("error", "unfinished", close)
    BY <1>4, <1>7 DEF Error
  <2>. QED
    BY <2>1, ElementIs DEF x, Kinds
<1>8. CASE ~(nest < close) /\ ~(close > Len(w))
  <2>1. x = Plain("<string>", Content(w, s, close), e)
    BY <1>4, <1>8
  <2>2. e \in i + 1 .. Len(w) + 1
    BY <1>1, <1>3, <1>5, <1>8
  <2>. HIDE DEF e
  <2>. QED
    BY <2>1, <2>2, ElementIs DEF x, Kinds
<1>. QED
  BY <1>6, <1>7, <1>8

LEMMA CommentOK ==
  ASSUME NEW w \in Seq(Char), NEW i \in 1 .. Len(w), w[i] = "-", CharAt(w, i + 1) = "-"
  PROVE  ElementOK(w, Comment(w, i), i)
<1>. DEFINE NL == { j \in DOMAIN w : w[j] \in Newlines }  b == i + 2  y == Enclosed(w, b)
            f == First(w, i, NL)  x == Comment(w, i)
<1>1. x = IF ~LongOpen(w, b) THEN Skipped(f) ELSE IF y.kind = "error" THEN y ELSE Skipped(y.end)
  BY DEF Comment
<1>2. Len(w) \in Nat /\ i \in Nat \ {0} /\ i <= Len(w) /\ i \in 1 .. Len(w) + 1 /\ i + 1 \in 1 .. Len(w) + 1
  OBVIOUS
<1>3. i \notin NL
  BY DEF Newlines
<1>. HIDE DEF NL
<1>4. f = First(w, i + 1, NL)
  BY <1>2, <1>3, FirstStep
<1>5. First(w, i + 1, NL) \in i + 1 .. Len(w) + 1
  BY <1>2, FirstIs
<1>6. f \in i + 1 .. Len(w) + 1
  BY <1>4, <1>5
<1>. HIDE DEF x, y, f, b
<1>7. CASE ~LongOpen(w, b)
  <2>1. x = Plain("part", <<>>, f)
    BY <1>1, <1>7 DEF Skipped
  <2>. QED
    BY <1>6, <2>1, ElementIs DEF x, Kinds
<1>8. CASE LongOpen(w, b)
  <2>1. b \in Nat \ {0} /\ CharAt(w, b) = "["
    BY <1>2, <1>8 DEF LongOpen, b
  <2>2. b \in 1 .. Len(w)
    BY <1>2, <2>1, CharsAt DEF EOZ
  <2>3. ElementOK(w, y, b)
    BY <1>8, <2>2, EnclosedOK DEF y
  <2>4. CASE y.kind = "error"
    <3>1. x = y
      BY <1>1, <1>8, <2>4
    <3>. QED
      BY <2>3, <2>4, <3>1 DEF ElementOK, x
  <2>5. CASE y.kind # "error"
    <3>. DEFINE e == y.end
    <3>1. x = Plain("part", <<>>, e)
      BY <1>1, <1>8, <2>5 DEF Skipped
    <3>2. e \in b + 1 .. Len(w) + 1
      BY <2>3, <2>5 DEF ElementOK
    <3>. HIDE DEF e
    <3>3. e \in i + 1 .. Len(w) + 1
      BY <1>2, <3>2 DEF b
    <3>. QED
      BY <3>1, <3>3, ElementIs DEF x, Kinds
  <2>. QED
    BY <2>4, <2>5
<1>. QED
  BY <1>7, <1>8

\* The end of a run of characters that has begun.
LEMMA RunEnds ==
  ASSUME NEW w \in Seq(Char), NEW i \in 1 .. Len(w), NEW S, EOZ \notin S, w[i] \in S
  PROVE  After(w, i, S) = After(w, i + 1, S) /\ After(w, i, S) \in i + 1 .. Len(w) + 1
<1>1. i \in 1 .. Len(w) + 1 /\ i + 1 \in 1 .. Len(w) + 1 /\ CharAt(w, i) = w[i]
  BY CharsAt
<1>2. After(w, i, S) = After(w, i + 1, S)
  BY <1>1, AfterStep
<1>3. After(w, i + 1, S) \in i + 1 .. Len(w) + 1
  BY <1>1, AfterIs
<1>. QED
  BY <1>2, <1>3

LEMMA NumeralEnds ==
  ASSUME NEW w \in Seq(Char), NEW i \in 1 .. Len(w), w[i] \in Digits \cup {"."}
  PROVE  NumeralEnd(w, i) \in i + 1 .. Len(w) + 1
<1>. DEFINE mantissa == After(w, i, Digits \cup {"."})
            sign == mantissa + 1
            rest == IF CharAt(w, mantissa) # "e" THEN mantissa
                    ELSE IF CharAt(w, sign) = "-" THEN sign + 1 ELSE sign
<1>1. Len(w) \in Nat /\ i \in Nat /\ i >= 1 /\ EOZ \notin Digits \cup {"."} /\ EOZ \notin Alnum
  BY DEF EOZ, Digits, Alnum, Initials, Letters
<1>2. mantissa \in i + 1 .. Len(w) + 1
  BY <1>1, RunEnds
<1>. HIDE DEF mantissa
<1>3. rest \in i + 1 .. Len(w) + 1
  <2>1. mantissa \in Nat \ {0} /\ sign \in Nat \ {0}
    BY <1>1, <1>2
  <2>2. CharAt(w, mantissa) = "e" => mantissa <= Len(w)
    BY <1>1, <2>1, CharsAt DEF EOZ
  <2>3. CharAt(w, sign) = "-" => sign <= Len(w)
    BY <1>1, <2>1, CharsAt DEF EOZ
  <2>. QED
    BY <1>1, <1>2, <2>2, <2>3
<1>4. NumeralEnd(w, i) = After(w, rest, Alnum)
  BY DEF NumeralEnd, mantissa
<1>. HIDE DEF rest
<1>5. rest \in 1 .. Len(w) + 1
  BY <1>1, <1>3
<1>6. After(w, rest, Alnum) \in rest .. Len(w) + 1
  BY <1>1, <1>5, AfterIs
<1>. QED
  BY <1>1, <1>3, <1>4, <1>6

LEMMA LexemeOK ==
  ASSUME NEW w \in Seq(Char), NEW i \in 1 .. Len(w)
  PROVE  ElementOK(w, Lexeme(w, i), i)
<1>. DEFINE c == w[i]  d == CharAt(w, i + 1)  x == Lexeme(w, i)  long == LongOpen(w, i)
<1>1. /\ Len(w) \in Nat /\ i \in Nat /\ i >= 1 /\ i <= Len(w) /\ c \in Char
      /\ i + 1 \in i + 1 .. Len(w) + 1 /\ i + 1 \in Nat \ {0}
  OBVIOUS
<1>2. d # EOZ => i + 2 \in i + 1 .. Len(w) + 1
  <2>1. d # EOZ => i + 1 <= Len(w)
    BY <1>1, CharsAt
  <2>. QED
    BY <1>1, <2>1
<1>0. ElementBy(w, i, c, d, x)
  BY LexemeIs
<1>. HIDE DEF c, d, x
<1>3. c \in Newlines \cup {Space} => x = Plain("part", <<>>, i + 1)
  BY <1>0 DEF ElementBy, Skipped
<1>4. c = "-" /\ d = "-" => x = Comment(w, i)
  BY <1>0 DEF ElementBy
<1>5. c = "[" /\ long => x = Enclosed(w, i)
  BY <1>0 DEF ElementBy
<1>6. c = "[" /\ ~long /\ d = "=" => x = Plain("error", "delimiter", After(w, i + 1, {"="}))
  BY <1>0 DEF ElementBy, Error
<1>7. c \in {"=", "<", "~"} /\ d = "=" => x = Plain("symbol", SubSeq(w, i, i + 2 - 1), i + 2)
  BY <1>0 DEF ElementBy, SymbolAt
<1>8. c \in Quotes => x = Quoted(w, i)
  BY <1>0 DEF ElementBy
<1>9. c \in Digits \/ (c = "." /\ d \in Digits) => x = Numeral(w, i)
  BY <1>0 DEF ElementBy
<1>10. c = "." /\ d \notin Digits => x = Dots(w, i)
  BY <1>0 DEF ElementBy
<1>11. c \in Initials => x = Word(w, i)
  BY <1>0 DEF ElementBy
<1>. DEFINE other == Alone(c, d, long)
<1>12. other => x = Plain("symbol", SubSeq(w, i, i + 1 - 1), i + 1)
  BY <1>0 DEF ElementBy, SymbolAt, long
<1>13. CASE c \in Newlines \cup {Space}
  BY <1>1, <1>3, <1>13, ElementIs DEF x, Kinds
<1>14. CASE c = "-" /\ d = "-"
  BY <1>4, <1>14, CommentOK DEF x, c, d
<1>15. CASE c = "[" /\ long
  BY <1>5, <1>15, EnclosedOK DEF x, long
<1>16. CASE c = "[" /\ ~long /\ d = "="
  BY <1>6, <1>16, ElementIs DEF x, Kinds
<1>17. CASE c \in {"=", "<", "~"} /\ d = "="
  <2>1. i + 2 \in i + 1 .. Len(w) + 1
    BY <1>2, <1>17 DEF EOZ
  <2>. QED
    BY <1>7, <1>17, <2>1, ElementIs DEF x, Kinds
<1>18. CASE c \in Quotes
  <2>1. RestOK(w, QuotedFrom(w, i)[i + 1], i + 1)
    BY <1>1, <1>18, QuotedOK DEF c
  <2>2. x = QuotedFrom(w, i)[i + 1]
    BY <1>8, <1>18 DEF Quoted
  <2>3. RestOK(w, x, i + 1)
    BY <2>1, <2>2
  <2>4. x.end \in i + 1 + 1 .. Len(w) + 1 => x.end \in i + 1 .. Len(w) + 1
    <3>. DEFINE e == x.end
    <3>. HIDE DEF e
    <3>1. e \in i + 1 + 1 .. Len(w) + 1 => e \in i + 1 .. Len(w) + 1
      BY <1>1
    <3>. QED
      BY <3>1 DEF e
  <2>. QED
    BY <2>3, <2>4 DEF RestOK, ElementOK, Kinds, x
<1>19. CASE c \in Digits \/ (c = "." /\ d \in Digits)
  <2>. DEFINE e == NumeralEnd(w, i)  v == SubSeq(w, i, e - 1)
  <2>1. e \in i + 1 .. Len(w) + 1
    BY <1>19, NumeralEnds DEF c
  <2>2. x = IF IsNumber(v) THEN Plain("<number>", v, e) ELSE Plain("error", "number", e)
    BY <1>9, <1>19 DEF Numeral, Error
  <2>. HIDE DEF e, v
  <2>3. IsNumber(v) => ElementOK(w, x, i)
    BY <2>1, <2>2, ElementIs DEF Kinds
  <2>4. ~IsNumber(v) => ElementOK(w, x, i)
    BY <2>1, <2>2, ElementIs DEF Kinds
  <2>. QED
    BY <2>3, <2>4 DEF x
<1>20. CASE c = "." /\ d \notin Digits
  <2>. DEFINE a == After(w, i, {"."})  n == IF a - i > 3 THEN 3 ELSE a - i
  <2>1. a \in i + 1 .. Len(w) + 1
    BY <1>20, RunEnds DEF c, EOZ
  <2>2. x = Plain("symbol", SubSeq(w, i, i + n - 1), i + n)
    BY <1>10, <1>20 DEF Dots, SymbolAt
  <2>. HIDE DEF a
  <2>3. i + n \in i + 1 .. Len(w) + 1
    BY <1>1, <2>1
  <2>. HIDE DEF n
  <2>. QED
    BY <2>2, <2>3, ElementIs DEF x, Kinds
<1>21. CASE c \in Initials
  <2>. DEFINE a == After(w, i, Alnum)  v == SubSeq(w, i, a - 1)
              k == IF v \in Reserved THEN "reserved" ELSE "<name>"
  <2>1. c \in Alnum /\ EOZ \notin Alnum
    BY <1>21 DEF Alnum, EOZ, Digits, Initials, Letters
  <2>2. a \in i + 1 .. Len(w) + 1
    BY <2>1, RunEnds DEF c
  <2>3. x = Plain(k, v, a)
    BY <1>11, <1>21 DEF Word
  <2>4. k \in Kinds /\ k # "error"
    BY DEF Kinds
  <2>. HIDE DEF a, v, k
  <2>. QED
    BY <2>2, <2>3, <2>4, ElementIs DEF x
<1>22. CASE other
  <2>. HIDE DEF other
  <2>. DEFINE v == SubSeq(w, i, i + 1 - 1)
  <2>1. x = Plain("symbol", v, i + 1)
    BY <1>12, <1>22
  <2>. HIDE DEF v
  <2>. QED
    BY <1>1, <2>1, ElementIs DEF x, Kinds
<1>23. c \in Newlines \cup Digits \cup Initials \cup Quotes
              \cup {Space, "-", "[", "]", "=", "<", "~", ".", Backslash, "#", NUL, SIGNATURE}
  BY <1>1 DEF Char, Characters, Alnum
<1>. DEFINE goal == ElementOK(w, Lexeme(w, i), i)
<1>. HIDE DEF goal
<1>25. goal
  <2>1. c \in Newlines \cup {Space} \cup Quotes \cup Initials \cup Digits => goal
    BY <1>13, <1>18, <1>19, <1>21 DEF goal
  <2>7. other => goal
    <3>. HIDE DEF other
    <3>. QED
      BY <1>22 DEF goal
  <2>2. c \in {"]", Backslash, NUL, "#", SIGNATURE} => goal
    BY <2>7 DEF Alone
  <2>3. c = "-" => goal
    BY <1>14, <2>7 DEF goal, Alone
  <2>4. c = "[" => goal
    BY <1>15, <1>16, <2>7 DEF goal, Alone
  <2>5. c \in {"=", "<", "~"} => goal
    BY <1>17, <2>7 DEF goal, Alone
  <2>6. c = "." => goal
    BY <1>19, <1>20 DEF goal
  <2>. QED
    BY <1>23, <2>1, <2>2, <2>3, <2>4, <2>5, <2>6
<1>. QED
  BY <1>25 DEF goal

-----------------------------------------------------------------------------
(* The tokens from a position on *)

EndToken(w) == Token(TK_EOS, <<>>, Line(w, Len(w) + 1))
LEMMA TokensIs ==
  ASSUME NEW w \in Seq(Char)
  PROVE  \A i \in 1 .. Len(w) + 1 :
           TokensFrom(w)[i] =
             IF i > Len(w) THEN << Token(TK_EOS, <<>>, Line(w, i)) >>
             ELSE LET x == Lexeme(w, i)
                  IN (IF x.kind = "part" THEN <<>> ELSE << Tokenized(w, x) >>)
                     \o (IF x.kind = "error" THEN <<>> ELSE TokensFrom(w)[x.end])
<1>. DEFINE X(i) == Lexeme(w, i)
            One(i) == << Token(TK_EOS, <<>>, Line(w, i)) >>
            P(i) == IF X(i).kind = "part" THEN <<>> ELSE << Tokenized(w, X(i)) >>
            B(f, i) == IF i > Len(w) THEN One(i)
                       ELSE P(i) \o (IF X(i).kind = "error" THEN <<>> ELSE f[X(i).end])
            n == Len(w) + 1
            D(m) == {i \in 1 .. n : i + m >= n}
            E == {m \in Nat : \E f : f = [i \in D(m) |-> B(f, i)]}
<1>0. Len(w) \in Nat /\ n \in Nat /\ n = Len(w) + 1
  OBVIOUS
<1>1. ASSUME NEW i \in 1 .. n, ~(i > Len(w)), X(i).kind # "error" PROVE X(i).end \in i + 1 .. n
  <2>1. i \in 1 .. Len(w)
    BY <1>0, <1>1
  <2>2. ElementOK(w, X(i), i)
    BY <2>1, LexemeOK
  <2>. QED
    BY <1>1, <2>2 DEF ElementOK
<1>2. 0 \in E
  <2>. DEFINE f == [i \in D(0) |-> One(i)]
  <2>1. ASSUME NEW i \in D(0) PROVE One(i) = B(f, i)
    <3>1. i > Len(w)
      BY <1>0
    <3>. QED
      BY <3>1
  <2>. HIDE DEF B, D
  <2>2. f = [i \in D(0) |-> B(f, i)]
    BY <2>1
  <2>. HIDE DEF f
  <2>3. \E h : h = [i \in D(0) |-> B(h, i)]
    BY <2>2
  <2>. QED
    BY <2>3
<1>3. ASSUME NEW m \in E PROVE m + 1 \in E
  <2>1. PICK f : f = [i \in D(m) |-> B(f, i)]
    OBVIOUS
  <2>. DEFINE g == [i \in D(m + 1) |-> B(f, i)]
  <2>2. ASSUME NEW i \in D(m + 1) PROVE B(f, i) = B(g, i)
    <3>1. CASE ~(i > Len(w)) /\ X(i).kind # "error"
      <4>. DEFINE e == X(i).end
      <4>1. e \in i + 1 .. n
        BY <1>1, <3>1
      <4>. HIDE DEF e, n
      <4>2. e \in D(m) /\ e \in D(m + 1)
        BY <1>0, <4>1
      <4>. HIDE DEF B, D
      <4>3. f[e] = B(f, e)
        BY <2>1, <4>2
      <4>4. g[e] = B(f, e)
        BY <4>2
      <4>5. f[e] = g[e]
        BY <4>3, <4>4
      <4>. HIDE DEF g
      <4>. QED
        BY <4>5 DEF B, e
    <3>. QED
      BY <3>1
  <2>. HIDE DEF B, D
  <2>3. g = [i \in D(m + 1) |-> B(g, i)]
    BY <2>2
  <2>. HIDE DEF g
  <2>4. \E h : h = [i \in D(m + 1) |-> B(h, i)]
    BY <2>3
  <2>. QED
    BY <2>4
<1>4. E = Nat
  <2>1. E \in SUBSET Nat
    OBVIOUS
  <2>. HIDE DEF E
  <2>. QED
    BY <1>2, <1>3, <2>1, Induct
<1>5. \E f : f = [i \in 1 .. n |-> B(f, i)]
  <2>1. D(n) = 1 .. n
    BY <1>0
  <2>. HIDE DEF D, B, n
  <2>2. n \in E
    BY <1>0, <1>4
  <2>3. \E f : f = [i \in D(n) |-> B(f, i)]
    BY <2>2
  <2>. QED
    BY <2>1, <2>3
<1>6. TokensFrom(w) = CHOOSE f : f = [i \in 1 .. n |-> B(f, i)]
  BY DEF TokensFrom
<1>. DEFINE F == TokensFrom(w)
<1>7. F = [i \in 1 .. n |-> B(F, i)]
  <2>. HIDE DEF B, n
  <2>. QED
    BY <1>5, <1>6
<1>8. ASSUME NEW i \in 1 .. n PROVE F[i] = B(F, i)
  <2>. HIDE DEF B, n, F
  <2>. QED
    BY <1>7
<1>. QED
  BY <1>8

\* The tokens that a text may have.
TokensOf(w) == {EndToken(w)} \cup {Tokenized(w, Lexeme(w, i)) : i \in 1 .. Len(w)}

LEMMA TokensTypes ==
  ASSUME NEW w \in Seq(Char)
  PROVE  \A i \in 1 .. Len(w) + 1 : TokensFrom(w)[i] \in Seq(TokensOf(w))
<1>. DEFINE X(i) == Lexeme(w, i)  F == TokensFrom(w)  S == Seq(TokensOf(w))
            P(i) == IF X(i).kind = "part" THEN <<>> ELSE << Tokenized(w, X(i)) >>
            n == Len(w) + 1
            E == {m \in Nat : \A i \in 1 .. n : i + m >= n => F[i] \in S}
<1>0. Len(w) \in Nat /\ n \in Nat /\ n = Len(w) + 1
  OBVIOUS
<1>1. F[n] \in S
  <2>1. n \in 1 .. Len(w) + 1 /\ n > Len(w)
    BY <1>0
  <2>2. F[n] = << Token(TK_EOS, <<>>, Line(w, n)) >>
    BY <2>1, TokensIs
  <2>3. F[n] = << EndToken(w) >>
    BY <2>2 DEF EndToken
  <2>4. EndToken(w) \in TokensOf(w)
    BY DEF TokensOf
  <2>. HIDE DEF F, n
  <2>. QED
    BY <2>3, <2>4
<1>2. ASSUME NEW i \in 1 .. Len(w)
      PROVE  /\ P(i) \in S
             /\ F[i] = P(i) \o (IF X(i).kind = "error" THEN <<>> ELSE F[X(i).end])
             /\ X(i).kind # "error" => X(i).end \in i + 1 .. n
  <2>1. Tokenized(w, X(i)) \in TokensOf(w)
    BY DEF TokensOf
  <2>2. P(i) \in S
    BY <2>1
  <2>3. i \in 1 .. Len(w) + 1 /\ ~(i > Len(w))
    BY <1>0
  <2>4. F[i] = P(i) \o (IF X(i).kind = "error" THEN <<>> ELSE F[X(i).end])
    BY <2>3, TokensIs
  <2>5. ElementOK(w, X(i), i)
    BY LexemeOK
  <2>. QED
    BY <2>2, <2>4, <2>5 DEF ElementOK
<1>. HIDE DEF F, P
<1>3. 0 \in E
  <2>1. ASSUME NEW i \in 1 .. n, i + 0 >= n PROVE i = n
    BY <1>0, <2>1
  <2>. QED
    BY <1>1, <2>1
<1>4. ASSUME NEW m \in E PROVE m + 1 \in E
  <2>1. ASSUME NEW i \in 1 .. n, i + (m + 1) >= n PROVE F[i] \in S
    <3>1. CASE i = n
      BY <1>1, <3>1
    <3>2. CASE i # n /\ X(i).kind = "error"
      <4>1. i \in 1 .. Len(w)
        BY <1>0, <3>2
      <4>2. P(i) \in S
        BY <1>2, <4>1
      <4>3. F[i] = P(i) \o <<>>
        BY <1>2, <3>2, <4>1
      <4>. DEFINE q == P(i)
      <4>. HIDE DEF q
      <4>4. q \in Seq(TokensOf(w)) => q \o <<>> = q
        BY ConcatEmptySeq
      <4>. QED
        BY <4>2, <4>3, <4>4 DEF q
    <3>3. CASE i # n /\ X(i).kind # "error"
      <4>. DEFINE e == X(i).end
      <4>1. i \in 1 .. Len(w)
        BY <1>0, <3>3
      <4>2. e \in i + 1 .. n
        BY <1>2, <3>3, <4>1
      <4>3. F[i] = P(i) \o F[e] /\ P(i) \in S
        BY <1>2, <3>3, <4>1
      <4>. HIDE DEF e
      <4>4. e \in 1 .. n /\ e + m >= n
        <5>. HIDE DEF n
        <5>. QED
          BY <1>0, <2>1, <4>2
      <4>5. F[e] \in S
        BY <4>4
      <4>. QED
        BY <4>3, <4>5
    <3>. QED
      BY <3>1, <3>2, <3>3
  <2>. QED
    BY <2>1
<1>5. E = Nat
  <2>1. E \in SUBSET Nat
    OBVIOUS
  <2>. HIDE DEF E
  <2>. QED
    BY <1>3, <1>4, <2>1, Induct
<1>6. ASSUME NEW i \in 1 .. n PROVE F[i] \in S
  <2>1. n \in E /\ i + n >= n
    BY <1>0, <1>5
  <2>. QED
    BY <2>1
<1>. QED
  BY <1>6 DEF F

\* toks are the tokens up to position i: those from there on are still to come.
Owed(toks, w, i) ==
  /\ i \in 1 .. Len(w) + 1 /\ toks \in Seq(TokensOf(w))
  /\ toks \o TokensFrom(w)[i] = Tokens(w)

LEMMA OwedAtStart ==
  ASSUME NEW w \in Seq(Char) PROVE Owed(<<>>, w, 1)
<1>1. 1 \in 1 .. Len(w) + 1
  OBVIOUS
<1>2. TokensFrom(w)[1] \in Seq(TokensOf(w))
  BY <1>1, TokensTypes
<1>3. <<>> \o TokensFrom(w)[1] = TokensFrom(w)[1]
  BY <1>2, ConcatEmptySeq
<1>. QED
  BY <1>1, <1>3 DEF Owed, Tokens

LEMMA OwedSkip ==
  ASSUME NEW w \in Seq(Char), NEW i \in 1 .. Len(w), NEW toks, Owed(toks, w, i),
         NEW v, NEW p, Lexeme(w, i) = Plain("part", v, p)
  PROVE  p \in i + 1 .. Len(w) + 1 /\ Owed(toks, w, p)
<1>1. i \in 1 .. Len(w) + 1 /\ ~(i > Len(w)) /\ i \in Nat /\ Len(w) \in Nat
  OBVIOUS
<1>2. Lexeme(w, i).kind = "part" /\ Lexeme(w, i).end = p
  BY PlainFields
<1>3. p \in i + 1 .. Len(w) + 1
  BY <1>2, LexemeOK DEF ElementOK
<1>4. p \in 1 .. Len(w) + 1
  BY <1>1, <1>3
<1>5. TokensFrom(w)[i] = <<>> \o TokensFrom(w)[p]
  BY <1>1, <1>2, TokensIs
<1>6. TokensFrom(w)[p] \in Seq(TokensOf(w))
  BY <1>4, TokensTypes
<1>7. TokensFrom(w)[i] = TokensFrom(w)[p]
  BY <1>5, <1>6, ConcatEmptySeq
<1>. QED
  BY <1>3, <1>4, <1>7 DEF Owed

LEMMA OwedToken ==
  ASSUME NEW w \in Seq(Char), NEW i \in 1 .. Len(w), NEW toks, Owed(toks, w, i),
         NEW k, k # "part", k # "error", NEW v, NEW p, Lexeme(w, i) = Plain(k, v, p)
  PROVE  /\ p \in i + 1 .. Len(w) + 1 /\ Owed(Append(toks, Token(k, v, Line(w, p))), w, p)
         /\ k # TK_EOS
<1>. DEFINE x == Lexeme(w, i)  t == Token(k, v, Line(w, p))  S == TokensOf(w)  f == TokensFrom(w)[p]
<1>1. i \in 1 .. Len(w) + 1 /\ ~(i > Len(w)) /\ i \in Nat /\ Len(w) \in Nat
  OBVIOUS
<1>2. x.kind = k /\ x.end = p /\ x.value = v
  BY PlainFields
<1>3. p \in i + 1 .. Len(w) + 1 /\ k \in Kinds
  BY <1>2, LexemeOK DEF ElementOK
<1>4. p \in 1 .. Len(w) + 1
  BY <1>1, <1>3
<1>5. TokensFrom(w)[i] = <<Tokenized(w, x)>> \o f
  BY <1>1, <1>2, TokensIs
<1>6. Tokenized(w, x) = t
  BY <1>2 DEF Tokenized
<1>7. f \in Seq(S)
  BY <1>4, TokensTypes
<1>8. t \in S
  BY <1>6 DEF TokensOf
<1>9. toks \in Seq(S) /\ toks \o (<<t>> \o f) = Tokens(w)
  BY <1>5, <1>6 DEF Owed
<1>. HIDE DEF t, S, f
<1>10. <<t>> \in Seq(S)
  BY <1>8
<1>11. (toks \o <<t>>) \o f = Tokens(w)
  <2>. DEFINE u == <<t>>
  <2>1. u \in Seq(S) /\ toks \in Seq(S) /\ f \in Seq(S)
    BY <1>7, <1>9, <1>10
  <2>. HIDE DEF u
  <2>2. (toks \o u) \o f = toks \o (u \o f)
    BY <2>1, ConcatAssociative, SMTT(20)
  <2>. QED
    BY <1>9, <2>2 DEF u
<1>12. Append(toks, t) = toks \o <<t>> /\ Append(toks, t) \in Seq(S)
  BY <1>8, <1>9
<1>13. Append(toks, t) \o f = Tokens(w)
  BY <1>11, <1>12
<1>14. k # TK_EOS
  BY <1>3 DEF Kinds, TK_EOS
<1>. QED
  BY <1>3, <1>4, <1>12, <1>13, <1>14 DEF Owed, t, S, f

LEMMA OwedError ==
  ASSUME NEW w \in Seq(Char), NEW i \in 1 .. Len(w), NEW toks, Owed(toks, w, i),
         NEW v, NEW p, Lexeme(w, i) = Plain("error", v, p)
  PROVE  Append(toks, Token("error", v, Line(w, p))) = Tokens(w)
<1>. DEFINE x == Lexeme(w, i)  t == Token("error", v, Line(w, p))  S == TokensOf(w)
<1>1. i \in 1 .. Len(w) + 1 /\ ~(i > Len(w))
  OBVIOUS
<1>2. x.kind = "error" /\ x.end = p /\ x.value = v
  BY PlainFields
<1>3. TokensFrom(w)[i] = <<Tokenized(w, x)>> \o <<>>
  BY <1>1, <1>2, TokensIs
<1>4. Tokenized(w, x) = t
  BY <1>2 DEF Tokenized
<1>5. t \in S
  BY <1>4 DEF TokensOf
<1>6. toks \in Seq(S) /\ toks \o (<<t>> \o <<>>) = Tokens(w)
  BY <1>3, <1>4 DEF Owed
<1>. HIDE DEF t, S
<1>7. <<t>> \in Seq(S)
  BY <1>5
<1>8. toks \o <<t>> = Tokens(w)
  BY <1>6, <1>7, ConcatEmptySeq
<1>9. Append(toks, t) = toks \o <<t>>
  BY <1>5, <1>6
<1>. QED
  BY <1>8, <1>9 DEF t

LEMMA OwedEnd ==
  ASSUME NEW w \in Seq(Char), NEW toks, Owed(toks, w, Len(w) + 1)
  PROVE  Append(toks, EndToken(w)) = Tokens(w)
<1>. DEFINE t == EndToken(w)  S == TokensOf(w)  n == Len(w) + 1
<1>1. n \in 1 .. Len(w) + 1 /\ n > Len(w)
  OBVIOUS
<1>2. TokensFrom(w)[n] = << Token(TK_EOS, <<>>, Line(w, n)) >>
  BY <1>1, TokensIs
<1>3. TokensFrom(w)[n] = <<t>>
  BY <1>2 DEF EndToken
<1>4. toks \in Seq(S) /\ toks \o <<t>> = Tokens(w)
  BY <1>3 DEF Owed
<1>5. t \in S
  BY DEF TokensOf
<1>. HIDE DEF t, S
<1>6. Append(toks, t) = toks \o <<t>>
  BY <1>4, <1>5
<1>. QED
  BY <1>4, <1>6 DEF t

-----------------------------------------------------------------------------
(* Where llex is in an element of the text *)

NewlinesOf(w) == { j \in DOMAIN w : w[j] \in Newlines }
Dashes(w, i) == w[i] = "-" /\ CharAt(w, i + 1) = "-"

\* The characters from i to p belong to S, as far as S goes on at i.
RunOf(w, i, p, S) == i <= p /\ After(w, i, S) = After(w, p, S)

InScan(l, i, p) == l.mode = "scan" /\ i = p /\ l.buff = <<>>

InShort(l, w, i, p) ==
  /\ l.mode = "short" /\ i \in 1 .. Len(w) /\ l.buff = <<>>
  /\ Lexeme(w, i) = Plain("part", <<>>, First(w, p, NewlinesOf(w)))

InName(l, w, i, p) ==
  /\ l.mode = "name" /\ i \in 1 .. Len(w) /\ w[i] \in Initials
  /\ RunOf(w, i, p, Alnum) /\ l.buff = SubSeq(w, i, p - 1)

InNumeral(l, w, i, p) ==
  /\ l.mode = "numeral" /\ i \in 1 .. Len(w) /\ w[i] \in Digits \cup {"."}
  /\ Lexeme(w, i) = Numeral(w, i)
  /\ RunOf(w, i, p, Digits \cup {"."}) /\ l.buff = SubSeq(w, i, p - 1)

InSuffix(l, w, i, p) ==
  /\ l.mode = "suffix" /\ i \in 1 .. Len(w) /\ w[i] \in Digits \cup {"."}
  /\ Lexeme(w, i) = Numeral(w, i)
  /\ i <= p /\ NumeralEnd(w, i) = After(w, p, Alnum) /\ l.buff = SubSeq(w, i, p - 1)

\* j is where the part of the string begins that is being read.
StringTo(l, w, i, j) ==
  /\ i \in 1 .. Len(w) /\ w[i] \in Quotes /\ Lexeme(w, i) = Quoted(w, i) /\ l.del = w[i]
  /\ j \in i + 1 .. Len(w) + 1
  /\ \E v : ReadUpTo(w, i, v, j) /\ l.buff = <<w[i]>> \o v

InString(l, w, i, p) == l.mode = "string" /\ StringTo(l, w, i, p)

InDecimal(l, w, i, p) ==
  /\ l.mode = "decimal" /\ l.count \in 0 .. 3
  /\ LET j == p - 1 - l.count
     IN /\ StringTo(l, w, i, j) /\ CharAt(w, j) = Backslash /\ CharAt(w, j + 1) \in Digits
        /\ l.code = Decimal(SubSeq(w, j + 1, p - 1))
        /\ RunOf(w, j + 1, p, Digits)

\* A bracket at j with count `=' behind it.
Equals(l, w, j, p) ==
  /\ l.count \in Nat /\ p = j + 1 + l.count /\ j \in 1 .. Len(w) /\ w[j] = l.bracket
  /\ \A h \in j + 1 .. p - 1 : w[h] = "="

InSepOfToken(l, w, i, p) ==
  /\ l.mode = "sep" /\ l.caller = "token" /\ Equals(l, w, i, p) /\ w[i] = "["
  /\ l.buff = SubSeq(w, i, p - 1)

InSepOfComment(l, w, i, p) ==
  /\ l.mode = "sep" /\ l.caller = "comment" /\ i \in 1 .. Len(w) /\ Dashes(w, i)
  /\ Equals(l, w, i + 2, p) /\ w[i + 2] = "["

\* The long bracket of a string or a comment begins at b.
LongAt(l, w, i, b) ==
  /\ i \in 1 .. Len(w) /\ b \in 1 .. Len(w) /\ LongOpen(w, b) /\ l.sep = Level(w, b)
  /\ IF l.comment THEN b = i + 2 /\ Dashes(w, i) ELSE b = i

InOpening(l, w, i, p) ==
  /\ l.mode = "opening"
  /\ \E b \in i .. i + 2 :
       /\ LongAt(l, w, i, b) /\ p = b + l.sep + 1
       /\ ~l.comment => l.buff = SubSeq(w, b, p - 1)

\* Nothing before j closes it, nor is nested in it.
OpenAt(w, b, j) ==
  /\ Inside(w, b) <= j
  /\ First(w, Inside(w, b), Closes(w, b)) = First(w, j, Closes(w, b))
  /\ First(w, Inside(w, b), Nests(w, b)) = First(w, j, Nests(w, b))

\* The buffer has the opening and the text of a long string.
HasRead(l, w, b, p) ==
  ~l.comment => \E h \in Seq(Char) : Len(h) = l.sep + 2 /\ l.buff = h \o Content(w, Inside(w, b), p)

InLong(l, w, i, p) ==
  /\ l.mode = "long"
  /\ \E b \in i .. i + 2 : LongAt(l, w, i, b) /\ OpenAt(w, b, p) /\ HasRead(l, w, b, p)

InSepOfLong(l, w, i, p) ==
  /\ l.mode = "sep" /\ l.caller = "long" /\ l.bracket \in {"[", "]"}
  /\ \E b \in i .. i + 2 : \E j \in 1 .. Len(w) :
       LongAt(l, w, i, b) /\ Equals(l, w, j, p) /\ OpenAt(w, b, j) /\ HasRead(l, w, b, p)

InSame(l, w, i, p) ==
  /\ l.mode = "same" /\ l.bracket \in {"[", "]"}
  /\ \E b \in i .. i + 2 : \E j \in 1 .. Len(w) :
       /\ LongAt(l, w, i, b) /\ p = j + l.sep + 2 /\ Bracket(w, j, l.bracket, l.sep)
       /\ OpenAt(w, b, j) /\ HasRead(l, w, b, p)

\* llex has come from the beginning i of an element to p.
Between(l, w, i, p) ==
  \/ InScan(l, i, p) \/ InShort(l, w, i, p) \/ InName(l, w, i, p) \/ InNumeral(l, w, i, p)
  \/ InSuffix(l, w, i, p) \/ InString(l, w, i, p) \/ InDecimal(l, w, i, p)
  \/ InSepOfToken(l, w, i, p) \/ InSepOfComment(l, w, i, p) \/ InSepOfLong(l, w, i, p)
  \/ InOpening(l, w, i, p) \/ InLong(l, w, i, p) \/ InSame(l, w, i, p)

\* What the parser has got, and what comes next.
InElement(l, toks, w) ==
  /\ l.lookAhead.kind = TK_EOS /\ (l.ahead => l.t.kind # TK_EOS)
  /\ \E i, p \in 1 .. Len(w) + 1 : Owed(toks, w, i) /\ Stands(l, w, p) /\ Between(l, w, i, p)

Waiting(l, toks, w) ==
  IF l.t.kind = TK_EOS /\ toks # <<>> THEN toks = Tokens(w)
  ELSE /\ l.ahead \/ l.lookAhead.kind = TK_EOS
       /\ \E p \in 1 .. Len(w) + 1 :
            /\ Stands(l, w, p)
            /\ Owed(IF l.lookAhead.kind = TK_EOS THEN toks ELSE Append(toks, l.lookAhead), w, p)

TokensInv ==
  \/ Binary(ls)
  \/ ls.mode = "failed" /\ tokens = Tokens(Chunk(chunk))
  \/ ls.mode = "idle" /\ Waiting(ls, tokens, Chunk(chunk))
  \/ ls.mode \notin {"failed", "idle"} /\ InElement(ls, tokens, Chunk(chunk))

-----------------------------------------------------------------------------
(* Steps of llex *)

\* llex has come to p in the element at i, toks being the tokens before it.
Elem(l, toks, w, i, p) ==
  /\ Owed(toks, w, i) /\ Stands(l, w, p)
  /\ l.lookAhead.kind = TK_EOS /\ (l.ahead => l.t.kind # TK_EOS)

Carries(m, l) == m.lookAhead = l.lookAhead /\ m.ahead = l.ahead /\ m.t = l.t

\* What the parser has got after a turn of llex.
Got(toks, m) == IF m.mode \in {"idle", "failed"} /\ ~m.ahead THEN Append(toks, m.t) ELSE toks

Good(m, toks, w) ==
  \/ m.mode = "failed" /\ toks = Tokens(w)
  \/ m.mode = "idle" /\ Waiting(m, toks, w)
  \/ m.mode \notin {"failed", "idle"} /\ InElement(m, toks, w)

LEMMA ElemTo ==
  ASSUME NEW l, NEW toks, NEW w, NEW i, NEW p, Elem(l, toks, w, i, p),
         NEW m, NEW q, Carries(m, l), Stands(m, w, q)
  PROVE  Elem(m, toks, w, i, q)
BY DEF Elem, Carries

LEMMA GoesOn ==
  ASSUME NEW m, NEW toks, NEW w, NEW i, NEW p, Elem(m, toks, w, i, p),
         m.mode \notin {"failed", "idle"}, Between(m, w, i, p)
  PROVE  Good(m, Got(toks, m), w)
<1>1. i \in 1 .. Len(w) + 1 /\ p \in 1 .. Len(w) + 1
  BY DEF Elem, Owed, Stands, Placed
<1>2. InElement(m, toks, w)
  BY <1>1 DEF Elem, InElement
<1>. QED
  BY <1>2 DEF Good, Got

LEMMA Skips ==
  ASSUME NEW w \in Seq(Char), NEW m, NEW toks, NEW i \in 1 .. Len(w), NEW p, Elem(m, toks, w, i, p),
         m.mode = "scan", m.buff = <<>>, Lexeme(w, i) = Plain("part", <<>>, p)
  PROVE  Good(m, Got(toks, m), w)
<1>1. Owed(toks, w, p)
  BY OwedSkip DEF Elem
<1>2. Elem(m, toks, w, p, p)
  BY <1>1 DEF Elem
<1>3. Between(m, w, p, p)
  BY DEF Between, InScan
<1>. QED
  BY <1>2, <1>3, GoesOn

LEMMA ReturnIs ==
  ASSUME NEW m, IsLex(m), NEW k, NEW v
  PROVE  LET r == Return(m, k, v)
             token == Token(k, v, m.lineNumber)
         IN /\ IsLex(r) /\ r.mode = "idle" /\ r.z = m.z /\ r.lineNumber = m.lineNumber /\ r.ahead = m.ahead
            /\ m.ahead => r.lookAhead = token /\ r.t = m.t
            /\ ~m.ahead => r.t = token /\ r.lookAhead = m.lookAhead
BY DEF Return, IsLex, LexFields

LEMMA Returns ==
  ASSUME NEW w \in Seq(Char), NEW m, NEW toks, NEW i \in 1 .. Len(w), NEW p, Elem(m, toks, w, i, p),
         NEW k, k # "part", k # "error", NEW v, Lexeme(w, i) = Plain(k, v, p),
         NEW r, r = Return(m, k, v)
  PROVE  Good(r, Got(toks, r), w)
<1>. DEFINE token == Token(k, v, Line(w, p))
<1>1. Owed(toks, w, i) /\ Stands(m, w, p) /\ IsLex(m) /\ m.lineNumber = Line(w, p)
  BY DEF Elem, Stands
<1>2. p \in 1 .. Len(w) + 1 /\ Owed(Append(toks, token), w, p) /\ k # TK_EOS
  BY <1>1, OwedToken DEF Owed
<1>3. /\ IsLex(r) /\ r.mode = "idle" /\ r.z = m.z /\ r.lineNumber = m.lineNumber /\ r.ahead = m.ahead
      /\ m.ahead => r.lookAhead = token /\ r.t = m.t
      /\ ~m.ahead => r.t = token /\ r.lookAhead = m.lookAhead
  BY <1>1, ReturnIs
<1>4. Stands(r, w, p)
  BY <1>1, <1>3, StandsToo
<1>5. token.kind = k
  BY DEF Token
<1>. HIDE DEF token
<1>6. CASE m.ahead
  <2>1. Got(toks, r) = toks /\ r.t.kind # TK_EOS /\ r.lookAhead = token /\ r.lookAhead.kind # TK_EOS
    BY <1>2, <1>3, <1>5, <1>6 DEF Got, Elem
  <2>2. Waiting(r, toks, w)
    BY <1>2, <1>3, <1>4, <1>6, <2>1 DEF Waiting
  <2>. QED
    BY <1>3, <2>1, <2>2 DEF Good
<1>7. CASE ~m.ahead
  <2>1. Got(toks, r) = Append(toks, token) /\ r.t.kind # TK_EOS /\ r.lookAhead.kind = TK_EOS
    BY <1>2, <1>3, <1>5, <1>7 DEF Got, Elem
  <2>2. Waiting(r, Append(toks, token), w)
    BY <1>2, <1>4, <2>1 DEF Waiting
  <2>. QED
    BY <1>3, <2>1, <2>2 DEF Good
<1>. QED
  BY <1>6, <1>7

LEMMA ReturnsEnd ==
  ASSUME NEW w \in Seq(Char), NEW m, NEW toks, NEW p, Elem(m, toks, w, p, p), p = Len(w) + 1,
         NEW r, r = Return(m, TK_EOS, <<>>)
  PROVE  Good(r, Got(toks, r), w)
<1>. DEFINE token == EndToken(w)
<1>1. Owed(toks, w, p) /\ Stands(m, w, p) /\ IsLex(m) /\ m.lineNumber = Line(w, p)
  BY DEF Elem, Stands
<1>2. /\ IsLex(r) /\ r.mode = "idle" /\ r.z = m.z /\ r.lineNumber = m.lineNumber /\ r.ahead = m.ahead
      /\ m.ahead => r.lookAhead = token /\ r.t = m.t
      /\ ~m.ahead => r.t = token /\ r.lookAhead = m.lookAhead
  BY <1>1, ReturnIs DEF EndToken
<1>3. Stands(r, w, p) /\ p \in 1 .. Len(w) + 1
  BY <1>1, <1>2, StandsToo DEF Owed
<1>4. token.kind = TK_EOS
  BY DEF Token, EndToken
<1>5. Append(toks, token) = Tokens(w)
  BY <1>1, OwedEnd
<1>6. Append(toks, token) # <<>>
  <2>1. toks \in Seq(TokensOf(w))
    BY <1>1 DEF Owed
  <2>2. token \in TokensOf(w)
    BY DEF TokensOf
  <2>. HIDE DEF token
  <2>. QED
    BY <2>1, <2>2
<1>. HIDE DEF token
<1>7. CASE m.ahead
  <2>1. Got(toks, r) = toks /\ r.t.kind # TK_EOS /\ r.lookAhead.kind = TK_EOS
    BY <1>2, <1>4, <1>7 DEF Got, Elem
  <2>2. Waiting(r, toks, w)
    BY <1>1, <1>2, <1>3, <1>7, <2>1 DEF Waiting
  <2>. QED
    BY <1>2, <2>1, <2>2 DEF Good
<1>8. CASE ~m.ahead
  <2>1. Got(toks, r) = Append(toks, token) /\ r.t.kind = TK_EOS
    BY <1>2, <1>4, <1>8 DEF Got
  <2>2. Waiting(r, Append(toks, token), w)
    BY <1>5, <1>6, <2>1 DEF Waiting
  <2>. QED
    BY <1>2, <2>1, <2>2 DEF Good
<1>. QED
  BY <1>7, <1>8

LEMMA Fails ==
  ASSUME NEW w \in Seq(Char), NEW m, NEW toks, NEW i \in 1 .. Len(w), NEW p, Elem(m, toks, w, i, p),
         NEW v, Lexeme(w, i) = Plain("error", v, p), NEW r, r = LexError(m, v)
  PROVE  Good(r, Got(toks, r), w)
<1>1. Owed(toks, w, i) /\ IsLex(m) /\ m.lineNumber = Line(w, p)
  BY DEF Elem, Stands
<1>2. r.mode = "failed" /\ ~r.ahead /\ r.t = Token("error", v, Line(w, p))
  BY <1>1 DEF LexError, IsLex, LexFields
<1>3. Got(toks, r) = Tokens(w)
  BY <1>1, <1>2, OwedError DEF Got
<1>. QED
  BY <1>2, <1>3 DEF Good

-----------------------------------------------------------------------------
(* Moving on in an element *)

\* What In and the other changes of one field leave alone.
Rest(m, l) ==
  /\ m.caller = l.caller /\ m.bracket = l.bracket /\ m.count = l.count /\ m.sep = l.sep
  /\ m.comment = l.comment /\ m.del = l.del /\ m.code = l.code

LEMMA OneMore ==
  ASSUME NEW w \in Seq(Char), NEW l, NEW toks, NEW i, NEW p \in 1 .. Len(w), Elem(l, toks, w, i, p),
         w[p] \notin Newlines
  PROVE  /\ Elem(NextChar(l), toks, w, i, p + 1) /\ Elem(SaveAndNext(l), toks, w, i, p + 1)
         /\ NextChar(l).mode = l.mode /\ NextChar(l).buff = l.buff /\ Rest(NextChar(l), l)
         /\ SaveAndNext(l).mode = l.mode /\ SaveAndNext(l).buff = Append(l.buff, w[p]) /\ Rest(SaveAndNext(l), l)
<1>1. Stands(l, w, p)
  BY DEF Elem
<1>2. /\ Stands(NextChar(l), w, p + 1) /\ Alike(NextChar(l), l) /\ NextChar(l).buff = l.buff
      /\ Stands(SaveAndNext(l), w, p + 1) /\ Alike(SaveAndNext(l), l)
      /\ SaveAndNext(l).buff = Append(l.buff, w[p])
  BY <1>1, NextStands
<1>. DEFINE m == NextChar(l)  n == SaveAndNext(l)
<1>. HIDE DEF m, n
<1>3. Carries(m, l) /\ Carries(n, l) /\ Rest(m, l) /\ Rest(n, l) /\ m.mode = l.mode /\ n.mode = l.mode
  BY <1>2 DEF Alike, Carries, Rest, m, n
<1>4. Elem(m, toks, w, i, p + 1) /\ Elem(n, toks, w, i, p + 1)
  BY <1>2, <1>3, ElemTo DEF m, n
<1>. QED
  BY <1>2, <1>3, <1>4 DEF m, n

LEMMA BreakMore ==
  ASSUME NEW w \in Seq(Char), NEW l, NEW toks, NEW i, NEW p \in 1 .. Len(w), Elem(l, toks, w, i, p),
         w[p] \in Newlines
  PROVE  LET m == IncLineNumber(l)
         IN /\ Elem(m, toks, w, i, PastBreak(w, p)) /\ PastBreak(w, p) \in p + 1 .. Len(w) + 1
            /\ m.mode = l.mode /\ m.buff = l.buff /\ Rest(m, l)
<1>. DEFINE m == IncLineNumber(l)
<1>1. Stands(l, w, p)
  BY DEF Elem
<1>2. Stands(m, w, PastBreak(w, p)) /\ Alike(m, l) /\ m.buff = l.buff
  BY <1>1, IncStands
<1>. HIDE DEF m
<1>3. Carries(m, l) /\ Rest(m, l) /\ m.mode = l.mode
  BY <1>2 DEF Alike, Carries, Rest
<1>4. Elem(m, toks, w, i, PastBreak(w, p))
  BY <1>2, <1>3, ElemTo
<1>. QED
  BY <1>2, <1>3, <1>4, PastBreakBound DEF m

LEMMA SaveMore ==
  ASSUME NEW w, NEW l, NEW toks, NEW i, NEW p, Elem(l, toks, w, i, p), NEW c
  PROVE  /\ Elem(Save(l, c), toks, w, i, p) /\ Save(l, c).mode = l.mode /\ Save(l, c).buff = Append(l.buff, c)
         /\ Rest(Save(l, c), l)
<1>1. Stands(l, w, p)
  BY DEF Elem
<1>. DEFINE m == Save(l, c)
<1>0. Stands(m, w, p) /\ Saved(m, l, c)
  BY <1>1, SaveStands
<1>2. Stands(m, w, p) /\ Alike(m, l) /\ m.buff = Append(l.buff, c)
  BY <1>0 DEF Saved
<1>. HIDE DEF m
<1>3. Carries(m, l) /\ Rest(m, l) /\ m.mode = l.mode
  BY <1>2 DEF Alike, Carries, Rest
<1>4. Elem(m, toks, w, i, p)
  BY <1>1, <1>2, <1>3, ElemTo
<1>. QED
  BY <1>2, <1>3, <1>4 DEF m

LEMMA ResetMore ==
  ASSUME NEW w, NEW l, NEW toks, NEW i, NEW p, Elem(l, toks, w, i, p)
  PROVE  Elem(Reset(l), toks, w, i, p) /\ Reset(l).mode = l.mode /\ Reset(l).buff = <<>> /\ Rest(Reset(l), l)
<1>. DEFINE n == Reset(l)
<1>1. Stands(l, w, p)
  BY DEF Elem
<1>2. Stands(n, w, p) /\ Alike(n, l) /\ n.buff = <<>>
  BY <1>1, ResetStands
<1>. HIDE DEF n
<1>3. Carries(n, l) /\ Rest(n, l) /\ n.mode = l.mode
  BY <1>2 DEF Alike, Carries, Rest
<1>4. Elem(n, toks, w, i, p)
  BY <1>1, <1>2, <1>3, ElemTo
<1>. QED
  BY <1>2, <1>3, <1>4 DEF n

LEMMA InMore ==
  ASSUME NEW w, NEW l, NEW toks, NEW i, NEW p, Elem(l, toks, w, i, p), NEW mode
  PROVE  LET m == In(l, mode)
         IN Elem(m, toks, w, i, p) /\ m.mode = mode /\ m.buff = l.buff /\ Rest(m, l)
<1>. DEFINE m == In(l, mode)
<1>1. Stands(l, w, p) /\ IsLex(l)
  BY DEF Elem, Stands
<1>2. /\ IsLex(m) /\ m.z = l.z /\ m.lineNumber = l.lineNumber /\ m.mode = mode /\ m.buff = l.buff
      /\ Rest(m, l) /\ Carries(m, l)
  BY <1>1 DEF In, IsLex, LexFields, Rest, Carries
<1>. HIDE DEF m
<1>3. Stands(m, w, p)
  BY <1>1, <1>2, StandsToo
<1>4. Elem(m, toks, w, i, p)
  BY <1>2, <1>3, ElemTo
<1>. QED
  BY <1>2, <1>4 DEF m

LEMMA ElemAt ==
  ASSUME NEW w \in Seq(Char), NEW l, NEW toks, NEW i, NEW p, Elem(l, toks, w, i, p)
  PROVE  /\ i \in 1 .. Len(w) + 1 /\ p \in 1 .. Len(w) + 1 /\ Len(w) \in Nat /\ l.z.c = CharAt(w, p)
         /\ \A S : At(l, S) <=> CharAt(w, p) \in S
         /\ p <= Len(w) => p \in 1 .. Len(w) /\ CharAt(w, p) = w[p] /\ w[p] \in Char /\ w[p] # EOZ
         /\ p > Len(w) => CharAt(w, p) = EOZ /\ p = Len(w) + 1
         /\ CharAt(w, p) # EOZ => p \in 1 .. Len(w) /\ CharAt(w, p) = w[p]
<1>1. Stands(l, w, p) /\ Owed(toks, w, i)
  BY DEF Elem
<1>2. /\ p \in 1 .. Len(w) + 1 /\ Len(w) \in Nat /\ l.z.c = CharAt(w, p)
      /\ \A S : At(l, S) <=> CharAt(w, p) \in S
      /\ p <= Len(w) => p \in 1 .. Len(w) /\ CharAt(w, p) = w[p] /\ w[p] \in Char /\ w[p] # EOZ
      /\ p > Len(w) => CharAt(w, p) = EOZ /\ p = Len(w) + 1
  BY <1>1, StandsAt
<1>3. p <= Len(w) \/ p > Len(w)
  BY <1>2
<1>. QED
  BY <1>1, <1>2, <1>3 DEF Owed

\* skipSep takes the bracket at p.
LEMMA SkipSepMore ==
  ASSUME NEW w \in Seq(Char), NEW l, NEW toks, NEW i, NEW p \in 1 .. Len(w), Elem(l, toks, w, i, p),
         w[p] \in {"[", "]"}, NEW caller
  PROVE  LET m == SkipSep(l, caller)
         IN /\ Elem(m, toks, w, i, p + 1) /\ m.mode = "sep" /\ m.caller = caller /\ m.bracket = w[p]
            /\ m.count = 0 /\ m.buff = Append(l.buff, w[p]) /\ m.sep = l.sep /\ m.comment = l.comment
            /\ Equals(m, w, p, p + 1)
<1>. DEFINE n == SaveAndNext(l)  m == SkipSep(l, caller)
<1>1. w[p] \notin Newlines
  BY DEF Newlines
<1>2. /\ Elem(n, toks, w, i, p + 1) /\ n.buff = Append(l.buff, w[p]) /\ Rest(n, l)
  BY <1>1, OneMore
<1>3. l.z.c = w[p]
  <2>1. l.z.c = CharAt(w, p)
    BY ElemAt
  <2>2. p <= Len(w)
    OBVIOUS
  <2>. QED
    BY <2>1, <2>2 DEF CharAt
<1>4. Stands(n, w, p + 1) /\ IsLex(n)
  BY <1>2 DEF Elem, Stands
<1>5. m = [n EXCEPT !.mode = "sep", !.caller = caller, !.bracket = w[p], !.count = 0]
  BY <1>3 DEF SkipSep, Current
<1>. HIDE DEF m, n
<1>6. /\ IsLex(m) /\ m.z = n.z /\ m.lineNumber = n.lineNumber /\ m.mode = "sep" /\ m.caller = caller
      /\ m.bracket = w[p] /\ m.count = 0 /\ m.buff = n.buff /\ m.sep = n.sep /\ m.comment = n.comment
      /\ Carries(m, n)
  BY <1>4, <1>5 DEF IsLex, LexFields, Carries
<1>7. Stands(m, w, p + 1)
  BY <1>4, <1>6, StandsToo
<1>8. Elem(m, toks, w, i, p + 1)
  BY <1>2, <1>6, <1>7, ElemTo
<1>9. Equals(m, w, p, p + 1)
  BY <1>6 DEF Equals
<1>. QED
  BY <1>2, <1>6, <1>8, <1>9 DEF m, Rest

LEMMA AppendedLast ==
  ASSUME NEW S, NEW s \in Seq(S), NEW b \in S, NEW n, n = Len(s) + 1
  PROVE  Append(s, b)[n] = b
OBVIOUS

LEMMA AppendedToOne ==
  ASSUME NEW S, NEW s \in Seq(S), NEW b \in S, Len(s) = 1
  PROVE  /\ Append(s, b) \in Seq(S) /\ Len(Append(s, b)) = 2
         /\ Append(s, b)[1] = s[1] /\ Append(s, b)[2] = b
<1>1. Append(s, b) \in Seq(S) /\ Len(Append(s, b)) = 2
  OBVIOUS
<1>2. Append(s, b)[1] = s[1]
  OBVIOUS
<1>3. 2 = Len(s) + 1
  OBVIOUS
<1>4. Append(s, b)[2] = b
  BY ONLY <1>3, s \in Seq(S), b \in S, AppendedLast
<1>. QED
  BY <1>1, <1>2, <1>4

LEMMA AppendedOne == ASSUME NEW a, NEW b PROVE Append(<<a>>, b) = <<a, b>>
<1>. DEFINE S == {a, b}  s == <<a>>  t == <<a, b>>
<1>1. s \in Seq(S) /\ t \in Seq(S) /\ Len(s) = 1 /\ Len(t) = 2 /\ s[1] = a /\ b \in S
  OBVIOUS
<1>2. t[1] = a /\ t[2] = b
  OBVIOUS
<1>. HIDE DEF s, t, S
<1>3. Append(s, b) \in Seq(S) /\ Len(Append(s, b)) = 2 /\ Append(s, b)[1] = a /\ Append(s, b)[2] = b
  BY ONLY <1>1, AppendedToOne
<1>4. \A j \in 1 .. 2 : Append(s, b)[j] = t[j]
  BY <1>2, <1>3
<1>5. Append(s, b) = t
  BY <1>1, <1>3, <1>4
<1>. QED
  BY <1>5 DEF s, t

LEMMA AppendedTwo == ASSUME NEW a, NEW b, NEW c PROVE Append(<<a, b>>, c) = <<a, b, c>>
<1>. DEFINE S == {a, b, c}  s == <<a, b>>  t == <<a, b, c>>
<1>1. s \in Seq(S) /\ t \in Seq(S) /\ Len(s) = 2 /\ Len(t) = 3 /\ s[1] = a /\ s[2] = b /\ c \in S
  OBVIOUS
<1>2. t[1] = a /\ t[2] = b /\ t[3] = c
  OBVIOUS
<1>. HIDE DEF s, t, S
<1>3. /\ Append(s, c) \in Seq(S) /\ Len(Append(s, c)) = 3
      /\ Append(s, c)[1] = a /\ Append(s, c)[2] = b /\ Append(s, c)[3] = c
  BY <1>1, SMTT(20)
<1>4. \A j \in 1 .. 3 : Append(s, c)[j] = t[j]
  BY <1>2, <1>3
<1>5. Append(s, c) = t
  BY <1>1, <1>3, <1>4
<1>. QED
  BY <1>5 DEF s, t

LEMMA SliceOne ==
  ASSUME NEW w \in Seq(Char), NEW i \in 1 .. Len(w)
  PROVE  SubSeq(w, i, i) = <<w[i]>> /\ SubSeq(w, i, i + 1 - 1) = <<w[i]>>
<1>1. i \in Nat \ {0} /\ i \in Nat /\ i <= i /\ i <= Len(w) /\ i <= Len(w) + 1
  OBVIOUS
<1>2. SubSeq(w, i, i - 1) = <<>>
  BY <1>1, SliceNone
<1>3. SubSeq(w, i, i) = Append(<<>>, w[i])
  BY <1>1, <1>2, SliceMore
<1>4. i + 1 - 1 = i
  BY <1>1
<1>. QED
  BY <1>3, <1>4

LEMMA SliceTwo ==
  ASSUME NEW w \in Seq(Char), NEW i \in 1 .. Len(w), i + 1 <= Len(w)
  PROVE  SubSeq(w, i, i + 2 - 1) = <<w[i], w[i + 1]>>
<1>1. i \in Nat \ {0} /\ i + 1 \in Nat /\ i <= i + 1 /\ i + 1 - 1 = i /\ i + 2 - 1 = i + 1
  OBVIOUS
<1>2. SubSeq(w, i, i + 1) = Append(SubSeq(w, i, i + 1 - 1), w[i + 1])
  BY <1>1, SliceMore
<1>3. SubSeq(w, i, i + 1) = Append(<<w[i]>>, w[i + 1])
  BY <1>2, SliceOne
<1>. QED
  BY <1>1, <1>3, AppendedOne

LEMMA SliceThree ==
  ASSUME NEW w \in Seq(Char), NEW i \in 1 .. Len(w), i + 2 <= Len(w)
  PROVE  SubSeq(w, i, i + 3 - 1) = <<w[i], w[i + 1], w[i + 2]>>
<1>1. i \in Nat \ {0} /\ i + 2 \in Nat /\ i <= i + 2 /\ i + 2 - 1 = i + 1 /\ i + 3 - 1 = i + 2 /\ i + 1 <= Len(w)
  OBVIOUS
<1>2. SubSeq(w, i, i + 2) = Append(SubSeq(w, i, i + 2 - 1), w[i + 2])
  BY <1>1, SliceMore
<1>3. SubSeq(w, i, i + 2) = Append(<<w[i], w[i + 1]>>, w[i + 2])
  BY <1>1, <1>2, SliceTwo
<1>. QED
  BY <1>1, <1>3, AppendedTwo

-----------------------------------------------------------------------------
(* Between elements *)

Begins(l, toks, w, p) == Elem(l, toks, w, p, p) /\ l.mode = "scan" /\ l.buff = <<>>

LEMMA BeginsAt ==
  ASSUME NEW w \in Seq(Char), NEW l, NEW toks, NEW p, Begins(l, toks, w, p)
  PROVE  /\ Elem(l, toks, w, p, p) /\ l.mode = "scan" /\ l.buff = <<>> /\ p \in 1 .. Len(w) + 1 /\ Len(w) \in Nat
         /\ \A S : At(l, S) <=> CharAt(w, p) \in S
         /\ CharAt(w, p) # EOZ => p \in 1 .. Len(w) /\ CharAt(w, p) = w[p]
         /\ l.z.c = CharAt(w, p)
         /\ p \in 1 .. Len(w) => ElementBy(w, p, w[p], CharAt(w, p + 1), Lexeme(w, p))
BY ElemAt, LexemeIs DEF Begins

LEMMA NewlineGood ==
  ASSUME NEW w \in Seq(Char), NEW l, NEW toks, NEW p, Begins(l, toks, w, p), At(l, Newlines)
  PROVE  Good(IncLineNumber(l), Got(toks, IncLineNumber(l)), w)
<1>. DEFINE m == IncLineNumber(l)  e == PastBreak(w, p)
<1>1. p \in 1 .. Len(w) /\ w[p] \in Newlines /\ Elem(l, toks, w, p, p) /\ l.mode = "scan" /\ l.buff = <<>>
  BY BeginsAt DEF Newlines, EOZ
<1>2. Elem(m, toks, w, p, e) /\ m.mode = "scan" /\ m.buff = <<>> /\ e \in p + 1 .. Len(w) + 1
  BY <1>1, BreakMore
<1>3. Lexeme(w, p) = Plain("part", <<>>, p + 1)
  <2>1. ElementBy(w, p, w[p], CharAt(w, p + 1), Lexeme(w, p))
    BY LexemeIs
  <2>. QED
    BY <1>1, <2>1 DEF ElementBy, Skipped
<1>4. Owed(toks, w, p) /\ Stands(l, w, p) /\ Clean(w, p)
  BY <1>1 DEF Elem, Stands
<1>5. p + 1 \in p + 1 .. Len(w) + 1 /\ Owed(toks, w, p + 1)
  BY <1>1, <1>3, <1>4, OwedSkip
<1>. DEFINE pair == CharAt(w, p + 1) \in Newlines /\ CharAt(w, p + 1) # w[p]
<1>6. /\ pair => p + 1 \in 1 .. Len(w) /\ e = p + 2
      /\ ~pair => e = p + 1
  BY <1>1, <1>4, BreakEnds
<1>7. Owed(toks, w, e)
  <2>1. CASE pair
    <3>. DEFINE q == p + 1
    <3>1. q \in 1 .. Len(w) /\ CharAt(w, q) = w[q] /\ w[q] \in Newlines
      BY <1>6, <2>1 DEF CharAt
    <3>2. ElementBy(w, q, w[q], CharAt(w, q + 1), Lexeme(w, q))
      BY LexemeIs
    <3>3. Lexeme(w, q) = Plain("part", <<>>, q + 1)
      BY <3>1, <3>2 DEF ElementBy, Skipped
    <3>4. q + 1 = e
      BY <1>1, <1>6, <2>1
    <3>5. Owed(toks, w, q)
      BY <1>5
    <3>. HIDE DEF q, e
    <3>. QED
      BY <3>1, <3>3, <3>4, <3>5, OwedSkip
  <2>2. CASE ~pair
    BY <1>5, <1>6, <2>2
  <2>. QED
    BY <2>1, <2>2
<1>. HIDE DEF m, e, pair
<1>8. Elem(m, toks, w, e, e)
  BY <1>2, <1>7 DEF Elem
<1>9. Between(m, w, e, e)
  BY <1>2 DEF Between, InScan
<1>10. Good(m, Got(toks, m), w)
  BY <1>2, <1>8, <1>9, GoesOn
<1>. QED
  BY <1>10 DEF m

LEMMA SpaceGood ==
  ASSUME NEW w \in Seq(Char), NEW l, NEW toks, NEW p, Begins(l, toks, w, p), At(l, {Space})
  PROVE  Good(NextChar(l), Got(toks, NextChar(l)), w)
<1>. DEFINE m == NextChar(l)
<1>0. Space # EOZ /\ Space \notin Newlines
  BY DEF EOZ, Newlines, Space
<1>1. CharAt(w, p) = Space
  BY BeginsAt
<1>2. p \in 1 .. Len(w) /\ w[p] = Space /\ Elem(l, toks, w, p, p) /\ l.mode = "scan" /\ l.buff = <<>>
  BY <1>0, <1>1, BeginsAt
<1>3. Elem(m, toks, w, p, p + 1) /\ m.mode = "scan" /\ m.buff = <<>>
  BY <1>0, <1>2, OneMore
<1>4. Lexeme(w, p) = Plain("part", <<>>, p + 1)
  <2>1. ElementBy(w, p, w[p], CharAt(w, p + 1), Lexeme(w, p))
    BY LexemeIs
  <2>2. w[p] \in Newlines \cup {Space}
    BY <1>2
  <2>. QED
    BY <2>1, <2>2 DEF ElementBy, Skipped
<1>. HIDE DEF m
<1>5. Good(m, Got(toks, m), w)
  BY <1>2, <1>3, <1>4, Skips
<1>. QED
  BY <1>5 DEF m

\* A symbol of n characters.
LEMMA SymbolGood ==
  ASSUME NEW w \in Seq(Char), NEW m, NEW toks, NEW i \in 1 .. Len(w), NEW n \in Nat, NEW p, p = i + n,
         Elem(m, toks, w, i, p), Lexeme(w, i) = SymbolAt(w, i, n), NEW v, v = SubSeq(w, i, i + n - 1)
  PROVE  Good(Symbol(m, v), Got(toks, Symbol(m, v)), w)
<1>1. Lexeme(w, i) = Plain("symbol", v, p)
  BY DEF SymbolAt
<1>2. "symbol" # "part" /\ "symbol" # "error"
  OBVIOUS
<1>. DEFINE r == Return(m, "symbol", v)
<1>3. Symbol(m, v) = r
  BY DEF Symbol
<1>. HIDE DEF r
<1>4. Good(r, Got(toks, r), w)
  BY <1>1, <1>2, Returns DEF r
<1>. QED
  BY <1>3, <1>4

MinusTurn(l) ==
  LET one == NextChar(l)
      two == NextChar(one)
  IN IF ~At(one, {"-"}) THEN Symbol(one, <<"-">>)
     ELSE IF At(two, {"["}) THEN SkipSep(two, "comment") ELSE In(two, "short")

LEMMA FirstOver ==
  ASSUME NEW w \in Seq(Char), NEW i \in 1 .. Len(w) + 1, NEW p \in i .. Len(w) + 1, NEW P,
         \A h \in i .. p - 1 : h \notin P
  PROVE  First(w, i, P) = First(w, p, P)
<1>. DEFINE f == First(w, p, P)
<1>0. p \in 1 .. Len(w) + 1 /\ i \in Nat /\ p \in Nat /\ Len(w) \in Nat
  OBVIOUS
<1>1. f \in p .. Len(w) + 1 /\ (f > Len(w) \/ f \in P) /\ \A h \in p .. f - 1 : h \notin P
  BY <1>0, FirstIs
<1>. HIDE DEF f
<1>2. f \in i .. Len(w) + 1
  BY <1>0, <1>1
<1>3. \A h \in i .. f - 1 : h \in i .. p - 1 \/ h \in p .. f - 1
  BY <1>0, <1>1
<1>4. \A h \in i .. f - 1 : h \notin P
  BY <1>1, <1>3
<1>5. First(w, i, P) = f
  BY <1>1, <1>2, <1>4, FirstOnly
<1>. QED
  BY <1>5 DEF f

LEMMA MinusGood ==
  ASSUME NEW w \in Seq(Char), NEW l, NEW toks, NEW p, Begins(l, toks, w, p), At(l, {"-"})
  PROVE  Good(MinusTurn(l), Got(toks, MinusTurn(l)), w)
<1>. DEFINE one == NextChar(l)  two == NextChar(one)  m == MinusTurn(l)  d == CharAt(w, p + 1)  f == CharAt(w, p + 2)
<1>0. "-" # EOZ /\ "-" \notin Newlines /\ "[" # EOZ /\ "[" \notin Newlines
  BY DEF EOZ, Newlines
<1>1. CharAt(w, p) = "-"
  BY BeginsAt
<1>2. p \in 1 .. Len(w) /\ w[p] = "-" /\ Elem(l, toks, w, p, p) /\ l.mode = "scan" /\ l.buff = <<>> /\ Len(w) \in Nat
  BY <1>0, <1>1, BeginsAt
<1>3. Elem(one, toks, w, p, p + 1) /\ one.mode = "scan" /\ one.buff = <<>>
  BY <1>0, <1>2, OneMore
<1>4. At(one, {"-"}) <=> d = "-"
  BY <1>3, ElemAt
<1>5. ElementBy(w, p, w[p], d, Lexeme(w, p))
  BY LexemeIs
<1>6. m = IF ~At(one, {"-"}) THEN Symbol(one, <<"-">>)
          ELSE IF At(two, {"["}) THEN SkipSep(two, "comment") ELSE In(two, "short")
  BY DEF MinusTurn
<1>. HIDE DEF one, m, d, f
<1>7. CASE d # "-"
  <2>1. Lexeme(w, p) = SymbolAt(w, p, 1)
    <3>1. Alone(w[p], d, LongOpen(w, p))
      BY <1>2, <1>7 DEF Alone
    <3>. QED
      BY <1>5, <3>1 DEF ElementBy
  <2>2. <<"-">> = SubSeq(w, p, p + 1 - 1)
    BY <1>2, SliceOne
  <2>3. m = Symbol(one, <<"-">>)
    BY <1>4, <1>6, <1>7
  <2>4. 1 \in Nat
    OBVIOUS
  <2>5. Good(Symbol(one, <<"-">>), Got(toks, Symbol(one, <<"-">>)), w)
    BY <1>2, <1>3, <2>1, <2>2, <2>4, SymbolGood
  <2>. QED
    BY <2>3, <2>5 DEF m
<1>8. CASE d = "-"
  <2>1. p + 1 \in 1 .. Len(w) /\ w[p + 1] = "-" /\ p + 1 + 1 = p + 2
    BY <1>0, <1>2, <1>8 DEF d, CharAt
  <2>2. Elem(two, toks, w, p, p + 2) /\ two.mode = "scan" /\ two.buff = <<>>
    BY <1>0, <1>3, <2>1, OneMore
  <2>3. At(two, {"["}) <=> f = "["
    BY <2>2, ElemAt DEF f
  <2>4. p + 2 \in 1 .. Len(w) + 1
    BY <2>2, ElemAt
  <2>5. Dashes(w, p) /\ Lexeme(w, p) = Comment(w, p)
    BY <1>2, <1>5, <1>8 DEF Dashes, d, ElementBy
  <2>. HIDE DEF two
  <2>6. CASE f = "["
    <3>1. p + 2 \in 1 .. Len(w) /\ w[p + 2] = "["
      BY <1>0, <2>4, <2>6 DEF f, CharAt
    <3>2. m = SkipSep(two, "comment")
      BY <1>4, <1>6, <1>8, <2>3, <2>6
    <3>. DEFINE q == p + 2
    <3>3. w[q] \in {"[", "]"} /\ q \in 1 .. Len(w)
      BY <3>1
    <3>4. Elem(m, toks, w, p, q + 1) /\ m.mode = "sep" /\ m.caller = "comment" /\ Equals(m, w, q, q + 1)
      <4>. HIDE DEF q
      <4>. QED
        BY <2>2, <3>2, <3>3, SkipSepMore DEF q
    <3>5. InSepOfComment(m, w, p, q + 1)
      BY <1>2, <2>5, <3>1, <3>4 DEF InSepOfComment
    <3>6. Between(m, w, p, q + 1)
      BY <3>5 DEF Between
    <3>7. Good(m, Got(toks, m), w)
      BY <3>4, <3>6, GoesOn
    <3>. QED
      BY <3>7 DEF m
  <2>7. CASE f # "["
    <3>1. m = In(two, "short")
      BY <1>4, <1>6, <1>8, <2>3, <2>7
    <3>2. Elem(m, toks, w, p, p + 2) /\ m.mode = "short" /\ m.buff = <<>>
      BY <2>2, <3>1, InMore
    <3>3. ~LongOpen(w, p + 2)
      BY <2>7 DEF LongOpen, f
    <3>4. Lexeme(w, p) = Plain("part", <<>>, First(w, p, NewlinesOf(w)))
      BY <2>5, <3>3 DEF Comment, Skipped, NewlinesOf
    <3>5. p \in 1 .. Len(w) + 1 /\ p + 2 \in p .. Len(w) + 1
      BY <1>2, <2>4
    <3>6. \A h \in p .. p + 2 - 1 : h \notin NewlinesOf(w)
      <4>1. \A h \in p .. p + 2 - 1 : h = p \/ h = p + 1
        BY <1>2
      <4>. QED
        BY <1>0, <1>2, <2>1, <4>1 DEF NewlinesOf
    <3>7. First(w, p, NewlinesOf(w)) = First(w, p + 2, NewlinesOf(w))
      <4>. DEFINE q == p + 2
      <4>. HIDE DEF q
      <4>. QED
        BY <3>5, <3>6, FirstOver DEF q
    <3>8. InShort(m, w, p, p + 2)
      BY <1>2, <3>2, <3>4, <3>7 DEF InShort
    <3>9. Between(m, w, p, p + 2)
      BY <3>8 DEF Between
    <3>10. Good(m, Got(toks, m), w)
      BY <3>2, <3>9, GoesOn
    <3>. QED
      BY <3>10 DEF m
  <2>. QED
    BY <2>6, <2>7
<1>. QED
  BY <1>7, <1>8

LEMMA OpenBracketGood ==
  ASSUME NEW w \in Seq(Char), NEW l, NEW toks, NEW p, Begins(l, toks, w, p), At(l, {"["})
  PROVE  Good(SkipSep(l, "token"), Got(toks, SkipSep(l, "token")), w)
<1>. DEFINE m == SkipSep(l, "token")
<1>1. CharAt(w, p) = "["
  BY BeginsAt
<1>2. p \in 1 .. Len(w) /\ w[p] = "[" /\ Elem(l, toks, w, p, p) /\ l.buff = <<>> /\ Len(w) \in Nat
  BY <1>1, BeginsAt DEF EOZ
<1>3. /\ Elem(m, toks, w, p, p + 1) /\ m.mode = "sep" /\ m.caller = "token" /\ m.buff = Append(l.buff, w[p])
      /\ Equals(m, w, p, p + 1)
  <2>1. w[p] \in {"[", "]"}
    BY <1>2
  <2>. QED
    BY <1>2, <2>1, SkipSepMore
<1>. HIDE DEF m
<1>4. m.buff = SubSeq(w, p, p + 1 - 1)
  BY <1>2, <1>3, SliceOne
<1>5. InSepOfToken(m, w, p, p + 1)
  BY <1>2, <1>3, <1>4 DEF InSepOfToken
<1>6. Between(m, w, p, p + 1)
  BY <1>5 DEF Between
<1>7. Good(m, Got(toks, m), w)
  BY <1>3, <1>6, GoesOn
<1>. QED
  BY <1>7 DEF m

ComparisonTurn(l) ==
  LET n == NextChar(l)
  IN IF At(n, {"="}) THEN Symbol(NextChar(n), <<Current(l), "=">>) ELSE Symbol(n, <<Current(l)>>)

LEMMA ComparisonGood ==
  ASSUME NEW w \in Seq(Char), NEW l, NEW toks, NEW p, Begins(l, toks, w, p), At(l, {"=", "<", "~"})
  PROVE  Good(ComparisonTurn(l), Got(toks, ComparisonTurn(l)), w)
<1>. DEFINE one == NextChar(l)  two == NextChar(one)  m == ComparisonTurn(l)  d == CharAt(w, p + 1)  c == Current(l)
<1>0. "=" # EOZ /\ "=" \notin Newlines
  BY DEF EOZ, Newlines
<1>1. CharAt(w, p) \in {"=", "<", "~"}
  BY BeginsAt
<1>2. CharAt(w, p) # EOZ /\ CharAt(w, p) \notin Newlines
  BY <1>1 DEF EOZ, Newlines
<1>3. /\ p \in 1 .. Len(w) /\ w[p] = CharAt(w, p) /\ Elem(l, toks, w, p, p) /\ Len(w) \in Nat /\ c = w[p]
      /\ ElementBy(w, p, w[p], d, Lexeme(w, p))
  BY <1>2, BeginsAt DEF Current
<1>4. Elem(one, toks, w, p, p + 1)
  BY <1>2, <1>3, OneMore
<1>5. (At(one, {"="}) <=> d = "=") /\ p + 1 \in 1 .. Len(w) + 1
  BY <1>4, ElemAt
<1>6. m = IF At(one, {"="}) THEN Symbol(two, <<c, "=">>) ELSE Symbol(one, <<c>>)
  BY DEF ComparisonTurn
<1>. HIDE DEF one, m, c
<1>7. CASE d # "="
  <2>. HIDE DEF d
  <2>1. Lexeme(w, p) = SymbolAt(w, p, 1)
    <3>1. Alone(w[p], d, LongOpen(w, p))
      BY <1>1, <1>3, <1>7 DEF Alone
    <3>. QED
      BY <1>3, <3>1 DEF ElementBy
  <2>2. <<c>> = SubSeq(w, p, p + 1 - 1)
    BY <1>3, SliceOne
  <2>3. m = Symbol(one, <<c>>)
    BY <1>5, <1>6, <1>7
  <2>4. 1 \in Nat
    OBVIOUS
  <2>5. Good(Symbol(one, <<c>>), Got(toks, Symbol(one, <<c>>)), w)
    BY <1>3, <1>4, <2>1, <2>2, <2>4, SymbolGood
  <2>. QED
    BY <2>3, <2>5 DEF m
<1>8. CASE d = "="
  <2>1. p + 1 \in 1 .. Len(w) /\ w[p + 1] = "=" /\ p + 1 + 1 = p + 2 /\ p + 1 <= Len(w)
    BY <1>0, <1>3, <1>5, <1>8 DEF d, CharAt
  <2>2. Elem(two, toks, w, p, p + 2)
    BY <1>0, <1>4, <2>1, OneMore
  <2>. HIDE DEF two, d
  <2>3. Lexeme(w, p) = SymbolAt(w, p, 2)
    BY <1>1, <1>3, <1>8 DEF ElementBy
  <2>4. <<c, "=">> = SubSeq(w, p, p + 2 - 1)
    <3>1. SubSeq(w, p, p + 2 - 1) = <<w[p], w[p + 1]>>
      BY <1>3, <2>1, SliceTwo
    <3>. QED
      BY <1>3, <2>1, <3>1
  <2>5. m = Symbol(two, <<c, "=">>)
    BY <1>5, <1>6, <1>8
  <2>6. 2 \in Nat
    OBVIOUS
  <2>7. Good(Symbol(two, <<c, "=">>), Got(toks, Symbol(two, <<c, "=">>)), w)
    BY <1>3, <2>2, <2>3, <2>4, <2>6, SymbolGood
  <2>. QED
    BY <2>5, <2>7 DEF m
<1>. QED
  BY <1>7, <1>8

LEMMA DotsAre ==
  ASSUME NEW w \in Seq(Char), NEW p \in 1 .. Len(w), w[p] = "."
  PROVE  /\ CharAt(w, p + 1) # "." => Dots(w, p) = SymbolAt(w, p, 1)
         /\ CharAt(w, p + 1) = "." /\ CharAt(w, p + 2) # "."
              => Dots(w, p) = SymbolAt(w, p, 2) /\ p + 1 \in 1 .. Len(w) /\ w[p + 1] = "."
         /\ CharAt(w, p + 1) = "." /\ CharAt(w, p + 2) = "."
              => /\ Dots(w, p) = SymbolAt(w, p, 3) /\ p + 1 \in 1 .. Len(w) /\ p + 2 \in 1 .. Len(w)
                 /\ w[p + 1] = "." /\ w[p + 2] = "."
<1>. DEFINE S == {"."}  a == After(w, p, S)
<1>0. EOZ \notin S /\ "." # EOZ
  BY DEF EOZ
<1>1. p \in Nat \ {0} /\ Len(w) \in Nat /\ p \in 1 .. Len(w) + 1 /\ p + 1 \in Nat \ {0} /\ p + 2 \in Nat \ {0}
      /\ p + 1 + 1 = p + 2 /\ p + 2 + 1 = p + 3
  OBVIOUS
<1>2. CharAt(w, p) \in S
  BY <1>1, CharsAt
<1>3. p + 1 \in 1 .. Len(w) + 1 /\ a = After(w, p + 1, S)
  BY <1>0, <1>1, <1>2, AfterStep
<1>4. Dots(w, p) = SymbolAt(w, p, IF a - p > 3 THEN 3 ELSE a - p)
  BY DEF Dots
<1>. HIDE DEF a
<1>5. CASE CharAt(w, p + 1) # "."
  <2>1. a = p + 1
    BY <1>0, <1>3, <1>5, AfterStep
  <2>2. (IF a - p > 3 THEN 3 ELSE a - p) = 1
    BY <1>1, <2>1
  <2>. QED
    BY <1>4, <1>5, <2>2
<1>6. CASE CharAt(w, p + 1) = "."
  <2>1. p + 1 \in 1 .. Len(w) /\ w[p + 1] = "."
    BY <1>0, <1>1, <1>3, <1>6, CharsAt
  <2>2. p + 2 \in 1 .. Len(w) + 1 /\ a = After(w, p + 2, S)
    BY <1>0, <1>1, <1>3, <1>6, AfterStep
  <2>3. CASE CharAt(w, p + 2) # "."
    <3>1. a = p + 2
      BY <1>0, <2>2, <2>3, AfterStep
    <3>2. (IF a - p > 3 THEN 3 ELSE a - p) = 2
      BY <1>1, <3>1
    <3>. QED
      BY <1>4, <1>6, <2>1, <2>3, <3>2
  <2>4. CASE CharAt(w, p + 2) = "."
    <3>1. p + 2 \in 1 .. Len(w) /\ w[p + 2] = "."
      BY <1>0, <1>1, <2>2, <2>4, CharsAt
    <3>2. p + 3 \in 1 .. Len(w) + 1 /\ a = After(w, p + 3, S)
      BY <1>0, <1>1, <2>2, <2>4, AfterStep
    <3>3. a \in p + 3 .. Len(w) + 1
      BY <1>0, <3>2, AfterIs
    <3>4. (IF a - p > 3 THEN 3 ELSE a - p) = 3
      BY <1>1, <3>3
    <3>. QED
      BY <1>4, <1>6, <2>1, <2>4, <3>1, <3>4
  <2>. QED
    BY <2>3, <2>4
<1>. QED
  BY <1>5, <1>6

DotTurn(l) ==
  LET one == SaveAndNext(l)
      two == SaveAndNext(one)
  IN IF At(one, {"."}) THEN IF At(two, {"."}) THEN Symbol(SaveAndNext(two), <<".", ".", ".">>)
                            ELSE Symbol(two, <<".", ".">>)
     ELSE IF At(one, Digits) THEN In(one, "numeral") ELSE Symbol(one, <<".">>)

\* n dots from p on have been read.
LEMMA DotsGood ==
  ASSUME NEW w \in Seq(Char), NEW l, NEW toks, NEW p \in 1 .. Len(w), NEW n \in Nat, NEW q, q = p + n,
         Elem(l, toks, w, p, q), w[p] = ".", CharAt(w, p + 1) \notin Digits, Dots(w, p) = SymbolAt(w, p, n),
         NEW v, v = SubSeq(w, p, p + n - 1)
  PROVE  Good(Symbol(l, v), Got(toks, Symbol(l, v)), w)
<1>1. ElementBy(w, p, w[p], CharAt(w, p + 1), Lexeme(w, p))
  BY LexemeIs
<1>2. Lexeme(w, p) = SymbolAt(w, p, n)
  BY <1>1 DEF ElementBy
<1>. QED
  BY <1>2, SymbolGood

LEMMA DotGood ==
  ASSUME NEW w \in Seq(Char), NEW l, NEW toks, NEW p, Begins(l, toks, w, p), At(l, {"."})
  PROVE  Good(DotTurn(l), Got(toks, DotTurn(l)), w)
<1>. DEFINE one == SaveAndNext(l)  two == SaveAndNext(one)  three == SaveAndNext(two)
            m == DotTurn(l)  d == CharAt(w, p + 1)  e == CharAt(w, p + 2)
<1>0. "." # EOZ /\ "." \notin Newlines /\ "." \notin Digits
  BY DEF EOZ, Newlines, Digits
<1>1. CharAt(w, p) = "."
  BY BeginsAt
<1>2. p \in 1 .. Len(w) /\ w[p] = "." /\ Elem(l, toks, w, p, p) /\ l.buff = <<>> /\ Len(w) \in Nat
  BY <1>0, <1>1, BeginsAt
<1>3. Elem(one, toks, w, p, p + 1) /\ one.buff = Append(l.buff, w[p])
  BY <1>0, <1>2, OneMore
<1>4. /\ At(one, {"."}) <=> d = "."
      /\ At(one, Digits) <=> d \in Digits
      /\ p + 1 \in 1 .. Len(w) + 1
  BY <1>3, ElemAt
<1>5. m = IF At(one, {"."}) THEN IF At(two, {"."}) THEN Symbol(three, <<".", ".", ".">>)
                                 ELSE Symbol(two, <<".", ".">>)
          ELSE IF At(one, Digits) THEN In(one, "numeral") ELSE Symbol(one, <<".">>)
  BY DEF DotTurn
<1>6. /\ d # "." => Dots(w, p) = SymbolAt(w, p, 1)
      /\ d = "." /\ e # "." => Dots(w, p) = SymbolAt(w, p, 2) /\ p + 1 \in 1 .. Len(w) /\ w[p + 1] = "."
      /\ d = "." /\ e = "." => /\ Dots(w, p) = SymbolAt(w, p, 3) /\ p + 1 \in 1 .. Len(w) /\ p + 2 \in 1 .. Len(w)
                               /\ w[p + 1] = "." /\ w[p + 2] = "."
  BY <1>2, DotsAre
<1>7. 1 \in Nat /\ 2 \in Nat /\ 3 \in Nat /\ p + 1 + 1 = p + 2 /\ p + 2 + 1 = p + 3
  BY <1>2
<1>8. d \notin Digits => \A n \in Nat : \A k, v :
         Dots(w, p) = SymbolAt(w, p, n) /\ Elem(k, toks, w, p, p + n) /\ v = SubSeq(w, p, p + n - 1)
           => Good(Symbol(k, v), Got(toks, Symbol(k, v)), w)
  <2>. SUFFICES ASSUME d \notin Digits, NEW n \in Nat, NEW k, NEW v,
                       Dots(w, p) = SymbolAt(w, p, n), Elem(k, toks, w, p, p + n), v = SubSeq(w, p, p + n - 1)
                PROVE  Good(Symbol(k, v), Got(toks, Symbol(k, v)), w)
    OBVIOUS
  <2>. QED
    BY <1>2, DotsGood
<1>. HIDE DEF m, one, d, e
<1>9. CASE d = "."
  <2>0. d \notin Digits
    BY <1>0, <1>9
  <2>1. p + 1 \in 1 .. Len(w) /\ w[p + 1] = "."
    BY <1>6, <1>9
  <2>2. Elem(two, toks, w, p, p + 2)
    BY <1>0, <1>3, <1>7, <2>1, OneMore
  <2>3. At(two, {"."}) <=> e = "."
    BY <2>2, ElemAt DEF e
  <2>. HIDE DEF two
  <2>4. CASE e = "."
    <3>1. p + 2 \in 1 .. Len(w) /\ w[p + 2] = "." /\ p + 2 <= Len(w)
      BY <1>2, <1>6, <1>9, <2>4
    <3>2. Elem(three, toks, w, p, p + 3)
      BY <1>0, <1>7, <2>2, <3>1, OneMore
    <3>3. SubSeq(w, p, p + 3 - 1) = <<w[p], w[p + 1], w[p + 2]>>
      BY <1>2, <3>1, SliceThree
    <3>4. <<".", ".", ".">> = SubSeq(w, p, p + 3 - 1)
      BY <1>2, <2>1, <3>1, <3>3
    <3>. HIDE DEF three
    <3>5. m = Symbol(three, <<".", ".", ".">>)
      BY <1>4, <1>5, <1>9, <2>3, <2>4
    <3>. DEFINE v == <<".", ".", ".">>
    <3>. HIDE DEF v
    <3>6. Good(Symbol(three, v), Got(toks, Symbol(three, v)), w)
      BY <1>6, <1>7, <1>8, <1>9, <2>0, <2>4, <3>2, <3>4 DEF v
    <3>. QED
      BY <3>5, <3>6 DEF m, v
  <2>5. CASE e # "."
    <3>3. SubSeq(w, p, p + 2 - 1) = <<w[p], w[p + 1]>>
      BY <1>2, <2>1, SliceTwo
    <3>4. <<".", ".">> = SubSeq(w, p, p + 2 - 1)
      BY <1>2, <2>1, <3>3
    <3>5. m = Symbol(two, <<".", ".">>)
      BY <1>4, <1>5, <1>9, <2>3, <2>5
    <3>. DEFINE v == <<".", ".">>
    <3>. HIDE DEF v
    <3>6. Good(Symbol(two, v), Got(toks, Symbol(two, v)), w)
      BY <1>6, <1>7, <1>8, <1>9, <2>0, <2>2, <2>5, <3>4 DEF v
    <3>. QED
      BY <3>5, <3>6 DEF m, v
  <2>. QED
    BY <2>4, <2>5
<1>10. CASE d \in Digits
  <2>1. d # "."
    BY <1>0, <1>10
  <2>2. m = In(one, "numeral")
    BY <1>4, <1>5, <1>10, <2>1
  <2>3. Elem(m, toks, w, p, p + 1) /\ m.mode = "numeral" /\ m.buff = one.buff
    BY <1>3, <2>2, InMore
  <2>4. m.buff = SubSeq(w, p, p + 1 - 1)
    BY <1>2, <1>3, <2>3, SliceOne
  <2>5. Lexeme(w, p) = Numeral(w, p)
    <3>1. ElementBy(w, p, w[p], CharAt(w, p + 1), Lexeme(w, p))
      BY <1>2, LexemeIs
    <3>. QED
      BY <1>2, <1>10, <3>1 DEF ElementBy, d
  <2>6. RunOf(w, p, p + 1, Digits \cup {"."})
    <3>1. EOZ \notin Digits \cup {"."}
      BY DEF EOZ, Digits
    <3>. DEFINE S == Digits \cup {"."}
    <3>2. w[p] \in S
      BY <1>2
    <3>. HIDE DEF S
    <3>3. After(w, p, S) = After(w, p + 1, S)
      BY <1>2, <3>1, <3>2, RunEnds DEF S
    <3>. QED
      BY <1>2, <3>3 DEF RunOf, S
  <2>7. InNumeral(m, w, p, p + 1)
    BY <1>2, <2>3, <2>4, <2>5, <2>6 DEF InNumeral
  <2>8. Between(m, w, p, p + 1)
    BY <2>7 DEF Between
  <2>9. Good(m, Got(toks, m), w)
    BY <2>3, <2>8, GoesOn
  <2>. QED
    BY <2>9 DEF m
<1>11. CASE d # "." /\ d \notin Digits
  <2>1. <<".">> = SubSeq(w, p, p + 1 - 1)
    BY <1>2, SliceOne
  <2>2. m = Symbol(one, <<".">>)
    BY <1>4, <1>5, <1>11
  <2>. DEFINE v == <<".">>
  <2>. HIDE DEF v
  <2>3. Good(Symbol(one, v), Got(toks, Symbol(one, v)), w)
    BY <1>3, <1>6, <1>7, <1>8, <1>11, <2>1 DEF v
  <2>. QED
    BY <2>2, <2>3 DEF m, v
<1>. QED
  BY <1>9, <1>10, <1>11

LEMMA StartNumeralGood ==
  ASSUME NEW w \in Seq(Char), NEW l, NEW toks, NEW p, Begins(l, toks, w, p), At(l, Digits)
  PROVE  Good(In(l, "numeral"), Got(toks, In(l, "numeral")), w)
<1>. DEFINE m == In(l, "numeral")
<1>1. CharAt(w, p) \in Digits /\ EOZ \notin Digits
  BY BeginsAt DEF EOZ, Digits
<1>2. /\ p \in 1 .. Len(w) /\ w[p] \in Digits /\ Elem(l, toks, w, p, p) /\ l.buff = <<>> /\ Len(w) \in Nat
      /\ ElementBy(w, p, w[p], CharAt(w, p + 1), Lexeme(w, p))
  BY <1>1, BeginsAt
<1>3. Elem(m, toks, w, p, p) /\ m.mode = "numeral" /\ m.buff = <<>>
  BY <1>2, InMore
<1>. HIDE DEF m
<1>4. p \in Nat \ {0} /\ p <= Len(w) + 1
  BY <1>2
<1>5. m.buff = SubSeq(w, p, p - 1)
  BY <1>3, <1>4, SliceNone
<1>6. Lexeme(w, p) = Numeral(w, p)
  BY <1>2 DEF ElementBy
<1>7. InNumeral(m, w, p, p)
  BY <1>2, <1>3, <1>5, <1>6 DEF InNumeral, RunOf
<1>8. Between(m, w, p, p)
  BY <1>7 DEF Between
<1>9. Good(m, Got(toks, m), w)
  BY <1>3, <1>8, GoesOn
<1>. QED
  BY <1>9 DEF m

LEMMA StartNameGood ==
  ASSUME NEW w \in Seq(Char), NEW l, NEW toks, NEW p, Begins(l, toks, w, p), At(l, Initials)
  PROVE  Good(In(l, "name"), Got(toks, In(l, "name")), w)
<1>. DEFINE m == In(l, "name")  S == Initials
<1>0. At(l, S) /\ EOZ \notin S
  BY DEF EOZ, Initials, Letters
<1>. HIDE DEF S
<1>1. CharAt(w, p) \in S
  BY <1>0, BeginsAt
<1>2. p \in 1 .. Len(w) /\ w[p] \in S /\ Elem(l, toks, w, p, p) /\ l.buff = <<>> /\ Len(w) \in Nat
  BY <1>0, <1>1, BeginsAt
<1>3. Elem(m, toks, w, p, p) /\ m.mode = "name" /\ m.buff = <<>>
  BY <1>2, InMore
<1>. HIDE DEF m
<1>4. p \in Nat \ {0} /\ p <= Len(w) + 1
  BY <1>2
<1>5. m.buff = SubSeq(w, p, p - 1)
  BY <1>3, <1>4, SliceNone
<1>7. InName(m, w, p, p)
  BY <1>2, <1>3, <1>5 DEF InName, RunOf, S
<1>8. Between(m, w, p, p)
  BY <1>7 DEF Between
<1>9. Good(m, Got(toks, m), w)
  BY <1>3, <1>8, GoesOn
<1>. QED
  BY <1>9 DEF m

StringBegun(l) == [SaveAndNext(l) EXCEPT !.mode = "string", !.del = Current(l)]

LEMMA StartStringGood ==
  ASSUME NEW w \in Seq(Char), NEW l, NEW toks, NEW p, Begins(l, toks, w, p), At(l, Quotes)
  PROVE  Good(StringBegun(l), Got(toks, StringBegun(l)), w)
<1>. DEFINE m == StringBegun(l)  n == SaveAndNext(l)
<1>1. CharAt(w, p) \in Quotes /\ EOZ \notin Quotes /\ \A c \in Quotes : c \notin Newlines
  BY BeginsAt DEF EOZ, Quotes, Newlines
<1>2. /\ p \in 1 .. Len(w) /\ w[p] \in Quotes /\ Elem(l, toks, w, p, p) /\ l.buff = <<>> /\ Len(w) \in Nat
      /\ ElementBy(w, p, w[p], CharAt(w, p + 1), Lexeme(w, p)) /\ Current(l) = w[p]
  BY <1>1, BeginsAt DEF Current
<1>3. Elem(n, toks, w, p, p + 1) /\ n.buff = Append(l.buff, w[p])
  BY <1>1, <1>2, OneMore
<1>4. Stands(n, w, p + 1) /\ IsLex(n)
  BY <1>3 DEF Elem, Stands
<1>5. m = [n EXCEPT !.mode = "string", !.del = w[p]]
  BY <1>2 DEF StringBegun
<1>. HIDE DEF m, n
<1>6. /\ IsLex(m) /\ m.z = n.z /\ m.lineNumber = n.lineNumber /\ m.mode = "string" /\ m.del = w[p]
      /\ m.buff = n.buff /\ Carries(m, n)
  BY <1>4, <1>5 DEF IsLex, LexFields, Carries
<1>7. Stands(m, w, p + 1)
  BY <1>4, <1>6, StandsToo
<1>8. Elem(m, toks, w, p, p + 1)
  BY <1>3, <1>6, <1>7, ElemTo
<1>9. Lexeme(w, p) = Quoted(w, p)
  BY <1>2 DEF ElementBy
<1>10. ReadUpTo(w, p, <<>>, p + 1) /\ m.buff = <<w[p]>> \o <<>>
  <2>1. ReadUpTo(w, p, <<>>, p + 1)
    BY <1>2, NothingRead
  <2>2. m.buff = <<w[p]>>
    BY <1>2, <1>3, <1>6
  <2>3. <<w[p]>> \o <<>> = <<w[p]>>
    OBVIOUS
  <2>. QED
    BY <2>1, <2>2, <2>3
<1>11. p + 1 \in p + 1 .. Len(w) + 1
  BY <1>2
<1>12. StringTo(m, w, p, p + 1)
  BY <1>2, <1>6, <1>9, <1>10, <1>11 DEF StringTo
<1>13. InString(m, w, p, p + 1)
  BY <1>6, <1>12 DEF InString
<1>14. Between(m, w, p, p + 1)
  BY <1>13 DEF Between
<1>15. Good(m, Got(toks, m), w)
  BY <1>6, <1>8, <1>14, GoesOn
<1>. QED
  BY <1>15 DEF m

LEMMA EndGood ==
  ASSUME NEW w \in Seq(Char), NEW l, NEW toks, NEW p, Begins(l, toks, w, p), At(l, {EOZ})
  PROVE  Good(Return(l, TK_EOS, <<>>), Got(toks, Return(l, TK_EOS, <<>>)), w)
<1>1. CharAt(w, p) = EOZ /\ Elem(l, toks, w, p, p) /\ p \in 1 .. Len(w) + 1 /\ Len(w) \in Nat
  BY BeginsAt
<1>2. p > Len(w)
  BY <1>1, CharsAt
<1>3. p = Len(w) + 1
  BY <1>1, <1>2
<1>. QED
  BY <1>1, <1>3, ReturnsEnd

SingleTurn(l) == Symbol(NextChar(l), <<Current(l)>>)

LEMMA SingleGood ==
  ASSUME NEW w \in Seq(Char), NEW l, NEW toks, NEW p, Begins(l, toks, w, p),
         At(l, {"]", Backslash, NUL, "#", SIGNATURE})
  PROVE  Good(SingleTurn(l), Got(toks, SingleTurn(l)), w)
<1>. DEFINE one == NextChar(l)  v == <<Current(l)>>  S == {"]", Backslash, NUL, "#", SIGNATURE}
<1>0. \A c \in S : c # EOZ /\ c \notin Newlines
  BY DEF Backslash, NUL, SIGNATURE, EOZ, Newlines
<1>1. CharAt(w, p) \in S
  BY BeginsAt
<1>. HIDE DEF S
<1>2. CharAt(w, p) # EOZ /\ CharAt(w, p) \notin Newlines
  BY <1>0, <1>1
<1>3. /\ p \in 1 .. Len(w) /\ w[p] = CharAt(w, p) /\ Elem(l, toks, w, p, p) /\ Current(l) = w[p]
      /\ ElementBy(w, p, w[p], CharAt(w, p + 1), Lexeme(w, p))
  BY <1>2, BeginsAt DEF Current
<1>4. Elem(one, toks, w, p, p + 1)
  BY <1>2, <1>3, OneMore
<1>5. Alone(w[p], CharAt(w, p + 1), LongOpen(w, p))
  BY <1>1, <1>3 DEF Alone, S
<1>6. Lexeme(w, p) = SymbolAt(w, p, 1)
  BY <1>3, <1>5 DEF ElementBy
<1>7. v = SubSeq(w, p, p + 1 - 1)
  BY <1>3, SliceOne
<1>8. 1 \in Nat
  OBVIOUS
<1>. HIDE DEF one, v
<1>9. Good(Symbol(one, v), Got(toks, Symbol(one, v)), w)
  BY <1>3, <1>4, <1>6, <1>7, <1>8, SymbolGood
<1>. QED
  BY <1>9 DEF SingleTurn, one, v
-----------------------------------------------------------------------------
(* In short comments, names and numerals *)

ShortTurn(l) == IF EndsShort(l) THEN In(l, "scan") ELSE NextChar(l)

LEMMA ShortGood ==
  ASSUME NEW w \in Seq(Char), NEW l, NEW toks, NEW i, NEW p, Elem(l, toks, w, i, p), InShort(l, w, i, p)
  PROVE  Good(ShortTurn(l), Got(toks, ShortTurn(l)), w)
<1>. DEFINE m == ShortTurn(l)  P == NewlinesOf(w)  c == CharAt(w, p)  f == First(w, p, P)
<1>1. /\ p \in 1 .. Len(w) + 1 /\ i \in 1 .. Len(w) /\ l.buff = <<>> /\ l.mode = "short" /\ Len(w) \in Nat
      /\ Lexeme(w, i) = Plain("part", <<>>, f)
      /\ At(l, Newlines \cup {EOZ}) <=> c \in Newlines \cup {EOZ}
      /\ c # EOZ => p \in 1 .. Len(w) /\ c = w[p]
  BY ElemAt DEF InShort
<1>2. m = IF At(l, Newlines \cup {EOZ}) THEN In(l, "scan") ELSE NextChar(l)
  BY DEF ShortTurn, EndsShort
<1>3. p \in P <=> p <= Len(w) /\ c \in Newlines
  BY <1>1 DEF NewlinesOf, CharAt
<1>4. c = EOZ => p > Len(w)
  BY <1>1, CharsAt
<1>. HIDE DEF m, P, c, f
<1>5. CASE c \in Newlines \cup {EOZ}
  <2>1. p > Len(w) \/ p \in P
    BY <1>1, <1>3, <1>4, <1>5
  <2>2. f = p
    BY <1>1, <2>1, FirstStep DEF f
  <2>3. Elem(m, toks, w, i, p) /\ m.mode = "scan" /\ m.buff = <<>>
    BY <1>1, <1>2, <1>5, InMore
  <2>4. Good(m, Got(toks, m), w)
    BY <1>1, <2>2, <2>3, Skips
  <2>. QED
    BY <2>4 DEF m
<1>6. CASE c \notin Newlines \cup {EOZ}
  <2>1. p \in 1 .. Len(w) /\ w[p] \notin Newlines /\ p \notin P /\ p <= Len(w)
    BY <1>1, <1>3, <1>6
  <2>2. f = First(w, p + 1, P)
    BY <1>1, <2>1, FirstStep DEF f
  <2>3. m = NextChar(l)
    BY <1>1, <1>2, <1>6
  <2>4. Elem(m, toks, w, i, p + 1) /\ m.mode = "short" /\ m.buff = <<>>
    BY <1>1, <2>1, <2>3, OneMore
  <2>5. InShort(m, w, i, p + 1)
    BY <1>1, <2>2, <2>4 DEF InShort, P
  <2>6. Between(m, w, i, p + 1)
    BY <2>5 DEF Between
  <2>7. Good(m, Got(toks, m), w)
    BY <2>4, <2>6, GoesOn
  <2>. QED
    BY <2>7 DEF m
<1>. QED
  BY <1>5, <1>6

NameTurn(l) ==
  IF At(l, Alnum) THEN SaveAndNext(l)
  ELSE Return(l, IF l.buff \in Reserved THEN "reserved" ELSE "<name>", l.buff)

\* One more character of a run from i on.
LEMMA RunMore ==
  ASSUME NEW w \in Seq(Char), NEW i \in 1 .. Len(w), NEW p \in 1 .. Len(w) + 1, NEW S, EOZ \notin S, i <= p
  PROVE  /\ CharAt(w, p) \in S => p \in 1 .. Len(w) /\ w[p] \in S /\ After(w, p, S) = After(w, p + 1, S)
         /\ CharAt(w, p) \notin S => After(w, p, S) = p
         /\ p \in 1 .. Len(w) => SubSeq(w, i, p + 1 - 1) = Append(SubSeq(w, i, p - 1), w[p])
<1>1. i \in Nat \ {0} /\ p \in Nat /\ p \in Nat \ {0} /\ Len(w) \in Nat /\ p + 1 - 1 = p
  OBVIOUS
<1>2. CharAt(w, p) \in S => p \in 1 .. Len(w) /\ w[p] \in S
  BY <1>1, CharsAt
<1>3. p \in 1 .. Len(w) => SubSeq(w, i, p) = Append(SubSeq(w, i, p - 1), w[p])
  BY <1>1, SliceMore
<1>. QED
  BY <1>1, <1>2, <1>3, AfterStep

LEMMA NameGood ==
  ASSUME NEW w \in Seq(Char), NEW l, NEW toks, NEW i, NEW p, Elem(l, toks, w, i, p), InName(l, w, i, p)
  PROVE  Good(NameTurn(l), Got(toks, NameTurn(l)), w)
<1>. DEFINE m == NameTurn(l)  c == CharAt(w, p)  S == Initials
<1>1. /\ p \in 1 .. Len(w) + 1 /\ i \in 1 .. Len(w) /\ Len(w) \in Nat /\ i <= p /\ l.mode = "name"
      /\ w[i] \in S /\ l.buff = SubSeq(w, i, p - 1) /\ After(w, i, Alnum) = After(w, p, Alnum)
      /\ At(l, Alnum) <=> c \in Alnum
  BY ElemAt DEF InName, RunOf
<1>2. EOZ \notin Alnum /\ \A x \in Alnum : x \notin Newlines
  BY DEF EOZ, Alnum, Digits, Initials, Letters, Newlines
<1>3. /\ c \in Alnum => p \in 1 .. Len(w) /\ w[p] \in Alnum /\ After(w, p, Alnum) = After(w, p + 1, Alnum)
      /\ c \notin Alnum => After(w, p, Alnum) = p
      /\ p \in 1 .. Len(w) => SubSeq(w, i, p + 1 - 1) = Append(SubSeq(w, i, p - 1), w[p])
  BY <1>1, <1>2, RunMore
<1>4. m = IF At(l, Alnum) THEN SaveAndNext(l)
          ELSE Return(l, IF l.buff \in Reserved THEN "reserved" ELSE "<name>", l.buff)
  BY DEF NameTurn
<1>. HIDE DEF m, c, S
<1>5. CASE c \in Alnum
  <2>1. m = SaveAndNext(l) /\ w[p] \notin Newlines
    BY <1>1, <1>2, <1>3, <1>4, <1>5
  <2>2. Elem(m, toks, w, i, p + 1) /\ m.mode = "name" /\ m.buff = Append(l.buff, w[p])
    BY <1>1, <1>3, <1>5, <2>1, OneMore
  <2>3. RunOf(w, i, p + 1, Alnum)
    BY <1>1, <1>3, <1>5 DEF RunOf
  <2>4. InName(m, w, i, p + 1)
    BY <1>1, <1>3, <1>5, <2>2, <2>3 DEF InName, S
  <2>5. Between(m, w, i, p + 1)
    BY <2>4 DEF Between
  <2>6. Good(m, Got(toks, m), w)
    BY <2>2, <2>5, GoesOn
  <2>. QED
    BY <2>6 DEF m
<1>6. CASE c \notin Alnum
  <2>. DEFINE k == IF l.buff \in Reserved THEN "reserved" ELSE "<name>"
  <2>1. After(w, i, Alnum) = p
    BY <1>1, <1>3, <1>6
  <2>2. ElementBy(w, i, w[i], CharAt(w, i + 1), Lexeme(w, i))
    BY <1>1, LexemeIs
  <2>3. Lexeme(w, i) = Word(w, i)
    BY <1>1, <2>2 DEF ElementBy, S
  <2>4. Lexeme(w, i) = Plain(k, l.buff, p)
    BY <1>1, <2>1, <2>3 DEF Word
  <2>5. k # "part" /\ k # "error"
    OBVIOUS
  <2>6. m = Return(l, k, l.buff)
    BY <1>1, <1>4, <1>6
  <2>. HIDE DEF k
  <2>7. Good(m, Got(toks, m), w)
    BY <1>1, <2>4, <2>5, <2>6, Returns
  <2>. QED
    BY <2>7 DEF m
<1>. QED
  BY <1>5, <1>6

NumeralTurn(l) ==
  IF At(l, Digits \cup {"."}) THEN SaveAndNext(l)
  ELSE In(IF At(l, {"e"}) THEN Optional(SaveAndNext(l), {"-"}) ELSE l, "suffix")

LEMMA SliceNext ==
  ASSUME NEW w \in Seq(Char), NEW a \in Nat \ {0}, NEW p \in Nat, a <= p + 1, p + 1 <= Len(w)
  PROVE  SubSeq(w, a, p) \in Seq(Char) /\ SubSeq(w, a, p + 1) = Append(SubSeq(w, a, p), w[p + 1])
<1>. DEFINE q == p + 1
<1>1. q \in Nat /\ q - 1 = p /\ a <= q /\ q <= Len(w)
  OBVIOUS
<1>. HIDE DEF q
<1>2. SubSeq(w, a, q - 1) \in Seq(Char) /\ SubSeq(w, a, q) = Append(SubSeq(w, a, q - 1), w[q])
  BY <1>1, SliceMore
<1>3. SubSeq(w, a, p) \in Seq(Char) /\ SubSeq(w, a, q) = Append(SubSeq(w, a, p), w[q])
  BY <1>1, <1>2
<1>. QED
  BY <1>3 DEF q

LEMMA SuffixBegins ==
  ASSUME NEW w \in Seq(Char), NEW n, NEW toks, NEW i \in 1 .. Len(w), NEW e, Elem(n, toks, w, i, e), i <= e,
         w[i] \in Digits \cup {"."}, Lexeme(w, i) = Numeral(w, i), NumeralEnd(w, i) = After(w, e, Alnum),
         n.buff = SubSeq(w, i, e - 1)
  PROVE  Good(In(n, "suffix"), Got(toks, In(n, "suffix")), w)
<1>. DEFINE k == In(n, "suffix")
<1>1. Elem(k, toks, w, i, e) /\ k.mode = "suffix" /\ k.buff = n.buff
  BY InMore
<1>. HIDE DEF k
<1>2. InSuffix(k, w, i, e)
  BY <1>1 DEF InSuffix
<1>3. Between(k, w, i, e)
  BY <1>2 DEF Between
<1>4. Good(k, Got(toks, k), w)
  BY <1>1, <1>3, GoesOn
<1>. QED
  BY <1>4 DEF k

LEMMA NumeralGood ==
  ASSUME NEW w \in Seq(Char), NEW l, NEW toks, NEW i, NEW p, Elem(l, toks, w, i, p), InNumeral(l, w, i, p)
  PROVE  Good(NumeralTurn(l), Got(toks, NumeralTurn(l)), w)
<1>. DEFINE m == NumeralTurn(l)  c == CharAt(w, p)  S == Digits \cup {"."}
            one == SaveAndNext(l)  two == SaveAndNext(one)  d == CharAt(w, p + 1)
<1>1. /\ p \in 1 .. Len(w) + 1 /\ i \in 1 .. Len(w) /\ Len(w) \in Nat /\ i <= p /\ l.mode = "numeral"
      /\ w[i] \in S /\ l.buff = SubSeq(w, i, p - 1) /\ After(w, i, S) = After(w, p, S) /\ Lexeme(w, i) = Numeral(w, i)
      /\ At(l, S) <=> c \in S
      /\ At(l, {"e"}) <=> c = "e"
  BY ElemAt DEF InNumeral, RunOf
<1>2. EOZ \notin S /\ (\A x \in S : x \notin Newlines) /\ "e" \notin Newlines /\ "-" \notin Newlines
      /\ "e" # EOZ /\ "-" # EOZ
  BY DEF EOZ, Digits, Newlines
<1>. HIDE DEF S
<1>3. /\ c \in S => p \in 1 .. Len(w) /\ w[p] \in S /\ After(w, p, S) = After(w, p + 1, S)
      /\ c \notin S => After(w, p, S) = p
      /\ p \in 1 .. Len(w) => SubSeq(w, i, p + 1 - 1) = Append(SubSeq(w, i, p - 1), w[p])
  BY <1>1, <1>2, RunMore
<1>4. m = IF At(l, S) THEN SaveAndNext(l)
          ELSE In(IF At(l, {"e"}) THEN Optional(one, {"-"}) ELSE l, "suffix")
  BY DEF NumeralTurn, S
<1>5. Optional(one, {"-"}) = IF At(one, {"-"}) THEN two ELSE one
  BY DEF Optional
<1>6. NumeralEnd(w, i) = LET mantissa == After(w, i, S)
                             sign == mantissa + 1
                             rest == IF CharAt(w, mantissa) # "e" THEN mantissa
                                     ELSE IF CharAt(w, sign) = "-" THEN sign + 1 ELSE sign
                         IN After(w, rest, Alnum)
  BY DEF NumeralEnd, S
<1>. HIDE DEF m, c, one
<1>7. CASE c \in S
  <2>1. m = SaveAndNext(l) /\ w[p] \notin Newlines
    BY <1>1, <1>2, <1>3, <1>4, <1>7
  <2>2. Elem(m, toks, w, i, p + 1) /\ m.mode = "numeral" /\ m.buff = Append(l.buff, w[p])
    BY <1>1, <1>3, <1>7, <2>1, OneMore
  <2>3. RunOf(w, i, p + 1, S)
    BY <1>1, <1>3, <1>7 DEF RunOf
  <2>4. InNumeral(m, w, i, p + 1)
    BY <1>1, <1>3, <1>7, <2>2, <2>3 DEF InNumeral, S
  <2>5. Between(m, w, i, p + 1)
    BY <2>4 DEF Between
  <2>6. Good(m, Got(toks, m), w)
    BY <2>2, <2>5, GoesOn
  <2>. QED
    BY <2>6 DEF m
<1>8. CASE c \notin S
  <2>0. After(w, i, S) = p
    BY <1>1, <1>3, <1>8
  <2>. DEFINE rest == IF c # "e" THEN p ELSE IF d = "-" THEN p + 2 ELSE p + 1
  <2>1. NumeralEnd(w, i) = After(w, rest, Alnum)
    <3>1. p + 1 + 1 = p + 2
      BY <1>1
    <3>. QED
      BY <1>6, <2>0, <3>1 DEF c
  <2>2. w[i] \in Digits \cup {"."}
    BY <1>1 DEF S
  <2>. HIDE DEF rest
  <2>5. ASSUME NEW n, NEW e \in Nat, Elem(n, toks, w, i, e), i <= e, rest = e, n.buff = SubSeq(w, i, e - 1)
        PROVE  Good(In(n, "suffix"), Got(toks, In(n, "suffix")), w)
    <3>1. NumeralEnd(w, i) = After(w, e, Alnum) /\ Lexeme(w, i) = Numeral(w, i) /\ i \in 1 .. Len(w)
      BY <1>1, <2>1, <2>5
    <3>. QED
      BY <2>2, <2>5, <3>1, SuffixBegins
  <2>3. CASE c # "e"
    <3>1. m = In(l, "suffix") /\ rest = p
      BY <1>1, <1>4, <1>8, <2>3 DEF rest
    <3>2. Good(m, Got(toks, m), w)
      BY <1>1, <2>1, <2>2, <3>1, SuffixBegins
    <3>. QED
      BY <3>2 DEF m
  <2>4. CASE c = "e"
    <3>1. p \in 1 .. Len(w) /\ w[p] = "e"
      BY <1>1, <1>2, <2>4, CharsAt DEF c
    <3>2. Elem(one, toks, w, i, p + 1) /\ one.buff = Append(l.buff, w[p])
      BY <1>2, <3>1, OneMore DEF one
    <3>3. one.buff = SubSeq(w, i, p + 1 - 1)
      BY <1>1, <1>3, <3>1, <3>2
    <3>4. /\ At(one, {"-"}) <=> d = "-"
          /\ p + 1 \in 1 .. Len(w) + 1
      BY <3>2, ElemAt
    <3>5. m = In(IF At(one, {"-"}) THEN two ELSE one, "suffix")
      BY <1>1, <1>4, <1>5, <1>8, <2>4
    <3>. HIDE DEF d
    <3>6. CASE d # "-"
      <4>1. m = In(one, "suffix") /\ rest = p + 1
        BY <2>4, <3>4, <3>5, <3>6 DEF rest
      <4>2. i <= p + 1 /\ p + 1 \in Nat /\ one.buff = SubSeq(w, i, (p + 1) - 1)
        BY <1>1, <3>3
      <4>3. Good(In(one, "suffix"), Got(toks, In(one, "suffix")), w)
        BY <2>5, <3>2, <4>1, <4>2
      <4>. QED
        BY <4>1, <4>3 DEF m
    <3>7. CASE d = "-"
      <4>1. m = In(two, "suffix") /\ rest = p + 2
        BY <2>4, <3>4, <3>5, <3>7 DEF rest
      <4>2. p + 1 \in 1 .. Len(w) /\ w[p + 1] = "-" /\ p + 1 + 1 = p + 2 /\ i <= p + 1
        BY <1>1, <1>2, <3>4, <3>7, CharsAt DEF d
      <4>3. Elem(two, toks, w, i, p + 2) /\ two.buff = Append(one.buff, w[p + 1])
        BY <1>2, <3>2, <4>2, OneMore
      <4>4. SubSeq(w, i, p + 1) = Append(SubSeq(w, i, p), w[p + 1])
        <5>1. i \in Nat \ {0} /\ p \in Nat /\ p + 1 <= Len(w) /\ i <= p + 1
          BY <1>1, <4>2
        <5>. QED
          BY <5>1, SliceNext
      <4>. HIDE DEF two
      <4>5. two.buff = SubSeq(w, i, (p + 2) - 1)
        <5>1. (p + 2) - 1 = p + 1 /\ p + 1 - 1 = p
          BY <1>1
        <5>. QED
          BY <3>3, <4>3, <4>4, <5>1
      <4>6. Good(In(two, "suffix"), Got(toks, In(two, "suffix")), w)
        <5>1. i <= p + 2 /\ p + 2 \in Nat
          BY <1>1
        <5>. QED
          BY <2>5, <4>1, <4>3, <4>5, <5>1
      <4>. QED
        BY <4>1, <4>6 DEF m
    <3>. QED
      BY <3>6, <3>7
  <2>. QED
    BY <2>3, <2>4
<1>. QED
  BY <1>7, <1>8

SuffixTurn(l) ==
  IF At(l, Alnum) THEN SaveAndNext(l)
  ELSE IF IsNumber(l.buff) THEN Return(l, "<number>", l.buff) ELSE LexError(l, "number")

LEMMA SuffixGood ==
  ASSUME NEW w \in Seq(Char), NEW l, NEW toks, NEW i, NEW p, Elem(l, toks, w, i, p), InSuffix(l, w, i, p)
  PROVE  Good(SuffixTurn(l), Got(toks, SuffixTurn(l)), w)
<1>. DEFINE m == SuffixTurn(l)  c == CharAt(w, p)
<1>1. /\ p \in 1 .. Len(w) + 1 /\ i \in 1 .. Len(w) /\ Len(w) \in Nat /\ i <= p /\ l.mode = "suffix"
      /\ w[i] \in Digits \cup {"."} /\ l.buff = SubSeq(w, i, p - 1) /\ NumeralEnd(w, i) = After(w, p, Alnum)
      /\ Lexeme(w, i) = Numeral(w, i)
      /\ At(l, Alnum) <=> c \in Alnum
  BY ElemAt DEF InSuffix
<1>2. EOZ \notin Alnum /\ \A x \in Alnum : x \notin Newlines
  BY DEF EOZ, Alnum, Digits, Initials, Letters, Newlines
<1>3. /\ c \in Alnum => p \in 1 .. Len(w) /\ w[p] \in Alnum /\ After(w, p, Alnum) = After(w, p + 1, Alnum)
      /\ c \notin Alnum => After(w, p, Alnum) = p
      /\ p \in 1 .. Len(w) => SubSeq(w, i, p + 1 - 1) = Append(SubSeq(w, i, p - 1), w[p])
  BY <1>1, <1>2, RunMore
<1>4. m = IF At(l, Alnum) THEN SaveAndNext(l)
          ELSE IF IsNumber(l.buff) THEN Return(l, "<number>", l.buff) ELSE LexError(l, "number")
  BY DEF SuffixTurn
<1>. HIDE DEF m, c
<1>5. CASE c \in Alnum
  <2>1. m = SaveAndNext(l) /\ w[p] \notin Newlines
    BY <1>1, <1>2, <1>3, <1>4, <1>5
  <2>2. Elem(m, toks, w, i, p + 1) /\ m.mode = "suffix" /\ m.buff = Append(l.buff, w[p])
    BY <1>1, <1>3, <1>5, <2>1, OneMore
  <2>3. i <= p + 1
    BY <1>1
  <2>4. InSuffix(m, w, i, p + 1)
    BY <1>1, <1>3, <1>5, <2>2, <2>3 DEF InSuffix
  <2>5. Between(m, w, i, p + 1)
    BY <2>4 DEF Between
  <2>6. Good(m, Got(toks, m), w)
    BY <2>2, <2>5, GoesOn
  <2>. QED
    BY <2>6 DEF m
<1>6. CASE c \notin Alnum
  <2>1. NumeralEnd(w, i) = p
    BY <1>1, <1>3, <1>6
  <2>2. Lexeme(w, i) = IF IsNumber(l.buff) THEN Plain("<number>", l.buff, p) ELSE Plain("error", "number", p)
    BY <1>1, <2>1 DEF Numeral, Error
  <2>3. CASE IsNumber(l.buff)
    <3>1. m = Return(l, "<number>", l.buff) /\ Lexeme(w, i) = Plain("<number>", l.buff, p)
      BY <1>1, <1>4, <1>6, <2>2, <2>3
    <3>2. "<number>" # "part" /\ "<number>" # "error"
      OBVIOUS
    <3>3. Good(m, Got(toks, m), w)
      BY <1>1, <3>1, <3>2, Returns
    <3>. QED
      BY <3>3 DEF m
  <2>4. CASE ~IsNumber(l.buff)
    <3>1. m = LexError(l, "number") /\ Lexeme(w, i) = Plain("error", "number", p)
      BY <1>1, <1>4, <1>6, <2>2, <2>4
    <3>2. Good(m, Got(toks, m), w)
      BY <1>1, <3>1, Fails
    <3>. QED
      BY <3>2 DEF m
  <2>. QED
    BY <2>3, <2>4
<1>. QED
  BY <1>5, <1>6

-----------------------------------------------------------------------------
(* In strings *)

LEMMA AppendIsJoin ==
  ASSUME NEW S, NEW s \in Seq(S), NEW b \in S
  PROVE  Append(s, b) = s \o <<b>>
OBVIOUS

LEMMA ReadUnits ==
  ASSUME NEW q \in Unit, NEW v \in Seq(Unit), NEW u \in Seq(Unit)
  PROVE  /\ <<q>> \o v \in Seq(Unit) /\ (<<q>> \o v) \o u = <<q>> \o (v \o u) /\ v \o u \in Seq(Unit)
<1>. DEFINE s == <<q>>
<1>1. s \in Seq(Unit)
  OBVIOUS
<1>. HIDE DEF s
<1>2. s \o v \in Seq(Unit) /\ v \o u \in Seq(Unit)
  BY <1>1
<1>3. (s \o v) \o u = s \o (v \o u)
  BY <1>1, ConcatAssociative
<1>. QED
  BY <1>2, <1>3 DEF s

LEMMA UnitAppended ==
  ASSUME NEW q \in Unit, NEW v \in Seq(Unit), NEW c \in Unit
  PROVE  Append(<<q>> \o v, c) = (<<q>> \o v) \o <<c>>
<1>. DEFINE s == <<q>>  t == s \o v
<1>1. s \in Seq(Unit)
  OBVIOUS
<1>. HIDE DEF s
<1>2. t \in Seq(Unit)
  BY <1>1
<1>. HIDE DEF t
<1>3. Append(t, c) = t \o <<c>>
  BY <1>2, AppendIsJoin
<1>. QED
  BY <1>3 DEF s, t

\* v has been read of the string at i, the next part of which begins at j.
ReadOf(w, i, v, j) ==
  /\ i \in 1 .. Len(w) /\ w[i] \in Quotes /\ Lexeme(w, i) = Quoted(w, i)
  /\ j \in i + 1 .. Len(w) + 1 /\ ReadUpTo(w, i, v, j)

\* m is behind the next part of the string.
LEMMA StringMore ==
  ASSUME NEW w \in Seq(Char), NEW toks, NEW i, NEW v, NEW j, ReadOf(w, i, v, j),
         NEW u, NEW e, PartOfString(w, i, j) = Plain("part", u, e),
         NEW m, Elem(m, toks, w, i, e), m.mode = "string", m.del = w[i], m.buff = (<<w[i]>> \o v) \o u
  PROVE  Good(m, Got(toks, m), w)
<1>1. /\ i \in 1 .. Len(w) /\ w[i] \in Quotes /\ Lexeme(w, i) = Quoted(w, i) /\ Len(w) \in Nat
      /\ j \in i + 1 .. Len(w) + 1 /\ ReadUpTo(w, i, v, j) /\ v \in Seq(Unit)
  BY DEF ReadOf, ReadUpTo
<1>2. u \in Seq(Unit) /\ e \in j + 1 .. Len(w) + 1 /\ ReadUpTo(w, i, v \o u, e)
  BY <1>1, ReadMore
<1>3. w[i] \in Unit
  <2>1. w[i] \in Char
    BY <1>1
  <2>. QED
    BY <2>1, UnitsAre
<1>4. m.buff = <<w[i]>> \o (v \o u)
  BY <1>1, <1>2, <1>3, ReadUnits
<1>5. e \in i + 1 .. Len(w) + 1
  BY <1>1, <1>2
<1>6. StringTo(m, w, i, e)
  BY <1>1, <1>2, <1>4, <1>5 DEF StringTo
<1>7. Between(m, w, i, e)
  BY <1>6 DEF InString, Between
<1>. QED
  BY <1>7, GoesOn

\* l has read v, and is at p.
StringHeld(l, toks, w, i, v, p) ==
  /\ Elem(l, toks, w, i, p) /\ l.mode = "string" /\ l.del = w[i] /\ l.buff = <<w[i]>> \o v

LEMMA EscapeTurnIs ==
  ASSUME NEW l
  PROVE  /\ At(l, {"a"}) => Escape(l) = NextChar(Save(l, Bell))
         /\ At(l, Newlines) => Escape(l) = IncLineNumber(Save(l, "\n"))
         /\ At(l, {EOZ}) => Escape(l) = l
         /\ At(l, Digits) => Escape(l) = [l EXCEPT !.mode = "decimal", !.count = 0, !.code = 0]
         /\ ~At(l, {"a", EOZ} \cup Newlines \cup Digits) => Escape(l) = SaveAndNext(l)
<1>1. /\ EOZ \notin {"a"} \cup Newlines \cup Digits /\ "a" \notin Newlines \cup Digits
      /\ Newlines \cap Digits = {}
  BY DEF EOZ, Newlines, Digits
<1>2. At(l, {"a"}) => Escape(l) = NextChar(Save(l, Bell))
  BY <1>1 DEF Escape, At
<1>3. At(l, Newlines) => Escape(l) = IncLineNumber(Save(l, "\n"))
  BY <1>1 DEF Escape, At
<1>4. At(l, {EOZ}) => Escape(l) = l
  BY <1>1 DEF Escape, At
<1>5. At(l, Digits) => Escape(l) = [l EXCEPT !.mode = "decimal", !.count = 0, !.code = 0]
  BY <1>1 DEF Escape, At
<1>6. ~At(l, {"a", EOZ} \cup Newlines \cup Digits) => Escape(l) = SaveAndNext(l)
  BY DEF Escape, At
<1>. QED
  BY <1>2, <1>3, <1>4, <1>5, <1>6

LEMMA EscapeGood ==
  ASSUME NEW w \in Seq(Char), NEW toks, NEW i, NEW v, NEW j, ReadOf(w, i, v, j), CharAt(w, j) = Backslash,
         NEW p, p = j + 1, NEW l, StringHeld(l, toks, w, i, v, p)
  PROVE  Good(Escape(l), Got(toks, Escape(l)), w)
<1>. DEFINE m == Escape(l)  d == CharAt(w, p)  q == w[i]
<1>1. /\ i \in 1 .. Len(w) /\ q \in Quotes /\ Lexeme(w, i) = Quoted(w, i) /\ Len(w) \in Nat
      /\ j \in i + 1 .. Len(w) + 1 /\ ReadUpTo(w, i, v, j) /\ v \in Seq(Unit) /\ p = j + 1 /\ p + 1 = j + 2
      /\ Elem(l, toks, w, i, p) /\ l.mode = "string" /\ l.del = q /\ l.buff = <<q>> \o v
  BY DEF ReadOf, ReadUpTo, StringHeld
<1>2. /\ p \in 1 .. Len(w) + 1
      /\ \A S : At(l, S) <=> d \in S
      /\ d # EOZ => p \in 1 .. Len(w) /\ d = w[p]
  BY <1>1, ElemAt
<1>3. PartOfString(w, i, j) = EscapeAt(w, j)
  <2>1. w[i] \in Quotes /\ CharAt(w, j) = Backslash
    BY <1>1
  <2>. QED
    BY <2>1, PartOfStringIs
<1>4. /\ d \in Newlines => EscapeAt(w, j) = Plain("part", <<"\n">>, PastBreak(w, p))
      /\ d = EOZ => EscapeAt(w, j) = Plain("part", <<>>, p)
      /\ d = "a" => EscapeAt(w, j) = Plain("part", <<Bell>>, j + 2)
      /\ d \notin Newlines \cup {EOZ, "a"} \cup Digits => EscapeAt(w, j) = Plain("part", <<d>>, j + 2)
  <2>1. p = j + 1
    BY <1>1
  <2>. QED
    BY ONLY <2>1, EscapeIs
<1>5. /\ At(l, {"a"}) => m = NextChar(Save(l, Bell))
      /\ At(l, Newlines) => m = IncLineNumber(Save(l, "\n"))
      /\ At(l, {EOZ}) => m = l
      /\ At(l, Digits) => m = [l EXCEPT !.mode = "decimal", !.count = 0, !.code = 0]
      /\ ~At(l, {"a", EOZ} \cup Newlines \cup Digits) => m = SaveAndNext(l)
  BY EscapeTurnIs
<1>6. q \in Unit /\ Bell \in Unit /\ "\n" \in Unit
  <2>1. q \in Char
    BY <1>1
  <2>2. "\n" \in Char /\ Bell \in Unit
    BY CharsAre DEF Unit
  <2>. QED
    BY <2>1, <2>2, UnitsAre
<1>7. \A c \in Unit : Append(l.buff, c) = l.buff \o <<c>>
  BY <1>1, <1>6, UnitAppended
<1>8. ReadOf(w, i, v, j)
  OBVIOUS
<1>9. \A n, u, e : PartOfString(w, i, j) = Plain("part", u, e) /\ Elem(n, toks, w, i, e) /\ n.mode = "string"
                   /\ n.del = q /\ n.buff = l.buff \o u => Good(n, Got(toks, n), w)
  <2>. SUFFICES ASSUME NEW n, NEW u, NEW e, PartOfString(w, i, j) = Plain("part", u, e), Elem(n, toks, w, i, e),
                       n.mode = "string", n.del = q, n.buff = l.buff \o u
                PROVE  Good(n, Got(toks, n), w)
    OBVIOUS
  <2>. QED
    BY <1>1, <1>8, StringMore
<1>. HIDE DEF m, d
<1>10. CASE d = "a"
  <2>. DEFINE s == Save(l, Bell)
  <2>0. "a" # EOZ /\ "a" \notin Newlines
    BY DEF EOZ, Newlines
  <2>1. Elem(s, toks, w, i, p) /\ s.mode = "string" /\ s.buff = Append(l.buff, Bell) /\ Rest(s, l)
    <3>1. Elem(l, toks, w, i, p)
      BY <1>1
    <3>2. /\ Elem(s, toks, w, i, p) /\ s.mode = l.mode /\ s.buff = Append(l.buff, Bell)
          /\ Rest(s, l)
      BY ONLY <3>1, SaveMore
    <3>. QED
      BY <1>1, <3>2
  <2>2. m = NextChar(s) /\ p \in 1 .. Len(w) /\ w[p] \notin Newlines
    BY <1>2, <1>5, <1>10, <2>0
  <2>. HIDE DEF s
  <2>3. Elem(m, toks, w, i, p + 1) /\ m.mode = "string" /\ m.buff = s.buff /\ Rest(m, s)
    BY <2>1, <2>2, OneMore
  <2>4. m.del = q /\ m.buff = l.buff \o <<Bell>>
    BY <1>1, <1>6, <1>7, <2>1, <2>3 DEF Rest
  <2>5. PartOfString(w, i, j) = Plain("part", <<Bell>>, p + 1)
    BY <1>1, <1>3, <1>4, <1>10
  <2>6. Good(m, Got(toks, m), w)
    BY <1>9, <2>3, <2>4, <2>5
  <2>. QED
    BY <2>6 DEF m
<1>11. CASE d \in Newlines
  <2>. DEFINE s == Save(l, "\n")  e == PastBreak(w, p)
  <2>0. EOZ \notin Newlines
    BY DEF EOZ, Newlines
  <2>1. Elem(s, toks, w, i, p) /\ s.mode = "string" /\ s.buff = Append(l.buff, "\n") /\ Rest(s, l)
    BY <1>1, SaveMore, SMTT(20)
  <2>2. m = IncLineNumber(s) /\ p \in 1 .. Len(w) /\ w[p] \in Newlines
    BY <1>2, <1>5, <1>11, <2>0
  <2>. HIDE DEF s, e
  <2>3. Elem(m, toks, w, i, e) /\ m.mode = "string" /\ m.buff = s.buff /\ Rest(m, s)
    BY <2>1, <2>2, BreakMore DEF e
  <2>4. m.del = q /\ m.buff = l.buff \o <<"\n">>
    BY <1>1, <1>6, <1>7, <2>1, <2>3 DEF Rest
  <2>5. PartOfString(w, i, j) = Plain("part", <<"\n">>, e)
    BY <1>3, <1>4, <1>11 DEF e
  <2>6. Good(m, Got(toks, m), w)
    BY <1>9, <2>3, <2>4, <2>5
  <2>. QED
    BY <2>6 DEF m
<1>12. CASE d = EOZ
  <2>1. m = l
    BY <1>2, <1>5, <1>12
  <2>2. l.buff = l.buff \o <<>>
    <3>1. l.buff \in Seq(Unit)
      BY <1>1, <1>6, ReadUnits
    <3>. QED
      BY <3>1
  <2>3. PartOfString(w, i, j) = Plain("part", <<>>, p)
    BY <1>3, <1>4, <1>12
  <2>4. Good(m, Got(toks, m), w)
    BY <1>1, <1>9, <2>1, <2>2, <2>3
  <2>. QED
    BY <2>4 DEF m
<1>13. CASE d \in Digits
  <2>0. Stands(l, w, p) /\ IsLex(l)
    BY <1>1 DEF Elem, Stands
  <2>1. m = [l EXCEPT !.mode = "decimal", !.count = 0, !.code = 0]
    BY <1>2, <1>5, <1>13
  <2>2. /\ IsLex(m) /\ m.z = l.z /\ m.lineNumber = l.lineNumber /\ m.mode = "decimal" /\ m.count = 0 /\ m.code = 0
        /\ m.del = q /\ m.buff = l.buff /\ Carries(m, l)
    BY <1>1, <2>0, <2>1 DEF IsLex, LexFields, Carries
  <2>3. Stands(m, w, p)
    BY <2>0, <2>2, StandsToo
  <2>4. Elem(m, toks, w, i, p)
    BY <1>1, <2>2, <2>3, ElemTo
  <2>5. StringTo(m, w, i, j)
    BY <1>1, <2>2 DEF StringTo
  <2>6. p - 1 - m.count = j /\ m.count \in 0 .. 3
    BY <1>1, <2>2
  <2>7. Decimal(SubSeq(w, p, p - 1)) = 0
    <3>1. p \in Nat \ {0} /\ p <= Len(w) + 1
      BY <1>2
    <3>2. SubSeq(w, p, p - 1) = <<>>
      BY <3>1, SliceNone
    <3>. QED
      BY <3>2, DecimalOfNone
  <2>8. RunOf(w, p, p, Digits)
    BY <1>2 DEF RunOf
  <2>9. InDecimal(m, w, i, p)
    <3>1. StringTo(m, w, i, j) /\ CharAt(w, j) = Backslash /\ CharAt(w, j + 1) \in Digits
          /\ m.code = Decimal(SubSeq(w, j + 1, p - 1)) /\ RunOf(w, j + 1, p, Digits)
      BY <1>1, <1>13, <2>2, <2>5, <2>7, <2>8 DEF d
    <3>. QED
      BY <2>2, <2>6, <3>1 DEF InDecimal
  <2>10. Between(m, w, i, p)
    BY <2>9 DEF Between
  <2>11. Good(m, Got(toks, m), w)
    BY <2>2, <2>4, <2>10, GoesOn
  <2>. QED
    BY <2>11 DEF m
<1>14. CASE d \notin Newlines \cup {EOZ, "a"} \cup Digits
  <2>1. m = SaveAndNext(l) /\ p \in 1 .. Len(w) /\ w[p] \notin Newlines /\ d = w[p]
    BY <1>2, <1>5, <1>14
  <2>2. Elem(m, toks, w, i, p + 1) /\ m.mode = "string" /\ m.buff = Append(l.buff, d) /\ Rest(m, l)
    BY <1>1, <2>1, OneMore
  <2>3. d \in Unit
    <3>1. d \in Char
      BY <2>1
    <3>. QED
      BY <3>1, UnitsAre
  <2>4. m.del = q /\ m.buff = l.buff \o <<d>>
    BY <1>1, <1>7, <2>2, <2>3 DEF Rest
  <2>5. PartOfString(w, i, j) = Plain("part", <<d>>, p + 1)
    BY <1>1, <1>3, <1>4, <1>14
  <2>6. Good(m, Got(toks, m), w)
    BY <1>9, <2>2, <2>4, <2>5
  <2>. QED
    BY <2>6 DEF m
<1>. QED
  BY <1>10, <1>11, <1>12, <1>13, <1>14

\* What is left without n at each end.
LEMMA MiddleIs ==
  ASSUME NEW S, NEW n \in Nat, NEW h \in Seq(S), NEW v \in Seq(S), NEW t \in Seq(S), Len(h) = n, Len(t) = n
  PROVE  SubSeq((h \o v) \o t, 1 + n, Len((h \o v) \o t) - n) = v
<1>. DEFINE s == (h \o v) \o t  k == Len(v)
<1>1. s \in Seq(S) /\ k \in Nat
  OBVIOUS
<1>2. Len(s) = (n + k) + n
  OBVIOUS
<1>3. \A i \in 1 .. k : s[n + i] = v[i]
  <2>1. h \o v \in Seq(S) /\ Len(h \o v) = n + k
    OBVIOUS
  <2>2. \A i \in 1 .. k : (h \o v)[n + i] = v[i]
    OBVIOUS
  <2>3. \A i \in 1 .. n + k : s[i] = (h \o v)[i]
    BY <2>1
  <2>4. \A i \in 1 .. k : n + i \in 1 .. n + k
    BY <1>1
  <2>. QED
    BY <2>2, <2>3, <2>4
<1>. HIDE DEF s
<1>4. Len(s) - n = n + k
  BY <1>1, <1>2
<1>. DEFINE r == SubSeq(s, 1 + n, n + k)
<1>5. r \in Seq(S) /\ Len(r) = k /\ \A i \in 1 .. k : r[i] = s[n + i]
  BY <1>1, <1>2
<1>. HIDE DEF r
<1>6. r = v
  BY <1>3, <1>5
<1>. QED
  BY <1>4, <1>6 DEF r, s

Framed(s, h, v, t) == s = (h \o v) \o t

LEMMA TrimmedIs ==
  ASSUME NEW n \in Nat, NEW h \in Seq(Unit), NEW v \in Seq(Unit), NEW t \in Seq(Unit), Len(h) = n, Len(t) = n,
         NEW l, Framed(l.buff, h, v, t)
  PROVE  Trimmed(l, n) = v
<1>. DEFINE s == (h \o v) \o t
<1>1. SubSeq(s, 1 + n, Len(s) - n) = v
  BY MiddleIs
<1>2. l.buff = s
  BY DEF Framed
<1>. HIDE DEF s
<1>. QED
  BY <1>1, <1>2 DEF Trimmed

LEMMA StringTurnIs ==
  ASSUME NEW l, l.del \in Quotes
  PROVE  /\ At(l, {l.del}) => StringTurn(l) = Return(SaveAndNext(l), "<string>", Trimmed(SaveAndNext(l), 1))
         /\ At(l, Newlines \cup {EOZ}) => StringTurn(l) = LexError(l, "unfinished")
         /\ At(l, {Backslash}) => StringTurn(l) = Escape(NextChar(l))
         /\ ~At(l, {l.del, EOZ, Backslash} \cup Newlines) => StringTurn(l) = SaveAndNext(l)
<1>. DEFINE del == l.del
<1>1. /\ del \notin Newlines \cup {EOZ, Backslash} /\ EOZ \notin Newlines /\ EOZ # Backslash
      /\ Backslash \notin Newlines
  BY DEF Quotes, Newlines, EOZ, Backslash
<1>2. At(l, {del}) => StringTurn(l) = Return(SaveAndNext(l), "<string>", Trimmed(SaveAndNext(l), 1))
  BY <1>1 DEF StringTurn, At
<1>3. At(l, Newlines \cup {EOZ}) => StringTurn(l) = LexError(l, "unfinished")
  BY <1>1 DEF StringTurn, At
<1>4. At(l, {Backslash}) => StringTurn(l) = Escape(NextChar(l))
  BY <1>1 DEF StringTurn, At
<1>5. ~At(l, {del, EOZ, Backslash} \cup Newlines) => StringTurn(l) = SaveAndNext(l)
  BY DEF StringTurn, At
<1>. QED
  BY <1>2, <1>3, <1>4, <1>5

LEMMA StringGood ==
  ASSUME NEW w \in Seq(Char), NEW l, NEW toks, NEW i, NEW p, Elem(l, toks, w, i, p), InString(l, w, i, p)
  PROVE  Good(StringTurn(l), Got(toks, StringTurn(l)), w)
<1>. DEFINE m == StringTurn(l)  c == CharAt(w, p)  q == w[i]  one == SaveAndNext(l)  next == NextChar(l)
<1>1. PICK v : ReadUpTo(w, i, v, p) /\ l.buff = <<q>> \o v
  BY DEF InString, StringTo
<1>2. /\ i \in 1 .. Len(w) /\ q \in Quotes /\ Lexeme(w, i) = Quoted(w, i) /\ Len(w) \in Nat
      /\ p \in i + 1 .. Len(w) + 1 /\ v \in Seq(Unit) /\ l.mode = "string" /\ l.del = q
      /\ l.buff = <<q>> \o v /\ ReadUpTo(w, i, v, p) /\ ReadOf(w, i, v, p)
  BY <1>1 DEF InString, StringTo, ReadUpTo, ReadOf
<1>3. /\ p \in 1 .. Len(w) + 1
      /\ \A S : At(l, S) <=> c \in S
      /\ c # EOZ => p \in 1 .. Len(w) /\ c = w[p]
  BY ElemAt
<1>4. /\ At(l, {q}) => m = Return(one, "<string>", Trimmed(one, 1))
      /\ At(l, Newlines \cup {EOZ}) => m = LexError(l, "unfinished")
      /\ At(l, {Backslash}) => m = Escape(next)
      /\ ~At(l, {q, EOZ, Backslash} \cup Newlines) => m = one
  BY <1>2, StringTurnIs
<1>5. /\ c = q => PartOfString(w, i, p) = Plain("<string>", <<>>, p + 1)
      /\ c \in Newlines \cup {EOZ} => PartOfString(w, i, p) = Plain("error", "unfinished", p)
      /\ c \notin {q, EOZ, Backslash} \cup Newlines => PartOfString(w, i, p) = Plain("part", <<c>>, p + 1)
  BY <1>2, PartOfStringIs
<1>6. q \notin Newlines \cup {EOZ} /\ Backslash \notin Newlines \cup {EOZ}
  BY <1>2 DEF Quotes, Newlines, EOZ, Backslash
<1>7. q \in Unit /\ <<q>> \in Seq(Unit) /\ \A x \in Unit : Append(l.buff, x) = l.buff \o <<x>>
  <2>1. q \in Char
    BY <1>2
  <2>2. q \in Unit /\ <<q>> \in Seq(Unit)
    BY <2>1, UnitsAre
  <2>. QED
    BY <1>2, <2>2, UnitAppended
<1>. HIDE DEF m, c, one, next
<1>8. CASE c = q
  <2>1. p \in 1 .. Len(w) /\ w[p] = q /\ w[p] \notin Newlines
    BY <1>3, <1>6, <1>8
  <2>2. Elem(one, toks, w, i, p + 1) /\ one.buff = Append(l.buff, q)
    <3>1. Elem(one, toks, w, i, p + 1) /\ one.buff = Append(l.buff, w[p])
      BY <2>1, OneMore DEF one
    <3>. QED
      BY <2>1, <3>1
  <2>3. Trimmed(one, 1) = v
    <3>. DEFINE h == <<q>>
    <3>1. h \in Seq(Unit) /\ Len(h) = 1 /\ 1 \in Nat
      BY <1>7
    <3>2. one.buff = (h \o v) \o h
      BY <1>2, <1>7, <2>2
    <3>. HIDE DEF h
    <3>. DEFINE n == 1
    <3>4. n \in Nat /\ n = 1
      OBVIOUS
    <3>. HIDE DEF n
    <3>5. Len(h) = n
      BY <3>1, <3>4
    <3>6. Trimmed(one, n) = v
      <4>1. h \in Seq(Unit) /\ v \in Seq(Unit) /\ n \in Nat
        BY <1>2, <3>1, <3>4
      <4>2. Framed(one.buff, h, v, h)
        BY <3>2 DEF Framed
      <4>. QED
        BY <3>5, <4>1, <4>2, TrimmedIs
    <3>. QED
      BY <3>4, <3>6
  <2>4. Quoted(w, i) = Plain("<string>", v, p + 1)
    BY <1>2, <1>5, <1>8, ReadToEnd
  <2>5. m = Return(one, "<string>", v)
    BY <1>3, <1>4, <1>8, <2>3
  <2>6. "<string>" # "part" /\ "<string>" # "error"
    OBVIOUS
  <2>7. Good(m, Got(toks, m), w)
    BY <1>2, <2>2, <2>4, <2>5, <2>6, Returns
  <2>. QED
    BY <2>7 DEF m
<1>9. CASE c \in Newlines \cup {EOZ}
  <2>1. m = LexError(l, "unfinished")
    BY <1>3, <1>4, <1>9
  <2>2. Quoted(w, i) = Plain("error", "unfinished", p)
    BY <1>2, <1>5, <1>9, ReadToError
  <2>3. Good(m, Got(toks, m), w)
    BY <1>2, <2>1, <2>2, Fails
  <2>. QED
    BY <2>3 DEF m
<1>10. CASE c = Backslash
  <2>1. p \in 1 .. Len(w) /\ w[p] \notin Newlines /\ c = w[p]
    BY <1>3, <1>6, <1>10
  <2>2. Elem(next, toks, w, i, p + 1) /\ next.mode = "string" /\ next.buff = l.buff /\ Rest(next, l)
    BY <1>2, <2>1, OneMore DEF next
  <2>3. StringHeld(next, toks, w, i, v, p + 1)
    BY <1>2, <2>2 DEF StringHeld, Rest
  <2>4. m = Escape(next)
    BY <1>3, <1>4, <1>10
  <2>5. Good(Escape(next), Got(toks, Escape(next)), w)
    BY <1>2, <1>10, <2>3, EscapeGood DEF c
  <2>. QED
    BY <2>4, <2>5 DEF m
<1>11. CASE c \notin {q, EOZ, Backslash} \cup Newlines
  <2>1. p \in 1 .. Len(w) /\ w[p] \notin Newlines /\ c = w[p] /\ m = one
    BY <1>3, <1>4, <1>11
  <2>2. Elem(m, toks, w, i, p + 1) /\ m.mode = "string" /\ m.buff = Append(l.buff, c) /\ Rest(m, l)
    BY <1>2, <2>1, OneMore DEF one
  <2>3. c \in Unit
    <3>1. c \in Char
      BY <2>1
    <3>. QED
      BY <3>1, UnitsAre
  <2>4. m.del = q /\ m.buff = (<<q>> \o v) \o <<c>>
    BY <1>2, <1>7, <2>2, <2>3 DEF Rest
  <2>5. PartOfString(w, i, p) = Plain("part", <<c>>, p + 1)
    BY <1>5, <1>11
  <2>6. Good(m, Got(toks, m), w)
    BY <1>2, <2>2, <2>4, <2>5, StringMore
  <2>. QED
    BY <2>6 DEF m
<1>. QED
  BY <1>8, <1>9, <1>10, <1>11

DecimalTurn(l) ==
  IF l.count < 3 /\ At(l, Digits)
  THEN [NextChar(l) EXCEPT !.count = @ + 1, !.code = 10 * @ + DigitValue(Current(l))]
  ELSE IF l.code > UCHAR_MAX THEN LexError(l, "escape")
  ELSE In(Save(l, Byte(l.code)), "string")

\* n digits up to p, and no more: they are those of the escape at j.
LEMMA DigitsEnd ==
  ASSUME NEW w \in Seq(Char), NEW j \in 1 .. Len(w), NEW n \in 0 .. 3, NEW p \in 1 .. Len(w) + 1, p = j + 1 + n,
         After(w, j + 1, Digits) = After(w, p, Digits), n = 3 \/ CharAt(w, p) \notin Digits
  PROVE  EscapeDigits(w, j) = n /\ j + n = p - 1 /\ j + 1 + n = p
<1>. DEFINE a == After(w, p, Digits)
<1>1. EOZ \notin Digits
  BY DEF EOZ, Digits
<1>2. a \in p .. Len(w) + 1 /\ (CharAt(w, p) \notin Digits => a = p)
  BY <1>1, AfterIs, AfterStep
<1>3. EscapeDigits(w, j) = IF a - j - 1 > 3 THEN 3 ELSE a - j - 1
  BY DEF EscapeDigits
<1>. HIDE DEF a
<1>4. j \in Nat /\ p \in Nat /\ a \in Nat /\ n \in Nat /\ a >= p /\ Len(w) \in Nat
  BY <1>2
<1>5. CASE n = 3
  BY <1>3, <1>4, <1>5
<1>6. CASE CharAt(w, p) \notin Digits
  BY <1>2, <1>3, <1>4, <1>6
<1>. QED
  BY <1>5, <1>6

LEMMA DecimalGood ==
  ASSUME NEW w \in Seq(Char), NEW l, NEW toks, NEW i, NEW p, Elem(l, toks, w, i, p), InDecimal(l, w, i, p)
  PROVE  Good(DecimalTurn(l), Got(toks, DecimalTurn(l)), w)
<1>. DEFINE m == DecimalTurn(l)  c == CharAt(w, p)  q == w[i]  n == l.count  j == p - 1 - n  next == NextChar(l)
<1>0. /\ n \in 0 .. 3 /\ StringTo(l, w, i, j) /\ CharAt(w, j) = Backslash /\ CharAt(w, j + 1) \in Digits
      /\ l.code = Decimal(SubSeq(w, j + 1, p - 1)) /\ RunOf(w, j + 1, p, Digits) /\ l.mode = "decimal"
  BY DEF InDecimal
<1>1. PICK v : ReadUpTo(w, i, v, j) /\ l.buff = <<q>> \o v
  BY <1>0 DEF StringTo
<1>2. /\ i \in 1 .. Len(w) /\ q \in Quotes /\ Lexeme(w, i) = Quoted(w, i) /\ Len(w) \in Nat
      /\ j \in i + 1 .. Len(w) + 1 /\ v \in Seq(Unit) /\ l.del = q
      /\ l.buff = <<q>> \o v /\ ReadUpTo(w, i, v, j) /\ ReadOf(w, i, v, j)
  BY <1>0, <1>1 DEF StringTo, ReadUpTo, ReadOf
<1>3. /\ p \in 1 .. Len(w) + 1
      /\ At(l, Digits) <=> c \in Digits
      /\ c # EOZ => p \in 1 .. Len(w) /\ c = w[p]
      /\ l.z.c = c
  BY ElemAt
<1>4. m = IF n < 3 /\ At(l, Digits)
          THEN [next EXCEPT !.count = @ + 1, !.code = 10 * @ + DigitValue(Current(l))]
          ELSE IF l.code > UCHAR_MAX THEN LexError(l, "escape")
          ELSE In(Save(l, Byte(l.code)), "string")
  BY DEF DecimalTurn
<1>5. j \in 1 .. Len(w)
  <2>1. j \in Nat \ {0} /\ j <= Len(w) + 1
    BY <1>2
  <2>2. Backslash # EOZ
    BY DEF Backslash, EOZ
  <2>. HIDE DEF j
  <2>. QED
    BY <1>0, <2>1, <2>2, CharsAt
<1>6. p = j + 1 + n /\ j + 1 <= p /\ j + 1 \in Nat \ {0} /\ p \in Nat
  BY <1>0, <1>3, <1>5
<1>7. After(w, j + 1, Digits) = After(w, p, Digits) /\ EOZ \notin Digits /\ \A x \in Digits : x \notin Newlines
  BY <1>0 DEF RunOf, EOZ, Digits, Newlines
<1>. DEFINE s == SubSeq(w, j + 1, p - 1)
<1>. HIDE DEF m, c, next
<1>8. CASE n < 3 /\ c \in Digits
  <2>1. p \in 1 .. Len(w) /\ w[p] = c /\ w[p] \notin Newlines /\ w[p] \in Char
    BY <1>3, <1>7, <1>8
  <2>2. Elem(next, toks, w, i, p + 1) /\ next.mode = "decimal" /\ next.buff = l.buff /\ Rest(next, l)
    BY <1>0, <2>1, OneMore DEF next
  <2>. DEFINE count == next.count + 1  code == 10 * next.code + DigitValue(c)
  <2>3. m = [next EXCEPT !.count = count, !.code = code]
    BY <1>3, <1>4, <1>8 DEF Current
  <2>4. Stands(next, w, p + 1) /\ IsLex(next)
    BY <2>2 DEF Elem, Stands
  <2>5. next.count = n /\ next.code = l.code /\ next.del = q
    BY <1>2, <2>2 DEF Rest
  <2>6. count = n + 1 /\ code = 10 * l.code + DigitValue(c)
    BY <2>5
  <2>. HIDE DEF count, code
  <2>7. /\ IsLex(m) /\ m.z = next.z /\ m.lineNumber = next.lineNumber /\ m.mode = "decimal" /\ m.count = count
        /\ m.code = code /\ m.del = q /\ m.buff = l.buff /\ Carries(m, next)
    BY <2>2, <2>3, <2>4, <2>5 DEF IsLex, LexFields, Carries
  <2>8. Stands(m, w, p + 1)
    BY <2>4, <2>7, StandsToo
  <2>9. Elem(m, toks, w, i, p + 1)
    BY <2>2, <2>7, <2>8, ElemTo
  <2>. HIDE DEF j, n
  <2>10. s \in Seq(Char) /\ SubSeq(w, j + 1, p) = Append(s, w[p])
    <3>. DEFINE a == j + 1
    <3>1. a \in Nat \ {0} /\ a <= p /\ p \in Nat /\ p <= Len(w)
      BY <1>2, <1>6, <2>1
    <3>. HIDE DEF a
    <3>2. SubSeq(w, a, p - 1) \in Seq(Char) /\ SubSeq(w, a, p) = Append(SubSeq(w, a, p - 1), w[p])
      BY <3>1, SliceMore
    <3>. QED
      BY <3>2 DEF a
  <2>11. Decimal(Append(s, w[p])) = 10 * Decimal(s) + DigitValue(w[p])
    <3>. HIDE DEF s
    <3>. QED
      BY <2>1, <2>10, DecimalMore
  <2>12. m.code = Decimal(SubSeq(w, j + 1, (p + 1) - 1))
    <3>1. (p + 1) - 1 = p
      BY <1>6
    <3>. QED
      BY <1>0, <2>1, <2>6, <2>7, <2>10, <2>11, <3>1
  <2>13. RunOf(w, j + 1, p + 1, Digits)
    <3>1. After(w, p, Digits) = After(w, p + 1, Digits)
      BY <1>3, <1>7, <1>8, AfterStep DEF c
    <3>2. j + 1 <= p + 1
      BY <1>6
    <3>. QED
      BY <1>7, <3>1, <3>2 DEF RunOf
  <2>14. StringTo(m, w, i, j)
    BY <1>2, <2>7 DEF StringTo
  <2>15. m.count \in 0 .. 3 /\ (p + 1) - 1 - m.count = j
    BY <1>0, <1>5, <1>6, <1>8, <2>6, <2>7
  <2>16. InDecimal(m, w, i, p + 1)
    <3>1. m.mode = "decimal" /\ CharAt(w, j) = Backslash /\ CharAt(w, j + 1) \in Digits
      BY <1>0, <2>7
    <3>. DEFINE e == p + 1
    <3>2. e - 1 - m.count = j
      BY <2>15
    <3>3. m.code = Decimal(SubSeq(w, j + 1, e - 1)) /\ RunOf(w, j + 1, e, Digits)
      BY <2>12, <2>13
    <3>. HIDE DEF e
    <3>4. InDecimal(m, w, i, e)
      BY <2>14, <2>15, <3>1, <3>2, <3>3 DEF InDecimal
    <3>. QED
      BY <3>4 DEF e
  <2>17. Between(m, w, i, p + 1)
    BY <2>16 DEF Between
  <2>18. Good(m, Got(toks, m), w)
    BY <2>7, <2>9, <2>17, GoesOn
  <2>. QED
    BY <2>18 DEF m
<1>9. CASE ~(n < 3 /\ c \in Digits)
  <2>1. n = 3 \/ CharAt(w, p) \notin Digits
    BY <1>0, <1>9 DEF c
  <2>. HIDE DEF j, n
  <2>2. EscapeDigits(w, j) = n /\ j + n = p - 1 /\ j + 1 + n = p
    BY <1>0, <1>3, <1>5, <1>6, <1>7, <2>1, DigitsEnd
  <2>3. EscapeCode(w, j) = l.code
    BY <1>0, <2>2 DEF EscapeCode
  <2>4. PartOfString(w, i, j) = EscapeAt(w, j)
    BY <1>0, <1>2, PartOfStringIs
  <2>5. EscapeAt(w, j) = IF l.code > UCHAR_MAX THEN Plain("error", "escape", p) ELSE Plain("part", <<Byte(l.code)>>, p)
    <3>1. /\ EscapeCode(w, j) > UCHAR_MAX => EscapeAt(w, j) = Plain("error", "escape", j + 1 + EscapeDigits(w, j))
          /\ ~(EscapeCode(w, j) > UCHAR_MAX)
               => EscapeAt(w, j) = Plain("part", <<Byte(EscapeCode(w, j))>>, j + 1 + EscapeDigits(w, j))
      BY <1>0, EscapeIs
    <3>. QED
      BY <2>2, <2>3, <3>1
  <2>6. m = IF l.code > UCHAR_MAX THEN LexError(l, "escape") ELSE In(Save(l, Byte(l.code)), "string")
    BY <1>3, <1>4, <1>9
  <2>7. CASE l.code > UCHAR_MAX
    <3>0. PartOfString(w, i, j) = Plain("error", "escape", p)
      BY <2>4, <2>5, <2>7
    <3>1. Quoted(w, i) = Plain("error", "escape", p)
      <4>1. i \in 1 .. Len(w) /\ w[i] \in Quotes /\ j \in i + 1 .. Len(w) + 1 /\ ReadUpTo(w, i, v, j)
        BY <1>2 DEF ReadOf
      <4>. QED
        BY ONLY w \in Seq(Char), <3>0, <4>1, ReadToError
    <3>2. m = LexError(l, "escape")
      BY <2>6, <2>7
    <3>3. Good(m, Got(toks, m), w)
      BY <1>2, <3>1, <3>2, Fails
    <3>. QED
      BY <3>3 DEF m
  <2>8. CASE ~(l.code > UCHAR_MAX)
    <3>. DEFINE x == Save(l, Byte(l.code))
    <3>1. Elem(x, toks, w, i, p) /\ x.buff = Append(l.buff, Byte(l.code)) /\ Rest(x, l)
      BY SaveMore
    <3>2. m = In(x, "string")
      BY <2>6, <2>8
    <3>. HIDE DEF x
    <3>3. Elem(m, toks, w, i, p) /\ m.mode = "string" /\ m.buff = x.buff /\ Rest(m, x)
      BY <3>1, <3>2, InMore
    <3>4. Byte(l.code) \in Unit /\ q \in Unit
      <4>1. l.code \in Nat
        BY <1>0, <1>5, <2>3, EscapeDigitsAre
      <4>2. q \in Char
        BY <1>2
      <4>. QED
        BY <4>1, <4>2, UnitsAre
    <3>. DEFINE b == Byte(l.code)
    <3>5. m.del = q /\ m.buff = (<<q>> \o v) \o <<b>>
      <4>1. m.del = q /\ m.buff = Append(<<q>> \o v, b)
        BY <1>2, <3>1, <3>3 DEF Rest
      <4>. HIDE DEF b
      <4>2. Append(<<q>> \o v, b) = (<<q>> \o v) \o <<b>>
        BY <1>2, <3>4, UnitAppended DEF b
      <4>. QED
        BY <4>1, <4>2
    <3>6. PartOfString(w, i, j) = Plain("part", <<b>>, p)
      BY <2>4, <2>5, <2>8
    <3>. HIDE DEF b
    <3>7. Good(m, Got(toks, m), w)
      BY <1>2, <3>3, <3>5, <3>6, StringMore
    <3>. QED
      BY <3>7 DEF m
  <2>. QED
    BY <2>7, <2>8
<1>. QED
  BY <1>8, <1>9

-----------------------------------------------------------------------------
(* In the brackets *)

\* The `=' of a bracket have ended at p.
LEMMA BracketEnds ==
  ASSUME NEW w \in Seq(Char), NEW l, NEW j, NEW p \in 1 .. Len(w) + 1, Equals(l, w, j, p),
         CharAt(w, p) # "=", l.bracket \in {"[", "]"}
  PROVE  /\ Level(w, j) = l.count /\ After(w, j + 1, {"="}) = p
         /\ \A level \in Nat : Bracket(w, j, l.bracket, level) <=> level = l.count /\ CharAt(w, p) = l.bracket
<1>. DEFINE n == l.count  c == l.bracket
<1>1. /\ n \in Nat /\ p = j + 1 + n /\ j \in 1 .. Len(w) /\ w[j] = c /\ Len(w) \in Nat /\ j \in Nat
      /\ \A h \in j + 1 .. p - 1 : w[h] = "="
  BY DEF Equals
<1>2. EOZ \notin {"="} /\ c # "=" /\ c # EOZ
  BY DEF EOZ
<1>. HIDE DEF n, c
<1>3. j + 1 \in 1 .. Len(w) + 1 /\ p \in j + 1 .. Len(w) + 1 /\ p \in Nat \ {0}
  BY <1>1
<1>4. After(w, j + 1, {"="}) = p
  BY <1>1, <1>2, <1>3, AfterOnly
<1>5. Level(w, j) = n
  BY <1>1, <1>4 DEF Level
<1>6. (p <= Len(w) => CharAt(w, p) = w[p]) /\ (p > Len(w) => CharAt(w, p) = EOZ)
  BY <1>3, CharsAt
<1>7. ASSUME NEW level \in Nat, Bracket(w, j, c, level)
      PROVE  level = n /\ CharAt(w, p) = c
  <2>1. /\ j + level + 1 <= Len(w) /\ w[j + level + 1] = c
        /\ \A h \in j + 1 .. j + level : w[h] = "="
    BY <1>7 DEF Bracket
  <2>2. ~(level < n)
    <3>1. level < n => j + level + 1 \in j + 1 .. p - 1
      BY <1>1
    <3>. QED
      BY <1>1, <1>2, <2>1, <3>1
  <2>3. ~(level > n)
    <3>1. level > n => p \in j + 1 .. j + level /\ p <= Len(w)
      BY <1>1, <2>1
    <3>. QED
      BY <1>6, <2>1, <3>1
  <2>4. level = n
    BY <1>1, <2>2, <2>3
  <2>5. j + level + 1 = p
    BY <1>1, <2>4
  <2>. QED
    BY <1>6, <2>1, <2>4, <2>5
<1>8. ASSUME CharAt(w, p) = c
      PROVE  Bracket(w, j, c, n)
  <2>1. p <= Len(w) /\ w[p] = c
    BY <1>1, <1>2, <1>3, <1>6, <1>8
  <2>2. j + n + 1 = p /\ j + n = p - 1
    BY <1>1
  <2>. QED
    BY <1>1, <2>1, <2>2 DEF Bracket
<1>9. \A level \in Nat : Bracket(w, j, c, level) <=> level = n /\ CharAt(w, p) = c
  BY <1>7, <1>8
<1>. QED
  BY <1>4, <1>5, <1>9 DEF n, c

EqualsTaken(l) == [SaveAndNext(l) EXCEPT !.count = @ + 1]

Grown(m, l, c) == m.buff = Append(l.buff, c)

LEMMA EqualsMore ==
  ASSUME NEW w \in Seq(Char), NEW l, NEW toks, NEW i, NEW p, Elem(l, toks, w, i, p),
         NEW j, Equals(l, w, j, p), CharAt(w, p) = "="
  PROVE  LET m == EqualsTaken(l)
         IN /\ Elem(m, toks, w, i, p + 1) /\ m.mode = l.mode /\ m.caller = l.caller /\ m.bracket = l.bracket
            /\ m.sep = l.sep /\ m.comment = l.comment /\ Grown(m, l, w[p])
            /\ Equals(m, w, j, p + 1) /\ p \in 1 .. Len(w) /\ w[p] = "="
<1>. DEFINE m == EqualsTaken(l)  n == SaveAndNext(l)
<1>0. "=" # EOZ /\ "=" \notin Newlines
  BY DEF EOZ, Newlines
<1>1. p \in 1 .. Len(w) /\ w[p] = "=" /\ w[p] \notin Newlines
  BY <1>0, ElemAt
<1>2. Elem(n, toks, w, i, p + 1) /\ n.buff = Append(l.buff, w[p]) /\ Rest(n, l) /\ n.mode = l.mode
  BY <1>1, OneMore
<1>3. Stands(n, w, p + 1) /\ IsLex(n)
  BY <1>2 DEF Elem, Stands
<1>. DEFINE count == n.count + 1
<1>4. m = [n EXCEPT !.count = count]
  BY DEF EqualsTaken
<1>5. count = l.count + 1
  BY <1>2 DEF Rest
<1>. HIDE DEF m, n, count
<1>6. /\ IsLex(m) /\ m.z = n.z /\ m.lineNumber = n.lineNumber /\ m.mode = n.mode /\ m.caller = n.caller
      /\ m.bracket = n.bracket /\ m.sep = n.sep /\ m.comment = n.comment /\ m.buff = n.buff /\ m.count = count
      /\ Carries(m, n)
  BY <1>3, <1>4 DEF IsLex, LexFields, Carries
<1>7. Stands(m, w, p + 1)
  BY <1>3, <1>6, StandsToo
<1>8. Elem(m, toks, w, i, p + 1)
  BY <1>2, <1>6, <1>7, ElemTo
<1>9. Equals(m, w, j, p + 1)
  <2>1. /\ l.count \in Nat /\ p = j + 1 + l.count /\ j \in 1 .. Len(w) /\ w[j] = l.bracket
        /\ \A h \in j + 1 .. p - 1 : w[h] = "="
    BY DEF Equals
  <2>2. m.count = l.count + 1 /\ w[j] = m.bracket
    BY <1>2, <1>5, <1>6, <2>1 DEF Rest
  <2>. DEFINE a == l.count  b == m.count
  <2>3. a \in Nat /\ p = j + 1 + a /\ b = a + 1 /\ j \in Nat /\ p \in Nat
    BY <1>1, <2>1, <2>2
  <2>. HIDE DEF a, b
  <2>4. b \in Nat /\ p + 1 = j + 1 + b
    BY <2>3
  <2>5. \A h \in j + 1 .. (p + 1) - 1 : h \in j + 1 .. p - 1 \/ h = p
    BY <2>3
  <2>6. \A h \in j + 1 .. (p + 1) - 1 : w[h] = "="
    BY <1>1, <2>1, <2>5
  <2>. QED
    BY <2>1, <2>2, <2>4, <2>6 DEF Equals, b
<1>. QED
  BY <1>1, <1>2, <1>6, <1>8, <1>9 DEF m, Rest, Grown

\* skipSep has found a long bracket at j.
LEMMA OpeningMore ==
  ASSUME NEW w \in Seq(Char), NEW l, NEW toks, NEW i \in 1 .. Len(w), NEW p, Elem(l, toks, w, i, p),
         NEW j \in i .. i + 2, Equals(l, w, j, p), w[j] = "[", CharAt(w, p) = "[", l.mode = "sep",
         NEW comment \in BOOLEAN, comment => j = i + 2 /\ Dashes(w, i),
         ~comment => j = i /\ l.buff = SubSeq(w, j, p - 1)
  PROVE  Good(Opening(l, comment), Got(toks, Opening(l, comment)), w)
<1>. DEFINE m == Opening(l, comment)
<1>1. /\ p \in 1 .. Len(w) + 1 /\ j \in 1 .. Len(w) /\ l.bracket = "[" /\ p = j + 1 + l.count /\ l.count \in Nat
      /\ l.z.c = CharAt(w, p)
  BY ElemAt DEF Equals
<1>2. /\ Level(w, j) = l.count
      /\ \A level \in Nat : Bracket(w, j, l.bracket, level) <=> level = l.count /\ CharAt(w, p) = l.bracket
  <2>1. CharAt(w, p) # "=" /\ l.bracket \in {"[", "]"}
    BY <1>1
  <2>. QED
    BY <1>1, <2>1, BracketEnds
<1>3. LongOpen(w, j)
  <2>1. CharAt(w, j) = "["
    BY <1>1 DEF CharAt
  <2>. QED
    BY <1>1, <1>2, <2>1 DEF LongOpen
<1>4. Stands(l, w, p) /\ IsLex(l)
  BY DEF Elem, Stands
<1>5. Sep(l) = l.count
  BY <1>1 DEF Sep, At, Current
<1>6. m = [l EXCEPT !.mode = "opening", !.sep = l.count, !.comment = comment]
  BY <1>5 DEF Opening
<1>. HIDE DEF m
<1>7. /\ IsLex(m) /\ m.z = l.z /\ m.lineNumber = l.lineNumber /\ m.mode = "opening" /\ m.sep = l.count
      /\ m.comment = comment /\ m.buff = l.buff /\ Carries(m, l)
  BY <1>4, <1>6 DEF IsLex, LexFields, Carries
<1>8. Stands(m, w, p)
  BY <1>4, <1>7, StandsToo
<1>9. Elem(m, toks, w, i, p)
  BY <1>7, <1>8, ElemTo
<1>10. LongAt(m, w, i, j) /\ p = j + m.sep + 1
  <2>. DEFINE a == l.count
  <2>1. j \in Nat /\ p = j + 1 + a /\ a \in Nat
    BY <1>1
  <2>2. m.sep = a
    BY <1>7
  <2>. HIDE DEF a
  <2>3. p = j + a + 1
    BY <2>1
  <2>4. LongAt(m, w, i, j)
    BY <1>1, <1>2, <1>3, <1>7 DEF LongAt
  <2>. QED
    BY <2>2, <2>3, <2>4
<1>11. InOpening(m, w, i, p)
  BY <1>7, <1>10 DEF InOpening
<1>12. Between(m, w, i, p)
  BY <1>11 DEF Between
<1>13. Good(m, Got(toks, m), w)
  BY <1>7, <1>9, <1>12, GoesOn
<1>. QED
  BY <1>13 DEF m

SepTurn(l) == IF At(l, {"="}) THEN EqualsTaken(l) ELSE AfterSep(l)

LEMMA SepOfTokenGood ==
  ASSUME NEW w \in Seq(Char), NEW l, NEW toks, NEW i, NEW p, Elem(l, toks, w, i, p), InSepOfToken(l, w, i, p)
  PROVE  Good(SepTurn(l), Got(toks, SepTurn(l)), w)
<1>. DEFINE m == SepTurn(l)  c == CharAt(w, p)  n == l.count
<1>1. /\ p \in 1 .. Len(w) + 1 /\ i \in 1 .. Len(w) /\ Len(w) \in Nat /\ w[i] = "[" /\ l.bracket = "["
      /\ l.mode = "sep" /\ l.caller = "token" /\ Equals(l, w, i, p) /\ l.buff = SubSeq(w, i, p - 1)
      /\ n \in Nat /\ p = i + 1 + n /\ i <= p /\ p \in Nat /\ i \in Nat \ {0}
      /\ \A h \in i + 1 .. p - 1 : w[h] = "="
      /\ At(l, {"="}) <=> c = "="
      /\ At(l, {l.bracket}) <=> c = "["
  BY ElemAt, SMTT(20) DEF InSepOfToken, Equals
<1>2. m = IF At(l, {"="}) THEN EqualsTaken(l) ELSE AfterSep(l)
  BY DEF SepTurn
<1>3. CASE c = "="
  <2>0. m = EqualsTaken(l)
    BY <1>1, <1>2, <1>3
  <2>. HIDE DEF m
  <2>1. /\ Elem(m, toks, w, i, p + 1) /\ m.mode = l.mode /\ m.caller = l.caller /\ m.bracket = l.bracket
        /\ Grown(m, l, w[p]) /\ Equals(m, w, i, p + 1) /\ p \in 1 .. Len(w)
    BY <1>1, <1>3, <2>0, EqualsMore
  <2>2. SubSeq(w, i, p) = Append(SubSeq(w, i, p - 1), w[p])
    <3>1. p <= Len(w)
      BY <2>1
    <3>. QED
      BY <1>1, <3>1, SliceMore
  <2>6. m.buff = SubSeq(w, i, (p + 1) - 1)
    <3>1. (p + 1) - 1 = p
      BY <1>1
    <3>. QED
      BY <1>1, <2>1, <2>2, <3>1 DEF Grown
  <2>3. InSepOfToken(m, w, i, p + 1)
    BY <1>1, <2>1, <2>6 DEF InSepOfToken
  <2>4. Between(m, w, i, p + 1)
    BY <2>3 DEF Between
  <2>5. Good(m, Got(toks, m), w)
    BY <1>1, <2>1, <2>4, GoesOn
  <2>. QED
    BY <2>5 DEF m
<1>4. CASE c # "="
  <2>1. m = AfterSep(l)
    BY <1>1, <1>2, <1>4
  <2>2. AfterSep(l) = IF Sep(l) >= 0 THEN Opening(l, FALSE)
                      ELSE IF Sep(l) = -1 THEN Symbol(l, <<"[">>) ELSE LexError(l, "delimiter")
    BY <1>1 DEF AfterSep
  <2>3. /\ After(w, i + 1, {"="}) = p
        /\ \A level \in Nat : Bracket(w, i, l.bracket, level) <=> level = n /\ c = l.bracket
        /\ Level(w, i) = n
    BY <1>1, <1>4, BracketEnds
  <2>. HIDE DEF m
  <2>4. CASE c = "["
    <3>1. Sep(l) = n
      BY <1>1, <2>4 DEF Sep
    <3>5. n >= 0
      BY <1>1
    <3>2. m = Opening(l, FALSE)
      BY <2>1, <2>2, <3>1, <3>5
    <3>3. i \in i .. i + 2 /\ FALSE \in BOOLEAN
      BY <1>1
    <3>4. Good(Opening(l, FALSE), Got(toks, Opening(l, FALSE)), w)
      BY <1>1, <2>4, <3>3, OpeningMore
    <3>. QED
      BY <3>2, <3>4 DEF m
  <2>5. CASE c # "["
    <3>1. ~LongOpen(w, i)
      BY <1>1, <2>3, <2>5 DEF LongOpen
    <3>2. Sep(l) = -n - 1
      BY <1>1, <2>5 DEF Sep
    <3>3. ElementBy(w, i, w[i], CharAt(w, i + 1), Lexeme(w, i))
      BY <1>1, LexemeIs
    <3>4. CASE n = 0
      <4>1. m = Symbol(l, <<"[">>) /\ p = i + 1
        BY <1>1, <2>1, <2>2, <3>2, <3>4
      <4>2. Alone(w[i], CharAt(w, i + 1), LongOpen(w, i))
        BY <1>1, <1>4, <3>1, <4>1 DEF Alone
      <4>3. Lexeme(w, i) = SymbolAt(w, i, 1)
        BY <3>3, <4>2 DEF ElementBy
      <4>4. <<"[">> = SubSeq(w, i, i + 1 - 1) /\ 1 \in Nat
        BY <1>1, SliceOne
      <4>. DEFINE v == <<"[">>
      <4>. HIDE DEF v
      <4>5. Good(Symbol(l, v), Got(toks, Symbol(l, v)), w)
        BY <1>1, <4>1, <4>3, <4>4, SymbolGood DEF v
      <4>. QED
        BY <4>1, <4>5 DEF m, v
    <3>5. CASE n # 0
      <4>0. ~(-n - 1 >= 0) /\ -n - 1 # -1
        BY <1>1, <3>5, SMTT(20)
      <4>1. m = LexError(l, "delimiter")
        BY <2>1, <2>2, <3>2, <4>0
      <4>2. i + 1 \in i + 1 .. p - 1 /\ i + 1 <= Len(w)
        BY <1>1, <3>5
      <4>3. CharAt(w, i + 1) = "="
        BY <1>1, <4>2 DEF CharAt
      <4>4. Lexeme(w, i) = Plain("error", "delimiter", p)
        BY <1>1, <2>3, <3>1, <3>3, <4>3 DEF ElementBy, Error
      <4>5. Good(m, Got(toks, m), w)
        BY <1>1, <4>1, <4>4, Fails
      <4>. QED
        BY <4>5 DEF m
    <3>. QED
      BY <3>4, <3>5
  <2>. QED
    BY <2>4, <2>5
<1>. QED
  BY <1>3, <1>4

LEMMA SepOfCommentGood ==
  ASSUME NEW w \in Seq(Char), NEW l, NEW toks, NEW i, NEW p, Elem(l, toks, w, i, p), InSepOfComment(l, w, i, p)
  PROVE  Good(SepTurn(l), Got(toks, SepTurn(l)), w)
<1>. DEFINE m == SepTurn(l)  c == CharAt(w, p)  n == l.count  j == i + 2
<1>1. /\ p \in 1 .. Len(w) + 1 /\ i \in 1 .. Len(w) /\ Len(w) \in Nat /\ Dashes(w, i) /\ w[j] = "["
      /\ l.mode = "sep" /\ l.caller = "comment" /\ Equals(l, w, j, p)
      /\ At(l, {"="}) <=> c = "="
  BY ElemAt DEF InSepOfComment
<1>2. /\ j \in 1 .. Len(w) /\ l.bracket = "[" /\ n \in Nat /\ p = j + 1 + n /\ p \in Nat /\ i <= p
      /\ \A h \in j + 1 .. p - 1 : w[h] = "="
      /\ At(l, {l.bracket}) <=> c = "["
  BY <1>1, ElemAt DEF Equals
<1>3. m = IF At(l, {"="}) THEN EqualsTaken(l) ELSE AfterSep(l)
  BY DEF SepTurn
<1>4. CASE c = "="
  <2>0. m = EqualsTaken(l)
    BY <1>1, <1>3, <1>4
  <2>. HIDE DEF m
  <2>1. Elem(m, toks, w, i, p + 1) /\ m.mode = l.mode /\ m.caller = l.caller /\ Equals(m, w, j, p + 1)
    <3>. HIDE DEF j
    <3>. QED
      BY <1>1, <1>4, <2>0, EqualsMore
  <2>3. InSepOfComment(m, w, i, p + 1)
    BY <1>1, <2>1 DEF InSepOfComment
  <2>4. Between(m, w, i, p + 1)
    BY <2>3 DEF Between
  <2>5. Good(m, Got(toks, m), w)
    BY <1>1, <2>1, <2>4, GoesOn
  <2>. QED
    BY <2>5 DEF m
<1>5. CASE c # "="
  <2>. DEFINE r == Reset(l)
  <2>0. Elem(r, toks, w, i, p) /\ r.mode = "sep" /\ r.buff = <<>> /\ Rest(r, l)
    BY <1>1, ResetMore
  <2>1. m = AfterSep(l)
    BY <1>1, <1>3, <1>5
  <2>2. AfterSep(l) = IF Sep(l) >= 0 THEN Opening(r, TRUE) ELSE In(r, "short")
    BY <1>1 DEF AfterSep
  <2>3. \A level \in Nat : Bracket(w, j, l.bracket, level) <=> level = n /\ c = l.bracket
    <3>. HIDE DEF j
    <3>. QED
      BY <1>1, <1>2, <1>5, BracketEnds
  <2>4. Level(w, j) \in Nat
    BY <1>2, LevelIs
  <2>. HIDE DEF m, r
  <2>5. CASE c = "["
    <3>1. Sep(l) = n
      BY <1>2, <2>5 DEF Sep
    <3>6. n >= 0
      BY <1>2
    <3>2. m = Opening(r, TRUE)
      BY <2>1, <2>2, <3>1, <3>6
    <3>3. j \in i .. i + 2 /\ TRUE \in BOOLEAN /\ j = i + 2
      BY <1>1
    <3>4. Equals(r, w, j, p)
      BY <1>1, <2>0 DEF Equals, Rest
    <3>. HIDE DEF j
    <3>5. Good(Opening(r, TRUE), Got(toks, Opening(r, TRUE)), w)
      BY <1>1, <2>0, <2>5, <3>3, <3>4, OpeningMore
    <3>. QED
      BY <3>2, <3>5 DEF m
  <2>6. CASE c # "["
    <3>1. ~LongOpen(w, j)
      BY <1>2, <2>3, <2>4, <2>6 DEF LongOpen
    <3>2. Sep(l) = -n - 1
      BY <1>2, <2>6 DEF Sep
    <3>11. ~(-n - 1 >= 0)
      BY <1>2
    <3>3. m = In(r, "short")
      BY <2>1, <2>2, <3>2, <3>11
    <3>4. Elem(m, toks, w, i, p) /\ m.mode = "short" /\ m.buff = <<>>
      BY <2>0, <3>3, InMore
    <3>5. Lexeme(w, i) = Plain("part", <<>>, First(w, i, NewlinesOf(w)))
      <4>1. ElementBy(w, i, w[i], CharAt(w, i + 1), Lexeme(w, i))
        BY <1>1, LexemeIs
      <4>2. Lexeme(w, i) = Comment(w, i)
        BY <1>1, <4>1 DEF ElementBy, Dashes
      <4>. QED
        BY <3>1, <4>2 DEF Comment, Skipped, NewlinesOf
    <3>6. \A h \in i .. p - 1 : h \notin NewlinesOf(w)
      <4>0. "-" \notin Newlines /\ "[" \notin Newlines /\ "=" \notin Newlines
        BY DEF Newlines
      <4>1. \A h \in i .. p - 1 : h = i \/ h = i + 1 \/ h = j \/ h \in j + 1 .. p - 1
        BY <1>1, <1>2
      <4>2. i + 1 <= Len(w)
        BY <1>1, <1>2
      <4>3. w[i] = "-" /\ w[i + 1] = "-"
        BY <1>1, <4>2 DEF Dashes, CharAt
      <4>. QED
        BY <1>1, <1>2, <4>0, <4>1, <4>3 DEF NewlinesOf
    <3>7. First(w, i, NewlinesOf(w)) = First(w, p, NewlinesOf(w))
      <4>1. i \in 1 .. Len(w) + 1 /\ p \in i .. Len(w) + 1
        BY <1>1, <1>2
      <4>. QED
        BY <3>6, <4>1, FirstOver
    <3>8. InShort(m, w, i, p)
      BY <1>1, <3>4, <3>5, <3>7 DEF InShort
    <3>9. Between(m, w, i, p)
      BY <3>8 DEF Between
    <3>10. Good(m, Got(toks, m), w)
      BY <3>4, <3>9, GoesOn
    <3>. QED
      BY <3>10 DEF m
  <2>. QED
    BY <2>5, <2>6
<1>. QED
  BY <1>4, <1>5

-----------------------------------------------------------------------------
(* In long strings and comments *)

\* From p to e a long string holds s.
Holds(w, a, p, e, s) == Content(w, a, e) = Content(w, a, p) \o s

LEMMA CharHeld ==
  ASSUME NEW w \in Seq(Char), NEW a \in 1 .. Len(w) + 1, NEW p \in a .. Len(w), w[p] \notin Newlines
  PROVE  Holds(w, a, p, p + 1, <<w[p]>>)
<1>1. Content(w, a, p + 1) = Content(w, a, p) \o Piece(w, p)
  BY ContentIs
<1>2. Piece(w, p) = <<w[p]>>
  BY DEF Piece
<1>. QED
  BY <1>1, <1>2 DEF Holds

LEMMA BreakHeld ==
  ASSUME NEW w \in Seq(Char), NEW a \in 1 .. Len(w) + 1, NEW p \in a .. Len(w), w[p] \in Newlines, Clean(w, p)
  PROVE  Holds(w, a, p, PastBreak(w, p), <<"\n">>)
<1>. DEFINE e == PastBreak(w, p)  pair == CharAt(w, p + 1) \in Newlines /\ CharAt(w, p + 1) # w[p]
            C == Content(w, a, p)  s == <<"\n">>
<1>1. p \in 1 .. Len(w) /\ Len(w) \in Nat /\ a \in Nat /\ p \in a .. Len(w) + 1
  OBVIOUS
<1>2. /\ p \in Breaks(w)
      /\ pair => p + 1 \in 1 .. Len(w) /\ p + 1 \notin Breaks(w) /\ e = p + 2
      /\ ~pair => e = p + 1
  BY <1>1, BreakEnds
<1>3. Content(w, a, p + 1) = C \o s
  <2>1. Content(w, a, p + 1) = Content(w, a, p) \o Piece(w, p)
    BY ContentIs
  <2>2. Piece(w, p) = s
    BY <1>2 DEF Piece
  <2>. QED
    BY <2>1, <2>2
<1>4. pair => Content(w, a, p + 2) = C \o s
  <2>. SUFFICES ASSUME pair PROVE Content(w, a, p + 2) = C \o s
    OBVIOUS
  <2>. DEFINE q == p + 1
  <2>1. q \in a .. Len(w) /\ q + 1 = p + 2 /\ q \in 1 .. Len(w) /\ q <= Len(w)
    BY <1>1, <1>2
  <2>2. w[q] \in Newlines /\ q \notin Breaks(w)
    BY <1>2, <2>1 DEF CharAt
  <2>. HIDE DEF q
  <2>3. Content(w, a, q + 1) = Content(w, a, q) \o Piece(w, q)
    BY <2>1, ContentIs
  <2>4. Piece(w, q) = <<>>
    BY <2>2 DEF Piece
  <2>5. Content(w, a, q) = C \o s
    BY <1>3 DEF q
  <2>6. C \in Seq(Char) /\ s \in Seq(Char)
    BY <1>1, ContentTypes, CharsAre
  <2>. HIDE DEF C, s
  <2>7. (C \o s) \o <<>> = C \o s
    BY <2>6, ConcatEmptySeq, ConcatProperties
  <2>. QED
    BY <2>1, <2>3, <2>4, <2>5, <2>7
<1>. HIDE DEF e, pair, C, s
<1>5. Content(w, a, e) = C \o s
  BY <1>2, <1>3, <1>4
<1>. QED
  BY <1>5 DEF Holds, C, s, e

\* Without a line break in it, it holds as many characters as the text.
LEMMA RunHeld ==
  ASSUME NEW w \in Seq(Char), NEW a \in 1 .. Len(w) + 1, NEW j \in a .. Len(w) + 1, NEW n \in Nat,
         j + n <= Len(w) + 1, \A h \in j .. j + n - 1 : w[h] \notin Newlines
  PROVE  \E t \in Seq(Char) : Len(t) = n /\ Holds(w, a, j, j + n, t)
<1>. DEFINE E == {k \in Nat : k <= n => \E t \in Seq(Char) : Len(t) = k /\ Holds(w, a, j, j + k, t)}
<1>0. Len(w) \in Nat /\ a \in Nat /\ j \in Nat
  OBVIOUS
<1>1. 0 \in E
  <2>1. Content(w, a, j) \in Seq(Char)
    BY ContentTypes
  <2>2. Content(w, a, j) \o <<>> = Content(w, a, j) /\ j + 0 = j
    BY <1>0, <2>1, ConcatEmptySeq
  <2>3. <<>> \in Seq(Char) /\ Len(<<>>) = 0
    OBVIOUS
  <2>4. Holds(w, a, j, j + 0, <<>>)
    BY <2>2 DEF Holds
  <2>. QED
    BY <2>3, <2>4
<1>2. ASSUME NEW k \in E PROVE k + 1 \in E
  <2>. SUFFICES ASSUME k + 1 <= n
                PROVE  \E t \in Seq(Char) : Len(t) = k + 1 /\ Holds(w, a, j, j + (k + 1), t)
    OBVIOUS
  <2>1. k <= n /\ k \in Nat
    OBVIOUS
  <2>2. PICK t \in Seq(Char) : Len(t) = k /\ Holds(w, a, j, j + k, t)
    BY <2>1
  <2>. DEFINE p == j + k  x == w[p]  C == Content(w, a, j)
  <2>3. p \in a .. Len(w) /\ p \in j .. j + n - 1 /\ p + 1 = j + (k + 1)
    BY <1>0, <2>1
  <2>4. x \notin Newlines /\ x \in Char
    BY <1>0, <2>3
  <2>5. Holds(w, a, p, p + 1, <<x>>)
    BY <2>3, <2>4, CharHeld
  <2>6. C \in Seq(Char)
    BY ContentTypes
  <2>. DEFINE s == <<x>>  u == t \o s
  <2>7. s \in Seq(Char) /\ Len(s) = 1
    BY <2>4
  <2>. HIDE DEF s, C, p
  <2>12. t \in Seq(Char) /\ Len(t) = k /\ k \in Nat
    BY <2>1, <2>2
  <2>8. u \in Seq(Char) /\ Len(u) = k + 1
    <3>1. Len(t \o s) = Len(t) + Len(s) /\ t \o s \in Seq(Char)
      BY <2>7, <2>12, ConcatProperties
    <3>. QED
      BY <2>7, <2>12, <3>1
  <2>9. (C \o t) \o s = C \o u
    BY ONLY <2>6, <2>7, <2>12, ConcatAssociative, SMTT(20)
  <2>. HIDE DEF u
  <2>10. Content(w, a, p + 1) = C \o u
    BY <2>2, <2>5, <2>9 DEF Holds, s, C, p
  <2>11. Holds(w, a, j, j + (k + 1), u)
    BY <2>3, <2>10 DEF Holds, C
  <2>. QED
    BY <2>8, <2>11
<1>3. E = Nat
  <2>1. E \in SUBSET Nat
    OBVIOUS
  <2>. HIDE DEF E
  <2>. QED
    BY <1>1, <1>2, <2>1, Induct
<1>4. n \in E
  BY <1>3
<1>. QED
  BY <1>4

LEMMA HasReadMore ==
  ASSUME NEW w \in Seq(Char), NEW b, NEW p, NEW l, HasRead(l, w, b, p),
         Inside(w, b) \in 1 .. Len(w) + 1, p \in Inside(w, b) .. Len(w) + 1,
         NEW c \in Char, NEW e, Holds(w, Inside(w, b), p, e, <<c>>),
         NEW m, m.comment = l.comment, m.sep = l.sep, l.comment \/ Grown(m, l, c)
  PROVE  HasRead(m, w, b, e)
<1>. DEFINE a == Inside(w, b)  C == Content(w, a, p)  s == <<c>>
<1>. SUFFICES ASSUME ~m.comment
              PROVE  \E h \in Seq(Char) : Len(h) = m.sep + 2 /\ m.buff = h \o Content(w, a, e)
  BY DEF HasRead
<1>1. ~l.comment /\ m.buff = Append(l.buff, c)
  BY DEF Grown
<1>2. PICK h \in Seq(Char) : Len(h) = l.sep + 2 /\ l.buff = h \o C
  BY <1>1 DEF HasRead
<1>3. C \in Seq(Char)
  BY ContentTypes
<1>4. Content(w, a, e) = C \o s
  BY DEF Holds
<1>5. s \in Seq(Char)
  OBVIOUS
<1>. DEFINE g == h \o C
<1>6. g \in Seq(Char)
  <2>. HIDE DEF C
  <2>. QED
    BY <1>3
<1>. HIDE DEF C, g
<1>7. Append(g, c) = g \o s
  BY <1>6, AppendIsJoin
<1>. HIDE DEF s
<1>8. g \o s = h \o (C \o s)
  BY <1>3, <1>5, ConcatAssociative, SMTT(20) DEF g
<1>9. m.buff = Append(g, c)
  BY <1>1, <1>2 DEF g
<1>10. m.buff = h \o Content(w, a, e)
  BY <1>4, <1>7, <1>8, <1>9
<1>11. Len(h) = m.sep + 2
  BY <1>2
<1>. QED
  BY <1>10, <1>11

LEMMA HasReadSame ==
  ASSUME NEW w, NEW b, NEW p, NEW l, HasRead(l, w, b, p),
         NEW m, m.comment = l.comment, m.sep = l.sep, l.comment \/ m.buff = l.buff
  PROVE  HasRead(m, w, b, p)
BY DEF HasRead

LEMMA LongAtSame ==
  ASSUME NEW w, NEW i, NEW b, NEW l, LongAt(l, w, i, b), NEW m, m.comment = l.comment, m.sep = l.sep
  PROVE  LongAt(m, w, i, b)
BY DEF LongAt

LEMMA OpenIs ==
  ASSUME NEW w \in Seq(Char), NEW l, NEW i, NEW b, LongAt(l, w, i, b), NEW p \in 1 .. Len(w) + 1, OpenAt(w, b, p)
  PROVE  /\ i \in 1 .. Len(w) /\ b \in 1 .. Len(w) /\ l.sep \in Nat /\ l.sep = Level(w, b)
         /\ Inside(w, b) \in 1 .. Len(w) + 1 /\ p \in Inside(w, b) .. Len(w) + 1
<1>1. i \in 1 .. Len(w) /\ b \in 1 .. Len(w) /\ LongOpen(w, b) /\ l.sep = Level(w, b)
  BY DEF LongAt
<1>2. /\ Level(w, b) \in Nat /\ b + Level(w, b) + 2 \in 1 .. Len(w) + 1
      /\ Inside(w, b) \in b + Level(w, b) + 2 .. Len(w) + 1
  BY <1>1, InsideIs
<1>3. Inside(w, b) <= p
  BY DEF OpenAt
<1>. DEFINE a == Inside(w, b)  s == b + Level(w, b) + 2
<1>4. s \in 1 .. Len(w) + 1 /\ a \in s .. Len(w) + 1 /\ a <= p /\ Len(w) \in Nat
  BY <1>2, <1>3
<1>. HIDE DEF a, s
<1>5. a \in 1 .. Len(w) + 1 /\ p \in a .. Len(w) + 1
  BY <1>4
<1>. QED
  BY <1>1, <1>2, <1>5 DEF a

LEMMA OpenMore ==
  ASSUME NEW w \in Seq(Char), NEW b, Inside(w, b) \in 1 .. Len(w) + 1,
         NEW j \in Inside(w, b) .. Len(w) + 1, OpenAt(w, b, j), NEW p \in j .. Len(w) + 1,
         \A h \in j .. p - 1 : h \notin Closes(w, b) /\ h \notin Nests(w, b)
  PROVE  OpenAt(w, b, p)
<1>. DEFINE a == Inside(w, b)  C == Closes(w, b)  N == Nests(w, b)
<1>1. a <= j /\ First(w, a, C) = First(w, j, C) /\ First(w, a, N) = First(w, j, N)
  BY DEF OpenAt
<1>2. a \in Nat /\ Len(w) \in Nat /\ j \in 1 .. Len(w) + 1 /\ p \in Nat
  OBVIOUS
<1>3. \A h \in j .. p - 1 : h \notin C
  OBVIOUS
<1>4. \A h \in j .. p - 1 : h \notin N
  OBVIOUS
<1>. HIDE DEF C, N
<1>5. First(w, j, C) = First(w, p, C) /\ First(w, j, N) = First(w, p, N)
  BY <1>2, <1>3, <1>4, FirstOver
<1>6. a <= p
  BY <1>1, <1>2
<1>. QED
  BY <1>1, <1>5, <1>6 DEF OpenAt, C, N

LEMMA NoBracket ==
  ASSUME NEW w, NEW b, NEW h
  PROVE  /\ w[h] # "]" => h \notin Closes(w, b)
         /\ w[h] # "[" => h \notin Nests(w, b)
         /\ Level(w, b) # 0 => h \notin Nests(w, b)
BY DEF Closes, Nests, Bracket

\* The element that a long bracket makes.
LEMMA LexemeOfLong ==
  ASSUME NEW w \in Seq(Char), NEW l, NEW i, NEW b, LongAt(l, w, i, b)
  PROVE  /\ Enclosed(w, b).kind = "error" => Lexeme(w, i) = Enclosed(w, b)
         /\ ~l.comment => Lexeme(w, i) = Enclosed(w, b)
         /\ l.comment /\ Enclosed(w, b).kind # "error" => Lexeme(w, i) = Plain("part", <<>>, Enclosed(w, b).end)
<1>1. i \in 1 .. Len(w) /\ LongOpen(w, b) /\ ElementBy(w, i, w[i], CharAt(w, i + 1), Lexeme(w, i))
  BY LexemeIs DEF LongAt
<1>2. CASE l.comment
  <2>1. b = i + 2 /\ Dashes(w, i)
    BY <1>2 DEF LongAt
  <2>2. Lexeme(w, i) = Comment(w, i)
    BY <1>1, <2>1 DEF ElementBy, Dashes
  <2>3. Comment(w, i) = IF Enclosed(w, b).kind = "error" THEN Enclosed(w, b) ELSE Plain("part", <<>>, Enclosed(w, b).end)
    BY <1>1, <2>1 DEF Comment, Skipped
  <2>. QED
    BY <1>2, <2>2, <2>3
<1>3. CASE ~l.comment
  <2>1. b = i
    BY <1>3 DEF LongAt
  <2>2. w[i] = "["
    <3>1. CharAt(w, i) = "["
      BY <1>1, <2>1 DEF LongOpen
    <3>. QED
      BY <1>1, <3>1 DEF CharAt
  <2>3. Lexeme(w, i) = Enclosed(w, b)
    BY <1>1, <2>1, <2>2 DEF ElementBy
  <2>. QED
    BY <1>3, <2>3
<1>. QED
  BY <1>2, <1>3

LEMMA LongAtNear ==
  ASSUME NEW w, NEW l, NEW i, NEW b, LongAt(l, w, i, b)
  PROVE  b \in i .. i + 2
<1>1. i \in Nat /\ (b = i \/ b = i + 2)
  BY DEF LongAt
<1>. QED
  BY <1>1

LEMMA LongGoesOn ==
  ASSUME NEW w \in Seq(Char), NEW m, NEW toks, NEW i, NEW p, Elem(m, toks, w, i, p), m.mode = "long",
         NEW b, LongAt(m, w, i, b), OpenAt(w, b, p), HasRead(m, w, b, p)
  PROVE  Good(m, Got(toks, m), w)
<1>1. b \in i .. i + 2
  BY LongAtNear
<1>2. InLong(m, w, i, p)
  BY <1>1 DEF InLong
<1>3. Between(m, w, i, p)
  BY <1>2 DEF Between
<1>. QED
  BY <1>3, GoesOn

\* Right behind the opening.
LEMMA LongBegins ==
  ASSUME NEW w \in Seq(Char), NEW m, NEW toks, NEW i, NEW b, LongAt(m, w, i, b),
         Elem(m, toks, w, i, Inside(w, b)), m.mode = "long",
         ~m.comment => m.buff = SubSeq(w, b, b + m.sep + 1)
  PROVE  Good(m, Got(toks, m), w)
<1>. DEFINE a == Inside(w, b)  n == m.sep  h == SubSeq(w, b, b + n + 1)
<1>1. b \in 1 .. Len(w) /\ LongOpen(w, b) /\ n = Level(w, b)
  BY DEF LongAt
<1>2. n \in Nat /\ b + n + 2 \in 1 .. Len(w) + 1 /\ a \in b + n + 2 .. Len(w) + 1
  BY <1>1, InsideIs
<1>. HIDE DEF n, a
<1>3. /\ b \in Nat \ {0} /\ b + n + 1 \in Nat /\ b <= b + n + 1 + 1 /\ b + n + 1 <= Len(w) /\ Len(w) \in Nat
      /\ (b + n + 1) - b + 1 = n + 2 /\ a \in Nat /\ a \in 1 .. Len(w) + 1
  BY <1>1, <1>2
<1>4. h \in Seq(Char) /\ Len(h) = n + 2
  BY <1>3, SliceOf
<1>5. Content(w, a, a) = <<>>
  BY <1>3, ContentIs
<1>6. h \o Content(w, a, a) = h
  BY <1>4, <1>5, ConcatEmptySeq
<1>7. OpenAt(w, b, a)
  BY <1>3 DEF OpenAt, a
<1>. HIDE DEF h
<1>8. HasRead(m, w, b, a)
  <2>. SUFFICES ASSUME ~m.comment
                PROVE  \E g \in Seq(Char) : Len(g) = m.sep + 2 /\ m.buff = g \o Content(w, a, a)
    BY DEF HasRead, a
  <2>1. m.buff = h
    BY DEF h, n
  <2>. QED
    BY <1>4, <1>6, <2>1 DEF n
<1>9. Elem(m, toks, w, i, a)
  BY DEF a
<1>. QED
  BY <1>7, <1>8, <1>9, LongGoesOn

ReadOpeningTurn(l) ==
  LET s == SaveAndNext(l)
  IN In(IF At(s, Newlines) THEN IncLineNumber(s) ELSE s, "long")

LEMMA ReadOpeningGood ==
  ASSUME NEW w \in Seq(Char), NEW l, NEW toks, NEW i, NEW p, Elem(l, toks, w, i, p), InOpening(l, w, i, p)
  PROVE  Good(ReadOpeningTurn(l), Got(toks, ReadOpeningTurn(l)), w)
<1>. DEFINE s == SaveAndNext(l)  m == ReadOpeningTurn(l)  d == CharAt(w, p + 1)
            k == IF At(s, Newlines) THEN IncLineNumber(s) ELSE s
<1>1. PICK b \in i .. i + 2 : LongAt(l, w, i, b) /\ p = b + l.sep + 1 /\ (~l.comment => l.buff = SubSeq(w, b, p - 1))
  BY DEF InOpening
<1>. DEFINE n == l.sep  a == Inside(w, b)
<1>2. i \in 1 .. Len(w) /\ b \in 1 .. Len(w) /\ LongOpen(w, b) /\ n = Level(w, b)
  BY <1>1 DEF LongAt
<1>3. n \in Nat /\ a \in b + n + 2 .. Len(w) + 1
  BY <1>2, InsideIs
<1>4. /\ p = b + n + 1 /\ p \in Nat /\ b \in Nat \ {0} /\ p + 1 = b + n + 2 /\ b <= p /\ p - 1 = b + n
      /\ Len(w) \in Nat
  BY <1>1, <1>2, <1>3
<1>5. p \in 1 .. Len(w) /\ w[p] = "[" /\ w[p] \notin Newlines
  <2>1. b + n + 1 <= Len(w) /\ w[b + n + 1] = "["
    BY <1>2 DEF LongOpen, Bracket
  <2>. HIDE DEF n
  <2>2. p \in 1 .. Len(w) /\ w[p] = "["
    BY <1>2, <1>4, <2>1
  <2>. QED
    BY <2>2 DEF Newlines
<1>6. Elem(s, toks, w, i, p + 1) /\ s.buff = Append(l.buff, w[p]) /\ Rest(s, l)
  BY <1>5, OneMore
<1>7. (At(s, Newlines) <=> d \in Newlines) /\ (d # EOZ => p + 1 \in 1 .. Len(w) /\ d = w[p + 1])
  BY <1>6, ElemAt
<1>8. a = IF d \in Newlines THEN PastBreak(w, p + 1) ELSE p + 1
  BY <1>2, <1>4 DEF Inside
<1>. HIDE DEF s, d
<1>9. Elem(k, toks, w, i, a) /\ k.buff = s.buff /\ Rest(k, s)
  <2>1. CASE d \in Newlines
    <3>. DEFINE q == p + 1
    <3>1. q \in 1 .. Len(w) /\ w[q] \in Newlines
      BY <1>7, <2>1 DEF Newlines, EOZ
    <3>2. k = IncLineNumber(s) /\ a = PastBreak(w, q)
      BY <1>7, <1>8, <2>1
    <3>3. Elem(s, toks, w, i, q)
      BY <1>6
    <3>. HIDE DEF k, q, a
    <3>4. Elem(k, toks, w, i, PastBreak(w, q)) /\ k.buff = s.buff /\ Rest(k, s)
      BY <3>1, <3>2, <3>3, BreakMore
    <3>. QED
      BY <3>2, <3>4
  <2>2. CASE d \notin Newlines
    <3>1. k = s /\ a = p + 1
      BY <1>7, <1>8, <2>2
    <3>. QED
      BY <1>6, <3>1 DEF Rest
  <2>. QED
    BY <2>1, <2>2
<1>10. m = In(k, "long")
  BY DEF ReadOpeningTurn, s
<1>. HIDE DEF m, k, a
<1>11. Elem(m, toks, w, i, a) /\ m.mode = "long" /\ m.buff = k.buff /\ Rest(m, k)
  BY <1>9, <1>10, InMore
<1>12. m.sep = n /\ m.comment = l.comment
  BY <1>6, <1>9, <1>11 DEF Rest
<1>13. LongAt(m, w, i, b)
  BY <1>1, <1>12, LongAtSame
<1>14. ~m.comment => m.buff = SubSeq(w, b, b + m.sep + 1)
  <2>. SUFFICES ASSUME ~m.comment PROVE m.buff = SubSeq(w, b, b + m.sep + 1)
    OBVIOUS
  <2>1. l.buff = SubSeq(w, b, p - 1)
    BY <1>1, <1>12
  <2>2. SubSeq(w, b, p) = Append(SubSeq(w, b, p - 1), w[p])
    <3>1. b \in Nat \ {0} /\ p \in Nat /\ b <= p /\ p <= Len(w)
      BY <1>4, <1>5
    <3>. QED
      BY <3>1, SliceMore
  <2>3. m.buff = SubSeq(w, b, p)
    BY <1>6, <1>9, <1>11, <2>1, <2>2
  <2>. QED
    BY <1>4, <1>12, <2>3
<1>15. Good(m, Got(toks, m), w)
  BY <1>11, <1>13, <1>14, LongBegins DEF a
<1>. QED
  BY <1>15 DEF m

LEMMA LongTurnIs ==
  ASSUME NEW l
  PROVE  /\ At(l, {EOZ}) => LongTurn(l) = LexError(l, "unfinished")
         /\ At(l, {"[", "]"}) => LongTurn(l) = SkipSep(l, "long")
         /\ At(l, Newlines) /\ l.comment => LongTurn(l) = Reset(IncLineNumber(Save(l, "\n")))
         /\ At(l, Newlines) /\ ~l.comment => LongTurn(l) = IncLineNumber(Save(l, "\n"))
         /\ ~At(l, {EOZ, "[", "]"} \cup Newlines) /\ l.comment => LongTurn(l) = NextChar(l)
         /\ ~At(l, {EOZ, "[", "]"} \cup Newlines) /\ ~l.comment => LongTurn(l) = SaveAndNext(l)
<1>1. EOZ \notin Newlines /\ EOZ \notin {"[", "]"} /\ "[" \notin Newlines /\ "]" \notin Newlines
  BY DEF Newlines, EOZ
<1>2. At(l, {EOZ}) => LongTurn(l) = LexError(l, "unfinished")
  BY <1>1 DEF LongTurn, At, LongUnfinished
<1>3. At(l, {"[", "]"}) => LongTurn(l) = SkipSep(l, "long")
  BY <1>1 DEF LongTurn, At
<1>4. /\ At(l, Newlines) /\ l.comment => LongTurn(l) = Reset(IncLineNumber(Save(l, "\n")))
      /\ At(l, Newlines) /\ ~l.comment => LongTurn(l) = IncLineNumber(Save(l, "\n"))
  BY <1>1 DEF LongTurn, At
<1>5. /\ ~At(l, {EOZ, "[", "]"} \cup Newlines) /\ l.comment => LongTurn(l) = NextChar(l)
      /\ ~At(l, {EOZ, "[", "]"} \cup Newlines) /\ ~l.comment => LongTurn(l) = SaveAndNext(l)
  BY DEF LongTurn, At
<1>. QED
  BY <1>2, <1>3, <1>4, <1>5

\* What a long bracket encloses is seen from where it is still open.
LEMMA EnclosedFrom ==
  ASSUME NEW w, NEW b, NEW p, OpenAt(w, b, p),
         NEW c, c = First(w, p, Closes(w, b)), NEW n, n = First(w, p, Nests(w, b))
  PROVE  /\ n < c => Enclosed(w, b) = Plain("error", "nesting", n + 2)
         /\ ~(n < c) /\ c > Len(w) => Enclosed(w, b) = Plain("error", "unfinished", c)
         /\ ~(n < c) /\ ~(c > Len(w))
              => Enclosed(w, b) = Plain("<string>", Content(w, Inside(w, b), c), c + Level(w, b) + 2)
<1>1. First(w, Inside(w, b), Closes(w, b)) = c /\ First(w, Inside(w, b), Nests(w, b)) = n
  BY DEF OpenAt
<1>. QED
  BY <1>1 DEF Enclosed, Error

LEMMA SepOfLongGoesOn ==
  ASSUME NEW w \in Seq(Char), NEW m, NEW toks, NEW i, NEW p, Elem(m, toks, w, i, p),
         m.mode = "sep", m.caller = "long", m.bracket \in {"[", "]"},
         NEW b, LongAt(m, w, i, b), NEW j \in 1 .. Len(w), Equals(m, w, j, p), OpenAt(w, b, j), HasRead(m, w, b, p)
  PROVE  Good(m, Got(toks, m), w)
<1>1. b \in i .. i + 2
  BY LongAtNear
<1>2. InSepOfLong(m, w, i, p)
  BY <1>1 DEF InSepOfLong
<1>3. Between(m, w, i, p)
  BY <1>2 DEF Between
<1>. QED
  BY <1>3, GoesOn

\* The end of the text comes first.
LEMMA LongEnds ==
  ASSUME NEW w \in Seq(Char), NEW l, NEW toks, NEW i, NEW p, Elem(l, toks, w, i, p),
         NEW b, LongAt(l, w, i, b), OpenAt(w, b, p), CharAt(w, p) = EOZ
  PROVE  Good(LexError(l, "unfinished"), Got(toks, LexError(l, "unfinished")), w)
<1>1. p \in 1 .. Len(w) + 1 /\ Len(w) \in Nat /\ (p <= Len(w) => CharAt(w, p) = w[p] /\ w[p] # EOZ)
  BY ElemAt
<1>2. p > Len(w)
  BY <1>1
<1>3. First(w, p, Closes(w, b)) = p /\ First(w, p, Nests(w, b)) = p
  BY <1>1, <1>2, FirstStep
<1>4. Enclosed(w, b) = Plain("error", "unfinished", p)
  BY <1>1, <1>2, <1>3, EnclosedFrom
<1>5. Enclosed(w, b).kind = "error"
  BY <1>4, PlainFields
<1>6. Lexeme(w, i) = Plain("error", "unfinished", p)
  BY <1>4, <1>5, LexemeOfLong
<1>7. i \in 1 .. Len(w)
  BY DEF LongAt
<1>. QED
  BY <1>6, <1>7, Fails

\* Characters that are no brackets.
LEMMA LongMore ==
  ASSUME NEW w \in Seq(Char), NEW l, NEW i, NEW p \in 1 .. Len(w),
         NEW b, LongAt(l, w, i, b), OpenAt(w, b, p), HasRead(l, w, b, p),
         NEW e \in p + 1 .. Len(w) + 1, \A h \in p .. e - 1 : w[h] \notin {"[", "]"},
         NEW c \in Char, Holds(w, Inside(w, b), p, e, <<c>>),
         NEW m, NEW toks, Elem(m, toks, w, i, e), m.mode = "long",
         m.comment = l.comment, m.sep = l.sep, l.comment \/ Grown(m, l, c)
  PROVE  Good(m, Got(toks, m), w)
<1>. DEFINE a == Inside(w, b)
<1>1. p \in 1 .. Len(w) + 1
  OBVIOUS
<1>2. a \in 1 .. Len(w) + 1 /\ p \in a .. Len(w) + 1
  BY <1>1, OpenIs
<1>3. e \in p .. Len(w) + 1
  OBVIOUS
<1>4. \A h \in p .. e - 1 : h \notin Closes(w, b) /\ h \notin Nests(w, b)
  BY NoBracket
<1>5. OpenAt(w, b, e)
  BY <1>2, <1>3, <1>4, OpenMore
<1>6. HasRead(m, w, b, e)
  BY <1>2, HasReadMore
<1>7. LongAt(m, w, i, b)
  BY LongAtSame
<1>. QED
  BY <1>5, <1>6, <1>7, LongGoesOn

LEMMA LongGood ==
  ASSUME NEW w \in Seq(Char), NEW l, NEW toks, NEW i, NEW p, Elem(l, toks, w, i, p), InLong(l, w, i, p)
  PROVE  Good(LongTurn(l), Got(toks, LongTurn(l)), w)
<1>. DEFINE m == LongTurn(l)  d == CharAt(w, p)
<1>1. PICK b \in i .. i + 2 : LongAt(l, w, i, b) /\ OpenAt(w, b, p) /\ HasRead(l, w, b, p)
  BY DEF InLong
<1>2. l.mode = "long" /\ LongAt(l, w, i, b) /\ OpenAt(w, b, p) /\ HasRead(l, w, b, p)
  BY <1>1 DEF InLong
<1>3. /\ p \in 1 .. Len(w) + 1 /\ Len(w) \in Nat
      /\ \A S : At(l, S) <=> d \in S
      /\ d # EOZ => p \in 1 .. Len(w) /\ d = w[p]
  BY ElemAt
<1>. DEFINE a == Inside(w, b)
<1>4. a \in 1 .. Len(w) + 1 /\ p \in a .. Len(w) + 1
  BY <1>2, <1>3, OpenIs
<1>5. CASE d = EOZ
  <2>1. m = LexError(l, "unfinished")
    BY <1>3, <1>5, LongTurnIs
  <2>. HIDE DEF m
  <2>2. Good(m, Got(toks, m), w)
    BY <1>2, <1>5, <2>1, LongEnds
  <2>. QED
    BY <2>2 DEF m
<1>6. CASE d \in {"[", "]"}
  <2>1. m = SkipSep(l, "long")
    BY <1>3, <1>6, LongTurnIs
  <2>2. p \in 1 .. Len(w) /\ w[p] \in {"[", "]"} /\ w[p] \notin Newlines /\ w[p] \in Char
    BY <1>3, <1>6 DEF EOZ, Newlines
  <2>. HIDE DEF m, a
  <2>3. /\ Elem(m, toks, w, i, p + 1) /\ m.mode = "sep" /\ m.caller = "long" /\ m.bracket = w[p]
        /\ m.sep = l.sep /\ m.comment = l.comment /\ Equals(m, w, p, p + 1) /\ m.buff = Append(l.buff, w[p])
    BY <2>1, <2>2, SkipSepMore
  <2>4. Holds(w, a, p, p + 1, <<w[p]>>)
    <3>1. p \in a .. Len(w)
      BY <1>3, <1>4, <2>2
    <3>. QED
      BY <1>4, <2>2, <3>1, CharHeld
  <2>5. HasRead(m, w, b, p + 1)
    <3>1. Grown(m, l, w[p])
      BY <2>3 DEF Grown
    <3>. QED
      BY <1>2, <1>4, <2>2, <2>3, <2>4, <3>1, HasReadMore DEF a
  <2>6. LongAt(m, w, i, b)
    BY <1>2, <2>3, LongAtSame
  <2>7. Good(m, Got(toks, m), w)
    BY <1>2, <2>2, <2>3, <2>5, <2>6, SepOfLongGoesOn
  <2>. QED
    BY <2>7 DEF m
<1>7. CASE d \in Newlines
  <2>. DEFINE n == Save(l, "\n")  r == IncLineNumber(n)  e == PastBreak(w, p)
  <2>1. /\ l.comment => m = Reset(r)
        /\ ~l.comment => m = r
    BY <1>3, <1>7, LongTurnIs
  <2>2. p \in 1 .. Len(w) /\ w[p] \in Newlines
    BY <1>3, <1>7 DEF EOZ, Newlines
  <2>. HIDE DEF m, a
  <2>3. Elem(n, toks, w, i, p) /\ n.mode = "long" /\ n.buff = Append(l.buff, "\n") /\ Rest(n, l)
    BY <1>2, SaveMore
  <2>. HIDE DEF n
  <2>4. Elem(r, toks, w, i, e) /\ e \in p + 1 .. Len(w) + 1 /\ r.mode = n.mode /\ r.buff = n.buff /\ Rest(r, n)
    BY <2>2, <2>3, BreakMore
  <2>. HIDE DEF r
  <2>5. Elem(m, toks, w, i, e) /\ m.mode = "long" /\ m.comment = l.comment /\ m.sep = l.sep
        /\ (l.comment \/ m.buff = Append(l.buff, "\n"))
    <3>1. CASE l.comment
      <4>1. m = Reset(r)
        BY <2>1, <3>1
      <4>2. Elem(m, toks, w, i, e) /\ m.mode = r.mode /\ Rest(m, r)
        BY <2>4, <4>1, ResetMore
      <4>. QED
        BY <2>3, <2>4, <3>1, <4>2 DEF Rest
    <3>2. CASE ~l.comment
      BY <2>1, <2>3, <2>4, <3>2 DEF Rest
    <3>. QED
      BY <3>1, <3>2
  <2>6. l.comment \/ Grown(m, l, "\n")
    BY <2>5 DEF Grown
  <2>7. Clean(w, p)
    BY DEF Elem, Stands
  <2>8. Holds(w, a, p, e, <<"\n">>)
    <3>1. p \in a .. Len(w)
      BY <1>3, <1>4, <2>2
    <3>. QED
      BY <1>4, <2>2, <2>7, <3>1, BreakHeld
  <2>9. \A h \in p .. e - 1 : w[h] \notin {"[", "]"}
    <3>. DEFINE pair == CharAt(w, p + 1) \in Newlines /\ CharAt(w, p + 1) # w[p]
    <3>1. /\ pair => p + 1 \in 1 .. Len(w) /\ e = p + 2
          /\ ~pair => e = p + 1
      BY <2>2, <2>7, BreakEnds
    <3>2. \A h \in p .. e - 1 : w[h] \in Newlines
      <4>1. CASE pair
        <5>1. p + 1 \in 1 .. Len(w) /\ e - 1 = p + 1
          BY <1>3, <3>1, <4>1
        <5>2. w[p + 1] \in Newlines
          BY <4>1, <5>1 DEF CharAt
        <5>3. \A h \in p .. p + 1 : h = p \/ h = p + 1
          BY <1>3
        <5>. QED
          BY <2>2, <5>1, <5>2, <5>3
      <4>2. CASE ~pair
        <5>1. e - 1 = p /\ \A h \in p .. p : h = p
          BY <1>3, <3>1, <4>2
        <5>. QED
          BY <2>2, <5>1
      <4>. QED
        BY <4>1, <4>2
    <3>. QED
      BY <3>2 DEF Newlines
  <2>10. "\n" \in Char
    BY CharsAre
  <2>. HIDE DEF e
  <2>11. Good(m, Got(toks, m), w)
    BY <1>2, <2>2, <2>4, <2>5, <2>6, <2>8, <2>9, <2>10, LongMore DEF a
  <2>. QED
    BY <2>11 DEF m
<1>8. CASE d \notin {EOZ, "[", "]"} \cup Newlines
  <2>1. /\ l.comment => m = NextChar(l)
        /\ ~l.comment => m = SaveAndNext(l)
    BY <1>3, <1>8, LongTurnIs
  <2>2. p \in 1 .. Len(w) /\ w[p] \notin Newlines \cup {"[", "]"} /\ w[p] \in Char
    BY <1>3, <1>8
  <2>. HIDE DEF m, a
  <2>3. /\ Elem(NextChar(l), toks, w, i, p + 1) /\ Elem(SaveAndNext(l), toks, w, i, p + 1)
        /\ NextChar(l).mode = l.mode /\ NextChar(l).buff = l.buff /\ Rest(NextChar(l), l)
        /\ SaveAndNext(l).mode = l.mode /\ SaveAndNext(l).buff = Append(l.buff, w[p]) /\ Rest(SaveAndNext(l), l)
    BY <2>2, OneMore
  <2>4. Elem(m, toks, w, i, p + 1) /\ m.mode = "long" /\ m.comment = l.comment /\ m.sep = l.sep
        /\ (l.comment \/ m.buff = Append(l.buff, w[p]))
    BY <1>2, <2>1, <2>3 DEF Rest
  <2>5. l.comment \/ Grown(m, l, w[p])
    BY <2>4 DEF Grown
  <2>6. Holds(w, a, p, p + 1, <<w[p]>>)
    <3>1. p \in a .. Len(w)
      BY <1>3, <1>4, <2>2
    <3>. QED
      BY <1>4, <2>2, <3>1, CharHeld
  <2>7. p + 1 \in p + 1 .. Len(w) + 1 /\ \A h \in p .. (p + 1) - 1 : w[h] \notin {"[", "]"}
    BY <2>2
  <2>8. Good(m, Got(toks, m), w)
    BY <1>2, <2>2, <2>4, <2>5, <2>6, <2>7, LongMore DEF a
  <2>. QED
    BY <2>8 DEF m
<1>. QED
  BY <1>5, <1>6, <1>7, <1>8

\* The bracket that has been read is not one of the same level.
LEMMA OtherLevel ==
  ASSUME NEW w \in Seq(Char), NEW l, NEW j, NEW p \in 1 .. Len(w) + 1, Equals(l, w, j, p),
         CharAt(w, p) # "=", l.bracket \in {"[", "]"}, NEW b, Level(w, b) \in Nat,
         ~(Level(w, b) = l.count /\ CharAt(w, p) = l.bracket)
  PROVE  \A h \in j .. p - 1 : h \notin Closes(w, b) /\ h \notin Nests(w, b)
<1>. DEFINE n == Level(w, b)  x == l.bracket
<1>1. \A level \in Nat : Bracket(w, j, x, level) <=> level = l.count /\ CharAt(w, p) = x
  BY BracketEnds
<1>2. /\ p = j + 1 + l.count /\ l.count \in Nat /\ j \in Nat /\ w[j] = x
      /\ \A h \in j + 1 .. p - 1 : w[h] = "="
  BY DEF Equals
<1>3. ~Bracket(w, j, x, n)
  BY <1>1
<1>4. j \notin Closes(w, b) /\ j \notin Nests(w, b)
  <2>1. CASE x = "["
    <3>1. j \notin Closes(w, b)
      BY <1>2, <2>1, NoBracket
    <3>2. j \notin Nests(w, b)
      BY <1>3, <2>1 DEF Nests
    <3>. QED
      BY <3>1, <3>2
  <2>2. CASE x = "]"
    <3>1. j \notin Nests(w, b)
      BY <1>2, <2>2, NoBracket
    <3>2. j \notin Closes(w, b)
      BY <1>3, <2>2 DEF Closes
    <3>. QED
      BY <3>1, <3>2
  <2>. QED
    BY <2>1, <2>2
<1>5. \A h \in j .. p - 1 : h = j \/ h \in j + 1 .. p - 1
  BY <1>2
<1>6. \A h \in j + 1 .. p - 1 : h \notin Closes(w, b) /\ h \notin Nests(w, b)
  BY <1>2, NoBracket
<1>. QED
  BY <1>4, <1>5, <1>6

SameTurn(l) ==
  IF l.bracket = "[" THEN IF l.sep = 0 THEN LexError(l, "nesting") ELSE In(l, "long")
  ELSE IF l.comment THEN In(Reset(l), "scan")
  ELSE Return(l, "<string>", Trimmed(l, 2 + l.sep))

LEMMA SepOfLongGood ==
  ASSUME NEW w \in Seq(Char), NEW l, NEW toks, NEW i, NEW p, Elem(l, toks, w, i, p), InSepOfLong(l, w, i, p)
  PROVE  Good(SepTurn(l), Got(toks, SepTurn(l)), w)
<1>. DEFINE m == SepTurn(l)  d == CharAt(w, p)
<1>1. PICK b \in i .. i + 2, j \in 1 .. Len(w) :
        LongAt(l, w, i, b) /\ Equals(l, w, j, p) /\ OpenAt(w, b, j) /\ HasRead(l, w, b, p)
  BY DEF InSepOfLong
<1>2. /\ l.mode = "sep" /\ l.caller = "long" /\ l.bracket \in {"[", "]"}
      /\ j \in 1 .. Len(w) /\ j \in 1 .. Len(w) + 1
      /\ LongAt(l, w, i, b) /\ Equals(l, w, j, p) /\ OpenAt(w, b, j) /\ HasRead(l, w, b, p)
  BY <1>1 DEF InSepOfLong
<1>3. /\ p \in 1 .. Len(w) + 1 /\ Len(w) \in Nat
      /\ \A S : At(l, S) <=> d \in S
      /\ d # EOZ => p \in 1 .. Len(w) /\ d = w[p]
  BY ElemAt
<1>. DEFINE a == Inside(w, b)  n == l.sep
<1>4. n \in Nat /\ n = Level(w, b) /\ a \in 1 .. Len(w) + 1 /\ j \in a .. Len(w) + 1
  BY <1>2, OpenIs
<1>. HIDE DEF a
<1>5. l.count \in Nat /\ p = j + 1 + l.count /\ p \in j .. Len(w) + 1 /\ p \in a .. Len(w) + 1
  <2>1. l.count \in Nat /\ p = j + 1 + l.count
    BY <1>2 DEF Equals
  <2>. QED
    BY <1>3, <1>4, <2>1
<1>6. ASSUME p \in 1 .. Len(w), w[p] \in {"[", "]", "="}, NEW r, r.comment = l.comment, r.sep = n, Grown(r, l, w[p])
      PROVE  HasRead(r, w, b, p + 1)
  <2>1. w[p] \notin Newlines /\ w[p] \in Char /\ p \in a .. Len(w)
    <3>1. w[p] \notin Newlines
      BY <1>6 DEF Newlines
    <3>2. w[p] \in Char
      BY <1>6
    <3>3. p \in a .. Len(w)
      BY <1>3, <1>4, <1>5, <1>6
    <3>. QED
      BY <3>1, <3>2, <3>3
  <2>2. Holds(w, a, p, p + 1, <<w[p]>>)
    BY <1>4, <2>1, CharHeld
  <2>. QED
    BY <1>2, <1>4, <1>5, <1>6, <2>1, <2>2, HasReadMore DEF a
<1>7. CASE d = "="
  <2>1. m = EqualsTaken(l)
    BY <1>3, <1>7 DEF SepTurn
  <2>. HIDE DEF m
  <2>2. /\ Elem(m, toks, w, i, p + 1) /\ m.mode = l.mode /\ m.caller = l.caller /\ m.bracket = l.bracket
        /\ m.sep = l.sep /\ m.comment = l.comment /\ Grown(m, l, w[p])
        /\ Equals(m, w, j, p + 1) /\ p \in 1 .. Len(w) /\ w[p] = "="
    <3>. DEFINE x == EqualsTaken(l)
    <3>0. Equals(l, w, j, p) /\ CharAt(w, p) = "="
      BY <1>2, <1>7
    <3>. HIDE DEF n
    <3>1. /\ Elem(x, toks, w, i, p + 1) /\ x.mode = l.mode /\ x.caller = l.caller /\ x.bracket = l.bracket
          /\ x.sep = l.sep /\ x.comment = l.comment /\ Equals(x, w, j, p + 1)
      BY ONLY <3>0, EqualsMore, w \in Seq(Char), Elem(l, toks, w, i, p)
    <3>2. p \in 1 .. Len(w) /\ w[p] = "="
      BY <1>3, <1>7 DEF EOZ
    <3>3. Grown(x, l, w[p])
      BY ONLY <3>0, EqualsMore, w \in Seq(Char), Elem(l, toks, w, i, p)
    <3>. HIDE DEF x
    <3>. QED
      BY <2>1, <3>1, <3>2, <3>3 DEF x
  <2>3. HasRead(m, w, b, p + 1)
    BY <1>6, <2>2
  <2>4. LongAt(m, w, i, b)
    BY <1>2, <2>2, LongAtSame
  <2>5. Good(m, Got(toks, m), w)
    BY <1>2, <2>2, <2>3, <2>4, SepOfLongGoesOn
  <2>. QED
    BY <2>5 DEF m
<1>8. CASE d # "="
  <2>1. m = IF Sep(l) = n THEN In(SaveAndNext(l), "same") ELSE In(l, "long")
    <3>1. m = AfterSep(l)
      BY <1>3, <1>8 DEF SepTurn
    <3>. QED
      BY <1>2, <3>1 DEF AfterSep
  <2>2. Sep(l) = IF d = l.bracket THEN l.count ELSE -l.count - 1
    BY <1>3 DEF Sep
  <2>3. Sep(l) = n <=> n = l.count /\ d = l.bracket
    <3>. DEFINE k == l.count
    <3>. HIDE DEF k, n
    <3>1. k \in Nat /\ n \in Nat
      BY <1>4, <1>5 DEF k
    <3>2. -k - 1 # n
      BY <3>1
    <3>. QED
      BY <2>2, <3>2 DEF k
  <2>4. CASE n = l.count /\ d = l.bracket
    <3>1. m = In(SaveAndNext(l), "same")
      BY <2>1, <2>3, <2>4
    <3>. HIDE DEF m
    <3>2. p \in 1 .. Len(w) /\ w[p] = l.bracket /\ w[p] \in {"[", "]", "="} /\ w[p] \notin Newlines
      BY <1>2, <1>3, <2>4 DEF EOZ, Newlines
    <3>. DEFINE s == SaveAndNext(l)
    <3>3. Elem(s, toks, w, i, p + 1) /\ s.buff = Append(l.buff, w[p]) /\ Rest(s, l)
      BY <3>2, OneMore
    <3>. HIDE DEF s
    <3>4. Elem(m, toks, w, i, p + 1) /\ m.mode = "same" /\ m.buff = s.buff /\ Rest(m, s)
      BY <3>1, <3>3, InMore DEF s
    <3>5. m.bracket = l.bracket /\ m.sep = n /\ m.comment = l.comment /\ m.buff = Append(l.buff, w[p])
      BY <3>3, <3>4 DEF Rest
    <3>6. Grown(m, l, w[p])
      BY <3>5 DEF Grown
    <3>7. HasRead(m, w, b, p + 1)
      BY <1>6, <3>2, <3>5, <3>6
    <3>8. LongAt(m, w, i, b)
      BY <1>2, <3>5, LongAtSame
    <3>9. Bracket(w, j, l.bracket, n)
      BY <1>2, <1>3, <1>4, <1>8, <2>4, BracketEnds
    <3>10. p + 1 = j + n + 2
      BY <1>2, <1>4, <1>5, <2>4, SMTT(20)
    <3>11. InSame(m, w, i, p + 1)
      <4>1. Bracket(w, j, m.bracket, m.sep) /\ p + 1 = j + m.sep + 2 /\ m.bracket \in {"[", "]"} /\ m.mode = "same"
        BY <1>2, <3>4, <3>5, <3>9, <3>10
      <4>2. b \in i .. i + 2 /\ j \in 1 .. Len(w)
        OBVIOUS
      <4>. QED
        BY <1>2, <3>7, <3>8, <4>1, <4>2 DEF InSame
    <3>12. Between(m, w, i, p + 1)
      BY <3>11 DEF Between
    <3>13. Good(m, Got(toks, m), w)
      BY <3>4, <3>12, GoesOn
    <3>. QED
      BY <3>13 DEF m
  <2>5. CASE ~(n = l.count /\ d = l.bracket)
    <3>1. m = In(l, "long")
      BY <2>1, <2>3, <2>5
    <3>. HIDE DEF m
    <3>2. Elem(m, toks, w, i, p) /\ m.mode = "long" /\ m.buff = l.buff /\ Rest(m, l)
      BY <3>1, InMore
    <3>3. m.sep = l.sep /\ m.comment = l.comment
      BY <3>2 DEF Rest
    <3>4. HasRead(m, w, b, p)
      BY <1>2, <3>2, <3>3, HasReadSame
    <3>5. LongAt(m, w, i, b)
      BY <1>2, <3>3, LongAtSame
    <3>6. \A h \in j .. p - 1 : h \notin Closes(w, b) /\ h \notin Nests(w, b)
      BY <1>2, <1>3, <1>4, <1>8, <2>5, OtherLevel
    <3>7. OpenAt(w, b, p)
      BY <1>2, <1>4, <1>5, <3>6, OpenMore DEF a
    <3>8. Good(m, Got(toks, m), w)
      BY <3>2, <3>4, <3>5, <3>7, LongGoesOn
    <3>. QED
      BY <3>8 DEF m
  <2>. QED
    BY <2>4, <2>5
<1>. QED
  BY <1>7, <1>8

LEMMA BracketChars ==
  ASSUME NEW w \in Seq(Char), NEW j \in 1 .. Len(w), NEW c, NEW n \in Nat, Bracket(w, j, c, n)
  PROVE  /\ w[j] = c /\ j + n + 2 \in 1 .. Len(w) + 1
         /\ \A h \in j .. j + n + 1 : w[h] = c \/ w[h] = "="
<1>1. /\ j + n + 1 <= Len(w) /\ w[j] = c /\ w[j + n + 1] = c
      /\ \A h \in j + 1 .. j + n : w[h] = "="
  BY DEF Bracket
<1>2. \A h \in j .. j + n + 1 : h = j \/ h = j + n + 1 \/ h \in j + 1 .. j + n
  OBVIOUS
<1>3. j + n + 2 \in 1 .. Len(w) + 1
  BY <1>1
<1>. QED
  BY <1>1, <1>2, <1>3

\* The buffer of a long string is its opening, its value and its closing.
LEMMA LongTrimmed ==
  ASSUME NEW w \in Seq(Char), NEW l, ~l.comment, NEW b, Inside(w, b) \in 1 .. Len(w) + 1,
         NEW j \in Inside(w, b) .. Len(w) + 1, l.sep \in Nat, NEW p, p = j + (l.sep + 2), p <= Len(w) + 1,
         \A h \in j .. p - 1 : w[h] \notin Newlines, HasRead(l, w, b, p)
  PROVE  Trimmed(l, 2 + l.sep) = Content(w, Inside(w, b), j)
<1>. DEFINE a == Inside(w, b)  n == l.sep + 2  v == Content(w, a, j)
<1>1. n \in Nat /\ n = 2 + l.sep /\ p = j + n /\ a \in 1 .. Len(w) + 1 /\ j \in a .. Len(w) + 1
  OBVIOUS
<1>2. PICK h \in Seq(Char) : Len(h) = n /\ l.buff = h \o Content(w, a, p)
  BY DEF HasRead
<1>3. \A x \in j .. j + n - 1 : w[x] \notin Newlines
  OBVIOUS
<1>. HIDE DEF a, n
<1>11. j + n <= Len(w) + 1
  BY <1>1
<1>4. PICK t \in Seq(Char) : Len(t) = n /\ Holds(w, a, j, j + n, t)
  BY <1>1, <1>3, <1>11, RunHeld
<1>5. v \in Seq(Char)
  BY <1>1, ContentTypes
<1>6. Content(w, a, p) = v \o t
  BY <1>1, <1>4 DEF Holds
<1>. HIDE DEF v
<1>7. h \o (v \o t) = (h \o v) \o t
  <2>1. h \in Seq(Char) /\ v \in Seq(Char) /\ t \in Seq(Char)
    BY <1>5
  <2>. QED
    BY ONLY <2>1, ConcatAssociative, SMTT(20)
<1>8. Framed(l.buff, h, v, t)
  BY <1>2, <1>6, <1>7 DEF Framed
<1>9. h \in Seq(Unit) /\ v \in Seq(Unit) /\ t \in Seq(Unit)
  <2>1. \A x \in Char : x \in Unit
    BY UnitsAre
  <2>2. \A s \in Seq(Char) : s \in Seq(Unit)
    BY <2>1
  <2>. QED
    BY <1>2, <1>4, <1>5, <2>2
<1>10. Trimmed(l, n) = v
  BY <1>1, <1>2, <1>4, <1>8, <1>9, TrimmedIs
<1>. QED
  BY <1>1, <1>10 DEF v, a

LEMMA SameGood ==
  ASSUME NEW w \in Seq(Char), NEW l, NEW toks, NEW i, NEW p, Elem(l, toks, w, i, p), InSame(l, w, i, p)
  PROVE  Good(SameTurn(l), Got(toks, SameTurn(l)), w)
<1>. DEFINE m == SameTurn(l)
<1>1. PICK b \in i .. i + 2, j \in 1 .. Len(w) :
        /\ LongAt(l, w, i, b) /\ p = j + l.sep + 2 /\ Bracket(w, j, l.bracket, l.sep)
        /\ OpenAt(w, b, j) /\ HasRead(l, w, b, p)
  BY DEF InSame
<1>. DEFINE a == Inside(w, b)  n == l.sep  c == First(w, j, Closes(w, b))  k == First(w, j, Nests(w, b))
<1>2. /\ l.mode = "same" /\ l.bracket \in {"[", "]"} /\ j \in 1 .. Len(w) /\ j \in 1 .. Len(w) + 1
      /\ LongAt(l, w, i, b) /\ Bracket(w, j, l.bracket, n) /\ OpenAt(w, b, j) /\ HasRead(l, w, b, p)
      /\ p = j + n + 2
  BY <1>1 DEF InSame
<1>3. n \in Nat /\ n = Level(w, b) /\ a \in 1 .. Len(w) + 1 /\ j \in a .. Len(w) + 1 /\ i \in 1 .. Len(w)
  BY <1>2, OpenIs
<1>4. /\ w[j] = l.bracket /\ p \in 1 .. Len(w) + 1
      /\ \A h \in j .. j + n + 1 : w[h] = l.bracket \/ w[h] = "="
  BY <1>2, <1>3, BracketChars
<1>5. p - 1 = j + n + 1 /\ p \in j .. Len(w) + 1 /\ Len(w) \in Nat
  BY <1>2, <1>3, <1>4
<1>6. /\ c \in j .. Len(w) + 1 /\ (c > Len(w) \/ c \in Closes(w, b))
      /\ k \in j .. Len(w) + 1
  BY <1>2, FirstIs
<1>7. /\ k < c => Enclosed(w, b) = Plain("error", "nesting", k + 2)
      /\ ~(k < c) /\ ~(c > Len(w))
              => Enclosed(w, b) = Plain("<string>", Content(w, a, c), c + Level(w, b) + 2)
  BY <1>2, EnclosedFrom
<1>8. CASE l.bracket = "[" /\ n = 0
  <2>1. m = LexError(l, "nesting")
    BY <1>8 DEF SameTurn
  <2>. HIDE DEF m
  <2>2. j \notin Closes(w, b) /\ j \in Nests(w, b)
    <3>1. j \notin Closes(w, b)
      BY <1>4, <1>8, NoBracket
    <3>2. Bracket(w, j, "[", 0) /\ Level(w, b) = 0 /\ j \in DOMAIN w
      BY <1>2, <1>3, <1>8
    <3>. QED
      BY <3>1, <3>2 DEF Nests
  <2>3. k = j
    BY <1>2, <2>2, FirstStep
  <2>. HIDE DEF c, k
  <2>4. k < c
    BY <1>2, <1>5, <1>6, <2>2, <2>3
  <2>5. Enclosed(w, b) = Plain("error", "nesting", p)
    <3>1. k + 2 = p
      BY <1>2, <1>3, <1>8, <2>3
    <3>. QED
      BY <1>7, <2>4, <3>1
  <2>6. Lexeme(w, i) = Plain("error", "nesting", p)
    <3>1. Enclosed(w, b).kind = "error"
      BY <2>5, PlainFields
    <3>. QED
      BY <1>2, <2>5, <3>1, LexemeOfLong
  <2>7. Good(m, Got(toks, m), w)
    BY <1>3, <2>1, <2>6, Fails
  <2>. QED
    BY <2>7 DEF m
<1>9. CASE l.bracket = "[" /\ n # 0
  <2>1. m = In(l, "long")
    BY <1>9 DEF SameTurn
  <2>. HIDE DEF m, c, k, n
  <2>2. Elem(m, toks, w, i, p) /\ m.mode = "long" /\ m.buff = l.buff /\ Rest(m, l)
    BY <2>1, InMore
  <2>3. m.sep = l.sep /\ m.comment = l.comment
    BY <2>2 DEF Rest
  <2>4. HasRead(m, w, b, p) /\ LongAt(m, w, i, b)
    BY <1>2, <2>2, <2>3, HasReadSame, LongAtSame
  <2>5. \A h \in j .. p - 1 : h \notin Closes(w, b) /\ h \notin Nests(w, b)
    <3>1. \A h \in j .. p - 1 : w[h] # "]"
      BY <1>4, <1>5, <1>9
    <3>. QED
      BY <1>3, <1>9, <3>1, NoBracket
  <2>6. OpenAt(w, b, p)
    BY <1>2, <1>3, <1>5, <2>5, OpenMore
  <2>7. Good(m, Got(toks, m), w)
    BY <1>2, <2>2, <2>4, <2>6, LongGoesOn
  <2>. QED
    BY <2>7 DEF m
<1>10. CASE l.bracket = "]"
  <2>1. j \in Closes(w, b)
    BY <1>2, <1>3, <1>10 DEF Closes
  <2>2. c = j
    BY <1>2, <2>1, FirstStep
  <2>. HIDE DEF c, k
  <2>3. ~(k < c) /\ ~(c > Len(w))
    BY <1>2, <1>5, <1>6, <2>2
  <2>4. Enclosed(w, b) = Plain("<string>", Content(w, a, j), p)
    <3>1. c + Level(w, b) + 2 = p
      BY <1>2, <1>3, <2>2
    <3>. QED
      BY <1>7, <2>2, <2>3, <3>1
  <2>5. Enclosed(w, b).kind = "<string>" /\ Enclosed(w, b).end = p
    BY <2>4, PlainFields
  <2>6. CASE l.comment
    <3>1. m = In(Reset(l), "scan")
      BY <1>10, <2>6 DEF SameTurn
    <3>. HIDE DEF m
    <3>2. Elem(Reset(l), toks, w, i, p) /\ Reset(l).buff = <<>>
      BY ResetMore
    <3>3. Elem(m, toks, w, i, p) /\ m.mode = "scan" /\ m.buff = <<>>
      BY <3>1, <3>2, InMore
    <3>4. Lexeme(w, i) = Plain("part", <<>>, p)
      BY <1>2, <2>5, <2>6, LexemeOfLong
    <3>5. Good(m, Got(toks, m), w)
      BY <1>3, <3>3, <3>4, Skips
    <3>. QED
      BY <3>5 DEF m
  <2>7. CASE ~l.comment
    <3>. DEFINE v == Content(w, a, j)
    <3>1. m = Return(l, "<string>", Trimmed(l, 2 + l.sep))
      BY <1>10, <2>7 DEF SameTurn
    <3>2. Trimmed(l, 2 + l.sep) = v
      <4>1. \A h \in j .. p - 1 : w[h] \notin Newlines
        <5>1. \A h \in j .. p - 1 : w[h] = "]" \/ w[h] = "="
          BY <1>4, <1>5, <1>10
        <5>. QED
          BY <5>1 DEF Newlines
      <4>2. l.sep \in Nat /\ p = j + (l.sep + 2) /\ p <= Len(w) + 1
        BY <1>2, <1>3, <1>5
      <4>. HIDE DEF n
      <4>. QED
        BY <1>2, <1>3, <2>7, <4>1, <4>2, LongTrimmed
    <3>3. Lexeme(w, i) = Plain("<string>", v, p)
      BY <1>2, <2>4, <2>7, LexemeOfLong
    <3>. HIDE DEF m, v
    <3>4. m = Return(l, "<string>", v)
      BY <3>1, <3>2
    <3>5. Good(m, Got(toks, m), w)
      BY <1>3, <3>3, <3>4, Returns
    <3>. QED
      BY <3>5 DEF m
  <2>. QED
    BY <2>6, <2>7
<1>. QED
  BY <1>2, <1>8, <1>9, <1>10

-----------------------------------------------------------------------------
(* Every step leads on *)

LEMMA StepGot ==
  ASSUME NEW m, Step(m)
  PROVE  ls' = m /\ tokens' = Got(tokens, m) /\ chunk' = chunk
BY DEF Step, Got

\* Where llex is says which of the cases holds.
LEMMA CaseOf ==
  ASSUME NEW l, NEW w, NEW i, NEW p, Between(l, w, i, p)
  PROVE  /\ l.mode = "scan" => InScan(l, i, p)
         /\ l.mode = "short" => InShort(l, w, i, p)
         /\ l.mode = "name" => InName(l, w, i, p)
         /\ l.mode = "numeral" => InNumeral(l, w, i, p)
         /\ l.mode = "suffix" => InSuffix(l, w, i, p)
         /\ l.mode = "string" => InString(l, w, i, p)
         /\ l.mode = "decimal" => InDecimal(l, w, i, p)
         /\ l.mode = "sep" => InSepOfToken(l, w, i, p) \/ InSepOfComment(l, w, i, p) \/ InSepOfLong(l, w, i, p)
         /\ l.mode = "opening" => InOpening(l, w, i, p)
         /\ l.mode = "long" => InLong(l, w, i, p)
         /\ l.mode = "same" => InSame(l, w, i, p)
BY DEF Between, InScan, InShort, InName, InNumeral, InSuffix, InString, InDecimal, InSepOfToken,
       InSepOfComment, InSepOfLong, InOpening, InLong, InSame

LEMMA ScanGood ==
  ASSUME NEW w \in Seq(Char), NEW i, NEW p, Elem(ls, tokens, w, i, p), Between(ls, w, i, p),
         \/ SkipNewline \/ SkipSpace \/ Minus \/ OpenBracket \/ Comparison \/ Dot
         \/ StartNumeral \/ StartName \/ StartString \/ EndOfStream \/ Single
  PROVE  Good(ls', tokens', w)
<1>. USE DEF Scanning
<1>1. ls.mode = "scan"
  BY DEF SkipNewline, SkipSpace, Minus, OpenBracket, Comparison, Dot,
         StartNumeral, StartName, StartString, EndOfStream, Single
<1>2. Begins(ls, tokens, w, p)
  <2>1. InScan(ls, i, p)
    BY <1>1, CaseOf
  <2>. QED
    BY <2>1 DEF InScan, Begins
<1>3. ASSUME NEW m, Step(m), Good(m, Got(tokens, m), w) PROVE Good(ls', tokens', w)
  BY <1>3, StepGot
<1>4. CASE SkipNewline
  <2>1. At(ls, Newlines) /\ Step(IncLineNumber(ls))
    BY <1>4 DEF SkipNewline
  <2>. QED
    BY <1>2, <1>3, <2>1, NewlineGood
<1>5. CASE SkipSpace
  <2>1. At(ls, {Space}) /\ Step(NextChar(ls))
    BY <1>5 DEF SkipSpace
  <2>. QED
    BY <1>2, <1>3, <2>1, SpaceGood
<1>6. CASE Minus
  <2>1. At(ls, {"-"}) /\ Step(MinusTurn(ls))
    BY <1>6 DEF Minus, MinusTurn
  <2>. QED
    BY <1>2, <1>3, <2>1, MinusGood
<1>7. CASE OpenBracket
  <2>1. At(ls, {"["}) /\ Step(SkipSep(ls, "token"))
    BY <1>7 DEF OpenBracket
  <2>. QED
    BY <1>2, <1>3, <2>1, OpenBracketGood
<1>8. CASE Comparison
  <2>1. At(ls, {"=", "<", "~"}) /\ Step(ComparisonTurn(ls))
    BY <1>8 DEF Comparison, ComparisonTurn
  <2>. QED
    BY <1>2, <1>3, <2>1, ComparisonGood
<1>9. CASE Dot
  <2>1. At(ls, {"."}) /\ Step(DotTurn(ls))
    BY <1>9 DEF Dot, DotTurn
  <2>. QED
    BY <1>2, <1>3, <2>1, DotGood
<1>10. CASE StartNumeral
  <2>1. At(ls, Digits) /\ Step(In(ls, "numeral"))
    BY <1>10 DEF StartNumeral
  <2>. QED
    BY <1>2, <1>3, <2>1, StartNumeralGood
<1>11. CASE StartName
  <2>1. At(ls, Initials) /\ Step(In(ls, "name"))
    BY <1>11 DEF StartName
  <2>. QED
    BY <1>2, <1>3, <2>1, StartNameGood
<1>12. CASE StartString
  <2>1. At(ls, Quotes) /\ Step(StringBegun(ls))
    BY <1>12 DEF StartString, StringBegun
  <2>. QED
    BY <1>2, <1>3, <2>1, StartStringGood
<1>13. CASE EndOfStream
  <2>1. At(ls, {EOZ}) /\ Step(Return(ls, TK_EOS, <<>>))
    BY <1>13 DEF EndOfStream
  <2>. QED
    BY <1>2, <1>3, <2>1, EndGood
<1>14. CASE Single
  <2>1. At(ls, {"]", Backslash, NUL, "#", SIGNATURE}) /\ Step(SingleTurn(ls))
    BY <1>14 DEF Single, SingleTurn
  <2>. QED
    BY <1>2, <1>3, <2>1, SingleGood
<1>. QED
  BY <1>4, <1>5, <1>6, <1>7, <1>8, <1>9, <1>10, <1>11, <1>12, <1>13, <1>14

LEMMA ReaderGood ==
  ASSUME NEW w \in Seq(Char), NEW i, NEW p, Elem(ls, tokens, w, i, p), Between(ls, w, i, p),
         \/ ReadShort \/ SkipEquals \/ ReadOpening \/ ReadLong \/ SameLevel
         \/ ReadString \/ ReadDecimal \/ ReadNumeral \/ EndNumeral \/ ReadName
  PROVE  Good(ls', tokens', w)
<1>1. ASSUME NEW m, Step(m), Good(m, Got(tokens, m), w) PROVE Good(ls', tokens', w)
  BY <1>1, StepGot
<1>2. CASE ReadShort
  <2>1. ls.mode = "short" /\ Step(ShortTurn(ls))
    BY <1>2 DEF ReadShort, ShortTurn
  <2>. QED
    BY <1>1, <2>1, CaseOf, ShortGood
<1>3. CASE SkipEquals
  <2>1. ls.mode = "sep" /\ Step(SepTurn(ls))
    BY <1>3 DEF SkipEquals, SepTurn, EqualsTaken
  <2>2. InSepOfToken(ls, w, i, p) \/ InSepOfComment(ls, w, i, p) \/ InSepOfLong(ls, w, i, p)
    BY <2>1, CaseOf
  <2>. QED
    BY <1>1, <2>1, <2>2, SepOfTokenGood, SepOfCommentGood, SepOfLongGood
<1>4. CASE ReadOpening
  <2>1. ls.mode = "opening" /\ Step(ReadOpeningTurn(ls))
    BY <1>4 DEF ReadOpening, ReadOpeningTurn
  <2>. QED
    BY <1>1, <2>1, CaseOf, ReadOpeningGood
<1>5. CASE ReadLong
  <2>1. ls.mode = "long" /\ Step(LongTurn(ls))
    BY <1>5 DEF ReadLong
  <2>. QED
    BY <1>1, <2>1, CaseOf, LongGood
<1>6. CASE SameLevel
  <2>1. ls.mode = "same" /\ Step(SameTurn(ls))
    BY <1>6 DEF SameLevel, SameTurn
  <2>. QED
    BY <1>1, <2>1, CaseOf, SameGood
<1>7. CASE ReadString
  <2>1. ls.mode = "string" /\ Step(StringTurn(ls))
    BY <1>7 DEF ReadString
  <2>. QED
    BY <1>1, <2>1, CaseOf, StringGood
<1>8. CASE ReadDecimal
  <2>1. ls.mode = "decimal" /\ Step(DecimalTurn(ls))
    BY <1>8 DEF ReadDecimal, DecimalTurn
  <2>. QED
    BY <1>1, <2>1, CaseOf, DecimalGood
<1>9. CASE ReadNumeral
  <2>1. ls.mode = "numeral" /\ Step(NumeralTurn(ls))
    BY <1>9 DEF ReadNumeral, NumeralTurn
  <2>. QED
    BY <1>1, <2>1, CaseOf, NumeralGood
<1>10. CASE EndNumeral
  <2>1. ls.mode = "suffix" /\ Step(SuffixTurn(ls))
    BY <1>10 DEF EndNumeral, SuffixTurn
  <2>. QED
    BY <1>1, <2>1, CaseOf, SuffixGood
<1>11. CASE ReadName
  <2>1. ls.mode = "name" /\ Step(NameTurn(ls))
    BY <1>11 DEF ReadName, NameTurn
  <2>. QED
    BY <1>1, <2>1, CaseOf, NameGood
<1>. QED
  BY <1>2, <1>3, <1>4, <1>5, <1>6, <1>7, <1>8, <1>9, <1>10, <1>11

LEMMA LLexGood ==
  ASSUME NEW w \in Seq(Char), InElement(ls, tokens, w), LLex
  PROVE  Good(ls', tokens', w)
<1>1. PICK i \in 1 .. Len(w) + 1, p \in 1 .. Len(w) + 1 :
        Owed(tokens, w, i) /\ Stands(ls, w, p) /\ Between(ls, w, i, p)
  BY DEF InElement
<1>2. Elem(ls, tokens, w, i, p) /\ Between(ls, w, i, p)
  BY <1>1 DEF Elem, InElement
<1>. QED
  BY <1>2, ScanGood, ReaderGood DEF LLex

LEMMA XNextGood ==
  ASSUME NEW w \in Seq(Char), Waiting(ls, tokens, w), XNext
  PROVE  Good(ls', tokens', w)
<1>1. ls.mode = "idle" /\ (tokens = <<>> \/ ls.t.kind # TK_EOS)
  BY DEF XNext
<1>2. PICK p \in 1 .. Len(w) + 1 :
        /\ Stands(ls, w, p)
        /\ Owed(IF ls.lookAhead.kind = TK_EOS THEN tokens ELSE Append(tokens, ls.lookAhead), w, p)
  BY <1>1 DEF Waiting
<1>3. IsLex(ls) /\ Stands(ls, w, p)
  BY <1>2 DEF Stands
<1>4. CASE ls.lookAhead.kind # TK_EOS
  <2>1. /\ ls' = [ls EXCEPT !.t = ls.lookAhead, !.lookAhead = NoToken, !.lastLine = ls.lineNumber,
                            !.ahead = FALSE]
        /\ tokens' = Append(tokens, ls'.t)
    BY <1>4 DEF XNext
  <2>2. /\ IsLex(ls') /\ ls'.z = ls.z /\ ls'.lineNumber = ls.lineNumber /\ ls'.mode = "idle"
        /\ ls'.t = ls.lookAhead /\ ls'.lookAhead = NoToken
    BY <1>1, <1>3, <2>1 DEF IsLex, LexFields
  <2>3. Stands(ls', w, p)
    BY <1>3, <2>2, StandsToo
  <2>4. ls'.lookAhead.kind = TK_EOS /\ ls'.t.kind # TK_EOS
    BY <1>4, <2>2 DEF NoToken, Token
  <2>5. Owed(tokens', w, p)
    BY <1>2, <1>4, <2>1, <2>2
  <2>6. Waiting(ls', tokens', w)
    BY <2>3, <2>4, <2>5 DEF Waiting
  <2>. QED
    BY <2>2, <2>6 DEF Good
<1>5. CASE ls.lookAhead.kind = TK_EOS
  <2>1. /\ ls' = Reset(In([ls EXCEPT !.lastLine = ls.lineNumber, !.ahead = FALSE], "scan"))
        /\ tokens' = tokens
    BY <1>5 DEF XNext
  <2>2. /\ IsLex(ls') /\ ls'.z = ls.z /\ ls'.lineNumber = ls.lineNumber /\ ls'.mode = "scan"
        /\ ls'.buff = <<>> /\ ls'.lookAhead = ls.lookAhead /\ ~ls'.ahead
    BY <1>3, <2>1 DEF IsLex, LexFields, Reset, In
  <2>3. Stands(ls', w, p)
    BY <1>3, <2>2, StandsToo
  <2>4. InScan(ls', p, p)
    BY <2>2 DEF InScan
  <2>5. Between(ls', w, p, p)
    BY <2>4 DEF Between
  <2>6. Owed(tokens', w, p)
    BY <1>2, <1>5, <2>1
  <2>7. InElement(ls', tokens', w)
    BY <1>5, <2>2, <2>3, <2>5, <2>6 DEF InElement
  <2>. QED
    BY <2>2, <2>7 DEF Good
<1>. QED
  BY <1>4, <1>5

LEMMA XLookAheadGood ==
  ASSUME NEW w \in Seq(Char), Waiting(ls, tokens, w), XLookAhead
  PROVE  Good(ls', tokens', w)
<1>1. /\ ls.t.kind = "<name>" /\ ~ls.ahead /\ tokens' = tokens
      /\ ls' = Reset(In([ls EXCEPT !.ahead = TRUE], "scan"))
  BY DEF XLookAhead
<1>2. ls.t.kind # TK_EOS
  BY <1>1 DEF TK_EOS
<1>3. /\ ls.lookAhead.kind = TK_EOS
      /\ \E p \in 1 .. Len(w) + 1 :
           /\ Stands(ls, w, p)
           /\ Owed(IF ls.lookAhead.kind = TK_EOS THEN tokens ELSE Append(tokens, ls.lookAhead), w, p)
  BY <1>1, <1>2 DEF Waiting
<1>4. PICK p \in 1 .. Len(w) + 1 : Stands(ls, w, p) /\ Owed(tokens, w, p)
  BY <1>3
<1>5. IsLex(ls)
  BY <1>4 DEF Stands
<1>6. /\ IsLex(ls') /\ ls'.z = ls.z /\ ls'.lineNumber = ls.lineNumber /\ ls'.mode = "scan"
      /\ ls'.buff = <<>> /\ ls'.lookAhead = ls.lookAhead /\ ls'.t = ls.t
  BY <1>1, <1>5 DEF IsLex, LexFields, Reset, In
<1>7. Stands(ls', w, p)
  BY <1>4, <1>6, StandsToo
<1>8. InScan(ls', p, p)
  BY <1>6 DEF InScan
<1>9. Between(ls', w, p, p)
  BY <1>8 DEF Between
<1>10. InElement(ls', tokens', w)
  BY <1>1, <1>2, <1>3, <1>4, <1>6, <1>7, <1>9 DEF InElement
<1>. QED
  BY <1>6, <1>10 DEF Good

LEMMA LoadPlaces ==
  ASSUME NEW w \in Seq(Char), NEW z, Fresh(z, w)
  PROVE  \/ Binary(Load(z))
         \/ /\ Load(z).mode = "idle" /\ Stands(Load(z), w, 1)
            /\ Load(z).lookAhead.kind = TK_EOS
<1>. DEFINE s == Lookahead(z)
            i == [z |-> s, lineNumber |-> 1, lastLine |-> 1,
                  t |-> NoToken, lookAhead |-> NoToken, ahead |-> FALSE, buff |-> <<>>,
                  mode |-> "idle", caller |-> "", bracket |-> NUL, count |-> 0, sep |-> 0,
                  comment |-> FALSE, del |-> NUL, code |-> 0]
            l == Load(z)
<1>1. StreamAt(z, w, 0) /\ z.n \in Nat /\ z.n = 0 /\ z.taken = 0 /\ 0 \in Nat
  BY FreshIsStream
<1>2. LooksAt(s, z, w, 0)
  BY <1>1, LookaheadDelivers
<1>. HIDE DEF s
<1>3. StreamAt(s, w, s.taken) /\ s.n \in Nat /\ s.taken = 0
  BY <1>1, <1>2 DEF LooksAt
<1>4. IsLex(i) /\ i.z = s /\ i.mode = "idle" /\ i.lineNumber = 1 /\ i.lookAhead.kind = TK_EOS
  BY DEF IsLex, LexFields, NoToken, Token
<1>5. l = IF i.z.c = SIGNATURE THEN In(i, "binary") ELSE NextChar(i)
  BY DEF Load, s
<1>. HIDE DEF i, l
<1>6. CASE s.c = SIGNATURE
  <2>1. l.mode = "binary"
    BY <1>4, <1>5, <1>6 DEF In, IsLex, LexFields
  <2>. QED
    BY <2>1 DEF Binary, l
<1>7. CASE s.c # SIGNATURE
  <2>. DEFINE g == GetCh(s)
  <2>1. l = [i EXCEPT !.z = g]
    BY <1>4, <1>5, <1>7 DEF NextChar
  <2>2. Placed(g, w, 1)
    <3>1. Placed(g, w, s.taken + 1)
      BY <1>3, GetChPlaces
    <3>2. s.taken + 1 = 1
      BY <1>3
    <3>. HIDE DEF g
    <3>. QED
      BY <3>1, <3>2
  <2>. HIDE DEF g
  <2>3. IsLex(l) /\ l.mode = "idle" /\ l.z = g /\ l.lineNumber = 1 /\ l.lookAhead.kind = TK_EOS
    BY <1>4, <2>1 DEF IsLex, LexFields
  <2>4. Line(w, 1) = 1 /\ Clean(w, 1)
    BY LineAtStart
  <2>5. Stands(l, w, 1)
    BY <2>2, <2>3, <2>4 DEF Stands
  <2>. QED
    BY <2>3, <2>5 DEF l
<1>. QED
  BY <1>6, <1>7

LEMMA InitTokens ==
  ASSUME Init PROVE TokensInv
<1>. DEFINE w == Chunk(chunk)
            z == IF chunk.step = 0 THEN LoadString(chunk.text) ELSE LLoadFile(chunk.text, chunk.step)
<1>1. chunk \in Chunks /\ ls = Load(z) /\ tokens = <<>>
  BY DEF Init
<1>2. w \in Seq(Char) /\ Fresh(z, w)
  BY <1>1, OpeningDelivers
<1>. HIDE DEF w, z
<1>3. \/ Binary(ls)
      \/ ls.mode = "idle" /\ Stands(ls, w, 1) /\ ls.lookAhead.kind = TK_EOS
  BY <1>1, <1>2, LoadPlaces
<1>4. CASE Binary(ls)
  BY <1>4 DEF TokensInv
<1>5. CASE ls.mode = "idle" /\ Stands(ls, w, 1) /\ ls.lookAhead.kind = TK_EOS
  <2>1. Owed(tokens, w, 1) /\ 1 \in 1 .. Len(w) + 1
    BY <1>1, <1>2, OwedAtStart DEF Owed
  <2>2. Waiting(ls, tokens, w)
    BY <1>1, <1>5, <2>1 DEF Waiting
  <2>. QED
    BY <1>5, <2>2 DEF TokensInv, w
<1>. QED
  BY <1>3, <1>4, <1>5

LEMMA NextTokens ==
  ASSUME IInv, TokensInv, [Next]_vars PROVE TokensInv'
<1>. DEFINE w == Chunk(chunk)
<1>1. chunk \in Chunks /\ w \in Seq(Char)
  BY OpeningDelivers DEF IInv
<1>2. ASSUME Good(ls', tokens', w), chunk' = chunk PROVE TokensInv'
  <2>1. Chunk(chunk') = w
    BY <1>2
  <2>. HIDE DEF w
  <2>. QED
    BY <1>2, <2>1 DEF Good, TokensInv
<1>3. CASE UNCHANGED vars
  <2>1. UNCHANGED <<chunk, ls, tokens>>
    BY <1>3 DEF vars
  <2>. QED
    BY <2>1 DEF TokensInv
<1>4. CASE LLex
  <2>1. ls.mode \notin {"idle", "failed", "binary", "truncated"} /\ chunk' = chunk
    BY <1>4 DEF LLex, SkipNewline, SkipSpace, Minus, OpenBracket, Comparison, Dot, StartNumeral,
                StartName, StartString, EndOfStream, Single, ReadShort, SkipEquals, ReadOpening, ReadLong,
                SameLevel, ReadString, ReadDecimal, ReadNumeral, EndNumeral, ReadName, Scanning, Step
  <2>2. InElement(ls, tokens, w)
    BY <2>1 DEF TokensInv, Binary
  <2>. HIDE DEF w
  <2>3. Good(ls', tokens', w)
    BY <1>1, <1>4, <2>2, LLexGood
  <2>. QED
    BY <1>2, <2>1, <2>3
<1>5. CASE XNext
  <2>1. ls.mode = "idle" /\ chunk' = chunk
    BY <1>5 DEF XNext
  <2>2. Waiting(ls, tokens, w)
    BY <2>1 DEF TokensInv, Binary
  <2>. HIDE DEF w
  <2>3. Good(ls', tokens', w)
    BY <1>1, <1>5, <2>2, XNextGood
  <2>. QED
    BY <1>2, <2>1, <2>3
<1>6. CASE XLookAhead
  <2>1. ls.mode = "idle" /\ chunk' = chunk
    BY <1>6 DEF XLookAhead
  <2>2. Waiting(ls, tokens, w)
    BY <2>1 DEF TokensInv, Binary
  <2>. HIDE DEF w
  <2>3. Good(ls', tokens', w)
    BY <1>1, <1>6, <2>2, XLookAheadGood
  <2>. QED
    BY <1>2, <2>1, <2>3
<1>7. CASE LoadBlock
  <2>1. IsLex(ls)
    BY <1>7 DEF IInv, LoadBlock, Binary
  <2>2. PICK n \in 1 .. 3 :
          ls' = [ls EXCEPT !.z = ReadBlock(ls.z, n),
                           !.mode = IF Len(ReadBlock(ls.z, n).block) < n THEN "truncated" ELSE "binary"]
    BY <1>7 DEF LoadBlock
  <2>. DEFINE z == ReadBlock(ls.z, n)  mode == IF Len(z.block) < n THEN "truncated" ELSE "binary"
  <2>3. mode \in {"binary", "truncated"} /\ ls' = [ls EXCEPT !.z = z, !.mode = mode]
    BY <2>2
  <2>. HIDE DEF z, mode
  <2>4. ls'.mode \in {"binary", "truncated"}
    BY <2>1, <2>3 DEF IsLex, LexFields
  <2>. QED
    BY <2>4 DEF TokensInv, Binary
<1>. QED
  BY <1>3, <1>4, <1>5, <1>6, <1>7 DEF Next

\* Wherever llex is, what the parser has got and the tokens from the element
\* being read on are the tokens of the text.
THEOREM TokensAreOwed == Spec => []TokensInv
<1>1. Init => TokensInv
  BY InitTokens
<1>2. IInv /\ TokensInv /\ [Next]_vars => TokensInv'
  BY NextTokens
<1>. QED
  BY <1>1, <1>2, InvariantHolds, PTL DEF Spec

\* The tokens that the parser gets are those of the text by their definitions
\* on it, with their lines, up to its end or its first error.
THEOREM TextIsTokenized == Spec => []TokensMeanText
<1>1. TokensInv => TokensMeanText
  BY DEF TokensInv, TokensMeanText, Waiting, Binary
<1>. QED
  BY <1>1, TokensAreOwed, PTL
=============================================================================
