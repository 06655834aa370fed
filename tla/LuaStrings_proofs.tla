------------------------- MODULE LuaStrings_proofs --------------------------
(***************************************************************************)
(* The string table interns: proved for every set of strings, every hash   *)
(* function, every list of keywords and every limit that satisfies the     *)
(* assumptions of LuaStrings.                                              *)
(***************************************************************************)
EXTENDS LuaStrings, TLAPS

\* KeywordsMarked while xInit is still under way.
MarksSoFar ==
  \A a \in Address :
    /\ heap[a].reserved \in {0} \cup DOMAIN Keywords
    /\ \A i \in DOMAIN Keywords :
         heap[a].reserved = i <=> heap[a].content = Keywords[i] /\ i <= opened - NumTM

\* A keyword that has been interned stays in the table.
KeywordsPresent ==
  \A i \in DOMAIN Keywords :
    i <= opened - NumTM => \E a \in Address : heap[a].content = Keywords[i]

IInv == TypeOK /\ ChainsStayShort /\ ChainsExact /\ NoTwins /\ MarksSoFar /\ KeywordsPresent

USE DEF Address, LMod

\* Every string hashes to one of the chains.
LEMMA HashInRange ==
  ASSUME NEW c \in Content, NEW n \in Nat \ {0}
  PROVE  /\ Hash[c] % n \in 0 .. n - 1
         /\ Hash[c] \in Nat
<1>1. Hash[c] \in Nat
  BY ContentAssumption
<1>. QED
  BY <1>1

\* A search returns exactly the TStrings with the content it looks for.
LEMMA SearchIsComplete ==
  ASSUME TypeOK, ChainsExact, NEW c \in Content
  PROVE  Matches(c) = { a \in Address : heap[a].content = c }
<1>1. Hash[c] % size \in 0 .. size - 1
  BY HashInRange DEF TypeOK
<1>. QED
  BY <1>1 DEF Matches, ChainsExact, TypeOK

LEMMA LengthsAreNat ==
  /\ NumTM \in Nat /\ Len(Keywords) \in Nat
  /\ DOMAIN Keywords = 1 .. Len(Keywords)
  /\ \A i \in DOMAIN Keywords : Keywords[i] \in Content
BY ContentAssumption DEF NumTM
-----------------------------------------------------------------------------
(* A new string *)

LEMMA UnionOfChains ==
  ASSUME NEW f, NEW D, NEW E, DOMAIN f = D,
         \A i \in D : f[i] \subseteq E,
         \A a \in E : \E i \in D : a \in f[i]
  PROVE  UNION { f[i] : i \in DOMAIN f } = E
OBVIOUS

\* What newStr preserves for a content that is not in the table.
LEMMA NewStrKeepsTable ==
  ASSUME TypeOK, ChainsStayShort, ChainsExact, NoTwins,
         NEW c \in Content, Matches(c) = {}, NEW mark \in Nat, NewStr(c, mark)
  PROVE  /\ heap' \in Seq(TString)
         /\ size' \in Nat \ {0}
         /\ chain' \in [0 .. size' - 1 -> SUBSET Address']
         /\ nrUse' \in Nat
         /\ ChainsStayShort' /\ ChainsExact' /\ NoTwins'
<1> DEFINE new == Len(heap) + 1
           h == Append(heap, [content |-> c, reserved |-> mark])
           s == [chain EXCEPT ![Hash[c] % size] = @ \cup {new}]
<1>1. /\ heap' = h
      /\ h \in Seq(TString) /\ Len(h) = new /\ new \in Nat
      /\ h[new].content = c
      /\ \A a \in 1 .. Len(heap) : h[a] = heap[a] /\ a # new
  BY DEF NewStr, TypeOK, TString
<1>2. \A a \in 1 .. new : a \in 1 .. Len(heap) \/ a = new
  BY <1>1 DEF TypeOK
<1>3. Hash[c] % size \in 0 .. size - 1 /\ size \in Nat \ {0}
  BY HashInRange DEF TypeOK
<1>4. \A a \in 1 .. new : h[a].content \in Content
  <2>1. \A a \in 1 .. new : h[a] \in TString
    BY <1>1
  <2>. QED
    BY <2>1 DEF TString
<1>5. s = [b \in 0 .. size - 1 |-> { a \in 1 .. new : Hash[h[a].content] % size = b }]
  <2>1. s \in [0 .. size - 1 -> SUBSET (1 .. new)]
    BY <1>1, <1>2, <1>3 DEF TypeOK
  <2>2. ASSUME NEW b \in 0 .. size - 1
        PROVE  s[b] = { a \in 1 .. new : Hash[h[a].content] % size = b }
    <3>1. chain[b] = { a \in 1 .. Len(heap) : Hash[heap[a].content] % size = b }
      BY DEF ChainsExact
    <3>2. s[b] = IF b = Hash[c] % size THEN chain[b] \cup {new} ELSE chain[b]
      BY <1>3 DEF TypeOK
    <3>. QED
      BY <1>1, <1>2, <3>1, <3>2
  <2>. QED
    BY <2>1, <2>2
<1>6. ASSUME NEW n \in Nat \ {0}
      PROVE  Rehashed(h, s, n) = [b \in 0 .. n - 1 |-> { a \in 1 .. new : Hash[h[a].content] % n = b }]
  <2>1. \A a \in 1 .. new : Hash[h[a].content] % size \in 0 .. size - 1
    BY <1>3, <1>4, HashInRange
  <2>2. UNION { s[i] : i \in DOMAIN s } = 1 .. new
    <3>1. DOMAIN s = 0 .. size - 1
      BY <1>5
    <3>2. \A i \in 0 .. size - 1 : s[i] = { a \in 1 .. new : Hash[h[a].content] % size = i }
      BY <1>5
    <3>3. \A i \in 0 .. size - 1 : s[i] \subseteq 1 .. new
      BY <3>2
    <3>4. \A a \in 1 .. new : \E i \in 0 .. size - 1 : a \in s[i]
      BY <2>1, <3>2
    <3>. HIDE DEF s, h, new
    <3>. QED
      BY <3>1, <3>3, <3>4, UnionOfChains
  <2>. QED
    BY <2>2 DEF Rehashed
<1>7. CASE Crowded(nrUse + 1)
  <2>1. size' = 2 * size /\ chain' = Rehashed(h, s, 2 * size) /\ nrUse' = nrUse + 1
    BY <1>7 DEF NewStr
  <2>2. 2 * size \in Nat \ {0}
    BY <1>3
  <2>3. nrUse <= size
    BY <1>3, <1>7, SizeAssumption DEF Crowded, ChainsStayShort, TypeOK
  <2>4. nrUse' <= size' /\ nrUse' = Len(heap') /\ nrUse' \in Nat
    BY <1>1, <1>3, <2>1, <2>3 DEF ChainsStayShort, TypeOK
  <2>5. chain' = [b \in 0 .. size' - 1 |-> { a \in 1 .. new : Hash[h[a].content] % size' = b }]
    BY <1>6, <2>1, <2>2
  <2>6. ChainsExact' /\ chain' \in [0 .. size' - 1 -> SUBSET (1 .. Len(heap'))]
    <3>1. Len(heap') = new /\ heap' = h
      BY <1>1
    <3>2. \A b \in 0 .. size' - 1 :
            chain'[b] = { a \in 1 .. new : Hash[h[a].content] % size' = b }
      BY <2>5
    <3>. QED
      BY <2>5, <3>1, <3>2 DEF ChainsExact
  <2>7. NoTwins'
    BY <1>1, <1>2, SearchIsComplete DEF NoTwins
  <2>. QED
    BY <1>1, <2>1, <2>2, <2>4, <2>6, <2>7 DEF ChainsStayShort
<1>8. CASE ~Crowded(nrUse + 1)
  <2>1. size' = size /\ chain' = s /\ nrUse' = nrUse + 1
    BY <1>8 DEF NewStr
  <2>2. nrUse' <= size' \/ size' > MAX_INT \div 2
    BY <1>3, <1>8, <2>1, SizeAssumption DEF Crowded, TypeOK
  <2>3. nrUse' = Len(heap') /\ nrUse' \in Nat
    BY <1>1, <2>1 DEF ChainsStayShort, TypeOK
  <2>4. ChainsExact' /\ chain' \in [0 .. size' - 1 -> SUBSET (1 .. Len(heap'))]
    <3>1. Len(heap') = new /\ heap' = h
      BY <1>1
    <3>2. chain' = [b \in 0 .. size' - 1 |-> { a \in 1 .. new : Hash[h[a].content] % size' = b }]
      BY <1>5, <2>1
    <3>3. \A b \in 0 .. size' - 1 :
            chain'[b] = { a \in 1 .. new : Hash[h[a].content] % size' = b }
      BY <3>2
    <3>. QED
      BY <3>1, <3>2, <3>3 DEF ChainsExact
  <2>5. NoTwins'
    BY <1>1, <1>2, SearchIsComplete DEF NoTwins
  <2>. QED
    BY <1>1, <1>3, <2>1, <2>2, <2>3, <2>4, <2>5 DEF ChainsStayShort
<1>. QED
  BY <1>7, <1>8
-----------------------------------------------------------------------------
(* The invariant *)

LEMMA InternKeepsTable ==
  ASSUME IInv, NEW c \in Content, Intern(c)
  PROVE  /\ heap' \in Seq(TString)
         /\ size' \in Nat \ {0}
         /\ chain' \in [0 .. size' - 1 -> SUBSET Address']
         /\ nrUse' \in Nat
         /\ ChainsStayShort' /\ ChainsExact' /\ NoTwins'
         /\ \/ UNCHANGED heap
            \/ Matches(c) = {} /\ heap' = Append(heap, [content |-> c, reserved |-> 0])
<1>1. CASE Matches(c) # {}
  <2>1. UNCHANGED <<heap, chain, nrUse, size>>
    BY <1>1 DEF Intern
  <2>. QED
    BY <2>1 DEF IInv, TypeOK, ChainsStayShort, ChainsExact, NoTwins
<1>2. CASE Matches(c) = {}
  <2>1. NewStr(c, 0)
    BY <1>2 DEF Intern
  <2>. QED
    BY <1>2, <2>1, NewStrKeepsTable DEF IInv, NewStr
<1>. QED
  BY <1>1, <1>2

\* A longer heap holds what it held.
LEMMA StringsStay ==
  ASSUME heap \in Seq(TString), NEW r \in TString, heap' = Append(heap, r)
  PROVE  /\ Len(heap') = Len(heap) + 1
         /\ \A a \in Address : a \in Address' /\ heap'[a] = heap[a]
         /\ heap'[Len(heap) + 1] = r
OBVIOUS

\* A string that is not a keyword, or one whose turn has not come, gets no mark.
LEMMA NewUnmarked ==
  ASSUME TypeOK, MarksSoFar, NEW c \in Content,
         heap' = Append(heap, [content |-> c, reserved |-> 0]),
         opened' \in Nat, opened \in Nat,
         \A i \in DOMAIN Keywords : i <= opened' - NumTM <=> i <= opened - NumTM,
         \A i \in DOMAIN Keywords : Keywords[i] = c => ~(i <= opened - NumTM)
  PROVE  MarksSoFar'
<1> DEFINE new == Len(heap) + 1
<1>1. /\ Len(heap') = new /\ new \in Nat
      /\ heap'[new] = [content |-> c, reserved |-> 0]
      /\ \A a \in 1 .. Len(heap) : heap'[a] = heap[a]
  BY DEF TypeOK
<1>2. \A a \in 1 .. new : a \in 1 .. Len(heap) \/ a = new
  BY <1>1 DEF TypeOK
<1>3. \A i \in DOMAIN Keywords : i # 0
  BY LengthsAreNat
<1>. QED
  BY <1>1, <1>2, <1>3 DEF MarksSoFar

LEMMA InitIInv == Init => IInv
BY ContentAssumption, SizeAssumption, LengthsAreNat
   DEF Init, IInv, TypeOK, ChainsStayShort, ChainsExact, NoTwins, MarksSoFar,
       KeywordsPresent

LEMMA Inductive == IInv /\ [Next]_vars => IInv'
<1> SUFFICES ASSUME IInv, [Next]_vars
             PROVE  IInv'
  OBVIOUS
<1>. USE LengthsAreNat
<1>1. CASE InternTagMethod
  <2>1. PICK c \in Content : Intern(c) /\ opened < NumTM /\ opened' = opened + 1
    <3>1. opened + 1 \in 1 .. Len(TagMethods)
      BY <1>1 DEF InternTagMethod, NumTM, IInv, TypeOK
    <3>. QED
      BY <1>1, <3>1, ContentAssumption DEF InternTagMethod
  <2>2. opened \in Nat /\ opened' \in 0 .. NumTM + Len(Keywords)
    BY <2>1 DEF IInv, TypeOK
  <2>4. \A i \in DOMAIN Keywords : ~(i <= opened - NumTM) /\ ~(i <= opened' - NumTM)
    BY <2>1, <2>2
  <2>3. MarksSoFar'
    <3>2. CASE UNCHANGED heap
      BY <2>4, <3>2 DEF IInv, MarksSoFar
    <3>3. CASE heap' = Append(heap, [content |-> c, reserved |-> 0])
      BY <2>2, <2>4, <3>3, NewUnmarked DEF IInv
    <3>. QED
      BY <2>1, <3>2, <3>3, InternKeepsTable
  <2>5. KeywordsPresent'
    BY <2>4 DEF KeywordsPresent
  <2>. QED
    BY <2>1, <2>2, <2>3, <2>5, InternKeepsTable DEF IInv, TypeOK
<1>2. CASE UseString
  <2>1. PICK c \in Content : Intern(c)
    BY <1>2 DEF UseString
  <2>2. opened' = opened /\ opened \in Nat
    BY <1>2 DEF UseString, IInv, TypeOK
  <2>3. MarksSoFar'
    <3>1. CASE UNCHANGED heap
      BY <2>2, <3>1 DEF IInv, MarksSoFar
    <3>2. CASE Matches(c) = {} /\ heap' = Append(heap, [content |-> c, reserved |-> 0])
      <4>1. \A i \in DOMAIN Keywords : Keywords[i] = c => ~(i <= opened - NumTM)
        BY <3>2, SearchIsComplete DEF IInv, KeywordsPresent
      <4>. QED
        BY <2>2, <3>2, <4>1, NewUnmarked DEF IInv
    <3>. QED
      BY <2>1, <3>1, <3>2, InternKeepsTable
  <2>4. KeywordsPresent'
    <3>1. \A a \in Address : a \in Address' /\ heap'[a] = heap[a]
      <4>1. [content |-> c, reserved |-> 0] \in TString
        BY DEF TString
      <4>2. heap \in Seq(TString)
        BY DEF IInv, TypeOK
      <4>. QED
        BY <2>1, <4>1, <4>2, InternKeepsTable, StringsStay
    <3>. QED
      BY <2>2, <3>1 DEF IInv, KeywordsPresent
  <2>. QED
    BY <2>1, <2>2, <2>3, <2>4, InternKeepsTable DEF IInv, TypeOK
<1>3. CASE ReserveWord
  <2> DEFINE i == opened - NumTM + 1
             word == Keywords[i]
  <2>1. /\ opened \in Nat /\ i \in DOMAIN Keywords /\ i \in Nat \ {0}
        /\ opened' = opened + 1 /\ opened' \in 0 .. NumTM + Len(Keywords)
    BY <1>3 DEF ReserveWord, Opened, IInv, TypeOK
  <2>2. word \in Content /\ \A j \in DOMAIN Keywords : Keywords[j] = word <=> j = i
    BY <2>1, ContentAssumption
  <2>3. \A j \in DOMAIN Keywords : j <= opened' - NumTM <=> j <= opened - NumTM \/ j = i
    BY <2>1
  <2>4. ~(i <= opened - NumTM)
    BY <2>1
  <2>5. CASE Matches(word) = {}
    <3>1. NewStr(word, i)
      BY <1>3, <2>5 DEF ReserveWord, Mark
    <3> DEFINE r == [content |-> word, reserved |-> i]
    <3>2. heap' = Append(heap, r) /\ r \in TString
      BY <2>1, <2>2, <3>1 DEF NewStr, TString
    <3>3. /\ Len(heap') = Len(heap) + 1
          /\ \A a \in 1 .. Len(heap) : heap'[a] = heap[a] /\ a \in 1 .. Len(heap')
          /\ heap'[Len(heap) + 1] = r
          /\ \A a \in 1 .. Len(heap') : a \in 1 .. Len(heap) \/ a = Len(heap) + 1
      BY <3>2 DEF IInv, TypeOK
    <3>4. \A a \in 1 .. Len(heap) : heap[a].content # word
      BY <2>2, <2>5, SearchIsComplete DEF IInv
    <3>5. MarksSoFar'
      <4>1. ASSUME NEW a \in 1 .. Len(heap)
            PROVE  /\ heap'[a].reserved \in {0} \cup DOMAIN Keywords
                   /\ \A j \in DOMAIN Keywords :
                        heap'[a].reserved = j
                          <=> heap'[a].content = Keywords[j] /\ j <= opened' - NumTM
        BY <2>2, <2>3, <2>4, <3>3, <3>4 DEF IInv, MarksSoFar
      <4>2. /\ r.reserved \in {0} \cup DOMAIN Keywords
            /\ \A j \in DOMAIN Keywords :
                 r.reserved = j <=> r.content = Keywords[j] /\ j <= opened' - NumTM
        BY <2>1, <2>2, <2>3
      <4>. QED
        BY <3>3, <4>1, <4>2 DEF MarksSoFar
    <3>6. KeywordsPresent'
      <4>1. Len(heap) + 1 \in 1 .. Len(heap') /\ heap'[Len(heap) + 1].content = word
        BY <3>3 DEF IInv, TypeOK
      <4>. QED
        BY <2>3, <3>3, <4>1 DEF IInv, KeywordsPresent
    <3>. QED
      BY <2>1, <2>2, <2>5, <3>1, <3>5, <3>6, NewStrKeepsTable DEF IInv, TypeOK
  <2>6. CASE Matches(word) # {}
    <3>1. PICK a \in Matches(word) : heap' = [heap EXCEPT ![a].reserved = i]
      BY <1>3, <2>6 DEF ReserveWord, Mark
    <3>2. UNCHANGED <<chain, nrUse, size>>
      BY <1>3, <2>6 DEF ReserveWord
    <3>3. a \in 1 .. Len(heap) /\ heap[a].content = word
      BY <2>2, SearchIsComplete DEF IInv
    <3>4. /\ heap' \in Seq(TString) /\ Len(heap') = Len(heap)
          /\ \A b \in 1 .. Len(heap) : heap'[b].content = heap[b].content
          /\ \A b \in 1 .. Len(heap) : b # a => heap'[b] = heap[b]
          /\ heap'[a].reserved = i
      <4>1. heap \in Seq(TString) /\ heap[a] \in TString
        BY <3>3 DEF IInv, TypeOK
      <4>2. [heap[a] EXCEPT !.reserved = i] = [content |-> heap[a].content, reserved |-> i]
        BY <4>1 DEF TString
      <4>3. heap' = [heap EXCEPT ![a] = [content |-> heap[a].content, reserved |-> i]]
        BY <3>1, <4>2
      <4>4. [content |-> heap[a].content, reserved |-> i] \in TString
        BY <2>1, <4>1 DEF TString
      <4>. QED
        BY <3>3, <4>1, <4>3, <4>4
    <3>5. MarksSoFar'
      <4>1. ASSUME NEW b \in 1 .. Len(heap), b # a
            PROVE  /\ heap'[b].reserved \in {0} \cup DOMAIN Keywords
                   /\ \A j \in DOMAIN Keywords :
                        heap'[b].reserved = j
                          <=> heap'[b].content = Keywords[j] /\ j <= opened' - NumTM
        <5>1. heap[b].content # word
          BY <3>3, <4>1 DEF IInv, NoTwins
        <5>. QED
          BY <2>2, <2>3, <2>4, <3>4, <4>1, <5>1 DEF IInv, MarksSoFar
      <4>2. \A j \in DOMAIN Keywords :
              heap'[a].reserved = j <=> heap'[a].content = Keywords[j] /\ j <= opened' - NumTM
        BY <2>1, <2>2, <2>3, <3>3, <3>4
      <4>3. heap'[a].reserved \in {0} \cup DOMAIN Keywords
        BY <2>1, <3>3, <3>4
      <4>. QED
        BY <2>1, <3>3, <3>4, <4>1, <4>2, <4>3, SMTT(30) DEF MarksSoFar
    <3>6. KeywordsPresent'
      BY <2>1, <2>3, <3>3, <3>4 DEF IInv, KeywordsPresent
    <3>7. TypeOK'
      BY <2>1, <3>2, <3>4 DEF IInv, TypeOK
    <3>. QED
      BY <3>2, <3>4, <3>5, <3>6, <3>7 DEF IInv, ChainsStayShort, ChainsExact, NoTwins
  <2>. QED
    BY <2>5, <2>6
<1>4. CASE UNCHANGED vars
  <2>1. UNCHANGED <<heap, chain, nrUse, size, opened>>
    BY <1>4 DEF vars
  <2>2. TypeOK' /\ ChainsStayShort'
    BY <2>1 DEF IInv, TypeOK, ChainsStayShort
  <2>3. ChainsExact' /\ NoTwins'
    BY <2>1 DEF IInv, ChainsExact, NoTwins
  <2>4. MarksSoFar' /\ KeywordsPresent'
    BY <2>1 DEF IInv, MarksSoFar, KeywordsPresent
  <2>. QED
    BY <2>2, <2>3, <2>4 DEF IInv
<1>. QED
  BY <1>1, <1>2, <1>3, <1>4 DEF Next

\* The invariant holds in every reachable state.
THEOREM Invariance == Spec => []IInv
BY InitIInv, Inductive, PTL DEF Spec

\* The variables of the string table keep their types, its limits included.
THEOREM TypeCorrect == Spec => []TypeOK
BY Invariance, PTL DEF IInv

\* Chains have one string each on average until the table is as large as it
\* may get (tstring.go:103).
THEOREM TableGrows == Spec => []ChainsStayShort
BY Invariance, PTL DEF IInv

\* A TString is in the chain of its hash and in no other.
THEOREM ChainsHoldTheirHashes == Spec => []ChainsExact
BY Invariance, PTL DEF IInv

\* Equal strings are one TString: comparing addresses compares strings.
THEOREM StringsAreUnique == Spec => []NoTwins
BY Invariance, PTL DEF IInv

\* Exactly the keywords carry a mark, and each its own (llex.go:240).
THEOREM KeywordsAreKnown == Spec => []KeywordsMarked
<1>1. IInv => KeywordsMarked
  BY LengthsAreNat DEF IInv, MarksSoFar, KeywordsMarked, Opened, TypeOK
<1>. QED
  BY <1>1, Invariance, PTL
-----------------------------------------------------------------------------
(* The string table implements LuaInterning *)

WithContent(c) == { a \in Address : heap[a].content = c }

\* The address of a string, without the search for it.
AddressesByContent ==
  \A c \in Content : Addresses[c] = FirstOf(WithContent(c))

LEMMA AddressOfContent == IInv => AddressesByContent
<1>1. IInv => \A c \in Content : Matches(c) = WithContent(c)
  BY SearchIsComplete DEF IInv, WithContent
<1>. QED
  BY <1>1 DEF AddressesByContent, Addresses

LEMMA AddressOfContentNext == IInv' => AddressesByContent'
BY AddressOfContent, PTL

LEMMA AddressesIsFunction ==
  /\ Addresses = [c \in Content |-> Addresses[c]]
  /\ Addresses' = [c \in Content |-> Addresses'[c]]
BY DEF Addresses

\* A new string changes its own address only, from none to one of its own.
LEMMA NewStrInterns ==
  ASSUME IInv, IInv', NEW c \in Content, Matches(c) = {},
         NEW r \in TString, r.content = c, heap' = Append(heap, r)
  PROVE  Interning!Intern(c)
<1> DEFINE new == Len(heap) + 1
<1>1. /\ Len(heap') = new /\ new \in Nat \ {0}
      /\ \A a \in 1 .. Len(heap) : heap'[a] = heap[a] /\ a # new
      /\ heap'[new] = r
      /\ \A a \in 1 .. new : a \in 1 .. Len(heap) \/ a = new
      /\ \A a \in 1 .. Len(heap) : a \in 1 .. new
      /\ new \in 1 .. new
  BY DEF IInv, TypeOK
<1>2. WithContent(c) = {} /\ WithContent(c)' = {new}
  <2>1. WithContent(c) = {}
    BY SearchIsComplete DEF WithContent, IInv
  <2>. QED
    BY <1>1, <2>1 DEF WithContent
<1>3. ASSUME NEW d \in Content, d # c
      PROVE  WithContent(d)' = WithContent(d)
  BY <1>1, <1>3 DEF WithContent
<1>4. \A d \in Content : Addresses[d] # new
  <2>1. ASSUME NEW d \in Content, WithContent(d) # {}
        PROVE  FirstOf(WithContent(d)) \in 1 .. Len(heap)
    BY <2>1 DEF WithContent, FirstOf
  <2>. QED
    BY <1>1, <2>1, AddressOfContent DEF AddressesByContent, FirstOf
<1>5. Addresses[c] = 0 /\ Addresses'[c] = new
  BY <1>2, AddressOfContent, AddressOfContentNext DEF AddressesByContent, FirstOf
<1>6. Addresses' = [Addresses EXCEPT ![c] = new]
  <2>1. ASSUME NEW d \in Content, d # c
        PROVE  Addresses'[d] = Addresses[d]
    BY <1>3, <2>1, AddressOfContent, AddressOfContentNext DEF AddressesByContent
  <2>. QED
    BY <1>5, <2>1, AddressesIsFunction
<1>. QED
  BY <1>1, <1>4, <1>5, <1>6 DEF Interning!Intern

\* Nothing that keeps the contents of the TStrings changes an address.
LEMMA SameContentsSameAddresses ==
  ASSUME IInv, IInv', Len(heap') = Len(heap),
         \A a \in Address : heap'[a].content = heap[a].content
  PROVE  Addresses' = Addresses
<1>1. \A c \in Content : WithContent(c)' = WithContent(c)
  BY DEF WithContent
<1>2. \A c \in Content : Addresses'[c] = Addresses[c]
  BY <1>1, AddressOfContent, AddressOfContentNext DEF AddressesByContent
<1>. QED
  BY <1>2, AddressesIsFunction

LEMMA InternRefines ==
  ASSUME IInv, IInv', NEW c \in Content, Intern(c)
  PROVE  Interning!Intern(c) \/ Addresses' = Addresses
<1>1. CASE UNCHANGED heap
  BY <1>1, SameContentsSameAddresses
<1>2. CASE Matches(c) = {} /\ heap' = Append(heap, [content |-> c, reserved |-> 0])
  <2>1. [content |-> c, reserved |-> 0] \in TString
    BY DEF TString
  <2>. QED
    BY <1>2, <2>1, NewStrInterns
<1>. QED
  BY <1>1, <1>2, InternKeepsTable

LEMMA StepRefines ==
  ASSUME IInv, IInv', [Next]_vars
  PROVE  Interning!Next \/ Addresses' = Addresses
<1>. USE LengthsAreNat
<1>1. CASE InternTagMethod
  <2>1. opened + 1 \in 1 .. Len(TagMethods)
    BY <1>1 DEF InternTagMethod, NumTM, IInv, TypeOK
  <2>2. PICK c \in Content : Intern(c)
    BY <1>1, <2>1, ContentAssumption DEF InternTagMethod
  <2>. QED
    BY <2>2, InternRefines DEF Interning!Next
<1>2. CASE UseString
  BY <1>2, InternRefines DEF UseString, Interning!Next
<1>3. CASE ReserveWord
  <2> DEFINE i == opened - NumTM + 1
             word == Keywords[i]
  <2>1. i \in DOMAIN Keywords /\ i \in Nat
    BY <1>3, SMTT(20) DEF ReserveWord, Opened, IInv, TypeOK
  <2>2. word \in Content
    BY <2>1
  <2>3. CASE Matches(word) = {}
    <3>1. heap' = Append(heap, [content |-> word, reserved |-> i])
      BY <1>3, <2>3 DEF ReserveWord, NewStr, Mark
    <3>2. [content |-> word, reserved |-> i] \in TString
      BY <2>1, <2>2 DEF TString
    <3>. QED
      BY <2>2, <2>3, <3>1, <3>2, NewStrInterns DEF Interning!Next
  <2>4. CASE Matches(word) # {}
    <3>1. PICK a \in Matches(word) : heap' = [heap EXCEPT ![a].reserved = i]
      BY <1>3, <2>4 DEF ReserveWord, Mark
    <3>2. a \in 1 .. Len(heap) /\ heap \in Seq(TString) /\ heap[a] \in TString
      BY <2>2, SearchIsComplete DEF IInv, TypeOK
    <3>3. Len(heap') = Len(heap) /\ \A b \in 1 .. Len(heap) : heap'[b].content = heap[b].content
      BY <3>1, <3>2 DEF TString
    <3>. QED
      BY <3>3, SameContentsSameAddresses
  <2>. QED
    BY <2>3, <2>4
<1>4. CASE UNCHANGED vars
  BY <1>4, SameContentsSameAddresses DEF vars
<1>. QED
  BY <1>1, <1>2, <1>3, <1>4 DEF Next

LEMMA InitRefines == Init => Interning!Init
<1>. SUFFICES ASSUME Init PROVE Interning!Init
  OBVIOUS
<1>1. IInv
  BY InitIInv
<1>2. \A c \in Content : WithContent(c) = {}
  BY DEF Init, WithContent
<1>. QED
  BY <1>1, <1>2, AddressOfContent, AddressesIsFunction DEF Interning!Init, AddressesByContent,
     FirstOf

\* A search finds every string at the address it was first given, whatever was
\* interned and however often the table was resized in between.
THEOREM TableImplementsInterning == Spec => ImplementsInterning
<1>1. Init => Interning!Init
  BY InitRefines
<1>2. IInv /\ IInv' /\ [Next]_vars => [Interning!Next]_Addresses
  BY StepRefines
<1>. QED
  BY <1>1, <1>2, Invariance, PTL DEF Spec, ImplementsInterning, Interning!Spec
=============================================================================
