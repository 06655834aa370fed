----------------------------- MODULE LuaStrings -----------------------------
(***************************************************************************)
(* The string table (lua/tstring.go): every string that enters the program *)
(* is interned, so that tables and the interpreter compare addresses.      *)
(*                                                                         *)
(* An address is the number of the TString, in the order of allocation;    *)
(* a chain is the set of its members, for their order decides only how     *)
(* long a search takes.  Nothing is ever collected (lua/lgc.go).           *)
(***************************************************************************)
EXTENDS Naturals, Sequences

CONSTANTS
  Content,        \* what strings can contain
  Hash,           \* the hash of each (the loop of sNewStr)
  TagMethods,     \* the event names that tInit interns before anything else
  Keywords,       \* luaXTokens, the reserved words in their order
  MINSTRTABSIZE,  \* initial number of chains
  MAX_INT

IsPow2(n) == \E e \in 0 .. n : n = 2^e

ASSUME ContentAssumption ==
  /\ Hash \in [Content -> Nat]
  /\ TagMethods \in Seq(Content) /\ Keywords \in Seq(Content)
  /\ \A i, j \in DOMAIN Keywords : Keywords[i] = Keywords[j] => i = j
ASSUME SizeAssumption ==
  /\ MINSTRTABSIZE \in Nat \ {0} /\ IsPow2(MINSTRTABSIZE)
  /\ MAX_INT \in Nat

VARIABLES
  heap,   \* the TStrings: content and the Reserved mark
  chain,  \* StringTable.Hash
  nrUse,  \* NrUse
  size,   \* Size
  opened  \* how many strings f_luaopen has interned so far

vars == <<heap, chain, nrUse, size, opened>>

Address == 1 .. Len(heap)

\* LMod: s & (size - 1), for a size that is a power of two.
LMod(h, n) == h % n

\* Broken: searches the chain of a table of twice the size.
MatchesLate(c) ==
  { a \in chain[LMod(Hash[c], 2 * size) % size] :
      heap[a].content = c /\ LMod(Hash[c], 2 * size) < size }

\* The members of c's chain with the content c.
Matches(c) == { a \in chain[LMod(Hash[c], size)] : heap[a].content = c }
-----------------------------------------------------------------------------
(* sResize and newStr *)

\* Broken: every chain stays where it was.
RehashedInPlace(h, s, n) == [b \in 0 .. n - 1 |-> IF b \in DOMAIN s THEN s[b] ELSE {}]

\* Broken: the new chains are as many as the old ones.
RehashedNoRoom(h, s, n) ==
  [b \in DOMAIN s |-> { a \in UNION { s[i] : i \in DOMAIN s } :
                          LMod(Hash[h[a].content], n) = b }]

\* Broken: forgets the last of the old chains.
RehashedShort(h, s, n) ==
  [b \in 0 .. n - 1 |-> { a \in UNION { s[i] : i \in 0 .. (n \div 2) - 2 } :
                            LMod(Hash[h[a].content], n) = b }]

\* n new chains for the members of the chains s.
Rehashed(h, s, n) ==
  [b \in 0 .. n - 1 |-> { a \in UNION { s[i] : i \in DOMAIN s } :
                            LMod(Hash[h[a].content], n) = b }]

Crowded(used) == used > size /\ size <= MAX_INT \div 2

NewStr(c, mark) ==
  LET a == Len(heap) + 1
      h == Append(heap, [content |-> c, reserved |-> mark])
      s == [chain EXCEPT ![LMod(Hash[c], size)] = @ \cup {a}]
  IN /\ heap' = h
     /\ nrUse' = nrUse + 1
     /\ IF Crowded(nrUse + 1)
        THEN size' = 2 * size /\ chain' = Rehashed(h, s, 2 * size)
        ELSE size' = size /\ chain' = s

\* sNewStr.
Intern(c) ==
  IF Matches(c) # {} THEN UNCHANGED <<heap, chain, nrUse, size>> ELSE NewStr(c, 0)
-----------------------------------------------------------------------------
(* f_luaopen: tInit, then xInit, then the rest of the program. *)

NumTM == Len(TagMethods)
Opened == opened = NumTM + Len(Keywords)

InternTagMethod ==
  /\ opened < NumTM
  /\ Intern(TagMethods[opened + 1])
  /\ opened' = opened + 1

\* Broken: the first keyword gets the mark 0 of ordinary strings.
MarkFromZero(i) == i - 1

\* The mark of the i-th keyword (i + 1 in the code, which counts from 0).
Mark(i) == i

\* xInit marks the TString it has interned.
ReserveWord ==
  /\ opened >= NumTM /\ ~Opened
  /\ LET i == opened - NumTM + 1
         word == Keywords[i]
     IN IF Matches(word) = {} THEN NewStr(word, Mark(i))
        ELSE /\ \E a \in Matches(word) : heap' = [heap EXCEPT ![a].reserved = Mark(i)]
             /\ UNCHANGED <<chain, nrUse, size>>
  /\ opened' = opened + 1

\* The lexer, the API and concatenation make strings of any content.
UseString ==
  /\ Opened
  /\ \E c \in Content : Intern(c)
  /\ UNCHANGED opened

\* After sResize(MINSTRTABSIZE).
Init ==
  /\ heap = <<>>
  /\ size = MINSTRTABSIZE
  /\ chain = [b \in 0 .. MINSTRTABSIZE - 1 |-> {}]
  /\ nrUse = 0
  /\ opened = 0

Next == InternTagMethod \/ ReserveWord \/ UseString

Spec == Init /\ [][Next]_vars
-----------------------------------------------------------------------------
(* Properties *)

TString == [content : Content, reserved : Nat]

TypeOK ==
  /\ heap \in Seq(TString)
  /\ size \in Nat \ {0}
  /\ chain \in [0 .. size - 1 -> SUBSET Address]
  /\ nrUse \in Nat
  /\ opened \in 0 .. NumTM + Len(Keywords)

\* tstring.go:103: the table is never fuller than one string per chain until
\* it is as large as it may get, and NrUse is the number of strings in it.
ChainsStayShort ==
  /\ nrUse = Len(heap)
  /\ nrUse <= size \/ size > MAX_INT \div 2

\* Every TString is in the chain its hash selects for the present size, and
\* in no other, whenever in the growth of the table it was created.
ChainsExact ==
  \A b \in 0 .. size - 1 : chain[b] = { a \in Address : LMod(Hash[heap[a].content], size) = b }

\* No two TStrings are equal: raw equality of strings (value.go, lvm.go) and
\* the keys of tables compare addresses.
NoTwins == \A a1, a2 \in Address : heap[a1].content = heap[a2].content => a1 = a2

\* llex.go:240 takes a name for a keyword if its TString is marked: once xInit
\* has run, the strings that spell keywords carry their marks, in the order
\* of the token numbers, and no other string carries one.
KeywordsMarked ==
  Opened => \A a \in Address :
              /\ \A i \in DOMAIN Keywords : heap[a].reserved = i <=> heap[a].content = Keywords[i]
              /\ heap[a].reserved \in {0} \cup DOMAIN Keywords

(* Strings at the addresses at which a search finds them. *)
FirstOf(S) == IF S = {} THEN 0 ELSE CHOOSE a \in S : TRUE
Addresses == [c \in Content |-> FirstOf(Matches(c))]

Interning == INSTANCE LuaInterning WITH address <- Addresses, Nowhere <- 0

\* Whatever is interned between, and however often the table is resized, a
\* string is found at the address it was first given.
ImplementsInterning == Interning!Spec
=============================================================================
