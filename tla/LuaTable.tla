------------------------------ MODULE LuaTable ------------------------------
(***************************************************************************)
(* The table of lua/ltable.go: an array part for the keys 1..sizeArray and *)
(* a hash part of 2^lSizeNode nodes, chained scatter with Brent's          *)
(* variation.  A colliding node that is not in its main position is moved  *)
(* away; otherwise the new key goes to a free node, found by a cursor      *)
(* (lastFree) that only moves down.  When no free node is left the table   *)
(* is rehashed: both parts get new sizes and every live entry is inserted  *)
(* again, one per step of this specification, then the key whose insertion *)
(* started it (extra).                                                     *)
(*                                                                         *)
(* Pointers to nodes are indices into node; a value slot the code returns  *)
(* (pointer to TValue) is written by the caller at once (SetObj after Set), so each  *)
(* action here is the Set together with that assignment.                   *)
(***************************************************************************)
EXTENDS Integers, Sequences, FiniteSets

CONSTANTS
  IntKeys,     \* the keys for which arrayIndex(key) is the key itself
  OtherKeys,   \* strings, booleans, pointers, numbers with a fraction
  Val, Nil,
  Hash,        \* Float64bits, TString.Hash or the address of each key
  Pow2Hashed,  \* the keys hashed by HashPow2: strings and booleans
  MAXBITS,     \* ltable.go: 26
  InitArray,   \* the array sizes OP_NEWTABLE and OP_SETLIST ask for
  InitHash     \* the hash sizes OP_NEWTABLE asks for

Keys == IntKeys \cup OtherKeys
MaybeVal == Val \cup {Nil}
MAXASIZE == 2^MAXBITS

ASSUME KeyAssumption ==
  /\ IntKeys \subseteq Int
  /\ \A k \in OtherKeys : k \notin Int
  /\ Nil \notin Val /\ Nil \notin Keys
  /\ Hash \in [Keys -> Nat]
ASSUME SizeAssumption ==
  /\ MAXBITS \in Nat \ {0}
  /\ MAXASIZE \in Nat
  /\ InitArray \subseteq Nat
  /\ InitHash \subseteq Nat

VARIABLES
  array,     \* the array part; sizeArray is its length
  node,      \* the hash part: key, val and next of every node
  sizeNode,  \* SizeNode(), 2^lSizeNode
  dummy,     \* node is the shared DummyNodes vector
  lastFree,
  pending,   \* entries resize still has to re-insert, in its order
  extra,     \* the key and value whose insertion needed the rehash
  crashed    \* an operation has ended in a Go run-time panic

vars == <<array, node, sizeNode, dummy, lastFree, pending, extra, crashed>>

NoNode == -1
NoExtra == [key |-> Nil, val |-> Nil]
FreeNode == [key |-> Nil, val |-> Nil, next |-> NoNode]
Nodes == 0 .. sizeNode - 1
Idle == pending = <<>> /\ extra = NoExtra
-----------------------------------------------------------------------------
(* Lookup *)

\* HashPow2 is the remainder by the size, HashMod by (size - 1) | 1, which
\* is 1 for the sizes 1 and 2.  HashNum sends 0 and -0 to node 0.
MainNode(size, k) ==
  IF k \in Pow2Hashed \/ size = 1 THEN Hash[k] % size
  ELSE Hash[k] % (size - 1)
MainPosition(k) == MainNode(sizeNode, k)

\* A walk along next that starts in node i of t comes by j: from every set of
\* nodes that holds i and not j, a link leads out.
Reaches(t, i, j) ==
  \A S \in SUBSET (DOMAIN t \ {j}) :
    i \in S => \E s \in S : t[s].next # NoNode /\ t[s].next \notin S
ChainIn(t, i) == { j \in DOMAIN t : Reaches(t, i, j) }
Chain(i) == ChainIn(node, i)

InArray(k) == k \in IntKeys /\ k \in 1 .. Len(array)

\* Broken: looks at the main position only.
FoundAtMainOnly(k) == { i \in {MainPosition(k)} : node[i].key = k }

\* GetNum, GetByString and the default case of Get: the node with the key
\* in the chain of its main position (none, or one).
Found(k) ==
  { i \in DOMAIN node : node[i].key = k /\ Reaches(node, MainPosition(k), i) }

Get(k) ==
  IF InArray(k) THEN array[k]
  ELSE IF Found(k) # {} THEN node[CHOOSE i \in Found(k) : TRUE].val
  ELSE Nil
-----------------------------------------------------------------------------
(* Insertion of a key that has no slot: newKey followed by the assignment *)

\* Broken: takes the lowest free node.
IsLowestFreePos(n) ==
  /\ n < lastFree
  /\ node[n].key = Nil
  /\ \A m \in Nodes : m < n => node[m].key # Nil

\* getFreePos returns the highest node with a nil key below lastFree.
IsFreePos(n) ==
  /\ n < lastFree
  /\ node[n].key = Nil
  /\ \A m \in Nodes : n < m /\ m < lastFree => node[m].key # Nil

NoFreePos == \A n \in Nodes : n < lastFree => node[n].key # Nil

MainTaken(k) == dummy \/ node[MainPosition(k)].val # Nil

\* The main position has no value: the key goes there, even into a chain.
PutInMain(k, v) ==
  /\ ~MainTaken(k)
  /\ node' = [node EXCEPT ![MainPosition(k)] =
                            [key |-> k, val |-> v, next |-> @.next]]
  /\ UNCHANGED lastFree

\* Broken: without mp.SetNext(nil), "now `mp' is free".
MoveCollidingKeepsNext(k, v) ==
  LET mp == MainPosition(k)
      on == MainPosition(node[mp].key)
  IN /\ MainTaken(k) /\ ~NoFreePos
     /\ on # mp
     /\ \E n \in Nodes, p \in Chain(on) :
          /\ IsFreePos(n)
          /\ node[p].next = mp
          /\ node' = [node EXCEPT ![p].next = n,
                                  ![n] = node[mp],
                                  ![mp] = [key |-> k, val |-> v, next |-> @.next]]
          /\ lastFree' = n

\* The main position holds a key of another chain: that node moves to the
\* free position n, its predecessor p is redirected, and the key takes over.
MoveColliding(k, v) ==
  LET mp == MainPosition(k)
      on == MainPosition(node[mp].key)
  IN /\ MainTaken(k) /\ ~NoFreePos
     /\ on # mp
     /\ \E n \in Nodes, p \in Chain(on) :
          /\ IsFreePos(n)
          /\ node[p].next = mp
          /\ node' = [node EXCEPT ![p].next = n,
                                  ![n] = node[mp],
                                  ![mp] = [key |-> k, val |-> v, next |-> NoNode]]
          /\ lastFree' = n

\* Broken: the rest of the chain is lost.
ChainAfterCutsChain(k, v) ==
  LET mp == MainPosition(k)
  IN /\ MainTaken(k) /\ ~NoFreePos
     /\ MainPosition(node[mp].key) = mp
     /\ \E n \in Nodes :
          /\ IsFreePos(n)
          /\ node' = [node EXCEPT ![n] = [key |-> k, val |-> v, next |-> NoNode],
                                  ![mp].next = n]
          /\ lastFree' = n

\* Broken: mp.SetNext(n) before n.SetNext(mp.Next()).
ChainAfterSwapped(k, v) ==
  LET mp == MainPosition(k)
  IN /\ MainTaken(k) /\ ~NoFreePos
     /\ MainPosition(node[mp].key) = mp
     /\ \E n \in Nodes :
          /\ IsFreePos(n)
          /\ node' = [node EXCEPT ![n] = [key |-> k, val |-> v, next |-> n],
                                  ![mp].next = n]
          /\ lastFree' = n

\* The main position holds a key of this chain: the new key goes to the free
\* position, linked right after it.
ChainAfter(k, v) ==
  LET mp == MainPosition(k)
  IN /\ MainTaken(k) /\ ~NoFreePos
     /\ MainPosition(node[mp].key) = mp
     /\ \E n \in Nodes :
          /\ IsFreePos(n)
          /\ node' = [node EXCEPT
                        ![n] = [key |-> k, val |-> v, next |-> node[mp].next],
                        ![mp].next = n]
          /\ lastFree' = n

\* Set (SetByNum, SetByStr) and the assignment, when there is room.
Store(k, v) ==
  /\ \/ /\ InArray(k)
        /\ array' = [array EXCEPT ![k] = v]
        /\ UNCHANGED <<node, lastFree>>
     \/ /\ ~InArray(k)
        /\ \E i \in Found(k) : node' = [node EXCEPT ![i].val = v]
        /\ UNCHANGED <<array, lastFree>>
     \/ /\ ~InArray(k)
        /\ Found(k) = {}
        /\ PutInMain(k, v) \/ MoveColliding(k, v) \/ ChainAfter(k, v)
        /\ UNCHANGED array
  /\ UNCHANGED <<sizeNode, dummy, crashed>>
-----------------------------------------------------------------------------
(* Rehash *)

Live(k) == \/ InArray(k) /\ array[k] # Nil
           \/ \E i \in Nodes : node[i].key = k /\ node[i].val # Nil

\* countInt: the integer keys that may live in the array part, with ek.
Candidates(ek) ==
  { k \in IntKeys : k \in 1 .. MAXASIZE /\ (k = ek \/ Live(k)) }

\* rehash gives nums MAXBITS counters, but a key above 2^(MAXBITS-1), or an
\* array part that reaches there, counts in nums[MAXBITS]: index out of range.
NumsOverflow(ek) ==
  \/ 2 * Len(array) > MAXASIZE
  \/ \E k \in Candidates(ek) : 2 * k > MAXASIZE

IsPow2(n) == \E i \in 0 .. n - 1 : n = 2^i

\* computeSizes: the sizes with keys in their upper half and more than half
\* of their slots in use; the largest one wins.
ArraySizes(c) ==
  {0} \cup { n \in 1 .. MAXASIZE :
               /\ IsPow2(n)
               /\ \E k \in c : n < 2 * k /\ k <= n
               /\ n < 2 * Cardinality({ k \in c : k <= n }) }

LiveNodes == { i \in Nodes : node[i].val # Nil }

\* Broken: does not count the key being inserted.
TotalUseWithoutExtra ==
  Cardinality({ i \in 1 .. Len(array) : array[i] # Nil }) + Cardinality(LiveNodes)

\* totaluse: every live key of both parts, and the extra key.
TotalUse == Cardinality({ i \in 1 .. Len(array) : array[i] # Nil })
              + Cardinality(LiveNodes) + 1

\* Broken: lastFree starts one past the end of the vector.
SetNodeVectorPastEnd(nh) ==
  /\ \/ /\ nh = 0
        /\ dummy' = TRUE /\ sizeNode' = 1 /\ lastFree' = 0
     \/ \E n \in nh .. 2 * nh - 1 :
          /\ IsPow2(n)
          /\ dummy' = FALSE /\ sizeNode' = n /\ lastFree' = n + 1
  /\ node' = [i \in 0 .. sizeNode' - 1 |-> FreeNode]

\* setNodeVector: the least power of two that is at least nh, all nodes free;
\* with nh = 0 the shared dummy node, lastFree = 0.
SetNodeVector(nh) ==
  /\ \/ /\ nh = 0
        /\ dummy' = TRUE /\ sizeNode' = 1 /\ lastFree' = 0
     \/ \E n \in nh .. 2 * nh - 1 :
          /\ IsPow2(n)
          /\ dummy' = FALSE /\ sizeNode' = n /\ lastFree' = n
  /\ node' = [i \in 0 .. sizeNode' - 1 |-> FreeNode]

\* Broken: leaves the last element behind.
SliceTooShort(na) ==
  IF na < Len(array)
  THEN [i \in 1 .. Len(array) - na - 1 |-> [key |-> na + i, val |-> array[na + i]]]
  ELSE <<>>

\* The elements of the vanishing slice of the array part, upwards.
Slice(na) ==
  IF na < Len(array)
  THEN [i \in 1 .. Len(array) - na |-> [key |-> na + i, val |-> array[na + i]]]
  ELSE <<>>

\* The nodes of the old hash part, downwards.
OldNodes == [i \in 1 .. sizeNode |-> [key |-> node[sizeNode - i].key,
                                      val |-> node[sizeNode - i].val]]

\* resize up to its two loops.
Resize(na, nh) ==
  /\ array' = [i \in 1 .. na |-> IF i <= Len(array) THEN array[i] ELSE Nil]
  /\ SetNodeVector(nh)
  /\ pending' = Slice(na) \o OldNodes
  /\ UNCHANGED crashed

\* rehash, called by newKey when getFreePos has failed and left lastFree at 0.
\* A run-time panic unwinds to the next PCall (ldo.go, dRawRunProtected) and
\* leaves the table as it was.
Rehash(k, v) ==
  \/ /\ NumsOverflow(k)
     /\ crashed' = TRUE
     /\ lastFree' = 0
     /\ UNCHANGED <<array, node, sizeNode, dummy, pending, extra>>
  \/ /\ ~NumsOverflow(k)
     /\ \E na \in ArraySizes(Candidates(k)) :
          /\ \A n \in ArraySizes(Candidates(k)) : n <= na
          /\ Resize(na, TotalUse - Cardinality({ c \in Candidates(k) : c <= na }))
     /\ extra' = [key |-> k, val |-> v]
-----------------------------------------------------------------------------
(* The operations *)

\* t[k] = v by OP_SETTABLE, RawSet or SetField: Set, then the assignment.
SetKey(k, v) ==
  /\ Idle
  /\ \/ Store(k, v) /\ UNCHANGED <<pending, extra>>
     \/ /\ ~InArray(k) /\ Found(k) = {}
        /\ MainTaken(k) /\ NoFreePos
        /\ Rehash(k, v)

\* One iteration of the re-insertion loops of resize; nil entries are skipped.
Reinsert ==
  /\ pending # <<>>
  /\ \/ /\ Head(pending).val = Nil
        /\ UNCHANGED <<array, node, sizeNode, dummy, lastFree, crashed>>
     \/ /\ Head(pending).val # Nil
        /\ Store(Head(pending).key, Head(pending).val)
  /\ pending' = Tail(pending)
  /\ UNCHANGED extra

\* newKey after rehash: "re-insert key into grown table".
ReinsertKey ==
  /\ pending = <<>>
  /\ extra # NoExtra
  /\ Store(extra.key, extra.val)
  /\ extra' = NoExtra
  /\ UNCHANGED pending

\* OP_SETLIST preallocates the array part; it never shrinks it.
ResizeArray(na) ==
  /\ Idle
  /\ na > Len(array)
  /\ Resize(na, IF dummy THEN 0 ELSE sizeNode)
  /\ UNCHANGED extra

\* hNew, for OP_NEWTABLE.
Init ==
  /\ \E na \in InitArray : array = [i \in 1 .. na |-> Nil]
  /\ \E nh \in InitHash :
       \/ nh = 0 /\ dummy = TRUE /\ sizeNode = 1 /\ lastFree = 0
       \/ \E n \in nh .. 2 * nh - 1 :
            IsPow2(n) /\ dummy = FALSE /\ sizeNode = n /\ lastFree = n
  /\ node = [i \in 0 .. sizeNode - 1 |-> FreeNode]
  /\ pending = <<>>
  /\ extra = NoExtra
  /\ crashed = FALSE

Next ==
  \/ \E k \in Keys, v \in MaybeVal : SetKey(k, v)
  \/ \E na \in InitArray : ResizeArray(na)
  \/ Reinsert
  \/ ReinsertKey

Spec == Init /\ [][Next]_vars
-----------------------------------------------------------------------------
(* Properties *)

Entry == [key : Keys \cup Nat \cup {Nil}, val : MaybeVal]
NodeRec == [key : Keys \cup {Nil}, val : MaybeVal, next : Nodes \cup {NoNode}]

\* The types of the variables.  Only keys of Keys hold a value, so the slots
\* of the array part beyond IntKeys stay nil.
TypeOK ==
  /\ array \in Seq(MaybeVal)
  /\ sizeNode \in Nat \ {0}
  /\ node \in [Nodes -> NodeRec]
  /\ dummy \in BOOLEAN
  /\ lastFree \in 0 .. sizeNode
  /\ \A i \in 1 .. Len(array) : array[i] # Nil => i \in IntKeys
  /\ pending \in Seq(Entry)
  /\ \A i \in 1 .. Len(pending) : pending[i].val # Nil => pending[i].key \in Keys
  /\ extra \in [key : Keys \cup {Nil}, val : MaybeVal]
  /\ crashed \in BOOLEAN

\* ltable.go:57, "any free position is before this position": the cursor of
\* getFreePos never passes a node that is still free.
FreeBeforeLastFree ==
  ~dummy => \A i \in Nodes : node[i].key = Nil => i < lastFree

\* The dummy node is one shared node that nothing is ever put into.
DummyStaysEmpty == dummy => sizeNode = 1 /\ lastFree = 0 /\ node = [i \in 0 .. 0 |-> FreeNode]

\* A node without a key holds no value and is in no chain, so that getFreePos
\* may hand it out and newKey may overwrite its next.
FreeNodesUnlinked ==
  \A i \in Nodes : node[i].key = Nil =>
     /\ node[i].val = Nil
     /\ node[i].next = NoNode
     /\ \A j \in Nodes : node[j].next # i

\* No node has two predecessors: chains may share no tail, or moving a
\* colliding node (newKey redirects one predecessor) would leave another
\* chain with a pointer to a node that now holds a different key.
OnePredecessor ==
  \A i, j \in Nodes :
    node[i].next = node[j].next /\ node[i].next # NoNode => i = j

\* The node that is the main position of a stored key is itself in use.
MainInUse ==
  \A i \in Nodes : node[i].key # Nil => node[MainPosition(node[i].key)].key # Nil

\* Every walk along next ends, so a lookup of an absent key returns.
Acyclic ==
  \A S \in SUBSET Nodes :
    S # {} => \E i \in S : node[i].next \notin S

\* A node that holds a key of another chain stands in no key's way: no key
\* with that main position is in the table.  newKey relies on it when it cuts
\* such a node out of its place (mp.SetNext(nil)).
StrangerHasNoFollowers ==
  \A i, j \in Nodes :
    /\ node[i].key # Nil /\ MainPosition(node[i].key) # i
    /\ node[j].key # Nil
    => MainPosition(node[j].key) # i

\* Every key of the hash part, cleared ones included, is found by the walk
\* from its main position; newKey's search for the predecessor of a colliding
\* node follows that walk too and would run off the chain otherwise.
KeysReachable ==
  \A i \in Nodes : node[i].key # Nil => i \in Chain(MainPosition(node[i].key))

\* A key has one slot: no two nodes hold it, and no node holds a key of the
\* array part (GetNum would never look at that node).
OneSlotPerKey ==
  /\ \A i, j \in Nodes : node[i].key = node[j].key /\ node[i].key # Nil => i = j
  /\ \A i \in Nodes : ~InArray(node[i].key)

\* While resize re-inserts, the new hash part has a free node for every entry
\* still to come: getFreePos does not fail and rehash is not entered again.
RoomForPending ==
  LET coming == { i \in 1 .. Len(pending) :
                    pending[i].val # Nil /\ ~InArray(pending[i].key) }
      needed == Cardinality(coming)
                  + (IF extra # NoExtra /\ ~InArray(extra.key) THEN 1 ELSE 0)
  IN pending # <<>> \/ extra # NoExtra =>
       needed <= Cardinality({ i \in Nodes : node[i].key = Nil /\ ~dummy })
-----------------------------------------------------------------------------
(* The table implements the map.  While a rehash is under way the entries  *)
(* that still wait count as present.                                       *)

Waiting(k) ==
  { pending[i].val : i \in { j \in 1 .. Len(pending) : pending[j].key = k } } \ {Nil}

Contents ==
  [k \in Keys |-> IF Waiting(k) # {} THEN CHOOSE v \in Waiting(k) : TRUE
                  ELSE IF extra.key = k THEN extra.val
                  ELSE Get(k)]

Map == INSTANCE LuaMap WITH map <- Contents

\* Every step of the table is an assignment to one key of the map, or none:
\* collisions, moved nodes and rehashes are invisible, and no key is lost,
\* doubled or left with an old value.
ImplementsMap == Map!Spec
=============================================================================
