--------------------------- MODULE LuaTable_proofs ---------------------------
(***************************************************************************)
(* Proofs about LuaTable, for every set of keys, every hash function and   *)
(* every size: the structure of the nodes, and what users see of a table.  *)
(* A rehash finds room for every entry it moves, the table implements      *)
(* LuaMap, its length is a boundary, and a traversal by LuaNext returns    *)
(* what it should while the loop writes to the fields that exist.          *)
(***************************************************************************)
EXTENDS LuaTableLen, LuaTableNext, SequenceTheorems, FiniteSetTheorems, TLAPS

\* The strengthening of the invariants that is inductive.
NodesOK ==
  /\ FreeBeforeLastFree
  /\ DummyStaysEmpty
  /\ FreeNodesUnlinked
  /\ OnePredecessor
  /\ Acyclic
  /\ MainInUse
  /\ StrangerHasNoFollowers
  /\ KeysReachable
  /\ OneSlotPerKey

ExtraIsKey == extra # NoExtra => extra.key \in Keys

IInv == TypeOK /\ ExtraIsKey /\ NodesOK

-----------------------------------------------------------------------------
(* Main positions and chains *)

\* HashPow2 and HashMod never leave the node vector.
LEMMA MainNodeInRange ==
  ASSUME NEW size \in Nat \ {0}, NEW k \in Keys
  PROVE  MainNode(size, k) \in 0 .. size - 1
<1>1. Hash[k] \in Nat
  BY KeyAssumption
<1>2. \A m \in Nat \ {0} : Hash[k] % m \in 0 .. m - 1
  BY <1>1
<1>. QED
  BY <1>2 DEF MainNode

Closed(t, S) == \A s \in S : t[s].next # NoNode => t[s].next \in S

\* What it means to be in a chain, as a rule to use and a rule to prove.
LEMMA ChainUse ==
  ASSUME NEW t, NEW i, NEW j \in ChainIn(t, i),
         NEW S \in SUBSET DOMAIN t, i \in S, Closed(t, S)
  PROVE  j \in S
BY DEF ChainIn, Reaches, Closed

LEMMA ChainIntro ==
  ASSUME NEW t, NEW i, NEW j \in DOMAIN t,
         \A S \in SUBSET DOMAIN t : i \in S /\ Closed(t, S) => j \in S
  PROVE  j \in ChainIn(t, i)
BY DEF ChainIn, Reaches, Closed

\* A node is the first of its own chain.
LEMMA ChainStart ==
  ASSUME NEW t, NEW i \in DOMAIN t
  PROVE  i \in ChainIn(t, i)
BY DEF ChainIn, Reaches

\* Chains depend on the links only.
LEMMA SameLinksSameChains ==
  ASSUME NEW t, NEW u, NEW D, DOMAIN t = D, DOMAIN u = D,
         \A s \in D : t[s].next = u[s].next
  PROVE  \A h : ChainIn(t, h) = ChainIn(u, h)
BY DEF ChainIn, Reaches
-----------------------------------------------------------------------------
(* newKey keeps the node structure *)

\* A key that Found does not find is in no node.
LEMMA NotFoundIsFresh ==
  ASSUME KeysReachable, NEW k \in Keys, Found(k) = {}, Nil \notin Keys
  PROVE  \A i \in Nodes : node[i].key # k
BY DEF KeysReachable, Found, Chain, ChainIn

\* The main position of a stored key is a node.
LEMMA MainOfStored ==
  ASSUME TypeOK
  PROVE  \A i \in Nodes : node[i].key # Nil => MainNode(sizeNode, node[i].key) \in Nodes
<1>. SUFFICES ASSUME NEW i \in Nodes, node[i].key # Nil
              PROVE  MainNode(sizeNode, node[i].key) \in Nodes
  OBVIOUS
<1>1. node[i].key \in Keys
  BY DEF TypeOK, NodeRec
<1>. QED
  BY <1>1, MainNodeInRange DEF TypeOK, Nodes

\* What the three cases of newKey share.
NewKeyContext(k, v) ==
  /\ IInv
  /\ k \in Keys /\ v \in MaybeVal
  /\ ~InArray(k) /\ Found(k) = {}
  /\ UNCHANGED <<array, sizeNode, dummy>>

NodePartOK == node \in [Nodes -> NodeRec] /\ lastFree \in 0 .. sizeNode /\ NodesOK

LEMMA PutInMainKeepsNodes ==
  ASSUME NEW k, NEW v, NewKeyContext(k, v), PutInMain(k, v)
  PROVE  NodePartOK'
<1>. DEFINE mp == MainNode(sizeNode, k)
<1>. HIDE DEF mp
<1>0. /\ k \in Keys /\ k # Nil /\ v \in MaybeVal /\ ~InArray(k)
      /\ TypeOK /\ NodesOK
      /\ UNCHANGED <<array, sizeNode, dummy, lastFree>> /\ Nodes' = Nodes
  BY KeyAssumption DEF NewKeyContext, IInv, PutInMain, Nodes
<1>1. mp \in Nodes /\ mp = MainNode(sizeNode, k)
  BY <1>0, MainNodeInRange DEF TypeOK, mp, Nodes
<1>2. /\ ~dummy /\ node[mp].val = Nil
      /\ node' = [node EXCEPT ![mp] = [key |-> k, val |-> v, next |-> @.next]]
  BY <1>0 DEF PutInMain, MainTaken, TypeOK, mp, MainPosition
<1>3. node \in [Nodes -> NodeRec] /\ node' \in [Nodes -> NodeRec]
  BY <1>0, <1>1, <1>2 DEF TypeOK, NodeRec
<1>4. /\ \A i \in Nodes : node'[i].next = node[i].next
      /\ \A i \in Nodes : i # mp => node'[i] = node[i]
      /\ node'[mp].key = k /\ node'[mp].val = v
  BY <1>1, <1>2, <1>3 DEF NodeRec
<1>5. \A i \in Nodes : node[i].key # k
  BY <1>0, NotFoundIsFresh, KeyAssumption DEF NewKeyContext, NodesOK
<1>6. FreeBeforeLastFree' /\ DummyStaysEmpty'
  BY <1>0, <1>2, <1>4 DEF NodesOK, FreeBeforeLastFree, DummyStaysEmpty
<1>7. FreeNodesUnlinked' /\ OnePredecessor' /\ Acyclic'
  BY <1>0, <1>4 DEF NodesOK, FreeNodesUnlinked, OnePredecessor, Acyclic
<1>8. MainInUse'
  BY <1>0, <1>1, <1>4, MainOfStored DEF NodesOK, MainInUse, MainPosition
<1>9. StrangerHasNoFollowers'
  BY <1>0, <1>1, <1>4 DEF NodesOK, StrangerHasNoFollowers, MainPosition
<1>10. OneSlotPerKey'
  BY <1>0, <1>4, <1>5 DEF NodesOK, OneSlotPerKey, InArray
<1>11. KeysReachable'
  <2>1. \A h : ChainIn(node', h) = ChainIn(node, h)
    BY <1>3, <1>4, SameLinksSameChains
  <2>2. mp \in ChainIn(node, mp)
    BY <1>1, <1>3, ChainStart
  <2>. QED
    BY <1>0, <1>1, <1>4, <2>1, <2>2 DEF NodesOK, KeysReachable, Chain, MainPosition
<1>12. NodeRec' = NodeRec
  BY <1>0 DEF NodeRec
<1>. QED
  BY <1>0, <1>3, <1>12, <1>6, <1>7, <1>8, <1>9, <1>10, <1>11 DEF NodePartOK, NodesOK, TypeOK

LEMMA ChainAfterKeepsNodes ==
  ASSUME NEW k, NEW v, NewKeyContext(k, v), ChainAfter(k, v)
  PROVE  NodePartOK'
<1>. DEFINE mp == MainNode(sizeNode, k)
<1>. HIDE DEF mp
<1>0. /\ k \in Keys /\ k # Nil /\ v \in MaybeVal /\ ~InArray(k)
      /\ TypeOK /\ NodesOK
      /\ UNCHANGED <<array, sizeNode, dummy>> /\ Nodes' = Nodes
  BY KeyAssumption DEF NewKeyContext, IInv, Nodes
<1>1. mp \in Nodes /\ mp = MainNode(sizeNode, k)
  BY <1>0, MainNodeInRange DEF TypeOK, mp, Nodes
<1>2. PICK n \in Nodes :
        /\ IsFreePos(n)
        /\ node' = [node EXCEPT ![n] = [key |-> k, val |-> v, next |-> node[mp].next],
                                ![mp].next = n]
        /\ lastFree' = n
  BY DEF ChainAfter, mp, MainPosition
<1>3. /\ n < lastFree /\ node[n].key = Nil /\ node[n].next = NoNode
      /\ \A j \in Nodes : node[j].next # n
      /\ ~dummy /\ node[mp].key # Nil /\ n # mp
      /\ MainNode(sizeNode, node[mp].key) = mp
  BY <1>0, <1>1, <1>2 DEF ChainAfter, MainTaken, MainPosition, mp, IsFreePos, NodesOK,
     FreeNodesUnlinked, DummyStaysEmpty, TypeOK, Nodes
<1>4. node \in [Nodes -> NodeRec] /\ node' \in [Nodes -> NodeRec] /\ lastFree' \in 0 .. sizeNode
  <2>1. node \in [Nodes -> NodeRec] /\ lastFree' \in 0 .. sizeNode
    BY <1>0, <1>2 DEF TypeOK, Nodes
  <2>2. /\ [key |-> k, val |-> v, next |-> node[mp].next] \in NodeRec
        /\ [node[mp] EXCEPT !.next = n] \in NodeRec
    BY <1>0, <1>1, <2>1 DEF NodeRec
  <2>. QED
    BY <1>1, <1>2, <1>3, <2>1, <2>2
<1>5. /\ \A i \in Nodes : i # mp /\ i # n => node'[i] = node[i]
      /\ node'[n].key = k /\ node'[n].val = v /\ node'[n].next = node[mp].next
      /\ node'[mp].key = node[mp].key /\ node'[mp].val = node[mp].val /\ node'[mp].next = n
  BY <1>1, <1>2, <1>3, <1>4 DEF NodeRec
<1>6. \A i \in Nodes : node[i].key # k
  BY <1>0, NotFoundIsFresh, KeyAssumption DEF NewKeyContext, NodesOK
<1>7. FreeBeforeLastFree' /\ DummyStaysEmpty'
  BY <1>0, <1>1, <1>2, <1>3, <1>5
     DEF NodesOK, FreeBeforeLastFree, DummyStaysEmpty, IsFreePos, Nodes, TypeOK
<1>8. n # NoNode
  BY DEF Nodes, NoNode
<1>9. FreeNodesUnlinked' /\ OnePredecessor'
  BY <1>0, <1>1, <1>3, <1>5, <1>8 DEF NodesOK, FreeNodesUnlinked, OnePredecessor
<1>10. MainInUse'
  BY <1>0, <1>1, <1>3, <1>5, MainOfStored DEF NodesOK, MainInUse, MainPosition
<1>11. StrangerHasNoFollowers'
  BY <1>0, <1>1, <1>3, <1>5, MainOfStored
     DEF NodesOK, StrangerHasNoFollowers, MainInUse, MainPosition
<1>12. OneSlotPerKey'
  BY <1>0, <1>1, <1>3, <1>5, <1>6 DEF NodesOK, OneSlotPerKey, InArray
<1>13. KeysReachable'
  <2>1. \A S \in SUBSET Nodes : Closed(node', S) => Closed(node, S)
    BY <1>0, <1>1, <1>3, <1>5, <1>8 DEF Closed
  <2>2. \A i \in Nodes : \A j \in ChainIn(node, i) : j \in ChainIn(node', i)
    BY <1>4, <2>1 DEF ChainIn, Reaches, Closed
  <2>3. n \in ChainIn(node', mp)
    BY <1>1, <1>4, <1>5, <1>8 DEF ChainIn, Reaches
  <2>. QED
    BY <1>0, <1>1, <1>3, <1>5, <2>2, <2>3, MainOfStored DEF NodesOK, KeysReachable, Chain, MainPosition
\* A cycle through the new node n would be one without it before.
<1>15. Acyclic'
  <2>. SUFFICES ASSUME NEW S \in SUBSET Nodes, S # {}, \A i \in S : node'[i].next \in S
                PROVE  FALSE
    BY <1>0 DEF Acyclic
  <2>1. \A i \in S \ {n} : node[i].next \in S \ {n}
    BY <1>1, <1>3, <1>5
  <2>2. S \ {n} # {}
    BY <1>1, <1>3, <1>5
  <2>. QED
    BY <1>0, <2>1, <2>2 DEF NodesOK, Acyclic
<1>14. NodeRec' = NodeRec
  BY <1>0 DEF NodeRec
<1>. QED
  BY <1>0, <1>4, <1>14, <1>15, <1>7, <1>9, <1>10, <1>11, <1>12, <1>13 DEF NodePartOK, NodesOK

LEMMA MoveCollidingKeepsNodes ==
  ASSUME NEW k, NEW v, NewKeyContext(k, v), MoveColliding(k, v)
  PROVE  NodePartOK'
<1>. DEFINE mp == MainNode(sizeNode, k)
            on == MainNode(sizeNode, node[mp].key)
<1>. HIDE DEF mp, on
<1>0. /\ k \in Keys /\ k # Nil /\ v \in MaybeVal /\ ~InArray(k)
      /\ TypeOK /\ NodesOK
      /\ UNCHANGED <<array, sizeNode, dummy>> /\ Nodes' = Nodes
  BY KeyAssumption DEF NewKeyContext, IInv, Nodes
<1>1. mp \in Nodes /\ mp = MainNode(sizeNode, k)
  BY <1>0, MainNodeInRange DEF TypeOK, mp, Nodes
<1>2. PICK n \in Nodes, p \in ChainIn(node, on) :
        /\ IsFreePos(n)
        /\ node[p].next = mp
        /\ node' = [node EXCEPT ![p].next = n,
                                ![n] = node[mp],
                                ![mp] = [key |-> k, val |-> v, next |-> NoNode]]
        /\ lastFree' = n
  BY DEF MoveColliding, mp, on, MainPosition, Chain
<1>3. /\ n < lastFree /\ node[n].key = Nil /\ node[n].next = NoNode
      /\ \A j \in Nodes : node[j].next # n
      /\ ~dummy /\ node[mp].key # Nil /\ n # mp
      /\ on # mp /\ on = MainNode(sizeNode, node[mp].key)
  BY <1>0, <1>1, <1>2 DEF MoveColliding, MainTaken, MainPosition, mp, on, IsFreePos, NodesOK,
     FreeNodesUnlinked, DummyStaysEmpty, TypeOK, Nodes
<1>4. n # NoNode /\ mp # NoNode
  BY <1>1 DEF Nodes, NoNode
<1>5. node \in [Nodes -> NodeRec] /\ p \in Nodes /\ on \in Nodes
  BY <1>0, <1>1, <1>2, <1>3, MainOfStored DEF TypeOK, ChainIn, Reaches
<1>6. p # n
  BY <1>2, <1>3, <1>4
\* The colliding node is in the chain of its key, so it does not precede itself.
<1>7. p # mp
  <2>. SUFFICES ASSUME p = mp PROVE FALSE
    OBVIOUS
  <2>1. mp \in ChainIn(node, on)
    BY <1>2
  <2>2. \A j \in Nodes : node[j].next = mp => j = mp
    BY <1>0, <1>1, <1>2, <1>4 DEF NodesOK, OnePredecessor
  <2>3. /\ Nodes \ {mp} \in SUBSET DOMAIN node /\ on \in Nodes \ {mp}
        /\ Closed(node, Nodes \ {mp})
    BY <1>3, <1>5, <2>2 DEF Closed, NodeRec
  <2>. QED
    BY <2>1, <2>3, ChainUse
<1>8. node' \in [Nodes -> NodeRec] /\ lastFree' \in 0 .. sizeNode
  <2>1. lastFree' \in 0 .. sizeNode
    BY <1>0, <1>2 DEF TypeOK, Nodes
  <2>2. /\ [key |-> k, val |-> v, next |-> NoNode] \in NodeRec
        /\ [node[p] EXCEPT !.next = n] \in NodeRec
        /\ node[mp] \in NodeRec
    BY <1>0, <1>1, <1>5 DEF NodeRec
  <2>. QED
    BY <1>1, <1>2, <1>5, <1>6, <1>7, <2>1, <2>2
<1>9. /\ \A i \in Nodes : i # mp /\ i # n /\ i # p => node'[i] = node[i]
      /\ node'[p].key = node[p].key /\ node'[p].val = node[p].val /\ node'[p].next = n
      /\ node'[n] = node[mp]
      /\ node'[mp].key = k /\ node'[mp].val = v /\ node'[mp].next = NoNode
  BY <1>1, <1>2, <1>3, <1>5, <1>6, <1>7 DEF NodeRec
<1>10. \A i \in Nodes : node[i].key # k
  BY <1>0, NotFoundIsFresh, KeyAssumption DEF NewKeyContext, NodesOK
<1>11. node[p].key # Nil
  BY <1>0, <1>2, <1>4, <1>5 DEF NodesOK, FreeNodesUnlinked
<1>12. FreeBeforeLastFree' /\ DummyStaysEmpty'
  <2>1. \A i \in Nodes : i < lastFree \/ node[i].key # Nil
    BY <1>0, <1>3 DEF NodesOK, FreeBeforeLastFree
  <2>2. \A i \in Nodes : n < i => node[i].key # Nil
    BY <1>2, <2>1 DEF IsFreePos
  <2>3. \A i \in Nodes : node'[i].key = Nil => node[i].key = Nil /\ i # n
    BY <1>0, <1>1, <1>3, <1>5, <1>9, <1>11
  <2>4. \A i \in Nodes : node'[i].key = Nil => i < n
    BY <2>2, <2>3 DEF Nodes
  <2>. QED
    BY <1>0, <1>2, <1>3, <2>4 DEF FreeBeforeLastFree, DummyStaysEmpty
<1>13. FreeNodesUnlinked' /\ OnePredecessor'
  BY <1>0, <1>1, <1>2, <1>3, <1>4, <1>5, <1>6, <1>7, <1>9, <1>11
     DEF NodesOK, FreeNodesUnlinked, OnePredecessor
<1>14. \A i \in Nodes : node[i].key # Nil => MainNode(sizeNode, node[i].key) # n
  BY <1>0, <1>3 DEF NodesOK, MainInUse, MainPosition
<1>15. \A i \in Nodes : node[i].key # Nil => MainNode(sizeNode, node[i].key) # mp
  BY <1>0, <1>1, <1>3 DEF NodesOK, StrangerHasNoFollowers, MainPosition
<1>16. MainInUse'
  BY <1>0, <1>1, <1>3, <1>5, <1>9, <1>11, MainOfStored DEF NodesOK, MainInUse, MainPosition
<1>17. StrangerHasNoFollowers'
  BY <1>0, <1>1, <1>3, <1>5, <1>9, <1>11, <1>14, <1>15
     DEF NodesOK, StrangerHasNoFollowers, MainPosition
<1>18. OneSlotPerKey'
  BY <1>0, <1>1, <1>3, <1>5, <1>6, <1>7, <1>9, <1>10 DEF NodesOK, OneSlotPerKey, InArray
<1>19. KeysReachable'
  \* A set closed under the new links is closed under the old ones once the
  \* node that was moved is added, if the set holds its copy, or taken out.
  <2>1. ASSUME NEW S \in SUBSET Nodes, Closed(node', S), n \in S
        PROVE  Closed(node, S \cup {mp})
    BY <1>1, <1>2, <1>3, <1>4, <1>5, <1>9, <2>1 DEF Closed
  <2>2. ASSUME NEW S \in SUBSET Nodes, Closed(node', S), n \notin S
        PROVE  Closed(node, S \ {mp})
    <3>1. p \notin S
      BY <1>4, <1>9, <2>2 DEF Closed
    <3>2. \A s \in S \ {mp} : node[s].next # mp
      BY <1>0, <1>1, <1>2, <1>4, <1>5, <3>1 DEF NodesOK, OnePredecessor
    <3>. QED
      BY <1>9, <2>2, <3>1, <3>2 DEF Closed
  <2>3. ASSUME NEW i \in Nodes \ {mp}, NEW j \in ChainIn(node, i), j # mp
        PROVE  j \in ChainIn(node', i)
    <3>1. ASSUME NEW S \in SUBSET Nodes, i \in S, Closed(node', S)
          PROVE  j \in S
      <4>1. CASE n \in S
        <5>1. Closed(node, S \cup {mp})
          BY <2>1, <3>1, <4>1
        <5>. QED
          BY <1>1, <1>5, <2>3, <3>1, <5>1, ChainUse
      <4>2. CASE n \notin S
        <5>1. Closed(node, S \ {mp})
          BY <2>2, <3>1, <4>2
        <5>. QED
          BY <1>1, <1>5, <2>3, <3>1, <5>1, ChainUse
      <4>. QED
        BY <4>1, <4>2
    <3>2. j \in Nodes
      BY <1>5, <2>3 DEF ChainIn, Reaches
    <3>. QED
      BY <1>8, <3>1, <3>2, ChainIntro
  <2>4. n \in ChainIn(node', on)
    <3>1. ASSUME NEW S \in SUBSET Nodes, on \in S, Closed(node', S), n \notin S
          PROVE  FALSE
      <4>1. Closed(node, S \ {mp})
        BY <2>2, <3>1
      <4>2. mp \in ChainIn(node, on)
        BY <1>0, <1>1, <1>3 DEF NodesOK, KeysReachable, Chain, MainPosition
      <4>. QED
        BY <1>3, <1>5, <3>1, <4>1, <4>2, ChainUse
    <3>. QED
      BY <1>8, <3>1, ChainIntro
  <2>5. mp \in ChainIn(node', mp)
    BY <1>1, <1>8, ChainStart
  <2>6. \A i \in Nodes \ {mp, n} : node[i].key # Nil =>
           i \in ChainIn(node', MainNode(sizeNode, node[i].key))
    BY <1>0, <1>15, <2>3, MainOfStored DEF NodesOK, KeysReachable, Chain, MainPosition
  <2>7. \A i \in Nodes \ {mp, n} : node'[i].key = node[i].key
    BY <1>9
  <2>. QED
    BY <1>0, <1>1, <1>3, <1>9, <2>4, <2>5, <2>6, <2>7 DEF KeysReachable, Chain, MainPosition
\* A cycle through the moved node went through its old place.
<1>21. Acyclic'
  <2>. SUFFICES ASSUME NEW S \in SUBSET Nodes, S # {}, \A i \in S : node'[i].next \in S
                PROVE  FALSE
    BY <1>0 DEF Acyclic
  <2>. DEFINE T == IF n \in S THEN (S \ {n}) \cup {mp} ELSE S
  <2>0. NoNode \notin Nodes
    BY DEF Nodes, NoNode
  <2>1. mp \notin S
    BY <1>9, <2>0
  <2>2. \A i \in T : node[i].next \in T
    <3>1. /\ \A j \in Nodes : j \notin {p, n, mp} => node'[j] = node[j]
          /\ node'[p].next = n /\ node'[n].next = node[mp].next /\ node[p].next = mp
          /\ \A j \in Nodes : node[j].next # n
      BY <1>1, <1>2, <1>3, <1>6, <1>7, <1>9
    <3>2. CASE n \in S
      <4>1. T = (S \ {n}) \cup {mp}
        BY <3>2
      <4>. HIDE DEF T
      <4>2. node[mp].next \in T
        BY <1>1, <3>1, <3>2, <4>1
      <4>3. ASSUME NEW i \in S, i # n PROVE node[i].next \in T
        <5>1. CASE i = p
          BY <3>1, <4>1, <5>1
        <5>2. CASE i # p
          <6>1. node'[i] = node[i]
            BY <2>1, <3>1, <4>3, <5>2
          <6>2. node[i].next \in S /\ node[i].next # n
            BY <3>1, <6>1
          <6>. QED
            BY <4>1, <6>2
        <5>. QED
          BY <5>1, <5>2
      <4>. QED
        BY <4>1, <4>2, <4>3
    <3>3. CASE n \notin S
      <4>1. p \notin S
        BY <3>1, <3>3
      <4>. QED
        BY <2>1, <3>1, <3>3, <4>1
    <3>. QED
      BY <3>2, <3>3
  <2>3. T \in SUBSET Nodes /\ T # {}
    BY <1>1
  <2>. QED
    BY <1>0, <2>2, <2>3 DEF NodesOK, Acyclic
<1>20. NodeRec' = NodeRec
  BY <1>0 DEF NodeRec
<1>. QED
  BY <1>0, <1>8, <1>20, <1>21, <1>12, <1>13, <1>16, <1>17, <1>18, <1>19 DEF NodePartOK, NodesOK
-----------------------------------------------------------------------------
(* Store, resize and the invariant *)

ArrayOK == /\ array \in Seq(MaybeVal)
           /\ \A i \in 1 .. Len(array) : array[i] # Nil => i \in IntKeys

LEMMA StoreKeepsTable ==
  ASSUME NEW k \in Keys, NEW v \in MaybeVal, IInv, Store(k, v)
  PROVE  ArrayOK' /\ NodePartOK'
<1>0. /\ k # Nil /\ TypeOK /\ NodesOK /\ UNCHANGED <<sizeNode, dummy>>
      /\ Nodes' = Nodes /\ NodeRec' = NodeRec
  BY KeyAssumption DEF IInv, Store, Nodes, NodeRec
<1>1. CASE /\ InArray(k)
           /\ array' = [array EXCEPT ![k] = v]
           /\ UNCHANGED <<node, lastFree>>
  <2>1. array' \in Seq(MaybeVal) /\ Len(array') = Len(array)
    BY <1>0, <1>1, ExceptSeq DEF InArray, TypeOK
  <2>2. \A i \in 1 .. Len(array) : i # k => array'[i] = array[i]
    BY <1>0, <1>1 DEF TypeOK
  <2>3. ArrayOK'
    BY <1>0, <1>1, <2>1, <2>2 DEF ArrayOK, InArray, TypeOK
  <2>4. NodesOK'
    BY <1>0, <1>1, <2>1 DEF NodesOK, FreeBeforeLastFree, DummyStaysEmpty, FreeNodesUnlinked,
       OnePredecessor, Acyclic, MainInUse, StrangerHasNoFollowers, KeysReachable,
       OneSlotPerKey, InArray, MainPosition, Chain
  <2>. QED
    BY <1>0, <1>1, <2>3, <2>4 DEF NodePartOK, TypeOK
<1>2. CASE /\ ~InArray(k)
           /\ \E i \in Found(k) : node' = [node EXCEPT ![i].val = v]
           /\ UNCHANGED <<array, lastFree>>
  <2>1. PICK i \in Nodes : node[i].key = k /\ node' = [node EXCEPT ![i].val = v]
    BY <1>0, <1>2 DEF Found, Chain, ChainIn, Reaches, TypeOK
  <2>2. node \in [Nodes -> NodeRec] /\ [node[i] EXCEPT !.val = v] \in NodeRec
    BY <1>0 DEF TypeOK, NodeRec
  <2>3. node' \in [Nodes -> NodeRec]
    BY <2>1, <2>2
  <2>4. /\ \A j \in Nodes : node'[j].key = node[j].key /\ node'[j].next = node[j].next
        /\ \A j \in Nodes : j # i => node'[j] = node[j]
    BY <2>1, <2>2 DEF NodeRec
  <2>5. \A h : ChainIn(node', h) = ChainIn(node, h)
    <3>1. DOMAIN node = Nodes /\ DOMAIN node' = Nodes
      BY <2>2, <2>3
    <3>. QED
      BY <2>4, <3>1, SameLinksSameChains
  <2>6. /\ FreeBeforeLastFree' /\ FreeNodesUnlinked'
        /\ OnePredecessor' /\ Acyclic' /\ OneSlotPerKey'
    <3>0. /\ \A s \in Nodes : node'[s].next = node[s].next
          /\ \A s \in Nodes : node'[s].key = Nil => node[s].key = Nil /\ node'[s] = node[s]
      BY <1>0, <2>1, <2>4
    <3>1. FreeBeforeLastFree' /\ FreeNodesUnlinked'
      BY <1>0, <1>2, <3>0 DEF NodesOK, FreeBeforeLastFree, FreeNodesUnlinked
    <3>2. OnePredecessor' /\ Acyclic'
      BY <1>0, <3>0 DEF NodesOK, OnePredecessor, Acyclic
    <3>3. OneSlotPerKey'
      BY <1>0, <1>2, <2>4 DEF NodesOK, OneSlotPerKey, InArray
    <3>. QED
      BY <3>1, <3>2, <3>3
  <2>7. DummyStaysEmpty'
    BY <1>0, <1>2, <2>1 DEF NodesOK, DummyStaysEmpty, FreeNode, Nodes
  <2>8. MainInUse' /\ StrangerHasNoFollowers'
    BY <1>0, <2>4, MainOfStored DEF NodesOK, MainInUse, StrangerHasNoFollowers, MainPosition
  <2>9. KeysReachable'
    BY <1>0, <2>4, <2>5 DEF NodesOK, KeysReachable, Chain, MainPosition
  <2>. QED
    BY <1>0, <1>2, <2>3, <2>6, <2>7, <2>8, <2>9 DEF NodePartOK, NodesOK, ArrayOK, TypeOK
<1>3. CASE /\ ~InArray(k)
           /\ Found(k) = {}
           /\ PutInMain(k, v) \/ MoveColliding(k, v) \/ ChainAfter(k, v)
           /\ UNCHANGED array
  <2>1. NewKeyContext(k, v)
    BY <1>0, <1>3 DEF NewKeyContext, IInv
  <2>2. ArrayOK'
    BY <1>0, <1>3 DEF ArrayOK, TypeOK
  <2>. QED
    BY <1>3, <2>1, <2>2, PutInMainKeepsNodes, MoveCollidingKeepsNodes, ChainAfterKeepsNodes
<1>. QED
  BY <1>1, <1>2, <1>3 DEF Store

\* A vector of free nodes satisfies every invariant of the nodes.
FreshVector ==
  /\ sizeNode \in Nat \ {0} /\ dummy \in BOOLEAN
  /\ node = [i \in Nodes |-> FreeNode]
  /\ IF dummy THEN sizeNode = 1 /\ lastFree = 0 ELSE lastFree = sizeNode

LEMMA FreshNodes == FreshVector => NodePartOK
<1>. SUFFICES ASSUME FreshVector PROVE NodePartOK
  OBVIOUS
<1>. USE DEF FreshVector
<1>1. \A i \in Nodes : node[i].key = Nil /\ node[i].val = Nil /\ node[i].next = NoNode
  BY DEF FreeNode
<1>2. node \in [Nodes -> NodeRec]
  BY DEF FreeNode, NodeRec, MaybeVal
<1>3. lastFree \in 0 .. sizeNode
  OBVIOUS
<1>4. FreeBeforeLastFree
  BY DEF FreeBeforeLastFree, Nodes
<1>5. DummyStaysEmpty
  BY DEF DummyStaysEmpty, Nodes
<1>6. NoNode \notin Nodes
  BY DEF NoNode, Nodes
<1>7. OneSlotPerKey
  BY <1>1, KeyAssumption DEF OneSlotPerKey, InArray, Keys
<1>8. Acyclic
  BY <1>1, <1>6 DEF Acyclic
<1>. QED
  BY <1>1, <1>2, <1>3, <1>4, <1>5, <1>6, <1>7, <1>8 DEF NodePartOK, NodesOK, FreeNodesUnlinked,
     OnePredecessor, MainInUse, StrangerHasNoFollowers, KeysReachable

LEMMA FreshNodesNext == FreshVector' => NodePartOK'
BY FreshNodes, PTL

\* The size of a node vector is positive, whatever was asked for.
LEMMA Pow2Positive ==
  ASSUME NEW n \in Int, IsPow2(n)
  PROVE  n \in Nat \ {0}
<1>1. PICK i \in 0 .. n - 1 : TRUE
  BY DEF IsPow2
<1>. QED
  BY <1>1

LEMMA SetNodeVectorKeepsNodes ==
  ASSUME NEW nh, SetNodeVector(nh)
  PROVE  NodePartOK' /\ sizeNode' \in Nat \ {0} /\ dummy' \in BOOLEAN
<1>1. /\ sizeNode' \in Nat \ {0} /\ dummy' \in BOOLEAN
      /\ IF dummy' THEN sizeNode' = 1 /\ lastFree' = 0 ELSE lastFree' = sizeNode'
  <2>1. CASE nh = 0 /\ dummy' = TRUE /\ sizeNode' = 1 /\ lastFree' = 0
    BY <2>1
  <2>2. ASSUME NEW n \in nh .. 2 * nh - 1, IsPow2(n),
               dummy' = FALSE /\ sizeNode' = n /\ lastFree' = n
        PROVE  /\ sizeNode' \in Nat \ {0} /\ dummy' \in BOOLEAN
               /\ IF dummy' THEN sizeNode' = 1 /\ lastFree' = 0 ELSE lastFree' = sizeNode'
    <3>1. n \in Int
      OBVIOUS
    <3>. QED
      BY <2>2, <3>1, Pow2Positive
  <2>. QED
    BY <2>1, <2>2 DEF SetNodeVector
<1>2. node' = [i \in Nodes' |-> FreeNode]
  BY DEF SetNodeVector, Nodes
<1>. QED
  BY <1>1, <1>2, FreshNodesNext DEF FreshVector

\* A function on 1..n is a sequence of length n.
LEMMA FunIsSeq ==
  ASSUME NEW S, NEW n \in Nat, NEW f \in [1 .. n -> S]
  PROVE  f \in Seq(S) /\ Len(f) = n
OBVIOUS

PendingOK == /\ pending \in Seq(Entry)
             /\ \A i \in 1 .. Len(pending) : pending[i].val # Nil => pending[i].key \in Keys

\* The entries resize puts aside are keys with values, or nil entries.
LEMMA SetAsideIsPending ==
  ASSUME IInv, NEW na \in Nat, pending' = Slice(na) \o OldNodes
  PROVE  PendingOK'
<1>0. TypeOK /\ FreeNodesUnlinked
  BY DEF IInv, NodesOK
<1>1. /\ Slice(na) \in Seq(Entry)
      /\ \A i \in 1 .. Len(Slice(na)) : Slice(na)[i].val # Nil => Slice(na)[i].key \in Keys
  <2>1. CASE na < Len(array)
    <3>. DEFINE d == Len(array) - na
                s == [i \in 1 .. d |-> [key |-> na + i, val |-> array[na + i]]]
    <3>1. d \in Nat /\ Slice(na) = s
      BY <1>0, <2>1 DEF TypeOK, Slice
    <3>2. \A i \in 1 .. d : /\ na + i \in Nat /\ na + i \in 1 .. Len(array)
                            /\ array[na + i] \in MaybeVal
                            /\ array[na + i] # Nil => na + i \in IntKeys
      BY <1>0, <2>1 DEF TypeOK
    <3>3. \A i \in 1 .. d : s[i] \in Entry
      BY <3>2 DEF Entry
    <3>4. s \in [1 .. d -> Entry]
      BY <3>3
    <3>5. s \in Seq(Entry) /\ Len(s) = d
      BY <3>1, <3>4, FunIsSeq
    <3>6. \A i \in 1 .. d : s[i].key = na + i /\ s[i].val = array[na + i]
      OBVIOUS
    <3>7. \A i \in 1 .. d : s[i].val # Nil => s[i].key \in Keys
      BY <3>2, <3>6 DEF Keys
    <3>8. Slice(na) \in Seq(Entry) /\ Len(Slice(na)) = d
      BY <3>1, <3>5
    <3>9. \A i \in 1 .. d : Slice(na)[i] = s[i]
      BY <3>1
    <3>. QED
      BY <3>7, <3>8, <3>9
  <2>2. CASE ~(na < Len(array))
    BY <2>2 DEF Slice
  <2>. QED
    BY <2>1, <2>2
<1>2. /\ OldNodes \in Seq(Entry)
      /\ \A i \in 1 .. Len(OldNodes) : OldNodes[i].val # Nil => OldNodes[i].key \in Keys
  <2>1. \A i \in 1 .. sizeNode : sizeNode - i \in Nodes
    BY <1>0 DEF TypeOK, Nodes
  <2>2. \A i \in 1 .. sizeNode : OldNodes[i] \in Entry
    BY <1>0, <2>1 DEF TypeOK, NodeRec, Entry, OldNodes
  <2>3. \A i \in 1 .. sizeNode : OldNodes[i].val # Nil => OldNodes[i].key \in Keys
    BY <1>0, <2>1 DEF TypeOK, NodeRec, FreeNodesUnlinked, OldNodes
  <2>4. OldNodes \in Seq(Entry) /\ Len(OldNodes) = sizeNode
    <3>1. OldNodes \in [1 .. sizeNode -> Entry]
      BY <2>2 DEF OldNodes
    <3>. QED
      BY <1>0, <3>1, FunIsSeq DEF TypeOK
  <2>. QED
    BY <2>3, <2>4
<1>3. /\ pending' \in Seq(Entry) /\ Len(pending') = Len(Slice(na)) + Len(OldNodes)
      /\ \A i \in 1 .. Len(pending') :
            pending'[i] = IF i <= Len(Slice(na)) THEN Slice(na)[i]
                          ELSE OldNodes[i - Len(Slice(na))]
  BY <1>1, <1>2, ConcatProperties
<1>4. Len(Slice(na)) \in Nat /\ Len(OldNodes) \in Nat
  BY <1>1, <1>2, LenProperties
<1>5. ASSUME NEW i \in 1 .. Len(pending'), pending'[i].val # Nil
      PROVE  pending'[i].key \in Keys
  <2>1. CASE i <= Len(Slice(na))
    BY <1>1, <1>3, <1>4, <1>5, <2>1
  <2>2. CASE ~(i <= Len(Slice(na)))
    <3>1. i - Len(Slice(na)) \in 1 .. Len(OldNodes)
      BY <1>3, <1>4, <2>2
    <3>. QED
      BY <1>2, <1>3, <1>5, <2>2, <3>1
  <2>. QED
    BY <2>1, <2>2
<1>6. Entry' = Entry /\ Keys' = Keys
  BY DEF Entry, Keys
<1>. QED
  BY <1>3, <1>5, <1>6 DEF PendingOK

LEMMA ResizeKeepsTable ==
  ASSUME IInv, NEW na \in Nat, NEW nh, Resize(na, nh)
  PROVE  /\ ArrayOK' /\ NodePartOK' /\ PendingOK'
         /\ sizeNode' \in Nat \ {0} /\ dummy' \in BOOLEAN /\ crashed' = crashed
<1>1. TypeOK
  BY DEF IInv
<1>. DEFINE s == [i \in 1 .. na |-> IF i <= Len(array) THEN array[i] ELSE Nil]
<1>2. \A i \in 1 .. na : s[i] \in MaybeVal /\ (s[i] # Nil => i \in IntKeys)
  BY <1>1 DEF TypeOK, MaybeVal
<1>3. s \in Seq(MaybeVal) /\ Len(s) = na
  BY <1>2, FunIsSeq
<1>4. array' = s
  BY DEF Resize
<1>5. ArrayOK'
  BY <1>2, <1>3, <1>4 DEF ArrayOK
<1>. QED
  BY <1>5, SetNodeVectorKeepsNodes, SetAsideIsPending DEF Resize

LEMMA RehashKeepsTable ==
  ASSUME IInv, NoFreePos, NEW k \in Keys, NEW v \in MaybeVal, Rehash(k, v)
  PROVE  IInv'
<1>0. TypeOK /\ NodesOK /\ ExtraIsKey
  BY DEF IInv
<1>1. CASE /\ crashed' = TRUE
           /\ lastFree' = 0
           /\ UNCHANGED <<array, node, sizeNode, dummy, pending, extra>>
  <2>1. TypeOK'
    BY <1>0, <1>1 DEF TypeOK, NodeRec, Nodes, Entry, Keys, MaybeVal
  <2>2. FreeBeforeLastFree' /\ DummyStaysEmpty'
    BY <1>0, <1>1 DEF NodesOK, FreeBeforeLastFree, DummyStaysEmpty, NoFreePos, Nodes
  <2>3. /\ FreeNodesUnlinked' /\ OnePredecessor' /\ Acyclic' /\ MainInUse' /\ StrangerHasNoFollowers'
        /\ KeysReachable' /\ OneSlotPerKey' /\ ExtraIsKey'
    BY <1>0, <1>1 DEF NodesOK, FreeNodesUnlinked, OnePredecessor, Acyclic, MainInUse,
       StrangerHasNoFollowers, KeysReachable, OneSlotPerKey, ExtraIsKey, Nodes,
       MainPosition, Chain, InArray
  <2>. QED
    BY <2>1, <2>2, <2>3 DEF IInv, NodesOK
<1>2. ASSUME NEW na \in ArraySizes(Candidates(k)), NEW nh, Resize(na, nh),
             extra' = [key |-> k, val |-> v]
      PROVE  IInv'
  <2>1. na \in Nat
    BY DEF ArraySizes
  <2>2. /\ ArrayOK' /\ NodePartOK' /\ PendingOK'
        /\ sizeNode' \in Nat \ {0} /\ dummy' \in BOOLEAN /\ crashed' = crashed
    BY <1>2, <2>1, ResizeKeepsTable
  <2>3. extra' \in [key : Keys \cup {Nil}, val : MaybeVal] /\ ExtraIsKey'
    BY <1>2 DEF ExtraIsKey
  <2>. QED
    BY <1>0, <2>2, <2>3 DEF IInv, TypeOK, ArrayOK, NodePartOK, PendingOK
<1>. QED
  BY <1>1, <1>2 DEF Rehash

LEMMA InitEstablishesIInv == Init => IInv
<1>. SUFFICES ASSUME Init PROVE IInv
  OBVIOUS
<1>1. FreshVector
  <2>1. PICK nh \in InitHash :
          \/ nh = 0 /\ dummy = TRUE /\ sizeNode = 1 /\ lastFree = 0
          \/ \E n \in nh .. 2 * nh - 1 :
               IsPow2(n) /\ dummy = FALSE /\ sizeNode = n /\ lastFree = n
    BY DEF Init
  <2>2. ASSUME NEW n \in nh .. 2 * nh - 1, IsPow2(n) PROVE n \in Nat \ {0}
    <3>1. n \in Int
      OBVIOUS
    <3>. QED
      BY <2>2, <3>1, Pow2Positive
  <2>3. /\ sizeNode \in Nat \ {0} /\ dummy \in BOOLEAN
        /\ IF dummy THEN sizeNode = 1 /\ lastFree = 0 ELSE lastFree = sizeNode
    <3>1. CASE nh = 0 /\ dummy = TRUE /\ sizeNode = 1 /\ lastFree = 0
      BY <3>1
    <3>2. ASSUME NEW n \in nh .. 2 * nh - 1, IsPow2(n),
                 dummy = FALSE, sizeNode = n, lastFree = n
          PROVE  /\ sizeNode \in Nat \ {0} /\ dummy \in BOOLEAN
                 /\ IF dummy THEN sizeNode = 1 /\ lastFree = 0 ELSE lastFree = sizeNode
      <4>1. n \in Nat \ {0}
        BY <2>2, <3>2
      <4>. QED
        BY <4>1, <3>2
    <3>. QED
      BY <2>1, <3>1, <3>2
  <2>4. node = [i \in Nodes |-> FreeNode]
    BY DEF Init, Nodes
  <2>. QED
    BY <2>3, <2>4 DEF FreshVector
<1>2. PICK na \in InitArray : array = [i \in 1 .. na |-> Nil]
  BY DEF Init
<1>3. na \in Nat
  BY SizeAssumption
<1>4. \A i \in 1 .. na : array[i] = Nil /\ Nil \in MaybeVal
  BY <1>2 DEF MaybeVal
<1>5. array \in Seq(MaybeVal) /\ Len(array) = na
  BY <1>2, <1>3, <1>4, FunIsSeq
<1>6. pending \in Seq(Entry) /\ Len(pending) = 0
  BY EmptySeq DEF Init
<1>7. extra \in [key : Keys \cup {Nil}, val : MaybeVal] /\ ExtraIsKey
  BY DEF Init, NoExtra, MaybeVal, ExtraIsKey
<1>8. NodePartOK /\ sizeNode \in Nat \ {0} /\ dummy \in BOOLEAN
  BY <1>1, FreshNodes DEF FreshVector
<1>9. crashed \in BOOLEAN
  BY DEF Init
<1>. QED
  BY <1>4, <1>5, <1>6, <1>7, <1>8, <1>9 DEF IInv, TypeOK, NodePartOK

LEMMA NextKeepsIInv == IInv /\ [Next]_vars => IInv'
<1>. SUFFICES ASSUME IInv, [Next]_vars PROVE IInv'
  OBVIOUS
<1>0. TypeOK /\ NodesOK /\ ExtraIsKey
  BY DEF IInv
<1>1. ASSUME NEW k \in Keys, NEW v \in MaybeVal, SetKey(k, v)
      PROVE  IInv'
  <2>1. CASE Store(k, v) /\ UNCHANGED <<pending, extra>>
    <3>1. ArrayOK' /\ NodePartOK'
      BY <2>1, StoreKeepsTable
    <3>2. UNCHANGED <<sizeNode, dummy, crashed>>
      BY <2>1 DEF Store
    <3>. QED
      BY <1>0, <2>1, <3>1, <3>2
         DEF IInv, TypeOK, ArrayOK, NodePartOK, ExtraIsKey
  <2>2. CASE NoFreePos /\ Rehash(k, v)
    BY <2>2, RehashKeepsTable
  <2>. QED
    BY <1>1, <2>1, <2>2 DEF SetKey
<1>2. ASSUME NEW na \in InitArray, ResizeArray(na)
      PROVE  IInv'
  <2>1. na \in Nat
    BY SizeAssumption
  <2>2. /\ ArrayOK' /\ NodePartOK' /\ PendingOK'
        /\ sizeNode' \in Nat \ {0} /\ dummy' \in BOOLEAN /\ crashed' = crashed
    BY <1>2, <2>1, ResizeKeepsTable DEF ResizeArray
  <2>. QED
    BY <1>0, <1>2, <2>2
       DEF IInv, TypeOK, ArrayOK, NodePartOK, PendingOK, ExtraIsKey, ResizeArray
<1>3. CASE Reinsert
  <2>0. pending # <<>> /\ pending' = Tail(pending) /\ extra' = extra
    BY <1>3 DEF Reinsert
  <2>1. /\ pending' \in Seq(Entry) /\ Len(pending') = Len(pending) - 1
        /\ \A i \in 1 .. Len(pending') : pending'[i] = pending[i + 1]
        /\ Head(pending) = pending[1] /\ Head(pending) \in Entry
        /\ Len(pending) \in Nat \ {0}
    BY <1>0, <2>0, HeadTailProperties, EmptySeq, LenProperties DEF TypeOK
  <2>2. PendingOK'
    <3>1. \A i \in 1 .. Len(pending') : i + 1 \in 1 .. Len(pending)
      BY <2>1
    <3>2. \A i \in 1 .. Len(pending) : pending[i].val # Nil => pending[i].key \in Keys
      BY <1>0 DEF TypeOK
    <3>. QED
      BY <2>1, <3>1, <3>2 DEF PendingOK, Entry, MaybeVal, Keys
  <2>3. CASE UNCHANGED <<array, node, sizeNode, dummy, lastFree, crashed>>
    <3>1. TypeOK' /\ ExtraIsKey'
      BY <1>0, <2>0, <2>2, <2>3 DEF IInv, TypeOK, ExtraIsKey, Nodes, NodeRec, PendingOK
    <3>2. NodesOK'
      BY <2>3 DEF IInv, NodesOK, FreeBeforeLastFree,
         DummyStaysEmpty, FreeNodesUnlinked, OnePredecessor, Acyclic, MainInUse,
         StrangerHasNoFollowers, KeysReachable, OneSlotPerKey, Nodes, MainPosition, Chain, InArray
    <3>. QED
      BY <3>1, <3>2 DEF IInv
  <2>4. CASE Head(pending).val # Nil /\ Store(Head(pending).key, Head(pending).val)
    <3>1. Head(pending).key \in Keys /\ Head(pending).val \in MaybeVal
      BY <1>0, <2>1, <2>4 DEF TypeOK, Entry
    <3>2. ArrayOK' /\ NodePartOK'
      BY <2>4, <3>1, StoreKeepsTable
    <3>3. UNCHANGED <<sizeNode, dummy, crashed>>
      BY <2>4 DEF Store
    <3>. QED
      BY <1>0, <2>0, <2>2, <3>2, <3>3
         DEF IInv, TypeOK, ArrayOK, NodePartOK, ExtraIsKey, PendingOK
  <2>. QED
    BY <1>3, <2>3, <2>4 DEF Reinsert
<1>4. CASE ReinsertKey
  <2>1. extra.key \in Keys /\ extra.val \in MaybeVal
    BY <1>0, <1>4 DEF ReinsertKey, ExtraIsKey, TypeOK
  <2>2. ArrayOK' /\ NodePartOK'
    BY <1>4, <2>1, StoreKeepsTable DEF ReinsertKey
  <2>3. UNCHANGED <<sizeNode, dummy, crashed, pending>> /\ extra' = NoExtra
    BY <1>4 DEF ReinsertKey, Store
  <2>. QED
    BY <1>0, <2>2, <2>3
       DEF IInv, TypeOK, ArrayOK, NodePartOK, ExtraIsKey, NoExtra, MaybeVal
<1>5. CASE UNCHANGED vars
  <2>1. TypeOK' /\ ExtraIsKey'
    BY <1>5 DEF vars, IInv, TypeOK, ExtraIsKey, Nodes, NodeRec
  <2>2. NodesOK'
    BY <1>5 DEF vars, IInv, NodesOK, FreeBeforeLastFree,
       DummyStaysEmpty, FreeNodesUnlinked, OnePredecessor, Acyclic, MainInUse,
       StrangerHasNoFollowers, KeysReachable, OneSlotPerKey, Nodes, MainPosition, Chain, InArray
  <2>. QED
    BY <2>1, <2>2 DEF IInv
<1>. QED
  BY <1>1, <1>2, <1>3, <1>4, <1>5 DEF Next

\* The inductive invariant holds in every state of every behaviour.
LEMMA IInvHolds == Spec => []IInv
BY InitEstablishesIInv, NextKeepsIInv, PTL DEF Spec
-----------------------------------------------------------------------------
(* The theorems: the parts of the inductive invariant, for every set of     *)
(* keys, every hash of them and every MAXBITS.                              *)

\* The variables keep their types through every Set, rehash and ResizeArray;
\* only keys of the table hold values.
THEOREM TypeCorrect == Spec => []TypeOK
BY IInvHolds, PTL DEF IInv

\* getFreePos finds a free node whenever there is one: its cursor lastFree,
\* which only moves down, has never passed a node that is free.
THEOREM CursorPassesNoFreeNode == Spec => []FreeBeforeLastFree
BY IInvHolds, PTL DEF IInv, NodesOK

\* The node getFreePos hands to newKey is in no chain and holds nothing.
THEOREM FreeNodesAreUnlinked == Spec => []FreeNodesUnlinked
BY IInvHolds, PTL DEF IInv, NodesOK

\* No two chains of the hash part meet, so the one predecessor newKey
\* redirects when it moves a colliding node is the only one.
THEOREM ChainsNeverMeet == Spec => []OnePredecessor
BY IInvHolds, PTL DEF IInv, NodesOK

\* Every walk of Get, GetNum or GetByString along next ends, also for a key
\* that is not in the table: no insertion closes a cycle.
THEOREM WalksEnd == Spec => []Acyclic
BY IInvHolds, PTL DEF IInv, NodesOK

\* The colliding node newKey moves away, and whose next it cuts, carries no
\* key's chain.
THEOREM StrangersCarryNoChain == Spec => []StrangerHasNoFollowers
BY IInvHolds, PTL DEF IInv, NodesOK

\* A key in the hash part is found by the walk of Get, GetNum or GetByString
\* from its main position, whatever was inserted, moved, cleared or rehashed.
THEOREM EveryKeyIsFound == Spec => []KeysReachable
BY IInvHolds, PTL DEF IInv, NodesOK

\* No key ever gets a second slot, in the hash part or across both parts.
THEOREM OneSlotForEveryKey == Spec => []OneSlotPerKey
BY IInvHolds, PTL DEF IInv, NodesOK
-----------------------------------------------------------------------------
(* What Get answers *)

PartsOK == ArrayOK /\ NodePartOK

\* The value of a node is what Get answers for its key.
LEMMA GetFindsNode ==
  ASSUME PartsOK, NEW i \in Nodes, node[i].key # Nil
  PROVE  Get(node[i].key) = node[i].val
<1>. DEFINE k == node[i].key
<1>1. DOMAIN node = Nodes
  BY DEF PartsOK, NodePartOK
<1>2. i \in Found(k)
  BY <1>1 DEF PartsOK, NodePartOK, NodesOK, KeysReachable, Chain, ChainIn, Found
<1>3. Found(k) = {i}
  BY <1>1, <1>2 DEF PartsOK, NodePartOK, NodesOK, OneSlotPerKey, Found
<1>. QED
  BY <1>3 DEF PartsOK, NodePartOK, NodesOK, OneSlotPerKey, Get

\* A key that is in neither part reads as nil.
LEMMA GetOfAbsent ==
  ASSUME PartsOK, NEW k, ~InArray(k), \A i \in Nodes : node[i].key # k
  PROVE  Get(k) = Nil
<1>1. Found(k) = {}
  BY DEF PartsOK, NodePartOK, Found
<1>. QED
  BY <1>1 DEF Get

\* A key that reads as a value is in one of the parts.
LEMMA GetOfPresent ==
  ASSUME PartsOK, NEW k \in Keys, ~InArray(k), Get(k) # Nil
  PROVE  \E i \in Nodes : node[i].key = k /\ node[i].val = Get(k)
<1>1. PICK i \in Nodes : node[i].key = k
  BY GetOfAbsent
<1>2. k # Nil
  BY KeyAssumption
<1>. QED
  BY <1>1, <1>2, GetFindsNode

\* What is read is a value or nil.
LEMMA GetIsValue ==
  ASSUME PartsOK, NEW k \in Keys
  PROVE  Get(k) \in MaybeVal
<1>1. CASE InArray(k)
  BY <1>1 DEF Get, InArray, PartsOK, ArrayOK
<1>2. CASE ~InArray(k) /\ Get(k) # Nil
  BY <1>2, GetOfPresent DEF PartsOK, NodePartOK, NodeRec
<1>3. CASE Get(k) = Nil
  BY <1>3 DEF MaybeVal
<1>. QED
  BY <1>1, <1>2, <1>3

\* The same for all keys, as facts about one function.
Reads == [k \in Keys |-> Get(k)]

ReadsOK ==
  /\ Reads \in [Keys -> MaybeVal]
  /\ \A i \in Nodes : node[i].key # Nil => Reads[node[i].key] = node[i].val
  /\ \A k \in Keys : InArray(k) => Reads[k] = array[k]
  /\ \A k \in Keys : ~InArray(k) =>
        \/ Reads[k] = Nil
        \/ \E i \in Nodes : node[i].key = k /\ node[i].val = Reads[k]

LEMMA ReadsAreOK == PartsOK => ReadsOK
<1>. SUFFICES ASSUME PartsOK PROVE ReadsOK
  OBVIOUS
<1>1. \A k \in Keys : Reads[k] = Get(k)
  BY DEF Reads
<1>2. Reads \in [Keys -> MaybeVal]
  BY GetIsValue DEF Reads
<1>3. \A i \in Nodes : node[i].key # Nil => node[i].key \in Keys /\ Reads[node[i].key] = node[i].val
  BY <1>1, GetFindsNode DEF PartsOK, NodePartOK, NodeRec
<1>4. \A k \in Keys : InArray(k) => Reads[k] = array[k]
  BY <1>1 DEF Get
<1>5. \A k \in Keys : ~InArray(k) =>
        \/ Reads[k] = Nil
        \/ \E i \in Nodes : node[i].key = k /\ node[i].val = Reads[k]
  BY <1>1, GetOfPresent
<1>. QED
  BY <1>2, <1>3, <1>4, <1>5 DEF ReadsOK

LEMMA ReadsAreOKNext == PartsOK' => ReadsOK'
BY ReadsAreOK, PTL
-----------------------------------------------------------------------------
(* Set changes what one key reads as *)

\* Insertion of a key without a slot, in each of its three endings.
LEMMA NewKeyReads ==
  ASSUME NEW k, NEW v, NewKeyContext(k, v),
         PutInMain(k, v) \/ MoveColliding(k, v) \/ ChainAfter(k, v)
  PROVE  Reads' = [Reads EXCEPT ![k] = v]
<1>. DEFINE mp == MainNode(sizeNode, k)
            on == MainNode(sizeNode, node[mp].key)
<1>. HIDE DEF mp, on
<1>0. /\ k \in Keys /\ k # Nil /\ v \in MaybeVal /\ ~InArray(k)
      /\ TypeOK /\ NodesOK /\ ArrayOK /\ PartsOK
      /\ UNCHANGED <<array, sizeNode, dummy>> /\ Nodes' = Nodes
      /\ mp \in Nodes /\ mp = MainNode(sizeNode, k)
  BY KeyAssumption, MainNodeInRange
     DEF NewKeyContext, IInv, Nodes, TypeOK, mp, PartsOK, ArrayOK, NodePartOK
<1>1. ReadsOK /\ node \in [Nodes -> NodeRec]
  BY <1>0, ReadsAreOK DEF TypeOK
<1>2. ReadsOK' /\ PartsOK' /\ NodesOK' /\ node' \in [Nodes -> NodeRec]
  <2>1. NodePartOK'
    BY PutInMainKeepsNodes, MoveCollidingKeepsNodes, ChainAfterKeepsNodes
  <2>2. ArrayOK'
    BY <1>0 DEF ArrayOK
  <2>3. NodeRec' = NodeRec
    BY <1>0 DEF NodeRec
  <2>. QED
    BY <1>0, <2>1, <2>2, <2>3, ReadsAreOKNext DEF PartsOK, NodePartOK
\* Which keys the nodes hold afterwards, and with which values.
<1>. DEFINE KeysKept ==
              /\ \E i \in Nodes : node'[i].key = k /\ node'[i].val = v
              /\ \A i \in Nodes : node[i].val # Nil =>
                    \E j \in Nodes : node'[j].key = node[i].key /\ node'[j].val = node[i].val
              /\ \A j \in Nodes : node'[j].key # k /\ node'[j].val # Nil =>
                    \E i \in Nodes : node[i].key = node'[j].key /\ node[i].val = node'[j].val
<1>3. ASSUME PutInMain(k, v) PROVE KeysKept
  <2>1. /\ node[mp].val = Nil
        /\ node' = [node EXCEPT ![mp] = [key |-> k, val |-> v, next |-> @.next]]
    BY <1>0, <1>3 DEF PutInMain, MainTaken, mp, MainPosition
  <2>2. /\ \A i \in Nodes : i # mp => node'[i] = node[i]
        /\ node'[mp].key = k /\ node'[mp].val = v
    BY <1>0, <1>1, <1>2, <2>1
  <2>. QED
    BY <1>0, <2>1, <2>2 DEF KeysKept
<1>4. ASSUME MoveColliding(k, v) PROVE KeysKept
  <2>1. PICK n \in Nodes, p \in ChainIn(node, on) :
        /\ IsFreePos(n)
        /\ node' = [node EXCEPT ![p].next = n,
                                ![n] = node[mp],
                                ![mp] = [key |-> k, val |-> v, next |-> NoNode]]
    BY <1>4 DEF MoveColliding, mp, on, MainPosition, Chain
  <2>2. /\ node[n].key = Nil /\ node[n].val = Nil /\ p \in Nodes
        /\ ~dummy /\ node[mp].val # Nil
    BY <1>0, <1>1, <1>4, <2>1 DEF MoveColliding, MainTaken, MainPosition, mp, IsFreePos, NodesOK,
       FreeNodesUnlinked, DummyStaysEmpty, ChainIn, Nodes
  <2>3. n # mp
    BY <2>2
  <2>4. /\ \A i \in Nodes : i # mp /\ i # n => node'[i].key = node[i].key /\ node'[i].val = node[i].val
        /\ node'[mp].key = k /\ node'[mp].val = v
        /\ node'[n].key = node[mp].key /\ node'[n].val = node[mp].val
    <3>1. /\ node'[mp] = [key |-> k, val |-> v, next |-> NoNode]
          /\ node'[n] = node[mp]
      BY <1>0, <1>1, <1>2, <2>1, <2>2, <2>3
    <3>2. \A i \in Nodes : i # mp /\ i # n =>
            node'[i] = IF i = p THEN [node[p] EXCEPT !.next = n] ELSE node[i]
      BY <1>0, <1>1, <1>2, <2>1, <2>2, <2>3
    <3>. QED
      BY <1>1, <2>2, <3>1, <3>2 DEF NodeRec
  <2>. QED
    BY <1>0, <2>1, <2>2, <2>3, <2>4 DEF KeysKept
<1>5. ASSUME ChainAfter(k, v) PROVE KeysKept
  <2>1. PICK n \in Nodes :
        /\ IsFreePos(n)
        /\ node' = [node EXCEPT ![n] = [key |-> k, val |-> v, next |-> node[mp].next],
                                ![mp].next = n]
    BY <1>5 DEF ChainAfter, mp, MainPosition
  <2>2. node[n].key = Nil /\ node[n].val = Nil /\ ~dummy /\ node[mp].val # Nil
    BY <1>0, <1>5, <2>1 DEF ChainAfter, MainTaken, MainPosition, mp, IsFreePos, NodesOK,
       FreeNodesUnlinked, DummyStaysEmpty, Nodes
  <2>3. n # mp
    BY <2>2
  <2>4. /\ \A i \in Nodes : i # n => node'[i].key = node[i].key /\ node'[i].val = node[i].val
        /\ node'[n].key = k /\ node'[n].val = v
    BY <1>0, <1>1, <1>2, <2>1, <2>2, <2>3 DEF NodeRec
  <2>. QED
    BY <1>0, <2>1, <2>2, <2>3, <2>4 DEF KeysKept
<1>6. KeysKept
  BY <1>3, <1>4, <1>5
<1>7. Reads'[k] = v
  BY <1>0, <1>2, <1>6 DEF ReadsOK
<1>8. ASSUME NEW q \in Keys, q # k
      PROVE  Reads'[q] = Reads[q]
  <2>1. CASE InArray(q)
    BY <1>0, <1>1, <1>2, <1>8, <2>1 DEF ReadsOK, InArray
  <2>2. CASE ~InArray(q) /\ Reads[q] # Nil
    <3>1. PICK i \in Nodes : node[i].key = q /\ node[i].val = Reads[q]
      BY <1>1, <1>8, <2>2 DEF ReadsOK
    <3>2. PICK j \in Nodes : node'[j].key = q /\ node'[j].val = Reads[q]
      BY <1>6, <2>2, <3>1
    <3>. QED
      BY <1>0, <1>2, <3>2, KeyAssumption DEF ReadsOK
  <2>3. CASE ~InArray(q) /\ Reads[q] = Nil
    <3>. SUFFICES ASSUME Reads'[q] # Nil PROVE FALSE
      BY <2>3
    <3>1. PICK j \in Nodes : node'[j].key = q /\ node'[j].val = Reads'[q]
      BY <1>0, <1>2, <1>8, <2>3 DEF ReadsOK, InArray
    <3>2. PICK i \in Nodes : node[i].key = q /\ node[i].val # Nil
      BY <1>6, <1>8, <3>1
    <3>. QED
      BY <1>1, <2>3, <3>2, KeyAssumption DEF ReadsOK
  <2>. QED
    BY <2>1, <2>2, <2>3
<1>9. Reads \in [Keys -> MaybeVal] /\ Reads' \in [Keys -> MaybeVal]
  BY <1>1, <1>2 DEF ReadsOK, MaybeVal, Keys
<1>. QED
  BY <1>0, <1>7, <1>8, <1>9

LEMMA StoreReads ==
  ASSUME IInv, NEW k \in Keys, NEW v \in MaybeVal, Store(k, v)
  PROVE  Reads' = [Reads EXCEPT ![k] = v]
<1>0. /\ TypeOK /\ NodesOK /\ PartsOK /\ ReadsOK
      /\ UNCHANGED <<sizeNode, dummy>> /\ Nodes' = Nodes
      /\ k # Nil
  BY KeyAssumption, ReadsAreOK DEF IInv, TypeOK, PartsOK, ArrayOK, NodePartOK, Store, Nodes
<1>1. PartsOK' /\ ReadsOK'
  BY StoreKeepsTable, ReadsAreOKNext DEF PartsOK
<1>2. Reads \in [Keys -> MaybeVal] /\ Reads' \in [Keys -> MaybeVal]
  BY <1>0, <1>1 DEF ReadsOK, MaybeVal, Keys
<1>3. CASE /\ InArray(k)
           /\ array' = [array EXCEPT ![k] = v]
           /\ UNCHANGED <<node, lastFree>>
  <2>1. /\ Len(array') = Len(array) /\ array'[k] = v
        /\ \A i \in 1 .. Len(array) : i # k => array'[i] = array[i]
    BY <1>0, <1>3, ExceptSeq DEF InArray, TypeOK
  <2>2. \A q \in Keys : InArray(q) <=> InArray(q)'
    BY <2>1 DEF InArray
  <2>3. Reads'[k] = v
    BY <1>1, <1>3, <2>1 DEF ReadsOK, InArray
  <2>4. ASSUME NEW q \in Keys, q # k PROVE Reads'[q] = Reads[q]
    <3>1. CASE InArray(q)
      <4>1. q \in 1 .. Len(array) /\ array'[q] = array[q]
        BY <2>1, <2>4, <3>1 DEF InArray
      <4>. QED
        BY <1>0, <1>1, <2>2, <3>1, <4>1 DEF ReadsOK
    <3>2. CASE ~InArray(q)
      <4>1. ~InArray(q)' /\ q # Nil /\ node' = node /\ Nodes' = Nodes
        BY <1>0, <1>3, <2>2, <2>4, <3>2, KeyAssumption DEF Keys, Nodes
      <4>2. ASSUME NEW i \in Nodes, node[i].key = q PROVE Reads[q] = node[i].val /\ Reads'[q] = node[i].val
        BY <1>0, <1>1, <4>1, <4>2 DEF ReadsOK
      <4>3. Reads[q] = Nil \/ \E i \in Nodes : node[i].key = q /\ node[i].val = Reads[q]
        BY <1>0, <3>2 DEF ReadsOK
      <4>4. Reads'[q] = Nil \/ \E i \in Nodes : node[i].key = q /\ node[i].val = Reads'[q]
        BY <1>1, <4>1 DEF ReadsOK
      <4>. QED
        BY <4>2, <4>3, <4>4
    <3>. QED
      BY <3>1, <3>2
  <2>. QED
    BY <1>2, <2>3, <2>4
<1>4. CASE /\ ~InArray(k)
           /\ \E i \in Found(k) : node' = [node EXCEPT ![i].val = v]
           /\ UNCHANGED <<array, lastFree>>
  <2>1. PICK i \in Nodes : node[i].key = k /\ node' = [node EXCEPT ![i].val = v]
    BY <1>0, <1>4 DEF Found, TypeOK
  <2>2. /\ \A j \in Nodes : node'[j].key = node[j].key
        /\ \A j \in Nodes : j # i => node'[j] = node[j]
        /\ node'[i].val = v
    BY <1>0, <2>1 DEF TypeOK, NodeRec
  <2>3. Reads'[k] = v
    BY <1>0, <1>1, <2>1, <2>2 DEF ReadsOK
  <2>4. ASSUME NEW q \in Keys, q # k PROVE Reads'[q] = Reads[q]
    <3>1. CASE InArray(q)
      BY <1>0, <1>1, <1>4, <2>4, <3>1 DEF ReadsOK, InArray
    <3>2. CASE ~InArray(q) /\ \E j \in Nodes : node[j].key = q
      <4>1. PICK j \in Nodes : node[j].key = q
        BY <3>2
      <4>2. j # i /\ q # Nil
        BY <2>1, <2>4, <4>1, KeyAssumption
      <4>. QED
        BY <1>0, <1>1, <2>2, <4>1, <4>2 DEF ReadsOK
    <3>3. CASE ~InArray(q) /\ ~\E j \in Nodes : node[j].key = q
      <4>1. ~InArray(q)' /\ ~\E j \in Nodes' : node'[j].key = q
        BY <1>0, <1>4, <2>2, <3>3 DEF InArray
      <4>. QED
        BY <1>0, <1>1, <2>4, <3>3, <4>1 DEF ReadsOK
    <3>. QED
      BY <3>1, <3>2, <3>3
  <2>. QED
    BY <1>2, <2>3, <2>4
<1>5. CASE /\ ~InArray(k)
           /\ Found(k) = {}
           /\ PutInMain(k, v) \/ MoveColliding(k, v) \/ ChainAfter(k, v)
           /\ UNCHANGED array
  <2>1. NewKeyContext(k, v)
    BY <1>0, <1>5 DEF NewKeyContext
  <2>. QED
    BY <1>5, <2>1, NewKeyReads
<1>. QED
  BY <1>3, <1>4, <1>5 DEF Store
-----------------------------------------------------------------------------
(* Resize puts aside what it takes out of the table *)

\* No key waits twice.
PendingOnce ==
  \A i, j \in 1 .. Len(pending) :
    pending[i].val # Nil /\ pending[j].val # Nil /\ pending[i].key = pending[j].key => i = j

\* An entry that waits is not in the table yet, nor is it the one whose
\* insertion needed the rehash.
PendingAbsent ==
  \A i \in 1 .. Len(pending) :
    pending[i].val # Nil => Reads[pending[i].key] = Nil /\ pending[i].key # extra.key

\* The key whose insertion needed the rehash is not in the table.
ExtraAbsent == extra # NoExtra => Reads[extra.key] = Nil

RInv == IInv /\ PendingOnce /\ PendingAbsent /\ ExtraAbsent

\* What resize puts aside, entry by entry: the slice of the array part above
\* na, then the nodes from the last one down.
LEMMA SetAside ==
  ASSUME TypeOK, NEW na \in Nat, pending' = Slice(na) \o OldNodes
  PROVE  LET d == IF na < Len(array) THEN Len(array) - na ELSE 0
         IN /\ d \in Nat
            /\ Len(pending') = d + sizeNode
            /\ \A i \in 1 .. d : pending'[i].key = na + i /\ pending'[i].val = array[na + i]
            /\ \A i \in d + 1 .. d + sizeNode :
                 /\ sizeNode - (i - d) \in Nodes
                 /\ pending'[i].key = node[sizeNode - (i - d)].key
                 /\ pending'[i].val = node[sizeNode - (i - d)].val
<1>. DEFINE d == IF na < Len(array) THEN Len(array) - na ELSE 0
            Any == { Slice(na)[i] : i \in 1 .. d } \cup { OldNodes[i] : i \in 1 .. sizeNode }
<1>0. /\ Len(array) \in Nat /\ d \in Nat
      /\ sizeNode \in Nat
  BY DEF TypeOK
<1>1. /\ Slice(na) \in Seq(Any) /\ Len(Slice(na)) = d
      /\ \A i \in 1 .. d : Slice(na)[i] = [key |-> na + i, val |-> array[na + i]]
  <2>1. CASE na < Len(array)
    <3>1. Slice(na) = [i \in 1 .. d |-> [key |-> na + i, val |-> array[na + i]]]
      BY <2>1 DEF Slice
    <3>2. Slice(na) \in [1 .. d -> Any]
      BY <3>1
    <3>3. Slice(na) \in Seq(Any) /\ Len(Slice(na)) = d
      BY <1>0, <3>2, FunIsSeq
    <3>. QED
      BY <3>1, <3>3
  <2>2. CASE ~(na < Len(array))
    BY <1>0, <2>2, EmptySeq DEF Slice
  <2>. QED
    BY <2>1, <2>2
<1>2. /\ OldNodes \in Seq(Any) /\ Len(OldNodes) = sizeNode
      /\ \A i \in 1 .. sizeNode : OldNodes[i] = [key |-> node[sizeNode - i].key,
                                                 val |-> node[sizeNode - i].val]
  <2>1. OldNodes \in [1 .. sizeNode -> Any]
    BY DEF OldNodes
  <2>2. OldNodes \in Seq(Any) /\ Len(OldNodes) = sizeNode
    BY <1>0, <2>1, FunIsSeq
  <2>. QED
    BY <2>2 DEF OldNodes
<1>. HIDE DEF Any, d
<1>3. /\ Len(pending') = Len(Slice(na)) + Len(OldNodes)
      /\ \A i \in 1 .. Len(Slice(na)) + Len(OldNodes) :
            pending'[i] = IF i <= Len(Slice(na)) THEN Slice(na)[i]
                          ELSE OldNodes[i - Len(Slice(na))]
  <2>1. Slice(na) \in Seq(Any) /\ OldNodes \in Seq(Any)
    BY <1>1, <1>2
  <2>. QED
    BY <2>1, ConcatProperties
<1>4. \A i \in 1 .. d : pending'[i].key = na + i /\ pending'[i].val = array[na + i]
  <2>1. \A i \in 1 .. d : pending'[i] = Slice(na)[i]
    BY <1>0, <1>1, <1>2, <1>3
  <2>. QED
    BY <1>1, <2>1
<1>5. \A i \in d + 1 .. d + sizeNode :
        /\ sizeNode - (i - d) \in Nodes
        /\ pending'[i].key = node[sizeNode - (i - d)].key
        /\ pending'[i].val = node[sizeNode - (i - d)].val
  <2>1. \A i \in d + 1 .. d + sizeNode :
          /\ i - d \in 1 .. sizeNode /\ sizeNode - (i - d) \in Nodes
          /\ pending'[i] = OldNodes[i - d]
    BY <1>0, <1>1, <1>2, <1>3 DEF Nodes
  <2>2. \A j \in 1 .. sizeNode : /\ OldNodes[j].key = node[sizeNode - j].key
                                 /\ OldNodes[j].val = node[sizeNode - j].val
    BY <1>2
  <2>. QED
    BY <2>1, <2>2
<1>6. Len(pending') = d + sizeNode
  BY <1>1, <1>2, <1>3
<1>. QED
  BY <1>0, <1>1, <1>2, <1>4, <1>5, <1>6 DEF d

\* After the first half of resize every key with a value is where it was or
\* waits once, with its value.
LEMMA ResizeMoves ==
  ASSUME IInv, NEW na \in Nat, NEW nh, Resize(na, nh)
  PROVE  /\ PendingOnce'
         /\ \A i \in 1 .. Len(pending') : pending'[i].val # Nil =>
               /\ pending'[i].key \in Keys
               /\ Reads[pending'[i].key] = pending'[i].val
               /\ Reads'[pending'[i].key] = Nil
         /\ \A q \in Keys : Reads[q] # Nil =>
               \/ Reads'[q] = Reads[q]
               \/ \E i \in 1 .. Len(pending') :
                    pending'[i].key = q /\ pending'[i].val = Reads[q]
         /\ \A q \in Keys : Reads'[q] # Nil => Reads'[q] = Reads[q]
<1>. DEFINE d == IF na < Len(array) THEN Len(array) - na ELSE 0
<1>0. /\ TypeOK /\ NodesOK /\ ReadsOK /\ Len(array) \in Nat /\ sizeNode \in Nat
      /\ array \in Seq(MaybeVal)
  BY ReadsAreOK DEF IInv, PartsOK, ArrayOK, NodePartOK, TypeOK
<1>1. /\ d \in Nat
      /\ Len(pending') = d + sizeNode
      /\ \A i \in 1 .. d : pending'[i].key = na + i /\ pending'[i].val = array[na + i]
      /\ \A i \in d + 1 .. d + sizeNode :
           /\ sizeNode - (i - d) \in Nodes
           /\ pending'[i].key = node[sizeNode - (i - d)].key
           /\ pending'[i].val = node[sizeNode - (i - d)].val
  <2>1. pending' = Slice(na) \o OldNodes
    BY DEF Resize
  <2>. QED
    BY <1>0, <2>1, SetAside
<1>9. /\ \A i \in 1 .. d : na + i \in 1 .. Len(array)
      /\ \A p \in 1 .. Len(array) : p > na => p - na \in 1 .. d
  BY <1>0
<1>. HIDE DEF d
<1>10. \A i \in 1 .. Len(pending') : IF i <= d THEN i \in 1 .. d ELSE i \in d + 1 .. d + sizeNode
  BY <1>0, <1>1
\* The parts after resize.
<1>2. /\ ReadsOK' /\ PendingOK'
      /\ \A j \in Nodes' : node'[j].key = Nil
      /\ array' = [i \in 1 .. na |-> IF i <= Len(array) THEN array[i] ELSE Nil]
  <2>1. ArrayOK' /\ NodePartOK' /\ PendingOK'
    BY ResizeKeepsTable
  <2>2. \A j \in Nodes' : node'[j].key = Nil
    BY DEF Resize, SetNodeVector, Nodes, FreeNode
  <2>. QED
    BY <2>1, <2>2, ReadsAreOKNext DEF PartsOK, Resize
<1>3. \A q \in 1 .. na : q \in DOMAIN array' /\ Len(array') = na
  <2>1. \A i \in 1 .. na : (IF i <= Len(array) THEN array[i] ELSE Nil) \in MaybeVal
    BY <1>0 DEF MaybeVal
  <2>. QED
    BY <1>2, <2>1, FunIsSeq
<1>4. Len(array') = na
  <2>1. array' \in [1 .. na -> MaybeVal]
    BY <1>0, <1>2 DEF MaybeVal
  <2>. QED
    BY <2>1, FunIsSeq
\* Nothing but the array part holds values now.
<1>5. ASSUME NEW q \in Keys, Reads'[q] # Nil
      PROVE  /\ q \in IntKeys /\ q \in 1 .. na /\ q <= Len(array)
             /\ Reads'[q] = Reads[q]
  <2>1. InArray(q)'
    BY <1>2, <1>5, KeyAssumption DEF ReadsOK, Keys
  <2>2. q \in IntKeys /\ q \in 1 .. na /\ Reads'[q] = array'[q]
    BY <1>2, <1>4, <2>1 DEF ReadsOK, InArray, Keys
  <2>3. q <= Len(array) /\ array'[q] = array[q]
    BY <1>2, <1>5, <2>2
  <2>4. Reads[q] = array[q]
    BY <1>0, <2>2, <2>3 DEF ReadsOK, InArray
  <2>. QED
    BY <2>2, <2>3, <2>4
<1>6. ASSUME NEW i \in 1 .. Len(pending'), pending'[i].val # Nil
      PROVE  /\ pending'[i].key \in Keys
             /\ Reads[pending'[i].key] = pending'[i].val
             /\ Reads'[pending'[i].key] = Nil
             /\ i <= d => InArray(pending'[i].key)
             /\ ~(i <= d) => ~InArray(pending'[i].key)
  <2>0. pending'[i].key \in Keys
    BY <1>2, <1>6 DEF PendingOK, Keys
  <2>1. CASE i <= d
    <3>1. /\ pending'[i].key = na + i /\ pending'[i].val = array[na + i]
          /\ na + i \in 1 .. Len(array)
      BY <1>1, <1>9, <1>10, <2>1
    <3>2. na + i \in IntKeys /\ InArray(na + i)
      BY <1>0, <1>6, <3>1 DEF TypeOK, InArray
    <3>3. Reads[na + i] = array[na + i]
      BY <1>0, <2>0, <3>1, <3>2 DEF ReadsOK
    <3>4. na + i \notin 1 .. na
      BY <1>1, <2>1
    <3>5. Reads'[na + i] = Nil
      BY <1>5, <2>0, <3>1, <3>4
    <3>. QED
      BY <2>0, <2>1, <3>1, <3>2, <3>3, <3>5
  <2>2. CASE ~(i <= d)
    <3>. DEFINE j == sizeNode - (i - d)
    <3>1. j \in Nodes /\ pending'[i].key = node[j].key /\ pending'[i].val = node[j].val
      BY <1>1, <1>10, <2>2
    <3>. HIDE DEF j
    <3>2. node[j].key # Nil /\ Reads[node[j].key] = node[j].val /\ ~InArray(node[j].key)
      BY <1>0, <1>6, <3>1 DEF ReadsOK, NodesOK, FreeNodesUnlinked, OneSlotPerKey
    <3>3. Reads'[node[j].key] = Nil
      <4>. SUFFICES ASSUME Reads'[node[j].key] # Nil PROVE FALSE
        OBVIOUS
      <4>1. node[j].key \in IntKeys /\ node[j].key \in 1 .. Len(array)
        BY <1>0, <1>5, <2>0, <3>1
      <4>. QED
        BY <3>2, <4>1 DEF InArray
    <3>. QED
      BY <2>0, <2>2, <3>1, <3>2, <3>3
  <2>. QED
    BY <2>1, <2>2
<1>7. PendingOnce'
  <2>. SUFFICES ASSUME NEW i \in 1 .. Len(pending'), NEW j \in 1 .. Len(pending'),
                       pending'[i].val # Nil, pending'[j].val # Nil,
                       pending'[i].key = pending'[j].key
                PROVE  i = j
    BY DEF PendingOnce
  <2>a. pending'[i].key = pending'[j].key
    OBVIOUS
  <2>1. i <= d <=> j <= d
    BY <1>6
  <2>2. CASE i <= d
    <3>1. pending'[i].key = na + i /\ pending'[j].key = na + j
      BY <1>1, <1>10, <2>1, <2>2
    <3>2. i \in Int /\ j \in Int
      BY <1>0, <1>1
    <3>3. na + i = na + j
      BY <3>1
    <3>. QED
      BY <3>2, <3>3
  <2>3. CASE ~(i <= d)
    <3>. DEFINE m == sizeNode - (i - d)
                n == sizeNode - (j - d)
    <3>1. /\ m \in Nodes /\ pending'[i].key = node[m].key
          /\ n \in Nodes /\ pending'[j].key = node[n].key
          /\ node[m].val # Nil
      BY <1>1, <1>10, <2>1, <2>3
    <3>2. m = n
      <4>. HIDE DEF m, n
      <4>. QED
        <5>1. node[m].key # Nil
          BY <1>0, <3>1 DEF NodesOK, FreeNodesUnlinked
        <5>2. node[m].key = node[n].key
          BY <2>a, <3>1
        <5>. QED
          BY <1>0, <3>1, <5>1, <5>2 DEF NodesOK, OneSlotPerKey
    <3>. QED
      BY <1>0, <1>1, <3>2
  <2>. QED
    BY <2>2, <2>3
<1>8. ASSUME NEW q \in Keys, Reads[q] # Nil
      PROVE  \/ Reads'[q] = Reads[q]
             \/ \E i \in 1 .. Len(pending') : pending'[i].key = q /\ pending'[i].val = Reads[q]
  <2>1. CASE InArray(q) /\ q <= na
    <3>1. InArray(q)' /\ array'[q] = array[q]
      BY <1>0, <1>2, <1>4, <2>1 DEF InArray
    <3>. QED
      BY <1>0, <1>2, <2>1, <3>1 DEF ReadsOK, Keys
  <2>2. CASE InArray(q) /\ ~(q <= na)
    <3>1. q - na \in 1 .. d /\ na + (q - na) = q /\ q - na \in 1 .. Len(pending')
      BY <1>0, <1>1, <1>9, <2>2 DEF InArray
    <3>2. pending'[q - na].key = q /\ pending'[q - na].val = array[q]
      BY <1>1, <3>1
    <3>. QED
      BY <1>0, <2>2, <3>1, <3>2 DEF ReadsOK
  <2>3. CASE ~InArray(q)
    <3>1. PICK j \in Nodes : node[j].key = q /\ node[j].val = Reads[q]
      BY <1>0, <1>8, <2>3 DEF ReadsOK
    <3>. DEFINE i == d + (sizeNode - j)
    <3>2. i \in d + 1 .. d + sizeNode /\ sizeNode - (i - d) = j /\ i \in 1 .. Len(pending')
      BY <1>0, <1>1 DEF Nodes
    <3>3. pending'[i].key = q /\ pending'[i].val = Reads[q]
      <4>. HIDE DEF i
      <4>. QED
        BY <1>1, <3>1, <3>2
    <3>. QED
      BY <3>2, <3>3
  <2>. QED
    BY <2>1, <2>2, <2>3
<1>. QED
  BY <1>5, <1>6, <1>7, <1>8
-----------------------------------------------------------------------------
(* What the table contains, while entries wait and while none does *)

Coming(k) == \E i \in 1 .. Len(pending) : pending[i].val # Nil /\ pending[i].key = k

ContentsOK ==
  /\ Contents \in [Keys -> MaybeVal]
  /\ \A i \in 1 .. Len(pending) :
        pending[i].val # Nil => Contents[pending[i].key] = pending[i].val
  /\ \A k \in Keys : ~Coming(k) => Contents[k] = IF extra.key = k THEN extra.val ELSE Reads[k]

LEMMA ContentsAreOK == RInv => ContentsOK
<1>. SUFFICES ASSUME RInv PROVE ContentsOK
  OBVIOUS
<1>0. TypeOK /\ PendingOnce /\ ReadsOK
  BY ReadsAreOK DEF RInv, IInv, TypeOK, PartsOK, ArrayOK, NodePartOK
<1>1. \A k \in Keys : Contents[k] = IF Waiting(k) # {} THEN CHOOSE v \in Waiting(k) : TRUE
                                   ELSE IF extra.key = k THEN extra.val
                                   ELSE Reads[k]
  BY DEF Contents, Reads
<1>2. ASSUME NEW i \in 1 .. Len(pending), pending[i].val # Nil
      PROVE  pending[i].key \in Keys /\ Contents[pending[i].key] = pending[i].val
  <2>1. pending[i].key \in Keys
    BY <1>0, <1>2 DEF TypeOK
  <2>2. Waiting(pending[i].key) = {pending[i].val}
    BY <1>0, <1>2 DEF Waiting, PendingOnce
  <2>. QED
    BY <1>1, <2>1, <2>2
<1>3. ASSUME NEW k \in Keys, ~Coming(k)
      PROVE  Contents[k] = IF extra.key = k THEN extra.val ELSE Reads[k]
  <2>1. Waiting(k) = {}
    BY <1>3 DEF Waiting, Coming
  <2>. QED
    BY <1>1, <2>1
<1>4. ASSUME NEW k \in Keys PROVE Contents[k] \in MaybeVal
  <2>1. CASE Coming(k)
    <3>1. PICK i \in 1 .. Len(pending) : pending[i].val # Nil /\ pending[i].key = k
      BY <2>1 DEF Coming
    <3>2. pending[i].val \in MaybeVal
      <4>1. pending \in Seq(Entry)
        BY <1>0 DEF TypeOK
      <4>2. pending[i] \in Entry
        BY <4>1, ElementOfSeq
      <4>. QED
        BY <4>2 DEF Entry
    <3>. QED
      BY <1>2, <3>1, <3>2
  <2>2. CASE ~Coming(k)
    BY <1>0, <1>3, <2>2 DEF TypeOK, ReadsOK
  <2>. QED
    BY <2>1, <2>2
<1>5. Contents \in [Keys -> MaybeVal]
  BY <1>4 DEF Contents
<1>. QED
  BY <1>2, <1>3, <1>5 DEF ContentsOK

LEMMA ContentsAreOKNext == RInv' => ContentsOK'
BY ContentsAreOK, PTL

\* Without a rehash under way the table contains what it answers.
LEMMA ContentsWhenIdle == RInv /\ Idle => Contents = Reads
<1>. SUFFICES ASSUME RInv, Idle PROVE Contents = Reads
  OBVIOUS
<1>1. ContentsOK /\ TypeOK /\ ReadsOK
  BY ContentsAreOK, ReadsAreOK DEF RInv, IInv, TypeOK, PartsOK, ArrayOK, NodePartOK
<1>2. Len(pending) = 0 /\ extra.key = Nil
  BY DEF Idle, NoExtra
<1>3. \A k \in Keys : Contents[k] = Reads[k]
  BY <1>1, <1>2, KeyAssumption DEF ContentsOK, Coming
<1>. QED
  BY <1>1, <1>3 DEF ContentsOK, ReadsOK

ContainsReads == Contents = Reads

LEMMA ContentsWhenIdleNext == RInv' /\ Idle' => Contents' = Reads'
<1>1. RInv /\ Idle => ContainsReads
  BY ContentsWhenIdle DEF ContainsReads
<1>2. RInv' /\ Idle' => ContainsReads'
  BY <1>1, PTL
<1>. QED
  BY <1>2 DEF ContainsReads
-----------------------------------------------------------------------------
(* The steps *)

\* Set, when there is room: the table contains the new value.
LEMMA StoreAssigns ==
  ASSUME RInv, Idle, NEW k \in Keys, NEW v \in MaybeVal,
         Store(k, v), UNCHANGED <<pending, extra>>, IInv'
  PROVE  RInv' /\ Contents' = [Contents EXCEPT ![k] = v]
<1>1. Reads' = [Reads EXCEPT ![k] = v]
  BY StoreReads DEF RInv
<1>2. RInv' /\ Idle'
  BY DEF RInv, Idle, PendingOnce, PendingAbsent, ExtraAbsent
<1>. QED
  BY <1>1, <1>2, ContentsWhenIdle, ContentsWhenIdleNext

\* The first half of resize, with or without a key that still has to come.
LEMMA ResizeKeepsContents ==
  ASSUME RInv, Idle, NEW na \in Nat, NEW nh, Resize(na, nh), IInv',
         \/ extra' = NoExtra
         \/ extra'.key \in Keys /\ Reads[extra'.key] = Nil
  PROVE  /\ RInv'
         /\ \A q \in Keys : Contents'[q] = IF extra'.key = q THEN extra'.val ELSE Contents[q]
<1>0. /\ IInv /\ TypeOK /\ ReadsOK /\ ContentsOK /\ Contents = Reads
      /\ NoExtra.key = Nil
  BY ContentsAreOK, ContentsWhenIdle, ReadsAreOK
     DEF RInv, IInv, TypeOK, PartsOK, ArrayOK, NodePartOK, NoExtra
<1>1. /\ PendingOnce'
      /\ \A i \in 1 .. Len(pending') : pending'[i].val # Nil =>
            /\ pending'[i].key \in Keys
            /\ Reads[pending'[i].key] = pending'[i].val
            /\ Reads'[pending'[i].key] = Nil
      /\ \A q \in Keys : Reads[q] # Nil =>
            \/ Reads'[q] = Reads[q]
            \/ \E i \in 1 .. Len(pending') :
                 pending'[i].key = q /\ pending'[i].val = Reads[q]
      /\ \A q \in Keys : Reads'[q] # Nil => Reads'[q] = Reads[q]
  BY <1>0, ResizeMoves
<1>2. PendingAbsent'
  BY <1>0, <1>1, KeyAssumption DEF PendingAbsent
<1>3. ExtraAbsent'
  BY <1>1 DEF ExtraAbsent, NoExtra
<1>4. RInv' /\ ContentsOK'
  BY <1>1, <1>2, <1>3, ContentsAreOKNext DEF RInv
<1>5. ASSUME NEW q \in Keys
      PROVE  Contents'[q] = IF extra'.key = q THEN extra'.val ELSE Contents[q]
  <2>1. CASE Coming(q)'
    <3>1. PICK i \in 1 .. Len(pending') : pending'[i].val # Nil /\ pending'[i].key = q
      BY <2>1 DEF Coming
    <3>2. extra'.key # q
      BY <1>2, <3>1 DEF PendingAbsent
    <3>. QED
      BY <1>0, <1>1, <1>4, <3>1, <3>2 DEF ContentsOK
  <2>2. CASE ~Coming(q)'
    <3>1. Contents'[q] = IF extra'.key = q THEN extra'.val ELSE Reads'[q]
      BY <1>4, <2>2 DEF ContentsOK, Keys
    <3>2. Reads'[q] = Reads[q]
      BY <1>1, <2>2 DEF Coming
    <3>. QED
      BY <1>0, <3>1, <3>2
  <2>. QED
    BY <2>1, <2>2
<1>. QED
  BY <1>4, <1>5

\* rehash gives up, or moves the entries and keeps the key for the end.
LEMMA RehashAssigns ==
  ASSUME RInv, Idle, NEW k \in Keys, NEW v \in MaybeVal, ~InArray(k), Found(k) = {},
         Rehash(k, v), IInv'
  PROVE  /\ RInv'
         /\ \/ Contents' = [Contents EXCEPT ![k] = v]
            \/ crashed' /\ Contents' = Contents
<1>0. TypeOK /\ ContentsOK
  BY ContentsAreOK DEF RInv, IInv
<1>1. CASE /\ crashed' = TRUE
           /\ UNCHANGED <<array, node, sizeNode, dummy, pending, extra>>
  <2>1. Reads' = Reads /\ Idle'
    BY <1>1 DEF Reads, Get, InArray, Found, MainPosition, Idle
  <2>2. RInv'
    BY <1>1, <2>1 DEF RInv, PendingOnce, PendingAbsent, ExtraAbsent
  <2>. QED
    BY <1>1, <2>1, <2>2, ContentsWhenIdle, ContentsWhenIdleNext
<1>2. ASSUME NEW na \in ArraySizes(Candidates(k)), NEW nh, Resize(na, nh),
             extra' = [key |-> k, val |-> v]
      PROVE  RInv' /\ Contents' = [Contents EXCEPT ![k] = v]
  <2>1. na \in Nat
    BY DEF ArraySizes
  <2>2. Reads[k] = Nil
    BY DEF Reads, Get
  <2>3. extra'.key = k /\ extra'.val = v
    BY <1>2
  <2>4. /\ RInv'
        /\ \A q \in Keys : Contents'[q] = IF k = q THEN v ELSE Contents[q]
    BY <1>2, <2>1, <2>2, <2>3, ResizeKeepsContents
  <2>5. Contents \in [Keys -> MaybeVal] /\ Contents' \in [Keys -> MaybeVal]
    BY <1>0, <2>4, ContentsAreOKNext DEF ContentsOK, Keys, MaybeVal
  <2>. QED
    BY <2>4, <2>5
<1>. QED
  BY <1>1, <1>2 DEF Rehash

LEMMA SetKeyAssigns ==
  ASSUME RInv, IInv', NEW k \in Keys, NEW v \in MaybeVal, SetKey(k, v)
  PROVE  /\ RInv'
         /\ \/ Contents' = [Contents EXCEPT ![k] = v]
            \/ crashed' /\ Contents' = Contents
BY StoreAssigns, RehashAssigns DEF SetKey

LEMMA ResizeArrayKeepsContents ==
  ASSUME RInv, IInv', NEW na \in InitArray, ResizeArray(na)
  PROVE  RInv' /\ Contents' = Contents
<1>1. na \in Nat /\ Idle /\ extra' = NoExtra /\ NoExtra.key = Nil
  BY SizeAssumption DEF ResizeArray, Idle, NoExtra
<1>2. RInv' /\ \A q \in Keys : Contents'[q] = Contents[q]
  BY <1>1, ResizeKeepsContents, KeyAssumption DEF ResizeArray
<1>3. Contents \in [Keys -> MaybeVal] /\ Contents' \in [Keys -> MaybeVal]
  BY <1>2, ContentsAreOK, ContentsAreOKNext DEF ContentsOK, Keys, MaybeVal
<1>. QED
  BY <1>2, <1>3

\* An entry that arrives stops waiting: what the table contains is the same.
LEMMA ReinsertKeepsContents ==
  ASSUME RInv, IInv', Reinsert
  PROVE  RInv' /\ Contents' = Contents
<1>0. /\ IInv /\ TypeOK /\ ReadsOK /\ ContentsOK
      /\ PendingOnce /\ PendingAbsent /\ ExtraAbsent
  BY ContentsAreOK, ReadsAreOK DEF RInv, IInv, TypeOK, PartsOK, ArrayOK, NodePartOK
<1>1. pending # <<>> /\ pending' = Tail(pending) /\ extra' = extra /\ pending \in Seq(Entry)
  BY <1>0 DEF Reinsert, TypeOK
<1>2. /\ Len(pending) \in Nat \ {0} /\ Len(pending') = Len(pending) - 1
      /\ \A i \in 1 .. Len(pending') : i + 1 \in 1 .. Len(pending) /\ pending'[i] = pending[i + 1]
      /\ \A i \in 1 .. Len(pending) : i # 1 => i - 1 \in 1 .. Len(pending') /\ pending'[i - 1] = pending[i]
      /\ Head(pending) = pending[1] /\ 1 \in 1 .. Len(pending)
  BY <1>1, HeadTailProperties, EmptySeq, LenProperties
<1>. DEFINE h == pending[1].key
            w == pending[1].val
<1>3. PendingOnce'
  <2>. SUFFICES ASSUME NEW i \in 1 .. Len(pending'), NEW j \in 1 .. Len(pending'),
                       pending'[i].val # Nil, pending'[j].val # Nil,
                       pending'[i].key = pending'[j].key
                PROVE  i = j
    BY DEF PendingOnce
  <2>1. i + 1 = j + 1 /\ i \in Int /\ j \in Int
    BY <1>0, <1>2 DEF PendingOnce
  <2>. QED
    BY <2>1
<1>4. CASE /\ w = Nil
           /\ UNCHANGED <<array, node, sizeNode, dummy>>
  <2>1. Reads' = Reads
    BY <1>4 DEF Reads, Get, InArray, Found, MainPosition
  <2>2. PendingAbsent' /\ ExtraAbsent'
    BY <1>0, <1>1, <1>2, <2>1 DEF PendingAbsent, ExtraAbsent
  <2>3. RInv' /\ ContentsOK'
    BY <1>3, <2>2, ContentsAreOKNext DEF RInv
  <2>4. ASSUME NEW q \in Keys PROVE Contents'[q] = Contents[q]
    <3>1. CASE Coming(q)'
      <4>1. PICK i \in 1 .. Len(pending') : pending'[i].val # Nil /\ pending'[i].key = q
        BY <3>1 DEF Coming
      <4>. QED
        BY <1>0, <1>2, <2>3, <4>1 DEF ContentsOK
    <3>2. CASE ~Coming(q)'
      <4>1. ASSUME Coming(q) PROVE FALSE
        <5>1. PICK i \in 1 .. Len(pending) : pending[i].val # Nil /\ pending[i].key = q
          BY <4>1 DEF Coming
        <5>2. i # 1 /\ i \in Nat /\ i - 1 \in 1 .. Len(pending')
          BY <1>2, <1>4, <5>1
        <5>3. pending'[i - 1] = pending[i]
          BY <1>2, <5>1, <5>2
        <5>. QED
          BY <3>2, <5>1, <5>2, <5>3 DEF Coming
      <4>2. Contents[q] = IF extra.key = q THEN extra.val ELSE Reads[q]
        BY <1>0, <4>1 DEF ContentsOK
      <4>3. Contents'[q] = IF extra'.key = q THEN extra'.val ELSE Reads'[q]
        BY <2>3, <3>2 DEF ContentsOK, Keys
      <4>. QED
        BY <1>1, <2>1, <4>2, <4>3
    <3>. QED
      BY <3>1, <3>2
  <2>. QED
    BY <1>0, <2>3, <2>4 DEF ContentsOK, Keys, MaybeVal
<1>5. CASE w # Nil /\ Store(h, w)
  <2>1. h \in Keys /\ w \in MaybeVal
    <3>1. pending[1] \in Entry
      BY <1>1, <1>2, ElementOfSeq
    <3>. QED
      BY <1>0, <1>2, <1>5, <3>1 DEF TypeOK, Entry
  <2>2. Reads' = [Reads EXCEPT ![h] = w]
    BY <1>0, <1>5, <2>1, StoreReads
  <2>3. Reads \in [Keys -> MaybeVal] /\ extra.key # h /\ Reads[h] = Nil
    BY <1>0, <1>2, <1>5 DEF ReadsOK, PendingAbsent
  <2>4. \A i \in 1 .. Len(pending') : pending'[i].val # Nil => pending'[i].key # h
    <3>. SUFFICES ASSUME NEW i \in 1 .. Len(pending'), pending'[i].val # Nil, pending'[i].key = h
                  PROVE  FALSE
      OBVIOUS
    <3>1. i + 1 = 1 /\ i \in Nat \ {0}
      BY <1>0, <1>2, <1>5 DEF PendingOnce
    <3>. QED
      BY <3>1
  <2>5. \A q \in Keys : q # h => Reads'[q] = Reads[q]
    BY <2>1, <2>2, <2>3
  <2>6. PendingAbsent'
    <3>. SUFFICES ASSUME NEW i \in 1 .. Len(pending'), pending'[i].val # Nil
                  PROVE  Reads'[pending'[i].key] = Nil /\ pending'[i].key # extra'.key
      BY DEF PendingAbsent
    <3>1. /\ pending'[i].key \in Keys /\ Reads[pending'[i].key] = Nil
          /\ pending'[i].key # extra.key
      BY <1>0, <1>2 DEF PendingAbsent, TypeOK
    <3>. QED
      BY <1>1, <2>4, <2>5, <3>1
  <2>7. ExtraAbsent'
    BY <1>0, <1>1, <2>3, <2>5 DEF ExtraAbsent, IInv, ExtraIsKey
  <2>8. RInv' /\ ContentsOK'
    BY <1>3, <2>6, <2>7, ContentsAreOKNext DEF RInv
  <2>9. ASSUME NEW q \in Keys PROVE Contents'[q] = Contents[q]
    <3>1. CASE Coming(q)'
      <4>1. PICK i \in 1 .. Len(pending') : pending'[i].val # Nil /\ pending'[i].key = q
        BY <3>1 DEF Coming
      <4>. QED
        BY <1>0, <1>2, <2>8, <4>1 DEF ContentsOK
    <3>2. CASE q = h
      <4>1. ~Coming(q)' /\ extra'.key # q
        BY <1>1, <2>3, <2>4, <3>2 DEF Coming
      <4>2. Contents'[q] = Reads'[q]
        BY <2>8, <4>1 DEF ContentsOK, Keys
      <4>3. Contents[q] = w
        BY <1>0, <1>2, <1>5, <3>2 DEF ContentsOK
      <4>. QED
        BY <2>1, <2>2, <2>3, <3>2, <4>2, <4>3
    <3>3. CASE ~Coming(q)' /\ q # h
      <4>1. ASSUME Coming(q) PROVE FALSE
        <5>1. PICK i \in 1 .. Len(pending) : pending[i].val # Nil /\ pending[i].key = q
          BY <4>1 DEF Coming
        <5>2. i # 1 /\ i \in Nat /\ i - 1 \in 1 .. Len(pending')
          BY <1>2, <3>3, <5>1
        <5>3. pending'[i - 1] = pending[i]
          BY <1>2, <5>1, <5>2
        <5>. QED
          BY <3>3, <5>1, <5>2, <5>3 DEF Coming
      <4>2. Contents[q] = IF extra.key = q THEN extra.val ELSE Reads[q]
        BY <1>0, <4>1 DEF ContentsOK
      <4>3. Contents'[q] = IF extra'.key = q THEN extra'.val ELSE Reads'[q]
        BY <2>8, <3>3 DEF ContentsOK, Keys
      <4>. QED
        BY <1>1, <2>5, <3>3, <4>2, <4>3
    <3>. QED
      BY <3>1, <3>2, <3>3
  <2>. QED
    BY <1>0, <2>8, <2>9 DEF ContentsOK, Keys, MaybeVal
<1>. QED
  BY <1>2, <1>4, <1>5 DEF Reinsert

\* The key whose insertion needed the rehash arrives last.
LEMMA ReinsertKeyKeepsContents ==
  ASSUME RInv, IInv', ReinsertKey
  PROVE  RInv' /\ Contents' = Contents
<1>0. /\ IInv /\ TypeOK /\ ReadsOK /\ ContentsOK
      /\ pending = <<>> /\ pending' = <<>> /\ extra' = NoExtra /\ NoExtra.key = Nil
      /\ extra.key \in Keys /\ extra.val \in MaybeVal /\ Store(extra.key, extra.val)
  BY ContentsAreOK, ReadsAreOK
     DEF RInv, IInv, TypeOK, PartsOK, ArrayOK, NodePartOK, ReinsertKey, NoExtra, ExtraIsKey
<1>1. Reads' = [Reads EXCEPT ![extra.key] = extra.val]
  BY <1>0, StoreReads
<1>2. RInv' /\ Idle'
  BY <1>0 DEF RInv, Idle, PendingOnce, PendingAbsent, ExtraAbsent
<1>3. Contents' = Reads'
  BY <1>2, ContentsWhenIdleNext
<1>4. \A q \in Keys : Contents[q] = IF extra.key = q THEN extra.val ELSE Reads[q]
  BY <1>0 DEF ContentsOK, Coming
<1>5. Reads \in [Keys -> MaybeVal] /\ Contents \in [Keys -> MaybeVal]
  BY <1>0 DEF ContentsOK, ReadsOK
<1>6. ASSUME NEW q \in Keys PROVE Contents'[q] = Contents[q]
  BY <1>0, <1>1, <1>3, <1>4, <1>5
<1>7. Contents' \in [Keys -> MaybeVal]
  BY <1>0, <1>1, <1>3, <1>5
<1>. QED
  BY <1>2, <1>5, <1>6, <1>7
-----------------------------------------------------------------------------
(* The refinement *)

LEMMA UnchangedKeepsContents ==
  ASSUME RInv, UNCHANGED vars
  PROVE  RInv' /\ Contents' = Contents
<1>1. Reads' = Reads
  BY DEF vars, Reads, Get, InArray, Found, MainPosition
<1>2. Contents' = Contents
  BY DEF vars, Contents, Waiting, Get, InArray, Found, MainPosition
<1>3. IInv'
  BY NextKeepsIInv DEF RInv
<1>. QED
  BY <1>1, <1>2, <1>3 DEF vars, RInv, PendingOnce, PendingAbsent, ExtraAbsent

LEMMA InitEstablishesRInv == Init => RInv /\ Contents = [k \in Keys |-> Nil]
<1>. SUFFICES ASSUME Init PROVE RInv /\ Contents = [k \in Keys |-> Nil]
  OBVIOUS
<1>0. /\ pending = <<>> /\ Len(pending) = 0 /\ extra = NoExtra /\ NoExtra.key = Nil
      /\ IInv /\ Idle
  BY InitEstablishesIInv DEF Init, Idle, NoExtra
<1>1. RInv
  BY <1>0 DEF RInv, PendingOnce, PendingAbsent, ExtraAbsent
<1>2. ReadsOK
  BY <1>0, ReadsAreOK DEF IInv, TypeOK, PartsOK, ArrayOK, NodePartOK
<1>3. \A i \in Nodes : node[i].val = Nil
  BY DEF Init, Nodes, FreeNode
<1>4. \A k \in Keys : InArray(k) => array[k] = Nil
  <2>1. PICK na \in InitArray : array = [i \in 1 .. na |-> Nil]
    BY DEF Init
  <2>2. Len(array) = na
    BY <2>1, SizeAssumption
  <2>. QED
    BY <2>1, <2>2 DEF InArray
<1>5. \A k \in Keys : Reads[k] = Nil
  BY <1>2, <1>3, <1>4 DEF ReadsOK
<1>6. Contents = Reads
  BY <1>0, <1>1, ContentsWhenIdle
<1>. QED
  BY <1>1, <1>2, <1>5, <1>6 DEF ReadsOK

\* What each step does to the contents.
SetAssigns ==
  \A k \in Keys, v \in MaybeVal :
    SetKey(k, v) => \/ Contents' = [Contents EXCEPT ![k] = v]
                    \/ crashed' /\ Contents' = Contents

MovesKeepContents ==
  \/ \E na \in InitArray : ResizeArray(na)
  \/ Reinsert
  \/ ReinsertKey
  => Contents' = Contents

LEMMA NextKeepsRInv == RInv /\ [Next]_vars => RInv' /\ SetAssigns /\ MovesKeepContents
<1>. SUFFICES ASSUME RInv, [Next]_vars PROVE RInv' /\ SetAssigns /\ MovesKeepContents
  OBVIOUS
<1>1. IInv'
  BY NextKeepsIInv DEF RInv
<1>2. SetAssigns
  BY <1>1, SetKeyAssigns DEF SetAssigns
<1>3. MovesKeepContents
  BY <1>1, ResizeArrayKeepsContents, ReinsertKeepsContents, ReinsertKeyKeepsContents
     DEF MovesKeepContents
<1>4. RInv'
  BY <1>1, SetKeyAssigns, ResizeArrayKeepsContents, ReinsertKeepsContents,
     ReinsertKeyKeepsContents, UnchangedKeepsContents DEF Next
<1>. QED
  BY <1>2, <1>3, <1>4

LEMMA RInvHolds == Spec => []RInv
BY InitEstablishesRInv, NextKeepsRInv, PTL DEF Spec

\* Every step of the table is a step of the map.
LEMMA StepsAreMapSteps == RInv /\ [Next]_vars => [Map!Next]_Contents
<1>. SUFFICES ASSUME RInv, [Next]_vars, Contents' # Contents PROVE Map!Next
  OBVIOUS
<1>1. RInv' /\ SetAssigns /\ MovesKeepContents
  BY NextKeepsRInv
<1>2. Contents \in [Keys -> MaybeVal] /\ Contents' \in [Keys -> MaybeVal]
  BY <1>1, ContentsAreOK, ContentsAreOKNext DEF ContentsOK, Keys, MaybeVal
<1>3. PICK k \in Keys, v \in MaybeVal : Contents' = [Contents EXCEPT ![k] = v]
  BY <1>1, UnchangedKeepsContents DEF Next, SetAssigns, MovesKeepContents
<1>4. { q \in Keys : Contents'[q] # Contents[q] } \subseteq {k}
  BY <1>2, <1>3
<1>. QED
  BY <1>2, <1>4 DEF Map!Next, MaybeVal
-----------------------------------------------------------------------------
(* The theorems *)

\* Every Set, rehash, moved node and re-insertion is, for the users of the
\* table, an assignment to one key of a map or nothing at all: newKey and
\* resize lose no key, double none and leave none with an old value.
THEOREM TableImplementsMap == Spec => ImplementsMap
<1>1. Init => Map!Init
  BY InitEstablishesRInv DEF Map!Init
<1>2. RInv /\ [Next]_vars => [Map!Next]_Contents
  BY StepsAreMapSteps
<1>. QED
  BY <1>1, <1>2, RInvHolds, PTL DEF Spec, ImplementsMap, Map!Spec

\* t[k] = v by Set, with or without a rehash, assigns v to k and changes no
\* other key; only a run-time panic of rehash loses the assignment.
THEOREM SetAssignsItsKey == Spec => [][SetAssigns]_vars
BY RInvHolds, NextKeepsRInv, PTL DEF Spec

\* The re-insertions of resize, and OP_SETLIST's resizing of the array part,
\* change no key's value.
THEOREM RehashChangesNoKey == Spec => [][MovesKeepContents]_vars
BY RInvHolds, NextKeepsRInv, PTL DEF Spec
-----------------------------------------------------------------------------
(* A rehash finds room                                                     *)

\* The parts of RoomForPending.
FreeSlots == { i \in Nodes : node[i].key = Nil /\ ~dummy }
ComingSlots == { i \in 1 .. Len(pending) : pending[i].val # Nil /\ ~InArray(pending[i].key) }
ExtraSlots == IF extra # NoExtra /\ ~InArray(extra.key) THEN 1 ELSE 0

LEMMA RoomMeans ==
  RoomForPending <=> (pending # <<>> \/ extra # NoExtra =>
                        Cardinality(ComingSlots) + ExtraSlots <= Cardinality(FreeSlots))
BY DEF RoomForPending, FreeSlots, ComingSlots, ExtraSlots

\* What an array part of size na would leave to the nodes, and what it takes.
UsedAbove(na) == { i \in 1 .. Len(array) : array[i] # Nil /\ i > na }
UsedWithin(na) == { i \in 1 .. Len(array) : array[i] # Nil /\ i <= na }
Leaving(na) == { j \in LiveNodes : node[j].key \in IntKeys /\ node[j].key \in 1 .. na }
Staying(na) == LiveNodes \ Leaving(na)

LEMMA FiniteParts ==
  ASSUME TypeOK, NEW na
  PROVE  /\ IsFiniteSet(UsedAbove(na)) /\ Cardinality(UsedAbove(na)) \in Nat
         /\ IsFiniteSet(UsedWithin(na)) /\ Cardinality(UsedWithin(na)) \in Nat
         /\ IsFiniteSet(Leaving(na)) /\ Cardinality(Leaving(na)) \in Nat
         /\ IsFiniteSet(Staying(na)) /\ Cardinality(Staying(na)) \in Nat
         /\ IsFiniteSet(Nodes) /\ Cardinality(Nodes) = sizeNode
         /\ IsFiniteSet(1 .. Len(array))
<1>1. IsFiniteSet(1 .. Len(array)) /\ IsFiniteSet(Nodes) /\ Cardinality(Nodes) = sizeNode
  <2>1. Len(array) \in Int /\ sizeNode \in Nat \ {0}
    BY DEF TypeOK
  <2>2. IsFiniteSet(1 .. Len(array))
    BY <2>1, FS_Interval
  <2>3. IsFiniteSet(0 .. sizeNode - 1) /\ Cardinality(0 .. sizeNode - 1) = sizeNode
    <3>1. sizeNode - 1 \in Int /\ 0 \in Int /\ ~(0 > sizeNode - 1) /\ sizeNode - 1 - 0 + 1 = sizeNode
      BY <2>1
    <3>. QED
      BY <3>1, FS_Interval
  <2>. QED
    BY <2>2, <2>3 DEF Nodes
<1>2. /\ UsedAbove(na) \in SUBSET (1 .. Len(array)) /\ UsedWithin(na) \in SUBSET (1 .. Len(array))
      /\ Leaving(na) \in SUBSET Nodes /\ Staying(na) \in SUBSET Nodes
  BY DEF UsedAbove, UsedWithin, Leaving, Staying, LiveNodes
<1>3. /\ IsFiniteSet(UsedAbove(na)) /\ IsFiniteSet(UsedWithin(na))
      /\ IsFiniteSet(Leaving(na)) /\ IsFiniteSet(Staying(na))
  BY <1>1, <1>2, FS_Subset
<1>. QED
  BY <1>1, <1>3, FS_CardinalityType

\* Of what resize puts aside, only this much has to go to a node.
LEMMA ComingBound ==
  ASSUME IInv, NEW na \in Nat, NEW nh, Resize(na, nh)
  PROVE  /\ IsFiniteSet(ComingSlots') /\ Cardinality(ComingSlots') \in Nat
         /\ Cardinality(ComingSlots') <= Cardinality(UsedAbove(na)) + Cardinality(Staying(na))
<1>. DEFINE d == IF na < Len(array) THEN Len(array) - na ELSE 0
            S == { i \in ComingSlots' : i <= d }
            N == { i \in ComingSlots' : ~(i <= d) }
            f == [i \in S |-> na + i]
            g == [i \in N |-> sizeNode - (i - d)]
<1>0. TypeOK /\ Len(array) \in Nat /\ sizeNode \in Nat
  BY DEF IInv, TypeOK
<1>1. /\ d \in Nat
      /\ Len(pending') = d + sizeNode
      /\ \A i \in 1 .. d : pending'[i].key = na + i /\ pending'[i].val = array[na + i]
      /\ \A i \in d + 1 .. d + sizeNode :
           /\ sizeNode - (i - d) \in Nodes
           /\ pending'[i].key = node[sizeNode - (i - d)].key
           /\ pending'[i].val = node[sizeNode - (i - d)].val
  <2>1. pending' = Slice(na) \o OldNodes
    BY DEF Resize
  <2>. QED
    BY <1>0, <2>1, SetAside
<1>2. \A i \in 1 .. d : na + i \in 1 .. Len(array) /\ na + i > na
  BY <1>0
<1>3. Len(array') = na
  <2>. DEFINE s == [i \in 1 .. na |-> IF i <= Len(array) THEN array[i] ELSE Nil]
  <2>1. s \in [1 .. na -> { s[i] : i \in 1 .. na }]
    OBVIOUS
  <2>2. array' = s
    BY DEF Resize
  <2>. HIDE DEF s
  <2>. QED
    BY <2>1, <2>2, FunIsSeq
<1>. HIDE DEF d
<1>4. ComingSlots' = { i \in 1 .. d + sizeNode :
                         /\ pending'[i].val # Nil
                         /\ ~(pending'[i].key \in IntKeys /\ pending'[i].key \in 1 .. na) }
  BY <1>1, <1>3 DEF ComingSlots, InArray
<1>5. f \in Injection(S, UsedAbove(na))
  <2>1. \A i \in S : i \in 1 .. d
    BY <1>0, <1>1, <1>4
  <2>2. \A i \in S : na + i \in UsedAbove(na)
    BY <1>1, <1>2, <1>4, <2>1 DEF UsedAbove
  <2>3. \A i, j \in S : na + i = na + j => i = j
    BY <1>1, <2>1
  <2>4. f \in [S -> UsedAbove(na)]
    BY <2>2
  <2>5. IsInjective(f)
    BY <2>3 DEF IsInjective
  <2>. QED
    BY <2>4, <2>5 DEF Injection
<1>6. g \in Injection(N, Staying(na))
  <2>1. \A i \in N : i \in d + 1 .. d + sizeNode
    BY <1>0, <1>1, <1>4
  <2>2. \A i \in N : sizeNode - (i - d) \in Staying(na)
    BY <1>1, <1>4, <2>1 DEF Staying, Leaving, LiveNodes
  <2>3. \A i, j \in N : sizeNode - (i - d) = sizeNode - (j - d) => i = j
    BY <1>0, <1>1, <2>1
  <2>4. g \in [N -> Staying(na)]
    BY <2>2
  <2>5. IsInjective(g)
    BY <2>3 DEF IsInjective
  <2>. QED
    BY <2>4, <2>5 DEF Injection
<1>. HIDE DEF f, g
<1>7. /\ IsFiniteSet(S) /\ Cardinality(S) <= Cardinality(UsedAbove(na)) /\ Cardinality(S) \in Nat
      /\ IsFiniteSet(N) /\ Cardinality(N) <= Cardinality(Staying(na)) /\ Cardinality(N) \in Nat
  <2>1. IsFiniteSet(S) /\ Cardinality(S) <= Cardinality(UsedAbove(na))
    BY <1>0, <1>5, FiniteParts, FS_Injection
  <2>2. IsFiniteSet(N) /\ Cardinality(N) <= Cardinality(Staying(na))
    BY <1>0, <1>6, FiniteParts, FS_Injection
  <2>. QED
    BY <2>1, <2>2, FS_CardinalityType
<1>8. S \cup N = ComingSlots' /\ S \cap N = {}
  OBVIOUS
<1>. HIDE DEF S, N
<1>9. /\ IsFiniteSet(ComingSlots')
      /\ Cardinality(ComingSlots') = Cardinality(S) + Cardinality(N)
  <2>1. /\ IsFiniteSet(S \cup N)
        /\ Cardinality(S \cup N) = Cardinality(S) + Cardinality(N) - Cardinality(S \cap N)
    BY <1>7, FS_Union
  <2>2. Cardinality(S \cap N) = 0
    BY <1>8, FS_EmptySet
  <2>3. /\ IsFiniteSet(ComingSlots')
        /\ Cardinality(ComingSlots') = Cardinality(S) + Cardinality(N) - 0
    BY <1>8, <2>1, <2>2
  <2>4. Cardinality(S) + Cardinality(N) - 0 = Cardinality(S) + Cardinality(N)
    BY <1>7
  <2>. QED
    BY <2>3, <2>4
<1>. QED
  BY <1>0, <1>7, <1>9, FiniteParts

\* setNodeVector makes the nodes that were asked for.
LEMMA FreshSlots ==
  ASSUME NEW nh \in Nat, SetNodeVector(nh)
  PROVE  IsFiniteSet(FreeSlots') /\ Cardinality(FreeSlots') \in Nat /\ nh <= Cardinality(FreeSlots')
<1>1. CASE nh = 0 /\ dummy' = TRUE
  <2>1. FreeSlots' = {}
    BY <1>1 DEF FreeSlots
  <2>. QED
    BY <1>1, <2>1, FS_EmptySet
<1>2. ASSUME NEW n \in nh .. 2 * nh - 1, dummy' = FALSE, sizeNode' = n,
             node' = [i \in 0 .. sizeNode' - 1 |-> FreeNode]
      PROVE  IsFiniteSet(FreeSlots') /\ Cardinality(FreeSlots') \in Nat /\ nh <= Cardinality(FreeSlots')
  <2>1. FreeSlots' = 0 .. n - 1
    BY <1>2 DEF FreeSlots, Nodes, FreeNode
  <2>2. n \in Int /\ n - 1 \in Int /\ 0 \in Int /\ nh <= n /\ ~(0 > n - 1) /\ (n - 1) - 0 + 1 = n /\ n \in Nat
    BY <1>2
  <2>3. IsFiniteSet(0 .. n - 1) /\ Cardinality(0 .. n - 1) = n
    BY <2>2, FS_Interval
  <2>. QED
    BY <2>1, <2>2, <2>3
<1>. QED
  BY <1>1, <1>2 DEF SetNodeVector

LEMMA SumOfParts ==
  ASSUME NEW S, NEW T, NEW U, S \cup T = U, S \cap T = {}, IsFiniteSet(S), IsFiniteSet(T)
  PROVE  IsFiniteSet(U) /\ Cardinality(U) = Cardinality(S) + Cardinality(T)
<1>1. /\ IsFiniteSet(U)
      /\ Cardinality(U) = Cardinality(S) + Cardinality(T) - Cardinality(S \cap T)
  BY FS_Union
<1>2. Cardinality(S \cap T) = 0
  BY FS_EmptySet
<1>3. Cardinality(S) \in Nat /\ Cardinality(T) \in Nat
  BY FS_CardinalityType
<1>. QED
  BY <1>1, <1>2, <1>3

\* totaluse counts every live entry of both parts and the extra key.
LEMMA TotalUseSplits ==
  ASSUME TypeOK, NEW na \in Nat
  PROVE  TotalUse = Cardinality(UsedWithin(na)) + Cardinality(UsedAbove(na))
                      + Cardinality(Leaving(na)) + Cardinality(Staying(na)) + 1
<1>. DEFINE A == { i \in 1 .. Len(array) : array[i] # Nil }
<1>0. Len(array) \in Nat
  BY DEF TypeOK
<1>1. Cardinality(A) = Cardinality(UsedWithin(na)) + Cardinality(UsedAbove(na))
  <2>1. UsedWithin(na) \cup UsedAbove(na) = A /\ UsedWithin(na) \cap UsedAbove(na) = {}
    BY <1>0 DEF UsedWithin, UsedAbove
  <2>. HIDE DEF A
  <2>. QED
    BY <2>1, FiniteParts, SumOfParts
<1>2. Cardinality(LiveNodes) = Cardinality(Leaving(na)) + Cardinality(Staying(na))
  <2>1. Leaving(na) \cup Staying(na) = LiveNodes /\ Leaving(na) \cap Staying(na) = {}
    BY DEF Leaving, Staying
  <2>. QED
    BY <2>1, FiniteParts, SumOfParts
<1>3. TotalUse = Cardinality(A) + Cardinality(LiveNodes) + 1
  BY DEF TotalUse
<1>. HIDE DEF A
<1>. QED
  BY <1>1, <1>2, <1>3, FiniteParts

\* countInt counts no key twice: the keys that go to the array part are
\* already there, or live in nodes, or are the extra key.
LEMMA CandidatesBound ==
  ASSUME IInv, NEW k \in Keys, NEW na \in Nat
  PROVE  LET C == { c \in Candidates(k) : c <= na }
             there == Cardinality(UsedWithin(na)) + Cardinality(Leaving(na))
         IN /\ Cardinality(C) \in Nat
            /\ Cardinality(C) <= there + 1
            /\ ~(k \in IntKeys /\ k \in 1 .. na) => Cardinality(C) <= there
<1>. DEFINE C == { c \in Candidates(k) : c <= na }
            K == { node[j].key : j \in Leaving(na) }
            f == [j \in Leaving(na) |-> node[j].key]
            there == UsedWithin(na) \cup K
<1>0. TypeOK
  BY DEF IInv
<1>1. C \subseteq there \cup {k} /\ (~(k \in IntKeys /\ k \in 1 .. na) => C \subseteq there)
  <2>. SUFFICES ASSUME NEW c \in Candidates(k), c <= na
                PROVE  c \in there \/ (c = k /\ k \in IntKeys /\ k \in 1 .. na)
    OBVIOUS
  <2>1. c \in IntKeys /\ c \in 1 .. na /\ (c = k \/ Live(c))
    BY KeyAssumption, SizeAssumption DEF Candidates
  <2>2. CASE InArray(c) /\ array[c] # Nil
    BY <2>1, <2>2 DEF UsedWithin, InArray
  <2>3. CASE \E i \in Nodes : node[i].key = c /\ node[i].val # Nil
    BY <2>1, <2>3 DEF Leaving, LiveNodes
  <2>. QED
    BY <2>1, <2>2, <2>3 DEF Live
<1>2. IsFiniteSet(K) /\ Cardinality(K) <= Cardinality(Leaving(na)) /\ Cardinality(K) \in Nat
  <2>1. f \in Surjection(Leaving(na), K)
    BY DEF Surjection
  <2>. HIDE DEF f, K
  <2>2. IsFiniteSet(K) /\ Cardinality(K) <= Cardinality(Leaving(na))
    BY <1>0, <2>1, FiniteParts, FS_Surjection
  <2>. QED
    BY <2>2, FS_CardinalityType
<1>. HIDE DEF C, K
<1>3. /\ IsFiniteSet(there) /\ Cardinality(there) \in Nat
      /\ Cardinality(there) <= Cardinality(UsedWithin(na)) + Cardinality(Leaving(na))
  <2>1. /\ IsFiniteSet(there)
        /\ Cardinality(there) = Cardinality(UsedWithin(na)) + Cardinality(K)
                                  - Cardinality(UsedWithin(na) \cap K)
    BY <1>0, <1>2, FiniteParts, FS_Union
  <2>2. IsFiniteSet(UsedWithin(na) \cap K) /\ Cardinality(UsedWithin(na) \cap K) \in Nat
    <3>1. UsedWithin(na) \cap K \in SUBSET K
      OBVIOUS
    <3>2. IsFiniteSet(UsedWithin(na) \cap K)
      BY <1>2, <3>1, FS_Subset
    <3>. QED
      BY <3>2, FS_CardinalityType
  <2>3. Cardinality(there) \in Nat
    BY <2>1, FS_CardinalityType
  <2>. QED
    BY <1>0, <1>2, <2>1, <2>2, <2>3, FiniteParts
<1>. HIDE DEF there
<1>4. /\ IsFiniteSet(there \cup {k}) /\ Cardinality(there \cup {k}) \in Nat
      /\ Cardinality(there \cup {k}) <= Cardinality(there) + 1
  BY <1>3, FS_AddElement
<1>5. IsFiniteSet(C) /\ Cardinality(C) <= Cardinality(there \cup {k}) /\ Cardinality(C) \in Nat
  <2>1. C \in SUBSET (there \cup {k})
    BY <1>1
  <2>2. IsFiniteSet(C) /\ Cardinality(C) <= Cardinality(there \cup {k})
    BY <1>4, <2>1, FS_Subset
  <2>. QED
    BY <2>2, FS_CardinalityType
<1>6. ~(k \in IntKeys /\ k \in 1 .. na) => Cardinality(C) <= Cardinality(there)
  <2>. SUFFICES ASSUME ~(k \in IntKeys /\ k \in 1 .. na) PROVE Cardinality(C) <= Cardinality(there)
    OBVIOUS
  <2>1. C \in SUBSET there
    BY <1>1
  <2>. QED
    BY <1>3, <2>1, FS_Subset
<1>7. Cardinality(UsedWithin(na)) \in Nat /\ Cardinality(Leaving(na)) \in Nat
  BY <1>0, FiniteParts
<1>8. /\ Cardinality(C) <= Cardinality(UsedWithin(na)) + Cardinality(Leaving(na)) + 1
      /\ ~(k \in IntKeys /\ k \in 1 .. na) =>
            Cardinality(C) <= Cardinality(UsedWithin(na)) + Cardinality(Leaving(na))
  BY <1>3, <1>4, <1>5, <1>6, <1>7
<1>. QED
  BY <1>5, <1>8 DEF C

LEMMA ArrayGetsSize ==
  ASSUME NEW na \in Nat, NEW nh, Resize(na, nh)
  PROVE  Len(array') = na
<1>. DEFINE s == [i \in 1 .. na |-> IF i <= Len(array) THEN array[i] ELSE Nil]
<1>1. s \in [1 .. na -> { s[i] : i \in 1 .. na }]
  OBVIOUS
<1>2. array' = s
  BY DEF Resize
<1>. HIDE DEF s
<1>. QED
  BY <1>1, <1>2, FunIsSeq

\* rehash asks for as many nodes as there will be entries without an array
\* slot, the extra key included.
LEMMA RehashMakesRoom ==
  ASSUME IInv, Idle, NEW k \in Keys, NEW v \in MaybeVal, Rehash(k, v)
  PROVE  RoomForPending'
<1>1. CASE UNCHANGED <<array, node, sizeNode, dummy, pending, extra>>
  BY <1>1 DEF Idle, RoomForPending
<1>2. ASSUME NEW na \in ArraySizes(Candidates(k)), extra' = [key |-> k, val |-> v],
             Resize(na, TotalUse - Cardinality({ c \in Candidates(k) : c <= na }))
      PROVE  RoomForPending'
  <2>. DEFINE m == Cardinality({ c \in Candidates(k) : c <= na })
              a == Cardinality(UsedWithin(na))
              b == Cardinality(UsedAbove(na))
              l == Cardinality(Leaving(na))
              s == Cardinality(Staying(na))
              nh == TotalUse - m
  <2>0. na \in Nat /\ TypeOK
    BY DEF ArraySizes, IInv
  <2>1. /\ a \in Nat /\ b \in Nat /\ l \in Nat /\ s \in Nat
        /\ TotalUse = a + b + l + s + 1
    BY <2>0, FiniteParts, TotalUseSplits
  <2>2. /\ m \in Nat /\ m <= a + l + 1
        /\ ~(k \in IntKeys /\ k \in 1 .. na) => m <= a + l
    BY <2>0, CandidatesBound
  <2>3. /\ Cardinality(ComingSlots') \in Nat
        /\ Cardinality(ComingSlots') <= b + s
    BY <1>2, <2>0, ComingBound
  <2>4. nh \in Nat /\ SetNodeVector(nh)
    BY <1>2, <2>1, <2>2 DEF Resize
  <2>5. Cardinality(FreeSlots') \in Nat /\ nh <= Cardinality(FreeSlots')
    <3>. HIDE DEF nh
    <3>. QED
      BY <2>4, FreshSlots
  <2>6. \/ ExtraSlots' = 0
        \/ ExtraSlots' = 1 /\ ~(k \in IntKeys /\ k \in 1 .. na)
    <3>1. Len(array') = na
      BY <1>2, <2>0, ArrayGetsSize
    <3>2. extra'.key = k
      BY <1>2
    <3>3. InArray(extra.key)' <=> (k \in IntKeys /\ k \in 1 .. na)
      BY <3>1, <3>2 DEF InArray
    <3>. QED
      BY <3>3 DEF ExtraSlots
  <2>7. nh = a + b + l + s + 1 - m
    <3>1. nh = TotalUse - m
      OBVIOUS
    <3>. HIDE DEF nh, m, a, b, l, s
    <3>. QED
      BY <2>1, <2>2, <3>1
  <2>. HIDE DEF m, a, b, l, s, nh
  <2>8. Cardinality(ComingSlots') + ExtraSlots' <= Cardinality(FreeSlots')
    <3>1. CASE ExtraSlots' = 0
      BY <2>1, <2>2, <2>3, <2>4, <2>5, <2>7, <3>1
    <3>2. CASE ExtraSlots' = 1 /\ m <= a + l
      BY <2>1, <2>2, <2>3, <2>4, <2>5, <2>7, <3>2
    <3>. QED
      BY <2>2, <2>6, <3>1, <3>2
  <2>. QED
    BY <2>8 DEF RoomForPending, FreeSlots, ComingSlots, ExtraSlots
<1>. QED
  BY <1>1, <1>2 DEF Rehash

\* OP_SETLIST keeps the size of the node vector while it makes the array grow.
LEMMA ResizeArrayMakesRoom ==
  ASSUME IInv, NEW na \in InitArray, ResizeArray(na)
  PROVE  RoomForPending'
<1>. DEFINE nh == IF dummy THEN 0 ELSE sizeNode
<1>0. /\ na \in Nat /\ TypeOK /\ DummyStaysEmpty /\ na > Len(array) /\ Len(array) \in Nat
      /\ extra' = NoExtra
  BY SizeAssumption DEF ResizeArray, IInv, NodesOK, TypeOK, Idle
<1>1. Resize(na, nh) /\ SetNodeVector(nh) /\ nh \in Nat
  BY <1>0 DEF ResizeArray, Resize, TypeOK
<1>2. Cardinality(FreeSlots') \in Nat /\ nh <= Cardinality(FreeSlots')
  <2>. HIDE DEF nh
  <2>. QED
    BY <1>1, FreshSlots
<1>3. /\ Cardinality(ComingSlots') \in Nat
      /\ Cardinality(ComingSlots') <= Cardinality(UsedAbove(na)) + Cardinality(Staying(na))
  <2>. HIDE DEF nh
  <2>. QED
    BY <1>0, <1>1, ComingBound
<1>4. Cardinality(UsedAbove(na)) = 0
  <2>1. UsedAbove(na) = {}
    BY <1>0 DEF UsedAbove
  <2>. QED
    BY <2>1, FS_EmptySet
<1>5. Cardinality(Staying(na)) \in Nat /\ Cardinality(Staying(na)) <= nh
  <2>1. CASE dummy
    <3>1. Staying(na) = {}
      BY <1>0, <2>1 DEF Staying, LiveNodes, DummyStaysEmpty, Nodes, FreeNode
    <3>. QED
      BY <2>1, <3>1, FS_EmptySet
  <2>2. CASE ~dummy
    <3>1. Staying(na) \in SUBSET Nodes
      BY DEF Staying, LiveNodes
    <3>2. Cardinality(Staying(na)) <= Cardinality(Nodes)
      BY <1>0, <3>1, FiniteParts, FS_Subset
    <3>. QED
      BY <1>0, <2>2, <3>2, FiniteParts
  <2>. QED
    BY <2>1, <2>2
<1>6. ExtraSlots' = 0
  BY <1>0 DEF ExtraSlots, NoExtra
<1>. HIDE DEF nh
<1>7. Cardinality(ComingSlots') + ExtraSlots' <= Cardinality(FreeSlots')
  BY <1>1, <1>2, <1>3, <1>4, <1>5, <1>6
<1>. QED
  BY <1>7 DEF RoomForPending, FreeSlots, ComingSlots, ExtraSlots

\* Set takes at most one free node, and none for a key of the array part.
LEMMA StoreTakesOne ==
  ASSUME IInv, NEW k \in Keys, NEW v \in MaybeVal, Store(k, v)
  PROVE  /\ FreeSlots' \subseteq FreeSlots
         /\ InArray(k) => FreeSlots' = FreeSlots
         /\ \E n : FreeSlots \ {n} \subseteq FreeSlots'
<1>. DEFINE mp == MainNode(sizeNode, k)
            on == MainNode(sizeNode, node[mp].key)
<1>. HIDE DEF mp, on
<1>0. /\ node \in [Nodes -> NodeRec] /\ UNCHANGED <<sizeNode, dummy>> /\ Nodes' = Nodes
      /\ k # Nil /\ mp \in Nodes /\ FreeNodesUnlinked /\ DummyStaysEmpty
      /\ FreeSlots = { i \in Nodes : node[i].key = Nil /\ ~dummy }
      /\ FreeSlots' = { i \in Nodes : node'[i].key = Nil /\ ~dummy }
  BY KeyAssumption, MainNodeInRange
     DEF Store, IInv, TypeOK, NodesOK, Nodes, mp, FreeSlots
\* One node n may get a key; every other keeps its key or had one before.
<1>1. CASE \E n \in Nodes : \A i \in Nodes :
             /\ i # n => (node'[i].key = Nil <=> node[i].key = Nil)
             /\ node'[i].key = Nil => node[i].key = Nil
             /\ InArray(k) => node'[i].key = node[i].key
  BY <1>0, <1>1
<1>2. CASE InArray(k) /\ UNCHANGED node
  <2>1. \A i \in Nodes : node'[i].key = node[i].key
    BY <1>2
  <2>. QED
    BY <1>0, <1>1, <2>1
<1>3. CASE ~InArray(k) /\ \E i \in Found(k) : node' = [node EXCEPT ![i].val = v]
  <2>1. PICK i \in Nodes : node' = [node EXCEPT ![i].val = v]
    BY <1>0, <1>3 DEF Found
  <2>2. \A j \in Nodes : node'[j].key = node[j].key
    BY <1>0, <2>1 DEF NodeRec
  <2>. QED
    BY <1>0, <1>1, <2>1, <2>2
<1>4. CASE ~InArray(k) /\ PutInMain(k, v)
  <2>1. node' = [node EXCEPT ![mp] = [key |-> k, val |-> v, next |-> @.next]]
    BY <1>4 DEF PutInMain, MainPosition, mp
  <2>2. node'[mp].key = k /\ \A i \in Nodes : i # mp => node'[i] = node[i]
    BY <1>0, <2>1
  <2>. QED
    BY <1>0, <1>1, <1>4, <2>2
<1>5. CASE ~InArray(k) /\ MoveColliding(k, v)
  <2>1. PICK n \in Nodes, p \in ChainIn(node, on) :
        /\ IsFreePos(n)
        /\ node' = [node EXCEPT ![p].next = n,
                                ![n] = node[mp],
                                ![mp] = [key |-> k, val |-> v, next |-> NoNode]]
    BY <1>5 DEF MoveColliding, mp, on, MainPosition, Chain
  <2>2. CASE dummy
    BY <1>0, <2>2
  <2>3. CASE ~dummy
    <3>1. /\ node[n].key = Nil /\ p \in Nodes /\ node[mp].val # Nil
          /\ node[mp].key # Nil /\ n # mp
      BY <1>0, <1>5, <2>1, <2>3 DEF MoveColliding, MainTaken, MainPosition, mp, IsFreePos,
         FreeNodesUnlinked, ChainIn
    <3>2. /\ node'[mp].key = k
          /\ node'[n].key = node[mp].key
          /\ \A i \in Nodes : i # mp /\ i # n => node'[i].key = node[i].key
      <4>1. /\ node'[mp] = [key |-> k, val |-> v, next |-> NoNode]
            /\ node'[n] = node[mp]
        BY <1>0, <2>1, <3>1
      <4>2. \A i \in Nodes : i # mp /\ i # n =>
              node'[i] = IF i = p THEN [node[p] EXCEPT !.next = n] ELSE node[i]
        BY <1>0, <2>1, <3>1
      <4>. QED
        BY <1>0, <3>1, <4>1, <4>2 DEF NodeRec
    <3>. QED
      BY <1>0, <1>1, <1>5, <3>1, <3>2
  <2>. QED
    BY <2>2, <2>3
<1>6. CASE ~InArray(k) /\ ChainAfter(k, v)
  <2>1. PICK n \in Nodes :
        /\ IsFreePos(n)
        /\ node' = [node EXCEPT ![n] = [key |-> k, val |-> v, next |-> node[mp].next],
                                ![mp].next = n]
    BY <1>6 DEF ChainAfter, mp, MainPosition
  <2>2. CASE dummy
    BY <1>0, <2>2
  <2>3. CASE ~dummy
    <3>1. node[n].key = Nil /\ node[mp].val # Nil /\ n # mp
      BY <1>0, <1>6, <2>1, <2>3 DEF ChainAfter, MainTaken, MainPosition, mp, IsFreePos,
         FreeNodesUnlinked
    <3>2. /\ node'[n].key = k
          /\ \A i \in Nodes : i # n => node'[i].key = node[i].key
      BY <1>0, <2>1, <3>1 DEF NodeRec
    <3>. QED
      BY <1>0, <1>1, <1>6, <3>1, <3>2
  <2>. QED
    BY <2>2, <2>3
<1>. QED
  BY <1>2, <1>3, <1>4, <1>5, <1>6 DEF Store

LEMMA ReinsertKeepsRoom ==
  ASSUME IInv, RoomForPending, Reinsert
  PROVE  RoomForPending'
<1>0. /\ TypeOK /\ pending # <<>> /\ pending \in Seq(Entry)
      /\ pending' = Tail(pending) /\ extra' = extra
  BY DEF IInv, TypeOK, Reinsert
<1>1. /\ Len(pending) \in Nat \ {0} /\ Len(pending') = Len(pending) - 1
      /\ \A i \in 1 .. Len(pending') : i + 1 \in 1 .. Len(pending) /\ pending'[i] = pending[i + 1]
      /\ Head(pending) = pending[1] /\ 1 \in 1 .. Len(pending)
  BY <1>0, HeadTailProperties, EmptySeq, LenProperties
<1>2. Len(array') = Len(array)
  BY <1>0, ExceptSeq DEF Reinsert, Store, TypeOK, InArray
<1>3. IsFiniteSet(FreeSlots) /\ IsFiniteSet(ComingSlots)
  <2>1. FreeSlots \in SUBSET Nodes
    BY DEF FreeSlots
  <2>2. ComingSlots \in SUBSET (1 .. Len(pending)) /\ Len(pending) \in Int /\ 1 \in Int
    BY <1>1 DEF ComingSlots
  <2>3. IsFiniteSet(1 .. Len(pending))
    BY <2>2, FS_Interval
  <2>. QED
    BY <1>0, <2>1, <2>2, <2>3, FiniteParts, FS_Subset
<1>4. /\ Cardinality(FreeSlots) \in Nat /\ Cardinality(ComingSlots) \in Nat
      /\ Cardinality(ComingSlots) + ExtraSlots <= Cardinality(FreeSlots)
  BY <1>0, <1>3, FS_CardinalityType, RoomMeans
<1>5. ExtraSlots \in {0, 1} /\ ExtraSlots' = ExtraSlots
  BY <1>0, <1>2 DEF ExtraSlots, InArray
\* One entry less is to come.
<1>6. /\ IsFiniteSet(ComingSlots') /\ Cardinality(ComingSlots') \in Nat
      /\ Cardinality(ComingSlots') <=
           IF 1 \in ComingSlots THEN Cardinality(ComingSlots) - 1 ELSE Cardinality(ComingSlots)
  <2>. DEFINE f == [i \in ComingSlots' |-> i + 1]
  <2>1. \A i \in ComingSlots' : i \in Nat \ {0} /\ i + 1 \in ComingSlots \ {1}
    BY <1>1, <1>2 DEF ComingSlots, InArray
  <2>2. f \in Injection(ComingSlots', ComingSlots \ {1})
    <3>1. f \in [ComingSlots' -> ComingSlots \ {1}]
      BY <2>1
    <3>2. \A i, j \in ComingSlots' : i + 1 = j + 1 => i = j
      BY <2>1
    <3>3. IsInjective(f)
      BY <3>2 DEF IsInjective
    <3>. QED
      BY <3>1, <3>3 DEF Injection
  <2>. HIDE DEF f
  <2>3. /\ IsFiniteSet(ComingSlots \ {1})
        /\ Cardinality(ComingSlots \ {1}) =
             IF 1 \in ComingSlots THEN Cardinality(ComingSlots) - 1 ELSE Cardinality(ComingSlots)
    BY <1>3, FS_RemoveElement
  <2>4. IsFiniteSet(ComingSlots') /\ Cardinality(ComingSlots') <= Cardinality(ComingSlots \ {1})
    BY <2>2, <2>3, FS_Injection
  <2>. QED
    BY <2>3, <2>4, FS_CardinalityType
\* At most one free node less is left, and none less for an array slot.
<1>7. /\ Cardinality(FreeSlots') \in Nat
      /\ Cardinality(FreeSlots') >=
           IF 1 \in ComingSlots THEN Cardinality(FreeSlots) - 1 ELSE Cardinality(FreeSlots)
  <2>1. CASE FreeSlots' = FreeSlots
    BY <1>4, <2>1
  <2>2. CASE /\ 1 \in ComingSlots /\ FreeSlots' \subseteq FreeSlots
             /\ \E n : FreeSlots \ {n} \subseteq FreeSlots'
    <3>1. PICK n : FreeSlots \ {n} \subseteq FreeSlots'
      BY <2>2
    <3>2. /\ IsFiniteSet(FreeSlots \ {n}) /\ Cardinality(FreeSlots \ {n}) \in Nat
          /\ Cardinality(FreeSlots \ {n}) >= Cardinality(FreeSlots) - 1
      <4>1. /\ IsFiniteSet(FreeSlots \ {n})
            /\ Cardinality(FreeSlots \ {n}) =
                 IF n \in FreeSlots THEN Cardinality(FreeSlots) - 1 ELSE Cardinality(FreeSlots)
        BY <1>3, FS_RemoveElement
      <4>. QED
        BY <1>4, <4>1, FS_CardinalityType
    <3>3. IsFiniteSet(FreeSlots') /\ Cardinality(FreeSlots') \in Nat
      <4>1. FreeSlots' \in SUBSET FreeSlots
        BY <2>2
      <4>2. IsFiniteSet(FreeSlots')
        BY <1>3, <4>1, FS_Subset
      <4>. QED
        BY <4>2, FS_CardinalityType
    <3>4. Cardinality(FreeSlots \ {n}) <= Cardinality(FreeSlots')
      <4>1. FreeSlots \ {n} \in SUBSET FreeSlots'
        BY <3>1
      <4>. QED
        BY <3>3, <4>1, FS_Subset
    <3>. QED
      BY <1>4, <2>2, <3>2, <3>3, <3>4
  <2>3. CASE UNCHANGED <<array, node, sizeNode, dummy, lastFree, crashed>>
    <3>1. FreeSlots' = FreeSlots
      BY <2>3 DEF FreeSlots, Nodes
    <3>. QED
      BY <2>1, <3>1
  <2>4. CASE pending[1].val # Nil /\ Store(pending[1].key, pending[1].val)
    <3>1. pending[1].key \in Keys /\ pending[1].val \in MaybeVal
      <4>1. pending[1] \in Entry
        BY <1>0, <1>1, ElementOfSeq
      <4>. QED
        BY <1>0, <1>1, <2>4, <4>1 DEF TypeOK, Entry
    <3>2. /\ FreeSlots' \subseteq FreeSlots
          /\ InArray(pending[1].key) => FreeSlots' = FreeSlots
          /\ \E n : FreeSlots \ {n} \subseteq FreeSlots'
      BY <2>4, <3>1, StoreTakesOne
    <3>3. ~InArray(pending[1].key) => 1 \in ComingSlots
      BY <1>1, <2>4 DEF ComingSlots
    <3>. QED
      BY <2>1, <2>2, <3>2, <3>3
  <2>. QED
    BY <1>1, <2>3, <2>4 DEF Reinsert
<1>8. Cardinality(ComingSlots') + ExtraSlots' <= Cardinality(FreeSlots')
  BY <1>4, <1>5, <1>6, <1>7
<1>. QED
  BY <1>8 DEF RoomForPending, FreeSlots, ComingSlots, ExtraSlots

LEMMA NextKeepsRoom == IInv /\ RoomForPending /\ [Next]_vars => RoomForPending'
<1>. SUFFICES ASSUME IInv, RoomForPending, [Next]_vars PROVE RoomForPending'
  OBVIOUS
<1>1. ASSUME NEW k \in Keys, NEW v \in MaybeVal, SetKey(k, v) PROVE RoomForPending'
  <2>1. CASE UNCHANGED <<pending, extra>>
    BY <1>1, <2>1 DEF SetKey, Idle, RoomForPending
  <2>2. CASE Rehash(k, v)
    BY <1>1, <2>2, RehashMakesRoom DEF SetKey
  <2>. QED
    BY <1>1, <2>1, <2>2 DEF SetKey
<1>2. CASE ReinsertKey
  BY <1>2 DEF ReinsertKey, RoomForPending
<1>3. CASE UNCHANGED vars
  BY <1>3 DEF vars, RoomForPending, InArray, Nodes
<1>. QED
  BY <1>1, <1>2, <1>3, ResizeArrayMakesRoom, ReinsertKeepsRoom DEF Next

\* While resize re-inserts there is a free node for every entry still to come
\* and for the key whose insertion started it: rehash counts right.
THEOREM RehashMakesEnoughRoom == Spec => []RoomForPending
<1>1. Init => RoomForPending
  BY DEF Init, RoomForPending
<1>. QED
  BY <1>1, IInvHolds, NextKeepsRoom, PTL DEF Spec

\* getFreePos does not fail for an entry that waits, nor for the key whose
\* insertion started the rehash.
NoNestedRehash ==
  /\ pending # <<>> /\ Head(pending).val # Nil /\ ~InArray(Head(pending).key) => ~NoFreePos
  /\ pending = <<>> /\ extra # NoExtra /\ ~InArray(extra.key) => ~NoFreePos

LEMMA RoomIsFound == IInv /\ RoomForPending => NoNestedRehash
<1>. SUFFICES ASSUME IInv, RoomForPending PROVE NoNestedRehash
  OBVIOUS
<1>0. TypeOK /\ FreeBeforeLastFree /\ pending \in Seq(Entry)
  BY DEF IInv, NodesOK, TypeOK
<1>1. FreeSlots # {} => ~NoFreePos
  BY <1>0 DEF FreeSlots, FreeBeforeLastFree, NoFreePos
<1>2. FreeSlots = {} => Cardinality(FreeSlots) = 0
  BY FS_EmptySet
<1>3. IsFiniteSet(ComingSlots) /\ Cardinality(ComingSlots) \in Nat
  <2>1. ComingSlots \in SUBSET (1 .. Len(pending)) /\ Len(pending) \in Int /\ 1 \in Int
    BY <1>0 DEF ComingSlots
  <2>2. IsFiniteSet(ComingSlots)
    BY <2>1, FS_Interval, FS_Subset
  <2>. QED
    BY <2>2, FS_CardinalityType
<1>4. ASSUME pending # <<>>, Head(pending).val # Nil, ~InArray(Head(pending).key)
      PROVE  FreeSlots # {}
  <2>1. 1 \in 1 .. Len(pending) /\ Head(pending) = pending[1]
    BY <1>0, <1>4, EmptySeq, LenProperties
  <2>2. 1 \in ComingSlots
    BY <1>4, <2>1 DEF ComingSlots
  <2>3. Cardinality(ComingSlots) # 0
    BY <1>3, <2>2, FS_EmptySet
  <2>4. ExtraSlots \in {0, 1}
    BY DEF ExtraSlots
  <2>. QED
    BY <1>2, <1>3, <1>4, <2>3, <2>4, RoomMeans
<1>5. ASSUME extra # NoExtra, ~InArray(extra.key)
      PROVE  FreeSlots # {}
  <2>1. ExtraSlots = 1
    BY <1>5 DEF ExtraSlots
  <2>. QED
    BY <1>2, <1>3, <1>5, <2>1, RoomMeans
<1>. QED
  BY <1>1, <1>4, <1>5 DEF NoNestedRehash

\* newKey does not enter rehash from within a rehash, neither for an entry of
\* the old parts nor for its own key ("re-insert key into grown table",
\* ltable.go): the recursion of Set and newKey ends after one rehash.
THEOREM RehashIsNotNested == Spec => []NoNestedRehash
BY IInvHolds, RehashMakesEnoughRoom, RoomIsFound, PTL
-----------------------------------------------------------------------------
(* The length operator *)

\* A tail recursion has a solution: the value where the walk from d stops.
Walk(D, stop, to, d) ==
  {e \in D : \A S \in SUBSET D : d \in S /\ (\A x \in S : ~stop[x] => to[x] \in S) => e \in S}

TailRecursive(f, D, stop, to, out) ==
  f = [d \in D |-> IF stop[d] THEN out[d] ELSE f[to[d]]]

LEMMA TailRecursion ==
  ASSUME NEW D, NEW stop, NEW to \in [D -> D], NEW out
  PROVE  \E f : TailRecursive(f, D, stop, to, out)
<1>. DEFINE Ends(d) == {e \in Walk(D, stop, to, d) : stop[e]}
            end(d) == CHOOSE e \in Ends(d) : TRUE
            f == [d \in D |-> out[end(d)]]
<1>1. ASSUME NEW d \in D, stop[d] PROVE Ends(d) = {d}
  <2>1. \A e \in Walk(D, stop, to, d) : e \in {d}
    <3>1. {d} \in SUBSET D /\ \A x \in {d} : ~stop[x] => to[x] \in {d}
      BY <1>1
    <3>. QED
      BY <3>1 DEF Walk
  <2>2. d \in Walk(D, stop, to, d)
    BY DEF Walk
  <2>. QED
    BY <1>1, <2>1, <2>2
<1>2. ASSUME NEW d \in D, ~stop[d] PROVE Ends(d) = Ends(to[d])
  <2>1. ASSUME NEW e \in Ends(d) PROVE e \in Walk(D, stop, to, to[d])
    <3>1. e \in D /\ e # d /\ e \in Walk(D, stop, to, d)
      BY <1>2 DEF Walk
    <3>2. ASSUME NEW S \in SUBSET D, to[d] \in S, \A x \in S : ~stop[x] => to[x] \in S PROVE e \in S
      <4>. DEFINE T == S \cup {d}
      <4>1. T \in SUBSET D /\ d \in T /\ \A x \in T : ~stop[x] => to[x] \in T
        BY <3>2
      <4>2. e \in T
        BY <3>1, <4>1 DEF Walk
      <4>. QED
        BY <3>1, <4>2
    <3>. QED
      BY <3>1, <3>2 DEF Walk
  <2>2. ASSUME NEW e \in Ends(to[d]) PROVE e \in Walk(D, stop, to, d)
    BY <1>2 DEF Walk
  <2>. QED
    BY <2>1, <2>2
<1>. HIDE DEF Ends
<1>3. ASSUME NEW d \in D, stop[d] PROVE end(d) = d
  BY <1>1, <1>3
<1>4. ASSUME NEW d \in D, ~stop[d] PROVE end(d) = end(to[d])
  BY <1>2, <1>4
<1>. HIDE DEF end
<1>5. ASSUME NEW d \in D PROVE out[end(d)] = IF stop[d] THEN out[d] ELSE f[to[d]]
  <2>1. f[to[d]] = out[end(to[d])]
    OBVIOUS
  <2>. QED
    BY <1>3, <1>4, <2>1
<1>6. \A d \in D : f[d] = IF stop[d] THEN out[d] ELSE f[to[d]]
  BY <1>5
<1>7. f = [d \in D |-> f[d]]
  OBVIOUS
<1>. HIDE DEF f
<1>8. TailRecursive(f, D, stop, to, out)
  BY <1>6, <1>7 DEF TailRecursive
<1>. QED
  BY <1>8

LEMMA LeastOf ==
  ASSUME NEW T \in SUBSET Nat, T # {}
  PROVE  \E m \in T : \A k \in T : m <= k
<1>1. PICK m \in T : \A k \in T : ~(<<k, m>> \in OpToRel(<, Nat))
  BY NatLessThanWellFounded, WFMin
<1>2. \A k \in T : ~(k < m)
  BY <1>1 DEF OpToRel
<1>. QED
  BY <1>2

LEMMA InductOn ==
  ASSUME NEW E \in SUBSET Nat, 0 \in E, \A n \in E : n + 1 \in E
  PROVE  E = Nat
<1>. SUFFICES ASSUME Nat \ E # {} PROVE FALSE
  OBVIOUS
<1>1. PICK m \in Nat \ E : \A k \in Nat \ E : m <= k
  BY LeastOf
<1>2. m - 1 \in Nat /\ m - 1 \in E
  BY <1>1
<1>3. m - 1 + 1 \in E
  BY <1>2
<1>. QED
  BY <1>1, <1>3

\* The bisection: one half or the other, until the bounds are neighbours.
Middle(b) == (b[1] + b[2]) \div 2
Half(b) == IF Present(Middle(b)) THEN <<Middle(b), b[2]>> ELSE <<b[1], Middle(b)>>
Halves(f) == [b \in Nat \X Nat |->
  LET m == (b[1] + b[2]) \div 2
  IN IF b[2] - b[1] <= 1 THEN b[1]
     ELSE f[IF Present(m) THEN <<m, b[2]>> ELSE <<b[1], m>>]]

LEMMA HalvesSolved == \E f : f = Halves(f)
<1>. DEFINE D == Nat \X Nat
            stop == [b \in D |-> b[2] - b[1] <= 1]
            to == [b \in D |-> Half(b)]
            out == [b \in D |-> b[1]]
<1>1. to \in [D -> D]
  BY DEF Half, Middle
<1>2. \E f : TailRecursive(f, D, stop, to, out)
  <2>. HIDE DEF D, stop, to, out
  <2>. QED
    BY <1>1, TailRecursion
<1>3. PICK f : TailRecursive(f, D, stop, to, out)
  BY <1>2
<1>4. ASSUME NEW b \in D PROVE /\ stop[b] <=> b[2] - b[1] <= 1
                               /\ out[b] = b[1] /\ to[b] = Half(b)
  OBVIOUS
<1>. HIDE DEF stop, to, out
<1>5. f = Halves(f)
  BY <1>3, <1>4 DEF TailRecursive, Halves, Half, Middle
<1>. QED
  BY <1>5

\* There is nothing at b, or it is 0, and something follows.
Boundary(b) == b \in Nat /\ (b = 0 \/ Present(b)) /\ ~Present(b + 1)

LEMMA MiddleIsBetween ==
  ASSUME NEW i \in Nat, NEW j \in Nat, j - i > 1
  PROVE  (i + j) \div 2 \in Nat /\ i < (i + j) \div 2 /\ (i + j) \div 2 < j
OBVIOUS

\* Bisect ends between a present element and an absent one.
LEMMA BisectFindsBoundary ==
  ASSUME NEW lo \in Nat, NEW hi \in Nat, lo < hi, lo = 0 \/ Present(lo), ~Present(hi)
  PROVE  Boundary(Bisect(lo, hi))
<1>. DEFINE step == CHOOSE f : f = Halves(f)
<1>1. step = Halves(step)
  BY HalvesSolved
<1>2. Bisect(lo, hi) = step[<<lo, hi>>]
  BY DEF Bisect, Halves
<1>. HIDE DEF step
<1>3. ASSUME NEW i \in Nat, NEW j \in Nat, NEW m, m = (i + j) \div 2
      PROVE  step[<<i, j>>] = IF j - i <= 1 THEN i
                              ELSE IF Present(m) THEN step[<<m, j>>] ELSE step[<<i, m>>]
  BY <1>1, <1>3 DEF Halves
<1>a. ASSUME NEW i \in Nat, NEW j \in Nat, j - i <= 1 PROVE step[<<i, j>>] = i
  <2>1. PICK m : m = (i + j) \div 2
    OBVIOUS
  <2>. QED
    BY <1>3, <1>a, <2>1
<1>. DEFINE E == {n \in Nat : \A i, j \in Nat :
                    i < j /\ j - i <= n + 1 /\ (i = 0 \/ Present(i)) /\ ~Present(j) => Boundary(step[<<i, j>>])}
<1>4. 0 \in E
  <2>. SUFFICES ASSUME NEW i \in Nat, NEW j \in Nat, i < j, j - i <= 1, i = 0 \/ Present(i), ~Present(j)
                PROVE  Boundary(step[<<i, j>>])
    OBVIOUS
  <2>1. step[<<i, j>>] = i /\ j = i + 1
    BY <1>a
  <2>. QED
    BY <2>1 DEF Boundary
<1>5. ASSUME NEW n \in E PROVE n + 1 \in E
  <2>. SUFFICES ASSUME NEW i \in Nat, NEW j \in Nat, i < j, j - i <= (n + 1) + 1,
                       i = 0 \/ Present(i), ~Present(j)
                PROVE  Boundary(step[<<i, j>>])
    OBVIOUS
  <2>1. CASE j - i <= 1
    <3>1. step[<<i, j>>] = i /\ j = i + 1
      BY <1>a, <2>1
    <3>. QED
      BY <3>1 DEF Boundary
  <2>2. CASE j - i > 1
    <3>1. PICK m : m = (i + j) \div 2
      OBVIOUS
    <3>2. m \in Nat /\ i < m /\ m < j
      BY <2>2, <3>1, MiddleIsBetween
    <3>3. step[<<i, j>>] = IF Present(m) THEN step[<<m, j>>] ELSE step[<<i, m>>]
      <4>1. ~(j - i <= 1)
        BY <2>2
      <4>. QED
        BY <1>3, <3>1, <4>1
    <3>4. n \in Nat /\ j - m <= n + 1 /\ m - i <= n + 1
      BY <3>2
    <3>5. CASE Present(m)
      <4>1. Boundary(step[<<m, j>>])
        BY <3>2, <3>4, <3>5
      <4>. QED
        BY <3>3, <3>5, <4>1
    <3>6. CASE ~Present(m)
      <4>1. Boundary(step[<<i, m>>])
        BY <3>2, <3>4, <3>6
      <4>. QED
        BY <3>3, <3>6, <4>1
    <3>. QED
      BY <3>5, <3>6
  <2>. QED
    BY <2>1, <2>2
<1>6. E = Nat
  <2>1. E \in SUBSET Nat
    OBVIOUS
  <2>. HIDE DEF E
  <2>. QED
    BY <1>4, <1>5, <2>1, InductOn
<1>7. hi - lo \in E
  <2>1. hi - lo \in Nat
    OBVIOUS
  <2>. QED
    BY <1>6, <2>1
<1>8. Boundary(step[<<lo, hi>>])
  <2>1. hi - lo <= (hi - lo) + 1
    OBVIOUS
  <2>. QED
    BY <1>7, <2>1
<1>. QED
  BY <1>2, <1>8

\* No index above half of MAX_INT is present: the doubling of unboundSearch then
\* meets an absent one before it overflows.
NoneBeyondHalf == \A k \in IntKeys : Present(k) => 2 * k <= MAX_INT

Doubled(f) == [b \in Nat \X Nat |->
  IF ~Present(b[2]) THEN Bisect(b[1], b[2])
  ELSE IF 2 * b[2] > MAX_INT THEN LinearSearch
  ELSE f[<<b[2], 2 * b[2]>>]]

LEMMA DoubledSolved == \E f : f = Doubled(f)
<1>. DEFINE D == Nat \X Nat
            stop == [b \in D |-> ~Present(b[2]) \/ 2 * b[2] > MAX_INT]
            to == [b \in D |-> <<b[2], 2 * b[2]>>]
            out == [b \in D |-> IF ~Present(b[2]) THEN Bisect(b[1], b[2]) ELSE LinearSearch]
<1>1. to \in [D -> D]
  OBVIOUS
<1>2. \E f : TailRecursive(f, D, stop, to, out)
  <2>. HIDE DEF D, stop, to, out
  <2>. QED
    BY <1>1, TailRecursion
<1>3. PICK f : TailRecursive(f, D, stop, to, out)
  BY <1>2
<1>4. ASSUME NEW b \in D PROVE /\ stop[b] <=> ~Present(b[2]) \/ 2 * b[2] > MAX_INT
                               /\ to[b] = <<b[2], 2 * b[2]>>
                               /\ out[b] = IF ~Present(b[2]) THEN Bisect(b[1], b[2]) ELSE LinearSearch
  OBVIOUS
<1>. HIDE DEF stop, to, out
<1>5. f = Doubled(f)
  BY <1>3, <1>4 DEF TailRecursive, Doubled
<1>. QED
  BY <1>5

LEMMA UnboundSearchFindsBoundary ==
  ASSUME NoneBeyondHalf, NEW start \in Nat, start = 0 \/ Present(start)
  PROVE  Boundary(UnboundSearch(start))
<1>. DEFINE probe == CHOOSE f : f = Doubled(f)
<1>1. probe = Doubled(probe)
  BY DoubledSolved
<1>2. UnboundSearch(start) = probe[<<start, start + 1>>]
  BY DEF UnboundSearch, Doubled
<1>. HIDE DEF probe
<1>3. ASSUME NEW i \in Nat, NEW j \in Nat
      PROVE  probe[<<i, j>>] = IF ~Present(j) THEN Bisect(i, j)
                               ELSE IF 2 * j > MAX_INT THEN LinearSearch ELSE probe[<<j, 2 * j>>]
  BY <1>1 DEF Doubled
<1>4. \A j : Present(j) => 2 * j <= MAX_INT
  BY DEF NoneBeyondHalf, Present
<1>. DEFINE E == {n \in Nat : \A i, j \in Nat :
                    i < j /\ MAX_INT < j + n /\ (i = 0 \/ Present(i)) => Boundary(probe[<<i, j>>])}
<1>5. ASSUME NEW i \in Nat, NEW j \in Nat, i < j, i = 0 \/ Present(i), ~Present(j)
      PROVE  Boundary(probe[<<i, j>>])
  BY <1>3, <1>5, BisectFindsBoundary
<1>6. 0 \in E
  <2>. SUFFICES ASSUME NEW i \in Nat, NEW j \in Nat, i < j, MAX_INT < j + 0, i = 0 \/ Present(i)
                PROVE  Boundary(probe[<<i, j>>])
    OBVIOUS
  <2>1. ~(2 * j <= MAX_INT)
    BY MaxIntAssumption
  <2>. QED
    BY <1>4, <1>5, <2>1
<1>7. ASSUME NEW n \in E PROVE n + 1 \in E
  <2>. SUFFICES ASSUME NEW i \in Nat, NEW j \in Nat, i < j, MAX_INT < j + (n + 1), i = 0 \/ Present(i)
                PROVE  Boundary(probe[<<i, j>>])
    OBVIOUS
  <2>1. CASE ~Present(j)
    BY <1>5, <2>1
  <2>2. CASE Present(j)
    <3>1. 2 * j <= MAX_INT
      BY <1>4, <2>2
    <3>2. probe[<<i, j>>] = probe[<<j, 2 * j>>]
      <4>1. ~(2 * j > MAX_INT)
        BY <3>1, MaxIntAssumption
      <4>. QED
        BY <1>3, <2>2, <4>1
    <3>3. 2 * j \in Nat /\ j < 2 * j /\ MAX_INT < 2 * j + n
      BY MaxIntAssumption
    <3>4. Boundary(probe[<<j, 2 * j>>])
      BY <2>2, <3>3
    <3>. QED
      BY <3>2, <3>4
  <2>. QED
    BY <2>1, <2>2
<1>8. E = Nat
  <2>1. E \in SUBSET Nat
    OBVIOUS
  <2>. HIDE DEF E
  <2>. QED
    BY <1>6, <1>7, <2>1, InductOn
<1>9. MAX_INT \in E
  BY <1>8, MaxIntAssumption
<1>10. start < start + 1 /\ MAX_INT < (start + 1) + MAX_INT /\ start + 1 \in Nat
  BY MaxIntAssumption
<1>11. Boundary(probe[<<start, start + 1>>])
  BY <1>9, <1>10
<1>. QED
  BY <1>2, <1>11

LEMMA LengthIs ==
  ASSUME IInv, NoneBeyondHalf
  PROVE  Boundary(GetN)
<1>. DEFINE n == Len(array)
<1>1. /\ n \in Nat
      /\ \A i \in 1 .. n : array[i] # Nil => i \in IntKeys
      /\ dummy => node = [i \in 0 .. 0 |-> FreeNode]
      /\ DOMAIN array = 1 .. n
  BY DEF IInv, TypeOK, NodesOK, DummyStaysEmpty
<1>2. ASSUME NEW i \in 1 .. n PROVE Present(i) <=> array[i] # Nil
  BY <1>1 DEF Present, Get, InArray
<1>3. ASSUME dummy, NEW i \in Nat, i > n PROVE ~Present(i)
  <2>1. ~InArray(i)
    BY <1>1, <1>3 DEF InArray
  <2>. QED
    <3>. SUFFICES ASSUME i \in IntKeys PROVE Get(i) = Nil
      BY DEF Present
    <3>1. i # Nil
      BY KeyAssumption DEF Keys
    <3>2. Found(i) = {}
      BY <1>1, <1>3, <3>1 DEF Found, FreeNode
    <3>. QED
      BY <2>1, <3>2 DEF Get
<1>4. CASE n > 0 /\ array[n] = Nil
  <2>1. GetN = Bisect(0, n)
    BY <1>4 DEF GetN
  <2>2. ~Present(n)
    BY <1>1, <1>2, <1>4
  <2>. QED
    BY <1>1, <1>4, <2>1, <2>2, BisectFindsBoundary
<1>5. CASE ~(n > 0 /\ array[n] = Nil)
  <2>1. n = 0 \/ Present(n)
    BY <1>1, <1>2, <1>5
  <2>2. CASE dummy
    <3>1. GetN = n
      BY <1>5, <2>2 DEF GetN
    <3>2. ~Present(n + 1)
      BY <1>1, <1>3, <2>2
    <3>. QED
      BY <1>1, <2>1, <3>1, <3>2 DEF Boundary
  <2>3. CASE ~dummy
    <3>1. GetN = UnboundSearch(n)
      BY <1>5, <2>3 DEF GetN
    <3>. QED
      BY <1>1, <2>1, <3>1, UnboundSearchFindsBoundary
  <2>. QED
    BY <2>2, <2>3
<1>. QED
  BY <1>4, <1>5

\* The length operator returns a boundary of any table without an index above
\* half of MAX_INT, however it is split and whatever holes it has.  With such an
\* index unboundSearch would search linearly, by a test that is inverted.
THEOREM LengthIsABoundary == Spec => [](NoneBeyondHalf => LengthIsBoundary)
<1>1. IInv => (NoneBeyondHalf => LengthIsBoundary)
  BY LengthIs DEF Boundary, LengthIsBoundary
<1>2. Spec => []IInv
  BY IInvHolds
<1>. QED
  BY <1>1, <1>2, PTL

-----------------------------------------------------------------------------
(* Traversals *)

\* Slot p, in the order of the traversal, holds key k, whatever its value.
Holds(k, p) ==
  /\ p \in Slots /\ KeyAt(p) = k /\ k \in Keys
  /\ p <= Len(array) => k \in IntKeys

\* The traversal stands at slot p: at 0 before it has returned a key.
StandsAt(p) ==
  \/ control = Nil /\ p = 0 /\ seen = {}
  \/ control # Nil /\ Holds(control, p)

\* All that was returned is behind the traversal; all that is behind it and had
\* a value throughout was returned; what has a value throughout has one now.
TraversalOK ==
  \E p \in Nat :
    /\ StandsAt(p)
    /\ \A k \in seen : \E q \in Slots : Holds(k, q) /\ q <= p
    /\ \A k \in stayed : \E q \in Slots : Holds(k, q) /\ ValAt(q) # Nil
    /\ \A k \in stayed : \A q \in Slots : Holds(k, q) /\ q <= p => k \in seen

\* The invariant that is inductive: an insertion, which may rehash the table,
\* is the one thing that ends it.
TInv == IInv /\ (active /\ ~inserted => Idle /\ TraversalOK)
-----------------------------------------------------------------------------
(* The slots of a traversal *)

LEMMA SlotFacts ==
  ASSUME TypeOK
  PROVE  /\ Len(array) \in Nat /\ sizeNode \in Nat \ {0} /\ Slots \in SUBSET (Nat \ {0})
         /\ \A p \in Slots : p > Len(array) => p - Len(array) - 1 \in Nodes
<1>1. Len(array) \in Nat /\ sizeNode \in Nat \ {0}
  BY DEF TypeOK
<1>. DEFINE n == Len(array)
<1>. HIDE DEF n
<1>2. n \in Nat /\ sizeNode \in Nat \ {0} /\ Slots = 1 .. n + sizeNode
  BY <1>1 DEF n, Slots
<1>3. Slots \in SUBSET (Nat \ {0}) /\ \A p \in Slots : p > n => p - n - 1 \in Nodes
  BY <1>2 DEF Nodes
<1>. QED
  BY <1>1, <1>3 DEF n

\* A slot with a value holds a key.
LEMMA ValueHasKey ==
  ASSUME IInv, NEW p \in Slots, ValAt(p) # Nil
  PROVE  Holds(KeyAt(p), p) /\ KeyAt(p) # Nil
<1>1. TypeOK /\ FreeNodesUnlinked
  BY DEF IInv, NodesOK
<1>2. /\ Len(array) \in Nat /\ p \in Nat \ {0}
      /\ p > Len(array) => p - Len(array) - 1 \in Nodes
  BY <1>1, SlotFacts
<1>3. CASE p <= Len(array)
  <2>1. KeyAt(p) = p /\ array[p] # Nil /\ p \in 1 .. Len(array)
    BY <1>2, <1>3 DEF KeyAt, ValAt
  <2>2. p \in IntKeys
    BY <1>1, <2>1 DEF TypeOK
  <2>. QED
    BY <2>1, <2>2, KeyAssumption DEF Holds, Keys
<1>4. CASE ~(p <= Len(array))
  <2>. DEFINE i == p - Len(array) - 1
  <2>1. KeyAt(p) = node[i].key /\ node[i].val # Nil
    BY <1>4 DEF KeyAt, ValAt
  <2>2. i \in Nodes
    BY <1>2, <1>4
  <2>. HIDE DEF i
  <2>3. node[i].key # Nil /\ node[i].key \in Keys
    BY <1>1, <2>1, <2>2 DEF FreeNodesUnlinked, TypeOK, NodeRec
  <2>. QED
    BY <1>4, <2>1, <2>3 DEF Holds
<1>. QED
  BY <1>3, <1>4

\* No key has two slots.
LEMMA OneHolds ==
  ASSUME IInv, NEW k, NEW p, NEW q, Holds(k, p), Holds(k, q)
  PROVE  p = q
<1>1. TypeOK /\ OneSlotPerKey /\ k \in Keys /\ k # Nil
  BY KeyAssumption DEF IInv, NodesOK, Holds
<1>2. /\ Len(array) \in Nat /\ p \in Nat \ {0} /\ q \in Nat \ {0}
      /\ p > Len(array) => p - Len(array) - 1 \in Nodes
      /\ q > Len(array) => q - Len(array) - 1 \in Nodes
  BY <1>1, SlotFacts DEF Holds
<1>3. \A r : Holds(k, r) /\ r \in Nat \ {0} /\ r <= Len(array) => InArray(k) /\ r = k
  BY <1>2 DEF Holds, KeyAt, InArray
<1>4. \A r : Holds(k, r) /\ r \in Nat \ {0} /\ ~(r <= Len(array)) => node[r - Len(array) - 1].key = k
  BY <1>2 DEF Holds, KeyAt
<1>5. CASE p <= Len(array) /\ q <= Len(array)
  BY <1>2, <1>3, <1>5
<1>6. CASE p <= Len(array) /\ ~(q <= Len(array))
  BY <1>1, <1>2, <1>3, <1>4, <1>6 DEF OneSlotPerKey
<1>7. CASE ~(p <= Len(array)) /\ q <= Len(array)
  BY <1>1, <1>2, <1>3, <1>4, <1>7 DEF OneSlotPerKey
<1>8. CASE ~(p <= Len(array)) /\ ~(q <= Len(array))
  <2>1. p - Len(array) - 1 = q - Len(array) - 1
    BY <1>1, <1>2, <1>4, <1>8 DEF OneSlotPerKey
  <2>. QED
    BY <1>2, <2>1
<1>. QED
  BY <1>5, <1>6, <1>7, <1>8

\* The node that a search finds.
LEMMA FoundIs ==
  ASSUME IInv, NEW k \in Keys, NEW i \in Nodes, node[i].key = k
  PROVE  Found(k) = {i} /\ ~InArray(k)
<1>1. TypeOK /\ OneSlotPerKey /\ KeysReachable /\ k # Nil
  BY KeyAssumption DEF IInv, NodesOK
<1>2. DOMAIN node = Nodes
  BY <1>1 DEF TypeOK
<1>3. Reaches(node, MainPosition(k), i)
  BY <1>1 DEF KeysReachable, Chain, ChainIn
<1>4. \A j \in Nodes : node[j].key = k => j = i
  BY <1>1 DEF OneSlotPerKey
<1>5. ~InArray(k)
  BY <1>1 DEF OneSlotPerKey
<1>. QED
  BY <1>2, <1>3, <1>4, <1>5 DEF Found

\* findIndex finds the slot of the control variable, cleared or not.
LEMMA FindIndexIs ==
  ASSUME IInv, NEW p \in Nat, StandsAt(p)
  PROVE  FindIndex = p
<1>1. CASE control = Nil /\ p = 0
  BY <1>1 DEF FindIndex
<1>2. CASE control # Nil /\ Holds(control, p)
  <2>1. TypeOK /\ p \in Slots /\ control \in Keys
    BY <1>2 DEF IInv, Holds
  <2>2. Len(array) \in Nat /\ p \in Nat \ {0} /\ (p > Len(array) => p - Len(array) - 1 \in Nodes)
    BY <2>1, SlotFacts
  <2>3. CASE p <= Len(array)
    BY <1>2, <2>2, <2>3 DEF Holds, KeyAt, InArray, FindIndex
  <2>4. CASE ~(p <= Len(array))
    <3>. DEFINE i == p - Len(array) - 1
    <3>1. i \in Nodes /\ node[i].key = control
      BY <1>2, <2>2, <2>4 DEF Holds, KeyAt
    <3>2. Len(array) + 1 + i = p
      BY <2>2
    <3>. HIDE DEF i
    <3>3. Found(control) = {i} /\ ~InArray(control)
      BY <2>1, <3>1, FoundIs
    <3>4. (CHOOSE j \in Found(control) : TRUE) = i
      BY <3>3
    <3>. QED
      BY <1>2, <3>2, <3>3, <3>4 DEF FindIndex
  <2>. QED
    BY <2>3, <2>4
<1>. QED
  BY <1>1, <1>2 DEF StandsAt

\* A key that Get finds has a slot with its value.
LEMMA GetHasSlot ==
  ASSUME IInv, NEW k \in Keys, Get(k) # Nil
  PROVE  \E q \in Slots : Holds(k, q) /\ ValAt(q) # Nil
<1>1. TypeOK
  BY DEF IInv
<1>2. Len(array) \in Nat /\ sizeNode \in Nat \ {0}
  BY <1>1, SlotFacts
<1>3. CASE InArray(k)
  <2>1. k \in 1 .. Len(array) /\ array[k] # Nil /\ k \in IntKeys
    BY <1>3 DEF InArray, Get
  <2>2. k \in Slots
    BY <1>2, <2>1 DEF Slots
  <2>3. KeyAt(k) = k /\ ValAt(k) # Nil
    BY <2>1 DEF KeyAt, ValAt
  <2>. QED
    BY <2>1, <2>2, <2>3 DEF Holds
<1>4. CASE ~InArray(k)
  <2>1. Found(k) # {}
    BY <1>4 DEF Get
  <2>. DEFINE i == CHOOSE i \in Found(k) : TRUE
  <2>2. i \in Found(k) /\ node[i].val # Nil
    BY <1>4, <2>1 DEF Get
  <2>. HIDE DEF i
  <2>3. i \in Nodes /\ node[i].key = k
    BY <1>1, <2>2 DEF Found, TypeOK
  <2>. DEFINE n == Len(array)  q == n + 1 + i
  <2>4. i \in Nat /\ n \in Nat /\ i < sizeNode
    BY <1>2, <2>3 DEF Nodes
  <2>5. q \in 1 .. n + sizeNode /\ ~(q <= n) /\ q - n - 1 = i
    <3>. HIDE DEF n
    <3>. QED
      BY <1>2, <2>4
  <2>. HIDE DEF q
  <2>6. q \in Slots /\ KeyAt(q) = k /\ ValAt(q) # Nil
    BY <2>2, <2>3, <2>5 DEF Slots, KeyAt, ValAt
  <2>. QED
    BY <2>5, <2>6 DEF Holds
<1>. QED
  BY <1>3, <1>4
-----------------------------------------------------------------------------
(* A write to a field that exists *)

\* It moves no key, and changes the value in the slot of its key only.
LEMMA WriteKeepsSlots ==
  ASSUME IInv, NEW k \in Keys, NEW v \in MaybeVal, SetKey(k, v), HasSlot(k)
  PROVE  /\ Idle' /\ Slots' = Slots /\ Len(array') = Len(array)
         /\ \A p \in Slots : KeyAt(p)' = KeyAt(p)
         /\ \A c, p : Holds(c, p)' <=> Holds(c, p)
         /\ \A p \in Slots : ~Holds(k, p) => ValAt(p)' = ValAt(p)
         /\ \A p \in Slots : Holds(k, p) => ValAt(p)' = v
<1>1. TypeOK /\ OneSlotPerKey /\ k # Nil
  BY KeyAssumption DEF IInv, NodesOK
<1>2. /\ Len(array) \in Nat /\ sizeNode \in Nat \ {0} /\ Slots \in SUBSET (Nat \ {0})
      /\ \A p \in Slots : p > Len(array) => p - Len(array) - 1 \in Nodes
  BY <1>1, SlotFacts
<1>3. Store(k, v) /\ UNCHANGED <<pending, extra>> /\ Idle' /\ sizeNode' = sizeNode
  BY DEF SetKey, HasSlot, Idle, Store
<1>4. CASE InArray(k)
  <2>1. array' = [array EXCEPT ![k] = v] /\ node' = node /\ k \in 1 .. Len(array)
    BY <1>1, <1>3, <1>4 DEF Store, Found, InArray
  <2>2. /\ Len(array') = Len(array) /\ array'[k] = v
        /\ \A i \in 1 .. Len(array) : i # k => array'[i] = array[i]
    BY <1>1, <2>1, ExceptSeq DEF TypeOK
  <2>3. Slots' = Slots /\ \A p : KeyAt(p)' = KeyAt(p)
    BY <1>3, <2>1, <2>2 DEF Slots, KeyAt
  <2>4. \A c, p : Holds(c, p)' <=> Holds(c, p)
    BY <2>2, <2>3 DEF Holds
  <2>5. ASSUME NEW p \in Slots PROVE (~Holds(k, p) => ValAt(p)' = ValAt(p)) /\ (Holds(k, p) => ValAt(p)' = v)
    <3>1. p \in Nat \ {0} /\ (p > Len(array) => p - Len(array) - 1 \in Nodes)
      BY <1>2
    <3>2. CASE p <= Len(array)
      <4>1. p \in 1 .. Len(array) /\ KeyAt(p) = p
        BY <1>2, <3>1, <3>2 DEF KeyAt
      <4>2. p \in IntKeys \/ array[p] = Nil
        BY <1>1, <4>1 DEF TypeOK
      <4>3. ValAt(p) = array[p] /\ ValAt(p)' = array'[p]
        BY <2>2, <3>2 DEF ValAt
      <4>4. k \in IntKeys
        BY <1>2, <1>4, KeyAssumption DEF InArray, Keys
      <4>5. CASE p = k
        BY <2>2, <3>2, <4>1, <4>3, <4>4, <4>5 DEF Holds
      <4>6. CASE p # k
        BY <2>2, <4>1, <4>3, <4>6 DEF Holds
      <4>. QED
        BY <4>5, <4>6
    <3>3. CASE ~(p <= Len(array))
      <4>1. KeyAt(p) # k
        BY <1>1, <1>2, <1>4, <3>1, <3>3 DEF OneSlotPerKey, KeyAt
      <4>. QED
        BY <2>1, <2>2, <3>3, <4>1 DEF ValAt, Holds
    <3>. QED
      BY <3>2, <3>3
  <2>. QED
    BY <1>3, <2>2, <2>3, <2>4, <2>5
<1>5. CASE ~InArray(k)
  <2>1. PICK i \in Found(k) : node' = [node EXCEPT ![i].val = v]
    BY <1>3, <1>5 DEF Store, HasSlot
  <2>2. array' = array
    BY <1>3, <1>5 DEF Store, HasSlot
  <2>3. i \in Nodes /\ node[i].key = k
    BY <1>1, <2>1 DEF Found, TypeOK
  <2>4. /\ \A j \in Nodes : node'[j].key = node[j].key
        /\ \A j \in Nodes : j # i => node'[j] = node[j]
        /\ node'[i].val = v
    BY <1>1, <2>1, <2>3 DEF TypeOK, NodeRec
  <2>5. Slots' = Slots /\ Len(array') = Len(array)
    BY <1>3, <2>2 DEF Slots
  <2>6. \A p \in Slots : KeyAt(p)' = KeyAt(p)
    <3>1. TAKE p \in Slots
    <3>2. p \in Nat /\ Len(array) \in Nat /\ (p > Len(array) => p - Len(array) - 1 \in Nodes)
      BY <1>2
    <3>. QED
      BY <2>2, <2>4, <3>2 DEF KeyAt
  <2>7. \A c, p : Holds(c, p)' <=> Holds(c, p)
    BY <2>5, <2>6 DEF Holds
  <2>8. ASSUME NEW p \in Slots PROVE (~Holds(k, p) => ValAt(p)' = ValAt(p)) /\ (Holds(k, p) => ValAt(p)' = v)
    <3>1. p \in Nat \ {0} /\ (p > Len(array) => p - Len(array) - 1 \in Nodes)
      BY <1>2
    <3>2. CASE p <= Len(array)
      <4>1. p \in 1 .. Len(array) /\ KeyAt(p) = p
        BY <1>2, <3>1, <3>2 DEF KeyAt
      <4>2. p # k
        BY <1>2, <1>5, <4>1, KeyAssumption DEF InArray, Keys
      <4>. QED
        BY <2>2, <3>2, <4>1, <4>2 DEF ValAt, Holds
    <3>3. CASE ~(p <= Len(array))
      <4>. DEFINE j == p - Len(array) - 1
      <4>1. j \in Nodes
        BY <1>2, <3>1, <3>3
      <4>2. KeyAt(p) = node[j].key /\ ValAt(p) = node[j].val /\ ValAt(p)' = node'[j].val
        BY <2>2, <3>3 DEF KeyAt, ValAt
      <4>. HIDE DEF j
      <4>3. CASE j = i
        BY <2>3, <2>4, <3>3, <4>2, <4>3 DEF Holds
      <4>4. CASE j # i
        <5>1. KeyAt(p) # k
          BY <1>1, <2>3, <4>1, <4>2, <4>4 DEF OneSlotPerKey
        <5>. QED
          BY <2>4, <4>1, <4>2, <4>4, <5>1 DEF Holds
      <4>. QED
        BY <4>3, <4>4
    <3>. QED
      BY <3>2, <3>3
  <2>. QED
    BY <1>3, <2>5, <2>6, <2>7, <2>8
<1>. QED
  BY <1>4, <1>5
-----------------------------------------------------------------------------
(* Every step keeps the invariant *)

LEMMA InitEstablishesTInv == TInit => TInv
BY InitEstablishesIInv DEF TInit, TInv

LEMMA StepOfTable == [TNext]_<<vars, tvars>> => [Next]_vars
BY DEF TNext, BeginTraversal, NextKey, EndTraversal, WriteField, Internal, Next

\* The keys of what has a value are found where the traversal looks.
LEMMA BeginKeepsTInv == TInv /\ BeginTraversal => TraversalOK'
<1>. SUFFICES ASSUME TInv, BeginTraversal PROVE TraversalOK'
  OBVIOUS
<1>1. IInv /\ UNCHANGED vars /\ control' = Nil /\ seen' = {}
  BY DEF TInv, BeginTraversal
<1>2. Slots \in SUBSET (Nat \ {0})
  BY <1>1, SlotFacts DEF IInv
<1>3. /\ Slots' = Slots
      /\ \A k, p : Holds(k, p)' <=> Holds(k, p)
      /\ \A p : ValAt(p)' = ValAt(p)
  BY <1>1 DEF vars, Slots, Holds, KeyAt, ValAt
<1>4. StandsAt(0)'
  BY <1>1 DEF StandsAt
<1>5. \A k \in stayed' : k \in Keys /\ Get(k) # Nil
  BY DEF BeginTraversal
<1>6. \A k \in stayed' : \E q \in Slots' : Holds(k, q)' /\ ValAt(q)' # Nil
  BY <1>1, <1>3, <1>5, GetHasSlot
<1>7. \A k \in stayed' : \A q \in Slots' : Holds(k, q)' /\ q <= 0 => k \in seen'
  BY <1>2, <1>3
<1>. QED
  BY <1>1, <1>4, <1>6, <1>7 DEF TraversalOK

LEMMA NextKeyKeepsTInv == IInv /\ TraversalOK /\ NextKey => TraversalOK'
<1>. SUFFICES ASSUME IInv, TraversalOK, NextKey PROVE TraversalOK'
  OBVIOUS
<1>1. PICK p \in Nat :
        /\ StandsAt(p)
        /\ \A k \in seen : \E q \in Slots : Holds(k, q) /\ q <= p
        /\ \A k \in stayed : \E q \in Slots : Holds(k, q) /\ ValAt(q) # Nil
        /\ \A k \in stayed : \A q \in Slots : Holds(k, q) /\ q <= p => k \in seen
  BY DEF TraversalOK
<1>2. FindIndex = p
  BY <1>1, FindIndexIs
<1>3. PICK r \in LaterEntries : (\A q \in LaterEntries : r <= q) /\ control' = KeyAt(r)
  BY DEF NextKey
<1>4. UNCHANGED <<vars, stayed>> /\ seen' = seen \cup {control'}
  BY DEF NextKey
<1>5. Slots \in SUBSET (Nat \ {0})
  BY SlotFacts DEF IInv
<1>6. r \in Slots /\ r \in Nat /\ r > p /\ ValAt(r) # Nil
  BY <1>2, <1>3, <1>5 DEF LaterEntries
<1>7. Holds(control', r) /\ control' # Nil
  BY <1>3, <1>6, ValueHasKey
<1>8. /\ Slots' = Slots
      /\ \A k, q : Holds(k, q)' <=> Holds(k, q)
      /\ \A q : ValAt(q)' = ValAt(q)
  BY <1>4 DEF vars, Slots, Holds, KeyAt, ValAt
<1>9. StandsAt(r)'
  <2>1. Len(array') = Len(array) /\ KeyAt(r)' = KeyAt(r)
    BY <1>4 DEF vars, KeyAt
  <2>. QED
    BY <1>7, <1>8, <2>1 DEF StandsAt, Holds
<1>10. \A k \in seen' : \E q \in Slots : Holds(k, q) /\ q <= r
  <2>1. TAKE k \in seen'
  <2>2. CASE k = control'
    BY <1>6, <1>7, <2>2
  <2>3. CASE k \in seen
    <3>1. PICK q \in Slots : Holds(k, q) /\ q <= p
      BY <1>1, <2>3
    <3>. QED
      BY <1>5, <1>6, <3>1
  <2>. QED
    BY <1>4, <2>2, <2>3
<1>11. \A k \in stayed : \A q \in Slots : Holds(k, q) /\ q <= r => k \in seen'
  <2>1. TAKE k \in stayed
  <2>2. TAKE q \in Slots
  <2>3. HAVE Holds(k, q) /\ q <= r
  <2>4. CASE q <= p
    BY <1>1, <1>4, <2>3, <2>4
  <2>5. CASE ~(q <= p)
    <3>1. PICK g \in Slots : Holds(k, g) /\ ValAt(g) # Nil
      BY <1>1
    <3>2. g = q
      BY <2>3, <3>1, OneHolds
    <3>3. q \in Nat /\ q > p
      BY <1>5, <2>5
    <3>4. q \in LaterEntries
      BY <1>2, <3>1, <3>2, <3>3 DEF LaterEntries
    <3>5. q = r
      BY <1>3, <1>6, <2>3, <3>3, <3>4
    <3>. QED
      BY <1>3, <1>4, <2>3, <3>5 DEF Holds
  <2>. QED
    BY <2>4, <2>5
<1>. QED
  <2>1. \A k \in seen' : \E q \in Slots' : Holds(k, q)' /\ q <= r
    BY <1>8, <1>10
  <2>2. \A k \in stayed' : \E q \in Slots' : Holds(k, q)' /\ ValAt(q)' # Nil
    BY <1>1, <1>4, <1>8
  <2>3. \A k \in stayed' : \A q \in Slots' : Holds(k, q)' /\ q <= r => k \in seen'
    BY <1>4, <1>8, <1>11
  <2>. QED
    BY <1>6, <1>9, <2>1, <2>2, <2>3 DEF TraversalOK

\* A field that exists keeps its slot; cleared, its key has not stayed.
LEMMA WriteKeepsTInv ==
  ASSUME IInv, TraversalOK, NEW k \in Keys, NEW v \in MaybeVal, WriteField(k, v), HasSlot(k)
  PROVE  Idle' /\ TraversalOK'
<1>1. PICK p \in Nat :
        /\ StandsAt(p)
        /\ \A c \in seen : \E q \in Slots : Holds(c, q) /\ q <= p
        /\ \A c \in stayed : \E q \in Slots : Holds(c, q) /\ ValAt(q) # Nil
        /\ \A c \in stayed : \A q \in Slots : Holds(c, q) /\ q <= p => c \in seen
  BY DEF TraversalOK
<1>2. /\ SetKey(k, v) /\ UNCHANGED <<control, seen>>
      /\ stayed' = IF v = Nil THEN stayed \ {k} ELSE stayed
  BY DEF WriteField
<1>3. /\ Idle' /\ Slots' = Slots /\ Len(array') = Len(array)
      /\ \A q \in Slots : KeyAt(q)' = KeyAt(q)
      /\ \A c, q : Holds(c, q)' <=> Holds(c, q)
      /\ \A q \in Slots : ~Holds(k, q) => ValAt(q)' = ValAt(q)
      /\ \A q \in Slots : Holds(k, q) => ValAt(q)' = v
  BY <1>2, WriteKeepsSlots
<1>4. StandsAt(p)'
  BY <1>1, <1>2, <1>3 DEF StandsAt, Holds
<1>5. \A c \in stayed' : \E q \in Slots' : Holds(c, q)' /\ ValAt(q)' # Nil
  <2>1. TAKE c \in stayed'
  <2>2. c \in stayed /\ (v = Nil => c # k)
    BY <1>2
  <2>3. PICK q \in Slots : Holds(c, q) /\ ValAt(q) # Nil
    BY <1>1, <2>2
  <2>4. CASE c = k
    BY <1>3, <2>2, <2>3, <2>4
  <2>5. CASE c # k
    <3>1. ~Holds(k, q)
      BY <2>3, <2>5 DEF Holds
    <3>. QED
      BY <1>3, <2>3, <3>1
  <2>. QED
    BY <2>4, <2>5
<1>6. \A c \in stayed' : \A q \in Slots' : Holds(c, q)' /\ q <= p => c \in seen'
  BY <1>1, <1>2, <1>3
<1>7. \A c \in seen' : \E q \in Slots' : Holds(c, q)' /\ q <= p
  BY <1>1, <1>2, <1>3
<1>. QED
  BY <1>3, <1>4, <1>5, <1>6, <1>7 DEF TraversalOK

LEMMA NextKeepsTInv == TInv /\ [TNext]_<<vars, tvars>> => TInv'
<1>. SUFFICES ASSUME TInv, [TNext]_<<vars, tvars>> PROVE TInv'
  OBVIOUS
<1>1. IInv /\ IInv'
  BY StepOfTable, NextKeepsIInv DEF TInv
<1>2. CASE BeginTraversal
  <2>1. Idle'
    BY <1>2 DEF BeginTraversal, vars, Idle
  <2>. QED
    BY <1>1, <1>2, <2>1, BeginKeepsTInv DEF TInv
<1>3. CASE NextKey
  <2>1. (active' /\ ~inserted' => active /\ ~inserted) /\ Idle'
    BY <1>3 DEF NextKey, vars, Idle
  <2>. QED
    BY <1>1, <1>3, <2>1, NextKeyKeepsTInv DEF TInv
<1>4. CASE EndTraversal
  BY <1>1, <1>4 DEF EndTraversal, TInv
<1>5. CASE \E k \in Keys, v \in MaybeVal : WriteField(k, v)
  <2>1. PICK k \in Keys, v \in MaybeVal : WriteField(k, v)
    BY <1>5
  <2>2. CASE active' /\ ~inserted'
    <3>1. active /\ ~inserted /\ HasSlot(k)
      BY <2>1, <2>2 DEF WriteField
    <3>. QED
      BY <1>1, <2>1, <3>1, WriteKeepsTInv DEF TInv
  <2>. QED
    BY <1>1, <2>2 DEF TInv
<1>6. CASE Internal
  <2>1. ~Idle /\ active' = active /\ inserted' = inserted
    BY <1>6 DEF Internal, Reinsert, ReinsertKey, Idle, tvars
  <2>. QED
    BY <1>1, <2>1 DEF TInv
<1>7. CASE UNCHANGED <<vars, tvars>>
  BY <1>1, <1>7 DEF TInv, vars, tvars, Idle, TraversalOK, StandsAt, Holds, Slots, KeyAt, ValAt
<1>. QED
  BY <1>2, <1>3, <1>4, <1>5, <1>6, <1>7 DEF TNext

LEMMA TInvHolds == TSpec => []TInv
BY InitEstablishesTInv, NextKeepsTInv, PTL DEF TSpec
-----------------------------------------------------------------------------
(* What a loop sees *)

\* The next key is behind nothing that was returned (LuaTableNext!NoKeyTwice):
\* hNext goes on from the slot that findIndex finds, and every key that was
\* returned has its one slot there or before.
THEOREM NoKeyComesTwice == TSpec => NoKeyTwice
<1>1. TInv /\ [TNext]_<<vars, tvars>> => (NextKey /\ ~inserted => control' \notin seen)
  <2>. SUFFICES ASSUME TInv, NextKey, ~inserted PROVE control' \notin seen
    OBVIOUS
  <2>1. IInv /\ TraversalOK
    BY DEF TInv, NextKey
  <2>2. PICK p \in Nat :
          StandsAt(p) /\ \A k \in seen : \E q \in Slots : Holds(k, q) /\ q <= p
    BY <2>1 DEF TraversalOK
  <2>3. PICK r \in LaterEntries : control' = KeyAt(r)
    BY DEF NextKey
  <2>4. r \in Slots /\ r > p /\ ValAt(r) # Nil /\ r \in Nat
    BY <2>1, <2>2, <2>3, FindIndexIs, SlotFacts DEF LaterEntries, IInv
  <2>5. Holds(control', r)
    BY <2>1, <2>3, <2>4, ValueHasKey
  <2>6. ASSUME control' \in seen PROVE FALSE
    <3>1. PICK q \in Slots : Holds(control', q) /\ q <= p
      BY <2>2, <2>6
    <3>2. q = r
      BY <2>1, <2>5, <3>1, OneHolds
    <3>. QED
      BY <2>2, <2>4, <3>1, <3>2
  <2>. QED
    BY <2>6
<1>. QED
  BY <1>1, TInvHolds, PTL DEF TSpec, NoKeyTwice

\* A loop that does not insert ends only when it has seen every key that had a
\* value all along (LuaTableNext!NoKeyMissed): no entry after the last key
\* returned has a value, and none before it was passed over.
THEOREM NoKeyIsMissed == TSpec => NoKeyMissed
<1>1. TInv /\ [TNext]_<<vars, tvars>> => (EndTraversal /\ ~inserted => stayed \subseteq seen)
  <2>. SUFFICES ASSUME TInv, EndTraversal, ~inserted, NEW k \in stayed PROVE k \in seen
    OBVIOUS
  <2>1. IInv /\ TraversalOK /\ LaterEntries = {}
    BY DEF TInv, EndTraversal
  <2>2. PICK p \in Nat :
          /\ StandsAt(p)
          /\ \A c \in stayed : \E q \in Slots : Holds(c, q) /\ ValAt(q) # Nil
          /\ \A c \in stayed : \A q \in Slots : Holds(c, q) /\ q <= p => c \in seen
    BY <2>1 DEF TraversalOK
  <2>3. PICK q \in Slots : Holds(k, q) /\ ValAt(q) # Nil
    BY <2>2
  <2>4. ~(q > p)
    BY <2>1, <2>2, <2>3, FindIndexIs DEF LaterEntries
  <2>5. q \in Nat
    BY <2>1, <2>3, SlotFacts DEF IInv
  <2>. QED
    BY <2>2, <2>3, <2>4, <2>5
<1>. QED
  BY <1>1, TInvHolds, PTL DEF TSpec, NoKeyMissed
=============================================================================
