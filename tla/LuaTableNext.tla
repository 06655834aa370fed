---------------------------- MODULE LuaTableNext ----------------------------
(***************************************************************************)
(* Traversal: hNext and findIndex of lua/ltable.go as OP_TFORLOOP drives   *)
(* them through LuaNext, while the program keeps writing to the table.     *)
(* Between two calls the traversal is nothing but the last key returned.   *)
(***************************************************************************)
EXTENDS LuaTable

VARIABLES
  active,   \* a traversal is under way
  control,  \* its control variable, the last key returned; Nil at the start
  seen,     \* history: the keys this traversal has returned
  stayed,   \* history: the keys that have had a value ever since it started
  inserted  \* history: a key without a slot was assigned since it started

tvars == <<active, control, seen, stayed, inserted>>

\* A traversal numbers the array part first, then the nodes.
Slots == 1 .. Len(array) + sizeNode
KeyAt(p) == IF p <= Len(array) THEN p ELSE node[p - Len(array) - 1].key
ValAt(p) == IF p <= Len(array) THEN array[p] ELSE node[p - Len(array) - 1].val

\* Broken: a node's number is not counted from 1.
FindIndexBefore ==
  IF control = Nil THEN 0
  ELSE IF InArray(control) THEN control
  ELSE IF Found(control) # {}
       THEN Len(array) + (CHOOSE i \in Found(control) : TRUE)
  ELSE 1

\* Broken: forgets that the nodes are numbered after the array part.
FindIndexOfNode ==
  IF control = Nil THEN 0
  ELSE IF InArray(control) THEN control
  ELSE IF Found(control) # {}
       THEN 1 + (CHOOSE i \in Found(control) : TRUE)
  ELSE 1

\* Broken: starts after the slot that follows the control variable's.
FindIndexAfter ==
  IF control = Nil THEN 0
  ELSE IF InArray(control) THEN control + 1
  ELSE IF Found(control) # {}
       THEN Len(array) + 2 + (CHOOSE i \in Found(control) : TRUE)
  ELSE 1

\* findIndex, counted from 1 (the code's -1, "first iteration", is 0 here).
\* For a key that is not in the table it logs "invalid key to 'next'" and goes
\* on to return index 0, the first slot.
FindIndex ==
  IF control = Nil THEN 0
  ELSE IF InArray(control) THEN control
  ELSE IF Found(control) # {}
       THEN Len(array) + 1 + (CHOOSE i \in Found(control) : TRUE)
  ELSE 1

LaterEntries == { p \in Slots : p > FindIndex /\ ValAt(p) # Nil }

BeginTraversal ==
  /\ Idle
  /\ ~active
  /\ active' = TRUE
  /\ control' = Nil
  /\ seen' = {}
  /\ stayed' = { k \in Keys : Get(k) # Nil }
  /\ inserted' = FALSE
  /\ UNCHANGED vars

\* hNext finds a non-nil entry after the control variable.
NextKey ==
  /\ Idle
  /\ active
  /\ \E p \in LaterEntries :
       /\ \A q \in LaterEntries : p <= q
       /\ control' = KeyAt(p)
  /\ seen' = seen \cup {control'}
  /\ UNCHANGED <<vars, active, stayed, inserted>>

\* hNext finds none: LuaNext returns false and the loop is left.
EndTraversal ==
  /\ Idle
  /\ active
  /\ LaterEntries = {}
  /\ active' = FALSE
  /\ control' = Nil /\ seen' = {} /\ stayed' = {} /\ inserted' = FALSE
  /\ UNCHANGED vars

\* The loop body writes to the table; a field that has a slot keeps it.
HasSlot(k) == InArray(k) \/ Found(k) # {}

WriteField(k, v) ==
  /\ SetKey(k, v)
  /\ stayed' = IF v = Nil THEN stayed \ {k} ELSE stayed
  /\ inserted' = (inserted \/ (active /\ ~HasSlot(k)))
  /\ UNCHANGED <<active, control, seen>>

Internal == (Reinsert \/ ReinsertKey) /\ UNCHANGED tvars

TInit ==
  /\ Init
  /\ active = FALSE /\ control = Nil
  /\ seen = {} /\ stayed = {} /\ inserted = FALSE

TNext ==
  \/ BeginTraversal
  \/ NextKey
  \/ EndTraversal
  \/ \E k \in Keys, v \in MaybeVal : WriteField(k, v)
  \/ Internal

\* The interpreter always executes a next instruction, so the loop asks for
\* another key again and again, and a rehash runs to its end.
TSpec == /\ TInit /\ [][TNext]_<<vars, tvars>>
         /\ WF_<<vars, tvars>>(NextKey \/ EndTraversal)
         /\ WF_<<vars, tvars>>(Internal)
-----------------------------------------------------------------------------
(* Properties *)

\* A traversal returns no key twice, however the loop body assigns to or
\* clears fields that exist (ltable.go:171, a dead key is ok to use in next).
NoKeyTwice ==
  [][NextKey /\ ~inserted => control' \notin seen]_<<vars, tvars>>

\* A traversal that ends has returned every key that had a value throughout.
NoKeyMissed ==
  [][EndTraversal /\ ~inserted => stayed \subseteq seen]_<<vars, tvars>>

\* A loop that does not insert comes to its end, whatever it clears or writes.
TraversalEnds == active ~> (~active \/ inserted)
=============================================================================
