---------------------------- MODULE LuaUpvalues -----------------------------
(***************************************************************************)
(* Upvalues (lua/lfunc.go): how closures get at the local variables of     *)
(* functions that are still running (open upvalues) or have returned.      *)
(*                                                                         *)
(* A variable lives in a stack slot, an UpVal points to the slot.  The     *)
(* stack moves when it grows: memory is every array it has been in, the    *)
(* last one is L.stack; Go keeps the others while a pointer leads to them. *)
(* Every register of a frame is a variable in scope.  Calls return nothing *)
(* and closures have one upvalue each (LuaCall models results).            *)
(***************************************************************************)
EXTENDS Naturals, Sequences

CONSTANTS
  Val,
  STACKSIZE,                      \* the stack at the start
  MAXVARS, MAXFRAMES, MAXUPVALS   \* bounds of the model

ASSUME BoundAssumption ==
  /\ STACKSIZE \in Nat \ {0} /\ MAXVARS \in Nat \ {0}
  /\ MAXFRAMES \in Nat /\ MAXUPVALS \in Nat
  /\ Val # {}

VARIABLES
  memory,
  upvals,  \* every UpVal: where v points, whether its variable is in scope,
           \* and the value it must have when it no longer is (history)
  open,    \* L.openUpval, as the sequence of its members
  frames   \* base, number of variables, upvalue of the closure, protected call

vars == <<memory, upvals, open, frames>>

NoUpval == 0
Now == Len(memory)
Stack == memory[Now]
Frame == frames[Len(frames)]
Content(u) == memory[upvals[u].array][upvals[u].pos]

\* The slot above the variables of the running function.
FreeSlot == IF frames = <<>> THEN 1 ELSE Frame.base + Frame.n
-----------------------------------------------------------------------------
(* The list of open upvalues; addresses compare like slots, for its members *)
(* all point into the present stack.                                        *)

Slot(u) == upvals[u].pos

\* Broken: stops at the slot itself.
ClosableAbove(level) ==
  CHOOSE k \in 0 .. Len(open) :
    /\ \A i \in 1 .. k : Slot(open[i]) > level
    /\ k < Len(open) => ~(Slot(open[k + 1]) > level)

\* How many members at the head of the list are at or above level.
AtOrAbove(level) ==
  CHOOSE k \in 0 .. Len(open) :
    /\ \A i \in 1 .. k : Slot(open[i]) >= level
    /\ k < Len(open) => Slot(open[k + 1]) < level

\* fClose unlinks them.  It does not copy the variable into the UpVal: v still
\* points to the slot.
Closed(level) == SubSeq(open, AtOrAbove(level) + 1, Len(open))

\* fFindUpVal.  An upvalue of the same slot would be found only if it were
\* dead (isdead is always false), so each search creates one more.
Chained(u, level) ==
  SubSeq(open, 1, AtOrAbove(level)) \o <<u>> \o Closed(level)

\* History: the variables from slot level on go out of scope.
OutOfScope(level) ==
  [u \in DOMAIN upvals |->
     IF upvals[u].inScope /\ Slot(u) >= level
     THEN [upvals[u] EXCEPT !.inScope = FALSE, !.kept = Content(u)]
     ELSE upvals[u]]

CloseFrom(level) == open' = Closed(level) /\ upvals' = OutOfScope(level)
-----------------------------------------------------------------------------
(* Instructions of the running function *)

InFunction == frames # <<>>
WithVars(n) == [frames EXCEPT ![Len(frames)].n = n]

\* A local statement, a parameter or a loop variable.
Declare ==
  /\ InFunction /\ Frame.n < MAXVARS
  /\ \E v \in Val : memory' = [memory EXCEPT ![Now][FreeSlot] = v]
  /\ frames' = WithVars(Frame.n + 1)
  /\ UNCHANGED <<upvals, open>>

\* Assignment, from any value or (OP_GETUPVAL) from the function's upvalue.
Assign ==
  /\ InFunction
  /\ \E i \in 0 .. Frame.n - 1,
        v \in Val \cup (IF Frame.up = NoUpval THEN {} ELSE {Content(Frame.up)}) :
       memory' = [memory EXCEPT ![Now][Frame.base + i] = v]
  /\ UNCHANGED <<upvals, open, frames>>

\* OP_SETUPVAL.
SetUpval ==
  /\ InFunction /\ Frame.up # NoUpval
  /\ \E v \in Val :
       /\ memory' = [memory EXCEPT ![upvals[Frame.up].array][Slot(Frame.up)] = v]
       /\ upvals' = [upvals EXCEPT ![Frame.up].kept = v]
  /\ UNCHANGED <<open, frames>>

\* OP_CLOSURE with OP_MOVE: captures a variable of the running function.
\* (With OP_GETUPVAL the closure shares an UpVal that exists.)
Capture ==
  /\ InFunction /\ Len(upvals) < MAXUPVALS
  /\ \E i \in 0 .. Frame.n - 1 :
       LET slot == Frame.base + i
       IN /\ upvals' = Append(upvals, [array |-> Now, pos |-> slot, inScope |-> TRUE,
                                       kept |-> Stack[slot]])
          /\ open' = Chained(Len(upvals) + 1, slot)
  /\ UNCHANGED <<memory, frames>>

\* OP_CLOSE at the end of a block, before a break and at the end of each
\* iteration; it is emitted if a variable of the block was captured, and has
\* no effect otherwise.
LeaveBlock ==
  /\ InFunction
  /\ \E n \in 0 .. Frame.n - 1 : frames' = WithVars(n) /\ CloseFrom(Frame.base + n)
  /\ UNCHANGED memory
-----------------------------------------------------------------------------
(* Calls *)

\* Broken: forgets the first member of the list.
CorrectedTail ==
  [u \in DOMAIN upvals |->
     IF \E i \in 2 .. Len(open) : open[i] = u
     THEN [upvals[u] EXCEPT !.array = Now + 1] ELSE upvals[u]]

\* correctstack: the members of the list point into the new array.
Corrected ==
  [u \in DOMAIN upvals |->
     IF \E i \in DOMAIN open : open[i] = u
     THEN [upvals[u] EXCEPT !.array = Now + 1] ELSE upvals[u]]

\* dGrowStack: "double size is enough?"
NewSize == IF MAXVARS <= Len(Stack) THEN 2 * Len(Stack) ELSE Len(Stack) + MAXVARS

\* dReAllocStack copies the values into an array of the new size and one more.
Reallocate ==
  /\ \E v \in Val :
       memory' = Append(memory, [p \in 1 .. NewSize + 1 |->
                                   IF p <= Len(Stack) THEN Stack[p] ELSE v])
  /\ upvals' = Corrected

\* Calls any closure; the function is in the free slot, its frame above it.
Call ==
  /\ Len(frames) < MAXFRAMES
  /\ \E up \in {NoUpval} \cup DOMAIN upvals, protected \in BOOLEAN :
       /\ protected \/ InFunction
       /\ frames' = Append(frames, [base |-> FreeSlot + 1, n |-> 0, up |-> up,
                                    protected |-> protected])
  /\ IF FreeSlot + MAXVARS <= Len(Stack) THEN UNCHANGED <<memory, upvals>>
     ELSE Reallocate
  /\ UNCHANGED open

\* OP_RETURN.
Return ==
  /\ InFunction
  /\ CloseFrom(Frame.base)
  /\ frames' = SubSeq(frames, 1, Len(frames) - 1)
  /\ UNCHANGED memory

\* dThrow, caught by the innermost dPCall, which closes from the position of
\* the function it called and stores the message there.
Error ==
  /\ InFunction
  /\ \E p \in DOMAIN frames :
       LET oldTop == frames[p].base - 1
       IN /\ frames[p].protected
          /\ \A q \in p + 1 .. Len(frames) : ~frames[q].protected
          /\ CloseFrom(oldTop)
          /\ \E v \in Val : memory' = [memory EXCEPT ![Now][oldTop] = v]
          /\ frames' = SubSeq(frames, 1, p - 1)
-----------------------------------------------------------------------------
Init ==
  /\ \E v \in Val : memory = << [p \in 1 .. STACKSIZE |-> v] >>
  /\ upvals = <<>> /\ open = <<>> /\ frames = <<>>

Next == Declare \/ Assign \/ SetUpval \/ Capture \/ LeaveBlock \/ Call \/ Return \/ Error

Spec == Init /\ [][Next]_vars
-----------------------------------------------------------------------------
(* Properties *)

\* The list holds the captured variables in scope, all of them and no other,
\* whichever way (end of a block, return, error) the others went: a missing
\* one would be left behind by the next reallocation, one too many would be a
\* pointer to a slot that a new variable reuses.
OpenAreInScope ==
  { open[i] : i \in DOMAIN open } = { u \in DOMAIN upvals : upvals[u].inScope }

\* As long as its variable is in scope an upvalue points to the variable
\* itself, in the stack as it is now: the function that declared it and every
\* closure that captured it read and write one place.
PointsToVariable ==
  \A u \in DOMAIN upvals :
    upvals[u].inScope =>
      /\ upvals[u].array = Now
      /\ \E f \in DOMAIN frames : Slot(u) \in frames[f].base .. frames[f].base + frames[f].n - 1

\* upvalues.go:7, v "points to stack or to its own value", and value is "the
\* value (when closed)": a captured variable that is out of scope keeps the
\* value it had, or was last given by a closure.
ClosedKeepsValue ==
  \A u \in DOMAIN upvals : ~upvals[u].inScope => Content(u) = upvals[u].kept
=============================================================================
