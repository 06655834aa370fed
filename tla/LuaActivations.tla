--------------------------- MODULE LuaActivations ---------------------------
(***************************************************************************)
(* What a call promises, with no stack to share: every activation of a     *)
(* function has registers of its own.  A call hands arguments over and     *)
(* cuts off the caller's registers from the called function upwards; a     *)
(* return puts the results there; an error ends every activation above the *)
(* one that made the innermost protected call and leaves it one message.   *)
(***************************************************************************)
EXTENDS Integers, Sequences

CONSTANTS LuaFn, CFn, Val, Nil, Message,
          NumParams,  \* fixed parameters of each Lua function
          VarArg      \* the Lua functions that take more than those

MULTRET == -1

VARIABLE acts  \* the activations, outermost first

\* Reads and replaces the registers of the running activation.
Regs == acts[Len(acts)].regs
WithRegs(a, r) == [a EXCEPT ![Len(a)].regs = r]
Prefix(n) == SubSeq(Regs, 1, n)

\* The first n elements of s, with nil for what is missing.
Adjust(s, n) == [i \in 1 .. n |-> IF i <= Len(s) THEN s[i] ELSE Nil]

Activation(f, args, nr, protected) ==
  [callee |-> f, nres |-> nr, protected |-> protected,
   regs  |-> IF f \in CFn THEN args ELSE Adjust(args, NumParams[f]),
   extra |-> IF f \in VarArg THEN SubSeq(args, NumParams[f] + 1, Len(args)) ELSE <<>>]

Init == acts = << [callee |-> Nil, nres |-> 0, protected |-> FALSE,
                   regs |-> <<>>, extra |-> <<>>] >>

Push == \E v \in Val \cup LuaFn \cup CFn \cup {Message} :
          acts' = WithRegs(acts, Append(Regs, v))

\* Register n holds the function, the registers above it its arguments.
Call == \E n \in 1 .. Len(Regs), nr \in {MULTRET, 0, 1}, protected \in BOOLEAN :
          /\ Regs[n] \in LuaFn \cup CFn
          /\ acts' = Append(WithRegs(acts, Prefix(n - 1)),
                            Activation(Regs[n], SubSeq(Regs, n + 1, Len(Regs)), nr, protected))

\* The results are the last n registers.
Return ==
  /\ Len(acts) > 1
  /\ \E n \in 0 .. Len(Regs) :
       LET callers == SubSeq(acts, 1, Len(acts) - 1)
           results == SubSeq(Regs, Len(Regs) - n + 1, Len(Regs))
           nr == acts[Len(acts)].nres
       IN acts' = WithRegs(callers, callers[Len(callers)].regs
                             \o IF nr = MULTRET THEN results ELSE Adjust(results, nr))

\* ... as values: all extra arguments, or a fixed number.
Extra == \E n \in {MULTRET, 1} :
           LET e == acts[Len(acts)].extra
           IN acts' = WithRegs(acts, Regs \o IF n = MULTRET THEN e ELSE Adjust(e, n))

\* An error in an activation of the innermost protected call, or in making one.
Error ==
  \/ \E p \in 2 .. Len(acts) :
       /\ acts[p].protected
       /\ \A q \in p + 1 .. Len(acts) : ~acts[q].protected
       /\ acts' = WithRegs(SubSeq(acts, 1, p - 1), Append(acts[p - 1].regs, Message))
  \/ \E n \in 0 .. Len(Regs) - 1 : acts' = WithRegs(acts, Append(Prefix(n), Message))

Next == Push \/ Call \/ Return \/ Extra \/ Error

Spec == Init /\ [][Next]_acts
=============================================================================
