------------------------------ MODULE LuaCode -------------------------------
(***************************************************************************)
(* The code generator (lua/lcode.go): constants, registers, jump lists and *)
(* the instructions of expressions, as operators on the state of a         *)
(* function being compiled (fs, a FuncState) and on descriptions of        *)
(* expressions (expdesc).                                                  *)
(*                                                                         *)
(* A pair r = [fs, e] is a function and the expression it is evaluating.   *)
(* Jumps that wait for their target form a list through their offsets; a   *)
(* comparison or test always comes right before its jump.                  *)
(* fs.ok says that no LuaAssert has failed: those on registers, jump lists *)
(* and blocks; the ones on opcode formats and impossible cases are left    *)
(* out, and so are the limits MAXSTACK and MAXARG_sBx.                     *)
(***************************************************************************)
EXTENDS Integers, Sequences, FiniteSets

CONSTANTS
  MAXINDEXRK,         \* the last constant that fits an operand
  LFIELDS_PER_FLUSH   \* list items that one SETLIST stores

ASSUME CodeAssumption == MAXINDEXRK \in 0 .. 255 /\ LFIELDS_PER_FLUSH \in Nat \ {0}

NO_JUMP == -1
NO_REG == 255
BITRK == 256

\* The values the compiler knows; numbers and the results of operations on
\* them are terms.
Nil == <<"nil">>
False == <<"false">>
True == <<"true">>
GlobalName == <<"name">>

Instruction(op, a, b, c) == [op |-> op, a |-> a, b |-> b, c |-> c]
TMode == {"EQ", "LT", "TEST", "TESTSET"}

LUA_MULTRET == -1

Exp(k, info) == [k |-> k, info |-> info, aux |-> 0, t |-> NO_JUMP, f |-> NO_JUMP]
HasMultRet(e) == e.k \in {"VCALL", "VVARARG"}
HasJumps(e) == e.t # e.f
IsNumeral(e) == e.k = "VKNUM" /\ ~HasJumps(e)

\* A function with nparams parameters, at its first instruction.
OpenFunc(nparams) ==
  [code |-> <<>>, pc |-> 0, lastTarget |-> -1, jpc |-> NO_JUMP, freeReg |-> nparams,
   nActVar |-> nparams, maxStackSize |-> IF nparams > 2 THEN nparams ELSE 2,
   k |-> <<>>, ok |-> TRUE]

LuaAssert(fs, holds) == [fs EXCEPT !.ok = @ /\ holds]
-----------------------------------------------------------------------------
(* Lists of jumps.  code is indexed from 0, as in the source. *)

GetJump(fs, pc) ==
  IF fs.code[pc].b = NO_JUMP THEN NO_JUMP ELSE pc + 1 + fs.code[pc].b

Jumps(fs, list) ==
  LET from[p \in -1 .. fs.pc - 1] ==
        IF p = NO_JUMP THEN {} ELSE {p} \cup from[GetJump(fs, p)]
  IN from[list]

GetJumpControl(fs, pc) ==
  IF pc >= 1 /\ fs.code[pc - 1].op \in TMode THEN pc - 1 ELSE pc

ProducesValue(fs, pc) == fs.code[GetJumpControl(fs, pc)].op = "TESTSET"

\* Broken: takes every jump for one that leaves its value in the register.
NeedNoValue(fs, list) == FALSE

\* Is there a jump in the list that does not produce the value itself?
NeedValue(fs, list) == \E p \in Jumps(fs, list) : ~ProducesValue(fs, p)

\* patchtestreg on a TESTSET: store into reg, or store nothing.
TestInto(i, reg) ==
  IF reg # NO_REG /\ reg # i.b THEN [i EXCEPT !.a = reg]
  ELSE Instruction("TEST", i.b, 0, i.c)

FixJump(i, pc, dest) == [i EXCEPT !.b = dest - (pc + 1)]

\* Jumps that produce a value go to vtarget with it in reg, others to dtarget.
PatchListAux(fs, list, vtarget, reg, dtarget) ==
  LET jumps == Jumps(fs, list)
      setters == { p \in jumps : ProducesValue(fs, p) }
  IN [LuaAssert(fs, jumps = setters \/ dtarget # NO_JUMP) EXCEPT !.code = [p \in DOMAIN @ |->
        IF p \in jumps THEN FixJump(@[p], p, IF p \in setters THEN vtarget ELSE dtarget)
        ELSE IF p + 1 \in setters THEN TestInto(@[p], reg)
        ELSE @[p]]]

RemoveValues(fs, list) ==
  LET setters == { p \in Jumps(fs, list) : ProducesValue(fs, p) }
  IN [fs EXCEPT !.code = [p \in DOMAIN @ |->
        IF p + 1 \in setters THEN TestInto(@[p], NO_REG) ELSE @[p]]]

\* kConcat(&l1, l2): the new l1, and the code with l2 behind the last of l1.
Concat(l1, l2) == IF l1 = NO_JUMP THEN l2 ELSE l1

Linked(fs, l1, l2) ==
  IF l1 = NO_JUMP \/ l2 = NO_JUMP THEN fs
  ELSE LET last == CHOOSE p \in Jumps(fs, l1) : GetJump(fs, p) = NO_JUMP
       IN [fs EXCEPT !.code[last] = FixJump(@, last, l2)]

GetLabel(fs) == [fs EXCEPT !.lastTarget = fs.pc]

PatchToHere(fs, list) ==
  [Linked(GetLabel(fs), fs.jpc, list) EXCEPT !.jpc = Concat(fs.jpc, list)]

PatchList(fs, list, target) ==
  IF target = fs.pc THEN PatchToHere(fs, list)
  ELSE PatchListAux(LuaAssert(fs, target < fs.pc), list, target, NO_REG, target)
-----------------------------------------------------------------------------
(* Instructions, registers and constants *)

\* kCode.  The jumps in jpc now have their target, the new instruction.
Code(fs, i) ==
  LET g == PatchListAux(fs, fs.jpc, fs.pc, NO_REG, fs.pc)
  IN [g EXCEPT !.jpc = NO_JUMP, !.pc = @ + 1,
               !.code = [p \in 0 .. fs.pc |-> IF p = fs.pc THEN i ELSE @[p]]]

\* kJump.  It is at the old fs.pc; the jumps that waited here go where it will.
Jump(fs) ==
  LET g == Code([fs EXCEPT !.jpc = NO_JUMP], Instruction("JMP", 0, NO_JUMP, 0))
  IN Linked(g, fs.pc, fs.jpc)

CondJump(fs, op, a, b, c) == Jump(Code(fs, Instruction(op, a, b, c)))

\* Broken: does not raise the number of registers the function declares.
ReserveOnly(fs, n) == [fs EXCEPT !.freeReg = @ + n]

CheckStack(fs, n) ==
  [fs EXCEPT !.maxStackSize = IF fs.freeReg + n > @ THEN fs.freeReg + n ELSE @]

ReserveRegs(fs, n) == [CheckStack(fs, n) EXCEPT !.freeReg = @ + n]

FreeReg(fs, reg) ==
  IF reg >= BITRK \/ reg < fs.nActVar THEN fs
  ELSE [fs EXCEPT !.freeReg = @ - 1, !.ok = @ /\ reg = fs.freeReg - 1]

FreeExp(fs, e) == IF e.k = "VNONRELOC" THEN FreeReg(fs, e.info) ELSE fs

AddK(fs, v) == IF \E j \in DOMAIN fs.k : fs.k[j] = v THEN fs ELSE [fs EXCEPT !.k = Append(@, v)]
IndexK(fs, v) == (CHOOSE j \in DOMAIN AddK(fs, v).k : AddK(fs, v).k[j] = v) - 1

\* kNil.  Nothing to do at the start of the function, for registers are nil
\* then; one LOADNIL extends another unless a jump comes in between.
CodeNil(fs, from, n) ==
  LET to == from + n - 1
      previous == fs.code[fs.pc - 1]
      reachedByJump == fs.pc <= fs.lastTarget
  IN IF ~reachedByJump /\ fs.pc = 0 /\ from >= fs.nActVar THEN fs
     ELSE IF /\ ~reachedByJump /\ fs.pc > 0
             /\ previous.op = "LOADNIL" /\ previous.a <= from /\ from <= previous.b + 1
     THEN IF to > previous.b THEN [fs EXCEPT !.code[fs.pc - 1].b = to] ELSE fs
     ELSE Code(fs, Instruction("LOADNIL", from, to, 0))
-----------------------------------------------------------------------------
(* Expressions *)

\* A call or `...' with n results; varargs go to the next registers.
SetReturns(r, n) ==
  CASE r.e.k = "VCALL"   -> [r EXCEPT !.fs.code[r.e.info].c = n + 1]
    [] r.e.k = "VVARARG" ->
         [r EXCEPT !.fs = ReserveRegs([@ EXCEPT !.code[r.e.info].b = n + 1,
                                                !.code[r.e.info].a = r.fs.freeReg], 1)]
    [] OTHER -> r

SetOneRet(r) ==
  CASE r.e.k = "VCALL"   -> [r EXCEPT !.e.k = "VNONRELOC", !.e.info = r.fs.code[r.e.info].a]
    [] r.e.k = "VVARARG" -> [r EXCEPT !.fs.code[r.e.info].b = 2, !.e.k = "VRELOCABLE"]
    [] OTHER -> r

Relocable(r, i) ==
  [fs |-> Code(r.fs, i), e |-> [r.e EXCEPT !.k = "VRELOCABLE", !.info = r.fs.pc]]

DischargeVars(r) ==
  CASE r.e.k = "VLOCAL"  -> [r EXCEPT !.e.k = "VNONRELOC"]
    [] r.e.k = "VGLOBAL" -> Relocable(r, Instruction("GETGLOBAL", 0, r.e.info, 0))
    [] r.e.k = "VINDEXED" ->
         Relocable([r EXCEPT !.fs = FreeReg(FreeReg(@, r.e.aux), r.e.info)],
                   Instruction("GETTABLE", 0, r.e.info, r.e.aux))
    [] OTHER -> SetOneRet(r)

LoadK(fs, reg, v) == Code(AddK(fs, v), Instruction("LOADK", reg, IndexK(fs, v), 0))

LoadOf(fs, e, reg) ==
  CASE e.k = "VTRUE"  -> Instruction("LOADBOOL", reg, 1, 0)
    [] e.k = "VFALSE" -> Instruction("LOADBOOL", reg, 0, 0)
    [] e.k = "VK"     -> Instruction("LOADK", reg, e.info, 0)
    [] e.k = "VKNUM"  -> Instruction("LOADK", reg, IndexK(fs, e.info), 0)
    [] e.k = "VNONRELOC" -> Instruction("MOVE", reg, e.info, 0)

\* d is discharged: load its value into reg, unless it is a jump.
LoadInto(d, reg) ==
  LET fs == d.fs
      e == d.e
      loaded ==
        CASE e.k = "VNIL" -> CodeNil(fs, reg, 1)
          [] e.k = "VRELOCABLE" -> [fs EXCEPT !.code[e.info].a = reg]
          [] e.k = "VNONRELOC" /\ reg = e.info -> fs
          [] OTHER -> Code(IF e.k = "VKNUM" THEN AddK(fs, e.info) ELSE fs, LoadOf(fs, e, reg))
  IN IF e.k = "VJMP" THEN d
     ELSE [fs |-> loaded, e |-> [e EXCEPT !.k = "VNONRELOC", !.info = reg]]

Discharge2Reg(r, reg) == LoadInto(DischargeVars(r), reg)

Discharge2AnyReg(r) ==
  IF r.e.k = "VNONRELOC" THEN r
  ELSE Discharge2Reg([r EXCEPT !.fs = ReserveRegs(@, 1)], r.fs.freeReg)

\* The loads of false and true that jumps without a value need, the code
\* before them jumping over both.
BooleanLoads(fs, e, reg) ==
  LET skip == e.k # "VJMP"
      g == GetLabel(IF skip THEN Jump(fs) ELSE fs)
      h == GetLabel(Code(g, Instruction("LOADBOOL", reg, 0, 1)))
  IN PatchToHere(Code(h, Instruction("LOADBOOL", reg, 1, 0)), IF skip THEN fs.pc ELSE NO_JUMP)

\* A comparison leaves by its jump when it is true.
ExitsByJump(d) ==
  IF d.e.k = "VJMP"
  THEN [fs |-> Linked(d.fs, d.e.t, d.e.info), e |-> [d.e EXCEPT !.t = Concat(@, d.e.info)]]
  ELSE d

\* All jumps of e go behind it, those without a value to the loads.
ExitsPatched(fs, e, reg, loads) ==
  LET load(back) == IF loads THEN fs.pc - back ELSE NO_JUMP
  IN PatchListAux(PatchListAux(fs, e.f, fs.pc, reg, load(2)), e.t, fs.pc, reg, load(1))

Valued(d, reg) ==
  LET loads == NeedValue(d.fs, d.e.t) \/ NeedValue(d.fs, d.e.f)
  IN [fs |-> IF ~HasJumps(d.e) THEN d.fs
             ELSE ExitsPatched(GetLabel(IF loads THEN BooleanLoads(d.fs, d.e, reg) ELSE d.fs),
                               d.e, reg, loads),
      e |-> Exp("VNONRELOC", reg)]

Exp2Reg(r, reg) == Valued(ExitsByJump(Discharge2Reg(r, reg)), reg)

\* d is discharged in these two.
NextReg(d) ==
  LET fs == FreeExp(d.fs, d.e)
  IN Exp2Reg([d EXCEPT !.fs = ReserveRegs(fs, 1)], fs.freeReg)

\* A temporary value with jumps stays in its register.
AnyReg(d) ==
  LET inPlace == d.e.k = "VNONRELOC" /\ d.e.info >= d.fs.nActVar
      freed == FreeExp(d.fs, d.e)
  IN IF d.e.k = "VNONRELOC" /\ ~HasJumps(d.e) THEN d
     ELSE Exp2Reg(IF inPlace THEN d ELSE [d EXCEPT !.fs = ReserveRegs(freed, 1)],
                  IF inPlace THEN d.e.info ELSE freed.freeReg)

Exp2NextReg(r) == NextReg(DischargeVars(r))
Exp2AnyReg(r) == AnyReg(DischargeVars(r))

Exp2Val(r) == IF HasJumps(r.e) THEN Exp2AnyReg(r) ELSE DischargeVars(r)

\* An operand: a constant without jumps, if its index fits, or a register.
Operand2RK(d) ==
  LET fits == Len(d.fs.k) <= MAXINDEXRK
      v == CASE d.e.k = "VKNUM" -> d.e.info
             [] d.e.k = "VNIL" -> Nil
             [] d.e.k = "VTRUE" -> True
             [] d.e.k = "VFALSE" -> False
  IN CASE ~HasJumps(d.e) /\ d.e.k \in {"VKNUM", "VNIL", "VTRUE", "VFALSE"} /\ fits ->
            [fs |-> AddK(d.fs, v), e |-> [d.e EXCEPT !.k = "VK", !.info = IndexK(d.fs, v)]]
       [] ~HasJumps(d.e) /\ d.e.k = "VK" /\ d.e.info <= MAXINDEXRK -> d
       [] OTHER -> AnyReg(d)

Exp2RK(r) == Operand2RK(DischargeVars(r))

RK(e) == IF e.k = "VK" THEN e.info + BITRK ELSE e.info
-----------------------------------------------------------------------------
(* Conditions *)

InvertJump(r) ==
  LET control == GetJumpControl(r.fs, r.e.info)
  IN [r EXCEPT !.fs = [LuaAssert(@, @.code[control].op \in {"EQ", "LT"})
                         EXCEPT !.code[control].a = (@ + 1) % 2]]

WithoutLast(fs) ==
  [fs EXCEPT !.pc = @ - 1, !.code = [p \in 0 .. fs.pc - 2 |-> @[p]]]

TestSet(d, cond) ==
  [d EXCEPT !.fs = CondJump(FreeExp(@, d.e), "TESTSET", NO_REG, d.e.info, cond)]

\* jumpOnCond: the jump is the last instruction.  A test of `not x' tests x.
JumpOnCond(r, cond) ==
  IF r.e.k = "VRELOCABLE" /\ r.fs.code[r.e.info].op = "NOT"
  THEN [r EXCEPT !.fs = CondJump(WithoutLast(@), "TEST", r.fs.code[r.e.info].b, 0, 1 - cond)]
  ELSE TestSet(Discharge2AnyReg(r), cond)

\* What kGoIfTrue and kGoIfFalse have in common: jump if the value is not the
\* wanted one, and come here if it is.
Always(wanted) == IF wanted THEN {"VK", "VKNUM", "VTRUE"} ELSE {"VNIL", "VFALSE"}
Never(wanted) == IF wanted THEN {"VFALSE"} ELSE {"VTRUE"}

JumpUnless(d, wanted) ==
  CASE d.e.k \in Always(wanted) -> d
    [] d.e.k \in Never(wanted)  -> [d EXCEPT !.fs = Jump(@)]
    [] d.e.k = "VJMP"   -> IF wanted THEN InvertJump(d) ELSE d
    [] OTHER -> JumpOnCond(d, IF wanted THEN 0 ELSE 1)

\* k is the kind the expression had before the jump.
Entering(j, k, wanted) ==
  LET jump == IF k \in Always(wanted) THEN NO_JUMP
              ELSE IF k = "VJMP" THEN j.e.info ELSE j.fs.pc - 1
      exits == IF wanted THEN j.e.f ELSE j.e.t
      enters == IF wanted THEN j.e.t ELSE j.e.f
  IN [fs |-> PatchToHere(Linked(j.fs, exits, jump), enters),
      e |-> IF wanted THEN [j.e EXCEPT !.f = Concat(exits, jump), !.t = NO_JUMP]
            ELSE [j.e EXCEPT !.t = Concat(exits, jump), !.f = NO_JUMP]]

GoIfDischarged(d, wanted) == Entering(JumpUnless(d, wanted), d.e.k, wanted)
GoIf(r, wanted) == GoIfDischarged(DischargeVars(r), wanted)

GoIfTrue(r) == GoIf(r, TRUE)

NotOf(a) == Relocable([a EXCEPT !.fs = FreeExp(@, a.e)], Instruction("NOT", 0, a.e.info, 0))

Negated(d) ==
  CASE d.e.k \in {"VNIL", "VFALSE"} -> [d EXCEPT !.e.k = "VTRUE"]
    [] d.e.k \in {"VK", "VKNUM", "VTRUE"} -> [d EXCEPT !.e.k = "VFALSE"]
    [] d.e.k = "VJMP" -> InvertJump(d)
    [] OTHER -> NotOf(Discharge2AnyReg(d))

\* The lists change places, and their jumps have no value any more.
ListsSwapped(n) ==
  [fs |-> RemoveValues(RemoveValues(n.fs, n.e.t), n.e.f),
   e  |-> [n.e EXCEPT !.t = n.e.f, !.f = n.e.t]]

CodeNot(r) == ListsSwapped(Negated(DischargeVars(r)))
-----------------------------------------------------------------------------
(* Operators of expressions *)

\* Broken: frees the operands in the order they were evaluated.
FreedInOrder(fs, e1, e2) == FreeExp(FreeExp(fs, e1), e2)

\* The operand in the higher register first.
Freed(fs, e1, e2) ==
  IF RK(e1) > RK(e2) THEN FreeExp(FreeExp(fs, e1), e2) ELSE FreeExp(FreeExp(fs, e2), e1)

ArithOf(op, r1, e2) ==
  Relocable([r1 EXCEPT !.fs = Freed(@, r1.e, e2)], Instruction(op, 0, RK(r1.e), RK(e2)))
ArithAfter(op, e1, r2) == ArithOf(op, Exp2RK([fs |-> r2.fs, e |-> e1]), r2.e)

\* codeArith of a binary operation.  Of two numerals it is done now.
CodeArith(fs, op, e1, e2) ==
  IF IsNumeral(e1) /\ IsNumeral(e2)
  THEN [fs |-> fs, e |-> [e1 EXCEPT !.info = <<op, e1.info, e2.info>>]]
  ELSE ArithAfter(op, e1, Exp2RK([fs |-> fs, e |-> e2]))

\* codeComp; a > b is coded as b < a.
Compared(op, cond, e1, r2) ==
  LET exchange == ~cond /\ op # "EQ"
      o1 == IF exchange THEN RK(r2.e) ELSE RK(e1)
      o2 == IF exchange THEN RK(e1) ELSE RK(r2.e)
      fs == FreeExp(FreeExp(r2.fs, r2.e), e1)
  IN [fs |-> CondJump(fs, op, IF cond \/ exchange THEN 1 ELSE 0, o1, o2),
      e  |-> [e1 EXCEPT !.k = "VJMP", !.info = fs.pc + 1]]
CompAfter(op, cond, r1, e2) == Compared(op, cond, r1.e, Exp2RK([fs |-> r1.fs, e |-> e2]))
CodeComp(fs, op, cond, e1, e2) == CompAfter(op, cond, Exp2RK([fs |-> fs, e |-> e1]), e2)

\* One CONCAT takes a row of registers: e1 is the one before those of e2.
ConcatAfter(e1, r) == CodeArith(r.fs, "CONCAT", e1, r.e)
Concatenation(e1, r) ==
  IF r.e.k = "VRELOCABLE" /\ r.fs.code[r.e.info].op = "CONCAT"
  THEN [fs |-> [FreeExp(LuaAssert(r.fs, e1.info = r.fs.code[r.e.info].b - 1), e1)
                  EXCEPT !.code[r.e.info].b = e1.info],
        e  |-> [e1 EXCEPT !.k = "VRELOCABLE", !.info = r.e.info]]
  ELSE ConcatAfter(e1, Exp2NextReg(r))
CodeConcat(fs, e1, e2) == Concatenation(e1, Exp2Val([fs |-> fs, e |-> e2]))

MinusOf(r) ==
  Relocable([r EXCEPT !.fs = FreeExp(@, r.e)], Instruction("UNM", 0, r.e.info, 0))

Prefix(op, r) ==
  IF op = "not" THEN CodeNot(r)
  ELSE IF IsNumeral(r.e) THEN [r EXCEPT !.e.info = <<"UNM", r.e.info>>]
  ELSE MinusOf(Exp2AnyReg(r))

\* Before the second operand is read.
Infix(op, r) ==
  CASE op \in {"and", "or"} -> GoIf(r, op = "and")
    [] op = ".."  -> Exp2NextReg(r)
    [] OTHER      -> IF op = "+" /\ IsNumeral(r.e) THEN r ELSE Exp2RK(r)

\* After it.
AndOf(e1, d) == [fs |-> Linked(LuaAssert(d.fs, e1.t = NO_JUMP), d.e.f, e1.f),
                 e  |-> [d.e EXCEPT !.f = Concat(@, e1.f)]]
OrOf(e1, d) == [fs |-> Linked(LuaAssert(d.fs, e1.f = NO_JUMP), d.e.t, e1.t),
                e  |-> [d.e EXCEPT !.t = Concat(@, e1.t)]]

PosFix(op, fs, e1, e2) ==
  CASE op = "and" -> AndOf(e1, DischargeVars([fs |-> fs, e |-> e2]))
    [] op = "or"  -> OrOf(e1, DischargeVars([fs |-> fs, e |-> e2]))
    [] op = ".."  -> CodeConcat(fs, e1, e2)
    [] op = "+"   -> CodeArith(fs, "ADD", e1, e2)
    [] OTHER -> CodeComp(fs, IF op \in {"==", "~="} THEN "EQ" ELSE "LT", op \in {"==", "<"}, e1, e2)

\* kStoreVar to a local variable, a global one or a field.
SetGlobal(a, var) == FreeExp(Code(a.fs, Instruction("SETGLOBAL", a.e.info, var.info, 0)), a.e)
SetField(o, var) == FreeExp(Code(o.fs, Instruction("SETTABLE", var.info, var.aux, RK(o.e))), o.e)
StoreVar(r, var) ==
  CASE var.k = "VLOCAL"  -> Exp2Reg([r EXCEPT !.fs = FreeExp(@, r.e)], var.info).fs
    [] var.k = "VGLOBAL" -> SetGlobal(Exp2AnyReg(r), var)
    [] OTHER -> SetField(Exp2RK(r), var)
-----------------------------------------------------------------------------
(* Tables, calls and returns *)

\* t is in a register; key is a value, not yet an operand.
IndexedBy(t, key) ==
  [fs |-> key.fs, e |-> [t EXCEPT !.k = "VINDEXED", !.aux = RK(key.e)]]
Indexed(t, key) == IndexedBy(t, Exp2RK(key))

\* kSelf: the function to the next register, the object behind it.
SelfCoded(object, fn, key) ==
  [fs |-> FreeExp(Code(key.fs, Instruction("SELF", fn, object, RK(key.e))), key.e),
   e |-> Exp("VNONRELOC", fn)]
SelfAt(object, fs, key) ==
  SelfCoded(object, fs.freeReg, Exp2RK([fs |-> ReserveRegs(fs, 2), e |-> key]))
SelfOf(r, key) == SelfAt(r.e.info, FreeExp(r.fs, r.e), key)
Self(r, key) == SelfOf(Exp2AnyReg(r), key)

SetList(fs, base, nElems, toStore) ==
  [Code(LuaAssert(fs, toStore # 0),
        Instruction("SETLIST", base, IF toStore = LUA_MULTRET THEN 0 ELSE toStore,
                    (nElems - 1) \div LFIELDS_PER_FLUSH + 1)) EXCEPT !.freeReg = base + 1]

\* The end of funcArgs: the function f and its arguments are in registers,
\* except for an unknown number of values of the last one.
CallAfter(fs, f, nParams) ==
  LET g == Code(LuaAssert(fs, f.k = "VNONRELOC"), Instruction("CALL", f.info, nParams + 1, 2))
  IN [fs |-> [g EXCEPT !.freeReg = f.info + 1], e |-> Exp("VCALL", fs.pc)]

CallWith(fs, f) == CallAfter(fs, f, fs.freeReg - (f.info + 1))

\* args is the last argument, VVOID if there is none.
CallCoded(f, args) ==
  CASE HasMultRet(args.e) -> CallAfter(SetReturns(args, LUA_MULTRET).fs, f, LUA_MULTRET)
    [] args.e.k = "VVOID" -> CallWith(args.fs, f)
    [] OTHER -> CallWith(Exp2NextReg(args).fs, f)

Ret(fs, first, nRet) == Code(fs, Instruction("RETURN", first, nRet + 1, 0))
=============================================================================
