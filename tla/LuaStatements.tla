--------------------------- MODULE LuaStatements ----------------------------
(***************************************************************************)
(* The statements of the function that LuaParser compiles: declarations,   *)
(* assignments, calls, returns, blocks and loops (lua/lparser.go), up to   *)
(* its last instruction.                                                   *)
(***************************************************************************)
EXTENDS LuaParser

(* What statements do to the runs of the source in ref. *)

Here(r, f, values) ==
  [x \in Env |-> IF x \in r.here THEN values[x] ELSE f[x]]

\* An assignment takes place where control is.
Assigned(r, target, means) ==
  CASE target.e.k = "VLOCAL" ->
         [r EXCEPT !.locals = Here(r, @, [x \in Env |-> [@[x] EXCEPT ![target.e.info + 1] = Value(means, x)]])]
    [] target.e.k = "VGLOBAL" -> [r EXCEPT !.global = Here(r, @, [x \in Env |-> Value(means, x)])]
    [] target.e.k = "VINDEXED" -> Event(r, r.here, SetEvent(target.table, target.key, means))

\* values: those of the n variables, the rest is nil.
Declared(r, n, values) ==
  [r EXCEPT !.locals = [x \in Env |-> @[x] \o [j \in 1 .. n |-> Nth(values[x], j)]]]

InScope(r, n) == [r EXCEPT !.locals = [x \in Env |-> SubSeq(@[x], 1, n)]]

\* Control comes from the runs in S only; n variables are in scope.
Continue(r, S, n) == InScope([r EXCEPT !.here = S], n)

\* Some runs go back to label, with n variables.
Repeated(r, S, label, n) ==
  [r EXCEPT !.left = [x \in DOMAIN @ \cup S |->
     IF x \in DOMAIN @ THEN @[x]
     ELSE [label |-> label, locals |-> SubSeq(r.locals[x], 1, n), global |-> r.global[x]]]]

\* The function returns, with all its variables.
Returned(r, values) ==
  [Repeated(Event(r, r.here, [x \in Env |-> <<"return", values[x]>>]), r.here, NO_JUMP, fs.nActVar)
     EXCEPT !.here = {}]
-----------------------------------------------------------------------------
(* Statements *)

NoStat == [kind |-> "none"]

\* The first token of a statement; n more operands are needed.
Begin(kind, n) ==
  /\ stat = NoStat /\ ~isLast /\ kind \in lang.statements
  /\ tokens + n < lang.tokens /\ Spend(1)

Expecting(s) == stat' = s /\ UNCHANGED <<tok, cur, pending, isLast>>

\* The end of an expression, with all its operators.
Complete(kind) == Reading /\ tok = "end" /\ pending = <<>> /\ stat.kind = kind

\* chunk, after each statement.
FinishAs(g, last) ==
  /\ fs' = [LuaAssert(g, g.maxStackSize >= g.freeReg /\ g.freeReg >= g.nActVar)
              EXCEPT !.freeReg = g.nActVar]
  /\ stat' = NoStat /\ cur' = NoExp /\ isLast' = last
  /\ UNCHANGED <<tok, pending>>

Finish(g) == FinishAs(g, FALSE)

Declaring(g, n) == [g EXCEPT !.nActVar = @ + n]

\* expList1, between two expressions (and exp1).
Comma ==
  /\ Reading /\ tok = "," /\ pending = <<>> /\ "list" \in DOMAIN stat
  /\ fs' = Exp2NextReg(Cur).fs
  /\ stat' = [stat EXCEPT !.list = Append(@, cur.means)]
  /\ cur' = NoExp
  /\ UNCHANGED <<blocks, tok, pending, isLast, ref, tokens>>

\* The list that ends here.
All == Append(stat.list, cur.means)

WithNils(g, n) == IF n > 0 THEN CodeNil(ReserveRegs(g, n), g.freeReg, n) ELSE g

\* The last expression has n results; the first is in a register already.
WithResults(r, n) == IF n > 1 THEN ReserveRegs(SetReturns(r, n).fs, n - 1) ELSE SetReturns(r, n).fs

\* adjustAssign: r is the last of nExps expressions, for nVars variables.  A
\* call or `...' gives as many values as are missing.
AdjustAssign(nVars, nExps, r) ==
  LET extra == nVars - nExps
  IN CASE HasMultRet(r.e) -> WithResults(r, IF extra < 0 THEN 0 ELSE extra + 1)
       [] r.e.k = "VVOID" -> WithNils(r.fs, extra)
       [] OTHER -> WithNils(Exp2NextReg(r).fs, extra)

\* local x, y
LocalNil ==
  \E n \in 1 .. lang.names :
    /\ Begin("local", 0)
    /\ Finish(Declaring(AdjustAssign(n, 0, [fs |-> fs, e |-> NoExp.e]), n))
    /\ ref' = Declared(ref, n, [x \in Env |-> <<>>])
    /\ UNCHANGED blocks

\* local x, y = e1, e2
Local ==
  /\ Begin("local", 1)
  /\ \E n \in 1 .. lang.names : Expecting([kind |-> "local", n |-> n, list |-> <<>>])
  /\ UNCHANGED <<fs, blocks, ref>>

EndLocal ==
  /\ Complete("local")
  /\ Finish(Declaring(AdjustAssign(stat.n, Len(All), Cur), stat.n))
  /\ ref' = Declared(ref, stat.n, Values(All))
  /\ UNCHANGED <<blocks, tokens>>
\* local function f: the function may use f.
LocalFunc ==
  /\ Begin("localfunc", 0)
  /\ \E j \in 0 .. fs.nActVar :
       /\ Named(j)
       /\ Finish(StoreVar(PushClosure(Declaring(ReserveRegs(fs, 1), 1), j), Exp("VLOCAL", fs.freeReg)))
       /\ blocks' = MarkUpval(j)
       /\ ref' = Declared(ref, 1, Constantly(Function(j)))

\* function f.name: the name of a function is a target with constant keys.
FuncStat ==
  /\ Begin("function", 1)
  /\ Expecting([kind |-> "funcname"])
  /\ UNCHANGED <<fs, blocks, ref>>

EndFuncStat ==
  /\ Reading /\ tok = "body" /\ pending = <<>> /\ stat.kind = "funcname"
  /\ \E j \in 0 .. fs.nActVar - 1 :
       /\ Named(j)
       /\ Finish(StoreVar(PushClosure(fs, j), cur.e))
       /\ blocks' = MarkUpval(j)
       /\ ref' = Assigned(ref, cur, Constantly(Function(j)))
  /\ UNCHANGED tokens
-----------------------------------------------------------------------------
(* Assignments and calls *)

ExprStat ==
  /\ Begin("assign", 1)
  /\ Expecting([kind |-> "targets", lhs |-> <<>>])
  /\ UNCHANGED <<fs, blocks, ref>>

CallStat ==
  /\ Complete("targets") /\ cur.e.k = "VCALL"
  /\ Finish([fs EXCEPT !.code[cur.e.info].c = 1])
  /\ UNCHANGED <<blocks, ref, tokens>>

\* Does an earlier target use this local variable as its table or key?
ConflictsIn(target, v) == target.e.k = "VINDEXED" /\ v.info \in {target.e.info, target.e.aux}

\* checkConflict: the earlier targets use a copy of the variable then.
CheckConflict(lhs, v) ==
  LET copy(reg) == IF reg = v.info THEN fs.freeReg ELSE reg
      conflicts == { j \in DOMAIN lhs : ConflictsIn(lhs[j], v) }
  IN IF v.k # "VLOCAL" \/ conflicts = {} THEN [fs |-> fs, lhs |-> lhs]
     ELSE [fs |-> ReserveRegs(Code(fs, Instruction("MOVE", fs.freeReg, v.info, 0)), 1),
           lhs |-> [j \in DOMAIN lhs |-> IF j \notin conflicts THEN lhs[j]
                      ELSE [lhs[j] EXCEPT !.e.info = copy(@), !.e.aux = copy(@)]]]

\* One more target, or the values.
Target ==
  /\ Reading /\ tok \in {",", "="} /\ IsTarget(pending) /\ ~isLast
  /\ LET checked == CheckConflict(stat.lhs, cur.e)
         lhs == Append(checked.lhs, cur)
     IN /\ fs' = checked.fs
        /\ stat' = IF tok = "," THEN [stat EXCEPT !.lhs = lhs]
                   ELSE [kind |-> "values", lhs |-> lhs, list |-> <<>>]
  /\ cur' = NoExp
  /\ UNCHANGED <<blocks, tok, pending, isLast, ref, tokens>>

\* The targets up to the n-th get the values in the last registers, from the
\* right.
DefaultAssignments(g, lhs, n) ==
  LET before[j \in 0 .. n] ==
        IF j = n THEN g
        ELSE LET h == before[j + 1]
             IN StoreVar([fs |-> h, e |-> Exp("VNONRELOC", h.freeReg - 1)], lhs[j + 1].e)
  IN before[0]

Assignment(lhs, nExps) ==
  LET nVars == Len(lhs)
      extra == nExps - nVars
      g == AdjustAssign(nVars, nExps, Cur)
  IN DefaultAssignments(IF extra = 0 THEN StoreVar(SetOneRet(Cur), lhs[nVars].e)
                        ELSE [g EXCEPT !.freeReg = IF extra > 0 THEN @ - extra ELSE @],
                        lhs, IF extra = 0 THEN nVars - 1 ELSE nVars)

AllAssigned(lhs, values) ==
  LET before[j \in 0 .. Len(lhs)] ==
        IF j = Len(lhs) THEN ref
        ELSE LET r == before[j + 1]
             IN Assigned(r, lhs[j + 1], [x \in Env |-> << Nth(values[x], j + 1) >>])
  IN before[0]

EndAssign ==
  /\ Complete("values")
  /\ Finish(Assignment(stat.lhs, Len(All)))
  /\ ref' = AllAssigned(stat.lhs, Values(All))
  /\ UNCHANGED <<blocks, tokens>>
-----------------------------------------------------------------------------
(* Returns *)

\* retStat: r is the last of the values.
TailCall(r) ==
  [LuaAssert(r.fs, r.fs.code[r.e.info].a = r.fs.nActVar) EXCEPT !.code[r.e.info].op = "TAILCALL"]

ReturnOpen(r, nRet) ==
  LET s == SetReturns(r, LUA_MULTRET)
  IN Ret(IF r.e.k = "VCALL" /\ nRet = 1 THEN TailCall(s) ELSE s.fs, s.fs.nActVar, LUA_MULTRET)

ReturnOne(r) == Ret(r.fs, r.e.info, 1)

ReturnValues(r, nRet) ==
  Ret(LuaAssert(r.fs, nRet = r.fs.freeReg - r.fs.nActVar), r.fs.nActVar, nRet)

RetNone ==
  /\ Begin("return", 0)
  /\ FinishAs(Ret(fs, 0, 0), TRUE)
  /\ ref' = Returned(ref, [x \in Env |-> <<>>])
  /\ UNCHANGED blocks

RetStat ==
  /\ Begin("return", 1)
  /\ Expecting([kind |-> "return", list |-> <<>>])
  /\ UNCHANGED <<fs, blocks, ref>>

EndReturn ==
  /\ Complete("return")
  /\ FinishAs(CASE HasMultRet(cur.e) -> ReturnOpen(Cur, Len(All))
                [] ~HasMultRet(cur.e) /\ Len(All) = 1 -> ReturnOne(Exp2AnyReg(Cur))
                [] OTHER -> ReturnValues(Exp2NextReg(Cur), Len(All)), TRUE)
  /\ ref' = Returned(ref, Values(All))
  /\ UNCHANGED <<blocks, tokens>>
-----------------------------------------------------------------------------
(* Blocks.  waiting: the runs that are at the end of the statement already;  *)
(* rest: those that the condition has sent past the block.                   *)

BlockCnt(kind) ==
  [kind |-> kind, isBreakable |-> kind \in {"while", "repeat", "fornum", "forlist"}, nActVar |-> fs.nActVar,
   upval |-> FALSE, breakList |-> NO_JUMP, exit |-> NO_JUMP, escape |-> NO_JUMP,
   label |-> 0, nVars |-> 0, waiting |-> {}, rest |-> {}]

Bl == blocks[Len(blocks)]
Outside(n) == SubSeq(blocks, 1, Len(blocks) - n)
AtEnd(kind) == stat = NoStat /\ blocks # <<>> /\ Bl.kind = kind

EnterBlock(g) == LuaAssert(g, g.freeReg = g.nActVar)

LeaveBlock(g, bl) ==
  LET closed == IF bl.upval THEN Code(g, Instruction("CLOSE", bl.nActVar, 0, 0)) ELSE g
      free == [closed EXCEPT !.nActVar = bl.nActVar, !.freeReg = bl.nActVar]
  IN PatchToHere(LuaAssert(free, ~(bl.isBreakable /\ bl.upval)), bl.breakList)

Do ==
  /\ Begin("do", 0)
  /\ fs' = EnterBlock(fs)
  /\ blocks' = Append(blocks, BlockCnt("do"))
  /\ UNCHANGED <<stat, tok, cur, pending, isLast, ref>>

EndDo ==
  /\ AtEnd("do")
  /\ Finish(LeaveBlock(fs, Bl))
  /\ blocks' = Outside(1)
  /\ ref' = Continue(ref, ref.here, Bl.nActVar)
  /\ UNCHANGED tokens

\* cond: the exits of the condition are the f list.
Cond == GoIfTrue([Cur EXCEPT !.e.k = IF @ = "VNIL" THEN "VFALSE" ELSE @])

If ==
  /\ Begin("if", 1)
  /\ Expecting([kind |-> "if", escape |-> NO_JUMP, waiting |-> {}])
  /\ UNCHANGED <<fs, blocks, ref>>

Then ==
  /\ Complete("if")
  /\ fs' = EnterBlock(Cond.fs)
  /\ blocks' = Append(blocks, [BlockCnt("then") EXCEPT
                 !.exit = Cond.e.f, !.escape = stat.escape,
                 !.waiting = stat.waiting, !.rest = ref.here \ Satisfying(cur.means)])
  /\ ref' = [ref EXCEPT !.here = Satisfying(cur.means)]
  /\ stat' = NoStat /\ cur' = NoExp
  /\ UNCHANGED <<tok, pending, isLast, tokens>>

\* The end of a `then' block, with more to come: jump to the end.
Escaped ==
  LET g == LeaveBlock(fs, Bl)
  IN PatchToHere(Linked(Jump(g), Bl.escape, g.pc), Bl.exit)
EscapeList == Concat(Bl.escape, LeaveBlock(fs, Bl).pc)

ElseIf ==
  /\ AtEnd("then") /\ tokens + 1 < lang.tokens /\ Spend(1)
  /\ fs' = Escaped
  /\ stat' = [kind |-> "if", escape |-> EscapeList, waiting |-> Bl.waiting \cup ref.here]
  /\ blocks' = Outside(1)
  /\ ref' = Continue(ref, Bl.rest, Bl.nActVar)
  /\ isLast' = FALSE
  /\ UNCHANGED <<tok, cur, pending>>

Else ==
  /\ AtEnd("then") /\ Spend(1)
  /\ fs' = EnterBlock(Escaped)
  /\ blocks' = Append(Outside(1), [BlockCnt("else") EXCEPT !.nActVar = Bl.nActVar,
                 !.escape = EscapeList, !.waiting = Bl.waiting \cup ref.here])
  /\ ref' = Continue(ref, Bl.rest, Bl.nActVar)
  /\ isLast' = FALSE
  /\ UNCHANGED <<stat, tok, cur, pending>>

EndIf ==
  /\ AtEnd("then") \/ AtEnd("else")
  /\ LET g == LeaveBlock(fs, Bl)
     IN Finish(PatchToHere(Linked(g, Bl.escape, Bl.exit), Concat(Bl.escape, Bl.exit)))
  /\ blocks' = Outside(1)
  /\ ref' = Continue(ref, ref.here \cup Bl.waiting \cup Bl.rest, Bl.nActVar)
  /\ UNCHANGED tokens
-----------------------------------------------------------------------------
(* Loops *)

While ==
  /\ Begin("while", 1)
  /\ Expecting([kind |-> "while", label |-> fs.pc])
  /\ fs' = GetLabel(fs)
  /\ UNCHANGED <<blocks, ref>>

WhileDo ==
  /\ Complete("while")
  /\ fs' = EnterBlock(EnterBlock(Cond.fs))
  /\ blocks' = blocks \o << [BlockCnt("while") EXCEPT !.exit = Cond.e.f, !.label = stat.label,
                                               !.rest = ref.here \ Satisfying(cur.means)],
                            BlockCnt("body") >>
  /\ ref' = [ref EXCEPT !.here = Satisfying(cur.means)]
  /\ stat' = NoStat /\ cur' = NoExp
  /\ UNCHANGED <<tok, pending, isLast, tokens>>

Loop == blocks[Len(blocks) - 1]

JumpBack(g) == PatchList(Jump(g), g.pc, Loop.label)

EndWhile ==
  /\ AtEnd("body")
  /\ Finish(PatchToHere(LeaveBlock(JumpBack(LeaveBlock(fs, Bl)), Loop), Loop.exit))
  /\ blocks' = Outside(2)
  /\ ref' = Continue(Repeated(ref, ref.here, Loop.label, Loop.nActVar),
                     Loop.rest \cup Loop.waiting, Loop.nActVar)
  /\ UNCHANGED tokens

Repeat ==
  /\ Begin("repeat", 1)
  /\ fs' = EnterBlock(GetLabel(fs))
  /\ blocks' = blocks \o << [BlockCnt("repeat") EXCEPT !.label = fs.pc], BlockCnt("scope") >>
  /\ UNCHANGED <<stat, tok, cur, pending, isLast, ref>>

\* The condition is read inside the scope of the body.
Until ==
  /\ AtEnd("scope") /\ tokens < lang.tokens
  /\ stat' = [kind |-> "until"]
  /\ isLast' = FALSE
  /\ UNCHANGED <<fs, blocks, tok, cur, pending, ref, tokens>>

\* The innermost loop, and breakStat: a jump to its end, closing the captured
\* variables of the blocks that are left.
Broken == CHOOSE j \in DOMAIN blocks :
  blocks[j].isBreakable /\ \A h \in j + 1 .. Len(blocks) : ~blocks[h].isBreakable

\* Broken: does not close.
BreakJumps(g) == Linked(Jump(g), blocks[Broken].breakList, g.pc)

BreakStat(g) ==
  LET captured == \E h \in Broken + 1 .. Len(blocks) : blocks[h].upval
      closed == IF captured THEN Code(g, Instruction("CLOSE", blocks[Broken].nActVar, 0, 0)) ELSE g
  IN Linked(Jump(closed), blocks[Broken].breakList, closed.pc)

BreakList(g) == Concat(blocks[Broken].breakList, BreakStat(g).pc - 1)

\* c is the condition.  With captured variables: leave by a break, or close
\* them and jump back.
UntilPlain(c) == LeaveBlock(PatchList(LeaveBlock(c.fs, Bl), c.e.f, Loop.label), Loop)
UntilClosing(c) ==
  LeaveBlock(JumpBack(LeaveBlock(PatchToHere(BreakStat(c.fs), c.e.f), Bl)),
             [Loop EXCEPT !.breakList = BreakList(c.fs)])

EndRepeat ==
  /\ Complete("until")
  /\ Finish(IF Bl.upval THEN UntilClosing(Cond) ELSE UntilPlain(Cond))
  /\ blocks' = Outside(2)
  /\ LET S == Satisfying(cur.means)
     IN ref' = Continue(Repeated(ref, ref.here \ S, Loop.label, Loop.nActVar),
                        S \cup Loop.waiting, Loop.nActVar)
  /\ UNCHANGED tokens

Break ==
  /\ Begin("break", 0)
  /\ \E j \in DOMAIN blocks : blocks[j].isBreakable
  /\ blocks' = [blocks EXCEPT ![Broken].breakList = BreakList(fs),
                              ![Broken].waiting = @ \cup ref.here]
  /\ ref' = [ref EXCEPT !.here = {}]
  /\ FinishAs(BreakStat(fs), TRUE)

-----------------------------------------------------------------------------
(* For loops.  Three control variables without a name come first. *)

\* forStat: the block of the loop, then its expressions.
For ==
  /\ \E kind \in {"fornum", "forlist"} :
       /\ Begin("for", IF kind = "fornum" THEN 2 ELSE 1)
       /\ \E n \in 1 .. (IF kind = "fornum" THEN 1 ELSE lang.names) :
            Expecting([kind |-> kind, n |-> n, list |-> <<>>])
       /\ blocks' = Append(blocks, BlockCnt(kind))
  /\ fs' = EnterBlock(fs)
  /\ UNCHANGED ref

One == <<"one">>

\* The values of the expressions to the control variables.
WithStep(g) == ReserveRegs(LoadK(g, g.freeReg, One), 1)
NumericControl ==
  IF Len(All) = 3 THEN Exp2NextReg(Cur).fs ELSE WithStep(Exp2NextReg(Cur).fs)

GenericControl == CheckStack(AdjustAssign(3, Len(All), Cur), 3)

\* forBody up to the body; g has the jump that begins the loop.  The runs in S
\* go round it once, the others not at all.
ForBody(g, n, r, S, control, values) ==
  /\ fs' = EnterBlock(ReserveRegs(Declaring(EnterBlock(g), n), n))
  /\ blocks' = [blocks EXCEPT ![Len(blocks)].exit = g.pc - 1, ![Len(blocks)].rest = r.here \ S]
               \o << [BlockCnt("declared") EXCEPT !.nActVar = g.nActVar, !.nVars = n],
                     [BlockCnt("forbody") EXCEPT !.nActVar = g.nActVar + n] >>
  /\ ref' = [Declared(Declared(r, 3, control), n, values) EXCEPT !.here = S]
  /\ stat' = NoStat /\ cur' = NoExp
  /\ UNCHANGED <<tok, pending, isLast, tokens>>

ForNum ==
  /\ Complete("fornum")
  /\ LET value(x, j) == IF j = 3 /\ Len(All) = 2 THEN One ELSE Value(All[j], x)
         index == [x \in Env |-> ForIndex(value(x, 1), value(x, 3))]
     IN ForBody(Code(Declaring(NumericControl, 3), Instruction("FORPREP", Bl.nActVar, NO_JUMP, 0)), 1,
                ref, { x \in ref.here : InRange(index[x], value(x, 2)) },
                [x \in Env |-> <<index[x], value(x, 2), value(x, 3)>>], Just(index))

\* The loop begins with its end, where the function is called.
ForList ==
  /\ Complete("forlist")
  /\ LET values == Values(All)
         f == [x \in Env |-> Nth(values[x], 1)]
         results == [x \in Env |-> Results(Len(ref.trace[x]) + 1, f[x])]
         called == [x \in Env |-> <<"call", f[x], << Nth(values[x], 2), Nth(values[x], 3) >> >>]
     IN ForBody(Jump(Declaring(GenericControl, 3)), stat.n,
                Event(ref, ref.here, called), { x \in ref.here : Nth(results[x], 1) # Nil },
                [x \in Env |-> <<f[x], Nth(values[x], 2), Nth(results[x], 1)>>], results)

\* The test at the end of the loop, and the jump back, or the other way round.
ForEnd(g, for, n) ==
  LET test == IF for.kind = "fornum" THEN Code(g, Instruction("FORLOOP", for.nActVar, NO_JUMP, 0))
              ELSE Jump(Code(g, Instruction("TFORLOOP", for.nActVar, 0, n)))
  IN PatchList(test, test.pc - 1, for.exit + 1)

\* The blocks of the body and of the declared variables are left, then the loop.
EndFor ==
  /\ AtEnd("forbody")
  /\ LET declared == Loop
         for == blocks[Len(blocks) - 2]
         body == LeaveBlock(LeaveBlock(fs, Bl), declared)
     IN /\ Finish(LeaveBlock(ForEnd(PatchToHere(body, for.exit), for, declared.nVars), for))
        /\ ref' = Continue(Repeated(ref, ref.here, for.exit + 1, for.nActVar + 3),
                           for.rest \cup for.waiting, for.nActVar)
  /\ blocks' = Outside(3)
  /\ UNCHANGED tokens

\* closeFunc: the final return.
CloseFunc ==
  /\ stat = NoStat /\ blocks = <<>>
  /\ fs' = Ret([fs EXCEPT !.nActVar = 0], 0, 0)
  /\ stat' = [kind |-> "closed"]
  /\ ref' = Event(ref, ref.here, [x \in Env |-> <<"return", <<>> >>])
  /\ UNCHANGED <<blocks, tok, cur, pending, isLast, tokens>>
-----------------------------------------------------------------------------
Init ==
  /\ lang \in Languages
  /\ fs = OpenFunc(NPARAMS)
  /\ blocks = <<>> /\ stat = NoStat /\ tok = "end" /\ cur = NoExp /\ pending = <<>>
  /\ isLast = FALSE /\ tokens = 0
  /\ ref = [here |-> Env, left |-> <<>>, locals |-> [x \in Env |-> Parameters(x)],
            global |-> [x \in Env |-> Input(x, NPARAMS + 1)],
            trace |-> [x \in Env |-> <<>>], lists |-> [x \in Env |-> {}]]

Simple == \/ LocalNil \/ Local \/ Comma \/ EndLocal \/ LocalFunc \/ FuncStat \/ EndFuncStat
          \/ ExprStat \/ CallStat \/ Target \/ EndAssign
          \/ RetNone \/ RetStat \/ EndReturn
Compound == \/ Do \/ EndDo \/ If \/ Then \/ ElseIf \/ Else \/ EndIf
            \/ While \/ WhileDo \/ EndWhile \/ Repeat \/ Until \/ EndRepeat \/ Break
            \/ For \/ ForNum \/ ForList \/ EndFor

Next == (Expression \/ Simple \/ Compound \/ CloseFunc) /\ UNCHANGED lang

Spec == Init /\ [][Next]_vars
-----------------------------------------------------------------------------
(* Properties *)

Closed == stat.kind = "closed"

\* The assertions of the compiler (LuaAssert panics, which ends the chunk):
\* registers are freed in the reverse order of their reservation, all but
\* those of local variables at the end of a statement, the lists of an
\* operand are closed before it is combined, a block does not both control
\* scope and break.
AssertionsHold == fs.ok

\* On every input the compiled function does what the source says: the same
\* calls with the same arguments, the same uses of tables and items of their
\* constructors, in the same order; the same values returned; the same
\* variables in the end, or the same loop repeated in the same state.
CodeMeansSource ==
  Closed =>
    \A x \in Env :
      LET s == Run(fs, Parameters(x), Input(x, NPARAMS + 1))
          loops == x \in DOMAIN ref.left
          locals == IF loops THEN ref.left[x].locals ELSE ref.locals[x]
      IN /\ s.label = IF loops THEN ref.left[x].label ELSE NO_JUMP
         /\ s.trace = ref.trace[x] /\ s.lists = ref.lists[x]
         /\ s.global = IF loops THEN ref.left[x].global ELSE ref.global[x]
         /\ \A j \in DOMAIN locals : s.reg[j - 1] = locals[j]

\* The comments of expdesc: t is the list of the jumps that `exit when true',
\* f of those that `exit when false'.  It matters for the jumps that leave with
\* the value they tested (TESTSET, whose c says of which kind it is).
ListsExit ==
  LET leaves(p, c) == ProducesValue(fs, p) => fs.code[p - 1].c = c
  IN Reading => /\ \A p \in Jumps(fs, cur.e.t) : leaves(p, 1)
                /\ \A p \in Jumps(fs, cur.e.f) : leaves(p, 0)

\* Whichever way control leaves a block, the captured variables of the block
\* are closed: when a loop begins again and at the end of the function none
\* is open that is out of scope.
CapturedAreClosed ==
  Closed =>
    \A x \in Env :
      Run(fs, Parameters(x), Input(x, NPARAMS + 1)).open
        \subseteq 0 .. Len(IF x \in DOMAIN ref.left THEN ref.left[x].locals ELSE ref.locals[x]) - 1

\* dPrecall reserves maxStackSize slots for the registers of a function, and
\* the code uses no other, not even the code that no input reaches.
UsedRegisters(i) ==
  LET from(a, n) == a .. a + n - 1
      rk == { r \in {i.b, i.c} : r < BITRK }
  IN CASE i.op \in {"JMP", "CLOSE"} -> {}
       [] i.op = "LOADNIL" -> i.a .. i.b
       [] i.op = "CONCAT" -> {i.a} \cup i.b .. i.c
       [] i.op \in {"MOVE", "NOT", "UNM", "TESTSET"} -> {i.a, i.b}
       [] i.op \in {"ADD", "GETTABLE", "SETTABLE"} -> {i.a} \cup rk
       [] i.op = "SELF" -> {i.a, i.a + 1} \cup rk
       [] i.op \in {"EQ", "LT"} -> rk
       [] i.op \in {"CALL", "TAILCALL"} -> {i.a} \cup from(i.a, i.b) \cup from(i.a, i.c - 1)
       [] i.op \in {"VARARG", "RETURN"} -> from(i.a, i.b - 1)
       [] i.op = "SETLIST" -> from(i.a, i.b + 1)
       [] i.op \in {"FORPREP", "FORLOOP"} -> from(i.a, 4)
       [] i.op = "TFORLOOP" -> from(i.a, 6) \cup from(i.a + 3, i.c)
       [] OTHER -> {i.a}

RegistersReserved ==
  Closed => \A p \in DOMAIN fs.code : UsedRegisters(fs.code[p]) \subseteq 0 .. fs.maxStackSize - 1
=============================================================================
