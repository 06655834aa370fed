------------------------------ MODULE LuaExec ------------------------------
(***************************************************************************)
(* The interpreter loop (vExecute, lua/lvm.go) for the instructions that   *)
(* LuaCode generates, up to the first jump backwards (the one that enters  *)
(* a for loop aside).  Operations on values build terms; which values are  *)
(* less than which, and where a numeric for ends, is arbitrary.  Calls and *)
(* the uses of tables happen in a trace, where they get results by their   *)
(* place in it.                                                            *)
(***************************************************************************)
EXTENDS LuaCode

Registers == 0 .. 19       \* more than any function of the model declares

Truthy(v) == v \notin {Nil, False}
Boolean(b) == IF b THEN True ELSE False
Less(v, w) == ~Truthy(v) /\ Truthy(w)

\* A closure that captured register r.
Function(r) == <<"function", r>>

\* The extra arguments of the function, and the results of what happens n-th.
Extra == << <<"vararg", 1>>, <<"vararg", 2>> >>
Results(n, f) ==
  IF Truthy(f) THEN << <<"result", n, 1>>, <<"result", n, 2>> >> ELSE <<>>

Nth(values, j) == IF j \in DOMAIN values THEN values[j] ELSE Nil

\* A numeric for loop: its index and whether it goes round.
ForIndex(init, step) == <<"ADD", <<"SUB", init, step>>, step>>
InRange(index, limit) == Truthy(limit)

Done(s) == [s EXCEPT !.pc = @ + 1]
Setting(s, a, v) == [Done(s) EXCEPT !.reg[a] = v]

\* A jump backwards begins another iteration: the run stops, at that label.
DoJump(s, target) ==
  IF target <= s.pc THEN [s EXCEPT !.label = target] ELSE [s EXCEPT !.pc = target]

\* Comparisons and tests jump by the instruction that follows, or skip it.
Testing(fs, s, holds) ==
  IF holds THEN DoJump(s, s.pc + 2 + fs.code[s.pc + 1].b) ELSE [s EXCEPT !.pc = @ + 2]

\* OP_CONCAT, from the right.
Concatenated(s, b, c) ==
  LET from[r \in b .. c] == IF r = c THEN s.reg[r] ELSE <<"CONCAT", s.reg[r], from[r + 1]>>
  IN from[b]

Happens(s, event) == [s EXCEPT !.trace = Append(@, event)]
Result(s) == <<"result", Len(s.trace) + 1, 1>>

\* The values from a register on: n of them, or up to the top for LUA_MULTRET.
ValuesAt(s, a, n) ==
  [j \in 1 .. (IF n = LUA_MULTRET THEN s.top - a ELSE n) |-> s.reg[a + j - 1]]

\* dPoscall and OP_VARARG: n values to the registers from a on, or all of them.
Delivered(s, a, values, n) ==
  LET last == a + (IF n = LUA_MULTRET THEN Len(values) ELSE n) - 1
  IN [s EXCEPT !.top = IF n = LUA_MULTRET THEN last + 1 ELSE @,
               !.reg = [r \in Registers |-> IF r \in a .. last THEN Nth(values, r - a + 1) ELSE @[r]]]

Called(s, a, b, n) ==
  Delivered(Happens(s, <<"call", s.reg[a], ValuesAt(s, a + 1, b)>>),
            a, Results(Len(s.trace) + 1, s.reg[a]), n)

\* OP_SETLIST: which items, not in which order.
ListSet(s, a, n, c) ==
  LET items == ValuesAt(s, a + 1, n)
  IN [Done(s) EXCEPT !.lists = @ \cup
        { <<s.reg[a], (c - 1) * LFIELDS_PER_FLUSH + j, items[j]>> : j \in DOMAIN items }]

\* The second time round a for loop the run stops.
Entered(s, back) == [s EXCEPT !.pc = back, !.entered = @ \cup {s.pc}]

NumericFor(s, a, back) ==
  LET index == <<"ADD", s.reg[a], s.reg[a + 2]>>
  IN IF s.pc \in s.entered THEN [s EXCEPT !.label = back]
     ELSE IF ~InRange(index, s.reg[a + 1]) THEN Done(s)
     ELSE [Entered(s, back) EXCEPT !.reg[a] = index, !.reg[a + 3] = index]

\* It is followed by the jump back, which is skipped at the end of the loop.
GenericFor(s, a, n, back) ==
  LET args == <<s.reg[a + 1], s.reg[a + 2]>>
      called == Delivered(Happens(s, <<"call", s.reg[a], args>>),
                          a + 3, Results(Len(s.trace) + 1, s.reg[a]), n)
  IN IF s.pc \in s.entered THEN [s EXCEPT !.label = back]
     ELSE IF called.reg[a + 3] = Nil THEN [called EXCEPT !.pc = @ + 2]
     ELSE [Entered(called, back) EXCEPT !.reg[a + 2] = called.reg[a + 3]]

Execute(fs, s) ==
  LET i == fs.code[s.pc]
      rk(x) == IF x >= BITRK THEN fs.k[x - BITRK + 1] ELSE s.reg[x]
      jumps(x) == Truthy(s.reg[x]) = (i.c # 0)
  IN CASE i.op = "MOVE"      -> Setting(s, i.a, s.reg[i.b])
       [] i.op = "LOADK"     -> Setting(s, i.a, fs.k[i.b + 1])
       [] i.op = "LOADBOOL"  -> [Setting(s, i.a, Boolean(i.b = 1)) EXCEPT !.pc = @ + i.c]
       [] i.op = "LOADNIL"   -> [Done(s) EXCEPT
                                   !.reg = [r \in Registers |-> IF r \in i.a .. i.b THEN Nil ELSE @[r]]]
       [] i.op = "GETGLOBAL" -> Setting(s, i.a, s.global)
       [] i.op = "SETGLOBAL" -> [Done(s) EXCEPT !.global = s.reg[i.a]]
       [] i.op = "NOT"       -> Setting(s, i.a, Boolean(~Truthy(s.reg[i.b])))
       [] i.op = "UNM"       -> Setting(s, i.a, <<"UNM", s.reg[i.b]>>)
       [] i.op = "ADD"       -> Setting(s, i.a, <<"ADD", rk(i.b), rk(i.c)>>)
       [] i.op = "CONCAT"    -> Setting(s, i.a, Concatenated(s, i.b, i.c))
       [] i.op = "JMP"       -> DoJump(s, s.pc + 1 + i.b)
       [] i.op = "EQ"        -> Testing(fs, s, (rk(i.b) = rk(i.c)) = (i.a # 0))
       [] i.op = "LT"        -> Testing(fs, s, Less(rk(i.b), rk(i.c)) = (i.a # 0))
       [] i.op = "TEST"      -> Testing(fs, s, jumps(i.a))
       [] i.op = "TESTSET"   -> IF jumps(i.b)
                                THEN Testing(fs, [s EXCEPT !.reg[i.a] = s.reg[i.b]], TRUE)
                                ELSE Testing(fs, s, FALSE)
       [] i.op = "CLOSE"     -> [Done(s) EXCEPT !.open = { r \in @ : r < i.a }]
       [] i.op = "CLOSURE"   -> [Setting(s, i.a, Function(fs.code[s.pc + 1].b)) EXCEPT
                                   !.pc = @ + 1, !.open = @ \cup {fs.code[s.pc + 1].b}]
       [] i.op = "GETTABLE"  -> Setting(Happens(s, <<"get", s.reg[i.b], rk(i.c)>>), i.a, Result(s))
       [] i.op = "SETTABLE"  -> Done(Happens(s, <<"set", s.reg[i.a], rk(i.b), rk(i.c)>>))
       [] i.op = "NEWTABLE"  -> Setting(Happens(s, <<"table">>), i.a, Result(s))
       [] i.op = "SELF"      -> Setting([Happens(s, <<"get", s.reg[i.b], rk(i.c)>>)
                                           EXCEPT !.reg[i.a + 1] = s.reg[i.b]], i.a, Result(s))
       [] i.op \in {"CALL", "TAILCALL"} -> Done(Called(s, i.a, i.b - 1, i.c - 1))
       [] i.op = "VARARG"    -> Done(Delivered(s, i.a, Extra, i.b - 1))
       [] i.op = "SETLIST"   -> ListSet(s, i.a, IF i.b = 0 THEN LUA_MULTRET ELSE i.b, i.c)
       [] i.op = "FORPREP"   -> DoJump([s EXCEPT !.reg[i.a] = <<"SUB", @, s.reg[i.a + 2]>>], s.pc + 1 + i.b)
       [] i.op = "FORLOOP"   -> NumericFor(s, i.a, s.pc + 1 + i.b)
       [] i.op = "TFORLOOP"  -> GenericFor(s, i.a, i.c, s.pc + 2 + fs.code[s.pc + 1].b)
       [] i.op = "RETURN"    -> [Happens(s, <<"return", ValuesAt(s, i.a, i.b - 1)>>)
                                   EXCEPT !.pc = fs.pc]

\* The whole function; no instruction but those of a for loop runs twice.
Run(fs, parameters, global) ==
  LET start == [pc |-> 0, label |-> NO_JUMP, global |-> global, open |-> {},
                trace |-> <<>>, lists |-> {}, top |-> 0, entered |-> {},
                reg |-> [r \in Registers |-> IF r < Len(parameters) THEN parameters[r + 1] ELSE Nil]]
      after[n \in 0 .. 2 * fs.pc] ==
        IF n = 0 THEN start
        ELSE LET s == after[n - 1]
             IN IF s.pc < fs.pc /\ s.label = NO_JUMP THEN Execute(fs, s) ELSE s
  IN after[2 * fs.pc]
=============================================================================
