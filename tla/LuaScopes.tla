------------------------------ MODULE LuaScopes ------------------------------
(***************************************************************************)
(* What a name means (lua/lparser.go): the compiler keeps a chain of       *)
(* FuncStates, one per function being compiled, each with its active local *)
(* variables, its blocks and its upvalues, and resolves a name by walking  *)
(* the chain outwards.                                                     *)
(*                                                                         *)
(* Registers and upvalues are counted from 1.  Instructions are left to    *)
(* LuaParser, debug information (locVars) is left out.                     *)
(***************************************************************************)
EXTENDS Integers, SequencesExt

CONSTANTS
  Name,               \* the names a program declares and uses
  Hidden,             \* "(for index)" and the like: no program can use them
  Arg,                \* "arg", a name that programs here do not use
  LUAI_MAXVARS, LUAI_MAXUPVALUES,
  MAXDECLS, MAXDEPTH, MAXBLOCKS, MAXPARAMS   \* bounds of the model

ASSUME NameAssumption == Hidden \notin Name /\ Arg \notin Name
ASSUME LimitAssumption ==
  /\ LUAI_MAXVARS \in Nat \ {0} /\ LUAI_MAXUPVALUES \in Nat \ {0}
  /\ {MAXDECLS, MAXDEPTH, MAXBLOCKS, MAXPARAMS} \subseteq Nat

VARIABLES
  fs,       \* the FuncStates, outermost first
  failed,   \* a limit was exceeded and the compilation abandoned
  visible,  \* history: the declarations in scope in the source, per scope
  captured  \* history: the live variables some inner function has used

vars == <<fs, failed, visible, captured>>

Func == fs[Len(fs)]
SetFunc(f) == [fs EXCEPT ![Len(fs)] = f]

\* The numbers of the declarations that some function still has.
Live(functions) ==
  {v.id : v \in UNION {Range(functions[l].actvar \o functions[l].pending) : l \in DOMAIN functions}}
next == Max({0} \cup Live(fs))

Lists(n) == UNION {[1 .. k -> Name] : k \in 0 .. n}
-----------------------------------------------------------------------------
(* Declarations and blocks.                                                *)

Local(n, i) == [name |-> n, id |-> i]

\* The declarations of a list of names; hidden variables have no number.
Locals(first, ns) == [k \in DOMAIN ns |-> Local(ns[k], first + k)]
Control == [k \in 1 .. 3 |-> Local(Hidden, 0)]

\* newLocalVar for a list: pending until adjustLocalVars.
Declare(f, locals) == [f EXCEPT !.pending = locals]

\* Broken: compares the index where the code compares the count.
TooManyVarsLate(f, n) == Len(f.actvar) + n - 1 > LUAI_MAXVARS

\* yCheckLimit in newLocalVar, for the last of n names.
TooManyVars(f, n) == Len(f.actvar) + n > LUAI_MAXVARS

\* adjustLocalVars.  What stays pending is overwritten by the next newLocalVar
\* or activated by another call.
Adjust(f, n) ==
  [f EXCEPT !.actvar = @ \o SubSeq(f.pending, 1, n),
            !.pending = SubSeq(@, n + 1, Len(@))]

\* removeVars
RemoveVars(f, level) == [f EXCEPT !.actvar = SubSeq(@, 1, level)]

\* enterBlock.  first: the statement's outermost block (structure of the parser).
Enter(f, first, isBreakable) ==
  [f EXCEPT !.bl = Append(@, [nActVar |-> Len(f.actvar), upval |-> FALSE,
                              isBreakable |-> isBreakable, first |-> first])]

\* The blocks that end with the statement of the innermost one.
StatementBlock(f) ==
  CHOOSE i \in DOMAIN f.bl :
    f.bl[i].first /\ \A j \in i + 1 .. Len(f.bl) : ~f.bl[j].first

\* leaveBlock for each of them.
Leave(f) ==
  LET i == StatementBlock(f)
  IN  RemoveVars([f EXCEPT !.bl = SubSeq(@, 1, i - 1)], f.bl[i].nActVar)
-----------------------------------------------------------------------------
(* Functions.                                                              *)

\* openFunc
Opened == [actvar |-> <<>>, pending |-> <<>>, bl |-> <<>>, upvalues |-> <<>>,
           isVarArg |-> {}, numParams |-> 0]

\* parList.  "arg" is declared after the parameters, in a place that does not
\* count among them.
WithParams(params, dots) ==
  LET declared == params \o (IF dots THEN <<Local(Arg, 0)>> ELSE <<>>)
      f == Adjust(Declare(Opened, declared), Len(params))
  IN  [f EXCEPT !.isVarArg = IF dots THEN {"HASARG", "NEEDSARG", "ISVARARG"} ELSE {},
                !.numParams = Len(f.actvar) - (IF dots THEN 1 ELSE 0),
                !.pending = <<>>]

Init ==
  /\ fs = <<[Opened EXCEPT !.isVarArg = {"ISVARARG"}]>>
  /\ failed = FALSE
  /\ visible = << <<>> >> /\ captured = {}
-----------------------------------------------------------------------------
(* Names.                                                                  *)

\* searchVar: the register of the variable, 0 if the function has none.
SearchVar(f, n) ==
  LET regs == {i \in DOMAIN f.actvar : f.actvar[i].name = n}
  IN  IF regs = {} THEN 0 ELSE Max(regs)

\* The level of singleVarAux that finds the name as a local, 0 if global.
Home(n) == Max({0} \cup {l \in DOMAIN fs : SearchVar(fs[l], n) > 0})

\* Broken: takes a block that begins after the variable for one around it.
MarkUpvalInside(f, reg) ==
  LET around == {i \in DOMAIN f.bl : f.bl[i].nActVar <= reg}
  IN  IF around = {} THEN f ELSE [f EXCEPT !.bl[Max(around)].upval = TRUE]

\* markUpval: the innermost block that contains the variable, if there is one.
MarkUpval(f, reg) ==
  LET around == {i \in DOMAIN f.bl : f.bl[i].nActVar < reg}
  IN  IF around = {} THEN f ELSE [f EXCEPT !.bl[Max(around)].upval = TRUE]

\* Broken: registers and upvalues are numbered separately.
SameUpvalueNumber(u, k, info) == u.info = info

\* The upvalue was made for the same place in the enclosing function.
SameUpvalue(u, k, info) == u.k = k /\ u.info = info

\* indexUpValue: the upvalue that is there already, or a new one.
IndexUpValue(f, k, info) ==
  LET same == {j \in DOMAIN f.upvalues : SameUpvalue(f.upvalues[j], k, info)}
  IN  IF same = {} THEN Len(f.upvalues) + 1 ELSE Min(same)

\* Broken: the kind stays VLOCAL when the recursion returns.
PlacesAsLocals(n) ==
  LET home == Home(n)
      info[l \in home .. Len(fs)] ==
        IF l = home THEN SearchVar(fs[l], n) ELSE IndexUpValue(fs[l], "VLOCAL", info[l - 1])
  IN  [l \in home .. Len(fs) |-> [k |-> "VLOCAL", info |-> info[l]]]

\* Where the name is at each level from its home inwards: the results of
\* singleVarAux as its recursion returns.
Places(n) ==
  LET home == Home(n)
      kind(l) == IF l = home THEN "VLOCAL" ELSE "VUPVAL"
      info[l \in home .. Len(fs)] ==
        IF l = home THEN SearchVar(fs[l], n)
        ELSE IndexUpValue(fs[l], kind(l - 1), info[l - 1])
  IN  [l \in home .. Len(fs) |-> [k |-> kind(l), info |-> info[l]]]

\* The FuncState at level l after the name was resolved; id is history.
Resolved(n, places, l, id) ==
  LET home == Home(n)
      outer == places[l - 1]
  IN  IF l = home /\ home < Len(fs) THEN MarkUpval(fs[l], places[l].info)
      ELSE IF l > home /\ places[l].info > Len(fs[l].upvalues)
      THEN [fs[l] EXCEPT !.upvalues =
              Append(@, [k |-> outer.k, info |-> outer.info, id |-> id])]
      ELSE fs[l]

\* yCheckLimit in indexUpValue, where the upvalue would be a new one.
TooManyUpvalues(f, place) == place.info > LUAI_MAXUPVALUES

\* What the source means: the last declaration in the innermost scope that has
\* one, 0 if global.
Meant(n) ==
  LET scopes == {s \in DOMAIN visible : \E i \in DOMAIN visible[s] : visible[s][i].name = n}
      scope == visible[Max(scopes)]
  IN  IF scopes = {} THEN 0
      ELSE scope[Max({i \in DOMAIN scope : scope[i].name = n})].id

\* What upvalue j of level l denotes: the variable its chain of captures ends in.
Denoted[l \in DOMAIN fs] ==
  [j \in DOMAIN fs[l].upvalues |->
     LET u == fs[l].upvalues[j]
     IN  IF l > 1 /\ u.k = "VLOCAL" /\ u.info \in DOMAIN fs[l - 1].actvar
         THEN fs[l - 1].actvar[u.info].id
         ELSE IF l > 1 /\ u.k = "VUPVAL" /\ u.info \in DOMAIN fs[l - 1].upvalues
         THEN Denoted[l - 1][u.info]
         ELSE -1]
-----------------------------------------------------------------------------
(* The parser's steps.  Names declared by a statement are pending while its *)
(* expressions, functions among them, are compiled.                         *)

Compiling == ~failed
Statement == Compiling /\ Func.pending = <<>>
Fail == failed' = TRUE /\ UNCHANGED <<fs, visible, captured>>

\* singleVar.  A global name changes nothing here.
Use(n) ==
  LET home == Home(n)
      places == Places(n)
  IN  /\ Compiling /\ home > 0
      /\ IF \E l \in home + 1 .. Len(fs) : TooManyUpvalues(fs[l], places[l])
         THEN Fail
         ELSE /\ fs' = [l \in DOMAIN fs |-> Resolved(n, places, l, Meant(n))]
              /\ captured' = IF home < Len(fs) THEN captured \cup {Meant(n)} ELSE captured
              /\ UNCHANGED <<failed, visible>>

\* localStat up to the expressions
LocalStat(ns) ==
  /\ Statement /\ next + Len(ns) <= MAXDECLS
  /\ IF TooManyVars(Func, Len(ns)) THEN Fail
     ELSE /\ fs' = SetFunc(Declare(Func, Locals(next, ns)))
          /\ UNCHANGED <<failed, visible, captured>>

Declaring == Compiling /\ Func.pending # <<>>

\* localStat after the expressions
EndLocal ==
  /\ Declaring /\ Head(Func.pending).name # Hidden
  /\ fs' = SetFunc(Adjust(Func, Len(Func.pending)))
  /\ visible' = [visible EXCEPT ![Len(visible)] = @ \o Func.pending]
  /\ UNCHANGED <<failed, captured>>

\* body up to the chunk, in a parent that may have declared the function.
\* needSelf declares one more parameter before the others.
Body(parent, scopes, first, ns, dots) ==
  /\ Len(fs) < MAXDEPTH /\ first + Len(ns) <= MAXDECLS
  /\ IF TooManyVars(Opened, Len(ns) + (IF dots THEN 1 ELSE 0)) THEN Fail
     ELSE /\ fs' = Append(SetFunc(parent), WithParams(Locals(first, ns), dots))
          /\ visible' = Append(scopes, Locals(first, ns))
          /\ UNCHANGED <<failed, captured>>

\* A function as an expression; the first parameter may be the self of body.
Function(ns, dots) == Compiling /\ Body(Func, visible, next, ns, dots)

\* localFunc: the function is in scope in its own body.
LocalFunction(n, ns, dots) ==
  /\ Statement /\ next < MAXDECLS
  /\ IF TooManyVars(Func, 1) THEN Fail
     ELSE LET named == Local(n, next + 1)
          IN  Body([Func EXCEPT !.actvar = Append(@, named)],
                   [visible EXCEPT ![Len(visible)] = Append(@, named)], next + 1, ns, dots)

\* The use of ... makes the table arg unnecessary.
UseDots ==
  /\ Compiling /\ Func.isVarArg # {}
  /\ fs' = SetFunc([Func EXCEPT !.isVarArg = @ \ {"NEEDSARG"}])
  /\ UNCHANGED <<failed, visible, captured>>

\* closeFunc and pushClosure: the enclosing function goes on.
CloseFunction ==
  /\ Statement /\ Len(fs) > 1 /\ Func.bl = <<>>
  /\ fs' = Front(fs) /\ visible' = Front(visible)
  /\ captured' = captured \cap Live(fs')
  /\ UNCHANGED failed

Blocks == UNION {{<<l, i>> : i \in DOMAIN fs[l].bl} : l \in DOMAIN fs}
CanNest == Cardinality({b \in Blocks : fs[b[1]].bl[b[2]].first}) < MAXBLOCKS

\* block, alone (do, if) or inside a loop's breakable block (while, repeat).
EnterBlock(loop) ==
  /\ Statement /\ CanNest
  /\ fs' = SetFunc(IF loop THEN Enter(Enter(Func, TRUE, TRUE), FALSE, FALSE)
                   ELSE Enter(Func, TRUE, FALSE))
  /\ visible' = Append(visible, <<>>)
  /\ UNCHANGED <<failed, captured>>

\* forStat up to the expressions: three hidden variables, then one of the program's.
ForStat(n) ==
  /\ Statement /\ CanNest /\ next < MAXDECLS
  /\ IF TooManyVars(Func, 4) THEN Fail
     ELSE /\ fs' = SetFunc(Declare(Enter(Func, TRUE, TRUE), Control \o Locals(next, <<n>>)))
          /\ UNCHANGED <<failed, visible, captured>>

\* forBody up to the statements of its block
ForBody ==
  /\ Declaring /\ Head(Func.pending).name = Hidden
  /\ fs' = SetFunc(Enter(Adjust(Enter(Adjust(Func, 3), FALSE, FALSE), 1), FALSE, FALSE))
  /\ visible' = Append(visible, <<Func.pending[4]>>)
  /\ UNCHANGED <<failed, captured>>

LeaveBlock ==
  /\ Statement /\ Func.bl # <<>>
  /\ fs' = SetFunc(Leave(Func)) /\ visible' = Front(visible)
  /\ captured' = captured \cap Live(fs')
  /\ UNCHANGED failed

Next ==
  \/ \E n \in Name : Use(n)
  \/ \E ns \in Lists(2) \ {<<>>} : LocalStat(ns)
  \/ EndLocal
  \/ \E ns \in Lists(MAXPARAMS), dots \in BOOLEAN : Function(ns, dots)
  \/ \E n \in Name, ns \in Lists(MAXPARAMS), dots \in BOOLEAN : LocalFunction(n, ns, dots)
  \/ UseDots
  \/ CloseFunction
  \/ \E loop \in BOOLEAN : EnterBlock(loop)
  \/ \E n \in Name : ForStat(n)
  \/ ForBody
  \/ LeaveBlock

Spec == Init /\ [][Next]_vars
-----------------------------------------------------------------------------
\* A name used now is resolved to the innermost declaration in scope, through
\* any nesting of blocks and functions, while other declarations are pending,
\* and although upvalues of other variables were made before: the local found,
\* or the upvalue taken for the same, is the one the source means.
NameMeansInnermost ==
  \A n \in Name :
    LET home == Home(n)
        place == Places(n)[Len(fs)]
    IN  /\ home = 0 => Meant(n) = 0
        /\ home = Len(fs) => Func.actvar[place.info].id = Meant(n)
        /\ home \in 1 .. Len(fs) - 1 /\ place.info \in DOMAIN Func.upvalues =>
             Func.upvalues[place.info].id = Meant(n)

\* An upvalue denotes the variable it was made for until its function ends: the
\* enclosing functions' variables must not move under it (LuaAssert in
\* indexUpValue compares the names only).  No two upvalues of a function denote
\* one variable.
UpvaluesKeepMeaning ==
  \A l \in DOMAIN fs : \A j \in DOMAIN fs[l].upvalues :
    /\ Denoted[l][j] = fs[l].upvalues[j].id
    /\ \A i \in 1 .. j - 1 : Denoted[l][i] # Denoted[l][j]

\* The block that ends a variable's life closes upvalues if a closure uses the
\* variable, at any depth of nesting, and only then: never a loop's breakable block,
\* which declares nothing a program can name.
BlocksCloseCaptured ==
  \A l \in DOMAIN fs : \A i \in DOMAIN fs[l].bl :
    LET f == fs[l]
        end == IF i = Len(f.bl) THEN Len(f.actvar) ELSE f.bl[i + 1].nActVar
    IN  f.bl[i].upval <=> \E v \in f.bl[i].nActVar + 1 .. end : f.actvar[v].id \in captured

\* The arrays actvar and upvalues are never indexed past their ends.
WithinLimits ==
  \A l \in DOMAIN fs :
    /\ Len(fs[l].actvar) + Len(fs[l].pending) <= LUAI_MAXVARS
    /\ Len(fs[l].upvalues) <= LUAI_MAXUPVALUES
=============================================================================
