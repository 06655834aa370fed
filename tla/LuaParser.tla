----------------------------- MODULE LuaParser -----------------------------
(***************************************************************************)
(* The parser (lua/lparser.go) compiling the expressions of one function:  *)
(* operators by precedence, calls, fields and table constructors.  The     *)
(* recursion of the Go functions is the stack of pending operators and     *)
(* brackets; tok is the token read ahead.  Names are resolved: a local     *)
(* variable is given by its register.                                      *)
(*                                                                         *)
(* The history variable ref runs the source text on every input at once,   *)
(* up to the second iteration of its first loop; the compiled code has to  *)
(* do the same.                                                            *)
(***************************************************************************)
EXTENDS LuaExec

CONSTANTS
  NPARAMS,    \* parameters of the function
  Languages,  \* the parts of the language that functions are written in,
              \* each with its bounds: names in a statement; expressions in a
              \* list; operands, operators, suffixes and statements
  Inputs      \* what the parameters and the global variable may be

ASSUME ParserAssumption ==
  /\ NPARAMS \in Nat
  /\ \A l \in Languages :
       /\ DOMAIN l = {"operands", "unary", "binary", "suffixes", "statements", "names", "exps", "tokens"}
       /\ {l.names, l.exps, l.tokens} \subseteq Nat
  /\ Inputs \subseteq [1 .. NPARAMS + 1 -> {"nil", "false", "value"}]

VARIABLES
  lang,     \* the one used
  fs,       \* the FuncState
  blocks,   \* its chain of BlockCnt, with what the statement functions keep
  stat,     \* the statement being read
  tok, cur, pending,  \* next token, operand read and operators waiting
  isLast,   \* chunk: the last statement of the block has been read
  ref, tokens

vars == <<lang, fs, blocks, stat, tok, cur, pending, isLast, ref, tokens>>
-----------------------------------------------------------------------------
(* The meaning of the source: an expression has a sequence of values on     *)
(* each input, of which most uses take the first.                           *)

Env == Inputs
Input(x, j) == IF x[j] = "value" THEN <<"value", j>> ELSE <<x[j]>>
Parameters(x) == [j \in 1 .. NPARAMS |-> Input(x, j)]

Just(means) == [x \in Env |-> <<means[x]>>]
Constantly(v) == [x \in Env |-> <<v>>]
Value(means, x) == Nth(means[x], 1)
First(means) == [x \in Env |-> <<Value(means, x)>>]

\* The values of a list of expressions: all of the last, one of the others.
Values(list) ==
  LET upTo[j \in 0 .. Len(list)] ==
        IF j = 0 THEN [x \in Env |-> <<>>]
        ELSE LET before == upTo[j - 1]
             IN [x \in Env |-> before[x] \o (IF j = Len(list) THEN list[j][x] ELSE <<Value(list[j], x)>>)]
  IN upTo[Len(list)]

Apply(op, v, w) ==
  CASE op = "and" -> IF Truthy(v) THEN w ELSE v
    [] op = "or"  -> IF Truthy(v) THEN v ELSE w
    [] op = "=="  -> Boolean(v = w)
    [] op = "~="  -> Boolean(v # w)
    [] op = "<"   -> Boolean(Less(v, w))
    [] op = ">"   -> Boolean(Less(w, v))
    [] op = "+"   -> <<"ADD", v, w>>
    [] op = ".."  -> <<"CONCAT", v, w>>
    [] op = "not" -> Boolean(~Truthy(w))
    [] op = "-"   -> <<"UNM", w>>

Pointwise(op, m1, m2) == [x \in Env |-> <<Apply(op, Value(m1, x), Value(m2, x))>>]

Satisfying(means) == { x \in ref.here : Truthy(Value(means, x)) }

\* The runs that evaluate what is read now: not those that an `and' or `or'
\* has decided.
Evaluating ==
  { x \in ref.here :
      \A j \in DOMAIN pending :
        /\ pending[j].op = "and" => Truthy(Value(pending[j].means, x))
        /\ pending[j].op = "or" => ~Truthy(Value(pending[j].means, x)) }

\* A call or the use of a table takes place, and its results.
Event(r, S, event) ==
  [r EXCEPT !.trace = [x \in Env |-> IF x \in S THEN Append(@[x], event[x]) ELSE @[x]]]
Happening(event) == Event(ref, Evaluating, event)
ResultsOf(means) == [x \in Env |-> Results(Len(ref.trace[x]) + 1, Value(means, x))]

CallEvent(f, args) == [x \in Env |-> <<"call", Value(f, x), args[x]>>]
GetEvent(t, key) == [x \in Env |-> <<"get", Value(t, x), Value(key, x)>>]
SetEvent(t, key, means) ==
  [x \in Env |-> <<"set", Value(t, x), Value(key, x), Value(means, x)>>]
TheResult == [x \in Env |-> << <<"result", Len(ref.trace[x]) + 1, 1>> >>]
-----------------------------------------------------------------------------
(* Expressions.  An operand is primary if a suffix may follow it. *)

NoExp == [e |-> Exp("VVOID", 0), means |-> Constantly(Nil), primary |-> FALSE]
Reading == cur.e.k # "VVOID"
Cur == [fs |-> fs, e |-> cur.e]
Top == pending[Len(pending)]
Popped == SubSeq(pending, 1, Len(pending) - 1)

Spend(n) == tokens + n <= lang.tokens /\ tokens' = tokens + n
MayGoOn == tokens' < lang.tokens

LeftPriority(op) ==
  CASE op = "or" -> 1 [] op = "and" -> 2 [] op \in {"==", "~=", "<", ">"} -> 3
    [] op = ".." -> 5 [] op = "+" -> 6 [] OTHER -> 0
RightPriority(op) == IF op = ".." THEN 4 ELSE LeftPriority(op)

Limit ==
  IF pending = <<>> THEN 0 ELSE IF Top.op \in lang.unary THEN 8 ELSE RightPriority(Top.op)

Brackets == {"(", "call", "[", "{", "key", "field"}
Innermost(stack) == LET open == { j \in DOMAIN stack : stack[j].op \in Brackets }
                    IN IF open = {} THEN "" ELSE stack[CHOOSE j \in open : \A h \in open : h <= j].op

\* A variable to the left of an assignment, the name of a function, or the
\* call that is a statement.
IsTarget(stack) == stat.kind \in {"targets", "funcname"} /\ stack = <<>>

AfterTarget ==
  IF stat.kind = "funcname" THEN {"body"}
  ELSE IF cur'.e.k \in {"VLOCAL", "VGLOBAL", "VINDEXED"} /\ MayGoOn
  THEN IF tokens' + 1 < lang.tokens /\ Len(stat.lhs) + 1 < lang.names THEN {"=", ","} ELSE {"="}
  ELSE IF cur'.e.k = "VCALL" /\ stat.lhs = <<>> THEN {"end"} ELSE {}

\* One more expression of a list, or its end; a numeric for has two or three.
Continuing ==
  LET numeric == stat.kind = "fornum"
      n == Len(stat.list)
  IN (IF MayGoOn /\ n + 1 < (IF numeric THEN 3 ELSE lang.exps) THEN {","} ELSE {})
     \cup (IF numeric /\ n = 0 THEN {} ELSE {"end"})

\* What may come next, with these operators waiting: one more operator or a
\* suffix, if an operand can still follow, the bracket that is open, or the end.
Closing(stack) ==
  CASE Innermost(stack) = "(" -> {")"}
    [] Innermost(stack) \in {"[", "key"} -> {"]"}
    [] Innermost(stack) \in {"{", "field"} -> IF MayGoOn THEN {",", "}"} ELSE {"}"}
    [] Innermost(stack) = "call" -> IF MayGoOn THEN {",", ")"} ELSE {")"}
    [] OTHER -> IF IsTarget(stack) THEN AfterTarget
                ELSE IF "list" \in DOMAIN stat THEN Continuing ELSE {"end"}

Advance(stack) ==
  tok' \in Closing(stack)
           \cup (IF MayGoOn /\ ~IsTarget(stack) THEN lang.binary ELSE {})
           \cup (IF MayGoOn /\ cur'.primary THEN lang.suffixes ELSE {})

\* markUpval: the innermost block outside of which the variable lives.
MarkUpval(level) ==
  LET inside == { j \in DOMAIN blocks : blocks[j].nActVar <= level }
  IN [j \in DOMAIN blocks |->
        IF j \in inside /\ \A h \in inside : h <= j THEN [blocks[j] EXCEPT !.upval = TRUE] ELSE blocks[j]]

Operation(r, means) == fs' = r.fs /\ cur' = [e |-> r.e, means |-> means, primary |-> FALSE]
Primary(r, means) == fs' = r.fs /\ cur' = [e |-> r.e, means |-> means, primary |-> TRUE]

\* The control variables of a for loop have no name in the source.
Named(j) == \A b \in DOMAIN blocks :
  blocks[b].kind \in {"fornum", "forlist"} => j \notin blocks[b].nActVar .. blocks[b].nActVar + 2

Constant(o) ==
  \/ o = "nil" /\ Operation([fs |-> fs, e |-> Exp("VNIL", 0)], Constantly(Nil))
  \/ o = "true" /\ Operation([fs |-> fs, e |-> Exp("VTRUE", 0)], Constantly(True))
  \/ o = "false" /\ Operation([fs |-> fs, e |-> Exp("VFALSE", 0)], Constantly(False))
  \/ o = "number" /\ Operation([fs |-> fs, e |-> Exp("VKNUM", <<o>>)], Constantly(<<o>>))
  \/ o = "string"
     /\ Operation([fs |-> AddK(fs, <<o>>), e |-> Exp("VK", IndexK(fs, <<o>>))], Constantly(<<o>>))

Name(o) ==
  \/ /\ o = "global"
     /\ Primary([fs |-> AddK(fs, GlobalName), e |-> Exp("VGLOBAL", IndexK(fs, GlobalName))], Just(ref.global))
  \/ /\ o = "local"
     /\ \E j \in 0 .. fs.nActVar - 1 :
          /\ Named(j)
          /\ Primary([fs |-> fs, e |-> Exp("VLOCAL", j)], [x \in Env |-> << Nth(ref.locals[x], j + 1) >>])

\* body and pushClosure of a function that uses local variable j.
PushClosure(g, j) ==
  [fs |-> Code(Code(g, Instruction("CLOSURE", 0, 0, 0)), Instruction("MOVE", 0, j, 0)),
   e |-> Exp("VRELOCABLE", g.pc)]

SimpleExp(o) ==
  \/ (Constant(o) \/ Name(o)) /\ UNCHANGED blocks
  \/ /\ o = "..."
     /\ Operation([fs |-> Code(fs, Instruction("VARARG", 0, 1, 0)), e |-> Exp("VVARARG", fs.pc)],
                  [x \in Env |-> Extra])
     /\ UNCHANGED blocks
  \/ /\ o = "function"
     /\ \E j \in 0 .. fs.nActVar - 1 :
          /\ Named(j)
          /\ Operation(PushClosure(fs, j), Constantly(Function(j)))
          /\ blocks' = MarkUpval(j)

InExpression == stat.kind \notin {"none", "closed"}
ExpectsOperand == InExpression /\ ~Reading /\ tok # "()" /\ (pending # <<>> /\ Top.op = "{" => Top.at = "item")

Operand ==
  /\ ExpectsOperand
  /\ \E o \in lang.operands :
       /\ IsTarget(pending) => o \in {"local", "global"}
       /\ stat.kind = "funcname" /\ ~IsTarget(pending) => o = "string"
       /\ SimpleExp(o)
  /\ Spend(1)
  /\ Advance(pending)
  /\ UNCHANGED <<stat, pending, isLast, ref>>

Frame(op, r, means) == [op |-> op, e |-> r.e, means |-> means]

\* A unary operator or a parenthesis; its operand must fit the bound.
Open ==
  /\ ExpectsOperand /\ stat.kind # "funcname"
  /\ tokens + 1 < lang.tokens /\ Spend(1)
  /\ \E op \in (IF IsTarget(pending) THEN {} ELSE lang.unary) \cup {"("} :
       pending' = Append(pending, Frame(op, NoExp, NoExp.means))
  /\ UNCHANGED <<fs, blocks, stat, tok, cur, isLast, ref>>

\* What is read next belongs to the operator or bracket.
Waiting(r, frame) == fs' = r.fs /\ pending' = Append(pending, frame) /\ cur' = NoExp
WaitingFor(op, r) == Waiting(r, Frame(op, r, cur.means))

\* The next operator binds tighter than the one that waits.
Shift ==
  /\ Reading /\ tok \in lang.binary /\ LeftPriority(tok) > Limit
  /\ WaitingFor(tok, Infix(tok, Cur))
  /\ UNCHANGED <<blocks, stat, tok, isLast, ref, tokens>>

\* It does not: the operator that waits has its operands.
Reduce ==
  /\ Reading /\ tok \notin lang.suffixes /\ LeftPriority(tok) <= Limit
  /\ pending # <<>> /\ Top.op \notin Brackets
  /\ Operation(IF Top.op \in lang.unary THEN Prefix(Top.op, Cur) ELSE PosFix(Top.op, fs, Top.e, cur.e),
               Pointwise(Top.op, Top.means, cur.means))
  /\ pending' = Popped
  /\ UNCHANGED <<blocks, stat, tok, isLast, ref, tokens>>

\* All operators inside the innermost bracket are done.
Inside(op) == Reading /\ pending # <<>> /\ Top.op = op

CloseParenthesis ==
  /\ tok = ")" /\ Inside("(")
  /\ Primary(DischargeVars(Cur), First(cur.means))
  /\ pending' = Popped
  /\ UNCHANGED <<blocks, stat, isLast, ref, tokens>>
  /\ Advance(Popped)
-----------------------------------------------------------------------------
(* Fields and calls *)

\* primaryExp at a dot or a bracket.
Index ==
  /\ Reading /\ tok = "["
  /\ WaitingFor("[", Exp2AnyReg(Cur))
  /\ UNCHANGED <<blocks, stat, tok, isLast, ref, tokens>>

Field(r) ==
  /\ fs' = r.fs
  /\ cur' = [e |-> r.e, means |-> TheResult, primary |-> TRUE, table |-> Top.means, key |-> cur.means]

\* The field is read unless it is assigned to.
EndIndex ==
  /\ tok = "]" /\ Inside("[")
  /\ Field(Indexed(Top.e, Exp2Val(Cur)))
  /\ pending' = Popped
  /\ UNCHANGED <<blocks, stat, isLast, tokens>>
  /\ Advance(Popped)
  /\ ref' = IF IsTarget(Popped) /\ tok' \in {"=", ",", "body"} THEN ref
            ELSE Happening(GetEvent(Top.means, cur.means))

\* funcArgs: the function is in its register, and the object behind it if it
\* is a method.  "()" stands for an empty list of arguments.
Calling(r, means, list) ==
  Waiting(r, [op |-> "call", e |-> r.e, means |-> means, list |-> list])

OpenCall ==
  /\ Reading /\ tok \in {"(", "()"}
  /\ Calling(Exp2NextReg(Cur), cur.means, <<>>)
  /\ UNCHANGED <<blocks, stat, tok, isLast, ref, tokens>>

Method == <<"method">>

OpenMethod ==
  /\ Reading /\ tok = ":"
  /\ Calling(Self([Cur EXCEPT !.fs = AddK(@, Method)], Exp("VK", IndexK(fs, Method))),
             TheResult, <<First(cur.means)>>)
  /\ ref' = Happening(GetEvent(cur.means, Constantly(Method)))
  /\ tok' \in {"(", "()"}
  /\ UNCHANGED <<blocks, stat, isLast, tokens>>

\* expList1, between two arguments.
NextArg ==
  /\ tok = "," /\ Inside("call")
  /\ fs' = Exp2NextReg(Cur).fs
  /\ pending' = Append(Popped, [Top EXCEPT !.list = Append(@, cur.means)])
  /\ cur' = NoExp
  /\ UNCHANGED <<blocks, stat, tok, isLast, ref, tokens>>

CloseCall ==
  /\ \/ tok = ")" /\ Inside("call") /\ UNCHANGED tokens
     \/ tok = "()" /\ ~Reading /\ Spend(1)
  /\ Primary(CallCoded(Top.e, Cur), ResultsOf(Top.means))
  /\ ref' = Happening(CallEvent(Top.means, Values(Top.list \o IF Reading THEN <<cur.means>> ELSE <<>>)))
  /\ pending' = Popped
  /\ Advance(Popped)
  /\ UNCHANGED <<blocks, stat, isLast>>
-----------------------------------------------------------------------------
(* Table constructors.  The frame is the ConsControl; at says whether an item  *)
(* is being read, a field has to follow, or the table may end.                 *)

Constructing(r) ==
  Waiting(r, [op |-> "{", e |-> r.e, means |-> TheResult, tostore |-> 0, list |-> <<>>, at |-> "field"])

OpenTable ==
  /\ ExpectsOperand /\ "{" \in lang.operands /\ ~IsTarget(pending)
  /\ Spend(1)
  /\ Constructing(Exp2NextReg([fs |-> Code(fs, Instruction("NEWTABLE", 0, 0, 0)), e |-> Exp("VRELOCABLE", fs.pc)]))
  /\ ref' = Happening([x \in Env |-> <<"table">>])
  /\ UNCHANGED <<blocks, stat, tok, isLast>>

\* Where a field begins.
AtField == InExpression /\ ~Reading /\ pending # <<>> /\ Top.op = "{" /\ Top.at # "item"

\* listField
ListField ==
  /\ AtField /\ tok # "}" /\ tokens < lang.tokens
  /\ pending' = Append(Popped, [Top EXCEPT !.at = "item"])
  /\ UNCHANGED <<fs, blocks, stat, tok, cur, isLast, ref, tokens>>

\* recField: [key] = value
RecField ==
  /\ AtField /\ tok # "}" /\ tokens + 1 < lang.tokens
  /\ pending' = Popped \o << [Top EXCEPT !.at = "field"],
                             [op |-> "key", e |-> NoExp.e, means |-> NoExp.means, reg |-> fs.freeReg] >>
  /\ UNCHANGED <<fs, blocks, stat, tok, cur, isLast, ref, tokens>>

KeyRead(r) ==
  /\ fs' = r.fs
  /\ pending' = Append(Popped, [Top EXCEPT !.op = "field", !.e = r.e, !.means = cur.means])

EndKey ==
  /\ tok = "]" /\ Inside("key") /\ tokens < lang.tokens
  /\ KeyRead(Exp2RK(Exp2Val(Cur)))
  /\ cur' = NoExp
  /\ UNCHANGED <<blocks, stat, tok, isLast, ref, tokens>>

EndField ==
  /\ tok \in {",", "}"} /\ Inside("field")
  /\ LET t == pending[Len(pending) - 1]
         set(r) == Code(r.fs, Instruction("SETTABLE", t.e.info, RK(Top.e), RK(r.e)))
     IN /\ fs' = [set(Exp2RK(Cur)) EXCEPT !.freeReg = Top.reg]
        /\ ref' = Happening(SetEvent(t.means, Top.means, cur.means))
  /\ pending' = Popped
  /\ cur' = NoExp
  /\ UNCHANGED <<blocks, stat, tok, isLast, tokens>>

\* closeListField: an item has been read and a field follows.
NextField ==
  /\ tok = "," /\ Inside("{") /\ tokens < lang.tokens
  /\ LET full == Top.tostore + 1 = LFIELDS_PER_FLUSH
         items == Append(Top.list, First(cur.means))
         stored(g) == IF full THEN SetList(g, Top.e.info, Len(items), Top.tostore + 1) ELSE g
     IN /\ fs' = stored(Exp2NextReg(Cur).fs)
        /\ pending' = Append(Popped, [Top EXCEPT !.tostore = IF full THEN 0 ELSE @ + 1,
                                                 !.list = items, !.at = "next"])
  /\ cur' = NoExp
  /\ UNCHANGED <<blocks, stat, tok, isLast, ref, tokens>>

\* The items of the table are those of the list, from 1 on.
Listed(list) ==
  LET values == Values(list)
  IN [ref EXCEPT !.lists = [x \in Env |-> IF x \in Evaluating
        THEN @[x] \cup { <<Value(Top.means, x), j, values[x][j]>> : j \in DOMAIN values[x] } ELSE @[x]]]

TableDone(g, list) ==
  /\ Operation([fs |-> g, e |-> Top.e], Top.means)
  /\ ref' = Listed(list)
  /\ pending' = Popped
  /\ UNCHANGED <<blocks, stat, isLast, tokens>>
  /\ Advance(Popped)

\* lastListField with no item read since the last one was closed.
CloseTable ==
  /\ AtField /\ Top.at = "field"
  /\ TableDone(IF Top.tostore = 0 THEN fs ELSE SetList(fs, Top.e.info, Len(Top.list), Top.tostore), Top.list)

\* lastListField with an item; a separator may end the table.
CloseList ==
  /\ tok \in {",", "}"} /\ Inside("{")
  /\ LET items == Append(Top.list, cur.means)
     IN TableDone(IF HasMultRet(cur.e)
                  THEN SetList(SetReturns(Cur, LUA_MULTRET).fs, Top.e.info, Len(items), LUA_MULTRET)
                  ELSE SetList(Exp2NextReg(Cur).fs, Top.e.info, Len(items), Top.tostore + 1),
                  items)

Expression == \/ Operand \/ Open \/ Shift \/ Reduce \/ CloseParenthesis
              \/ Index \/ EndIndex \/ OpenCall \/ OpenMethod \/ NextArg \/ CloseCall
              \/ OpenTable \/ ListField \/ RecField \/ EndKey \/ EndField \/ NextField
              \/ CloseTable \/ CloseList
=============================================================================
