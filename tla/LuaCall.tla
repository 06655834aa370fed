------------------------------ MODULE LuaCall ------------------------------
(***************************************************************************)
(* Calls in lua.go: the value stack and the CallInfo array of a LuaState   *)
(* (lua/lstate.go), calls, returns, protected calls and errors             *)
(* (lua/ldo.go), the instructions CALL, TAILCALL, RETURN and VARARG of the *)
(* interpreter (lua/lvm.go) and the API a Go function uses (lua/lapi.go).  *)
(*                                                                         *)
(* Two stacks run side by side: ci, the Lua activations, and host, the Go  *)
(* activations that run them.  A Lua function that calls a Lua function    *)
(* stays in the same vExecute; every other call nests a Go call.           *)
(*                                                                         *)
(* Position p of the model is stack index p - 1 of the code.  L.stack is   *)
(* reallocated when it grows.  Indices survive that, and so do the values; *)
(* CallInfo.fn is a pointer, and correctstack corrects a copy of it, so    *)
(* afterwards it points into the old array: fn.stale.  What happens after  *)
(* a result or an error has been lost depends on the memory layout and is  *)
(* not modelled: outcome names the loss and the behaviour stops.           *)
(***************************************************************************)
EXTENDS Integers, Sequences, FiniteSets

CONSTANTS
  LuaFn, CFn, Val, Nil, Message,
  NumParams, VarArg,  \* Proto.numParams, and the functions with isVarArg
  MaxStack,           \* Proto.maxStackSize
  LUA_MINSTACK, EXTRA_STACK, BASIC_CI_SIZE, LUAI_MAXCCALLS,
  MAXVALUES           \* bound of the model: values of one activation

Fn == LuaFn \cup CFn
Value == Val \cup Fn \cup {Nil, Message}

ASSUME FunctionAssumption ==
  /\ \A f \in LuaFn : NumParams[f] \in Nat /\ MaxStack[f] \in Nat
  /\ \A f \in LuaFn : MaxStack[f] >= 2 /\ MaxStack[f] >= NumParams[f]
  /\ VarArg \subseteq LuaFn
  /\ LuaFn \cap CFn = {} /\ Nil \notin Fn /\ Message \notin Fn
ASSUME LimitAssumption ==
  /\ LUA_MINSTACK \in Nat \ {0} /\ EXTRA_STACK \in Nat
  /\ BASIC_CI_SIZE \in Nat \ {0} /\ LUAI_MAXCCALLS \in Nat \ {0}
  /\ LUA_MINSTACK + EXTRA_STACK >= 2  \* the first stack holds the first frame
  /\ MAXVALUES \in Nat

VARIABLES
  stack, top, base,  \* L.stack, L.top, L.base
  ci,                \* baseCi[0 .. L.ci]
  sizeCi,
  nCCalls,
  errorJmp,          \* the entry of host whose LuaLongJmp is L.errorJmp, or 0
  host,              \* Go activations: functions, vExecute loops, dPCalls
  outcome            \* "running", or how the behaviour lost its way

vars == <<stack, top, base, ci, sizeCi, nCCalls, errorJmp, host, outcome>>

MULTRET == -1
NoHandler == 0
StackLast(s) == Len(s) - EXTRA_STACK

\* The running activation, and what runs it.
CI == ci[Len(ci)]
Runner == host[Len(host)]
InLua == CI.callee \in LuaFn

\* A dPCall keeps what it restores after an error; the others keep nothing.
GoFunction(byDCall) == [kind |-> "function", byDCall |-> byDCall]
Execute == [kind |-> "execute", calls |-> 1, byDCall |-> TRUE]
-----------------------------------------------------------------------------
(* The stack *)

\* dCheckStack and dGrowStack for n slots above t.
Grown(s, t, n) ==
  IF StackLast(s) - t > n THEN s
  ELSE LET size == IF n <= Len(s) THEN 2 * Len(s) + 1 + EXTRA_STACK ELSE Len(s) + n
       IN [p \in 1 .. size |-> IF p <= Len(s) THEN s[p] ELSE Nil]

\* correctstack: what becomes of the CallInfos when s replaces the stack.
Corrected(frames, s) ==
  IF Len(s) = Len(stack) THEN frames
  ELSE [i \in 1 .. Len(frames) |-> [frames[i] EXCEPT !.stale = TRUE]]
-----------------------------------------------------------------------------
(* Entering a function: dPrecall.  f is the position of the function, t the *)
(* top above its arguments.                                                 *)

\* Room for one more CallInfo; growCI doubles the array until it is larger
\* than LUAI_MAXCCALLS and throws after that.
RoomForCI == Len(ci) < sizeCi \/ sizeCi <= LUAI_MAXCCALLS
GrowCI == sizeCi' = IF Len(ci) < sizeCi THEN sizeCi ELSE 2 * sizeCi

Slots(g, t) == IF g \in CFn THEN LUA_MINSTACK ELSE MaxStack[g]

\* adjustVarargs moves the fixed parameters above the arguments.
NewBase(g, f, t) ==
  IF g \notin VarArg THEN f + 1
  ELSE IF t - f - 1 >= NumParams[g] THEN t ELSE f + 1 + NumParams[g]

\* Broken: the fixed parameters of a vararg function are taken one too high.
ParametersShifted(s, g, f, t) ==
  LET b == NewBase(g, f, t)
      arg(i) == IF f + i < t THEN s[f + i] ELSE Nil
  IN [p \in 1 .. Len(s) |->
        IF p >= b /\ p < b + MaxStack[g]
        THEN IF p - b < NumParams[g]
             THEN arg(p - b + IF g \in VarArg THEN 2 ELSE 1) ELSE Nil
        ELSE s[p]]

\* The stack with the parameters of g in place and its other registers nil.
Parameters(s, g, f, t) ==
  LET b == NewBase(g, f, t)
      arg(i) == IF f + i < t THEN s[f + i] ELSE Nil
  IN [p \in 1 .. Len(s) |->
        IF p >= b /\ p < b + MaxStack[g]
        THEN IF p - b < NumParams[g] THEN arg(p - b + 1) ELSE Nil
        ELSE IF g \in VarArg /\ p > f /\ p <= f + NumParams[g] THEN Nil
        ELSE s[p]]

\* The new CallInfo and the stack below it; the two assertions on ci.top.
Enter(f, t, nr) ==
  LET g == stack[f]
      s == Grown(stack, t, Slots(g, t))
      b == IF g \in CFn THEN f + 1 ELSE NewBase(g, f, t)
      ciTop == IF g \in CFn THEN t + LUA_MINSTACK ELSE b + MaxStack[g]
      frame == [callee |-> g, fn |-> f, stale |-> FALSE, base |-> b, top |-> ciTop,
                nres |-> nr, live |-> IF g \in CFn THEN 0 ELSE NumParams[g]]
  IN /\ stack' = IF g \in CFn THEN s ELSE Parameters(s, g, f, t)
     /\ ci' = Append(Corrected(ci, s), frame)
     /\ base' = b
     /\ top' = IF g \in CFn THEN t ELSE ciTop
     /\ GrowCI
     /\ outcome' = IF ciTop <= StackLast(s) THEN "running" ELSE "stack too short"

\* Broken: L.base stays that of the frame that threw.
ThrowKeepsBase(s) ==
  IF errorJmp = NoHandler
  THEN outcome' = "dead" /\ UNCHANGED <<stack, top, base, ci, sizeCi, nCCalls, errorJmp, host>>
  ELSE LET h == host[errorJmp]
           frames == Corrected(SubSeq(ci, 1, h.ci), s)
           t == h.oldTop + 1
       IN /\ stack' = [s EXCEPT ![h.oldTop] = Message]
          /\ top' = t
          /\ ci' = IF h.nres = MULTRET /\ t >= frames[h.ci].top
                   THEN [frames EXCEPT ![h.ci].top = t] ELSE frames
          /\ base' = base
          /\ nCCalls' = h.nCCalls
          /\ errorJmp' = h.previous
          /\ host' = SubSeq(host, 1, errorJmp - 1)
          /\ UNCHANGED <<sizeCi, outcome>>

\* Broken: the calls it ends are still counted.
ThrowKeepsCalls(s) ==
  IF errorJmp = NoHandler
  THEN outcome' = "dead" /\ UNCHANGED <<stack, top, base, ci, sizeCi, nCCalls, errorJmp, host>>
  ELSE LET h == host[errorJmp]
           frames == Corrected(SubSeq(ci, 1, h.ci), s)
           t == h.oldTop + 1
       IN /\ stack' = [s EXCEPT ![h.oldTop] = Message]
          /\ top' = t
          /\ ci' = IF h.nres = MULTRET /\ t >= frames[h.ci].top
                   THEN [frames EXCEPT ![h.ci].top = t] ELSE frames
          /\ base' = ci[h.ci].base
          /\ nCCalls' = nCCalls
          /\ errorJmp' = h.previous
          /\ host' = SubSeq(host, 1, errorJmp - 1)
          /\ UNCHANGED <<sizeCi, outcome>>

\* Broken: forgets the handlers further out.
ThrowDropsHandlers(s) ==
  IF errorJmp = NoHandler
  THEN outcome' = "dead" /\ UNCHANGED <<stack, top, base, ci, sizeCi, nCCalls, errorJmp, host>>
  ELSE LET h == host[errorJmp]
           frames == Corrected(SubSeq(ci, 1, h.ci), s)
           t == h.oldTop + 1
       IN /\ stack' = [s EXCEPT ![h.oldTop] = Message]
          /\ top' = t
          /\ ci' = IF h.nres = MULTRET /\ t >= frames[h.ci].top
                   THEN [frames EXCEPT ![h.ci].top = t] ELSE frames
          /\ base' = ci[h.ci].base
          /\ nCCalls' = h.nCCalls
          /\ errorJmp' = NoHandler
          /\ host' = SubSeq(host, 1, errorJmp - 1)
          /\ UNCHANGED <<sizeCi, outcome>>

\* dThrow up to the end of the dPCall that catches it: the message replaces
\* the function, and everything is as it was when the dPCall began.  s is the
\* stack at the throw.  Without a handler dThrow returns and growCI's caller
\* indexes past the array, or the Go panic ends the program.
Throw(s) ==
  IF errorJmp = NoHandler
  THEN outcome' = "dead" /\ UNCHANGED <<stack, top, base, ci, sizeCi, nCCalls, errorJmp, host>>
  ELSE LET h == host[errorJmp]
           frames == Corrected(SubSeq(ci, 1, h.ci), s)
           t == h.oldTop + 1
       IN /\ stack' = [s EXCEPT ![h.oldTop] = Message]
          /\ top' = t
          /\ ci' = IF h.nres = MULTRET /\ t >= frames[h.ci].top
                   THEN [frames EXCEPT ![h.ci].top = t] ELSE frames
          /\ base' = ci[h.ci].base
          /\ nCCalls' = h.nCCalls
          /\ errorJmp' = h.previous
          /\ host' = SubSeq(host, 1, errorJmp - 1)
          /\ UNCHANGED <<sizeCi, outcome>>

\* dCall.  At LUAI_MAXCCALLS "C stack overflow" is only logged; an eighth
\* more is an error.
CallLimit == LUAI_MAXCCALLS + LUAI_MAXCCALLS \div 8
NeverTooManyCalls == nCCalls + 1 = 0  \* Broken: the error is only logged here too.
TooManyCalls == nCCalls + 1 # LUAI_MAXCCALLS /\ nCCalls + 1 >= CallLimit

DCall(f, t, nr) ==
  \/ /\ TooManyCalls /\ errorJmp # NoHandler
     /\ Throw(stack)
  \/ /\ ~TooManyCalls \/ errorJmp = NoHandler
     /\ stack[f] \in Fn
     /\ IF RoomForCI
        THEN /\ Enter(f, t, nr)
             /\ nCCalls' = nCCalls + 1
             /\ host' = Append(host, IF stack[f] \in LuaFn THEN Execute ELSE GoFunction(TRUE))
             /\ UNCHANGED errorJmp
        ELSE Throw(Grown(stack, t, Slots(stack[f], t)))
-----------------------------------------------------------------------------
(* Leaving a function: dPoscall.  first is the position of the first result *)

Caller == ci[Len(ci) - 1]
Delivered(first, t) == IF CI.nres = MULTRET THEN t - first ELSE CI.nres

\* The results go to the place of the function; a stale fn sends them, and
\* L.top, into the array the stack has left.
Results(first, t) ==
  IF CI.stale THEN stack
  ELSE [p \in 1 .. Len(stack) |->
          IF p < CI.fn \/ p >= CI.fn + Delivered(first, t) THEN stack[p]
          ELSE IF first + p - CI.fn < t THEN stack[first + p - CI.fn] ELSE Nil]

\* A stale fn does no harm only if there is nothing to deliver and the
\* caller, a Lua function, resets L.top from its CallInfo.
LostResults == CI.stale /\ ~(CI.nres = 0 /\ Caller.callee \in LuaFn)

\* Broken: nExecCalls is not decremented.
ReturnedUncounted ==
  IF Runner.kind = "execute" /\ Runner.calls > 1
  THEN host
  ELSE LET below == SubSeq(host, 1, Len(host) - 1)
       IN IF below[Len(below)].kind = "pcall" THEN SubSeq(below, 1, Len(below) - 1) ELSE below

\* The Go activations after a return: a vExecute goes on as long as it runs
\* callers of its own; a dPCall that has called is done (status 0).
Returned ==
  IF Runner.kind = "execute" /\ Runner.calls > 1
  THEN [host EXCEPT ![Len(host)].calls = @ - 1]
  ELSE LET below == SubSeq(host, 1, Len(host) - 1)
       IN IF below[Len(below)].kind = "pcall" THEN SubSeq(below, 1, Len(below) - 1) ELSE below

Poscall(first, t) ==
  LET after == CI.fn + Delivered(first, t)
      frames == SubSeq(ci, 1, Len(ci) - 1)
      n == Len(frames)
      toLua == Caller.callee \in LuaFn
      endsDCall == Runner.byDCall /\ ~(Runner.kind = "execute" /\ Runner.calls > 1)
  IN /\ stack' = Results(first, t)
     /\ base' = Caller.base
     /\ top' = IF toLua /\ CI.nres # MULTRET THEN Caller.top ELSE after
     /\ ci' = IF toLua THEN [frames EXCEPT ![n].live = after - Caller.base]
              ELSE IF CI.nres = MULTRET /\ after >= Caller.top  \* adjustResults
              THEN [frames EXCEPT ![n].top = after]
              ELSE frames
     /\ nCCalls' = IF endsDCall THEN nCCalls - 1 ELSE nCCalls
     /\ host' = Returned
     /\ errorJmp' = IF Len(host) - Len(Returned) = 2 THEN host[Len(host) - 1].previous
                    ELSE errorJmp
     /\ outcome' = IF LostResults THEN "lost results" ELSE "running"
     /\ UNCHANGED sizeCi
-----------------------------------------------------------------------------
(* Instructions of a Lua function.  Registers are used as the compiler      *)
(* allocates them: CI.live of them hold values, CALL and RETURN take the    *)
(* topmost ones, and B = 0 and B > 0 come to the same top.                  *)

LiveTop == CI.base + CI.live

\* Any instruction that puts a value into a fresh register.
LoadReg ==
  /\ InLua /\ CI.live < MaxStack[CI.callee]
  /\ \E v \in Val \cup Fn : stack' = [stack EXCEPT ![LiveTop] = v]
  /\ ci' = [ci EXCEPT ![Len(ci)].live = @ + 1]
  /\ UNCHANGED <<top, base, sizeCi, nCCalls, errorJmp, host, outcome>>

\* OP_CALL; a Lua function is entered in the same vExecute.
OpCall ==
  /\ InLua
  /\ \E f \in CI.base .. LiveTop - 1, nr \in {MULTRET, 0, 1} :
       /\ stack[f] \in Fn
       /\ IF RoomForCI
          THEN /\ Enter(f, LiveTop, nr)
               /\ host' = IF stack[f] \in LuaFn
                          THEN [host EXCEPT ![Len(host)].calls = @ + 1]
                          ELSE Append(host, GoFunction(FALSE))
               /\ UNCHANGED <<nCCalls, errorJmp>>
          ELSE Throw(Grown(stack, LiveTop, Slots(stack[f], LiveTop)))

\* OP_TAILCALL of a Lua function: the code corrects a copy of the previous
\* CallInfo and leaves L.base, so that the assertion on L.top that follows
\* compares with the base of the removed frame.  (A Go function is called as
\* by OP_CALL, with a RETURN after it.)
ReplaceFrame(f) ==
  LET g == stack[f]
      b == NewBase(g, f, LiveTop)
      s == Parameters(Grown(stack, LiveTop, MaxStack[g]), g, f, LiveTop)
      newTop == CI.fn + (b + MaxStack[g] - f)
  IN /\ stack' = [p \in 1 .. Len(s) |->
                    IF ~CI.stale /\ p >= CI.fn /\ p < newTop THEN s[f + p - CI.fn] ELSE s[p]]
     /\ top' = newTop
     /\ base' = b
     /\ ci' = Corrected(ci, s)
     /\ outcome' = IF newTop = b + MaxStack[g] THEN "running" ELSE "frame mismatch"
     /\ GrowCI
     /\ host' = [host EXCEPT ![Len(host)].calls = @ + 1]
     /\ UNCHANGED <<nCCalls, errorJmp>>

OpTailCall ==
  /\ InLua
  /\ \E f \in CI.base .. LiveTop - 1 :
       /\ stack[f] \in LuaFn
       /\ IF RoomForCI THEN ReplaceFrame(f)
          ELSE Throw(Grown(stack, LiveTop, MaxStack[stack[f]]))

\* OP_RETURN of the topmost n registers.
OpReturn ==
  /\ InLua
  /\ \E n \in 0 .. CI.live : Poscall(LiveTop - n, LiveTop)

\* OP_VARARG: the arguments between fn and base; their number is computed
\* from fn, and comes out negative when fn is stale.
OpVararg ==
  /\ InLua /\ CI.callee \in VarArg
  /\ \E wanted \in {MULTRET, 1} :
       LET n == CI.base - CI.fn - NumParams[CI.callee] - 1
           b == IF wanted = MULTRET THEN n ELSE wanted
           s == IF wanted = MULTRET /\ ~CI.stale THEN Grown(stack, top, n) ELSE stack
       IN /\ wanted = MULTRET \/ CI.live < MaxStack[CI.callee]
          /\ LiveTop + b <= Len(s)
          /\ stack' = [p \in 1 .. Len(s) |->
                         IF p < LiveTop \/ p >= LiveTop + b THEN s[p]
                         ELSE IF p - LiveTop < n /\ ~CI.stale THEN s[CI.base - n + p - LiveTop]
                         ELSE Nil]
          /\ ci' = [Corrected(ci, s) EXCEPT ![Len(ci)].live = @ + b]
          /\ top' = IF wanted = MULTRET THEN LiveTop + n ELSE top
          /\ outcome' = IF CI.stale /\ (n > 0 \/ wanted = MULTRET)
                        THEN "lost arguments" ELSE "running"
  /\ UNCHANGED <<base, sizeCi, nCCalls, errorJmp, host>>
-----------------------------------------------------------------------------
(* What a Go function does through the API.  It keeps to the contract that  *)
(* ApiCheck states and does not check: top < ci.top for a push, room for    *)
(* the results of a call.                                                   *)

InGo == Runner.kind = "function"

PushValue ==
  /\ InGo /\ top < CI.top
  /\ \E v \in Val \cup Fn : stack' = [stack EXCEPT ![top] = v]
  /\ top' = top + 1
  /\ UNCHANGED <<base, ci, sizeCi, nCCalls, errorJmp, host, outcome>>

\* lua_load: dProtectedParser leaves a function or, after a syntax error, its
\* message; IncTop makes room for what is pushed.
Load ==
  /\ InGo /\ top < CI.top
  /\ \E v \in LuaFn \cup {Message} :
       LET s == Grown(stack, top, 1)
       IN /\ stack' = [s EXCEPT ![top] = v]
          /\ ci' = Corrected(ci, s)
  /\ top' = top + 1
  /\ UNCHANGED <<base, sizeCi, nCCalls, errorJmp, host, outcome>>

ResultsFit(f, nr) == nr = MULTRET \/ CI.top - top >= nr - (top - f - 1)

ApiCall ==
  /\ InGo
  /\ \E f \in base .. top - 1, nr \in {MULTRET, 0, 1} : ResultsFit(f, nr) /\ DCall(f, top, nr)

\* PCall up to dRawRunProtected: what dPCall will restore is put aside.
PCall ==
  /\ InGo
  /\ \E f \in base .. top - 1, nr \in {MULTRET, 0, 1} :
       /\ ResultsFit(f, nr)
       /\ host' = Append(host, [kind |-> "pcall", byDCall |-> FALSE, nCCalls |-> nCCalls,
                                ci |-> Len(ci), oldTop |-> f, nres |-> nr,
                                previous |-> errorJmp])
  /\ errorJmp' = Len(host')
  /\ UNCHANGED <<stack, top, base, ci, sizeCi, nCCalls, outcome>>

\* f_call.
ProtectedCall ==
  /\ Runner.kind = "pcall"
  /\ DCall(Runner.oldTop, top, Runner.nres)

\* A Go function returns: its last n values are the results.
ReturnFromGo ==
  /\ InGo /\ Len(host) > 1
  /\ \E n \in 0 .. top - base : Poscall(top - n, top)

\* dPrecall of a value that is not a function.  tryFuncTM opens a hole for
\* the tag method, nil; the error is logged only, and the conversion of nil to a
\* closure is a Go run-time panic.  dRawRunProtected recovers it with the
\* status of its LuaLongJmp, 0, so dPCall restores nothing.
CallNoFunction ==
  /\ InLua \/ ~TooManyCalls \/ errorJmp = NoHandler
  /\ \E f \in (IF Runner.kind = "pcall" THEN {Runner.oldTop} ELSE 1 .. top - 1) :
       LET t == IF InLua THEN LiveTop ELSE top
           s == Grown([p \in 1 .. Len(stack) |->
                         IF p = f THEN Nil
                         ELSE IF p > f /\ p <= t THEN stack[p - 1] ELSE stack[p]], t, 1)
       IN /\ f >= base /\ f < t
          /\ stack[f] \notin Fn
          /\ stack' = s
          /\ ci' = Corrected(ci, s)
          /\ top' = t + 1
          /\ nCCalls' = IF InLua THEN nCCalls ELSE nCCalls + 1
  /\ IF errorJmp = NoHandler
     THEN outcome' = "dead" /\ UNCHANGED <<host, errorJmp>>
     ELSE /\ outcome' = "lost error"
          /\ host' = SubSeq(host, 1, errorJmp - 1)
          /\ errorJmp' = host[errorJmp].previous
  /\ UNCHANGED <<base, sizeCi>>
-----------------------------------------------------------------------------
\* NewState and stack_init; the host program calls the API first.
Init ==
  /\ stack = [p \in 1 .. 2 * LUA_MINSTACK + EXTRA_STACK |-> Nil]
  /\ top = 2 /\ base = 2
  /\ ci = << [callee |-> Nil, fn |-> 1, stale |-> FALSE, base |-> 2,
              top |-> 2 + LUA_MINSTACK, nres |-> 0, live |-> 0] >>
  /\ sizeCi = BASIC_CI_SIZE
  /\ nCCalls = 0
  /\ errorJmp = NoHandler
  /\ host = << GoFunction(FALSE) >>
  /\ outcome = "running"

\* The values of the running activation.
Size == IF InLua THEN CI.live ELSE top - base

Stopped == outcome # "running" /\ UNCHANGED vars

Next ==
  \/ /\ outcome = "running"
     /\ \/ LoadReg \/ OpCall \/ OpTailCall \/ OpReturn \/ OpVararg
        \/ PushValue \/ Load \/ ApiCall \/ PCall \/ ProtectedCall \/ ReturnFromGo
        \/ CallNoFunction
     /\ outcome' = "running" => Size' <= MAXVALUES
  \/ Stopped

Spec == Init /\ [][Next]_vars
-----------------------------------------------------------------------------
(* Properties *)

Running == outcome = "running"
\* The frames lie on the stack one above the other: a called function is at
\* or above its caller's base, what it may use lies inside the stack, and
\* L.base is the base of the running frame.
FramesNested ==
  Running =>
    /\ base = CI.base
    /\ top <= StackLast(stack) + EXTRA_STACK
    /\ \A i \in DOMAIN ci : ci[i].fn < ci[i].base /\ ci[i].base + ci[i].live <= Len(stack) + 1
    /\ \A i \in 1 .. Len(ci) - 1 : ci[i].base <= ci[i + 1].fn

\* L.errorJmp is the innermost dPCall under way, and the dPCalls are chained
\* by previous in the order of their nesting, whatever was thrown or caught.
HandlersNested ==
  LET handlers == { h \in DOMAIN host : host[h].kind = "pcall" }
      innermost(S) == IF S = {} THEN NoHandler ELSE CHOOSE h \in S : \A g \in S : g <= h
  IN /\ errorJmp = innermost(handlers)
     /\ \A h \in handlers : host[h].previous = innermost({ g \in handlers : g < h })

\* nCCalls counts the dCalls under way: no return, error or pcall leaks one,
\* or the limit on nested calls would come too early or never.
CallsCounted == Running => nCCalls = Cardinality({ h \in DOMAIN host : host[h].byDCall })

\* Every CallInfo belongs to one Go activation: a Go function, or a vExecute
\* for each of the Lua functions it runs.
HostRunsFrames ==
  LET lua == { i \in DOMAIN ci : ci[i].callee \in LuaFn }
      loops == { h \in DOMAIN host : host[h].kind = "execute" }
      functions == { h \in DOMAIN host : host[h].kind = "function" }
      runs[S \in SUBSET loops] ==
        IF S = {} THEN 0 ELSE LET h == CHOOSE h \in S : TRUE IN host[h].calls + runs[S \ {h}]
  IN Running => /\ Cardinality(functions) = Len(ci) - Cardinality(lua)
                /\ runs[loops] = Cardinality(lua)

\* Inside a protected call nesting ends at the limits, however functions
\* recurse through Lua, through Go or through further dPCalls.
DepthBounded ==
  /\ Len(ci) <= sizeCi
  /\ sizeCi <= 2 * LUAI_MAXCCALLS \/ sizeCi = BASIC_CI_SIZE
  /\ Running /\ errorJmp # NoHandler =>
       \/ nCCalls < CallLimit \/ nCCalls = LUAI_MAXCCALLS
       \/ nCCalls <= host[errorJmp].nCCalls

\* A dPCall that ends leaves the frame that made it as the running one, with
\* as many calls and the same handler as when it began.
PCallRestores ==
  [][\A h \in DOMAIN host :
       host[h].kind = "pcall" /\ Len(host') < h /\ outcome' = "running" =>
         /\ Len(ci') = host[h].ci
         /\ nCCalls' = host[h].nCCalls
         /\ base' = ci[host[h].ci].base
         /\ errorJmp' = host[h].previous]_vars

(* The windows of the shared stack as registers of separate activations. *)
Registers(i) ==
  LET end == IF i < Len(ci) THEN ci[i + 1].fn
             ELSE IF InLua THEN LiveTop ELSE top
  IN SubSeq(stack, ci[i].base, end - 1)

Activations ==
  [i \in 1 .. Len(ci) |->
     [callee |-> ci[i].callee, nres |-> ci[i].nres, regs |-> Registers(i),
      protected |-> \E h \in DOMAIN host : host[h].kind = "pcall" /\ host[h].ci = i - 1,
      extra |-> IF ci[i].callee \in VarArg
                THEN SubSeq(stack, ci[i].fn + 1 + NumParams[ci[i].callee], ci[i].base - 1)
                ELSE <<>>]]

Separate == INSTANCE LuaActivations WITH acts <- Activations

\* Sharing one stack is invisible: as long as no result, argument or error is
\* lost, every step (of whatever depth, across reallocations and errors) is a
\* step of activations with registers of their own.
StepsAreSeparate ==
  Separate!Init /\ [][outcome' = "running" => Separate!Next \/ UNCHANGED Activations]_vars

\* ldo.go:190, "When returns, all the results are on the stack, starting at
\* the original function position."
ResultsDelivered == outcome # "lost results"
=============================================================================
