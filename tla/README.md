# lua.go in TLA+

A verification development for lua.go, a port of the Lua 5.1.4 virtual machine
to Go (`src/lua`). It models the algorithms of the VM whose correctness depends
on long sequences of operations, model-checks them with TLC on small instances
and proves their main invariants with TLAPS.

## The system

The program is single-threaded: `Lock` and `Unlock` do nothing and there are no
goroutines and no coroutines of Lua. What makes it hard is not concurrency but

* data structures with pointers into each other (tables, the string table, the
  list of open upvalues, pointers into a value stack that is reallocated);
* control that leaves many activations at once (errors are Go panics, recovered
  by the innermost protected call) and the two stacks it has to keep in step;
* limits (array sizes, registers, nested calls) that are checked a few lines
  before or after the place they protect;
* checks that this port reduced to log lines: `DbgRunError`, `gTypeError` and
  `gErrorMsg` log and return, `ApiCheck` does nothing, and only four places
  really throw (ldo.go:199, ldo.go:370, llex.go:472, lundump.go:33).

| Component | Source | State | Operations | Talks to |
|---|---|---|---|---|
| Tables | ltable.go | array part, node vector with chains, `lastFree` | Get/Set (three variants of each), rehash, resize, `GetN`, `hNext` | interpreter, API, string and constant tables |
| Calls | ldo.go, lstate.go, part of lvm.go and lapi.go | value stack, CallInfo array, `base`, `top`, `nCCalls`, `errorJmp` | `dPrecall`, `dPoscall`, `dCall`, `dPCall`, `dThrow`, growth of both stacks, CALL, TAILCALL, RETURN, VARARG | everything that runs a function |
| String table | tstring.go | hash buckets, `NrUse`, `Size` | intern, resize | lexer, API, tables (strings compare by address) |
| Upvalues | lfunc.go, closure.go, upvalues.go | list of open upvalues, their value cells | find or create, close, CLOSURE, CLOSE | calls (stack reallocation), interpreter |
| Interpreter | lvm.go | pc, registers | 38 instructions | all of the above |
| Tag methods | ltm.go, part of lvm.go | `Table.flags`, metatables | `vGetTable`, `vSetTable`, comparisons, arithmetic | tables, calls |
| API | lapi.go, lua.go | stack of the running Go function | push, insert, remove, get, set, next, concat | tables, calls |
| Auxiliary library | lauxlib.go, lib/ | loaded-libraries table, file reader | `LLoadFile`, `LRegister`, `LFindTable` | API, streams |
| Lexer | llex.go | current character, token and one token ahead | `next`, `lookahead`, token readers | streams, string table |
| Parser | lparser.go | FuncState, blocks, active variables | statements and expressions | lexer, code generator |
| Code generator | lcode.go, instruction.go, lopcodes.go | code vector, `freereg`, jump lists, constants | discharge, patch, fold | parser, tables (constants) |
| Binary chunks | lundump.go, common_header.go | read position | load function, constants, debug | streams |
| Streams | lzio.go, file.go | buffer, count of unread bytes, push-back | fill, look ahead, read, reopen | lexer, binary chunks |
| Values and numbers | lobject.go, value.go | - | accessors, conversions | all |
| Garbage collector | lgc.go | - | stubs | - |
| Main program | cmd/min/main.go | - | open, load, call, close | API |

The properties each component owes its users: a table is a map whatever its
layout, `#` gives a boundary and a traversal returns each key once; a call
leaves the caller's registers alone and delivers arguments and results, and an
error restores the state of the call that catches it; equal strings have one
address; closures that share a variable share its cell; the parser's registers
and jump lists are balanced at the end of a block.

## Modules and how they correspond to the code

**LuaMap** is the abstract specification of a table: a map from keys to values
with one assignment per step.

**LuaTable** is ltable.go. The array part is a function on `1 .. sizeArray`,
the node vector a function on positions from 1, `lastFree` a position. A key
is a model value or a positive integer, its hash a constant (`Hash`), so that
collisions are chosen in the configuration; a value is present or not, as
far as layout is concerned. `SetKey` is `Set`, with `newKey` inside it
(`PutInMain`, `MoveColliding`, `ChainAfter`, one operator for each of its three
endings). A key that finds no free node starts a rehash: `Rehash` computes the
new sizes and stores the old contents as `pending`, `Reinsert` and `ReinsertKey`
put them back through the same `Store` the code uses. The intermediate states
are states of the Go program between two calls of `Set` inside `resize`.
**LuaTableLen** is `GetN` and `unboundSearch` as pure functions on tables;
**LuaTableNext** is `hNext` driven by a loop that may assign to existing fields.

**LuaActivations** is the abstract specification of calls: activations with
registers of their own.

**LuaCall** is the concrete one: one value stack, one CallInfo array, the stack
of Go activations (`host`) that run them, and the chain of handlers. One action
per instruction or API function that moves a frame. Stack positions are indices
plus one. `CallInfo.fn`, a pointer, is an index and a flag `stale`, which says
that it points into an array the stack has left. When the code loses a result
or an error, what follows depends on memory layout: `outcome` says what was lost
and the behaviour stops there. Registers are used as the compiler allocates
them: a stack of live values above `base`; all instructions that only write a
register are `LoadReg`.

**LuaInterning** says what a string table promises: the strings made so far
each have one address, which never changes. **LuaStrings** is tstring.go:
buckets with chains of TStrings (as sets), `sResize` when there are more strings
than buckets, and the opening of a state, in which the names of tag methods and
the keywords are interned and the keywords marked.

**LuaUpvalues** is lfunc.go with the instructions that use it: the list of open
upvalues, which point into the stack, the reallocation of the stack, blocks,
returns and errors that close them. Every array the stack has been in is kept
(`memory`), as Go keeps it while something points to it.

**LuaChars** has the classes of characters and the tokens, **LuaStream** the way
of a text from the disk to the parser: FILE with its push-back, `LLoadFile` and
its reader, and the buffered ZIO, as operators on one record. The history
`taken` counts the bytes handed out. **LuaLexer** is llex.go on top of it: every
turn of a reader's loop is an action, chosen by the current character and the
`mode` (which reader is running); `XLookAhead` reads a token ahead, as
`lastListField` does for the parser, whenever the last token is a name. A chunk
that begins with the signature is read in blocks instead (`LoadBlock`).
**LuaTokens** is the abstract counterpart: the tokens of a whole text, by
maximal prefixes, and the line of each by counting line ends before it; it knows
no buffers, readers or modes.

**LuaCode** is lcode.go: pure operators on a FuncState (code vector, free
register, jump lists through the code, constants) and an expdesc. Operators
named `...Of` and `...After` are the rest of the one they are named for, with
its intermediate result as a parameter. **LuaExec** runs the generated code on
an input: registers, open variables, a table of fields, calls that are
remembered with their arguments and give results of their own. **LuaParser**
drives LuaCode as the expression half of lparser.go does, one action per token
or construct (operators, fields, methods, calls, varargs, constructors,
closures); the recursion of the Go functions is a stack of operands.
**LuaStatements** extends it by the statements of one function: assignment to
several targets with `checkConflict`, `local`, `if`, `while`, `repeat`, both
`for` loops, function statements, `break`, `return`; the open statements are a
stack of blocks. The history variable `ref` is the meaning of the source, run
alongside on every input without registers or jumps.

**LuaScopes** is the other half of lparser.go: which variable a name denotes.
`fs` is the chain of FuncStates; a name read is resolved at every level from
the one that declares it inwards (`Places`), as `singleVarAux` does when its
recursion returns. The history variable `visible` keeps the source's scopes
without the parser's bookkeeping. Declarations stay `pending` between
`newLocalVar` and `adjustLocalVars`, so that functions in a declaration's own
expressions are compiled in between.

**LuaMetatables** says what metatables mean: an access is one step, its result
follows from the fields of the metatables at that moment. Its one memory is
`overlooked`, the tables whose `__newindex` stores to others ignore because it
was stored in a table that was its own metatable (below). **LuaMeta** is the code: `flags` is the cache of absent methods (`FastTM`, `Remembered`), `access` a
run of the loop in `vGetTable` or `vSetTable`, one iteration per step, `outcome`
what it came to (a value, the call of a method with its arguments, an error).

The modules named `..._proofs` hold the theorems: **LuaTable_proofs**,
**LuaStrings_proofs**, **LuaUpvalues_proofs**, **LuaCall_proofs**,
**LuaMeta_proofs**, **LuaScopes_proofs**, **LuaLexer_proofs** and
**LuaTokens_proofs**. The `MC` modules give the constants their values for TLC.

Operators commented "Broken:" are the defects used to test that each property
can fail; no specification uses them.

## Runs

| Run | Question | Bounds | Result |
|---|---|---|---|
| `table_nodes` | do the nodes survive every order of operations, is `#` a boundary, and is it all a map | six keys with colliding hashes, integer keys among them, so that both parts grow and rehash twice | holds |
| `table_next` | does a traversal return every lasting key once and end | four keys, one traversal at a time, weak fairness of its step | holds |
| `call_frames` | do both stacks stay consistent and does sharing stay invisible | a Lua function without and a vararg one with a parameter, one Go function, two values per activation, `LUAI_MAXCCALLS` = 1, three CallInfos at the start | holds |
| `call_results_lost` | do results reach the caller after a reallocation | the same functions, a stack of one value at the start | violated: `correctstack` corrects a copy |
| `strings_interned` | do equal strings have one address, through resizes | strings with colliding hashes, one keyword | holds |
| `upvalues_open` | are the open upvalues the captured variables in scope | three frames, two variables each, one reallocation or more | holds |
| `upvalues_closed` | does a closed upvalue keep its value | same | violated: `fClose` copies nothing |
| `lexer_tokens` | do the tokens and their lines depend on the text alone | all texts of eleven small alphabets and lengths up to five, from memory or in reads of one to three bytes, buffers of two | holds |
| `code_meaning` | does the code of a function do what its source says | seven small languages of four to six tokens (below), one parameter and one global, every constant past the operand limit (`MAXINDEXRK` = 0), two items per flush | holds |
| `code_constants` | are jumps on the list of their side | three operators | violated: a constant's jump absorbs waiting ones |
| `scopes_names` | does a name denote the innermost declaration, through functions and blocks | two names, three live variables, three functions, one statement with blocks (up to three), limits of 5 variables and 2 upvalues | holds |
| `meta_access` | do the flags stay true and does the cache of absent methods stay invisible | two tables and a type, at most two of the three with a metatable, their own and each other's included; a method of `==`, `__index` and `__newindex` that are a function, a table or a plain value, at most two fields at a time, chains of three; accesses store nil or a function under one key, `RawSet` stores anything | holds, with one exception that both properties name |

The table bounds make every case of `newKey` and of `computeSizes` happen: a
main position free, taken by a key of its own, taken by a stranger; a rehash
that grows, one that moves keys into the array, one that only sweeps. The call
bounds make the stack reallocate at every depth, the CallInfo array grow to its
limit and the limit of calls through Go be met, inside and outside of protected
calls. With two registers a function passes one argument, which becomes the parameter:
OP_VARARG has no extra argument to deliver in the run, and that it delivers the
right ones is in the claim of the theorem only.
`VIEW LiveState` in the call runs identifies states that differ only in dead
stack slots: every read in the model is of a live register, an argument or a
`SubSeq` between them.

A language of `code_meaning` is a set of operands, operators, suffixes and
statements with a bound on tokens and on the expressions of a list; all programs
within the bound are compiled. The seven are: every operator under assignment
and `if`, four tokens; blocks, loops, `break` and closures, six; assignments of
calls, `...` and fields to two targets, six; calls, methods and returned lists,
five; constructors with flushes, six; `for` loops, five; function statements and
fields of globals, five. Each lets an operand, a list or a block be met by the two
others that can disturb it: three operands with their jumps on both sides, a
captured variable with a loop around or inside its block and a `break`, a flush
followed by a call with open results. A parameter is nil, false or a value on
each input, the global is not false. Code is compared with the source up to the
second iteration of a loop, so loops need no bound. A list has at most three
expressions: with four, a generic `for` fails an assertion (below).

In `lexer_tokens` texts of five characters hold a long bracket of level one, an
escape of three digits with its end, a pair of line ends and the tokens next to
them; reads and buffers shorter than the tokens put every boundary inside one.
In `scopes_names` the depth of three makes an upvalue of an upvalue, and three
variables of two names make shadowing the rule. In `meta_access` a table can be
the metatable, the handler and the target at once; "__eq" stands for the keys
without a method too, and a chain of three loops when it is longer than its
values. Symmetry is in names and tables, which nothing orders.

`CHECK_DEADLOCK FALSE` stands where the program stops: the compiler after its
last token (LuaParser) or after an exceeded limit (LuaScopes), the lexer after
the end of the text.

`table_next` states liveness. The fairness is that the loop body ends and `next`
is called again: `WF` of the traversal's step, which a single-threaded program
that does not loop in its body provides. That lexing ends is stated as a bound on
its turns (`LexingEnds`), which needs no fairness.

### Outcomes the models reach without a run of their own

* A tail call works on a copy of the caller's CallInfo (lvm.go:590), so the
  assertion at lvm.go:604 fails: `outcome` "frame mismatch" in LuaCall.
* `dRawRunProtected` recovers every Go panic and returns status 0 (ldo.go:56):
  "lost error". After a reallocation OP_VARARG counts from a stale pointer:
  "lost arguments". A vararg frame may not fit the room reserved: "stack too
  short".
* `nums` in rehash is one element short (ltable.go:381): `crashed` in LuaTable.
* `unboundSearch` past `MAX_INT` searches with an inverted test
  (ltable.go:586), and `findIndex` only logs an invalid key (ltable.go:182).
* `parList` subtracts the hidden parameter `arg`, which it never counted
  (lparser.go:719, 734): `numParams` of `function f(a, ...)` is 0, and -1
  without a name. `WithParams` in LuaScopes.
* A generic `for` with four expressions or more: `adjustAssign` leaves the
  surplus in registers, and enterBlock's assertion (lparser.go:974) fails. With
  four expressions in the sixth language `AssertionsHold` is violated.
* After a lookahead `lastLine` (llex.go:96) is the line of the token ahead, so
  the check for an ambiguous call (lparser.go:907) is missed. LuaLexer keeps
  the field; the check is a syntax error, which LuaParser leaves out.
* `LLoadFile` (LuaStream): a first line `#...` without a line end gives its last
  character to the compiler, an empty file gives it a NUL, and a binary file's
  signature is read twice (the loop at lauxlib.go:103 never runs), so that the
  header is refused.
* Tables of two metatables of which only the second has `__eq`: `get_compTM`
  tests the metatable instead of the method (lvm.go:831) and `oRawEqualObj` follows
  nil. `CompTM` in LuaMeta, with the outcome "panic".
* A table that is its own metatable, as `baseOpen` makes one (lib/lbaselib.go:112):
  `vSetTable` resets the flags (lvm.go:115, ltable.go:537), asks the table for
  `__newindex` (lvm.go:121) and stores the value (lvm.go:122). If that is
  `__newindex` itself, the flag says that there is none, against ltable.go:52, and
  stores to other tables with this metatable ignore the method until something
  else is stored in it. `FlagsMeanAbsent`, the plain claim, is therefore no
  invariant: TLC finds it violated in four states. What holds is `FlagsStayTrue`,
  which allows this step and no other, and `ImplementsMetatables`, whose
  specification lets stores, and nothing else, overlook such a method.
* A value without `__index` or `__newindex` is not refused: the error is logged
  and the loop goes on with nil until it is too long (`GetFromOther`).

## Proofs

The theorems hold for every value of the constants that satisfies the named
assumptions of the modules: any set of keys, strings, tables or functions, any
hash function, any size and limit. Every proof has the same form: an inductive
invariant `IInv` (checked by TLC before it was proved), a lemma for each action,
and the properties as consequences. What the invariants add to the properties,
and why it takes that:

**LuaTable_proofs**: type correctness, that the cursor passes no free node, that
free nodes are unlinked, that no two chains meet and none runs in a circle, that
a node out of its main position heads no chain, that every stored key is found,
and that no key has two slots. `IInv` joins these with what links them: next
pointers stay inside the vector, a chain stays in one main position, and every
key is reached from its main position. Each conjunct alone is lost in
`MoveColliding`: that the moved node's predecessor is unique is what keeps the
other chain intact. A circle is a set of nodes that following `next` does not
leave; one made by an insertion would have been there without the new node.

The same module: LuaTable implements LuaMap. `RInv` adds that what waits
in `pending` is in neither part and waits once; the abstract map is what the
parts answer, overlaid with what is waiting, and each step is a step of the map
or leaves it unchanged (`NextKeepsRInv`). `RoomForPending` is proved along the
counting in rehash: `totaluse` counts every live entry once and the extra key,
`countInt` counts no key twice, so the nodes asked for suffice for everything
without an array slot, and each re-insertion takes at most one. Hence no rehash
begins inside another. The length: `step` and `probe` are tail recursions, which
have a solution, the value where the walk stops (`TailRecursion`). Bisection keeps
its lower bound present (or 0) and its upper bound absent and is followed by
induction on their distance (`BisectFindsBoundary`), the doubling of `UnboundSearch`
by induction on the distance to `MAX_INT`. The theorem has the hypothesis
`NoneBeyondHalf`, that no index above half of `MAX_INT` is present: beyond it the
code searches linearly with an inverted test (below) and the property is false.

Traversals (the end of the module): a traversal returns no key twice and, when it ends
without an insertion, has missed none. The invariant says where the traversal
stands: every key returned has its slot at or before that of `control`, and every
slot behind it whose key had a value throughout was returned. Assignments to
existing fields, which the manual allows, move no slot; an insertion ends the
claim.

**LuaStrings_proofs**: type correctness, that chains stay short on average, that
a chain holds exactly the strings of its bucket, that no string has two TStrings,
that keywords are found marked, and that LuaStrings implements LuaInterning.
`IInv` joins these with what holds while the state is being opened: the keywords
interned so far are the first ones and are marked, and the size is a power of
two. Without the exact chains uniqueness is not inductive: a string is new if its
chain does not hold it.

**LuaUpvalues_proofs**: the list of open upvalues holds the captured variables in
scope and no other, an upvalue whose variable is in scope points to it through
any number of reallocations, and every pointer is to a slot its array has. The
inductive invariant adds that the list descends, so that `fClose` finds the
members above a level at its head, and that the frames lie one above the other,
so that closing a block of one frame closes nothing of another.

**LuaCall_proofs**: frames stay nested on the stack, `errorJmp` and the `previous`
links are the dPCalls under way, `nCCalls` counts the dCalls, the CallInfos stay
bounded, a dPCall that ends restores frame, count and handler, and every frame is
run by exactly one Go activation. `RunInv` describes the Go stack against the
CallInfo array: `RunsOK` gives every activation the interval of frames it runs,
`CountsOK` and `PCallsOK` say that what a dPCall saved is still there below what
has been pushed since. It is needed in `Throw`, which cuts both stacks to what one
handler remembers and has to leave all the others true. The proof uses that
`LUA_MINSTACK + EXTRA_STACK` is 2 at least (lua.h, lstate.go: 20 and 5), or the
result and function slots of a new state would not fit.

LuaCall implements LuaActivations (`StacksAreSeparate`). A frame's registers
run from its base to the function slot of the next frame, the last one's to
`L.top`; so the mapping reads the same slots differently after every call and
return. Each action has a lemma (`...Follows`) that says which step of the
abstract specification it is, and all rest on one fact: activations whose frames
stay, over slots that do not change, stay as they are (`SameBelow`), which leaves
the registers of the last one or two to be computed (`LastRegs`). `WindowsInv`
adds to `IInv` what the frames alone do not say: a protected call that has called
has put the new frame where its function was, which is where an error leaves its
message, and a Go function's base is not above `L.top`. A step that loses a
result, an argument or an error (findings below) does not end in `"running"` and
is outside the claim; so is a tail call, after which `L.base` is not the frame's.

**LuaMeta_proofs**: no step makes a flag false but a store of `__newindex` in a
table that is its own metatable, and where there is no such table a flag means
that the table lacks the method (`FlagsAreTrueOfOthers`). Any table may be any
table's metatable here, its own included. `IInv` adds to the types that a false
flag is one of `__newindex` (`OnlyStoresHidden`); hence asking through the flags
is exact for every other event (`FastTMIsExact`), and for `__newindex` it misses
exactly the tables in `Overlooked` (`FastTMOfStore`).

LuaMeta implements LuaMetatables with `overlooked` mapped to the tables that have
a false flag. The refinement needs where an access stands on its chain
(`OnChain`): what the links that are left come to from the value at hand is what
the whole chain comes to from the first. `Within`, which follows a chain in one
step, is shown to have its defining equation (`WithinIs`), each iteration to
follow one link of it (`ChainGoesOn`), and the end of the loop to be the end of
the chain (`ChainEnds`). A store resets the flags of every table it passes, so
that a table overlooked before is found after, in the middle of the chain (the
step `Noticed`): `OnChain` is therefore stated for every smaller set of missed
tables too. The table passed asks its own metatable after its own flags are
reset, so its own method is never missed (`missed \ {v}` in `Handler`).

**LuaScopes_proofs**: a name is resolved to the innermost declaration in scope, an
upvalue keeps denoting the variable it was made for and is the only one of its
function that does, a block closes upvalues exactly if one of its variables is
captured, and the arrays of active variables and upvalues are never overrun. The
parser keeps one flat array per function, the source has scopes: `ScopesOK` is
the witness that relates them. It gives every scope of the source the function
(`lev`), the first register (`lo`) and the block (`blk`) it became, in order; a
register that is in no scope is a hidden variable of a `for`. With it `Home`, found
by searching registers from the innermost function outwards, is the function of
the last scope that declares the name (`Meant`). Besides, declarations have
different numbers, pending ones included (`Distinct`); an upvalue has the number
of what it is made from one function further out (`UpvaluesOK`); captured
variables are active (`CapturedOK`); and `hasUpVal` of a block is true exactly
if one of its variables is captured (`ClosesOK`).

**LuaLexer_proofs**: ZIO hands out the bytes of a chunk, each once and in their
order, llex asks for nothing past their end, and its loops take at most two turns
for each character and three more. Four predicates follow a text from the disk to
the analyser, each the one before with a layer more: what FILE still holds is the
rest of the text from some position on (`FileAt`), so is what the reader still
delivers, the put-back newline for a skipped first line included (`RestAt`), what
ZIO still hands out (`StreamAt`), and the current character is the one before that
(`TextAt`). Each operation of a layer takes a prefix of the rest (`WindowTake`);
the loops of `fread`, of `LLoadFile` and of `Read` are shown to have the turns
they are defined by (`LoopsHaveTurns`) and each turn keeps the predicate. That
`n` is at least 0 whenever the current character is not the end makes `GetCh`
safe to call: every reader of llex tests for the end before it goes on. For the
bound every state has a `Weight`, the turns it may take with the current
character, and each of the 21 actions lowers `2 * Left + Weight` by one or more;
that needs to know of brackets that a reader of a long string is only entered at
one (`BracketsOK`). `ChunksAssumption` excludes the files that `LLoadFile` does not
deliver as they are (above: empty ones, a first line `#...` without an end, and
precompiled files).

**LuaTokens_proofs**: the tokens and lines that the parser gets are those that
LuaTokens defines on the text (`TextIsTokenized`). A lexical element (a token, a
comment, a space) begins at every position where llex is between two turns of
its `for`; `Owed` says that the tokens got and the tokens from there on are those
of the text. Inside an element each reader's loop has its own clause of `Between`:
where the element began, what the buffer holds of it, and that its end by
definition is the end seen from the current position. These ends are maximal
runs (`After`), first occurrences (`First`) or the end of a string, so that a
turn which does not leave the loop moves the position and not the end
(`AfterStep`, `FirstStep`), and the turn that leaves it is at the end. `Stands`
links positions with the stream of LuaLexer_proofs and with the line counter:
`linenumber` is the number of line breaks before the position unless it is
between the two characters of one, which `incLineNumber` never leaves it
(`Clean`). The values need what has been read of them: of a name or number the
text itself, of a string the value so far followed by what the definition gives
for the rest (`StringTo`), of a long string its text with each line break as one
newline (`HasRead`), behind a bracket of the level that is cut off at the end
(`Framed`). The recursive functions of LuaTokens are shown to have their defining
equations as above; `w` and its position are the only data, and the induction is
the invariant's own, along the turns of llex, so that no induction over texts is
left.

Induction: the theorems of the library that take an operator as a parameter
cannot be used, but their consequences can. Facts about all numbers are proved
from the well-foundedness of `<` on Nat (`Induct`, `LeastNumber`), for the set of
the numbers that have them; a recursive function is shown to have its defining
equation by building one that has it (`RecursionFrom`), and then its values by
`Induct`.

Only model-checked:

* The code generator and the statements against their meaning (`CodeMeansSource`)
  and with it `AssertionsHold`, `CapturedAreClosed` and `RegistersReserved`, which
  hold of the FuncState between two constructs: running the code is a recursive
  function over programs, patch lists are followed by recursion through the code,
  and what these compute is induction over data.
* Liveness (`TraversalEnds`) and anything that needs ENABLED.

## Not modelled

* Binary chunks (lundump.go): a straight-line reader over LuaStream. A binary
  file never reaches it (above); from memory, `LoadVector` panics on an empty
  vector (a stripped chunk has no line information) and `LoadFunction` ends with
  `L.top++` where it should take its prototype off the stack (lundump.go:203).
* The nil and NaN keys of tables: `Set` only logs them (ltable.go:541) and goes
  on to `newKey`. No key of LuaTable is one of them.
* The success of `tryFuncTM` (ldo.go:291): a value with `__call` makes room for
  its handler below its arguments and is called like a function of one argument
  more. LuaCall has the failure (`CallNoFunction`).
* `dCall`s that instructions make (tag methods, lvm.go:142-172, and OP_TFORLOOP,
  lvm.go:663): in LuaCall only Go functions and `f_call` use `dCall`, which
  counts the same way whoever calls it.
* API operations that push, move and convert values: a few assignments each.
  `SetTable` (lapi.go:505) stores the key as the value; `SetField` and the
  instructions do not.
* `<` and `<=` with methods (they ask without the cache and keep no state),
  methods of arithmetic (`callBinTM` is a stub) and `arith` (lvm.go:79), which
  converts its first operand twice; OP_POW has no case.
* The base library and the rest of the auxiliary one: sequences of API calls.
* Syntax errors, the limits of nesting, of code and of registers, line and debug
  information, and the code that uses upvalues (which variable it denotes is in
  LuaScopes, what a closure then shares in LuaUpvalues).
* Conversions between numbers and text, output and log lines; the garbage
  collector (stubs) and weak tables; hooks (they panic) and coroutines (absent);
  values, memory helpers and the main program, which keep no state of their own.

## Plan

Done: tables, calls, string table, upvalues, tag methods, streams, lexer, code
generator, parser of one function, scopes of nested ones; theorems about tables
and their traversal, strings, upvalues, calls, tag methods, scopes, streams, the
lexer and its tokens.

Left, in this order:

1. The comparisons `<` and `<=` in LuaMeta and the code of upvalues in LuaParser,
   each of which multiplies the states of its run by the values it adds.

## Findings

Every finding is a run that TLC ends with a counterexample; PROJECT.json quotes
the line of the repository it contradicts.
