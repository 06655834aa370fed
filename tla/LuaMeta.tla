------------------------------- MODULE LuaMeta -------------------------------
(***************************************************************************)
(* Tag methods (lua/ltm.go) and the accesses that ask for them (lua/lvm.go *)
(* and lua/lapi.go).  A table remembers in its flags which of the frequent *)
(* methods it does not have, so that a metatable is not searched again;    *)
(* every primitive store forgets what its table remembers.                 *)
(*                                                                         *)
(* An access follows a chain of values, one loop iteration per step here;  *)
(* a tag method is called last, so that the call itself is left out, and   *)
(* so are the nodes that hold the keys (LuaTable).  Errors are logged only *)
(* (gTypeError, DbgRunError, gOrderError): the access has no effect.       *)
(***************************************************************************)
EXTENDS Naturals, Sequences, FiniteSets

CONSTANTS
  Tables, Functions,
  Operands,     \* bound: the values that programs index and compare
  Types,        \* the types whose values share one metatable (GlobalState.mt)
  TypeOf,       \* the type of each value that is not a table
  Nil, NoTable,
  Keys, Fields, \* the keys of tables, and what each may hold in the model
  Stored,       \* bound: what accesses store, of what RawSet stores
  MAXTAGLOOP,
  MAXFIELDS,    \* bound: how many fields are not nil
  MAXMETATABLES \* bound: how many tables and types have a metatable

FastEvents == {"__index", "__newindex", "__eq"}   \* those of the model up to TM_EQ
Values == Tables \cup DOMAIN TypeOf

ASSUME ValueAssumption ==
  /\ Nil \notin Tables /\ NoTable \notin Values
  /\ Operands \subseteq Values
  /\ Functions \subseteq DOMAIN TypeOf /\ Nil \in DOMAIN TypeOf \ Functions
  /\ Tables \cap DOMAIN TypeOf = {}
  /\ TypeOf \in [DOMAIN TypeOf -> Types]
  /\ Tables \cap Types = {}
ASSUME KeyAssumption ==
  /\ FastEvents \subseteq Keys
  /\ \A key \in Keys : Nil \in Fields[key] /\ Fields[key] \subseteq Values
  /\ \A key \in Keys : Stored[key] \subseteq Fields[key]
ASSUME BoundAssumption ==
  MAXTAGLOOP \in Nat \ {0} /\ MAXFIELDS \in Nat /\ MAXMETATABLES \in Nat

VARIABLES
  content,    \* what each table holds under each key, Nil for nothing
  metatable,  \* of each table and each type
  flags,      \* the methods each table remembers not to have
  access,     \* the access in progress
  outcome     \* what the last one came to

vars == <<content, metatable, flags, access, outcome>>

NoAccess == [t |-> Nil, of |-> <<>>, loop |-> 0]
NoOutcome == [of |-> <<>>]
Value(of, v) == [of |-> of, value |-> v]
Calls(of, f, args) == [of |-> of, function |-> f, args |-> args]
Error(of) == [of |-> of, error |-> "error"]
Panic(of) == [of |-> of, error |-> "panic"]

Idle == access = NoAccess /\ outcome = NoOutcome

\* gcType decides whose metatable a value has.
Owner(v) == IF v \in Tables THEN v ELSE TypeOf[v]

\* tGetTMByObj.
GetTMByObj(v, event) ==
  LET mt == metatable[Owner(v)]
  IN IF mt = NoTable THEN Nil ELSE content[mt][event]

\* FastTM, for the flags fl: what it returns, Nil also for no pointer,
FastTM(fl, mt, event) ==
  IF mt = NoTable THEN Nil ELSE IF event \in fl[mt] THEN Nil ELSE content[mt][event]

\* and what the tables remember afterwards.
Remembered(fl, mt, event) ==
  [t \in Tables |-> IF t = mt /\ content[t][event] = Nil THEN fl[t] \cup {event} ELSE fl[t]]
-----------------------------------------------------------------------------
(* vGetTable and vSetTable *)

\* The bound on fields.
Room(x) ==
  x = Nil \/ Cardinality({ e \in Tables \X Keys : content[e[1]][e[2]] # Nil }) < MAXFIELDS

Begin(t, of) ==
  /\ Idle
  /\ access' = [t |-> t, of |-> of, loop |-> 0]
  /\ UNCHANGED <<content, metatable, flags, outcome>>

BeginGet == \E v \in Operands, key \in Keys : Begin(v, <<"get", v, key>>)
BeginSet ==
  \E v \in Operands, key \in Keys : \E x \in Stored[key] :
    Room(x) /\ Begin(v, <<"set", v, key, x>>)

Running(op) == access # NoAccess /\ access.of[1] = op
Loops == access.loop < MAXTAGLOOP
t0 == access.t
key0 == access.of[3]

End(result) ==
  /\ outcome' = result
  /\ access' = NoAccess
  /\ UNCHANGED metatable

\* Broken: calls whatever it finds.
TryAnything(tm, args) ==
  IF tm # Nil THEN End(Calls(access.of, tm, args))
  ELSE /\ access' = [t |-> tm, of |-> access.of, loop |-> access.loop + 1]
       /\ UNCHANGED <<metatable, outcome>>

\* The end of an iteration that found the tag method tm.
Try(tm, args) ==
  IF tm \in Functions THEN End(Calls(access.of, tm, args))
  ELSE /\ access' = [t |-> tm, of |-> access.of, loop |-> access.loop + 1]
       /\ UNCHANGED <<metatable, outcome>>

\* One iteration of vGetTable for a table ...
GetFromTable ==
  /\ Running("get") /\ Loops /\ t0 \in Tables
  /\ LET res == content[t0][key0]
         tm == FastTM(flags, metatable[t0], "__index")
     IN /\ IF res # Nil \/ tm = Nil THEN End(Value(access.of, res)) ELSE Try(tm, <<t0, key0>>)
        /\ flags' = IF res # Nil THEN flags ELSE Remembered(flags, metatable[t0], "__index")
  /\ UNCHANGED content

\* ... and for another value.  Without a method the error is logged and the
\* loop goes on with nil.
GetFromOther ==
  /\ Running("get") /\ Loops /\ t0 \notin Tables
  /\ Try(GetTMByObj(t0, "__index"), <<t0, key0>>)
  /\ UNCHANGED <<content, flags>>

\* Broken: a store leaves alone what the table remembers.
ForgetNothing(fl, t) == fl

\* Set: whatever is stored may be a method.
Forget(fl, t) == [fl EXCEPT ![t] = {}]

\* One iteration of vSetTable for a table.  The primitive store comes first,
\* and leaves a nil in the place of a new key.
SetInTable ==
  /\ Running("set") /\ Loops /\ t0 \in Tables
  /\ LET old == content[t0][key0]
         x == access.of[4]
         fl == Forget(flags, t0)
         tm == FastTM(fl, metatable[t0], "__newindex")
     IN /\ \/ /\ old # Nil \/ tm = Nil
              /\ content' = [content EXCEPT ![t0][key0] = x]
              /\ End(Value(access.of, Nil))
           \/ /\ old = Nil /\ tm # Nil
              /\ Try(tm, <<t0, key0, x>>)
              /\ UNCHANGED content
        /\ flags' = IF old # Nil THEN fl ELSE Remembered(fl, metatable[t0], "__newindex")

SetInOther ==
  /\ Running("set") /\ Loops /\ t0 \notin Tables
  /\ Try(GetTMByObj(t0, "__newindex"), <<t0, key0, access.of[4]>>)
  /\ UNCHANGED <<content, flags>>

LoopError ==
  /\ access # NoAccess /\ ~Loops
  /\ End(Error(access.of))
  /\ UNCHANGED <<content, flags>>
-----------------------------------------------------------------------------
(* vEqualVal *)

Compared(result) ==
  /\ Idle
  /\ outcome' = result
  /\ UNCHANGED <<content, metatable, access>>

\* equalobj: values that are not tables, and a table and itself.
EqualRaw(a, b) ==
  /\ ~({a, b} \subseteq Tables /\ a # b)
  /\ Compared(Value(<<"eq", a, b>>, a = b))
  /\ UNCHANGED flags

\* get_compTM, and what vEqualVal makes of it.  If only the second of two
\* metatables has the method, oRawEqualObj follows the nil pointer of the first.
CompTM(a, b) ==
  LET of == <<"eq", a, b>>
      tm1 == FastTM(flags, metatable[a], "__eq")
      tm2 == FastTM(flags, metatable[b], "__eq")
  IN IF metatable[a] \notin {NoTable, metatable[b]} /\ tm1 = Nil /\ tm2 # Nil THEN Panic(of)
     ELSE IF tm1 # Nil /\ tm1 = tm2 THEN Calls(of, tm1, <<a, b>>) ELSE Value(of, FALSE)

EqualTables(a, b) ==
  LET mt1 == metatable[a]
      mt2 == metatable[b]
      fl == Remembered(flags, mt1, "__eq")
  IN /\ {a, b} \subseteq Tables /\ a # b
     /\ Compared(CompTM(a, b))
     /\ flags' = IF mt1 \in {NoTable, mt2} THEN fl ELSE Remembered(fl, mt2, "__eq")

Compare == \E a, b \in Operands : EqualRaw(a, b) \/ EqualTables(a, b)
-----------------------------------------------------------------------------
(* SetMetaTable, RawSet and the rest of the program *)

\* The bound on metatables.
RoomForMetatable(mt) ==
  mt = NoTable \/ Cardinality({ o \in Tables \cup Types : metatable[o] # NoTable }) < MAXMETATABLES

SetMetaTable ==
  /\ Idle
  /\ \E v \in Operands, mt \in Tables \cup {NoTable} :
       /\ RoomForMetatable(mt)
       /\ metatable' = [metatable EXCEPT ![Owner(v)] = mt]
  /\ UNCHANGED <<content, flags, access, outcome>>

RawSet ==
  /\ Idle
  /\ \E t \in Tables, key \in Keys : \E x \in Fields[key] :
       /\ Room(x)
       /\ content' = [content EXCEPT ![t][key] = x]
       /\ flags' = Forget(flags, t)
  /\ UNCHANGED <<metatable, access, outcome>>

\* The result is used and the program goes on.
Return ==
  /\ outcome # NoOutcome
  /\ outcome' = NoOutcome
  /\ UNCHANGED <<content, metatable, flags, access>>

\* hNew: every flag is set in a table without fields.
Init ==
  /\ content = [t \in Tables |-> [key \in Keys |-> Nil]]
  /\ metatable = [o \in Tables \cup Types |-> NoTable]
  /\ flags = [t \in Tables |-> FastEvents]
  /\ access = NoAccess
  /\ outcome = NoOutcome

Next ==
  \/ BeginGet \/ GetFromTable \/ GetFromOther
  \/ BeginSet \/ SetInTable \/ SetInOther
  \/ LoopError
  \/ Compare
  \/ SetMetaTable \/ RawSet \/ Return

Spec == Init /\ [][Next]_vars
-----------------------------------------------------------------------------
(* Properties *)

\* The table has the method and remembers not to have it.
FalseFlag(t, event) == event \in flags[t] /\ content[t][event] # Nil

\* ltable.go:52, "1<<p means tagmethod(p) is not present".  Not an invariant:
\* FlagsStayTrue has the one way to lose it.
FlagsMeanAbsent == \A t \in Tables, event \in FastEvents : ~FalseFlag(t, event)

\* An access stores the method for stores in a table that is its own metatable.
StoresInOwnMetatable(t) ==
  Running("set") /\ t0 = t /\ key0 = "__newindex" /\ metatable[t] = t

\* What a table remembers stays true whichever of its fields are stored, by
\* whatever access, also in the middle of an access that has it as a
\* metatable, with one exception: a table that is its own metatable is asked
\* for __newindex after its flags were reset (ltable.go:537, lvm.go:121) and
\* before the value is stored (lvm.go:122).
FlagsStayTrue ==
  [][\A t \in Tables, event \in FastEvents :
       FalseFlag(t, event)' /\ ~FalseFlag(t, event) =>
         event = "__newindex" /\ StoresInOwnMetatable(t)]_vars

\* The tables whose method for stores is there and not found.
Overlooked == { t \in Tables : FalseFlag(t, "__newindex") }

Metatables == INSTANCE LuaMetatables WITH overlooked <- Overlooked

\* However many tables have remembered whatever methods they lack, every
\* access and comparison comes to what the fields of the metatables say at
\* that moment, and the chain of an access to the value the first of its
\* links decides on.  The exception is the one of FlagsStayTrue: a store to
\* another table ignores the __newindex so stored, and it alone, until
\* something else is stored in the metatable.
ImplementsMetatables == Metatables!Spec
=============================================================================
