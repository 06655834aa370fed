--------------------------- MODULE LuaMetatables ----------------------------
(***************************************************************************)
(* What metatables mean: each event asks the table for its handler at the  *)
(* moment it happens, and indexing follows the chain of handlers in one    *)
(* step.  One thing is remembered from one event to the next: a table that *)
(* is its own metatable is overlooked, as the metatable of others, after a *)
(* method for stores is stored in it, until the next store to it.          *)
(***************************************************************************)
EXTENDS Naturals

CONSTANTS
  Tables, Functions,
  Operands,     \* the values that programs index and compare
  Types,        \* the types whose values share one metatable
  TypeOf,       \* the type of each value that is not a table
  Nil, NoTable,
  Keys, Fields, \* the keys of tables, and what each may hold in the model
  MAXTAGLOOP

Values == Tables \cup DOMAIN TypeOf

VARIABLES
  content,    \* what each table holds under each key
  metatable,  \* of each table and of each type
  overlooked, \* the tables whose "__newindex" stores to other tables ignore
  outcome     \* of the last event

vars == <<content, metatable, overlooked, outcome>>

NoOutcome == [of |-> <<>>]
Value(of, v) == [of |-> of, value |-> v]
Calls(of, f, args) == [of |-> of, function |-> f, args |-> args]
Error(of) == [of |-> of, error |-> "error"]
Panic(of) == [of |-> of, error |-> "panic"]

\* The event that outcome' reports.
Reports(of) == outcome'.of = of

Owner(v) == IF v \in Tables THEN v ELSE TypeOf[v]

\* The handler of v for an event, Nil if it has none.  A table does not see the
\* methods of the metatables that are missed, a store to a table its own.
Handler(v, event, missed) ==
  LET mt == metatable[Owner(v)]
  IN IF mt = NoTable \/ (v \in Tables /\ mt \in missed \ {v}) THEN Nil ELSE content[mt][event]

Raw(v, key) == IF v \in Tables THEN content[v][key] ELSE Nil

\* Whether the chain of an access to key goes no further than v, for h is the
\* handler of v: a function, or not needed.
Decides(v, key, h) ==
  h \in Functions \/ (v \in Tables /\ (Raw(v, key) # Nil \/ h = Nil))

\* The value that decides within n links from each value, NoTable if there is
\* none: the chain is too long, or ends at a value that cannot be indexed.
Within(key, event, missed) ==
  LET f[n \in 0 .. MAXTAGLOOP] ==
        [v \in Values |->
           LET h == Handler(v, event, missed)
           IN IF n = 0 THEN NoTable ELSE IF Decides(v, key, h) THEN v ELSE f[n - 1][h]]
  IN f

\* The value that has the last word when v is indexed.
Last(v, key, event, missed) == Within(key, event, missed)[MAXTAGLOOP][v]

\* v[key]
Get(v, key) ==
  LET of == <<"get", v, key>>
      w == Last(v, key, "__index", {})
      h == Handler(w, "__index", {})
      has == Raw(w, key) # Nil \/ h = Nil
  IN /\ Reports(of)
     /\ \/ w = NoTable /\ outcome' = Error(of)
        \/ w # NoTable /\ has /\ outcome' = Value(of, Raw(w, key))
        \/ w # NoTable /\ ~has /\ outcome' = Calls(of, h, <<w, key>>)
     /\ UNCHANGED <<content, metatable, overlooked>>

\* Storing x in w[key] gives w a method that stores to others overlook.
Hides(w, key, x) ==
  metatable[w] = w /\ key = "__newindex" /\ Raw(w, key) = Nil /\ x # Nil

\* v[key] = x
Set(v, key, x) ==
  LET of == <<"set", v, key, x>>
      w == Last(v, key, "__newindex", overlooked)
      h == Handler(w, "__newindex", overlooked)
      stores == w \in Tables /\ (Raw(w, key) # Nil \/ h = Nil)
      hides == stores /\ Hides(w, key, x)
  IN /\ Reports(of)
     /\ \/ w = NoTable /\ outcome' = Error(of)
        \/ stores /\ outcome' = Value(of, Nil)
        \/ w # NoTable /\ ~stores /\ outcome' = Calls(of, h, <<w, key, x>>)
     /\ content' = IF stores THEN [content EXCEPT ![w][key] = x] ELSE content
     /\ overlooked' = (overlooked \ {w}) \cup (IF hides THEN {w} ELSE {})
     /\ UNCHANGED metatable

\* The handler that two values share for a comparison.
Shared(a, b, event) ==
  LET h == Handler(a, event, {})
  IN IF h = Handler(b, event, {}) THEN h ELSE Nil

\* Of two tables with different metatables only the second has a handler for
\* ==: here the interpreter follows a pointer to nothing (lvm.go:841).
Unlike(a, b) ==
  /\ metatable[a] \notin { NoTable, metatable[b] }
  /\ Handler(a, "__eq", {}) = Nil /\ Handler(b, "__eq", {}) # Nil

\* a == b
Equal(a, b) ==
  LET of == <<"eq", a, b>>
      tables == {a, b} \subseteq Tables /\ a # b
      h == Shared(a, b, "__eq")
  IN /\ Reports(of)
     /\ \/ tables /\ Unlike(a, b) /\ outcome' = Panic(of)
        \/ tables /\ h # Nil /\ outcome' = Calls(of, h, <<a, b>>)
        \/ /\ ~(tables /\ (Unlike(a, b) \/ h # Nil))
           /\ outcome' = Value(of, a = b)
     /\ UNCHANGED <<content, metatable, overlooked>>
-----------------------------------------------------------------------------
(* What programs do besides *)

SetMetaTable(v, mt) ==
  /\ metatable' = [metatable EXCEPT ![Owner(v)] = mt]
  /\ UNCHANGED <<content, overlooked, outcome>>

RawSet(t, key, x) ==
  /\ content' = [content EXCEPT ![t][key] = x]
  /\ overlooked' = overlooked \ {t}
  /\ UNCHANGED <<metatable, outcome>>

\* A store to t that goes on to another value.
Noticed(t) ==
  /\ overlooked' = overlooked \ {t}
  /\ UNCHANGED <<content, metatable, outcome>>

\* The program takes the result and goes on.
Return ==
  /\ outcome' = NoOutcome
  /\ UNCHANGED <<content, metatable, overlooked>>

Init ==
  /\ content = [t \in Tables |-> [key \in Keys |-> Nil]]
  /\ metatable = [o \in Tables \cup Types |-> NoTable]
  /\ overlooked = {}
  /\ outcome = NoOutcome

Next ==
  \/ \E v \in Operands, key \in Keys : Get(v, key) \/ \E x \in Fields[key] : Set(v, key, x)
  \/ \E a, b \in Operands : Equal(a, b)
  \/ \E v \in Operands, mt \in Tables \cup {NoTable} : SetMetaTable(v, mt)
  \/ \E t \in Tables, key \in Keys : \E x \in Fields[key] : RawSet(t, key, x)
  \/ \E t \in Tables : Noticed(t)
  \/ Return

Spec == Init /\ [][Next]_vars
=============================================================================
