--------------------------- MODULE LuaMeta_proofs ---------------------------
(***************************************************************************)
(* When what tables remember about their methods is true, and what comes   *)
(* of accesses: proved for every set of tables, values and keys.           *)
(***************************************************************************)
EXTENDS LuaMeta, NaturalsInduction, WellFoundedInduction, TLAPS

\* What an access is for: a key and, when it stores, a value.
Gets == { <<"get", v, key>> : v \in Operands, key \in Keys }
Sets == { <<"set", v, key, x>> : v \in Operands, key \in Keys, x \in Values }

AccessOK ==
  /\ access \in [t : Values, of : {<<>>} \cup Gets \cup Sets, loop : Nat]
  /\ access # NoAccess => access.of \in Gets \cup Sets

TypeOK ==
  /\ content \in [Tables -> [Keys -> Values]]
  /\ metatable \in [Tables \cup Types -> Tables \cup {NoTable}]
  /\ flags \in [Tables -> SUBSET FastEvents]
  /\ AccessOK

\* Only the absence of __newindex is ever remembered of a table that has it.
OnlyStoresHidden == \A t \in Tables, e \in FastEvents : FalseFlag(t, e) => e = "__newindex"

IInv == TypeOK /\ OnlyStoresHidden

\* What FlagsStayTrue says of a step.
StaysTrue ==
  \A t \in Tables, event \in FastEvents :
    FalseFlag(t, event)' /\ ~FalseFlag(t, event) => event = "__newindex" /\ StoresInOwnMetatable(t)

\* After a step the false flags of t are hidden, those of the other tables as before.
FlagsAfter(t, hidden) ==
  \A s \in Tables, e \in FastEvents :
    FalseFlag(s, e)' <=> IF s = t THEN e \in hidden ELSE FalseFlag(s, e)

LEMMA KeysOfEvents == FastEvents \subseteq Keys
BY KeyAssumption

\* Asking a table for a method makes it remember nothing false.
LEMMA RememberedIsTrue ==
  ASSUME TypeOK, NEW fl \in [Tables -> SUBSET FastEvents], NEW mt, NEW event \in FastEvents
  PROVE  /\ Remembered(fl, mt, event) \in [Tables -> SUBSET FastEvents]
         /\ \A t \in Tables : Remembered(fl, mt, event)[t] \in {fl[t], fl[t] \cup {event}}
         /\ \A t \in Tables \ {mt} : Remembered(fl, mt, event)[t] = fl[t]
         /\ \A t \in Tables, e \in FastEvents :
              content[t][e] # Nil => (e \in Remembered(fl, mt, event)[t] <=> e \in fl[t])
BY DEF Remembered

LEMMA ForgetIsTrue ==
  ASSUME TypeOK, NEW t \in Tables
  PROVE  /\ Forget(flags, t) \in [Tables -> SUBSET FastEvents]
         /\ Forget(flags, t)[t] = {}
         /\ \A s \in Tables \ {t} : Forget(flags, t)[s] = flags[s]
BY DEF TypeOK, Forget

\* What the flags after a step mean for the invariant.
LEMMA FlagsAfterKeep ==
  ASSUME IInv, TypeOK', NEW CONSTANT t, NEW CONSTANT hidden,
         FlagsAfter(t, hidden), hidden = {} \/ (hidden = {"__newindex"} /\ StoresInOwnMetatable(t))
  PROVE  /\ IInv' /\ StaysTrue
         /\ Overlooked' = (Overlooked \ {t}) \cup (IF t \in Tables /\ hidden # {} THEN {t} ELSE {})
<1>1. OnlyStoresHidden'
  <2>. SUFFICES ASSUME NEW s \in Tables, NEW e \in FastEvents, FalseFlag(s, e)'
                PROVE  e = "__newindex"
    BY DEF OnlyStoresHidden
  <2>1. IF s = t THEN e \in hidden ELSE FalseFlag(s, e)
    BY DEF FlagsAfter
  <2>. QED
    BY <2>1 DEF IInv, OnlyStoresHidden
<1>2. StaysTrue
  <2>. SUFFICES ASSUME NEW s \in Tables, NEW e \in FastEvents, FalseFlag(s, e)', ~FalseFlag(s, e)
                PROVE  e = "__newindex" /\ StoresInOwnMetatable(s)
    BY DEF StaysTrue
  <2>1. s = t /\ e \in hidden
    BY DEF FlagsAfter
  <2>. QED
    BY <2>1
<1>3. \A s \in Tables : FalseFlag(s, "__newindex")' <=>
        (IF s = t THEN hidden # {} ELSE FalseFlag(s, "__newindex"))
  <2>1. "__newindex" \in FastEvents /\ ("__newindex" \in hidden <=> hidden # {})
    BY DEF FastEvents
  <2>. QED
    BY <2>1 DEF FlagsAfter
<1>4. Overlooked' = { s \in Tables : FalseFlag(s, "__newindex")' }
  BY DEF Overlooked
<1>5. Overlooked' = (Overlooked \ {t}) \cup (IF t \in Tables /\ hidden # {} THEN {t} ELSE {})
  BY <1>3, <1>4 DEF Overlooked
<1>. QED
  BY <1>1, <1>2, <1>5 DEF IInv

LEMMA InitIInv == Init => IInv /\ FlagsMeanAbsent /\ Overlooked = {}
<1>. SUFFICES ASSUME Init PROVE IInv /\ FlagsMeanAbsent /\ Overlooked = {}
  OBVIOUS
<1>1. TypeOK
  BY ValueAssumption, KeyAssumption DEF Init, TypeOK, AccessOK, NoAccess, Values
<1>2. \A t \in Tables, e \in FastEvents : ~FalseFlag(t, e)
  BY KeysOfEvents DEF Init, FalseFlag
<1>3. "__newindex" \in FastEvents
  BY DEF FastEvents
<1>. QED
  BY <1>1, <1>2, <1>3 DEF IInv, OnlyStoresHidden, FlagsMeanAbsent, Overlooked

LEMMA MethodsAreValues ==
  ASSUME TypeOK, NEW event \in FastEvents
  PROVE  /\ \A v \in Values : GetTMByObj(v, event) \in Values
         /\ \A t \in Tables : \A fl : FastTM(fl, metatable[t], event) \in Values
<1>1. /\ Nil \in Values /\ event \in Keys
      /\ \A t \in Tables, key \in Keys : content[t][key] \in Values
  BY ValueAssumption, KeysOfEvents DEF TypeOK, Values
<1>2. ASSUME NEW v \in Values PROVE GetTMByObj(v, event) \in Values
  <2>1. Owner(v) \in Tables \cup Types
    BY ValueAssumption DEF Owner, Values
  <2>2. metatable[Owner(v)] \in Tables \cup {NoTable}
    BY <2>1 DEF TypeOK
  <2>. QED
    BY <1>1, <2>2 DEF GetTMByObj
<1>3. ASSUME NEW t \in Tables, NEW fl PROVE FastTM(fl, metatable[t], event) \in Values
  <2>1. metatable[t] \in Tables \cup {NoTable}
    BY DEF TypeOK
  <2>. QED
    BY <1>1, <2>1 DEF FastTM
<1>. QED
  BY <1>2, <1>3
-----------------------------------------------------------------------------
(* The steps *)

\* A step that leaves the tables alone and remembers nothing false.
Reads == TypeOK' /\ FlagsAfter(NoTable, {}) /\ UNCHANGED <<content, metatable>>

LEMMA FlagsUnchanged ==
  ASSUME UNCHANGED <<content, flags>>
  PROVE  FlagsAfter(NoTable, {})
<1>1. ASSUME NEW s \in Tables PROVE s # NoTable
  BY ValueAssumption DEF Values
<1>. QED
  BY <1>1 DEF FlagsAfter, FalseFlag

LEMMA AskingReads ==
  ASSUME TypeOK, NEW mt, NEW event \in FastEvents, NEW fl \in {flags, Remembered(flags, mt, event)},
         NEW mt2, flags' \in {fl, Remembered(fl, mt2, event)}, UNCHANGED <<content, metatable>>, AccessOK'
  PROVE  Reads
<1>1. flags \in [Tables -> SUBSET FastEvents]
  BY DEF TypeOK
<1>2. /\ fl \in [Tables -> SUBSET FastEvents]
      /\ \A t \in Tables, e \in FastEvents : content[t][e] # Nil => (e \in fl[t] <=> e \in flags[t])
  BY <1>1, RememberedIsTrue
<1>3. /\ flags' \in [Tables -> SUBSET FastEvents]
      /\ \A t \in Tables, e \in FastEvents : content[t][e] # Nil => (e \in flags'[t] <=> e \in fl[t])
  BY <1>2, RememberedIsTrue
<1>4. ASSUME NEW s \in Tables PROVE s # NoTable
  BY ValueAssumption DEF Values
<1>5. FlagsAfter(NoTable, {})
  BY <1>2, <1>3, <1>4 DEF FlagsAfter, FalseFlag
<1>. QED
  BY <1>3, <1>5 DEF Reads, TypeOK

LEMMA NoAccessIsOK == NoAccess \in [t : Values, of : {<<>>} \cup Gets \cup Sets, loop : Nat]
BY ValueAssumption DEF NoAccess, Values

LEMMA EndKeepsAccess ==
  ASSUME NEW result, End(result)
  PROVE  AccessOK' /\ UNCHANGED metatable
BY NoAccessIsOK DEF End, AccessOK

LEMMA TryKeepsAccess ==
  ASSUME AccessOK, access # NoAccess, NEW tm \in Values, NEW args, Try(tm, args)
  PROVE  AccessOK' /\ UNCHANGED metatable
<1>1. CASE tm \in Functions
  BY <1>1, EndKeepsAccess DEF Try
<1>2. CASE tm \notin Functions
  <2>1. access' = [t |-> tm, of |-> access.of, loop |-> access.loop + 1] /\ UNCHANGED metatable
    BY <1>2 DEF Try
  <2>2. access.of \in Gets \cup Sets /\ access.loop + 1 \in Nat
    BY DEF AccessOK
  <2>3. AccessOK'
    BY <2>1, <2>2 DEF AccessOK
  <2>. QED
    BY <2>1, <2>3
<1>. QED
  BY <1>1, <1>2

LEMMA BeginReads ==
  ASSUME TypeOK, BeginGet \/ BeginSet
  PROVE  Reads
<1>1. PICK v \in Operands, of \in Gets \cup Sets : Begin(v, of)
  <2>1. CASE BeginGet
    <3>1. PICK v \in Operands, key \in Keys : Begin(v, <<"get", v, key>>)
      BY <2>1 DEF BeginGet
    <3>. QED
      BY <3>1 DEF Gets
  <2>2. CASE BeginSet
    <3>1. PICK v \in Operands, key \in Keys : \E x \in Stored[key] : Begin(v, <<"set", v, key, x>>)
      BY <2>2 DEF BeginSet
    <3>2. PICK x \in Stored[key] : Begin(v, <<"set", v, key, x>>)
      BY <3>1
    <3>3. x \in Values
      BY KeyAssumption
    <3>. QED
      BY <3>2, <3>3 DEF Sets
  <2>. QED
    BY <2>1, <2>2
<1>2. access' = [t |-> v, of |-> of, loop |-> 0] /\ UNCHANGED <<content, metatable, flags>>
  BY <1>1 DEF Begin
<1>3. AccessOK'
  BY <1>2, ValueAssumption DEF AccessOK
<1>. QED
  BY <1>2, <1>3, FlagsUnchanged DEF Reads, TypeOK

LEMMA GetReads ==
  ASSUME TypeOK, GetFromTable \/ GetFromOther
  PROVE  Reads
<1>1. access # NoAccess /\ AccessOK /\ access.t \in Values /\ "__index" \in FastEvents
  BY DEF GetFromTable, GetFromOther, Running, TypeOK, AccessOK, FastEvents
<1>2. CASE GetFromTable
  <2> DEFINE tm == FastTM(flags, metatable[t0], "__index")
  <2>1. AccessOK' /\ UNCHANGED metatable
    <3>1. tm \in Values
      BY <1>1, <1>2, MethodsAreValues DEF GetFromTable
    <3>2. CASE End(Value(access.of, content[t0][key0]))
      BY <3>2, EndKeepsAccess
    <3>3. CASE Try(tm, <<t0, key0>>)
      BY <1>1, <3>1, <3>3, TryKeepsAccess
    <3>. QED
      BY <1>2, <3>2, <3>3 DEF GetFromTable
  <2>2. flags' \in {flags, Remembered(flags, metatable[t0], "__index")} /\ UNCHANGED content
    BY <1>2 DEF GetFromTable
  <2>. QED
    BY <1>1, <2>1, <2>2, AskingReads
<1>3. CASE GetFromOther
  <2>1. GetTMByObj(t0, "__index") \in Values
    BY <1>1, MethodsAreValues DEF t0
  <2>2. AccessOK' /\ UNCHANGED metatable
    BY <1>1, <1>3, <2>1, TryKeepsAccess DEF GetFromOther
  <2>. QED
    BY <1>3, <2>2, FlagsUnchanged DEF GetFromOther, Reads, TypeOK
<1>. QED
  BY <1>2, <1>3

\* What an access for storing stores, and where.
LEMMA SetOperands ==
  ASSUME AccessOK, Running("set")
  PROVE  key0 \in Keys /\ access.of[4] \in Values
<1>1. access.of \in Gets \cup Sets /\ access.of[1] = "set"
  BY DEF AccessOK, Running
<1>2. access.of \in Sets
  BY <1>1 DEF Gets
<1>3. PICK v \in Operands, key \in Keys, x \in Values : access.of = <<"set", v, key, x>>
  BY <1>2 DEF Sets
<1>. QED
  BY <1>3 DEF key0

\* An iteration of vSetTable for a table: the flags of t0 are reset, and after
\* that only one that is made false by the store itself may be set again.
LEMMA SetInTableFlags ==
  ASSUME TypeOK, SetInTable
  PROVE  /\ TypeOK'
         /\ FlagsAfter(t0, IF /\ content[t0][key0] = Nil /\ content'[t0][key0] # Nil
                              /\ key0 = "__newindex" /\ metatable[t0] = t0
                           THEN {"__newindex"} ELSE {})
         /\ \/ content' = [content EXCEPT ![t0][key0] = access.of[4]]
            \/ content' = content
<1> DEFINE x == access.of[4]
           fl == Forget(flags, t0)
           tm == FastTM(fl, metatable[t0], "__newindex")
           remembered == Remembered(fl, metatable[t0], "__newindex")
<1>1. /\ t0 \in Tables /\ access # NoAccess /\ AccessOK
      /\ key0 \in Keys /\ x \in Values /\ "__newindex" \in FastEvents
  BY SetOperands DEF SetInTable, Running, TypeOK, FastEvents
<1>2. /\ fl \in [Tables -> SUBSET FastEvents] /\ fl[t0] = {}
      /\ \A s \in Tables \ {t0} : fl[s] = flags[s]
  BY <1>1, ForgetIsTrue
<1>3. /\ remembered \in [Tables -> SUBSET FastEvents]
      /\ \A s \in Tables, e \in FastEvents :
           content[s][e] # Nil => (e \in remembered[s] <=> e \in fl[s])
  <2>. HIDE DEF fl
  <2>. QED
    BY <1>1, <1>2, RememberedIsTrue
<1>e. remembered[t0] = IF metatable[t0] = t0 /\ content[t0]["__newindex"] = Nil
                       THEN {"__newindex"} ELSE {}
  <2>. HIDE DEF fl
  <2>. QED
    BY <1>1, <1>2 DEF Remembered
<1>4. tm \in Values
  BY <1>1, MethodsAreValues
<1>5. AccessOK' /\ UNCHANGED metatable
  <2>1. CASE End(Value(access.of, Nil))
    BY <2>1, EndKeepsAccess
  <2>2. CASE Try(tm, <<t0, key0, x>>)
    BY <1>1, <1>4, <2>2, TryKeepsAccess
  <2>. QED
    BY <2>1, <2>2 DEF SetInTable
<1>6. content' = [content EXCEPT ![t0][key0] = x] \/ content' = content
  BY DEF SetInTable
<1>7. content' \in [Tables -> [Keys -> Values]]
  <2>1. content \in [Tables -> [Keys -> Values]]
    BY DEF TypeOK
  <2>2. CASE content' = [content EXCEPT ![t0][key0] = x]
    BY <1>1, <2>1, <2>2
  <2>. QED
    BY <1>6, <2>1, <2>2
<1>8. flags' = IF content[t0][key0] # Nil THEN fl ELSE remembered
  BY DEF SetInTable
<1>9. TypeOK'
  BY <1>2, <1>3, <1>5, <1>7, <1>8 DEF TypeOK
<1>a. \A s \in Tables \ {t0} : content'[s] = content[s]
  BY <1>1, <1>6 DEF TypeOK
<1>b. \A e \in FastEvents \ {key0} : content'[t0][e] = content[t0][e]
  BY <1>1, <1>6, KeysOfEvents DEF TypeOK
<1>. HIDE DEF fl, remembered, tm, x
<1>c. ASSUME NEW s \in Tables \ {t0}, NEW e \in FastEvents
      PROVE  FalseFlag(s, e)' <=> FalseFlag(s, e)
  <2>1. content[s][e] # Nil => (e \in flags'[s] <=> e \in flags[s])
    BY <1>2, <1>3, <1>8
  <2>. QED
    BY <1>a, <2>1 DEF FalseFlag
<1>d. ASSUME NEW s, s = t0, NEW e \in FastEvents
      PROVE  FalseFlag(s, e)' <=>
               /\ content[t0][key0] = Nil /\ content'[t0][key0] # Nil
               /\ key0 = "__newindex" /\ metatable[t0] = t0 /\ e = "__newindex"
  <2>1. e \in flags'[t0] <=>
          /\ content[t0][key0] = Nil /\ metatable[t0] = t0
          /\ content[t0]["__newindex"] = Nil /\ e = "__newindex"
    BY <1>2, <1>8, <1>e
  <2>2. key0 # "__newindex" => content'[t0]["__newindex"] = content[t0]["__newindex"]
    BY <1>1, <1>b
  <2>. QED
    BY <1>d, <2>1, <2>2 DEF FalseFlag
<1>. QED
  BY <1>6, <1>9, <1>c, <1>d DEF FlagsAfter, x

LEMMA ReadsKeep ==
  ASSUME IInv, Reads
  PROVE  IInv' /\ StaysTrue /\ Overlooked' = Overlooked
<1>1. NoTable \notin Tables /\ {} = {}
  BY ValueAssumption DEF Values
<1>2. PICK t : t = NoTable
  OBVIOUS
<1>3. /\ IInv' /\ StaysTrue
      /\ Overlooked' = (Overlooked \ {t}) \cup (IF t \in Tables /\ {} # {} THEN {t} ELSE {})
  BY <1>2, FlagsAfterKeep DEF Reads
<1>. QED
  BY <1>1, <1>2, <1>3 DEF Overlooked

\* What a store leaves overlooked.
LEMMA SetInTableKeeps ==
  ASSUME IInv, SetInTable
  PROVE  /\ IInv' /\ StaysTrue
         /\ Overlooked' = (Overlooked \ {t0}) \cup
              (IF /\ content[t0][key0] = Nil /\ content'[t0][key0] # Nil
                  /\ key0 = "__newindex" /\ metatable[t0] = t0
               THEN {t0} ELSE {})
<1>1. PICK t, hidden :
        /\ t = t0
        /\ hidden = IF /\ content[t0][key0] = Nil /\ content'[t0][key0] # Nil
                       /\ key0 = "__newindex" /\ metatable[t0] = t0
                    THEN {"__newindex"} ELSE {}
  OBVIOUS
<1>2. TypeOK' /\ FlagsAfter(t, hidden)
  BY <1>1, SetInTableFlags DEF IInv
<1>3. hidden = {} \/ (hidden = {"__newindex"} /\ StoresInOwnMetatable(t))
  BY <1>1 DEF SetInTable, StoresInOwnMetatable
<1>4. /\ IInv' /\ StaysTrue
      /\ Overlooked' = (Overlooked \ {t}) \cup (IF t \in Tables /\ hidden # {} THEN {t} ELSE {})
  BY <1>2, <1>3, FlagsAfterKeep
<1>5. t \in Tables
  BY <1>1 DEF SetInTable
<1>. QED
  BY <1>1, <1>4, <1>5

\* The other steps that leave the tables alone.
LEMMA OthersRead ==
  ASSUME TypeOK, SetInOther \/ LoopError \/ Return \/ UNCHANGED vars
  PROVE  Reads
<1>1. UNCHANGED <<content, flags>>
  BY DEF SetInOther, LoopError, Return, vars
<1>2. AccessOK' /\ UNCHANGED metatable
  <2>1. CASE SetInOther
    <3>1. /\ access # NoAccess /\ AccessOK /\ t0 \in Values
          /\ "__newindex" \in FastEvents
      BY <2>1 DEF SetInOther, Running, TypeOK, AccessOK, t0, FastEvents
    <3>2. GetTMByObj(t0, "__newindex") \in Values
      BY <3>1, MethodsAreValues
    <3>. QED
      BY <2>1, <3>1, <3>2, TryKeepsAccess DEF SetInOther
  <2>2. CASE LoopError
    BY <2>2, EndKeepsAccess DEF LoopError
  <2>3. CASE Return \/ UNCHANGED vars
    BY <2>3 DEF Return, vars, TypeOK, AccessOK
  <2>. QED
    BY <2>1, <2>2, <2>3
<1>. QED
  BY <1>1, <1>2, FlagsUnchanged DEF Reads, TypeOK

LEMMA CompareReads ==
  ASSUME TypeOK, Compare
  PROVE  Reads
<1>1. PICK a \in Operands, b \in Operands : EqualRaw(a, b) \/ EqualTables(a, b)
  BY DEF Compare
<1>2. UNCHANGED <<content, metatable, access>> /\ AccessOK'
  BY <1>1 DEF EqualRaw, EqualTables, Compared, TypeOK, AccessOK
<1>3. CASE EqualRaw(a, b)
  BY <1>2, <1>3, FlagsUnchanged DEF EqualRaw, Reads, TypeOK
<1>4. CASE EqualTables(a, b)
  <2> DEFINE fl == Remembered(flags, metatable[a], "__eq")
  <2>1. "__eq" \in FastEvents
    BY DEF FastEvents
  <2>2. flags' \in {fl, Remembered(fl, metatable[b], "__eq")}
    BY <1>4 DEF EqualTables
  <2>. QED
    BY <1>2, <2>1, <2>2, AskingReads
<1>. QED
  BY <1>1, <1>3, <1>4

LEMMA SetMetaTableKeeps ==
  ASSUME IInv, SetMetaTable
  PROVE  IInv' /\ StaysTrue /\ Overlooked' = Overlooked
<1>1. PICK v \in Operands, mt \in Tables \cup {NoTable} :
        metatable' = [metatable EXCEPT ![Owner(v)] = mt]
  BY DEF SetMetaTable
<1>2. UNCHANGED <<content, flags, access>>
  BY DEF SetMetaTable
<1>3. metatable' \in [Tables \cup Types -> Tables \cup {NoTable}]
  BY <1>1 DEF IInv, TypeOK
<1>4. TypeOK'
  BY <1>2, <1>3 DEF IInv, TypeOK, AccessOK
<1>5. \A s \in Tables, e \in FastEvents : FalseFlag(s, e)' <=> FalseFlag(s, e)
  BY <1>2 DEF FalseFlag
<1>6. "__newindex" \in FastEvents
  BY DEF FastEvents
<1>. QED
  BY <1>4, <1>5, <1>6 DEF IInv, OnlyStoresHidden, StaysTrue, Overlooked

LEMMA RawSetKeeps ==
  ASSUME IInv, NEW CONSTANT t \in Tables, NEW CONSTANT key \in Keys, NEW CONSTANT x \in Values,
         content' = [content EXCEPT ![t][key] = x], flags' = Forget(flags, t),
         UNCHANGED <<metatable, access>>
  PROVE  IInv' /\ StaysTrue /\ Overlooked' = Overlooked \ {t}
<1>1. content' \in [Tables -> [Keys -> Values]] /\ \A s \in Tables \ {t} : content'[s] = content[s]
  BY DEF IInv, TypeOK
<1>2. /\ flags' \in [Tables -> SUBSET FastEvents] /\ flags'[t] = {}
      /\ \A s \in Tables \ {t} : flags'[s] = flags[s]
  BY ForgetIsTrue DEF IInv
<1>3. TypeOK'
  BY <1>1, <1>2 DEF IInv, TypeOK, AccessOK
<1>4. FlagsAfter(t, {})
  BY <1>1, <1>2 DEF FlagsAfter, FalseFlag
<1>5. Overlooked' = (Overlooked \ {t}) \cup (IF t \in Tables /\ {} # {} THEN {t} ELSE {})
      /\ IInv' /\ StaysTrue
  BY <1>3, <1>4, FlagsAfterKeep
<1>. QED
  BY <1>5

LEMMA RawSetStores ==
  ASSUME RawSet
  PROVE  \E t \in Tables, key \in Keys : \E x \in Fields[key] :
           /\ content' = [content EXCEPT ![t][key] = x] /\ flags' = Forget(flags, t)
           /\ UNCHANGED <<metatable, access, outcome>>
BY DEF RawSet
-----------------------------------------------------------------------------
LEMMA NextIInv == IInv /\ [Next]_vars => IInv' /\ StaysTrue
<1>. SUFFICES ASSUME IInv, [Next]_vars PROVE IInv' /\ StaysTrue
  OBVIOUS
<1>1. CASE BeginGet \/ BeginSet
  BY <1>1, BeginReads, ReadsKeep DEF IInv
<1>2. CASE GetFromTable \/ GetFromOther
  BY <1>2, GetReads, ReadsKeep DEF IInv
<1>3. CASE SetInTable
  BY <1>3, SetInTableKeeps
<1>4. CASE SetInOther \/ LoopError \/ Return \/ UNCHANGED vars
  BY <1>4, OthersRead, ReadsKeep DEF IInv
<1>5. CASE Compare
  BY <1>5, CompareReads, ReadsKeep DEF IInv
<1>6. CASE SetMetaTable
  BY <1>6, SetMetaTableKeeps
<1>7. CASE RawSet
  <2>1. PICK t \in Tables, key \in Keys : \E x \in Fields[key] :
          /\ content' = [content EXCEPT ![t][key] = x] /\ flags' = Forget(flags, t)
          /\ UNCHANGED <<metatable, access>>
    BY <1>7, RawSetStores
  <2>2. PICK x \in Fields[key] :
          /\ content' = [content EXCEPT ![t][key] = x] /\ flags' = Forget(flags, t)
          /\ UNCHANGED <<metatable, access>>
    BY <2>1
  <2>3. x \in Values
    BY KeyAssumption
  <2>. QED
    BY <2>2, <2>3, RawSetKeeps
<1>. QED
  BY <1>1, <1>2, <1>3, <1>4, <1>5, <1>6, <1>7 DEF Next

\* A flag means that the table lacks the method (ltable.go:52), and stays true
\* whatever is stored, through whatever chain of metatables, unless __newindex
\* is stored in a table that is its own metatable.
THEOREM FlagsAreTrue == Spec => FlagsStayTrue
<1>1. IInv /\ [Next]_vars => IInv' /\ [StaysTrue]_vars
  BY NextIInv
<1>2. Init => IInv
  BY InitIInv
<1>. QED
  BY <1>1, <1>2, PTL DEF Spec, FlagsStayTrue, StaysTrue

NoOwnMetatable == \A t \in Tables : metatable[t] # t

\* Where no table is ever its own metatable, no flag is ever false.
THEOREM FlagsAreTrueOfOthers == Spec /\ []NoOwnMetatable => []FlagsMeanAbsent
<1>1. Init => IInv /\ FlagsMeanAbsent
  BY InitIInv
<1>2. IInv /\ FlagsMeanAbsent /\ NoOwnMetatable /\ [Next]_vars => IInv' /\ FlagsMeanAbsent'
  <2>1. FlagsMeanAbsent /\ NoOwnMetatable /\ StaysTrue => FlagsMeanAbsent'
    BY DEF FlagsMeanAbsent, NoOwnMetatable, StaysTrue, StoresInOwnMetatable
  <2>. QED
    BY <2>1, NextIInv
<1>. QED
  BY <1>1, <1>2, PTL DEF Spec
-----------------------------------------------------------------------------
(* Chains of metatables *)

LEMMA Induct ==
  ASSUME NEW E \in SUBSET Nat, 0 \in E, \A n \in E : n + 1 \in E
  PROVE  E = Nat
<1>. SUFFICES ASSUME Nat \ E # {} PROVE FALSE
  OBVIOUS
<1>1. PICK m \in Nat \ E : \A k \in Nat \ E : ~(<<k, m>> \in OpToRel(<, Nat))
  BY NatLessThanWellFounded, WFMin
<1>2. \A k \in Nat \ E : ~(k < m)
  BY <1>1 DEF OpToRel
<1>3. m - 1 \in Nat /\ m - 1 \in E
  BY <1>2
<1>4. m - 1 + 1 \in E
  BY <1>3
<1>. QED
  BY <1>4

\* What each value comes to within n links, if h are the handlers and the chain
\* ends at the values of ends; r says it for one link less.
Row(h, ends, r, n) ==
  [v \in Values |-> IF n = 0 THEN NoTable ELSE IF v \in ends THEN v ELSE r[n - 1][h[v]]]

Rows(h, ends, r, N) == [n \in 0 .. N |-> Row(h, ends, r, n)]

LEMMA RowsExist ==
  ASSUME NEW h, NEW ends, NEW N \in Nat
  PROVE  \E r : r = Rows(h, ends, r, N)
<1>. DEFINE E == {n \in Nat : \E r : r = Rows(h, ends, r, n)}
<1>1. 0 \in E
  <2>. DEFINE r == [n \in 0 .. 0 |-> [v \in Values |-> NoTable]]
  <2>1. \A n \in 0 .. 0 : Row(h, ends, r, n) = r[n]
    BY DEF Row
  <2>2. r = [n \in 0 .. 0 |-> r[n]]
    OBVIOUS
  <2>. HIDE DEF r
  <2>3. r = Rows(h, ends, r, 0)
    BY <2>1, <2>2 DEF Rows
  <2>. QED
    BY <2>3
<1>2. ASSUME NEW n \in E PROVE n + 1 \in E
  <2>1. PICK r : r = Rows(h, ends, r, n)
    OBVIOUS
  <2>. DEFINE s == [m \in 0 .. n + 1 |-> IF m = n + 1 THEN Row(h, ends, r, n + 1) ELSE r[m]]
  <2>0. \A m \in 0 .. n : m \in 0 .. n + 1 /\ m # n + 1
    OBVIOUS
  <2>a. n + 1 \in 0 .. n + 1 /\ \A m \in 0 .. n + 1 : m = n + 1 \/ m \in 0 .. n
    OBVIOUS
  <2>b. \A m \in 0 .. n : r[m] = Row(h, ends, r, m)
    BY <2>1 DEF Rows
  <2>2. /\ \A m \in 0 .. n : s[m] = r[m]
        /\ s[n + 1] = Row(h, ends, r, n + 1)
        /\ s = [m \in 0 .. n + 1 |-> s[m]]
    BY <2>0, <2>a
  <2>. HIDE DEF s
  <2>3. ASSUME NEW m \in 0 .. n + 1 PROVE Row(h, ends, s, m) = Row(h, ends, r, m)
    <3>1. CASE m = 0
      BY <3>1 DEF Row
    <3>2. CASE m # 0
      <4>1. m - 1 \in 0 .. n
        BY <3>2
      <4>2. s[m - 1] = r[m - 1]
        BY <2>2, <4>1
      <4>. QED
        BY <4>2 DEF Row
    <3>. QED
      BY <3>1, <3>2
  <2>4. \A m \in 0 .. n + 1 : s[m] = Row(h, ends, s, m)
    BY <2>2, <2>3, <2>a, <2>b
  <2>5. s = Rows(h, ends, s, n + 1)
    BY <2>2, <2>4 DEF Rows
  <2>. QED
    BY <2>5
<1>. HIDE DEF E
<1>3. E = Nat
  BY <1>1, <1>2, Induct DEF E
<1>. QED
  BY <1>3 DEF E

\* The chain that LuaMetatables follows in one step, link by link.
LEMMA WithinIs ==
  ASSUME NEW key, NEW event, NEW O
  PROVE  LET W == Metatables!Within(key, event, O)
         IN /\ \A v \in Values : W[0][v] = NoTable
            /\ \A n \in 1 .. MAXTAGLOOP : \A v \in Values :
                 LET h == Metatables!Handler(v, event, O)
                 IN W[n][v] = IF Metatables!Decides(v, key, h) THEN v ELSE W[n - 1][h]
<1>. DEFINE W == Metatables!Within(key, event, O)
            h == [v \in Values |-> Metatables!Handler(v, event, O)]
            ends == {v \in Values : Metatables!Decides(v, key, Metatables!Handler(v, event, O))}
            Body(r) ==
              [n \in 0 .. MAXTAGLOOP |->
                 [v \in Values |->
                    IF n = 0 THEN NoTable
                    ELSE IF Metatables!Decides(v, key, Metatables!Handler(v, event, O)) THEN v
                    ELSE r[n - 1][Metatables!Handler(v, event, O)]]]
<1>2. ASSUME NEW r PROVE Body(r) = Rows(h, ends, r, MAXTAGLOOP)
  BY DEF Rows, Row
<1>3. W = CHOOSE r : r = Body(r)
  BY DEF Metatables!Within, Metatables!Values, Values
<1>. HIDE DEF W, h, ends, Body
<1>4. \E r : r = Body(r)
  BY <1>2, RowsExist, BoundAssumption
<1>5. W = Body(W)
  BY <1>3, <1>4
<1>c. \A n \in 0 .. MAXTAGLOOP : W[n] = Row(h, ends, W, n)
  BY <1>2, <1>5 DEF Rows
<1>6. \A n \in 0 .. MAXTAGLOOP : \A v \in Values :
        W[n][v] = IF n = 0 THEN NoTable ELSE IF v \in ends THEN v ELSE W[n - 1][h[v]]
  <2>. SUFFICES ASSUME NEW n \in 0 .. MAXTAGLOOP, NEW v \in Values
                PROVE  W[n][v] = IF n = 0 THEN NoTable ELSE IF v \in ends THEN v ELSE W[n - 1][h[v]]
    OBVIOUS
  <2>1. W[n] = Row(h, ends, W, n)
    BY <1>c
  <2>2. Row(h, ends, W, n)[v] = IF n = 0 THEN NoTable ELSE IF v \in ends THEN v ELSE W[n - 1][h[v]]
    BY DEF Row
  <2>. QED
    BY <2>1, <2>2
<1>7. \A v \in Values : h[v] = Metatables!Handler(v, event, O)
  BY DEF h
<1>8. \A v \in Values : v \in ends <=> Metatables!Decides(v, key, Metatables!Handler(v, event, O))
  BY DEF ends
<1>9. \A v \in Values : W[0][v] = NoTable
  BY <1>6, BoundAssumption
<1>a. \A n \in 1 .. MAXTAGLOOP : n \in 0 .. MAXTAGLOOP /\ n # 0
  BY BoundAssumption
<1>b. ASSUME NEW n \in 1 .. MAXTAGLOOP, NEW v \in Values
      PROVE  W[n][v] = IF v \in ends THEN v ELSE W[n - 1][h[v]]
  BY <1>6, <1>a
<1>. QED
  BY <1>7, <1>8, <1>9, <1>b DEF W
-----------------------------------------------------------------------------
(* LuaMeta implements LuaMetatables *)

EventOf(of) == IF of[1] = "get" THEN "__index" ELSE "__newindex"

\* The tables whose methods an access misses.
Missed == IF access.of[1] = "set" THEN Overlooked ELSE {}

\* An access in progress is on its chain: what is left of it comes to what the
\* whole comes to, also when less is missed (a store lets its tables be noticed).
OnChain ==
  access # NoAccess =>
    LET event == EventOf(access.of)
    IN /\ access.loop <= MAXTAGLOOP
       /\ \A O \in SUBSET Missed :
            Metatables!Within(access.of[3], event, O)[MAXTAGLOOP - access.loop][access.t]
              = Metatables!Last(access.of[2], access.of[3], event, O)

StoresField == access # NoAccess /\ access.of[1] = "set" => access.of[4] \in Fields[access.of[3]]

RInv == IInv /\ OnChain /\ StoresField

LEMMA WithinStays ==
  ASSUME UNCHANGED <<content, metatable>>, NEW CONSTANT key, NEW CONSTANT event, NEW CONSTANT O
  PROVE  /\ Metatables!Within(key, event, O)' = Metatables!Within(key, event, O)
         /\ \A v : Metatables!Last(v, key, event, O)' = Metatables!Last(v, key, event, O)
BY DEF Metatables!Last, Metatables!Within, Metatables!Handler, Metatables!Decides, Metatables!Raw

LEMMA HandlerIs == \A v, event : Metatables!Handler(v, event, {}) = GetTMByObj(v, event)
BY DEF Metatables!Handler, GetTMByObj, Metatables!Owner, Owner

\* What is asked without flags, and what a handler that is found owes to them.
LEMMA HandlerStays ==
  ASSUME NEW P, NEW O \in SUBSET P, NEW v, NEW event
  PROVE  /\ v \notin Tables => Metatables!Handler(v, event, P) = GetTMByObj(v, event)
         /\ v \notin Tables \/ Metatables!Handler(v, event, P) # Nil
              => Metatables!Handler(v, event, O) = Metatables!Handler(v, event, P)
BY DEF Metatables!Handler, GetTMByObj, Metatables!Owner, Owner

\* The flags only save the search, but for stores.
LEMMA FastTMIsExact ==
  ASSUME IInv, NEW t \in Tables, NEW event \in FastEvents \ {"__newindex"}
  PROVE  FastTM(flags, metatable[t], event) = GetTMByObj(t, event)
<1>1. metatable[t] \in Tables \cup {NoTable}
  BY DEF IInv, TypeOK
<1>. QED
  BY <1>1 DEF IInv, OnlyStoresHidden, FalseFlag, FastTM, GetTMByObj, Owner

\* What a store finds in the metatable, its own flags being reset.
LEMMA FastTMOfStore ==
  ASSUME IInv, NEW t \in Tables
  PROVE  FastTM(Forget(flags, t), metatable[t], "__newindex")
           = Metatables!Handler(t, "__newindex", Overlooked)
<1>1. PICK mt \in Tables \cup {NoTable} : mt = metatable[t]
  BY DEF IInv, TypeOK
<1>2. /\ Forget(flags, t)[t] = {}
      /\ \A s \in Tables \ {t} : Forget(flags, t)[s] = flags[s]
  BY ForgetIsTrue DEF IInv
<1>3. Metatables!Handler(t, "__newindex", Overlooked) =
        IF mt = NoTable \/ mt \in Overlooked \ {t} THEN Nil ELSE content[mt]["__newindex"]
  BY <1>1 DEF Metatables!Handler, Metatables!Owner
<1>4. FastTM(Forget(flags, t), mt, "__newindex") =
        IF mt = NoTable \/ "__newindex" \in Forget(flags, t)[mt] THEN Nil
        ELSE content[mt]["__newindex"]
  BY DEF FastTM
<1>5. mt \in Overlooked <=> /\ mt \in Tables /\ "__newindex" \in flags[mt]
                            /\ content[mt]["__newindex"] # Nil
  BY DEF Overlooked, FalseFlag
<1>. QED
  BY <1>1, <1>2, <1>3, <1>4, <1>5

LEMMA AccessIs ==
  ASSUME IInv, access # NoAccess
  PROVE  /\ access.t \in Values /\ access.loop \in Nat
         /\ \E v \in Operands, key \in Keys :
              \/ access.of = <<"get", v, key>>
              \/ \E x \in Values : access.of = <<"set", v, key, x>>
         /\ EventOf(access.of) \in FastEvents
<1>1. AccessOK
  BY DEF IInv, TypeOK
<1>2. access.of \in Gets \cup Sets
  BY <1>1 DEF AccessOK
<1>3. access.t \in Values /\ access.loop \in Nat
  BY <1>1 DEF AccessOK
<1>. QED
  BY <1>2, <1>3 DEF Gets, Sets, EventOf, FastEvents

\* Where the loop ends is where the chain ends.
LEMMA ChainEnds ==
  ASSUME RInv, access # NoAccess
  PROVE  LET key == access.of[3]
             event == EventOf(access.of)
             last == Metatables!Last(access.of[2], key, event, Missed)
         IN /\ Loops /\ Metatables!Decides(access.t, key, Metatables!Handler(access.t, event, Missed))
                 => last = access.t
            /\ ~Loops => last = NoTable
<1>. DEFINE key == access.of[3]  event == EventOf(access.of)
            n == MAXTAGLOOP - access.loop  v == access.t
            last == Metatables!Last(access.of[2], key, event, Missed)
            W == Metatables!Within(key, event, Missed)
<1>1. v \in Values /\ access.loop \in Nat
  BY AccessIs DEF RInv
<1>2. access.loop <= MAXTAGLOOP /\ W[n][v] = last
  <2>1. Missed \in SUBSET Missed
    OBVIOUS
  <2>. QED
    BY <2>1 DEF RInv, OnChain
<1>3. (Loops => n \in 1 .. MAXTAGLOOP) /\ (~Loops => n = 0)
  BY <1>1, <1>2, BoundAssumption DEF Loops
<1>4. W[0][v] = NoTable
  BY <1>1, WithinIs
<1>5. ASSUME n \in 1 .. MAXTAGLOOP, Metatables!Decides(v, key, Metatables!Handler(v, event, Missed))
      PROVE  W[n][v] = v
  <2>. HIDE DEF n, v, key, event
  <2>. QED
    BY <1>1, <1>5, WithinIs DEF W
<1>. HIDE DEF W, n, last
<1>. QED
  BY <1>2, <1>3, <1>4, <1>5 DEF last

\* An iteration that goes on follows one link.
LEMMA ChainGoesOn ==
  ASSUME RInv, access # NoAccess, Loops, NEW CONSTANT tm,
         \A O \in SUBSET Missed' : Metatables!Handler(access.t, EventOf(access.of), O) = tm,
         Missed' \subseteq Missed,
         ~Metatables!Decides(access.t, access.of[3], tm),
         access' = [t |-> tm, of |-> access.of, loop |-> access.loop + 1],
         UNCHANGED <<content, metatable>>
  PROVE  OnChain' /\ StoresField'
<1>1. access'.of = access.of /\ access'.t = tm /\ access'.loop = access.loop + 1
  OBVIOUS
<1>2. access.t \in Values /\ access.loop \in Nat
  BY AccessIs DEF RInv
<1>3. PICK key, event, v, n, loop, from :
        /\ key = access.of[3] /\ event = EventOf(access.of) /\ v = access.t
        /\ loop = access.loop /\ n = MAXTAGLOOP - loop /\ from = access.of[2]
  OBVIOUS
<1>4. n \in 1 .. MAXTAGLOOP /\ n - 1 \in 0 .. MAXTAGLOOP /\ MAXTAGLOOP - (loop + 1) = n - 1
      /\ loop + 1 <= MAXTAGLOOP
  BY <1>2, <1>3, BoundAssumption DEF Loops
<1>a. access'.of[3] = key /\ EventOf(access'.of) = event /\ access'.of[2] = from
      /\ access'.t = tm /\ access'.loop = loop + 1
  BY <1>1, <1>3
<1>b. ASSUME NEW CONSTANT O \in SUBSET Missed'
      PROVE  Metatables!Within(key, event, O)'[n - 1][tm] = Metatables!Last(from, key, event, O)'
  <2>. DEFINE W == Metatables!Within(key, event, O)
              last == Metatables!Last(from, key, event, O)
  <2>5. W[n][v] = last
    BY <1>3 DEF RInv, OnChain
  <2>6. Metatables!Handler(v, event, O) = tm /\ ~Metatables!Decides(v, key, tm)
    BY <1>3
  <2>7. W[n][v] = W[n - 1][tm]
    BY <1>2, <1>3, <1>4, <2>6, WithinIs
  <2>8. W' = W /\ last' = last
    BY WithinStays
  <2>. HIDE DEF W, last
  <2>9. W'[n - 1][tm] = last'
    BY <2>5, <2>7, <2>8
  <2>. QED
    BY <2>9 DEF W, last
<1>c. OnChain'
  BY <1>4, <1>a, <1>b DEF OnChain, EventOf
<1>d. StoresField'
  BY <1>1 DEF RInv, StoresField
<1>. QED
  BY <1>c, <1>d

Implements == [Metatables!Next]_Metatables!vars

LEMMA EndLeavesChain ==
  ASSUME access' = NoAccess
  PROVE  OnChain' /\ StoresField'
BY DEF OnChain, StoresField, NoAccess

\* What a reading access ends with is what LuaMetatables gives for the end of its chain.
LEMMA GetAtLast ==
  ASSUME NEW v \in Operands, NEW key \in Keys, NEW w, NEW h,
         w = Metatables!Last(v, key, "__index", {}), h = GetTMByObj(w, "__index"),
         \/ /\ w = NoTable
            /\ outcome' = Error(<<"get", v, key>>)
         \/ /\ w # NoTable /\ (Metatables!Raw(w, key) # Nil \/ h = Nil)
            /\ outcome' = Value(<<"get", v, key>>, Metatables!Raw(w, key))
         \/ /\ w # NoTable /\ ~(Metatables!Raw(w, key) # Nil \/ h = Nil)
            /\ outcome' = Calls(<<"get", v, key>>, h, <<w, key>>),
         UNCHANGED <<content, metatable, Overlooked>>
  PROVE  Implements
<1>1. outcome'.of = <<"get", v, key>>
  BY DEF Error, Value, Calls
<1>2. Metatables!Handler(w, "__index", {}) = h
  BY HandlerIs
<1>3. Metatables!Get(v, key)
  BY <1>1, <1>2 DEF Metatables!Get, Metatables!Reports, Metatables!Error, Metatables!Value,
     Metatables!Calls, Error, Value, Calls
<1>. QED
  BY <1>3 DEF Implements, Metatables!Next

LEMMA GetImplements ==
  ASSUME RInv, GetFromTable \/ GetFromOther
  PROVE  OnChain' /\ StoresField' /\ Implements
<1>1. /\ IInv /\ access # NoAccess /\ access.of[1] = "get" /\ Loops /\ access.t \in Values
      /\ UNCHANGED <<content, metatable>>
  BY AccessIs DEF RInv, GetFromTable, GetFromOther, Running, Try, End
<1>0. UNCHANGED Overlooked
  BY <1>1, GetReads, ReadsKeep DEF IInv
<1>2. PICK v \in Operands, key \in Keys : access.of = <<"get", v, key>>
  BY <1>1, AccessIs
<1>3. EventOf(access.of) = "__index" /\ "__index" \in FastEvents \ {"__newindex"} /\ Missed = {}
  BY <1>1, <1>2 DEF EventOf, FastEvents, Missed
<1>4. PICK w, h : w = access.t /\ h = GetTMByObj(w, "__index")
  OBVIOUS
<1>5. Metatables!Decides(w, key, h) => w = Metatables!Last(v, key, "__index", {})
  BY <1>1, <1>2, <1>3, <1>4, ChainEnds, HandlerIs
<1>6. t0 = w /\ key0 = key
  BY <1>2, <1>4 DEF t0, key0
<1>7. Nil \notin Functions /\ w # NoTable
  BY <1>1, <1>4, ValueAssumption
<1>8. \/ /\ w \in Tables /\ (content[w][key] # Nil \/ h = Nil)
         /\ End(Value(access.of, content[w][key]))
      \/ /\ ~(w \in Tables /\ (content[w][key] # Nil \/ h = Nil))
         /\ Try(h, <<w, key>>)
  <2>1. CASE GetFromTable
    <3>1. w \in Tables /\ FastTM(flags, metatable[w], "__index") = h
      BY <1>1, <1>3, <1>4, <1>6, <2>1, FastTMIsExact DEF GetFromTable
    <3>. QED
      BY <1>6, <2>1, <3>1 DEF GetFromTable
  <2>2. CASE GetFromOther
    BY <1>4, <1>6, <2>2 DEF GetFromOther
  <2>. QED
    BY <2>1, <2>2
<1>9. CASE /\ w \in Tables /\ (content[w][key] # Nil \/ h = Nil)
           /\ End(Value(access.of, content[w][key]))
  <2>1. Metatables!Decides(w, key, h) /\ Metatables!Raw(w, key) = content[w][key]
    BY <1>9 DEF Metatables!Decides, Metatables!Raw
  <2>2. outcome' = Value(<<"get", v, key>>, Metatables!Raw(w, key)) /\ access' = NoAccess
    BY <1>2, <1>9, <2>1 DEF End
  <2>. QED
    BY <1>1, <1>4, <1>5, <1>7, <1>9, <2>1, <2>2, <1>0, GetAtLast, EndLeavesChain
<1>a. CASE ~(w \in Tables /\ (content[w][key] # Nil \/ h = Nil)) /\ Try(h, <<w, key>>)
  <2>1. CASE h \in Functions
    <3>1. Metatables!Decides(w, key, h) /\ ~(Metatables!Raw(w, key) # Nil \/ h = Nil)
      BY <1>7, <1>a, <2>1 DEF Metatables!Decides, Metatables!Raw
    <3>2. outcome' = Calls(<<"get", v, key>>, h, <<w, key>>) /\ access' = NoAccess
      BY <1>2, <1>a, <2>1 DEF Try, End
    <3>. QED
      BY <1>1, <1>4, <1>5, <1>7, <2>1, <3>1, <3>2, <1>0, GetAtLast, EndLeavesChain
  <2>2. CASE h \notin Functions
    <3>1. ~Metatables!Decides(w, key, h)
      BY <1>a, <2>2 DEF Metatables!Decides, Metatables!Raw
    <3>2. access' = [t |-> h, of |-> access.of, loop |-> access.loop + 1] /\ UNCHANGED outcome
      BY <1>a, <2>2 DEF Try
    <3>3. OnChain' /\ StoresField'
      <4>1. Missed' = {}
        BY <1>1, <3>2 DEF Missed
      <4>2. \A O \in SUBSET {} : Metatables!Handler(access.t, EventOf(access.of), O) = h
        <5>1. SUBSET {} = {{}}
          OBVIOUS
        <5>. QED
          BY <1>3, <1>4, <5>1, HandlerIs
      <4>. QED
        BY <1>1, <1>2, <1>3, <1>4, <3>1, <3>2, <4>1, <4>2, ChainGoesOn
    <3>. QED
      BY <1>0, <1>1, <3>2, <3>3 DEF Implements, Metatables!vars
  <2>. QED
    BY <2>1, <2>2
<1>. QED
  BY <1>8, <1>9, <1>a

\* The same for a storing access.
LEMMA SetAtLast ==
  ASSUME NEW v \in Operands, NEW key \in Keys, NEW x \in Fields[key], NEW w, NEW h,
         w = Metatables!Last(v, key, "__newindex", Overlooked),
         h = Metatables!Handler(w, "__newindex", Overlooked),
         \/ /\ w = NoTable
            /\ outcome' = Error(<<"set", v, key, x>>) /\ UNCHANGED <<content, Overlooked>>
         \/ /\ w \in Tables /\ (Metatables!Raw(w, key) # Nil \/ h = Nil)
            /\ outcome' = Value(<<"set", v, key, x>>, Nil)
            /\ content' = [content EXCEPT ![w][key] = x]
            /\ Overlooked' = (Overlooked \ {w}) \cup (IF Metatables!Hides(w, key, x) THEN {w} ELSE {})
         \/ /\ w # NoTable /\ ~(w \in Tables /\ (Metatables!Raw(w, key) # Nil \/ h = Nil))
            /\ outcome' = Calls(<<"set", v, key, x>>, h, <<w, key, x>>) /\ UNCHANGED content
            /\ Overlooked' = Overlooked \ {w},
         UNCHANGED metatable
  PROVE  Implements
<1>1. outcome'.of = <<"set", v, key, x>>
  BY DEF Error, Value, Calls
<1>2. PICK stores : stores = (w \in Tables /\ (Metatables!Raw(w, key) # Nil \/ h = Nil))
  OBVIOUS
<1>3. NoTable \notin Tables /\ Overlooked \subseteq Tables
  BY ValueAssumption DEF Values, Overlooked
<1>4. \/ w = NoTable /\ outcome' = Metatables!Error(<<"set", v, key, x>>)
      \/ stores /\ outcome' = Metatables!Value(<<"set", v, key, x>>, Nil)
      \/ w # NoTable /\ ~stores /\ outcome' = Metatables!Calls(<<"set", v, key, x>>, h, <<w, key, x>>)
  BY <1>2 DEF Metatables!Error, Metatables!Value, Metatables!Calls, Error, Value, Calls
<1>5. content' = IF stores THEN [content EXCEPT ![w][key] = x] ELSE content
  BY <1>2, <1>3
<1>6. Overlooked' = (Overlooked \ {w}) \cup
                      (IF stores /\ Metatables!Hides(w, key, x) THEN {w} ELSE {})
  <2>1. CASE stores
    BY <1>2, <1>3, <2>1
  <2>2. CASE ~stores
    <3>1. Overlooked' = Overlooked \ {w}
      BY <1>2, <1>3, <2>2
    <3>. QED
      BY <2>2, <3>1
  <2>. QED
    BY <1>2, <2>1, <2>2
<1>7. Metatables!Set(v, key, x)
  BY <1>1, <1>2, <1>4, <1>5, <1>6 DEF Metatables!Set, Metatables!Reports
<1>. QED
  BY <1>7 DEF Implements, Metatables!Next

LEMMA SetImplements ==
  ASSUME RInv, SetInTable \/ SetInOther
  PROVE  OnChain' /\ StoresField' /\ Implements
<1>1. /\ IInv /\ access # NoAccess /\ access.of[1] = "set" /\ Loops /\ access.t \in Values
      /\ UNCHANGED metatable
  BY AccessIs DEF RInv, SetInTable, SetInOther, Running, Try, End
<1>2. PICK v \in Operands, key \in Keys, x \in Values : access.of = <<"set", v, key, x>>
  BY <1>1, AccessIs
<1>3. EventOf(access.of) = "__newindex" /\ x \in Fields[key] /\ Missed = Overlooked
  BY <1>1, <1>2 DEF EventOf, RInv, StoresField, Missed
<1>4. PICK w, h : w = access.t /\ h = Metatables!Handler(w, "__newindex", Overlooked)
  OBVIOUS
<1>5. Metatables!Decides(w, key, h) => w = Metatables!Last(v, key, "__newindex", Overlooked)
  BY <1>1, <1>2, <1>3, <1>4, ChainEnds
<1>6. t0 = w /\ key0 = key /\ access.of[4] = x
  BY <1>2, <1>4 DEF t0, key0
<1>7. Nil \notin Functions /\ w # NoTable /\ w \in Values
  BY <1>1, <1>4, ValueAssumption
<1>8. \/ /\ w \in Tables /\ (content[w][key] # Nil \/ h = Nil)
         /\ content' = [content EXCEPT ![w][key] = x]
         /\ Overlooked' = (Overlooked \ {w}) \cup (IF Metatables!Hides(w, key, x) THEN {w} ELSE {})
         /\ End(Value(access.of, Nil))
      \/ /\ ~(w \in Tables /\ (content[w][key] # Nil \/ h = Nil))
         /\ Try(h, <<w, key, x>>) /\ UNCHANGED content
         /\ Overlooked' = Overlooked \ {w}
  <2>1. CASE SetInTable
    <3>1. w \in Tables
      BY <1>6, <2>1 DEF SetInTable
    <3>2. FastTM(Forget(flags, w), metatable[w], "__newindex") = h
      BY <1>1, <1>4, <3>1, FastTMOfStore
    <3>3. Overlooked' = (Overlooked \ {w}) \cup
            (IF /\ content[w][key] = Nil /\ content'[w][key] # Nil
                /\ key = "__newindex" /\ metatable[w] = w
             THEN {w} ELSE {})
      BY <1>1, <1>6, <2>1, SetInTableKeeps
    <3>4. \/ /\ content[w][key] # Nil \/ h = Nil
             /\ content' = [content EXCEPT ![w][key] = x] /\ End(Value(access.of, Nil))
          \/ /\ content[w][key] = Nil /\ h # Nil
             /\ Try(h, <<w, key, x>>) /\ UNCHANGED content
      BY <1>6, <2>1, <3>2 DEF SetInTable
    <3>5. CASE content' = [content EXCEPT ![w][key] = x]
      <4>1. content'[w][key] = x
        BY <1>1, <3>1, <3>5 DEF IInv, TypeOK
      <4>2. Metatables!Hides(w, key, x) <=>
              /\ content[w][key] = Nil /\ x # Nil /\ key = "__newindex" /\ metatable[w] = w
        BY <3>1 DEF Metatables!Hides, Metatables!Raw
      <4>3. Overlooked' = (Overlooked \ {w}) \cup (IF Metatables!Hides(w, key, x) THEN {w} ELSE {})
        BY <3>3, <4>1, <4>2
      <4>4. CASE content[w][key] # Nil \/ h = Nil
        BY <3>1, <3>4, <4>3, <4>4
      <4>5. CASE content[w][key] = Nil /\ h # Nil
        <5>1. Overlooked' = Overlooked \ {w}
          BY <3>3, <3>4, <4>5
        <5>. QED
          BY <3>4, <4>5, <5>1
      <4>. QED
        BY <4>4, <4>5
    <3>6. CASE ~(content' = [content EXCEPT ![w][key] = x])
      <4>1. Overlooked' = Overlooked \ {w}
        BY <3>3, <3>4, <3>6
      <4>. QED
        BY <3>4, <3>6, <4>1
    <3>. QED
      BY <3>5, <3>6
  <2>2. CASE SetInOther
    <3>1. w \notin Tables /\ h = GetTMByObj(w, "__newindex")
      BY <1>4, <1>6, <2>2, HandlerStays DEF SetInOther
    <3>2. Overlooked' = Overlooked
      BY <1>1, <2>2, OthersRead, ReadsKeep DEF IInv
    <3>3. Overlooked \ {w} = Overlooked
      BY <3>1 DEF Overlooked
    <3>. QED
      BY <1>6, <2>2, <3>1, <3>2, <3>3 DEF SetInOther
  <2>. QED
    BY <2>1, <2>2
<1>9. CASE /\ w \in Tables /\ (content[w][key] # Nil \/ h = Nil)
           /\ content' = [content EXCEPT ![w][key] = x]
           /\ Overlooked' = (Overlooked \ {w}) \cup (IF Metatables!Hides(w, key, x) THEN {w} ELSE {})
           /\ End(Value(access.of, Nil))
  <2>1. Metatables!Decides(w, key, h) /\ Metatables!Raw(w, key) = content[w][key]
    BY <1>9 DEF Metatables!Decides, Metatables!Raw
  <2>2. outcome' = Value(<<"set", v, key, x>>, Nil) /\ access' = NoAccess
    BY <1>2, <1>9 DEF End
  <2>. QED
    BY <1>1, <1>3, <1>4, <1>5, <1>7, <1>9, <2>1, <2>2, SetAtLast, EndLeavesChain
<1>a. CASE /\ ~(w \in Tables /\ (content[w][key] # Nil \/ h = Nil))
           /\ Try(h, <<w, key, x>>) /\ UNCHANGED content
           /\ Overlooked' = Overlooked \ {w}
  <2>1. CASE h \in Functions
    <3>1. /\ Metatables!Decides(w, key, h)
          /\ ~(w \in Tables /\ (Metatables!Raw(w, key) # Nil \/ h = Nil))
      BY <1>7, <1>a, <2>1 DEF Metatables!Decides, Metatables!Raw
    <3>2. outcome' = Calls(<<"set", v, key, x>>, h, <<w, key, x>>) /\ access' = NoAccess
      BY <1>2, <1>a, <2>1 DEF Try, End
    <3>. QED
      BY <1>1, <1>3, <1>4, <1>5, <1>7, <1>a, <2>1, <3>1, <3>2, SetAtLast, EndLeavesChain
  <2>2. CASE h \notin Functions
    <3>1. ~Metatables!Decides(w, key, h)
      BY <1>a, <2>2 DEF Metatables!Decides, Metatables!Raw
    <3>2. access' = [t |-> h, of |-> access.of, loop |-> access.loop + 1] /\ UNCHANGED outcome
      BY <1>a, <2>2 DEF Try
    <3>3. Missed' = Overlooked \ {w}
      BY <1>1, <1>a, <3>2 DEF Missed
    <3>4. ASSUME NEW CONSTANT O \in SUBSET Missed'
          PROVE  Metatables!Handler(access.t, EventOf(access.of), O) = h
      <4>1. O \in SUBSET Overlooked
        BY <3>3
      <4>2. w \notin Tables \/ h # Nil
        BY <1>a
      <4>. QED
        BY <1>3, <1>4, <4>1, <4>2, HandlerStays
    <3>5. OnChain' /\ StoresField'
      BY <1>1, <1>2, <1>3, <1>4, <1>a, <3>1, <3>2, <3>3, <3>4, ChainGoesOn
    <3>6. CASE w \in Tables
      <4>1. Metatables!Noticed(w)
        BY <1>1, <1>a, <3>2 DEF Metatables!Noticed
      <4>. QED
        BY <3>5, <3>6, <4>1 DEF Implements, Metatables!Next
    <3>7. CASE w \notin Tables
      <4>1. Overlooked \ {w} = Overlooked
        BY <3>7 DEF Overlooked
      <4>. QED
        BY <1>1, <1>a, <3>2, <3>5, <4>1 DEF Implements, Metatables!vars
    <3>. QED
      BY <3>6, <3>7
  <2>. QED
    BY <2>1, <2>2
<1>. QED
  BY <1>8, <1>9, <1>a

\* Too long a chain, and one that has no end, has nothing that decides.
LEMMA LoopErrorImplements ==
  ASSUME RInv, LoopError
  PROVE  OnChain' /\ StoresField' /\ Implements
<1>1. /\ IInv /\ access # NoAccess /\ ~Loops /\ access' = NoAccess
      /\ outcome' = Error(access.of) /\ UNCHANGED <<content, metatable>>
  BY DEF RInv, LoopError, End
<1>0. UNCHANGED Overlooked
  BY <1>1, OthersRead, ReadsKeep DEF IInv
<1>2. NoTable = Metatables!Last(access.of[2], access.of[3], EventOf(access.of), Missed)
  BY <1>1, ChainEnds
<1>3. PICK v \in Operands, key \in Keys :
        \/ access.of = <<"get", v, key>>
        \/ \E x \in Values : access.of = <<"set", v, key, x>>
  BY <1>1, AccessIs
<1>4. CASE access.of = <<"get", v, key>>
  <2>1. NoTable = Metatables!Last(v, key, "__index", {})
    BY <1>2, <1>4 DEF EventOf, Missed
  <2>. QED
    BY <1>0, <1>1, <1>4, <2>1, GetAtLast, EndLeavesChain
<1>5. ASSUME NEW x \in Values, access.of = <<"set", v, key, x>>
      PROVE  OnChain' /\ StoresField' /\ Implements
  <2>1. NoTable = Metatables!Last(v, key, "__newindex", Overlooked) /\ x \in Fields[key]
    BY <1>1, <1>2, <1>5 DEF EventOf, Missed, RInv, StoresField
  <2>. QED
    BY <1>0, <1>1, <1>5, <2>1, SetAtLast, EndLeavesChain
<1>. QED
  BY <1>3, <1>4, <1>5

LEMMA BeginImplements ==
  ASSUME RInv, BeginGet \/ BeginSet
  PROVE  OnChain' /\ StoresField' /\ Implements
<1>1. PICK v, of :
        /\ v \in Operands
        /\ access' = [t |-> v, of |-> of, loop |-> 0] /\ of[2] = v
        /\ of[1] = "set" => of[4] \in Fields[of[3]]
        /\ UNCHANGED <<content, metatable, outcome>>
  <2>1. CASE BeginGet
    <3>1. PICK v \in Operands, key \in Keys : Begin(v, <<"get", v, key>>)
      BY <2>1 DEF BeginGet
    <3>. QED
      BY <3>1 DEF Begin
  <2>2. CASE BeginSet
    <3>1. PICK v \in Operands, key \in Keys : \E x \in Stored[key] : Begin(v, <<"set", v, key, x>>)
      BY <2>2 DEF BeginSet
    <3>2. PICK x \in Stored[key] : Begin(v, <<"set", v, key, x>>)
      BY <3>1
    <3>. QED
      BY <3>2, KeyAssumption DEF Begin
  <2>. QED
    BY <2>1, <2>2
<1>2. access'.of = of /\ access'.t = v /\ access'.loop = 0
  BY <1>1
<1>3. MAXTAGLOOP - 0 = MAXTAGLOOP /\ 0 <= MAXTAGLOOP
  BY BoundAssumption
<1>0. UNCHANGED Overlooked
  BY BeginReads, ReadsKeep DEF RInv, IInv
<1>4. ASSUME NEW CONSTANT O
      PROVE  Metatables!Within(of[3], EventOf(of), O)'[MAXTAGLOOP - 0][v]
               = Metatables!Last(of[2], of[3], EventOf(of), O)'
  BY <1>1, <1>3 DEF Metatables!Last
<1>5. OnChain'
  BY <1>2, <1>3, <1>4 DEF OnChain, EventOf
<1>6. StoresField'
  BY <1>1, <1>2 DEF StoresField
<1>. QED
  BY <1>0, <1>1, <1>5, <1>6 DEF Implements, Metatables!vars

LEMMA NotRunning ==
  ASSUME Idle, access' = access
  PROVE  OnChain' /\ StoresField'
BY EndLeavesChain DEF Idle

LEMMA CompareImplements ==
  ASSUME RInv, Compare
  PROVE  OnChain' /\ StoresField' /\ Implements
<1>1. PICK a \in Operands, b \in Operands : EqualRaw(a, b) \/ EqualTables(a, b)
  BY DEF Compare
<1>2. Idle /\ UNCHANGED <<content, metatable, access, Overlooked>>
  BY <1>1, CompareReads, ReadsKeep DEF EqualRaw, EqualTables, Compared, RInv, IInv
<1>. DEFINE of == <<"eq", a, b>>
<1>3. ASSUME EqualRaw(a, b) PROVE Metatables!Equal(a, b)
  <2>1. outcome' = Value(of, a = b) /\ ~({a, b} \subseteq Tables /\ a # b)
    BY <1>3 DEF EqualRaw, Compared
  <2>2. outcome'.of = of
    BY <2>1 DEF Value
  <2>. QED
    BY <1>2, <2>1, <2>2 DEF Metatables!Equal, Metatables!Reports, Metatables!Value, Value
<1>4. ASSUME EqualTables(a, b) PROVE Metatables!Equal(a, b)
  <2>. DEFINE tm1 == GetTMByObj(a, "__eq")  tm2 == GetTMByObj(b, "__eq")
              unlike == metatable[a] \notin {NoTable, metatable[b]} /\ tm1 = Nil /\ tm2 # Nil
              h == IF tm1 = tm2 THEN tm1 ELSE Nil
  <2>1. a \in Tables /\ b \in Tables /\ a # b /\ "__eq" \in FastEvents \ {"__newindex"}
    BY <1>4 DEF EqualTables, FastEvents
  <2>2. FastTM(flags, metatable[a], "__eq") = tm1 /\ FastTM(flags, metatable[b], "__eq") = tm2
    BY <2>1, FastTMIsExact DEF RInv
  <2>3. outcome' = CompTM(a, b)
    BY <1>4 DEF EqualTables, Compared
  <2>4. Metatables!Unlike(a, b) <=> unlike
    BY HandlerIs DEF Metatables!Unlike
  <2>5. Metatables!Shared(a, b, "__eq") = h
    BY HandlerIs DEF Metatables!Shared
  <2>. HIDE DEF tm1, tm2
  <2>6. \/ unlike /\ outcome' = Panic(of)
        \/ ~unlike /\ h # Nil /\ outcome' = Calls(of, h, <<a, b>>)
        \/ ~unlike /\ h = Nil /\ outcome' = Value(of, FALSE)
    BY <2>2, <2>3 DEF CompTM
  <2>. HIDE DEF unlike, h
  <2>7. outcome'.of = of
    BY <2>6 DEF Panic, Calls, Value
  <2>8. (a = b) = FALSE
    BY <2>1
  <2>9. CASE unlike
    BY <1>2, <2>1, <2>4, <2>6, <2>7, <2>9 DEF Metatables!Equal, Metatables!Reports, Metatables!Panic, Panic
  <2>a. CASE ~unlike /\ h # Nil
    BY <1>2, <2>1, <2>4, <2>5, <2>6, <2>7, <2>a DEF Metatables!Equal, Metatables!Reports, Metatables!Calls, Calls
  <2>b. CASE ~unlike /\ h = Nil
    <3>1. outcome' = Metatables!Value(of, a = b)
      BY <2>6, <2>8, <2>b DEF Metatables!Value, Value
    <3>. QED
      BY <1>2, <2>1, <2>4, <2>5, <2>7, <2>b, <3>1 DEF Metatables!Equal, Metatables!Reports
  <2>. QED
    BY <2>9, <2>a, <2>b
<1>5. OnChain' /\ StoresField'
  BY <1>2, NotRunning
<1>. QED
  BY <1>1, <1>3, <1>4, <1>5 DEF Metatables!Next, Implements

LEMMA OthersImplement ==
  ASSUME RInv, SetMetaTable \/ RawSet \/ Return \/ UNCHANGED vars
  PROVE  OnChain' /\ StoresField' /\ Implements
<1>1. CASE SetMetaTable
  <2>0. UNCHANGED Overlooked
    BY <1>1, SetMetaTableKeeps DEF RInv
  <2>1. PICK v \in Operands, mt \in Tables \cup {NoTable} :
          metatable' = [metatable EXCEPT ![Owner(v)] = mt]
    BY <1>1 DEF SetMetaTable
  <2>2. Metatables!SetMetaTable(v, mt)
    BY <1>1, <2>0, <2>1 DEF SetMetaTable, Metatables!SetMetaTable, Metatables!Owner, Owner
  <2>. QED
    BY <1>1, <2>2, NotRunning DEF SetMetaTable, Implements, Metatables!Next
<1>2. CASE RawSet
  <2>1. PICK t \in Tables, key \in Keys : \E x \in Fields[key] :
          /\ content' = [content EXCEPT ![t][key] = x] /\ flags' = Forget(flags, t)
          /\ UNCHANGED <<metatable, access, outcome>>
    BY <1>2, RawSetStores
  <2>2. PICK x \in Fields[key] :
          /\ content' = [content EXCEPT ![t][key] = x] /\ flags' = Forget(flags, t)
          /\ UNCHANGED <<metatable, access, outcome>>
    BY <2>1
  <2>3. x \in Values
    BY KeyAssumption
  <2>4. Overlooked' = Overlooked \ {t}
    BY <2>2, <2>3, RawSetKeeps DEF RInv
  <2>5. Metatables!RawSet(t, key, x)
    BY <2>2, <2>4 DEF Metatables!RawSet
  <2>. QED
    BY <1>2, <2>5, NotRunning DEF RawSet, Implements, Metatables!Next
<1>3. CASE UNCHANGED <<content, metatable, flags, access>> /\ (outcome' = NoOutcome \/ UNCHANGED outcome)
  <2>0. UNCHANGED Overlooked
    BY <1>3 DEF Overlooked, FalseFlag
  <2>1. CASE access = NoAccess
    <3>1. OnChain' /\ StoresField'
      BY <1>3, <2>1, EndLeavesChain
    <3>. QED
      BY <1>3, <2>0, <3>1 DEF Implements, Metatables!Next, Metatables!Return, Metatables!vars,
         Metatables!NoOutcome, NoOutcome
  <2>2. CASE access # NoAccess
    <3>1. PICK key, event, of : of = access.of /\ key = of[3] /\ event = EventOf(of)
      OBVIOUS
    <3>2. ASSUME NEW CONSTANT O
          PROVE  /\ Metatables!Within(key, event, O)' = Metatables!Within(key, event, O)
                 /\ Metatables!Last(of[2], key, event, O)' = Metatables!Last(of[2], key, event, O)
      BY <1>3, WithinStays
    <3>0. Missed' = Missed
      BY <1>3, <2>0 DEF Missed
    <3>3. OnChain'
      BY <1>3, <3>0, <3>1, <3>2 DEF RInv, OnChain, EventOf
    <3>4. StoresField'
      BY <1>3 DEF RInv, StoresField
    <3>. QED
      BY <1>3, <2>0, <3>3, <3>4 DEF Implements, Metatables!Next, Metatables!Return, Metatables!vars,
         Metatables!NoOutcome, NoOutcome
  <2>. QED
    BY <2>1, <2>2
<1>. QED
  BY <1>1, <1>2, <1>3 DEF Return, vars

LEMMA InitRInv == Init => RInv /\ Metatables!Init
<1>. SUFFICES ASSUME Init PROVE RInv /\ Metatables!Init
  OBVIOUS
<1>1. IInv /\ Overlooked = {}
  BY InitIInv
<1>3. OnChain /\ StoresField
  BY DEF Init, OnChain, StoresField, NoAccess
<1>4. Metatables!Init
  BY <1>1 DEF Init, Metatables!Init, Metatables!NoOutcome, NoOutcome
<1>. QED
  BY <1>1, <1>3, <1>4 DEF RInv

LEMMA NextImplements == RInv /\ [Next]_vars => RInv' /\ Implements
<1>. SUFFICES ASSUME RInv, [Next]_vars PROVE RInv' /\ Implements
  OBVIOUS
<1>1. IInv'
  BY NextIInv DEF RInv
<1>2. OnChain' /\ StoresField' /\ Implements
  <2>1. CASE BeginGet \/ BeginSet
    BY <2>1, BeginImplements
  <2>2. CASE GetFromTable \/ GetFromOther
    BY <2>2, GetImplements
  <2>3. CASE SetInTable \/ SetInOther
    BY <2>3, SetImplements
  <2>4. CASE LoopError
    BY <2>4, LoopErrorImplements
  <2>5. CASE Compare
    BY <2>5, CompareImplements
  <2>6. CASE SetMetaTable \/ RawSet \/ Return \/ UNCHANGED vars
    BY <2>6, OthersImplement
  <2>. QED
    BY <2>1, <2>2, <2>3, <2>4, <2>5, <2>6 DEF Next
<1>. QED
  BY <1>1, <1>2 DEF RInv

\* An access or a comparison comes to what the metatables say at the moment it
\* ends (lvm.go:106, 173, 786): the loop cannot be observed, and the flags only where
\* __newindex was stored in a table that is its own metatable.
THEOREM MetaImplementsMetatables == Spec => ImplementsMetatables
<1>1. Init => RInv /\ Metatables!Init
  BY InitRInv
<1>2. RInv /\ [Next]_vars => RInv' /\ [Metatables!Next]_Metatables!vars
  BY NextImplements DEF Implements
<1>. QED
  BY <1>1, <1>2, PTL DEF Spec, ImplementsMetatables, Metatables!Spec
=============================================================================
