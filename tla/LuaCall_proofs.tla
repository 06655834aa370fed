--------------------------- MODULE LuaCall_proofs ---------------------------
(***************************************************************************)
(* Proofs about LuaCall, for every set of functions, every number of       *)
(* parameters and registers, every size of the stack and every limit.      *)
(***************************************************************************)
EXTENDS LuaCall, SequenceTheorems, FiniteSetTheorems, TLAPS

Frame == [callee : Fn \cup {Nil}, fn : Nat \ {0}, stale : BOOLEAN, base : Nat \ {0},
          top : Nat \ {0}, nres : {MULTRET, 0, 1}, live : Nat]

Entry == [kind : {"function"}, byDCall : BOOLEAN]
    \cup [kind : {"execute"}, calls : Nat \ {0}, byDCall : {TRUE}]
    \cup [kind : {"pcall"}, byDCall : {FALSE}, nCCalls : Nat, ci : Nat \ {0},
          oldTop : Nat \ {0}, nres : {MULTRET, 0, 1}, previous : Nat]

StackOK(s, t) == s \in Seq(Value) /\ t \in 1 .. Len(s)

\* What a frame may use lies inside a stack of length len; the registers of a
\* Lua function have been reserved when it was entered.
FrameFits(fr, len) ==
  /\ fr.fn < fr.base
  /\ fr.base + fr.live <= len + 1
  /\ fr.base <= fr.top /\ fr.top <= len
  /\ fr.callee \in LuaFn => fr.base + MaxStack[fr.callee] <= len
  /\ fr.callee \in VarArg => fr.fn + NumParams[fr.callee] < fr.base

FramesOK(c, b, len) ==
  /\ c \in Seq(Frame) /\ c # <<>> /\ c[1].callee = Nil
  /\ b = c[Len(c)].base
  /\ \A i \in 1 .. Len(c) : FrameFits(c[i], len)
  /\ \A i \in 1 .. Len(c) - 1 : c[i].base <= c[i + 1].fn

\* The frames that one entry of host runs, and the first of them: a dPCall
\* runs none and was made by the frame before.
Weight(e) == IF e.kind = "pcall" THEN 0 ELSE IF e.kind = "execute" THEN e.calls ELSE 1

Runs(first, hs, c) ==
  /\ first[1] = 1 /\ first[Len(hs) + 1] = Len(c) + 1
  /\ \A h \in 1 .. Len(hs) : first[h + 1] = first[h] + Weight(hs[h])
  /\ \A g, h \in 1 .. Len(hs) + 1 : g < h => first[g] + Weight(hs[g]) <= first[h]
  /\ \A h \in 1 .. Len(hs) : \A i \in first[h] .. first[h + 1] - 1 :
       c[i].callee \in LuaFn <=> hs[h].kind = "execute"
  /\ \A h \in 1 .. Len(hs) : hs[h].kind = "pcall" => first[h] = hs[h].ci + 1

RunsOK(hs, c) == \E first \in [1 .. Len(hs) + 1 -> Nat] : Runs(first, hs, c)

\* The dPCalls and the dCalls among the entries below h.
Handlers(hs, h) == { g \in 1 .. h - 1 : hs[g].kind = "pcall" }
DCalls(hs, h) == { g \in 1 .. h - 1 : hs[g].byDCall }

IsInnermost(e, S) ==
  \/ S = {} /\ e = NoHandler
  \/ e \in S /\ \A g \in S : g <= e

HandlersOK(hs, e) ==
  /\ IsInnermost(e, Handlers(hs, Len(hs) + 1))
  /\ \A h \in Handlers(hs, Len(hs) + 1) : IsInnermost(hs[h].previous, Handlers(hs, h))

\* A dPCall remembers how many dCalls are below it.
CountsOK(hs, n) ==
  /\ n = Cardinality(DCalls(hs, Len(hs) + 1))
  /\ \A h \in Handlers(hs, Len(hs) + 1) : hs[h].nCCalls = Cardinality(DCalls(hs, h))

WithinLimit(hs, e, n) ==
  e # NoHandler => n < CallLimit \/ n = LUAI_MAXCCALLS \/ n <= hs[e].nCCalls

\* A Go function makes a dPCall, which makes a dCall; what it restores is still
\* there.
PCallsOK(hs, c, len) ==
  \A h \in Handlers(hs, Len(hs) + 1) :
    /\ hs[h - 1].kind = "function"
    /\ h < Len(hs) => hs[h + 1].byDCall
    /\ hs[h].ci \in 1 .. Len(c)
    /\ c[hs[h].ci].base <= hs[h].oldTop
    /\ hs[h].oldTop < len
    /\ WithinLimit(hs, hs[h].previous, hs[h].nCCalls)

HostOK(hs, e) == hs \in Seq(Entry) /\ hs # <<>> /\ hs[1].kind = "function" /\ HandlersOK(hs, e)

SizeOK(c, n) ==
  /\ n \in Nat /\ Len(c) \in Nat /\ Len(c) <= n
  /\ n <= 2 * LUAI_MAXCCALLS \/ n = BASIC_CI_SIZE

\* The Go activations, with the frames they run.
HostInv(hs, e, c, m, len) ==
  HostOK(hs, e) /\ RunsOK(hs, c) /\ CountsOK(hs, m) /\ PCallsOK(hs, c, len) /\ WithinLimit(hs, e, m)

\* The strengthening of the invariants that is inductive; once a result or an
\* error is lost only the sizes and the handlers are still right.
RunInv ==
  /\ StackOK(stack, top)
  /\ Runner.kind = "pcall" => Runner.oldTop < top
  /\ FramesOK(ci, base, Len(stack))
  /\ HostInv(host, errorJmp, ci, nCCalls, Len(stack))
IInv == HostOK(host, errorJmp) /\ SizeOK(ci, sizeCi) /\ (Running => RunInv)
-----------------------------------------------------------------------------
(* The stack *)

LEMMA Constants ==
  /\ LUAI_MAXCCALLS \in Nat \ {0} /\ BASIC_CI_SIZE \in Nat \ {0}
  /\ LUA_MINSTACK \in Nat \ {0} /\ EXTRA_STACK \in Nat
  /\ CallLimit \in Nat /\ CallLimit >= LUAI_MAXCCALLS
BY LimitAssumption DEF CallLimit

\* The slots that dPrecall reserves.
LEMMA SlotsNat == ASSUME NEW g \in Fn PROVE Slots(g, 0) \in Nat /\ \A t : Slots(g, t) = Slots(g, 0)
BY FunctionAssumption, LimitAssumption DEF Slots, Fn

\* A larger stack has the values of the one it replaces.
LEMMA GrownStack ==
  ASSUME NEW s \in Seq(Value), NEW t \in Nat, NEW n \in Nat
  PROVE  /\ Grown(s, t, n) \in Seq(Value)
         /\ Len(Grown(s, t, n)) \in Nat /\ Len(Grown(s, t, n)) >= Len(s)
         /\ \A p \in 1 .. Len(s) : Grown(s, t, n)[p] = s[p]
<1>1. CASE StackLast(s) - t > n
  BY <1>1 DEF Grown
<1>2. CASE ~(StackLast(s) - t > n)
  <2>. DEFINE size == IF n <= Len(s) THEN 2 * Len(s) + 1 + EXTRA_STACK ELSE Len(s) + n
              g == [p \in 1 .. size |-> IF p <= Len(s) THEN s[p] ELSE Nil]
  <2>1. Grown(s, t, n) = g
    BY <1>2 DEF Grown
  <2>2. size \in Nat /\ size >= Len(s)
    BY Constants
  <2>3. \A p \in 1 .. size : (IF p <= Len(s) THEN s[p] ELSE Nil) \in Value
    BY <2>2 DEF Value
  <2>. HIDE DEF size
  <2>4. g \in Seq(Value) /\ Len(g) = size
    BY <2>2, <2>3
  <2>5. \A p \in 1 .. Len(s) : g[p] = s[p]
    BY <2>2
  <2>. QED
    BY <2>1, <2>2, <2>4, <2>5
<1>. QED
  BY <1>1, <1>2

\* Frames that differ at most in which of their pointers are stale.
SameFrames(c, d) ==
  /\ d \in Seq(Frame) /\ Len(d) = Len(c)
  /\ \A i \in 1 .. Len(c) :
       /\ d[i].callee = c[i].callee /\ d[i].fn = c[i].fn /\ d[i].base = c[i].base
       /\ d[i].top = c[i].top /\ d[i].nres = c[i].nres /\ d[i].live = c[i].live

LEMMA CorrectedFrames ==
  ASSUME NEW c \in Seq(Frame), NEW s
  PROVE  SameFrames(c, Corrected(c, s))
<1>1. CASE Len(s) = Len(stack)
  BY <1>1 DEF Corrected, SameFrames
<1>2. CASE Len(s) # Len(stack)
  <2>. DEFINE d == [i \in 1 .. Len(c) |-> [c[i] EXCEPT !.stale = TRUE]]
  <2>1. Corrected(c, s) = d
    BY <1>2 DEF Corrected
  <2>2a. \A fr \in Frame : [fr EXCEPT !.stale = TRUE] \in Frame
    BY DEF Frame
  <2>2. \A i \in 1 .. Len(c) : [c[i] EXCEPT !.stale = TRUE] \in Frame
    BY <2>2a
  <2>3. d \in Seq(Frame) /\ Len(d) = Len(c)
    BY <2>2
  <2>4. \A i \in 1 .. Len(c) : c[i] \in Frame /\ d[i] = [c[i] EXCEPT !.stale = TRUE]
    OBVIOUS
  <2>. HIDE DEF d
  <2>5. \A i \in 1 .. Len(c) :
          /\ d[i].callee = c[i].callee /\ d[i].fn = c[i].fn /\ d[i].base = c[i].base
          /\ d[i].top = c[i].top /\ d[i].nres = c[i].nres /\ d[i].live = c[i].live
    BY <2>4 DEF Frame
  <2>. QED
    BY <2>1, <2>3, <2>5 DEF SameFrames
<1>. QED
  BY <1>1, <1>2
-----------------------------------------------------------------------------
(* Frames *)

\* The types of the fields of a frame.
LEMMA FrameFields ==
  ASSUME NEW c \in Seq(Frame), NEW i \in 1 .. Len(c)
  PROVE  /\ c[i] \in Frame
         /\ c[i].fn \in Nat \ {0} /\ c[i].base \in Nat \ {0} /\ c[i].top \in Nat \ {0}
         /\ c[i].live \in Nat /\ c[i].nres \in {MULTRET, 0, 1}
         /\ c[i].callee \in Fn \cup {Nil} /\ c[i].stale \in BOOLEAN
<1>1. c[i] \in Frame
  OBVIOUS
<1>. DEFINE fr == c[i]
<1>. HIDE DEF fr
<1>2. fr \in Frame
  BY <1>1 DEF fr
<1>3. /\ fr.fn \in Nat \ {0} /\ fr.base \in Nat \ {0} /\ fr.top \in Nat \ {0}
      /\ fr.live \in Nat /\ fr.nres \in {MULTRET, 0, 1}
      /\ fr.callee \in Fn \cup {Nil} /\ fr.stale \in BOOLEAN
  BY <1>2 DEF Frame
<1>. QED
  BY <1>1, <1>3 DEF fr

\* A change that leaves callee, fn and base alone and keeps every frame inside
\* the stack leaves the frames nested.
LEMMA FramesChanged ==
  ASSUME NEW c, NEW b, NEW len, FramesOK(c, b, len),
         NEW d \in Seq(Frame), Len(d) = Len(c), NEW len2,
         \A i \in 1 .. Len(c) : /\ d[i].callee = c[i].callee /\ d[i].base = c[i].base
                                /\ d[i].fn = c[i].fn /\ FrameFits(d[i], len2)
  PROVE  FramesOK(d, b, len2)
<1>1. c \in Seq(Frame) /\ Len(c) \in Nat /\ Len(c) >= 1
  BY DEF FramesOK
<1>2. d # <<>> /\ d[1].callee = Nil /\ b = d[Len(d)].base
  BY <1>1 DEF FramesOK
<1>3. \A i \in 1 .. Len(d) - 1 : d[i].base <= d[i + 1].fn
  BY <1>1 DEF FramesOK
<1>. QED
  BY <1>2, <1>3 DEF FramesOK

\* A frame still fits into a longer stack.
LEMMA FitsLonger ==
  ASSUME NEW fr \in Frame, NEW len \in Nat, NEW len2 \in Nat, len2 >= len, FrameFits(fr, len)
  PROVE  FrameFits(fr, len2)
<1>1. fr.base \in Nat /\ fr.live \in Nat /\ fr.top \in Nat
  BY DEF Frame
<1>2. fr.base + fr.live <= len2 + 1 /\ fr.base <= fr.top /\ fr.top <= len2
  BY <1>1 DEF FrameFits
<1>3. fr.callee \in LuaFn => fr.base + MaxStack[fr.callee] <= len2
  BY <1>1, FunctionAssumption DEF FrameFits
<1>. QED
  BY <1>2, <1>3 DEF FrameFits

LEMMA SameFit ==
  ASSUME NEW c, NEW d, SameFrames(c, d), NEW i \in 1 .. Len(c), NEW len, FrameFits(c[i], len)
  PROVE  FrameFits(d[i], len)
BY DEF SameFrames, FrameFits

LEMMA SameFramesOK ==
  ASSUME NEW c, NEW b, NEW len \in Nat, FramesOK(c, b, len), NEW d, SameFrames(c, d),
         NEW len2 \in Nat, len2 >= len
  PROVE  FramesOK(d, b, len2)
<1>1. \A i \in 1 .. Len(c) : FrameFits(c[i], len)
  BY DEF FramesOK
<1>2a. \A i \in 1 .. Len(c) : FrameFits(d[i], len)
  BY <1>1, SameFit
<1>2. \A i \in 1 .. Len(c) : FrameFits(d[i], len) /\ d[i] \in Frame
  BY <1>2a DEF SameFrames
<1>3. \A i \in 1 .. Len(c) : FrameFits(d[i], len2)
  BY <1>2, FitsLonger
<1>. QED
  BY <1>3, FramesChanged DEF SameFrames

\* The frames without those above the n-th.
LEMMA FramesCut ==
  ASSUME NEW c, NEW b, NEW len, FramesOK(c, b, len), NEW n \in 1 .. Len(c)
  PROVE  FramesOK(SubSeq(c, 1, n), c[n].base, len) /\ Len(SubSeq(c, 1, n)) = n
<1>. DEFINE d == SubSeq(c, 1, n)
<1>1. c \in Seq(Frame) /\ Len(c) \in Nat /\ Len(c) >= 1
  BY DEF FramesOK
<1>2. d \in Seq(Frame) /\ Len(d) = n /\ \A i \in 1 .. n : d[i] = c[i]
  BY <1>1
<1>. HIDE DEF d
<1>3. d # <<>> /\ d[1].callee = Nil /\ c[n].base = d[Len(d)].base
  BY <1>1, <1>2 DEF FramesOK
<1>4. \A i \in 1 .. Len(d) : FrameFits(d[i], len)
  BY <1>1, <1>2 DEF FramesOK
<1>5. \A i \in 1 .. Len(d) - 1 : d[i].base <= d[i + 1].fn
  BY <1>1, <1>2 DEF FramesOK
<1>. QED
  BY <1>2, <1>3, <1>4, <1>5 DEF FramesOK, d

\* A new frame at or above the base of the last one.
LEMMA FramesPushed ==
  ASSUME NEW c, NEW b, NEW len, FramesOK(c, b, len), NEW fr \in Frame,
         FrameFits(fr, len), b <= fr.fn
  PROVE  FramesOK(Append(c, fr), fr.base, len)
<1>. DEFINE d == Append(c, fr)
<1>1. c \in Seq(Frame) /\ Len(c) \in Nat /\ Len(c) >= 1
  BY DEF FramesOK
<1>2. /\ d \in Seq(Frame) /\ Len(d) = Len(c) + 1 /\ d[Len(c) + 1] = fr
      /\ \A i \in 1 .. Len(c) : d[i] = c[i]
  BY <1>1
<1>. HIDE DEF d
<1>3. d # <<>> /\ d[1].callee = Nil /\ fr.base = d[Len(d)].base
  BY <1>1, <1>2 DEF FramesOK
<1>4. \A i \in 1 .. Len(d) : FrameFits(d[i], len)
  BY <1>1, <1>2 DEF FramesOK
<1>5. \A i \in 1 .. Len(d) - 1 : d[i].base <= d[i + 1].fn
  <2>. SUFFICES ASSUME NEW i \in 1 .. Len(d) - 1 PROVE d[i].base <= d[i + 1].fn
    OBVIOUS
  <2>1. CASE i = Len(c)
    BY <2>1, <1>1, <1>2 DEF FramesOK
  <2>2. CASE i \in 1 .. Len(c) - 1
    BY <2>2, <1>1, <1>2 DEF FramesOK
  <2>. QED
    BY <2>1, <2>2, <1>1, <1>2
<1>. QED
  BY <1>2, <1>3, <1>4, <1>5 DEF FramesOK, d
-----------------------------------------------------------------------------
(* Go activations *)

LEMMA EntryFields ==
  ASSUME NEW e \in Entry
  PROVE  /\ e.kind \in {"function", "execute", "pcall"}
         /\ e.byDCall \in BOOLEAN
         /\ e.kind = "execute" => e.calls \in Nat \ {0} /\ e.byDCall
         /\ e.kind = "pcall" => /\ ~e.byDCall /\ e.nCCalls \in Nat /\ e.ci \in Nat \ {0}
                                /\ e.oldTop \in Nat \ {0} /\ e.nres \in {MULTRET, 0, 1}
                                /\ e.previous \in Nat
         /\ Weight(e) \in Nat
<1>1. CASE e \in [kind : {"function"}, byDCall : BOOLEAN]
  BY <1>1 DEF Weight
<1>2. CASE e \in [kind : {"execute"}, calls : Nat \ {0}, byDCall : {TRUE}]
  BY <1>2 DEF Weight
<1>3. CASE e \in [kind : {"pcall"}, byDCall : {FALSE}, nCCalls : Nat, ci : Nat \ {0},
                  oldTop : Nat \ {0}, nres : {MULTRET, 0, 1}, previous : Nat]
  BY <1>3 DEF Weight
<1>. QED
  BY <1>1, <1>2, <1>3 DEF Entry

LEMMA NewEntry ==
  /\ \A b \in BOOLEAN : GoFunction(b) \in Entry /\ GoFunction(b).kind = "function"
                        /\ GoFunction(b).byDCall = b /\ Weight(GoFunction(b)) = 1
  /\ Execute \in Entry /\ Execute.kind = "execute" /\ Execute.byDCall /\ Weight(Execute) = 1
<1>1. ASSUME NEW b \in BOOLEAN
      PROVE  GoFunction(b) \in Entry /\ GoFunction(b).kind = "function"
             /\ GoFunction(b).byDCall = b /\ Weight(GoFunction(b)) = 1
  BY DEF GoFunction, Entry, Weight
<1>2. Execute \in [kind : {"execute"}, calls : Nat \ {0}, byDCall : {TRUE}]
  BY DEF Execute
<1>3. Execute.kind = "execute" /\ Execute.byDCall /\ Weight(Execute) = 1
  BY DEF Execute, Weight
<1>. QED
  BY <1>1, <1>2, <1>3 DEF Entry

LEMMA Recounted ==
  ASSUME NEW e \in Entry, e.kind = "execute", NEW k \in Nat \ {0}
  PROVE  LET r == [e EXCEPT !.calls = k]
         IN r \in Entry /\ r.kind = "execute" /\ r.byDCall /\ Weight(r) = k
<1>1. e \in [kind : {"execute"}, calls : Nat \ {0}, byDCall : {TRUE}]
  BY DEF Entry
<1>. DEFINE r == [e EXCEPT !.calls = k]
<1>2. r \in [kind : {"execute"}, calls : Nat \ {0}, byDCall : {TRUE}] /\ r.calls = k
  BY <1>1
<1>. HIDE DEF r
<1>3. r.kind = "execute" /\ r.byDCall /\ Weight(r) = k
  BY <1>2 DEF Weight
<1>4. r \in Entry
  BY <1>2 DEF Entry
<1>. QED
  BY <1>3, <1>4 DEF r

\* hs2 has n entries, all but the last of them those of hs: every push, every
\* pop and every change of the last entry is of this form.
SharePrefix(hs, hs2, n) ==
  /\ hs \in Seq(Entry) /\ hs2 \in Seq(Entry) /\ n \in 1 .. Len(hs) + 1
  /\ Len(hs2) = n
  /\ \A g \in 1 .. n - 1 : hs2[g] = hs[g]

LEMMA SharedSets ==
  ASSUME NEW hs, NEW hs2, NEW n, SharePrefix(hs, hs2, n), NEW h \in 1 .. n
  PROVE  Handlers(hs2, h) = Handlers(hs, h) /\ DCalls(hs2, h) = DCalls(hs, h)
BY DEF SharePrefix, Handlers, DCalls

\* The sets with the last entry.
LEMMA LastEntry ==
  ASSUME NEW hs \in Seq(Entry), NEW n \in 1 .. Len(hs)
  PROVE  /\ Handlers(hs, n + 1) = Handlers(hs, n) \cup (IF hs[n].kind = "pcall" THEN {n} ELSE {})
         /\ hs[n].byDCall => DCalls(hs, n + 1) = DCalls(hs, n) \cup {n}
         /\ ~hs[n].byDCall => DCalls(hs, n + 1) = DCalls(hs, n)
         /\ n \notin Handlers(hs, n) /\ n \notin DCalls(hs, n)
<1>1. n \in Nat /\ \A g : g \in 1 .. (n + 1) - 1 <=> g \in 1 .. n - 1 \/ g = n
  OBVIOUS
<1>2. n \notin 1 .. n - 1
  OBVIOUS
<1>3. Handlers(hs, n + 1) = Handlers(hs, n) \cup (IF hs[n].kind = "pcall" THEN {n} ELSE {})
  BY <1>1 DEF Handlers
<1>4. hs[n].byDCall => DCalls(hs, n + 1) = DCalls(hs, n) \cup {n}
  BY <1>1 DEF DCalls
<1>5. ~hs[n].byDCall => DCalls(hs, n + 1) = DCalls(hs, n)
  BY <1>1 DEF DCalls
<1>. QED
  BY <1>2, <1>3, <1>4, <1>5 DEF Handlers, DCalls

LEMMA LastNoHandler ==
  ASSUME NEW hs \in Seq(Entry), NEW n \in 1 .. Len(hs), hs[n].kind # "pcall"
  PROVE  Handlers(hs, n + 1) = Handlers(hs, n)
<1>1. \A g : g \in 1 .. (n + 1) - 1 <=> g \in 1 .. n - 1 \/ g = n
  OBVIOUS
<1>. QED
  BY <1>1 DEF Handlers

LEMMA DCallsCounted ==
  ASSUME NEW hs, NEW n \in Nat
  PROVE  IsFiniteSet(DCalls(hs, n)) /\ Cardinality(DCalls(hs, n)) \in Nat
<1>1. IsFiniteSet(1 .. n - 1)
  BY FS_Interval
<1>2. DCalls(hs, n) \in SUBSET (1 .. n - 1)
  BY DEF DCalls
<1>. QED
  BY <1>1, <1>2, FS_Subset, FS_CardinalityType

LEMMA CountLast ==
  ASSUME NEW hs \in Seq(Entry), NEW n \in 1 .. Len(hs)
  PROVE  Cardinality(DCalls(hs, n + 1)) = Cardinality(DCalls(hs, n)) + (IF hs[n].byDCall THEN 1 ELSE 0)
<1>1. IsFiniteSet(DCalls(hs, n)) /\ Cardinality(DCalls(hs, n)) \in Nat
  BY DCallsCounted
<1>2. CASE hs[n].byDCall
  <2>1. DCalls(hs, n + 1) = DCalls(hs, n) \cup {n} /\ n \notin DCalls(hs, n)
    BY <1>2, LastEntry
  <2>. QED
    BY <2>1, <1>1, <1>2, FS_AddElement
<1>3. CASE ~hs[n].byDCall
  <2>1. DCalls(hs, n + 1) = DCalls(hs, n)
    BY <1>3, LastEntry
  <2>. QED
    BY <2>1, <1>1, <1>3
<1>. QED
  BY <1>2, <1>3

LEMMA HostBuilt ==
  ASSUME NEW hs, NEW e, HostOK(hs, e), NEW hs2, NEW n, SharePrefix(hs, hs2, n), NEW e2,
         n = 1 => hs2[n].kind = "function",
         hs2[n].kind = "pcall" => e2 = n /\ IsInnermost(hs2[n].previous, Handlers(hs, n)),
         hs2[n].kind # "pcall" => IsInnermost(e2, Handlers(hs, n))
  PROVE  HostOK(hs2, e2)
<1>1. /\ hs \in Seq(Entry) /\ hs2 \in Seq(Entry) /\ n \in 1 .. Len(hs) + 1 /\ Len(hs2) = n
      /\ n \in Nat /\ Len(hs) \in Nat
      /\ \A g \in 1 .. n - 1 : hs2[g] = hs[g]
  BY DEF SharePrefix
<1>2. Handlers(hs2, n) = Handlers(hs, n)
  BY <1>1, SharedSets
<1>3. Handlers(hs2, n + 1) = Handlers(hs, n) \cup (IF hs2[n].kind = "pcall" THEN {n} ELSE {})
  BY <1>1, <1>2, LastEntry
<1>4. IsInnermost(e2, Handlers(hs2, n + 1))
  <2>1. \A g \in Handlers(hs, n) : g \in Nat /\ g <= n
    BY <1>1 DEF Handlers
  <2>2. CASE hs2[n].kind = "pcall"
    BY <2>1, <2>2, <1>3, <1>1 DEF IsInnermost
  <2>3. CASE hs2[n].kind # "pcall"
    BY <2>3, <1>3
  <2>. QED
    BY <2>2, <2>3
<1>5. \A h \in Handlers(hs2, n + 1) : IsInnermost(hs2[h].previous, Handlers(hs2, h))
  <2>. SUFFICES ASSUME NEW h \in Handlers(hs2, n + 1)
                PROVE  IsInnermost(hs2[h].previous, Handlers(hs2, h))
    OBVIOUS
  <2>1. CASE h = n /\ hs2[n].kind = "pcall"
    BY <2>1, <1>2
  <2>2. CASE h \in Handlers(hs, n)
    <3>1. h \in 1 .. n - 1 /\ hs[h].kind = "pcall"
      BY <2>2 DEF Handlers
    <3>2. h \in Handlers(hs, Len(hs) + 1) /\ h \in 1 .. n
      BY <3>1, <1>1 DEF Handlers
    <3>3. IsInnermost(hs[h].previous, Handlers(hs, h))
      BY <3>2 DEF HostOK, HandlersOK
    <3>4. Handlers(hs2, h) = Handlers(hs, h)
      BY <3>2, SharedSets
    <3>. QED
      BY <3>1, <3>3, <3>4, <1>1
  <2>. QED
    BY <2>1, <2>2, <1>3
<1>6. hs2 # <<>> /\ hs2[1].kind = "function"
  BY <1>1 DEF HostOK
<1>. QED
  BY <1>1, <1>4, <1>5, <1>6 DEF HostOK, HandlersOK

LEMMA CountsBuilt ==
  ASSUME NEW hs, NEW m, CountsOK(hs, m), NEW hs2, NEW n, SharePrefix(hs, hs2, n), NEW m2,
         hs2[n].kind = "pcall" => hs2[n].nCCalls = Cardinality(DCalls(hs, n)),
         m2 = Cardinality(DCalls(hs, n)) + (IF hs2[n].byDCall THEN 1 ELSE 0)
  PROVE  CountsOK(hs2, m2)
<1>1. /\ hs \in Seq(Entry) /\ hs2 \in Seq(Entry) /\ n \in 1 .. Len(hs) + 1 /\ Len(hs2) = n
      /\ n \in Nat /\ Len(hs) \in Nat
      /\ \A g \in 1 .. n - 1 : hs2[g] = hs[g]
  BY DEF SharePrefix
<1>2. DCalls(hs2, n) = DCalls(hs, n)
  BY <1>1, SharedSets
<1>3. m2 = Cardinality(DCalls(hs2, n + 1))
  BY <1>1, <1>2, CountLast
<1>4. ASSUME NEW h \in Handlers(hs2, n + 1)
      PROVE  hs2[h].nCCalls = Cardinality(DCalls(hs2, h))
  <2>1. h \in 1 .. n /\ hs2[h].kind = "pcall"
    BY <1>1 DEF Handlers
  <2>2. CASE h = n
    BY <2>1, <2>2, <1>2
  <2>3. CASE h # n
    <3>1. h \in 1 .. n - 1 /\ hs[h].kind = "pcall"
      BY <2>1, <2>3, <1>1
    <3>2. h \in Handlers(hs, Len(hs) + 1)
      BY <3>1, <1>1 DEF Handlers
    <3>3. DCalls(hs2, h) = DCalls(hs, h)
      BY <2>1, SharedSets
    <3>. QED
      BY <3>1, <3>2, <3>3, <1>1 DEF CountsOK
  <2>. QED
    BY <2>2, <2>3
<1>. QED
  BY <1>1, <1>3, <1>4 DEF CountsOK

\* Below the last entry a limit is that of the same dPCall.
LEMMA SharedLimit ==
  ASSUME NEW hs, NEW hs2, NEW n, SharePrefix(hs, hs2, n), NEW e, NEW S, NEW h \in 1 .. n,
         S = Handlers(hs, h), IsInnermost(e, S), NEW m, WithinLimit(hs, e, m)
  PROVE  WithinLimit(hs2, e, m)
<1>1. e = NoHandler \/ e \in 1 .. n - 1
  BY DEF IsInnermost, Handlers, SharePrefix
<1>. QED
  BY <1>1 DEF WithinLimit, SharePrefix

LEMMA PCallsBuilt ==
  ASSUME NEW hs, NEW e, HostOK(hs, e), NEW c, NEW len \in Nat, PCallsOK(hs, c, len),
         NEW hs2, NEW n, SharePrefix(hs, hs2, n), NEW c2, NEW len2 \in Nat, len2 >= len,
         \A h \in Handlers(hs, n) :
           hs[h].ci \in 1 .. Len(c2) /\ c2[hs[h].ci].base = c[hs[h].ci].base,
         n - 1 \in Handlers(hs, n) => hs2[n].byDCall,
         hs2[n].kind = "pcall" =>
           /\ n > 1 /\ hs[n - 1].kind = "function"
           /\ hs2[n].ci \in 1 .. Len(c2) /\ c2[hs2[n].ci].base <= hs2[n].oldTop
           /\ hs2[n].oldTop < len2
           /\ IsInnermost(hs2[n].previous, Handlers(hs, n))
           /\ WithinLimit(hs, hs2[n].previous, hs2[n].nCCalls)
  PROVE  PCallsOK(hs2, c2, len2)
<1>1. /\ hs \in Seq(Entry) /\ hs2 \in Seq(Entry) /\ n \in 1 .. Len(hs) + 1 /\ Len(hs2) = n
      /\ n \in Nat /\ Len(hs) \in Nat
      /\ \A g \in 1 .. n - 1 : hs2[g] = hs[g]
  BY DEF SharePrefix
<1>. DEFINE Kept(h) == /\ hs2[h - 1].kind = "function"
                       /\ h < Len(hs2) => hs2[h + 1].byDCall
                       /\ hs2[h].ci \in 1 .. Len(c2)
                       /\ c2[hs2[h].ci].base <= hs2[h].oldTop
                       /\ hs2[h].oldTop < len2
                       /\ WithinLimit(hs2, hs2[h].previous, hs2[h].nCCalls)
<1>2. ASSUME hs2[n].kind = "pcall"
      PROVE  Kept(n)
  <2>1. WithinLimit(hs2, hs2[n].previous, hs2[n].nCCalls)
    BY <1>1, <1>2, SharedLimit
  <2>2. hs2[n - 1] = hs[n - 1]
    BY <1>1, <1>2
  <2>. QED
    BY <1>1, <1>2, <2>1, <2>2
<1>3. ASSUME NEW h \in Handlers(hs, n)
      PROVE  Kept(h)
  <2>1. h \in 1 .. n - 1 /\ hs[h].kind = "pcall" /\ h # 1
    BY <1>1 DEF Handlers, HostOK
  <2>2. h \in Handlers(hs, Len(hs) + 1) /\ h - 1 \in 1 .. n - 1 /\ h \in 1 .. n
    BY <1>1, <2>1 DEF Handlers
  <2>3. hs2[h] = hs[h] /\ hs2[h - 1] = hs[h - 1]
    BY <1>1, <2>1, <2>2
  <2>4. /\ hs[h - 1].kind = "function" /\ (h < Len(hs) => hs[h + 1].byDCall)
        /\ c[hs[h].ci].base <= hs[h].oldTop /\ hs[h].oldTop < len
        /\ WithinLimit(hs, hs[h].previous, hs[h].nCCalls)
    BY <2>2 DEF PCallsOK
  <2>5. IsInnermost(hs[h].previous, Handlers(hs, h))
    BY <2>2 DEF HostOK, HandlersOK
  <2>6. WithinLimit(hs2, hs2[h].previous, hs2[h].nCCalls)
    BY <2>2, <2>3, <2>4, <2>5, SharedLimit
  <2>7. h < Len(hs2) => hs2[h + 1].byDCall
    <3>1. CASE h = n - 1
      BY <3>1, <1>1
    <3>2. CASE h # n - 1
      <4>1. h + 1 \in 1 .. n - 1 /\ h < Len(hs)
        BY <3>2, <2>1, <1>1
      <4>2. hs2[h + 1] = hs[h + 1]
        BY <4>1, <1>1
      <4>. QED
        BY <4>1, <4>2, <2>4
    <3>. QED
      BY <3>1, <3>2
  <2>8. hs[h].oldTop \in Nat
    BY <2>1, <1>1, EntryFields
  <2>9. hs[h].oldTop < len2
    BY <2>8, <2>4
  <2>. QED
    BY <2>3, <2>4, <2>6, <2>7, <2>9
<1>4. Handlers(hs2, n) = Handlers(hs, n)
  BY <1>1, SharedSets
<1>5. Handlers(hs2, n + 1) = Handlers(hs, n) \cup (IF hs2[n].kind = "pcall" THEN {n} ELSE {})
  BY <1>1, <1>4, LastEntry
<1>. HIDE DEF Kept
<1>6. \A h \in Handlers(hs2, n + 1) : Kept(h)
  BY <1>2, <1>3, <1>5
<1>. QED
  BY <1>1, <1>6 DEF PCallsOK, Kept

\* The entries run the frames one after the other.
LEMMA RunsBuilt ==
  ASSUME NEW hs, NEW hs2, NEW n, SharePrefix(hs, hs2, n), NEW c, NEW c2, Len(c2) \in Nat,
         NEW first \in [1 .. Len(hs) + 1 -> Nat], Runs(first, hs, c),
         Len(c2) + 1 = first[n] + Weight(hs2[n]),
         \A i \in 1 .. first[n] - 1 : c2[i].callee = c[i].callee,
         \A i \in first[n] .. Len(c2) : c2[i].callee \in LuaFn <=> hs2[n].kind = "execute",
         hs2[n].kind = "pcall" => first[n] = hs2[n].ci + 1
  PROVE  RunsOK(hs2, c2)
<1>. DEFINE f2 == [h \in 1 .. n + 1 |-> IF h <= n THEN first[h] ELSE Len(c2) + 1]
<1>1. /\ hs \in Seq(Entry) /\ hs2 \in Seq(Entry) /\ n \in 1 .. Len(hs) + 1 /\ Len(hs2) = n
      /\ n \in Nat /\ Len(hs) \in Nat
      /\ \A g \in 1 .. n - 1 : hs2[g] = hs[g]
  BY DEF SharePrefix
<1>0. /\ \A g \in 1 .. Len(hs) : Weight(hs[g]) \in Nat
      /\ Weight(hs2[n]) \in Nat
      /\ \A g \in 1 .. Len(hs) + 1 : first[g] \in Nat
  <2>1. (\A g \in 1 .. Len(hs) : hs[g] \in Entry) /\ hs2[n] \in Entry
    BY <1>1
  <2>. QED
    BY <2>1, EntryFields
<1>2. f2 \in [1 .. Len(hs2) + 1 -> Nat]
  BY <1>1
<1>3. (\A h \in 1 .. n : f2[h] = first[h]) /\ f2[n + 1] = Len(c2) + 1
  BY <1>1
<1>. HIDE DEF f2
<1>4. f2[1] = 1 /\ f2[Len(hs2) + 1] = Len(c2) + 1
  BY <1>1, <1>3 DEF Runs
<1>5. ASSUME NEW h \in 1 .. n
      PROVE  f2[h + 1] = f2[h] + Weight(hs2[h])
  <2>1. CASE h = n
    BY <2>1, <1>3
  <2>2. CASE h # n
    <3>1. h \in 1 .. n - 1 /\ h \in 1 .. Len(hs) /\ h + 1 \in 1 .. n
      BY <2>2, <1>1
    <3>2. first[h + 1] = first[h] + Weight(hs[h])
      BY <3>1 DEF Runs
    <3>. QED
      BY <3>1, <3>2, <1>1, <1>3
  <2>. QED
    BY <2>1, <2>2
<1>6. ASSUME NEW g \in 1 .. n + 1, NEW h \in 1 .. n + 1, g < h
      PROVE  f2[g] + Weight(hs2[g]) <= f2[h]
  <2>1. CASE h \in 1 .. n
    <3>1. g \in 1 .. n - 1 /\ g \in 1 .. Len(hs) + 1 /\ h \in 1 .. Len(hs) + 1
      BY <2>1, <1>1, <1>6
    <3>2. first[g] + Weight(hs[g]) <= first[h]
      BY <3>1, <1>6 DEF Runs
    <3>. QED
      BY <3>1, <3>2, <2>1, <1>1, <1>3
  <2>2. CASE h = n + 1 /\ g = n
    BY <2>2, <1>3, <1>5
  <2>3. CASE h = n + 1 /\ g # n
    <3>1. g \in 1 .. n - 1 /\ g \in 1 .. Len(hs) + 1 /\ n \in 1 .. Len(hs) + 1 /\ g < n
      BY <2>3, <1>1, <1>6
    <3>2. first[g] + Weight(hs[g]) <= first[n]
      BY <3>1 DEF Runs
    <3>3. Weight(hs2[n]) \in Nat /\ Weight(hs[g]) \in Nat /\ first[g] \in Nat /\ first[n] \in Nat
      BY <1>0, <1>1, <3>1
    <3>4. f2[g] = first[g] /\ hs2[g] = hs[g] /\ f2[h] = first[n] + Weight(hs2[n])
      BY <3>1, <1>1, <1>3, <2>3
    <3>. QED
      BY <3>2, <3>3, <3>4
  <2>. QED
    BY <2>1, <2>2, <2>3, <1>1
<1>7. ASSUME NEW h \in 1 .. n, NEW i \in f2[h] .. f2[h + 1] - 1
      PROVE  c2[i].callee \in LuaFn <=> hs2[h].kind = "execute"
  <2>1. CASE h = n
    <3>1. i \in first[n] .. Len(c2)
      BY <2>1, <1>7, <1>3, <1>1
    <3>. QED
      BY <2>1, <3>1
  <2>2. CASE h # n
    <3>1. h \in 1 .. n - 1 /\ h \in 1 .. Len(hs) /\ h + 1 \in 1 .. n
      BY <2>2, <1>1
    <3>2. i \in first[h] .. first[h + 1] - 1
      BY <3>1, <1>7, <1>3, <1>1
    <3>3. c[i].callee \in LuaFn <=> hs[h].kind = "execute"
      BY <3>1, <3>2 DEF Runs
    <3>4. first[h + 1] <= first[n]
      <4>1. CASE h + 1 = n
        BY <4>1, <1>0, <1>1
      <4>2. CASE h + 1 # n
        <5>1. h + 1 \in 1 .. Len(hs) + 1 /\ n \in 1 .. Len(hs) + 1 /\ h + 1 < n /\ h + 1 \in 1 .. Len(hs)
          BY <4>2, <3>1, <1>1
        <5>2. first[h + 1] + Weight(hs[h + 1]) <= first[n]
          BY <5>1 DEF Runs
        <5>3. Weight(hs[h + 1]) \in Nat /\ first[h + 1] \in Nat /\ first[n] \in Nat
          BY <5>1, <1>0, <1>1
        <5>. QED
          BY <5>2, <5>3
      <4>. QED
        BY <4>1, <4>2
    <3>5. 1 <= first[h]
      <4>1. CASE h = 1
        BY <4>1 DEF Runs
      <4>2. CASE h # 1
        <5>1. 1 \in 1 .. Len(hs) /\ 1 \in 1 .. Len(hs) + 1 /\ h \in 1 .. Len(hs) + 1 /\ 1 < h
          BY <4>2, <3>1, <1>1
        <5>2. first[1] + Weight(hs[1]) <= first[h] /\ first[1] = 1
          BY <5>1 DEF Runs
        <5>3. Weight(hs[1]) \in Nat /\ first[h] \in Nat
          BY <5>1, <1>0, <1>1
        <5>. QED
          BY <5>2, <5>3
      <4>. QED
        BY <4>1, <4>2
    <3>6. first[h] \in Nat /\ first[h + 1] \in Nat /\ first[n] \in Nat
      <4>1. h \in 1 .. Len(hs) + 1 /\ h + 1 \in 1 .. Len(hs) + 1 /\ n \in 1 .. Len(hs) + 1
        BY <3>1, <1>1
      <4>2. \A g \in 1 .. Len(hs) + 1 : first[g] \in Nat
        OBVIOUS
      <4>. QED
        BY <4>1, <4>2
    <3>7. i \in 1 .. first[n] - 1
      BY <3>2, <3>4, <3>5, <3>6
    <3>. QED
      BY <3>1, <3>3, <3>7, <1>1
  <2>. QED
    BY <2>1, <2>2
<1>8. ASSUME NEW h \in 1 .. n, hs2[h].kind = "pcall"
      PROVE  f2[h] = hs2[h].ci + 1
  <2>1. CASE h = n
    BY <2>1, <1>8, <1>3
  <2>2. CASE h # n
    <3>1. h \in 1 .. n - 1 /\ h \in 1 .. Len(hs)
      BY <2>2, <1>1
    <3>. QED
      BY <3>1, <1>8, <1>1, <1>3 DEF Runs
  <2>. QED
    BY <2>1, <2>2
<1>9. Runs(f2, hs2, c2)
  BY <1>1, <1>4, <1>5, <1>6, <1>7, <1>8 DEF Runs
<1>. QED
  BY <1>2, <1>9 DEF RunsOK

\* c2 has the frames of c as far as both go.
Agree(c, c2) ==
  /\ Len(c) \in Nat /\ Len(c2) \in Nat
  /\ \A i \in 1 .. Len(c) : i <= Len(c2) => c2[i].callee = c[i].callee /\ c2[i].base = c[i].base

\* The last entry has begun to run what it is there for.
NotWaiting(hs) == hs[Len(hs)].kind # "pcall"

\* Types of what an entry weighs and where its frames begin.
LEMMA RunsTypes ==
  ASSUME NEW hs \in Seq(Entry), NEW first \in [1 .. Len(hs) + 1 -> Nat], NEW c, Runs(first, hs, c)
  PROVE  /\ Len(hs) \in Nat
         /\ \A h \in 1 .. Len(hs) : Weight(hs[h]) \in Nat /\ hs[h] \in Entry
         /\ \A h \in 1 .. Len(hs) + 1 : first[h] \in Nat /\ first[h] >= 1
         /\ \A g, h \in 1 .. Len(hs) + 1 : g <= h => first[g] <= first[h]
<1>1. \A h \in 1 .. Len(hs) : hs[h] \in Entry
  OBVIOUS
<1>2. \A h \in 1 .. Len(hs) : Weight(hs[h]) \in Nat
  BY <1>1, EntryFields
<1>3. Len(hs) \in Nat /\ \A h \in 1 .. Len(hs) + 1 : first[h] \in Nat
  OBVIOUS
<1>4. ASSUME NEW g \in 1 .. Len(hs) + 1, NEW h \in 1 .. Len(hs) + 1, g <= h
      PROVE  first[g] <= first[h]
  <2>1. CASE g = h
    BY <2>1, <1>3
  <2>2. CASE g < h
    <3>1. g \in 1 .. Len(hs)
      BY <2>2, <1>3
    <3>2. first[g] + Weight(hs[g]) <= first[h]
      BY <2>2 DEF Runs
    <3>. QED
      BY <3>1, <3>2, <1>2, <1>3
  <2>. QED
    BY <2>1, <2>2, <1>4, <1>3
<1>5. \A h \in 1 .. Len(hs) + 1 : first[h] >= 1
  <2>1. first[1] = 1
    BY DEF Runs
  <2>. QED
    BY <2>1, <1>3, <1>4
<1>. QED
  BY <1>1, <1>2, <1>3, <1>4, <1>5

\* A dPCall was made by a frame below those of the entries above it.
LEMMA MadeBelow ==
  ASSUME NEW hs \in Seq(Entry), NEW first \in [1 .. Len(hs) + 1 -> Nat], NEW c, Runs(first, hs, c),
         NEW n \in 1 .. Len(hs) + 1, NEW h \in Handlers(hs, n)
  PROVE  hs[h].ci < first[n] /\ hs[h].ci \in Nat \ {0}
<1>1. h \in 1 .. n - 1 /\ h \in 1 .. Len(hs) /\ hs[h].kind = "pcall" /\ h \in 1 .. Len(hs) + 1
  BY DEF Handlers
<1>2. first[h] = hs[h].ci + 1
  BY <1>1 DEF Runs
<1>3. hs[h].ci \in Nat \ {0}
  BY <1>1, EntryFields
<1>4. first[h] <= first[n] /\ first[n] \in Nat
  BY <1>1, RunsTypes
<1>. QED
  BY <1>2, <1>3, <1>4

\* A Go function or a vExecute begins and runs one more frame.
LEMMA HostPushed ==
  ASSUME NEW hs, NEW e, NEW c, NEW m, NEW len \in Nat, HostInv(hs, e, c, m, len),
         NEW c2, Agree(c, c2), Len(c2) = Len(c) + 1, NEW len2 \in Nat, len2 >= len,
         NEW x \in Entry, x.kind # "pcall", Weight(x) = 1,
         c2[Len(c) + 1].callee \in LuaFn <=> x.kind = "execute",
         hs[Len(hs)].kind = "pcall" => x.byDCall,
         NEW m2, m2 = m + (IF x.byDCall THEN 1 ELSE 0), WithinLimit(hs, e, m2)
  PROVE  HostInv(Append(hs, x), e, c2, m2, len2) /\ NotWaiting(Append(hs, x))
<1>. DEFINE hs2 == Append(hs, x)
            n == Len(hs) + 1
<1>1. hs \in Seq(Entry) /\ Len(hs) \in Nat /\ Len(hs) >= 1
  BY DEF HostInv, HostOK
<1>2. SharePrefix(hs, hs2, n) /\ hs2[n] = x /\ n \in Nat /\ n # 1 /\ n - 1 = Len(hs)
  BY <1>1 DEF SharePrefix
<1>. HIDE DEF hs2
<1>3. IsInnermost(e, Handlers(hs, n))
  BY DEF HostInv, HostOK, HandlersOK
<1>4. HostOK(hs2, e)
  <2>1. HostOK(hs, e)
    BY DEF HostInv
  <2>. QED
    BY <1>2, <1>3, <2>1, HostBuilt
<1>5. PICK first \in [1 .. Len(hs) + 1 -> Nat] : Runs(first, hs, c)
  BY DEF HostInv, RunsOK
<1>6. first[n] = Len(c) + 1
  BY <1>5 DEF Runs
<1>7. RunsOK(hs2, c2)
  <2>1. Len(c2) \in Nat /\ Len(c) \in Nat /\ Len(c2) + 1 = first[n] + Weight(hs2[n])
    BY <1>2, <1>6 DEF Agree
  <2>2. \A i \in 1 .. first[n] - 1 : c2[i].callee = c[i].callee
    BY <2>1, <1>6 DEF Agree
  <2>3. \A i \in first[n] .. Len(c2) : i = Len(c) + 1
    BY <2>1, <1>6
  <2>4. \A i \in first[n] .. Len(c2) : c2[i].callee \in LuaFn <=> hs2[n].kind = "execute"
    BY <2>3, <1>2
  <2>. HIDE DEF n
  <2>. QED
    BY <2>1, <2>2, <2>4, <1>2, <1>5, RunsBuilt DEF n
<1>8. CountsOK(hs2, m2)
  <2>1. m = Cardinality(DCalls(hs, n)) /\ CountsOK(hs, m)
    BY DEF HostInv, CountsOK
  <2>. QED
    BY <2>1, <1>2, CountsBuilt
<1>9. PCallsOK(hs2, c2, len2)
  <2>1. HostOK(hs, e) /\ PCallsOK(hs, c, len)
    BY DEF HostInv
  <2>2. \A h \in Handlers(hs, n) : hs[h].ci \in 1 .. Len(c)
    BY <2>1 DEF PCallsOK
  <2>3. \A h \in Handlers(hs, n) :
          hs[h].ci \in 1 .. Len(c2) /\ c2[hs[h].ci].base = c[hs[h].ci].base
    BY <2>2 DEF Agree
  <2>4. n - 1 \in Handlers(hs, n) => hs2[n].byDCall
    BY <1>2 DEF Handlers
  <2>. QED
    BY <2>1, <2>3, <2>4, <1>2, PCallsBuilt
<1>10. WithinLimit(hs2, e, m2)
  <2>1. n \in 1 .. n
    BY <1>2
  <2>. QED
    BY <2>1, <1>2, <1>3, SharedLimit
<1>. QED
  BY <1>2, <1>4, <1>7, <1>8, <1>9, <1>10 DEF HostInv, hs2, NotWaiting, SharePrefix

\* dPCall begins, called by a Go function.
LEMMA HostProtected ==
  ASSUME NEW hs, NEW e, NEW c, NEW m, NEW len \in Nat, HostInv(hs, e, c, m, len),
         Len(c) \in Nat, hs[Len(hs)].kind = "function",
         NEW x \in Entry, x.kind = "pcall", x.nCCalls = m, x.previous = e,
         x.ci = Len(c), x.ci > 0, c[Len(c)].base <= x.oldTop, x.oldTop < len
  PROVE  HostInv(Append(hs, x), Len(hs) + 1, c, m, len)
<1>. DEFINE hs2 == Append(hs, x)
            n == Len(hs) + 1
<1>1. hs \in Seq(Entry) /\ Len(hs) \in Nat /\ Len(hs) >= 1
  BY DEF HostInv, HostOK
<1>2. SharePrefix(hs, hs2, n) /\ hs2[n] = x /\ n \in Nat /\ n # 1 /\ n - 1 = Len(hs) /\ n > 1
  BY <1>1 DEF SharePrefix
<1>. HIDE DEF hs2
<1>3. IsInnermost(e, Handlers(hs, n))
  BY DEF HostInv, HostOK, HandlersOK
<1>4. HostOK(hs2, n)
  <2>1. HostOK(hs, e)
    BY DEF HostInv
  <2>. QED
    BY <1>2, <1>3, <2>1, HostBuilt
<1>5. PICK first \in [1 .. Len(hs) + 1 -> Nat] : Runs(first, hs, c)
  BY DEF HostInv, RunsOK
<1>6. first[n] = Len(c) + 1
  BY <1>5 DEF Runs
<1>7. RunsOK(hs2, c)
  <2>1. Weight(x) = 0
    BY DEF Weight
  <2>2. Len(c) + 1 = first[n] + Weight(hs2[n])
    BY <1>2, <1>6, <2>1
  <2>3. \A i \in first[n] .. Len(c) : c[i].callee \in LuaFn <=> hs2[n].kind = "execute"
    BY <1>6
  <2>4. first[n] = hs2[n].ci + 1
    BY <1>2, <1>6
  <2>. HIDE DEF n
  <2>. QED
    BY <2>2, <2>3, <2>4, <1>2, <1>5, RunsBuilt
<1>8. CountsOK(hs2, m)
  <2>1. m = Cardinality(DCalls(hs, n)) /\ CountsOK(hs, m)
    BY DEF HostInv, CountsOK
  <2>2. ~hs2[n].byDCall
    BY <1>2, EntryFields
  <2>3. Cardinality(DCalls(hs, n)) \in Nat
    BY <1>2, DCallsCounted
  <2>4. m = Cardinality(DCalls(hs, n)) + (IF hs2[n].byDCall THEN 1 ELSE 0)
    BY <2>1, <2>2, <2>3
  <2>. HIDE DEF n
  <2>. QED
    BY <2>1, <2>4, <1>2, CountsBuilt
<1>9. PCallsOK(hs2, c, len)
  <2>1. HostOK(hs, e) /\ PCallsOK(hs, c, len) /\ WithinLimit(hs, e, m)
    BY DEF HostInv
  <2>2. \A h \in Handlers(hs, n) : hs[h].ci \in 1 .. Len(c)
    BY <2>1 DEF PCallsOK
  <2>4. n - 1 \notin Handlers(hs, n)
    BY <1>2 DEF Handlers
  <2>5. hs2[n].ci \in 1 .. Len(c)
    BY <1>2
  <2>. HIDE DEF n
  <2>. QED
    BY <2>1, <2>2, <2>4, <2>5, <1>2, <1>3, PCallsBuilt
<1>10. WithinLimit(hs2, n, m)
  BY <1>1, <1>2, EntryFields DEF WithinLimit
<1>. QED
  BY <1>4, <1>7, <1>8, <1>9, <1>10 DEF HostInv, hs2

LEMMA Shift ==
  ASSUME NEW a \in Nat, NEW b \in Nat, NEW f \in Nat, NEW k \in Nat, NEW w \in Nat,
         b + w = a + k, a + 1 = f + w
  PROVE  b + 1 = f + k /\ (w > 0 => f <= a) /\ (k > 0 => f <= b)
OBVIOUS

\* A vExecute begins a frame more, or ends one that is not its first.
LEMMA HostRecounted ==
  ASSUME NEW hs, NEW e, NEW c, NEW m, NEW len \in Nat, HostInv(hs, e, c, m, len),
         hs[Len(hs)].kind = "execute", NEW k \in Nat \ {0},
         NEW c2, Agree(c, c2), Len(c2) + hs[Len(hs)].calls = Len(c) + k,
         \A i \in Len(c) + 1 .. Len(c2) : c2[i].callee \in LuaFn,
         NEW len2 \in Nat, len2 >= len
  PROVE  /\ HostInv([hs EXCEPT ![Len(hs)].calls = k], e, c2, m, len2)
         /\ NotWaiting([hs EXCEPT ![Len(hs)].calls = k])
<1>. DEFINE n == Len(hs)
            x == [hs[n] EXCEPT !.calls = k]
            hs2 == [hs EXCEPT ![n] = x]
<1>1. hs \in Seq(Entry) /\ n \in Nat /\ n >= 1 /\ hs[1].kind = "function" /\ n # 1
  BY DEF HostInv, HostOK
<1>2. hs[n] \in Entry
  BY <1>1
<1>3. x \in Entry /\ x.kind = "execute" /\ x.byDCall /\ Weight(x) = k
  BY <1>2, Recounted
<1>. HIDE DEF x
<1>4. hs2 \in Seq(Entry) /\ Len(hs2) = n /\ hs2[n] = x /\ \A g \in 1 .. n - 1 : hs2[g] = hs[g]
  BY <1>1, <1>3
<1>5. hs2 = [hs EXCEPT ![Len(hs)].calls = k]
  BY DEF x
<1>. HIDE DEF hs2
<1>6. SharePrefix(hs, hs2, n)
  BY <1>1, <1>4 DEF SharePrefix
<1>7. hs[n].byDCall /\ hs[n].calls \in Nat \ {0} /\ Weight(hs[n]) = hs[n].calls
  BY <1>2, EntryFields DEF Weight
<1>8. IsInnermost(e, Handlers(hs, n + 1)) /\ Handlers(hs, n + 1) = Handlers(hs, n)
  <2>1. IsInnermost(e, Handlers(hs, n + 1))
    BY DEF HostInv, HostOK, HandlersOK
  <2>2. n \in 1 .. Len(hs) /\ hs[n].kind # "pcall"
    BY <1>1
  <2>3. Handlers(hs, n + 1) = Handlers(hs, n)
    BY <1>1, <2>2, LastNoHandler
  <2>. QED
    BY <2>1, <2>3
<1>9. HostOK(hs2, e)
  <2>1. HostOK(hs, e)
    BY DEF HostInv
  <2>2. IsInnermost(e, Handlers(hs, n)) /\ hs2[n].kind # "pcall"
    BY <1>3, <1>4, <1>8
  <2>3. n # 1
    BY <1>1
  <2>. HIDE DEF n
  <2>4. /\ n = 1 => hs2[n].kind = "function"
        /\ hs2[n].kind = "pcall" => e = n /\ IsInnermost(hs2[n].previous, Handlers(hs, n))
        /\ hs2[n].kind # "pcall" => IsInnermost(e, Handlers(hs, n))
    BY <2>2, <2>3
  <2>. QED
    BY <2>1, <2>4, <1>6, HostBuilt
<1>10. PICK first \in [1 .. Len(hs) + 1 -> Nat] : Runs(first, hs, c)
  BY DEF HostInv, RunsOK
<1>11. /\ Len(c) + 1 = first[n] + hs[n].calls /\ first[n] \in Nat
       /\ \A i \in first[n] .. Len(c) : c[i].callee \in LuaFn
  <2>1. n \in 1 .. Len(hs) /\ first[n + 1] = Len(c) + 1 /\ first[n + 1] = first[n] + Weight(hs[n])
    BY <1>1, <1>10, SMTT(20) DEF Runs
  <2>2. \A i \in first[n] .. first[n + 1] - 1 : c[i].callee \in LuaFn
    BY <2>1, <1>10, SMTT(30) DEF Runs
  <2>3. Len(c) \in Nat
    BY DEF Agree
  <2>. QED
    BY <2>1, <2>2, <2>3, <1>7, <1>10
<1>12. /\ Len(c) \in Nat /\ Len(c2) \in Nat /\ Len(c2) + 1 = first[n] + k
       /\ first[n] <= Len(c) /\ first[n] <= Len(c2)
  <2>1. /\ Len(c) \in Nat /\ Len(c2) \in Nat /\ k \in Nat /\ k > 0
        /\ Len(c2) + hs[n].calls = Len(c) + k
    BY DEF Agree
  <2>2. hs[n].calls \in Nat /\ hs[n].calls > 0
    BY <1>7
  <2>3. first[n] \in Nat /\ Len(c) + 1 = first[n] + hs[n].calls
    BY <1>11
  <2>. DEFINE a == Len(c)  b == Len(c2)  f == first[n]  w == hs[n].calls
  <2>4. /\ a \in Nat /\ b \in Nat /\ f \in Nat /\ k \in Nat /\ w \in Nat
        /\ b + w = a + k /\ a + 1 = f + w /\ w > 0 /\ k > 0
    BY <2>1, <2>2, <2>3
  <2>. HIDE DEF a, b, f, w
  <2>5. b + 1 = f + k /\ f <= a /\ f <= b
    BY <2>4, Shift
  <2>. QED
    BY <2>1, <2>5 DEF a, b, f
<1>13. RunsOK(hs2, c2)
  <2>1. \A i \in 1 .. first[n] - 1 : i \in 1 .. Len(c) /\ i <= Len(c2)
    BY <1>11, <1>12, SMTT(30)
  <2>2. \A i \in 1 .. first[n] - 1 : c2[i].callee = c[i].callee
    BY <2>1 DEF Agree
  <2>3. ASSUME NEW i \in first[n] .. Len(c2)
        PROVE  c2[i].callee \in LuaFn
    <3>1. CASE i \in Len(c) + 1 .. Len(c2)
      BY <3>1
    <3>2. CASE i \in first[n] .. Len(c)
      <4>1. i \in 1 .. Len(c) /\ i <= Len(c2)
        BY <3>2, <2>3, <1>10, <1>1, <1>11, <1>12, RunsTypes
      <4>. QED
        BY <4>1, <3>2, <1>11 DEF Agree
    <3>. QED
      BY <3>1, <3>2, <1>11, <1>12
  <2>4. \A i \in first[n] .. Len(c2) : c2[i].callee \in LuaFn <=> hs2[n].kind = "execute"
    BY <2>3, <1>3, <1>4
  <2>5. Len(c2) + 1 = first[n] + Weight(hs2[n]) /\ hs2[n].kind # "pcall"
    BY <1>3, <1>4, <1>12
  <2>. HIDE DEF n
  <2>. QED
    BY <2>2, <2>4, <2>5, <1>6, <1>10, <1>12, RunsBuilt
<1>14. CountsOK(hs2, m)
  <2>1. m = Cardinality(DCalls(hs, n + 1)) /\ CountsOK(hs, m)
    BY DEF HostInv, CountsOK
  <2>2. m = Cardinality(DCalls(hs, n)) + 1
    BY <2>1, <1>1, <1>7, CountLast, SMTT(30)
  <2>. HIDE DEF n
  <2>. QED
    BY <2>1, <2>2, <1>3, <1>4, <1>6, CountsBuilt
<1>15. PCallsOK(hs2, c2, len2)
  <2>1. HostOK(hs, e) /\ PCallsOK(hs, c, len)
    BY DEF HostInv
  <2>2. ASSUME NEW h \in Handlers(hs, n)
        PROVE  hs[h].ci \in 1 .. Len(c2) /\ c2[hs[h].ci].base = c[hs[h].ci].base
    <3>1. hs[h].ci < first[n] /\ hs[h].ci \in Nat \ {0}
      BY <1>1, <1>10, MadeBelow
    <3>. DEFINE a == Len(c)  b == Len(c2)  f == first[n]  j == hs[h].ci
    <3>1a. a \in Nat /\ b \in Nat /\ f \in Nat /\ j \in Nat \ {0} /\ j < f /\ f <= a /\ f <= b
      BY <3>1, <1>11, <1>12
    <3>. HIDE DEF a, b, f, j
    <3>1b. j \in 1 .. a /\ j <= b
      BY <3>1a
    <3>2. hs[h].ci \in 1 .. Len(c) /\ hs[h].ci <= Len(c2)
      BY <3>1b DEF a, b, f, j
    <3>. QED
      BY <3>2, <1>12 DEF Agree
  <2>3. hs2[n].byDCall /\ hs2[n].kind # "pcall"
    BY <1>3, <1>4
  <2>. HIDE DEF n
  <2>. QED
    BY <2>1, <2>2, <2>3, <1>6, PCallsBuilt
<1>16. WithinLimit(hs2, e, m)
  <2>1. WithinLimit(hs, e, m) /\ n \in 1 .. n
    BY <1>1 DEF HostInv
  <2>. HIDE DEF n
  <2>. QED
    BY <2>1, <1>6, <1>8, SharedLimit
<1>17. NotWaiting(hs2)
  BY <1>3, <1>4 DEF NotWaiting
<1>. QED
  BY <1>5, <1>9, <1>13, <1>14, <1>15, <1>16, <1>17 DEF HostInv

\* The entries above the n-th end, with the frames they run.
LEMMA HostCut ==
  ASSUME NEW hs, NEW e, NEW c, NEW m, NEW len \in Nat, HostInv(hs, e, c, m, len),
         NEW n \in 1 .. Len(hs), hs[n].kind # "pcall",
         NEW first \in [1 .. Len(hs) + 1 -> Nat], Runs(first, hs, c),
         NEW c2, Agree(c, c2), Len(c2) + 1 = first[n + 1],
         NEW e2, IsInnermost(e2, Handlers(hs, n + 1)),
         NEW m2, m2 = Cardinality(DCalls(hs, n + 1)), WithinLimit(hs, e2, m2),
         NEW len2 \in Nat, len2 >= len
  PROVE  HostInv(SubSeq(hs, 1, n), e2, c2, m2, len2) /\ NotWaiting(SubSeq(hs, 1, n))
<1>. DEFINE hs2 == SubSeq(hs, 1, n)
<1>1. hs \in Seq(Entry) /\ Len(hs) \in Nat /\ n \in Nat /\ n >= 1
  BY DEF HostInv, HostOK
<1>2. hs2 \in Seq(Entry) /\ Len(hs2) = n /\ \A g \in 1 .. n : hs2[g] = hs[g]
  BY <1>1
<1>. HIDE DEF hs2
<1>3. SharePrefix(hs, hs2, n) /\ hs2[n] = hs[n] /\ hs2[n].kind # "pcall"
  BY <1>1, <1>2 DEF SharePrefix
<1>4. Handlers(hs, n + 1) = Handlers(hs, n)
  BY <1>1, LastNoHandler
<1>5. HostOK(hs, e) /\ CountsOK(hs, m) /\ PCallsOK(hs, c, len) /\ hs[1].kind = "function"
  BY DEF HostInv, HostOK
<1>6. HostOK(hs2, e2)
  BY <1>3, <1>4, <1>5, HostBuilt
<1>7. /\ first[n + 1] = first[n] + Weight(hs[n]) /\ first[n] <= first[n + 1]
      /\ first[n] \in Nat /\ first[n + 1] \in Nat /\ first[n + 1] <= first[Len(hs) + 1]
      /\ first[Len(hs) + 1] = Len(c) + 1
      /\ first[n] >= 1
  <2>1. first[n + 1] = first[n] + Weight(hs[n]) /\ first[Len(hs) + 1] = Len(c) + 1
    BY DEF Runs
  <2>2. n \in 1 .. Len(hs) + 1 /\ n + 1 \in 1 .. Len(hs) + 1 /\ Len(hs) + 1 \in 1 .. Len(hs) + 1
        /\ n <= n + 1 /\ n + 1 <= Len(hs) + 1
    BY <1>1
  <2>3. \A g, h \in 1 .. Len(hs) + 1 : g <= h => first[g] <= first[h]
    BY <1>1, RunsTypes
  <2>4. \A h \in 1 .. Len(hs) + 1 : first[h] \in Nat /\ first[h] >= 1
    BY <1>1, RunsTypes
  <2>. QED
    BY <2>1, <2>2, <2>3, <2>4
<1>8. Len(c) \in Nat /\ Len(c2) \in Nat /\ Len(c2) <= Len(c) /\ first[n] <= Len(c2) + 1
  <2>. DEFINE a == Len(c)  b == Len(c2)  f == first[n]  g == first[n + 1]  t == first[Len(hs) + 1]
  <2>1. a \in Nat /\ b \in Nat /\ f \in Nat /\ g \in Nat /\ f <= g /\ g <= t /\ t = a + 1 /\ b + 1 = g
    BY <1>7 DEF Agree
  <2>. HIDE DEF a, b, f, g, t
  <2>2. b <= a /\ f <= b + 1
    BY <2>1
  <2>. QED
    BY <2>1, <2>2 DEF a, b, f
<1>9. RunsOK(hs2, c2)
  <2>1. \A i \in 1 .. Len(c2) : c2[i].callee = c[i].callee
    BY <1>8 DEF Agree
  <2>2. \A i \in 1 .. first[n] - 1 : i \in 1 .. Len(c2)
    BY <1>7, <1>8
  <2>3. \A i \in first[n] .. Len(c2) : i \in 1 .. Len(c2) /\ i \in first[n] .. first[n + 1] - 1
    BY <1>7, <1>8
  <2>4. \A i \in first[n] .. first[n + 1] - 1 : c[i].callee \in LuaFn <=> hs[n].kind = "execute"
    BY DEF Runs
  <2>5. \A i \in first[n] .. Len(c2) : c2[i].callee \in LuaFn <=> hs2[n].kind = "execute"
    BY <2>1, <2>3, <2>4, <1>3
  <2>6. \A i \in 1 .. first[n] - 1 : c2[i].callee = c[i].callee
    BY <2>1, <2>2
  <2>7. Len(c2) + 1 = first[n] + Weight(hs2[n])
    BY <1>3, <1>7
  <2>. QED
    BY <2>5, <2>6, <2>7, <1>3, <1>8, RunsBuilt
<1>10. CountsOK(hs2, m2)
  <2>1. m2 = Cardinality(DCalls(hs, n)) + (IF hs2[n].byDCall THEN 1 ELSE 0)
    BY <1>1, <1>3, CountLast
  <2>. QED
    BY <2>1, <1>3, <1>5, CountsBuilt
<1>11. PCallsOK(hs2, c2, len2)
  <2>1. ASSUME NEW h \in Handlers(hs, n)
        PROVE  hs[h].ci \in 1 .. Len(c2) /\ c2[hs[h].ci].base = c[hs[h].ci].base
    <3>1. hs[h].ci < first[n] /\ hs[h].ci \in Nat \ {0}
      <4>1. n \in 1 .. Len(hs) + 1
        BY <1>1
      <4>. QED
        BY <4>1, <1>1, MadeBelow
    <3>. DEFINE a == Len(c)  b == Len(c2)  f == first[n]  j == hs[h].ci
    <3>2. a \in Nat /\ b \in Nat /\ f \in Nat /\ j \in Nat \ {0} /\ j < f /\ f <= b + 1 /\ b <= a
      BY <3>1, <1>7, <1>8
    <3>. HIDE DEF a, b, f, j
    <3>3. j \in 1 .. a /\ j <= b /\ j \in 1 .. b
      BY <3>2
    <3>4. hs[h].ci \in 1 .. Len(c) /\ hs[h].ci <= Len(c2) /\ hs[h].ci \in 1 .. Len(c2)
      BY <3>3 DEF a, b, j
    <3>. QED
      BY <3>4 DEF Agree
  <2>2. ASSUME n - 1 \in Handlers(hs, n)
        PROVE  hs2[n].byDCall
    <3>1. n - 1 \in Handlers(hs, Len(hs) + 1) /\ n - 1 < Len(hs) /\ (n - 1) + 1 = n
      BY <1>1, <2>2 DEF Handlers
    <3>2. hs[(n - 1) + 1].byDCall
      BY <3>1, <1>5 DEF PCallsOK
    <3>. QED
      BY <3>1, <3>2, <1>3
  <2>. QED
    BY <2>1, <2>2, <1>3, <1>5, PCallsBuilt
<1>12. WithinLimit(hs2, e2, m2)
  <2>1. n \in 1 .. n
    BY <1>1
  <2>. QED
    BY <2>1, <1>3, <1>4, SharedLimit
<1>13. NotWaiting(hs2)
  BY <1>2, <1>3 DEF NotWaiting
<1>. QED
  BY <1>6, <1>9, <1>10, <1>11, <1>12, <1>13 DEF HostInv, hs2

\* An error ends everything above the dPCall h, and the dPCall.
LEMMA HostUnwound ==
  ASSUME NEW hs, NEW e, NEW c, NEW m, NEW len \in Nat, HostInv(hs, e, c, m, len),
         NEW h \in Handlers(hs, Len(hs) + 1),
         NEW c2, Agree(c, c2), Len(c2) = hs[h].ci, NEW len2 \in Nat, len2 >= len
  PROVE  /\ HostInv(SubSeq(hs, 1, h - 1), hs[h].previous, c2, hs[h].nCCalls, len2)
         /\ NotWaiting(SubSeq(hs, 1, h - 1))
<1>. DEFINE n == h - 1
<1>1. hs \in Seq(Entry) /\ Len(hs) \in Nat /\ hs[1].kind = "function"
  BY DEF HostInv, HostOK
<1>2. h \in 1 .. Len(hs) /\ hs[h].kind = "pcall" /\ n \in 1 .. Len(hs) /\ n + 1 = h
  BY <1>1 DEF Handlers
<1>3. hs[n].kind # "pcall"
  BY DEF HostInv, PCallsOK
<1>4. PICK first \in [1 .. Len(hs) + 1 -> Nat] : Runs(first, hs, c)
  BY DEF HostInv, RunsOK
<1>5. Len(c2) + 1 = first[n + 1]
  BY <1>2, <1>4 DEF Runs
<1>6. IsInnermost(hs[h].previous, Handlers(hs, n + 1))
  BY <1>2 DEF HostInv, HostOK, HandlersOK
<1>7. hs[h].nCCalls = Cardinality(DCalls(hs, n + 1))
  BY <1>2 DEF HostInv, CountsOK
<1>8. WithinLimit(hs, hs[h].previous, hs[h].nCCalls)
  BY DEF HostInv, PCallsOK
<1>. HIDE DEF n
<1>9. HostInv(SubSeq(hs, 1, n), hs[h].previous, c2, hs[h].nCCalls, len2) /\ NotWaiting(SubSeq(hs, 1, n))
  BY <1>2, <1>3, <1>4, <1>5, <1>6, <1>7, <1>8, HostCut
<1>. QED
  BY <1>9 DEF n

\* The last entry ends with the only frame it runs; it was not called by a
\* dPCall.
LEMMA HostPopped ==
  ASSUME NEW hs, NEW e, NEW c, NEW m, NEW len \in Nat, HostInv(hs, e, c, m, len),
         Len(hs) > 1, hs[Len(hs)].kind # "pcall", Weight(hs[Len(hs)]) = 1,
         hs[Len(hs) - 1].kind # "pcall",
         NEW c2, Agree(c, c2), Len(c2) + 1 = Len(c), NEW len2 \in Nat, len2 >= len
  PROVE  /\ HostInv(SubSeq(hs, 1, Len(hs) - 1), e, c2,
                    IF hs[Len(hs)].byDCall THEN m - 1 ELSE m, len2)
         /\ NotWaiting(SubSeq(hs, 1, Len(hs) - 1))
<1>. DEFINE n == Len(hs) - 1
            m2 == IF hs[Len(hs)].byDCall THEN m - 1 ELSE m
<1>1. hs \in Seq(Entry) /\ Len(hs) \in Nat /\ n \in 1 .. Len(hs) /\ n + 1 = Len(hs)
      /\ Len(hs) \in 1 .. Len(hs)
  BY DEF HostInv, HostOK
<1>2. PICK first \in [1 .. Len(hs) + 1 -> Nat] : Runs(first, hs, c)
  BY DEF HostInv, RunsOK
<1>3. Len(c2) + 1 = first[n + 1]
  <2>1. first[Len(hs) + 1] = first[Len(hs)] + 1 /\ first[Len(hs) + 1] = Len(c) + 1
    BY <1>1, <1>2 DEF Runs
  <2>2. first[Len(hs)] \in Nat /\ Len(c) \in Nat /\ Len(c2) \in Nat
    BY <1>1 DEF Agree
  <2>3. \A f \in Nat, a \in Nat : f + 1 = a + 1 => f = a
    OBVIOUS
  <2>4. first[Len(hs)] = Len(c)
    BY <2>1, <2>2, <2>3
  <2>. QED
    BY <2>4, <1>1
<1>4. IsInnermost(e, Handlers(hs, n + 1))
  <2>1. IsInnermost(e, Handlers(hs, Len(hs) + 1))
    BY DEF HostInv, HostOK, HandlersOK
  <2>2. Handlers(hs, Len(hs) + 1) = Handlers(hs, Len(hs))
    BY <1>1, LastNoHandler
  <2>. QED
    BY <2>1, <2>2, <1>1
<1>5. m2 = Cardinality(DCalls(hs, n + 1)) /\ m \in Nat /\ m2 \in Nat /\ m2 <= m
  <2>1. m = Cardinality(DCalls(hs, Len(hs) + 1))
    BY DEF HostInv, CountsOK
  <2>2. m = Cardinality(DCalls(hs, Len(hs))) + (IF hs[Len(hs)].byDCall THEN 1 ELSE 0)
    BY <1>1, <2>1, CountLast
  <2>3. Cardinality(DCalls(hs, Len(hs))) \in Nat
    BY <1>1, DCallsCounted
  <2>4. m2 = Cardinality(DCalls(hs, Len(hs))) /\ m \in Nat /\ m2 <= m
    <3>. DEFINE d == Cardinality(DCalls(hs, Len(hs)))
    <3>1. d \in Nat /\ m = d + (IF hs[Len(hs)].byDCall THEN 1 ELSE 0)
      BY <2>2, <2>3
    <3>. HIDE DEF d
    <3>2. m2 = d /\ m \in Nat /\ m2 <= m
      BY <3>1
    <3>. QED
      BY <3>2 DEF d
  <2>. QED
    BY <2>3, <2>4, <1>1
<1>. HIDE DEF m2
<1>6. WithinLimit(hs, e, m2)
  <2>1. WithinLimit(hs, e, m)
    BY DEF HostInv
  <2>2. e # NoHandler => hs[e].nCCalls \in Nat
    <3>1. ASSUME e # NoHandler PROVE e \in 1 .. Len(hs) /\ hs[e].kind = "pcall"
      BY <1>1, <1>4, <3>1 DEF IsInnermost, Handlers
    <3>. QED
      BY <3>1, <1>1, EntryFields
  <2>. QED
    BY <2>1, <2>2, <1>5, Constants DEF WithinLimit
<1>. HIDE DEF n
<1>7. HostInv(SubSeq(hs, 1, n), e, c2, m2, len2) /\ NotWaiting(SubSeq(hs, 1, n))
  <2>1. hs[n].kind # "pcall"
    BY DEF n
  <2>. QED
    BY <2>1, <1>1, <1>2, <1>3, <1>4, <1>5, <1>6, HostCut
<1>. QED
  BY <1>7 DEF n, m2
-----------------------------------------------------------------------------
(* The running frame and what runs it *)

LEMMA RunFacts ==
  ASSUME RunInv
  PROVE  /\ stack \in Seq(Value) /\ Len(stack) \in Nat /\ top \in 1 .. Len(stack)
         /\ ci \in Seq(Frame) /\ Len(ci) \in Nat /\ Len(ci) >= 1
         /\ CI \in Frame /\ base = CI.base /\ FrameFits(CI, Len(stack))
         /\ CI.fn \in Nat \ {0} /\ CI.base \in Nat \ {0} /\ CI.top \in Nat \ {0} /\ CI.live \in Nat
         /\ CI.nres \in {MULTRET, 0, 1}
         /\ host \in Seq(Entry) /\ Len(host) \in Nat /\ Len(host) >= 1
         /\ Runner \in Entry
         /\ errorJmp \in Nat /\ nCCalls \in Nat
<1>1. stack \in Seq(Value) /\ Len(stack) \in Nat /\ top \in 1 .. Len(stack)
  BY DEF RunInv, StackOK
<1>2. ci \in Seq(Frame) /\ Len(ci) \in Nat /\ Len(ci) >= 1 /\ Len(ci) \in 1 .. Len(ci)
  BY DEF RunInv, FramesOK
<1>3. base = CI.base /\ FrameFits(CI, Len(stack))
  BY <1>2 DEF RunInv, FramesOK, CI
<1>4. /\ CI \in Frame /\ CI.nres \in {MULTRET, 0, 1}
      /\ CI.fn \in Nat \ {0} /\ CI.base \in Nat \ {0} /\ CI.top \in Nat \ {0} /\ CI.live \in Nat
  BY <1>2, FrameFields DEF CI
<1>5. host \in Seq(Entry) /\ Len(host) \in Nat /\ Len(host) >= 1 /\ Len(host) \in 1 .. Len(host)
  BY DEF RunInv, HostInv, HostOK
<1>6. Runner \in Entry
  BY <1>5 DEF Runner
<1>7. IsInnermost(errorJmp, Handlers(host, Len(host) + 1))
  BY DEF RunInv, HostInv, HostOK, HandlersOK
<1>8. errorJmp \in Nat
  BY <1>5, <1>7 DEF IsInnermost, Handlers, NoHandler
<1>9. nCCalls \in Nat
  <2>1. nCCalls = Cardinality(DCalls(host, Len(host) + 1))
    BY DEF RunInv, HostInv, CountsOK
  <2>. QED
    BY <2>1, <1>5, DCallsCounted
<1>. QED
  BY <1>1, <1>2, <1>3, <1>4, <1>5, <1>6, <1>8, <1>9

\* A Lua function is run by a vExecute that something has called, and so is a
\* Go function that is not the host program; a dPCall was made by the last frame.
LEMMA RunnerOfFrame ==
  ASSUME RunInv
  PROVE  /\ InLua => Runner.kind = "execute" /\ Len(host) > 1 /\ Len(ci) > 1
         /\ InGo /\ Len(host) > 1 => Len(ci) > 1
         /\ Runner.kind = "pcall" => /\ Runner.ci = Len(ci) /\ Len(host) \in Handlers(host, Len(host) + 1)
                                     /\ ~InLua
<1>. DEFINE n == Len(host)
<1>1. /\ host \in Seq(Entry) /\ n \in Nat /\ n >= 1 /\ Len(ci) \in Nat /\ Len(ci) >= 1
      /\ host[n] \in Entry /\ Runner = host[n] /\ n \in 1 .. n
  BY RunFacts DEF Runner
<1>2. host[1].kind = "function" /\ ci[1].callee = Nil
  BY DEF RunInv, HostInv, HostOK, FramesOK
<1>3. PICK first \in [1 .. n + 1 -> Nat] : Runs(first, host, ci)
  BY DEF RunInv, HostInv, RunsOK
<1>4. first[1] = 1 /\ first[n + 1] = Len(ci) + 1 /\ first[n + 1] = first[n] + Weight(host[n])
      /\ first[n] \in Nat
  BY <1>1, <1>3 DEF Runs
<1>. HIDE DEF n
<1>5. ASSUME host[n].kind = "pcall"
      PROVE  /\ host[n].ci = Len(ci) /\ n \in Handlers(host, n + 1) /\ ~InLua
  <2>1. n \in Handlers(host, n + 1)
    BY <1>1, <1>5 DEF Handlers
  <2>2. Weight(host[n]) = 0
    BY <1>5 DEF Weight
  <2>3. first[n] = Len(ci) + 1
    BY <2>2, <1>1, <1>4
  <2>4. first[n] = host[n].ci + 1 /\ host[n].ci \in Nat
    <3>1. first[n] = host[n].ci + 1
      BY <1>1, <1>3, <1>5 DEF Runs, n
    <3>2. host[n].ci \in Nat
      BY <1>1, <1>5, EntryFields
    <3>. QED
      BY <3>1, <3>2
  <2>5. host[n].ci = Len(ci)
    <3>. DEFINE a == host[n].ci  b == Len(ci)
    <3>1. a \in Nat /\ b \in Nat /\ a + 1 = b + 1
      BY <2>3, <2>4, <1>1
    <3>. HIDE DEF a, b
    <3>2. a = b
      BY <3>1
    <3>. QED
      BY <3>2 DEF a, b
  <2>6. host[n - 1].kind = "function" /\ n - 1 \in 1 .. n /\ n - 1 >= 1 /\ (n - 1) + 1 = n
    <3>1. host[n - 1].kind = "function"
      BY <2>1 DEF RunInv, HostInv, PCallsOK, n
    <3>2. n # 1
      BY <1>2, <1>5
    <3>. QED
      BY <3>1, <3>2, <1>1
  <2>7. first[n] = first[n - 1] + 1 /\ first[n - 1] \in Nat
    <3>1. first[(n - 1) + 1] = first[n - 1] + Weight(host[n - 1])
      BY <2>6, <1>1, <1>3 DEF Runs, n
    <3>2. Weight(host[n - 1]) = 1
      BY <2>6 DEF Weight
    <3>3. first[n - 1] \in Nat
      BY <2>6, <1>1, <1>3
    <3>. QED
      BY <3>1, <3>2, <3>3, <2>6
  <2>8. Len(ci) \in first[n - 1] .. first[n] - 1
    BY <2>3, <2>7, <1>1
  <2>9. ~(ci[Len(ci)].callee \in LuaFn)
    <3>1. Len(ci) \in first[n - 1] .. first[(n - 1) + 1] - 1
      BY <2>6, <2>8
    <3>2. ci[Len(ci)].callee \in LuaFn <=> host[n - 1].kind = "execute"
      BY <2>6, <3>1, <1>1, <1>3 DEF Runs, n
    <3>. QED
      BY <3>2, <2>6
  <2>. QED
    BY <2>1, <2>5, <2>9 DEF InLua, CI
<1>6. ASSUME InLua
      PROVE  host[n].kind = "execute" /\ n > 1 /\ Len(ci) > 1
  <2>1. host[n].kind # "function"
    <3>. SUFFICES ASSUME host[n].kind = "function" PROVE FALSE
      OBVIOUS
    <3>1. Weight(host[n]) = 1
      BY DEF Weight
    <3>2. Len(ci) \in first[n] .. first[n + 1] - 1
      BY <3>1, <1>1, <1>4
    <3>3. ci[Len(ci)].callee \in LuaFn <=> host[n].kind = "execute"
      BY <3>2, <1>1, <1>3 DEF Runs, n
    <3>. QED
      BY <3>3, <1>6 DEF InLua, CI
  <2>2. host[n].kind = "execute"
    BY <2>1, <1>1, <1>5, <1>6, EntryFields
  <2>3. n # 1
    BY <2>2, <1>2
  <2>4. Len(ci) # 1
    BY <1>2, <1>6, FunctionAssumption DEF InLua, CI, Fn
  <2>5. \A k \in Nat : k >= 1 /\ k # 1 => k > 1
    OBVIOUS
  <2>6. n > 1 /\ Len(ci) > 1
    BY <2>3, <2>4, <2>5, <1>1
  <2>. QED
    BY <2>2, <2>6
<1>7. ASSUME InGo, n > 1
      PROVE  Len(ci) > 1
  <2>1. Weight(host[n]) = 1 /\ Weight(host[1]) = 1
    BY <1>1, <1>2, <1>7 DEF InGo, Weight
  <2>2. first[1] + Weight(host[1]) <= first[n]
    <3>1. 1 \in 1 .. n + 1 /\ n \in 1 .. n + 1 /\ 1 < n
      BY <1>1, <1>7
    <3>. QED
      BY <3>1, <1>3 DEF Runs, n
  <2>. QED
    BY <2>1, <2>2, <1>1, <1>4
<1>. QED
  BY <1>1, <1>5, <1>6, <1>7 DEF n
-----------------------------------------------------------------------------
(* Entering a function *)

\* Where a Lua function finds its registers: above it and its arguments.
LEMMA NewBaseAbove ==
  ASSUME NEW g \in LuaFn, NEW f \in Nat \ {0}, NEW t \in Nat, f < t
  PROVE  /\ NewBase(g, f, t) \in Nat \ {0} /\ f < NewBase(g, f, t)
         /\ g \in VarArg => f + NumParams[g] < NewBase(g, f, t)
<1>1. NumParams[g] \in Nat
  BY FunctionAssumption
<1>. QED
  BY <1>1 DEF NewBase

LEMMA ParametersTyped ==
  ASSUME NEW s \in Seq(Value), NEW g \in LuaFn, NEW f \in Nat \ {0}, NEW t \in Nat, f < t,
         t <= Len(s) + 1
  PROVE  Parameters(s, g, f, t) \in Seq(Value) /\ Len(Parameters(s, g, f, t)) = Len(s)
<1>. DEFINE b == NewBase(g, f, t)
            arg(i) == IF f + i < t THEN s[f + i] ELSE Nil
            v(p) == IF p >= b /\ p < b + MaxStack[g]
                    THEN IF p - b < NumParams[g] THEN arg(p - b + 1) ELSE Nil
                    ELSE IF g \in VarArg /\ p > f /\ p <= f + NumParams[g] THEN Nil
                    ELSE s[p]
<1>1. Parameters(s, g, f, t) = [p \in 1 .. Len(s) |-> v(p)]
  BY DEF Parameters
<1>2. b \in Nat /\ Nil \in Value /\ Len(s) \in Nat
  BY NewBaseAbove DEF Value
<1>3. \A i \in Nat \ {0} : arg(i) \in Value
  BY <1>2
<1>. HIDE DEF b, arg
<1>4. \A p \in 1 .. Len(s) : v(p) \in Value
  <2>. SUFFICES ASSUME NEW p \in 1 .. Len(s) PROVE v(p) \in Value
    OBVIOUS
  <2>1. p >= b => p - b + 1 \in Nat \ {0}
    BY <1>2
  <2>2. s[p] \in Value
    OBVIOUS
  <2>. QED
    BY <2>1, <2>2, <1>2, <1>3
<1>. HIDE DEF v
<1>5. [p \in 1 .. Len(s) |-> v(p)] \in Seq(Value) /\ Len([p \in 1 .. Len(s) |-> v(p)]) = Len(s)
  BY <1>2, <1>4
<1>. QED
  BY <1>1, <1>5

\* The array of CallInfos has room for one frame more.
LEMMA RoomMade ==
  ASSUME NEW c, NEW n, SizeOK(c, n), NEW c2, Len(c2) \in Nat, Len(c2) <= Len(c) + 1, NEW n2,
         Len(c) < n \/ n <= LUAI_MAXCCALLS, n > 0,
         n2 = IF Len(c) < n THEN n ELSE 2 * n
  PROVE  SizeOK(c2, n2)
<1>1. n \in Nat /\ Len(c) \in Nat /\ Len(c) <= n /\ LUAI_MAXCCALLS \in Nat /\ BASIC_CI_SIZE \in Nat
  BY Constants DEF SizeOK
<1>2. n2 \in Nat /\ Len(c2) \in Nat /\ Len(c2) <= n2
  BY <1>1
<1>3. n2 <= 2 * LUAI_MAXCCALLS \/ n2 = BASIC_CI_SIZE
  BY <1>1 DEF SizeOK
<1>. QED
  BY <1>2, <1>3 DEF SizeOK

LEMMA Entered ==
  ASSUME RunInv, SizeOK(ci, sizeCi), NEW f \in Nat \ {0}, NEW t \in Nat, NEW nr \in {MULTRET, 0, 1},
         stack[f] \in Fn, CI.base <= f, f < t, t <= Len(stack) + 1, RoomForCI, Enter(f, t, nr)
  PROVE  /\ Agree(ci, ci') /\ Len(ci') = Len(ci) + 1 /\ ci'[Len(ci) + 1].callee = stack[f]
         /\ SizeOK(ci', sizeCi')
         /\ Len(stack') \in Nat /\ Len(stack') >= Len(stack)
         /\ Running' => StackOK(stack', top') /\ FramesOK(ci', base', Len(stack'))
<1>. DEFINE g == stack[f]
            s == Grown(stack, t, Slots(g, t))
            b == IF g \in CFn THEN f + 1 ELSE NewBase(g, f, t)
            ciTop == IF g \in CFn THEN t + LUA_MINSTACK ELSE b + MaxStack[g]
            fr == [callee |-> g, fn |-> f, stale |-> FALSE, base |-> b, top |-> ciTop,
                   nres |-> nr, live |-> IF g \in CFn THEN 0 ELSE NumParams[g]]
            d == Corrected(ci, s)
<1>1. /\ stack' = IF g \in CFn THEN s ELSE Parameters(s, g, f, t)
      /\ ci' = Append(d, fr)
      /\ base' = b
      /\ top' = IF g \in CFn THEN t ELSE ciTop
      /\ GrowCI
      /\ outcome' = IF ciTop <= StackLast(s) THEN "running" ELSE "stack too short"
  BY DEF Enter
<1>2. \/ g \in CFn /\ g \notin LuaFn /\ g \notin VarArg
      \/ g \in LuaFn /\ g \notin CFn
  <2>1. g \in Fn
    OBVIOUS
  <2>. HIDE DEF g
  <2>. QED
    BY <2>1, FunctionAssumption DEF Fn
<1>3. /\ stack \in Seq(Value) /\ Len(stack) \in Nat /\ ci \in Seq(Frame) /\ Len(ci) \in Nat
      /\ Len(ci) >= 1
      /\ base = CI.base /\ CI.base \in Nat
  BY RunFacts
<1>4. s \in Seq(Value) /\ Len(s) \in Nat /\ Len(s) >= Len(stack)
  <2>1. Slots(g, t) \in Nat
    BY SlotsNat
  <2>. QED
    BY <2>1, <1>3, GrownStack
<1>5. SameFrames(ci, d)
  BY <1>3, CorrectedFrames
<1>. HIDE DEF s, d
<1>6. /\ b \in Nat \ {0} /\ f < b /\ (g \in VarArg => f + NumParams[g] < b)
      /\ ciTop \in Nat \ {0}
  <2>1. CASE g \in CFn /\ g \notin LuaFn /\ g \notin VarArg
    BY <2>1, Constants
  <2>2. CASE g \in LuaFn /\ g \notin CFn
    <3>1. MaxStack[g] \in Nat
      BY <2>2, FunctionAssumption
    <3>2. /\ NewBase(g, f, t) \in Nat \ {0} /\ f < NewBase(g, f, t)
          /\ g \in VarArg => f + NumParams[g] < NewBase(g, f, t)
      BY <2>2, NewBaseAbove
    <3>. HIDE DEF g
    <3>. QED
      BY <3>1, <3>2, <2>2
  <2>. QED
    BY <1>2, <2>1, <2>2
<1>6a. g \in LuaFn => /\ NumParams[g] \in Nat /\ MaxStack[g] \in Nat /\ MaxStack[g] >= NumParams[g]
                      /\ MaxStack[g] >= 2
  BY FunctionAssumption
<1>6b. g \in Fn
  OBVIOUS
<1>7. fr \in Frame
  <2>. DEFINE live == IF g \in CFn THEN 0 ELSE NumParams[g]
  <2>1. live \in Nat
    BY <1>2, <1>6a
  <2>2. g \in Fn \cup {Nil}
    BY <1>6b
  <2>. HIDE DEF g, b, ciTop, live
  <2>3. [callee |-> g, fn |-> f, stale |-> FALSE, base |-> b, top |-> ciTop,
         nres |-> nr, live |-> live] \in Frame
    BY <2>1, <2>2, <1>6 DEF Frame
  <2>. QED
    BY <2>3 DEF live
<1>8. /\ d \in Seq(Frame) /\ Len(d) = Len(ci)
      /\ \A i \in 1 .. Len(ci) : d[i].callee = ci[i].callee /\ d[i].base = ci[i].base
  BY <1>5 DEF SameFrames
<1>9. /\ fr.callee = g /\ fr.fn = f /\ fr.base = b /\ fr.top = ciTop
      /\ fr.live = IF g \in CFn THEN 0 ELSE NumParams[g]
  OBVIOUS
<1>. HIDE DEF fr
<1>10. /\ Len(ci') = Len(ci) + 1 /\ ci'[Len(ci) + 1] = fr
       /\ \A i \in 1 .. Len(ci) : ci'[i] = d[i]
  <2>1. ci' = Append(d, fr)
    BY <1>1
  <2>2. /\ Len(Append(d, fr)) = Len(d) + 1 /\ Append(d, fr)[Len(d) + 1] = fr
        /\ \A i \in 1 .. Len(d) : Append(d, fr)[i] = d[i]
    BY <1>7, <1>8, AppendProperties
  <2>. QED
    BY <2>1, <2>2, <1>8
<1>11. Agree(ci, ci') /\ ci'[Len(ci) + 1].callee = stack[f]
  <2>1. Len(ci') \in Nat
    BY <1>3, <1>10
  <2>2. \A i \in 1 .. Len(ci) : ci'[i].callee = ci[i].callee /\ ci'[i].base = ci[i].base
    BY <1>8, <1>10
  <2>. QED
    BY <2>1, <2>2, <1>3, <1>9, <1>10 DEF Agree
<1>12. SizeOK(ci', sizeCi')
  <2>1. sizeCi > 0
    BY <1>3 DEF SizeOK
  <2>2. Len(ci') \in Nat /\ Len(ci') <= Len(ci) + 1
    BY <1>3, <1>10
  <2>3. sizeCi' = IF Len(ci) < sizeCi THEN sizeCi ELSE 2 * sizeCi
    BY <1>1 DEF GrowCI
  <2>. QED
    BY <2>1, <2>2, <2>3, RoomMade DEF RoomForCI
<1>13. stack' \in Seq(Value) /\ Len(stack') = Len(s)
  <2>1. CASE g \in CFn
    BY <2>1, <1>1, <1>4
  <2>2. CASE g \in LuaFn /\ g \notin CFn
    <3>1. t <= Len(s) + 1
      BY <1>3, <1>4
    <3>2. Parameters(s, g, f, t) \in Seq(Value) /\ Len(Parameters(s, g, f, t)) = Len(s)
      BY <2>2, <3>1, <1>4, ParametersTyped
    <3>. QED
      BY <2>2, <3>2, <1>1
  <2>. QED
    BY <1>2, <2>1, <2>2
<1>14. ASSUME Running'
       PROVE  StackOK(stack', top') /\ FramesOK(ci', base', Len(stack'))
  <2>1. ciTop <= Len(s)
    <3>1. outcome' = "running"
      BY <1>14 DEF Running
    <3>2. ciTop <= StackLast(s)
      <4>. HIDE DEF ciTop
      <4>. QED
        BY <3>1, <1>1
    <3>. HIDE DEF ciTop
    <3>. QED
      BY <3>2, <1>4, <1>6, Constants DEF StackLast
  <2>2. FrameFits(fr, Len(s))
    <3>1. fr.fn < fr.base /\ fr.top <= Len(s)
      BY <2>1, <1>6, <1>9
    <3>1a. fr.base <= fr.top
      <4>1. CASE g \in CFn
        <5>1. b = f + 1 /\ ciTop = t + LUA_MINSTACK
          BY <4>1
        <5>. HIDE DEF g, b, ciTop
        <5>. QED
          BY <5>1, <1>9, Constants
      <4>2. CASE g \in LuaFn /\ g \notin CFn
        <5>1. ciTop = b + MaxStack[g] /\ MaxStack[g] \in Nat
          BY <4>2, <1>6a
        <5>. HIDE DEF g, b, ciTop
        <5>. QED
          BY <5>1, <1>9, <1>6
      <4>. QED
        BY <1>2, <4>1, <4>2
    <3>2. fr.callee \in LuaFn => fr.base + MaxStack[fr.callee] <= Len(s)
      <4>1. g \in LuaFn => ciTop = b + MaxStack[g]
        BY <1>2
      <4>. HIDE DEF ciTop, g, b
      <4>. QED
        BY <4>1, <2>1, <1>9
    <3>3. fr.callee \in VarArg => fr.fn + NumParams[fr.callee] < fr.base
      BY <1>6, <1>9
    <3>4. fr.base + fr.live <= Len(s) + 1
      <4>1. CASE g \in CFn
        <5>1. f + 1 <= Len(s) + 1 /\ b = f + 1 /\ fr.live = 0
          BY <4>1, <1>3, <1>4, <1>9
        <5>. HIDE DEF g, b
        <5>. QED
          BY <5>1, <1>9, <1>4
      <4>2. CASE g \in LuaFn /\ g \notin CFn
        <5>1. fr.live = NumParams[g] /\ ciTop = b + MaxStack[g]
          BY <4>2, <1>9
        <5>2. NumParams[g] \in Nat /\ MaxStack[g] \in Nat /\ MaxStack[g] >= NumParams[g]
          BY <4>2, <1>6a
        <5>. HIDE DEF g, b, ciTop
        <5>. QED
          BY <5>1, <5>2, <2>1, <1>4, <1>6, <1>9
      <4>. QED
        BY <1>2, <4>1, <4>2
    <3>. QED
      BY <3>1, <3>1a, <3>2, <3>3, <3>4 DEF FrameFits
  <2>3. FramesOK(d, base, Len(s))
    BY <1>3, <1>4, <1>5, SameFramesOK DEF RunInv
  <2>4. FramesOK(ci', base', Len(s))
    <3>1. base <= fr.fn
      BY <1>3, <1>9
    <3>2. FramesOK(Append(d, fr), fr.base, Len(s))
      BY <1>7, <2>2, <2>3, <3>1, FramesPushed
    <3>3. ci' = Append(d, fr) /\ base' = fr.base
      BY <1>1, <1>9
    <3>. QED
      BY <3>2, <3>3
  <2>5. top' \in 1 .. Len(s)
    <3>1. CASE g \in CFn
      <4>1. top' = t /\ ciTop = t + LUA_MINSTACK
        BY <3>1, <1>1
      <4>. HIDE DEF ciTop, g
      <4>. QED
        BY <4>1, <2>1, <1>4, Constants
    <3>2. CASE g \notin CFn
      <4>1. top' = ciTop
        BY <3>2, <1>1
      <4>. HIDE DEF ciTop, g
      <4>. QED
        BY <4>1, <2>1, <1>4, <1>6
    <3>. QED
      BY <3>1, <3>2
  <2>. QED
    BY <2>4, <2>5, <1>13 DEF StackOK
<1>. QED
  BY <1>4, <1>10, <1>11, <1>12, <1>13, <1>14
-----------------------------------------------------------------------------
(* Leaving a function *)

\* What a dPCall of host restores once the host activations are hs2.
EndsPCalls(hs2, e2, c2, m2) ==
  \A h \in Handlers(host, Len(host) + 1) :
    Len(hs2) < h => /\ Len(c2) = host[h].ci /\ m2 = host[h].nCCalls /\ e2 = host[h].previous

LEMMA HostReturns ==
  ASSUME RunInv, Runner.kind # "pcall", Len(host) > 1,
         NEW c2, Agree(ci, c2), Len(c2) + 1 = Len(ci), NEW len2 \in Nat, len2 >= Len(stack),
         NEW e2, e2 = IF Len(host) - Len(Returned) = 2 THEN host[Len(host) - 1].previous ELSE errorJmp,
         NEW m2, m2 = IF Runner.byDCall /\ ~(Runner.kind = "execute" /\ Runner.calls > 1)
                      THEN nCCalls - 1 ELSE nCCalls
  PROVE  /\ HostInv(Returned, e2, c2, m2, len2) /\ NotWaiting(Returned)
         /\ EndsPCalls(Returned, e2, c2, m2)
<1>. DEFINE L == Len(host)
<1>1. /\ host \in Seq(Entry) /\ L \in Nat /\ L \in 1 .. L /\ Runner = host[L] /\ Runner \in Entry
      /\ Len(ci) \in Nat /\ Len(stack) \in Nat /\ nCCalls \in Nat
  BY RunFacts DEF Runner
<1>2. HostInv(host, errorJmp, ci, nCCalls, Len(stack))
  BY DEF RunInv
<1>3. ~(L \in Handlers(host, L + 1))
  BY <1>1 DEF Handlers
<1>4. CASE Runner.kind = "execute" /\ Runner.calls > 1
  <2>. DEFINE k == Runner.calls - 1
  <2>1. Runner.calls \in Nat \ {0} /\ k \in Nat \ {0} /\ k + 1 = Runner.calls
    <3>1. Runner.calls \in Nat \ {0}
      BY <1>1, <1>4, EntryFields
    <3>2. \A w \in Nat : w > 1 => w - 1 \in Nat \ {0} /\ (w - 1) + 1 = w
      OBVIOUS
    <3>. QED
      BY <3>1, <3>2, <1>4
  <2>2. Returned = [host EXCEPT ![Len(host)].calls = k]
    BY <1>1, <1>4 DEF Returned
  <2>3. Len(Returned) = L
    BY <1>1, <2>2
  <2>4. e2 = errorJmp /\ m2 = nCCalls
    <3>1. Len(host) - Len(Returned) # 2
      BY <1>1, <2>3
    <3>. QED
      BY <3>1, <1>4
  <2>5. Len(c2) + host[Len(host)].calls = Len(ci) + k
    <3>. DEFINE w == host[Len(host)].calls  a == Len(c2)  b == Len(ci)
    <3>1. w \in Nat /\ k \in Nat /\ k + 1 = w /\ a \in Nat /\ b \in Nat /\ a + 1 = b
      BY <1>1, <2>1 DEF Agree
    <3>. HIDE DEF w, k, a, b
    <3>2. a + w = b + k
      BY <3>1
    <3>. QED
      BY <3>2 DEF w, a, b
  <2>6. \A i \in Len(ci) + 1 .. Len(c2) : c2[i].callee \in LuaFn
    BY <1>1 DEF Agree
  <2>. HIDE DEF k
  <2>7. /\ HostInv([host EXCEPT ![Len(host)].calls = k], errorJmp, c2, nCCalls, len2)
        /\ NotWaiting([host EXCEPT ![Len(host)].calls = k])
    BY <1>1, <1>2, <1>4, <2>1, <2>5, <2>6, HostRecounted
  <2>8. \A h \in Handlers(host, Len(host) + 1) : ~(Len(Returned) < h)
    BY <1>1, <2>3 DEF Handlers
  <2>. QED
    BY <2>2, <2>4, <2>7, <2>8 DEF EndsPCalls
<1>5. CASE ~(Runner.kind = "execute" /\ Runner.calls > 1)
  <2>. DEFINE below == SubSeq(host, 1, L - 1)
  <2>1. below \in Seq(Entry) /\ Len(below) = L - 1 /\ \A i \in 1 .. L - 1 : below[i] = host[i]
    BY <1>1
  <2>2. below[Len(below)] = host[L - 1] /\ L - 1 \in 1 .. L /\ L - 1 \in Nat
    BY <1>1, <2>1
  <2>3. Returned = IF host[L - 1].kind = "pcall" THEN SubSeq(below, 1, L - 2) ELSE below
    <3>1. Returned = IF below[Len(below)].kind = "pcall" THEN SubSeq(below, 1, Len(below) - 1) ELSE below
      BY <1>5 DEF Returned
    <3>2. Len(below) - 1 = L - 2
      BY <1>1, <2>1
    <3>. QED
      BY <3>1, <3>2, <2>2
  <2>4. Weight(host[L]) = 1
    <3>0. Runner.kind = "execute" => Runner.calls \in Nat \ {0}
      BY <1>1, EntryFields
    <3>0a. \A w \in Nat \ {0} : ~(w > 1) => w = 1
      OBVIOUS
    <3>1. Runner.kind = "execute" => Runner.calls = 1
      BY <3>0, <3>0a, <1>5
    <3>2. Runner.kind \in {"execute", "function"}
      BY <1>1, EntryFields
    <3>. QED
      BY <3>1, <3>2, <1>1 DEF Weight
  <2>5. m2 = IF host[L].byDCall THEN nCCalls - 1 ELSE nCCalls
    BY <1>1, <1>5
  <2>6. CASE host[L - 1].kind # "pcall"
    <3>1. Returned = SubSeq(host, 1, L - 1) /\ Len(Returned) = L - 1
      BY <2>1, <2>3, <2>6
    <3>2. e2 = errorJmp
      <4>1. Len(host) - Len(Returned) # 2
        BY <1>1, <3>1
      <4>. QED
        BY <4>1
    <3>3. /\ HostInv(SubSeq(host, 1, L - 1), errorJmp, c2,
                     IF host[L].byDCall THEN nCCalls - 1 ELSE nCCalls, len2)
          /\ NotWaiting(SubSeq(host, 1, L - 1))
      BY <1>1, <1>2, <2>4, <2>6, HostPopped
    <3>4. ASSUME NEW h \in Handlers(host, Len(host) + 1)
          PROVE  ~(Len(Returned) < h)
      <4>1. h \in 1 .. L /\ h # L
        BY <1>1, <1>3 DEF Handlers
      <4>. QED
        BY <4>1, <3>1, <1>1
    <3>. QED
      BY <2>5, <3>1, <3>2, <3>3, <3>4 DEF EndsPCalls
  <2>7. CASE host[L - 1].kind = "pcall"
    <3>. DEFINE h == L - 1
    <3>1. h \in Handlers(host, Len(host) + 1) /\ h \in Nat /\ h + 1 = L /\ h < L /\ h - 1 = L - 2 /\ h \in 1 .. L
          /\ host[h].kind = "pcall"
      BY <1>1, <2>2, <2>7 DEF Handlers
    <3>1a. host[Len(host) - 1] = host[h]
      OBVIOUS
    <3>. HIDE DEF h
    <3>1b. host[h] \in Entry
      BY <1>1, <3>1
    <3>2. Returned = SubSeq(host, 1, h - 1) /\ Len(Returned) = h - 1
      <4>1. Returned = SubSeq(below, 1, L - 2)
        BY <2>3, <2>7
      <4>. HIDE DEF below
      <4>2. L - 2 \in Nat
        BY <1>1
      <4>3. SubSeq(below, 1, L - 2) = SubSeq(host, 1, L - 2)
        BY <1>1, <2>1, <4>2, SMTT(30)
      <4>4. Len(SubSeq(host, 1, L - 2)) = L - 2
        <5>. DEFINE q == L - 2
        <5>1. q \in 0 .. Len(host)
          BY <1>1, <4>2
        <5>. HIDE DEF q
        <5>2. Len(SubSeq(host, 1, q)) = q
          BY <5>1, <1>1
        <5>. QED
          BY <5>2 DEF q
      <4>. QED
        BY <4>1, <4>3, <4>4, <3>1
    <3>3. e2 = host[h].previous
      <4>1. Len(host) - Len(Returned) = 2
        BY <1>1, <3>1, <3>2
      <4>. QED
        BY <4>1, <3>1a
    <3>4. Len(c2) = host[h].ci
      <4>1. PICK first \in [1 .. L + 1 -> Nat] : Runs(first, host, ci)
        BY <1>2 DEF HostInv, RunsOK
      <4>2. first[L + 1] = first[L] + 1 /\ first[L + 1] = Len(ci) + 1
        BY <4>1, <2>4, <1>1 DEF Runs
      <4>3. first[h + 1] = first[h] + Weight(host[h]) /\ first[h] = host[h].ci + 1
        BY <4>1, <3>1 DEF Runs
      <4>4. Weight(host[h]) = 0 /\ host[h].ci \in Nat
        BY <3>1, <3>1b, EntryFields DEF Weight
      <4>. DEFINE x == first[L]  y == first[h]  z == host[h].ci  a == Len(c2)  b == Len(ci)
      <4>5. /\ x \in Nat /\ y \in Nat /\ z \in Nat /\ a \in Nat /\ b \in Nat
            /\ x + 1 = b + 1 /\ x = y + 0 /\ y = z + 1 /\ a + 1 = b
        <5>1. x \in Nat /\ y \in Nat
          <6>1. L \in 1 .. L + 1 /\ h \in 1 .. L + 1
            BY <1>1, <3>1
          <6>. QED
            BY <6>1, <4>1
        <5>2. a \in Nat /\ b \in Nat
          BY DEF Agree
        <5>3. first[h + 1] = x
          BY <3>1
        <5>. QED
          BY <5>1, <5>2, <5>3, <4>2, <4>3, <4>4
      <4>. HIDE DEF x, y, z, a, b
      <4>6. a = z
        BY <4>5
      <4>. QED
        BY <4>6 DEF a, z
    <3>5. m2 = host[h].nCCalls
      <4>1. host[h + 1].byDCall
        BY <1>2, <3>1 DEF HostInv, PCallsOK
      <4>2. host[L].byDCall
        BY <4>1, <3>1
      <4>3. nCCalls = Cardinality(DCalls(host, L + 1)) /\ host[h].nCCalls = Cardinality(DCalls(host, h))
        BY <1>2, <3>1 DEF HostInv, CountsOK
      <4>4. Cardinality(DCalls(host, L + 1)) = Cardinality(DCalls(host, L)) + 1
        BY <4>2, <1>1, CountLast
      <4>5. Cardinality(DCalls(host, h + 1)) = Cardinality(DCalls(host, h))
        <5>1. ~host[h].byDCall
          BY <3>1, <3>1b, EntryFields
        <5>2. Cardinality(DCalls(host, h)) \in Nat
          BY <3>1, DCallsCounted
        <5>. QED
          <6>1. host \in Seq(Entry) /\ h \in 1 .. Len(host)
            BY <1>1, <3>1
          <6>2. Cardinality(DCalls(host, h + 1))
                = Cardinality(DCalls(host, h)) + (IF host[h].byDCall THEN 1 ELSE 0)
            BY <6>1, CountLast
          <6>. QED
            BY <5>1, <5>2, <6>2
      <4>6. Cardinality(DCalls(host, h)) \in Nat
        BY <3>1, DCallsCounted
      <4>7. nCCalls = host[h].nCCalls + 1 /\ host[h].nCCalls \in Nat
        BY <3>1, <4>3, <4>4, <4>5, <4>6
      <4>8. m2 = nCCalls - 1
        BY <4>2, <2>5
      <4>. QED
        BY <4>7, <4>8
    <3>6. /\ HostInv(SubSeq(host, 1, h - 1), host[h].previous, c2, host[h].nCCalls, len2)
          /\ NotWaiting(SubSeq(host, 1, h - 1))
      BY <1>1, <1>2, <3>1, <3>4, HostUnwound
    <3>7. ASSUME NEW j \in Handlers(host, Len(host) + 1), Len(Returned) < j
          PROVE  j = h
      <4>1. j \in 1 .. L /\ j # L
        BY <1>1, <1>3 DEF Handlers
      <4>. QED
        BY <4>1, <3>1, <3>2, <3>7, <1>1, SMTT(20)
    <3>. QED
      BY <3>2, <3>3, <3>4, <3>5, <3>6, <3>7 DEF EndsPCalls
  <2>. QED
    BY <2>6, <2>7
<1>. QED
  BY <1>4, <1>5

\* What PCallRestores says of one step.
Restores ==
  \A h \in DOMAIN host :
    host[h].kind = "pcall" /\ Len(host') < h /\ outcome' = "running" =>
      /\ Len(ci') = host[h].ci
      /\ nCCalls' = host[h].nCCalls
      /\ base' = ci[host[h].ci].base
      /\ errorJmp' = host[h].previous

LEMMA StepRestores ==
  ASSUME RunInv, EndsPCalls(host', errorJmp', ci', nCCalls'),
         \A h \in Handlers(host, Len(host) + 1) :
           Len(host') < h => base' = ci[Len(ci')].base
  PROVE  Restores
<1>. SUFFICES ASSUME NEW h \in DOMAIN host, host[h].kind = "pcall", Len(host') < h
              PROVE  /\ Len(ci') = host[h].ci
                     /\ nCCalls' = host[h].nCCalls
                     /\ base' = ci[host[h].ci].base
                     /\ errorJmp' = host[h].previous
  BY DEF Restores
<1>1. host \in Seq(Entry) /\ Len(host) \in Nat
  BY RunFacts
<1>2. h \in Handlers(host, Len(host) + 1)
  BY <1>1 DEF Handlers
<1>. QED
  BY <1>2 DEF EndsPCalls

LEMMA HostLonger ==
  ASSUME RunInv, Len(host') \in Nat, Len(host') >= Len(host)
  PROVE  Restores
<1>1. host \in Seq(Entry) /\ Len(host) \in Nat
  BY RunFacts
<1>2. \A h \in DOMAIN host : ~(Len(host') < h)
  BY <1>1
<1>. QED
  BY <1>2 DEF Restores

\* The place of the function lies above the caller's base, and the results fit.
LEMMA ResultsFitStack ==
  ASSUME RunInv, Len(ci) > 1, NEW first \in Nat, NEW t \in Nat, CI.base <= first, first <= t,
         t <= Len(stack) + 1
  PROVE  LET after == CI.fn + Delivered(first, t)
         IN /\ after \in Nat \ {0} /\ after <= Len(stack)
            /\ Caller.base \in Nat \ {0} /\ Caller.base <= after
            /\ Caller.top \in Nat \ {0} /\ Caller.top <= Len(stack)
            /\ Len(ci) - 1 \in 1 .. Len(ci) /\ Caller = ci[Len(ci) - 1]
<1>. DEFINE b == CI.base  f == CI.fn  len == Len(stack)  n == Len(ci) - 1
<1>1. /\ b \in Nat \ {0} /\ f \in Nat \ {0} /\ len \in Nat /\ CI.top \in Nat
      /\ CI.nres \in {MULTRET, 0, 1} /\ f < b /\ b <= CI.top /\ CI.top <= len
  BY RunFacts DEF FrameFits
<1>2. Len(ci) \in Nat /\ ci \in Seq(Frame)
  BY RunFacts
<1>3. n \in 1 .. Len(ci) /\ n \in 1 .. Len(ci) - 1 /\ n + 1 = Len(ci)
  BY <1>2
<1>4. Caller = ci[n] /\ CI = ci[n + 1]
  BY <1>3 DEF Caller, CI
<1>. HIDE DEF n
<1>5. Caller.base \in Nat \ {0} /\ Caller.top \in Nat \ {0}
  BY <1>2, <1>3, <1>4, FrameFields
<1>6. Caller.base <= f
  BY <1>3, <1>4 DEF RunInv, FramesOK
<1>7. Caller.top <= len
  BY <1>3, <1>4 DEF RunInv, FramesOK, FrameFits
<1>8. \/ Delivered(first, t) = t - first
      \/ Delivered(first, t) = 0
      \/ Delivered(first, t) = 1
  BY <1>1 DEF Delivered
<1>. HIDE DEF b, f, len
<1>9. /\ f + Delivered(first, t) \in Nat \ {0} /\ f + Delivered(first, t) <= len
      /\ Caller.base <= f + Delivered(first, t)
  <2>0. b <= first /\ first <= t /\ t <= len + 1 /\ b <= len
    BY <1>1 DEF b, len
  <2>1. CASE Delivered(first, t) = t - first
    BY <2>0, <2>1, <1>1, <1>5, <1>6
  <2>2. CASE Delivered(first, t) = 0
    BY <2>0, <2>2, <1>1, <1>5, <1>6
  <2>3. CASE Delivered(first, t) = 1
    BY <2>0, <2>3, <1>1, <1>5, <1>6
  <2>. QED
    BY <1>8, <2>1, <2>2, <2>3
<1>. QED
  BY <1>3, <1>4, <1>5, <1>7, <1>9 DEF b, f, len, n

LEMMA ResultsTyped ==
  ASSUME RunInv, NEW first \in Nat \ {0}, NEW t \in Nat, t <= Len(stack) + 1
  PROVE  Results(first, t) \in Seq(Value) /\ Len(Results(first, t)) = Len(stack)
<1>1. stack \in Seq(Value) /\ Len(stack) \in Nat /\ CI.fn \in Nat \ {0}
  BY RunFacts
<1>. DEFINE f == CI.fn
            v(p) == IF p < f \/ p >= f + Delivered(first, t) THEN stack[p]
                    ELSE IF first + p - f < t THEN stack[first + p - f] ELSE Nil
<1>2. CASE CI.stale
  BY <1>1, <1>2 DEF Results
<1>3. CASE ~CI.stale
  <2>1. Results(first, t) = [p \in 1 .. Len(stack) |-> v(p)]
    BY <1>3 DEF Results
  <2>. HIDE DEF f
  <2>2. ASSUME NEW p \in 1 .. Len(stack)
        PROVE  v(p) \in Value
    <3>1. stack[p] \in Value /\ Nil \in Value
      BY <1>1 DEF Value
    <3>2. ASSUME ~(p < f), first + p - f < t
          PROVE  stack[first + p - f] \in Value
      <4>1. first + p - f \in 1 .. Len(stack)
        BY <1>1, <3>2 DEF f
      <4>. QED
        BY <4>1, <1>1
    <3>. QED
      BY <3>1, <3>2
  <2>. HIDE DEF v
  <2>3. [p \in 1 .. Len(stack) |-> v(p)] \in Seq(Value) /\ Len([p \in 1 .. Len(stack) |-> v(p)]) = Len(stack)
    BY <1>1, <2>2
  <2>. QED
    BY <2>1, <2>3
<1>. QED
  BY <1>2, <1>3

LEMMA FunctionLeft ==
  ASSUME IInv, Running, Runner.kind # "pcall", Len(host) > 1, Len(ci) > 1,
         NEW first \in Nat, NEW t \in Nat, CI.base <= first, first <= t, t <= Len(stack) + 1,
         Poscall(first, t)
  PROVE  IInv' /\ Restores
<1>. DEFINE after == CI.fn + Delivered(first, t)
            frames == SubSeq(ci, 1, Len(ci) - 1)
            n == Len(ci) - 1
            len == Len(stack)
<1>1. RunInv /\ SizeOK(ci, sizeCi)
  BY DEF IInv
<1>2. /\ ci \in Seq(Frame) /\ Len(ci) \in Nat /\ len \in Nat /\ CI.base \in Nat \ {0} /\ n \in Nat
      /\ FramesOK(ci, base, len) /\ host \in Seq(Entry)
  BY <1>1, RunFacts DEF RunInv
<1>3. /\ after \in Nat \ {0} /\ after <= len
      /\ Caller.base \in Nat \ {0} /\ Caller.base <= after
      /\ Caller.top \in Nat \ {0} /\ Caller.top <= len
      /\ n \in 1 .. Len(ci) /\ Caller = ci[n]
  BY <1>1, ResultsFitStack
<1>. HIDE DEF after, n, len
<1>4. Len(frames) = n /\ frames \in Seq(Frame) /\ FramesOK(frames, Caller.base, len)
      /\ \A i \in 1 .. n : frames[i] = ci[i]
  <2>1. frames = SubSeq(ci, 1, n)
    BY DEF n
  <2>. HIDE DEF frames
  <2>2. FramesOK(frames, Caller.base, len) /\ Len(frames) = n
    BY <2>1, <1>2, <1>3, FramesCut
  <2>3. \A i \in 1 .. n : frames[i] = ci[i]
    BY <2>1, <1>2, <1>3
  <2>. QED
    BY <2>2, <2>3 DEF FramesOK
<1>. HIDE DEF frames
<1>5. /\ stack' = Results(first, t)
      /\ base' = Caller.base
      /\ top' = IF Caller.callee \in LuaFn /\ CI.nres # MULTRET THEN Caller.top ELSE after
      /\ ci' = IF Caller.callee \in LuaFn THEN [frames EXCEPT ![n].live = after - Caller.base]
               ELSE IF CI.nres = MULTRET /\ after >= Caller.top
               THEN [frames EXCEPT ![n].top = after]
               ELSE frames
      /\ nCCalls' = IF Runner.byDCall /\ ~(Runner.kind = "execute" /\ Runner.calls > 1)
                    THEN nCCalls - 1 ELSE nCCalls
      /\ host' = Returned
      /\ errorJmp' = IF Len(host) - Len(Returned) = 2 THEN host[Len(host) - 1].previous
                     ELSE errorJmp
      /\ sizeCi' = sizeCi
  BY <1>4 DEF Poscall, after, frames, n
<1>6. stack' \in Seq(Value) /\ Len(stack') = len
  <2>1. first \in Nat \ {0}
    BY <1>2
  <2>. QED
    BY <2>1, <1>1, <1>5, ResultsTyped DEF len
<1>7. StackOK(stack', top')
  BY <1>2, <1>3, <1>5, <1>6, SMTT(20) DEF StackOK
<1>8. /\ ci' \in Seq(Frame) /\ Len(ci') = n
      /\ \A i \in 1 .. n : /\ ci'[i].callee = frames[i].callee /\ ci'[i].base = frames[i].base
                           /\ ci'[i].fn = frames[i].fn /\ FrameFits(ci'[i], len)
  <2>1. \A i \in 1 .. n : FrameFits(frames[i], len) /\ frames[i] \in Frame
    BY <1>4 DEF FramesOK
  <2>2. n \in 1 .. n
    BY <1>2, <1>3
  <2>3. frames[n] = Caller
    BY <1>3, <1>4, <2>2
  <2>4. CASE Caller.callee \in LuaFn
    <3>. DEFINE fr == [frames[n] EXCEPT !.live = after - Caller.base]
    <3>1. after - Caller.base \in Nat
      BY <1>3
    <3>2. /\ fr \in Frame /\ fr.callee = frames[n].callee /\ fr.base = frames[n].base
          /\ fr.fn = frames[n].fn /\ fr.top = frames[n].top /\ fr.live = after - Caller.base
      BY <3>1, <2>1, <2>2 DEF Frame
    <3>. HIDE DEF fr
    <3>3. FrameFits(fr, len)
      <4>1. FrameFits(frames[n], len)
        BY <2>1, <2>2
      <4>2. fr.base + fr.live <= len + 1
        BY <3>2, <2>3, <1>2, <1>3
      <4>. QED
        BY <4>1, <4>2, <3>2 DEF FrameFits
    <3>4. ci' = [frames EXCEPT ![n] = fr]
      BY <1>5, <2>4 DEF fr
    <3>. QED
      BY <3>2, <3>3, <3>4, <2>1, <2>2, <1>4
  <2>5. CASE Caller.callee \notin LuaFn /\ CI.nres = MULTRET /\ after >= Caller.top
    <3>. DEFINE fr == [frames[n] EXCEPT !.top = after]
    <3>2. /\ fr \in Frame /\ fr.callee = frames[n].callee /\ fr.base = frames[n].base
          /\ fr.fn = frames[n].fn /\ fr.top = after /\ fr.live = frames[n].live
      BY <1>3, <2>1, <2>2 DEF Frame
    <3>. HIDE DEF fr
    <3>3. FrameFits(fr, len)
      <4>1. FrameFits(frames[n], len)
        BY <2>1, <2>2
      <4>2. fr.base <= fr.top /\ fr.top <= len
        BY <3>2, <2>3, <1>3
      <4>. QED
        BY <4>1, <4>2, <3>2 DEF FrameFits
    <3>4. ci' = [frames EXCEPT ![n] = fr]
      BY <1>5, <2>5 DEF fr
    <3>. QED
      BY <3>2, <3>3, <3>4, <2>1, <2>2, <1>4
  <2>6. CASE Caller.callee \notin LuaFn /\ ~(CI.nres = MULTRET /\ after >= Caller.top)
    <3>1. ci' = frames
      BY <1>5, <2>6
    <3>. QED
      BY <3>1, <2>1, <1>4
  <2>. QED
    BY <2>4, <2>5, <2>6
<1>9. FramesOK(ci', base', Len(stack'))
  <2>1. FramesOK(frames, Caller.base, len) /\ Len(ci') = Len(frames) /\ ci' \in Seq(Frame)
    BY <1>4, <1>8
  <2>2. \A i \in 1 .. Len(frames) :
          /\ ci'[i].callee = frames[i].callee /\ ci'[i].base = frames[i].base
          /\ ci'[i].fn = frames[i].fn /\ FrameFits(ci'[i], len)
    BY <1>4, <1>8
  <2>3. FramesOK(ci', Caller.base, len)
    BY <2>1, <2>2, FramesChanged
  <2>. QED
    BY <2>3, <1>5, <1>6
<1>10. Agree(ci, ci') /\ Len(ci') + 1 = Len(ci)
  <2>1. Len(ci') \in Nat /\ Len(ci') + 1 = Len(ci)
    BY <1>2, <1>8 DEF n
  <2>2. \A i \in 1 .. n : ci'[i].callee = ci[i].callee /\ ci'[i].base = ci[i].base
    BY <1>4, <1>8
  <2>3. \A i \in 1 .. Len(ci) : i <= Len(ci') => i \in 1 .. n
    BY <1>2, <1>8
  <2>. QED
    BY <2>1, <2>2, <2>3, <1>2 DEF Agree
<1>11. /\ HostInv(host', errorJmp', ci', nCCalls', Len(stack')) /\ NotWaiting(host')
       /\ EndsPCalls(host', errorJmp', ci', nCCalls')
  <2>1. Len(stack') \in Nat /\ Len(stack') >= Len(stack)
    BY <1>2, <1>6 DEF len
  <2>. QED
    BY <2>1, <1>1, <1>5, <1>10, HostReturns
<1>12. RunInv'
  BY <1>7, <1>9, <1>11 DEF RunInv, NotWaiting, Runner
<1>13. SizeOK(ci', sizeCi')
  <2>1. sizeCi' = sizeCi
    BY <1>5
  <2>. QED
    BY <2>1, <1>1, <1>2, <1>10 DEF SizeOK, Agree
<1>14. HostOK(host', errorJmp')
  BY <1>11 DEF HostInv
<1>15. Restores
  <2>1. base' = ci[Len(ci')].base
    BY <1>3, <1>5, <1>8
  <2>. QED
    BY <2>1, <1>1, <1>11, StepRestores
<1>. QED
  BY <1>12, <1>13, <1>14, <1>15 DEF IInv
-----------------------------------------------------------------------------
(* An error *)

LEMMA Thrown ==
  ASSUME IInv, Running, NEW s \in Seq(Value), Len(s) >= Len(stack), Throw(s)
  PROVE  IInv' /\ Restores
<1>1. CASE errorJmp = NoHandler
  <2>1. outcome' = "dead" /\ UNCHANGED <<ci, sizeCi, errorJmp, host>>
    BY <1>1 DEF Throw
  <2>2. ~Running' /\ Restores
    BY <2>1 DEF Running, Restores
  <2>3. HostOK(host', errorJmp') /\ SizeOK(ci', sizeCi')
    BY <2>1 DEF IInv
  <2>. QED
    BY <2>2, <2>3 DEF IInv
<1>2. CASE errorJmp # NoHandler
  <2>. DEFINE j == errorJmp
              h == host[j]
              cut == SubSeq(ci, 1, h.ci)
              frames == Corrected(cut, s)
              t == h.oldTop + 1
              k == h.ci
              len == Len(s)
  <2>1. /\ stack' = [s EXCEPT ![h.oldTop] = Message]
        /\ top' = t
        /\ ci' = IF h.nres = MULTRET /\ t >= frames[k].top
                 THEN [frames EXCEPT ![k].top = t] ELSE frames
        /\ base' = ci[k].base
        /\ nCCalls' = h.nCCalls
        /\ errorJmp' = h.previous
        /\ host' = SubSeq(host, 1, j - 1)
        /\ sizeCi' = sizeCi /\ outcome' = outcome
    BY <1>2 DEF Throw
  <2>2. RunInv /\ SizeOK(ci, sizeCi)
    BY DEF IInv
  <2>3. /\ ci \in Seq(Frame) /\ Len(ci) \in Nat /\ host \in Seq(Entry) /\ Len(host) \in Nat
        /\ Len(stack) \in Nat /\ len \in Nat /\ FramesOK(ci, base, Len(stack))
        /\ HostInv(host, errorJmp, ci, nCCalls, Len(stack))
    BY <2>2, RunFacts DEF RunInv
  <2>4. j \in Handlers(host, Len(host) + 1) /\ \A g \in Handlers(host, Len(host) + 1) : g <= j
    BY <1>2, <2>3 DEF HostInv, HostOK, HandlersOK, IsInnermost
  <2>5. /\ j \in 1 .. Len(host) /\ h.kind = "pcall" /\ h \in Entry
        /\ k \in 1 .. Len(ci) /\ ci[k].base <= h.oldTop /\ h.oldTop < Len(stack)
        /\ h.oldTop \in Nat \ {0}
    <3>1. j \in 1 .. Len(host) /\ h.kind = "pcall"
      BY <2>3, <2>4 DEF Handlers
    <3>2. k \in 1 .. Len(ci) /\ ci[k].base <= h.oldTop /\ h.oldTop < Len(stack)
      BY <2>3, <2>4 DEF HostInv, PCallsOK
    <3>3. h \in Entry
      BY <3>1, <2>3
    <3>. QED
      BY <3>1, <3>2, <3>3, EntryFields
  <2>6. t \in 1 .. len /\ h.oldTop \in 1 .. len
    <3>. HIDE DEF h
    <3>. QED
      BY <2>3, <2>5
  <2>. HIDE DEF h, t, k, j
  <2>7. cut \in Seq(Frame) /\ Len(cut) = k /\ FramesOK(cut, ci[k].base, Len(stack))
        /\ \A i \in 1 .. k : cut[i] = ci[i]
    <3>1. cut = SubSeq(ci, 1, k)
      BY DEF k
    <3>. HIDE DEF cut
    <3>2. FramesOK(cut, ci[k].base, Len(stack)) /\ Len(cut) = k
      BY <3>1, <2>3, <2>5, FramesCut
    <3>3. \A i \in 1 .. k : cut[i] = ci[i]
      BY <3>1, <2>3, <2>5
    <3>. QED
      BY <3>2, <3>3 DEF FramesOK
  <2>. HIDE DEF cut
  <2>8. SameFrames(cut, frames)
    BY <2>7, CorrectedFrames
  <2>. HIDE DEF frames
  <2>9. FramesOK(frames, ci[k].base, len)
    <3>1. len >= Len(stack)
      OBVIOUS
    <3>. HIDE DEF len
    <3>. QED
      BY <3>1, <2>3, <2>7, <2>8, SameFramesOK
  <2>10. /\ frames \in Seq(Frame) /\ Len(frames) = k /\ k \in 1 .. k
         /\ \A i \in 1 .. k : /\ frames[i].callee = ci[i].callee /\ frames[i].base = ci[i].base
                              /\ FrameFits(frames[i], len) /\ frames[i] \in Frame
    <3>1. frames \in Seq(Frame) /\ Len(frames) = k
      BY <2>7, <2>8 DEF SameFrames
    <3>2. \A i \in 1 .. k : frames[i].callee = ci[i].callee /\ frames[i].base = ci[i].base
      BY <2>7, <2>8 DEF SameFrames
    <3>3. \A i \in 1 .. k : FrameFits(frames[i], len)
      BY <3>1, <2>9 DEF FramesOK
    <3>4. k \in 1 .. k
      BY <2>5
    <3>. QED
      BY <3>1, <3>2, <3>3, <3>4
  <2>11. /\ ci' \in Seq(Frame) /\ Len(ci') = k
         /\ \A i \in 1 .. k : /\ ci'[i].callee = frames[i].callee /\ ci'[i].base = frames[i].base
                              /\ ci'[i].fn = frames[i].fn /\ FrameFits(ci'[i], len)
    <3>1. CASE h.nres = MULTRET /\ t >= frames[k].top
      <4>. DEFINE fr == [frames[k] EXCEPT !.top = t]
      <4>0. t \in Nat \ {0} /\ frames[k] \in Frame
        BY <2>6, <2>10
      <4>1. /\ fr \in Frame /\ fr.callee = frames[k].callee /\ fr.base = frames[k].base
            /\ fr.fn = frames[k].fn /\ fr.top = t /\ fr.live = frames[k].live
        BY <4>0 DEF Frame
      <4>2. frames[k].top \in Nat /\ frames[k].base \in Nat
        BY <4>0 DEF Frame
      <4>. HIDE DEF fr
      <4>3. FrameFits(fr, len)
        <5>1. FrameFits(frames[k], len)
          BY <2>10
        <5>2. fr.base <= fr.top /\ fr.top <= len
          BY <5>1, <4>0, <4>1, <4>2, <3>1, <2>6 DEF FrameFits
        <5>. QED
          BY <5>1, <5>2, <4>1 DEF FrameFits
      <4>4. ci' = [frames EXCEPT ![k] = fr]
        BY <2>1, <3>1 DEF fr
      <4>. QED
        BY <4>1, <4>3, <4>4, <2>10
    <3>2. CASE ~(h.nres = MULTRET /\ t >= frames[k].top)
      <4>1. ci' = frames
        BY <2>1, <3>2
      <4>. QED
        BY <4>1, <2>10
    <3>. QED
      BY <3>1, <3>2
  <2>12. FramesOK(ci', base', len)
    <3>1. Len(ci') = Len(frames) /\ ci' \in Seq(Frame)
      BY <2>10, <2>11
    <3>2. \A i \in 1 .. Len(frames) :
            /\ ci'[i].callee = frames[i].callee /\ ci'[i].base = frames[i].base
            /\ ci'[i].fn = frames[i].fn /\ FrameFits(ci'[i], len)
      BY <2>10, <2>11
    <3>3. FramesOK(ci', ci[k].base, len)
      BY <2>9, <3>1, <3>2, FramesChanged
    <3>. QED
      BY <3>3, <2>1
  <2>13. Agree(ci, ci') /\ Len(ci') = k
    <3>1. \A i \in 1 .. k : ci'[i].callee = ci[i].callee /\ ci'[i].base = ci[i].base
      BY <2>10, <2>11
    <3>2. k \in Nat /\ \A i \in 1 .. Len(ci) : i <= k => i \in 1 .. k
      BY <2>3, <2>5
    <3>. QED
      BY <3>1, <3>2, <2>3, <2>11 DEF Agree
  <2>14. HostInv(host', errorJmp', ci', nCCalls', len) /\ NotWaiting(host')
    <3>1. len >= Len(stack)
      OBVIOUS
    <3>2. Len(ci') = host[j].ci
      BY <2>13 DEF k, h
    <3>. HIDE DEF len
    <3>3. /\ HostInv(SubSeq(host, 1, j - 1), host[j].previous, ci', host[j].nCCalls, len)
          /\ NotWaiting(SubSeq(host, 1, j - 1))
      BY <3>1, <3>2, <2>3, <2>4, <2>13, HostUnwound
    <3>. QED
      BY <3>3, <2>1 DEF h
  <2>15. stack' \in Seq(Value) /\ Len(stack') = len
    <3>1. Message \in Value
      BY DEF Value
    <3>. QED
      BY <3>1, <2>1, <2>6
  <2>. HIDE DEF len
  <2>16. RunInv'
    <3>1. StackOK(stack', top')
      BY <2>1, <2>6, <2>15 DEF StackOK
    <3>. QED
      BY <3>1, <2>12, <2>14, <2>15 DEF RunInv, NotWaiting, Runner
  <2>17. SizeOK(ci', sizeCi')
    BY <2>1, <2>2, <2>3, <2>5, <2>13 DEF SizeOK
  <2>18. HostOK(host', errorJmp')
    BY <2>14 DEF HostInv
  <2>19. Restores
    <3>1. Len(host') = j - 1
      BY <2>1, <2>3, <2>5
    <3>2. ASSUME NEW g \in Handlers(host, Len(host) + 1), Len(host') < g
          PROVE  g = j
      <4>1. g \in 1 .. Len(host) /\ g <= j
        BY <2>3, <2>4 DEF Handlers
      <4>. QED
        BY <4>1, <3>1, <3>2, <2>3, <2>5
    <3>3. EndsPCalls(host', errorJmp', ci', nCCalls')
      BY <3>2, <2>1, <2>13 DEF EndsPCalls, h, k
    <3>4. base' = ci[Len(ci')].base
      BY <2>1, <2>13
    <3>. QED
      BY <3>3, <3>4, <2>2, StepRestores
  <2>. QED
    BY <2>16, <2>17, <2>18, <2>19 DEF IInv
<1>. QED
  BY <1>1, <1>2
-----------------------------------------------------------------------------
(* Calls *)

\* The next-state invariant from its parts.
LEMMA InvBuilt ==
  ASSUME Running' => StackOK(stack', top') /\ FramesOK(ci', base', Len(stack')),
         HostInv(host', errorJmp', ci', nCCalls', Len(stack')), NotWaiting(host'),
         SizeOK(ci', sizeCi')
  PROVE  IInv'
<1>1. Running' => RunInv'
  BY DEF RunInv, NotWaiting, Runner
<1>. QED
  BY <1>1 DEF IInv, HostInv

\* The error that growCI throws.
LEMMA ThrownGrown ==
  ASSUME IInv, Running, NEW t \in Nat, NEW g \in Fn, NEW n, n = Slots(g, t),
         Throw(Grown(stack, t, n))
  PROVE  IInv' /\ Restores
<1>1. stack \in Seq(Value)
  BY RunFacts DEF IInv
<1>2. n \in Nat
  BY SlotsNat
<1>3. Grown(stack, t, n) \in Seq(Value) /\ Len(Grown(stack, t, n)) >= Len(stack)
  BY <1>1, <1>2, GrownStack
<1>. QED
  BY <1>3, Thrown

LEMMA DCalled ==
  ASSUME IInv, Running, NEW f \in Nat \ {0}, NEW t \in Nat, NEW nr \in {MULTRET, 0, 1},
         CI.base <= f, f < t, t <= Len(stack) + 1, DCall(f, t, nr)
  PROVE  IInv' /\ Restores
<1>1. RunInv /\ SizeOK(ci, sizeCi) /\ HostInv(host, errorJmp, ci, nCCalls, Len(stack))
  BY DEF IInv, RunInv
<1>2. /\ stack \in Seq(Value) /\ Len(stack) \in Nat /\ nCCalls \in Nat
      /\ host \in Seq(Entry) /\ Len(host) \in Nat
  BY <1>1, RunFacts
<1>3. CASE Throw(stack)
  BY <1>2, <1>3, Thrown
<1>4. CASE stack[f] \in Fn /\ Throw(Grown(stack, t, Slots(stack[f], t)))
  BY <1>4, ThrownGrown
<1>5. CASE /\ ~TooManyCalls \/ errorJmp = NoHandler
           /\ stack[f] \in Fn /\ RoomForCI
           /\ Enter(f, t, nr)
           /\ nCCalls' = nCCalls + 1
           /\ host' = Append(host, IF stack[f] \in LuaFn THEN Execute ELSE GoFunction(TRUE))
           /\ UNCHANGED errorJmp
  <2>. DEFINE x == IF stack[f] \in LuaFn THEN Execute ELSE GoFunction(TRUE)
  <2>1. /\ Agree(ci, ci') /\ Len(ci') = Len(ci) + 1 /\ ci'[Len(ci) + 1].callee = stack[f]
        /\ SizeOK(ci', sizeCi')
        /\ Len(stack') \in Nat /\ Len(stack') >= Len(stack)
        /\ Running' => StackOK(stack', top') /\ FramesOK(ci', base', Len(stack'))
    BY <1>1, <1>5, Entered
  <2>2. /\ x \in Entry /\ x.kind # "pcall" /\ Weight(x) = 1 /\ x.byDCall
        /\ stack[f] \in LuaFn <=> x.kind = "execute"
    <3>1. CASE stack[f] \in LuaFn
      BY <3>1, NewEntry
    <3>2. CASE stack[f] \notin LuaFn
      BY <3>2, NewEntry
    <3>. QED
      BY <3>1, <3>2
  <2>3. host' = Append(host, x)
    BY <1>5
  <2>. HIDE DEF x
  <2>4. WithinLimit(host, errorJmp, nCCalls + 1)
    BY <1>2, <1>5, Constants DEF WithinLimit, TooManyCalls
  <2>5. /\ HostInv(Append(host, x), errorJmp, ci', nCCalls + 1, Len(stack'))
        /\ NotWaiting(Append(host, x))
    <3>1. nCCalls + 1 = nCCalls + (IF x.byDCall THEN 1 ELSE 0)
      BY <2>2
    <3>2. ci'[Len(ci) + 1].callee \in LuaFn <=> x.kind = "execute"
      BY <2>1, <2>2
    <3>. QED
      BY <3>1, <3>2, <2>1, <2>2, <2>4, <1>1, <1>2, HostPushed
  <2>6. IInv'
    BY <2>1, <2>3, <2>5, <1>5, InvBuilt
  <2>7. Len(host') \in Nat /\ Len(host') >= Len(host)
    BY <2>2, <2>3, <1>2
  <2>. QED
    BY <2>6, <2>7, <1>1, HostLonger
<1>. QED
  BY <1>3, <1>4, <1>5 DEF DCall

\* The top of the live registers lies in the stack or just above it.
LEMMA LiveTopInStack ==
  ASSUME RunInv
  PROVE  /\ LiveTop \in Nat \ {0} /\ LiveTop <= Len(stack) + 1 /\ LiveTop = CI.base + CI.live
         /\ base = CI.base /\ CI.base \in Nat \ {0} /\ CI.live \in Nat
         /\ \A f \in CI.base .. LiveTop - 1 : f \in Nat \ {0} /\ f < LiveTop /\ CI.base <= f
         /\ \A f \in base .. top - 1 : f \in Nat \ {0} /\ f < top /\ CI.base <= f /\ f < Len(stack)
         /\ top \in Nat /\ top <= Len(stack) + 1
<1>1. /\ CI.base \in Nat \ {0} /\ CI.live \in Nat /\ Len(stack) \in Nat /\ top \in 1 .. Len(stack)
      /\ base = CI.base
      /\ CI.base + CI.live <= Len(stack) + 1
  BY RunFacts DEF FrameFits
<1>. DEFINE b == CI.base  l == CI.live  n == Len(stack)
<1>2. LiveTop = b + l
  BY DEF LiveTop
<1>. HIDE DEF b, l, n
<1>3. b \in Nat \ {0} /\ l \in Nat /\ n \in Nat /\ b + l <= n + 1 /\ top \in 1 .. n /\ base = b
  BY <1>1 DEF b, l, n
<1>4. /\ LiveTop \in Nat \ {0} /\ LiveTop <= n + 1
      /\ \A f \in b .. LiveTop - 1 : f \in Nat \ {0} /\ f < LiveTop /\ b <= f
      /\ \A f \in base .. top - 1 : f \in Nat \ {0} /\ f < top /\ b <= f /\ f < n
      /\ top \in Nat /\ top <= n + 1
  BY <1>2, <1>3
<1>. QED
  BY <1>2, <1>3, <1>4 DEF b, l, n

LEMMA OpCallStep ==
  ASSUME IInv, Running, OpCall
  PROVE  IInv' /\ Restores
<1>1. RunInv /\ SizeOK(ci, sizeCi) /\ HostInv(host, errorJmp, ci, nCCalls, Len(stack))
  BY DEF IInv, RunInv
<1>2. /\ stack \in Seq(Value) /\ Len(stack) \in Nat /\ nCCalls \in Nat
      /\ host \in Seq(Entry) /\ Len(host) \in Nat /\ Len(host) \in 1 .. Len(host) /\ Len(ci) \in Nat
      /\ Runner \in Entry /\ Runner = host[Len(host)]
  BY <1>1, RunFacts DEF Runner
<1>3. Runner.kind = "execute"
  BY <1>1, RunnerOfFrame DEF OpCall
<1>4. PICK f \in CI.base .. LiveTop - 1, nr \in {MULTRET, 0, 1} :
        /\ stack[f] \in Fn
        /\ IF RoomForCI
           THEN /\ Enter(f, LiveTop, nr)
                /\ host' = IF stack[f] \in LuaFn
                           THEN [host EXCEPT ![Len(host)].calls = @ + 1]
                           ELSE Append(host, GoFunction(FALSE))
                /\ UNCHANGED <<nCCalls, errorJmp>>
           ELSE Throw(Grown(stack, LiveTop, Slots(stack[f], LiveTop)))
  BY DEF OpCall
<1>5. f \in Nat \ {0} /\ LiveTop \in Nat /\ CI.base <= f /\ f < LiveTop /\ LiveTop <= Len(stack) + 1
  BY <1>1, LiveTopInStack
<1>6. CASE ~RoomForCI
  BY <1>4, <1>5, <1>6, ThrownGrown
<1>7. CASE RoomForCI
  <2>1. /\ Agree(ci, ci') /\ Len(ci') = Len(ci) + 1 /\ ci'[Len(ci) + 1].callee = stack[f]
        /\ SizeOK(ci', sizeCi')
        /\ Len(stack') \in Nat /\ Len(stack') >= Len(stack)
        /\ Running' => StackOK(stack', top') /\ FramesOK(ci', base', Len(stack'))
    BY <1>1, <1>4, <1>5, <1>7, Entered
  <2>2. nCCalls' = nCCalls /\ errorJmp' = errorJmp
    BY <1>4, <1>7
  <2>3. CASE stack[f] \in LuaFn
    <3>. DEFINE w == host[Len(host)].calls
                k == w + 1
    <3>1. w \in Nat \ {0} /\ k \in Nat \ {0}
      <4>1. w \in Nat \ {0}
        BY <1>2, <1>3, EntryFields
      <4>. HIDE DEF w
      <4>. QED
        BY <4>1
    <3>2. host' = [host EXCEPT ![Len(host)].calls = k]
      BY <1>4, <1>7, <2>3
    <3>3. Len(ci') + w = Len(ci) + k
      <4>. HIDE DEF w
      <4>. QED
        BY <2>1, <1>2, <3>1
    <3>4. \A i \in Len(ci) + 1 .. Len(ci') : ci'[i].callee \in LuaFn
      <4>1. \A i \in Len(ci) + 1 .. Len(ci') : i = Len(ci) + 1
        BY <2>1, <1>2
      <4>. QED
        BY <4>1, <2>1, <2>3
    <3>. HIDE DEF k
    <3>5. /\ HostInv([host EXCEPT ![Len(host)].calls = k], errorJmp, ci', nCCalls, Len(stack'))
          /\ NotWaiting([host EXCEPT ![Len(host)].calls = k])
      BY <1>1, <1>2, <1>3, <2>1, <3>1, <3>3, <3>4, HostRecounted
    <3>6. IInv'
      BY <2>1, <2>2, <3>2, <3>5, InvBuilt
    <3>7. Len(host') = Len(host)
      BY <3>2, <1>2
    <3>. QED
      BY <3>6, <3>7, <1>1, <1>2, HostLonger
  <2>4. CASE stack[f] \notin LuaFn
    <3>. DEFINE x == GoFunction(FALSE)
    <3>1. x \in Entry /\ x.kind = "function" /\ Weight(x) = 1 /\ x.byDCall = FALSE
      BY NewEntry
    <3>2. host' = Append(host, x)
      BY <1>4, <1>7, <2>4
    <3>. HIDE DEF x
    <3>3. nCCalls = nCCalls + (IF x.byDCall THEN 1 ELSE 0)
      BY <3>1, <1>2
    <3>4. ci'[Len(ci) + 1].callee \in LuaFn <=> x.kind = "execute"
      BY <2>1, <2>4, <3>1
    <3>5. WithinLimit(host, errorJmp, nCCalls) /\ host[Len(host)].kind # "pcall" /\ x.kind # "pcall"
      BY <1>1, <1>2, <1>3, <3>1 DEF HostInv
    <3>6. /\ HostInv(Append(host, x), errorJmp, ci', nCCalls, Len(stack'))
          /\ NotWaiting(Append(host, x))
      BY <3>1, <3>3, <3>4, <3>5, <2>1, <1>1, <1>2, HostPushed
    <3>7. IInv'
      BY <2>1, <2>2, <3>2, <3>6, InvBuilt
    <3>8. Len(host') \in Nat /\ Len(host') >= Len(host)
      BY <3>1, <3>2, <1>2
    <3>. QED
      BY <3>7, <3>8, <1>1, HostLonger
  <2>. QED
    BY <2>3, <2>4
<1>. QED
  BY <1>6, <1>7

\* A Lua function that a tail call enters is never where the code that comes
\* after expects it, because it was above the frame that ends: the call stops.
LEMMA OpTailCallStep ==
  ASSUME IInv, Running, OpTailCall
  PROVE  IInv' /\ Restores
<1>1. RunInv /\ SizeOK(ci, sizeCi) /\ HostOK(host, errorJmp)
  BY DEF IInv
<1>2. /\ stack \in Seq(Value) /\ Len(stack) \in Nat /\ ci \in Seq(Frame) /\ Len(ci) \in Nat
      /\ CI.fn \in Nat \ {0} /\ CI.fn < CI.base /\ CI.base \in Nat \ {0}
      /\ host \in Seq(Entry) /\ Len(host) \in Nat /\ Len(host) \in 1 .. Len(host)
      /\ Runner \in Entry /\ Runner = host[Len(host)]
  BY <1>1, RunFacts DEF Runner, FrameFits
<1>3. Runner.kind = "execute" /\ Len(host) > 1
  BY <1>1, RunnerOfFrame DEF OpTailCall
<1>4. PICK f \in CI.base .. LiveTop - 1 :
        /\ stack[f] \in LuaFn
        /\ IF RoomForCI THEN ReplaceFrame(f)
           ELSE Throw(Grown(stack, LiveTop, MaxStack[stack[f]]))
  BY DEF OpTailCall
<1>5. f \in Nat \ {0} /\ LiveTop \in Nat /\ CI.base <= f /\ f < LiveTop /\ LiveTop <= Len(stack) + 1
  BY <1>1, LiveTopInStack
<1>6. CASE ~RoomForCI
  <2>1. stack[f] \in Fn /\ stack[f] \notin CFn
    BY <1>4, FunctionAssumption DEF Fn
  <2>2. MaxStack[stack[f]] = Slots(stack[f], LiveTop)
    BY <2>1 DEF Slots
  <2>. QED
    BY <1>4, <1>5, <1>6, <2>1, <2>2, ThrownGrown
<1>7. CASE RoomForCI
  <2>. DEFINE g == stack[f]
              b == NewBase(g, f, LiveTop)
              newTop == CI.fn + (b + MaxStack[g] - f)
              s == Parameters(Grown(stack, LiveTop, MaxStack[g]), g, f, LiveTop)
  <2>1. /\ ci' = Corrected(ci, s)
        /\ outcome' = IF newTop = b + MaxStack[g] THEN "running" ELSE "frame mismatch"
        /\ GrowCI
        /\ host' = [host EXCEPT ![Len(host)].calls = @ + 1]
        /\ UNCHANGED <<nCCalls, errorJmp>>
    BY <1>4, <1>7 DEF ReplaceFrame
  <2>2. b \in Nat \ {0} /\ MaxStack[g] \in Nat
    BY <1>4, <1>5, NewBaseAbove, FunctionAssumption
  <2>. HIDE DEF g, b, s
  <2>3. newTop # b + MaxStack[g]
    <3>. DEFINE m == MaxStack[g]  n == CI.fn  c == CI.base
    <3>1. m \in Nat /\ n \in Nat /\ c \in Nat /\ b \in Nat /\ n < c /\ c <= f
      BY <2>2, <1>2, <1>5
    <3>. HIDE DEF m, n, c
    <3>2. n + (b + m - f) # b + m
      BY <3>1
    <3>. QED
      BY <3>2 DEF m, n
  <2>4. ~Running'
    BY <2>1, <2>3 DEF Running
  <2>5. Len(ci') = Len(ci)
    BY <2>1, <1>2, CorrectedFrames DEF SameFrames
  <2>6. SizeOK(ci', sizeCi')
    <3>1. sizeCi > 0 /\ Len(ci') \in Nat /\ Len(ci') <= Len(ci) + 1
      BY <1>1, <1>2, <2>5, RunFacts DEF SizeOK
    <3>2. sizeCi' = IF Len(ci) < sizeCi THEN sizeCi ELSE 2 * sizeCi
      BY <2>1 DEF GrowCI
    <3>. QED
      BY <3>1, <3>2, <1>1, <1>7, RoomMade DEF RoomForCI
  <2>7. HostOK(host', errorJmp')
    <3>. DEFINE n == Len(host)
                k == host[n].calls + 1
                x == [host[n] EXCEPT !.calls = k]
    <3>1. host' = [host EXCEPT ![n] = x]
      BY <2>1
    <3>2. k \in Nat \ {0}
      <4>1. host[n].calls \in Nat
        BY <1>2, <1>3, EntryFields
      <4>. QED
        BY <4>1
    <3>. HIDE DEF k
    <3>3. x \in Entry /\ x.kind = "execute"
      BY <3>2, <1>2, <1>3, Recounted
    <3>. HIDE DEF x
    <3>4. host' \in Seq(Entry) /\ Len(host') = n /\ host'[n] = x /\ \A i \in 1 .. n - 1 : host'[i] = host[i]
      BY <3>1, <3>3, <1>2
    <3>5a. n \in Nat /\ n > 1 /\ n \in 1 .. Len(host) + 1 /\ host \in Seq(Entry)
      BY <1>2, <1>3
    <3>5. SharePrefix(host, host', n) /\ n # 1
      <4>. HIDE DEF n
      <4>. QED
        BY <3>4, <3>5a DEF SharePrefix
    <3>6. IsInnermost(errorJmp, Handlers(host, n + 1)) /\ Handlers(host, n + 1) = Handlers(host, n)
      <4>1. host[n].kind # "pcall" /\ n \in 1 .. Len(host)
        BY <1>2, <1>3
      <4>2. Handlers(host, n + 1) = Handlers(host, n)
        BY <4>1, <1>2, LastNoHandler
      <4>. QED
        BY <4>2, <1>1 DEF HostOK, HandlersOK
    <3>7. HostOK(host', errorJmp)
      <4>1. IsInnermost(errorJmp, Handlers(host, n)) /\ host'[n].kind # "pcall"
        BY <3>3, <3>4, <3>6
      <4>. HIDE DEF n
      <4>. QED
        BY <4>1, <3>5, <1>1, HostBuilt
    <3>. QED
      BY <3>7, <2>1
  <2>8. Restores
    BY <2>4 DEF Restores, Running
  <2>. QED
    BY <2>4, <2>6, <2>7, <2>8 DEF IInv
<1>. QED
  BY <1>6, <1>7

LEMMA OpReturnStep ==
  ASSUME IInv, Running, OpReturn
  PROVE  IInv' /\ Restores
<1>1. RunInv
  BY DEF IInv
<1>2. Runner.kind = "execute" /\ Len(host) > 1 /\ Len(ci) > 1
  BY <1>1, RunnerOfFrame DEF OpReturn
<1>3. PICK n \in 0 .. CI.live : Poscall(LiveTop - n, LiveTop)
  BY DEF OpReturn
<1>4. /\ LiveTop - n \in Nat /\ LiveTop \in Nat /\ CI.base <= LiveTop - n /\ LiveTop - n <= LiveTop
      /\ LiveTop <= Len(stack) + 1
  <2>1. /\ LiveTop \in Nat \ {0} /\ LiveTop <= Len(stack) + 1 /\ LiveTop = CI.base + CI.live
        /\ CI.base \in Nat \ {0} /\ CI.live \in Nat
    BY <1>1, LiveTopInStack
  <2>. DEFINE b == CI.base  l == CI.live
  <2>2. LiveTop = b + l /\ b \in Nat /\ l \in Nat /\ n \in 0 .. l
    BY <2>1
  <2>. HIDE DEF b, l
  <2>3. LiveTop - n \in Nat /\ b <= LiveTop - n /\ LiveTop - n <= LiveTop
    BY <2>2
  <2>. QED
    BY <2>1, <2>3 DEF b
<1>. QED
  BY <1>2, <1>3, <1>4, FunctionLeft

LEMMA ReturnFromGoStep ==
  ASSUME IInv, Running, ReturnFromGo
  PROVE  IInv' /\ Restores
<1>1. RunInv
  BY DEF IInv
<1>2. Runner.kind # "pcall" /\ Len(host) > 1 /\ Len(ci) > 1
  BY <1>1, RunnerOfFrame DEF ReturnFromGo, InGo
<1>3. PICK n \in 0 .. top - base : Poscall(top - n, top)
  BY DEF ReturnFromGo
<1>4. /\ top - n \in Nat /\ top \in Nat /\ CI.base <= top - n /\ top - n <= top
      /\ top <= Len(stack) + 1
  BY <1>1, LiveTopInStack
<1>. QED
  BY <1>2, <1>3, <1>4, FunctionLeft
-----------------------------------------------------------------------------
(* Steps that stay in their function *)

\* Frames with the same callees and bases are run by the same entries.
LEMMA HostKept ==
  ASSUME NEW hs, NEW e, NEW c, NEW m, NEW len \in Nat, HostInv(hs, e, c, m, len),
         NEW c2, Agree(c, c2), Len(c2) = Len(c), NEW len2 \in Nat, len2 >= len
  PROVE  HostInv(hs, e, c2, m, len2)
<1>1. hs \in Seq(Entry) /\ Len(hs) \in Nat
  BY DEF HostInv, HostOK
<1>2. Len(c) \in Nat /\ \A i \in 1 .. Len(c) : c2[i].callee = c[i].callee /\ c2[i].base = c[i].base
  BY DEF Agree
<1>3. PICK first \in [1 .. Len(hs) + 1 -> Nat] : Runs(first, hs, c)
  BY DEF HostInv, RunsOK
<1>4. ASSUME NEW h \in 1 .. Len(hs), NEW i \in first[h] .. first[h + 1] - 1
      PROVE  c2[i].callee \in LuaFn <=> hs[h].kind = "execute"
  <2>1. c[i].callee \in LuaFn <=> hs[h].kind = "execute"
    BY <1>3 DEF Runs
  <2>2. /\ first[Len(hs) + 1] = Len(c) + 1 /\ first[h + 1] <= first[Len(hs) + 1] /\ first[h] >= 1
        /\ first[h] \in Nat /\ first[h + 1] \in Nat
    <3>1. first[Len(hs) + 1] = Len(c) + 1
      BY <1>3 DEF Runs
    <3>2. h \in 1 .. Len(hs) + 1 /\ h + 1 \in 1 .. Len(hs) + 1 /\ Len(hs) + 1 \in 1 .. Len(hs) + 1
          /\ h + 1 <= Len(hs) + 1
      BY <1>1
    <3>3. \A g, k \in 1 .. Len(hs) + 1 : g <= k => first[g] <= first[k]
      BY <1>1, <1>3, RunsTypes
    <3>4. \A k \in 1 .. Len(hs) + 1 : first[k] \in Nat /\ first[k] >= 1
      BY <1>1, <1>3, RunsTypes
    <3>. QED
      BY <3>1, <3>2, <3>3, <3>4
  <2>3. i \in 1 .. Len(c)
    <3>. DEFINE x == first[h]  y == first[h + 1]  n == Len(c)
    <3>1. x \in Nat /\ y \in Nat /\ n \in Nat /\ x >= 1 /\ y <= n + 1 /\ i \in x .. y - 1
      BY <2>2, <1>2
    <3>. HIDE DEF x, y, n
    <3>2. i \in 1 .. n
      BY <3>1
    <3>. QED
      BY <3>2 DEF n
  <2>. QED
    BY <2>1, <2>3, <1>2
<1>5. Runs(first, hs, c2)
  BY <1>3, <1>4 DEF Runs
<1>6. PCallsOK(hs, c2, len2)
  <2>1. ASSUME NEW h \in Handlers(hs, Len(hs) + 1)
        PROVE  /\ hs[h].ci \in 1 .. Len(c2) /\ c2[hs[h].ci].base <= hs[h].oldTop
               /\ hs[h].oldTop < len2
    <3>1. /\ hs[h].ci \in 1 .. Len(c) /\ c[hs[h].ci].base <= hs[h].oldTop /\ hs[h].oldTop < len
      BY DEF HostInv, PCallsOK
    <3>2. hs[h].oldTop \in Nat
      BY <1>1, EntryFields DEF Handlers
    <3>. QED
      BY <3>1, <3>2, <1>2
  <2>. QED
    BY <2>1 DEF HostInv, PCallsOK
<1>. QED
  BY <1>3, <1>5, <1>6 DEF HostInv, RunsOK

LEMMA SameAgree ==
  ASSUME NEW c \in Seq(Frame), NEW d, SameFrames(c, d)
  PROVE  Agree(c, d) /\ Len(d) = Len(c)
BY DEF SameFrames, Agree

\* The last frame holds b more values.
HoldsMore(c, d, b) == d = [c EXCEPT ![Len(c)].live = @ + b]

LEMMA MoreLive ==
  ASSUME NEW c, NEW bs, NEW len \in Nat, FramesOK(c, bs, len), NEW b \in Nat,
         c[Len(c)].base + c[Len(c)].live + b <= len + 1,
         NEW d, HoldsMore(c, d, b)
  PROVE  FramesOK(d, bs, len) /\ Agree(c, d) /\ Len(d) = Len(c)
<1>. DEFINE n == Len(c)
            fr == [c[n] EXCEPT !.live = c[n].live + b]
<1>1. c \in Seq(Frame) /\ n \in Nat /\ n \in 1 .. n
  BY DEF FramesOK
<1>2. c[n] \in Frame /\ c[n].live \in Nat
  BY <1>1, FrameFields
<1>3. /\ fr \in Frame /\ fr.callee = c[n].callee /\ fr.base = c[n].base /\ fr.fn = c[n].fn
      /\ fr.top = c[n].top /\ fr.live = c[n].live + b
  <2>. DEFINE r == c[n]  v == r.live + b
  <2>1. r \in Frame /\ v \in Nat /\ fr = [r EXCEPT !.live = v]
    BY <1>2
  <2>. HIDE DEF r, v, fr
  <2>2. /\ fr \in Frame /\ fr.callee = r.callee /\ fr.base = r.base /\ fr.fn = r.fn
        /\ fr.top = r.top /\ fr.live = v
    BY <2>1 DEF Frame
  <2>. QED
    BY <2>2 DEF r, v
<1>4. d = [c EXCEPT ![n] = fr]
  BY DEF HoldsMore
<1>. HIDE DEF fr
<1>5. FrameFits(fr, len)
  <2>1. FrameFits(c[n], len)
    BY <1>1 DEF FramesOK
  <2>2. fr.base + fr.live <= len + 1
    <3>. DEFINE x == c[n].base  y == c[n].live
    <3>1. x \in Nat /\ y \in Nat /\ x + y + b <= len + 1
      BY <1>1, <1>2, FrameFields
    <3>2. fr.base = x /\ fr.live = y + b
      BY <1>3
    <3>. HIDE DEF x, y
    <3>. QED
      BY <3>1, <3>2
  <2>. QED
    BY <2>1, <2>2, <1>3 DEF FrameFits
<1>6. d \in Seq(Frame) /\ Len(d) = n
  BY <1>1, <1>3, <1>4
<1>7. \A i \in 1 .. n : /\ d[i].callee = c[i].callee /\ d[i].base = c[i].base
                        /\ d[i].fn = c[i].fn /\ FrameFits(d[i], len)
  <2>1. \A i \in 1 .. n : FrameFits(c[i], len)
    BY DEF FramesOK
  <2>2. d[n] = fr /\ \A i \in 1 .. n : i # n => d[i] = c[i]
    BY <1>1, <1>4
  <2>. SUFFICES ASSUME NEW i \in 1 .. n
                PROVE  /\ d[i].callee = c[i].callee /\ d[i].base = c[i].base
                       /\ d[i].fn = c[i].fn /\ FrameFits(d[i], len)
    OBVIOUS
  <2>3. CASE i = n
    BY <2>2, <2>3, <1>3, <1>5
  <2>4. CASE i # n
    BY <2>1, <2>2, <2>4
  <2>. QED
    BY <2>3, <2>4
<1>8. FramesOK(d, bs, len)
  <2>1. Len(d) = Len(c)
    BY <1>6
  <2>2. \A i \in 1 .. Len(c) : /\ d[i].callee = c[i].callee /\ d[i].base = c[i].base
                               /\ d[i].fn = c[i].fn /\ FrameFits(d[i], len)
    BY <1>7
  <2>. QED
    BY <2>1, <2>2, <1>6, FramesChanged
<1>. QED
  BY <1>1, <1>6, <1>7, <1>8 DEF Agree

\* A step that stays in its function, with the same Go activations.
LEMMA Stayed ==
  ASSUME IInv, Running, Runner.kind # "pcall", UNCHANGED <<host, errorJmp, nCCalls, sizeCi>>,
         Agree(ci, ci'), Len(ci') = Len(ci), Len(stack') \in Nat, Len(stack') >= Len(stack),
         Running' => StackOK(stack', top') /\ FramesOK(ci', base', Len(stack'))
  PROVE  IInv' /\ Restores
<1>1. RunInv /\ SizeOK(ci, sizeCi) /\ HostInv(host, errorJmp, ci, nCCalls, Len(stack))
  BY DEF IInv, RunInv
<1>2. Len(stack) \in Nat /\ Len(host) \in Nat
  BY <1>1, RunFacts
<1>3. HostInv(host, errorJmp, ci', nCCalls, Len(stack'))
  BY <1>1, <1>2, HostKept
<1>4. HostInv(host', errorJmp', ci', nCCalls', Len(stack'))
  BY <1>3
<1>5. NotWaiting(host')
  BY DEF NotWaiting, Runner
<1>6. SizeOK(ci', sizeCi')
  BY <1>1 DEF SizeOK
<1>7. IInv'
  BY <1>4, <1>5, <1>6, InvBuilt
<1>8. Len(host') \in Nat /\ Len(host') >= Len(host)
  BY <1>2
<1>. QED
  BY <1>1, <1>7, <1>8, HostLonger

\* A value put into the stack.
LEMMA StackSet ==
  ASSUME NEW s \in Seq(Value), NEW p \in 1 .. Len(s), NEW v \in Value
  PROVE  [s EXCEPT ![p] = v] \in Seq(Value) /\ Len([s EXCEPT ![p] = v]) = Len(s)
BY ExceptSeq

LEMMA LoadRegStep ==
  ASSUME IInv, Running, LoadReg
  PROVE  IInv' /\ Restores
<1>1. RunInv
  BY DEF IInv
<1>2. /\ InLua /\ CI.live < MaxStack[CI.callee]
      /\ ci' = [ci EXCEPT ![Len(ci)].live = @ + 1]
      /\ UNCHANGED <<top, base, sizeCi, nCCalls, errorJmp, host, outcome>>
  BY DEF LoadReg
<1>3. PICK v \in Val \cup Fn : stack' = [stack EXCEPT ![LiveTop] = v]
  BY DEF LoadReg
<1>4. stack \in Seq(Value) /\ Len(stack) \in Nat /\ top \in 1 .. Len(stack)
      /\ CI.base \in Nat /\ CI.live \in Nat /\ FrameFits(CI, Len(stack))
      /\ FramesOK(ci, base, Len(stack))
  BY <1>1, RunFacts DEF RunInv
<1>6. CI.base + CI.live + 1 <= Len(stack) + 1
  <2>. DEFINE b == CI.base  l == CI.live  m == MaxStack[CI.callee]  n == Len(stack)
  <2>1. b + m <= n /\ m \in Nat /\ b \in Nat /\ l \in Nat /\ n \in Nat /\ l < m
    BY <1>2, <1>4, FunctionAssumption DEF FrameFits, InLua
  <2>. HIDE DEF b, l, m, n
  <2>2. b + l + 1 <= n + 1
    BY <2>1
  <2>. QED
    BY <2>2 DEF b, l, n
<1>5. stack' \in Seq(Value) /\ Len(stack') = Len(stack)
  <2>1. LiveTop \in Nat \ {0} /\ LiveTop = CI.base + CI.live
    BY <1>1, LiveTopInStack
  <2>2. LiveTop \in 1 .. Len(stack)
    BY <2>1, <1>4, <1>6
  <2>. QED
    BY <2>2, <1>3, <1>4, StackSet DEF Value
<1>7. FramesOK(ci', base, Len(stack)) /\ Agree(ci, ci') /\ Len(ci') = Len(ci)
  <2>. DEFINE k == 1
  <2>1. ci[Len(ci)].base + ci[Len(ci)].live + k <= Len(stack) + 1
    BY <1>6 DEF CI
  <2>2. HoldsMore(ci, ci', k)
    BY <1>2 DEF HoldsMore
  <2>3. k \in Nat
    OBVIOUS
  <2>. HIDE DEF k
  <2>. QED
    BY <2>1, <2>2, <2>3, <1>4, MoreLive
<1>8. Runner.kind # "pcall"
  BY <1>1, <1>2, RunnerOfFrame
<1>9. StackOK(stack', top') /\ FramesOK(ci', base', Len(stack'))
  <2>1. StackOK(stack', top')
    BY <1>2, <1>4, <1>5 DEF StackOK
  <2>2. FramesOK(ci', base', Len(stack'))
    BY <1>2, <1>5, <1>7
  <2>. QED
    BY <2>1, <2>2
<1>. QED
  BY <1>2, <1>4, <1>5, <1>7, <1>8, <1>9, Stayed

LEMMA PushValueStep ==
  ASSUME IInv, Running, PushValue
  PROVE  IInv' /\ Restores
<1>1. RunInv
  BY DEF IInv
<1>2. InGo /\ top < CI.top /\ top' = top + 1
      /\ UNCHANGED <<base, ci, sizeCi, nCCalls, errorJmp, host, outcome>>
  BY DEF PushValue
<1>3. PICK v \in Val \cup Fn : stack' = [stack EXCEPT ![top] = v]
  BY DEF PushValue
<1>4. stack \in Seq(Value) /\ Len(stack) \in Nat /\ top \in 1 .. Len(stack)
      /\ FrameFits(CI, Len(stack)) /\ CI.top \in Nat
      /\ FramesOK(ci, base, Len(stack)) /\ Len(ci) \in Nat /\ ci \in Seq(Frame)
  BY <1>1, RunFacts DEF RunInv
<1>5. stack' \in Seq(Value) /\ Len(stack') = Len(stack)
  BY <1>3, <1>4, StackSet DEF Value
<1>6. top' \in 1 .. Len(stack)
  BY <1>2, <1>4 DEF FrameFits
<1>7. StackOK(stack', top')
  BY <1>5, <1>6 DEF StackOK
<1>8. FramesOK(ci', base', Len(stack'))
  BY <1>2, <1>4, <1>5
<1>9. Agree(ci, ci') /\ Len(ci') = Len(ci)
  <2>1. ci' = ci
    BY <1>2
  <2>. QED
    BY <2>1, <1>4 DEF Agree
<1>10. Runner.kind # "pcall"
  BY <1>2 DEF InGo
<1>. QED
  BY <1>2, <1>4, <1>5, <1>7, <1>8, <1>9, <1>10, Stayed

LEMMA LoadStep ==
  ASSUME IInv, Running, Load
  PROVE  IInv' /\ Restores
<1>1. RunInv
  BY DEF IInv
<1>2. InGo /\ top < CI.top /\ top' = top + 1
      /\ UNCHANGED <<base, sizeCi, nCCalls, errorJmp, host, outcome>>
  BY DEF Load
<1>. DEFINE s == Grown(stack, top, 1)
<1>3. PICK v \in LuaFn \cup {Message} : stack' = [s EXCEPT ![top] = v] /\ ci' = Corrected(ci, s)
  BY DEF Load
<1>4. stack \in Seq(Value) /\ Len(stack) \in Nat /\ top \in 1 .. Len(stack)
      /\ FrameFits(CI, Len(stack)) /\ CI.top \in Nat
      /\ FramesOK(ci, base, Len(stack)) /\ Len(ci) \in Nat /\ ci \in Seq(Frame)
  BY <1>1, RunFacts DEF RunInv
<1>5. s \in Seq(Value) /\ Len(s) \in Nat /\ Len(s) >= Len(stack)
  BY <1>4, GrownStack
<1>. HIDE DEF s
<1>6. stack' \in Seq(Value) /\ Len(stack') = Len(s)
  <2>1. top \in 1 .. Len(s) /\ v \in Value
    BY <1>3, <1>4, <1>5 DEF Value, Fn
  <2>. QED
    BY <2>1, <1>3, <1>5, StackSet
<1>7. top' \in 1 .. Len(s)
  BY <1>2, <1>4, <1>5 DEF FrameFits
<1>8. StackOK(stack', top')
  BY <1>6, <1>7 DEF StackOK
<1>9. SameFrames(ci, ci')
  BY <1>3, <1>4, CorrectedFrames
<1>10. FramesOK(ci', base', Len(stack'))
  <2>1. FramesOK(ci', base, Len(s))
    BY <1>4, <1>5, <1>9, SameFramesOK
  <2>. QED
    BY <2>1, <1>2, <1>6
<1>11. Agree(ci, ci') /\ Len(ci') = Len(ci)
  BY <1>4, <1>9, SameAgree
<1>12. Runner.kind # "pcall"
  BY <1>2 DEF InGo
<1>13. Len(stack') \in Nat /\ Len(stack') >= Len(stack)
  BY <1>5, <1>6
<1>. QED
  BY <1>2, <1>8, <1>10, <1>11, <1>12, <1>13, Stayed
-----------------------------------------------------------------------------
(* Calls through the API *)

LEMMA ApiCallStep ==
  ASSUME IInv, Running, ApiCall
  PROVE  IInv' /\ Restores
<1>1. RunInv
  BY DEF IInv
<1>2. PICK f \in base .. top - 1, nr \in {MULTRET, 0, 1} : ResultsFit(f, nr) /\ DCall(f, top, nr)
  BY DEF ApiCall
<1>3. f \in Nat \ {0} /\ f < top /\ CI.base <= f /\ top \in Nat /\ top <= Len(stack) + 1
  BY <1>1, LiveTopInStack
<1>. QED
  BY <1>2, <1>3, DCalled

LEMMA PCallStep ==
  ASSUME IInv, Running, PCall
  PROVE  IInv' /\ Restores
<1>1. RunInv /\ HostInv(host, errorJmp, ci, nCCalls, Len(stack)) /\ SizeOK(ci, sizeCi)
  BY DEF IInv, RunInv
<1>2. InGo /\ errorJmp' = Len(host') /\ UNCHANGED <<stack, top, base, ci, sizeCi, nCCalls, outcome>>
  BY DEF PCall
<1>3. PICK f \in base .. top - 1, nr \in {MULTRET, 0, 1} :
        host' = Append(host, [kind |-> "pcall", byDCall |-> FALSE, nCCalls |-> nCCalls,
                              ci |-> Len(ci), oldTop |-> f, nres |-> nr, previous |-> errorJmp])
  BY DEF PCall
<1>. DEFINE x == [kind |-> "pcall", byDCall |-> FALSE, nCCalls |-> nCCalls,
                  ci |-> Len(ci), oldTop |-> f, nres |-> nr, previous |-> errorJmp]
<1>4. f \in Nat \ {0} /\ f < top /\ CI.base <= f /\ f < Len(stack)
  BY <1>1, LiveTopInStack
<1>5. /\ Len(ci) \in Nat \ {0} /\ nCCalls \in Nat /\ errorJmp \in Nat /\ Len(stack) \in Nat
      /\ host \in Seq(Entry) /\ Len(host) \in Nat
  BY <1>1, RunFacts
<1>6. x \in Entry
  <2>1. x \in [kind : {"pcall"}, byDCall : {FALSE}, nCCalls : Nat, ci : Nat \ {0},
               oldTop : Nat \ {0}, nres : {MULTRET, 0, 1}, previous : Nat]
    BY <1>4, <1>5
  <2>. QED
    BY <2>1 DEF Entry
<1>7. /\ x.kind = "pcall" /\ x.nCCalls = nCCalls /\ x.previous = errorJmp /\ x.ci = Len(ci)
      /\ x.oldTop = f
  OBVIOUS
<1>8. host' = Append(host, x)
  BY <1>3
<1>. HIDE DEF x
<1>9. Len(host') = Len(host) + 1 /\ host'[Len(host')] = x
  BY <1>5, <1>6, <1>8
<1>10. HostInv(Append(host, x), Len(host) + 1, ci, nCCalls, Len(stack))
  <2>1. host[Len(host)].kind = "function"
    BY <1>2 DEF InGo, Runner
  <2>2. ci[Len(ci)].base <= x.oldTop /\ x.oldTop < Len(stack) /\ x.ci > 0
    BY <1>4, <1>5, <1>7 DEF CI
  <2>. QED
    BY <2>1, <2>2, <1>1, <1>5, <1>6, <1>7, HostProtected
<1>11. HostInv(host', errorJmp', ci', nCCalls', Len(stack'))
  BY <1>2, <1>8, <1>9, <1>10
<1>12. RunInv'
  <2>1. Runner'.kind = "pcall" => Runner'.oldTop < top'
    BY <1>2, <1>4, <1>7, <1>9 DEF Runner
  <2>2. StackOK(stack', top') /\ FramesOK(ci', base', Len(stack'))
    BY <1>1, <1>2 DEF RunInv
  <2>. QED
    BY <2>1, <2>2, <1>11 DEF RunInv
<1>13. IInv'
  BY <1>1, <1>2, <1>11, <1>12 DEF IInv, HostInv
<1>14. Len(host') \in Nat /\ Len(host') >= Len(host)
  BY <1>5, <1>9
<1>. QED
  BY <1>1, <1>13, <1>14, HostLonger

\* A dPCall calls with its function where PCall found it: above the base of the
\* frame that made it, which is still the last one, and below the top.
LEMMA ProtectedCallStep ==
  ASSUME IInv, Running, ProtectedCall
  PROVE  IInv' /\ Restores
<1>1. RunInv
  BY DEF IInv
<1>2. Runner.kind = "pcall" /\ DCall(Runner.oldTop, top, Runner.nres)
  BY DEF ProtectedCall
<1>3. Runner.ci = Len(ci) /\ Len(host) \in Handlers(host, Len(host) + 1)
  BY <1>1, <1>2, RunnerOfFrame
<1>4. Runner.oldTop \in Nat \ {0} /\ Runner.nres \in {MULTRET, 0, 1}
  BY <1>1, <1>2, RunFacts, EntryFields
<1>5. CI.base <= Runner.oldTop /\ Runner.oldTop < top
  <2>1. ci[host[Len(host)].ci].base <= host[Len(host)].oldTop
    BY <1>1, <1>3 DEF RunInv, HostInv, PCallsOK
  <2>2. CI.base <= Runner.oldTop
    BY <2>1, <1>3 DEF CI, Runner
  <2>. QED
    BY <2>2, <1>1, <1>2 DEF RunInv
<1>6. top \in Nat /\ top <= Len(stack) + 1
  BY <1>1, LiveTopInStack
<1>. QED
  BY <1>2, <1>4, <1>5, <1>6, DCalled
-----------------------------------------------------------------------------
(* Arguments of a vararg function *)

\* The stack after the instruction has put b values at l, n of them the arguments
\* that lie below bs.
Vararged(s, l, b, n, bs, stale) ==
  [p \in 1 .. Len(s) |-> IF p < l \/ p >= l + b THEN s[p]
                         ELSE IF p - l < n /\ ~stale THEN s[bs - n + p - l] ELSE Nil]

LEMMA VarargFits ==
  ASSUME NEW s \in Seq(Value), NEW l \in Nat \ {0}, NEW b \in Nat, NEW n \in Nat,
         NEW bs \in Nat, n < bs, bs <= Len(s), l + b <= Len(s), NEW stale \in BOOLEAN
  PROVE  /\ Vararged(s, l, b, n, bs, stale) \in Seq(Value)
         /\ Len(Vararged(s, l, b, n, bs, stale)) = Len(s)
<1>. DEFINE len == Len(s)
            v(p) == IF p < l \/ p >= l + b THEN s[p]
                    ELSE IF p - l < n /\ ~stale THEN s[bs - n + p - l] ELSE Nil
            r == [p \in 1 .. len |-> v(p)]
<1>1. len \in Nat /\ \A p \in 1 .. len : s[p] \in Value
  OBVIOUS
<1>2. \A p \in 1 .. len : v(p) \in Value
  <2>. SUFFICES ASSUME NEW p \in 1 .. len PROVE v(p) \in Value
    OBVIOUS
  <2>1. CASE p < l \/ p >= l + b
    BY <2>1, <1>1
  <2>2. CASE ~(p < l \/ p >= l + b) /\ p - l < n /\ ~stale
    <3>1. bs - n + p - l \in 1 .. len
      <4>. HIDE DEF v, r
      <4>1. len >= bs
        BY <1>1
      <4>. HIDE DEF len
      <4>. QED
        BY <4>1, <2>2, <1>1
    <3>2. v(p) = s[bs - n + p - l]
      BY <2>2
    <3>. HIDE DEF v
    <3>. QED
      BY <3>1, <3>2, <1>1
  <2>3. CASE ~(p < l \/ p >= l + b) /\ ~(p - l < n /\ ~stale)
    BY <2>3 DEF Value
  <2>. QED
    BY <2>1, <2>2, <2>3
<1>. HIDE DEF v, len
<1>3. r \in Seq(Value) /\ Len(r) = len
  BY <1>1, <1>2
<1>. QED
  BY <1>3 DEF r, v, len, Vararged

LEMMA AgreeTwice ==
  ASSUME NEW c, NEW d, NEW d2, Agree(c, d), Len(d) = Len(c), Agree(d, d2), Len(d2) = Len(d)
  PROVE  Agree(c, d2) /\ Len(d2) = Len(c)
BY DEF Agree

LEMMA OpVarargStep ==
  ASSUME IInv, Running, OpVararg
  PROVE  IInv' /\ Restores
<1>. DEFINE n == CI.base - CI.fn - NumParams[CI.callee] - 1
<1>1. RunInv
  BY DEF IInv
<1>2. InLua /\ CI.callee \in VarArg /\ UNCHANGED <<base, sizeCi, nCCalls, errorJmp, host>>
  BY DEF OpVararg
<1>3. PICK wanted \in {MULTRET, 1} :
        LET b == IF wanted = MULTRET THEN n ELSE wanted
            s == IF wanted = MULTRET /\ ~CI.stale THEN Grown(stack, top, n) ELSE stack
        IN /\ LiveTop + b <= Len(s)
           /\ stack' = [p \in 1 .. Len(s) |->
                          IF p < LiveTop \/ p >= LiveTop + b THEN s[p]
                          ELSE IF p - LiveTop < n /\ ~CI.stale THEN s[CI.base - n + p - LiveTop]
                          ELSE Nil]
           /\ ci' = [Corrected(ci, s) EXCEPT ![Len(ci)].live = @ + b]
           /\ top' = IF wanted = MULTRET THEN LiveTop + n ELSE top
  BY DEF OpVararg
<1>. DEFINE b == IF wanted = MULTRET THEN n ELSE wanted
            s == IF wanted = MULTRET /\ ~CI.stale THEN Grown(stack, top, n) ELSE stack
            d == Corrected(ci, s)
<1>4. /\ LiveTop + b <= Len(s)
      /\ stack' = [p \in 1 .. Len(s) |->
                     IF p < LiveTop \/ p >= LiveTop + b THEN s[p]
                     ELSE IF p - LiveTop < n /\ ~CI.stale THEN s[CI.base - n + p - LiveTop]
                     ELSE Nil]
      /\ ci' = [d EXCEPT ![Len(ci)].live = @ + b]
      /\ top' = IF wanted = MULTRET THEN LiveTop + n ELSE top
  BY <1>3
<1>5. /\ stack \in Seq(Value) /\ Len(stack) \in Nat /\ top \in 1 .. Len(stack)
      /\ CI.base \in Nat \ {0} /\ CI.live \in Nat /\ CI.fn \in Nat \ {0} /\ CI.top \in Nat
      /\ FrameFits(CI, Len(stack)) /\ CI \in Frame
      /\ FramesOK(ci, base, Len(stack)) /\ Len(ci) \in Nat /\ ci \in Seq(Frame)
      /\ Len(ci) \in 1 .. Len(ci)
  BY <1>1, RunFacts DEF RunInv
<1>6. LiveTop \in Nat \ {0} /\ LiveTop = CI.base + CI.live
  BY <1>1, LiveTopInStack
<1>7. n \in Nat /\ n < CI.base /\ CI.base <= Len(stack)
  <2>. DEFINE bs == CI.base  f == CI.fn  k == NumParams[CI.callee]  t == CI.top
  <2>1. k \in Nat /\ f + k < bs /\ bs <= t /\ t <= Len(stack)
    BY <1>2, <1>5, FunctionAssumption DEF FrameFits
  <2>2. bs \in Nat /\ f \in Nat \ {0} /\ t \in Nat
    BY <1>5
  <2>3. n = bs - f - k - 1
    OBVIOUS
  <2>. HIDE DEF n, bs, f, k, t
  <2>4. n \in Nat /\ n < bs /\ bs <= Len(stack)
    BY <2>1, <2>2, <2>3, <1>5
  <2>. QED
    BY <2>4 DEF bs
<1>. HIDE DEF n
<1>8. b \in Nat /\ (wanted = MULTRET => b = n)
  BY <1>7 DEF MULTRET
<1>9. s \in Seq(Value) /\ Len(s) \in Nat /\ Len(s) >= Len(stack)
  <2>1. /\ Grown(stack, top, n) \in Seq(Value)
        /\ Len(Grown(stack, top, n)) \in Nat /\ Len(Grown(stack, top, n)) >= Len(stack)
    BY <1>5, <1>7, GrownStack
  <2>. QED
    BY <2>1, <1>5
<1>10. SameFrames(ci, d)
  BY <1>5, CorrectedFrames
<1>. HIDE DEF b, s, d
<1>11. stack' \in Seq(Value) /\ Len(stack') = Len(s)
  <2>1. CI.stale \in BOOLEAN /\ CI.base <= Len(s)
    <3>1. CI.stale \in BOOLEAN
      BY <1>5, FrameFields DEF CI
    <3>2. CI.base <= Len(s)
      BY <1>5, <1>7, <1>9
    <3>. QED
      BY <3>1, <3>2
  <2>. DEFINE r == Vararged(s, LiveTop, b, n, CI.base, CI.stale)
  <2>2. stack' = r
    BY <1>4 DEF Vararged
  <2>3. r \in Seq(Value) /\ Len(r) = Len(s)
    <3>. DEFINE bs == CI.base  st == CI.stale  l == LiveTop
    <3>1. /\ bs \in Nat /\ n < bs /\ bs <= Len(s) /\ l + b <= Len(s) /\ l \in Nat \ {0}
          /\ st \in BOOLEAN /\ s \in Seq(Value) /\ b \in Nat /\ n \in Nat
      BY <1>4, <1>5, <1>6, <1>7, <1>8, <1>9, <2>1
    <3>. HIDE DEF bs, st, l
    <3>2. /\ Vararged(s, l, b, n, bs, st) \in Seq(Value)
          /\ Len(Vararged(s, l, b, n, bs, st)) = Len(s)
      BY <3>1, VarargFits
    <3>. QED
      BY <3>2 DEF bs, st, l
  <2>. HIDE DEF r
  <2>. QED
    BY <2>2, <2>3
<1>12. StackOK(stack', top')
  <2>1. top' \in 1 .. Len(s)
    BY <1>4, <1>5, <1>6, <1>7, <1>8, <1>9
  <2>. QED
    BY <2>1, <1>11 DEF StackOK
<1>13. FramesOK(d, base, Len(s)) /\ Agree(ci, d) /\ Len(d) = Len(ci)
  BY <1>5, <1>9, <1>10, SameFramesOK, SameAgree
<1>14. FramesOK(ci', base, Len(s)) /\ Agree(d, ci') /\ Len(ci') = Len(d)
  <2>1. HoldsMore(d, ci', b)
    BY <1>4, <1>13 DEF HoldsMore
  <2>2. d[Len(d)].base = CI.base /\ d[Len(d)].live = CI.live
    BY <1>5, <1>10 DEF SameFrames, CI
  <2>3. d[Len(d)].base + d[Len(d)].live + b <= Len(s) + 1
    <3>. DEFINE x == CI.base  y == CI.live
    <3>1. x \in Nat /\ y \in Nat /\ LiveTop = x + y
      BY <1>5, <1>6
    <3>. HIDE DEF x, y
    <3>2. x + y + b <= Len(s) + 1
      BY <3>1, <1>4, <1>8, <1>9
    <3>. QED
      BY <3>2, <2>2 DEF x, y
  <2>. QED
    BY <2>1, <2>3, <1>8, <1>9, <1>13, MoreLive
<1>15. Agree(ci, ci') /\ Len(ci') = Len(ci)
  BY <1>13, <1>14, AgreeTwice
<1>16. FramesOK(ci', base', Len(stack'))
  BY <1>2, <1>11, <1>14
<1>17. Len(stack') \in Nat /\ Len(stack') >= Len(stack)
  BY <1>9, <1>11
<1>18. Runner.kind # "pcall"
  BY <1>1, <1>2, RunnerOfFrame
<1>. QED
  BY <1>2, <1>12, <1>15, <1>16, <1>17, <1>18, Stayed
-----------------------------------------------------------------------------
(* Steps after which the behaviour stops *)

LEMMA CallNoFunctionStep ==
  ASSUME IInv, Running, CallNoFunction
  PROVE  IInv' /\ Restores
<1>1. RunInv /\ SizeOK(ci, sizeCi) /\ HostOK(host, errorJmp)
      /\ HostInv(host, errorJmp, ci, nCCalls, Len(stack))
  BY DEF IInv, RunInv
<1>2. outcome' \in {"dead", "lost error"} /\ sizeCi' = sizeCi
  BY DEF CallNoFunction
<1>3. ~Running' /\ Restores
  BY <1>2 DEF Running, Restores
<1>4. SizeOK(ci', sizeCi')
  <2>1. PICK s : ci' = Corrected(ci, s)
    BY DEF CallNoFunction
  <2>2. Len(ci') = Len(ci)
    BY <2>1, <1>1, RunFacts, CorrectedFrames DEF SameFrames
  <2>. QED
    BY <2>2, <1>1, <1>2 DEF SizeOK
<1>5. HostOK(host', errorJmp')
  <2>1. CASE errorJmp = NoHandler
    BY <2>1, <1>1 DEF CallNoFunction
  <2>2. CASE errorJmp # NoHandler
    <3>1. host' = SubSeq(host, 1, errorJmp - 1) /\ errorJmp' = host[errorJmp].previous
      BY <2>2 DEF CallNoFunction
    <3>2. errorJmp \in Handlers(host, Len(host) + 1)
      BY <2>2, <1>1 DEF HostOK, HandlersOK, IsInnermost
    <3>. DEFINE k == host[errorJmp].ci
                c2 == SubSeq(ci, 1, k)
    <3>3. k \in 1 .. Len(ci)
      BY <3>2, <1>1 DEF HostInv, PCallsOK
    <3>4. ci \in Seq(Frame) /\ Len(ci) \in Nat /\ Len(stack) \in Nat
      BY <1>1, RunFacts
    <3>. HIDE DEF k
    <3>5. Len(c2) = k /\ \A i \in 1 .. k : c2[i] = ci[i]
      BY <3>3, <3>4
    <3>. HIDE DEF c2
    <3>6. Agree(ci, c2)
      BY <3>3, <3>4, <3>5 DEF Agree
    <3>7. HostInv(SubSeq(host, 1, errorJmp - 1), host[errorJmp].previous, c2,
                  host[errorJmp].nCCalls, Len(stack))
      BY <3>2, <3>4, <3>5, <3>6, <1>1, HostUnwound DEF k
    <3>. QED
      BY <3>1, <3>7 DEF HostInv
  <2>. QED
    BY <2>1, <2>2
<1>. QED
  BY <1>3, <1>4, <1>5 DEF IInv
-----------------------------------------------------------------------------
(* The specification *)

LEMMA InitInv == Init => IInv
<1>. SUFFICES ASSUME Init PROVE IInv
  OBVIOUS
<1>. DEFINE len == 2 * LUA_MINSTACK + EXTRA_STACK
            fr == [callee |-> Nil, fn |-> 1, stale |-> FALSE, base |-> 2,
                   top |-> 2 + LUA_MINSTACK, nres |-> 0, live |-> 0]
            e == GoFunction(FALSE)
<1>1. /\ stack = [p \in 1 .. len |-> Nil] /\ top = 2 /\ base = 2 /\ ci = <<fr>>
      /\ sizeCi = BASIC_CI_SIZE /\ nCCalls = 0 /\ errorJmp = NoHandler /\ host = <<e>>
  BY DEF Init
<1>2. len \in Nat /\ 2 + LUA_MINSTACK <= len
  BY LimitAssumption
<1>3. StackOK(stack, top) /\ Len(stack) = len
  <2>1. stack \in Seq(Value) /\ Len(stack) = len
    <3>. HIDE DEF len
    <3>. QED
      BY <1>1, <1>2 DEF Value
  <2>2. top \in 1 .. len
    BY <1>1, <1>2, LimitAssumption
  <2>. QED
    BY <2>1, <2>2 DEF StackOK
<1>4. /\ fr \in Frame /\ fr.callee = Nil /\ fr.fn = 1 /\ fr.base = 2 /\ fr.top = 2 + LUA_MINSTACK
      /\ fr.live = 0
  BY LimitAssumption DEF Frame
<1>. HIDE DEF fr
<1>5. FrameFits(fr, len)
  <2>1. fr.callee \notin LuaFn /\ fr.callee \notin VarArg
    BY <1>4, FunctionAssumption DEF Fn
  <2>2. 2 + 0 <= len + 1 /\ 2 <= 2 + LUA_MINSTACK
    <3>1. LUA_MINSTACK \in Nat
      BY LimitAssumption
    <3>. HIDE DEF len
    <3>. QED
      BY <1>2, <3>1
  <2>. HIDE DEF len
  <2>. QED
    BY <2>1, <2>2, <1>2, <1>4 DEF FrameFits
<1>. HIDE DEF len
<1>6. ci \in Seq(Frame) /\ Len(ci) = 1 /\ ci[1] = fr
  BY <1>1, <1>4
<1>7. FramesOK(ci, base, len)
  BY <1>1, <1>4, <1>5, <1>6 DEF FramesOK
<1>8. e \in Entry /\ e.kind = "function" /\ e.byDCall = FALSE /\ Weight(e) = 1
  BY NewEntry
<1>. HIDE DEF e
<1>9. host \in Seq(Entry) /\ Len(host) = 1 /\ host[1] = e
  BY <1>1, <1>8
<1>10. Handlers(host, Len(host) + 1) = {} /\ DCalls(host, Len(host) + 1) = {}
  BY <1>8, <1>9 DEF Handlers, DCalls
<1>11. HostOK(host, errorJmp)
  BY <1>1, <1>8, <1>9, <1>10 DEF HostOK, HandlersOK, IsInnermost
<1>12. RunsOK(host, ci)
  <2>. DEFINE first == [h \in 1 .. 2 |-> h]
  <2>1. first \in [1 .. Len(host) + 1 -> Nat] /\ first[1] = 1 /\ first[2] = 2
    BY <1>9
  <2>. HIDE DEF first
  <2>2. ci[1].callee \notin LuaFn
    BY <1>4, <1>6, FunctionAssumption DEF Fn
  <2>3. Runs(first, host, ci)
    <3>1. first[1] = 1 /\ first[Len(host) + 1] = Len(ci) + 1
      BY <2>1, <1>6, <1>9
    <3>2. \A h \in 1 .. Len(host) : h = 1
      BY <1>9
    <3>3. \A h \in 1 .. Len(host) : first[h + 1] = first[h] + Weight(host[h])
      BY <3>2, <2>1, <1>8, <1>9
    <3>4. \A g, h \in 1 .. Len(host) + 1 : g < h => first[g] + Weight(host[g]) <= first[h]
      <4>1. \A g, h \in 1 .. Len(host) + 1 : g < h => g = 1 /\ h = 2
        BY <1>9
      <4>. QED
        BY <4>1, <2>1, <1>8, <1>9
    <3>5. \A h \in 1 .. Len(host) : \A i \in first[h] .. first[h + 1] - 1 :
            ci[i].callee \in LuaFn <=> host[h].kind = "execute"
      <4>1. \A h \in 1 .. Len(host) : \A i \in first[h] .. first[h + 1] - 1 : i = 1
        BY <3>2, <2>1
      <4>. QED
        BY <4>1, <3>2, <2>2, <1>8, <1>9
    <3>6. \A h \in 1 .. Len(host) : host[h].kind # "pcall"
      BY <3>2, <1>8, <1>9
    <3>. QED
      BY <3>1, <3>3, <3>4, <3>5, <3>6 DEF Runs
  <2>. QED
    BY <2>1, <2>3 DEF RunsOK
<1>13. CountsOK(host, nCCalls)
  <2>1. Cardinality({}) = 0
    BY FS_EmptySet
  <2>. QED
    BY <2>1, <1>1, <1>10 DEF CountsOK
<1>14. PCallsOK(host, ci, len) /\ WithinLimit(host, errorJmp, nCCalls)
  BY <1>1, <1>10 DEF PCallsOK, WithinLimit
<1>15. HostInv(host, errorJmp, ci, nCCalls, Len(stack))
  BY <1>3, <1>11, <1>12, <1>13, <1>14 DEF HostInv
<1>16. Runner.kind # "pcall"
  BY <1>8, <1>9 DEF Runner
<1>17. RunInv
  BY <1>3, <1>7, <1>15, <1>16 DEF RunInv
<1>18. SizeOK(ci, sizeCi)
  BY <1>1, <1>6, Constants DEF SizeOK
<1>. QED
  BY <1>11, <1>17, <1>18 DEF IInv

LEMMA StutterStep ==
  ASSUME IInv, UNCHANGED vars
  PROVE  IInv' /\ (RunInv => Restores)
<1>1. RunInv => RunInv'
  BY DEF vars, RunInv, Runner
<1>2. IInv'
  BY <1>1 DEF vars, IInv, Running
<1>3. RunInv => Restores
  BY RunFacts, HostLonger DEF vars
<1>. QED
  BY <1>2, <1>3

LEMMA NextInv ==
  ASSUME IInv, [Next]_vars
  PROVE  IInv' /\ Restores
<1>1. CASE Running /\ Next
  <2>1. CASE UNCHANGED vars
    BY <2>1, <1>1, StutterStep DEF IInv
  <2>. QED
    BY <1>1, <2>1, LoadRegStep, OpCallStep, OpTailCallStep, OpReturnStep, OpVarargStep,
       PushValueStep, LoadStep, ApiCallStep, PCallStep, ProtectedCallStep, ReturnFromGoStep,
       CallNoFunctionStep
       DEF Next, Stopped, Running
<1>2. CASE UNCHANGED vars
  <2>1. outcome' = "running" => Running
    BY <1>2 DEF vars, Running
  <2>2. ~Running => Restores
    BY <2>1 DEF Restores
  <2>. QED
    BY <2>2, <1>2, StutterStep DEF IInv
<1>3. CASE ~Running /\ Next
  BY <1>2, <1>3 DEF Next, Stopped, Running
<1>. QED
  BY <1>1, <1>2, <1>3

\* The invariant, of every reachable state.
THEOREM Invariant == Spec => []IInv
BY InitInv, NextInv, PTL DEF Spec

\* dPrecall, dPoscall, correctstack and every error path keep the frames nested
\* on the one stack, with L.base, L.top and the registers of every frame inside.
THEOREM FramesStayNested == Spec => []FramesNested
<1>1. IInv => FramesNested
  <2>. SUFFICES ASSUME IInv, Running PROVE FramesNested
    BY DEF FramesNested
  <2>1. RunInv
    BY DEF IInv
  <2>2. /\ Len(stack) \in Nat /\ top \in 1 .. Len(stack) /\ base = CI.base /\ ci \in Seq(Frame)
        /\ FramesOK(ci, base, Len(stack))
    BY <2>1, RunFacts DEF RunInv
  <2>3. top <= StackLast(stack) + EXTRA_STACK
    BY <2>2, Constants DEF StackLast
  <2>4. \A i \in DOMAIN ci : ci[i].fn < ci[i].base /\ ci[i].base + ci[i].live <= Len(stack) + 1
    BY <2>2 DEF FramesOK, FrameFits
  <2>5. \A i \in 1 .. Len(ci) - 1 : ci[i].base <= ci[i + 1].fn
    BY <2>2 DEF FramesOK
  <2>. QED
    BY <2>2, <2>3, <2>4, <2>5 DEF FramesNested
<1>. QED
  BY <1>1, Invariant, PTL

\* There is one innermost handler.
LEMMA InnermostIsOne ==
  ASSUME NEW S \in SUBSET Nat, NEW e, IsInnermost(e, S)
  PROVE  e = IF S = {} THEN NoHandler ELSE CHOOSE h \in S : \A g \in S : g <= h
<1>1. CASE S = {}
  BY <1>1 DEF IsInnermost
<1>2. CASE S # {}
  <2>1. e \in S /\ \A g \in S : g <= e
    BY <1>2 DEF IsInnermost
  <2>. DEFINE k == CHOOSE h \in S : \A g \in S : g <= h
  <2>2. k \in S /\ \A g \in S : g <= k
    BY <2>1
  <2>. HIDE DEF k
  <2>3. e <= k /\ k <= e /\ e \in Nat /\ k \in Nat
    BY <2>1, <2>2
  <2>4. e = k
    BY <2>3
  <2>5. e = IF S = {} THEN NoHandler ELSE k
    BY <2>4, <1>2
  <2>. QED
    BY <2>5 DEF k
<1>. QED
  BY <1>1, <1>2

\* L.errorJmp is the innermost of the dPCalls under way, and each of them has
\* the next one out in previous: PCall links them, dThrow and the end of dPCall
\* unlink them, whatever was thrown through how many of them.
THEOREM HandlersStayNested == Spec => []HandlersNested
<1>1. IInv => HandlersNested
  <2>. SUFFICES ASSUME IInv PROVE HandlersNested
    OBVIOUS
  <2>. DEFINE handlers == { h \in DOMAIN host : host[h].kind = "pcall" }
              innermost(S) == IF S = {} THEN NoHandler ELSE CHOOSE h \in S : \A g \in S : g <= h
  <2>1. host \in Seq(Entry) /\ Len(host) \in Nat /\ HandlersOK(host, errorJmp)
    BY DEF IInv, HostOK
  <2>2. handlers = Handlers(host, Len(host) + 1) /\ handlers \in SUBSET Nat
    BY <2>1 DEF Handlers
  <2>3. errorJmp = innermost(handlers)
    BY <2>1, <2>2, InnermostIsOne DEF HandlersOK
  <2>4. ASSUME NEW h \in handlers
        PROVE  host[h].previous = innermost({ g \in handlers : g < h })
    <3>1. { g \in handlers : g < h } = Handlers(host, h)
      BY <2>1 DEF Handlers
    <3>2. IsInnermost(host[h].previous, Handlers(host, h))
      BY <2>1, <2>2 DEF HandlersOK
    <3>3. Handlers(host, h) \in SUBSET Nat
      BY <2>2, <3>1
    <3>. QED
      BY <3>1, <3>2, <3>3, InnermostIsOne
  <2>. QED
    BY <2>3, <2>4 DEF HandlersNested
<1>. QED
  BY <1>1, Invariant, PTL

\* nCCalls is the number of dCalls under way: every return takes one off for
\* the call that dCall counted, and every error the count back to its handler's.
THEOREM CallsStayCounted == Spec => []CallsCounted
<1>1. IInv => CallsCounted
  <2>. SUFFICES ASSUME IInv, Running PROVE CallsCounted
    BY DEF CallsCounted
  <2>1. host \in Seq(Entry) /\ nCCalls = Cardinality(DCalls(host, Len(host) + 1))
    BY DEF IInv, RunInv, HostInv, HostOK, CountsOK
  <2>2. DCalls(host, Len(host) + 1) = { h \in DOMAIN host : host[h].byDCall }
    BY <2>1 DEF DCalls
  <2>. QED
    BY <2>1, <2>2 DEF CallsCounted
<1>. QED
  BY <1>1, Invariant, PTL

\* The array of CallInfos grows to twice LUAI_MAXCCALLS at most, and below a
\* handler the calls that nest Go calls stay within their limit or within what
\* was there when the handler was set.
THEOREM DepthStaysBounded == Spec => []DepthBounded
<1>1. IInv => DepthBounded
  BY DEF IInv, SizeOK, RunInv, HostInv, WithinLimit, DepthBounded
<1>. QED
  BY <1>1, Invariant, PTL

\* A dPCall that ends, by a return or by an error from whatever depth, restores
\* the frame, the count of calls and the handler that were there before it.
THEOREM ProtectedCallsRestore == Spec => PCallRestores
<1>1. IInv /\ [Next]_vars =>
        \A h \in DOMAIN host :
          host[h].kind = "pcall" /\ Len(host') < h /\ outcome' = "running" =>
            /\ Len(ci') = host[h].ci
            /\ nCCalls' = host[h].nCCalls
            /\ base' = ci[host[h].ci].base
            /\ errorJmp' = host[h].previous
  BY NextInv DEF Restores
<1>. QED
  BY <1>1, Invariant, PTL DEF Spec, PCallRestores

\* Each Go activation runs the frames from first[h] up to those of the next one:
\* a vExecute as many Lua functions as it has calls (nExecCalls), a Go function
\* its own frame, a dPCall none; it knows the frame that made it.
FramesAreRun == Running => RunsOK(host, ci)

\* No call, return or error leaves a frame that nothing runs or an activation
\* that runs the frames of another.
THEOREM EveryFrameIsRun == Spec => []FramesAreRun
<1>1. IInv => FramesAreRun
  BY DEF IInv, RunInv, HostInv, FramesAreRun
<1>. QED
  BY <1>1, Invariant, PTL

-----------------------------------------------------------------------------
(* Frames are counted by the activations that run them *)

LEMMA LeastNumber ==
  ASSUME NEW T \in SUBSET Nat, T # {}
  PROVE  \E m \in T : \A k \in T : m <= k
<1>1. PICK m \in T : \A k \in T : ~(<<k, m>> \in OpToRel(<, Nat))
  BY NatLessThanWellFounded, WFMin
<1>2. \A k \in T : ~(k < m)
  BY <1>1 DEF OpToRel
<1>. QED
  BY <1>2

LEMMA Induct ==
  ASSUME NEW E \in SUBSET Nat, 0 \in E, \A n \in E : n + 1 \in E
  PROVE  E = Nat
<1>. SUFFICES ASSUME Nat \ E # {} PROVE FALSE
  OBVIOUS
<1>1. PICK m \in Nat \ E : \A k \in Nat \ E : m <= k
  BY LeastNumber
<1>2. m - 1 \in Nat /\ m - 1 \in E
  BY <1>1
<1>3. m - 1 + 1 \in E
  BY <1>2
<1>. QED
  BY <1>1, <1>3

\* The sum that adds the calls of the loops in any order.
CallsFrom(hs, loops, r) ==
  [S \in SUBSET loops |-> IF S = {} THEN 0
                          ELSE LET h == CHOOSE h \in S : TRUE IN hs[h].calls + r[S \ {h}]]

LEMMA OnlySum ==
  ASSUME NEW hs, NEW loops, IsFiniteSet(loops), NEW R, R = CallsFrom(hs, loops, R),
         NEW Q, Q = CallsFrom(hs, loops, Q)
  PROVE  R[loops] = Q[loops]
<1>. DEFINE E == {n \in Nat : \A S \in SUBSET loops : Cardinality(S) = n => R[S] = Q[S]}
<1>1. ASSUME NEW S \in SUBSET loops
      PROVE  IsFiniteSet(S) /\ Cardinality(S) \in Nat /\ (Cardinality(S) = 0 <=> S = {})
             /\ \A h \in S : Cardinality(S \ {h}) = Cardinality(S) - 1
  <2>1. IsFiniteSet(S)
    BY FS_Subset
  <2>. QED
    BY <2>1, FS_CardinalityType, FS_EmptySet, FS_RemoveElement
<1>2. R[{}] = Q[{}]
  BY DEF CallsFrom
<1>3. 0 \in E
  BY <1>1, <1>2
<1>4. ASSUME NEW n \in E PROVE n + 1 \in E
  <2>. SUFFICES ASSUME NEW S \in SUBSET loops, Cardinality(S) = n + 1 PROVE R[S] = Q[S]
    OBVIOUS
  <2>1. S # {}
    BY <1>1
  <2>. DEFINE h == CHOOSE h \in S : TRUE
  <2>2. h \in S
    BY <2>1
  <2>3. R[S] = hs[h].calls + R[S \ {h}] /\ Q[S] = hs[h].calls + Q[S \ {h}]
    BY <2>1 DEF CallsFrom
  <2>. HIDE DEF h
  <2>4. Cardinality(S \ {h}) = n
    BY <1>1, <2>2
  <2>5. R[S \ {h}] = Q[S \ {h}]
    BY <2>4
  <2>. QED
    BY <2>3, <2>5
<1>5. E = Nat
  <2>. HIDE DEF E
  <2>1. E \in SUBSET Nat
    BY DEF E
  <2>. QED
    BY <1>3, <1>4, <2>1, Induct
<1>6. Cardinality(loops) \in E
  BY <1>1, <1>5
<1>. QED
  BY <1>6

\* The frames that the activations in S run.
FramesOf(first, c, S) == {i \in 1 .. Len(c) : \E h \in S : i \in first[h] .. first[h + 1] - 1}

RunsHere(first, hs, c) ==
  /\ hs \in Seq(Entry) /\ c \in Seq(Frame)
  /\ first \in [1 .. Len(hs) + 1 -> Nat] /\ Runs(first, hs, c)

LEMMA IntervalIs ==
  ASSUME NEW first, NEW hs, NEW c, RunsHere(first, hs, c), NEW h \in 1 .. Len(hs)
  PROVE  /\ Len(hs) \in Nat /\ Len(c) \in Nat
         /\ first[h] \in Nat \ {0} /\ first[h + 1] \in Nat /\ first[h + 1] - 1 <= Len(c)
         /\ first[h + 1] = first[h] + Weight(hs[h]) /\ Weight(hs[h]) \in Nat
         /\ hs[h] \in Entry
         /\ \A g \in 1 .. Len(hs) : g < h => first[g + 1] <= first[h]
<1>1. /\ Len(hs) \in Nat /\ Len(c) \in Nat /\ \A g \in 1 .. Len(hs) : hs[g] \in Entry
  BY LenProperties, ElementOfSeq DEF RunsHere
<1>2. \A g \in 1 .. Len(hs) : Weight(hs[g]) \in Nat
  BY <1>1 DEF Entry, Weight
<1>. DEFINE n == Len(hs)
<1>3. /\ first[1] = 1 /\ first[n + 1] = Len(c) + 1
      /\ \A g \in 1 .. n : first[g + 1] = first[g] + Weight(hs[g])
      /\ \A g, k \in 1 .. n + 1 : g < k => first[g] + Weight(hs[g]) <= first[k]
      /\ first \in [1 .. n + 1 -> Nat]
  BY DEF RunsHere, Runs
<1>. HIDE DEF n
<1>4. n \in Nat /\ h \in 1 .. n /\ h + 1 \in 1 .. n + 1 /\ h \in 1 .. n + 1 /\ 1 \in 1 .. n + 1
      /\ n + 1 \in 1 .. n + 1 /\ \A g \in 1 .. n : g \in 1 .. n + 1
  BY <1>1 DEF n
<1>5. first[h] \in Nat /\ first[h + 1] \in Nat
  BY <1>3, <1>4
<1>6. first[h] > 0
  <2>1. CASE h = 1
    BY <1>3, <2>1
  <2>2. CASE 1 < h
    <3>1. first[1] + Weight(hs[1]) <= first[h] /\ Weight(hs[1]) \in Nat
      BY <1>2, <1>3, <1>4, <2>2 DEF n
    <3>. QED
      BY <1>3, <1>5, <3>1
  <2>. QED
    BY <1>4, <2>1, <2>2
<1>7. first[h + 1] <= Len(c) + 1
  <2>1. CASE h = n
    BY <1>1, <1>3, <2>1
  <2>2. CASE h + 1 < n + 1
    <3>1. first[h + 1] + Weight(hs[h + 1]) <= Len(c) + 1 /\ Weight(hs[h + 1]) \in Nat
      <4>1. h + 1 \in 1 .. n
        BY <1>4, <2>2
      <4>. QED
        BY <1>2, <1>3, <1>4, <2>2, <4>1 DEF n
    <3>. QED
      BY <1>1, <1>5, <3>1
  <2>. QED
    BY <1>4, <2>1, <2>2
<1>8. \A g \in 1 .. n : g < h => first[g + 1] <= first[h]
  BY <1>3, <1>4
<1>. QED
  BY <1>1, <1>2, <1>3, <1>4, <1>5, <1>6, <1>7, <1>8 DEF n

\* Every frame is in one interval.
LEMMA FrameHasRunner ==
  ASSUME NEW first, NEW hs, NEW c, RunsHere(first, hs, c), NEW i \in 1 .. Len(c)
  PROVE  \E h \in 1 .. Len(hs) : i \in first[h] .. first[h + 1] - 1
<1>. DEFINE n == Len(hs)  T == {h \in 1 .. n + 1 : i < first[h]}
<1>1. /\ n \in Nat /\ Len(c) \in Nat /\ first \in [1 .. n + 1 -> Nat]
      /\ first[1] = 1 /\ first[n + 1] = Len(c) + 1
  BY LenProperties DEF RunsHere, Runs
<1>. HIDE DEF n
<1>2. n + 1 \in T /\ T \in SUBSET Nat
  BY <1>1
<1>3. PICK m \in T : \A k \in T : m <= k
  BY <1>2, LeastNumber
<1>4. m # 1 /\ m \in 1 .. n + 1 /\ i < first[m]
  BY <1>1, <1>3
<1>. DEFINE h == m - 1
<1>5. h \in 1 .. n /\ h + 1 = m /\ h \in 1 .. n + 1
  BY <1>1, <1>4
<1>6. ~(i < first[h])
  BY <1>1, <1>3, <1>5
<1>. HIDE DEF h
<1>7. first[h] \in Nat /\ first[h + 1] \in Nat
  BY <1>1, <1>4, <1>5
<1>8. i \in first[h] .. first[h + 1] - 1
  BY <1>4, <1>5, <1>6, <1>7
<1>. QED
  BY <1>5, <1>8 DEF n

LEMMA OneRunner ==
  ASSUME NEW first, NEW hs, NEW c, RunsHere(first, hs, c),
         NEW g \in 1 .. Len(hs), NEW h \in 1 .. Len(hs), NEW i,
         i \in first[g] .. first[g + 1] - 1, i \in first[h] .. first[h + 1] - 1
  PROVE  g = h
<1>1. /\ first[g] \in Nat /\ first[h] \in Nat /\ first[g + 1] \in Nat /\ first[h + 1] \in Nat
      /\ g < h => first[g + 1] <= first[h]
      /\ h < g => first[h + 1] <= first[g]
  BY IntervalIs
<1>2. i \in Int /\ first[g] <= i /\ i < first[g + 1] /\ first[h] <= i /\ i < first[h + 1]
  BY <1>1
<1>3. ~(g < h) /\ ~(h < g)
  BY <1>1, <1>2, SMTT(20)
<1>. QED
  BY <1>3

\* An execute loop runs as many frames as it counts, more than the other loops.
LEMMA FramesAdd ==
  ASSUME NEW first, NEW hs, NEW c, RunsHere(first, hs, c), NEW S \in SUBSET (1 .. Len(hs)), NEW h \in S
  PROVE  Cardinality(FramesOf(first, c, S)) = Weight(hs[h]) + Cardinality(FramesOf(first, c, S \ {h}))
<1>. DEFINE a == first[h]  b == first[h + 1] - 1  A == a .. b  B == FramesOf(first, c, S \ {h})  w == Weight(hs[h])
<1>1. /\ a \in Nat \ {0} /\ b \in Int /\ b <= Len(c) /\ Len(c) \in Nat /\ b = a + w - 1 /\ w \in Nat
  BY IntervalIs
<1>2. FramesOf(first, c, S) = A \cup B
  <2>1. A \subseteq 1 .. Len(c)
    <3>. HIDE DEF a, b
    <3>. QED
      BY <1>1
  <2>. QED
    BY <2>1 DEF FramesOf
<1>3. A \cap B = {}
  <2>. SUFFICES ASSUME NEW i, i \in A, i \in B PROVE FALSE
    OBVIOUS
  <2>1. PICK g \in S \ {h} : i \in first[g] .. first[g + 1] - 1
    BY DEF FramesOf
  <2>. QED
    BY <2>1, OneRunner
<1>. HIDE DEF a, b, w
<1>4. IsFiniteSet(A) /\ Cardinality(A) = w
  <2>1. a \in Int /\ b \in Int /\ w \in Nat /\ b = a + w - 1
    BY <1>1
  <2>2. IsFiniteSet(a .. b) /\ Cardinality(a .. b) = IF a > b THEN 0 ELSE b - a + 1
    BY <2>1, FS_Interval
  <2>. HIDE DEF A
  <2>3. (IF a > b THEN 0 ELSE b - a + 1) = w
    BY <2>1
  <2>. QED
    BY <2>2, <2>3 DEF A
<1>5. IsFiniteSet(B) /\ Cardinality(B) \in Nat
  <2>1. IsFiniteSet(1 .. Len(c))
    BY <1>1, FS_Interval
  <2>2. B \subseteq 1 .. Len(c)
    BY DEF FramesOf
  <2>. QED
    BY <2>1, <2>2, FS_Subset, FS_CardinalityType
<1>. HIDE DEF A, B
<1>6. Cardinality(A \cup B) = Cardinality(A) + Cardinality(B)
  <2>1. Cardinality(A \cup B) = Cardinality(A) + Cardinality(B) - Cardinality(A \cap B)
    BY <1>4, <1>5, FS_Union
  <2>2. Cardinality(A \cap B) = 0
    BY <1>3, FS_EmptySet
  <2>3. Cardinality(A) \in Nat
    BY <1>4, FS_CardinalityType
  <2>. QED
    BY <1>5, <2>1, <2>2, <2>3
<1>7. Cardinality(FramesOf(first, c, S)) = w + Cardinality(B)
  BY <1>2, <1>4, <1>6
<1>. QED
  BY <1>7 DEF w, B

LuaFrames(c) == {i \in 1 .. Len(c) : c[i].callee \in LuaFn}
OfKind(hs, k) == {h \in 1 .. Len(hs) : hs[h].kind = k}

\* The frames of Lua functions are those of the loops, the others those of the
\* Go functions.
LEMMA KindOfRunner ==
  ASSUME NEW first, NEW hs, NEW c, RunsHere(first, hs, c), NEW h \in 1 .. Len(hs),
         NEW i \in first[h] .. first[h + 1] - 1
  PROVE  /\ i \in LuaFrames(c) => hs[h].kind = "execute"
         /\ i \in 1 .. Len(c) /\ i \notin LuaFrames(c) => hs[h].kind = "function" /\ i = first[h]
         /\ hs[h].kind = "execute" => i \in LuaFrames(c)
<1>1. /\ first[h] \in Nat \ {0} /\ first[h + 1] \in Nat /\ first[h + 1] - 1 <= Len(c)
      /\ first[h + 1] = first[h] + Weight(hs[h]) /\ hs[h] \in Entry /\ Len(c) \in Nat
  BY IntervalIs
<1>2. c[i].callee \in LuaFn <=> hs[h].kind = "execute"
  BY DEF RunsHere, Runs
<1>3. i \in Int /\ first[h] <= i /\ i < first[h] + Weight(hs[h])
  BY <1>1
<1>4. i \in 1 .. Len(c)
  BY <1>1, <1>3
<1>5. hs[h].kind \in {"function", "execute", "pcall"}
  BY <1>1 DEF Entry
<1>6. hs[h].kind # "pcall" /\ (hs[h].kind = "function" => i = first[h])
  BY <1>1, <1>3 DEF Weight
<1>7. i \in LuaFrames(c) <=> hs[h].kind = "execute"
  BY <1>2, <1>4 DEF LuaFrames
<1>8. i \notin LuaFrames(c) => hs[h].kind = "function" /\ i = first[h]
  BY <1>5, <1>6, <1>7
<1>. QED
  BY <1>7, <1>8

LEMMA LuaFramesCounted ==
  ASSUME NEW first, NEW hs, NEW c, RunsHere(first, hs, c), NEW runs,
         runs = CHOOSE r : r = CallsFrom(hs, OfKind(hs, "execute"), r)
  PROVE  runs[OfKind(hs, "execute")] = Cardinality(LuaFrames(c))
<1>. DEFINE loops == OfKind(hs, "execute")
            R == [S \in SUBSET loops |-> Cardinality(FramesOf(first, c, S))]
<1>1. Len(hs) \in Nat /\ loops \in SUBSET (1 .. Len(hs)) /\ \A h \in loops : hs[h].kind = "execute"
  BY LenProperties DEF RunsHere, OfKind
<1>2. IsFiniteSet(loops)
  <2>1. IsFiniteSet(1 .. Len(hs))
    BY <1>1, FS_Interval
  <2>. QED
    BY <1>1, <2>1, FS_Subset
<1>. HIDE DEF loops
<1>3. R = CallsFrom(hs, loops, R)
  <2>1. R[{}] = 0
    <3>1. FramesOf(first, c, {}) = {}
      BY DEF FramesOf
    <3>. QED
      BY <3>1, FS_EmptySet
  <2>2. ASSUME NEW S \in SUBSET loops, NEW h \in S
        PROVE  R[S] = hs[h].calls + R[S \ {h}]
    <3>1. Weight(hs[h]) = hs[h].calls
      BY <1>1 DEF Weight
    <3>2. Cardinality(FramesOf(first, c, S)) = Weight(hs[h]) + Cardinality(FramesOf(first, c, S \ {h}))
      BY <1>1, FramesAdd
    <3>3. S \ {h} \in SUBSET loops
      OBVIOUS
    <3>. QED
      BY <3>1, <3>2, <3>3
  <2>3. DOMAIN R = SUBSET loops
    OBVIOUS
  <2>4. ASSUME NEW S \in SUBSET loops
        PROVE  R[S] = IF S = {} THEN 0
                      ELSE LET h == CHOOSE h \in S : TRUE IN hs[h].calls + R[S \ {h}]
    <3>. DEFINE h == CHOOSE h \in S : TRUE
    <3>1. CASE S = {}
      BY <2>1, <3>1
    <3>2. CASE S # {}
      <4>1. h \in S
        BY <3>2
      <4>. HIDE DEF h, R
      <4>2. R[S] = hs[h].calls + R[S \ {h}]
        BY <2>2, <4>1
      <4>. QED
        BY <3>2, <4>2 DEF h
    <3>. QED
      BY <3>1, <3>2
  <2>5. R = [S \in SUBSET loops |-> R[S]]
    OBVIOUS
  <2>. HIDE DEF R
  <2>6. R = CallsFrom(hs, loops, R)
    BY <2>4, <2>5 DEF CallsFrom
  <2>. QED
    BY <2>6
<1>4. runs[loops] = R[loops]
  <2>. HIDE DEF R
  <2>1. runs = CallsFrom(hs, loops, runs)
    BY <1>3 DEF loops
  <2>. QED
    BY <1>2, <1>3, <2>1, OnlySum
<1>5. FramesOf(first, c, loops) = LuaFrames(c)
  <2>1. ASSUME NEW i \in LuaFrames(c) PROVE \E h \in loops : i \in first[h] .. first[h + 1] - 1
    <3>1. i \in 1 .. Len(c)
      BY DEF LuaFrames
    <3>2. PICK h \in 1 .. Len(hs) : i \in first[h] .. first[h + 1] - 1
      BY <3>1, FrameHasRunner
    <3>3. hs[h].kind = "execute"
      BY <3>2, KindOfRunner
    <3>4. h \in loops
      BY <3>3 DEF loops, OfKind
    <3>. QED
      BY <3>2, <3>4
  <2>2. ASSUME NEW h \in loops, NEW i \in first[h] .. first[h + 1] - 1 PROVE i \in LuaFrames(c)
    <3>1. h \in 1 .. Len(hs) /\ hs[h].kind = "execute"
      BY <1>1
    <3>. QED
      BY <3>1, KindOfRunner
  <2>. QED
    BY <2>1, <2>2 DEF FramesOf, LuaFrames
<1>6. R[loops] = Cardinality(LuaFrames(c))
  BY <1>5
<1>. QED
  BY <1>4, <1>6 DEF loops

LEMMA GoFramesCounted ==
  ASSUME NEW first, NEW hs, NEW c, RunsHere(first, hs, c)
  PROVE  Cardinality(OfKind(hs, "function")) = Len(c) - Cardinality(LuaFrames(c))
<1>. DEFINE F == OfKind(hs, "function")  G == (1 .. Len(c)) \ LuaFrames(c)  M == [h \in F |-> first[h]]
<1>1. Len(hs) \in Nat /\ Len(c) \in Nat /\ F \in SUBSET (1 .. Len(hs)) /\ \A h \in F : hs[h].kind = "function"
  BY LenProperties DEF RunsHere, OfKind
<1>2. IsFiniteSet(F) /\ IsFiniteSet(1 .. Len(c)) /\ Cardinality(1 .. Len(c)) = Len(c)
  <2>1. IsFiniteSet(1 .. Len(hs))
    BY <1>1, FS_Interval
  <2>2. IsFiniteSet(F)
    BY <1>1, <2>1, FS_Subset
  <2>. DEFINE n == Len(c)
  <2>3. n \in Nat /\ 1 \in Int /\ n \in Int
    BY <1>1
  <2>. HIDE DEF n
  <2>4. IsFiniteSet(1 .. n) /\ Cardinality(1 .. n) = IF 1 > n THEN 0 ELSE n - 1 + 1
    BY <2>3, FS_Interval
  <2>5. Cardinality(1 .. n) = n
    BY <2>3, <2>4
  <2>. QED
    BY <2>2, <2>4, <2>5 DEF n
<1>3. ASSUME NEW h \in F PROVE first[h] \in first[h] .. first[h + 1] - 1 /\ first[h] \in G
  <2>1. /\ first[h] \in Nat \ {0} /\ first[h + 1] - 1 <= Len(c) /\ first[h + 1] = first[h] + 1
    BY <1>1, IntervalIs DEF Weight
  <2>2. first[h] \in first[h] .. first[h + 1] - 1 /\ first[h] \in 1 .. Len(c)
    BY <1>1, <2>1
  <2>3. first[h] \notin LuaFrames(c)
    <3>1. h \in 1 .. Len(hs) /\ hs[h].kind # "execute"
      BY <1>1
    <3>2. first[h] \in LuaFrames(c) => hs[h].kind = "execute"
      BY <2>2, <3>1, KindOfRunner
    <3>. QED
      BY <3>1, <3>2
  <2>. QED
    BY <2>2, <2>3
<1>4. M \in Injection(F, G)
  <2>1. ASSUME NEW g \in F, NEW h \in F, first[g] = first[h] PROVE g = h
    BY <1>1, <1>3, <2>1, OneRunner
  <2>2. M \in [F -> G]
    BY <1>3
  <2>. QED
    BY <2>1, <2>2 DEF Injection, IsInjective
<1>5. M \in Surjection(F, G)
  <2>1. ASSUME NEW i \in G PROVE \E h \in F : first[h] = i
    <3>1. PICK h \in 1 .. Len(hs) : i \in first[h] .. first[h + 1] - 1
      BY FrameHasRunner
    <3>2. i \in 1 .. Len(c) /\ i \notin LuaFrames(c)
      OBVIOUS
    <3>3. hs[h].kind = "function" /\ i = first[h]
      BY <3>1, <3>2, KindOfRunner
    <3>. QED
      BY <3>3 DEF OfKind
  <2>2. M \in [F -> G]
    BY <1>3
  <2>. QED
    BY <2>1, <2>2 DEF Surjection
<1>6. ExistsBijection(F, G)
  BY <1>4, <1>5 DEF ExistsBijection, Bijection
<1>. HIDE DEF M, F
<1>7. Cardinality(F) = Cardinality(G)
  <2>. HIDE DEF G
  <2>. QED
    BY <1>2, <1>6, FS_Bijection
<1>8. Cardinality(G) = Len(c) - Cardinality(LuaFrames(c))
  <2>1. LuaFrames(c) \in SUBSET (1 .. Len(c))
    BY DEF LuaFrames
  <2>2. Cardinality(G) = Cardinality(1 .. Len(c)) - Cardinality((1 .. Len(c)) \cap LuaFrames(c))
    BY <1>2, FS_Difference
  <2>3. (1 .. Len(c)) \cap LuaFrames(c) = LuaFrames(c)
    BY <2>1
  <2>. QED
    BY <1>2, <2>2, <2>3
<1>. QED
  BY <1>7, <1>8 DEF F

\* The Go functions have one frame each and the loops as many as they count:
\* together they have every CallInfo there is.
THEOREM FramesAreCounted == Spec => []HostRunsFrames
<1>1. IInv => HostRunsFrames
  <2>. SUFFICES ASSUME IInv, Running PROVE HostRunsFrames
    BY DEF HostRunsFrames
  <2>1. host \in Seq(Entry) /\ ci \in Seq(Frame) /\ RunsOK(host, ci)
    BY DEF IInv, RunInv, HostInv, HostOK, FramesOK
  <2>2. PICK first : RunsHere(first, host, ci)
    BY <2>1 DEF RunsOK, RunsHere
  <2>3. DOMAIN host = 1 .. Len(host) /\ DOMAIN ci = 1 .. Len(ci)
    BY <2>1
  <2>. DEFINE lua == { i \in DOMAIN ci : ci[i].callee \in LuaFn }
              loops == { h \in DOMAIN host : host[h].kind = "execute" }
              functions == { h \in DOMAIN host : host[h].kind = "function" }
              runs == CHOOSE r : r = [S \in SUBSET loops |-> IF S = {} THEN 0
                                      ELSE LET h == CHOOSE h \in S : TRUE IN host[h].calls + r[S \ {h}]]
  <2>4. lua = LuaFrames(ci) /\ loops = OfKind(host, "execute") /\ functions = OfKind(host, "function")
    BY <2>3 DEF LuaFrames, OfKind
  <2>5. Cardinality(functions) = Len(ci) - Cardinality(lua)
    BY <2>2, <2>4, GoFramesCounted
  <2>6. runs = CHOOSE r : r = CallsFrom(host, OfKind(host, "execute"), r)
    BY <2>4 DEF CallsFrom
  <2>7. runs[loops] = Cardinality(lua)
    <3>. HIDE DEF runs, loops, lua
    <3>. QED
      BY <2>2, <2>4, <2>6, LuaFramesCounted
  <2>. HIDE DEF functions
  <2>. QED
    BY <2>5, <2>7 DEF HostRunsFrames, functions
<1>. QED
  BY <1>1, Invariant, PTL

-----------------------------------------------------------------------------
(* Windows of the stack *)

\* A window of a stack whose last position is at most the end.
LEMMA Window ==
  ASSUME NEW s \in Seq(Value), NEW a \in Nat \ {0}, NEW b \in Nat, b <= Len(s), a <= b + 1
  PROVE  /\ SubSeq(s, a, b) \in Seq(Value) /\ Len(SubSeq(s, a, b)) = b - a + 1
         /\ \A i \in 1 .. b - a + 1 : SubSeq(s, a, b)[i] = s[a + i - 1]
<1>1. \A i \in a .. b : i \in 1 .. Len(s)
  OBVIOUS
<1>2. \A i \in a .. b : s[i] \in Value
  BY <1>1
<1>. HIDE DEF Value
<1>3. /\ SubSeq(s, a, b) \in Seq(Value)
      /\ Len(SubSeq(s, a, b)) = IF a <= b THEN b - a + 1 ELSE 0
      /\ \A i \in 1 .. b - a + 1 : SubSeq(s, a, b)[i] = s[a + i - 1]
  BY <1>2, SubSeqProperties
<1>. QED
  BY <1>3

LEMMA SameWindow ==
  ASSUME NEW s \in Seq(Value), NEW s2 \in Seq(Value), NEW a \in Nat \ {0}, NEW b \in Nat,
         b <= Len(s), b <= Len(s2), a <= b + 1, \A p \in a .. b : s2[p] = s[p]
  PROVE  SubSeq(s2, a, b) = SubSeq(s, a, b)
<1>1. /\ SubSeq(s, a, b) \in Seq(Value) /\ Len(SubSeq(s, a, b)) = b - a + 1
      /\ \A i \in 1 .. b - a + 1 : SubSeq(s, a, b)[i] = s[a + i - 1]
  BY Window
<1>2. /\ SubSeq(s2, a, b) \in Seq(Value) /\ Len(SubSeq(s2, a, b)) = b - a + 1
      /\ \A i \in 1 .. b - a + 1 : SubSeq(s2, a, b)[i] = s2[a + i - 1]
  BY Window
<1>3. \A i \in 1 .. b - a + 1 : a + i - 1 \in a .. b
  OBVIOUS
<1>4. \A i \in 1 .. b - a + 1 : SubSeq(s2, a, b)[i] = SubSeq(s, a, b)[i]
  BY <1>1, <1>2, <1>3
<1>. QED
  BY <1>1, <1>2, <1>4, SeqEqual

LEMMA WindowIn ==
  ASSUME NEW s \in Seq(Value), NEW a \in Nat \ {0}, NEW b \in Nat, b <= Len(s), a <= b + 1,
         NEW i \in Nat \ {0}, NEW j \in Nat, i <= j + 1, j <= b - a + 1
  PROVE  SubSeq(SubSeq(s, a, b), i, j) = SubSeq(s, a + i - 1, a + j - 1)
<1>. DEFINE w == SubSeq(s, a, b)  a2 == a + i - 1  b2 == a + j - 1
<1>1. /\ w \in Seq(Value) /\ Len(w) = b - a + 1
      /\ \A k \in 1 .. b - a + 1 : w[k] = s[a + k - 1]
  BY Window
<1>2. a2 \in Nat \ {0} /\ b2 \in Nat /\ b2 <= Len(s) /\ a2 <= b2 + 1 /\ b2 - a2 + 1 = j - i + 1
  OBVIOUS
<1>. HIDE DEF w
<1>3. /\ SubSeq(w, i, j) \in Seq(Value) /\ Len(SubSeq(w, i, j)) = j - i + 1
      /\ \A k \in 1 .. j - i + 1 : SubSeq(w, i, j)[k] = w[i + k - 1]
  BY <1>1, Window
<1>4. ASSUME NEW k \in 1 .. j - i + 1
      PROVE  i + k - 1 \in 1 .. b - a + 1 /\ a + (i + k - 1) - 1 = a2 + k - 1
  OBVIOUS
<1>. HIDE DEF a2, b2
<1>5. /\ SubSeq(s, a2, b2) \in Seq(Value) /\ Len(SubSeq(s, a2, b2)) = j - i + 1
      /\ \A k \in 1 .. j - i + 1 : SubSeq(s, a2, b2)[k] = s[a2 + k - 1]
  BY <1>2, Window
<1>6. ASSUME NEW k \in 1 .. j - i + 1 PROVE SubSeq(w, i, j)[k] = SubSeq(s, a2, b2)[k]
  <2>1. SubSeq(w, i, j)[k] = w[i + k - 1] /\ SubSeq(s, a2, b2)[k] = s[a2 + k - 1]
    BY <1>3, <1>5
  <2>2. w[i + k - 1] = s[a + (i + k - 1) - 1]
    BY <1>1, <1>4
  <2>. QED
    BY <1>4, <2>1, <2>2
<1>7. SubSeq(w, i, j) = SubSeq(s, a2, b2)
  BY <1>3, <1>5, <1>6, SeqEqual
<1>. QED
  BY <1>7 DEF w, a2, b2

\* A window with more behind it.
Joined(x, w, r) == x = w \o r

LEMMA WindowGrows ==
  ASSUME NEW s \in Seq(Value), NEW s2 \in Seq(Value), NEW a \in Nat \ {0}, NEW b \in Nat,
         b <= Len(s), a <= b + 1, NEW n \in Nat, NEW r \in Seq(Value), Len(r) = n,
         NEW c, c = b + n, c <= Len(s2),
         \A p \in a .. b : s2[p] = s[p], \A i \in 1 .. n : s2[b + i] = r[i]
  PROVE  Joined(SubSeq(s2, a, c), SubSeq(s, a, b), r)
<1>. DEFINE w == SubSeq(s, a, b)  l == b - a + 1  m == l + n
<1>0. n \in Nat /\ r \in Seq(Value) /\ Len(r) = n /\ l \in Nat
  OBVIOUS
<1>1. w \in Seq(Value) /\ Len(w) = l /\ \A k \in 1 .. l : w[k] = s[a + k - 1]
  BY Window
<1>. HIDE DEF w
<1>a. c \in Nat /\ c <= Len(s2) /\ a <= c + 1 /\ c - a + 1 = m /\ m \in Nat
  BY <1>0
<1>b. \A k \in 1 .. l : a + k - 1 \in a .. b
  OBVIOUS
<1>c. \A k \in 1 .. m : k \in 1 .. l \/ (~(k <= l) /\ k - l \in 1 .. n /\ b + (k - l) = a + k - 1)
  BY <1>0
<1>d. \A k \in 1 .. l : k <= l
  OBVIOUS
<1>. HIDE DEF l
<1>2. /\ w \o r \in Seq(Value) /\ Len(w \o r) = m
      /\ \A k \in 1 .. m : (w \o r)[k] = IF k <= l THEN w[k] ELSE r[k - l]
  <2>1. /\ w \o r \in Seq(Value) /\ Len(w \o r) = Len(w) + Len(r)
        /\ \A k \in 1 .. Len(w) + Len(r) : (w \o r)[k] = IF k <= Len(w) THEN w[k] ELSE r[k - Len(w)]
    BY <1>0, <1>1, ConcatProperties
  <2>. QED
    BY <1>0, <1>1, <2>1
<1>. HIDE DEF m
<1>4. /\ SubSeq(s2, a, c) \in Seq(Value) /\ Len(SubSeq(s2, a, c)) = m
      /\ \A k \in 1 .. m : SubSeq(s2, a, c)[k] = s2[a + k - 1]
  BY <1>a, Window
<1>5. ASSUME NEW k \in 1 .. m PROVE s2[a + k - 1] = (w \o r)[k]
  <2>1. CASE k \in 1 .. l
    <3>1. (w \o r)[k] = s[a + k - 1]
      BY <1>1, <1>2, <1>d, <2>1
    <3>2. s2[a + k - 1] = s[a + k - 1]
      BY <1>b, <2>1
    <3>. QED
      BY <3>1, <3>2
  <2>2. CASE ~(k <= l) /\ k - l \in 1 .. n /\ b + (k - l) = a + k - 1
    <3>1. s2[b + (k - l)] = r[k - l]
      BY <2>2
    <3>2. (w \o r)[k] = r[k - l]
      BY <1>2, <2>2
    <3>. QED
      BY <2>2, <3>1, <3>2
  <2>. QED
    BY <1>c, <2>1, <2>2
<1>6. SubSeq(s2, a, c) = w \o r
  BY <1>2, <1>4, <1>5, SeqEqual
<1>. QED
  BY <1>6 DEF w, Joined

-----------------------------------------------------------------------------
(* What LuaActivations sees *)

Protects(hs, i) == \E h \in DOMAIN hs : hs[h].kind = "pcall" /\ hs[h].ci = i - 1

Extras(fr, s) ==
  IF fr.callee \in VarArg THEN SubSeq(s, fr.fn + 1 + NumParams[fr.callee], fr.base - 1) ELSE <<>>

\* An activation, and that of a frame whose registers end before `to`.
Rec(f, nr, protected, regs, extra) ==
  [callee |-> f, nres |-> nr, protected |-> protected, regs |-> regs, extra |-> extra]

\* The same activation with other registers.
SetRegs(a, r) == [a EXCEPT !.regs = r]

Act(fr, s, to, protected) ==
  Rec(fr.callee, fr.nres, protected, SubSeq(s, fr.base, to - 1), Extras(fr, s))

To(c, i, e) == IF i < Len(c) THEN c[i + 1].fn ELSE e

Acts(c, s, hs, e) == [i \in 1 .. Len(c) |-> Act(c[i], s, To(c, i, e), Protects(hs, i))]

\* Where the registers of the running function end.
End == IF InLua THEN LiveTop ELSE top

LEMMA ActivationsAre == Activations = Acts(ci, stack, host, End)
<1>1. ASSUME NEW i \in 1 .. Len(ci)
      PROVE  Registers(i) = SubSeq(stack, ci[i].base, To(ci, i, End) - 1)
  BY DEF Registers, To, End
<1>2. ASSUME NEW i \in 1 .. Len(ci)
      PROVE  [callee |-> ci[i].callee, nres |-> ci[i].nres, regs |-> Registers(i),
              protected |-> \E h \in DOMAIN host : host[h].kind = "pcall" /\ host[h].ci = i - 1,
              extra |-> IF ci[i].callee \in VarArg
                THEN SubSeq(stack, ci[i].fn + 1 + NumParams[ci[i].callee], ci[i].base - 1)
                ELSE <<>>]
             = Act(ci[i], stack, To(ci, i, End), Protects(host, i))
  BY <1>1 DEF Act, Rec, Protects, Extras
<1>. QED
  BY <1>2 DEF Activations, Acts

LEMMA RecIs ==
  ASSUME NEW f, NEW nr, NEW p, NEW r, NEW x, NEW r2
  PROVE  /\ Rec(f, nr, p, r, x).callee = f /\ Rec(f, nr, p, r, x).nres = nr
         /\ Rec(f, nr, p, r, x).protected = p /\ Rec(f, nr, p, r, x).regs = r
         /\ Rec(f, nr, p, r, x).extra = x
         /\ SetRegs(Rec(f, nr, p, r, x), r2) = Rec(f, nr, p, r2, x)
BY DEF Rec, SetRegs

LEMMA ActAt ==
  ASSUME NEW c, NEW s, NEW hs, NEW e, NEW i \in 1 .. Len(c)
  PROVE  Acts(c, s, hs, e)[i] = Act(c[i], s, To(c, i, e), Protects(hs, i))
BY DEF Acts

ActSet(c, s, hs, e) == {Acts(c, s, hs, e)[i] : i \in 1 .. Len(c)}

LEMMA ActsAre ==
  ASSUME NEW c, Len(c) \in Nat, NEW s, NEW hs, NEW e
  PROVE  /\ Acts(c, s, hs, e) \in Seq(ActSet(c, s, hs, e))
         /\ Len(Acts(c, s, hs, e)) = Len(c) /\ DOMAIN Acts(c, s, hs, e) = 1 .. Len(c)
<1>. DEFINE X == Acts(c, s, hs, e)
<1>1. DOMAIN X = 1 .. Len(c) /\ X = [i \in 1 .. Len(c) |-> X[i]]
  BY DEF Acts
<1>. HIDE DEF X
<1>2. X \in [1 .. Len(c) -> {X[i] : i \in 1 .. Len(c)}]
  BY <1>1
<1>3. X \in Seq({X[i] : i \in 1 .. Len(c)}) /\ Len(X) = Len(c)
  BY <1>1, <1>2
<1>. QED
  BY <1>1, <1>3 DEF X, ActSet

\* The bases of frames rise.
LEMMA BasesRise ==
  ASSUME NEW c, NEW b, NEW len, FramesOK(c, b, len), NEW j \in 1 .. Len(c)
  PROVE  /\ \A i \in 1 .. j : c[i].base <= c[j].base
         /\ \A i \in 1 .. j - 1 : c[i + 1].fn < c[j].base
<1>1. c \in Seq(Frame) /\ Len(c) \in Nat
  BY DEF FramesOK
<1>2. ASSUME NEW i \in 1 .. Len(c)
      PROVE  c[i].base \in Nat /\ c[i].fn \in Nat /\ c[i].fn < c[i].base
  BY <1>1, FrameFields DEF FramesOK, FrameFits
<1>3. ASSUME NEW i \in 1 .. Len(c) - 1 PROVE c[i].base <= c[i + 1].fn
  BY DEF FramesOK
<1>. DEFINE E == {d \in Nat : \A i \in 1 .. j : i + d = j => c[i].base <= c[j].base}
<1>4. 0 \in E
  BY <1>1, <1>2
<1>5. ASSUME NEW d \in E PROVE d + 1 \in E
  <2>. SUFFICES ASSUME NEW i \in 1 .. j, i + (d + 1) = j PROVE c[i].base <= c[j].base
    OBVIOUS
  <2>1. i + 1 \in 1 .. j /\ (i + 1) + d = j /\ i \in 1 .. Len(c) - 1 /\ i + 1 \in 1 .. Len(c)
        /\ i \in 1 .. Len(c)
    BY <1>1
  <2>2. c[i + 1].base <= c[j].base
    BY <2>1
  <2>3. c[i].base <= c[i + 1].fn
    BY <1>3, <2>1
  <2>4. c[i + 1].fn < c[i + 1].base /\ c[i + 1].fn \in Nat /\ c[i + 1].base \in Nat
        /\ c[i].base \in Nat /\ c[j].base \in Nat
    BY <1>2, <2>1
  <2>. QED
    <3>. DEFINE x == c[i].base  y == c[i + 1].fn  z == c[i + 1].base  w == c[j].base
    <3>1. x \in Nat /\ y \in Nat /\ z \in Nat /\ w \in Nat /\ x <= y /\ y < z /\ z <= w
      BY <2>2, <2>3, <2>4
    <3>. HIDE DEF x, y, z, w
    <3>2. x <= w
      BY <3>1
    <3>. QED
      BY <3>2 DEF x, w
<1>. HIDE DEF E
<1>6. E = Nat
  BY <1>4, <1>5, Induct DEF E
<1>7. ASSUME NEW i \in 1 .. j PROVE c[i].base <= c[j].base
  <2>1. j - i \in E /\ i + (j - i) = j
    BY <1>1, <1>6
  <2>. QED
    BY <2>1 DEF E
<1>8. ASSUME NEW i \in 1 .. j - 1 PROVE c[i + 1].fn < c[j].base
  <2>1. i + 1 \in 1 .. j /\ i + 1 \in 1 .. Len(c)
    BY <1>1
  <2>2. /\ c[i + 1].base <= c[j].base /\ c[i + 1].fn < c[i + 1].base
        /\ c[i + 1].fn \in Nat /\ c[i + 1].base \in Nat /\ c[j].base \in Nat
    BY <1>2, <1>7, <2>1
  <2>. QED
    BY <2>2
<1>. QED
  BY <1>7, <1>8

SameFrame(fr, fr2) ==
  fr2.callee = fr.callee /\ fr2.nres = fr.nres /\ fr2.base = fr.base /\ fr2.fn = fr.fn

\* Up to frame m nothing changes but where the registers of m end.
SameBelow(c, s, hs, c2, s2, hs2, m) ==
  /\ m \in 1 .. Len(c) /\ m \in 1 .. Len(c2)
  /\ \A i \in 1 .. m : SameFrame(c[i], c2[i])
  /\ \A p \in 1 .. c[m].base - 1 : s2[p] = s[p]
  /\ \A i \in 1 .. m : Protects(hs2, i) = Protects(hs, i)

LEMMA LowerActs ==
  ASSUME NEW c, NEW b, NEW s \in Seq(Value), NEW hs, NEW e, FramesOK(c, b, Len(s)),
         NEW c2, NEW b2, NEW s2 \in Seq(Value), NEW hs2, NEW e2, FramesOK(c2, b2, Len(s2)),
         NEW m, SameBelow(c, s, hs, c2, s2, hs2, m)
  PROVE  /\ \A i \in 1 .. m - 1 : Acts(c2, s2, hs2, e2)[i] = Acts(c, s, hs, e)[i]
         /\ Acts(c2, s2, hs2, e2)[m]
              = SetRegs(Acts(c, s, hs, e)[m], SubSeq(s2, c[m].base, To(c2, m, e2) - 1))
<1>1. /\ c \in Seq(Frame) /\ Len(c) \in Nat /\ c2 \in Seq(Frame) /\ Len(c2) \in Nat
      /\ m \in 1 .. Len(c) /\ m \in 1 .. Len(c2)
  BY DEF FramesOK, SameBelow
<1>2. ASSUME NEW i \in 1 .. m
      PROVE  /\ i \in 1 .. Len(c) /\ i \in 1 .. Len(c2) /\ SameFrame(c[i], c2[i])
             /\ Protects(hs2, i) = Protects(hs, i)
             /\ c[i] \in Frame /\ FrameFits(c[i], Len(s)) /\ FrameFits(c2[i], Len(s2))
             /\ c[i].fn \in Nat \ {0} /\ c[i].base \in Nat \ {0}
             /\ c[i].base - 1 <= Len(s) /\ c[i].base - 1 <= Len(s2)
  <2>1. i \in 1 .. Len(c) /\ i \in 1 .. Len(c2)
    BY <1>1
  <2>2. /\ SameFrame(c[i], c2[i]) /\ Protects(hs2, i) = Protects(hs, i)
        /\ FrameFits(c[i], Len(s)) /\ FrameFits(c2[i], Len(s2))
    BY <2>1 DEF FramesOK, SameBelow
  <2>3. /\ c[i] \in Frame /\ c[i].fn \in Nat \ {0} /\ c[i].base \in Nat \ {0} /\ c[i].top \in Nat
        /\ c2[i].base \in Nat \ {0} /\ c2[i].top \in Nat
    BY <1>1, <2>1, FrameFields
  <2>4. c[i].base <= c[i].top /\ c[i].top <= Len(s) /\ c2[i].base <= c2[i].top /\ c2[i].top <= Len(s2)
    BY <2>2 DEF FrameFits
  <2>5. c2[i].base = c[i].base
    BY <2>2 DEF SameFrame
  <2>6. c[i].base - 1 <= Len(s) /\ c[i].base - 1 <= Len(s2)
    BY <2>3, <2>4, <2>5
  <2>. QED
    BY <2>1, <2>2, <2>3, <2>6
<1>3. \A p \in 1 .. c[m].base - 1 : s2[p] = s[p]
  BY DEF SameBelow
<1>4. ASSUME NEW i \in 1 .. m PROVE c[i].base <= c[m].base
  BY <1>1, BasesRise
<1>5. ASSUME NEW i \in 1 .. m PROVE Extras(c2[i], s2) = Extras(c[i], s)
  <2>1. CASE c[i].callee \notin VarArg
    BY <1>2, <2>1 DEF Extras, SameFrame
  <2>2. CASE c[i].callee \in VarArg
    <3>. DEFINE n == NumParams[c[i].callee]  f == c[i].fn  bs == c[i].base  bm == c[m].base
                a == f + 1 + n  z == bs - 1
    <3>1. n \in Nat /\ f + n < bs
      BY <1>2, <2>2, FunctionAssumption DEF FrameFits
    <3>2. f \in Nat \ {0} /\ bs \in Nat \ {0} /\ z <= Len(s) /\ z <= Len(s2) /\ bm \in Nat /\ bs <= bm
      BY <1>1, <1>2, <1>4
    <3>. HIDE DEF n, f, bs, bm
    <3>3. a \in Nat \ {0} /\ z \in Nat /\ a <= z + 1 /\ \A p \in a .. z : p \in 1 .. bm - 1
      BY <3>1, <3>2
    <3>. HIDE DEF a, z
    <3>4. SubSeq(s2, a, z) = SubSeq(s, a, z)
      BY <1>3, <3>2, <3>3, SameWindow DEF bm
    <3>. QED
      BY <1>2, <2>2, <3>4 DEF Extras, SameFrame, a, z, n, f, bs
  <2>. QED
    BY <2>1, <2>2
<1>6. ASSUME NEW i \in 1 .. m - 1
      PROVE  SubSeq(s2, c[i].base, c[i + 1].fn - 1) = SubSeq(s, c[i].base, c[i + 1].fn - 1)
  <2>1. i \in 1 .. m /\ i + 1 \in 1 .. m /\ i \in 1 .. Len(c) - 1
    BY <1>1
  <2>2. c[i].base <= c[i + 1].fn /\ c[i + 1].fn < c[m].base
    BY <1>1, <2>1, BasesRise DEF FramesOK
  <2>. DEFINE a == c[i].base  z == c[i + 1].fn - 1
  <2>a. m \in 1 .. m
    BY <1>1
  <2>3. /\ c[i].base \in Nat \ {0} /\ c[i + 1].fn \in Nat \ {0} /\ c[m].base \in Nat
        /\ c[m].base - 1 <= Len(s) /\ c[m].base - 1 <= Len(s2) /\ Len(s) \in Nat /\ Len(s2) \in Nat
    <3>1. c[i].base \in Nat \ {0}
      BY <1>2, <2>1
    <3>2. c[i + 1].fn \in Nat \ {0}
      BY <1>2, <2>1
    <3>3. c[m].base \in Nat /\ c[m].base - 1 <= Len(s) /\ c[m].base - 1 <= Len(s2)
      BY <1>2, <2>a
    <3>4. Len(s) \in Nat /\ Len(s2) \in Nat
      BY <1>2
    <3>. QED
      BY <3>1, <3>2, <3>3, <3>4
  <2>4. a \in Nat \ {0} /\ z \in Nat /\ z <= Len(s) /\ z <= Len(s2) /\ a <= z + 1
    BY <2>2, <2>3, SMTT(20)
  <2>5. \A p \in a .. z : p \in 1 .. c[m].base - 1
    BY <2>2, <2>3
  <2>. HIDE DEF a, z
  <2>6. SubSeq(s2, a, z) = SubSeq(s, a, z)
    BY <1>3, <2>4, <2>5, SameWindow
  <2>. QED
    BY <2>6 DEF a, z
<1>7. ASSUME NEW i \in 1 .. m - 1
      PROVE  Acts(c2, s2, hs2, e2)[i] = Acts(c, s, hs, e)[i]
  <2>1. i \in 1 .. m /\ i + 1 \in 1 .. m /\ i < Len(c) /\ i < Len(c2)
    BY <1>1
  <2>2. To(c, i, e) = c[i + 1].fn /\ To(c2, i, e2) = c[i + 1].fn
    BY <1>2, <2>1 DEF To, SameFrame
  <2>3. Act(c2[i], s2, c[i + 1].fn, Protects(hs2, i)) = Act(c[i], s, c[i + 1].fn, Protects(hs, i))
    BY <1>2, <1>5, <1>6, <2>1 DEF Act, SameFrame
  <2>. QED
    BY <1>1, <1>2, <2>1, <2>2, <2>3, ActAt
<1>8. Acts(c2, s2, hs2, e2)[m]
        = SetRegs(Acts(c, s, hs, e)[m], SubSeq(s2, c[m].base, To(c2, m, e2) - 1))
  <2>1. m \in 1 .. m
    BY <1>1
  <2>2. Acts(c2, s2, hs2, e2)[m] = Act(c2[m], s2, To(c2, m, e2), Protects(hs2, m))
    BY <1>1, ActAt
  <2>3. Acts(c, s, hs, e)[m] = Act(c[m], s, To(c, m, e), Protects(hs, m))
    BY <1>1, ActAt
  <2>4. Act(c2[m], s2, To(c2, m, e2), Protects(hs2, m))
          = Rec(c[m].callee, c[m].nres, Protects(hs, m), SubSeq(s2, c[m].base, To(c2, m, e2) - 1), Extras(c[m], s))
    BY <1>2, <1>5, <2>1 DEF Act, SameFrame
  <2>. DEFINE r == SubSeq(s, c[m].base, To(c, m, e) - 1)  r2 == SubSeq(s2, c[m].base, To(c2, m, e2) - 1)
              f == c[m].callee  nr == c[m].nres  p == Protects(hs, m)  x == Extras(c[m], s)
  <2>5. Acts(c, s, hs, e)[m] = Rec(f, nr, p, r, x)
    BY <2>3 DEF Act
  <2>6. Acts(c2, s2, hs2, e2)[m] = Rec(f, nr, p, r2, x)
    BY <2>2, <2>4
  <2>. HIDE DEF r, f, nr, p, x, r2
  <2>7. SetRegs(Rec(f, nr, p, r, x), r2) = Rec(f, nr, p, r2, x)
    BY RecIs
  <2>8. Acts(c2, s2, hs2, e2)[m] = SetRegs(Acts(c, s, hs, e)[m], r2)
    BY <2>5, <2>6, <2>7
  <2>. QED
    BY <2>8 DEF r2
<1>. QED
  BY <1>7, <1>8


With(T, a) == T \cup {a}

LEMMA WithRegsIs ==
  ASSUME NEW T, NEW a \in Seq(T), NEW n \in Nat, n > 0, Len(a) = n, NEW r
  PROVE  /\ Separate!WithRegs(a, r) \in Seq(With(T, SetRegs(a[n], r)))
         /\ Len(Separate!WithRegs(a, r)) = n
         /\ \A i \in 1 .. n - 1 : Separate!WithRegs(a, r)[i] = a[i]
         /\ Separate!WithRegs(a, r)[n] = SetRegs(a[n], r)
<1>. DEFINE w == Separate!WithRegs(a, r)  last == SetRegs(a[n], r)
<1>1. w = [a EXCEPT ![n] = last]
  BY DEF Separate!WithRegs, SetRegs
<1>2. n \in Nat /\ n > 0 /\ n \in 1 .. n /\ DOMAIN a = 1 .. n /\ \A i \in 1 .. n : a[i] \in T
  OBVIOUS
<1>. HIDE DEF w, last
<1>3. w \in [1 .. n -> T \cup {last}] /\ w[n] = last /\ \A i \in 1 .. n - 1 : w[i] = a[i]
  BY <1>1, <1>2
<1>4. w \in Seq(T \cup {last}) /\ Len(w) = n
  BY <1>2, <1>3
<1>. QED
  BY <1>3, <1>4 DEF w, last, With

\* The activations Y have grown out of the first m of X: the last of these has
\* the registers r.
LastRegs(X, n, Y, n2, m, r) ==
  /\ n2 = m => Y = Separate!WithRegs(SubSeq(X, 1, m), r)
  /\ n2 = m /\ n = m => Y = Separate!WithRegs(X, r)
  /\ n2 = m + 1 /\ n = m => Y = Append(Separate!WithRegs(X, r), Y[m + 1])

\* How the activations change with the frames: the registers of the last one
\* that stays, and what is above it.
LEMMA ActsBuilt ==
  ASSUME NEW c, NEW b, NEW s \in Seq(Value), NEW hs, NEW e, FramesOK(c, b, Len(s)),
         NEW c2, NEW b2, NEW s2 \in Seq(Value), NEW hs2, NEW e2, FramesOK(c2, b2, Len(s2)),
         NEW m, SameBelow(c, s, hs, c2, s2, hs2, m)
  PROVE  LastRegs(Acts(c, s, hs, e), Len(c), Acts(c2, s2, hs2, e2), Len(c2), m,
                  SubSeq(s2, c[m].base, To(c2, m, e2) - 1))
<1>. DEFINE X == Acts(c, s, hs, e)
            Y == Acts(c2, s2, hs2, e2)
            r == SubSeq(s2, c[m].base, To(c2, m, e2) - 1)
            S == ActSet(c, s, hs, e)
            T == ActSet(c2, s2, hs2, e2)
            cut == SubSeq(X, 1, m)
<1>1. /\ c \in Seq(Frame) /\ Len(c) \in Nat /\ c2 \in Seq(Frame) /\ Len(c2) \in Nat
      /\ m \in 1 .. Len(c) /\ m \in 1 .. Len(c2)
  BY DEF FramesOK, SameBelow
<1>2. X \in Seq(S) /\ Len(X) = Len(c)
  BY <1>1, ActsAre
<1>3. Y \in Seq(T) /\ Len(Y) = Len(c2)
  BY <1>1, ActsAre
<1>4. (\A i \in 1 .. m - 1 : Y[i] = X[i]) /\ Y[m] = SetRegs(X[m], r)
  BY LowerActs
<1>. HIDE DEF S, T, X, Y, r
<1>5. m \in Nat /\ m > 0 /\ \A i \in 1 .. m : i \in 1 .. Len(X)
  BY <1>1, <1>2
<1>a. \A i \in 1 .. m : X[i] \in S
  BY <1>2, <1>5
<1>6. cut \in Seq(S) /\ Len(cut) = m /\ \A i \in 1 .. m : cut[i] = X[i]
  <2>1. \A i \in 1 .. m - 1 + 1 : SubSeq(X, 1, m)[i] = X[1 + i - 1]
    BY <1>5, <1>a, SubSeqProperties
  <2>2. SubSeq(X, 1, m) \in Seq(S) /\ Len(SubSeq(X, 1, m)) = IF 1 <= m THEN m - 1 + 1 ELSE 0
    BY <1>5, <1>a, SubSeqProperties
  <2>. QED
    BY <1>5, <2>1, <2>2
<1>. HIDE DEF cut
<1>. DEFINE w == Separate!WithRegs(cut, r)  last == SetRegs(cut[m], r)  U == With(S, last)
<1>. HIDE DEF w, last
<1>7. w \in Seq(U) /\ Len(w) = m /\ (\A i \in 1 .. m - 1 : w[i] = cut[i]) /\ w[m] = last
  <2>1. /\ Separate!WithRegs(cut, r) \in Seq(With(S, SetRegs(cut[m], r)))
        /\ Len(Separate!WithRegs(cut, r)) = m
        /\ \A i \in 1 .. m - 1 : Separate!WithRegs(cut, r)[i] = cut[i]
        /\ Separate!WithRegs(cut, r)[m] = SetRegs(cut[m], r)
    BY <1>5, <1>6, WithRegsIs
  <2>. QED
    BY <2>1 DEF w, last
<1>. HIDE DEF U
<1>8. \A i \in 1 .. m : w[i] = Y[i]
  <2>1. \A i \in 1 .. m : i = m \/ i \in 1 .. m - 1
    BY <1>5
  <2>2. m \in 1 .. m /\ \A i \in 1 .. m - 1 : i \in 1 .. m
    BY <1>5
  <2>. QED
    BY <1>4, <1>6, <1>7, <2>1, <2>2 DEF last
<1>9. ASSUME Len(c2) = m PROVE Y = w
  <2>1. Y \in Seq(T \cup U) /\ w \in Seq(T \cup U)
    BY <1>3, <1>7
  <2>. QED
    BY <1>3, <1>7, <1>8, <1>9, <2>1, SeqEqual
<1>b. ASSUME Len(c) = m PROVE cut = X
  BY <1>2, <1>6, <1>b, SeqEqual
<1>c. ASSUME Len(c2) = m + 1 PROVE Y = Append(w, Y[m + 1])
  <2>. DEFINE V == T \cup U  z == Append(w, Y[m + 1])
  <2>1. Y \in Seq(V) /\ w \in Seq(V)
    BY <1>3, <1>7
  <2>2. Y[m + 1] \in V
    BY <1>3, <1>5, <1>c
  <2>. HIDE DEF V
  <2>3. /\ z \in Seq(V) /\ Len(z) = m + 1
        /\ \A i \in 1 .. m : z[i] = w[i]
        /\ z[m + 1] = Y[m + 1]
    BY <1>7, <2>1, <2>2, AppendProperties
  <2>. HIDE DEF z
  <2>4. \A i \in 1 .. m + 1 : z[i] = Y[i]
    <3>1. \A i \in 1 .. m + 1 : i = m + 1 \/ i \in 1 .. m
      BY <1>5
    <3>. QED
      BY <1>8, <2>3, <3>1
  <2>5. Y = z
    BY <1>3, <1>c, <2>1, <2>3, <2>4, SeqEqual
  <2>. QED
    BY <2>5 DEF z
<1>d. Len(c2) = m => Y = Separate!WithRegs(SubSeq(X, 1, m), r)
  BY <1>9 DEF w, cut
<1>e. Len(c2) = m /\ Len(c) = m => Y = Separate!WithRegs(X, r)
  BY <1>9, <1>b DEF w
<1>f. Len(c2) = m + 1 /\ Len(c) = m =>
        Y = Append(Separate!WithRegs(X, r), Y[m + 1])
  BY <1>b, <1>c DEF w
<1>. QED
  <2>1. LastRegs(X, Len(c), Y, Len(c2), m, r)
    BY <1>d, <1>e, <1>f DEF LastRegs
  <2>. QED
    BY <2>1 DEF X, Y, r

-----------------------------------------------------------------------------
(* Where protected calls are *)

\* A protected call that has called has put the new frame where its function
\* was; and a Go function has the values from its base up to L.top.
CallsAtTop(hs, c) ==
  \A h \in Handlers(hs, Len(hs) + 1) : hs[h].ci < Len(c) => c[hs[h].ci + 1].fn = hs[h].oldTop

WindowsInv == Running => CallsAtTop(host, ci) /\ (~InLua => base <= top)

LEMMA HostShape ==
  ASSUME NEW hs \in Seq(Entry), NEW c, Len(c) \in Nat, NEW len, RunsOK(hs, c), PCallsOK(hs, c, len),
         NEW h \in Handlers(hs, Len(hs) + 1)
  PROVE  /\ Len(hs) \in Nat /\ h \in 1 .. Len(hs) /\ hs[h].kind = "pcall"
         /\ hs[h].ci \in 1 .. Len(c)
         /\ \A g \in Handlers(hs, Len(hs) + 1) : g < h => hs[g].ci < hs[h].ci
         /\ h < Len(hs) => hs[h].ci < Len(c)
         /\ h = Len(hs) => hs[h].ci = Len(c)
         /\ h = Len(hs) - 1 /\ Weight(hs[Len(hs)]) = 1 => hs[h].ci = Len(c) - 1
         /\ c[hs[h].ci].callee \notin LuaFn
<1>. DEFINE n == Len(hs)
<1>1. PICK first \in [1 .. n + 1 -> Nat] : Runs(first, hs, c)
  BY DEF RunsOK
<1>2. n \in Nat /\ \A g \in Handlers(hs, n + 1) : g \in 1 .. n /\ hs[g].kind = "pcall"
  BY DEF Handlers
<1>3. /\ \A g \in 1 .. n : Weight(hs[g]) \in Nat /\ hs[g] \in Entry
      /\ \A g \in 1 .. n + 1 : first[g] \in Nat /\ first[g] >= 1
      /\ \A g, k \in 1 .. n + 1 : g <= k => first[g] <= first[k]
  BY <1>1, RunsTypes
<1>4. /\ first[n + 1] = Len(c) + 1
      /\ \A g \in 1 .. n : first[g + 1] = first[g] + Weight(hs[g])
      /\ \A g \in 1 .. n : \A i \in first[g] .. first[g + 1] - 1 :
           c[i].callee \in LuaFn <=> hs[g].kind = "execute"
      /\ \A g \in 1 .. n : hs[g].kind = "pcall" => first[g] = hs[g].ci + 1
  BY <1>1 DEF Runs
<1>5. \A g \in Handlers(hs, n + 1) :
        /\ hs[g - 1].kind = "function"
        /\ g < n => hs[g + 1].byDCall
        /\ hs[g].ci \in 1 .. Len(c)
  BY DEF PCallsOK
<1>. HIDE DEF n
<1>6. \A e \in Entry : /\ e.kind = "function" => Weight(e) = 1
                       /\ e.kind = "pcall" => Weight(e) = 0 /\ ~e.byDCall
                       /\ e.byDCall => Weight(e) >= 1
  <2>. SUFFICES ASSUME NEW e \in Entry
                PROVE  /\ e.kind = "function" => Weight(e) = 1
                       /\ e.kind = "pcall" => Weight(e) = 0 /\ ~e.byDCall
                       /\ e.byDCall => Weight(e) >= 1
    OBVIOUS
  <2>1. /\ e.kind \in {"function", "execute", "pcall"}
        /\ e.kind = "execute" => e.calls \in Nat \ {0} /\ e.byDCall
        /\ e.kind = "pcall" => ~e.byDCall
    BY EntryFields
  <2>2. e.kind = "execute" => Weight(e) >= 1
    BY <2>1 DEF Weight
  <2>3. (e.kind = "function" => Weight(e) = 1) /\ (e.kind = "pcall" => Weight(e) = 0)
    BY DEF Weight
  <2>. QED
    BY <2>1, <2>2, <2>3
<1>7. ASSUME NEW g \in Handlers(hs, n + 1)
      PROVE  /\ g \in 1 .. n /\ g - 1 \in 1 .. n /\ g \in 1 .. n + 1 /\ g + 1 \in 1 .. n + 1
             /\ g - 1 \in 1 .. n + 1
             /\ first[g] = hs[g].ci + 1 /\ first[g + 1] = first[g]
             /\ hs[g - 1].kind = "function" /\ first[g - 1] + 1 = first[g]
             /\ first[g] \in Nat /\ first[g - 1] \in Nat /\ hs[g].ci \in Nat
  <2>1. g \in 1 .. n /\ hs[g].kind = "pcall" /\ hs[g - 1].kind = "function" /\ hs[g].ci \in 1 .. Len(c)
    BY <1>2, <1>5
  <2>2. g # 1
    <3>1. first[1] = 1
      BY <1>1 DEF Runs
    <3>. QED
      BY <1>4, <2>1, <3>1
  <2>3. g - 1 \in 1 .. n /\ g \in 1 .. n + 1 /\ g + 1 \in 1 .. n + 1 /\ g - 1 \in 1 .. n + 1
        /\ (g - 1) + 1 = g
    <3>1. n \in Nat /\ g \in 1 .. n
      BY <1>2, <2>1
    <3>. QED
      BY <2>2, <3>1
  <2>4. first[g] = hs[g].ci + 1 /\ first[g + 1] = first[g] + Weight(hs[g]) /\ Weight(hs[g]) = 0
    BY <1>3, <1>4, <1>6, <2>1
  <2>5. first[(g - 1) + 1] = first[g - 1] + Weight(hs[g - 1]) /\ Weight(hs[g - 1]) = 1
    BY <1>3, <1>4, <1>6, <2>1, <2>3
  <2>6. first[g] \in Nat /\ first[g - 1] \in Nat /\ hs[g].ci \in Nat
    BY <1>3, <2>1, <2>3, SMTT(20)
  <2>. QED
    BY <2>1, <2>3, <2>4, <2>5, <2>6
<1>8. h \in Handlers(hs, n + 1)
  BY DEF n
<1>9. ASSUME NEW g \in Handlers(hs, n + 1), g < h PROVE hs[g].ci < hs[h].ci
  <2>1. hs[g].kind = "pcall" /\ hs[h - 1].kind = "function" /\ g \in Nat /\ h \in Nat
    <3>1. g \in 1 .. n /\ h \in 1 .. n
      BY <1>7, <1>8
    <3>. QED
      BY <1>2, <1>7, <1>8, <3>1
  <2>2. g # h - 1
    BY <2>1
  <2>3. g <= h - 1
    BY <1>9, <2>1
  <2>4. first[g] <= first[h - 1]
    BY <1>3, <1>7, <1>8, <2>3
  <2>. DEFINE x == first[g]  y == first[h - 1]  ig == hs[g].ci  ih == hs[h].ci
  <2>5. x \in Nat /\ y \in Nat /\ ig \in Nat /\ ih \in Nat /\ x = ig + 1 /\ y + 1 = ih + 1
    BY <1>7, <1>8
  <2>6. x <= y
    BY <2>4
  <2>. HIDE DEF x, y, ig, ih
  <2>7. ig < ih
    BY <2>5, <2>6
  <2>. QED
    BY <2>7 DEF ig, ih
<1>10. ASSUME h < n PROVE hs[h].ci < Len(c)
  <2>1. hs[h + 1].byDCall /\ h + 1 \in 1 .. n /\ h + 1 \in 1 .. n + 1 /\ (h + 1) + 1 \in 1 .. n + 1
        /\ n + 1 \in 1 .. n + 1 /\ (h + 1) + 1 <= n + 1
    BY <1>2, <1>5, <1>7, <1>8, <1>10, SMTT(20)
  <2>2. first[(h + 1) + 1] = first[h + 1] + Weight(hs[h + 1]) /\ Weight(hs[h + 1]) >= 1
        /\ Weight(hs[h + 1]) \in Nat
    BY <1>3, <1>4, <1>6, <2>1
  <2>3. first[(h + 1) + 1] <= first[n + 1]
    BY <1>3, <2>1
  <2>. DEFINE x == first[h + 1]  w == Weight(hs[h + 1])  ih == hs[h].ci
  <2>4. x = ih + 1 /\ x + w <= Len(c) + 1 /\ w \in Nat /\ w >= 1 /\ ih \in Nat
    BY <1>4, <1>7, <1>8, <2>2, <2>3
  <2>. HIDE DEF x, w, ih
  <2>5. ih < Len(c)
    BY <2>4
  <2>. QED
    BY <2>5 DEF ih
<1>11. ASSUME h = n PROVE hs[h].ci = Len(c)
  BY <1>4, <1>7, <1>8, <1>11, SMTT(20)
<1>12. ASSUME h = n - 1, Weight(hs[n]) = 1 PROVE hs[h].ci = Len(c) - 1
  <2>1. h + 1 = n /\ n \in 1 .. n
    BY <1>2, <1>7, <1>8, <1>12
  <2>2. first[n + 1] = first[n] + 1
    BY <1>4, <1>12, <2>1
  <2>3. first[n] = hs[h].ci + 1
    BY <1>7, <1>8, <2>1
  <2>. QED
    BY <1>4, <1>7, <1>8, <2>2, <2>3, SMTT(20)
<1>13. c[hs[h].ci].callee \notin LuaFn
  <2>1. h - 1 \in 1 .. n /\ (h - 1) + 1 = h /\ hs[h - 1].kind # "execute"
    BY <1>7, <1>8
  <2>2. hs[h].ci \in first[h - 1] .. first[(h - 1) + 1] - 1
    <3>1. hs[h].ci = first[h - 1] /\ first[h - 1] + 1 = first[(h - 1) + 1] /\ first[h - 1] \in Nat
      BY <1>7, <1>8, <2>1, SMTT(20)
    <3>. QED
      BY <3>1
  <2>. QED
    BY <1>4, <2>1, <2>2
<1>. QED
  BY <1>2, <1>5, <1>8, <1>9, <1>10, <1>11, <1>12, <1>13 DEF n

LEMMA ProtectsBoolean ==
  ASSUME NEW hs, NEW i PROVE Protects(hs, i) \in BOOLEAN
BY DEF Protects

\* The same protected calls up to frame m.
LEMMA ProtectsSame ==
  ASSUME NEW hs \in Seq(Entry), NEW hs2 \in Seq(Entry), NEW k \in Nat, k <= Len(hs), k <= Len(hs2),
         NEW m \in Nat,
         \A g \in 1 .. k : /\ hs2[g].kind = hs[g].kind
                           /\ hs[g].kind = "pcall" => hs2[g].ci = hs[g].ci,
         \A g \in k + 1 .. Len(hs) : hs[g].kind = "pcall" => hs[g].ci >= m,
         \A g \in k + 1 .. Len(hs2) : hs2[g].kind = "pcall" => hs2[g].ci >= m,
         NEW i \in 1 .. m
  PROVE  Protects(hs2, i) = Protects(hs, i)
<1>1. /\ Len(hs) \in Nat /\ Len(hs2) \in Nat /\ DOMAIN hs = 1 .. Len(hs) /\ DOMAIN hs2 = 1 .. Len(hs2)
      /\ \A g \in 1 .. Len(hs) : g \in 1 .. k \/ g \in k + 1 .. Len(hs)
      /\ \A g \in 1 .. Len(hs2) : g \in 1 .. k \/ g \in k + 1 .. Len(hs2)
      /\ \A g \in 1 .. k : g \in 1 .. Len(hs) /\ g \in 1 .. Len(hs2)
      /\ ~(i - 1 >= m)
  OBVIOUS
<1>2. ASSUME Protects(hs, i) PROVE Protects(hs2, i)
  <2>1. PICK g \in 1 .. Len(hs) : hs[g].kind = "pcall" /\ hs[g].ci = i - 1
    BY <1>1, <1>2 DEF Protects
  <2>2. g \in 1 .. k
    BY <1>1, <2>1
  <2>. QED
    BY <1>1, <2>1, <2>2 DEF Protects
<1>3. ASSUME Protects(hs2, i) PROVE Protects(hs, i)
  <2>1. PICK g \in 1 .. Len(hs2) : hs2[g].kind = "pcall" /\ hs2[g].ci = i - 1
    BY <1>1, <1>3 DEF Protects
  <2>2. g \in 1 .. k
    BY <1>1, <2>1
  <2>. QED
    BY <1>1, <2>1, <2>2 DEF Protects
<1>4. Protects(hs2, i) \in BOOLEAN /\ Protects(hs, i) \in BOOLEAN
  BY ProtectsBoolean
<1>. HIDE DEF Protects
<1>. QED
  BY <1>2, <1>3, <1>4

LEMMA ProtectsPushed ==
  ASSUME NEW hs \in Seq(Entry), NEW x \in Entry, NEW m \in Nat, x.kind = "pcall" => x.ci >= m,
         NEW i \in 1 .. m
  PROVE  Protects(Append(hs, x), i) = Protects(hs, i)
<1>. DEFINE hs2 == Append(hs, x)  k == Len(hs)
<1>1. /\ hs2 \in Seq(Entry) /\ Len(hs2) = k + 1 /\ hs2[k + 1] = x /\ k \in Nat
      /\ \A g \in 1 .. k : hs2[g] = hs[g]
  OBVIOUS
<1>. HIDE DEF hs2
<1>2. k <= Len(hs) /\ k <= Len(hs2) /\ (\A g \in k + 1 .. Len(hs) : FALSE)
      /\ \A g \in k + 1 .. Len(hs2) : g = k + 1
  BY <1>1
<1>. HIDE DEF k
<1>3. /\ \A g \in k + 1 .. Len(hs) : hs[g].kind = "pcall" => hs[g].ci >= m
      /\ \A g \in k + 1 .. Len(hs2) : hs2[g].kind = "pcall" => hs2[g].ci >= m
  BY <1>1, <1>2
<1>4. \A g \in 1 .. k : hs2[g].kind = hs[g].kind /\ (hs[g].kind = "pcall" => hs2[g].ci = hs[g].ci)
  BY <1>1
<1>5. Protects(hs2, i) = Protects(hs, i)
  BY <1>1, <1>2, <1>3, <1>4, ProtectsSame, SMTT(20)
<1>. QED
  BY <1>5 DEF hs2

LEMMA ProtectsCut ==
  ASSUME NEW hs \in Seq(Entry), NEW k \in 0 .. Len(hs), NEW m \in Nat,
         \A g \in k + 1 .. Len(hs) : hs[g].kind = "pcall" => hs[g].ci >= m,
         NEW i \in 1 .. m
  PROVE  Protects(SubSeq(hs, 1, k), i) = Protects(hs, i)
<1>. DEFINE hs2 == SubSeq(hs, 1, k)
<1>1. /\ hs2 \in Seq(Entry) /\ Len(hs2) = k /\ k \in Nat /\ k <= Len(hs)
      /\ \A g \in 1 .. k : hs2[g] = hs[g]
  OBVIOUS
<1>. HIDE DEF hs2
<1>2. k <= Len(hs2) /\ (\A g \in k + 1 .. Len(hs2) : hs2[g].kind = "pcall" => hs2[g].ci >= m)
  BY <1>1
<1>4. \A g \in 1 .. k : hs2[g].kind = hs[g].kind /\ (hs[g].kind = "pcall" => hs2[g].ci = hs[g].ci)
  BY <1>1
<1>5. Protects(hs2, i) = Protects(hs, i)
  BY <1>1, <1>2, <1>4, ProtectsSame
<1>. QED
  BY <1>5 DEF hs2

\* The same of every frame up to m.
LEMMA ProtectsCutTo ==
  ASSUME NEW hs \in Seq(Entry), NEW hs2, NEW k \in 0 .. Len(hs), hs2 = SubSeq(hs, 1, k), NEW m \in Nat,
         \A g \in k + 1 .. Len(hs) : hs[g].kind = "pcall" => hs[g].ci >= m
  PROVE  \A i \in 1 .. m : Protects(hs2, i) = Protects(hs, i)
BY ProtectsCut

-----------------------------------------------------------------------------
(* The activations of a state and of the next one *)

LEMMA ActivationsAreThen == Activations' = Acts(ci', stack', host', End')
<1>1. ASSUME NEW i \in 1 .. Len(ci')
      PROVE  Registers(i)' = SubSeq(stack', ci'[i].base, To(ci', i, End') - 1)
  BY DEF Registers, To, End
<1>2. ASSUME NEW i \in 1 .. Len(ci')
      PROVE  [callee |-> ci'[i].callee, nres |-> ci'[i].nres, regs |-> Registers(i)',
              protected |-> \E h \in DOMAIN host' : host'[h].kind = "pcall" /\ host'[h].ci = i - 1,
              extra |-> IF ci'[i].callee \in VarArg
                THEN SubSeq(stack', ci'[i].fn + 1 + NumParams[ci'[i].callee], ci'[i].base - 1)
                ELSE <<>>]
             = Act(ci'[i], stack', To(ci', i, End'), Protects(host', i))
  BY <1>1 DEF Act, Rec, Protects, Extras
<1>. QED
  BY <1>2 DEF Activations, Acts

\* What runs has its registers from L.base to End.
RunWindow == SubSeq(stack, base, End - 1)

LEMMA Seen ==
  ASSUME RunInv, ~InLua => base <= top
  PROVE  /\ Len(ci) \in Nat \ {0} /\ Len(ci) \in 1 .. Len(ci) /\ ci[Len(ci)] = CI
         /\ base \in Nat \ {0} /\ base = CI.base /\ End \in Nat \ {0} /\ base <= End
         /\ Len(stack) \in Nat /\ End - 1 <= Len(stack) /\ base - 1 <= Len(stack)
         /\ Len(Activations) = Len(ci)
         /\ Activations[Len(ci)] = Rec(CI.callee, CI.nres, Protects(host, Len(ci)), RunWindow, Extras(CI, stack))
         /\ Separate!Regs = RunWindow
<1>1. /\ stack \in Seq(Value) /\ Len(stack) \in Nat /\ top \in 1 .. Len(stack)
      /\ ci \in Seq(Frame) /\ Len(ci) \in Nat /\ Len(ci) >= 1 /\ base = CI.base /\ CI.base \in Nat \ {0}
  BY RunFacts
<1>2. LiveTop \in Nat \ {0} /\ LiveTop <= Len(stack) + 1 /\ LiveTop = CI.base + CI.live /\ CI.live \in Nat
  BY LiveTopInStack
<1>3. End \in Nat \ {0} /\ base <= End /\ End - 1 <= Len(stack) /\ base - 1 <= Len(stack)
  <2>1. CASE InLua
    <3>1. End = LiveTop
      BY <2>1 DEF End
    <3>2. base <= LiveTop
      BY <1>1, <1>2
    <3>. HIDE DEF LiveTop
    <3>. QED
      BY <1>1, <1>2, <3>1, <3>2
  <2>2. CASE ~InLua
    <3>1. End = top
      BY <2>2 DEF End
    <3>. QED
      BY <1>1, <2>2, <3>1
  <2>. QED
    BY <2>1, <2>2
<1>4. Activations = Acts(ci, stack, host, End)
  BY ActivationsAre
<1>5. Len(Acts(ci, stack, host, End)) = Len(ci)
  BY <1>1, ActsAre
<1>6. Acts(ci, stack, host, End)[Len(ci)]
        = Act(ci[Len(ci)], stack, To(ci, Len(ci), End), Protects(host, Len(ci)))
  BY <1>1, ActAt
<1>7. To(ci, Len(ci), End) = End
  BY <1>1 DEF To
<1>8. Act(ci[Len(ci)], stack, End, Protects(host, Len(ci)))
        = Rec(CI.callee, CI.nres, Protects(host, Len(ci)), RunWindow, Extras(CI, stack))
  BY <1>1 DEF Act, RunWindow, CI
<1>9. Activations[Len(ci)] = Rec(CI.callee, CI.nres, Protects(host, Len(ci)), RunWindow, Extras(CI, stack))
  BY <1>4, <1>6, <1>7, <1>8
<1>10. Separate!Regs = RunWindow
  <2>1. Separate!Regs = Activations[Len(Activations)].regs
    BY DEF Separate!Regs
  <2>2. Len(Activations) = Len(ci)
    BY <1>4, <1>5
  <2>. QED
    BY <1>9, <2>1, <2>2, RecIs
<1>11. Len(ci) \in Nat \ {0} /\ Len(ci) \in 1 .. Len(ci) /\ ci[Len(ci)] = CI
  BY <1>1 DEF CI
<1>. QED
  BY <1>1, <1>3, <1>4, <1>5, <1>9, <1>10, <1>11

\* What the lemmas need of a state: the invariants of the running program.
Shown == RunInv /\ CallsAtTop(host, ci) /\ (~InLua => base <= top)

LEMMA Registered ==
  ASSUME Shown
  PROVE  /\ RunWindow \in Seq(Value) /\ Len(RunWindow) = End - base
         /\ \A i \in 1 .. End - base : RunWindow[i] = stack[base + i - 1]
<1>. DEFINE b == End - 1
<1>1. /\ stack \in Seq(Value) /\ base \in Nat \ {0} /\ End \in Nat \ {0} /\ base <= End
      /\ End - 1 <= Len(stack) /\ Len(stack) \in Nat
  BY RunFacts, Seen DEF Shown
<1>2. b \in Nat /\ b <= Len(stack) /\ base <= b + 1 /\ b - base + 1 = End - base
  BY <1>1
<1>. HIDE DEF b
<1>3. /\ SubSeq(stack, base, b) \in Seq(Value) /\ Len(SubSeq(stack, base, b)) = b - base + 1
      /\ \A i \in 1 .. b - base + 1 : SubSeq(stack, base, b)[i] = stack[base + i - 1]
  BY <1>1, <1>2, Window
<1>. QED
  BY <1>2, <1>3 DEF RunWindow, b

SameUpTo(m) == SameBelow(ci, stack, host, ci', stack', host', m)

LEMMA SeenBuilt ==
  ASSUME Shown, RunInv', NEW m, SameUpTo(m)
  PROVE  /\ m \in 1 .. Len(ci) /\ m \in 1 .. Len(ci')
         /\ LastRegs(Activations, Len(ci), Activations', Len(ci'), m,
                     SubSeq(stack', ci[m].base, To(ci', m, End') - 1))
<1>1. FramesOK(ci, base, Len(stack)) /\ stack \in Seq(Value)
  BY RunFacts DEF Shown, RunInv
<1>2. FramesOK(ci', base', Len(stack')) /\ stack' \in Seq(Value)
  BY DEF RunInv, StackOK
<1>3. SameBelow(ci, stack, host, ci', stack', host', m)
  BY DEF SameUpTo
<1>4. Activations = Acts(ci, stack, host, End) /\ Activations' = Acts(ci', stack', host', End')
  BY ActivationsAre, ActivationsAreThen
<1>5. m \in 1 .. Len(ci) /\ m \in 1 .. Len(ci')
  BY <1>3 DEF SameBelow
<1>6. LastRegs(Acts(ci, stack, host, End), Len(ci), Acts(ci', stack', host', End'), Len(ci'), m,
               SubSeq(stack', ci[m].base, To(ci', m, End') - 1))
  BY <1>1, <1>2, <1>3, ActsBuilt
<1>. QED
  BY <1>4, <1>5, <1>6


LEMMA EndFits ==
  RunInv /\ (~InLua => base <= top) =>
    End \in Nat \ {0} /\ base \in Nat \ {0} /\ base <= End /\ Len(stack) \in Nat /\ End - 1 <= Len(stack)
BY Seen

LEMMA EndFitsThen ==
  RunInv' /\ (~InLua' => base' <= top') =>
    /\ End' \in Nat \ {0} /\ base' \in Nat \ {0} /\ base' <= End'
    /\ Len(stack') \in Nat /\ End' - 1 <= Len(stack')
<1>1. (RunInv /\ (~InLua => base <= top) =>
        End \in Nat \ {0} /\ base \in Nat \ {0} /\ base <= End /\ Len(stack) \in Nat /\ End - 1 <= Len(stack))'
  BY EndFits, PTL
<1>. QED
  BY <1>1

\* The same frames, but for the stale pointers, their tops and how much they hold.
SameCalls == Len(ci') = Len(ci) /\ \A i \in 1 .. Len(ci) : SameFrame(ci[i], ci'[i])

LEMMA Kept ==
  ASSUME Shown, RunInv', SameCalls, host' = host, \A p \in 1 .. base - 1 : stack'[p] = stack[p]
  PROVE  SameUpTo(Len(ci)) /\ CallsAtTop(host', ci') /\ base' = base /\ (InLua' <=> InLua)
<1>1. Len(ci) \in Nat \ {0} /\ Len(ci) \in 1 .. Len(ci) /\ ci[Len(ci)] = CI /\ base = CI.base
  BY Seen DEF Shown
<1>2. base' = ci'[Len(ci')].base /\ CI' = ci'[Len(ci')]
  BY DEF RunInv, FramesOK, CI
<1>3. SameFrame(CI, CI')
  BY <1>1, <1>2 DEF SameCalls
<1>4. base' = base /\ (InLua' <=> InLua)
  BY <1>1, <1>2, <1>3 DEF SameFrame, InLua, SameCalls
<1>5. SameUpTo(Len(ci))
  <2>1. \A i \in 1 .. Len(ci) : Protects(host', i) = Protects(host, i)
    OBVIOUS
  <2>. QED
    BY <1>1, <2>1 DEF SameUpTo, SameBelow, SameCalls
<1>6. CallsAtTop(host', ci')
  <2>. SUFFICES ASSUME NEW h \in Handlers(host, Len(host) + 1), host[h].ci < Len(ci)
                PROVE  ci'[host[h].ci + 1].fn = host[h].oldTop
    BY DEF CallsAtTop, SameCalls
  <2>1. ci[host[h].ci + 1].fn = host[h].oldTop
    BY DEF Shown, CallsAtTop
  <2>2. host[h].ci \in 1 .. Len(ci)
    BY DEF Shown, RunInv, HostInv, PCallsOK
  <2>3. host[h].ci + 1 \in 1 .. Len(ci)
    BY <1>1, <2>2
  <2>. QED
    BY <2>1, <2>3 DEF SameCalls, SameFrame
<1>. QED
  BY <1>4, <1>5, <1>6

\* More registers for the running activation.
LEMMA Added ==
  ASSUME Shown, RunInv', SameCalls, host' = host, \A p \in 1 .. End - 1 : stack'[p] = stack[p],
         NEW r \in Seq(Value), End' = End + Len(r), \A i \in 1 .. Len(r) : stack'[End - 1 + i] = r[i]
  PROVE  /\ Activations' = Separate!WithRegs(Activations, Separate!Regs \o r)
         /\ CallsAtTop(host', ci') /\ (~InLua' => base' <= top')
<1>1. /\ Len(ci) \in Nat \ {0} /\ Len(ci) \in 1 .. Len(ci) /\ ci[Len(ci)] = CI /\ base = CI.base
      /\ End \in Nat \ {0} /\ base \in Nat \ {0} /\ base <= End /\ End - 1 <= Len(stack)
      /\ Len(stack) \in Nat /\ Separate!Regs = RunWindow
  BY Seen DEF Shown
<1>2. \A p \in 1 .. base - 1 : p \in 1 .. End - 1
  BY <1>1
<1>3. \A p \in 1 .. base - 1 : stack'[p] = stack[p]
  BY <1>2
<1>4. SameUpTo(Len(ci)) /\ CallsAtTop(host', ci') /\ base' = base /\ (InLua' <=> InLua)
  BY <1>3, Kept
<1>5. Len(r) \in Nat
  OBVIOUS
<1>6. ~InLua' => base' <= top'
  <2>. SUFFICES ASSUME ~InLua' PROVE base <= End + Len(r) /\ End' = top'
    BY <1>4
  <2>. QED
    BY <1>1, <1>5 DEF End
<1>7. End' \in Nat \ {0} /\ Len(stack') \in Nat /\ End' - 1 <= Len(stack')
  BY <1>6, EndFitsThen
<1>8. To(ci', Len(ci), End') = End'
  BY <1>1 DEF To, SameCalls
<1>9. LastRegs(Activations, Len(ci), Activations', Len(ci'), Len(ci),
               SubSeq(stack', ci[Len(ci)].base, To(ci', Len(ci), End') - 1))
  BY <1>4, SeenBuilt
<1>10. Activations' = Separate!WithRegs(Activations, SubSeq(stack', base, End' - 1))
  BY <1>1, <1>8, <1>9 DEF LastRegs, SameCalls
<1>. DEFINE a == base  b == End - 1  l == Len(r)
<1>11. /\ a \in Nat \ {0} /\ b \in Nat /\ b <= Len(stack) /\ a <= b + 1 /\ b + l <= Len(stack')
       /\ End' - 1 = b + l /\ \A p \in a .. b : p \in 1 .. End - 1
  BY <1>1, <1>5, <1>7
<1>12. stack \in Seq(Value) /\ stack' \in Seq(Value)
  BY DEF Shown, RunInv, StackOK
<1>13. (\A p \in a .. b : stack'[p] = stack[p]) /\ (\A i \in 1 .. Len(r) : stack'[b + i] = r[i])
  BY <1>11
<1>14. RunWindow = SubSeq(stack, a, b)
  BY DEF RunWindow
<1>. HIDE DEF a, b
<1>15. SubSeq(stack', a, b + Len(r)) = SubSeq(stack, a, b) \o r
  <2>. DEFINE c == b + l
  <2>1. c = b + l /\ l = Len(r) /\ l \in Nat
    BY <1>5
  <2>. HIDE DEF c
  <2>2. c <= Len(stack')
    BY <1>11, <2>1
  <2>. HIDE DEF l
  <2>3. /\ a \in Nat \ {0} /\ b \in Nat /\ b <= Len(stack) /\ a <= b + 1
        /\ (\A i \in 1 .. l : stack'[b + i] = r[i]) /\ \A p \in a .. b : stack'[p] = stack[p]
    BY <1>11, <1>13, <2>1
  <2>4. Joined(SubSeq(stack', a, c), SubSeq(stack, a, b), r)
    BY <1>12, <2>1, <2>2, <2>3, WindowGrows
  <2>5. c = b + Len(r)
    BY <2>1
  <2>. QED
    BY <2>4, <2>5 DEF Joined
<1>16. SubSeq(stack', base, End' - 1) = Separate!Regs \o r
  BY <1>1, <1>11, <1>14, <1>15 DEF a
<1>. QED
  BY <1>4, <1>6, <1>10, <1>16

\* One value more.
LEMMA Pushed ==
  ASSUME Shown, RunInv', SameCalls, host' = host, \A p \in 1 .. End - 1 : stack'[p] = stack[p],
         NEW v \in Val \cup LuaFn \cup CFn \cup {Message}, End' = End + 1, stack'[End] = v
  PROVE  Separate!Push /\ CallsAtTop(host', ci') /\ (~InLua' => base' <= top')
<1>1. v \in Value
  BY DEF Value, Fn
<1>2. <<v>> \in Seq(Value) /\ Len(<<v>>) = 1 /\ <<v>>[1] = v
  BY <1>1
<1>3. End \in Nat \ {0}
  BY Seen DEF Shown
<1>4. End' = End + Len(<<v>>) /\ \A i \in 1 .. Len(<<v>>) : stack'[End - 1 + i] = <<v>>[i]
  BY <1>2, <1>3
<1>5. /\ Activations' = Separate!WithRegs(Activations, Separate!Regs \o <<v>>)
      /\ CallsAtTop(host', ci') /\ (~InLua' => base' <= top')
  BY <1>2, <1>4, Added
<1>6. Separate!Regs \in Seq(Value)
  BY Seen, Registered DEF Shown
<1>7. Separate!Regs \o <<v>> = Append(Separate!Regs, v)
  BY <1>1, <1>6
<1>. QED
  BY <1>5, <1>7 DEF Separate!Push

-----------------------------------------------------------------------------
(* Steps that add registers *)

\* What is to be shown of a step.
Follows ==
  /\ CallsAtTop(host', ci') /\ (~InLua' => base' <= top')
  /\ Separate!Next \/ UNCHANGED Activations

LEMMA MoreIsSame ==
  ASSUME NEW c \in Seq(Frame), c # <<>>, NEW b \in Nat, NEW d, HoldsMore(c, d, b)
  PROVE  /\ Len(d) = Len(c) /\ \A i \in 1 .. Len(c) : SameFrame(c[i], d[i])
         /\ d[Len(c)].live = c[Len(c)].live + b /\ d[Len(c)].base = c[Len(c)].base
         /\ d[Len(c)].callee = c[Len(c)].callee
<1>. DEFINE n == Len(c)
            fr == [c[n] EXCEPT !.live = c[n].live + b]
<1>1. n \in Nat /\ n \in 1 .. n
  OBVIOUS
<1>2. c[n] \in Frame /\ c[n].live \in Nat
  BY <1>1, FrameFields
<1>3. /\ fr.callee = c[n].callee /\ fr.base = c[n].base /\ fr.fn = c[n].fn /\ fr.nres = c[n].nres
      /\ fr.live = c[n].live + b
  <2>. DEFINE r == c[n]  v == r.live + b
  <2>1. r \in Frame /\ fr = [r EXCEPT !.live = v]
    BY <1>2
  <2>. HIDE DEF r, v, fr
  <2>2. /\ fr.callee = r.callee /\ fr.base = r.base /\ fr.fn = r.fn /\ fr.nres = r.nres /\ fr.live = v
    BY <2>1 DEF Frame
  <2>. QED
    BY <2>2 DEF r, v
<1>4. d = [c EXCEPT ![n] = fr]
  BY DEF HoldsMore
<1>. HIDE DEF fr
<1>5. Len(d) = n /\ d[n] = fr /\ \A i \in 1 .. n : i # n => d[i] = c[i]
  BY <1>1, <1>4
<1>6. \A i \in 1 .. n : SameFrame(c[i], d[i])
  BY <1>3, <1>5 DEF SameFrame
<1>. QED
  BY <1>3, <1>5, <1>6

LEMMA CorrectedSame ==
  ASSUME NEW c \in Seq(Frame), NEW d, SameFrames(c, d)
  PROVE  Len(d) = Len(c) /\ \A i \in 1 .. Len(c) : SameFrame(c[i], d[i])
BY DEF SameFrames, SameFrame

\* How End follows the frames and L.top.
LEMMA EndThen ==
  /\ InLua' => End' = ci'[Len(ci')].base + ci'[Len(ci')].live
  /\ ~InLua' => End' = top'
BY DEF End, LiveTop, CI

LEMMA LoadRegFollows ==
  ASSUME Shown, RunInv', LoadReg
  PROVE  Follows
<1>1. /\ InLua /\ CI.live < MaxStack[CI.callee] /\ host' = host
      /\ ci' = [ci EXCEPT ![Len(ci)].live = @ + 1]
  BY DEF LoadReg
<1>2. PICK v \in Val \cup Fn : stack' = [stack EXCEPT ![LiveTop] = v]
  BY DEF LoadReg
<1>3. /\ stack \in Seq(Value) /\ Len(stack) \in Nat
      /\ CI.base \in Nat /\ CI.live \in Nat /\ FrameFits(CI, Len(stack))
      /\ ci \in Seq(Frame) /\ ci # <<>> /\ CI = ci[Len(ci)] /\ Len(ci) \in 1 .. Len(ci)
      /\ LiveTop \in Nat \ {0} /\ LiveTop = CI.base + CI.live
  BY RunFacts, Seen, LiveTopInStack, SMTT(20) DEF Shown
<1>4. LiveTop \in 1 .. Len(stack)
  <2>. DEFINE b == CI.base  l == CI.live  m == MaxStack[CI.callee]  n == Len(stack)
  <2>1. b + m <= n /\ m \in Nat /\ b \in Nat /\ l \in Nat /\ n \in Nat /\ l < m /\ LiveTop = b + l
    BY <1>1, <1>3, FunctionAssumption DEF FrameFits, InLua
  <2>. HIDE DEF b, l, m, n, LiveTop
  <2>2. LiveTop <= n
    BY <2>1
  <2>. QED
    BY <1>3, <2>2 DEF n
<1>5. SameCalls /\ ci'[Len(ci)].live = CI.live + 1 /\ ci'[Len(ci)].base = CI.base /\ InLua'
  <2>. DEFINE k == 1
  <2>1. k \in Nat /\ HoldsMore(ci, ci', k)
    BY <1>1 DEF HoldsMore
  <2>. HIDE DEF k
  <2>2. /\ Len(ci') = Len(ci) /\ \A i \in 1 .. Len(ci) : SameFrame(ci[i], ci'[i])
        /\ ci'[Len(ci)].live = ci[Len(ci)].live + k /\ ci'[Len(ci)].base = ci[Len(ci)].base
        /\ ci'[Len(ci)].callee = ci[Len(ci)].callee
    BY <1>3, <2>1, MoreIsSame
  <2>3. InLua'
    BY <1>1, <1>3, <2>2 DEF InLua, CI
  <2>. QED
    BY <1>3, <2>2, <2>3 DEF SameCalls, k
<1>6. End = LiveTop
  BY <1>1 DEF End
<1>7. End' = End + 1
  <2>. DEFINE b == CI.base  l == CI.live
  <2>1. End' = b + (l + 1) /\ b \in Nat /\ l \in Nat /\ End = b + l
    BY <1>3, <1>5, <1>6, EndThen DEF SameCalls
  <2>. HIDE DEF b, l
  <2>. QED
    BY <2>1
<1>8. stack'[End] = v /\ \A p \in 1 .. End - 1 : stack'[p] = stack[p]
  <2>. HIDE DEF LiveTop
  <2>1. \A p \in 1 .. LiveTop - 1 : p \in 1 .. Len(stack) /\ p # LiveTop
    BY <1>4
  <2>. QED
    BY <1>2, <1>3, <1>4, <1>6, <2>1
<1>9. v \in Val \cup LuaFn \cup CFn \cup {Message}
  BY <1>2 DEF Fn
<1>10. Separate!Push /\ CallsAtTop(host', ci') /\ (~InLua' => base' <= top')
  BY <1>1, <1>5, <1>7, <1>8, <1>9, Pushed
<1>. QED
  BY <1>10 DEF Follows, Separate!Next

LEMMA PushValueFollows ==
  ASSUME Shown, RunInv', PushValue
  PROVE  Follows
<1>1. InGo /\ top < CI.top /\ top' = top + 1 /\ ci' = ci /\ host' = host
  BY DEF PushValue
<1>2. PICK v \in Val \cup Fn : stack' = [stack EXCEPT ![top] = v]
  BY DEF PushValue
<1>3. stack \in Seq(Value) /\ Len(stack) \in Nat /\ top \in 1 .. Len(stack)
  BY RunFacts DEF Shown
<1>4. ~InLua
  BY <1>1, RunnerOfFrame DEF Shown, InGo
<1>5. ~InLua' /\ SameCalls
  BY <1>1, <1>4 DEF InLua, CI, SameCalls, SameFrame
<1>6. End = top /\ End' = End + 1
  BY <1>1, <1>4, <1>5 DEF End
<1>7. stack'[End] = v /\ \A p \in 1 .. End - 1 : stack'[p] = stack[p]
  <2>1. \A p \in 1 .. top - 1 : p \in 1 .. Len(stack) /\ p # top
    BY <1>3
  <2>. QED
    BY <1>2, <1>3, <1>6, <2>1
<1>8. v \in Val \cup LuaFn \cup CFn \cup {Message}
  BY <1>2 DEF Fn
<1>9. Separate!Push /\ CallsAtTop(host', ci') /\ (~InLua' => base' <= top')
  BY <1>1, <1>5, <1>6, <1>7, <1>8, Pushed
<1>. QED
  BY <1>9 DEF Follows, Separate!Next

LEMMA LoadFollows ==
  ASSUME Shown, RunInv', Load
  PROVE  Follows
<1>1. InGo /\ top < CI.top /\ top' = top + 1 /\ host' = host
  BY DEF Load
<1>. DEFINE s == Grown(stack, top, 1)
<1>2. PICK v \in LuaFn \cup {Message} : stack' = [s EXCEPT ![top] = v] /\ ci' = Corrected(ci, s)
  BY DEF Load
<1>3. stack \in Seq(Value) /\ Len(stack) \in Nat /\ top \in 1 .. Len(stack)
      /\ ci \in Seq(Frame) /\ Len(ci) \in 1 .. Len(ci)
  BY RunFacts, Seen DEF Shown
<1>4. /\ s \in Seq(Value) /\ Len(s) \in Nat /\ Len(s) >= Len(stack)
      /\ \A p \in 1 .. Len(stack) : s[p] = stack[p]
  BY <1>3, GrownStack
<1>. HIDE DEF s
<1>5. ~InLua
  BY <1>1, RunnerOfFrame DEF Shown, InGo
<1>6. SameCalls
  BY <1>2, <1>3, CorrectedFrames, CorrectedSame DEF SameCalls
<1>7. ~InLua'
  BY <1>3, <1>5, <1>6 DEF InLua, CI, SameCalls, SameFrame
<1>8. End = top /\ End' = End + 1
  BY <1>1, <1>5, <1>7 DEF End
<1>9. stack'[End] = v /\ \A p \in 1 .. End - 1 : stack'[p] = stack[p]
  <2>1. top \in 1 .. Len(s) /\ \A p \in 1 .. top - 1 : p \in 1 .. Len(stack) /\ p \in 1 .. Len(s) /\ p # top
    BY <1>3, <1>4
  <2>2. stack'[top] = v /\ \A p \in 1 .. top - 1 : stack'[p] = s[p]
    BY <1>2, <1>4, <2>1
  <2>. QED
    BY <1>4, <1>8, <2>1, <2>2
<1>10. v \in Val \cup LuaFn \cup CFn \cup {Message}
  BY <1>2
<1>11. Separate!Push /\ CallsAtTop(host', ci') /\ (~InLua' => base' <= top')
  BY <1>1, <1>6, <1>8, <1>9, <1>10, Pushed
<1>. QED
  BY <1>11 DEF Follows, Separate!Next


LEMMA ActsSame ==
  ASSUME NEW c, NEW s, NEW hs, NEW hs2, NEW e, Len(c) \in Nat,
         \A i \in 1 .. Len(c) : Protects(hs2, i) = Protects(hs, i)
  PROVE  Acts(c, s, hs2, e) = Acts(c, s, hs, e)
BY DEF Acts

\* A protected call that has not called yet changes nothing.
LEMMA PCallFollows ==
  ASSUME Shown, RunInv', PCall
  PROVE  Follows
<1>1. InGo /\ UNCHANGED <<stack, top, base, ci>>
  BY DEF PCall
<1>2. PICK f \in base .. top - 1, nr \in {MULTRET, 0, 1} :
        host' = Append(host, [kind |-> "pcall", byDCall |-> FALSE, nCCalls |-> nCCalls,
                              ci |-> Len(ci), oldTop |-> f, nres |-> nr, previous |-> errorJmp])
  BY DEF PCall
<1>. DEFINE x == [kind |-> "pcall", byDCall |-> FALSE, nCCalls |-> nCCalls,
                  ci |-> Len(ci), oldTop |-> f, nres |-> nr, previous |-> errorJmp]
<1>3. x.kind = "pcall" /\ x.ci = Len(ci)
  OBVIOUS
<1>4. host' = Append(host, x)
  BY <1>2
<1>. HIDE DEF x
<1>5. host \in Seq(Entry) /\ Len(host) \in Nat /\ Len(ci) \in Nat /\ host' \in Seq(Entry)
  BY RunFacts DEF Shown, RunInv, HostInv, HostOK
<1>a. x \in Entry
  <2>1. x = host'[Len(host')] /\ Len(host') > 0
    BY <1>4, <1>5
  <2>. QED
    BY <1>5, <2>1
<1>6. /\ Len(host') = Len(host) + 1 /\ host'[Len(host) + 1] = x
      /\ \A g \in 1 .. Len(host) : host'[g] = host[g]
  BY <1>4, <1>5
<1>7. ASSUME NEW i \in 1 .. Len(ci) PROVE Protects(host', i) = Protects(host, i)
  <2>1. x \in Entry /\ x.ci >= Len(ci)
    BY <1>3, <1>5, <1>a
  <2>2. Protects(Append(host, x), i) = Protects(host, i)
    BY <1>5, <2>1, ProtectsPushed
  <2>. QED
    BY <1>4, <2>2
<1>8. End' = End /\ (InLua' <=> InLua)
  BY <1>1 DEF End, InLua, LiveTop, CI
<1>9. Activations' = Activations
  <2>1. Acts(ci, stack, host', End) = Acts(ci, stack, host, End)
    BY <1>5, <1>7, ActsSame
  <2>. QED
    BY <1>1, <1>8, <2>1, ActivationsAre, ActivationsAreThen
<1>10. CallsAtTop(host', ci')
  <2>1. \A h \in Handlers(host', Len(host') + 1) : h \in Handlers(host, Len(host) + 1) \/ h = Len(host) + 1
    BY <1>5, <1>6 DEF Handlers
  <2>2. \A h \in Handlers(host, Len(host) + 1) : h \in 1 .. Len(host)
    BY <1>5 DEF Handlers
  <2>. SUFFICES ASSUME NEW h \in Handlers(host', Len(host') + 1), host'[h].ci < Len(ci)
                PROVE  ci[host'[h].ci + 1].fn = host'[h].oldTop
    BY <1>1 DEF CallsAtTop
  <2>3. h # Len(host) + 1
    BY <1>3, <1>5, <1>6
  <2>. QED
    BY <1>6, <2>1, <2>2, <2>3 DEF Shown, CallsAtTop
<1>11. ~InLua' => base' <= top'
  BY <1>1, <1>8 DEF Shown
<1>. QED
  BY <1>9, <1>10, <1>11 DEF Follows

LEMMA AdjustIs ==
  ASSUME NEW s \in Seq(Value), NEW n \in Nat
  PROVE  /\ Separate!Adjust(s, n) \in Seq(Value) /\ Len(Separate!Adjust(s, n)) = n
         /\ \A i \in 1 .. n : Separate!Adjust(s, n)[i] = IF i <= Len(s) THEN s[i] ELSE Nil
<1>. DEFINE v(i) == IF i <= Len(s) THEN s[i] ELSE Nil  r == [i \in 1 .. n |-> v(i)]
<1>1. Separate!Adjust(s, n) = r
  BY DEF Separate!Adjust
<1>2. \A i \in 1 .. n : v(i) \in Value
  <2>1. Nil \in Value
    BY DEF Value
  <2>2. \A i \in 1 .. n : i <= Len(s) => s[i] \in Value
    OBVIOUS
  <2>. QED
    BY <2>1, <2>2
<1>3. r \in [1 .. n -> Value] /\ \A i \in 1 .. n : r[i] = v(i)
  BY <1>2
<1>. HIDE DEF r
<1>4. r \in Seq(Value) /\ Len(r) = n
  BY <1>3
<1>. QED
  BY <1>1, <1>3, <1>4


\* The arguments beyond the parameters lie below the base.
LEMMA ExtrasAre ==
  ASSUME Shown, CI.callee \in VarArg, NEW n, n = CI.base - CI.fn - NumParams[CI.callee] - 1
  PROVE  /\ n \in Nat /\ n < CI.base /\ CI.base <= Len(stack)
         /\ Extras(CI, stack) \in Seq(Value) /\ Len(Extras(CI, stack)) = n
         /\ \A i \in 1 .. n : Extras(CI, stack)[i] = stack[CI.base - n + i - 1]
<1>. DEFINE bs == CI.base  f == CI.fn  k == NumParams[CI.callee]  t == CI.top
            a == f + 1 + k  z == bs - 1
<1>1. /\ bs \in Nat \ {0} /\ f \in Nat \ {0} /\ t \in Nat /\ Len(stack) \in Nat
      /\ FrameFits(CI, Len(stack)) /\ stack \in Seq(Value)
  BY RunFacts DEF Shown
<1>2. k \in Nat /\ f + k < bs /\ bs <= t /\ t <= Len(stack)
  BY <1>1, FunctionAssumption DEF FrameFits
<1>3. Extras(CI, stack) = SubSeq(stack, a, z)
  BY DEF Extras
<1>a. n = bs - f - k - 1
  OBVIOUS
<1>b. bs \in Nat \ {0} /\ f \in Nat \ {0} /\ t \in Nat /\ Len(stack) \in Nat
  BY <1>1
<1>. HIDE DEF bs, f, k, t
<1>4. /\ n = bs - f - k - 1 /\ n \in Nat /\ n < bs /\ bs <= Len(stack)
      /\ a \in Nat \ {0} /\ z \in Nat /\ z <= Len(stack) /\ a <= z + 1 /\ z - a + 1 = n /\ a = bs - n
  BY <1>2, <1>a, <1>b
<1>. HIDE DEF a, z
<1>5. /\ SubSeq(stack, a, z) \in Seq(Value) /\ Len(SubSeq(stack, a, z)) = z - a + 1
      /\ \A i \in 1 .. z - a + 1 : SubSeq(stack, a, z)[i] = stack[a + i - 1]
  BY <1>1, <1>4, Window
<1>. QED
  BY <1>3, <1>4, <1>5 DEF bs

LEMMA OpVarargFollows ==
  ASSUME Shown, RunInv', Running', OpVararg
  PROVE  Follows
<1>. DEFINE n == CI.base - CI.fn - NumParams[CI.callee] - 1
<1>2. InLua /\ CI.callee \in VarArg /\ host' = host
  BY DEF OpVararg
<1>3. PICK wanted \in {MULTRET, 1} :
        LET b == IF wanted = MULTRET THEN n ELSE wanted
            s == IF wanted = MULTRET /\ ~CI.stale THEN Grown(stack, top, n) ELSE stack
        IN /\ LiveTop + b <= Len(s)
           /\ stack' = [p \in 1 .. Len(s) |->
                          IF p < LiveTop \/ p >= LiveTop + b THEN s[p]
                          ELSE IF p - LiveTop < n /\ ~CI.stale THEN s[CI.base - n + p - LiveTop]
                          ELSE Nil]
           /\ ci' = [Corrected(ci, s) EXCEPT ![Len(ci)].live = @ + b]
           /\ outcome' = IF CI.stale /\ (n > 0 \/ wanted = MULTRET)
                         THEN "lost arguments" ELSE "running"
  BY DEF OpVararg
<1>. DEFINE b == IF wanted = MULTRET THEN n ELSE wanted
            s == IF wanted = MULTRET /\ ~CI.stale THEN Grown(stack, top, n) ELSE stack
            d == Corrected(ci, s)
            e == Extras(CI, stack)
            r == IF wanted = MULTRET THEN e ELSE Separate!Adjust(e, wanted)
<1>4. /\ LiveTop + b <= Len(s)
      /\ stack' = [p \in 1 .. Len(s) |->
                     IF p < LiveTop \/ p >= LiveTop + b THEN s[p]
                     ELSE IF p - LiveTop < n /\ ~CI.stale THEN s[CI.base - n + p - LiveTop]
                     ELSE Nil]
      /\ ci' = [d EXCEPT ![Len(ci)].live = @ + b]
      /\ outcome' = IF CI.stale /\ (n > 0 \/ wanted = MULTRET)
                    THEN "lost arguments" ELSE "running"
  BY <1>3
<1>5. /\ stack \in Seq(Value) /\ Len(stack) \in Nat /\ top \in Nat
      /\ CI.base \in Nat \ {0} /\ CI.live \in Nat /\ CI.stale \in BOOLEAN
      /\ Len(ci) \in Nat /\ ci \in Seq(Frame) /\ ci # <<>> /\ Len(ci) \in 1 .. Len(ci) /\ CI = ci[Len(ci)]
      /\ LiveTop \in Nat \ {0} /\ LiveTop = CI.base + CI.live /\ LiveTop <= Len(stack) + 1
  <2>1. /\ stack \in Seq(Value) /\ Len(stack) \in Nat /\ top \in Nat
        /\ CI.base \in Nat \ {0} /\ CI.live \in Nat /\ ci \in Seq(Frame)
    BY RunFacts DEF Shown
  <2>2. Len(ci) \in Nat \ {0} /\ Len(ci) \in 1 .. Len(ci) /\ CI = ci[Len(ci)]
    BY Seen DEF Shown
  <2>3. LiveTop \in Nat \ {0} /\ LiveTop = CI.base + CI.live /\ LiveTop <= Len(stack) + 1
    BY LiveTopInStack DEF Shown
  <2>4. ci # <<>>
    BY <2>2
  <2>5. CI.stale \in BOOLEAN
    BY <2>1, <2>2, FrameFields
  <2>. QED
    BY <2>1, <2>2, <2>3, <2>4, <2>5
<1>6. /\ n \in Nat /\ n < CI.base /\ CI.base <= Len(stack)
      /\ e \in Seq(Value) /\ Len(e) = n /\ \A i \in 1 .. n : e[i] = stack[CI.base - n + i - 1]
  BY <1>2, ExtrasAre
<1>. HIDE DEF n, e
<1>7. ~CI.stale \/ (n = 0 /\ wanted = 1)
  <2>1. ~(CI.stale /\ (n > 0 \/ wanted = MULTRET))
    BY <1>4 DEF Running
  <2>. QED
    BY <1>5, <1>6, <2>1
<1>8. b \in Nat /\ (wanted = MULTRET => b = n) /\ (wanted # MULTRET => wanted = 1 /\ b = 1)
  BY <1>6 DEF MULTRET
<1>9. /\ s \in Seq(Value) /\ Len(s) \in Nat /\ Len(s) >= Len(stack)
      /\ \A p \in 1 .. Len(stack) : s[p] = stack[p]
  <2>1. /\ Grown(stack, top, n) \in Seq(Value)
        /\ Len(Grown(stack, top, n)) \in Nat /\ Len(Grown(stack, top, n)) >= Len(stack)
        /\ \A p \in 1 .. Len(stack) : Grown(stack, top, n)[p] = stack[p]
    BY <1>5, <1>6, GrownStack
  <2>. QED
    BY <2>1, <1>5
<1>10. SameFrames(ci, d) /\ d \in Seq(Frame)
  BY <1>5, CorrectedFrames DEF SameFrames
<1>11. r \in Seq(Value) /\ Len(r) = b
       /\ \A i \in 1 .. b : r[i] = IF i <= n THEN e[i] ELSE Nil
  <2>1. CASE wanted = MULTRET
    BY <1>6, <1>8, <2>1
  <2>2. CASE wanted # MULTRET
    <3>1. wanted \in Nat
      BY <1>8, <2>2
    <3>2. /\ Separate!Adjust(e, wanted) \in Seq(Value) /\ Len(Separate!Adjust(e, wanted)) = wanted
          /\ \A i \in 1 .. wanted : Separate!Adjust(e, wanted)[i] = IF i <= Len(e) THEN e[i] ELSE Nil
      BY <1>6, <3>1, AdjustIs
    <3>. QED
      BY <1>6, <1>8, <2>2, <3>2
  <2>. QED
    BY <2>1, <2>2
<1>. HIDE DEF b, s, d, r
<1>12. /\ SameCalls /\ ci'[Len(ci)].live = CI.live + b /\ ci'[Len(ci)].base = CI.base /\ InLua'
  <2>1. d # <<>> /\ Len(d) = Len(ci) /\ \A i \in 1 .. Len(ci) : SameFrame(ci[i], d[i])
    BY <1>5, <1>10, CorrectedSame
  <2>2. HoldsMore(d, ci', b)
    BY <1>4, <2>1 DEF HoldsMore
  <2>3. /\ Len(ci') = Len(d) /\ \A i \in 1 .. Len(d) : SameFrame(d[i], ci'[i])
        /\ ci'[Len(d)].live = d[Len(d)].live + b /\ ci'[Len(d)].base = d[Len(d)].base
        /\ ci'[Len(d)].callee = d[Len(d)].callee
    BY <1>8, <1>10, <2>1, <2>2, MoreIsSame
  <2>4. d[Len(ci)].live = CI.live /\ d[Len(ci)].base = CI.base /\ d[Len(ci)].callee = CI.callee
    BY <1>5, <1>10 DEF SameFrames
  <2>5. SameCalls
    BY <2>1, <2>3 DEF SameCalls, SameFrame
  <2>6. InLua'
    BY <1>2, <2>1, <2>3, <2>4 DEF InLua, CI
  <2>. QED
    BY <2>1, <2>3, <2>4, <2>5, <2>6
<1>13. End = LiveTop
  BY <1>2 DEF End
<1>14. End' = End + b
  <2>. DEFINE x == CI.base  l == CI.live
  <2>1. End' = x + (l + b) /\ x \in Nat /\ l \in Nat /\ End = x + l
    BY <1>5, <1>12, <1>13, EndThen DEF SameCalls
  <2>. HIDE DEF x, l
  <2>. QED
    BY <1>8, <2>1
<1>. DEFINE l == LiveTop  bs == CI.base  st == CI.stale
<1>15. stack' = Vararged(s, l, b, n, bs, st)
  BY <1>4 DEF Vararged
<1>16. /\ l \in Nat \ {0} /\ bs \in Nat /\ n < bs /\ bs <= Len(stack) /\ l + b <= Len(s)
       /\ st \in BOOLEAN /\ (~st \/ n = 0) /\ l <= Len(stack) + 1
  BY <1>4, <1>5, <1>6, <1>7
<1>. HIDE DEF l, bs, st
<1>17. \A p \in 1 .. l - 1 : stack'[p] = stack[p]
  <2>. SUFFICES ASSUME NEW p \in 1 .. l - 1 PROVE stack'[p] = stack[p]
    OBVIOUS
  <2>1. p \in 1 .. Len(s) /\ p \in 1 .. Len(stack) /\ p < l
    BY <1>5, <1>9, <1>16
  <2>. QED
    BY <1>9, <1>15, <2>1 DEF Vararged
<1>18. \A i \in 1 .. b : stack'[l - 1 + i] = r[i]
  <2>. SUFFICES ASSUME NEW i \in 1 .. b PROVE stack'[l - 1 + i] = r[i]
    OBVIOUS
  <2>. DEFINE p == l - 1 + i
  <2>1. p \in 1 .. Len(s) /\ ~(p < l) /\ ~(p >= l + b) /\ p - l = i - 1
    BY <1>8, <1>9, <1>16
  <2>. HIDE DEF p
  <2>2. stack'[p] = IF p - l < n /\ ~st THEN s[bs - n + p - l] ELSE Nil
    BY <1>15, <2>1 DEF Vararged
  <2>3. CASE i <= n
    <3>1. p - l < n /\ ~st /\ bs - n + p - l = bs - n + i - 1 /\ bs - n + i - 1 \in 1 .. Len(stack)
          /\ i \in 1 .. n
      BY <1>5, <1>6, <1>8, <1>16, <2>1, <2>3
    <3>2. stack'[p] = stack[bs - n + i - 1]
      BY <1>9, <2>2, <3>1
    <3>3. e[i] = stack[bs - n + i - 1]
      BY <1>6, <3>1 DEF bs
    <3>. QED
      BY <1>11, <2>3, <3>2, <3>3 DEF p
  <2>4. CASE ~(i <= n)
    <3>1. ~(p - l < n)
      BY <1>6, <1>8, <2>1, <2>4
    <3>. QED
      BY <1>11, <2>2, <2>4, <3>1 DEF p
  <2>. QED
    BY <2>3, <2>4
<1>19. (\A p \in 1 .. End - 1 : stack'[p] = stack[p]) /\ End' = End + Len(r)
       /\ \A i \in 1 .. Len(r) : stack'[End - 1 + i] = r[i]
  BY <1>11, <1>13, <1>14, <1>17, <1>18 DEF l
<1>20. /\ Activations' = Separate!WithRegs(Activations, Separate!Regs \o r)
       /\ CallsAtTop(host', ci') /\ (~InLua' => base' <= top')
  BY <1>2, <1>11, <1>12, <1>19, Added
<1>21. Activations[Len(Activations)].extra = e
  BY Seen, RecIs DEF Shown, e
<1>22. Separate!Extra
  <2>1. r = IF wanted = MULTRET THEN e ELSE Separate!Adjust(e, wanted)
    BY DEF r
  <2>2. wanted \in {MULTRET, 1} /\ Separate!MULTRET = MULTRET
    BY DEF MULTRET, Separate!MULTRET
  <2>. HIDE DEF MULTRET
  <2>. QED
    BY <1>20, <1>21, <2>1, <2>2 DEF Separate!Extra
<1>. QED
  BY <1>20, <1>22 DEF Follows, Separate!Next

-----------------------------------------------------------------------------
(* Steps that call *)

\* s0 before the call, s after the stack has grown, w with the parameters.
Entering(s0, s, w, g, f, t) ==
  /\ g \in LuaFn /\ s0 \in Seq(Value) /\ s \in Seq(Value) /\ Len(s) >= Len(s0)
  /\ \A p \in 1 .. Len(s0) : s[p] = s0[p]
  /\ f \in Nat \ {0} /\ t \in Nat /\ f < t /\ t <= Len(s0) + 1
  /\ w = Parameters(s, g, f, t) /\ NewBase(g, f, t) + MaxStack[g] <= Len(s)

LEMMA EnteringFacts ==
  ASSUME NEW s0, NEW s, NEW w, NEW g, NEW f, NEW t, Entering(s0, s, w, g, f, t),
         NEW b, b = NewBase(g, f, t), NEW k, k = NumParams[g], NEW m, m = MaxStack[g]
  PROVE  /\ w \in Seq(Value) /\ Len(w) = Len(s) /\ Len(s) \in Nat /\ Len(s0) \in Nat
         /\ b \in Nat \ {0} /\ f < b /\ k \in Nat /\ m \in Nat /\ k <= m /\ b + m <= Len(s)
         /\ g \in VarArg => b = IF t - f - 1 >= k THEN t ELSE f + 1 + k
         /\ \A p \in 1 .. Len(s) :
              w[p] = IF p >= b /\ p < b + m
                     THEN IF p - b < k THEN IF f + (p - b + 1) < t THEN s[f + (p - b + 1)] ELSE Nil
                          ELSE Nil
                     ELSE IF g \in VarArg /\ p > f /\ p <= f + k THEN Nil ELSE s[p]
<1>1. /\ g \in LuaFn /\ s0 \in Seq(Value) /\ s \in Seq(Value) /\ Len(s) >= Len(s0)
      /\ f \in Nat \ {0} /\ t \in Nat /\ f < t /\ t <= Len(s0) + 1
      /\ w = Parameters(s, g, f, t) /\ b + m <= Len(s)
  BY DEF Entering
<1>2. k \in Nat /\ m \in Nat /\ k <= m
  BY <1>1, FunctionAssumption
<1>3. Len(s) \in Nat /\ Len(s0) \in Nat /\ t <= Len(s) + 1
  BY <1>1
<1>4. w \in Seq(Value) /\ Len(w) = Len(s)
  BY <1>1, <1>3, ParametersTyped
<1>5. b \in Nat \ {0} /\ f < b
  BY <1>1, NewBaseAbove
<1>6. g \in VarArg => b = IF t - f - 1 >= k THEN t ELSE f + 1 + k
  BY DEF NewBase
<1>7. \A p \in 1 .. Len(s) :
        w[p] = IF p >= b /\ p < b + m
               THEN IF p - b < k THEN IF f + (p - b + 1) < t THEN s[f + (p - b + 1)] ELSE Nil
                    ELSE Nil
               ELSE IF g \in VarArg /\ p > f /\ p <= f + k THEN Nil ELSE s[p]
  BY <1>1 DEF Parameters
<1>. QED
  BY <1>1, <1>2, <1>3, <1>4, <1>5, <1>6, <1>7

\* Below the function nothing changes; the parameters are the first arguments,
\* and the rest are where OP_VARARG takes them from.
LEMMA EnteringBelow ==
  ASSUME NEW s0, NEW s, NEW w, NEW g, NEW f, NEW t, Entering(s0, s, w, g, f, t),
         NEW p \in 1 .. f
  PROVE  w[p] = s0[p]
<1>. DEFINE b == NewBase(g, f, t)  k == NumParams[g]  m == MaxStack[g]
<1>1. /\ Len(s) >= Len(s0) /\ f \in Nat \ {0} /\ t \in Nat /\ f < t /\ t <= Len(s0) + 1
      /\ \A q \in 1 .. Len(s0) : s[q] = s0[q]
  BY DEF Entering
<1>2. /\ Len(s) \in Nat /\ Len(s0) \in Nat /\ b \in Nat \ {0} /\ f < b
      /\ \A q \in 1 .. Len(s) :
              w[q] = IF q >= b /\ q < b + m
                     THEN IF q - b < k THEN IF f + (q - b + 1) < t THEN s[f + (q - b + 1)] ELSE Nil
                          ELSE Nil
                     ELSE IF g \in VarArg /\ q > f /\ q <= f + k THEN Nil ELSE s[q]
  BY EnteringFacts
<1>. HIDE DEF b, k, m
<1>3. p \in 1 .. Len(s) /\ p \in 1 .. Len(s0) /\ ~(p >= b) /\ ~(p > f)
  BY <1>1, <1>2
<1>. QED
  BY <1>1, <1>2, <1>3

LEMMA EnteringParameters ==
  ASSUME NEW s0, NEW s, NEW w, NEW g, NEW f, NEW t, Entering(s0, s, w, g, f, t),
         NEW b, b = NewBase(g, f, t), NEW k, k = NumParams[g]
  PROVE  SubSeq(w, b, b + k - 1) = Separate!Adjust(SubSeq(s0, f + 1, t - 1), k)
<1>. DEFINE m == MaxStack[g]  a == f + 1  z == t - 1  args == SubSeq(s0, a, z)  l == z - a + 1
            c == b + k - 1  n0 == Len(s0)  n == Len(s)
<1>1. /\ s0 \in Seq(Value) /\ n >= n0 /\ f \in Nat \ {0} /\ t \in Nat /\ f < t
      /\ t <= n0 + 1
  BY DEF Entering
<1>2. /\ w \in Seq(Value) /\ Len(w) = n /\ n \in Nat /\ n0 \in Nat
      /\ b \in Nat \ {0} /\ f < b /\ k \in Nat /\ m \in Nat /\ k <= m /\ b + m <= n
  BY EnteringFacts
<1>s. \A q \in 1 .. n0 : s[q] = s0[q]
  BY DEF Entering
<1>w. \A q \in 1 .. n :
              w[q] = IF q >= b /\ q < b + m
                     THEN IF q - b < k THEN IF f + (q - b + 1) < t THEN s[f + (q - b + 1)] ELSE Nil
                          ELSE Nil
                     ELSE IF g \in VarArg /\ q > f /\ q <= f + k THEN Nil ELSE s[q]
  BY EnteringFacts
<1>. HIDE DEF m, n0, n
<1>a. n \in Nat /\ n0 \in Nat /\ n >= n0 /\ f \in Nat \ {0} /\ t \in Nat /\ f < t /\ t <= n0 + 1
      /\ b \in Nat \ {0} /\ f < b /\ k \in Nat /\ m \in Nat /\ k <= m /\ b + m <= n
  BY <1>1, <1>2
<1>3. a \in Nat \ {0} /\ z \in Nat /\ z <= n0 /\ a <= z + 1 /\ l \in Nat
  BY <1>a
<1>4. c \in Nat /\ c <= n /\ b <= c + 1 /\ c - b + 1 = k
  BY <1>a
<1>5. \A i \in 1 .. l : a + i - 1 = f + i
  BY <1>a
<1>5a. \A i \in 1 .. k : i <= l <=> f + i < t
  BY <1>a
<1>5b. \A i \in 1 .. k : i <= l => i \in 1 .. l /\ f + i \in 1 .. n0
  BY <1>a
<1>6. ASSUME NEW i \in 1 .. k
      PROVE  b + i - 1 \in 1 .. n /\ b + i - 1 >= b /\ b + i - 1 < b + m
             /\ (b + i - 1) - b < k /\ f + ((b + i - 1) - b + 1) = f + i
  BY <1>a
<1>. HIDE DEF a, z, l, c
<1>7. args \in Seq(Value) /\ Len(args) = l /\ \A i \in 1 .. l : args[i] = s0[a + i - 1]
  <2>1. z <= Len(s0) /\ s0 \in Seq(Value) /\ a \in Nat \ {0} /\ z \in Nat /\ a <= z + 1
    BY <1>1, <1>3 DEF n0
  <2>2. /\ SubSeq(s0, a, z) \in Seq(Value) /\ Len(SubSeq(s0, a, z)) = z - a + 1
        /\ \A i \in 1 .. z - a + 1 : SubSeq(s0, a, z)[i] = s0[a + i - 1]
    BY <2>1, Window
  <2>. QED
    BY <2>2 DEF l
<1>8. /\ SubSeq(w, b, c) \in Seq(Value) /\ Len(SubSeq(w, b, c)) = k
      /\ \A i \in 1 .. k : SubSeq(w, b, c)[i] = w[b + i - 1]
  <2>1. c <= Len(w) /\ w \in Seq(Value) /\ b \in Nat \ {0} /\ c \in Nat /\ b <= c + 1
    BY <1>2, <1>4
  <2>2. /\ SubSeq(w, b, c) \in Seq(Value) /\ Len(SubSeq(w, b, c)) = c - b + 1
        /\ \A i \in 1 .. c - b + 1 : SubSeq(w, b, c)[i] = w[b + i - 1]
    BY <2>1, Window
  <2>. QED
    BY <1>4, <2>2
<1>. HIDE DEF args
<1>9. /\ Separate!Adjust(args, k) \in Seq(Value) /\ Len(Separate!Adjust(args, k)) = k
      /\ \A i \in 1 .. k : Separate!Adjust(args, k)[i] = IF i <= Len(args) THEN args[i] ELSE Nil
  BY <1>a, <1>7, AdjustIs
<1>10. ASSUME NEW i \in 1 .. k PROVE SubSeq(w, b, c)[i] = Separate!Adjust(args, k)[i]
  <2>. DEFINE q == b + i - 1
  <2>0. q \in 1 .. n /\ q >= b /\ q < b + m /\ q - b < k /\ f + (q - b + 1) = f + i
        /\ SubSeq(w, b, c)[i] = w[q]
    BY <1>6, <1>8
  <2>. HIDE DEF q
  <2>1. SubSeq(w, b, c)[i] = IF f + i < t THEN s[f + i] ELSE Nil
    <3>1. w[q] = IF f + (q - b + 1) < t THEN s[f + (q - b + 1)] ELSE Nil
      BY <1>w, <2>0
    <3>. QED
      BY <2>0, <3>1
  <2>2. CASE i <= l
    <3>1. args[i] = s0[f + i] /\ s[f + i] = s0[f + i]
      BY <1>s, <1>5, <1>5b, <1>7, <2>2
    <3>. QED
      BY <1>5a, <1>7, <1>9, <2>1, <2>2, <3>1
  <2>3. CASE ~(i <= l)
    BY <1>5a, <1>7, <1>9, <2>1, <2>3
  <2>. QED
    BY <2>2, <2>3
<1>11. SubSeq(w, b, c) = Separate!Adjust(args, k)
  BY <1>8, <1>9, <1>10, SeqEqual
<1>. QED
  BY <1>11 DEF args, a, z, c

\* Of n arguments above f those after the first k end up between f and b.
ExtrasMoved(s0, w, f, t, b, k) ==
  SubSeq(w, f + 1 + k, b - 1) = SubSeq(SubSeq(s0, f + 1, t - 1), k + 1, t - f - 1)

LEMMA EnteringExtras ==
  ASSUME NEW s0, NEW s, NEW w, NEW g, NEW f, NEW t, Entering(s0, s, w, g, f, t), g \in VarArg,
         NEW b, b = NewBase(g, f, t), NEW k, k = NumParams[g]
  PROVE  ExtrasMoved(s0, w, f, t, b, k)
<1>. DEFINE m == MaxStack[g]  a == f + 1  z == t - 1  args == SubSeq(s0, a, z)  l == t - f - 1
            x == f + 1 + k  i == k + 1  n0 == Len(s0)  n == Len(s)  y == b - 1
<1>1. /\ s0 \in Seq(Value) /\ n >= n0 /\ f \in Nat \ {0} /\ t \in Nat /\ f < t
      /\ t <= n0 + 1
  BY DEF Entering
<1>2. /\ w \in Seq(Value) /\ Len(w) = n /\ n \in Nat /\ n0 \in Nat
      /\ b \in Nat \ {0} /\ f < b /\ k \in Nat /\ m \in Nat
  BY EnteringFacts
<1>b. b = IF t - f - 1 >= k THEN t ELSE f + 1 + k
  BY EnteringFacts
<1>s. \A q \in 1 .. n0 : s[q] = s0[q]
  BY DEF Entering
<1>w. \A q \in 1 .. n :
              w[q] = IF q >= b /\ q < b + m
                     THEN IF q - b < k THEN IF f + (q - b + 1) < t THEN s[f + (q - b + 1)] ELSE Nil
                          ELSE Nil
                     ELSE IF g \in VarArg /\ q > f /\ q <= f + k THEN Nil ELSE s[q]
  BY EnteringFacts
<1>. HIDE DEF m, n0, n
<1>a. n \in Nat /\ n0 \in Nat /\ n >= n0 /\ f \in Nat \ {0} /\ t \in Nat /\ f < t /\ t <= n0 + 1
      /\ b \in Nat \ {0} /\ f < b /\ k \in Nat /\ m \in Nat
  BY <1>1, <1>2
<1>3. a \in Nat \ {0} /\ z \in Nat /\ z <= n0 /\ a <= z + 1 /\ l \in Nat /\ l = z - a + 1
      /\ i \in Nat \ {0} /\ x \in Nat \ {0} /\ x = a + i - 1 /\ y \in Nat
  BY <1>a
<1>4. CASE t - f - 1 >= k
  <2>1. /\ b = t /\ x <= z + 1 /\ z = a + l - 1 /\ i <= l + 1 /\ z <= n /\ y = z /\ l <= z - a + 1
    BY <1>a, <1>b, <1>4
  <2>2. ASSUME NEW q \in x .. z PROVE w[q] = s0[q]
    <3>1. q \in 1 .. n /\ q \in 1 .. n0 /\ ~(q >= b) /\ ~(q <= f + k)
      BY <1>a, <1>4, <2>1
    <3>. QED
      BY <1>s, <1>w, <3>1
  <2>. HIDE DEF x, a, z, l, i, y
  <2>3. SubSeq(w, x, z) = SubSeq(s0, x, z)
    <3>1. /\ s0 \in Seq(Value) /\ w \in Seq(Value) /\ x \in Nat \ {0} /\ z \in Nat
          /\ z <= Len(s0) /\ z <= Len(w) /\ x <= z + 1
      BY <1>1, <1>2, <1>3, <2>1 DEF n0
    <3>. QED
      BY <2>2, <3>1, SameWindow
  <2>5. SubSeq(SubSeq(s0, a, z), i, l) = SubSeq(s0, a + i - 1, a + l - 1)
    <3>1. /\ s0 \in Seq(Value) /\ a \in Nat \ {0} /\ z \in Nat /\ z <= Len(s0) /\ a <= z + 1
          /\ i \in Nat \ {0} /\ l \in Nat /\ i <= l + 1 /\ l <= z - a + 1
      BY <1>1, <1>3, <2>1 DEF n0
    <3>. QED
      BY <3>1, WindowIn
  <2>6. SubSeq(w, x, y) = SubSeq(args, i, l)
    BY <1>3, <2>1, <2>3, <2>5
  <2>. QED
    BY <2>6 DEF x, a, z, l, i, y, ExtrasMoved
<1>5. CASE ~(t - f - 1 >= k)
  <2>1. x \in Int /\ y \in Int /\ y < x /\ i \in Int /\ l \in Int /\ l < i
    BY <1>a, <1>b, <1>5
  <2>. HIDE DEF x, y, i, l, args
  <2>2. SubSeq(w, x, y) = <<>> /\ SubSeq(args, i, l) = <<>>
    BY <2>1, SubSeqEmpty
  <2>. QED
    BY <2>2 DEF x, y, i, l, args, a, z, ExtrasMoved
<1>. QED
  BY <1>4, <1>5


\* The frame of a called function, and the stack below it.
FrameIs(fr, g, f, b, nr, live) ==
  fr.callee = g /\ fr.fn = f /\ fr.base = b /\ fr.nres = nr /\ fr.live = live

LEMMA CalledFrame ==
  ASSUME Shown, Running', NEW f \in base .. End - 1, stack[f] \in Fn, NEW nr, Enter(f, End, nr)
  PROVE  /\ Len(ci') = Len(ci) + 1 /\ \A i \in 1 .. Len(ci) : SameFrame(ci[i], ci'[i])
         /\ stack[f] \in CFn =>
              /\ FrameIs(ci'[Len(ci) + 1], stack[f], f, f + 1, nr, 0)
              /\ top' = End /\ base' = f + 1
              /\ \A p \in 1 .. Len(stack) : stack'[p] = stack[p]
         /\ stack[f] \in LuaFn =>
              /\ FrameIs(ci'[Len(ci) + 1], stack[f], f, NewBase(stack[f], f, End), nr, NumParams[stack[f]])
              /\ \E s : Entering(stack, s, stack', stack[f], f, End)
<1>. DEFINE g == stack[f]
            s == Grown(stack, End, Slots(g, End))
            b == IF g \in CFn THEN f + 1 ELSE NewBase(g, f, End)
            ciTop == IF g \in CFn THEN End + LUA_MINSTACK ELSE b + MaxStack[g]
            lv == IF g \in CFn THEN 0 ELSE NumParams[g]
            frame == [callee |-> g, fn |-> f, stale |-> FALSE, base |-> b, top |-> ciTop,
                      nres |-> nr, live |-> lv]
            d == Corrected(ci, s)
<1>1. /\ stack' = IF g \in CFn THEN s ELSE Parameters(s, g, f, End)
      /\ ci' = Append(d, frame)
      /\ base' = b
      /\ top' = IF g \in CFn THEN End ELSE ciTop
      /\ outcome' = IF ciTop <= StackLast(s) THEN "running" ELSE "stack too short"
  BY DEF Enter
<1>2. g \in Fn /\ (g \in CFn \/ g \in LuaFn) /\ ~(g \in CFn /\ g \in LuaFn)
  BY FunctionAssumption DEF Fn
<1>3. /\ stack \in Seq(Value) /\ Len(stack) \in Nat /\ ci \in Seq(Frame) /\ Len(ci) \in Nat
      /\ End \in Nat \ {0} /\ base \in Nat \ {0} /\ End - 1 <= Len(stack)
  BY RunFacts, Seen DEF Shown
<1>4. f \in Nat \ {0} /\ f < End /\ End <= Len(stack) + 1 /\ End \in Nat
  BY <1>3
<1>5. Slots(g, End) \in Nat
  BY <1>2, SlotsNat
<1>6. /\ s \in Seq(Value) /\ Len(s) \in Nat /\ Len(s) >= Len(stack)
      /\ \A p \in 1 .. Len(stack) : s[p] = stack[p]
  BY <1>3, <1>4, <1>5, GrownStack
<1>7. SameFrames(ci, d) /\ d \in Seq(Frame)
  BY <1>3, CorrectedFrames DEF SameFrames
<1>8. Len(d) = Len(ci) /\ \A i \in 1 .. Len(ci) : SameFrame(ci[i], d[i])
  BY <1>3, <1>7, CorrectedSame
<1>9. FrameIs(frame, g, f, b, nr, lv)
  <2>. HIDE DEF b, g, lv, ciTop
  <2>. QED
    BY DEF FrameIs
<1>. HIDE DEF s, d, frame
<1>10. Len(ci') = Len(ci) + 1 /\ ci'[Len(ci) + 1] = frame /\ \A i \in 1 .. Len(ci) : ci'[i] = d[i]
  <2>. DEFINE T == Frame \cup {frame}
  <2>1. d \in Seq(T) /\ frame \in T
    BY <1>7
  <2>. HIDE DEF T
  <2>2. Len(Append(d, frame)) = Len(d) + 1 /\ Append(d, frame)[Len(d) + 1] = frame
        /\ \A i \in 1 .. Len(d) : Append(d, frame)[i] = d[i]
    BY <2>1, AppendProperties
  <2>. QED
    BY <1>1, <1>8, <2>2
<1>11. \A i \in 1 .. Len(ci) : SameFrame(ci[i], ci'[i])
  BY <1>8, <1>10
<1>12. ciTop <= StackLast(s)
  BY <1>1 DEF Running
<1>13. ASSUME g \in CFn
       PROVE  /\ FrameIs(ci'[Len(ci) + 1], g, f, f + 1, nr, 0)
              /\ top' = End /\ base' = f + 1
              /\ \A p \in 1 .. Len(stack) : stack'[p] = stack[p]
  BY <1>1, <1>6, <1>9, <1>10, <1>13
<1>14. ASSUME g \in LuaFn
       PROVE  /\ FrameIs(ci'[Len(ci) + 1], g, f, NewBase(g, f, End), nr, NumParams[g])
              /\ Entering(stack, s, stack', g, f, End)
  <2>1. g \notin CFn
    BY <1>2, <1>14
  <2>2. FrameIs(ci'[Len(ci) + 1], g, f, NewBase(g, f, End), nr, NumParams[g])
    BY <1>9, <1>10, <2>1
  <2>3. NewBase(g, f, End) + MaxStack[g] <= Len(s)
    <3>. DEFINE x == NewBase(g, f, End) + MaxStack[g]
    <3>1. x <= Len(s) - EXTRA_STACK
      BY <1>12, <2>1 DEF StackLast
    <3>2. NewBase(g, f, End) \in Nat /\ MaxStack[g] \in Nat
      BY <1>4, <1>14, NewBaseAbove, FunctionAssumption
    <3>3. x \in Nat
      BY <3>2
    <3>. HIDE DEF x
    <3>. QED
      BY <1>6, <3>1, <3>3, Constants DEF x
  <2>4. stack' = Parameters(s, g, f, End)
    BY <1>1, <2>1
  <2>. QED
    BY <1>3, <1>4, <1>6, <1>14, <2>2, <2>3, <2>4 DEF Entering
<1>. QED
  BY <1>10, <1>11, <1>13, <1>14 DEF g

\* What a call makes of the registers of the caller.
LEMMA CallerCut ==
  ASSUME Shown, NEW f \in base .. End - 1, NEW k, k = f - base + 1
  PROVE  /\ k \in 1 .. Len(Separate!Regs) /\ Separate!Regs[k] = stack[f]
         /\ Separate!Prefix(k - 1) = SubSeq(stack, base, f - 1)
         /\ SubSeq(Separate!Regs, k + 1, Len(Separate!Regs)) = SubSeq(stack, f + 1, End - 1)
         /\ Len(SubSeq(stack, f + 1, End - 1)) = End - f - 1
<1>. DEFINE b == End - 1  i == k + 1  j == End - base  n == Len(stack)  k1 == k - 1  f1 == f - 1  f2 == f + 1
<1>1. /\ stack \in Seq(Value) /\ n \in Nat /\ base \in Nat \ {0} /\ End \in Nat \ {0} /\ base <= End
      /\ b <= n /\ Separate!Regs = RunWindow
  BY RunFacts, Seen DEF Shown
<1>2. /\ RunWindow \in Seq(Value) /\ Len(RunWindow) = j
      /\ \A q \in 1 .. j : RunWindow[q] = stack[base + q - 1]
  BY Registered
<1>3. RunWindow = SubSeq(stack, base, b)
  BY DEF RunWindow
<1>. HIDE DEF n
<1>4. /\ f \in Nat /\ k \in 1 .. j /\ base + k - 1 = f /\ b \in Nat /\ base <= b + 1
      /\ k1 \in Nat /\ 1 <= k1 + 1 /\ k1 <= b - base + 1 /\ base + 1 - 1 = base /\ base + k1 - 1 = f1
      /\ i \in Nat \ {0} /\ j \in Nat /\ i <= j + 1 /\ j <= b - base + 1
      /\ base + i - 1 = f2 /\ base + j - 1 = b
      /\ f2 \in Nat \ {0} /\ f2 <= b + 1 /\ b - f2 + 1 = End - f - 1
  BY <1>1
<1>. HIDE DEF b, i, j, k1, f1, f2
<1>5. b <= Len(stack) /\ stack \in Seq(Value) /\ base \in Nat \ {0} /\ b \in Nat /\ base <= b + 1
  BY <1>1, <1>4 DEF n
<1>6. SubSeq(SubSeq(stack, base, b), 1, k1) = SubSeq(stack, base + 1 - 1, base + k1 - 1)
  <2>1. 1 \in Nat \ {0} /\ k1 \in Nat /\ 1 <= k1 + 1 /\ k1 <= b - base + 1
    BY <1>4
  <2>. QED
    BY <1>5, <2>1, WindowIn
<1>7. SubSeq(SubSeq(stack, base, b), i, j) = SubSeq(stack, base + i - 1, base + j - 1)
  <2>1. i \in Nat \ {0} /\ j \in Nat /\ i <= j + 1 /\ j <= b - base + 1
    BY <1>4
  <2>. QED
    BY <1>5, <2>1, WindowIn
<1>8. Separate!Prefix(k1) = SubSeq(stack, base, f1)
  BY <1>1, <1>3, <1>4, <1>6 DEF Separate!Prefix
<1>9. Len(SubSeq(stack, f2, b)) = b - f2 + 1
  BY <1>4, <1>5, Window
<1>10. SubSeq(Separate!Regs, i, Len(Separate!Regs)) = SubSeq(stack, f2, b)
  BY <1>1, <1>2, <1>3, <1>4, <1>7
<1>11. k \in 1 .. Len(Separate!Regs) /\ Separate!Regs[k] = stack[f]
  BY <1>1, <1>2, <1>4
<1>. QED
  BY <1>4, <1>8, <1>9, <1>10, <1>11 DEF b, i, k1, f1, f2


\* The registers of the new frame, and the arguments below it.
EnteredAs(s0, w, g, f, t) ==
  LET b == NewBase(g, f, t)
      k == NumParams[g]
      args == SubSeq(s0, f + 1, t - 1)
  IN /\ SubSeq(w, b, b + k - 1) = Separate!Adjust(args, k)
     /\ g \in VarArg => SubSeq(w, f + 1 + k, b - 1) = SubSeq(args, k + 1, t - f - 1)

LEMMA EnteringIs ==
  ASSUME NEW s0, NEW s, NEW w, NEW g, NEW f, NEW t, Entering(s0, s, w, g, f, t)
  PROVE  EnteredAs(s0, w, g, f, t)
<1>. DEFINE b == NewBase(g, f, t)  k == NumParams[g]
<1>1. b = NewBase(g, f, t) /\ k = NumParams[g]
  OBVIOUS
<1>. HIDE DEF b, k
<1>2. SubSeq(w, b, b + k - 1) = Separate!Adjust(SubSeq(s0, f + 1, t - 1), k)
  BY <1>1, EnteringParameters
<1>3. ASSUME g \in VarArg PROVE ExtrasMoved(s0, w, f, t, b, k)
  BY <1>1, <1>3, EnteringExtras
<1>. QED
  BY <1>2, <1>3 DEF EnteredAs, ExtrasMoved, b, k

\* The activation of a called function.
LEMMA ActivationIs ==
  ASSUME NEW g, NEW args, NEW nr, NEW p
  PROVE  Separate!Activation(g, args, nr, p)
           = Rec(g, nr, p, IF g \in CFn THEN args ELSE Separate!Adjust(args, NumParams[g]),
                 IF g \in VarArg THEN SubSeq(args, NumParams[g] + 1, Len(args)) ELSE <<>>)
BY DEF Separate!Activation, Rec

\* The new frame as an activation.
LEMMA NewFrameIs ==
  ASSUME Shown, Running', NEW f \in base .. End - 1, stack[f] \in Fn, NEW nr, Enter(f, End, nr),
         NEW p, stack' \in Seq(Value), End' - 1 <= Len(stack')
  PROVE  Act(ci'[Len(ci) + 1], stack', End', p)
           = Separate!Activation(stack[f], SubSeq(stack, f + 1, End - 1), nr, p)
<1>. DEFINE g == stack[f]  fr == ci'[Len(ci) + 1]  a == f + 1  b == End - 1  args == SubSeq(stack, a, b)
            k == NumParams[g]
<1>1. /\ stack \in Seq(Value) /\ Len(stack) \in Nat
      /\ End \in Nat \ {0} /\ base \in Nat \ {0} /\ End - 1 <= Len(stack)
  BY RunFacts, Seen DEF Shown
<1>2. g \in Fn /\ (g \in CFn \/ g \in LuaFn) /\ ~(g \in CFn /\ g \in LuaFn) /\ (g \in VarArg => g \in LuaFn)
  BY FunctionAssumption DEF Fn
<1>3. /\ Len(ci') = Len(ci) + 1 /\ Len(ci) \in Nat
      /\ g \in CFn => /\ FrameIs(fr, g, f, f + 1, nr, 0) /\ top' = End
                      /\ \A q \in 1 .. Len(stack) : stack'[q] = stack[q]
      /\ g \in LuaFn => /\ FrameIs(fr, g, f, NewBase(g, f, End), nr, k)
                        /\ \E s : Entering(stack, s, stack', g, f, End)
  BY CalledFrame, RunFacts DEF Shown
<1>4. CI' = fr
  BY <1>3 DEF CI
<1>5. a \in Nat \ {0} /\ b \in Nat /\ b <= Len(stack) /\ a <= b + 1 /\ Len(args) = End - f - 1
  <2>1. Len(args) = End - f - 1
    BY CallerCut
  <2>2. a \in Nat \ {0} /\ b \in Nat /\ b <= Len(stack) /\ a <= b + 1
    BY <1>1
  <2>. QED
    BY <2>1, <2>2
<1>6. Act(fr, stack', End', p) = Rec(fr.callee, fr.nres, p, SubSeq(stack', fr.base, End' - 1), Extras(fr, stack'))
  BY DEF Act
<1>. DEFINE regs == IF g \in CFn THEN args ELSE Separate!Adjust(args, k)
            extra == IF g \in VarArg THEN SubSeq(args, k + 1, Len(args)) ELSE <<>>
<1>7. Separate!Activation(g, args, nr, p) = Rec(g, nr, p, regs, extra)
  BY ActivationIs
<1>8. fr.callee = g /\ fr.nres = nr /\ fr.fn = f
  BY <1>2, <1>3 DEF FrameIs
<1>. HIDE DEF g, fr, k, args, a, b
<1>9. ASSUME g \in CFn PROVE SubSeq(stack', fr.base, End' - 1) = regs /\ Extras(fr, stack') = extra
  <2>1. ~InLua' /\ g \notin LuaFn /\ g \notin VarArg
    BY <1>2, <1>4, <1>8, <1>9 DEF InLua
  <2>2. End' = End /\ fr.base = a /\ b = End - 1
    BY <1>3, <1>9, <2>1 DEF End, FrameIs, a, b
  <2>3. \A q \in a .. b : stack'[q] = stack[q]
    <3>1. \A q \in a .. b : q \in 1 .. Len(stack)
      BY <1>1, <1>5
    <3>. QED
      BY <1>3, <1>9, <3>1
  <2>4. b <= Len(stack')
    BY <2>2
  <2>5. SubSeq(stack', a, b) = SubSeq(stack, a, b)
    BY <1>1, <1>5, <2>3, <2>4, SameWindow
  <2>6. Extras(fr, stack') = <<>> /\ extra = <<>>
    BY <1>8, <2>1 DEF Extras
  <2>. QED
    BY <1>9, <2>2, <2>5, <2>6 DEF args
<1>10. ASSUME g \in LuaFn PROVE SubSeq(stack', fr.base, End' - 1) = regs /\ Extras(fr, stack') = extra
  <2>1. InLua' /\ g \notin CFn
    BY <1>2, <1>4, <1>8, <1>10 DEF InLua
  <2>2. PICK s : Entering(stack, s, stack', g, f, End)
    BY <1>3, <1>10
  <2>. DEFINE bs == NewBase(g, f, End)
  <2>3. fr.base = bs /\ End' = bs + k
    BY <1>3, <1>4, <1>10, <2>1 DEF End, LiveTop, FrameIs
  <2>a. EnteredAs(stack, stack', g, f, End)
    BY <2>2, EnteringIs
  <2>4. /\ SubSeq(stack', bs, bs + k - 1) = Separate!Adjust(SubSeq(stack, f + 1, End - 1), k)
        /\ g \in VarArg => SubSeq(stack', f + 1 + k, bs - 1)
                             = SubSeq(SubSeq(stack, f + 1, End - 1), k + 1, End - f - 1)
    BY <2>a DEF EnteredAs, k
  <2>b. bs \in Nat /\ k \in Nat
    <3>1. f \in Nat \ {0} /\ End \in Nat /\ f < End
      BY <1>1
    <3>. QED
      BY <1>10, <3>1, NewBaseAbove, FunctionAssumption DEF k
  <2>. HIDE DEF bs
  <2>5. SubSeq(stack', fr.base, End' - 1) = regs
    <3>1. regs = Separate!Adjust(args, k)
      BY <2>1
    <3>. HIDE DEF regs
    <3>2. args = SubSeq(stack, f + 1, End - 1)
      BY DEF args, a, b
    <3>3. SubSeq(stack', fr.base, End' - 1) = SubSeq(stack', bs, bs + k - 1)
      BY <2>3, <2>b
    <3>. QED
      BY <2>4, <3>1, <3>2, <3>3
  <2>6. Extras(fr, stack') = extra
    <3>1. CASE g \notin VarArg
      BY <1>8, <3>1 DEF Extras
    <3>2. CASE g \in VarArg
      <4>2. Extras(fr, stack') = SubSeq(stack', f + 1 + k, bs - 1)
        BY <1>8, <2>3, <3>2 DEF Extras, k
      <4>3. extra = SubSeq(args, k + 1, End - f - 1)
        BY <1>5, <3>2
      <4>. QED
        BY <2>4, <3>2, <4>2, <4>3 DEF args, a, b
    <3>. QED
      BY <3>1, <3>2
  <2>. QED
    BY <2>5, <2>6
<1>11. SubSeq(stack', fr.base, End' - 1) = regs /\ Extras(fr, stack') = extra
  BY <1>2, <1>9, <1>10
<1>12. Act(fr, stack', End', p) = Separate!Activation(g, args, nr, p)
  <2>. HIDE DEF regs, extra
  <2>. QED
    BY <1>6, <1>7, <1>8, <1>11
<1>. QED
  BY <1>12 DEF fr, g, args, a, b


LEMMA Called ==
  ASSUME Shown, RunInv', Running', NEW f \in base .. End - 1, stack[f] \in Fn,
         NEW nr \in {MULTRET, 0, 1}, Enter(f, End, nr),
         \A i \in 1 .. Len(ci) : Protects(host', i) = Protects(host, i)
  PROVE  Separate!Call /\ (~InLua' => base' <= top')
<1>. DEFINE n == Len(ci)  g == stack[f]  k == f - base + 1  n2 == Len(ci')
            p == Protects(host', n2)
            args == SubSeq(Separate!Regs, k + 1, Len(Separate!Regs))
<1>1. /\ stack \in Seq(Value) /\ Len(stack) \in Nat /\ n \in Nat \ {0} /\ n \in 1 .. n
      /\ ci[n] = CI /\ base = CI.base /\ CI.fn < base /\ CI.fn \in Nat
      /\ End \in Nat \ {0} /\ base \in Nat \ {0} /\ End - 1 <= Len(stack)
  BY RunFacts, Seen DEF Shown, FrameFits
<1>2. g \in Fn /\ (g \in CFn \/ g \in LuaFn)
  BY DEF Fn
<1>3. /\ n2 = n + 1 /\ \A i \in 1 .. n : SameFrame(ci[i], ci'[i])
      /\ g \in CFn => /\ FrameIs(ci'[n + 1], g, f, f + 1, nr, 0)
                      /\ top' = End /\ base' = f + 1
                      /\ \A q \in 1 .. Len(stack) : stack'[q] = stack[q]
      /\ g \in LuaFn => /\ FrameIs(ci'[n + 1], g, f, NewBase(g, f, End), nr, NumParams[g])
                        /\ \E s : Entering(stack, s, stack', g, f, End)
  BY CalledFrame
<1>4. ci'[n + 1].fn = f /\ ci'[n + 1].callee = g
  BY <1>2, <1>3 DEF FrameIs
<1>5. \A q \in 1 .. f : stack'[q] = stack[q]
  <2>. SUFFICES ASSUME NEW q \in 1 .. f PROVE stack'[q] = stack[q]
    OBVIOUS
  <2>1. q \in 1 .. Len(stack)
    BY <1>1
  <2>2. g \in LuaFn => stack'[q] = stack[q]
    BY <1>3, EnteringBelow
  <2>. QED
    BY <1>2, <1>3, <2>1, <2>2
<1>. HIDE DEF n, n2, g
<1>6. ~InLua' => base' <= top'
  <2>. SUFFICES ASSUME ~InLua' PROVE base' <= top'
    OBVIOUS
  <2>1. CI'.callee = g
    BY <1>3, <1>4 DEF CI, n2
  <2>2. g \notin LuaFn
    BY <2>1 DEF InLua
  <2>3. top' = End /\ base' = f + 1
    BY <1>2, <1>3, <2>2
  <2>. QED
    BY <1>1, <2>3
<1>7. stack' \in Seq(Value) /\ End' - 1 <= Len(stack')
  <2>1. stack' \in Seq(Value)
    BY DEF RunInv, StackOK
  <2>2. End' - 1 <= Len(stack')
    BY <1>6, EndFitsThen
  <2>. QED
    BY <2>1, <2>2
<1>8. SameUpTo(n)
  <2>1. n \in 1 .. Len(ci) /\ n \in 1 .. Len(ci')
    BY <1>1, <1>3 DEF n, n2
  <2>2. \A q \in 1 .. ci[n].base - 1 : q \in 1 .. f
    BY <1>1
  <2>3. \A i \in 1 .. n : Protects(host', i) = Protects(host, i)
    BY DEF n
  <2>. QED
    BY <1>3, <1>5, <2>1, <2>2, <2>3 DEF SameUpTo, SameBelow
<1>9. LastRegs(Activations, Len(ci), Activations', Len(ci'), n,
               SubSeq(stack', ci[n].base, To(ci', n, End') - 1))
  BY <1>8, SeenBuilt
<1>10. To(ci', n, End') = f
  BY <1>1, <1>3, <1>4 DEF To, n2
<1>11. Activations' = Append(Separate!WithRegs(Activations, SubSeq(stack', base, f - 1)), Activations'[n + 1])
  BY <1>1, <1>3, <1>9, <1>10 DEF LastRegs, n, n2
<1>12. /\ k \in 1 .. Len(Separate!Regs) /\ Separate!Regs[k] = g
       /\ Separate!Prefix(k - 1) = SubSeq(stack, base, f - 1)
       /\ args = SubSeq(stack, f + 1, End - 1)
  <2>. DEFINE j == f - base + 1
  <2>1. j = f - base + 1
    OBVIOUS
  <2>. HIDE DEF j
  <2>2. /\ j \in 1 .. Len(Separate!Regs) /\ Separate!Regs[j] = stack[f]
        /\ Separate!Prefix(j - 1) = SubSeq(stack, base, f - 1)
        /\ SubSeq(Separate!Regs, j + 1, Len(Separate!Regs)) = SubSeq(stack, f + 1, End - 1)
    BY <2>1, CallerCut
  <2>. QED
    BY <2>2 DEF j, g
<1>13. SubSeq(stack', base, f - 1) = SubSeq(stack, base, f - 1)
  <2>. DEFINE b == f - 1
  <2>1. base \in Nat \ {0} /\ b \in Nat /\ b <= Len(stack) /\ base <= b + 1 /\ \A q \in base .. b : q \in 1 .. f
    BY <1>1
  <2>2. \A q \in base .. b : stack'[q] = stack[q]
    BY <1>5, <2>1
  <2>3. b <= Len(stack')
    <3>1. CASE g \in CFn
      <4>1. f + 1 = base' /\ FramesOK(ci', base', Len(stack')) /\ ci'[n2] \in Frame /\ FrameFits(ci'[n2], Len(stack'))
            /\ base' = ci'[n2].base
        <5>1. FramesOK(ci', base', Len(stack'))
          BY DEF RunInv
        <5>2. n2 \in 1 .. n2
          BY <1>1, <1>3
        <5>. QED
          BY <1>3, <3>1, <5>1, <5>2 DEF FramesOK, n2
      <4>2. ci'[n2].top \in Nat /\ ci'[n2].base <= ci'[n2].top /\ ci'[n2].top <= Len(stack') /\ Len(stack') \in Nat
        BY <1>7, <4>1 DEF FrameFits, Frame
      <4>. DEFINE t == ci'[n2].top  l == Len(stack')
      <4>3. f + 1 <= t /\ t <= l /\ t \in Nat /\ l \in Nat
        BY <4>1, <4>2
      <4>. HIDE DEF t, l
      <4>4. b <= l
        BY <1>1, <4>3
      <4>. QED
        BY <4>4 DEF l
    <3>2. CASE g \in LuaFn
      <4>1. PICK s : Entering(stack, s, stack', g, f, End)
        BY <1>3, <3>2
      <4>2. /\ Len(stack') = Len(s) /\ Len(s) \in Nat /\ Len(s) >= Len(stack)
        BY <4>1, EnteringFacts, SMTT(20) DEF Entering
      <4>. QED
        BY <1>1, <2>1, <4>2
    <3>. QED
      BY <1>2, <3>1, <3>2
  <2>. HIDE DEF b
  <2>4. SubSeq(stack', base, b) = SubSeq(stack, base, b)
    <3>1. stack \in Seq(Value) /\ stack' \in Seq(Value)
      BY <1>1, <1>7
    <3>. QED
      BY <2>1, <2>2, <2>3, <3>1, SameWindow, SMTT(20)
  <2>. QED
    BY <2>4 DEF b
<1>14. Activations'[n + 1] = Separate!Activation(g, args, nr, p)
  <2>1. Activations' = Acts(ci', stack', host', End')
    BY ActivationsAreThen
  <2>2. n2 \in 1 .. Len(ci') /\ n2 = n + 1
    BY <1>1, <1>3 DEF n2
  <2>3. Acts(ci', stack', host', End')[n2] = Act(ci'[n2], stack', To(ci', n2, End'), p)
    BY <2>2, ActAt
  <2>4. To(ci', n2, End') = End'
    BY <1>1, <1>3 DEF To, n2
  <2>5. Act(ci'[n + 1], stack', End', p) = Separate!Activation(g, SubSeq(stack, f + 1, End - 1), nr, p)
    <3>. HIDE DEF p
    <3>. QED
      BY <1>7, NewFrameIs DEF n, g
  <2>. QED
    BY <1>12, <2>1, <2>2, <2>3, <2>4, <2>5
<1>15. p \in BOOLEAN
  BY ProtectsBoolean
<1>16. Separate!Call
  <2>1. Activations' = Append(Separate!WithRegs(Activations, Separate!Prefix(k - 1)),
                              Separate!Activation(Separate!Regs[k], args, nr, p))
    BY <1>11, <1>12, <1>13, <1>14
  <2>2. Separate!Regs[k] \in LuaFn \cup CFn
    BY <1>2, <1>12
  <2>3. nr \in {Separate!MULTRET, 0, 1}
    BY DEF MULTRET, Separate!MULTRET
  <2>. HIDE DEF k, p, MULTRET
  <2>. QED
    BY <1>12, <1>15, <2>1, <2>2, <2>3 DEF Separate!Call
<1>. QED
  BY <1>6, <1>16

\* The protected call that waits, if there is one, has called where its
\* function was.
LEMMA CallsAtTopPushed ==
  ASSUME Shown, NEW f, Len(ci') = Len(ci) + 1, \A i \in 1 .. Len(ci) : SameFrame(ci[i], ci'[i]),
         ci'[Len(ci) + 1].fn = f, Runner.kind = "pcall" => Runner.oldTop = f,
         \A h \in Handlers(host', Len(host') + 1) :
           /\ h \in Handlers(host, Len(host) + 1)
           /\ host'[h].ci = host[h].ci /\ host'[h].oldTop = host[h].oldTop
  PROVE  CallsAtTop(host', ci')
<1>. SUFFICES ASSUME NEW h \in Handlers(host', Len(host') + 1), host'[h].ci < Len(ci')
              PROVE  ci'[host'[h].ci + 1].fn = host'[h].oldTop
  BY DEF CallsAtTop
<1>1. h \in Handlers(host, Len(host) + 1) /\ host'[h].ci = host[h].ci /\ host'[h].oldTop = host[h].oldTop
  OBVIOUS
<1>2. /\ host \in Seq(Entry) /\ Len(ci) \in Nat /\ RunsOK(host, ci) /\ PCallsOK(host, ci, Len(stack))
  BY RunFacts DEF Shown, RunInv, HostInv
<1>3. /\ Len(host) \in Nat /\ h \in 1 .. Len(host) /\ host[h].kind = "pcall"
      /\ host[h].ci \in 1 .. Len(ci) /\ (h < Len(host) => host[h].ci < Len(ci))
  BY <1>1, <1>2, HostShape
<1>. DEFINE i == host[h].ci  n == Len(ci)
<1>4. CASE i < n
  <2>1. ci[i + 1].fn = host[h].oldTop
    BY <1>1, <1>4 DEF Shown, CallsAtTop
  <2>2. i + 1 \in 1 .. n
    BY <1>2, <1>3, <1>4
  <2>. QED
    BY <1>1, <2>1, <2>2 DEF SameFrame
<1>5. CASE ~(i < n)
  <2>1. h = Len(host) /\ i = n
    BY <1>2, <1>3, <1>5
  <2>2. Runner.oldTop = f
    BY <1>3, <2>1 DEF Runner
  <2>. QED
    BY <1>1, <2>1, <2>2 DEF Runner
<1>. QED
  BY <1>4, <1>5

-----------------------------------------------------------------------------
(* Steps that throw *)

LEMMA WindowAppend ==
  ASSUME NEW s \in Seq(Value), NEW s2 \in Seq(Value), NEW a \in Nat \ {0}, NEW b \in Nat, NEW c,
         NEW v \in Value, b <= Len(s), a <= b + 1, c = b + 1, c <= Len(s2), s2[c] = v,
         \A p \in a .. b : s2[p] = s[p]
  PROVE  SubSeq(s2, a, c) = Append(SubSeq(s, a, b), v)
<1>. DEFINE r == <<v>>  n == 1
<1>1. r \in Seq(Value) /\ Len(r) = n /\ r[1] = v /\ n \in Nat
  OBVIOUS
<1>2. \A i \in 1 .. n : s2[b + i] = r[i]
  BY <1>1
<1>4. SubSeq(s, a, b) \in Seq(Value)
  BY Window
<1>5. SubSeq(s, a, b) \o r = Append(SubSeq(s, a, b), v)
  BY <1>4
<1>. HIDE DEF r, n
<1>6. c = b + n
  BY DEF n
<1>7. Joined(SubSeq(s2, a, c), SubSeq(s, a, b), r)
  BY <1>1, <1>2, <1>6, WindowGrows
<1>. QED
  BY <1>5, <1>7 DEF Joined

\* What an error leaves: the frame with the innermost dPCall, and the message
\* where the called function was.
ThrownTo(s, m, f) ==
  /\ errorJmp \in Handlers(host, Len(host) + 1)
  /\ \A g \in Handlers(host, Len(host) + 1) : g <= errorJmp
  /\ m = host[errorJmp].ci /\ f = host[errorJmp].oldTop
  /\ stack' = [s EXCEPT ![f] = Message] /\ top' = f + 1
  /\ Len(ci') = m /\ \A i \in 1 .. m : SameFrame(ci[i], ci'[i])
  /\ host' = SubSeq(host, 1, errorJmp - 1)
  /\ m \in 1 .. Len(ci) /\ ci[m].base <= f /\ f < Len(stack) /\ f \in Nat /\ ci[m].base \in Nat \ {0}
  /\ ci[m].callee \notin LuaFn

LEMMA ThrowIs ==
  ASSUME Shown, Running', NEW s, Throw(s)
  PROVE  \E m, f : ThrownTo(s, m, f)
<1>. DEFINE e == errorJmp  h == host[e]  m == h.ci  f == h.oldTop  cut == SubSeq(ci, 1, m)
            d == Corrected(cut, s)  t == f + 1
<1>1. e # NoHandler
  BY DEF Throw, Running
<1>2. /\ stack' = [s EXCEPT ![f] = Message] /\ top' = t
      /\ ci' = IF h.nres = MULTRET /\ t >= d[m].top THEN [d EXCEPT ![m].top = t] ELSE d
      /\ host' = SubSeq(host, 1, e - 1)
  BY <1>1 DEF Throw
<1>3. /\ host \in Seq(Entry) /\ Len(host) \in Nat /\ ci \in Seq(Frame) /\ Len(ci) \in Nat /\ Len(stack) \in Nat
      /\ RunsOK(host, ci) /\ PCallsOK(host, ci, Len(stack))
  BY RunFacts DEF Shown, RunInv, HostInv
<1>4. e \in Handlers(host, Len(host) + 1) /\ \A g \in Handlers(host, Len(host) + 1) : g <= e
  <2>1. IsInnermost(e, Handlers(host, Len(host) + 1))
    BY DEF Shown, RunInv, HostInv, HostOK, HandlersOK
  <2>. QED
    BY <1>1, <2>1 DEF IsInnermost
<1>5. /\ m \in 1 .. Len(ci) /\ h.kind = "pcall" /\ ci[m].callee \notin LuaFn /\ e \in 1 .. Len(host)
  BY <1>3, <1>4, HostShape
<1>6. ci[m].base <= f /\ f < Len(stack)
  BY <1>3, <1>4 DEF PCallsOK
<1>7. f \in Nat /\ ci[m].base \in Nat \ {0}
  <2>1. h \in Entry
    BY <1>3, <1>5
  <2>2. h.oldTop \in Nat \ {0}
    <3>. HIDE DEF h
    <3>. QED
      BY <1>5, <2>1, EntryFields
  <2>. QED
    BY <1>3, <1>5, <2>2, FrameFields
<1>. HIDE DEF h, e, m, f, d, cut
<1>8. cut \in Seq(Frame) /\ Len(cut) = m /\ (\A i \in 1 .. m : cut[i] = ci[i]) /\ m \in 1 .. m
  BY <1>3, <1>5 DEF cut
<1>9. d \in Seq(Frame) /\ Len(d) = m /\ \A i \in 1 .. m : SameFrame(ci[i], d[i])
  <2>1. SameFrames(cut, d)
    BY <1>8, CorrectedFrames DEF d
  <2>2. Len(d) = Len(cut) /\ \A i \in 1 .. Len(cut) : SameFrame(cut[i], d[i])
    BY <1>8, <2>1, CorrectedSame
  <2>. QED
    BY <1>8, <2>1, <2>2 DEF SameFrames
<1>10. Len(ci') = m /\ \A i \in 1 .. m : SameFrame(ci[i], ci'[i])
  <2>1. CASE ci' = d
    BY <1>9, <2>1
  <2>2. CASE ci' = [d EXCEPT ![m].top = t]
    <3>. DEFINE fr == [d[m] EXCEPT !.top = t]
    <3>1. ci' = [d EXCEPT ![m] = fr]
      BY <2>2
    <3>2. SameFrame(d[m], fr)
      <4>. DEFINE r == d[m]
      <4>1. r \in Frame /\ fr = [r EXCEPT !.top = t]
        BY <1>8, <1>9
      <4>. HIDE DEF r, t, fr
      <4>2. fr.callee = r.callee /\ fr.nres = r.nres /\ fr.base = r.base /\ fr.fn = r.fn
        BY <4>1 DEF Frame
      <4>. QED
        BY <4>2 DEF SameFrame, r
    <3>. HIDE DEF fr
    <3>3. Len(ci') = m /\ ci'[m] = fr /\ \A i \in 1 .. m : i # m => ci'[i] = d[i]
      BY <1>8, <1>9, <3>1
    <3>4. SameFrame(ci[m], ci'[m])
      BY <1>8, <1>9, <3>2, <3>3 DEF SameFrame
    <3>. QED
      BY <1>9, <3>3, <3>4
  <2>. QED
    BY <1>2, <2>1, <2>2
<1>11. ThrownTo(s, m, f)
  BY <1>2, <1>4, <1>5, <1>6, <1>7, <1>10 DEF ThrownTo, e, h, m, f
<1>. QED
  BY <1>11

LEMMA ThrownActs ==
  ASSUME Shown, RunInv', NEW s, s \in Seq(Value), Len(s) >= Len(stack),
         \A p \in 1 .. Len(stack) : s[p] = stack[p], NEW m, NEW f, ThrownTo(s, m, f)
  PROVE  /\ CallsAtTop(host', ci') /\ base' <= top'
         /\ Activations' = Separate!WithRegs(SubSeq(Activations, 1, m),
                                             Append(SubSeq(stack, ci[m].base, f - 1), Message))
         /\ m = Len(ci) => Activations' = Separate!WithRegs(Activations,
                                             Append(SubSeq(stack, ci[m].base, f - 1), Message))
<1>. DEFINE e == errorJmp  a == ci[m].base  b == f - 1  w == SubSeq(stack, a, b)
<1>1. /\ e \in Handlers(host, Len(host) + 1) /\ \A g \in Handlers(host, Len(host) + 1) : g <= e
      /\ m = host[e].ci /\ f = host[e].oldTop
      /\ stack' = [s EXCEPT ![f] = Message] /\ top' = f + 1
      /\ Len(ci') = m /\ \A i \in 1 .. m : SameFrame(ci[i], ci'[i])
      /\ host' = SubSeq(host, 1, e - 1)
      /\ m \in 1 .. Len(ci) /\ a <= f /\ f < Len(stack) /\ f \in Nat /\ a \in Nat \ {0}
      /\ ci[m].callee \notin LuaFn
  BY DEF ThrownTo
<1>2. /\ host \in Seq(Entry) /\ Len(host) \in Nat /\ Len(ci) \in Nat /\ stack \in Seq(Value) /\ Len(stack) \in Nat
      /\ RunsOK(host, ci) /\ PCallsOK(host, ci, Len(stack)) /\ Len(s) \in Nat
  BY RunFacts DEF Shown, RunInv, HostInv
<1>3. e \in 1 .. Len(host) /\ e - 1 \in 0 .. Len(host) /\ e \in Nat
  <2>1. e \in 1 .. (Len(host) + 1) - 1
    BY <1>1 DEF Handlers
  <2>2. Len(host) \in Nat
    BY <1>2
  <2>. QED
    BY <2>1, <2>2
<1>4. m \in 1 .. m /\ m \in 1 .. Len(ci') /\ m \in Nat
  BY <1>1, <1>2
<1>5. CI' = ci'[m] /\ ~InLua' /\ base' = a /\ End' = top'
  <2>1. CI' = ci'[m]
    BY <1>1 DEF CI
  <2>2. SameFrame(ci[m], ci'[m])
    BY <1>1, <1>4
  <2>3. base' = CI'.base
    BY DEF RunInv, FramesOK, CI
  <2>. QED
    BY <1>1, <2>1, <2>2, <2>3 DEF InLua, SameFrame, End
<1>. HIDE DEF e, a
<1>. DEFINE n0 == Len(stack)  n1 == Len(s)  nc == Len(ci)
<1>A. n0 \in Nat /\ n1 \in Nat /\ nc \in Nat /\ n1 >= n0 /\ a \in Nat \ {0} /\ f \in Nat /\ a <= f /\ f < n0
      /\ m \in Nat \ {0} /\ m <= nc
  BY <1>1, <1>2
<1>. HIDE DEF n0, n1, nc
<1>6. ASSUME NEW i \in 1 .. m PROVE Protects(host', i) = Protects(host, i)
  <2>. DEFINE k == e - 1
  <2>1. k \in 0 .. Len(host) /\ host' = SubSeq(host, 1, k)
    BY <1>1, <1>3
  <2>2. ASSUME NEW g \in k + 1 .. Len(host), host[g].kind = "pcall" PROVE host[g].ci >= m
    <3>1. g \in 1 .. (Len(host) + 1) - 1 /\ g >= e
      BY <1>2, <1>3
    <3>2. g \in Handlers(host, Len(host) + 1)
      BY <2>2, <3>1 DEF Handlers
    <3>3. g = e
      BY <1>1, <1>3, <3>1, <3>2
    <3>. QED
      BY <1>1, <1>4, <3>3
  <2>. HIDE DEF k
  <2>. QED
    BY <1>2, <1>4, <2>1, <2>2, ProtectsCut
<1>7. \A p \in 1 .. b : stack'[p] = stack[p]
  <2>1. \A p \in 1 .. b : p \in 1 .. n0 /\ p \in 1 .. n1 /\ p # f
    BY <1>A
  <2>2. stack' = [s EXCEPT ![f] = Message] /\ s \in Seq(Value)
    BY <1>1
  <2>3. \A p \in 1 .. Len(s) : p # f => stack'[p] = s[p]
    BY <2>2
  <2>. QED
    BY <2>1, <2>3 DEF n0, n1
<1>8. SameUpTo(m)
  <2>1. \A p \in 1 .. a - 1 : p \in 1 .. b
    BY <1>1
  <2>. QED
    BY <1>1, <1>4, <1>6, <1>7, <2>1 DEF SameUpTo, SameBelow, a
<1>9. LastRegs(Activations, Len(ci), Activations', Len(ci'), m, SubSeq(stack', ci[m].base, To(ci', m, End') - 1))
  BY <1>8, SeenBuilt
<1>10. To(ci', m, End') = f + 1
  BY <1>1, <1>4, <1>5 DEF To
<1>11. SubSeq(stack', a, f) = Append(w, Message)
  <2>1. Message \in Value
    BY DEF Value
  <2>3. /\ b \in Nat /\ b <= n0 /\ a <= b + 1 /\ b + 1 = f /\ a \in Nat \ {0}
        /\ \A p \in a .. b : p \in 1 .. b
    BY <1>A
  <2>4. stack'[f] = Message /\ f <= Len(stack') /\ stack' \in Seq(Value)
    <3>1. f \in 1 .. Len(s)
      BY <1>A DEF n1
    <3>2. stack' \in Seq(Value)
      BY DEF RunInv, StackOK
    <3>. QED
      BY <1>1, <3>1, <3>2
  <2>6. \A p \in a .. b : stack'[p] = stack[p]
    BY <1>7, <2>3
  <2>. HIDE DEF b
  <2>7. b <= Len(stack)
    BY <2>3 DEF n0
  <2>8. /\ stack \in Seq(Value) /\ a \in Nat \ {0} /\ b \in Nat /\ a <= b + 1 /\ f = b + 1
        /\ f <= Len(stack')
    BY <1>2, <2>3, <2>4
  <2>. QED
    BY <2>1, <2>4, <2>6, <2>7, <2>8, WindowAppend DEF w
<1>11a. SubSeq(stack', ci[m].base, To(ci', m, End') - 1) = Append(w, Message)
  <2>1. (f + 1) - 1 = f
    BY <1>A
  <2>. QED
    BY <1>10, <1>11, <2>1 DEF a
<1>. HIDE DEF w
<1>12. Activations' = Separate!WithRegs(SubSeq(Activations, 1, m), Append(w, Message))
  BY <1>1, <1>9, <1>11a DEF LastRegs
<1>13. m = Len(ci) => Activations' = Separate!WithRegs(Activations, Append(w, Message))
  BY <1>1, <1>9, <1>11a DEF LastRegs
<1>14. CallsAtTop(host', ci')
  <2>. SUFFICES ASSUME NEW g \in Handlers(host', Len(host') + 1), host'[g].ci < m
                PROVE  ci'[host'[g].ci + 1].fn = host'[g].oldTop
    BY <1>1 DEF CallsAtTop
  <2>1. Len(host') = e - 1 /\ \A k \in 1 .. e - 1 : host'[k] = host[k]
    BY <1>1, <1>2, <1>3
  <2>2. g \in 1 .. e - 1 /\ host'[g].kind = "pcall"
    BY <1>3, <2>1 DEF Handlers
  <2>3. g \in Handlers(host, Len(host) + 1) /\ host'[g] = host[g]
    BY <1>2, <1>3, <2>1, <2>2 DEF Handlers
  <2>4. host[g].ci \in 1 .. Len(ci)
    BY <1>2, <2>3 DEF PCallsOK
  <2>. DEFINE i == host[g].ci
  <2>5. i < Len(ci) /\ i + 1 \in 1 .. m
    <3>1. i \in Nat \ {0} /\ i < m
      BY <1>2, <2>3, <2>4
    <3>. HIDE DEF i
    <3>. QED
      BY <1>A, <3>1 DEF nc
  <2>6. ci[i + 1].fn = host[g].oldTop
    BY <2>3, <2>5 DEF Shown, CallsAtTop
  <2>. QED
    BY <1>1, <2>3, <2>5, <2>6 DEF SameFrame
<1>15. base' <= top'
  BY <1>1, <1>5
<1>. QED
  BY <1>12, <1>13, <1>14, <1>15 DEF a, w


\* One activation of a state.
LEMMA ActivationAt ==
  ASSUME Shown, NEW i \in 1 .. Len(ci)
  PROVE  /\ Activations[i].regs = SubSeq(stack, ci[i].base, To(ci, i, End) - 1)
         /\ Activations[i].protected = Protects(host, i)
<1>1. Activations[i] = Act(ci[i], stack, To(ci, i, End), Protects(host, i))
  BY ActivationsAre, ActAt
<1>. DEFINE f == ci[i].callee  nr == ci[i].nres  p == Protects(host, i)  x == Extras(ci[i], stack)
            r == SubSeq(stack, ci[i].base, To(ci, i, End) - 1)
<1>2. Activations[i] = Rec(f, nr, p, r, x)
  BY <1>1 DEF Act
<1>. HIDE DEF f, nr, p, x, r
<1>3. Activations[i].regs = r /\ Activations[i].protected = p
  BY <1>2, RecIs
<1>. QED
  BY <1>3 DEF r, p

LEMMA ThrowFollows ==
  ASSUME Shown, RunInv', Running', NEW s, s \in Seq(Value), Len(s) >= Len(stack),
         \A p \in 1 .. Len(stack) : s[p] = stack[p], Throw(s)
  PROVE  Follows
<1>1. PICK m, f : ThrownTo(s, m, f)
  BY ThrowIs
<1>. DEFINE w == SubSeq(stack, ci[m].base, f - 1)
<1>2. /\ CallsAtTop(host', ci') /\ base' <= top'
      /\ Activations' = Separate!WithRegs(SubSeq(Activations, 1, m), Append(w, Message))
      /\ m = Len(ci) => Activations' = Separate!WithRegs(Activations, Append(w, Message))
  BY <1>1, ThrownActs
<1>. DEFINE e == errorJmp  n == Len(ci)
<1>3. /\ e \in Handlers(host, Len(host) + 1) /\ \A g \in Handlers(host, Len(host) + 1) : g <= e
      /\ m = host[e].ci /\ f = host[e].oldTop /\ m \in 1 .. n /\ ci[m].base <= f /\ f \in Nat
      /\ ci[m].base \in Nat
  BY <1>1 DEF ThrownTo
<1>4. /\ host \in Seq(Entry) /\ Len(host) \in Nat /\ n \in Nat /\ DOMAIN host = 1 .. Len(host)
      /\ RunsOK(host, ci) /\ PCallsOK(host, ci, Len(stack))
  BY RunFacts DEF Shown, RunInv, HostInv
<1>5. Len(Activations) = n
  BY Seen DEF Shown
<1>6. /\ e \in 1 .. Len(host) /\ host[e].kind = "pcall"
      /\ \A g \in Handlers(host, Len(host) + 1) : g < e => host[g].ci < m
      /\ e < Len(host) => m < n
  <2>1. /\ e \in 1 .. Len(host) /\ host[e].kind = "pcall"
        /\ \A g \in Handlers(host, Len(host) + 1) : g < e => host[g].ci < host[e].ci
        /\ e < Len(host) => host[e].ci < Len(ci)
    BY <1>3, <1>4, HostShape
  <2>. QED
    BY <1>3, <2>1
<1>. HIDE DEF e, n, w
<1>7. ASSUME m < n PROVE Separate!Error
  <2>. DEFINE p == m + 1
  <2>1. p \in 2 .. n /\ p - 1 = m /\ p \in 1 .. n /\ m \in 1 .. n
    BY <1>3, <1>4, <1>7, SMTT(20)
  <2>. HIDE DEF p
  <2>2. Activations[p].protected
    <3>1. e \in DOMAIN host /\ host[e].kind = "pcall" /\ host[e].ci = p - 1
      BY <1>3, <1>4, <1>6, <2>1
    <3>2. Protects(host, p)
      BY <3>1 DEF Protects
    <3>. QED
      BY <2>1, <3>2, ActivationAt DEF n
  <2>3. ASSUME NEW q \in p + 1 .. n PROVE ~Activations[q].protected
    <3>1. q \in 1 .. n /\ q - 1 > m
      BY <1>3, <1>4, <2>1
    <3>2. ASSUME NEW g \in DOMAIN host, host[g].kind = "pcall", host[g].ci = q - 1 PROVE FALSE
      <4>1. g \in Handlers(host, Len(host) + 1)
        BY <1>4, <3>2 DEF Handlers
      <4>2. g <= e
        BY <1>3, <4>1
      <4>3. g = e \/ g < e
        BY <1>4, <1>6, <4>2
      <4>4. host[g].ci = m \/ host[g].ci < m
        BY <1>3, <1>6, <4>1, <4>3
      <4>. QED
        BY <1>3, <1>4, <3>1, <3>2, <4>4
    <3>3. ~Protects(host, q)
      BY <3>2 DEF Protects
    <3>. QED
      BY <3>1, <3>3, ActivationAt DEF n
  <2>4. Activations[p - 1].regs = w
    <3>1. ci[m + 1].fn = f
      BY <1>3, <1>7 DEF Shown, CallsAtTop, n
    <3>2. To(ci, m, End) = f
      BY <1>7, <3>1 DEF To, n
    <3>. QED
      BY <2>1, <3>2, ActivationAt DEF n, w
  <2>5. Activations' = Separate!WithRegs(SubSeq(Activations, 1, p - 1), Append(Activations[p - 1].regs, Message))
    BY <1>2, <2>1, <2>4
  <2>. QED
    BY <1>5, <2>1, <2>2, <2>3, <2>5 DEF Separate!Error
<1>8. ASSUME ~(m < n) PROVE Separate!Error
  <2>1. m = n /\ e = Len(host)
    <3>. DEFINE l == Len(host)
    <3>1. m \in 1 .. n /\ n \in Nat /\ l \in Nat /\ e \in 1 .. l /\ (e < l => m < n)
      BY <1>3, <1>4, <1>6
    <3>. HIDE DEF l
    <3>2. m = n /\ e = l
      BY <1>8, <3>1
    <3>. QED
      BY <3>2 DEF l
  <2>2. ci[m] = CI /\ base = CI.base /\ Runner.kind = "pcall" /\ Runner.oldTop = f
    BY <1>3, <1>6, <2>1, Seen DEF Shown, Runner, n
  <2>3. ~InLua /\ f < top
    BY <2>2, RunnerOfFrame DEF Shown, RunInv
  <2>4. End = top /\ top \in Nat /\ base \in Nat
    BY <2>3, RunFacts DEF End, Shown
  <2>5. f \in base .. End - 1
    BY <1>3, <2>2, <2>3, <2>4
  <2>. DEFINE k == f - base + 1  l == Len(Separate!Regs)
  <2>6. k = f - base + 1
    OBVIOUS
  <2>7. l \in Nat
    <3>1. Separate!Regs = RunWindow /\ RunWindow \in Seq(Value)
      BY Seen, Registered DEF Shown
    <3>. QED
      BY <3>1
  <2>. HIDE DEF k
  <2>8. k \in 1 .. l /\ Separate!Prefix(k - 1) = SubSeq(stack, base, f - 1)
    BY <2>5, <2>6, CallerCut
  <2>9. Separate!Prefix(k - 1) = w
    BY <2>2, <2>8 DEF w
  <2>. DEFINE k1 == k - 1
  <2>10. k1 \in 0 .. l - 1
    <3>. HIDE DEF l
    <3>. QED
      BY <2>7, <2>8
  <2>. HIDE DEF k1
  <2>11. Activations' = Separate!WithRegs(Activations, Append(Separate!Prefix(k1), Message))
    BY <1>2, <2>1, <2>9 DEF k1, n
  <2>. QED
    BY <2>10, <2>11 DEF Separate!Error
<1>. QED
  BY <1>2, <1>7, <1>8 DEF Follows, Separate!Next

-----------------------------------------------------------------------------
(* The steps that call or throw *)

LEMMA CallFollows ==
  ASSUME Shown, RunInv', Running', NEW f \in base .. End - 1, stack[f] \in Fn,
         NEW nr \in {MULTRET, 0, 1}, Enter(f, End, nr),
         NEW x \in Entry, x.kind # "pcall", host' = Append(host, x),
         Runner.kind = "pcall" => Runner.oldTop = f
  PROVE  Follows
<1>1. host \in Seq(Entry) /\ Len(host) \in Nat /\ Len(ci) \in Nat
  BY RunFacts DEF Shown
<1>2. \A i \in 1 .. Len(ci) : Protects(host', i) = Protects(host, i)
  BY <1>1, ProtectsPushed
<1>3. Separate!Call /\ (~InLua' => base' <= top')
  BY <1>2, Called
<1>4. /\ Len(host') = Len(host) + 1 /\ host'[Len(host) + 1] = x
      /\ \A g \in 1 .. Len(host) : host'[g] = host[g]
  BY <1>1
<1>5. \A h \in Handlers(host', Len(host') + 1) :
        h \in Handlers(host, Len(host) + 1) /\ host'[h].ci = host[h].ci /\ host'[h].oldTop = host[h].oldTop
  <2>. SUFFICES ASSUME NEW h \in Handlers(host', Len(host') + 1)
                PROVE  h \in Handlers(host, Len(host) + 1) /\ host'[h] = host[h]
    OBVIOUS
  <2>1. h \in 1 .. Len(host) + 1 /\ host'[h].kind = "pcall"
    BY <1>1, <1>4 DEF Handlers
  <2>2. h # Len(host) + 1
    BY <1>4, <2>1
  <2>3. h \in 1 .. Len(host)
    BY <1>1, <2>1, <2>2
  <2>. QED
    BY <1>1, <1>4, <2>1, <2>3 DEF Handlers
<1>6. /\ Len(ci') = Len(ci) + 1 /\ \A i \in 1 .. Len(ci) : SameFrame(ci[i], ci'[i])
      /\ ci'[Len(ci) + 1].fn = f
  BY CalledFrame DEF FrameIs, Fn
<1>7. CallsAtTop(host', ci')
  BY <1>5, <1>6, CallsAtTopPushed
<1>. QED
  BY <1>3, <1>7 DEF Follows, Separate!Next

LEMMA ProtectsRecounted ==
  ASSUME NEW hs \in Seq(Entry), NEW hs2 \in Seq(Entry), Len(hs2) = Len(hs),
         \A g \in 1 .. Len(hs) : /\ hs2[g].kind = hs[g].kind
                                 /\ hs[g].kind = "pcall" => hs2[g].ci = hs[g].ci,
         NEW i
  PROVE  Protects(hs2, i) = Protects(hs, i)
<1>1. DOMAIN hs = 1 .. Len(hs) /\ DOMAIN hs2 = 1 .. Len(hs)
  OBVIOUS
<1>2. Protects(hs2, i) <=> Protects(hs, i)
  BY <1>1 DEF Protects
<1>. QED
  BY <1>2, ProtectsBoolean

\* A Lua function entered in the same vExecute.
LEMMA CallHereFollows ==
  ASSUME Shown, RunInv', Running', NEW f \in base .. End - 1, stack[f] \in Fn,
         NEW nr \in {MULTRET, 0, 1}, Enter(f, End, nr), InLua,
         host' = [host EXCEPT ![Len(host)].calls = @ + 1]
  PROVE  Follows
<1>1. host \in Seq(Entry) /\ Len(host) \in Nat /\ Len(host) \in 1 .. Len(host) /\ Len(ci) \in Nat
      /\ host' \in Seq(Entry)
  BY RunFacts DEF Shown, RunInv, HostInv, HostOK
<1>2. Runner.kind = "execute" /\ Runner \in Entry
  BY RunnerOfFrame, RunFacts DEF Shown
<1>. DEFINE n == Len(host)  r == [Runner EXCEPT !.calls = @ + 1]
<1>3. host' = [host EXCEPT ![n] = r]
  BY DEF Runner
<1>4. r.kind = "execute"
  <2>. DEFINE k == Runner.calls + 1
  <2>1. k \in Nat \ {0} /\ r = [Runner EXCEPT !.calls = k]
    <3>1. Runner.calls \in Nat \ {0}
      BY <1>2, EntryFields
    <3>. QED
      BY <3>1
  <2>. HIDE DEF k, r
  <2>. QED
    BY <1>2, <2>1, Recounted
<1>. HIDE DEF r
<1>5. Len(host') = n /\ host'[n] = r /\ \A g \in 1 .. n : g # n => host'[g] = host[g]
  BY <1>1, <1>3
<1>6. \A g \in 1 .. n : host'[g].kind = host[g].kind /\ (host[g].kind = "pcall" => host'[g] = host[g])
  BY <1>2, <1>4, <1>5 DEF Runner
<1>7. ASSUME NEW i \in 1 .. Len(ci) PROVE Protects(host', i) = Protects(host, i)
  <2>1. Len(host') = Len(host)
    BY <1>5
  <2>2. \A g \in 1 .. Len(host) : host'[g].kind = host[g].kind /\ (host[g].kind = "pcall" => host'[g].ci = host[g].ci)
    BY <1>6
  <2>. QED
    BY <1>1, <2>1, <2>2, ProtectsRecounted
<1>8. Separate!Call /\ (~InLua' => base' <= top')
  BY <1>7, Called
<1>9. \A h \in Handlers(host', Len(host') + 1) :
        h \in Handlers(host, Len(host) + 1) /\ host'[h].ci = host[h].ci /\ host'[h].oldTop = host[h].oldTop
  <2>. SUFFICES ASSUME NEW h \in Handlers(host', Len(host') + 1)
                PROVE  h \in Handlers(host, Len(host) + 1) /\ host'[h] = host[h]
    OBVIOUS
  <2>1. h \in 1 .. n /\ host'[h].kind = "pcall"
    BY <1>1, <1>5 DEF Handlers
  <2>. QED
    BY <1>1, <1>6, <2>1 DEF Handlers
<1>10. /\ Len(ci') = Len(ci) + 1 /\ \A i \in 1 .. Len(ci) : SameFrame(ci[i], ci'[i])
       /\ ci'[Len(ci) + 1].fn = f
  BY CalledFrame DEF FrameIs, Fn
<1>11. CallsAtTop(host', ci')
  BY <1>2, <1>9, <1>10, CallsAtTopPushed
<1>. QED
  BY <1>8, <1>11 DEF Follows, Separate!Next

LEMMA GrownThrowFollows ==
  ASSUME Shown, RunInv', Running', NEW t \in Nat, NEW n \in Nat, Throw(Grown(stack, t, n))
  PROVE  Follows
<1>. DEFINE s == Grown(stack, t, n)
<1>1. stack \in Seq(Value)
  BY RunFacts DEF Shown
<1>2. s \in Seq(Value) /\ Len(s) >= Len(stack) /\ \A p \in 1 .. Len(stack) : s[p] = stack[p]
  BY <1>1, GrownStack
<1>3. Throw(s)
  OBVIOUS
<1>. HIDE DEF s
<1>. QED
  BY <1>2, <1>3, ThrowFollows

LEMMA DCallFollows ==
  ASSUME Shown, RunInv', Running', NEW f \in base .. End - 1, NEW nr \in {MULTRET, 0, 1},
         DCall(f, End, nr), Runner.kind = "pcall" => Runner.oldTop = f
  PROVE  Follows
<1>1. stack \in Seq(Value) /\ Len(stack) \in Nat /\ End \in Nat
  BY RunFacts, Seen DEF Shown
<1>2. CASE Throw(stack)
  BY <1>1, <1>2, ThrowFollows
<1>3. ASSUME stack[f] \in Fn, Enter(f, End, nr),
             host' = Append(host, IF stack[f] \in LuaFn THEN Execute ELSE GoFunction(TRUE))
      PROVE  Follows
  <2>. DEFINE x == IF stack[f] \in LuaFn THEN Execute ELSE GoFunction(TRUE)
  <2>1. x \in Entry /\ x.kind # "pcall"
    BY NewEntry
  <2>2. host' = Append(host, x)
    BY <1>3
  <2>. HIDE DEF x
  <2>. QED
    BY <1>3, <2>1, <2>2, CallFollows
<1>4. ASSUME stack[f] \in Fn, Throw(Grown(stack, End, Slots(stack[f], End)))
      PROVE  Follows
  <2>1. Slots(stack[f], End) \in Nat
    BY <1>4, SlotsNat
  <2>. QED
    BY <1>1, <1>4, <2>1, GrownThrowFollows
<1>. QED
  BY <1>2, <1>3, <1>4 DEF DCall

LEMMA OpCallFollows ==
  ASSUME Shown, RunInv', Running', OpCall
  PROVE  Follows
<1>1. PICK f \in CI.base .. LiveTop - 1, nr \in {MULTRET, 0, 1} :
        /\ stack[f] \in Fn
        /\ IF RoomForCI
           THEN /\ Enter(f, LiveTop, nr)
                /\ host' = IF stack[f] \in LuaFn
                           THEN [host EXCEPT ![Len(host)].calls = @ + 1]
                           ELSE Append(host, GoFunction(FALSE))
           ELSE Throw(Grown(stack, LiveTop, Slots(stack[f], LiveTop)))
  BY DEF OpCall
<1>2. InLua /\ End = LiveTop
  BY DEF OpCall, End
<1>3. base = CI.base /\ End \in Nat /\ Runner.kind = "execute"
  BY <1>2, Seen, RunnerOfFrame DEF Shown
<1>4. f \in base .. End - 1
  BY <1>1, <1>2, <1>3
<1>5. CASE RoomForCI /\ stack[f] \in LuaFn
  BY <1>1, <1>2, <1>4, <1>5, CallHereFollows
<1>6. CASE RoomForCI /\ stack[f] \notin LuaFn
  <2>1. GoFunction(FALSE) \in Entry /\ GoFunction(FALSE).kind # "pcall"
    BY NewEntry
  <2>. QED
    BY <1>1, <1>2, <1>3, <1>4, <1>6, <2>1, CallFollows
<1>7. CASE ~RoomForCI
  <2>1. Throw(Grown(stack, End, Slots(stack[f], End))) /\ Slots(stack[f], End) \in Nat
    BY <1>1, <1>2, <1>7, SlotsNat
  <2>. QED
    BY <1>3, <2>1, GrownThrowFollows
<1>. QED
  BY <1>5, <1>6, <1>7

LEMMA OpTailCallFollows ==
  ASSUME Shown, RunInv', Running', OpTailCall
  PROVE  Follows
<1>1. PICK f \in CI.base .. LiveTop - 1 :
        /\ stack[f] \in LuaFn
        /\ IF RoomForCI THEN ReplaceFrame(f)
           ELSE Throw(Grown(stack, LiveTop, MaxStack[stack[f]]))
  BY DEF OpTailCall
<1>2. InLua /\ End = LiveTop
  BY DEF OpTailCall, End
<1>3. base = CI.base /\ End \in Nat /\ base \in Nat /\ CI.fn \in Nat /\ CI.fn < CI.base
  BY <1>2, Seen, RunFacts DEF Shown, FrameFits
<1>4. f \in Nat \ {0} /\ f < End /\ CI.fn < f
  BY <1>1, <1>2, <1>3
<1>. DEFINE g == stack[f]
<1>5. g \in LuaFn /\ MaxStack[g] \in Nat
  BY <1>1, FunctionAssumption
\* L.base is left at that of the removed frame.
<1>6. ~RoomForCI
  <2>. SUFFICES ASSUME ReplaceFrame(f) PROVE FALSE
    BY <1>1
  <2>. DEFINE b == NewBase(g, f, LiveTop)  m == MaxStack[g]  x == CI.fn
  <2>1. x + (b + m - f) = b + m
    BY DEF ReplaceFrame, Running
  <2>2. b \in Nat /\ m \in Nat /\ x \in Nat /\ x < f /\ f \in Nat
    BY <1>2, <1>3, <1>4, <1>5, NewBaseAbove
  <2>. HIDE DEF b, m, x
  <2>. QED
    BY <2>1, <2>2
<1>7. Throw(Grown(stack, End, MaxStack[g]))
  BY <1>1, <1>2, <1>6
<1>. QED
  BY <1>3, <1>5, <1>7, GrownThrowFollows

LEMMA ApiCallFollows ==
  ASSUME Shown, RunInv', Running', ApiCall
  PROVE  Follows
<1>1. InGo
  BY DEF ApiCall
<1>2. ~InLua /\ Runner.kind # "pcall"
  BY <1>1, RunnerOfFrame DEF Shown, InGo
<1>3. End = top
  BY <1>2 DEF End
<1>4. PICK f \in base .. End - 1, nr \in {MULTRET, 0, 1} : DCall(f, End, nr)
  BY <1>3 DEF ApiCall
<1>. QED
  BY <1>2, <1>4, DCallFollows

LEMMA ProtectedCallFollows ==
  ASSUME Shown, RunInv', Running', ProtectedCall
  PROVE  Follows
<1>1. Runner.kind = "pcall" /\ DCall(Runner.oldTop, top, Runner.nres)
  BY DEF ProtectedCall
<1>2. Runner.ci = Len(ci) /\ Len(host) \in Handlers(host, Len(host) + 1) /\ ~InLua
  BY <1>1, RunnerOfFrame DEF Shown
<1>3. End = top
  BY <1>2 DEF End
<1>4. Runner.oldTop \in Nat \ {0} /\ Runner.nres \in {MULTRET, 0, 1} /\ top \in Nat /\ base \in Nat
  BY <1>1, RunFacts, EntryFields DEF Shown
<1>5. base <= Runner.oldTop
  <2>1. ci[Runner.ci].base <= Runner.oldTop
    BY <1>2 DEF Shown, RunInv, HostInv, PCallsOK, Runner
  <2>. QED
    BY <1>2, <2>1, Seen DEF Shown
<1>6. Runner.oldTop < top
  BY <1>1 DEF Shown, RunInv
<1>7. Runner.oldTop \in base .. End - 1
  BY <1>3, <1>4, <1>5, <1>6
<1>. QED
  BY <1>1, <1>3, <1>4, <1>7, DCallFollows

-----------------------------------------------------------------------------
(* The step that leaves a function *)

LEMMA HandlersCut ==
  ASSUME NEW hs \in Seq(Entry), NEW k \in 0 .. Len(hs), NEW hs2, hs2 = SubSeq(hs, 1, k)
  PROVE  \A h \in Handlers(hs2, Len(hs2) + 1) :
           h \in Handlers(hs, Len(hs) + 1) /\ hs2[h].ci = hs[h].ci /\ hs2[h].oldTop = hs[h].oldTop
<1>1. Len(hs2) = k /\ Len(hs) \in Nat /\ k \in Nat /\ \A g \in 1 .. k : hs2[g] = hs[g]
  OBVIOUS
<1>. SUFFICES ASSUME NEW h \in Handlers(hs2, Len(hs2) + 1)
              PROVE  h \in Handlers(hs, Len(hs) + 1) /\ hs2[h] = hs[h]
  OBVIOUS
<1>2. h \in 1 .. k /\ hs2[h].kind = "pcall"
  BY <1>1 DEF Handlers
<1>. QED
  BY <1>1, <1>2 DEF Handlers

\* The three ways a return goes on in Go.
LEMMA ReturnedCases ==
  ASSUME RunInv, Runner.kind # "pcall", Len(host) > 1
  PROVE  \/ /\ Runner.kind = "execute" /\ Runner.calls > 1
            /\ Returned = [host EXCEPT ![Len(host)].calls = @ - 1]
         \/ Returned = SubSeq(host, 1, Len(host) - 1)
         \/ /\ Returned = SubSeq(host, 1, Len(host) - 2)
            /\ host[Len(host) - 1].kind = "pcall" /\ Weight(host[Len(host)]) = 1
<1>. DEFINE L == Len(host)
<1>1. host \in Seq(Entry) /\ L \in Nat /\ Runner = host[L] /\ Runner \in Entry
  BY RunFacts DEF Runner
<1>2. CASE Runner.kind = "execute" /\ Runner.calls > 1
  BY <1>2 DEF Returned
<1>3. CASE ~(Runner.kind = "execute" /\ Runner.calls > 1)
  <2>. DEFINE below == SubSeq(host, 1, L - 1)
  <2>1. below \in Seq(Entry) /\ Len(below) = L - 1 /\ \A i \in 1 .. L - 1 : below[i] = host[i]
    BY <1>1
  <2>2. below[Len(below)] = host[L - 1]
    BY <1>1, <2>1
  <2>3. Returned = IF host[L - 1].kind = "pcall" THEN SubSeq(below, 1, L - 2) ELSE below
    <3>1. Returned = IF below[Len(below)].kind = "pcall" THEN SubSeq(below, 1, Len(below) - 1) ELSE below
      BY <1>3 DEF Returned
    <3>2. Len(below) - 1 = L - 2
      BY <1>1, <2>1
    <3>. QED
      BY <3>1, <3>2, <2>2
  <2>4. Weight(host[L]) = 1
    <3>1. Runner.kind = "execute" => Runner.calls \in Nat \ {0}
      BY <1>1, EntryFields
    <3>2. \A w \in Nat \ {0} : ~(w > 1) => w = 1
      OBVIOUS
    <3>3. Runner.kind = "execute" => Runner.calls = 1
      BY <3>1, <3>2, <1>3
    <3>4. Runner.kind \in {"execute", "function"}
      BY <1>1, EntryFields
    <3>. QED
      BY <3>3, <3>4, <1>1 DEF Weight
  <2>5. SubSeq(below, 1, L - 2) = SubSeq(host, 1, L - 2)
    <3>1. L - 2 \in Nat
      BY <1>1
    <3>. HIDE DEF below
    <3>. QED
      BY <1>1, <2>1, <3>1, SMTT(30)
  <2>. QED
    BY <2>3, <2>4, <2>5
<1>. QED
  BY <1>2, <1>3

LEMMA HostLeft ==
  ASSUME Shown, RunInv', Runner.kind # "pcall", Len(host) > 1, host' = Returned,
         NEW m, m = Len(ci) - 1
  PROVE  /\ \A i \in 1 .. m : Protects(host', i) = Protects(host, i)
         /\ \A h \in Handlers(host', Len(host') + 1) :
              h \in Handlers(host, Len(host) + 1) /\ host'[h].ci = host[h].ci /\ host'[h].oldTop = host[h].oldTop
<1>. DEFINE L == Len(host)
<1>1. /\ host \in Seq(Entry) /\ L \in Nat /\ L \in 1 .. L /\ Runner = host[L] /\ Runner \in Entry
      /\ Len(ci) \in Nat /\ Len(ci) >= 1 /\ RunsOK(host, ci) /\ PCallsOK(host, ci, Len(stack))
  BY RunFacts DEF Shown, Runner, RunInv, HostInv
<1>2. host' \in Seq(Entry) /\ RunInv /\ m \in Nat
  BY <1>1 DEF Shown, RunInv, HostInv, HostOK
<1>3. CASE Runner.kind = "execute" /\ Runner.calls > 1 /\ Returned = [host EXCEPT ![L].calls = @ - 1]
  <2>. DEFINE w == Runner.calls - 1  r == [Runner EXCEPT !.calls = w]
  <2>1. w \in Nat \ {0}
    <3>1. Runner.calls \in Nat \ {0}
      BY <1>1, <1>3, EntryFields
    <3>. QED
      BY <3>1, <1>3
  <2>2. host' = [host EXCEPT ![L] = r]
    BY <1>1, <1>3
  <2>. HIDE DEF w
  <2>3. r.kind = "execute"
    BY <1>1, <1>3, <2>1, Recounted
  <2>. HIDE DEF r
  <2>4. Len(host') = L /\ host'[L] = r /\ \A g \in 1 .. L : g # L => host'[g] = host[g]
    BY <1>1, <2>2
  <2>5. \A g \in 1 .. L : host'[g].kind = host[g].kind /\ (host[g].kind = "pcall" => host'[g] = host[g])
    BY <1>1, <1>3, <2>3, <2>4
  <2>6. \A g \in 1 .. L : host'[g].kind = host[g].kind /\ (host[g].kind = "pcall" => host'[g].ci = host[g].ci)
    BY <2>5
  <2>7. \A i \in 1 .. m : Protects(host', i) = Protects(host, i)
    BY <1>1, <1>2, <2>4, <2>6, ProtectsRecounted
  <2>8. ASSUME NEW h \in Handlers(host', Len(host') + 1)
        PROVE  h \in Handlers(host, Len(host) + 1) /\ host'[h] = host[h]
    <3>1. h \in 1 .. L /\ host'[h].kind = "pcall"
      BY <1>1, <2>4 DEF Handlers
    <3>. QED
      BY <1>1, <2>5, <3>1 DEF Handlers
  <2>. QED
    BY <2>7, <2>8
<1>4. CASE Returned = SubSeq(host, 1, L - 1)
  <2>. DEFINE k == L - 1
  <2>1. k \in 0 .. Len(host) /\ host' = SubSeq(host, 1, k)
    BY <1>1, <1>4
  <2>2. ASSUME NEW g \in k + 1 .. Len(host) PROVE host[g].kind # "pcall"
    <3>1. g = L
      BY <1>1
    <3>. QED
      BY <1>1, <3>1
  <2>. HIDE DEF k
  <2>3. \A g \in k + 1 .. Len(host) : host[g].kind = "pcall" => host[g].ci >= m
    BY <2>2
  <2>a. host \in Seq(Entry) /\ m \in Nat
    BY <1>1, <1>2
  <2>4. \A i \in 1 .. m : Protects(host', i) = Protects(host, i)
    BY <2>1, <2>3, <2>a, ProtectsCutTo
  <2>5. \A h \in Handlers(host', Len(host') + 1) :
        h \in Handlers(host, Len(host) + 1) /\ host'[h].ci = host[h].ci /\ host'[h].oldTop = host[h].oldTop
    BY <2>1, <2>a, HandlersCut
  <2>. QED
    BY <2>4, <2>5
<1>5. CASE Returned = SubSeq(host, 1, L - 2) /\ host[L - 1].kind = "pcall" /\ Weight(host[L]) = 1
  <2>. DEFINE k == L - 2  h == L - 1
  <2>1. k \in 0 .. Len(host) /\ host' = SubSeq(host, 1, k)
    BY <1>1, <1>5
  <2>2. h \in Handlers(host, Len(host) + 1)
    BY <1>1, <1>5 DEF Handlers
  <2>3. host[h].ci = m
    <3>. HIDE DEF h
    <3>1. h = Len(host) - 1
      BY DEF h
    <3>2. host[h].ci = Len(ci) - 1
      BY <1>1, <1>5, <2>2, <3>1, HostShape
    <3>. QED
      BY <3>2
  <2>4. ASSUME NEW g \in k + 1 .. Len(host), host[g].kind = "pcall" PROVE host[g].ci >= m
    <3>1. g = L \/ g = h
      BY <1>1
    <3>2. g = h
      BY <1>1, <2>4, <3>1
    <3>. QED
      BY <1>2, <2>3, <3>2
  <2>. HIDE DEF k
  <2>a. host \in Seq(Entry) /\ m \in Nat
    BY <1>1, <1>2
  <2>b. \A g \in k + 1 .. Len(host) : host[g].kind = "pcall" => host[g].ci >= m
    BY <2>4
  <2>5. \A i \in 1 .. m : Protects(host', i) = Protects(host, i)
    BY <2>1, <2>a, <2>b, ProtectsCutTo
  <2>6. \A g \in Handlers(host', Len(host') + 1) :
        g \in Handlers(host, Len(host) + 1) /\ host'[g].ci = host[g].ci /\ host'[g].oldTop = host[g].oldTop
    BY <2>1, <2>a, HandlersCut
  <2>. QED
    BY <2>5, <2>6
<1>. QED
  BY <1>2, <1>3, <1>4, <1>5, ReturnedCases


LEMMA LeftFrames ==
  ASSUME Shown, Running', Len(ci) > 1, NEW first \in Nat, NEW t \in Nat,
         CI.base <= first, first <= t, t <= Len(stack) + 1, Poscall(first, t),
         NEW c, c = CI.fn + Delivered(first, t), NEW n, n = Len(ci) - 1
  PROVE  /\ n \in 1 .. Len(ci) /\ Len(ci') = n /\ \A i \in 1 .. n : SameFrame(ci[i], ci'[i])
         /\ End' = c /\ base' = ci[n].base /\ base' <= c /\ c \in Nat \ {0} /\ c <= Len(stack)
         /\ host' = Returned /\ stack' = Results(first, t) /\ ~LostResults
<1>. DEFINE frames == SubSeq(ci, 1, n)
<1>1. /\ c \in Nat \ {0} /\ c <= Len(stack)
      /\ Caller.base \in Nat \ {0} /\ Caller.base <= c
      /\ n \in 1 .. Len(ci) /\ Caller = ci[n]
  BY ResultsFitStack DEF Shown
<1>2. ci \in Seq(Frame) /\ Len(ci) \in Nat /\ n \in Nat /\ n \in 1 .. n
  BY <1>1, RunFacts DEF Shown
<1>3. Len(frames) = n /\ frames \in Seq(Frame) /\ \A i \in 1 .. n : frames[i] = ci[i]
  BY <1>1, <1>2
<1>. HIDE DEF frames
<1>4. /\ stack' = Results(first, t)
      /\ base' = Caller.base
      /\ top' = IF Caller.callee \in LuaFn /\ CI.nres # MULTRET THEN Caller.top ELSE c
      /\ ci' = IF Caller.callee \in LuaFn THEN [frames EXCEPT ![n].live = c - Caller.base]
               ELSE IF CI.nres = MULTRET /\ c >= Caller.top
               THEN [frames EXCEPT ![n].top = c]
               ELSE frames
      /\ host' = Returned /\ ~LostResults
  BY <1>3 DEF Poscall, frames, Running
<1>. DEFINE fr == frames[n]  v == c - Caller.base
<1>5. fr \in Frame /\ fr = Caller /\ v \in Nat /\ Caller.base + v = c
  BY <1>1, <1>2, <1>3, SMTT(20)
<1>6. /\ Len(ci') = n /\ \A i \in 1 .. n : SameFrame(ci[i], ci'[i])
      /\ Caller.callee \in LuaFn => ci'[n].live = v
  <2>1. CASE Caller.callee \in LuaFn
    <3>. DEFINE g == [fr EXCEPT !.live = v]
    <3>1. ci' = [frames EXCEPT ![n] = g]
      BY <1>4, <2>1
    <3>. HIDE DEF fr, v
    <3>2. g.callee = fr.callee /\ g.base = fr.base /\ g.fn = fr.fn /\ g.nres = fr.nres /\ g.live = v
      BY <1>5 DEF Frame
    <3>. HIDE DEF g
    <3>3. Len(ci') = n /\ ci'[n] = g /\ \A i \in 1 .. n : i # n => ci'[i] = ci[i]
      BY <1>2, <1>3, <3>1
    <3>. QED
      BY <1>1, <1>2, <1>5, <3>2, <3>3 DEF SameFrame
  <2>2. CASE Caller.callee \notin LuaFn /\ CI.nres = MULTRET /\ c >= Caller.top
    <3>. DEFINE g == [fr EXCEPT !.top = c]
    <3>1. ci' = [frames EXCEPT ![n] = g]
      BY <1>4, <2>2
    <3>. HIDE DEF fr, v
    <3>2. g.callee = fr.callee /\ g.base = fr.base /\ g.fn = fr.fn /\ g.nres = fr.nres
      BY <1>5 DEF Frame
    <3>. HIDE DEF g
    <3>3. Len(ci') = n /\ ci'[n] = g /\ \A i \in 1 .. n : i # n => ci'[i] = ci[i]
      BY <1>2, <1>3, <3>1
    <3>. QED
      BY <1>1, <1>2, <1>5, <2>2, <3>2, <3>3 DEF SameFrame
  <2>3. CASE Caller.callee \notin LuaFn /\ ~(CI.nres = MULTRET /\ c >= Caller.top)
    <3>1. ci' = frames
      BY <1>4, <2>3
    <3>. QED
      BY <1>3, <2>3, <3>1 DEF SameFrame
  <2>. QED
    BY <2>1, <2>2, <2>3
<1>. HIDE DEF v, fr
<1>7. SameFrame(ci[n], ci'[n]) /\ ci[n] = Caller
  BY <1>1, <1>2, <1>6
<1>8. ci'[Len(ci')].callee = Caller.callee /\ ci'[Len(ci')].base = Caller.base
  BY <1>6, <1>7 DEF SameFrame
<1>9. InLua' <=> Caller.callee \in LuaFn
  BY <1>8 DEF InLua, CI
<1>10. End' = c
  <2>1. CASE Caller.callee \in LuaFn
    <3>1. End' = Caller.base + v
      BY <1>6, <1>8, <1>9, <2>1, EndThen
    <3>. QED
      BY <1>5, <3>1
  <2>2. CASE Caller.callee \notin LuaFn
    BY <1>4, <1>9, <2>2, EndThen
  <2>. QED
    BY <2>1, <2>2
<1>. QED
  BY <1>1, <1>4, <1>6, <1>10

\* r replaces what s held from f on.
HandedOver(s, s2, f, l, r) ==
  /\ r \in Seq(Value) /\ Len(r) = l /\ l \in Nat
  /\ \A p \in 1 .. f - 1 : p <= Len(s) => s2[p] = s[p]
  /\ \A i \in 1 .. l : s2[f - 1 + i] = r[i]

LEMMA ResultsAre ==
  ASSUME Shown, NEW first \in Nat \ {0}, NEW t \in Nat, first <= t, t <= Len(stack) + 1, ~LostResults,
         NEW l, l = Delivered(first, t), NEW f, f = CI.fn, f + l <= Len(stack), NEW full, full = SubSeq(stack, first, t - 1),
         NEW r, r = IF CI.nres = MULTRET THEN full ELSE Separate!Adjust(full, CI.nres)
  PROVE  HandedOver(stack, Results(first, t), f, l, r)
<1>. SUFFICES /\ r \in Seq(Value) /\ Len(r) = l /\ l \in Nat
              /\ \A p \in 1 .. f - 1 : p <= Len(stack) => Results(first, t)[p] = stack[p]
              /\ \A i \in 1 .. l : Results(first, t)[f - 1 + i] = r[i]
  BY DEF HandedOver
<1>. DEFINE n == Len(stack)
<1>1. /\ stack \in Seq(Value) /\ n \in Nat /\ f \in Nat \ {0} /\ CI.nres \in {MULTRET, 0, 1}
  BY RunFacts DEF Shown
<1>2. full \in Seq(Value) /\ Len(full) = t - first /\ \A i \in 1 .. t - first : full[i] = stack[first + i - 1]
  <2>. DEFINE b == t - 1
  <2>1. b \in Nat /\ b <= n /\ first <= b + 1 /\ b - first + 1 = t - first
    BY <1>1
  <2>2. full = SubSeq(stack, first, b)
    OBVIOUS
  <2>. HIDE DEF b
  <2>. QED
    BY <1>1, <2>1, <2>2, Window
<1>3. /\ r \in Seq(Value) /\ Len(r) = l /\ l \in Nat
      /\ \A i \in 1 .. l : r[i] = IF i <= t - first THEN full[i] ELSE Nil
  <2>1. CASE CI.nres = MULTRET
    <3>1. r = full /\ l = t - first
      BY <2>1 DEF Delivered
    <3>. DEFINE w == t - first
    <3>2. w \in Nat /\ Len(full) = w /\ full \in Seq(Value)
      BY <1>2
    <3>3. l = w
      BY <3>1
    <3>. HIDE DEF w
    <3>4. \A i \in 1 .. l : i <= w /\ r[i] = full[i]
      BY <3>1, <3>2, <3>3
    <3>5. r \in Seq(Value) /\ Len(r) = l /\ l \in Nat
      BY <3>1, <3>2, <3>3
    <3>. QED
      BY <3>4, <3>5 DEF w
  <2>2. CASE CI.nres # MULTRET
    <3>. DEFINE k == CI.nres
    <3>1. r = Separate!Adjust(full, k) /\ l = k /\ k \in Nat
      BY <1>1, <2>2 DEF Delivered
    <3>. HIDE DEF k
    <3>. DEFINE a == Separate!Adjust(full, k)
    <3>2. a \in Seq(Value) /\ Len(a) = k /\ \A i \in 1 .. k : a[i] = IF i <= Len(full) THEN full[i] ELSE Nil
      BY <1>2, <3>1, AdjustIs
    <3>3. r = a
      BY <3>1
    <3>. HIDE DEF a
    <3>4. \A i \in 1 .. k : a[i] = IF i <= t - first THEN full[i] ELSE Nil
      BY <1>2, <3>2
    <3>. QED
      BY <3>1, <3>2, <3>3, <3>4
  <2>. QED
    BY <2>1, <2>2
<1>4. CASE CI.stale
  <2>1. l = 0 /\ Results(first, t) = stack
    BY <1>4 DEF LostResults, Results, Delivered, MULTRET
  <2>. QED
    BY <1>1, <1>3, <2>1
<1>5. CASE ~CI.stale
  <2>1. \A p \in 1 .. n : Results(first, t)[p]
            = IF p < f \/ p >= f + l THEN stack[p]
              ELSE IF first + p - f < t THEN stack[first + p - f] ELSE Nil
    BY <1>5 DEF Results
  <2>2. \A p \in 1 .. f - 1 : p <= n => p \in 1 .. n /\ p < f
    BY <1>1
  <2>3. ASSUME NEW i \in 1 .. l PROVE Results(first, t)[f - 1 + i] = r[i]
    <3>. DEFINE p == f - 1 + i
    <3>1. /\ p \in 1 .. n /\ ~(p < f \/ p >= f + l) /\ first + p - f = first + i - 1
          /\ (first + i - 1 < t <=> i <= t - first) /\ (i <= t - first => i \in 1 .. t - first)
      <4>1. n \in Nat /\ f \in Nat /\ f > 0 /\ l \in Nat /\ i \in Nat /\ i > 0 /\ i <= l /\ f + l <= n
        BY <1>1, <1>3
      <4>. HIDE DEF n
      <4>2. first + p - f = first + i - 1
        BY <4>1
      <4>3. p \in 1 .. n /\ ~(p < f \/ p >= f + l)
        BY <4>1, SMTT(20)
      <4>4. first + i - 1 < t <=> i <= t - first
        BY <4>1
      <4>5. i <= t - first => i \in 1 .. t - first
        BY <4>1
      <4>. QED
        BY <4>2, <4>3, <4>4, <4>5
    <3>. HIDE DEF p
    <3>2. Results(first, t)[p] = IF first + i - 1 < t THEN stack[first + i - 1] ELSE Nil
      BY <2>1, <3>1
    <3>3. r[i] = IF i <= t - first THEN stack[first + i - 1] ELSE Nil
      BY <1>2, <1>3, <3>1
    <3>. QED
      BY <3>1, <3>2, <3>3 DEF p
  <2>. QED
    BY <1>3, <2>1, <2>2, <2>3
<1>. QED
  BY <1>4, <1>5


\* The topmost k registers of the running function.
LEMMA LastRegisters ==
  ASSUME Shown, NEW k \in 0 .. End - base, NEW first, first = End - k
  PROVE  /\ Len(Separate!Regs) = End - base
         /\ SubSeq(Separate!Regs, Len(Separate!Regs) - k + 1, Len(Separate!Regs)) = SubSeq(stack, first, End - 1)
<1>1. /\ base \in Nat \ {0} /\ End \in Nat \ {0} /\ base <= End /\ End - 1 <= Len(stack)
      /\ Separate!Regs = RunWindow /\ Len(RunWindow) = End - base /\ stack \in Seq(Value)
  BY Seen, Registered, RunFacts DEF Shown
<1>. DEFINE b == End - 1  w == End - base  i == w - k + 1
<1>2. /\ b \in Nat /\ b <= Len(stack) /\ base <= b + 1 /\ i \in Nat \ {0} /\ w \in Nat /\ i <= w + 1
      /\ w <= b - base + 1 /\ base + i - 1 = first /\ base + w - 1 = b
  <2>1. w \in Nat /\ k \in Nat /\ k <= w
    BY <1>1
  <2>2. i \in Nat \ {0} /\ i <= w + 1
    <3>. HIDE DEF w
    <3>. QED
      BY <2>1
  <2>3. base + i - 1 = first
    BY <1>1
  <2>. QED
    BY <1>1, <2>1, <2>2, <2>3
<1>3. RunWindow = SubSeq(stack, base, b)
  BY DEF RunWindow
<1>. HIDE DEF b, w, i
<1>4. SubSeq(SubSeq(stack, base, b), i, w) = SubSeq(stack, base + i - 1, base + w - 1)
  BY <1>1, <1>2, WindowIn
<1>5. SubSeq(RunWindow, i, w) = SubSeq(stack, first, b)
  BY <1>2, <1>3, <1>4
<1>. QED
  BY <1>1, <1>5 DEF b, w, i

LEMMA ReturnFollows ==
  ASSUME Shown, RunInv', Running', Runner.kind # "pcall", Len(host) > 1, Len(ci) > 1,
         NEW k \in 0 .. End - base, Poscall(End - k, End)
  PROVE  Follows
<1>. DEFINE first == End - k  t == End  l == Delivered(first, t)  f == CI.fn  c == f + l  n == Len(ci)  m == n - 1
            full == SubSeq(stack, first, t - 1)
            r == IF CI.nres = MULTRET THEN full ELSE Separate!Adjust(full, CI.nres)
<1>1. /\ n \in Nat /\ n > 1 /\ n \in 1 .. n /\ ci[n] = CI /\ base = CI.base
      /\ base \in Nat \ {0} /\ t \in Nat /\ base <= t /\ t - 1 <= Len(stack) /\ Len(stack) \in Nat
      /\ Len(Activations) = n
      /\ Activations[n] = Rec(CI.callee, CI.nres, Protects(host, n), RunWindow, Extras(CI, stack))
  BY Seen DEF Shown
<1>2. /\ first \in Nat \ {0} /\ CI.base <= first /\ first <= t /\ t <= Len(stack) + 1
  BY <1>1
<1>3. Poscall(first, t)
  OBVIOUS
<1>4. stack \in Seq(Value) /\ stack' \in Seq(Value) /\ f \in Nat \ {0} /\ ci \in Seq(Frame)
  BY RunFacts DEF Shown, RunInv, StackOK
<1>. HIDE DEF first, t
<1>5. /\ m \in 1 .. n /\ Len(ci') = m /\ \A i \in 1 .. m : SameFrame(ci[i], ci'[i])
      /\ End' = c /\ base' = ci[m].base /\ base' <= c /\ c \in Nat \ {0} /\ c <= Len(stack)
      /\ host' = Returned /\ stack' = Results(first, t) /\ ~LostResults
  <2>1. c = f + Delivered(first, t) /\ m = Len(ci) - 1
    OBVIOUS
  <2>. HIDE DEF l, c, m
  <2>2. c = CI.fn + Delivered(first, t)
    BY <2>1
  <2>. HIDE DEF f
  <2>. QED
    BY <1>1, <1>2, <1>3, <2>1, <2>2, LeftFrames
<1>6. /\ r \in Seq(Value) /\ Len(r) = l /\ l \in Nat
      /\ \A p \in 1 .. f - 1 : p <= Len(stack) => stack'[p] = stack[p]
      /\ \A i \in 1 .. l : stack'[f - 1 + i] = r[i]
  <2>1. l = Delivered(first, t) /\ f = CI.fn /\ full = SubSeq(stack, first, t - 1) /\ f + l <= Len(stack)
        /\ r = IF CI.nres = MULTRET THEN full ELSE Separate!Adjust(full, CI.nres)
    BY <1>5
  <2>2. stack' = Results(first, t) /\ ~LostResults /\ first \in Nat \ {0} /\ t \in Nat /\ first <= t /\ t <= Len(stack) + 1
    BY <1>1, <1>2, <1>5
  <2>. HIDE DEF l, f, full, r, c, n, m
  <2>3. HandedOver(stack, Results(first, t), f, l, r)
    BY <2>1, <2>2, ResultsAre
  <2>. QED
    BY <2>2, <2>3 DEF HandedOver
<1>. HIDE DEF l, r, full
<1>7. /\ \A i \in 1 .. m : Protects(host', i) = Protects(host, i)
      /\ \A h \in Handlers(host', Len(host') + 1) :
           h \in Handlers(host, Len(host) + 1) /\ host'[h].ci = host[h].ci /\ host'[h].oldTop = host[h].oldTop
  <2>1. m = Len(ci) - 1
    OBVIOUS
  <2>. HIDE DEF m
  <2>. QED
    BY <1>5, <2>1, HostLeft
<1>8. To(ci, m, End) = f /\ m \in Nat \ {0} /\ m < n /\ m + 1 = n /\ m \in 1 .. m
  <2>1. m \in Nat \ {0} /\ m < n /\ m + 1 = n /\ m \in 1 .. m
    BY <1>1, <1>5, SMTT(20)
  <2>. QED
    BY <1>1, <2>1 DEF To
<1>9. ci[m].base \in Nat \ {0} /\ ci[m].base <= f
  <2>1. FramesOK(ci, base, Len(stack))
    BY DEF Shown, RunInv
  <2>2. ci[m].base <= ci[m + 1].fn
    <3>1. m \in 1 .. Len(ci) - 1
      BY <1>8
    <3>. HIDE DEF m
    <3>. QED
      BY <2>1, <3>1 DEF FramesOK
  <2>. QED
    BY <1>1, <1>4, <1>5, <1>8, <2>2, FrameFields
<1>10. SameUpTo(m)
  <2>1. \A p \in 1 .. ci[m].base - 1 : p \in 1 .. f - 1 /\ p <= Len(stack)
    <3>. DEFINE x == ci[m].base
    <3>1. x \in Nat /\ x <= f /\ f \in Nat /\ f <= Len(stack)
      BY <1>4, <1>5, <1>6, <1>9, SMTT(20)
    <3>. HIDE DEF x, f
    <3>2. \A p \in 1 .. x - 1 : p \in 1 .. f - 1 /\ p <= Len(stack)
      BY <1>1, <3>1
    <3>. QED
      BY <3>2 DEF x
  <2>2. \A p \in 1 .. ci[m].base - 1 : stack'[p] = stack[p]
    BY <1>6, <2>1
  <2>. HIDE DEF m
  <2>. QED
    BY <1>5, <1>7, <1>8, <2>2 DEF SameUpTo, SameBelow
<1>11. Activations' = Separate!WithRegs(SubSeq(Activations, 1, m), SubSeq(stack', ci[m].base, c - 1))
  <2>1. To(ci', m, End') = c
    BY <1>5, <1>8 DEF To
  <2>2. LastRegs(Activations, Len(ci), Activations', Len(ci'), m, SubSeq(stack', ci[m].base, To(ci', m, End') - 1))
    BY <1>10, SeenBuilt
  <2>. HIDE DEF m, c
  <2>. QED
    BY <1>5, <2>1, <2>2 DEF LastRegs
<1>12. SubSeq(stack', ci[m].base, c - 1) = SubSeq(stack, ci[m].base, f - 1) \o r
  <2>. DEFINE a == ci[m].base  b == f - 1  z == c - 1
  <2>1. /\ a \in Nat \ {0} /\ b \in Nat /\ b <= Len(stack) /\ a <= b + 1 /\ z = b + l /\ z <= Len(stack)
    <3>0. a \in Nat \ {0} /\ a <= f
      BY <1>9
    <3>1. f \in Nat /\ f > 0 /\ l \in Nat /\ c = f + l /\ c <= Len(stack) /\ a \in Nat /\ a > 0 /\ a <= f /\ Len(stack) \in Nat
      <4>1. f \in Nat \ {0} /\ l \in Nat /\ c <= Len(stack) /\ Len(stack) \in Nat
        BY <1>1, <1>4, <1>5, <1>6
      <4>. HIDE DEF a, f
      <4>. QED
        BY <3>0, <4>1
    <3>. HIDE DEF a, f, c
    <3>. QED
      BY <3>1 DEF b, z
  <2>2. \A p \in a .. b : p \in 1 .. f - 1 /\ p <= Len(stack)
    BY <1>1, <2>1, SMTT(20)
  <2>3. \A p \in a .. b : stack'[p] = stack[p]
    BY <1>6, <2>2
  <2>4. \A i \in 1 .. l : stack'[b + i] = r[i]
    BY <1>6
  <2>5. Len(stack') = Len(stack)
    <3>. HIDE DEF f
    <3>1. first \in Nat \ {0} /\ t \in Nat /\ t <= Len(stack) + 1
      BY <1>1, <1>2
    <3>. QED
      BY <1>5, <3>1, ResultsTyped DEF Shown
  <2>. HIDE DEF a, b, z
  <2>6. z <= Len(stack')
    BY <2>1, <2>5
  <2>7. Joined(SubSeq(stack', a, z), SubSeq(stack, a, b), r)
    BY <1>4, <1>6, <2>1, <2>3, <2>4, <2>6, WindowGrows
  <2>. QED
    BY <2>7 DEF Joined, a, b, z
<1>13. Activations[m].regs = SubSeq(stack, ci[m].base, f - 1)
  <2>. HIDE DEF m
  <2>1. Activations[m].regs = SubSeq(stack, ci[m].base, To(ci, m, End) - 1)
    BY <1>5, ActivationAt
  <2>. QED
    BY <1>8, <2>1
<1>14. Activations[n].nres = CI.nres
  BY <1>1, RecIs, SMTT(20)
<1>15. /\ Len(Separate!Regs) = End - base
       /\ SubSeq(Separate!Regs, Len(Separate!Regs) - k + 1, Len(Separate!Regs)) = full
  <2>1. first = End - k /\ full = SubSeq(stack, first, End - 1)
    BY DEF first, full, t
  <2>. HIDE DEF full
  <2>. QED
    BY <2>1, LastRegisters
<1>16. Separate!Return
  <2>. DEFINE callers == SubSeq(Activations, 1, m)
  <2>1. Len(callers) = m /\ callers[m] = Activations[m]
    <3>1. Activations \in Seq(ActSet(ci, stack, host, End))
      <4>1. Acts(ci, stack, host, End) \in Seq(ActSet(ci, stack, host, End))
        BY <1>1, ActsAre
      <4>. QED
        BY <4>1, ActivationsAre
    <3>. DEFINE A == Activations  S == ActSet(ci, stack, host, End)
    <3>2. A \in Seq(S) /\ Len(A) = n
      BY <1>1, <3>1
    <3>. HIDE DEF A, S, m, n
    <3>3. m \in 1 .. m /\ m \in 1 .. n /\ n \in Nat
      BY <1>1, <1>5, <1>8
    <3>4. Len(SubSeq(A, 1, m)) = m /\ SubSeq(A, 1, m)[m] = A[m]
      BY <3>2, <3>3
    <3>. QED
      BY <3>4 DEF A
  <2>2. callers[Len(callers)].regs = SubSeq(stack, ci[m].base, f - 1)
    BY <1>13, <2>1
  <2>3. Activations' = Separate!WithRegs(callers, callers[Len(callers)].regs \o r)
    BY <1>11, <1>12, <2>2
  <2>4. k \in 0 .. Len(Separate!Regs)
    BY <1>15
  <2>5. r = IF Activations[Len(Activations)].nres = MULTRET THEN full
            ELSE Separate!Adjust(full, Activations[Len(Activations)].nres)
    BY <1>1, <1>14 DEF r
  <2>6. Len(Activations) > 1 /\ m = Len(Activations) - 1 /\ Separate!MULTRET = MULTRET
    BY <1>1 DEF Separate!MULTRET, MULTRET
  <2>7. callers = SubSeq(Activations, 1, Len(Activations) - 1)
    BY <2>6
  <2>. HIDE DEF callers, m
  <2>. QED
    BY <1>15, <2>3, <2>4, <2>5, <2>6, <2>7 DEF Separate!Return
<1>17. CallsAtTop(host', ci')
  <2>. SUFFICES ASSUME NEW h \in Handlers(host', Len(host') + 1), host'[h].ci < m
                PROVE  ci'[host'[h].ci + 1].fn = host'[h].oldTop
    BY <1>5 DEF CallsAtTop
  <2>. DEFINE i == host[h].ci
  <2>1. h \in Handlers(host, Len(host) + 1) /\ host'[h].ci = i /\ host'[h].oldTop = host[h].oldTop
    BY <1>7
  <2>2. i \in 1 .. n
    BY <2>1 DEF Shown, RunInv, HostInv, PCallsOK
  <2>3. i < n /\ i + 1 \in 1 .. m
    <3>1. i \in Nat \ {0} /\ i < m
      BY <2>1, <2>2
    <3>. HIDE DEF i, m
    <3>. QED
      BY <1>1, <1>8, <3>1
  <2>4. ci[i + 1].fn = host[h].oldTop
    BY <2>1, <2>3 DEF Shown, CallsAtTop
  <2>. QED
    BY <1>5, <2>1, <2>3, <2>4 DEF SameFrame
<1>18. ~InLua' => base' <= top'
  BY <1>5, EndThen
<1>. QED
  BY <1>16, <1>17, <1>18 DEF Follows, Separate!Next

LEMMA OpReturnFollows ==
  ASSUME Shown, RunInv', Running', OpReturn
  PROVE  Follows
<1>1. PICK k \in 0 .. CI.live : Poscall(LiveTop - k, LiveTop)
  BY DEF OpReturn
<1>2. InLua /\ End = LiveTop /\ base = CI.base /\ CI.base \in Nat /\ CI.live \in Nat
  BY RunFacts DEF OpReturn, End, Shown
<1>3. Runner.kind # "pcall" /\ Len(host) > 1 /\ Len(ci) > 1
  BY <1>2, RunnerOfFrame DEF Shown
<1>4. k \in 0 .. End - base
  BY <1>2 DEF LiveTop
<1>. QED
  BY <1>1, <1>2, <1>3, <1>4, ReturnFollows

LEMMA ReturnFromGoFollows ==
  ASSUME Shown, RunInv', Running', ReturnFromGo
  PROVE  Follows
<1>1. PICK k \in 0 .. top - base : Poscall(top - k, top)
  BY DEF ReturnFromGo
<1>2. ~InLua /\ Runner.kind # "pcall" /\ Len(host) > 1 /\ Len(ci) > 1
  BY RunnerOfFrame DEF Shown, ReturnFromGo, InGo
<1>3. End = top
  BY <1>2 DEF End
<1>. QED
  BY <1>1, <1>2, <1>3, ReturnFollows

-----------------------------------------------------------------------------
(* All steps, and the first state *)

LEMMA StepFollows ==
  ASSUME Shown, RunInv', Running', Running, Next
  PROVE  Follows
<1>1. CASE LoadReg
  BY <1>1, LoadRegFollows
<1>2. CASE OpCall
  BY <1>2, OpCallFollows
<1>3. CASE OpTailCall
  BY <1>3, OpTailCallFollows
<1>4. CASE OpReturn
  BY <1>4, OpReturnFollows
<1>5. CASE OpVararg
  BY <1>5, OpVarargFollows
<1>6. CASE PushValue
  BY <1>6, PushValueFollows
<1>7. CASE Load
  BY <1>7, LoadFollows
<1>8. CASE ApiCall
  BY <1>8, ApiCallFollows
<1>9. CASE PCall
  BY <1>9, PCallFollows
<1>10. CASE ProtectedCall
  BY <1>10, ProtectedCallFollows
<1>11. CASE ReturnFromGo
  BY <1>11, ReturnFromGoFollows
\* The run-time panic of Go and the lost results are out of the refinement.
<1>12. CASE CallNoFunction
  BY <1>12 DEF CallNoFunction, Running
<1>13. CASE Stopped
  BY <1>13 DEF Stopped, Running
<1>. QED
  BY <1>1, <1>2, <1>3, <1>4, <1>5, <1>6, <1>7, <1>8, <1>9, <1>10, <1>11, <1>12, <1>13 DEF Next

LEMMA StepSeparate ==
  ASSUME IInv, IInv', WindowsInv, [Next]_vars
  PROVE  WindowsInv' /\ (outcome' = "running" => Separate!Next \/ UNCHANGED Activations)
<1>1. CASE UNCHANGED vars
  <2>1. /\ ci' = ci /\ stack' = stack /\ host' = host /\ top' = top /\ base' = base /\ outcome' = outcome
    BY <1>1 DEF vars
  <2>2. WindowsInv'
    <3>1. (Running' <=> Running) /\ (InLua' <=> InLua)
      BY <2>1 DEF Running, InLua, CI
    <3>. QED
      BY <2>1, <3>1 DEF WindowsInv
  <2>3. Activations' = Activations
    <3>1. End' = End
      BY <2>1 DEF End, InLua, LiveTop, CI
    <3>. QED
      BY <2>1, <3>1, ActivationsAre, ActivationsAreThen
  <2>. QED
    BY <2>2, <2>3
<1>2. ASSUME Next, Running' PROVE Follows
  <2>1. Running
    BY <1>2 DEF Next, Stopped, vars, Running
  <2>2. Shown
    BY <2>1 DEF Shown, IInv, WindowsInv
  <2>3. RunInv'
    BY <1>2 DEF IInv
  <2>. QED
    BY <1>2, <2>1, <2>2, <2>3, StepFollows
<1>3. CASE Next
  <2>1. Running' <=> outcome' = "running"
    BY DEF Running
  <2>2. Running' => WindowsInv' /\ (Separate!Next \/ UNCHANGED Activations)
    BY <1>2, <1>3 DEF Follows, WindowsInv
  <2>3. ~Running' => WindowsInv'
    BY DEF WindowsInv
  <2>. QED
    BY <2>1, <2>2, <2>3
<1>. QED
  BY <1>1, <1>3

LEMMA InitWindows == Init => WindowsInv
<1>. SUFFICES ASSUME Init PROVE WindowsInv
  OBVIOUS
<1>1. host = <<GoFunction(FALSE)>> /\ top = 2 /\ base = 2
  BY DEF Init
<1>2. Len(host) = 1 /\ host[1].kind = "function"
  BY <1>1 DEF GoFunction
<1>3. Handlers(host, Len(host) + 1) = {}
  BY <1>2 DEF Handlers
<1>4. CallsAtTop(host, ci)
  BY <1>3 DEF CallsAtTop
<1>5. base <= top
  BY <1>1
<1>. QED
  BY <1>4, <1>5 DEF WindowsInv

LEMMA InitSeparate == Init => Separate!Init
<1>. SUFFICES ASSUME Init PROVE Separate!Init
  OBVIOUS
<1>. DEFINE fr == [callee |-> Nil, fn |-> 1, stale |-> FALSE, base |-> 2,
                   top |-> 2 + LUA_MINSTACK, nres |-> 0, live |-> 0]
            empty == Rec(Nil, 0, FALSE, <<>>, <<>>)
<1>1. host = <<GoFunction(FALSE)>> /\ top = 2 /\ base = 2 /\ ci = <<fr>>
  BY DEF Init
<1>2. fr.callee = Nil /\ fr.nres = 0 /\ fr.base = 2
  OBVIOUS
<1>. HIDE DEF fr
<1>3. Len(ci) = 1 /\ ci[1] = fr
  BY <1>1
<1>4. Nil \notin LuaFn /\ Nil \notin VarArg
  BY FunctionAssumption DEF Fn
<1>5. End = 2
  BY <1>1, <1>2, <1>3, <1>4 DEF End, InLua, CI
<1>6. Protects(host, 1) = FALSE
  <2>1. DOMAIN host = {1} /\ host[1].kind = "function"
    BY <1>1 DEF GoFunction
  <2>2. ~Protects(host, 1)
    BY <2>1 DEF Protects
  <2>. QED
    BY <2>2, ProtectsBoolean
<1>7. stack \in Seq(Value) /\ 1 <= Len(stack)
  <2>1. IInv /\ Running
    BY InitInv DEF Init, Running
  <2>2. RunInv
    BY <2>1 DEF IInv
  <2>. QED
    BY <2>2, RunFacts
<1>8. SubSeq(stack, 2, 1) = <<>>
  <2>1. SubSeq(stack, 2, 1) \in Seq(Value) /\ Len(SubSeq(stack, 2, 1)) = 1 - 2 + 1
    BY <1>7, Window
  <2>. QED
    BY <2>1
<1>9. Act(ci[1], stack, To(ci, 1, End), Protects(host, 1)) = empty
  <2>1. To(ci, 1, End) - 1 = 1
    BY <1>3, <1>5 DEF To
  <2>2. Extras(ci[1], stack) = <<>>
    BY <1>2, <1>3, <1>4 DEF Extras
  <2>. QED
    BY <1>2, <1>3, <1>6, <1>8, <2>1, <2>2 DEF Act
<1>. DEFINE X == Acts(ci, stack, host, End)
<1>10. Len(X) = 1 /\ X[1] = empty /\ X \in Seq(ActSet(ci, stack, host, End))
  <2>1. 1 \in 1 .. Len(ci) /\ Len(ci) \in Nat
    BY <1>3
  <2>2. X[1] = Act(ci[1], stack, To(ci, 1, End), Protects(host, 1))
    BY <2>1, ActAt
  <2>. QED
    BY <1>3, <1>9, <2>1, <2>2, ActsAre
<1>. HIDE DEF X, empty
<1>11. X = <<empty>>
  BY <1>10
<1>12. Activations = <<empty>>
  BY <1>11, ActivationsAre DEF X
<1>. QED
  BY <1>12 DEF Separate!Init, empty, Rec

\* A dPCall that runs a function called it where its error will go, and the
\* registers of a Go function are below L.top: as long as nothing is lost,
\* the windows of ldo.go meet but never cross.
THEOREM WindowsMeet == Spec => []WindowsInv
<1>1. IInv /\ IInv' /\ WindowsInv /\ [Next]_vars => WindowsInv'
  BY StepSeparate
<1>. QED
  BY <1>1, InitWindows, Invariant, PTL DEF Spec

\* Sharing one stack is invisible (StepsAreSeparate): whatever the functions,
\* the limits and the length of the run, every step of ldo.go, lvm.go and
\* lapi.go that loses nothing is a step of activations with registers of their
\* own, however often the stack was reallocated and whatever was thrown.
THEOREM StacksAreSeparate == Spec => StepsAreSeparate
<1>1. IInv /\ IInv' /\ WindowsInv /\ [Next]_vars
        => [outcome' = "running" => Separate!Next \/ UNCHANGED Activations]_vars
  BY StepSeparate
<1>. QED
  BY <1>1, InitSeparate, Invariant, WindowsMeet, PTL DEF Spec, StepsAreSeparate
=============================================================================
