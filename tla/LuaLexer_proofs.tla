--------------------------- MODULE LuaLexer_proofs ---------------------------
(***************************************************************************)
(* Proofs about LuaLexer and LuaStream: the bytes of any chunk, read in    *)
(* pieces of any size through buffers of any size, reach llex in their     *)
(* order, nothing is asked for past their end, and llex ends.              *)
(*                                                                         *)
(* From the file to the token: what the file still holds is a rest of the  *)
(* text (FileAt), with it what the reader still delivers (RestAt), with    *)
(* that what ZIO still hands out (StreamAt), and LexState's character is   *)
(* the one before it (TextAt).  Each operation takes a prefix of the rest. *)
(***************************************************************************)
EXTENDS LuaLexer, SequenceTheorems, WellFoundedInduction, TLAPS

-----------------------------------------------------------------------------
(* Bytes and records *)

Char == Characters

LEMMA CharsAre == NUL \in Char /\ "\n" \in Char /\ EOZ \notin Char
BY DEF Char, Characters, Newlines, Alnum, Digits, Initials, Letters, Quotes, NUL, SIGNATURE, EOZ, Backslash, Space

Stream == [disk : Seq(Char), step : Nat, unread : Seq(Char), eof : BOOLEAN,
           reader : {"getF", "getS"}, extraLine : BOOLEAN, n : Int, p : Nat, buff : Seq(Char),
           c : Char \cup {EOZ}, block : Seq(Char), taken : Nat]
-----------------------------------------------------------------------------
(* Windows of a text *)

\* s is what the text w holds from its k-th position on.
Window(s, w, k) ==
  /\ s \in Seq(Char)
  /\ k + Len(s) <= Len(w)
  /\ \A i \in 1 .. Len(s) : s[i] = w[k + i]

LEMMA SliceOf ==
  ASSUME NEW s \in Seq(Char), NEW a \in Nat \ {0}, NEW b \in Nat, a <= b + 1, b <= Len(s)
  PROVE  /\ SubSeq(s, a, b) \in Seq(Char)
         /\ Len(SubSeq(s, a, b)) = b - a + 1
         /\ \A i \in 1 .. b - a + 1 : SubSeq(s, a, b)[i] = s[a + i - 1]
<1>1. Len(s) \in Nat /\ \A i \in a .. b : i \in 1 .. Len(s)
  OBVIOUS
<1>2. \A i \in 1 .. Len(s) : s[i] \in Char
  OBVIOUS
<1>3. \A i \in a .. b : s[i] \in Char
  BY <1>1, <1>2
<1>4. b \in a - 1 .. Len(s)
  OBVIOUS
<1>5. Len(SubSeq(s, a, b)) = b - a + 1
  BY <1>1
<1>6. \A i \in 1 .. b - a + 1 : SubSeq(s, a, b)[i] = s[a + i - 1]
  BY <1>1
<1>. QED
  BY <1>3, <1>4, <1>5, <1>6, SubSeqProperties

\* How many elements of s an m of them is.
Some(s, m) == IF m < Len(s) THEN m ELSE Len(s)

TakenApart(s, m) ==
  Len(Take(s, m)) = Some(s, m) /\ Len(Drop(s, m)) = Len(s) - Some(s, m)

LEMMA WindowTake ==
  ASSUME NEW w \in Seq(Char), NEW k \in Nat, NEW s, Window(s, w, k), NEW m \in Nat
  PROVE  /\ Some(s, m) \in Nat /\ Some(s, m) <= Len(s) /\ Some(s, m) <= m /\ Len(s) \in Nat
         /\ Window(Take(s, m), w, k) /\ Window(Drop(s, m), w, k + Some(s, m))
         /\ TakenApart(s, m)
<1>. DEFINE n == Some(s, m)
<1>0. n = IF m < Len(s) THEN m ELSE Len(s)
  BY DEF Some
<1>. HIDE DEF n
<1>1. s \in Seq(Char) /\ Len(s) \in Nat /\ Len(w) \in Nat /\ n \in Nat /\ n <= Len(s) /\ n <= m
  BY <1>0 DEF Window
<1>2. Take(s, m) = SubSeq(s, 1, n)
  BY <1>0 DEF Take
<1>3. /\ SubSeq(s, 1, n) \in Seq(Char) /\ Len(SubSeq(s, 1, n)) = n
      /\ \A i \in 1 .. n : SubSeq(s, 1, n)[i] = s[i]
  BY <1>1, SliceOf
<1>4. Window(Take(s, m), w, k)
  <2>. DEFINE u == Take(s, m)
  <2>1. u \in Seq(Char) /\ Len(u) = n /\ \A i \in 1 .. n : u[i] = s[i]
    BY <1>2, <1>3
  <2>. HIDE DEF u
  <2>2. \A i \in 1 .. n : i \in 1 .. Len(s)
    BY <1>1
  <2>3. k + Len(s) <= Len(w) /\ \A i \in 1 .. Len(s) : s[i] = w[k + i]
    BY DEF Window
  <2>4. k + Len(u) <= Len(w)
    BY <1>1, <2>1, <2>3
  <2>5. \A i \in 1 .. Len(u) : u[i] = w[k + i]
    BY <2>1, <2>2, <2>3
  <2>. QED
    BY <2>1, <2>4, <2>5 DEF Window, u
<1>. DEFINE d == Drop(s, m)
<1>5. d \in Seq(Char) /\ Len(d) = Len(s) - n /\ \A i \in 1 .. Len(s) - n : d[i] = s[n + i]
  <2>1. CASE m < Len(s)
    <3>1. n = m /\ d = SubSeq(s, m + 1, Len(s))
      BY <1>0, <2>1 DEF Drop
    <3>2. /\ SubSeq(s, m + 1, Len(s)) \in Seq(Char) /\ Len(SubSeq(s, m + 1, Len(s))) = Len(s) - m
          /\ \A i \in 1 .. Len(s) - m : SubSeq(s, m + 1, Len(s))[i] = s[m + i]
      BY <1>1, <2>1, SliceOf
    <3>. QED
      BY <3>1, <3>2
  <2>2. CASE ~(m < Len(s))
    <3>1. n = Len(s) /\ d = SubSeq(s, m + 1, Len(s))
      BY <1>0, <2>2 DEF Drop
    <3>2. SubSeq(s, m + 1, Len(s)) = <<>>
      BY <1>1, <2>2
    <3>4. d = <<>>
      BY <3>1, <3>2
    <3>. HIDE DEF d
    <3>3. d \in Seq(Char) /\ Len(d) = 0
      BY <3>4
    <3>. QED
      BY <1>1, <3>1, <3>3
  <2>. QED
    BY <2>1, <2>2
<1>. HIDE DEF d
<1>6. k + Len(s) <= Len(w) /\ \A i \in 1 .. Len(s) : s[i] = w[k + i]
  BY DEF Window
<1>7. k + n + Len(d) <= Len(w)
  BY <1>1, <1>5, <1>6
<1>8. ASSUME NEW i \in 1 .. Len(d) PROVE d[i] = w[k + n + i]
  <2>1. n + i \in 1 .. Len(s) /\ k + (n + i) = k + n + i /\ i \in 1 .. Len(s) - n
    BY <1>1, <1>5
  <2>2. s[n + i] = w[k + (n + i)]
    BY <1>6, <2>1
  <2>. QED
    BY <1>5, <2>1, <2>2
<1>9. Window(d, w, k + n)
  BY <1>5, <1>7, <1>8 DEF Window
<1>10. Len(Take(s, m)) = n
  BY <1>2, <1>3
<1>. QED
  BY <1>1, <1>4, <1>5, <1>9, <1>10 DEF n, d, TakenApart

LEMMA TakeTypes ==
  ASSUME NEW w \in Seq(Char), NEW k \in Nat, NEW s, Window(s, w, k), NEW m \in Nat
  PROVE  /\ Some(s, m) \in Nat /\ Len(s) \in Nat /\ Len(Take(s, m)) \in Nat /\ Len(Drop(s, m)) \in Nat
         /\ Take(s, m) \in Seq(Char) /\ Drop(s, m) \in Seq(Char)
         /\ (s # <<>> /\ m > 0 => Some(s, m) > 0)
<1>1. Window(Take(s, m), w, k) /\ Window(Drop(s, m), w, k + Some(s, m)) /\ Some(s, m) \in Nat
  BY WindowTake
<1>2. s \in Seq(Char) /\ (s # <<>> => Len(s) > 0)
  BY EmptySeq DEF Window
<1>3. s # <<>> /\ m > 0 => Some(s, m) > 0
  BY <1>2 DEF Some
<1>4. Take(s, m) \in Seq(Char) /\ Drop(s, m) \in Seq(Char)
  BY <1>1 DEF Window
<1>. QED
  BY <1>1, <1>2, <1>3, <1>4

LEMMA WindowJoin ==
  ASSUME NEW w \in Seq(Char), NEW k \in Nat, NEW a, NEW b, Window(a, w, k), Window(b, w, k + Len(a))
  PROVE  Window(a \o b, w, k) /\ Len(a \o b) = Len(a) + Len(b)
<1>1. a \in Seq(Char) /\ b \in Seq(Char) /\ a \o b \in Seq(Char) /\ Len(a) \in Nat /\ Len(b) \in Nat
      /\ Len(a \o b) = Len(a) + Len(b)
  BY DEF Window
<1>2. \A i \in 1 .. Len(a) + Len(b) : (a \o b)[i] = IF i <= Len(a) THEN a[i] ELSE b[i - Len(a)]
  BY <1>1
<1>3. ASSUME NEW i \in 1 .. Len(a \o b) PROVE (a \o b)[i] = w[k + i]
  <2>1. CASE i <= Len(a)
    BY <1>1, <1>2, <2>1 DEF Window
  <2>2. CASE ~(i <= Len(a))
    <3>1. i - Len(a) \in 1 .. Len(b) /\ k + Len(a) + (i - Len(a)) = k + i
      BY <1>1, <2>2
    <3>2. b[i - Len(a)] = w[k + Len(a) + (i - Len(a))]
      BY <3>1 DEF Window
    <3>. QED
      BY <1>1, <1>2, <2>2, <3>1, <3>2
  <2>. QED
    BY <2>1, <2>2
<1>4. k + Len(a \o b) <= Len(w)
  BY <1>1 DEF Window
<1>. QED
  BY <1>1, <1>3, <1>4 DEF Window

LEMMA WindowHead ==
  ASSUME NEW w \in Seq(Char), NEW k \in Nat, NEW s, Window(s, w, k), s # <<>>
  PROVE  /\ Len(s) \in Nat \ {0} /\ k + 1 \in 1 .. Len(w)
         /\ Head(s) = w[k + 1] /\ Head(s) \in Char
         /\ Window(Tail(s), w, k + 1) /\ Len(Tail(s)) = Len(s) - 1
<1>1. s \in Seq(Char) /\ Len(s) \in Nat \ {0} /\ Len(w) \in Nat /\ k + Len(s) <= Len(w)
  BY EmptySeq DEF Window
<1>2. Head(s) = s[1] /\ s[1] \in Char /\ s[1] = w[k + 1]
  BY <1>1 DEF Window
<1>3. /\ Tail(s) \in Seq(Char) /\ Len(Tail(s)) = Len(s) - 1
      /\ \A i \in 1 .. Len(s) - 1 : Tail(s)[i] = s[i + 1]
  BY <1>1
<1>4. Window(Tail(s), w, k + 1)
  BY <1>1, <1>3 DEF Window
<1>. QED
  BY <1>1, <1>2, <1>3, <1>4

LEMMA WindowOne ==
  ASSUME NEW w \in Seq(Char), NEW k \in Nat, k + 1 <= Len(w)
  PROVE  Window(<<w[k + 1]>>, w, k) /\ Len(<<w[k + 1]>>) = 1 /\ w[k + 1] \in Char
<1>1. w[k + 1] \in Char
  OBVIOUS
<1>. QED
  BY <1>1 DEF Window

LEMMA WindowNone ==
  ASSUME NEW w \in Seq(Char), NEW k \in Nat, k <= Len(w)
  PROVE  Window(<<>>, w, k) /\ Len(<<>>) = 0
BY DEF Window

-----------------------------------------------------------------------------
(* The file *)

\* What the file has not delivered yet is the text w from its k-th position on.
FileAt(s, w, k) ==
  /\ s \in Stream
  /\ Window(s.unread, w, k)
  /\ Window(s.disk, w, k + Len(s.unread))
  /\ k + Len(s.unread) + Len(s.disk) = Len(w)
  /\ s.eof => k = Len(w)

\* Reading a file changes neither ZIO's buffer nor how it is read.
SameZio(f, s) ==
  /\ f.n = s.n /\ f.p = s.p /\ f.buff = s.buff /\ f.taken = s.taken
  /\ f.reader = s.reader /\ f.extraLine = s.extraLine /\ f.step = s.step

LEMMA FileTypes ==
  ASSUME NEW w \in Seq(Char), NEW k \in Nat, NEW s, FileAt(s, w, k)
  PROVE  /\ s.unread \in Seq(Char) /\ s.disk \in Seq(Char) /\ Len(s.unread) \in Nat /\ Len(s.disk) \in Nat
         /\ Len(w) \in Nat /\ k <= Len(w) /\ s \in Stream /\ s.step \in Nat
         /\ (k = Len(w) <=> s.unread = <<>> /\ s.disk = <<>>)
<1>1. /\ s.unread \in Seq(Char) /\ s.disk \in Seq(Char) /\ Len(s.unread) \in Nat /\ Len(s.disk) \in Nat
      /\ Len(w) \in Nat /\ k + Len(s.unread) + Len(s.disk) = Len(w) /\ s \in Stream /\ s.step \in Nat
  BY DEF FileAt, Stream
<1>2. (s.unread = <<>> <=> Len(s.unread) = 0) /\ (s.disk = <<>> <=> Len(s.disk) = 0)
  BY <1>1, EmptySeq
<1>. DEFINE a == Len(s.unread)  b == Len(s.disk)
<1>3. a \in Nat /\ b \in Nat /\ k + a + b = Len(w) /\ Len(w) \in Nat
  BY <1>1
<1>. HIDE DEF a, b
<1>4. k <= Len(w) /\ (k = Len(w) <=> a = 0 /\ b = 0)
  BY <1>3
<1>. QED
  BY <1>1, <1>2, <1>4 DEF a, b

LEMMA FillFileDelivers ==
  ASSUME NEW w \in Seq(Char), NEW k \in Nat, NEW s, FileAt(s, w, k), s.step > 0,
         NEW f, f = FillFile(s)
  PROVE  /\ FileAt(f, w, k) /\ SameZio(f, s) /\ f.block = s.block /\ f.c = s.c
         /\ (f.eof <=> k = Len(w)) /\ (~f.eof => f.unread # <<>>)
         /\ f.disk # <<>> => s.disk # <<>>
<1>1. /\ s.unread \in Seq(Char) /\ s.disk \in Seq(Char) /\ Len(s.unread) \in Nat /\ Len(s.disk) \in Nat
      /\ Len(w) \in Nat /\ k <= Len(w) /\ s \in Stream /\ s.step \in Nat
      /\ (k = Len(w) <=> s.unread = <<>> /\ s.disk = <<>>)
  BY FileTypes
<1>2. CASE s.unread # <<>>
  BY <1>1, <1>2 DEF FillFile, SameZio, FileAt
<1>3. CASE s.unread = <<>> /\ s.disk = <<>>
  <2>1. f = [s EXCEPT !.eof = TRUE]
    BY <1>3 DEF FillFile
  <2>2. f \in Stream /\ f.unread = s.unread /\ f.disk = s.disk /\ f.eof = TRUE /\ SameZio(f, s)
        /\ f.block = s.block /\ f.c = s.c
    BY <1>1, <2>1 DEF Stream, SameZio
  <2>3. k = Len(w)
    BY <1>1, <1>3
  <2>4. FileAt(f, w, k)
    BY <2>2, <2>3 DEF FileAt
  <2>. QED
    BY <1>3, <2>2, <2>3, <2>4
<1>4. CASE s.unread = <<>> /\ s.disk # <<>>
  <2>. DEFINE n == Some(s.disk, s.step)
              t == Take(s.disk, s.step)
              d == Drop(s.disk, s.step)
  <2>1. f = [s EXCEPT !.unread = t, !.disk = d, !.eof = FALSE]
    BY <1>4 DEF FillFile
  <2>2. Len(s.unread) = 0 /\ Window(s.disk, w, k)
    BY <1>4 DEF FileAt
  <2>b. Window(s.disk, w, k) /\ s.step \in Nat
    BY <1>1, <2>2
  <2>a. n \in Nat /\ Len(t) \in Nat /\ Len(d) \in Nat /\ t \in Seq(Char) /\ d \in Seq(Char)
        /\ (s.disk # <<>> /\ s.step > 0 => n > 0)
    BY <2>b, TakeTypes
  <2>3. /\ n \in Nat /\ n <= Len(s.disk) /\ Len(t) = n /\ Window(t, w, k)
        /\ Len(d) = Len(s.disk) - n /\ Window(d, w, k + n)
    <3>1. n \in Nat /\ n <= Len(s.disk) /\ Window(t, w, k) /\ Window(d, w, k + n)
      BY <2>b, WindowTake
    <3>2. TakenApart(s.disk, s.step)
      BY <2>b, WindowTake
    <3>3. Len(t) = n /\ Len(d) = Len(s.disk) - n
      BY <3>2 DEF TakenApart
    <3>. QED
      BY <3>1, <3>2, <3>3
  <2>4. Len(s.disk) > 0 /\ n > 0
    BY <1>1, <1>4, <2>a, EmptySeq
  <2>. HIDE DEF n, t, d
  <2>5. t \in Seq(Char) /\ d \in Seq(Char)
    BY <2>3 DEF Window
  <2>6. /\ f \in Stream /\ f.unread = t /\ f.disk = d /\ f.eof = FALSE /\ SameZio(f, s)
        /\ f.block = s.block /\ f.c = s.c
    <3>1. f \in Stream
      BY <1>1, <2>1, <2>5 DEF Stream
    <3>2. /\ f.unread = t /\ f.disk = d /\ f.eof = FALSE /\ f.n = s.n /\ f.p = s.p
          /\ f.buff = s.buff /\ f.taken = s.taken /\ f.reader = s.reader
          /\ f.extraLine = s.extraLine /\ f.step = s.step /\ f.block = s.block /\ f.c = s.c
      BY <1>1, <2>1 DEF Stream
    <3>. QED
      BY <3>1, <3>2 DEF SameZio
  <2>7. k + Len(t) + Len(d) = Len(w)
    <3>1. k + Len(s.unread) + Len(s.disk) = Len(w)
      BY DEF FileAt
    <3>. DEFINE a == Len(t)  b == Len(d)  e == Len(s.disk)
    <3>2. a = n /\ b = e - n /\ n \in Nat /\ e \in Nat /\ k + e = Len(w)
      BY <1>1, <2>2, <2>3, <3>1
    <3>. HIDE DEF a, b, e
    <3>3. k + a + b = Len(w)
      BY <3>2
    <3>. QED
      BY <3>3 DEF a, b
  <2>8. FileAt(f, w, k)
    BY <2>3, <2>6, <2>7 DEF FileAt
  <2>9. t # <<>> /\ k # Len(w)
    BY <1>1, <1>4, <2>3, <2>4, EmptySeq
  <2>. QED
    BY <1>4, <2>6, <2>8, <2>9
<1>. QED
  BY <1>2, <1>3, <1>4

LEMMA GetCDelivers ==
  ASSUME NEW w \in Seq(Char), NEW k \in Nat, NEW s, FileAt(s, w, k), s.step > 0,
         NEW g, g = GetC(s)
  PROVE  /\ SameZio(g, s) /\ g.block = s.block
         /\ k = Len(w) => FileAt(g, w, k) /\ g.c = NUL
         /\ k # Len(w) => k + 1 \in 1 .. Len(w) /\ FileAt(g, w, k + 1) /\ g.c = w[k + 1]
<1>. DEFINE f == FillFile(s)
<1>1. /\ FileAt(f, w, k) /\ SameZio(f, s) /\ f.block = s.block
      /\ (f.eof <=> k = Len(w)) /\ (~f.eof => f.unread # <<>>)
  BY FillFileDelivers
<1>2. g = IF f.eof THEN [f EXCEPT !.c = NUL]
          ELSE [f EXCEPT !.c = Head(f.unread), !.unread = Tail(@)]
  BY DEF GetC
<1>. HIDE DEF f
<1>3. f \in Stream
  BY <1>1 DEF FileAt
<1>4. NUL \in Char
  BY CharsAre
<1>5. CASE f.eof
  <2>1. g = [f EXCEPT !.c = NUL]
    BY <1>2, <1>5
  <2>2. /\ g \in Stream /\ g.unread = f.unread /\ g.disk = f.disk /\ g.eof = f.eof /\ SameZio(g, f)
        /\ g.block = f.block /\ g.c = NUL
    BY <1>3, <1>4, <2>1 DEF Stream, SameZio
  <2>3. FileAt(g, w, k)
    BY <1>1, <2>2 DEF FileAt
  <2>. QED
    BY <1>1, <1>5, <2>2, <2>3 DEF SameZio
<1>6. CASE ~f.eof
  <2>. DEFINE h == Head(f.unread)  t == Tail(f.unread)
  <2>0. Window(f.unread, w, k) /\ f.unread # <<>>
    BY <1>1, <1>6 DEF FileAt
  <2>1. /\ Len(f.unread) \in Nat /\ k + 1 \in 1 .. Len(w) /\ h = w[k + 1] /\ h \in Char
        /\ Window(t, w, k + 1) /\ Len(t) = Len(f.unread) - 1
    BY <2>0, WindowHead
  <2>2. g = [f EXCEPT !.c = h, !.unread = t]
    BY <1>2, <1>6
  <2>. HIDE DEF h, t
  <2>3. t \in Seq(Char) /\ Len(t) \in Nat
    BY <2>1 DEF Window
  <2>4. /\ g \in Stream /\ g.unread = t /\ g.disk = f.disk /\ g.eof = f.eof /\ SameZio(g, f)
        /\ g.block = f.block /\ g.c = h
    BY <1>3, <2>1, <2>2, <2>3 DEF Stream, SameZio
  <2>5. /\ k + Len(f.unread) + Len(f.disk) = Len(w) /\ Window(f.disk, w, k + Len(f.unread))
        /\ Len(f.disk) \in Nat
    BY <1>1, FileTypes DEF FileAt
  <2>6. k + 1 + Len(t) = k + Len(f.unread)
    <3>. DEFINE a == Len(t)  b == Len(f.unread)
    <3>1. a \in Nat /\ b \in Nat /\ a = b - 1
      BY <2>1, <2>3
    <3>. HIDE DEF a, b
    <3>2. k + 1 + a = k + b
      BY <3>1
    <3>. QED
      BY <3>2 DEF a, b
  <2>7. FileAt(g, w, k + 1)
    BY <1>6, <2>1, <2>4, <2>5, <2>6 DEF FileAt
  <2>. QED
    BY <1>1, <1>6, <2>1, <2>4, <2>7 DEF SameZio
<1>. QED
  BY <1>5, <1>6

LEMMA UngetCPutsBack ==
  ASSUME NEW w \in Seq(Char), NEW k \in Nat, NEW s, FileAt(s, w, k + 1), k + 1 <= Len(w),
         NEW u, u = UngetC(s, w[k + 1])
  PROVE  FileAt(u, w, k) /\ SameZio(u, s) /\ u.disk = s.disk
<1>. DEFINE c == w[k + 1]  t == <<c>> \o s.unread
<1>1. u = [s EXCEPT !.eof = FALSE, !.unread = t]
  BY DEF UngetC
<1>2. Window(<<c>>, w, k) /\ Len(<<c>>) = 1
  BY WindowOne
<1>3. Window(s.unread, w, k + Len(<<c>>))
  BY <1>2 DEF FileAt
<1>4. Window(t, w, k) /\ Len(t) = Len(<<c>>) + Len(s.unread)
  <2>. DEFINE a == <<c>>  b == s.unread
  <2>1. Window(a, w, k) /\ Window(b, w, k + Len(a))
    BY <1>2, <1>3
  <2>. HIDE DEF a, b
  <2>2. Window(a \o b, w, k) /\ Len(a \o b) = Len(a) + Len(b)
    BY <2>1, WindowJoin
  <2>. QED
    BY <2>2 DEF a, b
<1>. HIDE DEF c
<1>5. Len(t) = 1 + Len(s.unread) /\ Len(s.unread) \in Nat /\ t \in Seq(Char)
  BY <1>2, <1>4 DEF FileAt, Window
<1>. HIDE DEF t
<1>6. s \in Stream
  BY DEF FileAt
<1>7. u \in Stream /\ u.unread = t /\ u.disk = s.disk /\ u.eof = FALSE /\ SameZio(u, s)
  BY <1>1, <1>5, <1>6 DEF Stream, SameZio
<1>8. k + Len(t) = k + 1 + Len(s.unread)
  <2>. DEFINE a == Len(t)  b == Len(s.unread)
  <2>1. a = 1 + b /\ b \in Nat
    BY <1>5
  <2>. HIDE DEF a, b
  <2>2. k + a = k + 1 + b
    BY <2>1
  <2>. QED
    BY <2>2 DEF a, b
<1>9. FileAt(u, w, k)
  BY <1>4, <1>7, <1>8 DEF FileAt
<1>. QED
  BY <1>7, <1>9

-----------------------------------------------------------------------------
(* Loops *)

LEMMA LeastNumber ==
  ASSUME NEW N \in SUBSET Nat, N # {}
  PROVE  \E m \in N : \A k \in N : m <= k
<1>1. PICK m \in N : \A k \in N : ~(<<k, m>> \in OpToRel(<, Nat))
  BY NatLessThanWellFounded, WFMin
<1>2. \A k \in N : ~(k < m)
  BY <1>1 DEF OpToRel
<1>. QED
  BY <1>2

LEMMA Induct ==
  ASSUME NEW E \in SUBSET Nat, 0 \in E, \A n \in E : n + 1 \in E
  PROVE  E = Nat
<1>. SUFFICES ASSUME Nat \ E # {} PROVE FALSE
  OBVIOUS
<1>1. PICK m \in Nat \ E : \A k \in Nat \ E : m <= k
  BY LeastNumber
<1>2. m - 1 \in Nat /\ m - 1 \in E
  BY <1>1
<1>3. m - 1 + 1 \in E
  BY <1>2
<1>. QED
  BY <1>1, <1>3

\* The states of a loop that has taken k turns, each of which is next.
Turns(a, V, state, next, k) ==
  /\ a \in [0 .. k -> V]
  /\ \A j \in 0 .. k : a[j] = IF j = 0 THEN state ELSE next[a[j - 1]]

LEMMA LoopsHaveTurns ==
  ASSUME NEW V, NEW state \in V, NEW next \in [V -> V], NEW k \in Nat
  PROVE  \E a : Turns(a, V, state, next, k)
<1>. DEFINE E == {n \in Nat : \E a : Turns(a, V, state, next, n)}
<1>1. 0 \in E
  <2>. DEFINE a == [j \in 0 .. 0 |-> state]
  <2>1. a \in [0 .. 0 -> V] /\ \A j \in 0 .. 0 : j = 0 /\ a[j] = state
    OBVIOUS
  <2>. HIDE DEF a
  <2>2. Turns(a, V, state, next, 0)
    BY <2>1 DEF Turns
  <2>. QED
    BY <2>2
<1>2. ASSUME NEW n \in E PROVE n + 1 \in E
  <2>1. PICK a : Turns(a, V, state, next, n)
    OBVIOUS
  <2>2. a \in [0 .. n -> V] /\ \A j \in 0 .. n : a[j] = IF j = 0 THEN state ELSE next[a[j - 1]]
    BY <2>1 DEF Turns
  <2>. DEFINE v == next[a[n]]
              b == [j \in 0 .. n + 1 |-> IF j = n + 1 THEN v ELSE a[j]]
  <2>3. a[n] \in V /\ v \in V
    BY <2>2
  <2>4. b[n + 1] = v /\ \A j \in 0 .. n : b[j] = a[j]
    OBVIOUS
  <2>. HIDE DEF v
  <2>5. b \in [0 .. n + 1 -> V]
    BY <2>2, <2>3
  <2>. HIDE DEF b
  <2>6. ASSUME NEW j \in 0 .. n + 1 PROVE b[j] = IF j = 0 THEN state ELSE next[b[j - 1]]
    <3>1. CASE j = n + 1
      <4>1. n + 1 # 0 /\ j - 1 = n
        BY <3>1
      <4>2. b[j - 1] = a[n]
        BY <2>4, <4>1
      <4>. QED
        BY <2>4, <3>1, <4>1, <4>2 DEF v
    <3>2. CASE j # n + 1 /\ j # 0
      <4>1. j \in 0 .. n /\ j - 1 \in 0 .. n
        BY <3>2
      <4>. QED
        BY <2>2, <2>4, <3>2, <4>1
    <3>3. CASE j = 0
      <4>1. j \in 0 .. n
        BY <3>3
      <4>. QED
        BY <2>2, <2>4, <3>3, <4>1
    <3>. QED
      BY <3>1, <3>2, <3>3
  <2>7. Turns(b, V, state, next, n + 1)
    BY <2>5, <2>6 DEF Turns
  <2>. QED
    BY <2>7
<1>0. E \in SUBSET Nat
  OBVIOUS
<1>. HIDE DEF E
<1>3. E = Nat
  BY <1>0, <1>1, <1>2, Induct
<1>. QED
  BY <1>3 DEF E
-----------------------------------------------------------------------------
(* Reading a block of the file *)

FileMissing(f, size) == size - Len(f.block)
FileMore(f, size) == ~f.eof /\ FileMissing(f, size) > 0
FileCopy(f, size) ==
  FillFile([f EXCEPT !.block = @ \o Take(f.unread, FileMissing(f, size)),
                     !.unread = Drop(@, FileMissing(f, size))])

\* In fread: the text from the k-th position on is in the block, then in s.
Reading(f, s, w, k) ==
  /\ Window(f.block, w, k) /\ FileAt(f, w, k + Len(f.block)) /\ SameZio(f, s)
  /\ f.eof <=> k + Len(f.block) = Len(w)
  /\ ~f.eof => f.unread # <<>>

LEMMA FileCopyReads ==
  ASSUME NEW w \in Seq(Char), NEW k \in Nat, NEW s, s.step > 0, NEW f, Reading(f, s, w, k),
         NEW size \in Nat, FileMore(f, size)
  PROVE  Reading(FileCopy(f, size), s, w, k) /\ FileCopy(f, size).block # <<>>
<1>. DEFINE m == FileMissing(f, size)  b == f.block  u == f.unread  t == Take(u, m)  d == Drop(u, m)
            g == [f EXCEPT !.block = b \o t, !.unread = d]
            h == FillFile(g)
<1>1. FileCopy(f, size) = h
  BY DEF FileCopy
<1>2. /\ Window(b, w, k) /\ FileAt(f, w, k + Len(b)) /\ SameZio(f, s) /\ ~f.eof /\ u # <<>> /\ m > 0
  BY DEF Reading, FileMore
<1>3. b \in Seq(Char) /\ Len(b) \in Nat /\ m \in Nat
  BY <1>2 DEF Window, FileMissing
<1>. DEFINE at == k + Len(b)
<1>4. at \in Nat
  BY <1>3
<1>5. f \in Stream /\ Window(u, w, at) /\ Window(f.disk, w, at + Len(u)) /\ at + Len(u) + Len(f.disk) = Len(w)
  BY <1>2 DEF FileAt
<1>. HIDE DEF at
<1>6. /\ Some(u, m) \in Nat /\ Len(u) \in Nat /\ Len(t) \in Nat /\ Len(d) \in Nat
      /\ t \in Seq(Char) /\ d \in Seq(Char) /\ Some(u, m) > 0
  BY <1>2, <1>3, <1>4, <1>5, TakeTypes
<1>7. Window(t, w, at) /\ Window(d, w, at + Some(u, m)) /\ TakenApart(u, m)
  BY <1>3, <1>4, <1>5, WindowTake
<1>8. Len(t) = Some(u, m) /\ Len(d) = Len(u) - Some(u, m)
  BY <1>7 DEF TakenApart
<1>9. Window(b \o t, w, k) /\ Len(b \o t) = Len(b) + Len(t)
  BY <1>2, <1>7, WindowJoin DEF at
<1>. HIDE DEF t, d, u, m
<1>10. b \o t \in Seq(Char)
  BY <1>9 DEF Window
<1>. DEFINE c == b \o t
<1>11. Len(c) \in Nat /\ Len(c) > 0 /\ k + Len(c) = at + Some(u, m) /\ k + Len(c) + Len(d) = at + Len(u)
  <2>. DEFINE lc == Len(c)  lb == Len(b)  lt == Len(t)  ld == Len(d)  lu == Len(u)  n == Some(u, m)
  <2>1. lc = lb + lt /\ lt = n /\ ld = lu - n /\ at = k + lb /\ lb \in Nat /\ lu \in Nat /\ n \in Nat /\ n > 0
    BY <1>3, <1>6, <1>8, <1>9 DEF at
  <2>. HIDE DEF lc, lb, lt, ld, lu, n, c
  <2>2. lc \in Nat /\ lc > 0 /\ k + lc = at + n /\ k + lc + ld = at + lu
    BY <2>1
  <2>. QED
    BY <2>2 DEF lc, ld, n, lu
<1>12. c # <<>>
  BY <1>11
<1>. HIDE DEF c, b
<1>13. /\ g \in Stream /\ g.unread = d /\ g.disk = f.disk /\ g.eof = FALSE /\ g.block = c /\ SameZio(g, f)
       /\ g.step = f.step
  BY <1>2, <1>5, <1>6, <1>10 DEF Stream, SameZio, c, b, u
<1>. HIDE DEF g
<1>14. FileAt(g, w, k + Len(c))
  BY <1>5, <1>7, <1>11, <1>13 DEF FileAt
<1>15. g.step > 0 /\ k + Len(c) \in Nat
  BY <1>2, <1>11, <1>13 DEF SameZio
<1>16. /\ FileAt(h, w, k + Len(c)) /\ SameZio(h, g) /\ h.block = g.block
       /\ (h.eof <=> k + Len(c) = Len(w)) /\ (~h.eof => h.unread # <<>>)
  BY <1>14, <1>15, FillFileDelivers
<1>. HIDE DEF h
<1>17. SameZio(h, s) /\ h.block = c
  BY <1>2, <1>13, <1>16 DEF SameZio
<1>18. Window(c, w, k)
  BY <1>9 DEF c
<1>19. Reading(h, s, w, k)
  BY <1>16, <1>17, <1>18 DEF Reading
<1>. QED
  BY <1>1, <1>12, <1>17, <1>19

LEMMA NoneIsText == <<>> \in Seq(Char)
OBVIOUS

LEMMA FReadDelivers ==
  ASSUME NEW w \in Seq(Char), NEW k \in Nat, NEW s, FileAt(s, w, k), s.step > 0,
         NEW size \in Nat \ {0}
  PROVE  /\ Reading(FRead(s, size), s, w, k)
         /\ k # Len(w) => FRead(s, size).block # <<>>
<1>. DEFINE s0 == [s EXCEPT !.block = <<>>]
            start == FillFile(s0)
            V == {f \in Stream : Reading(f, s, w, k)}
            turn(f) == IF FileMore(f, size) THEN FileCopy(f, size) ELSE f
            next == [f \in V |-> turn(f)]
            Body(a) == [j \in 0 .. size |-> IF j = 0 THEN start ELSE turn(a[j - 1])]
            after == CHOOSE a : a = Body(a)
<1>1. FRead(s, size) = after[size]
  BY DEF FRead, Iterate, FileMore, FileMissing, FileCopy
<1>2. k <= Len(w) /\ Len(w) \in Nat
  BY FileTypes
<1>3. start \in V /\ (start.eof <=> k = Len(w)) /\ start.block = <<>>
  <2>1. s \in Stream
    BY DEF FileAt
  <2>2. /\ s0 \in Stream /\ s0.unread = s.unread /\ s0.disk = s.disk /\ s0.eof = s.eof
        /\ s0.block = <<>> /\ SameZio(s0, s)
    BY <2>1, NoneIsText DEF Stream, SameZio
  <2>. HIDE DEF s0
  <2>3. FileAt(s0, w, k) /\ s0.step > 0
    BY <2>2 DEF FileAt, SameZio
  <2>4. /\ FileAt(start, w, k) /\ SameZio(start, s0) /\ start.block = <<>>
        /\ (start.eof <=> k = Len(w)) /\ (~start.eof => start.unread # <<>>)
    BY <2>2, <2>3, FillFileDelivers
  <2>. HIDE DEF start
  <2>5. Window(<<>>, w, k) /\ Len(<<>>) = 0 /\ k + 0 = k
    BY <1>2, WindowNone
  <2>6. Reading(start, s, w, k)
    BY <2>2, <2>4, <2>5 DEF Reading, SameZio
  <2>. QED
    BY <2>4, <2>6 DEF FileAt
<1>. HIDE DEF start
<1>4. ASSUME NEW f \in V PROVE turn(f) \in V /\ (FileMore(f, size) => turn(f).block # <<>>)
  <2>1. CASE FileMore(f, size)
    <3>1. Reading(FileCopy(f, size), s, w, k) /\ FileCopy(f, size).block # <<>>
      BY <2>1, FileCopyReads
    <3>2. FileCopy(f, size) \in Stream
      BY <3>1 DEF Reading, FileAt
    <3>. QED
      BY <2>1, <3>1, <3>2
  <2>2. CASE ~FileMore(f, size)
    BY <2>2
  <2>. QED
    BY <2>1, <2>2
<1>5. next \in [V -> V] /\ \A f \in V : next[f] = turn(f)
  BY <1>4
<1>6. \A v \in V : Reading(v, s, w, k)
  OBVIOUS
<1>7. (start.eof <=> k = Len(w)) => (k # Len(w) => FileMore(start, size))
  BY <1>3 DEF FileMore, FileMissing
<1>. HIDE DEF V, turn, next
<1>8. PICK a : Turns(a, V, start, next, size)
  BY <1>3, <1>5, LoopsHaveTurns
<1>9. a \in [0 .. size -> V] /\ \A j \in 0 .. size : a[j] = IF j = 0 THEN start ELSE next[a[j - 1]]
  BY <1>8 DEF Turns
<1>10. a = Body(a)
  <2>1. \A j \in 0 .. size : a[j] = IF j = 0 THEN start ELSE turn(a[j - 1])
    BY <1>5, <1>9
  <2>2. a = [j \in 0 .. size |-> a[j]]
    BY <1>9
  <2>. QED
    BY <2>1, <2>2
<1>11. after = Body(after)
  BY <1>10
<1>. HIDE DEF after
<1>12. \A j \in 0 .. size : after[j] = IF j = 0 THEN start ELSE turn(after[j - 1])
  BY <1>11
<1>. DEFINE E == {j \in Nat : j <= size =>
                     after[j] \in V /\ (j > 0 /\ k # Len(w) => after[j].block # <<>>)}
<1>13. 0 \in E
  BY <1>3, <1>12
<1>14. ASSUME NEW j \in E PROVE j + 1 \in E
  <2>. SUFFICES ASSUME j + 1 <= size
                PROVE  after[j + 1] \in V /\ (k # Len(w) => after[j + 1].block # <<>>)
    OBVIOUS
  <2>1. j \in Nat /\ j <= size /\ after[j] \in V /\ after[j + 1] = turn(after[j])
    BY <1>12
  <2>2. after[j + 1] \in V
    BY <1>4, <2>1
  <2>3. CASE j = 0
    <3>1. after[j] = start
      BY <1>12, <2>3
    <3>. QED
      BY <1>3, <1>4, <1>7, <2>1, <2>2, <3>1
  <2>4. CASE j # 0
    <3>1. k # Len(w) => after[j].block # <<>>
      BY <2>1, <2>4
    <3>2. FileMore(after[j], size) \/ turn(after[j]) = after[j]
      BY DEF turn
    <3>. QED
      BY <1>4, <2>1, <2>2, <3>1, <3>2
  <2>. QED
    BY <2>3, <2>4
<1>15. E \in SUBSET Nat
  OBVIOUS
<1>. HIDE DEF E
<1>16. E = Nat
  BY <1>13, <1>14, <1>15, Induct
<1>17. size \in E
  BY <1>16
<1>18. after[size] \in V /\ (k # Len(w) => after[size].block # <<>>)
  BY <1>17 DEF E
<1>. QED
  BY <1>1, <1>6, <1>18
-----------------------------------------------------------------------------
(* The readers *)

\* What the reader has not delivered yet is w from its k-th position on.
RestAt(s, w, k) ==
  /\ s.extraLine => k + 1 <= Len(w) /\ w[k + 1] = "\n"
  /\ FileAt(s, w, IF s.extraLine THEN k + 1 ELSE k)
  /\ s.reader = "getF" => s.step > 0
  /\ s.reader = "getS" => ~s.extraLine /\ s.unread = <<>>

\* A reader does not touch the buffer of ZIO.
SameBuffer(r, s) == r.n = s.n /\ r.p = s.p /\ r.buff = s.buff /\ r.taken = s.taken

Delivers(r, s, w, k) ==
  /\ RestAt(r, w, k + Len(r.block)) /\ Window(r.block, w, k) /\ SameBuffer(r, s)
  /\ r.block = <<>> => k = Len(w)

LEMMA GetFDelivers ==
  ASSUME NEW w \in Seq(Char), NEW k \in Nat, NEW s, RestAt(s, w, k), s.reader = "getF"
  PROVE  Delivers(GetF(s), s, w, k)
<1>. DEFINE r == GetF(s)
<1>0. s.step > 0 /\ s \in Stream
  BY DEF RestAt, FileAt
<1>1. CASE s.extraLine
  <2>1. k + 1 <= Len(w) /\ w[k + 1] = "\n" /\ FileAt(s, w, k + 1)
    BY <1>1 DEF RestAt
  <2>2. r = [s EXCEPT !.extraLine = FALSE, !.block = <<"\n">>]
    BY <1>1 DEF GetF
  <2>3. Window(<<w[k + 1]>>, w, k) /\ Len(<<"\n">>) = 1
    BY <2>1, WindowOne
  <2>4. <<"\n">> \in Seq(Char)
    BY CharsAre
  <2>5. /\ r \in Stream /\ r.unread = s.unread /\ r.disk = s.disk /\ r.eof = s.eof
        /\ r.extraLine = FALSE /\ r.block = <<"\n">> /\ r.step = s.step /\ r.reader = "getF"
        /\ SameBuffer(r, s)
    BY <1>0, <2>2, <2>4 DEF Stream, SameBuffer
  <2>. HIDE DEF r
  <2>6. FileAt(r, w, k + 1)
    BY <2>1, <2>5 DEF FileAt
  <2>7. RestAt(r, w, k + Len(r.block))
    BY <1>0, <2>3, <2>5, <2>6 DEF RestAt
  <2>. QED
    BY <2>1, <2>3, <2>5, <2>7 DEF Delivers, r
<1>2. CASE ~s.extraLine
  <2>. DEFINE f == FillFile(s)
  <2>1. FileAt(s, w, k) /\ s.extraLine = FALSE
    BY <1>0, <1>2 DEF RestAt, Stream
  <2>2. /\ FileAt(f, w, k) /\ SameZio(f, s) /\ (f.eof <=> k = Len(w))
    BY <1>0, <2>1, FillFileDelivers
  <2>3. r = IF f.eof THEN [f EXCEPT !.block = <<>>] ELSE FRead(f, LUAL_BUFFERSIZE)
    BY <1>2 DEF GetF
  <2>. HIDE DEF f, r
  <2>4. f \in Stream /\ k <= Len(w)
    BY <2>2, FileTypes
  <2>5. CASE f.eof
    <3>1. r = [f EXCEPT !.block = <<>>]
      BY <2>3, <2>5
    <3>2. /\ r \in Stream /\ r.unread = f.unread /\ r.disk = f.disk /\ r.eof = f.eof
          /\ r.block = <<>> /\ SameZio(r, f)
      BY <2>4, <3>1, NoneIsText DEF Stream, SameZio
    <3>3. FileAt(r, w, k) /\ Window(<<>>, w, k) /\ Len(<<>>) = 0 /\ k + 0 = k
      BY <2>2, <2>4, <3>2, WindowNone DEF FileAt
    <3>4. RestAt(r, w, k + 0)
      BY <1>0, <2>1, <2>2, <3>2, <3>3 DEF RestAt, SameZio
    <3>. QED
      BY <2>2, <2>5, <3>2, <3>3, <3>4 DEF Delivers, SameZio, SameBuffer, r
  <2>6. CASE ~f.eof
    <3>1. r = FRead(f, LUAL_BUFFERSIZE) /\ f.step > 0 /\ LUAL_BUFFERSIZE \in Nat \ {0}
      BY <1>0, <2>2, <2>3, <2>6, BufferAssumption DEF SameZio
    <3>2. Reading(r, f, w, k) /\ (k # Len(w) => r.block # <<>>)
      BY <2>2, <3>1, FReadDelivers
    <3>3. RestAt(r, w, k + Len(r.block))
      BY <1>0, <2>1, <2>2, <3>1, <3>2 DEF Reading, RestAt, SameZio
    <3>. QED
      BY <2>2, <3>2, <3>3 DEF Reading, Delivers, SameZio, SameBuffer, r
  <2>. QED
    BY <2>5, <2>6
<1>. QED
  BY <1>1, <1>2

LEMMA GetSDelivers ==
  ASSUME NEW w \in Seq(Char), NEW k \in Nat, NEW s, RestAt(s, w, k), s.reader = "getS"
  PROVE  Delivers(GetS(s), s, w, k)
<1>. DEFINE r == GetS(s)
<1>1. s.extraLine = FALSE /\ FileAt(s, w, k) /\ s.unread = <<>> /\ s \in Stream
  BY DEF RestAt, FileAt, Stream
<1>2. r = [s EXCEPT !.block = s.disk, !.disk = <<>>]
  BY DEF GetS
<1>3. /\ Len(<<>>) = 0 /\ Len(s.disk) \in Nat /\ s.disk \in Seq(Char) /\ k <= Len(w)
      /\ (k = Len(w) <=> s.unread = <<>> /\ s.disk = <<>>)
  BY <1>1, FileTypes
<1>4. /\ r \in Stream /\ r.unread = <<>> /\ r.disk = <<>> /\ r.eof = s.eof /\ r.block = s.disk
      /\ r.extraLine = FALSE /\ r.reader = "getS" /\ SameBuffer(r, s)
  BY <1>1, <1>2, <1>3 DEF Stream, SameBuffer
<1>. HIDE DEF r
<1>5. Window(s.disk, w, k) /\ k + Len(s.disk) = Len(w)
  BY <1>1, <1>3 DEF FileAt
<1>6. k + Len(s.disk) \in Nat /\ (s.eof => k + Len(s.disk) = Len(w))
  BY <1>3, <1>5
<1>7. Window(<<>>, w, k + Len(s.disk)) /\ k + Len(s.disk) + Len(<<>>) = Len(w)
      /\ Window(<<>>, w, k + Len(s.disk) + Len(<<>>)) /\ k + Len(s.disk) + Len(<<>>) + Len(<<>>) = Len(w)
  BY <1>3, <1>5, <1>6, WindowNone
<1>8. FileAt(r, w, k + Len(s.disk))
  BY <1>4, <1>6, <1>7 DEF FileAt
<1>9. RestAt(r, w, k + Len(r.block))
  BY <1>4, <1>8 DEF RestAt
<1>. QED
  BY <1>1, <1>3, <1>4, <1>5, <1>9 DEF Delivers, r

LEMMA ReaderDelivers ==
  ASSUME NEW w \in Seq(Char), NEW k \in Nat, NEW s, RestAt(s, w, k)
  PROVE  Delivers(Reader(s), s, w, k)
<1>1. s.reader \in {"getF", "getS"}
  BY DEF RestAt, FileAt, Stream
<1>2. CASE s.reader = "getF"
  BY <1>2, GetFDelivers DEF Reader
<1>3. CASE s.reader = "getS"
  BY <1>3, GetSDelivers DEF Reader
<1>. QED
  BY <1>1, <1>2, <1>3

-----------------------------------------------------------------------------
(* ZIO *)

\* How many bytes ZIO's buffer holds.
Buffered(s) == IF s.n > 0 THEN s.n ELSE 0

BufferAt(s, w, k) ==
  /\ s.p + Buffered(s) <= Len(s.buff)
  /\ \A i \in 1 .. Buffered(s) : s.buff[s.p + i] = w[k + i]

\* What ZIO has not handed out yet is w from its k-th position on.
StreamAt(s, w, k) ==
  /\ BufferAt(s, w, k)
  /\ RestAt(s, w, k + Buffered(s))

\* Handing out bytes does not touch what the reader has.
SameRest(r, s) ==
  /\ r.disk = s.disk /\ r.step = s.step /\ r.unread = s.unread /\ r.eof = s.eof
  /\ r.reader = s.reader /\ r.extraLine = s.extraLine

LEMMA RestStays ==
  ASSUME NEW w, NEW k, NEW s, RestAt(s, w, k), NEW r \in Stream, SameRest(r, s)
  PROVE  RestAt(r, w, k)
<1>1. \A m : FileAt(s, w, m) => FileAt(r, w, m)
  BY DEF FileAt, SameRest
<1>. QED
  BY <1>1 DEF RestAt, SameRest

LEMMA RestTypes ==
  ASSUME NEW w \in Seq(Char), NEW k \in Nat, NEW s, RestAt(s, w, k)
  PROVE  s \in Stream /\ s.n \in Int /\ s.p \in Nat /\ s.buff \in Seq(Char) /\ s.taken \in Nat
         /\ k <= Len(w) /\ Len(w) \in Nat
<1>1. s \in Stream
  BY DEF RestAt, FileAt
<1>2. k <= Len(w) /\ Len(w) \in Nat
  <2>1. s.extraLine => k + 1 <= Len(w)
    BY DEF RestAt
  <2>2. ~s.extraLine => FileAt(s, w, k)
    BY DEF RestAt
  <2>3. ~s.extraLine => k <= Len(w)
    BY <2>2, FileTypes
  <2>. QED
    BY <2>1, <2>3
<1>. QED
  BY <1>1, <1>2 DEF Stream

\* What Fill comes to: the end, or a buffer whose first byte is taken.
FilledWith(f, w, k) ==
  /\ f.n \in Nat /\ f.p = 1 /\ Len(f.buff) = 1 + f.n /\ k + 1 + f.n <= Len(w)
  /\ \A i \in 1 .. 1 + f.n : f.buff[i] = w[k + i]
  /\ f.c = w[k + 1] /\ f.c \in Char
  /\ RestAt(f, w, k + 1 + f.n)

AtEnd(f, s, w, k) ==
  /\ k = Len(w) /\ f.c = EOZ /\ f.n = s.n /\ f.p = s.p /\ f.buff = s.buff /\ RestAt(f, w, k)

LEMMA FillDelivers ==
  ASSUME NEW w \in Seq(Char), NEW k \in Nat, NEW s, RestAt(s, w, k)
  PROVE  /\ Fill(s).taken = s.taken
         /\ AtEnd(Fill(s), s, w, k) \/ FilledWith(Fill(s), w, k)
<1>. DEFINE r == Reader(s)  b == r.block  f == Fill(s)
<1>1. RestAt(r, w, k + Len(b)) /\ Window(b, w, k) /\ SameBuffer(r, s) /\ (b = <<>> => k = Len(w))
  BY ReaderDelivers DEF Delivers
<1>2. f = IF b = <<>> THEN [r EXCEPT !.c = EOZ]
          ELSE [r EXCEPT !.n = Len(b) - 1, !.p = 1, !.buff = b, !.c = Head(b)]
  BY DEF Fill, Filled
<1>3. b \in Seq(Char) /\ Len(b) \in Nat
  BY <1>1 DEF Window
<1>. HIDE DEF r, f
<1>4. r \in Stream /\ k + Len(b) \in Nat
  BY <1>1, <1>3 DEF RestAt, FileAt
<1>5. CASE b = <<>>
  <2>1. f = [r EXCEPT !.c = EOZ]
    BY <1>2, <1>5
  <2>2. /\ f \in Stream /\ f.c = EOZ /\ f.n = r.n /\ f.p = r.p /\ f.buff = r.buff /\ f.taken = r.taken
        /\ SameRest(f, r)
    BY <1>4, <2>1 DEF Stream, SameRest
  <2>3. Len(b) = 0 /\ k + Len(b) = k
    BY <1>5
  <2>4. RestAt(f, w, k)
    BY <1>1, <2>2, <2>3, RestStays
  <2>. QED
    BY <1>1, <1>5, <2>2, <2>4 DEF AtEnd, SameBuffer, f
<1>6. CASE b # <<>>
  <2>. DEFINE h == Head(b)  n == Len(b) - 1
  <2>1. f = [r EXCEPT !.n = n, !.p = 1, !.buff = b, !.c = h]
    BY <1>2, <1>6
  <2>2. Len(b) \in Nat \ {0} /\ h = w[k + 1] /\ h \in Char
    BY <1>1, <1>6, WindowHead
  <2>3. n \in Nat /\ n + 1 = Len(b) /\ k + 1 + n = k + Len(b) /\ 1 + n = Len(b)
    <3>. DEFINE l == Len(b)
    <3>1. l \in Nat \ {0}
      BY <2>2
    <3>. HIDE DEF l
    <3>2. l - 1 \in Nat /\ l - 1 + 1 = l /\ k + 1 + (l - 1) = k + l /\ 1 + (l - 1) = l
      BY <3>1
    <3>. QED
      BY <3>2 DEF l
  <2>. HIDE DEF h, n
  <2>4. /\ f \in Stream /\ f.c = h /\ f.n = n /\ f.p = 1 /\ f.buff = b /\ f.taken = r.taken
        /\ SameRest(f, r)
    <3>1. n \in Int /\ 1 \in Nat /\ h \in Char \cup {EOZ} /\ b \in Seq(Char)
      BY <1>3, <2>2, <2>3
    <3>2. f \in Stream
      BY <1>4, <2>1, <3>1 DEF Stream
    <3>. QED
      BY <1>4, <2>1, <3>2 DEF Stream, SameRest
  <2>5. RestAt(f, w, k + 1 + n)
    BY <1>1, <2>3, <2>4, RestStays
  <2>6. k + 1 + n <= Len(w) /\ \A i \in 1 .. 1 + n : b[i] = w[k + i]
    BY <1>1, <2>3 DEF Window
  <2>7. FilledWith(f, w, k)
    BY <2>2, <2>3, <2>4, <2>5, <2>6 DEF FilledWith
  <2>. QED
    BY <1>1, <2>4, <2>7 DEF SameBuffer, f
<1>. QED
  BY <1>5, <1>6

\* g is s after it has handed out the bytes b.
HandedOut(g, s, b) ==
  /\ g \in Stream /\ SameRest(g, s)
  /\ g.n = s.n /\ g.p = s.p /\ g.buff = s.buff /\ g.c = s.c /\ g.block = b
  /\ g.taken = s.taken + Len(b)

LEMMA HandedTypes ==
  ASSUME NEW s \in Stream, NEW b \in Seq(Char)
  PROVE  HandedOut(Handed(s, b), s, b)
<1>1. s.taken + Len(b) \in Nat
  BY DEF Stream
<1>. DEFINE t == s.taken + Len(b)
<1>. HIDE DEF t
<1>2. Handed(s, b) = [s EXCEPT !.block = b, !.taken = t]
  BY DEF Handed, t
<1>3. t \in Nat
  BY <1>1 DEF t
<1>. QED
  BY <1>2, <1>3 DEF Stream, SameRest, t, HandedOut

\* GetCh hands out the next byte, or the end.
GetsNext(g, s, w, k) ==
  \/ /\ k = Len(w) /\ g.c = EOZ /\ g.n = -1 /\ g.block = <<>> /\ g.taken = s.taken
     /\ StreamAt(g, w, k)
  \/ /\ k + 1 <= Len(w) /\ g.c = w[k + 1] /\ g.c \in Char /\ g.n \in Nat /\ g.block = <<g.c>>
     /\ g.taken = s.taken + 1 /\ StreamAt(g, w, k + 1)

LEMMA GetChDelivers ==
  ASSUME NEW w \in Seq(Char), NEW k \in Nat, NEW s, StreamAt(s, w, k), s.n \in Nat
  PROVE  GetsNext(GetCh(s), s, w, k)
<1>1. s \in Stream
  BY DEF StreamAt, RestAt, FileAt
<1>. DEFINE s1 == [s EXCEPT !.n = @ - 1]
            r == IF s.n > 0 THEN [s EXCEPT !.n = @ - 1, !.p = @ + 1, !.c = s.buff[s.p + 1]] ELSE Fill(s1)
            b == IF r.c = EOZ THEN <<>> ELSE <<r.c>>
            g == GetCh(s)
<1>2. g = Handed(r, b)
  BY DEF GetCh
<1>. HIDE DEF g
<1>3. CASE s.n > 0
  <2>. DEFINE n == s.n - 1  p == s.p + 1  c == s.buff[s.p + 1]
  <2>1. r = [s EXCEPT !.n = n, !.p = p, !.c = c]
    BY <1>3
  <2>2. /\ Buffered(s) = s.n /\ s.n \in Nat \ {0} /\ s.p \in Nat /\ s.buff \in Seq(Char)
        /\ Len(s.buff) \in Nat /\ s.taken \in Nat
    BY <1>1, <1>3 DEF Buffered, Stream
  <2>3. s.p + s.n <= Len(s.buff) /\ (\A i \in 1 .. s.n : s.buff[s.p + i] = w[k + i])
        /\ RestAt(s, w, k + s.n)
    BY <2>2 DEF StreamAt, BufferAt
  <2>4. p \in 1 .. Len(s.buff) /\ n \in Nat /\ p + n = s.p + s.n /\ k + 1 + n = k + s.n
    <3>. DEFINE m == s.n  q == s.p  l == Len(s.buff)
    <3>1. m \in Nat \ {0} /\ q \in Nat /\ l \in Nat /\ q + m <= l
      BY <2>2, <2>3
    <3>. HIDE DEF m, q, l
    <3>2. q + 1 \in 1 .. l /\ m - 1 \in Nat /\ (q + 1) + (m - 1) = q + m /\ k + 1 + (m - 1) = k + m
      BY <3>1
    <3>. QED
      BY <3>2 DEF m, q, l
  <2>5. c = w[k + 1] /\ c \in Char
    <3>1. 1 \in 1 .. s.n
      BY <2>2
    <3>2. s.buff[s.p + 1] = w[k + 1]
      BY <2>3, <3>1
    <3>3. \A i \in 1 .. Len(s.buff) : s.buff[i] \in Char
      BY <2>2
    <3>4. s.buff[p] \in Char
      BY <2>4, <3>3
    <3>. QED
      BY <3>2, <3>4
  <2>6. k + s.n <= Len(w)
    <3>1. k + s.n \in Nat
      BY <2>2
    <3>. QED
      BY <2>3, <3>1, RestTypes
  <2>7. k + 1 <= Len(w)
    BY <2>2, <2>6
  <2>8. \A i \in 1 .. n : s.buff[p + i] = w[k + 1 + i]
    <3>. SUFFICES ASSUME NEW i \in 1 .. n PROVE s.buff[p + i] = w[k + 1 + i]
      OBVIOUS
    <3>1. i + 1 \in 1 .. s.n /\ s.p + (i + 1) = p + i /\ k + (i + 1) = k + 1 + i
      BY <2>2
    <3>2. s.buff[s.p + (i + 1)] = w[k + (i + 1)]
      BY <2>3, <3>1
    <3>. QED
      BY <3>1, <3>2
  <2>. HIDE DEF n, p, c, r
  <2>9. /\ r \in Stream /\ SameRest(r, s) /\ r.n = n /\ r.p = p /\ r.c = c /\ r.buff = s.buff
        /\ r.taken = s.taken
    <3>1. n \in Int /\ p \in Nat /\ c \in Char \cup {EOZ}
      BY <2>4, <2>5
    <3>2. r \in Stream
      BY <1>1, <2>1, <3>1 DEF Stream
    <3>. QED
      BY <1>1, <2>1, <3>2 DEF Stream, SameRest
  <2>10. b = <<c>> /\ <<c>> \in Seq(Char) /\ Len(<<c>>) = 1
    BY <2>5, <2>9, CharsAre
  <2>. HIDE DEF b
  <2>11. /\ g \in Stream /\ SameRest(g, r) /\ g.n = n /\ g.p = p /\ g.buff = s.buff /\ g.c = c
         /\ g.block = <<c>> /\ g.taken = s.taken + 1
    <3>1. HandedOut(g, r, <<c>>)
      BY <1>2, <2>9, <2>10, HandedTypes
    <3>. QED
      BY <2>9, <2>10, <3>1 DEF HandedOut
  <2>12. SameRest(g, s)
    BY <2>9, <2>11 DEF SameRest
  <2>13. RestAt(g, w, k + 1 + n)
    BY <2>3, <2>4, <2>11, <2>12, RestStays
  <2>14. Buffered(g) = n
    BY <2>4, <2>11 DEF Buffered
  <2>15. StreamAt(g, w, k + 1)
    BY <2>3, <2>4, <2>8, <2>11, <2>13, <2>14 DEF StreamAt, BufferAt
  <2>. QED
    BY <2>4, <2>5, <2>7, <2>11, <2>15 DEF GetsNext, g
<1>4. CASE ~(s.n > 0)
  <2>1. s.n = 0 /\ r = Fill(s1)
    BY <1>4
  <2>2. Buffered(s) = 0 /\ k + 0 = k
    BY <2>1 DEF Buffered
  <2>3. s1 \in Stream /\ SameRest(s1, s) /\ s1.n = -1 /\ s1.taken = s.taken
    <3>1. s1 = [s EXCEPT !.n = -1] /\ -1 \in Int
      BY <2>1
    <3>. HIDE DEF s1, r
    <3>. QED
      BY <1>1, <3>1 DEF Stream, SameRest
  <2>. HIDE DEF s1, r
  <2>4. RestAt(s1, w, k)
    BY <2>2, <2>3, RestStays DEF StreamAt
  <2>5. r.taken = s.taken /\ (AtEnd(r, s1, w, k) \/ FilledWith(r, w, k))
    BY <2>1, <2>3, <2>4, FillDelivers
  <2>6. CASE AtEnd(r, s1, w, k)
    <3>1. k = Len(w) /\ r.c = EOZ /\ r.n = -1 /\ RestAt(r, w, k) /\ r \in Stream
      BY <2>3, <2>6 DEF AtEnd, RestAt, FileAt
    <3>2. b = <<>> /\ <<>> \in Seq(Char) /\ Len(<<>>) = 0 /\ r.taken \in Nat
      BY <3>1, NoneIsText DEF Stream
    <3>. HIDE DEF b
    <3>3. /\ g \in Stream /\ SameRest(g, r) /\ g.n = -1 /\ g.c = EOZ /\ g.p = r.p /\ g.buff = r.buff
          /\ g.block = <<>> /\ g.taken = s.taken + 0
      <4>1. HandedOut(g, r, <<>>)
        BY <1>2, <3>1, <3>2, HandedTypes
      <4>. QED
        BY <2>5, <3>1, <3>2, <4>1 DEF HandedOut
    <3>4. RestAt(g, w, k)
      BY <3>1, <3>3, RestStays
    <3>5. Buffered(g) = 0 /\ g.p + 0 <= Len(g.buff)
      <4>1. g.p = s.p /\ g.buff = s.buff
        BY <2>6, <3>3 DEF AtEnd, s1
      <4>2. s.p + 0 <= Len(s.buff)
        BY <2>2 DEF StreamAt, BufferAt
      <4>. QED
        BY <3>3, <4>1, <4>2 DEF Buffered
    <3>6. StreamAt(g, w, k)
      BY <2>2, <3>4, <3>5 DEF StreamAt, BufferAt
    <3>7. g.taken = s.taken
      BY <1>1, <3>3 DEF Stream
    <3>. QED
      BY <3>1, <3>3, <3>6, <3>7 DEF GetsNext, g
  <2>7. CASE FilledWith(r, w, k)
    <3>1. /\ r.n \in Nat /\ r.p = 1 /\ Len(r.buff) = 1 + r.n /\ k + 1 + r.n <= Len(w)
          /\ \A i \in 1 .. 1 + r.n : r.buff[i] = w[k + i]
          /\ r.c = w[k + 1] /\ r.c \in Char
          /\ RestAt(r, w, k + 1 + r.n) /\ r \in Stream
      BY <2>7 DEF FilledWith, RestAt, FileAt
    <3>2. b = <<r.c>> /\ <<r.c>> \in Seq(Char) /\ Len(<<r.c>>) = 1
      BY <3>1, CharsAre
    <3>. HIDE DEF b
    <3>3. /\ g \in Stream /\ SameRest(g, r) /\ g.n = r.n /\ g.c = r.c /\ g.p = r.p /\ g.buff = r.buff
          /\ g.block = <<r.c>> /\ g.taken = s.taken + 1
      <4>1. HandedOut(g, r, <<r.c>>)
        BY <1>2, <3>1, <3>2, HandedTypes
      <4>. QED
        BY <2>5, <3>2, <4>1 DEF HandedOut
    <3>4. RestAt(g, w, k + 1 + r.n)
      BY <3>1, <3>3, RestStays
    <3>5. Buffered(g) = r.n
      BY <3>1, <3>3 DEF Buffered
    <3>6. \A i \in 1 .. r.n : r.buff[1 + i] = w[k + 1 + i]
      <4>. SUFFICES ASSUME NEW i \in 1 .. r.n PROVE r.buff[1 + i] = w[k + 1 + i]
        OBVIOUS
      <4>1. 1 + i \in 1 .. 1 + r.n /\ k + (1 + i) = k + 1 + i
        <5>. DEFINE m == r.n
        <5>1. m \in Nat /\ i \in 1 .. m
          BY <3>1
        <5>. HIDE DEF m
        <5>2. 1 + i \in 1 .. 1 + m /\ k + (1 + i) = k + 1 + i
          BY <5>1
        <5>. QED
          BY <5>2 DEF m
      <4>2. r.buff[1 + i] = w[k + (1 + i)]
        BY <3>1, <4>1
      <4>. QED
        BY <4>1, <4>2
    <3>7. BufferAt(g, w, k + 1)
      BY <3>1, <3>3, <3>5, <3>6 DEF BufferAt
    <3>8. StreamAt(g, w, k + 1)
      BY <3>4, <3>5, <3>7 DEF StreamAt
    <3>9. k + 1 <= Len(w)
      BY <3>1
    <3>. QED
      BY <3>1, <3>3, <3>8, <3>9 DEF GetsNext, g
  <2>. QED
    BY <2>5, <2>6, <2>7
<1>. QED
  BY <1>3, <1>4

\* Lookahead fills an empty buffer and answers the byte it begins with.
LooksAt(z, s, w, k) ==
  /\ StreamAt(z, w, k) /\ z \in Stream /\ z.n \in Nat /\ z.taken = s.taken
  /\ s.n = 0 => z.block = <<>>
  /\ \/ z.c = EOZ /\ k = Len(w)
     \/ z.c \in Char /\ k + 1 <= Len(w) /\ z.c = w[k + 1] /\ z.n > 0

LEMMA LookaheadDelivers ==
  ASSUME NEW w \in Seq(Char), NEW k \in Nat, NEW s, StreamAt(s, w, k), s.n \in Nat
  PROVE  LooksAt(Lookahead(s), s, w, k)
<1>1. s \in Stream
  BY DEF StreamAt, RestAt, FileAt
<1>. DEFINE z == Lookahead(s)
<1>2. CASE s.n # 0
  <2>. DEFINE c == s.buff[s.p + 1]
  <2>1. z = [s EXCEPT !.c = c]
    BY <1>2 DEF Lookahead
  <2>2. /\ Buffered(s) = s.n /\ s.n \in Nat \ {0} /\ s.p \in Nat /\ s.buff \in Seq(Char)
        /\ Len(s.buff) \in Nat
    BY <1>1, <1>2 DEF Buffered, Stream
  <2>3. s.p + s.n <= Len(s.buff) /\ (\A i \in 1 .. s.n : s.buff[s.p + i] = w[k + i])
        /\ RestAt(s, w, k + s.n)
    BY <2>2 DEF StreamAt, BufferAt
  <2>4. 1 \in 1 .. s.n /\ s.p + 1 \in 1 .. Len(s.buff) /\ k + s.n \in Nat
    <3>. DEFINE m == s.n  q == s.p  l == Len(s.buff)
    <3>1. m \in Nat \ {0} /\ q \in Nat /\ l \in Nat /\ q + m <= l
      BY <2>2, <2>3
    <3>. HIDE DEF m, q, l
    <3>2. 1 \in 1 .. m /\ q + 1 \in 1 .. l /\ k + m \in Nat
      BY <3>1
    <3>. QED
      BY <3>2 DEF m, q, l
  <2>5. c = w[k + 1] /\ c \in Char
    <3>1. s.buff[s.p + 1] = w[k + 1]
      BY <2>3, <2>4
    <3>2. \A i \in 1 .. Len(s.buff) : s.buff[i] \in Char
      BY <2>2
    <3>. QED
      BY <2>4, <3>1, <3>2
  <2>6. k + s.n <= Len(w)
    BY <2>3, <2>4, RestTypes
  <2>7. k + 1 <= Len(w)
    BY <2>2, <2>6
  <2>. HIDE DEF c, z
  <2>8. /\ z \in Stream /\ SameRest(z, s) /\ z.n = s.n /\ z.p = s.p /\ z.buff = s.buff /\ z.c = c
        /\ z.taken = s.taken
    BY <1>1, <2>1, <2>5 DEF Stream, SameRest
  <2>9. Buffered(z) = s.n
    BY <2>2, <2>8 DEF Buffered
  <2>10. RestAt(z, w, k + s.n)
    BY <2>3, <2>8, RestStays
  <2>11. StreamAt(z, w, k)
    BY <2>3, <2>8, <2>9, <2>10 DEF StreamAt, BufferAt
  <2>. QED
    BY <1>2, <2>2, <2>5, <2>7, <2>8, <2>11 DEF LooksAt, z
<1>3. CASE s.n = 0
  <2>. DEFINE r == Fill(s)  f == Handed(r, <<>>)
  <2>1. z = IF f.c = EOZ THEN f ELSE [f EXCEPT !.n = @ + 1, !.p = @ - 1]
    BY <1>3 DEF Lookahead
  <2>2. Buffered(s) = 0 /\ k + 0 = k
    BY <1>3 DEF Buffered
  <2>3. RestAt(s, w, k)
    BY <2>2 DEF StreamAt
  <2>4. r.taken = s.taken /\ (AtEnd(r, s, w, k) \/ FilledWith(r, w, k))
    BY <2>3, FillDelivers
  <2>5. r \in Stream
    BY <2>4 DEF AtEnd, FilledWith, RestAt, FileAt
  <2>6. <<>> \in Seq(Char) /\ Len(<<>>) = 0
    BY NoneIsText
  <2>. HIDE DEF f, z, r
  <2>7. HandedOut(f, r, <<>>)
    BY <2>5, <2>6, HandedTypes DEF f
  <2>8. s.taken \in Nat
    BY <1>1 DEF Stream
  <2>9. /\ f \in Stream /\ SameRest(f, r) /\ f.n = r.n /\ f.p = r.p /\ f.buff = r.buff /\ f.c = r.c
        /\ f.taken = s.taken /\ f.block = <<>>
    BY <2>4, <2>6, <2>7, <2>8 DEF HandedOut
  <2>10. CASE AtEnd(r, s, w, k)
    <3>1. k = Len(w) /\ r.c = EOZ /\ r.n = 0 /\ RestAt(r, w, k) /\ r.p = s.p /\ r.buff = s.buff
      BY <1>3, <2>10 DEF AtEnd
    <3>2. z = f /\ Buffered(z) = 0
      BY <2>1, <2>9, <3>1 DEF Buffered
    <3>3. RestAt(z, w, k)
      BY <2>9, <3>1, <3>2, RestStays
    <3>4. s.p + 0 <= Len(s.buff)
      BY <2>2 DEF StreamAt, BufferAt
    <3>5. StreamAt(z, w, k)
      BY <2>2, <2>9, <3>1, <3>2, <3>3, <3>4 DEF StreamAt, BufferAt
    <3>. QED
      BY <2>9, <3>1, <3>2, <3>5 DEF LooksAt, z
  <2>11. CASE FilledWith(r, w, k)
    <3>1. /\ r.n \in Nat /\ r.p = 1 /\ Len(r.buff) = 1 + r.n /\ k + 1 + r.n <= Len(w)
          /\ \A i \in 1 .. 1 + r.n : r.buff[i] = w[k + i]
          /\ r.c = w[k + 1] /\ r.c \in Char /\ RestAt(r, w, k + 1 + r.n)
      BY <2>11 DEF FilledWith
    <3>. DEFINE n == r.n + 1
    <3>2. n \in Nat \ {0} /\ n = 1 + r.n /\ k + n = k + 1 + r.n /\ k + 1 <= Len(w)
      <4>. DEFINE m == r.n  l == Len(w)
      <4>1. m \in Nat /\ l \in Nat /\ k + 1 + m <= l
        BY <3>1
      <4>. HIDE DEF m, l
      <4>2. /\ m + 1 \in Nat \ {0} /\ m + 1 = 1 + m /\ k + (m + 1) = k + 1 + m
            /\ k + 1 <= l
        BY <4>1
      <4>. QED
        BY <4>2 DEF m, l
    <3>3. f.c # EOZ
      BY <2>9, <3>1, CharsAre
    <3>4. z = [f EXCEPT !.n = n, !.p = 0]
      BY <2>1, <2>9, <3>1, <3>3
    <3>. HIDE DEF n
    <3>5. 0 \in Nat /\ n \in Int
      BY <3>2
    <3>6. z \in Stream
      BY <2>9, <3>4, <3>5 DEF Stream
    <3>7. /\ SameRest(z, f) /\ z.n = n /\ z.p = 0 /\ z.buff = r.buff /\ z.c = r.c /\ z.taken = s.taken
         /\ z.block = <<>>
      BY <2>9, <3>4 DEF SameRest, Stream
    <3>8. SameRest(z, r) /\ Buffered(z) = n
      BY <2>9, <3>2, <3>7 DEF SameRest, Buffered
    <3>9. RestAt(z, w, k + n)
      BY <3>1, <3>2, <3>6, <3>8, RestStays
    <3>10. BufferAt(z, w, k)
      BY <3>1, <3>2, <3>7, <3>8 DEF BufferAt
    <3>11. StreamAt(z, w, k)
      BY <3>8, <3>9, <3>10 DEF StreamAt
    <3>12. z.n \in Nat /\ z.n > 0
      BY <3>2, <3>7
    <3>. QED
      BY <3>1, <3>2, <3>6, <3>7, <3>11, <3>12 DEF LooksAt, z
  <2>. QED
    BY <2>4, <2>10, <2>11
<1>. QED
  BY <1>2, <1>3

-----------------------------------------------------------------------------
(* Reading a block of the stream *)

BlockMissing(r, n) == n - Len(r.got)
BlockMore(r, n) == BlockMissing(r, n) > 0 /\ r.s.c # EOZ
BlockCopy(r, n) ==
  LET z == Lookahead(r.s)
      m == IF BlockMissing(r, n) <= z.n THEN BlockMissing(r, n) ELSE z.n
  IN IF z.c = EOZ THEN [r EXCEPT !.s = z]
     ELSE [s |-> [z EXCEPT !.n = @ - m, !.p = @ + m],
           got |-> r.got \o SubSeq(z.buff, z.p + 1, z.p + m)]

\* In Read: the text from the k-th position on has been got, then is in s.
Getting(r, taken, w, k, n) ==
  /\ r \in [s : Stream, got : Seq(Char)]
  /\ Len(r.got) <= n /\ Window(r.got, w, k)
  /\ StreamAt(r.s, w, k + Len(r.got)) /\ r.s.n \in Nat /\ r.s.taken = taken
  /\ r.s.c = EOZ => k + Len(r.got) = Len(w)

LEMMA BlockCopyGets ==
  ASSUME NEW w \in Seq(Char), NEW k \in Nat, NEW n \in Nat, NEW taken, NEW r,
         Getting(r, taken, w, k, n), BlockMore(r, n)
  PROVE  Getting(BlockCopy(r, n), taken, w, k, n)
<1>. DEFINE b == r.got  at == k + Len(b)  z == Lookahead(r.s)  e == BlockMissing(r, n)
            m == IF e <= z.n THEN e ELSE z.n
            q == SubSeq(z.buff, z.p + 1, z.p + m)
            s2 == [z EXCEPT !.n = @ - m, !.p = @ + m]
            r2 == BlockCopy(r, n)
<1>1. /\ r \in [s : Stream, got : Seq(Char)] /\ Len(b) <= n /\ Window(b, w, k)
      /\ StreamAt(r.s, w, at) /\ r.s.n \in Nat /\ r.s.taken = taken
  BY DEF Getting
<1>2. b \in Seq(Char) /\ Len(b) \in Nat /\ at \in Nat /\ r.s \in Stream
  BY <1>1
<1>3. e \in Nat /\ e > 0 /\ Len(b) + e = n
  BY <1>2 DEF BlockMore, BlockMissing
<1>. HIDE DEF e, at
<1>4. LooksAt(z, r.s, w, at)
  BY <1>1, <1>2, LookaheadDelivers
<1>5. r2 = IF z.c = EOZ THEN [r EXCEPT !.s = z] ELSE [s |-> s2, got |-> b \o q]
  BY DEF BlockCopy, e
<1>6. /\ StreamAt(z, w, at) /\ z \in Stream /\ z.n \in Nat /\ z.taken = taken
      /\ \/ z.c = EOZ /\ at = Len(w)
         \/ z.c \in Char /\ at + 1 <= Len(w) /\ z.n > 0
  BY <1>1, <1>4 DEF LooksAt
<1>. HIDE DEF z, r2
<1>7. CASE z.c = EOZ
  <2>1. r2 = [r EXCEPT !.s = z]
    BY <1>5, <1>7
  <2>2. r2 \in [s : Stream, got : Seq(Char)] /\ r2.s = z /\ r2.got = b
    BY <1>1, <1>6, <2>1
  <2>3. at = Len(w)
    BY <1>6, <1>7, CharsAre
  <2>. HIDE DEF b
  <2>. QED
    BY <1>1, <1>6, <2>2, <2>3 DEF Getting, at, r2
<1>8. CASE z.c # EOZ
  <2>1. r2 = [s |-> s2, got |-> b \o q]
    BY <1>5, <1>8
  <2>2. z.n \in Nat \ {0} /\ z.c \in Char /\ z.p \in Nat /\ z.buff \in Seq(Char) /\ Len(z.buff) \in Nat
    BY <1>6, <1>8 DEF Stream
  <2>3. m \in Nat /\ m > 0 /\ m <= z.n /\ m <= e
    BY <1>3, <2>2
  <2>. HIDE DEF m
  <2>4. Buffered(z) = z.n
    BY <2>2 DEF Buffered
  <2>5. z.p + z.n <= Len(z.buff) /\ (\A i \in 1 .. z.n : z.buff[z.p + i] = w[at + i])
        /\ RestAt(z, w, at + z.n)
    BY <1>6, <2>4 DEF StreamAt, BufferAt
  <2>. DEFINE zn == z.n  zp == z.p  l == Len(z.buff)
  <2>6. /\ zn - m \in Nat /\ zp + m \in Nat /\ zp + m <= l /\ (zp + m) - (zp + 1) + 1 = m
        /\ zp + 1 \in Nat \ {0} /\ zp + 1 <= zp + m + 1 /\ zp + m + (zn - m) = zp + zn
        /\ at + m + (zn - m) = at + zn /\ at + m \in Nat
    <3>1. zn \in Nat \ {0} /\ zp \in Nat /\ l \in Nat /\ zp + zn <= l
      BY <2>2, <2>5
    <3>2. m \in Nat /\ m <= zn /\ at \in Nat
      BY <1>2, <2>3
    <3>. HIDE DEF zn, zp, l
    <3>3. zn - m \in Nat /\ zp + m \in Nat /\ zp + m <= l /\ (zp + m) - (zp + 1) + 1 = m
      BY <3>1, <3>2
    <3>4. zp + 1 \in Nat \ {0} /\ zp + 1 <= zp + m + 1 /\ zp + m + (zn - m) = zp + zn
      BY <3>1, <3>2
    <3>5. at + m + (zn - m) = at + zn /\ at + m \in Nat
      BY <3>1, <3>2
    <3>. QED
      BY <3>3, <3>4, <3>5
  <2>7. at + zn <= Len(w) /\ Len(w) \in Nat
    <3>1. at + zn \in Nat
      BY <1>2, <2>2
    <3>. QED
      BY <2>5, <3>1, RestTypes
  <2>8. q \in Seq(Char) /\ Len(q) = m /\ \A i \in 1 .. m : q[i] = z.buff[zp + 1 + i - 1]
    <3>. DEFINE x == z.buff  a == zp + 1  o == zp + m
    <3>1. x \in Seq(Char) /\ a \in Nat \ {0} /\ o \in Nat /\ a <= o + 1 /\ o <= Len(x) /\ o - a + 1 = m
      BY <2>2, <2>6
    <3>. HIDE DEF x, a, o
    <3>2. /\ SubSeq(x, a, o) \in Seq(Char) /\ Len(SubSeq(x, a, o)) = o - a + 1
          /\ \A i \in 1 .. o - a + 1 : SubSeq(x, a, o)[i] = x[a + i - 1]
      BY <3>1, SliceOf
    <3>3. q = SubSeq(x, a, o)
      BY DEF x, a, o
    <3>. HIDE DEF q
    <3>. QED
      BY <3>1, <3>2, <3>3 DEF x, a
  <2>. HIDE DEF q
  <2>9. at + m <= Len(w)
    BY <1>2, <2>2, <2>3, <2>7
  <2>10. ASSUME NEW i \in 1 .. m PROVE q[i] = w[at + i]
    <3>1. i \in 1 .. z.n /\ zp + 1 + i - 1 = z.p + i
      BY <2>2, <2>3
    <3>2. z.buff[z.p + i] = w[at + i]
      BY <2>5, <3>1
    <3>. QED
      BY <2>8, <3>1, <3>2
  <2>11. Window(q, w, at)
    BY <2>8, <2>9, <2>10 DEF Window
  <2>12. Window(b \o q, w, k) /\ Len(b \o q) = Len(b) + Len(q)
    BY <1>1, <2>11, WindowJoin DEF at
  <2>13. s2 = [z EXCEPT !.n = zn - m, !.p = zp + m]
    OBVIOUS
  <2>. HIDE DEF s2
  <2>14. zn - m \in Int /\ zp + m \in Nat
    BY <2>6
  <2>. DEFINE n2 == zn - m  p2 == zp + m
  <2>. HIDE DEF n2, p2
  <2>15. s2 = [z EXCEPT !.n = n2, !.p = p2] /\ n2 \in Int /\ p2 \in Nat /\ n2 \in Nat
    BY <2>6, <2>13, <2>14 DEF n2, p2
  <2>16. s2 \in Stream
    BY <1>6, <2>15 DEF Stream
  <2>17. SameRest(s2, z) /\ s2.n = n2 /\ s2.p = p2 /\ s2.buff = z.buff /\ s2.c = z.c /\ s2.taken = taken
    BY <1>6, <2>15 DEF Stream, SameRest
  <2>18. Buffered(s2) = n2
    BY <2>15, <2>17 DEF Buffered
  <2>19. RestAt(s2, w, at + m + n2)
    BY <2>5, <2>6, <2>16, <2>17, RestStays DEF n2
  <2>20. p2 + n2 <= Len(z.buff)
    BY <2>5, <2>6 DEF n2, p2
  <2>21. ASSUME NEW i \in 1 .. n2 PROVE z.buff[p2 + i] = w[at + m + i]
    <3>1. m + i \in 1 .. zn /\ zp + (m + i) = p2 + i /\ at + (m + i) = at + m + i
      <4>1. zn \in Nat /\ zp \in Nat /\ n2 = zn - m /\ p2 = zp + m
        BY <2>2 DEF n2, p2
      <4>. HIDE DEF zn, zp
      <4>. QED
        BY <1>2, <2>3, <4>1
    <3>2. z.buff[z.p + (m + i)] = w[at + (m + i)]
      BY <2>5, <3>1
    <3>. QED
      BY <3>1, <3>2
  <2>22. BufferAt(s2, w, at + m)
    BY <2>17, <2>18, <2>20, <2>21 DEF BufferAt
  <2>23. StreamAt(s2, w, at + m)
    BY <2>18, <2>19, <2>22 DEF StreamAt
  <2>. DEFINE c == b \o q
  <2>24. c \in Seq(Char) /\ Len(c) = Len(b) + m
    BY <2>8, <2>12 DEF Window
  <2>. HIDE DEF c, b
  <2>25. k + Len(c) = at + m /\ Len(c) <= n
    BY <1>2, <1>3, <2>3, <2>24 DEF at
  <2>26. r2 \in [s : Stream, got : Seq(Char)] /\ r2.s = s2 /\ r2.got = c
    BY <2>1, <2>16, <2>24 DEF c
  <2>27. Window(c, w, k) /\ s2.c # EOZ /\ s2.n \in Nat
    BY <1>8, <2>12, <2>15, <2>17 DEF c
  <2>. QED
    BY <2>17, <2>23, <2>25, <2>26, <2>27 DEF Getting, r2
<1>. QED
  BY <1>7, <1>8

\* What Read returns.
BlockAt(z, s, w, k) ==
  /\ z \in Stream /\ Window(z.block, w, k) /\ StreamAt(z, w, k + Len(z.block)) /\ z.n \in Nat
  /\ z.taken = s.taken + Len(z.block)
  /\ z.c = EOZ => k + Len(z.block) = Len(w)

LEMMA ReadBlockDelivers ==
  ASSUME NEW w \in Seq(Char), NEW k \in Nat, NEW s, StreamAt(s, w, k), s.n \in Nat, NEW n \in Nat
  PROVE  BlockAt(ReadBlock(s, n), s, w, k)
<1>. DEFINE s0 == [s EXCEPT !.c = NUL]
            start == [s |-> s0, got |-> <<>>]
            V == {r \in [s : Stream, got : Seq(Char)] : Getting(r, s.taken, w, k, n)}
            turn(r) == IF BlockMore(r, n) THEN BlockCopy(r, n) ELSE r
            next == [r \in V |-> turn(r)]
            Body(a) == [j \in 0 .. n |-> IF j = 0 THEN start ELSE turn(a[j - 1])]
            after == CHOOSE a : a = Body(a)
            z == ReadBlock(s, n)
<1>1. z = Handed(after[n].s, after[n].got)
  BY DEF ReadBlock, Iterate, BlockMore, BlockMissing, BlockCopy
<1>. HIDE DEF z
<1>2. start \in V
  <2>1. s \in Stream
    BY DEF StreamAt, RestAt, FileAt
  <2>2. /\ s0 \in Stream /\ SameRest(s0, s) /\ s0.n = s.n /\ s0.p = s.p /\ s0.buff = s.buff
        /\ s0.taken = s.taken /\ s0.c = NUL
    BY <2>1, CharsAre DEF Stream, SameRest
  <2>. HIDE DEF s0
  <2>3. StreamAt(s0, w, k)
    <3>1. Buffered(s0) = Buffered(s)
      BY <2>2 DEF Buffered
    <3>2. RestAt(s, w, k + Buffered(s)) /\ BufferAt(s, w, k)
      BY DEF StreamAt
    <3>3. RestAt(s0, w, k + Buffered(s0))
      BY <2>2, <3>1, <3>2, RestStays
    <3>. QED
      BY <2>2, <3>1, <3>2, <3>3 DEF StreamAt, BufferAt
  <2>4. s.n \in Int /\ Buffered(s) \in Nat
    BY DEF Buffered
  <2>5. k + Buffered(s) \in Nat
    BY <2>4
  <2>6. k + Buffered(s) <= Len(w) /\ Len(w) \in Nat
    BY <2>5, RestTypes DEF StreamAt
  <2>7. k <= Len(w)
    BY <2>4, <2>6
  <2>8. Window(<<>>, w, k) /\ Len(<<>>) = 0 /\ k + 0 = k /\ <<>> \in Seq(Char)
    BY <2>7, WindowNone, NoneIsText
  <2>9. start \in [s : Stream, got : Seq(Char)] /\ start.s = s0 /\ start.got = <<>>
    BY <2>2, <2>8
  <2>10. NUL # EOZ
    BY CharsAre
  <2>11. Getting(start, s.taken, w, k, n)
    BY <2>2, <2>3, <2>8, <2>9, <2>10 DEF Getting
  <2>. QED
    BY <2>9, <2>11
<1>. HIDE DEF start
<1>3. ASSUME NEW r \in V PROVE turn(r) \in V
  <2>1. CASE BlockMore(r, n)
    <3>1. Getting(BlockCopy(r, n), s.taken, w, k, n)
      BY <2>1, BlockCopyGets
    <3>. QED
      BY <2>1, <3>1 DEF Getting
  <2>2. CASE ~BlockMore(r, n)
    BY <2>2
  <2>. QED
    BY <2>1, <2>2
<1>4. next \in [V -> V] /\ \A r \in V : next[r] = turn(r)
  BY <1>3
<1>5. \A v \in V : Getting(v, s.taken, w, k, n)
  OBVIOUS
<1>. HIDE DEF V, turn, next
<1>6. PICK a : Turns(a, V, start, next, n)
  BY <1>2, <1>4, LoopsHaveTurns
<1>7. a \in [0 .. n -> V] /\ \A j \in 0 .. n : a[j] = IF j = 0 THEN start ELSE next[a[j - 1]]
  BY <1>6 DEF Turns
<1>8. a = Body(a)
  <2>1. \A j \in 0 .. n : a[j] = IF j = 0 THEN start ELSE turn(a[j - 1])
    BY <1>4, <1>7
  <2>2. a = [j \in 0 .. n |-> a[j]]
    BY <1>7
  <2>. QED
    BY <2>1, <2>2
<1>9. after = Body(after)
  BY <1>8
<1>. HIDE DEF after
<1>10. \A j \in 0 .. n : after[j] = IF j = 0 THEN start ELSE turn(after[j - 1])
  BY <1>9
<1>. DEFINE E == {j \in Nat : j <= n => after[j] \in V}
<1>11. 0 \in E
  BY <1>2, <1>10
<1>12. ASSUME NEW j \in E PROVE j + 1 \in E
  <2>. SUFFICES ASSUME j + 1 <= n PROVE after[j + 1] \in V
    OBVIOUS
  <2>1. j \in Nat /\ j <= n /\ after[j] \in V /\ after[j + 1] = turn(after[j])
    BY <1>10
  <2>. QED
    BY <1>3, <2>1
<1>13. E \in SUBSET Nat
  OBVIOUS
<1>. HIDE DEF E
<1>14. E = Nat
  BY <1>11, <1>12, <1>13, Induct
<1>15. n \in E
  BY <1>14
<1>16. after[n] \in V
  BY <1>15 DEF E
<1>. DEFINE y == after[n]  g == y.got  x == y.s
<1>17. Getting(y, s.taken, w, k, n)
  BY <1>5, <1>16
<1>. HIDE DEF y
<1>18. /\ x \in Stream /\ g \in Seq(Char) /\ Window(g, w, k) /\ StreamAt(x, w, k + Len(g))
       /\ x.n \in Nat /\ x.taken = s.taken /\ (x.c = EOZ => k + Len(g) = Len(w))
  BY <1>17 DEF Getting
<1>. HIDE DEF x, g
<1>19. HandedOut(z, x, g)
  BY <1>1, <1>18, HandedTypes DEF x, g, y
<1>20. /\ z \in Stream /\ SameRest(z, x) /\ z.n = x.n /\ z.p = x.p /\ z.buff = x.buff /\ z.c = x.c
       /\ z.block = g /\ z.taken = x.taken + Len(g)
  BY <1>19 DEF HandedOut
<1>21. StreamAt(z, w, k + Len(g))
  <2>1. Buffered(z) = Buffered(x)
    BY <1>20 DEF Buffered
  <2>2. RestAt(x, w, k + Len(g) + Buffered(x)) /\ BufferAt(x, w, k + Len(g))
    BY <1>18 DEF StreamAt
  <2>3. RestAt(z, w, k + Len(g) + Buffered(z))
    BY <1>20, <2>1, <2>2, RestStays
  <2>. QED
    BY <1>20, <2>1, <2>2, <2>3 DEF StreamAt, BufferAt
<1>. QED
  BY <1>18, <1>20, <1>21 DEF BlockAt, z

-----------------------------------------------------------------------------
(* Opening a chunk *)

LEMMA OneFirstLine ==
  ASSUME NEW text, NEW i \in Nat \ {0}, NEW j \in Nat \ {0},
         EndsFirstLine(text, i), EndsFirstLine(text, j)
  PROVE  i = j
<1>1. ~(i < j) /\ ~(j < i)
  BY DEF EndsFirstLine
<1>. QED
  BY <1>1

\* A text without its first line.
LEMMA WindowOfRest ==
  ASSUME NEW text \in Seq(Char), NEW j \in 1 .. Len(text),
         NEW rest, rest = SubSeq(text, j, Len(text))
  PROVE  /\ rest \in Seq(Char) /\ Len(rest) = Len(text) - j + 1 /\ rest[1] = text[j]
         /\ \A i \in Nat : \A s : Window(s, text, j + i) => Window(s, rest, 1 + i)
<1>1. j \in Nat \ {0} /\ Len(text) \in Nat /\ j <= Len(text) + 1
  OBVIOUS
<1>2. /\ rest \in Seq(Char) /\ Len(rest) = Len(text) - j + 1
      /\ \A i \in 1 .. Len(text) - j + 1 : rest[i] = text[j + i - 1]
  BY <1>1, SliceOf
<1>3. rest[1] = text[j]
  BY <1>1, <1>2
<1>4. ASSUME NEW s, NEW i \in Nat, Window(s, text, j + i) PROVE Window(s, rest, 1 + i)
  <2>1. /\ s \in Seq(Char) /\ j + i + Len(s) <= Len(text) /\ Len(s) \in Nat
        /\ \A h \in 1 .. Len(s) : s[h] = text[j + i + h]
    BY <1>4 DEF Window
  <2>2. 1 + i + Len(s) <= Len(rest)
    BY <1>1, <1>2, <2>1
  <2>3. ASSUME NEW h \in 1 .. Len(s) PROVE s[h] = rest[1 + i + h]
    <3>1. 1 + i + h \in 1 .. Len(text) - j + 1 /\ j + (1 + i + h) - 1 = j + i + h
      BY <1>1, <2>1
    <3>. QED
      BY <1>2, <2>1, <3>1
  <2>. QED
    BY <2>1, <2>2, <2>3 DEF Window
<1>. QED
  BY <1>2, <1>3, <1>4

LEMMA FileOfRest ==
  ASSUME NEW text \in Seq(Char), NEW j \in 1 .. Len(text), NEW s, FileAt(s, text, j)
  PROVE  FileAt(s, SubSeq(text, j, Len(text)), 1)
<1>. DEFINE rest == SubSeq(text, j, Len(text))  u == Len(s.unread)  d == Len(s.disk)  l == Len(text)
<1>1. /\ rest \in Seq(Char) /\ Len(rest) = l - j + 1
      /\ \A i \in Nat : \A x : Window(x, text, j + i) => Window(x, rest, 1 + i)
  BY WindowOfRest
<1>2. /\ s \in Stream /\ Window(s.unread, text, j) /\ Window(s.disk, text, j + u)
      /\ j + u + d = l /\ (s.eof => j = l)
  BY DEF FileAt
<1>3. u \in Nat /\ d \in Nat /\ l \in Nat
  BY FileTypes
<1>. HIDE DEF rest
<1>4. Window(s.unread, rest, 1 + 0) /\ Window(s.disk, rest, 1 + u)
  <2>1. j + 0 = j
    OBVIOUS
  <2>. QED
    BY <1>1, <1>2, <1>3, <2>1
<1>5. 1 + u + d = Len(rest) /\ (s.eof => 1 = Len(rest))
  <2>. HIDE DEF u, d, l
  <2>. QED
    BY <1>1, <1>2, <1>3
<1>6. 1 + 0 = 1
  OBVIOUS
<1>. QED
  BY <1>2, <1>4, <1>5, <1>6 DEF FileAt, rest

\* A file of which nothing has been read.
Untouched(o, text, step) ==
  /\ FileAt(o, text, 0) /\ o.step = step /\ o.n = 0 /\ o.p = 0 /\ o.buff = <<>> /\ o.taken = 0
  /\ o.reader = "getF" /\ o.extraLine = FALSE /\ o.eof = FALSE /\ o.unread = <<>> /\ o.disk = text

LEMMA OpenedIs ==
  ASSUME NEW text \in Seq(Char), NEW step \in Nat
  PROVE  Untouched(Opened(text, step), text, step)
<1>. DEFINE o == Opened(text, step)
<1>1. /\ o.step = step /\ o.n = 0 /\ o.p = 0 /\ o.buff = <<>> /\ o.taken = 0 /\ o.reader = "getF"
      /\ o.extraLine = FALSE /\ o.eof = FALSE /\ o.unread = <<>> /\ o.disk = text
  BY DEF Opened
<1>2. o \in Stream
  BY CharsAre, NoneIsText DEF Opened, Stream
<1>. HIDE DEF o
<1>3. Window(<<>>, text, 0) /\ Len(<<>>) = 0
  BY WindowNone
<1>4. Window(text, text, 0) /\ Len(text) \in Nat
  BY DEF Window
<1>5. FileAt(o, text, 0)
  BY <1>1, <1>2, <1>3, <1>4 DEF FileAt
<1>. QED
  BY <1>1, <1>5 DEF Untouched, o
-----------------------------------------------------------------------------
(* Skipping the first line *)

Unended(f) == ~FillFile(f).eof /\ f.c # "\n"

\* The file stands behind the character at p, which has been read last.
Behind(f, o, text, p) == FileAt(f, text, p) /\ SameZio(f, o) /\ f.c = text[p]

LEMMA LineTurn ==
  ASSUME NEW text \in Seq(Char), NEW j \in 1 .. Len(text) - 1, EndsFirstLine(text, j),
         NEW o, o.step > 0, NEW p \in 1 .. j, NEW f, Behind(f, o, text, p)
  PROVE  IF p = j THEN ~Unended(f) ELSE Unended(f) /\ Behind(GetC(f), o, text, p + 1)
<1>1. FileAt(f, text, p) /\ SameZio(f, o) /\ f.c = text[p] /\ f.step > 0
  BY DEF Behind, SameZio
<1>2. (FillFile(f).eof <=> p = Len(text)) /\ Len(text) \in Nat
  BY <1>1, FillFileDelivers
<1>3. p # Len(text) /\ (p = j <=> f.c = "\n")
  BY <1>1, <1>2 DEF EndsFirstLine
<1>4. SameZio(GetC(f), f) /\ FileAt(GetC(f), text, p + 1) /\ GetC(f).c = text[p + 1]
  BY <1>1, <1>3, GetCDelivers
<1>5. SameZio(GetC(f), o)
  BY <1>1, <1>4 DEF SameZio
<1>. QED
  BY <1>2, <1>3, <1>4, <1>5 DEF Unended, Behind

LEMMA LineSkipped ==
  ASSUME NEW text \in Seq(Char), NEW j \in 1 .. Len(text) - 1, EndsFirstLine(text, j),
         NEW o, o.step > 0, Behind(o, o, text, 1)
  PROVE  LET unended(f) == ~FillFile(f).eof /\ f.c # "\n"
         IN  Behind(Iterate(Len(text), o, unended, GetC), o, text, j)
<1>. DEFINE k == Len(text)
            V == {f \in Stream : \E p \in 1 .. j : Behind(f, o, text, p)}
            turn(f) == IF Unended(f) THEN GetC(f) ELSE f
            next == [f \in V |-> turn(f)]
            Body(a) == [i \in 0 .. k |-> IF i = 0 THEN o ELSE turn(a[i - 1])]
            after == CHOOSE a : a = Body(a)
            unended(f) == ~FillFile(f).eof /\ f.c # "\n"
<1>1. Iterate(Len(text), o, unended, GetC) = after[k]
  BY DEF Iterate, Unended
<1>2. j \in Nat /\ k \in Nat /\ 1 <= j /\ j < k /\ 1 \in 1 .. j
  OBVIOUS
<1>3. o \in V
  BY <1>2 DEF Behind, FileAt
<1>4. ASSUME NEW f, NEW p \in 1 .. j, Behind(f, o, text, p)
      PROVE  IF p = j THEN turn(f) = f
             ELSE p + 1 \in 1 .. j /\ Behind(turn(f), o, text, p + 1)
  <2>1. IF p = j THEN ~Unended(f) ELSE Unended(f) /\ Behind(GetC(f), o, text, p + 1)
    BY <1>4, LineTurn
  <2>2. p # j => p + 1 \in 1 .. j
    BY <1>2
  <2>. QED
    BY <2>1, <2>2
<1>. HIDE DEF turn, k
<1>5. ASSUME NEW f \in V PROVE turn(f) \in V
  <2>1. PICK p \in 1 .. j : Behind(f, o, text, p)
    OBVIOUS
  <2>2. CASE p = j
    BY <1>4, <2>1, <2>2
  <2>3. CASE p # j
    <3>1. p + 1 \in 1 .. j /\ Behind(turn(f), o, text, p + 1)
      BY <1>4, <2>1, <2>3
    <3>2. turn(f) \in Stream
      BY <3>1 DEF Behind, FileAt
    <3>. QED
      BY <3>1, <3>2
  <2>. QED
    BY <2>2, <2>3
<1>6. next \in [V -> V] /\ \A f \in V : next[f] = turn(f)
  BY <1>5
<1>. HIDE DEF V, next
<1>7. PICK a : Turns(a, V, o, next, k)
  BY <1>2, <1>3, <1>6, LoopsHaveTurns
<1>8. a \in [0 .. k -> V] /\ \A i \in 0 .. k : a[i] = IF i = 0 THEN o ELSE next[a[i - 1]]
  BY <1>7 DEF Turns
<1>9. a = Body(a)
  <2>1. ASSUME NEW i \in 0 .. k PROVE a[i] = IF i = 0 THEN o ELSE turn(a[i - 1])
    <3>1. i # 0 => i - 1 \in 0 .. k
      BY <1>2
    <3>. QED
      BY <1>6, <1>8, <3>1
  <2>2. a = [i \in 0 .. k |-> a[i]]
    BY <1>8
  <2>. QED
    BY <2>1, <2>2
<1>10. after = Body(after)
  BY <1>9
<1>. HIDE DEF after
<1>11. \A i \in 0 .. k : after[i] = IF i = 0 THEN o ELSE turn(after[i - 1])
  BY <1>10
<1>. DEFINE Reached(i) == \E p \in 1 .. j : (p = j \/ p > i) /\ Behind(after[i], o, text, p)
            E == {i \in Nat : i <= k => Reached(i)}
<1>12. 0 \in E
  <2>1. after[0] = o
    <3>1. 0 \in 0 .. k
      BY <1>2
    <3>. QED
      BY <1>11, <3>1
  <2>2. Reached(0)
    BY <1>2, <2>1
  <2>. QED
    BY <2>2
<1>13. ASSUME NEW i \in E PROVE i + 1 \in E
  <2>. SUFFICES ASSUME i + 1 <= k PROVE Reached(i + 1)
    OBVIOUS
  <2>1. i \in Nat /\ i <= k /\ i + 1 \in 0 .. k /\ i + 1 # 0 /\ (i + 1) - 1 = i
    BY <1>2
  <2>2. after[i + 1] = turn(after[i])
    BY <1>11, <2>1
  <2>3. PICK p \in 1 .. j : (p = j \/ p > i) /\ Behind(after[i], o, text, p)
    BY <2>1
  <2>4. CASE p = j
    BY <1>4, <2>2, <2>3, <2>4
  <2>5. CASE p # j
    <3>1. p + 1 \in 1 .. j /\ Behind(turn(after[i]), o, text, p + 1)
      BY <1>4, <2>3, <2>5
    <3>2. p + 1 > i + 1
      BY <1>2, <2>1, <2>3, <2>5
    <3>. QED
      BY <2>2, <3>1, <3>2
  <2>. QED
    BY <2>4, <2>5
<1>14. E \in SUBSET Nat
  OBVIOUS
<1>. HIDE DEF E
<1>15. E = Nat
  BY <1>12, <1>13, <1>14, Induct
<1>16. k \in E
  BY <1>2, <1>15
<1>17. Reached(k)
  BY <1>2, <1>16 DEF E
<1>18. PICK p \in 1 .. j : (p = j \/ p > k) /\ Behind(after[k], o, text, p)
  BY <1>17
<1>19. p = j
  BY <1>2, <1>18
<1>20. Behind(after[k], o, text, j)
  BY <1>18, <1>19
<1>. HIDE DEF Reached
<1>. QED
  BY <1>1, <1>20

\* What a chunk is before ZIO has read anything of it.
Fresh(z, w) == /\ RestAt(z, w, 0) /\ z.n = 0 /\ z.p = 0 /\ z.buff = <<>> /\ z.taken = 0

LEMMA OpenedFirst ==
  ASSUME NEW text \in Seq(Char), text # <<>>, NEW step \in Nat, step > 0,
         NEW o, o = GetC(Opened(text, step))
  PROVE  /\ FileAt(o, text, 1) /\ o.c = text[1] /\ 1 <= Len(text) /\ o.step > 0
         /\ o.n = 0 /\ o.p = 0 /\ o.buff = <<>> /\ o.taken = 0 /\ o.reader = "getF"
         /\ o.extraLine = FALSE
<1>1. Len(text) \in Nat \ {0}
  BY EmptySeq
<1>. DEFINE f == Opened(text, step)
<1>2. /\ FileAt(f, text, 0) /\ f.step = step /\ f.n = 0 /\ f.p = 0 /\ f.buff = <<>> /\ f.taken = 0
      /\ f.reader = "getF" /\ f.extraLine = FALSE
  <2>1. Untouched(f, text, step)
    BY OpenedIs
  <2>. HIDE DEF f
  <2>. QED
    BY <2>1 DEF Untouched
<1>. HIDE DEF f
<1>3. f.step > 0 /\ 0 # Len(text) /\ 0 + 1 = 1
  BY <1>1, <1>2
<1>4. SameZio(o, f) /\ FileAt(o, text, 0 + 1) /\ o.c = text[0 + 1]
  BY <1>2, <1>3, GetCDelivers DEF f
<1>. QED
  BY <1>1, <1>2, <1>3, <1>4 DEF SameZio

LEMMA WholeFile ==
  ASSUME NEW text \in Seq(Char), text # <<>>, NEW step \in Nat, step > 0,
         text[1] # "#", text[1] # SIGNATURE
  PROVE  Fresh(LLoadFile(text, step), text)
<1>. DEFINE o == GetC(Opened(text, step))  u == UngetC(o, text[0 + 1])
<1>1. /\ FileAt(o, text, 1) /\ o.c = text[1] /\ 1 <= Len(text) /\ o.step > 0
      /\ o.n = 0 /\ o.p = 0 /\ o.buff = <<>> /\ o.taken = 0 /\ o.reader = "getF"
      /\ o.extraLine = FALSE
  BY OpenedFirst
<1>2. 0 + 1 = 1
  OBVIOUS
<1>3. LLoadFile(text, step) = u
  BY <1>1, <1>2 DEF LLoadFile
<1>. HIDE DEF o
<1>4. FileAt(o, text, 0 + 1) /\ 0 + 1 <= Len(text)
  BY <1>1, <1>2
<1>5. FileAt(u, text, 0) /\ SameZio(u, o)
  BY <1>4, UngetCPutsBack
<1>. HIDE DEF u
<1>. QED
  BY <1>1, <1>3, <1>5 DEF Fresh, RestAt, SameZio

LEMMA FileWithoutLine ==
  ASSUME NEW text \in Seq(Char), NEW step \in Nat, step > 0, text[1] = "#",
         NEW j \in 1 .. Len(text) - 1, EndsFirstLine(text, j), text[j + 1] # SIGNATURE
  PROVE  Fresh(LLoadFile(text, step), SubSeq(text, j, Len(text)))
<1>. DEFINE unended(f) == ~FillFile(f).eof /\ f.c # "\n"
            o == GetC(Opened(text, step))
            line == Iterate(Len(text), o, unended, GetC)
            after == GetC(line)
            skipped == [after EXCEPT !.extraLine = TRUE]
            u == UngetC(skipped, text[j + 1])
            rest == SubSeq(text, j, Len(text))
<1>0. text # <<>> /\ Len(text) \in Nat /\ j + 1 \in 1 .. Len(text) /\ j \in Nat /\ j # Len(text)
      /\ j \in 1 .. Len(text)
  BY EmptySeq
<1>1. /\ FileAt(o, text, 1) /\ o.c = text[1] /\ 1 <= Len(text) /\ o.step > 0
      /\ o.n = 0 /\ o.p = 0 /\ o.buff = <<>> /\ o.taken = 0 /\ o.reader = "getF"
      /\ o.extraLine = FALSE
  BY <1>0, OpenedFirst
<1>2. Behind(o, o, text, 1)
  BY <1>1 DEF Behind, SameZio
<1>3. Behind(line, o, text, j)
  BY <1>1, <1>2, LineSkipped
<1>4. LLoadFile(text, step) =
        LET next == IF line.c = "\n" THEN GetC(line) ELSE line
            skip == IF o.c = "#" THEN [next EXCEPT !.extraLine = TRUE] ELSE o
            binary == skip.c = SIGNATURE
        IN UngetC(IF binary THEN Opened(text, step) ELSE skip, skip.c)
  BY DEF LLoadFile
<1>. HIDE DEF o, line
<1>5. FileAt(line, text, j) /\ SameZio(line, o) /\ line.c = "\n" /\ line.step > 0
  BY <1>1, <1>3 DEF Behind, EndsFirstLine, SameZio
<1>6. SameZio(after, line) /\ FileAt(after, text, j + 1) /\ after.c = text[j + 1]
  BY <1>0, <1>5, GetCDelivers
<1>. HIDE DEF after
<1>7. after \in Stream
  BY <1>6 DEF FileAt
<1>8. /\ skipped \in Stream /\ skipped.unread = after.unread /\ skipped.disk = after.disk
      /\ skipped.eof = after.eof /\ skipped.c = after.c /\ skipped.extraLine = TRUE
      /\ skipped.n = after.n /\ skipped.p = after.p /\ skipped.buff = after.buff
      /\ skipped.taken = after.taken /\ skipped.reader = after.reader /\ skipped.step = after.step
  BY <1>7 DEF Stream
<1>9. LLoadFile(text, step) = u
  BY <1>1, <1>4, <1>5, <1>6, <1>8 DEF after
<1>. HIDE DEF skipped
<1>a. FileAt(skipped, text, j + 1)
  BY <1>6, <1>8 DEF FileAt
<1>10. FileAt(skipped, text, j + 1) /\ j + 1 <= Len(text)
  BY <1>0, <1>a
<1>11. FileAt(u, text, j) /\ SameZio(u, skipped)
  BY <1>0, <1>10, UngetCPutsBack
<1>. HIDE DEF u
<1>12. FileAt(u, rest, 1)
  BY <1>0, <1>11, FileOfRest
<1>13. /\ rest \in Seq(Char) /\ Len(rest) = Len(text) - j + 1 /\ rest[1] = text[j]
  BY <1>0, WindowOfRest
<1>. HIDE DEF rest
<1>14. 1 <= Len(rest) /\ rest[1] = "\n" /\ 0 + 1 = 1
  BY <1>0, <1>13 DEF EndsFirstLine
<1>15. /\ u.extraLine = TRUE /\ u.reader = "getF" /\ u.step > 0 /\ u.n = 0 /\ u.p = 0
       /\ u.buff = <<>> /\ u.taken = 0
  BY <1>1, <1>5, <1>6, <1>8, <1>11 DEF SameZio
<1>16. Fresh(u, rest)
  BY <1>12, <1>14, <1>15 DEF Fresh, RestAt
<1>. QED
  BY <1>9, <1>16 DEF rest

LEMMA FromMemory ==
  ASSUME NEW text \in Seq(Char)
  PROVE  Fresh(LoadString(text), text)
<1>. DEFINE f == Opened(text, 1)  z == LoadString(text)
<1>0. 1 \in Nat
  OBVIOUS
<1>1. /\ FileAt(f, text, 0) /\ f.n = 0 /\ f.p = 0 /\ f.buff = <<>> /\ f.taken = 0
      /\ f.extraLine = FALSE /\ f.unread = <<>>
  <2>1. Untouched(f, text, 1)
    BY <1>0, OpenedIs
  <2>. HIDE DEF f
  <2>. QED
    BY <2>1 DEF Untouched
<1>2. z = [f EXCEPT !.reader = "getS"]
  BY DEF LoadString
<1>. HIDE DEF f, z
<1>3. f \in Stream
  BY <1>1 DEF FileAt
<1>4. /\ z \in Stream /\ z.unread = f.unread /\ z.disk = f.disk /\ z.eof = f.eof /\ z.n = f.n
      /\ z.p = f.p /\ z.buff = f.buff /\ z.taken = f.taken /\ z.extraLine = f.extraLine
      /\ z.reader = "getS"
  BY <1>2, <1>3 DEF Stream
<1>5. FileAt(z, text, 0)
  BY <1>1, <1>4 DEF FileAt
<1>. QED
  BY <1>1, <1>4, <1>5 DEF Fresh, RestAt, z

\* What a chunk delivers is Chunk of it, which is not longer than its text.
LEMMA OpeningDelivers ==
  ASSUME NEW c \in Chunks
  PROVE  /\ Chunk(c) \in Seq(Char) /\ Len(Chunk(c)) <= Len(c.text) /\ Len(c.text) \in Nat
         /\ Fresh(IF c.step = 0 THEN LoadString(c.text) ELSE LLoadFile(c.text, c.step), Chunk(c))
<1>. DEFINE text == c.text  step == c.step
<1>1. /\ text \in Seq(Char) /\ step \in Nat
      /\ step > 0 => /\ text # <<>> /\ text[1] # SIGNATURE
                     /\ text[1] = "#" => \E j \in 1 .. Len(text) - 1 :
                                           EndsFirstLine(text, j) /\ text[j + 1] # SIGNATURE
  BY ChunksAssumption DEF Char
<1>2. Chunk(c) = IF step = 0 \/ text[1] # "#" THEN text
                 ELSE SubSeq(text, CHOOSE j \in DOMAIN text : EndsFirstLine(text, j), Len(text))
  BY DEF Chunk
<1>. HIDE DEF text, step
<1>3. CASE step = 0
  <2>1. Fresh(LoadString(text), text)
    BY <1>1, FromMemory
  <2>. QED
    BY <1>1, <1>2, <1>3, <2>1 DEF text, step
<1>4. CASE step # 0 /\ text[1] # "#"
  <2>1. step > 0
    BY <1>1, <1>4
  <2>2. Fresh(LLoadFile(text, step), text)
    BY <1>1, <1>4, <2>1, WholeFile
  <2>. QED
    BY <1>1, <1>2, <1>4, <2>2 DEF text, step
<1>5. CASE step # 0 /\ text[1] = "#"
  <2>1. step > 0
    BY <1>1, <1>5
  <2>2. PICK j \in 1 .. Len(text) - 1 : EndsFirstLine(text, j) /\ text[j + 1] # SIGNATURE
    BY <1>1, <1>5, <2>1
  <2>. DEFINE h == CHOOSE i \in DOMAIN text : EndsFirstLine(text, i)
  <2>3. DOMAIN text = 1 .. Len(text) /\ Len(text) \in Nat /\ j \in 1 .. Len(text) /\ j \in Nat \ {0}
    BY <1>1
  <2>4. h \in DOMAIN text /\ EndsFirstLine(text, h)
    BY <2>2, <2>3
  <2>5. Chunk(c) = SubSeq(text, h, Len(text))
    BY <1>2, <1>5
  <2>. HIDE DEF h
  <2>6. h = j
    BY <2>2, <2>3, <2>4, OneFirstLine
  <2>7. Chunk(c) \in Seq(Char) /\ Len(Chunk(c)) = Len(text) - j + 1
    BY <1>1, <2>3, <2>5, <2>6, WindowOfRest
  <2>8. Fresh(LLoadFile(text, step), SubSeq(text, j, Len(text)))
    BY <1>1, <1>5, <2>1, <2>2, FileWithoutLine
  <2>9. Len(Chunk(c)) <= Len(text)
    BY <2>3, <2>7
  <2>. QED
    BY <1>5, <2>3, <2>5, <2>6, <2>7, <2>8, <2>9 DEF text, step
<1>. QED
  BY <1>3, <1>4, <1>5

-----------------------------------------------------------------------------
(* The invariant *)

LexFields == {"z", "lineNumber", "lastLine", "t", "lookAhead", "ahead", "buff", "mode", "caller",
              "bracket", "count", "sep", "comment", "del", "code"}

IsLex(l) == l = [f \in LexFields |-> l[f]]

\* The last bytes that were handed out are in block.
LastHanded(z, w) == Len(z.block) <= z.taken /\ Window(z.block, w, z.taken - Len(z.block))

\* Source is read byte by byte, and never past its end.
TextAt(z, w) ==
  /\ StreamAt(z, w, z.taken) /\ LastHanded(z, w)
  /\ z.c = EOZ => z.n = -1 /\ z.taken = Len(w)
  /\ z.c # EOZ => z.c \in Char /\ z.n \in Nat /\ z.taken > 0

BinaryAt(z, w) ==
  /\ StreamAt(z, w, z.taken) /\ LastHanded(z, w)
  /\ z.n \in Nat
  /\ z.c = EOZ => z.taken = Len(w)

\* How many characters llex has still to take, the current one included.
Left(z, w) == Len(w) - z.taken + IF z.c = EOZ THEN 0 ELSE 1

\* How many turns llex may take with the current character.
Weight(l) ==
  IF l.mode \in {"idle", "failed"} THEN 0
  ELSE IF l.mode \in {"suffix", "opening", "name", "string"} THEN 1
  ELSE IF l.mode \in {"numeral", "long", "decimal"} THEN 2
  ELSE IF l.mode = "scan" THEN 3
  ELSE IF l.mode \in {"short", "same"} THEN 4
  ELSE IF l.caller = "comment" THEN 5 ELSE IF l.caller = "token" THEN 2 ELSE 3

\* What llex remembers of a bracket and of the end of a string.
BracketsOK(l) ==
  /\ l.mode = "sep" => /\ l.bracket \in {"[", "]"} /\ l.count \in Nat
                       /\ l.caller \in {"comment", "token", "long"}
                       /\ l.caller = "long" => l.sep \in Nat
  /\ l.mode = "opening" => l.z.c \in {"[", "]"}
  /\ l.mode \in {"opening", "long", "same"} => l.sep \in Nat
  /\ l.mode \in {"string", "decimal"} => l.del \in Quotes

LexOK(l, w) == IsLex(l) /\ TextAt(l.z, w) /\ BracketsOK(l)

Binary(l) == l.mode \in {"binary", "truncated"}

IInv ==
  /\ chunk \in Chunks /\ turns \in Nat
  /\ IF Binary(ls)
     THEN IsLex(ls) /\ BinaryAt(ls.z, Chunk(chunk)) /\ turns = 0
     ELSE /\ LexOK(ls, Chunk(chunk))
          /\ turns + 2 * Left(ls.z, Chunk(chunk)) + Weight(ls) <= 2 * Len(Chunk(chunk)) + 3

\* Where the characters stand.
LEMMA TextTypes ==
  ASSUME NEW w \in Seq(Char), NEW z, StreamAt(z, w, z.taken)
  PROVE  /\ z \in Stream /\ z.taken \in Nat /\ Len(w) \in Nat /\ z.taken <= Len(w) /\ z.n \in Int
         /\ Left(z, w) \in Nat
<1>1. z \in Stream
  BY DEF StreamAt, RestAt, FileAt
<1>2. z.taken \in Nat /\ z.n \in Int /\ Buffered(z) \in Nat /\ z.taken + Buffered(z) \in Nat
  BY <1>1 DEF Stream, Buffered
<1>3. z.taken + Buffered(z) <= Len(w) /\ Len(w) \in Nat
  BY <1>2, RestTypes DEF StreamAt
<1>4. z.taken <= Len(w)
  BY <1>2, <1>3
<1>. QED
  BY <1>1, <1>2, <1>3, <1>4 DEF Left

LEMMA GetChReads ==
  ASSUME NEW w \in Seq(Char), NEW z, StreamAt(z, w, z.taken), z.n \in Nat
  PROVE  /\ TextAt(GetCh(z), w)
         /\ Left(GetCh(z), w) \in Nat /\ Left(GetCh(z), w) = Len(w) - z.taken
<1>. DEFINE g == GetCh(z)  k == z.taken
<1>1. k \in Nat /\ Len(w) \in Nat /\ k <= Len(w)
  BY TextTypes
<1>2. GetsNext(g, z, w, k)
  BY <1>1, GetChDelivers
<1>. HIDE DEF g, k
<1>3. CASE g.c = EOZ
  <2>1. k = Len(w) /\ g.block = <<>> /\ g.n = -1 /\ g.taken = k /\ StreamAt(g, w, k)
    BY <1>2, <1>3, CharsAre DEF GetsNext, k
  <2>2. Window(<<>>, w, k) /\ Len(<<>>) = 0 /\ k - 0 = k
    BY <1>1, WindowNone
  <2>. QED
    BY <1>1, <1>3, <2>1, <2>2 DEF TextAt, LastHanded, Left, g, k
<1>4. CASE g.c # EOZ
  <2>1. /\ k + 1 <= Len(w) /\ g.c = w[k + 1] /\ g.c \in Char /\ g.block = <<g.c>> /\ g.n \in Nat
        /\ g.taken = k + 1 /\ StreamAt(g, w, k + 1)
    BY <1>2, <1>4 DEF GetsNext, k
  <2>2. Window(<<w[k + 1]>>, w, k) /\ Len(<<w[k + 1]>>) = 1
    BY <1>1, <2>1, WindowOne
  <2>4. /\ k + 1 - 1 = k /\ 1 <= k + 1 /\ k + 1 > 0
        /\ \A m \in Nat : m - (k + 1) + 1 = m - k
    BY <1>1
  <2>5. Len(w) - g.taken + 1 = Len(w) - k /\ Len(w) - k \in Nat
    BY <1>1, <2>1, <2>4
  <2>3. LastHanded(g, w)
    <3>. DEFINE b == <<w[k + 1]>>
    <3>1. g.block = b
      BY <2>1
    <3>. HIDE DEF b
    <3>2. Len(b) = 1 /\ Window(b, w, k)
      BY <2>2 DEF b
    <3>3. Len(g.block) <= g.taken /\ g.taken - Len(g.block) = k
      BY <1>1, <2>1, <3>1, <3>2
    <3>4. Window(g.block, w, g.taken - Len(g.block))
      BY <3>1, <3>2, <3>3, Zenon
    <3>. QED
      BY <3>3, <3>4 DEF LastHanded
  <2>6. TextAt(g, w)
    BY <1>4, <2>1, <2>3, <2>4 DEF TextAt
  <2>7. Left(g, w) = Len(w) - k
    BY <1>4, <2>5 DEF Left
  <2>. QED
    BY <2>5, <2>6, <2>7 DEF g, k
<1>. QED
  BY <1>3, <1>4

-----------------------------------------------------------------------------
(* The operations of the analyser *)

Kept(m, l) ==
  /\ m.mode = l.mode /\ m.ahead = l.ahead /\ m.caller = l.caller /\ m.bracket = l.bracket
  /\ m.count = l.count /\ m.sep = l.sep /\ m.comment = l.comment /\ m.del = l.del

\* From l to m at least d characters have been taken.
Ate(m, l, w, d) ==
  /\ IsLex(m) /\ TextAt(m.z, w) /\ Kept(m, l)
  /\ Left(m.z, w) \in Nat /\ Left(l.z, w) \in Nat /\ Left(m.z, w) + d <= Left(l.z, w)

Reads(l, w) == IsLex(l) /\ TextAt(l.z, w)

LEMMA NextCharEats ==
  ASSUME NEW w \in Seq(Char), NEW l, Reads(l, w), l.z.c # EOZ
  PROVE  Ate(NextChar(l), l, w, 1) /\ Reads(NextChar(l), w)
<1>. DEFINE g == GetCh(l.z)  m == NextChar(l)
<1>1. m = [l EXCEPT !.z = g]
  BY DEF NextChar
<1>2. StreamAt(l.z, w, l.z.taken) /\ l.z.n \in Nat
  BY DEF Reads, TextAt
<1>3. TextAt(g, w) /\ Left(g, w) \in Nat /\ Left(g, w) = Len(w) - l.z.taken
  BY <1>2, GetChReads
<1>4. l.z.taken \in Nat /\ Len(w) \in Nat /\ l.z.taken <= Len(w)
  BY <1>2, TextTypes
<1>5. Left(l.z, w) = Len(w) - l.z.taken + 1
  BY DEF Left
<1>. HIDE DEF g, m
<1>6. IsLex(m) /\ m.z = g /\ Kept(m, l)
  BY <1>1 DEF Reads, IsLex, LexFields, Kept
<1>. QED
  BY <1>3, <1>4, <1>5, <1>6 DEF Ate, Reads, m

LEMMA SaveKeeps ==
  ASSUME NEW w \in Seq(Char), NEW l, Reads(l, w), NEW c
  PROVE  /\ Save(l, c).z = l.z /\ Reads(Save(l, c), w) /\ Ate(Save(l, c), l, w, 0)
         /\ Reset(l).z = l.z /\ Reads(Reset(l), w) /\ Ate(Reset(l), l, w, 0)
<1>1. StreamAt(l.z, w, l.z.taken)
  BY DEF Reads, TextAt
<1>2. Left(l.z, w) \in Nat
  BY <1>1, TextTypes
<1>3. /\ IsLex(Save(l, c)) /\ Save(l, c).z = l.z /\ Kept(Save(l, c), l)
  BY DEF Reads, IsLex, LexFields, Kept, Save
<1>4. /\ IsLex(Reset(l)) /\ Reset(l).z = l.z /\ Kept(Reset(l), l)
  BY DEF Reads, IsLex, LexFields, Kept, Reset
<1>. QED
  BY <1>2, <1>3, <1>4 DEF Ate, Reads

LEMMA AteThenAte ==
  ASSUME NEW w, NEW l, NEW m, NEW h, NEW d \in Nat, NEW e \in Nat, Ate(m, l, w, d), Ate(h, m, w, e)
  PROVE  Ate(h, l, w, d + e)
<1>1. Left(h.z, w) + (d + e) <= Left(l.z, w)
  BY DEF Ate
<1>. QED
  BY <1>1 DEF Ate, Kept

LEMMA SaveAndNextEats ==
  ASSUME NEW w \in Seq(Char), NEW l, Reads(l, w), l.z.c # EOZ
  PROVE  Ate(SaveAndNext(l), l, w, 1) /\ Reads(SaveAndNext(l), w)
<1>. DEFINE s == Save(l, Current(l))
<1>1. s.z = l.z /\ Reads(s, w) /\ Ate(s, l, w, 0)
  BY SaveKeeps
<1>. HIDE DEF s
<1>2. Ate(NextChar(s), s, w, 1) /\ Reads(NextChar(s), w)
  BY <1>1, NextCharEats
<1>3. Ate(NextChar(s), l, w, 0 + 1) /\ 0 + 1 = 1
  BY <1>1, <1>2, AteThenAte
<1>. QED
  BY <1>2, <1>3 DEF s, SaveAndNext

LEMMA IncLineNumberEats ==
  ASSUME NEW w \in Seq(Char), NEW l, Reads(l, w), l.z.c # EOZ
  PROVE  Ate(IncLineNumber(l), l, w, 1) /\ Reads(IncLineNumber(l), w)
<1>. DEFINE first == NextChar(l)  pair == At(first, Newlines) /\ Current(first) # Current(l)
            after == IF pair THEN NextChar(first) ELSE first
            m == IncLineNumber(l)
<1>1. Ate(first, l, w, 1) /\ Reads(first, w)
  BY NextCharEats
<1>2. m = [after EXCEPT !.lineNumber = @ + 1]
  BY DEF IncLineNumber
<1>. HIDE DEF first, m
<1>3. Ate(after, l, w, 1) /\ Reads(after, w)
  <2>1. CASE pair
    <3>1. first.z.c # EOZ
      BY <2>1, CharsAre DEF At, Current, Newlines, EOZ
    <3>2. Ate(NextChar(first), first, w, 1) /\ Reads(NextChar(first), w)
      BY <1>1, <3>1, NextCharEats
    <3>3. Ate(NextChar(first), l, w, 1 + 1)
      BY <1>1, <3>2, AteThenAte
    <3>4. Ate(NextChar(first), l, w, 1)
      BY <3>3 DEF Ate
    <3>. QED
      BY <2>1, <3>2, <3>4
  <2>2. CASE ~pair
    BY <1>1, <2>2
  <2>. QED
    BY <2>1, <2>2
<1>. HIDE DEF after, pair
<1>4. IsLex(m) /\ m.z = after.z /\ Kept(m, after)
  BY <1>2, <1>3 DEF Reads, IsLex, LexFields, Kept
<1>. QED
  BY <1>3, <1>4 DEF Ate, Reads, Kept, m

-----------------------------------------------------------------------------
(* Turns *)

Goes(m, l, w, d) ==
  /\ IsLex(m) /\ TextAt(m.z, w)
  /\ Left(m.z, w) \in Nat /\ Left(l.z, w) \in Nat /\ Left(m.z, w) + d <= Left(l.z, w)

\* A turn that takes l to m.
Turn(m, l, w) ==
  /\ LexOK(m, w) /\ ~Binary(m)
  /\ Left(m.z, w) \in Nat /\ Left(l.z, w) \in Nat
  /\ 2 * Left(m.z, w) + Weight(m) + 1 <= 2 * Left(l.z, w) + Weight(l)

LEMMA WeightTypes == ASSUME NEW l PROVE Weight(l) \in 0 .. 5
BY DEF Weight

LEMMA TurnOf ==
  ASSUME NEW w, NEW l, NEW m, NEW d \in Nat, Goes(m, l, w, d), BracketsOK(m), ~Binary(m),
         Weight(m) + 1 <= 2 * d + Weight(l)
  PROVE  Turn(m, l, w)
<1>1. Weight(l) \in Nat /\ Weight(m) \in Nat
  BY WeightTypes
<1>. DEFINE a == Left(m.z, w)  b == Left(l.z, w)  p == Weight(m)  q == Weight(l)
<1>2. a \in Nat /\ b \in Nat /\ a + d <= b /\ p \in Nat /\ q \in Nat /\ p + 1 <= 2 * d + q
  BY <1>1 DEF Goes
<1>. HIDE DEF a, b, p, q
<1>3. 2 * a + p + 1 <= 2 * b + q
  BY <1>2
<1>. QED
  BY <1>2, <1>3 DEF Turn, Goes, LexOK, a, b, p, q

LEMMA InMode ==
  ASSUME NEW w, NEW l, NEW x, NEW d, Ate(x, l, w, d), NEW mode
  PROVE  /\ Goes(In(x, mode), l, w, d) /\ In(x, mode).mode = mode /\ In(x, mode).z = x.z
         /\ In(x, mode).bracket = l.bracket /\ In(x, mode).count = l.count
         /\ In(x, mode).sep = l.sep /\ In(x, mode).del = l.del /\ In(x, mode).caller = l.caller
<1>1. /\ IsLex(In(x, mode)) /\ In(x, mode).mode = mode /\ In(x, mode).z = x.z
      /\ In(x, mode).bracket = x.bracket /\ In(x, mode).count = x.count
      /\ In(x, mode).sep = x.sep /\ In(x, mode).del = x.del /\ In(x, mode).caller = x.caller
  BY DEF Ate, IsLex, LexFields, In
<1>. QED
  BY <1>1 DEF Ate, Goes, Kept

LEMMA Ends ==
  ASSUME NEW w, NEW l, NEW x, NEW d \in Nat, Ate(x, l, w, d), Weight(l) > 0, NEW kind, NEW value
  PROVE  Turn(Return(x, kind, value), l, w) /\ Turn(LexError(x, value), l, w)
         /\ Turn(Symbol(x, value), l, w)
<1>1. ASSUME NEW m, IsLex(m), m.z = x.z, m.mode \in {"idle", "failed"}
      PROVE  Turn(m, l, w)
  <2>1. Goes(m, l, w, d) /\ BracketsOK(m) /\ ~Binary(m) /\ Weight(m) = 0
    BY <1>1 DEF Goes, Ate, BracketsOK, Binary, Weight
  <2>2. Weight(l) \in Nat
    BY WeightTypes
  <2>3. Weight(m) + 1 <= 2 * d + Weight(l)
    BY <2>1, <2>2
  <2>. QED
    BY <2>1, <2>3, TurnOf
<1>2. ASSUME NEW k
      PROVE  IsLex(Return(x, k, value)) /\ Return(x, k, value).z = x.z /\ Return(x, k, value).mode = "idle"
  BY DEF Ate, IsLex, LexFields, Return
<1>3. IsLex(LexError(x, value)) /\ LexError(x, value).z = x.z /\ LexError(x, value).mode = "failed"
  BY DEF Ate, IsLex, LexFields, LexError
<1>. QED
  BY <1>1, <1>2, <1>3 DEF Symbol

LEMMA SkipSepTurns ==
  ASSUME NEW w \in Seq(Char), NEW l, NEW x, NEW d \in Nat, Ate(x, l, w, d), At(x, {"[", "]"}),
         NEW caller \in {"comment", "token", "long"}, caller = "long" => l.sep \in Nat
  PROVE  LET m == SkipSep(x, caller)
         IN Goes(m, l, w, d + 1) /\ BracketsOK(m) /\ m.mode = "sep" /\ m.caller = caller
<1>. DEFINE s == SaveAndNext(x)  m == SkipSep(x, caller)  b == Current(x)
<1>1. x.z.c # EOZ /\ b \in {"[", "]"} /\ Reads(x, w)
  BY DEF At, Current, EOZ, Reads, Ate
<1>2. Ate(s, x, w, 1)
  BY <1>1, SaveAndNextEats
<1>3. Ate(s, l, w, d + 1)
  BY <1>2, AteThenAte
<1>4. m = [s EXCEPT !.mode = "sep", !.caller = caller, !.bracket = b, !.count = 0]
  BY DEF SkipSep
<1>. HIDE DEF s, m, b
<1>5. /\ IsLex(m) /\ m.z = s.z /\ m.mode = "sep" /\ m.caller = caller /\ m.bracket = b /\ m.count = 0
      /\ m.sep = s.sep
  BY <1>3, <1>4 DEF Ate, IsLex, LexFields
<1>6. Goes(m, l, w, d + 1)
  BY <1>3, <1>5 DEF Ate, Goes
<1>7. m.sep = l.sep
  BY <1>3, <1>5 DEF Ate, Kept
<1>8. BracketsOK(m)
  BY <1>1, <1>5, <1>7 DEF BracketsOK
<1>. QED
  BY <1>5, <1>6, <1>8 DEF m

-----------------------------------------------------------------------------
(* The turns of llex: a token's first character *)

LEMMA AteNothing ==
  ASSUME NEW w \in Seq(Char), NEW l, LexOK(l, w)
  PROVE  Reads(l, w) /\ Ate(l, l, w, 0)
<1>1. StreamAt(l.z, w, l.z.taken)
  BY DEF LexOK, TextAt
<1>2. Left(l.z, w) \in Nat
  BY <1>1, TextTypes
<1>. QED
  BY <1>2 DEF LexOK, Reads, Ate, Kept

LEMMA ScanningAt ==
  ASSUME NEW chars, EOZ \notin chars, Scanning(chars)
  PROVE  ls.z.c # EOZ /\ Weight(ls) = 3
BY DEF Scanning, At, Current, Weight

LEMMA SpaceTurns ==
  ASSUME NEW w \in Seq(Char), LexOK(ls, w), SkipNewline \/ SkipSpace
  PROVE  Turn(ls', ls, w)
<1>1. EOZ \notin Newlines /\ EOZ \notin {Space}
  BY DEF EOZ, Newlines, Space
<1>2. ls.z.c # EOZ /\ Weight(ls) = 3 /\ ls.mode = "scan"
  BY <1>1, ScanningAt DEF SkipNewline, SkipSpace, Scanning
<1>3. Reads(ls, w)
  BY AteNothing
<1>4. Ate(IncLineNumber(ls), ls, w, 1) /\ Ate(NextChar(ls), ls, w, 1)
  BY <1>2, <1>3, IncLineNumberEats, NextCharEats
<1>5. Ate(ls', ls, w, 1)
  BY <1>4 DEF SkipNewline, SkipSpace, Step
<1>6. Goes(ls', ls, w, 1) /\ ls'.mode = "scan"
  BY <1>2, <1>5 DEF Ate, Kept, Goes
<1>7. BracketsOK(ls') /\ ~Binary(ls') /\ Weight(ls') = 3
  BY <1>6 DEF BracketsOK, Binary, Weight
<1>8. Weight(ls') + 1 <= 2 * 1 + Weight(ls)
  BY <1>2, <1>7
<1>. QED
  BY <1>6, <1>7, <1>8, TurnOf

LEMMA MinusTurns ==
  ASSUME NEW w \in Seq(Char), LexOK(ls, w), Minus
  PROVE  Turn(ls', ls, w)
<1>. DEFINE one == NextChar(ls)  two == NextChar(one)
<1>1. ls.z.c # EOZ /\ Weight(ls) = 3
  BY ScanningAt DEF Minus, EOZ
<1>2. Reads(ls, w)
  BY AteNothing
<1>3. Ate(one, ls, w, 1) /\ Reads(one, w)
  BY <1>1, <1>2, NextCharEats
<1>4. ls' = IF ~At(one, {"-"}) THEN Symbol(one, <<"-">>)
            ELSE IF At(two, {"["}) THEN SkipSep(two, "comment") ELSE In(two, "short")
  BY DEF Minus, Step
<1>. HIDE DEF one
<1>5. CASE ~At(one, {"-"})
  BY <1>1, <1>3, <1>4, <1>5, Ends
<1>6. CASE At(one, {"-"})
  <2>1. one.z.c # EOZ
    BY <1>6 DEF At, Current, EOZ
  <2>2. Ate(two, one, w, 1) /\ Reads(two, w)
    BY <1>3, <2>1, NextCharEats
  <2>3. Ate(two, ls, w, 1 + 1) /\ 1 + 1 = 2
    BY <1>3, <2>2, AteThenAte
  <2>4. Ate(two, ls, w, 2)
    BY <2>3
  <2>. HIDE DEF two
  <2>5. CASE At(two, {"["})
    <3>. DEFINE m == SkipSep(two, "comment")
    <3>1. At(two, {"[", "]"})
      BY <2>5 DEF At
    <3>2. Goes(m, ls, w, 2 + 1) /\ BracketsOK(m) /\ m.mode = "sep" /\ m.caller = "comment"
      BY <2>4, <3>1, SkipSepTurns
    <3>3. ls' = m
      BY <1>4, <1>6, <2>5
    <3>. HIDE DEF m
    <3>4. ~Binary(m) /\ Weight(m) = 5
      BY <3>2 DEF Binary, Weight
    <3>5. Weight(m) + 1 <= 2 * (2 + 1) + Weight(ls)
      BY <1>1, <3>4
    <3>. QED
      BY <3>2, <3>3, <3>4, <3>5, TurnOf
  <2>6. CASE ~At(two, {"["})
    <3>. DEFINE m == In(two, "short")
    <3>1. Goes(m, ls, w, 2) /\ m.mode = "short"
      BY <2>4, InMode
    <3>3. ls' = m
      BY <1>4, <1>6, <2>6
    <3>. HIDE DEF m
    <3>4. BracketsOK(m) /\ ~Binary(m) /\ Weight(m) = 4
      BY <3>1 DEF Binary, Weight, BracketsOK
    <3>5. Weight(m) + 1 <= 2 * 2 + Weight(ls)
      BY <1>1, <3>4
    <3>. QED
      BY <3>1, <3>3, <3>4, <3>5, TurnOf
  <2>. QED
    BY <2>5, <2>6
<1>. QED
  BY <1>5, <1>6

LEMMA OpenBracketTurns ==
  ASSUME NEW w \in Seq(Char), LexOK(ls, w), OpenBracket
  PROVE  Turn(ls', ls, w)
<1>. DEFINE m == SkipSep(ls, "token")
<1>1. Weight(ls) = 3 /\ ls' = m
  BY ScanningAt DEF OpenBracket, EOZ, Step
<1>2. At(ls, {"[", "]"})
  BY DEF OpenBracket, Scanning, At
<1>3. Ate(ls, ls, w, 0)
  BY AteNothing
<1>4. Goes(m, ls, w, 0 + 1) /\ BracketsOK(m) /\ m.mode = "sep" /\ m.caller = "token"
  BY <1>2, <1>3, SkipSepTurns
<1>. HIDE DEF m
<1>5. ~Binary(m) /\ Weight(m) = 2
  BY <1>4 DEF Binary, Weight
<1>6. Weight(m) + 1 <= 2 * (0 + 1) + Weight(ls)
  BY <1>1, <1>5
<1>. QED
  BY <1>1, <1>4, <1>5, <1>6, TurnOf

LEMMA SymbolTurns ==
  ASSUME NEW w \in Seq(Char), LexOK(ls, w), Comparison \/ Single \/ EndOfStream
  PROVE  Turn(ls', ls, w)
<1>. DEFINE l == NextChar(ls)
<1>1. Weight(ls) = 3 /\ Weight(ls) > 0
  BY DEF Comparison, Single, EndOfStream, Scanning, Weight
<1>2. Reads(ls, w) /\ Ate(ls, ls, w, 0)
  BY AteNothing
<1>3. CASE EndOfStream
  BY <1>1, <1>2, <1>3, Ends DEF EndOfStream, Step
<1>4. CASE Single
  <2>1. ls.z.c # EOZ
    BY <1>4 DEF Single, Scanning, At, Current, EOZ, NUL, SIGNATURE, Backslash
  <2>2. Ate(l, ls, w, 1)
    BY <1>2, <2>1, NextCharEats
  <2>. QED
    BY <1>1, <1>4, <2>2, Ends DEF Single, Step
<1>5. CASE Comparison
  <2>1. ls.z.c # EOZ
    BY <1>5 DEF Comparison, Scanning, At, Current, EOZ
  <2>2. Ate(l, ls, w, 1) /\ Reads(l, w)
    BY <1>2, <2>1, NextCharEats
  <2>3. ls' = IF At(l, {"="}) THEN Symbol(NextChar(l), <<Current(ls), "=">>)
              ELSE Symbol(l, <<Current(ls)>>)
    BY <1>5 DEF Comparison, Step
  <2>. HIDE DEF l
  <2>4. CASE At(l, {"="})
    <3>1. l.z.c # EOZ
      BY <2>4 DEF At, Current, EOZ
    <3>2. Ate(NextChar(l), l, w, 1)
      BY <2>2, <3>1, NextCharEats
    <3>3. Ate(NextChar(l), ls, w, 1 + 1)
      BY <2>2, <3>2, AteThenAte
    <3>. QED
      BY <1>1, <2>3, <2>4, <3>3, Ends
  <2>5. CASE ~At(l, {"="})
    BY <1>1, <2>2, <2>3, <2>5, Ends
  <2>. QED
    BY <2>4, <2>5
<1>. QED
  BY <1>3, <1>4, <1>5

LEMMA DotTurns ==
  ASSUME NEW w \in Seq(Char), LexOK(ls, w), Dot
  PROVE  Turn(ls', ls, w)
<1>. DEFINE one == SaveAndNext(ls)  two == SaveAndNext(one)  three == SaveAndNext(two)
<1>1. ls.z.c # EOZ /\ Weight(ls) = 3 /\ Weight(ls) > 0
  BY ScanningAt DEF Dot, EOZ
<1>2. Reads(ls, w)
  BY AteNothing
<1>3. Ate(one, ls, w, 1) /\ Reads(one, w)
  BY <1>1, <1>2, SaveAndNextEats
<1>4. ls' = IF At(one, {"."}) THEN IF At(two, {"."}) THEN Symbol(three, <<".", ".", ".">>)
                                   ELSE Symbol(two, <<".", ".">>)
            ELSE IF At(one, Digits) THEN In(one, "numeral") ELSE Symbol(one, <<".">>)
  BY DEF Dot, Step
<1>. HIDE DEF one
<1>5. CASE At(one, {"."})
  <2>1. one.z.c # EOZ
    BY <1>5 DEF At, Current, EOZ
  <2>2. Ate(two, one, w, 1) /\ Reads(two, w)
    BY <1>3, <2>1, SaveAndNextEats
  <2>3. Ate(two, ls, w, 1 + 1)
    BY <1>3, <2>2, AteThenAte
  <2>. HIDE DEF two
  <2>4. CASE At(two, {"."})
    <3>1. two.z.c # EOZ
      BY <2>4 DEF At, Current, EOZ
    <3>2. Ate(three, two, w, 1)
      BY <2>2, <3>1, SaveAndNextEats
    <3>3. Ate(three, ls, w, (1 + 1) + 1)
      BY <2>3, <3>2, AteThenAte
    <3>. QED
      BY <1>1, <1>4, <1>5, <2>4, <3>3, Ends
  <2>5. CASE ~At(two, {"."})
    BY <1>1, <1>4, <1>5, <2>3, <2>5, Ends
  <2>. QED
    BY <2>4, <2>5
<1>6. CASE ~At(one, {"."}) /\ At(one, Digits)
  <2>. DEFINE m == In(one, "numeral")
  <2>1. Goes(m, ls, w, 1) /\ m.mode = "numeral" /\ ls' = m
    BY <1>3, <1>4, <1>6, InMode
  <2>. HIDE DEF m
  <2>2. BracketsOK(m) /\ ~Binary(m) /\ Weight(m) = 2
    BY <2>1 DEF Binary, Weight, BracketsOK
  <2>3. Weight(m) + 1 <= 2 * 1 + Weight(ls)
    BY <1>1, <2>2
  <2>. QED
    BY <2>1, <2>2, <2>3, TurnOf
<1>7. CASE ~At(one, {"."}) /\ ~At(one, Digits)
  BY <1>1, <1>3, <1>4, <1>7, Ends
<1>. QED
  BY <1>5, <1>6, <1>7

LEMMA StartTurns ==
  ASSUME NEW w \in Seq(Char), LexOK(ls, w), StartNumeral \/ StartName \/ StartString
  PROVE  Turn(ls', ls, w)
<1>1. Weight(ls) = 3
  BY DEF StartNumeral, StartName, StartString, Scanning, Weight
<1>2. Reads(ls, w) /\ Ate(ls, ls, w, 0)
  BY AteNothing
<1>3. CASE StartNumeral \/ StartName
  <2>1. PICK mode \in {"numeral", "name"} : ls' = In(ls, mode)
    BY <1>3 DEF StartNumeral, StartName, Step
  <2>2. Goes(ls', ls, w, 0) /\ ls'.mode \in {"numeral", "name"}
    BY <1>2, <2>1, InMode
  <2>3. BracketsOK(ls') /\ ~Binary(ls') /\ Weight(ls') \in {1, 2}
    BY <2>2 DEF Binary, Weight, BracketsOK
  <2>4. Weight(ls') + 1 <= 2 * 0 + Weight(ls)
    BY <1>1, <2>3
  <2>. QED
    BY <2>2, <2>3, <2>4, TurnOf
<1>4. CASE StartString
  <2>. DEFINE s == SaveAndNext(ls)  q == Current(ls)
  <2>1. ls.z.c # EOZ /\ q \in Quotes
    BY <1>4 DEF StartString, Scanning, At, Current, EOZ, Quotes
  <2>2. Ate(s, ls, w, 1)
    BY <1>2, <2>1, SaveAndNextEats
  <2>3. ls' = [s EXCEPT !.mode = "string", !.del = q]
    BY <1>4 DEF StartString, Step
  <2>. HIDE DEF s, q
  <2>4. IsLex(ls') /\ ls'.z = s.z /\ ls'.mode = "string" /\ ls'.del = q
    BY <2>2, <2>3 DEF Ate, IsLex, LexFields
  <2>5. Goes(ls', ls, w, 1)
    BY <2>2, <2>4 DEF Ate, Goes
  <2>6. BracketsOK(ls') /\ ~Binary(ls') /\ Weight(ls') = 1
    BY <2>1, <2>4 DEF Binary, Weight, BracketsOK
  <2>7. Weight(ls') + 1 <= 2 * 1 + Weight(ls)
    BY <1>1, <2>6
  <2>. QED
    BY <2>5, <2>6, <2>7, TurnOf
<1>. QED
  BY <1>3, <1>4

-----------------------------------------------------------------------------
(* The turns of the readers *)

WeightIn(mode) ==
  IF mode \in {"suffix", "name", "string"} THEN 1
  ELSE IF mode \in {"numeral", "long", "decimal"} THEN 2
  ELSE IF mode = "scan" THEN 3 ELSE 4

LEMMA StaysIn ==
  ASSUME NEW w, NEW l, LexOK(l, w), ~Binary(l), l.mode # "opening",
         NEW x, NEW d \in Nat, Ate(x, l, w, d), d > 0
  PROVE  Turn(x, l, w)
<1>1. Weight(l) \in Nat
  BY WeightTypes
<1>2. BracketsOK(x) /\ ~Binary(x) /\ Weight(x) = Weight(l)
  BY DEF LexOK, Ate, Kept, BracketsOK, Binary, Weight
<1>3. Weight(x) + 1 <= 2 * d + Weight(l)
  BY <1>1, <1>2
<1>. QED
  BY <1>2, <1>3, TurnOf DEF Ate, Goes

LEMMA MovesTo ==
  ASSUME NEW w, NEW l, NEW x, NEW d \in Nat, Ate(x, l, w, d),
         NEW mode \in {"suffix", "name", "string", "numeral", "long", "decimal", "scan", "short", "same"},
         mode \in {"long", "same"} => l.sep \in Nat,
         mode \in {"string", "decimal"} => l.del \in Quotes,
         WeightIn(mode) + 1 <= 2 * d + Weight(l)
  PROVE  Turn(In(x, mode), l, w)
<1>. DEFINE m == In(x, mode)
<1>1. Goes(m, l, w, d) /\ m.mode = mode /\ m.sep = l.sep /\ m.del = l.del
  BY InMode
<1>. HIDE DEF m
<1>2. BracketsOK(m) /\ ~Binary(m) /\ Weight(m) = WeightIn(mode)
  BY <1>1 DEF BracketsOK, Binary, Weight, WeightIn
<1>. QED
  BY <1>1, <1>2, TurnOf DEF m

LEMMA ShortTurns ==
  ASSUME NEW w \in Seq(Char), LexOK(ls, w), ReadShort
  PROVE  Turn(ls', ls, w)
<1>1. Reads(ls, w) /\ Ate(ls, ls, w, 0) /\ ls.mode = "short" /\ Weight(ls) = 4 /\ ~Binary(ls)
  BY AteNothing DEF ReadShort, Weight, Binary
<1>2. ls' = IF EndsShort(ls) THEN In(ls, "scan") ELSE NextChar(ls)
  BY DEF ReadShort, Step
<1>3. CASE EndsShort(ls)
  <2>1. WeightIn("scan") + 1 <= 2 * 0 + Weight(ls)
    BY <1>1 DEF WeightIn
  <2>. QED
    BY <1>1, <1>2, <1>3, <2>1, MovesTo
<1>4. CASE ~EndsShort(ls)
  <2>1. ls.z.c # EOZ
    BY <1>4 DEF EndsShort, At, Current
  <2>2. Ate(NextChar(ls), ls, w, 1)
    BY <1>1, <2>1, NextCharEats
  <2>. QED
    BY <1>1, <1>2, <1>4, <2>2, StaysIn
<1>. QED
  BY <1>3, <1>4

LEMMA OpeningTurns ==
  ASSUME NEW w \in Seq(Char), NEW l, LexOK(l, w), NEW x, Ate(x, l, w, 0), x.z.c = l.z.c,
         l.mode = "sep", Sep(x) \in Nat, Weight(l) >= 2, NEW comment
  PROVE  Turn(Opening(x, comment), l, w)
<1>. DEFINE sep == Sep(x)  m == Opening(x, comment)
<1>1. x.z.c \in {"[", "]"}
  <2>1. x.bracket \in {"[", "]"} /\ x.count \in Nat
    BY DEF LexOK, BracketsOK, Ate, Kept
  <2>2. At(x, {x.bracket})
    BY <2>1 DEF Sep
  <2>. QED
    BY <2>1, <2>2 DEF At, Current
<1>2. m = [x EXCEPT !.mode = "opening", !.sep = sep, !.comment = comment]
  BY DEF Opening
<1>. HIDE DEF m, sep
<1>3. IsLex(m) /\ m.z = x.z /\ m.mode = "opening" /\ m.sep = sep
  BY <1>2 DEF Ate, IsLex, LexFields
<1>4. BracketsOK(m) /\ ~Binary(m) /\ Weight(m) = 1 /\ Goes(m, l, w, 0)
  BY <1>1, <1>3 DEF BracketsOK, Binary, Weight, Goes, Ate, sep
<1>5. Weight(l) \in Nat
  BY WeightTypes
<1>6. Weight(m) + 1 <= 2 * 0 + Weight(l)
  BY <1>4, <1>5
<1>. QED
  BY <1>4, <1>6, TurnOf DEF m

LEMMA AfterSepTurns ==
  ASSUME NEW w \in Seq(Char), LexOK(ls, w), ls.mode = "sep"
  PROVE  Turn(AfterSep(ls), ls, w)
<1>1. Reads(ls, w) /\ Ate(ls, ls, w, 0)
  BY AteNothing
<1>2. /\ ls.bracket \in {"[", "]"} /\ ls.count \in Nat /\ ls.caller \in {"comment", "token", "long"}
      /\ ls.caller = "long" => ls.sep \in Nat
  BY DEF LexOK, BracketsOK
<1>3. Sep(ls) >= 0 => Sep(ls) \in Nat /\ At(ls, {ls.bracket})
  BY <1>2 DEF Sep
<1>4. CASE ls.caller = "comment"
  <2>. DEFINE x == Reset(ls)
  <2>1. Ate(x, ls, w, 0) /\ x.z = ls.z
    BY <1>1, SaveKeeps
  <2>2. Weight(ls) = 5
    BY <1>4 DEF Weight
  <2>3. x.bracket = ls.bracket /\ x.count = ls.count
    BY <2>1 DEF Ate, Kept
  <2>4. Sep(x) = Sep(ls)
    BY <2>1, <2>3 DEF Sep, At, Current
  <2>5. AfterSep(ls) = IF Sep(ls) >= 0 THEN Opening(x, TRUE) ELSE In(x, "short")
    BY <1>4 DEF AfterSep
  <2>. HIDE DEF x
  <2>6. CASE Sep(ls) >= 0
    <3>1. Sep(x) \in Nat /\ Weight(ls) >= 2 /\ x.z.c = ls.z.c
      BY <1>3, <2>1, <2>2, <2>4, <2>6
    <3>2. Turn(Opening(x, TRUE), ls, w)
      BY <2>1, <3>1, OpeningTurns
    <3>. QED
      BY <2>5, <2>6, <3>2
  <2>7. CASE ~(Sep(ls) >= 0)
    <3>1. WeightIn("short") + 1 <= 2 * 0 + Weight(ls)
      BY <2>2 DEF WeightIn
    <3>2. Turn(In(x, "short"), ls, w)
      BY <2>1, <3>1, MovesTo
    <3>. QED
      BY <2>5, <2>7, <3>2
  <2>. QED
    BY <2>6, <2>7
<1>5. CASE ls.caller = "token"
  <2>1. Weight(ls) = 2 /\ Weight(ls) >= 2 /\ Weight(ls) > 0
    BY <1>5 DEF Weight
  <2>2. AfterSep(ls) = IF Sep(ls) >= 0 THEN Opening(ls, FALSE)
                       ELSE IF Sep(ls) = -1 THEN Symbol(ls, <<"[">>) ELSE LexError(ls, "delimiter")
    BY <1>5 DEF AfterSep
  <2>3. CASE Sep(ls) >= 0
    <3>1. Turn(Opening(ls, FALSE), ls, w)
      BY <1>1, <1>3, <2>1, <2>3, OpeningTurns
    <3>. QED
      BY <2>2, <2>3, <3>1
  <2>4. CASE ~(Sep(ls) >= 0)
    <3>1. Turn(Symbol(ls, <<"[">>), ls, w) /\ Turn(LexError(ls, "delimiter"), ls, w)
      BY <1>1, <2>1, Ends
    <3>. QED
      BY <2>2, <2>4, <3>1
  <2>. QED
    BY <2>3, <2>4
<1>6. CASE ls.caller = "long"
  <2>1. Weight(ls) = 3 /\ ls.sep \in Nat
    BY <1>2, <1>6 DEF Weight
  <2>2. AfterSep(ls) = IF Sep(ls) = ls.sep THEN In(SaveAndNext(ls), "same") ELSE In(ls, "long")
    BY <1>6 DEF AfterSep
  <2>3. CASE Sep(ls) = ls.sep
    <3>1. At(ls, {ls.bracket})
      BY <1>3, <2>1, <2>3
    <3>2. ls.z.c # EOZ
      BY <1>2, <3>1 DEF At, Current, EOZ
    <3>3. Ate(SaveAndNext(ls), ls, w, 1)
      BY <1>1, <3>2, SaveAndNextEats
    <3>4. WeightIn("same") + 1 <= 2 * 1 + Weight(ls)
      BY <2>1 DEF WeightIn
    <3>5. Turn(In(SaveAndNext(ls), "same"), ls, w)
      BY <2>1, <3>3, <3>4, MovesTo
    <3>. QED
      BY <2>2, <2>3, <3>5
  <2>4. CASE Sep(ls) # ls.sep
    <3>1. WeightIn("long") + 1 <= 2 * 0 + Weight(ls)
      BY <2>1 DEF WeightIn
    <3>2. Turn(In(ls, "long"), ls, w)
      BY <1>1, <2>1, <3>1, MovesTo
    <3>. QED
      BY <2>2, <2>4, <3>2
  <2>. QED
    BY <2>3, <2>4
<1>. QED
  BY <1>2, <1>4, <1>5, <1>6

LEMMA EqualsTurns ==
  ASSUME NEW w \in Seq(Char), LexOK(ls, w), SkipEquals
  PROVE  Turn(ls', ls, w)
<1>1. Reads(ls, w) /\ ls.mode = "sep" /\ ls.count \in Nat
  BY AteNothing DEF SkipEquals, LexOK, BracketsOK
<1>2. ls' = IF At(ls, {"="}) THEN [SaveAndNext(ls) EXCEPT !.count = @ + 1] ELSE AfterSep(ls)
  BY DEF SkipEquals, Step
<1>3. CASE At(ls, {"="})
  <2>. DEFINE s == SaveAndNext(ls)
  <2>1. ls.z.c # EOZ
    BY <1>3 DEF At, Current, EOZ
  <2>2. Ate(s, ls, w, 1)
    BY <1>1, <2>1, SaveAndNextEats
  <2>. HIDE DEF s
  <2>3. ls' = [s EXCEPT !.count = s.count + 1]
    BY <1>2, <1>3 DEF s
  <2>4. /\ IsLex(ls') /\ ls'.z = s.z /\ ls'.mode = s.mode /\ ls'.count = s.count + 1
        /\ ls'.bracket = s.bracket /\ ls'.caller = s.caller /\ ls'.sep = s.sep
    BY <2>2, <2>3 DEF Ate, IsLex, LexFields
  <2>5. /\ ls'.mode = "sep" /\ ls'.count \in Nat /\ ls'.bracket = ls.bracket
        /\ ls'.caller = ls.caller /\ ls'.sep = ls.sep
    BY <1>1, <2>2, <2>4 DEF Ate, Kept
  <2>6. Goes(ls', ls, w, 1)
    BY <2>2, <2>4 DEF Ate, Goes
  <2>7. BracketsOK(ls') /\ ~Binary(ls') /\ Weight(ls') = Weight(ls)
    BY <1>1, <2>5 DEF LexOK, BracketsOK, Binary, Weight
  <2>8. Weight(ls) \in Nat
    BY WeightTypes
  <2>9. Weight(ls') + 1 <= 2 * 1 + Weight(ls)
    BY <2>7, <2>8
  <2>. QED
    BY <2>6, <2>7, <2>9, TurnOf
<1>4. CASE ~At(ls, {"="})
  BY <1>1, <1>2, <1>4, AfterSepTurns
<1>. QED
  BY <1>3, <1>4

LEMMA ReadOpeningTurns ==
  ASSUME NEW w \in Seq(Char), LexOK(ls, w), ReadOpening
  PROVE  Turn(ls', ls, w)
<1>. DEFINE l == SaveAndNext(ls)  x == IF At(l, Newlines) THEN IncLineNumber(l) ELSE l
<1>1. Reads(ls, w) /\ ls.mode = "opening" /\ Weight(ls) = 1
  BY AteNothing DEF ReadOpening, Weight
<1>2. ls.z.c # EOZ /\ ls.sep \in Nat
  BY <1>1 DEF LexOK, BracketsOK, EOZ
<1>3. Ate(l, ls, w, 1) /\ Reads(l, w)
  BY <1>1, <1>2, SaveAndNextEats
<1>4. ls' = In(x, "long")
  BY DEF ReadOpening, Step
<1>. HIDE DEF l
<1>5. Ate(x, ls, w, 1)
  <2>1. CASE At(l, Newlines)
    <3>1. l.z.c # EOZ
      BY <2>1 DEF At, Current, Newlines, EOZ
    <3>2. Ate(IncLineNumber(l), l, w, 1)
      BY <1>3, <3>1, IncLineNumberEats
    <3>3. Ate(IncLineNumber(l), ls, w, 1 + 1)
      BY <1>3, <3>2, AteThenAte
    <3>. QED
      BY <2>1, <3>3 DEF Ate
  <2>2. CASE ~At(l, Newlines)
    BY <1>3, <2>2
  <2>. QED
    BY <2>1, <2>2
<1>. HIDE DEF x
<1>6. WeightIn("long") + 1 <= 2 * 1 + Weight(ls)
  BY <1>1 DEF WeightIn
<1>. QED
  BY <1>2, <1>4, <1>5, <1>6, MovesTo

LEMMA LongTurns ==
  ASSUME NEW w \in Seq(Char), LexOK(ls, w), ReadLong
  PROVE  Turn(ls', ls, w)
<1>1. Reads(ls, w) /\ Ate(ls, ls, w, 0) /\ ls.mode = "long" /\ Weight(ls) = 2 /\ ~Binary(ls)
  BY AteNothing DEF ReadLong, Weight, Binary
<1>2. ls.sep \in Nat /\ Weight(ls) > 0
  BY <1>1 DEF LexOK, BracketsOK
<1>3. ls' = LongTurn(ls)
  BY DEF ReadLong, Step
<1>4. EOZ \notin {"[", "]"} /\ EOZ \notin Newlines /\ {"[", "]"} \cap Newlines = {}
  BY DEF EOZ, Newlines
<1>5. CASE At(ls, {EOZ})
  <2>1. LongTurn(ls) = LongUnfinished(ls)
    BY <1>4, <1>5 DEF LongTurn, At
  <2>. QED
    BY <1>1, <1>2, <1>3, <2>1, Ends DEF LongUnfinished
<1>6. CASE At(ls, {"[", "]"})
  <2>. DEFINE m == SkipSep(ls, "long")
  <2>1. ls' = m
    BY <1>3, <1>4, <1>6 DEF LongTurn, At
  <2>2. Goes(m, ls, w, 0 + 1) /\ BracketsOK(m) /\ m.mode = "sep" /\ m.caller = "long"
    BY <1>1, <1>2, <1>6, SkipSepTurns
  <2>. HIDE DEF m
  <2>3. ~Binary(m) /\ Weight(m) = 3
    BY <2>2 DEF Binary, Weight
  <2>4. Weight(m) + 1 <= 2 * (0 + 1) + Weight(ls)
    BY <1>1, <2>3
  <2>. QED
    BY <2>1, <2>2, <2>3, <2>4, TurnOf
<1>7. CASE At(ls, Newlines)
  <2>. DEFINE s == Save(ls, "\n")  newline == IncLineNumber(s)
  <2>1. LongTurn(ls) = IF ls.comment THEN Reset(newline) ELSE newline
    BY <1>4, <1>7 DEF LongTurn, At
  <2>2. s.z = ls.z /\ Reads(s, w) /\ Ate(s, ls, w, 0) /\ ls.z.c # EOZ
    BY <1>1, <1>4, <1>7, SaveKeeps DEF At, Current
  <2>. HIDE DEF s
  <2>3. Ate(newline, s, w, 1) /\ Reads(newline, w)
    BY <2>2, IncLineNumberEats
  <2>4. Ate(newline, ls, w, 0 + 1)
    BY <2>2, <2>3, AteThenAte
  <2>. HIDE DEF newline
  <2>5. Ate(Reset(newline), newline, w, 0)
    BY <2>3, SaveKeeps
  <2>6. Ate(Reset(newline), ls, w, (0 + 1) + 0)
    BY <2>4, <2>5, AteThenAte
  <2>7. Ate(ls', ls, w, 1)
    BY <1>3, <2>1, <2>4, <2>6
  <2>. QED
    BY <1>1, <2>7, StaysIn
<1>8. CASE ~At(ls, {EOZ, "[", "]"} \cup Newlines)
  <2>1. LongTurn(ls) = IF ls.comment THEN NextChar(ls) ELSE SaveAndNext(ls)
    BY <1>8 DEF LongTurn, At
  <2>2. ls.z.c # EOZ
    BY <1>8 DEF At, Current
  <2>3. Ate(NextChar(ls), ls, w, 1) /\ Ate(SaveAndNext(ls), ls, w, 1)
    BY <1>1, <2>2, NextCharEats, SaveAndNextEats
  <2>4. Ate(ls', ls, w, 1)
    BY <1>3, <2>1, <2>3
  <2>. QED
    BY <1>1, <2>4, StaysIn
<1>. QED
  BY <1>5, <1>6, <1>7, <1>8 DEF At

LEMMA SameLevelTurns ==
  ASSUME NEW w \in Seq(Char), LexOK(ls, w), SameLevel
  PROVE  Turn(ls', ls, w)
<1>. DEFINE x == Reset(ls)
<1>1. Reads(ls, w) /\ Ate(ls, ls, w, 0) /\ Weight(ls) = 4 /\ Weight(ls) > 0 /\ ls.sep \in Nat
  BY AteNothing DEF SameLevel, Weight, LexOK, BracketsOK
<1>2. ls' = IF ls.bracket = "[" THEN IF ls.sep = 0 THEN LexError(ls, "nesting") ELSE In(ls, "long")
            ELSE IF ls.comment THEN In(x, "scan")
            ELSE Return(ls, "<string>", Trimmed(ls, 2 + ls.sep))
  BY DEF SameLevel, Step
<1>3. Ate(x, ls, w, 0)
  BY <1>1, SaveKeeps
<1>. HIDE DEF x
<1>4. WeightIn("long") + 1 <= 2 * 0 + Weight(ls) /\ WeightIn("scan") + 1 <= 2 * 0 + Weight(ls)
  BY <1>1 DEF WeightIn
<1>5. Turn(In(ls, "long"), ls, w)
  BY <1>1, <1>4, MovesTo
<1>6. Turn(In(x, "scan"), ls, w)
  BY <1>3, <1>4, MovesTo
<1>7. Turn(LexError(ls, "nesting"), ls, w) /\ Turn(Return(ls, "<string>", Trimmed(ls, 2 + ls.sep)), ls, w)
  BY <1>1, Ends
<1>. QED
  BY <1>2, <1>5, <1>6, <1>7

LEMMA EscapeTurns ==
  ASSUME NEW w \in Seq(Char), LexOK(ls, w), ls.mode = "string", NEW l, Ate(l, ls, w, 1)
  PROVE  Turn(Escape(l), ls, w)
<1>1. ls.del \in Quotes /\ ~Binary(ls) /\ Weight(ls) = 1 /\ Reads(l, w)
  BY DEF LexOK, BracketsOK, Binary, Weight, Ate, Reads
<1>2. /\ EOZ \notin {"a"} \cup Newlines \cup Digits /\ "a" \notin Newlines \cup Digits
      /\ Newlines \cap Digits = {}
  BY DEF EOZ, Newlines, Digits
<1>3. CASE At(l, {"a"})
  <2>. DEFINE s == Save(l, Bell)
  <2>1. Escape(l) = NextChar(s)
    BY <1>2, <1>3 DEF Escape, At
  <2>2. s.z = l.z /\ Reads(s, w) /\ Ate(s, l, w, 0) /\ l.z.c # EOZ
    BY <1>1, <1>2, <1>3, SaveKeeps DEF At, Current
  <2>. HIDE DEF s
  <2>3. Ate(s, ls, w, 1 + 0)
    BY <2>2, AteThenAte
  <2>4. Ate(NextChar(s), s, w, 1)
    BY <2>2, NextCharEats
  <2>5. Ate(NextChar(s), ls, w, (1 + 0) + 1)
    BY <2>3, <2>4, AteThenAte
  <2>. QED
    BY <1>1, <2>1, <2>5, StaysIn
<1>4. CASE At(l, Newlines)
  <2>. DEFINE s == Save(l, "\n")
  <2>1. Escape(l) = IncLineNumber(s)
    BY <1>2, <1>4 DEF Escape, At
  <2>2. s.z = l.z /\ Reads(s, w) /\ Ate(s, l, w, 0) /\ l.z.c # EOZ
    BY <1>1, <1>2, <1>4, SaveKeeps DEF At, Current
  <2>. HIDE DEF s
  <2>3. Ate(s, ls, w, 1 + 0)
    BY <2>2, AteThenAte
  <2>4. Ate(IncLineNumber(s), s, w, 1)
    BY <2>2, IncLineNumberEats
  <2>5. Ate(IncLineNumber(s), ls, w, (1 + 0) + 1)
    BY <2>3, <2>4, AteThenAte
  <2>. QED
    BY <1>1, <2>1, <2>5, StaysIn
<1>5. CASE At(l, {EOZ})
  <2>1. Escape(l) = l
    BY <1>2, <1>5 DEF Escape, At
  <2>. QED
    BY <1>1, <2>1, StaysIn
<1>6. CASE At(l, Digits)
  <2>. DEFINE m == Escape(l)
  <2>1. m = [l EXCEPT !.mode = "decimal", !.count = 0, !.code = 0]
    BY <1>2, <1>6 DEF Escape, At
  <2>. HIDE DEF m
  <2>2. IsLex(m) /\ m.z = l.z /\ m.mode = "decimal" /\ m.del = l.del
    BY <2>1 DEF Ate, IsLex, LexFields
  <2>3. m.del \in Quotes /\ Goes(m, ls, w, 1)
    BY <1>1, <2>2 DEF Ate, Kept, Goes
  <2>4. BracketsOK(m) /\ ~Binary(m) /\ Weight(m) = 2
    BY <2>2, <2>3 DEF BracketsOK, Binary, Weight
  <2>5. Weight(m) + 1 <= 2 * 1 + Weight(ls)
    BY <1>1, <2>4
  <2>. QED
    BY <2>3, <2>4, <2>5, TurnOf DEF m
<1>7. CASE ~At(l, {"a", EOZ} \cup Newlines \cup Digits)
  <2>1. Escape(l) = SaveAndNext(l) /\ l.z.c # EOZ
    BY <1>7 DEF Escape, At, Current
  <2>2. Ate(SaveAndNext(l), l, w, 1)
    BY <1>1, <2>1, SaveAndNextEats
  <2>3. Ate(SaveAndNext(l), ls, w, 1 + 1)
    BY <2>2, AteThenAte
  <2>. QED
    BY <1>1, <2>1, <2>3, StaysIn
<1>. QED
  BY <1>3, <1>4, <1>5, <1>6, <1>7 DEF At

LEMMA StringTurns ==
  ASSUME NEW w \in Seq(Char), LexOK(ls, w), ReadString
  PROVE  Turn(ls', ls, w)
<1>. DEFINE s == SaveAndNext(ls)
<1>1. Reads(ls, w) /\ Ate(ls, ls, w, 0) /\ ls.mode = "string" /\ ls.del \in Quotes
      /\ Weight(ls) = 1 /\ Weight(ls) > 0 /\ ~Binary(ls)
  BY AteNothing DEF ReadString, LexOK, BracketsOK, Weight, Binary
<1>2. ls' = StringTurn(ls)
  BY DEF ReadString, Step
<1>3. /\ ls.del \notin Newlines \cup {EOZ, Backslash} /\ EOZ \notin Newlines /\ EOZ # Backslash
      /\ Backslash \notin Newlines
  BY <1>1 DEF Quotes, Newlines, EOZ, Backslash
<1>4. ~At(ls, {EOZ}) => Ate(s, ls, w, 1)
  BY <1>1, SaveAndNextEats DEF At, Current
<1>5. CASE At(ls, {ls.del})
  <2>1. StringTurn(ls) = Return(s, "<string>", Trimmed(s, 1))
    BY <1>3, <1>5 DEF StringTurn, At
  <2>2. Ate(s, ls, w, 1)
    BY <1>3, <1>4, <1>5 DEF At
  <2>. QED
    BY <1>1, <1>2, <2>1, <2>2, Ends
<1>6. CASE At(ls, Newlines \cup {EOZ})
  <2>1. StringTurn(ls) = LexError(ls, "unfinished")
    BY <1>3, <1>6 DEF StringTurn, At
  <2>. QED
    BY <1>1, <1>2, <2>1, Ends
<1>7. CASE At(ls, {Backslash})
  <2>1. StringTurn(ls) = Escape(NextChar(ls))
    BY <1>3, <1>7 DEF StringTurn, At
  <2>2. ls.z.c # EOZ
    BY <1>3, <1>7 DEF At, Current
  <2>3. Ate(NextChar(ls), ls, w, 1)
    BY <1>1, <2>2, NextCharEats
  <2>. QED
    BY <1>1, <1>2, <2>1, <2>3, EscapeTurns
<1>8. CASE ~At(ls, {ls.del, EOZ, Backslash} \cup Newlines)
  <2>1. StringTurn(ls) = s /\ ~At(ls, {EOZ})
    BY <1>8 DEF StringTurn, At
  <2>. QED
    BY <1>1, <1>2, <1>4, <2>1, StaysIn
<1>. QED
  BY <1>5, <1>6, <1>7, <1>8 DEF At

LEMMA DecimalTurns ==
  ASSUME NEW w \in Seq(Char), LexOK(ls, w), ReadDecimal
  PROVE  Turn(ls', ls, w)
<1>. DEFINE x == Save(ls, Byte(ls.code))  g == NextChar(ls)
<1>1. Reads(ls, w) /\ Ate(ls, ls, w, 0) /\ ls.mode = "decimal" /\ ls.del \in Quotes
      /\ Weight(ls) = 2 /\ Weight(ls) > 0
  BY AteNothing DEF ReadDecimal, LexOK, BracketsOK, Weight
<1>2. CASE ls.count < 3 /\ At(ls, Digits)
  <2>1. ls.z.c # EOZ
    BY <1>2 DEF At, Current, EOZ, Digits
  <2>2. Ate(g, ls, w, 1)
    BY <1>1, <2>1, NextCharEats
  <2>3. ls' = [g EXCEPT !.count = @ + 1, !.code = 10 * @ + DigitValue(Current(ls))]
    BY <1>2 DEF ReadDecimal, Step
  <2>. DEFINE count == g.count + 1  code == 10 * g.code + DigitValue(Current(ls))
  <2>4. ls' = [g EXCEPT !.count = count, !.code = code]
    BY <2>3
  <2>. HIDE DEF g, count, code
  <2>5. IsLex(ls') /\ ls'.z = g.z /\ ls'.mode = g.mode /\ ls'.del = g.del
    BY <2>2, <2>4 DEF Ate, IsLex, LexFields
  <2>6. ls'.mode = "decimal" /\ ls'.del \in Quotes /\ Goes(ls', ls, w, 1)
    BY <1>1, <2>2, <2>5 DEF Ate, Kept, Goes
  <2>7. BracketsOK(ls') /\ ~Binary(ls') /\ Weight(ls') = 2
    BY <2>6 DEF BracketsOK, Binary, Weight
  <2>8. Weight(ls') + 1 <= 2 * 1 + Weight(ls)
    BY <1>1, <2>7
  <2>. QED
    BY <2>6, <2>7, <2>8, TurnOf
<1>3. CASE ~(ls.count < 3 /\ At(ls, Digits))
  <2>1. ls' = IF ls.code > UCHAR_MAX THEN LexError(ls, "escape") ELSE In(x, "string")
    BY <1>3 DEF ReadDecimal, Step
  <2>2. Ate(x, ls, w, 0)
    BY <1>1, SaveKeeps
  <2>. HIDE DEF x
  <2>3. WeightIn("string") + 1 <= 2 * 0 + Weight(ls)
    BY <1>1 DEF WeightIn
  <2>4. Turn(In(x, "string"), ls, w)
    BY <1>1, <2>2, <2>3, MovesTo
  <2>5. Turn(LexError(ls, "escape"), ls, w)
    BY <1>1, Ends
  <2>. QED
    BY <2>1, <2>4, <2>5
<1>. QED
  BY <1>2, <1>3

LEMMA OptionalEats ==
  ASSUME NEW w \in Seq(Char), NEW l, Reads(l, w), Left(l.z, w) \in Nat, NEW chars, EOZ \notin chars
  PROVE  Ate(Optional(l, chars), l, w, 0)
<1>1. CASE At(l, chars)
  <2>1. l.z.c # EOZ
    BY <1>1 DEF At, Current
  <2>2. Ate(SaveAndNext(l), l, w, 1)
    BY <2>1, SaveAndNextEats
  <2>. QED
    BY <1>1, <2>2 DEF Optional, Ate
<1>2. CASE ~At(l, chars)
  BY <1>2 DEF Optional, Ate, Reads, Kept
<1>. QED
  BY <1>1, <1>2

LEMMA NumeralTurns ==
  ASSUME NEW w \in Seq(Char), LexOK(ls, w), ReadNumeral
  PROVE  Turn(ls', ls, w)
<1>. DEFINE s == SaveAndNext(ls)  x == IF At(ls, {"e"}) THEN Optional(s, {"-"}) ELSE ls
<1>1. Reads(ls, w) /\ Ate(ls, ls, w, 0) /\ ls.mode = "numeral" /\ Weight(ls) = 2 /\ ~Binary(ls)
  BY AteNothing DEF ReadNumeral, Weight, Binary
<1>2. ls' = IF At(ls, Digits \cup {"."}) THEN s ELSE In(x, "suffix")
  BY DEF ReadNumeral, Step
<1>3. ls.z.c # EOZ => Ate(s, ls, w, 1) /\ Reads(s, w)
  BY <1>1, SaveAndNextEats
<1>. HIDE DEF s
<1>4. CASE At(ls, Digits \cup {"."})
  <2>1. ls.z.c # EOZ
    BY <1>4 DEF At, Current, EOZ, Digits
  <2>. QED
    BY <1>1, <1>2, <1>3, <1>4, <2>1, StaysIn
<1>5. CASE ~At(ls, Digits \cup {"."})
  <2>1. Ate(x, ls, w, 0)
    <3>1. CASE At(ls, {"e"})
      <4>1. ls.z.c # EOZ
        BY <3>1 DEF At, Current, EOZ
      <4>2. Ate(s, ls, w, 1) /\ Reads(s, w) /\ Left(s.z, w) \in Nat /\ EOZ \notin {"-"}
        BY <1>3, <4>1 DEF Ate, EOZ
      <4>3. Ate(Optional(s, {"-"}), s, w, 0)
        BY <4>2, OptionalEats
      <4>4. Ate(Optional(s, {"-"}), ls, w, 1 + 0)
        BY <4>2, <4>3, AteThenAte
      <4>. QED
        BY <3>1, <4>4 DEF Ate
    <3>2. CASE ~At(ls, {"e"})
      BY <1>1, <3>2
    <3>. QED
      BY <3>1, <3>2
  <2>. HIDE DEF x
  <2>2. WeightIn("suffix") + 1 <= 2 * 0 + Weight(ls)
    BY <1>1 DEF WeightIn
  <2>3. Turn(In(x, "suffix"), ls, w)
    BY <2>1, <2>2, MovesTo
  <2>. QED
    BY <1>2, <1>5, <2>3
<1>. QED
  BY <1>4, <1>5

LEMMA WordTurns ==
  ASSUME NEW w \in Seq(Char), LexOK(ls, w), EndNumeral \/ ReadName
  PROVE  Turn(ls', ls, w)
<1>1. /\ Reads(ls, w) /\ Ate(ls, ls, w, 0) /\ ls.mode \in {"suffix", "name"} /\ Weight(ls) = 1
      /\ Weight(ls) > 0 /\ ~Binary(ls) /\ ls.mode # "opening"
  BY AteNothing DEF EndNumeral, ReadName, Weight, Binary
<1>2. CASE At(ls, Alnum)
  <2>1. ls' = SaveAndNext(ls)
    BY <1>2 DEF EndNumeral, ReadName, Step
  <2>2. ls.z.c # EOZ
    BY <1>2 DEF At, Current, EOZ, Alnum, Digits, Initials, Letters
  <2>3. Ate(ls', ls, w, 1)
    BY <1>1, <2>1, <2>2, SaveAndNextEats
  <2>. QED
    BY <1>1, <2>3, StaysIn
<1>3. CASE ~At(ls, Alnum)
  <2>1. \E kind, value : ls' = Return(ls, kind, value) \/ ls' = LexError(ls, value)
    BY <1>3 DEF EndNumeral, ReadName, Step
  <2>. QED
    BY <1>1, <2>1, Ends
<1>. QED
  BY <1>2, <1>3

LEMMA LLexTurns ==
  ASSUME NEW w \in Seq(Char), LexOK(ls, w), LLex
  PROVE  Turn(ls', ls, w)
BY SpaceTurns, MinusTurns, OpenBracketTurns, SymbolTurns, DotTurns, StartTurns, ShortTurns, EqualsTurns,
   ReadOpeningTurns, LongTurns, SameLevelTurns, StringTurns, DecimalTurns, NumeralTurns, WordTurns
   DEF LLex

-----------------------------------------------------------------------------
(* The invariant holds *)

LEMMA LeftBound ==
  ASSUME NEW w \in Seq(Char), NEW z, TextAt(z, w)
  PROVE  Left(z, w) \in Nat /\ Len(w) \in Nat /\ Left(z, w) <= Len(w)
<1>1. /\ StreamAt(z, w, z.taken) /\ (z.c # EOZ => z.taken > 0)
  BY DEF TextAt
<1>2. z.taken \in Nat /\ Len(w) \in Nat /\ z.taken <= Len(w) /\ Left(z, w) \in Nat
  BY <1>1, TextTypes
<1>. QED
  BY <1>1, <1>2 DEF Left

\* Calls of the parser that leave the stream alone.
LEMMA AskedFor ==
  ASSUME NEW w \in Seq(Char), NEW l, LexOK(l, w), NEW m, IsLex(m), m.z = l.z, m.mode \in {"idle", "scan"}
  PROVE  LexOK(m, w) /\ ~Binary(m) /\ 0 + 2 * Left(m.z, w) + Weight(m) <= 2 * Len(w) + 3
<1>1. TextAt(m.z, w)
  BY DEF LexOK
<1>2. Left(m.z, w) \in Nat /\ Len(w) \in Nat /\ Left(m.z, w) <= Len(w)
  BY <1>1, LeftBound
<1>3. BracketsOK(m) /\ ~Binary(m) /\ Weight(m) \in 0 .. 3
  BY DEF BracketsOK, Binary, Weight
<1>. DEFINE a == Left(m.z, w)  b == Len(w)  c == Weight(m)
<1>4. 0 + 2 * a + c <= 2 * b + 3
  <2>1. a \in Nat /\ b \in Nat /\ a <= b /\ c \in 0 .. 3
    BY <1>2, <1>3
  <2>. HIDE DEF a, b, c
  <2>. QED
    BY <2>1
<1>. QED
  BY <1>1, <1>3, <1>4 DEF LexOK

LEMMA FreshIsStream ==
  ASSUME NEW w \in Seq(Char), NEW z, Fresh(z, w)
  PROVE  StreamAt(z, w, 0) /\ z.n \in Nat /\ z.n = 0 /\ z.taken = 0
<1>1. Buffered(z) = 0 /\ Len(z.buff) = 0 /\ z.p + 0 = 0 /\ 0 + 0 = 0
  BY DEF Fresh, Buffered
<1>2. BufferAt(z, w, 0)
  BY <1>1 DEF BufferAt, Fresh
<1>. QED
  BY <1>1, <1>2 DEF StreamAt, Fresh

LEMMA LoadStarts ==
  ASSUME NEW w \in Seq(Char), NEW z, Fresh(z, w)
  PROVE  LET l == Load(z)
         IN /\ IsLex(l) /\ l.mode \in {"idle", "binary"}
            /\ l.mode = "binary" => BinaryAt(l.z, w)
            /\ l.mode = "idle" => TextAt(l.z, w)
<1>. DEFINE s == Lookahead(z)
            i == [z |-> s, lineNumber |-> 1, lastLine |-> 1,
                  t |-> NoToken, lookAhead |-> NoToken, ahead |-> FALSE, buff |-> <<>>,
                  mode |-> "idle", caller |-> "", bracket |-> NUL, count |-> 0, sep |-> 0,
                  comment |-> FALSE, del |-> NUL, code |-> 0]
            l == Load(z)
<1>1. StreamAt(z, w, 0) /\ z.n \in Nat /\ z.n = 0 /\ z.taken = 0 /\ 0 \in Nat
  BY FreshIsStream
<1>2. LooksAt(s, z, w, 0)
  BY <1>1, LookaheadDelivers
<1>. HIDE DEF s
<1>3. StreamAt(s, w, s.taken) /\ s.n \in Nat /\ s.taken = 0 /\ s.block = <<>>
  BY <1>1, <1>2 DEF LooksAt
<1>4. IsLex(i) /\ i.z = s /\ i.mode = "idle"
  BY DEF IsLex, LexFields
<1>5. l = IF i.z.c = SIGNATURE THEN In(i, "binary") ELSE NextChar(i)
  BY DEF Load, s
<1>. HIDE DEF i, l
<1>6. CASE s.c = SIGNATURE
  <2>1. IsLex(l) /\ l.mode = "binary" /\ l.z = s
    BY <1>4, <1>5, <1>6 DEF In, IsLex, LexFields
  <2>2. Len(w) \in Nat /\ 0 <= Len(w) /\ Len(<<>>) = 0 /\ 0 - 0 = 0
    OBVIOUS
  <2>3. Window(<<>>, w, 0)
    BY <2>2, WindowNone
  <2>4. LastHanded(s, w)
    BY <1>3, <2>2, <2>3 DEF LastHanded
  <2>5. BinaryAt(s, w)
    BY <1>3, <1>6, <2>4 DEF BinaryAt, SIGNATURE, EOZ
  <2>. QED
    BY <2>1, <2>5 DEF l
<1>7. CASE s.c # SIGNATURE
  <2>. DEFINE g == GetCh(s)
  <2>1. l = [i EXCEPT !.z = g]
    BY <1>4, <1>5, <1>7 DEF NextChar
  <2>2. TextAt(g, w)
    BY <1>3, GetChReads
  <2>. HIDE DEF g
  <2>3. IsLex(l) /\ l.mode = "idle" /\ l.z = g
    BY <1>4, <2>1 DEF IsLex, LexFields
  <2>. QED
    BY <2>2, <2>3 DEF l
<1>. QED
  BY <1>6, <1>7

LEMMA InitHolds ==
  ASSUME Init PROVE IInv
<1>. DEFINE w == Chunk(chunk)
            z == IF chunk.step = 0 THEN LoadString(chunk.text) ELSE LLoadFile(chunk.text, chunk.step)
<1>1. chunk \in Chunks /\ ls = Load(z) /\ turns = 0
  BY DEF Init
<1>2. w \in Seq(Char) /\ Fresh(z, w)
  BY <1>1, OpeningDelivers
<1>. HIDE DEF w, z
<1>3. /\ IsLex(ls) /\ ls.mode \in {"idle", "binary"}
      /\ ls.mode = "binary" => BinaryAt(ls.z, w)
      /\ ls.mode = "idle" => TextAt(ls.z, w)
  BY <1>1, <1>2, LoadStarts
<1>4. CASE ls.mode = "binary"
  BY <1>1, <1>3, <1>4 DEF IInv, Binary, w
<1>5. CASE ls.mode = "idle"
  <2>1. LexOK(ls, w)
    BY <1>3, <1>5 DEF LexOK, BracketsOK
  <2>2. ~Binary(ls) /\ 0 + 2 * Left(ls.z, w) + Weight(ls) <= 2 * Len(w) + 3
    BY <1>2, <1>3, <1>5, <2>1, AskedFor
  <2>. QED
    BY <1>1, <2>1, <2>2 DEF IInv, w
<1>. QED
  BY <1>3, <1>4, <1>5

LEMMA BinaryBlocks ==
  ASSUME NEW w \in Seq(Char), NEW z, BinaryAt(z, w), NEW n \in Nat
  PROVE  BinaryAt(ReadBlock(z, n), w)
<1>. DEFINE r == ReadBlock(z, n)  k == z.taken  b == r.block
<1>1. StreamAt(z, w, k) /\ z.n \in Nat
  BY DEF BinaryAt
<1>2. k \in Nat
  BY <1>1, TextTypes
<1>3. BlockAt(r, z, w, k)
  BY <1>1, <1>2, ReadBlockDelivers
<1>. HIDE DEF r
<1>4. /\ Window(b, w, k) /\ StreamAt(r, w, k + Len(b)) /\ r.n \in Nat /\ r.taken = k + Len(b)
      /\ r.c = EOZ => k + Len(b) = Len(w)
  BY <1>3 DEF BlockAt
<1>5. Len(b) \in Nat
  BY <1>4 DEF Window
<1>. HIDE DEF k, b
<1>6. Len(b) <= k + Len(b) /\ k + Len(b) - Len(b) = k
  BY <1>2, <1>5
<1>7. Len(b) <= r.taken /\ r.taken - Len(b) = k
  <2>. DEFINE t == r.taken  m == Len(b)
  <2>1. t = k + m /\ m \in Nat /\ k \in Nat
    BY <1>2, <1>4, <1>5
  <2>. HIDE DEF t, m
  <2>2. m <= t /\ t - m = k
    BY <2>1
  <2>. QED
    BY <2>2 DEF t, m
<1>8. LastHanded(r, w)
  BY <1>4, <1>7 DEF LastHanded, b
<1>. QED
  BY <1>4, <1>8 DEF BinaryAt, r

LEMMA NextHolds ==
  ASSUME IInv, [Next]_vars PROVE IInv'
<1>. DEFINE w == Chunk(chunk)
<1>1. chunk \in Chunks /\ turns \in Nat /\ w \in Seq(Char)
  BY OpeningDelivers DEF IInv
<1>2. ~Binary(ls) => LexOK(ls, w) /\ turns + 2 * Left(ls.z, w) + Weight(ls) <= 2 * Len(w) + 3
  BY DEF IInv
<1>3. Binary(ls) => IsLex(ls) /\ BinaryAt(ls.z, w) /\ turns = 0
  BY DEF IInv
<1>4. CASE UNCHANGED vars
  <2>1. UNCHANGED <<chunk, ls, turns>>
    BY <1>4 DEF vars
  <2>. QED
    BY <2>1 DEF IInv, LexOK, BracketsOK, Binary, Weight, IsLex
<1>5. ASSUME chunk' = chunk, turns' \in Nat, ~Binary(ls'), LexOK(ls', w),
             turns' + 2 * Left(ls'.z, w) + Weight(ls') <= 2 * Len(w) + 3
      PROVE  IInv'
  BY <1>1, <1>5 DEF IInv
<1>6. CASE LLex
  <2>1. ~Binary(ls)
    BY <1>6 DEF LLex, SkipNewline, SkipSpace, Minus, OpenBracket, Comparison, Dot, StartNumeral,
                StartName, StartString, EndOfStream, Single, ReadShort, SkipEquals, ReadOpening, ReadLong,
                SameLevel, ReadString, ReadDecimal, ReadNumeral, EndNumeral, ReadName, Scanning, Binary
  <2>2. chunk' = chunk /\ turns' = turns + 1
    BY <1>6 DEF LLex, SkipNewline, SkipSpace, Minus, OpenBracket, Comparison, Dot, StartNumeral,
                StartName, StartString, EndOfStream, Single, ReadShort, SkipEquals, ReadOpening, ReadLong,
                SameLevel, ReadString, ReadDecimal, ReadNumeral, EndNumeral, ReadName, Step
  <2>3. Turn(ls', ls, w)
    BY <1>1, <1>2, <1>6, <2>1, LLexTurns
  <2>. DEFINE a == Left(ls'.z, w)  b == Left(ls.z, w)  p == Weight(ls')  q == Weight(ls)  len == Len(w)
  <2>4. /\ a \in Nat /\ b \in Nat /\ p \in Nat /\ q \in Nat /\ len \in Nat
        /\ 2 * a + p + 1 <= 2 * b + q /\ turns + 2 * b + q <= 2 * len + 3
    <3>1. a \in Nat /\ b \in Nat /\ 2 * a + p + 1 <= 2 * b + q
      BY <2>3 DEF Turn
    <3>2. p \in 0 .. 5 /\ q \in 0 .. 5
      BY WeightTypes
    <3>3. turns + 2 * b + q <= 2 * len + 3 /\ len \in Nat
      BY <1>1, <1>2, <2>1
    <3>. HIDE DEF a, b, p, q, len
    <3>. QED
      BY <3>1, <3>2, <3>3
  <2>. HIDE DEF a, b, p, q, len
  <2>5. turns + 1 \in Nat /\ (turns + 1) + 2 * a + p <= 2 * len + 3
    BY <1>1, <2>4
  <2>. QED
    BY <1>5, <2>2, <2>3, <2>5 DEF Turn, a, p, len
<1>7. CASE XNext
  <2>1. ~Binary(ls) /\ LexOK(ls, w) /\ IsLex(ls)
    BY <1>2, <1>7 DEF XNext, Binary, LexOK
  <2>2. IsLex(ls') /\ ls'.z = ls.z /\ ls'.mode \in {"idle", "scan"}
    BY <1>7, <2>1 DEF XNext, IsLex, LexFields, Reset, In
  <2>. QED
    BY <1>1, <1>5, <1>7, <2>1, <2>2, AskedFor DEF XNext
<1>8. CASE XLookAhead
  <2>1. ~Binary(ls) /\ LexOK(ls, w) /\ IsLex(ls)
    BY <1>2, <1>8 DEF XLookAhead, Binary, LexOK
  <2>2. IsLex(ls') /\ ls'.z = ls.z /\ ls'.mode \in {"idle", "scan"}
    BY <1>8, <2>1 DEF XLookAhead, IsLex, LexFields, Reset, In
  <2>. QED
    BY <1>1, <1>5, <1>8, <2>1, <2>2, AskedFor DEF XLookAhead
<1>9. CASE LoadBlock
  <2>1. IsLex(ls) /\ BinaryAt(ls.z, w) /\ turns = 0
    BY <1>3, <1>9 DEF LoadBlock, Binary
  <2>2. PICK n \in 1 .. 3 :
          ls' = [ls EXCEPT !.z = ReadBlock(ls.z, n),
                           !.mode = IF Len(ReadBlock(ls.z, n).block) < n THEN "truncated" ELSE "binary"]
    BY <1>9 DEF LoadBlock
  <2>. DEFINE z == ReadBlock(ls.z, n)  mode == IF Len(z.block) < n THEN "truncated" ELSE "binary"
  <2>3. BinaryAt(z, w)
    BY <1>1, <2>1, BinaryBlocks
  <2>4. mode \in {"binary", "truncated"} /\ ls' = [ls EXCEPT !.z = z, !.mode = mode]
    BY <2>2
  <2>. HIDE DEF z, mode
  <2>5. IsLex(ls') /\ ls'.z = z /\ ls'.mode \in {"binary", "truncated"}
    BY <2>1, <2>4 DEF IsLex, LexFields
  <2>. QED
    BY <1>1, <1>9, <2>1, <2>3, <2>5 DEF IInv, LoadBlock, Binary
<1>. QED
  BY <1>4, <1>6, <1>7, <1>8, <1>9 DEF Next

\* However a chunk is read, tokenized and looked ahead, the stream is where the
\* characters taken say, and the turns are paid for by characters.
THEOREM InvariantHolds == Spec => []IInv
<1>1. Init => IInv
  BY InitHolds
<1>2. IInv /\ [Next]_vars => IInv'
  BY NextHolds
<1>. QED
  BY <1>1, <1>2, PTL DEF Spec

-----------------------------------------------------------------------------
(* The properties *)

LEMMA BlockIsSlice ==
  ASSUME NEW w \in Seq(Char), NEW z, StreamAt(z, w, z.taken), LastHanded(z, w)
  PROVE  z.block = SubSeq(w, z.taken - Len(z.block) + 1, z.taken)
<1>. DEFINE b == z.block  t == z.taken  m == Len(b)  k == t - m  s == SubSeq(w, k + 1, t)
<1>1. t \in Nat /\ Len(w) \in Nat /\ t <= Len(w)
  BY TextTypes
<1>2. Window(b, w, k) /\ m <= t
  BY DEF LastHanded
<1>3. b \in Seq(Char) /\ m \in Nat /\ \A i \in 1 .. m : b[i] = w[k + i]
  BY <1>2 DEF Window
<1>. HIDE DEF b, t, m, s
<1>4. k \in Nat /\ k + 1 \in Nat \ {0} /\ k + 1 <= t + 1 /\ t - (k + 1) + 1 = m
  BY <1>1, <1>2, <1>3
<1>5. \A i \in 1 .. m : k + 1 + i - 1 = k + i
  BY <1>3, <1>4
<1>. HIDE DEF k
<1>6. /\ s \in Seq(Char) /\ Len(s) = t - (k + 1) + 1
      /\ \A i \in 1 .. t - (k + 1) + 1 : s[i] = w[k + 1 + i - 1]
  BY <1>1, <1>4, SliceOf DEF s
<1>7. Len(s) = m /\ \A i \in 1 .. m : s[i] = w[k + i]
  BY <1>4, <1>5, <1>6
<1>8. Len(b) = Len(s) /\ \A i \in 1 .. Len(b) : b[i] = s[i]
  BY <1>3, <1>7 DEF m
<1>9. b = s
  BY <1>3, <1>6, <1>8, SeqEqual
<1>. QED
  BY <1>9 DEF b, t, m, k, s

LEMMA InvariantDelivers ==
  ASSUME IInv
  PROVE  StreamDelivers /\ NotReadPastEnd /\ LexingEnds
<1>. DEFINE w == Chunk(chunk)  z == ls.z
<1>1. w \in Seq(Char) /\ Len(w) <= Len(chunk.text) /\ Len(chunk.text) \in Nat /\ turns \in Nat
  BY OpeningDelivers DEF IInv
<1>2. /\ StreamAt(z, w, z.taken) /\ LastHanded(z, w)
      /\ z.c = EOZ => z.taken = Len(w)
      /\ z.n = -1 \/ z.n \in Nat
  BY DEF IInv, LexOK, TextAt, BinaryAt
<1>3. StreamDelivers
  BY <1>1, <1>2, BlockIsSlice DEF StreamDelivers, Current
<1>4. NotReadPastEnd
  BY <1>2 DEF NotReadPastEnd
<1>5. LexingEnds
  <2>1. CASE Binary(ls)
    BY <1>1, <2>1 DEF IInv, LexingEnds
  <2>2. CASE ~Binary(ls)
    <3>1. LexOK(ls, w) /\ turns + 2 * Left(ls.z, w) + Weight(ls) <= 2 * Len(w) + 3
      BY <2>2 DEF IInv
    <3>2. Left(ls.z, w) \in Nat /\ Len(w) \in Nat
      BY <1>1, <3>1, LeftBound DEF LexOK
    <3>3. Weight(ls) \in 0 .. 5
      BY WeightTypes
    <3>. DEFINE a == Left(ls.z, w)  p == Weight(ls)  len == Len(w)  all == Len(chunk.text)
    <3>4. /\ a \in Nat /\ p \in Nat /\ len \in Nat /\ all \in Nat /\ len <= all
          /\ turns + 2 * a + p <= 2 * len + 3
      BY <1>1, <3>1, <3>2, <3>3
    <3>. HIDE DEF a, p, len, all
    <3>5. turns <= 2 * all + 3
      BY <1>1, <3>4
    <3>. QED
      BY <3>5 DEF LexingEnds, all
  <2>. QED
    BY <2>1, <2>2
<1>. QED
  BY <1>3, <1>4, <1>5

\* ZIO (lua/lzio.go) hands out the bytes of any chunk in their order, whatever the
\* reader delivers at a time and whether it comes from a file or from memory.
THEOREM BytesInOrder == Spec => []StreamDelivers
<1>1. IInv => StreamDelivers
  BY InvariantDelivers
<1>. QED
  BY <1>1, InvariantHolds, PTL

\* llex asks for nothing after it has seen the end of the stream, where GetCh
\* would count n further down.
THEOREM EndAskedForOnce == Spec => []NotReadPastEnd
<1>1. IInv => NotReadPastEnd
  BY InvariantDelivers
<1>. QED
  BY <1>1, InvariantHolds, PTL

\* The loops of llex (lua/llex.go) together take at most two turns for a character
\* of the text and three more: no text makes the lexer run on.
THEOREM TurnsBounded == Spec => []LexingEnds
<1>1. IInv => LexingEnds
  BY InvariantDelivers
<1>. QED
  BY <1>1, InvariantHolds, PTL

\* A turn of llex takes a character or leads to one that does.
TurnsGoDown == LLex => Turn(ls', ls, Chunk(chunk))

\* No loop of llex goes round without taking a character more often than the
\* weight of its state allows, for every text and from every reachable state.
THEOREM EveryTurnLeadsOn == Spec => [][TurnsGoDown]_vars
<1>1. ASSUME IInv, Next PROVE TurnsGoDown
  <2>1. chunk \in Chunks /\ Chunk(chunk) \in Seq(Char)
    BY <1>1, OpeningDelivers DEF IInv
  <2>. SUFFICES ASSUME LLex PROVE Turn(ls', ls, Chunk(chunk))
    BY DEF TurnsGoDown
  <2>2. ~Binary(ls)
    BY DEF LLex, SkipNewline, SkipSpace, Minus, OpenBracket, Comparison, Dot, StartNumeral,
           StartName, StartString, EndOfStream, Single, ReadShort, SkipEquals, ReadOpening, ReadLong,
           SameLevel, ReadString, ReadDecimal, ReadNumeral, EndNumeral, ReadName, Scanning, Binary
  <2>3. LexOK(ls, Chunk(chunk))
    BY <1>1, <2>2 DEF IInv
  <2>. QED
    BY <2>1, <2>3, LLexTurns
<1>2. IInv /\ [Next]_vars => [TurnsGoDown]_vars
  BY <1>1
<1>. QED
  BY <1>2, InvariantHolds, PTL DEF Spec
=============================================================================
