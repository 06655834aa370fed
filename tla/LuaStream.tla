----------------------------- MODULE LuaStream ------------------------------
(***************************************************************************)
(* How the text of a chunk reaches the parser: FILE (lua/file.go), the     *)
(* readers getF and getS and the opening of a file (lua/lauxlib.go) and    *)
(* the buffered stream ZIO (lua/lzio.go), as operators on one record:      *)
(*   disk, step     what os.File has not delivered yet, and at most how    *)
(*                  much of it one Read returns;                           *)
(*   unread, eof    FILE: buff[cur:n] and the flag;                        *)
(*   reader, extraLine                                                     *)
(*   n, p, buff     ZIO;                                                   *)
(*   c, block       what the last operation returned;                      *)
(*   taken          history: how many bytes ZIO has handed out.            *)
(* Read errors are left out: FILE reports them as the end of the file.     *)
(***************************************************************************)
EXTENDS LuaChars

CONSTANT LUAL_BUFFERSIZE

ASSUME BufferAssumption == LUAL_BUFFERSIZE \in Nat \ {0}

NUL == "NUL"
SIGNATURE == "ESC"

Take(seq, k) == SubSeq(seq, 1, IF k < Len(seq) THEN k ELSE Len(seq))
Drop(seq, k) == SubSeq(seq, k + 1, Len(seq))

\* A loop run at most k times: what it does to the state, while it goes on.
Iterate(k, state, Holds(_), Body(_)) ==
  LET after[j \in 0 .. k] ==
        IF j = 0 THEN state
        ELSE LET before == after[j - 1]
             IN IF Holds(before) THEN Body(before) ELSE before
  IN after[k]
-----------------------------------------------------------------------------
(* FILE *)

Opened(text, step) ==
  [disk |-> text, step |-> step, unread |-> <<>>, eof |-> FALSE, reader |-> "getF",
   extraLine |-> FALSE, n |-> 0, p |-> 0, buff |-> <<>>, c |-> NUL, block |-> <<>>,
   taken |-> 0]

FillFile(s) ==
  IF s.unread # <<>> THEN s
  ELSE IF s.disk = <<>> THEN [s EXCEPT !.eof = TRUE]
  ELSE [s EXCEPT !.unread = Take(s.disk, s.step), !.disk = Drop(@, s.step), !.eof = FALSE]

GetC(s) ==
  LET f == FillFile(s)
  IN IF f.eof THEN [f EXCEPT !.c = NUL]
     ELSE [f EXCEPT !.c = Head(f.unread), !.unread = Tail(@)]

UngetC(s, c) == [s EXCEPT !.eof = FALSE, !.unread = <<c>> \o @]

\* fread: EOF fills, also when enough has been read.
FRead(s, size) ==
  LET missing(f) == size - Len(f.block)
      more(f) == ~f.eof /\ missing(f) > 0
      copy(f) == FillFile([f EXCEPT !.block = @ \o Take(f.unread, missing(f)),
                                    !.unread = Drop(@, missing(f))])
  IN Iterate(size, FillFile([s EXCEPT !.block = <<>>]), more, copy)

\* LLoadFile, up to the call of Load.  getc answers NUL at the end of the file.
LLoadFile(text, step) ==
  LET opened == GetC(Opened(text, step))
      unended(f) == ~FillFile(f).eof /\ f.c # "\n"
      line == Iterate(Len(text), opened, unended, GetC)
      next == IF line.c = "\n" THEN GetC(line) ELSE line
      skipped == IF opened.c = "#" THEN [next EXCEPT !.extraLine = TRUE] ELSE opened
      binary == skipped.c = SIGNATURE
  IN UngetC(IF binary THEN Opened(text, step) ELSE skipped, skipped.c)
-----------------------------------------------------------------------------
(* Readers: what they deliver is in block; nothing is the end. *)

GetF(s) ==
  IF s.extraLine THEN [s EXCEPT !.extraLine = FALSE, !.block = <<"\n">>]
  ELSE IF FillFile(s).eof THEN [FillFile(s) EXCEPT !.block = <<>>]
  ELSE FRead(FillFile(s), LUAL_BUFFERSIZE)

GetS(s) == [s EXCEPT !.block = s.disk, !.disk = <<>>]

LoadString(text) == [Opened(text, 1) EXCEPT !.reader = "getS"]

Reader(s) == IF s.reader = "getF" THEN GetF(s) ELSE GetS(s)
-----------------------------------------------------------------------------
(* ZIO *)

Filled(r) ==
  IF r.block = <<>> THEN [r EXCEPT !.c = EOZ]
  ELSE [r EXCEPT !.n = Len(r.block) - 1, !.p = 1, !.buff = r.block, !.c = Head(r.block)]
Fill(s) == Filled(Reader(s))

Handed(s, bytes) == [s EXCEPT !.block = bytes, !.taken = @ + Len(bytes)]

\* At the end of the stream n becomes negative and counts the calls.
GetCh(s) ==
  LET r == IF s.n > 0 THEN [s EXCEPT !.n = @ - 1, !.p = @ + 1, !.c = s.buff[s.p + 1]]
           ELSE Fill([s EXCEPT !.n = @ - 1])
  IN Handed(r, IF r.c = EOZ THEN <<>> ELSE <<r.c>>)

\* Broken: forgets to put back the byte that Fill has taken.
LookaheadTakes(s) ==
  IF s.n # 0 THEN [s EXCEPT !.c = s.buff[s.p + 1]] ELSE Handed(Fill(s), <<>>)

Lookahead(s) ==
  IF s.n # 0 THEN [s EXCEPT !.c = s.buff[s.p + 1]]
  ELSE LET f == Handed(Fill(s), <<>>)
       IN IF f.c = EOZ THEN f ELSE [f EXCEPT !.n = @ + 1, !.p = @ - 1]

\* Read: block is what could be delivered of n bytes.
ReadBlock(s, n) ==
  LET missing(r) == n - Len(r.got)
      more(r) == missing(r) > 0 /\ r.s.c # EOZ
      copy(r) ==
        LET z == Lookahead(r.s)
            m == IF missing(r) <= z.n THEN missing(r) ELSE z.n
        IN IF z.c = EOZ THEN [r EXCEPT !.s = z]
           ELSE [s |-> [z EXCEPT !.n = @ - m, !.p = @ + m],
                 got |-> r.got \o SubSeq(z.buff, z.p + 1, z.p + m)]
      last == Iterate(n, [s |-> [s EXCEPT !.c = NUL], got |-> <<>>], more, copy)
  IN Handed(last.s, last.got)
=============================================================================
