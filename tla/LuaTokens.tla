----------------------------- MODULE LuaTokens ------------------------------
(***************************************************************************)
(* What the lexical analyser promises: the tokens of a whole text, each    *)
(* with its line number, by their definitions on positions of the text.    *)
(* Where a text is not lexically correct it has tokens up to the error.    *)
(***************************************************************************)
EXTENDS LuaChars

CharAt(w, i) == IF i <= Len(w) THEN w[i] ELSE EOZ

\* The first position from i on that is not in S; the first that is in P.
After(w, i, S) ==
  CHOOSE j \in i .. Len(w) + 1 : CharAt(w, j) \notin S /\ \A h \in i .. j - 1 : w[h] \in S
First(w, i, P) ==
  CHOOSE j \in i .. Len(w) + 1 : (j > Len(w) \/ j \in P) /\ \A h \in i .. j - 1 : h \notin P

\* Two different newline characters in a row are one line break.
Second(w) ==
  LET second[p \in 1 .. Len(w)] ==
        /\ p > 1 /\ {w[p], w[p - 1]} = Newlines
        /\ ~second[p - 1]
  IN second
Breaks(w) == { p \in DOMAIN w : w[p] \in Newlines /\ ~Second(w)[p] }
Line(w, i) == 1 + Cardinality({ p \in Breaks(w) : p < i })
PastBreak(w, i) == IF i < Len(w) /\ Second(w)[i + 1] THEN i + 2 ELSE i + 1

\* The text from i to j - 1 with every line break as one newline.
Piece(w, p) == IF w[p] \notin Newlines THEN <<w[p]>> ELSE IF p \in Breaks(w) THEN <<"\n">> ELSE <<>>
Contents(w, i) ==
  LET upTo[j \in i .. Len(w) + 1] == IF j = i THEN <<>> ELSE upTo[j - 1] \o Piece(w, j - 1)
  IN upTo
Content(w, i, j) == Contents(w, i)[j]

\* A token, or a part of the text that is none, up to the position before end.
Plain(kind, value, end) == [kind |-> kind, value |-> value, end |-> end]
Skipped(end) == Plain("part", <<>>, end)
Error(value, end) == Plain("error", value, end)
SymbolAt(w, i, n) == Plain("symbol", SubSeq(w, i, i + n - 1), i + n)
-----------------------------------------------------------------------------
(* Long brackets *)

Bracket(w, i, c, level) ==
  /\ i + level + 1 <= Len(w) /\ w[i] = c /\ w[i + level + 1] = c
  /\ \A j \in i + 1 .. i + level : w[j] = "="
Level(w, i) == After(w, i + 1, {"="}) - i - 1
LongOpen(w, i) == CharAt(w, i) = "[" /\ Bracket(w, i, "[", Level(w, i))

\* What a long bracket at i encloses begins behind it, or behind a line break there.
Inside(w, i) ==
  LET start == i + Level(w, i) + 2
  IN IF CharAt(w, start) \in Newlines THEN PastBreak(w, start) ELSE start
Closes(w, i) == { j \in DOMAIN w : Bracket(w, j, "]", Level(w, i)) }
Nests(w, i) == { j \in DOMAIN w : Level(w, i) = 0 /\ Bracket(w, j, "[", 0) }

\* It ends where it is closed; inside [[ ]] another [[ is refused.
Enclosed(w, i) ==
  LET close == First(w, Inside(w, i), Closes(w, i))
      nest == First(w, Inside(w, i), Nests(w, i))
  IN IF nest < close THEN Error("nesting", nest + 2)
     ELSE IF close > Len(w) THEN Error("unfinished", close)
     ELSE Plain("<string>", Content(w, Inside(w, i), close), close + Level(w, i) + 2)
-----------------------------------------------------------------------------
(* Strings: each escape, each other character, and the value from j on. *)

EscapeAt(w, j) ==
  LET c == CharAt(w, j + 1)
      digits == After(w, j + 1, Digits) - j - 1
      n == IF digits > 3 THEN 3 ELSE digits
      code == Decimal(SubSeq(w, j + 1, j + n))
  IN CASE c \in Newlines -> Plain("part", <<"\n">>, PastBreak(w, j + 1))
       [] c = EOZ -> Skipped(j + 1)
       [] c = "a" -> Plain("part", <<Bell>>, j + 2)
       [] c \in Digits -> IF code > UCHAR_MAX THEN Error("escape", j + 1 + n)
                          ELSE Plain("part", <<Byte(code)>>, j + 1 + n)
       [] c \notin Newlines \cup {EOZ, "a"} \cup Digits -> Plain("part", <<c>>, j + 2)

PartOfString(w, i, j) ==
  LET c == CharAt(w, j)
  IN CASE c = w[i] -> Plain("<string>", <<>>, j + 1)
       [] c \in Newlines \cup {EOZ} -> Error("unfinished", j)
       [] c = Backslash -> EscapeAt(w, j)
       [] c \notin {w[i], EOZ, Backslash} \cup Newlines -> Plain("part", <<c>>, j + 1)

Joined(x, rest) == IF rest.kind = "error" THEN rest ELSE Plain(rest.kind, x.value \o rest.value, rest.end)

QuotedFrom(w, i) ==
  LET from[j \in i + 1 .. Len(w) + 1] ==
        LET x == PartOfString(w, i, j)
        IN IF x.kind = "part" THEN Joined(x, from[x.end]) ELSE x
  IN from
Quoted(w, i) == QuotedFrom(w, i)[i + 1]
-----------------------------------------------------------------------------
(* The token at position i, or a part of the text that is none. *)

NumeralEnd(w, i) ==
  LET mantissa == After(w, i, Digits \cup {"."})
      sign == mantissa + 1
      rest == IF CharAt(w, mantissa) # "e" THEN mantissa
              ELSE IF CharAt(w, sign) = "-" THEN sign + 1 ELSE sign
  IN After(w, rest, Alnum)

Numeral(w, i) ==
  LET numeral == SubSeq(w, i, NumeralEnd(w, i) - 1)
  IN IF IsNumber(numeral) THEN Plain("<number>", numeral, NumeralEnd(w, i))
     ELSE Error("number", NumeralEnd(w, i))

Word(w, i) ==
  LET word == SubSeq(w, i, After(w, i, Alnum) - 1)
  IN Plain(IF word \in Reserved THEN "reserved" ELSE "<name>", word, After(w, i, Alnum))

Dots(w, i) ==
  LET dots == After(w, i, {"."}) - i
  IN SymbolAt(w, i, IF dots > 3 THEN 3 ELSE dots)

Comment(w, i) ==
  IF ~LongOpen(w, i + 2) THEN Skipped(First(w, i, { j \in DOMAIN w : w[j] \in Newlines }))
  ELSE IF Enclosed(w, i + 2).kind = "error" THEN Enclosed(w, i + 2)
  ELSE Skipped(Enclosed(w, i + 2).end)

Lexeme(w, i) ==
  LET c == w[i]
      d == CharAt(w, i + 1)
      comment == c = "-" /\ d = "-"
      opening == c = "[" /\ (LongOpen(w, i) \/ d = "=")
      equality == c \in {"=", "<", "~"} /\ d = "="
      number == c \in Digits \/ (c = "." /\ d \in Digits)
      dots == c = "." /\ d \notin Digits
  IN CASE c \in Newlines \cup {Space} -> Skipped(i + 1)
       [] comment -> Comment(w, i)
       [] opening -> IF LongOpen(w, i) THEN Enclosed(w, i) ELSE Error("delimiter", After(w, i + 1, {"="}))
       [] equality -> SymbolAt(w, i, 2)
       [] c \in Quotes -> Quoted(w, i)
       [] number -> Numeral(w, i)
       [] dots -> Dots(w, i)
       [] c \in Initials -> Word(w, i)
       [] ~comment /\ ~opening /\ ~equality /\ ~number /\ ~dots
          /\ c \notin Newlines \cup {Space} \cup Quotes \cup Initials -> SymbolAt(w, i, 1)

\* Lines are those where the token ends.
Tokenized(w, x) == Token(x.kind, x.value, Line(w, x.end))

TokensFrom(w) ==
  LET from[i \in 1 .. Len(w) + 1] ==
        IF i > Len(w) THEN << Token(TK_EOS, <<>>, Line(w, i)) >>
        ELSE LET x == Lexeme(w, i)
             IN (IF x.kind = "part" THEN <<>> ELSE << Tokenized(w, x) >>)
                \o (IF x.kind = "error" THEN <<>> ELSE from[x.end])
  IN from
Tokens(w) == TokensFrom(w)[1]
=============================================================================
