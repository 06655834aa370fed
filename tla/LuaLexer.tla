------------------------------ MODULE LuaLexer ------------------------------
(***************************************************************************)
(* The lexical analyser (lua/llex.go) reading a chunk through LuaStream.   *)
(*                                                                         *)
(* ls is the LexState: the stream z, current, lineNumber, lastLine, the    *)
(* token t and the one looked ahead, the buffer of the element being read, *)
(* and where llex is: at the top of its loop ("scan") or in one of the     *)
(* loops of its readers.  The parser asks for tokens while llex is "idle". *)
(***************************************************************************)
EXTENDS LuaStream, LuaTokens

CONSTANT Chunks   \* the texts, each with its way: reads of step bytes of a file, or 0, a string

\* The first line of the text ends at j.
EndsFirstLine(text, j) == text[j] = "\n" /\ \A h \in 1 .. j - 1 : text[h] # "\n"

\* One for each class that llex tells apart.
Characters == Newlines \cup Alnum \cup Quotes
              \cup {Space, "-", "[", "]", "=", "<", "~", ".", Backslash, "#", NUL, SIGNATURE}

\* A text is bytes.  A file is not empty nor a precompiled chunk, and if its
\* first line begins with `#' there is more, which is not one either: LLoadFile
\* delivers something else than these files.
ASSUME ChunksAssumption ==
  \A c \in Chunks :
    /\ c.text \in Seq(Characters) /\ c.step \in Nat
    /\ c.step > 0 =>
         /\ c.text # <<>> /\ c.text[1] # SIGNATURE
         /\ c.text[1] = "#" => \E j \in 1 .. Len(c.text) - 1 :
                                 EndsFirstLine(c.text, j) /\ c.text[j + 1] # SIGNATURE

VARIABLES
  chunk,   \* the one being read
  ls,
  tokens,  \* history: the tokens the parser has got
  turns    \* history: how many turns the loops of llex have taken for a token

vars == <<chunk, ls, tokens, turns>>

NoToken == Token(TK_EOS, <<>>, 0)
-----------------------------------------------------------------------------
(* Reading characters *)

Current(l) == l.z.c
At(l, chars) == Current(l) \in chars
NextChar(l) == [l EXCEPT !.z = GetCh(@)]

Save(l, c) == [l EXCEPT !.buff = Append(@, c)]
SaveAndNext(l) == NextChar(Save(l, Current(l)))
Reset(l) == [l EXCEPT !.buff = <<>>]

\* Broken: counts a pair of newline characters as two lines.
IncForEach(l) == [NextChar(l) EXCEPT !.lineNumber = @ + 1]

IncLineNumber(l) ==
  LET first == NextChar(l)
      pair == At(first, Newlines) /\ Current(first) # Current(l)
  IN [IF pair THEN NextChar(first) ELSE first EXCEPT !.lineNumber = @ + 1]

In(l, mode) == [l EXCEPT !.mode = mode]

\* llex returns to xNext or xLookAhead.
Return(l, kind, value) ==
  LET token == Token(kind, value, l.lineNumber)
  IN IF l.ahead THEN [l EXCEPT !.mode = "idle", !.lookAhead = token]
     ELSE [l EXCEPT !.mode = "idle", !.t = token]

Symbol(l, chars) == Return(l, "symbol", chars)

\* xLexError throws.
LexError(l, msg) ==
  [l EXCEPT !.mode = "failed", !.t = Token("error", msg, l.lineNumber), !.ahead = FALSE]

\* A turn of llex; a token it returns to xNext is one the parser gets.
Step(l) ==
  /\ ls' = l
  /\ tokens' = IF ls'.mode \in {"idle", "failed"} /\ ~ls'.ahead THEN Append(tokens, ls'.t) ELSE tokens
  /\ turns' = turns + 1
  /\ UNCHANGED chunk
-----------------------------------------------------------------------------
(* llex: the first character of a token, or what comes between tokens *)

Scanning(chars) == ls.mode = "scan" /\ At(ls, chars)

SkipNewline == Scanning(Newlines) /\ Step(IncLineNumber(ls))

SkipSpace == Scanning({Space}) /\ Step(NextChar(ls))

\* skipSep begins at a bracket, for a token, a comment or inside a long string.
SkipSep(l, caller) ==
  [SaveAndNext(l) EXCEPT !.mode = "sep", !.caller = caller, !.bracket = Current(l), !.count = 0]

Minus ==
  /\ Scanning({"-"})
  /\ LET one == NextChar(ls)
         two == NextChar(one)
     IN Step(IF ~At(one, {"-"}) THEN Symbol(one, <<"-">>)
             ELSE IF At(two, {"["}) THEN SkipSep(two, "comment") ELSE In(two, "short"))

OpenBracket == Scanning({"["}) /\ Step(SkipSep(ls, "token"))

Comparison ==
  /\ Scanning({"=", "<", "~"})
  /\ LET l == NextChar(ls)
     IN Step(IF At(l, {"="}) THEN Symbol(NextChar(l), <<Current(ls), "=">>)
             ELSE Symbol(l, <<Current(ls)>>))

Dot ==
  /\ Scanning({"."})
  /\ LET one == SaveAndNext(ls)
         two == SaveAndNext(one)
     IN Step(IF At(one, {"."}) THEN IF At(two, {"."}) THEN Symbol(SaveAndNext(two), <<".", ".", ".">>)
                                    ELSE Symbol(two, <<".", ".">>)
             ELSE IF At(one, Digits) THEN In(one, "numeral") ELSE Symbol(one, <<".">>))

StartNumeral == Scanning(Digits) /\ Step(In(ls, "numeral"))

StartName == Scanning(Initials) /\ Step(In(ls, "name"))

StartString == Scanning(Quotes) /\ Step([SaveAndNext(ls) EXCEPT !.mode = "string", !.del = Current(ls)])

EndOfStream == Scanning({EOZ}) /\ Step(Return(ls, TK_EOS, <<>>))

\* Any other character is a token.
Single == Scanning({"]", Backslash, NUL, "#", SIGNATURE}) /\ Step(Symbol(NextChar(ls), <<Current(ls)>>))
-----------------------------------------------------------------------------
(* Comments and long strings *)

\* Broken: does not stop at the end of the text.
EndsShortAtNewline(l) == At(l, Newlines)

EndsShort(l) == At(l, Newlines \cup {EOZ})

ReadShort ==
  /\ ls.mode = "short"
  /\ Step(IF EndsShort(ls) THEN In(ls, "scan") ELSE NextChar(ls))

\* Broken: does not count the `=' of a closing bracket.
SepOfOpening(l) == IF At(l, {l.bracket}) THEN (IF l.bracket = "]" THEN l.sep ELSE l.count) ELSE -l.count - 1

\* What skipSep returns.
Sep(l) == IF At(l, {l.bracket}) THEN l.count ELSE -l.count - 1

Opening(l, comment) == [l EXCEPT !.mode = "opening", !.sep = Sep(l), !.comment = comment]

AfterSep(l) ==
  CASE l.caller = "comment" -> IF Sep(l) >= 0 THEN Opening(Reset(l), TRUE) ELSE In(Reset(l), "short")
    [] l.caller = "token"   -> IF Sep(l) >= 0 THEN Opening(l, FALSE)
                               ELSE IF Sep(l) = -1 THEN Symbol(l, <<"[">>) ELSE LexError(l, "delimiter")
    [] l.caller = "long"    -> IF Sep(l) = l.sep THEN In(SaveAndNext(l), "same") ELSE In(l, "long")

SkipEquals ==
  /\ ls.mode = "sep"
  /\ Step(IF At(ls, {"="}) THEN [SaveAndNext(ls) EXCEPT !.count = @ + 1] ELSE AfterSep(ls))

\* The second bracket, and a newline right after it.
ReadOpening ==
  /\ ls.mode = "opening"
  /\ LET l == SaveAndNext(ls)
     IN Step(In(IF At(l, Newlines) THEN IncLineNumber(l) ELSE l, "long"))

\* Broken: waits for more.
LongAgain(l) == l

LongUnfinished(l) == LexError(l, "unfinished")

\* One turn of the loop of readLongString.
LongTurn(l) ==
  CASE At(l, {EOZ})     -> LongUnfinished(l)
    [] At(l, {"[", "]"}) -> SkipSep(l, "long")
    [] At(l, Newlines)  -> LET newline == IncLineNumber(Save(l, "\n"))
                           IN IF l.comment THEN Reset(newline) ELSE newline
    [] ~At(l, {EOZ, "[", "]"} \cup Newlines) ->
                           IF l.comment THEN NextChar(l) ELSE SaveAndNext(l)

ReadLong == ls.mode = "long" /\ Step(LongTurn(ls))

Trimmed(l, n) == SubSeq(l.buff, 1 + n, Len(l.buff) - n)

\* A bracket of the same level, which closes the string or is nested in it
\* (LUA_COMPAT_LSTR is 1).
SameLevel ==
  /\ ls.mode = "same"
  /\ Step(IF ls.bracket = "[" THEN IF ls.sep = 0 THEN LexError(ls, "nesting") ELSE In(ls, "long")
          ELSE IF ls.comment THEN In(Reset(ls), "scan")
          ELSE Return(ls, "<string>", Trimmed(ls, 2 + ls.sep)))
-----------------------------------------------------------------------------
(* Strings, numerals and names *)

\* l is behind the backslash.
Escape(l) ==
  CASE At(l, {"a"})    -> NextChar(Save(l, Bell))
    [] At(l, Newlines) -> IncLineNumber(Save(l, "\n"))
    [] At(l, {EOZ})    -> l
    [] At(l, Digits)   -> [l EXCEPT !.mode = "decimal", !.count = 0, !.code = 0]
    [] ~At(l, {"a", EOZ} \cup Newlines \cup Digits) -> SaveAndNext(l)

StringTurn(l) ==
  CASE At(l, {l.del}) -> LET s == SaveAndNext(l) IN Return(s, "<string>", Trimmed(s, 1))
    [] At(l, Newlines \cup {EOZ}) -> LexError(l, "unfinished")
    [] At(l, {Backslash})  -> Escape(NextChar(l))
    [] ~At(l, {l.del, EOZ, Backslash} \cup Newlines) -> SaveAndNext(l)

ReadString == ls.mode = "string" /\ Step(StringTurn(ls))

\* \ddd: up to three digits.
ReadDecimal ==
  /\ ls.mode = "decimal"
  /\ Step(IF ls.count < 3 /\ At(ls, Digits)
          THEN [NextChar(ls) EXCEPT !.count = @ + 1, !.code = 10 * @ + DigitValue(Current(ls))]
          ELSE IF ls.code > UCHAR_MAX THEN LexError(ls, "escape")
          ELSE In(Save(ls, Byte(ls.code)), "string"))

Optional(l, chars) == IF At(l, chars) THEN SaveAndNext(l) ELSE l

ReadNumeral ==
  /\ ls.mode = "numeral"
  /\ Step(IF At(ls, Digits \cup {"."}) THEN SaveAndNext(ls)
          ELSE In(IF At(ls, {"e"}) THEN Optional(SaveAndNext(ls), {"-"}) ELSE ls, "suffix"))

EndNumeral ==
  /\ ls.mode = "suffix"
  /\ Step(IF At(ls, Alnum) THEN SaveAndNext(ls)
          ELSE IF IsNumber(ls.buff) THEN Return(ls, "<number>", ls.buff) ELSE LexError(ls, "number"))

ReadName ==
  /\ ls.mode = "name"
  /\ Step(IF At(ls, Alnum) THEN SaveAndNext(ls)
          ELSE Return(ls, IF ls.buff \in Reserved THEN "reserved" ELSE "<name>", ls.buff))
-----------------------------------------------------------------------------
(* The parser *)

\* xNext: read a token, or take the one looked ahead.  TK_EOS means none: at
\* the end of the text the next call finds the end again.
XNext ==
  /\ ls.mode = "idle"
  /\ tokens = <<>> \/ ls.t.kind # TK_EOS
  /\ IF ls.lookAhead.kind # TK_EOS
     THEN /\ ls' = [ls EXCEPT !.t = ls.lookAhead, !.lookAhead = NoToken, !.lastLine = ls.lineNumber,
                              !.ahead = FALSE]
          /\ tokens' = Append(tokens, ls'.t)
     ELSE /\ ls' = Reset(In([ls EXCEPT !.lastLine = ls.lineNumber, !.ahead = FALSE], "scan"))
          /\ UNCHANGED tokens
  /\ turns' = 0
  /\ UNCHANGED chunk

\* xLookAhead: constructor, at a name.
XLookAhead ==
  /\ ls.mode = "idle" /\ ls.t.kind = "<name>" /\ ~ls.ahead
  /\ ls' = Reset(In([ls EXCEPT !.ahead = TRUE], "scan"))
  /\ turns' = 0
  /\ UNCHANGED <<chunk, tokens>>

\* A precompiled chunk is read in blocks.
LoadBlock ==
  /\ ls.mode = "binary"
  /\ \E n \in 1 .. 3 :
       LET z == ReadBlock(ls.z, n)
       IN ls' = [ls EXCEPT !.z = z, !.mode = IF Len(z.block) < n THEN "truncated" ELSE "binary"]
  /\ UNCHANGED <<chunk, tokens, turns>>

\* parser (lua/ldo.go), up to the first token: xSetInput reads a character.
Load(z) ==
  LET l == [z |-> Lookahead(z), lineNumber |-> 1, lastLine |-> 1,
            t |-> NoToken, lookAhead |-> NoToken, ahead |-> FALSE, buff |-> <<>>,
            mode |-> "idle", caller |-> "", bracket |-> NUL, count |-> 0, sep |-> 0,
            comment |-> FALSE, del |-> NUL, code |-> 0]
  IN IF l.z.c = SIGNATURE THEN In(l, "binary") ELSE NextChar(l)

Init ==
  /\ chunk \in Chunks
  /\ ls = Load(IF chunk.step = 0 THEN LoadString(chunk.text) ELSE LLoadFile(chunk.text, chunk.step))
  /\ tokens = <<>>
  /\ turns = 0

LLex == \/ SkipNewline \/ SkipSpace \/ Minus \/ OpenBracket \/ Comparison \/ Dot
        \/ StartNumeral \/ StartName \/ StartString \/ EndOfStream \/ Single
        \/ ReadShort \/ SkipEquals \/ ReadOpening \/ ReadLong \/ SameLevel
        \/ ReadString \/ ReadDecimal \/ ReadNumeral \/ EndNumeral \/ ReadName
Next == LLex \/ XNext \/ XLookAhead \/ LoadBlock

Spec == Init /\ [][Next]_vars
-----------------------------------------------------------------------------
(* Properties *)

\* The chunk: the text, of a file without its first line if that begins with `#'.
Chunk(c) ==
  IF c.step = 0 \/ c.text[1] # "#" THEN c.text
  ELSE SubSeq(c.text, CHOOSE j \in DOMAIN c.text : EndsFirstLine(c.text, j), Len(c.text))

\* Whatever the sizes of the reads and the buffers, the bytes that ZIO hands
\* out are those of the chunk in their order, then nothing but its end.
StreamDelivers ==
  /\ ls.z.block = SubSeq(Chunk(chunk), ls.z.taken - Len(ls.z.block) + 1, ls.z.taken)
  /\ Current(ls) = EOZ => ls.z.taken = Len(Chunk(chunk))

\* The tokens that the parser gets are those of the text, with their lines, up
\* to its end or its first error, however it is read and looked ahead.
TokensMeanText ==
  ls.mode = "failed" \/ (ls.mode = "idle" /\ tokens # <<>> /\ ls.t.kind = TK_EOS)
    => tokens = Tokens(Chunk(chunk))

\* Past the end of the text nothing is asked for: n counts the calls, and
\* Lookahead takes any n but 0 for bytes that are there.
NotReadPastEnd == ls.z.n >= -1

\* llex ends, whatever the text: a turn that takes no character leads to one
\* that does, or to the token.
LexingEnds == turns <= 2 * Len(chunk.text) + 3
=============================================================================
