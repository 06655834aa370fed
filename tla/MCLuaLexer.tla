----------------------------- MODULE MCLuaLexer -----------------------------
(* LuaLexer on all short texts of small alphabets. *)
EXTENDS LuaLexer

Texts(chars, n) == UNION { [1 .. k -> chars] : k \in 1 .. n }
Loaded(texts, steps) == [text : texts, step : steps]
Within(begin, texts) == { begin \o text : text \in texts }

MCReserved == {<<"a", "e">>}

\* Long brackets and comments, the ends of lines, strings, numerals, names and
\* operators, the levels of long brackets, files whose first line is a comment,
\* precompiled chunks,
\* strings that begin like such a line.
MCChunks ==
  Loaded(Texts({"-", "[", "]", "=", "\n"}, 5), {2})
  \cup Loaded(Texts({"-", "[", "\n", "\r", "a"}, 4), {1})
  \cup Loaded(Within(<<"'">>, Texts({"'", "\\", "1", "9", "a", "\n"}, 4)), {0, 3})
  \cup Loaded(Within(<<"'", "\\">>, Texts({"1", "9", "\n", "\r", "'"}, 4)), {2})
  \cup Loaded(Texts({"1", "e", "-", ".", "x"}, 5), {2})
  \cup Loaded(Texts({"a", "e", "1", "_", " ", "="}, 3), {2})
  \cup Loaded(Texts({"=", "<", "~", ".", "1"}, 4), {1})
  \cup Loaded(Within(<<"[", "=", "[">>, Texts({"]", "=", "[", "\r", "a"}, 4)), {0, 3})
  \cup Loaded(Within(<<"#", "a", "\n">>, Texts({"#", "a", "\n", "'"}, 3)), {1, 2})
  \cup Loaded(Texts({"\\", "]", "NUL"}, 2), {1})
  \cup Loaded(Within(<<"#">>, Texts({"a", "\n", "ESC"}, 2)), {0})
  \cup Loaded(Within(<<"ESC">>, Texts({"a", "1"}, 5)), {0})
=============================================================================
