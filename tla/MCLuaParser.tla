---------------------------- MODULE MCLuaParser -----------------------------
(* LuaStatements on small languages. *)
EXTENDS LuaStatements

Language(operands, unary, binary, suffixes, statements, names, exps, max) ==
  [operands |-> operands, unary |-> unary, binary |-> binary, suffixes |-> suffixes,
   statements |-> statements, names |-> names, exps |-> exps, tokens |-> max]

\* The global variable is not false.
MCInputs == { x \in [1 .. NPARAMS + 1 -> {"nil", "false", "value"}] : x[NPARAMS + 1] # "false" }

Constants == {"nil", "true", "false", "number", "string"}
Comparisons == {"==", "~=", "<", ">"}

\* Every operator; blocks and closures; assignments; calls and methods;
\* constructors; for loops; function statements.
MCLanguages ==
  { Language(Constants \cup {"local", "global"}, {"not", "-"}, {"and", "or", "..", "+"} \cup Comparisons, {},
             {"assign", "if"}, 1, 1, 4),
    Language({"local", "function"}, {}, {"and"}, {},
             {"local", "assign", "do", "if", "while", "repeat", "break"}, 1, 1, 6),
    Language({"local", "global", "..."}, {}, {}, {"()", "["}, {"assign"}, 2, 3, 6),
    Language({"local", "number", "..."}, {}, {"and"}, {"()", "(", ":", "["}, {"return"}, 2, 2, 5),
    Language({"local", "...", "{"}, {}, {}, {"()"}, {"return"}, 1, 1, 6),
    Language({"local", "function", "..."}, {}, {}, {}, {"for", "local", "break", "return"}, 2, 3, 5),
    Language({"global", "string"}, {}, {}, {"["}, {"function", "localfunc", "do", "return"}, 1, 1, 5) }

MCConditions == { Language({"true", "false", "local"}, {"not"}, {"and", "or"}, {}, {"assign"}, 1, 1, 6) }

=============================================================================
