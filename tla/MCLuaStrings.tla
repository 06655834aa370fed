---------------------------- MODULE MCLuaStrings ----------------------------
(* LuaStrings with a tag method, two keywords and six other strings, whose  *)
(* hashes meet in small tables and part, some of them, in larger ones.      *)
EXTENDS LuaStrings, TLC

CONSTANTS event, and, end, s1, s2, s3, s4, s5, s6

MCTagMethods == <<event>>
MCKeywords == <<and, end>>
MCHash == (event :> 0) @@ (and :> 1) @@ (end :> 3) @@ (s1 :> 5)
            @@ (s2 :> 2) @@ (s3 :> 4) @@ (s4 :> 7) @@ (s5 :> 13) @@ (s6 :> 8)
=============================================================================
