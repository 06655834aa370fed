----------------------------- MODULE MCLuaMeta ------------------------------
(* LuaMeta with two tables, a function, and a type of values that may have a *)
(* metatable.                                                                *)
EXTENDS LuaMeta, TLC

CONSTANTS t1, t2, fn, bool, function, boolean, nil

MCTypeOf == (fn :> function) @@ (bool :> boolean) @@ (Nil :> nil)
MCFields ==
  [key \in FastEvents |->
     CASE key = "__eq" -> {Nil, fn}
       [] key = "__newindex" -> {Nil, fn} \cup Tables
       [] key = "__index" -> {Nil, fn, bool} \cup Tables]
MCStored == [key \in FastEvents |-> {Nil, fn}]

Symmetry == Permutations(Tables)
=============================================================================
