---------------------------- MODULE MCLuaScopes ----------------------------
(* LuaScopes with two names for up to MAXDECLS variables: shadowing is the  *)
(* normal case.                                                             *)
EXTENDS LuaScopes

CONSTANTS a, b

NameSymmetry == Permutations(Name)
=============================================================================
