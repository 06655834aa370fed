--------------------------- MODULE MCLuaUpvalues ----------------------------
(* LuaUpvalues with a stack that must grow when functions nest. *)
EXTENDS LuaUpvalues

CONSTANTS x, y
=============================================================================
