----------------------------- MODULE MCLuaCall -----------------------------
(* LuaCall with a Lua function without parameters, whose two registers hold *)
(* a function and its argument, a vararg function and a Go function.        *)
EXTENDS LuaCall, TLC

CONSTANTS fixed, vararg, go

MCNumParams == (fixed :> 0) @@ (vararg :> 1)
MCMaxStack == (fixed :> 2) @@ (vararg :> 2)

\* What is above a frame's live values is overwritten before it is read.
LiveState == <<Activations, top, base, ci, sizeCi, nCCalls, errorJmp, host, outcome, Len(stack)>>
=============================================================================
