---------------------------- MODULE LuaInterning ----------------------------
(***************************************************************************)
(* What the string table promises: every string has one address, which is  *)
(* given once, never to two strings, and never changes.                    *)
(***************************************************************************)
EXTENDS Naturals

CONSTANTS Content,  \* what strings can contain
          Nowhere   \* the address of a string nobody has created

VARIABLE address

Init == address = [c \in Content |-> Nowhere]

\* c is given some address that no other string has.
Intern(c) ==
  LET new == address'[c]
  IN /\ address[c] = Nowhere
     /\ new \in Nat \ {Nowhere}
     /\ \A d \in Content : address[d] # new
     /\ address' = [address EXCEPT ![c] = new]

Next == \E c \in Content : Intern(c)

Spec == Init /\ [][Next]_address
=============================================================================
