------------------------------- MODULE LuaMap -------------------------------
(***************************************************************************)
(* What a Lua table promises its users: a finite map from keys to values   *)
(* in which an absent key reads as Nil.  Nothing is said of the array part *)
(* or the hash part, of collisions or of rehashing.                        *)
(***************************************************************************)
CONSTANTS Keys,  \* every key a program may use (nil and NaN are not keys)
          Val,   \* the non-nil values
          Nil    \* the value nil, not one of Val

VARIABLE map

Init == map = [k \in Keys |-> Nil]

\* t[k] = v for some key k and value v; assigning Nil removes the key.
Next ==
  LET changed == { k \in Keys : map'[k] # map[k] }
  IN /\ DOMAIN map' = Keys
     /\ \A k \in changed : map'[k] \in Val \cup {Nil}
     /\ \E k \in Keys : changed \subseteq {k}

Spec == Init /\ [][Next]_map

=============================================================================
