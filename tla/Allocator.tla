------------------------------- MODULE Allocator -------------------------------
(***************************************************************************)
(* What a memory allocator promises: it hands out nonempty ranges of its   *)
(* space that never overlap, and takes back a range as a whole.            *)
(***************************************************************************)
EXTENDS Integers

CONSTANTS Lo, Hi   \* the space is the addresses a with Lo <= a < Hi

VARIABLE owned     \* the ranges handed out and not returned

\* r is a nonempty range of the space.
InSpace(r) == Lo <= r.lo /\ r.lo < r.hi /\ r.hi <= Hi

Apart(r, s) == r.hi <= s.lo \/ s.hi <= r.lo

Init == owned = {}

Take(r) ==
  /\ InSpace(r)
  /\ \A s \in owned : Apart(r, s)
  /\ owned' = owned \cup {r}

Give(r) ==
  /\ r \in owned
  /\ owned' = owned \ {r}

\* A range taken is one of the ranges owned afterwards.
Next ==
  \/ \E r \in owned' : Take(r)
  \/ \E r \in owned : Give(r)

Spec == Init /\ [][Next]_owned
================================================================================
