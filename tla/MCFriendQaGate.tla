---- MODULE MCFriendQaGate ----
(* Small instances of FriendQaGate for TLC: up to two questions of friends f1 *)
(* and f2, one of f3, and one of the owner.                                   *)
EXTENDS FriendQaGate

CONSTANTS a1, a2, b1, c1, o1, f1, f2, f3

MCTenantOf == [a \in Attempt |->
    CASE a \in {a1, a2} -> f1 [] a = b1 -> f2 [] a = c1 -> f3 [] OTHER -> Owner]

====
