------------------------------ MODULE MCSessions ------------------------------
(* Two requests under way, room for fewer sessions than logins.  To the      *)
(* server a browser that has lost its cookie is as good as another one.     *)
EXTENDS Sessions, TLC

CONSTANTS b1, r1, r2

Symmetry == Permutations(Requests)
=============================================================================
