--------------------------- MODULE MCConfigPages ---------------------------
(* Two curve names, one fan, two requests under way: one of each page, or   *)
(* both of the curves page (the symmetry is sound for these, as every       *)
(* instance gives a page all of the permuted requests or none).             *)
EXTENDS ConfigPages, TLC

CONSTANTS silent, loud, fan1, fan2, flat, broken, r1, r2

Symmetry == Permutations(CurveNames) \cup Permutations(CurveRequests)
              \cup Permutations(Fans)
=============================================================================
