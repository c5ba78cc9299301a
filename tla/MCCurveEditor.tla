--------------------------- MODULE MCCurveEditor ---------------------------
(* A small curve editor: three points, temperatures in degrees.            *)
EXTENDS CurveEditor

CONSTANTS s1, s2, v1

P(t, p) == [temp |-> t, percent |-> p]

(* No points, one, out of order, doubled temperatures. *)
MCFileCurves ==
  { <<>>, <<P(50, 40)>>,
    <<P(70, 20), P(30, 90), P(50, 60)>>,
    <<P(30, 20), P(70, 90), P(50, 60), P(80, 10)>>,
    <<P(50, 20), P(50, 90), P(50, 60)>> }
=============================================================================
