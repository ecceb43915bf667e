------------------------------ MODULE MCScreen ------------------------------
(* Screen for TLC: a screen of three by two points. *)
EXTENDS Screen

MCScreenRect == Rect(0, 0, 3, 2)
MCWindowRects == {Rect(0, 0, 2, 2), Rect(1, 0, 3, 1), Rect(1, 1, 4, 2)}
=============================================================================
