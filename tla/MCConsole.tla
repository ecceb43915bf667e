----------------------------- MODULE MCConsole ------------------------------
(* Console for TLC: cells of two points, of which a character sets one. *)
EXTENDS Console

MCFrameRect == Rect(0, 0, 5, 3)
MCFont(ch) == {Point(IF ch = "a" THEN 0 ELSE 1, 0)}
=============================================================================
