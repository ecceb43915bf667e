----------------------------- MODULE MCDrawing ------------------------------
(* Drawing for TLC. *)
EXTENDS Drawing

MCPlane == Rect(0, 0, 3, 3)
MCUpdateRects == RectsIn(MCPlane)
MCBoundaries == {MCPlane, Rect(1, 0, 3, 2), Rect(0, 1, 3, 3), Rect(0, 1, 2, 2)}
MCDstRect == Rect(0, 0, 3, 3)
MCSrcRect == Rect(1, 1, 3, 3)
MCBlitRects == RectsIn(Rect(-1, -1, 4, 4))
=============================================================================
