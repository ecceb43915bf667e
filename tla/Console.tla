------------------------------ MODULE Console -------------------------------
(***************************************************************************)
(* TextWriter of kernel/src/draw/text.rs, that println! writes to: it      *)
(* draws characters on FRAME_BUFFER and scrolls it when it is full.        *)
(***************************************************************************)
EXTENDS Surface

CONSTANTS
  FrameRect, Stride,   \* FRAME_BUFFER, from (0, 0) on
  CharWidth, CharHeight,
  Chars,               \* characters besides "newline"
  Font(_)              \* the points of a cell that a character sets

VARIABLES
  frame,   \* FRAME_BUFFER
  pos,     \* WRITER.pos
  freed    \* images given to kernel_free()

vars == <<frame, pos, freed>>

BLACK == "black"
WHITE == "white"

Init ==
  /\ frame = from_raw("frame", [i \in 0 .. Stride * size(FrameRect).y - 1 |-> BLACK],
                      FrameRect, Stride, BLACK)
  /\ pos = Point(0, 0)
  /\ freed = {}

render_char(s, at, ch) ==
  LET set == {image_ptr_unsafe(s, p) : p \in {Add(at, b) : b \in Font(ch)} \cap Points(s.rect)}
  IN  [s EXCEPT !.image = [i \in DOMAIN @ |-> IF i \in set THEN WHITE ELSE @[i]]]

(* The cursor after a character, before the frame is scrolled. *)
advanced(b) ==
  LET next_line == Point(FrameRect.x0, pos.y + CharHeight)
      right == Add(pos, Point(CharWidth, 0))
  IN  IF b = "newline" \/ right.x >= FrameRect.x1 THEN next_line ELSE right

write_byte(b) ==
  LET drawn == IF b = "newline" THEN frame ELSE render_char(frame, pos, b)
      at == advanced(b)
  IN  IF at.y >= FrameRect.y1
      THEN /\ frame' = self_blit(drawn, FrameRect, Point(0, CharHeight))
           /\ freed' = drop(freed, drawn)   \* the temporary Surface of self_blit
           /\ pos' = Sub(at, Point(0, CharHeight))
      ELSE frame' = drawn /\ pos' = at /\ UNCHANGED freed

Next == \E b \in Chars \cup {"newline"} : write_byte(b)

Spec == Init /\ [][Next]_vars

(* surface.rs:35: "image must point to suitably sized area of memory,      *)
(* Surface takes ownership of that memory".  FRAME_BUFFER is never         *)
(* dropped, so its image is never given to kernel_free().                  *)
ImageOwned == frame.ptr \notin freed
=============================================================================
