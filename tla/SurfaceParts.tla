---------------------------- MODULE SurfaceParts ----------------------------
(***************************************************************************)
(* Surface of kernel/src/draw/surface.rs: an image in memory, row after    *)
(* row, and the rectangle of points it shows.  The memory at the image     *)
(* pointer is a function of the offset; "wild" says that an access left    *)
(* it.  Here is fill, and how blit divides its rectangle.                  *)
(***************************************************************************)
EXTENDS Geometry

(* from_raw: stride is that of the frame buffer, or the width. *)
from_raw(ptr, image, rect, stride, fill) ==
  [ptr |-> ptr, image |-> image, rect |-> rect, stride |-> stride, fill |-> fill,
   wild |-> FALSE]

image_ptr_unsafe(s, p) == (p.y - s.rect.y0) * s.stride + (p.x - s.rect.x0)
Slice(s, p, width) == {image_ptr_unsafe(s, p) + i : i \in 0 .. width - 1}

fill_unsafe(s, dst_rect, color) ==
  LET touched == UNION {Slice(s, Point(dst_rect.x0, y), size(dst_rect).x) :
                          y \in dst_rect.y0 .. dst_rect.y1 - 1}
  IN  [s EXCEPT !.image = [i \in DOMAIN @ |-> IF i \in touched THEN color ELSE @[i]],
                !.wild = @ \/ ~ touched \subseteq DOMAIN s.image]

fill(s, dst_rect, color) ==
  LET rect == intersect(dst_rect, s.rect)
  IN  IF is_empty(rect) THEN s ELSE fill_unsafe(s, rect, color)

(* The part of the source that a blit to r copies, and where it goes. *)
Copied(r, src_rect, src_start) == intersect(RectOf(src_start, Add(src_start, size(r))), src_rect)
Placed(r, src_rect, src_start) ==
  LET blit_src == Copied(r, src_rect, src_start)
      t == Add(tl(r), Sub(tl(blit_src), src_start))
  IN  RectOf(t, Add(t, size(blit_src)))

(* What is left of r around the rectangle b in it. *)
Above(r, b) == Rect(r.x0, r.y0, r.x1, b.y0)
LeftOf(r, b) == Rect(r.x0, b.y0, b.x0, b.y1)
RightOf(r, b) == Rect(b.x1, b.y0, r.x1, b.y1)
BelowOf(r, b) == Rect(r.x0, b.y1, r.x1, r.y1)

(* fill_unsafe if the rectangle has the extent the code asks for. *)
FillIf(s, holds, rect, color) == IF holds THEN fill_unsafe(s, rect, color) ELSE s
=============================================================================
