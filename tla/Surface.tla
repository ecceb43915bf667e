------------------------------ MODULE Surface -------------------------------
(***************************************************************************)
(* Surface of kernel/src/draw/surface.rs: blit copies the part of its      *)
(* rectangle that the source has and fills the others.                     *)
(***************************************************************************)
EXTENDS SurfaceParts, SequencesExt

(* core::ptr::copy of a row: as if through a buffer. *)
CopyRow(s, src, dst_row, src_row, width) ==
  LET from(i) == src_row + (i - dst_row)
      touched == dst_row .. dst_row + width - 1
      read == src_row .. src_row + width - 1
  IN  [s EXCEPT !.image = [i \in DOMAIN @ |->
                             IF i \in touched /\ from(i) \in DOMAIN src.image
                             THEN src.image[from(i)] ELSE @[i]],
                !.wild = @ \/ ~ touched \subseteq DOMAIN s.image
                           \/ ~ read \subseteq DOMAIN src.image]

(* Bug: always from the first row down. *)
BugCopiesDown(s, dst_start, src, src_start, width, height) ==
  LET rows == [i \in 1 .. height |-> i - 1]
      row(dst, y) ==
        CopyRow(dst, IF s.ptr = src.ptr THEN dst ELSE src,
                image_ptr_unsafe(dst, Add(dst_start, Point(0, y))),
                image_ptr_unsafe(src, Add(src_start, Point(0, y))), width)
  IN  FoldLeft(row, s, rows)

(* Row by row; from the last one up when the image is copied down onto     *)
(* itself, where a row that is read may have been written before.          *)
blit_unsafe(s, dst_start, src, src_start, width, height) ==
  LET same == s.ptr = src.ptr
      rows == [i \in 1 .. height |-> i - 1]
      row(dst, y) ==
        CopyRow(dst, IF same THEN dst ELSE src,
                image_ptr_unsafe(dst, Add(dst_start, Point(0, y))),
                image_ptr_unsafe(src, Add(src_start, Point(0, y))), width)
  IN  FoldLeft(row, s, IF same /\ dst_start.y > src_start.y THEN Reverse(rows) ELSE rows)

(* The part of the rectangle that the source has, and fill around it. *)
BlitClamped(s, dst_rect, src, src_start) ==
  LET blit_src == Copied(dst_rect, src.rect, src_start)
      r == dst_rect
      b == Placed(dst_rect, src.rect, src_start)
      copied == blit_unsafe(s, tl(b), src, tl(blit_src), size(blit_src).x, size(blit_src).y)
      above == FillIf(copied, r.y0 < b.y0, Above(r, b), src.fill)
      left  == FillIf(above, r.x0 < b.x0, LeftOf(r, b), src.fill)
      right == FillIf(left, b.x1 < r.x1, RightOf(r, b), src.fill)
  IN  IF is_empty(blit_src) THEN fill_unsafe(s, dst_rect, src.fill)
      ELSE FillIf(right, b.y1 < r.y1, BelowOf(r, b), src.fill)

blit(s, dst_rect, src, src_start) ==
  LET clamped == intersect(dst_rect, s.rect)
  IN  IF is_empty(clamped) THEN s
      ELSE BlitClamped(s, clamped, src, Add(src_start, Sub(tl(clamped), tl(dst_rect))))

(* self_blit: the image through a second Surface of the same memory.  That *)
(* one goes out of scope at the end of the call, which drops it: a caller  *)
(* that follows what is freed adds drop().                                 *)
self_blit(s, dst_rect, src_start) == blit(s, dst_rect, s, src_start)

(* What is freed once a Surface is dropped. *)
drop(freed, s) == freed \cup {s.ptr}
=============================================================================
