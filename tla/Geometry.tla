------------------------------ MODULE Geometry ------------------------------
(* Points and rectangles of kernel/src/draw/geometry.rs; a rectangle is the *)
(* half-open x0 .. x1 by y0 .. y1 (tl and br in the code).                  *)
EXTENDS Integers

min(a, b) == IF a < b THEN a ELSE b
max(a, b) == IF a > b THEN a ELSE b

Point(x, y) == [x |-> x, y |-> y]
Add(p, q) == Point(p.x + q.x, p.y + q.y)
Sub(p, q) == Point(p.x - q.x, p.y - q.y)

Rect(x0, y0, x1, y1) == [x0 |-> x0, y0 |-> y0, x1 |-> x1, y1 |-> y1]
tl(r) == Point(r.x0, r.y0)
size(r) == Point(r.x1 - r.x0, r.y1 - r.y0)
RectOf(p, q) == Rect(p.x, p.y, q.x, q.y)
contains_point(r, p) == r.x0 <= p.x /\ p.x < r.x1 /\ r.y0 <= p.y /\ p.y < r.y1
is_empty(r) == r.x1 <= r.x0 \/ r.y1 <= r.y0

(* None is an empty rectangle. *)
intersect(r, boundary) ==
  Rect(max(r.x0, boundary.x0), max(r.y0, boundary.y0),
       min(r.x1, boundary.x1), min(r.y1, boundary.y1))

(* The points a rectangle stands for. *)
Points(r) == {Point(x, y) : x \in r.x0 .. r.x1 - 1, y \in r.y0 .. r.y1 - 1}
RectsIn(r) ==
  {s \in {Rect(a, b, c, d) : a, c \in r.x0 .. r.x1, b, d \in r.y0 .. r.y1} : ~ is_empty(s)}
=============================================================================
