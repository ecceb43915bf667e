------------------------------ MODULE Drawing -------------------------------
(***************************************************************************)
(* A client of the drawing primitives: BandedRegion and Surface, against   *)
(* the points they stand for.  The two share nothing, so that a client     *)
(* uses one of them: calls of the other would commute with all of its own. *)
(***************************************************************************)
EXTENDS BandedRegion, Surface

CONSTANTS
  Plane,        \* rectangle all calls are in
  UpdateRects,  \* rectangles of update()
  Boundaries,   \* rectangles of query() and drain()
  Values,       \* values of a BandedRegion
  MaxUpdates,   \* bound: calls of update()
  DstRect, SrcRect, Stride, BlitRects   \* two surfaces, and what is drawn

ASSUME DrawingAssumption ==
  /\ \A r \in UpdateRects \cup Boundaries : ~ is_empty(r) /\ Points(r) \subseteq Points(Plane)
  /\ None \notin Values
  /\ MaxUpdates \in Nat
  /\ Stride >= size(DstRect).x

VARIABLES
  bands,     \* a BandedRegion
  plane,     \* the map it stands for
  items,     \* what the last drain() returned
  updates,   \* calls of update()
  dst, src,  \* surfaces
  drawn      \* the call that drew on dst

vars == <<bands, plane, items, updates, dst, src, drawn>>
regionVars == <<bands, plane, items, updates>>
surfaceVars == <<dst, src, drawn>>

(* Every pixel has a colour of its own. *)
Image(name, stride, rect) == [i \in 0 .. stride * size(rect).y - 1 |-> <<name, i>>]
Undrawn == [op |-> "none"]

Init ==
  /\ bands = <<>>
  /\ plane = [p \in Points(Plane) |-> None]
  /\ items = <<>>
  /\ updates = 0
  /\ dst = from_raw("dst", Image("dst", Stride, DstRect), DstRect, Stride, <<"fill of dst", 0>>)
  /\ src = from_raw("src", Image("src", size(SrcRect).x, SrcRect), SrcRect,
                    size(SrcRect).x, <<"fill of src", 0>>)
  /\ drawn = Undrawn

-----------------------------------------------------------------------------
(* Closures: insert(), remove(), and changing what is there. *)
Closures ==
  {[v \in Values \cup {None} |-> w] : w \in Values \cup {None}} \cup
  {[v \in Values \cup {None} |-> IF v = None THEN None ELSE w] : w \in Values}

Update(rect, update_fn) ==
  /\ drawn = Undrawn /\ updates < MaxUpdates
  /\ bands' = update(bands, rect, update_fn)
  /\ plane' = [p \in DOMAIN plane |->
                 IF contains_point(rect, p) THEN update_fn[plane[p]] ELSE plane[p]]
  /\ updates' = updates + 1
  /\ items' = <<>>
  /\ UNCHANGED surfaceVars

Coalesce ==
  /\ drawn = Undrawn
  /\ bands' = coalesce(bands)
  /\ items' = <<>>
  /\ UNCHANGED <<plane, updates, surfaceVars>>

Drain(boundary) ==
  /\ drawn = Undrawn
  /\ LET drained == drain(bands, boundary)
     IN  bands' = drained.bands /\ items' = drained.items
  /\ plane' = [p \in DOMAIN plane |-> IF contains_point(boundary, p) THEN None ELSE plane[p]]
  /\ UNCHANGED <<updates, surfaceVars>>

(* One call on the surfaces, for what it does to the pixels: self_blit     *)
(* then frees the image (Console.tla), so nothing is drawn after it.       *)
Draw(op, rect, start) ==
  /\ updates = 0 /\ bands = <<>> /\ drawn = Undrawn
  /\ dst' = CASE op = "fill" -> fill(dst, rect, src.fill)
              [] op = "blit" -> blit(dst, rect, src, start)
              [] op = "self_blit" -> self_blit(dst, rect, start)
  /\ drawn' = [op |-> op, rect |-> rect, start |-> start]
  /\ UNCHANGED <<src, regionVars>>

Next ==
  \/ \E rect \in UpdateRects, update_fn \in Closures : Update(rect, update_fn)
  \/ Coalesce
  \/ \E boundary \in Boundaries : Drain(boundary)
  \/ \E op \in {"fill", "blit", "self_blit"}, rect \in BlitRects, start \in Points(Plane) :
       Draw(op, rect, start)

Spec == Init /\ [][Next]_vars

-----------------------------------------------------------------------------
At(p) ==
  LET hits == {r \in UNION {ToSet(b.regions) : b \in {c \in ToSet(bands) : c.start <= p.y /\ p.y < c.end}} :
                 r.start <= p.x /\ p.x < r.end}
  IN  IF hits = {} THEN None ELSE (CHOOSE r \in hits : TRUE).value

InOrder(spans) ==
  /\ \A i \in DOMAIN spans : spans[i].start < spans[i].end
  /\ \A i \in 1 .. Len(spans) - 1 : spans[i].end <= spans[i + 1].start

(* Neighbours that could be merged: regions of a band, or bands. *)
Mergeable(spans, payload) ==
  \E i \in 1 .. Len(spans) - 1 :
    spans[i].end = spans[i + 1].start /\ spans[i][payload] = spans[i + 1][payload]

(* However calls of update(), coalesce() and drain() cut the bands, they   *)
(* are disjoint and in order, as lower_bound() and the trees' keys need,   *)
(* and stand for the map the calls describe point by point; coalesce()     *)
(* would leave no neighbours that could still be merged.                   *)
BandsExact ==
  /\ InOrder(bands) /\ \A i \in DOMAIN bands : InOrder(bands[i].regions)
  /\ \A p \in DOMAIN plane : At(p) = plane[p]
  /\ ~ Mergeable(coalesce(bands), "regions")
  /\ \A b \in ToSet(coalesce(bands)) : ~ Mergeable(b.regions, "value")

(* The items report the map on the boundary: every point with a value once *)
(* and with that value, no other point.                                    *)
Reports(found, map, boundary) ==
  \A p \in Points(boundary) :
    LET hits == {i \in DOMAIN found : contains_point(found[i].rect, p)}
    IN  IF map[p] = None THEN hits = {}
        ELSE Cardinality(hits) = 1 /\ \A i \in hits : found[i].value = map[p]

(* query() reports the map on every boundary, although it merges regions   *)
(* right and down and goes on from inside of the last band it reached.     *)
(* (What it returns may begin above the boundary; see Reports.)            *)
QueryExact ==
  drawn = Undrawn => \A boundary \in Boundaries : Reports(query(bands, boundary), plane, boundary)

(* drain() returns the map on its boundary, in rectangles inside of it,    *)
(* while it removes what it has returned.                                  *)
DrainExact ==
  [][ \A boundary \in Boundaries :
        Drain(boundary) =>
          /\ Reports(items', plane, boundary)
          /\ \A i \in DOMAIN items' : Points(items'[i].rect) \subseteq Points(boundary) ]_vars

-----------------------------------------------------------------------------
Pixel(s, p) == s.image[image_ptr_unsafe(s, p)]

(* The colour a call leaves at a point of dst. *)
Expected(p) ==
  LET from == IF drawn.op = "blit" THEN src ELSE [dst EXCEPT !.image = Image("dst", Stride, DstRect)]
      q == Add(drawn.start, Sub(p, tl(drawn.rect)))
  IN  CASE ~ contains_point(drawn.rect, p) -> <<"dst", image_ptr_unsafe(dst, p)>>
        [] contains_point(drawn.rect, p) /\ drawn.op = "fill" -> src.fill
        [] OTHER -> IF contains_point(from.rect, q) THEN Pixel(from, q) ELSE from.fill

(* Whatever rectangles a caller passes, fill(), blit() and self_blit()     *)
(* leave on every point of the rectangle the pixel of the source (as it    *)
(* was before, when an image is moved onto itself), or fill where the      *)
(* source has none; they touch no other pixel, not those between width and *)
(* stride, and no memory outside of the images: the SAFETY comments of     *)
(* fill_unsafe and blit_unsafe.                                            *)
DrawExact ==
  drawn # Undrawn =>
    /\ ~ dst.wild
    /\ \A p \in Points(DstRect) : Pixel(dst, p) = Expected(p)
    /\ \A i \in DOMAIN dst.image :
         i % Stride >= size(DstRect).x => dst.image[i] = <<"dst", i>>
=============================================================================
