---------------------------- MODULE BandedRegion ----------------------------
(***************************************************************************)
(* BandedRegion of kernel/src/draw/banded_region.rs: a map from points to  *)
(* values kept as bands of rows, each cut into regions of columns.  Bands  *)
(* and regions are spans [start, end) with a payload; a red-black tree of  *)
(* them is the sequence its iterator visits.  Every tree here is sorted by *)
(* start and its spans have room, so lower_bound's condition holds from    *)
(* some span on and the shape of the tree does not matter.  A closure      *)
(* passed to update() is a function of the value, None where there is      *)
(* none.                                                                   *)
(***************************************************************************)
EXTENDS Geometry, SequencesExt

CONSTANT None

Region(x_start, x_end, value) == [start |-> x_start, end |-> x_end, value |-> value]
Band(y_start, y_end, regions) == [start |-> y_start, end |-> y_end, regions |-> regions]

-----------------------------------------------------------------------------
(* What the trees are asked for; 0 is no node. *)

(* place() goes left on equal keys. *)
insert(spans, s) ==
  InsertAt(spans, 1 + Cardinality({i \in DOMAIN spans : spans[i].start < s.start}), s)

lower_bound(spans, at) ==
  LET past == {i \in DOMAIN spans : at < spans[i].end}
  IN  IF past = {} THEN 0 ELSE Min(past)

(* first_band_in_range and first_region_in_range *)
first_in_range(spans, start, end) ==
  LET i == lower_bound(spans, start)
  IN  IF start >= end \/ i = 0 THEN 0
      ELSE IF spans[i].start < end THEN i ELSE 0

(* pairwise_merge with the closures of coalesce(), which compare payloads. *)
pairwise_merge(spans, payload) ==
  FoldLeft(LAMBDA merged, right :
             IF /\ merged # <<>>
                /\ Last(merged).end = right.start
                /\ Last(merged)[payload] = right[payload]
             THEN [merged EXCEPT ![Len(merged)].end = right.end]
             ELSE Append(merged, right),
           <<>>, spans)

-----------------------------------------------------------------------------
(* update() *)

put_value(regions, x_start, x_end, value) ==
  IF value = None THEN regions ELSE insert(regions, Region(x_start, x_end, value))

(* Band::update: one region at a time, from x_start on. *)
RECURSIVE band_update(_, _, _, _)
band_update(regions, x_start, x_end, update_fn) ==
  LET i == lower_bound(regions, x_start)
      region == regions[i]
      others == RemoveAt(regions, i)
      left == CASE x_start < region.start ->
                     put_value(others, x_start, region.start, update_fn[None])
                [] x_start > region.start ->
                     put_value(others, region.start, x_start, region.value)
                [] OTHER -> others
      middle == put_value(left, max(x_start, region.start), min(x_end, region.end),
                          update_fn[region.value])
      right == IF x_end < region.end
               THEN put_value(middle, x_end, region.end, region.value) ELSE middle
  IN  CASE i # 0 /\ regions[i].start < x_end -> band_update(right, region.end, x_end, update_fn)
        [] x_start < x_end -> put_value(regions, x_start, x_end, update_fn[None])
        [] OTHER -> regions

(* BandedRegion::update from y_start on. *)
RECURSIVE update_from(_, _, _, _)
update_from(bands, y_start, rect, update_fn) ==
  LET i == lower_bound(bands, y_start)
      band == bands[i]
      others == RemoveAt(bands, i)
      changed(start, end, regions) ==
        Band(start, end, band_update(regions, rect.x0, rect.x1, update_fn))
      put(bs, b) == IF b.regions = <<>> THEN bs ELSE insert(bs, b)
      above == CASE y_start < band.start -> put(others, changed(y_start, band.start, <<>>))
                 [] y_start > band.start -> insert(others, [band EXCEPT !.end = y_start])
                 [] OTHER -> others
      middle == put(above, changed(max(y_start, band.start), min(rect.y1, band.end),
                                   band.regions))
      below == IF rect.y1 < band.end
               THEN insert(middle, [band EXCEPT !.start = rect.y1]) ELSE middle
  IN  CASE i # 0 /\ bands[i].start < rect.y1 -> update_from(below, band.end, rect, update_fn)
        (* the last band is inserted even when it has no region *)
        [] y_start < rect.y1 -> insert(bands, changed(y_start, rect.y1, <<>>))
        [] OTHER -> bands

update(bands, rect, update_fn) == update_from(bands, rect.y0, rect, update_fn)

(* update_values: the closure on the value of every region. *)
update_values(bands, update_fn) ==
  [i \in DOMAIN bands |->
     [bands[i] EXCEPT !.regions = [j \in DOMAIN @ |-> [@[j] EXCEPT !.value = update_fn[@]]]]]

(* Bug: the bands are merged before their regions are. *)
BugMergesBandsFirst(bands) ==
  LET joined == pairwise_merge(bands, "regions")
  IN  [i \in DOMAIN joined |->
         [joined[i] EXCEPT !.regions = pairwise_merge(@, "value")]]

coalesce(bands) ==
  LET each == [i \in DOMAIN bands |->
                 [bands[i] EXCEPT !.regions =
                    pairwise_merge(@, "value")]]
  IN  pairwise_merge(each, "regions")

-----------------------------------------------------------------------------
(* query() and drain() *)

(* The next region from the cursor on, as a rectangle; unwrap() would fail *)
(* on an empty one.                                                        *)
RECURSIVE find_next_rect(_, _, _)
find_next_rect(bands, boundary, cursor) ==
  LET b == first_in_range(bands, cursor.y, boundary.y1)
      g == first_in_range(bands[b].regions, cursor.x, boundary.x1)
      region == bands[b].regions[g]
  IN  CASE b = 0 -> [found |-> FALSE]
        [] b # 0 /\ g = 0 ->
             find_next_rect(bands, boundary, Point(boundary.x0, bands[b].end))
        [] OTHER ->
             [found |-> TRUE, band |-> b, region |-> g, cursor |-> cursor,
              rect |-> intersect(Rect(region.start, bands[b].start, region.end, bands[b].end),
                                 Rect(cursor.x, cursor.y, boundary.x1, boundary.y1))]

(* The right edge of a rectangle grown over regions that go on its value. *)
RECURSIVE rect_grow_x(_, _, _, _)
rect_grow_x(regions, g, boundary, x1) ==
  LET goes_on == /\ x1 < boundary.x1
                 /\ g < Len(regions)
                 /\ regions[g + 1].start = regions[g].end
                 /\ regions[g + 1].value = regions[g].value
  IN  IF goes_on THEN rect_grow_x(regions, g + 1, boundary, min(boundary.x1, regions[g + 1].end))
      ELSE x1

RECURSIVE all_in_range(_, _, _, _)

(* Bug: a hole counts as being of the value. *)
BugIgnoresHoles(regions, x_start, x_end, value) ==
  LET i == first_in_range(regions, x_start, x_end)
  IN  IF i = 0 THEN TRUE
      ELSE /\ regions[i].value = value
           /\ all_in_range(regions, min(x_end, regions[i].end), x_end, value)

(* all_in_range of the value: a hole is not. *)
all_in_range(regions, x_start, x_end, value) ==
  LET i == first_in_range(regions, x_start, x_end)
  IN  IF i = 0 THEN x_start >= x_end
      ELSE /\ regions[i].start <= x_start
           /\ regions[i].value = value
           /\ all_in_range(regions, min(x_end, regions[i].end), x_end, value)

(* A rectangle grown over the bands below, and the last of these.  What    *)
(* query() has to find in them besides is only skipped when draining.      *)
RECURSIVE rect_grow_y(_, _, _, _, _, _)
rect_grow_y(bands, b, boundary, rect, value, is_draining) ==
  LET succ == bands[b + 1]
      beside == \/ first_in_range(bands[b].regions, rect.x1, boundary.x1) # 0
                \/ first_in_range(succ.regions, boundary.x0, rect.x0) # 0
      goes_on == /\ rect.y1 < boundary.y1
                 /\ b < Len(bands)
                 /\ succ.start = bands[b].end
                 /\ is_draining \/ ~ beside
                 /\ all_in_range(succ.regions, rect.x0, rect.x1, value)
  IN  IF goes_on
      THEN rect_grow_y(bands, b + 1, boundary, [rect EXCEPT !.y1 = min(boundary.y1, succ.end)],
                       value, is_draining)
      ELSE [rect |-> rect, band |-> b]

(* Bug: query() grows a rectangle past what it has yet to find beside it. *)
BugGrowsPast(bands, boundary, next, is_draining) ==
  LET regions == bands[next.band].regions
      wide == [next.rect EXCEPT !.x1 = rect_grow_x(regions, next.region, boundary, @)]
  IN  rect_grow_y(bands, next.band, boundary, wide, regions[next.region].value, TRUE)

(* The rectangle next() returns, and the last band it reaches into. *)
next_rect(bands, boundary, next, is_draining) ==
  LET regions == bands[next.band].regions
      wide == [next.rect EXCEPT !.x1 = rect_grow_x(regions, next.region, boundary, @)]
  IN  rect_grow_y(bands, next.band, boundary, wide, regions[next.region].value, is_draining)

(* What the iterators return from the cursor on. *)
RECURSIVE query_from(_, _, _)
query_from(bands, boundary, cursor) ==
  LET next == find_next_rect(bands, boundary, cursor)
      grown == next_rect(bands, boundary, next, FALSE)
      item == [rect |-> grown.rect, value |-> bands[next.band].regions[next.region].value]
  IN  IF ~ next.found THEN <<>>
      ELSE <<item>> \o query_from(bands, boundary, Point(grown.rect.x1, bands[grown.band].start))

query(bands, boundary) == query_from(bands, boundary, tl(boundary))

Nothing(bands) ==
  LET values == UNION {{r.value : r \in ToSet(b.regions)} : b \in ToSet(bands)}
  IN  [v \in values \cup {None} |-> None]

(* drain() removes what it returns; the cursor moves only over what it    *)
(* finds empty.                                                            *)
RECURSIVE drain_from(_, _, _)
drain_from(bands, boundary, cursor) ==
  LET next == find_next_rect(bands, boundary, cursor)
      grown == next_rect(bands, boundary, next, TRUE)
      item == [rect |-> grown.rect, value |-> bands[next.band].regions[next.region].value]
      rest == drain_from(update(bands, grown.rect, Nothing(bands)), boundary, next.cursor)
  IN  IF ~ next.found THEN [items |-> <<>>, bands |-> bands]
      ELSE [items |-> <<item>> \o rest.items, bands |-> rest.bands]

drain(bands, boundary) == drain_from(bands, boundary, tl(boundary))
=============================================================================
