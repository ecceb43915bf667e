------------------------------- MODULE Screen -------------------------------
(***************************************************************************)
(* The windows of kernel/src/draw/window.rs: Screen keeps the stacking     *)
(* order (visible, front to back) and a BandedRegion that says, for every  *)
(* point, which window shows there and whether it must be painted again.   *)
(* update() paints what is dirty into the frame buffer.                    *)
(*                                                                         *)
(* An image is the set of its points that a client has painted in the      *)
(* colour of its window; the rest is white, as is the background.          *)
(***************************************************************************)
EXTENDS BandedRegion

CONSTANTS
  ScreenRect,    \* rect() of the frame buffer
  WindowRects,   \* rectangles clients ask for; they may leave the screen
  MaxWindows,    \* bound: windows there are
  MaxCalls       \* bound: calls besides update()

ASSUME ScreenAssumption ==
  /\ ~ is_empty(ScreenRect) /\ \A r \in WindowRects : ~ is_empty(r)
  /\ MaxWindows \in Nat /\ MaxCalls \in Nat

VARIABLES
  windows,          \* IdSparseVec of windows, none is ever removed
  visible,          \* Screen.visible
  damage_tracker,   \* Screen.damage_tracker, its bands
  frame,            \* the colours the frame buffer shows
  exposed,          \* history: points uncovered without being marked, see Called
  calls             \* calls made so far, update() not counted

vars == <<windows, visible, damage_tracker, frame, exposed, calls>>

(* usize::MAX, the z_index of the background *)
MAX == MaxWindows + 1
White == 0
Unpainted == -1

ZIndex == 0 .. MaxWindows - 1
Damage(z_index, dirty) == [z_index |-> z_index, dirty |-> dirty]
Damages == [z_index : ZIndex \cup {MAX}, dirty : BOOLEAN]
Below(z_index) == {z \in ZIndex \cup {MAX} : z < z_index}

(* Closures passed to update() *)
Const(region) == [r \in Damages \cup {None} |-> region]
(* A region of the kept ones stays as it is, others are repainted as z_index. *)
Unless(kept, z_index) ==
  [r \in Damages \cup {None} |->
     IF r # None /\ r.z_index \in kept THEN r ELSE Damage(z_index, TRUE)]

-----------------------------------------------------------------------------
(* What a point shows, by the windows: the front one that covers it. *)

Covering(ws, order, p) == {z \in 0 .. Len(order) - 1 : contains_point(ws[order[z + 1]].rect, p)}
Top(ws, order, p) ==
  IF Covering(ws, order, p) = {} THEN MAX ELSE Min(Covering(ws, order, p))
Colour(ws, order, z, p) ==
  IF z # MAX /\ p \in ws[order[z + 1]].image THEN order[z + 1] ELSE White

(* What the tracker says of a point. *)
At(bands, p) ==
  LET hits == {r \in UNION {ToSet(b.regions) : b \in {c \in ToSet(bands) : c.start <= p.y /\ p.y < c.end}} :
                 r.start <= p.x /\ p.x < r.end}
  IN  IF hits = {} THEN None ELSE (CHOOSE r \in hits : TRUE).value

(* The tracker knows the front window of the point, and that window's      *)
(* colour is on the screen or is about to be painted.                      *)
Sound(ws, order, bands, fb, p) ==
  LET r == At(bands, p)
      top == Top(ws, order, p)
  IN  r # None /\ r.z_index = top /\ (r.dirty \/ fb[p] = Colour(ws, order, top, p))

(* A call ends: the points left unmarked are those exposed and not right   *)
(* by other means.                                                         *)
Called(points) ==
  /\ calls < MaxCalls
  /\ calls' = calls + 1
  /\ UNCHANGED frame
  /\ exposed' = {p \in exposed \cup points : ~ Sound(windows', visible', damage_tracker', frame, p)}

-----------------------------------------------------------------------------
(* Parts of the operations *)

tracked(dirty) == update(<<>>, ScreenRect, Const(Damage(MAX, dirty)))

Init ==
  /\ windows = <<>>
  /\ visible = <<>>
  /\ damage_tracker = tracked(TRUE)
  /\ frame = [p \in Points(ScreenRect) |-> Unpainted]
  /\ exposed = {}
  /\ calls = 0

(* Bug: a window's own regions keep what they say. *)
BugKeepsOwn(bands, window, rect) ==
  LET r == intersect(rect, window.rect)
  IN  IF is_empty(r) THEN bands
      ELSE update(bands, r, Unless(Below(window.z_index + 1), window.z_index))

(* mark_dirty on the part of the rectangle that is the window's. *)
mark_dirty(bands, window, rect) ==
  LET r == intersect(rect, window.rect)
  IN  IF is_empty(r) THEN bands
      ELSE update(bands, r, Unless(Below(window.z_index), window.z_index))

(* z_index_update: the windows, and what the tracker says of them. *)
renumbered(ws, new_z) == [id \in DOMAIN ws |-> [ws[id] EXCEPT !.z_index = new_z[@]]]
retracked(bands, new_z) ==
  update_values(bands, [d \in Damages |-> [d EXCEPT !.z_index = new_z[@]]])

(* The windows of `from`, back to front, take over all but the kept regions. *)
rebuild(bands, order, ws, rect, from, kept) ==
  FoldLeft(LAMBDA bs, id :
             LET r == intersect(ws[id].rect, rect)
             IN  IF ws[id].z_index \notin from \/ is_empty(r) THEN bs
                 ELSE update(bs, r, Unless(kept, ws[id].z_index)),
           bands, Reverse(order))

rebuild_damage_tracker_move(bands, z_index, rect) ==
  rebuild(bands, visible, windows, rect, ZIndex \ Below(z_index + 1), Below(z_index))

rebuild_damage_tracker_move_to_back(bands, order, ws, old, new, rect) ==
  rebuild(bands, order, ws, rect, old .. new - 1, (ZIndex \cup {MAX}) \ (old .. new - 1))

-----------------------------------------------------------------------------
(* The operations *)

new_window(rect, at) ==
  LET z_index == min(at, Len(visible))
      new_z == [z \in ZIndex \cup {MAX} |-> IF z >= z_index /\ z # MAX THEN z + 1 ELSE z]
      window == [rect |-> rect, z_index |-> z_index, image |-> {}]
  IN  /\ Len(windows) < MaxWindows
      /\ windows' = Append(renumbered(windows, new_z), window)
      /\ visible' = InsertAt(visible, z_index + 1, Len(windows) + 1)
      /\ damage_tracker' = mark_dirty(retracked(damage_tracker, new_z), window, rect)
      /\ Called({})

(* A client fills part of the image and says so. *)
Draw(id, rect) ==
  /\ ~ is_empty(intersect(rect, windows[id].rect))
  /\ windows' = [windows EXCEPT ![id].image = @ \cup Points(intersect(rect, windows[id].rect))]
  /\ damage_tracker' = mark_dirty(damage_tracker, windows[id], rect)
  /\ UNCHANGED visible
  /\ Called({})

mark_dirty_beyond(z_index, rect) ==
  /\ damage_tracker' =
       update(damage_tracker, rect,
              [r \in Damages \cup {None} |->
                 IF r = None THEN None
                 ELSE [r EXCEPT !.dirty = @ \/ r.z_index >= z_index]])
  /\ UNCHANGED <<windows, visible>>
  /\ Called({})

(* What a window that goes away shows of the background: its old place is  *)
(* handed only to the windows behind it.                                   *)
Uncovered(id) ==
  {p \in Points(windows[id].rect) \cap Points(ScreenRect) :
     Covering(windows, visible, p) = {windows[id].z_index}}

move_window(id, new_rect) ==
  LET window == windows[id]
      moved == [window EXCEPT !.rect = new_rect, !.image = {}]
  IN  /\ windows' = [windows EXCEPT ![id] = moved]
      /\ damage_tracker' =
           mark_dirty(rebuild_damage_tracker_move(damage_tracker, window.z_index, window.rect),
                      moved, new_rect)
      /\ UNCHANGED visible
      /\ Called(Uncovered(id))

(* What a window that goes back showed of itself: it keeps that place even *)
(* where one of the windows it went behind covers it.                      *)
Hidden(id, old, new) ==
  {p \in Points(windows[id].rect) \cap Points(ScreenRect) :
     /\ Top(windows, visible, p) = old
     /\ \E z \in Covering(windows, visible, p) : old < z /\ z <= new}

ToBack(id, old, new) ==
  LET new_z == [z \in ZIndex \cup {MAX} |->
                  CASE z > new -> z [] old < z /\ z <= new -> z - 1
                    [] z = old -> new [] OTHER -> z]
      order == [i \in DOMAIN visible |->
                  CASE old < i /\ i <= new -> visible[i + 1] [] i = new + 1 -> id
                    [] OTHER -> visible[i]]
      ws == renumbered(windows, new_z)
  IN  /\ windows' = ws
      /\ visible' = order
      /\ damage_tracker' =
           rebuild_damage_tracker_move_to_back(retracked(damage_tracker, new_z), order, ws,
                                               old, new, windows[id].rect)
      /\ Called(Hidden(id, old, new))

ToFront(id, old, new) ==
  LET new_z == [z \in ZIndex \cup {MAX} |->
                  CASE z > old -> z [] z = old -> new
                    [] new <= z /\ z < old -> z + 1 [] OTHER -> z]
  IN  /\ windows' = renumbered(windows, new_z)
      /\ visible' = [i \in DOMAIN visible |->
                       CASE i = new + 1 -> id [] new + 1 < i /\ i <= old + 1 -> visible[i - 1]
                         [] OTHER -> visible[i]]
      /\ damage_tracker' = update(retracked(damage_tracker, new_z), windows[id].rect,
                                  Unless(Below(new + 1), new))
      /\ Called({})

set_window_z_index(id, z_index) ==
  LET new == min(z_index, Len(visible) - 1)
      old == windows[id].z_index
  IN  \/ new > old /\ ToBack(id, old, new)
      \/ new < old /\ ToFront(id, old, new)

reset_damage_tracker ==
  FoldLeft(LAMBDA bands, id :
             update(bands, windows[id].rect, Const(Damage(windows[id].z_index, FALSE))),
           tracked(FALSE), Reverse(visible))

(* What update() paints on a point; a rectangle outside of the image is    *)
(* filled white by blit().                                                 *)
painted(items, p) ==
  LET hits == SelectSeq(items, LAMBDA i : i.value.dirty /\ contains_point(i.rect, p))
  IN  IF hits = <<>> THEN frame[p] ELSE Colour(windows, visible, Last(hits).value.z_index, p)

Update ==
  /\ LET items == drain(damage_tracker, ScreenRect).items
     IN  frame' = [p \in DOMAIN frame |-> painted(items, p)]
  /\ damage_tracker' = reset_damage_tracker
  /\ exposed' = {p \in exposed : ~ Sound(windows, visible, damage_tracker', frame', p)}
  /\ UNCHANGED <<windows, visible, calls>>

Next ==
  \/ \E rect \in WindowRects, z \in 0 .. Len(visible) + 1 : new_window(rect, z)
  \/ \E id \in DOMAIN windows, rect \in WindowRects :
       Draw(id, rect) \/ move_window(id, rect)
  \/ \E z \in 0 .. Len(visible), rect \in WindowRects : mark_dirty_beyond(z, rect)
  \/ \E id \in DOMAIN windows, z \in 0 .. Len(visible) : set_window_z_index(id, z)
  \/ Update

Spec == Init /\ [][Next]_vars

-----------------------------------------------------------------------------
(* visible and the z_index of the windows are each other's inverse: the    *)
(* renumbering of new_window and set_window_z_index agrees with where they *)
(* insert into visible and how they rotate it.                             *)
OrderExact ==
  /\ Len(visible) = Len(windows)
  /\ \A i \in DOMAIN visible : windows[visible[i]].z_index = i - 1

(* Every point of the screen shows the front window that covers it, or     *)
(* that window's colour is marked to be painted there, so that update()    *)
(* leaves a right picture: except where a window has been moved off the    *)
(* bare background (move_window hands its old place only to windows), or   *)
(* behind a window it covered (rebuild_damage_tracker_move_to_back keeps   *)
(* the regions of its new z_index).  The tracker never names a window that *)
(* visible does not have, and the order it goes by is right.               *)
TrackerSound ==
  /\ OrderExact
  /\ \A p \in Points(ScreenRect) :
       /\ p \notin exposed => Sound(windows, visible, damage_tracker, frame, p)
       /\ At(damage_tracker, p).z_index \in (0 .. Len(visible) - 1) \cup {MAX}
=============================================================================
