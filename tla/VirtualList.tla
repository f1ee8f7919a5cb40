---------------------------- MODULE VirtualList -----------------------------
(***************************************************************************)
(* VirtualListWindow and VirtualListHost (src/list/virtual_list.cpp): a    *)
(* long list shown through a few physical objects.  Scrolling moves a      *)
(* window over the rows, gives each row of it a physical slot, and binds   *)
(* the row to the object of that slot.  Owner thread only; what is hard is *)
(* the history: slots are reused from the window before, and binding may   *)
(* fail half way, with the window moved already.                           *)
(*                                                                         *)
(* Keys are unique and fixed by configure, so a key is its row number.     *)
(* Heights and offsets are far from INT32_MAX.  LVGL and the bind callback *)
(* are external: an object may not be had, a row may be refused.           *)
(***************************************************************************)
EXTENDS Integers, FiniteSets

CONSTANTS
  MaxSlots,        \* max_physical_slots_
  Counts, RowHeights, ViewportHeights,  \* the configurations asked for
  MaxOffset,       \* bound: offsets asked for are -1..MaxOffset
  MaxBindFailures, \* bound: how many binds fail between two configures
  NoObject         \* a slot no object was created for

ASSUME ListAssumption ==
  /\ MaxSlots \in 1..4096 /\ {MaxOffset, MaxBindFailures} \subseteq Nat
  /\ Counts \cup RowHeights \cup ViewportHeights \subseteq Nat \ {0}
  /\ NoObject \notin [row : Int, y : Int, hidden : BOOLEAN]

VARIABLES
  count,           \* logical_count_, 0 when not configured
  rowHeight,       \* row_height_
  viewportHeight,  \* viewport_height_
  window,          \* window_: its rows, its offset and the slot of each row
  object,          \* physical_objects_: what the object of each slot shows, and where
  bound,           \* history: the last bindWindow succeeded
  failures         \* how many binds may still fail

vars == <<count, rowHeight, viewportHeight, window, object, bound, failures>>

Slots    == 0..(MaxSlots - 1)
Unbound  == -1
Created  == [row |-> Unbound, y |-> 0, hidden |-> FALSE]
NoWindow == [first |-> 0, last |-> 0, offset |-> 0, slot |-> <<>>]

SetMax(S) == CHOOSE n \in S : \A k \in S : k <= n
SetMin(S) == CHOOSE n \in S : \A k \in S : n <= k

Init ==
  /\ count = 0 /\ rowHeight = 0 /\ viewportHeight = 0
  /\ window = NoWindow
  /\ object = [s \in Slots |-> NoObject]
  /\ bound = TRUE /\ failures = MaxBindFailures

(***************************************************************************)
(* rebuild, for a list of c rows of height h in a viewport of height v     *)
(***************************************************************************)
Clamp(c, h, v, offset) == SetMax({0, IF offset > c * h - v THEN c * h - v ELSE offset})

FirstRow(h, offset) == offset \div h

VisibleRows(h, v) == (v + h - 1) \div h

(* Mistake: no row for what an offset between two rows uncovers.           *)
LastRowShort(c, h, v, offset) ==
  SetMin({c, FirstRow(h, offset) + VisibleRows(h, v)})

LastRow(c, h, v, offset) ==
  SetMin({c, FirstRow(h, offset) + VisibleRows(h, v) + 1})

Fits(c, h, v, offset) == LastRow(c, h, v, offset) - FirstRow(h, offset) <= MaxSlots

(* Mistake: a slot is kept without looking whether it has been given away. *)
KeepsAlways(old, row, used) == row \in DOMAIN old

(* The slot of a row that was in the old window, if it is not used yet.    *)
Keeps(old, row, used) == row \in DOMAIN old /\ old[row] \notin used

(* Rows take their slots in order: the old one, or the first unused one.   *)
AssignSlots(old, first, last) ==
  LET assigned[row \in (first - 1)..(last - 1)] ==
        IF row < first THEN <<>>
        ELSE LET prior == assigned[row - 1]
                 used  == {prior[r] : r \in first..(row - 1)}
             IN  [r \in first..row |->
                    IF r < row THEN prior[r]
                    ELSE IF Keeps(old, row, used) THEN old[row]
                    ELSE SetMin(Slots \ used)]
  IN  assigned[last - 1]

Rebuild(c, h, v, old, asked) ==
  LET offset == Clamp(c, h, v, asked)
      first  == FirstRow(h, offset)
      last   == LastRow(c, h, v, offset)
  IN  [first |-> first, last |-> last, offset |-> offset,
       slot |-> AssignSlots(old, first, last)]

(***************************************************************************)
(* bindWindow                                                              *)
(***************************************************************************)
SlotsOf(w) == {w.slot[r] : r \in w.first..(w.last - 1)}

(* Objects are created up to the highest slot of the window.               *)
Create(o, highest) ==
  [s \in Slots |-> IF s <= highest /\ o[s] = NoObject THEN Created ELSE o[s]]

(* The first n rows of the window are bound and moved, none is hidden.     *)
BindRows(w, h, o, n) ==
  [s \in Slots |->
     IF \E r \in w.first..(w.first + n - 1) : w.slot[r] = s
     THEN LET r == CHOOSE q \in w.first..(w.first + n - 1) : w.slot[q] = s
          IN  [o[s] EXCEPT !.row = r, !.y = r * h - w.offset]
     ELSE o[s]]

(* Mistake: an object no row uses any more stays where it was.             *)
HideNothing(w, o) == [s \in Slots |-> IF s \in SlotsOf(w) THEN [o[s] EXCEPT !.hidden = FALSE]
                                                          ELSE o[s]]

HideUnused(w, o) ==
  [s \in Slots |-> IF o[s] = NoObject THEN NoObject
                   ELSE [o[s] EXCEPT !.hidden = s \notin SlotsOf(w)]]

BindSucceeds(w, h, o) ==
  /\ object' = HideUnused(w, BindRows(w, h, Create(o, SetMax(SlotsOf(w))), w.last - w.first))
  /\ bound' = TRUE

(* An object cannot be created, or a row is refused: what is done stays.   *)
BindFails(w, h, o) ==
  /\ \/ \E highest \in -1..(SetMax(SlotsOf(w)) - 1) : object' = Create(o, highest)
     \/ \E n \in 0..(w.last - w.first - 1) :
          object' = BindRows(w, h, Create(o, SetMax(SlotsOf(w))), n)
  /\ bound' = FALSE
  /\ failures > 0 /\ failures' = failures - 1

(***************************************************************************)
(* The operations of VirtualListHost                                       *)
(***************************************************************************)
(* configure resets first; arguments out of bounds, a window that does not *)
(* fit and a bind that fails leave it reset.                               *)
Configure(c, h, v) ==
  /\ Fits(c, h, v, 0)
  /\ count' = c /\ rowHeight' = h /\ viewportHeight' = v
  /\ window' = Rebuild(c, h, v, <<>>, 0)
  /\ BindSucceeds(window', h, [s \in Slots |-> NoObject])
  /\ failures' = MaxBindFailures

Reset ==
  /\ count' = 0 /\ rowHeight' = 0 /\ viewportHeight' = 0
  /\ window' = NoWindow
  /\ object' = [s \in Slots |-> NoObject]
  /\ bound' = TRUE /\ failures' = MaxBindFailures

(* A failed bind is reported; the window has moved, the objects partly.    *)
ScrollTo(offset) ==
  /\ count # 0
  /\ Fits(count, rowHeight, viewportHeight, Clamp(count, rowHeight, viewportHeight, offset))
  /\ window' = Rebuild(count, rowHeight, viewportHeight, window.slot, offset)
  /\ \/ BindSucceeds(window', rowHeight, object) /\ UNCHANGED failures
     \/ BindFails(window', rowHeight, object)
  /\ UNCHANGED <<count, rowHeight, viewportHeight>>

(* The row at y of the viewport, or none.                                  *)
HitTest(y) ==
  LET row == (window.offset + y) \div rowHeight
  IN  {r \in window.first..(window.last - 1) : y >= 0 /\ r = row}

Next ==
  \/ \E c \in Counts, h \in RowHeights, v \in ViewportHeights : Configure(c, h, v)
  \/ Reset
  \/ \E offset \in -1..MaxOffset : ScrollTo(offset)

Spec == Init /\ [][Next]_vars

(***************************************************************************)
(* Properties                                                              *)
(***************************************************************************)
TypeOK ==
  /\ count \in Counts \cup {0} /\ rowHeight \in RowHeights \cup {0}
  /\ viewportHeight \in ViewportHeights \cup {0}
  /\ window.first \in 0..count /\ window.last \in window.first..count
  /\ window.slot \in [window.first..(window.last - 1) -> Slots]
  /\ object \in [Slots -> {NoObject} \cup [row : Nat \cup {Unbound}, y : Int, hidden : BOOLEAN]]
  /\ bound \in BOOLEAN /\ failures \in 0..MaxBindFailures

(* Two rows never share an object, whatever windows the slots come from    *)
(* (rebuild 111-136; lv_s08 checks one scroll forward).                    *)
SlotsAreDistinct ==
  /\ TypeOK
  /\ \A r, q \in window.first..(window.last - 1) : r # q => window.slot[r] # window.slot[q]

(* No pixel of the viewport is blank while there is a row for it, at any   *)
(* offset: the window reaches from the first row that shows to the last    *)
(* one that shows, and hitTest finds it (rebuild 96-101, hitTest 71-84).   *)
ViewportIsCovered ==
  count # 0 =>
    \A y \in 0..(viewportHeight - 1), r \in 0..(count - 1) :
      (r * rowHeight <= window.offset + y /\ window.offset + y < (r + 1) * rowHeight)
        => HitTest(y) = {r}

(* Whatever was scrolled before, the objects not hidden show the rows of   *)
(* the window, each where hitTest finds it, unless the last bind failed    *)
(* (bindWindow 213-243).                                                   *)
WhatIsSeenIsTheWindow ==
  bound =>
    {[row |-> object[s].row, y |-> object[s].y] :
       s \in {t \in Slots : object[t] # NoObject /\ ~object[t].hidden}}
      = {[row |-> r, y |-> r * rowHeight - window.offset] : r \in window.first..(window.last - 1)}

=============================================================================
