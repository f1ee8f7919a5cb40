------------------------ MODULE ListAndPackageProofs ------------------------
(***************************************************************************)
(* Theorems about the two small components with a single owner, which have *)
(* nothing else in common and share no name here.                          *)
(*                                                                         *)
(* The virtual list (VirtualList): for every list, viewport, number of     *)
(* slots and history of scrolls and failed binds, no two rows share an     *)
(* object, no pixel of the viewport is left blank, and what is seen is the *)
(* window.                                                                 *)
(*                                                                         *)
(* The package sources (PackageSource, as Package): every read is answered *)
(* once, and no source closes while libuv reads for it, for every number   *)
(* of reads and slots and every port.  The two invariants are inductive    *)
(* together: a slot whose delivery the port took must have held a read the *)
(* port did not know.                                                      *)
(***************************************************************************)
EXTENDS VirtualList, PackageReads, FiniteSetTheorems, WellFoundedInduction, TLAPS

Package == INSTANCE PackageSource

(***************************************************************************)
(* Numbers                                                                 *)
(***************************************************************************)
(* Induction for a set of numbers.                                         *)
LEMMA NatSet ==
  ASSUME NEW S, 0 \in S, \A n \in Nat : n \in S => n + 1 \in S
  PROVE  Nat \subseteq S
PROOF
<1> DEFINE T == Nat \ S
<1> SUFFICES ASSUME T # {} PROVE FALSE
  OBVIOUS
<1>1. PICK x \in T : \A y \in T : ~(<<y, x>> \in OpToRel(<, Nat))
  <2>1. T \subseteq Nat /\ T # {}
    OBVIOUS
  <2> HIDE DEF T
  <2> QED
    BY <2>1, NatLessThanWellFounded, WFMin
<1>2. x - 1 \in Nat /\ x - 1 \in T /\ x - 1 < x /\ x \in Nat
  OBVIOUS
<1>3. <<x - 1, x>> \in OpToRel(<, Nat)
  BY <1>2, Zenon DEF OpToRel
<1> QED
  BY <1>1, <1>2, <1>3

(* The least of some numbers.                                              *)
LEMMA SetMinFacts ==
  ASSUME NEW S \in SUBSET Nat, S # {}
  PROVE  SetMin(S) \in S /\ \A k \in S : SetMin(S) <= k
PROOF
<1>1. PICK n \in S : \A k \in S : ~(<<k, n>> \in OpToRel(<, Nat))
  BY NatLessThanWellFounded, WFMin
<1>2. ASSUME NEW k \in S PROVE n <= k
  <2>1. k \in Nat /\ n \in Nat
    OBVIOUS
  <2>2. <<k, n>> \in OpToRel(<, Nat) <=> k < n
    BY <2>1, Zenon DEF OpToRel
  <2>3. ~(k < n)
    BY <1>1, <2>2, Zenon
  <2> QED
    BY <2>1, <2>3
<1> QED
  BY <1>2 DEF SetMin

(* The greatest of some numbers up to m.                                   *)
LEMMA SetMaxFacts ==
  ASSUME NEW m \in Nat, NEW S \in SUBSET (0..m), S # {}
  PROVE  SetMax(S) \in S /\ \A k \in S : k <= SetMax(S)
PROOF
<1> DEFINE T == {m - k : k \in S}
<1>1. T \in SUBSET Nat /\ T # {}
  <2>1. \A k \in S : m - k \in Nat
    OBVIOUS
  <2> QED
    BY <2>1
<1> HIDE DEF T
<1>2. SetMin(T) \in T /\ \A k \in T : SetMin(T) <= k
  BY <1>1, SetMinFacts
<1>3. PICK n \in S : SetMin(T) = m - n
  BY <1>2 DEF T
<1>4. ASSUME NEW k \in S PROVE k <= n
  <2>1. m - k \in T
    BY DEF T
  <2> QED
    BY <1>2, <1>3, <2>1
<1> QED
  BY <1>4 DEF SetMax

(* The greater and the lesser of two numbers, as rebuild takes them.       *)
LEMMA SetOfTwo ==
  ASSUME NEW a \in Int, NEW b \in Int
  PROVE  /\ SetMax({a, b}) = IF a <= b THEN b ELSE a
         /\ SetMin({a, b}) = IF a <= b THEN a ELSE b
PROOF
<1>1. CASE a <= b
  <2>1. \A n \in {a, b} : (\A k \in {a, b} : k <= n) <=> n = b
    BY <1>1
  <2>2. \A n \in {a, b} : (\A k \in {a, b} : n <= k) <=> n = a
    BY <1>1
  <2> QED
    BY <1>1, <2>1, <2>2 DEF SetMax, SetMin
<1>2. CASE ~(a <= b)
  <2>1. \A n \in {a, b} : (\A k \in {a, b} : k <= n) <=> n = a
    BY <1>2
  <2>2. \A n \in {a, b} : (\A k \in {a, b} : n <= k) <=> n = b
    BY <1>2
  <2> QED
    BY <1>2, <2>1, <2>2 DEF SetMax, SetMin
<1> QED
  BY <1>1, <1>2

(* A quotient is the last multiple that is not past the number.            *)
LEMMA DivFacts ==
  ASSUME NEW a \in Nat, NEW h \in Nat \ {0}
  PROVE  /\ a \div h \in Nat
         /\ (a \div h) * h <= a /\ a < (a \div h) * h + h
  OBVIOUS

(* Rows and positions are in the same order, whatever the height of a row. *)
LEMMA ProductOrder ==
  ASSUME NEW a \in Int, NEW b \in Int, NEW h \in Nat \ {0}
  PROVE  /\ a * h \in Int /\ (a + b) * h = a * h + b * h
         /\ a <= b <=> a * h <= b * h
  OBVIOUS

(* A row is the quotient of every position on it.                          *)
LEMMA RowAt ==
  ASSUME NEW a \in Nat, NEW h \in Nat \ {0}, NEW r \in Nat, r * h <= a, a < (r + 1) * h
  PROVE  a \div h = r
PROOF
<1> DEFINE q == a \div h
<1>1. q \in Nat /\ q * h <= a /\ a < q * h + h
  BY DivFacts
<1> HIDE DEF q
<1>2. (q + 1) * h = q * h + h /\ (r + 1) * h = r * h + h
  BY <1>1
<1>3. ~(q + 1 <= r) /\ ~(r + 1 <= q)
  BY <1>1, <1>2, ProductOrder
<1> QED
  BY <1>1, <1>3 DEF q

(***************************************************************************)
(* The rows of a window                                                    *)
(***************************************************************************)
(* The rows from first to before last are what an offset shows of c rows   *)
(* of height h.                                                            *)
Viewed(c, h, v, offset, first, last) ==
  /\ offset \in Nat /\ first \in Nat /\ last \in Nat
  /\ first < last /\ last <= c
  /\ first * h <= offset /\ offset < first * h + h
  /\ \E rows \in Nat : v <= rows * h /\ (last = c \/ last = first + rows + 1)

(* rebuild views the rows a clamped offset shows: the offset is on the     *)
(* first row, and the rows end with the list or reach past the viewport    *)
(* (96-104).                                                               *)
LEMMA WindowIsViewed ==
  ASSUME NEW c \in Nat \ {0}, NEW h \in Nat \ {0}, NEW v \in Nat \ {0}, NEW asked \in Int
  PROVE  LET offset == Clamp(c, h, v, asked)
         IN  Viewed(c, h, v, offset, FirstRow(h, offset), LastRow(c, h, v, offset))
PROOF
<1> DEFINE offset == Clamp(c, h, v, asked)
           first  == FirstRow(h, offset)
           last   == LastRow(c, h, v, offset)
           rows   == VisibleRows(h, v)
<1>1. c * h \in Nat /\ h <= c * h
  OBVIOUS
<1>2. offset \in Nat /\ offset < c * h
  <2> DEFINE x == IF asked > c * h - v THEN c * h - v ELSE asked
  <2>1. x \in Int /\ x < c * h
    BY <1>1
  <2> HIDE DEF x
  <2>2. offset = IF 0 <= x THEN x ELSE 0
    BY <2>1, SetOfTwo DEF Clamp, x
  <2> QED
    BY <1>1, <2>1, <2>2
<1> HIDE DEF offset
<1>3. first \in Nat /\ first * h <= offset /\ offset < first * h + h
  BY <1>2, DivFacts DEF FirstRow
<1>4. rows \in Nat /\ v <= rows * h
  <2>1. v + h - 1 \in Nat
    OBVIOUS
  <2>2. rows \in Nat /\ v + h - 1 < rows * h + h /\ rows * h \in Int
    BY <2>1, DivFacts DEF VisibleRows
  <2> HIDE DEF rows
  <2> QED
    BY <2>2
<1> HIDE DEF first, rows
<1>5. first < c
  BY <1>1, <1>2, <1>3, ProductOrder
<1>6. last = IF c <= first + rows + 1 THEN c ELSE first + rows + 1
  <2>1. last = SetMin({c, first + rows + 1})
    BY Zenon DEF LastRow, last, first, rows
  <2> DEFINE next == first + rows + 1
  <2>2. next \in Int
    BY <1>3, <1>4
  <2> HIDE DEF last, next
  <2>3. SetMin({c, next}) = IF c <= next THEN c ELSE next
    BY <2>2, SetOfTwo
  <2> QED
    BY <2>1, <2>3, Zenon DEF next
<1> HIDE DEF last
<1>7. Viewed(c, h, v, offset, first, last)
  <2>1. last \in Nat /\ first < last /\ last <= c
    BY <1>3, <1>4, <1>5, <1>6
  <2>2. \E n \in Nat : v <= n * h /\ (last = c \/ last = first + n + 1)
    BY <1>4, <1>6
  <2> QED
    BY <1>2, <1>3, <2>1, <2>2, Zenon DEF Viewed
<1> QED
  BY <1>7, Zenon DEF offset, first, last

(***************************************************************************)
(* The slots of a window                                                   *)
(***************************************************************************)
(* Each row from first to before next has a slot, and its own.             *)
Apart(first, next, slot) ==
  /\ slot \in [first..(next - 1) -> Slots]
  /\ \A r, q \in first..(next - 1) : r # q => slot[r] # slot[q]

(* The slots of the rows up to row, from those before it: the body of the  *)
(* loop of rebuild.                                                        *)
Give(old, first, row, prior) ==
  LET used == {prior[r] : r \in first..(row - 1)}
  IN  [r \in first..row |->
         IF r < row THEN prior[r]
         ELSE IF Keeps(old, row, used) THEN old[row]
         ELSE SetMin(Slots \ used)]

(* f gives the slots of the rows up to each row, as AssignSlots defines    *)
(* it.                                                                     *)
Assigned(old, first, last, f) ==
  f = [row \in (first - 1)..(last - 1) |->
         IF row < first THEN <<>> ELSE Give(old, first, row, f[row - 1])]

(* Giving the next row its slot: the rows before it use fewer slots than   *)
(* there are, so one is free, and neither the old slot it keeps nor the    *)
(* first free one is used (rebuild 115-134).                               *)
LEMMA GiveKeepsApart ==
  ASSUME NEW old, \A r \in DOMAIN old : old[r] \in Slots,
         NEW first \in Nat, NEW row \in Nat, first <= row, row - first < MaxSlots,
         NEW prior, Apart(first, row, prior)
  PROVE  Apart(first, row + 1, Give(old, first, row, prior))
PROOF
<1> DEFINE rows == first..(row - 1)
           used == {prior[r] : r \in rows}
           free == Slots \ used
           new  == IF Keeps(old, row, used) THEN old[row] ELSE SetMin(free)
           more == Give(old, first, row, prior)
<1>1. /\ prior \in [rows -> Slots]
      /\ \A r, q \in rows : r # q => prior[r] # prior[q]
  BY DEF Apart
<1>2. used \subseteq Slots
  BY <1>1
<1>3. free # {}
  <2>1. prior \in Surjection(rows, used)
    BY <1>1 DEF Surjection
  <2>2. IsFiniteSet(rows) /\ Cardinality(rows) = row - first
    <3>1. first \in Int /\ row - 1 \in Int
      OBVIOUS
    <3>2. /\ IsFiniteSet(rows)
          /\ Cardinality(rows) = IF first > row - 1 THEN 0 ELSE (row - 1) - first + 1
      BY <3>1, FS_Interval, Zenon
    <3> HIDE DEF rows
    <3> QED
      BY <3>2
  <2>3. Cardinality(Slots) = MaxSlots
    BY FS_Interval, ListAssumption DEF Slots
  <2> HIDE DEF rows, used
  <2>4. Cardinality(used) <= Cardinality(rows)
    BY <2>1, <2>2, FS_Surjection
  <2>5. used # Slots
    BY <2>2, <2>3, <2>4, ListAssumption
  <2> QED
    BY <1>2, <2>5, Zenon
<1>4. new \in Slots /\ new \notin used
  <2>1. free \in SUBSET Nat
    BY ListAssumption DEF Slots
  <2> HIDE DEF free
  <2>2. SetMin(free) \in free
    BY <1>3, <2>1, SetMinFacts
  <2>3. Keeps(old, row, used) => old[row] \in Slots /\ old[row] \notin used
    BY Zenon DEF Keeps
  <2> QED
    BY <2>2, <2>3, Zenon DEF free
<1>5. more = [r \in first..row |-> IF r < row THEN prior[r] ELSE new]
  BY Zenon DEF Give
<1> HIDE DEF more, new
<1>6. \A r \in rows : prior[r] \in used
  OBVIOUS
<1> HIDE DEF used
<1>7. \A r \in first..row : r = row \/ (r \in rows /\ r < row)
  OBVIOUS
<1>8. (row + 1) - 1 = row
  OBVIOUS
<1>9. more \in [first..row -> Slots]
  BY <1>1, <1>4, <1>5, <1>7
<1>10. ASSUME NEW r \in first..row, NEW q \in first..row, r # q PROVE more[r] # more[q]
  BY <1>1, <1>4, <1>5, <1>6, <1>7, <1>10
<1> QED
  BY <1>8, <1>9, <1>10, Zenon DEF Apart, more

(* AssignSlots is defined by recursion on the row. A function that         *)
(* satisfies its equations exists for every number of rows.                *)
LEMMA AssignedExists ==
  ASSUME NEW old, NEW first \in Nat, NEW n \in Nat
  PROVE  \E f : Assigned(old, first, first + n, f)
PROOF
<1> DEFINE S == {m \in Nat : \E f : Assigned(old, first, first + m, f)}
<1>1. 0 \in S
  <2> DEFINE f == [row \in (first - 1)..(first - 1) |-> <<>>]
  <2>1. f = [row \in (first - 1)..((first + 0) - 1) |->
               IF row < first THEN <<>> ELSE Give(old, first, row, f[row - 1])]
    OBVIOUS
  <2> HIDE DEF f
  <2>2. Assigned(old, first, first + 0, f)
    BY <2>1, Zenon DEF Assigned
  <2> QED
    BY <2>2
<1>2. ASSUME NEW m \in Nat, m \in S PROVE m + 1 \in S
  <2>1. PICK f : Assigned(old, first, first + m, f)
    BY <1>2
  <2> DEFINE end  == (first + m) - 1
             Next1(row, prior) == Give(old, first, row, prior)
             more == [row \in (first - 1)..(end + 1) |->
                        IF row <= end THEN f[row] ELSE Next1(row, f[end])]
  <2>2. \A row \in (first - 1)..end :
          f[row] = IF row < first THEN <<>> ELSE Next1(row, f[row - 1])
    BY <2>1 DEF Assigned
  <2> HIDE DEF Next1
  <2>3. end \in Int /\ first - 1 <= end /\ (first + (m + 1)) - 1 = end + 1
    OBVIOUS
  <2> HIDE DEF end
  <2>4. \A row \in (first - 1)..(end + 1) :
          more[row] = IF row < first THEN <<>> ELSE Next1(row, more[row - 1])
    <3> TAKE row \in (first - 1)..(end + 1)
    <3>1. CASE row < first
      BY <2>2, <2>3, <3>1
    <3>2. CASE row \in first..end
      <4>1. more[row] = f[row] /\ more[row - 1] = f[row - 1]
        BY <2>3, <3>2
      <4> QED
        BY <2>2, <2>3, <3>2, <4>1
    <3>3. CASE row = end + 1 /\ first <= row
      <4>1. more[row] = Next1(row, f[end]) /\ more[row - 1] = f[end]
        BY <2>3, <3>3
      <4> QED
        BY <2>3, <3>3, <4>1
    <3> QED
      BY <2>3, <3>1, <3>2, <3>3
  <2>5. more = [row \in (first - 1)..((first + (m + 1)) - 1) |->
                  IF row < first THEN <<>> ELSE Next1(row, more[row - 1])]
    BY <2>3, <2>4
  <2> HIDE DEF more
  <2>6. Assigned(old, first, first + (m + 1), more)
    BY <2>5, Zenon DEF Assigned, Next1
  <2> QED
    BY <2>6
<1> HIDE DEF S
<1>3. Nat \subseteq S
  BY <1>1, <1>2, NatSet
<1> QED
  BY <1>3 DEF S

(* Induction over the rows: a window no longer than the slots gives each   *)
(* row a slot of its own, whatever old slots it is given.                  *)
LEMMA SlotsAreApart ==
  ASSUME NEW old, \A r \in DOMAIN old : old[r] \in Slots,
         NEW first \in Nat, NEW last \in Nat, first < last, last - first <= MaxSlots
  PROVE  Apart(first, last, AssignSlots(old, first, last))
PROOF
<1> DEFINE f == CHOOSE g : Assigned(old, first, last, g)
<1>1. Assigned(old, first, last, f)
  <2>1. last - first \in Nat /\ first + (last - first) = last
    OBVIOUS
  <2>2. \E g : Assigned(old, first, last, g)
    BY <2>1, AssignedExists
  <2> QED
    BY <2>2, Zenon
<1>2. AssignSlots(old, first, last) = f[last - 1]
  BY Zenon DEF AssignSlots, Assigned, Give
<1> HIDE DEF f
<1>3. \A row \in (first - 1)..(last - 1) :
        f[row] = IF row < first THEN <<>> ELSE Give(old, first, row, f[row - 1])
  BY <1>1 DEF Assigned
<1> DEFINE S == {m \in Nat : first + m <= last => Apart(first, first + m, f[(first + m) - 1])}
<1>4. 0 \in S
  <2>1. f[first - 1] = <<>>
    <3>1. first - 1 \in (first - 1)..(last - 1) /\ first - 1 < first
      OBVIOUS
    <3> QED
      BY <1>3, <3>1, Zenon
  <2>2. first..(first - 1) = {}
    OBVIOUS
  <2>3. <<>> \in [{} -> Slots]
    OBVIOUS
  <2>4. Apart(first, first, <<>>)
    BY <2>2, <2>3, Zenon DEF Apart
  <2>5. first + 0 = first
    OBVIOUS
  <2> QED
    BY <2>1, <2>4, <2>5, Zenon
<1>5. ASSUME NEW m \in Nat, m \in S PROVE m + 1 \in S
  <2>5. m + 1 \in Nat
    OBVIOUS
  <2> SUFFICES ASSUME first + (m + 1) <= last
               PROVE  Apart(first, first + (m + 1), f[(first + (m + 1)) - 1])
    BY <2>5, Zenon
  <2> DEFINE row == first + m
  <2>1. /\ row \in Nat /\ first <= row /\ row - first < MaxSlots /\ row <= last
        /\ row \in (first - 1)..(last - 1) /\ ~(row < first)
        /\ first + (m + 1) = row + 1 /\ (first + (m + 1)) - 1 = row
    BY ListAssumption
  <2>2. Apart(first, row, f[row - 1])
    BY <1>5, <2>1
  <2> HIDE DEF row
  <2>3. f[row] = Give(old, first, row, f[row - 1])
    BY <1>3, <2>1
  <2>4. Apart(first, row + 1, Give(old, first, row, f[row - 1]))
    BY <2>1, <2>2, GiveKeepsApart
  <2> QED
    BY <2>1, <2>3, <2>4, Zenon
<1> HIDE DEF S
<1>6. last - first \in S
  <2>1. Nat \subseteq S
    BY <1>4, <1>5, NatSet
  <2> QED
    BY <2>1
<1>7. first + (last - first) = last
  OBVIOUS
<1> QED
  BY <1>2, <1>6, <1>7 DEF S

(* What rebuild returns when the window fits.                              *)
LEMMA RebuildFacts ==
  ASSUME NEW c \in Nat \ {0}, NEW h \in Nat \ {0}, NEW v \in Nat \ {0}, NEW asked \in Int,
         NEW old, \A r \in DOMAIN old : old[r] \in Slots,
         Fits(c, h, v, Clamp(c, h, v, asked))
  PROVE  LET w == Rebuild(c, h, v, old, asked)
         IN  Viewed(c, h, v, w.offset, w.first, w.last) /\ Apart(w.first, w.last, w.slot)
PROOF
<1> DEFINE offset == Clamp(c, h, v, asked)
           first  == FirstRow(h, offset)
           last   == LastRow(c, h, v, offset)
           w      == Rebuild(c, h, v, old, asked)
<1>1. Viewed(c, h, v, offset, first, last)
  BY WindowIsViewed, Zenon
<1>2. last - first <= MaxSlots
  BY Zenon DEF Fits
<1>3. w = [first |-> first, last |-> last, offset |-> offset,
           slot |-> AssignSlots(old, first, last)]
  BY Zenon DEF Rebuild
<1> HIDE DEF offset, first, last, w
<1>4. first \in Nat /\ last \in Nat /\ first < last
  BY <1>1 DEF Viewed
<1>5. Apart(first, last, AssignSlots(old, first, last))
  BY <1>2, <1>4, SlotsAreApart
<1>6. /\ w.first = first /\ w.last = last /\ w.offset = offset
      /\ w.slot = AssignSlots(old, first, last)
  BY <1>3
<1> QED
  BY <1>1, <1>5, <1>6, Zenon DEF w

(***************************************************************************)
(* The objects of a window                                                 *)
(***************************************************************************)
(* What a slot may hold.                                                   *)
Shown   == [row : Nat \cup {Unbound}, y : Int, hidden : BOOLEAN]
Objects == {NoObject} \cup Shown

(* What bindWindow relies on: rows, each with a slot of its own.           *)
Framed(w) ==
  /\ w.first \in Nat /\ w.last \in Nat /\ w.first < w.last /\ w.offset \in Nat
  /\ Apart(w.first, w.last, w.slot)

(* The rows that are seen, and where.                                      *)
Seen(o) == {[row |-> o[s].row, y |-> o[s].y] : s \in {t \in Slots : o[t] # NoObject
    /\ ~o[t].hidden}}

(* An object is never mistaken for none.                                   *)
LEMMA NothingIsNoObject ==
  NoObject \notin Shown
PROOF
<1> SUFFICES ASSUME NoObject \in Shown PROVE FALSE
  OBVIOUS
<1>1. NoObject \in [row : Int, y : Int, hidden : BOOLEAN]
  BY DEF Shown, Unbound
<1> QED
  BY <1>1, ListAssumption

(* After the objects are created, each slot up to the highest has one.     *)
LEMMA CreateKeeps ==
  ASSUME NEW o \in [Slots -> Objects], NEW highest \in Int
  PROVE  /\ Create(o, highest) \in [Slots -> Objects]
         /\ \A s \in Slots : s <= highest => Create(o, highest)[s] \in Shown
PROOF
<1>1. Created \in Shown
  BY DEF Created, Shown, Unbound
<1>2. \A s \in Slots : Create(o, highest)[s] \in Objects
                       /\ (s <= highest => Create(o, highest)[s] \in Shown)
  BY <1>1, Zenon DEF Create, Objects
<1>3. Create(o, highest) \in [Slots -> Objects]
  BY <1>2 DEF Create
<1> QED
  BY <1>2, <1>3, Zenon

(* The highest slot of a window is one, and none of its slots is higher.   *)
LEMMA SlotsOfFacts ==
  ASSUME NEW w, Framed(w)
  PROVE  /\ SlotsOf(w) \subseteq Slots
         /\ SetMax(SlotsOf(w)) \in Nat
         /\ \A s \in SlotsOf(w) : s <= SetMax(SlotsOf(w))
PROOF
<1>1. \A r \in w.first..(w.last - 1) : w.slot[r] \in Slots
  BY DEF Framed, Apart
<1>2. SlotsOf(w) \subseteq Slots
  BY <1>1, Zenon DEF SlotsOf
<1>3. SlotsOf(w) # {}
  <2>1. w.first \in w.first..(w.last - 1)
    BY DEF Framed
  <2> QED
    BY <2>1, Zenon DEF SlotsOf
<1>4. MaxSlots - 1 \in Nat /\ SlotsOf(w) \in SUBSET (0..(MaxSlots - 1))
  BY <1>2, ListAssumption DEF Slots
<1> DEFINE S == SlotsOf(w)
<1> HIDE DEF S
<1>5. SetMax(S) \in S /\ \A k \in S : k <= SetMax(S)
  BY <1>3, <1>4, SetMaxFacts DEF S
<1>6. SetMax(S) \in Nat
  BY <1>4, <1>5 DEF S
<1> QED
  BY <1>2, <1>5, <1>6, Zenon DEF S

(* The first n rows of the window are where hitTest finds them.            *)
LEMMA BindRowsFacts ==
  ASSUME NEW w, Framed(w), NEW h \in Nat, NEW n \in Nat, n <= w.last - w.first,
         NEW o \in [Slots -> Objects], \A s \in SlotsOf(w) : o[s] \in Shown
  PROVE  /\ BindRows(w, h, o, n) \in [Slots -> Objects]
         /\ \A r \in w.first..(w.last - 1) : BindRows(w, h, o, n)[w.slot[r]] \in Shown
         /\ \A r \in w.first..(w.first + n - 1) :
              /\ BindRows(w, h, o, n)[w.slot[r]].row = r
              /\ BindRows(w, h, o, n)[w.slot[r]].y = r * h - w.offset
PROOF
<1> DEFINE rows == w.first..(w.first + n - 1)
           all  == w.first..(w.last - 1)
           to(s, r) == [o[s] EXCEPT !.row = r, !.y = r * h - w.offset]
           b    == BindRows(w, h, o, n)
<1>1. rows \subseteq all /\ all \subseteq Nat /\ w.offset \in Nat
  BY DEF Framed
<1>2. /\ \A r \in all : w.slot[r] \in Slots
      /\ \A r, q \in all : r # q => w.slot[r] # w.slot[q]
  BY DEF Framed, Apart
<1>3. \A s \in Slots, r \in Nat :
        o[s] \in Shown => to(s, r) \in Shown /\ to(s, r).row = r /\ to(s, r).y = r * h - w.offset
  <2> TAKE s \in Slots, r \in Nat
  <2> HAVE o[s] \in Shown
  <2>1. r * h - w.offset \in Int
    BY <1>1
  <2> QED
    BY <2>1 DEF Shown
<1>4. b = [s \in Slots |-> IF \E r \in rows : w.slot[r] = s
                           THEN to(s, CHOOSE q \in rows : w.slot[q] = s) ELSE o[s]]
  BY Zenon DEF BindRows
<1> HIDE DEF to, b, rows, all
<1>5. \A r \in all : w.slot[r] \in SlotsOf(w)
  BY Zenon DEF SlotsOf, all
<1>6. ASSUME NEW r \in rows PROVE b[w.slot[r]] = to(w.slot[r], r)
  <2>1. (CHOOSE q \in rows : w.slot[q] = w.slot[r]) = r
    BY <1>1, <1>2, Zenon
  <2>2. w.slot[r] \in Slots
    BY <1>1, <1>2, Zenon
  <2> QED
    BY <1>4, <2>1, <2>2, Zenon
<1>7. ASSUME NEW s \in Slots, ~ \E r \in rows : w.slot[r] = s PROVE b[s] = o[s]
  BY <1>4, <1>7, Zenon
<1>8. \A r \in rows : b[w.slot[r]] \in Shown /\ b[w.slot[r]].row = r
                      /\ b[w.slot[r]].y = r * h - w.offset
  <2> TAKE r \in rows
  <2>1. r \in Nat /\ w.slot[r] \in Slots /\ o[w.slot[r]] \in Shown
    BY <1>1, <1>2, <1>5, Zenon
  <2>2. /\ to(w.slot[r], r) \in Shown /\ to(w.slot[r], r).row = r
        /\ to(w.slot[r], r).y = r * h - w.offset
    BY <1>3, <2>1, Zenon
  <2>3. b[w.slot[r]] = to(w.slot[r], r)
    BY <1>6, Zenon
  <2> QED
    BY <2>2, <2>3, Zenon
<1>9. \A s \in Slots : b[s] \in Objects /\ (o[s] \in Shown => b[s] \in Shown)
  BY <1>7, <1>8, Zenon DEF Objects
<1>10. b \in [Slots -> Objects]
  BY <1>4, <1>9, Zenon
<1>11. \A r \in all : b[w.slot[r]] \in Shown
  BY <1>2, <1>5, <1>9, Zenon
<1> QED
  BY <1>8, <1>10, <1>11, Zenon DEF b, rows, all

(* A bind that succeeds: what is not hidden afterwards is the rows of the  *)
(* window, each once and in its place, whatever the objects showed before  *)
(* (bindWindow 213-243).                                                   *)
LEMMA SuccessShowsTheWindow ==
  ASSUME NEW w, Framed(w), NEW h \in Nat, NEW o \in [Slots -> Objects]
  PROVE  LET after == HideUnused(w, BindRows(w, h, Create(o, SetMax(SlotsOf(w))),
                                             w.last - w.first))
         IN  /\ after \in [Slots -> Objects]
             /\ Seen(after) = {[row |-> r, y |-> r * h - w.offset] : r \in w.first..(w.last - 1)}
PROOF
<1> DEFINE all == w.first..(w.last - 1)
           o1  == Create(o, SetMax(SlotsOf(w)))
           o2  == BindRows(w, h, o1, w.last - w.first)
           o3  == HideUnused(w, o2)
<1>1. o1 \in [Slots -> Objects] /\ \A s \in SlotsOf(w) : o1[s] \in Shown
  BY SlotsOfFacts, CreateKeeps
<1>2. w.last - w.first \in Nat /\ w.first + (w.last - w.first) - 1 = w.last - 1
  BY DEF Framed
<1> HIDE DEF o1
<1>3. /\ o2 \in [Slots -> Objects]
      /\ \A r \in all : /\ o2[w.slot[r]] \in Shown
                        /\ o2[w.slot[r]].row = r /\ o2[w.slot[r]].y = r * h - w.offset
  BY <1>1, <1>2, BindRowsFacts
<1> HIDE DEF o2
<1>4. /\ \A r \in all : w.slot[r] \in Slots /\ w.slot[r] \in SlotsOf(w)
      /\ \A s \in SlotsOf(w) : \E r \in all : w.slot[r] = s
  <2>1. \A r \in all : w.slot[r] \in Slots
    BY DEF Framed, Apart
  <2> QED
    BY <2>1, Zenon DEF SlotsOf
<1>5. \A s \in Slots : o3[s] = IF o2[s] = NoObject THEN NoObject
                               ELSE [o2[s] EXCEPT !.hidden = s \notin SlotsOf(w)]
  BY Zenon DEF HideUnused
<1>6. \A s \in Slots :
        \/ o2[s] = NoObject /\ o3[s] = NoObject
        \/ /\ o2[s] \in Shown /\ o3[s] \in Shown
           /\ o3[s].row = o2[s].row /\ o3[s].y = o2[s].y
           /\ o3[s].hidden <=> s \notin SlotsOf(w)
  <2> TAKE s \in Slots
  <2>1. CASE o2[s] = NoObject
    BY <1>5, <2>1, Zenon
  <2>2. CASE o2[s] # NoObject
    <3>1. o2[s] \in Shown
      BY <1>3, <2>2, Zenon DEF Objects
    <3>2. o3[s] = [o2[s] EXCEPT !.hidden = s \notin SlotsOf(w)]
      BY <1>5, <2>2, Zenon
    <3>3. (s \notin SlotsOf(w)) \in BOOLEAN
      BY Zenon
    <3> QED
      BY <3>1, <3>2, <3>3 DEF Shown
  <2> QED
    BY <2>1, <2>2
<1>7. o3 \in [Slots -> Objects]
  <2>1. \A s \in Slots : o3[s] \in Objects
    BY <1>6, Zenon DEF Objects
  <2> QED
    BY <2>1, Zenon DEF HideUnused
<1> HIDE DEF o3, all
<1>8. \A s \in Slots : (o3[s] # NoObject /\ ~o3[s].hidden) <=> s \in SlotsOf(w)
  <2> TAKE s \in Slots
  <2>1. ASSUME s \in SlotsOf(w) PROVE o2[s] # NoObject
    <3>1. PICK r \in all : w.slot[r] = s
      BY <1>4, <2>1, Zenon
    <3>2. o2[s] \in Shown
      BY <1>3, <3>1, Zenon
    <3> QED
      BY <3>2, NothingIsNoObject, Zenon
  <2> QED
    BY <1>6, <2>1, NothingIsNoObject, Zenon
<1>9. \A r \in all : o3[w.slot[r]].row = r /\ o3[w.slot[r]].y = r * h - w.offset
  <2> TAKE r \in all
  <2>1. w.slot[r] \in Slots /\ o2[w.slot[r]] \in Shown
    BY <1>3, <1>4, Zenon
  <2> QED
    BY <1>3, <1>6, <2>1, NothingIsNoObject, Zenon
<1>10. Seen(o3) = {[row |-> r, y |-> r * h - w.offset] : r \in all}
  <2>1. Seen(o3) = {[row |-> o3[s].row, y |-> o3[s].y] : s \in SlotsOf(w)}
    <3>1. {t \in Slots : o3[t] # NoObject /\ ~o3[t].hidden} = SlotsOf(w)
      BY <1>4, <1>8, Zenon
    <3> QED
      BY <3>1, Zenon DEF Seen
  <2>2. \A r \in all : [row |-> o3[w.slot[r]].row, y |-> o3[w.slot[r]].y]
                       = [row |-> r, y |-> r * h - w.offset]
    BY <1>9, Zenon
  <2> DEFINE at(s)   == [row |-> o3[s].row, y |-> o3[s].y]
             line(r) == [row |-> r, y |-> r * h - w.offset]
  <2>3. /\ Seen(o3) = {at(s) : s \in SlotsOf(w)}
        /\ \A r \in all : at(w.slot[r]) = line(r)
    BY <2>1, <2>2, Zenon
  <2> HIDE DEF at, line
  <2>4. {at(s) : s \in SlotsOf(w)} = {line(r) : r \in all}
    BY <1>4, <2>3
  <2> QED
    BY <2>3, <2>4, Zenon DEF line
<1> QED
  BY <1>7, <1>10, Zenon DEF o1, o2, o3, all

(***************************************************************************)
(* The inductive invariant                                                 *)
(***************************************************************************)
(* The list is not configured.                                             *)
Unset ==
  /\ count = 0 /\ rowHeight = 0 /\ viewportHeight = 0
  /\ window = NoWindow /\ object = [s \in Slots |-> NoObject]

(* The list is configured: its window shows its offset, in slots of its    *)
(* own.                                                                    *)
Listed ==
  /\ count \in Counts /\ rowHeight \in RowHeights /\ viewportHeight \in ViewportHeights
  /\ Viewed(count, rowHeight, viewportHeight, window.offset, window.first, window.last)
  /\ Apart(window.first, window.last, window.slot)

(* What every operation keeps. The slots of a window are apart whatever    *)
(* the old ones are, but are slots only if those were.                     *)
ListInv ==
  /\ bound \in BOOLEAN /\ failures \in 0..MaxBindFailures
  /\ object \in [Slots -> Objects]
  /\ Unset \/ Listed
  /\ WhatIsSeenIsTheWindow

(* Every configuration asked for is in positive numbers.                   *)
LEMMA Positive ==
  \A n \in Counts \cup RowHeights \cup ViewportHeights : n \in Nat \ {0}
  BY ListAssumption

(* Before configure and after reset nothing is seen.                       *)
LEMMA UnsetIsInv ==
  ASSUME Unset, bound = TRUE, failures = MaxBindFailures
  PROVE  ListInv
PROOF
<1>1. object \in [Slots -> Objects]
  BY DEF Unset, Objects
<1>2. MaxBindFailures \in 0..MaxBindFailures
  BY ListAssumption
<1>3. WhatIsSeenIsTheWindow
  <2>1. {t \in Slots : object[t] # NoObject /\ ~object[t].hidden} = {}
    BY Zenon DEF Unset
  <2>2. window.first..(window.last - 1) = {}
    BY DEF Unset, NoWindow
  <2> QED
    BY <2>1, <2>2, Zenon DEF WhatIsSeenIsTheWindow
<1> QED
  BY <1>1, <1>2, <1>3, Zenon DEF ListInv

(* The window of a configured list is one bindWindow can bind.             *)
LEMMA ListedIsFramed ==
  ASSUME NEW w, NEW c, NEW h, NEW v,
         Viewed(c, h, v, w.offset, w.first, w.last), Apart(w.first, w.last, w.slot)
  PROVE  Framed(w)
  BY Zenon DEF Framed, Viewed

(* A bind of the new window that succeeds, from any objects.               *)
LEMMA BindSucceedsIsInv ==
  ASSUME object \in [Slots -> Objects], Listed', failures' \in 0..MaxBindFailures,
         NEW o \in [Slots -> Objects], BindSucceeds(window', rowHeight', o)
  PROVE  ListInv'
PROOF
<1>1. Framed(window')
  BY ListedIsFramed, Zenon DEF Listed
<1>2. rowHeight' \in Nat
  BY Positive, Zenon DEF Listed
<1> DEFINE after == HideUnused(window', BindRows(window', rowHeight',
                      Create(o, SetMax(SlotsOf(window'))), window'.last - window'.first))
<1>3. object' = after /\ bound' = TRUE
  BY Zenon DEF BindSucceeds
<1>4. /\ after \in [Slots -> Objects]
      /\ Seen(after) = {[row |-> r, y |-> r * rowHeight' - window'.offset] :
                          r \in window'.first..(window'.last - 1)}
  BY <1>1, <1>2, SuccessShowsTheWindow, Zenon
<1> HIDE DEF after
<1>5. WhatIsSeenIsTheWindow'
  BY <1>3, <1>4, Zenon DEF WhatIsSeenIsTheWindow, Seen
<1> QED
  BY <1>3, <1>4, <1>5, Zenon DEF ListInv

(* A bind that fails half way leaves objects, and no claim about them.     *)
LEMMA BindFailsIsInv ==
  ASSUME object \in [Slots -> Objects], Listed', failures \in 0..MaxBindFailures,
         BindFails(window', rowHeight', object)
  PROVE  ListInv'
PROOF
<1> DEFINE w == window'
           highest == SetMax(SlotsOf(w))
<1>1. Framed(w)
  BY ListedIsFramed, Zenon DEF Listed
<1>2. rowHeight' \in Nat
  BY Positive, Zenon DEF Listed
<1>3. highest \in Nat /\ SlotsOf(w) \subseteq Slots /\ \A s \in SlotsOf(w) : s <= highest
  BY <1>1, SlotsOfFacts
<1>4. w.last - w.first \in Nat
  BY <1>1 DEF Framed
<1>5. bound' = FALSE /\ failures' \in 0..MaxBindFailures
  BY ListAssumption DEF BindFails
<1>6. \/ \E top \in -1..(highest - 1) : object' = Create(object, top)
      \/ \E n \in 0..(w.last - w.first - 1) :
           object' = BindRows(w, rowHeight', Create(object, highest), n)
  BY Zenon DEF BindFails
<1> HIDE DEF w, highest
<1>7. object' \in [Slots -> Objects]
  <2>1. CASE \E top \in -1..(highest - 1) : object' = Create(object, top)
    BY <2>1, CreateKeeps
  <2>2. CASE \E n \in 0..(w.last - w.first - 1) :
               object' = BindRows(w, rowHeight', Create(object, highest), n)
    <3>1. PICK n \in 0..(w.last - w.first - 1) :
                 object' = BindRows(w, rowHeight', Create(object, highest), n)
      BY <2>2
    <3>2. n \in Nat /\ n <= w.last - w.first
      BY <1>4
    <3>3. /\ Create(object, highest) \in [Slots -> Objects]
          /\ \A s \in SlotsOf(w) : Create(object, highest)[s] \in Shown
      BY <1>3, CreateKeeps
    <3> QED
      BY <1>1, <1>2, <3>1, <3>2, <3>3, BindRowsFacts, Zenon
  <2> QED
    BY <1>6, <2>1, <2>2
<1> QED
  BY <1>5, <1>7, Zenon DEF ListInv, WhatIsSeenIsTheWindow

(***************************************************************************)
(* The steps                                                               *)
(***************************************************************************)
LEMMA ConfigureKeeps ==
  ASSUME NEW c \in Counts, NEW h \in RowHeights, NEW v \in ViewportHeights, Configure(c, h, v),
         object \in [Slots -> Objects]
  PROVE  ListInv'
PROOF
<1>1. c \in Nat \ {0} /\ h \in Nat \ {0} /\ v \in Nat \ {0}
  BY Positive, Zenon
<1>2. Clamp(c, h, v, 0) = 0
  <2> DEFINE x == IF 0 > c * h - v THEN c * h - v ELSE 0
  <2>1. x \in Int /\ x <= 0
    BY <1>1
  <2>2. Clamp(c, h, v, 0) = SetMax({0, x})
    BY Zenon DEF Clamp
  <2> HIDE DEF x
  <2> QED
    BY <2>1, <2>2, SetOfTwo
<1>3. Fits(c, h, v, Clamp(c, h, v, 0))
  BY <1>2, Zenon DEF Configure
<1> DEFINE w == Rebuild(c, h, v, <<>>, 0)
<1>4. \A r \in DOMAIN <<>> : <<>>[r] \in Slots
  OBVIOUS
<1>5. 0 \in Int
  OBVIOUS
<1>6. Viewed(c, h, v, w.offset, w.first, w.last) /\ Apart(w.first, w.last, w.slot)
  BY <1>1, <1>3, <1>4, <1>5, RebuildFacts, Zenon
<1>7. window' = w /\ count' = c /\ rowHeight' = h /\ viewportHeight' = v
  BY Zenon DEF Configure
<1> HIDE DEF w
<1>8. Listed'
  BY <1>6, <1>7, Zenon DEF Listed
<1> DEFINE o == [s \in Slots |-> NoObject]
<1>9. o \in [Slots -> Objects]
  BY Zenon DEF Objects
<1>10. BindSucceeds(window', rowHeight', o) /\ failures' = MaxBindFailures
  BY <1>7, Zenon DEF Configure
<1> HIDE DEF o
<1>11. MaxBindFailures \in 0..MaxBindFailures
  BY ListAssumption
<1> QED
  BY <1>8, <1>9, <1>10, <1>11, BindSucceedsIsInv, Zenon

(* scrollTo: the slots of the old window go into the new one, and the bind *)
(* may fail.                                                               *)
LEMMA ScrollKeeps ==
  ASSUME ListInv, NEW offset \in Int, ScrollTo(offset)
  PROVE  ListInv'
PROOF
<1>1. Listed
  BY Zenon DEF ListInv, Unset, ScrollTo
<1>2. /\ count \in Nat \ {0} /\ rowHeight \in Nat \ {0} /\ viewportHeight \in Nat \ {0}
  BY <1>1, Positive, Zenon DEF Listed
<1>3. \A r \in DOMAIN window.slot : window.slot[r] \in Slots
  BY <1>1 DEF Listed, Apart
<1> DEFINE w == Rebuild(count, rowHeight, viewportHeight, window.slot, offset)
<1>4. /\ Viewed(count, rowHeight, viewportHeight, w.offset, w.first, w.last)
      /\ Apart(w.first, w.last, w.slot)
  BY <1>2, <1>3, RebuildFacts, Zenon DEF ScrollTo
<1>5. /\ window' = w
      /\ count' = count /\ rowHeight' = rowHeight /\ viewportHeight' = viewportHeight
  BY Zenon DEF ScrollTo
<1> HIDE DEF w
<1>6. Listed'
  BY <1>1, <1>4, <1>5, Zenon DEF Listed
<1>7. object \in [Slots -> Objects] /\ failures \in 0..MaxBindFailures
  BY Zenon DEF ListInv
<1>8. CASE BindSucceeds(window', rowHeight, object) /\ failures' = failures
  BY <1>5, <1>6, <1>7, <1>8, BindSucceedsIsInv, Zenon
<1>9. CASE BindFails(window', rowHeight, object)
  BY <1>5, <1>6, <1>7, <1>9, BindFailsIsInv, Zenon
<1> QED
  BY <1>8, <1>9, Zenon DEF ScrollTo

(* Every step keeps the invariant.                                         *)
LEMMA ListSteps ==
  ListInv /\ [Next]_vars => ListInv'
PROOF
<1> SUFFICES ASSUME ListInv, [Next]_vars PROVE ListInv'
  OBVIOUS
<1>1. CASE \E c \in Counts, h \in RowHeights, v \in ViewportHeights : Configure(c, h, v)
  BY <1>1, ConfigureKeeps, Zenon DEF ListInv
<1>2. CASE Reset
  <2>1. Unset' /\ bound' = TRUE /\ failures' = MaxBindFailures
    BY <1>2, Zenon DEF Reset, Unset
  <2>2. (Unset /\ bound = TRUE /\ failures = MaxBindFailures => ListInv)'
    BY UnsetIsInv, PTL
  <2> QED
    BY <2>1, <2>2
<1>3. CASE \E offset \in -1..MaxOffset : ScrollTo(offset)
  <2>1. \A offset \in -1..MaxOffset : offset \in Int
    OBVIOUS
  <2> QED
    BY <1>3, <2>1, ScrollKeeps, Zenon
<1>4. CASE UNCHANGED vars
  <2>1. /\ count' = count /\ rowHeight' = rowHeight /\ viewportHeight' = viewportHeight
        /\ window' = window /\ object' = object /\ bound' = bound /\ failures' = failures
    BY <1>4, Zenon DEF vars
  <2>2. WhatIsSeenIsTheWindow' <=> WhatIsSeenIsTheWindow
    BY <2>1 DEF WhatIsSeenIsTheWindow
  <2>3. (Unset' <=> Unset) /\ (Listed' <=> Listed)
    BY <2>1, Zenon DEF Unset, Listed
  <2> QED
    BY <2>1, <2>2, <2>3, Zenon DEF ListInv
<1> QED
  BY <1>1, <1>2, <1>3, <1>4, Zenon DEF Next

(* The invariant holds in every behaviour.                                 *)
LEMMA ListInvariance ==
  Spec => []ListInv
PROOF
<1>1. Init => ListInv
  BY UnsetIsInv, Zenon DEF Init, Unset
<1> QED
  BY <1>1, ListSteps, PTL DEF Spec

(* For every list, viewport, number of slots and history of scrolls and    *)
(* failed binds: two rows of a window never share a slot, and so never an  *)
(* object (rebuild 111-136).                                               *)
THEOREM SlotsStayDistinct ==
  Spec => []SlotsAreDistinct
PROOF
<1>1. ListInv => SlotsAreDistinct
  <2> SUFFICES ASSUME ListInv PROVE SlotsAreDistinct
    OBVIOUS
  <2>1. /\ object \in [Slots -> {NoObject} \cup [row : Nat \cup {Unbound}, y : Int, hidden :
               BOOLEAN]]
        /\ bound \in BOOLEAN /\ failures \in 0..MaxBindFailures
    BY Zenon DEF ListInv, Objects, Shown
  <2>2. CASE Unset
    <3>1. /\ count = 0 /\ rowHeight = 0 /\ viewportHeight = 0
          /\ window.first = 0 /\ window.last = 0 /\ window.slot = <<>>
      BY <2>2 DEF Unset, NoWindow
    <3>2. window.first..(window.last - 1) = {} /\ <<>> \in [{} -> Slots]
      BY <3>1
    <3>3. window.first \in 0..count /\ window.last \in window.first..count
      BY <3>1
    <3> QED
      BY <2>1, <3>1, <3>2, <3>3, Zenon DEF SlotsAreDistinct, TypeOK
  <2>3. CASE Listed
    <3>1. window.first \in 0..count /\ window.last \in window.first..count
      BY <2>3, Positive DEF Listed, Viewed
    <3> QED
      BY <2>1, <2>3, <3>1, Zenon DEF SlotsAreDistinct, TypeOK, Listed, Apart
  <2> QED
    BY <2>2, <2>3, Zenon DEF ListInv
<1> QED
  BY <1>1, ListInvariance, PTL

(* For every list, row height, viewport and offset: each pixel of the      *)
(* viewport that a row of the list covers is in the window, and hitTest    *)
(* finds that row (rebuild 96-101, hitTest 71-84).                         *)
THEOREM ViewportStaysCovered ==
  Spec => []ViewportIsCovered
PROOF
<1>1. ListInv => ViewportIsCovered
  <2> SUFFICES ASSUME ListInv, count # 0,
                      NEW y \in 0..(viewportHeight - 1), NEW r \in 0..(count - 1),
                      r * rowHeight <= window.offset + y,
                      window.offset + y < (r + 1) * rowHeight
               PROVE  HitTest(y) = {r}
    BY Zenon DEF ViewportIsCovered
  <2>1. Listed
    BY Zenon DEF ListInv, Unset
  <2>2. count \in Nat \ {0} /\ rowHeight \in Nat \ {0} /\ viewportHeight \in Nat \ {0}
    BY <2>1, Positive, Zenon DEF Listed
  <2> DEFINE c == count
             h == rowHeight
             v == viewportHeight
             offset == window.offset
             first == window.first
             last == window.last
  <2>3. Viewed(c, h, v, offset, first, last)
    BY <2>1, Zenon DEF Listed
  <2>4. /\ c \in Nat \ {0} /\ h \in Nat \ {0} /\ v \in Nat \ {0}
        /\ y \in Nat /\ y < v /\ r \in Nat /\ r < c
        /\ r * h <= offset + y /\ offset + y < (r + 1) * h
    BY <2>2
  <2>5. HitTest(y) = {q \in first..(last - 1) : y >= 0 /\ q = (offset + y) \div h}
    BY Zenon DEF HitTest
  <2> HIDE DEF c, h, v, offset, first, last
  <2>6. PICK rows \in Nat : v <= rows * h /\ (last = c \/ last = first + rows + 1)
    BY <2>3, Zenon DEF Viewed
  <2>7. /\ offset \in Nat /\ first \in Nat /\ last \in Nat
        /\ first * h <= offset /\ offset < first * h + h
    BY <2>3, Zenon DEF Viewed
  <2>8. (offset + y) \div h = r
    BY <2>4, <2>7, RowAt
  <2>9. first <= r
    <3>1. (r + 1) * h = r * h + h /\ first * h < (r + 1) * h
      BY <2>4, <2>7
    <3>2. ~(r + 1 <= first)
      BY <2>4, <2>7, <3>1, ProductOrder
    <3> QED
      BY <2>4, <2>7, <3>2
  <2>10. r < last
    <3>1. CASE last = c
      BY <2>4, <3>1
    <3>2. CASE last = first + rows + 1
      <4>1. last * h = first * h + rows * h + h
        BY <2>4, <2>6, <2>7, <3>2
      <4>2. r * h < last * h
        BY <2>4, <2>6, <2>7, <4>1
      <4>3. ~(last <= r)
        BY <2>4, <2>7, <4>2, ProductOrder
      <4> QED
        BY <2>4, <2>7, <4>3
    <3> QED
      BY <2>6, <3>1, <3>2
  <2> QED
    BY <2>4, <2>5, <2>7, <2>8, <2>9, <2>10
<1> QED
  BY <1>1, ListInvariance, PTL

(* After any history, the objects not hidden are the rows of the window,   *)
(* each where hitTest finds it, unless the last bind failed (bindWindow    *)
(* 213-243).                                                               *)
THEOREM SeenStaysTheWindow ==
  Spec => []WhatIsSeenIsTheWindow
PROOF
<1>1. ListInv => WhatIsSeenIsTheWindow
  BY Zenon DEF ListInv
<1> QED
  BY <1>1, ListInvariance, PTL

(***************************************************************************)
(* The package sources                                                     *)
(***************************************************************************)
Inv == Package!ReadsAnsweredOnce /\ Package!NothingReadsIntoClosedSource

(* What serving some slots takes from operations_ and gives to the port,   *)
(* shared by serviceCompletions and the teardown.                          *)
Serves(D) ==
  /\ D \in Package!Deliverable
  /\ operations' = Package!Freed(D)
  /\ posted' = posted \cup Package!Deliveries(D)
  /\ UNCHANGED <<memory, requests, stopping, admission, calls>>

(* What is delivered was waiting for it.                                   *)
LEMMA DeliverableIsPending ==
  ASSUME NEW D \in Package!Deliverable
  PROVE  D \subseteq Package!Pending
  BY DEF Package!Deliverable

(* Serving keeps every read in one place.                                  *)
LEMMA ServesKeepsReads ==
  ASSUME Inv, NEW D, Serves(D),
         file' \in {"absent", "open", "closing", "closed", "destroyed"}
  PROVE  /\ Package!ReadsAnsweredOnce'
         /\ requests' = {s \in ReadSlots : operations'[s].state = "reading"}
         /\ Package!InFlight' = Package!InFlight \ D
PROOF
<1>1. /\ D \subseteq Package!Pending
      /\ D \subseteq Package!InFlight
  BY DeliverableIsPending DEF Serves, Package!Pending, Package!InFlight
<1>2. Package!ReadTypes
  BY DEF Inv, Package!ReadsAnsweredOnce
<1>3. ASSUME NEW s \in ReadSlots
      PROVE  operations'[s] = IF s \in D THEN Package!FreeSlot ELSE operations[s]
  BY DEF Serves, Package!Freed
<1>4. Package!InFlight' = Package!InFlight \ D
  BY <1>1, <1>3 DEF Package!InFlight, Package!FreeSlot
<1>5. requests' = {s \in ReadSlots : operations'[s].state = "reading"}
  <2>1. \A s \in D : operations[s].state = "pendingDelivery"
    BY <1>1 DEF Package!Pending
  <2>2. \A s \in ReadSlots : operations'[s].state = "reading" <=> operations[s].state = "reading"
    BY <1>3, <2>1 DEF Package!FreeSlot
  <2> QED
    BY <2>2 DEF Serves, Inv, Package!NothingReadsIntoClosedSource
<1>6. Package!ReadTypes'
  <2>1. operations' \in [ReadSlots -> [read : Reads \cup {NoRead},
                                   state : {"free", "reading", "pendingDelivery"},
                                   good : BOOLEAN]]
    BY <1>2 DEF Serves, Package!Freed, Package!FreeSlot, Package!ReadTypes
  <2>2. \A s \in D : operations[s].read \in Reads /\ operations[s].good \in BOOLEAN
    BY <1>1, <1>2 DEF Inv, Package!ReadsAnsweredOnce, Package!ReadTypes, Package!InFlight
  <2>3. posted' \subseteq Reads \X BOOLEAN
    BY <1>2, <2>2 DEF Serves, Package!Deliveries, Package!ReadTypes
  <2> QED
    BY <1>2, <2>1, <2>3 DEF Serves, Package!ReadTypes
<1>7. \A s, u \in Package!InFlight' : operations'[s].read = operations'[u].read => s = u
  <2>1. \A s \in Package!InFlight' : s \in Package!InFlight
            /\ operations'[s].read = operations[s].read
    BY <1>3, <1>4 DEF Package!InFlight
  <2> QED
    BY <2>1 DEF Inv, Package!ReadsAnsweredOnce
<1>8. \A s \in Package!InFlight' : operations'[s].read \in Reads
  BY <1>3, <1>4 DEF Inv, Package!ReadsAnsweredOnce, Package!InFlight
<1>9. ASSUME NEW d \in posted', NEW e \in posted', d[1] = e[1]
      PROVE  d = e
  <2>1. \A x \in posted : x \in Reads \X BOOLEAN /\ Package!IsPosted(x[1])
    BY <1>2 DEF Package!ReadTypes, Package!IsPosted
  <2>2. \A x \in Package!Deliveries(D) :
           \E s \in D : s \in Package!InFlight /\ x = <<operations[s].read, operations[s].good>>
                        /\ x[1] = operations[s].read /\ x[1] \in Reads
                        /\ Package!Held(x[1]) /\ ~Package!IsPosted(x[1])
    BY <1>1 DEF Package!Deliveries, Inv, Package!ReadsAnsweredOnce, Package!Held
  <2>3. posted' = posted \cup Package!Deliveries(D)
    BY DEF Serves
  <2>4. CASE d \in posted /\ e \in posted
    BY <2>4, <1>9 DEF Inv, Package!ReadsAnsweredOnce
  <2>5. CASE d \in Package!Deliveries(D) /\ e \in Package!Deliveries(D)
    BY <2>2, <2>5, <1>9 DEF Inv, Package!ReadsAnsweredOnce
  <2>6. CASE (d \in posted /\ e \in Package!Deliveries(D)) \/ (d \in Package!Deliveries(D)
            /\ e \in posted)
    BY <2>1, <2>2, <2>6, <1>9
  <2> QED
    BY <2>3, <2>4, <2>5, <2>6
<1>10. ASSUME NEW r \in Reads
       PROVE  /\ calls'[r] \in {0, 1}
              /\ Package!Held(r)' => admission'[r] = "accepted" /\ ~Package!IsPosted(r)'
                     /\ calls'[r] = 0
              /\ Package!IsPosted(r)' => admission'[r] \in {"accepted", "closed"} /\ calls'[r] = 0
              /\ calls'[r] = 1 => admission'[r] \in {"accepted", "closed"}
              /\ admission'[r] = "accepted"
                     => Package!Held(r)' \/ Package!IsPosted(r)' \/ calls'[r] = 1
  <2>1. admission' = admission /\ calls' = calls
    BY DEF Serves
  <2>2. Package!Held(r)' <=> \E s \in Package!InFlight \ D : operations[s].read = r
    BY <1>3, <1>4 DEF Package!Held, Package!InFlight
  <2>3. Package!IsPosted(r)' <=> Package!IsPosted(r) \/ \E s \in D : operations[s].read = r
    <3>1. \A s \in D : operations[s].good \in BOOLEAN
      BY <1>1, <1>2 DEF Package!ReadTypes, Package!InFlight
    <3> QED
      BY <3>1 DEF Package!IsPosted, Serves, Package!Deliveries
  <2>4. Package!Held(r) <=> Package!Held(r)' \/ \E s \in D : operations[s].read = r
    BY <1>1, <2>2 DEF Package!Held
  <2>5. ~(Package!Held(r)' /\ \E s \in D : operations[s].read = r)
    BY <1>1, <2>2 DEF Inv, Package!ReadsAnsweredOnce
  <2>6. /\ calls[r] \in {0, 1}
        /\ Package!Held(r) => admission[r] = "accepted" /\ ~Package!IsPosted(r) /\ calls[r] = 0
        /\ Package!IsPosted(r) => admission[r] \in {"accepted", "closed"} /\ calls[r] = 0
        /\ calls[r] = 1 => admission[r] \in {"accepted", "closed"}
        /\ admission[r] = "accepted" => Package!Held(r) \/ Package!IsPosted(r) \/ calls[r] = 1
    BY DEF Inv, Package!ReadsAnsweredOnce
  <2> QED
    BY <2>1, <2>3, <2>4, <2>5, <2>6
<1>11. Package!ReadsAnsweredOnce'
  BY <1>6, <1>7, <1>8, <1>9, <1>10 DEF Package!ReadsAnsweredOnce
<1> QED
  BY <1>4, <1>5, <1>11

(* Delivering a read nobody knew of keeps every read in one place.         *)
LEMMA DeliverKeepsReads ==
  ASSUME Inv, NEW r \in Reads, Package!Fresh(r), NEW good \in BOOLEAN,
         NEW status \in {"accepted", "closed"}, Package!Deliver(r, good, status),
         UNCHANGED <<operations, requests, stopping, calls>>,
         file' = file, memory' = memory
  PROVE  Inv'
PROOF
<1>1. Package!ReadTypes
  BY DEF Inv, Package!ReadsAnsweredOnce
<1>2. ~Package!Held(r) /\ ~Package!IsPosted(r) /\ calls[r] = 0
  BY DEF Package!Fresh, Inv, Package!ReadsAnsweredOnce
<1>3. \/ posted' = posted \cup {<<r, good>>} /\ admission' = [admission EXCEPT ![r] = status]
      \/ /\ posted' = posted
         /\ \E refusal \in {"closed", "busy", "capacityExhausted"} :
              admission' = [admission EXCEPT ![r] = refusal]
  BY DEF Package!Deliver
<1>4. Package!InFlight' = Package!InFlight
  BY DEF Package!InFlight
<1>5. Package!ReadTypes'
  BY <1>1, <1>3 DEF Package!ReadTypes
<1>6. \A d, e \in posted' : d[1] = e[1] => d = e
  <2>1. \A x \in posted : x[1] # r
    BY <1>1, <1>2 DEF Package!ReadTypes, Package!IsPosted
  <2> QED
    BY <1>3, <2>1 DEF Inv, Package!ReadsAnsweredOnce
<1>7. ASSUME NEW q \in Reads
      PROVE  /\ calls'[q] \in {0, 1}
             /\ Package!Held(q)' => admission'[q] = "accepted" /\ ~Package!IsPosted(q)'
                    /\ calls'[q] = 0
             /\ Package!IsPosted(q)' => admission'[q] \in {"accepted", "closed"} /\ calls'[q] = 0
             /\ calls'[q] = 1 => admission'[q] \in {"accepted", "closed"}
             /\ admission'[q] = "accepted"
                    => Package!Held(q)' \/ Package!IsPosted(q)' \/ calls'[q] = 1
  <2>1. Package!Held(q)' <=> Package!Held(q)
    BY <1>4 DEF Package!Held
  <2>2. CASE q # r
    <3>1. admission'[q] = admission[q]
      BY <1>1, <1>3, <2>2 DEF Package!ReadTypes
    <3>2. Package!IsPosted(q)' <=> Package!IsPosted(q)
      BY <1>3, <2>2 DEF Package!IsPosted
    <3> QED
      BY <2>1, <3>1, <3>2 DEF Inv, Package!ReadsAnsweredOnce
  <2>3. CASE q = r
    <3>1. CASE posted' = posted \cup {<<r, good>>}
               /\ admission' = [admission EXCEPT ![r] = status]
      <4>1. Package!IsPosted(r)' /\ admission'[r] = status
        BY <1>1, <3>1 DEF Package!IsPosted, Package!ReadTypes
      <4> QED
        BY <1>2, <2>1, <2>3, <4>1
    <3>2. CASE /\ posted' = posted
               /\ \E refusal \in {"closed", "busy", "capacityExhausted"} :
                    admission' = [admission EXCEPT ![r] = refusal]
      <4>1. ~Package!IsPosted(r)' /\ admission'[r] # "accepted"
        BY <1>1, <1>2, <3>2 DEF Package!IsPosted, Package!ReadTypes
      <4> QED
        BY <1>2, <2>1, <2>3, <4>1
    <3> QED
      BY <1>3, <3>1, <3>2
  <2> QED
    BY <2>2, <2>3
<1>8. Package!ReadsAnsweredOnce'
  BY <1>4, <1>5, <1>6, <1>7 DEF Inv, Package!ReadsAnsweredOnce
<1>9. Package!NothingReadsIntoClosedSource'
  BY <1>4 DEF Inv, Package!NothingReadsIntoClosedSource
<1> QED
  BY <1>8, <1>9 DEF Inv

(* Refusing a read without a word to the port.                             *)
LEMMA RefusalKeepsReads ==
  ASSUME Inv, NEW r \in Reads, Package!Fresh(r), NEW status \in {"invalid", "capacityExhausted"},
         admission' = [admission EXCEPT ![r] = status],
         UNCHANGED <<file, memory, operations, requests, posted, stopping, calls>>
  PROVE  Inv'
PROOF
<1>1. Package!ReadTypes
  BY DEF Inv, Package!ReadsAnsweredOnce
<1>2. ~Package!Held(r) /\ ~Package!IsPosted(r) /\ calls[r] = 0
  BY DEF Package!Fresh, Inv, Package!ReadsAnsweredOnce
<1>3. Package!ReadTypes'
  BY <1>1 DEF Package!ReadTypes
<1>4. \A q \in Reads : admission'[q] = IF q = r THEN status ELSE admission[q]
  BY <1>1 DEF Package!ReadTypes
<1>5. /\ Package!InFlight' = Package!InFlight
      /\ \A q \in Reads : (Package!Held(q)' <=> Package!Held(q))
             /\ (Package!IsPosted(q)' <=> Package!IsPosted(q))
  BY DEF Package!InFlight, Package!Held, Package!IsPosted
<1>6. Package!ReadsAnsweredOnce'
  BY <1>2, <1>3, <1>4, <1>5 DEF Inv, Package!ReadsAnsweredOnce
<1> QED
  BY <1>5, <1>6 DEF Inv, Package!NothingReadsIntoClosedSource

(* A read that takes a free slot.                                          *)
LEMMA ReadStartKeepsReads ==
  ASSUME Inv, NEW r \in Reads, NEW s \in ReadSlots, Package!ReadStart(r, s)
  PROVE  Inv'
PROOF
<1>1. Package!ReadTypes
  BY DEF Inv, Package!ReadsAnsweredOnce
<1>2. ~Package!Held(r) /\ ~Package!IsPosted(r) /\ calls[r] = 0
  BY DEF Package!ReadStart, Package!Fresh, Inv, Package!ReadsAnsweredOnce
<1>3. s \notin Package!InFlight
  BY DEF Package!ReadStart, Package!FreeOperation
<1>4. \A u \in ReadSlots : operations'[u] = IF u = s
                                       THEN [read |-> r, state |-> "reading", good |-> FALSE]
                                       ELSE operations[u]
  BY <1>1 DEF Package!ReadStart, Package!ReadTypes
<1>5. Package!InFlight' = Package!InFlight \cup {s}
  BY <1>4 DEF Package!InFlight
<1>6. Package!ReadTypes'
  BY <1>1 DEF Package!ReadStart, Package!ReadTypes
<1>7. \A u \in Package!InFlight : u \in ReadSlots /\ u # s /\ operations'[u] = operations[u]
                         /\ operations[u].read # r
  BY <1>2, <1>3, <1>4 DEF Package!InFlight, Package!Held
<1>8. \A u, v \in Package!InFlight' : operations'[u].read = operations'[v].read => u = v
  BY <1>4, <1>5, <1>7 DEF Inv, Package!ReadsAnsweredOnce
<1>9. \A u \in Package!InFlight' : operations'[u].read \in Reads
  BY <1>4, <1>5, <1>7 DEF Inv, Package!ReadsAnsweredOnce
<1>10. \A q \in Reads : /\ Package!Held(q)' <=> (q = r \/ Package!Held(q))
                        /\ Package!IsPosted(q)' <=> Package!IsPosted(q)
                        /\ admission'[q] = IF q = r THEN "accepted" ELSE admission[q]
  BY <1>1, <1>4, <1>5, <1>7 DEF Package!Held, Package!IsPosted, Package!ReadStart, Package!ReadTypes
<1>11. Package!ReadsAnsweredOnce'
  BY <1>2, <1>6, <1>8, <1>9, <1>10 DEF Package!ReadStart, Inv, Package!ReadsAnsweredOnce
<1>12. requests' = {u \in ReadSlots : operations'[u].state = "reading"}
  BY <1>4 DEF Package!ReadStart, Inv, Package!NothingReadsIntoClosedSource
<1> QED
  BY <1>11, <1>12 DEF Package!ReadStart, Inv, Package!NothingReadsIntoClosedSource

(* libuv answers: the slot keeps its read.                                 *)
LEMMA OnReadKeepsReads ==
  ASSUME Inv, NEW s \in ReadSlots, NEW complete \in BOOLEAN, Package!OnRead(s, complete)
  PROVE  Inv'
PROOF
<1>1. Package!ReadTypes
  BY DEF Inv, Package!ReadsAnsweredOnce
<1>2. operations[s].state = "reading"
  BY DEF Package!OnRead, Inv, Package!NothingReadsIntoClosedSource
<1>3. \A u \in ReadSlots :
        operations'[u] = IF u = s THEN [operations[s] EXCEPT !.state = "pendingDelivery",
                                                             !.good = complete]
                                  ELSE operations[u]
  BY <1>1 DEF Package!OnRead, Package!ReadTypes
<1>0. \A u \in ReadSlots :
        operations[u] \in [read : Reads \cup {NoRead},
                           state : {"free", "reading", "pendingDelivery"}, good : BOOLEAN]
  BY <1>1 DEF Package!ReadTypes
<1>4. \A u \in ReadSlots : /\ operations'[u].read = operations[u].read
                       /\ operations'[u].state = IF u = s THEN "pendingDelivery"
                                                         ELSE operations[u].state
  BY <1>0, <1>3
<1>5. Package!InFlight' = Package!InFlight
  BY <1>2, <1>4 DEF Package!InFlight
<1>6. Package!ReadTypes'
  <2>1. \A u \in ReadSlots :
          operations'[u] \in [read : Reads \cup {NoRead},
                              state : {"free", "reading", "pendingDelivery"}, good : BOOLEAN]
    <3> TAKE u \in ReadSlots
    <3>1. CASE u = s
      BY <1>0, <1>3, <3>1
    <3>2. CASE u # s
      BY <1>0, <1>3, <3>2
    <3> QED BY <3>1, <3>2
  <2>2. operations' = [u \in ReadSlots |-> operations'[u]]
    BY <1>1 DEF Package!OnRead, Package!ReadTypes
  <2>3. requests' \subseteq ReadSlots
    BY <1>1 DEF Package!OnRead, Package!ReadTypes
  <2>4. operations' \in [ReadSlots -> [read : Reads \cup {NoRead},
                                  state : {"free", "reading", "pendingDelivery"}, good : BOOLEAN]]
    BY <2>1, <2>2, Zenon
  <2> QED
    BY <1>1, <2>3, <2>4, Zenon DEF Package!OnRead, Package!ReadTypes
<1>7. \A q \in Reads : (Package!Held(q)' <=> Package!Held(q))
          /\ (Package!IsPosted(q)' <=> Package!IsPosted(q))
  BY <1>4, <1>5 DEF Package!Held, Package!IsPosted, Package!OnRead, Package!InFlight
<1>8. Package!ReadsAnsweredOnce'
  <2>1. \A u \in Package!InFlight : operations'[u].read = operations[u].read
    BY <1>4 DEF Package!InFlight
  <2>2. /\ \A u, v \in Package!InFlight' : operations'[u].read = operations'[v].read => u = v
        /\ \A u \in Package!InFlight' : operations'[u].read \in Reads
    BY <1>5, <2>1 DEF Inv, Package!ReadsAnsweredOnce
  <2>3. UNCHANGED <<posted, admission, calls>>
    BY DEF Package!OnRead
  <2> QED
    BY <1>6, <1>7, <2>2, <2>3, Zenon DEF Inv, Package!ReadsAnsweredOnce
<1>9. requests' = {u \in ReadSlots : operations'[u].state = "reading"}
  <2>1. \A u \in ReadSlots :
          operations'[u].state = "reading" <=> u # s /\ operations[u].state = "reading"
    BY <1>4
  <2>2. requests' = {u \in ReadSlots : operations[u].state = "reading"} \ {s}
    BY DEF Package!OnRead, Inv, Package!NothingReadsIntoClosedSource
  <2> QED
    BY <2>1, <2>2
<1> QED
  BY <1>5, <1>8, <1>9 DEF Package!OnRead, Inv, Package!NothingReadsIntoClosedSource

(* The port calls a completion back, which it then no longer holds.        *)
LEMMA PortRunKeepsReads ==
  ASSUME Inv, NEW d \in posted, Package!PortRun(d)
  PROVE  Inv'
PROOF
<1>1. Package!ReadTypes
  BY DEF Inv, Package!ReadsAnsweredOnce
<1>2. PICK r \in Reads, good \in BOOLEAN : d = <<r, good>>
  BY <1>1 DEF Package!ReadTypes
<1>3. Package!IsPosted(r) /\ calls[r] = 0 /\ ~Package!Held(r)
          /\ admission[r] \in {"accepted", "closed"}
  BY <1>2 DEF Package!IsPosted, Inv, Package!ReadsAnsweredOnce
<1>4. \A q \in Reads : calls'[q] = IF q = r THEN 1 ELSE calls[q]
  BY <1>1, <1>2, <1>3 DEF Package!PortRun, Package!ReadTypes
<1>5. Package!ReadTypes'
  <2>1. calls' \in [Reads -> Nat]
    BY <1>1, <1>2, <1>3 DEF Package!PortRun, Package!ReadTypes
  <2> QED
    BY <1>1, <2>1 DEF Package!PortRun, Package!ReadTypes
<1>6. /\ Package!InFlight' = Package!InFlight
      /\ \A q \in Reads : Package!Held(q)' <=> Package!Held(q)
  BY DEF Package!PortRun, Package!InFlight, Package!Held
<1>7. \A q \in Reads : Package!IsPosted(q)' <=> (q # r /\ Package!IsPosted(q))
  <2>1. \A x \in posted : x[1] = r => x = d
    BY <1>2 DEF Inv, Package!ReadsAnsweredOnce
  <2> QED
    BY <1>2, <2>1 DEF Package!PortRun, Package!IsPosted
<1>8. Package!ReadsAnsweredOnce'
  BY <1>3, <1>4, <1>5, <1>6, <1>7 DEF Package!PortRun, Inv, Package!ReadsAnsweredOnce
<1> QED
  BY <1>6, <1>8 DEF Package!PortRun, Inv, Package!NothingReadsIntoClosedSource

(* What changes neither a read nor a slot.                                 *)
LEMMA IdleKeepsReads ==
  ASSUME Inv, UNCHANGED <<operations, requests, posted, admission, calls>>,
         file' \in {"absent", "open", "closing", "closed", "destroyed"},
         memory' \in {"open", "closed"}, stopping' \in BOOLEAN,
         file' \in {"absent", "closed", "destroyed"} => Package!InFlight = {}
  PROVE  Inv'
PROOF
<1>1. Package!ReadTypes'
  BY DEF Inv, Package!ReadsAnsweredOnce, Package!ReadTypes
<1>2. /\ Package!InFlight' = Package!InFlight
      /\ \A q \in Reads : (Package!Held(q)' <=> Package!Held(q))
             /\ (Package!IsPosted(q)' <=> Package!IsPosted(q))
  BY DEF Package!InFlight, Package!Held, Package!IsPosted
<1>3. Package!ReadsAnsweredOnce'
  BY <1>1, <1>2 DEF Inv, Package!ReadsAnsweredOnce
<1> QED
  BY <1>2, <1>3 DEF Inv, Package!NothingReadsIntoClosedSource

(* Nothing is read before the sources are opened.                          *)
LEMMA InitInv == Package!Init => Inv
PROOF
<1> SUFFICES ASSUME Package!Init PROVE Inv
  OBVIOUS
<1>1. Package!ReadTypes
  BY DEF Package!Init, Package!ReadTypes, Package!FreeSlot
<1>2. Package!InFlight = {}
  BY DEF Package!Init, Package!InFlight, Package!FreeSlot
<1>3. \A r \in Reads : ~Package!Held(r) /\ ~Package!IsPosted(r)
  BY <1>2 DEF Package!Init, Package!Held, Package!IsPosted
<1>4. Package!ReadsAnsweredOnce
  BY <1>1, <1>2, <1>3 DEF Package!Init, Package!ReadsAnsweredOnce
<1>5. requests = {s \in ReadSlots : operations[s].state = "reading"}
  BY DEF Package!Init, Package!FreeSlot
<1> QED
  BY <1>2, <1>4, <1>5 DEF Inv, Package!NothingReadsIntoClosedSource

(* Every step of the sources, the port and the teardown keeps the two.     *)
LEMMA NextInv == Inv /\ [Package!Next]_(Package!vars) => Inv'
PROOF
<1> SUFFICES ASSUME Inv, [Package!Next]_(Package!vars) PROVE Inv'
  OBVIOUS
<1>1. Package!ReadTypes
  BY DEF Inv, Package!ReadsAnsweredOnce
<1>2. file \in {"absent", "closed", "destroyed"} => Package!InFlight = {}
  BY DEF Inv, Package!NothingReadsIntoClosedSource
<1>3. CASE Package!Open
  BY <1>1, <1>2, <1>3, IdleKeepsReads DEF Package!Open, Package!ReadTypes
<1>4. ASSUME NEW r \in Reads, Package!Read(r) PROVE Inv'
  <2>1. CASE Package!ReadWithoutCallback(r)
    BY <2>1, RefusalKeepsReads DEF Package!ReadWithoutCallback
  <2>2. CASE Package!ReadClosed(r)
    BY <2>2, DeliverKeepsReads DEF Package!ReadClosed
  <2>3. CASE Package!ReadExhausted(r)
    BY <2>3, RefusalKeepsReads DEF Package!ReadExhausted
  <2>4. ASSUME NEW good \in BOOLEAN, Package!ReadAtOnce(r, good) PROVE Inv'
    BY <2>4, DeliverKeepsReads DEF Package!ReadAtOnce
  <2>5. ASSUME NEW good \in BOOLEAN, Package!MemoryRead(r, good) PROVE Inv'
    <3>1. Package!Deliver(r, good, "accepted") \/ Package!Deliver(r, FALSE, "closed")
      BY <2>5 DEF Package!MemoryRead
    <3> QED
      BY <2>5, <3>1, DeliverKeepsReads DEF Package!MemoryRead
  <2>6. ASSUME NEW s \in ReadSlots, Package!ReadStart(r, s) PROVE Inv'
    BY <2>6, ReadStartKeepsReads
  <2> QED
    BY <1>4, <2>1, <2>2, <2>3, <2>4, <2>5, <2>6 DEF Package!Read
<1>5. ASSUME NEW s \in ReadSlots, NEW complete \in BOOLEAN, Package!OnRead(s, complete) PROVE Inv'
  BY <1>5, OnReadKeepsReads
<1>6. CASE Package!ServiceCompletions
  <2>1. PICK D \in Package!Deliverable : Serves(D)
    BY <1>6 DEF Package!ServiceCompletions, Serves
  <2>2. file' = file /\ file' \in {"absent", "open", "closing", "closed", "destroyed"}
    BY <1>1, <1>6 DEF Package!ServiceCompletions, Package!ReadTypes
  <2>3. /\ Package!ReadsAnsweredOnce'
        /\ requests' = {s \in ReadSlots : operations'[s].state = "reading"}
        /\ Package!InFlight' = Package!InFlight \ D
    BY <2>1, <2>2, ServesKeepsReads
  <2> QED
    BY <1>2, <2>2, <2>3 DEF Inv, Package!NothingReadsIntoClosedSource
<1>7. CASE Package!Close
  BY <1>1, <1>7, IdleKeepsReads DEF Package!Close, Package!Busy, Package!ReadTypes
<1>8. CASE Package!Teardown
  <2>1. PICK D \in Package!Deliverable : Serves(D)
            /\ file' = IF Package!Busy(D) THEN "closing" ELSE "destroyed"
    BY <1>8 DEF Package!Teardown, Serves
  <2>2. /\ Package!ReadsAnsweredOnce'
        /\ requests' = {s \in ReadSlots : operations'[s].state = "reading"}
        /\ Package!InFlight' = Package!InFlight \ D
    BY <2>1, ServesKeepsReads
  <2>3. file' \in {"absent", "closed", "destroyed"} => Package!InFlight' = {}
    BY <2>1, <2>2 DEF Package!Busy
  <2> QED
    BY <2>2, <2>3 DEF Inv, Package!NothingReadsIntoClosedSource
<1>9. CASE Package!MemoryClose
  BY <1>1, <1>2, <1>9, IdleKeepsReads DEF Package!MemoryClose, Package!ReadTypes
<1>10. ASSUME NEW d \in posted, Package!PortRun(d) PROVE Inv'
  BY <1>10, PortRunKeepsReads
<1>11. CASE Package!PortStop
  BY <1>1, <1>2, <1>11, IdleKeepsReads DEF Package!PortStop, Package!ReadTypes
<1>12. CASE UNCHANGED Package!vars
  BY <1>1, <1>2, <1>12, IdleKeepsReads DEF Package!vars, Package!ReadTypes
<1> QED
  BY <1>3, <1>4, <1>5, <1>6, <1>7, <1>8, <1>9, <1>10, <1>11, <1>12 DEF Package!Next

(* Both hold in every behaviour of the sources.                            *)
LEMMA Invariance == Package!Spec => []Inv
  BY InitInv, NextInv, PTL DEF Package!Spec

(* The instance's names are those of PackageReads.                         *)
LEMMA InvSays == Inv => ReadsAnsweredOnce /\ NothingReadsIntoClosedSource
PROOF
<1>1. /\ Package!InFlight = InFlight
      /\ Package!ReadTypes <=> ReadTypes
      /\ \A r : (Package!Held(r) <=> Held(r)) /\ (Package!IsPosted(r) <=> IsPosted(r))
  BY Zenon DEF Package!InFlight, InFlight, Package!ReadTypes, ReadTypes, Package!Held, Held,
    Package!IsPosted, IsPosted
<1>2. Package!ReadsAnsweredOnce <=> ReadsAnsweredOnce
  BY <1>1, Zenon DEF Package!ReadsAnsweredOnce, ReadsAnsweredOnce
<1>3. Package!NothingReadsIntoClosedSource <=> NothingReadsIntoClosedSource
  BY <1>1, Zenon DEF Package!NothingReadsIntoClosedSource, NothingReadsIntoClosedSource
<1> QED
  BY <1>2, <1>3 DEF Inv

(* Every read is in one place and called back at most once, and one that   *)
(* was refused never is, for any number of reads, slots and any port.      *)
THEOREM EveryReadOnce == Package!Spec => []ReadsAnsweredOnce
PROOF
<1>1. Inv => ReadsAnsweredOnce
  BY InvSays
<1> QED
  BY <1>1, Invariance, PTL

(* libuv never holds a request of a source that is closed or destroyed.    *)
THEOREM ClosedSourceIsNotRead == Package!Spec => []NothingReadsIntoClosedSource
PROOF
<1>1. Inv => NothingReadsIntoClosedSource
  BY InvSays
<1> QED
  BY <1>1, Invariance, PTL

=============================================================================
