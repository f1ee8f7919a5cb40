--------------------------- MODULE MountHostProofs ---------------------------
(***************************************************************************)
(* Fonts are counted, callbacks are told only of nodes that are there, a   *)
(* closed host is empty, and a transaction is done as a whole or not at    *)
(* all, for every set of transactions, every number of objects, fonts,     *)
(* handlers and batches, and wherever LVGL refuses.  What each operation   *)
(* keeps is shown once (Keeps), and what it does to the tree (Tracks); a   *)
(* transaction is any number of them, so the argument is an induction.     *)
(***************************************************************************)
EXTENDS MountHost, FiniteSetTheorems, WellFoundedInduction, TLAPS

Fields ==
  {"type", "attached", "parent", "font", "min", "max", "selected", "items", "image"}

IsObject(o) == DOMAIN o = Fields /\ o.type \in Types /\ o.font \in Fonts \cup {NoFont}

Shaped(h) ==
  /\ DOMAIN h = {"object", "font", "bound", "stray", "decoded"}
  /\ DOMAIN h.object = Keys
  /\ \A k \in Live(h) : IsObject(h.object[k])
  /\ h.font \in [Fonts -> [size : Int, references : Int]]
  /\ h.bound \subseteq Kinds \X Surfaces \X Nodes
  /\ h.stray = {}
  /\ IsFiniteSet(Live(h))

(* The objects drawn with a font, and the slots that count them as long as *)
(* finishClose has not reset the slots.                                    *)
Users(h, f) == {k \in Live(h) : h.object[k].font = f}

Counted(h) ==
  /\ closed \/ \A f \in Fonts : h.font[f].references = Cardinality(Users(h, f))
  /\ \A f, g \in Fonts : f # g /\ h.font[f].size # 0 => h.font[f].size # h.font[g].size

(* Every handler names an object that is there and that it fits.           *)
Heard(h) ==
  \A b \in h.bound :
    <<b[2], b[3]>> \in Live(h) /\ Fits(b[1], h.object[<<b[2], b[3]>>].type)

(* Texts have a font, views none; but for the objects X, which a failed    *)
(* operation may have left half made.                                      *)
Drawn(h, X) == \A k \in Live(h) \ X : h.object[k].font = NoFont <=> h.object[k].type = "view"

Keeps(h, X) == Shaped(h) /\ Counted(h) /\ Heard(h) /\ Drawn(h, X)

(***************************************************************************)
(* Induction and minima                                                    *)
(***************************************************************************)
LEMMA NatSet ==
  ASSUME NEW S, 0 \in S, \A n \in Nat : n \in S => n + 1 \in S
  PROVE  Nat \subseteq S
PROOF
<1> DEFINE T == Nat \ S
<1> SUFFICES ASSUME T # {} PROVE FALSE
  OBVIOUS
<1>1. \E x \in T : \A y \in T : ~(<<y, x>> \in OpToRel(<, Nat))
  <2>1. T \subseteq Nat /\ T # {}
    OBVIOUS
  <2> HIDE DEF T
  <2> QED
    BY <2>1, NatLessThanWellFounded, WFMin
<1>2. PICK x \in T : \A y \in T : ~(<<y, x>> \in OpToRel(<, Nat))
  BY <1>1
<1>3. x \in Nat /\ x - 1 \in Nat /\ x - 1 \in T /\ x - 1 < x
  OBVIOUS
<1>4. <<x - 1, x>> \in OpToRel(<, Nat)
  BY <1>3, Zenon DEF OpToRel
<1> QED
  BY <1>2, <1>3, <1>4

(* The least of some numbers is one of them.                               *)
LEMMA SlotMinIsMember ==
  ASSUME NEW S \in SUBSET Nat, S # {}
  PROVE  SlotMin(S) \in S
PROOF
<1>1. PICK n \in S : \A k \in S : ~(<<k, n>> \in OpToRel(<, Nat))
  BY NatLessThanWellFounded, WFMin
<1>2. ASSUME NEW k \in S PROVE n <= k
  <2>1. k \in Nat /\ n \in Nat
    OBVIOUS
  <2>2. <<k, n>> \in OpToRel(<, Nat) <=> k < n
    BY <2>1, Zenon DEF OpToRel
  <2>3. ~(k < n)
    BY <1>1, <2>2, Zenon
  <2> QED
    BY <2>1, <2>3
<1> QED
  BY <1>2 DEF SlotMin

(***************************************************************************)
(* One object changes, and its type and font do not                        *)
(***************************************************************************)
WithObject(h, k, o) == [h EXCEPT !.object[k] = o]

(* What putting an object in a slot changes, and what it does not.         *)
LEMMA WithObjectFacts ==
  ASSUME NEW h, Shaped(h), NEW k \in Keys, NEW o, IsObject(o)
  PROVE  LET g == WithObject(h, k, o)
         IN  /\ DOMAIN g = DOMAIN h /\ DOMAIN g.object = Keys
             /\ g.object[k] = o /\ \A j \in Keys \ {k} : g.object[j] = h.object[j]
             /\ g.font = h.font /\ g.bound = h.bound /\ g.stray = h.stray
             /\ Live(g) = Live(h) \cup {k}
PROOF
<1> DEFINE g == WithObject(h, k, o)
<1>1. o # NoObject
  BY DEF IsObject, NoObject, Types
<1>2. /\ DOMAIN g = DOMAIN h /\ DOMAIN g.object = Keys
      /\ g.object[k] = o /\ \A j \in Keys \ {k} : g.object[j] = h.object[j]
      /\ g.font = h.font /\ g.bound = h.bound /\ g.stray = h.stray
  BY DEF WithObject, Shaped
<1> HIDE DEF g
<1>3. Live(g) = Live(h) \cup {k}
  BY <1>1, <1>2 DEF Live
<1> QED
  BY <1>2, <1>3 DEF g

Alike(h, g) ==
  /\ DOMAIN g = DOMAIN h /\ DOMAIN g.object = DOMAIN h.object
  /\ Live(g) = Live(h)
  /\ \A k \in Live(h) : /\ IsObject(g.object[k])
                       /\ g.object[k].type = h.object[k].type
                       /\ g.object[k].font = h.object[k].font
  /\ g.font = h.font /\ g.bound = h.bound /\ g.stray = h.stray

(* No object but that of k changes; no object of another surface than s.   *)
Beside(h, g, k) == \A j \in Keys \ {k} : g.object[j] = h.object[j]
Apart(h, g, s)  == \A j \in Keys : j[1] # s => g.object[j] = h.object[j]

(* A host with the same objects, by type and font, the same fonts and the  *)
(* same handlers keeps what the other keeps.                               *)
LEMMA AlikeKeeps ==
  ASSUME NEW h, NEW g, NEW X, Keeps(h, X), Alike(h, g)
  PROVE  Keeps(g, X)
PROOF
<1>1. Shaped(g)
  BY DEF Keeps, Alike, Shaped
<1>2. \A f : Users(g, f) = Users(h, f)
  BY DEF Alike, Users
<1>3. Counted(g)
  BY <1>2 DEF Keeps, Alike, Counted
<1>4. Heard(g)
  BY DEF Keeps, Alike, Heard
<1>5. Drawn(g, X)
  BY DEF Keeps, Alike, Drawn
<1> QED
  BY <1>1, <1>3, <1>4, <1>5 DEF Keeps

(* The three relations between hosts compose.                              *)
LEMMA AlikeTrans ==
  ASSUME NEW h, NEW g, NEW i, Alike(h, g), Alike(g, i)
  PROVE  Alike(h, i)
BY DEF Alike

LEMMA BesideTrans ==
  ASSUME NEW h, NEW g, NEW i, NEW k, Beside(h, g, k), Beside(g, i, k)
  PROVE  Beside(h, i, k)
BY DEF Beside

LEMMA ApartTrans ==
  ASSUME NEW h, NEW g, NEW i, NEW s, Apart(h, g, s), Apart(g, i, s)
  PROVE  Apart(h, i, s)
BY DEF Apart

(* What leaves all objects but one leaves the other surfaces.              *)
LEMMA BesideIsApart ==
  ASSUME NEW h, NEW g, NEW s, NEW n, Beside(h, g, <<s, n>>)
  PROVE  Apart(h, g, s)
BY DEF Beside, Apart

(* Nothing changed is alike.                                               *)
LEMMA AlikeItself ==
  ASSUME NEW h, Shaped(h)
  PROVE  Alike(h, h) /\ \A k : Beside(h, h, k)
BY DEF Alike, Shaped, Beside

(* An object that keeps its type and its font may change otherwise.        *)
LEMMA ChangedIsAlike ==
  ASSUME NEW h, Shaped(h), NEW k \in Live(h), NEW o, IsObject(o),
         o.type = h.object[k].type, o.font = h.object[k].font
  PROVE  /\ Alike(h, WithObject(h, k, o)) /\ Shaped(WithObject(h, k, o))
         /\ Beside(h, WithObject(h, k, o), k)
PROOF
<1> DEFINE g == WithObject(h, k, o)
<1>1. k \in Keys
  BY DEF Live
<1>2. /\ DOMAIN g = DOMAIN h /\ DOMAIN g.object = Keys
      /\ g.object[k] = o /\ \A j \in Keys \ {k} : g.object[j] = h.object[j]
      /\ g.font = h.font /\ g.bound = h.bound /\ g.stray = h.stray
      /\ Live(g) = Live(h) \cup {k}
  BY <1>1, WithObjectFacts
<1> HIDE DEF g
<1>3. Live(g) = Live(h) /\ \A j \in Live(h) : j \in Keys
  BY <1>2 DEF Live
<1>4. \A j \in Live(h) : /\ IsObject(g.object[j])
                        /\ g.object[j].type = h.object[j].type
                        /\ g.object[j].font = h.object[j].font
  BY <1>2, <1>3 DEF Shaped
<1>5. Alike(h, g)
  BY <1>2, <1>3, <1>4 DEF Alike, Shaped
<1>6. Shaped(g)
  BY <1>2, <1>3, <1>4 DEF Shaped
<1>7. Beside(h, g, k)
  BY <1>2 DEF Beside
<1> QED
  BY <1>5, <1>6, <1>7 DEF g

(* A field other than the type and the font is set.                        *)
LEMMA FieldSet ==
  ASSUME NEW h, Shaped(h), NEW k \in Live(h), NEW field \in Fields \ {"type", "font"}, NEW v
  PROVE  LET g == WithObject(h, k, [h.object[k] EXCEPT ![field] = v])
         IN  Alike(h, g) /\ Shaped(g) /\ Beside(h, g, k)
PROOF
<1> DEFINE o == [h.object[k] EXCEPT ![field] = v]
<1>1. IsObject(h.object[k])
  BY DEF Shaped
<1>2. IsObject(o) /\ o.type = h.object[k].type /\ o.font = h.object[k].font
  BY <1>1 DEF IsObject, Fields
<1> HIDE DEF o
<1>3. /\ Alike(h, WithObject(h, k, o)) /\ Shaped(WithObject(h, k, o))
      /\ Beside(h, WithObject(h, k, o), k)
  BY <1>2, ChangedIsAlike
<1> QED
  BY <1>3 DEF o

(* The properties that hold no font (setRange, setItems, setSelected).     *)
LEMMA RangePropAlike ==
  ASSUME NEW h, Shaped(h), NEW k \in Live(h), NEW name, NEW value
  PROVE  LET g == RangeProp(h, k, name, value).host IN Alike(h, g) /\ Beside(h, g, k)
PROOF
<1>1. \A field \in {"min", "max"} :
        LET g == WithObject(h, k, [h.object[k] EXCEPT ![field] = value])
        IN  Alike(h, g) /\ Beside(h, g, k)
  BY FieldSet DEF Fields
<1>2. /\ [h EXCEPT !.object[k].min = value]
           = WithObject(h, k, [h.object[k] EXCEPT !["min"] = value])
      /\ [h EXCEPT !.object[k].max = value]
           = WithObject(h, k, [h.object[k] EXCEPT !["max"] = value])
  BY DEF WithObject
<1>3. \E g : (RangeProp(h, k, name, value) = Done(g) \/ RangeProp(h, k, name, value) = Broken(g))
             /\ Alike(h, g) /\ Beside(h, g, k)
  BY <1>1, <1>2, Zenon DEF RangeProp
<1> QED
  BY <1>3 DEF Done, Broken

LEMMA ItemsPropAlike ==
  ASSUME NEW h, Shaped(h), NEW k \in Live(h), NEW count
  PROVE  LET g == ItemsProp(h, k, count).host IN Alike(h, g) /\ Beside(h, g, k)
PROOF
<1>1. LET g == WithObject(h, k, [h.object[k] EXCEPT !["items"] = count])
      IN  Alike(h, g) /\ Beside(h, g, k)
  BY FieldSet DEF Fields
<1>2. [h EXCEPT !.object[k].items = count]
      = WithObject(h, k, [h.object[k] EXCEPT !["items"] = count])
  BY DEF WithObject
<1>3. \E g : (ItemsProp(h, k, count) = Done(g) \/ ItemsProp(h, k, count) = Broken(g))
             /\ Alike(h, g) /\ Beside(h, g, k)
  BY <1>1, <1>2, Zenon DEF ItemsProp
<1> QED
  BY <1>3 DEF Done, Broken

LEMMA SelectedPropAlike ==
  ASSUME NEW h, Shaped(h), NEW k \in Live(h), NEW choice
  PROVE  LET g == SelectedProp(h, k, choice).host IN Alike(h, g) /\ Beside(h, g, k)
PROOF
<1>1. LET g == WithObject(h, k, [h.object[k] EXCEPT !["selected"] = choice])
      IN  Alike(h, g) /\ Beside(h, g, k)
  BY FieldSet DEF Fields
<1>2. [h EXCEPT !.object[k].selected = choice]
      = WithObject(h, k, [h.object[k] EXCEPT !["selected"] = choice])
  BY DEF WithObject
<1>3. \E g : (SelectedProp(h, k, choice) = Done(g) \/ SelectedProp(h, k, choice) = Broken(g))
             /\ Alike(h, g) /\ Beside(h, g, k)
  BY <1>1, <1>2, Zenon DEF SelectedProp
<1> QED
  BY <1>3 DEF Done, Broken

WithPixels(h, pixels) == [h EXCEPT !.decoded = pixels]

(* Decoded images are none of the objects.                                 *)
LEMMA WithPixelsAlike ==
  ASSUME NEW h, Shaped(h), NEW pixels
  PROVE  /\ Alike(h, WithPixels(h, pixels)) /\ Shaped(WithPixels(h, pixels))
         /\ WithPixels(h, pixels).object = h.object
PROOF
<1> DEFINE g == WithPixels(h, pixels)
<1>1. /\ DOMAIN g = DOMAIN h /\ g.object = h.object /\ g.font = h.font
      /\ g.bound = h.bound /\ g.stray = h.stray
  BY DEF WithPixels, Shaped
<1> HIDE DEF g
<1>2. Live(g) = Live(h)
  BY <1>1 DEF Live
<1> QED
  BY <1>1, <1>2 DEF Alike, Shaped, g

(* Setting the source of an image.                                         *)
LEMMA ImagePropAlike ==
  ASSUME NEW h, Shaped(h), NEW k \in Live(h)
  PROVE  LET g == ImageProp(h, k).host IN Alike(h, g) /\ Beside(h, g, k)
PROOF
<1> DEFINE pixels == IF h.decoded # 0 THEN h.decoded ELSE resource
           g == WithPixels(h, pixels)
           i == WithObject(g, k, [g.object[k] EXCEPT !["image"] = pixels])
<1>1. Alike(h, g) /\ Shaped(g) /\ g.object = h.object
  BY WithPixelsAlike
<1>2. [h EXCEPT !.decoded = pixels, !.object[k].image = pixels] = i
  BY DEF WithObject, WithPixels
<1> HIDE DEF pixels, g
<1>3. k \in Live(g)
  BY <1>1 DEF Alike
<1>4. Alike(g, i) /\ Beside(g, i, k)
  BY <1>1, <1>3, FieldSet DEF Fields
<1>5. Alike(h, i) /\ Beside(h, i, k)
  BY <1>1, <1>4, AlikeTrans DEF Beside
<1>6. ImageProp(h, k) = Broken(h) \/ ImageProp(h, k) = Done(i)
  BY <1>2, Zenon DEF ImageProp, pixels
<1> QED
  BY <1>5, <1>6, AlikeItself DEF Done, Broken

(* Insertions and moves change the parent of an object alone.              *)
LEMMA InsertOpAlike ==
  ASSUME NEW h, Shaped(h), NEW s, NEW n, NEW parent
  PROVE  LET g == InsertOp(h, s, n, parent).host IN Alike(h, g) /\ Apart(h, g, s)
PROOF
<1> DEFINE k == <<s, n>>
           g == WithObject(h, k, [h.object[k] EXCEPT !["parent"] = parent])
           i == WithObject(g, k, [g.object[k] EXCEPT !["attached"] = TRUE])
<1>1. CASE ~Found(h, s, n)
  BY <1>1, AlikeItself, BesideIsApart DEF InsertOp, Broken
<1>2. CASE Found(h, s, n)
  <2>1. k \in Live(h)
    BY <1>2 DEF Found
  <2>2. Alike(h, g) /\ Shaped(g) /\ Beside(h, g, k)
    BY <2>1, FieldSet DEF Fields
  <2>3. [h EXCEPT !.object[<<s, n>>].parent = parent, !.object[<<s, n>>].attached = TRUE] = i
    BY DEF WithObject
  <2> HIDE DEF g
  <2>4. k \in Live(g)
    BY <2>1, <2>2 DEF Alike
  <2>5. Alike(g, i) /\ Beside(g, i, k)
    BY <2>2, <2>4, FieldSet DEF Fields
  <2>6. Alike(h, i) /\ Apart(h, i, s)
    BY <2>2, <2>5, AlikeTrans, BesideTrans, BesideIsApart
  <2>7. InsertOp(h, s, n, parent) = Broken(h) \/ InsertOp(h, s, n, parent) = Done(i)
    BY <2>3, Zenon DEF InsertOp
  <2> QED
    BY <2>6, <2>7, AlikeItself, BesideIsApart DEF Done, Broken
<1> QED
  BY <1>1, <1>2

LEMMA MoveOpAlike ==
  ASSUME NEW h, Shaped(h), NEW s, NEW n, NEW parent
  PROVE  LET g == MoveOp(h, s, n, parent).host IN Alike(h, g) /\ Apart(h, g, s)
PROOF
<1> DEFINE k == <<s, n>>
           g == WithObject(h, k, [h.object[k] EXCEPT !["parent"] = parent])
<1>1. CASE ~Found(h, s, n)
  BY <1>1, AlikeItself, BesideIsApart DEF MoveOp, Broken
<1>2. CASE Found(h, s, n)
  <2>1. k \in Live(h)
    BY <1>2 DEF Found
  <2>2. Alike(h, g) /\ Apart(h, g, s)
    BY <2>1, FieldSet, BesideIsApart DEF Fields
  <2>3. [h EXCEPT !.object[<<s, n>>].parent = parent] = g
    BY DEF WithObject
  <2>4. MoveOp(h, s, n, parent) = Broken(h) \/ MoveOp(h, s, n, parent) = Done(g)
    BY <2>3, Zenon DEF MoveOp
  <2> QED
    BY <2>2, <2>4, AlikeItself, BesideIsApart DEF Done, Broken
<1> QED
  BY <1>1, <1>2

(***************************************************************************)
(* Fonts                                                                   *)
(***************************************************************************)
LEMMA FontForFacts ==
  ASSUME NEW h, Shaped(h), NEW size, FontFor(h, size) # NoFont
  PROVE  /\ FontFor(h, size) \in Fonts
         /\ \/ h.font[FontFor(h, size)].size = size
            \/ /\ h.font[FontFor(h, size)].size = 0
               /\ \A g \in Fonts : h.font[g].size # size
PROOF
<1> DEFINE same  == {f \in Fonts : h.font[f].size = size}
           fresh == {f \in Fonts : h.font[f].size = 0}
<1>1. same \in SUBSET Nat /\ fresh \in SUBSET Nat
  BY MountAssumption DEF Fonts
<1>2. CASE same # {}
  <2>1. FontFor(h, size) = SlotMin(same)
    BY <1>2 DEF FontFor
  <2>2. SlotMin(same) \in same
    BY <1>1, <1>2, SlotMinIsMember
  <2> QED
    BY <2>1, <2>2
<1>3. CASE same = {}
  <2>1. fresh # {} /\ FontFor(h, size) = SlotMin(fresh)
    BY <1>3 DEF FontFor
  <2>2. SlotMin(fresh) \in fresh
    BY <1>1, <2>1, SlotMinIsMember
  <2> QED
    BY <1>3, <2>1, <2>2
<1> QED
  BY <1>2, <1>3

(* One more object is drawn with f, of that size, and one less with old.   *)
Retained(h, f, size, old) == Released(Acquired(h, f, size), old)

(* What taking one font and giving another back leaves.                    *)
LEMMA RetainedFacts ==
  ASSUME NEW h, Shaped(h), NEW f \in Fonts, NEW size \in Int, NEW old \in Fonts \cup {NoFont}
  PROVE  LET g == Retained(h, f, size, old)
         IN  /\ DOMAIN g = DOMAIN h /\ g.object = h.object
             /\ g.bound = h.bound /\ g.stray = h.stray
             /\ g.font \in [Fonts -> [size : Int, references : Int]]
             /\ \A e \in Fonts :
                  /\ g.font[e].size = IF e = f THEN size ELSE h.font[e].size
                  /\ g.font[e].references = h.font[e].references + (IF e = f THEN 1 ELSE 0)
                                                                 - (IF e = old THEN 1 ELSE 0)
PROOF
<1> DEFINE slots == [h.font EXCEPT ![f] = [size |-> size, references |-> @.references + 1]]
           less  == [slots EXCEPT ![old].references = @ - 1]
<1>1. NoFont \notin Fonts
  BY DEF NoFont, Fonts
<1>2. /\ slots \in [Fonts -> [size : Int, references : Int]]
      /\ \A e \in Fonts :
           /\ slots[e].size = IF e = f THEN size ELSE h.font[e].size
           /\ slots[e].references = h.font[e].references + (IF e = f THEN 1 ELSE 0)
  BY DEF Shaped
<1>3. /\ DOMAIN Acquired(h, f, size) = DOMAIN h /\ Acquired(h, f, size).object = h.object
      /\ Acquired(h, f, size).bound = h.bound /\ Acquired(h, f, size).stray = h.stray
      /\ Acquired(h, f, size).font = slots
  BY DEF Shaped, Acquired
<1> HIDE DEF slots
<1>4. CASE old = NoFont
  BY <1>1, <1>2, <1>3, <1>4 DEF Retained, Released
<1>5. CASE old \in Fonts
  <2>1. /\ less \in [Fonts -> [size : Int, references : Int]]
        /\ \A e \in Fonts :
             /\ less[e].size = slots[e].size
             /\ less[e].references = slots[e].references - (IF e = old THEN 1 ELSE 0)
    BY <1>2, <1>5
  <2>2. Retained(h, f, size, old) = [Acquired(h, f, size) EXCEPT !.font[old].references = @ - 1]
    BY <1>1, <1>5 DEF Retained, Released
  <2>3. LET g == Retained(h, f, size, old)
        IN  /\ DOMAIN g = DOMAIN h /\ g.object = h.object
            /\ g.bound = h.bound /\ g.stray = h.stray /\ g.font = less
    <3> DEFINE a == Acquired(h, f, size)
    <3>1. /\ DOMAIN a = {"object", "font", "bound", "stray", "decoded"} /\ a.font = slots
          /\ old \in DOMAIN slots
      BY <1>2, <1>3, <1>5 DEF Shaped
    <3>2. Retained(h, f, size, old) = [a EXCEPT !.font = [a.font EXCEPT ![old].references = @ - 1]]
      BY <2>2
    <3> HIDE DEF a
    <3>3. Retained(h, f, size, old) = [a EXCEPT !.font = less]
      BY <3>1, <3>2
    <3> HIDE DEF less
    <3>4. LET g == [a EXCEPT !.font = less]
          IN  /\ DOMAIN g = DOMAIN a /\ g.object = a.object
              /\ g.bound = a.bound /\ g.stray = a.stray /\ g.font = less
      BY <3>1
    <3> QED
      BY <1>3, <3>3, <3>4 DEF a
  <2> HIDE DEF less
  <2> DEFINE g == Retained(h, f, size, old)
  <2>4. \A e \in Fonts :
          /\ less[e].size = IF e = f THEN size ELSE h.font[e].size
          /\ less[e].references = h.font[e].references + (IF e = f THEN 1 ELSE 0)
                                                       - (IF e = old THEN 1 ELSE 0)
    <3> TAKE e \in Fonts
    <3>1. h.font[e].references \in Int
      BY DEF Shaped
    <3>2. slots[e].references = h.font[e].references + (IF e = f THEN 1 ELSE 0)
      BY <1>2
    <3>3. less[e].references = slots[e].references - (IF e = old THEN 1 ELSE 0)
      BY <2>1
    <3> QED
      BY <1>2, <2>1, <3>1, <3>2, <3>3
  <2> QED
    BY <2>1, <2>3, <2>4, Zenon
<1> QED
  BY <1>4, <1>5

(* The object k gets a font of that size and gives its old one back.       *)
LEMMA WithFontKeeps ==
  ASSUME NEW h, NEW X, Keeps(h, X), NEW k \in Live(h), h.object[k].type # "view",
         NEW size \in Int
  PROVE  LET r == WithFont(h, k, size)
         IN  /\ Keeps(r.host, IF r.ok THEN X \ {k} ELSE X)
             /\ Live(r.host) = Live(h) /\ Beside(h, r.host, k)
PROOF
<1> DEFINE f   == FontFor(h, size)
           old == h.object[k].font
           g   == Retained(h, f, size, old)
           o   == [g.object[k] EXCEPT !.font = f]
           i   == WithObject(g, k, o)
<1>1. CASE f = NoFont
  BY <1>1 DEF WithFont, Broken, Beside
<1>2. CASE f # NoFont
  <2>1. /\ f \in Fonts
        /\ \/ h.font[f].size = size
           \/ h.font[f].size = 0 /\ \A e \in Fonts : h.font[e].size # size
    BY <1>2, FontForFacts DEF Keeps
  <2>2. IsObject(h.object[k]) /\ old \in Fonts \cup {NoFont} /\ k \in Keys
    BY DEF Keeps, Shaped, IsObject, Live
  <2>3. WithFont(h, k, size) = Done(i)
    BY <1>2 DEF WithFont, Retained, WithObject
  <2> HIDE DEF f
  <2>4. /\ DOMAIN g = DOMAIN h /\ g.object = h.object
        /\ g.bound = h.bound /\ g.stray = h.stray
        /\ g.font \in [Fonts -> [size : Int, references : Int]]
        /\ \A e \in Fonts :
             /\ g.font[e].size = IF e = f THEN size ELSE h.font[e].size
             /\ g.font[e].references = h.font[e].references + (IF e = f THEN 1 ELSE 0)
                                                            - (IF e = old THEN 1 ELSE 0)
    BY <2>1, <2>2, RetainedFacts DEF Keeps
  <2> HIDE DEF g
  <2>5. Live(g) = Live(h)
    BY <2>4 DEF Live
  <2>6. Shaped(g)
    BY <2>4, <2>5 DEF Keeps, Shaped
  <2>7. IsObject(o) /\ o.type = h.object[k].type /\ o.font = f
    BY <2>1, <2>2, <2>4 DEF IsObject, Fields
  <2> HIDE DEF o
  <2>8. /\ DOMAIN i = DOMAIN g /\ DOMAIN i.object = Keys
        /\ i.object[k] = o /\ \A j \in Keys \ {k} : i.object[j] = g.object[j]
        /\ i.font = g.font /\ i.bound = g.bound /\ i.stray = g.stray
        /\ Live(i) = Live(g) \cup {k}
    BY <2>2, <2>6, <2>7, WithObjectFacts
  <2> HIDE DEF i
  <2>9. Live(i) = Live(h) /\ \A j \in Live(h) : j \in Keys
    BY <2>5, <2>8 DEF Live
  <2>10. \A j \in Live(h) : /\ IsObject(i.object[j])
                           /\ i.object[j].type = h.object[j].type
                           /\ i.object[j].font = IF j = k THEN f ELSE h.object[j].font
    BY <2>4, <2>7, <2>8, <2>9 DEF Keeps, Shaped
  <2>11. Shaped(i)
    BY <2>5, <2>6, <2>8, <2>9, <2>10, Zenon DEF Shaped
  <2>12. Heard(i)
    BY <2>4, <2>8, <2>9, <2>10 DEF Keeps, Heard
  <2>13. Drawn(i, X \ {k})
    BY <2>1, <2>9, <2>10 DEF Keeps, Drawn, NoFont, Fonts
  <2>14. \A e \in Fonts :
           Users(i, e) = (Users(h, e) \ (IF e = old THEN {k} ELSE {}))
                         \cup (IF e = f THEN {k} ELSE {})
    BY <2>9, <2>10 DEF Users
  <2>15. \A e \in Fonts : IsFiniteSet(Users(h, e)) /\ (k \in Users(h, e) <=> e = old)
    BY FS_Subset DEF Users, Keeps, Shaped
  <2>16. ASSUME ~closed, NEW e \in Fonts PROVE i.font[e].references = Cardinality(Users(i, e))
    <3> DEFINE U == Users(h, e)
    <3>1. i.font[e].references = Cardinality(U) + (IF e = f THEN 1 ELSE 0)
                                                - (IF e = old THEN 1 ELSE 0)
      BY <2>4, <2>8, <2>16 DEF Keeps, Counted
    <3>2. /\ IsFiniteSet(U) /\ IsFiniteSet(U \ {k}) /\ Cardinality(U) \in Nat
          /\ Cardinality(U \ {k}) = IF k \in U THEN Cardinality(U) - 1 ELSE Cardinality(U)
          /\ Cardinality(U \cup {k}) = IF k \in U THEN Cardinality(U) ELSE Cardinality(U) + 1
      BY <2>15, FS_AddElement, FS_RemoveElement, FS_CardinalityType
    <3>3. k \in U <=> e = old
      BY <2>15
    <3>4. Users(i, e) = (U \ (IF e = old THEN {k} ELSE {})) \cup (IF e = f THEN {k} ELSE {})
      BY <2>14
    <3> HIDE DEF U
    <3>5. CASE e = f /\ e = old
      <4>1. Users(i, e) = U
        BY <3>3, <3>4, <3>5
      <4> QED
        BY <3>1, <3>2, <3>5, <4>1
    <3>6. CASE e = f /\ e # old
      <4>1. Users(i, e) = U \cup {k}
        BY <3>3, <3>4, <3>6
      <4> QED
        BY <3>1, <3>2, <3>3, <3>6, <4>1
    <3>7. CASE e # f /\ e = old
      <4>1. Users(i, e) = U \ {k}
        BY <3>3, <3>4, <3>7
      <4> QED
        BY <3>1, <3>2, <3>3, <3>7, <4>1
    <3>8. CASE e # f /\ e # old
      <4>1. Users(i, e) = U
        BY <3>3, <3>4, <3>8
      <4> QED
        BY <3>1, <3>2, <3>8, <4>1
    <3> QED
      BY <3>5, <3>6, <3>7, <3>8
  <2>17. \A d, e \in Fonts : d # e /\ i.font[d].size # 0 => i.font[d].size # i.font[e].size
    BY <2>1, <2>4, <2>8 DEF Keeps, Counted
  <2>18. Keeps(i, X \ {k})
    BY <2>11, <2>12, <2>13, <2>16, <2>17 DEF Keeps, Counted
  <2>19. Beside(h, i, k)
    BY <2>4, <2>8 DEF Beside
  <2> QED
    BY <2>3, <2>9, <2>18, <2>19 DEF Done
<1> QED
  BY <1>1, <1>2

(* A text that changes its size, with and without a font left for it.      *)
LEMMA FontSizePropKeeps ==
  ASSUME NEW h, Keeps(h, {}), NEW k \in Live(h), NEW size \in Int
  PROVE  LET r == FontSizeProp(h, k, size)
         IN  Keeps(r.host, {}) /\ Live(r.host) = Live(h) /\ Beside(h, r.host, k)
PROOF
<1>1. CASE h.object[k].type = "view"
  BY <1>1 DEF FontSizeProp, Broken, Beside
<1>2. CASE h.object[k].font # NoFont /\ h.font[h.object[k].font].size = size
  BY <1>2 DEF FontSizeProp, Broken, Done, Beside
<1>3. CASE ~(h.object[k].type = "view")
           /\ ~(h.object[k].font # NoFont /\ h.font[h.object[k].font].size = size)
  <2>1. FontSizeProp(h, k, size) = WithFont(h, k, size)
    BY <1>3, Zenon DEF FontSizeProp
  <2>2. {} \ {k} = {}
    OBVIOUS
  <2> QED
    BY <1>3, <2>1, <2>2, WithFontKeeps
<1> QED
  BY <1>1, <1>2, <1>3

(* An object is born without a font.                                       *)
LEMMA NewObjectFacts ==
  ASSUME NEW type \in Types, NEW attached
  PROVE  /\ IsObject(NewObject(type, attached))
         /\ NewObject(type, attached).type = type
         /\ NewObject(type, attached).font = NoFont
BY DEF NewObject, IsObject, Fields

(* Creating an object. If it fails the object may be left, a text without  *)
(* its font: the object is exempt until the rollback.                      *)
LEMMA CreateOpKeeps ==
  ASSUME NEW h, Keeps(h, {}), NEW t, NEW i, NEW node \in Nodes, NEW type \in Types,
         t.surface \in Surfaces, t.operations[i].node = node, t.operations[i].type = type,
         <<t.surface, node>> \notin Live(h)
  PROVE  LET r == CreateOp(h, t, i)
         IN  /\ Keeps(r.host, IF r.ok THEN {} ELSE {<<t.surface, node>>})
             /\ Live(r.host) \subseteq Live(h) \cup {<<t.surface, node>>}
             /\ Apart(h, r.host, t.surface)
PROOF
<1> DEFINE k == <<t.surface, node>>
           o == NewObject(type, i = 1 /\ t.mode = "full")
           g == WithObject(h, k, o)
<1>1. k \in Keys /\ k \notin Live(h)
  BY DEF Keys
<1>2. IsObject(o) /\ o.type = type /\ o.font = NoFont
  BY NewObjectFacts
<1>3. CASE Cardinality(Live(h)) = MaxObjects
  <2>1. Keeps(h, {k})
    BY DEF Keeps, Drawn
  <2> QED
    BY <1>3, <2>1 DEF CreateOp, Broken, Apart
<1>4. CASE Cardinality(Live(h)) # MaxObjects
  <2> HIDE DEF o, k
  <2>1. /\ DOMAIN g = DOMAIN h /\ DOMAIN g.object = Keys
        /\ g.object[k] = o /\ \A j \in Keys \ {k} : g.object[j] = h.object[j]
        /\ g.font = h.font /\ g.bound = h.bound /\ g.stray = h.stray
        /\ Live(g) = Live(h) \cup {k}
    BY <1>1, <1>2, WithObjectFacts DEF Keeps
  <2>2. [h EXCEPT !.object[k] = o] = g
    BY DEF WithObject
  <2>3. CreateOp(h, t, i) = IF type = "view" THEN Done(g) ELSE WithFont(g, k, DefaultSize)
    BY <1>4, <2>2 DEF CreateOp, k, o
  <2> HIDE DEF g
  <2>4. \A j \in Live(h) : j \in Keys /\ j # k /\ g.object[j] = h.object[j]
    BY <1>1, <2>1 DEF Live
  <2>5. IsFiniteSet(Live(g))
    BY <2>1, FS_AddElement DEF Keeps, Shaped
  <2>6. Shaped(g)
    BY <1>2, <2>1, <2>4, <2>5 DEF Keeps, Shaped
  <2>7. \A f \in Fonts : Users(g, f) = Users(h, f)
    BY <1>2, <2>1, <2>4 DEF Users, Fonts, NoFont
  <2>8. Counted(g)
    BY <2>1, <2>7 DEF Keeps, Counted
  <2>9. Heard(g)
    BY <2>1, <2>4 DEF Keeps, Heard
  <2>10. Drawn(g, {k}) /\ (type = "view" => Drawn(g, {}))
    BY <1>2, <2>1, <2>4 DEF Keeps, Drawn
  <2>13. Beside(h, g, k)
    BY <2>1 DEF Beside
  <2>11. CASE type = "view"
    <3>1. Keeps(g, {})
      BY <2>6, <2>8, <2>9, <2>10, <2>11 DEF Keeps
    <3> QED
      BY <2>1, <2>3, <2>11, <2>13, <3>1, BesideIsApart DEF Done, k
  <2>12. CASE type # "view"
    <3>1. Keeps(g, {k}) /\ k \in Live(g) /\ g.object[k].type # "view"
      BY <1>2, <2>1, <2>6, <2>8, <2>9, <2>10, <2>12 DEF Keeps
    <3>2. DefaultSize \in Int
      BY MountAssumption
    <3>3. LET r == WithFont(g, k, DefaultSize)
          IN  /\ Keeps(r.host, IF r.ok THEN {k} \ {k} ELSE {k})
              /\ Live(r.host) = Live(g) /\ Beside(g, r.host, k)
      BY <3>1, <3>2, WithFontKeeps
    <3>4. {k} \ {k} = {}
      OBVIOUS
    <3>5. Beside(h, WithFont(g, k, DefaultSize).host, k)
      BY <2>13, <3>3, BesideTrans
    <3> QED
      BY <2>1, <2>3, <2>12, <3>3, <3>4, <3>5, BesideIsApart DEF k
  <2> QED
    BY <2>11, <2>12
<1> QED
  BY <1>3, <1>4

(* What a property that is there to be set keeps.                          *)
LEMMA PropOpKeeps ==
  ASSUME NEW h, Keeps(h, {}), NEW k,
         NEW name \in {"fontSize", "min", "max", "items", "selected", "src"}, NEW value \in Int
  PROVE  LET r == PropOp(h, k, name, value)
         IN  Keeps(r.host, {}) /\ Live(r.host) = Live(h) /\ Beside(h, r.host, k)
PROOF
<1> DEFINE r == PropOp(h, k, name, value)
<1>1. CASE k \notin Live(h)
  BY <1>1 DEF PropOp, Broken, Beside
<1>2. CASE k \in Live(h)
  <2>1. Shaped(h)
    BY DEF Keeps
  <2>2. CASE name = "fontSize"
    <3>1. r = FontSizeProp(h, k, value)
      BY <1>2, <2>2 DEF PropOp
    <3> QED
      BY <1>2, <3>1, FontSizePropKeeps
  <2>3. CASE name # "fontSize"
    <3>1. Alike(h, r.host) /\ Beside(h, r.host, k)
      <4>1. CASE name \in {"min", "max"}
        <5>1. r = RangeProp(h, k, name, value)
          BY <1>2, <4>1 DEF PropOp
        <5> QED
          BY <1>2, <2>1, <5>1, RangePropAlike
      <4>2. CASE name = "items"
        <5>1. r = ItemsProp(h, k, value)
          BY <1>2, <4>2 DEF PropOp
        <5> QED
          BY <1>2, <2>1, <5>1, ItemsPropAlike
      <4>3. CASE name = "selected"
        <5>1. r = SelectedProp(h, k, value)
          BY <1>2, <4>3 DEF PropOp
        <5> QED
          BY <1>2, <2>1, <5>1, SelectedPropAlike
      <4>4. CASE name = "src"
        <5>1. r = ImageProp(h, k)
          BY <1>2, <4>4 DEF PropOp
        <5> QED
          BY <1>2, <2>1, <5>1, ImagePropAlike
      <4> QED
        BY <2>3, <4>1, <4>2, <4>3, <4>4
    <3>2. Live(r.host) = Live(h)
      BY <3>1 DEF Alike
    <3> QED
      BY <3>1, <3>2, AlikeKeeps
  <2> QED
    BY <2>2, <2>3
<1> QED
  BY <1>1, <1>2

(***************************************************************************)
(* Removal                                                                 *)
(***************************************************************************)
(* The first n steps up from k.                                            *)
Climb(h, k, n, up) ==
  up = [d \in 0..n |->
          IF d = 0 THEN {k}
          ELSE up[d - 1] \cup {<<k[1], h.object[j].parent>> :
                                 j \in {i \in up[d - 1] : h.object[i].parent # OnRoot}}]

(* Lineage is defined by recursion on the distance. Climb states that a    *)
(* function satisfies its equations as far as n; one exists for every n.   *)
LEMMA ClimbExists ==
  ASSUME NEW h, NEW k, NEW n \in Nat
  PROVE  \E up : Climb(h, k, n, up)
PROOF
<1> DEFINE S == {m \in Nat : \E up : Climb(h, k, m, up)}
<1>1. 0 \in S
  <2>1. Climb(h, k, 0, [d \in 0..0 |-> {k}])
    BY DEF Climb
  <2> QED
    BY <2>1
<1>2. ASSUME NEW m \in Nat, m \in S PROVE m + 1 \in S
  <2>1. PICK up : Climb(h, k, m, up)
    BY <1>2
  <2> DEFINE Next1(A) == A \cup {<<k[1], h.object[j].parent>> :
                                   j \in {i \in A : h.object[i].parent # OnRoot}}
             more == [d \in 0..(m + 1) |-> IF d <= m THEN up[d] ELSE Next1(up[m])]
  <2>2. \A d \in 0..m : up[d] = IF d = 0 THEN {k} ELSE Next1(up[d - 1])
    BY <2>1 DEF Climb
  <2> HIDE DEF Next1
  <2>3. \A d \in 0..(m + 1) : more[d] = IF d = 0 THEN {k} ELSE Next1(more[d - 1])
    <3> TAKE d \in 0..(m + 1)
    <3>1. CASE d = 0
      BY <2>2, <3>1
    <3>2. CASE d \in 1..m
      <4>1. more[d] = up[d] /\ more[d - 1] = up[d - 1]
        BY <3>2
      <4> QED
        BY <2>2, <3>2, <4>1
    <3>3. CASE d = m + 1
      <4>1. more[d] = Next1(up[m]) /\ more[d - 1] = up[m]
        BY <3>3
      <4> QED
        BY <3>3, <4>1
    <3> QED
      BY <3>1, <3>2, <3>3
  <2>4. more = [d \in 0..(m + 1) |-> IF d = 0 THEN {k} ELSE Next1(more[d - 1])]
    BY <2>3
  <2> HIDE DEF more
  <2>5. Climb(h, k, m + 1, more)
    BY <2>4, Zenon DEF Climb, Next1
  <2> QED
    BY <2>5
<1> HIDE DEF S
<1>3. Nat \subseteq S
  BY <1>1, <1>2, NatSet
<1> QED
  BY <1>3 DEF S

(* An object is in its own lineage.                                        *)
LEMMA LineageStartsHere ==
  ASSUME NEW h, NEW k
  PROVE  k \in Lineage(h, k)
PROOF
<1> DEFINE n  == Cardinality(Nodes)
           up == CHOOSE u : Climb(h, k, n, u)
<1>1. n \in Nat
  BY MountAssumption, FS_CardinalityType
<1> HIDE DEF n
<1>2. Climb(h, k, n, up)
  BY <1>1, ClimbExists, Zenon
<1>3. Lineage(h, k) = up[n]
  BY Zenon DEF Lineage, Climb, n
<1> HIDE DEF up
<1> DEFINE S == {m \in Nat : m <= n => k \in up[m]}
<1>4. 0 \in S
  BY <1>1, <1>2 DEF Climb
<1>5. ASSUME NEW m \in Nat, m \in S PROVE m + 1 \in S
  BY <1>1, <1>2, <1>5 DEF Climb
<1> HIDE DEF S
<1>6. Nat \subseteq S
  BY <1>4, <1>5, NatSet
<1> QED
  BY <1>1, <1>3, <1>6 DEF S

(* And all of it is on its surface.                                        *)
LEMMA LineageStaysOnSurface ==
  ASSUME NEW h, NEW k \in Keys, NEW j \in Lineage(h, k)
  PROVE  j[1] = k[1]
PROOF
<1> DEFINE n  == Cardinality(Nodes)
           up == CHOOSE u : Climb(h, k, n, u)
<1>1. n \in Nat
  BY MountAssumption, FS_CardinalityType
<1> HIDE DEF n
<1>2. Climb(h, k, n, up)
  BY <1>1, ClimbExists, Zenon
<1>3. Lineage(h, k) = up[n]
  BY Zenon DEF Lineage, Climb, n
<1> HIDE DEF up
<1> DEFINE S == {m \in Nat : m <= n => \A i \in up[m] : i[1] = k[1]}
<1>4. 0 \in S
  <2>1. up[0] = {k}
    BY <1>1, <1>2 DEF Climb
  <2> QED
    BY <2>1
<1>5. ASSUME NEW m \in Nat, m \in S PROVE m + 1 \in S
  <2> SUFFICES ASSUME m + 1 <= n, NEW i \in up[m + 1] PROVE i[1] = k[1]
    OBVIOUS
  <2>1. up[m + 1] = up[m] \cup {<<k[1], h.object[l].parent>> :
                                  l \in {x \in up[m] : h.object[x].parent # OnRoot}}
    <3> DEFINE Higher(A) == A \cup {<<k[1], h.object[l].parent>> :
                                      l \in {x \in A : h.object[x].parent # OnRoot}}
    <3>1. m + 1 \in 0..n /\ m + 1 # 0 /\ (m + 1) - 1 = m
      BY <1>1
    <3>2. \A d \in 0..n : up[d] = IF d = 0 THEN {k} ELSE Higher(up[d - 1])
      BY <1>2 DEF Climb
    <3> HIDE DEF Higher
    <3>3. up[m + 1] = Higher(up[(m + 1) - 1])
      BY <3>1, <3>2, Zenon
    <3>4. up[m + 1] = Higher(up[m])
      BY <3>1, <3>3, Zenon
    <3> QED
      BY <3>4 DEF Higher
  <2>2. CASE i \in up[m]
    BY <1>1, <1>5, <2>2
  <2>3. CASE i \notin up[m]
    <3>1. PICK l : i = <<k[1], h.object[l].parent>>
      BY <2>1, <2>3
    <3> QED
      BY <3>1
  <2> QED
    BY <2>2, <2>3
<1> HIDE DEF S
<1>6. Nat \subseteq S
  BY <1>4, <1>5, NatSet
<1> QED
  BY <1>1, <1>3, <1>6 DEF S

(* Fonts are given back by as many objects as go.                          *)
LEMMA FontsBackFacts ==
  ASSUME NEW h, Shaped(h), NEW keys, NEW dead \in SUBSET Live(h)
  PROVE  LET a == FontsBack(h, keys, dead)
         IN  /\ DOMAIN a = DOMAIN h /\ a.object = h.object /\ a.decoded = h.decoded
             /\ a.bound = h.bound /\ a.stray = h.stray
             /\ a.font \in [Fonts -> [size : Int, references : Int]]
             /\ \A f \in Fonts :
                  /\ a.font[f].size = h.font[f].size
                  /\ a.font[f].references =
                       h.font[f].references - Cardinality(Users(h, f) \cap dead)
PROOF
<1> DEFINE given(f) == Cardinality({j \in dead : h.object[j].font = f})
           fonts == [f \in Fonts |-> GivenBack(h, f, dead)]
           a == FontsBack(h, keys, dead)
<1>1. \A f : {j \in dead : h.object[j].font = f} = Users(h, f) \cap dead
  BY DEF Users
<1>2. \A f \in Fonts : given(f) \in Nat
  <2> TAKE f \in Fonts
  <2>1. IsFiniteSet({j \in dead : h.object[j].font = f})
    BY FS_Subset DEF Shaped
  <2> QED
    BY <2>1, FS_CardinalityType
<1>3. \A f \in Fonts : given(f) = Cardinality(Users(h, f) \cap dead)
  BY <1>1
<1>4. a = [h EXCEPT !.font = fonts]
  BY Zenon DEF FontsBack
<1>5. \A f \in Fonts : /\ fonts[f] \in [size : Int, references : Int]
                      /\ fonts[f].size = h.font[f].size
                      /\ fonts[f].references = h.font[f].references - given(f)
  <2> TAKE f \in Fonts
  <2>1. fonts[f] = [h.font[f] EXCEPT !.references = @ - given(f)]
    BY DEF GivenBack
  <2>2. given(f) \in Nat /\ h.font[f] \in [size : Int, references : Int]
    BY <1>2 DEF Shaped
  <2> HIDE DEF given, fonts
  <2> QED
    BY <2>1, <2>2
<1> HIDE DEF given
<1>6. DOMAIN fonts = Fonts /\ fonts \in [Fonts -> [size : Int, references : Int]]
  BY <1>5
<1> HIDE DEF fonts, a
<1>7. /\ DOMAIN a = DOMAIN h /\ a.object = h.object /\ a.font = fonts
      /\ a.bound = h.bound /\ a.stray = h.stray /\ a.decoded = h.decoded
  BY <1>4 DEF Shaped
<1> QED
  BY <1>3, <1>5, <1>6, <1>7, Zenon DEF a

(* What destroying a set of keys leaves, dead being all that goes.         *)
Dead(h, keys) == {j \in Live(h) : Lineage(h, j) \cap keys # {}}

(* destroySlot: what is left of a host when some objects go with all that  *)
(* hangs on them.                                                          *)
LEMMA DestroyFacts ==
  ASSUME NEW h, Shaped(h), NEW keys
  PROVE  LET c == Destroy(h, keys)  dead == Dead(h, keys)
         IN  /\ DOMAIN c = DOMAIN h /\ DOMAIN c.object = Keys
             /\ \A k \in Keys : c.object[k] = IF k \in dead THEN NoObject ELSE h.object[k]
             /\ c.bound = {b \in h.bound : <<b[2], b[3]>> \notin dead}
             /\ c.stray = {} /\ c.decoded = h.decoded
             /\ c.font \in [Fonts -> [size : Int, references : Int]]
             /\ \A f \in Fonts :
                  /\ c.font[f].size = h.font[f].size
                  /\ c.font[f].references =
                       h.font[f].references - Cardinality(Users(h, f) \cap dead)
PROOF
<1> DEFINE dead == Dead(h, keys)
           a == FontsBack(h, keys, dead)
           b == Unbound(a, dead)
           c == Deleted(b, dead)
<1>1. Destroy(h, keys) = c
  BY DEF Destroy, Dead
<1>2. dead \in SUBSET Live(h)
  BY DEF Dead
<1> HIDE DEF dead
<1>3. /\ DOMAIN a = DOMAIN h /\ a.object = h.object /\ a.decoded = h.decoded
      /\ a.bound = h.bound /\ a.stray = h.stray
      /\ a.font \in [Fonts -> [size : Int, references : Int]]
      /\ \A f \in Fonts :
           /\ a.font[f].size = h.font[f].size
           /\ a.font[f].references = h.font[f].references - Cardinality(Users(h, f) \cap dead)
  BY <1>2, FontsBackFacts
<1> HIDE DEF a
<1>4. /\ DOMAIN b = DOMAIN h /\ b.object = h.object /\ b.font = a.font /\ b.stray = h.stray
      /\ b.decoded = h.decoded
      /\ b.bound = {x \in h.bound : <<x[2], x[3]>> \notin dead}
  BY <1>3 DEF Unbound, Reached, Shaped
<1> HIDE DEF b
<1>5. Reached(b, dead) = {}
  BY <1>4 DEF Reached
<1>6. /\ DOMAIN c = DOMAIN h /\ c.font = a.font /\ c.bound = b.bound /\ c.stray = h.stray
      /\ c.decoded = h.decoded
      /\ c.object = [k \in Keys |-> IF k \in dead THEN NoObject ELSE h.object[k]]
  BY <1>4, <1>5 DEF Deleted, Shaped
<1> HIDE DEF c
<1>7. /\ DOMAIN c.object = Keys /\ c.stray = {}
      /\ \A k \in Keys : c.object[k] = IF k \in dead THEN NoObject ELSE h.object[k]
  BY <1>6 DEF Shaped
<1> QED
  BY <1>1, <1>3, <1>4, <1>6, <1>7, Zenon DEF dead

(* What remains is kept, and what was half made is among what goes.        *)
LEMMA DestroyKeeps ==
  ASSUME NEW h, NEW X, Keeps(h, X), NEW keys, X \cap Live(h) \subseteq keys
  PROVE  /\ Keeps(Destroy(h, keys), {})
         /\ Live(Destroy(h, keys)) \subseteq Live(h) \ keys
PROOF
<1> DEFINE c == Destroy(h, keys)
           dead == Dead(h, keys)
<1>1. /\ DOMAIN c = DOMAIN h /\ DOMAIN c.object = Keys
      /\ \A k \in Keys : c.object[k] = IF k \in dead THEN NoObject ELSE h.object[k]
      /\ c.bound = {b \in h.bound : <<b[2], b[3]>> \notin dead}
      /\ c.stray = {}
      /\ c.font \in [Fonts -> [size : Int, references : Int]]
      /\ \A f \in Fonts :
           /\ c.font[f].size = h.font[f].size
           /\ c.font[f].references = h.font[f].references - Cardinality(Users(h, f) \cap dead)
  BY DestroyFacts DEF Keeps
<1>2. dead \subseteq Live(h) /\ keys \cap Live(h) \subseteq dead
  BY LineageStartsHere DEF Dead
<1> HIDE DEF c, dead
<1>3. Live(c) = Live(h) \ dead /\ \A k \in Live(c) : c.object[k] = h.object[k]
  BY <1>1 DEF Live
<1>4. Shaped(c)
  <2>1. IsFiniteSet(Live(c))
    <3>1. IsFiniteSet(Live(h)) /\ Live(c) \in SUBSET Live(h)
      BY <1>3, Zenon DEF Keeps, Shaped
    <3> QED
      BY <3>1, FS_Subset
  <2>2. \A k \in Live(c) : IsObject(c.object[k])
    BY <1>3 DEF Keeps, Shaped
  <2>3. c.bound \subseteq Kinds \X Surfaces \X Nodes
    BY <1>1 DEF Keeps, Shaped
  <2>4. DOMAIN c = {"object", "font", "bound", "stray", "decoded"}
    BY <1>1, Zenon DEF Keeps, Shaped
  <2> QED
    BY <1>1, <2>1, <2>2, <2>3, <2>4, Zenon DEF Shaped
<1>5. ASSUME ~closed, NEW f \in Fonts PROVE c.font[f].references = Cardinality(Users(c, f))
  <2>1. Users(c, f) = Users(h, f) \ dead
    BY <1>3 DEF Users
  <2>2. IsFiniteSet(Users(h, f))
    BY FS_Subset DEF Users, Keeps, Shaped
  <2>3. Cardinality(Users(c, f)) = Cardinality(Users(h, f)) - Cardinality(Users(h, f) \cap dead)
    BY <2>1, <2>2, FS_Difference
  <2> QED
    BY <1>1, <1>5, <2>3 DEF Keeps, Counted
<1>6. Counted(c)
  <2>1. \A f, g \in Fonts : f # g /\ h.font[f].size # 0 => h.font[f].size # h.font[g].size
    BY Zenon DEF Keeps, Counted
  <2>2. \A f \in Fonts : c.font[f].size = h.font[f].size
    BY <1>1, Zenon
  <2> QED
    BY <1>5, <2>1, <2>2, Zenon DEF Counted
<1>7. Heard(c)
  BY <1>1, <1>3 DEF Keeps, Heard
<1>8. Drawn(c, {})
  BY <1>2, <1>3 DEF Keeps, Drawn
<1> QED
  BY <1>2, <1>3, <1>4, <1>6, <1>7, <1>8 DEF Keeps, c

(* What goes with keys of one surface is on that surface.                  *)
LEMMA DestroyIsApart ==
  ASSUME NEW h, Shaped(h), NEW s, NEW keys, \A k \in keys : k[1] = s
  PROVE  Apart(h, Destroy(h, keys), s)
PROOF
<1> DEFINE c == Destroy(h, keys)
           dead == Dead(h, keys)
<1>1. \A k \in Keys : c.object[k] = IF k \in dead THEN NoObject ELSE h.object[k]
  BY DestroyFacts
<1>2. ASSUME NEW k \in dead PROVE k[1] = s
  <2>1. k \in Keys /\ Lineage(h, k) \cap keys # {}
    BY DEF Dead, Live
  <2> QED
    BY <2>1, LineageStaysOnSurface
<1> QED
  BY <1>1, <1>2 DEF Apart

(* destroySurfaceObjects: an empty surface, if it is there, and whatever   *)
(* was half made in it is gone.                                            *)
LEMMA DestroySurfaceKeeps ==
  ASSUME NEW h, NEW X, NEW s \in root, Keeps(h, X), \A k \in X : k[1] = s
  PROVE  /\ Keeps(DestroySurface(h, s), {})
         /\ Live(DestroySurface(h, s)) \subseteq Live(h)
         /\ LiveOf(DestroySurface(h, s), s) = {}
         /\ Apart(h, DestroySurface(h, s), s)
PROOF
<1>1. X \cap Live(h) \subseteq LiveOf(h, s)
  BY DEF LiveOf
<1>2. /\ Keeps(Destroy(h, LiveOf(h, s)), {})
      /\ Live(Destroy(h, LiveOf(h, s))) \subseteq Live(h) \ LiveOf(h, s)
  BY <1>1, DestroyKeeps
<1>3. Apart(h, Destroy(h, LiveOf(h, s)), s)
  <2>1. \A k \in LiveOf(h, s) : k[1] = s
    BY DEF LiveOf
  <2> QED
    BY <2>1, DestroyIsApart DEF Keeps
<1> QED
  BY <1>2, <1>3 DEF DestroySurface, LiveOf

Zero == [size |-> 0, references |-> 0]

(* A surface that is gone keeps what it has.                               *)
LEMMA GoneSurfaceStays ==
  ASSUME NEW h, NEW s, s \notin root
  PROVE  DestroySurface(h, s) = h
BY DEF DestroySurface

(* Nothing LVGL still has, and no handler of it.                           *)
Emptied(h) ==
  /\ Native(h) = {} /\ (\A b \in h.bound : b[2] \notin root) /\ h.decoded = 0
  /\ \A f \in Fonts : h.font[f] = Zero

(* Removing an object.                                                     *)
LEMMA RemoveOpKeeps ==
  ASSUME NEW h, Keeps(h, {}), NEW k
  PROVE  LET r == RemoveOp(h, k)
         IN  Keeps(r.host, {}) /\ Live(r.host) \subseteq Live(h) /\ Apart(h, r.host, k[1])
PROOF
<1>1. /\ Keeps(Destroy(h, {k}), {})
      /\ Live(Destroy(h, {k})) \subseteq Live(h) \ {k}
  <2>1. {} \cap Live(h) \subseteq {k}
    OBVIOUS
  <2> QED
    BY <2>1, DestroyKeeps
<1>2. Apart(h, Destroy(h, {k}), k[1])
  BY DestroyIsApart DEF Keeps
<1> QED
  BY <1>1, <1>2 DEF RemoveOp, Done, Broken, Apart

(***************************************************************************)
(* One operation, and a transaction of any number of them                  *)
(***************************************************************************)
SurfaceKeys(s) == {k \in Keys : k[1] = s}

(* What operation i of t creates.                                          *)
Made(t, i) ==
  IF t.operations[i].op = "create" THEN {<<t.surface, t.operations[i].node>>} ELSE {}

(* What the assumption on the transactions gives for one operation.        *)
LEMMA OperationShape ==
  ASSUME NEW t \in Transactions, NEW i \in DOMAIN t.operations
  PROVE  LET o == t.operations[i]
         IN  /\ t.surface \in Surfaces /\ o.node \in Nodes
             /\ o.op \in {"create", "prop", "layout", "remove", "insert", "move"}
             /\ o.op = "create" => o.type \in Types
             /\ o.op = "prop" =>
                  /\ o.name \in {"fontSize", "min", "max", "items", "selected", "src"}
                  /\ o.value \in Int
PROOF
<1>1. t.surface \in Surfaces /\ t.operations[i] \in Operations
  BY MountAssumption
<1> QED
  BY <1>1 DEF Operations

(* One operation of a transaction; one that fails may leave its own        *)
(* surface half made.                                                      *)
LEMMA OperateKeeps ==
  ASSUME NEW t \in Transactions, NEW i \in DOMAIN t.operations, NEW h, Keeps(h, {}),
         Made(t, i) \cap Live(h) = {}
  PROVE  LET r == Operate(h, t, i)
         IN  /\ Keeps(r.host, IF r.ok THEN {} ELSE SurfaceKeys(t.surface))
             /\ Live(r.host) \subseteq Live(h) \cup Made(t, i)
             /\ Apart(h, r.host, t.surface)
PROOF
<1> DEFINE o == t.operations[i]
           k == <<t.surface, o.node>>
           r == Operate(h, t, i)
<1>1. /\ t.surface \in Surfaces /\ o.node \in Nodes
      /\ o.op \in {"create", "prop", "layout", "remove", "insert", "move"}
      /\ o.op = "create" => o.type \in Types
      /\ o.op = "prop" =>
           /\ o.name \in {"fontSize", "min", "max", "items", "selected", "src"}
           /\ o.value \in Int
  BY OperationShape
<1>2. SUFFICES /\ Keeps(r.host, IF r.ok THEN {} ELSE {k})
               /\ Live(r.host) \subseteq Live(h) \cup Made(t, i)
               /\ Apart(h, r.host, t.surface)
  <2>1. k \in SurfaceKeys(t.surface)
    BY <1>1 DEF SurfaceKeys, Keys
  <2> HIDE DEF k, r
  <2>2. Keeps(r.host, {k}) => Keeps(r.host, SurfaceKeys(t.surface))
    BY <2>1 DEF Keeps, Drawn
  <2> QED
    BY <1>2, <2>2 DEF r
<1>3. SUFFICES ASSUME o.op # "create"
               PROVE  /\ Keeps(r.host, {}) /\ Live(r.host) \subseteq Live(h)
                      /\ Apart(h, r.host, t.surface)
  <2>1. CASE o.op # "create"
    <3>1. /\ Keeps(r.host, {}) /\ Live(r.host) \subseteq Live(h)
          /\ Apart(h, r.host, t.surface)
      BY <1>3, <2>1
    <3> HIDE DEF r
    <3> QED
      BY <3>1 DEF Keeps, Drawn
  <2>2. CASE o.op = "create"
    <3>1. r = CreateOp(h, t, i) /\ Made(t, i) = {k}
      BY <2>2 DEF Operate, Made
    <3>2. k \notin Live(h)
      BY <3>1
    <3>3. LET c == CreateOp(h, t, i)
          IN  /\ Keeps(c.host, IF c.ok THEN {} ELSE {k})
              /\ Live(c.host) \subseteq Live(h) \cup {k}
              /\ Apart(h, c.host, t.surface)
      BY <1>1, <2>2, <3>2, CreateOpKeeps
    <3> QED
      BY <3>1, <3>3, Zenon
  <2> QED
    BY <2>1, <2>2
<1>4. CASE o.op = "prop"
  <2>1. r = PropOp(h, k, o.name, o.value)
    BY <1>4 DEF Operate
  <2> QED
    BY <1>1, <1>4, <2>1, PropOpKeeps, BesideIsApart
<1>5. CASE o.op = "remove"
  <2>1. r = RemoveOp(h, k)
    BY <1>5 DEF Operate
  <2>2. k[1] = t.surface
    OBVIOUS
  <2> HIDE DEF k
  <2> QED
    BY <2>1, <2>2, RemoveOpKeeps
<1>6. CASE o.op = "layout"
  <2>1. r = LayoutOp(h, k)
    BY <1>6 DEF Operate
  <2> QED
    BY <2>1 DEF LayoutOp, Done, Broken, Apart
<1>7. CASE o.op \in {"insert", "move"}
  <2>1. r = InsertOp(h, t.surface, o.node, o.parent) \/ r = MoveOp(h, t.surface, o.node, o.parent)
    BY <1>7 DEF Operate
  <2>2. Alike(h, r.host) /\ Apart(h, r.host, t.surface)
    BY <2>1, InsertOpAlike, MoveOpAlike DEF Keeps
  <2> HIDE DEF r
  <2> QED
    BY <2>2, AlikeKeeps DEF Alike
<1> QED
  BY <1>1, <1>3, <1>4, <1>5, <1>6, <1>7

(* The states that a transaction goes through, from h on.                  *)
Course(h, t, n, run) ==
  run = [i \in 0..n |->
           IF i = 0 THEN Done(h)
           ELSE IF run[i - 1].ok THEN Operate(run[i - 1].host, t, i) ELSE run[i - 1]]

(* Operated is defined by recursion on the number of operations; as for    *)
(* Climb, a function satisfies its equations.                              *)
LEMMA CourseExists ==
  ASSUME NEW h, NEW t, NEW n \in Nat
  PROVE  \E run : Course(h, t, n, run)
PROOF
<1> DEFINE S == {m \in Nat : \E run : Course(h, t, m, run)}
<1>1. 0 \in S
  <2>1. Course(h, t, 0, [i \in 0..0 |-> Done(h)])
    BY DEF Course
  <2> QED
    BY <2>1
<1>2. ASSUME NEW m \in Nat, m \in S PROVE m + 1 \in S
  <2>1. PICK run : Course(h, t, m, run)
    BY <1>2
  <2> DEFINE After(r, i) == IF r.ok THEN Operate(r.host, t, i) ELSE r
             more == [i \in 0..(m + 1) |-> IF i <= m THEN run[i] ELSE After(run[m], m + 1)]
  <2>2. \A i \in 0..m : run[i] = IF i = 0 THEN Done(h) ELSE After(run[i - 1], i)
    BY <2>1 DEF Course
  <2> HIDE DEF After
  <2>3. \A i \in 0..(m + 1) : more[i] = IF i = 0 THEN Done(h) ELSE After(more[i - 1], i)
    <3> TAKE i \in 0..(m + 1)
    <3>1. CASE i = 0
      BY <2>2, <3>1
    <3>2. CASE i \in 1..m
      <4>1. more[i] = run[i] /\ more[i - 1] = run[i - 1]
        BY <3>2
      <4> QED
        BY <2>2, <3>2, <4>1
    <3>3. CASE i = m + 1
      <4>1. more[i] = After(run[m], m + 1) /\ more[i - 1] = run[m]
        BY <3>3
      <4> QED
        BY <3>3, <4>1
    <3> QED
      BY <3>1, <3>2, <3>3
  <2>4. more = [i \in 0..(m + 1) |-> IF i = 0 THEN Done(h) ELSE After(more[i - 1], i)]
    BY <2>3
  <2> HIDE DEF more
  <2>5. Course(h, t, m + 1, more)
    BY <2>4, Zenon DEF Course, After
  <2> QED
    BY <2>5
<1> HIDE DEF S
<1>3. Nat \subseteq S
  BY <1>1, <1>2, NatSet
<1> QED
  BY <1>3 DEF S

(* However far a transaction comes, what it leaves is kept; and what it    *)
(* fails in the middle of is on its own surface.                           *)
LEMMA OperatedKeeps ==
  ASSUME NEW t \in Transactions, NEW h, Keeps(h, {}), NEW n \in 0..Len(t.operations),
         \A i \in 1..n : Made(t, i) \cap Live(h) = {},
         \A i \in 1..n, j \in 1..n : j < i => Made(t, i) \cap Made(t, j) = {}
  PROVE  LET r == Operated(h, t, n)
         IN  /\ Keeps(r.host, IF r.ok THEN {} ELSE SurfaceKeys(t.surface))
             /\ Live(r.host) \subseteq Live(h) \cup UNION {Made(t, i) : i \in 1..n}
             /\ Apart(h, r.host, t.surface)
PROOF
<1> DEFINE run == CHOOSE f : Course(h, t, n, f)
           Made1(i) == UNION {Made(t, j) : j \in 1..i}
           Fine(i) == /\ Keeps(run[i].host, IF run[i].ok THEN {} ELSE SurfaceKeys(t.surface))
                      /\ Live(run[i].host) \subseteq Live(h) \cup Made1(i)
                      /\ Apart(h, run[i].host, t.surface)
           S == {i \in Nat : i <= n => Fine(i)}
<1>1. n \in Nat /\ Len(t.operations) \in Nat /\ DOMAIN t.operations = 1..Len(t.operations)
  BY MountAssumption
<1>2. Course(h, t, n, run)
  BY <1>1, CourseExists, Zenon
<1>3. Operated(h, t, n) = run[n]
  BY Zenon DEF Operated, Course
<1> HIDE DEF run
<1>4. 0 \in S
  <2>1. run[0].host = h /\ run[0].ok
    BY <1>1, <1>2 DEF Course, Done
  <2> QED
    BY <2>1 DEF Apart
<1>5. ASSUME NEW i \in Nat, i \in S PROVE i + 1 \in S
  <2> SUFFICES ASSUME i + 1 <= n PROVE Fine(i + 1)
    OBVIOUS
  <2>1. /\ Keeps(run[i].host, IF run[i].ok THEN {} ELSE SurfaceKeys(t.surface))
        /\ Live(run[i].host) \subseteq Live(h) \cup Made1(i)
        /\ Apart(h, run[i].host, t.surface)
    BY <1>1, <1>5
  <2>2. Made1(i) \subseteq Made1(i + 1) /\ Made(t, i + 1) \subseteq Made1(i + 1)
    BY <1>1
  <2>3. run[i + 1] = IF run[i].ok THEN Operate(run[i].host, t, i + 1) ELSE run[i]
    <3>1. i + 1 \in 0..n /\ i + 1 # 0 /\ (i + 1) - 1 = i
      BY <1>1
    <3>2. \A m \in 0..n :
            run[m] = IF m = 0 THEN Done(h)
                     ELSE IF run[m - 1].ok THEN Operate(run[m - 1].host, t, m) ELSE run[m - 1]
      BY <1>2 DEF Course
    <3>3. run[i + 1] = IF i + 1 = 0 THEN Done(h)
                       ELSE IF run[(i + 1) - 1].ok
                            THEN Operate(run[(i + 1) - 1].host, t, i + 1) ELSE run[(i + 1) - 1]
      BY <3>1, <3>2, Zenon
    <3> QED
      BY <3>1, <3>3, Zenon
  <2>4. Made(t, i + 1) \cap Live(run[i].host) = {}
    <3>1. i + 1 \in 1..n /\ \A j \in 1..i : j \in 1..n /\ j < i + 1
      BY <1>1
    <3>2. Made(t, i + 1) \cap Live(h) = {}
      BY <3>1
    <3>3. \A j \in 1..i : Made(t, i + 1) \cap Made(t, j) = {}
      BY <3>1
    <3> QED
      BY <2>1, <3>2, <3>3
  <2>5. i + 1 \in DOMAIN t.operations
    BY <1>1
  <2> HIDE DEF Made1
  <2>6. CASE run[i].ok
    <3>1. Keeps(run[i].host, {}) /\ run[i + 1] = Operate(run[i].host, t, i + 1)
      BY <2>1, <2>3, <2>6
    <3>2. /\ Keeps(run[i + 1].host, IF run[i + 1].ok THEN {} ELSE SurfaceKeys(t.surface))
          /\ Live(run[i + 1].host) \subseteq Live(run[i].host) \cup Made(t, i + 1)
          /\ Apart(run[i].host, run[i + 1].host, t.surface)
      BY <2>4, <2>5, <3>1, OperateKeeps
    <3>3. Apart(h, run[i + 1].host, t.surface)
      BY <2>1, <3>2, ApartTrans
    <3> QED
      BY <2>1, <2>2, <3>2, <3>3
  <2>7. CASE ~run[i].ok
    <3>1. run[i + 1] = run[i]
      BY <2>3, <2>7
    <3> QED
      BY <2>1, <2>2, <3>1
  <2> QED
    BY <2>6, <2>7
<1> HIDE DEF S
<1>6. Nat \subseteq S
  BY <1>4, <1>5, NatSet
<1>7. Fine(n)
  BY <1>1, <1>6 DEF S
<1> QED
  BY <1>3, <1>7

(* preflight: each object a transaction makes is made once, and is not     *)
(* there yet unless the surface is emptied first.                          *)
LEMMA PreflightMakesNew ==
  ASSUME NEW t \in Transactions, NEW h, Preflight(h, t)
  PROVE  /\ \A i \in DOMAIN t.operations, j \in DOMAIN t.operations :
              j < i => Made(t, i) \cap Made(t, j) = {}
         /\ t.mode # "full" => \A i \in DOMAIN t.operations : Made(t, i) \cap Live(h) = {}
PROOF
<1>1. DOMAIN t.operations = 1..Len(t.operations) /\ Len(t.operations) \in Nat
  BY MountAssumption
<1>2. ASSUME NEW i \in DOMAIN t.operations, t.operations[i].op = "create"
      PROVE  /\ t.mode = "full" \/ <<t.surface, t.operations[i].node>> \notin Live(h)
             /\ \A j \in 1..(i - 1) : ~(/\ t.operations[j].op = "create"
                                       /\ t.operations[j].node = t.operations[i].node)
  <2>1. Allowed(h, t, i)
    BY DEF Preflight
  <2> QED
    BY <1>2, <2>1 DEF Allowed, Found, Creates
<1>3. ASSUME NEW i \in DOMAIN t.operations, NEW j \in DOMAIN t.operations, j < i
      PROVE  Made(t, i) \cap Made(t, j) = {}
  <2>1. j \in 1..(i - 1)
    BY <1>1, <1>3
  <2> QED
    BY <1>2, <2>1 DEF Made
<1>4. ASSUME NEW i \in DOMAIN t.operations, t.mode # "full"
      PROVE  Made(t, i) \cap Live(h) = {}
  BY <1>2, <1>4 DEF Made
<1> QED
  BY <1>3, <1>4

(* The rollback empties the surface, whatever the operations left.         *)
LEMMA FailureKeeps ==
  ASSUME NEW t, t.surface \in root, NEW h, NEW X, Keeps(h, X),
         X = {} \/ X = SurfaceKeys(t.surface)
  PROVE  LET g == Failure(h, t).host
         IN  Keeps(g, {}) /\ LiveOf(g, t.surface) = {} /\ Apart(h, g, t.surface)
PROOF
<1>1. \A k \in X : k[1] = t.surface
  BY DEF SurfaceKeys
<1>2. LET g == DestroySurface(h, t.surface)
      IN  Keeps(g, {}) /\ LiveOf(g, t.surface) = {} /\ Apart(h, g, t.surface)
  BY <1>1, DestroySurfaceKeeps
<1> QED
  BY <1>2 DEF Failure, Result

(* Whatever is refused, and wherever, a transaction leaves what is kept    *)
(* and other surfaces as they were; one that failed leaves nothing on its  *)
(* own, or all as it was.                                                  *)
LeavesNothing(h, t, g) ==
  LiveOf(g, t.surface) = {} \/ ((~(t.batches > 1) \/ t.surface \notin root) /\ g = h)

(* A whole transaction, refused, failed at any place, or mounted.          *)
LEMMA ExecutionsKeep ==
  ASSUME NEW t \in Transactions, NEW h, Keeps(h, {}), NEW e \in Executions(h, t)
  PROVE  /\ Keeps(e.host, {}) /\ e.status \in {"mounted", "failed"}
         /\ Apart(h, e.host, t.surface)
         /\ e.status = "failed" => LeavesNothing(h, t, e.host)
PROOF
<1>0. t.surface \in root =>
        LET g == DestroySurface(h, t.surface)
        IN  Keeps(g, {}) /\ LiveOf(g, t.surface) = {} /\ Apart(h, g, t.surface)
  <2>1. \A k \in {} : k[1] = t.surface
    OBVIOUS
  <2> QED
    BY <2>1, DestroySurfaceKeeps
<1>1. CASE ~Admissible(h, t)
  <2>1. e = Rejection(h, t)
    BY <1>1, Zenon DEF Executions
  <2>2. /\ e.status = "failed"
        /\ \/ e.host = h /\ (~(t.batches > 1) \/ t.surface \notin root)
           \/ e.host = DestroySurface(h, t.surface) /\ t.surface \in root
    BY <2>1, GoneSurfaceStays DEF Rejection, Result
  <2>3. Apart(h, h, t.surface)
    BY DEF Apart
  <2> QED
    BY <1>0, <2>2, <2>3 DEF LeavesNothing
<1>2. CASE Admissible(h, t)
  <2>0. t.surface \in root
    BY <1>2 DEF Admissible
  <2> DEFINE base == IF t.mode = "full" THEN DestroySurface(h, t.surface) ELSE h
             all  == Operated(base, t, Len(t.operations))
             stops == {m \in 0..(Len(t.operations) - 1) :
                         Refusable(Operated(base, t, m).host, t, m + 1)}
  <2>1. e \in {IF all.ok THEN Result(all.host, "mounted") ELSE Failure(all.host, t)}
                \cup {Failure(Operated(base, t, n).host, t) : n \in stops}
    BY <1>2, Zenon DEF Executions
  <2>2. DOMAIN t.operations = 1..Len(t.operations) /\ Len(t.operations) \in Nat
    BY MountAssumption
  <2>3. /\ Keeps(base, {}) /\ Apart(h, base, t.surface)
        /\ \A i \in DOMAIN t.operations : Made(t, i) \cap Live(base) = {}
    <3>1. CASE t.mode = "full"
      <4>1. base = DestroySurface(h, t.surface)
        BY <3>1
      <4> QED
        BY <1>0, <2>0, <4>1 DEF Made, LiveOf
    <3>2. CASE t.mode # "full"
      BY <1>2, <3>2, PreflightMakesNew DEF Admissible, Apart
    <3> QED
      BY <3>1, <3>2
  <2> HIDE DEF base
  <2>4. ASSUME NEW n \in 0..Len(t.operations)
        PROVE  /\ Keeps(Operated(base, t, n).host,
                        IF Operated(base, t, n).ok THEN {} ELSE SurfaceKeys(t.surface))
               /\ Apart(h, Operated(base, t, n).host, t.surface)
    <3>1. \A i \in 1..n : i \in DOMAIN t.operations
      BY <2>2
    <3>2. \A i \in 1..n, j \in 1..n : j < i => Made(t, i) \cap Made(t, j) = {}
      BY <1>2, <3>1, PreflightMakesNew DEF Admissible
    <3>3. \A i \in 1..n : Made(t, i) \cap Live(base) = {}
      BY <2>3, <3>1
    <3>4. /\ Keeps(Operated(base, t, n).host,
                   IF Operated(base, t, n).ok THEN {} ELSE SurfaceKeys(t.surface))
          /\ Apart(base, Operated(base, t, n).host, t.surface)
      BY <2>3, <3>2, <3>3, OperatedKeeps
    <3> QED
      BY <2>3, <3>4, ApartTrans
  <2>5. ASSUME NEW n \in 0..Len(t.operations)
        PROVE  LET g == Failure(Operated(base, t, n).host, t).host
               IN  Keeps(g, {}) /\ LiveOf(g, t.surface) = {} /\ Apart(h, g, t.surface)
    <3> DEFINE i == Operated(base, t, n).host
               g == Failure(i, t).host
    <3>1. Keeps(i, IF Operated(base, t, n).ok THEN {} ELSE SurfaceKeys(t.surface))
          /\ Apart(h, i, t.surface)
      BY <2>4
    <3> HIDE DEF i
    <3>2. Keeps(g, {}) /\ LiveOf(g, t.surface) = {} /\ Apart(i, g, t.surface)
      BY <2>0, <3>1, FailureKeeps
    <3>3. Apart(h, g, t.surface)
      BY <3>1, <3>2, ApartTrans
    <3> QED
      BY <3>2, <3>3 DEF i
  <2>6. CASE \E n \in stops : e = Failure(Operated(base, t, n).host, t)
    <3>1. PICK n \in 0..Len(t.operations) : e = Failure(Operated(base, t, n).host, t)
      BY <2>2, <2>6
    <3> QED
      BY <2>5, <3>1 DEF Failure, Result, LeavesNothing
  <2>7. CASE e = IF all.ok THEN Result(all.host, "mounted") ELSE Failure(all.host, t)
    <3>1. Len(t.operations) \in 0..Len(t.operations)
      BY <2>2
    <3>2. CASE all.ok
      <4>1. e.host = all.host /\ e.status = "mounted"
        BY <2>7, <3>2 DEF Result
      <4> QED
        BY <2>4, <3>1, <3>2, <4>1
    <3>3. CASE ~all.ok
      <4>1. e = Failure(all.host, t) /\ e.status = "failed"
        BY <2>7, <3>3 DEF Failure, Result
      <4> QED
        BY <2>5, <3>1, <4>1 DEF LeavesNothing
    <3> QED
      BY <3>2, <3>3
  <2> QED
    BY <2>1, <2>6, <2>7
<1> QED
  BY <1>1, <1>2

(***************************************************************************)
(* The inductive invariant                                                 *)
(***************************************************************************)
Flags == {accepting, closed, posting, late} \subseteq BOOLEAN

Calls ==
  /\ queue \in Seq(Transactions) /\ Len(queue) <= MaxTransactions
  /\ root \subseteq Surfaces
  /\ answer \in {"none", "mounted", "failed"}

(* Only a post that passed its check before finds its way into a host that *)
(* has closed.                                                             *)
Ended ==
  /\ closed => ~accepting
  /\ closed /\ ~late => queue = <<>> /\ Emptied(host)

IInv == Flags /\ Calls /\ Keeps(host, {}) /\ Ended

(* The inductive invariant holds at first.                                 *)
LEMMA InitIInv == Init => IInv
PROOF
<1> SUFFICES ASSUME Init PROVE IInv
  OBVIOUS
<1>1. /\ DOMAIN host = {"object", "font", "bound", "stray", "decoded"}
      /\ host.object = [k \in Keys |-> NoObject] /\ host.font = [f \in Fonts |-> Zero]
      /\ host.bound = {} /\ host.stray = {}
  BY DEF Init, Zero
<1>2. Live(host) = {}
  BY <1>1 DEF Live
<1>3. Shaped(host)
  <2>1. host.font \in [Fonts -> [size : Int, references : Int]]
    BY <1>1 DEF Zero
  <2> QED
    BY <1>1, <1>2, <2>1, FS_EmptySet DEF Shaped
<1>4. Counted(host)
  <2>1. \A f \in Fonts : Users(host, f) = {}
    BY <1>2 DEF Users
  <2>2. \A f \in Fonts : host.font[f].size = 0 /\ host.font[f].references = 0
    BY <1>1 DEF Zero
  <2> QED
    BY <2>1, <2>2, FS_EmptySet DEF Counted
<1>5. Heard(host) /\ Drawn(host, {})
  BY <1>1, <1>2 DEF Heard, Drawn
<1>6. Flags /\ Ended
  BY DEF Init, Flags, Ended
<1>7. Calls
  BY MountAssumption DEF Init, Calls
<1> QED
  BY <1>3, <1>4, <1>5, <1>6, <1>7 DEF IInv, Keeps

(* The host of the next state, seen from it: closed never goes back.       *)
LEMMA KeptNext ==
  ASSUME Keeps(host', {}), closed => closed'
  PROVE  Keeps(host, {})'
PROOF
<1>1. Counted(host)'
  BY Zenon DEF Keeps, Counted, Users, Live
<1>2. Shaped(host)' /\ Heard(host)' /\ Drawn(host, {})'
  BY Zenon DEF Keeps, Shaped, Heard, Drawn, Live
<1> QED
  BY <1>1, <1>2 DEF Keeps

(* Steps that leave the host and the queue alone.                          *)
LEMMA ElsewhereKeeps ==
  ASSUME IInv, UNCHANGED <<queue, host>>, Flags', UNCHANGED root,
         answer' = answer, late' = late, closed' = closed, accepting' => accepting
  PROVE  IInv'
PROOF
<1>1. Calls' /\ Keeps(host, {})'
  BY KeptNext DEF IInv, Calls
<1>2. Ended'
  BY DEF IInv, Ended, Emptied, Native, Live
<1> QED
  BY <1>1, <1>2 DEF IInv

(* The steps of the host, one lemma for each kind of them.                 *)
LEMMA ExecuteKeeps ==
  ASSUME IInv, Execute
  PROVE  IInv'
PROOF
<1>1. PICK e \in Executions(host, Head(queue)) : host' = e.host /\ answer' = e.status
  BY DEF Execute
<1>2. /\ queue # <<>> /\ queue' = Tail(queue)
      /\ UNCHANGED <<accepting, closed, posting, root, resource, late>>
  BY DEF Execute
<1>3. Head(queue) \in Transactions
  BY <1>2 DEF IInv, Calls
<1>4. Keeps(host', {}) /\ answer' \in {"mounted", "failed"}
  BY <1>1, <1>3, ExecutionsKeep DEF IInv
<1>5. Calls'
  <2>1. queue \in Seq(Transactions) /\ Len(queue) <= MaxTransactions /\ root \subseteq Surfaces
    BY DEF IInv, Calls
  <2>2. queue' \in Seq(Transactions) /\ Len(queue') <= MaxTransactions
    BY <1>2, <2>1, MountAssumption
  <2> QED
    BY <1>2, <1>4, <2>1, <2>2, Zenon DEF Calls
<1>6. Flags' /\ Ended'
  BY <1>2 DEF IInv, Flags, Ended
<1>7. Keeps(host, {})'
  BY <1>2, <1>4, KeptNext
<1> QED
  BY <1>5, <1>6, <1>7 DEF IInv

(* Posts change the queue alone, and the flags.                            *)
LEMMA PostKeeps ==
  ASSUME IInv, PostCheck \/ PostRefused \/ \E t \in Transactions : PostAdmit(t)
  PROVE  IInv'
PROOF
<1>1. CASE PostCheck \/ PostRefused
  <2>1. Flags' /\ UNCHANGED <<queue, host, root, answer, late, closed, accepting>>
    BY <1>1 DEF PostCheck, PostRefused, IInv, Flags
  <2> QED
    BY <2>1, ElsewhereKeeps
<1>2. ASSUME NEW t \in Transactions, PostAdmit(t) PROVE IInv'
  <2>1. /\ Len(queue) < MaxTransactions /\ queue' = Append(queue, t)
        /\ posting' = FALSE /\ late' = (late \/ closed)
        /\ UNCHANGED <<accepting, closed, root, host, resource, answer>>
    BY <1>2 DEF PostAdmit
  <2>2. Flags'
    BY <2>1 DEF IInv, Flags
  <2>3. Calls'
    BY <2>1, MountAssumption DEF IInv, Calls
  <2>4. Ended'
    BY <2>1 DEF IInv, Ended
  <2>5. Keeps(host, {})'
    BY <2>1, KeptNext DEF IInv
  <2> QED
    BY <2>2, <2>3, <2>4, <2>5 DEF IInv
<1> QED
  BY <1>1, <1>2

(* A surface is emptied, comes, or goes with all that stands on it.        *)
LEMMA SurfaceKeeps ==
  ASSUME IInv, NEW s \in Surfaces,
         ReleaseSurface(s) \/ SurfaceCreated(s) \/ SurfaceDestroyed(s)
  PROVE  IInv'
PROOF
<1>1. CASE SurfaceCreated(s) \/ SurfaceDestroyed(s)
  <2>1. UNCHANGED <<accepting, closed, posting, queue, host, answer, late>>
    BY <1>1, Zenon DEF SurfaceCreated, SurfaceDestroyed
  <2>2. root' \subseteq Surfaces
    BY <1>1 DEF SurfaceCreated, SurfaceDestroyed, IInv, Calls
  <2>3. \A k \in Live(host) : k[1] \in root' => k[1] \in root
    BY <1>1 DEF SurfaceCreated, SurfaceDestroyed, LiveOf
  <2>4. \A b \in host.bound : <<b[2], b[3]>> \in Live(host)
    BY DEF IInv, Keeps, Heard
  <2>5. \A b \in host.bound : b[2] \in root' => b[2] \in root
    BY <2>3, <2>4
  <2>6. Emptied(host) => Emptied(host)'
    BY <2>1, <2>3, <2>5 DEF Emptied, Native, Live
  <2>7. Flags' /\ Calls' /\ Ended'
    BY <2>1, <2>2, <2>6, Zenon DEF IInv, Flags, Calls, Ended
  <2>8. Keeps(host, {})'
    BY <2>1, KeptNext DEF IInv
  <2> QED
    BY <2>7, <2>8 DEF IInv
<1>2. CASE ReleaseSurface(s)
  <2>1. /\ host' = DestroySurface(host, s) /\ LiveOf(host, s) # {}
        /\ UNCHANGED <<accepting, closed, posting, queue, root, answer, late>>
    BY <1>2 DEF ReleaseSurface
  <2>2. CASE s \notin root
    <3>1. UNCHANGED <<accepting, closed, posting, queue, root, host, answer, late>>
      BY <2>1, <2>2, GoneSurfaceStays
    <3>2. Flags'
      BY <3>1 DEF IInv, Flags
    <3> QED
      BY <3>1, <3>2, ElsewhereKeeps
  <2>3. CASE s \in root
    <3>1. Keeps(host', {})
      <4>1. \A k \in {} : k[1] = s
        OBVIOUS
      <4> QED
        BY <2>1, <2>3, <4>1, DestroySurfaceKeeps DEF IInv
    <3>2. ~Emptied(host)
      BY <2>1, <2>3 DEF Emptied, Native, LiveOf
    <3>3. Flags' /\ Calls' /\ Ended'
      BY <2>1, <3>2, Zenon DEF IInv, Flags, Calls, Ended
    <3>4. Keeps(host, {})'
      BY <2>1, <3>1, KeptNext
    <3> QED
      BY <3>3, <3>4 DEF IInv
  <2> QED
    BY <2>2, <2>3
<1> QED
  BY <1>1, <1>2

WithHandler(h, b) == [h EXCEPT !.bound = @ \cup {b}]

(* A handler is installed on a node that is there.                         *)
LEMMA InstallKeeps ==
  ASSUME IInv, NEW kind \in Kinds, NEW s \in Surfaces, NEW n \in Nodes, Install(kind, s, n)
  PROVE  IInv'
PROOF
<1> DEFINE b == <<kind, s, n>>
           g == WithHandler(host, b)
<1>1. /\ <<s, n>> \in Live(host) /\ s \in root /\ Fits(kind, host.object[<<s, n>>].type)
      /\ host' = g
      /\ UNCHANGED <<accepting, closed, posting, queue, root, resource, answer, late>>
  BY DEF Install, Found, WithHandler
<1>2. /\ DOMAIN g = DOMAIN host /\ g.object = host.object /\ g.font = host.font
      /\ g.stray = host.stray /\ g.bound = host.bound \cup {b}
  BY DEF WithHandler, IInv, Keeps, Shaped
<1> HIDE DEF g
<1>3. Live(g) = Live(host)
  BY <1>2 DEF Live
<1>4. g.bound \subseteq Kinds \X Surfaces \X Nodes
  BY <1>2 DEF IInv, Keeps, Shaped
<1>5. Shaped(g)
  BY <1>2, <1>3, <1>4 DEF IInv, Keeps, Shaped
<1>6. \A f : Users(g, f) = Users(host, f)
  BY <1>2, <1>3 DEF Users
<1>7. Counted(g) /\ Drawn(g, {})
  BY <1>2, <1>3, <1>6 DEF IInv, Keeps, Counted, Drawn
<1>8. Heard(g)
  <2>1. \A x \in host.bound :
          <<x[2], x[3]>> \in Live(host) /\ Fits(x[1], host.object[<<x[2], x[3]>>].type)
    BY DEF IInv, Keeps, Heard
  <2>2. b[1] = kind /\ b[2] = s /\ b[3] = n
    OBVIOUS
  <2> HIDE DEF b
  <2> QED
    BY <1>1, <1>2, <1>3, <2>1, <2>2, Zenon DEF Heard
<1>9. ~Emptied(host)
  BY <1>1 DEF Emptied, Native
<1>10. Flags' /\ Calls' /\ Ended'
  BY <1>1, <1>9 DEF IInv, Flags, Calls, Ended
<1>11. Keeps(host, {})'
  BY <1>1, <1>5, <1>7, <1>8, KeptNext DEF Keeps
<1> QED
  BY <1>10, <1>11 DEF IInv

(* destroyAllObjects takes what LVGL still has, and no more.               *)
LEMMA DestroyAllKeeps ==
  ASSUME NEW h, Keeps(h, {})
  PROVE  /\ Keeps(DestroyAll(h), {})
         /\ \A k \in Keys : DestroyAll(h).object[k] =
                             IF k[1] \in root THEN NoObject ELSE h.object[k]
PROOF
<1> DEFINE c == DestroyAll(h)
           dead == Dead(h, Native(h))
<1>1. c = Destroy(h, Native(h)) /\ {} \cap Live(h) \subseteq Native(h)
  BY DEF DestroyAll
<1>2. Keeps(c, {}) /\ \A k \in Keys : c.object[k] = IF k \in dead THEN NoObject ELSE h.object[k]
  BY <1>1, DestroyKeeps, DestroyFacts DEF Keeps
<1>3. \A k \in Live(h) : k \in dead <=> k[1] \in root
  <2> TAKE k \in Live(h)
  <2>1. k \in Keys /\ k \in Lineage(h, k) /\ \A j \in Lineage(h, k) : j[1] = k[1]
    BY LineageStartsHere, LineageStaysOnSurface DEF Live
  <2> QED
    BY <2>1 DEF Dead, Native
<1>4. \A k \in Keys \ Live(h) : h.object[k] = NoObject /\ k \notin dead
  BY DEF Live, Dead
<1> HIDE DEF c, dead
<1>5. \A k \in Keys : c.object[k] = IF k[1] \in root THEN NoObject ELSE h.object[k]
  BY <1>2, <1>3, <1>4
<1> QED
  BY <1>2, <1>5 DEF c

(* finishClose, which leaves nothing that LVGL still has.                  *)
LEMMA FinishCloseKeeps ==
  ASSUME IInv, FinishClose
  PROVE  /\ IInv'
         /\ \A k \in Keys : host'.object[k] =
                             IF k[1] \in root THEN NoObject ELSE host.object[k]
PROOF
<1> DEFINE c == DestroyAll(host)
           zeros == [f \in Fonts |-> Zero]
           g == [c EXCEPT !.font = zeros, !.decoded = 0]
<1>1. /\ ~accepting /\ queue = <<>> /\ closed' = TRUE /\ host' = g
      /\ UNCHANGED <<accepting, posting, queue, root, answer, late>>
  BY DEF FinishClose, MayFinish, Zero
<1>2. /\ Keeps(c, {})
      /\ \A k \in Keys : c.object[k] = IF k[1] \in root THEN NoObject ELSE host.object[k]
  BY DestroyAllKeeps DEF IInv
<1> HIDE DEF c
<1>3. /\ DOMAIN g = DOMAIN c /\ g.object = c.object /\ g.font = zeros
      /\ g.bound = c.bound /\ g.stray = c.stray /\ g.decoded = 0
  BY <1>2 DEF Keeps, Shaped
<1>4. zeros \in [Fonts -> [size : Int, references : Int]]
      /\ \A f \in Fonts : zeros[f] = Zero /\ zeros[f].size = 0
  BY DEF Zero
<1> HIDE DEF g, zeros
<1>5. Live(g) = Live(c) /\ \A k \in Live(g) : k[1] \notin root
  BY <1>2, <1>3 DEF Live
<1>6. Shaped(g)
  BY <1>2, <1>3, <1>4, <1>5, Zenon DEF Keeps, Shaped
<1>7. Heard(g) /\ Drawn(g, {})
  BY <1>2, <1>3, <1>5, Zenon DEF Keeps, Heard, Drawn
<1>8. \A f \in Fonts : g.font[f].size = 0
  BY <1>3, <1>4
<1>9. Keeps(host, {})'
  <2>1. Counted(host)'
    BY <1>1, <1>8 DEF Counted
  <2>2. Shaped(host)' /\ Heard(host)' /\ Drawn(host, {})'
    BY <1>1, <1>6, <1>7 DEF Shaped, Heard, Drawn, Live
  <2> QED
    BY <2>1, <2>2 DEF Keeps
<1>10. Emptied(g)
  <2>1. \A b \in g.bound : b[2] \notin root
    BY <1>5, <1>7 DEF Heard
  <2> QED
    BY <1>3, <1>4, <1>5, <2>1 DEF Emptied, Native
<1>11. Flags' /\ Calls'
  BY <1>1 DEF IInv, Flags, Calls
<1>12. Ended'
  BY <1>1, <1>10 DEF Ended, Emptied, Native, Live
<1>13. \A k \in Keys : host'.object[k] = IF k[1] \in root THEN NoObject ELSE host.object[k]
  BY <1>1, <1>2, <1>3
<1> QED
  BY <1>9, <1>11, <1>12, <1>13 DEF IInv

(* No step breaks the inductive invariant.                                 *)
LEMMA StepIInv == IInv /\ [Next]_vars => IInv'
PROOF
<1> SUFFICES ASSUME IInv, [Next]_vars PROVE IInv'
  OBVIOUS
<1>1. CASE UNCHANGED vars
  <2>1. UNCHANGED <<accepting, closed, posting, queue, root, host, answer, late>>
    BY <1>1, Zenon DEF vars
  <2>2. Flags'
    BY <2>1 DEF IInv, Flags
  <2> QED
    BY <2>1, <2>2, ElsewhereKeeps
<1>2. CASE PostCheck \/ PostRefused \/ \E t \in Transactions : PostAdmit(t)
  BY <1>2, PostKeeps
<1>3. CASE Execute
  BY <1>3, ExecuteKeeps
<1>4. CASE \E s \in Surfaces : ReleaseSurface(s) \/ SurfaceCreated(s) \/ SurfaceDestroyed(s)
  BY <1>4, SurfaceKeeps
<1>5. CASE \E kind \in Kinds, s \in Surfaces, n \in Nodes : Install(kind, s, n)
  BY <1>5, InstallKeeps
<1>6. CASE SetResource \/ Close
  <2>1. /\ Flags' /\ UNCHANGED <<queue, host, root, answer, late, closed>>
        /\ accepting' => accepting
    <3>1. /\ UNCHANGED <<queue, host, root, answer, late, closed, posting>>
          /\ accepting' = accepting \/ accepting' = FALSE
      BY <1>6, Zenon DEF SetResource, Close
    <3>2. Flags'
      BY <3>1 DEF IInv, Flags
    <3>3. accepting' => accepting
      BY <3>1, Zenon
    <3> QED
      BY <3>1, <3>2, <3>3, Zenon
  <2> QED
    BY <2>1, ElsewhereKeeps
<1>7. CASE FinishClose
  BY <1>7, FinishCloseKeeps
<1> QED
  BY <1>1, <1>2, <1>3, <1>4, <1>5, <1>6, <1>7 DEF Next

(* Every reachable state satisfies the inductive invariant.                *)
LEMMA IInvHolds == Spec => []IInv
  BY InitIInv, StepIInv, PTL DEF Spec

(***************************************************************************)
(* What follows from it                                                    *)
(***************************************************************************)
(* Every font slot counts just the objects drawn with it, after any        *)
(* transactions, failures and removals; a text has a font, a size one slot *)
(* (acquireFont, releaseFont, destroySlot).                                *)
THEOREM FontsCounted == Spec => []FontsAreCounted
PROOF
<1>1. ASSUME IInv PROVE FontsAreCounted
  <2>1. TypeOK
    <3>1. \A k \in Live(host) : /\ host.object[k].type \in Types
                                /\ host.object[k].font \in Fonts \cup {NoFont}
      BY <1>1 DEF IInv, Keeps, Shaped, IsObject
    <3>2. host.bound \subseteq Kinds \X Surfaces \X Nodes
      BY <1>1 DEF IInv, Keeps, Shaped
    <3> QED
      BY <1>1, <3>1, <3>2, Zenon DEF IInv, Flags, Calls, TypeOK
  <2>2. closed \/ \A f \in Fonts :
          host.font[f].references = Cardinality({k \in Live(host) : host.object[k].font = f})
    BY <1>1, Zenon DEF IInv, Keeps, Counted, Users
  <2>3. \A k \in Live(host) : host.object[k].font = NoFont <=> host.object[k].type = "view"
    BY <1>1, Zenon DEF IInv, Keeps, Drawn
  <2>4. \A f, g \in Fonts :
          (f # g /\ host.font[f].size # 0) => host.font[f].size # host.font[g].size
    BY <1>1, Zenon DEF IInv, Keeps, Counted
  <2> QED
    BY <2>1, <2>2, <2>3, <2>4, Zenon DEF FontsAreCounted
<1> QED
  BY <1>1, IInvHolds, PTL

(* No callback is told of a node that is gone, also while LVGL deletes     *)
(* objects, and every handler left is of a live node it fits (destroySlot  *)
(* retires the handlers of a subtree first).                               *)
THEOREM CallbacksAreSafe == Spec => []CallbacksNameLiveNodes
PROOF
<1>1. ASSUME IInv PROVE CallbacksNameLiveNodes
  BY <1>1, Zenon DEF IInv, Keeps, Shaped, Heard, CallbacksNameLiveNodes
<1> QED
  BY <1>1, IInvHolds, PTL

(* When finishClose has succeeded nothing is left, but for a post that was *)
(* inside.                                                                 *)
THEOREM NothingIsLeft == Spec => []ClosedIsEmpty
PROOF
<1>1. ASSUME IInv PROVE ClosedIsEmpty
  BY <1>1, Zenon DEF IInv, Ended, Emptied, Zero, ClosedIsEmpty
<1> QED
  BY <1>1, IInvHolds, PTL

(* A transaction leaves the queue by being executed.                       *)
LEMMA OnlyExecuteLeaves ==
  ASSUME IInv, Next, queue # <<>>, queue' = Tail(queue)
  PROVE  Execute
PROOF
<1>1. queue \in Seq(Transactions)
  BY DEF IInv, Calls
<1>2. Len(queue') = Len(queue) - 1 /\ Len(queue) \in Nat
  BY <1>1
<1>3. \A z \in Nat : z - 1 # z /\ z - 1 # z + 1
  OBVIOUS
<1>4. queue' # queue
  BY <1>2, <1>3, Zenon
<1>5. ASSUME NEW t \in Transactions PROVE queue' # Append(queue, t)
  <2>1. Len(Append(queue, t)) = Len(queue) + 1
    BY <1>1
  <2> QED
    BY <1>2, <1>3, <2>1, Zenon
<1> QED
  BY <1>4, <1>5, Zenon DEF Next, PostCheck, PostRefused, PostAdmit, ReleaseSurface,
     SurfaceCreated, SurfaceDestroyed, Install, SetResource, Close, FinishClose

(* A transaction touches its own surface alone; and when it is answered    *)
(* failed, by preflight, by an operation or by LVGL in the middle of it,   *)
(* none of it is left: its surface is empty, or a lone batch that was      *)
(* refused beforehand changed nothing at all.                              *)
FailedLeavesNothing ==
  [][(queue # <<>> /\ queue' = Tail(queue)) =>
       LET t == Head(queue)
       IN  /\ \A s \in Surfaces \ {t.surface} : TreeOf(host', s) = TreeOf(host, s)
           /\ answer' = "failed" => LeavesNothing(host, t, host')]_vars

(* The half of AllOrNothing that is about failure (execute and its rollback*)
(* destroySurfaceObjects).                                                 *)
THEOREM FailureIsClean == Spec => FailedLeavesNothing
PROOF
<1>1. ASSUME IInv, Next, queue # <<>>, queue' = Tail(queue) PROVE Execute
  BY <1>1, OnlyExecuteLeaves
<1>2. ASSUME IInv, Execute
      PROVE  LET t == Head(queue)
             IN  /\ \A s \in Surfaces \ {t.surface} : TreeOf(host', s) = TreeOf(host, s)
                 /\ answer' = "failed" => LeavesNothing(host, t, host')
  <2> DEFINE t == Head(queue)
  <2>1. PICK e \in Executions(host, t) : host' = e.host /\ answer' = e.status
    BY <1>2 DEF Execute
  <2>2. t \in Transactions
    BY <1>2 DEF Execute, IInv, Calls
  <2> HIDE DEF t
  <2>3. Apart(host, host', t.surface) /\ (answer' = "failed" => LeavesNothing(host, t, host'))
    BY <1>2, <2>1, <2>2, ExecutionsKeep DEF IInv
  <2>4. ASSUME NEW s \in Surfaces \ {t.surface} PROVE TreeOf(host', s) = TreeOf(host, s)
    <3>1. \A k \in Keys : k[1] = s => host'.object[k] = host.object[k]
      BY <2>3 DEF Apart
    <3>2. LiveOf(host', s) = LiveOf(host, s)
      BY <3>1 DEF LiveOf, Live
    <3>3. \A n \in {k[2] : k \in LiveOf(host, s)} : host'.object[<<s, n>>] = host.object[<<s, n>>]
      <4> TAKE n \in {k[2] : k \in LiveOf(host, s)}
      <4>1. <<s, n>> \in Keys /\ <<s, n>>[1] = s
        BY DEF LiveOf, Live, Keys
      <4> QED
        BY <3>1, <4>1
    <3> QED
      BY <3>2, <3>3 DEF TreeOf
  <2> QED
    BY <2>3, <2>4 DEF t
<1> DEFINE Clean == (queue # <<>> /\ queue' = Tail(queue)) =>
                      LET t == Head(queue)
                      IN  /\ \A s \in Surfaces \ {t.surface} : TreeOf(host', s) = TreeOf(host, s)
                          /\ answer' = "failed" => LeavesNothing(host, t, host')
<1>3. IInv /\ [Next]_vars => [Clean]_vars
  BY <1>1, <1>2
<1> HIDE DEF Clean
<1>4. Spec => [][Clean]_vars
  BY <1>3, IInvHolds, PTL DEF Spec
<1> QED
  BY <1>4 DEF FailedLeavesNothing, Clean

(***************************************************************************)
(* Trees                                                                   *)
(***************************************************************************)
(* A growing chain of subsets of a finite set stands still, or has gained  *)
(* an element with each step.                                              *)
LEMMA ChainStops ==
  ASSUME NEW S, IsFiniteSet(S), NEW n \in Nat, NEW f,
         \A d \in 0..n : f[d] \subseteq S,
         \A d \in 0..(n - 1) : f[d] \subseteq f[d + 1]
  PROVE  \/ \E d \in 0..(n - 1) : f[d] = f[d + 1]
         \/ Cardinality(f[n]) >= n + Cardinality(f[0])
PROOF
<1> SUFFICES ASSUME \A d \in 0..(n - 1) : f[d] # f[d + 1]
             PROVE  Cardinality(f[n]) >= n + Cardinality(f[0])
  OBVIOUS
<1> DEFINE c(d) == Cardinality(f[d])
           T == {d \in Nat : d <= n => c(d) >= d + c(0)}
<1>1. \A d \in 0..n : IsFiniteSet(f[d]) /\ c(d) \in Nat
  <2> TAKE d \in 0..n
  <2>1. f[d] \in SUBSET S
    OBVIOUS
  <2>2. IsFiniteSet(f[d])
    BY <2>1, FS_Subset
  <2> QED
    BY <2>2, FS_CardinalityType
<1>2. \A d \in 0..(n - 1) : c(d) < c(d + 1)
  <2> TAKE d \in 0..(n - 1)
  <2>1. d \in 0..n /\ d + 1 \in 0..n
    OBVIOUS
  <2>2. f[d] \in SUBSET f[d + 1] /\ f[d] # f[d + 1] /\ IsFiniteSet(f[d + 1])
    BY <1>1, <2>1
  <2>3. c(d) <= c(d + 1) /\ c(d + 1) # c(d)
    BY <2>2, FS_Subset
  <2>4. c(d) \in Nat /\ c(d + 1) \in Nat
    BY <1>1, <2>1
  <2> HIDE DEF c
  <2> QED
    BY <2>3, <2>4
<1> HIDE DEF c
<1>3. 0 \in T
  BY <1>1
<1>4. ASSUME NEW d \in Nat, d \in T PROVE d + 1 \in T
  <2>1. CASE d + 1 <= n
    <3>1. d \in 0..(n - 1) /\ d \in 0..n /\ d + 1 \in 0..n /\ 0 \in 0..n
      BY <2>1
    <3>2. c(d) >= d + c(0) /\ c(d) < c(d + 1)
      BY <1>2, <1>4, <3>1
    <3>3. c(d) \in Nat /\ c(d + 1) \in Nat /\ c(0) \in Nat
      BY <1>1, <3>1
    <3> QED
      BY <3>2, <3>3
  <2> QED
    BY <2>1
<1> HIDE DEF T
<1>5. Nat \subseteq T
  BY <1>3, <1>4, NatSet
<1>6. c(n) >= n + c(0)
  BY <1>5 DEF T
<1> QED
  BY <1>6 DEF c

(* A chain each of whose members depends on the one before stays where it  *)
(* stood still once.                                                       *)
LEMMA ChainStays ==
  ASSUME NEW n \in Nat, NEW f, NEW d \in 0..(n - 1), f[d] = f[d + 1],
         \A i, j \in 0..(n - 1) : f[i] = f[j] => f[i + 1] = f[j + 1]
  PROVE  f[n] = f[d]
PROOF
<1> DEFINE T == {m \in Nat : d + m <= n => f[d + m] = f[d]}
<1>1. 0 \in T
  <2>1. d + 0 = d
    OBVIOUS
  <2> QED
    BY <2>1, Zenon
<1>2. ASSUME NEW m \in Nat, m \in T PROVE m + 1 \in T
  <2>1. CASE d + (m + 1) <= n
    <3>1. d + m \in 0..(n - 1) /\ (d + m) + 1 = d + (m + 1) /\ d + m <= n
      BY <2>1
    <3>2. f[d + m] = f[d]
      BY <1>2, <3>1
    <3>3. f[(d + m) + 1] = f[d + 1]
      BY <3>1, <3>2
    <3> QED
      BY <3>1, <3>3
  <2> QED
    BY <2>1
<1> HIDE DEF T
<1>3. n - d \in T
  <2>1. Nat \subseteq T
    BY <1>1, <1>2, NatSet
  <2> QED
    BY <2>1
<1>4. d + (n - d) = n
  OBVIOUS
<1> QED
  BY <1>3, <1>4 DEF T

(* What an object hangs on is there.                                       *)
Hangs(h) ==
  \A k \in Live(h) : h.object[k].parent # OnRoot => <<k[1], h.object[k].parent>> \in Live(h)

(* With an object of C, C has what it hangs on.                            *)
Closed(h, s, C) ==
  \A j \in C : h.object[j].parent # OnRoot => <<s, h.object[j].parent>> \in C

Higher(h, s, A) ==
  A \cup {<<s, h.object[j].parent>> : j \in {i \in A : h.object[i].parent # OnRoot}}

Climbs(h, k, up) ==
  /\ Lineage(h, k) = up[Cardinality(Nodes)]
  /\ up[0] = {k}
  /\ \A d \in 0..(Cardinality(Nodes) - 1) : up[d + 1] = Higher(h, k[1], up[d])

(* Lineage is the last step of a climb.                                    *)
LEMMA LineageClimbs ==
  ASSUME NEW h, NEW k
  PROVE  \E up : Climbs(h, k, up)
PROOF
<1> DEFINE n  == Cardinality(Nodes)
           up == CHOOSE u : Climb(h, k, n, u)
<1>1. n \in Nat
  BY MountAssumption, FS_CardinalityType
<1> HIDE DEF n
<1>2. Climb(h, k, n, up)
  BY <1>1, ClimbExists, Zenon
<1>3. Lineage(h, k) = up[n]
  BY Zenon DEF Lineage, Climb, n
<1> HIDE DEF up
<1>4. \A d \in 0..n : up[d] = IF d = 0 THEN {k} ELSE Higher(h, k[1], up[d - 1])
  BY <1>2 DEF Climb, Higher
<1>5. up[0] = {k}
  BY <1>1, <1>4
<1>6. \A d \in 0..(n - 1) : up[d + 1] = Higher(h, k[1], up[d])
  <2> TAKE d \in 0..(n - 1)
  <2>1. d + 1 \in 0..n /\ d + 1 # 0 /\ (d + 1) - 1 = d
    BY <1>1
  <2>2. up[d + 1] = IF d + 1 = 0 THEN {k} ELSE Higher(h, k[1], up[(d + 1) - 1])
    BY <1>4, <2>1, Zenon
  <2> QED
    BY <2>1, <2>2, Zenon
<1> QED
  BY <1>3, <1>5, <1>6, Zenon DEF n, Climbs

(* It is the least set that has k and is closed.                           *)
LEMMA LineageIsLeast ==
  ASSUME NEW h, NEW k, NEW C, k \in C, Closed(h, k[1], C)
  PROVE  Lineage(h, k) \subseteq C
PROOF
<1> DEFINE n == Cardinality(Nodes)
           s == k[1]
<1>1. n \in Nat
  BY MountAssumption, FS_CardinalityType
<1>0. PICK up : Climbs(h, k, up)
  BY LineageClimbs
<1>2. /\ Lineage(h, k) = up[n] /\ up[0] = {k}
      /\ \A d \in 0..(n - 1) : up[d + 1] = Higher(h, s, up[d])
  BY <1>0 DEF Climbs
<1> HIDE DEF n
<1>3. \A A \in SUBSET C : Higher(h, s, A) \subseteq C
  BY DEF Closed, Higher
<1> DEFINE T == {d \in Nat : d <= n => up[d] \subseteq C}
<1>4. 0 \in T
  BY <1>2
<1>5. ASSUME NEW d \in Nat, d \in T PROVE d + 1 \in T
  <2>1. CASE d + 1 <= n
    <3>1. d \in 0..(n - 1) /\ d <= n
      BY <1>1, <2>1
    <3> QED
      BY <1>2, <1>3, <1>5, <3>1
  <2> QED
    BY <2>1
<1> HIDE DEF T
<1>6. Nat \subseteq T
  BY <1>4, <1>5, NatSet
<1> QED
  BY <1>1, <1>2, <1>6 DEF T

(* There are no more steps up than nodes, so the climb has come to its end.*)
LEMMA LineageIsClosed ==
  ASSUME NEW h, Hangs(h), NEW k \in Live(h)
  PROVE  Closed(h, k[1], Lineage(h, k))
PROOF
<1> DEFINE n == Cardinality(Nodes)
           s == k[1]
<1>1. n \in Nat
  BY MountAssumption, FS_CardinalityType
<1>0. PICK up : Climbs(h, k, up)
  BY LineageClimbs
<1>2. /\ Lineage(h, k) = up[n] /\ up[0] = {k}
      /\ \A d \in 0..(n - 1) : up[d + 1] = Higher(h, s, up[d])
  BY <1>0 DEF Climbs
<1> DEFINE T == {d \in Nat : d <= n => up[d] \subseteq LiveOf(h, s)}
<1>3. \A d \in 0..n : up[d] \subseteq LiveOf(h, s)
  <2> HIDE DEF n
  <2>1. 0 \in T
    BY <1>2 DEF LiveOf
  <2>2. \A A \in SUBSET LiveOf(h, s) : Higher(h, s, A) \subseteq LiveOf(h, s)
    BY DEF Higher, Hangs, LiveOf
  <2>3. ASSUME NEW d \in Nat, d \in T PROVE d + 1 \in T
    <3>1. CASE d + 1 <= n
      <4>1. d \in 0..(n - 1) /\ d <= n
        BY <1>1, <3>1
      <4> QED
        BY <1>2, <2>2, <2>3, <4>1
    <3> QED
      BY <3>1
  <2> HIDE DEF T
  <2>4. Nat \subseteq T
    BY <2>1, <2>3, NatSet
  <2> QED
    BY <2>4 DEF T
<1> DEFINE f == [d \in 0..n |-> {j[2] : j \in up[d]}]
<1>4. \A d \in 0..n : f[d] = {j[2] : j \in up[d]}
  OBVIOUS
<1>5. \A d \in 0..n : f[d] \subseteq Nodes
  <2>1. \A j \in LiveOf(h, s) : j[2] \in Nodes
    BY DEF LiveOf, Live, Keys
  <2> QED
    BY <1>3, <1>4, <2>1, Zenon
<1>6. \A d \in 0..(n - 1) : d \in 0..n /\ d + 1 \in 0..n /\ up[d] \subseteq up[d + 1]
  BY <1>1, <1>2 DEF Higher
<1> HIDE DEF f, n
<1>7. \A d \in 0..(n - 1) : f[d] \subseteq f[d + 1]
  BY <1>4, <1>6
<1>8. \A d \in 0..n : \A j \in up[d] : j = <<s, j[2]>>
  BY <1>3 DEF LiveOf, Live, Keys
<1>9. \A d, e \in 0..n : f[d] = f[e] => up[d] = up[e]
  <2>1. ASSUME NEW d \in 0..n, NEW e \in 0..n, f[d] = f[e] PROVE up[d] \subseteq up[e]
    <3> SUFFICES ASSUME NEW j \in up[d] PROVE j \in up[e]
      OBVIOUS
    <3>1. PICK i \in up[e] : i[2] = j[2]
      BY <1>4, <2>1
    <3>2. i = <<s, j[2]>> /\ j = <<s, j[2]>>
      BY <1>8, <3>1, Zenon
    <3> QED
      BY <3>1, <3>2, Zenon
  <2> QED
    BY <2>1
<1>10. \E d \in 0..(n - 1) : f[d] = f[d + 1]
  <2>1. Cardinality(f[n]) <= n
    <3>1. f[n] \in SUBSET Nodes
      BY <1>1, <1>5
    <3> QED
      BY <3>1, MountAssumption, FS_Subset DEF n
  <2>2. Cardinality(f[0]) = 1
    <3>1. f[0] = {k[2]}
      BY <1>1, <1>2, <1>4
    <3> QED
      BY <3>1, FS_Singleton
  <2>3. f[n] \in SUBSET Nodes /\ IsFiniteSet(f[n]) /\ Cardinality(f[n]) \in Nat
    <3>1. f[n] \in SUBSET Nodes
      BY <1>1, <1>5
    <3>2. IsFiniteSet(f[n])
      BY <3>1, MountAssumption, FS_Subset
    <3> QED
      BY <3>1, <3>2, FS_CardinalityType
  <2>4. ~(Cardinality(f[n]) >= n + Cardinality(f[0]))
    BY <1>1, <2>1, <2>2, <2>3
  <2> QED
    BY <1>1, <1>5, <1>7, <2>4, MountAssumption, ChainStops
<1>11. PICK d \in 0..(n - 1) : f[d] = f[d + 1]
  BY <1>10
<1>12. up[d] = up[d + 1]
  BY <1>6, <1>9, <1>11
<1>13. up[n] = up[d]
  <2>1. \A i, j \in 0..(n - 1) : up[i] = up[j] => up[i + 1] = up[j + 1]
    BY <1>2, Zenon
  <2> QED
    BY <1>1, <1>12, <2>1, ChainStays
<1>14. Higher(h, s, up[n]) = up[n]
  BY <1>2, <1>12, <1>13, Zenon
<1> QED
  BY <1>2, <1>14 DEF Closed, Higher

(* What goes with keys: all that hangs on what goes, and nothing that does *)
(* not hang on a key.                                                      *)
LEMMA DeadFacts ==
  ASSUME NEW h, Hangs(h), NEW keys
  PROVE  /\ Dead(h, keys) \subseteq Live(h) /\ keys \cap Live(h) \subseteq Dead(h, keys)
         /\ \A j \in Live(h) : h.object[j].parent # OnRoot
              /\ <<j[1], h.object[j].parent>> \in Dead(h, keys) => j \in Dead(h, keys)
         /\ \A s, C : C \subseteq LiveOf(h, s) /\ Closed(h, s, C) /\ C \cap keys = {}
              => C \cap Dead(h, keys) = {}
PROOF
<1>1. Dead(h, keys) \subseteq Live(h) /\ keys \cap Live(h) \subseteq Dead(h, keys)
  BY LineageStartsHere DEF Dead
<1>2. ASSUME NEW j \in Live(h), h.object[j].parent # OnRoot,
             <<j[1], h.object[j].parent>> \in Dead(h, keys)
      PROVE  j \in Dead(h, keys)
  <2> DEFINE p == <<j[1], h.object[j].parent>>
  <2>1. p \in Lineage(h, j) /\ Closed(h, p[1], Lineage(h, j))
    BY <1>2, LineageStartsHere, LineageIsClosed DEF Closed
  <2>2. Lineage(h, p) \subseteq Lineage(h, j)
    BY <2>1, LineageIsLeast
  <2>3. Lineage(h, p) \cap keys # {}
    BY <1>2 DEF Dead
  <2> QED
    BY <2>2, <2>3 DEF Dead
<1>3. ASSUME NEW s, NEW C, C \subseteq LiveOf(h, s), Closed(h, s, C), C \cap keys = {}
      PROVE  C \cap Dead(h, keys) = {}
  <2> SUFFICES ASSUME NEW j \in C PROVE j \notin Dead(h, keys)
    OBVIOUS
  <2>1. j[1] = s
    BY <1>3 DEF LiveOf
  <2>2. Lineage(h, j) \subseteq C
    BY <1>3, <2>1, LineageIsLeast
  <2> QED
    BY <1>3, <2>2 DEF Dead
<1> QED
  BY <1>1, <1>2, <1>3, Zenon

(***************************************************************************)
(* What an operation that succeeds does to the tree                        *)
(***************************************************************************)
(* The same objects under the same parents.                                *)
SameTree(h, g) ==
  Live(g) = Live(h) /\ \A j \in Live(h) : g.object[j].parent = h.object[j].parent

(* One more object, which hangs on the page root.                          *)
Grown(h, g, k) ==
  /\ k \in Keys \ Live(h) /\ Live(g) = Live(h) \cup {k} /\ g.object[k].parent = OnRoot
  /\ \A j \in Live(h) : g.object[j].parent = h.object[j].parent

(* One object hangs on another.                                            *)
Hung(h, g, k, p) ==
  /\ k \in Live(h) /\ <<k[1], p>> \in Live(h) /\ Live(g) = Live(h)
  /\ g.object[k].parent = p
  /\ \A j \in Live(h) \ {k} : g.object[j].parent = h.object[j].parent

(* One object is gone, with all that hung on it.                           *)
Pruned(h, g, k) ==
  /\ k \in Live(h) /\ Live(g) = Live(h) \ Dead(h, {k})
  /\ \A j \in Live(g) : g.object[j].parent = h.object[j].parent

(* An object that keeps its parent may change otherwise.                   *)
LEMMA SameParentSameTree ==
  ASSUME NEW h, Shaped(h), NEW k \in Live(h), NEW o, IsObject(o),
         o.parent = h.object[k].parent
  PROVE  SameTree(h, WithObject(h, k, o))
PROOF
<1>1. k \in Keys
  BY DEF Live
<1>2. LET g == WithObject(h, k, o)
      IN  /\ g.object[k] = o /\ \A j \in Keys \ {k} : g.object[j] = h.object[j]
          /\ Live(g) = Live(h) \cup {k}
  BY <1>1, WithObjectFacts
<1>3. \A j \in Live(h) : j \in Keys
  BY DEF Live
<1> QED
  BY <1>2, <1>3 DEF SameTree

(* Setting a field other than the parent.                                  *)
LEMMA FieldLeavesTree ==
  ASSUME NEW h, Shaped(h), NEW k \in Live(h), NEW field \in Fields \ {"type", "parent"}, NEW v,
         field = "font" => v \in Fonts
  PROVE  SameTree(h, WithObject(h, k, [h.object[k] EXCEPT ![field] = v]))
PROOF
<1> DEFINE o == [h.object[k] EXCEPT ![field] = v]
<1>1. IsObject(h.object[k])
  BY DEF Shaped
<1>2. IsObject(o) /\ o.parent = h.object[k].parent
  BY <1>1 DEF IsObject, Fields
<1> HIDE DEF o
<1>3. SameTree(h, WithObject(h, k, o))
  BY <1>2, SameParentSameTree
<1> QED
  BY <1>3 DEF o

(* Setting one does what it says.                                          *)
LEMMA ParentSet ==
  ASSUME NEW h, Shaped(h), NEW k \in Live(h), NEW p, <<k[1], p>> \in Live(h)
  PROVE  Hung(h, WithObject(h, k, [h.object[k] EXCEPT !["parent"] = p]), k, p)
PROOF
<1> DEFINE o == [h.object[k] EXCEPT !["parent"] = p]
           g == WithObject(h, k, o)
<1>1. k \in Keys /\ IsObject(h.object[k]) /\ \A j \in Live(h) : j \in Keys
  BY DEF Shaped, Live
<1>2. IsObject(o) /\ o.parent = p
  BY <1>1 DEF IsObject, Fields
<1> HIDE DEF o
<1>3. /\ g.object[k] = o /\ \A j \in Keys \ {k} : g.object[j] = h.object[j]
      /\ Live(g) = Live(h) \cup {k}
  BY <1>1, <1>2, WithObjectFacts
<1> HIDE DEF g
<1>4. Hung(h, g, k, p)
  BY <1>1, <1>2, <1>3 DEF Hung
<1> QED
  BY <1>4 DEF g, o

(* Taking another font.                                                    *)
LEMMA RetainedLeavesTree ==
  ASSUME NEW h, Shaped(h), NEW k \in Live(h), NEW f \in Fonts, NEW size \in Int,
         NEW old \in Fonts \cup {NoFont}
  PROVE  LET g == Retained(h, f, size, old)
         IN  SameTree(h, WithObject(g, k, [g.object[k] EXCEPT !["font"] = f]))
PROOF
<1> DEFINE g == Retained(h, f, size, old)
           i == WithObject(g, k, [g.object[k] EXCEPT !["font"] = f])
<1>1. /\ DOMAIN g = DOMAIN h /\ g.object = h.object
      /\ g.bound = h.bound /\ g.stray = h.stray
      /\ g.font \in [Fonts -> [size : Int, references : Int]]
      /\ \A e \in Fonts :
           /\ g.font[e].size = IF e = f THEN size ELSE h.font[e].size
           /\ g.font[e].references = h.font[e].references + (IF e = f THEN 1 ELSE 0)
                                                          - (IF e = old THEN 1 ELSE 0)
  BY RetainedFacts
<1> HIDE DEF g
<1>2. Live(g) = Live(h)
  BY <1>1 DEF Live
<1>3. Shaped(g)
  BY <1>1, <1>2 DEF Shaped
<1>4. SameTree(g, i)
  BY <1>2, <1>3, FieldLeavesTree DEF Fields
<1>5. SameTree(h, i)
  BY <1>1, <1>2, <1>4 DEF SameTree
<1> QED
  BY <1>5 DEF g

LEMMA WithFontLeavesTree ==
  ASSUME NEW h, Shaped(h), NEW k \in Live(h), NEW size \in Int
  PROVE  SameTree(h, WithFont(h, k, size).host)
PROOF
<1> DEFINE f   == FontFor(h, size)
           old == h.object[k].font
           g   == Retained(h, f, size, old)
           i   == WithObject(g, k, [g.object[k] EXCEPT !["font"] = f])
<1>1. CASE f = NoFont
  BY <1>1 DEF WithFont, Broken, SameTree
<1>2. CASE f # NoFont
  <2>1. f \in Fonts
    BY <1>2, FontForFacts
  <2>2. old \in Fonts \cup {NoFont}
    BY DEF Shaped, IsObject
  <2>3. WithFont(h, k, size) = Done(i)
    <3>1. [g EXCEPT !.object[k].font = f] = i
      BY DEF WithObject
    <3>2. WithFont(h, k, size) = Done([g EXCEPT !.object[k].font = f])
      BY <1>2, Zenon DEF WithFont, Retained
    <3> QED
      BY <3>1, <3>2, Zenon
  <2>4. SameTree(h, i)
    <3> HIDE DEF f, old
    <3> QED
      BY <2>1, <2>2, RetainedLeavesTree
  <2> HIDE DEF i
  <2> QED
    BY <2>3, <2>4 DEF Done
<1> QED
  BY <1>1, <1>2

(* A property is no place in the tree (applyProp).                         *)
LEMMA PropLeavesTree ==
  ASSUME NEW h, Shaped(h), NEW k,
         NEW name \in {"fontSize", "min", "max", "items", "selected", "src"}, NEW value \in Int
  PROVE  SameTree(h, PropOp(h, k, name, value).host)
PROOF
<1> DEFINE r == PropOp(h, k, name, value)
<1>0. \A g : Done(g).host = g /\ Broken(g).host = g
  BY DEF Done, Broken
<1>1. SameTree(h, h)
  BY DEF SameTree
<1>2. CASE k \notin Live(h)
  BY <1>0, <1>1, <1>2 DEF PropOp
<1>3. CASE k \in Live(h)
  <2>1. CASE name = "fontSize"
    <3>1. r = FontSizeProp(h, k, value)
      BY <1>3, <2>1 DEF PropOp
    <3>2. r = Broken(h) \/ r = Done(h) \/ r = WithFont(h, k, value)
      BY <3>1, Zenon DEF FontSizeProp
    <3> HIDE DEF r
    <3> QED
      BY <1>0, <1>1, <1>3, <3>2, WithFontLeavesTree DEF r
  <2>2. CASE name = "src"
    <3> DEFINE pixels == IF h.decoded # 0 THEN h.decoded ELSE resource
               g == WithPixels(h, pixels)
               i == WithObject(g, k, [g.object[k] EXCEPT !["image"] = pixels])
    <3>1. r = ImageProp(h, k)
      BY <1>3, <2>2 DEF PropOp
    <3>2. Alike(h, g) /\ Shaped(g) /\ g.object = h.object
      BY WithPixelsAlike
    <3>3. [h EXCEPT !.decoded = pixels, !.object[k].image = pixels] = i
      BY DEF WithObject, WithPixels
    <3> HIDE DEF pixels, g
    <3>4. SameTree(g, i)
      BY <1>3, <3>2, FieldLeavesTree DEF Fields, Alike
    <3>5. SameTree(h, i)
      BY <3>2, <3>4 DEF SameTree, Alike
    <3>6. ImageProp(h, k) = Broken(h) \/ ImageProp(h, k) = Done(i)
      BY <3>3, Zenon DEF ImageProp, pixels
    <3> QED
      BY <1>0, <1>1, <3>1, <3>5, <3>6
  <2>3. CASE name \in {"min", "max", "items", "selected"}
    <3>1. \A field \in {"min", "max", "items", "selected"} :
            SameTree(h, WithObject(h, k, [h.object[k] EXCEPT ![field] = value]))
      BY <1>3, FieldLeavesTree DEF Fields
    <3>2. /\ [h EXCEPT !.object[k].min = value]
               = WithObject(h, k, [h.object[k] EXCEPT !["min"] = value])
          /\ [h EXCEPT !.object[k].max = value]
               = WithObject(h, k, [h.object[k] EXCEPT !["max"] = value])
          /\ [h EXCEPT !.object[k].items = value]
               = WithObject(h, k, [h.object[k] EXCEPT !["items"] = value])
          /\ [h EXCEPT !.object[k].selected = value]
               = WithObject(h, k, [h.object[k] EXCEPT !["selected"] = value])
      BY DEF WithObject
    <3>3. \/ r = RangeProp(h, k, name, value) \/ r = ItemsProp(h, k, value)
          \/ r = SelectedProp(h, k, value)
      BY <1>3, <2>3 DEF PropOp
    <3>4. \E g : (r = Done(g) \/ r = Broken(g)) /\ SameTree(h, g)
      BY <3>1, <3>2, <3>3, Zenon DEF RangeProp, ItemsProp, SelectedProp
    <3> HIDE DEF r
    <3> QED
      BY <1>0, <3>4 DEF r
  <2> QED
    BY <2>1, <2>2, <2>3
<1> QED
  BY <1>2, <1>3

(* Creating an object puts it on the page root.                            *)
LEMMA CreateGrowsTree ==
  ASSUME NEW h, Shaped(h), NEW t, NEW i, NEW node \in Nodes, NEW type \in Types,
         t.surface \in Surfaces, t.operations[i].node = node, t.operations[i].type = type,
         <<t.surface, node>> \notin Live(h), CreateOp(h, t, i).ok
  PROVE  Grown(h, CreateOp(h, t, i).host, <<t.surface, node>>)
PROOF
<1> DEFINE k == <<t.surface, node>>
           o == NewObject(type, i = 1 /\ t.mode = "full")
           g == WithObject(h, k, o)
<1>1. k \in Keys /\ k \notin Live(h) /\ \A j \in Live(h) : j \in Keys
  BY DEF Keys, Live
<1>2. IsObject(o) /\ o.parent = OnRoot
  <2>1. IsObject(o)
    BY NewObjectFacts
  <2> QED
    BY <2>1 DEF NewObject
<1> HIDE DEF o
<1>3. /\ DOMAIN g = DOMAIN h /\ DOMAIN g.object = Keys
      /\ g.object[k] = o /\ \A j \in Keys \ {k} : g.object[j] = h.object[j]
      /\ g.font = h.font /\ g.bound = h.bound /\ g.stray = h.stray
      /\ Live(g) = Live(h) \cup {k}
  BY <1>1, <1>2, WithObjectFacts
<1>4. [h EXCEPT !.object[k] = o] = g
  BY DEF WithObject
<1>5. CreateOp(h, t, i) \in {Broken(h), Done(g), WithFont(g, k, DefaultSize)}
  BY <1>4, Zenon DEF CreateOp, k, o
<1> HIDE DEF g
<1>6. Grown(h, g, k)
  BY <1>1, <1>2, <1>3 DEF Grown
<1>7. Shaped(g)
  <2>1. IsFiniteSet(Live(g))
    BY <1>3, FS_AddElement DEF Shaped
  <2>2. \A j \in Live(g) : IsObject(g.object[j])
    BY <1>1, <1>2, <1>3 DEF Shaped
  <2> QED
    BY <1>3, <2>1, <2>2 DEF Shaped
<1>8. SameTree(g, WithFont(g, k, DefaultSize).host)
  <2>1. k \in Live(g) /\ DefaultSize \in Int
    BY <1>3, MountAssumption
  <2> QED
    BY <1>7, <2>1, WithFontLeavesTree
<1>9. Grown(h, WithFont(g, k, DefaultSize).host, k)
  BY <1>6, <1>8 DEF Grown, SameTree
<1>10. ~Broken(h).ok /\ Done(g).host = g
  BY DEF Broken, Done
<1> QED
  BY <1>5, <1>6, <1>9, <1>10, Zenon DEF k

(* Insertions and moves that succeed.                                      *)
LEMMA InsertHangs ==
  ASSUME NEW h, Shaped(h), NEW s, NEW n, NEW p, InsertOp(h, s, n, p).ok
  PROVE  Hung(h, InsertOp(h, s, n, p).host, <<s, n>>, p)
PROOF
<1> DEFINE k == <<s, n>>
           g == WithObject(h, k, [h.object[k] EXCEPT !["parent"] = p])
           i == WithObject(g, k, [g.object[k] EXCEPT !["attached"] = TRUE])
<1>1. [h EXCEPT !.object[<<s, n>>].parent = p, !.object[<<s, n>>].attached = TRUE] = i
  BY DEF WithObject
<1>2. /\ InsertOp(h, s, n, p) = Done(i)
      /\ Found(h, s, n) /\ Found(h, s, p)
  <2>1. ~Broken(h).ok
    BY DEF Broken
  <2> QED
    BY <1>1, <2>1, Zenon DEF InsertOp
<1>3. k \in Live(h) /\ <<k[1], p>> \in Live(h)
  BY <1>2 DEF Found
<1>4. Hung(h, g, k, p)
  BY <1>3, ParentSet
<1>5. Shaped(g)
  BY <1>3, FieldSet DEF Fields
<1> HIDE DEF g
<1>6. SameTree(g, i)
  BY <1>3, <1>4, <1>5, FieldLeavesTree DEF Fields, Hung
<1> HIDE DEF i
<1>7. Hung(h, i, k, p)
  BY <1>4, <1>6 DEF Hung, SameTree
<1> QED
  BY <1>2, <1>7 DEF Done

LEMMA MoveHangs ==
  ASSUME NEW h, Shaped(h), NEW s, NEW n, NEW p, MoveOp(h, s, n, p).ok
  PROVE  Hung(h, MoveOp(h, s, n, p).host, <<s, n>>, p)
PROOF
<1> DEFINE k == <<s, n>>
           g == WithObject(h, k, [h.object[k] EXCEPT !["parent"] = p])
<1>1. [h EXCEPT !.object[<<s, n>>].parent = p] = g
  BY DEF WithObject
<1>2. MoveOp(h, s, n, p) = Done(g) /\ Found(h, s, n) /\ Found(h, s, p)
  <2>1. ~Broken(h).ok
    BY DEF Broken
  <2> QED
    BY <1>1, <2>1, Zenon DEF MoveOp
<1>3. k \in Live(h) /\ <<k[1], p>> \in Live(h)
  BY <1>2 DEF Found
<1>4. Hung(h, g, k, p)
  BY <1>3, ParentSet
<1> HIDE DEF g
<1> QED
  BY <1>2, <1>4 DEF Done

(* A removal that succeeds.                                                *)
LEMMA RemovePrunes ==
  ASSUME NEW h, Shaped(h), NEW k, RemoveOp(h, k).ok
  PROVE  Pruned(h, RemoveOp(h, k).host, k)
PROOF
<1>1. k \in Live(h) /\ RemoveOp(h, k).host = Destroy(h, {k})
  BY DEF RemoveOp, Broken, Done
<1> DEFINE g == Destroy(h, {k})
           dead == Dead(h, {k})
<1>2. \A j \in Keys : g.object[j] = IF j \in dead THEN NoObject ELSE h.object[j]
  BY DestroyFacts
<1> HIDE DEF g, dead
<1>3. Live(g) = Live(h) \ dead /\ \A j \in Live(g) : g.object[j] = h.object[j]
  BY <1>2 DEF Live
<1> QED
  BY <1>1, <1>3 DEF Pruned, g, dead

(* One operation of a transaction, by its kind.                            *)
LEMMA OperateShapes ==
  ASSUME NEW t \in Transactions, NEW i \in DOMAIN t.operations, NEW h, Shaped(h),
         Made(t, i) \cap Live(h) = {}, Operate(h, t, i).ok
  PROVE  LET o == t.operations[i]  k == <<t.surface, o.node>>  g == Operate(h, t, i).host
         IN  /\ o.op = "create" => Grown(h, g, k)
             /\ o.op \in {"prop", "layout"} => SameTree(h, g)
             /\ o.op \in {"insert", "move"} => Hung(h, g, k, o.parent)
             /\ o.op = "remove" => Pruned(h, g, k)
PROOF
<1> DEFINE o == t.operations[i]
           k == <<t.surface, o.node>>
           r == Operate(h, t, i)
<1>1. /\ t.surface \in Surfaces /\ o.node \in Nodes
      /\ o.op \in {"create", "prop", "layout", "remove", "insert", "move"}
      /\ o.op = "create" => o.type \in Types
      /\ o.op = "prop" =>
           /\ o.name \in {"fontSize", "min", "max", "items", "selected", "src"}
           /\ o.value \in Int
  BY OperationShape
<1>2. ASSUME o.op = "create" PROVE Grown(h, r.host, k)
  <2>1. r = CreateOp(h, t, i) /\ k \notin Live(h)
    BY <1>2 DEF Operate, Made
  <2>2. CreateOp(h, t, i).ok
    BY <2>1
  <2>3. Grown(h, CreateOp(h, t, i).host, k)
    BY <1>1, <1>2, <2>1, <2>2, CreateGrowsTree
  <2> QED
    BY <2>1, <2>3
<1>3. ASSUME o.op \in {"prop", "layout"} PROVE SameTree(h, r.host)
  <2>1. CASE o.op = "prop"
    <3>1. r = PropOp(h, k, o.name, o.value)
      BY <2>1 DEF Operate
    <3> QED
      BY <1>1, <2>1, <3>1, PropLeavesTree
  <2>2. CASE o.op = "layout"
    <3>1. r = LayoutOp(h, k)
      BY <2>2 DEF Operate
    <3> QED
      BY <3>1 DEF LayoutOp, Done, Broken, SameTree
  <2> QED
    BY <1>3, <2>1, <2>2
<1>4. ASSUME o.op \in {"insert", "move"} PROVE Hung(h, r.host, k, o.parent)
  <2>1. CASE o.op = "insert"
    <3>1. r = InsertOp(h, t.surface, o.node, o.parent)
      BY <2>1 DEF Operate
    <3>2. InsertOp(h, t.surface, o.node, o.parent).ok
      BY <3>1
    <3>3. Hung(h, InsertOp(h, t.surface, o.node, o.parent).host, k, o.parent)
      BY <3>2, InsertHangs
    <3> QED
      BY <3>1, <3>3
  <2>2. CASE o.op = "move"
    <3>1. r = MoveOp(h, t.surface, o.node, o.parent)
      BY <2>2 DEF Operate
    <3>2. MoveOp(h, t.surface, o.node, o.parent).ok
      BY <3>1
    <3>3. Hung(h, MoveOp(h, t.surface, o.node, o.parent).host, k, o.parent)
      BY <3>2, MoveHangs
    <3> QED
      BY <3>1, <3>3
  <2> QED
    BY <1>4, <2>1, <2>2
<1>5. ASSUME o.op = "remove" PROVE Pruned(h, r.host, k)
  <2>1. r = RemoveOp(h, k)
    BY <1>5 DEF Operate
  <2>2. RemoveOp(h, k).ok
    BY <2>1
  <2>3. Pruned(h, RemoveOp(h, k).host, k)
    BY <2>2, RemovePrunes
  <2> QED
    BY <2>1, <2>3
<1> QED
  BY <1>2, <1>3, <1>4, <1>5

(* What hangs on an object that is there stays so.                         *)
LEMMA TreeStepsHang ==
  ASSUME NEW h, Hangs(h), NEW g, NEW k, NEW p,
         \/ Grown(h, g, k) \/ SameTree(h, g) \/ Hung(h, g, k, p) \/ Pruned(h, g, k)
  PROVE  Hangs(g)
PROOF
<1>1. CASE Grown(h, g, k) \/ SameTree(h, g) \/ Hung(h, g, k, p)
  BY <1>1 DEF Grown, SameTree, Hung, Hangs
<1>2. CASE Pruned(h, g, k)
  <2>1. \A j \in Live(h) : h.object[j].parent # OnRoot
          /\ <<j[1], h.object[j].parent>> \in Dead(h, {k}) => j \in Dead(h, {k})
    BY DeadFacts
  <2> QED
    BY <1>2, <2>1 DEF Pruned, Hangs
<1> QED
  BY <1>1, <1>2

(***************************************************************************)
(* Step by step through a transaction                                      *)
(***************************************************************************)
(* A longer course begins as a shorter one does.                           *)
LEMMA CoursesAgree ==
  ASSUME NEW h, NEW t, NEW m \in Nat, NEW n \in Nat, NEW q, NEW r,
         Course(h, t, m, q), Course(h, t, n, r)
  PROVE  \A i \in Nat : i <= m /\ i <= n => q[i] = r[i]
PROOF
<1> DEFINE After(e, i) == IF e.ok THEN Operate(e.host, t, i) ELSE e
           S == {i \in Nat : i <= m /\ i <= n => q[i] = r[i]}
<1>1. /\ \A i \in 0..m : q[i] = IF i = 0 THEN Done(h) ELSE After(q[i - 1], i)
      /\ \A i \in 0..n : r[i] = IF i = 0 THEN Done(h) ELSE After(r[i - 1], i)
  BY DEF Course
<1> HIDE DEF After
<1>2. 0 \in S
  BY <1>1
<1>3. ASSUME NEW i \in Nat, i \in S PROVE i + 1 \in S
  <2> SUFFICES ASSUME i + 1 <= m, i + 1 <= n PROVE q[i + 1] = r[i + 1]
    OBVIOUS
  <2>1. i + 1 \in 0..m /\ i + 1 \in 0..n /\ i + 1 # 0 /\ (i + 1) - 1 = i /\ i <= m /\ i <= n
    OBVIOUS
  <2>2. q[i] = r[i]
    BY <1>3, <2>1
  <2>3. q[i + 1] = After(q[(i + 1) - 1], i + 1) /\ r[i + 1] = After(r[(i + 1) - 1], i + 1)
    BY <1>1, <2>1, Zenon
  <2> QED
    BY <2>1, <2>2, <2>3, Zenon
<1> HIDE DEF S
<1>4. Nat \subseteq S
  BY <1>2, <1>3, NatSet
<1> QED
  BY <1>4 DEF S

(* Operated takes one operation after the other.                           *)
LEMMA OperatedStep ==
  ASSUME NEW h, NEW t
  PROVE  /\ Operated(h, t, 0) = Done(h)
         /\ \A i \in Nat :
              Operated(h, t, i + 1) =
                IF Operated(h, t, i).ok THEN Operate(Operated(h, t, i).host, t, i + 1)
                                        ELSE Operated(h, t, i)
PROOF
<1> DEFINE run(n) == CHOOSE f : Course(h, t, n, f)
<1>1. \A n \in Nat : Course(h, t, n, run(n))
  BY CourseExists, Zenon
<1>2. \A n \in Nat : Operated(h, t, n) = run(n)[n]
  BY Zenon DEF Operated, Course
<1> HIDE DEF run
<1>3. Operated(h, t, 0) = Done(h)
  <2>1. run(0)[0] = Done(h)
    BY <1>1 DEF Course
  <2> QED
    BY <1>2, <2>1
<1>4. ASSUME NEW i \in Nat
      PROVE  Operated(h, t, i + 1) =
                IF Operated(h, t, i).ok THEN Operate(Operated(h, t, i).host, t, i + 1)
                                        ELSE Operated(h, t, i)
  <2>1. /\ i + 1 \in Nat /\ i + 1 \in 0..(i + 1) /\ i + 1 # 0 /\ (i + 1) - 1 = i
        /\ i <= i /\ i <= i + 1
    OBVIOUS
  <2>2. Course(h, t, i + 1, run(i + 1)) /\ Course(h, t, i, run(i))
    BY <1>1, <2>1
  <2>3. run(i + 1)[i] = run(i)[i]
    BY <2>1, <2>2, CoursesAgree
  <2> DEFINE r == run(i + 1)
  <2>4. \A m \in 0..(i + 1) :
          r[m] = IF m = 0 THEN Done(h)
                 ELSE IF r[m - 1].ok THEN Operate(r[m - 1].host, t, m) ELSE r[m - 1]
    BY <2>2 DEF Course
  <2> HIDE DEF r
  <2>5. r[i + 1] = IF r[(i + 1) - 1].ok THEN Operate(r[(i + 1) - 1].host, t, i + 1)
                                        ELSE r[(i + 1) - 1]
    BY <2>1, <2>4, Zenon
  <2>6. Operated(h, t, i + 1) = r[i + 1] /\ Operated(h, t, i) = r[i]
    BY <1>2, <2>1, <2>3, Zenon DEF r
  <2> QED
    BY <2>1, <2>5, <2>6, Zenon
<1> QED
  BY <1>3, <1>4

(***************************************************************************)
(* What a transaction asks for                                             *)
(***************************************************************************)
(* Of the nodes N, each under its parent, L are those left when R and all  *)
(* below them are gone: the greatest set that nothing in it is missing the *)
(* parent of.                                                              *)
Standing(N, par, M) == \A n \in M : par[n] \notin N \ M

Best(N, R, par, L) ==
  /\ L \subseteq N \ R /\ Standing(N, par, L)
  /\ \A M \in SUBSET (N \ R) : Standing(N, par, M) => M \subseteq L

(* It grows by a node that hangs on none that is gone.                     *)
LEMMA BestGrows ==
  ASSUME NEW N, NEW R, NEW par, NEW L, Best(N, R, par, L), R \subseteq N,
         NEW n, n \notin N, NEW new, \A m \in N : new[m] = par[m], new[n] \notin N
  PROVE  Best(N \cup {n}, R, new, L \cup {n})
PROOF
<1>1. L \cup {n} \subseteq (N \cup {n}) \ R
  BY DEF Best
<1>2. Standing(N \cup {n}, new, L \cup {n})
  BY DEF Best, Standing
<1>3. ASSUME NEW M \in SUBSET ((N \cup {n}) \ R), Standing(N \cup {n}, new, M)
      PROVE  M \subseteq L \cup {n}
  <2>1. M \ {n} \in SUBSET (N \ R) /\ Standing(N, par, M \ {n})
    BY <1>3 DEF Standing
  <2>2. M \ {n} \subseteq L
    BY <2>1 DEF Best
  <2> QED
    BY <2>2
<1> QED
  BY <1>1, <1>2, <1>3 DEF Best

(* It stays when one that is left is hung on another that is.              *)
LEMMA BestHangs ==
  ASSUME NEW N, NEW R, NEW par, NEW L, Best(N, R, par, L),
         NEW n \in L, NEW new, new[n] \in L, \A m \in N \ {n} : new[m] = par[m]
  PROVE  Best(N, R, new, L)
PROOF
<1>1. L \subseteq N \ R /\ Standing(N, new, L)
  BY DEF Best, Standing
<1>2. ASSUME NEW M \in SUBSET (N \ R), Standing(N, new, M)
      PROVE  M \subseteq L
  <2>1. M \cup L \in SUBSET (N \ R)
    BY <1>1
  <2>2. Standing(N, par, M \cup L)
    BY <1>1, <1>2 DEF Best, Standing
  <2>3. M \cup L \subseteq L
    BY <2>1, <2>2 DEF Best
  <2> QED
    BY <2>3
<1> QED
  BY <1>1, <1>2 DEF Best

Without(N, par, L, n, K) ==
  /\ K \subseteq L \ {n} /\ Standing(N, par, K)
  /\ \A M \in SUBSET L : n \notin M /\ Standing(N, par, M) => M \subseteq K

(* It loses one node, and no more than has to go with it.                  *)
LEMMA BestPruned ==
  ASSUME NEW N, NEW R, NEW par, NEW L, Best(N, R, par, L), NEW n, NEW K, Without(N, par, L, n, K)
  PROVE  Best(N, R \cup {n}, par, K)
PROOF
<1>1. K \subseteq N \ (R \cup {n})
  BY DEF Best, Without
<1>2. ASSUME NEW M \in SUBSET (N \ (R \cup {n})), Standing(N, par, M)
      PROVE  M \subseteq K
  <2>1. M \in SUBSET (N \ R) /\ n \notin M
    OBVIOUS
  <2>2. M \in SUBSET L
    BY <1>2, <2>1 DEF Best
  <2> QED
    BY <1>2, <2>1, <2>2 DEF Without
<1> QED
  BY <1>1, <1>2 DEF Best, Without

(* After i operations: the nodes there before or created, those removed,   *)
(* and the parent each was last given.                                     *)
Before(h, t) == IF t.mode = "full" THEN {} ELSE {k[2] : k \in LiveOf(h, t.surface)}

Named(h, t, i) ==
  Before(h, t) \cup {t.operations[j].node : j \in {x \in 1..i : t.operations[x].op = "create"}}

Gone(t, i) == {t.operations[j].node : j \in {x \in 1..i : t.operations[x].op = "remove"}}

Placings(t, i) == {j \in 1..i : t.operations[j].op \in {"insert", "move"}}

PlacingsOf(t, i, n) == {j \in Placings(t, i) : t.operations[j].node = n}

Latest(S) == CHOOSE j \in S : \A m \in S : m <= j

Given(h, t, i, n) ==
  IF PlacingsOf(t, i, n) # {}
  THEN t.operations[Latest(PlacingsOf(t, i, n))].parent
  ELSE IF n \in Before(h, t) THEN h.object[<<t.surface, n>>].parent ELSE OnRoot

Plan(h, t, i) == [n \in Nodes |-> Given(h, t, i, n)]

Added(h, t, i, o) ==
  /\ Named(h, t, i + 1) = Named(h, t, i) \cup (IF o.op = "create" THEN {o.node} ELSE {})
  /\ Gone(t, i + 1) = Gone(t, i) \cup (IF o.op = "remove" THEN {o.node} ELSE {})
  /\ Placings(t, i + 1)
       = Placings(t, i) \cup (IF o.op \in {"insert", "move"} THEN {i + 1} ELSE {})
  /\ \A n \in Nodes : Plan(h, t, i + 1)[n] =
       IF o.op \in {"insert", "move"} /\ o.node = n THEN o.parent ELSE Plan(h, t, i)[n]

(* What one more operation adds.                                           *)
LEMMA PlanGrows ==
  ASSUME NEW h, NEW t, NEW i \in Nat
  PROVE  Added(h, t, i, t.operations[i + 1])
PROOF
<1> DEFINE o == t.operations[i + 1]
<1>1. 1..(i + 1) = 1..i \cup {i + 1}
  OBVIOUS
<1>2. Named(h, t, i + 1) = Named(h, t, i) \cup (IF o.op = "create" THEN {o.node} ELSE {})
  BY <1>1 DEF Named
<1>3. Gone(t, i + 1) = Gone(t, i) \cup (IF o.op = "remove" THEN {o.node} ELSE {})
  BY <1>1 DEF Gone
<1>4. Placings(t, i + 1)
        = Placings(t, i) \cup (IF o.op \in {"insert", "move"} THEN {i + 1} ELSE {})
  BY <1>1 DEF Placings
<1>5. ASSUME NEW n \in Nodes
      PROVE  Given(h, t, i + 1, n) =
                IF o.op \in {"insert", "move"} /\ o.node = n THEN o.parent ELSE Given(h, t, i, n)
  <2>1. CASE o.op \in {"insert", "move"} /\ o.node = n
    <3> DEFINE P == PlacingsOf(t, i + 1, n)
    <3>1. i + 1 \in P /\ \A m \in P : m \in Nat /\ m <= i + 1
      BY <1>4, <2>1 DEF PlacingsOf, Placings
    <3> HIDE DEF P
    <3>2. Latest(P) = i + 1
      <4>1. Latest(P) \in P /\ \A m \in P : m <= Latest(P)
        BY <3>1 DEF Latest
      <4> QED
        BY <3>1, <4>1
    <3>3. Given(h, t, i + 1, n) = t.operations[Latest(P)].parent
      BY <3>1, Zenon DEF Given, P
    <3> QED
      BY <2>1, <3>2, <3>3, Zenon
  <2>2. CASE ~(o.op \in {"insert", "move"} /\ o.node = n)
    <3>1. PlacingsOf(t, i + 1, n) = PlacingsOf(t, i, n)
      BY <1>4, <2>2 DEF PlacingsOf
    <3>2. Given(h, t, i + 1, n) = Given(h, t, i, n)
      BY <3>1, Zenon DEF Given
    <3> HIDE DEF o
    <3> QED
      BY <2>2, <3>2, Zenon
  <2> QED
    BY <2>1, <2>2
<1>6. \A n \in Nodes : Plan(h, t, i + 1)[n] =
        IF o.op \in {"insert", "move"} /\ o.node = n THEN o.parent ELSE Plan(h, t, i)[n]
  BY <1>5 DEF Plan
<1> HIDE DEF o
<1>7. Added(h, t, i, o)
  BY <1>2, <1>3, <1>4, <1>6, Zenon DEF Added
<1> QED
  BY <1>7 DEF o

There(g, s) == {k[2] : k \in LiveOf(g, s)}

(* The host after i operations has what they ask for.                      *)
Tracks(h, t, i, g) ==
  /\ Hangs(g)
  /\ Best(Named(h, t, i), Gone(t, i), Plan(h, t, i), There(g, t.surface))
  /\ \A n \in There(g, t.surface) : g.object[<<t.surface, n>>].parent = Plan(h, t, i)[n]
  /\ Gone(t, i) \subseteq Named(h, t, i)
  /\ \A j \in Placings(t, i) : t.operations[j].node \in Named(h, t, i)

(* The nodes there, by the keys of their objects.                          *)
LEMMA ThereFacts ==
  ASSUME NEW g, NEW s
  PROVE  /\ \A n : n \in There(g, s) <=> <<s, n>> \in Live(g)
         /\ There(g, s) \subseteq Nodes
         /\ \A k \in Live(g) : k[1] = s => k = <<s, k[2]>> /\ k[2] \in There(g, s)
PROOF
<1>1. \A k \in Live(g) : k = <<k[1], k[2]>> /\ k[2] \in Nodes
  BY DEF Live, Keys
<1>2. ASSUME NEW n PROVE n \in There(g, s) <=> <<s, n>> \in Live(g)
  <2>1. ASSUME n \in There(g, s) PROVE <<s, n>> \in Live(g)
    <3>1. PICK k \in LiveOf(g, s) : k[2] = n
      BY <2>1 DEF There
    <3>2. k \in Live(g) /\ k[1] = s
      BY DEF LiveOf
    <3> QED
      BY <1>1, <3>1, <3>2, Zenon
  <2>2. ASSUME <<s, n>> \in Live(g) PROVE n \in There(g, s)
    <3>1. <<s, n>> \in LiveOf(g, s) /\ <<s, n>>[2] = n
      BY <2>2 DEF LiveOf
    <3> QED
      BY <3>1, Zenon DEF There
  <2> QED
    BY <2>1, <2>2
<1>3. There(g, s) \subseteq Nodes
  BY <1>1 DEF There, LiveOf
<1>4. ASSUME NEW k \in Live(g), k[1] = s PROVE k = <<s, k[2]>> /\ k[2] \in There(g, s)
  BY <1>1, <1>4 DEF There, LiveOf
<1> QED
  BY <1>2, <1>3, <1>4

(* Nothing is missing its parent in a tree.                                *)
LEMMA HangsStands ==
  ASSUME NEW g, Hangs(g), NEW s, NEW N, N \subseteq Nodes, NEW par,
         \A n \in There(g, s) : g.object[<<s, n>>].parent = par[n]
  PROVE  Standing(N, par, There(g, s))
PROOF
<1> SUFFICES ASSUME NEW n \in There(g, s) PROVE par[n] \notin N \ There(g, s)
  BY DEF Standing
<1>1. <<s, n>> \in Live(g) /\ <<s, n>>[1] = s
  BY ThereFacts
<1>2. CASE par[n] = OnRoot
  BY <1>2, MountAssumption
<1>3. CASE par[n] # OnRoot
  <2>1. <<s, par[n]>> \in Live(g)
    BY <1>1, <1>3 DEF Hangs
  <2> QED
    BY <2>1, ThereFacts
<1> QED
  BY <1>2, <1>3

(* A transaction names nothing but nodes.                                  *)
LEMMA NamedAreNodes ==
  ASSUME NEW t \in Transactions, NEW h, NEW i \in 0..Len(t.operations)
  PROVE  Named(h, t, i) \subseteq Nodes
PROOF
<1>1. \A j \in 1..i : j \in DOMAIN t.operations
  BY MountAssumption
<1>2. \A j \in 1..i : t.operations[j].node \in Nodes
  BY <1>1, OperationShape
<1>3. Before(h, t) \subseteq Nodes
  BY DEF Before, LiveOf, Live, Keys
<1> QED
  BY <1>2, <1>3 DEF Named

(* Each operation does to the tree what it adds to the plan.               *)
LEMMA TracksStep ==
  ASSUME NEW t \in Transactions, NEW h, NEW i \in 0..(Len(t.operations) - 1), NEW g,
         Shaped(g), Tracks(h, t, i, g), Made(t, i + 1) \cap Live(g) = {},
         Operate(g, t, i + 1).ok,
         t.operations[i + 1].op = "create" => t.operations[i + 1].node \notin Named(h, t, i)
  PROVE  Tracks(h, t, i + 1, Operate(g, t, i + 1).host)
PROOF
<1> DEFINE o == t.operations[i + 1]
           s == t.surface
           k == <<s, o.node>>
           f == Operate(g, t, i + 1).host
           N == Named(h, t, i)
           R == Gone(t, i)
           P == Plan(h, t, i)
           Q == Plan(h, t, i + 1)
           L == There(g, s)
<1>1. /\ i \in Nat /\ i \in 0..Len(t.operations) /\ i + 1 \in 0..Len(t.operations)
      /\ i + 1 \in DOMAIN t.operations
  BY MountAssumption
<1>2. /\ o.op = "create" => Grown(g, f, k)
      /\ o.op \in {"prop", "layout"} => SameTree(g, f)
      /\ o.op \in {"insert", "move"} => Hung(g, f, k, o.parent)
      /\ o.op = "remove" => Pruned(g, f, k)
  BY <1>1, OperateShapes
<1>3. /\ Named(h, t, i + 1) = N \cup (IF o.op = "create" THEN {o.node} ELSE {})
      /\ Gone(t, i + 1) = R \cup (IF o.op = "remove" THEN {o.node} ELSE {})
      /\ Placings(t, i + 1)
           = Placings(t, i) \cup (IF o.op \in {"insert", "move"} THEN {i + 1} ELSE {})
      /\ \A n \in Nodes : Q[n] =
           IF o.op \in {"insert", "move"} /\ o.node = n THEN o.parent ELSE P[n]
  <2>1. Added(h, t, i, o)
    BY <1>1, PlanGrows
  <2> HIDE DEF o
  <2> QED
    BY <2>1, Zenon DEF Added
<1>4. /\ Hangs(g) /\ Best(N, R, P, L) /\ \A n \in L : g.object[<<s, n>>].parent = P[n]
      /\ R \subseteq N /\ \A j \in Placings(t, i) : t.operations[j].node \in N
  BY DEF Tracks
<1>5. /\ o.node \in Nodes
      /\ o.op \in {"create", "prop", "layout", "remove", "insert", "move"}
      /\ N \subseteq Nodes
  BY <1>1, OperationShape, NamedAreNodes
<1>6. /\ \A n : n \in L <=> <<s, n>> \in Live(g)
      /\ \A n : n \in There(f, s) <=> <<s, n>> \in Live(f)
      /\ L \subseteq Nodes
  BY ThereFacts
<1>7. Hangs(f)
  <2>1. Grown(g, f, k) \/ SameTree(g, f) \/ Hung(g, f, k, o.parent) \/ Pruned(g, f, k)
    BY <1>2, <1>5
  <2> HIDE DEF f, k, o
  <2> QED
    BY <1>4, <2>1, TreeStepsHang
<1>8. SUFFICES /\ Best(Named(h, t, i + 1), Gone(t, i + 1), Q, There(f, s))
               /\ \A n \in There(f, s) : f.object[<<s, n>>].parent = Q[n]
               /\ Gone(t, i + 1) \subseteq Named(h, t, i + 1)
               /\ \A j \in Placings(t, i + 1) : t.operations[j].node \in Named(h, t, i + 1)
  BY <1>7, <1>8 DEF Tracks
<1>9. L \subseteq N
  BY <1>4 DEF Best
<1> HIDE DEF f, N, R, P, Q, L, o
<1>10. \A n, m : <<s, n>> = <<s, m>> <=> n = m
  OBVIOUS
<1>11. k[1] = s
  OBVIOUS
<1>12. CASE o.op = "create"
  <2>1. Grown(g, f, k) /\ o.node \notin N
    BY <1>2, <1>12 DEF o, N
  <2>2. There(f, s) = L \cup {o.node}
    BY <1>6, <1>10, <2>1 DEF Grown
  <2>3. /\ Named(h, t, i + 1) = N \cup {o.node} /\ Gone(t, i + 1) = R
        /\ Placings(t, i + 1) = Placings(t, i)
        /\ \A n \in Nodes : Q[n] = P[n]
    BY <1>3, <1>12
  <2>4. P[o.node] = OnRoot
    <3>1. PlacingsOf(t, i, o.node) = {}
      BY <1>4, <2>1 DEF PlacingsOf
    <3>2. o.node \notin Before(h, t)
      BY <2>1 DEF N, Named
    <3>3. Given(h, t, i, o.node) = OnRoot
      BY <3>1, <3>2 DEF Given
    <3> QED
      BY <1>5, <3>3 DEF Plan, P
  <2>5. Best(N \cup {o.node}, R, Q, L \cup {o.node})
    <3>1. \A m \in N : Q[m] = P[m]
      BY <1>5, <2>3
    <3>2. Q[o.node] \notin N
      BY <1>5, <2>3, <2>4, MountAssumption
    <3> QED
      BY <1>4, <2>1, <3>1, <3>2, BestGrows
  <2>6. \A n \in There(f, s) : f.object[<<s, n>>].parent = Q[n]
    <3>1. f.object[k].parent = OnRoot
      BY <2>1 DEF Grown
    <3>2. \A n \in L : n # o.node
      BY <1>9, <2>1
    <3>3. \A n \in L : f.object[<<s, n>>].parent = g.object[<<s, n>>].parent
      BY <1>6, <1>10, <2>1, <3>2 DEF Grown
    <3> QED
      BY <1>4, <1>5, <1>6, <2>2, <2>3, <2>4, <3>1, <3>3
  <2> QED
    BY <1>4, <2>2, <2>3, <2>5, <2>6
<1>13. CASE o.op \in {"prop", "layout"}
  <2>1. SameTree(g, f)
    BY <1>2, <1>13
  <2>2. There(f, s) = L
    BY <1>6, <2>1 DEF SameTree
  <2>3. /\ Named(h, t, i + 1) = N /\ Gone(t, i + 1) = R
        /\ Placings(t, i + 1) = Placings(t, i)
        /\ \A n \in Nodes : Q[n] = P[n]
    BY <1>3, <1>13
  <2>4. Q = P
    BY <2>3 DEF Q, P, Plan
  <2> QED
    BY <1>4, <1>6, <2>1, <2>2, <2>3, <2>4 DEF SameTree
<1>14. CASE o.op \in {"insert", "move"}
  <2>1. Hung(g, f, k, o.parent)
    BY <1>2, <1>14
  <2>2. There(f, s) = L
    BY <1>6, <2>1 DEF Hung
  <2>3. /\ Named(h, t, i + 1) = N /\ Gone(t, i + 1) = R
        /\ Placings(t, i + 1) = Placings(t, i) \cup {i + 1}
        /\ \A n \in Nodes \ {o.node} : Q[n] = P[n]
        /\ Q[o.node] = o.parent
    BY <1>3, <1>5, <1>14
  <2>4. o.node \in L /\ o.parent \in L
    BY <1>6, <1>11, <2>1 DEF Hung
  <2>5. Best(N, R, Q, L)
    <3>1. \A m \in N \ {o.node} : Q[m] = P[m]
      BY <1>5, <2>3
    <3> QED
      BY <1>4, <2>3, <2>4, <3>1, BestHangs
  <2>6. \A n \in There(f, s) : f.object[<<s, n>>].parent = Q[n]
    <3>1. f.object[k].parent = o.parent
      BY <2>1 DEF Hung
    <3>2. \A n \in L \ {o.node} : f.object[<<s, n>>].parent = g.object[<<s, n>>].parent
      BY <1>6, <1>10, <2>1 DEF Hung
    <3> QED
      BY <1>4, <1>6, <2>2, <2>3, <3>1, <3>2
  <2>7. \A j \in Placings(t, i + 1) : t.operations[j].node \in N
    BY <1>4, <1>9, <2>3, <2>4 DEF o
  <2> QED
    BY <1>4, <2>2, <2>3, <2>5, <2>6, <2>7
<1>15. CASE o.op = "remove"
  <2>1. Pruned(g, f, k)
    BY <1>2, <1>15
  <2>2. /\ Named(h, t, i + 1) = N /\ Gone(t, i + 1) = R \cup {o.node}
        /\ Placings(t, i + 1) = Placings(t, i)
        /\ \A n \in Nodes : Q[n] = P[n]
    BY <1>3, <1>15
  <2>3. Q = P
    BY <2>2 DEF Q, P, Plan
  <2> DEFINE K == There(f, s)
  <2>4. \A n : n \in K <=> n \in L /\ <<s, n>> \notin Dead(g, {k})
    BY <1>6, <2>1 DEF Pruned
  <2>5. o.node \in L /\ k \in Dead(g, {k})
    <3>1. {k} \cap Live(g) \subseteq Dead(g, {k})
      BY <1>4, DeadFacts
    <3> QED
      BY <1>6, <2>1, <3>1 DEF Pruned
  <2>6. K \subseteq L \ {o.node}
    BY <2>4, <2>5
  <2>7. \A n \in K : f.object[<<s, n>>].parent = P[n]
    BY <1>4, <1>6, <2>1, <2>4 DEF Pruned
  <2>8. Standing(N, P, K)
    BY <1>5, <1>7, <2>7, HangsStands
  <2>9. ASSUME NEW M \in SUBSET L, o.node \notin M, Standing(N, P, M)
        PROVE  M \subseteq K
    <3> DEFINE C == {<<s, n>> : n \in M}
    <3>1. C \subseteq LiveOf(g, s)
      BY <1>6 DEF LiveOf
    <3>2. Closed(g, s, C)
      <4> SUFFICES ASSUME NEW n \in M, g.object[<<s, n>>].parent # OnRoot
                   PROVE  <<s, g.object[<<s, n>>].parent>> \in C
        BY DEF Closed
      <4>1. g.object[<<s, n>>].parent = P[n] /\ <<s, n>> \in Live(g) /\ <<s, n>>[1] = s
        BY <1>4, <1>6
      <4>2. <<s, P[n]>> \in Live(g)
        BY <1>4, <4>1 DEF Hangs
      <4>3. P[n] \in N
        BY <1>6, <1>9, <4>2
      <4>4. P[n] \in M
        BY <2>9, <4>3 DEF Standing
      <4> QED
        BY <4>1, <4>4
    <3>3. C \cap {k} = {}
      BY <2>9
    <3>4. C \cap Dead(g, {k}) = {}
      <4> HIDE DEF C, k
      <4> QED
        BY <1>4, <3>1, <3>2, <3>3, DeadFacts
    <3> QED
      BY <2>4, <3>4
  <2>10. Best(N, R \cup {o.node}, P, K)
    <3> HIDE DEF K
    <3>1. Without(N, P, L, o.node, K)
      BY <2>6, <2>8, <2>9, Zenon DEF Without
    <3> QED
      BY <1>4, <3>1, BestPruned
  <2> QED
    BY <1>4, <1>9, <2>2, <2>3, <2>5, <2>7, <2>10
<1> QED
  BY <1>5, <1>12, <1>13, <1>14, <1>15

(* A surface that is empty has no one's parent.                            *)
LEMMA EmptySurfaceHangs ==
  ASSUME NEW h, Hangs(h), NEW g, NEW s, Apart(h, g, s), LiveOf(g, s) = {}
  PROVE  Hangs(g)
PROOF
<1> SUFFICES ASSUME NEW k \in Live(g), g.object[k].parent # OnRoot
             PROVE  <<k[1], g.object[k].parent>> \in Live(g)
  BY DEF Hangs
<1>1. k \in Keys /\ k[1] # s
  BY DEF LiveOf, Live
<1>2. g.object[k] = h.object[k] /\ k \in Live(h)
  BY <1>1 DEF Apart, Live
<1> DEFINE p == <<k[1], h.object[k].parent>>
<1>3. p \in Live(h) /\ p \in Keys
  BY <1>2 DEF Hangs, Live
<1>4. p[1] = k[1]
  OBVIOUS
<1> HIDE DEF p
<1>5. g.object[p] = h.object[p]
  BY <1>1, <1>3, <1>4 DEF Apart
<1>6. p \in Live(g)
  BY <1>3, <1>5 DEF Live
<1> QED
  BY <1>2, <1>6 DEF p

(* Where a transaction begins: the surface as it is, or emptied.           *)
Base(h, t) == IF t.mode = "full" THEN DestroySurface(h, t.surface) ELSE h

(* What it begins with is kept, and has the nodes of before.               *)
LEMMA BaseFacts ==
  ASSUME NEW t \in Transactions, t.surface \in root, NEW h, Keeps(h, {}), Hangs(h)
  PROVE  /\ Keeps(Base(h, t), {}) /\ Hangs(Base(h, t))
         /\ Before(h, t) = There(Base(h, t), t.surface)
         /\ t.mode # "full" => Base(h, t) = h
PROOF
<1>1. CASE t.mode = "full"
  <2>1. Base(h, t) = DestroySurface(h, t.surface)
    BY <1>1 DEF Base
  <2>2. /\ Keeps(Base(h, t), {}) /\ LiveOf(Base(h, t), t.surface) = {}
        /\ Apart(h, Base(h, t), t.surface)
    <3>1. \A k \in {} : k[1] = t.surface
      OBVIOUS
    <3> QED
      BY <2>1, <3>1, DestroySurfaceKeeps
  <2>3. Hangs(Base(h, t))
    BY <2>2, EmptySurfaceHangs
  <2> QED
    BY <1>1, <2>2, <2>3 DEF Before, There
<1>2. CASE t.mode # "full"
  BY <1>2 DEF Base, Before, There
<1> QED
  BY <1>1, <1>2

(* Nothing is done yet, and nothing asked for.                             *)
LEMMA TracksStart ==
  ASSUME NEW t \in Transactions, t.surface \in root, NEW h, Keeps(h, {}), Hangs(h)
  PROVE  Tracks(h, t, 0, Base(h, t))
PROOF
<1> DEFINE s == t.surface
           g == Base(h, t)
           N == There(g, s)
           P == Plan(h, t, 0)
<1>1. Keeps(g, {}) /\ Hangs(g) /\ Before(h, t) = N /\ (t.mode # "full" => g = h)
  BY BaseFacts
<1>2. Named(h, t, 0) = N /\ Gone(t, 0) = {} /\ Placings(t, 0) = {}
  BY <1>1 DEF Named, Gone, Placings
<1>3. N \subseteq Nodes
  BY ThereFacts
<1> HIDE DEF g
<1>4. \A n \in N : g.object[<<s, n>>].parent = P[n]
  <2> TAKE n \in N
  <2>1. t.mode # "full" /\ g = h
    BY <1>1 DEF Before
  <2>2. PlacingsOf(t, 0, n) = {}
    BY <1>2 DEF PlacingsOf
  <2>3. Given(h, t, 0, n) = h.object[<<s, n>>].parent
    BY <1>1, <2>2 DEF Given
  <2> QED
    BY <1>3, <2>1, <2>3 DEF Plan
<1>5. Best(N, {}, P, N)
  BY DEF Best, Standing
<1> QED
  BY <1>1, <1>2, <1>4, <1>5 DEF Tracks, g

(* preflight: what the next operation makes is new, and was not named.     *)
LEMMA NextMakesNew ==
  ASSUME NEW t \in Transactions, NEW h, Preflight(h, t),
         NEW i \in 0..(Len(t.operations) - 1), NEW g, Tracks(h, t, i, g)
  PROVE  LET o == t.operations[i + 1]
         IN  /\ o.op = "create" => o.node \notin Named(h, t, i)
             /\ Made(t, i + 1) \cap Live(g) = {}
PROOF
<1> DEFINE o == t.operations[i + 1]
<1>1. i + 1 \in DOMAIN t.operations /\ (i + 1) - 1 = i
  BY MountAssumption
<1>2. o.op = "create" => o.node \notin Named(h, t, i)
  <2> SUFFICES ASSUME o.op = "create" PROVE o.node \notin Named(h, t, i)
    OBVIOUS
  <2>1. Allowed(h, t, i + 1)
    BY <1>1 DEF Preflight
  <2>2. /\ t.mode = "full" \/ ~Found(h, t.surface, o.node)
        /\ ~Creates(t, o.node, i)
    BY <1>1, <2>1 DEF Allowed
  <2>3. o.node \notin Before(h, t)
    <3>1. o.node \in There(h, t.surface) <=> <<t.surface, o.node>> \in Live(h)
      BY ThereFacts
    <3> QED
      BY <2>2, <3>1 DEF Before, There, Found
  <2> HIDE DEF o
  <2> QED
    BY <2>2, <2>3 DEF Named, Creates
<1>3. Made(t, i + 1) \cap Live(g) = {}
  <2>1. CASE o.op = "create"
    <3>1. o.node \notin There(g, t.surface)
      BY <1>2, <2>1 DEF Tracks, Best
    <3>2. Made(t, i + 1) = {<<t.surface, o.node>>}
      BY <2>1 DEF Made
    <3> HIDE DEF o
    <3> QED
      BY <3>1, <3>2, ThereFacts
  <2>2. CASE o.op # "create"
    BY <2>2 DEF Made
  <2> QED
    BY <2>1, <2>2
<1> QED
  BY <1>2, <1>3

(* As long as none fails, the operations do what they are to.              *)
LEMMA TracksThrough ==
  ASSUME NEW t \in Transactions, t.surface \in root, NEW h, Keeps(h, {}), Hangs(h),
         Preflight(h, t)
  PROVE  \A i \in 0..Len(t.operations) :
           Operated(Base(h, t), t, i).ok =>
             /\ Keeps(Operated(Base(h, t), t, i).host, {})
             /\ Tracks(h, t, i, Operated(Base(h, t), t, i).host)
PROOF
<1> DEFINE run(i) == Operated(Base(h, t), t, i)
           S == {i \in Nat : i <= Len(t.operations) /\ run(i).ok =>
                   Keeps(run(i).host, {}) /\ Tracks(h, t, i, run(i).host)}
<1>1. Len(t.operations) \in Nat /\ DOMAIN t.operations = 1..Len(t.operations)
  BY MountAssumption
<1>2. /\ run(0) = Done(Base(h, t))
      /\ \A i \in Nat : run(i + 1) = IF run(i).ok THEN Operate(run(i).host, t, i + 1) ELSE run(i)
  BY OperatedStep
<1> HIDE DEF run
<1>3. 0 \in S
  <2>1. run(0).host = Base(h, t)
    BY <1>2 DEF Done
  <2> QED
    BY <2>1, BaseFacts, TracksStart
<1>4. ASSUME NEW i \in Nat, i \in S PROVE i + 1 \in S
  <2> SUFFICES ASSUME i + 1 <= Len(t.operations), run(i + 1).ok
               PROVE  Keeps(run(i + 1).host, {}) /\ Tracks(h, t, i + 1, run(i + 1).host)
    OBVIOUS
  <2>1. /\ i \in 0..(Len(t.operations) - 1) /\ i + 1 \in DOMAIN t.operations
        /\ i <= Len(t.operations) /\ (i + 1) - 1 = i
    BY <1>1
  <2>2. run(i).ok /\ run(i + 1) = Operate(run(i).host, t, i + 1)
    BY <1>2
  <2>3. Keeps(run(i).host, {}) /\ Tracks(h, t, i, run(i).host)
    BY <1>4, <2>1, <2>2
  <2> DEFINE o == t.operations[i + 1]
             g == run(i).host
  <2>4. /\ o.op = "create" => o.node \notin Named(h, t, i)
        /\ Made(t, i + 1) \cap Live(g) = {}
    BY <2>1, <2>3, NextMakesNew
  <2>5. Tracks(h, t, i + 1, Operate(g, t, i + 1).host)
    <3>1. Shaped(g) /\ Tracks(h, t, i, g) /\ Operate(g, t, i + 1).ok
      BY <2>2, <2>3 DEF Keeps
    <3> HIDE DEF g
    <3> QED
      BY <2>1, <2>4, <3>1, TracksStep
  <2>6. Keeps(Operate(g, t, i + 1).host, {})
    <3>1. Keeps(g, {}) /\ Operate(g, t, i + 1).ok
      BY <2>2, <2>3
    <3> HIDE DEF g
    <3>2. Keeps(Operate(g, t, i + 1).host,
                IF Operate(g, t, i + 1).ok THEN {} ELSE SurfaceKeys(t.surface))
      BY <2>1, <2>4, <3>1, OperateKeeps
    <3> QED
      BY <3>1, <3>2
  <2> QED
    BY <2>2, <2>5, <2>6
<1> HIDE DEF S
<1>5. Nat \subseteq S
  BY <1>3, <1>4, NatSet
<1> QED
  BY <1>1, <1>5 DEF S, run

(***************************************************************************)
(* What is left, counted down                                              *)
(***************************************************************************)
Leaves(N, R, par, left) ==
  left = [d \in 0..Cardinality(Nodes) |->
            IF d = 0 THEN N \ R
            ELSE left[d - 1] \cap {n \in N \ (N \ left[d - 1]) : par[n] \notin N \ left[d - 1]}]

(* As for Climb and Course, a function satisfies the equations.            *)
LEMMA LeavesExist ==
  ASSUME NEW N, NEW R, NEW par
  PROVE  \E left : Leaves(N, R, par, left)
PROOF
<1> DEFINE Less(A) == A \cap {n \in N \ (N \ A) : par[n] \notin N \ A}
           Is(m, f) == f = [d \in 0..m |-> IF d = 0 THEN N \ R ELSE Less(f[d - 1])]
           S == {m \in Nat : \E f : Is(m, f)}
<1> HIDE DEF Less
<1>1. 0 \in S
  <2>1. Is(0, [d \in 0..0 |-> N \ R])
    OBVIOUS
  <2> QED
    BY <2>1
<1>2. ASSUME NEW m \in Nat, m \in S PROVE m + 1 \in S
  <2>1. PICK f : Is(m, f)
    BY <1>2
  <2> DEFINE more == [d \in 0..(m + 1) |-> IF d <= m THEN f[d] ELSE Less(f[m])]
  <2>2. \A d \in 0..m : f[d] = IF d = 0 THEN N \ R ELSE Less(f[d - 1])
    BY <2>1
  <2>3. \A d \in 0..(m + 1) : more[d] = IF d = 0 THEN N \ R ELSE Less(more[d - 1])
    <3> TAKE d \in 0..(m + 1)
    <3>1. CASE d = 0
      BY <2>2, <3>1
    <3>2. CASE d \in 1..m
      <4>1. more[d] = f[d] /\ more[d - 1] = f[d - 1]
        BY <3>2
      <4> QED
        BY <2>2, <3>2, <4>1
    <3>3. CASE d = m + 1
      <4>1. more[d] = Less(f[m]) /\ more[d - 1] = f[m]
        BY <3>3
      <4> QED
        BY <3>3, <4>1
    <3> QED
      BY <3>1, <3>2, <3>3
  <2>4. more = [d \in 0..(m + 1) |-> IF d = 0 THEN N \ R ELSE Less(more[d - 1])]
    BY <2>3
  <2> HIDE DEF more
  <2>5. Is(m + 1, more)
    BY <2>4
  <2> QED
    BY <2>5
<1> HIDE DEF S
<1>3. Nat \subseteq S
  BY <1>1, <1>2, NatSet
<1>4. Cardinality(Nodes) \in Nat
  BY MountAssumption, FS_CardinalityType
<1>5. \E f : Is(Cardinality(Nodes), f)
  BY <1>3, <1>4 DEF S
<1> QED
  BY <1>5, Zenon DEF Leaves, Less

(* After as many rounds as there are nodes, nothing more goes.             *)
LEMMA LeftIsBest ==
  ASSUME NEW N, N \subseteq Nodes, NEW R, NEW par, NEW L, Best(N, R, par, L),
         NEW left, Leaves(N, R, par, left)
  PROVE  left[Cardinality(Nodes)] = L
PROOF
<1> DEFINE c == Cardinality(Nodes)
           Less(A) == A \cap {n \in N \ (N \ A) : par[n] \notin N \ A}
<1>1. c \in Nat
  BY MountAssumption, FS_CardinalityType
<1> HIDE DEF c
<1>2. \A d \in 0..c : left[d] = IF d = 0 THEN N \ R ELSE Less(left[d - 1])
  BY DEF Leaves, c
<1>3. \A A, B : /\ Less(A) \subseteq A
                /\ B \subseteq A /\ B \subseteq N /\ Standing(N, par, B) => B \subseteq Less(A)
                /\ A = Less(A) /\ A \subseteq N => Standing(N, par, A)
  BY DEF Standing
<1> HIDE DEF Less
<1>4. left[0] = N \ R /\ \A d \in 0..(c - 1) : left[d + 1] = Less(left[d])
  <2>1. left[0] = N \ R
    BY <1>1, <1>2
  <2>2. ASSUME NEW d \in 0..(c - 1) PROVE left[d + 1] = Less(left[d])
    <3>1. d + 1 \in 0..c /\ d + 1 # 0 /\ (d + 1) - 1 = d
      BY <1>1
    <3>2. left[d + 1] = IF d + 1 = 0 THEN N \ R ELSE Less(left[(d + 1) - 1])
      BY <1>2, <3>1, Zenon
    <3> QED
      BY <3>1, <3>2, Zenon
  <2> QED
    BY <2>1, <2>2
<1>5. L \subseteq N \ R /\ Standing(N, par, L)
  BY DEF Best
<1>6. \A d \in 0..c : L \subseteq left[d] /\ left[d] \subseteq N \ R
  <2> DEFINE T == {d \in Nat : d <= c => L \subseteq left[d] /\ left[d] \subseteq N \ R}
  <2>1. 0 \in T
    BY <1>4, <1>5
  <2>2. ASSUME NEW d \in Nat, d \in T PROVE d + 1 \in T
    <3> SUFFICES ASSUME d + 1 <= c PROVE L \subseteq left[d + 1] /\ left[d + 1] \subseteq N \ R
      OBVIOUS
    <3>1. d \in 0..(c - 1) /\ d <= c
      BY <1>1
    <3>2. L \subseteq left[d] /\ left[d] \subseteq N \ R /\ left[d + 1] = Less(left[d])
      BY <1>4, <2>2, <3>1
    <3>3. L \subseteq N
      BY <1>5
    <3>4. L \subseteq Less(left[d]) /\ Less(left[d]) \subseteq left[d]
      BY <1>3, <1>5, <3>2, <3>3, Zenon
    <3> QED
      BY <3>2, <3>4
  <2> HIDE DEF T
  <2>3. Nat \subseteq T
    BY <2>1, <2>2, NatSet
  <2> QED
    BY <1>1, <2>3 DEF T
<1> DEFINE gone == [d \in 0..c |-> N \ left[d]]
<1>7. \A d \in 0..c : gone[d] = N \ left[d]
  OBVIOUS
<1> HIDE DEF gone
<1>8. \/ \E d \in 0..(c - 1) : gone[d] = gone[d + 1]
      \/ Cardinality(gone[c]) >= c + Cardinality(gone[0])
  <2>1. \A d \in 0..c : gone[d] \subseteq Nodes
    BY <1>7
  <2>2. \A d \in 0..(c - 1) : gone[d] \subseteq gone[d + 1]
    <3> TAKE d \in 0..(c - 1)
    <3>1. d \in 0..c /\ d + 1 \in 0..c
      BY <1>1
    <3>2. left[d + 1] \subseteq left[d]
      BY <1>3, <1>4
    <3> QED
      BY <1>7, <3>1, <3>2
  <2> QED
    BY <1>1, <2>1, <2>2, MountAssumption, ChainStops
<1>9. c \in 0..c /\ 0 \in 0..c
  BY <1>1
<1>10. CASE \E d \in 0..(c - 1) : gone[d] = gone[d + 1]
  <2>1. PICK d \in 0..(c - 1) : gone[d] = gone[d + 1]
    BY <1>10
  <2>2. d \in 0..c /\ d + 1 \in 0..c
    BY <1>1
  <2>3. left[d] = left[d + 1]
    BY <1>6, <1>7, <2>1, <2>2
  <2>4. left[c] = left[d]
    <3>1. \A i, j \in 0..(c - 1) : left[i] = left[j] => left[i + 1] = left[j + 1]
      BY <1>4, Zenon
    <3> QED
      BY <1>1, <2>3, <3>1, ChainStays
  <2>5. left[c] = Less(left[c])
    BY <1>4, <2>3, <2>4
  <2>6. left[c] \in SUBSET (N \ R) /\ left[c] \subseteq N
    BY <1>6, <1>9
  <2>7. Standing(N, par, left[c])
    BY <1>3, <2>5, <2>6, Zenon
  <2>8. left[c] \subseteq L
    BY <2>6, <2>7 DEF Best
  <2> QED
    BY <1>6, <1>9, <2>8 DEF c
<1>11. CASE Cardinality(gone[c]) >= c + Cardinality(gone[0])
  <2>1. gone[c] \in SUBSET Nodes /\ gone[0] \in SUBSET Nodes
    BY <1>7, <1>9
  <2>2. Cardinality(gone[c]) \in Nat /\ Cardinality(gone[0]) \in Nat
    BY <2>1, MountAssumption, FS_Subset, FS_CardinalityType
  <2>3. Cardinality(gone[c]) <= c /\ (Cardinality(gone[c]) = c => gone[c] = Nodes)
    BY <2>1, MountAssumption, FS_Subset DEF c
  <2>4. gone[c] = Nodes
    BY <1>1, <1>11, <2>2, <2>3
  <2>5. left[c] = {}
    BY <1>6, <1>7, <1>9, <2>4
  <2> QED
    BY <1>6, <1>9, <2>5 DEF c
<1> QED
  BY <1>8, <1>10, <1>11

(* Asked says what the plan of the whole transaction does.                 *)
LEMMA AskedIsPlan ==
  ASSUME NEW t \in Transactions, NEW h, NEW L,
         Best(Named(h, t, Len(t.operations)), Gone(t, Len(t.operations)),
              Plan(h, t, Len(t.operations)), L)
  PROVE  Asked(h, t) = [n \in L |-> Plan(h, t, Len(t.operations))[n]]
PROOF
<1> DEFINE z == Len(t.operations)
           ops     == Range(t.operations)
           placing == {i \in DOMAIN t.operations : t.operations[i].op \in {"insert", "move"}}
           before  == IF t.mode = "full" THEN {} ELSE {k[2] : k \in LiveOf(h, t.surface)}
           nodes   == before \cup {o.node : o \in {x \in ops : x.op = "create"}}
           places(n) == {i \in placing : t.operations[i].node = n}
           parent  == [n \in nodes |->
                         IF places(n) # {}
                         THEN t.operations[CHOOSE i \in places(n) :
                                             \A j \in places(n) : j <= i].parent
                         ELSE IF n \in before THEN h.object[<<t.surface, n>>].parent ELSE OnRoot]
           removed == {o.node : o \in {x \in ops : x.op = "remove"}}
           left    == CHOOSE f : Leaves(nodes, removed, parent, f)
<1>1. Asked(h, t) = [n \in left[Cardinality(Nodes)] |-> parent[n]]
  BY Zenon DEF Asked, Leaves
<1>2. Leaves(nodes, removed, parent, left)
  BY LeavesExist, Zenon
<1> HIDE DEF left
<1>3. DOMAIN t.operations = 1..z /\ z \in 0..Len(t.operations)
  BY MountAssumption
<1>4. nodes = Named(h, t, z) /\ removed = Gone(t, z)
  BY <1>3, Zenon DEF Named, Gone, Before, Range
<1>5. nodes \subseteq Nodes
  BY <1>3, <1>4, NamedAreNodes
<1>6. \A n \in nodes : parent[n] = Plan(h, t, z)[n]
  <2> SUFFICES ASSUME NEW n \in nodes PROVE parent[n] = Given(h, t, z, n)
    BY <1>5 DEF Plan
  <2>1. places(n) = PlacingsOf(t, z, n) /\ before = Before(h, t)
    BY <1>3, Zenon DEF PlacingsOf, Placings, Before
  <2>2. parent[n] = IF places(n) # {}
                    THEN t.operations[Latest(places(n))].parent
                    ELSE IF n \in before THEN h.object[<<t.surface, n>>].parent ELSE OnRoot
    BY Zenon DEF Latest
  <2> QED
    BY <2>1, <2>2, Zenon DEF Given
<1> HIDE DEF nodes, parent, removed, z
<1>7. Best(nodes, removed, parent, L)
  <2>1. Best(nodes, removed, Plan(h, t, z), L)
    BY <1>4 DEF z
  <2> QED
    BY <1>6, <2>1 DEF Best, Standing
<1>8. left[Cardinality(Nodes)] = L
  BY <1>2, <1>5, <1>7, LeftIsBest
<1>9. L \subseteq nodes
  BY <1>7 DEF Best
<1> QED
  BY <1>1, <1>6, <1>8, <1>9 DEF z

(* A transaction none of whose operations failed has done what it asked.   *)
LEMMA MountedAsAsked ==
  ASSUME NEW t \in Transactions, t.surface \in root, NEW h, Keeps(h, {}), Hangs(h),
         Preflight(h, t),
         Operated(Base(h, t), t, Len(t.operations)).ok
  PROVE  LET g == Operated(Base(h, t), t, Len(t.operations)).host
         IN  Hangs(g) /\ TreeOf(g, t.surface) = Asked(h, t)
PROOF
<1> DEFINE z == Len(t.operations)
           g == Operated(Base(h, t), t, z).host
           L == There(g, t.surface)
           P == Plan(h, t, z)
<1>1. z \in 0..Len(t.operations)
  BY MountAssumption
<1>2. Tracks(h, t, z, g)
  BY <1>1, TracksThrough
<1> HIDE DEF g
<1>3. /\ Hangs(g) /\ Best(Named(h, t, z), Gone(t, z), P, L)
      /\ \A n \in L : g.object[<<t.surface, n>>].parent = P[n]
  BY <1>2 DEF Tracks
<1>4. Asked(h, t) = [n \in L |-> P[n]]
  BY <1>3, AskedIsPlan
<1>5. TreeOf(g, t.surface) = [n \in L |-> g.object[<<t.surface, n>>].parent]
  BY Zenon DEF TreeOf, There
<1>6. TreeOf(g, t.surface) = [n \in L |-> P[n]]
  BY <1>3, <1>5
<1> QED
  BY <1>3, <1>4, <1>6 DEF g

(* A whole transaction, mounted or not.                                    *)
LEMMA ExecutionsMount ==
  ASSUME NEW t \in Transactions, NEW h, Keeps(h, {}), Hangs(h), NEW e \in Executions(h, t)
  PROVE  /\ Hangs(e.host)
         /\ e.status = "mounted" =>
              t.surface \in root /\ TreeOf(e.host, t.surface) = Asked(h, t)
PROOF
<1>1. /\ e.status \in {"mounted", "failed"} /\ Apart(h, e.host, t.surface)
      /\ e.status = "failed" => LeavesNothing(h, t, e.host)
  BY ExecutionsKeep
<1>2. CASE e.status = "failed"
  <2>1. Hangs(e.host)
    BY <1>1, <1>2, EmptySurfaceHangs DEF LeavesNothing
  <2> QED
    BY <1>2, <2>1
<1>3. CASE e.status = "mounted"
  <2> DEFINE all == Operated(Base(h, t), t, Len(t.operations))
  <2>1. \A g : Failure(g, t).status = "failed" /\ Rejection(g, t).status = "failed"
    BY DEF Failure, Rejection, Result
  <2>2. Admissible(h, t)
    BY <1>3, <2>1 DEF Executions
  <2>3. all.ok /\ e = Result(all.host, "mounted")
    <3>1. \/ e = IF all.ok THEN Result(all.host, "mounted") ELSE Failure(all.host, t)
          \/ \E n : e = Failure(Operated(Base(h, t), t, n).host, t)
      BY <2>2, Zenon DEF Executions, Base
    <3> HIDE DEF all
    <3> QED
      BY <1>3, <2>1, <3>1
  <2>4. Hangs(all.host) /\ TreeOf(all.host, t.surface) = Asked(h, t)
    BY <2>2, <2>3, MountedAsAsked DEF Admissible
  <2> HIDE DEF all
  <2> QED
    BY <2>2, <2>3, <2>4 DEF Result, Admissible
<1> QED
  BY <1>1, <1>2, <1>3

(***************************************************************************)
(* The tree in every state                                                 *)
(***************************************************************************)
TreeInv == Hangs(host)

(* The trees are sound at first, and so in every state.                    *)
LEMMA InitTreeInv == Init => TreeInv
PROOF
<1> SUFFICES ASSUME Init PROVE TreeInv
  OBVIOUS
<1>1. host.object = [k \in Keys |-> NoObject]
  BY DEF Init
<1>2. Live(host) = {}
  BY <1>1 DEF Live
<1> QED
  BY <1>2 DEF TreeInv, Hangs

(* No step breaks it: each empties a surface, leaves the tree, or executes *)
(* a transaction.                                                          *)
LEMMA StepTreeInv == IInv /\ TreeInv /\ [Next]_vars => TreeInv'
PROOF
<1> SUFFICES ASSUME IInv, TreeInv, [Next]_vars PROVE TreeInv'
  OBVIOUS
<1>1. ASSUME host'.object = host.object PROVE TreeInv'
  <2>1. Live(host') = Live(host)
    BY <1>1 DEF Live
  <2> QED
    BY <1>1, <2>1 DEF TreeInv, Hangs
<1>2. CASE UNCHANGED host
  BY <1>1, <1>2
<1>3. CASE Execute
  <2> DEFINE t == Head(queue)
  <2>1. PICK e \in Executions(host, t) : host' = e.host
    BY <1>3 DEF Execute
  <2>2. t \in Transactions /\ Keeps(host, {})
    BY <1>3 DEF Execute, IInv, Calls
  <2> HIDE DEF t
  <2>3. Hangs(e.host)
    BY <2>2, ExecutionsMount DEF TreeInv
  <2>4. Hangs(host')
    BY <2>1, <2>3, Zenon
  <2> QED
    BY <2>4 DEF TreeInv
<1>4. ASSUME NEW s \in Surfaces, ReleaseSurface(s) PROVE TreeInv'
  <2>1. host' = DestroySurface(host, s)
    BY <1>4 DEF ReleaseSurface
  <2>2. CASE s \notin root
    BY <1>2, <2>1, <2>2, GoneSurfaceStays
  <2>3. CASE s \in root
    <3>1. LiveOf(host', s) = {} /\ Apart(host, host', s)
      <4>1. \A k \in {} : k[1] = s
        OBVIOUS
      <4> QED
        BY <2>1, <2>3, <4>1, DestroySurfaceKeeps DEF IInv
    <3> QED
      BY <3>1, EmptySurfaceHangs DEF TreeInv
  <2> QED
    BY <2>2, <2>3
<1>5. CASE \E kind \in Kinds, s \in Surfaces, n \in Nodes : Install(kind, s, n)
  <2>1. PICK kind \in Kinds, s \in Surfaces, n \in Nodes : Install(kind, s, n)
    BY <1>5
  <2>2. host' = WithHandler(host, <<kind, s, n>>)
    BY <2>1 DEF Install, WithHandler
  <2>3. WithHandler(host, <<kind, s, n>>).object = host.object
    BY DEF WithHandler, IInv, Keeps, Shaped
  <2> QED
    BY <1>1, <2>2, <2>3
<1>6. CASE FinishClose
  <2>1. \A k \in Keys : host'.object[k] = IF k[1] \in root THEN NoObject ELSE host.object[k]
    BY <1>6, FinishCloseKeeps
  <2>2. \A k \in Keys : k \in Live(host') <=> k \in Live(host) /\ k[1] \notin root
    BY <2>1 DEF Live
  <2>3. ASSUME NEW k \in Live(host'), host'.object[k].parent # OnRoot
        PROVE  <<k[1], host'.object[k].parent>> \in Live(host')
    <3> DEFINE p == <<k[1], host.object[k].parent>>
    <3>1. k \in Keys /\ k \in Live(host) /\ k[1] \notin root
      BY <2>2 DEF Live
    <3>2. host'.object[k].parent = host.object[k].parent
      BY <2>1, <3>1
    <3>3. p \in Live(host) /\ p \in Keys /\ p[1] = k[1]
      BY <2>3, <3>1, <3>2 DEF TreeInv, Hangs, Live
    <3> QED
      BY <2>2, <3>1, <3>2, <3>3
  <2> QED
    BY <2>3 DEF TreeInv, Hangs
<1>7. CASE \/ PostCheck \/ PostRefused \/ SetResource \/ Close
           \/ \E t \in Transactions : PostAdmit(t)
           \/ \E s \in Surfaces : SurfaceCreated(s) \/ SurfaceDestroyed(s)
  <2>1. UNCHANGED host
    BY <1>7, Zenon DEF PostCheck, PostRefused, SetResource, Close, PostAdmit, SurfaceCreated,
       SurfaceDestroyed
  <2> QED
    BY <1>2, <2>1
<1>8. CASE UNCHANGED vars
  <2>1. UNCHANGED host
    BY <1>8, Zenon DEF vars
  <2> QED
    BY <1>2, <2>1
<1> QED
  BY <1>3, <1>4, <1>5, <1>6, <1>7, <1>8, Zenon DEF Next

LEMMA TreeInvHolds == Spec => []TreeInv
  BY InitTreeInv, StepTreeInv, IInvHolds, PTL DEF Spec

(* What an object hangs on is there, after any transactions, removals,     *)
(* rollbacks and surfaces that went (destroySlot takes the subtree).       *)
THEOREM TreesHang == Spec => []ParentsAreThere
PROOF
<1>1. ASSUME TreeInv PROVE ParentsAreThere
  BY <1>1 DEF TreeInv, Hangs, ParentsAreThere
<1> QED
  BY <1>1, TreeInvHolds, PTL

(* A transaction is done as a whole or not at all: mounted means that its  *)
(* surface holds the very tree its operations ask for, each node under the *)
(* parent it was last given, less those removed with all below them;       *)
(* failed, that the surface is empty, or that nothing changed: a lone batch*)
(* was refused, or the surface went while the transaction waited.          *)
THEOREM TransactionsAreWhole == Spec => AllOrNothing
PROOF
<1> DEFINE Leaving == queue # <<>> /\ queue' = Tail(queue)
           t == Head(queue)
           Beyond == \A s \in Surfaces \ {t.surface} : TreeOf(host', s) = TreeOf(host, s)
           Clean == Leaving => /\ Beyond
                               /\ answer' = "failed" => LeavesNothing(host, t, host')
           Whole == Leaving =>
                      /\ Beyond
                      /\ \/ answer' = "mounted" /\ t.surface \in root /\ TreeOf(host', t.surface) = Asked(host, t)
                         \/ answer' = "failed" /\ LiveOf(host', t.surface) = {}
                         \/ answer' = "failed" /\ (t.batches = 1 \/ t.surface \notin root) /\ host' = host
<1>1. ASSUME IInv, Next, Leaving PROVE Execute
  BY <1>1, OnlyExecuteLeaves
<1>2. ASSUME IInv, TreeInv, Execute, Leaving, Clean PROVE Whole
  <2>1. PICK e \in Executions(host, t) : host' = e.host /\ answer' = e.status
    BY <1>2 DEF Execute
  <2>2. t \in Transactions /\ Keeps(host, {}) /\ Hangs(host)
    BY <1>2 DEF Execute, IInv, Calls, TreeInv
  <2>3. t.batches > 1 \/ t.batches = 1
    <3>1. t.batches \in Nat \ {0}
      BY <2>2, MountAssumption
    <3> QED
      BY <3>1
  <2> HIDE DEF t
  <2>4. e.status \in {"mounted", "failed"}
    BY <2>2, ExecutionsKeep
  <2>5. e.status = "mounted" => t.surface \in root /\ TreeOf(e.host, t.surface) = Asked(host, t)
    BY <2>2, ExecutionsMount
  <2>6. answer' = "mounted" => t.surface \in root /\ TreeOf(host', t.surface) = Asked(host, t)
    BY <2>1, <2>5, Zenon
  <2>7. answer' = "failed" => \/ LiveOf(host', t.surface) = {}
                              \/ (t.batches = 1 \/ t.surface \notin root) /\ host' = host
    BY <1>2, <2>3, Zenon DEF LeavesNothing
  <2> HIDE DEF Beyond
  <2> QED
    BY <1>2, <2>1, <2>4, <2>6, <2>7, Zenon
<1>3. IInv /\ TreeInv /\ [Next]_vars /\ [Clean]_vars => [Whole]_vars
  <2> HIDE DEF Clean, Whole, Leaving
  <2>1. ASSUME ~Leaving PROVE Whole
    BY <2>1, Zenon DEF Whole
  <2> QED
    BY <1>1, <1>2, <2>1, Zenon
<1>4. FailedLeavesNothing <=> [][Clean]_vars
  BY Zenon DEF FailedLeavesNothing
<1>5. AllOrNothing <=> [][Whole]_vars
  BY Zenon DEF AllOrNothing
<1> HIDE DEF Clean, Whole
<1>6. Spec => [][Whole]_vars
  BY <1>3, <1>4, FailureIsClean, IInvHolds, TreeInvHolds, PTL DEF Spec
<1> QED
  BY <1>5, <1>6, PTL

(***************************************************************************)
(* Cycles                                                                  *)
(***************************************************************************)
(* An object hangs on no more than before, if those it hung on that are    *)
(* left have the same parents.                                             *)
LEMMA LineageShrinks ==
  ASSUME NEW h, Hangs(h), NEW g, Hangs(g), NEW q \in Live(h), q \in Live(g),
         \A j \in Lineage(h, q) \cap Live(g) : g.object[j].parent = h.object[j].parent
  PROVE  Lineage(g, q) \subseteq Lineage(h, q)
PROOF
<1> DEFINE C == Lineage(h, q) \cap Live(g)
<1>1. q \in C /\ q \in Keys /\ Closed(h, q[1], Lineage(h, q))
  BY LineageStartsHere, LineageIsClosed DEF Live
<1>2. \A j \in Lineage(h, q) : j[1] = q[1]
  BY <1>1, LineageStaysOnSurface
<1>3. Closed(g, q[1], C)
  BY <1>1, <1>2 DEF Closed, Hangs
<1> HIDE DEF C
<1>4. Lineage(g, q) \subseteq C
  BY <1>1, <1>3, LineageIsLeast
<1> QED
  BY <1>4 DEF C

(* All of a lineage is live.                                               *)
LEMMA LineageIsLive ==
  ASSUME NEW h, Hangs(h), NEW k \in Live(h)
  PROVE  Lineage(h, k) \subseteq LiveOf(h, k[1])
PROOF
<1>1. k \in LiveOf(h, k[1])
  BY DEF LiveOf
<1>2. Closed(h, k[1], LiveOf(h, k[1]))
  BY DEF Closed, Hangs, LiveOf
<1> QED
  BY <1>1, <1>2, LineageIsLeast

(* What hangs on k hangs on all that k hangs on.                           *)
LEMMA LineageNests ==
  ASSUME NEW h, Hangs(h), NEW q \in Live(h), NEW k \in Lineage(h, q)
  PROVE  /\ Lineage(h, k) \subseteq Lineage(h, q)
         /\ h.object[k].parent # OnRoot => <<k[1], h.object[k].parent>> \in Lineage(h, q)
PROOF
<1>1. q \in Keys /\ Closed(h, q[1], Lineage(h, q))
  BY LineageIsClosed DEF Live
<1>2. k[1] = q[1]
  BY <1>1, LineageStaysOnSurface
<1>3. Lineage(h, k) \subseteq Lineage(h, q)
  BY <1>1, <1>2, LineageIsLeast
<1> QED
  BY <1>1, <1>2, <1>3 DEF Closed

(* No operation has placed j yet: it has the parent it had, or is new.     *)
Unplaced(h, g, j) ==
  \/ j \in Live(h) /\ g.object[j].parent = h.object[j].parent
  \/ j \notin Live(h) /\ g.object[j].parent = OnRoot

(* Parents that stay close no cycle.                                       *)
LEMMA SameParentsStayAcyclic ==
  ASSUME NEW h, Hangs(h), Acyclic(h), NEW g, Hangs(g),
         \A j \in Live(g) : Unplaced(h, g, j)
  PROVE  Acyclic(g)
PROOF
<1>0. \A j \in Live(g) : \/ j \in Live(h) /\ g.object[j].parent = h.object[j].parent
                         \/ j \notin Live(h) /\ g.object[j].parent = OnRoot
  BY Zenon DEF Unplaced
<1> SUFFICES ASSUME NEW k \in Live(g), g.object[k].parent # OnRoot
             PROVE  k \notin Lineage(g, <<k[1], g.object[k].parent>>)
  BY DEF Acyclic
<1> DEFINE q == <<k[1], h.object[k].parent>>
<1>1. k \in Live(h) /\ g.object[k].parent = h.object[k].parent
  BY <1>0
<1>2. q \in Live(h) /\ q \in Live(g) /\ k \notin Lineage(h, q)
  BY <1>1 DEF Hangs, Acyclic
<1> HIDE DEF q
<1>3. \A j \in Lineage(h, q) \cap Live(g) : g.object[j].parent = h.object[j].parent
  BY <1>0, <1>2, LineageIsLive DEF LiveOf
<1>4. Lineage(g, q) \subseteq Lineage(h, q)
  BY <1>2, <1>3, LineageShrinks
<1> QED
  BY <1>1, <1>2, <1>4 DEF q

(* Nor does hanging k on what does not hang on k: what preflight asks of a *)
(* move.                                                                   *)
LEMMA HungStaysAcyclic ==
  ASSUME NEW h, Hangs(h), Acyclic(h), NEW g, Hangs(g), NEW k, NEW p, Hung(h, g, k, p),
         k \notin Lineage(h, <<k[1], p>>)
  PROVE  Acyclic(g)
PROOF
<1> DEFINE top == <<k[1], p>>
<1>1. /\ k \in Live(h) /\ top \in Live(h) /\ Live(g) = Live(h) /\ g.object[k].parent = p
      /\ \A j \in Live(h) \ {k} : g.object[j].parent = h.object[j].parent
      /\ k \notin Lineage(h, top)
  BY DEF Hung
<1>2. Lineage(h, top) \subseteq Live(h)
  BY <1>1, LineageIsLive DEF LiveOf
<1>3. top[1] = k[1]
  OBVIOUS
<1> HIDE DEF top
<1>4. Lineage(g, top) \subseteq Lineage(h, top)
  BY <1>1, <1>2, LineageShrinks
<1> SUFFICES ASSUME NEW j \in Live(g), g.object[j].parent # OnRoot
             PROVE  j \notin Lineage(g, <<j[1], g.object[j].parent>>)
  BY DEF Acyclic
<1>5. CASE j = k
  BY <1>1, <1>4, <1>5 DEF top
<1>6. CASE j # k
  <2> DEFINE q == <<j[1], h.object[j].parent>>
  <2>1. /\ j \in Live(h) /\ g.object[j].parent = h.object[j].parent
        /\ q \in Live(h) /\ j \notin Lineage(h, q)
    BY <1>1, <1>6 DEF Hangs, Acyclic
  <2>2. Lineage(h, q) \subseteq Live(h) /\ q \in Keys
    BY <2>1, LineageIsLive DEF LiveOf, Live
  <2>3. CASE k \notin Lineage(h, q)
    <3>1. Lineage(g, q) \subseteq Lineage(h, q)
      <4> HIDE DEF q
      <4> QED
        BY <1>1, <2>1, <2>2, <2>3, LineageShrinks
    <3> QED
      BY <2>1, <3>1
  <2>4. CASE k \in Lineage(h, q)
    <3> DEFINE C == Lineage(h, q) \cup Lineage(h, top)
    <3>1. k[1] = q[1] /\ \A i \in Lineage(h, q) : i[1] = q[1]
      BY <2>2, <2>4, LineageStaysOnSurface
    <3> HIDE DEF q
    <3>2. Lineage(g, q) \subseteq C
      <4>1. q \in C /\ top \in C
        BY LineageStartsHere
      <4>2. Closed(h, q[1], Lineage(h, q)) /\ Closed(h, q[1], Lineage(h, top))
        BY <1>1, <1>3, <2>1, <3>1, LineageIsClosed
      <4>3. top = <<q[1], p>>
        BY <3>1 DEF top
      <4>4. Closed(g, q[1], C)
        BY <1>1, <1>2, <2>2, <4>1, <4>2, <4>3 DEF Closed
      <4> HIDE DEF C
      <4> QED
        BY <4>1, <4>4, LineageIsLeast
    <3>3. j \notin Lineage(h, top)
      <4> SUFFICES ASSUME j \in Lineage(h, top) PROVE FALSE
        OBVIOUS
      <4>1. h.object[j].parent # OnRoot
        BY <2>1
      <4>2. q \in Lineage(h, top)
        BY <1>1, <4>1, LineageNests DEF q
      <4>3. Lineage(h, q) \subseteq Lineage(h, top)
        BY <1>1, <4>2, LineageNests
      <4> QED
        BY <1>1, <2>4, <4>3
    <3> QED
      BY <2>1, <3>2, <3>3 DEF q
  <2> QED
    BY <2>3, <2>4
<1> QED
  BY <1>5, <1>6

(* An empty surface has no cycle.                                          *)
LEMMA EmptySurfaceIsAcyclic ==
  ASSUME NEW h, Hangs(h), Acyclic(h), NEW g, NEW s, Apart(h, g, s), LiveOf(g, s) = {}
  PROVE  Hangs(g) /\ Acyclic(g)
PROOF
<1>1. Hangs(g)
  BY EmptySurfaceHangs
<1>2. \A j \in Live(g) : Unplaced(h, g, j)
  <2> TAKE j \in Live(g)
  <2>1. j \in Keys /\ j[1] # s
    BY DEF Live, LiveOf
  <2> QED
    BY <2>1 DEF Apart, Live, Unplaced
<1> QED
  BY <1>1, <1>2, SameParentsStayAcyclic

(* So a full mount begins without one.                                     *)
LEMMA BaseIsAcyclic ==
  ASSUME NEW t \in Transactions, t.surface \in root, NEW h, Keeps(h, {}), Hangs(h), Acyclic(h)
  PROVE  Acyclic(Base(h, t))
PROOF
<1>1. CASE t.mode = "full"
  <2>1. Base(h, t) = DestroySurface(h, t.surface)
    BY <1>1 DEF Base
  <2>2. LiveOf(Base(h, t), t.surface) = {} /\ Apart(h, Base(h, t), t.surface)
    <3>1. \A k \in {} : k[1] = t.surface
      OBVIOUS
    <3> QED
      BY <2>1, <3>1, DestroySurfaceKeeps
  <2> QED
    BY <2>2, EmptySurfaceIsAcyclic
<1>2. CASE t.mode # "full"
  BY <1>2 DEF Base
<1> QED
  BY <1>1, <1>2

(* Where the lone move stands: nothing is placed before it.                *)
LEMMA LoneMoveIsFirst ==
  ASSUME NEW t \in Transactions, LoneMove(t), NEW i \in DOMAIN t.operations,
         t.operations[i].op \in {"insert", "move"}
  PROVE  t.operations[i].op = "move" /\ Placings(t, i - 1) = {}
PROOF
<1>1. PICK m \in DOMAIN t.operations :
        /\ t.operations[m].op = "move"
        /\ \A j \in DOMAIN t.operations \ {m} : t.operations[j].op \notin {"insert", "move"}
  BY DEF LoneMove
<1>2. i = m
  BY <1>1
<1>3. DOMAIN t.operations = 1..Len(t.operations) /\ i \in Int
  BY MountAssumption
<1>4. \A j \in 1..(i - 1) : j \in DOMAIN t.operations \ {m}
  BY <1>2, <1>3, MountAssumption
<1> QED
  BY <1>1, <1>2, <1>4 DEF Placings

(* After i operations, each object of g has been placed by one of them or  *)
(* not at all.                                                             *)
Placed(t, i, g, k) == \E j \in Placings(t, i) : g.object[k].parent = t.operations[j].parent

Sorted(h, t, i, g) ==
  Acyclic(g) /\ \A k \in Live(g) : Unplaced(Base(h, t), g, k) \/ Placed(t, i, g, k)

(* A move that preflight allowed, when nothing was placed before it.       *)
LEMMA MoveClosesNone ==
  ASSUME NEW t, NEW i \in Nat, NEW h, Hangs(h), NEW g, Hangs(g), NEW k \in Live(g), NEW p,
         <<k[1], p>> \in Live(h), <<k[1], p>> \in Live(g),
         k \notin Lineage(h, <<k[1], p>>), \A j \in Live(g) : Unplaced(h, g, j)
  PROVE  k \notin Lineage(g, <<k[1], p>>)
PROOF
<1> DEFINE top == <<k[1], p>>
<1>1. top \in Live(h) /\ top \in Live(g) /\ k \notin Lineage(h, top)
  OBVIOUS
<1> HIDE DEF top
<1>2. \A j \in Lineage(h, top) \cap Live(g) : g.object[j].parent = h.object[j].parent
  BY <1>1, LineageIsLive DEF LiveOf, Unplaced
<1>3. Lineage(g, top) \subseteq Lineage(h, top)
  BY <1>1, <1>2, LineageShrinks
<1> QED
  BY <1>1, <1>3 DEF top

(* An operation keeps that.                                                *)
LEMMA SortedStep ==
  ASSUME NEW t \in Transactions, t.surface \in root, LoneMove(t),
         NEW h, Keeps(h, {}), Hangs(h), Preflight(h, t), NEW i \in 0..(Len(t.operations) - 1),
         NEW g, Shaped(g), Tracks(h, t, i, g), Sorted(h, t, i, g), Operate(g, t, i + 1).ok
  PROVE  Sorted(h, t, i + 1, Operate(g, t, i + 1).host)
PROOF
<1> DEFINE o == t.operations[i + 1]
           k == <<t.surface, o.node>>
           b == Base(h, t)
           f == Operate(g, t, i + 1).host
<1>1. /\ i \in Nat /\ i + 1 \in DOMAIN t.operations /\ (i + 1) - 1 = i
      /\ o.op \in {"create", "prop", "layout", "remove", "insert", "move"}
  <2>1. i + 1 \in DOMAIN t.operations
    BY MountAssumption
  <2> QED
    BY <2>1, OperationShape
<1>2. /\ o.op = "create" => o.node \notin Named(h, t, i)
      /\ Made(t, i + 1) \cap Live(g) = {}
  BY NextMakesNew
<1>3. /\ o.op = "create" => Grown(g, f, k)
      /\ o.op \in {"prop", "layout"} => SameTree(g, f)
      /\ o.op \in {"insert", "move"} => Hung(g, f, k, o.parent)
      /\ o.op = "remove" => Pruned(g, f, k)
  BY <1>1, <1>2, OperateShapes
<1>4. Hangs(b) /\ Hangs(g) /\ Acyclic(g) /\ (t.mode # "full" => b = h)
  BY BaseFacts DEF Tracks, Sorted
<1>5. Hangs(f)
  <2> HIDE DEF f
  <2> QED
    BY <1>1, <1>3, <1>4, TreeStepsHang, Zenon
<1>6. \A j \in Live(g) : Unplaced(b, g, j) \/ Placed(t, i, g, j)
  BY DEF Sorted
<1>7. Placings(t, i) \subseteq Placings(t, i + 1)
  BY <1>1 DEF Placings
<1>8. t.operations[i + 1].op \in {"insert", "move"} => i + 1 \in Placings(t, i + 1)
  BY <1>1 DEF Placings
<1>9. o.op = "create" => k \notin Live(b)
  <2>1. Before(h, t) = There(b, t.surface) /\ Before(h, t) \subseteq Named(h, t, i)
    BY BaseFacts DEF Named
  <2> QED
    BY <1>2, <2>1, ThereFacts
<1>10. o.op \in {"insert", "move"} => o.op = "move" /\ Placings(t, i) = {}
  BY <1>1, LoneMoveIsFirst
<1> HIDE DEF o, f, b
<1>11. \A j \in Live(g) \cap Live(f) : g.object[j].parent = f.object[j].parent =>
         Unplaced(b, f, j) \/ Placed(t, i + 1, f, j)
  BY <1>6, <1>7 DEF Unplaced, Placed
<1>12. ASSUME \A j \in Live(f) : j \in Live(g) /\ f.object[j].parent = g.object[j].parent
       PROVE  Acyclic(f) /\ \A j \in Live(f) : Unplaced(b, f, j) \/ Placed(t, i + 1, f, j)
  <2>1. \A j \in Live(f) : Unplaced(g, f, j)
    BY <1>12 DEF Unplaced
  <2> QED
    BY <1>4, <1>5, <1>11, <1>12, <2>1, SameParentsStayAcyclic
<1>13. ASSUME o.op \in {"prop", "layout", "remove"} PROVE Sorted(h, t, i + 1, f)
  <2>1. \A j \in Live(f) : j \in Live(g) /\ f.object[j].parent = g.object[j].parent
    BY <1>3, <1>13 DEF SameTree, Pruned
  <2> QED
    BY <1>12, <2>1 DEF Sorted, b
<1>14. ASSUME o.op = "create" PROVE Sorted(h, t, i + 1, f)
  <2>1. /\ Live(f) = Live(g) \cup {k} /\ k \notin Live(g) /\ f.object[k].parent = OnRoot
        /\ \A j \in Live(g) : f.object[j].parent = g.object[j].parent
    BY <1>3, <1>14 DEF Grown
  <2>2. \A j \in Live(f) : Unplaced(g, f, j)
    BY <2>1 DEF Unplaced
  <2>3. Acyclic(f)
    BY <1>4, <1>5, <2>2, SameParentsStayAcyclic
  <2>4. Unplaced(b, f, k)
    BY <1>9, <1>14, <2>1 DEF Unplaced
  <2>5. \A j \in Live(f) : Unplaced(b, f, j) \/ Placed(t, i + 1, f, j)
    BY <1>11, <2>1, <2>4
  <2> QED
    BY <2>3, <2>5 DEF Sorted, b
<1>15. ASSUME o.op \in {"insert", "move"} PROVE Sorted(h, t, i + 1, f)
  <2> DEFINE p == o.parent
  <2>1. Hung(g, f, k, p)
    BY <1>3, <1>15
  <2>2. /\ k \in Live(g) /\ <<k[1], p>> \in Live(g) /\ Live(f) = Live(g) /\ f.object[k].parent = p
        /\ \A j \in Live(g) \ {k} : f.object[j].parent = g.object[j].parent
    BY <2>1 DEF Hung
  <2>3. \A j \in Live(f) : Unplaced(b, f, j) \/ Placed(t, i + 1, f, j)
    <3>1. Placed(t, i + 1, f, k)
      BY <1>8, <1>15, <2>2 DEF Placed, o
    <3> QED
      BY <1>11, <2>2, <3>1
  <2>4. k[1] = t.surface /\ k[2] = o.node
    OBVIOUS
  <2> HIDE DEF k, p
  <2>5. k \notin Lineage(g, <<k[1], p>>)
    <3>1. o.op = "move" /\ Placings(t, i) = {}
      BY <1>10, <1>15
    <3>2. t.mode # "full" /\ MoveAllowed(h, t.surface, o.node, o.parent)
      <4>1. WellFormed(t) /\ Allowed(h, t, i + 1)
        BY <1>1 DEF Preflight
      <4> QED
        BY <1>1, <3>1, <4>1 DEF WellFormed, Allowed, o
    <3>3. <<k[1], p>> \in Live(h) /\ k \notin Lineage(h, <<k[1], p>>)
      BY <3>2 DEF MoveAllowed, Found, k, p
    <3>4. \A j \in Live(g) : Unplaced(h, g, j)
      BY <1>4, <1>6, <3>1, <3>2 DEF Placed
    <3> QED
      BY <1>1, <1>4, <2>2, <3>3, <3>4, MoveClosesNone
  <2>6. Acyclic(f)
    BY <1>4, <1>5, <2>1, <2>5, HungStaysAcyclic
  <2> QED
    BY <2>3, <2>6 DEF Sorted, b
<1> QED
  BY <1>1, <1>13, <1>14, <1>15 DEF f

(* All operations, as long as none fails.                                  *)
LEMMA SortedThrough ==
  ASSUME NEW t \in Transactions, t.surface \in root, LoneMove(t),
         NEW h, Keeps(h, {}), Hangs(h), Acyclic(h), Preflight(h, t)
  PROVE  \A i \in 0..Len(t.operations) :
           Operated(Base(h, t), t, i).ok => Sorted(h, t, i, Operated(Base(h, t), t, i).host)
PROOF
<1> DEFINE run(i) == Operated(Base(h, t), t, i)
           S == {i \in Nat : i <= Len(t.operations) /\ run(i).ok => Sorted(h, t, i, run(i).host)}
<1>1. Len(t.operations) \in Nat
  BY MountAssumption
<1>2. /\ run(0) = Done(Base(h, t))
      /\ \A i \in Nat : run(i + 1) = IF run(i).ok THEN Operate(run(i).host, t, i + 1) ELSE run(i)
  BY OperatedStep
<1>3. \A i \in 0..Len(t.operations) :
        run(i).ok => Keeps(run(i).host, {}) /\ Tracks(h, t, i, run(i).host)
  BY TracksThrough
<1> HIDE DEF run
<1>4. 0 \in S
  <2>1. run(0).host = Base(h, t)
    BY <1>2 DEF Done
  <2>2. Acyclic(Base(h, t))
    BY BaseIsAcyclic
  <2>3. \A j \in Live(Base(h, t)) : Unplaced(Base(h, t), Base(h, t), j)
    BY DEF Unplaced
  <2> QED
    BY <2>1, <2>2, <2>3 DEF Sorted
<1>5. ASSUME NEW i \in Nat, i \in S PROVE i + 1 \in S
  <2> SUFFICES ASSUME i + 1 <= Len(t.operations), run(i + 1).ok
               PROVE  Sorted(h, t, i + 1, run(i + 1).host)
    OBVIOUS
  <2>1. i \in 0..(Len(t.operations) - 1) /\ i \in 0..Len(t.operations) /\ i <= Len(t.operations)
    BY <1>1
  <2>2. run(i).ok /\ run(i + 1) = Operate(run(i).host, t, i + 1)
    BY <1>2
  <2> DEFINE g == run(i).host
  <2>3. /\ Shaped(g) /\ Tracks(h, t, i, g) /\ Sorted(h, t, i, g)
        /\ Operate(g, t, i + 1).ok
    BY <1>3, <1>5, <2>1, <2>2 DEF Keeps
  <2> HIDE DEF g
  <2>4. Sorted(h, t, i + 1, Operate(g, t, i + 1).host)
    BY <2>1, <2>3, SortedStep
  <2> QED
    BY <2>2, <2>4 DEF g
<1> HIDE DEF S
<1>6. Nat \subseteq S
  BY <1>4, <1>5, NatSet
<1> QED
  BY <1>1, <1>6 DEF S, run

(* A transaction with a lone move closes no cycle, mounted or not.         *)
LEMMA ExecutionsCloseNone ==
  ASSUME NEW t \in Transactions, LoneMove(t), NEW h, Keeps(h, {}), Hangs(h), Acyclic(h),
         NEW e \in Executions(h, t)
  PROVE  Acyclic(e.host)
PROOF
<1>1. /\ e.status \in {"mounted", "failed"} /\ Apart(h, e.host, t.surface)
      /\ e.status = "failed" => LeavesNothing(h, t, e.host)
  BY ExecutionsKeep
<1>2. CASE e.status = "failed"
  <2>1. e.host = h \/ LiveOf(e.host, t.surface) = {}
    BY <1>1, <1>2 DEF LeavesNothing
  <2> QED
    BY <1>1, <2>1, EmptySurfaceIsAcyclic
<1>3. CASE e.status = "mounted"
  <2> DEFINE all == Operated(Base(h, t), t, Len(t.operations))
  <2>1. \A g : Failure(g, t).status = "failed" /\ Rejection(g, t).status = "failed"
    BY DEF Failure, Rejection, Result
  <2>2. Admissible(h, t)
    BY <1>3, <2>1 DEF Executions
  <2>3. all.ok /\ e = Result(all.host, "mounted")
    <3>1. \/ e = IF all.ok THEN Result(all.host, "mounted") ELSE Failure(all.host, t)
          \/ \E n : e = Failure(Operated(Base(h, t), t, n).host, t)
      BY <2>2, Zenon DEF Executions, Base
    <3> HIDE DEF all
    <3> QED
      BY <1>3, <2>1, <3>1
  <2>4. /\ Preflight(h, t) /\ t.surface \in root
        /\ Len(t.operations) \in 0..Len(t.operations)
    BY <2>2, MountAssumption DEF Admissible
  <2>5. Sorted(h, t, Len(t.operations), all.host)
    BY <2>3, <2>4, SortedThrough
  <2> HIDE DEF all
  <2> QED
    BY <2>3, <2>5 DEF Result, Sorted
<1> QED
  BY <1>1, <1>2, <1>3

(* The one move of a transaction closes no cycle where there was none,     *)
(* whatever the transaction creates, removes and changes around it, mounted*)
(* or not: preflight asked that of the tree as it was before.  Of several  *)
(* moves or inserts it asks no more, and they may close one together.      *)
THEOREM LoneMovesCloseNoCycle == Spec => LoneMoveClosesNoCycle
PROOF
<1> DEFINE Leaving == queue # <<>> /\ queue' = Tail(queue)
           t == Head(queue)
           Safe == (Leaving /\ LoneMove(t) /\ Acyclic(host)) => Acyclic(host')
<1>1. ASSUME IInv, TreeInv, Next, Leaving, LoneMove(t), Acyclic(host) PROVE Acyclic(host')
  <2>1. Execute
    BY <1>1, OnlyExecuteLeaves
  <2>2. PICK e \in Executions(host, t) : host' = e.host
    BY <2>1 DEF Execute
  <2>3. t \in Transactions /\ Keeps(host, {}) /\ Hangs(host)
    BY <1>1 DEF IInv, Calls, TreeInv
  <2> HIDE DEF t
  <2>4. Acyclic(e.host)
    BY <1>1, <2>3, ExecutionsCloseNone
  <2> QED
    BY <2>2, <2>4, Zenon
<1>2. IInv /\ TreeInv /\ [Next]_vars => [Safe]_vars
  <2> HIDE DEF Leaving, t
  <2> QED
    BY <1>1, Zenon DEF Safe
<1>3. LoneMoveClosesNoCycle <=> [][Safe]_vars
  BY Zenon DEF LoneMoveClosesNoCycle
<1> HIDE DEF Safe
<1>4. Spec => [][Safe]_vars
  BY <1>2, IInvHolds, TreeInvHolds, PTL DEF Spec
<1> QED
  BY <1>3, <1>4, PTL
=============================================================================
