----------------------------- MODULE MountHost ------------------------------
(***************************************************************************)
(* MountHost (src/mount/mount_host.cpp): transactions of operations on a   *)
(* tree of LVGL objects are posted, checked as a whole and executed by the *)
(* owner, with the fonts, images and event handlers the objects hold.      *)
(*                                                                         *)
(* A post is two steps: it looks whether the host accepts, then takes the  *)
(* admission lock and a slot without looking again.  A transaction is one  *)
(* step of the owner.  The order of siblings, geometry, texts and styles   *)
(* are left out; a number stands for a property's value.  LVGL, which may  *)
(* refuse any object, font or image, and the surface host, which destroys  *)
(* a page root whatever stands on it, are external.                        *)
(***************************************************************************)
EXTENDS Integers, FiniteSets, SequencesExt

CONSTANTS
  Surfaces, Nodes,
  Transactions,     \* what Core posts
  DefaultSize,      \* kDefaultFontSize
  MaxObjects, MaxFonts, MaxTransactions,  \* limits_
  MaxBindings,      \* size of each table of handlers
  MaxVersions       \* bound of the model: contents a resource takes

Types == {"view", "text", "slider", "picker", "tabs", "image"}

(* MountOperation, with what a step can depend on.                         *)
Operations ==
  [op : {"create"}, node : Nodes, type : Types]
  \cup [op : {"prop"}, node : Nodes, value : Int,
        name : {"fontSize", "min", "max", "items", "selected", "src"}]
  \cup [op : {"layout", "remove"}, node : Nodes]
  \cup [op : {"insert", "move"}, node : Nodes, parent : Nodes]

OnRoot == "root"    \* parent of an object that hangs on the page root

ASSUME MountAssumption ==
  /\ {MaxObjects, MaxFonts, MaxTransactions, MaxBindings, DefaultSize} \subseteq Nat \ {0}
  /\ IsFiniteSet(Nodes) /\ OnRoot \notin Nodes
  /\ \A t \in Transactions : /\ t.surface \in Surfaces /\ t.operations \in Seq(Operations)
                             /\ t.batches \in Nat \ {0}

VARIABLES
  accepting, closed,  \* accepting_, closed_
  posting,            \* a post has passed its check and is not admitted yet
  queue,              \* transactions_ in the order of the owner's queue
  root,               \* surfaces whose page root is there
  host,               \* objects_, fonts_, handlers and decoded_resources_
  resource,           \* resources_: the content of the one path, 0 if none
  answer,             \* the last result given to the sink
  late                \* history: admitted after the host had closed

vars == <<accepting, closed, posting, queue, root, host, resource, answer, late>>

FontSizes == 1..256  \* kSystemDefaultFontMinSize to kSystemDefaultFontMaxSize
MaxTabs   == 32

Keys  == Surfaces \X Nodes
Fonts == 1..MaxFonts

NoObject == [type |-> "none"]
NoFont   == 0

(* What CreateHost sets up: 100 default steps of a slider are 4 here, and  *)
(* a dropdown is born with three options.                                  *)
NewObject(type, attached) ==
  [type |-> type, attached |-> attached, parent |-> OnRoot, font |-> NoFont,
   min |-> 0, max |-> 4, selected |-> 0,
   items |-> IF type = "picker" THEN 3 ELSE 0, image |-> 0]

Init ==
  /\ accepting = TRUE /\ closed = FALSE /\ posting = FALSE
  /\ queue = <<>>
  /\ root = {}
  /\ host = [object  |-> [k \in Keys |-> NoObject],
             font    |-> [f \in Fonts |-> [size |-> 0, references |-> 0]],
             bound   |-> {}, stray |-> {}, decoded |-> 0]
  /\ resource = 0 /\ answer = "none" /\ late = FALSE

(***************************************************************************)
(* Objects, fonts and what their removal takes along                       *)
(***************************************************************************)
Live(h)      == {k \in Keys : h.object[k] # NoObject}
LiveOf(h, s) == {k \in Live(h) : k[1] = s}

(* findSlot *)
Found(h, s, n) == <<s, n>> \in Live(h)

(* k and what it hangs on, as far as the page root.                        *)
Lineage(h, k) ==
  LET up[d \in 0..Cardinality(Nodes)] ==
        IF d = 0 THEN {k}
        ELSE up[d - 1] \cup {<<k[1], h.object[j].parent>> :
                               j \in {i \in up[d - 1] : h.object[i].parent # OnRoot}}
  IN  up[Cardinality(Nodes)]

SlotMin(S) == CHOOSE n \in S : \A m \in S : n <= m

(* acquireFont: a slot of that size, or one that never held a font.        *)
FontFor(h, size) ==
  LET same  == {f \in Fonts : h.font[f].size = size}
      fresh == {f \in Fonts : h.font[f].size = 0}
  IN  IF same # {} THEN SlotMin(same) ELSE IF fresh # {} THEN SlotMin(fresh) ELSE NoFont

Acquired(h, f, size) ==
  [h EXCEPT !.font[f] = [size |-> size, references |-> @.references + 1]]

Released(h, f) == IF f = NoFont THEN h ELSE [h EXCEPT !.font[f].references = @ - 1]

(* onClick to onScroll: an event of an object reaches the callback of each *)
(* handler that is live.                                                   *)
Reached(h, keys) == {b \in h.bound : <<b[2], b[3]>> \in keys}

(* LVGL may send an event to an object while it deletes it.                *)
Deleted(h, dead) ==
  [h EXCEPT !.stray = @ \cup Reached(h, dead),
            !.object = [k \in Keys |-> IF k \in dead THEN NoObject ELSE @[k]]]

Unbound(h, dead) == [h EXCEPT !.bound = @ \ Reached(h, dead)]

(* A font less the objects of dead drawn with it; the font itself stays.   *)
GivenBack(h, f, dead) ==
  [h.font[f] EXCEPT !.references = @ - Cardinality({j \in dead : h.object[j].font = f})]

(* Mistake: only the objects asked for give their fonts back.              *)
FontsBackOfTop(h, keys, dead) == [h EXCEPT !.font = [f \in Fonts |-> GivenBack(h, f, keys)]]

(* Each removed object gives its font back.                                *)
FontsBack(h, keys, dead) == [h EXCEPT !.font = [f \in Fonts |-> GivenBack(h, f, dead)]]

(* Mistake: the handlers are retired after the objects.                    *)
DestroyThenUnbind(h, keys) ==
  LET dead == {j \in Live(h) : Lineage(h, j) \cap keys # {}}
  IN  Unbound(Deleted(FontsBack(h, keys, dead), dead), dead)

(* Mistake: what hangs on the objects asked for stays.                     *)
DestroyTop(h, keys) ==
  LET dead == Live(h) \cap keys
  IN  Deleted(Unbound(FontsBack(h, keys, dead), dead), dead)

(* destroySlot: the handlers of the subtree are retired before LVGL        *)
(* deletes it.                                                             *)
Destroy(h, keys) ==
  LET dead == {j \in Live(h) : Lineage(h, j) \cap keys # {}}
  IN  Deleted(Unbound(FontsBack(h, keys, dead), dead), dead)

(* Objects LVGL still has.  It deleted the others with their page root, and*)
(* destroySlot, which finds a subtree by what LVGL calls valid, passes over*)
(* their slots.                                                            *)
Native(h) == {k \in Live(h) : k[1] \in root}

(* destroySurfaceObjects and destroyAllObjects destroy slot by slot; the   *)
(* order is of no consequence.                                             *)
DestroySurface(h, s) == IF s \in root THEN Destroy(h, LiveOf(h, s)) ELSE h

DestroyAll(h) == Destroy(h, Native(h))

(***************************************************************************)
(* preflight                                                               *)
(***************************************************************************)
Creates(t, n, before) ==
  \E i \in 1..before : t.operations[i].op = "create" /\ t.operations[i].node = n

WellFormed(t) ==
  /\ t.operations # <<>>
  /\ t.mode = "full" =>
       /\ t.batch = 0
       /\ \E i \in DOMAIN t.operations : t.operations[i].op = "create"
       /\ \A i \in DOMAIN t.operations : t.operations[i].op \notin {"move", "remove"}

ExistsOrCreated(h, t, n, before) ==
  (t.mode = "incremental" /\ Found(h, t.surface, n)) \/ Creates(t, n, before)

(* Mistake: a node may become a child of its own descendant.               *)
MoveAnywhere(h, s, n, parent) == Found(h, s, n) /\ Found(h, s, parent)

MoveAllowed(h, s, n, parent) ==
  /\ Found(h, s, n) /\ Found(h, s, parent)
  /\ <<s, n>> \notin Lineage(h, <<s, parent>>)

(* Every operation is checked against the tree as it is before the         *)
(* transaction, and against the creations that precede it.                 *)
Allowed(h, t, i) ==
  LET o == t.operations[i]
  IN  CASE o.op = "create" -> /\ t.mode = "full" \/ ~Found(h, t.surface, o.node)
                              /\ ~Creates(t, o.node, i - 1)
        [] o.op = "prop" -> /\ ExistsOrCreated(h, t, o.node, i - 1)
                            /\ o.name = "fontSize" => o.value \in FontSizes
        [] o.op = "layout" -> ExistsOrCreated(h, t, o.node, i - 1)
        [] o.op = "insert" -> /\ \/ Creates(t, o.node, i - 1)
                                 \/ t.batch > 0 /\ Found(h, t.surface, o.node)
                              /\ ExistsOrCreated(h, t, o.parent, i - 1)
        [] o.op = "move" -> MoveAllowed(h, t.surface, o.node, o.parent)
        [] o.op = "remove" -> Found(h, t.surface, o.node)

Preflight(h, t) == WellFormed(t) /\ \A i \in DOMAIN t.operations : Allowed(h, t, i)

(***************************************************************************)
(* The operations: the host after it, and whether it succeeded             *)
(***************************************************************************)
Done(h)   == [host |-> h, ok |-> TRUE]
Broken(h) == [host |-> h, ok |-> FALSE]

WithFont(h, k, size) ==
  LET f == FontFor(h, size)
  IN  IF f = NoFont THEN Broken(h)
      ELSE Done([Released(Acquired(h, f, size), h.object[k].font) EXCEPT !.object[k].font = f])

CreateOp(h, t, i) ==
  LET o       == t.operations[i]
      created == [h EXCEPT !.object[<<t.surface, o.node>>] =
                    NewObject(o.type, i = 1 /\ t.mode = "full")]
  IN  IF Cardinality(Live(h)) = MaxObjects THEN Broken(h)
      ELSE IF o.type = "view" THEN Done(created)
      ELSE WithFont(created, <<t.surface, o.node>>, DefaultSize)

FontSizeProp(h, k, size) ==
  IF h.object[k].type = "view" THEN Broken(h)
  ELSE IF h.object[k].font # NoFont /\ h.font[h.object[k].font].size = size THEN Done(h)
  ELSE WithFont(h, k, size)

(* min and max take effect one at a time: a range that is empty in between *)
(* fails the transaction.                                                  *)
RangeProp(h, k, name, value) ==
  LET set == IF name = "min" THEN [h EXCEPT !.object[k].min = value]
                             ELSE [h EXCEPT !.object[k].max = value]
  IN  IF h.object[k].type = "slider" /\ set.object[k].min < set.object[k].max
      THEN Done(set) ELSE Broken(set)

(* Options of a dropdown, tabs of a tab view; the selection of tabs waits  *)
(* for them.                                                               *)
ItemsProp(h, k, count) ==
  LET set == [h EXCEPT !.object[k].items = count]
  IN  IF \/ h.object[k].type = "picker"
         \/ h.object[k].type = "tabs" /\ count \in 1..MaxTabs /\ h.object[k].selected < count
      THEN Done(set) ELSE Broken(set)

SelectedProp(h, k, choice) ==
  LET set == [h EXCEPT !.object[k].selected = choice]
  IN  IF /\ choice >= 0
         /\ \/ h.object[k].type = "picker" /\ choice < h.object[k].items
            \/ h.object[k].type = "tabs" /\ (h.object[k].items = 0 \/ choice < h.object[k].items)
      THEN Done(set) ELSE Broken(set)

(* The pixels come from the first decoding of the path, whatever setResource*)
(* has put there since.                                                    *)
ImageProp(h, k) ==
  LET pixels == IF h.decoded # 0 THEN h.decoded ELSE resource
  IN  IF h.object[k].type # "image" \/ resource = 0 THEN Broken(h)
      ELSE Done([h EXCEPT !.decoded = pixels, !.object[k].image = pixels])

PropOp(h, k, name, value) ==
  IF k \notin Live(h) THEN Broken(h)
  ELSE CASE name = "fontSize" -> FontSizeProp(h, k, value)
         [] name \in {"min", "max"} -> RangeProp(h, k, name, value)
         [] name = "items" -> ItemsProp(h, k, value)
         [] name = "selected" -> SelectedProp(h, k, value)
         [] name = "src" -> ImageProp(h, k)

LayoutOp(h, k) == IF k \in Live(h) THEN Done(h) ELSE Broken(h)

InsertOp(h, s, n, parent) ==
  IF Found(h, s, n) /\ Found(h, s, parent) /\ ~h.object[<<s, n>>].attached
  THEN Done([h EXCEPT !.object[<<s, n>>].parent = parent, !.object[<<s, n>>].attached = TRUE])
  ELSE Broken(h)

MoveOp(h, s, n, parent) ==
  IF Found(h, s, n) /\ Found(h, s, parent) /\ n # parent
  THEN Done([h EXCEPT !.object[<<s, n>>].parent = parent])
  ELSE Broken(h)

RemoveOp(h, k) == IF k \in Live(h) THEN Done(Destroy(h, {k})) ELSE Broken(h)

Operate(h, t, i) ==
  LET o == t.operations[i]  k == <<t.surface, o.node>>
  IN  CASE o.op = "create" -> CreateOp(h, t, i)
        [] o.op = "prop"   -> PropOp(h, k, o.name, o.value)
        [] o.op = "layout" -> LayoutOp(h, k)
        [] o.op = "insert" -> InsertOp(h, t.surface, o.node, o.parent)
        [] o.op = "move"   -> MoveOp(h, t.surface, o.node, o.parent)
        [] o.op = "remove" -> RemoveOp(h, k)

(* The first n operations, one after the other until one fails.            *)
Operated(h, t, n) ==
  LET run[i \in 0..n] ==
        IF i = 0 THEN Done(h)
        ELSE IF run[i - 1].ok THEN Operate(run[i - 1].host, t, i) ELSE run[i - 1]
  IN  run[n]

(***************************************************************************)
(* execute                                                                 *)
(***************************************************************************)
Result(h, status) == [host |-> h, status |-> status]

Rejection(h, t) ==
  Result(IF t.batches > 1 THEN DestroySurface(h, t.surface) ELSE h, "failed")

(* Mistake: what was done before the failure stays.                        *)
FailureKeepsPrefix(h, t) == Result(h, "failed")

Failure(h, t) == Result(DestroySurface(h, t.surface), "failed")

(* What LVGL or the allocator may refuse: a layout only resizes images.    *)
Refusable(h, t, i) ==
  LET o == t.operations[i]  k == <<t.surface, o.node>>
  IN  \/ o.op \in {"create", "prop"}
      \/ o.op = "layout" /\ k \in Live(h) /\ h.object[k].image # 0

Admissible(h, t) == t.surface \in root /\ Preflight(h, t)

Executions(h, t) ==
  IF ~Admissible(h, t) THEN {Rejection(h, t)}
  ELSE LET base == IF t.mode = "full" THEN DestroySurface(h, t.surface) ELSE h
           all  == Operated(base, t, Len(t.operations))
           stops == {m \in 0..(Len(t.operations) - 1) :
                       Refusable(Operated(base, t, m).host, t, m + 1)}
       IN  {IF all.ok THEN Result(all.host, "mounted") ELSE Failure(all.host, t)}
           \cup {Failure(Operated(base, t, n).host, t) : n \in stops}

(* executeSlot: the result is given, then the slot is free.                *)
Execute ==
  /\ queue # <<>> /\ queue' = Tail(queue)
  /\ \E e \in Executions(host, Head(queue)) :
       host' = e.host /\ answer' = e.status
  /\ UNCHANGED <<accepting, closed, posting, root, resource, late>>

(***************************************************************************)
(* post, releaseSurface, close, finishClose                                *)
(***************************************************************************)
PostCheck ==
  /\ accepting /\ ~closed
  /\ ~posting /\ posting' = TRUE
  /\ UNCHANGED <<accepting, closed, queue, root, host, resource, answer, late>>

PostAdmit(t) ==
  /\ posting /\ posting' = FALSE
  /\ Len(queue) < MaxTransactions
  /\ queue' = Append(queue, t)
  /\ late' = (late \/ closed)
  /\ UNCHANGED <<accepting, closed, root, host, resource, answer>>

(* No slot, too many bytes, a busy lock or a full owner queue.             *)
PostRefused ==
  /\ posting /\ posting' = FALSE
  /\ UNCHANGED <<accepting, closed, queue, root, host, resource, answer, late>>

Busy(s) == \E i \in DOMAIN queue : queue[i].surface = s

ReleaseSurface(s) ==
  /\ ~Busy(s) /\ LiveOf(host, s) # {}
  /\ host' = DestroySurface(host, s)
  /\ UNCHANGED <<accepting, closed, posting, queue, root, resource, answer, late>>

Close ==
  /\ accepting /\ accepting' = FALSE
  /\ UNCHANGED <<closed, posting, queue, root, host, resource, answer, late>>

(* Mistake: what is still queued is not waited for.                        *)
MayFinishAnyway == ~accepting

MayFinish == ~accepting /\ queue = <<>>

FinishClose ==
  /\ MayFinish /\ ~closed /\ closed' = TRUE
  /\ host' = [DestroyAll(host)
                EXCEPT !.font = [f \in Fonts |-> [size |-> 0, references |-> 0]],
                       !.decoded = 0]
  /\ resource' = 0
  /\ UNCHANGED <<accepting, posting, queue, root, answer, late>>

SetResource ==
  /\ resource < MaxVersions /\ resource' = resource + 1
  /\ UNCHANGED <<accepting, closed, posting, queue, root, host, answer, late>>

(***************************************************************************)
(* Handlers.  A click handler fits every object, the others one type each. *)
(***************************************************************************)
Kinds == {"click", "control"}

Fits(kind, type) == kind = "click" \/ type \in {"slider", "picker", "tabs"}

(* A handler that is there is replaced in place.  Of a surface that is gone*)
(* the slot names an object LVGL has deleted: no call is made for it.      *)
Install(kind, s, n) ==
  /\ s \in root /\ Found(host, s, n) /\ Fits(kind, host.object[<<s, n>>].type)
  /\ <<kind, s, n>> \in host.bound \/ Cardinality({b \in host.bound : b[1] = kind}) < MaxBindings
  /\ host' = [host EXCEPT !.bound = @ \cup {<<kind, s, n>>}]
  /\ UNCHANGED <<accepting, closed, posting, queue, root, resource, answer, late>>

(***************************************************************************)
(* The surface host, external.  A surface has an id of its own, at least   *)
(* until nothing of it is left here.                                       *)
(***************************************************************************)
SurfaceCreated(s) ==
  /\ s \notin root /\ LiveOf(host, s) = {} /\ root' = root \cup {s}
  /\ UNCHANGED <<accepting, closed, posting, queue, host, resource, answer, late>>

(* LVGL deletes the page root with all objects on it.  A content port may  *)
(* have called releaseSurface before, which is busy while a transaction of *)
(* the surface waits; the one in page_root_backend.h does nothing.         *)
SurfaceDestroyed(s) ==
  /\ s \in root /\ root' = root \ {s}
  /\ UNCHANGED <<accepting, closed, posting, queue, host, resource, answer, late>>

Next ==
  \/ PostCheck \/ PostRefused
  \/ \E t \in Transactions : PostAdmit(t)
  \/ Execute
  \/ \E s \in Surfaces : ReleaseSurface(s) \/ SurfaceCreated(s) \/ SurfaceDestroyed(s)
  \/ \E kind \in Kinds, s \in Surfaces, n \in Nodes : Install(kind, s, n)
  \/ SetResource
  \/ Close \/ FinishClose

Spec == Init /\ [][Next]_vars

(***************************************************************************)
(* Properties                                                              *)
(***************************************************************************)
TypeOK ==
  /\ {accepting, closed, posting, late} \subseteq BOOLEAN
  /\ queue \in Seq(Transactions) /\ Len(queue) <= MaxTransactions
  /\ root \subseteq Surfaces
  /\ \A k \in Live(host) : /\ host.object[k].type \in Types
                          /\ host.object[k].font \in Fonts \cup {NoFont}
  /\ host.bound \subseteq Kinds \X Surfaces \X Nodes
  /\ answer \in {"none", "mounted", "failed"}

(* Until finishClose drops the fonts, each slot counts just the objects    *)
(* drawn with it, whichever way they came by it and however they went, and *)
(* those left behind with their surface; a text always has a font, and a   *)
(* size has one slot.                                                      *)
FontsAreCounted ==
  /\ TypeOK
  /\ closed \/ \A f \in Fonts : host.font[f].references = Cardinality({k \in Live(host) : host.object[k].font = f})
  /\ \A k \in Live(host) : host.object[k].font = NoFont <=> host.object[k].type = "view"
  /\ \A f, g \in Fonts : (f # g /\ host.font[f].size # 0) => host.font[f].size # host.font[g].size

(* What an object hangs on is there: a removal, a rollback, a full mount   *)
(* takes all that hangs on what it destroys, however it came there, and    *)
(* what a surface left behind is left behind whole.                        *)
ParentsAreThere ==
  \A k \in Live(host) :
    host.object[k].parent # OnRoot => <<k[1], host.object[k].parent>> \in Live(host)

(* No object hangs on itself through others.                               *)
Acyclic(h) ==
  \A k \in Live(h) :
    h.object[k].parent # OnRoot => k \notin Lineage(h, <<k[1], h.object[k].parent>>)

(* A transaction that places one object, by a move.                        *)
LoneMove(t) ==
  \E i \in DOMAIN t.operations :
    /\ t.operations[i].op = "move"
    /\ \A j \in DOMAIN t.operations \ {i} : t.operations[j].op \notin {"insert", "move"}

(* The one move of a transaction closes no cycle, whatever the transaction *)
(* creates, removes and changes before it: preflight has looked at the tree*)
(* as it was before all that.  Of several moves, or an insert, it would not*)
(* be true: preflight does not see them together.                          *)
LoneMoveClosesNoCycle ==
  [][(queue # <<>> /\ queue' = Tail(queue) /\ LoneMove(Head(queue)) /\ Acyclic(host))
       => Acyclic(host')]_vars

(* A callback is told of nodes the host knows, also when LVGL sends events *)
(* while destroySlot deletes a subtree, a surface or everything.           *)
CallbacksNameLiveNodes ==
  /\ host.stray = {}
  /\ \A b \in host.bound : <<b[2], b[3]>> \in Live(host) /\ Fits(b[1], host.object[<<b[2], b[3]>>].type)

(* What a transaction asks for, said without its order: the nodes there    *)
(* before or created, each under the parent it was last given, less those  *)
(* removed and all below them.                                             *)
Asked(h, t) ==
  LET s       == t.surface
      ops     == Range(t.operations)
      placing == {i \in DOMAIN t.operations : t.operations[i].op \in {"insert", "move"}}
      before  == IF t.mode = "full" THEN {} ELSE {k[2] : k \in LiveOf(h, s)}
      nodes   == before \cup {o.node : o \in {x \in ops : x.op = "create"}}
      places(n) == {i \in placing : t.operations[i].node = n}
      parent  == [n \in nodes |->
                    IF places(n) # {}
                    THEN t.operations[CHOOSE i \in places(n) : \A j \in places(n) : j <= i].parent
                    ELSE IF n \in before THEN h.object[<<s, n>>].parent ELSE OnRoot]
      kept(gone) == {n \in nodes \ gone : parent[n] \notin gone}
      removed == {o.node : o \in {x \in ops : x.op = "remove"}}
      left[d \in 0..Cardinality(Nodes)] ==
        IF d = 0 THEN nodes \ removed ELSE left[d - 1] \cap kept(nodes \ left[d - 1])
  IN  [n \in left[Cardinality(Nodes)] |-> parent[n]]

TreeOf(h, s) == [n \in {k[2] : k \in LiveOf(h, s)} |-> h.object[<<s, n>>].parent]

(* A transaction is done as a whole or not at all, and its result says     *)
(* which: mounted means that the surface is still there and has the tree   *)
(* the operations ask for; failed means that it is empty, or untouched if a*)
(* lone batch was refused beforehand or the surface went while the         *)
(* transaction waited.  No other surface is touched.                       *)
AllOrNothing ==
  [][(queue # <<>> /\ queue' = Tail(queue)) =>
       LET t == Head(queue)
       IN  /\ \A s \in Surfaces \ {t.surface} : TreeOf(host', s) = TreeOf(host, s)
           /\ \/ answer' = "mounted" /\ t.surface \in root /\ TreeOf(host', t.surface) = Asked(host, t)
              \/ answer' = "failed" /\ LiveOf(host', t.surface) = {}
              \/ answer' = "failed" /\ (t.batches = 1 \/ t.surface \notin root) /\ host' = host]_vars

(* When finishClose has succeeded nothing is left that LVGL still has,     *)
(* unless a post had passed its check before close and was admitted to the *)
(* closed host.                                                            *)
ClosedIsEmpty ==
  (closed /\ ~late) =>
    /\ Native(host) = {} /\ (\A b \in host.bound : b[2] \notin root)
    /\ host.decoded = 0 /\ queue = <<>>
    /\ \A f \in Fonts : host.font[f] = [size |-> 0, references |-> 0]
=============================================================================
