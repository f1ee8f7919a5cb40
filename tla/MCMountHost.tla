---------------------------- MODULE MCMountHost -----------------------------
(***************************************************************************)
(* Two surfaces; on the first, transactions that build, change and undo a  *)
(* small tree, each legal and each able to fail in a way of its own.  Left *)
(* out are those that close a cycle by several moves or inserts, which     *)
(* preflight lets pass: LVGL would follow it for ever.                     *)
(***************************************************************************)
EXTENDS MountHost

CONSTANTS s1, s2, n1, n2, n3

Create(n, type)       == [op |-> "create", node |-> n, type |-> type]
Insert(n, parent)     == [op |-> "insert", node |-> n, parent |-> parent]
Move(n, parent)       == [op |-> "move", node |-> n, parent |-> parent]
Drop(n)             == [op |-> "remove", node |-> n]
Layout(n)             == [op |-> "layout", node |-> n]
Prop(n, name, value)  == [op |-> "prop", node |-> n, name |-> name, value |-> value]

Tx(s, mode, batch, batches, operations) ==
  [surface |-> s, mode |-> mode, batch |-> batch, batches |-> batches,
   operations |-> operations]

Change(operations) == Tx(s1, "incremental", 0, 1, operations)

MCTransactions == {
  Tx(s1, "full", 0, 1, <<Create(n1, "view"), Create(n2, "text"), Insert(n2, n1)>>),
  Tx(s1, "full", 0, 2, <<Create(n1, "view"), Create(n2, "view")>>),
  Tx(s1, "incremental", 1, 2, <<Insert(n2, n1), Create(n3, "slider"), Insert(n3, n2)>>),
  Tx(s2, "full", 0, 1, <<Create(n1, "image"), Prop(n1, "src", 0), Prop(n1, "fontSize", 3)>>),
  Change(<<Create(n3, "tabs"), Prop(n3, "selected", 1), Prop(n3, "items", 2), Insert(n3, n1)>>),
  Change(<<Create(n3, "picker"), Prop(n3, "selected", 1), Layout(n3)>>),
  Change(<<Move(n3, n1), Prop(n2, "fontSize", 2)>>),
  Change(<<Move(n2, n3)>>),
  Change(<<Prop(n3, "max", 6), Prop(n3, "min", 5)>>),
  Change(<<Drop(n3), Drop(n2)>>),
  Change(<<Drop(n2)>>)}
=============================================================================
