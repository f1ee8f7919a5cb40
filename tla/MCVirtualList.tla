--------------------------- MODULE MCVirtualList ----------------------------
(* VirtualList in the configurations of its runs: lists shorter and longer *)
(* than their viewport, rows that divide it and rows that do not.          *)
EXTENDS VirtualList
=============================================================================
