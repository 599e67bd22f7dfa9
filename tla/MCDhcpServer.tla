---------------------------- MODULE MCDhcpServer ----------------------------
(* Small instances of DhcpServer, with a byte of three bits: a range that   *)
(* runs out and one that crosses the reserved addresses 7 and 8.            *)
EXTENDS DhcpServer

CrossingRange == {[start |-> 5, end |-> 9]}
SomeRanges    == {[start |-> 2, end |-> 4], [start |-> 0, end |-> 4]} \union CrossingRange
=============================================================================
