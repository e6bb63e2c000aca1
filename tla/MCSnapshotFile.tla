---------------------------- MODULE MCSnapshotFile ----------------------------
(* Instances of SnapshotFile.                                               *)
EXTENDS SnapshotFile

CONSTANTS a, b, e

\* Documents of different lengths: a shorter one cannot hide a longer one's tail.
MCDocLength == [x \in Authors |-> IF x = b THEN 2 ELSE 1]
===============================================================================
