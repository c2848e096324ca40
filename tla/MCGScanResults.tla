--------------------------- MODULE MCGScanResults ----------------------------
(* Instances of GScanResults for TLC. *)
EXTENDS GScanResults

\* A scan without results, one that fits, one with more results than the caller
\* has room for, and one whose attribute is shorter than it claims.
SomeScans == {[num |-> 0, len |-> 0], [num |-> 1, len |-> 1],
              [num |-> 3, len |-> 3], [num |-> 2, len |-> 1]}
=============================================================================
