------------------------------ MODULE MCIpaNat ------------------------------
(* Small instances of IpaNat.                                               *)
EXTENDS IpaNat

CONSTANTS f1, f2, f3

\* One bucket in both tables, so that every position of a chain is reached: the
\* low bits of f3 are zero, and the driver moves bucket 0 to the last one.
OneBucketDst == [f \in Flows |-> IF f = f3 THEN 4 ELSE 7]
OneBucketSrc == [f \in Flows |-> IF f = f3 THEN 8 ELSE 3]

=============================================================================
