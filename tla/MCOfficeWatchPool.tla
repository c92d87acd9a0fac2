--------------------------- MODULE MCOfficeWatchPool ---------------------------
(* Small instances of OfficeWatchPool for TLC. *)
EXTENDS OfficeWatchPool, TLC

CONSTANTS k1, k2, w1, w2

\* Each file is in a workspace of its own.
OwnRoots == k1 :> w1 @@ k2 :> w2
=============================================================================
