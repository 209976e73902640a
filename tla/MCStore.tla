------------------------------- MODULE MCStore -------------------------------
(* Instances of Store for TLC. *)
EXTENDS Store, TLC

CONSTANTS k1, k2, k3, small, large, c1, c2

MCKeys3 == {k1, k2, k3}
MCRecords == {small, large}

\* One record fits the budget of 3 twice over only next to a small one.
MCSize == small :> 1 @@ large :> 2
=============================================================================
