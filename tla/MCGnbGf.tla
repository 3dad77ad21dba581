------------------------------ MODULE MCGnbGf ------------------------------
(* GnbGf for TLC: the configurations callers ask for, the last two of them  *)
(* invalid.                                                                 *)
EXTENDS GnbGf, TLC

MCRequests == {[period |-> 2, offset |-> 1, pid |-> 0],
               [period |-> 1, offset |-> 0, pid |-> 1],
               [period |-> 1, offset |-> 1, pid |-> 0],
               [period |-> 0, offset |-> 0, pid |-> 1]}

\* Bound: configurations in all tables together
MCFewConfigs == Cardinality({p \in Uid \X (1 .. MaxConfigs) : p[2] <= Len(configs[p[1]])}) <= 2

\* RNTIs are only compared with each other.
MCSymmetry == Permutations(Rnti)
=============================================================================
