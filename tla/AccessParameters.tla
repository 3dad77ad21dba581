--------------------------- MODULE AccessParameters ---------------------------
(***************************************************************************)
(* What the two ends of the random access procedure share: RNTIs, UEs,     *)
(* contention based preambles, and the value that stands for none.         *)
(***************************************************************************)
EXTENDS Integers, FiniteSets

CONSTANTS
  Rntis,        \* the RNTIs nr_mac_get_new_rnti() may draw
  Ues,          \* the UEs, as their contention resolution identities
  Preambles     \* contention based preambles

ASSUME AccessParametersAssumption ==
  /\ IsFiniteSet(Rntis) /\ Rntis \subseteq Nat \ {0}
  /\ Preambles \subseteq Nat \ {0}

NoRnti == 0
NoUe == "none"
=============================================================================
