------------------------------ MODULE MCUeLcp ------------------------------
(* Three logical channels in two groups: one channel alone, below or above a  *)
(* pair of equal priority, or all different.                                  *)
EXTENDS UeLcp

MCPriorities == {<<2, 1, 1>>, <<1, 1, 2>>, <<1, 2, 3>>}
MCPbr == <<1, 2, 9>>
MCCredit == <<1, 1, 1>>
MCBucket == <<1, 1, 1>>
MCLcg == <<0, 1, 1>>
=============================================================================
