---------------------------- MODULE MCRandomAccess ----------------------------
(* Quotas that keep the runs of RandomAccess finite and small: two UEs that  *)
(* contend, or one UE with every interruption.                              *)
EXTENDS RandomAccess

CONSTANTS u1, u2

NoQuota == [ues |-> {}, processes |-> 1, occasions |-> 0, losses |-> 0,
            reestablishments |-> 0, resets |-> 0, triggers |-> 0, expiries |-> 0,
            failures |-> 0, releases |-> 0]

MCQuotas ==
  {\* two UEs in one occasion, with one preamble or two
   [NoQuota EXCEPT !.ues = {u1, u2}, !.processes = 2, !.occasions = 1],
   \* random access with the C-RNTI, and losses
   [NoQuota EXCEPT !.ues = {u1}, !.occasions = 2, !.losses = 1, !.triggers = 1, !.expiries = 1],
   \* resets at any time, UL failure and release
   [NoQuota EXCEPT !.ues = {u1}, !.occasions = 2, !.resets = 1, !.failures = 1, !.releases = 1],
   \* reestablishment with them, and until the gNB is full
   [NoQuota EXCEPT !.ues = {u1}, !.occasions = 2, !.reestablishments = 1, !.failures = 1,
                   !.releases = 1],
   [NoQuota EXCEPT !.ues = {u1}, !.occasions = 3, !.reestablishments = 2]}
=============================================================================
