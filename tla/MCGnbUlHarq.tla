---------------------------- MODULE MCGnbUlHarq ----------------------------
(***************************************************************************)
(* GnbUlHarq for TLC: the specification with the fairness of the gNB's     *)
(* threads.                                                                *)
(***************************************************************************)
EXTENDS GnbUlHarq

(* A UE that F1 and random access leave alone: grants, reports, losses and  *)
(* measurement gaps.  The slot loop runs for ever, so a grant that is       *)
(* possible in infinitely many slots is made (gaps leave slots in between,  *)
(* hence strong fairness); the PHY reports every PUSCH it did not lose and  *)
(* nr_rx_sdu() runs to its end.                                             *)
NewBlock == \E tb \in TbSizes : PfUlNew(tb)
RxReport == \E ok, bsr, lowCqi \in BOOLEAN : RxSdu(ok, bsr, lowCqi)
Undisturbed == Scheduler \/ Reception \/ LoseReport \/ MeasGap \/ InterruptExpires
Fairness ==
  /\ SF_vars(PfUlRetransmission)
  /\ SF_vars(NewBlock)
  /\ WF_vars(RxReport)
  /\ WF_vars(HarqLoop)
  /\ WF_vars(InterruptExpires)
FairSpec == Init /\ [][Undisturbed]_vars /\ Fairness

(* Every granted block comes to an end, decoded or given up, although the   *)
(* PHY loses reports: a process left waiting is flushed by the report of    *)
(* another one.  This needs one process whose report is not lost; the only  *)
(* other way out is to declare UL failure, after which nothing is granted.  *)
BlocksFinish ==
  \A p \in Pid : p \in Elems(feedback) \cup Elems(retrans)
                   ~> (p \in Elems(available) \/ ulFailure)
=============================================================================
