------------------------------ MODULE GnbAccess ------------------------------
(***************************************************************************)
(* The UE contexts of the gNB from the preamble to the release: four-step  *)
(* contention based random access, the transition to the connected list,   *)
(* UL failure, and the F1AP handlers through which the CU answers, moves   *)
(* and releases a UE.                                                      *)
(*                                                                         *)
(* A context is known by its RNTI and is in the access list, in the        *)
(* connected list, or gone.  What survives it is kept apart: the CU UE id  *)
(* stored for an RNTI (f1) and the RLC entities of an RNTI (rlc).  An      *)
(* action is one handler, under sched_lock from its start to its end       *)
(* unless it drops the lock.                                               *)
(***************************************************************************)
EXTENDS AccessParameters

CONSTANTS
  MaxAccess,    \* NR_NB_RA_PROC_MAX
  MaxMobiles,   \* MAX_MOBILES_PER_GNB
  Msg3Rounds,   \* ul_bler.harq_round_max
  Msg4Rounds    \* dl_bler.harq_round_max

ASSUME GnbAccessAssumption ==
  {MaxAccess, MaxMobiles, Msg3Rounds, Msg4Rounds} \subseteq Nat \ {0}

VARIABLES
  gnb,        \* access_ue_list and connected_ue_list
  f1,         \* CU UE id stored for the RNTI: none, its UE's, or of a UE gone
  rlc,        \* RNTIs with an RLC SRB0 entity
  cu,         \* external: where the CU is with the UE it knows by this RNTI
  dl,         \* the call of dl_rrc_message_transfer() past its lookup
  releasing   \* UE whose release complete is sent with the lock dropped

gnbVars == <<gnb, f1, rlc, cu, dl, releasing>>

NoCall == [rnti |-> NoRnti, old |-> NoRnti, live |-> FALSE]

RaStates == {"Msg2", "WAIT_Msg3", "Msg3_retransmission", "Msg4", "WAIT_ACK", "done"}

\* NR_UE_info_t with its NR_RA_t; heard are the UEs with this RA-RNTI.
Context ==
  [list : {"none", "access", "connected"}, state : RaStates,
   timer : {"off", "on", "expired"}, round : Nat, uid : Nat,
   pre : Preambles \cup {0}, heard : SUBSET Ues, owner : Ues \cup {NoUe},
   cell : BOOLEAN, srb : BOOLEAN,
   ulFail : {"no", "on", "asked"}, release : BOOLEAN]

Gone == [list |-> "none", state |-> "done", timer |-> "off", round |-> 0, uid |-> 0,
         pre |-> 0, heard |-> {}, owner |-> NoUe, cell |-> FALSE, srb |-> FALSE,
         ulFail |-> "no", release |-> FALSE]

GnbInit ==
  /\ gnb = [r \in Rntis |-> Gone]
  /\ f1 = [r \in Rntis |-> "none"]
  /\ rlc = {}
  /\ cu = [r \in Rntis |-> "none"]
  /\ dl = NoCall
  /\ releasing = NoRnti

----------------------------------------------------------------------------
(* The lists and what is stored for an RNTI.                                *)

Access == {r \in Rntis : gnb[r].list = "access"}
Connected == {r \in Rntis : gnb[r].list = "connected"}
Present == {r \in Rntis : gnb[r].list # "none"}

\* uid_linear_allocator_new(): the lowest uid no context but r has
NewUid(r, uid) ==
  LET used == {gnb[s].uid : s \in Present \ {r}}
  IN  uid \notin used /\ \A i \in 0 .. uid - 1 : i \in used

\* The thread of the slot loop waits for the lock while it releases a UE.
SlotLoop == releasing = NoRnti

\* Mutant: the context is only taken out of its list.
KeepsContext(r) ==
  /\ gnb' = [gnb EXCEPT ![r].list = "none"]
  /\ dl' = IF dl.rnti = r THEN [dl EXCEPT !.live = FALSE] ELSE dl

\* delete_nr_ue_data(): the context goes, what others hold for its RNTI stays
Delete(r) ==
  /\ gnb' = [gnb EXCEPT ![r] = Gone]
  /\ dl' = IF dl.rnti = r THEN [dl EXCEPT !.live = FALSE] ELSE dl
Abandon(r) ==
  /\ f1' = [f1 EXCEPT ![r] = IF @ = "own" THEN "stale" ELSE @]
  /\ cu' = [cu EXCEPT ![r] = IF @ = "commanded" THEN "unanswered" ELSE @]

\* nr_release_ra_UE(): neither F1 data nor RLC entities are removed
ReleaseRaUe(r) == Delete(r) /\ Abandon(r) /\ UNCHANGED <<rlc, releasing>>

\* nr_mac_request_release_ue(): the request names the CU UE id stored
AsksCu(r) == cu' = [cu EXCEPT ![r] = IF f1[r] = "own" /\ @ = "served" THEN "asked" ELSE @]

----------------------------------------------------------------------------
(* Random access.                                                           *)

\* nr_initiate_ra_proc() with RNTI r free and a free RA process
InitiateRa(r, pre, heard) ==
  /\ gnb[r].list = "none"
  /\ Cardinality(Access) < MaxAccess
  /\ \E uid \in 0 .. Cardinality(Present) :
       /\ NewUid(r, uid)
       /\ gnb' = [gnb EXCEPT ![r] = [Gone EXCEPT !.list = "access", !.state = "Msg2",
                                       !.uid = uid, !.pre = pre, !.heard = heard]]
  /\ UNCHANGED <<f1, rlc, cu, dl, releasing>>

\* nr_generate_Msg2() with resources, which also starts the contention timer
Msg2(r) ==
  /\ SlotLoop
  /\ gnb[r].list = "access" /\ gnb[r].state = "Msg2"
  /\ gnb' = [gnb EXCEPT ![r].state = "WAIT_Msg3", ![r].timer = "on"]
  /\ UNCHANGED <<f1, rlc, cu, dl, releasing>>

\* nr_generate_Msg2() past the response window
Msg2TooLate(r) ==
  /\ SlotLoop
  /\ gnb[r].list = "access" /\ gnb[r].state = "Msg2"
  /\ ReleaseRaUe(r)

\* handle_msg3_failed_rx(), for a NACK or a block without signal
Msg3Failed(r) ==
  /\ gnb[r].list = "access" /\ gnb[r].state = "WAIT_Msg3"
  /\ IF gnb[r].round >= Msg3Rounds - 1
       THEN ReleaseRaUe(r)
       ELSE /\ gnb' = [gnb EXCEPT ![r].round = @ + 1, ![r].state = "Msg3_retransmission"]
            /\ UNCHANGED <<f1, rlc, cu, dl, releasing>>

\* nr_generate_Msg3_retransmission() with resources restarts the timer
Msg3Retransmission(r) ==
  /\ SlotLoop
  /\ gnb[r].list = "access" /\ gnb[r].state = "Msg3_retransmission"
  /\ gnb' = [gnb EXCEPT ![r].state = "WAIT_Msg3", ![r].timer = "on"]
  /\ UNCHANGED <<f1, rlc, cu, dl, releasing>>

\* Mutant: a UE is accepted although every uid of the connected list is taken.
CcchNeverRejects(r, u) ==
  /\ gnb[r].list = "access" /\ gnb[r].state = "WAIT_Msg3"
  /\ gnb' = [gnb EXCEPT ![r].state = "Msg4", ![r].round = 0, ![r].owner = u,
                        ![r].cell = TRUE]
  /\ cu' = [cu EXCEPT ![r] = "new"]
  /\ rlc' = rlc \cup {r}
  /\ UNCHANGED <<f1, dl, releasing>>

\* nr_rx_ra_sdu() for a CCCH message of UE u.  SRB0 of an earlier UE with this
\* RNTI makes prepare_initial_ul_rrc_message() fail: the CU hears nothing.
\* Without a uid below MaxMobiles the message goes without a CellGroup.
Msg3Ccch(r, u) ==
  /\ gnb[r].list = "access" /\ gnb[r].state = "WAIT_Msg3"
  /\ LET msg4 == [gnb[r] EXCEPT !.state = "Msg4", !.round = 0, !.owner = u]
     IN  IF r \in rlc
           THEN gnb' = [gnb EXCEPT ![r] = msg4] /\ UNCHANGED cu
           ELSE \E uid \in 0 .. Cardinality(Present) :
                  /\ IF gnb[r].uid < MaxMobiles THEN uid = gnb[r].uid ELSE NewUid(r, uid)
                  /\ gnb' = [gnb EXCEPT ![r] = [msg4 EXCEPT !.uid = uid,
                                                            !.cell = uid < MaxMobiles]]
                  /\ cu' = [cu EXCEPT ![r] = IF uid < MaxMobiles THEN "new" ELSE "reject"]
  /\ rlc' = rlc \cup {r}
  /\ UNCHANGED <<f1, dl, releasing>>

\* nr_rx_ra_sdu() for a C-RNTI MAC CE with C-RNTI 0: lcid_crnti_lookahead() takes
\* it for none, and Msg4 is awaited although the CU hears nothing of this UE
Msg3NoIdentity(r) ==
  /\ gnb[r].list = "access" /\ gnb[r].state = "WAIT_Msg3"
  /\ gnb' = [gnb EXCEPT ![r].state = "Msg4", ![r].round = 0]
  /\ UNCHANGED <<f1, rlc, cu, dl, releasing>>

\* nr_rx_ra_sdu() for a C-RNTI MAC CE: the UE keeps its context with RNTI c, if
\* it still has one, and the new context is thrown away
Msg3Crnti(r, c) ==
  /\ gnb[r].list = "access" /\ gnb[r].state = "WAIT_Msg3"
  /\ gnb' = [s \in Rntis |-> IF s = r THEN Gone
                             ELSE IF s = c /\ gnb[s].list = "connected"
                                    THEN [gnb[s] EXCEPT !.ulFail = "no"]
                                    ELSE gnb[s]]
  /\ dl' = IF dl.rnti = r THEN [dl EXCEPT !.live = FALSE] ELSE dl
  /\ Abandon(r)
  /\ UNCHANGED <<rlc, releasing>>

\* nr_generate_Msg4_MsgB(): a retransmission, or the CU's answer on SRB0 or SRB1
Msg4(r) ==
  /\ SlotLoop
  /\ gnb[r].list = "access" /\ gnb[r].state = "Msg4"
  /\ gnb[r].round > 0 \/ gnb[r].srb
  /\ gnb' = [gnb EXCEPT ![r].state = "WAIT_ACK",
                        ![r].srb = IF gnb[r].round = 0 THEN FALSE ELSE @]
  /\ UNCHANGED <<f1, rlc, cu, dl, releasing>>

\* A report finds the HARQ process of Msg4 until handle_dl_harq() gave it up.
AwaitsAck(r) == gnb[r].list = "access" /\ gnb[r].state = "WAIT_ACK" /\ gnb[r].ulFail = "no"

\* nr_check_Msg4_MsgB_Ack() with success.  A UE without CellGroup was rejected.
\* add_connected_nr_ue() deletes the UE when the list is full.
Msg4Ack(r) ==
  /\ AwaitsAck(r)
  /\ IF gnb[r].cell /\ Cardinality(Connected) < MaxMobiles
       THEN /\ gnb' = [gnb EXCEPT ![r] = [@ EXCEPT !.list = "connected", !.state = "done",
                                            !.timer = "off", !.round = 0, !.heard = {},
                                            !.pre = 0]]
            /\ UNCHANGED <<f1, rlc, cu, dl, releasing>>
       ELSE ReleaseRaUe(r)

\* nr_check_Msg4_MsgB_Ack() without: Msg4 again until handle_dl_harq() gave up
Msg4Nack(r) ==
  /\ AwaitsAck(r)
  /\ gnb' = IF gnb[r].round + 1 < Msg4Rounds
              THEN [gnb EXCEPT ![r].round = @ + 1, ![r].state = "Msg4"]
              ELSE [gnb EXCEPT ![r].round = 0, ![r].ulFail = "on"]
  /\ UNCHANGED <<f1, rlc, cu, dl, releasing>>

\* Mutant: the timer ticks only once Msg4 is on its way.
TimerWaitsForMsg4(r) ==
  /\ SlotLoop
  /\ gnb[r].list = "access" /\ gnb[r].state = "WAIT_ACK" /\ gnb[r].timer = "on"
  /\ ReleaseRaUe(r)

\* nr_schedule_RA(): the timer ticks in every state after WAIT_Msg3.  A UE with
\* a CellGroup and a CU is only reported, and the timer never expires again.
ContentionExpiry(r) ==
  /\ SlotLoop
  /\ gnb[r].list = "access"
  /\ gnb[r].state \in {"Msg3_retransmission", "Msg4", "WAIT_ACK"}
  /\ gnb[r].timer = "on"
  /\ IF gnb[r].cell /\ f1[r] # "none"
       THEN /\ AsksCu(r)
            /\ gnb' = [gnb EXCEPT ![r].timer = "expired"]
            /\ UNCHANGED <<f1, rlc, dl, releasing>>
       ELSE ReleaseRaUe(r)

----------------------------------------------------------------------------
(* Connected UEs: UL failure and the release timer.                         *)

\* nr_mac_trigger_ul_failure(), after PUSCHs or PUCCHs without answer
UlFailure(r) ==
  /\ gnb[r].list = "connected" /\ gnb[r].ulFail = "no"
  /\ gnb' = [gnb EXCEPT ![r].ulFail = "on"]
  /\ UNCHANGED <<f1, rlc, cu, dl, releasing>>

\* nr_mac_release_ue()
ReleaseUe(r) == Delete(r) /\ rlc' = rlc \ {r}

\* nr_mac_check_ul_failure(): the timer asks the CU for the release, and drops
\* the UE when nobody answers or nobody can be asked
UlFailureTimer(r) ==
  /\ SlotLoop
  /\ gnb[r].list = "connected" /\ gnb[r].ulFail # "no"
  /\ IF gnb[r].ulFail = "on" /\ f1[r] # "none"
       THEN /\ AsksCu(r)
            /\ gnb' = [gnb EXCEPT ![r].ulFail = "asked"]
            /\ UNCHANGED <<f1, rlc, dl>>
       ELSE ReleaseUe(r) /\ Abandon(r)
  /\ UNCHANGED releasing

\* nr_mac_trigger_release_complete() as far as the CU is concerned
Completes(r) ==
  /\ cu' = [cu EXCEPT ![r] = IF f1[r] = "own" THEN "none" ELSE "unanswered"]
  /\ f1' = [f1 EXCEPT ![r] = "none"]

\* nr_mac_check_release(), and nr_mac_trigger_release_complete() up to where it
\* takes the lock again
ReleaseExpiry(r) ==
  /\ SlotLoop
  /\ gnb[r].list = "connected" /\ gnb[r].release
  /\ IF f1[r] = "none"
       THEN ReleaseUe(r) /\ UNCHANGED <<f1, cu, releasing>>
       ELSE /\ Completes(r)
            /\ releasing' = r
            /\ UNCHANGED <<gnb, rlc, dl>>

\* nr_mac_update_timers() has the lock again and releases the UE it held
ReleaseFinish ==
  /\ releasing # NoRnti
  /\ ReleaseUe(releasing)
  /\ Abandon(releasing)
  /\ releasing' = NoRnti

----------------------------------------------------------------------------
(* The F1AP handlers.  The CU answers, releases, and moves a UE from the    *)
(* RNTI it had before a reestablishment.                                    *)

\* dl_rrc_message_transfer() looks the UE up and drops the lock
DlRrcFind(r, old) ==
  /\ dl = NoCall
  /\ cu[r] \in {"new", "reject"}
  /\ IF old = NoRnti THEN TRUE ELSE cu[r] = "new" /\ old # r /\ cu[old] = "served"
  /\ IF gnb[r].list = "none"
       THEN cu' = [cu EXCEPT ![r] = "none"] /\ UNCHANGED dl
       ELSE /\ dl' = [rnti |-> r, old |-> old, live |-> TRUE]
            /\ cu' = IF old = NoRnti THEN cu ELSE [cu EXCEPT ![old] = "none"]
  /\ UNCHANGED <<gnb, f1, rlc, releasing>>

\* Mutant: the CU's id is stored with a reestablishment only.
StoresNoCuId ==
  /\ dl # NoCall
  /\ dl.old = NoRnti
  /\ gnb' = [gnb EXCEPT ![dl.rnti].srb = @ \/ gnb[dl.rnti].list = "access"]
  /\ cu' = [cu EXCEPT ![dl.rnti] = IF @ = "new" THEN "served" ELSE "none"]
  /\ dl' = NoCall
  /\ UNCHANGED <<f1, rlc, releasing>>

\* ... stores the CU's id unless one is there, which is the id of a UE gone when
\* the one that was looked up is, and hands the message to the RLC of the RNTI
DlRrcDeliver ==
  /\ dl # NoCall
  /\ dl.old = NoRnti
  /\ LET r == dl.rnti IN
       /\ f1' = [f1 EXCEPT ![r] = IF @ = "none" THEN IF dl.live THEN "own" ELSE "stale"
                                    ELSE @]
       /\ gnb' = [gnb EXCEPT ![r].srb = @ \/ (gnb[r].list = "access" /\ r \in rlc)]
       /\ cu' = [cu EXCEPT ![r] = IF @ = "new" THEN "served" ELSE "none"]
  /\ dl' = NoCall
  /\ UNCHANGED <<rlc, releasing>>

\* ... with the context of a reestablishing UE: the new one takes uid, CellGroup
\* and RLC of the old one, which is removed.  The gNB aborts when the old one is
\* gone, and uses freed memory when the new one is.
DlRrcReestablish ==
  /\ dl # NoCall
  /\ dl.old # NoRnti
  /\ LET r == dl.rnti
         old == dl.old
     IN  /\ dl.live /\ gnb[old].list = "connected"
         /\ gnb' = [gnb EXCEPT ![old] = Gone,
                               ![r] = [@ EXCEPT !.uid = gnb[old].uid, !.cell = gnb[old].cell,
                                                !.srb = TRUE]]
         /\ f1' = [f1 EXCEPT ![r] = IF @ = "none" THEN "own" ELSE @,
                             ![old] = IF @ = "own" THEN "stale" ELSE @]
         /\ cu' = [cu EXCEPT ![r] = "served"]
         /\ rlc' = (rlc \ {old}) \cup {r}
  /\ dl' = NoCall
  /\ UNCHANGED releasing

\* Mutant: the release of an unknown UE is not answered.
IgnoresUnknownUe(r, container) ==
  /\ cu[r] \in {"served", "asked"}
  /\ IF gnb[r].list = "none"
       THEN cu' = [cu EXCEPT ![r] = "commanded"] /\ UNCHANGED <<gnb, f1, rlc, dl>>
       ELSE IF gnb[r].ulFail # "no" \/ ~container
         THEN ReleaseUe(r) /\ Completes(r)
         ELSE /\ gnb' = [gnb EXCEPT ![r].release = TRUE]
              /\ cu' = [cu EXCEPT ![r] = "commanded"]
              /\ UNCHANGED <<f1, rlc, dl>>
  /\ UNCHANGED releasing

\* ue_context_release_command(), with an RRC message to forward or without.
\* The release timer it starts ticks in the connected list only.
ReleaseCommand(r, container) ==
  /\ cu[r] \in {"served", "asked"}
  /\ IF gnb[r].list = "none"
       THEN cu' = [cu EXCEPT ![r] = "none"] /\ UNCHANGED <<gnb, f1, rlc, dl>>
       ELSE IF gnb[r].ulFail # "no" \/ ~container
         THEN ReleaseUe(r) /\ Completes(r)
         ELSE /\ gnb' = [gnb EXCEPT ![r].release = TRUE,
                                    ![r].srb = @ \/ gnb[r].list = "access"]
              /\ cu' = [cu EXCEPT ![r] = "commanded"]
              /\ UNCHANGED <<f1, rlc, dl>>
  /\ UNCHANGED releasing

----------------------------------------------------------------------------
(* The gNB alone, with UEs that may do anything at any time.                *)

Slot(r) == Msg2(r) \/ Msg2TooLate(r) \/ Msg3Retransmission(r) \/ Msg4(r)
             \/ ContentionExpiry(r) \/ UlFailureTimer(r) \/ ReleaseExpiry(r)
F1ap(r) ==
  \/ \E old \in Rntis \cup {NoRnti} : DlRrcFind(r, old)
  \/ \E container \in BOOLEAN : ReleaseCommand(r, container)

GnbNext ==
  \/ \E r \in Rntis :
       \/ \E pre \in Preambles, heard \in SUBSET Ues : InitiateRa(r, pre, heard)
       \/ \E u \in Ues : Msg3Ccch(r, u)
       \/ \E c \in Rntis : Msg3Crnti(r, c)
       \/ Msg3NoIdentity(r)
       \/ Msg3Failed(r) \/ Msg4Ack(r) \/ Msg4Nack(r) \/ UlFailure(r)
       \/ Slot(r) \/ F1ap(r)
  \/ DlRrcDeliver \/ DlRrcReestablish \/ ReleaseFinish

(* Type correctness; a context that is gone leaves nothing to the next UE    *)
(* with its RNTI, as delete_nr_ue_data() frees all of it.                   *)
GnbTypeOK ==
  /\ gnb \in [Rntis -> Context]
  /\ \A r \in Rntis : gnb[r].list = "none" => gnb[r] = Gone
  /\ f1 \in [Rntis -> {"none", "own", "stale"}]
  /\ rlc \subseteq Rntis
  /\ cu \in [Rntis -> {"none", "new", "reject", "served", "asked", "commanded", "unanswered"}]
  /\ dl \in [rnti : Rntis \cup {NoRnti}, old : Rntis \cup {NoRnti}, live : BOOLEAN]
  /\ releasing \in Rntis \cup {NoRnti}

(* The connected list has a place for every UE that was given a CellGroup:   *)
(* nr_rx_ra_sdu() refuses by the uid, transition_ra_connected_nr_ue() by the *)
(* list.  A UE accepted in Msg3 must never be refused after its Msg4.        *)
ConnectedFits ==
  \A r \in Access : gnb[r].cell => Cardinality(Connected) < MaxMobiles

(* A UE in the connected list has a CellGroup, and the CU can be told of its *)
(* release: dl_rrc_message_transfer() stored the CU's id before the Msg4     *)
(* that carried its message could be acknowledged.                          *)
KnownToCu ==
  \A r \in Connected : gnb[r].cell /\ (f1[r] # "none" \/ releasing = r)

GnbSpec == GnbInit /\ [][GnbNext]_gnbVars
=============================================================================
