----------------------------- MODULE RandomAccess -----------------------------
(***************************************************************************)
(* The gNB and its UEs from the preamble to the connection and the         *)
(* release, over a radio link that may lose every message.                 *)
(*                                                                         *)
(* The sending of a downlink message and its hearing are one step, in      *)
(* which any of the UEs that monitor its RNTI decode the DCI; the PDU is   *)
(* then decoded while timers run.  Uplink messages stay on the air until   *)
(* the gNB's PHY reports on them.                                          *)
(***************************************************************************)
EXTENDS GnbAccess, UeAccess

CONSTANT Quotas    \* bounds: each is one assignment of Quota, chosen at the start

VARIABLES
  prach,    \* preambles on the air, each with the UEs that used the occasion
  msg3,     \* Msg3 transmissions in the PUSCH occasion granted to each RNTI
  acks,     \* UEs that answer to Msg4 with each RNTI
  quota     \* what is left of the bounds

airVars == <<prach, msg3, acks>>
vars == <<gnbVars, ueVars, airVars, quota>>

\* UEs that may start, RA processes at a time, PRACH occasions used, radio losses,
\* reestablishments, other MAC resets by RRC, random accesses in connected state,
\* expiries of the time alignment timer, detections of UL failure,
\* releases the gNB did not ask for
Quota == [ues : SUBSET Ues, processes : Nat, occasions : Nat, losses : Nat,
          reestablishments : Nat, resets : Nat, triggers : Nat, expiries : Nat,
          failures : Nat, releases : Nat]

ASSUME RandomAccessAssumption == Quotas \subseteq Quota

Spend(f) == quota[f] > 0 /\ quota' = [quota EXCEPT ![f] = @ - 1]

Init ==
  /\ GnbInit /\ UeInit
  /\ prach = {}
  /\ msg3 = [r \in Rntis |-> {}]
  /\ acks = [r \in Rntis |-> {}]
  /\ quota \in Quotas

\* A loss, or an early timer, counts when something was there to be lost.
Loses(something) == IF something THEN Spend("losses") ELSE UNCHANGED quota

\* No UE holds a grant or a PDU of RNTI r.
Quiet(r) == \A u \in Ues : ue[u].grant # r /\ rx[u].rnti # r

\* The gNB has a use for what is sent with RNTI r.
Listens(r, state) == gnb[r].list = "access" /\ gnb[r].state = state

\* RNTI r has left no trace.  Symmetry: one such RNTI stands for all of them.
Fresh(r) == /\ gnb[r] = Gone /\ f1[r] = "none" /\ r \notin rlc /\ cu[r] = "none"
            /\ \A u \in Ues : r \notin {ue[u].crnti, ue[u].tcrnti}

----------------------------------------------------------------------------
(* Steps of a UE.                                                           *)

Alone == UNCHANGED <<gnbVars, airVars, quota>>

Start(u) == u \in quota.ues /\ StartRa(u) /\ Alone
Prepare(u) == InitRa(u) /\ Alone
\* Something is under way to the UE for which one of its timers runs.
Expects(u) ==
  \/ rx[u] # NoPdu \/ ue[u].grant # 0
  \/ \E p \in prach : u \in p.at
  \/ \E r \in Access : \/ gnb[r].state = "Msg2" /\ u \in gnb[r].heard
                       \/ gnb[r].timer = "on" /\ ue[u].tcrnti = r
Waits(u) ==
  /\ WindowExpiry(u) \/ ResolutionExpiry(u)
  /\ Loses(Expects(u))
  /\ UNCHANGED <<gnbVars, airVars>>
Backoff(u) == BackoffExpiry(u) /\ Alone
Response(u) == (\E outcome \in RarOutcomes : ProcessRar(u, outcome)) /\ Alone

\* Every UE with a preamble to send uses the occasion.
\* Symmetry: the lowest preambles stand for any others.
PrachOccasion ==
  LET us == {u \in Ues : HasPreamble(u)} IN
  /\ prach = {} /\ us # {}
  /\ \E sent \in [us -> Preambles] :
       /\ \A u \in us, p \in Preambles : p < sent[u] => \E v \in us : sent[v] = p
       /\ Prach(sent)
       /\ prach' = {[pre |-> sent[u], at |-> us] : u \in us}
  /\ Spend("occasions")
  /\ UNCHANGED <<gnbVars, msg3, acks>>

Msg3Slot(u) ==
  /\ UseGrant(u)
  /\ msg3' = IF Sends(u) /\ Listens(ue[u].grant, "WAIT_Msg3")
                THEN [msg3 EXCEPT ![ue[u].grant] = @ \cup {Msg3(u)}] ELSE msg3
  /\ UNCHANGED <<gnbVars, prach, acks, quota>>

\* The HARQ feedback of a decoded PDU does not wait for what MAC makes of it.
Resolution(u) ==
  /\ ProcessMsg4(u)
  /\ acks' = IF Listens(rx[u].rnti, "WAIT_ACK")
                THEN [acks EXCEPT ![rx[u].rnti] = @ \cup {u}] ELSE acks
  /\ UNCHANGED <<gnbVars, prach, msg3, quota>>

Flush(u) == FlushGrant(u) /\ Spend("expiries") /\ UNCHANGED <<gnbVars, airVars>>
Trigger(u) == TriggerRa(u) /\ Spend("triggers") /\ UNCHANGED <<gnbVars, airVars>>
Interrupt(u, cause) ==
  /\ RrcReset(u, cause)
  /\ Spend(IF cause = "RE_ESTABLISHMENT" THEN "reestablishments" ELSE "resets")
  /\ UNCHANGED <<gnbVars, airVars>>

----------------------------------------------------------------------------
(* Steps of the gNB, its PHY and the CU.                                    *)

\* A PRACH that is detected, while the RNTI drawn is out of use on the air, or
\* one that is not or finds no free RA process
Detected(p, r) ==
  /\ Cardinality(Access) < quota.processes
  /\ Quiet(r)
  /\ Fresh(r) => \A s \in Rntis : Fresh(s) => r <= s
  /\ InitiateRa(r, p.pre, p.at)
  /\ prach' = prach \ {p}
  /\ msg3' = [msg3 EXCEPT ![r] = {}]
  /\ UNCHANGED <<ueVars, acks, quota>>
Missed(p) ==
  /\ prach' = prach \ {p}
  /\ Loses(Cardinality(Access) < quota.processes /\ \E r \in Rntis : gnb[r].list = "none")
  /\ UNCHANGED <<gnbVars, ueVars, msg3, acks>>

\* Some of the UEs that can hear a DCI do.
Hear(us, heard) == heard \subseteq us /\ Loses(heard # us)
Listeners(r) == {u \in Ues : HearsTc(u, r) /\ rx[u] = NoPdu}

SendRar(r) ==
  /\ Msg2(r)
  /\ \E us \in SUBSET Ues : /\ Hear({u \in gnb[r].heard : HearsRar(u)}, us)
                             /\ Announce(us, Rar(r, gnb[r].pre))
  /\ UNCHANGED airVars

GrantMsg3(r) ==
  /\ Msg3Retransmission(r)
  /\ \E us \in SUBSET Ues : Hear(Listeners(r), us) /\ Msg3Granted(us, r)
  /\ UNCHANGED airVars

SendMsg4(r) ==
  /\ Msg4(r)
  /\ \E us \in SUBSET Ues : Hear(Listeners(r), us) /\ Announce(us, ConRes(r, gnb[r].owner))
  /\ UNCHANGED airVars

\* The report on the PUSCH of Msg3, after its slot: one of the transmissions was
\* decoded, or none.
Msg3Report(r) ==
  /\ Quiet(r)
  /\ \/ /\ \E m \in msg3[r] :
             \/ ~m.ce /\ Msg3Ccch(r, m.ue)
             \/ m.ce /\ m.crnti = NoRnti /\ Msg3NoIdentity(r)
             \/ m.ce /\ m.crnti # NoRnti /\ Msg3Crnti(r, m.crnti)
        /\ UNCHANGED quota
     \/ Msg3Failed(r) /\ Loses(msg3[r] # {})
  /\ msg3' = [msg3 EXCEPT ![r] = {}]
  /\ UNCHANGED <<ueVars, prach, acks>>

\* The report on the PUCCH for Msg4, after its slot
Msg4Report(r) ==
  /\ Quiet(r)
  /\ \/ acks[r] # {} /\ Msg4Ack(r) /\ acks' = [acks EXCEPT ![r] = {}] /\ UNCHANGED quota
     \/ Msg4Nack(r) /\ UNCHANGED acks /\ Loses(acks[r] # {})
  /\ UNCHANGED <<ueVars, prach, msg3>>

LosesUplink(r) == UlFailure(r) /\ Spend("failures") /\ UNCHANGED <<ueVars, airVars>>

\* The slot loop of the gNB, without what goes on the air
SlotLoopOnly(r) ==
  /\ Msg2TooLate(r) \/ ContentionExpiry(r) \/ UlFailureTimer(r) \/ ReleaseExpiry(r)
  /\ acks' = IF gnb'[r].list = "none" THEN [acks EXCEPT ![r] = {}] ELSE acks
  /\ UNCHANGED <<ueVars, prach, msg3, quota>>
ReleaseEnds == ReleaseFinish /\ UNCHANGED <<ueVars, airVars, quota>>

\* The CU answers, with the old context of a reestablishing UE, and releases.
Answer(r, old) ==
  /\ DlRrcFind(r, old)
  /\ IF old = NoRnti THEN TRUE
     ELSE gnb[old].list = "connected" /\ gnb[r].owner = gnb[old].owner
  /\ UNCHANGED <<ueVars, airVars, quota>>
Deliver == (DlRrcDeliver \/ DlRrcReestablish) /\ UNCHANGED <<ueVars, airVars, quota>>
Command(r, container) ==
  /\ ReleaseCommand(r, container)
  /\ IF cu[r] = "asked" THEN UNCHANGED quota ELSE Spend("releases")
  /\ UNCHANGED <<ueVars, airVars>>

----------------------------------------------------------------------------
UeNext(u) ==
  \/ Start(u) \/ Prepare(u) \/ Waits(u) \/ Backoff(u) \/ Response(u)
  \/ Msg3Slot(u) \/ Resolution(u) \/ Flush(u) \/ Trigger(u)
  \/ \E cause \in {"GO_TO_IDLE", "T300_EXPIRY", "RE_ESTABLISHMENT"} : Interrupt(u, cause)

AccessNext(r) ==
  \/ \E p \in prach : Detected(p, r)
  \/ SendRar(r) \/ GrantMsg3(r) \/ SendMsg4(r) \/ Msg3Report(r) \/ Msg4Report(r)
  \/ LosesUplink(r) \/ SlotLoopOnly(r)
  \/ \E old \in Rntis \cup {NoRnti} : Answer(r, old)
  \/ \E container \in BOOLEAN : Command(r, container)

Next ==
  \/ \E u \in Ues : UeNext(u)
  \/ PrachOccasion
  \/ \E r \in Rntis : AccessNext(r)
  \/ \E p \in prach : Missed(p)
  \/ Deliver \/ ReleaseEnds

(* The slot loops of the UEs and of the gNB run for ever: timers expire, the  *)
(* PHY reports on every occasion, PRACH occasions come round.  The CU answers *)
(* what it is asked.  Nothing is promised about losses.                      *)
UeSlot(u) == Prepare(u) \/ Waits(u) \/ Backoff(u) \/ Response(u) \/ Msg3Slot(u) \/ Resolution(u)
GnbSlot(r) == SendRar(r) \/ GrantMsg3(r) \/ SendMsg4(r) \/ SlotLoopOnly(r)
                \/ Msg3Report(r) \/ Msg4Report(r)
Air == PrachOccasion \/ \E p \in prach : Missed(p) \/ \E r \in Rntis : Detected(p, r)
CuAnswers ==
  \/ \E r \in Rntis : \/ Answer(r, NoRnti)
                      \/ cu[r] = "asked" /\ \E container \in BOOLEAN : Command(r, container)
  \/ Deliver

Fairness ==
  /\ \A u \in Ues : WF_vars(UeSlot(u))
  /\ \A r \in Rntis : WF_vars(GnbSlot(r))
  /\ WF_vars(Air) /\ WF_vars(CuAnswers) /\ WF_vars(ReleaseEnds)

Spec == Init /\ [][Next]_vars /\ Fairness

----------------------------------------------------------------------------
(* Type correctness of the two ends and of what is between them.            *)
TypeOK ==
  /\ GnbTypeOK /\ UeTypeOK
  /\ prach \subseteq [pre : Preambles, at : SUBSET Ues]
  /\ msg3 \in [Rntis -> SUBSET [ue : Ues, ce : BOOLEAN, crnti : Rntis \cup {0}]]
  /\ acks \in [Rntis -> SUBSET Ues]
  /\ quota \in Quota

(* A UE that becomes connected has a C-RNTI, except where the contention      *)
(* timer expired while its Msg4 was being decoded: that zeroes the Temporary *)
(* C-RNTI that nr_ra_succeeded() copies.                                    *)
NoRntiOnlyIfLate ==
  [][\A u \in Ues :
       ue[u].state # "CONNECTED" /\ ue'[u].state = "CONNECTED" /\ ue'[u].crnti = 0
         => ~ue[u].contention]_vars

(* Contention has one winner: whoever becomes connected takes an RNTI that   *)
(* the gNB keeps for this UE, or has given up since.                        *)
OneWinner ==
  [][\A u \in Ues :
       ue[u].state # "CONNECTED" /\ ue'[u].state = "CONNECTED" /\ ue'[u].crnti # 0
         => gnb[ue'[u].crnti].list = "none" \/ gnb[ue'[u].crnti].owner = u]_vars

\* The gNB aborts in dl_rrc_message_transfer(), or goes on with freed memory.
Aborted == /\ dl # NoCall /\ dl.old # NoRnti
           /\ ~(dl.live /\ gnb[dl.old].list = "connected")

(* No context stays in the access list: its UE is connected, or a report or   *)
(* the contention timer releases it.  Left out is the one that does stay,    *)
(* after the timer asked the CU: under the id of another UE, or when the CU  *)
(* has sent an RRC release, whose timer ticks in the connected list only.    *)
AccessEnds ==
  \A r \in Rntis :
    gnb[r].list = "access"
      ~> \/ gnb[r].list # "access" \/ Aborted
         \/ gnb[r].timer = "expired" /\ (gnb[r].release \/ f1[r] = "stale")

(* Every random access of a UE succeeds, is reported to RRC or is ended by   *)
(* RRC.  Left out are the UEs for which no timer runs: Msg3 was lost inside  *)
(* the UE after the response window was stopped, or the RAR of another UE    *)
(* suspended it.  So is the bound on occasions.                              *)
RaEnds ==
  \A u \in Ues :
    ue[u].state = "PERFORMING_RA"
      ~> \/ ue[u].state # "PERFORMING_RA" \/ ue[u].told \/ Stuck(u)
         \/ HasPreamble(u) /\ quota.occasions = 0

(* The CU's release command is answered under the CU's id, or the gNB drops  *)
(* the UE before.  Left out is the UE of the access list.                   *)
ReleaseAnswered ==
  \A r \in Rntis : cu[r] = "commanded"
                     ~> cu[r] # "commanded" \/ gnb[r].list = "access" \/ Aborted
=============================================================================
