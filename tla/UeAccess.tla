------------------------------- MODULE UeAccess -------------------------------
(***************************************************************************)
(* The UE's side of four-step contention based random access: the state of *)
(* RA_config_t with its three timers, the RNTIs, and the MAC PDU between   *)
(* the DCI that announced it and its delivery by the PHY.                  *)
(*                                                                         *)
(* The timers are those of update_mac_dl_timers() and                      *)
(* update_mac_ul_timers(): they expire on their own, in any order with the *)
(* PDUs.  RRC is external: it starts random access and resets the MAC.     *)
(***************************************************************************)
EXTENDS AccessParameters

CONSTANT TransMax      \* preambleTransMax

ASSUME UeAccessAssumption == TransMax \in Nat \ {0}

VARIABLES
  ue,       \* state of each UE
  rx        \* the PDU each UE is decoding

ueVars == <<ue, rx>>

NoPdu == [kind |-> "none", rnti |-> 0, pre |-> 0, id |-> NoUe]
Rar(r, pre) == [NoPdu EXCEPT !.kind = "RAR", !.rnti = r, !.pre = pre]
ConRes(r, id) == [NoPdu EXCEPT !.kind = "Msg4", !.rnti = r, !.id = id]

\* RNTI 0 is none.  grant is the RNTI whose PUSCH is in ul_config_request, cached
\* that Msg3_buffer holds a Msg3, told that RRC has the random access problem.
UeState ==
  [state : {"NOT_SYNC", "PERFORMING_RA", "CONNECTED"},
   ra : {"IDLE", "GENERATE_PREAMBLE", "WAIT_RAR", "WAIT_CR", "SUCCEEDED"},
   crnti : Rntis \cup {0}, tcrnti : Rntis \cup {0}, grant : Rntis \cup {0},
   window : {"off", "on", "suspended"}, contention : BOOLEAN, backoff : BOOLEAN,
   tx : 0 .. TransMax + 2, pre : Preambles \cup {0}, ce : BOOLEAN, cached : BOOLEAN,
   told : BOOLEAN]

\* after reset_ra() and reset_mac_inst(), which leave the C-RNTI
Reset(crnti, state) ==
  [state |-> state, ra |-> "IDLE", crnti |-> crnti, tcrnti |-> 0, grant |-> 0,
   window |-> "off", contention |-> FALSE, backoff |-> FALSE,
   tx |-> 0, pre |-> 0, ce |-> FALSE, cached |-> FALSE, told |-> FALSE]

UeInit ==
  /\ ue = [u \in Ues |-> Reset(0, "NOT_SYNC")]
  /\ rx = [u \in Ues |-> NoPdu]

Become(u, s) == ue' = [ue EXCEPT ![u] = s]

----------------------------------------------------------------------------
(* The preamble and its response.                                           *)

\* MIB and SIB1 decoded: nr_rrc_mac_config_req_sib1()
StartRa(u) ==
  /\ ue[u].state = "NOT_SYNC"
  /\ Become(u, [ue[u] EXCEPT !.state = "PERFORMING_RA"])
  /\ UNCHANGED rx

\* nr_ue_ul_scheduler() with init_RA()
InitRa(u) ==
  /\ ue[u].state = "PERFORMING_RA" /\ ue[u].ra = "IDLE"
  /\ Become(u, [ue[u] EXCEPT !.ra = "GENERATE_PREAMBLE", !.tx = 1, !.cached = FALSE])
  /\ UNCHANGED rx

\* nr_ue_prach_scheduler() in a PRACH occasion, with the preamble that
\* ra_resource_selection() drew: the response window starts
HasPreamble(u) == ue[u].state = "PERFORMING_RA" /\ ue[u].ra = "GENERATE_PREAMBLE"
Prach(sent) ==
  /\ \A u \in DOMAIN sent : HasPreamble(u)
  /\ ue' = [u \in Ues |-> IF u \in DOMAIN sent
                           THEN [ue[u] EXCEPT !.ra = "WAIT_RAR", !.pre = sent[u],
                                              !.window = "on"]
                           ELSE ue[u]]
  /\ UNCHANGED rx

\* the counter is tested for the one value after preambleTransMax
Counted(s) == [s EXCEPT !.tx = IF @ <= TransMax + 1 THEN @ + 1 ELSE @]
Exhausted(s) == s.tx = TransMax

\* update_mac_dl_timers(), nr_rar_not_successful(): RRC is told once and the
\* backoff starts all the same
WindowExpiry(u) ==
  /\ ue[u].window = "on"
  /\ Become(u, [Counted(ue[u]) EXCEPT !.window = "off", !.backoff = TRUE,
                                      !.told = @ \/ Exhausted(ue[u])])
  /\ UNCHANGED rx

\* Mutant: the preamble is sent again only from the state that waits for a RAR.
BackoffOnlyForRar(u) ==
  /\ ue[u].backoff
  /\ Become(u, [ue[u] EXCEPT !.backoff = FALSE,
                             !.ra = IF @ = "WAIT_RAR" THEN "GENERATE_PREAMBLE" ELSE @])
  /\ UNCHANGED rx

\* update_mac_ul_timers(): the state is not looked at
BackoffExpiry(u) ==
  /\ ue[u].backoff
  /\ Become(u, [ue[u] EXCEPT !.backoff = FALSE, !.ra = "GENERATE_PREAMBLE"])
  /\ UNCHANGED rx

\* DCIs with the RA-RNTI count while the window runs, and those with the
\* Temporary C-RNTI while the contention is not resolved.
HearsRar(u) == /\ ue[u].state = "PERFORMING_RA" /\ ue[u].ra = "WAIT_RAR"
               /\ ue[u].window # "off" /\ rx[u] = NoPdu
HearsTc(u, r) == /\ ue[u].state = "PERFORMING_RA" /\ ue[u].ra = "WAIT_CR"
                 /\ ue[u].tcrnti = r

\* nr_ue_process_dci() for an announced PDU that will be decoded
Announce(us, pdu) ==
  /\ rx' = [u \in Ues |-> IF u \in us THEN pdu ELSE rx[u]]
  /\ UNCHANGED ue

\* nr_timer_suspension(), external: its callers resume with it what nobody suspended
Toggled(timer) ==
  CASE timer = "on" -> "suspended" [] timer = "suspended" -> "on" [] OTHER -> timer

\* nr_ue_process_rar(): any RAR takes the Temporary C-RNTI, the intended one stops
\* the window.  Without a valid time allocation, where the stopped window is resumed
\* to no effect, or without a slot for Msg3, that is all; else
\* the new one is set, and Msg3 is filed unless its list is full or locked.
RarOutcomes == {"unscheduled", "refused", "filed"}
ProcessRar(u, outcome) ==
  /\ rx[u].kind = "RAR"
  /\ Become(u, IF rx[u].pre # ue[u].pre
                 THEN [ue[u] EXCEPT !.tcrnti = 0, !.window = Toggled(@)]
                 ELSE [ue[u] EXCEPT !.window = "off",
                                    !.tcrnti = IF outcome = "unscheduled" THEN 0 ELSE rx[u].rnti,
                                    !.grant = IF outcome = "filed" THEN rx[u].rnti ELSE 0])
  /\ rx' = [rx EXCEPT ![u] = NoPdu]

----------------------------------------------------------------------------
(* Msg3 and the resolution of the contention.                               *)

\* The content of Msg3: a CCCH message, or the C-RNTI in a MAC CE.  Neither changes
\* while a Msg3 is cached, so a cached one reads the same.
Msg3(u) == [ue |-> u, ce |-> ue[u].ce, crnti |-> IF ue[u].ce THEN ue[u].crnti ELSE 0]
Sends(u) == ue[u].grant # 0 /\ ue[u].ra \in {"WAIT_RAR", "WAIT_CR"}

\* nr_ue_ul_scheduler() in the slot of the grant.  In WAIT_RAR any PUSCH is Msg3,
\* in WAIT_CR it is its retransmission, otherwise nothing is sent.
\* fill_msg3_crnti_pdu() makes the C-RNTI the Temporary C-RNTI, but is not called
\* for a Msg3 that is cached.
UseGrant(u) ==
  /\ ue[u].grant # 0
  /\ Become(u, [ue[u] EXCEPT
       !.grant = 0,
       !.tcrnti = IF ue[u].ra = "WAIT_RAR" /\ ue[u].ce /\ ~ue[u].cached
                    THEN ue[u].crnti ELSE @,
       !.cached = @ \/ ue[u].ra = "WAIT_RAR",
       !.contention = @ \/ Sends(u),
       !.ra = IF Sends(u) THEN "WAIT_CR" ELSE @])
  /\ UNCHANGED rx

\* nr_ue_process_dci() of DCI 0_0 with the Temporary C-RNTI
Msg3Granted(us, r) ==
  /\ ue' = [u \in Ues |-> IF u \in us THEN [ue[u] EXCEPT !.grant = r] ELSE ue[u]]
  /\ UNCHANGED rx

\* nr_ra_contention_resolution_failed(): RRC is told or the backoff starts
Failed(s) ==
  LET t == [Counted(s) EXCEPT !.tcrnti = 0, !.contention = FALSE, !.cached = FALSE]
  IN  IF Exhausted(s) THEN [t EXCEPT !.told = TRUE] ELSE [t EXCEPT !.backoff = TRUE]

\* update_mac_ul_timers()
ResolutionExpiry(u) ==
  /\ ue[u].contention
  /\ Become(u, Failed(ue[u]))
  /\ UNCHANGED rx

\* Mutant: the Temporary C-RNTI is taken before it becomes the C-RNTI.
SucceededInWrongOrder(s) ==
  [s EXCEPT !.crnti = 0, !.tcrnti = 0, !.contention = FALSE, !.ce = FALSE,
            !.cached = FALSE, !.ra = "SUCCEEDED", !.state = "CONNECTED"]

\* nr_ra_succeeded(); the backoff timer is left alone
Succeeded(s) ==
  [s EXCEPT !.crnti = s.tcrnti, !.tcrnti = 0, !.contention = FALSE, !.ce = FALSE,
            !.cached = FALSE, !.ra = "SUCCEEDED", !.state = "CONNECTED"]

\* Mutant: check_ra_contention_resolution() compares nothing.
ResolvesAlways(u, pdu) == TRUE

\* check_ra_contention_resolution() with the identity of the CCCH message
Resolves(u, pdu) == pdu.id = u /\ ~ue[u].ce

\* nr_ue_process_mac_pdu(), DL_SCH_LCID_CON_RES_ID
ProcessMsg4(u) ==
  /\ rx[u].kind = "Msg4"
  /\ Become(u, IF ue[u].ra # "WAIT_CR" THEN ue[u]
               ELSE IF Resolves(u, rx[u]) THEN Succeeded(ue[u]) ELSE Failed(ue[u]))
  /\ rx' = [rx EXCEPT ![u] = NoPdu]

\* The window was stopped for a Msg3 that will not be sent, or suspended by the
\* RAR of another UE: no timer runs.
Stuck(u) == /\ ue[u].state = "PERFORMING_RA" /\ ue[u].ra = "WAIT_RAR"
            /\ ue[u].window # "on" /\ ~(ue[u].contention \/ ue[u].backoff) /\ ue[u].grant = 0

----------------------------------------------------------------------------
(* Interruptions.                                                           *)

\* handle_time_alignment_timer_expired() while Msg3 waits for its slot
FlushGrant(u) ==
  /\ ue[u].grant # 0
  /\ Become(u, [ue[u] EXCEPT !.grant = 0])
  /\ UNCHANGED rx

\* trigger_MAC_UE_RA(): data without time alignment, or a PDCCH order
TriggerRa(u) ==
  /\ ue[u].state = "CONNECTED"
  /\ Become(u, [Reset(ue[u].crnti, "PERFORMING_RA") EXCEPT !.ce = TRUE])
  /\ UNCHANGED rx

\* nr_rrc_mac_config_req_reset().  The use of the C-RNTI in Msg3 is forgotten with
\* an idle UE, and by reset_mac_inst() while random access is active: never when
\* reset_ra() comes first.
Active(u) == ue[u].ra \notin {"IDLE", "SUCCEEDED"}
RrcReset(u, cause) ==
  /\ ue[u].state # "NOT_SYNC"
  /\ cause = "RE_ESTABLISHMENT" => ue[u].state = "CONNECTED" \/ ue[u].ce
  /\ LET state == IF cause = "T300_EXPIRY" THEN "PERFORMING_RA" ELSE "NOT_SYNC"
         ce == /\ ue[u].ce /\ cause # "GO_TO_IDLE"
               /\ cause = "RE_ESTABLISHMENT" => ~Active(u)
     IN  Become(u, [Reset(ue[u].crnti, state) EXCEPT
                      !.ce = ce, !.pre = IF cause = "RE_ESTABLISHMENT" THEN ue[u].pre ELSE 0])
  /\ UNCHANGED rx

UeTypeOK ==
  /\ ue \in [Ues -> UeState]
  /\ rx \in [Ues -> [kind : {"none", "RAR", "Msg4"}, rnti : Rntis \cup {0},
                      pre : Preambles \cup {0}, id : Ues \cup {NoUe}]]
=============================================================================
