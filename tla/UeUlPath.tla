------------------------------ MODULE UeUlPath ------------------------------
(***************************************************************************)
(* The UE's uplink path through ul_config_request: one list of PDUs per    *)
(* slot of a frame, each with a mutex.  The downlink thread files PUSCHs   *)
(* of DCIs and RARs in lists of later slots.  The uplink thread, once per  *)
(* slot, files PRACH, grant-free PUSCH, SRS and PUCCH in the list of its   *)
(* slot, fills PUSCHs with MAC PDUs and hands the list to the PHY.         *)
(*                                                                         *)
(* An action is a critical section.  Which indications also exclude each   *)
(* other by if_mutex is decided outside the MAC: here they may interleave. *)
(***************************************************************************)
EXTENDS UeSr, Integers, Sequences, FiniteSets

CONSTANTS
  SlotsPerFrame,  \* numb_slots_frame
  Frames,         \* MAX_FRAME_NUMBER
  UlSlots,        \* is_ul_slot()
  PrachSlots,     \* sched_ro_info.slot
  Rx2Tx,          \* GET_DURATION_RX_TO_TX()
  K2,             \* k2 of the grants, from the slot of the DCI
  MaxLead,        \* slots the downlink thread may be ahead
  MaxPdus,        \* FAPI_NR_UL_CONFIG_LIST_NUM
  GfPeriod,       \* periodicity of the grant-free configuration, offset 0
  Failures        \* what may go wrong: "ta" expires, SRs stay unanswered ("sr")

\* k2 >= Rx2Tx is asserted by nr_ue_pusch_scheduler(); a list has room for two PDUs.
ASSUME UeUlPathAssumption ==
  /\ {SlotsPerFrame, Frames, Rx2Tx, MaxLead, MaxPdus, GfPeriod} \subseteq Nat \ {0}
  /\ MaxPdus > 1
  /\ UlSlots \subseteq 0 .. SlotsPerFrame - 1
  /\ PrachSlots \subseteq UlSlots
  /\ K2 \subseteq Nat /\ \A k \in K2 : k >= Rx2Tx
  /\ Failures \subseteq {"ta", "sr"}

\* Grants reach less than a frame beyond the slot of the uplink thread.  What
\* Koffset adds to k2 it adds to GET_DURATION_RX_TO_TX() too.
ASSUME LeadAssumption == \A k \in K2 : k - Rx2Tx + MaxLead - 1 < SlotsPerFrame

Cycle == Frames * SlotsPerFrame
SlotOf(at) == at % SlotsPerFrame

VARIABLES
  now,        \* slot of the uplink thread
  lead,       \* the downlink thread is in slot now + lead - Rx2Tx
  pc,         \* where the uplink thread is in nr_ue_ul_scheduler()
  list,       \* ul_config_request: frame and slot, and the PDUs
  held,       \* lists whose mutex was never unlocked
  state,      \* mac->state and ra_state
  ta,         \* time_alignment_timer is running
  gf,         \* grant-free is enabled with an active configuration
  promised,   \* history: PDUs accepted for a slot
  pulled,     \* history: MAC PDUs made of RLC data in this slot
  upset,      \* history: a flush, grant-free or a full list hit this slot
  sent        \* history: PDUs the PHY got in this slot

vars == <<now, lead, pc, list, held, state, ta, gf, promised, pulled, upset, sent,
          srVars>>
slotVars == <<pulled, upset, sent>>

Pdu == [kind : {"pusch", "srs", "pucch", "prach"}, for : 0 .. Cycle - 1,
        new : BOOLEAN, filled : BOOLEAN]
Make(kind, at, new) == [kind |-> kind, for |-> at, new |-> new, filled |-> FALSE]

Init ==
  /\ now \in 0 .. Cycle - 1
  /\ lead = 1
  /\ pc = "start"
  /\ list = [s \in UlSlots |-> [at |-> s, pdus |-> <<>>]]
  /\ held = {}
  /\ state = "connected"
  /\ ta = TRUE
  /\ gf \in BOOLEAN
  /\ promised = [at \in 0 .. Cycle - 1 |-> 0]
  /\ pulled = 0 /\ upset = FALSE /\ sent = <<>>
  /\ SrInit

----------------------------------------------------------------------------
(* The lists.                                                               *)

Slot == SlotOf(now)
Mine == list[Slot].pdus
Full(s) == Len(list[s].pdus) >= MaxPdus

Stale(s, at) == list[s].pdus # <<>> /\ list[s].at # at

\* Mutant: one PDU more than the list holds.
AcceptsOneMore(at) == Stale(SlotOf(at), at) \/ Len(list[SlotOf(at)].pdus) <= MaxPdus

\* lockGet_ul_config(): a stale list is emptied, a full one takes no more
Accepts(at) == Stale(SlotOf(at), at) \/ ~Full(SlotOf(at))

\* Mutant: number_pdus is not incremented, the last PDU is overwritten.
LockGetOverwrites(at, pdu) ==
  LET s == SlotOf(at)
      fresh == IF Stale(s, at) THEN <<>> ELSE list[s].pdus
  IN  /\ s \notin held
      /\ list' = [list EXCEPT ![s] =
                    [at |-> at, pdus |-> IF fresh = <<>> THEN <<pdu>>
                                         ELSE [fresh EXCEPT ![Len(fresh)] = pdu]]]
      /\ promised' = [promised EXCEPT ![at] = @ + 1]

LockGet(at, pdu) ==
  LET s == SlotOf(at)
      fresh == IF Stale(s, at) THEN <<>> ELSE list[s].pdus
  IN  /\ s \notin held
      /\ list' = [list EXCEPT ![s] =
                    [at |-> at, pdus |-> IF Accepts(at) THEN Append(fresh, pdu) ELSE fresh]]
      /\ promised' = [promised EXCEPT ![at] = IF Accepts(at) THEN @ + 1 ELSE @]

\* clear_ul_config_request()
Flush ==
  /\ held = {}
  /\ list' = [s \in UlSlots |-> [list[s] EXCEPT !.pdus = <<>>]]
  /\ promised' = [at \in 0 .. Cycle - 1 |-> 0]
  /\ upset' = TRUE

\* nr_ue_ul_scheduler() returns; the next slot starts
Return ==
  /\ pc' = "start"
  /\ lead > 1
  /\ lead' = lead - 1
  /\ now' = (now + 1) % Cycle
  /\ pulled' = 0 /\ upset' = FALSE /\ sent' = <<>>

----------------------------------------------------------------------------
(* The downlink thread.                                                     *)

\* One slot of it, with a grant for k slots later or none: DCI 0_0 or 0_1, or
\* the grant of a RAR.  A PDU whose configuration fails stays in the list:
\* remove_ul_config_last_item() does not lower number_pdus.
DlSlot ==
  /\ lead < MaxLead
  /\ lead' = lead + 1
  /\ \/ UNCHANGED <<list, promised>>
     \/ \E k \in K2, new \in BOOLEAN :
          LET at == (now + lead - Rx2Tx + k) % Cycle IN
            /\ SlotOf(at) \in UlSlots
            /\ LockGet(at, Make("pusch", at, new))
  /\ UNCHANGED <<now, pc, held, state, ta, gf, slotVars, srVars>>

\* handle_time_alignment_timer_expired()
TaExpiry ==
  /\ "ta" \in Failures
  /\ ta
  /\ ta' = FALSE
  /\ Flush
  /\ ReleaseSr
  /\ UNCHANGED <<now, lead, pc, held, state, gf, pulled, sent>>

\* nr_ra_succeeded(), after a RAR that started the timer
RaSucceeds ==
  /\ state = "resolution"
  /\ state' = "connected"
  /\ ta' = TRUE
  /\ gf' = TRUE
  /\ UNCHANGED <<now, lead, pc, list, held, promised, slotVars, srVars>>

\* nr_rar_not_successful(), nr_ra_contention_resolution_failed()
RaFails ==
  /\ state \in {"rar", "resolution"}
  /\ state' = "preamble"
  /\ UNCHANGED <<now, lead, pc, list, held, ta, gf, promised, slotVars, srVars>>

\* nr_ue_release_grant_free() of the last configuration
ReleaseGf ==
  /\ gf
  /\ gf' = FALSE
  /\ UNCHANGED <<now, lead, pc, list, held, state, ta, promised, slotVars, srVars>>

\* RLC queues or drops data, a reconfiguration sets the SR up again, prohibitTimer
\* ends.  Data changes before its status is read: a PUSCH takes no more than was
\* read, so what comes later is as good as what comes in the next slot.
Around ==
  /\ \/ pc = "srs" /\ (Arrives \/ Withdraw)
     \/ state = "connected" /\ pc = "start" /\ ConfigureSr
     \/ pc = "start" /\ ProhibitEnds
  /\ UNCHANGED <<now, lead, pc, list, held, state, ta, gf, promised, slotVars>>

----------------------------------------------------------------------------
(* The uplink thread.                                                       *)

\* scheduled_response(): the PHY takes the list of the slot and empties it
HandOver(pdus) ==
  /\ sent' = IF Len(pdus) < MaxPdus THEN sent \o pdus ELSE sent
  /\ upset' = (upset \/ Len(pdus) >= MaxPdus)

NoUlSlot ==
  /\ pc = "start"
  /\ Slot \notin UlSlots
  /\ Return
  /\ UNCHANGED <<list, held, state, ta, gf, promised, srVars>>

\* nr_ue_prach_scheduler() files the preamble and hands the list over at once
Prach ==
  /\ pc = "start"
  /\ Slot \in PrachSlots \ held
  /\ state = "preamble"
  /\ Accepts(now)
  /\ LET pdus == (IF Stale(Slot, now) THEN <<>> ELSE Mine) \o <<Make("prach", now, FALSE)>>
     IN  /\ HandOver(pdus)
         /\ list' = [list EXCEPT ![Slot] =
                       [at |-> now, pdus |-> IF Len(pdus) < MaxPdus THEN <<>> ELSE pdus]]
  /\ promised' = [promised EXCEPT ![now] = 0]
  /\ state' = "rar"
  /\ pc' = "fill"
  /\ UNCHANGED <<now, lead, held, ta, gf, pulled, srVars>>

\* No preamble to send in this slot, or no room for it
NoPreamble ==
  /\ pc = "start"
  /\ Slot \in UlSlots
  /\ state # "connected"
  /\ state = "preamble" /\ Slot \in PrachSlots => Slot \notin held /\ ~Accepts(now)
  /\ pc' = "fill"
  /\ UNCHANGED <<now, lead, list, held, state, ta, gf, promised, slotVars, srVars>>

\* nr_ue_check_grant_free_occasion()
Occasion == gf /\ now % GfPeriod = 0

\* nr_ue_schedule_grant_free(): its release_ul_config(pdu, true) sets number_pdus
\* of the slot to 0, after the MAC PDU took its data from RLC
GrantFree ==
  /\ pc = "start"
  /\ Slot \in UlSlots \ held
  /\ state = "connected"
  /\ Occasion /\ Accepts(now)
  /\ list' = [list EXCEPT ![Slot] = [at |-> now, pdus |-> <<>>]]
  /\ (\E bytes \in 1 .. MaxBytes : GetGrantFree(bytes)) \/ UNCHANGED srVars
  /\ pulled' = pulled + 1
  /\ upset' = TRUE
  /\ pc' = "srs"
  /\ UNCHANGED <<now, lead, held, state, ta, gf, promised, sent>>

\* No occasion, or neither data nor a BSR: GF_NO_DATA_SKIP
NoGrantFree ==
  /\ pc = "start"
  /\ Slot \in UlSlots
  /\ state = "connected"
  /\ pc' = "srs"
  /\ UNCHANGED <<now, lead, list, held, state, ta, gf, promised, slotVars, srVars>>

\* nr_ue_periodic_srs_scheduling(), then nr_update_rlc_buffers_status()
Srs ==
  /\ pc = "srs"
  /\ LockGet(now, Make("srs", now, FALSE)) \/ UNCHANGED <<list, promised>>
  /\ ReadStatus
  /\ pc' = "fill"
  /\ UNCHANGED <<now, lead, held, state, ta, gf, slotVars>>

\* lockGet_ul_iterator() returns NULL: full, or stale and then emptied.  The
\* slot sends nothing.
NoIterator ==
  /\ pc = "fill"
  /\ Slot \notin held
  /\ Full(Slot) \/ Stale(Slot, now)
  /\ list' = IF Full(Slot) THEN list ELSE [list EXCEPT ![Slot].pdus = <<>>]
  /\ promised' = [promised EXCEPT ![now] = 0]
  /\ Return
  /\ UNCHANGED <<held, state, ta, gf, srVars>>

Puschs == {i \in DOMAIN Mine : Mine[i].kind = "pusch"}

\* Mutant: new_data_indicator is not looked at.
NewPuschsAndOld == Puschs

NewPuschs == {i \in Puschs : Mine[i].new}
Iterates == pc = "fill" /\ Slot \notin held /\ ~Full(Slot) /\ ~Stale(Slot, now)
Unsynchronised == state = "connected" /\ ~ta /\ NewPuschs # {}

\* trigger_MAC_UE_RA(mac, NULL); return;
NotSynchronised ==
  /\ Iterates
  /\ Unsynchronised
  /\ state' = "preamble"
  /\ held' = held \cup {Slot}
  /\ Return
  /\ UNCHANGED <<list, ta, gf, promised, srVars>>

\* While a RAR is awaited Msg3 goes into the first PUSCH, and nr_Msg3_transmitted()
\* ends the wait.  A connected UE puts RLC data into the PUSCHs with new data.
ToFill == {i \in Puschs : \/ state = "connected" /\ i \in NewPuschs
                          \/ state = "rar" /\ \A j \in Puschs : i <= j}
Fill ==
  /\ Iterates
  /\ ~Unsynchronised
  /\ list' = [list EXCEPT ![Slot].pdus =
                [i \in DOMAIN Mine |-> [Mine[i] EXCEPT !.filled = i \in ToFill]]]
  /\ pulled' = IF state = "connected" THEN pulled + Cardinality(ToFill) ELSE pulled
  /\ IF state = "connected" /\ ToFill # {}
     THEN \E bytes \in 0 .. MaxBytes, bsr \in BOOLEAN : GetSdu(bytes, bsr)
     ELSE UNCHANGED srVars
  /\ state' = IF state = "rar" /\ ToFill # {} THEN "resolution" ELSE state
  /\ pc' = "pucch"
  /\ UNCHANGED <<now, lead, held, ta, gf, promised, upset, sent>>

\* schedule_RA_after_SR_failure(), from nr_ue_get_SR() in the PUCCH scheduler
SrFails ==
  /\ "sr" \in Failures
  /\ pc = "pucch"
  /\ state = "connected"
  /\ GiveUpSr
  /\ state' = "preamble"
  /\ Flush
  /\ UNCHANGED <<now, lead, pc, held, ta, gf, pulled, sent>>

\* nr_ue_pucch_scheduler() with a positive SR, or with CSI and ACKs, or with
\* nothing; UCI multiplexed on a PUSCH needs no PDU
Pucch ==
  /\ pc = "pucch"
  /\ LockGet(now, Make("pucch", now, FALSE)) \/ UNCHANGED <<list, promised>>
  /\ (state = "connected" /\ SendSr) \/ UNCHANGED srVars
  /\ pc' = "phy"
  /\ UNCHANGED <<now, lead, held, state, ta, gf, slotVars>>

Phy ==
  /\ pc = "phy"
  /\ HandOver(Mine)
  /\ list' = IF Full(Slot) THEN list ELSE [list EXCEPT ![Slot].pdus = <<>>]
  /\ promised' = [promised EXCEPT ![now] = 0]
  /\ pc' = "end"
  /\ UNCHANGED <<now, lead, held, state, ta, gf, pulled, srVars>>

End ==
  /\ pc = "end"
  /\ IF state = "connected" THEN UpdateSr(gf)
     ELSE bsrSent' = FALSE /\ UNCHANGED <<rlc, remain, sr, srConf, withdrawn, asked>>
  /\ Return
  /\ UNCHANGED <<list, held, state, ta, gf, promised>>

DlThread == DlSlot \/ TaExpiry \/ RaSucceeds \/ RaFails \/ ReleaseGf
UlThread ==
  \/ NoUlSlot \/ Prach \/ NoPreamble \/ GrantFree \/ NoGrantFree \/ Srs
  \/ NoIterator \/ NotSynchronised \/ Fill \/ SrFails \/ Pucch \/ Phy \/ End
Next == DlThread \/ UlThread \/ Around

Spec == Init /\ [][Next]_vars

(* Both threads keep running: they are driven by the slots of the radio.    *)
FairSpec == Spec /\ WF_vars(UlThread) /\ WF_vars(DlSlot)
----------------------------------------------------------------------------
(* Types: number_pdus never exceeds the capacity of a ul_config_request.    *)
TypeOK ==
  /\ now \in 0 .. Cycle - 1
  /\ lead \in 1 .. MaxLead
  /\ pc \in {"start", "srs", "fill", "pucch", "phy", "end"}
  /\ list \in [UlSlots -> [at : 0 .. Cycle - 1, pdus : Seq(Pdu)]]
  /\ \A s \in UlSlots : Len(list[s].pdus) <= MaxPdus
  /\ held \subseteq UlSlots
  /\ state \in {"connected", "preamble", "rar", "resolution"}
  /\ ta \in BOOLEAN /\ gf \in BOOLEAN /\ upset \in BOOLEAN
  /\ promised \in [0 .. Cycle - 1 -> Nat]
  /\ pulled \in Nat
  /\ SrTypeOK
  /\ sent \in Seq(Pdu)

(* What the PHY gets in a slot is what was filed for that slot: no PDU of   *)
(* another slot, although lists are reused every frame and a list that was  *)
(* full keeps its PDUs, and every PDU a scheduler was given room for and no *)
(* flush took back.                                                         *)
SentAsFiled ==
  [][pc = "phy" /\ pc' = "end" =>
       /\ \A i \in DOMAIN sent' : sent'[i].for = now
       /\ upset' \/ Len(sent') = Len(sent) + promised[now]]_vars

Carriers == {i \in DOMAIN sent : sent[i].kind = "pusch" /\ sent[i].new /\ sent[i].filled}

(* Data taken from RLC is on the air in the same slot, unless the slot was  *)
(* flushed, used for grant-free, or its list full.                          *)
DataSentOrDropped == pc = "end" => upset \/ pulled <= Cardinality(Carriers)

(* Random access for lack of an answer begins only after the maximum number *)
(* of SRs with no BSR among them, although the SR is cancelled and set anew *)
(* with the data, survives the loss of its resources and other random       *)
(* accesses, and is suspended by grant-free.                                *)
SrFailsUnanswered ==
  [][srConf /\ ~srConf' /\ state = "connected" /\ state' = "preamble" =>
       asked = SrTransMax]_vars

(* The MAC believes no more of RLC than it has, and when a slot starts an   *)
(* SR is pending only for data RLC has, whatever dynamic and grant-free     *)
(* PUSCHs, lost SRs and random accesses did, as long as RLC drops nothing   *)
(* by itself.  Once it has dropped the last of its data,                    *)
(* nr_update_rlc_buffers_status() does not note the empty buffer, and the   *)
(* UE asks for resources it has no use for until RLC has data again.        *)
SrForData ==
  withdrawn \/ /\ remain <= rlc
               /\ pc = "start" /\ state = "connected" /\ sr.pending => rlc > 0

(* "If Grant-Free is enabled and active, skip ALL SR processing.  The UE    *)
(* will transmit data on predefined GF occasions instead."                  *)
DataIsSent == pc = "end" => pulled <= Cardinality(Carriers)

(* nr_ue_ul_scheduler() is "called at each slot", and "performs BSR/SR/PHR  *)
(* procedures, random access procedure handler and DLSCH/ULSCH procedures". *)
CalledEachSlot == \A at \in 0 .. Cycle - 1 : []<>(now = at)
=============================================================================
