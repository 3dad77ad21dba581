----------------------------- MODULE GnbUlRing -----------------------------
(***************************************************************************)
(* The ring of uplink requests, UL_tti_req_ahead, and the slot loop that   *)
(* fills, sends and recycles it.  gNB_dlsch_ulsch_scheduler() runs once    *)
(* per slot under sched_lock: it clears the entry of the previous slot and *)
(* moves its frame number one turn ahead, lets the schedulers file PDUs in *)
(* entries of later slots, and copies the entry of this slot to the PHY.   *)
(***************************************************************************)
EXTENDS Integers, FiniteSets

CONSTANTS
  SlotsPerFrame,  \* numb_slots_frame
  Frames,         \* frame numbers, 1024
  Koffset,        \* get_NTN_Koffset()
  MaxFbTime,      \* 13, the "upper limit for max_fb_time"
  PrachLen,       \* cc->prach_len
  PrachSlots,     \* slots of a frame with a PRACH occasion
  SrsPeriod,      \* period of a UE's SRS, in slots
  Msg3K2,         \* k2 of Msg3 and its retransmissions
  PuschK2,        \* k2 of PUSCHs of connected UEs
  GfModulus,      \* NUMBER_OF_NR_UL_SLOTS_IN_FRAME of gNB_scheduler_gf.c
  GfPerSlot,      \* NR_MAX_GF_PER_SLOT
  GfMaxPdus       \* NR_MAX_UL_TTI_PDUS of gNB_scheduler_gf.c

Cycle == Frames * SlotsPerFrame

\* UL_tti_req_ahead_size: n << ceil(log2((Koffset + 13) / n + 1))
RingSize ==
  LET frames == (Koffset + MaxFbTime) \div SlotsPerFrame + 1
      shift == CHOOSE e \in 0 .. 10 : 2 ^ e >= frames /\ (e = 0 \/ 2 ^ (e - 1) < frames)
  IN  SlotsPerFrame * 2 ^ shift

PrachAhead == SlotsPerFrame - PrachLen + Koffset
SrsAhead == SlotsPerFrame - 1 + Koffset

\* The distances fit in the ring.  The code relies on it and checks nothing:
\* Koffset counts for RingSize only together with MaxFbTime.  That the ring is
\* a number of frames holds by its definition, and is stated for the proofs,
\* which cannot compute powers.
ASSUME GnbUlRingAssumption ==
  /\ SlotsPerFrame \in Nat \ {0, 1}
  /\ Frames \in Nat \ {0}
  /\ {Koffset, MaxFbTime, GfPerSlot, GfMaxPdus} \subseteq Nat
  /\ RingSize \in Nat \ {0} /\ RingSize % SlotsPerFrame = 0
  /\ Cycle % RingSize = 0
  /\ PrachLen \in Nat \ {0}
  /\ PrachAhead \in 0 .. RingSize - 1
  /\ SrsAhead \in 0 .. RingSize - 1
  /\ SrsPeriod \in Nat \ {0}
  /\ \A k \in Msg3K2 \cup PuschK2 : k + Koffset \in 1 .. RingSize - 1
  /\ GfModulus \in 1 .. RingSize

VARIABLES
  now,        \* frame * slots_frame + slot of the next run of the scheduler
  ring,       \* UL_tti_req_ahead: the slot an entry says it is for (SFN, Slot)
              \*   and its PDUs
  filed,      \* history: distance and PDU of what the last slot filed
  sent,       \* UL_tti_req handed to the PHY by the last slot
  aborted     \* an AssertFatal stopped the gNB

vars == <<now, ring, filed, sent, aborted>>

Index(at) == at % RingSize       \* ul_buffer_index()
SlotOf(at) == at % SlotsPerFrame
After(d) == (now + d) % Cycle

Init ==
  /\ now \in 0 .. Cycle - 1
  /\ ring = [i \in 0 .. RingSize - 1 |-> [slot |-> 0, pdus |-> {}]]
  /\ filed = {}
  /\ sent = [slot |-> (now + Cycle - 1) % Cycle, pdus |-> {}]
  /\ aborted = FALSE

----------------------------------------------------------------------------
(* The steps of one slot, each from a ring to a ring.                       *)

\* UL_tti_req_ahead_initialization(): only while entry 1 is not for a slot 1
Initialised(r) ==
  IF SlotOf(r[1].slot) = 1 THEN r
  ELSE [i \in 0 .. RingSize - 1 |->
          LET d == (i - now) % RingSize IN [r[i] EXCEPT !.slot = After(d)]]

\* Mutant: the frame number does not wrap.
ClearedNoWrap(r) ==
  LET last == now + RingSize - 1
  IN  [r EXCEPT ![Index(last)] =
         [slot |-> (last \div SlotsPerFrame) * SlotsPerFrame + SlotOf(r[Index(last)].slot),
          pdus |-> {}]]

\* Mutant: the frame number of the recycled entry does not move on.
ClearedSameFrame(r) == [r EXCEPT ![Index(now + RingSize - 1)].pdus = {}]

\* Mutant: the PDUs of the previous slot stay.
ClearedKeepingPdus(r) ==
  LET last == now + RingSize - 1
      frame == (last \div SlotsPerFrame) % Frames
  IN  [r EXCEPT ![Index(last)].slot = frame * SlotsPerFrame + SlotOf(r[Index(last)].slot)]

\* clear_nr_nfapi_information(): the frame number moves on, the slot stays
Cleared(r) ==
  LET last == now + RingSize - 1
      frame == (last \div SlotsPerFrame) % Frames
  IN  [r EXCEPT ![Index(last)] =
         [slot |-> frame * SlotsPerFrame + SlotOf(r[Index(last)].slot), pdus |-> {}]]

File(r, i, pdus) == [r EXCEPT ![i].pdus = r[i].pdus \cup pdus]

\* schedule_nr_prach(): the only scheduler besides grant-free that writes the
\* frame and slot of the entry
WithPrach(r) ==
  LET at == After(PrachAhead) IN
    IF SlotOf(at) \in PrachSlots
      THEN [File(r, Index(at), {<<"prach", PrachAhead>>}) EXCEPT ![Index(at)].slot = at]
      ELSE r

\* nr_schedule_srs() and nr_fill_nfapi_srs()
WithSrs(r) ==
  LET at == After(SrsAhead) IN
    IF at % SrsPeriod = 0 THEN File(r, Index(at), {<<"srs", SrsAhead>>}) ELSE r

\* nr_add_msg3() and nr_generate_Msg3_retransmission() assert that the entry
\* is for the slot of Msg3.
Msg3Asserts(r, k2s) ==
  \A k \in k2s : r[Index(After(k + Koffset))].slot = After(k + Koffset)

\* PDUs granted now for k2 + Koffset slots ahead; no check of the entry's slot
Granted(kind, k2s) == {<<k + Koffset, <<kind, k + Koffset>>>> : k \in k2s}
WithGrants(r, grants) ==
  [i \in 0 .. RingSize - 1 |->
     [r[i] EXCEPT !.pdus = r[i].pdus \cup {g[2] : g \in {h \in grants : Index(After(h[1])) = i}}]]

\* nr_gf_gnb_schedule_reception(): n occasions of this slot, as many as fit
GfIndex == SlotOf(now) % GfModulus
GfPdus(r, n) ==
  {<<"gf", j>> : j \in {k \in 1 .. n : Cardinality(r[GfIndex].pdus) + k <= GfMaxPdus}}
WithGf(r, pdus) ==
  IF pdus = {} THEN r ELSE [File(r, GfIndex, pdus) EXCEPT ![GfIndex].slot = now]

----------------------------------------------------------------------------
(* gNB_dlsch_ulsch_scheduler(): Msg3s and PUSCHs granted in this slot, n    *)
(* grant-free occasions, and PUCCHs that fall into it or not.               *)
Slot(msg3, n, pusch, pucch) ==
  /\ ~aborted
  /\ LET free == Cleared(Initialised(ring))
         prach == WithPrach(free)
         srs == WithSrs(prach)
         ra == WithGrants(srs, Granted("msg3", msg3))
         gfPdus == GfPdus(ra, n)
         gf == WithGf(ra, gfPdus)
         ulsch == WithGrants(gf, Granted("pusch", pusch))
         pucchs == IF pucch THEN {<<0, <<"pucch", 0>>>>} ELSE {}
     IN  IF ~Msg3Asserts(srs, msg3)
           THEN aborted' = TRUE /\ UNCHANGED <<now, ring, filed, sent>>
           ELSE /\ ring' = WithGrants(ulsch, pucchs)
                /\ sent' = ring'[Index(now)]
                /\ filed' = UNION
                     {IF SlotOf(After(PrachAhead)) \in PrachSlots
                        THEN {<<PrachAhead, <<"prach", PrachAhead>>>>} ELSE {},
                      IF After(SrsAhead) % SrsPeriod = 0
                        THEN {<<SrsAhead, <<"srs", SrsAhead>>>>} ELSE {},
                      Granted("msg3", msg3), Granted("pusch", pusch), pucchs,
                      {<<0, g>> : g \in gfPdus}}
                /\ now' = After(1)
                /\ UNCHANGED aborted

Next == \E msg3 \in SUBSET Msg3K2, n \in 0 .. GfPerSlot, pusch \in SUBSET PuschK2,
           pucch \in BOOLEAN : Slot(msg3, n, pusch, pucch)

Spec == Init /\ [][Next]_vars
----------------------------------------------------------------------------
Pdu == {<<"prach", PrachAhead>>, <<"srs", SrsAhead>>, <<"pucch", 0>>}
         \cup {<<"gf", j>> : j \in 1 .. GfPerSlot}
         \cup {<<"msg3", k + Koffset>> : k \in Msg3K2}
         \cup {<<"pusch", k + Koffset>> : k \in PuschK2}
Request == [slot : 0 .. Cycle - 1, pdus : SUBSET Pdu]

(* Types: frame numbers of all entries are in 0 .. 1023 and PDUs are filed  *)
(* less than one turn of the ring ahead.                                    *)
TypeOK ==
  /\ now \in 0 .. Cycle - 1
  /\ ring \in [0 .. RingSize - 1 -> Request]
  /\ filed \subseteq (0 .. RingSize - 1) \X Pdu
  /\ sent \in Request
  /\ aborted \in BOOLEAN

(* The slot loop implements the calendar: a PDU filed for a later slot is   *)
(* in the request the PHY gets for that slot and in no other one, although  *)
(* the entries are reused every RingSize slots and only the one of the      *)
(* previous slot is ever cleared.                                           *)
Calendar == INSTANCE UlCalendar WITH
              Horizon <- RingSize,
              plan <- [d \in 0 .. RingSize - 2 |-> ring[Index(now + d)].pdus]
KeepsCalendar == Calendar!Spec

(* AssertFatal of nr_add_msg3() and nr_generate_Msg3_retransmission():      *)
(* "future UL_tti_req's frame.slot does not match PUSCH".                   *)
Msg3EntryMatches == ~aborted
=============================================================================
