-------------------------------- MODULE UeSr --------------------------------
(***************************************************************************)
(* How the UE asks for uplink resources: RLC's data, what the MAC believes *)
(* of it, the scheduling request and the buffer status report that answers *)
(* for it.  One logical channel and one SR stand for all: the gNB maps     *)
(* every channel to SR 0, with no SR mask and no SR delay timer            *)
(* (nr_radio_config.c:3546-3549), so every BSR clears the one SR.          *)
(*                                                                         *)
(* nr_ue_get_sdu() triggers a regular BSR for itself (nr_update_bsr()), so *)
(* that the BSR timers decide nothing but the size of a PDU.               *)
(***************************************************************************)
EXTENDS Integers

CONSTANTS
  MaxBytes,    \* bound of the bytes waiting in RLC
  SrTransMax   \* maxTransmissions

ASSUME UeSrAssumption == MaxBytes \in Nat \ {0} /\ SrTransMax \in Nat \ {0}

VARIABLES
  rlc,        \* bytes waiting in RLC
  remain,     \* LCID_buffer_remain
  sr,         \* sr_info[0]: pending, counter, prohibitTimer runs
  srConf,     \* schedulingRequestResourceToAddModList is not empty
  bsrSent,    \* BSRsent of this slot
  withdrawn,  \* history: RLC dropped data that the MAC still counts on
  asked       \* history: positive SRs since the last BSR or RA, up to the maximum

srVars == <<rlc, remain, sr, srConf, bsrSent, withdrawn, asked>>

NoSr == [pending |-> FALSE, counter |-> 0, prohibit |-> FALSE]

SrInit ==
  /\ rlc = 0 /\ remain = 0
  /\ sr = NoSr /\ srConf = TRUE
  /\ bsrSent = FALSE /\ withdrawn = FALSE /\ asked = 0

\* RLC queues data, in a thread of its own
Arrives ==
  /\ rlc < MaxBytes
  /\ rlc' = rlc + 1
  /\ UNCHANGED <<remain, sr, srConf, bsrSent, withdrawn, asked>>

\* RLC drops data without the MAC: what waits for its retransmission is acknowledged
Withdraw ==
  /\ rlc > 0
  /\ rlc' = rlc - 1
  /\ withdrawn' = (withdrawn \/ remain >= rlc)
  /\ UNCHANGED <<remain, sr, srConf, bsrSent, asked>>

\* nr_update_rlc_buffers_status(): an empty buffer is not noted
ReadStatus ==
  /\ remain' = IF rlc > 0 THEN rlc ELSE remain
  /\ withdrawn' = (withdrawn /\ rlc = 0 /\ remain > 0)
  /\ UNCHANGED <<rlc, sr, srConf, bsrSent, asked>>

\* nr_ue_gf_build_mac_pdu(): no more than the MAC knows of
GetGrantFree(bytes) ==
  /\ bytes \in 1 .. remain /\ bytes <= rlc
  /\ rlc' = rlc - bytes
  /\ remain' = remain - bytes
  /\ UNCHANGED <<sr, srConf, bsrSent, withdrawn, asked>>

\* Mutant: the bytes are not subtracted.
TakeSduForgets(bytes) ==
  /\ bytes \in 0 .. rlc /\ bytes <= remain
  /\ rlc' = rlc - bytes
  /\ UNCHANGED remain

\* fill_mac_sdu(), all calls of it: no more than the MAC knows of, whatever came since
TakeSdu(bytes) ==
  /\ bytes \in 0 .. rlc /\ bytes <= remain
  /\ rlc' = rlc - bytes
  /\ remain' = remain - bytes

\* Mutant: a BSR does not clear the SR.
SendBsrKeepsSr(bsr) ==
  /\ bsrSent' = bsr
  /\ asked' = IF bsr THEN 0 ELSE asked
  /\ UNCHANGED sr

\* nr_ue_get_sdu_mac_ce_post(): a BSR, when there is room for one
SendBsr(bsr) ==
  /\ bsrSent' = bsr
  /\ sr' = IF bsr THEN NoSr ELSE sr
  /\ asked' = IF bsr THEN 0 ELSE asked

\* nr_ue_get_sdu()
GetSdu(bytes, bsr) == TakeSdu(bytes) /\ SendBsr(bsr) /\ UNCHANGED <<srConf, withdrawn>>

\* trigger_periodic_scheduling_request() in a slot of the SR
SrDue == srConf /\ sr.pending /\ ~sr.prohibit

\* nr_ue_get_SR(), positive
SendSr ==
  /\ SrDue /\ sr.counter < SrTransMax
  /\ sr' = [sr EXCEPT !.counter = @ + 1, !.prohibit = TRUE]
  /\ asked' = IF asked < SrTransMax THEN asked + 1 ELSE asked
  /\ UNCHANGED <<rlc, remain, srConf, bsrSent, withdrawn>>

\* nr_ue_get_SR() after the last one, and release_PUCCH_SRS()
GiveUpSr ==
  /\ SrDue /\ sr.counter >= SrTransMax
  /\ sr' = NoSr
  /\ srConf' = FALSE
  /\ asked' = 0
  /\ UNCHANGED <<rlc, remain, bsrSent, withdrawn>>

\* release_PUCCH_SRS() when the time alignment timer expires
ReleaseSr == srConf' = FALSE /\ UNCHANGED <<rlc, remain, sr, bsrSent, withdrawn, asked>>

\* A reconfiguration sets the resources up again
ConfigureSr ==
  /\ ~srConf
  /\ srConf' = TRUE
  /\ UNCHANGED <<rlc, remain, sr, bsrSent, withdrawn, asked>>

\* nr_timer_tick() of prohibitTimer
ProhibitEnds ==
  /\ sr.prohibit
  /\ sr' = [sr EXCEPT !.prohibit = FALSE]
  /\ UNCHANGED <<rlc, remain, srConf, bsrSent, withdrawn, asked>>

\* nr_update_sr().  A channel without PUCCH resource for its SR, which would
\* start RA, is not configured by the gNB.
UpdateSr(gfActive) ==
  /\ sr' = IF gfActive \/ remain = 0 THEN NoSr
           ELSE IF ~bsrSent /\ srConf /\ ~sr.pending
                THEN [sr EXCEPT !.pending = TRUE, !.counter = 0]
                ELSE sr
  /\ bsrSent' = FALSE
  /\ UNCHANGED <<rlc, remain, srConf, withdrawn, asked>>

SrTypeOK ==
  /\ rlc \in 0 .. MaxBytes
  /\ remain \in 0 .. MaxBytes
  /\ sr \in [pending : BOOLEAN, counter : 0 .. SrTransMax, prohibit : BOOLEAN]
  /\ srConf \in BOOLEAN /\ bsrSent \in BOOLEAN /\ withdrawn \in BOOLEAN
  /\ asked \in 0 .. SrTransMax
=============================================================================
