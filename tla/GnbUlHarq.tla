----------------------------- MODULE GnbUlHarq -----------------------------
(***************************************************************************)
(* Uplink HARQ of one connected UE in the gNB MAC: the three lists of      *)
(* process ids of NR_UE_sched_ctrl_t, the scheduler that grants PUSCHs,    *)
(* the reception of their CRC reports, and what disturbs them: reports     *)
(* lost by the PHY, contention-resolved random access that resets the      *)
(* lists, F1 reconfigurations that resize them, interrupts of the UE's     *)
(* scheduling, and the grant-free hook that takes reports away.            *)
(*                                                                         *)
(* All handlers run under sched_lock.  handle_nr_ul_harq() is a loop: one  *)
(* iteration is one step, and "rx" holds the report while the lock is held *)
(* so that nothing interleaves with the loop.                              *)
(***************************************************************************)
EXTENDS Integers, Sequences, Functions, HarqLists

CONSTANTS
  ConfiguredHarq,   \* nrofHARQ-ProcessesForPUSCH of the UE's dedicated config
  CommonHarqMax,    \* limit in a common search space (16 in the code)
  RoundMax,         \* ul_bler.harq_round_max
  DtxThreshold,     \* pusch_failure_thres
  TbSizes,          \* transport block sizes, in units of bytes
  GfPids,           \* harq_process_ids a grant-free config of this UE may name
  MaxAir,           \* bound: PUSCHs granted and not yet reported
  MaxBytes,         \* bound: sched_ul_bytes when a new block is granted
  MaxLost           \* bound: reports the PHY loses

ASSUME GnbUlHarqAssumption ==
  /\ ConfiguredHarq \in Nat \ {0}
  /\ CommonHarqMax \in Nat \ {0}
  /\ RoundMax \in Nat \ {0}
  /\ DtxThreshold \in Nat \ {0}
  /\ TbSizes \subseteq Nat
  /\ MaxAir \in Nat
  /\ MaxBytes \in Nat
  /\ MaxLost \in Nat

VARIABLES
  available,     \* available_ul_harq, feedback_ul_harq, retrans_ul_harq:
  feedback,      \*   lists of process ids
  retrans,
  len,           \*   and their length, the number of processes they can hold
  proc,          \* ul_harq_processes: ndi, round, is_waiting, tb_size
  schedBytes,    \* sched_ul_bytes
  dtx,           \* pusch_consecutive_dtx_cnt
  ulFailure,     \* ul_failure
  interrupt,     \* interrupt_action while transm_interrupt runs, else "none"
  disableHarq,   \* radio_config.disable_harq
  gf,            \* process ids of this UE's grant-free configs at the gNB
  rx,            \* report handle_nr_ul_harq() is working on, or NoRx
  aborted,       \* an AssertFatal stopped the gNB
  air,           \* PHY: reports to come, in the order of their UL slots
  lost,          \* reports the PHY has lost
  leaked,        \* history: schedBytes may count blocks nobody holds
  stopped        \* history: the CU stopped the UE, and nothing took that back

lists == <<available, feedback, retrans, len>>
phy == <<air, lost>>
vars == <<available, feedback, retrans, len, proc, schedBytes, dtx, ulFailure,
          interrupt, disableHarq, gf, rx, aborted, air, lost, leaked, stopped>>

Min2(a, b) == IF a <= b THEN a ELSE b

Pid == 0 .. (IF ConfiguredHarq >= CommonHarqMax THEN ConfiguredHarq ELSE CommonHarqMax) - 1

ASSUME GfPidsAssumption == GfPids \subseteq Pid

Process == [ndi : {0, 1}, round : 0 .. RoundMax - 1, waiting : BOOLEAN, tb : Nat]

NrofHarq(common) == IF common THEN Min2(ConfiguredHarq, CommonHarqMax) ELSE ConfiguredHarq
Known == Elems(available) \cup Elems(feedback) \cup Elems(retrans)
Pids(from, n) == [i \in 1 .. n - from |-> from + i - 1]

\* A report is "own" while its process waits for it, "stale" once the process
\* was taken off feedback_ul_harq without it, "gf" for a grant-free PUSCH.
Kind == {"own", "stale", "gf"}
Report == [pid : Pid, kind : Kind, tb : Nat]
NoRx == [pid |-> -1]
Forget(p) == [i \in 1 .. Len(air) |->
                IF air[i].pid = p /\ air[i].kind = "own"
                  THEN [air[i] EXCEPT !.kind = "stale"] ELSE air[i]]

Interrupts == {"none", "INSYNC", "OUTOFSYNC", "INSYNC_RECONFIG"}
Active == ~ulFailure /\ interrupt = "none"
Unlocked == rx = NoRx /\ ~aborted

\* Mutant: the clamp is missing.
MinusUnclamped(n) == schedBytes - n

\* sched_ul_bytes is signed and clamped at zero after each subtraction.
Minus(n) == IF schedBytes >= n THEN schedBytes - n ELSE 0

Init ==
  /\ available = Pids(0, NrofHarq(TRUE))
  /\ feedback = <<>>
  /\ retrans = <<>>
  /\ len = NrofHarq(TRUE)
  /\ proc = [p \in Pid |-> [ndi |-> 0, round |-> 0, waiting |-> FALSE, tb |-> 0]]
  /\ schedBytes = 0
  /\ dtx = 0
  /\ ulFailure = FALSE
  /\ interrupt = "none"
  /\ disableHarq \in BOOLEAN
  /\ gf = {}
  /\ rx = NoRx
  /\ aborted = FALSE
  /\ air = <<>>
  /\ lost = 0
  /\ leaked = FALSE
  /\ stopped = FALSE

----------------------------------------------------------------------------
(* pf_ul(), allocate_ul_retransmission() and post_process_ulsch().  How big *)
(* a block is and whether resources are free is left open; a new block can  *)
(* always be wanted (data, an SR, or ulsch_max_frame_inactivity).           *)

Grant(p, tb) == air' = Append(air, [pid |-> p, kind |-> "own", tb |-> tb])

\* Mutant: the process is put in front of feedback_ul_harq.
AwaitFirst(p) == feedback' = <<p>> \o feedback

\* add_tail_nr_list(&feedback_ul_harq, p)
Await(p) == feedback' = Append(feedback, p)

PfUlNew(tb) ==
  /\ Unlocked
  /\ Active
  /\ Len(air) < MaxAir
  /\ schedBytes + tb <= MaxBytes
  /\ retrans = <<>>
  /\ available # <<>>
  /\ LET p == Head(available) IN
       /\ Grant(p, tb)
       /\ IF disableHarq
            THEN \* finish_nr_ul_harq() at once
                 /\ available' = Append(Tail(available), p)
                 /\ proc' = [proc EXCEPT ![p] = [ndi |-> 1 - proc[p].ndi, round |-> 0,
                                                 waiting |-> FALSE, tb |-> tb]]
                 /\ UNCHANGED feedback
            ELSE /\ available' = Tail(available)
                 /\ Await(p)
                 /\ proc' = [proc EXCEPT ![p].waiting = TRUE, ![p].tb = tb]
  /\ schedBytes' = schedBytes + tb
  /\ UNCHANGED <<retrans, len, dtx, ulFailure, interrupt, disableHarq, gf, rx,
                 aborted, lost, leaked, stopped>>

PfUlRetransmission ==
  /\ Unlocked
  /\ Active
  /\ Len(air) < MaxAir
  /\ retrans # <<>>
  /\ LET p == Head(retrans) IN
       /\ Grant(p, proc[p].tb)
       /\ retrans' = Tail(retrans)
       /\ Await(p)
       /\ proc' = [proc EXCEPT ![p].waiting = TRUE]
  /\ UNCHANGED <<available, len, schedBytes, dtx, ulFailure, interrupt, disableHarq,
                 gf, rx, aborted, lost, leaked, stopped>>

----------------------------------------------------------------------------
(* _nr_rx_sdu(): the report of the PUSCH of the earliest UL slot.  A BSR in *)
(* the decoded PDU restarts the byte count.                                 *)

RxGrantFree ==
  /\ Unlocked
  /\ air # <<>>
  /\ Head(air).pid \in gf
  /\ air' = Tail(air)
  /\ UNCHANGED <<lists, proc, schedBytes, dtx, ulFailure, interrupt, disableHarq,
                 gf, rx, aborted, lost, leaked, stopped>>

RxSdu(ok, bsr, lowCqi) ==
  /\ Unlocked
  /\ air # <<>>
  /\ LET r == Head(air) IN
       /\ r.pid \notin gf
       /\ schedBytes' = IF ~ok THEN schedBytes ELSE IF bsr THEN 0 ELSE Minus(r.tb)
       /\ dtx' = IF ok THEN 0 ELSE IF lowCqi THEN Min2(dtx + 1, DtxThreshold) ELSE dtx
       /\ ulFailure' = (ulFailure \/ (~ok /\ dtx' >= DtxThreshold))
       /\ rx' = IF disableHarq THEN NoRx ELSE [pid |-> r.pid, kind |-> r.kind, ok |-> ok]
       /\ leaked' = (~(ok /\ bsr) /\ (leaked \/ r.kind # "own"))
  /\ air' = Tail(air)
  /\ UNCHANGED <<lists, proc, interrupt, disableHarq, gf, aborted, lost, stopped>>

----------------------------------------------------------------------------
(* handle_nr_ul_harq(): pop feedback_ul_harq up to the reported process;    *)
(* every process in front of it is taken for a failed transmission.         *)

\* Mutant: the round is not reset.
FinishKeepingRound(p) ==
  /\ available' = Append(available, p)
  /\ proc' = [proc EXCEPT ![p].ndi = 1 - proc[p].ndi, ![p].waiting = FALSE]
  /\ UNCHANGED retrans

\* Mutant: the new data indicator is not toggled.
FinishSameNdi(p) ==
  /\ available' = Append(available, p)
  /\ proc' = [proc EXCEPT ![p].round = 0, ![p].waiting = FALSE]
  /\ UNCHANGED retrans

\* finish_nr_ul_harq()
Finish(p) ==
  /\ available' = Append(available, p)
  /\ proc' = [proc EXCEPT ![p].ndi = 1 - proc[p].ndi, ![p].round = 0, ![p].waiting = FALSE]
  /\ UNCHANGED retrans

\* Mutant: abort_nr_ul_harq() leaves sched_ul_bytes alone.
FailedKeepingBytes(p) ==
  IF proc[p].round >= RoundMax - 1
    THEN Finish(p) /\ UNCHANGED schedBytes
    ELSE /\ retrans' = Append(retrans, p)
         /\ proc' = [proc EXCEPT ![p].round = proc[p].round + 1, ![p].waiting = FALSE]
         /\ UNCHANGED <<available, schedBytes>>

\* Mutant: the failed process is not put on retrans_ul_harq.
FailedForgotten(p) ==
  IF proc[p].round >= RoundMax - 1
    THEN /\ Finish(p)
         /\ schedBytes' = Minus(proc[p].tb)
    ELSE /\ proc' = [proc EXCEPT ![p].round = proc[p].round + 1, ![p].waiting = FALSE]
         /\ UNCHANGED <<available, retrans, schedBytes>>

\* abort_nr_ul_harq() after the last round, else one more round
Failed(p) ==
  IF proc[p].round >= RoundMax - 1
    THEN /\ Finish(p)
         /\ schedBytes' = Minus(proc[p].tb)
    ELSE /\ retrans' = Append(retrans, p)
         /\ proc' = [proc EXCEPT ![p].round = proc[p].round + 1, ![p].waiting = FALSE]
         /\ UNCHANGED <<available, schedBytes>>

HarqUnexpected ==
  /\ rx # NoRx
  /\ feedback # <<>>
  /\ Head(feedback) # rx.pid
  /\ feedback' = Tail(feedback)
  /\ Failed(Head(feedback))
  /\ air' = Forget(Head(feedback))
  /\ UNCHANGED <<len, dtx, ulFailure, interrupt, disableHarq, gf, rx, aborted, lost,
                 leaked, stopped>>

HarqMatched ==
  /\ rx # NoRx
  /\ feedback # <<>>
  /\ Head(feedback) = rx.pid
  /\ feedback' = Tail(feedback)
  /\ IF rx.ok THEN Finish(rx.pid) /\ UNCHANGED schedBytes
              ELSE Failed(rx.pid)
  /\ rx' = NoRx
  /\ air' = Forget(rx.pid)
  /\ UNCHANGED <<len, dtx, ulFailure, interrupt, disableHarq, gf, aborted, lost, leaked, stopped>>

HarqNoMatch ==
  /\ rx # NoRx
  /\ feedback = <<>>
  /\ rx' = NoRx
  /\ UNCHANGED <<lists, proc, schedBytes, dtx, ulFailure, interrupt, disableHarq,
                 gf, aborted, phy, leaked, stopped>>

LoseReport ==
  /\ Unlocked
  /\ lost < MaxLost
  /\ air # <<>>
  /\ air' = Tail(air)
  /\ lost' = lost + 1
  /\ UNCHANGED <<lists, proc, schedBytes, dtx, ulFailure, interrupt, disableHarq,
                 gf, rx, aborted, leaked, stopped>>

----------------------------------------------------------------------------
(* create_ul_harq_list(), called by configure_UE_BWP(): lists only grow.    *)

CreateUlHarqList(avail, common) ==
  LET n == NrofHarq(common) IN
    /\ available' = IF n > len THEN avail \o Pids(len, n) ELSE avail
    /\ len' = IF n > len THEN n ELSE len
    /\ aborted' = (n < len)

\* RRC reconfiguration over F1: dedicated search space once it is complete,
\* common search space when bearers or capabilities change.
ConfigureBwp(common) ==
  /\ Unlocked
  /\ CreateUlHarqList(available, common)
  /\ UNCHANGED <<feedback, retrans, proc, schedBytes, dtx, ulFailure, interrupt,
                 disableHarq, gf, rx, phy, leaked, stopped>>

(* nr_rx_ra_sdu() with a C-RNTI MAC CE of this UE: reset_ul_harq_list(),    *)
(* then, unless the RRC connection is being re-established, the common      *)
(* search space.  The rest of Msg3 may hold a BSR.  A stop whose interrupt   *)
(* still runs stays owed: the timer is not touched.                         *)
RaWithCrnti(reestablish, bsr) ==
  /\ Unlocked
  /\ ulFailure' = FALSE
  /\ dtx' = 0
  /\ LET reset == available \o feedback \o retrans IN
       IF reestablish
         THEN available' = reset /\ UNCHANGED <<len, aborted>>
         ELSE CreateUlHarqList(reset, TRUE)
  /\ feedback' = <<>>
  /\ retrans' = <<>>
  /\ proc' = [p \in Pid |-> [proc[p] EXCEPT !.round = 0, !.waiting = FALSE]]
  /\ schedBytes' = IF bsr THEN 0 ELSE schedBytes
  /\ leaked' = ~bsr
  /\ stopped' = (stopped /\ interrupt = "OUTOFSYNC")
  /\ air' = [i \in 1 .. Len(air) |->
               IF air[i].kind = "own" THEN [air[i] EXCEPT !.kind = "stale"] ELSE air[i]]
  /\ UNCHANGED <<interrupt, disableHarq, gf, rx, lost>>

----------------------------------------------------------------------------
(* Interrupts of the UE's scheduling and what follows them.                 *)

(* nr_mac_interrupt_ue_transmission(): OUTOFSYNC for a                      *)
(* TransmissionActionIndicator that stops the UE, INSYNC_RECONFIG from F1   *)
(* or from the ACK of Msg4.  One interrupt at a time: the later one         *)
(* replaces a stop whose timer still runs.                                  *)
InterruptUe(action) ==
  /\ Unlocked
  /\ interrupt' = action
  /\ stopped' = (action = "OUTOFSYNC" \/ (stopped /\ interrupt # "OUTOFSYNC"))
  /\ UNCHANGED <<lists, proc, schedBytes, dtx, ulFailure, disableHarq, gf, rx,
                 aborted, phy, leaked>>

\* Mutant: the gap is an interrupt of its own.
MeasGapRestarts ==
  /\ Unlocked
  /\ interrupt' = "INSYNC"
  /\ stopped' = (stopped /\ interrupt # "none")
  /\ UNCHANGED <<lists, proc, schedBytes, dtx, ulFailure, disableHarq, gf, rx,
                 aborted, phy, leaked>>

(* nr_measgap_scheduling() extends a running interrupt with the same        *)
(* action.  With none running it starts one of its own, also for a UE in UL *)
(* failure, and the failure is forgotten when that one expires.             *)
MeasGap ==
  /\ Unlocked
  /\ interrupt' = IF interrupt = "none" THEN "INSYNC" ELSE interrupt
  /\ stopped' = (stopped /\ interrupt # "none")
  /\ UNCHANGED <<lists, proc, schedBytes, dtx, ulFailure, disableHarq, gf, rx,
                 aborted, phy, leaked>>

\* nr_mac_update_timers(): transm_interrupt expires
InterruptExpires ==
  /\ Unlocked
  /\ interrupt # "none"
  /\ interrupt' = "none"
  /\ \/ /\ interrupt = "INSYNC"
        /\ ulFailure' = FALSE
        /\ dtx' = 0
        /\ UNCHANGED <<available, len, aborted>>
     \/ /\ interrupt = "OUTOFSYNC"
        /\ ulFailure' = TRUE
        /\ UNCHANGED <<available, len, aborted, dtx>>
     \/ /\ interrupt = "INSYNC_RECONFIG"
        /\ CreateUlHarqList(available, TRUE)
        /\ UNCHANGED <<ulFailure, dtx>>
  /\ UNCHANGED <<feedback, retrans, proc, schedBytes, disableHarq, gf, rx, phy, leaked, stopped>>

----------------------------------------------------------------------------
(* The grant-free manager as this component sees it: nr_gf_gnb_configure_ue *)
(* and nr_gf_gnb_release_ue for this UE, and the PUSCH nr_gf_gnb_slot_process*)
(* expects in the current slot, ahead of PUSCHs granted for later slots.    *)

GfConfigure(p) ==
  /\ Unlocked
  /\ gf' = gf \cup {p}
  /\ UNCHANGED <<lists, proc, schedBytes, dtx, ulFailure, interrupt, disableHarq,
                 rx, aborted, phy, leaked, stopped>>

GfRelease(p) ==
  /\ Unlocked
  /\ gf' = gf \ {p}
  /\ UNCHANGED <<lists, proc, schedBytes, dtx, ulFailure, interrupt, disableHarq,
                 rx, aborted, phy, leaked, stopped>>

GfOccasion(p, tb, k) ==
  /\ Unlocked
  /\ p \in gf
  /\ Len(air) < MaxAir
  /\ k \in 0 .. Len(air)
  /\ air' = SubSeq(air, 1, k) \o <<[pid |-> p, kind |-> "gf", tb |-> tb]>>
              \o SubSeq(air, k + 1, Len(air))
  /\ UNCHANGED <<lists, proc, schedBytes, dtx, ulFailure, interrupt, disableHarq,
                 gf, rx, aborted, lost, leaked, stopped>>
----------------------------------------------------------------------------
Scheduler == PfUlRetransmission \/ \E tb \in TbSizes : PfUlNew(tb)
HarqLoop == HarqUnexpected \/ HarqMatched \/ HarqNoMatch
Reception ==
  \/ RxGrantFree
  \/ \E ok, bsr, lowCqi \in BOOLEAN : RxSdu(ok, bsr, lowCqi)
  \/ HarqLoop
Control ==
  \/ \E common \in BOOLEAN : ConfigureBwp(common)
  \/ \E reestablish, bsr \in BOOLEAN : RaWithCrnti(reestablish, bsr)
  \/ \E action \in {"OUTOFSYNC", "INSYNC_RECONFIG"} : InterruptUe(action)
  \/ MeasGap
  \/ InterruptExpires
GrantFree ==
  \/ \E p \in GfPids : GfConfigure(p) \/ GfRelease(p)
  \/ \E p \in GfPids, tb \in TbSizes, k \in 0 .. MaxAir : GfOccasion(p, tb, k)

Next == Scheduler \/ Reception \/ LoseReport \/ Control \/ GrantFree

Spec == Init /\ [][Next]_vars
----------------------------------------------------------------------------
(* Types of NR_UE_sched_ctrl_t's uplink fields; in particular rounds stay   *)
(* below harq_round_max and sched_ul_bytes never stays below zero.          *)
TypeOK ==
  /\ available \in Seq(Pid)
  /\ feedback \in Seq(Pid)
  /\ retrans \in Seq(Pid)
  /\ len \in {NrofHarq(TRUE), NrofHarq(FALSE)}
  /\ proc \in [Pid -> Process]
  /\ schedBytes \in Nat
  /\ dtx \in 0 .. DtxThreshold
  /\ ulFailure \in BOOLEAN
  /\ interrupt \in Interrupts
  /\ disableHarq \in BOOLEAN
  /\ gf \subseteq GfPids
  /\ rx \in [pid : Pid, kind : Kind, ok : BOOLEAN] \cup {NoRx}
  /\ aborted \in BOOLEAN
  /\ air \in Seq(Report)
  /\ lost \in Nat
  /\ leaked \in BOOLEAN
  /\ stopped \in BOOLEAN

(* Every process the lists were created for is in exactly one of the three  *)
(* lists, exactly once, through grants, flushes, resets and resizes.  The   *)
(* lists share no guard against this: add_tail_nr_list() links whatever id  *)
(* it is given, and a process linked twice would never leave the UE alone.  *)
ListsPartition ==
  /\ Once(available) /\ Once(feedback) /\ Once(retrans)
  /\ Elems(available) \cap Elems(feedback) = {}
  /\ Elems(available) \cap Elems(retrans) = {}
  /\ Elems(feedback) \cap Elems(retrans) = {}
  /\ Known = 0 .. len - 1

(* The state of a process agrees with the list it is in: the asserts of     *)
(* post_process_ulsch() and handle_nr_ul_harq() on is_waiting and round     *)
(* cannot fail, and a process chosen for a new block starts at round 0.     *)
ListsMatchProcesses ==
  /\ ListsPartition
  /\ \A p \in Pid : proc[p].waiting <=> p \in Elems(feedback)
  /\ \A p \in Pid \ (Elems(feedback) \cup Elems(retrans)) : proc[p].round = 0
  /\ \A p \in Elems(retrans) : proc[p].round > 0
  /\ disableHarq => feedback = <<>> /\ retrans = <<>> /\ rx = NoRx

(* The reports still to come for waiting processes arrive in the order of   *)
(* feedback_ul_harq.  This is why handle_nr_ul_harq() may take every        *)
(* process in front of the reported one for failed: unless a stale or       *)
(* grant-free report intervenes, none of them still has its own to come.    *)
Due == IF rx = NoRx THEN air ELSE <<rx>> \o air
IsOwn(r) == r.kind = "own"
ReportsInFeedbackOrder ==
  ~disableHarq =>
    /\ \A i \in 1 .. Len(Due) : IsOwn(Due[i]) => Due[i].pid \in Elems(feedback)
    /\ \A i, j \in 1 .. Len(Due) :
         i < j /\ IsOwn(Due[i]) /\ IsOwn(Due[j]) => Before(feedback, Due[i].pid, Due[j].pid)

(* sched_ul_bytes counts only blocks some process still holds: what it      *)
(* over-counts hides data of the UE from the scheduler.  Random access and  *)
(* foreign reports break this until the next BSR, nothing else does.        *)
Held == [p \in Pid |-> IF p \in Elems(feedback) \cup Elems(retrans) THEN proc[p].tb ELSE 0]
HeldBytes == SumFunction(Held)
BytesCovered == ~disableHarq /\ ~leaked => schedBytes <= HeldBytes

(* A UE the CU stopped (TransmissionActionIndicator) is not scheduled from  *)
(* then on: first because its interrupt runs, and once that has expired     *)
(* because it is in UL failure, with no slot in between, whatever           *)
(* measurement gaps, reconfigurations, reports and random access fall into  *)
(* the interrupt.  It is scheduled again only after one of the three events *)
(* that take a stop back: its random access once the interrupt is over, a   *)
(* reconfiguration that replaces the interrupt, and a gap begun in UL       *)
(* failure.                                                                 *)
StoppedIsSilent == stopped => ~Active

(* The lists implement stop-and-wait HARQ, process by process: a block is   *)
(* sent at most RoundMax times with one and the same indicator, the next    *)
(* block of the process has the other one, and a resend follows a failure.  *)
St == [p \in Pid |-> CASE p \in Elems(available) -> "idle"
                       [] p \in Elems(feedback)  -> "inflight"
                       [] p \in Elems(retrans)   -> "retx"
                       [] OTHER                  -> "none"]
Harq == INSTANCE HarqPromise WITH
          st <- St,
          ndi <- [p \in Pid |-> proc[p].ndi],
          round <- [p \in Pid |-> proc[p].round],
          harqOff <- IF disableHarq THEN Pid ELSE {}
StopAndWait == Harq!Spec

(* AssertFatal of create_ul_harq_list(): "cannot resize HARQ list to be     *)
(* smaller".                                                                *)
ListsNeverShrink == ~aborted
=============================================================================
