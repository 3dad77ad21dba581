# TLA+ models of the 5G NR MAC (gNB and UE, grant-free and grant-based)

This directory specifies and checks the parts of the two MAC layers in this
repository in which several actors share state over time: random access and the life of a
UE context, HARQ processes, the requests that uplink slots are planned with,
scheduling requests, and the grant-free tables. Paths
below are relative to `src/`; `gNB/` stands for `NR_MAC_gNB_MAX_GFS/` and `UE/`
for `NR_MAC_UE_40_GFS/`. The directories `*_GBS` hold the same code without the
grant-free hooks (plus a different grant-free prototype each), so what is said
of the shared files holds for them as well.

## 1. The system

### gNB

| Component | State it keeps | Operations | What makes it correct |
|---|---|---|---|
| Slot loop and request ring (`gNB_scheduler.c`, ring helpers in `gNB_scheduler_primitives.c`) | `UL_tti_req_ahead[]`: SFN, slot and PDUs of future uplink slots | once per slot under `sched_lock`: clear the previous entry, run all schedulers, copy the current entry to the PHY | a PDU filed for a slot is sent in that slot and in no other |
| Uplink HARQ (`gNB_scheduler_ulsch.c`) | `available/feedback/retrans_ul_harq`, `ul_harq_processes`, `sched_ul_bytes`, DTX count | grant new or again, report of the PHY (`nr_rx_sdu`), reset by random access, resize by reconfiguration | each process is in exactly one list and runs stop-and-wait; every block ends |
| Interrupts and UL failure (`gNB_scheduler_primitives.c`) | `transm_interrupt`, `interrupt_action`, `ul_failure` | F1 orders, measurement gaps, timers | a UE the CU stopped is granted nothing until something takes the stop back |
| Grant-free manager (`gNB_scheduler_gf.c`) | per-uid tables of configurations, slot bitmap, enable flag, process bitmap, HARQ state per configuration | configure, release, once per slot order receptions, process a reception | summaries match tables; receptions credit the right configuration |
| Random access (`gNB_scheduler_RA.c`) | `access_ue_list`, RA state, contention timer and rounds per UE | PRACH, Msg2, Msg3 (and again), Msg4 and its ACK, contention timer | each context ends connected or is released; contention has one winner; an accepted UE finds a place |
| Downlink HARQ, PUCCH, UCI (`gNB_scheduler_dlsch.c`, `gNB_scheduler_uci.c`) | `*_dl_harq` lists, `sched_pucch` | allocate, match ACKs by slot | an ACK reaches the process it is for |
| UE life cycle and F1AP (`mac_rrc_*.c`, `gNB_scheduler_primitives.c`) | `UE_info` lists, uids, the CU's id per RNTI, RLC entities per RNTI, UL failure and release timers | DL RRC message transfer (also with the context of a reestablishing UE), release command, UL failure, release complete | a uid has one owner, a connected UE is known to the CU, a release is answered |
| SRS, CSI, broadcast, PRB/CCE/beam maps, RRC configuration building | maps and precomputed payloads | per-slot filling | PRBs and CCEs are given once |

The threads of the gNB (slot loop, PHY indications, F1) exclude each other by
`sched_lock`; the interleaving that matters is that of whole handlers and of the
radio: reports come slots later, are lost, or concern a process that has been
reset meanwhile. `nr_mac_trigger_release_complete()` is the exception: it drops
the lock half way.

### UE

| Component | State | Operations | What makes it correct |
|---|---|---|---|
| Uplink path (`nr_ue_scheduler.c`, `nr_ue_procedures.c`) | `ul_config_request[]`: one list of PDUs and one mutex per slot of a frame | downlink thread files grants; uplink thread files PRACH, grant-free, SRS and PUCCH, fills PUSCHs with MAC PDUs and hands over; timers flush | what was promised for a slot is transmitted in it and in no other; data taken from RLC is transmitted; no lock is kept |
| Grant-free (`nr_ue_scheduler.c`, `config_ue.c`) | configurations, HARQ state, RV | occasions, MAC PDU, feedback handlers (no callers) | data given to an occasion is transmitted |
| Random access (`nr_ra_procedures.c`, `nr_ue_procedures.c`) | `ra_state`, response window, contention and backoff timers, counters, RNTIs | preamble, RAR, Msg3, contention resolution, resets by RRC | ends connected, with RRC told, or in a new attempt; a connected UE has an RNTI of its own |
| SR, BSR, PHR, LCP (`nr_ue_scheduler.c`, `nr_ue_procedures.c`) | `sr_info`, `LCID_buffer_remain`, BSR triggers and timers, PUCCH resources of the SR | read RLC's status, fill a PUSCH, send an SR or give up, update at the end of the slot | an SR is for data there is, a BSR answers for it, random access for lack of an answer comes after the last SR |
| Configuration, reset, power, sidelink, DCI parsing | | | |

### How they interact

gNB and UE meet only over the air: a PUSCH is granted by DCI or pre-configured
(grant-free), filed in the UE's list of a slot and in the gNB's ring entry of
the same slot, and its report comes back to `nr_rx_sdu()`. The report carries
the process id and nothing that tells a dynamic from a grant-free PUSCH: the
gNB's branch in `_nr_rx_sdu()` is decided by the tables of the grant-free
manager alone. Random access may reset the HARQ lists of a UE that is connected,
and F1 may reconfigure or remove it, at any time.

What is hard to test in this is listed under `hazards` in `PROJECT.json`, with the
properties that would show it going wrong. A hazard that every property excuses or
assumes away names none, and its note says why.

## 2. The modules

| Module | Models | Abstraction |
|---|---|---|
| `HarqPromise` | the promise of HARQ in either direction: stop-and-wait, process by process | abstract specification |
| `HarqLists` | the lists of process ids that both directions keep, as sequences | |
| `Lemmas_proofs` | lemmas that several proofs share: lists of process ids, remainders, sums over finite sets | |
| `GnbUlHarq` | uplink HARQ of one connected UE in the gNB | implements `HarqPromise` |
| `MCGnbUlHarq` | fairness and liveness for `GnbUlHarq` | |
| `GnbUlHarq_proofs` | theorems about `GnbUlHarq` | |
| `GnbDlHarq` | downlink HARQ, PUCCH structures and reports of one connected UE in the gNB | implements `HarqPromise` |
| `GnbDlHarq_proofs` | theorems about `GnbDlHarq`: lists and types; then the reports | |
| `UlCalendar` | the promise of the ring: what is filed d slots ahead is sent d slots later | abstract specification |
| `GnbUlRing` | the slot loop and `UL_tti_req_ahead` | implements `UlCalendar` |
| `GnbUlRing_proofs` | theorems about `GnbUlRing` | |
| `GnbGf` | the grant-free manager of the gNB and the uids around it | |
| `MCGnbGf` | requests and symmetry for `GnbGf` | |
| `GnbGf_proofs` | theorems about `GnbGf` | |
| `AccessParameters` | RNTIs, UEs and preambles | |
| `GnbAccess` | the gNB's UE contexts: random access, connected list, UL failure, F1AP. `GnbSpec` is the gNB alone with UEs and a CU that do anything | abstract specification of the composition |
| `UeAccess` | the UE's side of random access with its timers | |
| `RandomAccess` | both and the lossy radio link between them | implements `GnbSpec` |
| `MCRandomAccess` | the scenarios of the run | |
| `RandomAccess_proofs` | theorems about `GnbSpec` and about the composition | |
| `UeSr` | scheduling request, buffer status and RLC's data | operations, composed by `UeUlPath` |
| `UeUlPath` | the UE's uplink path with its two threads, and RLC's | |
| `UeUlPath_proofs` | theorems about `UeUlPath` | |
| `UeLcp` | logical channel prioritisation: what one PUSCH with new data carries | |
| `MCUeLcp` | three channels for `UeLcp` | |
| `UeLcp_proofs` | theorems about `UeLcp` | |

`map` in `PROJECT.json` names, definition by definition, the lines a definition
stands for.

### GnbUlHarq

One action per handler that changes the UE's uplink state. `PfUlNew` and
`PfUlRetransmission` are `pf_ul()` with `post_process_ulsch()`; which UE and how
many PRBs is left open. `RxSdu` is `_nr_rx_sdu()` up to the call of
`handle_nr_ul_harq()`; that function is a loop, and each of its iterations is a
step (`HarqUnexpected`, `HarqMatched`, `HarqNoMatch`) while `rx` holds the
report and keeps everything else out, as `sched_lock` does. `ConfigureBwp`,
`RaWithCrnti`, `InterruptUe`, `MeasGap` and `InterruptExpires` are the
disturbances. The PHY is `air`, the reports to come in slot order. A report is
"own" while its process waits for it, "stale" once the process left
`feedback_ul_harq` without it, "gf" for a grant-free PUSCH; `leaked` is a
history variable that says whether a handler other than a BSR has made
`sched_ul_bytes` count blocks nobody holds any more. `stopped` is one as well: the CU
stopped the UE (TransmissionActionIndicator), and none of the three events that take a
stop back has come: random access of the UE when the interrupt is over, a
reconfiguration that replaces the interrupt, and a measurement gap that begins in UL
failure. `StoppedIsSilent` relates it to what `nr_mac_ue_is_active()` looks at, the
interrupt timer and UL failure, which five handlers write.

### GnbDlHarq

`Slot` is what one run of the slot loop does for the UE: CSI takes a structure
of `sched_pucch` `max_fb_time` slots ahead, at most one PDSCH takes a process
and a bit of a PUCCH, and the PUCCH of the slot goes to the PHY. `Suitable` and
`Chosen` are the search in `nr_acknack_scheduling()`; who has the UE's PUCCH
resource in a slot is `taken`. The report is handled as in the uplink, one
step per iteration: `SkipMissed`, `Credit` and `Drop` are the outcomes of
`find_harq()`. The code knows the number of bits of a PUCCH only; here each bit
also carries, as history, the process it was scheduled for (`Stale` when that
process no longer waits), and `missed` holds the processes whose report was
lost. The properties compare this history with what the code does.

The UE has a dedicated PUCCH configuration. SR shares PUCCH structures too but
sets a flag only (its resource is entry 0 of the set, like that of the ACKs),
or takes a free structure in the very slot of its transmission; it is left out.
Growing lists are the same as in the uplink and left out as well.

### GnbUlRing

One action, `Slot`, is one run of `gNB_dlsch_ulsch_scheduler()`: operators from
a ring to a ring in the order of the calls (initialise, clear, PRACH, SRS, Msg3,
grant-free, PUSCH, PUCCH, copy). Slots are counted over `Frames *
SlotsPerFrame`; an entry keeps the slot it says it is for, of which
`clear_nr_nfapi_information()` rewrites the frame only, as in the code.

### GnbGf

`configs[u]` is the row of `ue_configs` with `num_configs_per_ue[u]` entries.
The two bitmaps are sets of their bits, `now` is the absolute slot. `due`
holds receptions ordered from the PHY and not reported. `RxDynamic` is the
report of a dynamic PUSCH that happens to carry a process id a configuration
names. No caller of the configure and release functions is in the repository
(README of the gNB, "API"); they may be called at any time, for a UE that
exists or for a uid that does not.

### UeUlPath

Actions are critical sections of the list mutexes. `pc` follows
`nr_ue_ul_scheduler()`: `start` (PRACH or grant-free), `srs`, `fill`, `pucch`,
`phy`, `end`. The downlink thread is `lead` slots ahead and files grants with
`lockGet_ul_config()`. `held` are mutexes that were locked and not unlocked.
Whether the two indications of one UE also exclude each other (`if_mutex`)
is decided by the caller outside the MAC; here they may interleave.
`promised`, `pulled`, `upset` and `sent` are history variables for the
properties.

### UeSr

The state of one logical channel and one SR, because the gNB maps all channels
to SR 0 and every BSR cancels it. `UeUlPath` calls its operations where
`nr_ue_ul_scheduler()` does: `ReadStatus` before the PUSCHs are filled,
`GetSdu` (with or without room for a BSR) or `GetGrantFree` when they are,
`SendSr` or `GiveUpSr` in the PUCCH scheduler, `UpdateSr` at the end of the slot.
RLC's threads are `Arrives` and `Withdraw` (data that waited for its retransmission
is acknowledged). Data changes before its status is read: `fill_mac_sdu()` asks RLC
for no more than `LCID_buffer_remain`, so what comes later waits for the next
reading. `withdrawn` and `asked` are history variables. The BSR timers are left out: `nr_update_bsr()`
triggers a regular BSR in every slot with data, so that they decide
only the size of a PDU.

### UeLcp

`nr_ue_get_sdu()`: `GetSdu` sets room aside for a BSR and a PHR, `Visit` is a channel in
the loop over `lcids_bj_pos`, `NoRoom`, `NoSdu` and `Sdu` are the outcomes of one
`fill_mac_sdu()`, `EndRound` is the test of the loop over the rounds, `Return` writes the
BSR and hands the PDU over. RLC gives any amount up to what it is asked for. Whether a
BSR or a PHR is due is open for every PDU, so that no timer is needed. `Bj` and
`LCID_buffer_remain` change between PDUs; channels are neither added nor released, and
a suspended one is as one with `Bj = 0`. The counters of a group of channels of equal
priority (`num`, `count`, `ep`, `tot`) are those of the code, and outlive their group as
they do there.

### GnbAccess, UeAccess, RandomAccess

A UE context of the gNB is a record with the fields of `NR_UE_info_t` and `NR_RA_t`
that decide what happens to it; its actions are the handlers, whole, because
`sched_lock` is held; `dl` and `releasing` are the two places where the lock is
dropped in the middle (`dl_rrc_message_transfer()` after its lookup,
`nr_mac_trigger_release_complete()` around the F1 message). What
`nr_release_ra_UE()` leaves behind for an RNTI is state of its own: the CU's
id (`f1`: its UE's own, or of a UE that is gone) and the RLC entity of SRB0
(`rlc`). `cu` is the CU's view and external.

`UeAccess` keeps the three timers of `RA_config_t`, which expire in any order
with the messages, the PUSCH grant that waits for its slot, and the PDU between the
DCI that announced it and its delivery (`rx`), because that is when timers and
resets interfere. A RAR with the UE's preamble has three outcomes (`RarOutcomes`): no valid
time allocation or slot for Msg3, after which the UE has no Temporary C-RNTI; a list
that is full or locked, after which it has one and nothing to send; or a grant. `cached`
is `Msg3_buffer`: a Msg3 that is there is sent again as it is, and the Temporary C-RNTI stays
that of the RAR. At the gNB a Msg3 with a C-RNTI MAC CE of 0 counts as CCCH
(`Msg3NoIdentity`): Msg4 is awaited, and the contention timer ends it. `dl.live` says
whether the context that `dl_rrc_message_transfer()` looked up is still the one it was.
`RandomAccess` joins both: a downlink message is sent and heard by any
subset of the UEs that monitor its RNTI; preambles, Msg3 and ACKs are on the
air until the gNB's PHY reports, and may be lost. Messages cost quota when they
are lost, as do resets and the other interruptions; the liveness properties need no
further assumption.

## 3. What the runs check

| Run | Instance | Shows |
|---|---|---|
| `gnb_ul_harq` | 2 processes, 1 in the common search space, one named by a grant-free configuration, 2 rounds, 3 reports on the air, two lost | list partition, agreement of lists and processes, order of reports, byte count, a stopped UE is granted nothing |
| `gnb_ul_harq_live` | 2 processes, one lost report, fairness | every block ends or the UE is declared failed; refinement of `HarqPromise` |
| `gnb_dl_harq` | 3 processes, one without feedback, 2 rounds, period of 4 slots (2 DL, 1 UL), frame of 8, 6 frames, 6 feedback times, one report on the air | ACKs reach their process, each waiting process has one bit to come in its slot, feedback order, CSI structures, lists, refinement of `HarqPromise` |
| `gnb_ul_harq_shrink` | 3 configured, 2 common | violated: see finding 1 |
| `gnb_gf` | 2 uids, 2 UEs, up to 2 configurations, 2 valid and 2 invalid requests, 1 occasion per slot | consistency of tables and summaries |
| `gnb_ul_ring` | frame of 4 slots, 2 frames, ring of 4, grants 1 and 2 slots ahead | refinement of `UlCalendar`, the assertions of Msg3, types |
| `gnb_ul_ring_gf` | frame of 2 slots, ring of 4 | violated: see finding 2 |
| `random_access` | 3 RNTIs, 2 preambles, 2 RA processes, 2 places, 2 rounds of Msg3 and Msg4, 2 preamble transmissions, the five scenarios of `MCQuotas`, fairness | contention has one winner, who has a C-RNTI; an accepted UE finds a place and is known to the CU; random access ends at both ends; releases are answered |
| `ue_ul_path` | frame of 4 slots with 2 uplink slots, 2 frames, lists of 3 PDUs, TA expiry, SR failure after 2 SRs, RA, grant-free, one byte in RLC | PDUs reach the PHY in their slot or were flushed; an SR is pending for data only, unless RLC dropped data by itself; SR failure means the last SR was sent and no BSR |
| `ue_lcp` | 3 channels, alone or in a pair of equal priority, in 2 groups, 4 sizes of PDU, 3 bytes per channel, fairness | requests to RLC fit; prioritised bit rates before the rest; urgent channels first; a PDU with waiting data is full; the BSR tells what is left; the rounds end |
| `ue_ul_gf` | the same as `ue_ul_path`, larger lists and nothing that fails | violated: see finding 3 |
| `ue_ul_lock` | fairness of both threads, TA expiry | violated: see finding 4 |

Why the bounds are enough. Two uplink processes, one of which exists only in
the larger configuration, give a head and a tail of each list, and lists that grow and are
reset, three downlink processes a middle as well; longer lists are the matter of the
theorems. Two rounds give a first, a
last and a repeated transmission; with up to three reports on the air of which two can be
lost, a report is stale or grant-free while others are pending, and a process is skipped. Two uids and
two configurations give a first and a second entry of a table, a shift, a
shared process id and a reuse of a uid. Frames of four slots and two frame
numbers make every ring entry be reused and the frame number wrap. In `gnb_dl_harq`
a frame has two uplink slots and there are six frame numbers, so that feedback
is compared within a frame, across frames and across the wrap, with half of the
frame numbers as boundary like 512 of 1024; six is the least even number for which
what is awaited and what is still to be reported lie within half a turn
(`FramesAssumption`), as they do with 1024; the ring of PUCCH structures has two
entries, both in use at a time. Lists of
three PDUs are full after three of the five kinds of PDU that may be filed.
The byte count, the numbers of lost reports and of reports on the air are
bounded by guards (`MaxBytes`, `MaxLost`, `MaxAir`), receptions of the grant-free
manager by `MaxDue`,
the downlink by `MaxTaken` (slots in which another user has the PUCCH resource),
`MaxAir`, `MaxMissed` (processes that wait in vain at a time), `MaxDelay` (of a
report) and `MaxOverdue` (of a process), the number of configurations by the state constraint
`MCFewConfigs`, the distance of the UE's threads by `MaxLead`.
In `random_access` a third RNTI is free to be drawn anew while two are in use,
two places make a gNB full with the second UE, and two rounds or transmissions
give a first and a last. The scenarios are two UEs in one PRACH occasion; one UE
with a loss, a time alignment expiry and a random access with its C-RNTI; resets at
any time with UL failure and release; reestablishment with them; and two
reestablishments, until the gNB is full. One UE at most is interrupted, so that the
instance stays small; what several UEs do to the gNB is the matter of the theorems
about `GnbSpec`. Preambles and RNTIs are interchangeable, and guards in
`PrachOccasion` and `Detected` take the lowest. In `ue_ul_path` one byte in RLC tells
an empty buffer from a full one; two SRs are a first and a last one.
In `ue_lcp` the channel that is alone comes before, after or in place of the pair; two
groups make a short, a long or a truncated long BSR (a truncated short one needs
three); sizes run from a PDU that holds a BSR and nothing else to one with room for the
headers of all channels; SDUs of 1 and of 2 bytes and `ShortLimit = 3` for 256 give
both subheaders (`Header(free)` is long when a short one would do); only the sign of
`Bj` decides anything, so that a bucket of one byte is enough.
`CounterMod = 2` lets `num_gf_ues` wrap as often as 256 would. RNTIs
are interchangeable, hence the symmetry of `gnb_gf`.

Deadlock checking is off where a bound (`MaxAir` with no report possible) or an
`AssertFatal` (`aborted`) stops a model, and in the UE runs where the lock of
finding 4 does.

Each property of a passing run has a mutant in `PROJECT.json`: an operator
defined beside the real one (marked "Mutant" in the modules) with a plausible
slip, under which the run finds the property violated.

### Fairness

`gnb_ul_harq_live` assumes that the slot loop runs for ever and grants a block
that can be granted infinitely often (strong fairness, because measurement gaps
leave slots without a chance in between), that the PHY reports every PUSCH whose
report it does not lose, that the loop in `handle_nr_ul_harq()` ends, and that
timers expire (weak fairness). Downlink processes are not part of it: one
whose report was lost waits for the next report of the UE, however late. Losses are bounded: if all
processes wait and all their reports are lost, nothing in the gNB ever flushes
the list, and the property fails; this is the code's behaviour, and only random
access of the UE gets it out of it.
`random_access` assumes that the slot loop of each UE and of the gNB goes on
(timers expire, what was announced is decoded, grants come to their slot), that
the PHY reports on every PUSCH and PUCCH it was told to expect and PRACH
occasions come round, that the CU answers what it is asked, and that a
handler takes its lock again. All are weak; nothing is assumed about losses.
`ue_ul_lock` assumes that both threads of the UE go on whenever they can, `ue_lcp` that
the thread that fills a PDU goes on with its loops.

## 4. What is proved

### Random access

`RandomAccess_proofs` proves about `GnbSpec`, for any sets of UEs, RNTIs and preambles
and any positive limits, that

| Theorem | Statement |
|---|---|
| `GnbInvariant` | `GnbSpec => []GnbInv` |
| `AcceptedUesFit` | `GnbSpec => []ConnectedFits` |
| `ConnectedUesAreKnown` | `GnbSpec => []KnownToCu` |
| `ContextsAreTyped` | `GnbSpec => []GnbTypeOK` |

and about the composition, for any set of quotas,

| Theorem | Statement |
|---|---|
| `CompositionRefinesGnb` | `Spec => GnbSpec` |
| `TypesOfBothEnds` | `Spec => []TypeOK` |
| `AcceptedUesAreConnected` | `Spec => []ConnectedFits` |
| `ConnectedUesKnownToCu` | `Spec => []KnownToCu` |
| `NoRntiOnlyWhenLate` | `Spec => NoRntiOnlyIfLate` |
| `ContentionHasOneWinner` | `Spec => OneWinner` |

`ConnectedFits` is not inductive: the test in `nr_rx_ra_sdu()` is on a uid, the list
is counted. `GnbInv` therefore says that uids of present contexts are distinct
(`UidsDistinct`) and that a context with a CellGroup has one below
`MAX_MOBILES_PER_GNB` (`UidsFit`); the connected contexts and the one accepted inject
into the uids, and lemma `UidsLeaveAPlace` counts them with the theorems on
cardinalities. A reestablishment moves uid and CellGroup from one context to another,
for which the call in progress must name two UEs (`CallInOrder`).
`KnownToCu` needs that a Msg4 that may be acknowledged carried the CU's
message (`AnsweredHaveIds`) and that a UE the CU thinks served has an id
(`ServedHaveIds`). Every action has a lemma of its own.

The refinement is an identity on the gNB's variables: under the types of the UEs, of
what is on the air and of the quotas, every step of `Next` is a step of `GnbNext` with
some value for what the air decided, or leaves `gnbVars` alone; the types are
inductive together with `GnbInv`. Properties of the gNB then need no second
proof.

The last two theorems take both ends. A UE decodes a Msg4 while its timers run, while RRC
may reset it and while the gNB may give its context up, and then compares the identity in it, but takes
whatever its Temporary C-RNTI is by then. `RaInv` says why that is right. While a Msg4 is
being decoded, its RNTI is the UE's Temporary C-RNTI, or the contention ended and there is
none (`Msg4Fits`): what could change it is a RAR, which is not heard, or a grant of Msg3,
and there is none left, because the gNB answers a Msg3 only after its last slot
(`GrantsUsedUp`) and a grant goes with its Temporary C-RNTI (`GrantsFit`). On the gNB's
side every step keeps the UE a context is for, or removes the context, unless no UE holds
anything of its RNTI (`Followed`, `Quiet`); lemma `InvKept` joins this with what a UE's
step may do (`UeKeeps`), and `ConnectsByMsg4` says that no other step connects a UE.
That an RNTI is not drawn again while a UE decodes a PDU sent with it is the guard of
`Detected`: the decoding is over in milliseconds.

### Uplink HARQ

`GnbUlHarq_proofs` proves for any number of processes,
rounds, block sizes, reports on the air and losses, from `GnbUlHarqAssumption` and
`GfPidsAssumption` (grant-free configurations of the UE name processes the UE has):

| Theorem | Statement |
|---|---|
| `HarqInvariant` | `Spec => []HarqInv` |
| `TypeCorrect` | `Spec => []TypeOK` |
| `ProcessesMatch` | `Spec => []ListsMatchProcesses` |
| `StoppedStaysSilent` | `Spec => []StoppedIsSilent` |
| `ReportsAlwaysInOrder` | `Spec => []ReportsInFeedbackOrder` |
| `GivenUpOnlyWhenLost` | `Spec => [][OnlyLostAreGivenUp]_vars` |
| `BytesAlwaysCovered` | `Spec => []BytesCovered` |
| `ImplementsHarqPromise` | `Spec => StopAndWait` |

`HarqInv` is `TypeOK` and `ListsMatchProcesses` (which contains `ListsPartition`): neither is
inductive alone, because a move from list to list keeps the partition only if the head
of one list is in no other, and keeps rounds in range only if a process in
`retrans_ul_harq` has failed before. The lemmas come in three layers: lists as sets
(`ElemsAppend`, `ElemsTail`, `ElemsConcat`, in `Lemmas_proofs`), what one move does to lists and
processes (`SendLists`, `ResendLists`, `FinishLists`, `FailLists`, `GrowLists`,
`ResetLists`), and one lemma per action. A resize is safe because `len` takes two
values only and the ids appended start where those of the lists end; a reset, because
the search space it returns to never asks for more processes than there are.
For the refinement, a step that moves one process is a step of the promise for that
process, by the list it leaves and the one it enters (`SendImplements`,
`DoneImplements`, `RetriedImplements`); `create_ul_harq_list()` enables what it
appends, and every other action leaves what the promise sees alone.

`handle_nr_ul_harq()` takes every process in front of the reported one for failed, and
`GivenUpOnlyWhenLost` says that it is right to: when the report is the process's own, no
process it gives up has a report of its own still to come. `ReportsInFeedbackOrder` is why, and
becomes inductive as `OrderInv`: the report in `rx` is at most one, its process is in
`feedback_ul_harq`, and the own reports on the air name processes of the list, each once,
in its order and behind that of `rx`, as long as HARQ is enabled. A grant puts process and report behind the
others at once (`GrantInOrder`, `BeforeAppend`); a process leaves from the head only, and if its own
report is still to come, that one is stale from then on (`PopInOrder`, `BeforeTail`); a report that
ends elsewhere keeps the places of the others, and a reset makes all that are on their way stale.

`BytesCovered` compares `sched_ul_bytes` with a sum over the processes. `BytesInv` is
what is inductive: a process's own report is about the block the process holds
(`OwnBlocks`), and `sched_ul_bytes` plus the decoded block that `handle_nr_ul_harq()` still
works on is at most the sum of the blocks held (`Covered`). `nr_rx_sdu()` subtracts that
block before the loop lets its process go, so the bound alone is lost halfway; and when
the report is foreign, after a BSR, the count is 0 for as long as the loop runs. It rests on
`OrderInv`, since a process the loop gives up must not owe a report of its own. Each
action changes one term of the sum at most (`HeldChanges`, `BytesKept`). What a sum is
when one term changes, and that a sum of naturals is one, are `SumChanges` and `SumOfNats` in
`Lemmas_proofs`: they unfold the library's fold into the recursive function on the
subsets that it is, show that this function exists (`SumsExist`), and go through the
subsets from a smallest counterexample, as no induction theorem can be cited.

`StoppedIsSilent` needs to know which interrupt runs: a gap's own would, when it expires,
clear the UL failure that keeps the UE silent. `StopInv` says that a stopped UE has either
the interrupt of its stop still running, or is in UL failure with no interrupt but a
reconfiguration's.

### Logical channel prioritisation

`UeLcp_proofs` proves for any finite set of channels with any priorities, rates and groups,
any sizes of PDU above 2 bytes, and whatever RLC gives, from `UeLcpAssumption` (a channel
without a rate has no bucket, as `get_lc_bucket_size()` computes it):

| Theorem | Statement |
|---|---|
| `RequestsAlwaysFit` | `Spec => []RequestFits` |
| `RatesAlwaysBeforeRest` | `Spec => []RateBeforeRest` |
| `PdusFullOrEmpty` | `Spec => []FullOrEmpty` |
| `MoreUrgentFirst` | `Spec => UrgentFirst` |
| `LcpTypeCorrect` | `Spec => []TypeOK` |
| `BsrAlwaysTells` | `Spec => []BsrTells` |

`RequestsAlwaysFit` is the `AssertFatal` of `get_num_bytes_to_reqlc()`, and that
`buflen_remain_ep - bytes_read_fromlc` does not wrap. The inductive invariant `LcpInv` has
a conjunct for each place of the loop (`BetweenPdus`, `BetweenVisits`, `InVisit`), and all
say `SharesFit`: while channels are served as a group and their share is not 0, `num`
shares with a long header each fit the room that is left, together with what the channel in
turn has taken of its own. `num` may be stale, too large after a member ran out of room,
but it is only set when it is 0 and only lowered, and the room shrinks by a share at most
whenever it is. `EqualShares` and `OneLess` are the arithmetic of the division.

The three properties of the order in which channels are served need to know what a
channel got, and why it was passed over. `RoundInv`, inductive together with `LcpInv`, says
for each place of the loop: that the channel in turn comes before those still to do
(`InOrder`) and that, above all groups, channels are served alone whatever the stale `num`
says (`NumVisit`, `NumFill`); that in the first round nobody has more than the rate, and a channel
without a peer has something or no data unless the room is gone (`FirstRound`, `Rates`);
that in later rounds a channel above all groups that still waits does so for lack of room
(`Later`); and that a channel which waits and counts as one without data had a share that
was rounded to 0 (`Rounded`). The assumption on buckets enters in `Rates`: a channel is
selected for `Bj > 0`, and would otherwise be served in the first round without a rate.

`BsrInv` adds what was set aside for the BSR. Its format is chosen twice, by the groups with
data before the SDUs and after them; the room is enough the second time because no group
gains data in between, so that the long BSR never grows (`GroupLosesBytes`,
`GroupsWithData`). The bytes of a group are a sum over its channels (`GroupBytes`, from
the lemmas on sums).

### Downlink HARQ

`GnbDlHarq_proofs` proves for any number of processes, with and without feedback,
rounds, TDD pattern, feedback times, minRXTXTIME, CSI period and bounds of the
environment, from `GnbDlHarqAssumption` (a frame is a number of periods with uplink
slots, CSI falls on uplink slots, `set_sched_pucch_list()` can reach the size it
needs):

| Theorem | Statement |
|---|---|
| `TypeCorrect` | `Spec => []TypeOK` |
| `ListsAndProcesses` | `Spec => []ListsMatchProcesses` |
| `ImplementsHarqPromise` | `Spec => StopAndWait` |

`DlInv`, both invariants together, is inductive. `TypeOK` holds more than types: that
`get_pucch_index()` stays inside `sched_pucch` for every slot, because the size is a
positive multiple of the uplink slots of a period, and that no structure gets more
ACK/NACKs than its PUCCH carries, because every bit passes the test of room. The size is a
least element, and so is the feedback time chosen; lemma `LeastFacts` has them exist
by the well-foundedness of `<` on the naturals. Moves from list to list (`MoveHead`, `RotateHead`) are the lemmas the uplink uses.
Processes without feedback go from the head of `available_dl_harq` to its tail and
nowhere else, which `ListsMatchProcesses` has to say.

The second half of the module proves what ties a report to its process, from
`FramesAssumption` in addition:

| Theorem | Statement |
|---|---|
| `FeedbackAlwaysInOrder` | `Spec => []FeedbackInOrder` |
| `CsiStructureAlwaysFree` | `Spec => []CsiStructureFree` |
| `AcksAlwaysOnTheWay` | `Spec => []AcksOnTheWay` |
| `BitsAlwaysReach` | `Spec => BitsReachTheirProcess` |

`FramesAssumption` has two parts. A turn of the frame numbers is a number of turns of
`sched_pucch`: its size is a power of two of TDD periods, and 1024 frames are a multiple
of every such number that the feedback times of a TDD pattern give. And what the gNB
waits for (`MaxOverdue` slots in the past, the feedback time in the future), with the
delay of the PHY (`MaxDelay`), is within half a turn, 512 frames: beyond that
`find_harq()` cannot tell past from future, and the properties fail. The first is arithmetic on the
configuration; the second is an assumption on the radio: a UE is not left without any
report for 5 seconds while it has a process waiting.

Slots are counted modulo the frame numbers, so that the proof first has to say what
earlier means: `Lead(now, at)` is by how many slots `at` is ahead, negative when it is
in the past, and loses one with each slot (`LeadNext`). Lemma `OneSlotPerStructure` says that
`get_pucch_index()` gives two uplink slots of the next `max_fb_time` two structures,
and `PastIsPast` that the comparison of frame and slot in `find_harq()` is that of leads.

None of the four properties is inductive. `OrderInv`, with `DlInv`, is: structures are
those of slots ahead, reports those of slots behind, a report being handled is older than
those on the air (`Window`); the processes of `feedback_dl_harq` stand in the order of
their slots (`QueueInOrder`); a bit of a process is in the PUCCH of the slot it waits for,
bits of one PUCCH are in the order of the list (`BitsSound`), a process that waits has one
or its report was lost (`BitsComplete`, `MissedGone`). The conjunct that makes the order
inductive is `FullBefore`: every PUCCH earlier than the one a process was given, and still
to be chosen, has no room. `nr_acknack_scheduling()` takes the first with room, and room never
comes back before the slot is over, so that the next process cannot be given an earlier
slot. Resets by random access and lost reports only take away (`ForgetOrder`,
`OthersOrder`). With that, a bit at the head of a report is that of the head of the list once
the processes whose report was lost are skipped (`SkippedIsMissed`, `CreditIsItsOwn`), and
none is dropped while its process waits (`NothingDropped`).

### Request ring

`GnbUlRing_proofs` proves for any frame length and number of frames, `Koffset`, k2s,
PRACH and SRS configuration, from `GnbUlRingAssumption` (the distances fit in the ring, the
frame number wraps at a turn of the ring):

| Theorem | Statement |
|---|---|
| `TypeCorrect` | `Spec => []TypeOK` |
| `Msg3FindsItsEntry` | `ASSUME GfEntryIsCurrent PROVE Spec => []Msg3EntryMatches` |
| `SlotsAreKept` | `ASSUME GfEntryIsCurrent PROVE Spec => KeepsCalendar` |

`GfEntryIsCurrent` says that there is no grant-free or that its constant
`NUMBER_OF_NR_UL_SLOTS_IN_FRAME` indexes the entry of the current slot. It holds
with 20 slots per frame and a ring of 20, and on the instance of `gnb_ul_ring`; what
happens without it is finding 2. Types need no such hypothesis.

The invariant `RingInv` says `InStep`: before slot `now` the entry of each of the last
and the next `RingSize - 1` slots is labelled with that slot; before the first slot no entry is
(`Fresh`). It is needed because nothing checks a label again: `InitialisedFacts`
shows that the test of entry 1 tells exactly the two cases apart, and `ClearedFacts` that
rewriting the frame number of one entry keeps its label right, because a turn of the ring
is a number of frames. What a scheduler does is then one notion, `Files(r, s, F)`: from
`r` to `s` every label is right and exactly `F` is added, each PDU in the entry of its
slot. `FileSome` and `FileGrants` prove it for each scheduler, `FilesBoth` composes
them in the order of the calls, and `SlotFiles` is the whole slot. `OneSlotLater` looks
at the ring from the next slot, which gives `InStep'` and the step of the calendar.
The facts on remainders (`ModUnique` to `ModTurn` in `Lemmas_proofs`) are proved from the definition of `%`,
and serve the downlink's slots too.

### Grant-free

`GnbGf_proofs` proves for every number of uids, UEs, processes, configurations
per UE, bitmap width, round limit and set of requests, from the assumption
`GnbGfAssumption` alone:

| Theorem | Statement |
|---|---|
| `TypeCorrect` | `Spec => []TypeOK` |
| `SlotsAlwaysExact` | `Spec => []SlotsExact` |
| `EnabledAlways` | `Spec => []EnabledWhileConfigured` |
| `PidBitmapAlwaysUsed` | `Spec => []PidBitmapUsed` |
| `SummaryAlwaysExact` | `Spec => []SummaryExact`, the three together |
| `ShadowedAlwaysIdle` | `Spec => []ShadowedStaysIdle` |

`TypeOK` is inductive and the base of the other proofs. `SlotsExact` is
inductive together with it: every action that changes the set of periods and
offsets in the tables ends in `UpdateSlotBitmap` over the new tables, and a
reception changes NDI and round only, which the summary does not depend on.
Lemma `ProcessRxFacts` says what a reception leaves alone and `SummaryKept` that
the summary then stays exact. `EnabledWhileConfigured` needs only that
`Released` computes the flag from the tables and that `Configure` sets it. For
`PidBitmapUsed` the case that matters is `ReleaseOne`: the bit of the removed
configuration is cleared, and every other marked process keeps its configuration,
moved one place down at most. `ShadowedStaysIdle` is inductive because
`ProcessRx` credits the first configuration that names the process, a new one
is appended with both counters at zero, and removing an entry keeps the order
of the others, so that a shadowed one was shadowed before.

### UE uplink path

`UeUlPath_proofs` proves for any frame, pattern of uplink and PRACH slots, k2s, capacity of
the lists, buffer size and number of SRs, from `UeUlPathAssumption`, `LeadAssumption`
and `UeSrAssumption`:

| Theorem | Statement |
|---|---|
| `PathInvariant` | `Spec => []PathInv` |
| `TypeCorrect` | `Spec => []TypeOK` |
| `PhyGetsWhatWasFiled` | `Spec => SentAsFiled` |
| `DataReachesPhy` | `Spec => []DataSentOrDropped` |
| `RequestsForData` | `Spec => []SrForData` |
| `AccessOnlyUnanswered` | `Spec => SrFailsUnanswered` |

`LeadAssumption` says that grants reach less than a frame beyond the slot of the uplink
thread: there is one list per slot of a frame. The gNB of this repository gives k2s
from `min_rxtxtime` to the uplink slots of a TDD period
(`gNB/nr_radio_config.c:1085` to 1150), and `Koffset` lengthens k2 and
`GET_DURATION_RX_TO_TX()` alike (`UE/mac_defs.h:871`). A list has room for two PDUs
(`MaxPdus > 1`): with one, the SRS that follows a grant-free PUSCH would fill it, the slot
would end without `nr_update_sr()`, and an SR could outlive its data.

`PathInv` has three parts. `ListInv`: a list is labelled with one of its slots and
so are its PDUs (`Filed`); what was promised for a slot is what its list holds, unless that
is full (`Counts`); and nothing is promised but for the slots from now to a frame ahead
(`Promises`). The last makes it inductive: two slots a frame apart share a list, and
only because one of them at most is still to come (`OneComing`, from `ModSame`) does
emptying a stale list take away nothing that was promised. Lists whose mutex is lost
(finding 4) are left out of it. `SlotInv` follows the uplink thread: from the filling to the
PHY the list is this slot's and its mutex free (`InSlot`), and the data taken from RLC in
this slot is in PUSCHs of the list, then of what the PHY got (`Carried`, counted by an
injection in `CarryMore`). `SrInv` and `Waits` say what an SR waits for: for data, or, in a
slot that took the last of it, for the end of that slot, which is reached because the list
holds no PUSCH and is not full when a
grant-free transmission took the data. `DlSlot`, the flushes, each
step of `nr_ue_ul_scheduler()` and the steps of RLC have a lemma each.

### What is not proved

Liveness under fairness (`BlocksFinish`, `PduEnds` and the like) and ENABLED are out of the
prover's reach and are checked by TLC on the instances. The violations of section 5 are
counterexamples, found by TLC. Every safety invariant, action property and refinement of a
passing run is a theorem.

## 5. Findings

1. `gnb_ul_harq_shrink`: with `nrofHARQ-ProcessesForPUSCH` n32 the lists are
   grown to 32 and the next return to the common search space stops the gNB by
   the assertion "cannot resize HARQ list to be smaller"
   (`gNB/gNB_scheduler_primitives.c:2715`).
2. `gnb_ul_ring_gf`: grant-free indexes the ring by a constant
   (`gNB/gNB_scheduler_gf.c:538`) and relabels the entry; the assertion of
   Msg3 on the label fails (`gNB/gNB_scheduler_RA.c:1139`).
3. `ue_ul_gf`: `release_ul_config(pdu, true)` removes the grant-free PUSCH it
   should hand over (`UE/nr_ue_scheduler.c:1064`).
4. `ue_ul_lock`: `return` inside the loop keeps the list's mutex
   (`UE/nr_ue_scheduler.c:2324`).

Behaviours the models show, and which their properties leave out or allow by name:

- A measurement gap that begins in UL failure ends it: `nr_measgap_scheduling()`
  (`gNB/gNB_scheduler_primitives.c:3483`) visits such UEs too, and the interrupt it starts
  expires into `nr_mac_reset_ul_failure()` (3684), also for a UE the CU has stopped
  (`MeasGap`, `StoppedIsSilent`).
- A UE can wait for a RAR with no timer running (`Stuck` in `UeAccess`): the
  response window is stopped by its RAR before the grant of Msg3 is filed
  (`UE/nr_ue_procedures.c:4245`), and then the grant finds no slot, a full list (with its
  Temporary C-RNTI set), or a flush; or the RAR of another UE suspends the window, as
  `nr_timer_suspension()` is called to resume what nobody suspended (4282).
- A UE connects with C-RNTI 0 when the contention timer expired while its Msg4
  was being decoded (`UE/nr_ra_procedures.c:1204`, `NoRntiOnlyIfLate`); the backoff it
  started goes on in the connected state.
- A random access with the C-RNTI does not end at the UE: no DCI with it
  resolves the contention, and the timer starts another attempt.
- `msg3_C_RNTI` survives the resets of T300 and of reestablishment during random
  access, because `reset_ra()` clears `RA_active` before `reset_mac_inst()` tests it
  (`UE/main_ue_nr.c:208`).
- At the gNB, a UE of the access list stays for ever after the contention timer
  asked the CU for its release, if the CU's id stored for the RNTI is of an
  earlier UE, or if the CU answers with an RRC release, whose timer ticks in the
  connected list only (`AccessEnds`, `ReleaseAnswered`). The first is because
  `nr_release_ra_UE()` removes neither the F1 data nor the SRB0 of the RNTI; the latter
  makes the next `nr_rlc_activate_srb0()` fail, and the CU does not hear of the
  UE.
- `dl_rrc_message_transfer()` goes on with a UE that may have been deleted since its
  lookup, and stops the gNB when the old UE of a reestablishment has (`Aborted`).
- When RLC drops the last of its data by itself, `nr_update_rlc_buffers_status()` does
  not note the empty buffer (`UE/nr_ue_scheduler.c:2199`): `LCID_buffer_remain` stays,
  and `nr_update_sr()` sees data and SRs are sent for none until RLC has data
  again (`SrForData`, `withdrawn`).
- The gNB gives all data bearers one priority (13), so that shares of equal size are
  the normal case of prioritisation. A channel of a group that runs out of data leaves
  `num_lcids_same_priority` as it was, and a channel of lower priority takes part in the
  division (`UE/nr_ue_scheduler.c:3746`); when the share of a group is 0 bytes its
  channels count as without data and the rest is padding (`FullOrEmpty` allows it).
- A channel with `Bj <= 0` gets nothing, however much of the PDU is free.
- `min(Bj, bucketSize)` compares as unsigned, and a negative `Bj` becomes a full bucket
  (`UE/nr_ue_scheduler.c:2411`).
- After a time alignment expiry the SR resources are gone, and `nr_update_sr()`
  returns before it could start random access (`UE/nr_ue_scheduler.c:2162`): a UE with
  data is silent until the gNB schedules or reconfigures it.

Seen while reading and not the subject of a run:
the prioritised bit rate, in bytes per second, is the bytes a channel may have of each
PDU, and `bucket_size` is 1000 times too large (`UE/config_ue.c:861`); the bytes of a
channel without a group are added behind the array (`UE/nr_ue_scheduler.c:3640`);
`nr_ue_gf_build_mac_pdu()` returns the flag `valid` instead of the number of bytes;
BSR timers that expire in a slot without PUSCH are forgotten at its end; random access resets the
downlink processes and leaves their PUCCHs scheduled (`gNB/gNB_scheduler_ulsch.c:905`),
so that the ACK of a dropped block may be credited to a new process with a bit in
the same PUCCH (`BitsReachTheirProcess` leaves such reports out); at a distance of
exactly 512 frames `find_harq()` matches any slot; ACK bits beyond the eighth of a
PUCCH are always read as NACK (`gNB/gNB_scheduler_uci.c:1005` shifts a byte by the
number of the bit); the ring is too short for
some `Koffset` (with 20 slots per frame for 1..6, 21..26, 61..66, 141..146,
301..306 and 621..626: PRACH and SRS are filed up to `19 + Koffset` slots ahead,
the size is computed from `13 + Koffset`); `gf_harq_process_bitmap` is one
bitmap for processes of all UEs, so that a bit may be clear while a process is
used; `num_gf_ues` counts wrongly after single releases and wraps; a uid's
configurations survive its UE; decoded grant-free data is not passed on
(`gNB/gNB_scheduler_gf.c:652`); `allocate_ul_retransmission()` lowers a pointer
instead of the number of free PRBs (`gNB/gNB_scheduler_ulsch.c:1963`);
`remove_ul_config_last_item()` lowers a pointer (`UE/nr_ue_scheduler.c:298`);
the frame of an aperiodic SRS has the wrong precedence
(`UE/nr_ue_scheduler.c:1940`); each successful random access adds a grant-free
configuration (`UE/nr_ra_procedures.c:1176`).

## 6. What is not modelled

Numerical code (power, MCS, CSI, TPC), ASN.1 building and parsing, broadcast,
sidelink, phy-test mode, and statistics are left out: stateless, or with
properties a unit test reaches. They are the larger part of the repository, with
the `*_GBS` directories, which repeat the files the models are translated from.
In the components that are modelled in part, these are left open: contention-free and two-step random access;
preamble groups and power ramping; triggers of the PHR, the quantisation of buffer sizes, suspended and released logical
channels; PRB, CCE and beam choice; F1 setup, context setup and modification, which
reach the models as reconfigurations at any time; the UE's grant-free HARQ state and
its feedback handlers, which have no callers; downlink DCIs and feedback at the UE.

## 7. Plan

1. UE side of grant-free with its tables, and gNB and UE grant-free composed:
   NDI and rounds of both ends, delivery.
2. Downlink of the UE: DCI, HARQ and the feedback it files, composed with
   `GnbDlHarq`.
3. The ring with `Koffset` and MsgA; PRB allocation and `NR_list_t` as algorithms.
4. Two-step random access; context setup and modification over F1.
5. Proofs: the lists and tables of the components of 1 to 3, once they are modelled; the
   refinements their composition gives.
