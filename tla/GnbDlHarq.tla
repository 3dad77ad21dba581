----------------------------- MODULE GnbDlHarq -----------------------------
(***************************************************************************)
(* Downlink HARQ of one connected UE in the gNB MAC: PDSCHs are sent, the  *)
(* ACK/NACK of each is given a bit of a PUCCH some slots later, and the    *)
(* PHY reports the bits of a PUCCH.  A report says for which slot it is    *)
(* and nothing of processes: find_harq() takes the head of                 *)
(* feedback_dl_harq and compares the slots.                                *)
(*                                                                         *)
(* All handlers run under sched_lock.  One run of the slot loop is one     *)
(* action; the loop over the bits of a report is one step per iteration,   *)
(* while "rx" holds the report and keeps everything else out.              *)
(***************************************************************************)
EXTENDS Integers, Sequences, FiniteSets, HarqLists

CONSTANTS
  NrofHarq,       \* nrofHARQ-ProcessesForPDSCH
  NoFeedback,     \* downlinkHARQ-FeedbackDisabled
  RoundMax,       \* dl_bler.harq_round_max
  SlotsPerFrame,  \* numb_slots_frame
  Frames,         \* MAX_FRAME_NUMBER
  PeriodSlots,    \* numb_slots_period, of the TDD pattern
  DlSlots,        \* is_dl_slot(), in a period
  UlSlots,        \* is_ul_slot(), in a period
  FbTimes,        \* number of feedback times: 8
  MinFb,          \* minRXTXTIME
  CsiPeriod,      \* period and offset of the CSI reports, in slots
  CsiOffset,
  CsiAcks,        \* ACK/NACKs that fit beside a CSI report
  MaxTaken,       \* bound: slots whose PUCCH resource another user has
  MaxAir,         \* bound: PUCCHs with ACK/NACKs and not yet reported
  MaxMissed,      \* bound: processes that wait for a report the PHY lost
  MaxDelay,       \* bound: slots from a PUCCH until its report
  MaxOverdue      \* bound: slots a process waits beyond its feedback slot

Pid == 0 .. NrofHarq - 1
Cycle == Frames * SlotsPerFrame
FrameOf(at) == at \div SlotsPerFrame
IsUl(at) == at % PeriodSlots \in UlSlots
After(at, n) == (at + n) % Cycle
Distance(from, to) == (to - from + Cycle) % Cycle
Least(S) == CHOOSE x \in S : \A y \in S : x <= y

VARIABLES
  now,         \* the slot the slot loop runs next
  common,      \* the DCI format of the search space: 1_0 (common) or 1_1
  available, feedback, retrans,    \* lists of process ids
  proc,        \* harq_processes: ndi, round, is_waiting, feedback slot
  pucch,       \* sched_pucch
  taken,       \* slots in which the UE's PUCCH resource is not free
  rx,          \* the report whose bits are being handled, or NoRx
  air,         \* PHY: reports to come, in the order of their slots
  missed       \* history: waiting processes whose bit will not come

lists == <<available, feedback, retrans, proc>>
radio == <<taken, air>>
vars == <<now, common, lists, pucch, radio, rx, missed>>

\* A structure of sched_pucch and a report hold the bits for ACK/NACKs (dai_c
\* of them); what each bit stands for is history: the process that waits for
\* it, or Stale when it does so no longer.
Stale == -1
Off == [at |-> -1, csi |-> FALSE, bits |-> <<>>]
NoRx == [at |-> -1, bits |-> <<>>]

----------------------------------------------------------------------------
(* Feedback times and the structures of sched_pucch.                        *)

\* get_pdsch_to_harq_feedback() and set_dl_DataToUL_ACK()
FeedbackTime(i) == IF common THEN i ELSE i + MinFb - 1

\* Mutant: the default of DCI format 1_0 only.
MaxFbDefault == FbTimes

\* set_max_fb_time(), with the dedicated configuration
MaxFb == FbTimes + MinFb - 1

ASSUME GnbDlHarqAssumption ==
  /\ {NrofHarq, RoundMax, SlotsPerFrame, Frames, PeriodSlots, FbTimes, MinFb}
        \subseteq Nat \ {0}
  /\ SlotsPerFrame % PeriodSlots = 0
  /\ MaxFb \div PeriodSlots < 64
  /\ CsiPeriod \in Nat \ {0} /\ Cycle % CsiPeriod = 0
  /\ \A at \in 0 .. Cycle - 1 : at % CsiPeriod = CsiOffset => IsUl(at)
  /\ DlSlots \cup UlSlots \subseteq 0 .. PeriodSlots - 1
  /\ UlSlots # {}
  /\ NoFeedback \subseteq Pid
  /\ {CsiAcks, MaxTaken, MaxAir, MaxMissed,
       MaxDelay, MaxOverdue} \subseteq Nat

\* Mutant: the period under way is not counted.
PucchSizeShort ==
  Cardinality(UlSlots) *
    Least({n \in {1, 2, 4, 8, 16, 32, 64} : n >= MaxFb \div PeriodSlots})

\* set_sched_pucch_list(): a power of two of periods
PucchSize ==
  Cardinality(UlSlots) *
    Least({n \in {1, 2, 4, 8, 16, 32, 64} : n >= MaxFb \div PeriodSlots + 1})

\* get_pucch_index(): the uplink slots of the periods before and of this one
Index(at) ==
  ((at \div PeriodSlots) * Cardinality(UlSlots)
     + Cardinality({s \in UlSlots : s <= at % PeriodSlots}) - 1) % PucchSize

\* A turn of the frame numbers, 1024 frames, is a number of turns of sched_pucch.
\* What the gNB waits for and what the PHY may still report are less than half of
\* it apart, so that find_harq() can tell past from future.
ASSUME FramesAssumption ==
  /\ ((Cycle \div PeriodSlots) * Cardinality(UlSlots)) % PucchSize = 0
  /\ MaxDelay # 0
  /\ MaxOverdue + MaxDelay + MaxFb < Cycle \div 2
  /\ MaxFb + MaxDelay <= SlotsPerFrame * ((Frames - 1) \div 2)
  /\ MaxOverdue <= SlotsPerFrame * ((Frames - 1) \div 2)

Init ==
  /\ now = 0
  /\ common \in BOOLEAN
  /\ available = [i \in 1 .. NrofHarq |-> i - 1]
  /\ feedback = <<>> /\ retrans = <<>>
  /\ proc = [p \in Pid |-> [ndi |-> 0, round |-> 0, waiting |-> FALSE, fb |-> -1]]
  /\ pucch = [i \in 0 .. PucchSize - 1 |-> Off]
  /\ taken = {}
  /\ rx = NoRx
  /\ air = <<>>
  /\ missed = {}

Without(bits, ps) == [i \in DOMAIN bits |-> IF bits[i] \in ps THEN Stale ELSE bits[i]]
ForgetIn(pu, ps) == [i \in DOMAIN pu |-> [pu[i] EXCEPT !.bits = Without(@, ps)]]
ForgetAir(ps) == [i \in DOMAIN air |-> [air[i] EXCEPT !.bits = Without(@, ps)]]

----------------------------------------------------------------------------
(* One slot: CSI, PDSCH, PUCCH, in the order of gNB_dlsch_ulsch_scheduler().*)

\* nr_csi_meas_reporting(): max_fb_time slots ahead
CsiDue(at) == After(at, MaxFb) % CsiPeriod = CsiOffset
WithCsi(pu) ==
  LET at == After(now, MaxFb)
  IN  [pu EXCEPT ![Index(at)] = [at |-> at, csi |-> TRUE, bits |-> <<>>]]

\* Mutant: a short PUCCH takes one ACK/NACK more.
HasRoomForThree(pu, at) ==
  LET c == pu[Index(at)] IN
    IF c = Off THEN at \notin taken
               ELSE c.at = at /\ Len(c.bits) < IF c.csi THEN CsiAcks ELSE 3

HasRoom(pu, at) ==
  LET c == pu[Index(at)] IN
    IF c = Off THEN at \notin taken
               ELSE c.at = at /\ Len(c.bits) < IF c.csi THEN CsiAcks ELSE 2

Candidates == {i \in 1 .. FbTimes : /\ FeedbackTime(i) >= MinFb
                                    /\ IsUl(After(now, FeedbackTime(i)))}
Suitable(pu) == {i \in Candidates : HasRoom(pu, After(now, FeedbackTime(i)))}

\* Mutant: the last suitable time is taken.
ChosenLast(pu) == CHOOSE i \in Suitable(pu) : \A j \in Suitable(pu) : j <= i

Chosen(pu) == Least(Suitable(pu))

\* nr_acknack_scheduling(): the first time with room; a structure met before it
\* that is in use for another slot is cleared.
Tried(pu) == IF Suitable(pu) = {} THEN Candidates
                                  ELSE {i \in Candidates : i < Chosen(pu)}
Skipped(pu) ==
  LET clash == {Index(After(now, FeedbackTime(i))) : i \in
                  {j \in Tried(pu) : LET at == After(now, FeedbackTime(j))
                                     IN  pu[Index(at)].at \notin {-1, at}}}
  IN  [i \in DOMAIN pu |-> IF i \in clash THEN Off ELSE pu[i]]
AckNack(pu, p) ==
  LET at == After(now, FeedbackTime(Chosen(pu)))
  IN  [Skipped(pu) EXCEPT ![Index(at)] =
         [at |-> at, csi |-> @.csi, bits |-> Append(@.bits, p)]]

\* schedule_pucch_core() in the slot of the PUCCH: the PHY gets it
Handover(pu) ==
  LET c == pu[Index(now)] IN
    /\ pucch' = IF IsUl(now) THEN [pu EXCEPT ![Index(now)] = Off] ELSE pu
    /\ IF IsUl(now) /\ c.at = now /\ c.bits # <<>>
         THEN /\ Len(air) < MaxAir
              /\ air' = Append(air, [at |-> now, bits |-> c.bits])
         ELSE UNCHANGED air

\* With no process, no room in a PUCCH, no data, no CCE or an inactive UE, nothing
\* is sent; only a search for room that fails touches the structures.
NoPdsch(pu) ==
  /\ \E searched \in BOOLEAN :
       /\ searched => /\ now % PeriodSlots \in DlSlots
                      /\ retrans # <<>> \/ available # <<>>
                      /\ Suitable(pu) = {}
       /\ Handover(IF searched THEN Skipped(pu) ELSE pu)
  /\ UNCHANGED lists

Sent(p, pu) ==
  [proc EXCEPT ![p].waiting = TRUE,
               ![p].fb = After(now, FeedbackTime(Chosen(pu)))]

FinishedAtOnce(p) == [proc EXCEPT ![p].ndi = 1 - @, ![p].round = 0]

\* pf_dl(): a process to send again comes first; nr_schedule_ue_spec() moves it.
Pdsch(pu) ==
  /\ now % PeriodSlots \in DlSlots
  /\ retrans # <<>> \/ available # <<>>
  /\ LET p == Head(IF retrans # <<>> THEN retrans ELSE available) IN
       /\ retrans' = IF retrans # <<>> THEN Tail(retrans) ELSE retrans
       /\ LET rest == IF retrans # <<>> THEN available ELSE Tail(available) IN
            IF p \in NoFeedback
              THEN /\ available' = Append(rest, p)
                   /\ proc' = FinishedAtOnce(p)
                   /\ Handover(pu)
                   /\ UNCHANGED feedback
              ELSE /\ Suitable(pu) # {}
                   /\ available' = rest
                   /\ feedback' = Append(feedback, p)
                   /\ proc' = Sent(p, pu)
                   /\ Handover(AckNack(pu, p))

Slot(csi) ==
  /\ rx = NoRx
  /\ csi => CsiDue(now)
  /\ \A r \in Elems(air) : Distance(r.at, now) < MaxDelay
  /\ \A p \in Elems(feedback) : Distance(proc[p].fb, now) \notin MaxOverdue .. Cycle \div 2
  /\ LET pu == IF csi THEN WithCsi(pucch) ELSE pucch
     IN  NoPdsch(pu) \/ Pdsch(pu)
  /\ now' = After(now, 1)
  /\ taken' = taken \ {now}
  /\ UNCHANGED <<common, rx, missed>>

----------------------------------------------------------------------------
(* The report of a PUCCH, bit by bit: handle_nr_uci_pucch_0_1(), _2_3_4().  *)

UciIndication ==
  /\ rx = NoRx /\ air # <<>>
  /\ rx' = Head(air) /\ air' = Tail(air)
  /\ UNCHANGED <<now, common, lists, pucch, taken, missed>>

\* Mutant: the frames alone are compared.
PastByFrame(fb, at) ==
  (FrameOf(fb) - FrameOf(at) + Frames) % Frames > Frames \div 2

\* find_harq(): half the frame numbers are in the past.  What it takes for the
\* future is the same the other way round.
Past(fb, at) ==
  \/ (FrameOf(fb) - FrameOf(at) + Frames) % Frames > Frames \div 2
  \/ FrameOf(fb) = FrameOf(at) /\ fb < at

Awaited == proc[Head(feedback)].fb

\* Mutant: the indicator is toggled for a success only.
HandledSameNdi(p, success, done) ==
  [ndi |-> IF success THEN 1 - proc[p].ndi ELSE proc[p].ndi,
   round |-> IF done THEN 0 ELSE proc[p].round + 1,
   waiting |-> FALSE, fb |-> -1]

\* finish_nr_dl_harq() of a success or after the last round, or a round more
Handled(p, success, done) ==
  [ndi |-> IF done THEN 1 - proc[p].ndi ELSE proc[p].ndi,
   round |-> IF done THEN 0 ELSE proc[p].round + 1,
   waiting |-> FALSE, fb |-> -1]

\* handle_dl_harq() for the head of the list
Handle(success) ==
  LET p == Head(feedback)
      done == success \/ proc[p].round >= RoundMax - 1
  IN  /\ feedback' = Tail(feedback)
      /\ available' = IF done THEN Append(available, p) ELSE available
      /\ retrans' = IF done THEN retrans ELSE Append(retrans, p)
      /\ proc' = [proc EXCEPT ![p] = Handled(p, success, done)]

Rest(bits, ps) == IF bits = <<>> THEN NoRx ELSE [rx EXCEPT !.bits = Without(bits, ps)]

\* find_harq(): a feedback that was missed counts as a NACK.
SkipMissed ==
  /\ rx # NoRx /\ feedback # <<>> /\ Past(Awaited, rx.at)
  /\ Handle(FALSE)
  /\ LET ps == {Head(feedback)} IN
       /\ rx' = Rest(rx.bits, ps)
       /\ pucch' = ForgetIn(pucch, ps) /\ air' = ForgetAir(ps)
       /\ missed' = missed \ ps
  /\ UNCHANGED <<now, common, taken>>

\* The bit, or a NACK when it was received without confidence, is for the head.
Credit(success) ==
  /\ rx # NoRx /\ feedback # <<>>
  /\ ~Past(Awaited, rx.at) /\ ~Past(rx.at, Awaited)
  /\ Handle(success)
  /\ LET ps == {Head(feedback)} IN
       /\ rx' = Rest(Tail(rx.bits), ps)
       /\ pucch' = ForgetIn(pucch, ps) /\ air' = ForgetAir(ps)
       /\ missed' = missed \ ps
  /\ UNCHANGED <<now, common, taken>>

\* find_harq() finds nothing: the rest of the report is not used.
Drop ==
  /\ rx # NoRx
  /\ feedback # <<>> => ~Past(Awaited, rx.at) /\ Past(rx.at, Awaited)
  /\ rx' = NoRx
  /\ missed' = missed \cup (Elems(rx.bits) \ {Stale})
  /\ UNCHANGED <<now, common, lists, pucch, radio>>

----------------------------------------------------------------------------
(* Disturbances.                                                            *)

LoseReport ==
  /\ air # <<>>
  /\ air' = Tail(air)
  /\ missed' = missed \cup (Elems(Head(air).bits) \ {Stale})
  /\ Cardinality(missed') <= MaxMissed
  /\ UNCHANGED <<now, common, lists, pucch, taken, rx>>

\* test_pucch0_vrb_occupation(): another user took the PRBs of the UE's PUCCH.
Take(at) ==
  /\ rx = NoRx
  /\ Cardinality(taken) < MaxTaken
  /\ IsUl(at) /\ at \notin taken
  /\ pucch[Index(at)].at # at
  /\ taken' = taken \cup {at}
  /\ UNCHANGED <<now, common, lists, pucch, air, rx, missed>>

\* configure_UE_BWP() with a common or a dedicated search space
ConfigureBwp ==
  /\ rx = NoRx
  /\ common' = ~common
  /\ UNCHANGED <<now, lists, pucch, radio, rx, missed>>

\* Mutant: reset_dl_harq_list() forgets the rounds.
ResetKeepingRound(p) == [proc[p] EXCEPT !.waiting = FALSE, !.fb = -1]

ResetProcess(p) == [proc[p] EXCEPT !.waiting = FALSE, !.fb = -1, !.round = 0]

\* reset_dl_harq_list() in nr_rx_ra_sdu(), Msg3 with the C-RNTI of the UE; the
\* PUCCHs that are scheduled stay.
RaWithCrnti(reestablish) ==
  /\ rx = NoRx
  /\ available' = available \o feedback \o retrans
  /\ feedback' = <<>> /\ retrans' = <<>>
  /\ proc' = [p \in Pid |-> ResetProcess(p)]
  /\ common' = (common \/ ~reestablish)
  /\ pucch' = ForgetIn(pucch, Pid) /\ air' = ForgetAir(Pid)
  /\ missed' = {}
  /\ UNCHANGED <<now, taken, rx>>

Next ==
  \/ \E csi \in BOOLEAN : Slot(csi)
  \/ UciIndication
  \/ SkipMissed
  \/ \E success \in BOOLEAN : Credit(success)
  \/ Drop
  \/ LoseReport
  \/ \E n \in 0 .. MaxFb : Take(After(now, n))
  \/ ConfigureBwp
  \/ \E reestablish \in BOOLEAN : RaWithCrnti(reestablish)

Spec == Init /\ [][Next]_vars

----------------------------------------------------------------------------
(* Properties.                                                              *)

Own(bits) == Elems(bits) \ {Stale}

\* The bits to come: slot, place in the report, process
Bits(rs) == UNION {{<<rs[i].at, j, rs[i].bits[j]>> : j \in DOMAIN rs[i].bits} :
                   i \in DOMAIN rs}
ToCome == Bits(<<rx>>) \cup Bits(air) \cup Bits(pucch)

(* Types and sizes: a PUCCH carries two ACK/NACKs or, beside CSI, as many   *)
(* as the configured resource allows (nr_acknack_scheduling).              *)
Process == [ndi : {0, 1}, round : 0 .. RoundMax - 1, waiting : BOOLEAN,
            fb : -1 .. Cycle - 1]
Marks == Seq(Pid \cup {Stale})
Structure == {c \in [at : -1 .. Cycle - 1, csi : BOOLEAN, bits : Marks] :
                Len(c.bits) <= IF c.csi THEN CsiAcks ELSE 2}
Report == [at : 0 .. Cycle - 1, bits : Marks \ {<<>>}]

TypeOK ==
  /\ now \in 0 .. Cycle - 1
  /\ common \in BOOLEAN
  /\ available \in Seq(Pid) /\ feedback \in Seq(Pid) /\ retrans \in Seq(Pid)
  /\ proc \in [Pid -> Process]
  /\ pucch \in [0 .. PucchSize - 1 -> Structure]
  /\ taken \subseteq 0 .. Cycle - 1
  /\ air \in Seq(Report)
  /\ rx \in Report \cup {NoRx}
  /\ missed \subseteq Pid

(* The three lists partition the processes and say what harq_processes     *)
(* says: nr_schedule_ue_spec() decides by the round from which list it     *)
(* removes a process, the lists are moved by other functions.  A process   *)
(* without feedback never leaves the list it is taken from.                *)
ListsMatchProcesses ==
  /\ Once(available) /\ Once(feedback) /\ Once(retrans)
  /\ Elems(available) \cap Elems(feedback) = {}
  /\ Elems(available) \cap Elems(retrans) = {}
  /\ Elems(feedback) \cap Elems(retrans) = {}
  /\ Elems(available) \cup Elems(feedback) \cup Elems(retrans) = Pid
  /\ NoFeedback \subseteq Elems(available)
  /\ \A p \in Pid :
       /\ proc[p].waiting <=> p \in Elems(feedback)
       /\ p \in Elems(available) => proc[p].round = 0
       /\ p \in Elems(retrans) => proc[p].round > 0

(* A process that waits has exactly one bit scheduled in a PUCCH or        *)
(* reported, for the very slot it expects, unless that report was lost:    *)
(* no structure of sched_pucch is reused for another slot before its time. *)
AcksOnTheWay ==
  LET toCome == ToCome IN
    \A p \in Elems(feedback) \ missed :
      \E b \in toCome : /\ {c \in toCome : c[3] = p} = {b}
                       /\ b[1] = proc[p].fb

(* find_harq() looks at the head of feedback_dl_harq only: the processes   *)
(* stand there in the order of their feedback slots, whatever the format   *)
(* of the DCI and the PUCCHs that were full or taken.                      *)
FeedbackInOrder ==
  \A i, j \in 1 .. Len(feedback) :
    i < j => Distance(proc[feedback[i]].fb, proc[feedback[j]].fb) < Cycle \div 2

(* An ACK/NACK changes the process it was scheduled for: a report takes a  *)
(* process out of feedback_dl_harq only by its own bit or after its report *)
(* was lost, and none of its bits is thrown away.  A report with bits from *)
(* before a reset (RaWithCrnti) is outside this.                           *)
BitsReachTheirProcess ==
  [][ (rx # NoRx /\ Stale \notin Elems(rx.bits)) =>
        /\ \A p \in Elems(feedback) \ Elems(feedback') :
             p = Head(rx.bits) \/ p \in missed
        /\ \A p \in Own(rx.bits) \ Own(rx'.bits) : p \notin Elems(feedback')
    ]_vars

(* The gNB stops its own ACK/NACKs by clearing the structure that          *)
(* nr_csi_meas_reporting() needs: "CSI structure is scheduled in advance.  *)
(* It should be free!"                                                     *)
CsiStructureFree ==
  (rx = NoRx /\ CsiDue(now)) => pucch[Index(After(now, MaxFb))] = Off

\* How the lists look from outside
St == [p \in Pid |-> IF p \in Elems(available) THEN "idle"
                     ELSE IF p \in Elems(feedback) THEN "inflight" ELSE "retx"]

Promise ==
  INSTANCE HarqPromise WITH st <- St,
                            ndi <- [p \in Pid |-> proc[p].ndi],
                            round <- [p \in Pid |-> proc[p].round],
                            harqOff <- NoFeedback

(* Each downlink HARQ process runs stop-and-wait.                          *)
StopAndWait == Promise!Spec
=============================================================================
