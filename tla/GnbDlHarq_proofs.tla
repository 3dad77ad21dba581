-------------------------- MODULE GnbDlHarq_proofs --------------------------
(***************************************************************************)
(* Proofs about downlink HARQ of one UE, for any number of processes,      *)
(* rounds, slots, feedback times and reports on the air: types and the     *)
(* list invariant, the refinement of HarqPromise, and then the reports:    *)
(* the ACK/NACKs on their way, the order of feedback_dl_harq, and that a   *)
(* bit reaches the process it was scheduled for.                           *)
(***************************************************************************)
EXTENDS GnbDlHarq, Lemmas_proofs, FiniteSetTheorems, WellFoundedInduction

----------------------------------------------------------------------------
(* Numbers: slots, the ring of sched_pucch, the first time with room.       *)

(* A nonempty set of natural numbers has a least element.                   *)
LEMMA LeastFacts ==
  ASSUME NEW S \in SUBSET Nat, S # {}
  PROVE  Least(S) \in S /\ \A y \in S : Least(S) <= y
<1> DEFINE R == OpToRel(<, Nat)
<1>1. IsWellFoundedOn(R, Nat)
  BY NatLessThanWellFounded
<1>2. R = {ss \in Nat \X Nat : ss[1] < ss[2]}
  BY DEF OpToRel
<1> HIDE DEF R
<1>3. PICK x \in S : \A y \in S : ~ (<<y, x>> \in R)
  BY <1>1, WFMin
<1>4. ASSUME NEW y \in S PROVE x <= y
  <2>1. <<y, x>> \in Nat \X Nat /\ <<y, x>>[1] = y /\ <<y, x>>[2] = x
    OBVIOUS
  <2>2. ~(y < x)
    BY <1>2, <1>3, <2>1
  <2>3. QED
    BY <2>2
<1>5. QED
  BY <1>4 DEF Least

(* A remainder is below its divisor.                                        *)
LEMMA ModType == ASSUME NEW a \in Int, NEW b \in Nat \ {0} PROVE a % b \in 0 .. b - 1
  OBVIOUS

(* The frame numbers times the slots of a frame.                            *)
LEMMA CycleType == Cycle \in Nat \ {0}
<1>1. Frames \in Nat \ {0} /\ SlotsPerFrame \in Nat \ {0}
  BY GnbDlHarqAssumption
<1>2. \A a, b \in Nat \ {0} : a * b \in Nat \ {0}
  OBVIOUS
<1>3. QED
  BY <1>1, <1>2 DEF Cycle

(* Some slots later is a slot again.                                        *)
LEMMA AfterType == ASSUME NEW at \in Int, NEW n \in Int PROVE After(at, n) \in 0 .. Cycle - 1
<1>1. at + n \in Int
  OBVIOUS
<1>2. QED
  BY <1>1, CycleType, ModType DEF After

(* The uplink slots of a period can be counted.                             *)
LEMMA UlSlotsFacts ==
  /\ Cardinality(UlSlots) \in Nat \ {0}
  /\ \A S \in SUBSET UlSlots : Cardinality(S) \in Nat
<1>1. UlSlots \subseteq 0 .. PeriodSlots - 1 /\ PeriodSlots \in Nat /\ UlSlots # {}
  BY GnbDlHarqAssumption
<1>2. IsFiniteSet(UlSlots)
  <2>1. PeriodSlots - 1 \in Int
    BY <1>1
  <2>2. IsFiniteSet(0 .. PeriodSlots - 1)
    BY <2>1, FS_Interval
  <2>3. QED
    BY <1>1, <2>2, FS_Subset
<1>3. Cardinality(UlSlots) \in Nat /\ Cardinality(UlSlots) # 0
  BY <1>1, <1>2, FS_CardinalityType, FS_EmptySet
<1>4. ASSUME NEW S \in SUBSET UlSlots PROVE Cardinality(S) \in Nat
  BY <1>2, FS_Subset, FS_CardinalityType
<1>5. QED
  BY <1>3, <1>4

(* sched_pucch has room for at least one structure.                         *)
LEMMA PucchSizeType == PucchSize \in Nat \ {0}
<1> DEFINE S == {n \in {1, 2, 4, 8, 16, 32, 64} : n >= MaxFb \div PeriodSlots + 1}
<1>1. MaxFb \in Int /\ PeriodSlots \in Nat \ {0} /\ MaxFb \div PeriodSlots < 64
  BY GnbDlHarqAssumption DEF MaxFb
<1>2. MaxFb \div PeriodSlots \in Int
  BY <1>1
<1>3. 64 \in S /\ S \subseteq Nat \ {0}
  BY <1>1, <1>2
<1>4. Least(S) \in Nat \ {0}
  BY <1>3, LeastFacts
<1>5. \A a, b \in Nat \ {0} : a * b \in Nat \ {0}
  OBVIOUS
<1>6. QED
  BY <1>4, <1>5, UlSlotsFacts DEF PucchSize

(* get_pucch_index() stays in sched_pucch.                                  *)
LEMMA IndexType ==
  ASSUME NEW at \in 0 .. Cycle - 1
  PROVE  Index(at) \in 0 .. PucchSize - 1
<1> DEFINE n == Cardinality({s \in UlSlots : s <= at % PeriodSlots})
           e == (at \div PeriodSlots) * Cardinality(UlSlots) + n - 1
<1>1. at \in Int /\ PeriodSlots \in Nat \ {0}
  BY CycleType, GnbDlHarqAssumption
<1>2. at \div PeriodSlots \in Int
  BY <1>1
<1>3. n \in Nat
  BY UlSlotsFacts
<1>4. \A a \in Int, b, c \in Nat : a * b + c - 1 \in Int
  OBVIOUS
<1> HIDE DEF n
<1>5. e \in Int
  BY <1>2, <1>3, <1>4, UlSlotsFacts
<1> HIDE DEF e
<1>6. e % PucchSize \in 0 .. PucchSize - 1
  BY <1>5, PucchSizeType, ModType
<1>7. QED
  BY <1>6 DEF Index, e, n

(* A time for the feedback is some slots ahead.                             *)
LEMMA FeedbackTimeType ==
  ASSUME common \in BOOLEAN, NEW i \in Candidates
  PROVE  i \in Nat /\ FeedbackTime(i) \in Int
<1>1. i \in Nat /\ MinFb \in Nat
  BY GnbDlHarqAssumption DEF Candidates
<1>2. QED
  BY <1>1 DEF FeedbackTime

(* nr_acknack_scheduling() returns a time that has room.                    *)
LEMMA ChosenFacts ==
  ASSUME now \in 0 .. Cycle - 1, common \in BOOLEAN, NEW pu, Suitable(pu) # {}
  PROVE  /\ HasRoom(pu, After(now, FeedbackTime(Chosen(pu))))
         /\ After(now, FeedbackTime(Chosen(pu))) \in 0 .. Cycle - 1
<1>1. Suitable(pu) \in SUBSET Nat /\ Suitable(pu) \subseteq Candidates
  BY FeedbackTimeType DEF Suitable
<1>2. Chosen(pu) \in Suitable(pu)
  BY <1>1, LeastFacts DEF Chosen
<1>3. HasRoom(pu, After(now, FeedbackTime(Chosen(pu)))) /\ Chosen(pu) \in Candidates
  BY <1>2 DEF Suitable
<1>4. now \in Int /\ FeedbackTime(Chosen(pu)) \in Int
  BY <1>3, FeedbackTimeType, CycleType
<1>5. QED
  BY <1>3, <1>4, AfterType

----------------------------------------------------------------------------
(* The structures of sched_pucch and the reports.                           *)

Pucchs == [0 .. PucchSize - 1 -> Structure]

(* A structure that is not in use.                                          *)
LEMMA OffType == Off \in Structure /\ Off.bits = <<>> /\ ~Off.csi
<1>1. -1 \in -1 .. Cycle - 1 /\ <<>> \in Marks /\ Len(<<>>) = 0
  BY CycleType DEF Marks
<1>2. QED
  BY <1>1 DEF Off, Structure

(* The room of a structure.                                                 *)
LEMMA StructureFields ==
  ASSUME NEW c \in Structure
  PROVE  /\ c.at \in -1 .. Cycle - 1 /\ c.csi \in BOOLEAN /\ c.bits \in Marks
         /\ Len(c.bits) \in Nat
         /\ Len(c.bits) <= IF c.csi THEN CsiAcks ELSE 2
  BY DEF Structure, Marks

(* nr_csi_meas_reporting() writes a structure without ACK/NACKs.            *)
LEMMA WithCsiType ==
  ASSUME now \in 0 .. Cycle - 1, NEW pu \in Pucchs
  PROVE  WithCsi(pu) \in Pucchs
<1> DEFINE at == After(now, MaxFb)
           c == [at |-> at, csi |-> TRUE, bits |-> <<>>]
<1>1. MaxFb \in Int /\ now \in Int /\ CsiAcks \in Nat
  BY GnbDlHarqAssumption, CycleType DEF MaxFb
<1>2. at \in 0 .. Cycle - 1
  BY <1>1, AfterType
<1> HIDE DEF at
<1>3. at \in -1 .. Cycle - 1 /\ <<>> \in Marks /\ Len(<<>>) = 0
  BY <1>2, CycleType DEF Marks
<1>4. c \in Structure
  BY <1>1, <1>3 DEF Structure
<1>5. WithCsi(pu) = [pu EXCEPT ![Index(at)] = c]
  BY DEF WithCsi, at
<1>6. QED
  BY <1>4, <1>5 DEF Pucchs

(* A search for room clears some structures.                                *)
LEMMA SkippedType ==
  ASSUME NEW pu \in Pucchs
  PROVE  /\ Skipped(pu) \in Pucchs
         /\ \A i \in 0 .. PucchSize - 1 : Skipped(pu)[i] \in {pu[i], Off}
<1> DEFINE clash == {Index(After(now, FeedbackTime(i))) : i \in
                  {j \in Tried(pu) : LET at == After(now, FeedbackTime(j))
                                     IN  pu[Index(at)].at \notin {-1, at}}}
<1>1. Skipped(pu) = [i \in DOMAIN pu |-> IF i \in clash THEN Off ELSE pu[i]]
  BY DEF Skipped
<1> HIDE DEF clash
<1>2. QED
  BY <1>1, OffType DEF Pucchs

(* The ACK/NACK is put where there is room for it.                          *)
LEMMA AckNackType ==
  ASSUME now \in 0 .. Cycle - 1, common \in BOOLEAN,
         NEW pu \in Pucchs, Suitable(pu) # {}, NEW p \in Pid
  PROVE  AckNack(pu, p) \in Pucchs
<1> DEFINE at == After(now, FeedbackTime(Chosen(pu)))
           i == Index(at)
           s == Skipped(pu)
           c == [at |-> at, csi |-> s[i].csi, bits |-> Append(s[i].bits, p)]
<1>1. HasRoom(pu, at) /\ at \in 0 .. Cycle - 1
  BY ChosenFacts
<1>2. i \in 0 .. PucchSize - 1
  BY <1>1, IndexType
<1>3. s \in Pucchs /\ s[i] \in {pu[i], Off} /\ pu[i] \in Structure /\ s[i] \in Structure
  BY <1>2, SkippedType DEF Pucchs
<1>4. Len(s[i].bits) < IF s[i].csi THEN CsiAcks ELSE 2
  <2>1. CASE s[i] = Off
    BY <2>1, OffType
  <2>2. CASE s[i] = pu[i] /\ pu[i] # Off
    BY <1>1, <2>2 DEF HasRoom
  <2>3. QED
    BY <1>3, <2>1, <2>2
<1>5. AckNack(pu, p) = [s EXCEPT ![i] = c]
  BY <1>2, <1>3 DEF AckNack, Pucchs
<1>6. c \in Structure
  <2>1. s[i].bits \in Marks /\ s[i].csi \in BOOLEAN /\ Len(s[i].bits) \in Nat /\ CsiAcks \in Nat
    BY <1>3, StructureFields, GnbDlHarqAssumption
  <2> HIDE DEF s, i, at
  <2>2. PICK b \in Marks, x \in BOOLEAN : b = s[i].bits /\ x = s[i].csi
    BY <2>1
  <2>3. Append(b, p) \in Marks /\ Len(Append(b, p)) = Len(b) + 1
    BY DEF Marks
  <2>4. Len(Append(b, p)) <= IF x THEN CsiAcks ELSE 2
    BY <1>4, <2>1, <2>2, <2>3
  <2>5. at \in -1 .. Cycle - 1
    BY <1>1, CycleType
  <2>6. c = [at |-> at, csi |-> x, bits |-> Append(b, p)]
    BY <2>2
  <2>7. QED
    BY <2>3, <2>4, <2>5, <2>6 DEF Structure
<1>7. QED
  BY <1>3, <1>5, <1>6 DEF Pucchs

(* schedule_pucch_core() clears the structure and hands its bits over.      *)
LEMMA HandoverType ==
  ASSUME now \in 0 .. Cycle - 1, air \in Seq(Report), NEW pu \in Pucchs, Handover(pu)
  PROVE  pucch' \in Pucchs /\ air' \in Seq(Report)
<1>1. Index(now) \in 0 .. PucchSize - 1
  BY IndexType
<1>2. PICK c \in Structure : c = pu[Index(now)]
  BY <1>1 DEF Pucchs
<1>3. pucch' \in Pucchs
  BY OffType DEF Handover, Pucchs
<1>4. CASE c.bits # <<>> /\ air' = Append(air, [at |-> now, bits |-> c.bits])
  <2>1. [at |-> now, bits |-> c.bits] \in Report
    BY <1>4, StructureFields DEF Report
  <2>2. QED
    BY <1>3, <1>4, <2>1
<1>5. CASE air' = air
  BY <1>3, <1>5
<1>6. QED
  BY <1>2, <1>3, <1>4, <1>5 DEF Handover

(* Bits that lose their process stay as many bits.                          *)
LEMMA WithoutType ==
  ASSUME NEW bits \in Marks, NEW ps
  PROVE  Without(bits, ps) \in Marks /\ Len(Without(bits, ps)) = Len(bits)
<1> DEFINE f == [i \in 1 .. Len(bits) |-> IF bits[i] \in ps THEN Stale ELSE bits[i]]
<1>1. Len(bits) \in Nat /\ DOMAIN bits = 1 .. Len(bits)
      /\ \A i \in 1 .. Len(bits) : bits[i] \in Pid \cup {Stale}
  BY DEF Marks
<1>2. Without(bits, ps) = f
  BY <1>1 DEF Without
<1>3. f \in [1 .. Len(bits) -> Pid \cup {Stale}]
  BY <1>1
<1> HIDE DEF f
<1>4. f \in Seq(Pid \cup {Stale}) /\ Len(f) = Len(bits)
  BY <1>1, <1>3
<1>5. QED
  BY <1>2, <1>4 DEF Marks

(* The same in the structures and on the air.                               *)
LEMMA ForgetType ==
  ASSUME pucch \in Pucchs, air \in Seq(Report), NEW ps
  PROVE  ForgetIn(pucch, ps) \in Pucchs /\ ForgetAir(ps) \in Seq(Report)
<1>1. ASSUME NEW c \in Structure
      PROVE  [c EXCEPT !.bits = Without(c.bits, ps)] \in Structure
  <2>1. Without(c.bits, ps) \in Marks /\ Len(Without(c.bits, ps)) = Len(c.bits)
    BY StructureFields, WithoutType
  <2>2. PICK b \in Marks : b = Without(c.bits, ps)
    BY <2>1
  <2>3. [c EXCEPT !.bits = b] \in Structure
    BY <2>1, <2>2 DEF Structure
  <2>4. QED
    BY <2>2, <2>3
<1>2. ForgetIn(pucch, ps) = [i \in 0 .. PucchSize - 1 |->
                               [pucch[i] EXCEPT !.bits = Without(pucch[i].bits, ps)]]
  BY DEF ForgetIn, Pucchs
<1>3. ForgetIn(pucch, ps) \in Pucchs
  BY <1>1, <1>2 DEF Pucchs
<1>4. ASSUME NEW r \in Report
      PROVE  [r EXCEPT !.bits = Without(r.bits, ps)] \in Report
  <2>1. r.bits \in Marks /\ r.bits # <<>>
    BY DEF Report
  <2>2. Without(r.bits, ps) \in Marks /\ Len(Without(r.bits, ps)) = Len(r.bits)
    BY <2>1, WithoutType
  <2>3. PICK b \in Marks : b = Without(r.bits, ps) /\ b # <<>>
    <3>1. Without(r.bits, ps) # <<>>
      BY <2>1, <2>2 DEF Marks
    <3>2. QED
      BY <2>2, <3>1
  <2>4. [r EXCEPT !.bits = b] \in Report
    BY <2>3 DEF Report
  <2>5. QED
    BY <2>3, <2>4
<1>5. ForgetAir(ps) = [i \in 1 .. Len(air) |->
                         [air[i] EXCEPT !.bits = Without(air[i].bits, ps)]]
  BY DEF ForgetAir
<1>6. Len(air) \in Nat /\ \A i \in 1 .. Len(air) : air[i] \in Report
  OBVIOUS
<1>7. ForgetAir(ps) \in [1 .. Len(air) -> Report]
  BY <1>4, <1>5, <1>6
<1>8. QED
  BY <1>3, <1>6, <1>7

----------------------------------------------------------------------------
(* The lists and their processes.                                           *)

ListTypes ==
  /\ available \in Seq(Pid) /\ feedback \in Seq(Pid) /\ retrans \in Seq(Pid)
  /\ proc \in [Pid -> Process]
RadioTypes ==
  /\ now \in 0 .. Cycle - 1 /\ common \in BOOLEAN
  /\ pucch \in Pucchs
  /\ taken \subseteq 0 .. Cycle - 1
  /\ air \in Seq(Report) /\ rx \in Report \cup {NoRx}
  /\ missed \subseteq Pid

(* TypeOK in two parts, for the actions that touch only one of them.        *)
LEMMA TypeParts == TypeOK <=> ListTypes /\ RadioTypes
  BY DEF TypeOK, ListTypes, RadioTypes, Pucchs

Lists == ListTypes /\ ListsMatchProcesses

(* Only process p changes, to v.                                            *)
Updated(p, v) ==
  /\ proc' \in [Pid -> Process]
  /\ proc'[p] = v
  /\ \A q \in Pid \ {p} : proc'[q] = proc[q]

(* An assignment to one process.                                            *)
LEMMA ProcessUpdate ==
  ASSUME ListTypes, NEW p \in Pid, NEW v \in Process, proc' = [proc EXCEPT ![p] = v]
  PROVE  Updated(p, v)
  BY DEF ListTypes, Updated

(* The ids in the lists are those of processes.                             *)
LEMMA ElemsArePids ==
  ASSUME ListTypes
  PROVE  /\ Elems(available) \subseteq Pid
         /\ Elems(feedback) \subseteq Pid
         /\ Elems(retrans) \subseteq Pid
  BY SomeElems, NoElems DEF ListTypes

(* A block is sent: the process goes to feedback from one of the others.    *)
LEMMA SendLists ==
  ASSUME Lists, NEW from \in {available, retrans}, from # <<>>,
         Head(from) \notin NoFeedback, NEW v \in Process, v.waiting,
         Updated(Head(from), v), feedback' = Append(feedback, Head(from)),
         \/ from = available /\ available' = Tail(available) /\ retrans' = retrans
         \/ from = retrans /\ retrans' = Tail(retrans) /\ available' = available
  PROVE  Lists'
<1> DEFINE p == Head(from)
<1>1. from \in Seq(Pid) /\ feedback \in Seq(Pid) /\ Once(from) /\ Once(feedback)
      /\ Elems(from) \cap Elems(feedback) = {}
  BY DEF Lists, ListTypes, ListsMatchProcesses
<1>2. /\ Tail(from) \in Seq(Pid) /\ feedback' \in Seq(Pid)
      /\ Once(Tail(from)) /\ Once(feedback')
      /\ p \in Pid /\ p \in Elems(from)
      /\ Elems(Tail(from)) = Elems(from) \ {p}
      /\ Elems(feedback') = Elems(feedback) \cup {p}
  BY <1>1, MoveHead
<1> HIDE DEF p
<1>3. ListTypes'
  BY <1>2 DEF Lists, ListTypes, Updated, p
<1>4. /\ p \notin NoFeedback
      /\ proc'[p].waiting /\ \A q \in Pid \ {p} : proc'[q] = proc[q]
  BY DEF Updated, p
<1>5. CASE from = available /\ available' = Tail(available) /\ retrans' = retrans
  <2>1. Elems(available') = Elems(available) \ {p} /\ Once(available')
        /\ Elems(retrans') = Elems(retrans)
    BY <1>2, <1>5
  <2>2. ListsMatchProcesses'
    BY <1>2, <1>4, <1>5, <2>1, ElemsArePids DEF Lists, ListsMatchProcesses
  <2>3. QED
    BY <1>3, <2>2 DEF Lists
<1>6. CASE from = retrans /\ retrans' = Tail(retrans) /\ available' = available
  <2>1. Elems(retrans') = Elems(retrans) \ {p} /\ Once(retrans')
        /\ Elems(available') = Elems(available)
    BY <1>2, <1>6
  <2>2. ListsMatchProcesses'
    BY <1>2, <1>4, <1>6, <2>1, ElemsArePids DEF Lists, ListsMatchProcesses
  <2>3. QED
    BY <1>3, <2>2 DEF Lists
<1>7. QED
  BY <1>5, <1>6

(* Without feedback the process goes to the tail of its own list.           *)
LEMMA RotateLists ==
  ASSUME Lists, available # <<>>, NEW v \in Process, ~v.waiting, v.round = 0,
         Updated(Head(available), v),
         available' = Append(Tail(available), Head(available)),
         feedback' = feedback, retrans' = retrans
  PROVE  Lists'
<1> DEFINE p == Head(available)
<1>1. p \in Pid /\ p \in Elems(available)
  BY SomeElems, ElemsTail DEF Lists, ListTypes
<1>2. available' \in Seq(Pid) /\ Once(available') /\ Elems(available') = Elems(available)
  BY RotateHead DEF Lists, ListTypes, ListsMatchProcesses
<1> HIDE DEF p
<1>3. proc' \in [Pid -> Process] /\ ~proc'[p].waiting /\ proc'[p].round = 0
      /\ \A q \in Pid \ {p} : proc'[q] = proc[q]
  BY DEF Updated, p
<1>4. ListTypes'
  BY <1>2, <1>3 DEF Lists, ListTypes
<1>5. ListsMatchProcesses'
  BY <1>1, <1>2, <1>3, ElemsArePids DEF Lists, ListsMatchProcesses
<1>6. QED
  BY <1>4, <1>5 DEF Lists

(* What becomes of process p when its block ends, and when it is to be sent *)
(* again.                                                                   *)
Done(p) == [ndi |-> 1 - proc[p].ndi, round |-> 0, waiting |-> FALSE, fb |-> -1]
Retried(p) == [ndi |-> proc[p].ndi, round |-> proc[p].round + 1,
               waiting |-> FALSE, fb |-> -1]

(* Handle() does one of the two to the process at the head of feedback.     *)
LEMMA HandleFacts ==
  ASSUME ListTypes, NEW success \in BOOLEAN, feedback # <<>>, Handle(success)
  PROVE  \E p \in Pid :
           /\ p = Head(feedback) /\ feedback' = Tail(feedback)
           /\ \/ /\ Done(p) \in Process /\ Updated(p, Done(p))
                 /\ available' = Append(available, p) /\ retrans' = retrans
              \/ /\ Retried(p) \in Process /\ Updated(p, Retried(p))
                 /\ proc[p].round < RoundMax - 1
                 /\ retrans' = Append(retrans, p) /\ available' = available
<1>1. PICK p \in Pid : p = Head(feedback)
  BY ElemsTail DEF ListTypes
<1>2. proc[p] \in Process
  BY DEF ListTypes
<1>3. /\ proc[p].ndi \in {0, 1} /\ proc[p].round \in 0 .. RoundMax - 1
      /\ RoundMax \in Nat \ {0}
  BY <1>2, GnbDlHarqAssumption DEF Process
<1>4. -1 \in -1 .. Cycle - 1
  BY CycleType
<1>5. CASE success \/ proc[p].round >= RoundMax - 1
  <2>1. /\ proc' = [proc EXCEPT ![p] = Done(p)]
        /\ available' = Append(available, p) /\ retrans' = retrans
        /\ feedback' = Tail(feedback)
    BY <1>1, <1>5 DEF Handle, Handled, Done
  <2>2. Done(p) \in Process
    <3>1. 1 - proc[p].ndi \in {0, 1} /\ 0 \in 0 .. RoundMax - 1
      BY <1>3
    <3>2. QED
      BY <1>4, <3>1 DEF Done, Process
  <2>3. QED
    BY <1>1, <2>1, <2>2, ProcessUpdate
<1>6. CASE ~success /\ ~(proc[p].round >= RoundMax - 1)
  <2>1. /\ proc' = [proc EXCEPT ![p] = Retried(p)]
        /\ retrans' = Append(retrans, p) /\ available' = available
        /\ feedback' = Tail(feedback)
    BY <1>1, <1>6 DEF Handle, Handled, Retried
  <2>2. proc[p].round < RoundMax - 1 /\ proc[p].round + 1 \in 0 .. RoundMax - 1
    BY <1>3, <1>6
  <2>3. Retried(p) \in Process
    BY <1>3, <1>4, <2>2 DEF Retried, Process
  <2>4. QED
    BY <1>1, <2>1, <2>2, <2>3, ProcessUpdate
<1>7. QED
  BY <1>5, <1>6

(* The feedback of the first process has come or is given up.               *)
LEMMA HandleLists ==
  ASSUME Lists, NEW success \in BOOLEAN, feedback # <<>>, Handle(success)
  PROVE  Lists'
<1>1. PICK p \in Pid :
           /\ p = Head(feedback) /\ feedback' = Tail(feedback)
           /\ \/ /\ Done(p) \in Process /\ Updated(p, Done(p))
                 /\ available' = Append(available, p) /\ retrans' = retrans
              \/ /\ Retried(p) \in Process /\ Updated(p, Retried(p))
                 /\ proc[p].round < RoundMax - 1
                 /\ retrans' = Append(retrans, p) /\ available' = available
  BY HandleFacts DEF Lists
<1>2. /\ available \in Seq(Pid) /\ feedback \in Seq(Pid) /\ retrans \in Seq(Pid)
      /\ Once(available) /\ Once(feedback) /\ Once(retrans)
      /\ Elems(feedback) \cap Elems(available) = {}
      /\ Elems(feedback) \cap Elems(retrans) = {}
  BY DEF Lists, ListTypes, ListsMatchProcesses
<1>3. /\ feedback' \in Seq(Pid) /\ Once(feedback') /\ p \in Elems(feedback)
      /\ Elems(feedback') = Elems(feedback) \ {p}
  BY <1>1, <1>2, MoveHead
<1>4. CASE /\ Done(p) \in Process /\ Updated(p, Done(p))
           /\ available' = Append(available, p) /\ retrans' = retrans
  <2>1. /\ available' \in Seq(Pid) /\ Once(available')
        /\ Elems(available') = Elems(available) \cup {p}
    BY <1>1, <1>2, <1>4, MoveHead
  <2>2. ListTypes'
    BY <1>2, <1>3, <1>4, <2>1 DEF ListTypes, Updated
  <2>3. proc'[p].round = 0 /\ ~proc'[p].waiting /\ \A q \in Pid \ {p} : proc'[q] = proc[q]
    BY <1>4 DEF Updated, Done
  <2>4. QED
    BY <1>3, <1>4, <2>1, <2>2, <2>3, ElemsArePids DEF Lists, ListsMatchProcesses
<1>5. CASE /\ Retried(p) \in Process /\ Updated(p, Retried(p))
           /\ retrans' = Append(retrans, p) /\ available' = available
  <2>1. /\ retrans' \in Seq(Pid) /\ Once(retrans')
        /\ Elems(retrans') = Elems(retrans) \cup {p}
    BY <1>1, <1>2, <1>5, MoveHead
  <2>2. ListTypes'
    BY <1>2, <1>3, <1>5, <2>1 DEF ListTypes, Updated
  <2>3. proc'[p].round > 0 /\ ~proc'[p].waiting /\ \A q \in Pid \ {p} : proc'[q] = proc[q]
    <3>1. proc[p] \in Process
      BY DEF Lists, ListTypes
    <3>2. proc[p].round + 1 > 0
      <4>1. RoundMax \in Nat
        BY GnbDlHarqAssumption
      <4>2. proc[p].round \in 0 .. RoundMax - 1
        BY <3>1 DEF Process
      <4>3. QED
        BY <4>1, <4>2
    <3>3. Retried(p).round > 0 /\ ~Retried(p).waiting
      BY <3>2 DEF Retried
    <3>4. QED
      BY <1>5, <3>3 DEF Updated
  <2>4. QED
    BY <1>3, <1>5, <2>1, <2>2, <2>3, ElemsArePids DEF Lists, ListsMatchProcesses
<1>6. QED
  BY <1>1, <1>4, <1>5

(* A reset puts every process on available at round zero.                   *)
LEMMA ResetLists ==
  ASSUME Lists, NEW reestablish \in BOOLEAN, RaWithCrnti(reestablish)
  PROVE  /\ Lists' /\ feedback' = <<>> /\ retrans' = <<>>
         /\ \A p \in Pid : proc'[p].round = 0 /\ proc'[p].ndi = proc[p].ndi
<1>1. /\ available' = available \o feedback \o retrans
      /\ feedback' = <<>> /\ retrans' = <<>>
      /\ proc' = [p \in Pid |-> ResetProcess(p)]
  BY DEF RaWithCrnti
<1>2. /\ available \in Seq(Pid) /\ feedback \in Seq(Pid) /\ retrans \in Seq(Pid)
      /\ Once(available) /\ Once(feedback) /\ Once(retrans)
      /\ Elems(available) \cap Elems(feedback) = {}
      /\ Elems(available) \cap Elems(retrans) = {}
      /\ Elems(feedback) \cap Elems(retrans) = {}
  BY DEF Lists, ListTypes, ListsMatchProcesses
<1> DEFINE all == available \o feedback \o retrans
<1>3. /\ all \in Seq(Pid) /\ Once(all)
      /\ Elems(all) = Elems(available) \cup Elems(feedback) \cup Elems(retrans)
  BY <1>2, ElemsOfThree
<1> HIDE DEF all
<1>4. Elems(all) = Pid
  BY <1>3 DEF Lists, ListsMatchProcesses
<1>5. /\ available' \in Seq(Pid) /\ Once(available') /\ Elems(available') = Pid
  BY <1>1, <1>3, <1>4 DEF all
<1>6. ASSUME NEW p \in Pid
      PROVE  /\ ResetProcess(p) \in Process
             /\ ResetProcess(p).round = 0 /\ ~ResetProcess(p).waiting
             /\ ResetProcess(p).ndi = proc[p].ndi
  <2>1. proc[p] \in Process
    BY DEF Lists, ListTypes
  <2>2. -1 \in -1 .. Cycle - 1 /\ 0 \in 0 .. RoundMax - 1
    BY CycleType, GnbDlHarqAssumption
  <2>3. QED
    BY <2>1, <2>2 DEF ResetProcess, Process
<1>7. ListTypes'
  <2>1. <<>> \in Seq(Pid)
    OBVIOUS
  <2>2. proc' \in [Pid -> Process]
    BY <1>1, <1>6
  <2>3. QED
    BY <1>1, <1>5, <2>1, <2>2 DEF ListTypes
<1>8. ListsMatchProcesses'
  <2>1. Elems(feedback') = {} /\ Elems(retrans') = {} /\ Once(feedback') /\ Once(retrans')
    BY <1>1, NoElems
  <2>2. \A p \in Pid : proc'[p].round = 0 /\ ~proc'[p].waiting
    BY <1>1, <1>6
  <2>3. NoFeedback \subseteq Pid
    BY GnbDlHarqAssumption
  <2>4. QED
    BY <1>5, <2>1, <2>2, <2>3 DEF ListsMatchProcesses
<1>9. QED
  BY <1>1, <1>6, <1>7, <1>8 DEF Lists

----------------------------------------------------------------------------
(* One slot.                                                                *)

\* A process whose block is sent, and one whose block needs no feedback.
SentAt(p, at) == [proc[p] EXCEPT !.waiting = TRUE, !.fb = at]
AtOnce(p) == [proc[p] EXCEPT !.ndi = 1 - proc[p].ndi, !.round = 0]

(* nr_schedule_ue_spec() for a process without feedback.                    *)
LEMMA AtOnceFacts ==
  ASSUME ListTypes, NEW p \in Pid, ~proc[p].waiting, proc' = FinishedAtOnce(p)
  PROVE  /\ AtOnce(p) \in Process /\ Updated(p, AtOnce(p))
         /\ AtOnce(p).ndi = 1 - proc[p].ndi /\ AtOnce(p).round = 0 /\ ~AtOnce(p).waiting
<1>1. proc[p] \in Process /\ proc \in [Pid -> Process]
  BY DEF ListTypes
<1>2. 1 - proc[p].ndi \in {0, 1} /\ 0 \in 0 .. RoundMax - 1
  <2>1. RoundMax \in Nat \ {0}
    BY GnbDlHarqAssumption
  <2>2. QED
    BY <1>1, <2>1 DEF Process
<1>3. /\ AtOnce(p) \in Process
      /\ AtOnce(p).ndi = 1 - proc[p].ndi /\ AtOnce(p).round = 0 /\ ~AtOnce(p).waiting
  BY <1>1, <1>2 DEF AtOnce, Process
<1>4. proc' = [proc EXCEPT ![p] = AtOnce(p)]
  BY <1>1 DEF FinishedAtOnce, AtOnce, Process
<1>5. QED
  BY <1>3, <1>4, ProcessUpdate

(* The same for a process that will wait for its feedback.                  *)
LEMMA SentFacts ==
  ASSUME ListTypes, RadioTypes, NEW p \in Pid, NEW pu \in Pucchs, Suitable(pu) # {},
         proc' = Sent(p, pu)
  PROVE  \E v \in Process : /\ Updated(p, v) /\ v.waiting
                            /\ v.ndi = proc[p].ndi /\ v.round = proc[p].round
                            /\ v.fb = After(now, FeedbackTime(Chosen(pu)))
<1> DEFINE at == After(now, FeedbackTime(Chosen(pu)))
<1>1. proc[p] \in Process /\ proc \in [Pid -> Process]
  BY DEF ListTypes
<1>2. at \in 0 .. Cycle - 1
  BY ChosenFacts DEF RadioTypes
<1>3. proc' = [proc EXCEPT ![p] = SentAt(p, at)]
  BY <1>1 DEF Sent, SentAt, Process
<1> HIDE DEF at
<1>4. at \in -1 .. Cycle - 1
  BY <1>2, CycleType
<1>5. /\ SentAt(p, at) \in Process /\ SentAt(p, at).waiting
      /\ SentAt(p, at).ndi = proc[p].ndi /\ SentAt(p, at).round = proc[p].round
      /\ SentAt(p, at).fb = at
  BY <1>1, <1>4 DEF SentAt, Process
<1>6. QED
  BY <1>3, <1>5, ProcessUpdate DEF at

\* The process pf_dl() chooses is on no other list.
ChosenFrom(p, from) ==
  /\ from # <<>> /\ p = Head(from) /\ p \in Pid /\ p \in Elems(from)
  /\ \/ from = available /\ retrans = <<>>
     \/ from = retrans /\ p \notin NoFeedback

\* nr_schedule_ue_spec() sends a block of p without feedback, and with feedback.
Unacknowledged(p, from, pu) ==
  /\ ChosenFrom(p, from) /\ p \in NoFeedback /\ from = available
  /\ AtOnce(p) \in Process /\ Updated(p, AtOnce(p))
  /\ AtOnce(p).ndi = 1 - proc[p].ndi /\ AtOnce(p).round = 0 /\ ~AtOnce(p).waiting
  /\ available' = Append(Tail(available), p)
  /\ feedback' = feedback /\ retrans' = retrans
  /\ Handover(pu)
Acknowledged(p, from, pu) ==
  /\ ChosenFrom(p, from) /\ p \notin NoFeedback
  /\ \E v \in Process : /\ Updated(p, v) /\ v.waiting
                        /\ v.ndi = proc[p].ndi /\ v.round = proc[p].round
                        /\ v.fb = After(now, FeedbackTime(Chosen(pu)))
  /\ \/ from = available /\ available' = Tail(available) /\ retrans' = retrans
     \/ from = retrans /\ retrans' = Tail(retrans) /\ available' = available
  /\ feedback' = Append(feedback, p)
  /\ Suitable(pu) # {} /\ Handover(AckNack(pu, p))

(* What nr_schedule_ue_spec() does when it sends a block.                   *)
LEMMA PdschFacts ==
  ASSUME Lists, RadioTypes, NEW pu \in Pucchs, Pdsch(pu)
  PROVE  \E from \in {available, retrans}, p \in Pid : Unacknowledged(p, from, pu) \/ Acknowledged(p, from, pu)
<1> DEFINE f == IF retrans # <<>> THEN retrans ELSE available
<1>1. PICK from \in {available, retrans} :
        from = f /\ from # <<>> /\ from \in Seq(Pid)
  BY DEF Pdsch, Lists, ListTypes
<1>2. PICK p \in Pid : p = Head(from) /\ p \in Elems(from)
  BY <1>1, SomeElems, ElemsTail
<1>3. NoFeedback \subseteq Elems(available) /\ Elems(available) \cap Elems(retrans) = {}
      /\ ListTypes /\ (p \in Elems(available) => ~proc[p].waiting)
  BY DEF Lists, ListsMatchProcesses
<1>4. ChosenFrom(p, from)
  BY <1>1, <1>2, <1>3 DEF ChosenFrom
<1>5. CASE p \in NoFeedback
  <2>1. from = available /\ retrans = <<>> /\ p \in Elems(available)
    BY <1>3, <1>4, <1>5 DEF ChosenFrom
  <2>2. /\ available' = Append(Tail(available), p)
        /\ feedback' = feedback /\ retrans' = retrans
        /\ proc' = FinishedAtOnce(p) /\ Handover(pu)
    BY <1>2, <1>5, <2>1 DEF Pdsch
  <2>3. QED
    BY <1>3, <1>4, <1>5, <2>1, <2>2, AtOnceFacts DEF Unacknowledged
<1>6. CASE p \notin NoFeedback
  <2>1. /\ Suitable(pu) # {} /\ feedback' = Append(feedback, p)
        /\ proc' = Sent(p, pu) /\ Handover(AckNack(pu, p))
    BY <1>1, <1>2, <1>6 DEF Pdsch
  <2>2. \/ from = available /\ available' = Tail(available) /\ retrans' = retrans
        \/ from = retrans /\ retrans' = Tail(retrans) /\ available' = available
    BY <1>1, <1>2, <1>6 DEF Pdsch
  <2>3. \E v \in Process : /\ Updated(p, v) /\ v.waiting
                           /\ v.ndi = proc[p].ndi /\ v.round = proc[p].round
                           /\ v.fb = After(now, FeedbackTime(Chosen(pu)))
    BY <1>3, <2>1, SentFacts
  <2>4. QED
    BY <1>4, <1>6, <2>1, <2>2, <2>3 DEF Acknowledged
<1>7. QED
  BY <1>5, <1>6

(* The radio side of a slot: time, structures, reports.                     *)
LEMMA SlotInv ==
  ASSUME Lists, RadioTypes, NEW csi \in BOOLEAN, Slot(csi)
  PROVE  Lists' /\ RadioTypes'
<1> DEFINE pu == IF csi THEN WithCsi(pucch) ELSE pucch
<1>1. pu \in Pucchs /\ now \in 0 .. Cycle - 1 /\ air \in Seq(Report) /\ common \in BOOLEAN
  BY WithCsiType DEF RadioTypes
<1>2. /\ now' \in 0 .. Cycle - 1 /\ common' \in BOOLEAN
      /\ taken' \subseteq 0 .. Cycle - 1
      /\ rx' \in Report \cup {NoRx} /\ missed' \subseteq Pid
  <2>1. now \in Int /\ 1 \in Int
    BY <1>1, CycleType
  <2>2. After(now, 1) \in 0 .. Cycle - 1
    BY <2>1, AfterType
  <2>3. now' = After(now, 1) /\ UNCHANGED <<common, rx, missed>> /\ taken' = taken \ {now}
    BY DEF Slot
  <2>4. QED
    BY <1>1, <2>2, <2>3 DEF RadioTypes
<1>3. NoPdsch(pu) \/ Pdsch(pu)
  BY DEF Slot
<1> HIDE DEF pu
<1>4. CASE NoPdsch(pu)
  <2>1. PICK searched \in BOOLEAN : Handover(IF searched THEN Skipped(pu) ELSE pu)
    BY <1>4 DEF NoPdsch
  <2>2. (IF searched THEN Skipped(pu) ELSE pu) \in Pucchs
    BY <1>1, SkippedType
  <2>3. pucch' \in Pucchs /\ air' \in Seq(Report)
    BY <1>1, <2>1, <2>2, HandoverType
  <2>4. Lists'
    BY <1>4 DEF NoPdsch, lists, Lists, ListTypes, ListsMatchProcesses
  <2>5. QED
    BY <1>2, <2>3, <2>4 DEF RadioTypes
<1>5. CASE Pdsch(pu)
  <2>1. PICK from \in {available, retrans}, p \in Pid : Unacknowledged(p, from, pu) \/ Acknowledged(p, from, pu)
    BY <1>1, <1>5, PdschFacts
  <2>2. from # <<>> /\ p = Head(from)
    BY <2>1 DEF ChosenFrom, Unacknowledged, Acknowledged
  <2>3. CASE Unacknowledged(p, from, pu)
    <3>1. pucch' \in Pucchs /\ air' \in Seq(Report)
      BY <1>1, <2>3, HandoverType DEF Unacknowledged
    <3>2. Lists'
      BY <2>2, <2>3, RotateLists DEF Unacknowledged
    <3>3. QED
      BY <1>2, <3>1, <3>2 DEF RadioTypes
  <2>4. CASE Acknowledged(p, from, pu)
    <3>1. AckNack(pu, p) \in Pucchs
      BY <1>1, <2>4, AckNackType DEF Acknowledged
    <3>2. pucch' \in Pucchs /\ air' \in Seq(Report)
      BY <1>1, <2>4, <3>1, HandoverType DEF Acknowledged
    <3>3. Lists'
      BY <2>2, <2>4, SendLists DEF Acknowledged
    <3>4. QED
      BY <1>2, <3>2, <3>3 DEF RadioTypes
  <2>5. QED
    BY <2>1, <2>3, <2>4
<1>6. QED
  BY <1>3, <1>4, <1>5

----------------------------------------------------------------------------
(* Reports and disturbances.                                                *)

DlInv == Lists /\ RadioTypes

(* The invariant is the conjunction of what the run checks.                 *)
LEMMA InvParts == DlInv <=> TypeOK /\ ListsMatchProcesses
  BY TypeParts DEF DlInv, Lists

(* The lists depend on the lists and processes only.                        *)
LEMMA ListsKept == ASSUME Lists, UNCHANGED lists PROVE Lists'
  BY DEF lists, Lists, ListTypes, ListsMatchProcesses

(* What is left of a report is a report, or nothing.                        *)
LEMMA RestType ==
  ASSUME rx \in Report, NEW bits \in Marks, NEW ps
  PROVE  Rest(bits, ps) \in Report \cup {NoRx}
<1>1. CASE bits = <<>>
  BY <1>1 DEF Rest
<1>2. CASE bits # <<>>
  <2>1. Without(bits, ps) \in Marks /\ Len(Without(bits, ps)) = Len(bits)
    BY WithoutType
  <2>2. PICK b \in Marks : b = Without(bits, ps) /\ b # <<>>
    <3>1. Without(bits, ps) # <<>>
      BY <1>2, <2>1 DEF Marks
    <3>2. QED
      BY <2>1, <3>1
  <2>3. [rx EXCEPT !.bits = b] \in Report
    BY <2>2 DEF Report
  <2>4. QED
    BY <1>2, <2>2, <2>3 DEF Rest
<1>3. QED
  BY <1>1, <1>2

(* A report that is handled has bits left.                                  *)
LEMMA RxFacts ==
  ASSUME RadioTypes, rx # NoRx
  PROVE  rx \in Report /\ rx.bits \in Marks /\ Tail(rx.bits) \in Marks
<1>1. rx \in Report
  BY DEF RadioTypes
<1>2. PICK b \in Marks : b = rx.bits /\ b # <<>>
  BY <1>1 DEF Report
<1>3. Tail(b) \in Marks
  BY <1>2 DEF Marks
<1>4. QED
  BY <1>1, <1>2, <1>3

(* find_harq(): a NACK for a report that was lost, or the next bit.         *)
LEMMA BitInv ==
  ASSUME DlInv, SkipMissed \/ \E success \in BOOLEAN : Credit(success)
  PROVE  DlInv'
<1> DEFINE ps == {Head(feedback)}
<1>1. PICK bits \in Marks, success \in BOOLEAN :
        /\ rx # NoRx /\ feedback # <<>> /\ Handle(success)
        /\ rx' = Rest(bits, ps)
        /\ pucch' = ForgetIn(pucch, ps) /\ air' = ForgetAir(ps)
        /\ missed' = missed \ ps
        /\ UNCHANGED <<now, common, taken>>
  <2>1. CASE SkipMissed
    <3>1. rx # NoRx /\ rx.bits \in Marks /\ FALSE \in BOOLEAN
      BY <2>1, RxFacts DEF SkipMissed, DlInv
    <3>2. QED
      BY <2>1, <3>1 DEF SkipMissed
  <2>2. ASSUME NEW s \in BOOLEAN, Credit(s)
        PROVE  \E bits \in Marks, success \in BOOLEAN :
                 /\ rx # NoRx /\ feedback # <<>> /\ Handle(success)
                 /\ rx' = Rest(bits, ps)
                 /\ pucch' = ForgetIn(pucch, ps) /\ air' = ForgetAir(ps)
                 /\ missed' = missed \ ps
                 /\ UNCHANGED <<now, common, taken>>
    <3>1. rx # NoRx /\ Tail(rx.bits) \in Marks
      BY <2>2, RxFacts DEF Credit, DlInv
    <3>2. QED
      BY <2>2, <3>1 DEF Credit
  <2>3. QED
    BY <2>1, <2>2
<1> HIDE DEF ps
<1>2. Lists'
  BY <1>1, HandleLists DEF DlInv
<1>3. rx' \in Report \cup {NoRx}
  BY <1>1, RestType, RxFacts DEF DlInv
<1>4. pucch' \in Pucchs /\ air' \in Seq(Report)
  BY <1>1, ForgetType DEF DlInv, RadioTypes
<1>5. QED
  BY <1>1, <1>2, <1>3, <1>4 DEF DlInv, RadioTypes

(* A report arrives, is dropped or is lost: the structures are not touched. *)
LEMMA ReportInv == ASSUME DlInv, UciIndication \/ Drop \/ LoseReport PROVE DlInv'
<1>1. Lists'
  BY ListsKept DEF DlInv, UciIndication, Drop, LoseReport
<1>2. CASE UciIndication
  <2>1. Head(air) \in Report /\ Tail(air) \in Seq(Report)
    BY <1>2 DEF UciIndication, DlInv, RadioTypes
  <2>2. QED
    BY <1>1, <1>2, <2>1 DEF UciIndication, DlInv, RadioTypes
<1>3. ASSUME NEW r \in Report PROVE Elems(r.bits) \ {Stale} \subseteq Pid
  <2>1. r.bits \in Seq(Pid \cup {Stale}) /\ r.bits # <<>>
    BY DEF Report, Marks
  <2>2. Elems(r.bits) \subseteq Pid \cup {Stale}
    BY <2>1, SomeElems
  <2>3. QED
    BY <2>2
<1>4. CASE Drop
  <2>1. rx \in Report
    BY <1>4, RxFacts DEF Drop, DlInv
  <2>2. Elems(rx.bits) \ {Stale} \subseteq Pid
    BY <1>3, <2>1
  <2>3. QED
    BY <1>1, <1>4, <2>2 DEF Drop, radio, DlInv, RadioTypes
<1>5. CASE LoseReport
  <2>1. Head(air) \in Report /\ Tail(air) \in Seq(Report)
    BY <1>5 DEF LoseReport, DlInv, RadioTypes
  <2>2. Elems(Head(air).bits) \ {Stale} \subseteq Pid
    BY <1>3, <2>1
  <2>3. QED
    BY <1>1, <1>5, <2>1, <2>2 DEF LoseReport, DlInv, RadioTypes
<1>6. QED
  BY <1>2, <1>4, <1>5

(* Other users and reconfigurations leave lists, structures and reports.    *)
LEMMA OthersInv ==
  ASSUME DlInv, ConfigureBwp \/ \E n \in 0 .. MaxFb : Take(After(now, n)) PROVE DlInv'
<1>1. Lists'
  BY ListsKept DEF DlInv, ConfigureBwp, Take
<1>2. CASE ConfigureBwp
  BY <1>1, <1>2 DEF ConfigureBwp, radio, DlInv, RadioTypes
<1>3. ASSUME NEW n \in 0 .. MaxFb, Take(After(now, n)) PROVE DlInv'
  <2>1. now \in Int /\ n \in Int
    BY CycleType, GnbDlHarqAssumption DEF DlInv, RadioTypes, MaxFb
  <2>2. After(now, n) \in 0 .. Cycle - 1
    BY <2>1, AfterType
  <2>3. taken' = taken \cup {After(now, n)} /\ UNCHANGED <<now, common, pucch, air, rx, missed>>
    BY <1>3 DEF Take
  <2>4. QED
    BY <1>1, <2>2, <2>3 DEF DlInv, RadioTypes
<1>4. QED
  BY <1>2, <1>3

(* A reset forgets the processes everywhere.                                *)
LEMMA ResetInv ==
  ASSUME DlInv, NEW reestablish \in BOOLEAN, RaWithCrnti(reestablish)
  PROVE  DlInv'
<1>1. Lists'
  BY ResetLists DEF DlInv
<1>2. pucch' \in Pucchs /\ air' \in Seq(Report)
  BY ForgetType DEF DlInv, RadioTypes, RaWithCrnti
<1>3. /\ common' \in BOOLEAN /\ missed' = {} /\ UNCHANGED <<now, taken, rx>>
  BY DEF DlInv, RadioTypes, RaWithCrnti
<1>4. QED
  BY <1>1, <1>2, <1>3 DEF DlInv, RadioTypes

(* Lists as created when the UE is added, nothing scheduled.                *)
LEMMA InitInv == Init => DlInv
<1> SUFFICES ASSUME Init PROVE DlInv
  OBVIOUS
<1>1. /\ available = [i \in 1 .. NrofHarq |-> i - 1] /\ feedback = <<>> /\ retrans = <<>>
      /\ proc = [p \in Pid |-> [ndi |-> 0, round |-> 0, waiting |-> FALSE, fb |-> -1]]
      /\ now = 0 /\ common \in BOOLEAN /\ taken = {} /\ rx = NoRx /\ air = <<>>
      /\ missed = {} /\ pucch = [i \in 0 .. PucchSize - 1 |-> Off]
  BY DEF Init
<1>2. NrofHarq \in Nat \ {0} /\ RoundMax \in Nat \ {0} /\ NoFeedback \subseteq Pid
  BY GnbDlHarqAssumption
<1>3. available \in Seq(Pid) /\ Len(available) = NrofHarq
  BY <1>1, <1>2 DEF Pid
<1>4. Elems(available) = Pid /\ Once(available)
  <2>1. \A p \in Pid : p + 1 \in 1 .. NrofHarq /\ available[p + 1] = p
    BY <1>1, <1>2 DEF Pid
  <2>2. \A i \in 1 .. NrofHarq : available[i] = i - 1 /\ i - 1 \in Pid
    BY <1>1, <1>2 DEF Pid
  <2>3. Elems(available) = Pid
    BY <1>3, <2>1, <2>2 DEF Elems
  <2>4. Once(available)
    BY <1>2, <1>3, <2>2 DEF Once
  <2>5. QED
    BY <2>3, <2>4
<1>5. proc \in [Pid -> Process]
  <2>1. -1 \in -1 .. Cycle - 1 /\ 0 \in 0 .. RoundMax - 1
    BY <1>2, CycleType
  <2>2. [ndi |-> 0, round |-> 0, waiting |-> FALSE, fb |-> -1] \in Process
    BY <2>1 DEF Process
  <2>3. QED
    BY <1>1, <2>2
<1>6. Lists
  <2>1. <<>> \in Seq(Pid) /\ Elems(<<>>) = {} /\ Once(<<>>)
    BY NoElems
  <2>2. ListTypes
    BY <1>1, <1>3, <1>5, <2>1 DEF ListTypes
  <2>3. \A p \in Pid : proc[p].round = 0 /\ ~proc[p].waiting
    BY <1>1
  <2>4. ListsMatchProcesses
    BY <1>1, <1>2, <1>4, <2>1, <2>3 DEF ListsMatchProcesses
  <2>5. QED
    BY <2>2, <2>4 DEF Lists
<1>7. RadioTypes
  <2>1. 0 \in 0 .. Cycle - 1 /\ <<>> \in Seq(Report)
    BY CycleType
  <2>2. pucch \in Pucchs
    BY <1>1, OffType DEF Pucchs
  <2>3. QED
    BY <1>1, <2>1, <2>2 DEF RadioTypes
<1>8. QED
  BY <1>6, <1>7 DEF DlInv

(* Every action keeps the invariant.                                        *)
LEMMA StepInv == DlInv /\ [Next]_vars => DlInv'
<1> SUFFICES ASSUME DlInv, [Next]_vars PROVE DlInv'
  OBVIOUS
<1>1. ASSUME NEW csi \in BOOLEAN, Slot(csi) PROVE DlInv'
  BY <1>1, SlotInv DEF DlInv
<1>2. CASE SkipMissed \/ \E success \in BOOLEAN : Credit(success)
  BY <1>2, BitInv
<1>3. CASE UciIndication \/ Drop \/ LoseReport
  BY <1>3, ReportInv
<1>4. CASE ConfigureBwp \/ \E n \in 0 .. MaxFb : Take(After(now, n))
  BY <1>4, OthersInv
<1>5. ASSUME NEW reestablish \in BOOLEAN, RaWithCrnti(reestablish) PROVE DlInv'
  BY <1>5, ResetInv
<1>6. CASE UNCHANGED vars
  BY <1>6 DEF vars, lists, radio, DlInv, Lists, ListTypes, ListsMatchProcesses, RadioTypes
<1>7. QED
  BY <1>1, <1>2, <1>3, <1>4, <1>5, <1>6 DEF Next

(* The invariant holds in every reachable state.                            *)
LEMMA DlInvariant == Spec => []DlInv
<1>1. QED
  BY InitInv, StepInv, PTL DEF Spec

(* Types in every state: indices of sched_pucch stay inside it, a PUCCH     *)
(* never has more ACK/NACKs than fit, and rounds stay below the maximum.    *)
THEOREM TypeCorrect == Spec => []TypeOK
<1>1. DlInv => TypeOK
  BY InvParts
<1>2. QED
  BY <1>1, DlInvariant, PTL

(* The lists partition the processes and agree with harq_processes through  *)
(* grants, reports in any order, losses and resets.                         *)
THEOREM ListsAndProcesses == Spec => []ListsMatchProcesses
<1>1. DlInv => ListsMatchProcesses
  BY InvParts
<1>2. QED
  BY <1>1, DlInvariant, PTL

----------------------------------------------------------------------------
(* What HarqPromise sees of a step.                                         *)

Ndi == [p \in Pid |-> proc[p].ndi]
Round == [p \in Pid |-> proc[p].round]
promised == <<St, Ndi, Round, NoFeedback>>

(* The state of a process, from the list it is in.                          *)
LEMMA StFacts ==
  ASSUME Lists, NEW p \in Pid
  PROVE  /\ p \in Elems(available) => St[p] = "idle"
         /\ p \in Elems(feedback) => St[p] = "inflight"
         /\ p \in Elems(retrans) => St[p] = "retx"
  BY DEF St, Lists, ListsMatchProcesses

(* The same after the step.                                                 *)
LEMMA StNextFacts ==
  ASSUME Lists', NEW p \in Pid
  PROVE  /\ p \in Elems(available') => St'[p] = "idle"
         /\ p \in Elems(feedback') => St'[p] = "inflight"
         /\ p \in Elems(retrans') => St'[p] = "retx"
  BY DEF St, Lists, ListsMatchProcesses

\* Every process other than p stays in its list.
OthersStay(p) ==
  \A q \in Pid \ {p} : /\ q \in Elems(available') <=> q \in Elems(available)
                       /\ q \in Elems(feedback') <=> q \in Elems(feedback)

(* One process changes its state.                                           *)
LEMMA StUpdate ==
  ASSUME NEW p \in Pid, NEW c, OthersStay(p), St'[p] = c
  PROVE  St' = [St EXCEPT ![p] = c]
<1>1. \A q \in Pid \ {p} : St'[q] = St[q]
  BY DEF St, OthersStay
<1>2. St' = [q \in Pid |-> St'[q]] /\ St = [q \in Pid |-> St[q]]
  BY DEF St
<1>3. QED
  BY <1>1, <1>2

(* One process changes its indicator and round.                             *)
LEMMA FieldsUpdate ==
  ASSUME NEW p \in Pid, NEW v, Updated(p, v)
  PROVE  /\ Ndi' = [Ndi EXCEPT ![p] = v.ndi]
         /\ Round' = [Round EXCEPT ![p] = v.round]
         /\ [Ndi EXCEPT ![p] = proc[p].ndi] = Ndi
         /\ [Round EXCEPT ![p] = proc[p].round] = Round
  BY DEF Updated, Ndi, Round

(* What the promise sees depends on the lists and processes only.           *)
LEMMA PromisedKept == ASSUME UNCHANGED lists PROVE UNCHANGED promised
  BY DEF lists, promised, St, Ndi, Round

(* All processes idle, indicators and rounds zero.                          *)
LEMMA InitImplements == Init => Promise!Init
<1> SUFFICES ASSUME Init PROVE Promise!Init
  OBVIOUS
<1>1. Lists /\ feedback = <<>> /\ retrans = <<>>
  BY InitInv DEF DlInv, Init
<1>2. St \in [Pid -> {"none", "idle"}]
  BY <1>1, NoElems DEF St, Lists, ListsMatchProcesses
<1>3. /\ [p \in Pid |-> proc[p].ndi] = [p \in Pid |-> 0]
      /\ [p \in Pid |-> proc[p].round] = [p \in Pid |-> 0]
  BY DEF Init
<1>4. NoFeedback \in SUBSET Pid
  BY GnbDlHarqAssumption
<1>5. QED
  BY <1>2, <1>3, <1>4 DEF Promise!Init

(* A block without feedback: its process stays idle.                        *)
LEMMA UnacknowledgedImplements ==
  ASSUME Lists, Lists', NEW p \in Pid, NEW pu, Unacknowledged(p, available, pu)
  PROVE  Promise!SendUnacknowledged(p)
<1>1. available # <<>> /\ p = Head(available) /\ p \in Elems(available)
      /\ available \in Seq(Pid) /\ Once(available)
      /\ available' = Append(Tail(available), p) /\ feedback' = feedback
      /\ Updated(p, AtOnce(p)) /\ p \in NoFeedback
      /\ AtOnce(p).ndi = 1 - proc[p].ndi /\ AtOnce(p).round = 0
  BY DEF Unacknowledged, ChosenFrom, Lists, ListTypes, ListsMatchProcesses
<1>2. Elems(available') = Elems(available)
  BY <1>1, RotateHead
<1>3. St' = St
  BY <1>1, <1>2 DEF St
<1>4. St[p] = "idle" /\ proc[p].round = 0
  BY <1>1, StFacts DEF Lists, ListsMatchProcesses
<1>5. Ndi' = [Ndi EXCEPT ![p] = 1 - Ndi[p]] /\ Round' = Round
  <2>1. Ndi[p] = proc[p].ndi
    BY DEF Ndi
  <2>2. QED
    BY <1>1, <1>4, <2>1, FieldsUpdate
<1>6. QED
  BY <1>1, <1>3, <1>4, <1>5 DEF Promise!SendUnacknowledged, Promise!Flip, Ndi, Round

(* A block with feedback: from available or retrans to feedback.            *)
LEMMA AcknowledgedImplements ==
  ASSUME Lists, Lists', NEW from \in {available, retrans}, NEW p \in Pid, NEW pu,
         Acknowledged(p, from, pu)
  PROVE  Promise!Send(p)
<1>1. /\ from # <<>> /\ p = Head(from) /\ p \in Elems(from) /\ p \notin NoFeedback
      /\ from \in Seq(Pid) /\ feedback \in Seq(Pid) /\ Once(from) /\ Once(feedback)
      /\ Elems(from) \cap Elems(feedback) = {}
      /\ Elems(available) \cap Elems(retrans) = {}
      /\ feedback' = Append(feedback, p)
      /\ \/ from = available /\ available' = Tail(available)
         \/ from = retrans /\ available' = available
  BY DEF Acknowledged, ChosenFrom, Lists, ListTypes, ListsMatchProcesses
<1>2. /\ Elems(Tail(from)) = Elems(from) \ {p}
      /\ Elems(feedback') = Elems(feedback) \cup {p}
  BY <1>1, MoveHead
<1>3. OthersStay(p)
  BY <1>1, <1>2 DEF OthersStay
<1>4. St' = [St EXCEPT ![p] = "inflight"]
  BY <1>2, <1>3, StNextFacts, StUpdate
<1>5. \/ St[p] = "idle" /\ Round[p] = 0
      \/ St[p] = "retx" /\ Round[p] > 0
  BY <1>1, StFacts DEF Lists, ListsMatchProcesses, Round
<1>6. Ndi' = Ndi /\ Round' = Round
  <2>1. PICK v \in Process : Updated(p, v) /\ v.ndi = proc[p].ndi /\ v.round = proc[p].round
    BY DEF Acknowledged
  <2>2. QED
    BY <2>1, FieldsUpdate
<1>7. QED
  BY <1>1, <1>4, <1>5, <1>6 DEF Promise!Send, Ndi, Round

(* The bit of the first process that waits, or a NACK in its place.         *)
LEMMA HandleImplements ==
  ASSUME Lists, Lists', NEW success \in BOOLEAN, feedback # <<>>, Handle(success)
  PROVE  \E p \in Pid : Promise!Finish(p) \/ Promise!Fail(p)
<1>1. PICK p \in Pid :
           /\ p = Head(feedback) /\ feedback' = Tail(feedback)
           /\ \/ /\ Done(p) \in Process /\ Updated(p, Done(p))
                 /\ available' = Append(available, p) /\ retrans' = retrans
              \/ /\ Retried(p) \in Process /\ Updated(p, Retried(p))
                 /\ proc[p].round < RoundMax - 1
                 /\ retrans' = Append(retrans, p) /\ available' = available
  BY HandleFacts DEF Lists
<1>2. /\ available \in Seq(Pid) /\ feedback \in Seq(Pid) /\ retrans \in Seq(Pid)
      /\ Once(available) /\ Once(feedback) /\ Once(retrans)
      /\ Elems(feedback) \cap Elems(available) = {}
      /\ Elems(feedback) \cap Elems(retrans) = {}
  BY DEF Lists, ListTypes, ListsMatchProcesses
<1>3. p \in Elems(feedback) /\ Elems(feedback') = Elems(feedback) \ {p}
  BY <1>1, <1>2, MoveHead
<1>4. St[p] = "inflight" /\ Ndi[p] = proc[p].ndi /\ Round[p] = proc[p].round
  BY <1>3, StFacts DEF Ndi, Round
<1>5. CASE Updated(p, Done(p)) /\ available' = Append(available, p)
  <2>1. Elems(available') = Elems(available) \cup {p}
    BY <1>1, <1>2, <1>5, MoveHead
  <2>2. OthersStay(p)
    BY <1>3, <2>1 DEF OthersStay
  <2>3. St' = [St EXCEPT ![p] = "idle"]
    BY <2>1, <2>2, StNextFacts, StUpdate
  <2>4. Ndi' = [Ndi EXCEPT ![p] = 1 - Ndi[p]] /\ Round' = [Round EXCEPT ![p] = 0]
    BY <1>4, <1>5, FieldsUpdate DEF Done
  <2>5. Promise!Finish(p)
    BY <1>4, <2>3, <2>4 DEF Promise!Finish, Promise!Flip, Ndi, Round
  <2>6. QED
    BY <2>5
<1>6. CASE /\ Updated(p, Retried(p)) /\ proc[p].round < RoundMax - 1
           /\ retrans' = Append(retrans, p) /\ available' = available
  <2>1. Elems(retrans') = Elems(retrans) \cup {p}
    BY <1>1, <1>2, <1>6, MoveHead
  <2>2. OthersStay(p)
    BY <1>3, <1>6 DEF OthersStay
  <2>3. St' = [St EXCEPT ![p] = "retx"]
    BY <2>1, <2>2, StNextFacts, StUpdate
  <2>4. Ndi' = Ndi /\ Round' = [Round EXCEPT ![p] = Round[p] + 1]
    BY <1>4, <1>6, FieldsUpdate DEF Retried
  <2>5. Promise!Fail(p)
    BY <1>4, <1>6, <2>3, <2>4 DEF Promise!Fail, Ndi, Round
  <2>6. QED
    BY <2>5
<1>7. QED
  BY <1>1, <1>5, <1>6

(* The reset makes every process idle and keeps the indicators.             *)
LEMMA ResetImplements ==
  ASSUME Lists, Lists', NEW reestablish \in BOOLEAN, RaWithCrnti(reestablish)
  PROVE  Promise!Reset
<1>1. /\ feedback' = <<>> /\ retrans' = <<>>
      /\ \A p \in Pid : proc'[p].round = 0 /\ proc'[p].ndi = proc[p].ndi
  BY ResetLists
<1>2. Elems(available') = Pid
  BY <1>1, NoElems DEF Lists, ListsMatchProcesses
<1>3. \A p \in Pid : St'[p] = "idle" /\ St[p] # "none"
  BY <1>2 DEF St
<1>4. St' = [p \in Pid |-> IF St[p] = "none" THEN "none" ELSE "idle"]
  BY <1>3 DEF St
<1>5. Ndi' = Ndi /\ Round' = [p \in Pid |-> 0]
  BY <1>1 DEF Ndi, Round
<1>6. QED
  BY <1>4, <1>5 DEF Promise!Reset, Ndi, Round

(* Every step is a step of the promise or leaves what it sees alone.        *)
LEMMA StepImplements ==
  DlInv /\ DlInv' /\ [Next]_vars => [Promise!Next]_(Promise!vars)
<1> SUFFICES ASSUME DlInv, DlInv', [Next]_vars
             PROVE  UNCHANGED promised \/ Promise!Next
  BY DEF promised, Ndi, Round, Promise!vars
<1>1. ASSUME NEW csi \in BOOLEAN, Slot(csi)
      PROVE  UNCHANGED promised \/ Promise!Next
  <2>1. PICK pu \in Pucchs : NoPdsch(pu) \/ Pdsch(pu)
    <3>1. WithCsi(pucch) \in Pucchs /\ pucch \in Pucchs
      BY WithCsiType DEF DlInv, RadioTypes
    <3>2. QED
      BY <1>1, <3>1 DEF Slot
  <2>2. CASE NoPdsch(pu)
    BY <2>2, PromisedKept DEF NoPdsch
  <2>3. CASE Pdsch(pu)
    <3>1. PICK from \in {available, retrans}, p \in Pid :
            Unacknowledged(p, from, pu) \/ Acknowledged(p, from, pu)
      BY <2>3, PdschFacts DEF DlInv
    <3>2. CASE Unacknowledged(p, from, pu)
      <4>1. Unacknowledged(p, available, pu)
        BY <3>2 DEF Unacknowledged
      <4>2. Promise!SendUnacknowledged(p)
        BY <4>1, UnacknowledgedImplements DEF DlInv
      <4>3. QED
        BY <4>2 DEF Promise!Next
    <3>3. CASE Acknowledged(p, from, pu)
      <4>1. Promise!Send(p)
        BY <3>3, AcknowledgedImplements DEF DlInv
      <4>2. QED
        BY <4>1 DEF Promise!Next
    <3>4. QED
      BY <3>1, <3>2, <3>3
  <2>4. QED
    BY <2>1, <2>2, <2>3
<1>2. CASE SkipMissed \/ \E success \in BOOLEAN : Credit(success)
  <2>1. \E success \in BOOLEAN : Handle(success) /\ feedback # <<>>
    BY <1>2 DEF SkipMissed, Credit
  <2>2. \E p \in Pid : Promise!Finish(p) \/ Promise!Fail(p)
    BY <2>1, HandleImplements DEF DlInv
  <2>3. QED
    BY <2>2 DEF Promise!Next
<1>3. CASE UciIndication \/ Drop \/ LoseReport \/ ConfigureBwp
             \/ \E n \in 0 .. MaxFb : Take(After(now, n))
  <2>1. UNCHANGED lists
    BY <1>3 DEF UciIndication, Drop, LoseReport, ConfigureBwp, Take
  <2>2. QED
    BY <2>1, PromisedKept
<1>4. ASSUME NEW reestablish \in BOOLEAN, RaWithCrnti(reestablish)
      PROVE  UNCHANGED promised \/ Promise!Next
  <2>1. Promise!Reset
    BY <1>4, ResetImplements DEF DlInv
  <2>2. QED
    BY <2>1 DEF Promise!Next
<1>5. CASE UNCHANGED vars
  BY <1>5, PromisedKept DEF vars
<1>6. QED
  BY <1>1, <1>2, <1>3, <1>4, <1>5 DEF Next

(* Downlink HARQ implements HarqPromise: a block is sent at most RoundMax   *)
(* times with one indicator, the next block of its process has the other    *)
(* one, and what is sent again has failed, whatever reports were lost.      *)
THEOREM ImplementsHarqPromise == Spec => StopAndWait
<1>1. QED
  BY DlInvariant, InitImplements, StepImplements, PTL DEF Spec, StopAndWait, Promise!Spec

----------------------------------------------------------------------------
(* Slots, seen from the slot the loop runs next.                            *)

Half == Cycle \div 2

\* Slots from one slot to another, negative when it is in the past.
Lead(from, at) == ((at - from + Half) % Cycle) - Half

(* Sizes.                                                                   *)
LEMMA Sizes ==
  /\ Cycle \in Nat \ {0} /\ Half \in Nat /\ 2 * Half <= Cycle /\ Cycle <= 2 * Half + 1
  /\ MaxFb \in Nat \ {0} /\ MinFb \in Nat \ {0} /\ MinFb <= MaxFb
  /\ MaxOverdue \in Nat /\ MaxDelay \in Nat \ {0}
  /\ MaxOverdue + MaxDelay + MaxFb < Half
<1>1. Cycle \in Nat \ {0} /\ Half \in Nat /\ 2 * Half <= Cycle /\ Cycle <= 2 * Half + 1
  BY CycleType DEF Half
<1>2. MaxFb \in Nat \ {0} /\ MinFb \in Nat \ {0} /\ MinFb <= MaxFb
  BY GnbDlHarqAssumption DEF MaxFb
<1>3. MaxOverdue \in Nat /\ MaxDelay \in Nat \ {0}
  BY GnbDlHarqAssumption, FramesAssumption
<1>4. QED
  BY <1>1, <1>2, <1>3, FramesAssumption DEF Half

(* A slot is as many slots after now as it leads by.                        *)
LEMMA LeadFacts ==
  ASSUME NEW n \in 0 .. Cycle - 1
  PROVE  /\ \A at \in 0 .. Cycle - 1 :
              Lead(n, at) \in (0 - Half) .. (Cycle - Half - 1) /\ After(n, Lead(n, at)) = at
         /\ \A d \in (0 - Half) .. (Cycle - Half - 1) :
              After(n, d) \in 0 .. Cycle - 1 /\ Lead(n, After(n, d)) = d
<1>1. n \in Int /\ Cycle \in Nat \ {0} /\ Half \in Nat
  BY Sizes
<1>2. ASSUME NEW at \in 0 .. Cycle - 1
      PROVE  Lead(n, at) \in (0 - Half) .. (Cycle - Half - 1) /\ After(n, Lead(n, at)) = at
  <2> DEFINE a == at - n + Half
             x == a % Cycle
  <2>1. a \in Int /\ at \in Int
    BY <1>1
  <2>2. x \in 0 .. Cycle - 1
    BY <1>1, <2>1, ModParts
  <2>3. a + (n - Half) = at /\ n - Half \in Int
    BY <1>1, <2>1
  <2>4. Lead(n, at) = x - Half
    BY DEF Lead
  <2> HIDE DEF a
  <2>5. (x + (n - Half)) % Cycle = (a + (n - Half)) % Cycle
    BY <1>1, <2>1, <2>3, ModSum
  <2> HIDE DEF x
  <2>6. at = Cycle * 0 + at
    BY <1>1, <2>1
  <2>7. at % Cycle = at
    BY <1>1, <2>1, <2>6, ModUnique
  <2>8. n + (x - Half) = x + (n - Half)
    BY <1>1, <2>2
  <2>9. After(n, x - Half) = at
    BY <2>5, <2>3, <2>7, <2>8, Zenon DEF After
  <2>10. x - Half \in (0 - Half) .. (Cycle - Half - 1)
    BY <1>1, <2>2
  <2>11. QED
    BY <2>4, <2>9, <2>10
<1>3. ASSUME NEW d \in (0 - Half) .. (Cycle - Half - 1)
      PROVE  After(n, d) \in 0 .. Cycle - 1 /\ Lead(n, After(n, d)) = d
  <2> DEFINE a == n + d
             x == a % Cycle
  <2>1. a \in Int /\ d \in Int
    BY <1>1
  <2>2. x \in 0 .. Cycle - 1
    BY <1>1, <2>1, ModParts
  <2>3. a + (Half - n) = d + Half /\ d + Half \in 0 .. Cycle - 1 /\ Half - n \in Int
    BY <1>1, <2>1
  <2>4. After(n, d) = x
    BY DEF After
  <2> HIDE DEF a
  <2>5. (x + (Half - n)) % Cycle = (a + (Half - n)) % Cycle
    BY <1>1, <2>1, <2>3, ModSum
  <2> HIDE DEF x
  <2>6. d + Half = Cycle * 0 + (d + Half) /\ d + Half \in Int
    BY <1>1, <2>1
  <2>7. (d + Half) % Cycle = d + Half
    BY <1>1, <2>3, <2>6, ModUnique
  <2>8. x + (Half - n) = x - n + Half
    BY <1>1, <2>2
  <2>9. Lead(n, x) = (d + Half) - Half
    BY <2>5, <2>3, <2>7, <2>8, Zenon DEF Lead
  <2>10. QED
    BY <1>1, <2>2, <2>4, <2>9
<1>4. QED
  BY <1>2, <1>3

(* One slot later every slot is one slot nearer.                            *)
LEMMA LeadNext ==
  ASSUME NEW n \in 0 .. Cycle - 1, NEW at \in 0 .. Cycle - 1, Lead(n, at) > 0 - Half
  PROVE  /\ After(n, 1) \in 0 .. Cycle - 1
         /\ Lead(After(n, 1), at) = Lead(n, at) - 1
<1>1. n \in Int /\ Cycle \in Nat \ {0} /\ Half \in Nat /\ 1 \in Int
  BY Sizes
<1>2. After(n, 1) \in 0 .. Cycle - 1
  BY <1>1, AfterType
<1> DEFINE d == Lead(n, at)
           m == After(n, 1)
<1>3. d \in (0 - Half) .. (Cycle - Half - 1) /\ After(n, d) = at /\ d > 0 - Half
  BY LeadFacts
<1>4. m = (n + 1) % Cycle
  BY DEF After
<1> HIDE DEF d, m
<1>5. d - 1 \in (0 - Half) .. (Cycle - Half - 1) /\ d - 1 \in Int /\ n + 1 \in Int /\ (n + 1) + (d - 1) = n + d
  BY <1>1, <1>3
<1>6. (((n + 1) % Cycle) + (d - 1)) % Cycle = ((n + 1) + (d - 1)) % Cycle
  BY <1>1, <1>5, ModSum
<1>7. After(m, d - 1) = at
  BY <1>3, <1>4, <1>5, <1>6, Zenon DEF After
<1>8. m \in 0 .. Cycle - 1
  BY <1>2 DEF m
<1>9. Lead(m, at) = d - 1
  BY <1>5, <1>7, <1>8, LeadFacts
<1>10. QED
  BY <1>2, <1>9 DEF d, m

(* The distance of two slots is the difference of their leads.              *)
LEMMA LeadDistance ==
  ASSUME NEW n \in 0 .. Cycle - 1, NEW a \in 0 .. Cycle - 1, NEW b \in 0 .. Cycle - 1
  PROVE  /\ Lead(n, a) <= Lead(n, b) => Distance(a, b) = Lead(n, b) - Lead(n, a)
         /\ Lead(n, a) > Lead(n, b) => Distance(a, b) = Lead(n, b) - Lead(n, a) + Cycle
<1> DEFINE x == Lead(n, a)
           y == Lead(n, b)
<1>1. n \in Int /\ a \in Int /\ b \in Int /\ Cycle \in Nat \ {0} /\ Half \in Nat
  BY Sizes
<1>2. /\ x \in (0 - Half) .. (Cycle - Half - 1) /\ After(n, x) = a
      /\ y \in (0 - Half) .. (Cycle - Half - 1) /\ After(n, y) = b
  BY LeadFacts
<1> HIDE DEF x, y
<1>3. a = (n + x) % Cycle /\ b = (n + y) % Cycle /\ x \in Int /\ y \in Int
  BY <1>1, <1>2 DEF After
<1> DEFINE q == (n + x) \div Cycle
           p == (n + y) \div Cycle
<1>4. n + x \in Int /\ n + y \in Int
  BY <1>1, <1>3
<1>5. q \in Int /\ p \in Int /\ n + x = Cycle * q + a /\ n + y = Cycle * p + b
  BY <1>1, <1>3, <1>4, ModParts
<1> HIDE DEF q, p
<1> DEFINE k == q - p + 1
           z == y - x
<1>6. k \in Int /\ z \in Int /\ b - a + Cycle = z + Cycle * k
  <2>1. Cycle * k = Cycle * q - Cycle * p + Cycle /\ Cycle * q \in Int /\ Cycle * p \in Int
    BY <1>1, <1>5, SMT
  <2>2. k \in Int /\ z \in Int
    BY <1>3, <1>5
  <2> DEFINE cq == Cycle * q
             cp == Cycle * p
             ck == Cycle * k
  <2>3. ck = cq - cp + Cycle /\ cq \in Int /\ cp \in Int /\ n + x = cq + a /\ n + y = cp + b
    BY <1>5, <2>1
  <2> HIDE DEF cq, cp, ck
  <2>4. b - a + Cycle = z + ck
    BY <1>1, <1>3, <2>3
  <2>5. QED
    BY <2>2, <2>4 DEF ck
<1> HIDE DEF k
<1>7. (z + Cycle * k) % Cycle = z % Cycle
  BY <1>1, <1>6, ModShift
<1>8. Distance(a, b) = z % Cycle
  BY <1>6, <1>7 DEF Distance
<1>9. x <= y => z = Cycle * 0 + z /\ z \in 0 .. Cycle - 1
  BY <1>1, <1>2
<1>10. x > y => z = Cycle * (0 - 1) + (z + Cycle) /\ z + Cycle \in 0 .. Cycle - 1
  BY <1>1, <1>2
<1> HIDE DEF z
<1>11. x <= y => z % Cycle = z
  BY <1>1, <1>6, <1>9, ModUnique
<1>12. x > y => z % Cycle = z + Cycle
  <2>1. 0 - 1 \in Int
    OBVIOUS
  <2>2. QED
    BY <1>1, <1>6, <1>10, <2>1, ModUnique
<1>13. QED
  BY <1>8, <1>11, <1>12 DEF x, y, z

----------------------------------------------------------------------------
(* get_pucch_index(): the structures of the slots ahead are different ones. *)

\* Uplink slots of a period up to slot s of it, and up to a slot at all
Count(s) == Cardinality({x \in UlSlots : x <= s})
Uplinks(at) == (at \div PeriodSlots) * Cardinality(UlSlots) + Count(at % PeriodSlots) - 1

(* Uplink slots of a period are counted one by one.                          *)
LEMMA CountFacts ==
  /\ \A s \in UlSlots : Count(s) \in 1 .. Cardinality(UlSlots)
  /\ \A s, t \in UlSlots : s < t => Count(s) < Count(t)
<1> DEFINE U(s) == {x \in UlSlots : x <= s}
<1>1. UlSlots \subseteq Int /\ IsFiniteSet(UlSlots)
  <2>1. UlSlots \subseteq 0 .. PeriodSlots - 1 /\ PeriodSlots - 1 \in Int
    BY GnbDlHarqAssumption
  <2>2. IsFiniteSet(0 .. PeriodSlots - 1)
    BY <2>1, FS_Interval
  <2>3. QED
    <3>1. IsFiniteSet(UlSlots)
      BY <2>1, <2>2, FS_Subset
    <3>2. UlSlots \subseteq Int
      BY <2>1
    <3>3. QED
      BY <3>1, <3>2
<1>2. \A s : IsFiniteSet(U(s)) /\ U(s) \subseteq UlSlots
  BY <1>1, FS_Subset
<1>3. \A s : Cardinality(U(s)) \in Nat /\ Cardinality(U(s)) <= Cardinality(UlSlots)
  BY <1>1, <1>2, FS_Subset, FS_CardinalityType
<1>4. ASSUME NEW s \in UlSlots PROVE Cardinality(U(s)) # 0
  <2>1. s \in U(s)
    BY <1>1
  <2>2. QED
    BY <1>2, <2>1, FS_EmptySet
<1>5. ASSUME NEW s \in UlSlots, NEW t \in UlSlots, s < t
      PROVE  Cardinality(U(s)) < Cardinality(U(t))
  <2>1. s \in Int /\ t \in Int /\ ~(t <= s) /\ t <= t
    BY <1>1, <1>5
  <2>2. \A x \in UlSlots : x <= s => x <= t
    BY <1>1, <1>5, <2>1
  <2>3. U(s) \subseteq U(t) /\ t \in U(t) /\ t \notin U(s)
    BY <2>1, <2>2
  <2> HIDE DEF U
  <2>4. U(s) # U(t) /\ IsFiniteSet(U(t))
    BY <1>2, <2>3
  <2>5. Cardinality(U(s)) <= Cardinality(U(t)) /\ Cardinality(U(s)) # Cardinality(U(t))
    BY <2>3, <2>4, FS_Subset
  <2>6. QED
    BY <1>3, <2>5
<1>6. QED
  BY <1>3, <1>4, <1>5, UlSlotsFacts DEF Count

(* A period of uplink slots more, and a turn of the frame numbers more.     *)
LEMMA UplinksTurn ==
  ASSUME NEW at \in Int
  PROVE  /\ Uplinks(at) \in Int
         /\ Index(at) = Uplinks(at) % PucchSize
         /\ Index(at % Cycle) = Index(at)
         /\ (at % Cycle) % PeriodSlots = at % PeriodSlots
<1> DEFINE P == PeriodSlots
           N == Cardinality(UlSlots)
           Q == Cycle \div P
           w == at \div Cycle
           a == at % Cycle
<1>1. P \in Nat \ {0} /\ N \in Nat \ {0} /\ Cycle \in Nat \ {0} /\ PucchSize \in Nat \ {0}
  BY Sizes, UlSlotsFacts, PucchSizeType, GnbDlHarqAssumption
<1>2. \A x \in Int : /\ x \div P \in Int /\ Count(x % P) \in Nat
                     /\ Uplinks(x) \in Int /\ Index(x) = Uplinks(x) % PucchSize
  <2> SUFFICES ASSUME NEW x \in Int
               PROVE  /\ x \div P \in Int /\ Count(x % P) \in Nat
                      /\ Uplinks(x) \in Int /\ Index(x) = Uplinks(x) % PucchSize
    OBVIOUS
  <2>1. x \div P \in Int
    BY <1>1, ModParts
  <2>2. Count(x % P) \in Nat
    BY UlSlotsFacts DEF Count
  <2>3. \A q, n, c \in Int : q * n + c - 1 \in Int
    OBVIOUS
  <2>4. Uplinks(x) \in Int
    BY <1>1, <2>1, <2>2, <2>3 DEF Uplinks
  <2>5. QED
    BY <2>1, <2>2, <2>4 DEF Index, Uplinks, Count
<1>3. Cycle = P * Q /\ Q \in Int
  <2>1. Cycle % P = 0
    <3>1. SlotsPerFrame \in Nat \ {0} /\ Frames \in Nat \ {0} /\ SlotsPerFrame % P = 0
      BY GnbDlHarqAssumption
    <3> DEFINE f == SlotsPerFrame \div P
    <3>2. f \in Int /\ SlotsPerFrame = P * f
      BY <1>1, <3>1, ModParts
    <3> HIDE DEF f, P
    <3> DEFINE g == Frames * f
    <3>3. g \in Int /\ Cycle = P * g + 0 /\ 0 \in 0 .. P - 1 /\ Cycle \in Int
      BY <1>1, <3>1, <3>2, SMT DEF Cycle
    <3> HIDE DEF g
    <3>4. QED
      BY <1>1, <3>3, ModUnique
  <2>2. QED
    BY <1>1, <2>1, ModParts
<1>4. w \in Int /\ a \in Int /\ at = Cycle * w + a
  BY <1>1, ModParts
<1> HIDE DEF w, a, Q, P, N
<1> DEFINE t == Q * w
<1>5. t \in Int /\ at = a + P * t
  BY <1>1, <1>3, <1>4, SMT
<1>6. (a + P * t) % P = a % P /\ (a + P * t) \div P = (a \div P) + t
  BY <1>1, <1>4, <1>5, ModShift
<1> HIDE DEF t
<1>7. at % P = a % P /\ at \div P = (a \div P) + t
  BY <1>5, <1>6
<1> DEFINE u == Q * N
           z == PucchSize
           k == u \div z
<1>8. k \in Int /\ u = z * k /\ u \in Int
  <2>1. u \in Int
    BY <1>1, <1>3, SMT
  <2>2. u % z = 0
    BY FramesAssumption DEF Q, P, N
  <2>3. z \in Nat \ {0}
    BY <1>1
  <2> HIDE DEF u, z
  <2>4. u \div z \in Int /\ u = z * (u \div z) + (u % z)
    BY <2>1, <2>3, ModParts
  <2>5. z * (u \div z) \in Int
    BY <2>3, <2>4
  <2>6. QED
    BY <2>1, <2>2, <2>4, <2>5
<1>9. t * N = z * (k * w) /\ k * w \in Int
  <2>1. t * N = u * w
    BY <1>1, <1>3, <1>4, SMT DEF t
  <2> HIDE DEF u, k, z
  <2>2. z \in Nat \ {0}
    BY <1>1 DEF z
  <2>3. u * w = z * (k * w) /\ k * w \in Int
    BY <1>4, <1>8, <2>2, SMT
  <2>4. QED
    BY <2>1, <2>3
<1>10. Uplinks(at) = Uplinks(a) + t * N
  <2> DEFINE q == a \div P
             c == Count(a % P)
  <2>1. q \in Int /\ c \in Int
    BY <1>2, <1>4
  <2>2. Uplinks(at) = (q + t) * N + c - 1 /\ Uplinks(a) = q * N + c - 1
    BY <1>7 DEF Uplinks, P, N
  <2> HIDE DEF q, c
  <2>3. (q + t) * N = q * N + t * N /\ q * N \in Int /\ t * N \in Int
    BY <1>1, <1>5, <2>1, SMT
  <2>4. QED
    BY <2>1, <2>2, <2>3
<1> DEFINE m == k * w
<1>11. m \in Int /\ Uplinks(at) = Uplinks(a) + z * m
  BY <1>9, <1>10
<1> HIDE DEF m, k
<1>12. (Uplinks(a) + z * m) % z = Uplinks(a) % z
  BY <1>1, <1>2, <1>4, <1>11, ModShift
<1>13. Index(at) = Index(a)
  BY <1>2, <1>4, <1>11, <1>12
<1>14. QED
  BY <1>2, <1>7, <1>13 DEF a, P

(* Between two uplink slots at most max_fb_time apart there are fewer       *)
(* uplink slots than sched_pucch has structures.                            *)
LEMMA FewerThanStructures ==
  ASSUME NEW a \in Int, NEW b \in Int, a < b, b - a <= MaxFb, IsUl(a), IsUl(b)
  PROVE  Uplinks(a) < Uplinks(b) /\ Uplinks(b) - Uplinks(a) < PucchSize
<1> DEFINE P == PeriodSlots
           N == Cardinality(UlSlots)
           m == MaxFb \div P
           K == Least({n \in {1, 2, 4, 8, 16, 32, 64} : n >= MaxFb \div PeriodSlots + 1})
           qa == a \div P
           qb == b \div P
           ra == a % P
           rb == b % P
           ca == Count(ra)
           cb == Count(rb)
<1>1. P \in Nat \ {0} /\ N \in Nat \ {0} /\ MaxFb \in Nat
  BY Sizes, UlSlotsFacts, GnbDlHarqAssumption
<1>2. /\ qa \in Int /\ ra \in 0 .. P - 1 /\ a = P * qa + ra
      /\ qb \in Int /\ rb \in 0 .. P - 1 /\ b = P * qb + rb
  BY <1>1, ModParts
<1>3. m \in Nat /\ MaxFb < P * m + P
  <2> DEFINE r == MaxFb % P
  <2>1. m \in Int /\ r \in 0 .. P - 1 /\ MaxFb = P * m + r
    BY <1>1, ModParts
  <2> HIDE DEF m, r, P
  <2>2. m >= 0
    BY <1>1, <2>1, SMT
  <2>3. QED
    BY <1>1, <2>1, <2>2, SMT
<1>4. K \in Nat /\ K >= m + 1 /\ PucchSize = N * K
  <2> DEFINE S == {n \in {1, 2, 4, 8, 16, 32, 64} : n >= MaxFb \div PeriodSlots + 1}
  <2>1. MaxFb \div PeriodSlots < 64
    BY GnbDlHarqAssumption
  <2>2. 64 \in S /\ S \subseteq Nat
    BY <1>3, <2>1
  <2>3. Least(S) \in S
    BY <2>2, LeastFacts
  <2>4. QED
    BY <2>3 DEF PucchSize
<1>5. ra \in UlSlots /\ rb \in UlSlots
  BY DEF IsUl
<1>6. /\ ca \in 1 .. N /\ cb \in 1 .. N
      /\ ra < rb => ca < cb
      /\ rb < ra => cb < ca
  BY <1>5, CountFacts
<1>7. Uplinks(a) = qa * N + ca - 1 /\ Uplinks(b) = qb * N + cb - 1
  BY DEF Uplinks
<1> HIDE DEF P, N, m, K, qa, qb, ra, rb, ca, cb
<1> DEFINE k == qb - qa
           pk == P * k
           kn == k * N
<1>8. k \in Int /\ pk \in Int /\ kn \in Int /\ b - a = pk + rb - ra
  <2>1. P * (qb - qa) = P * qb - P * qa /\ P * qb \in Int /\ P * qa \in Int
    BY <1>1, <1>2, SMT
  <2>2. k \in Int /\ pk \in Int /\ kn \in Int
    BY <1>1, <1>2, SMT
  <2>3. QED
    BY <1>2, <2>1, <2>2
<1>9. Uplinks(b) - Uplinks(a) = kn + cb - ca /\ Uplinks(a) \in Int /\ Uplinks(b) \in Int
  <2>1. (qb - qa) * N = qb * N - qa * N /\ qb * N \in Int /\ qa * N \in Int
    BY <1>1, <1>2, SMT
  <2>2. ca \in Int /\ cb \in Int
    BY <1>1, <1>6
  <2>3. QED
    BY <1>7, <2>1, <2>2
<1> DEFINE mn == m * N
<1>10. mn + N <= N * K /\ mn \in Nat /\ N * K \in Int
  BY <1>1, <1>3, <1>4, SMT
<1>11. /\ k >= 0
       /\ (k = 0 => kn = 0 /\ pk = 0)
       /\ (k >= 1 => kn >= N)
       /\ (k <= m => kn <= mn)
       /\ (k <= m + 1 => kn <= mn + N)
       /\ (rb >= ra => k <= m)
       /\ k <= m + 1
  <2>1. pk > 0 - P
    BY <1>1, <1>2, <1>8
  <2>2. k >= 0
    BY <1>1, <1>8, <2>1, SMT
  <2>3. k >= 1 => kn >= N
    BY <1>1, <1>8, SMT
  <2>4. k <= m => kn <= mn
    BY <1>1, <1>3, <1>8, SMT
  <2>5. k <= m + 1 => kn <= mn + N
    <3>1. k <= m + 1 => k * N <= (m + 1) * N
      BY <1>1, <1>3, <1>8, SMT
    <3>2. (m + 1) * N = mn + N
      BY <1>1, <1>3, SMT
    <3>3. QED
      BY <3>1, <3>2
  <2>6. rb >= ra => k <= m
    <3>1. rb >= ra => pk < P * m + P
      <4>1. P * m \in Int
        BY <1>1, <1>3
      <4>2. QED
        BY <1>1, <1>2, <1>3, <1>8, <4>1
    <3>2. P * k < P * m + P => k < m + 1
      BY <1>1, <1>3, <1>8, SMT
    <3>3. QED
      BY <1>3, <1>8, <3>1, <3>2
  <2>7. k <= m + 1
    <3>1. pk < P * m + P + P
      <4>1. P * m \in Int
        BY <1>1, <1>3
      <4>2. QED
        BY <1>1, <1>2, <1>3, <1>8, <4>1
    <3>2. P * k < P * m + P + P => k < m + 2
      BY <1>1, <1>3, <1>8, SMT
    <3>3. QED
      BY <1>3, <1>8, <3>1, <3>2
  <2>8. k = 0 => kn = 0 /\ pk = 0
    BY <1>1
  <2>9. QED
    BY <2>2, <2>3, <2>4, <2>5, <2>6, <2>7, <2>8
<1> HIDE DEF k, kn, pk, mn
<1>12. kn + cb - ca > 0
  <2>1. CASE k = 0
    <3>1. rb > ra
      BY <1>2, <1>8, <1>11, <2>1
    <3>2. QED
      BY <1>1, <1>6, <1>11, <2>1, <3>1
  <2>2. CASE k >= 1
    BY <1>1, <1>6, <1>8, <1>11, <2>2
  <2>3. QED
    BY <1>8, <1>11, <2>1, <2>2
<1>13. kn + cb - ca < N * K
  <2> DEFINE nk == N * K
  <2>1. mn + N <= nk /\ mn \in Nat /\ nk \in Int
    BY <1>10
  <2> HIDE DEF nk
  <2>2. CASE rb >= ra
    <3>1. kn + cb - ca < nk
      BY <1>1, <1>2, <1>6, <1>8, <1>11, <2>1, <2>2
    <3>2. QED
      BY <3>1 DEF nk
  <2>3. CASE rb < ra
    <3>1. kn + cb - ca < nk
      BY <1>1, <1>2, <1>6, <1>8, <1>11, <2>1, <2>3
    <3>2. QED
      BY <3>1 DEF nk
  <2>4. QED
    BY <1>2, <2>2, <2>3
<1>14. QED
  BY <1>4, <1>9, <1>12, <1>13

(* Uplink slots at most max_fb_time ahead share no structure.               *)
LEMMA OneSlotPerStructure ==
  ASSUME NEW n \in 0 .. Cycle - 1, NEW a \in 0 .. Cycle - 1, NEW b \in 0 .. Cycle - 1,
         IsUl(a), IsUl(b), Index(a) = Index(b),
         Lead(n, a) \in 0 .. MaxFb, Lead(n, b) \in 0 .. MaxFb
  PROVE  a = b
<1>1. n \in Int /\ Cycle \in Nat \ {0} /\ MaxFb \in Nat /\ PucchSize \in Nat \ {0}
  BY Sizes, PucchSizeType
<1> DEFINE x == Lead(n, a)
           y == Lead(n, b)
<1>2. x \in 0 .. MaxFb /\ y \in 0 .. MaxFb /\ a = (n + x) % Cycle /\ b = (n + y) % Cycle
  BY LeadFacts DEF After
<1> HIDE DEF x, y
<1>3. n + x \in Int /\ n + y \in Int
  BY <1>1, <1>2
<1>4. ASSUME NEW d \in Int PROVE IsUl(d % Cycle) <=> IsUl(d)
  BY UplinksTurn DEF IsUl
<1>5. IsUl(n + x) /\ IsUl(n + y) /\ Index(n + x) = Index(n + y)
  BY <1>2, <1>3, <1>4, UplinksTurn
<1>6. /\ Uplinks(n + x) \in Int /\ Uplinks(n + y) \in Int
      /\ Uplinks(n + x) % PucchSize = Uplinks(n + y) % PucchSize
  BY <1>3, <1>5, UplinksTurn
<1>7. ASSUME NEW d \in Int, NEW e \in Int, d < e, e - d <= MaxFb, IsUl(d), IsUl(e),
             Uplinks(d) \in Int, Uplinks(e) \in Int, Uplinks(d) % PucchSize = Uplinks(e) % PucchSize
      PROVE  FALSE
  <2>1. Uplinks(d) < Uplinks(e) /\ Uplinks(e) - Uplinks(d) < PucchSize
    BY <1>7, FewerThanStructures
  <2>2. Uplinks(d) - Uplinks(e) < PucchSize
    BY <1>1, <1>7, <2>1
  <2>3. Uplinks(d) = Uplinks(e)
    BY <1>1, <1>7, <2>1, <2>2, ModSame
  <2>4. QED
    BY <1>7, <2>1, <2>3
<1>8. ~(n + x < n + y) /\ ~(n + y < n + x)
  <2>1. (n + y) - (n + x) <= MaxFb /\ (n + x) - (n + y) <= MaxFb
    BY <1>1, <1>2
  <2>2. QED
    BY <1>3, <1>5, <1>6, <1>7, <2>1
<1>9. n + x = n + y
  BY <1>3, <1>8
<1>10. QED
  BY <1>2, <1>9

----------------------------------------------------------------------------
(* find_harq(): past and future by the frame numbers.                       *)

(* The frame of a slot that is counted on beyond the last frame number.     *)
LEMMA FrameTurn ==
  ASSUME NEW a \in Int
  PROVE  /\ FrameOf(a % Cycle) \in 0 .. Frames - 1
         /\ FrameOf(a % Cycle) = (a \div SlotsPerFrame) % Frames
         /\ (a % Cycle) = SlotsPerFrame * FrameOf(a % Cycle) + (a % SlotsPerFrame)
<1> DEFINE S == SlotsPerFrame
           q == a \div S
           r == a % S
           f == q % Frames
           p == q \div Frames
<1>1. S \in Nat \ {0} /\ Frames \in Nat \ {0} /\ Cycle = S * Frames /\ Cycle \in Nat \ {0}
  <2>1. S \in Nat \ {0} /\ Frames \in Nat \ {0}
    BY GnbDlHarqAssumption
  <2>2. QED
    BY <2>1, Sizes, SMT DEF Cycle
<1>2. q \in Int /\ r \in 0 .. S - 1 /\ a = S * q + r
  BY <1>1, ModParts
<1> HIDE DEF q, r
<1>3. p \in Int /\ f \in 0 .. Frames - 1 /\ q = Frames * p + f
  BY <1>1, <1>2, ModParts
<1> HIDE DEF p, f, S
<1> DEFINE s == S * f + r
<1>4. s \in 0 .. Cycle - 1
  <2>1. S * f <= S * (Frames - 1) /\ S * f \in Nat
    BY <1>1, <1>3, SMT
  <2>2. S * (Frames - 1) = Cycle - S
    BY <1>1, SMT
  <2>3. QED
    BY <1>1, <1>2, <2>1, <2>2
<1>5. a = Cycle * p + s
  BY <1>1, <1>2, <1>3, SMT
<1>6. a % Cycle = s
  <2> HIDE DEF s
  <2>1. QED
    BY <1>1, <1>3, <1>4, <1>5, ModUnique
<1>7. s \div S = f
  <2>1. s \in Int /\ f \in Int
    BY <1>1, <1>3, <1>4
  <2>2. s = S * f + r
    OBVIOUS
  <2> HIDE DEF s
  <2>3. QED
    BY <1>1, <1>2, <2>1, <2>2, ModUnique
<1>8. FrameOf(a % Cycle) = f
  BY <1>6, <1>7 DEF FrameOf, S
<1>9. QED
  BY <1>3, <1>6, <1>8 DEF f, q, r, S

(* Half of the frame numbers are more than what matters is apart.           *)
LEMMA PastApart ==
  ASSUME NEW a \in Int, NEW b \in Int, a < b, b - a <= SlotsPerFrame * ((Frames - 1) \div 2)
  PROVE  Past(a % Cycle, b % Cycle) /\ ~Past(b % Cycle, a % Cycle)
<1> DEFINE S == SlotsPerFrame
           F == Frames
           R == (F - 1) \div 2
           qa == a \div S
           qb == b \div S
           ra == a % S
           rb == b % S
           fa == FrameOf(a % Cycle)
           fb == FrameOf(b % Cycle)
<1>1. /\ S \in Nat \ {0} /\ F \in Nat \ {0}
      /\ R \in Nat /\ R < F /\ R <= F \div 2 /\ F - R > F \div 2 /\ F \div 2 \in Nat
  BY GnbDlHarqAssumption
<1>2. /\ qa \in Int /\ ra \in 0 .. S - 1 /\ a = S * qa + ra
      /\ qb \in Int /\ rb \in 0 .. S - 1 /\ b = S * qb + rb
  BY <1>1, ModParts
<1>3. /\ fa \in 0 .. F - 1 /\ fa = qa % F /\ a % Cycle = S * fa + ra
      /\ fb \in 0 .. F - 1 /\ fb = qb % F /\ b % Cycle = S * fb + rb
  BY FrameTurn
<1>4. b - a <= S * R
  OBVIOUS
<1> HIDE DEF qa, qb, ra, rb, fa, fb, R, S, F
<1> DEFINE k == qb - qa
<1>5. k \in 0 .. R
  <2> DEFINE sa == S * qa
             sb == S * qb
             sr == S * R
  <2>1. sa \in Int /\ sb \in Int /\ sr \in Int
    BY <1>1, <1>2
  <2>2. a = sa + ra /\ b = sb + rb /\ b - a <= sr
    BY <1>2, <1>4
  <2> HIDE DEF sa, sb, sr
  <2>3. sb - sa < sr + S /\ sb - sa > 0 - S
    BY <1>1, <1>2, <2>1, <2>2
  <2>4. S * (qb - qa) < S * (R + 1) /\ S * (qb - qa) > S * (0 - 1)
    <3>1. S * (qb - qa) = sb - sa /\ S * (R + 1) = sr + S /\ S * (0 - 1) = 0 - S
      BY <1>1, <1>2, SMT DEF sa, sb, sr
    <3>2. QED
      BY <2>3, <3>1
  <2>5. qb - qa < R + 1 /\ qb - qa > 0 - 1
    BY <1>1, <1>2, <2>4, SMT
  <2>6. QED
    BY <1>1, <1>2, <2>5
<1>6. (fb - fa + F) % F = k % F /\ (fa - fb + F) % F = (0 - k) % F
  <2> DEFINE pa == qa \div F
             pb == qb \div F
  <2>1. /\ pa \in Int /\ qa = F * pa + fa /\ fa \in Int
        /\ pb \in Int /\ qb = F * pb + fb /\ fb \in Int
    <3>1. pa \in Int /\ qa = F * pa + (qa % F) /\ pb \in Int /\ qb = F * pb + (qb % F)
      BY <1>1, <1>2, ModParts
    <3>2. fa \in Int /\ fb \in Int /\ fa = qa % F /\ fb = qb % F
      BY <1>1, <1>3
    <3>3. QED
      BY <3>1, <3>2, Zenon
  <2> HIDE DEF pa, pb
  <2> DEFINE m == pa - pb + 1
             o == pb - pa + 1
             fpa == F * pa
             fpb == F * pb
             fm == F * m
             fo == F * o
  <2>2. /\ m \in Int /\ o \in Int /\ fpa \in Int /\ fpb \in Int
        /\ fm = fpa - fpb + F /\ fo = fpb - fpa + F
    BY <1>1, <2>1, SMT
  <2>3. qa = fpa + fa /\ qb = fpb + fb
    BY <2>1
  <2> HIDE DEF fpa, fpb, fm, fo, m, o
  <2>4. fb - fa + F = k + fm /\ fa - fb + F = (0 - k) + fo
    BY <1>1, <2>1, <2>2, <2>3
  <2>5. k \in Int /\ 0 - k \in Int
    BY <1>5
  <2> DEFINE mk == 0 - k
  <2> HIDE DEF k, mk
  <2>6. (k + F * m) % F = k % F
    BY <1>1, <2>2, <2>5, ModShift
  <2>7. (mk + F * o) % F = mk % F
    BY <1>1, <2>2, <2>5, ModShift DEF mk
  <2>8. QED
    BY <2>4, <2>6, <2>7 DEF fm, fo, mk
<1> HIDE DEF k
<1>7. k % F = k
  <2>1. k = F * 0 + k /\ k \in 0 .. F - 1 /\ k \in Int
    BY <1>1, <1>5
  <2>2. QED
    BY <1>1, <2>1, ModUnique
<1>8. CASE k = 0
  <2>1. (0 - k) % F = 0
    BY <1>7, <1>8
  <2>2. fa = fb
    <3>1. qa = qb
      BY <1>2, <1>8 DEF k
    <3>2. QED
      BY <1>3, <3>1
  <2>3. a % Cycle < b % Cycle /\ ~(b % Cycle < a % Cycle)
    <3>1. qa = qb
      BY <1>2, <1>8 DEF k
    <3> DEFINE sq == S * qa
               sf == S * fa
    <3>2. sq \in Int /\ sf \in Int
      BY <1>1, <1>2, <1>3
    <3>3. a = sq + ra /\ b = sq + rb /\ a % Cycle = sf + ra /\ b % Cycle = sf + rb
      BY <1>2, <1>3, <2>2, <3>1
    <3> DEFINE x == a % Cycle
               y == b % Cycle
    <3> HIDE DEF sq, sf, x, y
    <3>4. ra < rb
      BY <1>1, <1>2, <3>2, <3>3
    <3>5. x = sf + ra /\ y = sf + rb
      BY <3>3 DEF x, y
    <3>6. x < y /\ ~(y < x)
      BY <1>1, <1>2, <3>2, <3>4, <3>5
    <3>7. QED
      BY <3>6 DEF x, y
  <2>4. ~(k % F > F \div 2)
    BY <1>1, <1>7, <1>8
  <2>5. QED
    BY <1>6, <2>2, <2>3, <2>4 DEF Past, fa, fb, F
<1>9. CASE k # 0
  <2>1. (0 - k) % F = F - k
    <3>1. 0 - k = F * (0 - 1) + (F - k) /\ F - k \in 0 .. F - 1 /\ 0 - 1 \in Int /\ 0 - k \in Int
      BY <1>1, <1>5, <1>9
    <3>2. QED
      BY <1>1, <3>1, ModUnique
  <2>2. F - k > F \div 2 /\ ~(k > F \div 2)
    BY <1>1, <1>5
  <2>3. fa # fb
    <3>1. fa = fb => (fb - fa + F) % F = 0
      <4>1. fa = fb => fb - fa + F = F * 1 + 0
        BY <1>1, <1>3
      <4>2. F \in Int /\ 0 \in 0 .. F - 1 /\ F = F * 1 + 0
        BY <1>1
      <4>3. F % F = 0
        BY <1>1, <4>2, ModUnique
      <4>4. fa = fb => fb - fa + F = F
        BY <1>1, <1>3
      <4>5. QED
        BY <4>3, <4>4
    <3>2. QED
      BY <1>6, <1>7, <1>9, <3>1
  <2>4. QED
    BY <1>6, <1>7, <2>1, <2>2, <2>3 DEF Past, fa, fb, F
<1>10. QED
  BY <1>8, <1>9

(* What find_harq() takes for past, present and future of a report.         *)
LEMMA PastIsPast ==
  ASSUME NEW n \in 0 .. Cycle - 1, NEW a \in 0 .. Cycle - 1, NEW b \in 0 .. Cycle - 1,
         Lead(n, a) \in (0 - MaxOverdue) .. (MaxFb - 1), Lead(n, b) \in (0 - MaxDelay) .. -1
  PROVE  /\ Past(a, b) <=> Lead(n, a) < Lead(n, b)
         /\ Past(b, a) <=> Lead(n, b) < Lead(n, a)
<1> DEFINE x == Lead(n, a)
           y == Lead(n, b)
           R == SlotsPerFrame * ((Frames - 1) \div 2)
<1>1. /\ n \in Int /\ MaxFb \in Nat /\ MaxOverdue \in Nat /\ MaxDelay \in Nat
      /\ MaxFb + MaxDelay <= R /\ MaxOverdue <= R /\ R \in Int
  <2>1. (Frames - 1) \div 2 \in Int /\ SlotsPerFrame \in Int
    BY GnbDlHarqAssumption
  <2>2. QED
    BY <2>1, Sizes, FramesAssumption
<1>2. x \in Int /\ y \in Int /\ a = (n + x) % Cycle /\ b = (n + y) % Cycle
  BY LeadFacts DEF After
<1>3. /\ x \in (0 - MaxOverdue) .. (MaxFb - 1) /\ y \in (0 - MaxDelay) .. -1
  OBVIOUS
<1> DEFINE A == n + x
           B == n + y
<1>4. A \in Int /\ B \in Int /\ a = A % Cycle /\ b = B % Cycle /\ B - A = y - x
  BY <1>1, <1>2
<1>5. A - B <= R /\ B - A <= R
  <2> HIDE DEF x, y, R
  <2>1. QED
    BY <1>1, <1>2, <1>3
<1> HIDE DEF x, y, A, B
<1>6. CASE x < y
  <2>1. A < B
    BY <1>2, <1>4, <1>6
  <2>2. Past(a, b) /\ ~Past(b, a)
    BY <1>4, <1>5, <2>1, PastApart
  <2>3. QED
    BY <1>2, <1>6, <2>2 DEF x, y
<1>7. CASE y < x
  <2>1. B < A
    BY <1>2, <1>4, <1>7
  <2>2. Past(b, a) /\ ~Past(a, b)
    BY <1>4, <1>5, <2>1, PastApart
  <2>3. QED
    BY <1>2, <1>7, <2>2 DEF x, y
<1>8. CASE x = y
  <2>1. a = b
    BY <1>2, <1>8
  <2>2. ~Past(a, a)
    <3>1. FrameOf(a) - FrameOf(a) + Frames = Frames /\ Frames \in Nat \ {0}
      <4>1. FrameOf(a) \in Int /\ Frames \in Nat \ {0}
        BY <1>4, FrameTurn, GnbDlHarqAssumption
      <4>2. QED
        BY <4>1
    <3>2. Frames = Frames * 1 + 0 /\ 0 \in 0 .. Frames - 1
      BY <3>1
    <3>3. Frames % Frames = 0
      BY <3>1, <3>2, ModUnique
    <3>4. ~(0 > Frames \div 2)
      BY <3>1
    <3>5. ~(a < a)
      OBVIOUS
    <3>6. QED
      BY <3>1, <3>3, <3>4, <3>5 DEF Past
  <2>3. QED
    BY <1>2, <1>8, <2>1, <2>2 DEF x, y
<1>9. QED
  BY <1>2, <1>6, <1>7, <1>8


----------------------------------------------------------------------------
(* The structures in use are those of uplink slots ahead.                   *)

InWindow(n, pu, far) ==
  \A i \in 0 .. PucchSize - 1 : pu[i] # Off =>
    /\ pu[i].at \in 0 .. Cycle - 1 /\ IsUl(pu[i].at) /\ Index(pu[i].at) = i
    /\ Lead(n, pu[i].at) \in 0 .. far

(* A slot some slots ahead is in the half of the cycle that is ahead.       *)
LEMMA AheadFacts ==
  ASSUME NEW n \in 0 .. Cycle - 1, NEW d \in 0 .. MaxFb
  PROVE  After(n, d) \in 0 .. Cycle - 1 /\ Lead(n, After(n, d)) = d
<1>1. d \in (0 - Half) .. (Cycle - Half - 1)
  BY Sizes
<1>2. QED
  BY <1>1, LeadFacts

(* Only the slot itself can be found in the structure of a slot ahead.      *)
LEMMA InItsStructure ==
  ASSUME NEW n \in 0 .. Cycle - 1, NEW pu, InWindow(n, pu, MaxFb),
         NEW d \in 0 .. MaxFb, IsUl(After(n, d)), pu[Index(After(n, d))] # Off
  PROVE  pu[Index(After(n, d))].at = After(n, d)
<1> DEFINE at == After(n, d)
           i == Index(at)
<1>1. at \in 0 .. Cycle - 1 /\ Lead(n, at) \in 0 .. MaxFb /\ i \in 0 .. PucchSize - 1
  BY AheadFacts, IndexType
<1>2. /\ pu[i].at \in 0 .. Cycle - 1 /\ IsUl(pu[i].at) /\ Index(pu[i].at) = i
      /\ Lead(n, pu[i].at) \in 0 .. MaxFb
  BY <1>1 DEF InWindow
<1> HIDE DEF at
<1>3. pu[i].at = at
  BY <1>1, <1>2, OneSlotPerStructure DEF at
<1>4. QED
  BY <1>3 DEF at

(* Different slots ahead have different structures.                         *)
LEMMA OwnStructure ==
  ASSUME NEW n \in 0 .. Cycle - 1, NEW d \in 0 .. MaxFb, NEW e \in 0 .. MaxFb,
         IsUl(After(n, d)), IsUl(After(n, e)), Index(After(n, d)) = Index(After(n, e))
  PROVE  d = e
<1>1. /\ After(n, d) \in 0 .. Cycle - 1 /\ Lead(n, After(n, d)) = d
      /\ After(n, e) \in 0 .. Cycle - 1 /\ Lead(n, After(n, e)) = e
  BY AheadFacts
<1>2. After(n, d) = After(n, e)
  BY <1>1, OneSlotPerStructure
<1>3. QED
  BY <1>1, <1>2

(* A feedback time is between minRXTXTIME and max_fb_time.                  *)
LEMMA TimesFacts ==
  ASSUME common \in BOOLEAN
  PROVE  /\ \A i \in Candidates : /\ FeedbackTime(i) \in MinFb .. MaxFb
                                  /\ FeedbackTime(i) \in 0 .. MaxFb
                                  /\ IsUl(After(now, FeedbackTime(i)))
         /\ \A i \in Candidates, d \in MinFb .. MaxFb :
              (d < FeedbackTime(i) /\ IsUl(After(now, d))) =>
                \E j \in Candidates : FeedbackTime(j) = d /\ j < i
<1>1. FbTimes \in Nat \ {0} /\ MinFb \in Nat \ {0} /\ MaxFb = FbTimes + MinFb - 1
  BY GnbDlHarqAssumption DEF MaxFb
<1>2. \A i \in Candidates : /\ i \in 1 .. FbTimes /\ FeedbackTime(i) >= MinFb
                            /\ IsUl(After(now, FeedbackTime(i)))
  BY DEF Candidates
<1>3. \A i \in Int : FeedbackTime(i) = i \/ FeedbackTime(i) = i + MinFb - 1
  BY DEF FeedbackTime
<1>4. ASSUME NEW i \in Candidates
      PROVE  FeedbackTime(i) \in MinFb .. MaxFb /\ FeedbackTime(i) \in 0 .. MaxFb
  BY <1>1, <1>2, <1>3
<1>5. ASSUME NEW i \in Candidates, NEW d \in MinFb .. MaxFb, d < FeedbackTime(i), IsUl(After(now, d))
      PROVE  \E j \in Candidates : FeedbackTime(j) = d /\ j < i
  <2>1. CASE common
    <3>1. FeedbackTime(i) = i /\ FeedbackTime(d) = d
      BY <2>1 DEF FeedbackTime
    <3>2. d \in Candidates
      BY <1>1, <1>2, <1>5, <3>1 DEF Candidates
    <3>3. QED
      BY <1>5, <3>1, <3>2
  <2>2. CASE ~common
    <3> DEFINE j == d - MinFb + 1
    <3>1. FeedbackTime(i) = i + MinFb - 1 /\ FeedbackTime(j) = j + MinFb - 1
      BY <2>2 DEF FeedbackTime
    <3>2. j + MinFb - 1 = d /\ j \in 1 .. FbTimes /\ j < i
      BY <1>1, <1>2, <1>5, <3>1
    <3> HIDE DEF j
    <3>3. FeedbackTime(j) = d
      BY <3>1, <3>2
    <3>4. j \in Candidates
      BY <1>5, <3>2, <3>3 DEF Candidates
    <3>5. QED
      BY <3>2, <3>3, <3>4
  <2>3. QED
    BY <2>1, <2>2
<1>6. QED
  BY <1>2, <1>4, <1>5

(* nr_acknack_scheduling() clears no structure.                             *)
LEMMA NothingSkipped ==
  ASSUME now \in 0 .. Cycle - 1, common \in BOOLEAN, NEW pu \in Pucchs, InWindow(now, pu, MaxFb)
  PROVE  Skipped(pu) = pu
<1> DEFINE clash == {Index(After(now, FeedbackTime(i))) : i \in
                  {j \in Tried(pu) : LET at == After(now, FeedbackTime(j))
                                     IN  pu[Index(at)].at \notin {-1, at}}}
<1>1. Tried(pu) \subseteq Candidates
  BY DEF Tried
<1>2. ASSUME NEW j \in Candidates
      PROVE  LET at == After(now, FeedbackTime(j)) IN pu[Index(at)].at \in {-1, at}
  <2> DEFINE d == FeedbackTime(j)
  <2>1. d \in 0 .. MaxFb /\ IsUl(After(now, d))
    BY TimesFacts
  <2> HIDE DEF d
  <2>2. pu[Index(After(now, d))] # Off => pu[Index(After(now, d))].at = After(now, d)
    BY <2>1, InItsStructure
  <2>3. QED
    BY <2>2 DEF Off, d
<1>3. clash = {}
  BY <1>1, <1>2
<1>4. Skipped(pu) = [i \in DOMAIN pu |-> IF i \in clash THEN Off ELSE pu[i]]
  BY DEF Skipped
<1> HIDE DEF clash
<1>5. QED
  BY <1>3, <1>4 DEF Pucchs

----------------------------------------------------------------------------
(* What is to come: the bits of each PUCCH, by its slot.                    *)

OfReport(r) == IF r = NoRx THEN {} ELSE {<<r.at, r.bits>>}
OfAir(a) == {<<a[i].at, a[i].bits>> : i \in 1 .. Len(a)}
OfPucch(pu) == {<<pu[i].at, pu[i].bits>> : i \in {j \in 0 .. PucchSize - 1 : pu[j].bits # <<>>}}
Coming == OfReport(rx) \cup OfAir(air) \cup OfPucch(pucch)

(* nr_csi_meas_reporting() takes a structure that nothing uses.             *)
LEMMA CsiWrites ==
  ASSUME now \in 0 .. Cycle - 1, NEW pu \in Pucchs, InWindow(now, pu, MaxFb - 1), CsiDue(now)
  PROVE  /\ pu[Index(After(now, MaxFb))] = Off
         /\ InWindow(now, WithCsi(pu), MaxFb)
         /\ OfPucch(WithCsi(pu)) = OfPucch(pu)
         /\ \A d \in MinFb .. MaxFb - 1 :
              IsUl(After(now, d)) => WithCsi(pu)[Index(After(now, d))] = pu[Index(After(now, d))]
<1> DEFINE at == After(now, MaxFb)
           k == Index(at)
           c == [at |-> at, csi |-> TRUE, bits |-> <<>>]
           qu == WithCsi(pu)
<1>1. MaxFb \in Nat \ {0} /\ MinFb \in Nat \ {0} /\ MaxFb \in 0 .. MaxFb
  BY Sizes
<1>2. at \in 0 .. Cycle - 1 /\ Lead(now, at) = MaxFb
  BY <1>1, AheadFacts
<1>3. IsUl(at)
  BY <1>2, GnbDlHarqAssumption DEF CsiDue
<1>4. k \in 0 .. PucchSize - 1
  BY <1>2, IndexType
<1> HIDE DEF at
<1>5. InWindow(now, pu, MaxFb)
  BY <1>1 DEF InWindow
<1>6. pu[k] = Off
  <2>1. ASSUME pu[k] # Off PROVE FALSE
    <3>1. pu[k].at = at
      BY <1>1, <1>3, <1>5, <2>1, InItsStructure DEF at
    <3>2. Lead(now, pu[k].at) \in 0 .. MaxFb - 1
      BY <1>4, <2>1 DEF InWindow
    <3>3. QED
      BY <1>1, <1>2, <3>1, <3>2
  <2>2. QED
    BY <2>1
<1>7. qu = [pu EXCEPT ![k] = c]
  BY DEF WithCsi, at
<1> HIDE DEF qu, k
<1>8. /\ qu[k] = c /\ \A i \in 0 .. PucchSize - 1 : i # k => qu[i] = pu[i]
  BY <1>4, <1>7 DEF Pucchs
<1>9. c.bits = <<>> /\ c.at = at /\ pu[k].bits = <<>>
  BY <1>6 DEF Off
<1>10. InWindow(now, qu, MaxFb)
  <2>1. ASSUME NEW i \in 0 .. PucchSize - 1, qu[i] # Off
        PROVE  /\ qu[i].at \in 0 .. Cycle - 1 /\ IsUl(qu[i].at) /\ Index(qu[i].at) = i
               /\ Lead(now, qu[i].at) \in 0 .. MaxFb
    <3>1. CASE i = k
      BY <1>1, <1>2, <1>3, <1>8, <1>9, <3>1 DEF k
    <3>2. CASE i # k
      BY <1>5, <1>8, <2>1, <3>2 DEF InWindow
    <3>3. QED
      BY <3>1, <3>2
  <2>2. QED
    BY <2>1 DEF InWindow
<1>11. OfPucch(qu) = OfPucch(pu)
  <2>1. \A i \in 0 .. PucchSize - 1 : (qu[i].bits # <<>> <=> pu[i].bits # <<>>)
                                      /\ (qu[i].bits # <<>> => qu[i] = pu[i])
    BY <1>8, <1>9
  <2>2. QED
    BY <2>1 DEF OfPucch
<1>12. ASSUME NEW d \in MinFb .. MaxFb - 1, IsUl(After(now, d))
       PROVE  qu[Index(After(now, d))] = pu[Index(After(now, d))]
  <2>1. d \in 0 .. MaxFb /\ d # MaxFb
    BY <1>1
  <2>2. Index(After(now, d)) # k
    BY <1>1, <1>3, <1>12, <2>1, OwnStructure DEF k, at
  <2>3. Index(After(now, d)) \in 0 .. PucchSize - 1
    BY <2>1, AheadFacts, IndexType
  <2>4. QED
    BY <1>8, <2>2, <2>3
<1>13. QED
  BY <1>6, <1>10, <1>11, <1>12 DEF k, at, qu

(* A bit more at the end of a report.                                       *)
LEMMA AppendFacts ==
  ASSUME NEW bits \in Marks, NEW p \in Pid
  PROVE  /\ Len(bits) \in Nat
         /\ Append(bits, p) \in Marks /\ Append(bits, p) # <<>>
         /\ Len(Append(bits, p)) = Len(bits) + 1
         /\ \A i \in 1 .. Len(bits) : Append(bits, p)[i] = bits[i] /\ bits[i] \in Pid \cup {Stale}
         /\ Append(bits, p)[Len(bits) + 1] = p
<1>1. /\ Len(bits) \in Nat /\ Append(bits, p) \in Marks
      /\ Len(Append(bits, p)) = Len(bits) + 1
      /\ \A i \in 1 .. Len(bits) : Append(bits, p)[i] = bits[i] /\ bits[i] \in Pid \cup {Stale}
      /\ Append(bits, p)[Len(bits) + 1] = p
  BY DEF Marks
<1>2. Len(Append(bits, p)) # 0
  BY <1>1
<1>3. Len(<<>>) = 0
  OBVIOUS
<1>4. Append(bits, p) # <<>>
  BY <1>2, <1>3, Zenon
<1>5. QED
  BY <1>1, <1>4

(* The ACK/NACK of a block is the last one in the PUCCH of its slot.        *)
LEMMA AckNackWrites ==
  ASSUME now \in 0 .. Cycle - 1, common \in BOOLEAN, NEW pu \in Pucchs, InWindow(now, pu, MaxFb),
         Suitable(pu) # {}, NEW p \in Pid
  PROVE  \E d \in MinFb .. MaxFb, bits \in Marks :
           /\ FeedbackTime(Chosen(pu)) = d
           /\ IsUl(After(now, d)) /\ HasRoom(pu, After(now, d))
           /\ bits = pu[Index(After(now, d))].bits
           /\ InWindow(now, AckNack(pu, p), MaxFb)
           /\ OfPucch(AckNack(pu, p)) =
                (OfPucch(pu) \ {<<After(now, d), bits>>}) \cup {<<After(now, d), Append(bits, p)>>}
           /\ (bits # <<>> => <<After(now, d), bits>> \in OfPucch(pu))
           /\ \A e \in MinFb .. MaxFb : (e < d /\ IsUl(After(now, e))) => ~HasRoom(pu, After(now, e))
           /\ \A e \in MinFb .. MaxFb : (e # d /\ IsUl(After(now, e))) =>
                AckNack(pu, p)[Index(After(now, e))] = pu[Index(After(now, e))]
<1> DEFINE d == FeedbackTime(Chosen(pu))
           at == After(now, d)
           k == Index(at)
           bits == pu[k].bits
           c == [at |-> at, csi |-> pu[k].csi, bits |-> Append(bits, p)]
           qu == AckNack(pu, p)
<1>1. Suitable(pu) \in SUBSET Nat /\ Suitable(pu) \subseteq Candidates
  BY FeedbackTimeType DEF Suitable
<1>2. Chosen(pu) \in Suitable(pu) /\ \A j \in Suitable(pu) : Chosen(pu) <= j
  BY <1>1, LeastFacts DEF Chosen
<1>3. /\ d \in MinFb .. MaxFb /\ d \in 0 .. MaxFb /\ IsUl(at) /\ HasRoom(pu, at)
  BY <1>1, <1>2, TimesFacts DEF Suitable
<1>4. ASSUME NEW e \in MinFb .. MaxFb, e < d, IsUl(After(now, e))
      PROVE  ~HasRoom(pu, After(now, e))
  <2>1. Chosen(pu) \in Candidates
    BY <1>1, <1>2
  <2>2. PICK j \in Candidates : FeedbackTime(j) = e /\ j < Chosen(pu)
    BY <1>4, <2>1, TimesFacts
  <2>3. j \notin Suitable(pu)
    <3>1. j \in Nat /\ Chosen(pu) \in Nat
      BY <1>1, <1>2, <2>1, <2>2, FeedbackTimeType
    <3>2. QED
      BY <1>2, <2>2, <3>1
  <2>4. QED
    BY <2>2, <2>3 DEF Suitable
<1>5. qu = [pu EXCEPT ![k] = c]
  <2>1. Skipped(pu) = pu
    BY NothingSkipped
  <2>2. QED
    BY <2>1 DEF AckNack
<1> HIDE DEF d
<1>6. at \in 0 .. Cycle - 1 /\ Lead(now, at) = d /\ k \in 0 .. PucchSize - 1
  BY <1>3, AheadFacts, IndexType
<1>7. pu[k] \in Structure /\ bits \in Marks
  BY <1>6, StructureFields DEF Pucchs
<1>8. pu[k] # Off => pu[k].at = at
  BY <1>3, InItsStructure
<1>9. pu[k] = Off => bits = <<>>
  BY DEF Off
<1> HIDE DEF qu, k, at, bits
<1>10. qu[k] = c /\ \A i \in 0 .. PucchSize - 1 : i # k => qu[i] = pu[i]
  BY <1>5, <1>6 DEF Pucchs
<1>11. c.at = at /\ c.bits = Append(bits, p) /\ Append(bits, p) # <<>>
  <2>1. Append(bits, p) # <<>>
    BY <1>7, AppendFacts
  <2>2. QED
    BY <2>1
<1>12. InWindow(now, qu, MaxFb)
  <2>1. ASSUME NEW i \in 0 .. PucchSize - 1, qu[i] # Off
        PROVE  /\ qu[i].at \in 0 .. Cycle - 1 /\ IsUl(qu[i].at) /\ Index(qu[i].at) = i
               /\ Lead(now, qu[i].at) \in 0 .. MaxFb
    <3>1. CASE i = k
      BY <1>3, <1>6, <1>10, <1>11, <3>1 DEF k
    <3>2. CASE i # k
      BY <1>10, <2>1, <3>2 DEF InWindow
    <3>3. QED
      BY <3>1, <3>2
  <2>2. QED
    BY <2>1 DEF InWindow
<1>13. \A i \in 0 .. PucchSize - 1 : (i # k /\ pu[i].bits # <<>>) => pu[i].at # at
  <2>1. ASSUME NEW i \in 0 .. PucchSize - 1, i # k, pu[i].bits # <<>>, pu[i].at = at PROVE FALSE
    <3>1. pu[i] # Off
      BY <2>1 DEF Off
    <3>2. Index(pu[i].at) = i
      BY <3>1 DEF InWindow
    <3>3. QED
      BY <2>1, <3>2 DEF k
  <2>2. QED
    BY <2>1
<1>14. bits # <<>> => pu[k].at = at
  BY <1>8, <1>9
<1>15. OfPucch(qu) = (OfPucch(pu) \ {<<at, bits>>}) \cup {<<at, Append(bits, p)>>}
  <2>1. ASSUME NEW x \in OfPucch(qu)
        PROVE  x \in (OfPucch(pu) \ {<<at, bits>>}) \cup {<<at, Append(bits, p)>>}
    <3>1. PICK i \in 0 .. PucchSize - 1 : qu[i].bits # <<>> /\ x = <<qu[i].at, qu[i].bits>>
      BY DEF OfPucch
    <3>2. CASE i = k
      BY <1>10, <1>11, <3>1, <3>2
    <3>3. CASE i # k
      <4>1. qu[i] = pu[i] /\ x = <<pu[i].at, pu[i].bits>> /\ pu[i].bits # <<>>
        BY <1>10, <3>1, <3>3
      <4>2. pu[i].at # at
        BY <1>13, <3>3, <4>1
      <4>3. x # <<at, bits>>
        BY <4>1, <4>2
      <4>4. x \in OfPucch(pu)
        BY <4>1 DEF OfPucch
      <4>5. QED
        BY <4>3, <4>4
    <3>4. QED
      BY <3>2, <3>3
  <2>2. ASSUME NEW x \in OfPucch(pu), x # <<at, bits>> PROVE x \in OfPucch(qu)
    <3>1. PICK i \in 0 .. PucchSize - 1 : pu[i].bits # <<>> /\ x = <<pu[i].at, pu[i].bits>>
      BY DEF OfPucch
    <3>2. i # k
      BY <1>14, <2>2, <3>1 DEF bits
    <3>3. qu[i] = pu[i]
      BY <1>10, <3>2
    <3>4. QED
      BY <3>1, <3>3 DEF OfPucch
  <2>3. <<at, Append(bits, p)>> \in OfPucch(qu)
    BY <1>6, <1>10, <1>11 DEF OfPucch
  <2>4. QED
    BY <2>1, <2>2, <2>3
<1>16. bits # <<>> => <<at, bits>> \in OfPucch(pu)
  BY <1>6, <1>14 DEF OfPucch, bits
<1>17. ASSUME NEW e \in MinFb .. MaxFb, e # d, IsUl(After(now, e))
       PROVE  qu[Index(After(now, e))] = pu[Index(After(now, e))]
  <2>1. e \in 0 .. MaxFb
    BY Sizes
  <2>2. Index(After(now, e)) # k
    BY <1>3, <1>17, <2>1, OwnStructure DEF k, at
  <2>3. Index(After(now, e)) \in 0 .. PucchSize - 1
    BY <2>1, AheadFacts, IndexType
  <2>4. QED
    BY <1>10, <2>2, <2>3
<1> d \in MinFb .. MaxFb /\ bits \in Marks
  BY <1>3, <1>7
<1> WITNESS d \in MinFb .. MaxFb, bits \in Marks
<1> QED
  BY <1>3, <1>4, <1>12, <1>15, <1>16, <1>17 DEF d, qu, at, bits, k

----------------------------------------------------------------------------
(* schedule_pucch_core(): the PUCCH of this slot becomes a report to come.  *)

\* Reports come in the order of their slots, each within the delay.
AirInOrder(n, a) ==
  /\ \A i \in 1 .. Len(a) : Lead(n, a[i].at) \in (0 - MaxDelay) .. -1
  /\ \A i, j \in 1 .. Len(a) : i < j => Lead(n, a[i].at) < Lead(n, a[j].at)

(* What is ahead is one slot nearer in the next slot, and has not passed.   *)
LEMMA NextAhead ==
  ASSUME now \in 0 .. Cycle - 1, NEW at \in 0 .. Cycle - 1
  PROVE  /\ Lead(now, at) > 0 - Half => Lead(After(now, 1), at) = Lead(now, at) - 1
         /\ Lead(now, at) \in Int
         /\ Lead(now, now) = 0
         /\ Lead(now, at) = 0 => at = now
<1>1. Lead(now, at) \in Int /\ (Lead(now, at) = 0 => at = now)
  <2>1. Lead(now, at) \in Int /\ After(now, Lead(now, at)) = at
    BY LeadFacts, Sizes
  <2>2. After(now, 0) = now
    <3>1. now + 0 = now /\ now = Cycle * 0 + now /\ now \in Int
      BY Sizes
    <3>2. now % Cycle = now
      BY <3>1, Sizes, ModUnique
    <3>3. QED
      BY <3>1, <3>2 DEF After
  <2>3. QED
    BY <2>1, <2>2
<1>2. Lead(now, now) = 0
  <2>1. now - now + Half = Half /\ Half = Cycle * 0 + Half /\ Half \in 0 .. Cycle - 1 /\ Half \in Int
    BY Sizes
  <2>2. Half % Cycle = Half
    BY <2>1, Sizes, ModUnique
  <2>3. QED
    BY <2>1, <2>2 DEF Lead
<1>3. QED
  BY <1>1, <1>2, LeadNext

(* Every report keeps its order, its bits and its slot.                     *)
LEMMA HandoverFacts ==
  ASSUME now \in 0 .. Cycle - 1, air \in Seq(Report), NEW pu \in Pucchs, Handover(pu),
         InWindow(now, pu, MaxFb), AirInOrder(now, air),
         \A i \in 1 .. Len(air) : Lead(now, air[i].at) > 0 - MaxDelay
  PROVE  /\ InWindow(After(now, 1), pucch', MaxFb - 1)
         /\ AirInOrder(After(now, 1), air')
         /\ OfAir(air') \cup OfPucch(pucch') = OfAir(air) \cup OfPucch(pu)
         /\ \A d \in 1 .. MaxFb :
              IsUl(After(now, d)) => pucch'[Index(After(now, d))] = pu[Index(After(now, d))]
<1> DEFINE k == Index(now)
           m == After(now, 1)
<1>1. /\ MaxDelay \in Nat \ {0} /\ MaxFb \in Nat \ {0} /\ Half \in Nat
      /\ 0 - MaxFb > 0 - Half /\ 0 - MaxDelay > 0 - Half /\ 0 \in 0 .. MaxFb
  BY Sizes
<1>2. k \in 0 .. PucchSize - 1 /\ Lead(now, now) = 0
  BY IndexType, NextAhead
<1>3. pucch' = IF IsUl(now) THEN [pu EXCEPT ![k] = Off] ELSE pu
  BY DEF Handover
<1>4. \A i \in 0 .. PucchSize - 1 : \/ pucch'[i] = pu[i] /\ (i # k \/ ~IsUl(now))
                                    \/ pucch'[i] = Off /\ i = k /\ IsUl(now)
  BY <1>2, <1>3 DEF Pucchs
<1> HIDE DEF k, m
<1>5. (IsUl(now) /\ pu[k] # Off) => pu[k].at = now
  <2>1. ASSUME IsUl(now), pu[k] # Off PROVE pu[k].at = now
    <3>1. /\ pu[k].at \in 0 .. Cycle - 1 /\ IsUl(pu[k].at) /\ Index(pu[k].at) = k
          /\ Lead(now, pu[k].at) \in 0 .. MaxFb
      BY <1>2, <2>1 DEF InWindow
    <3>2. Index(now) = k /\ Lead(now, now) \in 0 .. MaxFb
      BY <1>1, <1>2 DEF k
    <3>3. QED
      BY <2>1, <3>1, <3>2, OneSlotPerStructure
  <2>2. QED
    BY <2>1
<1>6. ASSUME NEW i \in 0 .. PucchSize - 1, pucch'[i] # Off
      PROVE  /\ pucch'[i].at \in 0 .. Cycle - 1 /\ IsUl(pucch'[i].at) /\ Index(pucch'[i].at) = i
             /\ Lead(m, pucch'[i].at) \in 0 .. (MaxFb - 1)
  <2>1. pucch'[i] = pu[i] /\ (i # k \/ ~IsUl(now)) /\ pu[i] # Off
    BY <1>4, <1>6
  <2> DEFINE at == pu[i].at
  <2>2. /\ at \in 0 .. Cycle - 1 /\ IsUl(at) /\ Index(at) = i
        /\ Lead(now, at) \in 0 .. MaxFb
    BY <2>1 DEF InWindow
  <2>3. pucch'[i].at = at
    BY <2>1
  <2> HIDE DEF at
  <2>4. at # now
    BY <2>1, <2>2 DEF k
  <2>5. Lead(now, at) # 0 /\ Lead(now, at) \in Int /\ Lead(m, at) = Lead(now, at) - 1
    BY <1>1, <2>2, <2>4, NextAhead DEF m
  <2>6. Lead(m, at) \in 0 .. (MaxFb - 1)
    BY <1>1, <2>2, <2>5
  <2>7. QED
    BY <2>2, <2>3, <2>6
<1>7. InWindow(m, pucch', MaxFb - 1)
  BY <1>6 DEF InWindow
<1>8. Len(air) \in Nat /\ \A i \in 1 .. Len(air) : air[i] \in Report /\ air[i].at \in 0 .. Cycle - 1
  <2>1. Len(air) \in Nat /\ \A i \in 1 .. Len(air) : air[i] \in Report
    OBVIOUS
  <2>2. \A r \in Report : r.at \in 0 .. Cycle - 1
    BY DEF Report
  <2>3. QED
    BY <2>1, <2>2
<1>9. \A i \in 1 .. Len(air) : /\ Lead(now, air[i].at) \in Int
                               /\ Lead(m, air[i].at) = Lead(now, air[i].at) - 1
                               /\ Lead(now, air[i].at) > 0 - MaxDelay
                               /\ Lead(now, air[i].at) <= -1
  <2>1. ASSUME NEW i \in 1 .. Len(air)
        PROVE  /\ Lead(now, air[i].at) \in Int
               /\ Lead(m, air[i].at) = Lead(now, air[i].at) - 1
               /\ Lead(now, air[i].at) > 0 - MaxDelay
               /\ Lead(now, air[i].at) <= -1
    <3> DEFINE at == air[i].at
    <3>1. at \in 0 .. Cycle - 1 /\ Lead(now, at) > 0 - MaxDelay /\ Lead(now, at) \in (0 - MaxDelay) .. -1
      BY <1>8 DEF AirInOrder
    <3> HIDE DEF at
    <3>2. Lead(now, at) \in Int /\ Lead(now, at) > 0 - Half /\ Lead(now, at) <= -1
      BY <1>1, <3>1, NextAhead
    <3>3. Lead(m, at) = Lead(now, at) - 1
      BY <3>1, <3>2, NextAhead DEF m
    <3>4. QED
      BY <3>1, <3>2, <3>3 DEF at
  <2>2. QED
    BY <2>1
<1>10. AirInOrder(m, air)
  <2>1. ASSUME NEW i \in 1 .. Len(air) PROVE Lead(m, air[i].at) \in (0 - MaxDelay) .. -1
    BY <1>1, <1>9
  <2>2. ASSUME NEW i \in 1 .. Len(air), NEW j \in 1 .. Len(air), i < j
        PROVE  Lead(m, air[i].at) < Lead(m, air[j].at)
    <3>1. Lead(now, air[i].at) < Lead(now, air[j].at)
      BY <2>2 DEF AirInOrder
    <3>2. QED
      BY <1>9, <3>1
  <2>3. QED
    BY <2>1, <2>2 DEF AirInOrder
<1>11. CASE ~IsUl(now)
  <2>1. pucch' = pu /\ air' = air
    BY <1>3, <1>11 DEF Handover
  <2>2. QED
    BY <1>7, <1>10, <2>1, Zenon DEF m
<1>12. CASE IsUl(now)
  <2>1. ASSUME NEW d \in 1 .. MaxFb, IsUl(After(now, d))
        PROVE  pucch'[Index(After(now, d))] = pu[Index(After(now, d))]
    <3>1. d \in 0 .. MaxFb /\ d # 0
      BY <1>1
    <3>2. After(now, d) \in 0 .. Cycle - 1 /\ Lead(now, After(now, d)) = d
      BY <3>1, AheadFacts
    <3>3. Index(After(now, d)) # k
      BY <1>1, <1>2, <1>12, <2>1, <3>1, <3>2, OneSlotPerStructure DEF k
    <3>4. QED
      BY <1>4, <3>2, <3>3, IndexType
  <2>2. CASE pu[k].bits = <<>>
    <3>1. air' = air
      BY <2>2 DEF Handover, k
    <3>2. \A i \in 0 .. PucchSize - 1 : /\ pucch'[i].bits # <<>> <=> pu[i].bits # <<>>
                                        /\ pu[i].bits # <<>> => pucch'[i] = pu[i]
      BY <1>4, <2>2 DEF Off
    <3>3. OfPucch(pucch') = OfPucch(pu)
      BY <3>2 DEF OfPucch
    <3>4. QED
      BY <1>7, <1>10, <2>1, <3>1, <3>3, Zenon DEF m
  <2>3. CASE pu[k].bits # <<>>
    <3>1. pu[k] # Off
      BY <2>3 DEF Off
    <3>2. pu[k].at = now
      BY <1>5, <1>12, <3>1
    <3> DEFINE r == [at |-> now, bits |-> pu[k].bits]
    <3>3. air' = Append(air, r)
      BY <1>12, <2>3, <3>2 DEF Handover, k
    <3>4. r.at = now /\ r.bits = pu[k].bits /\ r \in Report
      <4>1. pu[k] \in Structure
        BY <1>2 DEF Pucchs
      <4>2. pu[k].bits \in Marks
        BY <4>1, StructureFields
      <4>3. QED
        BY <2>3, <4>2 DEF Report
    <3> HIDE DEF r
    <3>5. /\ Len(air') = Len(air) + 1 /\ \A i \in 1 .. Len(air) : air'[i] = air[i]
          /\ air'[Len(air) + 1] = r
      BY <3>3, <3>4
    <3>6. Lead(m, now) = -1
      <4>1. Lead(now, now) > 0 - Half
        BY <1>1, <1>2
      <4>2. Lead(m, now) = Lead(now, now) - 1
        BY <4>1, NextAhead DEF m
      <4>3. QED
        BY <1>2, <4>2
    <3>7. AirInOrder(m, air')
      <4>1. ASSUME NEW i \in 1 .. Len(air') PROVE Lead(m, air'[i].at) \in (0 - MaxDelay) .. -1
        <5>1. CASE i = Len(air) + 1
          BY <1>1, <3>4, <3>5, <3>6, <5>1
        <5>2. CASE i \in 1 .. Len(air)
          BY <1>10, <3>5, <5>2 DEF AirInOrder
        <5>3. QED
          BY <1>8, <3>5, <5>1, <5>2
      <4>2. ASSUME NEW i \in 1 .. Len(air'), NEW j \in 1 .. Len(air'), i < j
            PROVE  Lead(m, air'[i].at) < Lead(m, air'[j].at)
        <5>1. i \in 1 .. Len(air) /\ air'[i] = air[i]
          BY <1>8, <3>5, <4>2
        <5>2. CASE j = Len(air) + 1
          <6>1. Lead(m, air[i].at) = Lead(now, air[i].at) - 1 /\ Lead(now, air[i].at) \in Int
                /\ Lead(now, air[i].at) <= -1
            BY <1>9, <5>1
          <6>2. Lead(m, air'[j].at) = -1
            BY <3>4, <3>5, <3>6, <5>2
          <6>3. QED
            BY <5>1, <6>1, <6>2
        <5>3. CASE j \in 1 .. Len(air)
          BY <1>10, <3>5, <4>2, <5>1, <5>3 DEF AirInOrder
        <5>4. QED
          BY <1>8, <3>5, <5>2, <5>3
      <4>3. QED
        BY <4>1, <4>2 DEF AirInOrder
    <3>8. OfAir(air') = OfAir(air) \cup {<<now, pu[k].bits>>}
      <4>1. ASSUME NEW x \in OfAir(air') PROVE x \in OfAir(air) \cup {<<now, pu[k].bits>>}
        <5>1. PICK i \in 1 .. Len(air') : x = <<air'[i].at, air'[i].bits>>
          BY DEF OfAir
        <5>2. i = Len(air) + 1 \/ i \in 1 .. Len(air)
          BY <1>8, <3>5
        <5>3. QED
          BY <3>4, <3>5, <5>1, <5>2 DEF OfAir
      <4>2. ASSUME NEW x \in OfAir(air) PROVE x \in OfAir(air')
        <5>1. PICK i \in 1 .. Len(air) : x = <<air[i].at, air[i].bits>>
          BY DEF OfAir
        <5>2. i \in 1 .. Len(air') /\ air'[i] = air[i]
          BY <1>8, <3>5
        <5>3. QED
          BY <5>1, <5>2 DEF OfAir
      <4>3. <<now, pu[k].bits>> \in OfAir(air')
        <5>1. Len(air) + 1 \in 1 .. Len(air')
          BY <1>8, <3>5
        <5>2. QED
          BY <3>4, <3>5, <5>1 DEF OfAir
      <4>4. QED
        BY <4>1, <4>2, <4>3
    <3>9. OfPucch(pucch') \cup {<<now, pu[k].bits>>} = OfPucch(pu)
      <4>1. ASSUME NEW x \in OfPucch(pu) PROVE x \in OfPucch(pucch') \cup {<<now, pu[k].bits>>}
        <5>1. PICK i \in 0 .. PucchSize - 1 : pu[i].bits # <<>> /\ x = <<pu[i].at, pu[i].bits>>
          BY DEF OfPucch
        <5>2. CASE i = k
          BY <3>2, <5>1, <5>2
        <5>3. CASE i # k
          <6>1. pucch'[i] = pu[i]
            BY <1>4, <5>3
          <6>2. QED
            BY <5>1, <6>1 DEF OfPucch
        <5>4. QED
          BY <5>2, <5>3
      <4>2. ASSUME NEW x \in OfPucch(pucch') PROVE x \in OfPucch(pu)
        <5>1. PICK i \in 0 .. PucchSize - 1 : pucch'[i].bits # <<>> /\ x = <<pucch'[i].at, pucch'[i].bits>>
          BY DEF OfPucch
        <5>2. pucch'[i] = pu[i]
          BY <1>4, <5>1 DEF Off
        <5>3. QED
          BY <5>1, <5>2 DEF OfPucch
      <4>3. <<now, pu[k].bits>> \in OfPucch(pu)
        BY <1>2, <2>3, <3>2 DEF OfPucch
      <4>4. QED
        BY <4>1, <4>2, <4>3
    <3>10. OfAir(air') \cup OfPucch(pucch') = OfAir(air) \cup OfPucch(pu)
      BY <3>8, <3>9
    <3>11. QED
      BY <1>7, <2>1, <3>7, <3>10 DEF m
  <2>4. QED
    BY <2>2, <2>3
<1>13. QED
  BY <1>11, <1>12

----------------------------------------------------------------------------
(* The invariant behind the reports.                                        *)

\* Structures are those of the slots ahead, reports those of the slots behind;
\* a report that is handled is older than those on the air.
Window ==
  /\ InWindow(now, pucch, MaxFb - 1)
  /\ AirInOrder(now, air)
  /\ rx # NoRx => /\ Lead(now, rx.at) \in (0 - MaxDelay) .. -1
                  /\ \A i \in 1 .. Len(air) : Lead(now, rx.at) < Lead(now, air[i].at)

\* The slot a process waits for is neither too old nor too far ahead, and the
\* processes of feedback_dl_harq stand in the order of their slots.
QueueInOrder ==
  /\ \A p \in Elems(feedback) :
       /\ proc[p].fb \in 0 .. Cycle - 1
       /\ Lead(now, proc[p].fb) \in (0 - MaxOverdue) .. (MaxFb - 1)
  /\ \A i, j \in 1 .. Len(feedback) :
       i < j => Lead(now, proc[feedback[i]].fb) <= Lead(now, proc[feedback[j]].fb)

\* A PUCCH before the one a process was given has no room, and gets none: so
\* the next process is not given an earlier one.
FullBefore(pu) ==
  \A p \in Elems(feedback) : \A d \in MinFb .. MaxFb :
    (d < Lead(now, proc[p].fb) /\ IsUl(After(now, d))) => ~HasRoom(pu, After(now, d))

\* Bits are those of processes that wait for this slot, in the order of the list.
BitsSound ==
  \A c \in Coming :
    /\ \A p \in Own(c[2]) : p \in Elems(feedback) /\ proc[p].fb = c[1]
    /\ \A j, k \in 1 .. Len(c[2]) :
         (j < k /\ c[2][j] # Stale /\ c[2][k] # Stale) => Before(feedback, c[2][j], c[2][k])

\* A process that waits has a bit, or its report was lost as a whole.
BitsComplete == \A p \in Elems(feedback) \ missed : \E c \in Coming : p \in Own(c[2])
MissedGone ==
  \A p \in missed : /\ p \in Elems(feedback)
                    /\ Lead(now, proc[p].fb) < 0
                    /\ \A c \in Coming : c[1] # proc[p].fb

OrderInv ==
  /\ Window /\ QueueInOrder /\ FullBefore(pucch)
  /\ BitsSound /\ BitsComplete /\ MissedGone

(* A report on the air is a record of a slot and some bits.                 *)
LEMMA AirFacts ==
  ASSUME NEW a \in Seq(Report)
  PROVE  /\ Len(a) \in Nat
         /\ \A i \in 1 .. Len(a) : /\ a[i] \in Report /\ a[i].at \in 0 .. Cycle - 1
                                   /\ a[i].bits \in Marks /\ a[i].bits # <<>>
<1>1. Len(a) \in Nat /\ \A i \in 1 .. Len(a) : a[i] \in Report
  OBVIOUS
<1>2. \A r \in Report : r.at \in 0 .. Cycle - 1 /\ r.bits \in Marks /\ r.bits # <<>>
  BY DEF Report
<1>3. QED
  BY <1>1, <1>2

(* Each slot has one report to come, within the delay or some slots ahead.  *)
LEMMA ComingFacts ==
  ASSUME RadioTypes, Window
  PROVE  /\ \A c \in Coming : /\ c[1] \in 0 .. Cycle - 1 /\ c[2] \in Marks /\ c[2] # <<>>
                              /\ Lead(now, c[1]) \in (0 - MaxDelay) .. (MaxFb - 1)
         /\ \A c, d \in Coming : c[1] = d[1] => c = d
         /\ rx # NoRx => \A c \in Coming : c = <<rx.at, rx.bits>> \/ Lead(now, rx.at) < Lead(now, c[1])
<1> USE DEF RadioTypes
<1>1. /\ MaxDelay \in Nat \ {0} /\ MaxFb \in Nat \ {0} /\ now \in 0 .. Cycle - 1
  BY Sizes
<1>2. ASSUME NEW c \in OfPucch(pucch)
      PROVE  /\ c[1] \in 0 .. Cycle - 1 /\ c[2] \in Marks /\ c[2] # <<>> /\ c = <<c[1], c[2]>>
             /\ Lead(now, c[1]) \in 0 .. (MaxFb - 1)
             /\ IsUl(c[1]) /\ \E i \in 0 .. PucchSize - 1 : /\ Index(c[1]) = i
                                                         /\ c = <<pucch[i].at, pucch[i].bits>>
  <2>1. PICK i \in 0 .. PucchSize - 1 : pucch[i].bits # <<>> /\ c = <<pucch[i].at, pucch[i].bits>>
    BY DEF OfPucch
  <2>2. pucch[i] # Off
    BY <2>1 DEF Off
  <2>3. pucch[i] \in Structure
    BY DEF Pucchs
  <2>4. pucch[i].bits \in Marks
    BY <2>3, StructureFields
  <2>5. /\ pucch[i].at \in 0 .. Cycle - 1 /\ IsUl(pucch[i].at) /\ Index(pucch[i].at) = i
        /\ Lead(now, pucch[i].at) \in 0 .. (MaxFb - 1)
    BY <2>2 DEF Window, InWindow
  <2>6. c[1] = pucch[i].at /\ c[2] = pucch[i].bits
    BY <2>1
  <2>7. QED
    BY <2>1, <2>4, <2>5, <2>6
<1>3. ASSUME NEW c \in OfAir(air)
      PROVE  /\ c[1] \in 0 .. Cycle - 1 /\ c[2] \in Marks /\ c[2] # <<>> /\ c = <<c[1], c[2]>>
             /\ Lead(now, c[1]) \in (0 - MaxDelay) .. -1
             /\ \E i \in 1 .. Len(air) : c = <<air[i].at, air[i].bits>>
             /\ rx # NoRx => Lead(now, rx.at) < Lead(now, c[1])
  <2>1. PICK i \in 1 .. Len(air) : c = <<air[i].at, air[i].bits>>
    BY DEF OfAir
  <2>2. c[1] = air[i].at /\ c[2] = air[i].bits
    BY <2>1
  <2>3. QED
    BY <2>1, <2>2, AirFacts DEF Window, AirInOrder
<1>4. ASSUME NEW c \in OfReport(rx)
      PROVE  /\ c[1] \in 0 .. Cycle - 1 /\ c[2] \in Marks /\ c[2] # <<>>
             /\ Lead(now, c[1]) \in (0 - MaxDelay) .. -1
             /\ c = <<rx.at, rx.bits>> /\ rx # NoRx
  <2>1. rx # NoRx /\ c = <<rx.at, rx.bits>>
    BY DEF OfReport
  <2>2. rx \in Report
    BY <2>1
  <2>3. rx.at \in 0 .. Cycle - 1 /\ rx.bits \in Marks /\ rx.bits # <<>>
    BY <2>2 DEF Report
  <2>4. c[1] = rx.at /\ c[2] = rx.bits
    BY <2>1
  <2>5. QED
    BY <2>1, <2>3, <2>4 DEF Window
<1>5. \A c \in Coming : c \in OfReport(rx) \/ c \in OfAir(air) \/ c \in OfPucch(pucch)
  BY DEF Coming
<1>6. ASSUME NEW c \in Coming
      PROVE  /\ c[1] \in 0 .. Cycle - 1 /\ c[2] \in Marks /\ c[2] # <<>>
             /\ Lead(now, c[1]) \in (0 - MaxDelay) .. (MaxFb - 1)
  BY <1>1, <1>2, <1>3, <1>4, <1>5
<1>7. ASSUME rx # NoRx, NEW c \in Coming
      PROVE  c = <<rx.at, rx.bits>> \/ Lead(now, rx.at) < Lead(now, c[1])
  <2>1. Lead(now, rx.at) \in (0 - MaxDelay) .. -1
    BY <1>7 DEF Window
  <2>2. c \in OfPucch(pucch) => Lead(now, rx.at) < Lead(now, c[1])
    BY <1>1, <1>2, <2>1
  <2>3. QED
    BY <1>3, <1>4, <1>5, <1>7, <2>2
<1>8. ASSUME NEW c \in Coming, NEW d \in Coming, c[1] = d[1] PROVE c = d
  <2>1. Lead(now, c[1]) = Lead(now, d[1]) /\ Lead(now, c[1]) \in Int
    BY <1>6, <1>8
  <2>2. CASE c \in OfReport(rx)
    <3>1. rx # NoRx /\ c = <<rx.at, rx.bits>> /\ c[1] = rx.at
      BY <1>4, <2>2
    <3>2. ~(Lead(now, rx.at) < Lead(now, d[1]))
      BY <2>1, <3>1
    <3>3. QED
      BY <1>7, <3>1, <3>2
  <2>3. CASE d \in OfReport(rx)
    <3>1. rx # NoRx /\ d = <<rx.at, rx.bits>> /\ d[1] = rx.at
      BY <1>4, <2>3
    <3>2. ~(Lead(now, rx.at) < Lead(now, c[1]))
      BY <2>1, <3>1
    <3>3. QED
      BY <1>7, <3>1, <3>2
  <2>4. CASE c \in OfAir(air) /\ d \in OfAir(air)
    <3>1. PICK i \in 1 .. Len(air) : c = <<air[i].at, air[i].bits>>
      BY <1>3, <2>4
    <3>2. PICK j \in 1 .. Len(air) : d = <<air[j].at, air[j].bits>>
      BY <1>3, <2>4
    <3>3. c[1] = air[i].at /\ d[1] = air[j].at
      BY <3>1, <3>2
    <3>4. Lead(now, air[i].at) = Lead(now, air[j].at) /\ Lead(now, air[i].at) \in Int
      BY <2>1, <3>3
    <3>5. ~(i < j) /\ ~(j < i)
      BY <3>4 DEF Window, AirInOrder
    <3>6. i = j
      BY <3>5, AirFacts
    <3>7. QED
      BY <3>1, <3>2, <3>6
  <2>5. CASE c \in OfPucch(pucch) /\ d \in OfPucch(pucch)
    BY <1>2, <1>8, <2>5
  <2>6. CASE c \in OfAir(air) /\ d \in OfPucch(pucch)
    BY <1>1, <1>2, <1>3, <2>1, <2>6
  <2>7. CASE c \in OfPucch(pucch) /\ d \in OfAir(air)
    BY <1>1, <1>2, <1>3, <2>1, <2>7
  <2>8. QED
    BY <1>5, <2>2, <2>3, <2>4, <2>5, <2>6, <2>7
<1>9. QED
  BY <1>6, <1>7, <1>8

----------------------------------------------------------------------------
(* One slot.                                                                *)

(* Two steps of the clock.                                                  *)
LEMMA AfterNext ==
  ASSUME NEW n \in 0 .. Cycle - 1, NEW d \in Int
  PROVE  After(After(n, 1), d) = After(n, d + 1)
<1>1. n \in Int /\ Cycle \in Nat \ {0} /\ n + 1 \in Int /\ (n + 1) + d = n + (d + 1)
  BY Sizes
<1>2. (((n + 1) % Cycle) + d) % Cycle = ((n + 1) + d) % Cycle
  BY <1>1, ModSum
<1>3. QED
  BY <1>1, <1>2, Zenon DEF After

(* The slot loop does not run on while a report or a process is overdue.    *)
LEMMA SlotGuards ==
  ASSUME RadioTypes, Window, QueueInOrder, NEW csi \in BOOLEAN, Slot(csi)
  PROVE  /\ \A i \in 1 .. Len(air) : Lead(now, air[i].at) > 0 - MaxDelay
         /\ \A p \in Elems(feedback) :
              /\ Lead(now, proc[p].fb) \in Int
              /\ Lead(After(now, 1), proc[p].fb) = Lead(now, proc[p].fb) - 1
              /\ Lead(After(now, 1), proc[p].fb) \in (0 - MaxOverdue) .. (MaxFb - 1)
<1> USE DEF RadioTypes
<1>1. /\ MaxDelay \in Nat \ {0} /\ MaxFb \in Nat \ {0} /\ MaxOverdue \in Nat /\ Half \in Nat
      /\ MaxOverdue + MaxDelay + MaxFb < Half /\ 2 * Half <= Cycle /\ Cycle \in Nat
      /\ now \in 0 .. Cycle - 1 /\ Lead(now, now) = 0
  BY Sizes, NextAhead
<1>2. ASSUME NEW i \in 1 .. Len(air) PROVE Lead(now, air[i].at) > 0 - MaxDelay
  <2> DEFINE at == air[i].at
  <2>1. at \in 0 .. Cycle - 1 /\ Lead(now, at) \in (0 - MaxDelay) .. -1
    BY AirFacts DEF Window, AirInOrder
  <2>2. air[i] \in Elems(air)
    BY DEF Elems
  <2>3. Distance(at, now) < MaxDelay
    BY <2>2 DEF Slot
  <2> HIDE DEF at
  <2>4. Lead(now, at) <= Lead(now, now)
    BY <1>1, <2>1
  <2>5. Distance(at, now) = Lead(now, now) - Lead(now, at)
    BY <1>1, <2>1, <2>4, LeadDistance
  <2>6. Lead(now, at) > 0 - MaxDelay
    BY <1>1, <2>1, <2>3, <2>5
  <2>7. QED
    BY <2>6 DEF at
<1>3. ASSUME NEW p \in Elems(feedback)
      PROVE  /\ Lead(now, proc[p].fb) \in Int
             /\ Lead(After(now, 1), proc[p].fb) = Lead(now, proc[p].fb) - 1
             /\ Lead(After(now, 1), proc[p].fb) \in (0 - MaxOverdue) .. (MaxFb - 1)
  <2> DEFINE at == proc[p].fb
  <2>1. at \in 0 .. Cycle - 1 /\ Lead(now, at) \in (0 - MaxOverdue) .. (MaxFb - 1)
    BY DEF QueueInOrder
  <2>2. Distance(at, now) \notin MaxOverdue .. Half
    BY DEF Slot, Half
  <2> HIDE DEF at
  <2>3. Lead(now, at) > 0 - MaxOverdue
    <3>1. CASE Lead(now, at) <= 0
      <4>1. Distance(at, now) = Lead(now, now) - Lead(now, at)
        BY <1>1, <2>1, <3>1, LeadDistance
      <4>2. QED
        BY <1>1, <2>1, <2>2, <4>1
    <3>2. CASE Lead(now, at) > 0
      BY <1>1, <2>1, <3>2
    <3>3. QED
      BY <1>1, <2>1, <3>1, <3>2
  <2>4. Lead(After(now, 1), at) = Lead(now, at) - 1 /\ Lead(now, at) \in Int
    <3>1. Lead(now, at) > 0 - Half /\ Lead(now, at) \in Int
      BY <1>1, <2>1
    <3>2. QED
      BY <1>1, <2>1, <3>1, NextAhead
  <2>5. Lead(now, at) - 1 \in (0 - MaxOverdue) .. (MaxFb - 1)
    BY <1>1, <2>1, <2>3
  <2>6. QED
    BY <2>4, <2>5 DEF at
<1>4. QED
  BY <1>2, <1>3

(* nr_csi_meas_reporting() keeps the order of the ACK/NACKs.                *)
LEMMA SlotStart ==
  ASSUME RadioTypes, Window, QueueInOrder, FullBefore(pucch), NEW csi \in BOOLEAN, Slot(csi)
  PROVE  \E pu \in Pucchs : /\ NoPdsch(pu) \/ Pdsch(pu)
                            /\ InWindow(now, pu, MaxFb)
                            /\ OfPucch(pu) = OfPucch(pucch)
                            /\ FullBefore(pu)
<1> USE DEF RadioTypes
<1>1. InWindow(now, pucch, MaxFb)
  BY Sizes DEF Window, InWindow
<1>2. CASE ~csi
  <2>1. NoPdsch(pucch) \/ Pdsch(pucch)
    BY <1>2 DEF Slot
  <2>2. QED
    BY <1>1, <2>1
<1>3. CASE csi
  <2> DEFINE pu == WithCsi(pucch)
  <2>1. (NoPdsch(pu) \/ Pdsch(pu)) /\ CsiDue(now)
    BY <1>3 DEF Slot
  <2>2. pu \in Pucchs
    BY WithCsiType
  <2>3. /\ InWindow(now, pu, MaxFb) /\ OfPucch(pu) = OfPucch(pucch)
        /\ \A d \in MinFb .. MaxFb - 1 :
              IsUl(After(now, d)) => pu[Index(After(now, d))] = pucch[Index(After(now, d))]
    BY <2>1, CsiWrites DEF Window
  <2> HIDE DEF pu
  <2>4. FullBefore(pu)
    <3>1. ASSUME NEW p \in Elems(feedback), NEW d \in MinFb .. MaxFb,
                 d < Lead(now, proc[p].fb), IsUl(After(now, d))
          PROVE  ~HasRoom(pu, After(now, d))
      <4>1. Lead(now, proc[p].fb) \in (0 - MaxOverdue) .. (MaxFb - 1)
        BY DEF QueueInOrder
      <4>2. d \in MinFb .. MaxFb - 1
        BY <3>1, <4>1, Sizes
      <4>3. pu[Index(After(now, d))] = pucch[Index(After(now, d))]
        BY <2>3, <3>1, <4>2
      <4>4. ~HasRoom(pucch, After(now, d))
        BY <3>1 DEF FullBefore
      <4>5. QED
        BY <4>3, <4>4 DEF HasRoom
    <3>2. QED
      BY <3>1 DEF FullBefore
  <2>5. QED
    BY <2>1, <2>2, <2>3, <2>4
<1>4. QED
  BY <1>2, <1>3

(* The next slot finds a PUCCH full that this one leaves full.              *)
LEMMA FullNext ==
  ASSUME RadioTypes, NEW csi \in BOOLEAN, Slot(csi), NEW qu, NEW d \in MinFb .. MaxFb,
         \A e \in 1 .. MaxFb :
           IsUl(After(now, e)) => pucch'[Index(After(now, e))] = qu[Index(After(now, e))],
         d + 1 <= MaxFb, IsUl(After(now', d))
  PROVE  /\ d + 1 \in MinFb .. MaxFb /\ IsUl(After(now, d + 1))
         /\ ~HasRoom(qu, After(now, d + 1)) => ~(HasRoom(pucch, After(now, d))')
<1> USE DEF RadioTypes
<1>1. MaxFb \in Nat /\ MinFb \in Nat \ {0} /\ d \in Int /\ d + 1 \in 1 .. MaxFb
      /\ d + 1 \in MinFb .. MaxFb /\ d + 1 \in 0 .. MaxFb /\ d + 1 # 0
  BY Sizes
<1> DEFINE x == After(now, d + 1)
<1>2. now' = After(now, 1) /\ taken' = taken \ {now}
  BY DEF Slot
<1>3. After(now', d) = x
  BY <1>1, <1>2, AfterNext
<1>4. x # now
  <2>1. Lead(now, x) = d + 1
    BY <1>1, AheadFacts
  <2>2. Lead(now, now) = 0
    BY NextAhead
  <2>3. QED
    BY <1>1, <2>1, <2>2
<1>5. IsUl(x)
  BY <1>3
<1>6. pucch'[Index(x)] = qu[Index(x)]
  BY <1>1, <1>5
<1> HIDE DEF x
<1>7. HasRoom(pucch, After(now, d))' <=>
        LET c == pucch'[Index(x)] IN
          IF c = Off THEN x \notin taken'
                     ELSE c.at = x /\ Len(c.bits) < IF c.csi THEN CsiAcks ELSE 2
  BY <1>3 DEF HasRoom, x
<1>8. ~HasRoom(qu, x) => ~(HasRoom(pucch, After(now, d))')
  BY <1>2, <1>4, <1>6, <1>7 DEF HasRoom
<1>9. QED
  BY <1>1, <1>5, <1>8 DEF x

(* A slot in which no process is given a feedback slot.                     *)
LEMMA IdleOrder ==
  ASSUME RadioTypes, OrderInv, NEW csi \in BOOLEAN, Slot(csi),
         NEW pu \in Pucchs, InWindow(now, pu, MaxFb), OfPucch(pu) = OfPucch(pucch),
         FullBefore(pu), Handover(pu), feedback' = feedback,
         \A p \in Elems(feedback) : proc'[p].fb = proc[p].fb
  PROVE  OrderInv'
<1> USE DEF RadioTypes
<1>1. /\ Window /\ QueueInOrder /\ BitsSound /\ BitsComplete /\ MissedGone
      /\ AirInOrder(now, air)
  BY DEF OrderInv, Window
<1>2. /\ now' = After(now, 1) /\ rx = NoRx /\ rx' = NoRx /\ missed' = missed
  BY DEF Slot
<1>3. /\ \A i \in 1 .. Len(air) : Lead(now, air[i].at) > 0 - MaxDelay
      /\ \A p \in Elems(feedback) :
              /\ Lead(now, proc[p].fb) \in Int
              /\ Lead(now', proc[p].fb) = Lead(now, proc[p].fb) - 1
              /\ Lead(now', proc[p].fb) \in (0 - MaxOverdue) .. (MaxFb - 1)
  BY <1>1, <1>2, SlotGuards
<1>4. /\ InWindow(now', pucch', MaxFb - 1)
      /\ AirInOrder(now', air')
      /\ OfAir(air') \cup OfPucch(pucch') = OfAir(air) \cup OfPucch(pucch)
      /\ \A d \in 1 .. MaxFb :
           IsUl(After(now, d)) => pucch'[Index(After(now, d))] = pu[Index(After(now, d))]
  BY <1>1, <1>2, <1>3, HandoverFacts
<1>5. Window'
  BY <1>2, <1>4 DEF Window
<1>6. Coming' = Coming
  <2>1. Coming' = OfReport(rx') \cup OfAir(air') \cup OfPucch(pucch')
    BY DEF Coming
  <2>2. Coming = OfReport(rx) \cup OfAir(air) \cup OfPucch(pucch)
    BY DEF Coming
  <2>3. QED
    BY <1>2, <1>4, <2>1, <2>2
<1>7. QueueInOrder'
  <2>1. ASSUME NEW p \in Elems(feedback)
        PROVE  /\ proc'[p].fb \in 0 .. Cycle - 1
               /\ Lead(now', proc'[p].fb) \in (0 - MaxOverdue) .. (MaxFb - 1)
    BY <1>1, <1>3 DEF QueueInOrder
  <2>2. ASSUME NEW i \in 1 .. Len(feedback), NEW j \in 1 .. Len(feedback), i < j
        PROVE  Lead(now', proc'[feedback[i]].fb) <= Lead(now', proc'[feedback[j]].fb)
    <3>1. feedback[i] \in Elems(feedback) /\ feedback[j] \in Elems(feedback)
      BY DEF Elems
    <3>2. Lead(now, proc[feedback[i]].fb) <= Lead(now, proc[feedback[j]].fb)
      BY <1>1, <2>2 DEF QueueInOrder
    <3>3. QED
      BY <1>3, <3>1, <3>2
  <2>3. QED
    BY <2>1, <2>2 DEF QueueInOrder
<1>8. FullBefore(pucch)'
  <2>1. ASSUME NEW p \in Elems(feedback), NEW d \in MinFb .. MaxFb,
               d < Lead(now', proc'[p].fb), IsUl(After(now', d))
        PROVE  ~(HasRoom(pucch, After(now, d))')
    <3>1. d < Lead(now, proc[p].fb) - 1 /\ Lead(now, proc[p].fb) - 1 <= MaxFb - 1
          /\ Lead(now, proc[p].fb) \in Int
      BY <1>3, <2>1, Sizes
    <3>2. d + 1 <= MaxFb /\ d + 1 < Lead(now, proc[p].fb)
      BY <3>1, Sizes
    <3>3. /\ d + 1 \in MinFb .. MaxFb /\ IsUl(After(now, d + 1))
          /\ ~HasRoom(pu, After(now, d + 1)) => ~(HasRoom(pucch, After(now, d))')
      BY <1>4, <2>1, <3>2, FullNext
    <3>4. ~HasRoom(pu, After(now, d + 1))
      BY <3>2, <3>3 DEF FullBefore
    <3>5. QED
      BY <3>3, <3>4
  <2>2. QED
    BY <2>1 DEF FullBefore
<1>9. BitsSound'
  BY <1>1, <1>6 DEF BitsSound, Before
<1>10. BitsComplete'
  BY <1>1, <1>2, <1>6 DEF BitsComplete
<1>11. MissedGone'
  <2>1. ASSUME NEW p \in missed
        PROVE  /\ p \in Elems(feedback) /\ Lead(now', proc'[p].fb) < 0
               /\ \A c \in Coming : c[1] # proc'[p].fb
    <3>1. p \in Elems(feedback) /\ Lead(now, proc[p].fb) < 0 /\ \A c \in Coming : c[1] # proc[p].fb
      BY <1>1 DEF MissedGone
    <3>2. QED
      BY <1>3, <3>1
  <2>2. QED
    BY <1>2, <1>6, <2>1 DEF MissedGone
<1>12. QED
  BY <1>5, <1>7, <1>8, <1>9, <1>10, <1>11 DEF OrderInv

(* The bits of a PUCCH that gets one more.                                  *)
LEMMA OwnAppend ==
  ASSUME NEW bits \in Marks, NEW p \in Pid
  PROVE  Own(Append(bits, p)) = Own(bits) \cup {p}
<1>1. p # Stale
  BY GnbDlHarqAssumption DEF Pid, Stale
<1>2. Elems(Append(bits, p)) = Elems(bits) \cup {p}
  BY ElemsAppend DEF Marks
<1>3. QED
  BY <1>1, <1>2 DEF Own

(* A slot in which process p is given the PUCCH d slots ahead.              *)
LEMMA SentOrder ==
  ASSUME Lists, RadioTypes, OrderInv, NEW csi \in BOOLEAN, Slot(csi),
         NEW pu \in Pucchs, InWindow(now, pu, MaxFb), OfPucch(pu) = OfPucch(pucch),
         FullBefore(pu), Suitable(pu) # {},
         NEW p \in Pid, p \notin Elems(feedback), Handover(AckNack(pu, p)),
         feedback' = Append(feedback, p),
         proc'[p].fb = After(now, FeedbackTime(Chosen(pu))),
         \A q \in Elems(feedback) : proc'[q].fb = proc[q].fb
  PROVE  OrderInv'
<1> USE DEF RadioTypes
<1>1. /\ Window /\ QueueInOrder /\ BitsSound /\ BitsComplete /\ MissedGone
      /\ AirInOrder(now, air)
  BY DEF OrderInv, Window
<1>2. /\ now' = After(now, 1) /\ rx = NoRx /\ rx' = NoRx /\ missed' = missed
  BY DEF Slot
<1>3. /\ \A i \in 1 .. Len(air) : Lead(now, air[i].at) > 0 - MaxDelay
      /\ \A q \in Elems(feedback) :
              /\ Lead(now, proc[q].fb) \in Int
              /\ Lead(now', proc[q].fb) = Lead(now, proc[q].fb) - 1
              /\ Lead(now', proc[q].fb) \in (0 - MaxOverdue) .. (MaxFb - 1)
  BY <1>1, <1>2, SlotGuards
<1>4. PICK d \in MinFb .. MaxFb, bits \in Marks :
        /\ FeedbackTime(Chosen(pu)) = d
        /\ IsUl(After(now, d)) /\ HasRoom(pu, After(now, d))
        /\ InWindow(now, AckNack(pu, p), MaxFb)
        /\ OfPucch(AckNack(pu, p)) =
             (OfPucch(pu) \ {<<After(now, d), bits>>}) \cup {<<After(now, d), Append(bits, p)>>}
        /\ (bits # <<>> => <<After(now, d), bits>> \in OfPucch(pu))
        /\ \A e \in MinFb .. MaxFb : (e < d /\ IsUl(After(now, e))) => ~HasRoom(pu, After(now, e))
        /\ \A e \in MinFb .. MaxFb : (e # d /\ IsUl(After(now, e))) =>
             AckNack(pu, p)[Index(After(now, e))] = pu[Index(After(now, e))]
  <2>1. now \in 0 .. Cycle - 1 /\ common \in BOOLEAN
    OBVIOUS
  <2>2. QED
    BY <2>1, AckNackWrites
<1> DEFINE qu == AckNack(pu, p)
           at == After(now, d)
           old == <<at, bits>>
           new == <<at, Append(bits, p)>>
<1>5. qu \in Pucchs
  BY AckNackType
<1>6. /\ InWindow(now', pucch', MaxFb - 1)
      /\ AirInOrder(now', air')
      /\ OfAir(air') \cup OfPucch(pucch') = OfAir(air) \cup OfPucch(qu)
      /\ \A e \in 1 .. MaxFb :
           IsUl(After(now, e)) => pucch'[Index(After(now, e))] = qu[Index(After(now, e))]
  BY <1>1, <1>2, <1>3, <1>4, <1>5, HandoverFacts
<1>7. /\ MaxFb \in Nat \ {0} /\ MinFb \in Nat \ {0} /\ MaxOverdue \in Nat /\ Half \in Nat
      /\ MaxFb < Half /\ d \in 0 .. MaxFb /\ d \in Nat \ {0}
  BY Sizes
<1>8. /\ at \in 0 .. Cycle - 1 /\ Lead(now, at) = d /\ Lead(now', at) = d - 1
      /\ proc'[p].fb = at
  <2>1. at \in 0 .. Cycle - 1 /\ Lead(now, at) = d
    BY <1>7, AheadFacts
  <2>2. Lead(now, at) > 0 - Half
    BY <1>7, <2>1
  <2>3. Lead(now', at) = Lead(now, at) - 1
    BY <1>2, <2>1, <2>2, NextAhead
  <2>4. QED
    BY <1>4, <2>1, <2>3
<1> HIDE DEF qu, at
<1>9. Window'
  BY <1>2, <1>6 DEF Window
<1>10. /\ Coming' \subseteq Coming \cup {new} /\ new \in Coming' /\ Coming \subseteq Coming' \cup {old}
       /\ bits # <<>> => old \in Coming
  <2>1. Coming' = OfReport(rx') \cup OfAir(air') \cup OfPucch(pucch')
    BY DEF Coming
  <2>2. Coming = OfReport(rx) \cup OfAir(air) \cup OfPucch(pucch)
    BY DEF Coming
  <2>3. /\ OfPucch(qu) = (OfPucch(pucch) \ {old}) \cup {new}
        /\ bits # <<>> => old \in OfPucch(pucch)
    BY <1>4 DEF qu, at
  <2> HIDE DEF old, new
  <2>4. QED
    BY <1>2, <1>6, <2>1, <2>2, <2>3
<1>11. new[1] = at /\ new[2] = Append(bits, p) /\ old[1] = at /\ old[2] = bits
  OBVIOUS
<1> HIDE DEF new, old
<1>12. /\ feedback \in Seq(Pid) /\ Elems(feedback') = Elems(feedback) \cup {p}
       /\ Len(feedback) \in Nat /\ Len(feedback') = Len(feedback) + 1
       /\ \A i \in 1 .. Len(feedback) : feedback'[i] = feedback[i] /\ feedback[i] \in Elems(feedback)
       /\ feedback'[Len(feedback) + 1] = p
  <2>1. feedback \in Seq(Pid)
    BY DEF Lists, ListTypes
  <2>2. QED
    BY <2>1, ElemsAppend DEF Elems
<1>13. \A q \in Elems(feedback) : Lead(now, proc[q].fb) <= d
  <2>1. ASSUME NEW q \in Elems(feedback), ~(Lead(now, proc[q].fb) <= d) PROVE FALSE
    <3>1. d < Lead(now, proc[q].fb)
      BY <1>3, <1>7, <2>1
    <3>2. QED
      BY <1>4, <3>1 DEF FullBefore
  <2>2. QED
    BY <2>1
<1>14. QueueInOrder'
  <2>1. ASSUME NEW q \in Elems(feedback')
        PROVE  /\ proc'[q].fb \in 0 .. Cycle - 1
               /\ Lead(now', proc'[q].fb) \in (0 - MaxOverdue) .. (MaxFb - 1)
    <3>1. CASE q = p
      BY <1>7, <1>8, <3>1
    <3>2. CASE q \in Elems(feedback)
      BY <1>1, <1>3, <3>2 DEF QueueInOrder
    <3>3. QED
      BY <1>12, <3>1, <3>2
  <2>2. ASSUME NEW i \in 1 .. Len(feedback'), NEW j \in 1 .. Len(feedback'), i < j
        PROVE  Lead(now', proc'[feedback'[i]].fb) <= Lead(now', proc'[feedback'[j]].fb)
    <3>1. i \in 1 .. Len(feedback) /\ feedback'[i] = feedback[i] /\ feedback[i] \in Elems(feedback)
      BY <1>12, <2>2
    <3>2. Lead(now', proc'[feedback'[i]].fb) = Lead(now, proc[feedback[i]].fb) - 1
          /\ Lead(now, proc[feedback[i]].fb) \in Int
      BY <1>3, <3>1
    <3>3. CASE j \in 1 .. Len(feedback)
      <4>1. feedback'[j] = feedback[j] /\ feedback[j] \in Elems(feedback)
        BY <1>12, <3>3
      <4>2. Lead(now, proc[feedback[i]].fb) <= Lead(now, proc[feedback[j]].fb)
        BY <1>1, <2>2, <3>1, <3>3 DEF QueueInOrder
      <4>3. Lead(now', proc'[feedback'[j]].fb) = Lead(now, proc[feedback[j]].fb) - 1
            /\ Lead(now, proc[feedback[j]].fb) \in Int
        BY <1>3, <4>1
      <4>4. QED
        BY <3>2, <4>2, <4>3
    <3>4. CASE j = Len(feedback) + 1
      <4>1. Lead(now, proc[feedback[i]].fb) <= d
        BY <1>13, <3>1
      <4>2. Lead(now', proc'[feedback'[j]].fb) = d - 1
        BY <1>8, <1>12, <3>4
      <4>3. QED
        BY <1>7, <3>2, <4>1, <4>2
    <3>5. QED
      BY <1>12, <3>3, <3>4
  <2>3. QED
    BY <2>1, <2>2 DEF QueueInOrder
<1>15. FullBefore(pucch)'
  <2>1. ASSUME NEW q \in Elems(feedback'), NEW e \in MinFb .. MaxFb,
               e < Lead(now', proc'[q].fb), IsUl(After(now', e))
        PROVE  ~(HasRoom(pucch, After(now, e))')
    <3>1. e + 1 < d \/ (q \in Elems(feedback) /\ e + 1 < Lead(now, proc[q].fb))
      <4>1. CASE q = p
        BY <1>7, <1>8, <2>1, <4>1
      <4>2. CASE q \in Elems(feedback)
        BY <1>3, <1>7, <2>1, <4>2
      <4>3. QED
        BY <1>12, <4>1, <4>2
    <3>2. e + 1 < d
      <4>1. q \in Elems(feedback) => Lead(now, proc[q].fb) <= d /\ Lead(now, proc[q].fb) \in Int
        BY <1>3, <1>13
      <4>2. QED
        BY <1>7, <3>1, <4>1
    <3>3. e + 1 <= MaxFb
      BY <1>7, <3>2
    <3>4. /\ e + 1 \in MinFb .. MaxFb /\ IsUl(After(now, e + 1))
          /\ ~HasRoom(qu, After(now, e + 1)) => ~(HasRoom(pucch, After(now, e))')
      BY <1>6, <2>1, <3>3, FullNext
    <3>5. ~HasRoom(pu, After(now, e + 1))
      BY <1>4, <3>2, <3>4
    <3>6. qu[Index(After(now, e + 1))] = pu[Index(After(now, e + 1))]
      <4>1. e + 1 # d
        BY <1>7, <3>2
      <4>2. QED
        BY <1>4, <3>4, <4>1 DEF qu
    <3>7. ~HasRoom(qu, After(now, e + 1))
      BY <3>5, <3>6 DEF HasRoom
    <3>8. QED
      BY <3>4, <3>7
  <2>2. QED
    BY <2>1 DEF FullBefore
<1>16. Own(new[2]) = Own(bits) \cup {p}
  BY <1>11, OwnAppend
<1>17. Own(bits) = {} \/ old \in Coming
  <2>1. Own(<<>>) = {}
    BY NoElems DEF Own
  <2>2. QED
    BY <1>10, <2>1
<1>18. BitsSound'
  <2>1. /\ \A q, r : Before(feedback, q, r) => Before(feedback', q, r)
        /\ \A q \in Elems(feedback) : Before(feedback', q, p)
    BY <1>12, BeforeAppend
  <2>2. ASSUME NEW c \in Coming
        PROVE  /\ \A q \in Own(c[2]) : q \in Elems(feedback') /\ proc'[q].fb = c[1]
               /\ \A j, k \in 1 .. Len(c[2]) :
                    (j < k /\ c[2][j] # Stale /\ c[2][k] # Stale) => Before(feedback', c[2][j], c[2][k])
    <3>1. \A q \in Own(c[2]) : q \in Elems(feedback) /\ proc[q].fb = c[1]
      BY <1>1 DEF BitsSound
    <3>2. \A j, k \in 1 .. Len(c[2]) :
                    (j < k /\ c[2][j] # Stale /\ c[2][k] # Stale) => Before(feedback, c[2][j], c[2][k])
      BY <1>1 DEF BitsSound
    <3>3. QED
      BY <1>12, <2>1, <3>1, <3>2
  <2>3. \A q \in Own(new[2]) : q \in Elems(feedback') /\ proc'[q].fb = new[1]
    <3>1. ASSUME NEW q \in Own(bits) PROVE q \in Elems(feedback') /\ proc'[q].fb = at
      BY <1>11, <1>17, <2>2
    <3>2. QED
      BY <1>8, <1>11, <1>12, <1>16, <3>1
  <2>4. ASSUME NEW j \in 1 .. Len(new[2]), NEW k \in 1 .. Len(new[2]), j < k,
               new[2][j] # Stale, new[2][k] # Stale
        PROVE  Before(feedback', new[2][j], new[2][k])
    <3>1. /\ Len(new[2]) = Len(bits) + 1 /\ Len(bits) \in Nat
          /\ \A i \in 1 .. Len(bits) : new[2][i] = bits[i]
          /\ new[2][Len(bits) + 1] = p
      BY <1>11, AppendFacts
    <3>2. j \in 1 .. Len(bits) /\ new[2][j] = bits[j]
      BY <2>4, <3>1
    <3>3. bits[j] \in Own(bits)
      BY <2>4, <3>2 DEF Own, Elems
    <3>4. old \in Coming /\ old[2] = bits
      BY <1>11, <1>17, <3>3
    <3>5. CASE k \in 1 .. Len(bits)
      <4>1. Before(feedback', bits[j], bits[k])
        BY <2>2, <2>4, <3>1, <3>2, <3>4, <3>5
      <4>2. QED
        BY <3>1, <3>2, <3>5, <4>1
    <3>6. CASE k = Len(bits) + 1
      <4>1. bits[j] \in Elems(feedback)
        BY <1>1, <3>3, <3>4 DEF BitsSound
      <4>2. Before(feedback', bits[j], p)
        BY <2>1, <4>1
      <4>3. new[2][k] = p
        BY <3>1, <3>6
      <4>4. QED
        BY <3>2, <4>2, <4>3
    <3>7. QED
      BY <3>1, <3>5, <3>6
  <2>5. QED
    BY <1>10, <2>2, <2>3, <2>4 DEF BitsSound
<1>19. BitsComplete'
  <2>1. ASSUME NEW q \in Elems(feedback') \ missed PROVE \E c \in Coming' : q \in Own(c[2])
    <3>1. CASE q = p
      BY <1>10, <1>16, <3>1
    <3>2. CASE q \in Elems(feedback)
      <4>1. PICK c \in Coming : q \in Own(c[2])
        BY <1>1, <3>2 DEF BitsComplete
      <4>2. CASE c \in Coming'
        BY <4>1, <4>2
      <4>3. CASE c = old
        BY <1>10, <1>11, <1>16, <4>1, <4>3
      <4>4. QED
        BY <1>10, <4>2, <4>3
    <3>3. QED
      BY <1>12, <3>1, <3>2
  <2>2. QED
    BY <1>2, <2>1 DEF BitsComplete
<1>20. MissedGone'
  <2>1. ASSUME NEW q \in missed
        PROVE  /\ q \in Elems(feedback') /\ Lead(now', proc'[q].fb) < 0
               /\ \A c \in Coming' : c[1] # proc'[q].fb
    <3>1. q \in Elems(feedback) /\ Lead(now, proc[q].fb) < 0 /\ \A c \in Coming : c[1] # proc[q].fb
      BY <1>1 DEF MissedGone
    <3>2. proc[q].fb # at
      BY <1>7, <1>8, <3>1
    <3>3. Lead(now', proc'[q].fb) < 0
      BY <1>3, <3>1
    <3>4. QED
      BY <1>10, <1>11, <1>12, <3>1, <3>2, <3>3
  <2>2. QED
    BY <1>2, <2>1 DEF MissedGone
<1>21. QED
  BY <1>9, <1>14, <1>15, <1>18, <1>19, <1>20 DEF OrderInv

(* One run of the slot loop.                                                *)
LEMMA SlotOrder == ASSUME DlInv, OrderInv, NEW csi \in BOOLEAN, Slot(csi) PROVE OrderInv'
<1>1. Lists /\ RadioTypes /\ Window /\ QueueInOrder /\ FullBefore(pucch)
  BY DEF DlInv, OrderInv
<1>2. PICK pu \in Pucchs : /\ NoPdsch(pu) \/ Pdsch(pu)
                           /\ InWindow(now, pu, MaxFb)
                           /\ OfPucch(pu) = OfPucch(pucch)
                           /\ FullBefore(pu)
  BY <1>1, SlotStart
<1>3. CASE NoPdsch(pu)
  <2>1. Skipped(pu) = pu
    BY <1>1, <1>2, NothingSkipped DEF RadioTypes
  <2>2. Handover(pu) /\ UNCHANGED lists
    BY <1>3, <2>1 DEF NoPdsch
  <2>3. QED
    BY <1>1, <1>2, <2>2, IdleOrder DEF lists
<1>4. CASE Pdsch(pu)
  <2>1. PICK from \in {available, retrans}, p \in Pid : Unacknowledged(p, from, pu) \/ Acknowledged(p, from, pu)
    BY <1>1, <1>4, PdschFacts
  <2>2. p \notin Elems(feedback) /\ Elems(feedback) \subseteq Pid
    <3>1. p \in Elems(available) \cup Elems(retrans)
      BY <2>1 DEF Unacknowledged, Acknowledged, ChosenFrom
    <3>2. QED
      BY <1>1, <3>1, ElemsArePids DEF Lists, ListsMatchProcesses
  <2>3. CASE Unacknowledged(p, from, pu)
    <3>1. Handover(pu) /\ feedback' = feedback /\ \A q \in Elems(feedback) : proc'[q].fb = proc[q].fb
      BY <2>2, <2>3 DEF Unacknowledged, Updated
    <3>2. QED
      BY <1>1, <1>2, <3>1, IdleOrder
  <2>4. CASE Acknowledged(p, from, pu)
    <3>1. PICK v \in Process : Updated(p, v) /\ v.fb = After(now, FeedbackTime(Chosen(pu)))
      BY <2>4 DEF Acknowledged
    <3>2. /\ proc'[p].fb = After(now, FeedbackTime(Chosen(pu)))
          /\ \A q \in Elems(feedback) : proc'[q].fb = proc[q].fb
      BY <2>2, <3>1 DEF Updated
    <3>3. Handover(AckNack(pu, p)) /\ Suitable(pu) # {} /\ feedback' = Append(feedback, p)
      BY <2>4 DEF Acknowledged
    <3>4. QED
      BY <1>1, <1>2, <2>2, <3>2, <3>3, SentOrder
  <2>5. QED
    BY <2>1, <2>3, <2>4
<1>5. QED
  BY <1>2, <1>3, <1>4

----------------------------------------------------------------------------
(* Reports: one is taken from the air, is lost, or has no more use.         *)

(* The first report on the air is the oldest.                               *)
LEMMA AirHead ==
  ASSUME NEW a \in Seq(Report), a # <<>>
  PROVE  /\ Head(a) \in Report /\ Head(a) # NoRx /\ Tail(a) \in Seq(Report)
         /\ OfAir(a) = {<<Head(a).at, Head(a).bits>>} \cup OfAir(Tail(a))
         /\ \A n : AirInOrder(n, a) =>
              /\ AirInOrder(n, Tail(a)) /\ Lead(n, Head(a).at) \in (0 - MaxDelay) .. -1
              /\ \A i \in 1 .. Len(Tail(a)) : Lead(n, Head(a).at) < Lead(n, Tail(a)[i].at)
<1> DEFINE h == Head(a)
           t == Tail(a)
<1>1. /\ h \in Report /\ t \in Seq(Report) /\ h = a[1] /\ Len(a) \in Nat \ {0}
      /\ Len(t) = Len(a) - 1 /\ \A i \in 1 .. Len(t) : t[i] = a[i + 1]
  OBVIOUS
<1> HIDE DEF h, t
<1>2. h # NoRx
  BY <1>1, Sizes DEF Report, NoRx
<1>3. \A i \in 1 .. Len(t) : i + 1 \in 1 .. Len(a) /\ 1 < i + 1
  BY <1>1
<1>4. 1 \in 1 .. Len(a) /\ \A i \in 1 .. Len(a) : i # 1 => i - 1 \in 1 .. Len(t) /\ t[i - 1] = a[i]
  BY <1>1
<1>5. OfAir(a) = {<<h.at, h.bits>>} \cup OfAir(t)
  <2>1. ASSUME NEW x \in OfAir(a) PROVE x \in {<<h.at, h.bits>>} \cup OfAir(t)
    <3>1. PICK i \in 1 .. Len(a) : x = <<a[i].at, a[i].bits>>
      BY DEF OfAir
    <3>2. CASE i = 1
      BY <1>1, <3>1, <3>2
    <3>3. CASE i # 1
      BY <1>4, <3>1, <3>3 DEF OfAir
    <3>4. QED
      BY <3>2, <3>3
  <2>2. ASSUME NEW x \in OfAir(t) PROVE x \in OfAir(a)
    BY <1>1, <1>3 DEF OfAir
  <2>3. <<h.at, h.bits>> \in OfAir(a)
    BY <1>1, <1>4 DEF OfAir
  <2>4. QED
    BY <2>1, <2>2, <2>3
<1>6. ASSUME NEW n, AirInOrder(n, a)
      PROVE  /\ AirInOrder(n, t) /\ Lead(n, h.at) \in (0 - MaxDelay) .. -1
             /\ \A i \in 1 .. Len(t) : Lead(n, h.at) < Lead(n, t[i].at)
  <2>1. ASSUME NEW i \in 1 .. Len(t), NEW j \in 1 .. Len(t), i < j
        PROVE  Lead(n, t[i].at) < Lead(n, t[j].at)
    <3>1. i + 1 \in 1 .. Len(a) /\ j + 1 \in 1 .. Len(a) /\ i + 1 < j + 1
      BY <1>1, <1>3, <2>1
    <3>2. QED
      BY <1>1, <1>6, <3>1 DEF AirInOrder
  <2>2. QED
    BY <1>1, <1>3, <1>4, <1>6, <2>1 DEF AirInOrder
<1>7. QED
  BY <1>1, <1>2, <1>5, <1>6 DEF h, t

(* The PHY reports the first of the PUCCHs on the air.                      *)
LEMMA UciOrder == ASSUME RadioTypes, OrderInv, UciIndication PROVE OrderInv'
<1>1. /\ rx = NoRx /\ air # <<>> /\ rx' = Head(air) /\ air' = Tail(air)
      /\ UNCHANGED <<now, common, lists, pucch, taken, missed>>
  BY DEF UciIndication
<1>2. /\ Head(air) # NoRx
      /\ OfAir(air) = {<<Head(air).at, Head(air).bits>>} \cup OfAir(Tail(air))
      /\ \A n : AirInOrder(n, air) =>
           /\ AirInOrder(n, Tail(air)) /\ Lead(n, Head(air).at) \in (0 - MaxDelay) .. -1
           /\ \A i \in 1 .. Len(Tail(air)) : Lead(n, Head(air).at) < Lead(n, Tail(air)[i].at)
  BY <1>1, AirHead DEF RadioTypes
<1>3. Window'
  BY <1>1, <1>2 DEF OrderInv, Window
<1>4. Coming' = Coming
  <2>1. Coming' = OfReport(rx') \cup OfAir(air') \cup OfPucch(pucch')
    BY DEF Coming
  <2>2. OfReport(rx') = {<<Head(air).at, Head(air).bits>>}
    BY <1>1, <1>2 DEF OfReport
  <2>3. Coming = OfAir(air) \cup OfPucch(pucch)
    BY <1>1 DEF Coming, OfReport
  <2>4. QED
    BY <1>1, <1>2, <2>1, <2>2, <2>3
<1>5. QueueInOrder' /\ FullBefore(pucch)'
  BY <1>1 DEF OrderInv, QueueInOrder, FullBefore, HasRoom, lists
<1>6. BitsSound' /\ BitsComplete' /\ MissedGone'
  BY <1>1, <1>4 DEF OrderInv, BitsSound, BitsComplete, MissedGone, lists
<1>7. QED
  BY <1>3, <1>5, <1>6 DEF OrderInv

(* The PHY does not report it.                                              *)
LEMMA LoseOrder == ASSUME RadioTypes, OrderInv, LoseReport PROVE OrderInv'
<1> DEFINE h == Head(air)
           lost == <<h.at, h.bits>>
<1>1. /\ air # <<>> /\ air' = Tail(air) /\ missed' = missed \cup Own(h.bits)
      /\ UNCHANGED <<now, common, lists, pucch, taken, rx>>
  BY DEF LoseReport, Own
<1>2. /\ OfAir(air) = {lost} \cup OfAir(Tail(air))
      /\ \A n : AirInOrder(n, air) =>
           /\ AirInOrder(n, Tail(air)) /\ Lead(n, h.at) \in (0 - MaxDelay) .. -1
           /\ \A i \in 1 .. Len(Tail(air)) : Lead(n, h.at) < Lead(n, Tail(air)[i].at)
  BY <1>1, AirHead DEF RadioTypes
<1>3. AirInOrder(now, air) /\ Window
  BY DEF OrderInv, Window
<1>4. lost[1] = h.at /\ lost[2] = h.bits
  OBVIOUS
<1> HIDE DEF h, lost
<1>5. Window'
  <2>1. \A i \in 1 .. Len(Tail(air)) : i + 1 \in 1 .. Len(air) /\ Tail(air)[i] = air[i + 1]
    <3>1. air \in Seq(Report) /\ air # <<>>
      BY <1>1 DEF RadioTypes
    <3>2. QED
      BY <3>1
  <2>2. rx # NoRx => /\ Lead(now, rx.at) \in (0 - MaxDelay) .. -1
                     /\ \A i \in 1 .. Len(Tail(air)) : Lead(now, rx.at) < Lead(now, Tail(air)[i].at)
    BY <1>3, <2>1 DEF Window
  <2>3. QED
    BY <1>1, <1>2, <1>3, <2>2 DEF Window
<1>6. /\ Coming = Coming' \cup {lost}
      /\ \A c \in Coming' : c[1] # h.at
  <2>1. Coming' = OfReport(rx) \cup OfAir(Tail(air)) \cup OfPucch(pucch)
    BY <1>1 DEF Coming
  <2>2. Coming = Coming' \cup {lost}
    BY <1>2, <2>1 DEF Coming
  <2>3. Lead(now, h.at) \in (0 - MaxDelay) .. -1 /\ MaxDelay \in Nat
    BY <1>2, <1>3, Sizes
  <2>4. \A c \in OfReport(rx) : c[1] # h.at
    <3>1. ASSUME NEW c \in OfReport(rx), c[1] = h.at PROVE FALSE
      <4>1. rx # NoRx /\ c[1] = rx.at
        BY DEF OfReport
      <4>2. 1 \in 1 .. Len(air) /\ h = air[1]
        <5>1. air \in Seq(Report) /\ air # <<>>
          BY <1>1 DEF RadioTypes
        <5>2. QED
          BY <5>1 DEF h
      <4>3. Lead(now, rx.at) < Lead(now, h.at)
        BY <1>3, <4>1, <4>2 DEF Window
      <4>4. QED
        BY <2>3, <3>1, <4>1, <4>3
    <3>2. QED
      BY <3>1
  <2>5. \A c \in OfAir(Tail(air)) : c[1] # h.at
    <3>1. ASSUME NEW c \in OfAir(Tail(air)), c[1] = h.at PROVE FALSE
      <4>1. PICK i \in 1 .. Len(Tail(air)) : c = <<Tail(air)[i].at, Tail(air)[i].bits>>
        BY DEF OfAir
      <4>2. Tail(air)[i].at = h.at
        BY <3>1, <4>1
      <4>3. Lead(now, h.at) < Lead(now, Tail(air)[i].at)
        BY <1>2, <1>3
      <4>4. QED
        BY <2>3, <4>2, <4>3
    <3>2. QED
      BY <3>1
  <2>6. \A c \in OfPucch(pucch) : c[1] # h.at
    <3>1. ASSUME NEW c \in OfPucch(pucch), c[1] = h.at PROVE FALSE
      <4>1. PICK i \in 0 .. PucchSize - 1 : pucch[i].bits # <<>> /\ c = <<pucch[i].at, pucch[i].bits>>
        BY DEF OfPucch
      <4>2. pucch[i] # Off /\ pucch[i].at = h.at
        BY <3>1, <4>1 DEF Off
      <4>3. Lead(now, pucch[i].at) \in 0 .. (MaxFb - 1)
        BY <1>3, <4>2 DEF Window, InWindow
      <4>4. QED
        BY <2>3, <4>2, <4>3
    <3>2. QED
      BY <3>1
  <2>7. QED
    BY <2>1, <2>2, <2>4, <2>5, <2>6
<1>7. QueueInOrder' /\ FullBefore(pucch)'
  BY <1>1 DEF OrderInv, QueueInOrder, FullBefore, HasRoom, lists
<1>8. lost \in Coming /\ BitsSound /\ BitsComplete /\ MissedGone
  BY <1>6 DEF OrderInv
<1>9. feedback' = feedback /\ proc' = proc /\ now' = now
  BY <1>1 DEF lists
<1>10. BitsSound'
  BY <1>6, <1>8, <1>9 DEF BitsSound
<1>11. BitsComplete'
  <2>1. ASSUME NEW p \in Elems(feedback) \ missed' PROVE \E c \in Coming' : p \in Own(c[2])
    <3>1. PICK c \in Coming : p \in Own(c[2])
      BY <1>1, <1>8, <2>1 DEF BitsComplete
    <3>2. c # lost
      BY <1>1, <1>4, <2>1, <3>1
    <3>3. QED
      BY <1>6, <3>1, <3>2
  <2>2. QED
    BY <1>9, <2>1 DEF BitsComplete
<1>12. MissedGone'
  <2>1. ASSUME NEW p \in missed'
        PROVE  /\ p \in Elems(feedback) /\ Lead(now, proc[p].fb) < 0
               /\ \A c \in Coming' : c[1] # proc[p].fb
    <3>1. CASE p \in missed
      BY <1>6, <1>8, <3>1 DEF MissedGone
    <3>2. CASE p \in Own(h.bits)
      <4>1. p \in Elems(feedback) /\ proc[p].fb = h.at
        BY <1>4, <1>8, <3>2 DEF BitsSound
      <4>2. Lead(now, h.at) < 0
        BY <1>2, <1>3, Sizes
      <4>3. QED
        BY <1>6, <4>1, <4>2
    <3>3. QED
      BY <1>1, <2>1, <3>1, <3>2
  <2>2. QED
    BY <1>9, <2>1 DEF MissedGone
<1>13. QED
  BY <1>5, <1>7, <1>10, <1>11, <1>12 DEF OrderInv

(* The head of feedback_dl_harq waits for the oldest slot.                  *)
LEMMA HeadFirst ==
  ASSUME Lists, RadioTypes, QueueInOrder, feedback # <<>>
  PROVE  /\ Head(feedback) = feedback[1] /\ Len(feedback) \in Nat \ {0}
         /\ Head(feedback) \in Elems(feedback) /\ Head(feedback) \in Pid
         /\ Awaited \in 0 .. Cycle - 1
         /\ Lead(now, Awaited) \in (0 - MaxOverdue) .. (MaxFb - 1)
         /\ \A p \in Elems(feedback) : Lead(now, Awaited) <= Lead(now, proc[p].fb)
<1>1. feedback \in Seq(Pid)
  BY DEF Lists, ListTypes
<1>2. /\ Head(feedback) = feedback[1] /\ Len(feedback) \in Nat \ {0} /\ Head(feedback) \in Pid
      /\ Head(feedback) \in Elems(feedback)
  BY <1>1, SomeElems
<1>3. /\ Awaited \in 0 .. Cycle - 1 /\ Lead(now, Awaited) \in (0 - MaxOverdue) .. (MaxFb - 1)
  BY <1>2 DEF Awaited, QueueInOrder
<1>4. ASSUME NEW p \in Elems(feedback) PROVE Lead(now, Awaited) <= Lead(now, proc[p].fb)
  <2>1. PICK j \in 1 .. Len(feedback) : feedback[j] = p
    BY DEF Elems
  <2>2. CASE j = 1
    BY <1>2, <1>3, <2>1, <2>2, Sizes DEF Awaited
  <2>3. CASE 1 < j
    BY <1>2, <2>1, <2>3 DEF Awaited, QueueInOrder
  <2>4. QED
    BY <1>2, <2>1, <2>2, <2>3
<1>5. QED
  BY <1>2, <1>3, <1>4

(* find_harq() tells past, present and future.                              *)
LEMMA AwaitedPast ==
  ASSUME Lists, RadioTypes, Window, QueueInOrder, rx # NoRx, feedback # <<>>
  PROVE  /\ Past(Awaited, rx.at) <=> Lead(now, Awaited) < Lead(now, rx.at)
         /\ Past(rx.at, Awaited) <=> Lead(now, rx.at) < Lead(now, Awaited)
         /\ Lead(now, rx.at) \in Int /\ Lead(now, Awaited) \in Int
         /\ Lead(now, rx.at) = Lead(now, Awaited) => rx.at = Awaited
<1>1. /\ now \in 0 .. Cycle - 1 /\ rx \in Report /\ Lead(now, rx.at) \in (0 - MaxDelay) .. -1
      /\ MaxDelay \in Nat /\ MaxOverdue \in Nat /\ MaxFb \in Nat
  BY Sizes DEF RadioTypes, Window
<1>2. rx.at \in 0 .. Cycle - 1
  BY <1>1 DEF Report
<1>3. Awaited \in 0 .. Cycle - 1 /\ Lead(now, Awaited) \in (0 - MaxOverdue) .. (MaxFb - 1)
  BY HeadFirst
<1>4. Lead(now, rx.at) = Lead(now, Awaited) => rx.at = Awaited
  BY <1>1, <1>2, <1>3, LeadFacts
<1>5. QED
  BY <1>1, <1>2, <1>3, <1>4, PastIsPast

(* A report is dropped only when no process waits for a bit of it.          *)
LEMMA NothingDropped == ASSUME Lists, RadioTypes, OrderInv, Drop PROVE Own(rx.bits) = {}
<1>1. Window /\ QueueInOrder /\ BitsSound /\ rx # NoRx
  BY DEF OrderInv, Drop
<1>2. ASSUME NEW p \in Own(rx.bits) PROVE FALSE
  <2>1. <<rx.at, rx.bits>> \in Coming
    BY <1>1 DEF Coming, OfReport
  <2>2. p \in Elems(feedback) /\ proc[p].fb = rx.at
    BY <1>1, <1>2, <2>1 DEF BitsSound
  <2>3. feedback # <<>>
    BY <2>2, NoElems
  <2>4. Lead(now, Awaited) <= Lead(now, rx.at)
    BY <1>1, <2>2, <2>3, HeadFirst
  <2>5. Past(rx.at, Awaited)
    BY <2>3 DEF Drop
  <2>6. QED
    BY <1>1, <2>3, <2>4, <2>5, AwaitedPast
<1>3. QED
  BY <1>2

(* find_harq() finds no process and the bit is dropped.                      *)
LEMMA DropOrder == ASSUME Lists, RadioTypes, OrderInv, Drop PROVE OrderInv'
<1>1. Own(rx.bits) = {}
  BY NothingDropped
<1>2. /\ rx # NoRx /\ rx' = NoRx /\ missed' = missed
      /\ now' = now /\ feedback' = feedback /\ proc' = proc /\ pucch' = pucch /\ air' = air /\ taken' = taken
  BY <1>1 DEF Drop, lists, radio, Own
<1>3. Window'
  BY <1>2 DEF OrderInv, Window
<1>4. Coming = Coming' \cup {<<rx.at, rx.bits>>}
  <2>1. Coming' = OfReport(rx') \cup OfAir(air') \cup OfPucch(pucch')
    BY DEF Coming
  <2>2. OfReport(rx') = {} /\ OfReport(rx) = {<<rx.at, rx.bits>>}
    BY <1>2 DEF OfReport
  <2>3. QED
    BY <1>2, <2>1, <2>2 DEF Coming
<1>5. QueueInOrder' /\ FullBefore(pucch)'
  BY <1>2 DEF OrderInv, QueueInOrder, FullBefore, HasRoom
<1>6. BitsSound' /\ MissedGone'
  BY <1>2, <1>4 DEF OrderInv, BitsSound, MissedGone
<1>7. BitsComplete'
  <2>1. ASSUME NEW p \in Elems(feedback) \ missed PROVE \E c \in Coming' : p \in Own(c[2])
    <3>1. PICK c \in Coming : p \in Own(c[2])
      BY <2>1 DEF OrderInv, BitsComplete
    <3>2. c # <<rx.at, rx.bits>>
      BY <1>1, <3>1
    <3>3. QED
      BY <1>4, <3>1, <3>2
  <2>2. QED
    BY <1>2, <2>1 DEF BitsComplete
<1>8. QED
  BY <1>3, <1>5, <1>6, <1>7 DEF OrderInv

(* Other users and reconfigurations take room away, or nothing.             *)
LEMMA OthersOrder ==
  ASSUME OrderInv, ConfigureBwp \/ \E n \in 0 .. MaxFb : Take(After(now, n)) PROVE OrderInv'
<1>1. /\ now' = now /\ feedback' = feedback /\ proc' = proc /\ pucch' = pucch /\ air' = air
      /\ rx' = rx /\ missed' = missed /\ taken \subseteq taken'
  BY DEF ConfigureBwp, Take, lists, radio
<1>2. Window' /\ QueueInOrder' /\ Coming' = Coming
  BY <1>1 DEF OrderInv, Window, QueueInOrder, Coming
<1>3. FullBefore(pucch)'
  <2>1. ASSUME NEW p \in Elems(feedback), NEW d \in MinFb .. MaxFb,
               d < Lead(now, proc[p].fb), IsUl(After(now, d))
        PROVE  ~(HasRoom(pucch, After(now, d))')
    <3>1. ~HasRoom(pucch, After(now, d))
      BY <2>1 DEF OrderInv, FullBefore
    <3>2. QED
      BY <1>1, <3>1 DEF HasRoom
  <2>2. QED
    BY <1>1, <2>1 DEF FullBefore
<1>4. BitsSound' /\ BitsComplete' /\ MissedGone'
  BY <1>1, <1>2 DEF OrderInv, BitsSound, BitsComplete, MissedGone
<1>5. QED
  BY <1>2, <1>3, <1>4 DEF OrderInv

----------------------------------------------------------------------------
(* A bit reaches its process, or the process is forgotten.                  *)

(* What is left of some bits when processes are forgotten.                  *)
LEMMA WithoutFacts ==
  ASSUME NEW bits \in Marks, NEW ps
  PROVE  /\ Without(bits, ps) \in Marks /\ Len(Without(bits, ps)) = Len(bits) /\ Len(bits) \in Nat
         /\ Without(bits, ps) = <<>> <=> bits = <<>>
         /\ bits = <<>> => Without(bits, ps) = bits
         /\ Own(Without(bits, ps)) = Own(bits) \ ps
         /\ \A i \in 1 .. Len(bits) : Without(bits, ps)[i] # Stale =>
              Without(bits, ps)[i] = bits[i] /\ bits[i] \notin ps /\ bits[i] # Stale
<1> DEFINE w == Without(bits, ps)
<1>1. w \in Marks /\ Len(w) = Len(bits)
  BY WithoutType
<1>2. Len(bits) \in Nat /\ DOMAIN bits = 1 .. Len(bits)
  BY DEF Marks
<1>3. \A i \in 1 .. Len(bits) : w[i] = IF bits[i] \in ps THEN Stale ELSE bits[i]
  BY <1>2 DEF Without
<1> HIDE DEF w
<1>4. Own(w) = Own(bits) \ ps
  BY <1>1, <1>3 DEF Own, Elems
<1>5. (w = <<>> <=> Len(w) = 0) /\ (bits = <<>> <=> Len(bits) = 0)
  BY <1>1 DEF Marks
<1>6. QED
  BY <1>1, <1>2, <1>3, <1>4, <1>5 DEF w

(* Structures and reports keep their slots and their sizes.                 *)
LEMMA ForgetFacts ==
  ASSUME RadioTypes, NEW ps
  PROVE  /\ \A i \in 0 .. PucchSize - 1 :
              LET c == pucch[i]
                  f == ForgetIn(pucch, ps)[i]
              IN  /\ f.at = c.at /\ f.csi = c.csi /\ f.bits = Without(c.bits, ps)
                  /\ c.bits \in Marks /\ (f = Off <=> c = Off)
         /\ Len(ForgetAir(ps)) = Len(air)
         /\ \A i \in 1 .. Len(air) : /\ ForgetAir(ps)[i].at = air[i].at
                                     /\ ForgetAir(ps)[i].bits = Without(air[i].bits, ps)
                                     /\ air[i].bits \in Marks
<1> USE DEF RadioTypes
<1>1. ASSUME NEW i \in 0 .. PucchSize - 1
      PROVE  LET c == pucch[i]
                 f == ForgetIn(pucch, ps)[i]
             IN  /\ f.at = c.at /\ f.csi = c.csi /\ f.bits = Without(c.bits, ps)
                 /\ c.bits \in Marks /\ (f = Off <=> c = Off)
  <2> DEFINE c == pucch[i]
             f == ForgetIn(pucch, ps)[i]
  <2>1. c \in Structure /\ i \in DOMAIN pucch
    BY DEF Pucchs
  <2>2. f = [c EXCEPT !.bits = Without(c.bits, ps)]
    BY <2>1 DEF ForgetIn
  <2> HIDE DEF c, f
  <2>3. c.bits \in Marks /\ c = [at |-> c.at, csi |-> c.csi, bits |-> c.bits]
    BY <2>1 DEF Structure
  <2>4. f = [at |-> c.at, csi |-> c.csi, bits |-> Without(c.bits, ps)]
    BY <2>2, <2>3
  <2>5. Without(c.bits, ps) = <<>> <=> c.bits = <<>>
    BY <2>3, WithoutFacts
  <2>6. f = Off <=> c = Off
    <3>1. f = Off => c = Off
      <4>1. f = Off => c.at = -1 /\ c.csi = FALSE /\ Without(c.bits, ps) = <<>>
        BY <2>4 DEF Off
      <4>2. QED
        BY <2>3, <2>5, <4>1 DEF Off
    <3>2. c = Off => f = Off
      <4>1. c = Off => c.at = -1 /\ c.csi = FALSE /\ c.bits = <<>>
        BY DEF Off
      <4>2. QED
        BY <2>4, <2>5, <4>1 DEF Off
    <3>3. QED
      BY <3>1, <3>2
  <2>7. f.at = c.at /\ f.csi = c.csi /\ f.bits = Without(c.bits, ps)
    BY <2>4
  <2>8. QED
    BY <2>3, <2>6, <2>7 DEF c, f
<1>2. Len(air) \in Nat /\ \A i \in 1 .. Len(air) : air[i] \in Report /\ air[i].bits \in Marks
  BY AirFacts
<1>3. ForgetAir(ps) \in Seq(Report)
  BY ForgetType
<1>4. ForgetAir(ps) = [i \in 1 .. Len(air) |-> [air[i] EXCEPT !.bits = Without(air[i].bits, ps)]]
  BY DEF ForgetAir
<1>5. Len(ForgetAir(ps)) = Len(air)
  BY <1>2, <1>4
<1>6. ASSUME NEW i \in 1 .. Len(air)
      PROVE  /\ ForgetAir(ps)[i].at = air[i].at
             /\ ForgetAir(ps)[i].bits = Without(air[i].bits, ps)
             /\ air[i].bits \in Marks
  <2>1. ForgetAir(ps)[i] = [air[i] EXCEPT !.bits = Without(air[i].bits, ps)]
    BY <1>4
  <2>2. air[i] \in Report
    BY <1>2
  <2>3. QED
    BY <1>2, <2>1, <2>2 DEF Report
<1>7. QED
  BY <1>1, <1>5, <1>6

(* So the windows, the room and what is to come stay the same otherwise.    *)
LEMMA ForgetOrder ==
  ASSUME RadioTypes, Window, NEW ps, pucch' = ForgetIn(pucch, ps), air' = ForgetAir(ps),
         now' = now, taken' = taken
  PROVE  /\ InWindow(now, pucch', MaxFb - 1) /\ AirInOrder(now, air')
         /\ Len(air') = Len(air) /\ \A i \in 1 .. Len(air) : air'[i].at = air[i].at
         /\ \A at \in 0 .. Cycle - 1 : HasRoom(pucch, at)' => HasRoom(pucch, at)
         /\ \A c \in OfAir(air') \cup OfPucch(pucch') :
              \E b \in OfAir(air) \cup OfPucch(pucch) :
                 c[1] = b[1] /\ c[2] = Without(b[2], ps) /\ b[2] \in Marks
         /\ \A b \in OfAir(air) \cup OfPucch(pucch) :
              \E c \in OfAir(air') \cup OfPucch(pucch') :
                 c[1] = b[1] /\ c[2] = Without(b[2], ps) /\ b[2] \in Marks
<1>1. /\ \A i \in 0 .. PucchSize - 1 :
           /\ pucch'[i].at = pucch[i].at /\ pucch'[i].csi = pucch[i].csi
           /\ pucch'[i].bits = Without(pucch[i].bits, ps)
           /\ pucch[i].bits \in Marks /\ (pucch'[i] = Off <=> pucch[i] = Off)
      /\ Len(air') = Len(air)
      /\ \A i \in 1 .. Len(air) : /\ air'[i].at = air[i].at
                                  /\ air'[i].bits = Without(air[i].bits, ps)
                                  /\ air[i].bits \in Marks
  BY ForgetFacts
<1>2. InWindow(now, pucch', MaxFb - 1) /\ AirInOrder(now, air')
  <2>1. InWindow(now, pucch, MaxFb - 1) /\ AirInOrder(now, air)
    BY DEF Window
  <2>2. InWindow(now, pucch', MaxFb - 1)
    BY <1>1, <2>1 DEF InWindow
  <2>3. AirInOrder(now, air')
    BY <1>1, <2>1 DEF AirInOrder
  <2>4. QED
    BY <2>2, <2>3
<1>3. \A i \in 0 .. PucchSize - 1 : /\ Len(pucch'[i].bits) = Len(pucch[i].bits)
                                    /\ pucch'[i].bits = <<>> <=> pucch[i].bits = <<>>
  BY <1>1, WithoutFacts
<1>4. ASSUME NEW at \in 0 .. Cycle - 1, HasRoom(pucch, at)' PROVE HasRoom(pucch, at)
  <2>1. Index(at) \in 0 .. PucchSize - 1
    BY IndexType
  <2>2. QED
    BY <1>1, <1>3, <1>4, <2>1 DEF HasRoom
<1>5. ASSUME NEW c \in OfAir(air') \cup OfPucch(pucch')
      PROVE  \E b \in OfAir(air) \cup OfPucch(pucch) :
                 c[1] = b[1] /\ c[2] = Without(b[2], ps) /\ b[2] \in Marks
  <2>1. CASE c \in OfAir(air')
    <3>1. PICK i \in 1 .. Len(air) : c = <<air'[i].at, air'[i].bits>>
      BY <1>1, <2>1 DEF OfAir
    <3> DEFINE b == <<air[i].at, air[i].bits>>
    <3>2. b \in OfAir(air) /\ b[1] = air[i].at /\ b[2] = air[i].bits
      BY DEF OfAir
    <3>3. c[1] = air'[i].at /\ c[2] = air'[i].bits
      BY <3>1
    <3> HIDE DEF b
    <3>4. QED
      BY <1>1, <3>2, <3>3
  <2>2. CASE c \in OfPucch(pucch')
    <3>1. PICK i \in 0 .. PucchSize - 1 : pucch'[i].bits # <<>> /\ c = <<pucch'[i].at, pucch'[i].bits>>
      BY <2>2 DEF OfPucch
    <3> DEFINE b == <<pucch[i].at, pucch[i].bits>>
    <3>2. b \in OfPucch(pucch) /\ b[1] = pucch[i].at /\ b[2] = pucch[i].bits
      BY <1>3, <3>1 DEF OfPucch
    <3>3. c[1] = pucch'[i].at /\ c[2] = pucch'[i].bits
      BY <3>1
    <3> HIDE DEF b
    <3>4. QED
      BY <1>1, <3>2, <3>3
  <2>3. QED
    BY <2>1, <2>2
<1>6. ASSUME NEW b \in OfAir(air) \cup OfPucch(pucch)
      PROVE  \E c \in OfAir(air') \cup OfPucch(pucch') :
                 c[1] = b[1] /\ c[2] = Without(b[2], ps) /\ b[2] \in Marks
  <2>1. CASE b \in OfAir(air)
    <3>1. PICK i \in 1 .. Len(air) : b = <<air[i].at, air[i].bits>>
      BY <2>1 DEF OfAir
    <3> DEFINE c == <<air'[i].at, air'[i].bits>>
    <3>2. c \in OfAir(air') /\ c[1] = air'[i].at /\ c[2] = air'[i].bits
      BY <1>1 DEF OfAir
    <3>3. b[1] = air[i].at /\ b[2] = air[i].bits
      BY <3>1
    <3> HIDE DEF c
    <3>4. QED
      BY <1>1, <3>2, <3>3
  <2>2. CASE b \in OfPucch(pucch)
    <3>1. PICK i \in 0 .. PucchSize - 1 : pucch[i].bits # <<>> /\ b = <<pucch[i].at, pucch[i].bits>>
      BY <2>2 DEF OfPucch
    <3> DEFINE c == <<pucch'[i].at, pucch'[i].bits>>
    <3>2. c \in OfPucch(pucch') /\ c[1] = pucch'[i].at /\ c[2] = pucch'[i].bits
      BY <1>3, <3>1 DEF OfPucch
    <3>3. b[1] = pucch[i].at /\ b[2] = pucch[i].bits
      BY <3>1
    <3> HIDE DEF c
    <3>4. QED
      BY <1>1, <3>2, <3>3
  <2>3. QED
    BY <2>1, <2>2
<1>7. QED
  BY <1>1, <1>2, <1>4, <1>5, <1>6

\* What is left of a report has the bits of those it still matters to, in order.
PartOf(rest, bits, ps) ==
  /\ rest \in Marks
  /\ Own(rest) \subseteq Own(bits) /\ Own(bits) \subseteq Own(rest) \cup ps
  /\ \A j, k \in 1 .. Len(rest) :
       (j < k /\ rest[j] # Stale /\ rest[k] # Stale) => Before(feedback, rest[j], rest[k])

(* What is to come after the process at the head was handled.               *)
LEMMA HandleComing ==
  ASSUME RadioTypes, Window, rx # NoRx, NEW ps, NEW rest \in Marks,
         rx' = Rest(rest, ps), pucch' = ForgetIn(pucch, ps), air' = ForgetAir(ps),
         now' = now, taken' = taken
  PROVE  /\ \A c \in Coming' : \E b \in Marks :
              /\ c[2] = Without(b, ps)
              /\ <<c[1], b>> \in Coming \/ (c[1] = rx.at /\ b = rest)
         /\ \A b \in Coming : b # <<rx.at, rx.bits>> =>
              \E c \in Coming' : c[1] = b[1] /\ c[2] = Without(b[2], ps) /\ b[2] \in Marks
         /\ rest # <<>> => \E c \in Coming' : c[1] = rx.at /\ c[2] = Without(rest, ps)
         /\ Window'
<1>1. /\ InWindow(now, pucch', MaxFb - 1) /\ AirInOrder(now, air')
      /\ Len(air') = Len(air) /\ \A i \in 1 .. Len(air) : air'[i].at = air[i].at
      /\ \A c \in OfAir(air') \cup OfPucch(pucch') :
           \E b \in OfAir(air) \cup OfPucch(pucch) :
              c[1] = b[1] /\ c[2] = Without(b[2], ps) /\ b[2] \in Marks
      /\ \A b \in OfAir(air) \cup OfPucch(pucch) :
           \E c \in OfAir(air') \cup OfPucch(pucch') :
              c[1] = b[1] /\ c[2] = Without(b[2], ps) /\ b[2] \in Marks
  BY ForgetOrder
<1>2. rx \in Report /\ rx.at \in 0 .. Cycle - 1
  BY DEF RadioTypes, Report
<1>3. rest = <<>> => rx' = NoRx
  BY DEF Rest
<1>4. rest # <<>> => rx' # NoRx /\ rx'.at = rx.at /\ rx'.bits = Without(rest, ps)
  <2>1. ASSUME rest # <<>> PROVE rx' # NoRx /\ rx'.at = rx.at /\ rx'.bits = Without(rest, ps)
    <3>1. rx' = [rx EXCEPT !.bits = Without(rest, ps)]
      BY <2>1 DEF Rest
    <3>2. rx'.at = rx.at /\ rx'.bits = Without(rest, ps)
      BY <1>2, <3>1 DEF Report
    <3>3. rx' # NoRx
      BY <1>2, <3>2, Sizes DEF NoRx
    <3>4. QED
      BY <3>2, <3>3
  <2>2. QED
    BY <2>1
<1>5. Coming' = OfReport(rx') \cup OfAir(air') \cup OfPucch(pucch')
  BY DEF Coming
<1>6. Coming = {<<rx.at, rx.bits>>} \cup OfAir(air) \cup OfPucch(pucch)
  BY DEF Coming, OfReport
<1>7. OfReport(rx') = IF rest = <<>> THEN {} ELSE {<<rx.at, Without(rest, ps)>>}
  BY <1>3, <1>4 DEF OfReport
<1>8. ASSUME NEW c \in Coming'
      PROVE  \E b \in Marks : /\ c[2] = Without(b, ps)
                              /\ <<c[1], b>> \in Coming \/ (c[1] = rx.at /\ b = rest)
  <2>1. CASE c \in OfReport(rx')
    <3>1. c[1] = rx.at /\ c[2] = Without(rest, ps)
      BY <1>7, <2>1
    <3>2. QED
      BY <3>1
  <2>2. CASE c \in OfAir(air') \cup OfPucch(pucch')
    <3>1. PICK b \in OfAir(air) \cup OfPucch(pucch) :
              c[1] = b[1] /\ c[2] = Without(b[2], ps) /\ b[2] \in Marks
      BY <1>1, <2>2
    <3>2. b = <<b[1], b[2]>>
      BY <3>1 DEF OfAir, OfPucch
    <3>3. <<c[1], b[2]>> \in Coming
      BY <1>6, <3>1, <3>2
    <3>4. QED
      BY <3>1, <3>3
  <2>3. QED
    BY <1>5, <2>1, <2>2
<1>9. ASSUME NEW b \in Coming, b # <<rx.at, rx.bits>>
      PROVE  \E c \in Coming' : c[1] = b[1] /\ c[2] = Without(b[2], ps) /\ b[2] \in Marks
  <2>1. b \in OfAir(air) \cup OfPucch(pucch)
    BY <1>6, <1>9
  <2>2. QED
    BY <1>1, <1>5, <2>1
<1>10. ASSUME rest # <<>> PROVE \E c \in Coming' : c[1] = rx.at /\ c[2] = Without(rest, ps)
  <2> DEFINE c == <<rx.at, Without(rest, ps)>>
  <2>1. c \in Coming' /\ c[1] = rx.at /\ c[2] = Without(rest, ps)
    BY <1>5, <1>7, <1>10
  <2> HIDE DEF c
  <2>2. QED
    BY <2>1
<1>11. Window'
  <2>1. rx' # NoRx => rx'.at = rx.at
    BY <1>3, <1>4
  <2>2. rx' # NoRx => /\ Lead(now, rx'.at) \in (0 - MaxDelay) .. -1
                      /\ \A i \in 1 .. Len(air') : Lead(now, rx'.at) < Lead(now, air'[i].at)
    BY <1>1, <2>1 DEF Window
  <2>3. QED
    BY <1>1, <2>2 DEF Window
<1>12. QED
  BY <1>8, <1>9, <1>10, <1>11

(* A bit, or a NACK in the place of one, for the head of the list.          *)
LEMMA HandleOrder ==
  ASSUME Lists, RadioTypes, OrderInv, rx # NoRx, feedback # <<>>, NEW success \in BOOLEAN,
         Handle(success), NEW rest, PartOf(rest, rx.bits, {Head(feedback)}),
         rx' = Rest(rest, {Head(feedback)}), pucch' = ForgetIn(pucch, {Head(feedback)}),
         air' = ForgetAir({Head(feedback)}), missed' = missed \ {Head(feedback)},
         UNCHANGED <<now, common, taken>>
  PROVE  OrderInv'
<1> DEFINE h == Head(feedback)
           ps == {h}
<1>1. /\ Window /\ QueueInOrder /\ FullBefore(pucch) /\ BitsSound /\ BitsComplete /\ MissedGone
      /\ rest \in Marks /\ now' = now /\ taken' = taken
  BY DEF OrderInv, PartOf
<1>2. /\ \A c \in Coming' : \E b \in Marks :
           /\ c[2] = Without(b, ps)
           /\ <<c[1], b>> \in Coming \/ (c[1] = rx.at /\ b = rest)
      /\ \A b \in Coming : b # <<rx.at, rx.bits>> =>
           \E c \in Coming' : c[1] = b[1] /\ c[2] = Without(b[2], ps) /\ b[2] \in Marks
      /\ rest # <<>> => \E c \in Coming' : c[1] = rx.at /\ c[2] = Without(rest, ps)
      /\ Window'
  BY <1>1, HandleComing
<1>3. /\ \A at \in 0 .. Cycle - 1 : HasRoom(pucch, at)' => HasRoom(pucch, at)
  BY <1>1, ForgetOrder
<1>4. /\ feedback \in Seq(Pid) /\ Once(feedback) /\ feedback' = Tail(feedback)
      /\ h = feedback[1] /\ h \in Elems(feedback) /\ Elems(feedback') = Elems(feedback) \ {h}
      /\ Len(feedback) \in Nat \ {0} /\ Len(feedback') = Len(feedback) - 1
      /\ \A i \in 1 .. Len(feedback') : feedback'[i] = feedback[i + 1]
  <2>1. feedback \in Seq(Pid) /\ Once(feedback) /\ feedback' = Tail(feedback)
    BY DEF Lists, ListTypes, ListsMatchProcesses, Handle
  <2>2. /\ h \in Elems(feedback) /\ Elems(Tail(feedback)) = Elems(feedback) \ {h}
    <3>1. h \in Elems(feedback)
      BY <2>1, SomeElems
    <3>2. Elems(feedback) = Elems(Tail(feedback)) \cup {h} /\ h \notin Elems(Tail(feedback))
      BY <2>1, ElemsTail
    <3>3. QED
      BY <3>1, <3>2
  <2>3. QED
    BY <2>1, <2>2
<1>5. \A q \in Elems(feedback') : proc'[q] = proc[q] /\ q \in Elems(feedback) /\ q # h
  <2>1. PICK p \in Pid : p = h /\ (Updated(p, Done(p)) \/ Updated(p, Retried(p)))
    BY HandleFacts DEF Lists
  <2>2. \A q \in Pid \ {h} : proc'[q] = proc[q]
    BY <2>1 DEF Updated
  <2>3. Elems(feedback) \subseteq Pid
    BY ElemsArePids DEF Lists
  <2>4. QED
    BY <1>4, <2>2, <2>3
<1> DEFINE bits == rx.bits
           rxp == <<rx.at, bits>>
<1>6. rxp \in Coming /\ rxp[1] = rx.at /\ rxp[2] = bits
  BY DEF Coming, OfReport
<1> HIDE DEF h, bits, rxp
<1>7. /\ Own(rest) \subseteq Own(bits) /\ Own(bits) \subseteq Own(rest) \cup ps
      /\ \A j, k \in 1 .. Len(rest) :
           (j < k /\ rest[j] # Stale /\ rest[k] # Stale) => Before(feedback, rest[j], rest[k])
  BY DEF PartOf, h, bits
<1> HIDE DEF ps
<1>8. QueueInOrder'
  <2>1. ASSUME NEW p \in Elems(feedback')
        PROVE  /\ proc'[p].fb \in 0 .. Cycle - 1
               /\ Lead(now, proc'[p].fb) \in (0 - MaxOverdue) .. (MaxFb - 1)
    BY <1>1, <1>5 DEF QueueInOrder
  <2>2. ASSUME NEW i \in 1 .. Len(feedback'), NEW j \in 1 .. Len(feedback'), i < j
        PROVE  Lead(now, proc'[feedback'[i]].fb) <= Lead(now, proc'[feedback'[j]].fb)
    <3>1. /\ i + 1 \in 1 .. Len(feedback) /\ j + 1 \in 1 .. Len(feedback) /\ i + 1 < j + 1
      BY <1>4, <2>2
    <3>2. Lead(now, proc[feedback[i + 1]].fb) <= Lead(now, proc[feedback[j + 1]].fb)
      BY <1>1, <3>1 DEF QueueInOrder
    <3>3. feedback'[i] \in Elems(feedback') /\ feedback'[j] \in Elems(feedback')
      BY DEF Elems
    <3>4. QED
      BY <1>4, <1>5, <3>2, <3>3
  <2>3. QED
    BY <1>1, <2>1, <2>2 DEF QueueInOrder
<1>9. FullBefore(pucch)'
  <2>1. ASSUME NEW p \in Elems(feedback'), NEW d \in MinFb .. MaxFb,
               d < Lead(now, proc'[p].fb), IsUl(After(now, d))
        PROVE  ~(HasRoom(pucch, After(now, d))')
    <3>1. ~HasRoom(pucch, After(now, d))
      BY <1>1, <1>5, <2>1 DEF FullBefore
    <3>2. d \in 0 .. MaxFb
      BY Sizes
    <3>3. After(now, d) \in 0 .. Cycle - 1
      BY <3>2, AheadFacts DEF RadioTypes
    <3>4. (HasRoom(pucch, After(now, d))') => HasRoom(pucch, After(now, d))
      <4> DEFINE at == After(now, d)
      <4>1. at \in 0 .. Cycle - 1
        BY <3>3
      <4>2. HasRoom(pucch, After(now, d))' <=>
              LET c == pucch'[Index(at)] IN
                IF c = Off THEN at \notin taken'
                           ELSE c.at = at /\ Len(c.bits) < IF c.csi THEN CsiAcks ELSE 2
        BY <1>1 DEF HasRoom
      <4>3. ASSUME NEW x \in 0 .. Cycle - 1
            PROVE  HasRoom(pucch, x)' <=>
              LET c == pucch'[Index(x)] IN
                IF c = Off THEN x \notin taken'
                           ELSE c.at = x /\ Len(c.bits) < IF c.csi THEN CsiAcks ELSE 2
        BY DEF HasRoom
      <4>4. ASSUME NEW x \in 0 .. Cycle - 1,
              LET c == pucch'[Index(x)] IN
                IF c = Off THEN x \notin taken'
                           ELSE c.at = x /\ Len(c.bits) < IF c.csi THEN CsiAcks ELSE 2
            PROVE  HasRoom(pucch, x)
        BY <1>3, <4>3, <4>4
      <4> HIDE DEF at
      <4>5. HasRoom(pucch, After(now, d))' => HasRoom(pucch, at)
        BY <4>1, <4>2, <4>4
      <4>6. QED
        BY <4>5 DEF at
    <3>5. QED
      BY <3>1, <3>4
  <2>2. QED
    BY <1>1, <2>1 DEF FullBefore
<1>10. BitsSound'
  <2>1. ASSUME NEW c \in Coming'
        PROVE  /\ \A p \in Own(c[2]) : p \in Elems(feedback') /\ proc'[p].fb = c[1]
               /\ \A j, k \in 1 .. Len(c[2]) :
                    (j < k /\ c[2][j] # Stale /\ c[2][k] # Stale) => Before(feedback', c[2][j], c[2][k])
    <3>1. PICK b \in Marks : /\ c[2] = Without(b, ps)
                             /\ <<c[1], b>> \in Coming \/ (c[1] = rx.at /\ b = rest)
      BY <1>2
    <3>2. /\ \A p \in Own(b) : p \in Elems(feedback) /\ proc[p].fb = c[1]
          /\ \A j, k \in 1 .. Len(b) :
               (j < k /\ b[j] # Stale /\ b[k] # Stale) => Before(feedback, b[j], b[k])
      <4>1. CASE <<c[1], b>> \in Coming
        <5> DEFINE x == <<c[1], b>>
        <5>1. x \in Coming /\ x[1] = c[1] /\ x[2] = b
          BY <4>1
        <5> HIDE DEF x
        <5>2. QED
          BY <1>1, <5>1 DEF BitsSound
      <4>2. CASE c[1] = rx.at /\ b = rest
        <5>1. \A p \in Own(bits) : p \in Elems(feedback) /\ proc[p].fb = rx.at
          BY <1>1, <1>6 DEF BitsSound
        <5>2. QED
          BY <1>7, <4>2, <5>1
      <4>3. QED
        BY <3>1, <4>1, <4>2
    <3>3. /\ Own(c[2]) = Own(b) \ ps /\ Len(c[2]) = Len(b)
          /\ \A i \in 1 .. Len(b) : c[2][i] # Stale => c[2][i] = b[i] /\ b[i] \notin ps /\ b[i] # Stale
      BY <3>1, WithoutFacts
    <3>4. \A p \in Own(c[2]) : p \in Elems(feedback') /\ proc'[p].fb = c[1]
      BY <1>4, <1>5, <3>2, <3>3 DEF ps
    <3>5. ASSUME NEW j \in 1 .. Len(c[2]), NEW k \in 1 .. Len(c[2]), j < k,
                 c[2][j] # Stale, c[2][k] # Stale
          PROVE  Before(feedback', c[2][j], c[2][k])
      <4>1. /\ c[2][j] = b[j] /\ b[j] # h /\ c[2][k] = b[k] /\ Before(feedback, b[j], b[k])
        BY <3>2, <3>3, <3>5 DEF ps
      <4>2. b[j] # Head(feedback) /\ feedback \in Seq(Pid) /\ feedback # <<>> /\ feedback' = Tail(feedback)
        BY <1>4, <4>1
      <4>3. Before(feedback', b[j], b[k])
        BY <4>1, <4>2, BeforeTail
      <4>4. QED
        BY <4>1, <4>3
    <3>6. QED
      BY <3>4, <3>5
  <2>2. QED
    BY <2>1 DEF BitsSound
<1>11. BitsComplete'
  <2>1. ASSUME NEW p \in Elems(feedback') \ missed' PROVE \E c \in Coming' : p \in Own(c[2])
    <3>1. p \in Elems(feedback) \ missed /\ p \notin ps
      BY <1>5, <2>1 DEF ps, h
    <3>2. PICK b \in Coming : p \in Own(b[2])
      BY <1>1, <3>1 DEF BitsComplete
    <3>3. CASE b = rxp
      <4>1. p \in Own(rest)
        BY <1>6, <1>7, <3>1, <3>2, <3>3
      <4>2. rest # <<>>
        BY <4>1, NoElems DEF Own
      <4>3. PICK c \in Coming' : c[2] = Without(rest, ps)
        BY <1>2, <4>2
      <4>4. p \in Own(c[2])
        BY <1>1, <3>1, <4>1, <4>3, WithoutFacts
      <4>5. QED
        BY <4>4
    <3>4. CASE b # rxp
      <4>1. PICK c \in Coming' : c[2] = Without(b[2], ps) /\ b[2] \in Marks
        BY <1>2, <3>4 DEF rxp, bits
      <4>2. p \in Own(c[2])
        BY <3>1, <3>2, <4>1, WithoutFacts
      <4>3. QED
        BY <4>2
    <3>5. QED
      BY <3>3, <3>4
  <2>2. QED
    BY <2>1 DEF BitsComplete
<1>12. MissedGone'
  <2>1. ASSUME NEW p \in missed'
        PROVE  /\ p \in Elems(feedback') /\ Lead(now, proc'[p].fb) < 0
               /\ \A c \in Coming' : c[1] # proc'[p].fb
    <3>1. p \in missed /\ p # h
      BY <2>1 DEF h
    <3>2. p \in Elems(feedback) /\ Lead(now, proc[p].fb) < 0 /\ \A c \in Coming : c[1] # proc[p].fb
      BY <1>1, <3>1 DEF MissedGone
    <3>3. p \in Elems(feedback') /\ proc'[p] = proc[p]
      BY <1>4, <1>5, <3>1, <3>2
    <3>4. ASSUME NEW c \in Coming', c[1] = proc[p].fb PROVE FALSE
      <4>1. PICK b \in Marks : <<c[1], b>> \in Coming \/ c[1] = rx.at
        BY <1>2
      <4> DEFINE x == <<c[1], b>>
      <4>2. x[1] = c[1] /\ (x \in Coming \/ c[1] = rxp[1])
        BY <1>6, <4>1
      <4> HIDE DEF x
      <4>3. QED
        BY <1>6, <3>2, <3>4, <4>2
    <3>5. QED
      BY <3>2, <3>3, <3>4
  <2>2. QED
    BY <1>1, <2>1 DEF MissedGone
<1>13. QED
  BY <1>2, <1>8, <1>9, <1>10, <1>11, <1>12 DEF OrderInv

(* A report is passed over only when that of the process was lost.          *)
LEMMA SkippedIsMissed ==
  ASSUME Lists, RadioTypes, OrderInv, SkipMissed PROVE Head(feedback) \in missed
<1>1. Window /\ QueueInOrder /\ BitsSound /\ BitsComplete /\ rx # NoRx /\ feedback # <<>>
  BY DEF OrderInv, SkipMissed
<1>2. Lead(now, Awaited) < Lead(now, rx.at)
  BY <1>1, AwaitedPast DEF SkipMissed
<1>3. ASSUME Head(feedback) \notin missed PROVE FALSE
  <2>1. Head(feedback) \in Elems(feedback)
    BY <1>1, HeadFirst
  <2>2. PICK c \in Coming : Head(feedback) \in Own(c[2])
    BY <1>1, <1>3, <2>1 DEF BitsComplete
  <2>3. c[1] = Awaited
    BY <1>1, <2>2 DEF BitsSound, Awaited
  <2>4. c = <<rx.at, rx.bits>> \/ Lead(now, rx.at) < Lead(now, c[1])
    BY <1>1, ComingFacts
  <2>5. c = <<rx.at, rx.bits>> => c[1] = rx.at
    OBVIOUS
  <2>6. QED
    BY <1>1, <1>2, <2>3, <2>4, <2>5, AwaitedPast
<1>4. QED
  BY <1>3

(* The next bit of a report is that of the head of the list, or of a        *)
(* process that a reset has taken from it.                                  *)
LEMMA CreditIsItsOwn ==
  ASSUME Lists, RadioTypes, OrderInv, NEW success \in BOOLEAN, Credit(success)
  PROVE  Head(rx.bits) \in {Stale, Head(feedback)}
<1> DEFINE h == Head(feedback)
           q == Head(rx.bits)
           c == <<rx.at, rx.bits>>
<1>1. /\ Window /\ QueueInOrder /\ BitsSound /\ BitsComplete /\ MissedGone
      /\ rx # NoRx /\ feedback # <<>>
  BY DEF OrderInv, Credit
<1>2. rx.at = Awaited
  <2>1. ~(Lead(now, Awaited) < Lead(now, rx.at)) /\ ~(Lead(now, rx.at) < Lead(now, Awaited))
    BY <1>1, AwaitedPast DEF Credit
  <2>2. QED
    BY <1>1, <2>1, AwaitedPast
<1>3. rx.bits \in Marks /\ rx.bits # <<>>
  BY <1>1 DEF RadioTypes, Report
<1>4. Len(rx.bits) \in Nat \ {0} /\ q = rx.bits[1] /\ q \in Elems(rx.bits)
  <2>1. PICK b \in Marks : b = rx.bits /\ b # <<>>
    BY <1>3
  <2>2. Len(b) \in Nat \ {0} /\ Head(b) = b[1] /\ Head(b) \in Elems(b)
    BY <2>1, SomeElems DEF Marks
  <2>3. QED
    BY <2>1, <2>2
<1>5. c \in Coming /\ c[1] = rx.at /\ c[2] = rx.bits
  BY <1>1 DEF Coming, OfReport
<1>6. /\ h = feedback[1] /\ h \in Elems(feedback) /\ Len(feedback) \in Nat \ {0}
      /\ proc[h].fb = rx.at
  BY <1>1, <1>2, HeadFirst DEF Awaited
<1> HIDE DEF h, q, c
<1>7. h \notin missed
  BY <1>1, <1>5, <1>6 DEF MissedGone
<1>8. PICK b \in Coming : h \in Own(b[2])
  BY <1>1, <1>6, <1>7 DEF BitsComplete
<1>9. b[1] = rx.at
  BY <1>1, <1>6, <1>8 DEF BitsSound
<1>10. b = c
  BY <1>1, <1>5, <1>8, <1>9, ComingFacts
<1>11. h \in Elems(rx.bits) /\ h # Stale
  BY <1>5, <1>8, <1>10 DEF Own
<1>12. PICK j \in 1 .. Len(rx.bits) : rx.bits[j] = h
  BY <1>11 DEF Elems
<1>13. ASSUME q # Stale, j # 1 PROVE FALSE
  <2>1. 1 < j /\ 1 \in 1 .. Len(rx.bits)
    BY <1>4, <1>12, <1>13
  <2>2. Before(feedback, q, h)
    BY <1>1, <1>4, <1>5, <1>11, <1>12, <1>13, <2>1 DEF BitsSound
  <2>3. PICK m \in 1 .. Len(feedback), n \in 1 .. Len(feedback) :
          m < n /\ feedback[m] = q /\ feedback[n] = h
    BY <2>2 DEF Before
  <2>4. Once(feedback)
    BY DEF Lists, ListsMatchProcesses
  <2>5. n = 1
    <3>1. 1 \in 1 .. Len(feedback)
      BY <1>6
    <3>2. QED
      BY <1>6, <2>3, <2>4, <3>1 DEF Once
  <2>6. QED
    BY <2>3, <2>5
<1>14. QED
  BY <1>4, <1>12, <1>13 DEF h, q

(* find_harq() for one bit.                                                 *)
LEMMA BitOrder ==
  ASSUME Lists, RadioTypes, OrderInv, SkipMissed \/ \E success \in BOOLEAN : Credit(success)
  PROVE  OrderInv'
<1>1. rx # NoRx /\ feedback # <<>> /\ BitsSound
  BY DEF SkipMissed, Credit, OrderInv
<1>2. PICK bits \in Marks : bits = rx.bits /\ bits # <<>>
  BY <1>1 DEF RadioTypes, Report
<1> DEFINE c == <<rx.at, rx.bits>>
<1>3. c \in Coming /\ c[2] = bits
  BY <1>1, <1>2 DEF Coming, OfReport
<1> HIDE DEF c
<1>4. \A j, k \in 1 .. Len(bits) :
         (j < k /\ bits[j] # Stale /\ bits[k] # Stale) => Before(feedback, bits[j], bits[k])
  BY <1>1, <1>3 DEF BitsSound
<1>5. CASE SkipMissed
  <2>1. PartOf(bits, bits, {Head(feedback)})
    BY <1>4 DEF PartOf
  <2>2. /\ Handle(FALSE) /\ rx' = Rest(bits, {Head(feedback)})
        /\ pucch' = ForgetIn(pucch, {Head(feedback)}) /\ air' = ForgetAir({Head(feedback)})
        /\ missed' = missed \ {Head(feedback)} /\ UNCHANGED <<now, common, taken>>
    BY <1>2, <1>5 DEF SkipMissed
  <2>3. FALSE \in BOOLEAN /\ PartOf(bits, rx.bits, {Head(feedback)})
    BY <1>2, <2>1
  <2>4. QED
    BY <1>1, <2>2, <2>3, HandleOrder
<1>6. ASSUME NEW success \in BOOLEAN, Credit(success) PROVE OrderInv'
  <2>1. Head(bits) \in {Stale, Head(feedback)}
    BY <1>2, <1>6, CreditIsItsOwn
  <2>2. /\ Tail(bits) \in Marks /\ Elems(bits) = Elems(Tail(bits)) \cup {Head(bits)}
        /\ Len(Tail(bits)) = Len(bits) - 1 /\ Len(bits) \in Nat
        /\ \A i \in 1 .. Len(Tail(bits)) : Tail(bits)[i] = bits[i + 1]
    BY <1>2, ElemsTail DEF Marks
  <2>3. Own(Tail(bits)) \subseteq Own(bits) /\ Own(bits) \subseteq Own(Tail(bits)) \cup {Head(feedback)}
    BY <2>1, <2>2 DEF Own
  <2>4. ASSUME NEW j \in 1 .. Len(Tail(bits)), NEW k \in 1 .. Len(Tail(bits)), j < k,
               Tail(bits)[j] # Stale, Tail(bits)[k] # Stale
        PROVE  Before(feedback, Tail(bits)[j], Tail(bits)[k])
    <3>1. j + 1 \in 1 .. Len(bits) /\ k + 1 \in 1 .. Len(bits) /\ j + 1 < k + 1
      BY <2>2, <2>4
    <3>2. Tail(bits)[j] = bits[j + 1] /\ Tail(bits)[k] = bits[k + 1]
      BY <2>2
    <3>3. Before(feedback, bits[j + 1], bits[k + 1])
      BY <1>4, <2>4, <3>1, <3>2
    <3>4. QED
      BY <3>2, <3>3
  <2>5. PartOf(Tail(bits), bits, {Head(feedback)})
    BY <2>2, <2>3, <2>4 DEF PartOf
  <2>6. /\ Handle(success) /\ rx' = Rest(Tail(bits), {Head(feedback)})
        /\ pucch' = ForgetIn(pucch, {Head(feedback)}) /\ air' = ForgetAir({Head(feedback)})
        /\ missed' = missed \ {Head(feedback)} /\ UNCHANGED <<now, common, taken>>
    BY <1>2, <1>6 DEF Credit
  <2>7. PartOf(Tail(bits), rx.bits, {Head(feedback)})
    BY <1>2, <2>5
  <2>8. QED
    BY <1>1, <2>6, <2>7, HandleOrder
<1>7. QED
  BY <1>5, <1>6

(* A reset leaves bits that nothing waits for.                              *)
LEMMA ResetOrder ==
  ASSUME RadioTypes, OrderInv, NEW reestablish \in BOOLEAN, RaWithCrnti(reestablish)
  PROVE  OrderInv'
<1>1. /\ rx = NoRx /\ rx' = NoRx /\ feedback' = <<>> /\ missed' = {} /\ now' = now /\ taken' = taken
      /\ pucch' = ForgetIn(pucch, Pid) /\ air' = ForgetAir(Pid) /\ Window
  BY DEF RaWithCrnti, OrderInv
<1>2. /\ InWindow(now, pucch', MaxFb - 1) /\ AirInOrder(now, air')
      /\ \A c \in OfAir(air') \cup OfPucch(pucch') :
           \E b \in OfAir(air) \cup OfPucch(pucch) :
              c[1] = b[1] /\ c[2] = Without(b[2], Pid) /\ b[2] \in Marks
  BY <1>1, ForgetOrder
<1>3. Window'
  BY <1>1, <1>2 DEF Window
<1>4. Elems(feedback') = {} /\ Len(feedback') = 0
  BY <1>1, NoElems
<1>5. QueueInOrder' /\ FullBefore(pucch)' /\ BitsComplete' /\ MissedGone'
  BY <1>1, <1>4 DEF QueueInOrder, FullBefore, BitsComplete, MissedGone
<1>6. BitsSound'
  <2>1. Coming' = OfAir(air') \cup OfPucch(pucch')
    BY <1>1 DEF Coming, OfReport
  <2>2. ASSUME NEW c \in Coming'
        PROVE  Own(c[2]) = {} /\ \A j \in 1 .. Len(c[2]) : c[2][j] = Stale
    <3>1. PICK b \in OfAir(air) \cup OfPucch(pucch) :
              c[1] = b[1] /\ c[2] = Without(b[2], Pid) /\ b[2] \in Marks
      BY <1>2, <2>1
    <3>2. /\ Own(c[2]) = Own(b[2]) \ Pid
      BY <3>1, WithoutFacts
    <3>3. Own(b[2]) \subseteq Pid
      <4>1. \A i \in 1 .. Len(b[2]) : b[2][i] \in Pid \cup {Stale}
        BY <3>1 DEF Marks
      <4>2. QED
        BY <4>1 DEF Own, Elems
    <3>4. QED
      BY <3>2, <3>3 DEF Own, Elems
  <2>3. QED
    BY <2>2 DEF BitsSound
<1>7. QED
  BY <1>3, <1>5, <1>6 DEF OrderInv

(* Nothing is scheduled when the UE is added.                               *)
LEMMA InitOrder == Init => OrderInv
<1> SUFFICES ASSUME Init PROVE OrderInv
  OBVIOUS
<1>1. /\ feedback = <<>> /\ rx = NoRx /\ air = <<>> /\ missed = {}
      /\ pucch = [i \in 0 .. PucchSize - 1 |-> Off]
  BY DEF Init
<1>2. Elems(feedback) = {} /\ Len(feedback) = 0 /\ Len(air) = 0
  BY <1>1, NoElems
<1>3. Window
  BY <1>1, <1>2 DEF Window, InWindow, AirInOrder
<1>4. Coming = {}
  <2>1. OfPucch(pucch) = {}
    BY <1>1 DEF OfPucch, Off
  <2>2. OfAir(air) = {}
    BY <1>2 DEF OfAir
  <2>3. QED
    BY <1>1, <2>1, <2>2 DEF Coming, OfReport
<1>5. QED
  BY <1>1, <1>2, <1>3, <1>4
  DEF OrderInv, QueueInOrder, FullBefore, BitsSound, BitsComplete, MissedGone

(* Every action keeps the order.                                            *)
LEMMA StepOrder == DlInv /\ OrderInv /\ [Next]_vars => OrderInv'
<1> SUFFICES ASSUME DlInv, OrderInv, [Next]_vars PROVE OrderInv'
  OBVIOUS
<1>1. Lists /\ RadioTypes
  BY DEF DlInv
<1>2. ASSUME NEW csi \in BOOLEAN, Slot(csi) PROVE OrderInv'
  BY <1>2, SlotOrder
<1>3. CASE SkipMissed \/ \E success \in BOOLEAN : Credit(success)
  BY <1>1, <1>3, BitOrder
<1>4. CASE UciIndication
  BY <1>1, <1>4, UciOrder
<1>5. CASE Drop
  BY <1>1, <1>5, DropOrder
<1>6. CASE LoseReport
  BY <1>1, <1>6, LoseOrder
<1>7. CASE ConfigureBwp \/ \E n \in 0 .. MaxFb : Take(After(now, n))
  BY <1>7, OthersOrder
<1>8. ASSUME NEW reestablish \in BOOLEAN, RaWithCrnti(reestablish) PROVE OrderInv'
  BY <1>1, <1>8, ResetOrder
<1>9. CASE UNCHANGED vars
  <2>1. /\ now' = now /\ feedback' = feedback /\ proc' = proc /\ pucch' = pucch
        /\ air' = air /\ rx' = rx /\ missed' = missed /\ taken' = taken
    BY <1>9 DEF vars, lists, radio
  <2>2. Window' /\ QueueInOrder' /\ FullBefore(pucch)' /\ Coming' = Coming
    BY <2>1 DEF OrderInv, Window, QueueInOrder, FullBefore, HasRoom, Coming
  <2>3. BitsSound' /\ BitsComplete' /\ MissedGone'
    BY <2>1, <2>2 DEF OrderInv, BitsSound, BitsComplete, MissedGone
  <2>4. QED
    BY <2>2, <2>3 DEF OrderInv
<1>10. QED
  BY <1>2, <1>3, <1>4, <1>5, <1>6, <1>7, <1>8, <1>9 DEF Next

(* The order holds in every reachable state.                                *)
LEMMA OrderInvariant == Spec => [](DlInv /\ OrderInv)
<1>1. Init => DlInv /\ OrderInv
  BY InitInv, InitOrder
<1>2. DlInv /\ OrderInv /\ [Next]_vars => (DlInv /\ OrderInv)'
  BY StepInv, StepOrder
<1>3. QED
  BY <1>1, <1>2, PTL DEF Spec

----------------------------------------------------------------------------
(* What the reports promise.                                                *)

(* Slots in the order of their leads are less than half a cycle apart.      *)
LEMMA OrderInFeedback == DlInv /\ OrderInv => FeedbackInOrder
<1> SUFFICES ASSUME DlInv, OrderInv, NEW i \in 1 .. Len(feedback), NEW j \in 1 .. Len(feedback), i < j
             PROVE  Distance(proc[feedback[i]].fb, proc[feedback[j]].fb) < Cycle \div 2
  BY DEF FeedbackInOrder
<1> DEFINE a == proc[feedback[i]].fb
           b == proc[feedback[j]].fb
<1>1. feedback[i] \in Elems(feedback) /\ feedback[j] \in Elems(feedback)
  BY DEF Elems
<1>2. /\ a \in 0 .. Cycle - 1 /\ Lead(now, a) \in (0 - MaxOverdue) .. (MaxFb - 1)
      /\ b \in 0 .. Cycle - 1 /\ Lead(now, b) \in (0 - MaxOverdue) .. (MaxFb - 1)
      /\ Lead(now, a) <= Lead(now, b)
  BY <1>1 DEF OrderInv, QueueInOrder
<1> HIDE DEF a, b
<1>3. Distance(a, b) = Lead(now, b) - Lead(now, a)
  BY <1>2, LeadDistance DEF DlInv, RadioTypes
<1>4. Distance(a, b) < Half
  BY <1>2, <1>3, Sizes
<1>5. QED
  BY <1>4 DEF a, b, Half

(* find_harq() looks at the head of feedback_dl_harq only: the processes    *)
(* stand there in the order of their feedback slots, whatever the format of *)
(* the DCI and the PUCCHs that were full or taken.                          *)
THEOREM FeedbackAlwaysInOrder == Spec => []FeedbackInOrder
<1>1. QED
  BY OrderInvariant, OrderInFeedback, PTL

(* nr_csi_meas_reporting() finds its structure of sched_pucch free, as its  *)
(* assertion says.                                                          *)
THEOREM CsiStructureAlwaysFree == Spec => []CsiStructureFree
<1>1. DlInv /\ OrderInv => CsiStructureFree
  BY CsiWrites DEF DlInv, RadioTypes, OrderInv, Window, CsiStructureFree
<1>2. QED
  BY <1>1, OrderInvariant, PTL

(* The bits that are to come, one by one.                                   *)
LEMMA ToComeFacts ==
  ASSUME RadioTypes
  PROVE  /\ \A c \in Coming : \A j \in 1 .. Len(c[2]) : <<c[1], j, c[2][j]>> \in ToCome
         /\ \A b \in ToCome : \E c \in Coming : \E j \in 1 .. Len(c[2]) : b = <<c[1], j, c[2][j]>>
<1> USE DEF RadioTypes
<1>1. \A bits \in Marks : DOMAIN bits = 1 .. Len(bits) /\ (bits # <<>> <=> Len(bits) # 0)
  BY DEF Marks
<1>2. Bits(<<rx>>) = {<<rx.at, j, rx.bits[j]>> : j \in DOMAIN rx.bits}
  <2>1. DOMAIN <<rx>> = {1} /\ <<rx>>[1] = rx
    OBVIOUS
  <2>2. QED
    BY <2>1 DEF Bits
<1>3. /\ DOMAIN air = 1 .. Len(air) /\ DOMAIN pucch = 0 .. PucchSize - 1
      /\ \A i \in 1 .. Len(air) : air[i].bits \in Marks
      /\ \A i \in 0 .. PucchSize - 1 : pucch[i].bits \in Marks
      /\ rx.bits \in Marks
  <2>1. \A i \in 0 .. PucchSize - 1 : pucch[i] \in Structure
    BY DEF Pucchs
  <2>2. \A i \in 0 .. PucchSize - 1 : pucch[i].bits \in Marks
    BY <2>1, StructureFields
  <2>3. rx.bits \in Marks
    <3>1. <<>> \in Marks
      BY DEF Marks
    <3>2. QED
      BY <3>1 DEF Report, NoRx
  <2>4. DOMAIN air = 1 .. Len(air) /\ DOMAIN pucch = 0 .. PucchSize - 1
    BY DEF Pucchs
  <2>5. QED
    BY <2>2, <2>3, <2>4, AirFacts
<1>4. ASSUME NEW c \in Coming, NEW j \in 1 .. Len(c[2]) PROVE <<c[1], j, c[2][j]>> \in ToCome
  <2>1. CASE c \in OfReport(rx)
    <3>1. c[1] = rx.at /\ c[2] = rx.bits
      BY <2>1 DEF OfReport
    <3>2. j \in DOMAIN rx.bits
      BY <1>1, <1>3, <3>1
    <3>3. QED
      BY <1>2, <3>1, <3>2 DEF ToCome
  <2>2. CASE c \in OfAir(air)
    <3>1. PICK i \in 1 .. Len(air) : c = <<air[i].at, air[i].bits>>
      BY <2>2 DEF OfAir
    <3>2. c[1] = air[i].at /\ c[2] = air[i].bits
      BY <3>1
    <3>3. i \in DOMAIN air /\ j \in DOMAIN air[i].bits
      BY <1>1, <1>3, <3>2
    <3>4. <<air[i].at, j, air[i].bits[j]>> \in Bits(air)
      BY <3>3 DEF Bits
    <3>5. QED
      BY <3>2, <3>4 DEF ToCome
  <2>3. CASE c \in OfPucch(pucch)
    <3>1. PICK i \in 0 .. PucchSize - 1 : c = <<pucch[i].at, pucch[i].bits>>
      BY <2>3 DEF OfPucch
    <3>2. c[1] = pucch[i].at /\ c[2] = pucch[i].bits
      BY <3>1
    <3>3. i \in DOMAIN pucch /\ j \in DOMAIN pucch[i].bits
      BY <1>1, <1>3, <3>2
    <3>4. <<pucch[i].at, j, pucch[i].bits[j]>> \in Bits(pucch)
      BY <3>3 DEF Bits
    <3>5. QED
      BY <3>2, <3>4 DEF ToCome
  <2>4. QED
    BY <2>1, <2>2, <2>3 DEF Coming
<1>5. ASSUME NEW b \in ToCome
      PROVE  \E c \in Coming : \E j \in 1 .. Len(c[2]) : b = <<c[1], j, c[2][j]>>
  <2>1. CASE b \in Bits(<<rx>>)
    <3>1. PICK j \in DOMAIN rx.bits : b = <<rx.at, j, rx.bits[j]>>
      BY <1>2, <2>1
    <3>2. j \in 1 .. Len(rx.bits)
      BY <1>1, <1>3
    <3>3. rx # NoRx
      <4>1. Len(NoRx.bits) = 0
        BY DEF NoRx
      <4>2. QED
        BY <3>2, <4>1
    <3> DEFINE c == <<rx.at, rx.bits>>
    <3>4. c \in Coming /\ c[1] = rx.at /\ c[2] = rx.bits
      BY <3>3 DEF Coming, OfReport
    <3> HIDE DEF c
    <3>5. QED
      BY <3>1, <3>2, <3>4
  <2>2. CASE b \in Bits(air)
    <3>1. PICK i \in DOMAIN air : b \in {<<air[i].at, j, air[i].bits[j]>> : j \in DOMAIN air[i].bits}
      BY <2>2 DEF Bits
    <3>2. PICK j \in DOMAIN air[i].bits : b = <<air[i].at, j, air[i].bits[j]>>
      BY <3>1
    <3>3. i \in 1 .. Len(air) /\ j \in 1 .. Len(air[i].bits)
      BY <1>1, <1>3
    <3> DEFINE c == <<air[i].at, air[i].bits>>
    <3>4. c \in Coming /\ c[1] = air[i].at /\ c[2] = air[i].bits
      BY <3>3 DEF Coming, OfAir
    <3> HIDE DEF c
    <3>5. QED
      BY <3>2, <3>3, <3>4
  <2>3. CASE b \in Bits(pucch)
    <3>1. PICK i \in DOMAIN pucch : b \in {<<pucch[i].at, j, pucch[i].bits[j]>> : j \in DOMAIN pucch[i].bits}
      BY <2>3 DEF Bits
    <3>2. PICK j \in DOMAIN pucch[i].bits : b = <<pucch[i].at, j, pucch[i].bits[j]>>
      BY <3>1
    <3>3. i \in 0 .. PucchSize - 1 /\ j \in 1 .. Len(pucch[i].bits)
      BY <1>1, <1>3
    <3> DEFINE c == <<pucch[i].at, pucch[i].bits>>
    <3>4. c \in Coming /\ c[1] = pucch[i].at /\ c[2] = pucch[i].bits
      <4>1. pucch[i].bits # <<>>
        BY <1>1, <1>3, <3>3
      <4>2. QED
        BY <3>3, <4>1 DEF Coming, OfPucch
    <3> HIDE DEF c
    <3>5. QED
      BY <3>2, <3>3, <3>4
  <2>4. QED
    BY <2>1, <2>2, <2>3 DEF ToCome
<1>6. QED
  BY <1>4, <1>5

(* One bit for each process, in the PUCCH of the slot it waits for.         *)
LEMMA OneBitEach == DlInv /\ OrderInv => AcksOnTheWay
<1> SUFFICES ASSUME DlInv, OrderInv, NEW p \in Elems(feedback) \ missed
             PROVE  \E b \in ToCome : {c \in ToCome : c[3] = p} = {b} /\ b[1] = proc[p].fb
  BY DEF AcksOnTheWay
<1>1. /\ Lists /\ RadioTypes /\ Window /\ BitsSound /\ BitsComplete /\ Once(feedback)
      /\ p \in Pid /\ p # Stale
  <2>1. p \in Pid
    BY ElemsArePids DEF DlInv, Lists
  <2>2. p # Stale
    BY <2>1, GnbDlHarqAssumption DEF Pid, Stale
  <2>3. QED
    BY <2>1, <2>2 DEF DlInv, OrderInv, Lists, ListsMatchProcesses
<1>2. PICK c \in Coming : p \in Own(c[2])
  BY <1>1 DEF BitsComplete
<1>3. c[1] = proc[p].fb
  BY <1>1, <1>2 DEF BitsSound
<1>4. PICK j \in 1 .. Len(c[2]) : c[2][j] = p
  BY <1>2 DEF Own, Elems
<1> DEFINE b == <<c[1], j, c[2][j]>>
<1>5. b \in ToCome /\ b[1] = proc[p].fb /\ b[3] = p
  BY <1>1, <1>2, <1>3, <1>4, ToComeFacts
<1>6. ASSUME NEW e \in ToCome, e[3] = p PROVE e = b
  <2>1. PICK d \in Coming : \E k \in 1 .. Len(d[2]) : e = <<d[1], k, d[2][k]>>
    BY <1>1, ToComeFacts
  <2>2. PICK k \in 1 .. Len(d[2]) : e = <<d[1], k, d[2][k]>>
    BY <2>1
  <2>3. d[2][k] = p
    BY <1>6, <2>2
  <2>4. p \in Own(d[2])
    BY <1>1, <2>3 DEF Own, Elems
  <2>5. d[1] = proc[p].fb
    BY <1>1, <2>4 DEF BitsSound
  <2>6. d = c
    BY <1>1, <1>3, <2>5, ComingFacts
  <2>7. c[2] \in Marks
    BY <1>1, ComingFacts
  <2>8. Len(c[2]) \in Nat
    BY <2>7 DEF Marks
  <2>9. ~(j < k) /\ ~(k < j)
    <3>1. ~Before(feedback, p, p)
      BY <1>1 DEF Before, Once
    <3>2. QED
      BY <1>1, <1>4, <2>3, <2>6, <3>1 DEF BitsSound
  <2>10. j = k
    BY <2>6, <2>8, <2>9
  <2>11. QED
    BY <2>2, <2>6, <2>10
<1> HIDE DEF b
<1>7. {e \in ToCome : e[3] = p} = {b}
  BY <1>5, <1>6
<1>8. QED
  BY <1>5, <1>7

(* A process that waits has exactly one bit scheduled in a PUCCH or         *)
(* reported, for the very slot it expects, unless that report was lost: no  *)
(* structure of sched_pucch is reused for another slot before its time.     *)
THEOREM AcksAlwaysOnTheWay == Spec => []AcksOnTheWay
<1>1. QED
  BY OrderInvariant, OneBitEach, PTL

\* What a step of BitsReachTheirProcess says
ReachesItsProcess ==
  (rx # NoRx /\ Stale \notin Elems(rx.bits)) =>
     /\ \A p \in Elems(feedback) \ Elems(feedback') : p = Head(rx.bits) \/ p \in missed
     /\ \A p \in Own(rx.bits) \ Own(rx'.bits) : p \notin Elems(feedback')

(* Only handling a bit takes it from a report, and a process from the list. *)
LEMMA StepReaches == DlInv /\ OrderInv /\ [Next]_vars => ReachesItsProcess
<1> SUFFICES ASSUME DlInv, OrderInv, [Next]_vars, rx # NoRx, Stale \notin Elems(rx.bits)
             PROVE  /\ \A p \in Elems(feedback) \ Elems(feedback') : p = Head(rx.bits) \/ p \in missed
                    /\ \A p \in Own(rx.bits) \ Own(rx'.bits) : p \notin Elems(feedback')
  BY DEF ReachesItsProcess
<1>1. Lists /\ RadioTypes /\ Window
  BY DEF DlInv, OrderInv
<1>2. PICK bits \in Marks : bits = rx.bits /\ bits # <<>>
  BY DEF DlInv, RadioTypes, Report
<1>3. Own(NoRx.bits) = {}
  BY NoElems DEF NoRx, Own
<1>4. ASSUME feedback # <<>>, NEW success \in BOOLEAN, Handle(success)
      PROVE  /\ Elems(feedback') = Elems(feedback) \ {Head(feedback)}
             /\ Head(feedback) \notin Elems(feedback')
  <2>1. feedback \in Seq(Pid) /\ Once(feedback) /\ feedback' = Tail(feedback)
    BY <1>1, <1>4 DEF Lists, ListTypes, ListsMatchProcesses, Handle
  <2>2. QED
    BY <1>4, <2>1, ElemsTail
<1>5. ASSUME NEW b \in Marks, NEW ps, rx' = Rest(b, ps)
      PROVE  Own(rx'.bits) = Own(b) \ ps
  <2>1. CASE b = <<>>
    BY <1>3, <1>5, <2>1, NoElems DEF Rest, Own
  <2>2. CASE b # <<>>
    <3>1. rx \in Report
      BY DEF DlInv, RadioTypes
    <3>2. rx'.bits = Without(b, ps)
      BY <1>5, <2>2, <3>1 DEF Rest, Report
    <3>3. QED
      BY <3>2, WithoutFacts
  <2>3. QED
    BY <2>1, <2>2
<1>6. CASE SkipMissed
  <2>1. Head(feedback) \in missed
    BY <1>1, <1>6, SkippedIsMissed
  <2>2. feedback # <<>> /\ Handle(FALSE) /\ rx' = Rest(bits, {Head(feedback)})
    BY <1>2, <1>6 DEF SkipMissed
  <2>3. Own(rx'.bits) = Own(bits) \ {Head(feedback)}
    BY <1>5, <2>2
  <2>4. QED
    BY <1>2, <1>4, <2>1, <2>2, <2>3
<1>7. ASSUME NEW success \in BOOLEAN, Credit(success)
      PROVE  /\ \A p \in Elems(feedback) \ Elems(feedback') : p = Head(rx.bits) \/ p \in missed
             /\ \A p \in Own(rx.bits) \ Own(rx'.bits) : p \notin Elems(feedback')
  <2>1. Head(bits) \in Elems(bits) /\ Tail(bits) \in Marks
        /\ Elems(bits) = Elems(Tail(bits)) \cup {Head(bits)}
    BY <1>2, SomeElems, ElemsTail DEF Marks
  <2>2. Head(bits) = Head(feedback)
    BY <1>1, <1>2, <1>7, <2>1, CreditIsItsOwn
  <2>3. feedback # <<>> /\ Handle(success) /\ rx' = Rest(Tail(bits), {Head(feedback)})
    BY <1>2, <1>7 DEF Credit
  <2>4. Own(rx'.bits) = Own(Tail(bits)) \ {Head(feedback)}
    BY <1>5, <2>1, <2>3
  <2>5. Own(bits) \subseteq Own(Tail(bits)) \cup {Head(feedback)}
    BY <2>1, <2>2 DEF Own
  <2>6. QED
    BY <1>2, <1>4, <2>2, <2>3, <2>4, <2>5
<1>8. CASE Drop
  <2>1. Own(rx.bits) = {} /\ feedback' = feedback
    BY <1>1, <1>8, NothingDropped DEF Drop, lists
  <2>2. QED
    BY <2>1
<1>9. CASE LoseReport \/ UNCHANGED vars
  <2>1. rx' = rx /\ feedback' = feedback
    BY <1>9 DEF LoseReport, vars, lists
  <2>2. QED
    BY <2>1
<1>10. CASE \/ \E csi \in BOOLEAN : Slot(csi)
            \/ UciIndication \/ ConfigureBwp
            \/ \E n \in 0 .. MaxFb : Take(After(now, n))
            \/ \E reestablish \in BOOLEAN : RaWithCrnti(reestablish)
  BY <1>10 DEF Slot, UciIndication, ConfigureBwp, Take, RaWithCrnti
<1>11. QED
  BY <1>6, <1>7, <1>8, <1>9, <1>10 DEF Next

(* An ACK/NACK changes the process it was scheduled for: a report takes a   *)
(* process out of feedback_dl_harq only by its own bit or after its report  *)
(* was lost, and none of its bits is thrown away while its process waits.   *)
THEOREM BitsAlwaysReach == Spec => BitsReachTheirProcess
<1>1. DlInv /\ OrderInv /\ [Next]_vars => [ReachesItsProcess]_vars
  BY StepReaches
<1>2. Spec => [][ReachesItsProcess]_vars
  BY <1>1, OrderInvariant, PTL DEF Spec
<1>3. [][ReachesItsProcess]_vars => BitsReachTheirProcess
  BY PTL DEF BitsReachTheirProcess, ReachesItsProcess
<1>4. QED
  BY <1>2, <1>3
=============================================================================
