-------------------------- MODULE GnbUlHarq_proofs --------------------------
(************************************************************************** *)
(* Proofs about uplink HARQ of one UE, for any number of processes,         *)
(* rounds, block sizes and reports on the air.                              *)
(************************************************************************** *)
EXTENDS GnbUlHarq, Lemmas_proofs

----------------------------------------------------------------------------
(* The ids create_ul_harq_list() appends.                                   *)
LEMMA PidsFacts ==
  ASSUME NEW from \in Nat, NEW n \in Nat, from <= n, NEW S, from .. n - 1 \subseteq S
  PROVE  /\ Pids(from, n) \in Seq(S)
         /\ Elems(Pids(from, n)) = from .. n - 1
         /\ Once(Pids(from, n))
<1>1. /\ Pids(from, n) \in [1 .. n - from -> S] /\ n - from \in Nat
      /\ \A i \in 1 .. n - from : Pids(from, n)[i] = from + i - 1
  BY DEF Pids
<1>2. Pids(from, n) \in Seq(S) /\ Len(Pids(from, n)) = n - from
  BY <1>1
<1>3. \A p \in from .. n - 1 : p - from + 1 \in 1 .. n - from /\ Pids(from, n)[p - from + 1] = p
  BY <1>1
<1>4. QED
  BY <1>1, <1>2, <1>3 DEF Elems, Once
----------------------------------------------------------------------------
(* Types.                                                                   *)

ListTypes ==
  /\ available \in Seq(Pid) /\ feedback \in Seq(Pid) /\ retrans \in Seq(Pid)
  /\ len \in {NrofHarq(TRUE), NrofHarq(FALSE)}
  /\ proc \in [Pid -> Process]
OtherTypes ==
  /\ schedBytes \in Nat
  /\ dtx \in 0 .. DtxThreshold
  /\ ulFailure \in BOOLEAN
  /\ interrupt \in Interrupts
  /\ disableHarq \in BOOLEAN
  /\ gf \subseteq GfPids
  /\ rx \in [pid : Pid, kind : Kind, ok : BOOLEAN] \cup {NoRx}
  /\ aborted \in BOOLEAN
  /\ lost \in Nat
  /\ leaked \in BOOLEAN
  /\ stopped \in BOOLEAN
AirType == air \in Seq(Report)

(* TypeOK in three parts, for the actions that touch only one of them.      *)
LEMMA TypeParts == TypeOK <=> ListTypes /\ OtherTypes /\ AirType
  BY DEF TypeOK, ListTypes, OtherTypes, AirType

(* A common search space never asks for more processes than the dedicated   *)
(* one, and all ids are ids of processes.                                   *)
LEMMA NumberFacts ==
  /\ NrofHarq(TRUE) \in Nat \ {0} /\ NrofHarq(FALSE) \in Nat \ {0}
  /\ NrofHarq(TRUE) <= NrofHarq(FALSE)
  /\ \A n \in 0 .. NrofHarq(FALSE) : 0 .. n - 1 \subseteq Pid
  /\ Pid \subseteq Nat
  BY GnbUlHarqAssumption DEF NrofHarq, Min2, Pid

(* The same for either kind of search space.                                *)
LEMMA NrofFacts ==
  ASSUME NEW common \in BOOLEAN
  PROVE  /\ NrofHarq(common) = NrofHarq(TRUE) \/ NrofHarq(common) = NrofHarq(FALSE)
         /\ NrofHarq(common) \in Nat /\ 0 .. NrofHarq(common) - 1 \subseteq Pid
  BY GnbUlHarqAssumption DEF NrofHarq, Min2, Pid

(* Only process p changes, to v.                                            *)
Updated(p, v) ==
  /\ proc' \in [Pid -> Process]
  /\ proc'[p] = v
  /\ \A q \in Pid \ {p} : proc'[q] = proc[q]

(* An assignment to one process.                                            *)
LEMMA ProcessUpdate ==
  ASSUME ListTypes, NEW p \in Pid, NEW v \in Process, proc' = [proc EXCEPT ![p] = v]
  PROVE  Updated(p, v)
  BY DEF ListTypes, Updated

\* What becomes of process p when its block ends, and when it is to be sent again.
Done(p) == [proc[p] EXCEPT !.ndi = 1 - proc[p].ndi, !.round = 0, !.waiting = FALSE]
Retried(p) == [proc[p] EXCEPT !.round = proc[p].round + 1, !.waiting = FALSE]

(* The fields of a process whose block has ended.                           *)
LEMMA DoneType ==
  ASSUME ListTypes, NEW p \in Pid
  PROVE  /\ Done(p) \in Process
         /\ Done(p).ndi = 1 - proc[p].ndi /\ Done(p).round = 0 /\ ~Done(p).waiting
<1>1. proc[p] \in Process
  BY DEF ListTypes
<1>2. 1 - proc[p].ndi \in {0, 1} /\ 0 \in 0 .. RoundMax - 1
  BY <1>1, GnbUlHarqAssumption DEF Process
<1>3. QED
  BY <1>1, <1>2 DEF Process, Done

(* The fields of a process whose block is to be sent again.                 *)
LEMMA RetriedType ==
  ASSUME ListTypes, NEW p \in Pid, ~(proc[p].round >= RoundMax - 1)
  PROVE  /\ Retried(p) \in Process
         /\ Retried(p).ndi = proc[p].ndi /\ Retried(p).round = proc[p].round + 1
         /\ Retried(p).round > 0 /\ ~Retried(p).waiting
<1>1. proc[p] \in Process
  BY DEF ListTypes
<1>2. proc[p].round + 1 \in 0 .. RoundMax - 1 /\ proc[p].round + 1 > 0
  BY <1>1, GnbUlHarqAssumption DEF Process
<1>3. QED
  BY <1>1, <1>2 DEF Process, Retried

(* finish_nr_ul_harq()                                                      *)
LEMMA FinishUpdate ==
  ASSUME ListTypes, NEW p \in Pid, Finish(p)
  PROVE  Updated(p, Done(p)) /\ available' = Append(available, p) /\ retrans' = retrans
<1>1. proc' = [proc EXCEPT ![p] = Done(p)]
  BY DEF Finish, Done, ListTypes
<1>2. QED
  BY <1>1, DoneType, ProcessUpdate DEF Finish

(* The clamped subtraction stays natural.                                   *)
LEMMA MinusType == ASSUME schedBytes \in Nat, NEW n \in Nat PROVE Minus(n) \in Nat
  BY DEF Minus

(* A failed transmission ends the block or puts the process on retrans,     *)
(* with its round raised below the maximum only.                            *)
LEMMA FailedUpdate ==
  ASSUME ListTypes, schedBytes \in Nat, NEW p \in Pid, Failed(p)
  PROVE  /\ \/ Finish(p)
            \/ /\ Updated(p, Retried(p)) /\ ~(proc[p].round >= RoundMax - 1)
               /\ retrans' = Append(retrans, p) /\ available' = available
         /\ schedBytes' \in Nat
<1>1. CASE proc[p].round >= RoundMax - 1
  <2>1. proc[p].tb \in Nat
    BY DEF ListTypes, Process
  <2>2. QED
    BY <1>1, <2>1, MinusType DEF Failed
<1>2. CASE ~(proc[p].round >= RoundMax - 1)
  <2>1. proc' = [proc EXCEPT ![p] = Retried(p)] /\ schedBytes' = schedBytes
        /\ retrans' = Append(retrans, p) /\ available' = available
    BY <1>2 DEF Failed, Retried, ListTypes
  <2>2. QED
    BY <1>2, <2>1, RetriedType, ProcessUpdate
<1>3. QED
  BY <1>1, <1>2

(* Making the reports at some places stale keeps the reports.               *)
LEMMA StaleType ==
  ASSUME AirType, NEW I
  PROVE  [i \in 1 .. Len(air) |->
            IF i \in I THEN [air[i] EXCEPT !.kind = "stale"] ELSE air[i]] \in Seq(Report)
<1>1. \A i \in 1 .. Len(air) : air[i] \in Report
  BY DEF AirType
<1>2. \A i \in 1 .. Len(air) : [air[i] EXCEPT !.kind = "stale"] \in Report
  BY <1>1 DEF Report, Kind
<1>3. Len(air) \in Nat
  BY DEF AirType
<1>4. QED
  BY <1>1, <1>2, <1>3

(* Forget() keeps the reports.                                              *)
LEMMA ForgetType == ASSUME AirType, NEW p PROVE Forget(p) \in Seq(Report)
<1> DEFINE I == {i \in 1 .. Len(air) : air[i].pid = p /\ air[i].kind = "own"}
<1>1. Forget(p) = [i \in 1 .. Len(air) |->
                     IF i \in I THEN [air[i] EXCEPT !.kind = "stale"] ELSE air[i]]
  BY DEF Forget
<1>2. QED
  BY <1>1, StaleType

----------------------------------------------------------------------------
(* The lists and their processes.                                           *)

\* ListsMatchProcesses without the report that is being handled
Match ==
  /\ \A p \in Pid : proc[p].waiting <=> p \in Elems(feedback)
  /\ \A p \in Pid \ (Elems(feedback) \cup Elems(retrans)) : proc[p].round = 0
  /\ \A p \in Elems(retrans) : proc[p].round > 0
NoFeedbackUsed == disableHarq => feedback = <<>> /\ retrans = <<>> /\ rx = NoRx

(* ListsMatchProcesses in its parts.                                        *)
LEMMA MatchParts == ListsMatchProcesses <=> ListsPartition /\ Match /\ NoFeedbackUsed
  BY DEF ListsMatchProcesses, Match, NoFeedbackUsed

Lists == ListTypes /\ ListsPartition /\ Match

\* All processes of the lists, as a set.
LEMMA KnownArePids == ASSUME ListTypes PROVE /\ Elems(available) \subseteq Pid
                                             /\ Elems(feedback) \subseteq Pid
                                             /\ Elems(retrans) \subseteq Pid
  BY SomeElems, NoElems DEF ListTypes

(* A new block: the process goes from available to feedback.                *)
LEMMA SendLists ==
  ASSUME Lists, available # <<>>, NEW v \in Process, v.waiting,
         Updated(Head(available), v), available' = Tail(available),
         feedback' = Append(feedback, Head(available)), retrans' = retrans, len' = len
  PROVE  Lists'
<1> DEFINE p == Head(available)
<1>1. /\ available' \in Seq(Pid) /\ feedback' \in Seq(Pid)
      /\ Once(available') /\ Once(feedback')
      /\ p \in Pid /\ p \in Elems(available)
      /\ Elems(available') = Elems(available) \ {p}
      /\ Elems(feedback') = Elems(feedback) \cup {p}
  BY MoveHead DEF Lists, ListTypes, ListsPartition
<1>2. ListTypes'
  BY <1>1 DEF Lists, ListTypes, Updated
<1>3. ListsPartition'
  BY <1>1 DEF Lists, ListsPartition, Known
<1>4. Match'
  BY <1>1, KnownArePids DEF Lists, ListsPartition, Match, Updated
<1>5. QED
  BY <1>2, <1>3, <1>4 DEF Lists

(* The same block again: from retrans to feedback.                          *)
LEMMA ResendLists ==
  ASSUME Lists, retrans # <<>>, NEW v \in Process, v.waiting,
         Updated(Head(retrans), v), retrans' = Tail(retrans),
         feedback' = Append(feedback, Head(retrans)), available' = available, len' = len
  PROVE  Lists'
<1> DEFINE p == Head(retrans)
<1>1. /\ retrans' \in Seq(Pid) /\ feedback' \in Seq(Pid)
      /\ Once(retrans') /\ Once(feedback')
      /\ p \in Pid /\ p \in Elems(retrans)
      /\ Elems(retrans') = Elems(retrans) \ {p}
      /\ Elems(feedback') = Elems(feedback) \cup {p}
  BY MoveHead DEF Lists, ListTypes, ListsPartition
<1>2. ListTypes'
  BY <1>1 DEF Lists, ListTypes, Updated
<1>3. ListsPartition'
  BY <1>1 DEF Lists, ListsPartition, Known
<1>4. Match'
  BY <1>1, KnownArePids DEF Lists, ListsPartition, Match, Updated
<1>5. QED
  BY <1>2, <1>3, <1>4 DEF Lists

(* The block has ended: from feedback to available.                         *)
LEMMA FinishLists ==
  ASSUME Lists, feedback # <<>>, feedback' = Tail(feedback), len' = len,
         Finish(Head(feedback))
  PROVE  Lists'
<1> DEFINE p == Head(feedback)
<1>1. /\ Tail(feedback) \in Seq(Pid) /\ Append(available, p) \in Seq(Pid)
      /\ Once(Tail(feedback)) /\ Once(Append(available, p))
      /\ p \in Pid /\ p \in Elems(feedback)
      /\ Elems(Tail(feedback)) = Elems(feedback) \ {p}
      /\ Elems(Append(available, p)) = Elems(available) \cup {p}
  BY MoveHead DEF Lists, ListTypes, ListsPartition
<1>2. Updated(p, Done(p)) /\ available' = Append(available, p) /\ retrans' = retrans
      /\ Done(p).round = 0 /\ ~Done(p).waiting
  BY <1>1, FinishUpdate, DoneType DEF Lists
<1>3. ListTypes'
  BY <1>1, <1>2 DEF Lists, ListTypes, Updated
<1>4. ListsPartition'
  BY <1>1, <1>2 DEF Lists, ListsPartition, Known
<1>5. Match'
  BY <1>1, <1>2, KnownArePids DEF Lists, ListsPartition, Match, Updated
<1>6. QED
  BY <1>3, <1>4, <1>5 DEF Lists

(* The transmission failed: from feedback to available or to retrans.       *)
LEMMA FailLists ==
  ASSUME Lists, schedBytes \in Nat, feedback # <<>>, feedback' = Tail(feedback), len' = len,
         Failed(Head(feedback))
  PROVE  Lists' /\ schedBytes' \in Nat
<1> DEFINE p == Head(feedback)
<1>1. /\ Tail(feedback) \in Seq(Pid) /\ Append(retrans, p) \in Seq(Pid)
      /\ Once(Tail(feedback)) /\ Once(Append(retrans, p))
      /\ p \in Pid /\ p \in Elems(feedback)
      /\ Elems(Tail(feedback)) = Elems(feedback) \ {p}
      /\ Elems(Append(retrans, p)) = Elems(retrans) \cup {p}
  BY MoveHead DEF Lists, ListTypes, ListsPartition
<1>2. /\ \/ Finish(p)
         \/ /\ Updated(p, Retried(p)) /\ ~(proc[p].round >= RoundMax - 1)
            /\ retrans' = Append(retrans, p) /\ available' = available
      /\ schedBytes' \in Nat
  BY <1>1, FailedUpdate DEF Lists
<1>3. CASE Finish(p)
  BY <1>2, <1>3, FinishLists
<1>4. CASE /\ Updated(p, Retried(p)) /\ ~(proc[p].round >= RoundMax - 1)
           /\ retrans' = Append(retrans, p) /\ available' = available
  <2>1. Retried(p).round > 0 /\ ~Retried(p).waiting
    BY <1>1, <1>4, RetriedType DEF Lists
  <2>2. ListTypes'
    BY <1>1, <1>4 DEF Lists, ListTypes, Updated
  <2>3. ListsPartition'
    BY <1>1, <1>4 DEF Lists, ListsPartition, Known
  <2>4. Match'
    BY <1>1, <1>4, <2>1, KnownArePids DEF Lists, ListsPartition, Match, Updated
  <2>5. QED
    BY <1>2, <2>2, <2>3, <2>4 DEF Lists
<1>5. QED
  BY <1>2, <1>3, <1>4

(* Without feedback the process goes to the tail of its own list.           *)
LEMMA RotateLists ==
  ASSUME Lists, available # <<>>, NEW v \in Process, ~v.waiting, v.round = 0,
         Updated(Head(available), v), available' = Append(Tail(available), Head(available)),
         feedback' = feedback, retrans' = retrans, len' = len
  PROVE  Lists'
<1> DEFINE p == Head(available)
<1>1. /\ Tail(available) \in Seq(Pid) /\ p \in Pid
      /\ Elems(available) = Elems(Tail(available)) \cup {p}
      /\ Once(Tail(available)) /\ p \notin Elems(Tail(available))
  BY ElemsTail DEF Lists, ListTypes, ListsPartition
<1>2. /\ available' \in Seq(Pid) /\ Once(available')
      /\ Elems(available') = Elems(available)
  <2> DEFINE t == Tail(available)
  <2>1. t \in Seq(Pid) /\ p \in Pid /\ Once(t) /\ p \notin Elems(t)
        /\ Elems(available) = Elems(t) \cup {p} /\ available' = Append(t, p)
    BY <1>1
  <2> HIDE DEF p, t
  <2>2. /\ Append(t, p) \in Seq(Pid) /\ Elems(Append(t, p)) = Elems(t) \cup {p}
        /\ Once(Append(t, p))
    BY <2>1, ElemsAppend
  <2>3. QED
    BY <2>1, <2>2
<1>3. ListTypes'
  BY <1>2 DEF Lists, ListTypes, Updated
<1>4. ListsPartition'
  BY <1>2 DEF Lists, ListsPartition, Known
<1>5. Match'
  BY <1>1, <1>2, KnownArePids DEF Lists, ListsPartition, Match, Updated
<1>6. QED
  BY <1>3, <1>4, <1>5 DEF Lists

(* create_ul_harq_list(), when avail holds every process that is in neither *)
(* of the other lists.                                                      *)
LEMMA CreateLists ==
  ASSUME len \in {NrofHarq(TRUE), NrofHarq(FALSE)}, NEW common \in BOOLEAN,
         NEW avail \in Seq(Pid), Once(avail), NEW others,
         Elems(avail) \cap others = {}, Elems(avail) \cup others = 0 .. len - 1,
         CreateUlHarqList(avail, common)
  PROVE  /\ available' \in Seq(Pid) /\ Once(available')
         /\ len' \in {NrofHarq(TRUE), NrofHarq(FALSE)}
         /\ Elems(available') \cap others = {} /\ Elems(available') \cup others = 0 .. len' - 1
         /\ Elems(avail) \subseteq Elems(available')
         /\ aborted' \in BOOLEAN
<1> DEFINE n == NrofHarq(common)
<1>1. n \in {NrofHarq(TRUE), NrofHarq(FALSE)} /\ n \in Nat /\ 0 .. n - 1 \subseteq Pid
  BY NrofFacts
<1>2. len \in Nat
  BY NumberFacts
<1>3. CASE n > len
  <2> HIDE DEF n
  <2>1. \A i \in len .. n - 1 : i \in 0 .. n - 1
    BY <1>1, <1>2, <1>3
  <2>2. len .. n - 1 \subseteq Pid /\ len <= n
    BY <1>1, <1>2, <1>3, <2>1
  <2>3. /\ Pids(len, n) \in Seq(Pid) /\ Elems(Pids(len, n)) = len .. n - 1
        /\ Once(Pids(len, n))
    BY <1>1, <1>2, <2>2, PidsFacts
  <2>4. (0 .. len - 1) \cap (len .. n - 1) = {} /\ (0 .. len - 1) \cup (len .. n - 1) = 0 .. n - 1
    BY <1>1, <1>2, <1>3
  <2>5. available' = avail \o Pids(len, n) /\ len' = n /\ aborted' \in BOOLEAN
    BY <1>3 DEF CreateUlHarqList, n
  <2>6. /\ available' \in Seq(Pid) /\ Once(available')
        /\ Elems(available') = Elems(avail) \cup (len .. n - 1)
    <3> DEFINE more == Pids(len, n)
    <3>1. /\ more \in Seq(Pid) /\ Once(more) /\ Elems(more) = len .. n - 1
          /\ available' = avail \o more
      BY <2>3, <2>5
    <3> HIDE DEF more
    <3>2. Elems(avail) \cap Elems(more) = {}
      BY <2>4, <3>1
    <3>3. \A s, t \in Seq(Pid) :
             /\ s \o t \in Seq(Pid) /\ Elems(s \o t) = Elems(s) \cup Elems(t)
             /\ Once(s) /\ Once(t) /\ Elems(s) \cap Elems(t) = {} => Once(s \o t)
      BY ElemsConcat
    <3>4. QED
      BY <3>1, <3>2, <3>3
  <2>7. QED
    BY <1>1, <2>4, <2>5, <2>6
<1>4. CASE ~(n > len)
  <2>1. available' = avail /\ len' = len /\ aborted' \in BOOLEAN
    BY <1>4 DEF CreateUlHarqList
  <2>2. QED
    BY <2>1
<1>5. QED
  BY <1>3, <1>4

(* ... with the other lists as they are.                                    *)
LEMMA GrowLists ==
  ASSUME Lists, NEW common \in BOOLEAN, CreateUlHarqList(available, common),
         feedback' = feedback, retrans' = retrans, proc' = proc
  PROVE  Lists' /\ aborted' \in BOOLEAN /\ Elems(available) \subseteq Elems(available')
<1> DEFINE others == Elems(feedback) \cup Elems(retrans)
<1>1. Elems(available) \cap others = {} /\ Elems(available) \cup others = 0 .. len - 1
  BY DEF Lists, ListsPartition, Known
<1>2. /\ available' \in Seq(Pid) /\ Once(available')
      /\ len' \in {NrofHarq(TRUE), NrofHarq(FALSE)}
      /\ Elems(available') \cap others = {} /\ Elems(available') \cup others = 0 .. len' - 1
      /\ Elems(available) \subseteq Elems(available')
      /\ aborted' \in BOOLEAN
  <2> HIDE DEF others
  <2>1. QED
    BY <1>1, CreateLists DEF Lists, ListTypes, ListsPartition
<1>3. ListTypes'
  BY <1>2 DEF Lists, ListTypes
<1>4. ListsPartition'
  BY <1>2 DEF Lists, ListsPartition, Known
<1>5. Match'
  BY DEF Lists, Match
<1>6. QED
  BY <1>2, <1>3, <1>4, <1>5 DEF Lists

(* All three lists in one.                                                  *)
LEMMA JoinLists ==
  ASSUME Lists
  PROVE  LET all == available \o feedback \o retrans
         IN  all \in Seq(Pid) /\ Once(all) /\ Elems(all) = 0 .. len - 1
<1>1. /\ available \o feedback \in Seq(Pid)
      /\ Elems(available \o feedback) = Elems(available) \cup Elems(feedback)
      /\ Once(available \o feedback)
  BY ElemsConcat DEF Lists, ListTypes, ListsPartition
<1>2. Elems(available \o feedback) \cap Elems(retrans) = {}
  BY <1>1 DEF Lists, ListsPartition
<1> DEFINE two == available \o feedback
<1> HIDE DEF two
<1>3. /\ two \o retrans \in Seq(Pid)
      /\ Elems(two \o retrans) = Elems(two) \cup Elems(retrans)
      /\ Once(two \o retrans)
  <2>1. two \in Seq(Pid) /\ Once(two) /\ Elems(two) \cap Elems(retrans) = {}
    BY <1>1, <1>2 DEF two
  <2>2. retrans \in Seq(Pid) /\ Once(retrans)
    BY DEF Lists, ListTypes, ListsPartition
  <2>3. QED
    BY <2>1, <2>2, ElemsConcat
<1>4. QED
  BY <1>1, <1>3 DEF Lists, ListsPartition, Known, two

(* reset_ul_harq_list(), with the lists of the common search space or not.  *)
LEMMA ResetLists ==
  ASSUME Lists, NEW reestablish \in BOOLEAN, NEW bsr \in BOOLEAN, aborted \in BOOLEAN,
         RaWithCrnti(reestablish, bsr)
  PROVE  /\ Lists' /\ aborted' \in BOOLEAN
         /\ proc' \in [Pid -> Process] /\ feedback' = <<>> /\ retrans' = <<>>
         /\ \A p \in Pid : proc'[p].round = 0 /\ ~proc'[p].waiting
                           /\ proc'[p].ndi = proc[p].ndi
<1> DEFINE all == available \o feedback \o retrans
<1>1. all \in Seq(Pid) /\ Once(all) /\ Elems(all) = 0 .. len - 1
  BY JoinLists
<1>2. feedback' = <<>> /\ retrans' = <<>> /\ Elems(<<>>) = {} /\ Once(<<>>) /\ <<>> \in Seq(Pid)
  <2>1. feedback' = <<>> /\ retrans' = <<>>
    BY DEF RaWithCrnti
  <2>2. Elems(<<>>) = {} /\ Once(<<>>) /\ <<>> \in Seq(Pid)
    BY NoElems
  <2>3. QED
    BY <2>1, <2>2
<1>3. /\ available' \in Seq(Pid) /\ Once(available')
      /\ len' \in {NrofHarq(TRUE), NrofHarq(FALSE)}
      /\ Elems(available') = 0 .. len' - 1
      /\ aborted' \in BOOLEAN
  <2>1. CASE reestablish
    BY <1>1, <2>1 DEF RaWithCrnti, Lists, ListTypes
  <2>2. CASE ~reestablish
    <3>1. CreateUlHarqList(all, TRUE)
      BY <2>2 DEF RaWithCrnti
    <3> HIDE DEF all
    <3>2. Elems(all) \cap {} = {} /\ Elems(all) \cup {} = 0 .. len - 1
      BY <1>1
    <3>3. len \in {NrofHarq(TRUE), NrofHarq(FALSE)}
      BY DEF Lists, ListTypes
    <3>4. /\ available' \in Seq(Pid) /\ Once(available')
          /\ len' \in {NrofHarq(TRUE), NrofHarq(FALSE)}
          /\ Elems(available') \cup {} = 0 .. len' - 1
          /\ aborted' \in BOOLEAN
      BY <1>1, <3>1, <3>2, <3>3, CreateLists
    <3>5. QED
      BY <3>4
  <2>3. QED
    BY <2>1, <2>2
<1>4. /\ proc' \in [Pid -> Process]
      /\ \A p \in Pid : proc'[p].round = 0 /\ ~proc'[p].waiting /\ proc'[p].ndi = proc[p].ndi
  <2>1. proc' = [p \in Pid |-> [proc[p] EXCEPT !.round = 0, !.waiting = FALSE]]
    BY DEF RaWithCrnti
  <2>2. \A p \in Pid : proc[p] \in Process
    BY DEF Lists, ListTypes
  <2>3. 0 \in 0 .. RoundMax - 1
    BY GnbUlHarqAssumption
  <2>4. \A p \in Pid : /\ [proc[p] EXCEPT !.round = 0, !.waiting = FALSE] \in Process
                       /\ [proc[p] EXCEPT !.round = 0, !.waiting = FALSE].round = 0
                       /\ ~[proc[p] EXCEPT !.round = 0, !.waiting = FALSE].waiting
                       /\ [proc[p] EXCEPT !.round = 0, !.waiting = FALSE].ndi = proc[p].ndi
    BY <2>2, <2>3 DEF Process
  <2>5. QED
    BY <2>1, <2>4
<1>5. ListTypes'
  BY <1>2, <1>3, <1>4 DEF ListTypes
<1>6. ListsPartition'
  BY <1>2, <1>3 DEF ListsPartition, Known
<1>7. Match'
  BY <1>2, <1>4 DEF Match
<1>8. QED
  BY <1>2, <1>3, <1>4, <1>5, <1>6, <1>7 DEF Lists

----------------------------------------------------------------------------
(* The invariant: types and lists.  HarqUnexpected and HarqMatched need the *)
(* types of what they work on, so that all parts are inductive together.    *)

HarqInv == Lists /\ NoFeedbackUsed /\ OtherTypes /\ AirType

(* The invariant is the conjunction of what the runs check.                 *)
LEMMA InvParts == HarqInv <=> TypeOK /\ ListsMatchProcesses
  BY TypeParts, MatchParts DEF HarqInv, Lists

(* Lists as created when the UE is added.                                   *)
LEMMA InitInv == Init => HarqInv
<1> SUFFICES ASSUME Init PROVE HarqInv
  OBVIOUS
<1> DEFINE n == NrofHarq(TRUE)
<1>1. n \in Nat /\ 0 .. n - 1 \subseteq Pid
  BY NrofFacts
<1>2. available = Pids(0, n) /\ len = n /\ feedback = <<>> /\ retrans = <<>>
  BY DEF Init
<1>3. available \in Seq(Pid) /\ Elems(available) = 0 .. n - 1 /\ Once(available)
  <2> HIDE DEF n
  <2>1. 0 <= n
    BY <1>1
  <2>2. QED
    BY <1>1, <1>2, <2>1, PidsFacts
<1>4. /\ proc \in [Pid -> Process]
      /\ \A p \in Pid : ~proc[p].waiting /\ proc[p].round = 0
  BY GnbUlHarqAssumption DEF Init, Process
<1>5. ListTypes
  <2>1. feedback \in Seq(Pid) /\ retrans \in Seq(Pid) /\ len = NrofHarq(TRUE)
    BY <1>2
  <2>2. QED
    BY <1>3, <1>4, <2>1 DEF ListTypes
<1>6. ListsPartition
  BY <1>2, <1>3, NoElems DEF ListsPartition, Known
<1>7. Match
  BY <1>2, <1>4, NoElems DEF Match
<1>8. NoFeedbackUsed /\ AirType
  BY DEF Init, NoFeedbackUsed, AirType
<1>9. OtherTypes
  <2>1. dtx \in 0 .. DtxThreshold /\ schedBytes \in Nat /\ lost \in Nat
    BY GnbUlHarqAssumption DEF Init
  <2>2. QED
    BY <2>1 DEF Init, OtherTypes, Interrupts
<1>10. QED
  BY <1>5, <1>6, <1>7, <1>8, <1>9 DEF HarqInv, Lists

(* A granted PUSCH will be reported.                                        *)
LEMMA GrantType ==
  ASSUME AirType, NEW p \in Pid, NEW tb \in Nat, Grant(p, tb)
  PROVE  AirType'
<1>1. [pid |-> p, kind |-> "own", tb |-> tb] \in Report
  BY DEF Report, Kind
<1>2. QED
  BY <1>1 DEF Grant, AirType

(* pf_ul() for a new block                                                  *)
LEMMA PfUlNewInv == ASSUME HarqInv, NEW tb \in TbSizes, PfUlNew(tb) PROVE HarqInv'
<1> DEFINE p == Head(available)
<1>1. tb \in Nat /\ schedBytes' \in Nat
  BY GnbUlHarqAssumption DEF HarqInv, OtherTypes, PfUlNew
<1>2. p \in Pid /\ available # <<>> /\ Grant(p, tb)
  BY ElemsTail DEF HarqInv, Lists, ListTypes, PfUlNew
<1>3. proc[p] \in Process
  BY <1>2 DEF HarqInv, Lists, ListTypes
<1>4. OtherTypes' /\ AirType'
  BY <1>1, <1>2, GrantType DEF HarqInv, OtherTypes, PfUlNew
<1>5. CASE disableHarq
  <2> DEFINE v == [ndi |-> 1 - proc[p].ndi, round |-> 0, waiting |-> FALSE, tb |-> tb]
  <2>1. v \in Process
    <3>1. 1 - proc[p].ndi \in {0, 1} /\ 0 \in 0 .. RoundMax - 1
      BY <1>3, GnbUlHarqAssumption DEF Process
    <3>2. QED
      BY <1>1, <3>1 DEF Process
  <2>2. /\ proc' = [proc EXCEPT ![p] = v]
        /\ available' = Append(Tail(available), p) /\ feedback' = feedback
        /\ retrans' = retrans /\ len' = len /\ rx' = rx /\ disableHarq' = disableHarq
    BY <1>5 DEF PfUlNew
  <2>3. ~v.waiting /\ v.round = 0
    OBVIOUS
  <2>4. Lists'
    <3> HIDE DEF v
    <3>1. Updated(p, v)
      BY <1>2, <2>1, <2>2, ProcessUpdate DEF HarqInv, Lists
    <3>2. QED
      BY <1>2, <2>1, <2>2, <2>3, <3>1, RotateLists DEF HarqInv
  <2>5. NoFeedbackUsed'
    BY <2>2 DEF HarqInv, NoFeedbackUsed
  <2>6. QED
    BY <1>4, <2>4, <2>5 DEF HarqInv
<1>6. CASE ~disableHarq
  <2> DEFINE v == [[proc[p] EXCEPT !.waiting = TRUE] EXCEPT !.tb = tb]
  <2>1. v \in Process /\ v.waiting
    BY <1>1, <1>3 DEF Process
  <2>2. /\ proc' = [proc EXCEPT ![p] = v]
        /\ available' = Tail(available) /\ feedback' = Append(feedback, p)
        /\ retrans' = retrans /\ len' = len /\ disableHarq' = disableHarq
    BY <1>2, <1>6 DEF PfUlNew, Await, HarqInv, Lists, ListTypes
  <2>3. Lists'
    <3> HIDE DEF v
    <3>1. Updated(p, v)
      BY <1>2, <2>1, <2>2, ProcessUpdate DEF HarqInv, Lists
    <3>2. QED
      BY <1>2, <2>1, <2>2, <3>1, SendLists DEF HarqInv
  <2>4. NoFeedbackUsed'
    BY <1>6, <2>2 DEF NoFeedbackUsed
  <2>5. QED
    BY <1>4, <2>3, <2>4 DEF HarqInv
<1>7. QED
  BY <1>5, <1>6

(* pf_ul() for a block that failed                                          *)
LEMMA PfUlRetransmissionInv == ASSUME HarqInv, PfUlRetransmission PROVE HarqInv'
<1> DEFINE p == Head(retrans)
           v == [proc[p] EXCEPT !.waiting = TRUE]
<1>1. p \in Pid /\ retrans # <<>> /\ Grant(p, proc[p].tb)
  BY ElemsTail DEF HarqInv, Lists, ListTypes, PfUlRetransmission
<1>2. proc[p] \in Process /\ proc[p].tb \in Nat
  BY <1>1 DEF HarqInv, Lists, ListTypes, Process
<1>3. OtherTypes' /\ AirType'
  BY <1>1, <1>2, GrantType DEF HarqInv, OtherTypes, PfUlRetransmission
<1>4. v \in Process /\ v.waiting
  BY <1>2 DEF Process
<1>5. /\ proc' = [proc EXCEPT ![p] = v]
      /\ retrans' = Tail(retrans) /\ feedback' = Append(feedback, p)
      /\ available' = available /\ len' = len /\ disableHarq' = disableHarq
  BY DEF PfUlRetransmission, Await, HarqInv, Lists, ListTypes
<1>6. Lists'
  <2> HIDE DEF v
  <2>1. Updated(p, v)
    BY <1>1, <1>4, <1>5, ProcessUpdate DEF HarqInv, Lists
  <2>2. QED
    BY <1>1, <1>4, <1>5, <2>1, ResendLists DEF HarqInv
<1>7. NoFeedbackUsed'
  BY <1>1, <1>5 DEF HarqInv, NoFeedbackUsed
<1>8. QED
  BY <1>3, <1>6, <1>7 DEF HarqInv

(* Actions that leave the lists and the processes alone.                    *)
LEMMA ListsKept ==
  ASSUME HarqInv, UNCHANGED <<lists, proc, disableHarq>>, disableHarq => rx' = NoRx
  PROVE  Lists' /\ NoFeedbackUsed'
<1>1. Lists'
  <2>1. ListTypes'
    BY DEF HarqInv, Lists, ListTypes, lists
  <2>2. /\ Elems(available') = Elems(available) /\ Elems(feedback') = Elems(feedback)
        /\ Elems(retrans') = Elems(retrans)
        /\ Once(available') = Once(available) /\ Once(feedback') = Once(feedback)
        /\ Once(retrans') = Once(retrans) /\ len' = len /\ proc' = proc
    BY DEF lists
  <2>3. ListsPartition'
    BY <2>2 DEF HarqInv, Lists, ListsPartition, Known
  <2>4. Match'
    BY <2>2 DEF HarqInv, Lists, Match
  <2>5. QED
    BY <2>1, <2>3, <2>4 DEF Lists
<1>2. NoFeedbackUsed'
  BY DEF HarqInv, NoFeedbackUsed, lists
<1>3. QED
  BY <1>1, <1>2

(* The report that is handled, and those that follow.                       *)
LEMMA TailType == ASSUME AirType, air # <<>> PROVE Tail(air) \in Seq(Report) /\ Head(air) \in Report
  BY DEF AirType

(* _nr_rx_sdu() and lost reports                                            *)
LEMMA RxGrantFreeInv == ASSUME HarqInv, RxGrantFree PROVE HarqInv'
<1>1. Lists' /\ NoFeedbackUsed'
  BY ListsKept DEF RxGrantFree, HarqInv, NoFeedbackUsed
<1>2. OtherTypes'
  BY DEF RxGrantFree, HarqInv, OtherTypes
<1>3. AirType'
  BY TailType DEF RxGrantFree, HarqInv, AirType
<1>4. QED
  BY <1>1, <1>2, <1>3 DEF HarqInv

(* A report the PHY loses                                                   *)
LEMMA LoseReportInv == ASSUME HarqInv, LoseReport PROVE HarqInv'
<1>1. Lists' /\ NoFeedbackUsed'
  BY ListsKept DEF LoseReport, HarqInv, NoFeedbackUsed
<1>2. OtherTypes'
  BY DEF LoseReport, HarqInv, OtherTypes
<1>3. AirType'
  BY TailType DEF LoseReport, HarqInv, AirType
<1>4. QED
  BY <1>1, <1>2, <1>3 DEF HarqInv

(* _nr_rx_sdu() for a granted PUSCH                                         *)
LEMMA RxSduInv ==
  ASSUME HarqInv, NEW ok \in BOOLEAN, NEW bsr \in BOOLEAN, NEW lowCqi \in BOOLEAN,
         RxSdu(ok, bsr, lowCqi)
  PROVE  HarqInv'
<1> DEFINE r == Head(air)
<1>1. r.pid \in Pid /\ r.kind \in Kind /\ r.tb \in Nat /\ Tail(air) \in Seq(Report)
  BY TailType DEF HarqInv, RxSdu, Report
<1>2. Lists' /\ NoFeedbackUsed'
  BY ListsKept DEF RxSdu
<1>3. schedBytes' \in Nat
  <2>1. schedBytes \in Nat /\ Minus(r.tb) \in Nat
    BY <1>1, MinusType DEF HarqInv, OtherTypes
  <2>2. QED
    BY <2>1 DEF RxSdu
<1>4. dtx' \in 0 .. DtxThreshold
  BY GnbUlHarqAssumption DEF RxSdu, HarqInv, OtherTypes, Min2
<1>5. ulFailure' \in BOOLEAN /\ leaked' \in BOOLEAN
  BY DEF RxSdu
<1>6. rx' \in [pid : Pid, kind : Kind, ok : BOOLEAN] \cup {NoRx}
  BY <1>1 DEF RxSdu
<1>7. OtherTypes'
  BY <1>3, <1>4, <1>5, <1>6 DEF RxSdu, HarqInv, OtherTypes
<1>8. AirType'
  BY <1>1 DEF RxSdu, AirType
<1>9. QED
  BY <1>2, <1>7, <1>8 DEF HarqInv

(* handle_nr_ul_harq()                                                      *)
LEMMA FeedbackHead == ASSUME HarqInv, feedback # <<>> PROVE Head(feedback) \in Pid
  BY ElemsTail DEF HarqInv, Lists, ListTypes

(* handle_nr_ul_harq() for a process whose report never came                *)
LEMMA HarqUnexpectedInv == ASSUME HarqInv, HarqUnexpected PROVE HarqInv'
<1>1. Head(feedback) \in Pid /\ Failed(Head(feedback)) /\ schedBytes \in Nat
  BY FeedbackHead DEF HarqUnexpected, HarqInv, OtherTypes
<1>2. Lists' /\ schedBytes' \in Nat
  BY <1>1, FailLists DEF HarqUnexpected, HarqInv
<1>3. OtherTypes'
  BY <1>2 DEF HarqUnexpected, HarqInv, OtherTypes
<1>4. AirType'
  BY <1>1, ForgetType DEF HarqUnexpected, HarqInv, AirType
<1>5. NoFeedbackUsed'
  BY DEF HarqUnexpected, HarqInv, NoFeedbackUsed
<1>6. QED
  BY <1>2, <1>3, <1>4, <1>5 DEF HarqInv

(* handle_nr_ul_harq() for the reported process                             *)
LEMMA HarqMatchedInv == ASSUME HarqInv, HarqMatched PROVE HarqInv'
<1>1. Head(feedback) \in Pid /\ Head(feedback) = rx.pid /\ schedBytes \in Nat
  BY FeedbackHead DEF HarqMatched, HarqInv, OtherTypes
<1>2. Lists' /\ schedBytes' \in Nat
  <2>1. CASE rx.ok
    BY <1>1, <2>1, FinishLists DEF HarqMatched, HarqInv
  <2>2. CASE ~rx.ok
    BY <1>1, <2>2, FailLists DEF HarqMatched, HarqInv
  <2>3. QED
    BY <2>1, <2>2
<1>3. OtherTypes'
  BY <1>2 DEF HarqMatched, HarqInv, OtherTypes
<1>4. AirType'
  BY <1>1, ForgetType DEF HarqMatched, HarqInv, AirType
<1>5. NoFeedbackUsed'
  BY DEF HarqMatched, HarqInv, NoFeedbackUsed
<1>6. QED
  BY <1>2, <1>3, <1>4, <1>5 DEF HarqInv

(* handle_nr_ul_harq() when no process matched                              *)
LEMMA HarqNoMatchInv == ASSUME HarqInv, HarqNoMatch PROVE HarqInv'
<1>1. Lists' /\ NoFeedbackUsed'
  BY ListsKept DEF HarqNoMatch
<1>2. OtherTypes' /\ AirType'
  BY DEF HarqNoMatch, HarqInv, OtherTypes, AirType, phy
<1>3. QED
  BY <1>1, <1>2 DEF HarqInv

(* Reconfigurations, resets and interrupts                                  *)
LEMMA ConfigureBwpInv ==
  ASSUME HarqInv, NEW common \in BOOLEAN, ConfigureBwp(common) PROVE HarqInv'
<1>1. Lists' /\ aborted' \in BOOLEAN
  BY GrowLists DEF ConfigureBwp, HarqInv
<1>2. NoFeedbackUsed' /\ AirType'
  BY DEF ConfigureBwp, HarqInv, NoFeedbackUsed, AirType, phy
<1>3. OtherTypes'
  BY <1>1 DEF ConfigureBwp, HarqInv, OtherTypes, phy
<1>4. QED
  BY <1>1, <1>2, <1>3 DEF HarqInv

(* reset_ul_harq_list() after a C-RNTI MAC CE                               *)
LEMMA RaWithCrntiInv ==
  ASSUME HarqInv, NEW reestablish \in BOOLEAN, NEW bsr \in BOOLEAN,
         RaWithCrnti(reestablish, bsr)
  PROVE  HarqInv'
<1>1. Lists' /\ aborted' \in BOOLEAN /\ feedback' = <<>> /\ retrans' = <<>>
  BY ResetLists DEF HarqInv, OtherTypes
<1>2. NoFeedbackUsed'
  BY <1>1 DEF RaWithCrnti, Unlocked, NoFeedbackUsed
<1>3. OtherTypes'
  <2>1. dtx' = 0
    BY DEF RaWithCrnti
  <2>2. 0 \in 0 .. DtxThreshold
    BY GnbUlHarqAssumption
  <2>3. schedBytes' \in Nat /\ leaked' \in BOOLEAN /\ ulFailure' \in BOOLEAN
    BY DEF RaWithCrnti, HarqInv, OtherTypes
  <2>4. QED
    BY <1>1, <2>1, <2>2, <2>3 DEF RaWithCrnti, HarqInv, OtherTypes
<1>4. AirType'
  <2> DEFINE I == {i \in 1 .. Len(air) : air[i].kind = "own"}
  <2>1. air' = [i \in 1 .. Len(air) |->
                  IF i \in I THEN [air[i] EXCEPT !.kind = "stale"] ELSE air[i]]
    BY DEF RaWithCrnti
  <2>2. QED
    BY <2>1, StaleType DEF HarqInv, AirType
<1>5. QED
  BY <1>1, <1>2, <1>3, <1>4 DEF HarqInv

(* nr_mac_update_timers() when transm_interrupt expires                     *)
LEMMA InterruptExpiresInv == ASSUME HarqInv, InterruptExpires PROVE HarqInv'
<1>1. Lists' /\ aborted' \in BOOLEAN
  <2>1. CASE CreateUlHarqList(available, TRUE)
    BY <2>1, GrowLists DEF InterruptExpires, HarqInv
  <2>2. CASE UNCHANGED <<available, len, aborted>>
    <3>1. UNCHANGED <<lists, proc, disableHarq>> /\ rx' = rx
      BY <2>2 DEF InterruptExpires, lists
    <3>2. QED
      BY <2>2, <3>1, ListsKept DEF HarqInv, OtherTypes, NoFeedbackUsed
  <2>3. QED
    BY <2>1, <2>2 DEF InterruptExpires
<1>2. NoFeedbackUsed' /\ AirType'
  BY DEF InterruptExpires, HarqInv, NoFeedbackUsed, AirType, phy
<1>3. OtherTypes'
  <2>1. 0 \in 0 .. DtxThreshold
    BY GnbUlHarqAssumption
  <2>2. dtx' \in 0 .. DtxThreshold /\ ulFailure' \in BOOLEAN
    BY <2>1 DEF InterruptExpires, HarqInv, OtherTypes
  <2>3. QED
    BY <1>1, <2>2 DEF InterruptExpires, HarqInv, OtherTypes, phy, Interrupts
<1>4. QED
  BY <1>1, <1>2, <1>3 DEF HarqInv

(* nr_mac_interrupt_ue_transmission() and measurement gaps                  *)
LEMMA InterruptInv ==
  ASSUME HarqInv,
         MeasGap \/ \E action \in {"OUTOFSYNC", "INSYNC_RECONFIG"} : InterruptUe(action)
  PROVE  HarqInv'
<1>1. /\ interrupt' \in Interrupts
      /\ stopped' \in BOOLEAN
      /\ UNCHANGED <<lists, proc, schedBytes, dtx, ulFailure, disableHarq, gf, rx,
                     aborted, phy, leaked>>
  BY DEF MeasGap, InterruptUe, HarqInv, OtherTypes, Interrupts
<1>2. Lists' /\ NoFeedbackUsed'
  BY <1>1, ListsKept DEF HarqInv, NoFeedbackUsed
<1>3. OtherTypes' /\ AirType'
  BY <1>1 DEF HarqInv, OtherTypes, AirType, phy
<1>4. QED
  BY <1>2, <1>3 DEF HarqInv

(* The grant-free manager                                                   *)
LEMMA GfConfigInv ==
  ASSUME HarqInv, NEW p \in GfPids, GfConfigure(p) \/ GfRelease(p) PROVE HarqInv'
<1>1. /\ gf' \subseteq GfPids
      /\ UNCHANGED <<lists, proc, schedBytes, dtx, ulFailure, interrupt, disableHarq,
                     rx, aborted, phy, leaked, stopped>>
  BY DEF GfConfigure, GfRelease, HarqInv, OtherTypes
<1>2. Lists' /\ NoFeedbackUsed'
  BY <1>1, ListsKept DEF HarqInv, NoFeedbackUsed
<1>3. OtherTypes' /\ AirType'
  BY <1>1 DEF HarqInv, OtherTypes, AirType, phy
<1>4. QED
  BY <1>2, <1>3 DEF HarqInv

(* A grant-free PUSCH in the current slot                                   *)
LEMMA GfOccasionInv ==
  ASSUME HarqInv, NEW p \in GfPids, NEW tb \in TbSizes, NEW k \in 0 .. MaxAir,
         GfOccasion(p, tb, k)
  PROVE  HarqInv'
<1>1. UNCHANGED <<lists, proc, schedBytes, dtx, ulFailure, interrupt, disableHarq,
                  gf, rx, aborted, lost, leaked, stopped>>
  BY DEF GfOccasion
<1>2. Lists' /\ NoFeedbackUsed'
  BY <1>1, ListsKept DEF HarqInv, NoFeedbackUsed
<1>3. OtherTypes'
  BY <1>1 DEF HarqInv, OtherTypes
<1>4. AirType'
  <2> DEFINE new == [pid |-> p, kind |-> "gf", tb |-> tb]
             before == SubSeq(air, 1, k)
             after == SubSeq(air, k + 1, Len(air))
  <2>1. new \in Report
    BY GfPidsAssumption, GnbUlHarqAssumption DEF Report, Kind
  <2>2. before \in Seq(Report) /\ after \in Seq(Report)
    BY DEF GfOccasion, HarqInv, AirType
  <2>3. <<new>> \in Seq(Report)
    BY <2>1
  <2>4. air' = before \o <<new>> \o after
    BY DEF GfOccasion
  <2> HIDE DEF new, before, after
  <2>5. QED
    BY <2>2, <2>3, <2>4 DEF AirType
<1>5. QED
  BY <1>2, <1>3, <1>4 DEF HarqInv

(* Every step keeps the invariant.                                          *)
LEMMA StepInv == HarqInv /\ [Next]_vars => HarqInv'
<1> SUFFICES ASSUME HarqInv, [Next]_vars PROVE HarqInv'
  OBVIOUS
<1>1. CASE Scheduler
  BY <1>1, PfUlNewInv, PfUlRetransmissionInv DEF Scheduler
<1>2. CASE Reception
  BY <1>2, RxGrantFreeInv, RxSduInv, HarqUnexpectedInv, HarqMatchedInv, HarqNoMatchInv
  DEF Reception, HarqLoop
<1>3. CASE LoseReport
  BY <1>3, LoseReportInv
<1>4. CASE Control
  BY <1>4, ConfigureBwpInv, RaWithCrntiInv, InterruptExpiresInv, InterruptInv DEF Control
<1>5. CASE GrantFree
  BY <1>5, GfConfigInv, GfOccasionInv DEF GrantFree
<1>6. CASE UNCHANGED vars
  <2>1. UNCHANGED <<lists, proc, disableHarq, rx>>
    BY <1>6 DEF vars, lists
  <2>2. Lists' /\ NoFeedbackUsed'
    BY <2>1, ListsKept DEF HarqInv, NoFeedbackUsed
  <2>3. OtherTypes' /\ AirType'
    BY <1>6 DEF HarqInv, OtherTypes, AirType, vars
  <2>4. QED
    BY <2>2, <2>3 DEF HarqInv
<1>7. QED
  BY <1>1, <1>2, <1>3, <1>4, <1>5, <1>6 DEF Next

(* Types, lists and the state of the processes hold together, in every      *)
(* reachable state and for every value of the constants.                    *)
THEOREM HarqInvariant == Spec => []HarqInv
<1>1. QED
  BY InitInv, StepInv, PTL DEF Spec

(* Types of the uplink fields of NR_UE_sched_ctrl_t: rounds stay below      *)
(* harq_round_max, and sched_ul_bytes is never left below zero.             *)
THEOREM TypeCorrect == Spec => []TypeOK
<1>1. HarqInv => TypeOK
  BY InvParts
<1>2. QED
  BY HarqInvariant, <1>1, PTL

(* Every process is in exactly one list, once, through grants, flushes,     *)
(* resets and resizes, and the asserts on is_waiting and round cannot fail. *)
THEOREM ProcessesMatch == Spec => []ListsMatchProcesses
<1>1. HarqInv => ListsMatchProcesses
  BY InvParts
<1>2. QED
  BY HarqInvariant, <1>1, PTL

----------------------------------------------------------------------------
(* A UE the CU stopped stays silent: a stop is owed by the interrupt that   *)
(* runs, or it has become UL failure, and then the only interrupt that may  *)
(* run is one that does not end the failure.                                *)
StopInv ==
  stopped => \/ interrupt = "OUTOFSYNC"
             \/ ulFailure /\ interrupt \in {"none", "INSYNC_RECONFIG"}

(* Every step keeps it.                                                     *)
LEMMA StepKeepsStop == OtherTypes /\ StopInv /\ [Next]_vars => StopInv'
<1> SUFFICES ASSUME OtherTypes, StopInv, [Next]_vars, stopped' PROVE StopInv'
  BY DEF StopInv
<1>1. /\ stopped \in BOOLEAN /\ ulFailure \in BOOLEAN
      /\ interrupt \in {"none", "INSYNC", "OUTOFSYNC", "INSYNC_RECONFIG"}
  BY DEF OtherTypes, Interrupts
<1>2. ASSUME stopped, interrupt' = interrupt, ulFailure => ulFailure' PROVE StopInv'
  BY <1>2 DEF StopInv
<1>3. CASE Scheduler
  BY <1>2, <1>3 DEF Scheduler, PfUlNew, PfUlRetransmission
<1>4. CASE Reception
  <2>1. stopped' = stopped /\ interrupt' = interrupt /\ (ulFailure => ulFailure')
    <3>1. CASE RxGrantFree
      BY <3>1 DEF RxGrantFree
    <3>2. ASSUME NEW ok \in BOOLEAN, NEW bsr \in BOOLEAN, NEW lowCqi \in BOOLEAN,
                 RxSdu(ok, bsr, lowCqi)
          PROVE  stopped' = stopped /\ interrupt' = interrupt /\ (ulFailure => ulFailure')
      <4>1. ulFailure' = (ulFailure \/ (~ok /\ dtx' >= DtxThreshold))
        BY <3>2 DEF RxSdu
      <4>2. ulFailure => ulFailure'
        BY <4>1, Zenon
      <4>3. stopped' = stopped /\ interrupt' = interrupt
        BY <3>2, Zenon DEF RxSdu
      <4>4. QED
        BY <4>2, <4>3, Zenon
    <3>3. CASE HarqLoop
      <4>1. UNCHANGED <<stopped, interrupt, ulFailure>>
        BY <3>3 DEF HarqLoop, HarqUnexpected, HarqMatched, HarqNoMatch
      <4>2. QED
        BY <4>1, Zenon
    <3>4. QED
      BY <1>4, <3>1, <3>2, <3>3 DEF Reception
  <2>2. QED
    BY <1>2, <2>1
<1>5. CASE LoseReport
  BY <1>2, <1>5 DEF LoseReport
<1>6. CASE Control
  <2>1. ASSUME NEW common \in BOOLEAN, ConfigureBwp(common) PROVE StopInv'
    BY <1>2, <2>1 DEF ConfigureBwp
  <2>2. ASSUME NEW reestablish \in BOOLEAN, NEW bsr \in BOOLEAN,
               RaWithCrnti(reestablish, bsr)
        PROVE  StopInv'
    <3>1. stopped' = (stopped /\ interrupt = "OUTOFSYNC") /\ interrupt' = interrupt
      BY <2>2 DEF RaWithCrnti
    <3>2. QED
      BY <3>1 DEF StopInv
  <2>3. ASSUME NEW action \in {"OUTOFSYNC", "INSYNC_RECONFIG"}, InterruptUe(action)
        PROVE  StopInv'
    <3>1. /\ stopped' = (action = "OUTOFSYNC" \/ (stopped /\ interrupt # "OUTOFSYNC"))
          /\ interrupt' = action /\ ulFailure' = ulFailure
      BY <2>3 DEF InterruptUe
    <3>2. QED
      BY <2>3, <3>1 DEF StopInv
  <2>4. CASE MeasGap
    <3>1. stopped /\ interrupt # "none"
      BY <2>4 DEF MeasGap
    <3>2. interrupt' = interrupt /\ ulFailure' = ulFailure
      BY <2>4, <3>1 DEF MeasGap
    <3>3. QED
      BY <1>2, <3>1, <3>2
  <2>5. CASE InterruptExpires
    <3>1. stopped' = stopped /\ interrupt' = "none"
      BY <2>5 DEF InterruptExpires
    <3>2. interrupt # "INSYNC"
      BY <3>1 DEF StopInv
    <3>3. \/ interrupt = "OUTOFSYNC" /\ ulFailure' = TRUE
          \/ interrupt = "INSYNC_RECONFIG" /\ ulFailure' = ulFailure
      BY <2>5, <3>2 DEF InterruptExpires
    <3>4. QED
      BY <3>1, <3>3 DEF StopInv
  <2>6. QED
    BY <1>6, <2>1, <2>2, <2>3, <2>4, <2>5 DEF Control
<1>7. CASE GrantFree
  BY <1>2, <1>7 DEF GrantFree, GfConfigure, GfRelease, GfOccasion
<1>8. CASE UNCHANGED vars
  BY <1>2, <1>8 DEF vars
<1>9. QED
  BY <1>3, <1>4, <1>5, <1>6, <1>7, <1>8 DEF Next

(* Nothing is granted to a UE the CU has stopped, whatever measurement      *)
(* gaps, reconfigurations, reports and random access fall into the stop.    *)
THEOREM StoppedStaysSilent == Spec => []StoppedIsSilent
<1>1. Init => StopInv
  BY DEF Init, StopInv
<1>2. HarqInv => OtherTypes
  BY DEF HarqInv
<1>3. StopInv => StoppedIsSilent
  BY DEF StopInv, StoppedIsSilent, Active
<1>4. QED
  BY HarqInvariant, <1>1, <1>2, <1>3, StepKeepsStop, PTL DEF Spec

----------------------------------------------------------------------------
(* The refinement: whatever lists the process ids travel through, each      *)
(* process runs stop-and-wait.                                              *)

Ndi == [p \in Pid |-> proc[p].ndi]
Round == [p \in Pid |-> proc[p].round]
Off == IF disableHarq THEN Pid ELSE {}
promised == <<St, Ndi, Round, Off>>

----------------------------------------------------------------------------
(* What the promise sees of a step: the lists process p is in, and whether  *)
(* the others stay where they are.                                          *)

(* The state of a process, from the list it is in.                          *)
LEMMA StFacts ==
  ASSUME ListsPartition, NEW p \in Pid
  PROVE  /\ p \in Elems(available) => St[p] = "idle"
         /\ p \in Elems(feedback) => St[p] = "inflight"
         /\ p \in Elems(retrans) => St[p] = "retx"
         /\ p \notin Known => St[p] = "none"
  BY DEF St, ListsPartition, Known

(* The same after the step.                                                 *)
LEMMA StNextFacts ==
  ASSUME ListsPartition', NEW p \in Pid
  PROVE  /\ p \in Elems(available') => St'[p] = "idle"
         /\ p \in Elems(feedback') => St'[p] = "inflight"
         /\ p \in Elems(retrans') => St'[p] = "retx"
         /\ p \notin Known' => St'[p] = "none"
  BY DEF St, ListsPartition, Known

\* Every process other than p stays in its list.
OthersStay(p) ==
  \A q \in Pid \ {p} : /\ q \in Elems(available') <=> q \in Elems(available)
                       /\ q \in Elems(feedback') <=> q \in Elems(feedback)
                       /\ q \in Elems(retrans') <=> q \in Elems(retrans)

(* One process changes its state.                                           *)
LEMMA StUpdate ==
  ASSUME NEW p \in Pid, NEW c, OthersStay(p), St'[p] = c
  PROVE  St' = [St EXCEPT ![p] = c]
<1>1. \A q \in Pid \ {p} : St'[q] = St[q]
  BY DEF St, OthersStay
<1>2. St' = [q \in Pid |-> St'[q]] /\ St = [q \in Pid |-> St[q]]
  BY DEF St
<1>3. QED
  BY <1>1, <1>2

(* One process changes its indicator and round.                             *)
LEMMA FieldsUpdate ==
  ASSUME NEW p \in Pid, NEW v, Updated(p, v)
  PROVE  /\ Ndi' = [Ndi EXCEPT ![p] = v.ndi]
         /\ Round' = [Round EXCEPT ![p] = v.round]
  BY DEF Updated, Ndi, Round

\* An indicator or round that is written back as it was.
LEMMA SameValue ==
  ASSUME NEW p \in Pid
  PROVE  [Ndi EXCEPT ![p] = proc[p].ndi] = Ndi /\ [Round EXCEPT ![p] = proc[p].round] = Round
  BY DEF Ndi, Round

----------------------------------------------------------------------------
(* All processes idle or not configured, indicators and rounds zero.        *)
LEMMA InitImplements == Init => Harq!Init
<1> SUFFICES ASSUME Init PROVE Harq!Init
  OBVIOUS
<1>1. feedback = <<>> /\ retrans = <<>>
  BY DEF Init
<1>2. St \in [Pid -> {"none", "idle"}]
  BY <1>1, NoElems DEF St
<1>3. /\ [p \in Pid |-> proc[p].ndi] = [p \in Pid |-> 0]
      /\ [p \in Pid |-> proc[p].round] = [p \in Pid |-> 0]
  BY DEF Init
<1>4. QED
  BY <1>2, <1>3 DEF Harq!Init

(* From available or retrans to feedback.                                   *)
LEMMA SendImplements ==
  ASSUME HarqInv, HarqInv', NEW p \in Pid, NEW v, Updated(p, v), ~disableHarq,
         disableHarq' = disableHarq, v.ndi = proc[p].ndi, v.round = proc[p].round,
         OthersStay(p), p \in Elems(feedback'),
         p \in Elems(available) \/ p \in Elems(retrans)
  PROVE  Harq!Send(p)
<1>1. St' = [St EXCEPT ![p] = "inflight"]
  BY StNextFacts, StUpdate DEF HarqInv, Lists
<1>2. \/ St[p] = "idle" /\ Round[p] = 0
      \/ St[p] = "retx" /\ Round[p] > 0
  <2>1. CASE p \in Elems(available)
    BY <2>1, StFacts DEF HarqInv, Lists, ListsPartition, Match, Round
  <2>2. CASE p \in Elems(retrans)
    BY <2>2, StFacts DEF HarqInv, Lists, Match, Round
  <2>3. QED
    BY <2>1, <2>2
<1>3. Ndi' = Ndi /\ Round' = Round
  BY FieldsUpdate, SameValue
<1>4. QED
  BY <1>1, <1>2, <1>3 DEF Harq!Send, Ndi, Round

(* From feedback to available, with the other indicator and round zero.     *)
LEMMA DoneImplements ==
  ASSUME HarqInv, HarqInv', NEW p \in Pid, Updated(p, Done(p)), disableHarq' = disableHarq,
         OthersStay(p), p \in Elems(feedback), p \in Elems(available')
  PROVE  Harq!Finish(p)
<1>1. St' = [St EXCEPT ![p] = "idle"] /\ St[p] = "inflight"
  BY StFacts, StNextFacts, StUpdate DEF HarqInv, Lists
<1>2. Ndi' = [Ndi EXCEPT ![p] = 1 - Ndi[p]] /\ Round' = [Round EXCEPT ![p] = 0]
  <2>1. Done(p).ndi = 1 - proc[p].ndi /\ Done(p).round = 0
    BY DoneType DEF HarqInv, Lists
  <2>2. Ndi[p] = proc[p].ndi
    BY DEF Ndi
  <2>3. QED
    BY <2>1, <2>2, FieldsUpdate
<1>3. QED
  BY <1>1, <1>2 DEF Harq!Finish, Harq!Flip, Ndi, Round

(* From feedback to retrans, one round further.                             *)
LEMMA RetriedImplements ==
  ASSUME HarqInv, HarqInv', NEW p \in Pid, Updated(p, Retried(p)), disableHarq' = disableHarq,
         ~(proc[p].round >= RoundMax - 1),
         OthersStay(p), p \in Elems(feedback), p \in Elems(retrans')
  PROVE  Harq!Fail(p)
<1>1. St' = [St EXCEPT ![p] = "retx"] /\ St[p] = "inflight"
  BY StFacts, StNextFacts, StUpdate DEF HarqInv, Lists
<1>2. Retried(p).ndi = proc[p].ndi /\ Retried(p).round = proc[p].round + 1
  BY RetriedType DEF HarqInv, Lists
<1>3. Ndi[p] = proc[p].ndi /\ Round[p] = proc[p].round
  BY DEF Ndi, Round
<1>4. Ndi' = Ndi /\ Round' = [Round EXCEPT ![p] = Round[p] + 1]
  BY <1>2, <1>3, FieldsUpdate, SameValue
<1>5. proc[p].round < RoundMax - 1
  BY GnbUlHarqAssumption DEF HarqInv, Lists, ListTypes, Process
<1>6. QED
  BY <1>1, <1>3, <1>4, <1>5 DEF Harq!Fail, Ndi, Round

----------------------------------------------------------------------------
(* Each action takes a step of the promise or leaves what it sees alone.    *)

(* pf_ul() for a new block sends the process at the head of available.      *)
LEMMA NewImplements ==
  ASSUME HarqInv, HarqInv', NEW tb \in TbSizes, PfUlNew(tb)
  PROVE  \E p \in Pid : Harq!Send(p) \/ Harq!SendUnacknowledged(p)
<1>1. available # <<>> /\ available \in Seq(Pid) /\ feedback \in Seq(Pid)
      /\ retrans' = retrans /\ disableHarq' = disableHarq
      /\ Once(available) /\ Once(feedback) /\ Elems(available) \cap Elems(feedback) = {}
  BY DEF HarqInv, Lists, ListTypes, ListsPartition, PfUlNew
<1>2. PICK p \in Pid : p = Head(available)
  BY <1>1, ElemsTail
<1>3. proc[p] \in Process /\ p \in Elems(available) /\ proc \in [Pid -> Process]
  BY <1>1, <1>2, SomeElems DEF HarqInv, Lists, ListTypes
<1>4. CASE disableHarq
  <2> DEFINE v == [ndi |-> 1 - proc[p].ndi, round |-> 0, waiting |-> FALSE, tb |-> tb]
  <2>1. /\ proc' = [proc EXCEPT ![p] = v]
        /\ available' = Append(Tail(available), p) /\ feedback' = feedback
    BY <1>2, <1>4 DEF PfUlNew
  <2>2. Elems(available') = Elems(available)
    <3>1. Tail(available) \in Seq(Pid) /\ Elems(available) = Elems(Tail(available)) \cup {p}
      BY <1>1, <1>2, ElemsTail
    <3>2. PICK t \in Seq(Pid) : t = Tail(available)
      BY <3>1
    <3>3. Elems(Append(t, p)) = Elems(t) \cup {p}
      BY ElemsAppend
    <3>4. QED
      BY <2>1, <3>1, <3>2, <3>3
  <2>3. St' = St
    BY <1>1, <2>1, <2>2 DEF St
  <2>4. St[p] = "idle" /\ proc[p].round = 0
    BY <1>3, StFacts DEF HarqInv, Lists, ListsPartition, Match
  <2>5. Ndi' = [Ndi EXCEPT ![p] = 1 - Ndi[p]] /\ Round' = Round
    <3>1. proc'[p].ndi = 1 - proc[p].ndi /\ proc'[p].round = 0
          /\ \A q \in Pid \ {p} : proc'[q] = proc[q]
      BY <1>3, <2>1
    <3> HIDE DEF v
    <3>2. QED
      BY <2>4, <3>1 DEF Ndi, Round
  <2>6. Harq!SendUnacknowledged(p)
    BY <1>1, <1>4, <2>3, <2>4, <2>5
    DEF Harq!SendUnacknowledged, Harq!Flip, Ndi, Round
  <2>7. QED
    BY <2>6
<1>5. CASE ~disableHarq
  <2> DEFINE v == [proc[p] EXCEPT !.waiting = TRUE, !.tb = tb]
  <2>1. /\ proc' = [proc EXCEPT ![p] = v]
        /\ available' = Tail(available) /\ feedback' = Append(feedback, p)
    BY <1>2, <1>3, <1>5 DEF PfUlNew, Await
  <2>2. v \in Process /\ v.ndi = proc[p].ndi /\ v.round = proc[p].round
    BY <1>3, GnbUlHarqAssumption DEF Process
  <2> HIDE DEF v
  <2>3. Updated(p, v)
    BY <2>1, <2>2, ProcessUpdate DEF HarqInv, Lists
  <2>4. /\ Elems(available') = Elems(available) \ {p}
        /\ Elems(feedback') = Elems(feedback) \cup {p}
    BY <1>1, <1>2, <2>1, MoveHead
  <2>5. OthersStay(p)
    BY <1>1, <2>4 DEF OthersStay
  <2>6. Harq!Send(p)
    BY <1>1, <1>3, <1>5, <2>2, <2>3, <2>4, <2>5, SendImplements
  <2>7. QED
    BY <2>6
<1>6. QED
  BY <1>4, <1>5

(* pf_ul() for a failed block sends the process at the head of retrans.     *)
LEMMA ResendImplements ==
  ASSUME HarqInv, HarqInv', PfUlRetransmission
  PROVE  \E p \in Pid : Harq!Send(p)
<1>1. retrans # <<>> /\ retrans \in Seq(Pid) /\ feedback \in Seq(Pid)
      /\ available' = available /\ disableHarq' = disableHarq /\ ~disableHarq
      /\ Once(retrans) /\ Once(feedback) /\ Elems(retrans) \cap Elems(feedback) = {}
  BY DEF HarqInv, NoFeedbackUsed, Lists, ListTypes, ListsPartition, PfUlRetransmission
<1>2. PICK p \in Pid : p = Head(retrans)
  BY <1>1, ElemsTail
<1>3. proc[p] \in Process /\ p \in Elems(retrans) /\ proc \in [Pid -> Process]
  BY <1>1, <1>2, SomeElems DEF HarqInv, Lists, ListTypes
<1> DEFINE v == [proc[p] EXCEPT !.waiting = TRUE]
<1>4. /\ proc' = [proc EXCEPT ![p] = v]
      /\ retrans' = Tail(retrans) /\ feedback' = Append(feedback, p)
  BY <1>2, <1>3 DEF PfUlRetransmission, Await
<1>5. v \in Process /\ v.ndi = proc[p].ndi /\ v.round = proc[p].round
  BY <1>3 DEF Process
<1> HIDE DEF v
<1>6. Updated(p, v)
  BY <1>4, <1>5, ProcessUpdate DEF HarqInv, Lists
<1>7. /\ Elems(retrans') = Elems(retrans) \ {p}
      /\ Elems(feedback') = Elems(feedback) \cup {p}
  BY <1>1, <1>2, <1>4, MoveHead
<1>8. OthersStay(p)
  BY <1>1, <1>7 DEF OthersStay
<1>9. Harq!Send(p)
  BY <1>1, <1>3, <1>5, <1>6, <1>7, <1>8, SendImplements
<1>10. QED
  BY <1>9

(* handle_nr_ul_harq() takes the first process off feedback_ul_harq.        *)
LEMMA EndImplements ==
  ASSUME HarqInv, HarqInv', feedback # <<>>, feedback' = Tail(feedback),
         disableHarq' = disableHarq,
         Finish(Head(feedback)) \/ Failed(Head(feedback))
  PROVE  \E p \in Pid : Harq!Finish(p) \/ Harq!Fail(p)
<1>1. feedback \in Seq(Pid) /\ available \in Seq(Pid) /\ retrans \in Seq(Pid)
      /\ Once(available) /\ Once(feedback) /\ Once(retrans)
      /\ Elems(feedback) \cap Elems(available) = {}
      /\ Elems(feedback) \cap Elems(retrans) = {} /\ schedBytes \in Nat
  BY DEF HarqInv, OtherTypes, Lists, ListTypes, ListsPartition
<1>2. PICK p \in Pid : p = Head(feedback)
  BY <1>1, ElemsTail
<1>3. p \in Elems(feedback)
  BY <1>1, <1>2, SomeElems
<1>4. \/ /\ Updated(p, Done(p)) /\ available' = Append(available, p) /\ retrans' = retrans
      \/ /\ Updated(p, Retried(p)) /\ ~(proc[p].round >= RoundMax - 1)
         /\ retrans' = Append(retrans, p) /\ available' = available
  <2>1. Finish(p) \/ Failed(p)
    BY <1>2
  <2>2. QED
    BY <1>1, <2>1, FinishUpdate, FailedUpdate DEF HarqInv, Lists
<1>5. CASE /\ Updated(p, Done(p)) /\ available' = Append(available, p)
           /\ retrans' = retrans
  <2>1. /\ Elems(feedback') = Elems(feedback) \ {p}
        /\ Elems(available') = Elems(available) \cup {p}
    BY <1>1, <1>2, <1>5, MoveHead
  <2>2. OthersStay(p)
    BY <1>5, <2>1 DEF OthersStay
  <2>3. Harq!Finish(p)
    BY <1>3, <1>5, <2>1, <2>2, DoneImplements
  <2>4. QED
    BY <2>3
<1>6. CASE /\ Updated(p, Retried(p)) /\ ~(proc[p].round >= RoundMax - 1)
           /\ retrans' = Append(retrans, p) /\ available' = available
  <2>1. /\ Elems(feedback') = Elems(feedback) \ {p}
        /\ Elems(retrans') = Elems(retrans) \cup {p}
    BY <1>1, <1>2, <1>6, MoveHead
  <2>2. OthersStay(p)
    BY <1>6, <2>1 DEF OthersStay
  <2>3. Harq!Fail(p)
    BY <1>3, <1>6, <2>1, <2>2, RetriedImplements
  <2>4. QED
    BY <2>3
<1>7. QED
  BY <1>4, <1>5, <1>6

(* create_ul_harq_list() configures the processes it appends, if any.       *)
LEMMA GrowImplements ==
  ASSUME HarqInv, HarqInv', NEW common \in BOOLEAN, CreateUlHarqList(available, common),
         feedback' = feedback, retrans' = retrans, proc' = proc, disableHarq' = disableHarq
  PROVE  UNCHANGED promised \/ \E ps \in SUBSET {p \in Pid : St[p] = "none"} : Harq!Enable(ps)
<1> DEFINE ps == Elems(available') \ Elems(available)
<1>1. Elems(available) \subseteq Elems(available') /\ Elems(available') \subseteq Pid
  BY GrowLists, SomeElems, NoElems DEF HarqInv, Lists, ListTypes
<1>2. PICK new \in SUBSET Pid : new = ps
  BY <1>1
<1>3. \A p \in Pid : St'[p] = IF p \in new THEN "idle" ELSE St[p]
  <2>1. Elems(feedback') = Elems(feedback) /\ Elems(retrans') = Elems(retrans)
    OBVIOUS
  <2>2. Elems(available') = Elems(available) \cup new
    BY <1>1, <1>2
  <2>3. QED
    <3> SUFFICES ASSUME NEW p \in Pid PROVE St'[p] = IF p \in new THEN "idle" ELSE St[p]
      OBVIOUS
    <3>1. CASE p \in Elems(available')
      BY <2>2, <3>1, StFacts, StNextFacts DEF HarqInv, Lists
    <3>2. CASE p \notin Elems(available')
      <4>1. St'[p] = St[p]
        BY <2>1, <2>2, <3>2 DEF St
      <4>2. QED
        BY <2>2, <3>2, <4>1
    <3>3. QED
      BY <3>1, <3>2
<1>4. \A p \in new : St[p] = "none"
  BY <1>1, <1>2, StFacts DEF HarqInv, Lists, ListsPartition, Known
<1>5. St' = [p \in Pid |-> IF p \in new THEN "idle" ELSE St[p]]
  BY <1>3 DEF St
<1>6. Ndi' = Ndi /\ Round' = Round /\ Off' = Off
  BY DEF Ndi, Round, Off
<1>7. CASE new = {}
  <2>1. St' = St
    BY <1>5, <1>7 DEF St
  <2>2. QED
    BY <1>6, <2>1 DEF promised
<1>8. CASE new # {}
  <2>1. Harq!Enable(new)
    BY <1>5, <1>6, <1>8 DEF Harq!Enable, Ndi, Round, Off
  <2>2. QED
    BY <1>4, <2>1
<1>9. QED
  BY <1>7, <1>8

(* Contention-resolved random access resets the processes it knows.         *)
LEMMA ResetImplements ==
  ASSUME HarqInv, HarqInv', NEW reestablish \in BOOLEAN, NEW bsr \in BOOLEAN,
         RaWithCrnti(reestablish, bsr)
  PROVE  Harq!Reset
<1>1. /\ feedback' = <<>> /\ retrans' = <<>>
      /\ \A p \in Pid : proc'[p].round = 0 /\ proc'[p].ndi = proc[p].ndi
  BY ResetLists DEF HarqInv, OtherTypes
<1>2. len' = len
  <2>1. PICK n \in Nat, m \in Nat : n = NrofHarq(TRUE) /\ m = NrofHarq(FALSE) /\ n <= m
    BY NumberFacts
  <2>2. len \in {n, m}
    BY <2>1 DEF HarqInv, Lists, ListTypes
  <2>3. len' = len \/ len' = IF n > len THEN n ELSE len
    BY <2>1 DEF RaWithCrnti, CreateUlHarqList
  <2>4. n \in Nat /\ m \in Nat /\ n <= m
    BY <2>1
  <2>5. QED
    BY <2>2, <2>3, <2>4
<1>3. Elems(available') = Known
  BY <1>1, <1>2, NoElems DEF HarqInv, Lists, ListsPartition, Known
<1>4. \A p \in Pid : St'[p] = IF St[p] = "none" THEN "none" ELSE "idle"
  BY <1>1, <1>3, NoElems DEF St, Known
<1>5. St' = [p \in Pid |-> IF St[p] = "none" THEN "none" ELSE "idle"]
  BY <1>4 DEF St
<1>6. Ndi' = Ndi /\ Round' = [p \in Pid |-> 0] /\ Off' = Off
  BY <1>1 DEF Ndi, Round, Off, RaWithCrnti
<1>7. QED
  BY <1>5, <1>6 DEF Harq!Reset, Ndi, Round, Off

(* What the promise sees depends on the lists and the processes only.       *)
LEMMA PromisedKept ==
  ASSUME UNCHANGED <<available, feedback, retrans, proc, disableHarq>>
  PROVE  UNCHANGED promised
  BY DEF promised, St, Ndi, Round, Off

(* Every step is a step of the promise or leaves what it sees alone.        *)
LEMMA StepImplements ==
  HarqInv /\ HarqInv' /\ [Next]_vars => [Harq!Next]_(Harq!vars)
<1> SUFFICES ASSUME HarqInv, HarqInv', [Next]_vars
             PROVE  UNCHANGED promised \/ Harq!Next
  BY DEF promised, Ndi, Round, Off, Harq!vars
<1>1. CASE Scheduler
  <2>1. \E p \in Pid : Harq!Send(p) \/ Harq!SendUnacknowledged(p)
    BY <1>1, NewImplements, ResendImplements DEF Scheduler
  <2>2. QED
    BY <2>1 DEF Harq!Next
<1>2. CASE Reception
  <2>1. CASE RxGrantFree \/ HarqNoMatch
    BY <2>1, PromisedKept DEF RxGrantFree, HarqNoMatch, lists
  <2>2. CASE \E ok, bsr, lowCqi \in BOOLEAN : RxSdu(ok, bsr, lowCqi)
    BY <2>2, PromisedKept DEF RxSdu, lists
  <2>3. CASE HarqUnexpected \/ HarqMatched
    <3>1. /\ feedback # <<>> /\ feedback' = Tail(feedback) /\ disableHarq' = disableHarq
          /\ Finish(Head(feedback)) \/ Failed(Head(feedback))
      BY <2>3 DEF HarqUnexpected, HarqMatched
    <3>2. \E p \in Pid : Harq!Finish(p) \/ Harq!Fail(p)
      BY <3>1, EndImplements
    <3>3. QED
      BY <3>2 DEF Harq!Next
  <2>4. QED
    BY <1>2, <2>1, <2>2, <2>3 DEF Reception, HarqLoop
<1>3. CASE LoseReport
  BY <1>3, PromisedKept DEF LoseReport, lists
<1>4. CASE Control
  <2>1. ASSUME NEW common \in BOOLEAN, ConfigureBwp(common)
        PROVE  UNCHANGED promised \/ Harq!Next
    BY <2>1, GrowImplements DEF ConfigureBwp, Harq!Next
  <2>2. ASSUME NEW reestablish \in BOOLEAN, NEW bsr \in BOOLEAN,
               RaWithCrnti(reestablish, bsr)
        PROVE  Harq!Next
    BY <2>2, ResetImplements DEF Harq!Next
  <2>3. CASE MeasGap \/ \E action \in {"OUTOFSYNC", "INSYNC_RECONFIG"} : InterruptUe(action)
    BY <2>3, PromisedKept DEF MeasGap, InterruptUe, lists
  <2>4. CASE InterruptExpires
    <3>1. CASE CreateUlHarqList(available, TRUE)
      BY <2>4, <3>1, GrowImplements DEF InterruptExpires, Harq!Next
    <3>2. CASE available' = available
      BY <2>4, <3>2, PromisedKept DEF InterruptExpires
    <3>3. QED
      BY <2>4, <3>1, <3>2 DEF InterruptExpires
  <2>5. QED
    BY <1>4, <2>1, <2>2, <2>3, <2>4 DEF Control
<1>5. CASE GrantFree
  BY <1>5, PromisedKept DEF GrantFree, GfConfigure, GfRelease, GfOccasion, lists
<1>6. CASE UNCHANGED vars
  BY <1>6, PromisedKept DEF vars
<1>7. QED
  BY <1>1, <1>2, <1>3, <1>4, <1>5, <1>6 DEF Next

(* Uplink HARQ implements HarqPromise: a block is sent at most RoundMax     *)
(* times with one indicator, the next block of its process has the other    *)
(* one, and a resend follows a failure.                                     *)
THEOREM ImplementsHarqPromise == Spec => StopAndWait
<1>1. QED
  BY HarqInvariant, InitImplements, StepImplements, PTL DEF Spec, StopAndWait, Harq!Spec

----------------------------------------------------------------------------
(* The order of reports.                                                    *)

\* The reports of list a that processes of list f wait for come in the order of f.
InOrder(a, f) ==
  /\ \A i \in 1 .. Len(a) : IsOwn(a[i]) => a[i].pid \in Elems(f)
  /\ \A i, j \in 1 .. Len(a) :
       i < j /\ IsOwn(a[i]) /\ IsOwn(a[j]) => Before(f, a[i].pid, a[j].pid)

\* The report that is handled comes before those on the air.
FirstInOrder(r, a, f) ==
  r # NoRx /\ IsOwn(r) =>
    /\ r.pid \in Elems(f)
    /\ \A i \in 1 .. Len(a) : IsOwn(a[i]) => Before(f, r.pid, a[i].pid)

OrderInv == ~disableHarq => InOrder(air, feedback) /\ FirstInOrder(rx, air, feedback)

(* The property speaks of both as one list.                                 *)
LEMMA OrderIsOrder == AirType /\ OrderInv => ReportsInFeedbackOrder
<1> SUFFICES ASSUME AirType, OrderInv, ~disableHarq
             PROVE  InOrder(Due, feedback)
  BY DEF ReportsInFeedbackOrder, InOrder
<1>1. InOrder(air, feedback) /\ FirstInOrder(rx, air, feedback)
  BY DEF OrderInv
<1>2. CASE rx = NoRx
  BY <1>1, <1>2 DEF Due
<1>3. CASE rx # NoRx
  <2>1. /\ Len(air) \in Nat /\ Len(Due) = Len(air) + 1 /\ Due[1] = rx
        /\ \A i \in 2 .. Len(Due) : i - 1 \in 1 .. Len(air) /\ Due[i] = air[i - 1]
    <3>1. Len(air) \in Nat
      BY DEF AirType
    <3>2. PICK r : r = rx
      OBVIOUS
    <3>3. air \in Seq({r} \cup Report) /\ <<r>> \in Seq({r} \cup Report)
      BY DEF AirType
    <3> DEFINE S == {r} \cup Report
               d == <<r>> \o air
    <3>4. Due = d
      BY <1>3, <3>2 DEF Due
    <3>5. /\ Len(d) = Len(air) + 1 /\ d[1] = r
          /\ \A i \in 2 .. Len(air) + 1 : i - 1 \in 1 .. Len(air) /\ d[i] = air[i - 1]
      BY <3>3, <3>1
    <3>6. QED
      BY <3>1, <3>2, <3>4, <3>5
  <2>2. ASSUME NEW i \in 1 .. Len(Due), IsOwn(Due[i])
        PROVE  Due[i].pid \in Elems(feedback)
    <3>1. CASE i = 1
      BY <1>1, <1>3, <2>1, <2>2, <3>1 DEF FirstInOrder
    <3>2. CASE i # 1
      <4>1. i \in 2 .. Len(Due)
        BY <2>1, <3>2
      <4>2. QED
        BY <1>1, <2>1, <2>2, <4>1 DEF InOrder
    <3>3. QED
      BY <3>1, <3>2
  <2>3. ASSUME NEW i \in 1 .. Len(Due), NEW j \in 1 .. Len(Due), i < j, IsOwn(Due[i]), IsOwn(Due[j])
        PROVE  Before(feedback, Due[i].pid, Due[j].pid)
    <3>1. j \in 2 .. Len(Due)
      BY <2>1, <2>3
    <3>2. CASE i = 1
      BY <1>1, <1>3, <2>1, <2>3, <3>1, <3>2 DEF FirstInOrder
    <3>3. CASE i # 1
      <4>1. i \in 2 .. Len(Due) /\ i - 1 < j - 1
        BY <2>1, <2>3, <3>3
      <4>2. QED
        BY <1>1, <2>1, <2>3, <3>1, <4>1 DEF InOrder
    <3>4. QED
      BY <3>2, <3>3
  <2>4. QED
    BY <2>2, <2>3 DEF InOrder
<1>4. QED
  BY <1>2, <1>3

(* Reports that are gone, or that nobody waits for any more, disturb        *)
(* nothing: g says where the others were.                                   *)
LEMMA FewerInOrder ==
  ASSUME NEW a \in Seq(Report), NEW b \in Seq(Report), NEW f, NEW r, NEW g,
         InOrder(a, f), FirstInOrder(r, a, f),
         \A i \in 1 .. Len(b) : IsOwn(b[i]) =>
           g[i] \in 1 .. Len(a) /\ IsOwn(a[g[i]]) /\ a[g[i]].pid = b[i].pid,
         \A i, j \in 1 .. Len(b) : i < j /\ IsOwn(b[i]) /\ IsOwn(b[j]) => g[i] < g[j]
  PROVE  InOrder(b, f) /\ FirstInOrder(r, b, f)
<1>1. InOrder(b, f)
  BY DEF InOrder
<1>2. FirstInOrder(r, b, f)
  BY DEF FirstInOrder
<1>3. QED
  BY <1>1, <1>2

(* The first report is no longer on the air, and may be the one handled.    *)
LEMMA TailInOrder ==
  ASSUME NEW a \in Seq(Report), NEW f, NEW r, InOrder(a, f), a # <<>>
  PROVE  /\ FirstInOrder(r, a, f) => InOrder(Tail(a), f) /\ FirstInOrder(r, Tail(a), f)
         /\ (r.pid = Head(a).pid /\ r.kind = Head(a).kind) =>
              InOrder(Tail(a), f) /\ FirstInOrder(r, Tail(a), f)
<1>1. /\ Len(a) \in Nat \ {0} /\ Len(Tail(a)) = Len(a) - 1 /\ Head(a) = a[1]
      /\ Tail(a) \in Seq(Report)
      /\ \A i \in 1 .. Len(a) - 1 : i + 1 \in 2 .. Len(a) /\ Tail(a)[i] = a[i + 1]
  OBVIOUS
<1>2. InOrder(Tail(a), f)
  <2>1. \A i \in 1 .. Len(Tail(a)) : i + 1 \in 1 .. Len(a) /\ Tail(a)[i] = a[i + 1]
    BY <1>1
  <2>2. \A i, j \in 1 .. Len(Tail(a)) : i < j => i + 1 < j + 1
    BY <1>1
  <2>3. QED
    BY <2>1, <2>2 DEF InOrder
<1>3. FirstInOrder(r, a, f) => FirstInOrder(r, Tail(a), f)
  BY <1>1 DEF FirstInOrder
<1>4. (r.pid = Head(a).pid /\ r.kind = Head(a).kind) => FirstInOrder(r, Tail(a), f)
  BY <1>1 DEF FirstInOrder, InOrder, IsOwn
<1>5. QED
  BY <1>2, <1>3, <1>4

(* A granted PUSCH is the last to be reported, and its process the last in  *)
(* feedback_ul_harq.                                                        *)
LEMMA GrantInOrder ==
  ASSUME HarqInv, NEW p \in Pid, NEW tb, Grant(p, tb), Await(p),
         InOrder(air, feedback), rx = NoRx, rx' = rx
  PROVE  InOrder(air', feedback') /\ FirstInOrder(rx', air', feedback')
<1>1. feedback \in Seq(Pid) /\ air \in Seq(Report)
  BY DEF HarqInv, Lists, ListTypes, AirType
<1> DEFINE new == [pid |-> p, kind |-> "own", tb |-> tb]
<1>2. feedback' = Append(feedback, p) /\ air' = Append(air, new)
  BY DEF Grant, Await
<1>3. new.pid = p
  OBVIOUS
<1> HIDE DEF new
<1>4. /\ Len(air) \in Nat /\ Len(air') = Len(air) + 1 /\ air'[Len(air) + 1] = new
      /\ \A i \in 1 .. Len(air) : air'[i] = air[i]
  BY <1>1, <1>2
<1>5. /\ Elems(feedback') = Elems(feedback) \cup {p}
      /\ \A q, r : Before(feedback, q, r) => Before(feedback', q, r)
      /\ \A q \in Elems(feedback) : Before(feedback', q, p)
  BY <1>1, <1>2, ElemsAppend, BeforeAppend
<1>6. \A i \in 1 .. Len(air') : i \in 1 .. Len(air) \/ i = Len(air) + 1
  BY <1>4
<1>7. \A i \in 1 .. Len(air') : IsOwn(air'[i]) => air'[i].pid \in Elems(feedback')
  BY <1>3, <1>4, <1>5, <1>6 DEF InOrder
<1>8. ASSUME NEW i \in 1 .. Len(air'), NEW j \in 1 .. Len(air'), i < j,
             IsOwn(air'[i]), IsOwn(air'[j])
      PROVE  Before(feedback', air'[i].pid, air'[j].pid)
  <2>1. i \in 1 .. Len(air) /\ air'[i] = air[i]
    BY <1>4, <1>8
  <2>2. CASE j = Len(air) + 1
    BY <1>3, <1>4, <1>5, <1>8, <2>1, <2>2 DEF InOrder
  <2>3. CASE j \in 1 .. Len(air)
    BY <1>4, <1>5, <1>8, <2>1, <2>3 DEF InOrder
  <2>4. QED
    BY <1>6, <2>2, <2>3
<1>9. QED
  BY <1>7, <1>8 DEF InOrder, FirstInOrder

(* What Forget() leaves: reports that other processes wait for.             *)
LEMMA ForgetFacts ==
  ASSUME AirType, NEW p
  PROVE  /\ Len(Forget(p)) = Len(air)
         /\ \A i \in 1 .. Len(air) : IsOwn(Forget(p)[i]) =>
              IsOwn(air[i]) /\ Forget(p)[i] = air[i] /\ air[i].pid # p
<1>1. Len(air) \in Nat /\ \A i \in 1 .. Len(air) : air[i] \in Report
  BY DEF AirType
<1>2. Len(Forget(p)) = Len(air)
  BY <1>1 DEF Forget
<1>3. ASSUME NEW i \in 1 .. Len(air), IsOwn(Forget(p)[i])
      PROVE  IsOwn(air[i]) /\ Forget(p)[i] = air[i] /\ air[i].pid # p
  <2>1. CASE air[i].pid = p /\ air[i].kind = "own"
    <3>1. Forget(p)[i] = [air[i] EXCEPT !.kind = "stale"]
      BY <2>1 DEF Forget
    <3>2. Forget(p)[i].kind = "stale"
      BY <1>1, <3>1 DEF Report
    <3>3. QED
      BY <1>3, <3>2 DEF IsOwn
  <2>2. CASE ~(air[i].pid = p /\ air[i].kind = "own")
    <3>1. Forget(p)[i] = air[i]
      BY <2>2 DEF Forget
    <3>2. QED
      BY <1>3, <2>2, <3>1 DEF IsOwn
  <2>3. QED
    BY <2>1, <2>2
<1>4. QED
  BY <1>2, <1>3

(* The head of feedback_ul_harq goes, with the report it waited for.        *)
LEMMA PopInOrder ==
  ASSUME HarqInv, feedback # <<>>, feedback' = Tail(feedback), air' = Forget(Head(feedback)),
         InOrder(air, feedback), FirstInOrder(rx, air, feedback),
         rx' = NoRx \/ (rx' = rx /\ rx.pid # Head(feedback))
  PROVE  InOrder(air', feedback') /\ FirstInOrder(rx', air', feedback')
<1> DEFINE h == Head(feedback)
<1>1. feedback \in Seq(Pid) /\ AirType
  BY DEF HarqInv, Lists, ListTypes
<1>2. /\ Len(air') = Len(air)
      /\ \A i \in 1 .. Len(air) : IsOwn(air'[i]) =>
           IsOwn(air[i]) /\ air'[i].pid = air[i].pid /\ air[i].pid # h
  BY <1>1, ForgetFacts
<1>3. Elems(feedback) = Elems(feedback') \cup {h}
  BY <1>1, ElemsTail
<1>4. \A p, q : Before(feedback, p, q) /\ p # h => Before(feedback', p, q)
  BY <1>1, BeforeTail
<1> HIDE DEF h
<1>5. InOrder(air', feedback')
  BY <1>2, <1>3, <1>4 DEF InOrder
<1>6. FirstInOrder(rx', air', feedback')
  BY <1>2, <1>3, <1>4 DEF FirstInOrder, h
<1>7. QED
  BY <1>5, <1>6

(* pf_ul()                                                                  *)
LEMMA GrantsInOrder ==
  ASSUME HarqInv, OrderInv, Scheduler PROVE OrderInv'
<1>1. CASE disableHarq
  <2>1. disableHarq' = disableHarq
    BY DEF Scheduler, PfUlNew, PfUlRetransmission
  <2>2. QED
    BY <1>1, <2>1 DEF OrderInv
<1>2. CASE ~disableHarq
  <2>1. \E p \in Pid : \E tb : Grant(p, tb) /\ Await(p)
    <3>1. ASSUME NEW tb \in TbSizes, PfUlNew(tb)
          PROVE  \E p \in Pid : \E t : Grant(p, t) /\ Await(p)
      <4>1. Head(available) \in Pid
        BY <3>1, ElemsTail DEF HarqInv, Lists, ListTypes, PfUlNew
      <4>2. QED
        BY <1>2, <3>1, <4>1 DEF PfUlNew
    <3>2. ASSUME PfUlRetransmission
          PROVE  \E p \in Pid : \E t : Grant(p, t) /\ Await(p)
      <4>1. Head(retrans) \in Pid
        BY <3>2, ElemsTail DEF HarqInv, Lists, ListTypes, PfUlRetransmission
      <4>2. QED
        BY <3>2, <4>1 DEF PfUlRetransmission
    <3>3. QED
      BY <3>1, <3>2 DEF Scheduler
  <2>2. rx = NoRx /\ rx' = rx
    BY DEF Scheduler, PfUlNew, PfUlRetransmission, Unlocked
  <2>3. QED
    BY <1>2, <2>1, <2>2, GrantInOrder DEF OrderInv
<1>3. QED
  BY <1>1, <1>2

(* Reports that end at the grant-free manager, at the PHY, or in rx         *)
LEMMA ReportsInOrder ==
  ASSUME HarqInv, OrderInv,
         RxGrantFree \/ LoseReport \/ \E ok, bsr, lowCqi \in BOOLEAN : RxSdu(ok, bsr, lowCqi)
  PROVE  OrderInv'
<1>1. /\ air \in Seq(Report) /\ air # <<>> /\ air' = Tail(air)
      /\ feedback' = feedback /\ disableHarq' = disableHarq
  BY DEF HarqInv, AirType, RxGrantFree, LoseReport, RxSdu, lists
<1>2. CASE RxGrantFree \/ LoseReport
  <2>1. rx' = rx
    BY <1>2 DEF RxGrantFree, LoseReport
  <2>2. QED
    BY <1>1, <2>1, TailInOrder DEF OrderInv
<1>3. ASSUME NEW ok \in BOOLEAN, NEW bsr \in BOOLEAN, NEW lowCqi \in BOOLEAN,
             RxSdu(ok, bsr, lowCqi), ~disableHarq
      PROVE  OrderInv'
  <2>1. rx' = [pid |-> Head(air).pid, kind |-> Head(air).kind, ok |-> ok]
    BY <1>3 DEF RxSdu
  <2>2. rx'.pid = Head(air).pid /\ rx'.kind = Head(air).kind
    BY <2>1
  <2>3. QED
    BY <1>1, <1>3, <2>2, TailInOrder DEF OrderInv
<1>4. QED
  BY <1>1, <1>2, <1>3 DEF OrderInv

(* handle_nr_ul_harq()                                                      *)
LEMMA LoopInOrder == ASSUME HarqInv, OrderInv, HarqLoop PROVE OrderInv'
<1>1. ~disableHarq /\ disableHarq' = disableHarq
  <2>1. rx # NoRx /\ disableHarq' = disableHarq
    BY DEF HarqLoop, HarqUnexpected, HarqMatched, HarqNoMatch
  <2>2. QED
    BY <2>1 DEF HarqInv, NoFeedbackUsed
<1>2. CASE HarqUnexpected \/ HarqMatched
  <2>1. /\ feedback # <<>> /\ feedback' = Tail(feedback) /\ air' = Forget(Head(feedback))
        /\ rx' = NoRx \/ (rx' = rx /\ rx.pid # Head(feedback))
    BY <1>2 DEF HarqUnexpected, HarqMatched
  <2>2. QED
    BY <1>1, <2>1, PopInOrder DEF OrderInv
<1>3. CASE HarqNoMatch
  <2>1. rx' = NoRx /\ air' = air /\ feedback' = feedback
    BY <1>3 DEF HarqNoMatch, phy, lists
  <2>2. QED
    BY <1>1, <2>1 DEF OrderInv, FirstInOrder
<1>4. QED
  BY <1>2, <1>3 DEF HarqLoop

(* Reconfigurations and interrupts; after a reset nobody waits.             *)
LEMMA ControlInOrder == ASSUME HarqInv, OrderInv, Control PROVE OrderInv'
<1>1. CASE \E reestablish, bsr \in BOOLEAN : RaWithCrnti(reestablish, bsr)
  <2>1. /\ rx' = NoRx /\ Len(air) \in Nat
        /\ air' = [i \in 1 .. Len(air) |->
                     IF air[i].kind = "own" THEN [air[i] EXCEPT !.kind = "stale"] ELSE air[i]]
    <3>1. PICK reestablish, bsr \in BOOLEAN : RaWithCrnti(reestablish, bsr)
      BY <1>1
    <3>2. rx = NoRx /\ rx' = rx
      BY <3>1 DEF RaWithCrnti, Unlocked
    <3>3. air' = [i \in 1 .. Len(air) |->
                    IF air[i].kind = "own" THEN [air[i] EXCEPT !.kind = "stale"] ELSE air[i]]
      BY <3>1 DEF RaWithCrnti
    <3>4. Len(air) \in Nat
      BY DEF HarqInv, AirType
    <3>5. QED
      BY <3>2, <3>3, <3>4
  <2>2. \A i \in 1 .. Len(air) : air[i] \in Report
    BY DEF HarqInv, AirType
  <2>3. Len(air') = Len(air)
    BY <2>1
  <2>4. ASSUME NEW i \in 1 .. Len(air) PROVE ~IsOwn(air'[i])
    <3>1. CASE air[i].kind = "own"
      <4>1. air'[i] = [air[i] EXCEPT !.kind = "stale"]
        BY <2>1, <3>1
      <4>2. QED
        BY <2>2, <4>1 DEF Report, IsOwn
    <3>2. CASE air[i].kind # "own"
      BY <2>1, <3>2 DEF IsOwn
    <3>3. QED
      BY <3>1, <3>2
  <2>5. QED
    BY <2>1, <2>3, <2>4 DEF OrderInv, InOrder, FirstInOrder
<1>2. CASE \/ \E common \in BOOLEAN : ConfigureBwp(common)
           \/ \E action \in {"OUTOFSYNC", "INSYNC_RECONFIG"} : InterruptUe(action)
           \/ MeasGap \/ InterruptExpires
  <2>1. air' = air /\ feedback' = feedback /\ rx' = rx /\ disableHarq' = disableHarq
    BY <1>2 DEF ConfigureBwp, InterruptUe, MeasGap, InterruptExpires, phy, lists
  <2>2. QED
    BY <2>1 DEF OrderInv
<1>3. QED
  BY <1>1, <1>2 DEF Control

(* A grant-free report falls between the others.                            *)
LEMMA GrantFreeInOrder == ASSUME HarqInv, OrderInv, GrantFree PROVE OrderInv'
<1>1. CASE \E p \in GfPids : GfConfigure(p) \/ GfRelease(p)
  <2>1. air' = air /\ feedback' = feedback /\ rx' = rx /\ disableHarq' = disableHarq
    BY <1>1 DEF GfConfigure, GfRelease, phy, lists
  <2>2. QED
    BY <2>1 DEF OrderInv
<1>2. ASSUME NEW p \in GfPids, NEW tb \in TbSizes, NEW k \in 0 .. MaxAir, GfOccasion(p, tb, k)
      PROVE  OrderInv'
  <2> DEFINE new == [pid |-> p, kind |-> "gf", tb |-> tb]
             before == SubSeq(air, 1, k)
             after == SubSeq(air, k + 1, Len(air))
             where == [i \in 1 .. Len(air) + 1 |-> IF i <= k THEN i ELSE i - 1]
  <2>1. feedback' = feedback /\ rx' = rx /\ disableHarq' = disableHarq
    BY <1>2 DEF GfOccasion, lists
  <2>2. air \in Seq(Report) /\ Len(air) \in Nat /\ k \in 0 .. Len(air) /\ air' \in Seq(Report)
    <3>1. AirType /\ AirType'
      BY <1>2, GfOccasionInv DEF HarqInv
    <3>2. k \in 0 .. Len(air)
      BY <1>2 DEF GfOccasion
    <3>3. QED
      BY <3>1, <3>2 DEF AirType
  <2>3. new \in Report /\ ~IsOwn(new)
    BY GfPidsAssumption, GnbUlHarqAssumption DEF Report, Kind, IsOwn
  <2>4. /\ before \in Seq(Report) /\ Len(before) = k
        /\ \A i \in 1 .. k : before[i] = air[i]
    BY <2>2
  <2>5. /\ after \in Seq(Report) /\ Len(after) = Len(air) - k
        /\ \A i \in 1 .. Len(air) - k : after[i] = air[k + i]
    BY <2>2
  <2>6. air' = before \o <<new>> \o after
    BY <1>2 DEF GfOccasion
  <2>7. k \in Nat
    BY <2>2
  <2> HIDE DEF new, before, after
  <2>8. <<new>> \in Seq(Report) /\ Len(<<new>>) = 1 /\ <<new>>[1] = new
    BY <2>3
  <2> DEFINE two == before \o <<new>>
  <2>9. /\ two \in Seq(Report) /\ Len(two) = k + 1 /\ two[k + 1] = new
        /\ \A i \in 1 .. k : two[i] = air[i]
    BY <2>4, <2>7, <2>8
  <2> HIDE DEF two
  <2>10. /\ Len(air') = Len(air) + 1 /\ air'[k + 1] = new
         /\ \A i \in 1 .. k : air'[i] = air[i]
         /\ \A i \in k + 2 .. Len(air) + 1 : air'[i] = air[i - 1]
    <3>1. air' = two \o after
      BY <2>6 DEF two
    <3>2. /\ Len(air') = Len(two) + Len(after)
          /\ \A i \in 1 .. Len(two) : air'[i] = two[i]
          /\ \A i \in Len(two) + 1 .. Len(two) + Len(after) : air'[i] = after[i - Len(two)]
      BY <2>5, <2>9, <3>1, Joined
    <3>3. /\ Len(two) = k + 1 /\ Len(two) + Len(after) = Len(air) + 1
          /\ Len(two) + 1 = k + 2
      BY <2>2, <2>5, <2>7, <2>9
    <3>4. ASSUME NEW i \in k + 2 .. Len(air) + 1 PROVE air'[i] = air[i - 1]
      <4>1. air'[i] = after[i - (k + 1)]
        BY <3>2, <3>3
      <4>2. i - (k + 1) \in 1 .. Len(air) - k /\ k + (i - (k + 1)) = i - 1
        BY <2>2, <2>7
      <4>3. QED
        BY <2>5, <4>1, <4>2
    <3>5. k + 1 \in 1 .. k + 1 /\ \A i \in 1 .. k : i \in 1 .. k + 1
      BY <2>7
    <3>6. QED
      BY <2>9, <3>2, <3>3, <3>4, <3>5
  <2>11. ASSUME NEW i \in 1 .. Len(air'), IsOwn(air'[i])
         PROVE  where[i] \in 1 .. Len(air) /\ air'[i] = air[where[i]]
    <3>1. i # k + 1
      BY <2>3, <2>10, <2>11
    <3>2. CASE i \in 1 .. k
      BY <2>2, <2>10, <3>2
    <3>3. CASE i \in k + 2 .. Len(air) + 1
      BY <2>2, <2>10, <3>3
    <3>4. QED
      BY <2>2, <2>10, <3>1, <3>2, <3>3
  <2>12. ASSUME NEW i \in 1 .. Len(air'), NEW j \in 1 .. Len(air'), i < j,
                IsOwn(air'[i]), IsOwn(air'[j])
         PROVE  where[i] < where[j]
    <3>1. i # k + 1 /\ j # k + 1
      BY <2>3, <2>10, <2>12
    <3>2. QED
      BY <2>2, <2>10, <2>12, <3>1
  <2> HIDE DEF where
  <2>13. ASSUME ~disableHarq
         PROVE  InOrder(air', feedback) /\ FirstInOrder(rx, air', feedback)
    BY <2>2, <2>11, <2>12, <2>13, FewerInOrder DEF OrderInv
  <2>14. QED
    BY <2>1, <2>13 DEF OrderInv
<1>3. QED
  BY <1>1, <1>2 DEF GrantFree

(* Every step keeps the order of reports.                                   *)
LEMMA StepInOrder == HarqInv /\ OrderInv /\ [Next]_vars => OrderInv'
<1> SUFFICES ASSUME HarqInv, OrderInv, [Next]_vars PROVE OrderInv'
  OBVIOUS
<1>1. CASE Reception
  BY <1>1, ReportsInOrder, LoopInOrder DEF Reception
<1>2. CASE UNCHANGED vars
  BY <1>2 DEF OrderInv, vars
<1>3. QED
  BY <1>1, <1>2, GrantsInOrder, ReportsInOrder, ControlInOrder, GrantFreeInOrder DEF Next

(* The order holds throughout.                                              *)
LEMMA OrderHolds == Spec => []OrderInv
<1>1. Init => OrderInv
  BY DEF Init, OrderInv, InOrder, FirstInOrder
<1>2. QED
  BY <1>1, StepInOrder, HarqInvariant, PTL DEF Spec

(* Reports come in the order of feedback_ul_harq, however many are lost,    *)
(* go astray to the grant-free manager, or are for a process that has been  *)
(* reset since.                                                             *)
THEOREM ReportsAlwaysInOrder == Spec => []ReportsInFeedbackOrder
<1>1. HarqInv /\ OrderInv => ReportsInFeedbackOrder
  BY OrderIsOrder DEF HarqInv
<1>2. QED
  BY <1>1, OrderHolds, HarqInvariant, PTL

\* What handle_nr_ul_harq() takes for failed while the report is the process's own
OnlyLostAreGivenUp ==
  HarqUnexpected /\ IsOwn(rx) =>
    \A i \in 1 .. Len(air) : air[i].pid = Head(feedback) => ~IsOwn(air[i])

(* A process in front of the one that is reported has no report of its own  *)
(* to come: handle_nr_ul_harq() gives up lost transmissions and no others,  *)
(* unless a stale or a grant-free report intervenes.                        *)
THEOREM GivenUpOnlyWhenLost == Spec => [][OnlyLostAreGivenUp]_vars
<1>1. HarqInv /\ OrderInv => OnlyLostAreGivenUp
  <2> SUFFICES ASSUME HarqInv, OrderInv, HarqUnexpected, IsOwn(rx),
                      NEW i \in 1 .. Len(air), air[i].pid = Head(feedback), IsOwn(air[i])
               PROVE  FALSE
    BY DEF OnlyLostAreGivenUp
  <2>1. /\ ~disableHarq /\ rx # NoRx /\ feedback # <<>>
        /\ feedback \in Seq(Pid) /\ Once(feedback)
    BY DEF HarqUnexpected, HarqInv, NoFeedbackUsed, Lists, ListTypes, ListsPartition
  <2>2. Before(feedback, rx.pid, Head(feedback))
    BY <2>1 DEF OrderInv, FirstInOrder
  <2>3. QED
    BY <2>1, <2>2 DEF Before, Once
<1>2. QED
  BY <1>1, OrderHolds, HarqInvariant, PTL

----------------------------------------------------------------------------
(* The byte count.                                                          *)

\* A decoded block is in the hands of handle_nr_ul_harq(): nr_rx_sdu() has taken it off
\* sched_ul_bytes already, while its process still holds it.
Working == rx # NoRx /\ rx.ok
Owed == IF Working /\ IsOwn(rx) THEN proc[rx.pid].tb ELSE 0

\* A process's own report is about the block it holds.
OwnBlocks(a) == \A r \in Elems(a) : IsOwn(r) => r.tb = proc[r.pid].tb

Covered ==
  ~leaked =>
    /\ schedBytes + Owed <= HeldBytes
    /\ Working /\ ~IsOwn(rx) => schedBytes = 0

BytesInv == ~disableHarq => OwnBlocks(air) /\ Covered

(* The processes are finitely many.                                         *)
LEMMA PidsFinite == IsFiniteSet(Pid)
<1> DEFINE n == (IF ConfiguredHarq >= CommonHarqMax THEN ConfiguredHarq ELSE CommonHarqMax) - 1
<1>1. 0 \in Int /\ n \in Int
  BY GnbUlHarqAssumption
<1>2. Pid = 0 .. n
  BY DEF Pid
<1> HIDE DEF n
<1>3. QED
  BY <1>1, <1>2, FS_Interval

(* What is held is not negative, and not less than what one process holds.  *)
LEMMA HeldFacts ==
  ASSUME Lists
  PROVE  /\ Held \in [Pid -> Nat] /\ HeldBytes \in Nat
         /\ \A p \in Elems(feedback) \cup Elems(retrans) :
              p \in Pid /\ Held[p] = proc[p].tb /\ proc[p].tb \in Nat
         /\ \A p \in Pid \ (Elems(feedback) \cup Elems(retrans)) : Held[p] = 0
         /\ \A p \in Pid : Held[p] <= HeldBytes
<1>1. \A p \in Pid : proc[p].tb \in Nat
  BY DEF Lists, ListTypes, Process
<1>2. Held \in [Pid -> Nat]
  BY <1>1 DEF Held
<1>3. IsFiniteSet(Pid) BY PidsFinite
<1>4. HeldBytes = SumFunctionOnSet(Held, Pid)
  BY <1>2 DEF HeldBytes, SumFunction
<1>5. HeldBytes \in Nat
  <2>1. \A p \in Pid : Held[p] \in Nat
    BY <1>2
  <2>2. QED
    BY <1>3, <1>4, <2>1, SumOfNats
<1>6. ASSUME NEW p \in Pid PROVE Held[p] <= HeldBytes
  <2> DEFINE rest == [Held EXCEPT ![p] = 0]
             d == 0 - Held[p]
  <2>1. Held[p] \in Nat /\ d \in Int
    BY <1>2
  <2>2. /\ \A q \in Pid : Held[q] \in Int /\ rest[q] \in Int /\ rest[q] \in Nat
        /\ rest[p] = Held[p] + d
        /\ \A q \in Pid \ {p} : rest[q] = Held[q]
    BY <1>2, <2>1
  <2> HIDE DEF rest, d
  <2>3. SumFunctionOnSet(rest, Pid) = SumFunctionOnSet(Held, Pid) + d
    BY <1>3, <2>1, <2>2, SumChangesBy
  <2>4. SumFunctionOnSet(rest, Pid) \in Nat
    BY <1>3, <2>2, SumOfNats
  <2>5. SumFunctionOnSet(rest, Pid) = HeldBytes + d
    BY <1>4, <2>3
  <2>6. QED
    BY <1>5, <2>1, <2>4, <2>5 DEF d
<1>7. \A p \in Elems(feedback) \cup Elems(retrans) : p \in Pid /\ Held[p] = proc[p].tb
  BY KnownArePids DEF Held, Lists
<1>8. \A p \in Pid \ (Elems(feedback) \cup Elems(retrans)) : Held[p] = 0
  BY DEF Held
<1>9. QED
  BY <1>1, <1>2, <1>5, <1>6, <1>7, <1>8

(* In a state, and in the state after a step.                               *)
LEMMA HeldSound ==
  Lists => Held \in [Pid -> Nat] /\ HeldBytes \in Nat /\ \A p \in Pid : Held[p] <= HeldBytes
  BY HeldFacts
LEMMA HeldSoundNext ==
  Lists' =>
    (Held \in [Pid -> Nat] /\ HeldBytes \in Nat /\ \A p \in Pid : Held[p] <= HeldBytes)'
  BY HeldSound, PTL

(* When what one process holds changes, so does the sum.                    *)
LEMMA HeldChanges ==
  ASSUME Lists, Lists', NEW c \in Pid, \A p \in Pid \ {c} : Held'[p] = Held[p]
  PROVE  HeldBytes' = HeldBytes + Held'[c] - Held[c]
<1>1. Held \in [Pid -> Nat] /\ Held' \in [Pid -> Nat]
  BY HeldSound, HeldSoundNext
<1>2. HeldBytes = SumFunctionOnSet(Held, Pid) /\ HeldBytes' = SumFunctionOnSet(Held', Pid)
  BY <1>1 DEF HeldBytes, SumFunction
<1> DEFINE d == Held'[c] - Held[c]
<1>3. d \in Int /\ Held'[c] = Held[c] + d
  BY <1>1
<1>4. \A p \in Pid : Held[p] \in Int /\ Held'[p] \in Int
  BY <1>1
<1>5. Held'[c] = Held[c] + d /\ \A p \in Pid \ {c} : Held'[p] = Held[p]
  BY <1>3
<1> HIDE DEF d
<1>6. SumFunctionOnSet(Held', Pid) = SumFunctionOnSet(Held, Pid) + d
  BY <1>3, <1>4, <1>5, PidsFinite, SumChangesBy
<1>7. HeldBytes' = HeldBytes + d
  BY <1>2, <1>6
<1>8. HeldBytes \in Nat
  BY HeldFacts
<1>9. QED
  BY <1>1, <1>7, <1>8 DEF d

(* Nothing is granted, finished or counted.                                 *)
LEMMA BytesKept ==
  ASSUME BytesInv, UNCHANGED <<feedback, retrans, proc, schedBytes, disableHarq, rx, leaked>>,
         \A r \in Elems(air') : IsOwn(r) => r \in Elems(air)
  PROVE  BytesInv'
<1>1. Held' = Held
  BY DEF Held
<1>2. HeldBytes' = HeldBytes
  BY <1>1 DEF HeldBytes
<1>3. Owed' = Owed /\ (Working' <=> Working) /\ (IsOwn(rx)' <=> IsOwn(rx))
  BY DEF Owed, Working, IsOwn
<1>4. OwnBlocks(air) => OwnBlocks(air)'
  BY DEF OwnBlocks, IsOwn
<1>5. Covered => Covered'
  BY <1>2, <1>3 DEF Covered
<1>6. QED
  BY <1>4, <1>5 DEF BytesInv

(* A grant, new or repeated, of process p, which did not wait.              *)
LEMMA OwnBlockGranted ==
  ASSUME HarqInv, OrderInv, ~disableHarq, OwnBlocks(air), NEW p \in Pid, NEW tb \in Nat,
         Grant(p, tb), p \notin Elems(feedback), proc'[p].tb = tb,
         \A q \in Pid \ {p} : proc'[q] = proc[q]
  PROVE  OwnBlocks(air)'
<1> DEFINE new == [pid |-> p, kind |-> "own", tb |-> tb]
<1>1. air \in Seq(Report) /\ new \in Report /\ air' = Append(air, new)
      /\ new.pid = p /\ new.tb = tb
  BY DEF HarqInv, AirType, Grant, Report, Kind
<1> HIDE DEF new
<1>2. Elems(air') = Elems(air) \cup {new}
  BY <1>1, ElemsAppend
<1>3. ASSUME NEW r \in Elems(air), IsOwn(r) PROVE r.tb = proc'[r.pid].tb
  <2>1. PICK i \in 1 .. Len(air) : r = air[i]
    BY DEF Elems
  <2>2. r.pid \in Elems(feedback) /\ r \in Report
    BY <1>1, <1>3, <2>1 DEF OrderInv, InOrder
  <2>3. r.pid \in Pid \ {p}
    BY <2>2 DEF Report
  <2>4. QED
    BY <1>3, <2>3 DEF OwnBlocks
<1>4. \A r \in Elems(air') : IsOwn(r) => r.tb = proc'[r.pid].tb
  BY <1>1, <1>2, <1>3
<1>5. QED
  BY <1>4 DEF OwnBlocks, IsOwn

(* pf_ul() with new data counts the block its process now holds.            *)
LEMMA NewBlockCovered ==
  ASSUME HarqInv, HarqInv', OrderInv, BytesInv, ~disableHarq, NEW tb \in TbSizes, PfUlNew(tb)
  PROVE  BytesInv'
<1> DEFINE p == Head(available)
           v == [proc[p] EXCEPT !.waiting = TRUE, !.tb = tb]
<1>1. /\ available # <<>> /\ available' = Tail(available) /\ retrans' = retrans
      /\ Await(p) /\ Grant(p, tb) /\ rx = NoRx /\ rx' = rx /\ leaked' = leaked
      /\ disableHarq' = disableHarq /\ schedBytes' = schedBytes + tb
      /\ proc' = [proc EXCEPT ![p].waiting = TRUE, ![p].tb = tb]
  BY DEF PfUlNew, Unlocked
<1>2. /\ p \in Pid /\ p \in Elems(available)
      /\ p \notin Elems(feedback) /\ p \notin Elems(retrans)
      /\ Elems(feedback') = Elems(feedback) \cup {p}
  <2>1. p \in Pid /\ p \in Elems(available)
    BY <1>1, SomeElems, ElemsTail DEF HarqInv, Lists, ListTypes
  <2>2. feedback' = Append(feedback, p)
    BY <1>1 DEF Await
  <2> HIDE DEF p
  <2>3. Elems(feedback') = Elems(feedback) \cup {p}
    BY <2>1, <2>2, ElemsAppend DEF HarqInv, Lists, ListTypes
  <2>4. QED
    BY <2>1, <2>3 DEF HarqInv, Lists, ListsPartition
<1>3. tb \in Nat /\ proc[p] \in Process /\ schedBytes \in Nat
  BY <1>2, GnbUlHarqAssumption DEF HarqInv, Lists, ListTypes, OtherTypes
<1>4. proc'[p].tb = tb /\ \A q \in Pid \ {p} : proc'[q] = proc[q]
  <2>1. proc' = [proc EXCEPT ![p] = v]
    BY <1>1 DEF HarqInv, Lists, ListTypes
  <2>2. v.tb = tb
    BY <1>3 DEF Process
  <2> HIDE DEF v
  <2>3. QED
    BY <1>2, <2>1, <2>2 DEF HarqInv, Lists, ListTypes
<1> HIDE DEF p, v
<1>5. OwnBlocks(air)'
  BY <1>1, <1>2, <1>3, <1>4, OwnBlockGranted DEF BytesInv
<1>6. HeldBytes' = HeldBytes + tb /\ HeldBytes \in Nat
  <2>1. Held[p] = 0 /\ Held'[p] = tb
    <3>1. p \notin Elems(feedback) \cup Elems(retrans)
      BY <1>2
    <3>2. p \in Elems(feedback') \cup Elems(retrans')
      BY <1>2
    <3>3. QED
      BY <1>2, <1>4, <3>1, <3>2 DEF Held
  <2>2. ASSUME NEW q \in Pid \ {p} PROVE Held'[q] = Held[q]
    <3>1. q \in Elems(feedback') \cup Elems(retrans')
            <=> q \in Elems(feedback) \cup Elems(retrans)
      BY <1>1, <1>2
    <3>2. QED
      BY <1>4, <3>1 DEF Held
  <2>3. HeldBytes' = HeldBytes + Held'[p] - Held[p] /\ HeldBytes \in Nat
    BY <1>2, <2>2, HeldChanges, HeldSound DEF HarqInv
  <2>4. QED
    BY <1>3, <2>1, <2>3
<1>7. Owed = 0 /\ Owed' = 0 /\ ~Working /\ ~Working'
  BY <1>1 DEF Owed, Working
<1>8. Covered => Covered'
  BY <1>1, <1>3, <1>6, <1>7 DEF Covered
<1>9. QED
  BY <1>1, <1>5, <1>8 DEF BytesInv

(* pf_ul() with a retransmission: the block is held and counted already.    *)
LEMMA RetransmissionCovered ==
  ASSUME HarqInv, OrderInv, BytesInv, ~disableHarq, PfUlRetransmission
  PROVE  BytesInv'
<1> DEFINE p == Head(retrans)
           v == [proc[p] EXCEPT !.waiting = TRUE]
<1>1. /\ retrans # <<>> /\ retrans' = Tail(retrans)
      /\ Await(p) /\ Grant(p, proc[p].tb) /\ rx = NoRx /\ rx' = rx /\ leaked' = leaked
      /\ disableHarq' = disableHarq /\ schedBytes' = schedBytes
      /\ proc' = [proc EXCEPT ![p].waiting = TRUE]
  BY DEF PfUlRetransmission, Unlocked
<1>2. /\ p \in Pid /\ p \in Elems(retrans)
      /\ p \notin Elems(feedback)
      /\ Elems(feedback') = Elems(feedback) \cup {p} /\ Elems(retrans') \cup {p} = Elems(retrans)
  <2>1. /\ p \in Pid /\ p \in Elems(retrans) /\ Elems(retrans') \cup {p} = Elems(retrans)
    BY <1>1, SomeElems, ElemsTail DEF HarqInv, Lists, ListTypes
  <2>2. feedback' = Append(feedback, p)
    BY <1>1 DEF Await
  <2> HIDE DEF p
  <2>3. Elems(feedback') = Elems(feedback) \cup {p}
    BY <2>1, <2>2, ElemsAppend DEF HarqInv, Lists, ListTypes
  <2>4. QED
    BY <2>1, <2>3 DEF HarqInv, Lists, ListsPartition
<1>3. proc[p] \in Process /\ proc[p].tb \in Nat
  BY <1>2 DEF HarqInv, Lists, ListTypes, Process
<1>4. proc'[p].tb = proc[p].tb /\ \A q \in Pid \ {p} : proc'[q] = proc[q]
  <2>1. proc' = [proc EXCEPT ![p] = v]
    BY <1>1 DEF HarqInv, Lists, ListTypes
  <2>2. v.tb = proc[p].tb
    BY <1>3 DEF Process
  <2> HIDE DEF v
  <2>3. QED
    BY <1>2, <2>1, <2>2 DEF HarqInv, Lists, ListTypes
<1> HIDE DEF p, v
<1>5. OwnBlocks(air)'
  BY <1>1, <1>2, <1>3, <1>4, OwnBlockGranted DEF BytesInv
<1>6. Held' = Held
  <2>1. Elems(feedback') \cup Elems(retrans') = Elems(feedback) \cup Elems(retrans)
    BY <1>2
  <2>2. \A q \in Pid : proc'[q].tb = proc[q].tb
    BY <1>4
  <2>3. QED
    BY <2>1, <2>2 DEF Held
<1>7. HeldBytes' = HeldBytes /\ Owed = 0 /\ Owed' = 0 /\ ~Working /\ ~Working'
  BY <1>1, <1>6 DEF HeldBytes, Owed, Working
<1>8. Covered => Covered'
  BY <1>1, <1>7 DEF Covered
<1>9. QED
  BY <1>1, <1>5, <1>8 DEF BytesInv

(* _nr_rx_sdu() takes a decoded block off the count.                        *)
LEMMA ReportCovered ==
  ASSUME HarqInv, OrderInv, BytesInv, ~disableHarq, NEW ok \in BOOLEAN, NEW bsr \in BOOLEAN,
         NEW lowCqi \in BOOLEAN, RxSdu(ok, bsr, lowCqi)
  PROVE  BytesInv'
<1> DEFINE r == Head(air)
<1>1. /\ air # <<>> /\ air' = Tail(air) /\ rx = NoRx
      /\ schedBytes' = IF ~ok THEN schedBytes ELSE IF bsr THEN 0 ELSE Minus(r.tb)
      /\ rx' = [pid |-> r.pid, kind |-> r.kind, ok |-> ok]
      /\ leaked' = (~(ok /\ bsr) /\ (leaked \/ r.kind # "own"))
      /\ UNCHANGED <<feedback, retrans, proc, disableHarq>>
  BY DEF RxSdu, Unlocked, lists
<1>2. /\ air \in Seq(Report) /\ r \in Report /\ r \in Elems(air)
      /\ r = air[1] /\ 1 \in 1 .. Len(air)
      /\ Elems(air') \subseteq Elems(air) /\ schedBytes \in Nat /\ Lists
  <2>1. air \in Seq(Report) /\ schedBytes \in Nat /\ Lists
    BY DEF HarqInv, AirType, OtherTypes
  <2>2. r \in Report /\ r \in Elems(air) /\ Elems(air') \subseteq Elems(air)
    BY <1>1, <2>1, SomeElems, ElemsTail
  <2>3. QED
    BY <1>1, <2>1, <2>2
<1>3. r.tb \in Nat /\ rx'.pid = r.pid /\ rx'.kind = r.kind /\ rx'.ok = ok /\ rx' # NoRx
  <2>1. r.tb \in Nat /\ r.pid \in Nat
    BY <1>2, NumberFacts DEF Report
  <2>2. rx'.pid = r.pid /\ rx'.kind = r.kind /\ rx'.ok = ok
    BY <1>1
  <2>3. NoRx.pid = -1
    BY DEF NoRx
  <2>4. QED
    BY <2>1, <2>2, <2>3
<1> HIDE DEF r
<1>4. OwnBlocks(air)'
  BY <1>1, <1>2 DEF BytesInv, OwnBlocks, IsOwn
<1>5. HeldBytes' = HeldBytes /\ HeldBytes \in Nat
  BY <1>1, <1>2, HeldSound DEF HeldBytes, Held
<1>6. IsOwn(r) => r.tb = proc[r.pid].tb /\ r.tb <= HeldBytes
  <2> SUFFICES ASSUME IsOwn(r) PROVE r.tb = proc[r.pid].tb /\ r.tb <= HeldBytes
    OBVIOUS
  <2>1. r.pid \in Elems(feedback)
    BY <1>2 DEF OrderInv, InOrder
  <2>2. r.tb = proc[r.pid].tb
    BY <1>2 DEF BytesInv, OwnBlocks
  <2>3. QED
    BY <1>2, <2>1, <2>2, HeldFacts
<1>7. (Working' <=> ok) /\ (IsOwn(rx)' <=> IsOwn(r))
      /\ Owed' = (IF ok /\ IsOwn(r) THEN proc[r.pid].tb ELSE 0)
  BY <1>1, <1>3 DEF Working, Owed, IsOwn
<1>8. ASSUME ~leaked', ok, bsr PROVE Covered'
  <2>1. schedBytes' = 0
    BY <1>1, <1>8
  <2>2. Owed' <= HeldBytes /\ Owed' \in Nat
    BY <1>3, <1>5, <1>6, <1>7
  <2>3. schedBytes' + Owed' <= HeldBytes'
    <3>1. 0 + Owed' <= HeldBytes
      BY <2>2
    <3>2. QED
      BY <1>5, <2>1, <3>1
  <2>4. QED
    BY <2>1, <2>3 DEF Covered
<1>9. ASSUME ~leaked', ~(ok /\ bsr) PROVE Covered'
  <2>1. ~leaked /\ IsOwn(r)
    BY <1>1, <1>9 DEF IsOwn
  <2>2. schedBytes <= HeldBytes
    <3>1. Owed = 0
      BY <1>1 DEF Owed, Working
    <3>2. QED
      BY <1>2, <2>1, <3>1 DEF BytesInv, Covered
  <2>3. CASE ok
    <3>1. schedBytes' = Minus(r.tb) /\ Owed' = r.tb
      BY <1>1, <1>6, <1>7, <1>9, <2>1, <2>3
    <3>2. schedBytes' + Owed' <= HeldBytes
      BY <1>2, <1>3, <1>5, <1>6, <2>1, <2>2, <3>1 DEF Minus
    <3>3. QED
      BY <1>5, <1>7, <2>1, <3>2 DEF Covered
  <2>4. CASE ~ok
    <3>1. schedBytes' = schedBytes /\ Owed' = 0 /\ ~Working'
      BY <1>1, <1>7, <2>4
    <3>2. QED
      BY <1>2, <1>5, <2>2, <3>1 DEF Covered
  <2>5. QED
    BY <2>3, <2>4
<1>10. Covered'
  BY <1>8, <1>9 DEF Covered
<1>11. QED
  BY <1>4, <1>10 DEF BytesInv

(* A failed transmission leaves every process its block.                    *)
LEMMA FailedKeepsBlocks ==
  ASSUME HarqInv, feedback # <<>>, Failed(Head(feedback))
  PROVE  \A s \in Pid : proc'[s].tb = proc[s].tb
<1> DEFINE p == Head(feedback)
<1>1. p \in Pid /\ ListTypes /\ schedBytes \in Nat
  BY ElemsTail DEF HarqInv, Lists, ListTypes, OtherTypes
<1>2. proc \in [Pid -> Process] /\ \A s \in Pid : proc[s] \in Process
  BY <1>1 DEF ListTypes
<1>3. Updated(p, Done(p)) \/ Updated(p, Retried(p))
  BY <1>1, FailedUpdate, FinishUpdate
<1> HIDE DEF p
<1>4. Done(p).tb = proc[p].tb /\ Retried(p).tb = proc[p].tb
  BY <1>1, <1>2 DEF Done, Retried, Process
<1>5. QED
  BY <1>3, <1>4 DEF Updated

(* handle_nr_ul_harq() gives up process p, or has it sent again: what is    *)
(* no longer held is no longer counted.                                     *)
LEMMA FailedCovered ==
  ASSUME HarqInv, HarqInv', feedback # <<>>, feedback' = Tail(feedback),
         Failed(Head(feedback)), NEW owed \in Nat, schedBytes + owed <= HeldBytes,
         NEW q, owed > 0 => q \in Elems(feedback) /\ q # Head(feedback) /\ proc[q].tb = owed
  PROVE  /\ schedBytes' + owed <= HeldBytes'
         /\ schedBytes = 0 => schedBytes' = 0
<1> DEFINE p == Head(feedback)
<1>1. \A s \in Pid : proc'[s].tb = proc[s].tb
  BY FailedKeepsBlocks
<1>2. /\ p \in Pid /\ p \in Elems(feedback) /\ Elems(feedback') = Elems(feedback) \ {p}
      /\ feedback \in Seq(Pid) /\ retrans \in Seq(Pid) /\ p \notin Elems(retrans)
  <2>1. p \in Elems(feedback) /\ p \in Pid /\ Elems(feedback') = Elems(feedback) \ {p}
    BY SomeElems, ElemsTail DEF HarqInv, Lists, ListTypes, ListsPartition
  <2>2. QED
    BY <2>1 DEF HarqInv, Lists, ListTypes, ListsPartition
<1>3. Lists /\ Lists' /\ ListTypes /\ schedBytes \in Nat
  BY DEF HarqInv, Lists, OtherTypes
<1> HIDE DEF p
<1>4. /\ HeldBytes \in Nat /\ HeldBytes' \in Nat
      /\ Held[p] = proc[p].tb /\ proc[p].tb \in Nat
  BY <1>2, <1>3, HeldFacts, HeldSoundNext
<1>5. CASE proc[p].round >= RoundMax - 1
  <2>1. Finish(p) /\ schedBytes' = Minus(proc[p].tb)
    BY <1>5 DEF Failed, p
  <2>2. Updated(p, Done(p)) /\ retrans' = retrans
    BY <1>2, <1>3, <2>1, FinishUpdate
  <2>3. Held'[p] = 0 /\ \A s \in Pid \ {p} : Held'[s] = Held[s]
    BY <1>1, <1>2, <2>2 DEF Held
  <2>4. HeldBytes' = HeldBytes + Held'[p] - Held[p]
    BY <1>2, <1>3, <2>3, HeldChanges
  <2>5. HeldBytes' = HeldBytes - proc[p].tb
    BY <1>4, <2>3, <2>4
  <2>6. owed <= HeldBytes'
    <3>1. CASE owed = 0
      BY <1>4, <3>1
    <3>2. CASE owed > 0
      <4>1. q \in Elems(feedback') /\ q \in Pid
        BY <1>2, <1>3, <3>2, KnownArePids DEF p
      <4>2. Held'[q] = owed
        BY <1>1, <3>2, <4>1 DEF Held
      <4>3. Held'[q] <= HeldBytes'
        BY <1>3, <4>1, HeldSoundNext
      <4>4. QED
        BY <4>2, <4>3
    <3>3. QED
      BY <3>1, <3>2
  <2>7. QED
    BY <1>3, <1>4, <2>1, <2>5, <2>6 DEF Minus
<1>6. CASE ~(proc[p].round >= RoundMax - 1)
  <2>1. /\ retrans' = Append(retrans, p) /\ schedBytes' = schedBytes
        /\ proc' = [proc EXCEPT ![p].round = proc[p].round + 1, ![p].waiting = FALSE]
    BY <1>6 DEF Failed, p
  <2>2. Elems(retrans') = Elems(retrans) \cup {p}
    BY <1>2, <2>1, ElemsAppend
  <2>3. Held' = Held
    <3>1. Elems(feedback') \cup Elems(retrans') = Elems(feedback) \cup Elems(retrans)
      BY <1>2, <2>2
    <3>2. QED
      BY <1>1, <3>1 DEF Held
  <2>4. HeldBytes' = HeldBytes
    BY <2>3 DEF HeldBytes
  <2>5. QED
    BY <2>1, <2>4
<1>7. QED
  BY <1>5, <1>6

(* Reports made stale, and a process taken off the list, with its block.    *)
LEMMA OwnBlocksForgotten ==
  ASSUME AirType, OwnBlocks(air), NEW p, air' = Forget(p),
         \A q \in Pid : proc'[q].tb = proc[q].tb
  PROVE  OwnBlocks(air)'
<1>1. ASSUME NEW r \in Elems(air'), IsOwn(r) PROVE r.tb = proc'[r.pid].tb
  <2>1. PICK i \in 1 .. Len(air') : r = air'[i]
    BY DEF Elems
  <2>2. i \in 1 .. Len(air) /\ r = air[i]
    BY <1>1, <2>1, ForgetFacts
  <2>3. r \in Elems(air) /\ r.pid \in Pid
    <3>1. air[i] \in Report
      BY <2>2 DEF AirType
    <3>2. QED
      BY <2>2, <3>1 DEF Elems, Report
  <2>4. QED
    BY <1>1, <2>3 DEF OwnBlocks
<1>2. QED
  BY <1>1 DEF OwnBlocks, IsOwn

(* What is owed is the block of a process that still holds it.              *)
LEMMA OwedHeld ==
  ASSUME HarqInv, OrderInv, ~disableHarq
  PROVE  /\ Owed \in Nat
         /\ Owed > 0 => rx # NoRx /\ rx.pid \in Elems(feedback) /\ proc[rx.pid].tb = Owed
<1>1. CASE Working /\ IsOwn(rx)
  <2>1. rx # NoRx /\ rx.pid \in Elems(feedback)
    BY <1>1 DEF Working, OrderInv, FirstInOrder
  <2>2. rx.pid \in Pid /\ proc[rx.pid].tb \in Nat
    BY <2>1, HeldFacts DEF HarqInv
  <2>3. QED
    BY <1>1, <2>1, <2>2 DEF Owed
<1>2. CASE ~(Working /\ IsOwn(rx))
  <2>1. Owed = 0
    BY <1>2 DEF Owed
  <2>2. QED
    BY <2>1
<1>3. QED
  BY <1>1, <1>2

(* handle_nr_ul_harq() takes an earlier process for failed.                 *)
LEMMA UnexpectedCovered ==
  ASSUME HarqInv, HarqInv', OrderInv, BytesInv, ~disableHarq, HarqUnexpected
  PROVE  BytesInv'
<1> DEFINE p == Head(feedback)
<1>1. /\ rx # NoRx /\ feedback # <<>> /\ p # rx.pid /\ feedback' = Tail(feedback)
      /\ Failed(p) /\ air' = Forget(p)
      /\ UNCHANGED <<disableHarq, rx, leaked>>
  BY DEF HarqUnexpected
<1>2. /\ Owed \in Nat
      /\ Owed > 0 => rx.pid \in Elems(feedback) /\ rx.pid # p /\ proc[rx.pid].tb = Owed
  BY <1>1, OwedHeld
<1>3. ASSUME ~leaked
      PROVE  /\ schedBytes' + Owed <= HeldBytes'
             /\ schedBytes = 0 => schedBytes' = 0
  <2>1. schedBytes + Owed <= HeldBytes
    BY <1>3 DEF BytesInv, Covered
  <2>2. QED
    BY <1>1, <1>2, <2>1, FailedCovered
<1>4. \A q \in Pid : proc'[q].tb = proc[q].tb
  BY <1>1, FailedKeepsBlocks
<1>5. OwnBlocks(air)'
  BY <1>1, <1>4, OwnBlocksForgotten DEF BytesInv, HarqInv
<1>6. (Working' <=> Working) /\ (IsOwn(rx)' <=> IsOwn(rx)) /\ Owed' = Owed
  <2>1. (Working' <=> Working) /\ (IsOwn(rx)' <=> IsOwn(rx))
    BY <1>1 DEF Working, IsOwn
  <2>2. Working /\ IsOwn(rx) => rx.pid \in Pid
    BY HeldFacts DEF Working, OrderInv, FirstInOrder, HarqInv
  <2>3. QED
    BY <1>1, <1>4, <2>1, <2>2 DEF Owed
<1>7. Covered'
  BY <1>1, <1>3, <1>6 DEF BytesInv, Covered
<1>8. QED
  BY <1>5, <1>7 DEF BytesInv

(* handle_nr_ul_harq() finds the reported process.                          *)
LEMMA MatchedCovered ==
  ASSUME HarqInv, HarqInv', OrderInv, BytesInv, ~disableHarq, HarqMatched
  PROVE  BytesInv'
<1> DEFINE p == Head(feedback)
<1>1. /\ rx # NoRx /\ feedback # <<>> /\ p = rx.pid /\ feedback' = Tail(feedback)
      /\ IF rx.ok THEN Finish(p) /\ UNCHANGED schedBytes ELSE Failed(p)
      /\ air' = Forget(p) /\ rx' = NoRx
      /\ UNCHANGED <<disableHarq, leaked>>
  BY DEF HarqMatched
<1>2. /\ p \in Pid /\ p \in Elems(feedback) /\ Elems(feedback') = Elems(feedback) \ {p}
      /\ p \notin Elems(retrans)
  <2>1. p \in Elems(feedback) /\ p \in Pid /\ Elems(feedback') = Elems(feedback) \ {p}
    BY <1>1, SomeElems, ElemsTail DEF HarqInv, Lists, ListTypes, ListsPartition
  <2>2. QED
    BY <2>1 DEF HarqInv, Lists, ListsPartition
<1>3. Lists /\ Lists' /\ ListTypes /\ schedBytes \in Nat
  BY DEF HarqInv, Lists, OtherTypes
<1>4. Owed' = 0 /\ ~Working'
  BY <1>1 DEF Owed, Working
<1>5. CASE rx.ok
  <2>1. Finish(p) /\ schedBytes' = schedBytes
    BY <1>1, <1>5
  <2> HIDE DEF p
  <2>2. Updated(p, Done(p)) /\ retrans' = retrans
    BY <1>2, <1>3, <2>1, FinishUpdate
  <2>3. Done(p).tb = proc[p].tb
    BY <1>2, <1>3 DEF ListTypes, Process, Done
  <2>4. \A s \in Pid : proc'[s].tb = proc[s].tb
    BY <2>2, <2>3 DEF Updated
  <2>5. Held'[p] = 0 /\ \A s \in Pid \ {p} : Held'[s] = Held[s]
    BY <1>2, <2>2, <2>4 DEF Held
  <2>6. HeldBytes' = HeldBytes + Held'[p] - Held[p]
    BY <1>2, <1>3, <2>5, HeldChanges
  <2>7. /\ HeldBytes \in Nat /\ HeldBytes' \in Nat
        /\ Held[p] = proc[p].tb /\ proc[p].tb \in Nat
    BY <1>2, <1>3, HeldFacts, HeldSoundNext
  <2>8. HeldBytes' = HeldBytes - proc[p].tb
    BY <2>5, <2>6, <2>7
  <2>9. ASSUME ~leaked PROVE schedBytes' + 0 <= HeldBytes'
    <3>1. CASE IsOwn(rx)
      <4>1. Owed = proc[p].tb
        BY <1>1, <1>5, <3>1 DEF Owed, Working, p
      <4>2. schedBytes + Owed <= HeldBytes
        BY <2>9 DEF BytesInv, Covered
      <4>3. QED
        BY <1>3, <2>1, <2>7, <2>8, <4>1, <4>2
    <3>2. CASE ~IsOwn(rx)
      <4>1. schedBytes = 0
        BY <1>1, <1>5, <2>9, <3>2 DEF BytesInv, Covered, Working
      <4>2. QED
        BY <2>1, <2>7, <4>1
    <3>3. QED
      BY <3>1, <3>2
  <2>10. OwnBlocks(air)'
    BY <1>1, <2>4, OwnBlocksForgotten DEF BytesInv, HarqInv
  <2>11. QED
    BY <1>1, <1>4, <2>9, <2>10 DEF BytesInv, Covered
<1>6. CASE ~rx.ok
  <2>1. Failed(p)
    BY <1>1, <1>6
  <2>2. \A s \in Pid : proc'[s].tb = proc[s].tb
    BY <1>1, <2>1, FailedKeepsBlocks
  <2>3. ASSUME ~leaked PROVE schedBytes' + 0 <= HeldBytes'
    <3>1. Owed = 0
      BY <1>6 DEF Owed, Working
    <3>2. schedBytes + 0 <= HeldBytes
      BY <2>3, <3>1 DEF BytesInv, Covered
    <3>3. QED
      BY <1>1, <2>1, <3>2, FailedCovered
  <2>4. OwnBlocks(air)'
    BY <1>1, <2>2, OwnBlocksForgotten DEF BytesInv, HarqInv
  <2>5. QED
    BY <1>1, <1>4, <2>3, <2>4 DEF BytesInv, Covered
<1>7. QED
  BY <1>5, <1>6

(* handle_nr_ul_harq() has taken everything off the list: the report was    *)
(* not a process's own.                                                     *)
LEMMA NoMatchCovered ==
  ASSUME HarqInv, OrderInv, BytesInv, ~disableHarq, HarqNoMatch
  PROVE  BytesInv'
<1>1. /\ rx # NoRx /\ feedback = <<>> /\ rx' = NoRx
      /\ UNCHANGED <<feedback, retrans, proc, schedBytes, air, disableHarq, leaked>>
  BY DEF HarqNoMatch, lists, phy
<1>2. HeldBytes' = HeldBytes /\ HeldBytes \in Nat /\ schedBytes \in Nat
  BY <1>1, HeldSound DEF HeldBytes, Held, HarqInv, OtherTypes
<1>3. Owed \in Nat /\ Owed' = 0 /\ ~Working'
  BY <1>1, OwedHeld DEF Owed, Working
<1>4. ASSUME ~leaked PROVE schedBytes' + 0 <= HeldBytes'
  <2>1. schedBytes + Owed <= HeldBytes
    BY <1>4 DEF BytesInv, Covered
  <2>2. QED
    BY <1>1, <1>2, <1>3, <2>1
<1>5. OwnBlocks(air)'
  BY <1>1 DEF BytesInv, OwnBlocks, IsOwn
<1>6. QED
  BY <1>1, <1>3, <1>4, <1>5 DEF BytesInv, Covered

(* A reset forgets what is held; a BSR in the rest of Msg3 restarts the     *)
(* count, and without one it is not known to be covered.                    *)
LEMMA ResetCovered ==
  ASSUME HarqInv, HarqInv', NEW reestablish \in BOOLEAN, NEW bsr \in BOOLEAN,
         RaWithCrnti(reestablish, bsr)
  PROVE  BytesInv'
<1>1. /\ rx = NoRx /\ rx' = rx
      /\ air' = [i \in 1 .. Len(air) |->
                   IF air[i].kind = "own" THEN [air[i] EXCEPT !.kind = "stale"] ELSE air[i]]
      /\ schedBytes' = (IF bsr THEN 0 ELSE schedBytes) /\ leaked' = ~bsr
  BY DEF RaWithCrnti, Unlocked
<1>2. HeldBytes' \in Nat
  BY HeldSoundNext DEF HarqInv
<1>3. Owed' = 0 /\ ~Working'
  BY <1>1 DEF Owed, Working
<1>4. Covered'
  <2>1. ~leaked' => schedBytes' + 0 <= HeldBytes'
    <3>1. 0 + 0 <= HeldBytes'
      BY <1>2
    <3>2. QED
      BY <1>1, <3>1
  <2>2. QED
    BY <1>3, <2>1 DEF Covered
<1>5. OwnBlocks(air)'
  <2>1. Len(air) \in Nat /\ \A i \in 1 .. Len(air) : air[i] \in Report
    BY DEF HarqInv, AirType
  <2>2. Len(air') = Len(air)
    BY <1>1, <2>1
  <2>3. ASSUME NEW i \in 1 .. Len(air) PROVE ~IsOwn(air'[i])
    <3>1. CASE air[i].kind = "own"
      <4>1. air'[i] = [air[i] EXCEPT !.kind = "stale"]
        BY <1>1, <3>1
      <4>2. QED
        BY <2>1, <4>1 DEF Report, IsOwn
    <3>2. CASE air[i].kind # "own"
      BY <1>1, <3>2 DEF IsOwn
    <3>3. QED
      BY <3>1, <3>2
  <2>4. \A r \in Elems(air') : ~IsOwn(r)
    BY <2>2, <2>3 DEF Elems
  <2>5. QED
    BY <2>4 DEF OwnBlocks, IsOwn
<1>6. QED
  BY <1>4, <1>5 DEF BytesInv

(* A grant-free report is no process's own.                                 *)
LEMMA GrantFreeCovered ==
  ASSUME HarqInv, BytesInv, GrantFree
  PROVE  BytesInv'
<1>1. CASE \E p \in GfPids : GfConfigure(p) \/ GfRelease(p)
  BY <1>1, BytesKept DEF GfConfigure, GfRelease, lists, phy
<1>2. ASSUME NEW p \in GfPids, NEW tb \in TbSizes, NEW k \in 0 .. MaxAir, GfOccasion(p, tb, k)
      PROVE  BytesInv'
  <2> DEFINE new == [pid |-> p, kind |-> "gf", tb |-> tb]
             before == SubSeq(air, 1, k)
             after == SubSeq(air, k + 1, Len(air))
  <2>1. /\ air' = before \o <<new>> \o after /\ k \in 0 .. Len(air)
        /\ UNCHANGED <<feedback, retrans, proc, schedBytes, disableHarq, rx, leaked>>
    BY <1>2 DEF GfOccasion, lists
  <2>2. air \in Seq(Report) /\ Len(air) \in Nat /\ k \in Nat
    BY <2>1 DEF HarqInv, AirType
  <2>3. new \in Report /\ ~IsOwn(new)
    BY GfPidsAssumption, GnbUlHarqAssumption DEF Report, Kind, IsOwn
  <2>4. before \in Seq(Report) /\ Elems(before) \subseteq Elems(air)
    <3>1. /\ before \in Seq(Report) /\ Len(before) = k
          /\ \A i \in 1 .. k : before[i] = air[i] /\ i \in 1 .. Len(air)
      BY <2>1, <2>2
    <3>2. QED
      BY <3>1 DEF Elems
  <2>5. after \in Seq(Report) /\ Elems(after) \subseteq Elems(air)
    <3>1. /\ after \in Seq(Report) /\ Len(after) = Len(air) - k
          /\ \A i \in 1 .. Len(air) - k : after[i] = air[k + i] /\ k + i \in 1 .. Len(air)
      BY <2>1, <2>2
    <3>2. QED
      BY <3>1 DEF Elems
  <2> HIDE DEF new, before, after
  <2>6. <<new>> \in Seq(Report) /\ Elems(<<new>>) = {new}
    <3>1. <<new>> \in Seq(Report) /\ Len(<<new>>) = 1 /\ <<new>>[1] = new
      BY <2>3
    <3>2. QED
      BY <3>1 DEF Elems
  <2>7. Elems(air') \subseteq Elems(air) \cup {new}
    <3> DEFINE one == <<new>>
               two == before \o one
    <3> HIDE DEF one, two
    <3>1. \A s, t \in Seq(Report) :
             s \o t \in Seq(Report) /\ Elems(s \o t) = Elems(s) \cup Elems(t)
      BY ElemsConcat
    <3>2. one \in Seq(Report) /\ Elems(one) = {new} /\ air' = two \o after
      BY <2>1, <2>6 DEF one, two
    <3>4. two \in Seq(Report) /\ Elems(two) = Elems(before) \cup {new}
      BY <2>4, <3>1, <3>2 DEF two
    <3>5. Elems(air') = Elems(two) \cup Elems(after)
      BY <2>5, <3>1, <3>2, <3>4
    <3>6. QED
      BY <2>4, <2>5, <3>4, <3>5
  <2>8. QED
    BY <2>1, <2>3, <2>7, BytesKept
<1>3. QED
  BY <1>1, <1>2 DEF GrantFree

(* Every step keeps the count covered.                                      *)
LEMMA StepCovered == HarqInv /\ HarqInv' /\ OrderInv /\ BytesInv /\ [Next]_vars => BytesInv'
<1> SUFFICES ASSUME HarqInv, HarqInv', OrderInv, BytesInv, [Next]_vars PROVE BytesInv'
  OBVIOUS
<1>1. CASE UNCHANGED vars
  BY <1>1, BytesKept DEF vars
<1>2. CASE disableHarq
  <2>1. disableHarq'
    BY <1>2 DEF Next, Scheduler, Reception, Control, GrantFree, HarqLoop, PfUlNew,
        PfUlRetransmission, RxGrantFree, RxSdu, LoseReport, HarqUnexpected, HarqMatched,
        HarqNoMatch, ConfigureBwp, RaWithCrnti, InterruptUe, MeasGap, InterruptExpires,
        GfConfigure, GfRelease, GfOccasion, vars
  <2>2. QED
    BY <2>1 DEF BytesInv
<1>3. CASE ~disableHarq /\ Next
  <2>1. CASE Scheduler
    BY <1>3, <2>1, NewBlockCovered, RetransmissionCovered DEF Scheduler
  <2>2. CASE RxGrantFree \/ LoseReport
    <3>1. /\ air # <<>> /\ air' = Tail(air)
          /\ UNCHANGED <<feedback, retrans, proc, schedBytes, disableHarq, rx, leaked>>
      BY <2>2 DEF RxGrantFree, LoseReport, lists
    <3>2. Elems(air') \subseteq Elems(air)
      BY <3>1, ElemsTail DEF HarqInv, AirType
    <3>3. QED
      BY <3>1, <3>2, BytesKept
  <2>3. CASE \E ok, bsr, lowCqi \in BOOLEAN : RxSdu(ok, bsr, lowCqi)
    BY <1>3, <2>3, ReportCovered
  <2>4. CASE HarqLoop
    BY <1>3, <2>4, UnexpectedCovered, MatchedCovered, NoMatchCovered DEF HarqLoop
  <2>5. CASE \E reestablish, bsr \in BOOLEAN : RaWithCrnti(reestablish, bsr)
    BY <2>5, ResetCovered
  <2>6. CASE \/ \E common \in BOOLEAN : ConfigureBwp(common)
             \/ \E action \in {"OUTOFSYNC", "INSYNC_RECONFIG"} : InterruptUe(action)
             \/ MeasGap \/ InterruptExpires
    <3>1. UNCHANGED <<feedback, retrans, proc, schedBytes, disableHarq, rx, leaked, air>>
      BY <2>6 DEF ConfigureBwp, InterruptUe, MeasGap, InterruptExpires, phy, lists
    <3>2. QED
      BY <3>1, BytesKept
  <2>7. CASE GrantFree
    BY <2>7, GrantFreeCovered
  <2>8. QED
    BY <1>3, <2>1, <2>2, <2>3, <2>4, <2>5, <2>6, <2>7 DEF Next, Reception, Control
<1>4. QED
  BY <1>1, <1>2, <1>3

(* sched_ul_bytes never counts a block that no process holds, but for       *)
(* random access and foreign reports: for any processes, sizes of blocks,   *)
(* rounds and losses, what is decoded, given up or reported away is taken   *)
(* off, once.                                                               *)
THEOREM BytesAlwaysCovered == Spec => []BytesCovered
<1>1. Init => BytesInv
  <2> SUFFICES ASSUME Init PROVE BytesInv
    OBVIOUS
  <2>1. HeldBytes \in Nat
    BY InitInv, HeldSound DEF HarqInv
  <2>2. Elems(air) = {} /\ schedBytes = 0 /\ rx = NoRx
    BY NoElems DEF Init
  <2>3. Owed = 0 /\ ~Working
    BY <2>2 DEF Owed, Working
  <2>4. 0 + 0 <= HeldBytes
    BY <2>1
  <2>5. QED
    BY <2>2, <2>3, <2>4 DEF BytesInv, OwnBlocks, Covered
<1>2. HarqInv /\ OrderInv /\ BytesInv => BytesCovered
  <2> SUFFICES ASSUME HarqInv, OrderInv, BytesInv, ~disableHarq, ~leaked
               PROVE  schedBytes <= HeldBytes
    BY DEF BytesCovered
  <2>1. Owed \in Nat /\ HeldBytes \in Nat /\ schedBytes \in Nat
    BY OwedHeld, HeldSound DEF HarqInv, OtherTypes
  <2>2. schedBytes + Owed <= HeldBytes
    BY DEF BytesInv, Covered
  <2>3. QED
    BY <2>1, <2>2
<1>3. Spec => []BytesInv
  BY <1>1, StepCovered, OrderHolds, HarqInvariant, PTL DEF Spec
<1>4. QED
  BY <1>2, <1>3, OrderHolds, HarqInvariant, PTL
=============================================================================
