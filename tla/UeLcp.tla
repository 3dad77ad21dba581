------------------------------- MODULE UeLcp -------------------------------
(***************************************************************************)
(* What the UE puts into a PUSCH with new data: nr_ue_get_sdu().  Room for *)
(* a BSR and a PHR is set aside; then the logical channels with Bj > 0 are *)
(* served in rounds, by priority: the first round stops at the prioritised *)
(* bit rate, and channels of equal priority get equal shares; then the BSR *)
(* that fits the rest is written.                                          *)
(*                                                                         *)
(* A step is a visit of a channel in a round or a call of fill_mac_sdu().  *)
(* RLC may give less than it is asked for.  A suspended channel is not     *)
(* selected, as one with Bj = 0 is not.  Timers of the BSR and the PHR     *)
(* decide when to report: here either may be due for any PDU.              *)
(***************************************************************************)
EXTENDS Integers, FiniteSets, Functions

CONSTANTS
  Lcs,         \* logical channels, by their LCID
  Priorities,  \* priorities they may be configured with: the smaller, the more urgent
  Pbr,         \* prioritised bit rate of each channel; infinity is UINT_MAX
  Credit,      \* what its Bj grows by in a slot
  Bucket,      \* its bucket_size
  Lcg,         \* its LCGID
  TbSizes,     \* sizes of PUSCHs
  ShortLimit,  \* 256: the subheader of a smaller SDU has two bytes, others three
  MaxRemain,   \* bound of the bytes waiting in a channel
  MaxSlots     \* bound of the slots between two updates of Bj

Lcgs == 0 .. 7

\* Every channel has a group, as the gNB configures them (nr_radio_config.c:3545, 3618),
\* and bucket_size is its bit rate times a duration (config_ue.c:861).
ASSUME UeLcpAssumption ==
  /\ Lcs \subseteq Nat /\ Lcs # {} /\ IsFiniteSet(Lcs)
  /\ Priorities # {} /\ Priorities \subseteq [Lcs -> Nat]
  /\ {Pbr, Credit, Bucket} \subseteq [Lcs -> Nat]
  /\ \A x \in Lcs : Pbr[x] = 0 => Bucket[x] = 0
  /\ Lcg \in [Lcs -> Lcgs]
  /\ TbSizes \subseteq Nat \ 0 .. 2
  /\ ShortLimit \in Nat \ 0 .. 2
  /\ MaxRemain \in Nat /\ MaxSlots \in Nat

VARIABLES
  pc,        \* "slot", "visit" the next channel, "fill" for it, PDU "done"
  priority,  \* priority of each channel
  remain,    \* LCID_buffer_remain
  bj,        \* Bj
  selected,  \* lcids_bj_pos
  todo,      \* selected channels this round has not done with
  lc,        \* the channel visited last
  first,     \* lcp_allocation_counter is 0
  free,      \* end_for_tailer - cur_ptr
  bsrLen,    \* bytes set aside for the BSR
  num,       \* num_lcids_same_priority
  count,     \* count_same_priority_lcids
  ep,        \* buflen_ep
  tot,       \* lcids_bytes_tot of lc
  status,    \* channels with lcids_data_status
  lcgBytes,  \* LCG_bytes
  got,       \* history: bytes each channel put into this PDU
  refused    \* history: channels whose RLC gave nothing, asked for something

lcVars == <<priority, remain, bj>>
lcpVars == <<selected, todo, lc, first, free, num, count, ep, tot, status>>
vars == <<pc, lcVars, lcpVars, bsrLen, lcgBytes, got, refused>>

Zero == [x \in Lcs |-> 0]
Smaller(a, b) == IF a <= b THEN a ELSE b

\* Subheaders: NR_MAC_SUBHEADER_SHORT or NR_MAC_SUBHEADER_LONG
LongHeader == 3
Header(bytes) == IF bytes < ShortLimit THEN 2 ELSE LongHeader

\* Short BSR, long BSR for n groups with data, PHR, with their subheaders
ShortBsr == 2
LongBsr(n) == n + 3
Phr == 3

WithData(bytes) == Cardinality({g \in Lcgs : bytes[g] > 0})

\* The sums of nr_update_bsr()
LcgBytes == [g \in Lcgs |-> SumFunctionOnSet(remain, {x \in Lcs : Lcg[x] = g})]

\* Mutant: priorities are not looked at
PrecedesByLcid(a, b) == a < b

\* The order of lc_ordered_list: qsort() with lcid_cmp(), equals in the order of their LCID
Precedes(a, b) == priority[a] < priority[b] \/ (priority[a] = priority[b] /\ a < b)

Init ==
  /\ pc = "slot"
  /\ priority \in Priorities /\ remain = Zero /\ bj = Zero
  /\ selected = {} /\ todo = {} /\ lc = 0 /\ first = TRUE
  /\ free = 0 /\ num = 0 /\ count = 0 /\ ep = 0 /\ tot = 0 /\ status = Lcs
  /\ bsrLen = 0 /\ lcgBytes = [g \in Lcgs |-> 0] /\ got = Zero /\ refused = {}

----------------------------------------------------------------------------
(* Between two PDUs.                                                        *)

\* The end of nr_ue_ul_scheduler().  min(bj, bucketSize_max) compares as unsigned: a
\* negative Bj becomes a full bucket.
UpdateBj(slots) ==
  /\ pc = "slot"
  /\ bj' = [x \in Lcs |->
              LET more == bj[x] + Credit[x] * slots
              IN  IF more \in 0 .. Bucket[x] THEN more ELSE Bucket[x]]
  /\ UNCHANGED <<pc, priority, remain, lcpVars, bsrLen, lcgBytes, got, refused>>

\* nr_update_rlc_buffers_status(): an empty buffer is not noted
ReadStatus ==
  /\ pc = "slot"
  /\ remain' \in [Lcs -> 0 .. MaxRemain]
  /\ \A x \in Lcs : remain'[x] = 0 => remain[x] = 0
  /\ UNCHANGED <<pc, priority, bj, lcpVars, bsrLen, lcgBytes, got, refused>>

\* configure_logicalChannelBearer() and its qsort()
Configure ==
  /\ pc = "slot"
  /\ priority' \in Priorities
  /\ UNCHANGED <<pc, remain, bj, lcpVars, bsrLen, lcgBytes, got, refused>>

----------------------------------------------------------------------------
(* A PDU.                                                                   *)

\* nr_ue_get_sdu_mac_ce_pre(); nr_update_bsr() has triggered a regular BSR
BsrRoom(size, n, periodic) ==
  IF n > 1 /\ size >= LongBsr(n) THEN LongBsr(n)
  ELSE IF n > 0 \/ periodic THEN ShortBsr ELSE 0

PhrRoom(size, reporting) == IF reporting /\ size >= Phr THEN Phr ELSE 0

\* nr_ue_get_sdu() up to select_logical_channels()
GetSdu(size, periodic, reporting) ==
  /\ pc = "slot"
  /\ lcgBytes' = LcgBytes
  /\ bsrLen' = BsrRoom(size, WithData(LcgBytes), periodic)
  /\ free' = size - bsrLen' - PhrRoom(size - bsrLen', reporting)
  /\ selected' = {x \in Lcs : bj[x] > 0}
  /\ todo' = selected'
  /\ pc' = "visit"
  /\ UNCHANGED <<lcVars, lc, first, num, count, ep, tot, status, got, refused>>

\* Mutant: the headers of the group are not taken off
ShareWithHeaders(n) == free \div n

\* The equal share of each of n channels
Share(n) == IF free < n * LongHeader THEN 0 ELSE (free - n * LongHeader) \div n

\* get_count_lcids_same_priority() of channel x, those before it being done with
SamePriority(x) == Cardinality({y \in todo : priority[y] = priority[x]})

\* Channel x in the loop over lcids_bj_pos
Visit(x) ==
  /\ pc = "visit"
  /\ x \in todo /\ \A y \in todo : ~Precedes(y, x)
  /\ lc' = x
  /\ tot' = 0
  /\ IF x \in status
     THEN /\ num' = IF num = 0 THEN SamePriority(x) ELSE num
          /\ count' = IF num = 0 THEN SamePriority(x) ELSE count
          /\ ep' = IF num' = count' THEN Share(count') ELSE ep
     ELSE UNCHANGED <<num, count, ep>>
  /\ IF x \in status /\ free > 0
     THEN pc' = "fill" /\ UNCHANGED todo
     ELSE todo' = todo \ {x} /\ UNCHANGED pc
  /\ UNCHANGED <<lcVars, selected, first, free, status, bsrLen, lcgBytes, got, refused>>

\* What get_num_bytes_to_reqlc() asks for: what fits after the longest header, how far
\* this round goes for the channel, and what it has
Room == free - Header(free)
Target == IF count > 1 THEN Smaller(ep, Pbr[lc]) ELSE Pbr[lc]
\* Mutant: the first round, too, gives a channel all it can
LimitWithoutRate == IF count > 1 THEN ep - tot ELSE Room

Limit ==
  IF first THEN Smaller(IF count > 1 THEN ep ELSE Room, Target - tot)
  ELSE IF count > 1 THEN ep - tot ELSE Room
Request == Smaller(Limit, remain[lc])

\* The loop of fill_mac_sdu() for a channel ends
Leave == pc' = "visit" /\ todo' = todo \ {lc}

\* fill_mac_sdu() without room for a header and a byte
NoRoom ==
  /\ pc = "fill" /\ free < LongHeader
  /\ Leave
  /\ UNCHANGED <<lcVars, selected, lc, first, free, num, count, ep, tot, status,
                 bsrLen, lcgBytes, got, refused>>

\* Mutant: the channel still counts as one with data
NoSduForgets ==
  /\ pc = "fill" /\ free >= LongHeader
  /\ num' = num - 1
  /\ refused' = IF Request > 0 THEN refused \cup {lc} ELSE refused
  /\ Leave
  /\ UNCHANGED <<lcVars, selected, lc, first, free, count, ep, tot, status, bsrLen,
                 lcgBytes, got>>

\* fill_mac_sdu(), RLC gives nothing
NoSdu ==
  /\ pc = "fill" /\ free >= LongHeader
  /\ status' = status \ {lc}
  /\ num' = num - 1
  /\ refused' = IF Request > 0 THEN refused \cup {lc} ELSE refused
  /\ Leave
  /\ UNCHANGED <<lcVars, selected, lc, first, free, count, ep, tot, bsrLen, lcgBytes, got>>

\* The channel has all that this round has for it
Served == (first /\ tot' >= Target) \/ (count > 1 /\ tot' >= ep)

\* fill_mac_sdu(), RLC gives an SDU
Sdu(bytes) ==
  /\ pc = "fill" /\ free >= LongHeader
  /\ bytes \in 1 .. Request
  /\ free' = free - Header(Request) - bytes
  /\ bj' = [bj EXCEPT ![lc] = @ - bytes]
  /\ remain' = [remain EXCEPT ![lc] = @ - bytes]
  /\ lcgBytes' = [lcgBytes EXCEPT ![Lcg[lc]] = @ - bytes]
  /\ tot' = tot + bytes + (IF count > 1 THEN LongHeader ELSE 0)
  /\ num' = IF Served THEN num - 1 ELSE num
  /\ IF Served \/ free' = 0 THEN Leave ELSE UNCHANGED <<pc, todo>>
  /\ got' = [got EXCEPT ![lc] = @ + bytes]
  /\ UNCHANGED <<priority, selected, lc, first, count, ep, status, bsrLen, refused>>

\* Mutant: num_lcids_same_priority is declared outside the rounds' loop
EndRoundKeepsNum ==
  /\ pc = "visit" /\ todo = {}
  /\ first' = FALSE
  /\ count' = 0
  /\ IF free > LongHeader /\ selected \cap status # {}
     THEN todo' = selected /\ UNCHANGED pc
     ELSE pc' = "done" /\ UNCHANGED todo
  /\ UNCHANGED <<lcVars, selected, lc, free, num, ep, tot, status, bsrLen, lcgBytes, got,
                 refused>>

\* Mutant: the rounds end as soon as one channel has no data
EndRoundAny ==
  /\ pc = "visit" /\ todo = {}
  /\ first' = FALSE
  /\ num' = 0 /\ count' = 0
  /\ IF free > LongHeader /\ selected \subseteq status
     THEN todo' = selected /\ UNCHANGED pc
     ELSE pc' = "done" /\ UNCHANGED todo
  /\ UNCHANGED <<lcVars, selected, lc, free, ep, tot, status, bsrLen, lcgBytes, got, refused>>

\* The rounds end when no SDU fits or no selected channel has data
EndRound ==
  /\ pc = "visit" /\ todo = {}
  /\ first' = FALSE
  /\ num' = 0 /\ count' = 0
  /\ IF free > LongHeader /\ selected \cap status # {}
     THEN todo' = selected /\ UNCHANGED pc
     ELSE pc' = "done" /\ UNCHANGED todo
  /\ UNCHANGED <<lcVars, selected, lc, free, ep, tot, status, bsrLen, lcgBytes, got, refused>>

\* Mutant: the short BSR must leave a byte of padding
BsrTypeNotFull(padding, n) ==
  CASE n < 2 /\ padding > ShortBsr -> "short"
    [] n >= 2 /\ padding >= LongBsr(n) -> "long"
    [] n >= 2 /\ padding = ShortBsr -> "short_trunc"
    [] n >= 2 /\ padding > ShortBsr /\ padding < LongBsr(n) -> "long_trunc"
    [] OTHER -> "none"

\* nr_ue_get_sdu_mac_ce_post(), with so much padding and n groups with data
BsrType(padding, n) ==
  CASE n < 2 /\ padding >= ShortBsr -> "short"
    [] n >= 2 /\ padding >= LongBsr(n) -> "long"
    [] n >= 2 /\ padding = ShortBsr -> "short_trunc"
    [] n >= 2 /\ padding > ShortBsr /\ padding < LongBsr(n) -> "long_trunc"
    [] OTHER -> "none"

\* The group of the most urgent channel with data
FirstLcg ==
  LET data == {x \in Lcs : remain[x] > 0}
  IN  IF data = {} THEN 0 ELSE Lcg[CHOOSE x \in data : \A y \in data : ~Precedes(y, x)]

\* The groups nr_write_ce_ulsch_pdu() reports: a truncated long BSR ends with the PDU
Reported(type, padding) ==
  CASE type \in {"short", "short_trunc"} -> {FirstLcg}
    [] type \in {"long", "long_trunc"} ->
         {g \in Lcgs : Cardinality({h \in 0 .. g : lcgBytes[h] > 0}) <= padding - LongBsr(0)}
    [] type = "none" -> {}

\* The BSR of the PDU, with the bytes it reports of each group
Bsr ==
  LET type == BsrType(free + bsrLen, WithData(lcgBytes))
      reported == Reported(type, free + bsrLen)
  IN  [type |-> type, bytes |-> [g \in Lcgs |-> IF g \in reported THEN lcgBytes[g] ELSE 0]]

\* The PDU goes to the PHY and nr_ue_get_sdu() returns
Return ==
  /\ pc = "done"
  /\ pc' = "slot"
  /\ selected' = {} /\ todo' = {} /\ lc' = 0 /\ first' = TRUE
  /\ free' = 0 /\ num' = 0 /\ count' = 0 /\ ep' = 0 /\ tot' = 0 /\ status' = Lcs
  /\ bsrLen' = 0 /\ lcgBytes' = [g \in Lcgs |-> 0] /\ got' = Zero /\ refused' = {}
  /\ UNCHANGED lcVars

Loop ==
  \/ \E x \in Lcs : Visit(x)
  \/ NoRoom \/ NoSdu \/ (\E bytes \in 1 .. MaxRemain : Sdu(bytes))
  \/ EndRound \/ Return

Next ==
  \/ \E slots \in 1 .. MaxSlots : UpdateBj(slots)
  \/ ReadStatus \/ Configure
  \/ \E size \in TbSizes, periodic, reporting \in BOOLEAN : GetSdu(size, periodic, reporting)
  \/ Loop

Spec == Init /\ [][Next]_vars
FairSpec == Spec /\ WF_vars(Loop)

----------------------------------------------------------------------------
(* Properties.                                                              *)

\* The channels served as a group with x, and those that have none
Peers(x) == {y \in selected : priority[y] = priority[x]}
Alone(x) == Peers(x) \subseteq {x}

\* A channel that may be served and whose RLC has not refused this PDU
Waits(x) == x \in selected /\ remain[x] > 0 /\ x \notin refused

\* Types.  num_lcids_same_priority is unsigned and lowered in two places, so that it is
\* between 0 and the size of the group is more than its type.
TypeOK ==
  /\ pc \in {"slot", "visit", "fill", "done"}
  /\ priority \in Priorities
  /\ remain \in [Lcs -> Nat] /\ bj \in [Lcs -> Int]
  /\ todo \subseteq selected /\ selected \subseteq Lcs /\ lc \in Nat
  /\ first \in BOOLEAN
  /\ {free, bsrLen, ep, tot, count} \subseteq Nat /\ num \in 0 .. count
  /\ status \subseteq Lcs
  /\ lcgBytes \in [Lcgs -> Nat]
  /\ got \in [Lcs -> Nat] /\ refused \subseteq Lcs

\* What RLC is asked for is never negative and fits the PDU with its header: the
\* AssertFatal() of get_num_bytes_to_reqlc() never fails, in any round, whatever the
\* earlier channels of a group took and however stale the size of the group is; and
\* buflen_remain_ep - bytes_read_fromlc[] (unsigned) does not wrap.
RequestFits ==
  pc = "fill" /\ free >= LongHeader =>
    /\ Request \in 0 .. Room
    /\ first => tot <= Target
    /\ ~first /\ count > 1 => tot <= ep

\* A channel gets more than its prioritised bit rate only when every channel without a
\* peer that waits has been served: the first round is over before the rest is given out.
RateBeforeRest ==
  pc = "done" /\ (\E x \in Lcs : got[x] > Pbr[x]) =>
    \A x \in Lcs : Alone(x) /\ Waits(x) => got[x] > 0

\* A PDU leaves data waiting only when it is full up to what rounding an equal share
\* loses: less room than a header and a byte for each channel of some group.
FullOrEmpty ==
  pc = "done" /\ (\E x \in Lcs : Waits(x)) =>
    \E x \in selected : free < (LongHeader + 1) * Cardinality(Peers(x))

\* The room set aside before the SDUs serves the BSR written after them, though the
\* number of groups with data changed in between: there is one, it is not truncated when
\* there was room for two groups, and a BSR that is not truncated reports of every group
\* just what is left in its channels.
BsrTells ==
  pc = "done" =>
    /\ bsrLen > 0 => Bsr.type # "none"
    /\ bsrLen >= LongBsr(2) => Bsr.type \in {"short", "long"}
    /\ Bsr.type \in {"short", "long"} => Bsr.bytes = LcgBytes

\* After the first round no channel takes a byte while a more urgent one waits (when
\* none of those above has a peer: a group may leave some of its share).
UrgentFirst ==
  [][\A hi, lo \in Lcs :
       /\ pc = "fill" /\ ~first /\ got'[lo] > got[lo]
       /\ priority[hi] < priority[lo]
       /\ \A x \in selected : priority[x] < priority[lo] => Alone(x)
       => ~Waits(hi)]_vars

\* The loop over the rounds ends and the PDU is sent, whatever RLC gives.
PduEnds == [](pc = "visit" => <>(pc = "slot"))
=============================================================================
