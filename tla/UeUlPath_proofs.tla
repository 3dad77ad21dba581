--------------------------- MODULE UeUlPath_proofs --------------------------
(***************************************************************************)
(* Proofs about UeUlPath: what the PHY gets in a slot is what was filed    *)
(* for it, data taken from RLC is on the air, and scheduling requests are  *)
(* pending for data only.                                                  *)
(***************************************************************************)
EXTENDS UeUlPath, Lemmas_proofs, FiniteSetTheorems

----------------------------------------------------------------------------
(* The invariant.                                                           *)

\* The slots PDUs may be filed for: from the uplink thread's on, less than a frame
Ahead(d) == (now + d) % Cycle
Coming == {Ahead(d) : d \in (IF pc = "end" THEN 1 ELSE 0) .. SlotsPerFrame - 1}

ListTypes ==
  /\ list \in [UlSlots -> [at : 0 .. Cycle - 1, pdus : Seq(Pdu)]]
  /\ \A s \in UlSlots : Len(list[s].pdus) <= MaxPdus
  /\ promised \in [0 .. Cycle - 1 -> Nat]
  /\ held \subseteq UlSlots

\* A list is labelled with one of its slots, and so are its PDUs
Filed == \A s \in UlSlots : /\ SlotOf(list[s].at) = s
                            /\ \A i \in 1 .. Len(list[s].pdus) :
                                 list[s].pdus[i].for = list[s].at

\* What was promised for a slot is what its list holds, unless that is full
Counted(at) ==
  LET s == SlotOf(at)
  IN  /\ list[s].pdus # <<>> /\ list[s].at = at => promised[at] = Len(list[s].pdus) \/ Full(s)
      /\ list[s].pdus = <<>> \/ list[s].at # at => promised[at] = 0
Watched == {at \in 0 .. Cycle - 1 : SlotOf(at) \in UlSlots \ held}
Counts == \A at \in Watched : (at = now => ~upset \/ pc = "end") => Counted(at)
Promises == \A at \in Watched : promised[at] # 0 => at \in Coming

ListInv == ListTypes /\ Filed /\ Counts /\ Promises

\* The PUSCHs that carry what was taken from RLC
Carrying(pdus) == {i \in 1 .. Len(pdus) : pdus[i].kind = "pusch" /\ pdus[i].new /\ pdus[i].filled}

\* Where the uplink thread is in the slot, what it took from RLC and what it has sent
SlotTypes ==
  /\ now \in 0 .. Cycle - 1
  /\ lead \in 1 .. MaxLead
  /\ pc \in {"start", "srs", "fill", "pucch", "phy", "end"}
  /\ state \in {"connected", "preamble", "rar", "resolution"}
  /\ ta \in BOOLEAN /\ gf \in BOOLEAN /\ upset \in BOOLEAN
  /\ pulled \in Nat
  /\ sent \in Seq(Pdu)
InSlot ==
  /\ pc # "start" => Slot \in UlSlots
  /\ pc \in {"pucch", "phy"} => ~Stale(Slot, now) /\ Slot \notin held
  /\ \A i \in 1 .. Len(sent) : sent[i].for = now
Carried ==
  /\ pc \in {"start", "srs", "fill"} => upset \/ pulled = 0
  /\ pc \in {"pucch", "phy"} => upset \/ pulled <= Cardinality(Carrying(Mine))
  /\ pc = "end" => upset \/ pulled <= Cardinality(Carrying(sent))

SlotInv == SlotTypes /\ InSlot /\ Carried

\* SRs count what was asked; the MAC believes no more of RLC than it has
SrInv ==
  /\ SrTypeOK
  /\ sr.counter <= asked
  /\ withdrawn \/ remain <= rlc

\* An SR waits for data, or for the end of the slot that took the last of it: with a
\* dynamic PUSCH, or with a grant-free one that left no PUSCH in the list
NoPuschLeft == /\ ~Stale(Slot, now) /\ Len(Mine) <= 1
               /\ \A i \in 1 .. Len(Mine) : Mine[i].kind # "pusch"
Waits ==
  sr.pending =>
    \/ remain > 0
    \/ state = "connected" /\ pc \in {"pucch", "phy", "end"}
    \/ state = "connected" /\ pc = "srs" /\ Mine = <<>>
    \/ state = "connected" /\ pc = "fill" /\ NoPuschLeft

PathInv == ListInv /\ SlotInv /\ SrInv /\ Waits

----------------------------------------------------------------------------
(* Slots.                                                                   *)

LEMMA Constants ==
  /\ SlotsPerFrame \in Nat \ {0} /\ Frames \in Nat \ {0} /\ Rx2Tx \in Nat \ {0}
  /\ MaxLead \in Nat \ {0} /\ MaxPdus \in Nat /\ MaxPdus > 1 /\ GfPeriod \in Nat \ {0}
  /\ UlSlots \subseteq 0 .. SlotsPerFrame - 1 /\ PrachSlots \subseteq UlSlots
  /\ \A k \in K2 : k \in Nat /\ k >= Rx2Tx /\ k - Rx2Tx + MaxLead - 1 < SlotsPerFrame
  /\ Cycle \in Nat \ {0} /\ Cycle = SlotsPerFrame * Frames /\ SlotsPerFrame <= Cycle
<1>1. /\ SlotsPerFrame \in Nat \ {0} /\ Frames \in Nat \ {0}
      /\ \A k \in K2 : k \in Nat /\ k >= Rx2Tx /\ k - Rx2Tx + MaxLead - 1 < SlotsPerFrame
  BY UeUlPathAssumption, LeadAssumption
<1>2. \A a, b \in Nat \ {0} : a * b \in Nat \ {0} /\ a * b = b * a /\ b <= a * b
  <2>1. ASSUME NEW a \in Nat \ {0}, NEW b \in Nat \ {0}
        PROVE  a * b \in Nat \ {0} /\ a * b = b * a /\ b <= a * b
    <3>1. PICK c \in Nat : a = c + 1
      <4>1. a - 1 \in Nat /\ a = (a - 1) + 1
        OBVIOUS
      <4>2. QED
        BY <4>1
    <3>2. a * b = c * b + b /\ c * b \in Nat
      BY <3>1
    <3>3. a * b = b * a
      OBVIOUS
    <3>4. QED
      BY <3>2, <3>3
  <2>2. QED
    BY <2>1
<1>3. Cycle \in Nat \ {0} /\ Cycle = SlotsPerFrame * Frames /\ SlotsPerFrame <= Cycle
  BY <1>1, <1>2 DEF Cycle
<1>4. QED
  BY <1>1, <1>3, UeUlPathAssumption

\* A slot within a frame from now
LEMMA AheadFacts ==
  ASSUME now \in 0 .. Cycle - 1
  PROVE  /\ \A d \in Nat : Ahead(d) \in 0 .. Cycle - 1
                           /\ SlotOf(Ahead(d)) = (now + d) % SlotsPerFrame
         /\ Ahead(0) = now /\ Coming \subseteq 0 .. Cycle - 1 /\ (pc # "end" => now \in Coming)
<1>1. \A d \in Nat : Ahead(d) \in 0 .. Cycle - 1
  <2>1. ASSUME NEW d \in Nat PROVE Ahead(d) \in 0 .. Cycle - 1
    <3>1. now + d \in Int /\ Cycle \in Nat \ {0}
      BY Constants
    <3>2. QED
      BY <3>1, ModParts DEF Ahead
  <2>2. QED
    BY <2>1
<1>2. ASSUME NEW d \in Nat PROVE SlotOf(Ahead(d)) = (now + d) % SlotsPerFrame
  <2>1. now + d \in Int
    BY Constants
  <2>2. QED
    BY <2>1, Constants, ModMod DEF Ahead, SlotOf
<1>3. Ahead(0) = now
  <2>1. now = Cycle * 0 + now /\ now \in Int /\ now + 0 = now
    BY Constants
  <2>2. now % Cycle = now
    BY <2>1, Constants, ModUnique
  <2>3. QED
    BY <2>1, <2>2 DEF Ahead
<1>4. Coming \subseteq 0 .. Cycle - 1
  BY <1>1, Constants DEF Coming
<1>5. pc # "end" => now \in Coming
  <2>1. 0 \in 0 .. SlotsPerFrame - 1
    BY Constants
  <2>2. QED
    BY <1>3, <2>1 DEF Coming
<1>6. QED
  BY <1>1, <1>2, <1>3, <1>4, <1>5

\* One slot of those to come per list
LEMMA OneComing ==
  ASSUME now \in 0 .. Cycle - 1, NEW a \in Coming, NEW b \in Coming, SlotOf(a) = SlotOf(b)
  PROVE  a = b
<1>1. PICK d \in (IF pc = "end" THEN 1 ELSE 0) .. SlotsPerFrame - 1 : a = Ahead(d)
  BY DEF Coming
<1>2. PICK e \in (IF pc = "end" THEN 1 ELSE 0) .. SlotsPerFrame - 1 : b = Ahead(e)
  BY DEF Coming
<1>3. d \in Nat /\ e \in Nat /\ d < SlotsPerFrame /\ e < SlotsPerFrame
  BY <1>1, <1>2, Constants
<1>4. (now + d) % SlotsPerFrame = (now + e) % SlotsPerFrame
  BY <1>1, <1>2, <1>3, AheadFacts
<1>5. /\ now + d \in Int /\ now + e \in Int
      /\ (now + d) - (now + e) < SlotsPerFrame /\ (now + e) - (now + d) < SlotsPerFrame
  BY <1>3, Constants
<1>6. now + d = now + e
  BY <1>4, <1>5, Constants, ModSame
<1>7. d = e
  BY <1>3, <1>6, Constants
<1>8. QED
  BY <1>1, <1>2, <1>7

\* The next slot: what is still to come stays to come
LEMMA NextComing ==
  ASSUME now \in 0 .. Cycle - 1, now' = (now + 1) % Cycle, pc' = "start",
         NEW a \in Coming, a # now
  PROVE  now' \in 0 .. Cycle - 1 /\ a \in Coming'
<1>1. PICK d \in (IF pc = "end" THEN 1 ELSE 0) .. SlotsPerFrame - 1 : a = Ahead(d)
  BY DEF Coming
<1>2. d # 0
  BY <1>1, AheadFacts
<1>3. d - 1 \in 0 .. SlotsPerFrame - 1 /\ d - 1 \in Int /\ now + 1 \in Int
  BY <1>1, <1>2, Constants
<1>4. (((now + 1) % Cycle) + (d - 1)) % Cycle = ((now + 1) + (d - 1)) % Cycle
  BY <1>3, Constants, ModSum
<1>5. (now + 1) + (d - 1) = now + d
  BY <1>1, <1>3, Constants
<1>6. (now' + (d - 1)) % Cycle = a
  BY <1>1, <1>4, <1>5 DEF Ahead
<1>7. a \in Coming'
  BY <1>3, <1>6 DEF Coming, Ahead
<1>8. now' \in 0 .. Cycle - 1
  BY <1>3, Constants, ModParts
<1>9. QED
  BY <1>7, <1>8

----------------------------------------------------------------------------
(* The lists.                                                               *)

LEMMA PduTypes ==
  ASSUME ListTypes
  PROVE  \A s \in UlSlots : /\ list[s] \in [at : 0 .. Cycle - 1, pdus : Seq(Pdu)]
                            /\ list[s].at \in 0 .. Cycle - 1 /\ list[s].pdus \in Seq(Pdu)
                            /\ Len(list[s].pdus) \in Nat /\ Len(list[s].pdus) <= MaxPdus
                            /\ list[s].pdus = <<>> <=> Len(list[s].pdus) = 0
  BY DEF ListTypes

LEMMA MakeTypes ==
  ASSUME NEW kind \in {"pusch", "srs", "pucch", "prach"}, NEW at \in 0 .. Cycle - 1,
         NEW new \in BOOLEAN
  PROVE  /\ Make(kind, at, new) \in Pdu /\ Make(kind, at, new).for = at
         /\ Make(kind, at, new).kind = kind
  BY DEF Make, Pdu

\* What lockGet_ul_config() finds in the list
Fresh(s, at) == IF Stale(s, at) THEN <<>> ELSE list[s].pdus

LEMMA FreshFacts ==
  ASSUME ListInv, NEW at \in 0 .. Cycle - 1, NEW s \in UlSlots, s = SlotOf(at)
  PROVE  /\ Fresh(s, at) \in Seq(Pdu) /\ Len(Fresh(s, at)) \in Nat
         /\ \A i \in 1 .. Len(Fresh(s, at)) : Fresh(s, at)[i].for = at
         /\ Accepts(at) => Len(Fresh(s, at)) < MaxPdus
         /\ ~Accepts(at) => Fresh(s, at) = list[s].pdus /\ Full(s)
<1>1. /\ list[s].pdus \in Seq(Pdu) /\ Len(list[s].pdus) \in Nat
      /\ list[s].pdus = <<>> <=> Len(list[s].pdus) = 0
      /\ \A i \in 1 .. Len(list[s].pdus) : list[s].pdus[i].for = list[s].at
  BY PduTypes DEF ListInv, Filed
<1>2. Accepts(at) <=> Stale(s, at) \/ ~Full(s)
  BY DEF Accepts
<1>3. CASE Stale(s, at)
  <2>1. Fresh(s, at) = <<>> /\ Accepts(at)
    BY <1>2, <1>3 DEF Fresh
  <2>2. Len(Fresh(s, at)) = 0 /\ Fresh(s, at) \in Seq(Pdu)
    BY <2>1
  <2>3. QED
    BY <2>1, <2>2, Constants
<1>4. CASE ~Stale(s, at)
  <2>1. Fresh(s, at) = list[s].pdus /\ (Accepts(at) <=> ~Full(s))
    BY <1>2, <1>4 DEF Fresh
  <2>2. \A i \in 1 .. Len(Fresh(s, at)) : Fresh(s, at)[i].for = at
    <3>1. CASE list[s].at = at
      BY <1>1, <2>1, <3>1
    <3>2. CASE list[s].pdus = <<>>
      BY <1>1, <2>1, <3>2
    <3>3. QED
      BY <1>4, <3>1, <3>2 DEF Stale
  <2>3. Full(s) <=> Len(list[s].pdus) >= MaxPdus
    BY DEF Full
  <2>4. QED
    BY <1>1, <2>1, <2>2, <2>3, Constants
<1>5. QED
  BY <1>3, <1>4

\* lockGet_ul_config() for the slot at
LEMMA LockGetFacts ==
  ASSUME ListInv, NEW at \in 0 .. Cycle - 1, NEW s \in UlSlots, s = SlotOf(at),
         NEW pdu \in Pdu, pdu.for = at, LockGet(at, pdu)
  PROVE  /\ s \notin held /\ (held' = held => ListTypes')
         /\ list'[s].at = at /\ list'[s].pdus # <<>>
         /\ \A t \in UlSlots : t # s => list'[t] = list[t]
         /\ \/ /\ Accepts(at) /\ list'[s].pdus = Append(Fresh(s, at), pdu)
               /\ promised'[at] = promised[at] + 1
            \/ /\ ~Accepts(at) /\ list'[s].pdus = list[s].pdus
               /\ list[s].pdus = Fresh(s, at) /\ Full(s)
               /\ promised'[at] = promised[at]
         /\ \A i \in 1 .. Len(list'[s].pdus) : list'[s].pdus[i].for = at
         /\ \A b \in 0 .. Cycle - 1 : b # at => promised'[b] = promised[b]
<1> DEFINE fresh == Fresh(s, at)
           new == IF Accepts(at) THEN Append(fresh, pdu) ELSE fresh
<1>1. /\ list[s].at \in 0 .. Cycle - 1 /\ list[s].pdus \in Seq(Pdu)
      /\ Len(list[s].pdus) \in Nat /\ Len(list[s].pdus) <= MaxPdus
      /\ list[s].pdus = <<>> <=> Len(list[s].pdus) = 0
      /\ \A i \in 1 .. Len(list[s].pdus) : list[s].pdus[i].for = list[s].at
  BY PduTypes DEF ListInv, Filed
<1>2. /\ s \notin held
      /\ list' = [list EXCEPT ![s] = [at |-> at, pdus |-> new]]
      /\ promised' = [promised EXCEPT ![at] = IF Accepts(at) THEN @ + 1 ELSE @]
  BY DEF LockGet, Fresh
<1>4. Full(s) <=> Len(list[s].pdus) >= MaxPdus
  BY DEF Full
<1>6. /\ fresh \in Seq(Pdu) /\ Len(fresh) \in Nat /\ \A i \in 1 .. Len(fresh) : fresh[i].for = at
      /\ Accepts(at) => Len(fresh) < MaxPdus
      /\ ~Accepts(at) => fresh = list[s].pdus /\ Full(s)
  BY FreshFacts
<1> HIDE DEF fresh
<1>7. /\ new \in Seq(Pdu) /\ Len(new) \in Nat /\ Len(new) <= MaxPdus /\ new # <<>>
      /\ \A i \in 1 .. Len(new) : new[i].for = at
  <2>1. CASE Accepts(at)
    <3>1. new = Append(fresh, pdu)
      BY <2>1
    <3>2. /\ Append(fresh, pdu) \in Seq(Pdu) /\ Len(Append(fresh, pdu)) = Len(fresh) + 1
          /\ \A i \in 1 .. Len(fresh) : Append(fresh, pdu)[i] = fresh[i]
          /\ Append(fresh, pdu)[Len(fresh) + 1] = pdu
      BY <1>6
    <3>3. \A i \in 1 .. Len(fresh) + 1 : i \in 1 .. Len(fresh) \/ i = Len(fresh) + 1
      BY <1>6
    <3> DEFINE q == Append(fresh, pdu)
    <3>4. \A i \in 1 .. Len(fresh) + 1 : q[i].for = at
      BY <1>6, <3>2, <3>3
    <3>5. Len(q) \in Nat /\ Len(q) <= MaxPdus
      BY <1>6, <2>1, <3>2, Constants
    <3>6. q # <<>>
      BY <1>6, <3>2
    <3>7. q \in Seq(Pdu) /\ \A i \in 1 .. Len(q) : q[i].for = at
      BY <3>2, <3>4
    <3>8. new = q
      BY <3>1
    <3> HIDE DEF q, new
    <3>9. QED
      BY <3>5, <3>6, <3>7, <3>8, Zenon
  <2>2. CASE ~Accepts(at)
    <3>1. new = list[s].pdus /\ new = fresh /\ Len(new) >= MaxPdus
      BY <1>4, <1>6, <2>2
    <3>2. QED
      BY <1>1, <1>6, <3>1, Constants
  <2>3. QED
    BY <2>1, <2>2
<1>8. /\ s \in UlSlots /\ s \in DOMAIN list /\ DOMAIN list = UlSlots
      /\ promised \in [0 .. Cycle - 1 -> Nat]
      /\ list \in [UlSlots -> [at : 0 .. Cycle - 1, pdus : Seq(Pdu)]]
  BY DEF ListInv, ListTypes
<1>9. \/ new = Append(fresh, pdu) /\ Accepts(at)
      \/ new = fresh /\ fresh = list[s].pdus /\ Full(s) /\ ~Accepts(at)
  BY <1>6
<1> HIDE DEF new
<1>10. /\ list'[s].at = at /\ list'[s].pdus = new
       /\ \A t \in UlSlots : t # s => list'[t] = list[t]
       /\ list' \in [UlSlots -> [at : 0 .. Cycle - 1, pdus : Seq(Pdu)]]
  BY <1>2, <1>7, <1>8
<1>11. /\ promised' \in [0 .. Cycle - 1 -> Nat]
       /\ \A b \in 0 .. Cycle - 1 : b # at => promised'[b] = promised[b]
       /\ Accepts(at) => promised'[at] = promised[at] + 1
       /\ ~Accepts(at) => promised'[at] = promised[at]
  BY <1>2, <1>8
<1>12. held' = held => ListTypes'
  <2>1. \A t \in UlSlots : Len(list'[t].pdus) <= MaxPdus
    BY <1>7, <1>10, PduTypes DEF ListInv
  <2>2. QED
    BY <1>10, <1>11, <2>1 DEF ListInv, ListTypes
<1>13. QED
  BY <1>2, <1>7, <1>9, <1>10, <1>11, <1>12 DEF fresh

(* lockGet_ul_config() for a slot to come keeps the account.                *)
LEMMA LockGetKeeps ==
  ASSUME ListInv, SlotTypes, NEW at \in Coming, SlotOf(at) \in UlSlots,
         NEW pdu \in Pdu, pdu.for = at, LockGet(at, pdu),
         now' = now, held' = held, upset' = upset, pc' = "end" <=> pc = "end"
  PROVE  ListInv'
<1> DEFINE s == SlotOf(at)
<1>1. now \in 0 .. Cycle - 1 /\ at \in 0 .. Cycle - 1 /\ Coming' = Coming
  BY AheadFacts DEF SlotTypes, Coming, Ahead
<1>2. /\ ListTypes' /\ s \notin held
      /\ list'[s].at = at /\ list'[s].pdus # <<>>
      /\ \A t \in UlSlots : t # s => list'[t] = list[t]
      /\ \A i \in 1 .. Len(list'[s].pdus) : list'[s].pdus[i].for = at
      /\ \A b \in 0 .. Cycle - 1 : b # at => promised'[b] = promised[b]
  BY <1>1, LockGetFacts
<1>3. Filed'
  BY <1>2 DEF ListInv, Filed
<1>4. Promises'
  BY <1>1, <1>2 DEF ListInv, Promises, Watched
<1>5. \A b \in Watched : b # at /\ SlotOf(b) = s => promised[b] = 0
  BY <1>1, OneComing DEF ListInv, Promises
<1>6. ASSUME NEW b \in Watched', b = now' => ~upset' \/ pc' = "end" PROVE Counted(b)'
  <2>1. b \in Watched /\ b \in 0 .. Cycle - 1 /\ SlotOf(b) \in UlSlots /\ Counted(b)
    BY <1>6 DEF ListInv, Counts, Watched
  <2>2. CASE SlotOf(b) # s
    <3>1. list'[SlotOf(b)] = list[SlotOf(b)] /\ promised'[b] = promised[b]
      BY <1>2, <2>1, <2>2
    <3>2. QED
      BY <2>1, <3>1 DEF Counted, Full
  <2>3. CASE SlotOf(b) = s /\ b # at
    BY <1>2, <1>5, <2>1, <2>3 DEF Counted
  <2>4. CASE b = at
    <3>1. /\ Len(list[s].pdus) \in Nat /\ list[s].pdus \in Seq(Pdu)
          /\ list[s].pdus = <<>> <=> Len(list[s].pdus) = 0
          /\ promised[at] \in Nat
      BY <1>1, PduTypes DEF ListInv, ListTypes
    <3>2. CASE /\ Accepts(at) /\ list'[s].pdus = Append(Fresh(s, at), pdu)
               /\ promised'[at] = promised[at] + 1
      <4>1. CASE list[s].pdus = <<>> \/ list[s].at # at
        <5>1. promised[at] = 0
          BY <2>1, <2>4, <4>1 DEF Counted
        <5>2. Fresh(s, at) = <<>>
          BY <4>1 DEF Fresh, Stale
        <5>3. Len(list'[s].pdus) = 1
          BY <3>2, <5>2
        <5>4. promised'[at] = Len(list'[s].pdus)
          BY <3>2, <5>1, <5>3
        <5>5. QED
          BY <1>2, <2>4, <5>4 DEF Counted
      <4>2. CASE list[s].pdus # <<>> /\ list[s].at = at
        <5>1. Fresh(s, at) = list[s].pdus /\ ~Full(s)
          BY <3>2, <4>2 DEF Fresh, Stale, Accepts
        <5>2. promised[at] = Len(list[s].pdus)
          BY <2>1, <2>4, <4>2, <5>1 DEF Counted
        <5>3. Len(list'[s].pdus) = Len(list[s].pdus) + 1
          BY <3>1, <3>2, <5>1
        <5>4. promised'[at] = Len(list'[s].pdus)
          BY <3>2, <5>2, <5>3
        <5>5. QED
          BY <1>2, <2>4, <5>4 DEF Counted
      <4>3. QED
        BY <4>1, <4>2
    <3>3. CASE list'[s].pdus = list[s].pdus /\ Full(s)
      <4>1. Full(s)'
        BY <3>3 DEF Full
      <4>2. QED
        BY <1>2, <2>4, <4>1 DEF Counted
    <3>4. QED
      BY <1>1, <3>2, <3>3, LockGetFacts
  <2>5. QED
    BY <2>2, <2>3, <2>4
<1>7. Counts'
  BY <1>6 DEF Counts
<1>8. QED
  BY <1>2, <1>3, <1>4, <1>7 DEF ListInv

(* clear_ul_config_request()                                                *)
LEMMA FlushKeeps == ASSUME ListInv, Flush, held' = held PROVE ListInv'
<1>1. /\ list' = [s \in UlSlots |-> [list[s] EXCEPT !.pdus = <<>>]]
      /\ promised' = [at \in 0 .. Cycle - 1 |-> 0]
  BY DEF Flush
<1>2. \A s \in UlSlots : /\ list'[s] \in [at : 0 .. Cycle - 1, pdus : Seq(Pdu)]
                         /\ list'[s].at = list[s].at /\ list'[s].pdus = <<>>
  <2>1. ASSUME NEW s \in UlSlots
        PROVE  /\ list'[s] \in [at : 0 .. Cycle - 1, pdus : Seq(Pdu)]
               /\ list'[s].at = list[s].at /\ list'[s].pdus = <<>>
    <3>1. list'[s] = [list[s] EXCEPT !.pdus = <<>>]
      BY <1>1
    <3>2. list[s] \in [at : 0 .. Cycle - 1, pdus : Seq(Pdu)] /\ <<>> \in Seq(Pdu)
      BY PduTypes DEF ListInv
    <3>3. QED
      BY <3>1, <3>2
  <2>2. QED
    BY <2>1
<1>3. /\ list' \in [UlSlots -> [at : 0 .. Cycle - 1, pdus : Seq(Pdu)]]
      /\ promised' \in [0 .. Cycle - 1 -> Nat]
      /\ \A at \in 0 .. Cycle - 1 : promised'[at] = 0
  BY <1>1, <1>2
<1>4. ListTypes'
  BY <1>2, <1>3, Constants DEF ListInv, ListTypes
<1>5. Filed'
  BY <1>2 DEF ListInv, Filed
<1>6. Counts' /\ Promises'
  BY <1>2, <1>3 DEF Counts, Promises, Counted, Watched
<1>7. QED
  BY <1>4, <1>5, <1>6 DEF ListInv

(* The lists stay as they are.                                              *)
LEMMA ListsKept ==
  ASSUME ListInv, list' = list, promised' = promised, now' = now, held' = held,
         upset' = upset, pc' = "end" <=> pc = "end"
  PROVE  ListInv'
<1>1. Coming' = Coming /\ Watched' = Watched /\ ListTypes' /\ Filed'
  BY DEF ListInv, ListTypes, Filed, Coming, Ahead, Watched
<1>2. \A at : Counted(at)' <=> Counted(at)
  BY DEF Counted, Full
<1>3. Counts' /\ Promises'
  BY <1>1, <1>2 DEF ListInv, Counts, Promises
<1>4. QED
  BY <1>1, <1>3 DEF ListInv

(* The next slot starts, when the account of this one is closed.            *)
LEMMA NextSlotKeeps ==
  ASSUME ListInv, SlotTypes, Return, ListTypes', Filed', held \subseteq held',
         \A at \in Watched' : Counted(at)',
         \A at \in Watched' : promised'[at] # 0 => promised[at] # 0 /\ at # now
  PROVE  ListInv'
<1>1. Counts'
  BY DEF Counts
<1>2. Watched' \subseteq Watched
  BY DEF Watched
<1>3. Promises'
  BY <1>2, NextComing DEF Promises, ListInv, Return, SlotTypes
<1>4. QED
  BY <1>1, <1>3 DEF ListInv

----------------------------------------------------------------------------
(* The scheduling request.                                                  *)

SrTypes ==
  /\ rlc \in Nat /\ remain \in Nat /\ asked \in Nat /\ SrTransMax \in Nat
  /\ rlc <= MaxBytes /\ remain <= MaxBytes /\ asked <= SrTransMax
  /\ sr.pending \in BOOLEAN /\ sr.counter \in Nat /\ sr.prohibit \in BOOLEAN
  /\ sr.counter <= SrTransMax /\ MaxBytes \in Nat

LEMMA SrNumbers == SrInv => SrTypes
  BY UeSrAssumption DEF SrInv, SrTypeOK, SrTypes

LEMMA NoSrTypes ==
  /\ NoSr \in [pending : BOOLEAN, counter : 0 .. SrTransMax, prohibit : BOOLEAN]
  /\ NoSr.counter = 0 /\ NoSr.pending = FALSE
  BY UeSrAssumption DEF NoSr

(* RLC's threads and what the MAC reads of them.                            *)
LEMMA RlcSteps ==
  ASSUME SrInv, Arrives \/ Withdraw \/ ReadStatus
  PROVE  SrInv' /\ sr' = sr /\ (remain > 0 => remain' > 0)
<1>1. SrTypes
  BY SrNumbers
<1>2. SrTypeOK /\ sr' = sr /\ asked' = asked /\ srConf' = srConf /\ bsrSent' = bsrSent
  BY DEF SrInv, Arrives, Withdraw, ReadStatus
<1>3. CASE Arrives
  BY <1>1, <1>2, <1>3 DEF Arrives, SrInv, SrTypeOK, SrTypes
<1>4. CASE Withdraw
  <2>1. /\ rlc' = rlc - 1 /\ rlc > 0 /\ remain' = remain
        /\ withdrawn' \in BOOLEAN /\ (withdrawn' <=> withdrawn \/ remain >= rlc)
    BY <1>2, <1>4 DEF Withdraw, SrTypeOK
  <2>2. withdrawn' \/ remain' <= rlc'
    BY <1>1, <2>1 DEF SrTypes
  <2>3. SrTypeOK'
    BY <1>1, <1>2, <2>1 DEF SrTypeOK, SrTypes
  <2>4. QED
    BY <1>2, <2>1, <2>2, <2>3 DEF SrInv
<1>5. CASE ReadStatus
  <2>1. /\ rlc' = rlc /\ (rlc > 0 => remain' = rlc) /\ (~(rlc > 0) => remain' = remain)
        /\ withdrawn' \in BOOLEAN /\ (withdrawn' <=> withdrawn /\ rlc = 0 /\ remain > 0)
    BY <1>2, <1>5 DEF ReadStatus, SrTypeOK
  <2>2. withdrawn' \/ remain' <= rlc'
    <3>1. CASE rlc > 0
      BY <1>1, <2>1, <3>1 DEF SrTypes
    <3>2. CASE rlc = 0
      <4>1. CASE withdrawn
        BY <1>1, <2>1, <3>2, <4>1 DEF SrTypes
      <4>2. CASE ~withdrawn
        BY <1>1, <2>1, <3>2, <4>2 DEF SrTypes, SrInv
      <4>3. QED
        BY <4>1, <4>2
    <3>3. QED
      BY <1>1, <3>1, <3>2 DEF SrTypes
  <2>3. SrTypeOK' /\ (remain > 0 => remain' > 0)
    BY <1>1, <1>2, <2>1 DEF SrTypeOK, SrTypes
  <2>4. QED
    BY <1>2, <2>2, <2>3 DEF SrInv
<1>6. QED
  BY <1>3, <1>4, <1>5

(* Data goes into a PUSCH.                                                  *)
LEMMA TakeSteps ==
  ASSUME SrInv,
         \/ \E bytes \in 1 .. MaxBytes : GetGrantFree(bytes)
         \/ \E bytes \in 0 .. MaxBytes, bsr \in BOOLEAN : GetSdu(bytes, bsr)
  PROVE  SrInv'
<1>1. SrTypes /\ SrTypeOK
  BY SrNumbers DEF SrInv
<1>2. ASSUME NEW bytes \in 1 .. MaxBytes, GetGrantFree(bytes) PROVE SrInv'
  BY <1>1, <1>2 DEF GetGrantFree, SrInv, SrTypeOK, SrTypes
<1>3. ASSUME NEW bytes \in 0 .. MaxBytes, NEW bsr \in BOOLEAN, GetSdu(bytes, bsr) PROVE SrInv'
  <2>1. /\ bytes <= rlc /\ bytes <= remain /\ rlc' = rlc - bytes /\ remain' = remain - bytes
        /\ bsrSent' = bsr /\ srConf' = srConf /\ withdrawn' = withdrawn
        /\ (sr' = NoSr /\ asked' = 0) \/ (sr' = sr /\ asked' = asked)
    BY <1>1, <1>3 DEF GetSdu, TakeSdu, SendBsr, SrTypes
  <2>2. /\ rlc' \in 0 .. MaxBytes /\ remain' \in 0 .. MaxBytes /\ (remain <= rlc => remain' <= rlc')
    BY <1>1, <2>1 DEF SrTypes
  <2>3. /\ sr' \in [pending : BOOLEAN, counter : 0 .. SrTransMax, prohibit : BOOLEAN]
        /\ asked' \in 0 .. SrTransMax /\ sr'.counter <= asked'
    <3>1. CASE sr' = NoSr /\ asked' = 0
      BY <1>1, <3>1, NoSrTypes DEF SrTypes
    <3>2. CASE sr' = sr /\ asked' = asked
      BY <1>1, <3>2 DEF SrTypeOK, SrInv
    <3>3. QED
      BY <2>1, <3>1, <3>2
  <2>4. SrTypeOK'
    BY <1>1, <2>1, <2>2, <2>3 DEF SrTypeOK
  <2>5. QED
    BY <2>1, <2>2, <2>3, <2>4 DEF SrInv
<1>4. QED
  BY <1>2, <1>3

(* The request itself.                                                      *)
LEMMA RequestSteps ==
  ASSUME SrInv,
         \/ SendSr \/ GiveUpSr \/ ReleaseSr \/ ConfigureSr \/ ProhibitEnds
         \/ \E gfActive \in BOOLEAN : UpdateSr(gfActive)
         \/ bsrSent' = FALSE /\ UNCHANGED <<rlc, remain, sr, srConf, withdrawn, asked>>
         \/ UNCHANGED srVars
  PROVE  SrInv'
<1>1. SrTypes /\ SrTypeOK
  BY SrNumbers DEF SrInv
<1>2. /\ rlc' = rlc /\ remain' = remain /\ withdrawn' = withdrawn
      /\ srConf' \in BOOLEAN /\ bsrSent' \in BOOLEAN
  BY <1>1 DEF SendSr, GiveUpSr, ReleaseSr, ConfigureSr, ProhibitEnds, UpdateSr, SrTypeOK, srVars
<1>3. /\ sr' \in [pending : BOOLEAN, counter : 0 .. SrTransMax, prohibit : BOOLEAN]
      /\ asked' \in 0 .. SrTransMax /\ sr'.counter <= asked'
  <2>1. CASE SendSr
    <3>1. /\ sr' = [sr EXCEPT !.counter = sr.counter + 1, !.prohibit = TRUE]
          /\ sr.counter < SrTransMax
          /\ (asked < SrTransMax => asked' = asked + 1) /\ (~(asked < SrTransMax) => asked' = asked)
      BY <2>1 DEF SendSr
    <3>2. sr' = [pending |-> sr.pending, counter |-> sr.counter + 1, prohibit |-> TRUE]
      BY <1>1, <3>1 DEF SrTypeOK
    <3>3. sr.counter + 1 \in 0 .. SrTransMax /\ sr.counter <= asked
      BY <1>1, <3>1 DEF SrTypes, SrInv
    <3>4. asked' \in 0 .. SrTransMax /\ sr.counter + 1 <= asked'
      BY <1>1, <3>1, <3>3 DEF SrTypes
    <3>5. QED
      BY <1>1, <3>2, <3>3, <3>4 DEF SrTypes
  <2>2. CASE GiveUpSr
    BY <1>1, <2>2, NoSrTypes DEF GiveUpSr, SrTypes
  <2>3. CASE sr' = sr /\ asked' = asked
    BY <1>1, <2>3 DEF SrInv, SrTypeOK
  <2>4. CASE ProhibitEnds
    BY <1>1, <2>4 DEF ProhibitEnds, SrInv, SrTypeOK
  <2>5. ASSUME NEW gfActive \in BOOLEAN, UpdateSr(gfActive)
        PROVE  /\ sr' \in [pending : BOOLEAN, counter : 0 .. SrTransMax, prohibit : BOOLEAN]
               /\ asked' \in 0 .. SrTransMax /\ sr'.counter <= asked'
    <3>1. /\ asked' = asked
          /\ sr' = NoSr \/ sr' = sr \/ sr' = [sr EXCEPT !.pending = TRUE, !.counter = 0]
      BY <2>5 DEF UpdateSr
    <3>2. CASE sr' = NoSr
      BY <1>1, <3>1, <3>2, NoSrTypes DEF SrTypeOK, SrTypes
    <3>3. CASE sr' = [sr EXCEPT !.pending = TRUE, !.counter = 0]
      <4>1. sr' = [pending |-> TRUE, counter |-> 0, prohibit |-> sr.prohibit]
        BY <1>1, <3>3 DEF SrTypeOK
      <4>2. QED
        BY <1>1, <3>1, <4>1 DEF SrTypes
    <3>4. QED
      BY <2>3, <3>1, <3>2, <3>3
  <2>6. QED
    BY <2>1, <2>2, <2>3, <2>4, <2>5 DEF ReleaseSr, ConfigureSr, srVars
<1>4. SrTypeOK'
  BY <1>1, <1>2, <1>3 DEF SrTypeOK
<1>5. QED
  BY <1>2, <1>3, <1>4 DEF SrInv

----------------------------------------------------------------------------
(* The list of the slot.                                                    *)

\* A slot less than a frame later has another list.
LEMMA LaterSlot ==
  ASSUME now \in 0 .. Cycle - 1, NEW d \in 1 .. SlotsPerFrame - 1
  PROVE  SlotOf(Ahead(d)) # Slot /\ Ahead(d) \in Coming
<1>1. d \in Nat /\ now \in Int /\ now + d \in Int /\ now - (now + d) < SlotsPerFrame
      /\ (now + d) - now < SlotsPerFrame /\ now + d # now
  BY Constants
<1>2. SlotOf(Ahead(d)) = (now + d) % SlotsPerFrame
  BY <1>1, AheadFacts
<1>3. (now + d) % SlotsPerFrame # now % SlotsPerFrame
  BY <1>1, Constants, ModSame
<1>4. d \in (IF pc = "end" THEN 1 ELSE 0) .. SlotsPerFrame - 1
  BY Constants
<1>5. QED
  BY <1>2, <1>3, <1>4 DEF Slot, SlotOf, Coming

LEMMA StillComing ==
  ASSUME now \in 0 .. Cycle - 1, now' = now, NEW a \in Coming, a # now
  PROVE  a \in Coming'
<1>1. PICK d \in (IF pc = "end" THEN 1 ELSE 0) .. SlotsPerFrame - 1 : a = Ahead(d)
  BY DEF Coming
<1>2. d # 0
  BY <1>1, AheadFacts
<1>3. d \in (IF pc' = "end" THEN 1 ELSE 0) .. SlotsPerFrame - 1
  BY <1>1, <1>2, Constants
<1>4. QED
  BY <1>1, <1>3 DEF Coming, Ahead

\* Nothing is promised for other slots of the list the uplink thread is at.
LEMMA OthersEmpty ==
  ASSUME ListInv, SlotTypes, pc # "end", NEW b \in Watched, b # now, SlotOf(b) = Slot
  PROVE  promised[b] = 0
<1>1. now \in Coming /\ now \in 0 .. Cycle - 1
  BY AheadFacts DEF SlotTypes
<1>2. promised[b] # 0 => b = now
  BY <1>1, OneComing DEF ListInv, Promises, Slot
<1>3. QED
  BY <1>2

\* The uplink thread changes the list of its slot.
LEMMA OwnListKeeps ==
  ASSUME ListInv, SlotTypes, pc # "end", pc' # "end", Slot \in UlSlots,
         now' = now, held' = held, upset => upset',
         \A s \in UlSlots : s # Slot => list'[s] = list[s],
         \A b \in 0 .. Cycle - 1 : b # now => promised'[b] = promised[b],
         ListTypes', list'[Slot].at = now \/ list'[Slot].pdus = <<>>,
         SlotOf(list'[Slot].at) = Slot,
         \A i \in 1 .. Len(list'[Slot].pdus) : list'[Slot].pdus[i].for = list'[Slot].at,
         now \in Watched => upset' \/ Counted(now)'
  PROVE  ListInv'
<1>1. Watched' = Watched /\ now \in Coming' /\ now \in 0 .. Cycle - 1
  <2>1. now' \in 0 .. Cycle - 1 /\ Watched' = Watched
    BY DEF SlotTypes, Watched
  <2>2. 0 \in 0 .. SlotsPerFrame - 1 /\ Ahead(0) = now
    BY <2>1, Constants, AheadFacts
  <2>3. QED
    BY <2>1, <2>2 DEF Coming, Ahead
<1>2. Filed'
  BY DEF ListInv, Filed
<1>3. Promises'
  BY <1>1, StillComing DEF ListInv, Promises, Watched
<1>4. ASSUME NEW b \in Watched, b # now PROVE Counted(b)'
  <2>1. b \in 0 .. Cycle - 1 /\ SlotOf(b) \in UlSlots /\ Counted(b) /\ promised'[b] = promised[b]
    BY <1>4 DEF ListInv, Counts, Watched
  <2>2. CASE SlotOf(b) # Slot
    <3>1. list'[SlotOf(b)] = list[SlotOf(b)]
      BY <2>1, <2>2
    <3>2. QED
      BY <2>1, <3>1 DEF Counted, Full
  <2>3. CASE SlotOf(b) = Slot
    <3>1. promised'[b] = 0
      BY <1>4, <2>1, <2>3, OthersEmpty
    <3>2. QED
      BY <1>4, <2>3, <3>1 DEF Counted
  <2>4. QED
    BY <2>2, <2>3
<1>5. Counts'
  BY <1>1, <1>4 DEF Counts
<1>6. QED
  BY <1>2, <1>3, <1>5 DEF ListInv

\* The list of the slot is given up: emptied, or left as it is when it is full.
GivenUp == /\ list' = IF Full(Slot) THEN list ELSE [list EXCEPT ![Slot].pdus = <<>>]
           /\ promised' = [promised EXCEPT ![now] = 0]

LEMMA GivenUpFacts ==
  ASSUME ListInv, SlotTypes, pc # "end", Slot \in UlSlots, GivenUp, held' = held
  PROVE  /\ ListTypes' /\ Filed'
         /\ \A at \in Watched' : Counted(at)'
         /\ \A at \in Watched' : promised'[at] # 0 => promised[at] # 0 /\ at # now
<1>1. list \in [UlSlots -> [at : 0 .. Cycle - 1, pdus : Seq(Pdu)]] /\ <<>> \in Seq(Pdu)
      /\ promised \in [0 .. Cycle - 1 -> Nat] /\ Watched' = Watched /\ now \in 0 .. Cycle - 1
  BY DEF ListInv, ListTypes, Watched, SlotTypes
<1>2. /\ promised' \in [0 .. Cycle - 1 -> Nat] /\ promised'[now] = 0
      /\ \A b \in 0 .. Cycle - 1 : b # now => promised'[b] = promised[b]
  BY <1>1 DEF GivenUp
<1>3. /\ list' \in [UlSlots -> [at : 0 .. Cycle - 1, pdus : Seq(Pdu)]]
      /\ \A s \in UlSlots : s # Slot => list'[s] = list[s]
      /\ list'[Slot].at = list[Slot].at
      /\ list'[Slot].pdus = <<>> \/ (list'[Slot] = list[Slot] /\ Full(Slot))
  <2>1. CASE Full(Slot)
    BY <1>1, <2>1 DEF GivenUp
  <2>2. CASE ~Full(Slot)
    <3>1. list' = [list EXCEPT ![Slot].pdus = <<>>]
      BY <2>2 DEF GivenUp
    <3>2. list[Slot] \in [at : 0 .. Cycle - 1, pdus : Seq(Pdu)]
      BY <1>1
    <3>3. QED
      BY <1>1, <3>1, <3>2
  <2>3. QED
    BY <2>1, <2>2
<1>4. ListTypes'
  <2>1. \A s \in UlSlots : Len(list[s].pdus) <= MaxPdus
    BY DEF ListInv, ListTypes
  <2>2. Len(<<>>) <= MaxPdus
    BY Constants
  <2>3. \A s \in UlSlots : Len(list'[s].pdus) <= MaxPdus
    BY <1>3, <2>1, <2>2
  <2>4. QED
    BY <1>2, <1>3, <2>3 DEF ListInv, ListTypes
<1>5. Filed'
  <2>1. Len(<<>>) = 0
    OBVIOUS
  <2>2. QED
    BY <1>3, <2>1 DEF ListInv, Filed
<1>6. list'[Slot].pdus = <<>> \/ Len(list'[Slot].pdus) >= MaxPdus
  BY <1>3 DEF Full
<1>7. ASSUME NEW at \in Watched PROVE Counted(at)'
  <2>1. at \in 0 .. Cycle - 1 /\ SlotOf(at) \in UlSlots
    BY DEF Watched
  <2>2. CASE SlotOf(at) # Slot
    <3>1. list'[SlotOf(at)] = list[SlotOf(at)] /\ at # now
      BY <1>3, <2>1, <2>2 DEF Slot
    <3>2. promised'[at] = promised[at] /\ Counted(at)
      BY <1>2, <2>1, <3>1 DEF ListInv, Counts
    <3>3. QED
      BY <3>1, <3>2 DEF Counted, Full
  <2>3. CASE SlotOf(at) = Slot
    <3>1. promised'[at] = 0
      BY <1>2, <2>1, <2>3, OthersEmpty
    <3>2. list'[SlotOf(at)].pdus = <<>> \/ Full(SlotOf(at))'
      BY <1>6, <2>3 DEF Full
    <3>3. QED
      BY <3>1, <3>2 DEF Counted
  <2>4. QED
    BY <2>2, <2>3
<1>8. QED
  BY <1>1, <1>2, <1>4, <1>5, <1>7 DEF Watched

\* What carries data in one list and, k places on, in another
LEMMA CarryMore ==
  ASSUME NEW p \in Seq(Pdu), NEW q \in Seq(Pdu), NEW k \in Nat,
         \A i \in Carrying(p) : i + k \in Carrying(q)
  PROVE  /\ Cardinality(Carrying(p)) \in Nat /\ Cardinality(Carrying(q)) \in Nat
         /\ Cardinality(Carrying(p)) <= Cardinality(Carrying(q))
<1>1. ASSUME NEW r \in Seq(Pdu) PROVE IsFiniteSet(Carrying(r)) /\ Cardinality(Carrying(r)) \in Nat
  <2>1. 1 \in Int /\ Len(r) \in Int /\ Carrying(r) \in SUBSET (1 .. Len(r))
    BY DEF Carrying
  <2>2. IsFiniteSet(1 .. Len(r))
    BY <2>1, FS_Interval
  <2>3. IsFiniteSet(Carrying(r))
    BY <2>1, <2>2, FS_Subset
  <2>4. QED
    BY <2>3, FS_CardinalityType
<1> DEFINE f == [i \in Carrying(p) |-> i + k]
<1>2. f \in Injection(Carrying(p), Carrying(q))
  <2>1. Carrying(p) \subseteq Nat
    BY DEF Carrying
  <2>2. \A i, j \in Carrying(p) : f[i] = f[j] => i = j
    BY <2>1
  <2>3. f \in [Carrying(p) -> Carrying(q)]
    OBVIOUS
  <2>4. QED
    BY <2>2, <2>3 DEF Injection, IsInjective
<1>3. QED
  BY <1>1, <1>2, FS_Injection

----------------------------------------------------------------------------
(* Steps beside the uplink thread.                                          *)

\* What neither touches the list of the slot nor the uplink thread
LEMMA SlotKept ==
  ASSUME SlotTypes, InSlot, Carried, Slot \in UlSlots => list'[Slot] = list[Slot],
         now' = now, pc' = pc, held' = held,
         upset' = upset, pulled' = pulled, sent' = sent,
         lead' \in 1 .. MaxLead, ta' \in BOOLEAN, gf' \in BOOLEAN,
         state' \in {"connected", "preamble", "rar", "resolution"}
  PROVE  SlotInv'
<1>1. SlotTypes'
  BY DEF SlotTypes
<1>2. InSlot'
  BY DEF InSlot, Stale, Slot
<1>3. Carried'
  <2>1. CASE pc \in {"pucch", "phy"}
    <3>1. Mine' = Mine
      BY <2>1 DEF Mine, Slot, InSlot
    <3>2. QED
      BY <2>1, <3>1 DEF Carried
  <2>2. CASE pc \notin {"pucch", "phy"}
    BY <2>2 DEF Carried
  <2>3. QED
    BY <2>1, <2>2
<1>4. QED
  BY <1>1, <1>2, <1>3 DEF SlotInv

LEMMA WaitsKept ==
  ASSUME Waits, InSlot, Slot \in UlSlots => list'[Slot] = list[Slot],
         now' = now, pc' = pc, sr'.pending = sr.pending, remain > 0 => remain' > 0,
         state = "connected" => state' = "connected"
  PROVE  Waits'
<1>1. CASE pc # "start"
  <2>1. Mine' = Mine /\ Slot \in UlSlots
    BY <1>1 DEF Mine, Slot, InSlot
  <2>2. NoPuschLeft' <=> NoPuschLeft
    BY <2>1 DEF NoPuschLeft, Stale, Slot
  <2>3. QED
    BY <2>1, <2>2 DEF Waits
<1>2. CASE pc = "start"
  BY <1>2 DEF Waits
<1>3. QED
  BY <1>1, <1>2

(* A grant, RA, grant-free reconfiguration, RLC and timers.                 *)
LEMMA DlSlotKeeps == ASSUME PathInv, DlSlot PROVE PathInv'
<1>1. /\ lead < MaxLead /\ lead' = lead + 1
      /\ now' = now /\ pc' = pc /\ held' = held /\ state' = state /\ ta' = ta /\ gf' = gf
      /\ pulled' = pulled /\ upset' = upset /\ sent' = sent /\ UNCHANGED srVars
  BY DEF DlSlot, slotVars
<1>2. /\ now \in 0 .. Cycle - 1 /\ lead \in 1 .. MaxLead /\ now \in Int /\ lead \in Int
      /\ lead' \in 1 .. MaxLead
  BY <1>1, Constants DEF PathInv, SlotInv, SlotTypes
<1>3. ListInv' /\ (Slot \in UlSlots => list'[Slot] = list[Slot])
  <2>1. CASE UNCHANGED <<list, promised>>
    BY <1>1, <2>1, ListsKept DEF PathInv
  <2>2. ASSUME NEW k \in K2, NEW new \in BOOLEAN, NEW at, at = (now + lead - Rx2Tx + k) % Cycle,
               SlotOf(at) \in UlSlots, LockGet(at, Make("pusch", at, new))
        PROVE  ListInv' /\ (Slot \in UlSlots => list'[Slot] = list[Slot])
    <3> DEFINE d == lead - Rx2Tx + k
    <3>1. d \in 1 .. SlotsPerFrame - 1 /\ now + lead - Rx2Tx + k = now + d
      BY <1>1, <1>2, Constants
    <3>2. at = Ahead(d)
      BY <2>2, <3>1 DEF Ahead
    <3> HIDE DEF d
    <3>3. at \in Coming /\ SlotOf(at) # Slot /\ at \in 0 .. Cycle - 1
      BY <1>2, <3>1, <3>2, LaterSlot, AheadFacts
    <3>4. Make("pusch", at, new) \in Pdu /\ Make("pusch", at, new).for = at
      BY <3>3, MakeTypes
    <3>5. ListInv'
      BY <1>1, <2>2, <3>3, <3>4, LockGetKeeps DEF PathInv, SlotInv
    <3>6. \A t \in UlSlots : t # SlotOf(at) => list'[t] = list[t]
      BY <2>2, <3>3, <3>4, LockGetFacts DEF PathInv
    <3>7. QED
      BY <3>3, <3>5, <3>6
  <2>3. QED
    BY <2>1, <2>2 DEF DlSlot
<1>4. SlotInv'
  BY <1>1, <1>2, <1>3, SlotKept DEF PathInv, SlotInv, SlotTypes
<1>5. SrInv' /\ Waits'
  <2>1. Waits'
    BY <1>1, <1>3, WaitsKept DEF PathInv, SlotInv, srVars
  <2>2. QED
    BY <1>1, <2>1, RequestSteps DEF PathInv
<1>6. QED
  BY <1>3, <1>4, <1>5 DEF PathInv

LEMMA ControlKeeps ==
  ASSUME PathInv, RaSucceeds \/ RaFails \/ ReleaseGf \/ Around PROVE PathInv'
<1>1. /\ list' = list /\ promised' = promised /\ now' = now /\ lead' = lead /\ pc' = pc
      /\ held' = held /\ pulled' = pulled /\ upset' = upset /\ sent' = sent
  BY DEF RaSucceeds, RaFails, ReleaseGf, Around, slotVars
<1>2. /\ ta' \in BOOLEAN /\ gf' \in BOOLEAN
      /\ state' \in {"connected", "preamble", "rar", "resolution"}
  BY DEF PathInv, SlotInv, SlotTypes, RaSucceeds, RaFails, ReleaseGf, Around
<1>3. ListInv'
  BY <1>1, ListsKept DEF PathInv
<1>4. SlotInv'
  BY <1>1, <1>2, SlotKept DEF PathInv, SlotInv, SlotTypes
<1>5. /\ SrInv' /\ sr'.pending = sr.pending /\ (remain > 0 => remain' > 0)
      /\ (state = "connected" => state' = "connected")
  <2>1. CASE RaSucceeds \/ RaFails \/ ReleaseGf
    <3>1. UNCHANGED srVars /\ (state = "connected" => state' = "connected")
      BY <2>1 DEF RaSucceeds, RaFails, ReleaseGf
    <3>2. QED
      BY <3>1, RequestSteps DEF PathInv, srVars
  <2>2. CASE Around
    <3>1. state' = state
      BY <2>2 DEF Around
    <3>2. CASE Arrives \/ Withdraw
      BY <3>1, <3>2, RlcSteps DEF PathInv
    <3>3. CASE ConfigureSr
      BY <3>1, <3>3, RequestSteps DEF PathInv, ConfigureSr
    <3>4. CASE ProhibitEnds
      <4>1. remain' = remain /\ sr'.pending = sr.pending
        BY <3>4 DEF ProhibitEnds, PathInv, SrInv, SrTypeOK
      <4>2. QED
        BY <3>1, <3>4, <4>1, RequestSteps DEF PathInv
    <3>5. QED
      BY <2>2, <3>2, <3>3, <3>4 DEF Around
  <2>3. QED
    BY <2>1, <2>2
<1>6. Waits'
  BY <1>1, <1>5, WaitsKept DEF PathInv, SlotInv
<1>7. QED
  BY <1>3, <1>4, <1>5, <1>6 DEF PathInv

(* The lists are flushed.                                                   *)
LEMMA FlushSteps == ASSUME PathInv, TaExpiry \/ SrFails PROVE PathInv'
<1>1. /\ Flush /\ upset' = TRUE
      /\ now' = now /\ lead' = lead /\ pc' = pc /\ held' = held /\ gf' = gf
      /\ pulled' = pulled /\ sent' = sent
      /\ ta' \in BOOLEAN /\ state' \in {"connected", "preamble", "rar", "resolution"}
  BY DEF TaExpiry, SrFails, Flush, PathInv, SlotInv, SlotTypes
<1>2. ListInv'
  BY <1>1, FlushKeeps DEF PathInv
<1>3. pc # "start" => Slot \in UlSlots /\ Slot' = Slot /\ Mine' = <<>>
  BY <1>1 DEF PathInv, SlotInv, InSlot, Flush, Mine, Slot
<1>4. SlotTypes'
  BY <1>1 DEF PathInv, SlotInv, SlotTypes
<1>5. InSlot' /\ Carried'
  BY <1>1, <1>3 DEF PathInv, SlotInv, InSlot, Carried, Stale, Mine
<1>6. SrInv'
  BY RequestSteps DEF PathInv, TaExpiry, SrFails
<1>7. Waits'
  <2>1. CASE TaExpiry
    <3>1. sr' = sr /\ remain' = remain /\ state' = state
      BY <2>1 DEF TaExpiry, ReleaseSr
    <3>2. pc = "fill" => NoPuschLeft'
      BY <1>1, <1>3 DEF NoPuschLeft, Stale, Mine
    <3>3. QED
      BY <1>1, <1>3, <3>1, <3>2 DEF PathInv, Waits
  <2>2. CASE SrFails
    BY <2>2, NoSrTypes DEF SrFails, GiveUpSr, Waits
  <2>3. QED
    BY <2>1, <2>2
<1>8. QED
  BY <1>2, <1>4, <1>5, <1>6, <1>7 DEF PathInv, SlotInv

----------------------------------------------------------------------------
(* The uplink thread: the next slot.                                        *)

LEMMA ReturnFacts ==
  ASSUME SlotTypes, Return, ta' \in BOOLEAN, gf' \in BOOLEAN,
         state' \in {"connected", "preamble", "rar", "resolution"}
  PROVE  SlotInv'
<1>1. /\ now' = (now + 1) % Cycle /\ pc' = "start" /\ lead > 1 /\ lead' = lead - 1
      /\ pulled' = 0 /\ upset' = FALSE /\ sent' = <<>>
  BY DEF Return
<1>2. now' \in 0 .. Cycle - 1
  <2>1. now + 1 \in Int
    BY Constants DEF SlotTypes
  <2>2. QED
    BY <1>1, <2>1, Constants, ModParts
<1>3. lead' \in 1 .. MaxLead
  BY <1>1, Constants DEF SlotTypes
<1>4. SlotTypes'
  <2>1. <<>> \in Seq(Pdu)
    OBVIOUS
  <2>2. sent' \in Seq(Pdu) /\ pulled' \in Nat /\ upset' \in BOOLEAN
    BY <1>1, <2>1
  <2>3. QED
    BY <1>1, <1>2, <1>3, <2>2 DEF SlotTypes
<1>5. Len(sent') = 0
  BY <1>1
<1>6. InSlot' /\ Carried'
  BY <1>1, <1>5 DEF InSlot, Carried
<1>7. QED
  BY <1>4, <1>6 DEF SlotInv

\* The first step of a slot finds an SR with data to wait for
LEMMA StartWaits == ASSUME Waits, pc = "start" PROVE sr.pending => remain > 0
  BY DEF Waits

LEMMA NoUlSlotKeeps == ASSUME PathInv, NoUlSlot PROVE PathInv'
<1>1. /\ pc = "start" /\ Slot \notin UlSlots /\ Return
      /\ list' = list /\ held' = held /\ state' = state /\ ta' = ta /\ gf' = gf
      /\ promised' = promised /\ UNCHANGED srVars
  BY DEF NoUlSlot
<1>2. SlotInv'
  BY <1>1, ReturnFacts DEF PathInv, SlotInv, SlotTypes
<1>3. ListTypes' /\ Filed' /\ Watched' = Watched
  BY <1>1 DEF PathInv, ListInv, ListTypes, Filed, Watched
<1>4. now \notin Watched
  BY <1>1 DEF Watched, Slot
<1>5. \A at \in Watched : Counted(at)'
  BY <1>1, <1>4 DEF PathInv, ListInv, Counts, Counted, Full
<1>6. ListInv'
  BY <1>1, <1>3, <1>4, <1>5, NextSlotKeeps DEF PathInv, SlotInv
<1>7. SrInv' /\ Waits'
  <2>1. SrInv'
    BY <1>1, RequestSteps DEF PathInv
  <2>2. Waits'
    BY <1>1, StartWaits DEF PathInv, Waits, srVars
  <2>3. QED
    BY <2>1, <2>2
<1>8. QED
  BY <1>2, <1>6, <1>7 DEF PathInv

LEMMA NoIteratorKeeps == ASSUME PathInv, NoIterator PROVE PathInv'
<1>1. /\ pc = "fill" /\ (Full(Slot) \/ Stale(Slot, now)) /\ Return /\ GivenUp
      /\ held' = held /\ state' = state /\ ta' = ta /\ gf' = gf /\ UNCHANGED srVars
  BY DEF NoIterator, GivenUp
<1>2. Slot \in UlSlots
  BY <1>1 DEF PathInv, SlotInv, InSlot
<1>3. SlotInv'
  BY <1>1, ReturnFacts DEF PathInv, SlotInv, SlotTypes
<1>4. ListInv'
  BY <1>1, <1>2, GivenUpFacts, NextSlotKeeps DEF PathInv, SlotInv
<1>5. sr.pending => remain > 0
  <2>1. NoPuschLeft => ~Full(Slot) /\ ~Stale(Slot, now)
    <3>1. Len(Mine) \in Nat
      BY <1>2, PduTypes DEF PathInv, ListInv, Mine
    <3>2. QED
      BY <3>1, Constants DEF NoPuschLeft, Full, Mine
  <2>2. QED
    BY <1>1, <2>1 DEF PathInv, Waits
<1>6. SrInv' /\ Waits'
  <2>1. SrInv'
    BY <1>1, RequestSteps DEF PathInv
  <2>2. Waits'
    BY <1>1, <1>5 DEF Waits, srVars
  <2>3. QED
    BY <2>1, <2>2
<1>7. QED
  BY <1>3, <1>4, <1>6 DEF PathInv

LEMMA NotSynchronisedKeeps == ASSUME PathInv, NotSynchronised PROVE PathInv'
<1>1. /\ pc = "fill" /\ NewPuschs # {} /\ Return /\ state' = "preamble"
      /\ held' = held \cup {Slot}
      /\ list' = list /\ ta' = ta /\ gf' = gf /\ promised' = promised /\ UNCHANGED srVars
  BY DEF NotSynchronised, Iterates, Unsynchronised
<1>2. Slot \in UlSlots
  BY <1>1 DEF PathInv, SlotInv, InSlot
<1>3. SlotInv'
  BY <1>1, ReturnFacts DEF PathInv, SlotInv, SlotTypes
<1>4. ListTypes' /\ Filed' /\ Watched' \subseteq Watched /\ now \notin Watched'
  BY <1>1, <1>2 DEF PathInv, ListInv, ListTypes, Filed, Watched, Slot
<1>5. \A at \in Watched' : Counted(at)'
  BY <1>1, <1>4 DEF PathInv, ListInv, Counts, Counted, Full
<1>6. ListInv'
  BY <1>1, <1>4, <1>5, NextSlotKeeps DEF PathInv, SlotInv
<1>7. sr.pending => remain > 0
  <2>1. ~NoPuschLeft
    <3>1. PICK i \in DOMAIN Mine : Mine[i].kind = "pusch"
      BY <1>1 DEF NewPuschs, Puschs
    <3>2. DOMAIN Mine = 1 .. Len(Mine)
      BY <1>2, PduTypes DEF PathInv, ListInv, Mine
    <3>3. QED
      BY <3>1, <3>2 DEF NoPuschLeft
  <2>2. QED
    BY <1>1, <2>1 DEF PathInv, Waits
<1>8. SrInv' /\ Waits'
  <2>1. SrInv'
    BY <1>1, RequestSteps DEF PathInv
  <2>2. Waits'
    BY <1>1, <1>7 DEF Waits, srVars
  <2>3. QED
    BY <2>1, <2>2
<1>9. QED
  BY <1>3, <1>6, <1>8 DEF PathInv

LEMMA EndKeeps == ASSUME PathInv, End PROVE PathInv'
<1>1. /\ pc = "end" /\ Return
      /\ list' = list /\ held' = held /\ state' = state /\ ta' = ta /\ gf' = gf
      /\ promised' = promised /\ remain' = remain
      /\ IF state = "connected" THEN UpdateSr(gf)
         ELSE bsrSent' = FALSE /\ UNCHANGED <<rlc, remain, sr, srConf, withdrawn, asked>>
  BY DEF End, UpdateSr
<1>2. SlotInv' /\ gf \in BOOLEAN
  BY <1>1, ReturnFacts DEF PathInv, SlotInv, SlotTypes
<1>3. ListTypes' /\ Filed' /\ Watched' = Watched
  BY <1>1 DEF PathInv, ListInv, ListTypes, Filed, Watched
<1>4. \A at \in Watched : Counted(at)'
  BY <1>1 DEF PathInv, ListInv, Counts, Counted, Full
<1>5. \A at \in Watched : promised[at] # 0 => at # now
  <2>1. SUFFICES ASSUME NEW at \in Watched, at = now, at \in Coming PROVE FALSE
    BY DEF PathInv, ListInv, Promises
  <2>2. PICK d \in 1 .. SlotsPerFrame - 1 : at = Ahead(d)
    BY <1>1, <2>1 DEF Coming
  <2>3. QED
    BY <2>1, <2>2, LaterSlot DEF PathInv, SlotInv, SlotTypes, Slot
<1>6. ListInv'
  BY <1>1, <1>3, <1>4, <1>5, NextSlotKeeps DEF PathInv, SlotInv
<1>7. SrInv'
  BY <1>1, <1>2, RequestSteps DEF PathInv
<1>8. Waits'
  <2>1. SrTypes
    BY SrNumbers DEF PathInv
  <2>2. CASE state = "connected"
    <3>1. sr'.pending => remain # 0
      <4>1. CASE gf \/ remain = 0
        BY <1>1, <2>2, <4>1, NoSrTypes DEF UpdateSr
      <4>2. QED
        BY <4>1
    <3>2. QED
      BY <1>1, <2>1, <3>1 DEF Waits, SrTypes
  <2>3. CASE state # "connected"
    BY <1>1, <2>3 DEF PathInv, Waits
  <2>4. QED
    BY <2>2, <2>3
<1>9. QED
  BY <1>2, <1>6, <1>7, <1>8 DEF PathInv

----------------------------------------------------------------------------
(* The uplink thread: the steps of a slot.                                  *)

\* The list of the slot, as it is and as it is replaced
LEMMA MineFacts ==
  ASSUME ListInv, SlotTypes, Slot \in UlSlots
  PROVE  /\ now \in 0 .. Cycle - 1 /\ Slot = SlotOf(now)
         /\ Mine \in Seq(Pdu) /\ Len(Mine) \in Nat /\ Len(Mine) <= MaxPdus
         /\ Mine = list[Slot].pdus /\ (Mine = <<>> <=> Len(Mine) = 0)
         /\ Full(Slot) <=> Len(Mine) >= MaxPdus
         /\ Stale(Slot, now) <=> Mine # <<>> /\ list[Slot].at # now
         /\ ~Stale(Slot, now) => \A i \in 1 .. Len(Mine) : Mine[i].for = now
<1>1. /\ now \in 0 .. Cycle - 1 /\ Slot = SlotOf(now) /\ Mine = list[Slot].pdus
      /\ Full(Slot) <=> Len(Mine) >= MaxPdus
      /\ Stale(Slot, now) <=> Mine # <<>> /\ list[Slot].at # now
  BY DEF SlotTypes, Slot, Mine, Full, Stale
<1>2. /\ Mine \in Seq(Pdu) /\ Len(Mine) \in Nat /\ Len(Mine) <= MaxPdus
      /\ Mine = <<>> <=> Len(Mine) = 0
      /\ \A i \in 1 .. Len(Mine) : Mine[i].for = list[Slot].at
  BY <1>1, PduTypes DEF ListInv, Filed
<1>3. ~Stale(Slot, now) => \A i \in 1 .. Len(Mine) : Mine[i].for = now
  BY <1>1, <1>2
<1>4. QED
  BY <1>1, <1>2, <1>3

LEMMA ReplaceFacts ==
  ASSUME ListInv, SlotTypes, Slot \in UlSlots, held' = held,
         NEW at \in 0 .. Cycle - 1, NEW new \in Seq(Pdu), Len(new) <= MaxPdus,
         list' = [list EXCEPT ![Slot] = [at |-> at, pdus |-> new]],
         promised' \in [0 .. Cycle - 1 -> Nat]
  PROVE  /\ ListTypes' /\ list'[Slot].at = at /\ list'[Slot].pdus = new
         /\ \A s \in UlSlots : s # Slot => list'[s] = list[s]
<1>1. /\ list \in [UlSlots -> [at : 0 .. Cycle - 1, pdus : Seq(Pdu)]]
      /\ \A s \in UlSlots : Len(list[s].pdus) <= MaxPdus
  BY DEF ListInv, ListTypes
<1>2. /\ list' \in [UlSlots -> [at : 0 .. Cycle - 1, pdus : Seq(Pdu)]]
      /\ list'[Slot].at = at /\ list'[Slot].pdus = new
      /\ \A s \in UlSlots : s # Slot => list'[s] = list[s]
  BY <1>1
<1>3. \A s \in UlSlots : Len(list'[s].pdus) <= MaxPdus
  BY <1>1, <1>2
<1>4. QED
  BY <1>2, <1>3 DEF ListInv, ListTypes

(* What the PHY has got in a slot after a list of it was handed over.       *)
LEMMA HandedOver ==
  ASSUME SlotTypes, InSlot, NEW pdus \in Seq(Pdu), HandOver(pdus),
         \A i \in 1 .. Len(pdus) : pdus[i].for = now
  PROVE  /\ sent' \in Seq(Pdu) /\ upset' \in BOOLEAN /\ (upset => upset')
         /\ \A i \in 1 .. Len(sent') : sent'[i].for = now
         /\ \/ upset' /\ sent' = sent
            \/ /\ sent' = sent \o pdus /\ Len(sent') = Len(sent) + Len(pdus)
               /\ \A i \in 1 .. Len(pdus) : sent'[i + Len(sent)] = pdus[i]
<1>1. /\ sent \in Seq(Pdu) /\ Len(sent) \in Nat /\ Len(pdus) \in Nat
      /\ \A i \in 1 .. Len(sent) : sent[i].for = now
  BY DEF SlotTypes, InSlot
<1>2. upset' \in BOOLEAN /\ (upset => upset')
  BY DEF HandOver, SlotTypes
<1>3. CASE Len(pdus) < MaxPdus
  <2>1. /\ sent' = sent \o pdus
        /\ sent' \in Seq(Pdu) /\ Len(sent') = Len(sent) + Len(pdus)
        /\ \A i \in 1 .. Len(sent) : sent'[i] = sent[i]
        /\ \A i \in Len(sent) + 1 .. Len(sent) + Len(pdus) : sent'[i] = pdus[i - Len(sent)]
    BY <1>1, <1>3, Joined DEF HandOver
  <2>2. \A i \in 1 .. Len(sent) + Len(pdus) :
          \/ i \in 1 .. Len(sent)
          \/ i \in Len(sent) + 1 .. Len(sent) + Len(pdus) /\ i - Len(sent) \in 1 .. Len(pdus)
    BY <1>1
  <2>3. ASSUME NEW i \in 1 .. Len(sent) + Len(pdus) PROVE sent'[i].for = now
    <3>1. CASE i \in 1 .. Len(sent)
      BY <1>1, <2>1, <3>1, Zenon
    <3>2. CASE i \in Len(sent) + 1 .. Len(sent) + Len(pdus) /\ i - Len(sent) \in 1 .. Len(pdus)
      <4>1. sent'[i] = pdus[i - Len(sent)]
        BY <2>1, <3>2, Zenon
      <4>2. QED
        BY <3>2, <4>1, Zenon
    <3>3. QED
      BY <2>2, <3>1, <3>2
  <2>4. \A i \in 1 .. Len(pdus) : /\ i + Len(sent) \in Len(sent) + 1 .. Len(sent) + Len(pdus)
                                  /\ (i + Len(sent)) - Len(sent) = i
    BY <1>1
  <2>5. \A i \in 1 .. Len(pdus) : sent'[i + Len(sent)] = pdus[i]
    BY <2>1, <2>4, Zenon
  <2>6. \A i \in 1 .. Len(sent') : sent'[i].for = now
    BY <2>1, <2>3
  <2>7. QED
    BY <1>2, <2>1, <2>5, <2>6
<1>4. CASE ~(Len(pdus) < MaxPdus)
  <2>1. sent' = sent
    BY <1>4 DEF HandOver
  <2>2. Len(pdus) >= MaxPdus
    BY <1>1, <1>4, Constants
  <2>3. upset'
    BY <2>2 DEF HandOver
  <2>4. QED
    BY <1>1, <1>2, <2>1, <2>3
<1>5. QED
  BY <1>3, <1>4

LEMMA PrachKeeps == ASSUME PathInv, Prach PROVE PathInv'
<1> DEFINE pdus == Fresh(Slot, now) \o <<Make("prach", now, FALSE)>>
           new == IF Len(pdus) < MaxPdus THEN <<>> ELSE pdus
<1>1. /\ pc = "start" /\ pc' = "fill" /\ Slot \in UlSlots /\ state # "connected" /\ state' = "rar"
      /\ Accepts(now) /\ HandOver(pdus)
      /\ list' = [list EXCEPT ![Slot] = [at |-> now, pdus |-> new]]
      /\ promised' = [promised EXCEPT ![now] = 0]
      /\ now' = now /\ lead' = lead /\ held' = held /\ ta' = ta /\ gf' = gf /\ pulled' = pulled
      /\ UNCHANGED srVars
  BY Constants DEF Prach, Fresh, Mine
<1>2. now \in 0 .. Cycle - 1 /\ Slot = SlotOf(now)
  BY <1>1, MineFacts DEF PathInv, SlotInv
<1>3. /\ pdus \in Seq(Pdu) /\ Len(pdus) \in Nat /\ Len(pdus) <= MaxPdus /\ pdus # <<>>
      /\ \A i \in 1 .. Len(pdus) : pdus[i].for = now
  <2> DEFINE f == Fresh(Slot, now)
             m == Make("prach", now, FALSE)
  <2>1. /\ f \in Seq(Pdu) /\ Len(f) \in Nat /\ \A i \in 1 .. Len(f) : f[i].for = now
        /\ Len(f) < MaxPdus
    BY <1>1, <1>2, FreshFacts DEF PathInv
  <2>2. m \in Pdu /\ m.for = now
    BY <1>2, MakeTypes
  <2> HIDE DEF f, m
  <2>3. /\ f \o <<m>> \in Seq(Pdu) /\ Len(f \o <<m>>) = Len(f) + 1
        /\ \A i \in 1 .. Len(f) : (f \o <<m>>)[i] = f[i]
        /\ (f \o <<m>>)[Len(f) + 1] = m
    BY <2>1, <2>2
  <2>4. \A i \in 1 .. Len(f) + 1 : i \in 1 .. Len(f) \/ i = Len(f) + 1
    BY <2>1
  <2>5. \A i \in 1 .. Len(f) + 1 : (f \o <<m>>)[i].for = now
    BY <2>1, <2>2, <2>3, <2>4
  <2>6. Len(f \o <<m>>) <= MaxPdus /\ f \o <<m>> # <<>>
    BY <2>1, <2>3, Constants
  <2> DEFINE q == f \o <<m>>
  <2>7. /\ q \in Seq(Pdu) /\ Len(q) \in Nat /\ Len(q) <= MaxPdus /\ q # <<>>
        /\ \A i \in 1 .. Len(q) : q[i].for = now
    BY <2>1, <2>3, <2>5, <2>6
  <2>8. q = pdus
    BY DEF f, m
  <2> HIDE DEF q, pdus
  <2>9. QED
    BY <2>7, <2>8, Zenon
<1> HIDE DEF pdus
<1>4. /\ new \in Seq(Pdu) /\ Len(new) <= MaxPdus /\ \A i \in 1 .. Len(new) : new[i].for = now
      /\ new = <<>> \/ Len(new) >= MaxPdus
  <2>1. CASE Len(pdus) < MaxPdus
    <3>1. new = <<>>
      BY <2>1
    <3> HIDE DEF new
    <3>2. <<>> \in Seq(Pdu) /\ Len(<<>>) = 0
      OBVIOUS
    <3>3. new \in Seq(Pdu) /\ Len(new) = 0
      BY <3>1, <3>2, Zenon
    <3>4. QED
      BY <3>1, <3>3, Constants
  <2>2. CASE ~(Len(pdus) < MaxPdus)
    <3>1. new = pdus
      BY <2>2
    <3>2. QED
      BY <1>3, <2>2, <3>1, Constants
  <2>3. QED
    BY <2>1, <2>2
<1> HIDE DEF new
<1>5. /\ promised' \in [0 .. Cycle - 1 -> Nat] /\ promised'[now] = 0
      /\ \A b \in 0 .. Cycle - 1 : b # now => promised'[b] = promised[b]
  BY <1>1, <1>2 DEF PathInv, ListInv, ListTypes
<1>6. /\ ListTypes' /\ list'[Slot].at = now /\ list'[Slot].pdus = new
      /\ \A s \in UlSlots : s # Slot => list'[s] = list[s]
  BY <1>1, <1>2, <1>4, <1>5, ReplaceFacts DEF PathInv, SlotInv
<1>7. Counted(now)'
  BY <1>1, <1>2, <1>4, <1>5, <1>6 DEF Counted, Full
<1>8. upset => upset'
  BY <1>1 DEF HandOver
<1>9. ListInv'
  BY <1>1, <1>2, <1>4, <1>5, <1>6, <1>7, <1>8, OwnListKeeps DEF PathInv, SlotInv
<1>10. sent' \in Seq(Pdu) /\ \A i \in 1 .. Len(sent') : sent'[i].for = now
  BY <1>1, <1>3, HandedOver DEF PathInv, SlotInv
<1>11. SlotInv'
  <2>1. upset' \in BOOLEAN
    BY <1>1 DEF HandOver, PathInv, SlotInv, SlotTypes
  <2>2. SlotTypes'
    BY <1>1, <1>10, <2>1 DEF PathInv, SlotInv, SlotTypes
  <2>3. InSlot' /\ Carried'
    BY <1>1, <1>8, <1>10 DEF PathInv, SlotInv, InSlot, Carried, Slot
  <2>4. QED
    BY <2>2, <2>3 DEF SlotInv
<1>12. SrInv' /\ Waits'
  <2>1. SrInv'
    BY <1>1, RequestSteps DEF PathInv
  <2>2. Waits'
    BY <1>1, StartWaits DEF PathInv, Waits, srVars
  <2>3. QED
    BY <2>1, <2>2
<1>13. QED
  BY <1>9, <1>11, <1>12 DEF PathInv

(* No preamble, no grant-free occasion.                                     *)
LEMMA NothingKeeps == ASSUME PathInv, NoPreamble \/ NoGrantFree PROVE PathInv'
<1>1. /\ pc = "start" /\ pc' \in {"srs", "fill"} /\ Slot \in UlSlots
      /\ now' = now /\ lead' = lead /\ list' = list /\ held' = held /\ state' = state
      /\ ta' = ta /\ gf' = gf /\ promised' = promised
      /\ pulled' = pulled /\ upset' = upset /\ sent' = sent /\ UNCHANGED srVars
  BY DEF NoPreamble, NoGrantFree, slotVars
<1>2. ListInv'
  BY <1>1, ListsKept DEF PathInv
<1>3. SlotInv'
  BY <1>1 DEF PathInv, SlotInv, SlotTypes, InSlot, Carried, Slot
<1>4. SrInv' /\ Waits'
  <2>1. SrInv'
    BY <1>1, RequestSteps DEF PathInv
  <2>2. Waits'
    BY <1>1, StartWaits DEF PathInv, Waits, srVars
  <2>3. QED
    BY <2>1, <2>2
<1>5. QED
  BY <1>2, <1>3, <1>4 DEF PathInv

LEMMA GrantFreeKeeps == ASSUME PathInv, GrantFree PROVE PathInv'
<1>1. /\ pc = "start" /\ pc' = "srs" /\ Slot \in UlSlots /\ state = "connected" /\ state' = state
      /\ list' = [list EXCEPT ![Slot] = [at |-> now, pdus |-> <<>>]]
      /\ pulled' = pulled + 1 /\ upset' = TRUE
      /\ now' = now /\ lead' = lead /\ held' = held /\ ta' = ta /\ gf' = gf
      /\ promised' = promised /\ sent' = sent
      /\ (\E bytes \in 1 .. MaxBytes : GetGrantFree(bytes)) \/ UNCHANGED srVars
  BY DEF GrantFree
<1>2. now \in 0 .. Cycle - 1 /\ Slot = SlotOf(now)
  BY <1>1, MineFacts DEF PathInv, SlotInv
<1>3. <<>> \in Seq(Pdu) /\ Len(<<>>) <= MaxPdus /\ Len(<<>>) = 0
  BY Constants
<1>4. promised' \in [0 .. Cycle - 1 -> Nat]
  BY <1>1 DEF PathInv, ListInv, ListTypes
<1>5. /\ ListTypes' /\ list'[Slot].at = now /\ list'[Slot].pdus = <<>>
      /\ \A s \in UlSlots : s # Slot => list'[s] = list[s]
  BY <1>1, <1>2, <1>3, <1>4, ReplaceFacts DEF PathInv, SlotInv
<1>6. ListInv'
  BY <1>1, <1>2, <1>3, <1>5, OwnListKeeps DEF PathInv, SlotInv
<1>7. SlotInv'
  BY <1>1 DEF PathInv, SlotInv, SlotTypes, InSlot, Carried, Slot
<1>8. SrInv'
  BY <1>1, TakeSteps, RequestSteps DEF PathInv
<1>9. Waits'
  <2>1. Mine' = <<>>
    BY <1>1, <1>5 DEF Mine, Slot
  <2>2. QED
    BY <1>1, <2>1 DEF Waits
<1>10. QED
  BY <1>6, <1>7, <1>8, <1>9 DEF PathInv

\* The uplink thread files a PDU in the list of its slot, or none.
LEMMA FileNowKeeps ==
  ASSUME ListInv, SlotTypes, pc # "end", pc' # "end", Slot \in UlSlots,
         NEW pdu \in Pdu, pdu.for = now, LockGet(now, pdu) \/ UNCHANGED <<list, promised>>,
         now' = now, held' = held, upset' = upset
  PROVE  ListInv'
<1>1. now \in Coming /\ SlotOf(now) = Slot
  BY AheadFacts DEF SlotTypes, Slot
<1>2. CASE LockGet(now, pdu)
  BY <1>1, <1>2, LockGetKeeps
<1>3. CASE UNCHANGED <<list, promised>>
  BY <1>3, ListsKept
<1>4. QED
  BY <1>2, <1>3

\* What a PDU filed now makes of the list of the slot
LEMMA FileNowFacts ==
  ASSUME ListInv, SlotTypes, Slot \in UlSlots, ~Stale(Slot, now),
         NEW pdu \in Pdu, pdu.for = now, LockGet(now, pdu), now' = now
  PROVE  /\ ~Stale(Slot, now)'
         /\ \/ Mine' = Mine
            \/ Mine' \in Seq(Pdu) /\ Mine' = Append(Mine, pdu)
         /\ Mine = <<>> => Mine' = Append(Mine, pdu)
<1>1. /\ now \in 0 .. Cycle - 1 /\ Slot = SlotOf(now) /\ Mine \in Seq(Pdu)
      /\ Mine = list[Slot].pdus /\ (Full(Slot) <=> Len(Mine) >= MaxPdus)
      /\ Mine = <<>> <=> Len(Mine) = 0
  BY MineFacts
<1>2. Mine' = list'[Slot].pdus
  BY DEF Mine, Slot
<1>3. Fresh(Slot, now) = Mine
  BY DEF Fresh, Mine
<1>4. /\ list'[Slot].at = now
      /\ \/ Accepts(now) /\ list'[Slot].pdus = Append(Fresh(Slot, now), pdu)
         \/ ~Accepts(now) /\ list'[Slot].pdus = list[Slot].pdus /\ Full(Slot)
  BY <1>1, LockGetFacts
<1>5. ~Stale(Slot, now)'
  BY <1>4 DEF Stale, Slot
<1>6. Append(Mine, pdu) \in Seq(Pdu)
  BY <1>1
<1>7. Mine = <<>> => ~Full(Slot)
  BY <1>1, Constants
<1>8. QED
  BY <1>1, <1>2, <1>3, <1>4, <1>5, <1>6, <1>7

LEMMA SrsKeeps == ASSUME PathInv, Srs PROVE PathInv'
<1> DEFINE pdu == Make("srs", now, FALSE)
<1>1. /\ pc = "srs" /\ pc' = "fill" /\ ReadStatus
      /\ LockGet(now, pdu) \/ UNCHANGED <<list, promised>>
      /\ now' = now /\ lead' = lead /\ held' = held /\ state' = state /\ ta' = ta /\ gf' = gf
      /\ pulled' = pulled /\ upset' = upset /\ sent' = sent
  BY DEF Srs, slotVars
<1>2. Slot \in UlSlots /\ now \in 0 .. Cycle - 1
  BY <1>1 DEF PathInv, SlotInv, SlotTypes, InSlot
<1>3. pdu \in Pdu /\ pdu.for = now /\ pdu.kind = "srs"
  BY <1>2, MakeTypes
<1> HIDE DEF pdu
<1>4. ListInv'
  BY <1>1, <1>2, <1>3, FileNowKeeps DEF PathInv, SlotInv
<1>5. SlotInv'
  BY <1>1, <1>2 DEF PathInv, SlotInv, SlotTypes, InSlot, Carried, Slot
<1>6. SrInv' /\ sr' = sr /\ (remain > 0 => remain' > 0)
  BY <1>1, RlcSteps DEF PathInv
<1>7. ASSUME Mine = <<>> PROVE NoPuschLeft'
  <2>1. ~Stale(Slot, now) /\ Slot' = Slot
    BY <1>1, <1>7 DEF Stale, Mine, Slot
  <2>2. CASE LockGet(now, pdu)
    <3>1. ~Stale(Slot, now)' /\ Mine' = Append(Mine, pdu)
      BY <1>1, <1>2, <1>3, <1>7, <2>1, <2>2, FileNowFacts DEF PathInv, SlotInv
    <3>2. Mine' = <<pdu>>
      BY <1>7, <3>1
    <3>3. QED
      BY <1>3, <3>1, <3>2 DEF NoPuschLeft
  <2>3. CASE UNCHANGED <<list, promised>>
    <3>1. Mine' = <<>> /\ ~Stale(Slot, now)'
      BY <1>1, <1>7, <2>1, <2>3 DEF Mine, Stale, Slot
    <3>2. QED
      BY <3>1 DEF NoPuschLeft
  <2>4. QED
    BY <1>1, <2>2, <2>3
<1>8. Waits'
  <2>1. sr.pending => remain > 0 \/ (state = "connected" /\ Mine = <<>>)
    BY <1>1 DEF PathInv, Waits
  <2>2. sr'.pending => remain' > 0 \/ (state' = "connected" /\ NoPuschLeft')
    BY <1>1, <1>6, <1>7, <2>1
  <2>3. QED
    BY <1>1, <2>2 DEF Waits
<1>9. QED
  BY <1>4, <1>5, <1>6, <1>8 DEF PathInv

LEMMA PucchKeeps == ASSUME PathInv, Pucch PROVE PathInv'
<1> DEFINE pdu == Make("pucch", now, FALSE)
<1>1. /\ pc = "pucch" /\ pc' = "phy"
      /\ LockGet(now, pdu) \/ UNCHANGED <<list, promised>>
      /\ (state = "connected" /\ SendSr) \/ UNCHANGED srVars
      /\ now' = now /\ lead' = lead /\ held' = held /\ state' = state /\ ta' = ta /\ gf' = gf
      /\ pulled' = pulled /\ upset' = upset /\ sent' = sent
  BY DEF Pucch, slotVars
<1>2. Slot \in UlSlots /\ now \in 0 .. Cycle - 1 /\ ~Stale(Slot, now)
  BY <1>1 DEF PathInv, SlotInv, SlotTypes, InSlot
<1>3. pdu \in Pdu /\ pdu.for = now
  BY <1>2, MakeTypes
<1> HIDE DEF pdu
<1>4. ListInv'
  BY <1>1, <1>2, <1>3, FileNowKeeps DEF PathInv, SlotInv
<1>5. Mine \in Seq(Pdu) /\ Len(Mine) \in Nat
  BY <1>2, MineFacts DEF PathInv, SlotInv
<1>6. ~Stale(Slot, now)' /\ (Mine' = Mine \/ (Mine' \in Seq(Pdu) /\ Mine' = Append(Mine, pdu)))
  <2>1. CASE LockGet(now, pdu)
    BY <1>1, <1>2, <1>3, <2>1, FileNowFacts DEF PathInv, SlotInv
  <2>2. CASE UNCHANGED <<list, promised>>
    BY <1>1, <1>2, <2>2 DEF Mine, Slot, Stale
  <2>3. QED
    BY <1>1, <2>1, <2>2
<1>7. upset \/ pulled <= Cardinality(Carrying(Mine))
  BY <1>1 DEF PathInv, SlotInv, Carried
<1>8. upset' \/ pulled' <= Cardinality(Carrying(Mine'))
  <2>1. CASE Mine' = Mine
    BY <1>1, <1>7, <2>1
  <2>2. CASE Mine' \in Seq(Pdu) /\ Mine' = Append(Mine, pdu)
    <3>1. /\ Len(Append(Mine, pdu)) = Len(Mine) + 1
          /\ \A i \in 1 .. Len(Mine) : Append(Mine, pdu)[i] = Mine[i]
      BY <1>3, <1>5
    <3>2. \A i \in Carrying(Mine) : i + 0 = i /\ i \in 1 .. Len(Mine) /\ i \in 1 .. Len(Mine) + 1
      BY <1>5 DEF Carrying
    <3>3. \A i \in Carrying(Mine) : i + 0 \in Carrying(Mine')
      BY <2>2, <3>1, <3>2 DEF Carrying
    <3>4. /\ Cardinality(Carrying(Mine)) \in Nat /\ Cardinality(Carrying(Mine')) \in Nat
          /\ Cardinality(Carrying(Mine)) <= Cardinality(Carrying(Mine'))
      BY <1>5, <2>2, <3>3, CarryMore
    <3>5. pulled \in Nat
      BY DEF PathInv, SlotInv, SlotTypes
    <3>6. QED
      BY <1>1, <1>7, <3>4, <3>5
  <2>3. QED
    BY <1>6, <2>1, <2>2
<1>9. SlotInv'
  BY <1>1, <1>2, <1>6, <1>8 DEF PathInv, SlotInv, SlotTypes, InSlot, Carried, Slot
<1>10. SrInv'
  BY <1>1, RequestSteps DEF PathInv
<1>11. Waits'
  <2>1. sr'.pending = sr.pending /\ remain' = remain
    BY <1>1 DEF SendSr, PathInv, SrInv, SrTypeOK, srVars
  <2>2. QED
    BY <1>1, <2>1 DEF PathInv, Waits
<1>12. QED
  BY <1>4, <1>9, <1>10, <1>11 DEF PathInv

(* The PUSCHs of the list are filled.                                       *)
LEMMA FillFacts ==
  ASSUME ListInv, SlotTypes, Slot \in UlSlots, Fill
  PROVE  /\ ListTypes' /\ list'[Slot].at = list[Slot].at /\ Len(list'[Slot].pdus) = Len(Mine)
         /\ Mine' = list'[Slot].pdus /\ Mine' \in Seq(Pdu)
         /\ \A s \in UlSlots : s # Slot => list'[s] = list[s]
         /\ \A i \in 1 .. Len(Mine) : Mine'[i].for = Mine[i].for
         /\ ToFill \subseteq Carrying(Mine') \/ state # "connected"
<1> DEFINE new == [i \in DOMAIN Mine |-> [Mine[i] EXCEPT !.filled = i \in ToFill]]
<1>1. /\ list' = [list EXCEPT ![Slot].pdus = new]
      /\ now' = now /\ held' = held /\ promised' = promised
  BY DEF Fill
<1>2. /\ Mine \in Seq(Pdu) /\ Len(Mine) \in Nat /\ Len(Mine) <= MaxPdus
      /\ Mine = list[Slot].pdus /\ DOMAIN Mine = 1 .. Len(Mine)
  BY MineFacts
<1>3. \A i \in 1 .. Len(Mine) :
        /\ Mine[i] \in Pdu /\ new[i] \in Pdu
        /\ new[i].kind = Mine[i].kind /\ new[i].for = Mine[i].for
        /\ new[i].new = Mine[i].new /\ (i \in ToFill => new[i].filled)
  <2>1. ASSUME NEW i \in 1 .. Len(Mine)
        PROVE  /\ Mine[i] \in Pdu /\ new[i] \in Pdu
               /\ new[i].kind = Mine[i].kind /\ new[i].for = Mine[i].for
               /\ new[i].new = Mine[i].new /\ (i \in ToFill => new[i].filled)
    <3>1. Mine[i] \in Pdu
      BY <1>2
    <3>2. new[i] = [Mine[i] EXCEPT !.filled = i \in ToFill]
      BY <1>2
    <3>3. (i \in ToFill) \in BOOLEAN
      OBVIOUS
    <3> HIDE DEF new
    <3>4. QED
      BY <3>1, <3>2, <3>3 DEF Pdu
  <2>2. QED
    BY <2>1
<1>4. new \in Seq(Pdu) /\ Len(new) = Len(Mine)
  <2>1. new \in [1 .. Len(Mine) -> Pdu]
    BY <1>2, <1>3
  <2> HIDE DEF new
  <2>2. QED
    BY <1>2, <2>1
<1> HIDE DEF new
<1>5. list \in [UlSlots -> [at : 0 .. Cycle - 1, pdus : Seq(Pdu)]]
  BY DEF ListInv, ListTypes
<1>6. list' = [list EXCEPT ![Slot] = [at |-> list[Slot].at, pdus |-> new]]
  <2>1. list[Slot] \in [at : 0 .. Cycle - 1, pdus : Seq(Pdu)]
    BY <1>5
  <2>2. [list[Slot] EXCEPT !.pdus = new] = [at |-> list[Slot].at, pdus |-> new]
    BY <2>1
  <2>3. list' = [list EXCEPT ![Slot] = [list[Slot] EXCEPT !.pdus = new]]
    BY <1>1
  <2>4. QED
    BY <2>2, <2>3
<1>7. list[Slot].at \in 0 .. Cycle - 1 /\ promised' \in [0 .. Cycle - 1 -> Nat]
  BY <1>1, <1>5 DEF ListInv, ListTypes
<1>8. /\ ListTypes' /\ list'[Slot].at = list[Slot].at /\ list'[Slot].pdus = new
      /\ \A s \in UlSlots : s # Slot => list'[s] = list[s]
  BY <1>1, <1>2, <1>4, <1>6, <1>7, ReplaceFacts
<1>9. Mine' = new
  BY <1>1, <1>8 DEF Mine, Slot
<1>10. ToFill \subseteq Carrying(new) \/ state # "connected"
  <2>1. SUFFICES ASSUME state = "connected", NEW i \in ToFill PROVE i \in Carrying(new)
    OBVIOUS
  <2>2. i \in 1 .. Len(Mine) /\ Mine[i].kind = "pusch" /\ Mine[i].new
    BY <1>2, <2>1 DEF ToFill, NewPuschs, Puschs
  <2>3. QED
    BY <1>3, <1>4, <2>1, <2>2 DEF Carrying
<1>11. QED
  BY <1>3, <1>4, <1>8, <1>9, <1>10

LEMMA FillKeeps == ASSUME PathInv, Fill PROVE PathInv'
<1>1. /\ pc = "fill" /\ pc' = "pucch" /\ ~Stale(Slot, now) /\ Slot \notin held
      /\ now' = now /\ lead' = lead /\ held' = held /\ ta' = ta /\ gf' = gf
      /\ promised' = promised /\ upset' = upset /\ sent' = sent
      /\ pulled' = IF state = "connected" THEN pulled + Cardinality(ToFill) ELSE pulled
      /\ IF state = "connected" /\ ToFill # {}
         THEN \E bytes \in 0 .. MaxBytes, bsr \in BOOLEAN : GetSdu(bytes, bsr)
         ELSE UNCHANGED srVars
      /\ state' = IF state = "rar" /\ ToFill # {} THEN "resolution" ELSE state
  BY DEF Fill, Iterates
<1>2. Slot \in UlSlots /\ Slot' = Slot
  BY <1>1 DEF PathInv, SlotInv, InSlot, Slot
<1>3. /\ now \in 0 .. Cycle - 1 /\ Slot = SlotOf(now) /\ Mine = list[Slot].pdus
      /\ Len(Mine) \in Nat /\ (Mine = <<>> <=> Len(Mine) = 0)
      /\ Mine # <<>> => list[Slot].at = now
      /\ \A i \in 1 .. Len(Mine) : Mine[i].for = list[Slot].at
  BY <1>1, <1>2, MineFacts DEF PathInv, SlotInv, ListInv, Filed
<1>4. /\ ListTypes' /\ list'[Slot].at = list[Slot].at /\ Len(list'[Slot].pdus) = Len(Mine)
      /\ Mine' = list'[Slot].pdus /\ Mine' \in Seq(Pdu)
      /\ \A s \in UlSlots : s # Slot => list'[s] = list[s]
      /\ \A i \in 1 .. Len(Mine) : Mine'[i].for = Mine[i].for
      /\ ToFill \subseteq Carrying(Mine') \/ state # "connected"
  BY <1>2, FillFacts DEF PathInv, SlotInv
<1>5. Mine' = <<>> <=> Mine = <<>>
  BY <1>3, <1>4
<1>6. ListInv'
  <2>1. SlotOf(list'[Slot].at) = Slot
    BY <1>2, <1>4 DEF PathInv, ListInv, Filed
  <2>2. \A i \in 1 .. Len(list'[Slot].pdus) : list'[Slot].pdus[i].for = list'[Slot].at
    BY <1>3, <1>4
  <2>3. list'[Slot].at = now \/ list'[Slot].pdus = <<>>
    BY <1>3, <1>4, <1>5
  <2>4. ASSUME now \in Watched PROVE upset' \/ Counted(now)'
    <3>1. upset \/ Counted(now)
      BY <2>4 DEF PathInv, ListInv, Counts
    <3>2. Counted(now) => Counted(now)'
      BY <1>1, <1>2, <1>3, <1>4, <1>5 DEF Counted, Full
    <3>3. QED
      BY <1>1, <3>1, <3>2
  <2>5. QED
    BY <1>1, <1>2, <1>4, <2>1, <2>2, <2>3, <2>4, OwnListKeeps DEF PathInv, SlotInv
<1>7. SlotInv'
  <2>1. /\ IsFiniteSet(Carrying(Mine')) /\ Cardinality(Carrying(Mine')) \in Nat
    <3>1. 1 \in Int /\ Len(Mine') \in Int /\ Carrying(Mine') \in SUBSET (1 .. Len(Mine'))
      BY <1>4 DEF Carrying
    <3>2. IsFiniteSet(1 .. Len(Mine'))
      BY <3>1, FS_Interval
    <3>3. QED
      BY <3>1, <3>2, FS_Subset, FS_CardinalityType
  <2>2. /\ pulled \in Nat /\ (upset \/ pulled = 0)
    BY <1>1 DEF PathInv, SlotInv, SlotTypes, Carried
  <2>3. CASE state = "connected"
    <3>1. /\ IsFiniteSet(ToFill) /\ Cardinality(ToFill) \in Nat
          /\ Cardinality(ToFill) <= Cardinality(Carrying(Mine'))
      <4>1. IsFiniteSet(ToFill) /\ Cardinality(ToFill) <= Cardinality(Carrying(Mine'))
        BY <1>4, <2>1, <2>3, FS_Subset
      <4>2. QED
        BY <4>1, FS_CardinalityType
    <3>2. pulled' = pulled + Cardinality(ToFill)
      BY <1>1, <2>3
    <3>3. pulled' \in Nat /\ (upset' \/ pulled' <= Cardinality(Carrying(Mine')))
      BY <1>1, <2>1, <2>2, <3>1, <3>2
    <3>4. ~Stale(Slot, now)'
      BY <1>1, <1>2, <1>3, <1>4, <1>5 DEF Stale
    <3>5. QED
      BY <1>1, <1>2, <2>3, <3>3, <3>4 DEF PathInv, SlotInv, SlotTypes, InSlot, Carried
  <2>4. CASE state # "connected"
    <3>1. pulled' \in Nat /\ (upset' \/ pulled' <= Cardinality(Carrying(Mine')))
      BY <1>1, <2>1, <2>2, <2>4
    <3>2. ~Stale(Slot, now)'
      BY <1>1, <1>2, <1>3, <1>4, <1>5 DEF Stale
    <3>3. state' \in {"connected", "preamble", "rar", "resolution"}
      BY <1>1 DEF PathInv, SlotInv, SlotTypes
    <3>4. QED
      BY <1>1, <1>2, <3>1, <3>2, <3>3 DEF PathInv, SlotInv, SlotTypes, InSlot, Carried
  <2>5. QED
    BY <2>3, <2>4
<1>8. SrInv' /\ Waits'
  <2>1. CASE state = "connected" /\ ToFill # {}
    <3>1. \E bytes \in 0 .. MaxBytes, bsr \in BOOLEAN : GetSdu(bytes, bsr)
      BY <1>1, <2>1
    <3>2. SrInv'
      BY <3>1, TakeSteps DEF PathInv
    <3>3. state' = "connected"
      BY <1>1, <2>1
    <3>4. QED
      BY <1>1, <3>2, <3>3 DEF Waits
  <2>2. CASE ~(state = "connected" /\ ToFill # {})
    <3>1. UNCHANGED srVars
      BY <1>1, <2>2
    <3>2. SrInv'
      BY <3>1, RequestSteps DEF PathInv
    <3>3. sr.pending => remain > 0 \/ state = "connected"
      BY <1>1 DEF PathInv, Waits
    <3>4. state = "connected" => state' = "connected"
      BY <1>1
    <3>5. sr' = sr /\ remain' = remain
      BY <3>1 DEF srVars
    <3>6. QED
      BY <1>1, <3>2, <3>3, <3>4, <3>5 DEF Waits
  <2>3. QED
    BY <2>1, <2>2
<1>9. QED
  BY <1>6, <1>7, <1>8 DEF PathInv

(* The list goes to the PHY.                                                *)
LEMMA PhyKeeps == ASSUME PathInv, Phy PROVE PathInv'
<1>1. /\ pc = "phy" /\ pc' = "end" /\ HandOver(Mine) /\ GivenUp
      /\ now' = now /\ lead' = lead /\ held' = held /\ state' = state /\ ta' = ta /\ gf' = gf
      /\ pulled' = pulled /\ UNCHANGED srVars
  BY DEF Phy, GivenUp
<1>2. Slot \in UlSlots /\ now \in 0 .. Cycle - 1 /\ ~Stale(Slot, now) /\ Slot' = Slot
  BY <1>1 DEF PathInv, SlotInv, SlotTypes, InSlot, Slot
<1>3. /\ Mine \in Seq(Pdu) /\ Len(Mine) \in Nat
      /\ \A i \in 1 .. Len(Mine) : Mine[i].for = now
  BY <1>2, MineFacts DEF PathInv, SlotInv
<1>4. ListInv'
  <2>1. /\ ListTypes' /\ Filed'
        /\ \A at \in Watched' : Counted(at)'
        /\ \A at \in Watched' : promised'[at] # 0 => promised[at] # 0 /\ at # now
    BY <1>1, <1>2, GivenUpFacts DEF PathInv, SlotInv
  <2>2. Watched' = Watched
    BY <1>1 DEF Watched
  <2>3. Promises'
    <3>1. SUFFICES ASSUME NEW at \in Watched, promised'[at] # 0 PROVE at \in Coming'
      BY <2>2 DEF Promises
    <3>2. at \in Coming /\ at # now
      BY <2>1, <2>2, <3>1 DEF PathInv, ListInv, Promises
    <3>3. QED
      BY <1>1, <1>2, <3>2, StillComing
  <2>4. QED
    BY <2>1, <2>3 DEF ListInv, Counts
<1>5. /\ sent' \in Seq(Pdu) /\ upset' \in BOOLEAN /\ (upset => upset')
      /\ \A i \in 1 .. Len(sent') : sent'[i].for = now
      /\ \/ upset' /\ sent' = sent
         \/ /\ sent' = sent \o Mine /\ Len(sent') = Len(sent) + Len(Mine)
            /\ \A i \in 1 .. Len(Mine) : sent'[i + Len(sent)] = Mine[i]
  BY <1>1, <1>3, HandedOver DEF PathInv, SlotInv
<1>6. upset' \/ pulled' <= Cardinality(Carrying(sent'))
  <2>1. SUFFICES ASSUME ~upset' PROVE pulled' <= Cardinality(Carrying(sent'))
    OBVIOUS
  <2>2. /\ pulled \in Nat /\ Len(sent) \in Nat /\ pulled <= Cardinality(Carrying(Mine))
    BY <1>1, <1>5, <2>1 DEF PathInv, SlotInv, SlotTypes, Carried
  <2>3. \A i \in Carrying(Mine) : i + Len(sent) \in Carrying(sent')
    <3>1. ASSUME NEW i \in Carrying(Mine) PROVE i + Len(sent) \in Carrying(sent')
      <4>1. /\ i \in 1 .. Len(Mine) /\ Mine[i].kind = "pusch" /\ Mine[i].new /\ Mine[i].filled
        BY <3>1 DEF Carrying
      <4>2. i + Len(sent) \in 1 .. Len(sent')
        BY <1>3, <1>5, <2>1, <2>2, <4>1
      <4>3. sent'[i + Len(sent)] = Mine[i]
        BY <1>5, <2>1, <4>1
      <4>4. QED
        BY <4>1, <4>2, <4>3 DEF Carrying
    <3>2. QED
      BY <3>1
  <2>4. /\ Cardinality(Carrying(Mine)) \in Nat /\ Cardinality(Carrying(sent')) \in Nat
        /\ Cardinality(Carrying(Mine)) <= Cardinality(Carrying(sent'))
    BY <1>3, <1>5, <2>2, <2>3, CarryMore
  <2>5. QED
    BY <1>1, <2>2, <2>4
<1>7. SlotInv'
  BY <1>1, <1>2, <1>5, <1>6 DEF PathInv, SlotInv, SlotTypes, InSlot, Carried
<1>8. SrInv'
  BY <1>1, RequestSteps DEF PathInv
<1>9. Waits'
  BY <1>1 DEF PathInv, Waits, srVars
<1>10. QED
  BY <1>4, <1>7, <1>8, <1>9 DEF PathInv

----------------------------------------------------------------------------
(* The invariant of every behaviour.                                        *)

LEMMA PathInit == Init => PathInv
<1>1. SUFFICES ASSUME Init PROVE PathInv
  OBVIOUS
<1>2. /\ now \in 0 .. Cycle - 1 /\ lead = 1 /\ pc = "start"
      /\ list = [s \in UlSlots |-> [at |-> s, pdus |-> <<>>]]
      /\ held = {} /\ state = "connected" /\ ta = TRUE /\ gf \in BOOLEAN
      /\ promised = [at \in 0 .. Cycle - 1 |-> 0]
      /\ pulled = 0 /\ upset = FALSE /\ sent = <<>> /\ SrInit
  BY <1>1 DEF Init
<1>3. /\ <<>> \in Seq(Pdu) /\ Len(<<>>) = 0 /\ Len(<<>>) <= MaxPdus
  BY Constants
<1>4. \A s \in UlSlots : /\ s \in 0 .. Cycle - 1 /\ SlotOf(s) = s
                         /\ list[s].at = s /\ list[s].pdus = <<>>
  <2>1. ASSUME NEW s \in UlSlots PROVE s \in 0 .. Cycle - 1 /\ SlotOf(s) = s
    <3>1. s \in Nat /\ s < SlotsPerFrame /\ s < Cycle /\ s \in 0 .. SlotsPerFrame - 1
      BY Constants
    <3>2. s % SlotsPerFrame = s
      BY <3>1, Constants
    <3>3. QED
      BY <3>1, <3>2, Constants DEF SlotOf
  <2>2. QED
    BY <1>2, <2>1
<1>5. ListTypes
  <2>1. list \in [UlSlots -> [at : 0 .. Cycle - 1, pdus : Seq(Pdu)]]
    BY <1>2, <1>3, <1>4
  <2>2. QED
    BY <1>2, <1>3, <1>4, <2>1 DEF ListTypes
<1>6. Filed
  BY <1>3, <1>4 DEF Filed
<1>7. Counts /\ Promises
  <2>1. \A at \in Watched : promised[at] = 0 /\ list[SlotOf(at)].pdus = <<>>
    BY <1>2, <1>4 DEF Watched
  <2>2. QED
    BY <2>1 DEF Counts, Counted, Promises
<1>8. SlotInv
  <2>1. SlotTypes
    <3>1. lead \in 1 .. MaxLead /\ pulled \in Nat
      BY <1>2, Constants
    <3>2. sent \in Seq(Pdu)
      BY <1>2, <1>3, Zenon
    <3>3. QED
      BY <1>2, <3>1, <3>2 DEF SlotTypes
  <2>2. InSlot /\ Carried
    BY <1>2, <1>3 DEF InSlot, Carried
  <2>3. QED
    BY <2>1, <2>2 DEF SlotInv
<1>9. SrInv /\ Waits
  <2>1. SrTypeOK
    <3>1. 0 \in 0 .. MaxBytes /\ 0 \in 0 .. SrTransMax
      BY UeSrAssumption
    <3>2. /\ rlc = 0 /\ remain = 0 /\ sr = NoSr /\ srConf = TRUE
          /\ bsrSent = FALSE /\ withdrawn = FALSE /\ asked = 0
      BY <1>2 DEF SrInit
    <3>3. QED
      BY <3>1, <3>2, NoSrTypes DEF SrTypeOK
  <2>2. QED
    BY <1>2, <2>1, NoSrTypes DEF SrInit, SrInv, Waits
<1>10. QED
  BY <1>5, <1>6, <1>7, <1>8, <1>9 DEF PathInv, ListInv

LEMMA Stutters == ASSUME PathInv, UNCHANGED vars PROVE PathInv'
<1>1. /\ list' = list /\ promised' = promised /\ now' = now /\ lead' = lead /\ pc' = pc
      /\ held' = held /\ state' = state /\ ta' = ta /\ gf' = gf /\ pulled' = pulled
      /\ upset' = upset /\ sent' = sent /\ UNCHANGED srVars
  BY DEF vars
<1>2. ListInv'
  BY <1>1, ListsKept DEF PathInv
<1>3. SlotInv'
  BY <1>1, SlotKept DEF PathInv, SlotInv, SlotTypes
<1>4. SrInv' /\ Waits'
  BY <1>1, RequestSteps, WaitsKept DEF PathInv, SlotInv, srVars
<1>5. QED
  BY <1>2, <1>3, <1>4 DEF PathInv

LEMMA PathStep == PathInv /\ [Next]_vars => PathInv'
<1>1. SUFFICES ASSUME PathInv, [Next]_vars PROVE PathInv'
  OBVIOUS
<1>2. CASE UNCHANGED vars
  BY <1>1, <1>2, Stutters
<1>3. CASE DlThread
  BY <1>1, <1>3, DlSlotKeeps, ControlKeeps, FlushSteps DEF DlThread
<1>4. CASE UlThread
  <2>1. CASE NoUlSlot \/ Prach \/ NoPreamble \/ GrantFree \/ NoGrantFree
    BY <1>1, <2>1, NoUlSlotKeeps, PrachKeeps, NothingKeeps, GrantFreeKeeps
  <2>2. CASE Srs \/ NoIterator \/ NotSynchronised \/ Fill
    BY <1>1, <2>2, SrsKeeps, NoIteratorKeeps, NotSynchronisedKeeps, FillKeeps
  <2>3. CASE SrFails \/ Pucch \/ Phy \/ End
    BY <1>1, <2>3, FlushSteps, PucchKeeps, PhyKeeps, EndKeeps
  <2>4. QED
    BY <1>4, <2>1, <2>2, <2>3 DEF UlThread
<1>5. CASE Around
  BY <1>1, <1>5, ControlKeeps
<1>6. QED
  BY <1>1, <1>2, <1>3, <1>4, <1>5 DEF Next

(* In every state the lists hold what was filed for their slots, a list of  *)
(* a slot that is to come what was promised, data taken from RLC is in the  *)
(* PUSCHs, and SRs are pending for data: ul_config_request, the steps of    *)
(* nr_ue_ul_scheduler() and nr_update_sr() keep this together.              *)
THEOREM PathInvariant == Spec => []PathInv
<1>1. Init => PathInv
  BY PathInit
<1>2. PathInv /\ [Next]_vars => PathInv'
  BY PathStep
<1>3. QED
  BY <1>1, <1>2, PTL DEF Spec

(* Types: lockGet_ul_config() never lets number_pdus exceed the capacity.   *)
THEOREM TypeCorrect == Spec => []TypeOK
<1>1. PathInv => TypeOK
  BY DEF PathInv, ListInv, ListTypes, SlotInv, SlotTypes, SrInv, TypeOK
<1>2. QED
  BY <1>1, PathInvariant, PTL

(* nr_ue_get_sdu() takes data from RLC for PUSCHs that the PHY gets in the  *)
(* same slot, unless its list was flushed, used for grant-free, or full.    *)
THEOREM DataReachesPhy == Spec => []DataSentOrDropped
<1>1. PathInv => DataSentOrDropped
  <2>1. SUFFICES ASSUME PathInv PROVE DataSentOrDropped
    OBVIOUS
  <2>2. Carriers = Carrying(sent)
    <3>1. sent \in Seq(Pdu)
      BY <2>1 DEF PathInv, SlotInv, SlotTypes
    <3>2. DOMAIN sent = 1 .. Len(sent)
      BY <3>1
    <3>3. QED
      BY <3>2 DEF Carriers, Carrying
  <2>3. QED
    BY <2>1, <2>2 DEF PathInv, SlotInv, Carried, DataSentOrDropped
<1>2. QED
  BY <1>1, PathInvariant, PTL

(* nr_update_sr() leaves an SR pending for data only, whatever the PUSCHs   *)
(* of the slot took, as long as RLC drops nothing by itself.                *)
THEOREM RequestsForData == Spec => []SrForData
<1>1. PathInv => SrForData
  <2>1. SUFFICES ASSUME PathInv PROVE SrForData
    OBVIOUS
  <2>2. SrTypes /\ (withdrawn \/ remain <= rlc)
    BY <2>1, SrNumbers DEF PathInv, SrInv
  <2>3. pc = "start" /\ sr.pending => remain > 0
    BY <2>1, StartWaits DEF PathInv
  <2>4. QED
    BY <2>2, <2>3 DEF SrTypes, SrForData
<1>2. QED
  BY <1>1, PathInvariant, PTL

(* schedule_RA_after_SR_failure() only after SrTransMax SRs went unanswered *)
(* by a BSR: sr_info's counter never runs ahead of what was asked.          *)
THEOREM AccessOnlyUnanswered == Spec => SrFailsUnanswered
<1>1. PathInv /\ [Next]_vars =>
        [srConf /\ ~srConf' /\ state = "connected" /\ state' = "preamble" =>
           asked = SrTransMax]_vars
  <2>1. SUFFICES ASSUME PathInv, Next, srConf, ~srConf', state = "connected", state' = "preamble"
                 PROVE  asked = SrTransMax
    OBVIOUS
  <2>2. CASE SrFails
    <3>1. GiveUpSr
      BY <2>2 DEF SrFails
    <3>2. SrTypes /\ sr.counter >= SrTransMax /\ sr.counter <= asked
      BY <2>1, <3>1, SrNumbers DEF GiveUpSr, PathInv, SrInv
    <3>3. asked \in 0 .. SrTransMax /\ SrTransMax \in Nat
      BY <2>1, UeSrAssumption DEF PathInv, SrInv, SrTypeOK
    <3>4. QED
      BY <3>2, <3>3 DEF SrTypes
  <2>3. CASE NotSynchronised
    BY <2>1, <2>3 DEF NotSynchronised, srVars
  <2>4. CASE DlThread \/ Around
    <3>1. state' # "preamble" \/ state # "connected"
      BY <2>1, <2>4 DEF DlThread, Around, DlSlot, TaExpiry, RaSucceeds, RaFails, ReleaseGf
    <3>2. QED
      BY <2>1, <3>1
  <2>5. CASE \/ NoUlSlot \/ Prach \/ NoPreamble \/ GrantFree \/ NoGrantFree \/ Srs
             \/ NoIterator \/ Fill \/ Pucch \/ Phy \/ End
    <3>1. state' # "preamble" \/ state # "connected"
      BY <2>1, <2>5 DEF NoUlSlot, Prach, NoPreamble, GrantFree, NoGrantFree, Srs, NoIterator,
                        Fill, Pucch, Phy, End
    <3>2. QED
      BY <2>1, <3>1
  <2>6. QED
    BY <2>1, <2>2, <2>3, <2>4, <2>5 DEF Next, UlThread
<1>2. QED
  BY <1>1, PathInvariant, PTL DEF Spec, SrFailsUnanswered

(* scheduled_response() gives the PHY the PDUs filed for this slot, none of *)
(* another slot or frame, and all that lockGet_ul_config() took.            *)
THEOREM PhyGetsWhatWasFiled == Spec => SentAsFiled
<1>1. PathInv /\ [Next]_vars =>
        [pc = "phy" /\ pc' = "end" =>
           /\ \A i \in DOMAIN sent' : sent'[i].for = now
           /\ upset' \/ Len(sent') = Len(sent) + promised[now]]_vars
  <2>1. SUFFICES ASSUME PathInv, Next, pc = "phy", pc' = "end"
                 PROVE  /\ \A i \in DOMAIN sent' : sent'[i].for = now
                        /\ upset' \/ Len(sent') = Len(sent) + promised[now]
    OBVIOUS
  <2>2. Phy
    <3>1. ~(DlThread \/ Around)
      BY <2>1 DEF DlThread, Around, DlSlot, TaExpiry, RaSucceeds, RaFails, ReleaseGf
    <3>2. ~(NoUlSlot \/ Prach \/ NoPreamble \/ GrantFree \/ NoGrantFree \/ Srs)
      BY <2>1 DEF NoUlSlot, Prach, NoPreamble, GrantFree, NoGrantFree, Srs
    <3>3. ~(NoIterator \/ NotSynchronised \/ Fill \/ SrFails \/ Pucch \/ End)
      BY <2>1 DEF NoIterator, NotSynchronised, Iterates, Fill, SrFails, Pucch, End
    <3>4. QED
      BY <2>1, <3>1, <3>2, <3>3 DEF Next, UlThread
  <2>3. Slot \in UlSlots /\ now \in 0 .. Cycle - 1 /\ ~Stale(Slot, now) /\ HandOver(Mine)
    BY <2>1, <2>2 DEF Phy, PathInv, SlotInv, SlotTypes, InSlot
  <2>4. /\ Mine \in Seq(Pdu) /\ Len(Mine) \in Nat /\ Mine = list[Slot].pdus /\ Slot = SlotOf(now)
        /\ Mine = <<>> <=> Len(Mine) = 0
        /\ Full(Slot) <=> Len(Mine) >= MaxPdus
        /\ Mine # <<>> => list[Slot].at = now
        /\ \A i \in 1 .. Len(Mine) : Mine[i].for = now
    BY <2>1, <2>3, MineFacts DEF PathInv, SlotInv
  <2>5. /\ sent' \in Seq(Pdu) /\ (upset => upset')
        /\ \A i \in 1 .. Len(sent') : sent'[i].for = now
        /\ upset' \/ Len(sent') = Len(sent) + Len(Mine)
    BY <2>1, <2>3, <2>4, HandedOver DEF PathInv, SlotInv
  <2>6. upset' \/ Len(Mine) = promised[now]
    <3>1. SUFFICES ASSUME ~upset' PROVE Len(Mine) = promised[now]
      OBVIOUS
    <3>2. ~Full(Slot)
      BY <2>3, <2>4, <3>1 DEF HandOver
    <3>3. Slot \notin held
      BY <2>1 DEF PathInv, SlotInv, InSlot
    <3>4. Counted(now)
      BY <2>1, <2>3, <2>4, <2>5, <3>1, <3>3 DEF PathInv, ListInv, Counts, Watched
    <3>5. QED
      BY <2>4, <3>2, <3>4 DEF Counted
  <2>7. DOMAIN sent' = 1 .. Len(sent')
    BY <2>5
  <2>8. QED
    BY <2>5, <2>6, <2>7
<1>2. QED
  BY <1>1, PathInvariant, PTL DEF Spec, SentAsFiled

=============================================================================
