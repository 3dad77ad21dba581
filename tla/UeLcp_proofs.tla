---------------------------- MODULE UeLcp_proofs ----------------------------
(***************************************************************************)
(* The prioritisation for any channels, priorities, rates and block sizes. *)
(* RequestFits rests on the shares of a group: as long as num of its       *)
(* channels have theirs to come, num shares with their headers fit what is *)
(* free, however little the others took.  The rest is about a whole round: *)
(* what the channels that are done with have left, and that num still      *)
(* counts those to come (RoundInv).                                        *)
(***************************************************************************)
EXTENDS UeLcp, Lemmas_proofs

\* The shares still to be given out fit in room.
SharesFit(room) == count > 1 /\ ep > 0 => num * (ep + LongHeader) <= room

LcpTypes ==
  /\ pc \in {"slot", "visit", "fill", "done"}
  /\ remain \in [Lcs -> Nat]
  /\ todo \subseteq selected /\ selected \subseteq Lcs
  /\ first \in BOOLEAN
  /\ free \in Nat /\ ep \in Nat /\ tot \in Nat /\ count \in Nat /\ num \in 0 .. count

BetweenPdus == pc = "slot" => count = 0

BetweenVisits == pc = "visit" => SharesFit(free)

\* What the channel took so far came out of its own share.
InVisit ==
  pc = "fill" =>
    /\ lc \in Lcs /\ num > 0
    /\ SharesFit(free + tot)
    /\ count > 1 => tot = 0 \/ tot < ep
    /\ first => tot = 0 \/ tot < Target

LcpInv == LcpTypes /\ BetweenPdus /\ BetweenVisits /\ InVisit

-----------------------------------------------------------------------------
(* Arithmetic. *)

\* n equal shares of a are not more than a.
LEMMA EqualShares ==
  ASSUME NEW a \in Nat, NEW n \in Nat, n > 0
  PROVE  a \div n \in Nat /\ n * (a \div n) <= a
OBVIOUS

\* One share less of n.
LEMMA OneLess ==
  ASSUME NEW n \in Nat, n > 0, NEW s \in Nat
  PROVE  /\ n * s = (n - 1) * s + s
         /\ (n - 1) * s >= 0
         /\ n * s >= s
OBVIOUS

\* A share, with its header, fits as often as there are channels.
LEMMA ShareFits ==
  ASSUME free \in Nat, NEW n \in Nat, n > 0
  PROVE  Share(n) \in Nat /\ (Share(n) > 0 => n * (Share(n) + LongHeader) <= free)
<1>1. CASE free < n * LongHeader
  BY <1>1, SMT DEF Share, LongHeader
<1>2. CASE ~(free < n * LongHeader)
  <2> DEFINE a == free - n * LongHeader
  <2>1. a \in Nat BY <1>2, SMT DEF LongHeader
  <2>2. Share(n) = a \div n BY <1>2 DEF Share
  <2>3. a \div n \in Nat /\ n * (a \div n) <= a BY <2>1, EqualShares
  <2> HIDE DEF a
  <2>4. n * (Share(n) + LongHeader) = n * Share(n) + n * LongHeader
    BY <2>2, <2>3, SMT DEF LongHeader
  <2>5. n * Share(n) <= a /\ Share(n) \in Nat BY <2>2, <2>3
  <2>6. a = free - n * LongHeader BY DEF a
  <2> QED BY <2>1, <2>4, <2>5, <2>6, SMT DEF LongHeader
<1> QED BY <1>1, <1>2

\* A channel is its own peer.
LEMMA PeersCounted ==
  ASSUME todo \subseteq Lcs, NEW x \in todo
  PROVE  SamePriority(x) \in Nat /\ SamePriority(x) > 0
<1> DEFINE S == {y \in todo : priority[y] = priority[x]}
<1>1. IsFiniteSet(S) BY UeLcpAssumption, FS_Subset DEF UeLcpAssumption
<1>2. Cardinality(S) \in Nat BY <1>1, FS_CardinalityType
<1>3. Cardinality(S) # 0 BY <1>1, FS_EmptySet
<1> QED BY <1>2, <1>3, SMT DEF SamePriority

\* Subheaders: a shorter SDU does not have a longer one.
LEMMA Headers ==
  ASSUME NEW a \in Nat
  PROVE  /\ Header(a) \in {2, 3}
         /\ a >= LongHeader => a - Header(a) \in Nat
         /\ \A b \in 0 .. a : Header(b) <= Header(a)
BY UeLcpAssumption, SMT DEF UeLcpAssumption, Header, LongHeader

\* min()
LEMMA Minimum ==
  ASSUME NEW a \in Nat, NEW b \in Nat
  PROVE  Smaller(a, b) \in Nat /\ Smaller(a, b) <= a /\ Smaller(a, b) <= b
BY SMT DEF Smaller

\* What is asked for fits the room, what the channel has, and its share.
LEMMA RequestBounds ==
  ASSUME LcpInv, pc = "fill", free >= LongHeader
  PROVE  /\ Room \in Nat /\ Request \in 0 .. Room
         /\ Request <= remain[lc]
         /\ count > 1 => tot <= ep /\ Request <= ep - tot
         /\ first => tot <= Target /\ Request <= Target - tot
<1>1. /\ free \in Nat /\ ep \in Nat /\ tot \in Nat /\ count \in Nat /\ num \in Nat
      /\ num > 0 /\ SharesFit(free + tot)
      /\ count > 1 => tot = 0 \/ tot < ep
      /\ first => tot = 0 \/ tot < Target
  BY DEF LcpInv, LcpTypes, InVisit
<1>2. Pbr[lc] \in Nat /\ remain[lc] \in Nat
  BY UeLcpAssumption DEF UeLcpAssumption, LcpInv, LcpTypes, InVisit
<1>3. Room \in Nat /\ free - Room <= LongHeader
  BY <1>1, Headers, SMT DEF Room, LongHeader
<1>4. Limit \in Nat => Request \in Nat /\ Request <= Limit /\ Request <= remain[lc]
  BY <1>2, Minimum DEF Request
<1>5. CASE count > 1
  <2>1. ep - tot <= Room /\ tot <= ep
    <3>1. CASE ep = 0 BY <3>1, <1>1, <1>3, <1>5, SMT
    <3>2. CASE ep > 0
      <4>1. num * (ep + LongHeader) <= free + tot BY <1>1, <1>5, <3>2 DEF SharesFit
      <4>2. ep + LongHeader \in Nat BY <1>1, SMT DEF LongHeader
      <4>3. num * (ep + LongHeader) >= ep + LongHeader BY <1>1, <4>2, OneLess
      <4>4. num * (ep + LongHeader) \in Int BY <1>1, <4>2, SMT
      <4>5. ep + LongHeader <= free + tot BY <1>1, <4>1, <4>2, <4>3, <4>4, SMT
      <4>6. tot <= ep BY <1>1, <1>5, SMT
      <4> QED BY <1>1, <1>3, <4>5, <4>6, SMT DEF LongHeader
    <3> QED BY <1>1, <3>1, <3>2, SMT
  <2>2. Target \in Nat /\ Target <= ep BY <1>1, <1>2, <1>5, Minimum DEF Target
  <2>3. CASE first
    <3>1. tot <= Target BY <1>1, <2>2, <2>3, SMT
    <3>2. Limit = Smaller(ep, Target - tot) BY <1>5, <2>3 DEF Limit
    <3>3. Target - tot \in Nat /\ Target - tot <= ep - tot BY <1>1, <2>2, <3>1, SMT
    <3>4. Limit \in Nat /\ Limit <= Target - tot BY <1>1, <3>2, <3>3, Minimum
    <3> QED BY <1>1, <1>3, <1>4, <2>1, <2>2, <3>1, <3>3, <3>4, SMT
  <2>4. CASE ~first
    <3>1. Limit = ep - tot BY <1>5, <2>4 DEF Limit
    <3>2. Limit \in Nat BY <1>1, <2>1, <3>1, SMT
    <3>3. Request \in 0 .. Room /\ Request <= ep - tot
      BY <1>1, <1>3, <1>4, <2>1, <3>1, <3>2, SMT
    <3> QED BY <1>3, <1>4, <2>1, <2>4, <3>2, <3>3
  <2> QED BY <2>3, <2>4
<1>6. CASE ~(count > 1)
  <2>1. Target = Pbr[lc] BY <1>6 DEF Target
  <2>2. CASE first
    <3>1. tot <= Target BY <1>1, <1>2, <2>1, <2>2, SMT
    <3>2. Limit = Smaller(Room, Target - tot) BY <1>6, <2>2 DEF Limit
    <3>3. Target - tot \in Nat BY <1>1, <1>2, <2>1, <3>1, SMT
    <3>4. Limit \in Nat /\ Limit <= Target - tot /\ Limit <= Room
      BY <1>3, <3>2, <3>3, Minimum
    <3>5. Request \in 0 .. Room /\ Request <= Target - tot
      BY <1>3, <1>4, <3>3, <3>4, SMT
    <3> QED BY <1>3, <1>4, <1>6, <3>1, <3>4, <3>5
  <2>3. CASE ~first
    <3>1. Limit = Room BY <1>6, <2>3 DEF Limit
    <3>2. Request \in 0 .. Room BY <1>3, <1>4, <3>1, SMT
    <3> QED BY <1>3, <1>4, <1>6, <2>3, <3>1, <3>2
  <2> QED BY <2>2, <2>3
<1> QED BY <1>5, <1>6

-----------------------------------------------------------------------------
(* One step for each action. *)

\* A PDU begins with room for what is set aside.
LEMMA RoomIsLeft ==
  ASSUME NEW size \in TbSizes, NEW n \in Nat, NEW periodic \in BOOLEAN, NEW reporting \in BOOLEAN
  PROVE  LET b == BsrRoom(size, n, periodic) IN size - b - PhrRoom(size - b, reporting) \in Nat
<1>1. size \in Nat /\ size >= 3 BY UeLcpAssumption DEF UeLcpAssumption
<1> DEFINE b == BsrRoom(size, n, periodic)
<1>2. b \in Nat /\ size - b \in Nat
  BY <1>1, SMT DEF BsrRoom, LongBsr, ShortBsr
<1> HIDE DEF b
<1>3. size - b - PhrRoom(size - b, reporting) \in Nat BY <1>1, <1>2, SMT DEF PhrRoom, Phr
<1> QED BY <1>3 DEF b

(* A PDU is begun with room set aside for its BSR and PHR.                   *)
LEMMA BeginsPdu ==
  ASSUME LcpInv, NEW size \in TbSizes, NEW periodic \in BOOLEAN, NEW reporting \in BOOLEAN,
         GetSdu(size, periodic, reporting)
  PROVE  LcpInv'
<1> USE DEF LcpInv, GetSdu
<1>1. WithData(LcgBytes) \in Nat
  <2>1. IsFiniteSet(Lcgs)
    <3>1. 0 \in Int /\ 7 \in Int BY SMT
    <3> QED BY <3>1, FS_Interval DEF Lcgs
  <2>2. IsFiniteSet({g \in Lcgs : LcgBytes[g] > 0}) BY <2>1, FS_Subset
  <2> QED BY <2>2, FS_CardinalityType DEF WithData
<1>2. free' \in Nat BY <1>1, RoomIsLeft
<1>3. LcpTypes' BY <1>2 DEF LcpTypes, lcVars
<1>4. count' = 0 BY DEF BetweenPdus, LcpTypes
<1>5. SharesFit(free)' BY <1>4, SMT DEF SharesFit
<1> QED BY <1>3, <1>5 DEF BetweenPdus, BetweenVisits, InVisit

(* The loop turns to the next channel.                                       *)
LEMMA Visits ==
  ASSUME LcpInv, NEW x \in Lcs, Visit(x)
  PROVE  LcpInv'
<1> USE DEF LcpInv, LcpTypes, Visit
<1>1. SamePriority(x) \in Nat /\ SamePriority(x) > 0 BY PeersCounted
<1>2. CASE x \notin status
  <2>1. UNCHANGED <<num, count, ep, free>> /\ pc' = "visit" BY <1>2
  <2>2. LcpTypes' BY <1>2, <2>1 DEF lcVars
  <2>3. SharesFit(free)' BY <2>1 DEF BetweenVisits, SharesFit
  <2> QED BY <2>1, <2>2, <2>3 DEF BetweenPdus, BetweenVisits, InVisit
<1>3. CASE x \in status
  <2>1. count' \in Nat /\ num' \in 1 .. count' BY <1>1, <1>3, SMT
  <2>2. UNCHANGED free /\ tot' = 0 OBVIOUS
  <2>3. ep' \in Nat /\ SharesFit(free)'
    <3>1. CASE num' = count'
      <4>1. ep' = Share(count') BY <1>3, <3>1
      <4>2. ep' \in Nat /\ (ep' > 0 => count' * (ep' + LongHeader) <= free)
        BY <2>1, <4>1, ShareFits, SMT
      <4> QED BY <2>2, <3>1, <4>2 DEF SharesFit, LongHeader
    <3>2. CASE num' # count'
      <4>1. UNCHANGED <<num, count, ep>> BY <1>3, <3>2
      <4> QED BY <2>2, <4>1 DEF BetweenVisits, SharesFit
    <3> QED BY <3>1, <3>2
  <2>4. LcpTypes' BY <1>3, <2>1, <2>2, <2>3, SMT DEF lcVars
  <2>5. lc' \in Lcs /\ num' > 0 BY <2>1, SMT
  <2>6. SharesFit(free + tot)' BY <2>2, <2>3, SMT DEF SharesFit
  <2>7. pc' \in {"visit", "fill"} BY <1>3
  <2> QED BY <2>2, <2>3, <2>4, <2>5, <2>6, <2>7 DEF BetweenPdus, BetweenVisits, InVisit
<1> QED BY <1>2, <1>3

\* Of a group that shares, num channels still have theirs to come, this one among them:
\* when it is done, what it leaves is enough for the others.
LEMMA OthersFit ==
  ASSUME LcpInv, pc = "fill", count > 1, ep > 0,
         NEW room \in Nat, NEW taken \in Nat,
         taken <= ep + LongHeader, num * (ep + LongHeader) <= room + taken
  PROVE  (num - 1) * (ep + LongHeader) <= room
<1>1. num \in Nat /\ num > 0 /\ ep \in Nat BY DEF LcpInv, LcpTypes, InVisit
<1> DEFINE s == ep + LongHeader
<1>2. s \in Nat BY <1>1, SMT DEF LongHeader
<1>3. num * s = (num - 1) * s + s /\ (num - 1) * s \in Int
  <2> HIDE DEF s
  <2> QED BY <1>1, <1>2, OneLess, SMT
<1> HIDE DEF s
<1>4. taken <= s /\ num * s <= room + taken BY DEF s
<1>5. (num - 1) * s <= room BY <1>2, <1>3, <1>4, SMT
<1> QED BY <1>5 DEF s

(* A channel is left because the PDU is full.                                *)
LEMMA LeavesFull ==
  ASSUME LcpInv, NoRoom
  PROVE  LcpInv'
<1> USE DEF NoRoom, Leave
<1>1. LcpTypes' BY DEF LcpInv, LcpTypes, lcVars
<1>2. SharesFit(free)'
  <2>1. SUFFICES ASSUME count > 1, ep > 0 PROVE FALSE BY DEF SharesFit
  <2>2. /\ free \in Nat /\ ep \in Nat /\ tot \in Nat /\ num \in Nat /\ num > 0
        /\ num * (ep + LongHeader) <= free + tot
        /\ tot = 0 \/ tot < ep
    BY <2>1 DEF LcpInv, LcpTypes, InVisit, SharesFit
  <2>3. ep + LongHeader \in Nat BY <2>2, SMT DEF LongHeader
  <2>4. num * (ep + LongHeader) >= ep + LongHeader /\ num * (ep + LongHeader) \in Int
    BY <2>2, <2>3, OneLess, SMT
  <2>5. ep + LongHeader <= free + tot BY <2>2, <2>3, <2>4, SMT
  <2> QED BY <2>1, <2>2, <2>5, SMT DEF LongHeader
<1> QED BY <1>1, <1>2 DEF LcpInv, BetweenPdus, BetweenVisits, InVisit

(* A channel is left because RLC has nothing for it.                         *)
LEMMA LeavesEmpty ==
  ASSUME LcpInv, NoSdu
  PROVE  LcpInv'
<1> USE DEF NoSdu, Leave
<1>1. LcpTypes'
  <2>1. num - 1 \in 0 .. count BY SMT DEF LcpInv, LcpTypes, InVisit
  <2> QED BY <2>1 DEF LcpInv, LcpTypes, lcVars
<1>2. SharesFit(free)'
  <2>1. SUFFICES ASSUME count > 1, ep > 0
                 PROVE  (num - 1) * (ep + LongHeader) <= free
    BY DEF SharesFit
  <2>2. /\ free \in Nat /\ tot \in Nat /\ ep \in Nat
        /\ num * (ep + LongHeader) <= free + tot
        /\ tot = 0 \/ tot < ep
    BY <2>1 DEF LcpInv, LcpTypes, InVisit, SharesFit
  <2>3. tot <= ep + LongHeader BY <2>2, SMT DEF LongHeader
  <2> QED BY <2>1, <2>2, <2>3, OthersFit
<1> QED BY <1>1, <1>2 DEF LcpInv, BetweenPdus, BetweenVisits, InVisit

(* An SDU goes into the PDU.                                                 *)
LEMMA TakesSdu ==
  ASSUME LcpInv, NEW bytes \in Nat, Sdu(bytes)
  PROVE  LcpInv'
<1>1. /\ pc = "fill" /\ lc \in Lcs /\ num > 0 /\ num \in 0 .. count
      /\ remain \in [Lcs -> Nat] /\ first \in BOOLEAN
      /\ free \in Nat /\ ep \in Nat /\ tot \in Nat /\ count \in Nat /\ num \in Nat
      /\ todo \subseteq selected /\ selected \subseteq Lcs /\ free >= LongHeader
      /\ SharesFit(free + tot)
  BY SMT DEF LcpInv, LcpTypes, InVisit, Sdu
<1>2. /\ Room \in Nat /\ Request \in 0 .. Room /\ bytes > 0 /\ bytes <= Request
      /\ bytes <= remain[lc]
      /\ count > 1 => tot <= ep /\ bytes <= ep - tot
      /\ first => tot <= Target /\ bytes <= Target - tot
  <2>1. bytes \in 1 .. Request BY DEF Sdu
  <2>2. remain[lc] \in Nat BY <1>1
  <2>3. /\ Room \in Nat /\ Request \in 0 .. Room
        /\ Request <= remain[lc]
        /\ count > 1 => tot <= ep /\ Request <= ep - tot
        /\ first => tot <= Target /\ Request <= Target - tot
    BY <1>1, RequestBounds
  <2>4. first => Target \in Int
    BY <1>1, UeLcpAssumption, SMT DEF UeLcpAssumption, Target, Smaller
  <2> QED BY <1>1, <2>1, <2>2, <2>3, <2>4, SMT
<1>3. /\ free' \in Nat
      /\ count <= 1 => tot' = tot + bytes
      /\ count > 1 => tot' = tot + bytes + LongHeader /\ free + tot <= free' + tot'
      /\ tot' \in Nat /\ tot' > 0
  <2>1. free' = free - Header(Request) - bytes BY DEF Sdu
  <2>2. Room = free - Header(free) /\ Request \in 0 .. free
    BY <1>1, <1>2, Headers, SMT DEF Room
  <2>3. Header(Request) \in {2, 3} /\ Header(Request) <= Header(free) /\ Header(free) \in {2, 3}
    BY <1>1, <2>2, Headers, SMT
  <2>4. tot' = tot + bytes + (IF count > 1 THEN LongHeader ELSE 0) BY DEF Sdu
  <2> QED BY <1>1, <1>2, <2>1, <2>2, <2>3, <2>4, SMT DEF LongHeader
<1>4. remain' \in [Lcs -> Nat]
  <2>1. remain[lc] - bytes \in Nat BY <1>1, <1>2, SMT
  <2>2. remain' = [remain EXCEPT ![lc] = remain[lc] - bytes] BY DEF Sdu
  <2> QED BY <1>1, <2>1, <2>2
<1>5. UNCHANGED <<selected, lc, first, count, ep>> BY DEF Sdu
<1>6. Target' = Target BY <1>5, UNCHANGED <<selected, lc, first, count, ep>> DEF Target, Smaller
<1>7. CASE Served
  <2>1. num' = num - 1 /\ pc' = "visit" /\ todo' = todo \ {lc} BY <1>7 DEF Sdu, Leave
  <2>2. SharesFit(free)'
    <3>1. SUFFICES ASSUME count > 1, ep > 0
                   PROVE  (num - 1) * (ep + LongHeader) <= free'
      BY <1>5, <2>1 DEF SharesFit, LongHeader
    <3>2. num * (ep + LongHeader) \in Int BY <1>1, SMT DEF LongHeader
    <3>3. num * (ep + LongHeader) <= free + tot BY <1>1, <3>1 DEF SharesFit
    <3>4. num * (ep + LongHeader) <= free' + tot' BY <1>1, <1>3, <3>1, <3>2, <3>3, SMT
    <3>5. tot' <= ep + LongHeader BY <1>1, <1>2, <1>3, <3>1, SMT DEF LongHeader
    <3> QED BY <1>1, <1>3, <3>1, <3>4, <3>5, OthersFit
  <2>3. num' \in 0 .. count' BY <1>1, <1>5, <2>1, SMT
  <2> QED BY <1>1, <1>3, <1>4, <1>5, <2>1, <2>2, <2>3
    DEF LcpInv, LcpTypes, BetweenPdus, BetweenVisits, InVisit
<1>8. CASE ~Served
  <2>1. num' = num BY <1>8 DEF Sdu
  <2>2. /\ count > 1 => tot' < ep
        /\ first => tot' < Target
    <3>1. first => Target \in Int
      BY <1>1, UeLcpAssumption, SMT DEF UeLcpAssumption, Target, Smaller
    <3>2. /\ ~(count > 1 /\ tot' >= ep)
          /\ ~(first /\ tot' >= Target)
      BY <1>8 DEF Served
    <3> QED BY <1>1, <1>3, <3>1, <3>2, SMT
  <2>3. SharesFit(free + tot)'
    <3>1. SUFFICES ASSUME count > 1, ep > 0
                   PROVE  num * (ep + LongHeader) <= free' + tot'
      BY <1>5, <2>1 DEF SharesFit, LongHeader
    <3>2. num * (ep + LongHeader) \in Int BY <1>1, SMT DEF LongHeader
    <3>3. num * (ep + LongHeader) <= free + tot BY <1>1, <3>1 DEF SharesFit
    <3> QED BY <1>1, <1>3, <3>1, <3>2, <3>3, SMT
  <2>4. num' \in 0 .. count' /\ num' > 0 BY <1>1, <1>5, <2>1
  <2>5. CASE free' = 0
    <3>1. pc' = "visit" /\ todo' = todo \ {lc} BY <1>8, <2>5 DEF Sdu, Leave
    <3>2. SharesFit(free)'
      <4>1. SUFFICES ASSUME count > 1, ep > 0 PROVE FALSE
        BY <1>5 DEF SharesFit
      <4>2. num * (ep + LongHeader) <= free' + tot'
        BY <1>5, <2>1, <2>3, <4>1 DEF SharesFit, LongHeader
      <4>3. ep + LongHeader \in Nat BY <1>1, SMT DEF LongHeader
      <4>4. num * (ep + LongHeader) >= ep + LongHeader /\ num * (ep + LongHeader) \in Int
        BY <1>1, <4>3, OneLess, SMT
      <4>5. ep + LongHeader <= tot' BY <1>3, <2>5, <4>2, <4>3, <4>4, SMT
      <4> QED BY <1>1, <1>3, <2>2, <4>1, <4>5, SMT DEF LongHeader
    <3> QED BY <1>1, <1>3, <1>4, <1>5, <2>4, <3>1, <3>2
      DEF LcpInv, LcpTypes, BetweenPdus, BetweenVisits, InVisit
  <2>6. CASE free' # 0
    <3>1. pc' = "fill" /\ todo' = todo BY <1>1, <1>8, <2>6 DEF Sdu
    <3>2. InVisit' BY <1>1, <1>5, <1>6, <2>2, <2>3, <2>4 DEF InVisit
    <3> QED BY <1>1, <1>3, <1>4, <1>5, <2>4, <3>1, <3>2
      DEF LcpInv, LcpTypes, BetweenPdus, BetweenVisits
  <2> QED BY <2>5, <2>6
<1> QED BY <1>7, <1>8

(* A round over the channels ends.                                           *)
LEMMA EndsRound ==
  ASSUME LcpInv, EndRound
  PROVE  LcpInv'
<1> USE DEF EndRound
<1>1. LcpTypes'
  <2>1. count' = 0 /\ 0 \in Nat /\ 0 \in 0 .. 0 BY SMT
  <2>2. first' \in BOOLEAN /\ todo' \subseteq selected' /\ pc' \in {"visit", "done"}
    BY DEF LcpInv, LcpTypes
  <2> QED BY <2>1, <2>2 DEF LcpInv, LcpTypes, lcVars
<1>2. SharesFit(free)' BY SMT DEF SharesFit
<1>3. pc' \in {"visit", "done"} OBVIOUS
<1> QED BY <1>1, <1>2, <1>3 DEF LcpInv, BetweenPdus, BetweenVisits, InVisit

-----------------------------------------------------------------------------
(* The theorem. *)

LEMMA LcpInvHoldsFirst == Init => LcpInv
<1> SUFFICES ASSUME Init PROVE LcpInv OBVIOUS
<1>1. LcpTypes BY SMT DEF Init, LcpTypes, Zero
<1> QED BY <1>1 DEF Init, LcpInv, BetweenPdus, BetweenVisits, InVisit

(* Every step of the prioritisation.                                         *)
LEMMA LcpInvIsKept == LcpInv /\ [Next]_vars => LcpInv'
<1> SUFFICES ASSUME LcpInv, [Next]_vars PROVE LcpInv' OBVIOUS
<1> USE DEF LcpInv
<1>1. CASE UNCHANGED vars
  <2>1. UNCHANGED <<pc, remain, selected, todo, lc, first, free, num, count, ep, tot>>
    BY <1>1 DEF vars, lcVars, lcpVars
  <2> QED BY <2>1 DEF LcpTypes, BetweenPdus, BetweenVisits, InVisit, SharesFit, Target, Smaller
<1>2. ASSUME NEW slots \in 1 .. MaxSlots, UpdateBj(slots) PROVE LcpInv'
  BY <1>2 DEF UpdateBj, lcpVars, LcpTypes, BetweenPdus, BetweenVisits, InVisit
<1>3. CASE ReadStatus
  <2>1. remain' \in [Lcs -> Nat]
    <3>1. 0 .. MaxRemain \subseteq Nat BY UeLcpAssumption, SMT DEF UeLcpAssumption
    <3> QED BY <1>3, <3>1 DEF ReadStatus
  <2> QED BY <1>3, <2>1 DEF ReadStatus, lcpVars, LcpTypes, BetweenPdus, BetweenVisits, InVisit
<1>4. CASE Configure
  BY <1>4 DEF Configure, lcpVars, LcpTypes, BetweenPdus, BetweenVisits, InVisit
<1>5. ASSUME NEW size \in TbSizes, NEW periodic \in BOOLEAN, NEW reporting \in BOOLEAN,
             GetSdu(size, periodic, reporting)
      PROVE  LcpInv'
  BY <1>5, BeginsPdu
<1>6. ASSUME NEW x \in Lcs, Visit(x) PROVE LcpInv'
  BY <1>6, Visits
<1>7. CASE NoRoom BY <1>7, LeavesFull
<1>8. CASE NoSdu BY <1>8, LeavesEmpty
<1>9. ASSUME NEW bytes \in 1 .. MaxRemain, Sdu(bytes) PROVE LcpInv'
  <2>1. bytes \in Nat BY UeLcpAssumption, SMT DEF UeLcpAssumption
  <2> QED BY <1>9, <2>1, TakesSdu
<1>10. CASE EndRound BY <1>10, EndsRound
<1>11. CASE Return
  <2>1. LcpTypes' BY <1>11, SMT DEF Return, LcpTypes, lcVars
  <2> QED BY <1>11, <2>1 DEF Return, BetweenPdus, BetweenVisits, InVisit
<1> QED
  BY <1>1, <1>2, <1>3, <1>4, <1>5, <1>6, <1>7, <1>8, <1>9, <1>10, <1>11 DEF Next, Loop

\* nr_ue_get_sdu() never asks RLC for more than fits the PDU, nor for less than nothing:
\* the AssertFatal() of get_num_bytes_to_reqlc() cannot fail for any number of channels,
\* priorities, rates and sizes of PUSCHs, whatever RLC gives.
THEOREM RequestsAlwaysFit == Spec => []RequestFits
<1>1. LcpInv => RequestFits
  <2> SUFFICES ASSUME LcpInv, pc = "fill", free >= LongHeader
               PROVE  /\ Request \in 0 .. Room
                      /\ first => tot <= Target
                      /\ ~first /\ count > 1 => tot <= ep
    BY DEF RequestFits
  <2> QED BY RequestBounds
<1> QED BY <1>1, LcpInvHoldsFirst, LcpInvIsKept, PTL DEF Spec

-----------------------------------------------------------------------------
(* The rounds. *)

\* Room for a subheader and a byte.
Fits == free > LongHeader \/ (free = LongHeader /\ ShortLimit > LongHeader)

\* Neither x nor a channel as urgent as x or more has a peer.
Clear(x) == \A y \in selected : priority[y] <= priority[x] => Alone(y)

\* No more room than rounding the shares of a group loses
Short == \E y \in selected : free < (LongHeader + 1) * Cardinality(Peers(y))

Rated == \A x \in Lcs : got[x] <= Pbr[x]
LonersServed == \A x \in selected : Alone(x) /\ Waits(x) => got[x] > 0

\* A channel with Bj > 0 has a bucket, and so a rate.
PduTypes ==
  /\ priority \in [Lcs -> Nat] /\ bj \in [Lcs -> Int] /\ got \in [Lcs -> Nat]
  /\ \A x \in Lcs : bj[x] <= Bucket[x]
  /\ \A x \in selected : Pbr[x] > 0
  /\ pc = "slot" => first /\ num = 0 /\ got = Zero /\ status = Lcs
  /\ pc \in {"slot", "done"} => count = 0

InOrder == pc = "fill" => lc \in todo /\ \A y \in todo : ~Precedes(y, lc)

\* While num is not 0 a group has been met, and in the first round num is what is left of
\* the group of the channel visited last.
NumVisit ==
  pc = "visit" /\ free >= LongHeader /\ num > 0 =>
    /\ lc \in selected \ todo /\ \A y \in todo : ~Precedes(y, lc)
    /\ ~Clear(lc)
    /\ first => num = SamePriority(lc)

\* A channel above all groups is served alone, and so is, in the first round, any channel
\* without a peer.
NumFill ==
  pc = "fill" /\ free >= LongHeader =>
    /\ Clear(lc) => num = 1 /\ count = 1
    /\ first => num = SamePriority(lc) /\ (Alone(lc) => count = 1)

FirstRound ==
  first /\ pc \in {"visit", "fill"} =>
    /\ todo \subseteq status
    /\ Rated
    /\ \A x \in todo : pc = "visit" \/ x # lc => got[x] = 0
    /\ pc = "fill" => got[lc] <= tot /\ (tot = 0 \/ got[lc] > 0)

\* When there is room after the first round, a channel that waits alone has got something.
Rates ==
  /\ first /\ pc \in {"visit", "fill"} /\ free > LongHeader =>
       \A x \in selected \ todo : Alone(x) /\ Waits(x) => got[x] > 0
  /\ ~first /\ pc \in {"visit", "fill"} => LonersServed
  /\ pc = "done" => LonersServed \/ Rated

\* A channel above all groups that waits does so for lack of room only.
Later ==
  /\ \A x \in selected : Clear(x) /\ Waits(x) /\ Fits => x \in status
  /\ ~first /\ pc \in {"visit", "fill"} =>
       \A x \in selected \ todo : Clear(x) /\ Waits(x) => ~Fits

\* A channel that waits and counts as one without data had a share that was rounded to 0.
Rounded ==
  /\ count > 0 => \E y \in selected : count <= Cardinality(Peers(y))
  /\ count > 1 /\ ep = 0 => Short
  /\ \A x \in selected : Waits(x) /\ x \notin status => Short
  /\ pc = "done" => free <= LongHeader \/ selected \cap status = {}

Turns == InOrder /\ NumVisit /\ NumFill
Shares == FirstRound /\ Rates /\ Later /\ Rounded
RoundInv == PduTypes /\ Turns /\ Shares

\* What the groups are is settled before the rounds.
LEMMA SamePeers ==
  ASSUME UNCHANGED <<priority, selected>>
  PROVE  /\ \A x : Peers(x)' = Peers(x) /\ (Alone(x)' <=> Alone(x)) /\ (Clear(x)' <=> Clear(x))
         /\ \A x, y : Precedes(x, y)' <=> Precedes(x, y)
<1>1. \A x : Peers(x)' = Peers(x) BY DEF Peers
<1>2. \A x : Alone(x)' <=> Alone(x) BY <1>1 DEF Alone
<1>3. \A x : Clear(x)' <=> Clear(x) BY <1>2 DEF Clear
<1> QED BY <1>1, <1>2, <1>3 DEF Precedes

\* A group is finite and its members are each in it.
LEMMA PeersOf ==
  ASSUME selected \subseteq Lcs, NEW x \in selected
  PROVE  /\ Cardinality(Peers(x)) \in Nat /\ Cardinality(Peers(x)) > 0
         /\ todo \subseteq selected =>
              SamePriority(x) \in Nat /\ SamePriority(x) <= Cardinality(Peers(x))
<1>1. IsFiniteSet(Peers(x)) BY UeLcpAssumption, FS_Subset DEF UeLcpAssumption, Peers
<1>2. Cardinality(Peers(x)) \in Nat BY <1>1, FS_CardinalityType
<1>3. Cardinality(Peers(x)) # 0 BY <1>1, FS_EmptySet DEF Peers
<1>4. ASSUME todo \subseteq selected
      PROVE  SamePriority(x) \in Nat /\ SamePriority(x) <= Cardinality(Peers(x))
  <2>1. {y \in todo : priority[y] = priority[x]} \subseteq Peers(x) BY <1>4 DEF Peers
  <2> QED BY <1>1, <2>1, FS_Subset, FS_CardinalityType DEF SamePriority
<1> QED BY <1>2, <1>3, <1>4, SMT

\* A channel not visited before one as urgent is below whatever is above that one.
LEMMA ClearAbove ==
  ASSUME priority \in [Lcs -> Nat], selected \subseteq Lcs,
         NEW x \in selected, NEW y \in selected, ~Precedes(x, y), Clear(x)
  PROVE  priority[y] <= priority[x] /\ Clear(y)
<1>1. priority[x] \in Nat /\ priority[y] \in Nat /\ \A z \in selected : priority[z] \in Nat OBVIOUS
<1>2. priority[y] <= priority[x] BY <1>1, SMT DEF Precedes
<1>3. ASSUME NEW z \in selected, priority[z] <= priority[y] PROVE priority[z] <= priority[x]
  BY <1>1, <1>2, <1>3, SMT
<1> QED BY <1>2, <1>3 DEF Clear

\* The PDU fills: less fits, and what waits did before.
LEMMA FillsUp ==
  ASSUME UNCHANGED <<priority, selected>>, free \in Nat, free' \in Nat, free' <= free,
         selected \subseteq Lcs
  PROVE  /\ Fits' => Fits
         /\ Short => Short'
<1>1. Fits' => Fits BY SMT DEF Fits, LongHeader
<1>2. ASSUME Short PROVE Short'
  <2>1. PICK y \in selected : free < (LongHeader + 1) * Cardinality(Peers(y)) BY <1>2 DEF Short
  <2>2. Cardinality(Peers(y)) \in Nat /\ Peers(y)' = Peers(y) BY PeersOf, SamePeers
  <2>3. free' < (LongHeader + 1) * Cardinality(Peers(y)) BY <2>1, <2>2, SMT DEF LongHeader
  <2> QED BY <2>2, <2>3 DEF Short
<1> QED BY <1>1, <1>2

\* There is room for a byte if it fits.
LEMMA RoomFits ==
  ASSUME free \in Nat, free >= LongHeader
  PROVE  Room \in Nat /\ (Room > 0 <=> Fits)
BY UeLcpAssumption, SMT DEF UeLcpAssumption, Room, Header, LongHeader, Fits

\* A channel with data is asked for nothing only for lack of room or of a share.
LEMMA AskedForNothing ==
  ASSUME LcpInv, PduTypes, pc = "fill", free >= LongHeader, Request = 0, remain[lc] > 0,
         lc \in selected
  PROVE  ~Fits \/ (count > 1 /\ ep = 0)
<1>1. /\ free \in Nat /\ ep \in Nat /\ tot \in Nat /\ count \in Nat
      /\ Pbr[lc] \in Nat /\ Pbr[lc] > 0 /\ remain[lc] \in Nat /\ first \in BOOLEAN
      /\ count > 1 => tot = 0 \/ tot < ep
      /\ first => tot = 0 \/ tot < Target
  BY UeLcpAssumption DEF UeLcpAssumption, LcpInv, LcpTypes, InVisit, PduTypes
<1>2. Room \in Nat /\ (Room > 0 <=> Fits) BY <1>1, RoomFits
<1>3. Limit \in Int => Limit <= 0 BY <1>1, SMT DEF Request, Smaller
<1>4. CASE count > 1
  <2>1. Target \in Nat /\ (ep > 0 => Target > 0) BY <1>1, <1>4, SMT DEF Target, Smaller
  <2>2. CASE first
    <3>1. Limit = Smaller(ep, Target - tot) BY <1>4, <2>2 DEF Limit
    <3> QED BY <1>1, <1>3, <1>4, <2>1, <2>2, <3>1, SMT DEF Smaller
  <2>3. CASE ~first
    <3>1. Limit = ep - tot BY <1>4, <2>3 DEF Limit
    <3> QED BY <1>1, <1>3, <1>4, <3>1, SMT
  <2> QED BY <2>2, <2>3
<1>5. CASE ~(count > 1)
  <2>1. Target = Pbr[lc] BY <1>5 DEF Target
  <2>2. CASE first
    <3>1. Limit = Smaller(Room, Target - tot) BY <1>5, <2>2 DEF Limit
    <3> QED BY <1>1, <1>2, <1>3, <2>1, <2>2, <3>1, SMT DEF Smaller
  <2>3. CASE ~first
    <3>1. Limit = Room BY <1>5, <2>3 DEF Limit
    <3> QED BY <1>2, <1>3, <3>1, SMT
  <2> QED BY <2>2, <2>3
<1> QED BY <1>4, <1>5

\* No PDU is begun, or its rounds are about to.
Untouched ==
  /\ pc \in {"slot", "visit"} /\ first /\ num = 0 /\ count = 0
  /\ got = Zero /\ status = Lcs /\ (pc = "visit" => todo = selected)

\* Nothing is due of such a PDU.
LEMMA NothingServed == LcpTypes /\ PduTypes /\ Untouched => RoundInv
<1> SUFFICES ASSUME LcpTypes, PduTypes, Untouched PROVE Turns /\ Shares BY DEF RoundInv
<1> USE DEF Untouched
<1>1. Turns BY SMT DEF Turns, InOrder, NumVisit, NumFill
<1>2. FirstRound
  <2>1. Rated BY UeLcpAssumption, SMT DEF UeLcpAssumption, Rated, Zero
  <2> QED BY <2>1 DEF FirstRound, LcpTypes, Zero
<1>3. Rates /\ Later BY DEF Rates, Later, LcpTypes
<1>4. Rounded BY SMT DEF Rounded, LcpTypes
<1> QED BY <1>1, <1>2, <1>3, <1>4 DEF Shares

\* A share is rounded to 0 when a header and a byte for each do not fit.
LEMMA NoShare ==
  ASSUME free \in Nat, NEW n \in Nat, n > 0, Share(n) = 0
  PROVE  free < (LongHeader + 1) * n
<1>1. CASE free < n * LongHeader
  BY <1>1, SMT DEF LongHeader
<1>2. CASE ~(free < n * LongHeader)
  <2> DEFINE a == free - n * LongHeader
  <2>1. a \in Nat BY <1>2, SMT DEF LongHeader
  <2>2. a \div n = 0 BY <1>2 DEF Share
  <2> HIDE DEF a
  <2>3. a < n BY <2>1, <2>2, SMT
  <2>4. a = free - n * LongHeader BY DEF a
  <2> QED BY <2>1, <2>3, <2>4, SMT DEF LongHeader
<1> QED BY <1>1, <1>2

(* A channel is passed over, because it has no data or nothing is free, or is served.  *)
LEMMA TurnsVisit ==
  ASSUME LcpInv, RoundInv, NEW x \in Lcs, Visit(x)
  PROVE  Turns'
<1>1. /\ pc = "visit" /\ x \in todo /\ \A y \in todo : ~Precedes(y, x)
      /\ lc' = x /\ UNCHANGED <<priority, selected, first, free, remain>>
  BY DEF Visit, lcVars
<1>2. /\ todo \subseteq selected /\ selected \subseteq Lcs /\ free \in Nat /\ num \in Nat
      /\ priority \in [Lcs -> Nat] /\ first \in BOOLEAN
  BY SMT DEF LcpInv, LcpTypes, RoundInv, PduTypes
<1>3. /\ \A y : Peers(y)' = Peers(y) /\ (Alone(y)' <=> Alone(y)) /\ (Clear(y)' <=> Clear(y))
      /\ \A y, z : Precedes(y, z)' <=> Precedes(y, z)
  BY <1>1, SamePeers
\* The group met before is above x or that of x.
<1>4. ASSUME free >= LongHeader, num > 0
      PROVE  ~Clear(x) /\ (first => num = SamePriority(x) /\ ~Alone(x))
  <2>1. /\ lc \in selected \ todo /\ \A y \in todo : ~Precedes(y, lc)
        /\ ~Clear(lc)
        /\ first => num = SamePriority(lc)
    BY <1>1, <1>4 DEF RoundInv, Turns, NumVisit
  <2>2. ~Clear(x) BY <1>1, <1>2, <2>1, ClearAbove
  <2>3. ASSUME first PROVE num = SamePriority(x) /\ ~Alone(x)
    <3>1. {y \in todo : priority[y] = priority[lc]} # {}
      <4>1. SUFFICES ASSUME {y \in todo : priority[y] = priority[lc]} = {} PROVE FALSE
        OBVIOUS
      <4> QED BY <1>4, <2>1, <2>3, <4>1, FS_EmptySet, SMT DEF SamePriority
    <3>2. PICK y \in todo : priority[y] = priority[lc] BY <3>1
    <3>3. priority[x] = priority[lc]
      <4>1. ~Precedes(y, x) /\ ~Precedes(x, lc) BY <1>1, <2>1
      <4>2. priority[x] \in Nat /\ priority[y] \in Nat /\ priority[lc] \in Nat BY <1>2, <2>1
      <4> QED BY <3>2, <4>1, <4>2, SMT DEF Precedes
    <3>4. num = SamePriority(x) BY <2>1, <2>3, <3>3 DEF SamePriority
    <3>5. lc \in Peers(x) /\ lc # x BY <1>1, <2>1, <3>3 DEF Peers
    <3> QED BY <3>4, <3>5 DEF Alone
  <2> QED BY <2>2, <2>3
<1>5. CASE pc' = "visit"
  <2>1. InOrder' /\ NumFill' BY <1>5 DEF InOrder, NumFill
  <2>2. NumVisit'
    <3>1. SUFFICES ASSUME free >= LongHeader, num' > 0
                   PROVE  /\ x \in selected \ todo' /\ \A y \in todo' : ~Precedes(y, x)
                          /\ ~Clear(x)
                          /\ ~first
      BY <1>1, <1>3 DEF NumVisit, LongHeader
    <3>2. x \notin status /\ todo' = todo \ {x} /\ num' = num
      <4>1. free > 0 BY <1>2, <3>1, SMT DEF LongHeader
      <4> QED BY <1>5, <4>1 DEF Visit
    <3>3. ~first BY <1>1, <3>2 DEF RoundInv, Shares, FirstRound
    <3> QED BY <1>1, <1>2, <1>4, <3>1, <3>2, <3>3
  <2> QED BY <2>1, <2>2 DEF Turns
<1>6. CASE pc' = "fill"
  <2>1. /\ x \in status /\ UNCHANGED todo
        /\ num' = IF num = 0 THEN SamePriority(x) ELSE num
        /\ count' = IF num = 0 THEN SamePriority(x) ELSE count
    BY <1>1, <1>6 DEF Visit
  <2>2. InOrder' BY <1>1, <1>3, <2>1 DEF InOrder
  <2>3. NumVisit' BY <1>6 DEF NumVisit
  <2>4. SamePriority(x)' = SamePriority(x) BY <1>1, <2>1 DEF SamePriority
  <2>5. Alone(x) => SamePriority(x) = 1
    <3>1. Alone(x) => {y \in todo : priority[y] = priority[x]} = {x}
      BY <1>1, <1>2 DEF Alone, Peers
    <3> QED BY <3>1, FS_Singleton DEF SamePriority
  <2>6. x \in selected /\ (Clear(x) => Alone(x))
    BY <1>1, <1>2, SMT DEF Clear
  <2>7. ASSUME free >= LongHeader
        PROVE  /\ Clear(x) => num' = 1 /\ count' = 1
               /\ first => num' = SamePriority(x) /\ (Alone(x) => count' = 1)
    <3>1. CASE num = 0 BY <2>1, <2>5, <2>6, <3>1
    <3>2. CASE num # 0
      <4>1. num > 0 BY <1>2, <3>2, SMT
      <4> QED BY <1>4, <2>1, <2>7, <3>2, <4>1
    <3> QED BY <3>1, <3>2
  <2>8. NumFill'
    <3>1. (free >= LongHeader)' <=> free >= LongHeader BY <1>1 DEF LongHeader
    <3> QED BY <1>1, <1>3, <2>4, <2>7, <3>1 DEF NumFill
  <2> QED BY <2>2, <2>3, <2>8 DEF Turns
<1> QED BY <1>1, <1>5, <1>6 DEF Visit

(* The share of a group met now may be rounded to 0.                         *)
LEMMA SharesVisit ==
  ASSUME LcpInv, RoundInv, NEW x \in Lcs, Visit(x)
  PROVE  Shares'
<1>1. /\ pc = "visit" /\ x \in todo /\ lc' = x /\ tot' = 0
      /\ UNCHANGED <<priority, selected, first, free, remain, status, got, refused>>
      /\ pc' \in {"visit", "fill"}
      /\ pc' = "visit" => todo' = todo \ {x} /\ (x \notin status \/ ~(free > 0))
      /\ pc' = "fill" => todo' = todo
  BY DEF Visit, lcVars
<1>2. /\ todo \subseteq selected /\ selected \subseteq Lcs /\ free \in Nat /\ num \in Nat
      /\ count \in Nat /\ ep \in Nat /\ first \in BOOLEAN /\ got \in [Lcs -> Nat]
  BY SMT DEF LcpInv, LcpTypes, RoundInv, PduTypes
<1>3. \A y : Peers(y)' = Peers(y) /\ (Alone(y)' <=> Alone(y)) /\ (Clear(y)' <=> Clear(y))
  BY <1>1, SamePeers
<1>4. /\ Fits' <=> Fits
      /\ \A y : Waits(y)' <=> Waits(y)
      /\ Rated' <=> Rated
      /\ LonersServed' <=> LonersServed
  BY <1>1, <1>3 DEF Fits, LongHeader, Waits, Rated, LonersServed
<1>5. Short' <=> Short BY <1>1, <1>3 DEF Short, LongHeader
<1>6. FirstRound /\ Rates /\ Later /\ Rounded BY DEF RoundInv, Shares
<1>7. FirstRound'
  <2>1. SUFFICES ASSUME first
                 PROVE  /\ todo' \subseteq status /\ Rated
                        /\ \A y \in todo' : pc' = "visit" \/ y # x => got[y] = 0
                        /\ pc' = "fill" => got[x] <= 0
    BY <1>1, <1>4 DEF FirstRound
  <2>2. /\ todo \subseteq status /\ Rated /\ \A y \in todo : got[y] = 0
    BY <1>1, <1>6, <2>1 DEF FirstRound
  <2>3. got[x] <= 0 BY <1>1, <2>2, SMT
  <2> QED BY <1>1, <2>2, <2>3
<1>8. Rates'
  <2>1. ASSUME first, free > LongHeader, NEW y \in selected \ todo', Alone(y), Waits(y)
        PROVE  got[y] > 0
    <3>1. x \in status BY <1>1, <1>6, <2>1 DEF FirstRound
    <3>2. free > 0 BY <1>2, <2>1, SMT DEF LongHeader
    <3>3. y \in selected \ todo BY <1>1, <2>1, <3>1, <3>2
    <3> QED BY <1>1, <1>6, <2>1, <3>3 DEF Rates
  <2>2. ~first => LonersServed BY <1>1, <1>6 DEF Rates
  <2> QED BY <1>1, <1>3, <1>4, <2>1, <2>2 DEF Rates, LongHeader
<1>9. Later'
  <2>1. \A y \in selected : Clear(y) /\ Waits(y) /\ Fits => y \in status BY <1>6 DEF Later
  <2>2. ASSUME ~first, NEW y \in selected \ todo', Clear(y), Waits(y) PROVE ~Fits
    <3>1. CASE y \in selected \ todo BY <1>1, <1>6, <2>2, <3>1 DEF Later
    <3>2. CASE y \notin selected \ todo
      <4>1. y = x /\ (x \notin status \/ ~(free > 0)) BY <1>1, <2>2, <3>2
      <4>2. ~(free > 0) => ~Fits BY <1>2, SMT DEF Fits, LongHeader
      <4> QED BY <2>1, <2>2, <4>1, <4>2
    <3> QED BY <3>1, <3>2
  <2> QED BY <1>1, <1>3, <1>4, <2>1, <2>2 DEF Later
<1>10. Rounded'
  <2>1. /\ count' \in {count, SamePriority(x)}
        /\ UNCHANGED <<count, ep>> \/ ep' = Share(count')
    BY DEF Visit
  <2>2. SamePriority(x) \in Nat /\ SamePriority(x) <= Cardinality(Peers(x))
    BY <1>1, <1>2, PeersOf
  <2>3. count' > 0 => \E y \in selected : count' <= Cardinality(Peers(y))
    <3>1. CASE count' = count BY <1>6, <3>1 DEF Rounded
    <3>2. CASE count' = SamePriority(x) BY <1>1, <1>2, <2>2, <3>2
    <3> QED BY <2>1, <3>1, <3>2
  <2>4. count' > 1 /\ ep' = 0 => Short
    <3>1. CASE UNCHANGED <<count, ep>> BY <1>6, <3>1 DEF Rounded
    <3>2. CASE ep' = Share(count')
      <4> SUFFICES ASSUME count' > 1, ep' = 0 PROVE Short OBVIOUS
      <4> DEFINE n == count'
      <4>1. n \in Nat /\ n > 1 /\ Share(n) = 0 BY <1>2, <2>1, <2>2, <3>2
      <4> HIDE DEF n
      <4>2. n > 0 BY <4>1, SMT
      <4>3. free < (LongHeader + 1) * n BY <1>2, <4>1, <4>2, NoShare
      <4>4. PICK y \in selected : n <= Cardinality(Peers(y)) BY <2>3, <4>2 DEF n
      <4>5. Cardinality(Peers(y)) \in Nat BY <1>2, PeersOf
      <4>6. free < (LongHeader + 1) * Cardinality(Peers(y))
        BY <1>2, <4>1, <4>3, <4>4, <4>5, SMT DEF LongHeader
      <4> QED BY <4>6 DEF Short
    <3> QED BY <2>1, <3>1, <3>2
  <2> QED BY <1>1, <1>3, <1>4, <1>5, <1>6, <2>3, <2>4 DEF Rounded
<1> QED BY <1>7, <1>8, <1>9, <1>10 DEF Shares

(* A channel is left because the PDU is full.                                *)
LEMMA RoundLeavesFull ==
  ASSUME LcpInv, RoundInv, NoRoom
  PROVE  Turns' /\ Shares'
<1>1. /\ pc = "fill" /\ free < LongHeader /\ pc' = "visit" /\ todo' = todo \ {lc}
      /\ UNCHANGED <<priority, selected, lc, first, free, count, ep, remain, status, got,
                     refused>>
  BY DEF NoRoom, Leave, lcVars
<1>2. free \in Nat /\ ~(free >= LongHeader) /\ ~(free > LongHeader)
  BY <1>1, SMT DEF LcpInv, LcpTypes, LongHeader
<1>3. \A y : Peers(y)' = Peers(y) /\ (Alone(y)' <=> Alone(y)) /\ (Clear(y)' <=> Clear(y))
  BY <1>1, SamePeers
<1>4. ~Fits /\ ~Fits' BY <1>1, <1>2, SMT DEF Fits, LongHeader
<1>5. /\ \A y : Waits(y)' <=> Waits(y)
      /\ Rated' <=> Rated
      /\ LonersServed' <=> LonersServed
      /\ Short' <=> Short
  BY <1>1, <1>3 DEF Waits, Rated, LonersServed, Short, LongHeader
<1>6. FirstRound /\ Rates /\ Later /\ Rounded BY DEF RoundInv, Shares
<1>7. Turns'
  <2>1. ~(free >= LongHeader)' BY <1>1, <1>2 DEF LongHeader
  <2> QED BY <1>1, <2>1 DEF Turns, InOrder, NumVisit, NumFill
<1>8. FirstRound' BY <1>1, <1>5, <1>6 DEF FirstRound
<1>9. Rates'
  <2>1. ~(free > LongHeader)' BY <1>1, <1>2 DEF LongHeader
  <2> QED BY <1>1, <1>5, <1>6, <2>1 DEF Rates
<1>10. Later' BY <1>4 DEF Later
<1>11. Rounded' BY <1>1, <1>3, <1>5, <1>6 DEF Rounded
<1> QED BY <1>7, <1>8, <1>9, <1>10, <1>11 DEF Shares

\* What is left of the group of the channel that is done
LEMMA OneLessOfGroup ==
  ASSUME todo \subseteq Lcs, lc \in todo, todo' = todo \ {lc}, UNCHANGED <<priority, lc>>
  PROVE  SamePriority(lc)' = SamePriority(lc) - 1
<1> DEFINE S == {y \in todo : priority[y] = priority[lc]}
<1>1. {y \in todo' : priority'[y] = priority'[lc']} = S \ {lc} OBVIOUS
<1>2. IsFiniteSet(S) /\ lc \in S BY UeLcpAssumption, FS_Subset DEF UeLcpAssumption
<1> HIDE DEF S
<1>3. Cardinality(S \ {lc}) = Cardinality(S) - 1 BY <1>2, FS_RemoveElement
<1> QED BY <1>1, <1>3 DEF SamePriority, S

(* When a channel is left, the rest of its group comes next.                 *)
LEMMA TurnsLeave ==
  ASSUME LcpInv, RoundInv, pc = "fill", free >= LongHeader, Leave,
         UNCHANGED <<priority, selected, lc, first>>, free' >= LongHeader => num' = num - 1
  PROVE  Turns'
<1>1. pc' = "visit" /\ todo' = todo \ {lc} BY DEF Leave
<1>2. /\ lc \in todo /\ todo \subseteq selected /\ selected \subseteq Lcs /\ num \in Nat
      /\ \A y \in todo : ~Precedes(y, lc)
      /\ Clear(lc) => num = 1
      /\ first => num = SamePriority(lc)
  BY SMT DEF LcpInv, LcpTypes, RoundInv, Turns, InOrder, NumFill
<1>3. /\ \A y : (Clear(y)' <=> Clear(y))
      /\ \A y, z : Precedes(y, z)' <=> Precedes(y, z)
  BY SamePeers
<1>4. NumVisit'
  <2>1. SUFFICES ASSUME free' >= LongHeader, num' > 0
                 PROVE  /\ lc \in selected \ todo' /\ \A y \in todo' : ~Precedes(y, lc)
                        /\ ~Clear(lc)
                        /\ first => num' = SamePriority(lc)'
    BY <1>3 DEF NumVisit, LongHeader
  <2>2. num' = num - 1 BY <2>1
  <2>3. ~Clear(lc) BY <1>2, <2>1, <2>2, SMT
  <2>4. SamePriority(lc)' = SamePriority(lc) - 1 BY <1>1, <1>2, OneLessOfGroup
  <2> QED BY <1>1, <1>2, <2>2, <2>3, <2>4
<1> QED BY <1>1, <1>4 DEF Turns, InOrder, NumFill

(* A channel is left because RLC has nothing for it: not for want of being asked, unless   *)
(* its share is 0 or nothing fits.                                           *)
LEMMA RoundLeavesEmpty ==
  ASSUME LcpInv, RoundInv, NoSdu
  PROVE  Turns' /\ Shares'
<1>1. /\ pc = "fill" /\ free >= LongHeader /\ pc' = "visit" /\ todo' = todo \ {lc}
      /\ num' = num - 1 /\ status' = status \ {lc} /\ Leave
      /\ refused' = IF Request > 0 THEN refused \cup {lc} ELSE refused
      /\ UNCHANGED <<priority, selected, lc, first, free, count, ep, remain, got>>
  BY DEF NoSdu, Leave, lcVars
<1>2. /\ todo \subseteq selected /\ selected \subseteq Lcs /\ free \in Nat /\ lc \in todo
      /\ remain \in [Lcs -> Nat] /\ tot \in Nat /\ got \in [Lcs -> Nat] /\ PduTypes
      /\ first \in BOOLEAN
  BY <1>1 DEF LcpInv, LcpTypes, RoundInv, PduTypes, Turns, InOrder
<1>3. /\ \A y : Peers(y)' = Peers(y) /\ (Alone(y)' <=> Alone(y)) /\ (Clear(y)' <=> Clear(y))
  BY <1>1, SamePeers
<1>4. /\ \A y : Waits(y)' => Waits(y)
      /\ Fits' <=> Fits
      /\ Rated' <=> Rated
      /\ Short' <=> Short
  BY <1>1, <1>3 DEF Waits, Fits, Rated, Short, LongHeader
<1>5. FirstRound /\ Rates /\ Later /\ Rounded BY DEF RoundInv, Shares
<1>6. ASSUME NEW y \in selected, y = lc, Waits(y)' PROVE ~Fits \/ (count > 1 /\ ep = 0)
  <2>1. remain[lc] > 0 /\ Request <= 0
    <3>1. remain[lc] > 0 /\ ~(Request > 0) BY <1>1, <1>6 DEF Waits
    <3>2. Request \in 0 .. Room /\ Room \in Nat BY <1>1, RequestBounds
    <3> QED BY <3>1, <3>2, SMT
  <2>2. Request = 0
    <3>1. Request \in 0 .. Room /\ Room \in Nat BY <1>1, RequestBounds
    <3> QED BY <2>1, <3>1, SMT
  <2> QED BY <1>1, <1>2, <2>1, <2>2, AskedForNothing
<1>7. Clear(lc) \/ (first /\ Alone(lc)) => count = 1
  BY <1>1 DEF RoundInv, Turns, NumFill
<1>8. Turns' BY <1>1, TurnsLeave
<1>9. FirstRound' BY <1>1, <1>4, <1>5 DEF FirstRound
<1>10. Rates'
  <2>1. ASSUME first, free > LongHeader, NEW y \in selected \ todo', Alone(y), Waits(y)'
        PROVE  got[y] > 0
    <3>1. CASE y # lc BY <1>1, <1>4, <1>5, <2>1, <3>1 DEF Rates
    <3>2. CASE y = lc
      <4>1. count = 1 BY <1>7, <2>1, <3>2
      <4>2. Fits BY <2>1 DEF Fits
      <4> QED BY <1>6, <2>1, <3>2, <4>1, <4>2, SMT
    <3> QED BY <3>1, <3>2
  <2>2. ~first => LonersServed' BY <1>1, <1>3, <1>4, <1>5 DEF Rates, LonersServed
  <2> QED BY <1>1, <1>3, <2>1, <2>2 DEF Rates, LongHeader
<1>11. Later'
  <2>1. ASSUME NEW y \in selected, y = lc, Clear(y), Waits(y)' PROVE ~Fits
    <3>1. count = 1 BY <1>7, <2>1
    <3> QED BY <1>6, <2>1, <3>1, SMT
  <2>2. ASSUME NEW y \in selected, Clear(y), Waits(y)', Fits PROVE y \in status'
    <3>1. y # lc BY <2>1, <2>2
    <3> QED BY <1>1, <1>4, <1>5, <2>2, <3>1 DEF Later
  <2>3. ASSUME ~first, NEW y \in selected \ todo', Clear(y), Waits(y)' PROVE ~Fits
    <3>1. CASE y # lc BY <1>1, <1>4, <1>5, <2>3, <3>1 DEF Later
    <3>2. CASE y = lc BY <2>1, <2>3, <3>2
    <3> QED BY <3>1, <3>2
  <2> QED BY <1>1, <1>3, <1>4, <2>2, <2>3 DEF Later
<1>12. Rounded'
  <2>1. ASSUME NEW y \in selected, Waits(y)', y \notin status' PROVE Short
    <3>1. CASE y # lc BY <1>1, <1>4, <1>5, <2>1, <3>1 DEF Rounded
    <3>2. CASE y = lc
      <4>1. CASE ~Fits
        <5>1. free < LongHeader + 1 BY <1>2, <4>1, SMT DEF Fits, LongHeader
        <5>2. Cardinality(Peers(lc)) \in Nat /\ Cardinality(Peers(lc)) > 0
          BY <1>2, PeersOf
        <5>3. free < (LongHeader + 1) * Cardinality(Peers(lc))
          BY <1>2, <5>1, <5>2, SMT DEF LongHeader
        <5> QED BY <1>2, <5>3 DEF Short
      <4>2. CASE count > 1 /\ ep = 0 BY <1>5, <4>2 DEF Rounded
      <4> QED BY <1>6, <2>1, <3>2, <4>1, <4>2
    <3> QED BY <3>1, <3>2
  <2> QED BY <1>1, <1>3, <1>4, <1>5, <2>1 DEF Rounded
<1> QED BY <1>8, <1>9, <1>10, <1>11, <1>12 DEF Shares

(* An SDU goes into the PDU.                                                 *)
LEMMA RoundTakesSdu ==
  ASSUME LcpInv, LcpInv', RoundInv, NEW bytes \in Nat, Sdu(bytes)
  PROVE  Turns' /\ Shares'
<1>1. /\ pc = "fill" /\ free >= LongHeader
      /\ remain' = [remain EXCEPT ![lc] = remain[lc] - bytes]
      /\ got' = [got EXCEPT ![lc] = got[lc] + bytes]
      /\ tot' = tot + bytes + (IF count > 1 THEN LongHeader ELSE 0)
      /\ UNCHANGED <<priority, selected, lc, first, count, ep, status, refused>>
  BY DEF Sdu
<1>2. /\ todo \subseteq selected /\ selected \subseteq Lcs /\ lc \in todo /\ free \in Nat
      /\ free' \in Nat /\ tot \in Nat /\ count \in Nat /\ ep \in Nat
      /\ remain \in [Lcs -> Nat] /\ got \in [Lcs -> Nat] /\ lc \in Lcs /\ first \in BOOLEAN
  BY <1>1 DEF LcpInv, LcpTypes, InVisit, RoundInv, PduTypes, Turns, InOrder
<1>3. /\ bytes > 0 /\ free' < free
      /\ first => tot + bytes <= Pbr[lc]
  <2>1. bytes \in 1 .. Request /\ free' = free - Header(Request) - bytes BY DEF Sdu
  <2>2. /\ Room \in Nat /\ Request \in 0 .. Room
        /\ first => tot <= Target /\ Request <= Target - tot
    BY <1>1, RequestBounds
  <2>3. bytes > 0 /\ Request \in Nat /\ bytes <= Request BY <2>1, <2>2, SMT
  <2>4. Header(Request) \in {2, 3} BY <2>3, Headers
  <2>5. Target \in Int /\ Target <= Pbr[lc] /\ Pbr[lc] \in Nat
    BY <1>2, UeLcpAssumption, SMT DEF UeLcpAssumption, Target, Smaller
  <2> QED BY <1>2, <2>1, <2>2, <2>3, <2>4, <2>5, SMT
<1>4. /\ \A y : Peers(y)' = Peers(y) /\ (Alone(y)' <=> Alone(y)) /\ (Clear(y)' <=> Clear(y))
      /\ \A y, z : Precedes(y, z)' <=> Precedes(y, z)
  BY <1>1, SamePeers
<1>5. /\ \A y \in Lcs : y # lc => got'[y] = got[y] /\ remain'[y] = remain[y]
      /\ got'[lc] = got[lc] + bytes /\ remain'[lc] = remain[lc] - bytes
      /\ got'[lc] > 0
  BY <1>1, <1>2, <1>3, SMT
<1>6. /\ \A y \in selected : Waits(y)' => Waits(y)
      /\ \A y \in Lcs : got[y] > 0 => got'[y] > 0
      /\ Fits' => Fits
      /\ Short => Short'
  <2>1. Fits' => Fits BY <1>1, <1>2, <1>3, FillsUp, SMT
  <2>2. Short => Short' BY <1>1, <1>2, <1>3, FillsUp, SMT
  <2>3. \A y \in Lcs : remain'[y] > 0 => remain[y] > 0 BY <1>2, <1>3, <1>5, SMT
  <2>4. \A y \in selected : Waits(y)' => Waits(y) BY <1>1, <1>2, <2>3 DEF Waits
  <2> QED BY <1>2, <1>3, <1>5, <2>1, <2>2, <2>4, SMT
<1>7. FirstRound /\ Rates /\ Later /\ Rounded BY DEF RoundInv, Shares
\* In the first round tot counts all that the channel got.
<1>8. ASSUME first
      PROVE  Rated' /\ got'[lc] <= tot' /\ \A y \in todo : y # lc => got'[y] = 0
  <2>1. Rated /\ got[lc] <= tot /\ \A y \in todo : y # lc => got[y] = 0
    BY <1>1, <1>7, <1>8 DEF FirstRound
  <2>2. got'[lc] <= Pbr[lc]
    BY <1>2, <1>3, <1>5, <1>8, <2>1, UeLcpAssumption, SMT DEF UeLcpAssumption
  <2>3. Rated' BY <1>5, <2>1, <2>2 DEF Rated
  <2>4. got'[lc] <= tot' BY <1>1, <1>2, <1>5, <2>1, SMT DEF LongHeader
  <2> QED BY <1>2, <1>5, <2>1, <2>3, <2>4
<1>9. LonersServed => LonersServed'
  BY <1>1, <1>2, <1>4, <1>6 DEF LonersServed
<1>10. /\ count > 0 => \E y \in selected : count <= Cardinality(Peers(y))
       /\ count > 1 /\ ep = 0 => Short'
       /\ \A y \in selected : Waits(y)' /\ y \notin status => Short'
  BY <1>6, <1>7 DEF Rounded
<1>11. CASE Served \/ free' = 0
  <2>1. Leave /\ pc' = "visit" /\ todo' = todo \ {lc} BY <1>11 DEF Sdu, Leave
  <2>2. Turns'
    <3>1. free' >= LongHeader => num' = num - 1
      <4>1. free' = 0 => ~(free' >= LongHeader) BY SMT DEF LongHeader
      <4> QED BY <1>11, <4>1 DEF Sdu
    <3> QED BY <1>1, <2>1, <3>1, TurnsLeave
  <2>3. FirstRound' BY <1>1, <1>7, <1>8, <2>1 DEF FirstRound
  <2>4. Rates'
    <3>1. ASSUME first, free' > LongHeader, NEW y \in selected \ todo', Alone(y), Waits(y)'
          PROVE  got'[y] > 0
      <4>1. CASE y = lc BY <1>5, <4>1
      <4>2. CASE y # lc
        <5>1. free > LongHeader /\ y \in selected \ todo /\ y \in Lcs
          BY <1>2, <1>3, <2>1, <3>1, <4>2, SMT DEF LongHeader
        <5> QED BY <1>1, <1>6, <1>7, <3>1, <5>1 DEF Rates
      <4> QED BY <4>1, <4>2
    <3>2. ~first => LonersServed' BY <1>1, <1>7, <1>9 DEF Rates
    <3> QED BY <1>1, <1>4, <2>1, <3>1, <3>2 DEF Rates, LongHeader
  <2>5. Later'
    <3>1. \A y \in selected : Clear(y) /\ Waits(y)' /\ Fits' => y \in status
      BY <1>6, <1>7 DEF Later
    <3>2. ASSUME ~first, NEW y \in selected \ todo', Clear(y), Waits(y)' PROVE ~Fits'
      <4>1. CASE y = lc
        <5>1. count = 1 BY <1>1, <3>2, <4>1 DEF RoundInv, Turns, NumFill
        <5>2. ~Served BY <3>2, <5>1, SMT DEF Served
        <5>3. free' = 0 BY <1>11, <5>2
        <5> QED BY <5>3, SMT DEF Fits, LongHeader
      <4>2. CASE y # lc
        <5>1. y \in selected \ todo BY <2>1, <3>2, <4>2
        <5> QED BY <1>1, <1>6, <1>7, <3>2, <5>1 DEF Later
      <4> QED BY <4>1, <4>2
    <3> QED BY <1>1, <1>4, <3>1, <3>2 DEF Later
  <2>6. Rounded' BY <1>1, <1>4, <1>10, <2>1 DEF Rounded
  <2> QED BY <2>2, <2>3, <2>4, <2>5, <2>6 DEF Shares
<1>12. CASE ~(Served \/ free' = 0)
  <2>1. pc' = "fill" /\ todo' = todo /\ num' = num BY <1>1, <1>12 DEF Sdu
  <2>2. Turns'
    <3>1. InOrder' BY <1>1, <1>2, <1>4, <2>1 DEF RoundInv, Turns, InOrder
    <3>2. SamePriority(lc)' = SamePriority(lc) BY <1>1, <2>1 DEF SamePriority
    <3>3. NumFill' BY <1>1, <1>4, <2>1, <3>2 DEF RoundInv, Turns, NumFill
    <3> QED BY <2>1, <3>1, <3>3 DEF Turns, NumVisit
  <2>3. FirstRound' BY <1>1, <1>5, <1>7, <1>8, <2>1 DEF FirstRound
  <2>4. Rates'
    <3>1. ASSUME first, free' > LongHeader, NEW y \in selected \ todo, Alone(y), Waits(y)'
          PROVE  got'[y] > 0
      <4>1. free > LongHeader /\ y \in Lcs
        BY <1>2, <1>3, <3>1, SMT DEF LongHeader
      <4> QED BY <1>1, <1>6, <1>7, <3>1, <4>1 DEF Rates
    <3>2. ~first => LonersServed' BY <1>1, <1>7, <1>9 DEF Rates
    <3> QED BY <1>1, <1>4, <2>1, <3>1, <3>2 DEF Rates, LongHeader
  <2>5. Later' BY <1>1, <1>4, <1>6, <1>7, <2>1 DEF Later
  <2>6. Rounded' BY <1>1, <1>4, <1>10, <2>1 DEF Rounded
  <2> QED BY <2>2, <2>3, <2>4, <2>5, <2>6 DEF Shares
<1> QED BY <1>11, <1>12

(* A round ends: another follows, or the PDU is done.                        *)
LEMMA RoundEnds ==
  ASSUME LcpInv, RoundInv, EndRound
  PROVE  Turns' /\ Shares'
<1>1. /\ pc = "visit" /\ todo = {} /\ first' = FALSE /\ num' = 0 /\ count' = 0
      /\ UNCHANGED <<priority, selected, free, remain, got, status, refused>>
      /\ \/ free > LongHeader /\ todo' = selected /\ pc' = "visit"
         \/ ~(free > LongHeader /\ selected \cap status # {}) /\ pc' = "done"
  BY DEF EndRound, lcVars
<1>2. free \in Nat /\ first \in BOOLEAN BY DEF LcpInv, LcpTypes
<1>3. \A y : Peers(y)' = Peers(y) /\ (Alone(y)' <=> Alone(y)) /\ (Clear(y)' <=> Clear(y))
  BY <1>1, SamePeers
<1>4. /\ \A y : Waits(y)' <=> Waits(y)
      /\ Fits' <=> Fits
      /\ Rated' <=> Rated
      /\ LonersServed' <=> LonersServed
      /\ Short' <=> Short
  BY <1>1, <1>3 DEF Waits, Fits, Rated, LonersServed, Short, LongHeader
<1>5. FirstRound /\ Rates /\ Later /\ Rounded BY DEF RoundInv, Shares
<1>6. Turns'
  <2>1. ~(num' > 0) BY <1>1, SMT
  <2> QED BY <1>1, <2>1 DEF Turns, InOrder, NumVisit, NumFill
<1>7. FirstRound' BY <1>1 DEF FirstRound
<1>8. Rates'
  <2>1. free > LongHeader => LonersServed
    <3>1. CASE first
      <4>1. free > LongHeader => \A y \in selected \ todo : Alone(y) /\ Waits(y) => got[y] > 0
        BY <1>1, <1>5, <3>1 DEF Rates
      <4> QED BY <1>1, <4>1 DEF LonersServed
    <3>2. CASE ~first BY <1>1, <1>5, <3>2 DEF Rates
    <3> QED BY <3>1, <3>2
  <2>2. LonersServed \/ Rated
    <3>1. CASE first BY <1>1, <1>5, <3>1 DEF FirstRound
    <3>2. CASE ~first BY <1>1, <1>5, <3>2 DEF Rates
    <3> QED BY <3>1, <3>2
  <2> QED BY <1>1, <1>4, <2>1, <2>2 DEF Rates
<1>9. Later'
  <2>1. \A y \in selected : Clear(y) /\ Waits(y) /\ Fits => y \in status BY <1>5 DEF Later
  <2>2. pc' = "visit" => selected' \ todo' = {} BY <1>1
  <2> QED BY <1>1, <1>3, <1>4, <2>1, <2>2 DEF Later
<1>10. Rounded'
  <2>1. ~(count' > 0) /\ ~(count' > 1) BY <1>1, SMT
  <2>2. pc' = "done" => free <= LongHeader \/ selected \cap status = {}
    BY <1>1, <1>2, SMT DEF LongHeader
  <2>3. \A y \in selected : Waits(y) /\ y \notin status => Short BY <1>5 DEF Rounded
  <2> QED BY <1>1, <1>4, <2>1, <2>2, <2>3 DEF Rounded, LongHeader
<1> QED BY <1>6, <1>7, <1>8, <1>9, <1>10 DEF Shares

-----------------------------------------------------------------------------
(* The invariant of the rounds. *)

\* A PDU takes from Bj and nothing gives to it, and what is selected has a rate.
LEMMA PduTypesKept ==
  ASSUME LcpInv, RoundInv, Next
  PROVE  PduTypes'
<1>1. /\ LcpTypes /\ PduTypes /\ count \in Nat
      /\ Pbr \in [Lcs -> Nat] /\ Bucket \in [Lcs -> Nat] /\ Credit \in [Lcs -> Nat]
      /\ \A x \in Lcs : Pbr[x] = 0 => Bucket[x] = 0
  BY UeLcpAssumption DEF UeLcpAssumption, LcpInv, LcpTypes, RoundInv
<1>2. ASSUME NEW slots \in 1 .. MaxSlots, UpdateBj(slots) PROVE PduTypes'
  <2>1. slots \in Nat BY UeLcpAssumption, SMT DEF UeLcpAssumption
  <2>2. \A x \in Lcs : bj[x] + Credit[x] * slots \in Int
    <3>1. \A x \in Lcs : bj[x] \in Int /\ Credit[x] \in Nat BY <1>1 DEF PduTypes
    <3> QED BY <2>1, <3>1, SMT
  <2> DEFINE More(x) == bj[x] + Credit[x] * slots
  <2>3. bj' = [x \in Lcs |-> IF More(x) \in 0 .. Bucket[x] THEN More(x) ELSE Bucket[x]]
    BY <1>2 DEF UpdateBj
  <2>4. \A x \in Lcs : More(x) \in Int BY <2>2
  <2> HIDE DEF More
  <2>5. \A x \in Lcs : bj'[x] \in Int /\ bj'[x] <= Bucket[x] BY <1>1, <2>3, <2>4, SMT
  <2>6. bj' \in [Lcs -> Int] BY <2>3, <2>5
  <2>7. UNCHANGED <<pc, priority, got, selected, first, num, status, count>>
    BY <1>2 DEF UpdateBj, lcpVars
  <2> QED BY <1>1, <2>5, <2>6, <2>7 DEF PduTypes, Zero
<1>3. CASE ReadStatus
  <2>1. UNCHANGED <<pc, priority, bj, got, selected, first, num, status, count>>
    BY <1>3 DEF ReadStatus, lcpVars
  <2> QED BY <1>1, <2>1 DEF PduTypes, Zero
<1>4. CASE Configure
  <2>1. UNCHANGED <<pc, bj, got, selected, first, num, status, count>>
    BY <1>4 DEF Configure, lcpVars
  <2>2. priority' \in [Lcs -> Nat] BY <1>4, UeLcpAssumption DEF UeLcpAssumption, Configure
  <2> QED BY <1>1, <2>1, <2>2 DEF PduTypes, Zero
<1>5. ASSUME NEW size \in TbSizes, NEW periodic \in BOOLEAN, NEW reporting \in BOOLEAN,
             GetSdu(size, periodic, reporting)
      PROVE  PduTypes'
  <2>1. /\ UNCHANGED <<priority, bj, got, count>> /\ pc' = "visit"
        /\ selected' = {x \in Lcs : bj[x] > 0}
    BY <1>5 DEF GetSdu, lcVars
  <2>2. \A x \in selected' : Pbr[x] > 0 BY <1>1, <2>1, SMT DEF PduTypes
  <2> QED BY <1>1, <2>1, <2>2 DEF PduTypes
<1>6. ASSUME NEW x \in Lcs, Visit(x) PROVE PduTypes'
  <2>1. /\ UNCHANGED <<priority, bj, got, selected>> /\ pc' \in {"visit", "fill"}
    BY <1>6 DEF Visit, lcVars
  <2> QED BY <1>1, <2>1 DEF PduTypes
<1>7. CASE NoRoom \/ NoSdu
  <2>1. UNCHANGED <<priority, bj, got, selected>> /\ pc' = "visit"
    BY <1>7 DEF NoRoom, NoSdu, Leave, lcVars
  <2> QED BY <1>1, <2>1 DEF PduTypes
<1>8. ASSUME NEW bytes \in 1 .. MaxRemain, Sdu(bytes) PROVE PduTypes'
  <2>1. bytes \in Nat BY UeLcpAssumption, SMT DEF UeLcpAssumption
  <2>2. /\ UNCHANGED <<priority, selected>> /\ pc' \in {"visit", "fill"} /\ lc \in Lcs
        /\ bj' = [bj EXCEPT ![lc] = bj[lc] - bytes]
        /\ got' = [got EXCEPT ![lc] = got[lc] + bytes]
    BY <1>8 DEF Sdu, Leave, LcpInv, InVisit
  <2>3. /\ bj[lc] \in Int /\ got[lc] \in Nat /\ bj[lc] - bytes <= Bucket[lc]
        /\ bj[lc] - bytes \in Int /\ got[lc] + bytes \in Nat
    BY <1>1, <2>1, <2>2, SMT DEF PduTypes
  <2>4. /\ bj' \in [Lcs -> Int] /\ got' \in [Lcs -> Nat]
        /\ \A x \in Lcs : bj'[x] <= Bucket[x]
    BY <1>1, <2>2, <2>3 DEF PduTypes
  <2> QED BY <1>1, <2>2, <2>4 DEF PduTypes
<1>9. CASE EndRound
  <2>1. UNCHANGED <<priority, bj, got, selected>> /\ pc' \in {"visit", "done"} /\ count' = 0
    BY <1>1, <1>9 DEF EndRound, lcVars
  <2> QED BY <1>1, <2>1 DEF PduTypes
<1>10. CASE Return
  <2>1. /\ UNCHANGED <<priority, bj>> /\ got' = Zero /\ selected' = {} /\ first' = TRUE
        /\ num' = 0 /\ count' = 0 /\ status' = Lcs
    BY <1>10 DEF Return, lcVars
  <2>2. Zero \in [Lcs -> Nat] BY SMT DEF Zero
  <2> QED BY <1>1, <2>1, <2>2 DEF PduTypes, Zero
<1> QED
  BY <1>2, <1>3, <1>4, <1>5, <1>6, <1>7, <1>8, <1>9, <1>10 DEF Next, Loop

LEMMA RoundInvHoldsFirst == Init => RoundInv
<1> SUFFICES ASSUME Init PROVE RoundInv OBVIOUS
<1>1. LcpTypes BY LcpInvHoldsFirst DEF LcpInv
<1>2. PduTypes
  <2>1. Zero \in [Lcs -> Int] /\ Zero \in [Lcs -> Nat] /\ \A x \in Lcs : Zero[x] <= Bucket[x]
    BY UeLcpAssumption, SMT DEF UeLcpAssumption, Zero
  <2>2. priority \in [Lcs -> Nat] BY UeLcpAssumption DEF UeLcpAssumption, Init
  <2> QED BY <2>1, <2>2 DEF Init, PduTypes
<1> QED BY <1>1, <1>2, NothingServed DEF Init, Untouched

\* The same of the state after a step.
LEMMA NothingServedYet == LcpTypes' /\ PduTypes' /\ Untouched' => RoundInv'
BY NothingServed, PTL

(* Every step of the rounds.                                                 *)
LEMMA RoundInvIsKept == LcpInv /\ LcpInv' /\ RoundInv /\ [Next]_vars => RoundInv'
<1> SUFFICES ASSUME LcpInv, LcpInv', RoundInv, [Next]_vars PROVE RoundInv' OBVIOUS
<1>1. CASE UNCHANGED vars
  <2>1. UNCHANGED <<pc, priority, remain, bj, selected, todo, lc, first, free, num, count, ep,
                    tot, status, got, refused>>
    BY <1>1 DEF vars, lcVars, lcpVars
  <2>2. /\ \A y : Peers(y)' = Peers(y) /\ (Alone(y)' <=> Alone(y)) /\ (Clear(y)' <=> Clear(y))
        /\ \A y, z : Precedes(y, z)' <=> Precedes(y, z)
    BY <2>1, SamePeers
  <2>3. /\ \A y : Waits(y)' <=> Waits(y)
        /\ Fits' <=> Fits
        /\ Rated' <=> Rated
        /\ LonersServed' <=> LonersServed
        /\ Short' <=> Short
        /\ \A y : SamePriority(y)' = SamePriority(y)
    BY <2>1, <2>2 DEF Waits, Fits, Rated, LonersServed, Short, LongHeader, SamePriority
  <2>4. PduTypes' BY <2>1 DEF RoundInv, PduTypes, Zero
  <2>5. Turns'
    BY <2>1, <2>2, <2>3 DEF RoundInv, Turns, InOrder, NumVisit, NumFill, LongHeader
  <2>6. Shares'
    BY <2>1, <2>2, <2>3 DEF RoundInv, Shares, FirstRound, Rates, Later, Rounded, LongHeader
  <2> QED BY <2>4, <2>5, <2>6 DEF RoundInv
<1>2. CASE Next
  <2>1. PduTypes' BY <1>2, PduTypesKept
  <2>2. LcpTypes' /\ (Untouched' => RoundInv') BY <2>1, NothingServedYet DEF LcpInv
  <2>3. pc = "slot" => first /\ num = 0 /\ count = 0 /\ got = Zero /\ status = Lcs
    BY DEF RoundInv, PduTypes
  <2>4. ASSUME NEW slots \in 1 .. MaxSlots, UpdateBj(slots) PROVE RoundInv'
    BY <2>2, <2>3, <2>4 DEF UpdateBj, lcpVars, Untouched, Zero
  <2>5. CASE ReadStatus BY <2>2, <2>3, <2>5 DEF ReadStatus, lcpVars, Untouched, Zero
  <2>6. CASE Configure BY <2>2, <2>3, <2>6 DEF Configure, lcpVars, Untouched, Zero
  <2>7. ASSUME NEW size \in TbSizes, NEW periodic \in BOOLEAN, NEW reporting \in BOOLEAN,
               GetSdu(size, periodic, reporting)
        PROVE  RoundInv'
    BY <2>2, <2>3, <2>7 DEF GetSdu, Untouched, Zero
  <2>8. ASSUME NEW x \in Lcs, Visit(x) PROVE RoundInv'
    BY <2>1, <2>8, TurnsVisit, SharesVisit DEF RoundInv
  <2>9. CASE NoRoom BY <2>1, <2>9, RoundLeavesFull DEF RoundInv
  <2>10. CASE NoSdu BY <2>1, <2>10, RoundLeavesEmpty DEF RoundInv
  <2>11. ASSUME NEW bytes \in 1 .. MaxRemain, Sdu(bytes) PROVE RoundInv'
    <3>1. bytes \in Nat BY UeLcpAssumption, SMT DEF UeLcpAssumption
    <3> QED BY <2>1, <2>11, <3>1, RoundTakesSdu DEF RoundInv
  <2>12. CASE EndRound BY <2>1, <2>12, RoundEnds DEF RoundInv
  <2>13. CASE Return BY <2>2, <2>13 DEF Return, Untouched, Zero
  <2> QED
    BY <1>2, <2>4, <2>5, <2>6, <2>7, <2>8, <2>9, <2>10, <2>11, <2>12, <2>13 DEF Next, Loop
<1> QED BY <1>1, <1>2

(* Both invariants hold throughout.                                          *)
LEMMA RoundsHold == Spec => [](LcpInv /\ RoundInv)
<1>1. Init => LcpInv /\ RoundInv BY LcpInvHoldsFirst, RoundInvHoldsFirst
<1>2. LcpInv /\ RoundInv /\ [Next]_vars => (LcpInv /\ RoundInv)'
  BY LcpInvIsKept, RoundInvIsKept
<1> QED BY <1>1, <1>2, PTL DEF Spec

\* The first round is over before the rest is given out: for any channels, rates and sizes
\* of PUSCHs, a channel gets more than its prioritised bit rate only when every channel
\* without a peer that waits has got something.
THEOREM RatesAlwaysBeforeRest == Spec => []RateBeforeRest
<1>1. LcpInv /\ RoundInv => RateBeforeRest
  <2> SUFFICES ASSUME LcpInv, RoundInv, pc = "done", NEW y \in Lcs, got[y] > Pbr[y],
                      NEW x \in Lcs, Alone(x), Waits(x)
               PROVE  got[x] > 0
    BY DEF RateBeforeRest
  <2>1. LonersServed \/ Rated BY DEF RoundInv, Shares, Rates
  <2>2. got[y] \in Nat /\ Pbr[y] \in Nat
    BY UeLcpAssumption DEF UeLcpAssumption, RoundInv, PduTypes
  <2>3. ~(got[y] <= Pbr[y]) BY <2>2, SMT
  <2>4. LonersServed BY <2>1, <2>3 DEF Rated
  <2> QED BY <2>4 DEF LonersServed, Waits
<1> QED BY <1>1, RoundsHold, PTL

\* nr_ue_get_sdu() leaves data waiting only for lack of room, up to what rounding the shares
\* of a group loses, whatever RLC gives and however many rounds it takes.
THEOREM PdusFullOrEmpty == Spec => []FullOrEmpty
<1>1. LcpInv /\ RoundInv => FullOrEmpty
  <2> SUFFICES ASSUME LcpInv, RoundInv, pc = "done", NEW x \in Lcs, Waits(x)
               PROVE  Short
    BY DEF FullOrEmpty, Short
  <2>1. x \in selected /\ selected \subseteq Lcs /\ free \in Nat
    BY DEF Waits, LcpInv, LcpTypes
  <2>2. Rounded BY DEF RoundInv, Shares
  <2>3. CASE free <= LongHeader
    <3>1. Cardinality(Peers(x)) \in Nat /\ Cardinality(Peers(x)) > 0 BY <2>1, PeersOf
    <3>2. free < (LongHeader + 1) * Cardinality(Peers(x))
      BY <2>1, <2>3, <3>1, SMT DEF LongHeader
    <3> QED BY <2>1, <3>2 DEF Short
  <2>4. CASE selected \cap status = {} BY <2>1, <2>2, <2>4 DEF Rounded
  <2> QED BY <2>2, <2>3, <2>4 DEF Rounded
<1> QED BY <1>1, RoundsHold, PTL

\* A byte goes to a channel in a later round only when no more urgent channel waits, as long
\* as no group is above it: what a round passes over has no room or no data.
THEOREM MoreUrgentFirst == Spec => UrgentFirst
<1>1. LcpInv /\ RoundInv /\ [Next]_vars =>
        [\A hi, lo \in Lcs :
           /\ pc = "fill" /\ ~first /\ got'[lo] > got[lo]
           /\ priority[hi] < priority[lo]
           /\ \A x \in selected : priority[x] < priority[lo] => Alone(x)
           => ~Waits(hi)]_vars
  <2> SUFFICES ASSUME LcpInv, RoundInv, [Next]_vars, NEW hi \in Lcs, NEW lo \in Lcs,
                      pc = "fill", ~first, got'[lo] > got[lo], priority[hi] < priority[lo],
                      \A x \in selected : priority[x] < priority[lo] => Alone(x),
                      Waits(hi)
               PROVE  FALSE
    OBVIOUS
  <2>1. /\ priority \in [Lcs -> Nat] /\ got \in [Lcs -> Nat] /\ free \in Nat
        /\ hi \in selected /\ selected \subseteq Lcs /\ todo \subseteq selected
    BY DEF RoundInv, PduTypes, LcpInv, LcpTypes, Waits
  <2>2. got' # got
    <3>1. got[lo] \in Nat BY <2>1
    <3> QED BY <3>1, SMT
  <2>3. PICK bytes \in 1 .. MaxRemain : Sdu(bytes)
    <3>1. UNCHANGED vars => got' = got BY DEF vars
    <3>2. pc # "slot" /\ pc # "visit" /\ pc # "done" OBVIOUS
    <3>3. NoRoom \/ NoSdu => got' = got BY DEF NoRoom, NoSdu
    <3>4. \A slots \in 1 .. MaxSlots : ~UpdateBj(slots) BY <3>2 DEF UpdateBj
    <3>5. \A size \in TbSizes, periodic, reporting \in BOOLEAN :
            ~GetSdu(size, periodic, reporting)
      BY <3>2 DEF GetSdu
    <3>6. \A x \in Lcs : ~Visit(x) BY <3>2 DEF Visit
    <3>7. ~ReadStatus /\ ~Configure /\ ~EndRound /\ ~Return
      BY <3>2 DEF ReadStatus, Configure, EndRound, Return
    <3> QED BY <2>2, <3>1, <3>3, <3>4, <3>5, <3>6, <3>7 DEF Next, Loop
  <2>4. lc = lo /\ free >= LongHeader
    <3>1. got' = [got EXCEPT ![lc] = got[lc] + bytes] /\ free >= LongHeader BY <2>3 DEF Sdu
    <3>2. lc # lo => got'[lo] = got[lo] BY <2>1, <3>1
    <3>3. got[lo] \in Nat BY <2>1
    <3> QED BY <3>1, <3>2, <3>3, SMT
  <2>5. Fits
    <3>1. bytes \in 1 .. Request BY <2>3 DEF Sdu
    <3>2. Request \in 0 .. Room /\ Room \in Nat BY <2>4, RequestBounds
    <3>3. Room > 0 BY <3>1, <3>2, SMT
    <3> QED BY <2>1, <2>4, <3>3, RoomFits
  <2>6. Clear(hi)
    <3>1. ASSUME NEW y \in selected, priority[y] <= priority[hi] PROVE priority[y] < priority[lo]
      <4>1. priority[y] \in Nat /\ priority[hi] \in Nat /\ priority[lo] \in Nat BY <2>1
      <4> QED BY <3>1, <4>1, SMT
    <3> QED BY <3>1 DEF Clear
  <2>7. hi \notin todo
    <3>1. Precedes(hi, lc) BY <2>4 DEF Precedes
    <3> QED BY <3>1 DEF RoundInv, Turns, InOrder
  <2> QED BY <2>1, <2>5, <2>6, <2>7 DEF RoundInv, Shares, Later
<1> QED BY <1>1, RoundsHold, PTL DEF Spec, UrgentFirst

-----------------------------------------------------------------------------
(* The BSR. *)

BsrTypes ==
  /\ priority \in Priorities /\ lc \in Nat /\ bsrLen \in Nat
  /\ status \subseteq Lcs /\ refused \subseteq Lcs

\* What is set aside is a whole BSR, a long one for as many groups as have data yet.
BsrSetAside ==
  /\ bsrLen > 0 => bsrLen >= ShortBsr
  /\ bsrLen >= LongBsr(2) => LongBsr(WithData(lcgBytes)) <= bsrLen

\* The bytes of the groups are taken down with those of their channels.
GroupsCounted == lcgBytes = IF pc = "slot" THEN [g \in Lcgs |-> 0] ELSE LcgBytes

BsrInv == BsrTypes /\ BsrSetAside /\ GroupsCounted

\* The channels of a group.
InGroup(g) == {x \in Lcs : Lcg[x] = g}

(* The groups are few.                                                       *)
LEMMA LcgsFinite == IsFiniteSet(Lcgs)
<1>1. 0 \in Int /\ 7 \in Int BY SMT
<1> QED BY <1>1, FS_Interval DEF Lcgs

(* The bytes of a group are those of its channels.                           *)
LEMMA GroupBytes ==
  ASSUME remain \in [Lcs -> Nat], NEW g \in Lcgs
  PROVE  /\ IsFiniteSet(InGroup(g)) /\ LcgBytes[g] = SumFunctionOnSet(remain, InGroup(g))
         /\ LcgBytes[g] \in Nat
         /\ LcgBytes[g] = 0 <=> \A x \in InGroup(g) : remain[x] = 0
<1>1. IsFiniteSet(InGroup(g)) BY UeLcpAssumption, FS_Subset DEF UeLcpAssumption, InGroup
<1>2. LcgBytes[g] = SumFunctionOnSet(remain, InGroup(g)) BY DEF LcgBytes, InGroup
<1>3. \A x \in InGroup(g) : remain[x] \in Nat BY DEF InGroup
<1>4. /\ SumFunctionOnSet(remain, InGroup(g)) \in Nat
      /\ SumFunctionOnSet(remain, InGroup(g)) = 0 <=> \A x \in InGroup(g) : remain[x] = 0
  BY <1>1, <1>3, SumOfNats
<1> QED BY <1>1, <1>2, <1>4

(* How many groups have data.                                                *)
LEMMA GroupsWithData ==
  ASSUME NEW b
  PROVE  /\ IsFiniteSet({g \in Lcgs : b[g] > 0})
         /\ WithData(b) \in Nat
         /\ \A S \in SUBSET {g \in Lcgs : b[g] > 0} :
              Cardinality(S) \in Nat /\ Cardinality(S) <= WithData(b)
<1>1. IsFiniteSet({g \in Lcgs : b[g] > 0}) BY LcgsFinite, FS_Subset
<1> QED BY <1>1, FS_Subset, FS_CardinalityType DEF WithData

(* The bytes a channel gives go off those of its group.                      *)
LEMMA GroupLosesBytes ==
  ASSUME remain \in [Lcs -> Nat], lc \in Lcs, NEW bytes \in Nat, bytes <= remain[lc],
         lcgBytes = LcgBytes,
         remain' = [remain EXCEPT ![lc] = @ - bytes],
         lcgBytes' = [lcgBytes EXCEPT ![Lcg[lc]] = @ - bytes]
  PROVE  lcgBytes' = LcgBytes' /\ WithData(lcgBytes') <= WithData(lcgBytes)
<1>1. Lcg[lc] \in Lcgs BY UeLcpAssumption DEF UeLcpAssumption
<1>2. remain' \in [Lcs -> Nat]
  <2>1. remain[lc] - bytes \in Nat BY SMT
  <2> QED BY <2>1
<1>3. ASSUME NEW g \in Lcgs
      PROVE  lcgBytes'[g] = SumFunctionOnSet(remain', InGroup(g)) /\ lcgBytes'[g] <= lcgBytes[g]
  <2> DEFINE d == 0 - bytes
  <2>1. IsFiniteSet(InGroup(g)) /\ lcgBytes[g] = SumFunctionOnSet(remain, InGroup(g))
        /\ lcgBytes[g] \in Nat
    BY GroupBytes
  <2>2. d \in Int /\ \A x \in InGroup(g) : remain[x] \in Int /\ remain'[x] \in Int
    BY <1>2 DEF InGroup
  <2>3. lc \in InGroup(g) => remain'[lc] = remain[lc] + d BY SMT DEF InGroup
  <2>4. \A x \in InGroup(g) \ {lc} : remain'[x] = remain[x] BY DEF InGroup
  <2> HIDE DEF d
  <2>5. SumFunctionOnSet(remain', InGroup(g))
          = SumFunctionOnSet(remain, InGroup(g)) + (IF lc \in InGroup(g) THEN d ELSE 0)
    <3>1. ASSUME NEW T, IsFiniteSet(T), NEW f, NEW h, \A x \in T : f[x] \in Int /\ h[x] \in Int,
                 lc \in T => h[lc] = f[lc] + d, \A x \in T \ {lc} : h[x] = f[x]
          PROVE  SumFunctionOnSet(h, T) = SumFunctionOnSet(f, T) + (IF lc \in T THEN d ELSE 0)
      BY <2>2, <3>1, SumChanges, Zenon
    <3> QED BY <2>1, <2>2, <2>3, <2>4, <3>1, Zenon
  <2>6. lc \in InGroup(g) <=> g = Lcg[lc] BY DEF InGroup
  <2>7. lcgBytes'[g] = lcgBytes[g] + (IF g = Lcg[lc] THEN d ELSE 0)
    <3>1. lcgBytes = [h \in Lcgs |-> lcgBytes[h]] BY DEF LcgBytes
    <3>2. CASE g = Lcg[lc]
      <4>1. lcgBytes'[g] = lcgBytes[g] - bytes BY <1>1, <3>1, <3>2
      <4> QED BY <2>1, <3>2, <4>1, SMT DEF d
    <3>3. CASE g # Lcg[lc]
      <4>1. lcgBytes'[g] = lcgBytes[g] BY <1>1, <3>1, <3>3
      <4> QED BY <2>1, <3>3, <4>1, SMT
    <3> QED BY <3>2, <3>3
  <2>8. lcgBytes'[g] <= lcgBytes[g] BY <2>1, <2>7, SMT DEF d
  <2> QED BY <2>1, <2>5, <2>6, <2>7, <2>8
<1>4. lcgBytes' = LcgBytes'
  <2>1. LcgBytes' = [g \in Lcgs |-> SumFunctionOnSet(remain', InGroup(g))] BY DEF LcgBytes, InGroup
  <2>2. lcgBytes' = [g \in Lcgs |-> lcgBytes'[g]] BY DEF LcgBytes
  <2> QED BY <1>3, <2>1, <2>2
<1>5. {g \in Lcgs : lcgBytes'[g] > 0} \subseteq {g \in Lcgs : lcgBytes[g] > 0}
  <2> SUFFICES ASSUME NEW g \in Lcgs, lcgBytes'[g] > 0 PROVE lcgBytes[g] > 0 OBVIOUS
  <2>1. lcgBytes[g] \in Nat /\ lcgBytes'[g] <= lcgBytes[g] BY <1>3, GroupBytes
  <2>2. lcgBytes'[g] \in Nat
    <3>1. LcgBytes'[g] \in Nat
      <4>1. \A x \in InGroup(g) : remain'[x] \in Nat BY <1>2 DEF InGroup
      <4>2. IsFiniteSet(InGroup(g)) BY GroupBytes
      <4>3. SumFunctionOnSet(remain', InGroup(g)) \in Nat BY <4>1, <4>2, SumOfNats
      <4> QED BY <1>3, <1>4, <4>3
    <3> QED BY <1>4, <3>1
  <2> QED BY <2>1, <2>2, SMT
<1>6. WithData(lcgBytes') <= WithData(lcgBytes)
  BY <1>5, GroupsWithData DEF WithData
<1> QED BY <1>4, <1>6

(* Before the first PDU there is no BSR.                                     *)
LEMMA BsrInvHoldsFirst == Init => BsrInv
<1> SUFFICES ASSUME Init PROVE BsrInv OBVIOUS
<1>1. BsrTypes BY SMT DEF Init, BsrTypes
<1>2. BsrSetAside BY SMT DEF Init, BsrSetAside, LongBsr
<1> QED BY <1>1, <1>2 DEF BsrInv, GroupsCounted, Init

(* Room is set aside for what is reported now.                               *)
LEMMA SetsBsrAside ==
  ASSUME LcpInv, BsrInv, NEW size \in TbSizes, NEW periodic \in BOOLEAN,
         NEW reporting \in BOOLEAN, GetSdu(size, periodic, reporting)
  PROVE  BsrInv'
<1>1. WithData(LcgBytes) \in Nat BY GroupsWithData
<1>2. lcgBytes' = LcgBytes /\ bsrLen' = BsrRoom(size, WithData(LcgBytes), periodic)
      /\ remain' = remain /\ pc' = "visit" /\ priority' = priority /\ lc' = lc
      /\ status' = status /\ refused' = refused
  BY DEF GetSdu, lcVars
<1>3. size \in Nat BY UeLcpAssumption DEF UeLcpAssumption
<1>4. bsrLen' \in Nat /\ (bsrLen' > 0 => bsrLen' >= ShortBsr)
      /\ (bsrLen' >= LongBsr(2) => LongBsr(WithData(LcgBytes)) <= bsrLen')
  BY <1>1, <1>2, <1>3, SMT DEF BsrRoom, LongBsr, ShortBsr
<1>5. BsrTypes' BY <1>2, <1>4 DEF BsrInv, BsrTypes
<1>6. BsrSetAside' BY <1>2, <1>4 DEF BsrSetAside, ShortBsr, LongBsr
<1>7. GroupsCounted' BY <1>2 DEF GroupsCounted, LcgBytes
<1> QED BY <1>5, <1>6, <1>7 DEF BsrInv

(* Every step keeps the BSR and the groups in line.                          *)
LEMMA BsrInvIsKept == LcpInv /\ BsrInv /\ [Next]_vars => BsrInv'
<1> SUFFICES ASSUME LcpInv, BsrInv, [Next]_vars PROVE BsrInv' OBVIOUS
<1>1. ASSUME UNCHANGED <<lcgBytes, bsrLen>>, pc' = "slot" <=> pc = "slot",
             pc = "slot" \/ remain' = remain, BsrTypes'
      PROVE  BsrInv'
  <2>1. BsrSetAside' BY <1>1 DEF BsrInv, BsrSetAside, LongBsr, ShortBsr
  <2>2. GroupsCounted' BY <1>1 DEF BsrInv, GroupsCounted, LcgBytes
  <2> QED BY <1>1, <2>1, <2>2 DEF BsrInv
<1> USE DEF BsrInv, BsrTypes
<1>2. CASE UNCHANGED vars BY <1>1, <1>2 DEF vars, lcVars, lcpVars
<1>3. ASSUME NEW slots \in 1 .. MaxSlots, UpdateBj(slots) PROVE BsrInv'
  BY <1>1, <1>3 DEF UpdateBj, lcpVars
<1>4. CASE ReadStatus BY <1>1, <1>4 DEF ReadStatus, lcpVars
<1>5. CASE Configure BY <1>1, <1>5 DEF Configure, lcpVars
<1>6. ASSUME NEW size \in TbSizes, NEW periodic \in BOOLEAN, NEW reporting \in BOOLEAN,
             GetSdu(size, periodic, reporting)
      PROVE  BsrInv'
  BY <1>6, SetsBsrAside
<1>7. ASSUME NEW x \in Lcs, Visit(x) PROVE BsrInv'
  <2>1. lc' \in Nat /\ pc = "visit" /\ pc' \in {"visit", "fill"}
    BY <1>7, UeLcpAssumption DEF UeLcpAssumption, Visit
  <2>2. UNCHANGED <<priority, remain, bsrLen, lcgBytes, status, refused>>
    BY <1>7 DEF Visit, lcVars
  <2> QED BY <1>1, <2>1, <2>2
<1>8. CASE NoRoom BY <1>1, <1>8 DEF NoRoom, Leave, lcVars
<1>9. CASE NoSdu
  <2>1. lc \in Lcs BY <1>9 DEF LcpInv, InVisit, NoSdu
  <2> QED BY <1>1, <1>9, <2>1 DEF NoSdu, Leave, lcVars
<1>10. ASSUME NEW bytes \in 1 .. MaxRemain, Sdu(bytes) PROVE BsrInv'
  <2>1. /\ pc = "fill" /\ lc \in Lcs /\ free >= LongHeader /\ remain \in [Lcs -> Nat]
        /\ pc' \in {"fill", "visit"} /\ bytes \in 1 .. Request
        /\ remain' = [remain EXCEPT ![lc] = @ - bytes]
        /\ lcgBytes' = [lcgBytes EXCEPT ![Lcg[lc]] = @ - bytes]
        /\ UNCHANGED <<priority, lc, bsrLen, status, refused>>
    BY <1>10 DEF Sdu, Leave, LcpInv, LcpTypes, InVisit
  <2>2. bytes \in Nat /\ bytes <= remain[lc]
    <3>1. Request \in 0 .. Room /\ Room \in Nat /\ Request <= remain[lc]
      BY <2>1, RequestBounds
    <3> QED BY <2>1, <3>1, SMT
  <2>3. lcgBytes = LcgBytes BY <2>1 DEF GroupsCounted
  <2>4. lcgBytes' = LcgBytes' /\ WithData(lcgBytes') <= WithData(lcgBytes)
    BY <2>1, <2>2, <2>3, GroupLosesBytes, Zenon
  <2>5. WithData(lcgBytes) \in Nat /\ WithData(lcgBytes') \in Nat BY GroupsWithData
  <2>6. BsrSetAside'
    <3>1. WithData(lcgBytes)' = WithData(lcgBytes') BY DEF WithData
    <3> QED BY <2>1, <2>4, <2>5, <3>1, SMT DEF BsrSetAside, LongBsr, ShortBsr
  <2>7. GroupsCounted' BY <2>1, <2>4 DEF GroupsCounted
  <2> QED BY <2>1, <2>6, <2>7
<1>11. CASE EndRound BY <1>1, <1>11 DEF EndRound, lcVars
<1>12. CASE Return
  <2>1. BsrTypes' BY <1>12, SMT DEF Return, lcVars
  <2>2. BsrSetAside' BY <1>12, SMT DEF Return, BsrSetAside, LongBsr
  <2>3. GroupsCounted' BY <1>12 DEF Return, GroupsCounted
  <2> QED BY <2>1, <2>2, <2>3
<1> QED
  BY <1>2, <1>3, <1>4, <1>5, <1>6, <1>7, <1>8, <1>9, <1>10, <1>11, <1>12 DEF Next, Loop

(* All three invariants hold throughout.                                     *)
LEMMA BsrHolds == Spec => [](LcpInv /\ RoundInv /\ BsrInv)
<1>1. Init => BsrInv BY BsrInvHoldsFirst
<1>2. LcpInv /\ BsrInv /\ [Next]_vars => BsrInv' BY BsrInvIsKept
<1> QED BY <1>1, <1>2, RoundsHold, PTL DEF Spec

\* Types, and that the size of a group never wraps and covers what is left of it, for any
\* channels, priorities, rates and sizes of PUSCHs.
THEOREM LcpTypeCorrect == Spec => []TypeOK
<1>1. LcpInv /\ RoundInv /\ BsrInv => TypeOK
  <2> SUFFICES ASSUME LcpInv, RoundInv, BsrInv PROVE TypeOK OBVIOUS
  <2>1. lcgBytes \in [Lcgs -> Nat]
    <3>1. \A g \in Lcgs : LcgBytes[g] \in Nat BY GroupBytes DEF LcpInv, LcpTypes
    <3>2. LcgBytes \in [Lcgs -> Nat]
      <4>1. LcgBytes = [g \in Lcgs |-> LcgBytes[g]] BY DEF LcgBytes
      <4> QED BY <3>1, <4>1
    <3>3. [g \in Lcgs |-> 0] \in [Lcgs -> Nat] BY SMT
    <3> QED BY <3>2, <3>3 DEF BsrInv, GroupsCounted
  <2> QED BY <2>1 DEF LcpInv, LcpTypes, RoundInv, PduTypes, BsrInv, BsrTypes, TypeOK
<1> QED BY <1>1, BsrHolds, PTL

(* Some channel with data has none before it.                                *)
LEMMA MostUrgent ==
  ASSUME priority \in [Lcs -> Nat], NEW S \in SUBSET Lcs, S # {}
  PROVE  \E x \in S : \A y \in S : ~Precedes(y, x)
<1> DEFINE P == {priority[x] : x \in S}
<1>1. PICK m \in P : \A n \in P : ~(n < m)
  <2>1. P \in SUBSET Nat /\ P # {} OBVIOUS
  <2> HIDE DEF P
  <2> QED BY <2>1, LeastNat
<1> DEFINE E == {x \in S : priority[x] = m}
<1>2. PICK x \in E : \A y \in E : ~(y < x)
  <2>1. E \in SUBSET Nat /\ E # {} BY UeLcpAssumption DEF UeLcpAssumption
  <2> HIDE DEF E
  <2> QED BY <2>1, LeastNat
<1>3. ASSUME NEW y \in S PROVE ~Precedes(y, x)
  BY <1>1, <1>2, <1>3 DEF Precedes
<1> QED BY <1>2, <1>3

(* If one group at most has data it is that of the first channel with data.  *)
LEMMA OnlyFirstLcg ==
  ASSUME LcpTypes, PduTypes, lcgBytes = LcgBytes, WithData(lcgBytes) < 2,
         NEW g \in Lcgs, lcgBytes[g] # 0
  PROVE  g = FirstLcg
<1> DEFINE data == {x \in Lcs : remain[x] > 0}
           Least(x) == x \in data /\ \A y \in data : ~Precedes(y, x)
           c == CHOOSE x \in data : \A y \in data : ~Precedes(y, x)
<1>1. /\ remain \in [Lcs -> Nat] /\ priority \in [Lcs -> Nat]
      /\ \A h \in Lcgs :
           /\ lcgBytes[h] \in Nat
           /\ lcgBytes[h] = 0 <=> \A x \in InGroup(h) : remain[x] = 0
  BY GroupBytes DEF LcpTypes, PduTypes
<1>2. data # {}
  <2>1. PICK x \in InGroup(g) : remain[x] # 0 BY <1>1
  <2>2. x \in Lcs /\ remain[x] > 0 BY <1>1, <2>1 DEF InGroup
  <2> QED BY <2>2
<1>3. \E x \in data : \A y \in data : ~Precedes(y, x)
  <2>1. data \in SUBSET Lcs OBVIOUS
  <2> HIDE DEF data
  <2> QED BY <1>1, <1>2, <2>1, MostUrgent
<1>4. c \in data BY <1>3
<1>5. FirstLcg = Lcg[c] BY <1>2 DEF FirstLcg
<1> HIDE DEF c
<1>6. Lcg[c] \in Lcgs /\ lcgBytes[Lcg[c]] # 0
  <2>1. c \in Lcs /\ remain[c] # 0 BY <1>1, <1>4
  <2>2. Lcg[c] \in Lcgs BY <2>1, UeLcpAssumption DEF UeLcpAssumption
  <2>3. c \in InGroup(Lcg[c]) BY <2>1 DEF InGroup
  <2> QED BY <1>1, <2>1, <2>2, <2>3
<1>7. g # Lcg[c] => FALSE
  <2> SUFFICES ASSUME g # Lcg[c] PROVE FALSE OBVIOUS
  <2>1. {g, Lcg[c]} \in SUBSET {h \in Lcgs : lcgBytes[h] > 0}
    <3>1. lcgBytes[g] \in Nat /\ lcgBytes[Lcg[c]] \in Nat BY <1>1, <1>6
    <3>2. lcgBytes[g] > 0 /\ lcgBytes[Lcg[c]] > 0 BY <1>6, <3>1, SMT
    <3> QED BY <1>6, <3>2
  <2>2. Cardinality({g, Lcg[c]}) = 2
    <3>1. Cardinality({g}) = 1 /\ IsFiniteSet({g}) BY FS_Singleton
    <3>2. Cardinality({g} \cup {Lcg[c]}) = Cardinality({g}) + 1 BY <3>1, FS_AddElement
    <3>3. {g} \cup {Lcg[c]} = {g, Lcg[c]} OBVIOUS
    <3> QED BY <3>1, <3>2, <3>3
  <2>3. WithData(lcgBytes) \in Nat /\ Cardinality({g, Lcg[c]}) <= WithData(lcgBytes)
    BY <2>1, GroupsWithData
  <2> QED BY <2>2, <2>3, SMT
<1> QED BY <1>5, <1>7

(* The kinds of BSR.                                                         *)
LEMMA BsrKinds ==
  ASSUME NEW p \in Nat, NEW n \in Nat
  PROVE  /\ n < 2 /\ p >= ShortBsr => BsrType(p, n) = "short"
         /\ n >= 2 /\ p >= LongBsr(n) => BsrType(p, n) = "long"
         /\ p >= ShortBsr => BsrType(p, n) # "none"
         /\ BsrType(p, n) = "short" => n < 2
         /\ BsrType(p, n) = "long" => p >= LongBsr(n)
<1>1. n < 2 <=> ~(n >= 2) BY SMT
<1>2. /\ p < LongBsr(n) <=> ~(p >= LongBsr(n))
      /\ p >= ShortBsr <=> p = ShortBsr \/ p > ShortBsr
      /\ n >= 2 /\ p >= LongBsr(n) => p # ShortBsr
  BY SMT DEF LongBsr, ShortBsr
<1>3. /\ "short" # "none" /\ "long" # "none" /\ "short_trunc" # "none" /\ "long_trunc" # "none"
      /\ "short" # "long" /\ "short" # "short_trunc" /\ "short" # "long_trunc"
      /\ "long" # "short_trunc" /\ "long" # "long_trunc"
  OBVIOUS
<1>4. CASE n < 2 /\ p >= ShortBsr
  <2>1. BsrType(p, n) = "short" BY <1>1, <1>4, Zenon DEF BsrType
  <2> QED BY <1>1, <1>3, <1>4, <2>1, Zenon
<1>5. CASE n >= 2 /\ p >= LongBsr(n)
  <2>1. BsrType(p, n) = "long" BY <1>1, <1>2, <1>5, Zenon DEF BsrType
  <2> QED BY <1>1, <1>3, <1>5, <2>1, Zenon
<1>6. CASE n >= 2 /\ p = ShortBsr
  <2>1. ~(p > ShortBsr) BY <1>6, SMT DEF ShortBsr
  <2>2. ~(p >= LongBsr(n)) BY <1>2, <1>6
  <2>3. BsrType(p, n) = "short_trunc" BY <1>1, <1>6, <2>1, <2>2, Zenon DEF BsrType
  <2> QED BY <1>1, <1>3, <1>6, <2>2, <2>3, Zenon
<1>7. CASE n >= 2 /\ p > ShortBsr /\ p < LongBsr(n)
  <2>1. p # ShortBsr BY <1>7, SMT DEF ShortBsr
  <2>2. BsrType(p, n) = "long_trunc" BY <1>1, <1>2, <1>7, <2>1, Zenon DEF BsrType
  <2> QED BY <1>1, <1>2, <1>3, <1>7, <2>2, Zenon
<1>8. CASE ~(p >= ShortBsr)
  <2>1. ~(p >= LongBsr(n)) BY <1>8, SMT DEF ShortBsr, LongBsr
  <2>2. BsrType(p, n) = "none" BY <1>2, <1>8, <2>1, Zenon DEF BsrType
  <2> QED BY <1>3, <1>8, <2>1, <2>2, Zenon
<1> QED BY <1>1, <1>2, <1>4, <1>5, <1>6, <1>7, <1>8, Zenon

\* The room set aside before the SDUs serves the BSR written after them, for any channels,
\* groups and sizes of PUSCHs and whatever RLC gave in between, and a BSR that is not
\* truncated tells what is left in every group.
THEOREM BsrAlwaysTells == Spec => []BsrTells
<1>1. LcpInv /\ RoundInv /\ BsrInv => BsrTells
  <2> SUFFICES ASSUME LcpInv, RoundInv, BsrInv, pc = "done" PROVE
        /\ bsrLen > 0 => Bsr.type # "none"
        /\ bsrLen >= LongBsr(2) => Bsr.type \in {"short", "long"}
        /\ Bsr.type \in {"short", "long"} => Bsr.bytes = LcgBytes
    BY DEF BsrTells
  <2> DEFINE n == WithData(lcgBytes)
             p == free + bsrLen
             type == BsrType(p, n)
  <2>1. /\ free \in Nat /\ bsrLen \in Nat /\ n \in Nat /\ p \in Nat
        /\ lcgBytes = LcgBytes /\ LcpTypes /\ PduTypes
        /\ bsrLen > 0 => bsrLen >= ShortBsr
        /\ bsrLen >= LongBsr(2) => LongBsr(n) <= bsrLen
    <3>1. n \in Nat BY GroupsWithData
    <3>2. free \in Nat /\ bsrLen \in Nat BY DEF LcpInv, LcpTypes, BsrInv, BsrTypes
    <3>3. lcgBytes = LcgBytes BY DEF BsrInv, GroupsCounted
    <3> HIDE DEF n
    <3>4. p \in Nat BY <3>2, SMT
    <3> QED BY <3>1, <3>2, <3>3, <3>4 DEF LcpInv, RoundInv, BsrInv, BsrSetAside, n
  <2>2. /\ Bsr.type = type
        /\ Bsr.bytes = [g \in Lcgs |-> IF g \in Reported(type, p) THEN lcgBytes[g] ELSE 0]
    BY Zenon DEF Bsr
  <2>3. p >= bsrLen BY <2>1, SMT
  <2> HIDE DEF n, p, type
  <2>4. /\ n < 2 /\ p >= ShortBsr => type = "short"
        /\ n >= 2 /\ p >= LongBsr(n) => type = "long"
        /\ p >= ShortBsr => type # "none"
        /\ type = "short" => n < 2
        /\ type = "long" => p >= LongBsr(n)
    BY <2>1, BsrKinds, Zenon DEF type
  <2>5. bsrLen > 0 => type # "none" BY <2>1, <2>3, <2>4, SMT DEF ShortBsr
  <2>6. bsrLen >= LongBsr(2) => type \in {"short", "long"}
    <3> SUFFICES ASSUME bsrLen >= LongBsr(2) PROVE type \in {"short", "long"} OBVIOUS
    <3>1. (n < 2 \/ n >= 2) /\ p >= ShortBsr /\ p >= LongBsr(n)
      BY <2>1, <2>3, SMT DEF LongBsr, ShortBsr
    <3> QED BY <2>4, <3>1
  <2>7. ASSUME type \in {"short", "long"}, NEW g \in Lcgs, g \notin Reported(type, p)
        PROVE  lcgBytes[g] = 0
    <3>1. /\ "short" # "none" /\ "short" # "long" /\ "short" # "short_trunc"
          /\ "short" # "long_trunc" /\ "long" # "none" /\ "long" # "short_trunc"
          /\ "long" # "long_trunc"
      OBVIOUS
    <3>2. CASE type = "short"
      <4>1. Reported(type, p) = {FirstLcg} BY <3>1, <3>2, Zenon DEF Reported
      <4>2. WithData(lcgBytes) < 2 BY <2>4, <3>2 DEF n
      <4> QED BY <2>1, <2>7, <4>1, <4>2, OnlyFirstLcg
    <3>3. CASE type = "long"
      <4>1. Reported(type, p) = {h \in Lcgs :
              Cardinality({k \in 0 .. h : lcgBytes[k] > 0}) <= p - LongBsr(0)}
        BY <3>1, <3>3, Zenon DEF Reported
      <4>2. {k \in 0 .. g : lcgBytes[k] > 0} \in SUBSET {k \in Lcgs : lcgBytes[k] > 0}
        BY SMT DEF Lcgs
      <4>3. /\ Cardinality({k \in 0 .. g : lcgBytes[k] > 0}) \in Nat
            /\ Cardinality({k \in 0 .. g : lcgBytes[k] > 0}) <= n
        BY <4>2, GroupsWithData DEF n
      <4>4. p >= LongBsr(n) BY <2>4, <3>3
      <4> DEFINE m == Cardinality({k \in 0 .. g : lcgBytes[k] > 0})
      <4> HIDE DEF m
      <4>5. m <= p - LongBsr(0)
        <5>1. m \in Nat /\ m <= n BY <4>3 DEF m
        <5> QED BY <2>1, <4>4, <5>1, SMT DEF LongBsr
      <4> QED BY <2>7, <4>1, <4>5 DEF m
    <3> QED BY <2>7, <3>2, <3>3
  <2>8. type \in {"short", "long"} => Bsr.bytes = LcgBytes
    <3> SUFFICES ASSUME type \in {"short", "long"} PROVE Bsr.bytes = LcgBytes OBVIOUS
    <3>1. LcgBytes = [g \in Lcgs |-> lcgBytes[g]] BY <2>1 DEF LcgBytes
    <3> QED BY <2>2, <2>7, <3>1, Zenon
  <2> QED BY <2>2, <2>5, <2>6, <2>8
<1> QED BY <1>1, BsrHolds, PTL
=============================================================================
