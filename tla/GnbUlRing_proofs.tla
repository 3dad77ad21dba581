-------------------------- MODULE GnbUlRing_proofs --------------------------
(***************************************************************************)
(* Proofs about the ring of uplink requests, for any length of a frame and *)
(* of the ring, any distances that fit in it and any PDUs: types, the      *)
(* labels that Msg3 asserts, and the refinement of UlCalendar.             *)
(***************************************************************************)
EXTENDS GnbUlRing, Lemmas_proofs

----------------------------------------------------------------------------
(* Slots and the entries of the ring.                                       *)

\* The entry d slots ahead
Place(d) == Index(now + d)

(* The frame number and the slot of it, put together again.                 *)
LEMMA FrameAndSlot ==
  ASSUME NEW a \in Nat
  PROVE  ((a \div SlotsPerFrame) % Frames) * SlotsPerFrame + (a % SlotsPerFrame) = a % Cycle
<1> DEFINE q == a \div SlotsPerFrame
           r == a % SlotsPerFrame
           p == q \div Frames
           f == q % Frames
<1>1. SlotsPerFrame \in Nat \ {0} /\ Frames \in Nat \ {0}
  BY GnbUlRingAssumption
<1>2. q \in Int /\ r \in 0 .. SlotsPerFrame - 1 /\ a = SlotsPerFrame * q + r
  BY <1>1, ModParts
<1> HIDE DEF q, r
<1>3. p \in Int /\ f \in 0 .. Frames - 1 /\ q = Frames * p + f
  BY <1>1, <1>2, ModParts
<1> HIDE DEF p, f
<1> DEFINE C == Frames * SlotsPerFrame
           s == f * SlotsPerFrame + r
<1>4. C \in Nat \ {0} /\ s \in 0 .. C - 1
  <2>1. f * SlotsPerFrame <= (Frames - 1) * SlotsPerFrame
    BY <1>1, <1>3, SMT
  <2>2. (Frames - 1) * SlotsPerFrame = C - SlotsPerFrame /\ C \in Nat \ {0}
    BY <1>1, SMT
  <2>3. f * SlotsPerFrame \in Nat
    BY <1>1, <1>3, SMT
  <2> HIDE DEF C
  <2>4. QED
    BY <1>1, <1>2, <2>1, <2>2, <2>3, SMT
<1>5. a = C * p + s
  BY <1>1, <1>2, <1>3, SMT
<1> HIDE DEF C, s
<1>6. a % C = s
  BY <1>3, <1>4, <1>5, ModUnique
<1>7. QED
  BY <1>6 DEF C, s, f, q, r, Cycle

(* Sizes.                                                                   *)
LEMMA Sizes ==
  /\ SlotsPerFrame \in Nat \ {0, 1}
  /\ RingSize \in Nat /\ RingSize > 1
  /\ Cycle \in Nat /\ Cycle > 0
<1>1. SlotsPerFrame \in Nat \ {0, 1} /\ Frames \in Nat \ {0}
      /\ RingSize \in Nat \ {0} /\ RingSize % SlotsPerFrame = 0
  BY GnbUlRingAssumption
<1>2. RingSize # 1
  <2>1. 1 = SlotsPerFrame * 0 + 1 /\ 1 \in 0 .. SlotsPerFrame - 1
    BY <1>1
  <2>2. 1 % SlotsPerFrame = 1
    BY <1>1, <2>1, ModUnique
  <2>3. QED
    BY <1>1, <2>2
<1>3. \A x, y \in Nat \ {0} : x * y \in Nat \ {0}
  OBVIOUS
<1>4. Cycle \in Nat \ {0}
  BY <1>1, <1>3 DEF Cycle
<1>5. QED
  BY <1>1, <1>2, <1>4

(* A cycle is a number of frames and of turns of the ring, a turn a number  *)
(* of frames.                                                               *)
LEMMA CycleMod ==
  ASSUME NEW a \in Int
  PROVE  /\ (a % Cycle) % SlotsPerFrame = a % SlotsPerFrame
         /\ (a % Cycle) % RingSize = a % RingSize
         /\ (a % RingSize) % SlotsPerFrame = a % SlotsPerFrame
<1>1. SlotsPerFrame \in Nat \ {0} /\ Frames \in Nat \ {0} /\ RingSize \in Nat \ {0}
      /\ Cycle \in Nat \ {0}
  BY Sizes, GnbUlRingAssumption
<1>2. \A n, c \in Nat \ {0} : c % n = 0 => \E m \in Nat \ {0} : c = n * m
  <2> SUFFICES ASSUME NEW n \in Nat \ {0}, NEW c \in Nat \ {0}, c % n = 0
               PROVE  \E m \in Nat \ {0} : c = n * m
    OBVIOUS
  <2> DEFINE m == c \div n
  <2>1. m \in Int /\ c = n * m + (c % n)
    BY ModParts
  <2> HIDE DEF m
  <2>2. c = n * m
    BY <2>1
  <2>3. m > 0
    BY <2>1, <2>2, SMT
  <2>4. QED
    BY <2>1, <2>2, <2>3
<1>3. \E m \in Nat \ {0} : Cycle = SlotsPerFrame * m
  <2>1. Frames * SlotsPerFrame = SlotsPerFrame * Frames
    BY <1>1
  <2>2. QED
    BY <1>1, <2>1 DEF Cycle
<1>4. \E m \in Nat \ {0} : Cycle = RingSize * m
  BY <1>1, <1>2, GnbUlRingAssumption
<1>5. \E m \in Nat \ {0} : RingSize = SlotsPerFrame * m
  BY <1>1, <1>2, GnbUlRingAssumption
<1>6. \A n, m, c \in Nat \ {0} : c = n * m => (a % c) % n = a % n
  BY ModMod
<1>7. QED
  BY <1>1, <1>3, <1>4, <1>5, <1>6, Zenon

(* The entries of the next RingSize slots are all of them, once each.       *)
LEMMA Places ==
  ASSUME now \in 0 .. Cycle - 1
  PROVE  /\ \A d \in Int : /\ Place(d) \in 0 .. RingSize - 1
                           /\ After(d) \in 0 .. Cycle - 1
                           /\ Index(After(d)) = Place(d)
                           /\ SlotOf(After(d)) = Place(d) % SlotsPerFrame
         /\ \A d, e \in 0 .. RingSize - 1 : Place(d) = Place(e) => d = e
         /\ \A i \in 0 .. RingSize - 1 : /\ (i - now) % RingSize \in 0 .. RingSize - 1
                                         /\ Place((i - now) % RingSize) = i
         /\ Place(0 - 1) = Place(RingSize - 1)
<1>1. now \in Int /\ RingSize \in Nat \ {0} /\ Cycle \in Nat \ {0}
  BY Sizes
<1>2. ASSUME NEW d \in Int
      PROVE  /\ Place(d) \in 0 .. RingSize - 1
             /\ After(d) \in 0 .. Cycle - 1
             /\ Index(After(d)) = Place(d)
             /\ SlotOf(After(d)) = Place(d) % SlotsPerFrame
  <2>1. now + d \in Int
    BY <1>1
  <2>2. Place(d) \in 0 .. RingSize - 1 /\ After(d) \in 0 .. Cycle - 1
    BY <1>1, <2>1, ModParts DEF Place, Index, After
  <2>3. QED
    BY <2>1, <2>2, CycleMod DEF Place, Index, After, SlotOf
<1>3. ASSUME NEW d \in 0 .. RingSize - 1, NEW e \in 0 .. RingSize - 1, Place(d) = Place(e)
      PROVE  d = e
  <2>1. now + d \in Int /\ now + e \in Int
    BY <1>1
  <2>2. (now + d) - (now + e) < RingSize /\ (now + e) - (now + d) < RingSize
    BY <1>1
  <2>3. now + d = now + e
    BY <1>1, <1>3, <2>1, <2>2, ModSame DEF Place, Index
  <2>4. QED
    BY <1>1, <2>3
<1>4. ASSUME NEW i \in 0 .. RingSize - 1
      PROVE  (i - now) % RingSize \in 0 .. RingSize - 1 /\ Place((i - now) % RingSize) = i
  <2> DEFINE d == (i - now) % RingSize
  <2>1. i - now \in Int
    BY <1>1
  <2>2. d \in 0 .. RingSize - 1
    BY <1>1, <2>1, ModParts
  <2>3. (d + now) % RingSize = ((i - now) + now) % RingSize
    BY <1>1, <2>1, ModSum
  <2> HIDE DEF d
  <2>4. d + now = now + d /\ (i - now) + now = i
    BY <1>1, <2>2
  <2>5. i = RingSize * 0 + i
    BY <1>1
  <2>6. i % RingSize = i
    BY <1>1, <2>5, ModUnique
  <2>7. QED
    BY <2>2, <2>3, <2>4, <2>6 DEF Place, Index, d
<1>5. Place(0 - 1) = Place(RingSize - 1)
  <2> DEFINE a == now + (0 - 1)
  <2>1. a \in Int /\ now + (RingSize - 1) = a + RingSize
    BY <1>1
  <2> HIDE DEF a
  <2>2. (a + RingSize) % RingSize = a % RingSize
    BY <1>1, <2>1, ModTurn
  <2>3. Place(0 - 1) = a % RingSize
    BY DEF Place, Index, a
  <2>4. Place(RingSize - 1) = (a + RingSize) % RingSize
    BY <2>1, Zenon DEF Place, Index
  <2>5. QED
    BY <2>2, <2>3, <2>4, Zenon
<1>6. QED
  BY <1>2, <1>3, <1>4, <1>5

----------------------------------------------------------------------------
(* What the steps of a slot do to a ring.                                   *)

Rings == [0 .. RingSize - 1 -> Request]

\* Every entry says it is for the slot it will be sent in.
Aligned(r) == \A d \in 0 .. RingSize - 1 : r[Place(d)].slot = After(d)

\* What is filed for d slots later
FiledAt(F, d) == {f[2] : f \in {g \in F : g[1] = d}}

\* From r to s, exactly F is filed, in the entries of the right slots.
Files(r, s, F) ==
  /\ Aligned(s)
  /\ \A d \in 0 .. RingSize - 1 : s[Place(d)].pdus = r[Place(d)].pdus \cup FiledAt(F, d)

(* Two steps file what either files.                                        *)
LEMMA FilesBoth ==
  ASSUME NEW r, NEW s, NEW t, NEW F, NEW G, Files(r, s, F), Files(s, t, G)
  PROVE  Files(r, t, F \cup G)
<1>1. \A d : FiledAt(F \cup G, d) = FiledAt(F, d) \cup FiledAt(G, d)
  BY DEF FiledAt
<1>2. QED
  BY <1>1 DEF Files

(* A step that changes nothing files nothing.                               *)
LEMMA FilesNothing == ASSUME NEW r, Aligned(r) PROVE Files(r, r, {})
  BY DEF Files, FiledAt

(* Some PDUs filed d slots ahead.                                           *)
LEMMA FileSome ==
  ASSUME now \in 0 .. Cycle - 1, NEW r \in Rings, Aligned(r),
         NEW d \in 0 .. RingSize - 1, NEW pdus
  PROVE  LET f == File(r, Place(d), pdus)
             g == [f EXCEPT ![Place(d)].slot = After(d)]
             F == {<<d, p>> : p \in pdus}
         IN  Files(r, f, F) /\ Files(r, g, F)
<1> DEFINE F == {<<d, p>> : p \in pdus}
           f == File(r, Place(d), pdus)
           g == [f EXCEPT ![Place(d)].slot = After(d)]
<1>1. FiledAt(F, d) = pdus /\ \A e \in 0 .. RingSize - 1 : e # d => FiledAt(F, e) = {}
  <2>1. \A p : <<d, p>>[1] = d /\ <<d, p>>[2] = p
    OBVIOUS
  <2>2. {h \in F : h[1] = d} = F /\ \A e : e # d => {h \in F : h[1] = e} = {}
    BY <2>1
  <2>3. {h[2] : h \in F} = pdus
    BY <2>1
  <2>4. QED
    BY <2>2, <2>3 DEF FiledAt
<1>2. DOMAIN r = 0 .. RingSize - 1 /\ \A i \in 0 .. RingSize - 1 : r[i] \in Request
  BY DEF Rings
<1>3. /\ Place(d) \in 0 .. RingSize - 1
      /\ \A e \in 0 .. RingSize - 1 : Place(e) \in 0 .. RingSize - 1 /\ (Place(e) = Place(d) => e = d)
  <2>1. \A e \in 0 .. RingSize - 1 : e \in Int
    OBVIOUS
  <2>2. QED
    BY <2>1, Places, Zenon
<1>4. /\ f[Place(d)].pdus = r[Place(d)].pdus \cup pdus /\ f[Place(d)].slot = After(d)
      /\ g[Place(d)].pdus = r[Place(d)].pdus \cup pdus /\ g[Place(d)].slot = After(d)
  BY <1>2, <1>3 DEF File, Request, Aligned
<1>5. \A e \in 0 .. RingSize - 1 : e # d => f[Place(e)] = r[Place(e)] /\ g[Place(e)] = r[Place(e)]
  BY <1>2, <1>3 DEF File
<1> HIDE DEF F, f, g
<1>6. Aligned(f) /\ Aligned(g)
  BY <1>4, <1>5 DEF Aligned
<1>7. \A e \in 0 .. RingSize - 1 : /\ f[Place(e)].pdus = r[Place(e)].pdus \cup FiledAt(F, e)
                                   /\ g[Place(e)].pdus = r[Place(e)].pdus \cup FiledAt(F, e)
  BY <1>1, <1>4, <1>5
<1>8. Files(r, f, F) /\ Files(r, g, F)
  BY <1>6, <1>7 DEF Files
<1>9. QED
  BY <1>8 DEF F, f, g

(* Grants of this slot, for distances that fit in the ring.                 *)
LEMMA FileGrants ==
  ASSUME now \in 0 .. Cycle - 1, NEW r \in Rings, Aligned(r),
         NEW G, \A g \in G : g[1] \in 0 .. RingSize - 1
  PROVE  Files(r, WithGrants(r, G), G)
<1> DEFINE w == WithGrants(r, G)
<1>1. \A i \in 0 .. RingSize - 1 : r[i] \in Request
  BY DEF Rings
<1>2. \A i \in 0 .. RingSize - 1 :
        w[i] = [r[i] EXCEPT !.pdus = r[i].pdus \cup {g[2] : g \in {h \in G : Index(After(h[1])) = i}}]
  BY DEF WithGrants
<1>3. ASSUME NEW d \in 0 .. RingSize - 1
      PROVE  /\ Place(d) \in 0 .. RingSize - 1
             /\ {h \in G : Index(After(h[1])) = Place(d)} = {h \in G : h[1] = d}
  <2>1. \A e \in 0 .. RingSize - 1 : e \in Int
    OBVIOUS
  <2>2. Place(d) \in 0 .. RingSize - 1
    BY <2>1, Places, Zenon
  <2>3. \A h \in G : Index(After(h[1])) = Place(d) <=> h[1] = d
    BY <2>1, Places, Zenon
  <2>4. QED
    BY <2>2, <2>3
<1> HIDE DEF w
<1>4. ASSUME NEW d \in 0 .. RingSize - 1
      PROVE  w[Place(d)].slot = r[Place(d)].slot /\ w[Place(d)].pdus = r[Place(d)].pdus \cup FiledAt(G, d)
  <2>1. w[Place(d)] = [r[Place(d)] EXCEPT !.pdus = r[Place(d)].pdus \cup FiledAt(G, d)]
    BY <1>2, <1>3 DEF FiledAt
  <2>2. QED
    BY <1>1, <1>3, <2>1 DEF Request
<1>5. QED
  BY <1>4 DEF Files, Aligned, w

----------------------------------------------------------------------------
(* Types.                                                                   *)

(* What each step files are PDUs.                                           *)
LEMMA PdusFiled ==
  /\ <<"prach", PrachAhead>> \in Pdu /\ <<"srs", SrsAhead>> \in Pdu /\ <<"pucch", 0>> \in Pdu
  /\ \A k2s \in SUBSET Msg3K2 : Granted("msg3", k2s) \subseteq (0 .. RingSize - 1) \X Pdu
  /\ \A k2s \in SUBSET PuschK2 : Granted("pusch", k2s) \subseteq (0 .. RingSize - 1) \X Pdu
  /\ \A r : \A n \in 0 .. GfPerSlot : GfPdus(r, n) \subseteq Pdu
<1>1. \A k \in Msg3K2 \cup PuschK2 : k + Koffset \in 0 .. RingSize - 1
  BY GnbUlRingAssumption
<1>2. \A k2s \in SUBSET Msg3K2 : Granted("msg3", k2s) \subseteq (0 .. RingSize - 1) \X Pdu
  BY <1>1 DEF Granted, Pdu
<1>3. \A k2s \in SUBSET PuschK2 : Granted("pusch", k2s) \subseteq (0 .. RingSize - 1) \X Pdu
  BY <1>1 DEF Granted, Pdu
<1>4. \A r : \A n \in 0 .. GfPerSlot : GfPdus(r, n) \subseteq Pdu
  <2>1. \A n \in 0 .. GfPerSlot : 1 .. n \subseteq 1 .. GfPerSlot
    BY GnbUlRingAssumption
  <2>2. QED
    BY <2>1 DEF GfPdus, Pdu
<1>5. QED
  BY <1>2, <1>3, <1>4 DEF Pdu

(* A ring with more PDUs, or with another slot in an entry, is a ring.      *)
LEMMA RingsKept ==
  ASSUME NEW r \in Rings, NEW i \in 0 .. RingSize - 1, NEW at \in 0 .. Cycle - 1
  PROVE  /\ \A pdus \in SUBSET Pdu : File(r, i, pdus) \in Rings
         /\ [r EXCEPT ![i].slot = at] \in Rings
         /\ [r EXCEPT ![i] = [slot |-> at, pdus |-> {}]] \in Rings
  BY DEF Rings, Request, File

(* Any number of grants leave a ring a ring.                                 *)
LEMMA GrantsKeepRings ==
  ASSUME NEW r \in Rings, NEW G \in SUBSET ((0 .. RingSize - 1) \X Pdu)
  PROVE  WithGrants(r, G) \in Rings
<1>1. \A i : {g[2] : g \in {h \in G : Index(After(h[1])) = i}} \subseteq Pdu
  OBVIOUS
<1>2. QED
  BY <1>1 DEF WithGrants, Rings, Request

(* A number of a frame and a slot make a slot of the cycle.                 *)
LEMMA FrameAndSlotType ==
  ASSUME NEW f \in 0 .. Frames - 1, NEW s \in 0 .. SlotsPerFrame - 1
  PROVE  f * SlotsPerFrame + s \in 0 .. Cycle - 1
<1>1. SlotsPerFrame \in Nat \ {0} /\ Frames \in Nat \ {0}
  BY GnbUlRingAssumption
<1>2. f * SlotsPerFrame <= (Frames - 1) * SlotsPerFrame
  BY <1>1, SMT
<1>3. (Frames - 1) * SlotsPerFrame = Frames * SlotsPerFrame - SlotsPerFrame
  BY <1>1, SMT
<1>4. f * SlotsPerFrame \in Nat /\ Frames * SlotsPerFrame \in Nat
  BY <1>1, SMT
<1>5. QED
  BY <1>1, <1>2, <1>3, <1>4, SMT DEF Cycle

(* The first two steps of a slot.                                           *)
LEMMA ClearedType ==
  ASSUME TypeOK
  PROVE  Initialised(ring) \in Rings /\ \A r \in Rings : Cleared(r) \in Rings
<1>1. ring \in Rings /\ now \in 0 .. Cycle - 1
  BY DEF TypeOK, Rings
<1>2. Initialised(ring) \in Rings
  <2>1. \A d \in Int : After(d) \in 0 .. Cycle - 1
    BY <1>1, Places
  <2>2. \A i \in 0 .. RingSize - 1 : (i - now) % RingSize \in Int
    <3>1. \A i \in 0 .. RingSize - 1 : (i - now) % RingSize \in 0 .. RingSize - 1
      BY <1>1, Places
    <3>2. QED
      BY <3>1
  <2>3. \A i \in 0 .. RingSize - 1 :
          [ring[i] EXCEPT !.slot = After((i - now) % RingSize)] \in Request
    BY <1>1, <2>1, <2>2 DEF Rings, Request
  <2>4. QED
    BY <1>1, <2>3 DEF Initialised, Rings
<1>3. ASSUME NEW r \in Rings PROVE Cleared(r) \in Rings
  <2> DEFINE last == now + RingSize - 1
             frame == (last \div SlotsPerFrame) % Frames
             slot == SlotOf(r[Index(last)].slot)
  <2>1. last \in Int /\ SlotsPerFrame \in Nat \ {0} /\ Frames \in Nat \ {0} /\ RingSize \in Nat \ {0}
    BY <1>1, Sizes, GnbUlRingAssumption
  <2> HIDE DEF last
  <2>2. Index(last) \in 0 .. RingSize - 1
    BY <2>1, ModParts DEF Index
  <2>3. r[Index(last)].slot \in Int
    BY <2>2, Sizes DEF Rings, Request
  <2>4. slot \in 0 .. SlotsPerFrame - 1
    BY <2>1, <2>3, ModParts DEF SlotOf
  <2>5. frame \in 0 .. Frames - 1
    <3>1. last \div SlotsPerFrame \in Int
      BY <2>1, ModParts
    <3>2. QED
      BY <2>1, <3>1, ModParts
  <2> HIDE DEF frame, slot
  <2>6. frame * SlotsPerFrame + slot \in 0 .. Cycle - 1
    BY <2>4, <2>5, FrameAndSlotType
  <2>7. QED
    BY <2>2, <2>6, RingsKept DEF Cleared, last, frame, slot
<1>4. QED
  BY <1>2, <1>3

(* One slot keeps the types, whatever it files and wherever grant-free does. *)
LEMMA SlotType ==
  ASSUME TypeOK, NEW msg3 \in SUBSET Msg3K2, NEW n \in 0 .. GfPerSlot,
         NEW pusch \in SUBSET PuschK2, NEW pucch \in BOOLEAN, Slot(msg3, n, pusch, pucch)
  PROVE  TypeOK'
<1> DEFINE free == Cleared(Initialised(ring))
           prach == WithPrach(free)
           srs == WithSrs(prach)
           ra == WithGrants(srs, Granted("msg3", msg3))
           gfPdus == GfPdus(ra, n)
           gf == WithGf(ra, gfPdus)
           ulsch == WithGrants(gf, Granted("pusch", pusch))
           pucchs == IF pucch THEN {<<0, <<"pucch", 0>>>>} ELSE {}
<1>1. now \in 0 .. Cycle - 1 /\ now \in Int /\ RingSize \in Nat /\ RingSize > 1
  BY Sizes DEF TypeOK
<1>2. free \in Rings
  BY ClearedType
<1>3. \A d \in 0 .. RingSize - 1 : After(d) \in 0 .. Cycle - 1 /\ Index(After(d)) \in 0 .. RingSize - 1
  <2>1. \A d \in 0 .. RingSize - 1 : d \in Int
    OBVIOUS
  <2>2. \A d \in Int : /\ Place(d) \in 0 .. RingSize - 1
                      /\ After(d) \in 0 .. Cycle - 1
                      /\ Index(After(d)) = Place(d)
    BY <1>1, Places
  <2>3. QED
    BY <2>1, <2>2, Zenon
<1>4. PrachAhead \in 0 .. RingSize - 1 /\ SrsAhead \in 0 .. RingSize - 1
  BY GnbUlRingAssumption
<1>5. prach \in Rings
  <2> DEFINE f == File(free, Index(After(PrachAhead)), {<<"prach", PrachAhead>>})
  <2> HIDE DEF free
  <2>1. f \in Rings
    BY <1>2, <1>3, <1>4, PdusFiled, RingsKept
  <2> HIDE DEF f
  <2>2. [f EXCEPT ![Index(After(PrachAhead))].slot = After(PrachAhead)] \in Rings
    BY <1>3, <1>4, <2>1, RingsKept
  <2>3. QED
    BY <1>2, <2>2 DEF WithPrach, f
<1>6. srs \in Rings
  <2> HIDE DEF prach
  <2>1. File(prach, Index(After(SrsAhead)), {<<"srs", SrsAhead>>}) \in Rings
    BY <1>3, <1>4, <1>5, PdusFiled, RingsKept
  <2>2. QED
    BY <1>5, <2>1 DEF WithSrs
<1>7. ra \in Rings
  <2> HIDE DEF srs
  <2>1. QED
    BY <1>6, PdusFiled, GrantsKeepRings
<1>8. gfPdus \subseteq Pdu
  BY PdusFiled
<1>9. gf \in Rings
  <2> HIDE DEF ra, gfPdus
  <2> DEFINE f == File(ra, GfIndex, gfPdus)
  <2>1. GfIndex \in 0 .. RingSize - 1
    <3> DEFINE x == SlotOf(now)
    <3>1. x \in Int /\ GfModulus \in Nat \ {0} /\ GfModulus <= RingSize
      BY <1>1, Sizes, ModParts, GnbUlRingAssumption DEF SlotOf
    <3> HIDE DEF x
    <3>2. x % GfModulus \in 0 .. GfModulus - 1
      BY <3>1, ModParts
    <3>3. x % GfModulus \in 0 .. RingSize - 1
      BY <1>1, <3>1, <3>2, SMT
    <3>4. QED
      BY <3>3 DEF GfIndex, x
  <2>2. f \in Rings
    BY <1>7, <1>8, <1>1, <2>1, RingsKept
  <2> HIDE DEF f
  <2>3. [f EXCEPT ![GfIndex].slot = now] \in Rings
    BY <1>1, <2>1, <2>2, RingsKept
  <2>4. QED
    BY <1>7, <2>3 DEF WithGf, f
<1>10. ulsch \in Rings
  <2> HIDE DEF gf
  <2>1. QED
    BY <1>9, PdusFiled, GrantsKeepRings
<1>11. pucchs \subseteq (0 .. RingSize - 1) \X Pdu
  BY <1>1, PdusFiled
<1>12. WithGrants(ulsch, pucchs) \in Rings
  <2> HIDE DEF ulsch, pucchs
  <2>1. QED
    BY <1>10, <1>11, GrantsKeepRings
<1>13. CASE ~Msg3Asserts(srs, msg3)
  BY <1>13 DEF Slot, TypeOK
<1>14. CASE Msg3Asserts(srs, msg3)
  <2> DEFINE filedP == IF SlotOf(After(PrachAhead)) \in PrachSlots
                         THEN {<<PrachAhead, <<"prach", PrachAhead>>>>} ELSE {}
             filedS == IF After(SrsAhead) % SrsPeriod = 0
                         THEN {<<SrsAhead, <<"srs", SrsAhead>>>>} ELSE {}
             filedG == {<<0, g>> : g \in gfPdus}
  <2>1. /\ ring' = WithGrants(ulsch, pucchs) /\ sent' = ring'[Index(now)] /\ now' = After(1)
        /\ filed' = UNION {filedP, filedS, Granted("msg3", msg3), Granted("pusch", pusch),
                           pucchs, filedG}
        /\ UNCHANGED aborted
    BY <1>14 DEF Slot
  <2>2. /\ filedP \subseteq (0 .. RingSize - 1) \X Pdu
        /\ filedS \subseteq (0 .. RingSize - 1) \X Pdu
        /\ filedG \subseteq (0 .. RingSize - 1) \X Pdu
    <3> HIDE DEF gfPdus
    <3>1. QED
      BY <1>1, <1>4, <1>8, PdusFiled
  <2> HIDE DEF filedP, filedS, filedG, ulsch, pucchs
  <2>3. filed' \subseteq (0 .. RingSize - 1) \X Pdu
    BY <1>11, <2>1, <2>2, PdusFiled
  <2>4. Index(now) \in 0 .. RingSize - 1
    BY <1>1, Sizes, ModParts DEF Index
  <2>5. now' \in 0 .. Cycle - 1
    BY <1>1, <1>3, <2>1
  <2>6. ring' \in Rings /\ sent' \in Request
    BY <1>12, <2>1, <2>4 DEF Rings
  <2>7. QED
    BY <2>1, <2>3, <2>5, <2>6 DEF TypeOK, Rings
<1>15. QED
  BY <1>13, <1>14

(* The ring is created empty.                                               *)
LEMMA InitType == Init => TypeOK
<1> SUFFICES ASSUME Init PROVE TypeOK
  OBVIOUS
<1>1. now \in 0 .. Cycle - 1 /\ Cycle \in Nat /\ Cycle > 0
  BY Sizes DEF Init
<1>2. (now + Cycle - 1) % Cycle \in 0 .. Cycle - 1
  <2>1. now + Cycle - 1 \in Int
    BY <1>1
  <2>2. QED
    BY <1>1, <2>1, ModParts
<1>3. sent \in Request
  BY <1>2 DEF Init, Request
<1>4. 0 \in 0 .. Cycle - 1
  BY <1>1
<1>5. [slot |-> 0, pdus |-> {}] \in Request
  BY <1>4 DEF Request
<1>6. ring \in [0 .. RingSize - 1 -> Request]
  BY <1>5 DEF Init
<1>7. QED
  BY <1>1, <1>3, <1>6 DEF Init, TypeOK

(* Frame numbers of all entries stay below the last one and PDUs are filed  *)
(* less than a turn of the ring ahead, wherever grant-free files.           *)
THEOREM TypeCorrect == Spec => []TypeOK
<1>1. TypeOK /\ [Next]_vars => TypeOK'
  <2>1. TypeOK /\ UNCHANGED vars => TypeOK'
    BY DEF vars, TypeOK
  <2>2. QED
    BY <2>1, SlotType DEF Next
<1>2. QED
  BY <1>1, InitType, PTL DEF Spec

----------------------------------------------------------------------------
(* The labels of the entries.                                               *)

\* Before the first slot no entry says what it is for.
Fresh == \A i \in 0 .. RingSize - 1 : ring[i] = [slot |-> 0, pdus |-> {}]

\* Since then each is for its slot, the one of the previous slot still for that.
InStep == \A d \in 0 .. RingSize - 1 : ring[Place(d - 1)].slot = After(d - 1)

RingInv == TypeOK /\ (Fresh \/ InStep) /\ ~aborted

\* Grant-free files in the entry of this slot, the constant that indexes the ring
\* notwithstanding.
GfEntryIsCurrent ==
  GfPerSlot = 0 \/ \A at \in 0 .. Cycle - 1 : SlotOf(at) % GfModulus = Index(at)

(* The slots of a frame repeat with the entries.                            *)
LEMMA PlaceSlot ==
  ASSUME now \in 0 .. Cycle - 1, NEW d \in Int
  PROVE  Place(d) % SlotsPerFrame = (now + d) % SlotsPerFrame
<1>1. now + d \in Int
  BY Sizes
<1>2. QED
  BY <1>1, CycleMod DEF Place, Index

(* UL_tti_req_ahead_initialization() labels all entries or finds them       *)
(* labelled, the one that is cleared next included.                         *)
LEMMA InitialisedFacts ==
  ASSUME RingInv, NEW r, r = Initialised(ring)
  PROVE  /\ \A i \in 0 .. RingSize - 1 : r[i].pdus = ring[i].pdus
         /\ \A d \in 0 .. RingSize - 2 : r[Place(d)].slot = After(d)
         /\ SlotOf(r[Place(RingSize - 1)].slot) = Place(RingSize - 1) % SlotsPerFrame
<1>1. now \in 0 .. Cycle - 1 /\ ring \in Rings
  BY DEF RingInv, TypeOK, Rings
<1>2. /\ SlotsPerFrame \in Nat \ {0, 1} /\ RingSize \in Nat /\ RingSize > 1
      /\ 0 % SlotsPerFrame = 0 /\ 1 % SlotsPerFrame = 1
  <2>1. SlotsPerFrame \in Nat \ {0, 1} /\ RingSize \in Nat /\ RingSize > 1
    BY Sizes
  <2>2. 0 = SlotsPerFrame * 0 + 0 /\ 1 = SlotsPerFrame * 0 + 1
    BY <2>1
  <2>3. QED
    BY <2>1, <2>2, ModUnique
<1>3. \A d \in Int : Place(d) \in 0 .. RingSize - 1
                     /\ SlotOf(After(d)) = Place(d) % SlotsPerFrame
  BY <1>1, Places
<1>4. CASE Fresh
  <2>1. SlotOf(ring[1].slot) # 1
    <3>1. 1 \in 0 .. RingSize - 1
      BY <1>2
    <3>2. ring[1].slot = 0
      BY <1>4, <3>1 DEF Fresh
    <3>3. QED
      BY <1>2, <3>2 DEF SlotOf
  <2>2. r = [i \in 0 .. RingSize - 1 |-> [ring[i] EXCEPT !.slot = After((i - now) % RingSize)]]
    BY <2>1 DEF Initialised
  <2>3. \A i \in 0 .. RingSize - 1 : /\ r[i].pdus = ring[i].pdus
                                     /\ r[i].slot = After((i - now) % RingSize)
    BY <1>1, <2>2 DEF Rings, Request
  <2>4. ASSUME NEW d \in 0 .. RingSize - 1 PROVE r[Place(d)].slot = After(d)
    <3>1. d \in Int
      OBVIOUS
    <3>2. Place(d) \in 0 .. RingSize - 1
      BY <1>3, <3>1
    <3>3. /\ (Place(d) - now) % RingSize \in 0 .. RingSize - 1
          /\ Place((Place(d) - now) % RingSize) = Place(d)
      BY <1>1, <3>2, Places
    <3> DEFINE e == (Place(d) - now) % RingSize
    <3> HIDE DEF e
    <3>4. e = d
      BY <1>1, <3>3, Places DEF e
    <3>5. QED
      BY <2>3, <3>2, <3>4 DEF e
  <2>5. RingSize - 1 \in 0 .. RingSize - 1 /\ RingSize - 1 \in Int
    BY <1>2
  <2>6. \A d \in 0 .. RingSize - 2 : d \in 0 .. RingSize - 1
    BY <1>2
  <2>7. SlotOf(r[Place(RingSize - 1)].slot) = Place(RingSize - 1) % SlotsPerFrame
    BY <1>3, <2>4, <2>5, Zenon
  <2>8. QED
    BY <2>3, <2>4, <2>6, <2>7, Zenon
<1>5. CASE InStep
  <2>1. SlotOf(ring[1].slot) = 1
    <3>1. PICK d \in 0 .. RingSize - 1 : Place(d) = 1
      <4>1. 1 \in 0 .. RingSize - 1
        BY <1>2
      <4>2. QED
        BY <1>1, <4>1, Places
    <3>2. CASE d = RingSize - 1
      <4>1. Place(0 - 1) = 1
        BY <1>1, <3>1, <3>2, Places
      <4>2. ring[Place(0 - 1)].slot = After(0 - 1)
        BY <1>2, <1>5 DEF InStep
      <4>3. SlotOf(After(0 - 1)) = Place(0 - 1) % SlotsPerFrame
        BY <1>3
      <4>4. QED
        BY <1>2, <4>1, <4>2, <4>3
    <3>3. CASE d # RingSize - 1
      <4>1. d + 1 \in 0 .. RingSize - 1 /\ (d + 1) - 1 = d /\ d \in Int
        BY <1>2, <3>3
      <4>2. ring[Place(d)].slot = After(d)
        BY <1>5, <4>1 DEF InStep
      <4>3. QED
        BY <1>2, <1>3, <3>1, <4>1, <4>2
    <3>4. QED
      BY <3>2, <3>3
  <2>2. r = ring
    BY <2>1 DEF Initialised
  <2>3. ASSUME NEW d \in 0 .. RingSize - 2 PROVE r[Place(d)].slot = After(d)
    <3>1. d + 1 \in 0 .. RingSize - 1 /\ (d + 1) - 1 = d
      BY <1>2
    <3>2. QED
      BY <1>5, <2>2, <3>1 DEF InStep
  <2>4. r[Place(RingSize - 1)].slot = After(0 - 1)
    <3>1. ring[Place(0 - 1)].slot = After(0 - 1)
      BY <1>2, <1>5 DEF InStep
    <3>2. QED
      BY <1>1, <2>2, <3>1, Places
  <2>5. SlotOf(After(0 - 1)) = Place(RingSize - 1) % SlotsPerFrame
    BY <1>1, <1>3, Places
  <2>6. QED
    BY <2>2, <2>3, <2>4, <2>5
<1>6. QED
  BY <1>4, <1>5 DEF RingInv

(* clear_nr_nfapi_information() empties the entry of the previous slot and  *)
(* makes it that of the slot a turn later, by its frame number alone.       *)
LEMMA ClearedFacts ==
  ASSUME now \in 0 .. Cycle - 1, NEW r \in Rings,
         \A d \in 0 .. RingSize - 2 : r[Place(d)].slot = After(d),
         SlotOf(r[Place(RingSize - 1)].slot) = Place(RingSize - 1) % SlotsPerFrame
  PROVE  /\ Aligned(Cleared(r))
         /\ \A d \in 0 .. RingSize - 1 :
              Cleared(r)[Place(d)].pdus = IF d = RingSize - 1 THEN {} ELSE r[Place(d)].pdus
<1> DEFINE last == now + RingSize - 1
           c == Cleared(r)
<1>1. now \in Nat /\ RingSize \in Nat /\ RingSize > 1
  BY Sizes
<1>2. last \in Nat /\ last = now + (RingSize - 1) /\ RingSize - 1 \in 0 .. RingSize - 1
  BY <1>1
<1>3. Index(last) = Place(RingSize - 1)
  BY <1>2 DEF Place
<1>4. (Place(RingSize - 1)) % SlotsPerFrame = last % SlotsPerFrame
  <2>1. RingSize - 1 \in Int
    BY <1>1
  <2>2. (Place(RingSize - 1)) % SlotsPerFrame = (now + (RingSize - 1)) % SlotsPerFrame
    BY <2>1, PlaceSlot
  <2>3. QED
    BY <1>2, <2>2
<1>5. c = [r EXCEPT ![Index(last)] =
             [slot |-> ((last \div SlotsPerFrame) % Frames) * SlotsPerFrame
                         + SlotOf(r[Index(last)].slot), pdus |-> {}]]
  BY DEF Cleared
<1> HIDE DEF last, c
<1>6. c = [r EXCEPT ![Place(RingSize - 1)] = [slot |-> last % Cycle, pdus |-> {}]]
  <2>1. ((last \div SlotsPerFrame) % Frames) * SlotsPerFrame + (last % SlotsPerFrame) = last % Cycle
    BY <1>2, FrameAndSlot
  <2>2. SlotOf(r[Index(last)].slot) = last % SlotsPerFrame
    BY <1>3, <1>4
  <2>3. ((last \div SlotsPerFrame) % Frames) * SlotsPerFrame + SlotOf(r[Index(last)].slot)
          = last % Cycle
    BY <2>1, <2>2, Zenon
  <2>4. QED
    BY <1>3, <1>5, <2>3, Zenon
<1>7. last % Cycle = After(RingSize - 1)
  BY <1>2 DEF After
<1>8. \A d \in 0 .. RingSize - 1 : Place(d) \in 0 .. RingSize - 1
                                  /\ (Place(d) = Place(RingSize - 1) => d = RingSize - 1)
  <2>1. \A d \in 0 .. RingSize - 1 : d \in Int
    OBVIOUS
  <2>2. QED
    BY <1>2, <2>1, Places, Zenon
<1>9. /\ c[Place(RingSize - 1)].slot = After(RingSize - 1)
      /\ c[Place(RingSize - 1)].pdus = {}
      /\ \A d \in 0 .. RingSize - 1 : d # RingSize - 1 => c[Place(d)] = r[Place(d)]
  BY <1>2, <1>6, <1>7, <1>8 DEF Rings
<1>10. \A d \in 0 .. RingSize - 1 : d # RingSize - 1 => d \in 0 .. RingSize - 2
  BY <1>1
<1>11. QED
  BY <1>9, <1>10 DEF Aligned, c

(* A slot files PDUs in the entries of their slots, empties the one a turn  *)
(* ahead, and the asserts of Msg3 find the entry they look for.             *)
LEMMA SlotFiles ==
  ASSUME GfEntryIsCurrent, RingInv, NEW msg3 \in SUBSET Msg3K2, NEW n \in 0 .. GfPerSlot,
         NEW pusch \in SUBSET PuschK2, NEW pucch \in BOOLEAN, Slot(msg3, n, pusch, pucch)
  PROVE  /\ Aligned(ring')
         /\ \A d \in 0 .. RingSize - 1 :
              ring'[Place(d)].pdus =
                (IF d = RingSize - 1 THEN {} ELSE ring[Place(d)].pdus) \cup FiledAt(filed', d)
         /\ sent' = ring'[Index(now)] /\ now' = After(1) /\ ~aborted'
<1> DEFINE free == Cleared(Initialised(ring))
           prach == WithPrach(free)
           srs == WithSrs(prach)
           msg3s == Granted("msg3", msg3)
           ra == WithGrants(srs, msg3s)
           gfPdus == GfPdus(ra, n)
           gf == WithGf(ra, gfPdus)
           puschs == Granted("pusch", pusch)
           ulsch == WithGrants(gf, puschs)
           pucchs == IF pucch THEN {<<0, <<"pucch", 0>>>>} ELSE {}
           prachs == IF SlotOf(After(PrachAhead)) \in PrachSlots
                       THEN {<<PrachAhead, <<"prach", PrachAhead>>>>} ELSE {}
           srss == IF After(SrsAhead) % SrsPeriod = 0
                     THEN {<<SrsAhead, <<"srs", SrsAhead>>>>} ELSE {}
           gfs == {<<0, g>> : g \in gfPdus}
<1>1. TypeOK /\ now \in 0 .. Cycle - 1 /\ now \in Int
  BY DEF RingInv, TypeOK
<1>2. RingSize \in Nat /\ RingSize > 1 /\ 0 \in 0 .. RingSize - 1
  BY Sizes
<1>3. PrachAhead \in 0 .. RingSize - 1 /\ SrsAhead \in 0 .. RingSize - 1
  BY GnbUlRingAssumption
<1>4. \A d \in 0 .. RingSize - 1 : /\ Place(d) \in 0 .. RingSize - 1
                                   /\ Index(After(d)) = Place(d)
                                   /\ After(d) \in 0 .. Cycle - 1
  <2>1. \A d \in 0 .. RingSize - 1 : d \in Int
    OBVIOUS
  <2>2. \A d \in Int : /\ Place(d) \in 0 .. RingSize - 1
                       /\ After(d) \in 0 .. Cycle - 1
                       /\ Index(After(d)) = Place(d)
    BY <1>1, Places
  <2>3. QED
    BY <2>1, <2>2, Zenon
<1>5. Place(0) = Index(now) /\ After(0) = now
  <2>1. now + 0 = now /\ now = Cycle * 0 + now /\ Cycle \in Nat \ {0}
    BY <1>1, Sizes
  <2>2. now % Cycle = now
    BY <1>1, <2>1, ModUnique
  <2>3. QED
    BY <2>1, <2>2 DEF Place, After
<1>6. /\ free \in Rings /\ Aligned(free)
      /\ \A d \in 0 .. RingSize - 1 :
           free[Place(d)].pdus = IF d = RingSize - 1 THEN {} ELSE ring[Place(d)].pdus
  <2> DEFINE r == Initialised(ring)
  <2>1. r \in Rings /\ free \in Rings
    BY <1>1, ClearedType
  <2>2. /\ \A i \in 0 .. RingSize - 1 : r[i].pdus = ring[i].pdus
        /\ \A d \in 0 .. RingSize - 2 : r[Place(d)].slot = After(d)
        /\ SlotOf(r[Place(RingSize - 1)].slot) = Place(RingSize - 1) % SlotsPerFrame
    BY InitialisedFacts
  <2> HIDE DEF r
  <2>3. /\ Aligned(Cleared(r))
        /\ \A d \in 0 .. RingSize - 1 :
             Cleared(r)[Place(d)].pdus = IF d = RingSize - 1 THEN {} ELSE r[Place(d)].pdus
    BY <1>1, <2>1, <2>2, ClearedFacts
  <2>4. QED
    BY <1>4, <2>1, <2>2, <2>3 DEF r
<1> HIDE DEF free
<1>7. prach \in Rings /\ Files(free, prach, prachs)
  <2> DEFINE f == File(free, Place(PrachAhead), {<<"prach", PrachAhead>>})
             g == [f EXCEPT ![Place(PrachAhead)].slot = After(PrachAhead)]
  <2>1. f \in Rings /\ g \in Rings
    <3>1. f \in Rings
      BY <1>3, <1>4, <1>6, PdusFiled, RingsKept
    <3> HIDE DEF f
    <3>2. QED
      BY <1>3, <1>4, <3>1, RingsKept
  <2>2. Files(free, g, {<<PrachAhead, p>> : p \in {<<"prach", PrachAhead>>}})
    BY <1>1, <1>3, <1>6, FileSome
  <2>3. {<<PrachAhead, p>> : p \in {<<"prach", PrachAhead>>}} = {<<PrachAhead, <<"prach", PrachAhead>>>>}
    OBVIOUS
  <2>4. CASE SlotOf(After(PrachAhead)) \in PrachSlots
    <3>1. prach = g
      BY <1>3, <1>4, <2>4 DEF WithPrach
    <3> HIDE DEF g, prach
    <3>2. QED
      BY <2>1, <2>2, <2>3, <2>4, <3>1
  <2>5. CASE SlotOf(After(PrachAhead)) \notin PrachSlots
    BY <1>6, <2>5, FilesNothing DEF WithPrach
  <2>6. QED
    BY <2>4, <2>5
<1> HIDE DEF prach, prachs
<1>7a. Aligned(prach)
  BY <1>7 DEF Files
<1>8. srs \in Rings /\ Files(prach, srs, srss)
  <2> DEFINE f == File(prach, Place(SrsAhead), {<<"srs", SrsAhead>>})
  <2>1. f \in Rings
    BY <1>3, <1>4, <1>7, PdusFiled, RingsKept
  <2>2. Files(prach, f, {<<SrsAhead, p>> : p \in {<<"srs", SrsAhead>>}})
    BY <1>1, <1>3, <1>7, <1>7a, FileSome
  <2>3. {<<SrsAhead, p>> : p \in {<<"srs", SrsAhead>>}} = {<<SrsAhead, <<"srs", SrsAhead>>>>}
    OBVIOUS
  <2>4. CASE After(SrsAhead) % SrsPeriod = 0
    <3>1. srs = f
      BY <1>3, <1>4, <2>4 DEF WithSrs
    <3> HIDE DEF f, srs
    <3>2. QED
      BY <2>1, <2>2, <2>3, <2>4, <3>1
  <2>5. CASE After(SrsAhead) % SrsPeriod # 0
    BY <1>7, <1>7a, <2>5, FilesNothing DEF WithSrs
  <2>6. QED
    BY <2>4, <2>5
<1> HIDE DEF srs, srss
<1>8a. Aligned(srs)
  BY <1>8 DEF Files
<1>9. Msg3Asserts(srs, msg3)
  <2>1. \A k \in msg3 : k + Koffset \in 0 .. RingSize - 1
    BY GnbUlRingAssumption
  <2>2. QED
    BY <1>4, <1>8a, <2>1 DEF Msg3Asserts, Aligned
<1>10. ra \in Rings /\ Files(srs, ra, msg3s)
  <2>1. msg3s \subseteq (0 .. RingSize - 1) \X Pdu
    BY PdusFiled
  <2> HIDE DEF msg3s
  <2>2. \A g \in msg3s : g[1] \in 0 .. RingSize - 1
    BY <2>1
  <2>3. QED
    BY <1>1, <1>8, <1>8a, <2>1, <2>2, FileGrants, GrantsKeepRings
<1> HIDE DEF ra, msg3s
<1>10a. Aligned(ra)
  BY <1>10 DEF Files
<1>11. gf \in Rings /\ Files(ra, gf, gfs)
  <2>1. CASE gfPdus = {}
    <3>1. gf = ra /\ gfs = {}
      BY <2>1 DEF WithGf
    <3> HIDE DEF gf, gfs
    <3>2. QED
      BY <1>10, <1>10a, <3>1, FilesNothing
  <2>2. CASE gfPdus # {}
    <3> DEFINE f == File(ra, Place(0), gfPdus)
               g == [f EXCEPT ![Place(0)].slot = After(0)]
    <3>1. GfIndex = Place(0)
      <4>1. GfPerSlot # 0
        BY <2>2, GnbUlRingAssumption DEF GfPdus
      <4>2. QED
        BY <1>1, <1>5, <4>1 DEF GfEntryIsCurrent, GfIndex
    <3>2. gfPdus \subseteq Pdu
      BY PdusFiled
    <3>3. gf = g
      BY <1>5, <2>2, <3>1 DEF WithGf
    <3> HIDE DEF gfPdus, gf
    <3>4. f \in Rings
      BY <1>2, <1>4, <1>10, <3>2, RingsKept
    <3>5. Files(ra, g, {<<0, p>> : p \in gfPdus})
      BY <1>1, <1>2, <1>10, <1>10a, FileSome
    <3> HIDE DEF f
    <3>6. g \in Rings
      BY <1>2, <1>4, <3>4, RingsKept
    <3>7. QED
      BY <3>3, <3>5, <3>6
  <2>3. QED
    BY <2>1, <2>2
<1> HIDE DEF gf, gfs, gfPdus
<1>11a. Aligned(gf)
  BY <1>11 DEF Files
<1>12. ulsch \in Rings /\ Files(gf, ulsch, puschs)
  <2>1. puschs \subseteq (0 .. RingSize - 1) \X Pdu
    BY PdusFiled
  <2> HIDE DEF puschs
  <2>2. \A g \in puschs : g[1] \in 0 .. RingSize - 1
    BY <2>1
  <2>3. QED
    BY <1>1, <1>11, <1>11a, <2>1, <2>2, FileGrants, GrantsKeepRings
<1> HIDE DEF ulsch, puschs
<1>12a. Aligned(ulsch)
  BY <1>12 DEF Files
<1>13. Files(ulsch, WithGrants(ulsch, pucchs), pucchs)
  <2>1. \A g \in pucchs : g[1] \in 0 .. RingSize - 1
    BY <1>2
  <2> HIDE DEF pucchs
  <2>2. QED
    BY <1>1, <1>12, <1>12a, <2>1, FileGrants
<1>14. /\ ring' = WithGrants(ulsch, pucchs)
       /\ filed' = UNION {prachs, srss, msg3s, puschs, pucchs, gfs}
       /\ sent' = ring'[Index(now)] /\ now' = After(1) /\ ~aborted'
  BY <1>9 DEF Slot, RingInv, free, prach, srs, msg3s, ra, gfPdus, gf, puschs, ulsch, prachs, srss, gfs
<1> HIDE DEF pucchs
<1>15. Files(free, ring', filed')
  <2>1. filed' = ((((prachs \cup srss) \cup msg3s) \cup gfs) \cup puschs) \cup pucchs
    BY <1>14
  <2>2. Files(free, ra, (prachs \cup srss) \cup msg3s)
    BY <1>7, <1>8, <1>10, FilesBoth
  <2>3. Files(free, ulsch, (((prachs \cup srss) \cup msg3s) \cup gfs) \cup puschs)
    BY <1>11, <1>12, <2>2, FilesBoth
  <2>4. Files(free, ring', ((((prachs \cup srss) \cup msg3s) \cup gfs) \cup puschs) \cup pucchs)
    BY <1>13, <1>14, <2>3, FilesBoth
  <2>5. QED
    BY <2>1, <2>4
<1>16. QED
  BY <1>6, <1>14, <1>15 DEF Files


----------------------------------------------------------------------------
(* The invariant.                                                           *)

(* The next slot looks at the ring from one slot later.                     *)
LEMMA OneSlotLater ==
  ASSUME now \in 0 .. Cycle - 1, now' = After(1)
  PROVE  \A d \in Int : Place(d)' = Place(d + 1) /\ After(d)' = After(d + 1)
<1> SUFFICES ASSUME NEW d \in Int
             PROVE  Place(d)' = Place(d + 1) /\ After(d)' = After(d + 1)
  OBVIOUS
<1> DEFINE a == now + 1
           b == (now + 1) % Cycle
<1>1. a \in Int /\ a + d = now + (d + 1) /\ Cycle \in Nat \ {0} /\ RingSize \in Nat \ {0}
  BY Sizes
<1>2. b \in Int
  BY <1>1, ModParts
<1>3. now' = b
  BY DEF After
<1>4. b = a % Cycle
  OBVIOUS
<1> HIDE DEF a, b
<1>5. (b + d) % Cycle = (a + d) % Cycle
  BY <1>1, <1>4, ModSum
<1>6. (b + d) % RingSize = (a + d) % RingSize
  <2>1. b + d \in Int /\ a + d \in Int
    BY <1>1, <1>2
  <2>2. ((b + d) % Cycle) % RingSize = (b + d) % RingSize
    BY <2>1, CycleMod
  <2>3. ((a + d) % Cycle) % RingSize = (a + d) % RingSize
    BY <2>1, CycleMod
  <2>4. QED
    BY <1>5, <2>2, <2>3
<1>7. Place(d)' = (b + d) % RingSize /\ After(d)' = (b + d) % Cycle
  BY <1>3 DEF Place, Index, After
<1>8. Place(d + 1) = (a + d) % RingSize /\ After(d + 1) = (a + d) % Cycle
  BY <1>1, Zenon DEF Place, Index, After
<1>9. QED
  BY <1>5, <1>6, <1>7, <1>8, Zenon

(* A slot leaves every entry with the label it should have, the one it sent *)
(* with the label it was sent with.                                         *)
LEMMA SlotInStep ==
  ASSUME GfEntryIsCurrent, RingInv, NEW msg3 \in SUBSET Msg3K2, NEW n \in 0 .. GfPerSlot,
         NEW pusch \in SUBSET PuschK2, NEW pucch \in BOOLEAN, Slot(msg3, n, pusch, pucch)
  PROVE  RingInv'
<1>1. Aligned(ring') /\ now' = After(1) /\ ~aborted'
  BY SlotFiles
<1>2. TypeOK /\ now \in 0 .. Cycle - 1
  BY DEF RingInv, TypeOK
<1>3. TypeOK'
  BY <1>2, SlotType
<1>4. ASSUME NEW d \in 0 .. RingSize - 1
      PROVE  ring'[Place(d - 1)'].slot = After(d - 1)'
  <2>1. d - 1 \in Int /\ (d - 1) + 1 = d
    OBVIOUS
  <2>2. Place(d - 1)' = Place((d - 1) + 1) /\ After(d - 1)' = After((d - 1) + 1)
    BY <1>1, <1>2, <2>1, OneSlotLater
  <2>3. Place(d - 1)' = Place(d) /\ After(d - 1)' = After(d)
    BY <2>1, <2>2
  <2>4. QED
    BY <1>1, <2>3 DEF Aligned
<1>5. InStep'
  BY <1>4 DEF InStep
<1>6. QED
  BY <1>1, <1>3, <1>5 DEF RingInv

(* Before the first slot no entry has a label.                               *)
LEMMA InitInv == Init => RingInv
  BY InitType DEF Init, RingInv, Fresh

(* The loop keeps the labels in step.                                        *)
LEMMA NextInv == ASSUME GfEntryIsCurrent PROVE RingInv /\ [Next]_vars => RingInv'
<1>1. RingInv /\ UNCHANGED vars => RingInv'
  BY DEF vars, RingInv, TypeOK, Fresh, InStep, Place, After
<1>2. QED
  BY <1>1, SlotInStep DEF Next

----------------------------------------------------------------------------
(* What the ring promises.                                                  *)

(* nr_add_msg3() and nr_generate_Msg3_retransmission() never find an entry  *)
(* of another slot, in any configuration whose grant-free constant agrees   *)
(* with the ring.                                                           *)
THEOREM Msg3FindsItsEntry == ASSUME GfEntryIsCurrent PROVE Spec => []Msg3EntryMatches
<1>1. RingInv => Msg3EntryMatches
  BY DEF RingInv, Msg3EntryMatches
<1>2. QED
  BY <1>1, InitInv, NextInv, PTL DEF Spec

(* An empty ring is an empty calendar.                                      *)
LEMMA InitCalendar == Init => Calendar!Init
<1> SUFFICES ASSUME Init PROVE Calendar!Init
  OBVIOUS
<1>1. now \in 0 .. Cycle - 1
  BY DEF Init
<1>2. \A d \in 0 .. RingSize - 2 : Index(now + d) \in 0 .. RingSize - 1
  <2>1. \A d \in 0 .. RingSize - 2 : d \in Int
    OBVIOUS
  <2>2. \A d \in Int : Place(d) \in 0 .. RingSize - 1
    BY <1>1, Places
  <2>3. QED
    BY <2>1, <2>2, Zenon DEF Place
<1>3. \A d \in 0 .. RingSize - 2 : ring[Index(now + d)].pdus = {}
  BY <1>2 DEF Init
<1>4. QED
  BY <1>3 DEF Init, Calendar!Init

(* A slot of the gNB is a day of the calendar.                              *)
LEMMA SlotCalendar ==
  ASSUME GfEntryIsCurrent, RingInv, NEW msg3 \in SUBSET Msg3K2, NEW n \in 0 .. GfPerSlot,
         NEW pusch \in SUBSET PuschK2, NEW pucch \in BOOLEAN, Slot(msg3, n, pusch, pucch)
  PROVE  Calendar!Slot
<1> DEFINE planned(d) == IF d < RingSize - 1 THEN ring[Place(d)].pdus ELSE {}
<1>1. /\ Aligned(ring')
      /\ \A d \in 0 .. RingSize - 1 :
           ring'[Place(d)].pdus =
             (IF d = RingSize - 1 THEN {} ELSE ring[Place(d)].pdus) \cup FiledAt(filed', d)
      /\ sent' = ring'[Index(now)] /\ now' = After(1)
  BY SlotFiles
<1>2. TypeOK /\ now \in 0 .. Cycle - 1 /\ TypeOK' /\ RingSize \in Nat /\ RingSize > 1
  BY SlotType, Sizes DEF RingInv, TypeOK
<1>3. \A d \in 0 .. RingSize - 1 : ring'[Place(d)].pdus = planned(d) \cup FiledAt(filed', d)
  BY <1>1, <1>2
<1>4. Place(0) = Index(now) /\ After(0) = now /\ 0 \in 0 .. RingSize - 1
  <2>1. now + 0 = now /\ now = Cycle * 0 + now /\ Cycle \in Nat \ {0}
    BY <1>2, Sizes
  <2>2. now % Cycle = now
    BY <1>2, <2>1, ModUnique
  <2>3. QED
    BY <1>2, <2>1, <2>2 DEF Place, After
<1> HIDE DEF planned
<1>5. sent' = [slot |-> now, pdus |-> planned(0) \cup FiledAt(filed', 0)]
  <2>1. sent'.slot = now /\ sent'.pdus = planned(0) \cup FiledAt(filed', 0)
    BY <1>1, <1>3, <1>4 DEF Aligned
  <2>2. sent' \in Request
    BY <1>2 DEF TypeOK
  <2>3. QED
    BY <2>1, <2>2 DEF Request
<1>6. ASSUME NEW d \in 0 .. RingSize - 2
      PROVE  ring'[Index(now' + d)].pdus = planned(d + 1) \cup FiledAt(filed', d + 1)
  <2>1. d + 1 \in 0 .. RingSize - 1 /\ d \in Int
    BY <1>2
  <2>2. Place(d)' = Place(d + 1)
    BY <1>1, <1>2, <2>1, OneSlotLater
  <2>3. Index(now' + d) = Place(d + 1)
    BY <2>2 DEF Place, Index
  <2>4. QED
    BY <1>3, <2>1, <2>3
<1>7. \A d \in 0 .. RingSize - 1 : Calendar!Planned(d) = planned(d)
  <2>1. \A d \in 0 .. RingSize - 1 : d < RingSize - 1 => d \in 0 .. RingSize - 2
    BY <1>2
  <2>2. QED
    BY <2>1 DEF Calendar!Planned, planned, Place
<1>8. \A d : Calendar!FiledFor(d) = FiledAt(filed', d)
  BY DEF Calendar!FiledFor, FiledAt
<1>9. filed' \subseteq (0 .. RingSize - 1) \X Pdu
  BY <1>2 DEF TypeOK
<1>10. \A d \in 0 .. RingSize - 2 :
         ring'[Index(now' + d)].pdus = Calendar!Planned(d + 1) \cup Calendar!FiledFor(d + 1)
  <2>1. \A d \in 0 .. RingSize - 2 : d + 1 \in 0 .. RingSize - 1
    BY <1>2
  <2>2. QED
    BY <1>6, <1>7, <1>8, <2>1
<1>11. sent' = [slot |-> now, pdus |-> Calendar!Planned(0) \cup Calendar!FiledFor(0)]
  BY <1>4, <1>5, <1>7, <1>8
<1>12. now' = (now + 1) % Cycle
  BY <1>1 DEF After
<1>13. QED
  BY <1>9, <1>10, <1>11, <1>12 DEF Calendar!Slot

(* The slot loop implements the calendar: what is filed for a later slot is *)
(* handed to the PHY in that slot and in no other, under the name of that   *)
(* slot, although entries are labelled once and recycled without a check.   *)
THEOREM SlotsAreKept == ASSUME GfEntryIsCurrent PROVE Spec => KeepsCalendar
<1>1. RingInv /\ [Next]_vars => [Calendar!Slot]_(Calendar!vars)
  <2>1. UNCHANGED vars => UNCHANGED Calendar!vars
    BY DEF vars, Calendar!vars
  <2>2. QED
    BY <2>1, SlotCalendar DEF Next
<1>2. QED
  BY <1>1, InitInv, NextInv, InitCalendar, PTL DEF Spec, KeepsCalendar, Calendar!Spec
=============================================================================
