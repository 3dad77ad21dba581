-------------------------- MODULE RandomAccess_proofs --------------------------
(***************************************************************************)
(* Proofs about random access.  First about the UE contexts of the gNB,    *)
(* for any number of UEs, RNTIs and RA processes and for UEs that do       *)
(* anything: an accepted UE finds a place in the connected list, and a     *)
(* connected UE is known to the CU.  Then about the composition of the gNB *)
(* and its UEs: what the gNB does for these UEs over this link is what it  *)
(* may do for any, so that what is proved of the gNB alone holds of the    *)
(* composition.  Last about what takes both ends: which UE a contention    *)
(* connects, and with which RNTI.                                          *)
(***************************************************************************)
EXTENDS RandomAccess, FiniteSetTheorems, TLAPS

----------------------------------------------------------------------------
(* The inductive invariant.                                                 *)

\* The uid allocator never gives a uid twice.
UidsDistinct ==
  \A r, s \in Rntis :
    gnb[r].list # "none" /\ gnb[s].list # "none" /\ r # s => gnb[r].uid # gnb[s].uid

\* A CellGroup is given to a uid of the connected list only.
UidsFit == \A r \in Rntis : gnb[r].cell => gnb[r].uid < MaxMobiles

\* A UE the CU counts as served has an id stored.
ServedHaveIds ==
  \A r \in Rntis : cu[r] \in {"served", "asked", "commanded"} => f1[r] # "none"

\* Msg4 carries the CU's answer, with which its id was stored.
Answered(x) == x.srb \/ x.state = "WAIT_ACK" \/ (x.state = "Msg4" /\ x.round > 0)
AnsweredHaveIds ==
  \A r \in Rntis : gnb[r].list = "access" /\ Answered(gnb[r]) => f1[r] # "none"

\* A call past its lookup names a UE; a reestablishment is between two UEs, and
\* the new one has its context until it is deleted.
CallInOrder ==
  /\ IF dl.rnti = NoRnti THEN dl.old = NoRnti ELSE dl.old # dl.rnti
  /\ dl.live => dl.rnti # NoRnti /\ gnb[dl.rnti].list # "none"

GnbInv ==
  /\ GnbTypeOK /\ UidsDistinct /\ UidsFit /\ ServedHaveIds /\ AnsweredHaveIds
  /\ KnownToCu /\ CallInOrder

(* Context r becomes x and no other changes; types and uids stay in order.    *)
Written(r, x) ==
  /\ gnb' \in [Rntis -> Context]
  /\ \A s \in Rntis : gnb'[s].list = "none" => gnb'[s] = Gone
  /\ gnb'[r] = x /\ \A s \in Rntis \ {r} : gnb'[s] = gnb[s]
  /\ UidsDistinct' /\ UidsFit'

USE GnbAccessAssumption, AccessParametersAssumption DEF NoRnti

(* What is left of a context that is gone is well typed.                     *)
LEMMA GoneIsContext == Gone \in Context
  BY DEF Gone, Context, RaStates

(* At the start there is no context.                                         *)
LEMMA InitInv == GnbInit => GnbInv
<1> SUFFICES ASSUME GnbInit PROVE GnbInv
  OBVIOUS
<1>1. \A r \in Rntis : gnb[r] = Gone /\ f1[r] = "none" /\ cu[r] = "none"
  BY DEF GnbInit
<1>2. Gone.list = "none" /\ ~Gone.cell /\ NoCall.rnti = NoRnti /\ NoCall.old = NoRnti
      /\ ~NoCall.live
  BY DEF Gone, NoCall
<1>3. GnbTypeOK
  BY GoneIsContext DEF GnbInit, GnbTypeOK, NoCall
<1>4. QED
  BY <1>1, <1>2, <1>3
  DEF GnbInit, GnbInv, GnbTypeOK, UidsDistinct, UidsFit, ServedHaveIds, AnsweredHaveIds,
      Answered, KnownToCu, Connected, CallInOrder

(* One context is written, with a uid of its own: what the invariant says of *)
(* types and uids.                                                          *)
LEMMA Write ==
  ASSUME GnbInv, NEW r \in Rntis, NEW x \in Context, x.list # "none",
         gnb' = [gnb EXCEPT ![r] = x],
         \A s \in Rntis \ {r} : gnb[s].list # "none" => gnb[s].uid # x.uid,
         x.cell => x.uid < MaxMobiles
  PROVE  Written(r, x)
<1>1. gnb'[r] = x /\ \A s \in Rntis \ {r} : gnb'[s] = gnb[s]
  BY DEF GnbInv, GnbTypeOK
<1>2. gnb' \in [Rntis -> Context]
  BY DEF GnbInv, GnbTypeOK
<1>3. \A s \in Rntis : gnb'[s].list = "none" => gnb'[s] = Gone
  BY <1>1 DEF GnbInv, GnbTypeOK
<1>4. UidsDistinct' /\ UidsFit'
  BY <1>1 DEF GnbInv, UidsDistinct, UidsFit
<1>5. QED
  BY <1>1, <1>2, <1>3, <1>4 DEF Written

(* A call keeps its UEs, and the context it holds is not deleted.           *)
LEMMA CallKept ==
  ASSUME GnbInv, dl'.rnti = dl.rnti, dl'.old = dl.old,
         dl'.live => dl.live /\ gnb'[dl.rnti].list # "none"
  PROVE  CallInOrder'
  BY DEF GnbInv, CallInOrder

(* The same when a context keeps its uid and its CellGroup.                 *)
LEMMA Update ==
  ASSUME GnbInv, NEW r \in Rntis, NEW x \in Context, x.list # "none",
         gnb[r].list # "none", x.uid = gnb[r].uid, x.cell = gnb[r].cell,
         gnb' = [gnb EXCEPT ![r] = x]
  PROVE  Written(r, x)
<1>1. \A s \in Rntis \ {r} : gnb[s].list # "none" => gnb[s].uid # x.uid
  BY DEF GnbInv, UidsDistinct
<1>2. x.cell => x.uid < MaxMobiles
  BY DEF GnbInv, UidsFit
<1>3. QED
  BY <1>1, <1>2, Write

(* Deleting a context takes its uid and its place.                          *)
LEMMA Remove ==
  ASSUME GnbInv, NEW r \in Rntis, gnb' = [gnb EXCEPT ![r] = Gone]
  PROVE  Written(r, Gone)
<1>1. gnb'[r] = Gone /\ \A s \in Rntis \ {r} : gnb'[s] = gnb[s]
  BY DEF GnbInv, GnbTypeOK
<1>2. gnb' \in [Rntis -> Context]
  BY GoneIsContext DEF GnbInv, GnbTypeOK
<1>3. \A s \in Rntis : gnb'[s].list = "none" => gnb'[s] = Gone
  BY <1>1 DEF GnbInv, GnbTypeOK
<1>4. Gone.list = "none" /\ ~Gone.cell
  BY DEF Gone
<1>5. UidsDistinct' /\ UidsFit'
  BY <1>1, <1>4 DEF GnbInv, UidsDistinct, UidsFit
<1>6. QED
  BY <1>1, <1>2, <1>3, <1>5 DEF Written

(* A context goes and what is stored for its RNTI may stay.                 *)
LEMMA ReleaseRaUeInv ==
  ASSUME GnbInv, NEW r \in Rntis, gnb[r].list # "none", ReleaseRaUe(r)
  PROVE  GnbInv'
<1>1. gnb' = [gnb EXCEPT ![r] = Gone]
  BY DEF ReleaseRaUe, Delete
<1>2. Written(r, Gone)
  BY <1>1, Remove
<1>3. /\ f1' \in [Rntis -> {"none", "own", "stale"}]
      /\ \A s \in Rntis : f1'[s] = "none" <=> f1[s] = "none"
  BY DEF ReleaseRaUe, Abandon, GnbInv, GnbTypeOK
<1>4. /\ cu' \in [Rntis -> {"none", "new", "reject", "served", "asked", "commanded", "unanswered"}]
      /\ \A s \in Rntis : cu'[s] = cu[s] \/ cu'[s] = "unanswered"
  BY DEF ReleaseRaUe, Abandon, GnbInv, GnbTypeOK
<1>5. /\ dl' \in [rnti : Rntis \cup {NoRnti}, old : Rntis \cup {NoRnti}, live : BOOLEAN]
      /\ dl'.rnti = dl.rnti /\ dl'.old = dl.old /\ (dl'.live => dl.live /\ dl.rnti # r)
  BY DEF ReleaseRaUe, Delete, GnbInv, GnbTypeOK
<1>6. rlc' = rlc /\ releasing' = releasing
  BY DEF ReleaseRaUe
<1>7. Gone.list = "none"
  BY DEF Gone
<1>8. GnbTypeOK'
  BY <1>2, <1>3, <1>4, <1>5, <1>6 DEF Written, GnbInv, GnbTypeOK
<1>9. ServedHaveIds' /\ AnsweredHaveIds'
  BY <1>2, <1>3, <1>4, <1>7
  DEF Written, GnbInv, ServedHaveIds, AnsweredHaveIds
<1>10. KnownToCu'
  BY <1>2, <1>3, <1>6, <1>7 DEF Written, GnbInv, KnownToCu, Connected
<1>11. CallInOrder'
  <2>1. dl'.live => dl.live /\ gnb'[dl.rnti].list # "none"
    BY <1>2, <1>5 DEF Written, GnbInv, GnbTypeOK, CallInOrder
  <2>2. QED
    BY <1>5, <2>1, CallKept
<1>12. QED
  BY <1>2, <1>8, <1>9, <1>10, <1>11 DEF GnbInv, Written

(* A step of the scheduler writes one context and nothing else.             *)
LEMMA OnlyContext ==
  ASSUME GnbInv, NEW r \in Rntis, NEW x, Written(r, x), x.list # "none",
         UNCHANGED <<f1, rlc, cu, dl, releasing>>,
         x.list = "access" /\ Answered(x) => f1[r] # "none",
         x.list = "connected" => x.cell /\ (f1[r] # "none" \/ releasing = r)
  PROVE  GnbInv'
<1>1. GnbTypeOK'
  BY DEF Written, GnbInv, GnbTypeOK
<1>2. ServedHaveIds'
  BY DEF GnbInv, ServedHaveIds
<1>2a. CallInOrder'
  <2>1. dl.live => gnb'[dl.rnti].list # "none"
    BY DEF Written, GnbInv, GnbTypeOK, CallInOrder
  <2>2. QED
    BY <2>1, CallKept
<1>3. AnsweredHaveIds'
  BY DEF GnbInv, AnsweredHaveIds, Written
<1>4. KnownToCu'
  BY DEF GnbInv, KnownToCu, Connected, Written
<1>5. QED
  BY <1>1, <1>2, <1>2a, <1>3, <1>4 DEF GnbInv, Written

LEMMA Msg2Inv ==
  ASSUME GnbInv, NEW r \in Rntis, Msg2(r)
  PROVE  GnbInv'
<1> DEFINE x == [gnb[r] EXCEPT !.state = "WAIT_Msg3", !.timer = "on"]
<1>1. gnb' = [gnb EXCEPT ![r] = x] /\ UNCHANGED <<f1, rlc, cu, dl, releasing>>
  BY DEF Msg2, GnbInv, GnbTypeOK
<1>2. gnb[r] \in Context
  BY DEF GnbInv, GnbTypeOK
<1>3. x \in Context
  BY <1>2 DEF Context, RaStates
<1>4. /\ x.list = gnb[r].list /\ x.list # "none"
      /\ x.uid = gnb[r].uid /\ x.cell = gnb[r].cell
  BY <1>2 DEF Msg2, Context
<1>5. /\ x.list = "access" /\ Answered(x) => f1[r] # "none"
      /\ x.list = "connected" => x.cell /\ (f1[r] # "none" \/ releasing = r)
  BY <1>2, <1>4
  DEF Msg2, GnbInv, GnbTypeOK, Context, Answered, AnsweredHaveIds, KnownToCu, Connected
<1> HIDE DEF x
<1>6. QED
  BY <1>1, <1>3, <1>4, <1>5, Update, OnlyContext

LEMMA Msg3RetransmissionInv ==
  ASSUME GnbInv, NEW r \in Rntis, Msg3Retransmission(r)
  PROVE  GnbInv'
<1> DEFINE x == [gnb[r] EXCEPT !.state = "WAIT_Msg3", !.timer = "on"]
<1>1. gnb' = [gnb EXCEPT ![r] = x] /\ UNCHANGED <<f1, rlc, cu, dl, releasing>>
  BY DEF Msg3Retransmission, GnbInv, GnbTypeOK
<1>2. gnb[r] \in Context
  BY DEF GnbInv, GnbTypeOK
<1>3. x \in Context
  BY <1>2 DEF Context, RaStates
<1>4. /\ x.list = gnb[r].list /\ x.list # "none"
      /\ x.uid = gnb[r].uid /\ x.cell = gnb[r].cell
  BY <1>2 DEF Msg3Retransmission, Context
<1>5. /\ x.list = "access" /\ Answered(x) => f1[r] # "none"
      /\ x.list = "connected" => x.cell /\ (f1[r] # "none" \/ releasing = r)
  BY <1>2, <1>4
  DEF Msg3Retransmission, GnbInv, GnbTypeOK, Context, Answered, AnsweredHaveIds, KnownToCu, Connected
<1> HIDE DEF x
<1>6. QED
  BY <1>1, <1>3, <1>4, <1>5, Update, OnlyContext

LEMMA Msg4Inv ==
  ASSUME GnbInv, NEW r \in Rntis, Msg4(r)
  PROVE  GnbInv'
<1> DEFINE x == [gnb[r] EXCEPT !.state = "WAIT_ACK",
                              !.srb = IF gnb[r].round = 0 THEN FALSE ELSE @]
<1>1. gnb' = [gnb EXCEPT ![r] = x] /\ UNCHANGED <<f1, rlc, cu, dl, releasing>>
  BY DEF Msg4, GnbInv, GnbTypeOK
<1>2. gnb[r] \in Context
  BY DEF GnbInv, GnbTypeOK
<1>3. x \in Context
  BY <1>2 DEF Context, RaStates
<1>4. /\ x.list = gnb[r].list /\ x.list # "none"
      /\ x.uid = gnb[r].uid /\ x.cell = gnb[r].cell
  BY <1>2 DEF Msg4, Context
<1>5. /\ x.list = "access" /\ Answered(x) => f1[r] # "none"
      /\ x.list = "connected" => x.cell /\ (f1[r] # "none" \/ releasing = r)
  BY <1>2, <1>4
  DEF Msg4, GnbInv, GnbTypeOK, Context, Answered, AnsweredHaveIds, KnownToCu, Connected
<1> HIDE DEF x
<1>6. QED
  BY <1>1, <1>3, <1>4, <1>5, Update, OnlyContext

LEMMA UlFailureInv ==
  ASSUME GnbInv, NEW r \in Rntis, UlFailure(r)
  PROVE  GnbInv'
<1> DEFINE x == [gnb[r] EXCEPT !.ulFail = "on"]
<1>1. gnb' = [gnb EXCEPT ![r] = x] /\ UNCHANGED <<f1, rlc, cu, dl, releasing>>
  BY DEF UlFailure, GnbInv, GnbTypeOK
<1>2. gnb[r] \in Context
  BY DEF GnbInv, GnbTypeOK
<1>3. x \in Context
  BY <1>2 DEF Context, RaStates
<1>4. /\ x.list = gnb[r].list /\ x.list # "none"
      /\ x.uid = gnb[r].uid /\ x.cell = gnb[r].cell
  BY <1>2 DEF UlFailure, Context
<1>5. /\ x.list = "access" /\ Answered(x) => f1[r] # "none"
      /\ x.list = "connected" => x.cell /\ (f1[r] # "none" \/ releasing = r)
  BY <1>2, <1>4
  DEF UlFailure, GnbInv, GnbTypeOK, Context, Answered, AnsweredHaveIds, KnownToCu, Connected
<1> HIDE DEF x
<1>6. QED
  BY <1>1, <1>3, <1>4, <1>5, Update, OnlyContext

LEMMA Msg2TooLateInv ==
  ASSUME GnbInv, NEW r \in Rntis, Msg2TooLate(r)
  PROVE  GnbInv'
  BY ReleaseRaUeInv DEF Msg2TooLate

LEMMA Msg3FailedInv ==
  ASSUME GnbInv, NEW r \in Rntis, Msg3Failed(r)
  PROVE  GnbInv'
<1>1. CASE gnb[r].round >= Msg3Rounds - 1
  BY <1>1, ReleaseRaUeInv DEF Msg3Failed
<1>2. CASE ~(gnb[r].round >= Msg3Rounds - 1)
  <2> DEFINE x == [gnb[r] EXCEPT !.round = @ + 1, !.state = "Msg3_retransmission"]
  <2>1. gnb' = [gnb EXCEPT ![r] = x] /\ UNCHANGED <<f1, rlc, cu, dl, releasing>>
    BY <1>2 DEF Msg3Failed, GnbInv, GnbTypeOK
  <2>2. gnb[r] \in Context
    BY DEF GnbInv, GnbTypeOK
  <2>3. x \in Context
    <3>1. gnb[r].round + 1 \in Nat
      BY <2>2 DEF Context
    <3>2. QED
      BY <2>2, <3>1 DEF Context, RaStates
  <2>4. /\ gnb[r].list = "access" /\ x.list = gnb[r].list /\ x.list # "none"
        /\ x.uid = gnb[r].uid /\ x.cell = gnb[r].cell
    BY <2>2, <1>2 DEF Msg3Failed, Context
  <2>5. /\ x.list = "access" /\ Answered(x) => f1[r] # "none"
        /\ x.list = "connected" => x.cell /\ (f1[r] # "none" \/ releasing = r)
    BY <1>2, <2>2, <2>4 DEF Msg3Failed, GnbInv, GnbTypeOK, Context, Answered,
        AnsweredHaveIds
  <2> HIDE DEF x
  <2>6. QED
    BY <2>1, <2>3, <2>4, <2>5, Update, OnlyContext
<1>3. QED
  BY <1>1, <1>2

LEMMA Msg4NackInv ==
  ASSUME GnbInv, NEW r \in Rntis, Msg4Nack(r)
  PROVE  GnbInv'
<1>1. CASE gnb[r].round + 1 < Msg4Rounds
  <2> DEFINE x == [gnb[r] EXCEPT !.round = @ + 1, !.state = "Msg4"]
  <2>1. gnb' = [gnb EXCEPT ![r] = x] /\ UNCHANGED <<f1, rlc, cu, dl, releasing>>
    BY <1>1 DEF Msg4Nack, AwaitsAck, GnbInv, GnbTypeOK
  <2>2. gnb[r] \in Context
    BY DEF GnbInv, GnbTypeOK
  <2>3. x \in Context
    <3>1. gnb[r].round + 1 \in Nat
      BY <2>2 DEF Context
    <3>2. QED
      BY <2>2, <3>1 DEF Context, RaStates
  <2>4. /\ gnb[r].list = "access" /\ x.list = gnb[r].list /\ x.list # "none"
        /\ x.uid = gnb[r].uid /\ x.cell = gnb[r].cell
    BY <2>2, <1>1 DEF Msg4Nack, AwaitsAck, Context
  <2>5. /\ x.list = "access" /\ Answered(x) => f1[r] # "none"
        /\ x.list = "connected" => x.cell /\ (f1[r] # "none" \/ releasing = r)
    BY <1>1, <2>2, <2>4 DEF Msg4Nack, AwaitsAck, GnbInv, GnbTypeOK, Context, Answered,
        AnsweredHaveIds
  <2> HIDE DEF x
  <2>6. QED
    BY <2>1, <2>3, <2>4, <2>5, Update, OnlyContext
<1>2. CASE ~(gnb[r].round + 1 < Msg4Rounds)
  <2> DEFINE x == [gnb[r] EXCEPT !.round = 0, !.ulFail = "on"]
  <2>1. gnb' = [gnb EXCEPT ![r] = x] /\ UNCHANGED <<f1, rlc, cu, dl, releasing>>
    BY <1>2 DEF Msg4Nack, AwaitsAck, GnbInv, GnbTypeOK
  <2>2. gnb[r] \in Context
    BY DEF GnbInv, GnbTypeOK
  <2>3. x \in Context
    <3>1. gnb[r].round + 1 \in Nat
      BY <2>2 DEF Context
    <3>2. QED
      BY <2>2, <3>1 DEF Context, RaStates
  <2>4. /\ gnb[r].list = "access" /\ x.list = gnb[r].list /\ x.list # "none"
        /\ x.uid = gnb[r].uid /\ x.cell = gnb[r].cell
    BY <2>2, <1>2 DEF Msg4Nack, AwaitsAck, Context
  <2>5. /\ x.list = "access" /\ Answered(x) => f1[r] # "none"
        /\ x.list = "connected" => x.cell /\ (f1[r] # "none" \/ releasing = r)
    BY <1>2, <2>2, <2>4 DEF Msg4Nack, AwaitsAck, GnbInv, GnbTypeOK, Context, Answered,
        AnsweredHaveIds
  <2> HIDE DEF x
  <2>6. QED
    BY <2>1, <2>3, <2>4, <2>5, Update, OnlyContext
<1>3. QED
  BY <1>1, <1>2

LEMMA Msg4AckInv ==
  ASSUME GnbInv, NEW r \in Rntis, Msg4Ack(r)
  PROVE  GnbInv'
<1>1. CASE gnb[r].cell /\ Cardinality(Connected) < MaxMobiles
  <2> DEFINE x == [gnb[r] EXCEPT !.list = "connected", !.state = "done", !.timer = "off",
                                !.round = 0, !.heard = {}, !.pre = 0]
  <2>1. gnb' = [gnb EXCEPT ![r] = x] /\ UNCHANGED <<f1, rlc, cu, dl, releasing>>
    BY <1>1 DEF Msg4Ack, AwaitsAck, GnbInv, GnbTypeOK
  <2>2. gnb[r] \in Context
    BY DEF GnbInv, GnbTypeOK
  <2>3. x \in Context
    <3>1. gnb[r].round + 1 \in Nat
      BY <2>2 DEF Context
    <3>2. QED
      BY <2>2, <3>1 DEF Context, RaStates
  <2>4. /\ gnb[r].list = "access" /\ x.list = "connected" /\ x.list # "none"
        /\ x.uid = gnb[r].uid /\ x.cell = gnb[r].cell
    BY <2>2, <1>1 DEF Msg4Ack, AwaitsAck, Context
  <2>5. /\ x.list = "access" /\ Answered(x) => f1[r] # "none"
        /\ x.list = "connected" => x.cell /\ (f1[r] # "none" \/ releasing = r)
    <3>1. x.list = "connected" /\ x.cell
      BY <1>1, <2>2, <2>4
    <3>2. f1[r] # "none"
      <4>1. gnb[r].list = "access" /\ gnb[r].state = "WAIT_ACK"
        BY DEF Msg4Ack, AwaitsAck
      <4>2. QED
        BY <4>1 DEF GnbInv, Answered, AnsweredHaveIds
    <3>3. QED
      BY <3>1, <3>2
  <2> HIDE DEF x
  <2>6. QED
    BY <2>1, <2>3, <2>4, <2>5, Update, OnlyContext
<1>2. CASE ~(gnb[r].cell /\ Cardinality(Connected) < MaxMobiles)
  BY <1>2, ReleaseRaUeInv DEF Msg4Ack, AwaitsAck
<1>3. QED
  BY <1>1, <1>2

(* A step writes one context and what the CU does about it.                 *)
LEMMA ContextAndCu ==
  ASSUME GnbInv, NEW r \in Rntis, NEW x, Written(r, x), x.list # "none",
         NEW c, cu' = [cu EXCEPT ![r] = c],
         c \in {"none", "new", "reject", "served", "asked", "commanded", "unanswered"},
         c \in {"served", "asked", "commanded"} => f1[r] # "none",
         f1' = f1, dl' = dl, releasing' = releasing, rlc' \subseteq Rntis,
         x.list = "access" /\ Answered(x) => f1[r] # "none",
         x.list = "connected" => x.cell /\ (f1[r] # "none" \/ releasing = r)
  PROVE  GnbInv'
<1>1. GnbTypeOK'
  BY DEF Written, GnbInv, GnbTypeOK
<1>2. ServedHaveIds'
  BY DEF GnbInv, ServedHaveIds, GnbTypeOK
<1>2a. CallInOrder'
  <2>1. dl.live => gnb'[dl.rnti].list # "none"
    BY DEF Written, GnbInv, GnbTypeOK, CallInOrder
  <2>2. QED
    BY <2>1, CallKept
<1>3. AnsweredHaveIds'
  BY DEF GnbInv, AnsweredHaveIds, Written
<1>4. KnownToCu'
  BY DEF GnbInv, KnownToCu, Connected, Written
<1>5. QED
  BY <1>1, <1>2, <1>2a, <1>3, <1>4 DEF GnbInv, Written

LEMMA ContentionExpiryInv ==
  ASSUME GnbInv, NEW r \in Rntis, ContentionExpiry(r)
  PROVE  GnbInv'
<1>1. CASE gnb[r].cell /\ f1[r] # "none"
  <2> DEFINE x == [gnb[r] EXCEPT !.timer = "expired"]
             c == IF f1[r] = "own" /\ cu[r] = "served" THEN "asked" ELSE cu[r]
  <2>1. /\ gnb' = [gnb EXCEPT ![r] = x] /\ cu' = [cu EXCEPT ![r] = c]
        /\ f1' = f1 /\ dl' = dl /\ releasing' = releasing /\ rlc' \subseteq Rntis
    BY <1>1 DEF ContentionExpiry, AsksCu, GnbInv, GnbTypeOK
  <2>2. gnb[r] \in Context
    BY DEF GnbInv, GnbTypeOK
  <2>3. x \in Context
    BY <2>2 DEF Context, RaStates
  <2>4. /\ x.list = "access" /\ gnb[r].list = "access"
        /\ x.uid = gnb[r].uid /\ x.cell = gnb[r].cell
    BY <2>2, <1>1 DEF ContentionExpiry, Context
  <2>5. /\ c \in {"none", "new", "reject", "served", "asked", "commanded", "unanswered"}
        /\ c \in {"served", "asked", "commanded"} => f1[r] # "none"
    BY <1>1 DEF GnbInv, GnbTypeOK, ServedHaveIds
  <2>6. /\ x.list = "access" /\ Answered(x) => f1[r] # "none"
        /\ x.list = "connected" => x.cell /\ (f1[r] # "none" \/ releasing = r)
    BY <1>1, <2>2, <2>4 DEF GnbInv, Context, Answered, AnsweredHaveIds, KnownToCu, Connected
  <2> HIDE DEF x, c
  <2>7. QED
    BY <2>1, <2>3, <2>4, <2>5, <2>6, Update, ContextAndCu
<1>2. CASE ~(gnb[r].cell /\ f1[r] # "none")
  BY <1>2, ReleaseRaUeInv DEF ContentionExpiry
<1>3. QED
  BY <1>1, <1>2

(* The UE has no context any more, whatever is stored for its RNTI.         *)
LEMMA Removed ==
  ASSUME GnbInv, NEW r \in Rntis, Written(r, Gone), NEW a, NEW c,
         f1' = [f1 EXCEPT ![r] = a], cu' = [cu EXCEPT ![r] = c],
         a \in {"none", "own", "stale"},
         c \in {"none", "new", "reject", "served", "asked", "commanded", "unanswered"},
         c \in {"served", "asked", "commanded"} => a # "none",
         rlc' \subseteq Rntis,
         releasing' = releasing \/ (releasing = r /\ releasing' = NoRnti),
         dl' \in [rnti : Rntis \cup {NoRnti}, old : Rntis \cup {NoRnti}, live : BOOLEAN],
         dl'.rnti = dl.rnti, dl'.old = dl.old, dl'.live => dl.live /\ dl.rnti # r
  PROVE  GnbInv'
<1>1. Gone.list = "none"
  BY DEF Gone
<1>2. GnbTypeOK'
  BY DEF Written, GnbInv, GnbTypeOK
<1>3. ServedHaveIds'
  BY DEF GnbInv, GnbTypeOK, ServedHaveIds
<1>4. AnsweredHaveIds'
  BY <1>1 DEF GnbInv, GnbTypeOK, AnsweredHaveIds, Written
<1>5. KnownToCu'
  BY <1>1 DEF GnbInv, GnbTypeOK, KnownToCu, Connected, Written
<1>6. CallInOrder'
  <2>1. dl'.live => dl.live /\ gnb'[dl.rnti].list # "none"
    BY DEF Written, GnbInv, GnbTypeOK, CallInOrder
  <2>2. QED
    BY <2>1, CallKept
<1>7. QED
  BY <1>2, <1>3, <1>4, <1>5, <1>6 DEF GnbInv, Written

LEMMA UlFailureTimerInv ==
  ASSUME GnbInv, NEW r \in Rntis, UlFailureTimer(r)
  PROVE  GnbInv'
<1>1. CASE gnb[r].ulFail = "on" /\ f1[r] # "none"
  <2> DEFINE x == [gnb[r] EXCEPT !.ulFail = "asked"]
             c == IF f1[r] = "own" /\ cu[r] = "served" THEN "asked" ELSE cu[r]
  <2>1. /\ gnb' = [gnb EXCEPT ![r] = x] /\ cu' = [cu EXCEPT ![r] = c]
        /\ f1' = f1 /\ dl' = dl /\ releasing' = releasing /\ rlc' \subseteq Rntis
    BY <1>1 DEF UlFailureTimer, AsksCu, GnbInv, GnbTypeOK
  <2>2. gnb[r] \in Context
    BY DEF GnbInv, GnbTypeOK
  <2>3. x \in Context
    BY <2>2 DEF Context, RaStates
  <2>4. /\ x.list = "connected" /\ gnb[r].list = "connected"
        /\ x.uid = gnb[r].uid /\ x.cell = gnb[r].cell
    BY <2>2, <1>1 DEF UlFailureTimer, Context
  <2>5. /\ c \in {"none", "new", "reject", "served", "asked", "commanded", "unanswered"}
        /\ c \in {"served", "asked", "commanded"} => f1[r] # "none"
    BY <1>1 DEF GnbInv, GnbTypeOK, ServedHaveIds
  <2>6. /\ x.list = "access" /\ Answered(x) => f1[r] # "none"
        /\ x.list = "connected" => x.cell /\ (f1[r] # "none" \/ releasing = r)
    BY <1>1, <2>2, <2>4 DEF GnbInv, Context, Answered, AnsweredHaveIds, KnownToCu, Connected
  <2> HIDE DEF x, c
  <2>7. QED
    BY <2>1, <2>3, <2>4, <2>5, <2>6, Update, ContextAndCu
<1>2. CASE ~(gnb[r].ulFail = "on" /\ f1[r] # "none")
  <2> DEFINE a == IF f1[r] = "own" THEN "stale" ELSE f1[r]
           c == IF cu[r] = "commanded" THEN "unanswered" ELSE cu[r]
  <2>1. Written(r, Gone)
    BY <1>2, Remove DEF UlFailureTimer, ReleaseUe, Delete
  <2>2. f1' = [f1 EXCEPT ![r] = a] /\ cu' = [cu EXCEPT ![r] = c]
    BY <1>2 DEF UlFailureTimer, Completes, Abandon, GnbInv, GnbTypeOK
  <2>3. /\ a \in {"none", "own", "stale"}
        /\ c \in {"none", "new", "reject", "served", "asked", "commanded", "unanswered"}
        /\ c \in {"served", "asked", "commanded"} => a # "none"
    BY <1>2 DEF UlFailureTimer, GnbInv, GnbTypeOK, ServedHaveIds
  <2>4. rlc' \subseteq Rntis /\ releasing' = releasing
    BY <1>2 DEF UlFailureTimer, ReleaseUe, GnbInv, GnbTypeOK
  <2>5. dl' = IF dl.rnti = r THEN [dl EXCEPT !.live = FALSE] ELSE dl
    BY <1>2 DEF UlFailureTimer, ReleaseUe, Delete
  <2>6. /\ dl' \in [rnti : Rntis \cup {NoRnti}, old : Rntis \cup {NoRnti}, live : BOOLEAN]
        /\ dl'.rnti = dl.rnti /\ dl'.old = dl.old /\ (dl'.live => dl.live /\ dl.rnti # r)
    BY <2>5 DEF GnbInv, GnbTypeOK
  <2> HIDE DEF a, c
  <2>7. QED
    BY <2>1, <2>2, <2>3, <2>4, <2>6, Removed
<1>3. QED
  BY <1>1, <1>2

LEMMA ReleaseFinishInv ==
  ASSUME GnbInv, ReleaseFinish
  PROVE  GnbInv'
<1> DEFINE r == releasing
<1>1. r \in Rntis
  BY DEF ReleaseFinish, GnbInv, GnbTypeOK
<1>2. QED
  <2> DEFINE a == IF f1[r] = "own" THEN "stale" ELSE f1[r]
           c == IF cu[r] = "commanded" THEN "unanswered" ELSE cu[r]
  <2>1. Written(r, Gone)
    BY <1>1, Remove DEF ReleaseFinish, ReleaseUe, Delete
  <2>2. f1' = [f1 EXCEPT ![r] = a] /\ cu' = [cu EXCEPT ![r] = c]
    BY <1>1 DEF ReleaseFinish, Completes, Abandon, GnbInv, GnbTypeOK
  <2>3. /\ a \in {"none", "own", "stale"}
        /\ c \in {"none", "new", "reject", "served", "asked", "commanded", "unanswered"}
        /\ c \in {"served", "asked", "commanded"} => a # "none"
    BY <1>1 DEF ReleaseFinish, GnbInv, GnbTypeOK, ServedHaveIds
  <2>4. /\ rlc' \subseteq Rntis
        /\ releasing' = releasing \/ (releasing = r /\ releasing' = NoRnti)
    BY <1>1 DEF ReleaseFinish, ReleaseUe, GnbInv, GnbTypeOK
  <2>5. dl' = IF dl.rnti = r THEN [dl EXCEPT !.live = FALSE] ELSE dl
    BY <1>1 DEF ReleaseFinish, ReleaseUe, Delete
  <2>6. /\ dl' \in [rnti : Rntis \cup {NoRnti}, old : Rntis \cup {NoRnti}, live : BOOLEAN]
        /\ dl'.rnti = dl.rnti /\ dl'.old = dl.old /\ (dl'.live => dl.live /\ dl.rnti # r)
    BY <2>5 DEF GnbInv, GnbTypeOK
  <2> HIDE DEF a, c
  <2>7. QED
    BY <1>1, <2>1, <2>2, <2>3, <2>4, <2>6, Removed

(* nr_mac_trigger_release_complete() takes the CU's id and holds the UE.    *)
LEMMA ReleaseExpiryInv ==
  ASSUME GnbInv, NEW r \in Rntis, ReleaseExpiry(r)
  PROVE  GnbInv'
<1>1. CASE f1[r] = "none"
  <2> DEFINE a == f1[r]
           c == cu[r]
  <2>1. Written(r, Gone)
    BY <1>1, Remove DEF ReleaseExpiry, ReleaseUe, Delete
  <2>2. f1' = [f1 EXCEPT ![r] = a] /\ cu' = [cu EXCEPT ![r] = c]
    BY <1>1 DEF ReleaseExpiry, Completes, Abandon, GnbInv, GnbTypeOK
  <2>3. /\ a \in {"none", "own", "stale"}
        /\ c \in {"none", "new", "reject", "served", "asked", "commanded", "unanswered"}
        /\ c \in {"served", "asked", "commanded"} => a # "none"
    BY <1>1 DEF ReleaseExpiry, GnbInv, GnbTypeOK, ServedHaveIds
  <2>4. rlc' \subseteq Rntis /\ releasing' = releasing
    BY <1>1 DEF ReleaseExpiry, ReleaseUe, GnbInv, GnbTypeOK
  <2>5. dl' = IF dl.rnti = r THEN [dl EXCEPT !.live = FALSE] ELSE dl
    BY <1>1 DEF ReleaseExpiry, ReleaseUe, Delete
  <2>6. /\ dl' \in [rnti : Rntis \cup {NoRnti}, old : Rntis \cup {NoRnti}, live : BOOLEAN]
        /\ dl'.rnti = dl.rnti /\ dl'.old = dl.old /\ (dl'.live => dl.live /\ dl.rnti # r)
    BY <2>5 DEF GnbInv, GnbTypeOK
  <2> HIDE DEF a, c
  <2>7. QED
    BY <2>1, <2>2, <2>3, <2>4, <2>6, Removed
<1>2. CASE f1[r] # "none"
  <2>1. /\ GnbTypeOK' /\ gnb' = gnb /\ dl' = dl /\ gnb[r].list = "connected" /\ releasing' = r
        /\ releasing = NoRnti
    <3>1. /\ gnb' = gnb /\ dl' = dl /\ rlc' = rlc /\ releasing' = r /\ releasing = NoRnti
          /\ gnb[r].list = "connected"
      BY <1>2 DEF ReleaseExpiry, SlotLoop
    <3>2. /\ f1' \in [Rntis -> {"none", "own", "stale"}]
          /\ cu' \in [Rntis -> {"none", "new", "reject", "served", "asked", "commanded",
                              "unanswered"}]
      BY <1>2 DEF ReleaseExpiry, Completes, GnbInv, GnbTypeOK
    <3>3. QED
      BY <3>1, <3>2 DEF GnbInv, GnbTypeOK
  <2>2. ServedHaveIds'
    BY <1>2 DEF ReleaseExpiry, Completes, GnbInv, GnbTypeOK, ServedHaveIds
  <2>3. AnsweredHaveIds' /\ KnownToCu'
    BY <1>2, <2>1
    DEF ReleaseExpiry, Completes, GnbInv, GnbTypeOK, AnsweredHaveIds, KnownToCu, Connected
  <2>4. UidsDistinct' /\ UidsFit' /\ CallInOrder'
    BY <2>1 DEF GnbInv, UidsDistinct, UidsFit, CallInOrder
  <2>5. QED
    BY <2>1, <2>2, <2>3, <2>4 DEF GnbInv
<1>3. QED
  BY <1>1, <1>2

LEMMA ReleaseCommandInv ==
  ASSUME GnbInv, NEW r \in Rntis, NEW container \in BOOLEAN, ReleaseCommand(r, container)
  PROVE  GnbInv'
<1>1. CASE gnb[r].list = "none"
  <2>1. /\ GnbTypeOK' /\ UNCHANGED <<gnb, f1, dl, releasing>>
        /\ \A s \in Rntis : cu'[s] \in {"served", "asked", "commanded"} => cu'[s] = cu[s]
    BY <1>1 DEF ReleaseCommand, GnbInv, GnbTypeOK
  <2>2. QED
    BY <2>1 DEF GnbInv, UidsDistinct, UidsFit, ServedHaveIds, AnsweredHaveIds, KnownToCu,
                Connected, CallInOrder
<1>2. CASE gnb[r].list # "none" /\ (gnb[r].ulFail # "no" \/ ~container)
  <2> DEFINE a == "none"
           c == IF f1[r] = "own" THEN "none" ELSE "unanswered"
  <2>1. Written(r, Gone)
    BY <1>2, Remove DEF ReleaseCommand, ReleaseUe, Delete
  <2>2. f1' = [f1 EXCEPT ![r] = a] /\ cu' = [cu EXCEPT ![r] = c]
    BY <1>2 DEF ReleaseCommand, Completes, Abandon, GnbInv, GnbTypeOK
  <2>3. /\ a \in {"none", "own", "stale"}
        /\ c \in {"none", "new", "reject", "served", "asked", "commanded", "unanswered"}
        /\ c \in {"served", "asked", "commanded"} => a # "none"
    BY <1>2 DEF ReleaseCommand, GnbInv, GnbTypeOK, ServedHaveIds
  <2>4. rlc' \subseteq Rntis /\ releasing' = releasing
    BY <1>2 DEF ReleaseCommand, ReleaseUe, GnbInv, GnbTypeOK
  <2>5. dl' = IF dl.rnti = r THEN [dl EXCEPT !.live = FALSE] ELSE dl
    BY <1>2 DEF ReleaseCommand, ReleaseUe, Delete
  <2>6. /\ dl' \in [rnti : Rntis \cup {NoRnti}, old : Rntis \cup {NoRnti}, live : BOOLEAN]
        /\ dl'.rnti = dl.rnti /\ dl'.old = dl.old /\ (dl'.live => dl.live /\ dl.rnti # r)
    BY <2>5 DEF GnbInv, GnbTypeOK
  <2> HIDE DEF a, c
  <2>7. QED
    BY <2>1, <2>2, <2>3, <2>4, <2>6, Removed
<1>3. CASE gnb[r].list # "none" /\ ~(gnb[r].ulFail # "no" \/ ~container)
  <2>0. f1[r] # "none"
    BY DEF ReleaseCommand, GnbInv, ServedHaveIds
  <2> DEFINE srb == gnb[r].srb \/ gnb[r].list = "access"
             x == [gnb[r] EXCEPT !.release = TRUE, !.srb = srb]
             c == "commanded"
  <2>1. /\ gnb' = [gnb EXCEPT ![r] = x] /\ cu' = [cu EXCEPT ![r] = c]
        /\ f1' = f1 /\ dl' = dl /\ releasing' = releasing /\ rlc' \subseteq Rntis
    BY <1>3 DEF ReleaseCommand, GnbInv, GnbTypeOK
  <2>2. /\ x \in Context /\ x.list = gnb[r].list
        /\ x.uid = gnb[r].uid /\ x.cell = gnb[r].cell
    <3>1. gnb[r] \in Context /\ srb \in BOOLEAN
      BY DEF GnbInv, GnbTypeOK
    <3> HIDE DEF srb
    <3>2. QED
      BY <3>1 DEF Context, RaStates
  <2>3. /\ c \in {"none", "new", "reject", "served", "asked", "commanded", "unanswered"}
        /\ x.list = "connected" => x.cell /\ (f1[r] # "none" \/ releasing = r)
    BY <2>0, <2>2 DEF GnbInv, KnownToCu, Connected
  <2> HIDE DEF x, c
  <2>4. QED
    BY <1>3, <2>0, <2>1, <2>2, <2>3, Update, ContextAndCu
<1>4. QED
  BY <1>1, <1>2, <1>3

LEMMA InitiateRaInv ==
  ASSUME GnbInv, NEW r \in Rntis, NEW pre \in Preambles, NEW heard \in SUBSET Ues,
         InitiateRa(r, pre, heard)
  PROVE  GnbInv'
<1>1. PICK uid \in 0 .. Cardinality(Present) :
        /\ NewUid(r, uid)
        /\ gnb' = [gnb EXCEPT ![r] = [Gone EXCEPT !.list = "access", !.state = "Msg2",
                                        !.uid = uid, !.pre = pre, !.heard = heard]]
  BY DEF InitiateRa
<1> DEFINE x == [Gone EXCEPT !.list = "access", !.state = "Msg2", !.uid = uid, !.pre = pre,
                             !.heard = heard]
<1>2. x \in Context
  <2>1. uid \in Nat /\ pre \in Preambles \cup {0} /\ heard \in SUBSET Ues
    BY <1>1
  <2>2. QED
    BY <2>1, GoneIsContext DEF Context, RaStates
<1>3. x.list = "access" /\ x.uid = uid /\ ~x.cell /\ ~Answered(x)
  BY DEF Gone, Answered
<1>4. \A s \in Rntis \ {r} : gnb[s].list # "none" => gnb[s].uid # x.uid
  BY <1>1, <1>3 DEF NewUid, Present
<1>5. gnb' = [gnb EXCEPT ![r] = x] /\ UNCHANGED <<f1, rlc, cu, dl, releasing>>
  BY <1>1 DEF InitiateRa
<1> HIDE DEF x
<1>6. Written(r, x)
  BY <1>2, <1>3, <1>4, <1>5, Write
<1>7. QED
  BY <1>3, <1>5, <1>6, OnlyContext

LEMMA Msg3CcchInv ==
  ASSUME GnbInv, NEW r \in Rntis, NEW u \in Ues, Msg3Ccch(r, u)
  PROVE  GnbInv'
<1> DEFINE msg4 == [gnb[r] EXCEPT !.state = "Msg4", !.round = 0, !.owner = u]
<1>1. gnb[r] \in Context /\ gnb[r].list = "access"
  BY DEF GnbInv, GnbTypeOK, Msg3Ccch
<1>2. msg4 \in Context
  BY <1>1 DEF Context, RaStates
<1>3. /\ msg4.list = "access" /\ msg4.uid = gnb[r].uid /\ msg4.cell = gnb[r].cell
      /\ msg4.state = "Msg4" /\ msg4.round = 0 /\ msg4.srb = gnb[r].srb
  BY <1>1 DEF Context
<1>4. gnb[r].srb => f1[r] # "none"
  BY <1>1 DEF GnbInv, AnsweredHaveIds, Answered
<1>5. f1' = f1 /\ dl' = dl /\ releasing' = releasing /\ rlc' \subseteq Rntis
  BY DEF Msg3Ccch, GnbInv, GnbTypeOK
<1>6. CASE r \in rlc
  <2>1. gnb' = [gnb EXCEPT ![r] = msg4] /\ rlc' = rlc /\ cu' = cu
    BY <1>6 DEF Msg3Ccch
  <2> HIDE DEF msg4
  <2>2. Written(r, msg4)
    BY <1>1, <1>2, <1>3, <2>1, Update
  <2>3. ~Answered(msg4) \/ f1[r] # "none"
    BY <1>3, <1>4 DEF Answered
  <2>4. QED
    BY <1>3, <1>5, <2>1, <2>2, <2>3, OnlyContext
<1>7. CASE r \notin rlc
  <2>1. PICK uid \in 0 .. Cardinality(Present) :
          /\ IF gnb[r].uid < MaxMobiles THEN uid = gnb[r].uid ELSE NewUid(r, uid)
          /\ gnb' = [gnb EXCEPT ![r] = [msg4 EXCEPT !.uid = uid, !.cell = uid < MaxMobiles]]
          /\ cu' = [cu EXCEPT ![r] = IF uid < MaxMobiles THEN "new" ELSE "reject"]
    BY <1>7 DEF Msg3Ccch
  <2> DEFINE cell == uid < MaxMobiles
             x == [msg4 EXCEPT !.uid = uid, !.cell = cell]
             c == IF uid < MaxMobiles THEN "new" ELSE "reject"
  <2> HIDE DEF msg4
  <2>2. x \in Context
    <3>1. cell \in BOOLEAN /\ uid \in Nat
      BY <2>1
    <3> HIDE DEF cell
    <3>2. QED
      BY <1>2, <3>1 DEF Context
  <2>3. x.list = "access" /\ x.uid = uid /\ (x.cell => uid < MaxMobiles)
    BY <1>2, <1>3 DEF Context
  <2>4. x.srb = gnb[r].srb /\ x.state = "Msg4" /\ x.round = 0
    BY <1>2, <1>3 DEF Context
  <2>5. Answered(x) => f1[r] # "none"
    BY <1>4, <2>4 DEF Answered
  <2>6. \A s \in Rntis \ {r} : gnb[s].list # "none" => gnb[s].uid # uid
    BY <1>1, <2>1 DEF NewUid, Present, GnbInv, UidsDistinct
  <2>7. gnb' = [gnb EXCEPT ![r] = x] /\ cu' = [cu EXCEPT ![r] = c]
    BY <2>1
  <2>8. c \in {"new", "reject"}
    OBVIOUS
  <2> HIDE DEF x, c
  <2>9. Written(r, x)
    BY <2>2, <2>3, <2>6, <2>7, Write
  <2>10. QED
    BY <1>5, <2>3, <2>5, <2>7, <2>8, <2>9, ContextAndCu
<1>8. QED
  BY <1>6, <1>7

LEMMA Msg3NoIdentityInv ==
  ASSUME GnbInv, NEW r \in Rntis, Msg3NoIdentity(r)
  PROVE  GnbInv'
<1> DEFINE x == [gnb[r] EXCEPT !.state = "Msg4", !.round = 0]
<1>1. gnb[r] \in Context /\ gnb[r].list = "access"
  BY DEF GnbInv, GnbTypeOK, Msg3NoIdentity
<1>2. x \in Context
  BY <1>1 DEF Context, RaStates
<1>3. /\ x.list = "access" /\ x.uid = gnb[r].uid /\ x.cell = gnb[r].cell
      /\ x.state = "Msg4" /\ x.round = 0 /\ x.srb = gnb[r].srb
  BY <1>1 DEF Context
<1>4. gnb[r].srb => f1[r] # "none"
  BY <1>1 DEF GnbInv, AnsweredHaveIds, Answered
<1>5. gnb' = [gnb EXCEPT ![r] = x] /\ UNCHANGED <<f1, rlc, cu, dl, releasing>>
  BY DEF Msg3NoIdentity, GnbInv, GnbTypeOK
<1> HIDE DEF x
<1>6. Written(r, x)
  BY <1>1, <1>2, <1>3, <1>5, Update
<1>7. Answered(x) => f1[r] # "none"
  BY <1>3, <1>4 DEF Answered
<1>8. QED
  BY <1>3, <1>5, <1>6, <1>7, OnlyContext

LEMMA Msg3CrntiInv ==
  ASSUME GnbInv, NEW r \in Rntis, NEW k \in Rntis, Msg3Crnti(r, k)
  PROVE  GnbInv'
<1> DEFINE Kept(s) == [gnb[s] EXCEPT !.ulFail = "no"]
<1>1. Gone.list = "none" /\ ~Gone.cell
  BY DEF Gone
<1>2. \A s \in Rntis : gnb'[s] \in {Gone, gnb[s], Kept(s)}
  BY DEF Msg3Crnti
<1>3. \A s \in Rntis : /\ gnb[s] \in Context
                       /\ gnb[s].list = "none" => gnb[s] = Gone
  BY DEF GnbInv, GnbTypeOK
<1>4. ASSUME NEW s \in Rntis
      PROVE  /\ Kept(s) \in Context /\ Kept(s).list = gnb[s].list
             /\ Kept(s).uid = gnb[s].uid /\ Kept(s).cell = gnb[s].cell
             /\ Answered(Kept(s)) = Answered(gnb[s])
  <2>1. gnb[s] \in Context
    BY <1>3
  <2>2. /\ Kept(s) \in Context /\ Kept(s).list = gnb[s].list
        /\ Kept(s).uid = gnb[s].uid /\ Kept(s).cell = gnb[s].cell
    BY <2>1 DEF Context
  <2>3. /\ Kept(s).srb = gnb[s].srb /\ Kept(s).state = gnb[s].state
        /\ Kept(s).round = gnb[s].round
    BY <2>1 DEF Context
  <2>4. QED
    BY <2>2, <2>3 DEF Answered
<1> HIDE DEF Kept
<1>5. \A s \in Rntis : /\ gnb'[s] \in Context
                       /\ gnb'[s] = Gone
                            \/ ( /\ gnb'[s].list = gnb[s].list
                                 /\ gnb'[s].uid = gnb[s].uid /\ gnb'[s].cell = gnb[s].cell
                                 /\ Answered(gnb'[s]) = Answered(gnb[s])
                                 /\ gnb'[s].list = "none" => gnb'[s] = Gone )
  <2> SUFFICES ASSUME NEW s \in Rntis
               PROVE  /\ gnb'[s] \in Context
                      /\ gnb'[s] = Gone
                           \/ ( /\ gnb'[s].list = gnb[s].list
                                /\ gnb'[s].uid = gnb[s].uid /\ gnb'[s].cell = gnb[s].cell
                                /\ Answered(gnb'[s]) = Answered(gnb[s])
                                /\ gnb'[s].list = "none" => gnb'[s] = Gone )
    OBVIOUS
  <2>1. CASE gnb'[s] = Gone
    BY <2>1, GoneIsContext
  <2>2. CASE gnb'[s] = gnb[s]
    BY <2>2, <1>3
  <2>3. CASE gnb'[s] = Kept(s) /\ gnb[s].list # "none"
    BY <2>3, <1>4
  <2>4. gnb'[s] = Kept(s) => gnb[s].list # "none" \/ gnb'[s] = gnb[s] \/ gnb'[s] = Gone
    BY <1>3 DEF Msg3Crnti
  <2>5. QED
    BY <1>2, <2>1, <2>2, <2>3, <2>4
<1>6. DOMAIN gnb' = Rntis /\ gnb' = [s \in Rntis |-> gnb'[s]]
  BY DEF Msg3Crnti
<1>7. /\ f1' \in [Rntis -> {"none", "own", "stale"}]
      /\ \A s \in Rntis : f1'[s] = "none" <=> f1[s] = "none"
  BY DEF Msg3Crnti, Abandon, GnbInv, GnbTypeOK
<1>8. /\ cu' \in [Rntis -> {"none", "new", "reject", "served", "asked", "commanded", "unanswered"}]
      /\ \A s \in Rntis : cu'[s] = cu[s] \/ cu'[s] = "unanswered"
  BY DEF Msg3Crnti, Abandon, GnbInv, GnbTypeOK
<1>9. dl' = IF dl.rnti = r THEN [dl EXCEPT !.live = FALSE] ELSE dl
  BY DEF Msg3Crnti
<1>10. /\ dl' \in [rnti : Rntis \cup {NoRnti}, old : Rntis \cup {NoRnti}, live : BOOLEAN]
       /\ dl'.rnti = dl.rnti /\ dl'.old = dl.old /\ (dl'.live => dl.live /\ dl.rnti # r)
  BY <1>9 DEF GnbInv, GnbTypeOK
<1>11. rlc' = rlc /\ releasing' = releasing
  BY DEF Msg3Crnti
<1>12. GnbTypeOK'
  <2>1. gnb' \in [Rntis -> Context]
    BY <1>5, <1>6
  <2>2. QED
    BY <2>1, <1>5, <1>7, <1>8, <1>10, <1>11 DEF GnbInv, GnbTypeOK
<1>13. UidsDistinct' /\ UidsFit'
  <2>1. \A s \in Rntis : gnb'[s].list # "none" =>
          gnb[s].list # "none" /\ gnb'[s].uid = gnb[s].uid /\ gnb'[s].cell = gnb[s].cell
    BY <1>1, <1>5
  <2>2. \A s \in Rntis : gnb'[s].list = "none" => ~gnb'[s].cell
    BY <1>1, <1>5
  <2>3. UidsDistinct'
    BY <2>1 DEF GnbInv, UidsDistinct
  <2>4. UidsFit'
    BY <2>1, <2>2 DEF GnbInv, UidsFit
  <2>5. QED
    BY <2>3, <2>4
<1>14. ServedHaveIds'
  BY <1>7, <1>8 DEF GnbInv, ServedHaveIds
<1>14a. CallInOrder'
  <2>1. dl'.live => dl.live /\ gnb'[dl.rnti].list # "none"
    BY <1>5, <1>9, <1>10 DEF Msg3Crnti, GnbInv, GnbTypeOK, CallInOrder
  <2>2. QED
    BY <1>10, <2>1, CallKept
<1>15. AnsweredHaveIds' /\ KnownToCu'
  BY <1>1, <1>5, <1>7, <1>11 DEF GnbInv, AnsweredHaveIds, KnownToCu, Connected
<1>16. QED
  BY <1>12, <1>13, <1>14, <1>14a, <1>15 DEF GnbInv

LEMMA DlRrcFindInv ==
  ASSUME GnbInv, NEW r \in Rntis, NEW old \in Rntis \cup {NoRnti}, DlRrcFind(r, old)
  PROVE  GnbInv'
<1>1. UNCHANGED <<gnb, f1, rlc, releasing>>
  BY DEF DlRrcFind
<1>2. /\ cu' \in [Rntis -> {"none", "new", "reject", "served", "asked", "commanded", "unanswered"}]
      /\ \A s \in Rntis : cu'[s] = cu[s] \/ cu'[s] = "none"
  BY DEF DlRrcFind, GnbInv, GnbTypeOK
<1>3. \/ dl' = dl
      \/ dl' = [rnti |-> r, old |-> old, live |-> TRUE] /\ r # old /\ gnb[r].list # "none"
  BY DEF DlRrcFind
<1>4. GnbTypeOK' /\ CallInOrder'
  <2>1. /\ dl' \in [rnti : Rntis \cup {NoRnti}, old : Rntis \cup {NoRnti}, live : BOOLEAN]
        /\ CallInOrder'
    <3>1. CASE dl' = dl
      BY <1>1, <3>1 DEF GnbInv, GnbTypeOK, CallInOrder
    <3>2. CASE dl' = [rnti |-> r, old |-> old, live |-> TRUE] /\ r # old /\ gnb[r].list # "none"
      BY <1>1, <3>2 DEF CallInOrder
    <3>3. QED
      BY <1>3, <3>1, <3>2
  <2>2. QED
    BY <1>1, <1>2, <2>1 DEF GnbInv, GnbTypeOK
<1>5. ServedHaveIds'
  BY <1>1, <1>2 DEF GnbInv, ServedHaveIds
<1>6. UidsDistinct' /\ UidsFit' /\ AnsweredHaveIds' /\ KnownToCu'
  BY <1>1 DEF GnbInv, UidsDistinct, UidsFit, AnsweredHaveIds, KnownToCu, Connected
<1>7. QED
  BY <1>4, <1>5, <1>6 DEF GnbInv

LEMMA DlRrcDeliverInv ==
  ASSUME GnbInv, DlRrcDeliver
  PROVE  GnbInv'
<1> DEFINE r == dl.rnti
<1>1. CASE r = NoRnti
  \* no call is under way without its UE: the step changes nothing but the call
  <2>1. UNCHANGED <<gnb, f1, rlc, cu, releasing>> /\ dl' = NoCall
    BY <1>1 DEF DlRrcDeliver, GnbInv, GnbTypeOK
  <2>2. QED
    BY <2>1 DEF GnbInv, GnbTypeOK, NoCall, UidsDistinct, UidsFit, ServedHaveIds, AnsweredHaveIds,
                KnownToCu, Connected, CallInOrder
<1>2. CASE r \in Rntis
  <2> DEFINE srb == gnb[r].srb \/ (gnb[r].list = "access" /\ r \in rlc)
             x == [gnb[r] EXCEPT !.srb = srb]
             a == IF f1[r] = "none" THEN IF dl.live THEN "own" ELSE "stale" ELSE f1[r]
             c == IF cu[r] = "new" THEN "served" ELSE "none"
  <2>1. /\ gnb' = [gnb EXCEPT ![r] = x] /\ f1' = [f1 EXCEPT ![r] = a]
        /\ cu' = [cu EXCEPT ![r] = c] /\ dl' = NoCall
        /\ rlc' = rlc /\ releasing' = releasing
    BY <1>2 DEF DlRrcDeliver, GnbInv, GnbTypeOK
  <2>2. gnb[r] \in Context /\ (gnb[r].list = "none" => gnb[r] = Gone)
    BY <1>2 DEF GnbInv, GnbTypeOK
  <2>3. x \in Context
    <3>1. srb \in BOOLEAN
      BY <2>2 DEF Context
    <3> HIDE DEF srb
    <3>2. QED
      BY <2>2, <3>1 DEF Context
  <2>4. x.list = gnb[r].list /\ x.uid = gnb[r].uid /\ x.cell = gnb[r].cell
    BY <2>2 DEF Context
  <2>5. gnb[r].list = "none" => x = Gone
    <3> SUFFICES ASSUME gnb[r].list = "none" PROVE x = Gone
      OBVIOUS
    <3>1. gnb[r] = Gone
      BY <2>2
    <3>2. srb = FALSE
      BY <3>1 DEF Gone
    <3> HIDE DEF srb
    <3>3. x = [Gone EXCEPT !.srb = FALSE]
      BY <3>1, <3>2
    <3>4. QED
      BY <3>3, GoneIsContext DEF Gone, Context
  <2>6. a \in {"own", "stale"} /\ c \in {"served", "none"} /\ (f1[r] # "none" => a = f1[r])
    BY <1>2 DEF GnbInv, GnbTypeOK
  <2>7. x.list = "connected" => x.cell
    BY <1>2, <2>4 DEF GnbInv, KnownToCu, Connected
  <2> HIDE DEF x, a, c
  <2>8. Written(r, x)
    <3>1. CASE x.list # "none"
      BY <1>2, <2>1, <2>3, <2>4, <3>1, Update
    <3>2. CASE x.list = "none"
      BY <1>2, <2>1, <2>4, <2>5, <3>2, Remove
    <3>3. QED
      BY <3>1, <3>2
  <2>9. GnbTypeOK' /\ CallInOrder'
    <3>1. dl' \in [rnti : Rntis \cup {NoRnti}, old : Rntis \cup {NoRnti}, live : BOOLEAN]
          /\ dl'.rnti = NoRnti /\ dl'.old = NoRnti /\ ~dl'.live
      BY <2>1 DEF NoCall
    <3>2. CallInOrder'
      BY <3>1 DEF CallInOrder
    <3>3. QED
      BY <1>2, <2>1, <2>6, <2>8, <3>1, <3>2 DEF GnbInv, GnbTypeOK, Written
  <2>10. ServedHaveIds' /\ AnsweredHaveIds'
    BY <1>2, <2>1, <2>6, <2>8
    DEF GnbInv, GnbTypeOK, ServedHaveIds, AnsweredHaveIds, Written
  <2>11. KnownToCu'
    BY <1>2, <2>1, <2>6, <2>7, <2>8 DEF GnbInv, GnbTypeOK, KnownToCu, Connected, Written
  <2>12. QED
    BY <2>8, <2>9, <2>10, <2>11 DEF GnbInv, Written
<1>3. r \in Rntis \cup {NoRnti}
  BY DEF GnbInv, GnbTypeOK
<1>4. QED
  BY <1>1, <1>2, <1>3

LEMMA DlRrcReestablishInv ==
  ASSUME GnbInv, DlRrcReestablish
  PROVE  GnbInv'
<1> DEFINE r == dl.rnti
           old == dl.old
           x == [gnb[r] EXCEPT !.uid = gnb[old].uid, !.cell = gnb[old].cell, !.srb = TRUE]
<1>1. r \in Rntis /\ old \in Rntis /\ r # old /\ gnb[r].list # "none"
  BY DEF DlRrcReestablish, GnbInv, GnbTypeOK, CallInOrder
<1>2. gnb[r] \in Context /\ gnb[old] \in Context /\ gnb[old].list = "connected" /\ gnb[old].cell
  BY <1>1 DEF DlRrcReestablish, GnbInv, GnbTypeOK, KnownToCu, Connected
<1>3. x \in Context
  BY <1>2 DEF Context
<1>4. x.list = gnb[r].list /\ x.uid = gnb[old].uid /\ x.cell
  BY <1>2 DEF Context
<1>5. gnb' = [gnb EXCEPT ![old] = Gone, ![r] = x]
  BY <1>1 DEF DlRrcReestablish, GnbInv, GnbTypeOK
<1>6. /\ f1' = [f1 EXCEPT ![r] = IF f1[r] = "none" THEN "own" ELSE f1[r],
                         ![old] = IF f1[old] = "own" THEN "stale" ELSE f1[old]]
      /\ cu' = [cu EXCEPT ![r] = "served"] /\ rlc' \subseteq Rntis
      /\ dl' = NoCall /\ releasing' = releasing
  BY <1>1 DEF DlRrcReestablish, GnbInv, GnbTypeOK
<1>7. Gone.list = "none" /\ ~Gone.cell
  BY DEF Gone
<1> HIDE DEF x
<1> HIDE DEF r, old
<1>8. /\ gnb'[r] = x /\ gnb'[old] = Gone
      /\ \A s \in Rntis \ {r, old} : gnb'[s] = gnb[s]
      /\ gnb' \in [Rntis -> Context]
  BY <1>1, <1>3, <1>5, GoneIsContext DEF GnbInv, GnbTypeOK
<1>9. /\ f1'[r] # "none" /\ (f1'[old] = "none" <=> f1[old] = "none")
      /\ \A s \in Rntis \ {r, old} : f1'[s] = f1[s]
      /\ f1' \in [Rntis -> {"none", "own", "stale"}]
  BY <1>1, <1>6 DEF GnbInv, GnbTypeOK
<1>10. /\ \A s \in Rntis \ {r} : cu'[s] = cu[s]
       /\ cu' \in [Rntis -> {"none", "new", "reject", "served", "asked", "commanded", "unanswered"}]
  BY <1>1, <1>6 DEF GnbInv, GnbTypeOK
<1>11. /\ dl' \in [rnti : Rntis \cup {NoRnti}, old : Rntis \cup {NoRnti}, live : BOOLEAN]
       /\ dl'.rnti = NoRnti /\ dl'.old = NoRnti /\ ~dl'.live
  BY <1>6 DEF NoCall
<1>12. GnbTypeOK'
  <2>1. \A s \in Rntis : gnb'[s].list = "none" => gnb'[s] = Gone
    BY <1>1, <1>4, <1>8 DEF GnbInv, GnbTypeOK
  <2>2. QED
    BY <1>6, <1>8, <1>9, <1>10, <1>11, <2>1 DEF GnbInv, GnbTypeOK
<1>13. UidsDistinct' /\ UidsFit'
  <2>1. \A s \in Rntis \ {r, old} : gnb[s].list # "none" => gnb[s].uid # x.uid
    BY <1>1, <1>2, <1>4 DEF GnbInv, UidsDistinct
  <2>2. x.uid < MaxMobiles
    BY <1>1, <1>2, <1>4 DEF GnbInv, UidsFit
  <2>3. UidsDistinct'
    BY <1>1, <1>7, <1>8, <2>1 DEF GnbInv, UidsDistinct
  <2>4. UidsFit'
    BY <1>1, <1>7, <1>8, <2>2 DEF GnbInv, UidsFit
  <2>5. QED
    BY <2>3, <2>4
<1>14. ServedHaveIds' /\ AnsweredHaveIds'
  BY <1>1, <1>7, <1>8, <1>9, <1>10 DEF GnbInv, ServedHaveIds, AnsweredHaveIds
<1>15. KnownToCu' /\ CallInOrder'
  BY <1>1, <1>4, <1>6, <1>7, <1>8, <1>9, <1>11 DEF GnbInv, KnownToCu, Connected, CallInOrder
<1>16. QED
  BY <1>12, <1>13, <1>14, <1>15 DEF GnbInv

----------------------------------------------------------------------------
(* The theorems.                                                            *)

LEMMA StepInv == GnbInv /\ [GnbNext]_gnbVars => GnbInv'
<1> SUFFICES ASSUME GnbInv, [GnbNext]_gnbVars PROVE GnbInv'
  OBVIOUS
<1>1. CASE UNCHANGED gnbVars
  BY <1>1 DEF gnbVars, GnbInv, GnbTypeOK, UidsDistinct, UidsFit, ServedHaveIds, AnsweredHaveIds,
              KnownToCu, Connected, CallInOrder
<1>2. ASSUME NEW r \in Rntis, Slot(r) PROVE GnbInv'
  BY <1>2, Msg2Inv, Msg2TooLateInv, Msg3RetransmissionInv, Msg4Inv, ContentionExpiryInv,
     UlFailureTimerInv, ReleaseExpiryInv
  DEF Slot
<1>3. ASSUME NEW r \in Rntis, F1ap(r) PROVE GnbInv'
  BY <1>3, DlRrcFindInv, ReleaseCommandInv DEF F1ap
<1>4. ASSUME NEW r \in Rntis,
             \/ \E pre \in Preambles, heard \in SUBSET Ues : InitiateRa(r, pre, heard)
             \/ \E u \in Ues : Msg3Ccch(r, u)
             \/ \E c \in Rntis : Msg3Crnti(r, c)
             \/ Msg3NoIdentity(r)
      PROVE  GnbInv'
  BY <1>4, InitiateRaInv, Msg3CcchInv, Msg3CrntiInv, Msg3NoIdentityInv
<1>5. ASSUME NEW r \in Rntis, Msg3Failed(r) \/ Msg4Ack(r) \/ Msg4Nack(r) \/ UlFailure(r)
      PROVE  GnbInv'
  BY <1>5, Msg3FailedInv, Msg4AckInv, Msg4NackInv, UlFailureInv
<1>6. CASE DlRrcDeliver \/ DlRrcReestablish \/ ReleaseFinish
  BY <1>6, DlRrcDeliverInv, DlRrcReestablishInv, ReleaseFinishInv
<1>7. QED
  BY <1>1, <1>2, <1>3, <1>4, <1>5, <1>6 DEF GnbNext

(* A UE given a CellGroup has a uid of the connected list, and so has every  *)
(* UE in it; uids are distinct, so that one place is left.                   *)
LEMMA UidsLeaveAPlace == GnbInv => ConnectedFits
<1> SUFFICES ASSUME GnbInv, NEW r \in Access, gnb[r].cell
             PROVE  Cardinality(Connected) < MaxMobiles
  BY DEF ConnectedFits
<1> DEFINE Uids == 0 .. MaxMobiles - 1
           S == Connected \cup {r}
           uid == [s \in S |-> gnb[s].uid]
<1>1. r \in Rntis /\ r \notin Connected /\ Connected \subseteq Rntis /\ MaxMobiles \in Nat
  BY DEF Access, Connected
<1>2. IsFiniteSet(Connected)
  BY <1>1, FS_Subset
<1>3. IsFiniteSet(Uids) /\ Cardinality(Uids) = MaxMobiles
  <2> DEFINE n == MaxMobiles - 1
  <2>1. 0 \in Int /\ n \in Int /\ n >= 0 /\ MaxMobiles = n + 1
    BY DEF GnbAccessAssumption
  <2> HIDE DEF n
  <2>2. IsFiniteSet(0 .. n) /\ Cardinality(0 .. n) = IF 0 > n THEN 0 ELSE n - 0 + 1
    BY <2>1, FS_Interval, Zenon
  <2>3. Uids = 0 .. n
    BY DEF n
  <2> HIDE DEF Uids
  <2>4. QED
    BY <2>1, <2>2, <2>3
<1>4. \A s \in S : gnb[s].list # "none" /\ gnb[s].uid \in Uids
  <2>1. \A s \in S : s \in Rntis /\ gnb[s].list # "none" /\ gnb[s].cell
    BY <1>1 DEF GnbInv, KnownToCu, Connected, Access
  <2>2. \A s \in S : gnb[s].uid \in Nat
    BY <2>1 DEF GnbInv, GnbTypeOK, Context
  <2>3. \A s \in S : gnb[s].uid < MaxMobiles
    BY <2>1 DEF GnbInv, UidsFit
  <2>4. QED
    BY <1>1, <2>1, <2>2, <2>3
<1>5. uid \in Injection(S, Uids)
  <2>1. uid \in [S -> Uids]
    BY <1>4
  <2>2. \A s, t \in S : s # t => uid[s] # uid[t]
    BY <1>1, <1>4 DEF GnbInv, UidsDistinct, Connected
  <2>3. QED
    BY <2>1, <2>2 DEF Injection, IsInjective
<1>6. Cardinality(S) <= MaxMobiles
  BY <1>3, <1>5, FS_Injection
<1>7. Cardinality(S) = Cardinality(Connected) + 1
  BY <1>1, <1>2, FS_AddElement
<1>8. Cardinality(Connected) \in Nat
  BY <1>2, FS_CardinalityType
<1>9. QED
  BY <1>1, <1>6, <1>7, <1>8

(* The invariant holds in every behaviour of the gNB.                       *)
THEOREM GnbInvariant == GnbSpec => []GnbInv
  BY InitInv, StepInv, PTL DEF GnbSpec

(* nr_rx_ra_sdu() accepts a UE by its uid, transition_ra_connected_nr_ue()   *)
(* by the length of the list: whatever the number of places, a UE that got a *)
(* CellGroup in Msg4 finds one.                                              *)
THEOREM AcceptedUesFit == GnbSpec => []ConnectedFits
<1>1. GnbInv => ConnectedFits
  BY UidsLeaveAPlace
<1>2. QED
  BY <1>1, GnbInvariant, PTL

(* The CU's id is stored before the Msg4 that carries its answer: a UE in the *)
(* connected list is known to the CU until its release is reported.           *)
THEOREM ConnectedUesAreKnown == GnbSpec => []KnownToCu
<1>1. GnbInv => KnownToCu
  BY DEF GnbInv
<1>2. QED
  BY <1>1, GnbInvariant, PTL

(* Types: what is kept for an RNTI is in range, and a context deleted leaves  *)
(* nothing behind for the next UE with the RNTI.                              *)
THEOREM ContextsAreTyped == GnbSpec => []GnbTypeOK
<1>1. GnbInv => GnbTypeOK
  BY DEF GnbInv
<1>2. QED
  BY <1>1, GnbInvariant, PTL

----------------------------------------------------------------------------
(* The composition.                                                         *)

USE UeAccessAssumption

----------------------------------------------------------------------------
(* The UEs stay typed.                                                      *)

LEMMA NoPduTyped ==
  NoPdu \in [kind : {"none", "RAR", "Msg4"}, rnti : Rntis \cup {0},
             pre : Preambles \cup {0}, id : Ues \cup {NoUe}]
  BY DEF NoPdu

(* A UE takes a new state, and its PDU stays or is used up.                 *)
LEMMA Becomes ==
  ASSUME UeTypeOK, NEW u \in Ues, NEW s \in UeState, Become(u, s),
         rx' = rx \/ rx' = [rx EXCEPT ![u] = NoPdu]
  PROVE  UeTypeOK'
<1>1. ue' \in [Ues -> UeState]
  BY DEF Become, UeTypeOK
<1>2. rx' \in [Ues -> [kind : {"none", "RAR", "Msg4"}, rnti : Rntis \cup {0},
                       pre : Preambles \cup {0}, id : Ues \cup {NoUe}]]
  BY NoPduTyped DEF UeTypeOK
<1>3. QED
  BY <1>1, <1>2 DEF UeTypeOK

LEMMA ResetTyped ==
  ASSUME NEW c \in Rntis \cup {0}, NEW st \in {"NOT_SYNC", "PERFORMING_RA", "CONNECTED"}
  PROVE  Reset(c, st) \in UeState
  BY DEF Reset, UeState

LEMMA CountedTyped ==
  ASSUME NEW s \in UeState
  PROVE  /\ Counted(s) \in UeState /\ Exhausted(s) \in BOOLEAN
         /\ Counted(s).told = s.told
<1> DEFINE n == IF s.tx <= TransMax + 1 THEN s.tx + 1 ELSE s.tx
<1>1. n \in 0 .. TransMax + 2
  BY DEF UeState, UeAccessAssumption
<1>2. Counted(s) = [s EXCEPT !.tx = n]
  BY DEF Counted
<1> HIDE DEF n
<1>3. QED
  BY <1>1, <1>2 DEF UeState, Exhausted

LEMMA FailedTyped ==
  ASSUME NEW s \in UeState
  PROVE  Failed(s) \in UeState
<1> DEFINE t == Counted(s)
<1>1. t \in UeState
  BY CountedTyped
<1> HIDE DEF t
<1> DEFINE f == [t EXCEPT !.tcrnti = 0, !.contention = FALSE, !.cached = FALSE]
<1>2. f \in UeState
  BY <1>1 DEF UeState
<1>3. Failed(s) = IF Exhausted(s) THEN [f EXCEPT !.told = TRUE] ELSE [f EXCEPT !.backoff = TRUE]
  BY DEF Failed, t
<1> HIDE DEF f
<1>4. [f EXCEPT !.told = TRUE] \in UeState /\ [f EXCEPT !.backoff = TRUE] \in UeState
  BY <1>2 DEF UeState
<1>5. QED
  BY <1>3, <1>4

LEMMA SucceededTyped ==
  ASSUME NEW s \in UeState
  PROVE  Succeeded(s) \in UeState
  BY DEF Succeeded, UeState

LEMMA UeAloneTyped ==
  ASSUME UeTypeOK, NEW u \in Ues,
         \/ StartRa(u) \/ InitRa(u) \/ WindowExpiry(u) \/ ResolutionExpiry(u)
         \/ BackoffExpiry(u) \/ FlushGrant(u) \/ TriggerRa(u)
  PROVE  UeTypeOK'
<1>1. ue[u] \in UeState
  BY DEF UeTypeOK
<1>2. CASE StartRa(u)
  <2>1. [ue[u] EXCEPT !.state = "PERFORMING_RA"] \in UeState
    BY <1>1 DEF UeState
  <2>2. QED
    BY <1>2, <2>1, Becomes DEF StartRa
<1>3. CASE InitRa(u)
  <2>1. [ue[u] EXCEPT !.ra = "GENERATE_PREAMBLE", !.tx = 1, !.cached = FALSE] \in UeState
    <3>1. 1 \in 0 .. TransMax + 2
      BY DEF UeAccessAssumption
    <3>2. QED
      BY <1>1, <3>1 DEF UeState
  <2>2. QED
    BY <1>3, <2>1, Becomes DEF InitRa
<1>4. CASE WindowExpiry(u)
  <2> DEFINE t == Counted(ue[u])
             told == t.told \/ Exhausted(ue[u])
  <2>1. t \in UeState
    BY <1>1, CountedTyped
  <2>2. told \in BOOLEAN
    BY <1>1, <2>1, CountedTyped DEF UeState
  <2>3. Become(u, [t EXCEPT !.window = "off", !.backoff = TRUE, !.told = told]) /\ rx' = rx
    BY <1>4 DEF WindowExpiry
  <2> HIDE DEF told, t
  <2>4. [t EXCEPT !.window = "off", !.backoff = TRUE, !.told = told] \in UeState
    BY <2>1, <2>2 DEF UeState
  <2>5. QED
    BY <2>3, <2>4, Becomes
<1>5. CASE ResolutionExpiry(u)
  BY <1>1, <1>5, FailedTyped, Becomes DEF ResolutionExpiry
<1>6. CASE BackoffExpiry(u)
  <2>1. [ue[u] EXCEPT !.backoff = FALSE, !.ra = "GENERATE_PREAMBLE"] \in UeState
    BY <1>1 DEF UeState
  <2>2. QED
    BY <1>6, <2>1, Becomes DEF BackoffExpiry
<1>7. CASE FlushGrant(u)
  <2>1. [ue[u] EXCEPT !.grant = 0] \in UeState
    BY <1>1 DEF UeState
  <2>2. QED
    BY <1>7, <2>1, Becomes DEF FlushGrant
<1>8. CASE TriggerRa(u)
  <2> DEFINE t == Reset(ue[u].crnti, "PERFORMING_RA")
  <2>1. t \in UeState
    BY <1>1, ResetTyped DEF UeState
  <2>2. Become(u, [t EXCEPT !.ce = TRUE]) /\ rx' = rx
    BY <1>8 DEF TriggerRa
  <2> HIDE DEF t
  <2>3. [t EXCEPT !.ce = TRUE] \in UeState
    BY <2>1 DEF UeState
  <2>4. QED
    BY <2>2, <2>3, Becomes
<1>9. QED
  BY <1>2, <1>3, <1>4, <1>5, <1>6, <1>7, <1>8

LEMMA RrcResetTyped ==
  ASSUME UeTypeOK, NEW u \in Ues, NEW cause, RrcReset(u, cause)
  PROVE  UeTypeOK'
<1>1. ue[u] \in UeState
  BY DEF UeTypeOK
<1> DEFINE st == IF cause = "T300_EXPIRY" THEN "PERFORMING_RA" ELSE "NOT_SYNC"
           ce == /\ ue[u].ce /\ cause # "GO_TO_IDLE"
                 /\ cause = "RE_ESTABLISHMENT" => ~Active(u)
           pre == IF cause = "RE_ESTABLISHMENT" THEN ue[u].pre ELSE 0
           t == Reset(ue[u].crnti, st)
<1>2. ce \in BOOLEAN /\ pre \in Preambles \cup {0}
  BY <1>1 DEF UeState
<1>3. t \in UeState
  BY <1>1, ResetTyped DEF UeState
<1>4. Become(u, [t EXCEPT !.ce = ce, !.pre = pre]) /\ rx' = rx
  BY DEF RrcReset
<1> HIDE DEF ce, pre, t
<1>5. [t EXCEPT !.ce = ce, !.pre = pre] \in UeState
  BY <1>2, <1>3 DEF UeState
<1>6. QED
  BY <1>4, <1>5, Becomes

LEMMA ProcessRarTyped ==
  ASSUME UeTypeOK, NEW u \in Ues, NEW outcome \in RarOutcomes, ProcessRar(u, outcome)
  PROVE  UeTypeOK'
<1>1. ue[u] \in UeState /\ rx[u].rnti \in Rntis \cup {0}
  BY DEF UeTypeOK
<1> DEFINE r == IF outcome = "unscheduled" THEN 0 ELSE rx[u].rnti
           g == IF outcome = "filed" THEN rx[u].rnti ELSE 0
           w == Toggled(ue[u].window)
<1>2. r \in Rntis \cup {0} /\ g \in Rntis \cup {0}
  BY <1>1
<1>2a. w \in {"off", "on", "suspended"}
  BY <1>1 DEF UeState, Toggled
<1> HIDE DEF r, g, w
<1>3. [ue[u] EXCEPT !.tcrnti = 0, !.window = w] \in UeState
  BY <1>1, <1>2a DEF UeState
<1>4. [ue[u] EXCEPT !.window = "off", !.tcrnti = r, !.grant = g] \in UeState
  BY <1>1, <1>2 DEF UeState
<1>5. \/ Become(u, [ue[u] EXCEPT !.tcrnti = 0, !.window = w])
      \/ Become(u, [ue[u] EXCEPT !.window = "off", !.tcrnti = r, !.grant = g])
  BY DEF ProcessRar, r, g, w
<1>6. QED
  BY <1>3, <1>4, <1>5, Becomes DEF ProcessRar

LEMMA UseGrantTyped ==
  ASSUME UeTypeOK, NEW u \in Ues, UseGrant(u)
  PROVE  UeTypeOK'
<1>1. ue[u] \in UeState
  BY DEF UeTypeOK
<1> DEFINE t == IF ue[u].ra = "WAIT_RAR" /\ ue[u].ce /\ ~ue[u].cached
                  THEN ue[u].crnti ELSE ue[u].tcrnti
           k == ue[u].cached \/ ue[u].ra = "WAIT_RAR"
           c == ue[u].contention \/ Sends(u)
           ra == IF Sends(u) THEN "WAIT_CR" ELSE ue[u].ra
           s == [ue[u] EXCEPT !.grant = 0, !.tcrnti = t, !.cached = k, !.contention = c,
                              !.ra = ra]
<1>2. t \in Rntis \cup {0} /\ k \in BOOLEAN /\ c \in BOOLEAN
  BY <1>1 DEF UeState
<1>3. ra \in {"IDLE", "GENERATE_PREAMBLE", "WAIT_RAR", "WAIT_CR", "SUCCEEDED"}
  BY <1>1 DEF UeState
<1>4. Become(u, s) /\ rx' = rx
  BY DEF UseGrant
<1> HIDE DEF t, k, c, ra
<1>5. s \in UeState
  BY <1>1, <1>2, <1>3 DEF UeState
<1> HIDE DEF s
<1>6. QED
  BY <1>4, <1>5, Becomes

LEMMA ProcessMsg4Typed ==
  ASSUME UeTypeOK, NEW u \in Ues, ProcessMsg4(u)
  PROVE  UeTypeOK'
<1>1. ue[u] \in UeState
  BY DEF UeTypeOK
<1>2. Failed(ue[u]) \in UeState /\ Succeeded(ue[u]) \in UeState
  BY <1>1, FailedTyped, SucceededTyped
<1>3. Become(u, ue[u]) \/ Become(u, Failed(ue[u])) \/ Become(u, Succeeded(ue[u]))
  BY DEF ProcessMsg4
<1>4. QED
  BY <1>1, <1>2, <1>3, Becomes DEF ProcessMsg4

LEMMA PrachTyped ==
  ASSUME UeTypeOK, NEW us \in SUBSET Ues, NEW sent \in [us -> Preambles], Prach(sent)
  PROVE  UeTypeOK'
<1>1. ASSUME NEW u \in Ues, NEW p \in Preambles
      PROVE  [ue[u] EXCEPT !.ra = "WAIT_RAR", !.pre = p, !.window = "on"] \in UeState
  <2>1. ue[u] \in UeState
    BY DEF UeTypeOK
  <2>2. QED
    BY <2>1 DEF UeState
<1>2. \A u \in Ues : ue[u] \in UeState
  BY DEF UeTypeOK
<1>3. ue' \in [Ues -> UeState]
  BY <1>1, <1>2 DEF Prach
<1>4. QED
  BY <1>3 DEF Prach, UeTypeOK

LEMMA AnnounceTyped ==
  ASSUME UeTypeOK, NEW us \in SUBSET Ues,
         NEW pdu \in [kind : {"none", "RAR", "Msg4"}, rnti : Rntis \cup {0},
                      pre : Preambles \cup {0}, id : Ues \cup {NoUe}],
         Announce(us, pdu)
  PROVE  UeTypeOK'
  BY DEF Announce, UeTypeOK

LEMMA Msg3GrantedTyped ==
  ASSUME UeTypeOK, NEW us \in SUBSET Ues, NEW r \in Rntis, Msg3Granted(us, r)
  PROVE  UeTypeOK'
<1>1. \A u \in Ues : ue[u] \in UeState
  BY DEF UeTypeOK
<1>2. \A u \in Ues : [ue[u] EXCEPT !.grant = r] \in UeState
  BY <1>1 DEF UeState
<1>3. ue' \in [Ues -> UeState]
  BY <1>1, <1>2 DEF Msg3Granted
<1>4. QED
  BY <1>3 DEF Msg3Granted, UeTypeOK
----------------------------------------------------------------------------
(* A step of the composition is a step of the gNB or none of its.           *)

AirTyped ==
  /\ prach \subseteq [pre : Preambles, at : SUBSET Ues]
  /\ msg3 \in [Rntis -> SUBSET [ue : Ues, ce : BOOLEAN, crnti : Rntis \cup {0}]]
  /\ acks \in [Rntis -> SUBSET Ues]
Typed == UeTypeOK /\ AirTyped /\ quota \in Quota

LEMMA LosesTyped ==
  ASSUME quota \in Quota, NEW something \in BOOLEAN, Loses(something)
  PROVE  quota' \in Quota
  BY DEF Loses, Spend, Quota

LEMMA SpendTyped ==
  ASSUME quota \in Quota,
         NEW f \in {"processes", "occasions", "losses", "reestablishments", "resets",
                    "triggers", "expiries", "failures", "releases"},
         Spend(f)
  PROVE  quota' \in Quota
  BY DEF Spend, Quota

(* The steps of the UEs: the gNB does nothing, and what they send is typed. *)
LEMMA UeStep ==
  ASSUME Typed, NEW u \in Ues, UeNext(u)
  PROVE  Typed' /\ UNCHANGED gnbVars
<1> USE DEF Typed
<1>1. CASE Start(u) \/ Prepare(u) \/ Backoff(u)
  BY <1>1, UeAloneTyped DEF Start, Prepare, Backoff, Alone, airVars, AirTyped
<1>2. CASE Waits(u)
  <2>1. UeTypeOK' /\ UNCHANGED gnbVars /\ AirTyped'
    BY <1>2, UeAloneTyped DEF Waits, airVars, AirTyped
  <2>2. quota' \in Quota
    BY <1>2, LosesTyped DEF Waits, Expects
  <2>3. QED
    BY <2>1, <2>2
<1>3. CASE Response(u)
  BY <1>3, ProcessRarTyped DEF Response, Alone, airVars, AirTyped
<1>4. CASE Msg3Slot(u)
  <2>1. ue[u] \in UeState
    BY DEF UeTypeOK
  <2>2. Msg3(u) \in [ue : Ues, ce : BOOLEAN, crnti : Rntis \cup {0}]
    BY <2>1 DEF Msg3, UeState
  <2>3. AirTyped'
    BY <1>4, <2>2 DEF Msg3Slot, AirTyped
  <2>4. QED
    BY <1>4, <2>3, UseGrantTyped DEF Msg3Slot
<1>5. CASE Resolution(u)
  <2>1. AirTyped'
    BY <1>5 DEF Resolution, AirTyped
  <2>2. QED
    BY <1>5, <2>1, ProcessMsg4Typed DEF Resolution
<1>6. CASE Flush(u) \/ Trigger(u)
  BY <1>6, UeAloneTyped, SpendTyped DEF Flush, Trigger, airVars, AirTyped
<1>7. ASSUME NEW cause \in {"GO_TO_IDLE", "T300_EXPIRY", "RE_ESTABLISHMENT"}, Interrupt(u, cause)
      PROVE  Typed' /\ UNCHANGED gnbVars
  <2>1. Spend("reestablishments") \/ Spend("resets")
    BY <1>7 DEF Interrupt
  <2>2. QED
    BY <1>7, <2>1, RrcResetTyped, SpendTyped DEF Interrupt, airVars, AirTyped
<1>8. QED
  BY <1>1, <1>2, <1>3, <1>4, <1>5, <1>6, <1>7 DEF UeNext

LEMMA PrachStep ==
  ASSUME Typed, PrachOccasion
  PROVE  Typed' /\ UNCHANGED gnbVars
<1> DEFINE us == {u \in Ues : HasPreamble(u)}
<1>1. PICK sent \in [us -> Preambles] :
        Prach(sent) /\ prach' = {[pre |-> sent[u], at |-> us] : u \in us}
  BY DEF PrachOccasion
<1>2. UNCHANGED <<gnbVars, msg3, acks>> /\ Spend("occasions")
  BY DEF PrachOccasion
<1>3. prach' \subseteq [pre : Preambles, at : SUBSET Ues]
  BY <1>1
<1>4. us \subseteq Ues
  OBVIOUS
<1> HIDE DEF us
<1>5. UeTypeOK'
  BY <1>1, <1>4, PrachTyped DEF Typed
<1>6. QED
  BY <1>2, <1>3, <1>5, SpendTyped DEF Typed, AirTyped

LEMMA MissedStep ==
  ASSUME Typed, NEW p \in prach, Missed(p)
  PROVE  Typed' /\ UNCHANGED gnbVars
<1>1. quota' \in Quota
  BY LosesTyped DEF Missed, Typed
<1>2. UeTypeOK' /\ AirTyped'
  BY DEF Missed, Typed, AirTyped, UeTypeOK, ueVars
<1>3. QED
  BY <1>1, <1>2 DEF Missed, Typed

(* The steps of the gNB for one RNTI.                                       *)
LEMMA GnbStep ==
  ASSUME Typed, GnbInv, NEW r \in Rntis, AccessNext(r)
  PROVE  Typed' /\ GnbNext
<1>1. ASSUME NEW p \in prach, Detected(p, r) PROVE Typed' /\ GnbNext
  <2>1. p.pre \in Preambles /\ p.at \in SUBSET Ues
    BY DEF Typed, AirTyped
  <2>2. GnbNext
    BY <1>1, <2>1 DEF Detected, GnbNext
  <2>3. UeTypeOK' /\ AirTyped'
    BY <1>1 DEF Detected, Typed, AirTyped, UeTypeOK, ueVars
  <2>4. QED
    BY <1>1, <2>2, <2>3 DEF Detected, Typed
<1>2. gnb[r] \in Context
  BY DEF GnbInv, GnbTypeOK
<1>3. CASE SendRar(r)
  <2>1. PICK us \in SUBSET Ues :
          Hear({u \in gnb[r].heard : HearsRar(u)}, us) /\ Announce(us, Rar(r, gnb[r].pre))
    BY <1>3 DEF SendRar
  <2>2. Rar(r, gnb[r].pre) \in [kind : {"none", "RAR", "Msg4"}, rnti : Rntis \cup {0},
                                pre : Preambles \cup {0}, id : Ues \cup {NoUe}]
    BY <1>2, NoPduTyped DEF Rar, Context
  <2>3. UeTypeOK' /\ quota' \in Quota
    BY <2>1, <2>2, AnnounceTyped, LosesTyped DEF Hear, Typed
  <2>4. QED
    BY <1>3, <2>3 DEF SendRar, airVars, Typed, AirTyped, GnbNext, Slot
<1>4. CASE GrantMsg3(r)
  <2>1. PICK us \in SUBSET Ues : Hear(Listeners(r), us) /\ Msg3Granted(us, r)
    BY <1>4 DEF GrantMsg3
  <2>2. UeTypeOK' /\ quota' \in Quota
    BY <2>1, Msg3GrantedTyped, LosesTyped DEF Hear, Typed
  <2>3. QED
    BY <1>4, <2>2 DEF GrantMsg3, airVars, Typed, AirTyped, GnbNext, Slot
<1>5. CASE SendMsg4(r)
  <2>1. PICK us \in SUBSET Ues :
          Hear(Listeners(r), us) /\ Announce(us, ConRes(r, gnb[r].owner))
    BY <1>5 DEF SendMsg4
  <2>2. ConRes(r, gnb[r].owner) \in [kind : {"none", "RAR", "Msg4"}, rnti : Rntis \cup {0},
                                     pre : Preambles \cup {0}, id : Ues \cup {NoUe}]
    BY <1>2, NoPduTyped DEF ConRes, Context
  <2>3. UeTypeOK' /\ quota' \in Quota
    BY <2>1, <2>2, AnnounceTyped, LosesTyped DEF Hear, Typed
  <2>4. QED
    BY <1>5, <2>3 DEF SendMsg4, airVars, Typed, AirTyped, GnbNext, Slot
<1>6. CASE Msg3Report(r)
  <2>1. msg3[r] \subseteq [ue : Ues, ce : BOOLEAN, crnti : Rntis \cup {0}]
    BY DEF Typed, AirTyped
  <2>2. GnbNext
    <3>1. ASSUME NEW m \in msg3[r],
                 \/ Msg3Ccch(r, m.ue)
                 \/ Msg3NoIdentity(r)
                 \/ m.crnti # NoRnti /\ Msg3Crnti(r, m.crnti)
          PROVE  GnbNext
      <4>1. m.ue \in Ues /\ m.crnti \in Rntis \cup {NoRnti}
        BY <2>1 DEF NoRnti
      <4>2. QED
        BY <3>1, <4>1 DEF GnbNext
    <3>2. CASE Msg3Failed(r)
      BY <3>2 DEF GnbNext
    <3>3. QED
      BY <1>6, <3>1, <3>2 DEF Msg3Report
  <2>3. quota' \in Quota
    BY <1>6, LosesTyped DEF Msg3Report, Typed
  <2>4. UeTypeOK' /\ AirTyped'
    BY <1>6 DEF Msg3Report, Typed, AirTyped, UeTypeOK, ueVars
  <2>5. QED
    BY <2>2, <2>3, <2>4 DEF Typed
<1>7. CASE Msg4Report(r)
  <2>1. quota' \in Quota
    BY <1>7, LosesTyped DEF Msg4Report, Typed
  <2>2. UeTypeOK' /\ AirTyped'
    BY <1>7 DEF Msg4Report, Typed, AirTyped, UeTypeOK, ueVars
  <2>3. QED
    BY <1>7, <2>1, <2>2 DEF Msg4Report, Typed, GnbNext
<1>8. CASE LosesUplink(r)
  <2>1. quota' \in Quota
    BY <1>8, SpendTyped DEF LosesUplink, Typed
  <2>2. QED
    BY <1>8, <2>1 DEF LosesUplink, Typed, AirTyped, airVars, UeTypeOK, ueVars, GnbNext
<1>9. CASE SlotLoopOnly(r)
  <2>1. UeTypeOK' /\ AirTyped' /\ quota' = quota
    BY <1>9 DEF SlotLoopOnly, Typed, AirTyped, UeTypeOK, ueVars
  <2>2. QED
    BY <1>9, <2>1 DEF SlotLoopOnly, Typed, GnbNext, Slot
<1>10. ASSUME NEW old \in Rntis \cup {NoRnti}, Answer(r, old) PROVE Typed' /\ GnbNext
  BY <1>10 DEF Answer, Typed, AirTyped, airVars, UeTypeOK, ueVars, GnbNext, F1ap
<1>11. ASSUME NEW container \in BOOLEAN, Command(r, container) PROVE Typed' /\ GnbNext
  <2>1. quota' \in Quota
    BY <1>11, SpendTyped DEF Command, Typed
  <2>2. QED
    BY <1>11, <2>1 DEF Command, Typed, AirTyped, airVars, UeTypeOK, ueVars, GnbNext, F1ap
<1>12. QED
  BY <1>1, <1>3, <1>4, <1>5, <1>6, <1>7, <1>8, <1>9, <1>10, <1>11 DEF AccessNext

(* A step of the composition is one of the gNB alone, or none of it.         *)
LEMMA StepRefines == Typed /\ GnbInv /\ [Next]_vars => Typed' /\ [GnbNext]_gnbVars
<1> SUFFICES ASSUME Typed, GnbInv, [Next]_vars PROVE Typed' /\ [GnbNext]_gnbVars
  OBVIOUS
<1>1. CASE UNCHANGED vars
  BY <1>1 DEF vars, ueVars, airVars, Typed, AirTyped, UeTypeOK
<1>2. CASE \E u \in Ues : UeNext(u)
  BY <1>2, UeStep
<1>3. CASE PrachOccasion \/ \E p \in prach : Missed(p)
  BY <1>3, PrachStep, MissedStep
<1>4. CASE \E r \in Rntis : AccessNext(r)
  BY <1>4, GnbStep
<1>5. CASE Deliver \/ ReleaseEnds
  BY <1>5 DEF Deliver, ReleaseEnds, Typed, AirTyped, airVars, UeTypeOK, ueVars, GnbNext
<1>6. QED
  BY <1>1, <1>2, <1>3, <1>4, <1>5 DEF Next

(* Both ends start well typed.                                               *)
LEMMA InitTyped == Init => Typed
<1> SUFFICES ASSUME Init PROVE Typed
  OBVIOUS
<1>1. UeTypeOK
  BY ResetTyped, NoPduTyped DEF Init, UeInit, UeTypeOK
<1>2. AirTyped
  BY DEF Init, AirTyped
<1>3. quota \in Quota
  BY RandomAccessAssumption DEF Init, RandomAccessAssumption
<1>4. QED
  BY <1>1, <1>2, <1>3 DEF Typed

----------------------------------------------------------------------------
(* The theorems.                                                            *)

LEMMA CompositionInvariant == Spec => [](Typed /\ GnbInv)
<1>1. Init => Typed /\ GnbInv
  BY InitTyped, InitInv DEF Init
<1>2. Typed /\ GnbInv /\ [Next]_vars => Typed' /\ GnbInv'
  BY StepRefines, StepInv
<1>3. QED
  BY <1>1, <1>2, PTL DEF Spec

(* The UEs and the link only choose among what the gNB alone may do: every   *)
(* behaviour of the composition is one of the gNB.                           *)
THEOREM CompositionRefinesGnb == Spec => GnbSpec
<1>1. Init => GnbInit
  BY DEF Init
<1>2. Typed /\ GnbInv /\ [Next]_vars => [GnbNext]_gnbVars
  BY StepRefines
<1>3. QED
  BY <1>1, <1>2, CompositionInvariant, PTL DEF Spec, GnbSpec

(* Types of both ends and of what is on the air, for any UEs and any losses. *)
THEOREM TypesOfBothEnds == Spec => []TypeOK
<1>1. Typed /\ GnbInv => TypeOK
  BY DEF Typed, AirTyped, GnbInv, TypeOK
<1>2. QED
  BY <1>1, CompositionInvariant, PTL

(* A UE accepted in Msg3 finds a place in the connected list, however many   *)
(* UEs contend and whatever is lost.                                         *)
THEOREM AcceptedUesAreConnected == Spec => []ConnectedFits
<1>1. QED
  BY CompositionRefinesGnb, AcceptedUesFit, PTL

(* The CU knows every connected UE, however its messages and the release     *)
(* race with the slot loop.                                                  *)
THEOREM ConnectedUesKnownToCu == Spec => []KnownToCu
<1>1. QED
  BY CompositionRefinesGnb, ConnectedUesAreKnown, PTL
----------------------------------------------------------------------------
(* Who wins the contention.                                                 *)

\* A UE with a grant has the Temporary C-RNTI of the grant, or none any more.
GrantsFit == \A u \in Ues : ue[u].grant # 0 => ue[u].tcrnti \in {0, ue[u].grant}

\* Once Msg3 has come, nobody holds a grant for it or will be given one.
Msg3Came(x) == x.list = "access" /\ x.state \in {"Msg4", "WAIT_ACK"}
GrantsUsedUp ==
  \A r \in Rntis, u \in Ues :
    Msg3Came(gnb[r]) => ue[u].grant # r /\ (rx[u].kind = "RAR" => rx[u].rnti # r)

\* While a UE decodes its Msg4 it still has that Temporary C-RNTI, unless the contention
\* ended meanwhile, and the context with it is still of the UE the Msg4 names, or gone.
Msg4Fits ==
  \A u \in Ues : rx[u].kind = "Msg4" =>
    /\ rx[u].rnti \in Rntis /\ ue[u].grant = 0
    /\ ue[u].tcrnti = rx[u].rnti \/ (ue[u].tcrnti = 0 /\ ~ue[u].contention)
    /\ gnb[rx[u].rnti].list = "none" \/ gnb[rx[u].rnti].owner = rx[u].id

RaInv == GrantsFit /\ GrantsUsedUp /\ Msg4Fits

(* A context goes, or stays with its UE; Msg3 came before if it has come now. *)
Followed(r) ==
  \/ gnb'[r].list = "none"
  \/ /\ gnb[r].list # "none" /\ gnb'[r].owner = gnb[r].owner
     /\ Msg3Came(gnb'[r]) => Msg3Came(gnb[r])

(* A grant goes, or comes from a RAR; a Msg4 that stays finds the Temporary   *)
(* C-RNTI it was sent with, or the contention ended.                         *)
UeKeeps(u) ==
  /\ ue'[u].grant # 0 => ue'[u].tcrnti \in {0, ue'[u].grant}
  /\ ue'[u].grant \in {0, ue[u].grant} \/ (rx[u].kind = "RAR" /\ ue'[u].grant = rx[u].rnti)
  /\ rx'[u] \in {rx[u], NoPdu}
  /\ rx'[u].kind = "Msg4" =>
       /\ ue[u].grant = 0 => ue'[u].grant = 0
       /\ \/ ue'[u].tcrnti = ue[u].tcrnti /\ ue'[u].contention = ue[u].contention
          \/ ue'[u].tcrnti = 0 /\ ~ue'[u].contention

(* Contexts that are followed, and UEs that keep to what they were sent.      *)
LEMMA InvKept ==
  ASSUME RaInv, \A r \in Rntis : Followed(r) \/ (Quiet(r) /\ UNCHANGED ueVars),
         \A u \in Ues : UeKeeps(u)
  PROVE  RaInv'
<1>1. GrantsFit' BY DEF GrantsFit, UeKeeps
<1>2. GrantsUsedUp'
  <2> SUFFICES ASSUME NEW r \in Rntis, NEW u \in Ues, Msg3Came(gnb'[r])
               PROVE  ue'[u].grant # r /\ (rx'[u].kind = "RAR" => rx'[u].rnti # r)
    BY DEF GrantsUsedUp
  <2>1. CASE Quiet(r) /\ UNCHANGED ueVars BY <2>1 DEF Quiet, ueVars
  <2>2. CASE Followed(r)
    <3>1. Msg3Came(gnb[r]) BY <2>2 DEF Followed, Msg3Came
    <3>2. ue[u].grant # r /\ (rx[u].kind = "RAR" => rx[u].rnti # r)
      BY <3>1 DEF RaInv, GrantsUsedUp
    <3>3. r # 0 OBVIOUS
    <3>4. rx'[u] \in {rx[u], NoPdu} BY DEF UeKeeps
    <3>5. NoPdu.kind # "RAR" BY DEF NoPdu
    <3> QED BY <3>2, <3>3, <3>4, <3>5 DEF UeKeeps
  <2> QED BY <2>1, <2>2
<1>3. Msg4Fits'
  <2> SUFFICES ASSUME NEW u \in Ues, rx'[u].kind = "Msg4"
               PROVE  /\ rx'[u].rnti \in Rntis /\ ue'[u].grant = 0
                      /\ \/ ue'[u].tcrnti = rx'[u].rnti
                         \/ ue'[u].tcrnti = 0 /\ ~ue'[u].contention
                      /\ \/ gnb'[rx'[u].rnti].list = "none"
                         \/ gnb'[rx'[u].rnti].owner = rx'[u].id
    BY DEF Msg4Fits
  <2>1. rx'[u] = rx[u] BY DEF UeKeeps, NoPdu
  <2>2. /\ rx[u].rnti \in Rntis /\ ue[u].grant = 0
        /\ ue[u].tcrnti = rx[u].rnti \/ (ue[u].tcrnti = 0 /\ ~ue[u].contention)
        /\ gnb[rx[u].rnti].list = "none" \/ gnb[rx[u].rnti].owner = rx[u].id
    BY <2>1 DEF RaInv, Msg4Fits
  <2>3. ue'[u].grant = 0 BY <2>2 DEF UeKeeps
  <2>4. ue'[u].tcrnti = rx[u].rnti \/ (ue'[u].tcrnti = 0 /\ ~ue'[u].contention)
    BY <2>2 DEF UeKeeps
  <2>5. Followed(rx[u].rnti) BY <2>2 DEF Quiet
  <2> QED BY <2>1, <2>2, <2>3, <2>4, <2>5 DEF Followed
<1> QED BY <1>1, <1>2, <1>3 DEF RaInv

(* Contexts that stay as they are.                                           *)
LEMMA SameContexts ==
  ASSUME UNCHANGED gnb
  PROVE  \A r \in Rntis : Followed(r)
BY DEF Followed

(* UEs that stay as they are.                                                *)
LEMMA SameUes ==
  ASSUME RaInv, UNCHANGED ueVars
  PROVE  \A u \in Ues : UeKeeps(u)
BY DEF UeKeeps, RaInv, GrantsFit, ueVars

(* UE u becomes s, and no other UE changes.                                  *)
LEMMA OneUe ==
  ASSUME RaInv, UeTypeOK, UNCHANGED gnbVars, NEW u \in Ues, NEW s, Become(u, s),
         rx' = rx \/ rx' = [rx EXCEPT ![u] = NoPdu],
         s.grant # 0 => s.tcrnti \in {0, s.grant},
         s.grant \in {0, ue[u].grant} \/ (rx[u].kind = "RAR" /\ s.grant = rx[u].rnti),
         rx'[u].kind = "Msg4" =>
           /\ ue[u].grant = 0 => s.grant = 0
           /\ \/ s.tcrnti = ue[u].tcrnti /\ s.contention = ue[u].contention
              \/ s.tcrnti = 0 /\ ~s.contention
  PROVE  RaInv'
<1>1. ue'[u] = s /\ \A v \in Ues \ {u} : ue'[v] = ue[v] BY DEF Become, UeTypeOK
<1>2. rx'[u] \in {rx[u], NoPdu} /\ \A v \in Ues \ {u} : rx'[v] = rx[v] BY DEF UeTypeOK
<1>3. UeKeeps(u) BY <1>1, <1>2 DEF UeKeeps
<1>4. \A v \in Ues \ {u} : UeKeeps(v) BY <1>1, <1>2 DEF UeKeeps, RaInv, GrantsFit
<1>5. \A v \in Ues : UeKeeps(v) BY <1>3, <1>4
<1>6. \A r \in Rntis : Followed(r) BY SameContexts DEF gnbVars
<1> QED BY <1>5, <1>6, InvKept

(* A UE that keeps its grant, its Temporary C-RNTI and the contention, or gives them up. *)
LEMMA SameAccess ==
  ASSUME RaInv, UeTypeOK, UNCHANGED gnbVars, NEW u \in Ues, NEW s, Become(u, s),
         rx' = rx \/ rx' = [rx EXCEPT ![u] = NoPdu],
         s.grant \in {0, ue[u].grant},
         \/ s.tcrnti = ue[u].tcrnti /\ s.contention = ue[u].contention
         \/ s.tcrnti = 0 /\ ~s.contention
  PROVE  RaInv'
<1>1. s.grant # 0 => s.tcrnti \in {0, s.grant} BY DEF RaInv, GrantsFit
<1> QED BY <1>1, OneUe

(* What a failed contention leaves.                                          *)
LEMMA FailedFacts ==
  ASSUME NEW s \in UeState
  PROVE  /\ Failed(s).grant = s.grant /\ Failed(s).tcrnti = 0 /\ ~Failed(s).contention
         /\ Failed(s).state = s.state
<1>1. Counted(s).grant = s.grant /\ Counted(s).state = s.state BY DEF Counted, UeState
<1> DEFINE t == Counted(s)
<1>2. t \in UeState /\ t.grant = s.grant /\ t.state = s.state BY <1>1, CountedTyped
<1> HIDE DEF t
<1> DEFINE f == [t EXCEPT !.tcrnti = 0, !.contention = FALSE, !.cached = FALSE]
<1>3. /\ f \in UeState /\ f.grant = s.grant /\ f.state = s.state
      /\ f.tcrnti = 0 /\ ~f.contention
  BY <1>2 DEF UeState
<1>4. Failed(s) = IF Exhausted(s) THEN [f EXCEPT !.told = TRUE] ELSE [f EXCEPT !.backoff = TRUE]
  BY DEF Failed, t
<1> HIDE DEF f
<1> QED BY <1>3, <1>4 DEF UeState

(* The steps of a UE.                                                        *)
LEMMA UeWins ==
  ASSUME RaInv, Typed, NEW u \in Ues, UeNext(u)
  PROVE  RaInv'
<1>1. UeTypeOK /\ ue[u] \in UeState BY DEF Typed, UeTypeOK
<1>2. UNCHANGED gnbVars BY UeStep
<1>3. CASE Start(u)
  <2> DEFINE s == [ue[u] EXCEPT !.state = "PERFORMING_RA"]
  <2>1. s.grant = ue[u].grant /\ s.tcrnti = ue[u].tcrnti /\ s.contention = ue[u].contention
    BY <1>1 DEF UeState
  <2>2. Become(u, s) /\ rx' = rx BY <1>3 DEF Start, StartRa
  <2> HIDE DEF s
  <2> QED BY <1>1, <1>2, <2>1, <2>2, SameAccess
<1>4. CASE Prepare(u)
  <2> DEFINE s == [ue[u] EXCEPT !.ra = "GENERATE_PREAMBLE", !.tx = 1, !.cached = FALSE]
  <2>1. s.grant = ue[u].grant /\ s.tcrnti = ue[u].tcrnti /\ s.contention = ue[u].contention
    BY <1>1 DEF UeState
  <2>2. Become(u, s) /\ rx' = rx BY <1>4 DEF Prepare, InitRa
  <2> HIDE DEF s
  <2> QED BY <1>1, <1>2, <2>1, <2>2, SameAccess
<1>5. CASE Waits(u)
  <2>1. CASE WindowExpiry(u)
    <3> DEFINE t == Counted(ue[u])
               told == t.told \/ Exhausted(ue[u])
               s == [t EXCEPT !.window = "off", !.backoff = TRUE, !.told = told]
    <3>1. Become(u, s) /\ rx' = rx BY <2>1 DEF WindowExpiry
    <3>2. /\ t.grant = ue[u].grant /\ t.tcrnti = ue[u].tcrnti
          /\ t.contention = ue[u].contention
      BY <1>1 DEF Counted, UeState
    <3>3. t \in UeState BY <1>1, CountedTyped
    <3> HIDE DEF t, told
    <3>4. s.grant = ue[u].grant /\ s.tcrnti = ue[u].tcrnti /\ s.contention = ue[u].contention
      BY <3>2, <3>3 DEF UeState
    <3> HIDE DEF s
    <3> QED BY <1>1, <1>2, <3>1, <3>4, SameAccess
  <2>2. CASE ResolutionExpiry(u)
    <3>1. Become(u, Failed(ue[u])) /\ rx' = rx BY <2>2 DEF ResolutionExpiry
    <3> QED BY <1>1, <1>2, <3>1, FailedFacts, SameAccess
  <2> QED BY <1>5, <2>1, <2>2 DEF Waits
<1>6. CASE Backoff(u)
  <2> DEFINE s == [ue[u] EXCEPT !.backoff = FALSE, !.ra = "GENERATE_PREAMBLE"]
  <2>1. s.grant = ue[u].grant /\ s.tcrnti = ue[u].tcrnti /\ s.contention = ue[u].contention
    BY <1>1 DEF UeState
  <2>2. Become(u, s) /\ rx' = rx BY <1>6 DEF Backoff, BackoffExpiry
  <2> HIDE DEF s
  <2> QED BY <1>1, <1>2, <2>1, <2>2, SameAccess
<1>7. CASE Response(u)
  <2>1. PICK outcome \in RarOutcomes : ProcessRar(u, outcome) BY <1>7 DEF Response
  <2>2. rx' = [rx EXCEPT ![u] = NoPdu] /\ rx[u].kind = "RAR" BY <2>1 DEF ProcessRar
  <2>3. rx'[u].kind # "Msg4" BY <1>1, <2>2 DEF UeTypeOK, NoPdu
  <2> DEFINE r == IF outcome = "unscheduled" THEN 0 ELSE rx[u].rnti
             g == IF outcome = "filed" THEN rx[u].rnti ELSE 0
             w == Toggled(ue[u].window)
             s == IF rx[u].pre # ue[u].pre
                    THEN [ue[u] EXCEPT !.tcrnti = 0, !.window = w]
                    ELSE [ue[u] EXCEPT !.window = "off", !.tcrnti = r, !.grant = g]
  <2>4. Become(u, s) BY <2>1 DEF ProcessRar
  <2>5. g \in {0, rx[u].rnti} /\ (g # 0 => r = g) BY DEF RarOutcomes
  <2> HIDE DEF r, g, w
  <2>6. CASE rx[u].pre # ue[u].pre
    <3>1. s.grant = ue[u].grant /\ s.tcrnti = 0 BY <1>1, <2>6 DEF UeState
    <3> HIDE DEF s
    <3> QED BY <1>1, <1>2, <2>2, <2>3, <2>4, <3>1, OneUe
  <2>7. CASE ~(rx[u].pre # ue[u].pre)
    <3>1. s.grant = g /\ s.tcrnti = r BY <1>1, <2>7 DEF UeState
    <3> HIDE DEF s
    <3> QED BY <1>1, <1>2, <2>2, <2>3, <2>4, <2>5, <3>1, OneUe
  <2> QED BY <2>6, <2>7
<1>8. CASE Msg3Slot(u)
  <2> DEFINE t == IF ue[u].ra = "WAIT_RAR" /\ ue[u].ce /\ ~ue[u].cached
                    THEN ue[u].crnti ELSE ue[u].tcrnti
             k == ue[u].cached \/ ue[u].ra = "WAIT_RAR"
             c == ue[u].contention \/ Sends(u)
             ra == IF Sends(u) THEN "WAIT_CR" ELSE ue[u].ra
             s == [ue[u] EXCEPT !.grant = 0, !.tcrnti = t, !.cached = k, !.contention = c,
                                !.ra = ra]
  <2>1. Become(u, s) /\ rx' = rx /\ ue[u].grant # 0 BY <1>8 DEF Msg3Slot, UseGrant
  <2> HIDE DEF t, k, c, ra
  <2>2. s.grant = 0 BY <1>1 DEF UeState
  <2>3. rx'[u].kind # "Msg4" BY <2>1 DEF RaInv, Msg4Fits
  <2> HIDE DEF s
  <2> QED BY <1>1, <1>2, <2>1, <2>2, <2>3, OneUe
<1>9. CASE Resolution(u)
  <2> DEFINE s == IF ue[u].ra # "WAIT_CR" THEN ue[u]
                  ELSE IF Resolves(u, rx[u]) THEN Succeeded(ue[u]) ELSE Failed(ue[u])
  <2>1. Become(u, s) /\ rx' = [rx EXCEPT ![u] = NoPdu]
    BY <1>9 DEF Resolution, ProcessMsg4
  <2>2. /\ Succeeded(ue[u]).grant = ue[u].grant /\ Succeeded(ue[u]).tcrnti = 0
        /\ ~Succeeded(ue[u]).contention
    BY <1>1 DEF Succeeded, UeState
  <2>3. /\ s.grant \in {0, ue[u].grant}
        /\ \/ s.tcrnti = ue[u].tcrnti /\ s.contention = ue[u].contention
           \/ s.tcrnti = 0 /\ ~s.contention
    BY <1>1, <2>2, FailedFacts
  <2> HIDE DEF s
  <2> QED BY <1>1, <1>2, <2>1, <2>3, SameAccess
<1>10. CASE Flush(u)
  <2> DEFINE s == [ue[u] EXCEPT !.grant = 0]
  <2>1. s.grant = 0 /\ s.tcrnti = ue[u].tcrnti /\ s.contention = ue[u].contention
    BY <1>1 DEF UeState
  <2>2. Become(u, s) /\ rx' = rx BY <1>10 DEF Flush, FlushGrant
  <2> HIDE DEF s
  <2> QED BY <1>1, <1>2, <2>1, <2>2, SameAccess
<1>11. CASE Trigger(u)
  <2> DEFINE s == [Reset(ue[u].crnti, "PERFORMING_RA") EXCEPT !.ce = TRUE]
  <2>1. s.grant = 0 /\ s.tcrnti = 0 /\ ~s.contention BY DEF Reset
  <2>2. Become(u, s) /\ rx' = rx BY <1>11 DEF Trigger, TriggerRa
  <2> HIDE DEF s
  <2> QED BY <1>1, <1>2, <2>1, <2>2, SameAccess
<1>12. ASSUME NEW cause \in {"GO_TO_IDLE", "T300_EXPIRY", "RE_ESTABLISHMENT"},
              Interrupt(u, cause)
       PROVE  RaInv'
  <2> DEFINE st == IF cause = "T300_EXPIRY" THEN "PERFORMING_RA" ELSE "NOT_SYNC"
             ce == /\ ue[u].ce /\ cause # "GO_TO_IDLE"
                   /\ cause = "RE_ESTABLISHMENT" => ~Active(u)
             pre == IF cause = "RE_ESTABLISHMENT" THEN ue[u].pre ELSE 0
             s == [Reset(ue[u].crnti, st) EXCEPT !.ce = ce, !.pre = pre]
  <2>1. Become(u, s) /\ rx' = rx BY <1>12 DEF Interrupt, RrcReset
  <2> HIDE DEF st, ce, pre
  <2>2. s.grant = 0 /\ s.tcrnti = 0 /\ ~s.contention BY DEF Reset
  <2> HIDE DEF s
  <2> QED BY <1>1, <1>2, <2>1, <2>2, SameAccess
<1> QED
  BY <1>3, <1>4, <1>5, <1>6, <1>7, <1>8, <1>9, <1>10, <1>11, <1>12 DEF UeNext

(* A PRACH occasion starts windows only.                                     *)
LEMMA PrachKeeps ==
  ASSUME RaInv, Typed, PrachOccasion
  PROVE  RaInv'
<1> DEFINE us == {u \in Ues : HasPreamble(u)}
<1>1. PICK sent \in [us -> Preambles] : Prach(sent) BY DEF PrachOccasion
<1>2. UNCHANGED gnbVars BY DEF PrachOccasion
<1>3. us \subseteq Ues OBVIOUS
<1> HIDE DEF us
<1>4. ASSUME NEW u \in Ues
      PROVE  /\ ue'[u].grant = ue[u].grant /\ ue'[u].tcrnti = ue[u].tcrnti
             /\ ue'[u].contention = ue[u].contention /\ rx'[u] = rx[u]
  <2>1. ue[u] \in UeState BY DEF Typed, UeTypeOK
  <2>2. CASE u \in DOMAIN sent
    <3> DEFINE s == [ue[u] EXCEPT !.ra = "WAIT_RAR", !.pre = sent[u], !.window = "on"]
    <3>1. ue'[u] = s /\ rx' = rx BY <1>1, <2>2 DEF Prach
    <3>2. s.grant = ue[u].grant /\ s.tcrnti = ue[u].tcrnti /\ s.contention = ue[u].contention
      BY <2>1 DEF UeState
    <3> HIDE DEF s
    <3> QED BY <3>1, <3>2
  <2>3. CASE u \notin DOMAIN sent BY <1>1, <2>3 DEF Prach
  <2> QED BY <2>2, <2>3
<1>5. \A u \in Ues : UeKeeps(u) BY <1>4 DEF UeKeeps, RaInv, GrantsFit
<1>6. \A r \in Rntis : Followed(r) BY <1>2, SameContexts DEF gnbVars
<1> QED BY <1>5, <1>6, InvKept

(* Context r becomes x, and no other changes.                                *)
LEMMA OneContext ==
  ASSUME GnbTypeOK, NEW r \in Rntis, NEW x, gnb' = [gnb EXCEPT ![r] = x],
         x.list = "none" \/ (/\ gnb[r].list # "none" /\ x.owner = gnb[r].owner
                             /\ Msg3Came(x) => Msg3Came(gnb[r]))
  PROVE  \A s \in Rntis : Followed(s)
<1>1. gnb'[r] = x /\ \A s \in Rntis \ {r} : gnb'[s] = gnb[s] BY DEF GnbTypeOK
<1>2. Followed(r) BY <1>1 DEF Followed
<1>3. \A s \in Rntis \ {r} : Followed(s) BY <1>1 DEF Followed
<1> QED BY <1>2, <1>3

(* A context is removed.                                                     *)
LEMMA DeleteFollowed ==
  ASSUME GnbTypeOK, NEW r \in Rntis, Delete(r)
  PROVE  \A s \in Rntis : Followed(s)
BY OneContext DEF Delete, Gone

(* The slot loop of the gNB.                                                 *)
LEMMA SlotFollowed ==
  ASSUME GnbTypeOK, NEW r \in Rntis, Slot(r)
  PROVE  \A s \in Rntis : Followed(s)
<1>1. gnb[r] \in Context BY DEF GnbTypeOK
<1>2. CASE Msg2(r) \/ Msg3Retransmission(r)
  <2> DEFINE x == [gnb[r] EXCEPT !.state = "WAIT_Msg3", !.timer = "on"]
  <2>1. gnb' = [gnb EXCEPT ![r] = x] /\ gnb[r].list # "none"
    BY <1>2 DEF Msg2, Msg3Retransmission
  <2>2. x.owner = gnb[r].owner /\ ~Msg3Came(x) BY <1>1 DEF Context, Msg3Came
  <2> HIDE DEF x
  <2> QED BY <2>1, <2>2, OneContext
<1>3. CASE Msg4(r)
  <2> DEFINE srb == IF gnb[r].round = 0 THEN FALSE ELSE gnb[r].srb
             x == [gnb[r] EXCEPT !.state = "WAIT_ACK", !.srb = srb]
  <2>1. gnb' = [gnb EXCEPT ![r] = x] /\ Msg3Came(gnb[r]) BY <1>3 DEF Msg4, Msg3Came
  <2> HIDE DEF srb
  <2>2. x.owner = gnb[r].owner BY <1>1 DEF Context
  <2>3. gnb[r].list # "none" BY <2>1 DEF Msg3Came
  <2> HIDE DEF x
  <2> QED BY <2>1, <2>2, <2>3, OneContext
<1>4. CASE Msg2TooLate(r) BY <1>4, DeleteFollowed DEF Msg2TooLate, ReleaseRaUe
<1>5. CASE ContentionExpiry(r)
  <2>1. CASE gnb' = [gnb EXCEPT ![r].timer = "expired"]
    <3> DEFINE x == [gnb[r] EXCEPT !.timer = "expired"]
    <3>1. gnb' = [gnb EXCEPT ![r] = x] /\ gnb[r].list # "none"
      BY <1>5, <2>1 DEF ContentionExpiry
    <3>2. x.owner = gnb[r].owner /\ (Msg3Came(x) => Msg3Came(gnb[r]))
      BY <1>1 DEF Context, Msg3Came
    <3> HIDE DEF x
    <3> QED BY <3>1, <3>2, OneContext
  <2>2. CASE ReleaseRaUe(r) BY <2>2, DeleteFollowed DEF ReleaseRaUe
  <2> QED BY <1>5, <2>1, <2>2 DEF ContentionExpiry
<1>6. CASE UlFailureTimer(r)
  <2>1. CASE gnb' = [gnb EXCEPT ![r].ulFail = "asked"]
    <3> DEFINE x == [gnb[r] EXCEPT !.ulFail = "asked"]
    <3>1. gnb' = [gnb EXCEPT ![r] = x] /\ gnb[r].list # "none"
      BY <1>6, <2>1 DEF UlFailureTimer
    <3>2. x.owner = gnb[r].owner /\ (Msg3Came(x) => Msg3Came(gnb[r]))
      BY <1>1 DEF Context, Msg3Came
    <3> HIDE DEF x
    <3> QED BY <3>1, <3>2, OneContext
  <2>2. CASE ReleaseUe(r) BY <2>2, DeleteFollowed DEF ReleaseUe
  <2> QED BY <1>6, <2>1, <2>2 DEF UlFailureTimer
<1>7. CASE ReleaseExpiry(r)
  BY <1>7, DeleteFollowed, SameContexts DEF ReleaseExpiry, ReleaseUe
<1> QED BY <1>2, <1>3, <1>4, <1>5, <1>6, <1>7 DEF Slot

(* The F1AP handlers and the rest of a release.                              *)
LEMMA F1Followed ==
  ASSUME GnbInv, (\E r \in Rntis : F1ap(r)) \/ DlRrcDeliver \/ DlRrcReestablish \/ ReleaseFinish
  PROVE  \A s \in Rntis : Followed(s)
<1>1. GnbTypeOK BY DEF GnbInv
<1>2. ASSUME NEW r \in Rntis, NEW old \in Rntis \cup {NoRnti}, DlRrcFind(r, old)
      PROVE  \A s \in Rntis : Followed(s)
  BY <1>2, SameContexts DEF DlRrcFind
<1>3. ASSUME NEW r \in Rntis, NEW container \in BOOLEAN, ReleaseCommand(r, container)
      PROVE  \A s \in Rntis : Followed(s)
  <2>1. CASE gnb' = gnb BY <2>1, SameContexts
  <2>2. CASE ReleaseUe(r) BY <1>1, <2>2, DeleteFollowed DEF ReleaseUe
  <2>3. CASE /\ gnb[r].list # "none"
             /\ gnb' = [gnb EXCEPT ![r].release = TRUE,
                                   ![r].srb = @ \/ gnb[r].list = "access"]
    <3> DEFINE srb == gnb[r].srb \/ gnb[r].list = "access"
               x == [gnb[r] EXCEPT !.release = TRUE, !.srb = srb]
    <3>1. gnb' = [gnb EXCEPT ![r] = x] BY <1>1, <2>3 DEF GnbTypeOK, Context
    <3>2. gnb[r] \in Context BY <1>1 DEF GnbTypeOK
    <3> HIDE DEF srb
    <3>3. x.owner = gnb[r].owner /\ (Msg3Came(x) => Msg3Came(gnb[r]))
      BY <3>2 DEF Context, Msg3Came
    <3> HIDE DEF x
    <3> QED BY <1>1, <2>3, <3>1, <3>3, OneContext
  <2> QED BY <1>3, <2>1, <2>2, <2>3 DEF ReleaseCommand
<1>4. CASE DlRrcDeliver
  <2> DEFINE r == dl.rnti
             srb == gnb[r].srb \/ (gnb[r].list = "access" /\ r \in rlc)
             x == [gnb[r] EXCEPT !.srb = srb]
  <2>1. gnb' = [gnb EXCEPT ![r] = x] BY <1>4 DEF DlRrcDeliver
  <2>2. CASE r \in Rntis
    <3>1. gnb[r] \in Context BY <1>1, <2>2 DEF GnbTypeOK
    <3> HIDE DEF srb
    <3>2. x.list = gnb[r].list /\ x.owner = gnb[r].owner /\ (Msg3Came(x) => Msg3Came(gnb[r]))
      BY <3>1 DEF Context, Msg3Came
    <3> HIDE DEF x, r
    <3> QED BY <1>1, <2>1, <2>2, <3>2, OneContext
  <2>3. CASE r \notin Rntis
    <3> HIDE DEF x, r
    <3>1. gnb' = gnb BY <1>1, <2>1, <2>3 DEF GnbTypeOK
    <3> QED BY <3>1, SameContexts
  <2> QED BY <2>2, <2>3
<1>5. CASE DlRrcReestablish
  <2> DEFINE r == dl.rnti
             old == dl.old
             x == [gnb[r] EXCEPT !.uid = gnb[old].uid, !.cell = gnb[old].cell, !.srb = TRUE]
  <2>1. /\ dl.live /\ r # NoRnti /\ r \in Rntis \cup {NoRnti} /\ old # r
        /\ gnb[r].list # "none"
    BY <1>1, <1>5 DEF DlRrcReestablish, GnbInv, CallInOrder, GnbTypeOK
  <2>2. r \in Rntis /\ gnb[r] \in Context BY <1>1, <2>1 DEF GnbTypeOK
  <2>3. gnb' = [gnb EXCEPT ![old] = Gone, ![r] = x]
    BY <1>1, <1>5, <2>1, <2>2 DEF DlRrcReestablish, GnbTypeOK
  <2>4. x.owner = gnb[r].owner /\ (Msg3Came(x) => Msg3Came(gnb[r]))
    BY <2>2 DEF Context, Msg3Came
  <2> HIDE DEF x, r, old
  <2>5. /\ gnb'[r] = x /\ \A s \in Rntis \ {r, old} : gnb'[s] = gnb[s]
        /\ old \in Rntis => gnb'[old] = Gone
    BY <1>1, <2>1, <2>2, <2>3 DEF GnbTypeOK
  <2>6. Followed(r) BY <2>1, <2>4, <2>5 DEF Followed
  <2>7. \A s \in Rntis \ {r, old} : Followed(s) BY <2>5 DEF Followed
  <2>8. old \in Rntis => Followed(old) BY <2>5 DEF Followed, Gone
  <2> QED BY <2>6, <2>7, <2>8
<1>6. CASE ReleaseFinish
  BY <1>1, <1>6, DeleteFollowed DEF ReleaseFinish, ReleaseUe, GnbTypeOK
<1> QED BY <1>2, <1>3, <1>4, <1>5, <1>6 DEF F1ap

(* The reports of Msg3 and Msg4, UL failure, and the loss of a Msg3.          *)
LEMMA ReportsFollowed ==
  ASSUME GnbTypeOK, NEW r \in Rntis, Msg4Ack(r) \/ Msg4Nack(r) \/ UlFailure(r)
  PROVE  \A s \in Rntis : Followed(s)
<1>1. gnb[r] \in Context BY DEF GnbTypeOK
<1>2. CASE Msg4Ack(r)
  <2>1. CASE ReleaseRaUe(r) BY <2>1, DeleteFollowed DEF ReleaseRaUe
  <2> DEFINE x == [gnb[r] EXCEPT !.list = "connected", !.state = "done", !.timer = "off",
                                 !.round = 0, !.heard = {}, !.pre = 0]
  <2>2. CASE gnb' = [gnb EXCEPT ![r] = x]
    <3>1. gnb[r].list # "none" BY <1>2 DEF Msg4Ack, AwaitsAck
    <3>2. x.owner = gnb[r].owner /\ ~Msg3Came(x) BY <1>1 DEF Context, Msg3Came
    <3> HIDE DEF x
    <3> QED BY <2>2, <3>1, <3>2, OneContext
  <2> QED BY <1>2, <2>1, <2>2 DEF Msg4Ack
<1>3. CASE Msg4Nack(r)
  <2> DEFINE x == IF gnb[r].round + 1 < Msg4Rounds
                    THEN [gnb[r] EXCEPT !.round = @ + 1, !.state = "Msg4"]
                    ELSE [gnb[r] EXCEPT !.round = 0, !.ulFail = "on"]
  <2>1. gnb' = [gnb EXCEPT ![r] = x] BY <1>3 DEF Msg4Nack
  <2>2. Msg3Came(gnb[r]) /\ gnb[r].list # "none"
    BY <1>3 DEF Msg4Nack, AwaitsAck, Msg3Came
  <2>3. x.owner = gnb[r].owner BY <1>1 DEF Context
  <2> HIDE DEF x
  <2> QED BY <2>1, <2>2, <2>3, OneContext
<1>4. CASE UlFailure(r)
  <2> DEFINE x == [gnb[r] EXCEPT !.ulFail = "on"]
  <2>1. gnb' = [gnb EXCEPT ![r] = x] /\ gnb[r].list # "none" BY <1>4 DEF UlFailure
  <2>2. x.owner = gnb[r].owner /\ (Msg3Came(x) => Msg3Came(gnb[r]))
    BY <1>1 DEF Context, Msg3Came
  <2> HIDE DEF x
  <2> QED BY <2>1, <2>2, OneContext
<1> QED BY <1>2, <1>3, <1>4

(* What Msg3 or its loss does to the other contexts.                          *)
LEMMA Msg3Followed ==
  ASSUME GnbTypeOK, NEW r \in Rntis,
         \/ \E u \in Ues : Msg3Ccch(r, u)
         \/ \E c : Msg3Crnti(r, c)
         \/ Msg3NoIdentity(r)
         \/ Msg3Failed(r)
  PROVE  \A s \in Rntis \ {r} : Followed(s)
<1>1. gnb[r] \in Context BY DEF GnbTypeOK
<1>2. ASSUME NEW u \in Ues, Msg3Ccch(r, u) PROVE \A s \in Rntis \ {r} : gnb'[s] = gnb[s]
  BY <1>2 DEF Msg3Ccch, GnbTypeOK
<1>3. ASSUME NEW c, Msg3Crnti(r, c), NEW s \in Rntis \ {r} PROVE Followed(s)
  <2> DEFINE x == [gnb[s] EXCEPT !.ulFail = "no"]
  <2>1. gnb'[s] = x \/ gnb'[s] = gnb[s] BY <1>3 DEF Msg3Crnti
  <2>2. gnb'[s] = x => gnb[s].list # "none" \/ x.list = "none" BY DEF GnbTypeOK, Context
  <2>3. x.owner = gnb[s].owner /\ (Msg3Came(x) => Msg3Came(gnb[s])) /\ x.list = gnb[s].list
    <3>1. gnb[s] \in Context BY DEF GnbTypeOK
    <3> QED BY <3>1 DEF Context, Msg3Came
  <2> HIDE DEF x
  <2> QED BY <2>1, <2>3 DEF Followed
<1>4. CASE Msg3Failed(r)
  <2>1. \A s \in Rntis \ {r} : gnb'[s] = gnb[s]
    BY <1>4 DEF Msg3Failed, ReleaseRaUe, Delete, GnbTypeOK
  <2> QED BY <2>1 DEF Followed
<1>5. CASE Msg3NoIdentity(r)
  <2>1. \A s \in Rntis \ {r} : gnb'[s] = gnb[s] BY <1>5 DEF Msg3NoIdentity, GnbTypeOK
  <2> QED BY <2>1 DEF Followed
<1> QED BY <1>2, <1>3, <1>4, <1>5 DEF Followed

(* Steps of the gNB that the UEs do not hear.                                *)
LEMMA SilentStep ==
  ASSUME RaInv, UNCHANGED ueVars,
         \A s \in Rntis : Followed(s) \/ Quiet(s)
  PROVE  RaInv'
BY SameUes, InvKept

(* The UEs in us are told of pdu, and contexts are followed.                  *)
LEMMA Announced ==
  ASSUME RaInv, UeTypeOK, \A s \in Rntis : Followed(s), NEW us \in SUBSET Ues, NEW pdu,
         Announce(us, pdu),
         pdu.kind = "RAR" => pdu.rnti \in Rntis /\ ~Msg3Came(gnb'[pdu.rnti]),
         pdu.kind = "Msg4" =>
           /\ pdu.rnti \in Rntis /\ gnb'[pdu.rnti].owner = pdu.id
           /\ \A u \in us : ue[u].grant = 0 /\ ue[u].tcrnti = pdu.rnti
  PROVE  RaInv'
<1>1. ue' = ue /\ \A u \in Ues : rx'[u] = IF u \in us THEN pdu ELSE rx[u] BY DEF Announce
<1>2. GrantsFit' BY <1>1 DEF RaInv, GrantsFit
<1>3. GrantsUsedUp'
  <2> SUFFICES ASSUME NEW r \in Rntis, NEW u \in Ues, Msg3Came(gnb'[r])
               PROVE  ue'[u].grant # r /\ (rx'[u].kind = "RAR" => rx'[u].rnti # r)
    BY DEF GrantsUsedUp
  <2>1. Msg3Came(gnb[r]) BY DEF Followed, Msg3Came
  <2>2. ue[u].grant # r /\ (rx[u].kind = "RAR" => rx[u].rnti # r)
    BY <2>1 DEF RaInv, GrantsUsedUp
  <2> QED BY <1>1, <2>2
<1>4. Msg4Fits'
  <2> SUFFICES ASSUME NEW u \in Ues, rx'[u].kind = "Msg4"
               PROVE  /\ rx'[u].rnti \in Rntis /\ ue'[u].grant = 0
                      /\ \/ ue'[u].tcrnti = rx'[u].rnti
                         \/ ue'[u].tcrnti = 0 /\ ~ue'[u].contention
                      /\ \/ gnb'[rx'[u].rnti].list = "none"
                         \/ gnb'[rx'[u].rnti].owner = rx'[u].id
    BY DEF Msg4Fits
  <2>1. CASE u \in us BY <1>1, <2>1
  <2>2. CASE u \notin us
    <3>1. rx'[u] = rx[u] BY <1>1, <2>2
    <3>2. /\ rx[u].rnti \in Rntis /\ ue[u].grant = 0
          /\ ue[u].tcrnti = rx[u].rnti \/ (ue[u].tcrnti = 0 /\ ~ue[u].contention)
          /\ gnb[rx[u].rnti].list = "none" \/ gnb[rx[u].rnti].owner = rx[u].id
      BY <3>1 DEF RaInv, Msg4Fits
    <3> QED BY <1>1, <3>1, <3>2 DEF Followed
  <2> QED BY <2>1, <2>2
<1> QED BY <1>2, <1>3, <1>4 DEF RaInv

(* The UEs in us, which decode nothing, are granted Msg3 again.               *)
LEMMA GrantedAgain ==
  ASSUME RaInv, UeTypeOK, \A s \in Rntis : Followed(s), NEW r \in Rntis,
         NEW us \in SUBSET Listeners(r), Msg3Granted(us, r), ~Msg3Came(gnb'[r])
  PROVE  RaInv'
<1>1. ASSUME NEW u \in us
      PROVE  /\ ue'[u].grant = r /\ ue'[u].tcrnti = r /\ rx[u] = NoPdu
             /\ ue'[u].contention = ue[u].contention
  <2>1. u \in Ues /\ ue[u].tcrnti = r /\ rx[u] = NoPdu BY DEF Listeners, HearsTc
  <2> DEFINE s == [ue[u] EXCEPT !.grant = r]
  <2>2. ue'[u] = s BY <2>1 DEF Msg3Granted
  <2>3. s.grant = r /\ s.tcrnti = ue[u].tcrnti /\ s.contention = ue[u].contention
    <3>1. ue[u] \in UeState BY <2>1 DEF UeTypeOK
    <3> QED BY <3>1 DEF UeState
  <2> HIDE DEF s
  <2> QED BY <2>1, <2>2, <2>3
<1>2. rx' = rx /\ \A u \in Ues \ us : ue'[u] = ue[u] BY DEF Msg3Granted
<1>3. GrantsFit'
  <2> SUFFICES ASSUME NEW u \in Ues, ue'[u].grant # 0
               PROVE  ue'[u].tcrnti \in {0, ue'[u].grant}
    BY DEF GrantsFit
  <2> QED BY <1>1, <1>2 DEF RaInv, GrantsFit
<1>4. GrantsUsedUp'
  <2> SUFFICES ASSUME NEW q \in Rntis, NEW u \in Ues, Msg3Came(gnb'[q])
               PROVE  ue'[u].grant # q /\ (rx'[u].kind = "RAR" => rx'[u].rnti # q)
    BY DEF GrantsUsedUp
  <2>1. q # r /\ Msg3Came(gnb[q]) BY DEF Followed, Msg3Came
  <2>2. ue[u].grant # q /\ (rx[u].kind = "RAR" => rx[u].rnti # q)
    BY <2>1 DEF RaInv, GrantsUsedUp
  <2> QED BY <1>1, <1>2, <2>1, <2>2
<1>5. Msg4Fits'
  <2> SUFFICES ASSUME NEW u \in Ues, rx'[u].kind = "Msg4"
               PROVE  /\ rx'[u].rnti \in Rntis /\ ue'[u].grant = 0
                      /\ \/ ue'[u].tcrnti = rx'[u].rnti
                         \/ ue'[u].tcrnti = 0 /\ ~ue'[u].contention
                      /\ \/ gnb'[rx'[u].rnti].list = "none"
                         \/ gnb'[rx'[u].rnti].owner = rx'[u].id
    BY DEF Msg4Fits
  <2>1. u \notin us BY <1>1, <1>2 DEF NoPdu
  <2>2. ue'[u] = ue[u] /\ rx'[u] = rx[u] BY <1>2, <2>1
  <2>3. /\ rx[u].rnti \in Rntis /\ ue[u].grant = 0
        /\ ue[u].tcrnti = rx[u].rnti \/ (ue[u].tcrnti = 0 /\ ~ue[u].contention)
        /\ gnb[rx[u].rnti].list = "none" \/ gnb[rx[u].rnti].owner = rx[u].id
    BY <2>2 DEF RaInv, Msg4Fits
  <2> QED BY <2>2, <2>3 DEF Followed
<1> QED BY <1>3, <1>4, <1>5 DEF RaInv

(* The steps of the gNB for one RNTI.                                        *)
LEMMA GnbWins ==
  ASSUME RaInv, Typed, GnbInv, NEW r \in Rntis, AccessNext(r)
  PROVE  RaInv'
<1>1. UeTypeOK /\ GnbTypeOK /\ gnb[r] \in Context BY DEF Typed, GnbInv, GnbTypeOK
<1>2. ASSUME NEW p \in prach, Detected(p, r) PROVE RaInv'
  <2>1. \A s \in Rntis \ {r} : gnb'[s] = gnb[s]
    BY <1>1, <1>2 DEF Detected, InitiateRa, GnbTypeOK
  <2>2. \A s \in Rntis \ {r} : Followed(s) BY <2>1 DEF Followed
  <2> QED BY <1>2, <2>2, SilentStep DEF Detected
<1>3. CASE SendRar(r)
  <2> DEFINE pdu == Rar(r, gnb[r].pre)
             us == {u \in gnb[r].heard : HearsRar(u)}
  <2>1. PICK heard \in SUBSET Ues : Hear(us, heard) /\ Announce(heard, pdu)
    BY <1>3 DEF SendRar
  <2>2. pdu.kind = "RAR" /\ pdu.rnti = r BY DEF Rar, NoPdu
  <2>3. ~Msg3Came(gnb'[r]) BY <1>1, <1>3 DEF SendRar, Msg2, Msg3Came, GnbTypeOK, Context
  <2>4. \A s \in Rntis : Followed(s) BY <1>1, <1>3, SlotFollowed DEF SendRar, Slot
  <2> HIDE DEF pdu
  <2> QED BY <1>1, <2>1, <2>2, <2>3, <2>4, Announced
<1>4. CASE GrantMsg3(r)
  <2>1. PICK us \in SUBSET Ues : Hear(Listeners(r), us) /\ Msg3Granted(us, r)
    BY <1>4 DEF GrantMsg3
  <2>2. us \in SUBSET Listeners(r) BY <2>1 DEF Hear
  <2>3. ~Msg3Came(gnb'[r])
    BY <1>1, <1>4 DEF GrantMsg3, Msg3Retransmission, Msg3Came, GnbTypeOK, Context
  <2>4. \A s \in Rntis : Followed(s) BY <1>1, <1>4, SlotFollowed DEF GrantMsg3, Slot
  <2> QED BY <1>1, <2>1, <2>2, <2>3, <2>4, GrantedAgain
<1>5. CASE SendMsg4(r)
  <2> DEFINE pdu == ConRes(r, gnb[r].owner)
  <2>1. PICK us \in SUBSET Ues : Hear(Listeners(r), us) /\ Announce(us, pdu)
    BY <1>5 DEF SendMsg4
  <2>2. pdu.kind = "Msg4" /\ pdu.rnti = r /\ pdu.id = gnb[r].owner BY DEF ConRes, NoPdu
  <2>3. Msg3Came(gnb[r]) BY <1>5 DEF SendMsg4, Msg4, Msg3Came
  <2>4. gnb'[r].owner = gnb[r].owner
    BY <1>1, <1>5 DEF SendMsg4, Msg4, GnbTypeOK, Context
  <2>5. \A s \in Rntis : Followed(s) BY <1>1, <1>5, SlotFollowed DEF SendMsg4, Slot
  <2>6. ASSUME NEW u \in us PROVE ue[u].grant = 0 /\ ue[u].tcrnti = r
    <3>1. u \in Ues /\ ue[u].tcrnti = r BY <2>1 DEF Hear, Listeners, HearsTc
    <3>2. ue[u].grant # r BY <2>3, <3>1 DEF RaInv, GrantsUsedUp
    <3>3. ue[u].grant # 0 => ue[u].tcrnti \in {0, ue[u].grant} BY <3>1 DEF RaInv, GrantsFit
    <3>4. r # 0 OBVIOUS
    <3> QED BY <3>1, <3>2, <3>3, <3>4
  <2> HIDE DEF pdu
  <2> QED BY <1>1, <2>1, <2>2, <2>4, <2>5, <2>6, Announced
<1>6. CASE Msg3Report(r)
  <2>1. \A s \in Rntis \ {r} : Followed(s)
    <3>1. ASSUME NEW m \in msg3[r],
                 \/ Msg3Ccch(r, m.ue)
                 \/ Msg3NoIdentity(r)
                 \/ Msg3Crnti(r, m.crnti)
          PROVE  \A s \in Rntis \ {r} : Followed(s)
      <4>1. m.ue \in Ues
        <5> DEFINE Msg == [ue : Ues, ce : BOOLEAN, crnti : Rntis \cup {0}]
        <5>1. msg3 \in [Rntis -> SUBSET Msg] BY DEF Typed, AirTyped
        <5> HIDE DEF Msg
        <5>2. m \in Msg BY <5>1
        <5> QED BY <5>2 DEF Msg
      <4> QED BY <1>1, <3>1, <4>1, Msg3Followed
    <3> QED BY <1>1, <1>6, <3>1, Msg3Followed DEF Msg3Report
  <2> QED BY <1>6, <2>1, SilentStep DEF Msg3Report
<1>7. CASE Msg4Report(r) BY <1>1, <1>7, ReportsFollowed, SilentStep DEF Msg4Report
<1>8. CASE LosesUplink(r) BY <1>1, <1>8, ReportsFollowed, SilentStep DEF LosesUplink
<1>9. CASE SlotLoopOnly(r) BY <1>1, <1>9, SlotFollowed, SilentStep DEF SlotLoopOnly, Slot
<1>10. ASSUME NEW old \in Rntis \cup {NoRnti}, Answer(r, old) PROVE RaInv'
  BY <1>10, F1Followed, SilentStep DEF Answer, F1ap
<1>11. ASSUME NEW container \in BOOLEAN, Command(r, container) PROVE RaInv'
  BY <1>11, F1Followed, SilentStep DEF Command, F1ap
<1> QED
  BY <1>2, <1>3, <1>4, <1>5, <1>6, <1>7, <1>8, <1>9, <1>10, <1>11 DEF AccessNext

(* At the start no UE has a grant or a PDU.                                  *)
LEMMA InitWins == Init => RaInv
  BY DEF Init, UeInit, Reset, NoPdu, RaInv, GrantsFit, GrantsUsedUp, Msg4Fits

LEMMA StepWins == RaInv /\ Typed /\ GnbInv /\ [Next]_vars => RaInv'
<1> SUFFICES ASSUME RaInv, Typed, GnbInv, [Next]_vars PROVE RaInv'
  OBVIOUS
<1>1. CASE UNCHANGED vars
  BY <1>1, SameContexts, SilentStep DEF vars, gnbVars
<1>2. CASE \E p \in prach : Missed(p)
  BY <1>2, SameContexts, SilentStep DEF Missed, gnbVars
<1>3. CASE Deliver \/ ReleaseEnds
  BY <1>3, F1Followed, SilentStep DEF Deliver, ReleaseEnds
<1> QED
  BY <1>1, <1>2, <1>3, UeWins, PrachKeeps, GnbWins DEF Next

LEMMA RaInvariant == Spec => [](RaInv /\ Typed /\ GnbInv)
<1>1. RaInv /\ Typed /\ GnbInv /\ [Next]_vars => RaInv' BY StepWins
<1> QED BY <1>1, InitWins, CompositionInvariant, PTL DEF Spec

\* UE u enters the connected state
Connects(u) == ue[u].state # "CONNECTED" /\ ue'[u].state = "CONNECTED"

(* A UE is connected by a Msg4 that names it, with the Temporary C-RNTI.      *)
LEMMA ConnectsByMsg4 ==
  ASSUME Typed, GnbInv, [Next]_vars, NEW u \in Ues, Connects(u)
  PROVE  /\ rx[u].kind = "Msg4" /\ rx[u].id = u
         /\ ue'[u].crnti = ue[u].tcrnti
<1>1. UeTypeOK /\ \A v \in Ues : ue[v] \in UeState BY DEF Typed, UeTypeOK
<1>2. ue' # ue BY DEF Connects
<1>3. ASSUME NEW v \in Ues, UeNext(v)
      PROVE  rx[u].kind = "Msg4" /\ Resolves(u, rx[u]) /\ ue'[u] = Succeeded(ue[u])
  <2>1. ASSUME NEW s, Become(v, s), s.state = ue[v].state \/ s.state # "CONNECTED"
        PROVE  FALSE
    <3>1. ue'[u] = IF u = v THEN s ELSE ue[u] BY <1>1, <2>1 DEF Become, UeTypeOK
    <3> QED BY <2>1, <3>1 DEF Connects
  <2>2. ~(Start(v) \/ Prepare(v) \/ Backoff(v) \/ Flush(v))
    BY <1>1, <2>1 DEF Start, StartRa, Prepare, InitRa, Backoff, BackoffExpiry, Flush,
                      FlushGrant, UeState
  <2>3. ~WindowExpiry(v) /\ ~ResolutionExpiry(v)
    <3> DEFINE t == Counted(ue[v])
    <3>1. t \in UeState /\ t.state = ue[v].state BY <1>1, CountedTyped DEF Counted, UeState
    <3>3. WindowExpiry(v) =>
            Become(v, [t EXCEPT !.window = "off", !.backoff = TRUE,
                                !.told = t.told \/ Exhausted(ue[v])])
      BY DEF WindowExpiry
    <3> HIDE DEF t
    <3>4. Failed(ue[v]).state = ue[v].state BY <1>1, FailedFacts
    <3>5. [t EXCEPT !.window = "off", !.backoff = TRUE,
                    !.told = t.told \/ Exhausted(ue[v])].state = ue[v].state
      BY <3>1 DEF UeState
    <3> QED BY <2>1, <3>3, <3>4, <3>5 DEF ResolutionExpiry
  <2>4. ~Response(v)
    <3> SUFFICES ASSUME NEW outcome \in RarOutcomes, ProcessRar(v, outcome) PROVE FALSE
      BY DEF Response
    <3> DEFINE r == IF outcome = "unscheduled" THEN 0 ELSE rx[v].rnti
               g == IF outcome = "filed" THEN rx[v].rnti ELSE 0
               w == Toggled(ue[v].window)
               s == IF rx[v].pre # ue[v].pre
                      THEN [ue[v] EXCEPT !.tcrnti = 0, !.window = w]
                      ELSE [ue[v] EXCEPT !.window = "off", !.tcrnti = r, !.grant = g]
    <3>1. Become(v, s) BY DEF ProcessRar
    <3> HIDE DEF r, g, w
    <3>2. s.state = ue[v].state BY <1>1 DEF UeState
    <3> QED BY <2>1, <3>1, <3>2
  <2>5. ~Msg3Slot(v)
    <3> DEFINE t == IF ue[v].ra = "WAIT_RAR" /\ ue[v].ce /\ ~ue[v].cached
                      THEN ue[v].crnti ELSE ue[v].tcrnti
               k == ue[v].cached \/ ue[v].ra = "WAIT_RAR"
               c == ue[v].contention \/ Sends(v)
               ra == IF Sends(v) THEN "WAIT_CR" ELSE ue[v].ra
               s == [ue[v] EXCEPT !.grant = 0, !.tcrnti = t, !.cached = k, !.contention = c,
                                  !.ra = ra]
    <3>1. Msg3Slot(v) => Become(v, s) BY DEF Msg3Slot, UseGrant
    <3> HIDE DEF t, k, c, ra
    <3>2. s.state = ue[v].state BY <1>1 DEF UeState
    <3> QED BY <2>1, <3>1, <3>2
  <2>6. ~Trigger(v)
    <3> DEFINE s == [Reset(ue[v].crnti, "PERFORMING_RA") EXCEPT !.ce = TRUE]
    <3>1. s.state = "PERFORMING_RA" BY DEF Reset
    <3>2. Trigger(v) => Become(v, s) BY DEF Trigger, TriggerRa
    <3> HIDE DEF s
    <3> QED BY <2>1, <3>1, <3>2
  <2>7. ASSUME NEW cause \in {"GO_TO_IDLE", "T300_EXPIRY", "RE_ESTABLISHMENT"},
               Interrupt(v, cause)
        PROVE  FALSE
    <3> DEFINE st == IF cause = "T300_EXPIRY" THEN "PERFORMING_RA" ELSE "NOT_SYNC"
               ce == /\ ue[v].ce /\ cause # "GO_TO_IDLE"
                     /\ cause = "RE_ESTABLISHMENT" => ~Active(v)
               pre == IF cause = "RE_ESTABLISHMENT" THEN ue[v].pre ELSE 0
               s == [Reset(ue[v].crnti, st) EXCEPT !.ce = ce, !.pre = pre]
    <3>1. Become(v, s) BY <2>7 DEF Interrupt, RrcReset
    <3>2. st # "CONNECTED" OBVIOUS
    <3> HIDE DEF st, ce, pre
    <3>3. s.state = st BY DEF Reset
    <3> HIDE DEF s
    <3> QED BY <2>1, <3>1, <3>2, <3>3
  <2>8. Resolution(v) BY <1>3, <2>2, <2>3, <2>4, <2>5, <2>6, <2>7 DEF UeNext, Waits
  <2> DEFINE s == IF ue[v].ra # "WAIT_CR" THEN ue[v]
                  ELSE IF Resolves(v, rx[v]) THEN Succeeded(ue[v]) ELSE Failed(ue[v])
  <2>9. Become(v, s) /\ rx[v].kind = "Msg4" BY <2>8 DEF Resolution, ProcessMsg4
  <2>10. Failed(ue[v]).state = ue[v].state BY <1>1, FailedFacts
  <2>11. Resolves(v, rx[v]) /\ s = Succeeded(ue[v]) BY <2>1, <2>9, <2>10
  <2> HIDE DEF s
  <2>12. ue'[u] = IF u = v THEN s ELSE ue[u] BY <1>1, <2>9 DEF Become, UeTypeOK
  <2>13. u = v BY <2>12 DEF Connects
  <2> QED BY <2>9, <2>11, <2>12, <2>13
<1>4. ASSUME ue'[u].state # ue[u].state
      PROVE  \E v \in Ues : UeNext(v)
  <2>1. ue' = ue => FALSE BY <1>4
  <2>2. ~PrachOccasion
    <3> DEFINE us == {v \in Ues : HasPreamble(v)}
    <3> SUFFICES ASSUME NEW sent \in [us -> Preambles], Prach(sent) PROVE FALSE
      BY DEF PrachOccasion
    <3> DEFINE s == [ue[u] EXCEPT !.ra = "WAIT_RAR", !.pre = sent[u], !.window = "on"]
    <3>1. ue'[u] = s \/ ue'[u] = ue[u] BY DEF Prach
    <3>2. s.state = ue[u].state BY <1>1 DEF UeState
    <3> HIDE DEF s
    <3> QED BY <1>4, <3>1, <3>2
  <2>3. ASSUME NEW r \in Rntis, GrantMsg3(r) PROVE FALSE
    <3>1. PICK us \in SUBSET Ues : Msg3Granted(us, r) BY <2>3 DEF GrantMsg3
    <3> DEFINE s == [ue[u] EXCEPT !.grant = r]
    <3>2. ue'[u] = s \/ ue'[u] = ue[u] BY <3>1 DEF Msg3Granted
    <3>3. s.state = ue[u].state BY <1>1 DEF UeState
    <3> HIDE DEF s
    <3> QED BY <1>4, <3>2, <3>3
  <2>4. ASSUME NEW r \in Rntis, AccessNext(r), ~GrantMsg3(r) PROVE ue' = ue
    BY <2>4 DEF AccessNext, Detected, SendRar, SendMsg4, Announce, Msg3Report, Msg4Report,
                LosesUplink, SlotLoopOnly, Answer, Command, ueVars
  <2>5. (\E p \in prach : Missed(p)) \/ Deliver \/ ReleaseEnds \/ UNCHANGED vars => ue' = ue
    BY DEF Missed, Deliver, ReleaseEnds, vars, ueVars
  <2> QED BY <2>1, <2>2, <2>3, <2>4, <2>5 DEF Next
<1>5. PICK v \in Ues : UeNext(v) BY <1>4 DEF Connects
<1>6. rx[u].kind = "Msg4" /\ Resolves(u, rx[u]) /\ ue'[u] = Succeeded(ue[u]) BY <1>3, <1>5
<1>7. Succeeded(ue[u]).crnti = ue[u].tcrnti BY <1>1 DEF Succeeded, UeState
<1> QED BY <1>6, <1>7 DEF Resolves

(* nr_ra_succeeded() copies the Temporary C-RNTI, and the contention timer zeroes it: a UE  *)
(* connected without a C-RNTI is one whose timer expired while its Msg4 was being decoded.  *)
THEOREM NoRntiOnlyWhenLate == Spec => NoRntiOnlyIfLate
<1>1. ASSUME RaInv, Typed, GnbInv, [Next]_vars, NEW u \in Ues, Connects(u), ue'[u].crnti = 0
      PROVE  ~ue[u].contention
  <2>1. rx[u].kind = "Msg4" /\ ue[u].tcrnti = 0 BY <1>1, ConnectsByMsg4
  <2>2. 0 \notin Rntis OBVIOUS
  <2> QED BY <2>1, <2>2, <1>1 DEF RaInv, Msg4Fits
<1>2. RaInv /\ Typed /\ GnbInv /\ [Next]_vars =>
        [\A u \in Ues :
           ue[u].state # "CONNECTED" /\ ue'[u].state = "CONNECTED" /\ ue'[u].crnti = 0
             => ~ue[u].contention]_vars
  BY <1>1 DEF Connects
<1> QED BY <1>2, RaInvariant, PTL DEF Spec, NoRntiOnlyIfLate

(* Contention has one winner, however many UEs use a preamble, hear a RAR or start again    *)
(* while a Msg4 is decoded, and whatever is lost: whoever becomes connected takes an RNTI   *)
(* that the gNB keeps for this UE, or has given up since.                                   *)
THEOREM ContentionHasOneWinner == Spec => OneWinner
<1>1. ASSUME RaInv, Typed, GnbInv, [Next]_vars, NEW u \in Ues, Connects(u), ue'[u].crnti # 0
      PROVE  gnb[ue'[u].crnti].list = "none" \/ gnb[ue'[u].crnti].owner = u
  <2>1. rx[u].kind = "Msg4" /\ rx[u].id = u /\ ue'[u].crnti = ue[u].tcrnti
    BY <1>1, ConnectsByMsg4
  <2> QED BY <2>1, <1>1 DEF RaInv, Msg4Fits
<1>2. RaInv /\ Typed /\ GnbInv /\ [Next]_vars =>
        [\A u \in Ues :
           ue[u].state # "CONNECTED" /\ ue'[u].state = "CONNECTED" /\ ue'[u].crnti # 0
             => gnb[ue'[u].crnti].list = "none" \/ gnb[ue'[u].crnti].owner = u]_vars
  BY <1>1 DEF Connects
<1> QED BY <1>2, RaInvariant, PTL DEF Spec, OneWinner
=============================================================================
