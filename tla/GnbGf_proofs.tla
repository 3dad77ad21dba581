---------------------------- MODULE GnbGf_proofs ----------------------------
(***************************************************************************)
(* Proofs about the grant-free manager, for any number of UEs,             *)
(* configurations, processes and slots.                                    *)
(***************************************************************************)
EXTENDS GnbGf, SequenceTheorems, TLAPS

(* The remainder of a division is below its divisor: frame and counter      *)
(* arithmetic stays in range.                                               *)
LEMMA ModRange == ASSUME NEW a \in Nat, NEW b \in Nat \ {0} PROVE a % b \in 0 .. b - 1
  OBVIOUS

(* Removing entry k of a table shifts the later ones down by one.           *)
LEMMA WithoutFacts ==
  ASSUME NEW S, NEW s \in Seq(S), NEW k \in 1 .. Len(s)
  PROVE  /\ Without(s, k) \in Seq(S)
         /\ Len(Without(s, k)) = Len(s) - 1
         /\ \A i \in 1 .. Len(s) - 1 : Without(s, k)[i] = IF i < k THEN s[i] ELSE s[i + 1]
<1>1. Len(s) - 1 \in Nat
  OBVIOUS
<1>2. \A i \in 1 .. Len(s) - 1 : (IF i < k THEN s[i] ELSE s[i + 1]) \in S
  OBVIOUS
<1>3. Without(s, k) \in [1 .. Len(s) - 1 -> S]
  BY <1>2 DEF Without
<1>4. Without(s, k) \in Seq(S)
  BY <1>1, <1>3
<1>5. QED
  BY <1>1, <1>3, <1>4 DEF Without

(* A configuration of a table of tables is an entry of one of the tables.   *)
LEMMA ConfiguredMember ==
  ASSUME NEW cs, NEW c
  PROVE  c \in Configured(cs) <=> \E u \in Uid : \E i \in 1 .. Len(cs[u]) : c = cs[u][i]
  BY DEF Configured

\* A report credits the first configuration of the UE that names the process.
Credited(u, pid, ok) ==
  \E i \in 1 .. Len(configs[u]) :
    /\ configs[u][i].pid = pid
    /\ \A j \in 1 .. i - 1 : configs[u][j].pid # pid
    /\ configs' = [configs EXCEPT ![u][i] = AfterRx(configs[u][i], ok)]

(* What a report changes of the tables: at most the NDI and round of the    *)
(* first configuration of the UE that names the process.                    *)
LEMMA ProcessRxCases ==
  ASSUME TypeOK, NEW u \in Uid, NEW pid, NEW ok \in BOOLEAN, ProcessRx(u, pid, ok)
  PROVE  Credited(u, pid, ok) \/ UNCHANGED configs
<1>1. CASE UNCHANGED configs
  BY <1>1
<1>2. CASE /\ gfEnabled
           /\ \E i \in 1 .. Len(configs[u]) :
                /\ Names(u, pid, i)
                /\ \A j \in 1 .. i - 1 : ~Names(u, pid, j)
                /\ configs' = [configs EXCEPT ![u][i] = AfterRx(configs[u][i], ok)]
  <2>1. PICK i \in 1 .. Len(configs[u]) :
                /\ Names(u, pid, i)
                /\ \A j \in 1 .. i - 1 : ~Names(u, pid, j)
                /\ configs' = [configs EXCEPT ![u][i] = AfterRx(configs[u][i], ok)]
    BY <1>2
  <2>2. configs[u] \in Seq(Config)
    BY DEF TypeOK
  <2>3. Len(configs[u]) \in Nat
    BY <2>2
  <2>4. \A j \in 1 .. i - 1 : j \in 1 .. Len(configs[u])
    BY <2>3
  <2>5. QED
    BY <2>1, <2>4 DEF Credited, Names
<1>3. QED
  BY <1>1, <1>2 DEF ProcessRx

(* Moving the HARQ state of a configuration on keeps it a configuration with *)
(* the same occasions and process.                                          *)
LEMMA AfterRxType ==
  ASSUME NEW c \in Config, NEW ok \in BOOLEAN
  PROVE  /\ AfterRx(c, ok) \in Config
         /\ AfterRx(c, ok).period = c.period
         /\ AfterRx(c, ok).offset = c.offset
         /\ AfterRx(c, ok).pid = c.pid
<1>1. c.ndi \in {0, 1} /\ 1 - c.ndi \in {0, 1}
  BY DEF Config
<1>2. c.round \in 0 .. Rounds - 1 /\ 0 \in 0 .. Rounds - 1
  BY GnbGfAssumption DEF Config
<1>3. CASE ok \/ c.round + 1 >= Rounds
  <2>1. AfterRx(c, ok) = [c EXCEPT !.ndi = 1 - c.ndi, !.round = 0]
    BY <1>3 DEF AfterRx
  <2>2. QED
    BY <1>1, <1>2, <2>1 DEF Config
<1>4. CASE ~(ok \/ c.round + 1 >= Rounds)
  <2>1. AfterRx(c, ok) = [c EXCEPT !.round = c.round + 1]
    BY <1>4 DEF AfterRx
  <2>2. c.round + 1 \in 0 .. Rounds - 1
    BY <1>2, <1>4, GnbGfAssumption
  <2>3. QED
    BY <2>1, <2>2 DEF Config
<1>5. QED
  BY <1>3, <1>4

(* A report changes no table's length and no entry's occasions or process.  *)
LEMMA ProcessRxFacts ==
  ASSUME TypeOK, NEW u \in Uid, NEW pid, NEW ok \in BOOLEAN, ProcessRx(u, pid, ok)
  PROVE  /\ configs' \in [Uid -> Seq(Config)]
         /\ \A v \in Uid : Len(configs'[v]) = Len(configs[v])
         /\ \A v \in Uid : \A i \in 1 .. Len(configs[v]) :
              /\ configs'[v][i].period = configs[v][i].period
              /\ configs'[v][i].offset = configs[v][i].offset
              /\ configs'[v][i].pid = configs[v][i].pid
<1>1. CASE UNCHANGED configs
  BY <1>1 DEF TypeOK
<1>2. CASE Credited(u, pid, ok)
  <2>1. PICK i \in 1 .. Len(configs[u]) :
          configs' = [configs EXCEPT ![u][i] = AfterRx(configs[u][i], ok)]
    BY <1>2 DEF Credited
  <2>2. configs \in [Uid -> Seq(Config)]
    BY DEF TypeOK
  <2>3. configs[u] \in Seq(Config) /\ configs[u][i] \in Config
    BY <2>2
  <2> DEFINE t == [configs[u] EXCEPT ![i] = AfterRx(configs[u][i], ok)]
  <2>4. t \in Seq(Config) /\ Len(t) = Len(configs[u])
    BY <2>3, AfterRxType
  <2>5. \A k \in 1 .. Len(configs[u]) :
          t[k] = IF k = i THEN AfterRx(configs[u][i], ok) ELSE configs[u][k]
    BY <2>3
  <2>6. configs' = [configs EXCEPT ![u] = t]
    BY <2>1
  <2>7. \A v \in Uid : configs'[v] = IF v = u THEN t ELSE configs[v]
    BY <2>2, <2>6
  <2>8. configs' \in [Uid -> Seq(Config)]
    BY <2>2, <2>4, <2>6
  <2>9. \A k \in 1 .. Len(configs[u]) :
              /\ t[k].period = configs[u][k].period
              /\ t[k].offset = configs[u][k].offset
              /\ t[k].pid = configs[u][k].pid
    BY <2>3, <2>5, AfterRxType
  <2>10. QED
    BY <2>4, <2>7, <2>8, <2>9
<1>3. QED
  BY <1>1, <1>2, ProcessRxCases

----------------------------------------------------------------------------
(* Types *)

(* The summaries computed from well-typed tables are well-typed.            *)
LEMMA UpdateSlotBitmapType ==
  ASSUME NEW cs \in [Uid -> Seq(Config)], UpdateSlotBitmap(cs)
  PROVE  slotBitmap' \subseteq 0 .. BitmapSlots - 1 /\ maxPeriodicity' \in Nat
<1>1. ASSUME NEW c \in Configured(cs) PROVE c.period \in Nat
  <2>1. PICK u \in Uid : \E i \in 1 .. Len(cs[u]) : c = cs[u][i]
    BY ConfiguredMember
  <2>2. cs[u] \in Seq(Config)
    OBVIOUS
  <2>3. c \in Config
    BY <2>1, <2>2
  <2>4. QED
    BY <2>3 DEF Config
<1>2. QED
  BY <1>1 DEF UpdateSlotBitmap

(* nr_gf_gnb_init() leaves well-typed tables.                               *)
LEMMA TypeInit == Init => TypeOK
<1> SUFFICES ASSUME Init PROVE TypeOK
  OBVIOUS
<1>1. configs \in [Uid -> Seq(Config)]
  BY DEF Init
<1>2. now \in 0 .. Cycle - 1 /\ numGfUes \in 0 .. CounterMod - 1
  BY GnbGfAssumption DEF Init
<1>3. QED
  BY <1>1, <1>2 DEF Init, TypeOK

(* Every operation of the manager keeps the types.                          *)
LEMMA TypeStep == TypeOK /\ [Next]_vars => TypeOK'
<1> SUFFICES ASSUME TypeOK, [Next]_vars PROVE TypeOK'
  OBVIOUS
<1> USE GnbGfAssumption
<1>1. ASSUME NEW u \in Uid, NEW r \in Requests, Configure(u, r) PROVE TypeOK'
  <2> DEFINE c == [period |-> r.period, offset |-> r.offset, pid |-> r.pid,
                   rnti |-> holder[u], ndi |-> 0, round |-> 0]
  <2>1. r.pid \in 0 .. MaxPid - 1 /\ c \in Config
    BY <1>1 DEF Configure, Valid, Config, TypeOK
  <2>2. configs' = [configs EXCEPT ![u] = Append(configs[u], c)]
    BY <1>1 DEF Configure
  <2>3. configs' \in [Uid -> Seq(Config)]
    BY <2>1, <2>2 DEF TypeOK
  <2>4. numGfUes' \in 0 .. CounterMod - 1
    <3>1. numGfUes + 1 \in Nat /\ CounterMod \in Nat \ {0}
      BY DEF TypeOK
    <3>2. (numGfUes + 1) % CounterMod \in 0 .. CounterMod - 1
      BY <3>1, ModRange
    <3>3. numGfUes' \in {numGfUes, (numGfUes + 1) % CounterMod}
      BY <1>1 DEF Configure
    <3>4. QED
      BY <3>2, <3>3 DEF TypeOK
  <2>5. slotBitmap' \subseteq 0 .. BitmapSlots - 1 /\ maxPeriodicity' \in Nat
    BY <1>1, <2>3, UpdateSlotBitmapType DEF Configure
  <2>6. pidBitmap' \subseteq 0 .. MaxPid - 1
    BY <1>1, <2>1 DEF Configure, TypeOK
  <2>7. QED
    BY <1>1, <2>3, <2>4, <2>5, <2>6 DEF Configure, TypeOK
<1>2. ASSUME NEW u \in Uid, ReleaseAll(u) PROVE TypeOK'
  <2>1. configs' \in [Uid -> Seq(Config)]
    BY <1>2 DEF ReleaseAll, TypeOK
  <2>2. numGfUes' \in 0 .. CounterMod - 1
    BY <1>2, ModRange DEF ReleaseAll, TypeOK
  <2>3. slotBitmap' \subseteq 0 .. BitmapSlots - 1 /\ maxPeriodicity' \in Nat
    BY <1>2, <2>1, UpdateSlotBitmapType DEF ReleaseAll, Released
  <2>4. QED
    BY <1>2, <2>1, <2>2, <2>3 DEF ReleaseAll, Released, TypeOK
<1>3. ASSUME NEW u \in Uid, NEW k \in 1 .. MaxConfigs, ReleaseOne(u, k) PROVE TypeOK'
  <2>1. configs[u] \in Seq(Config)
    BY DEF TypeOK
  <2>2. k <= Len(configs[u]) => Without(configs[u], k) \in Seq(Config)
    BY <2>1, WithoutFacts
  <2>3. configs' \in [Uid -> Seq(Config)]
    BY <1>3, <2>2 DEF ReleaseOne, TypeOK
  <2>4. slotBitmap' \subseteq 0 .. BitmapSlots - 1 /\ maxPeriodicity' \in Nat
    BY <1>3, <2>3, UpdateSlotBitmapType DEF ReleaseOne, Released
  <2>5. QED
    BY <1>3, <2>3, <2>4 DEF ReleaseOne, Released, TypeOK
<1>4. ASSUME NEW room \in 0 .. MaxPerSlot, SlotProcess(room) PROVE TypeOK'
  <2>1. now' \in 0 .. Cycle - 1
    BY <1>4, ModRange DEF SlotProcess, TypeOK
  <2>2. \A o \in Occasions : Ordered(o) \in [rnti : Rnti, pid : 0 .. MaxPid - 1]
    <3> SUFFICES ASSUME NEW o \in Occasions
                 PROVE  Ordered(o) \in [rnti : Rnti, pid : 0 .. MaxPid - 1]
      OBVIOUS
    <3>1. o[1] \in Uid /\ o[2] \in 1 .. MaxConfigs /\ o[2] <= Len(configs[o[1]])
      BY DEF Occasions
    <3>2. configs[o[1]] \in Seq(Config)
      BY <3>1 DEF TypeOK
    <3>3. configs[o[1]][o[2]] \in Config
      BY <3>1, <3>2
    <3>4. QED
      BY <3>3 DEF Ordered, Config
  <2>3. due' \subseteq [rnti : Rnti, pid : 0 .. MaxPid - 1]
    BY <1>4, <2>2 DEF SlotProcess, TypeOK
  <2>4. QED
    BY <1>4, <2>1, <2>3 DEF SlotProcess, table, TypeOK
<1>5. ASSUME NEW report \in due, NEW ok \in BOOLEAN, RxSdu(report, ok) PROVE TypeOK'
  <2>1. configs' \in [Uid -> Seq(Config)]
    BY <1>5, ProcessRxFacts DEF RxSdu, TypeOK
  <2>2. due' \subseteq due
    BY <1>5 DEF RxSdu
  <2>3. QED
    BY <1>5, <2>1, <2>2 DEF RxSdu, TypeOK
<1>6. ASSUME NEW u \in Uid, NEW pid \in 0 .. MaxPid - 1, NEW ok \in BOOLEAN,
             RxDynamic(u, pid, ok)
      PROVE  TypeOK'
  <2>1. configs' \in [Uid -> Seq(Config)]
    BY <1>6, ProcessRxFacts DEF RxDynamic
  <2>2. QED
    BY <1>6, <2>1 DEF RxDynamic, TypeOK
<1>7. ASSUME NEW u \in Uid, NEW rnti \in Rnti, UeConnects(u, rnti) PROVE TypeOK'
  BY <1>7 DEF UeConnects, table, TypeOK
<1>8. ASSUME NEW u \in Uid, UeRemoved(u) PROVE TypeOK'
  BY <1>8 DEF UeRemoved, table, TypeOK
<1>9. CASE UNCHANGED vars
  BY <1>9 DEF vars, TypeOK
<1>10. QED
  BY <1>1, <1>2, <1>3, <1>4, <1>5, <1>6, <1>7, <1>8, <1>9 DEF Next

(* The manager's tables and the reports on their way keep their types:     *)
(* table entries name valid processes, rounds stay below the limit at       *)
(* which process_rx gives up, and the frame and slot count stays in range.  *)
THEOREM TypeCorrect == Spec => []TypeOK
<1>1. Init => TypeOK
  BY TypeInit
<1>2. TypeOK /\ [Next]_vars => TypeOK'
  BY TypeStep
<1>3. QED
  BY <1>1, <1>2, PTL DEF Spec

----------------------------------------------------------------------------
(* The summaries of the tables *)

(* A freshly computed summary is exact.                                     *)
LEMMA UpdateExact ==
  ASSUME UpdateSlotBitmap(configs') PROVE SlotsExact'
  BY DEF UpdateSlotBitmap, SlotsExact

(* A step that keeps every entry's occasions keeps the summaries exact.     *)
LEMMA SummaryKept ==
  ASSUME SlotsExact, UNCHANGED <<slotBitmap, maxPeriodicity>>,
         \A u \in Uid : Len(configs'[u]) = Len(configs[u]),
         \A u \in Uid : \A i \in 1 .. Len(configs[u]) :
           /\ configs'[u][i].period = configs[u][i].period
           /\ configs'[u][i].offset = configs[u][i].offset
  PROVE  SlotsExact'
<1> DEFINE cs == configs
           ds == configs'
<1>1. ASSUME NEW c \in Configured(cs)
      PROVE  \E d \in Configured(ds) : d.period = c.period /\ d.offset = c.offset
  <2>1. PICK u \in Uid : \E i \in 1 .. Len(cs[u]) : c = cs[u][i]
    BY ConfiguredMember
  <2>2. PICK i \in 1 .. Len(cs[u]) : c = cs[u][i]
    BY <2>1
  <2>3. ds[u][i] \in Configured(ds)
    BY ConfiguredMember
  <2>4. QED
    BY <2>2, <2>3
<1>2. ASSUME NEW d \in Configured(ds)
      PROVE  \E c \in Configured(cs) : d.period = c.period /\ d.offset = c.offset
  <2>1. PICK u \in Uid : \E i \in 1 .. Len(ds[u]) : d = ds[u][i]
    BY ConfiguredMember
  <2>2. PICK i \in 1 .. Len(ds[u]) : d = ds[u][i]
    BY <2>1
  <2>3. cs[u][i] \in Configured(cs)
    BY ConfiguredMember
  <2>4. QED
    BY <2>2, <2>3
<1>3. ASSUME NEW s \in 0 .. BitmapSlots - 1
      PROVE  (\E c \in Configured(configs) : IsOccasion(c, s))
               <=> (\E d \in Configured(configs') : IsOccasion(d, s))
  BY <1>1, <1>2 DEF IsOccasion
<1>4. slotBitmap' = {s \in 0 .. BitmapSlots - 1 :
                       \E d \in Configured(configs') : IsOccasion(d, s)}
  BY <1>3 DEF SlotsExact
<1>5. \A d \in Configured(configs') : d.period <= maxPeriodicity'
  BY <1>1, <1>2 DEF SlotsExact
<1>6. maxPeriodicity' # 0 => \E d \in Configured(configs') : d.period = maxPeriodicity'
  BY <1>1, <1>2 DEF SlotsExact
<1>7. QED
  BY <1>4, <1>5, <1>6 DEF SlotsExact

(* gf_slot_bitmap and max_periodicity describe exactly the configurations   *)
(* in the tables, for any number of UEs, configurations and slots.          *)
THEOREM SlotsAlwaysExact == Spec => []SlotsExact
<1>1. Init => SlotsExact
  <2> SUFFICES ASSUME Init PROVE SlotsExact
    OBVIOUS
  <2>1. Configured(configs) = {}
    BY DEF Init, Configured
  <2>2. QED
    BY <2>1 DEF Init, SlotsExact
<1>2. TypeOK /\ SlotsExact /\ [Next]_vars => SlotsExact'
  <2> SUFFICES ASSUME TypeOK, SlotsExact, [Next]_vars PROVE SlotsExact'
    OBVIOUS
  <2>1. ASSUME NEW u \in Uid, NEW r \in Requests, Configure(u, r) PROVE SlotsExact'
    BY <2>1, UpdateExact DEF Configure
  <2>2. ASSUME NEW u \in Uid, ReleaseAll(u) PROVE SlotsExact'
    BY <2>2, UpdateExact DEF ReleaseAll, Released
  <2>3. ASSUME NEW u \in Uid, NEW k \in 1 .. MaxConfigs, ReleaseOne(u, k) PROVE SlotsExact'
    BY <2>3, UpdateExact DEF ReleaseOne, Released
  <2>4. ASSUME NEW u \in Uid, NEW pid, NEW ok \in BOOLEAN, ProcessRx(u, pid, ok),
               UNCHANGED <<slotBitmap, maxPeriodicity>>
        PROVE  SlotsExact'
    BY <2>4, ProcessRxFacts, SummaryKept
  <2>5. ASSUME NEW report \in due, NEW ok \in BOOLEAN, RxSdu(report, ok) PROVE SlotsExact'
    <3>1. CASE \E u \in Uid : ProcessRx(u, report.pid, ok)
      BY <2>4, <2>5, <3>1 DEF RxSdu
    <3>2. CASE UNCHANGED configs
      BY <2>5, <3>2, SummaryKept DEF RxSdu
    <3>3. QED
      BY <2>5, <3>1, <3>2 DEF RxSdu
  <2>6. ASSUME NEW u \in Uid, NEW pid \in 0 .. MaxPid - 1, NEW ok \in BOOLEAN,
               RxDynamic(u, pid, ok)
        PROVE  SlotsExact'
    BY <2>4, <2>6 DEF RxDynamic
  <2>7. CASE UNCHANGED table
    BY <2>7, SummaryKept DEF table
  <2>8. QED
    BY <2>1, <2>2, <2>3, <2>5, <2>6, <2>7
       DEF Next, SlotProcess, UeConnects, UeRemoved, vars, table
<1>3. QED
  BY <1>1, <1>2, TypeCorrect, PTL DEF Spec

(* While any UE has a configuration the manager is enabled, so the reports  *)
(* of grant-free PUSCHs are never handed to the dynamic HARQ handler.       *)
THEOREM EnabledAlways == Spec => []EnabledWhileConfigured
<1>1. Init => EnabledWhileConfigured
  BY DEF Init, EnabledWhileConfigured
<1>2. TypeOK /\ EnabledWhileConfigured /\ [Next]_vars => EnabledWhileConfigured'
  <2> SUFFICES ASSUME TypeOK, EnabledWhileConfigured, [Next]_vars
               PROVE  EnabledWhileConfigured'
    OBVIOUS
  <2>1. ASSUME NEW u \in Uid, NEW r \in Requests, Configure(u, r)
        PROVE  EnabledWhileConfigured'
    BY <2>1 DEF Configure, EnabledWhileConfigured
  <2>2. ASSUME Released, configs' \in [Uid -> Seq(Config)] PROVE EnabledWhileConfigured'
    <3>1. \A u \in Uid : configs'[u] # <<>> => Len(configs'[u]) > 0
      BY <2>2, EmptySeq
    <3>2. QED
      BY <2>2, <3>1 DEF Released, EnabledWhileConfigured
  <2>3. TypeOK'
    BY TypeStep
  <2>4. ASSUME NEW u \in Uid, NEW pid, NEW ok \in BOOLEAN, ProcessRx(u, pid, ok),
               UNCHANGED gfEnabled
        PROVE  EnabledWhileConfigured'
    <3>1. /\ configs' \in [Uid -> Seq(Config)]
          /\ \A v \in Uid : Len(configs'[v]) = Len(configs[v])
      BY <2>4, ProcessRxFacts
    <3>2. \A v \in Uid : configs'[v] # <<>> => configs[v] # <<>>
      BY <3>1 DEF TypeOK
    <3>3. QED
      BY <2>4, <3>2 DEF EnabledWhileConfigured
  <2>5. CASE UNCHANGED table
    BY <2>5 DEF table, EnabledWhileConfigured
  <2>6. ASSUME NEW report \in due, NEW ok \in BOOLEAN, RxSdu(report, ok)
        PROVE  EnabledWhileConfigured'
    <3>1. CASE \E u \in Uid : ProcessRx(u, report.pid, ok)
      BY <2>4, <2>6, <3>1 DEF RxSdu
    <3>2. CASE UNCHANGED configs
      BY <2>6, <3>2 DEF RxSdu, EnabledWhileConfigured
    <3>3. QED
      BY <2>6, <3>1, <3>2 DEF RxSdu
  <2>7. ASSUME NEW u \in Uid, NEW pid \in 0 .. MaxPid - 1, NEW ok \in BOOLEAN,
               RxDynamic(u, pid, ok)
        PROVE  EnabledWhileConfigured'
    BY <2>4, <2>7 DEF RxDynamic
  <2>8. QED
    BY <2>1, <2>2, <2>3, <2>5, <2>6, <2>7
       DEF Next, ReleaseAll, ReleaseOne, SlotProcess, UeConnects, UeRemoved, vars, table,
           TypeOK
<1>3. QED
  BY <1>1, <1>2, TypeCorrect, PTL DEF Spec

(* A process is marked in gf_harq_process_bitmap only while a configuration *)
(* names it.                                                                *)
THEOREM PidBitmapAlwaysUsed == Spec => []PidBitmapUsed
<1>1. Init => PidBitmapUsed
  BY DEF Init, PidBitmapUsed
<1>2. TypeOK /\ PidBitmapUsed /\ [Next]_vars => PidBitmapUsed'
  <2> SUFFICES ASSUME TypeOK, PidBitmapUsed, [Next]_vars,
                      NEW pid \in pidBitmap'
               PROVE  \E c \in Configured(configs') : c.pid = pid
    BY DEF PidBitmapUsed
  <2> DEFINE Named(v, i) == v \in Uid /\ i \in 1 .. Len(configs[v]) /\ configs[v][i].pid = pid
             Goal == \E v \in Uid : \E i \in 1 .. Len(configs'[v]) : configs'[v][i].pid = pid
  <2>1. pid \in pidBitmap => \E v, i : Named(v, i)
    <3> SUFFICES ASSUME pid \in pidBitmap PROVE \E v, i : Named(v, i)
      OBVIOUS
    <3>1. PICK c \in Configured(configs) : c.pid = pid
      BY DEF PidBitmapUsed
    <3>2. QED
      BY <3>1, ConfiguredMember
  <2>2. SUFFICES Goal
    <3> SUFFICES ASSUME Goal PROVE \E c \in Configured(configs') : c.pid = pid
      OBVIOUS
    <3> DEFINE cs == configs'
    <3>1. PICK v \in Uid : \E i \in 1 .. Len(cs[v]) : cs[v][i].pid = pid
      OBVIOUS
    <3>2. PICK i \in 1 .. Len(cs[v]) : cs[v][i].pid = pid
      BY <3>1
    <3>3. cs[v][i] \in Configured(cs)
      BY ConfiguredMember
    <3>4. QED
      BY <3>2, <3>3
  <2>3. ASSUME NEW u \in Uid, NEW r \in Requests, Configure(u, r) PROVE Goal
    <3> DEFINE c == [period |-> r.period, offset |-> r.offset, pid |-> r.pid,
                     rnti |-> holder[u], ndi |-> 0, round |-> 0]
    <3>1. configs' = [configs EXCEPT ![u] = Append(configs[u], c)]
      BY <2>3 DEF Configure
    <3>2. configs[u] \in Seq(Config) /\ configs \in [Uid -> Seq(Config)]
      BY DEF TypeOK
    <3>3. /\ Len(configs'[u]) = Len(configs[u]) + 1
          /\ configs'[u][Len(configs[u]) + 1] = c
          /\ \A i \in 1 .. Len(configs[u]) : configs'[u][i] = configs[u][i]
          /\ \A v \in Uid : v # u => configs'[v] = configs[v]
      BY <3>1, <3>2
    <3>4. CASE pid = r.pid
      BY <3>2, <3>3, <3>4
    <3>5. CASE pid \in pidBitmap
      <4>1. PICK v, i : Named(v, i)
        BY <2>1, <3>5
      <4>2. i \in 1 .. Len(configs'[v]) /\ configs'[v][i] = configs[v][i]
        BY <3>2, <3>3, <4>1
      <4>3. QED
        BY <4>1, <4>2
    <3>6. QED
      BY <2>3, <3>4, <3>5 DEF Configure
  <2>4. ASSUME NEW u \in Uid, ReleaseAll(u) PROVE Goal
    <3>1. pid \in pidBitmap /\ pid \notin {configs[u][i].pid : i \in 1 .. Len(configs[u])}
      BY <2>4 DEF ReleaseAll
    <3>2. PICK v, i : Named(v, i)
      BY <2>1, <3>1
    <3>3. v # u
      BY <3>1, <3>2
    <3>4. configs'[v] = configs[v]
      BY <2>4, <3>2, <3>3 DEF ReleaseAll, TypeOK
    <3>5. QED
      BY <3>2, <3>4
  <2>5. ASSUME NEW u \in Uid, NEW k \in 1 .. MaxConfigs, ReleaseOne(u, k) PROVE Goal
    <3>1. pid \in pidBitmap
      BY <2>5 DEF ReleaseOne
    <3>2. PICK v, i : Named(v, i)
      BY <2>1, <3>1
    <3>3. CASE ~(k <= Len(configs[u]))
      <4>1. configs' = configs
        BY <2>5, <3>3 DEF ReleaseOne
      <4>2. QED
        BY <3>2, <4>1
    <3>4. CASE k <= Len(configs[u])
      <4>1. configs \in [Uid -> Seq(Config)] /\ configs[u] \in Seq(Config)
        BY DEF TypeOK
      <4>2. k \in 1 .. Len(configs[u])
        BY <3>4, <4>1
      <4>3. pid # configs[u][k].pid /\ configs' = [configs EXCEPT ![u] = Without(configs[u], k)]
        BY <2>5, <3>4 DEF ReleaseOne
      <4>4. CASE v # u
        BY <3>2, <4>1, <4>3, <4>4
      <4>5. CASE v = u
        <5> DEFINE j == IF i < k THEN i ELSE i - 1
        <5>1. i # k
          BY <3>2, <4>3, <4>5
        <5>2. /\ Len(configs'[u]) = Len(configs[u]) - 1
              /\ \A n \in 1 .. Len(configs[u]) - 1 :
                   configs'[u][n] = IF n < k THEN configs[u][n] ELSE configs[u][n + 1]
          BY <4>1, <4>2, <4>3, WithoutFacts
        <5>3. j \in 1 .. Len(configs[u]) - 1 /\ (IF j < k THEN j ELSE j + 1) = i
          BY <3>2, <4>1, <4>2, <4>5, <5>1
        <5>4. configs'[u][j] = configs[u][i]
          BY <5>2, <5>3
        <5>5. QED
          BY <3>2, <4>5, <5>2, <5>3, <5>4
      <4>6. QED
        BY <4>4, <4>5
    <3>5. QED
      BY <3>3, <3>4
  <2>6. ASSUME NEW u \in Uid, NEW p, NEW ok \in BOOLEAN, ProcessRx(u, p, ok),
               UNCHANGED pidBitmap
        PROVE  Goal
    <3>1. PICK v, i : Named(v, i)
      BY <2>1, <2>6
    <3>2. Len(configs'[v]) = Len(configs[v]) /\ configs'[v][i].pid = configs[v][i].pid
      BY <2>6, <3>1, ProcessRxFacts
    <3>3. QED
      BY <3>1, <3>2
  <2>7. CASE UNCHANGED <<configs, pidBitmap>>
    <3>1. PICK v, i : Named(v, i)
      BY <2>1, <2>7
    <3>2. QED
      BY <2>7, <3>1
  <2>8. ASSUME NEW report \in due, NEW ok \in BOOLEAN, RxSdu(report, ok) PROVE Goal
    <3>1. CASE \E u \in Uid : ProcessRx(u, report.pid, ok)
      BY <2>6, <2>8, <3>1 DEF RxSdu
    <3>2. CASE UNCHANGED configs
      BY <2>7, <2>8, <3>2 DEF RxSdu
    <3>3. QED
      BY <2>8, <3>1, <3>2 DEF RxSdu
  <2>9. ASSUME NEW u \in Uid, NEW p \in 0 .. MaxPid - 1, NEW ok \in BOOLEAN,
               RxDynamic(u, p, ok)
        PROVE  Goal
    BY <2>6, <2>9 DEF RxDynamic
  <2>10. QED
    BY <2>3, <2>4, <2>5, <2>7, <2>8, <2>9
       DEF Next, SlotProcess, UeConnects, UeRemoved, vars, table
<1>3. QED
  BY <1>1, <1>2, TypeCorrect, PTL DEF Spec

(* All that is derived from the tables describes them, for any requests,    *)
(* releases, reused uids and receptions.                                    *)
THEOREM SummaryAlwaysExact == Spec => []SummaryExact
<1>1. SlotsExact /\ EnabledWhileConfigured /\ PidBitmapUsed => SummaryExact
  BY DEF SummaryExact
<1>2. QED
  BY <1>1, SlotsAlwaysExact, EnabledAlways, PidBitmapAlwaysUsed, PTL

(* A configuration that names the process of an earlier one of the same uid *)
(* never gets a report: process_rx always credits the earlier one.          *)
THEOREM ShadowedAlwaysIdle == Spec => []ShadowedStaysIdle
<1>1. Init => ShadowedStaysIdle
  BY DEF Init, ShadowedStaysIdle
<1>2. TypeOK /\ ShadowedStaysIdle /\ [Next]_vars => ShadowedStaysIdle'
  <2> SUFFICES ASSUME TypeOK, ShadowedStaysIdle, [Next]_vars PROVE ShadowedStaysIdle'
    OBVIOUS
  <2> DEFINE Idle(t) == \A i, j \in 1 .. Len(t) :
                          (i < j /\ t[i].pid = t[j].pid) => (t[j].ndi = 0 /\ t[j].round = 0)
  <2>1. ShadowedStaysIdle' <=> \A v \in Uid : Idle(configs'[v])
    BY DEF ShadowedStaysIdle
  <2>2. \A v \in Uid : Idle(configs[v]) /\ configs[v] \in Seq(Config)
    BY DEF ShadowedStaysIdle, TypeOK
  <2>3. ASSUME NEW u \in Uid, NEW t, Idle(t), configs' = [configs EXCEPT ![u] = t]
        PROVE  ShadowedStaysIdle'
    <3>1. ASSUME NEW v \in Uid PROVE Idle(configs'[v])
      <4>1. configs'[v] = IF v = u THEN t ELSE configs[v]
        BY <2>3 DEF TypeOK
      <4>2. Idle(configs[v])
        BY <2>2
      <4>3. QED
        BY <2>3, <4>1, <4>2
    <3>2. QED
      BY <2>1, <3>1
  <2>4. ASSUME NEW u \in Uid, NEW r \in Requests, Configure(u, r) PROVE ShadowedStaysIdle'
    <3> DEFINE c == [period |-> r.period, offset |-> r.offset, pid |-> r.pid,
                     rnti |-> holder[u], ndi |-> 0, round |-> 0]
               t == Append(configs[u], c)
    <3>1. configs' = [configs EXCEPT ![u] = t]
      BY <2>4 DEF Configure
    <3>2. /\ Len(configs[u]) \in Nat
          /\ Len(t) = Len(configs[u]) + 1
          /\ t[Len(configs[u]) + 1] = c
          /\ \A i \in 1 .. Len(configs[u]) : t[i] = configs[u][i]
      BY <2>2
    <3>3. Idle(t)
      <4> SUFFICES ASSUME NEW i \in 1 .. Len(t), NEW j \in 1 .. Len(t),
                          i < j, t[i].pid = t[j].pid
                   PROVE  t[j].ndi = 0 /\ t[j].round = 0
        OBVIOUS
      <4>1. CASE j = Len(configs[u]) + 1
        BY <3>2, <4>1
      <4>2. CASE j # Len(configs[u]) + 1
        <5> HIDE DEF t
        <5>1. i \in 1 .. Len(configs[u]) /\ j \in 1 .. Len(configs[u])
          BY <3>2, <4>2
        <5>2. t[i] = configs[u][i] /\ t[j] = configs[u][j]
          BY <3>2, <5>1
        <5>3. QED
          BY <2>2, <5>1, <5>2
      <4>3. QED
        BY <4>1, <4>2
    <3>4. QED
      BY <2>3, <3>1, <3>3
  <2>5. ASSUME NEW u \in Uid, ReleaseAll(u) PROVE ShadowedStaysIdle'
    <3>1. Idle(<<>>)
      OBVIOUS
    <3>2. QED
      BY <2>3, <2>5, <3>1 DEF ReleaseAll
  <2>6. ASSUME NEW u \in Uid, NEW k \in 1 .. MaxConfigs, ReleaseOne(u, k)
        PROVE  ShadowedStaysIdle'
    <3> DEFINE s == configs[u]
               t == Without(s, k)
    <3>1. CASE ~(k <= Len(s))
      BY <2>1, <2>2, <2>6, <3>1 DEF ReleaseOne
    <3>2. CASE k <= Len(s)
      <4>1. k \in 1 .. Len(s) /\ s \in Seq(Config) /\ Len(s) \in Nat
        BY <2>2, <3>2
      <4>2. /\ Len(t) = Len(s) - 1
            /\ \A i \in 1 .. Len(s) - 1 : t[i] = IF i < k THEN s[i] ELSE s[i + 1]
        BY <4>1, WithoutFacts
      <4>3. Idle(t)
        <5> SUFFICES ASSUME NEW i \in 1 .. Len(t), NEW j \in 1 .. Len(t),
                            i < j, t[i].pid = t[j].pid
                     PROVE  t[j].ndi = 0 /\ t[j].round = 0
          OBVIOUS
        <5> DEFINE Old(n) == IF n < k THEN n ELSE n + 1
        <5>1. /\ Old(i) \in 1 .. Len(s)
              /\ Old(j) \in 1 .. Len(s)
              /\ Old(i) < Old(j)
          BY <4>1, <4>2
        <5>2. t[i] = s[Old(i)] /\ t[j] = s[Old(j)]
          BY <4>2
        <5> HIDE DEF Old, t, s
        <5>3. Idle(s)
          BY <2>2 DEF s
        <5>4. QED
          BY <5>1, <5>2, <5>3
      <4>4. QED
        BY <2>3, <2>6, <3>2, <4>3 DEF ReleaseOne
    <3>3. QED
      BY <3>1, <3>2
  <2>7. CASE UNCHANGED configs
    BY <2>1, <2>2, <2>7
  <2>8. ASSUME NEW u \in Uid, NEW pid, NEW ok \in BOOLEAN, ProcessRx(u, pid, ok)
        PROVE  ShadowedStaysIdle'
    <3>1. CASE Credited(u, pid, ok)
      <4> DEFINE s == configs[u]
      <4>1. PICK k \in 1 .. Len(s) :
              /\ s[k].pid = pid
              /\ \A j \in 1 .. k - 1 : s[j].pid # pid
              /\ configs' = [configs EXCEPT ![u][k] = AfterRx(s[k], ok)]
        BY <3>1 DEF Credited
      <4> DEFINE t == [s EXCEPT ![k] = AfterRx(s[k], ok)]
      <4>2. s \in Seq(Config) /\ s[k] \in Config
        BY <2>2
      <4>3. /\ Len(t) = Len(s)
            /\ Len(s) \in Nat
            /\ \A i \in 1 .. Len(s) : t[i] = IF i = k THEN AfterRx(s[k], ok) ELSE s[i]
        BY <4>2
      <4>4. AfterRx(s[k], ok).pid = s[k].pid
        BY <4>2, AfterRxType
      <4>5. configs' = [configs EXCEPT ![u] = t]
        BY <4>1
      <4>6. Idle(t)
        <5> SUFFICES ASSUME NEW i \in 1 .. Len(t), NEW j \in 1 .. Len(t),
                            i < j, t[i].pid = t[j].pid
                     PROVE  t[j].ndi = 0 /\ t[j].round = 0
          OBVIOUS
        <5> HIDE DEF t
        <5>1. i \in 1 .. Len(s) /\ j \in 1 .. Len(s)
          BY <4>3
        <5>2. t[i].pid = s[i].pid /\ t[j].pid = s[j].pid
          BY <4>3, <4>4, <5>1
        <5>3. j # k
          <6> SUFFICES ASSUME j = k PROVE FALSE
            OBVIOUS
          <6>1. s[i].pid = pid
            BY <4>1, <5>2
          <6>2. i \in 1 .. k - 1
            BY <4>3, <5>1
          <6>3. QED
            BY <4>1, <6>1, <6>2
        <5>4. t[j] = s[j]
          BY <4>3, <5>1, <5>3
        <5>5. QED
          BY <2>2, <5>1, <5>2, <5>4
      <4>7. QED
        BY <2>3, <4>5, <4>6
    <3>2. QED
      BY <2>7, <2>8, <3>1, ProcessRxCases
  <2>9. ASSUME NEW report \in due, NEW ok \in BOOLEAN, RxSdu(report, ok)
        PROVE  ShadowedStaysIdle'
    BY <2>7, <2>8, <2>9 DEF RxSdu
  <2>10. ASSUME NEW u \in Uid, NEW pid \in 0 .. MaxPid - 1, NEW ok \in BOOLEAN,
               RxDynamic(u, pid, ok)
         PROVE  ShadowedStaysIdle'
    BY <2>8, <2>10 DEF RxDynamic
  <2>11. QED
    BY <2>4, <2>5, <2>6, <2>7, <2>9, <2>10
       DEF Next, SlotProcess, UeConnects, UeRemoved, vars, table
<1>3. QED
  BY <1>1, <1>2, TypeCorrect, PTL DEF Spec
=============================================================================
