------------------------------- MODULE GnbGf -------------------------------
(***************************************************************************)
(* The grant-free manager of the gNB (nr_gf_gnb_manager_t): the tables of  *)
(* pre-configured PUSCH occasions per UE, the summaries the manager keeps  *)
(* of them, the receptions it orders from the PHY each slot and the HARQ   *)
(* state it tracks per configuration.  UEs come and go around it: the MAC  *)
(* hands a uid to each UE and reuses it, and the manager is never told.    *)
(***************************************************************************)
EXTENDS Integers, Sequences, FiniteSets

CONSTANTS
  Uid,            \* indices of UEs, 0 .. NR_MAX_GF_UES - 1
  Rnti,           \* names of UEs
  NoUe,           \* a uid nobody holds
  Requests,       \* configurations callers ask for: period, offset, pid
  MaxPid,         \* HARQ processes a configuration may name (16)
  MaxConfigs,     \* NR_MAX_GF_CONFIGS_PER_UE
  MaxPerSlot,     \* NR_MAX_GF_PER_SLOT
  BitmapSlots,    \* width of gf_slot_bitmap (64)
  Rounds,         \* failed receptions after which a block is given up (4)
  Cycle,          \* slots until the frame number wraps (1024 frames)
  CounterMod,     \* 2^8: num_gf_ues is a uint8_t
  MaxDue          \* bound: receptions ordered and not yet reported

ASSUME GnbGfAssumption ==
  /\ Uid \subseteq Nat
  /\ IsFiniteSet(Uid)
  /\ NoUe \notin Rnti
  /\ Requests \subseteq [period : Nat, offset : Nat, pid : Nat]
  /\ MaxPid \in Nat
  /\ MaxConfigs \in Nat
  /\ MaxPerSlot \in Nat
  /\ BitmapSlots \in Nat
  /\ Rounds \in Nat \ {0}
  /\ Cycle \in Nat \ {0}
  /\ CounterMod \in Nat \ {0}
  /\ MaxDue \in Nat

VARIABLES
  configs,        \* ue_configs and num_configs_per_ue
  gfEnabled,      \* gf_enabled
  numGfUes,       \* num_gf_ues
  slotBitmap,     \* gf_slot_bitmap, as the set of its bits
  maxPeriodicity, \* max_periodicity
  pidBitmap,      \* gf_harq_process_bitmap, as the set of its bits
  holder,         \* UE_info: the UE that holds each uid
  now,            \* absolute slot, frame * slots_per_frame + slot
  due             \* PHY: UE and process of the PUSCH receptions ordered and
                  \* not reported, once however many of them there are

table == <<configs, gfEnabled, numGfUes, slotBitmap, maxPeriodicity, pidBitmap>>
vars == <<configs, gfEnabled, numGfUes, slotBitmap, maxPeriodicity, pidBitmap,
          holder, now, due>>

Config == [period : Nat \ {0}, offset : Nat, pid : 0 .. MaxPid - 1,
           rnti : Rnti, ndi : {0, 1}, round : 0 .. Rounds - 1]

\* IS_GF_OCCASION
IsOccasion(c, slot) == slot >= c.offset /\ (slot - c.offset) % c.period = 0

\* Every configuration in a table of tables
Configured(cs) == UNION {{cs[u][i] : i \in 1 .. Len(cs[u])} : u \in Uid}

Without(s, k) == [i \in 1 .. Len(s) - 1 |-> IF i < k THEN s[i] ELSE s[i + 1]]

----------------------------------------------------------------------------
\* nr_gf_gnb_init()
Init ==
  /\ configs = [u \in Uid |-> <<>>]
  /\ gfEnabled = TRUE
  /\ numGfUes = 0
  /\ slotBitmap = {}
  /\ maxPeriodicity = 0
  /\ pidBitmap = {}
  /\ holder = [u \in Uid |-> NoUe]
  /\ now = 0
  /\ due = {}

\* nr_gf_gnb_update_slot_bitmap(), over the tables cs
UpdateSlotBitmap(cs) ==
  /\ slotBitmap' = {s \in 0 .. BitmapSlots - 1 : \E c \in Configured(cs) : IsOccasion(c, s)}
  /\ maxPeriodicity' \in {0} \cup {c.period : c \in Configured(cs)}
  /\ \A c \in Configured(cs) : c.period <= maxPeriodicity'

\* nr_gf_gnb_validate_config()
Valid(r) == r.period # 0 /\ r.offset < r.period /\ r.pid < MaxPid

\* nr_gf_gnb_configure_ue(); a rejected request changes nothing.
Configure(u, r) ==
  /\ holder[u] # NoUe
  /\ Valid(r)
  /\ Len(configs[u]) < MaxConfigs
  /\ configs' = [configs EXCEPT ![u] =
                   Append(configs[u], [period |-> r.period, offset |-> r.offset,
                                       pid |-> r.pid, rnti |-> holder[u],
                                       ndi |-> 0, round |-> 0])]
  /\ pidBitmap' = pidBitmap \cup {r.pid}
  /\ numGfUes' = IF Len(configs[u]) = 0 THEN (numGfUes + 1) % CounterMod ELSE numGfUes
  /\ gfEnabled' = TRUE
  /\ UpdateSlotBitmap(configs')
  /\ UNCHANGED <<holder, now, due>>

\* Mutant: the summaries are not computed again.
ReleasedStale ==
  /\ UNCHANGED <<slotBitmap, maxPeriodicity>>
  /\ gfEnabled' = (\E u \in Uid : Len(configs'[u]) > 0)
  /\ UNCHANGED <<holder, now, due>>

\* Common end of nr_gf_gnb_release_ue()
Released ==
  /\ UpdateSlotBitmap(configs')
  /\ gfEnabled' = (\E u \in Uid : Len(configs'[u]) > 0)
  /\ UNCHANGED <<holder, now, due>>

\* nr_gf_gnb_release_ue(ue_id, -1)
ReleaseAll(u) ==
  /\ pidBitmap' = pidBitmap \ {configs[u][i].pid : i \in 1 .. Len(configs[u])}
  /\ configs' = [configs EXCEPT ![u] = <<>>]
  /\ numGfUes' = (numGfUes + CounterMod - 1) % CounterMod
  /\ Released

\* nr_gf_gnb_release_ue(ue_id, config_index): an index past the table only
\* has the summaries computed again.
ReleaseOne(u, k) ==
  /\ IF k <= Len(configs[u])
       THEN /\ pidBitmap' = pidBitmap \ {configs[u][k].pid}
            /\ configs' = [configs EXCEPT ![u] = Without(configs[u], k)]
       ELSE UNCHANGED <<pidBitmap, configs>>
  /\ UNCHANGED numGfUes
  /\ Released

----------------------------------------------------------------------------
(* nr_gf_gnb_slot_process(): nr_gf_gnb_check_occasions() lists the          *)
(* occasions of this slot, UE by UE and at most MaxPerSlot of them, and     *)
(* nr_gf_gnb_schedule_reception() orders as many as the UL_tti_req of the   *)
(* slot has room for.                                                       *)

\* The occasions of this slot, named by uid and index in its table
Occasions == {o \in Uid \X (1 .. MaxConfigs) :
                /\ o[2] <= Len(configs[o[1]])
                /\ IsOccasion(configs[o[1]][o[2]], now)}
\* Order of the two nested loops
Precedes(o, q) == o[1] < q[1] \/ (o[1] = q[1] /\ o[2] < q[2])

Ordered(o) == LET c == configs[o[1]][o[2]] IN [rnti |-> c.rnti, pid |-> c.pid]

SlotProcess(room) ==
  /\ IF gfEnabled
       THEN \E chosen \in SUBSET Occasions :
              /\ Cardinality(chosen) <= MaxPerSlot
              /\ Cardinality(chosen) <= room
              /\ chosen # Occasions => Cardinality(chosen) \in {MaxPerSlot, room}
              /\ \A o \in chosen, q \in Occasions \ chosen : Precedes(o, q)
              /\ due' = due \cup {Ordered(o) : o \in chosen}
              /\ Cardinality(due') <= MaxDue
       ELSE UNCHANGED due
  /\ now' = (now + 1) % Cycle
  /\ UNCHANGED <<table, holder>>

----------------------------------------------------------------------------
(* _nr_rx_sdu(): the grant-free branch is taken for the first configuration *)
(* of the UE that names the process; nr_gf_gnb_process_rx() then moves its  *)
(* HARQ state.  A report for a UE that is gone ends in nr_rx_ra_sdu().      *)

\* Mutant: one failure more before the block is given up.
AfterRxOneMore(c, ok) ==
  IF ok \/ c.round >= Rounds
    THEN [c EXCEPT !.ndi = 1 - c.ndi, !.round = 0]
    ELSE [c EXCEPT !.round = c.round + 1]

AfterRx(c, ok) ==
  IF ok \/ c.round + 1 >= Rounds
    THEN [c EXCEPT !.ndi = 1 - c.ndi, !.round = 0]
    ELSE [c EXCEPT !.round = c.round + 1]

Names(u, pid, i) == i \in 1 .. Len(configs[u]) /\ configs[u][i].pid = pid

\* Mutant: any configuration that names the process will do.
ProcessRxAny(u, pid, ok) ==
  \/ /\ gfEnabled
     /\ \E i \in 1 .. Len(configs[u]) :
          /\ Names(u, pid, i)
          /\ configs' = [configs EXCEPT ![u][i] = AfterRx(configs[u][i], ok)]
  \/ /\ ~gfEnabled \/ \A i \in 1 .. Len(configs[u]) : ~Names(u, pid, i)
     /\ UNCHANGED configs

ProcessRx(u, pid, ok) ==
  \/ /\ gfEnabled
     /\ \E i \in 1 .. Len(configs[u]) :
          /\ Names(u, pid, i)
          /\ \A j \in 1 .. i - 1 : ~Names(u, pid, j)
          /\ configs' = [configs EXCEPT ![u][i] = AfterRx(configs[u][i], ok)]
  \/ /\ ~gfEnabled \/ \A i \in 1 .. Len(configs[u]) : ~Names(u, pid, i)
     /\ UNCHANGED configs

RxSdu(report, ok) ==
  /\ due' \in {due, due \ {report}}
  /\ \/ \E u \in Uid : holder[u] = report.rnti /\ ProcessRx(u, report.pid, ok)
     \/ (\A u \in Uid : holder[u] # report.rnti) /\ UNCHANGED configs
  /\ UNCHANGED <<gfEnabled, numGfUes, slotBitmap, maxPeriodicity, pidBitmap, holder, now>>

\* A PUSCH granted dynamically on a process of the UE, decoded or not
RxDynamic(u, pid, ok) ==
  /\ holder[u] # NoUe
  /\ ProcessRx(u, pid, ok)
  /\ UNCHANGED <<gfEnabled, numGfUes, slotBitmap, maxPeriodicity, pidBitmap, holder, now, due>>

----------------------------------------------------------------------------
(* add_connected_nr_ue() and mac_remove_nr_ue(): a uid is given to a UE and *)
(* freed by delete_nr_ue_data(); the grant-free tables are not touched.     *)

UeConnects(u, rnti) ==
  /\ holder[u] = NoUe
  /\ \A v \in Uid : holder[v] # rnti
  /\ holder' = [holder EXCEPT ![u] = rnti]
  /\ UNCHANGED <<table, now, due>>

UeRemoved(u) ==
  /\ holder[u] # NoUe
  /\ holder' = [holder EXCEPT ![u] = NoUe]
  /\ UNCHANGED <<table, now, due>>

----------------------------------------------------------------------------
Next ==
  \/ \E u \in Uid, r \in Requests : Configure(u, r)
  \/ \E u \in Uid : ReleaseAll(u)
  \/ \E u \in Uid, k \in 1 .. MaxConfigs : ReleaseOne(u, k)
  \/ \E room \in 0 .. MaxPerSlot : SlotProcess(room)
  \/ \E report \in due, ok \in BOOLEAN : RxSdu(report, ok)
  \/ \E u \in Uid, pid \in 0 .. MaxPid - 1, ok \in BOOLEAN : RxDynamic(u, pid, ok)
  \/ \E u \in Uid, rnti \in Rnti : UeConnects(u, rnti)
  \/ \E u \in Uid : UeRemoved(u)

Spec == Init /\ [][Next]_vars
----------------------------------------------------------------------------
(* The tables hold valid configurations only: processes below MaxPid, rounds *)
(* below the limit of nr_gf_gnb_process_rx(), counters within their width.  *)
TypeOK ==
  /\ configs \in [Uid -> Seq(Config)]
  /\ gfEnabled \in BOOLEAN
  /\ numGfUes \in 0 .. CounterMod - 1
  /\ slotBitmap \subseteq 0 .. BitmapSlots - 1
  /\ maxPeriodicity \in Nat
  /\ pidBitmap \subseteq 0 .. MaxPid - 1
  /\ holder \in [Uid -> Rnti \cup {NoUe}]
  /\ now \in 0 .. Cycle - 1
  /\ due \subseteq [rnti : Rnti, pid : 0 .. MaxPid - 1]

(* gf_slot_bitmap and max_periodicity always describe exactly the           *)
(* configurations in the tables: nr_gf_gnb_configure_ue() and both forms of *)
(* nr_gf_gnb_release_ue() leave no slot marked that nobody uses, and none   *)
(* unmarked that somebody does (the rest of a shifted table included).      *)
SlotsExact ==
  /\ slotBitmap = {s \in 0 .. BitmapSlots - 1 : \E c \in Configured(configs) : IsOccasion(c, s)}
  /\ \A c \in Configured(configs) : c.period <= maxPeriodicity
  /\ maxPeriodicity # 0 => \E c \in Configured(configs) : c.period = maxPeriodicity

(* While any UE has a configuration the manager is enabled: if it were not, *)
(* _nr_rx_sdu() would hand the report of a grant-free PUSCH to the dynamic  *)
(* HARQ handler, which would flush the UE's feedback list.                  *)
EnabledWhileConfigured == (\E u \in Uid : configs[u] # <<>>) => gfEnabled

(* A process id is marked as used for grant-free only while a configuration *)
(* uses it.                                                                 *)
PidBitmapUsed == pidBitmap \subseteq {c.pid : c \in Configured(configs)}

(* What is derived from the tables describes them: slot bitmap and maximum  *)
(* period, enable flag, marked processes.                                   *)
SummaryExact == SlotsExact /\ EnabledWhileConfigured /\ PidBitmapUsed

(* A configuration that names the process of an earlier one of the same uid *)
(* is never credited with a reception: its expected NDI and round stay at   *)
(* zero while receptions are ordered for it, also when the earlier one      *)
(* belongs to a UE that held the uid before.                                *)
ShadowedStaysIdle ==
  \A u \in Uid : \A i, j \in 1 .. Len(configs[u]) :
    (i < j /\ configs[u][i].pid = configs[u][j].pid)
      => (configs[u][j].ndi = 0 /\ configs[u][j].round = 0)
=============================================================================
