---------------------------- MODULE HarqPromise ----------------------------
(***************************************************************************)
(* What the gNB promises about the HARQ processes of one UE in one         *)
(* direction: every process runs stop-and-wait.  A process holds at most   *)
(* one transport block, a block is sent at most RoundMax times, the new    *)
(* data indicator flips exactly when the gNB is done with the block, and   *)
(* only a reset drops a block without flipping it.  GnbUlHarq and          *)
(* GnbDlHarq implement this.                                               *)
(***************************************************************************)
EXTENDS Naturals

CONSTANTS Pid,        \* identifiers of HARQ processes
          RoundMax    \* transmissions of one block: harq_round_max

VARIABLES st,         \* "none" (not configured), "idle", "inflight", "retx"
          ndi,        \* new data indicator of the next or current block
          round,      \* transmissions of the current block before this one
          harqOff     \* processes without feedback, fixed at startup

vars == <<st, ndi, round, harqOff>>

State == {"none", "idle", "inflight", "retx"}

(* Types of the promise: rounds of a block are counted from zero.           *)
TypeOK ==
  /\ st \in [Pid -> State]
  /\ ndi \in [Pid -> {0, 1}]
  /\ round \in [Pid -> 0 .. RoundMax - 1]
  /\ harqOff \subseteq Pid

Init ==
  /\ st \in [Pid -> {"none", "idle"}]
  /\ ndi = [p \in Pid |-> 0]
  /\ round = [p \in Pid |-> 0]
  /\ harqOff \in SUBSET Pid

Flip(p) == ndi' = [ndi EXCEPT ![p] = 1 - ndi[p]]

\* Processes become configured.
Enable(ps) ==
  /\ ps # {}
  /\ st' = [p \in Pid |-> IF p \in ps THEN "idle" ELSE st[p]]
  /\ UNCHANGED <<ndi, round, harqOff>>

\* A new block, or the same block again with the same indicator.
Send(p) ==
  /\ p \notin harqOff
  /\ \/ st[p] = "idle" /\ round[p] = 0
     \/ st[p] = "retx" /\ round[p] > 0
  /\ st' = [st EXCEPT ![p] = "inflight"]
  /\ UNCHANGED <<ndi, round, harqOff>>

\* Without feedback a block is forgotten as soon as it is granted.
SendUnacknowledged(p) ==
  /\ p \in harqOff
  /\ st[p] = "idle"
  /\ Flip(p)
  /\ UNCHANGED <<st, round, harqOff>>

\* The block is decoded, or given up after its last transmission.
Finish(p) ==
  /\ st[p] = "inflight"
  /\ st' = [st EXCEPT ![p] = "idle"]
  /\ round' = [round EXCEPT ![p] = 0]
  /\ Flip(p)
  /\ UNCHANGED harqOff

Fail(p) ==
  /\ st[p] = "inflight"
  /\ round[p] < RoundMax - 1
  /\ st' = [st EXCEPT ![p] = "retx"]
  /\ round' = [round EXCEPT ![p] = round[p] + 1]
  /\ UNCHANGED <<ndi, harqOff>>

Reset ==
  /\ st' = [p \in Pid |-> IF st[p] = "none" THEN "none" ELSE "idle"]
  /\ round' = [p \in Pid |-> 0]
  /\ UNCHANGED <<ndi, harqOff>>

Next ==
  \/ \E p \in Pid : \/ Send(p)
                    \/ SendUnacknowledged(p)
                    \/ Finish(p)
                    \/ Fail(p)
  \/ Reset
  \/ \E ps \in SUBSET {p \in Pid : st[p] = "none"} : Enable(ps)

Spec == Init /\ [][Next]_vars
=============================================================================
