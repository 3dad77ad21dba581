----------------------------- MODULE UlCalendar -----------------------------
(***************************************************************************)
(* What the gNB MAC promises the PHY about uplink slots: whatever is filed *)
(* in a slot for d slots later is part of the UL_tti_req of that later     *)
(* slot, of no other, and the request names the slot it is for.            *)
(***************************************************************************)
EXTENDS Naturals

CONSTANTS Pdu,       \* what can be filed
          Horizon,   \* PDUs are filed for less than Horizon slots ahead
          Cycle      \* slots until the frame number wraps

VARIABLES now,       \* the slot the MAC works on next
          plan,      \* plan[d]: what is filed for d slots after now
          filed,     \* what the last slot filed: distance and PDU
          sent       \* the UL_tti_req the last slot handed to the PHY

vars == <<now, plan, filed, sent>>

Init ==
  /\ now \in 0 .. Cycle - 1
  /\ plan = [d \in 0 .. Horizon - 2 |-> {}]
  /\ filed = {}
  /\ sent = [slot |-> (now + Cycle - 1) % Cycle, pdus |-> {}]

FiledFor(d) == {f[2] : f \in {g \in filed' : g[1] = d}}
Planned(d) == IF d < Horizon - 1 THEN plan[d] ELSE {}

Slot ==
  /\ filed' \subseteq (0 .. Horizon - 1) \X Pdu
  /\ sent' = [slot |-> now, pdus |-> Planned(0) \cup FiledFor(0)]
  /\ plan' = [d \in 0 .. Horizon - 2 |-> Planned(d + 1) \cup FiledFor(d + 1)]
  /\ now' = (now + 1) % Cycle

Spec == Init /\ [][Slot]_vars
=============================================================================
