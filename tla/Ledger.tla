------------------------------- MODULE Ledger -------------------------------
(***************************************************************************)
(* What the usage ledger promises (usage.go, ADR 0004): the totals count   *)
(* what was recorded and nothing else, and a stop of the gateway or of the *)
(* machine takes them back at most to what had safely reached the disk.    *)
(***************************************************************************)
EXTENDS Naturals

CONSTANT Days       (* calendar days *)

VARIABLES
  total,            (* tokens of each day, as the gateway has them *)
  kept              (* tokens of each day that no stop can take back *)

ledgerVars == <<total, kept>>

Totals == [Days -> Nat]
AtMost(a, b) == \A d \in Days : a[d] <= b[d]

Init ==
  /\ kept \in Totals
  /\ total = kept

Record(d) ==
  /\ total' \in Totals
  /\ total'[d] >= total[d]
  /\ \A e \in Days \ {d} : total'[e] = total[e]
  /\ UNCHANGED kept

Keep ==
  /\ kept' \in Totals
  /\ AtMost(kept, kept') /\ AtMost(kept', total)
  /\ UNCHANGED total

Stop ==
  /\ total' \in Totals
  /\ AtMost(kept, total') /\ AtMost(total', total)
  /\ UNCHANGED kept

Next == (\E d \in Days : Record(d)) \/ Keep \/ Stop

Spec == Init /\ [][Next]_ledgerVars
=============================================================================
