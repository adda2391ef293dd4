----------------------------- MODULE StatusModel -----------------------------
(***************************************************************************)
(* The status vocabulary and the roll-up of an item's tasks to its derived *)
(* status, as the server (server/lib/model.ts) and the CLI                 *)
(* (todo/status.py) both compute it.                                       *)
(***************************************************************************)
EXTENDS Naturals, Sequences

Statuses ==
  {"requested", "todo", "in-triage", "in-progress", "review", "ready-for-qa",
   "in-qa", "qa-approved", "qa-rejected", "ready-to-deploy", "deployed",
   "blocked", "deferred", "cancelled", "done"}

Complete == {"done", "deployed"}
Terminal == Complete \cup {"cancelled"}
Parked   == {"deferred", "cancelled"}

(* The in-flight statuses, the one that wins first. *)
CalcPrecedence ==
  <<"qa-rejected", "in-progress", "blocked", "in-qa", "ready-for-qa", "review",
    "qa-approved", "ready-to-deploy", "in-triage", "requested", "todo">>

NoStatus == "none"

(* The derived status of an item whose tasks have the statuses in S.  Both *)
(* implementations only ask of the list which statuses occur in it, so a   *)
(* set stands for it.                                                      *)
DeriveCalcStatus(S) ==
  LET live   == S \ Parked
      ranked == {i \in DOMAIN CalcPrecedence : CalcPrecedence[i] \in live}
  IN  IF S = {} THEN NoStatus
      ELSE IF live = {} THEN (IF S = {"cancelled"} THEN "cancelled" ELSE "deferred")
      ELSE IF live = {"deployed"} THEN "deployed"
      ELSE IF live \subseteq Complete THEN "done"
      ELSE IF ranked = {} THEN "todo"
      ELSE CalcPrecedence[CHOOSE i \in ranked : \A j \in ranked : i <= j]
=============================================================================
