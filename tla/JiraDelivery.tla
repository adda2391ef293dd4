----------------------------- MODULE JiraDelivery -----------------------------
(***************************************************************************)
(* What the todo -> Jira outbox promises, leases and queries aside: a move *)
(* is sent by one flush at a time, while that flush has it in hand; what   *)
(* is done stays done; and once a move of an issue is delivered, no older  *)
(* one reaches Jira.  JiraOutbox implements it.                            *)
(***************************************************************************)
EXTENDS Naturals, Sequences

CONSTANTS Issue, JiraStatus

VARIABLES
  moves,   \* what was queued, in order: an issue, a status, and what became of it
  jira     \* issue -> its status in Jira

vars == <<moves, jira>>

Became == {"waiting", "in hand", "delivered", "dropped"}

DeliveryInit ==
  /\ moves = <<>>
  /\ jira \in [Issue -> JiraStatus]

(* Moves are queued, waiting or already dropped; older ones that wait are  *)
(* dropped for them.                                                       *)
Queue ==
  /\ Len(moves') > Len(moves)
  /\ \A r \in DOMAIN moves' :
       IF r \in DOMAIN moves
       THEN \/ moves'[r] = moves[r]
            \/ moves[r].became = "waiting" /\ moves'[r] = [moves[r] EXCEPT !.became = "dropped"]
       ELSE moves'[r].became \in {"waiting", "dropped"}
  /\ UNCHANGED jira

Becomes(r, became) == moves' = [moves EXCEPT ![r].became = became] /\ UNCHANGED jira

Take(r) == moves[r].became = "waiting" /\ Becomes(r, "in hand")

(* Sent, refused, failed, or given back as its flush was killed.           *)
LetGo(r) == moves[r].became = "in hand" /\ \E b \in Became \ {"in hand"} : Becomes(r, b)

DeliveredSince(r) ==
  \E q \in DOMAIN moves : q > r /\ moves[q].key = moves[r].key /\ moves[q].became = "delivered"

Send(r) ==
  /\ moves[r].became = "in hand" /\ ~DeliveredSince(r)
  /\ jira' = [jira EXCEPT ![moves[r].key] = moves[r].status]
  /\ UNCHANGED moves

DeliveryNext == Queue \/ \E r \in DOMAIN moves : Take(r) \/ LetGo(r) \/ Send(r)

DeliverySpec == DeliveryInit /\ [][DeliveryNext]_vars
=============================================================================
