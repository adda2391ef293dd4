------------------------------ MODULE JiraOutbox ------------------------------
(***************************************************************************)
(* The todo -> Jira outbox (server/lib/jira/outbound.ts, flush.ts).  An    *)
(* item's move queues a transition for every issue the item names, in the  *)
(* transaction that moves the item.  A flush, started after a request or   *)
(* by the cron, takes the rows that are due one by one: it leases a row by *)
(* its time of claim, decides in three queries whether to send it, and     *)
(* sends it.  Every query is a step of its own and flushes overlap; a      *)
(* flush may be killed at any of them, and Jira may fail or do as asked    *)
(* and not be heard.                                                       *)
(*                                                                         *)
(* The lease outlasts a delivery: its three calls to Jira time out after a *)
(* minute each, the lease after five, so only a killed flush's runs out.   *)
(***************************************************************************)
EXTENDS Naturals, Sequences, FiniteSets

CONSTANTS
  Flush,        \* flushes that may run at once
  Issue,        \* the issues the item's jira field names
  JiraStatus,
  Unreachable,  \* statuses an issue has no transition to
  MAX_ATTEMPTS, \* attempts at one row, at least 1
  MaxMoves, MaxFaults, MaxChanges   \* bounds: moves of the item, failed calls and killed flushes, settings saved

VARIABLES
  rows,      \* jira_outbox, in the order of their ids
  flush,     \* flush -> where it is, and its variables
  settings,  \* the project's jira_outbound: are writes on, and what is never moved to
  jira,      \* issue -> its status in Jira
  log,       \* rows whose giving up is in the item's dev log
  used

vars == <<rows, flush, settings, jira, log, used>>

(* A row's claim is "none", "held" while its lease lasts, then "stale".    *)
NewRow(key, status) ==
  [key |-> key, status |-> status, attempts |-> 0, claim |-> "none", due |-> TRUE,
   done |-> FALSE, result |-> "none"]

(* With writes off a row is recorded as done.                              *)
DryRun(row) == [row EXCEPT !.done = TRUE, !.result = "dry_run"]

(* "row" is the id of the row the flush works on, "attempts" the row's as  *)
(* the claim returned them.                                                *)
AtRest == [at |-> "idle", todo |-> {}, crashed |-> {}, row |-> 0, attempts |-> 0]

Init ==
  /\ rows = <<>>
  /\ flush = [f \in Flush |-> AtRest]
  /\ settings = [writes |-> TRUE, never |-> {}]
  /\ \E s \in JiraStatus \ Unreachable : jira = [k \in Issue |-> s]
  /\ log = {}
  /\ used = [moves |-> 0, faults |-> 0, changes |-> 0]

Ids == DOMAIN rows

-----------------------------------------------------------------------------

(* A row of these issues that waits and that no flush has claimed.         *)
Waiting(row) == ~row.done /\ row.claim = "none"

Superseded(row) == [row EXCEPT !.done = TRUE, !.result = "superseded"]

(* The item makes a move that a trigger sends to Jira.                     *)
QueueJira ==
  /\ used.moves < MaxMoves
  /\ used' = [used EXCEPT !.moves = @ + 1]
  /\ \E status \in JiraStatus \ settings.never :
       \E order \in {q \in [1..Cardinality(Issue) -> Issue] : \A j, k \in DOMAIN q : q[j] = q[k] => j = k} :
         LET before == [r \in Ids |-> IF settings.writes /\ Waiting(rows[r]) THEN Superseded(rows[r])
                                      ELSE rows[r]]
             New(k) == IF settings.writes THEN NewRow(k, status) ELSE DryRun(NewRow(k, status))
         IN  rows' = before \o [j \in DOMAIN order |-> New(order[j])]
  /\ UNCHANGED <<flush, settings, jira, log>>

(* The project's settings are saved, with one thing changed at a time.     *)
SaveSettings ==
  /\ used.changes < MaxChanges
  /\ used' = [used EXCEPT !.changes = @ + 1]
  /\ \/ settings' = [settings EXCEPT !.writes = ~@]
     \/ \E s \in JiraStatus : settings' = [settings EXCEPT !.never = IF s \in @ THEN @ \ {s} ELSE @ \cup {s}]
  /\ UNCHANGED <<rows, flush, jira, log>>

-----------------------------------------------------------------------------
(***************************************************************************)
(* A flush.                                                                *)
(***************************************************************************)

At(f, at) == flush[f].at = at
Go(f, g) == flush' = [flush EXCEPT ![f] = g]
Row(f) == rows[flush[f].row]
Write(r, row) == rows' = [rows EXCEPT ![r] = row]

Claimable(row) == ~row.done /\ row.claim # "held"

(* The ids of the rows that are due are read once, for the whole flush.    *)
SelectDue(f) ==
  /\ At(f, "idle")
  /\ Go(f, [AtRest EXCEPT !.at = "sweep",
              !.todo = {r \in Ids : /\ Claimable(rows[r]) /\ rows[r].due
                                    /\ rows[r].attempts < MAX_ATTEMPTS /\ settings.writes}])
  /\ UNCHANGED <<rows, settings, jira, log, used>>

(* Rows that a killed flush left in their last attempt are let go of.      *)
Abandoned == {r \in Ids : ~rows[r].done /\ rows[r].attempts >= MAX_ATTEMPTS /\ rows[r].claim = "stale"}

Sweep(f) ==
  /\ At(f, "sweep")
  /\ rows' = [r \in Ids |-> IF r \in Abandoned THEN [rows[r] EXCEPT !.claim = "none"] ELSE rows[r]]
  /\ Go(f, [flush[f] EXCEPT !.at = "next", !.crashed = Abandoned])
  /\ UNCHANGED <<settings, jira, log, used>>

(* Their giving up is written into the item's dev log, under the row's id. *)
LogAbandoned(f, r) ==
  /\ At(f, "next")
  /\ r \in flush[f].crashed
  /\ log' = log \cup {r}
  /\ Go(f, [flush[f] EXCEPT !.crashed = @ \ {r}])
  /\ UNCHANGED <<rows, settings, jira, used>>

IsNext(f, r) == flush[f].crashed = {} /\ r \in flush[f].todo /\ \A q \in flush[f].todo : r <= q

(* What the claim asks of a row.                                           *)
MayClaim(row) == Claimable(row)

Claim(f, r) ==
  LET g == [flush[f] EXCEPT !.todo = @ \ {r}]
  IN  /\ At(f, "next")
      /\ IsNext(f, r)
      /\ IF MayClaim(rows[r])
         THEN /\ Write(r, [rows[r] EXCEPT !.attempts = @ + 1, !.claim = "held"])
              /\ Go(f, [g EXCEPT !.at = "never", !.row = r, !.attempts = rows[r].attempts + 1])
         ELSE Go(f, g) /\ UNCHANGED rows
      /\ UNCHANGED <<settings, jira, log, used>>

EndFlush(f) ==
  /\ At(f, "next")
  /\ flush[f].crashed = {} /\ flush[f].todo = {}
  /\ Go(f, AtRest)
  /\ UNCHANGED <<rows, settings, jira, log, used>>

Onward(f) == [flush[f] EXCEPT !.at = "next", !.row = 0]

(* The status has become one that Jira is never moved to.                  *)
CheckNever(f) ==
  /\ At(f, "never")
  /\ IF Row(f).status \in settings.never
     THEN /\ Write(flush[f].row, [Row(f) EXCEPT !.done = TRUE, !.claim = "none", !.result = "refused"])
          /\ Go(f, Onward(f))
     ELSE Go(f, [flush[f] EXCEPT !.at = "newer"]) /\ UNCHANGED rows
  /\ UNCHANGED <<settings, jira, log, used>>

(* A newer transition of the issue; a dry run is none.                     *)
SomeNewer(f) ==
  \E r \in Ids : r > flush[f].row /\ rows[r].key = Row(f).key /\ rows[r].result # "dry_run"

CheckNewer(f) ==
  /\ At(f, "newer")
  /\ IF SomeNewer(f)
     THEN /\ Write(flush[f].row, [Superseded(Row(f)) EXCEPT !.claim = "none"])
          /\ Go(f, Onward(f))
     ELSE Go(f, [flush[f] EXCEPT !.at = "older"]) /\ UNCHANGED rows
  /\ UNCHANGED <<settings, jira, log, used>>

(* Mutant: a row does not wait for an older one on its way.                *)
NoneOlder(f) == FALSE

OlderInFlight(f) ==
  \E r \in Ids : r < flush[f].row /\ rows[r].key = Row(f).key /\ ~rows[r].done /\ rows[r].claim = "held"

(* An older transition is let finish first; this row goes next time.       *)
CheckOlder(f) ==
  /\ At(f, "older")
  /\ IF OlderInFlight(f)
     THEN /\ Write(flush[f].row, [Row(f) EXCEPT !.claim = "none", !.attempts = @ - 1])
          /\ Go(f, Onward(f))
     ELSE Go(f, [flush[f] EXCEPT !.at = "read"]) /\ UNCHANGED rows
  /\ UNCHANGED <<settings, jira, log, used>>

(* The issue is read.  It may be there already.                            *)
ReadIssue(f) ==
  /\ At(f, "read")
  /\ Go(f, [flush[f] EXCEPT !.at = IF jira[Row(f).key] = Row(f).status THEN "skipped"
                                   ELSE IF Row(f).status \in Unreachable THEN "failed" ELSE "post"])
  /\ UNCHANGED <<rows, settings, jira, log, used>>

PostTransition(f) ==
  /\ At(f, "post")
  /\ jira' = [jira EXCEPT ![Row(f).key] = Row(f).status]
  /\ \/ Go(f, [flush[f] EXCEPT !.at = "sent"]) /\ UNCHANGED used
     \/ /\ used.faults < MaxFaults      \* the answer times out
        /\ used' = [used EXCEPT !.faults = @ + 1]
        /\ Go(f, [flush[f] EXCEPT !.at = "failed"])
  /\ UNCHANGED <<rows, settings, log>>

CallFails(f) ==
  /\ At(f, "read") \/ At(f, "post")
  /\ used.faults < MaxFaults
  /\ used' = [used EXCEPT !.faults = @ + 1]
  /\ Go(f, [flush[f] EXCEPT !.at = "failed"])
  /\ UNCHANGED <<rows, settings, jira, log>>

RecordDone(f) ==
  /\ At(f, "sent") \/ At(f, "skipped")
  /\ Write(flush[f].row, [Row(f) EXCEPT !.done = TRUE, !.claim = "none", !.result = flush[f].at])
  /\ Go(f, Onward(f))
  /\ UNCHANGED <<settings, jira, log, used>>

LastAttempt(f) == flush[f].attempts >= MAX_ATTEMPTS

(* The row backs off; after its last attempt it gives up and says so.      *)
RecordFailure(f) ==
  /\ At(f, "failed")
  /\ Write(flush[f].row, [Row(f) EXCEPT !.claim = "none", !.due = FALSE])
  /\ Go(f, IF LastAttempt(f) THEN [flush[f] EXCEPT !.at = "gaveUp"] ELSE Onward(f))
  /\ UNCHANGED <<settings, jira, log, used>>

GaveUp(f) ==
  /\ At(f, "gaveUp")
  /\ log' = log \cup {flush[f].row}
  /\ Go(f, Onward(f))
  /\ UNCHANGED <<rows, settings, jira, used>>

-----------------------------------------------------------------------------

Crash(f) ==
  /\ ~At(f, "idle")
  /\ used.faults < MaxFaults
  /\ used' = [used EXCEPT !.faults = @ + 1]
  /\ Go(f, AtRest)
  /\ UNCHANGED <<rows, settings, jira, log>>

(* From its claim until its outcome is recorded a flush has the row.       *)
Has(f, r) == flush[f].row = r /\ ~At(f, "gaveUp")

LeaseRunsOut(r) ==
  /\ rows[r].claim = "held" /\ \A f \in Flush : ~Has(f, r)
  /\ Write(r, [rows[r] EXCEPT !.claim = "stale"])
  /\ UNCHANGED <<flush, settings, jira, log, used>>

ComesDue(r) ==
  /\ ~rows[r].due /\ ~rows[r].done
  /\ Write(r, [rows[r] EXCEPT !.due = TRUE])
  /\ UNCHANGED <<flush, settings, jira, log, used>>

Step(f) ==
  \/ SelectDue(f) \/ Sweep(f) \/ EndFlush(f)
  \/ CheckNever(f) \/ CheckNewer(f) \/ CheckOlder(f)
  \/ ReadIssue(f) \/ PostTransition(f) \/ RecordDone(f) \/ RecordFailure(f) \/ GaveUp(f)
  \/ \E r \in Ids : LogAbandoned(f, r) \/ Claim(f, r)

Clock == \E r \in Ids : LeaseRunsOut(r) \/ ComesDue(r)

Next ==
  \/ QueueJira \/ SaveSettings \/ Clock
  \/ \E f \in Flush : Step(f) \/ CallFails(f) \/ Crash(f)

Spec == Init /\ [][Next]_vars

-----------------------------------------------------------------------------

(* Flushes that overlap never have one row in hand, so never send it twice *)
(* at a time; and a row one of them has in hand is under its lease.        *)
OneSender ==
  \A r \in Ids : \A f, g \in Flush :
    Has(f, r) => rows[r].claim = "held" /\ ~rows[r].done /\ (Has(g, r) => f = g)

(* What became of the row, for JiraDelivery.                               *)
Became(r) ==
  IF rows[r].result \in {"sent", "skipped"} THEN "delivered"
  ELSE IF rows[r].done THEN "dropped"
  ELSE IF \E f \in Flush : Has(f, r) THEN "in hand" ELSE "waiting"

Moves == [r \in Ids |-> [key |-> rows[r].key, status |-> rows[r].status, became |-> Became(r)]]

Settled(r) ==
  /\ r \in Ids
  /\ rows[r].done \/ (rows[r].attempts >= MAX_ATTEMPTS /\ rows[r].claim = "none")

(* Every move that was queued is delivered, superseded, refused or given   *)
(* up in the end, if the project's writes stay on.                         *)
RowsSettle ==
  <>[]settings.writes => \A r \in 1..(MaxMoves * Cardinality(Issue)) : r \in Ids ~> Settled(r)
=============================================================================
