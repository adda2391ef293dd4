------------------------------ MODULE ActionRuns ------------------------------
(***************************************************************************)
(* The outbox of Actions (server/lib/actions/runs.ts, deliver.ts): a move  *)
(* or a person's click queues a run in the transaction that makes it, and  *)
(* flushes deliver the runs that are due: a REST call, or a message to a   *)
(* Watchtower session, started or resumed if need be.  As in JiraOutbox,   *)
(* every query is a step, flushes overlap, and one may be killed anywhere. *)
(*                                                                         *)
(* A run is leased for five minutes.  A REST call takes 15 seconds at      *)
(* most; resuming a session in vain, starting another, waiting for it and  *)
(* retrying its input box may add up to more than the lease, so a delivery *)
(* may outlast it.  What follows is in the model; the properties tell of   *)
(* the runs to which it never happened.                                    *)
(***************************************************************************)
EXTENDS Naturals, Sequences, FiniteSets

CONSTANTS
  Flush,         \* flushes that may run at once
  MAX_ATTEMPTS,  \* attempts at one row, at least 1
  MaxRuns, MaxFailures, MaxCrashes   \* bounds: runs queued, calls and log lines that fail, killed flushes

VARIABLES
  runs,       \* action_runs, in the order of their ids; outlasted (history): a delivery outlasted its lease
  flush,      \* flush -> where it is, and its variables
  devLog,     \* run -> the outcome its line in the item's dev log tells
  used

vars == <<runs, flush, devLog, used>>

(* A claim is "none", "held" while its lease lasts, then "stale".          *)
NewRun == [attempts |-> 0, claim |-> "none", due |-> TRUE, done |-> FALSE, error |-> FALSE, outlasted |-> FALSE]

AtRest == [at |-> "idle", todo |-> {}, crashed |-> {}, run |-> 0, attempts |-> 0]

Init ==
  /\ runs = <<>> /\ devLog = <<>>
  /\ flush = [f \in Flush |-> AtRest]
  /\ used = [failures |-> 0, crashes |-> 0]

Ids == DOMAIN runs
At(f, at) == flush[f].at = at
Go(f, g) == flush' = [flush EXCEPT ![f] = g]
Run(f) == runs[flush[f].run]
Write(r, run) == runs' = [runs EXCEPT ![r] = run]
Onward(f) == [flush[f] EXCEPT !.at = "next", !.run = 0]

Fails ==
  /\ used.failures < MaxFailures
  /\ used' = [used EXCEPT !.failures = @ + 1]

QueueRun ==
  /\ Len(runs) < MaxRuns
  /\ runs' = Append(runs, NewRun)
  /\ devLog' = Append(devLog, "none")
  /\ UNCHANGED <<flush, used>>

-----------------------------------------------------------------------------

(* Runs that a killed flush left in their last attempt are given up.       *)
Abandoned == {r \in Ids : ~runs[r].done /\ runs[r].attempts >= MAX_ATTEMPTS /\ runs[r].claim = "stale"}

Sweep(f) ==
  /\ At(f, "idle")
  /\ runs' = [r \in Ids |-> IF r \in Abandoned
                             THEN [runs[r] EXCEPT !.claim = "none", !.done = TRUE, !.error = TRUE]
                             ELSE runs[r]]
  /\ Go(f, [AtRest EXCEPT !.at = "swept", !.crashed = Abandoned])
  /\ UNCHANGED <<devLog, used>>

(* A run's line in the dev log is an op named for the run: a second one    *)
(* is a replay of the first.                                               *)
Logged(r, outcome) == devLog' = [devLog EXCEPT ![r] = IF @ = "none" THEN outcome ELSE @]

(* A line that cannot be written ends the flush here.                      *)
LogAbandoned(f) ==
  /\ At(f, "swept")
  /\ \E r \in flush[f].crashed :
       \/ Logged(r, "gave up") /\ Go(f, [flush[f] EXCEPT !.crashed = @ \ {r}]) /\ UNCHANGED used
       \/ Fails /\ Go(f, AtRest) /\ UNCHANGED devLog
  /\ UNCHANGED <<runs>>

Claimable(run) == ~run.done /\ run.claim # "held"

SelectDue(f) ==
  /\ At(f, "swept") /\ flush[f].crashed = {}
  /\ Go(f, [flush[f] EXCEPT !.at = "next",
              !.todo = {r \in Ids : Claimable(runs[r]) /\ runs[r].attempts < MAX_ATTEMPTS /\ runs[r].due}])
  /\ UNCHANGED <<runs, devLog, used>>

(* What the claim asks of a run; it does not look at attempts or due.      *)
MayClaim(run) == Claimable(run)

Claim(f) ==
  /\ At(f, "next")
  /\ \E r \in flush[f].todo :
       LET g == [flush[f] EXCEPT !.todo = @ \ {r}]
       IN  /\ \A q \in flush[f].todo : r <= q
           /\ IF MayClaim(runs[r])
              THEN /\ Write(r, [runs[r] EXCEPT !.attempts = @ + 1, !.claim = "held"])
                   /\ Go(f, [g EXCEPT !.at = "deliver", !.run = r, !.attempts = runs[r].attempts + 1])
              ELSE Go(f, g) /\ UNCHANGED runs
  /\ UNCHANGED <<devLog, used>>

EndFlush(f) ==
  /\ At(f, "next") /\ flush[f].todo = {}
  /\ Go(f, AtRest)
  /\ UNCHANGED <<runs, devLog, used>>

(* The calls succeed, or one of them fails or is not answered.             *)
Deliver(f) ==
  /\ At(f, "deliver")
  /\ \/ Go(f, [flush[f] EXCEPT !.at = "sent"]) /\ UNCHANGED used
     \/ Fails /\ Go(f, [flush[f] EXCEPT !.at = "failed"])
  /\ UNCHANGED <<runs, devLog>>

(* Mutant: the error of an earlier attempt stays in the row.               *)
SentWithError(f) == [Run(f) EXCEPT !.done = TRUE, !.claim = "none"]

(* The outcome is written whoever has the lease by now.                    *)
Sent(f) == [Run(f) EXCEPT !.done = TRUE, !.claim = "none", !.error = FALSE]

RecordSent(f) ==
  /\ At(f, "sent")
  /\ Write(flush[f].run, Sent(f))
  /\ Go(f, [flush[f] EXCEPT !.at = "sentLine"])
  /\ UNCHANGED <<devLog, used>>

(* If the line cannot be written, what follows a failed call follows.      *)
LogSent(f) ==
  /\ At(f, "sentLine")
  /\ \/ Logged(flush[f].run, "sent") /\ Go(f, Onward(f)) /\ UNCHANGED used
     \/ Fails /\ Go(f, [flush[f] EXCEPT !.at = "failed"]) /\ UNCHANGED devLog
  /\ UNCHANGED <<runs>>

LastAttempt(f) == flush[f].attempts >= MAX_ATTEMPTS

(* done_at is set in the last attempt, and unset in any other.             *)
Failed(f) == [Run(f) EXCEPT !.error = TRUE, !.claim = "none", !.due = FALSE, !.done = LastAttempt(f)]

RecordFailure(f) ==
  /\ At(f, "failed")
  /\ Write(flush[f].run, Failed(f))
  /\ Go(f, IF LastAttempt(f) THEN [flush[f] EXCEPT !.at = "gaveUp"] ELSE Onward(f))
  /\ UNCHANGED <<devLog, used>>

LogGaveUp(f) ==
  /\ At(f, "gaveUp")
  /\ \/ Logged(flush[f].run, "gave up") /\ Go(f, Onward(f)) /\ UNCHANGED used
     \/ Fails /\ Go(f, AtRest) /\ UNCHANGED devLog
  /\ UNCHANGED <<runs>>

-----------------------------------------------------------------------------

Crash(f) ==
  /\ ~At(f, "idle")
  /\ used.crashes < MaxCrashes
  /\ used' = [used EXCEPT !.crashes = @ + 1]
  /\ Go(f, AtRest)
  /\ UNCHANGED <<runs, devLog>>

(* From its claim until its outcome is in the row, a flush has the run.    *)
Has(f, r) == flush[f].run = r /\ ~At(f, "gaveUp")

InHand(r) == \E f \in Flush : Has(f, r)

(* What follows a delivery is a query or two, well within the lease.       *)
LeaseRunsOut(r) ==
  /\ runs[r].claim = "held"
  /\ \A f \in Flush : Has(f, r) => At(f, "deliver")
  /\ Write(r, [runs[r] EXCEPT !.claim = "stale", !.outlasted = @ \/ InHand(r)])
  /\ UNCHANGED <<flush, devLog, used>>

ComesDue(r) ==
  /\ ~runs[r].due /\ ~runs[r].done
  /\ Write(r, [runs[r] EXCEPT !.due = TRUE])
  /\ UNCHANGED <<flush, devLog, used>>

Step(f) ==
  \/ Sweep(f) \/ LogAbandoned(f) \/ SelectDue(f) \/ Claim(f) \/ EndFlush(f)
  \/ Deliver(f) \/ RecordSent(f) \/ LogSent(f) \/ RecordFailure(f) \/ LogGaveUp(f)

Clock == \E r \in Ids : LeaseRunsOut(r) \/ ComesDue(r)

Next == QueueRun \/ Clock \/ \E f \in Flush : Step(f) \/ Crash(f)

Spec == Init /\ [][Next]_vars

-----------------------------------------------------------------------------

InTime(r) == ~runs[r].outlasted

(* While its deliveries end within their leases, two flushes never deliver *)
(* one run at the same time, and a flush that delivers has the run's       *)
(* lease: the session gets no message twice at once.                       *)
OneDelivery ==
  \A r \in Ids : InTime(r) => \A f, g \in Flush :
    Has(f, r) /\ At(f, "deliver") =>
      runs[r].claim = "held" /\ ~runs[r].done /\ (Has(g, r) => f = g)

(* What the dashboard shows of a run that is done is what the dev log      *)
(* tells of it, unless a delivery of it outlasted its lease.               *)
LogTellsOutcome ==
  \A r \in Ids : InTime(r) /\ runs[r].done /\ devLog[r] # "none" => (runs[r].error <=> devLog[r] = "gave up")

(* A run is delivered, given up, or still due a retry (runState): none is  *)
(* left open that nobody lists again.  It does not hold of a run whose     *)
(* delivery outlasts its lease: the run MCActionRunsStuck shows it.        *)
NoRunIsStranded ==
  \A r \in Ids :
    runs[r].done \/ InHand(r) \/ runs[r].attempts < MAX_ATTEMPTS \/ runs[r].claim # "none"

(* Every run is sent or given up in the end: none stays "will retry",      *)
(* unless a delivery of it outlasts its lease.                             *)
RunsSettle == \A r \in 1..MaxRuns : r \in Ids ~> (r \in Ids /\ (runs[r].done \/ ~InTime(r)))
=============================================================================
