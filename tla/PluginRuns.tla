------------------------------ MODULE PluginRuns ------------------------------
(***************************************************************************)
(* The server's plugin runner (server/lib/plugins/server.ts): events of    *)
(* one item are queued, and flushes deliver them.  A delivery runs the     *)
(* event's plugin instances one after another: it reads something outside  *)
(* (a pull request, a ticket) and writes what it found into the item, in   *)
(* units that commit on their own.                                         *)
(*                                                                         *)
(* An event is leased under a token that is renewed before each instance   *)
(* runs.  The lease outlasts a run by two minutes; waiting for the item's  *)
(* lock and writing may take longer, so that the event is taken over.      *)
(***************************************************************************)
EXTENDS Naturals, Sequences, FiniteSets

CONSTANTS
  Flush,        \* deliveries that may be under way at once
  Instances,    \* the plugin instances an event fires, in order
  MAX_ATTEMPTS,  \* attempts at one row, at least 1
  MaxEvents, MaxFailures, MaxCrashes   \* bounds: events queued, runs that fail for now, killed deliveries

VARIABLES
  events,  \* plugin_events, in the order of their ids
  flush,   \* flush -> where it is, and its variables
  lock,    \* instance -> who holds its row of plugin_locks for the item
  shown,   \* instance -> what it has in the item: which claim of which event wrote it, and whether all of it
  log,     \* event and instance whose giving up is in the dev log
  used

vars == <<events, flush, lock, shown, log, used>>

Instance == {Instances[i] : i \in DOMAIN Instances}

(* A lease token is new in every claim, and so is the number of attempts:  *)
(* it stands for the token.  No token is 0.                                *)
NewEvent == [attempts |-> 0, claim |-> "none", lease |-> 0, due |-> TRUE, done |-> FALSE, finished |-> {}]

AtRest == [at |-> "idle", todo |-> {}, ev |-> 0, lease |-> 0, skip |-> {}, next |-> 1, found |-> "nothing", retry |-> FALSE]

Init ==
  /\ events = <<>>
  /\ flush = [f \in Flush |-> AtRest]
  /\ lock = [i \in Instance |-> "free"]
  /\ shown = [i \in Instance |-> [ev |-> 0, lease |-> 0, whole |-> TRUE]]
  /\ log = {}
  /\ used = [failures |-> 0, crashes |-> 0]

Ids == DOMAIN events
At(f, at) == flush[f].at = at
Go(f, g) == flush' = [flush EXCEPT ![f] = g]
To(f, at) == Go(f, [flush[f] EXCEPT !.at = at])
Event(f) == events[flush[f].ev]
Write(r, event) == events' = [events EXCEPT ![r] = event]
Current(f) == Instances[flush[f].next]
Onward(f) == [AtRest EXCEPT !.at = "next", !.todo = flush[f].todo]

(* The flush's token is still the event's.                                 *)
HoldsLease(f) == Event(f).lease = flush[f].lease

QueueEvent ==
  /\ Len(events) < MaxEvents
  /\ events' = Append(events, NewEvent)
  /\ UNCHANGED <<flush, lock, shown, log, used>>

-----------------------------------------------------------------------------
(***************************************************************************)
(* Taking an event.                                                        *)
(***************************************************************************)

(* Mutant: an event left in its last attempt stays claimed.                *)
NoneAbandoned == {}

Abandoned == {r \in Ids : ~events[r].done /\ events[r].attempts >= MAX_ATTEMPTS /\ events[r].claim = "stale"}

Sweep(f) ==
  /\ At(f, "idle")
  /\ events' = [r \in Ids |-> IF r \in Abandoned
                               THEN [events[r] EXCEPT !.claim = "none", !.lease = 0, !.done = TRUE]
                               ELSE events[r]]
  /\ To(f, "swept")
  /\ UNCHANGED <<lock, shown, log, used>>

Claimable(event) == ~event.done /\ event.claim # "held"

SelectDue(f) ==
  /\ At(f, "swept")
  /\ Go(f, [flush[f] EXCEPT !.at = "next",
              !.todo = {r \in Ids : Claimable(events[r]) /\ events[r].attempts < MAX_ATTEMPTS /\ events[r].due}])
  /\ UNCHANGED <<events, lock, shown, log, used>>

(* Mutant: a delivery starts over.                                         *)
NothingFinished(event) == {}

(* The instances that earlier claims of the event finished.                *)
FinishedBefore(event) == event.finished

(* The claim gives a new token, and takes what is finished as it is now.   *)
Claimed(event) == [event EXCEPT !.attempts = @ + 1, !.claim = "held", !.lease = event.attempts + 1]

Claim(f) ==
  /\ At(f, "next")
  /\ \E r \in flush[f].todo :
       LET todo == flush[f].todo \ {r}
       IN  /\ \A q \in flush[f].todo : r <= q
           /\ IF Claimable(events[r])
              THEN /\ Write(r, Claimed(events[r]))
                   /\ Go(f, [AtRest EXCEPT !.at = "before", !.todo = todo, !.ev = r,
                                           !.lease = events[r].attempts + 1, !.skip = FinishedBefore(events[r])])
              ELSE Go(f, [flush[f] EXCEPT !.todo = todo]) /\ UNCHANGED events
  /\ UNCHANGED <<lock, shown, log, used>>

EndFlush(f) ==
  /\ At(f, "next") /\ flush[f].todo = {}
  /\ Go(f, AtRest)
  /\ UNCHANGED <<events, lock, shown, log, used>>

-----------------------------------------------------------------------------
(***************************************************************************)
(* One instance after another.                                             *)
(***************************************************************************)

InstancesLeft(f) == flush[f].next <= Len(Instances)
PastThis(f) == [flush[f] EXCEPT !.at = "before", !.next = @ + 1, !.found = "nothing"]

(* An instance that is finished is left out.  Before one runs the lease is *)
(* renewed; a flush that lost it leaves the event to the other.            *)
Before(f) ==
  /\ At(f, "before") /\ InstancesLeft(f)
  /\ IF Current(f) \in flush[f].skip THEN Go(f, PastThis(f)) /\ UNCHANGED events
     ELSE IF HoldsLease(f) THEN Write(flush[f].ev, [Event(f) EXCEPT !.claim = "held"]) /\ To(f, "run")
     ELSE Go(f, Onward(f)) /\ UNCHANGED events
  /\ UNCHANGED <<lock, shown, log, used>>

(* A run finds something to attach, or fails, perhaps only for now.        *)
RunInstance(f) ==
  /\ At(f, "run")
  /\ \/ \E found \in {"something", "error"} : Go(f, [flush[f] EXCEPT !.at = "lock", !.found = found]) /\ UNCHANGED used
     \/ /\ used.failures < MaxFailures
        /\ used' = [used EXCEPT !.failures = @ + 1]
        /\ Go(f, [flush[f] EXCEPT !.at = "lock", !.found = "transient"])
  /\ UNCHANGED <<events, lock, shown, log>>

(* Mutant: the lock is taken from whoever has it.                          *)
LockTaken(f) == TRUE

LockFree(f) == lock[Current(f)] = "free"

TakeLock(f) ==
  /\ At(f, "lock") /\ LockFree(f)
  /\ lock' = [lock EXCEPT ![Current(f)] = f]
  /\ To(f, "check")
  /\ UNCHANGED <<events, shown, log, used>>

(* After two minutes of waiting the delivery fails, to be tried again.     *)
LockBusy(f) ==
  /\ At(f, "lock") /\ ~LockFree(f)
  /\ Go(f, [flush[f] EXCEPT !.at = "failed", !.retry = TRUE])
  /\ UNCHANGED <<events, lock, shown, log, used>>

(* Mutant: who has the lock need not have the lease.                       *)
AnyLease(f) == TRUE

(* With the lock, the flush makes sure that it still has the lease.        *)
MayApply(f) == HoldsLease(f)

(* A run that failed for now is not final before the last attempt.         *)
Final(f) == flush[f].found # "transient" \/ flush[f].lease >= MAX_ATTEMPTS

CheckLease(f) ==
  /\ At(f, "check")
  /\ To(f, IF ~MayApply(f) THEN "lost"
           ELSE CASE flush[f].found = "something" -> "apply"
                  [] flush[f].found = "transient" /\ Final(f) -> "giveUp"
                  [] OTHER -> "record")
  /\ UNCHANGED <<events, lock, shown, log, used>>

(* What is attached is written in several units of ops; then removals.     *)
Apply(f) ==
  /\ At(f, "apply")
  /\ shown' = [shown EXCEPT ![Current(f)] = [ev |-> flush[f].ev, lease |-> flush[f].lease, whole |-> FALSE]]
  /\ To(f, "applied")
  /\ UNCHANGED <<events, lock, log, used>>

ApplyRest(f) ==
  /\ At(f, "applied")
  /\ shown' = [shown EXCEPT ![Current(f)] = [ev |-> flush[f].ev, lease |-> flush[f].lease, whole |-> TRUE]]
  /\ To(f, "record")
  /\ UNCHANGED <<events, lock, log, used>>

GiveUp(f) ==
  /\ At(f, "giveUp")
  /\ log' = log \cup {<<flush[f].ev, Current(f)>>}
  /\ To(f, "record")
  /\ UNCHANGED <<events, lock, shown, used>>

(* A final run finishes its instance, under the lease; another is run      *)
(* again in the next delivery.                                             *)
Record(f) ==
  /\ At(f, "record")
  /\ IF ~Final(f) THEN Go(f, [flush[f] EXCEPT !.at = "release", !.retry = TRUE]) /\ UNCHANGED events
     ELSE IF HoldsLease(f)
     THEN To(f, "release") /\ Write(flush[f].ev, [Event(f) EXCEPT !.finished = @ \cup {Current(f)}])
     ELSE To(f, "lost") /\ UNCHANGED events
  /\ UNCHANGED <<lock, shown, log, used>>

(* What was not foreseen ends the delivery for good, with the lock let go. *)
Break(f) ==
  /\ At(f, "apply") \/ At(f, "applied") \/ At(f, "giveUp")
  /\ used.failures < MaxFailures
  /\ used' = [used EXCEPT !.failures = @ + 1]
  /\ lock' = [lock EXCEPT ![Current(f)] = IF @ = f THEN "free" ELSE @]
  /\ To(f, "done")
  /\ UNCHANGED <<events, shown, log>>

(* The lock is let go of, also by a flush that lost the event.             *)
Release(f) ==
  /\ At(f, "release") \/ At(f, "lost")
  /\ lock' = [lock EXCEPT ![Current(f)] = IF @ = f THEN "free" ELSE @]
  /\ Go(f, IF At(f, "lost") THEN Onward(f) ELSE PastThis(f))
  /\ UNCHANGED <<events, shown, log, used>>

-----------------------------------------------------------------------------
(***************************************************************************)
(* The end of a delivery.  What it writes asks for the lease.              *)
(***************************************************************************)

EndDelivery(f) ==
  /\ At(f, "before") /\ ~InstancesLeft(f)
  /\ To(f, IF flush[f].retry THEN "failed" ELSE "done")
  /\ UNCHANGED <<events, lock, shown, log, used>>

(* The item is gone or moved off the repo, or what is stored cannot be     *)
(* read: this happens before any instance runs, and is final.              *)
CannotDeliver(f) ==
  /\ At(f, "before") /\ flush[f].next = 1
  /\ To(f, "done")
  /\ UNCHANGED <<events, lock, shown, log, used>>

RecordDone(f) ==
  /\ At(f, "done")
  /\ IF HoldsLease(f) THEN Write(flush[f].ev, [Event(f) EXCEPT !.done = TRUE, !.claim = "none", !.lease = 0])
     ELSE UNCHANGED events
  /\ Go(f, Onward(f))
  /\ UNCHANGED <<lock, shown, log, used>>

RecordFailure(f) ==
  /\ At(f, "failed")
  /\ IF HoldsLease(f)
     THEN Write(flush[f].ev, [Event(f) EXCEPT !.claim = "none", !.lease = 0, !.due = FALSE,
                                              !.done = flush[f].lease >= MAX_ATTEMPTS])
     ELSE UNCHANGED events
  /\ Go(f, Onward(f))
  /\ UNCHANGED <<lock, shown, log, used>>

-----------------------------------------------------------------------------

(* A killed delivery leaves its lock to run out.                           *)
Crash(f) ==
  /\ ~At(f, "idle")
  /\ used.crashes < MaxCrashes
  /\ used' = [used EXCEPT !.crashes = @ + 1]
  /\ Go(f, AtRest)
  /\ lock' = [i \in Instance |-> IF lock[i] = f THEN "left" ELSE lock[i]]
  /\ UNCHANGED <<events, shown, log>>

(* A delivery may outlast its lease, but not while it runs an instance.    *)
LeaseRunsOut(r) ==
  /\ events[r].claim = "held"
  /\ \A f \in Flush : flush[f].ev = r /\ HoldsLease(f) => ~(At(f, "before") \/ At(f, "run") \/ At(f, "done") \/ At(f, "failed"))
  /\ Write(r, [events[r] EXCEPT !.claim = "stale"])
  /\ UNCHANGED <<flush, lock, shown, log, used>>

ComesDue(r) ==
  /\ ~events[r].due /\ ~events[r].done
  /\ Write(r, [events[r] EXCEPT !.due = TRUE])
  /\ UNCHANGED <<flush, lock, shown, log, used>>

(* A lock is renewed while its holder lives.                               *)
LockRunsOut(i) ==
  /\ lock[i] = "left"
  /\ lock' = [lock EXCEPT ![i] = "free"]
  /\ UNCHANGED <<events, flush, shown, log, used>>

Step(f) ==
  \/ Sweep(f) \/ SelectDue(f) \/ Claim(f) \/ EndFlush(f)
  \/ Before(f) \/ RunInstance(f) \/ TakeLock(f) \/ CheckLease(f) \/ Apply(f) \/ ApplyRest(f)
  \/ GiveUp(f) \/ Record(f) \/ Release(f) \/ EndDelivery(f) \/ RecordDone(f) \/ RecordFailure(f)

Clock ==
  \/ \E r \in Ids : LeaseRunsOut(r) \/ ComesDue(r)
  \/ \E i \in Instance : LockRunsOut(i)

Next == QueueEvent \/ Clock \/ \E f \in Flush : Step(f) \/ LockBusy(f) \/ CannotDeliver(f) \/ Break(f) \/ Crash(f)

Spec == Init /\ [][Next]_vars

-----------------------------------------------------------------------------

Writing(f) == At(f, "apply") \/ At(f, "applied")

(* Two deliveries never write what one instance found into the item at the *)
(* same time, though a lease may change hands while one of them writes.    *)
OneWriter ==
  \A f, g \in Flush : Writing(f) /\ Writing(g) /\ Current(f) = Current(g) => f = g

(* Of one event, what an earlier claim found never replaces what a later   *)
(* one wrote: a runner that lost its lease attaches nothing any more.      *)
KeepsLaterRun == \A i \in Instance : shown'[i].ev = shown[i].ev => shown'[i].lease >= shown[i].lease

LaterRunStands == [][KeepsLaterRun]_vars

(* What an instance finished for an event is not written again for it,     *)
(* however often the event is delivered.                                   *)
FinishedOnce ==
  \A f \in Flush : Writing(f) => Current(f) \notin Event(f).finished

(* Every event is done in the end, though deliveries fail, are killed and  *)
(* lose their lease to each other.                                         *)
EventsSettle == \A r \in 1..MaxEvents : r \in Ids ~> (r \in Ids /\ events[r].done)
=============================================================================
