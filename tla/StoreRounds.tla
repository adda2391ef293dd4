------------------------------ MODULE StoreRounds ------------------------------
(***************************************************************************)
(* The processes that share one clone's store (todo/cli.py run_synced,     *)
(* todo/sync.py locked, _hold, rounds).  Every command runs a round before *)
(* it, edits under the store's and its items' locks, marks what it edited, *)
(* flags the change and runs rounds again; one process at a time runs      *)
(* rounds, and pushes what the others flagged meanwhile.  The locks are    *)
(* flock files, so a dead process lets go of them; marks, the flag, the    *)
(* time of the last sweep and the outbox are plain files.                  *)
(*                                                                         *)
(* An item is the number of edits it has seen; what a round does with the  *)
(* edits is TodoSync's subject, here they are read and pushed or not.      *)
(***************************************************************************)
EXTENDS Naturals, FiniteSets

CONSTANTS
  Proc,         \* processes, each running one command
  Item,         \* items, numbered in the order their locks are taken
  Named,        \* process -> the items its command names
  WholeStore,   \* processes whose command names none and acts on the store
  None,
  MaxFailures, MaxCrashes, MaxSweeps   \* bounds: failed pushes, dead processes, timed sweeps

VARIABLES
  pc,          \* process -> where it is
  me,          \* process -> its variables
  flag,        \* the file that asks for a push round
  marks,       \* items marked changed
  sweepDue,    \* the last sweep is too long ago, or its file is gone
  outbox,      \* item -> the edits in it that were sent and not acknowledged
  runner,      \* who holds the rounds' lock
  shared,      \* who shares the store's lock
  whole,       \* who holds the store's lock alone
  owner,       \* item -> who holds its lock
  edits,       \* item -> edits made to its files
  synced,      \* item -> edits the server has, as far as the store knows
  used         \* failures, crashes and timed sweeps so far

locks == <<runner, shared, whole, owner>>
vars  == <<pc, me, flag, marks, sweepDue, outbox, runner, shared, whole, owner, edits, synced, used>>

NoEdits == [i \in Item |-> 0]

(* "back" is where the process goes on after rounds(); "first" is that a   *)
(* full round comes before the push rounds.  "names" are the marks the     *)
(* round took, "torn" the items it read in the middle of an edit.          *)
Fresh == [back |-> "lock", first |-> TRUE, pushOnly |-> FALSE, full |-> FALSE, replay |-> FALSE,
          names |-> {}, left |-> {}, busy |-> {}, read |-> NoEdits, torn |-> {}]

Init ==
  /\ pc = [p \in Proc |-> "begin"]
  /\ me = [p \in Proc |-> Fresh]
  /\ flag = FALSE
  /\ marks = {}
  /\ sweepDue = FALSE
  /\ outbox = NoEdits
  /\ runner = None
  /\ shared = {}
  /\ whole = None
  /\ owner = [i \in Item |-> None]
  /\ edits = NoEdits
  /\ synced = NoEdits
  /\ used = [failures |-> 0, crashes |-> 0, sweeps |-> 0]

Go(p, to) == pc' = [pc EXCEPT ![p] = to]
At(p, at) == pc[p] = at
Mine(p, r) == me' = [me EXCEPT ![p] = r]

-----------------------------------------------------------------------------
(***************************************************************************)
(* The command: run_synced and locked.                                     *)
(***************************************************************************)

Begin(p) ==
  /\ At(p, "begin")
  /\ Go(p, "try")
  /\ UNCHANGED <<me, flag, marks, sweepDue, outbox, locks, edits, synced, used>>

(* Mutant: a command on the whole store shares it.                         *)
SharesTheStore(p) == TRUE

(* A command that names items shares the store, any other has it alone.    *)
Shares(p) == p \notin WholeStore

LockStore(p) ==
  /\ At(p, "lock")
  /\ whole = None
  /\ IF Shares(p) THEN shared' = shared \cup {p} /\ UNCHANGED whole
                  ELSE shared = {} /\ whole' = p /\ UNCHANGED shared
  /\ Go(p, "items")
  /\ UNCHANGED <<me, flag, marks, sweepDue, outbox, runner, owner, edits, synced, used>>

Owned(p) == {i \in Item : owner[i] = p}

(* The item whose lock comes next: they are taken in order.                *)
IsNext(p, i) == \A j \in Named[p] \ Owned(p) : i <= j

LockItem(p, i) ==
  /\ At(p, "items") /\ p \notin WholeStore
  /\ i \in Named[p] \ Owned(p) /\ IsNext(p, i)
  /\ owner[i] = None
  /\ owner' = [owner EXCEPT ![i] = p]
  /\ UNCHANGED <<pc, me, flag, marks, sweepDue, outbox, runner, shared, whole, edits, synced, used>>

(* The command's files are written between the two.                        *)
StartEdit(p) ==
  /\ At(p, "items")
  /\ p \in WholeStore \/ Named[p] \subseteq Owned(p)
  /\ Go(p, "edit")
  /\ UNCHANGED <<me, flag, marks, sweepDue, outbox, locks, edits, synced, used>>

Touches(p) == IF p \in WholeStore THEN Item ELSE Named[p]

EndEdit(p) ==
  /\ At(p, "edit")
  /\ edits' = [i \in Item |-> IF i \in Touches(p) THEN edits[i] + 1 ELSE edits[i]]
  /\ Go(p, "unlock")
  /\ UNCHANGED <<me, flag, marks, sweepDue, outbox, locks, synced, used>>

FreedItems(p) == [i \in Item |-> IF owner[i] = p THEN None ELSE owner[i]]

Unlock(p) ==
  /\ At(p, "unlock")
  /\ owner' = FreedItems(p)
  /\ shared' = shared \ {p}
  /\ whole' = IF whole = p THEN None ELSE whole
  /\ Go(p, "mark")
  /\ UNCHANGED <<me, flag, marks, sweepDue, outbox, runner, edits, synced, used>>

(* What the command edited is marked after it let go of it.                *)
MarkChanges(p) ==
  /\ At(p, "mark")
  /\ IF p \in WholeStore THEN sweepDue' = TRUE /\ UNCHANGED marks
                         ELSE marks' = marks \cup Named[p] /\ UNCHANGED sweepDue
  /\ Go(p, "flag")
  /\ UNCHANGED <<me, flag, outbox, locks, edits, synced, used>>

FlagChanges(p) ==
  /\ At(p, "flag")
  /\ flag' = TRUE
  /\ Mine(p, [me[p] EXCEPT !.back = "done", !.first = FALSE])
  /\ Go(p, "try")
  /\ UNCHANGED <<marks, sweepDue, outbox, locks, edits, synced, used>>

-----------------------------------------------------------------------------
(***************************************************************************)
(* rounds: the store's only round runner.                                  *)
(***************************************************************************)

(* The rounds' lock is only tried: whoever has it pushes for the others.   *)
TryRunner(p) ==
  /\ At(p, "try")
  /\ IF runner = None THEN runner' = p /\ Go(p, "share")
                      ELSE UNCHANGED runner /\ Go(p, me[p].back)
  /\ UNCHANGED <<me, flag, marks, sweepDue, outbox, shared, whole, owner, edits, synced, used>>

ShareStore(p) ==
  /\ At(p, "share")
  /\ whole = None
  /\ shared' = shared \cup {p}
  /\ Mine(p, [me[p] EXCEPT !.first = FALSE, !.pushOnly = FALSE])
  /\ Go(p, IF me[p].first THEN "round" ELSE "next")
  /\ UNCHANGED <<flag, marks, sweepDue, outbox, runner, whole, owner, edits, synced, used>>

(* A push round per flag.                                                  *)
TakeFlag(p) ==
  /\ At(p, "next") /\ flag
  /\ flag' = FALSE
  /\ Mine(p, [me[p] EXCEPT !.pushOnly = TRUE])
  /\ Go(p, "round")
  /\ UNCHANGED <<marks, sweepDue, outbox, locks, edits, synced, used>>

NoFlag(p) ==
  /\ At(p, "next") /\ ~flag
  /\ Go(p, "leave")
  /\ UNCHANGED <<me, flag, marks, sweepDue, outbox, locks, edits, synced, used>>

LetGo(p) ==
  /\ At(p, "leave")
  /\ shared' = shared \ {p}
  /\ runner' = None
  /\ Go(p, "look")
  /\ UNCHANGED <<me, flag, marks, sweepDue, outbox, whole, owner, edits, synced, used>>

(* Mutant: the runner does not look at the flag again.                     *)
Leave(p) == me[p].back

(* With the lock let go the flag is looked at once more: someone may have  *)
(* raised it, found the lock taken and left.                               *)
After(p) == IF flag THEN "try" ELSE me[p].back

LookAgain(p) ==
  /\ At(p, "look")
  /\ Go(p, After(p))
  /\ UNCHANGED <<me, flag, marks, sweepDue, outbox, locks, edits, synced, used>>

-----------------------------------------------------------------------------
(***************************************************************************)
(* One round.                                                              *)
(***************************************************************************)

SentItems == {i \in Item : outbox[i] > 0}

(* The round decides whether it sweeps, and lists the marks.               *)
ListMarks(p) ==
  LET r == [me[p] EXCEPT !.full = sweepDue, !.names = marks, !.left = marks, !.busy = {},
                         !.read = NoEdits, !.torn = {}, !.replay = FALSE]
      nothing == r.pushOnly /\ ~sweepDue /\ marks = {} /\ SentItems = {}
  IN  /\ At(p, "round")
      /\ Mine(p, r)
      /\ Go(p, IF nothing THEN "next" ELSE "take")
      /\ UNCHANGED <<flag, marks, sweepDue, outbox, locks, edits, synced, used>>

(* What the round reads: all items in a sweep, else those it took.         *)
Wanted(r) == IF r.full THEN Item ELSE r.names

(* The listed marks are removed one by one; one set again meanwhile goes   *)
(* with them.  Then an outbox from an earlier round is sent again.         *)
TakeMark(p, i) ==
  /\ At(p, "take")
  /\ i \in me[p].left
  /\ marks' = marks \ {i}
  /\ Mine(p, [me[p] EXCEPT !.left = @ \ {i}])
  /\ UNCHANGED <<pc, flag, sweepDue, outbox, locks, edits, synced, used>>

MarksTaken(p) ==
  /\ At(p, "take")
  /\ me[p].left = {}
  /\ IF SentItems # {}
     THEN Mine(p, [me[p] EXCEPT !.replay = TRUE, !.read = outbox]) /\ Go(p, "push")
     ELSE Mine(p, [me[p] EXCEPT !.left = Wanted(me[p])]) /\ Go(p, "scan")
  /\ UNCHANGED <<flag, marks, sweepDue, outbox, locks, edits, synced, used>>

Editing(i) == {q \in Proc : At(q, "edit") /\ i \in Touches(q)}

(* An item is read, or left because its lock is held.                      *)
ScanItem(p, i) ==
  LET r == [me[p] EXCEPT !.left = @ \ {i}]
  IN  /\ At(p, "scan")
      /\ i \in me[p].left
      /\ Mine(p, IF owner[i] # None THEN [r EXCEPT !.busy = @ \cup {i}]
                 ELSE [r EXCEPT !.read[i] = edits[i],
                                !.torn = IF Editing(i) = {} THEN @ ELSE @ \cup {i}])
      /\ UNCHANGED <<pc, flag, marks, sweepDue, outbox, locks, edits, synced, used>>

(* The items a round leaves to the next one.                               *)
LeftOver(r) == r.busy

(* Everything is read: a sweep is on record, what was held is marked.      *)
Scanned(p) ==
  /\ At(p, "scan")
  /\ me[p].left = {}
  /\ sweepDue' = (sweepDue /\ ~me[p].full)
  /\ marks' = marks \cup LeftOver(me[p])
  /\ Go(p, "push")
  /\ UNCHANGED <<me, flag, outbox, locks, edits, synced, used>>

Unpushed(r) == {i \in Item : r.read[i] > synced[i]}

(* The ops go to the outbox and out.                                       *)
Push(p) ==
  /\ At(p, "push")
  /\ outbox' = [i \in Item |-> IF i \in Unpushed(me[p]) THEN me[p].read[i] ELSE 0]
  /\ Mine(p, [me[p] EXCEPT !.left = Unpushed(me[p])])
  /\ Go(p, "sent")
  /\ UNCHANGED <<flag, marks, sweepDue, locks, edits, synced, used>>

(* A result is recorded under its item's lock, which the round waits for.  *)
HandleResult(p, i) ==
  /\ At(p, "sent")
  /\ i \in me[p].left
  /\ owner[i] = None
  /\ synced' = [synced EXCEPT ![i] = me[p].read[i]]
  /\ Mine(p, [me[p] EXCEPT !.left = @ \ {i}])
  /\ Go(p, "results")
  /\ UNCHANGED <<flag, marks, sweepDue, outbox, locks, edits, used>>

HandleNext(p, i) ==
  /\ At(p, "results")
  /\ i \in me[p].left
  /\ owner[i] = None
  /\ synced' = [synced EXCEPT ![i] = me[p].read[i]]
  /\ Mine(p, [me[p] EXCEPT !.left = @ \ {i}])
  /\ UNCHANGED <<pc, flag, marks, sweepDue, outbox, locks, edits, used>>

(* All results are in: the outbox empties; a replay goes on to its scan.   *)
Pushed(p) ==
  /\ At(p, "sent") \/ At(p, "results")
  /\ me[p].left = {}
  /\ outbox' = NoEdits
  /\ IF me[p].replay
     THEN /\ Mine(p, [me[p] EXCEPT !.replay = FALSE, !.read = NoEdits, !.left = Wanted(me[p])])
          /\ Go(p, "scan")
     ELSE UNCHANGED me /\ Go(p, "next")
  /\ UNCHANGED <<flag, marks, sweepDue, locks, edits, synced, used>>

(* Mutant: a failed round does not give its marks back.                    *)
Dropped(r) == {}

(* The marks of a round that pushed nothing.                               *)
GivenBack(r) == r.names

(* The server is not reached: the round ends, its marks are set again.     *)
Fail(p) ==
  /\ At(p, "sent") /\ me[p].left # {}
  /\ used.failures < MaxFailures
  /\ used' = [used EXCEPT !.failures = @ + 1]
  /\ marks' = marks \cup GivenBack(me[p])
  /\ Go(p, "next")
  /\ UNCHANGED <<me, flag, sweepDue, outbox, locks, edits, synced>>

-----------------------------------------------------------------------------

(* The process is killed: the system lets go of its locks.                 *)
Die(p) ==
  /\ pc[p] \notin {"begin", "done", "dead"}
  /\ used.crashes < MaxCrashes
  /\ used' = [used EXCEPT !.crashes = @ + 1]
  /\ edits' = [i \in Item |-> IF At(p, "edit") /\ i \in Touches(p) THEN edits[i] + 1 ELSE edits[i]]
  /\ owner' = [i \in Item |-> IF owner[i] = p THEN None ELSE owner[i]]
  /\ shared' = shared \ {p}
  /\ whole' = IF whole = p THEN None ELSE whole
  /\ runner' = IF runner = p THEN None ELSE runner
  /\ Go(p, "dead")
  /\ UNCHANGED <<me, flag, marks, sweepDue, outbox, synced>>

(* The last sweep is five minutes ago.                                     *)
SweepComesDue ==
  /\ used.sweeps < MaxSweeps
  /\ used' = [used EXCEPT !.sweeps = @ + 1]
  /\ sweepDue' = TRUE
  /\ UNCHANGED <<pc, me, flag, marks, outbox, locks, edits, synced>>

Step(p) ==
  \/ Begin(p) \/ LockStore(p) \/ StartEdit(p) \/ EndEdit(p) \/ Unlock(p)
  \/ MarkChanges(p) \/ FlagChanges(p)
  \/ TryRunner(p) \/ ShareStore(p) \/ TakeFlag(p) \/ NoFlag(p) \/ LetGo(p) \/ LookAgain(p)
  \/ ListMarks(p) \/ MarksTaken(p) \/ Scanned(p) \/ Push(p) \/ Pushed(p)
  \/ \E i \in Item : \/ LockItem(p, i) \/ TakeMark(p, i) \/ ScanItem(p, i)
                     \/ HandleResult(p, i) \/ HandleNext(p, i)

(* Everyone is through.                                                    *)
Rest == (\A p \in Proc : pc[p] \in {"done", "dead"}) /\ UNCHANGED vars

Next == (\E p \in Proc : Step(p) \/ Fail(p) \/ Die(p)) \/ SweepComesDue \/ Rest

Spec == Init /\ [][Next]_vars

-----------------------------------------------------------------------------

Places == {"begin", "lock", "items", "edit", "unlock", "mark", "flag", "try", "share", "next",
           "leave", "look", "round", "take", "scan", "push", "sent", "results", "done", "dead"}

(* No round reads an item while a command is in the middle of editing it:  *)
(* what it would push or overwrite is never half of an edit.               *)
ReadsAreWhole == \A p \in Proc : me[p].torn = {}

(* Who still has an unsynced edit of the item in hand: a command that has  *)
(* yet to mark it, or a round between taking its mark and the outbox.      *)
InHand(p, i) ==
  \/ pc[p] \in {"edit", "unlock", "mark"} /\ i \in Touches(p)
  \/ /\ pc[p] \in {"take", "scan", "push"}
     /\ \/ i \in Wanted(me[p])
        \/ i \in me[p].left
     /\ At(p, "push") => me[p].replay \/ me[p].read[i] = edits[i] \/ i \in me[p].busy
  \/ /\ pc[p] \in {"sent", "results"} /\ me[p].replay /\ i \in Wanted(me[p])

(* As long as no process is killed, an edit the server does not have is    *)
(* never forgotten: it is marked, in the outbox, due in a sweep, or in the *)
(* hands of a process, through held items, failed pushes and marks set     *)
(* while they are being taken.                                             *)
NothingForgotten ==
  \A i \in Item : edits[i] > synced[i] /\ used.crashes = 0 =>
    \/ i \in marks
    \/ outbox[i] = edits[i]
    \/ sweepDue
    \/ \E p \in Proc : InHand(p, i)

(* Every command comes through, whoever dies beside it, and then, unless a *)
(* push failed or a process was killed, the server has every edit, whoever *)
(* did the pushing.                                                        *)
AllPushed ==
  <>[](/\ \A p \in Proc : pc[p] \in {"done", "dead"}
       /\ used.failures = 0 /\ used.crashes = 0 => edits = synced)
=============================================================================
