------------------------------ MODULE PluginNotes ------------------------------
(***************************************************************************)
(* A note that a plugin attaches to an item, where command lines run the   *)
(* plugin (todo/plugins.py): each store's runner makes the note while the  *)
(* plugin's answer holds it and removes it when it no longer does, people  *)
(* remove it for good, and rounds carry both to the server, which must     *)
(* learn whether a removal was the runner's: the plugin may make again     *)
(* what a runner removed, and never what a person did.                     *)
(*                                                                         *)
(* One note of one item, with one content.  Full rounds; a push and its    *)
(* answer are one step (TodoSync has them apart), and so is what runs      *)
(* under the item's lock and the state lock.                               *)
(***************************************************************************)
EXTENDS Naturals

CONSTANTS
  Store,
  MaxRuns, MaxPeople, MaxCrashes   \* bounds: runs of the plugin, removals by people, killed processes

VARIABLES
  server,   \* row: the note's version, 0 for none; tomb: whose removal is recorded; by (history): whose it was
  note,     \* store -> the note is among its files
  runs,     \* plugin-runs.json: runner, the runner removed it; removed, a person did
  took,     \* history: store -> who last took it out of the files
  snap,     \* store -> version: its snapshot's, 0 for none; behind: a change of the note is not pulled yet
  round,    \* store -> its round; who (history): who had taken out what its scan missed
  used

vars == <<server, note, runs, took, snap, round, used>>

AtRest == [at |-> "rest", there |-> FALSE, op |-> "none", plugin |-> FALSE, who |-> "none"]

(* The note was attached and synced before.                                *)
Init ==
  /\ server = [row |-> 1, made |-> 1, tomb |-> "none", by |-> "none"]
  /\ note = [s \in Store |-> TRUE]
  /\ runs = [s \in Store |-> [runner |-> FALSE, removed |-> FALSE]]
  /\ took = [s \in Store |-> "none"]
  /\ snap = [s \in Store |-> [version |-> 1, behind |-> FALSE]]
  /\ round = [s \in Store |-> AtRest]
  /\ used = [runs |-> 0, people |-> 0, crashes |-> 0]

Count(what, max) == used[what] < max /\ used' = [used EXCEPT ![what] = @ + 1]
Crashes == IF used.crashes < MaxCrashes THEN BOOLEAN ELSE {FALSE}
Counts(what, max, crash) ==
  /\ used[what] < max
  /\ used' = [[used EXCEPT ![what] = @ + 1] EXCEPT !.crashes = IF crash THEN @ + 1 ELSE @]

TakeOut(s, who) == note' = [note EXCEPT ![s] = FALSE] /\ took' = [took EXCEPT ![s] = who]

-----------------------------------------------------------------------------
(* Runners and people.                                                     *)

(* The answer attaches the note: made, unless it is there or somebody      *)
(* removed it.                                                             *)
Attach(s) ==
  /\ Count("runs", MaxRuns)
  /\ note' = [note EXCEPT ![s] = @ \/ ~runs[s].removed]
  /\ UNCHANGED <<server, runs, took, snap, round>>

(* The history tells apart the runner that comes late: a round's scan saw  *)
(* the note, and the round has not looked at the marks yet.                *)
Runner(s) == IF round[s].at = "tag" /\ round[s].there THEN "late" ELSE "runner"

(* Mutant: recorded once the note is gone.                                 *)
RecordedAfter(s, crash) == runs' = [runs EXCEPT ![s].runner = ~crash] /\ TakeOut(s, Runner(s))

(* That the runner removes it is recorded first, so that a crash before    *)
(* the removal leaves the note and its mark.                               *)
Drops(s, crash) ==
  /\ runs' = [runs EXCEPT ![s].runner = TRUE]
  /\ IF crash THEN UNCHANGED <<note, took>> ELSE TakeOut(s, Runner(s))

(* The answer no longer has it.                                            *)
Drop(s) ==
  /\ note[s]
  /\ \E crash \in Crashes : Counts("runs", MaxRuns, crash) /\ Drops(s, crash)
  /\ UNCHANGED <<server, snap, round>>

(* `todo unnote`: never to be made again, then removed.                    *)
Unnote(s) ==
  /\ note[s]
  /\ \E crash \in Crashes :
       /\ Counts("people", MaxPeople, crash)
       /\ IF crash THEN UNCHANGED <<note, took>> ELSE TakeOut(s, "person")
  /\ runs' = [runs EXCEPT ![s].removed = TRUE]
  /\ UNCHANGED <<server, snap, round>>

RemoveOnDashboard ==
  /\ server.row # 0 /\ Count("people", MaxPeople)
  /\ server' = [server EXCEPT !.row = 0, !.tomb = "person", !.by = "person"]
  /\ snap' = [s \in Store |-> [snap[s] EXCEPT !.behind = TRUE]]
  /\ UNCHANGED <<note, runs, took, round>>

-----------------------------------------------------------------------------
(* A round.                                                                *)

(* The item is read, unless it is held or not marked, and compared with    *)
(* the snapshot.                                                           *)
Scan(s) ==
  /\ round[s].at = "rest"
  /\ \E scanned \in BOOLEAN :
       LET known == snap[s].version # 0
           op    == IF ~scanned \/ known = note[s] THEN "none" ELSE IF known THEN "remove" ELSE "create"
       IN  round' = [round EXCEPT ![s] = [at |-> "tag", there |-> scanned /\ note[s], op |-> op, plugin |-> FALSE, who |-> took[s]]]
  /\ UNCHANGED <<server, note, runs, took, snap, used>>

(* A removal the runner made says so.  The mark is kept while the server   *)
(* has the note and the scan did not see it.                               *)
MarkRunnerRemoves(s) ==
  /\ round[s].at = "tag"
  /\ round' = [round EXCEPT ![s].at = "push", ![s].plugin = round[s].op = "remove" /\ runs[s].runner]
  /\ runs' = [runs EXCEPT ![s].runner = @ /\ snap[s].version # 0 /\ ~round[s].there]
  /\ UNCHANGED <<server, note, took, snap, used>>

Push(s) ==
  /\ round[s].at = "push"
  /\ round' = [round EXCEPT ![s].at = "pull"]
  /\ UNCHANGED used

PushNothing(s) ==
  /\ Push(s) /\ round[s].op = "none"
  /\ UNCHANGED <<server, note, runs, took, snap>>

Learns(s, version) == [t \in Store |-> [version |-> IF t = s THEN version ELSE snap[t].version, behind |-> TRUE]]
Knows(s, version) == [snap EXCEPT ![s].version = version]

(* A plugin's note is made again over a plugin's tombstone, not over a     *)
(* person's.                                                               *)
MayMake == server.tomb # "person"

(* The server has it, it is made, or a person removed it, and then this    *)
(* store's runner never makes it again, either.                            *)
PushCreate(s) ==
  /\ Push(s) /\ round[s].op = "create"
  /\ \/ /\ server.row # 0
        /\ snap' = Knows(s, server.row)
        /\ UNCHANGED <<server, note, runs, took>>
     \/ /\ server.row = 0 /\ MayMake
        /\ server' = [row |-> server.made + 1, made |-> server.made + 1, tomb |-> "none", by |-> "none"]
        /\ snap' = Learns(s, server.made + 1)
        /\ UNCHANGED <<note, runs, took>>
     \/ /\ server.row = 0 /\ ~MayMake
        /\ TakeOut(s, "sync")
        /\ runs' = [runs EXCEPT ![s].removed = TRUE]
        /\ snap' = Knows(s, 0)
        /\ UNCHANGED server

(* The note leaves the snapshot whatever the answer is.                    *)
PushRemove(s) ==
  /\ Push(s) /\ round[s].op = "remove"
  /\ IF server.row = snap[s].version
     THEN /\ server' = [server EXCEPT !.row = 0, !.by = round[s].who,
                                      !.tomb = IF round[s].plugin THEN "plugin" ELSE "person"]
          /\ snap' = Learns(s, 0)
     ELSE snap' = Knows(s, 0) /\ UNCHANGED server
  /\ UNCHANGED <<note, runs, took>>

(* A change is written over the files.  A person's removal of what this    *)
(* store knew as a plugin's is not to be made again.                       *)
Pull(s) ==
  /\ round[s].at = "pull" /\ snap[s].behind
  /\ IF server.row # 0
     THEN note' = [note EXCEPT ![s] = TRUE] /\ UNCHANGED <<runs, took>>
     ELSE /\ TakeOut(s, "sync")
          /\ runs' = [runs EXCEPT ![s].removed =
               @ \/ (server.tomb = "person" /\ (note[s] \/ snap[s].version # 0))]
  /\ snap' = [snap EXCEPT ![s] = [version |-> server.row, behind |-> FALSE]]
  /\ UNCHANGED <<server, round, used>>

(* Without the change, if the item is held; or on an error, anywhere.      *)
EndRound(s) ==
  /\ round[s].at # "rest"
  /\ round' = [round EXCEPT ![s] = AtRest]
  /\ UNCHANGED <<server, note, runs, took, snap, used>>

Next ==
  \/ RemoveOnDashboard
  \/ \E s \in Store :
       \/ Attach(s) \/ Drop(s) \/ Unnote(s)
       \/ Scan(s) \/ MarkRunnerRemoves(s) \/ PushNothing(s) \/ PushCreate(s) \/ PushRemove(s) \/ Pull(s) \/ EndRound(s)

Spec == Init /\ [][Next]_vars

-----------------------------------------------------------------------------

(* What the server records as a person's removal, which no plugin may      *)
(* undo, was not a runner's.                                               *)
RunnersRemovalsAreTold == server.tomb = "person" => server.by \notin {"runner", "late"}

(* A runner's removal is recorded as a person's only if it came late: in   *)
(* no other place is a mark lost between a runner's removal and the op     *)
(* that tells of it, though processes are killed, runs repeat and the note *)
(* comes back meanwhile.                                                   *)
OnlyLateRemovalsAreMistaken == server.tomb = "person" => server.by # "runner"
=============================================================================
