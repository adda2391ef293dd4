------------------------------- MODULE MCWorkers ------------------------------
(* What goes on by itself, one part in each behaviour, as in MCServer, with *)
(* the fairness of its scheduling: the rounds of a store (TodoSync), and    *)
(* the programs that work off a queue.                                      *)
EXTENDS MCTodoSync, Naturals, Sequences

CONSTANTS Flush, Proc, WholeStore

VARIABLES
  only,                                          \* the part that moves
  rows, jFlush, settings, issues, jLog, jUsed,   \* JiraOutbox
  runs, aFlush, devLog, aUsed,                   \* ActionRuns
  events, pFlush, lock, shown, pLog, pUsed,      \* PluginRuns
  pc, me, flag, marked, sweepDue, waiting, runner, stored, whole, owner, edits, synced, rUsed   \* StoreRounds

jira      == <<rows, jFlush, settings, issues, jLog, jUsed>>
actions   == <<runs, aFlush, devLog, aUsed>>
plugins   == <<events, pFlush, lock, shown, pLog, pUsed>>
processes == <<pc, me, flag, marked, sweepDue, waiting, runner, stored, whole, owner, edits, synced, rUsed>>
allVars   == <<only, vars, jira, actions, plugins, processes>>

Jira == INSTANCE JiraOutbox WITH
  Issue <- {"k1"}, JiraStatus <- {"a", "x"}, Unreachable <- {"x"}, MAX_ATTEMPTS <- 2,
  MaxMoves <- 2, MaxFaults <- 1, MaxChanges <- 0,
  flush <- jFlush, jira <- issues, log <- jLog, used <- jUsed

Actions == INSTANCE ActionRuns WITH
  MAX_ATTEMPTS <- 2, MaxRuns <- 1, MaxFailures <- 2, MaxCrashes <- 1,
  flush <- aFlush, used <- aUsed

Plugins == INSTANCE PluginRuns WITH
  Instances <- <<"p">>, MAX_ATTEMPTS <- 2, MaxEvents <- 1, MaxFailures <- 1, MaxCrashes <- 1,
  flush <- pFlush, log <- pLog, used <- pUsed

Items == {1, 2}
Processes == INSTANCE StoreRounds WITH
  Item <- Items, Named <- [p \in Proc |-> IF p \in WholeStore THEN {} ELSE Items],
  MaxFailures <- 2, MaxCrashes <- 1, MaxSweeps <- 0,
  marks <- marked, outbox <- waiting, shared <- stored, used <- rUsed

WorkersInit ==
  /\ only \in {"sync", "jira", "actions", "plugins", "processes"}
  /\ Init /\ Jira!Init /\ Actions!Init /\ Plugins!Init /\ Processes!Init

WorkersNext ==
  \/ only = "sync"      /\ Next           /\ UNCHANGED <<only, jira, actions, plugins, processes>>
  \/ only = "jira"      /\ Jira!Next      /\ UNCHANGED <<only, vars, actions, plugins, processes>>
  \/ only = "actions"   /\ Actions!Next   /\ UNCHANGED <<only, vars, jira, plugins, processes>>
  \/ only = "plugins"   /\ Plugins!Next   /\ UNCHANGED <<only, vars, jira, actions, processes>>
  \/ only = "processes" /\ Processes!Next /\ UNCHANGED <<only, vars, jira, actions, plugins>>

(* TodoSync's Fairness, where its part is the one that moves.               *)
SyncIsFair ==
  /\ \A s \in Store :
       /\ WF_vars(only = "sync" /\ RoundStep(s))
       /\ SF_vars(only = "sync" /\ StartRound(s, FALSE, TRUE, FALSE))
       /\ \A i \in Item : WF_vars(only = "sync" /\ Release(s, i))
  /\ WF_vars(only = "sync" /\ \E m \in wire : Serve(m))

(* A flush that can go on goes on, and another comes after it.              *)
FlushesGoOn ==
  \A f \in Flush :
    /\ WF_jira(only = "jira" /\ Jira!Step(f))
    /\ WF_actions(only = "actions" /\ Actions!Step(f))
    /\ WF_plugins(only = "plugins" /\ Plugins!Step(f))

(* Leases run out and retries come due.                                     *)
TimePasses ==
  /\ WF_jira(only = "jira" /\ Jira!Clock)
  /\ WF_actions(only = "actions" /\ Actions!Clock)
  /\ WF_plugins(only = "plugins" /\ Plugins!Clock)

ProcessesGoOn == \A p \in Proc : WF_processes(only = "processes" /\ Processes!Step(p))

WorkersSpec ==
  /\ WorkersInit /\ [][WorkersNext]_allVars
  /\ SyncIsFair /\ FlushesGoOn /\ TimePasses /\ ProcessesGoOn

(* Whatever is queued is settled in the end: a Jira row is delivered,       *)
(* superseded or given up, an Action's run sent or given up (unless a       *)
(* delivery of it outlasts its lease), a plugin's event done, and every     *)
(* command comes through with what it edited.                               *)
QueuesSettle ==
  /\ Jira!RowsSettle /\ Actions!RunsSettle /\ Plugins!EventsSettle
  /\ only = "processes" => Processes!AllPushed
=============================================================================
