---------------------------- MODULE JiraHandover ----------------------------
(***************************************************************************)
(* Who does a project's Jira work: the server's bridge, or the plugins     *)
(* jira-transition (todo to Jira) and jira-issue (Jira to todo)            *)
(* (server/lib/plugins/handover.ts, exclusive.ts, store.ts and             *)
(* server/lib/jira/settings.ts).  Every write of the settings is one       *)
(* transaction under the project's lock, and so is a move of an item,      *)
(* which queues both a bridge row and a plugin event.  The bridge's flush, *)
(* a plugin's delivery and the bridge's poller read the settings without   *)
(* the lock, query by query.                                               *)
(*                                                                         *)
(* The project has one repo; every trigger fits every move of an item.     *)
(***************************************************************************)
EXTENDS Naturals, Sequences

CONSTANTS
  Rules,      \* what a list of triggers may be
  None,       \* no triggers
  MaxMoves,   \* bound: moves of items
  MaxSaves    \* bound: settings saved and handovers made

VARIABLES
  bridge,      \* jira_outbound's writes and triggers, jira_poll, whether jira_synced_at is set
  transition,  \* jira-transition: switched on, its instances' rules, whether they send
  issue,       \* jira-issue: switched on, whether its instance attaches what it finds
  page,        \* a page that shows the plan of a handover
  poller,      \* whether the bridge is at a pass over the project's tickets
  moves,       \* the moves of items: the bridge's row, the plugin's event, who moved the ticket, and
               \* whether the plugin began to act while nothing kept it from this move
  saves

vars == <<bridge, transition, issue, page, poller, moves, saves>>

NoPage == [handover |-> "none", base |-> None]

Init ==
  /\ \E polls \in BOOLEAN : bridge = [writes |-> FALSE, triggers |-> None, poll |-> TRUE, synced |-> polls]
  /\ transition = [on |-> FALSE, rules |-> None, live |-> FALSE]
  /\ issue = [on |-> FALSE, live |-> TRUE]
  /\ page = NoPage /\ poller = FALSE /\ moves = <<>> /\ saves = 0

-----------------------------------------------------------------------------
(***************************************************************************)
(* Settings.                                                               *)
(***************************************************************************)

Sends(b) == b.writes /\ b.triggers # None
Polls(b) == b.poll /\ b.synced
TransitionActs(t) == t.on /\ t.rules # None /\ t.live
IssueActs(i) == i.on /\ i.live

(* Mutant: the poller of a project it has not polled yet is let be.        *)
PollsOn(b, i) == b

(* A project that was never polled is not polled any more once jira-issue  *)
(* mirrors it.                                                             *)
StopsPolling(b, i) == IF IssueActs(i) THEN [b EXCEPT !.poll = FALSE] ELSE b

(* Settings b, t and i are written unless they leave both sides of the     *)
(* pairs of plugins in checked acting.                                     *)
Settle(b, t, i, checked) ==
  /\ ~("transition" \in checked /\ Sends(b) /\ TransitionActs(t))
  /\ ~("issue" \in checked /\ Polls(b) /\ IssueActs(i))
  /\ bridge' = IF "issue" \in checked THEN StopsPolling(b, i) ELSE b
  /\ transition' = t /\ issue' = i

Saving == saves < MaxSaves /\ saves' = saves + 1

SaveBridge ==
  /\ Saving
  /\ \E writes \in BOOLEAN, triggers \in Rules \cup {None} :
       LET b == [bridge EXCEPT !.writes = writes, !.triggers = triggers]
       IN  ~(Sends(b) /\ TransitionActs(transition)) /\ bridge' = b
  /\ UNCHANGED <<transition, issue, page, poller, moves>>

(* The plugin begins to act by hand: events not done are for it, too.      *)
ByHand ==
  moves' = [k \in DOMAIN moves |->
              IF ~TransitionActs(transition) /\ TransitionActs(transition') /\ moves[k].event # "done"
              THEN [moves[k] EXCEPT !.exposed = TRUE] ELSE moves[k]]

(* Switching a plugin off is never refused.                                *)
SwitchPlugin ==
  /\ Saving
  /\ \E on \in BOOLEAN :
       \/ Settle(bridge, [transition EXCEPT !.on = on], issue, IF on THEN {"transition"} ELSE {})
       \/ Settle(bridge, transition, [issue EXCEPT !.on = on], IF on THEN {"issue"} ELSE {})
  /\ ByHand
  /\ UNCHANGED <<page, poller>>

SaveInstances ==
  /\ Saving
  /\ \E live \in BOOLEAN :
       \/ \E rules \in Rules : Settle(bridge, [transition EXCEPT !.rules = rules, !.live = live], issue, {"transition"})
       \/ Settle(bridge, transition, [issue EXCEPT !.live = live], {"issue"})
  /\ ByHand
  /\ UNCHANGED <<page, poller>>

-----------------------------------------------------------------------------
(***************************************************************************)
(* Handovers: a plan is shown, and made if what it takes over is the same. *)
(***************************************************************************)

(* What a handover takes over, and can be made of at all.                  *)
Base ==
  [triggersHere |-> [rules |-> bridge.triggers, writes |-> bridge.writes, there |-> [rules |-> transition.rules, live |-> transition.live]],
   triggersBack |-> [instances |-> [rules |-> transition.rules, live |-> transition.live], on |-> transition.on, had |-> bridge.triggers # None],
   pollingHere |-> [polls |-> Polls(bridge)],
   pollingBack |-> [on |-> issue.on]]

Unblocked ==
  [triggersHere |-> bridge.triggers # None, triggersBack |-> transition.rules # None,
   pollingHere |-> Polls(bridge), pollingBack |-> TRUE]

PlanMove ==
  /\ page' \in {[handover |-> h, base |-> Base[h]] : h \in DOMAIN Base}
  /\ UNCHANGED <<bridge, transition, issue, poller, moves, saves>>

AsShown(h) == page.handover = h /\ page.base = Base[h]

(* Rows no flush has claimed are closed.                                   *)
CloseOutbox(m) == IF m.row = "waiting" THEN [m EXCEPT !.row = "dropped"] ELSE m

(* Mutant: queued events fire the instances that are new to them.          *)
LeaveQueued(m) == m

(* Events that are not done are finished for the plugin's instances.       *)
SkipQueued(m) == IF m.event = "done" THEN m ELSE [m EXCEPT !.finished = TRUE, !.exposed = @ \/ m.event # "queued"]

MoveTriggersHere ==
  /\ Settle([bridge EXCEPT !.writes = FALSE, !.triggers = None],
            [on |-> TRUE, rules |-> bridge.triggers, live |-> bridge.writes], issue, {"transition"})
  /\ moves' = [k \in DOMAIN moves |-> SkipQueued(CloseOutbox(moves[k]))]

MoveTriggersBack ==
  /\ Settle([bridge EXCEPT !.writes = transition.live, !.triggers = transition.rules],
            [transition EXCEPT !.on = FALSE], issue, {"transition"})
  /\ moves' = [k \in DOMAIN moves |-> CloseOutbox(moves[k])]

MovePollingHere ==
  /\ Settle([bridge EXCEPT !.poll = FALSE], transition, [on |-> TRUE, live |-> TRUE], {"issue"})
  /\ UNCHANGED moves

MovePollingBack ==
  /\ Settle([bridge EXCEPT !.poll = TRUE], transition, [issue EXCEPT !.on = FALSE], {"issue"})
  /\ UNCHANGED moves

MakeMove ==
  /\ Saving
  /\ page # NoPage /\ AsShown(page.handover)
  /\ Unblocked[page.handover]
  /\ page' = NoPage
  /\ \/ page.handover = "triggersHere" /\ MoveTriggersHere
     \/ page.handover = "triggersBack" /\ MoveTriggersBack
     \/ page.handover = "pollingHere" /\ MovePollingHere
     \/ page.handover = "pollingBack" /\ MovePollingBack
  /\ UNCHANGED poller

-----------------------------------------------------------------------------
(***************************************************************************)
(* The bridge at work.                                                     *)
(***************************************************************************)

NewMove == [row |-> IF Sends(bridge) THEN "waiting" ELSE "none", event |-> "queued",
            finished |-> FALSE, skip |-> FALSE, acts |-> FALSE, held |-> FALSE, exposed |-> FALSE, by |-> {}]

MoveItem ==
  /\ Len(moves) < MaxMoves
  /\ moves' = Append(moves, NewMove)
  /\ UNCHANGED <<bridge, transition, issue, page, poller, saves>>

Settings == <<bridge, transition, issue, page, poller, saves>>
Change(k, m) == moves' = [moves EXCEPT ![k] = m]

(* The bridge's row is claimed, then sent (see JiraOutbox).                *)
ClaimRow(k) == moves[k].row = "waiting" /\ Change(k, [moves[k] EXCEPT !.row = "claimed"]) /\ UNCHANGED Settings

SendRow(k) ==
  /\ moves[k].row = "claimed"
  /\ Change(k, [moves[k] EXCEPT !.row = "sent", !.by = @ \cup {"bridge"}])
  /\ UNCHANGED Settings

StartPoll ==
  /\ bridge.poll /\ ~poller
  /\ poller' = TRUE
  /\ UNCHANGED <<bridge, transition, issue, page, moves, saves>>

EndPoll ==
  /\ poller
  /\ poller' = FALSE
  /\ bridge' = [bridge EXCEPT !.synced = TRUE]
  /\ UNCHANGED <<transition, issue, page, moves, saves>>

-----------------------------------------------------------------------------
(***************************************************************************)
(* A plugin's delivery: the claim takes what is finished with it, the      *)
(* instances are read, then what the server holds back, then one is run    *)
(* (see PluginRuns).                                                       *)
(***************************************************************************)

ClaimEvent(k) ==
  /\ moves[k].event = "queued"
  /\ Change(k, [moves[k] EXCEPT !.event = "claimed", !.skip = moves[k].finished])
  /\ UNCHANGED Settings

ReadInstances(k) ==
  /\ moves[k].event = "claimed"
  /\ Change(k, [moves[k] EXCEPT !.event = "read", !.acts = TransitionActs(transition)])
  /\ UNCHANGED Settings

ReadHeld(k) ==
  /\ moves[k].event = "read"
  /\ Change(k, [moves[k] EXCEPT !.event = "ready", !.held = Sends(bridge)])
  /\ UNCHANGED Settings

RunInstance(k) ==
  /\ moves[k].event = "ready"
  /\ LET m == moves[k]
     IN  Change(k, [m EXCEPT !.event = "done", !.by = IF m.acts /\ ~m.held /\ ~m.skip THEN @ \cup {"plugin"} ELSE @])
  /\ UNCHANGED Settings

Work(k) == ClaimRow(k) \/ SendRow(k) \/ ClaimEvent(k) \/ ReadInstances(k) \/ ReadHeld(k) \/ RunInstance(k)

Next ==
  \/ SaveBridge \/ SwitchPlugin \/ SaveInstances \/ PlanMove \/ MakeMove
  \/ MoveItem \/ StartPoll \/ EndPoll \/ \E k \in DOMAIN moves : Work(k)

Spec == Init /\ [][Next]_vars

-----------------------------------------------------------------------------

(* The bridge and a plugin are never both set to act on a project, also    *)
(* when a poller that read the settings before finishes its first pass.    *)
NeverBothAct ==
  /\ ~(Sends(bridge) /\ TransitionActs(transition))
  /\ ~(Polls(bridge) /\ IssueActs(issue))

(* A move of an item made before a handover is not sent again by the       *)
(* plugin, if no delivery of it was under way at the handover; nobody      *)
(* promises that of a plugin switched on by hand.                          *)
QueuedMovesAreSentOnce ==
  \A k \in DOMAIN moves : moves[k].by = {"bridge", "plugin"} => moves[k].exposed
=============================================================================
