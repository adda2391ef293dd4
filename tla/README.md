# todo-cli in TLA+

A verification development for todo-cli: a Python CLI (`src/todo/`) that keeps a
project's items as files in a clone, a team server (`src/server/`, Next.js on
Postgres) that several clones and a dashboard write to, and the sync between
them. The modules here model the parts where order, concurrency and failure
decide whether the program is right; TLC checks them on small instances, and
TLAPS proves what matters most of the write path, the change feed, the queues of
deliveries, the scheduling of a store's rounds, logins, requests, the Jira handover,
plugin notes and docs, for every instance.

Line numbers below are of the sources this was written from; `PROJECT.json`
maps every definition to its lines.

## 1. The system

| Part | State it keeps | Operations | Talks to |
|---|---|---|---|
| **Write path** `server/lib/apply.ts` | `items`, the child tables (tasks, checks, notes, log …), a version per field, `tombstones`, `changes`, `status_history`, `applied_ops` | create, set and remove of an entity, alone or in groups that roll back whole; a row lock per project | called by the ops route, dashboard actions, bridges, Actions, plugins; queues outbox rows |
| **Change feed** `server/lib/changes.ts` | none (a reader's cursor) | one page of changes, collapsed per entity, with the rows as they are by then | reads what the write path commits |
| **Sync rounds** `todo/sync.py` | snapshot, outbox, deferred changes, marks, cursor (all files) | scan, diff, push, handle results, pull, retry deferred; push-only and full rounds; the round that links a clone | the ops and changes routes; item files that commands edit meanwhile |
| **Store locks and scheduling** `todo/sync.py`, `todo/cli.py` | lock files, marks, the push flag, the time of the last sweep | a command locks the store or items, edits, marks, flags, runs rounds or leaves them to the running process | other processes on the clone |
| **Jira bridge** `server/lib/jira/` | `jira_outbox`, `jira_links`, mirror state | queue a transition, flush with leases and back-off; mirror what is written about linked tickets into items | queued by a status move; calls Jira; writes items as a bridge |
| **Actions** `server/lib/actions/` | `action_runs` | queue (manual or by a move), deliver with a lease, retry, log | the write path; webhooks |
| **Plugins, on the server** `server/lib/plugins/` | plugin instances, event runs with lease tokens | queue events, run in a sandbox, apply what a run attaches under the item's lock | the write path; GitHub, Jira |
| **Plugins, in the CLI** `todo/plugins.py` | what a runner removed, what a person removed (`plugin-runs.json`) | attach and remove a plugin's notes, mark removals for the server | item files, sync rounds |
| **Handover** `plugins/handover.ts`, `exclusive.ts` | settings of bridge and plugin | preview, confirm | Jira bridge and plugins |
| **Docs** `docs.ts`, `todo/sync.py`, `todo/docs.py` | doc records and tombstones; the sidecar of confirmed contents | three-way compare, upload, conflict copies, rebuild of a damaged sidecar | sync rounds, blob store |
| **Requests** `apply.ts` | the request's versions, frozen or not | post, edit, freeze when work starts, bounce back | status moves, the dashboard's clearing |
| **Git facts** `gitfacts.*` | per branch its head, PRs and edges; a signature of what they were computed from | compute, skip, carry over, refuse a stage | git, GitHub |
| **Store files** `store.py`, `yamlio.py`, `uids.py` | item folders, `[n]` numbers, uids | read, write, rename, migrate | everything in the CLI |
| **Login and devices** `devices.ts`, `session.ts`, `link.py` | device codes, tokens, sessions | start, approve, collect once | CLI and dashboard |
| **Inbox, pins, displays; views; commands and rendering** | per-user read state; none | single statements, read models, output | the tables |

What is hard about it, and so what the properties are about:

- *Concurrency.* Several server instances apply ops to one project; commands edit
  files while a round reads and writes them; flushes overlap.
- *Lost and repeated calls.* A client that lost an answer sends the same ops again,
  perhaps while the first copy runs; Jira may have done what timed out.
- *Stale knowledge.* A set is based on the version its author saw; a row is read after the
  list that names it; an answer is handled after the user typed on.
- *Partial failure.* A group fails in the middle; one batch is refused for good; a
  process dies between two files.
- *Things that must happen in the end.* Flagged work gets a runner, an outbox drains,
  stores converge, queued deliveries settle.

Per component, what makes it correct:

- Write path: an op takes effect at most once and is always answered the same; groups are
  atomic; a version stands for one value; derived data is always derived; a
  person's removal is final.
- Change feed: a reader that follows cursors misses nothing and never sees a child
  before its item.
- Sync rounds: no blind overwrite in either direction, nothing lost unsaid, nothing left
  behind the cursor, convergence; a link takes the server's state and says what it replaced.
- Scheduling: no round reads half an edit, no edit or flag is forgotten.
- Outboxes (Jira, Actions, plugins): one at a time has a row in hand, an older move never lands
  after a newer, the log tells what became of a run, a plugin's delivery that lost its lease
  attaches nothing over a later one's, and every row settles.
- Jira mirror: a request gets a ticket once, a link marked as done is done, and the comments on
  a ticket follow onto every item that links it.
- Handover: never two owners, and what one has sent the other does not send again.
- Plugins in the CLI: what a runner removed is not taken for a person's removal.
- Docs: a doc changed on two sides is kept twice, settled stores have the server's docs.
- Logins: one approval, one token. Requests: who works, works on a text that stands.
- Git facts: a skipped compute would have found what is stored; an edge shown as landed has
  landed; an edge goes only when its branch let go of the other's commits.

## 2. Modules

| Module | Models | Correspondence |
|---|---|---|
| `StatusModel` | statuses and the roll-up of tasks (`model.ts`, `status.py`) | `DeriveCalcStatus` = `deriveCalcStatus`. |
| `ProjectDb` | one project's tables and what one op does to them | `db.rows/tombs/feed/calc/trail` = entity tables with their `versions` column, `tombstones`, `changes`, `items.calc_status`, `status_history`. `Create`, `Set`, `Remove` = `create`, `set`, `remove` of `apply.ts`; `ApplyOne` dispatches; `RunUnit` runs a group. Pure functions, so that they serve the server, its abstract specification and the sync model. |
| `TeamServer` | workers, transactions, the project's lock, `applied_ops` | `Begin` takes the row lock, `Apply` is one op of the unit with its prior look-up, `Throw`/`RememberError` the catch that records the error after the rollback and outside the lock, `Commit`, `Rollback`, `Drop` (the instance dies). |
| `ProjectService` | what the write path promises: units take effect whole and one at a time | What a unit does to the tables is a parameter (`RunUnit`, `RollsBack`, …). `TeamServer!ImplementsService` is the refinement (mapping: committed tables and `applied_ops`; the parameters: `ProjectDb`'s operators). |
| `ChangeFeed` | a reader beside the write path | `ReadFeed`, then `ReadRow` per entity of the `Page`, in the order of its first change (`changesSince`), `Deliver`, `ApplyChange`, `MoveCursor`, `Lose`. Extends `TeamServer`. |
| `TodoSync` | stores, their rounds and the network | `files`, `disk` (snapshot file), `outbox`, `marks` are the clone's files; `round` is the process's memory. One action per place the process can be interrupted: `Scan`, `Send`, `Respond`, `Handle` (one result), `SaveResults`, `Fetch`, `ApplyPulled` (one change), `Retry`, `EndPull`, `EndRound`. With `adopt` a round is a clone's first link: it pulls before it scans. The server side is `ProjectDb!RunUnit`, the whole of `ProjectService`'s step. |
| `StoreRounds` | processes sharing a clone | locks, marks, flag, runner and sweep of `locked`, `_hold`, `rounds`, `run_round`, `run_synced`. |
| `JiraOutbox` | `jira_outbox`, its queueing and overlapping flushes | one action per query of `flushJira` and per call of `deliver`. |
| `JiraDelivery` | what that outbox promises, without leases and queries | `MCServer!DeliversInOrder` is the refinement (mapping: what became of each row, and the issues in Jira). |
| `JiraMirror` | the bridge's inbound half: linked tickets into requests, their comments into notes | the poller's pass (`StartPass`, `Search`, `TakeIssue`, `MirrorComment`, `EndPass` = `syncJira`, `syncLinked`) and stores' requests (`StartAsk`, `EndAsk` = `backfillItem`); both backfill a link by `ReadRequest`, `ApplyBlock`, `Mark`. |
| `ActionRuns` | `action_runs`: queueing, flushes, delivery, the dev log (`actions/runs.ts`) | one action per query of `flushActions`: `SelectDue`, `Claim`, `Deliver`, `RecordSent`, `LogSent`, `RecordFailure`, `LogGaveUp`; a delivery may outlive its lease (`LeaseRunsOut`), and a run remembers that one did (`outlasted`). |
| `PluginRuns` | plugin events on the server (`plugins/server.ts`, `queue.ts`) | the event's lease and token, per instance `RunInstance`, `TakeLock`, `CheckLease`, `Apply`, then `Record`, `GiveUp`, `Release`. |
| `JiraHandover` | who does a project's Jira work | every write of the settings is one action (`SaveBridge`, `SaveInstances`, `MoveTriggersHere`/`Back`, `MovePollingHere`/`Back`); deliveries and the poller read them query by query. |
| `DocsSync` | docs of one item in stores and on the server | files, sidecar, deferred fetches; `Pull`, `Fetch`, `Rebuild`, `PushDoc`, `Record`, `Remove`, a command's fetch, edits at any time, also while a doc's bytes are on the way (`raced`, `overrun`). |
| `DeviceLogin` | device logins from start to token | `PollLogin` reads, `Take`, `IssueToken` and `Touch` write: polls overlap. |
| `RequestVersions` | the versions of an item's request | `Freezes`, `PostRequest`, `EditRequest`, `SetStatus`; the clearing reads (`ReadShipped`) before it writes. |
| `PluginNotes` | a plugin's note between stores' runners, people and the server | `Attach`, `Drop` = `_attach`; `MarkRunnerRemoves` between a round's scan and its push; `forget` within `PushCreate`, `Pull`, `Unnote`. `who` remembers of a removal whether it came between a round's scan and its tagging. |
| `GitFacts` | a repo's branches and PRs, and the server's computes of them | `BranchFact`, `Paired`, `ChainEdges`, `Lost`/`StillCarried` (carry-over; `Follow` goes along the merges), `Signature`, `Skips`, `Compute`. |
| `ProjectDbProofs` | what one op and one unit do to the tables | `TeamServerProofs` and `TodoSyncProofs` rest on it. |
| `TeamServerProofs`, `TodoSyncProofs`, `JiraMirrorProofs`, `DocsProofs`, `GitFactsProofs` | inductive invariants, lemmas and theorems of the module they are named for | `TeamServerProofs` also holds the refinement of `ProjectService` and what is proved of `ChangeFeed`. |
| `SmallProofs` | the same about `DeviceLogin`, `RequestVersions`, `JiraHandover`, `PluginNotes`, `ActionRuns`, `PluginRuns`, `StoreRounds` and `JiraOutbox` | Each is a named instance (`Login`, `Request`, `Handover`, `Notes`, `Actions`, `Plugins`, `Rounds`, `Outbox`), under the names and with the variables it has in `MCServer`; with the refinement of `JiraDelivery`. |
| `ServerProofs` | theorems about `MCServer` | states what is proved of the parts as the properties `MCServer` checks. |
| `MC*` | instances for TLC; `MCServer` and `MCWorkers` run several parts, one in each behaviour | Most parts of `MCServer` come as instances of their proof modules, with its constants. |

`ProjectDb` is shared by three modules: the same functions are what `TeamServer` runs inside
transactions, what `ProjectService` runs at once and what stores talk to in
`TodoSync`. That `TeamServer` implements `ProjectService` is what allows `TodoSync`
to let each unit of a request run in one step.

### Abstractions

- Field values, names and payloads are members of small sets. Text, formatting, times and
  authors are left out; time appears only as "the lease has run out", "the row is due", "a sweep is due".
- `ProjectDb`: `[n]` numbers, slugs, imported history, notifications, acknowledgements
  and the freezing of request versions are left out. What the dependency edges of an
  item say (`unresolvedEdges`) is an input, true or false.
- `TodoSync`: files are the synced fields they hold. Left out: uid reissue,
  renames, item history, docs, the page limit (it is `ChangeFeed`'s).
- `StoreRounds`: an item is the number of edits it has seen.
- `JiraOutbox`: one item; the trigger that maps the move to a Jira status is an
  input; the limit of 50 rows per flush is left out. The two reads of an issue are one step.
  Nobody else moves the issue in Jira, so that the order of moves is about the outbox alone.
- `JiraMirror`: a text is the tickets it holds, a comment the time it was last written. Jira's clock is `Lag` behind
  the server's and a pass looks back by `Overlap`, no less. There is one poller. Attachments, people,
  ticket statuses and comments that the jira-issue plugin mirrored first are left out.
- `ActionRuns`, `PluginRuns`: what is delivered or found is the event's number; a call works, fails, or works and is not heard.
- `JiraHandover`: one repo, and every trigger fits every move.
- `DocsSync`: contents are numbered; the feed's pages, size limits and names that differ in spelling only are left out.
- `PluginNotes`: one note with one content; a push and its answer are one step (`TodoSync` has them apart).
- `GitFacts`: each item lists one branch; the state of the repo is read in one step, and computes do not overlap. Dependency notes, file hints
  and what a CLI posts are left out.
- `DeviceLogin`, `RequestVersions`: texts and codes are members of small sets; `Expire` is the passing of a login's time.

## 3. Runs

Bounds are named constants in the `.cfg` files; no definition is replaced.

**MCTeamServer.** One project in two settings, one in each behaviour. *writers*: one item, a task and a check, ten units
(single writes and groups, a malformed op alone and in a group, a group of one), two workers, any unit sent any
number of times. Two workers give every race of two transactions, and of the error record against an apply; a third
would wait for the same lock. *reader*: one writer, one reader, pages of three entries, units that make, remove and
remake a task as a person and as a plugin, each once. The page is smaller than the feed and collapses repeated entities, so
cursors at, inside and after a collapsed page occur. `ReaderIsCurrent` and `ChildrenFollowTheirItem` are about the
reader; `TypeOK`, `VersionsNameTheirChange`, `CalcIsDerived`, `TrailEndsInStatus`, `AppliedOnce`,
`GroupsAreAtomic`, `AnswersAreFinal`, `FeedShowsPresence`, `TombsAreRemovals`, `PersonsRemovalsStick` and the
refinement `ImplementsService` are checked in both.

**MCTodoSyncRounds.** Four settings, one in each behaviour. *fields*: one store, commands editing
alongside full rounds, two edits, two lost requests or answers or killed rounds.
*stores*: two stores and the dashboard, push-only and full rounds, no faults (`QuietStoresAgree`,
which includes that nothing is left behind a cursor). *rejection*: a QA rejection against an approval on the dashboard, push-only
rounds, two faults (`LossesAreTold`, `RejectionsLandWhole`). *link*: a clone whose item is older than the project's and
whose check the project lacks, a fault that makes the link fail, and another link or a common round that tries again
(`QuietStoresAgree` and `LossesAreTold` unless a common round came first, see below).
`NoBlindWrite` is checked in all four: a push never overwrites a value the store had not seen. It speaks of the fields whose
versions a snapshot keeps apart, so not of `JsonField` (see below).
A report counts as told once the round has it.

**MCServer.** The parts that share no state with each other, one in each behaviour, so that one
run says of each what its module says. Two flushes each of the Jira, Action and plugin queues, with a failed call or
lost answer and a kill (`OneAtATime`, `LogTellsOutcome`, `LaterRunStands`, `FinishedOnce`, and the refinement
`DeliversInOrder`); the handover beside saves, a delivery and the poller (`NeverBothAct`, `QueuedMovesAreSentOnce`);
two stores' docs, three edits or faults, edits while bytes are on the way among them (`OnlyRacedWritesAreLost`, `SettledDocsAgree`); two logins, two people, overlapping
polls (`OneTokenPerLogin`); a ticket linked by an item, a poller beside a store's request, three
moves of people, a failed call or kill (`TicketsAreAppended`, `OthersFollow`); two items' branches, a deploy branch and another
long-lived one, four events among commits, PRs, deferred items, failed computes, restarts and refused stages
(`SkippedIsKnown`, `LandedIsThere`, `NoEdgeVanishes`; rewrites and deletions at will, and four events
are enough for a merge, a squash and work on top of either); three versions of a request, four moves, a clearing (`WorkIsOnAFrozenRequest`); a plugin's note in
two stores, three runs at any moment, a person's removal, a kill (`OnlyLateRemovalsAreMistaken`); a command on two items
beside one on the whole store, two failing pushes, a timed sweep, a killed process (`ReadsAreWhole`,
`NothingForgotten`).

**MCWorkers.** With fairness, one part in each behaviour. A store and its server: a refused op, a check made and removed on
both sides, commands that hold the item while a round goes on (so that changes wait), and one lost request or answer or
one killed round (`OutboxDrains`, `Converges` with parked entities excepted, `TypeOK`). Jira, Actions, plugins and the
processes of a store: a status Jira cannot reach, failed calls, a kill each. `QueuesSettle` says that every
queued row, every edit of a store, and every Action's run whose deliveries ended within their leases, is settled in the end.

`OneAtATime`, `LogTellsOutcome` and `QueuesSettle` say nothing of an Action's run of which a delivery outlasted its lease:
such runs are in MCServer and MCWorkers, beside the others, and what may become of them is what MCActionRunsStuck shows.

`NothingForgotten`, and `QueuesSettle` of the store's edits, speak of behaviours without a kill (the
latter also without a failed push): a killed process may
drop its marks or leave the flag up, and the next full sweep finds the edits.

Two edits, two moves or two workers are the smallest numbers for which one can overtake the
other; one fault of each kind is enough to put a repeat against every later step.
`MaxOps` bounds the ids that diffs give to ops, so the number of pushes of one behaviour.

Deadlock is not checked: these systems really stop (a project whose units are all answered, a store whose edits
are used up). That nobody waits for ever is what the liveness runs say.

### Divergences found

Each violation run checks one sentence of the repository that the code does not keep.

- **MCTodoSyncEditLost** (`NoSilentLoss`): README.md:454-455 promises that a write that
  lost is recorded in the dev log. A field edited again between a round's scan and the
  answer to its push is overwritten by the server's value (`_adopt_server_value`, sync.py:876),
  and only the first value is recorded.
- **MCTodoSyncPickedUp** (`RejectionsKeepTheirStatus`): sync.py:593-594 says a rejection
  note never lands without its status change. An item rejected and moved on
  before the push sends the note alone.
- **MCTodoSyncRemovalLost** (`QuietMeansEqual`): README.md:454-455 says that when a write lost to a newer change from someone else, the
  CLI takes the server's value. A check that someone else set, and that is edited here while a round pulls, keeps
  its old version while the cursor passes the other's change; removed then, the server refuses the removal as stale, and the handler of the
  answer drops the check from the snapshot all the same (sync.py:870). The server has the check, the store never gets it
  again, and neither has anything left to do.
- **MCActionRunsStuck** (`NoRunIsStranded`): runs.ts:53 knows a run as delivered, given up or due a retry. A
  delivery to a Watchtower session may take 379 seconds (a resume in vain, a start, the wait for it, retries of its input
  box) under a lease of 300. If the last attempt fails while the one before it is still out, the run is given up; when
  the older one then fails as well, its record, which has no guard on the claim (runs.ts:94-98), opens the run again with no attempts left. It is neither
  due nor abandoned, and shows "failed, will retry" for good.
- **MCDocsSyncLost** (`NoDocIsLost`): the docs design says that of a doc changed on both
  sides neither version is lost. `_write_doc` looks at the file, asks the server for the bytes and
  writes them over whatever the file holds by then (sync.py:1811): an edit made meanwhile is gone. `OnlyRacedWritesAreLost` says that nothing else is.
- **MCGitFactsUnseen** (`LandedIsSeen`): the git facts design says an edge lands once a merged PR of the branch has its merge
  commit in the target. A PR opened after its branch's head was read, then squash-merged, is asked for by
  nothing (gitfacts.ts:248), and the dependent waits until somebody pushes to the merged branch.
- **MCPluginNotesLost** (`RunnersRemovalsAreTold`): plugins.py:63-64 keeps a runner's mark until the server
  has the removal. A run that removes its note between a round's scan and `mark_runner_removes` has its mark
  dropped, because the stale scan still saw the note (plugins.py:926); the next round pushes the
  removal as a person's, and no plugin may make the note again. `OnlyLateRemovalsAreMistaken` says that this is the only way.
- **MCJiraMirrorLate** (`CommentsFollow`): server/README.md:108 says comments mirror onto every item linking the issue. A store's
  request marks a link as backfilled without its comments (links.ts:93-105), and a pass takes the comments of
  a ticket that has not changed only for links it backfills itself (links.ts:70-79): they stay away until
  somebody touches the ticket. `OthersFollow` says that this, a pass that failed in between, and a ticket Jira did not answer for are the only ways.

Further ones were met while modelling, and are kept out of the passing runs by the inputs named
or are left out of the properties' reading:

- sync.py:869: what MCTodoSyncRemovalLost shows is not the only way to it. (No stale removal among the edits of *stores*.)
- sync.py:1153: a field kept because it was edited during the round, then edited back
  before a crash, is left with the old value behind the cursor. (No crash in *stores*.)
- sync.py:1191: in push-only rounds a deferred row is retried although newer versions have been
  pushed since, and the snapshot goes back until the next pull. (*fields* has full rounds only.)
- sync.py:1009-1015: a create answered by "uid-exists" writes the server's row to the file but not to what the round
  scanned; its own pull then takes that for an edit, keeps it and passes the cursor over what the server changed
  since. And sync.py:1253-1256: a pulled change to an entity that the round did not scan and the snapshot does not know is
  written over a local copy. Both come of a link that failed and was retried by a common round; *link* leaves
  those behaviours out of all but `NoBlindWrite`.
- sync.py:1276-1279: a JSON key (`extra.archived`) that a pull keeps, because it was edited during the round, and of which the snapshot has no version,
  takes the row's version: the next push is based on a version the store has not shown anybody, and is accepted over that value. (`NoBlindWrite` leaves
  `JsonField` out.) And apply.ts:571-574: reopening an item clears `extra.archived` and gives it a version of its own, a value no op carries.
- sync.py:1198: a change that waited during a link, because a command held its item, is written without the
  report that sync.py:645 promises. (No commands alongside in *link*.) A removal the link pulls is not reported either.
- flush.ts:32: the claim checks neither the attempts nor the back-off that the list of due rows checks, so that a flush which listed
  a row before another's last attempt failed may deliver what the dev log says was given up.
- runs.ts:82: while a delivery outlasts its lease, another flush delivers the run too: the session gets the message twice.
- sync.py:645-646 says that every field a link replaces is reported; the report names columns only (sync.py:1286), so
  that a replaced `extra.*` or `meta.*` goes unsaid. (`ToldReplaced` follows the code; no JSON key differs in *link*.)
- apply.ts:418-434: a request posted on an archived item sends the item back but leaves it archived, so off the
  board; README.md:66 says that reopening one unarchives it.
- app/actions.ts:46-58: the clearing of shipped items checks the version of the archived flag only; an item
  reopened between the read and the write is archived while open.
- gitfacts.ts: after a failed compute the rows say "unknown" while the old signature lets computes be skipped
  (`SkippedIsKnown` leaves such rows out); and a dependency merged into another branch and deleted is
  dropped before its work reached the target (the exception in `NoEdgeVanishes`).
- gitfacts.ts:513: a dependency's branch that was deleted, made again from main with other work, merged and deleted lands
  the edge as far as its last PR went: the evidence (gitfacts.ts:516) says that "the shared commits are in" the target, which has
  nothing of them (the exception in `LandedIsThere`). gitfacts.ts:538: in the same way the dependent's edge is dropped once it holds the commit by which the branch's work
  of today landed, with the old commit still its own.
- plugins.py:926, the other way round: a crash between the mark and the removal, or a note made again before the next
  scan, leaves a mark behind; a person's removal that follows is then pushed as the plugin's, and
  another store's plugin may make the note again. And sync.py:1245 writes a note that a runner removed
  between the scan and the pull of its own creation.

## 4. Fairness

- `TodoSync!Fairness`: a process that runs a round takes its next step; rounds are
  started again and again (around every command and by the service's timer), and one that starts once a sweep is due
  is full, so full ones come however many rounds are not (strong fairness of the full start, weak fairness
  of the rest); a command releases what it holds; the network and server answer requests that are not
  lost. Faults are bounded by `MaxFaults`. No edit, crash or fault is ever owed.
- `MCWorkers!FairSpec`: a flush that can go on goes on, and another comes after it (each request and a
  cron start one); leases run out and back-offs end (`TimePasses`); each process of a store takes its next step
  when it can: locks are held for bounded work, and a dead process's `flock` is released by the system.

## 5. Proofs

TLAPS proves the following for every value of the constants: every set of items, children, units, workers, readers,
stores, issues, flushes, instances and processes, every page size, and any number of edits, moves, events, faults, kills and sweeps.

| Theorem | Statement |
|---|---|
| *`TeamServerProofs`* | |
| `TypesHold`, `VersionsHold`, `TombsHold`, `CalcHolds` | `Spec =>` always `TypeOK`, `VersionsNameTheirChange`, `TombsAreRemovals`, `CalcIsDerived` |
| `AtMostOnce`, `GroupsHold` | `Spec =>` always `AppliedOnce`, `GroupsAreAtomic` |
| `PresenceHolds`, `TrailsHold` | `Spec =>` always `FeedShowsPresence`, `TrailEndsInStatus` |
| `AnswersHold`, `RemovalsHold` | `Spec => AnswersAreFinal`, `Spec => PersonsRemovalsStick` |
| `Implements` | `Spec => ImplementsService`: every step of a transaction is a step of `ProjectService` or none |
| `Invariance` | `Spec => []IInv` |
| `ReadersAreCurrent`, `ItemsComeFirst` | `FeedSpec =>` always `ReaderIsCurrent`, `ChildrenFollowTheirItem` |
| `FeedInvariance`, `ApplyOneFollows` | `FeedSpec => []FeedInv`; an op puts what it changes at the end of the feed |
| *`ProjectDbProofs`* | |
| `ApplyOneSound` | an op takes sound tables to sound tables, with a result, and keeps persons' removals |
| *`TodoSyncProofs`* | |
| `TypesHold`, `WritesAreInformed` | `Spec =>` always `TypeOK`, `NoBlindWrite` |
| `Invariance` | `Spec => []IInv` |
| *`JiraMirrorProofs`* | |
| `TicketsAreAppendedAlways`, `OthersFollowAlways` | `Spec =>` always `TicketsAreAppended`; `Spec => OthersFollow` |
| *`DocsProofs`* | |
| `LostWritesWereRaced`, `SettledDocs` | `Spec =>` always `OnlyRacedWritesAreLost`, `SettledDocsAgree` |
| `DocsInvariance` | `Spec => []KeptInv` |
| *`GitFactsProofs`* | |
| `GitInvariance`, `LandedHolds`, `EdgesStay`, `SkipsAreKnown` | `Spec => []GitInv`; `Spec =>` `LandedIsThere`, `NoEdgeVanishes`, always `SkippedIsKnown` |
| *`SmallProofs`* | |
| `OneToken` | logins: `Spec =>` always one token per login at most, for its approver |
| `WorkIsFrozen` | requests: `Spec =>` always `WorkIsOnAFrozenRequest` |
| `Handovers` | the handover: `Spec =>` always `NeverBothAct` and `QueuedMovesAreSentOnce` |
| `MistakenRemovalsWereLate` | plugin notes: `Spec =>` always `OnlyLateRemovalsAreMistaken` |
| `RunsAreToldRight` | Actions: `Spec =>` always `OneDelivery /\ LogTellsOutcome`, each of the runs whose deliveries ended within their leases, beside any number of others |
| `PluginInvariance`, `LaterRunsStand` | plugin events: `Spec => [](PluginInv /\ OneWriter /\ FinishedOnce)`, `Spec => LaterRunStands` |
| `OutboxInvariance`, `DeliversInOrder` | the Jira outbox: `Spec => [](OutboxInv /\ OneSender)`; `Spec => Delivery!DeliverySpec`, the refinement |
| `StoreInvariance` | a store's processes: `Spec => [](StoreInv /\ ReadsAreWhole /\ NothingForgotten)` |
| *`ServerProofs`* | |
| `OneAtATimeHolds`, `LogsTellOutcomes`, `NothingIsWrittenAgain`, `LaterRunsStandThere`, `DeliversThereInOrder`, `RoundsReadWhole`, `EditsAreKept`, `OneTokenThere`, `WorkIsFrozenThere`, `HandoversThere`, `MistakenRemovalsWereLateThere`, `LostWritesWereRacedThere`, `SettledDocsAgreeThere`, `TicketsAreAppendedThere`, `OthersFollowThere`, `LandedIsThereHolds`, `NoEdgeVanishesThere`, `SkippedIsKnownThere` | `MCServer`'s `Spec =>` `OneAtATime`, `LogTellsOutcome`, `FinishedOnce`, `LaterRunStands`, `DeliversInOrder`, `ReadsAreWhole`, `NothingForgotten`, `OneTokenPerLogin`, `WorkIsOnAFrozenRequest`, `NeverBothAct` and `QueuedMovesAreSentOnce`, `OnlyLateRemovalsAreMistaken`, `OnlyRacedWritesAreLost`, `SettledDocsAgree`, `TicketsAreAppended`, `OthersFollow`, `LandedIsThere`, `NoEdgeVanishes`, `SkippedIsKnown` |

### Assumptions

- `FieldAssumption`, `UidAssumption`, `NoneAssumption`, `UnitAssumption` (ops are well-formed, an op id stands for one
  place in one unit: the client's ULIDs), `WorkerAssumption`, `LimitAssumption`: TLC evaluates them in MCTeamServer.
- `HomeAssumption`, `SyncAssumption`, of the theorems about `TodoSync`: an entity belongs to one item; there are finitely many uids (a store is a directory
  of files); what was made on the server before, what a clone holds and what people write are values of the fields' types; `MaxOps` bounds the ids that diffs
  give. TLC evaluates them in MCTodoSyncRounds and MCWorkers.
- `OneHome`, of `ItemsComeFirst` alone: a child is only ever made in one item. Uids are made up where the item is,
  and a plugin that makes its note again makes it in the same item. Without it the property is false: a child removed
  from one item and made again, under its uid, in a newer item is answered at its first place in the page, with its row of
  now, which may come before its new item.
- `IssuesAssumption`: a move names at least one issue, and finitely many. `PluginsAssumption`: an event
  fires each of its instances once. `StoreAssumption`: each process has its items or the whole store. MCServer evaluates
  all three (`DeliveriesAssumption`, `RoundsAssumption`).
- `LagAssumption`, of the mirror's theorems: Jira's clock is behind the server's by no more than a pass looks back
  (`Lag <= Overlap`, two minutes in sync.ts:16), and the poller is none of the stores' requests. MCServer evaluates it (`LagsAssumption`).
- `RepoAssumption`, of the theorems about Git facts: a repo's items list finitely many branches, none of them long-lived; the default
  branch is long-lived, and so are the tracked ones. MCServer evaluates it (`ReposAssumption`).
- `PeopleAssumption`, of `OneToken`: nobody is not a person. MCServer evaluates it (`LoginsAssumption`).

These are about the constants, and the code or its settings give them. Where the code leaves a race open that the models have, no theorem assumes it away: the models let it happen, a
history variable remembers that it did, and the theorem says what holds then.

### The arguments

None of the properties is inductive alone. Each invariant was checked by TLC as an invariant of a run on a small instance before it
was proved (those with quantifiers over all names or numbers, over the few that occur): `PluginInv` in all 958,000 states of one event with two failures and two kills, `StoreInv` in all 166,000 states of two
processes and in the first nine million of three.

**Write path.** The committed tables stay right only because a transaction's private copy is right when it commits:

    IInv == TypeOK /\ TablesInv /\ LockInv /\ AnswerInv /\ EffectInv /\ GroupsAreAtomic

- `LockInv`: a worker is applying exactly if it holds the lock, so at most one is and
  the committed tables stand still beneath it.
- `TablesInv`: the committed tables are sound (`Sound`: types, versions, tombstones, derived statuses), so is
  every transaction's copy, and the copy of the one that applies keeps persons' removals.
- `AnswerInv`: what a transaction took for a repeat is still what `applied_ops` says. The lock keeps
  other transactions away, but `RememberError` runs outside it: the conjunct holds because that
  step, too, writes only where nothing is recorded.
- `EffectInv`: an op that took effect is on record, so that its next look-up finds it: at most once.
- `GroupsAreAtomic` is part of the invariant, since a commit of a group may meet ops of it on record.

There is one lemma per action (`BeginKeeps`, `ApplyKeeps`, `ThrowKeeps`, …); the tables' half comes first, with a lemma
per operation and part (`CreateKeeps`, `SetCalc`, …) on top of what `Bump` and `Cleared` keep. `FeedShowsPresence`
and `TrailEndsInStatus` need `Told` of the tables and of every copy: besides the two, that a child that is there has its item there
(removing an item removes its children, each with a change of its own) and that an item that was never there has no history.

**The refinement of `ProjectService`.** A commit must be what the whole unit does at once to what is committed *now*,
although its ops looked up `applied_ops` one by one, earlier, and an error record may have come in between.
`RunInv` says that a transaction whose look-ups still agree with the record (`Undisturbed`) stands where running
its first ops in a row would, for some answers to which dependencies were unresolved. A disturbed one clashes with the
record when it inserts its answers (`Clashes`) and fails; `BlameInv` says that such a unit, like every failed one, holds an op that the database
refuses, so that the error it then records is one that `ProjectService` records. A rolled-back group and a dropped transaction change nothing; `RememberError` is `ProjectService`'s own error step.

**The reader.** `FeedInv` says of every reader that whatever its copy lacks is named by a change after its cursor, and, while a page is under
way, is either on its list (or read but not applied) or named after the page's end; that what was read of a row is what is
there unless a later change names it; and that the feed only grows and every write names what it changes (`FollowInv`, which holds
of a transaction's copy against the committed tables). The order of the page is what `InOrder` needs: a child that waits, is read, or is in the copy has its
item in the copy or before it, because an item's first change precedes those of its children (`Orderly`), and a
collapsed page keeps the first place of each entity (there is one, since every set of numbers has a least one: `LeastNatural`).

**Stores and the server.** A push may overwrite a field if the version it was based on is the row's (apply.ts:545), so everything
rests on what a version in a store stands for:

    IInv == Types /\ StoresFit /\ WireFits /\ KnownInv /\ GoingInv /\ UniqueInv

- `FitsIn`: a version that somebody holds beside a value is one the server has given out, and if the row still has it then the field has that value. The tables
  keep this as they move on, since a later write takes a new version (`Newer`, in `ProjectDbProofs`, of an op and so of a unit).
- `StoresFit`, `WireFits`: all snapshots fit, on disk and in the round's memory, and so do the changes that a pull has still to write, those that wait for an
  item somebody holds, and the answers a store or a request has. This is what a pull needs, which mixes the values it keeps with the versions it
  had (`VersionSeen`), and the handling of answers, which puts the row's versions beside the values that were sent.
- `GoingInv`: of the ops in outboxes, in rounds and on the wire, sent again or not, the base versions stand for the values of the snapshot they were made
  from (`DraftFits`); and if the server has run one already, what it recorded fits too, so that a replay's answer can be taken as news.
- `UniqueInv`, `KnownInv`: ids are of one op each, and ids not given yet have no answer: what an answer says is about the op
  it is read with. The diff is the place where this could fail: its ops are numbered in the order of their ranks and then put into units by their leads, and an op is in one unit only (`Ordered`, `Ready`).

`NoBlindWrite` is `DraftFits` of the ops on the wire, at the moment the server compares. The proof needs nothing about how many stores there are, or how
a round's memory, the files and the disk differ after a kill: each fits the tables by itself. Whether the values agree in the end is
another question (`QuietStoresAgree`), and takes a chain from each field's file to the server.

**Leases and tokens.** The three queues share an argument: whoever has a row in hand holds its lease as long as
the lease is not declared over, so two never do (`Alone`). Of an Action's run this is said as long as no delivery of it outlasted its lease (`InTime`).

- `OutboxInv` adds `InOrder`: once a flush found nothing newer than its row, nothing newer of that issue is being delivered while the flush may
  still send, since the newer row's own check for older ones finds it claimed.
- `ActionInv` adds that what is in the dev log, or about to be, was the run's last outcome.
- `PluginInv`: tokens number an event's claims, and only the last is valid (`LastToken`, `TokensDiffer`). A writer
  took the item's lock, then looked at its token (`Knows`); from then on the item shows nothing of a later claim (`MayWrite`), although
  the lease may be lost in between, because the later delivery waits for the lock.

**Rounds of a store.** `StoreInv` follows each edit from the file to the server. `HasLocks`, `Alone`: who holds what, so that one process
at most is in a round, and a round's reads are of items nobody holds. `Kept`: an edit that the server has not is
in the outbox, or a sweep, mark or flag that somebody will act on still names it (`Later`, `AllLater`), or the round under way
will read it or has (`Will`); `ReadIsNew`: what a round has read is the latest edit, or the item is marked again. The
marks are what makes this work: they are taken out before the reading and put back if a push fails. A kill may drop them, hence the condition on `crashes`.

**Small parts.** `LoginInv`: a login that is still in the table has given nothing away; a poll that took it is
the only one that did, and only that one issues a token. `RequestInv`: the versions of an item are numbered from 1 without a gap, and all
are frozen once the item is past "requested"; what a clearing has read is of then, so it writes only what is still so. `HandoverInv` (`Apart`, `SentOnce`,
`LeftAlone`): per move, what the row's state and the plugin's event say of the settings since the move was queued; the settings
themselves are one write. `NotesInv`: a note that a runner removed and the server still has is marked, and a round that read
the mark before its push still holds it; the mark goes only when the server no longer has the note, or when the removal came late (`who`): after a round's scan that saw
the note and before that round looked at the marks.

**Docs.** `KeptInv` says how a round's memory, the files, the bases and the server fit. A base (in the sidecar, or in the round's hand) is a
content that the server has or once had (`Confirms`), so a file that differs from its base differs by a person's doing; a change that waits names
contents the server has or had (`Heard`); and a file about to be written over holds nothing that is not known but what came into it while its bytes were on the way (`raced`, in `KeptAt`), which `overrun` remembers. So whatever is written over or
removed is on the server, or was, until somebody who had it before him replaced it. `ToldInv` is the other half, and why settled stores agree: for each name, the base is what the server has, or a change of it waits, or is past the cursor (`Informed`), and
what waits is how the server has it or there is a later change (`News`). It holds until a sidecar is damaged: with it
goes the base of a doc that was deleted in the store, so that the server keeps a doc the store has not.

**The mirror.** `Appended`: whoever is about to append a block has read a request without it, and what it writes is what it read and that
block, so no text gets it twice even when two workers overlap. While none do (`Alone`), the request is still the one that was read
but for freezing, and so a link is marked only when the block is there. `FollowInv` is about what a pass is past. A ticket
`Waits` until it is taken; then its comments are due until they are mirrored. Comments of before the pass are held by every marked link that is past both
(`HeldPast`), if the link is not one marked without them. What a pass leaves out, because the ticket has not changed since
the last pass looked, was held already (`HeldSince`), and this is where the overlap is needed: a comment that the last pass
could miss was written less than `Lag` before it began, so its ticket counts as changed.

**Git facts.** `RepoInv`: a commit holds the work of its ancestors, and the merge of a merged PR the work of the head it was merged from,
squashed or not (`Carries`). No later commit changes that. So it is enough that the PRs a row knows were read from the repo at some time
(`KnownPr`): when one of them shows that an edge landed, its head held the shared commit, its merge the work of its head, and the target the merge
(`CommitEdgeLands`, `WorkArrives`). `NoEdgeVanishes` follows an edge that is not found again through `Lost`, `CarriedEdge` and `CarriedShares` to the reason
for which nothing is left of it (`LostLeaves`); that the chain of a branch's PRs names items' branches only, none of them the branch itself, is an induction over the
steps of the walk (`ChainIsOk`).
`SkippedIsKnown` compares two computes, the last one and the one that is skipped, and they read different repos: `At(t, st, cm, rw)` is the module with
the tips, statuses, commits and rows of another time. `KnownInv` says that while the server remembers a compute and GitHub did not fail since, the rows
are what that compute would have found from themselves (`Found`): this is stronger than that it found them from the rows before, and holds because carrying over
an edge or a hint twice is carrying it over once (`LeftIsLeft`, `NeedsStay`, `SharesStay`, `RowStays`). A skip says that the tips of the branches the
signature names are what they were. Those are all that a compute asks for (`SameTargets`, and `Agrees` with `ThenRowIs`), so it would find the same now.

**Composition.** `MCServer` runs one part in each behaviour. `Parts` says that the part's invariant holds of its variables; every
theorem of `ServerProofs` follows from it and the part's own lemmas, through the INSTANCE.

### Only model-checked

- Of `TodoSync`: `QuietStoresAgree`, `LossesAreTold` and `RejectionsLandWhole`. The first two follow every edit of every field through the files, what a
  round scanned, the outbox, the answers and the pull, and hold in the settings of their run only (section 3: crashes, stale removals and links that were tried again
  by a common round break them), so that a theorem would be about restricted specifications. The third holds while the note and the
  status move come from one diff, which the code does not guarantee (MCTodoSyncPickedUp).
- Liveness: `OutboxDrains`, `Converges`, `QueuesSettle`. The provers here handle neither fairness nor ENABLED.

What a recursive function computes is used in the proofs as it is defined (`StatusModel`), and what a whole unit does is reasoned about
step by step (`RunStep`, and an induction over its length as the least length that fails), never by unfolding the fold.

## 6. Not modelled

| Part | Why |
|---|---|
| Child numbers, uid reissue, item history | the first thing a next extension would take up (section 7) |
| Jira: attachments, people, ticket statuses, what the client sends | copies and calls beside the mirror and the outbox |
| Handover between Actions and plugins (`handover.ts` 181-290) | the same shape as the Jira handover |
| What plugins compute, host processes, webhooks, schedules and budgets | data and pure input/output; a run attaches or does not |
| Docs: size limits, names that differ in spelling, docs that plugins own, docs that wait for a day | bounds and data beside the three-way compare |
| Git facts: dependency notes, file hints, what a CLI posts, overlapping computes | inputs to the same rows |
| Forms, views, pages, rendering, arguments, session cookies | presentation; no state that others depend on |
| Parsing and writing of item files | data conversion; a file's read or write is a step |
| Inbox, pins, displays | single statements on per-user rows |
| Bundles (`code-worker.bundle.mjs`, `plugin_host.mjs`) | generated |

Inside the parts that are modelled, these steps are coarser than the code, or left out:

- `PluginRuns!LockRunsOut`: the item lock expires only for a holder that is dead. A live one renews it three times per lifetime; renewals that fail are
  swallowed (plugins/server.ts:331-332), so that a holder cut off from the database for a whole lifetime, which then goes on, loses it too.
- `JiraHandover`: a claimed row is delivered or skipped. One whose call fails goes back to waiting and is tried again (`JiraOutbox` has that).
- `JiraMirror!ApplyBlock`: what a person writes into the request between the bridge's read and its unconditional set (links.ts:118-131) is
  overwritten. The model follows the tickets' blocks and freezing only.
- `DocsSync!PullDeletion`, `PullContent`: a file is looked at and then unlinked, renamed or kept as a conflict (sync.py:1779-1784, 1805) in one step. The wait for the
  bytes, the long one of the two windows, is a step of its own. `Fail` ends a round; `FailDoc` passes over one doc, as a command's fetch does after any failure.
- `TodoSync!WholeOpRejected`: a create refused as "removed" leaves out the new uid that people's entities get (sync.py:1036-1041) and the branch of what
  plugins own (sync.py:1027-1035), which `PluginNotes` has.
- `RequestVersions` carries archiving and the clearing of shipped items, since both write rows that the request's versions hang on; no property reads them.

## 7. Plan

Done, in this order: `StatusModel`, `ProjectDb`, `ProjectService`, `TeamServer`, `ChangeFeed`,
`TodoSync`, `StoreRounds`, `JiraOutbox`; proofs of `ProjectDb` and `TeamServer`; `JiraDelivery`, `ActionRuns`,
`PluginRuns`, `JiraHandover`, `DocsSync`, `DeviceLogin`, `RequestVersions`, `GitFacts`, `PluginNotes`,
`JiraMirror`, the first link in `TodoSync`; proofs of the queues, the rounds of a store, docs, the mirror, Git facts and the small parts; `ProjectDbProofs` and `TodoSyncProofs`.

What a next extension would take up, by how much can go wrong:

1. Child numbers and the store's renames (apply.ts:305), and item history (sync.py:918), both in `TodoSync`.
2. The handover between Actions and plugins.
3. `DocsSync` with docs of plugins and waiting docs; overlapping computes in `GitFacts`.
