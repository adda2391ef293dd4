------------------------------- MODULE MCServer -------------------------------
(* The parts that share no state with one another, one in each behaviour:   *)
(* the flushes that deliver to Jira, to Watchtower and to plugins, the      *)
(* mirror of Jira's tickets, the handover of the Jira jobs, docs, logins,   *)
(* an item's request, a plugin's note, a repo's facts, and the processes    *)
(* of one store.                                                            *)
(* They take turns with the variables x1 to x13.                            *)
EXTENDS Naturals, Sequences, TLC

CONSTANTS
  None, Flush,
  Issue, JiraStatus, Unreachable, MaxMoves, MaxFaults, MaxChanges,   \* the Jira outbox
  Instances, MaxEvents,                                              \* the plugin runner
  MaxRuns,                                                           \* Actions
  MAX_ATTEMPTS, MaxFailures, MaxCrashes,                             \* what these deliveries share
  Proc, Item, Named, WholeStore, MaxFailedPushes, MaxSweeps,         \* one store's processes
  Store, Branch

VARIABLES only, x1, x2, x3, x4, x5, x6, x7, x8, x9, x10, x11, x12, x13

xs      == <<x1, x2, x3, x4, x5, x6, x7, x8, x9, x10, x11, x12, x13>>
allVars == <<only, xs>>

(* Modules about which there are proofs come with them, for ServerProofs.   *)
Mirror == INSTANCE JiraMirrorProofs WITH
  Item <- {"i"}, Ticket <- {"t"}, Comment <- {"c"}, Ours <- {}, Poller <- "poll", Asker <- {"ask"},
  Lag <- 2, Overlap <- 2, MaxTime <- 5, MaxPeople <- 3, MaxVersions <- 3, MaxFaults <- 1,
  now <- x1, jira <- x2, links <- x3, request <- x4, notes <- x5, created <- x6, synced <- x7,
  work <- x8, strayed <- x9, met <- x10, used <- x11

ASSUME LagsAssumption == Mirror!LagAssumption

Docs == INSTANCE DocsProofs WITH
  MaxEvents <- 3,
  server <- x1, unseen <- x2, files <- x3, meta <- x4, damaged <- x5, saved <- x6, round <- x7,
  superseded <- x8, overrun <- x9, used <- x10

(* Logins, requests, the handover, plugin notes, Actions, plugins' runs, a  *)
(* store's rounds and the Jira outbox.                                      *)
Small == INSTANCE SmallProofs WITH
  Code <- {"c1", "c2"}, Person <- {"ann", "bob"}, Poll <- Flush, NoOne <- None,
  MAX_PENDING_LOGINS <- 1, MaxPolls <- 2,
  logins <- x1, live <- x2, polled <- x3, tokens <- x4, poll <- x5, cli <- x6, yes <- x7, no <- x8, begun <- x9,
  Text <- {"t", "u"}, MaxVersions <- 3, MaxItemMoves <- 4, MaxClears <- 1,
  item <- x1, request <- x2, clearing <- x3, asked <- x4,
  Rules <- {"rules"}, MaxMoves <- 1, MaxSaves <- 3,
  bridge <- x1, transition <- x2, issue <- x3, page <- x4, poller <- x5, moves <- x6, saves <- x7,
  MaxRuns <- 3, MaxPeople <- 1, MaxCrashes <- 1,
  server <- x1, note <- x2, runs <- x3, took <- x4, snap <- x5, round <- x6, used <- x7,
  MaxActionRuns <- MaxRuns, MaxKills <- MaxCrashes,
  actionRuns <- x1, flush <- x2, devLog <- x3, faults <- x4,
  events <- x1, flushes <- x2, lock <- x3, shown <- x4, log <- x5, upsets <- x6,
  pc <- x1, me <- x2, flag <- x3, marks <- x4, sweepDue <- x5, outbox <- x6, roundRunner <- x7,
  shared <- x8, wholeStore <- x9, owner <- x10, edits <- x11, synced <- x12, mishaps <- x13,
  MaxJiraMoves <- MaxMoves,
  rows <- x1, sending <- x2, settings <- x3, jira <- x4, givenUp <- x5, spent <- x6

Delivery == INSTANCE JiraDelivery WITH
  moves <- IF only = "jira" THEN Small!Outbox!Moves ELSE <<>>,
  jira <- IF only = "jira" THEN x4 ELSE [k \in Issue |-> CHOOSE s \in JiraStatus : TRUE]

ASSUME DeliveriesAssumption ==
  /\ Small!IssuesAssumption /\ JiraStatus # {}
  /\ Small!PluginsAssumption

ASSUME LoginsAssumption == Small!PeopleAssumption

ASSUME RoundsAssumption == Small!StoreAssumption

Git == INSTANCE GitFactsProofs WITH
  Main <- "main", LongLived <- {"main", "release"}, Track <- {"main"}, MaxEvents <- 4,
  tips <- x1, commits <- x2, prs <- x3, status <- x4, rows <- x5, memory <- x6, upsets <- x7

ASSUME ReposAssumption == Git!RepoAssumption

(* Variables a part leaves alone.                                           *)
Rest12 == <<x12, x13>>
Rest11 == <<x11, Rest12>>
Rest10 == <<x10, Rest11>>
Rest8  == <<x8, x9, Rest10>>
Rest7  == <<x7, Rest8>>
Rest5  == <<x5, x6, Rest7>>

Unset12 == x12 = None /\ x13 = None
Unset11 == x11 = None /\ Unset12
Unset10 == x10 = None /\ Unset11
Unset8  == x8 = None /\ x9 = None /\ Unset10
Unset7  == x7 = None /\ Unset8
Unset5  == x5 = None /\ x6 = None /\ Unset7

Init ==
  \/ only = "jira"     /\ Small!Outbox!Init   /\ Unset7
  \/ only = "actions"  /\ Small!Actions!Init  /\ Unset5
  \/ only = "plugins"  /\ Small!Plugins!Init  /\ Unset7
  \/ only = "mirror"   /\ Mirror!Init   /\ Unset12
  \/ only = "handover" /\ Small!Handover!Init /\ Unset8
  \/ only = "docs"     /\ Docs!Init     /\ Unset11
  \/ only = "login"    /\ Small!Login!Init    /\ Unset10
  \/ only = "request"  /\ Small!Request!Init  /\ Unset5
  \/ only = "notes"    /\ Small!Notes!Init    /\ Unset8
  \/ only = "git"      /\ Git!Init      /\ Unset8
  \/ only = "rounds"   /\ Small!Rounds!Init

InJira     == only = "jira"     /\ Small!Outbox!Next   /\ UNCHANGED <<only, Rest7>>
InActions  == only = "actions"  /\ Small!Actions!Next  /\ UNCHANGED <<only, Rest5>>
InPlugins  == only = "plugins"  /\ Small!Plugins!Next  /\ UNCHANGED <<only, Rest7>>
InMirror   == only = "mirror"   /\ Mirror!Next   /\ UNCHANGED <<only, Rest12>>
InHandover == only = "handover" /\ Small!Handover!Next /\ UNCHANGED <<only, Rest8>>
InDocs     == only = "docs"     /\ Docs!Next     /\ UNCHANGED <<only, Rest11>>
InLogin    == only = "login"    /\ Small!Login!Next    /\ UNCHANGED <<only, Rest10>>
InRequest  == only = "request"  /\ Small!Request!Next  /\ UNCHANGED <<only, Rest5>>
InNotes    == only = "notes"    /\ Small!Notes!Next    /\ UNCHANGED <<only, Rest8>>
InGit      == only = "git"      /\ Git!Next      /\ UNCHANGED <<only, Rest8>>
InRounds   == only = "rounds"   /\ Small!Rounds!Next   /\ UNCHANGED only

Next ==
  \/ InJira \/ InActions \/ InPlugins \/ InMirror \/ InHandover
  \/ InDocs \/ InLogin \/ InRequest \/ InNotes \/ InGit \/ InRounds
Spec == Init /\ [][Next]_allVars

(* Each part keeps what its own module says of it.                          *)

(* Flushes overlap, leases run out and flushes are killed, and yet no two   *)
(* of them send one Jira row, deliver one Action's run (unless a delivery   *)
(* of it outlasted its lease), or write what one plugin instance found into *)
(* an item, at the same time.                                               *)
OneAtATime ==
  /\ only = "jira" => Small!Outbox!OneSender
  /\ only = "actions" => Small!Actions!OneDelivery
  /\ only = "plugins" => Small!Plugins!OneWriter

(* Whatever flushes do, time out and are killed at, the outbox keeps what   *)
(* JiraDelivery promises: an older move never lands in Jira after a newer.  *)
DeliversInOrder        == Delivery!DeliverySpec
(* The dev log tells of an Action's run what its row does, unless a         *)
(* delivery of it outlasted its lease.                                      *)
LogTellsOutcome        == only = "actions" => Small!Actions!LogTellsOutcome
(* A delivery that lost its event attaches nothing over the later one's,    *)
LaterRunStands         == [][only = "plugins" => Small!Plugins!KeepsLaterRun]_allVars
(* and what an instance finished is not written again for the event.        *)
FinishedOnce           == only = "plugins" => Small!Plugins!FinishedOnce
(* A linked ticket is appended to the item's request, once,                 *)
TicketsAreAppended     == only = "mirror" => Mirror!TicketsAreAppended
(* and its comments follow, where they are mirrored at all.                 *)
OthersFollow           == [][only = "mirror" => Mirror!PassMirrors]_allVars
(* The bridge and a plugin are never both set to act on a project,          *)
NeverBothAct           == only = "handover" => Small!Handover!NeverBothAct
(* and what the bridge sent the plugin does not send again.                 *)
QueuedMovesAreSentOnce == only = "handover" => Small!Handover!QueuedMovesAreSentOnce
(* No doc is lost where two sides changed it, but what was written into a   *)
(* file while its bytes were on the way,                                    *)
OnlyRacedWritesAreLost == only = "docs" => Docs!OnlyRacedWritesAreLost
(* and a store with nothing to sync has the server's docs.                  *)
SettledDocsAgree       == only = "docs" => Docs!SettledDocsAgree
(* One approval gives one token, and a denial none.                         *)
OneTokenPerLogin       == only = "login" => Small!Login!OneTokenPerLogin
(* Who works on a request works on a text that no longer changes.           *)
WorkIsOnAFrozenRequest == only = "request" => Small!Request!WorkIsOnAFrozenRequest
(* What a plugin's runner removed is taken for a person's removal only if   *)
(* the runner came between a round's scan and its look at the marks.        *)
OnlyLateRemovalsAreMistaken == only = "notes" => Small!Notes!OnlyLateRemovalsAreMistaken
(* A compute of a repo's facts that is skipped would have found the same,   *)
SkippedIsKnown         == only = "git" => Git!SkippedIsKnown
(* what is shown as landed has landed,                                      *)
LandedIsThere          == [][only = "git" => Git!Lands]_allVars
(* and no dependency is dropped while its commits are there.                *)
NoEdgeVanishes         == [][only = "git" => Git!Keeps]_allVars
(* No round of a store reads half an edit,                                  *)
ReadsAreWhole          == only = "rounds" => Small!Rounds!ReadsAreWhole
(* and no edit is forgotten.                                                *)
NothingForgotten       == only = "rounds" => Small!Rounds!NothingForgotten

(* An event fires two plugin instances.                                     *)
MCInstances == <<"p", "q">>

(* A command names both items, or none and acts on the whole store.         *)
MCNamed == [p \in Proc |-> IF p \in WholeStore THEN {} ELSE Item]

(* Flushes are alike, and so are the stores that share docs, and branches.  *)
MCSymmetry == Permutations(Flush) \cup Permutations(Store) \cup Permutations(Branch)
=============================================================================
