------------------------------ MODULE JiraMirror ------------------------------
(***************************************************************************)
(* The bridge's read-only half (server/lib/jira/links.ts, sync.ts,         *)
(* inbound.ts): what is written in Jira about the tickets that items link  *)
(* reaches those items.  A poller passes over all links from time to time, *)
(* and a store that pushed a link has the server append the new tickets to *)
(* the item's request at once.  Each query and each op is a step of its    *)
(* own; people, Jira and the other worker move between any two of them.    *)
(*                                                                         *)
(* Jira's clock is behind the server's by Lag, and a pass looks back by    *)
(* Overlap, which is meant to be more.  There is one poller.               *)
(*                                                                         *)
(* A text is the tickets whose blocks it holds; a comment is known by when *)
(* it was last written.  Left out: attachments, people and ticket statuses,*)
(* which a pass also copies and nothing here reads, and comments that the  *)
(* jira-issue plugin mirrored first.                                       *)
(***************************************************************************)
EXTENDS Naturals, Sequences, SequencesExt

CONSTANTS
  Item, Ticket,
  Comment, Ours,   \* a ticket's comments, and those that todo wrote there
  Poller, Asker,   \* the polling process, and the requests of stores
  Lag, Overlap,
  MaxTime, MaxPeople, MaxVersions, MaxFaults   \* bounds: passes and writings of comments, people's moves, request versions, failures

VARIABLES
  now,      \* the server's clock
  jira,     \* ticket -> when it was last touched and its comments were last written, by Jira's clock
  links,    \* jira_links: item and ticket -> no row, one to backfill, or one marked as backfilled
  request,  \* item -> whether it is requested, and its request's versions
  notes,    \* item, ticket and comment -> the writing of the comment its note holds, 0 for no note
  created,  \* the notes whose create op the project has applied
  synced,   \* projects.jira_synced_at, 0 for never
  work,     \* worker -> what it is at
  strayed,  \* links marked as backfilled by one that did not mirror their comments
  met,      \* two workers have been at work at once
  used

vars == <<now, jira, links, request, notes, created, synced, work, strayed, met, used>>

Worker == Asker \cup {Poller}
Link   == Item \X Ticket
Note   == Link \X Comment
Idle   == [at |-> "idle", rows |-> {}, fresh |-> {}, started |-> 0, since |-> 0, issues |-> {},
           issue |-> <<>>, todo |-> {}, due |-> {}, link |-> <<>>, read |-> <<>>]

Version(blocks, frozen) == [blocks |-> blocks, frozen |-> frozen]

Init ==
  /\ now = Lag /\ synced = 0
  /\ jira = [t \in Ticket |-> [touched |-> 0, written |-> [c \in Comment |-> 0]]]
  /\ links = [l \in Link |-> "none"]
  /\ request \in [Item -> [open : BOOLEAN, versions : {<<>>, <<Version(<<>>, FALSE)>>, <<Version(<<>>, TRUE)>>}]]
  /\ \A i \in Item : request[i].versions # <<>> => request[i].versions[1].frozen = ~request[i].open
  /\ notes = [n \in Note |-> 0] /\ created = {}
  /\ work = [w \in Worker |-> Idle]
  /\ strayed = {} /\ met = FALSE
  /\ used = [people |-> 0, faults |-> 0]

-----------------------------------------------------------------------------
(* Time, Jira and people.                                                  *)

server == <<links, request, notes, created, synced>>
ghosts == <<strayed, met>>

(* What is dated happens at a time of its own.                             *)
Tick == now < MaxTime /\ now' = now + 1

(* A comment is written or edited, which touches its ticket.               *)
WriteComment ==
  /\ Tick
  /\ \E t \in Ticket, c \in Comment :
       jira' = [jira EXCEPT ![t].touched = now' - Lag, ![t].written[c] = now' - Lag]
  /\ UNCHANGED <<server, work, ghosts, used>>

ByPeople ==
  /\ used.people < MaxPeople /\ used' = [used EXCEPT !.people = @ + 1]
  /\ UNCHANGED <<now, jira, synced, work, met>>

(* The item's list of tickets is set, and its rows follow.                 *)
SetLink ==
  /\ ByPeople
  /\ \E l \in Link :
       /\ links' = [links EXCEPT ![l] = IF @ = "none" THEN "fresh" ELSE "none"]
       /\ strayed' = strayed \ {l}
  /\ UNCHANGED <<request, notes, created>>

(* Work starts on the item, and the versions of its request freeze.        *)
LeaveRequested ==
  /\ ByPeople
  /\ \E i \in Item :
       /\ request[i].open
       /\ request' = [request EXCEPT ![i] =
            [open |-> FALSE, versions |-> [n \in DOMAIN @.versions |-> Version(@.versions[n].blocks, TRUE)]]]
  /\ UNCHANGED <<links, notes, created, strayed>>

RemoveNote ==
  /\ ByPeople
  /\ \E n \in Note : notes[n] > 0 /\ notes' = [notes EXCEPT ![n] = 0]
  /\ UNCHANGED <<links, request, created, strayed>>

-----------------------------------------------------------------------------
(* A worker starts with the links' rows as they are; the request of a      *)
(* store takes its item's rows that are not backfilled yet.                *)

Goes(w, to) == work' = [work EXCEPT ![w] = to]
Start(w, to) ==
  /\ work[w] = Idle /\ Goes(w, to)
  /\ met' = (met \/ \E v \in Worker \ {w} : work[v] # Idle)

Rows(state) == {l \in Link : links[l] \in state}

(* Mutant: a pass looks no further back than to the last one's start.      *)
SinceTheLast(last) == last

(* The time from which a pass takes a ticket to have changed.              *)
Since(last) == IF last > Overlap THEN last - Overlap ELSE 0

StartPass ==
  /\ Tick
  /\ Start(Poller, [Idle EXCEPT !.at = "search", !.rows = Rows({"fresh", "marked"}), !.fresh = Rows({"fresh"}),
                                !.started = now', !.since = Since(synced)])
  /\ UNCHANGED <<jira, server, strayed, used>>

StartAsk ==
  /\ \E w \in Asker, i \in Item :
       LET rows == {l \in Rows({"fresh"}) : l[1] = i}
       IN  rows # {} /\ Start(w, [Idle EXCEPT !.at = "search", !.rows = rows, !.fresh = rows])
  /\ UNCHANGED <<now, jira, server, strayed, used>>

(* The linked issues are fetched; one that Jira does not answer for, when  *)
(* keys are asked for one by one, is skipped.                              *)
Fetched(tickets) == {[key |-> t, touched |-> jira[t].touched, written |-> jira[t].written] : t \in tickets}

Search ==
  /\ \E w \in Worker :
       LET tickets == {l[2] : l \in work[w].rows}
       IN  /\ work[w].at = "search"
           /\ \/ /\ Goes(w, [work[w] EXCEPT !.at = "issues", !.issues = Fetched(tickets)])
                 /\ UNCHANGED <<strayed, used>>
              \/ /\ used.faults < MaxFaults /\ used' = [used EXCEPT !.faults = @ + 1]
                 /\ \E t \in tickets :
                      /\ Goes(w, [work[w] EXCEPT !.at = "issues", !.issues = Fetched(tickets \ {t})])
                      /\ strayed' = IF w = Poller
                                    THEN strayed \cup {l \in work[w].rows \ work[w].fresh : l[2] = t}
                                    ELSE strayed
  /\ UNCHANGED <<now, jira, server, met>>

(* The next issue is taken: its links that are not backfilled come first,  *)
(* and then a pass mirrors its comments onto the items linking it; of an   *)
(* issue that has not changed, onto those it backfills.                    *)
Between(w) == work[w].at = "issues" /\ work[w].todo = {} /\ work[w].due = {}

Mirrored(w, issue) ==
  IF w # Poller THEN {}
  ELSE {l \in IF issue.touched < work[w].since THEN work[w].fresh ELSE work[w].rows : l[2] = issue.key}

Due(w, issue) == Mirrored(w, issue) \X {c \in Comment \ Ours : issue.written[c] > 0}

TakeIssue ==
  /\ \E w \in Worker : \E issue \in work[w].issues :
       /\ Between(w)
       /\ Goes(w, [work[w] EXCEPT !.issues = @ \ {issue}, !.issue = IF Mirrored(w, issue) = {} THEN <<>> ELSE issue,
                     !.todo = {l \in work[w].fresh : l[2] = issue.key},
                     !.due = Due(w, issue)])
       /\ strayed' = strayed \ Mirrored(w, issue)
  /\ UNCHANGED <<now, jira, server, met, used>>

(* Backfilling a link: the request is read; unless a version holds the     *)
(* ticket's block, an op appends it to the current version, or posts a new *)
(* one where that is frozen; then the row is marked.                       *)
(* Mutant: the row's mark alone says whether the block is there.           *)
RowSays(versions, t) == FALSE

HasTicketBlock(versions, t) == \E n \in DOMAIN versions : Contains(versions[n].blocks, t)

ReadRequest ==
  /\ \E w \in Worker : \E l \in work[w].todo :
       /\ work[w].at = "issues"
       /\ Goes(w, [work[w] EXCEPT !.at = IF HasTicketBlock(request[l[1]].versions, l[2]) THEN "mark" ELSE "apply",
                                  !.link = l, !.read = request[l[1]].versions])
  /\ UNCHANGED <<now, jira, server, ghosts, used>>

(* A new version returns the item to requested; a first one that comes     *)
(* after work began is frozen.                                             *)
Posted(i, blocks) ==
  [open     |-> request[i].open \/ request[i].versions # <<>>,
   versions |-> Append(request[i].versions, Version(blocks, request[i].versions = <<>> /\ ~request[i].open))]

(* An op that is refused leaves the link to a later pass.                  *)
NextLink(w) == Goes(w, [work[w] EXCEPT !.at = "issues", !.todo = @ \ {work[w].link}, !.link = <<>>, !.read = <<>>])

ApplyBlock ==
  /\ \E w \in Worker :
       LET i      == work[w].link[1]
           read   == work[w].read
           blocks == Append(IF read = <<>> THEN <<>> ELSE Last(read).blocks, work[w].link[2])
       IN  /\ work[w].at = "apply"
           /\ IF read = <<>> \/ Last(read).frozen
              THEN /\ Len(request[i].versions) < MaxVersions
                   /\ request' = [request EXCEPT ![i] = Posted(i, blocks)]
                   /\ Goes(w, [work[w] EXCEPT !.at = "mark", !.read = <<>>])
              ELSE IF request[i].versions[Len(read)].frozen
              THEN UNCHANGED request /\ NextLink(w)
              ELSE /\ request' = [request EXCEPT ![i].versions[Len(read)].blocks = blocks]
                   /\ Goes(w, [work[w] EXCEPT !.at = "mark", !.read = <<>>])
  /\ UNCHANGED <<now, jira, links, notes, created, synced, ghosts, used>>

Mark ==
  /\ \E w \in Worker :
       /\ work[w].at = "mark"
       /\ links' = [links EXCEPT ![work[w].link] = IF @ = "none" THEN @ ELSE "marked"]
       /\ strayed' = IF w = Poller THEN strayed ELSE strayed \cup {work[w].link}
       /\ NextLink(w)
  /\ UNCHANGED <<now, jira, request, notes, created, synced, met, used>>

(* A comment becomes a note under a uid and an op id of its own, so that   *)
(* one that was removed does not come back; an edit newer than the note    *)
(* is set.                                                                 *)
Commented(n, written) ==
  IF notes[n] > 0
  THEN /\ notes' = [notes EXCEPT ![n] = IF written > @ THEN written ELSE @]
       /\ UNCHANGED created
  ELSE /\ notes' = [notes EXCEPT ![n] = IF n \in created THEN @ ELSE written]
       /\ created' = created \cup {n}

MirrorComment ==
  /\ \E w \in Worker : \E n \in work[w].due :
       /\ work[w].at = "issues" /\ work[w].todo = {}
       /\ Commented(n, work[w].issue.written[n[2]])
       /\ Goes(w, [work[w] EXCEPT !.due = @ \ {n}, !.issue = IF work[w].due = {n} THEN <<>> ELSE @])
  /\ UNCHANGED <<now, jira, links, request, synced, ghosts, used>>

EndPass ==
  /\ Between(Poller) /\ work[Poller].issues = {}
  /\ synced' = work[Poller].started
  /\ Goes(Poller, Idle)
  /\ UNCHANGED <<now, jira, links, request, notes, created, ghosts, used>>

EndAsk ==
  /\ \E w \in Asker : Between(w) /\ work[w].issues = {} /\ Goes(w, Idle)
  /\ UNCHANGED <<now, jira, server, ghosts, used>>

(* A call of Jira fails, or the process is killed.                         *)
Fail ==
  /\ used.faults < MaxFaults /\ used' = [used EXCEPT !.faults = @ + 1]
  /\ \E w \in Worker :
       /\ work[w] # Idle /\ Goes(w, Idle)
       /\ strayed' = IF w = Poller THEN strayed \cup {l \in work[w].fresh : links[l] = "marked"} ELSE strayed
  /\ UNCHANGED <<now, jira, server, met>>

Next ==
  \/ WriteComment \/ SetLink \/ LeaveRequested \/ RemoveNote
  \/ StartPass \/ StartAsk \/ Search \/ TakeIssue
  \/ ReadRequest \/ ApplyBlock \/ Mark \/ MirrorComment
  \/ EndPass \/ EndAsk \/ Fail

Spec == Init /\ [][Next]_vars

-----------------------------------------------------------------------------

(* However passes, requests of stores, kills and people meet, no text of a *)
(* request gets a ticket's block twice (ticket-block.ts, hasTicketBlock).  *)
BlocksOnce ==
  \A i \in Item : \A n \in DOMAIN request[i].versions : IsInjective(request[i].versions[n].blocks)

(* A link is marked as backfilled only when the item's request holds the   *)
(* ticket, also if the request froze meanwhile or the worker was killed;   *)
(* as long as no two workers were at work at once (links.ts, backfill).    *)
MarkedIsHeld ==
  \A l \in Link : links[l] = "marked" /\ ~met => HasTicketBlock(request[l[1]].versions, l[2])

TicketsAreAppended == BlocksOnce /\ MarkedIsHeld

(* When a pass ends, the items of these links have the comments that were  *)
(* in Jira before it began, as they were, unless a person removed them.    *)
Before(n) == jira[n[1][2]].written[n[2]] \in 1..(work[Poller].started - Lag - 1)
Holds(n)  == notes[n] = jira[n[1][2]].written[n[2]] \/ (n \in created /\ notes[n] = 0)
Follow(some) ==
  EndPass => \A n \in some \X (Comment \ Ours) : links[n[1]] = "marked" /\ Before(n) => Holds(n)

(* README.md of the server: "Comments mirror onto every item linking the   *)
(* issue, edits included" (links.ts, syncLinked).                          *)
CommentsFollow == [][Follow(work[Poller].rows)]_vars

(* They do, even if passes fail and Jira's clock is behind, except for     *)
(* links that were marked by one that did not mirror their comments, which *)
(* wait until the ticket changes (links.ts, syncLinked, backfillItem).     *)
PassMirrors  == Follow(work[Poller].rows \ strayed)
OthersFollow == [][PassMirrors]_vars
=============================================================================
