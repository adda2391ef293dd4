--------------------------- MODULE JiraMirrorProofs ---------------------------
(***************************************************************************)
(* The bridge's reading of Jira (JiraMirror) proved for any items,         *)
(* tickets, comments, stores that ask, and times.  Three invariants: what  *)
(* each worker has at its place in the pass (MirrorBase), what a backfill  *)
(* knows of the request it read (Appended), and what of Jira the items     *)
(* must have by where the pass is (FollowInv).                             *)
(***************************************************************************)
EXTENDS JiraMirror, SequenceTheorems, TLAPS

(* Jira's clock is not further behind than a pass looks back, and the      *)
(* poller is none of the stores' requests.                                 *)
LagAssumption ==
  /\ Lag \in Nat /\ Overlap \in Nat /\ Lag <= Overlap
  /\ Poller \notin Asker

Found   == [key : Ticket, touched : Nat, written : [Comment -> Nat]]
Text    == [blocks : Seq(Ticket), frozen : BOOLEAN]
NoLink  == Link \cup {<<>>}
NoIssue == Found \cup {<<>>}
Texts   == Seq(Text)
Request == [open : BOOLEAN, versions : Texts]
Errand  == [at : {"idle", "search", "issues", "apply", "mark"}, rows : SUBSET Link, fresh : SUBSET Link,
            started : Nat, since : Nat, issues : SUBSET Found, issue : NoIssue,
            todo : SUBSET Link, due : SUBSET Note, link : NoLink, read : Texts]

MirrorTypes ==
  /\ now \in Nat /\ Lag <= now /\ synced \in 0..now
  /\ jira \in [Ticket -> [touched : Nat, written : [Comment -> Nat]]]
  /\ links \in [Link -> {"none", "fresh", "marked"}]
  /\ request \in [Item -> Request]
  /\ notes \in [Note -> Nat] /\ created \in SUBSET Note
  /\ work \in [Worker -> Errand]
  /\ strayed \in SUBSET Link /\ met \in BOOLEAN

(* What a worker has at each place.                                        *)
IsAt(w, r) ==
  /\ r.at = "idle" => r = Idle
  /\ r.fresh \subseteq r.rows /\ r.todo \subseteq r.fresh
  /\ r.at \in {"apply", "mark"} => r.link \in r.todo
  /\ r.due # {} => w = Poller /\ r.issue \in Found
  /\ \A n \in r.due : n[1][2] = r.issue.key /\ n[2] \notin Ours

AtWork == \A w \in Worker : IsAt(w, work[w]) /\ work[w].started <= now

MirrorBase == MirrorTypes /\ AtWork

-----------------------------------------------------------------------------
(* What the steps share.                                                   *)

LEMMA Empties ==
  /\ <<>> \in Texts /\ <<>> \in NoLink /\ <<>> \in NoIssue
  /\ Link \subseteq NoLink /\ Found \subseteq NoIssue
  BY DEF Texts, NoLink, NoIssue

LEMMA ErrandTypes ==
  ASSUME NEW e \in Errand
  PROVE  /\ e.rows \in SUBSET Link /\ e.fresh \in SUBSET Link /\ e.started \in Nat /\ e.since \in Nat
         /\ e.issues \in SUBSET Found /\ e.issue \in NoIssue /\ e.todo \in SUBSET Link /\ e.due \in SUBSET Note
         /\ e.link \in NoLink /\ e.read \in Texts
         /\ e.at \in {"idle", "search", "issues", "apply", "mark"}
  BY DEF Errand

LEMMA IdleErrand ==
  /\ Idle \in Errand /\ Idle.started = 0 /\ Idle.at = "idle"
  /\ Idle.rows = {} /\ Idle.fresh = {} /\ Idle.todo = {} /\ Idle.due = {} /\ Idle.issues = {}
  /\ \A w : IsAt(w, Idle)
  BY Empties DEF Errand, Idle, IsAt

(* It holds at first,                                                      *)
LEMMA MirrorBaseInit == ASSUME LagAssumption, Init PROVE MirrorBase
<1>1. Idle \in Errand /\ \A w : IsAt(w, Idle)
  BY IdleErrand
<1>2. request \in [Item -> Request]
  <2> DEFINE First == {<<>>, <<Version(<<>>, FALSE)>>, <<Version(<<>>, TRUE)>>}
  <2>1. First \subseteq Texts
    <3>1. Version(<<>>, FALSE) \in Text /\ Version(<<>>, TRUE) \in Text
      BY DEF Text, Version
    <3>2. \A v \in Text : <<v>> \in Texts
      BY DEF Texts
    <3> QED
      BY <3>1, <3>2, Empties
  <2> DEFINE Firsts == [open : BOOLEAN, versions : First]
  <2>2. request \in [Item -> Firsts]
    BY DEF Init
  <2>3. Firsts \subseteq Request
    <3> HIDE DEF First
    <3> QED
      BY <2>1 DEF Request
  <2> HIDE DEF Firsts
  <2> QED
    BY <2>2, <2>3
<1>5. jira \in [Ticket -> [touched : Nat, written : [Comment -> Nat]]]
  <2>1. [touched |-> 0, written |-> [c \in Comment |-> 0]] \in [touched : Nat, written : [Comment -> Nat]]
    OBVIOUS
  <2> QED
    BY <2>1 DEF Init
<1>6. work \in [Worker -> Errand]
  BY <1>1 DEF Init
<1>7. now \in Nat /\ Lag <= now /\ synced \in 0..now
  <2>1. now = Lag /\ synced = 0
    BY DEF Init
  <2> QED
    BY <2>1 DEF LagAssumption
<1>9. strayed \in SUBSET Link /\ met \in BOOLEAN /\ created \in SUBSET Note
  BY DEF Init
<1>8. links \in [Link -> {"none", "fresh", "marked"}] /\ notes \in [Note -> Nat]
  BY DEF Init
<1>3. MirrorTypes
  BY <1>2, <1>5, <1>6, <1>7, <1>8, <1>9 DEF MirrorTypes
<1>4. AtWork
  BY <1>1, IdleErrand DEF Init, AtWork, LagAssumption
<1> QED
  BY <1>3, <1>4 DEF MirrorBase

Searching(rows, fresh) == [Idle EXCEPT !.at = "search", !.rows = rows, !.fresh = fresh]
Passing(rows, fresh, started, since) ==
  [Idle EXCEPT !.at = "search", !.rows = rows, !.fresh = fresh, !.started = started, !.since = since]

LEMMA StartTypes ==
  ASSUME NEW rows \in SUBSET Link, NEW fresh \in SUBSET rows, NEW started \in Nat, NEW since \in Nat, NEW w
  PROVE  /\ Searching(rows, fresh) \in Errand /\ Searching(rows, fresh).started = 0 /\ IsAt(w, Searching(rows, fresh))
         /\ Passing(rows, fresh, started, since) \in Errand
         /\ Passing(rows, fresh, started, since).started = started
         /\ IsAt(w, Passing(rows, fresh, started, since))
<1>1. Idle \in Errand /\ Idle.started = 0 /\ Idle.todo = {} /\ Idle.due = {}
  BY IdleErrand
<1> QED
  BY <1>1 DEF Errand, IsAt, Searching, Passing

(* A worker that goes on leaves the others where they are.                 *)
LEMMA ErrandStays ==
  ASSUME MirrorBase, NEW w \in Worker, NEW to \in Errand, Goes(w, to),
         now' \in Nat, now <= now', to.started <= now', IsAt(w, to)
  PROVE  /\ work' \in [Worker -> Errand] /\ AtWork'
         /\ work'[w] = to /\ \A v \in Worker \ {w} : work'[v] = work[v]
<1>1. work \in [Worker -> Errand] /\ work' = [work EXCEPT ![w] = to] /\ now \in Nat
  BY DEF MirrorBase, MirrorTypes, Goes
<1>2. \A e \in Errand : e.started \in Nat
  BY DEF Errand
<1>3. \A v \in Worker : IsAt(v, work[v]) /\ work[v].started <= now
  BY DEF MirrorBase, AtWork
<1>4. work' \in [Worker -> Errand] /\ work'[w] = to /\ \A v \in Worker \ {w} : work'[v] = work[v]
  BY <1>1
<1>5. \A v \in Worker : work'[v].started <= now'
  BY <1>1, <1>2, <1>3, <1>4
<1>6. \A v \in Worker : IsAt(v, work'[v])
  BY <1>3, <1>4
<1> QED
  BY <1>4, <1>5, <1>6 DEF AtWork

LEMMA ErrandMoves ==
  ASSUME MirrorBase, NEW w \in Worker, NEW to \in Errand, Goes(w, to), UNCHANGED now, to.started <= now, IsAt(w, to)
  PROVE  /\ work' \in [Worker -> Errand] /\ AtWork'
         /\ work'[w] = to /\ \A v \in Worker \ {w} : work'[v] = work[v]
<1>1. now \in Nat
  BY DEF MirrorBase, MirrorTypes
<1> QED
  BY <1>1, ErrandStays

LEMMA SetText ==
  ASSUME NEW vs \in Texts, NEW m \in Nat, NEW blocks \in Seq(Ticket)
  PROVE  [vs EXCEPT ![m].blocks = blocks] \in Texts
<1>1. CASE m \in DOMAIN vs
  <2>1. vs[m] \in Text
    BY <1>1 DEF Texts
  <2>2. [vs[m] EXCEPT !.blocks = blocks] \in Text
    BY <2>1 DEF Text
  <2> DEFINE v == [vs[m] EXCEPT !.blocks = blocks]
  <2>3. [vs EXCEPT ![m].blocks = blocks] = [vs EXCEPT ![m] = v]
    OBVIOUS
  <2> HIDE DEF v
  <2>4. [vs EXCEPT ![m] = v] \in Texts
    BY <1>1, <2>2, ExceptSeq DEF Texts, v
  <2> QED
    BY <2>3, <2>4
<1>2. CASE m \notin DOMAIN vs
  <2>1. [vs EXCEPT ![m].blocks = blocks] = vs
    BY <1>2 DEF Texts
  <2> QED
    BY <2>1
<1> QED
  BY <1>1, <1>2

LEMMA TextTypes ==
  ASSUME NEW vs \in Texts
  PROVE  /\ vs # <<>> => Last(vs) \in Text /\ Len(vs) \in DOMAIN vs
         /\ \A n \in DOMAIN vs : vs[n].blocks \in Seq(Ticket) /\ vs[n].frozen \in BOOLEAN /\ vs[n] \in Text
<1>1. vs # <<>> => Len(vs) \in DOMAIN vs
  BY DEF Texts
<1>2. \A n \in DOMAIN vs : vs[n] \in Text
  BY DEF Texts
<1> QED
  BY <1>1, <1>2 DEF Last, Text

(* and each step keeps it.                                                 *)
LEMMA MirrorBaseNext == ASSUME LagAssumption, MirrorBase, [Next]_vars PROVE MirrorBase'
<1> USE DEF Tick
<1>a. /\ now \in Nat /\ Lag <= now /\ synced \in 0..now /\ Lag \in Nat
      /\ jira \in [Ticket -> [touched : Nat, written : [Comment -> Nat]]]
      /\ links \in [Link -> {"none", "fresh", "marked"}]
      /\ request \in [Item -> Request]
      /\ notes \in [Note -> Nat] /\ created \in SUBSET Note
      /\ work \in [Worker -> Errand]
      /\ strayed \in SUBSET Link /\ met \in BOOLEAN
  BY DEF MirrorBase, MirrorTypes, LagAssumption
<1>b. AtWork
  BY DEF MirrorBase
<1>c. \A w \in Worker : work[w] \in Errand /\ IsAt(w, work[w]) /\ work[w].started <= now
  BY <1>a, <1>b DEF AtWork
<1>d. UNCHANGED work /\ now' \in {now, now + 1} => AtWork'
  BY <1>a, <1>c DEF AtWork, Errand
<1>0. CASE UNCHANGED vars
  BY <1>0, <1>a, <1>d DEF vars, MirrorBase, MirrorTypes
<1>1. CASE WriteComment
  <2> PICK t \in Ticket, c \in Comment :
       jira' = [jira EXCEPT ![t].touched = now' - Lag, ![t].written[c] = now' - Lag]
    BY <1>1 DEF WriteComment
  <2>1. now' = now + 1 /\ now' - Lag \in Nat
    BY <1>1, <1>a DEF WriteComment
  <2>2. jira' \in [Ticket -> [touched : Nat, written : [Comment -> Nat]]]
    BY <2>1, <1>a
  <2> QED
    BY <1>1, <1>a, <1>d, <2>1, <2>2 DEF WriteComment, server, ghosts, MirrorBase, MirrorTypes
<1>2. CASE SetLink
  BY <1>2, <1>a, <1>d DEF SetLink, ByPeople, MirrorBase, MirrorTypes
<1>3. CASE LeaveRequested
  <2> PICK i \in Item : /\ request[i].open
                        /\ request' = [request EXCEPT ![i] =
                             [open |-> FALSE, versions |-> [n \in DOMAIN @.versions |-> Version(@.versions[n].blocks, TRUE)]]]
    BY <1>3 DEF LeaveRequested
  <2>1. request[i].versions \in Texts
    BY <1>a DEF Request
  <2>2. [n \in DOMAIN request[i].versions |-> Version(request[i].versions[n].blocks, TRUE)] \in Texts
    <3>1. \A n \in DOMAIN request[i].versions : Version(request[i].versions[n].blocks, TRUE) \in Text
      BY <2>1, TextTypes DEF Version, Text
    <3> DEFINE f(n) == Version(request[i].versions[n].blocks, TRUE)
    <3> HIDE DEF f
    <3>3. DOMAIN request[i].versions = 1..Len(request[i].versions) /\ Len(request[i].versions) \in Nat
      BY <2>1 DEF Texts
    <3>4. \A n \in 1..Len(request[i].versions) : f(n) \in Text
      BY <3>1, <3>3 DEF f
    <3>5. [n \in 1..Len(request[i].versions) |-> f(n)] \in Texts
      BY <3>3, <3>4 DEF Texts
    <3>2. [n \in DOMAIN request[i].versions |-> f(n)] \in Texts
      BY <3>3, <3>5
    <3> QED
      BY <3>2 DEF f
  <2>3. request' \in [Item -> Request]
    BY <2>2, <1>a DEF Request
  <2> QED
    BY <1>3, <2>3, <1>a, <1>d DEF LeaveRequested, ByPeople, MirrorBase, MirrorTypes
<1>4. CASE RemoveNote
  BY <1>4, <1>a, <1>d DEF RemoveNote, ByPeople, MirrorBase, MirrorTypes
<1>5. CASE StartPass
  <2>0. now' = now + 1 /\ now \in Nat
    BY <1>5, <1>a DEF StartPass
  <2> DEFINE to == Passing(Rows({"fresh", "marked"}), Rows({"fresh"}), now', Since(synced))
  <2>2. Rows({"fresh"}) \subseteq Link /\ Rows({"fresh", "marked"}) \subseteq Link /\ Rows({"fresh"}) \subseteq Rows({"fresh", "marked"})
    BY DEF Rows
  <2>3. Since(synced) \in Nat /\ now' \in Nat
    BY <2>0, <1>a DEF Since, LagAssumption
  <2>4. to \in Errand /\ to.started = now'
    BY <2>2, <2>3, StartTypes
  <2>5. IsAt(Poller, to)
    BY <2>2, <2>3, StartTypes
  <2>6. Goes(Poller, to) /\ Poller \in Worker
    BY <1>5 DEF StartPass, Start, Worker, Passing
    <2> HIDE DEF to
  <2>7. work' \in [Worker -> Errand] /\ AtWork'
    BY <2>4, <2>5, <2>6, <2>0, ErrandStays
  <2> QED
    BY <1>5, <1>a, <2>7, <2>0 DEF StartPass, Start, server, MirrorBase, MirrorTypes
<1>6. CASE StartAsk
  <2>0. now' = now /\ now \in Nat
    BY <1>6, <1>a DEF StartAsk
  <2> PICK w \in Asker, i \in Item :
       LET rows == {l \in Rows({"fresh"}) : l[1] = i}
       IN  Start(w, [Idle EXCEPT !.at = "search", !.rows = rows, !.fresh = rows])
    BY <1>6 DEF StartAsk
  <2> DEFINE rows == {l \in Rows({"fresh"}) : l[1] = i}
             to == Searching(rows, rows)
  <2>4. rows \subseteq Link
    BY DEF Rows
  <2> HIDE DEF rows
  <2>5. to \in Errand /\ to.started = 0 /\ 0 \in Nat
    BY <2>4, StartTypes
  <2>1. IsAt(w, to)
    BY <2>4, StartTypes
  <2>2. Goes(w, to) /\ w \in Worker
    BY DEF Start, Worker, Searching, rows
  <2> HIDE DEF to
  <2>3. work' \in [Worker -> Errand] /\ AtWork'
    BY <2>1, <2>2, <2>5, <2>0, ErrandStays
  <2> QED
    BY <1>6, <1>a, <2>3 DEF StartAsk, Start, server, MirrorBase, MirrorTypes
<1>7. CASE Search
  <2>0. now' = now /\ now \in Nat
    BY <1>7, <1>a DEF Search
  <2> DEFINE tickets(w) == {l[2] : l \in work[w].rows}
             Skips(w, t) == {l \in work[w].rows \ work[w].fresh : l[2] = t}
  <2>a. \E w \in Worker : \E some \in SUBSET tickets(w) :
          /\ work[w].at = "search"
          /\ Goes(w, [work[w] EXCEPT !.at = "issues", !.issues = Fetched(some)])
          /\ strayed' = strayed \/ \E t \in tickets(w) : strayed' = strayed \cup Skips(w, t)
    <3> PICK w \in Worker :
           /\ work[w].at = "search"
           /\ \/ /\ Goes(w, [work[w] EXCEPT !.at = "issues", !.issues = Fetched(tickets(w))])
                 /\ UNCHANGED <<strayed, used>>
              \/ /\ used.faults < MaxFaults /\ used' = [used EXCEPT !.faults = @ + 1]
                 /\ \E t \in tickets(w) :
                      /\ Goes(w, [work[w] EXCEPT !.at = "issues", !.issues = Fetched(tickets(w) \ {t})])
                      /\ strayed' = IF w = Poller
                                    THEN strayed \cup Skips(w, t)
                                    ELSE strayed
      BY <1>7, Zenon DEF Search
    <3> HIDE DEF tickets, Skips
    <3>1. CASE UNCHANGED <<strayed, used>> /\ Goes(w, [work[w] EXCEPT !.at = "issues", !.issues = Fetched(tickets(w))])
      <4>1. tickets(w) \in SUBSET tickets(w)
        OBVIOUS
      <4> QED
        BY <3>1, <4>1
    <3>2. ASSUME NEW t \in tickets(w),
                 Goes(w, [work[w] EXCEPT !.at = "issues", !.issues = Fetched(tickets(w) \ {t})]),
                 strayed' = IF w = Poller THEN strayed \cup Skips(w, t) ELSE strayed
          PROVE  \E some \in SUBSET tickets(w) :
                   /\ Goes(w, [work[w] EXCEPT !.at = "issues", !.issues = Fetched(some)])
                   /\ strayed' = strayed \/ \E u \in tickets(w) : strayed' = strayed \cup Skips(w, u)
      <4>1. tickets(w) \ {t} \in SUBSET tickets(w)
        OBVIOUS
      <4> QED
        BY <3>2, <4>1
    <3> QED
      BY <3>1, <3>2
  <2> PICK w \in Worker : \E some \in SUBSET tickets(w) :
          /\ work[w].at = "search"
          /\ Goes(w, [work[w] EXCEPT !.at = "issues", !.issues = Fetched(some)])
          /\ strayed' = strayed \/ \E t \in tickets(w) : strayed' = strayed \cup Skips(w, t)
    BY <2>a, Zenon
  <2> PICK some \in SUBSET tickets(w) :
          /\ work[w].at = "search"
          /\ Goes(w, [work[w] EXCEPT !.at = "issues", !.issues = Fetched(some)])
          /\ strayed' = strayed \/ \E t \in tickets(w) : strayed' = strayed \cup Skips(w, t)
    BY Zenon
  <2> DEFINE to == [work[w] EXCEPT !.at = "issues", !.issues = Fetched(some)]
  <2>1. work[w] \in Errand /\ IsAt(w, work[w]) /\ work[w].started <= now
    BY <1>c
  <2>2. tickets(w) \subseteq Ticket
    BY <2>1 DEF Errand, Link
  <2>3. Fetched(some) \subseteq Found
    BY <1>a, <2>2 DEF Fetched, Found
  <2>4. to \in Errand /\ IsAt(w, to) /\ to.started <= now /\ Goes(w, to)
    BY <2>1, <2>3, Empties DEF Errand, IsAt
  <2> HIDE DEF to
  <2>5. work' \in [Worker -> Errand] /\ AtWork'
    BY <2>4, <2>0, ErrandStays
  <2>6. strayed' \subseteq Link
    BY <1>a, <2>1 DEF Errand
  <2> QED
    BY <1>7, <1>a, <2>5, <2>6 DEF Search, server, MirrorBase, MirrorTypes
<1>8. CASE TakeIssue
  <2>0. now' = now /\ now \in Nat
    BY <1>8, <1>a DEF TakeIssue
  <2> PICK w \in Worker : \E issue \in work[w].issues :
       /\ Between(w)
       /\ Goes(w, [work[w] EXCEPT !.issues = @ \ {issue}, !.issue = IF Mirrored(w, issue) = {} THEN <<>> ELSE issue,
                     !.todo = {l \in work[w].fresh : l[2] = issue.key},
                     !.due = Due(w, issue)])
       /\ strayed' = strayed \ Mirrored(w, issue)
    BY <1>8, Zenon DEF TakeIssue
  <2> PICK issue \in work[w].issues :
       /\ Between(w)
       /\ Goes(w, [work[w] EXCEPT !.issues = @ \ {issue}, !.issue = IF Mirrored(w, issue) = {} THEN <<>> ELSE issue,
                     !.todo = {l \in work[w].fresh : l[2] = issue.key},
                     !.due = Due(w, issue)])
       /\ strayed' = strayed \ Mirrored(w, issue)
    BY Zenon
  <2> DEFINE to == [work[w] EXCEPT !.issues = @ \ {issue}, !.issue = IF Mirrored(w, issue) = {} THEN <<>> ELSE issue,
                     !.todo = {l \in work[w].fresh : l[2] = issue.key},
                     !.due = Due(w, issue)]
  <2>1. work[w] \in Errand /\ IsAt(w, work[w]) /\ work[w].started <= now
    BY <1>c
  <2>2. Mirrored(w, issue) \subseteq Link
    BY <2>1 DEF Mirrored, Errand
  <2>3. /\ Due(w, issue) \subseteq Note
        /\ \A n \in Due(w, issue) : n[1][2] = issue.key /\ n[2] \notin Ours
        /\ Due(w, issue) # {} => w = Poller /\ Mirrored(w, issue) # {}
    BY <2>2 DEF Note, Due, Mirrored
  <2>4. issue \in Found /\ work[w].at = "issues"
    BY <2>1, ErrandTypes DEF Between
  <2>6. to \in Errand /\ to.started <= now /\ Goes(w, to)
    BY <2>1, <2>2, <2>3, <2>4, Empties DEF Errand
  <2>7. IsAt(w, to)
    BY <2>1, <2>3, <2>4, ErrandTypes DEF IsAt
  <2> HIDE DEF to
  <2>5. work' \in [Worker -> Errand] /\ AtWork'
    BY <2>6, <2>7, <2>0, ErrandStays
  <2> QED
    BY <1>8, <1>a, <2>5 DEF TakeIssue, server, MirrorBase, MirrorTypes
<1>9. CASE ReadRequest
  <2>0. now' = now /\ now \in Nat
    BY <1>9, <1>a DEF ReadRequest
  <2> PICK w \in Worker : \E l \in work[w].todo :
       /\ work[w].at = "issues"
       /\ Goes(w, [work[w] EXCEPT !.at = IF HasTicketBlock(request[l[1]].versions, l[2]) THEN "mark" ELSE "apply",
                                  !.link = l, !.read = request[l[1]].versions])
    BY <1>9 DEF ReadRequest
  <2> PICK l \in work[w].todo :
       /\ work[w].at = "issues"
       /\ Goes(w, [work[w] EXCEPT !.at = IF HasTicketBlock(request[l[1]].versions, l[2]) THEN "mark" ELSE "apply",
                                  !.link = l, !.read = request[l[1]].versions])
    OBVIOUS
  <2> DEFINE to == [work[w] EXCEPT !.at = IF HasTicketBlock(request[l[1]].versions, l[2]) THEN "mark" ELSE "apply",
                                  !.link = l, !.read = request[l[1]].versions]
  <2>1. work[w] \in Errand /\ IsAt(w, work[w]) /\ work[w].started <= now
    BY <1>c
  <2>2. l \in Link /\ l[1] \in Item
    BY <2>1 DEF Errand, Link
  <2>4. to \in Errand /\ IsAt(w, to) /\ to.started <= now /\ Goes(w, to)
    BY <2>1, <2>2, <1>a, Empties DEF Errand, IsAt, Request
  <2> HIDE DEF to
  <2>5. work' \in [Worker -> Errand] /\ AtWork'
    BY <2>4, <2>2, <2>0, ErrandStays
  <2> QED
    BY <1>9, <1>a, <2>5 DEF ReadRequest, server, ghosts, MirrorBase, MirrorTypes
<1>10. CASE ApplyBlock
  <2>0. now' = now /\ now \in Nat
    BY <1>10, <1>a DEF ApplyBlock
  <2>p. PICK w \in Worker :
       LET i      == work[w].link[1]
           read   == work[w].read
           blocks == Append(IF read = <<>> THEN <<>> ELSE Last(read).blocks, work[w].link[2])
       IN  /\ work[w].at = "apply"
           /\ \/ request' = [request EXCEPT ![i] = Posted(i, blocks)]
              \/ UNCHANGED request
              \/ read # <<>> /\ request' = [request EXCEPT ![i].versions[Len(read)].blocks = blocks]
           /\ Goes(w, [work[w] EXCEPT !.at = "mark", !.read = <<>>]) \/ NextLink(w)
    BY <1>10 DEF ApplyBlock
  <2> DEFINE i == work[w].link[1]
             read == work[w].read
             blocks == Append(IF read = <<>> THEN <<>> ELSE Last(read).blocks, work[w].link[2])
  <2>1. /\ work[w] \in Errand /\ IsAt(w, work[w]) /\ work[w].started <= now
        /\ work[w].at = "apply" /\ work[w].link \in Link
    BY <1>c, <2>p, ErrandTypes DEF IsAt
  <2>2. i \in Item /\ work[w].link[2] \in Ticket /\ read \in Texts
    BY <2>1, ErrandTypes DEF Link
  <2>3. blocks \in Seq(Ticket)
    <3>1. read # <<>> => Last(read).blocks \in Seq(Ticket)
      <4> HIDE DEF read
      <4>1. read # <<>> => Last(read) \in Text
        BY <2>2, TextTypes
      <4> QED
        BY <4>1 DEF Text
    <3> HIDE DEF read
    <3> QED
      BY <3>1, <2>2
  <2>4. request[i].versions \in Texts /\ request[i] \in Request
    BY <2>2, <1>a DEF Request
  <2> HIDE DEF i, read, blocks
  <2>5. request' \in [Item -> Request]
    <3>1. CASE request' = [request EXCEPT ![i] = Posted(i, blocks)]
      <4>1. Posted(i, blocks) \in Request
        <5> DEFINE v == Version(blocks, request[i].versions = <<>> /\ ~request[i].open)
        <5>1. v \in Text
          BY <2>3 DEF Text, Version
        <5> HIDE DEF v
        <5>2. Append(request[i].versions, v) \in Texts
          BY <5>1, <2>4 DEF Texts
        <5>3. (request[i].open \/ request[i].versions # <<>>) \in BOOLEAN
          OBVIOUS
        <5> QED
          BY <5>2, <2>4 DEF Posted, v, Request
      <4> QED
        BY <3>1, <4>1, <1>a
    <3>2. CASE read # <<>> /\ request' = [request EXCEPT ![i].versions[Len(read)].blocks = blocks]
      <4> DEFINE vs == [request[i].versions EXCEPT ![Len(read)].blocks = blocks]
      <4>1. vs \in Texts
        <5>1. Len(read) \in Nat
          BY <2>2 DEF Texts
        <5> QED
          BY <5>1, <2>3, <2>4, SetText
      <4>2. request' = [request EXCEPT ![i] = [request[i] EXCEPT !.versions = vs]]
        BY <3>2
      <4>3. [request[i] EXCEPT !.versions = vs] \in Request
        BY <4>1, <2>4 DEF Request
      <4> QED
        BY <4>2, <4>3, <1>a
    <3> QED
      BY <2>p, <3>1, <3>2, <1>a DEF i, read, blocks
  <2>6. work' \in [Worker -> Errand] /\ AtWork'
    <3>1. CASE Goes(w, [work[w] EXCEPT !.at = "mark", !.read = <<>>])
      <4> DEFINE to == [work[w] EXCEPT !.at = "mark", !.read = <<>>]
      <4>1. to \in Errand /\ IsAt(w, to) /\ to.started <= now /\ Goes(w, to)
        BY <3>1, <2>1, Empties DEF Errand, IsAt
      <4> HIDE DEF to
      <4> QED
        BY <4>1, <2>0, ErrandMoves, Zenon
    <3>2. CASE NextLink(w)
      <4> DEFINE to == [work[w] EXCEPT !.at = "issues", !.todo = @ \ {work[w].link}, !.link = <<>>, !.read = <<>>]
      <4>1. to \in Errand /\ IsAt(w, to) /\ to.started <= now /\ Goes(w, to)
        BY <3>2, <2>1, Empties DEF Errand, IsAt, NextLink
      <4> HIDE DEF to
      <4> QED
        BY <4>1, <2>0, ErrandMoves, Zenon
    <3> QED
      BY <2>p, <3>1, <3>2
  <2> QED
    BY <1>10, <1>a, <2>5, <2>6 DEF ApplyBlock, server, ghosts, MirrorBase, MirrorTypes
<1>11. CASE Mark
  <2>0. now' = now /\ now \in Nat
    BY <1>11, <1>a DEF Mark
  <2> PICK w \in Worker :
       /\ work[w].at = "mark"
       /\ links' = [links EXCEPT ![work[w].link] = IF @ = "none" THEN @ ELSE "marked"]
       /\ strayed' = IF w = Poller THEN strayed ELSE strayed \cup {work[w].link}
       /\ NextLink(w)
    BY <1>11 DEF Mark
  <2>1. work[w] \in Errand /\ IsAt(w, work[w]) /\ work[w].started <= now /\ work[w].link \in Link
    BY <1>c DEF IsAt, Errand
  <2> DEFINE to == [work[w] EXCEPT !.at = "issues", !.todo = @ \ {work[w].link}, !.link = <<>>, !.read = <<>>]
  <2>2. to \in Errand /\ IsAt(w, to) /\ to.started <= now /\ Goes(w, to)
    BY <2>1, Empties DEF Errand, IsAt, NextLink
  <2> HIDE DEF to
  <2>3. work' \in [Worker -> Errand] /\ AtWork'
    BY <2>2, <2>0, ErrandStays
  <2> QED
    BY <1>11, <1>a, <2>1, <2>3 DEF Mark, MirrorBase, MirrorTypes
<1>12. CASE MirrorComment
  <2>0. now' = now /\ now \in Nat
    BY <1>12, <1>a DEF MirrorComment
  <2> PICK w \in Worker : \E n \in work[w].due :
       /\ work[w].at = "issues" /\ work[w].todo = {}
       /\ Commented(n, work[w].issue.written[n[2]])
       /\ Goes(w, [work[w] EXCEPT !.due = @ \ {n}, !.issue = IF work[w].due = {n} THEN <<>> ELSE @])
    BY <1>12 DEF MirrorComment
  <2> PICK n \in work[w].due :
       /\ work[w].at = "issues" /\ work[w].todo = {}
       /\ Commented(n, work[w].issue.written[n[2]])
       /\ Goes(w, [work[w] EXCEPT !.due = @ \ {n}, !.issue = IF work[w].due = {n} THEN <<>> ELSE @])
    OBVIOUS
  <2>1. work[w] \in Errand /\ IsAt(w, work[w]) /\ work[w].started <= now /\ n \in Note /\ work[w].issue \in Found
    BY <1>c DEF Errand, IsAt
  <2> DEFINE to == [work[w] EXCEPT !.due = @ \ {n}, !.issue = IF work[w].due = {n} THEN <<>> ELSE @]
  <2>2. to \in Errand /\ IsAt(w, to) /\ to.started <= now /\ Goes(w, to)
    BY <2>1, Empties DEF Errand, IsAt
  <2> HIDE DEF to
  <2>3. work' \in [Worker -> Errand] /\ AtWork'
    BY <2>2, <2>1, <2>0, ErrandStays
  <2>4. work[w].issue.written[n[2]] \in Nat
    BY <2>1 DEF Note, Found
  <2>5. notes' \in [Note -> Nat] /\ created' \in SUBSET Note
    BY <1>a, <2>1, <2>4 DEF Commented
  <2>6. UNCHANGED <<now, jira, links, request, synced, strayed, met>>
    BY <1>12 DEF MirrorComment, ghosts
  <2> QED
    BY <1>a, <2>3, <2>5, <2>6 DEF MirrorBase, MirrorTypes
<1>13. CASE EndPass
  <2>0. now' = now /\ now \in Nat
    BY <1>13, <1>a DEF EndPass
  <2>1. Goes(Poller, Idle) /\ Poller \in Worker
    BY <1>13 DEF EndPass, Worker
  <2>2. Idle \in Errand /\ IsAt(Poller, Idle) /\ Idle.started <= now
    BY <2>0, IdleErrand
  <2>3. work' \in [Worker -> Errand] /\ AtWork'
    BY <2>2, <2>1, <2>0, ErrandStays
  <2>4. synced' \in 0..now'
    BY <1>13, <2>0, <2>1, <1>c, ErrandTypes DEF EndPass
  <2>5. UNCHANGED <<now, jira, links, request, notes, created, strayed, met>>
    BY <1>13 DEF EndPass, ghosts
  <2> QED
    BY <1>a, <2>3, <2>4, <2>5 DEF MirrorBase, MirrorTypes
<1>14. CASE EndAsk
  <2>0. now' = now /\ now \in Nat
    BY <1>14, <1>a DEF EndAsk
  <2> PICK w \in Asker : Goes(w, Idle)
    BY <1>14 DEF EndAsk
  <2>2. Idle \in Errand /\ IsAt(w, Idle) /\ Idle.started <= now /\ w \in Worker
    BY <2>0, IdleErrand DEF Worker
  <2>3. work' \in [Worker -> Errand] /\ AtWork'
    BY <2>2, <2>0, ErrandStays
  <2> QED
    BY <1>14, <1>a, <2>3 DEF EndAsk, server, ghosts, MirrorBase, MirrorTypes
<1>15. CASE Fail
  <2>0. now' = now /\ now \in Nat
    BY <1>15, <1>a DEF Fail
  <2> PICK w \in Worker : Goes(w, Idle) /\ strayed' = IF w = Poller THEN strayed \cup {l \in work[w].fresh : links[l] = "marked"} ELSE strayed
    BY <1>15 DEF Fail
  <2>1. work[w] \in Errand /\ IsAt(w, work[w]) /\ work[w].started <= now
    BY <1>c
  <2>2. Idle \in Errand /\ IsAt(w, Idle) /\ Idle.started <= now
    BY <2>0, IdleErrand
  <2>3. work' \in [Worker -> Errand] /\ AtWork'
    BY <2>2, <2>0, ErrandStays
  <2>4. strayed' \subseteq Link
    BY <2>1, <1>a DEF Errand
  <2> QED
    BY <1>15, <1>a, <2>3, <2>4 DEF Fail, server, MirrorBase, MirrorTypes
<1> QED
  BY <1>0, <1>1, <1>2, <1>3, <1>4, <1>5, <1>6, <1>7, <1>8, <1>9, <1>10, <1>11, <1>12, <1>13, <1>14, <1>15 DEF Next

-----------------------------------------------------------------------------
(***************************************************************************)
(* Backfilling.  Who is about to append a block read a request without it; *)
(* as long as no two workers were at work at once, that request is still   *)
(* the one there but for freezing.                                         *)
(***************************************************************************)

BlockInv ==
  /\ BlocksOnce
  /\ \A w \in Worker : work[w].at = "apply" =>
       /\ ~HasTicketBlock(work[w].read, work[w].link[2])
       /\ \A n \in DOMAIN work[w].read : IsInjective(work[w].read[n].blocks)

SameBlocks(a, b) == Len(a) = Len(b) /\ \A n \in DOMAIN a : a[n].blocks = b[n].blocks

Alone ==
  ~met =>
    /\ \A v, w \in Worker : v # w => work[v].at = "idle" \/ work[w].at = "idle"
    /\ \A w \in Worker :
         /\ work[w].at = "mark" => HasTicketBlock(request[work[w].link[1]].versions, work[w].link[2])
         /\ work[w].at = "apply" => SameBlocks(work[w].read, request[work[w].link[1]].versions)

Appended == BlockInv /\ MarkedIsHeld /\ Alone

LEMMA AppendedInit == ASSUME LagAssumption, Init PROVE Appended
<1>1. \A w \in Worker : work[w].at = "idle"
  BY IdleErrand DEF Init
<1>2. \A i \in Item : \A n \in DOMAIN request[i].versions : request[i].versions[n].blocks = <<>>
  <2> TAKE i \in Item
  <2>1. request[i].versions \in {<<>>, <<Version(<<>>, FALSE)>>, <<Version(<<>>, TRUE)>>}
    BY DEF Init
  <2>2. CASE request[i].versions = <<>>
    BY <2>2
  <2>3. CASE \E b \in BOOLEAN : request[i].versions = <<Version(<<>>, b)>>
    BY <2>3 DEF Version
  <2> QED
    BY <2>1, <2>2, <2>3
<1>3. IsInjective(<<>>)
  BY DEF IsInjective
<1>4. \A l \in Link : links[l] = "none"
  BY DEF Init
<1> QED
  BY <1>1, <1>2, <1>3, <1>4 DEF Appended, BlockInv, BlocksOnce, MarkedIsHeld, Alone

(* What other steps than those of a backfill leave alone.                  *)
LEMMA Calm ==
  ASSUME LagAssumption, MirrorBase, [Next]_vars, ~ReadRequest, ~ApplyBlock, ~Mark, ~LeaveRequested
  PROVE  /\ UNCHANGED request /\ (met => met')
         /\ \A l \in Link : links'[l] = "marked" => links[l] = "marked"
         /\ \A w \in Worker : work'[w].at \in {"apply", "mark"} =>
              work'[w].at = work[w].at /\ work'[w].link = work[w].link /\ work'[w].read = work[w].read
         /\ ~met' => \A v, w \in Worker : v # w /\ work'[v].at # "idle" /\ work'[w].at # "idle" =>
              ~met /\ work[v].at # "idle" /\ work[w].at # "idle"
<1>a. /\ work \in [Worker -> Errand] /\ links \in [Link -> {"none", "fresh", "marked"}] /\ met \in BOOLEAN
      /\ \A w \in Worker : work[w].at = "idle" => work[w] = Idle
      /\ \A w \in Worker : work[w] \in Errand
  BY DEF MirrorBase, MirrorTypes, AtWork, IsAt
<1>b. ASSUME NEW w \in Worker, NEW to, Goes(w, to), UNCHANGED <<request, links>>, to.at \notin {"apply", "mark"}, UNCHANGED met,
             to.at = "idle" \/ work[w].at # "idle"
      PROVE  /\ UNCHANGED request /\ (met => met')
             /\ \A l \in Link : links'[l] = "marked" => links[l] = "marked"
             /\ \A v \in Worker : work'[v].at \in {"apply", "mark"} => work'[v] = work[v]
             /\ ~met' => \A v, x \in Worker : v # x /\ work'[v].at # "idle" /\ work'[x].at # "idle" =>
                   ~met /\ work[v].at # "idle" /\ work[x].at # "idle"
  BY <1>a, <1>b DEF Goes
<1>0. CASE UNCHANGED vars
  BY <1>0 DEF vars
<1>1. CASE WriteComment
  BY <1>1 DEF WriteComment, server, ghosts
<1>2. CASE SetLink
  <2>1. UNCHANGED <<request, work, met>>
    BY <1>2 DEF SetLink, ByPeople
  <2>2. \A l \in Link : links'[l] = "marked" => links[l] = "marked"
    BY <1>2, <1>a DEF SetLink
  <2> QED
    BY <2>1, <2>2
<1>4. CASE RemoveNote
  BY <1>4 DEF RemoveNote, ByPeople
<1>s. ASSUME NEW w \in Worker, NEW rows \in SUBSET Link, NEW fresh \in SUBSET rows, NEW to \in Errand, to.at = "search",
             Start(w, to), UNCHANGED <<request, links>>
      PROVE  /\ UNCHANGED request /\ (met => met')
             /\ \A l \in Link : links'[l] = "marked" => links[l] = "marked"
             /\ \A v \in Worker : work'[v].at \in {"apply", "mark"} => work'[v] = work[v]
             /\ ~met' => \A v, x \in Worker : v # x /\ work'[v].at # "idle" /\ work'[x].at # "idle" =>
                   ~met /\ work[v].at # "idle" /\ work[x].at # "idle"
  <2>1. work' = [work EXCEPT ![w] = to] /\ met' = (met \/ \E v \in Worker \ {w} : work[v] # Idle)
    BY <1>s DEF Start, Goes
  <2>2. \A v \in Worker \ {w} : work'[v] = work[v]
    BY <2>1, <1>a
  <2>3. work'[w].at = "search"
    BY <2>1, <1>a, <1>s
  <2>4. ~met' => \A v \in Worker \ {w} : work[v].at = "idle"
    BY <2>1, IdleErrand
  <2> QED
    BY <2>1, <2>2, <2>3, <2>4, <1>s
<1>5. CASE StartPass
  <2> DEFINE to == Passing(Rows({"fresh", "marked"}), Rows({"fresh"}), now', Since(synced))
  <2>1. Start(Poller, to) /\ Poller \in Worker /\ UNCHANGED <<request, links>>
    BY <1>5 DEF StartPass, Worker, Passing, server
  <2>2. to \in Errand /\ to.at = "search"
    <3>1. Rows({"fresh"}) \in SUBSET Rows({"fresh", "marked"}) /\ Rows({"fresh", "marked"}) \in SUBSET Link
      BY DEF Rows
    <3>2. Since(synced) \in Nat /\ now' \in Nat
      BY <1>5 DEF Since, LagAssumption, StartPass, Tick, MirrorBase, MirrorTypes
    <3>3. to \in Errand
      BY <3>1, <3>2, StartTypes
    <3> QED
      BY <3>3, IdleErrand DEF Passing, Errand
  <2> HIDE DEF to
  <2> QED
    BY <2>1, <2>2, <1>s
<1>6. CASE StartAsk
  <2> PICK w \in Asker, i \in Item :
       LET rows == {l \in Rows({"fresh"}) : l[1] = i}
       IN  Start(w, [Idle EXCEPT !.at = "search", !.rows = rows, !.fresh = rows])
    BY <1>6 DEF StartAsk
  <2> DEFINE rows == {l \in Rows({"fresh"}) : l[1] = i}
             to == Searching(rows, rows)
  <2>1. Start(w, to) /\ w \in Worker /\ UNCHANGED <<request, links>>
    BY <1>6 DEF StartAsk, Worker, Searching, server
  <2>2. to \in Errand /\ to.at = "search"
    <3>1. rows \in SUBSET Link /\ 0 \in Nat
      BY DEF Rows
    <3> HIDE DEF rows
    <3>2. to \in Errand
      BY <3>1, StartTypes
    <3> QED
      BY <3>2, IdleErrand DEF Searching, Errand
  <2> HIDE DEF to
  <2> QED
    BY <2>1, <2>2, <1>s
<1>7. CASE Search
  <2> PICK w \in Worker : \E issues :
        work[w].at = "search" /\ Goes(w, [work[w] EXCEPT !.at = "issues", !.issues = issues])
    BY <1>7 DEF Search
  <2> PICK issues : Goes(w, [work[w] EXCEPT !.at = "issues", !.issues = issues])
    OBVIOUS
  <2> DEFINE to == [work[w] EXCEPT !.at = "issues", !.issues = issues]
  <2>1. Goes(w, to) /\ to.at = "issues"
    BY <1>a DEF Errand
  <2> HIDE DEF to
  <2>2. UNCHANGED <<request, links, met>>
    BY <1>7 DEF Search, server
  <2> QED
    BY <2>1, <2>2, <1>b
<1>8. CASE TakeIssue
  <2> PICK w \in Worker : \E issues, issue, todo, due :
        work[w].at = "issues" /\ Goes(w, [work[w] EXCEPT !.issues = issues, !.issue = issue, !.todo = todo, !.due = due])
    BY <1>8 DEF TakeIssue, Between
  <2> PICK issues, issue, todo, due : Goes(w, [work[w] EXCEPT !.issues = issues, !.issue = issue, !.todo = todo, !.due = due])
    OBVIOUS
  <2> DEFINE to == [work[w] EXCEPT !.issues = issues, !.issue = issue, !.todo = todo, !.due = due]
  <2>1. Goes(w, to) /\ to.at = "issues"
    BY <1>a DEF Errand
  <2> HIDE DEF to
  <2>2. UNCHANGED <<request, links, met>>
    BY <1>8 DEF TakeIssue, server
  <2> QED
    BY <2>1, <2>2, <1>b
<1>12. CASE MirrorComment
  <2> PICK w \in Worker : \E due, issue : work[w].at = "issues" /\ Goes(w, [work[w] EXCEPT !.due = due, !.issue = issue])
    BY <1>12 DEF MirrorComment
  <2> PICK due, issue : Goes(w, [work[w] EXCEPT !.due = due, !.issue = issue])
    OBVIOUS
  <2> DEFINE to == [work[w] EXCEPT !.due = due, !.issue = issue]
  <2>1. Goes(w, to) /\ to.at = "issues"
    BY <1>a DEF Errand
  <2> HIDE DEF to
  <2>2. UNCHANGED <<request, links, met>>
    BY <1>12 DEF MirrorComment, ghosts
  <2> QED
    BY <2>1, <2>2, <1>b
<1>13. CASE EndPass
  <2>1. Goes(Poller, Idle) /\ Poller \in Worker /\ UNCHANGED <<request, links, met>>
    BY <1>13 DEF EndPass, Worker, ghosts
  <2> QED
    BY <2>1, <1>b, IdleErrand
<1>14. CASE EndAsk
  <2> PICK w \in Asker : Goes(w, Idle)
    BY <1>14 DEF EndAsk
  <2>1. w \in Worker /\ UNCHANGED <<request, links, met>>
    BY <1>14 DEF EndAsk, Worker, ghosts, server
  <2> QED
    BY <2>1, <1>b, IdleErrand
<1>15. CASE Fail
  <2> PICK w \in Worker : Goes(w, Idle)
    BY <1>15 DEF Fail
  <2>1. UNCHANGED <<request, links, met>>
    BY <1>15 DEF Fail, server
  <2> QED
    BY <2>1, <1>b, IdleErrand
<1> QED
  BY <1>0, <1>1, <1>2, <1>4, <1>5, <1>6, <1>7, <1>8, <1>12, <1>13, <1>14, <1>15 DEF Next

LEMMA SameHolds ==
  ASSUME NEW a \in Texts, NEW b \in Texts, SameBlocks(a, b), NEW t
  PROVE  HasTicketBlock(a, t) <=> HasTicketBlock(b, t)
<1>1. DOMAIN a = DOMAIN b
  BY DEF SameBlocks, Texts
<1> QED
  BY <1>1 DEF SameBlocks, HasTicketBlock

LEMMA AppendBlock ==
  ASSUME NEW blocks \in Seq(Ticket), NEW t \in Ticket
  PROVE  /\ Append(blocks, t) \in Seq(Ticket)
         /\ \A u : Contains(Append(blocks, t), u) <=> u = t \/ Contains(blocks, u)
         /\ IsInjective(blocks) /\ ~Contains(blocks, t) => IsInjective(Append(blocks, t))
  BY DEF Contains, IsInjective

LEMMA AppendedNext == ASSUME LagAssumption, MirrorBase, MirrorBase', Appended, [Next]_vars PROVE Appended'
<1>a. /\ work \in [Worker -> Errand] /\ links \in [Link -> {"none", "fresh", "marked"}] /\ met \in BOOLEAN
      /\ request \in [Item -> Request]
      /\ \A w \in Worker : work[w] \in Errand /\ IsAt(w, work[w])
      /\ \A i \in Item : request[i].versions \in Texts
  BY DEF MirrorBase, MirrorTypes, AtWork, Request
<1>b. BlockInv /\ MarkedIsHeld /\ Alone
  BY DEF Appended
<1>c. \A l \in Link : l[1] \in Item /\ l[2] \in Ticket
  BY DEF Link
<1>1. CASE ~ReadRequest /\ ~ApplyBlock /\ ~Mark /\ ~LeaveRequested
  <2>1. /\ UNCHANGED request /\ (met => met')
        /\ \A l \in Link : links'[l] = "marked" => links[l] = "marked"
        /\ \A w \in Worker : work'[w].at \in {"apply", "mark"} =>
             work'[w].at = work[w].at /\ work'[w].link = work[w].link /\ work'[w].read = work[w].read
        /\ ~met' => \A v, w \in Worker : v # w /\ work'[v].at # "idle" /\ work'[w].at # "idle" =>
             ~met /\ work[v].at # "idle" /\ work[w].at # "idle"
    BY <1>1, Calm
  <2>2. BlockInv'
    BY <2>1, <1>b DEF BlockInv, BlocksOnce
  <2>3. MarkedIsHeld'
    BY <2>1, <1>b DEF MarkedIsHeld
  <2>4. Alone'
    BY <2>1, <1>b DEF Alone
  <2> QED
    BY <2>2, <2>3, <2>4 DEF Appended
<1>2. CASE LeaveRequested
  <2> PICK i \in Item : request' = [request EXCEPT ![i] =
                             [open |-> FALSE, versions |-> [n \in DOMAIN @.versions |-> Version(@.versions[n].blocks, TRUE)]]]
    BY <1>2 DEF LeaveRequested
  <2>1. UNCHANGED <<links, work, met>>
    BY <1>2 DEF LeaveRequested, ByPeople
  <2>2. \A j \in Item : /\ DOMAIN request'[j].versions = DOMAIN request[j].versions
                        /\ \A n \in DOMAIN request[j].versions : request'[j].versions[n].blocks = request[j].versions[n].blocks
    BY <1>a DEF Version
  <2>3. \A j \in Item : \A t : HasTicketBlock(request'[j].versions, t) <=> HasTicketBlock(request[j].versions, t)
    BY <2>2 DEF HasTicketBlock
  <2>4. \A j \in Item : request'[j].versions \in Texts
    BY DEF MirrorBase, MirrorTypes, Request
  <2>5. \A j \in Item, r \in Texts : SameBlocks(r, request[j].versions) => SameBlocks(r, request'[j].versions)
    <3> TAKE j \in Item, r \in Texts
    <3>1. Len(request'[j].versions) = Len(request[j].versions)
      BY <2>2, <2>4, <1>a DEF Texts
    <3> HAVE SameBlocks(r, request[j].versions)
    <3>2. DOMAIN r = DOMAIN request[j].versions
      BY <1>a DEF SameBlocks, Texts
    <3> QED
      BY <3>1, <3>2, <2>2 DEF SameBlocks
  <2>6. BlockInv'
    BY <2>1, <2>2, <1>b DEF BlockInv, BlocksOnce
  <2>7. MarkedIsHeld'
    BY <2>1, <2>3, <1>b, <1>c DEF MarkedIsHeld
  <2>8. Alone'
    <3>1. \A w \in Worker : work[w].at \in {"mark", "apply"} => work[w].link[1] \in Item /\ work[w].read \in Texts
      BY <1>a, <1>c, ErrandTypes DEF IsAt
    <3> QED
      BY <2>1, <2>3, <2>5, <3>1, <1>b DEF Alone
  <2> QED
    BY <2>6, <2>7, <2>8 DEF Appended
<1>3. CASE ReadRequest
  <2> PICK w \in Worker : \E l \in work[w].todo :
       /\ work[w].at = "issues"
       /\ Goes(w, [work[w] EXCEPT !.at = IF HasTicketBlock(request[l[1]].versions, l[2]) THEN "mark" ELSE "apply",
                                  !.link = l, !.read = request[l[1]].versions])
    BY <1>3 DEF ReadRequest
  <2> PICK l \in work[w].todo :
       /\ work[w].at = "issues"
       /\ Goes(w, [work[w] EXCEPT !.at = IF HasTicketBlock(request[l[1]].versions, l[2]) THEN "mark" ELSE "apply",
                                  !.link = l, !.read = request[l[1]].versions])
    OBVIOUS
  <2>1. UNCHANGED <<request, links, met>>
    BY <1>3 DEF ReadRequest, server, ghosts
  <2>2. /\ \A v \in Worker \ {w} : work'[v] = work[v]
        /\ work'[w].at = IF HasTicketBlock(request[l[1]].versions, l[2]) THEN "mark" ELSE "apply"
        /\ work'[w].link = l /\ work'[w].read = request[l[1]].versions
    BY <1>a DEF Goes, Errand
  <2>3. l \in Link /\ l[1] \in Item
    BY <1>a, <1>c, ErrandTypes
  <2>4. BlockInv'
    BY <2>1, <2>2, <2>3, <1>b DEF BlockInv, BlocksOnce
  <2>5. MarkedIsHeld'
    BY <2>1, <1>b DEF MarkedIsHeld
  <2>6. \A r : SameBlocks(r, r)
    BY DEF SameBlocks
  <2>7. Alone'
    BY <2>1, <2>2, <2>3, <2>6, <1>b DEF Alone
  <2> QED
    BY <2>4, <2>5, <2>7 DEF Appended
<1>4. CASE Mark
  <2> PICK w \in Worker :
       /\ work[w].at = "mark"
       /\ links' = [links EXCEPT ![work[w].link] = IF @ = "none" THEN @ ELSE "marked"]
       /\ NextLink(w)
    BY <1>4 DEF Mark
  <2>1. UNCHANGED <<request, met>>
    BY <1>4 DEF Mark
  <2>2. /\ \A v \in Worker \ {w} : work'[v] = work[v]
        /\ work'[w].at = "issues"
    BY <1>a DEF Goes, Errand, NextLink
  <2>4. BlockInv'
    BY <2>1, <2>2, <1>b DEF BlockInv, BlocksOnce
  <2>5. MarkedIsHeld'
    BY <2>1, <1>a, <1>b DEF MarkedIsHeld, Alone
  <2>7. Alone'
    BY <2>1, <2>2, <1>b DEF Alone
  <2> QED
    BY <2>4, <2>5, <2>7 DEF Appended
<1>5. CASE ApplyBlock
  <2>p. PICK w \in Worker :
       LET i      == work[w].link[1]
           read   == work[w].read
           blocks == Append(IF read = <<>> THEN <<>> ELSE Last(read).blocks, work[w].link[2])
       IN  /\ work[w].at = "apply"
           /\ IF read = <<>> \/ Last(read).frozen
              THEN /\ Len(request[i].versions) < MaxVersions
                   /\ request' = [request EXCEPT ![i] = Posted(i, blocks)]
                   /\ Goes(w, [work[w] EXCEPT !.at = "mark", !.read = <<>>])
              ELSE IF request[i].versions[Len(read)].frozen
              THEN UNCHANGED request /\ NextLink(w)
              ELSE /\ request' = [request EXCEPT ![i].versions[Len(read)].blocks = blocks]
                   /\ Goes(w, [work[w] EXCEPT !.at = "mark", !.read = <<>>])
    BY <1>5 DEF ApplyBlock
  <2>1. UNCHANGED <<links, met>>
    BY <1>5 DEF ApplyBlock, ghosts
  <2> DEFINE l == work[w].link
             i == work[w].link[1]
             read == work[w].read
             before == IF read = <<>> THEN <<>> ELSE Last(read).blocks
             blocks == Append(before, work[w].link[2])
             vs == request[i].versions
  <2>2. l \in Link /\ i \in Item /\ l[2] \in Ticket /\ read \in Texts /\ vs \in Texts /\ work[w].at = "apply"
    BY <2>p, <1>a, <1>c, ErrandTypes DEF IsAt
  <2>3. before \in Seq(Ticket) /\ IsInjective(before) /\ ~Contains(before, l[2])
    <3>1. CASE read = <<>>
      BY <3>1 DEF IsInjective, Contains
    <3>2. CASE read # <<>>
      <4>1. before = read[Len(read)].blocks /\ Len(read) \in DOMAIN read /\ Last(read) \in Text
        BY <3>2, <2>2, TextTypes DEF Last
      <4> QED
        BY <3>2, <4>1, <2>2, <1>b DEF BlockInv, HasTicketBlock, Text, Last
    <3> QED
      BY <3>1, <3>2
  <2> HIDE DEF before
  <2>4. /\ blocks \in Seq(Ticket) /\ IsInjective(blocks)
        /\ \A u : Contains(blocks, u) <=> u = l[2] \/ Contains(before, u)
    BY <2>2, <2>3, AppendBlock
  <2>5. ~met => SameBlocks(read, vs)
    BY <2>2, <1>b DEF Alone
  <2> HIDE DEF l, i, read, before, blocks, vs
  (* What the op makes of the request, where it is taken. *)
  <2>6. ASSUME \/ request' = [request EXCEPT ![i] = Posted(i, blocks)]
               \/ read # <<>> /\ request' = [request EXCEPT ![i].versions[Len(read)].blocks = blocks]
        PROVE  /\ \A j \in Item \ {i} : request'[j] = request[j]
               /\ \A n \in DOMAIN request'[i].versions :
                    request'[i].versions[n].blocks = blocks \/ (n \in DOMAIN vs /\ request'[i].versions[n].blocks = vs[n].blocks)
               /\ ~met => /\ HasTicketBlock(request'[i].versions, l[2])
                          /\ \A u : HasTicketBlock(vs, u) => HasTicketBlock(request'[i].versions, u)
    <3>1. CASE request' = [request EXCEPT ![i] = Posted(i, blocks)]
      <4> DEFINE v == Version(blocks, request[i].versions = <<>> /\ ~request[i].open)
      <4>1. request'[i].versions = Append(vs, v) /\ \A j \in Item \ {i} : request'[j] = request[j]
        BY <3>1, <2>2, <1>a DEF Posted, vs
      <4>2. v.blocks = blocks
        BY DEF Version
      <4> HIDE DEF v
      <4>3. /\ Len(vs) \in Nat /\ DOMAIN vs = 1..Len(vs)
            /\ DOMAIN Append(vs, v) = 1..(Len(vs) + 1) /\ Append(vs, v)[Len(vs) + 1] = v
            /\ \A n \in DOMAIN vs : Append(vs, v)[n] = vs[n]
        BY <2>2 DEF Texts
      <4>4. \A n \in DOMAIN Append(vs, v) : n = Len(vs) + 1 \/ n \in DOMAIN vs
        BY <4>3
      <4>5. Len(vs) + 1 \in DOMAIN Append(vs, v) /\ \A n \in DOMAIN vs : n \in DOMAIN Append(vs, v)
        BY <4>3
      <4> QED
        BY <4>1, <4>2, <4>3, <4>4, <4>5, <2>4 DEF HasTicketBlock
    <3>2. CASE read # <<>> /\ request' = [request EXCEPT ![i].versions[Len(read)].blocks = blocks]
      <4> DEFINE m == Len(read)
      <4>1. m \in Nat /\ m \in DOMAIN read /\ before = read[m].blocks
        BY <3>2, <2>2, TextTypes DEF before, Texts, Last
      <4>2. /\ request'[i].versions = [vs EXCEPT ![m].blocks = blocks]
            /\ \A j \in Item \ {i} : request'[j] = request[j]
        BY <3>2, <2>2, <1>a DEF vs, Request
      <4> HIDE DEF m
      <4>3. \A n \in DOMAIN vs : vs[n] \in Text
        BY <2>2, TextTypes
      <4>4. /\ DOMAIN request'[i].versions = DOMAIN vs
            /\ \A n \in DOMAIN vs : request'[i].versions[n].blocks = IF n = m THEN blocks ELSE vs[n].blocks
        BY <4>2, <4>3 DEF Text
      <4>5. ~met => m \in DOMAIN vs /\ vs[m].blocks = before
        BY <4>1, <2>2, <2>5 DEF SameBlocks, Texts
      <4> QED
        BY <4>2, <4>4, <4>5, <2>4 DEF HasTicketBlock
    <3> QED
      BY <2>6, <3>1, <3>2
  <2>7. CASE UNCHANGED request /\ NextLink(w)
    <3>1. (\A v \in Worker \ {w} : work'[v] = work[v]) /\ work'[w].at = "issues"
      BY <2>7, <1>a DEF Goes, Errand, NextLink
    <3>2. BlockInv'
      BY <2>7, <2>1, <3>1, <1>b DEF BlockInv, BlocksOnce
    <3>3. MarkedIsHeld'
      BY <2>7, <2>1, <1>b DEF MarkedIsHeld
    <3>5. UNCHANGED <<request, met>>
      BY <2>7, <2>1
    <3>6. \A v \in Worker : work'[v] = work[v] \/ (work'[v].at = "issues" /\ work[v].at = "apply")
      BY <3>1, <2>2
    <3>4. Alone'
      BY <3>5, <3>6, <1>b DEF Alone
    <3> QED
      BY <3>2, <3>3, <3>4 DEF Appended
  <2>8. CASE /\ Goes(w, [work[w] EXCEPT !.at = "mark", !.read = <<>>])
             /\ \/ request' = [request EXCEPT ![i] = Posted(i, blocks)]
                \/ read # <<>> /\ request' = [request EXCEPT ![i].versions[Len(read)].blocks = blocks]
    <3>1. /\ \A v \in Worker \ {w} : work'[v] = work[v]
          /\ work'[w].at = "mark" /\ work'[w].link = l
      BY <2>8, <1>a DEF Goes, Errand, l
    <3>2. /\ \A j \in Item \ {i} : request'[j] = request[j]
          /\ \A n \in DOMAIN request'[i].versions :
               request'[i].versions[n].blocks = blocks \/ (n \in DOMAIN vs /\ request'[i].versions[n].blocks = vs[n].blocks)
          /\ ~met => /\ HasTicketBlock(request'[i].versions, l[2])
                     /\ \A u : HasTicketBlock(vs, u) => HasTicketBlock(request'[i].versions, u)
      BY <2>6, <2>8
    <3>3. \A j \in Item : ~met => \A u : HasTicketBlock(request[j].versions, u) => HasTicketBlock(request'[j].versions, u)
      BY <3>2 DEF vs
    <3>4. BlockInv'
      BY <2>4, <3>1, <3>2, <1>b DEF BlockInv, BlocksOnce, vs
    <3>5. MarkedIsHeld'
      BY <2>1, <3>3, <1>b, <1>c DEF MarkedIsHeld
    <3>6. Alone'
      BY <2>1, <2>2, <3>1, <3>2, <1>b DEF Alone, l, i
    <3> QED
      BY <3>4, <3>5, <3>6 DEF Appended
  <2> QED
    BY <2>p, <2>7, <2>8 DEF i, read, blocks, before
<1> QED
  BY <1>1, <1>2, <1>3, <1>4, <1>5

(* No text of a request gets a ticket's block twice, and what is marked as *)
(* backfilled is held by the request, where no two workers met.            *)
THEOREM TicketsAreAppendedAlways == ASSUME LagAssumption PROVE Spec => []TicketsAreAppended
<1>1. LagAssumption /\ Init => MirrorBase /\ Appended
  BY MirrorBaseInit, AppendedInit
<1>2. LagAssumption /\ MirrorBase /\ Appended /\ [Next]_vars => MirrorBase' /\ Appended'
  BY MirrorBaseNext, AppendedNext
<1>3. Appended => TicketsAreAppended
  BY DEF Appended, BlockInv, TicketsAreAppended
<1> QED
  BY <1>1, <1>2, <1>3, PTL DEF Spec

-----------------------------------------------------------------------------
(***************************************************************************)
(* Mirroring.  The pass is past a ticket when it neither waits to be       *)
(* searched or taken nor has comments due.  What it is past, and what it   *)
(* will leave out because the ticket has not changed, the items hold.      *)
(***************************************************************************)

pass == work[Poller]
Mirrorable == Link \X (Comment \ Ours)
Touched(t) == jira[t].touched
Written(n) == jira[n[1][2]].written[n[2]]
Marked(l)  == links[l] = "marked" /\ l \notin strayed

(* A fetched issue is no newer than the ticket; what it lacks was written   *)
(* after the pass began.                                                   *)
Sound(r) ==
  /\ r.touched <= Touched(r.key)
  /\ \A c \in Comment : /\ r.written[c] <= jira[r.key].written[c]
                        /\ r.written[c] = jira[r.key].written[c] \/ jira[r.key].written[c] + Lag > pass.started

Dates ==
  /\ \A t \in Ticket : Touched(t) + Lag <= now /\ \A c \in Comment : jira[t].written[c] <= Touched(t)
  /\ \A n \in Note : notes[n] <= Written(n) /\ (notes[n] > 0 => n \in created)

OnPass ==
  pass.at # "idle" =>
    /\ pass.since = Since(synced) /\ synced <= pass.started
    /\ \A r \in pass.issues : Sound(r)
    /\ pass.due # {} => Sound(pass.issue) /\ \A r \in pass.issues : r.key # pass.issue.key
    /\ \A r, s \in pass.issues : r.key = s.key => r = s
    /\ pass.at = "search" => pass.issues = {} /\ pass.todo = {} /\ pass.due = {}

Waits(t) == pass.at = "search" \/ \E r \in pass.issues : r.key = t

(* Before this pass: what has not changed since the last pass is held.     *)
HeldSince ==
  \A n \in Mirrorable :
    Marked(n[1]) /\ n[1] \notin pass.fresh /\ Written(n) > 0 /\ Touched(n[1][2]) < Since(synced) => Holds(n)

(* The pass knows every link that others must follow.                      *)
KnowsLinks ==
  pass.at # "idle" => \A n \in Mirrorable : Marked(n[1]) =>
    n[1] \in pass.rows /\ (pass.at = "search" => n[1] \notin pass.fresh)

(* What the pass is past is held, and what it will leave out is too.       *)
HeldPast ==
  pass.at # "idle" => \A n \in Mirrorable : Before(n) =>
    /\ n[1] \in pass.todo => n \in pass.due
    /\ Marked(n[1]) /\ ~Waits(n[1][2]) /\ n \notin pass.due => Holds(n)
    /\ Marked(n[1]) /\ n[1] \notin pass.fresh =>
         \A r \in pass.issues : r.key = n[1][2] /\ r.touched < pass.since => Holds(n)

FollowInv == Dates /\ OnPass /\ HeldSince /\ KnowsLinks /\ HeldPast

LEMMA FollowStart == ASSUME LagAssumption, Init PROVE FollowInv
<1>1. pass.at = "idle" /\ now = Lag /\ strayed = {} /\ \A l \in Link : links[l] = "none"
  BY IdleErrand DEF Init, pass, Worker
<1>2. \A t \in Ticket : Touched(t) = 0 /\ \A c \in Comment : jira[t].written[c] = 0
  BY DEF Init, Touched
<1>3. \A n \in Note : notes[n] = 0 /\ Written(n) = 0
  BY <1>2 DEF Init, Written, Note, Link
<1>4. Dates
  BY <1>1, <1>2, <1>3 DEF Dates, LagAssumption
<1>5. \A n \in Mirrorable : ~Marked(n[1])
  BY <1>1 DEF Marked, Mirrorable
<1> QED
  BY <1>1, <1>4, <1>5 DEF FollowInv, OnPass, HeldSince, KnowsLinks, HeldPast

LEMMA PassTypes ==
  ASSUME LagAssumption, MirrorBase
  PROVE  /\ pass \in Errand /\ IsAt(Poller, pass) /\ pass.started <= now /\ now \in Nat /\ Lag \in Nat /\ Overlap \in Nat
         /\ Lag <= Overlap /\ synced \in Nat /\ Since(synced) \in Nat /\ synced <= now
         /\ pass.started \in Nat /\ pass.since \in Nat /\ pass.issues \subseteq Found /\ pass.rows \subseteq Link
         /\ pass.fresh \subseteq pass.rows /\ pass.todo \subseteq pass.fresh /\ pass.due \subseteq Note
         /\ (pass.due # {} => pass.issue \in Found)
         /\ \A t \in Ticket : Touched(t) \in Nat /\ \A c \in Comment : jira[t].written[c] \in Nat
         /\ \A n \in Note : notes[n] \in Nat /\ Written(n) \in Nat /\ n[1] \in Link /\ n[1][2] \in Ticket /\ n[2] \in Comment
         /\ Mirrorable \subseteq Note
<1>1. Poller \in Worker
  BY DEF Worker
<1>2. pass \in Errand /\ IsAt(Poller, pass) /\ pass.started <= now
  BY <1>1 DEF MirrorBase, MirrorTypes, AtWork, pass
<1>3. /\ now \in Nat /\ Lag \in Nat /\ Overlap \in Nat
      /\ Lag <= Overlap /\ synced \in Nat /\ Since(synced) \in Nat /\ synced <= now
  BY DEF MirrorBase, MirrorTypes, LagAssumption, Since
<1>4. \A t \in Ticket : Touched(t) \in Nat /\ \A c \in Comment : jira[t].written[c] \in Nat
  BY DEF MirrorBase, MirrorTypes, Touched
<1>5. \A n \in Note : n[1] \in Link /\ n[1][2] \in Ticket /\ n[2] \in Comment
  BY DEF Note, Link
<1>6. \A n \in Note : notes[n] \in Nat /\ Written(n) \in Nat
  BY <1>4, <1>5 DEF MirrorBase, MirrorTypes, Written
<1>7. Mirrorable \subseteq Note
  BY DEF Mirrorable, Note
<1>8. /\ pass.started \in Nat /\ pass.since \in Nat /\ pass.issues \subseteq Found /\ pass.rows \subseteq Link
      /\ pass.due \subseteq Note /\ pass.fresh \subseteq pass.rows /\ pass.todo \subseteq pass.fresh
      /\ (pass.due # {} => pass.issue \in Found)
  BY <1>2, ErrandTypes DEF IsAt
<1> QED
  BY <1>2, <1>3, <1>4, <1>5, <1>6, <1>7, <1>8

(* A step that leaves all of this alone but for what the pass has to do    *)
(* about the links in hand.                                                *)
Quiet ==
  /\ UNCHANGED <<jira, links, notes, created, synced, strayed>> /\ now <= now'
  /\ pass'.rows = pass.rows /\ pass'.fresh = pass.fresh /\ pass'.started = pass.started /\ pass'.since = pass.since
  /\ pass'.issues = pass.issues /\ pass'.issue = pass.issue /\ pass'.due = pass.due
  /\ pass'.todo \subseteq pass.todo
  /\ (pass'.at = "search" <=> pass.at = "search") /\ (pass'.at = "idle" <=> pass.at = "idle")

LEMMA QuietFollows == ASSUME LagAssumption, MirrorBase, MirrorBase', FollowInv, Quiet PROVE FollowInv'
<1>a. now \in Nat /\ now' \in Nat /\ \A t \in Ticket : Touched(t) \in Nat
  BY PassTypes DEF MirrorBase, MirrorTypes
<1>1. Dates'
  BY <1>a, PassTypes DEF FollowInv, Dates, Quiet, Touched, Written, LagAssumption
<1>2. OnPass'
  BY DEF FollowInv, OnPass, Quiet, Sound, Touched, Since
<1>3. HeldSince'
  BY DEF FollowInv, HeldSince, Quiet, Marked, Written, Touched, Since, Holds
<1>4. KnowsLinks'
  BY DEF FollowInv, KnowsLinks, Quiet, Marked
<1>5. HeldPast'
  BY DEF FollowInv, HeldPast, Quiet, Holds, Before, Waits, Marked, pass
<1> QED
  BY <1>1, <1>2, <1>3, <1>4, <1>5 DEF FollowInv

LEMMA OthersQuiet ==
  ASSUME LagAssumption, MirrorBase, MirrorBase', FollowInv, NEW w \in Worker, w # Poller, NEW to, Goes(w, to),
         UNCHANGED <<now, jira, links, notes, created, synced, strayed>>
  PROVE  FollowInv'
<1>1. pass' = pass /\ now \in Nat
  BY DEF Goes, pass, Worker, MirrorBase, MirrorTypes
<1> QED
  BY <1>1, QuietFollows DEF Quiet

(* The pass goes on to "to", at which nothing but its errand has moved.    *)
LEMMA PassGoes ==
  ASSUME MirrorBase, NEW to, Goes(Poller, to)
  PROVE  pass' = to
  BY DEF Goes, pass, Worker, MirrorBase, MirrorTypes

LEMMA FollowBackfill ==
  ASSUME LagAssumption, MirrorBase, MirrorBase', FollowInv, ReadRequest \/ ApplyBlock
  PROVE  FollowInv'
<1>a. pass \in Errand /\ now \in Nat /\ IsAt(Poller, pass)
  BY PassTypes
<1>1. \E w \in Worker : \E l, read :
        \/ /\ work[w].at = "issues"
           /\ \/ Goes(w, [work[w] EXCEPT !.at = "mark", !.link = l, !.read = read])
              \/ Goes(w, [work[w] EXCEPT !.at = "apply", !.link = l, !.read = read])
        \/ /\ work[w].at = "apply"
           /\ Goes(w, [work[w] EXCEPT !.at = "mark", !.read = read]) \/ NextLink(w)
  <2>1. CASE ReadRequest
    <3> PICK w \in Worker : \E l \in work[w].todo :
         /\ work[w].at = "issues"
         /\ Goes(w, [work[w] EXCEPT !.at = IF HasTicketBlock(request[l[1]].versions, l[2]) THEN "mark" ELSE "apply",
                                    !.link = l, !.read = request[l[1]].versions])
      BY <2>1 DEF ReadRequest
    <3> PICK l \in work[w].todo :
         /\ work[w].at = "issues"
         /\ Goes(w, [work[w] EXCEPT !.at = IF HasTicketBlock(request[l[1]].versions, l[2]) THEN "mark" ELSE "apply",
                                    !.link = l, !.read = request[l[1]].versions])
      OBVIOUS
    <3> QED
      OBVIOUS
  <2>2. CASE ApplyBlock
    BY <2>2 DEF ApplyBlock
  <2> QED
    BY <2>1, <2>2
<1>p. PICK w \in Worker : \E l, read :
        \/ /\ work[w].at = "issues"
           /\ \/ Goes(w, [work[w] EXCEPT !.at = "mark", !.link = l, !.read = read])
              \/ Goes(w, [work[w] EXCEPT !.at = "apply", !.link = l, !.read = read])
        \/ /\ work[w].at = "apply"
           /\ Goes(w, [work[w] EXCEPT !.at = "mark", !.read = read]) \/ NextLink(w)
  BY <1>1
<1>2. UNCHANGED <<now, jira, links, notes, created, synced, strayed>>
  BY DEF ReadRequest, ApplyBlock, server, ghosts
<1>3. CASE w # Poller
  BY <1>p, <1>2, <1>3, OthersQuiet DEF NextLink
<1>4. CASE w = Poller
  <2>1. Quiet
    <3>1. \E l, read :
            \/ /\ pass.at = "issues"
               /\ \/ pass' = [pass EXCEPT !.at = "mark", !.link = l, !.read = read]
                  \/ pass' = [pass EXCEPT !.at = "apply", !.link = l, !.read = read]
            \/ /\ pass.at = "apply"
               /\ \/ pass' = [pass EXCEPT !.at = "mark", !.read = read]
                  \/ pass' = [pass EXCEPT !.at = "issues", !.todo = @ \ {pass.link}, !.link = <<>>, !.read = <<>>]
      BY <1>p, <1>4, PassGoes DEF pass, NextLink
    <3> DEFINE Same(r) ==
          /\ r.rows = pass.rows /\ r.fresh = pass.fresh /\ r.started = pass.started /\ r.since = pass.since
          /\ r.issues = pass.issues /\ r.issue = pass.issue /\ r.due = pass.due /\ r.todo \subseteq pass.todo
          /\ r.at # "search" /\ r.at # "idle"
    <3>2. \A r, l, read : r = [pass EXCEPT !.at = "mark", !.link = l, !.read = read] => Same(r)
      BY <1>a DEF Errand
    <3>3. \A r, l, read : r = [pass EXCEPT !.at = "apply", !.link = l, !.read = read] => Same(r)
      BY <1>a DEF Errand
    <3>4. \A r, read : r = [pass EXCEPT !.at = "mark", !.read = read] => Same(r)
      BY <1>a DEF Errand
    <3>5. \A r : r = [pass EXCEPT !.at = "issues", !.todo = @ \ {pass.link}, !.link = <<>>, !.read = <<>>] => Same(r)
      BY <1>a DEF Errand
    <3>7. PICK l, read :
            \/ pass' = [pass EXCEPT !.at = "mark", !.link = l, !.read = read]
            \/ pass' = [pass EXCEPT !.at = "apply", !.link = l, !.read = read]
            \/ pass' = [pass EXCEPT !.at = "mark", !.read = read]
            \/ pass' = [pass EXCEPT !.at = "issues", !.todo = @ \ {pass.link}, !.link = <<>>, !.read = <<>>]
      BY <3>1
    <3>8. pass.at # "search" /\ pass.at # "idle"
      BY <3>1
    <3> HIDE DEF Same
    <3>6. Same(pass')
      BY <3>2, <3>3, <3>4, <3>5, <3>7
    <3> QED
      BY <1>a, <1>2, <3>6, <3>8 DEF Quiet, Same
  <2> QED
    BY <2>1, QuietFollows
<1> QED
  BY <1>3, <1>4

LEMMA FollowPeople ==
  ASSUME LagAssumption, MirrorBase, MirrorBase', FollowInv, SetLink \/ LeaveRequested \/ RemoveNote \/ UNCHANGED vars
  PROVE  FollowInv'
<1>a. now \in Nat
  BY PassTypes
<1>1. CASE LeaveRequested \/ UNCHANGED vars
  <2>1. UNCHANGED <<now, jira, links, notes, created, synced, strayed, work>>
    BY <1>1 DEF LeaveRequested, ByPeople, vars
  <2> QED
    BY <2>1, <1>a, QuietFollows DEF Quiet, pass
<1>2. CASE RemoveNote
  <2> PICK n \in Note : notes[n] > 0 /\ notes' = [notes EXCEPT ![n] = 0]
    BY <1>2 DEF RemoveNote
  <2>1. UNCHANGED <<now, jira, links, created, synced, strayed, work>>
    BY <1>2 DEF RemoveNote, ByPeople
  <2>2. /\ n \in created /\ notes \in [Note -> Nat]
        /\ \A m \in Note : notes'[m] = IF m = n THEN 0 ELSE notes[m]
    BY DEF FollowInv, Dates, MirrorBase, MirrorTypes
  <2>3. \A m \in Note : Holds(m) => Holds(m)'
    BY <2>1, <2>2 DEF Holds
  <2>4. Dates'
    BY <2>1, <2>2, PassTypes DEF FollowInv, Dates, Touched, Written
  <2>5. UNCHANGED pass
    BY <2>1 DEF pass
  <2>6. OnPass'
    BY <2>1, <2>5 DEF FollowInv, OnPass, Sound, Touched, Since
  <2>7. HeldSince'
    BY <2>1, <2>3, <2>5, PassTypes DEF FollowInv, HeldSince, Marked, Written, Touched, Since
  <2>8. KnowsLinks'
    BY <2>1, <2>5 DEF FollowInv, KnowsLinks, Marked
  <2>9. HeldPast'
    BY <2>1, <2>3, <2>5, PassTypes DEF FollowInv, HeldPast, Before, Waits, Marked, pass
  <2> QED
    BY <2>4, <2>6, <2>7, <2>8, <2>9 DEF FollowInv
<1>3. CASE SetLink
  <2> PICK l \in Link :
       /\ links' = [links EXCEPT ![l] = IF @ = "none" THEN "fresh" ELSE "none"]
       /\ strayed' = strayed \ {l}
    BY <1>3 DEF SetLink
  <2>1. UNCHANGED <<now, jira, notes, created, synced, work>>
    BY <1>3 DEF SetLink, ByPeople
  <2>2. links'[l] # "marked" /\ \A k \in Link : k # l => links'[k] = links[k] /\ (k \in strayed' <=> k \in strayed)
    BY DEF MirrorBase, MirrorTypes
  <2>3. \A k \in Link : Marked(k)' => Marked(k)
    BY <2>2 DEF Marked
  <2>4. Dates'
    BY <2>1 DEF FollowInv, Dates, Touched, Written
  <2>5. UNCHANGED pass
    BY <2>1 DEF pass
  <2>6. OnPass'
    BY <2>1, <2>5 DEF FollowInv, OnPass, Sound, Touched, Since
  <2>7. HeldSince'
    BY <2>1, <2>3, <2>5, PassTypes DEF FollowInv, HeldSince, Written, Touched, Since, Holds
  <2>8. KnowsLinks'
    BY <2>1, <2>3, <2>5, PassTypes DEF FollowInv, KnowsLinks
  <2>9. HeldPast'
    BY <2>1, <2>3, <2>5, PassTypes DEF FollowInv, HeldPast, Before, Waits, Holds, pass
  <2> QED
    BY <2>4, <2>6, <2>7, <2>8, <2>9 DEF FollowInv
<1> QED
  BY <1>1, <1>2, <1>3

LEMMA FollowWriteComment ==
  ASSUME LagAssumption, MirrorBase, MirrorBase', FollowInv, WriteComment
  PROVE  FollowInv'
<1>1. PICK t \in Ticket, c \in Comment :
        jira' = [jira EXCEPT ![t].touched = now' - Lag, ![t].written[c] = now' - Lag]
  BY DEF WriteComment
<1>2. now' = now + 1 /\ UNCHANGED <<links, notes, created, synced, strayed, work, pass>>
  BY DEF WriteComment, Tick, server, ghosts, pass
<1> DEFINE at == now' - Lag
<1>3. at \in Nat /\ at + Lag = now + 1 /\ now \in Nat /\ Lag \in Nat
  BY <1>2 DEF MirrorBase, MirrorTypes, LagAssumption
<1> HIDE DEF at
<1>t. /\ \A u \in Ticket : Touched(u) \in Nat /\ \A d \in Comment : jira[u].written[d] \in Nat
      /\ \A n \in Mirrorable : n \in Note
      /\ \A n \in Note : notes[n] \in Nat /\ Written(n) \in Nat /\ n[1] \in Link /\ n[1][2] \in Ticket /\ n[2] \in Comment
  BY PassTypes
<1>s. pass.started \in Nat /\ pass.started <= now /\ Overlap \in Nat /\ Lag <= Overlap /\ synced \in Nat /\ synced <= now
  BY PassTypes
<1>4. \A u \in Ticket : /\ Touched(u)' = IF u = t THEN at ELSE Touched(u)
                        /\ \A d \in Comment : jira'[u].written[d] = IF u = t /\ d = c THEN at ELSE jira[u].written[d]
  <2>1. jira \in [Ticket -> [touched : Nat, written : [Comment -> Nat]]]
    BY DEF MirrorBase, MirrorTypes
  <2>2. \A u \in Ticket \ {t} : jira'[u] = jira[u]
    BY <1>1, <2>1
  <2>3. jira'[t] = [jira[t] EXCEPT !.touched = at, !.written[c] = at]
    BY <1>1, <2>1 DEF at
  <2>4. jira'[t].touched = at /\ \A d \in Comment : jira'[t].written[d] = IF d = c THEN at ELSE jira[t].written[d]
    BY <2>1, <2>3
  <2> QED
    BY <2>2, <2>4 DEF Touched
<1>5. \A n \in Note : Written(n)' = IF n[1][2] = t /\ n[2] = c THEN at ELSE Written(n)
  BY <1>4, <1>t DEF Written
<1>6. \A u \in Ticket : Touched(u) <= at /\ \A d \in Comment : jira[u].written[d] <= at
  BY <1>3, <1>t DEF FollowInv, Dates
<1>7. Dates'
  <2>1. \A u \in Ticket : Touched(u)' + Lag <= now' /\ \A d \in Comment : jira'[u].written[d] <= Touched(u)'
    BY <1>2, <1>3, <1>4, <1>6, <1>t DEF FollowInv, Dates
  <2>2. \A n \in Note : Written(n) <= Written(n)'
    BY <1>5, <1>6, <1>t DEF Written
  <2>3. \A n \in Note : notes[n] <= Written(n)'
    BY <2>2, <1>3, <1>5, <1>t DEF FollowInv, Dates
  <2> QED
    BY <2>1, <2>3, <1>2 DEF FollowInv, Dates
<1>8. \A r \in Found : Sound(r) => Sound(r)'
  <2> TAKE r \in Found
  <2> HAVE Sound(r)
  <2>1. r.key \in Ticket /\ r.touched \in Nat /\ \A d \in Comment : r.written[d] \in Nat
    BY DEF Found
  <2>2. r.touched <= Touched(r.key)'
    BY <2>1, <1>3, <1>4, <1>6, <1>t DEF Sound
  <2>3. ASSUME NEW d \in Comment
        PROVE  r.written[d] <= jira'[r.key].written[d]
    BY <2>1, <1>3, <1>4, <1>6, <1>t DEF Sound
  <2>4. ASSUME NEW d \in Comment
        PROVE  r.written[d] = jira'[r.key].written[d] \/ jira'[r.key].written[d] + Lag > pass.started
    BY <2>1, <1>3, <1>4, <1>s, <1>t DEF Sound
  <2> QED
    BY <2>2, <2>3, <2>4, <1>2 DEF Sound
<1>9. OnPass'
  BY <1>2, <1>8, PassTypes DEF FollowInv, OnPass, Since
<1>10. ASSUME NEW n \in Mirrorable, Before(n)'
       PROVE  Before(n) /\ (Holds(n) => Holds(n)')
  <2>1. Written(n)' \in 1..(pass.started - Lag - 1)
    BY <1>10, <1>2 DEF Before, Written, pass
  <2>2. Written(n)' = Written(n)
    BY <2>1, <1>3, <1>5, <1>s, <1>t
  <2> QED
    BY <2>1, <2>2, <1>2 DEF Before, Holds, Written, pass
<1>11. HeldSince'
  <2> SUFFICES ASSUME NEW n \in Mirrorable, Marked(n[1])', n[1] \notin pass'.fresh, Written(n)' > 0, Touched(n[1][2])' < Since(synced')
               PROVE  Holds(n)'
    BY DEF HeldSince, Since
  <2>1. Since(synced) <= at
    BY <1>3, <1>s DEF Since
  <2>2. n[1][2] # t
    BY <2>1, <1>2, <1>3, <1>4, <1>s, <1>t DEF Since
  <2>3. Written(n)' = Written(n) /\ Touched(n[1][2])' = Touched(n[1][2])
    BY <2>2, <1>4, <1>5, <1>t
  <2> QED
    BY <2>3, <1>2 DEF FollowInv, HeldSince, Marked, Holds, Written, Since
<1>12. KnowsLinks'
  BY <1>2 DEF FollowInv, KnowsLinks, Marked
<1>13. HeldPast'
  BY <1>2, <1>10 DEF FollowInv, HeldPast, Waits, Marked
<1> QED
  BY <1>7, <1>9, <1>11, <1>12, <1>13 DEF FollowInv

LEMMA FollowStarts ==
  ASSUME LagAssumption, MirrorBase, MirrorBase', FollowInv, StartPass \/ StartAsk
  PROVE  FollowInv'
<1>1. CASE StartAsk
  <2> PICK w \in Asker : \E rows : Goes(w, [Idle EXCEPT !.at = "search", !.rows = rows, !.fresh = rows])
    BY <1>1 DEF StartAsk, Start
  <2>1. UNCHANGED <<now, jira, links, notes, created, synced, strayed>>
    BY <1>1 DEF StartAsk, server
  <2>2. w \in Worker /\ w # Poller
    BY DEF LagAssumption, Worker
  <2> QED
    BY <2>1, <2>2, OthersQuiet
<1>2. CASE StartPass
  <2>1. UNCHANGED <<jira, links, notes, created, synced, strayed>> /\ now' = now + 1 /\ now' \in Nat
    BY <1>2, PassTypes DEF StartPass, Tick, server
  <2>2. pass' = Passing(Rows({"fresh", "marked"}), Rows({"fresh"}), now', Since(synced)) /\ work[Poller] = Idle
    BY <1>2, PassGoes DEF StartPass, Start, Passing
  <2>3. /\ pass'.at = "search" /\ pass'.rows = Rows({"fresh", "marked"}) /\ pass'.fresh = Rows({"fresh"})
        /\ pass'.started = now' /\ pass'.since = Since(synced) /\ pass'.issues = {} /\ pass'.todo = {} /\ pass'.due = {}
    <3>1. \A rows, fresh, started, since :
            LET r == Passing(rows, fresh, started, since)
            IN  /\ r.at = "search" /\ r.rows = rows /\ r.fresh = fresh /\ r.started = started /\ r.since = since
                /\ r.issues = {} /\ r.todo = {} /\ r.due = {}
      BY IdleErrand DEF Passing, Errand
    <3> QED
      BY <3>1, <2>2
  <2>4. pass.fresh = {}
    BY <2>2, IdleErrand DEF pass
  <2>5. Dates'
    BY <2>1, PassTypes DEF FollowInv, Dates, Touched, Written
  <2>6. OnPass'
    BY <2>1, <2>3, PassTypes DEF OnPass, Since
  <2>7. HeldSince'
    BY <2>1, <2>4 DEF FollowInv, HeldSince, Marked, Written, Touched, Since, Holds
  <2>8. KnowsLinks'
    BY <2>1, <2>3, PassTypes DEF KnowsLinks, Marked, Rows
  <2>9. HeldPast'
    BY <2>3 DEF HeldPast, Waits
  <2> QED
    BY <2>5, <2>6, <2>7, <2>8, <2>9 DEF FollowInv
<1> QED
  BY <1>1, <1>2

LEMMA FollowEnds ==
  ASSUME LagAssumption, MirrorBase, MirrorBase', FollowInv, EndPass \/ EndAsk \/ Fail
  PROVE  FollowInv'
<1>a. /\ now \in Nat /\ pass.started \in Nat /\ Lag \in Nat /\ Overlap \in Nat /\ Lag <= Overlap
      /\ \A n \in Mirrorable : n \in Note
      /\ \A n \in Note : Written(n) \in Nat /\ n[1][2] \in Ticket /\ n[2] \in Comment
      /\ \A t \in Ticket : Touched(t) \in Nat
  BY PassTypes
<1>1. CASE EndAsk
  <2> PICK w \in Asker : Goes(w, Idle)
    BY <1>1 DEF EndAsk
  <2>1. UNCHANGED <<now, jira, links, notes, created, synced, strayed>>
    BY <1>1 DEF EndAsk, server, ghosts
  <2>2. w \in Worker /\ w # Poller
    BY DEF LagAssumption, Worker
  <2> QED
    BY <2>1, <2>2, OthersQuiet
<1>2. ASSUME Goes(Poller, Idle), UNCHANGED <<now, jira, links, notes, created>>
      PROVE  /\ pass'.at = "idle" /\ pass'.fresh = {} /\ Dates' /\ OnPass' /\ KnowsLinks' /\ HeldPast'
  <2>1. pass' = Idle
    BY <1>2, PassGoes
  <2>2. pass'.at = "idle" /\ pass'.fresh = {}
    BY <2>1, IdleErrand
  <2>3. Dates'
    BY <1>2 DEF FollowInv, Dates, Touched, Written
  <2> QED
    BY <2>2, <2>3 DEF OnPass, KnowsLinks, HeldPast
<1>3. CASE EndPass
  <2>1. /\ pass.at = "issues" /\ pass.todo = {} /\ pass.due = {} /\ pass.issues = {} /\ Goes(Poller, Idle)
        /\ synced' = pass.started /\ UNCHANGED <<now, jira, links, request, notes, created, strayed>>
    BY <1>3 DEF EndPass, Between, pass, ghosts
  <2>2. HeldSince'
    <3> SUFFICES ASSUME NEW n \in Mirrorable, Marked(n[1]), Written(n) > 0, Touched(n[1][2]) < Since(pass.started)
                 PROVE  Holds(n)
      BY <2>1 DEF HeldSince, Marked, Written, Touched, Since, Holds
    <3>1. Written(n) <= Touched(n[1][2])
      BY <1>a DEF FollowInv, Dates, Written
    <3>2. Written(n) \in 1..(pass.started - Lag - 1)
      BY <3>1, <1>a DEF Since
    <3>3. ~Waits(n[1][2])
      BY <2>1 DEF Waits
    <3> QED
      BY <2>1, <3>2, <3>3 DEF FollowInv, HeldPast, Before, Written, pass
  <2> QED
    BY <2>1, <2>2, <1>2 DEF FollowInv
<1>4. CASE Fail
  <2> PICK w \in Worker : /\ Goes(w, Idle) /\ work[w] # Idle
                          /\ strayed' = IF w = Poller THEN strayed \cup {l \in work[w].fresh : links[l] = "marked"} ELSE strayed
    BY <1>4 DEF Fail
  <2>1. UNCHANGED <<now, jira, links, notes, created, synced>>
    BY <1>4 DEF Fail, server
  <2>2. CASE w # Poller
    BY <2>1, <2>2, OthersQuiet
  <2>3. CASE w = Poller
    <3>1. strayed' = strayed \cup {l \in pass.fresh : links[l] = "marked"}
      BY <2>3 DEF pass
    <3>2. HeldSince'
      BY <2>1, <3>1 DEF FollowInv, HeldSince, Marked, Written, Touched, Since, Holds
    <3> QED
      BY <2>1, <2>3, <3>2, <1>2 DEF FollowInv
  <2> QED
    BY <2>2, <2>3
<1> QED
  BY <1>1, <1>3, <1>4

LEMMA FollowMark ==
  ASSUME LagAssumption, MirrorBase, MirrorBase', FollowInv, Mark
  PROVE  FollowInv'
<1> PICK w \in Worker :
       /\ work[w].at = "mark"
       /\ links' = [links EXCEPT ![work[w].link] = IF @ = "none" THEN @ ELSE "marked"]
       /\ strayed' = IF w = Poller THEN strayed ELSE strayed \cup {work[w].link}
       /\ NextLink(w)
  BY DEF Mark
<1>1. UNCHANGED <<now, jira, notes, created, synced>>
  BY DEF Mark
<1>a. /\ pass \in Errand /\ IsAt(Poller, pass) /\ now \in Nat
      /\ pass.fresh \subseteq pass.rows /\ pass.todo \subseteq pass.fresh
      /\ \A n \in Mirrorable : n[1] \in Link
  BY PassTypes DEF Mirrorable
<1>2. work[w] \in Errand /\ IsAt(w, work[w])
  BY DEF MirrorBase, MirrorTypes, AtWork
<1> DEFINE l == work[w].link
<1>3. l \in work[w].todo /\ l \in Link
  BY <1>2, ErrandTypes DEF IsAt
<1>4. \A k \in Link : k # l => links'[k] = links[k]
  BY DEF MirrorBase, MirrorTypes
<1>5. Dates'
  BY <1>1 DEF FollowInv, Dates, Touched, Written
<1>6. CASE w # Poller
  <2>1. UNCHANGED pass
    BY <1>6 DEF NextLink, Goes, pass, Worker, MirrorBase, MirrorTypes
  <2>2. \A k \in Link : Marked(k)' => Marked(k)
    BY <1>6, <1>4 DEF Marked
  <2>3. OnPass'
    BY <1>1, <2>1 DEF FollowInv, OnPass, Sound, Touched, Since
  <2>4. HeldSince'
    BY <1>1, <1>a, <2>1, <2>2 DEF FollowInv, HeldSince, Written, Touched, Since, Holds
  <2>5. KnowsLinks'
    BY <1>a, <2>1, <2>2 DEF FollowInv, KnowsLinks
  <2>6. HeldPast'
    BY <1>1, <1>a, <2>1, <2>2 DEF FollowInv, HeldPast, Before, Waits, Holds, pass
  <2> QED
    BY <1>5, <2>3, <2>4, <2>5, <2>6 DEF FollowInv
<1>7. CASE w = Poller
  <2>1. /\ pass'.at = "issues" /\ pass'.todo = pass.todo \ {l} /\ pass.at = "mark" /\ l \in pass.todo
        /\ pass'.rows = pass.rows /\ pass'.fresh = pass.fresh /\ pass'.started = pass.started /\ pass'.since = pass.since
        /\ pass'.issues = pass.issues /\ pass'.issue = pass.issue /\ pass'.due = pass.due
    <3>1. pass' = [pass EXCEPT !.at = "issues", !.todo = @ \ {pass.link}, !.link = <<>>, !.read = <<>>]
      BY <1>7, PassGoes DEF NextLink, pass
    <3>2. pass.at = "mark" /\ l \in pass.todo /\ l = pass.link
      BY <1>7, <1>3 DEF pass
    <3> HIDE DEF l
    <3> QED
      BY <3>1, <3>2, <1>a DEF Errand
  <2> HIDE DEF l
  <2>2. \A k \in Link : Marked(k)' => Marked(k) \/ k = l
    BY <1>7, <1>4 DEF Marked
  <2>3. OnPass'
    BY <1>1, <2>1 DEF FollowInv, OnPass, Sound, Touched, Since
  <2>4. HeldSince'
    BY <1>1, <1>a, <2>1, <2>2 DEF FollowInv, HeldSince, Written, Touched, Since, Holds
  <2>5. KnowsLinks'
    BY <1>a, <2>1, <2>2 DEF FollowInv, KnowsLinks
  <2>6. HeldPast'
    <3>1. \A t : Waits(t)' <=> Waits(t)
      BY <2>1 DEF Waits
    <3>2. \A n : (Before(n)' <=> Before(n)) /\ (Holds(n)' <=> Holds(n))
      BY <1>1, <2>1 DEF Before, Holds, pass
    <3> QED
      BY <1>a, <2>1, <2>2, <3>1, <3>2 DEF FollowInv, HeldPast
  <2> QED
    BY <1>5, <2>3, <2>4, <2>5, <2>6 DEF FollowInv
<1> QED
  BY <1>6, <1>7

LEMMA FollowMirrorComment ==
  ASSUME LagAssumption, MirrorBase, MirrorBase', FollowInv, MirrorComment
  PROVE  FollowInv'
<1> PICK w \in Worker : \E n \in work[w].due :
       /\ work[w].at = "issues" /\ work[w].todo = {}
       /\ Commented(n, work[w].issue.written[n[2]])
       /\ Goes(w, [work[w] EXCEPT !.due = @ \ {n}, !.issue = IF work[w].due = {n} THEN <<>> ELSE @])
  BY DEF MirrorComment
<1> PICK n \in work[w].due :
       /\ work[w].at = "issues" /\ work[w].todo = {}
       /\ Commented(n, work[w].issue.written[n[2]])
       /\ Goes(w, [work[w] EXCEPT !.due = @ \ {n}, !.issue = IF work[w].due = {n} THEN <<>> ELSE @])
  OBVIOUS
<1>1. UNCHANGED <<now, jira, links, synced, strayed>>
  BY DEF MirrorComment, ghosts
<1>2. w = Poller
  BY DEF MirrorBase, AtWork, IsAt
<1>3. /\ pass.at = "issues" /\ pass.todo = {} /\ n \in pass.due
      /\ Commented(n, pass.issue.written[n[2]])
      /\ pass' = [pass EXCEPT !.due = @ \ {n}, !.issue = IF pass.due = {n} THEN <<>> ELSE @]
  BY <1>2, PassGoes DEF pass
<1>a. /\ pass \in Errand /\ now \in Nat /\ pass.due \subseteq Note /\ pass.issue \in Found
      /\ \A m \in Mirrorable : m \in Note
      /\ \A m \in Note : notes[m] \in Nat /\ Written(m) \in Nat /\ m[1] \in Link /\ m[1][2] \in Ticket /\ m[2] \in Comment
  BY <1>3, PassTypes
<1>4. /\ pass'.at = "issues" /\ pass'.todo = {} /\ pass'.due = pass.due \ {n}
      /\ pass'.rows = pass.rows /\ pass'.fresh = pass.fresh /\ pass'.started = pass.started /\ pass'.since = pass.since
      /\ pass'.issues = pass.issues /\ (pass'.due # {} => pass'.issue = pass.issue)
  BY <1>3, <1>a DEF Errand
<1> DEFINE at == pass.issue.written[n[2]]
<1>5. n \in Note /\ n[1][2] = pass.issue.key /\ at \in Nat
  BY <1>3, <1>a DEF Found, MirrorBase, AtWork, IsAt, pass, Worker
<1>6. at <= Written(n) /\ (at = Written(n) \/ ~Before(n))
  <2>1. Sound(pass.issue)
    BY <1>3 DEF FollowInv, OnPass
  <2>2. at <= Written(n) /\ (at = Written(n) \/ Written(n) + Lag > pass.started)
    BY <2>1, <1>5, <1>a DEF Sound, Written
  <2>3. Before(n) => Written(n) + Lag <= pass.started
    <3>1. Before(n) => Written(n) \in 1..(pass.started - Lag - 1)
      BY DEF Before, Written, pass
    <3>2. pass.started \in Nat /\ Lag \in Nat
      BY PassTypes
    <3> QED
      BY <3>1, <3>2, <1>a, <1>5
  <2>4. pass.started \in Nat /\ Lag \in Nat
    BY PassTypes
  <2> QED
    BY <2>2, <2>3, <2>4, <1>a, <1>5
<1> HIDE DEF at
<1>7. /\ \A m \in Note : m # n => notes'[m] = notes[m] /\ (m \in created' <=> m \in created)
      /\ n \in created' \/ (n \in created <=> n \in created')
      /\ \A m \in Note : m \in created => m \in created'
  BY <1>3, <1>5 DEF Commented, MirrorBase, MirrorTypes
<1>8. /\ notes[n] > 0 => notes'[n] = (IF at > notes[n] THEN at ELSE notes[n]) /\ created' = created
      /\ notes[n] = 0 => notes'[n] = (IF n \in created THEN 0 ELSE at) /\ n \in created'
  BY <1>3, <1>5, <1>a DEF Commented, MirrorBase, MirrorTypes, at
<1>9. notes[n] <= Written(n) /\ (notes[n] > 0 => n \in created)
  BY <1>5 DEF FollowInv, Dates
<1>10. UNCHANGED <<jira>> /\ \A m : Written(m)' = Written(m)
  BY <1>1 DEF Written
<1>11. notes'[n] <= Written(n) /\ (notes'[n] > 0 => n \in created')
  BY <1>5, <1>6, <1>8, <1>9, <1>a
<1>12. Dates'
  BY <1>1, <1>7, <1>10, <1>11 DEF FollowInv, Dates, Touched
<1>13. \A m \in Note : Holds(m) => Holds(m)'
  <2> TAKE m \in Note
  <2>1. CASE m # n
    BY <2>1, <1>1, <1>7 DEF Holds
  <2>2. CASE m = n
    <3>1. Holds(n) <=> notes[n] = Written(n) \/ (n \in created /\ notes[n] = 0)
      BY DEF Holds, Written
    <3>2. Holds(n)' <=> notes'[n] = Written(n) \/ (n \in created' /\ notes'[n] = 0)
      BY <1>1 DEF Holds, Written
    <3> QED
      BY <2>2, <3>1, <3>2, <1>5, <1>6, <1>8, <1>9, <1>a
  <2> QED
    BY <2>1, <2>2
<1>14. Before(n) => Holds(n)'
  <2>1. Holds(n)' <=> notes'[n] = Written(n) \/ (n \in created' /\ notes'[n] = 0)
    BY <1>1 DEF Holds, Written
  <2> QED
    BY <2>1, <1>5, <1>6, <1>8, <1>9, <1>a
<1>15. OnPass'
  BY <1>1, <1>3, <1>4 DEF FollowInv, OnPass, Sound, Touched, Since
<1>16. HeldSince'
  BY <1>1, <1>4, <1>10, <1>13, <1>a DEF FollowInv, HeldSince, Marked, Touched, Since
<1>17. KnowsLinks'
  BY <1>1, <1>3, <1>4 DEF FollowInv, KnowsLinks, Marked
<1>18. HeldPast'
  <2>1. \A t : Waits(t)' <=> Waits(t)
    BY <1>3, <1>4 DEF Waits
  <2>2. \A m : Before(m)' <=> Before(m)
    BY <1>1, <1>4 DEF Before, pass
  <2>3. \A m \in Note : Marked(m[1])' <=> Marked(m[1])
    BY <1>1 DEF Marked
  <2> QED
    BY <1>a, <1>3, <1>4, <1>13, <1>14, <2>1, <2>2, <2>3 DEF FollowInv, HeldPast
<1> QED
  BY <1>12, <1>15, <1>16, <1>17, <1>18 DEF FollowInv

LEMMA FollowSearch ==
  ASSUME LagAssumption, MirrorBase, MirrorBase', FollowInv, Search
  PROVE  FollowInv'
<1> DEFINE tickets(w) == {l[2] : l \in work[w].rows}
           Skips(w, t) == {l \in work[w].rows \ work[w].fresh : l[2] = t}
<1>1. PICK w \in Worker :
        /\ work[w].at = "search"
        /\ \/ /\ Goes(w, [work[w] EXCEPT !.at = "issues", !.issues = Fetched(tickets(w))])
              /\ UNCHANGED <<strayed, used>>
           \/ /\ used.faults < MaxFaults /\ used' = [used EXCEPT !.faults = @ + 1]
              /\ \E t \in tickets(w) :
                   /\ Goes(w, [work[w] EXCEPT !.at = "issues", !.issues = Fetched(tickets(w) \ {t})])
                   /\ strayed' = IF w = Poller
                                 THEN strayed \cup Skips(w, t)
                                 ELSE strayed
  BY Zenon DEF Search
<1>2. UNCHANGED <<now, jira, links, notes, created, synced>>
  BY DEF Search, server
<1>3. CASE w # Poller
  <2>1. strayed' = strayed /\ \E some : Goes(w, [work[w] EXCEPT !.at = "issues", !.issues = Fetched(some)])
    BY <1>1, <1>3
  <2> QED
    BY <2>1, <1>2, <1>3, OthersQuiet
<1>4. CASE w = Poller
  <2>1. PICK some : /\ pass' = [pass EXCEPT !.at = "issues", !.issues = Fetched(some)]
                    /\ some \subseteq {l[2] : l \in pass.rows}
                    /\ strayed \subseteq strayed'
                    /\ \A l \in pass.rows : l[2] \notin some => l \in pass.fresh \/ l \in strayed'
                    /\ pass.at = "search"
    <3> DEFINE all == {l[2] : l \in pass.rows}
    <3>1. \/ pass' = [pass EXCEPT !.at = "issues", !.issues = Fetched(all)] /\ strayed' = strayed
          \/ \E t \in all : /\ pass' = [pass EXCEPT !.at = "issues", !.issues = Fetched(all \ {t})]
                            /\ strayed' = strayed \cup {l \in pass.rows \ pass.fresh : l[2] = t}
      BY <1>1, <1>4, PassGoes DEF pass
    <3>2. pass.at = "search"
      BY <1>1, <1>4 DEF pass
    <3>3. \A l \in pass.rows : l[2] \in all
      OBVIOUS
    <3> HIDE DEF all
    <3>4. CASE pass' = [pass EXCEPT !.at = "issues", !.issues = Fetched(all)] /\ strayed' = strayed
      BY <3>2, <3>3, <3>4 DEF all
    <3>5. ASSUME NEW t \in all, pass' = [pass EXCEPT !.at = "issues", !.issues = Fetched(all \ {t})],
                 strayed' = strayed \cup {l \in pass.rows \ pass.fresh : l[2] = t}
          PROVE  /\ strayed \subseteq strayed' /\ all \ {t} \subseteq all
                 /\ \A l \in pass.rows : l[2] \notin all \ {t} => l \in pass.fresh \/ l \in strayed'
      BY <3>3, <3>5
    <3> QED
      BY <3>1, <3>2, <3>4, <3>5 DEF all
  <2>a. /\ pass \in Errand /\ now \in Nat /\ pass.rows \subseteq Link
        /\ \A n \in Mirrorable : n \in Note
        /\ \A n \in Note : Written(n) \in Nat /\ n[1] \in Link /\ n[1][2] \in Ticket /\ n[2] \in Comment
        /\ \A t \in Ticket : Touched(t) \in Nat /\ \A c \in Comment : jira[t].written[c] \in Nat
    BY PassTypes
  <2>2. /\ pass'.at = "issues" /\ pass'.issues = Fetched(some) /\ pass'.todo = {} /\ pass'.due = {}
        /\ pass'.rows = pass.rows /\ pass'.fresh = pass.fresh /\ pass'.started = pass.started /\ pass'.since = pass.since
    BY <2>1, <2>a DEF Errand, FollowInv, OnPass
  <2>3. /\ \A r \in Fetched(some) : r.key \in some /\ r.touched = Touched(r.key) /\ r.written = jira[r.key].written
        /\ \A t \in some : \E r \in Fetched(some) : r.key = t
        /\ \A r, s \in Fetched(some) : r.key = s.key => r = s
    <3> DEFINE f(t) == [key |-> t, touched |-> jira[t].touched, written |-> jira[t].written]
    <3>1. \A r : r \in Fetched(some) <=> \E t \in some : r = f(t)
      BY DEF Fetched
    <3>2. \A t : f(t).key = t /\ f(t).touched = Touched(t) /\ f(t).written = jira[t].written
      BY DEF Touched
    <3> HIDE DEF f
    <3>3. \A t \in some : f(t) \in Fetched(some)
      BY <3>1
    <3> QED
      BY <3>1, <3>2, <3>3
  <2>4. some \subseteq Ticket
    BY <2>1, <2>a DEF Link
  <2>5. Dates'
    BY <1>2 DEF FollowInv, Dates, Touched, Written
  <2>6. \A l : Marked(l)' => Marked(l)
    BY <1>2, <2>1 DEF Marked
  <2>7. \A r \in Fetched(some) : Sound(r)'
    BY <1>2, <2>3, <2>4, <2>a DEF Sound, Touched
  <2>8. OnPass'
    BY <1>2, <2>1, <2>2, <2>3, <2>7 DEF FollowInv, OnPass, Since
  <2>9. HeldSince'
    BY <1>2, <2>2, <2>6 DEF FollowInv, HeldSince, Written, Touched, Since, Holds
  <2>10. KnowsLinks'
    BY <2>1, <2>2, <2>6 DEF FollowInv, KnowsLinks
  <2>11. HeldPast'
    <3>1. ASSUME NEW n \in Mirrorable, Marked(n[1])'
          PROVE  n[1][2] \in some /\ Marked(n[1]) /\ n[1] \notin pass.fresh
      BY <3>1, <2>1, <2>6 DEF FollowInv, KnowsLinks, Marked
    <3>2. \A n \in Mirrorable : Marked(n[1])' => Waits(n[1][2])'
      BY <3>1, <2>2, <2>3 DEF Waits
    <3>3. ASSUME NEW n \in Mirrorable, Before(n), Marked(n[1])', NEW r \in Fetched(some), r.key = n[1][2], r.touched < pass.since
          PROVE  Holds(n)
      <4>1. Touched(n[1][2]) < Since(synced)
        BY <3>3, <2>1, <2>3 DEF FollowInv, OnPass
      <4>2. Written(n) > 0
        BY <3>3, <2>a, PassTypes DEF Before, Written, pass
      <4> QED
        BY <4>1, <4>2, <3>1, <3>3 DEF FollowInv, HeldSince
    <3>4. \A n : (Before(n)' <=> Before(n)) /\ (Holds(n)' <=> Holds(n))
      BY <1>2, <2>2 DEF Before, Holds, pass
    <3> QED
      BY <2>2, <3>2, <3>3, <3>4 DEF HeldPast
  <2> QED
    BY <2>5, <2>8, <2>9, <2>10, <2>11 DEF FollowInv
<1> QED
  BY <1>3, <1>4

LEMMA FollowTakeIssue ==
  ASSUME LagAssumption, MirrorBase, MirrorBase', FollowInv, TakeIssue
  PROVE  FollowInv'
<1> PICK w \in Worker : \E issue \in work[w].issues :
       /\ Between(w)
       /\ Goes(w, [work[w] EXCEPT !.issues = @ \ {issue}, !.issue = IF Mirrored(w, issue) = {} THEN <<>> ELSE issue,
                     !.todo = {l \in work[w].fresh : l[2] = issue.key},
                     !.due = Due(w, issue)])
       /\ strayed' = strayed \ Mirrored(w, issue)
  BY Zenon DEF TakeIssue
<1> PICK issue \in work[w].issues :
       /\ Between(w)
       /\ Goes(w, [work[w] EXCEPT !.issues = @ \ {issue}, !.issue = IF Mirrored(w, issue) = {} THEN <<>> ELSE issue,
                     !.todo = {l \in work[w].fresh : l[2] = issue.key},
                     !.due = Due(w, issue)])
       /\ strayed' = strayed \ Mirrored(w, issue)
  BY Zenon
<1>1. UNCHANGED <<now, jira, links, notes, created, synced>>
  BY DEF TakeIssue, server
<1>2. CASE w # Poller
  <2>1. strayed' = strayed
    BY <1>2 DEF Mirrored, MirrorBase, MirrorTypes
  <2> QED
    BY <2>1, <1>1, <1>2, OthersQuiet
<1>3. CASE w = Poller
  <2> DEFINE taken == Mirrored(Poller, issue)
  <2>a. /\ pass \in Errand /\ now \in Nat /\ pass.rows \subseteq Link /\ pass.issues \subseteq Found
        /\ \A n \in Mirrorable : n \in Note /\ n[2] \notin Ours
        /\ \A n \in Note : Written(n) \in Nat /\ n[1] \in Link /\ n[1][2] \in Ticket /\ n[2] \in Comment /\ n = <<n[1], n[2]>>
        /\ \A t \in Ticket : Touched(t) \in Nat /\ \A c \in Comment : jira[t].written[c] \in Nat
        /\ pass.fresh \subseteq pass.rows /\ pass.started \in Nat /\ Lag \in Nat /\ pass.since \in Nat
    BY PassTypes DEF Mirrorable, Note
  <2>1. /\ pass' = [pass EXCEPT !.issues = @ \ {issue}, !.issue = IF taken = {} THEN <<>> ELSE issue,
                     !.todo = {l \in pass.fresh : l[2] = issue.key}, !.due = Due(Poller, issue)]
        /\ pass.at = "issues" /\ pass.todo = {} /\ pass.due = {} /\ issue \in pass.issues
        /\ strayed' = strayed \ taken
    BY <1>3, PassGoes DEF pass, Between
  <2>2. /\ taken = {l \in IF issue.touched < pass.since THEN pass.fresh ELSE pass.rows : l[2] = issue.key}
        /\ \A n \in Mirrorable : n \in Due(Poller, issue) <=> n[1] \in taken /\ issue.written[n[2]] > 0
        /\ Due(Poller, issue) # {} => taken # {}
    BY <2>a DEF Mirrored, Due, pass
  <2>3. /\ \A l \in taken : l \in pass.rows /\ l[2] = issue.key
        /\ \A l \in pass.fresh : l[2] = issue.key => l \in taken
    BY <2>2, <2>a
  <2> HIDE DEF taken
  <2>4. /\ pass'.at = "issues" /\ pass'.issues = pass.issues \ {issue} /\ pass'.due = Due(Poller, issue)
        /\ pass'.todo = {l \in pass.fresh : l[2] = issue.key} /\ (pass'.due # {} => pass'.issue = issue)
        /\ pass'.rows = pass.rows /\ pass'.fresh = pass.fresh /\ pass'.started = pass.started /\ pass'.since = pass.since
    BY <2>1, <2>2, <2>a DEF Errand
  <2>5. /\ Sound(issue) /\ issue \in Found /\ pass.since = Since(synced)
        /\ \A r \in pass.issues : Sound(r) /\ (r # issue => r.key # issue.key)
    BY <2>1, <2>a DEF FollowInv, OnPass
  <2>6. Dates'
    BY <1>1 DEF FollowInv, Dates, Touched, Written
  <2>7. \A r : Sound(r)' <=> Sound(r)
    BY <1>1, <2>4 DEF Sound, Touched
  <2>8. OnPass'
    BY <1>1, <2>1, <2>4, <2>5, <2>7 DEF FollowInv, OnPass, Since
  <2>9. \A l \in Link : Marked(l)' => Marked(l) \/ l \in taken
    BY <1>1, <2>1 DEF Marked
  <2>10. HeldSince'
    <3> SUFFICES ASSUME NEW n \in Mirrorable, Marked(n[1])', n[1] \notin pass.fresh, Written(n) > 0, Touched(n[1][2]) < Since(synced)
                 PROVE  Holds(n)
      BY <1>1, <2>4 DEF HeldSince, Written, Touched, Since, Holds
    <3>1. CASE n[1] \in taken
      <4>1. n[1][2] = issue.key /\ ~(issue.touched < pass.since)
        BY <3>1, <2>2, <2>3
      <4>2. issue.touched <= Touched(issue.key) /\ issue.touched \in Nat /\ issue.key \in Ticket
        BY <2>5 DEF Sound, Found
      <4> QED
        BY <4>1, <4>2, <2>5, <2>a
    <3>2. CASE Marked(n[1])
      BY <3>2 DEF FollowInv, HeldSince
    <3> QED
      BY <3>1, <3>2, <2>9, <2>a
  <2>11. KnowsLinks'
    BY <2>1, <2>3, <2>4, <2>9, <2>a DEF FollowInv, KnowsLinks
  <2>12. ASSUME NEW n \in Mirrorable, Before(n), n[1] \in taken
         PROVE  n \in pass'.due
    <3>1. Written(n) \in 1..(pass.started - Lag - 1)
      BY <2>12 DEF Before, Written, pass
    <3>2. n[1][2] = issue.key
      BY <2>12, <2>3
    <3>3. issue.written[n[2]] = Written(n)
      BY <3>1, <3>2, <2>5, <2>a DEF Sound, Written
    <3> QED
      BY <3>1, <3>3, <2>2, <2>4, <2>12, <2>a
  <2>13. \A n : (Before(n)' <=> Before(n)) /\ (Holds(n)' <=> Holds(n))
    BY <1>1, <2>4 DEF Before, Holds, pass
  <2>14. HeldPast'
    <3> SUFFICES ASSUME NEW n \in Mirrorable, Before(n)
                 PROVE  /\ n[1] \in pass'.todo => n \in pass'.due
                        /\ Marked(n[1])' /\ ~Waits(n[1][2])' /\ n \notin pass'.due => Holds(n)
                        /\ Marked(n[1])' /\ n[1] \notin pass.fresh =>
                             \A r \in pass'.issues : r.key = n[1][2] /\ r.touched < pass.since => Holds(n)
      BY <2>4, <2>13 DEF HeldPast
    <3>1. n[1] \in pass'.todo => n \in pass'.due
      BY <2>3, <2>4, <2>12
    <3>2. ASSUME Marked(n[1])', ~Waits(n[1][2])', n \notin pass'.due
          PROVE  Holds(n)
      <4>1. Marked(n[1]) /\ n[1] \notin taken
        BY <3>2, <2>9, <2>12, <2>a
      <4>2. CASE n[1][2] = issue.key
        <5>1. n[1] \in pass.rows /\ n[1] \notin pass.fresh
          BY <4>1, <4>2, <2>1, <2>3 DEF FollowInv, KnowsLinks
        <5>2. issue.touched < pass.since
          BY <4>1, <4>2, <5>1, <2>2
        <5> QED
          BY <4>1, <4>2, <5>1, <5>2, <2>1 DEF FollowInv, HeldPast
      <4>3. CASE n[1][2] # issue.key
        <5>1. ~Waits(n[1][2])
          BY <3>2, <4>3, <2>1, <2>4 DEF Waits
        <5> QED
          BY <4>1, <5>1, <2>1 DEF FollowInv, HeldPast
      <4> QED
        BY <4>2, <4>3
    <3>3. ASSUME Marked(n[1])', n[1] \notin pass.fresh, NEW r \in pass'.issues, r.key = n[1][2], r.touched < pass.since
          PROVE  Holds(n)
      <4>1. r \in pass.issues /\ r.key # issue.key
        BY <3>3, <2>4, <2>5
      <4>2. Marked(n[1])
        BY <4>1, <3>3, <2>3, <2>9, <2>a
      <4> QED
        BY <4>1, <4>2, <3>3, <2>1 DEF FollowInv, HeldPast
    <3> QED
      BY <3>1, <3>2, <3>3
  <2> QED
    BY <2>6, <2>8, <2>10, <2>11, <2>14 DEF FollowInv
<1> QED
  BY <1>2, <1>3

LEMMA FollowNext == ASSUME LagAssumption, MirrorBase, MirrorBase', FollowInv, [Next]_vars PROVE FollowInv'
  BY FollowBackfill, FollowPeople, FollowWriteComment, FollowStarts, FollowEnds, FollowMark, FollowMirrorComment,
     FollowSearch, FollowTakeIssue DEF Next

(* At the end of a pass nothing waits and nothing is due.                  *)
LEMMA FollowGives == ASSUME LagAssumption, MirrorBase, FollowInv PROVE PassMirrors
<1> SUFFICES ASSUME EndPass, NEW n \in (pass.rows \ strayed) \X (Comment \ Ours), links[n[1]] = "marked", Before(n)
             PROVE  Holds(n)
  BY DEF PassMirrors, Follow, pass
<1>1. n \in Mirrorable /\ Marked(n[1])
  BY PassTypes DEF Mirrorable, Marked
<1>2. pass.at = "issues" /\ pass.due = {} /\ pass.issues = {}
  BY DEF EndPass, Between, pass
<1> QED
  BY <1>1, <1>2 DEF FollowInv, HeldPast, Waits

(* The items of links that were not marked by one that did not mirror have *)
(* at a pass's end the comments that were in Jira before it began.         *)
THEOREM OthersFollowAlways == ASSUME LagAssumption PROVE Spec => OthersFollow
<1>1. Init => MirrorBase /\ FollowInv
  BY MirrorBaseInit, FollowStart
<1>2. MirrorBase /\ FollowInv /\ [Next]_vars => MirrorBase' /\ FollowInv'
  BY MirrorBaseNext, FollowNext
<1>3. MirrorBase /\ FollowInv => PassMirrors
  BY FollowGives
<1>4. MirrorBase /\ FollowInv /\ [Next]_vars => [PassMirrors]_vars
  BY <1>3
<1> QED
  BY <1>1, <1>2, <1>4, PTL DEF Spec, OthersFollow
===============================================================================
