------------------------------- MODULE GitFacts -------------------------------
(***************************************************************************)
(* Which items' branches build on which (server/lib/gitfacts.ts): one repo *)
(* on GitHub, where people push, rewrite, merge and delete branches, and   *)
(* the facts the server computes about it when a tick, a webhook, a page   *)
(* or a refused stage asks it to.                                          *)
(*                                                                         *)
(* Each item lists one branch, and goes by its name; commits are numbered  *)
(* as they are made.  Left out: dependency notes, hints about files, the   *)
(* conflicts a CLI reports, commits GitHub no longer knows, and computes   *)
(* that overlap: the state of the repo is read in one step.                *)
(***************************************************************************)
EXTENDS Naturals, Sequences, FiniteSets, TLC

CONSTANTS
  Branch,      \* the items' branches
  Main,        \* the default branch
  LongLived,   \* branches no item lists, Main among them
  Track,       \* the long-lived ones that are set as deploy branches
  None,
  MaxEvents    \* bound: commits, PRs, and upsets: items' moves, failures and restarts

(* A repo lists finitely many items' branches, none of them long-lived.    *)
RepoAssumption ==
  /\ IsFiniteSet(Branch) /\ Branch \cap LongLived = {}
  /\ Main \in LongLived /\ Track \subseteq LongLived
  /\ None \notin Branch \cup LongLived \cup [Track -> Nat]
  /\ None \notin [tips   : UNION {[N -> Nat] : N \in SUBSET (Branch \cup LongLived)},
                  status : [Branch -> {"open", "deferred", "cancelled"}], stored : SUBSET Branch]

VARIABLES
  tips,    \* branch -> its newest commit, 0 when it is not on the remote
  commits, \* commit -> its ancestors with itself, and the changes its files hold
  prs,     \* the pull requests, by number
  status,  \* item -> its status
  rows,    \* git_facts: item -> what is stored, for the items that have a row
  memory,  \* this server's: the signature of the last compute, and the tracked tips it saw
  upsets

vars == <<tips, commits, prs, status, rows, memory, upsets>>
remote == <<tips, commits, prs>>

NoRow == [head |-> 0, pr |-> None, prs |-> {}, prHead |-> 0, chain |-> <<>>, orphan |-> None,
          target |-> Main, needs |-> {}, shares |-> {}, error |-> FALSE]
NoMemory == [signature |-> None, tracked |-> None]

Init ==
  /\ tips = [b \in Branch \cup LongLived |-> IF b \in LongLived THEN 1 ELSE 0]
  /\ commits = <<[anc |-> {1}, work |-> {1}]>>
  /\ prs = <<>>
  /\ status = [b \in Branch |-> "open"]
  /\ rows = [b \in {} |-> NoRow] /\ memory = NoMemory
  /\ upsets = 0

Fixed == Track \cup {Main}
MaxOf(S) == CHOOSE n \in S : \A m \in S : m <= n
There(b) == tips[b] # 0
Holds(commit, c) == c \in commits[commit].anc

-----------------------------------------------------------------------------
(* What people do on the remote, and to items.                             *)

New == Len(commits) + 1
Room == Len(commits) - 1 + Len(prs) + upsets < MaxEvents

NewTip(b, anc, work) ==
  /\ Room
  /\ commits' = Append(commits, [anc |-> anc \cup {New}, work |-> work \cup {New}])
  /\ tips' = [tips EXCEPT ![b] = New]

Facts == <<status, rows, memory, upsets>>

Push(b) ==
  /\ \E from \in IF There(b) THEN {b} ELSE {f \in DOMAIN tips : There(f)} :
       NewTip(b, commits[tips[from]].anc, commits[tips[from]].work)
  /\ UNCHANGED <<prs, Facts>>

(* Amending: the same change again, in a commit of its own.                *)
Rewrite(b) ==
  /\ There(b) /\ \A f \in LongLived : ~Holds(tips[f], tips[b])
  /\ NewTip(b, commits[tips[b]].anc \ {tips[b]}, commits[tips[b]].work)
  /\ UNCHANGED <<prs, Facts>>

MergeIn(b, from) ==
  /\ There(b) /\ There(from) /\ ~Holds(tips[b], tips[from])
  /\ IF Holds(tips[from], tips[b])
     THEN tips' = [tips EXCEPT ![b] = tips[from]] /\ UNCHANGED commits
     ELSE NewTip(b, commits[tips[b]].anc \cup commits[tips[from]].anc,
                    commits[tips[b]].work \cup commits[tips[from]].work)
  /\ UNCHANGED <<prs, Facts>>

OpenOf(b) == {n \in DOMAIN prs : prs[n].of = b /\ prs[n].state = "open"}

OpenPr(b, base) ==
  /\ Room
  /\ There(b) /\ There(base) /\ b # base /\ OpenOf(b) = {} /\ ~Holds(tips[base], tips[b])
  /\ prs' = Append(prs, [of |-> b, base |-> base, state |-> "open", head |-> 0, merge |-> 0])
  /\ UNCHANGED <<tips, commits, Facts>>

ClosePr(b) ==
  /\ \E n \in OpenOf(b) : prs' = [prs EXCEPT ![n].state = "closed", ![n].head = tips[b]]
  /\ UNCHANGED <<tips, commits, Facts>>

(* With a merge commit, or squashed into one that is not its descendant.   *)
MergePr(b) ==
  /\ \E n \in OpenOf(b), squashed \in BOOLEAN :
       LET base == prs[n].base
           here == commits[tips[base]]
           head == commits[tips[b]]
       IN  /\ ~Holds(tips[base], tips[b])
           /\ NewTip(base, IF squashed THEN here.anc ELSE here.anc \cup head.anc, here.work \cup head.work)
           /\ prs' = [prs EXCEPT ![n] = [@ EXCEPT !.state = "merged", !.head = tips[b], !.merge = New]]
  /\ UNCHANGED Facts

(* GitHub closes the PRs of a deleted branch, and moves those based on it  *)
(* to where its own merged PR went, or closes them.                        *)
DeleteBranch(b) ==
  /\ There(b)
  /\ LET merged == {n \in DOMAIN prs : prs[n].of = b /\ prs[n].state = "merged"}
         went   == IF merged = {} THEN b ELSE prs[MaxOf(merged)].base
     IN  prs' = [n \in DOMAIN prs |->
           IF prs[n].state # "open" \/ b \notin {prs[n].of, prs[n].base} THEN prs[n]
           ELSE IF prs[n].of # b /\ went \notin {b, prs[n].of} /\ There(went)
           THEN [prs[n] EXCEPT !.base = went]
           ELSE [prs[n] EXCEPT !.state = "closed", !.head = tips[prs[n].of]]]
  /\ tips' = [tips EXCEPT ![b] = 0]
  /\ UNCHANGED <<commits, Facts>>

Upset == Room /\ upsets' = upsets + 1

Move(b) ==
  /\ Upset
  /\ \E s \in {"open", "deferred", "cancelled"} \ {status[b]} : status' = [status EXCEPT ![b] = s]
  /\ UNCHANGED <<remote, rows, memory>>

-----------------------------------------------------------------------------
(* Reading the repo.  "old" is an item's stored row, "moved" the tracked   *)
(* branches that moved since the last compute.                             *)

Old(b) == IF b \in DOMAIN rows THEN rows[b] ELSE NoRow

Pr(n) == [n |-> n, base |-> prs[n].base, state |-> prs[n].state, merge |-> prs[n].merge,
          head |-> IF prs[n].state = "open" THEN tips[prs[n].of] ELSE prs[n].head]

PrsOf(b) == {n \in DOMAIN prs : prs[n].of = b}

Current(b) ==
  IF PrsOf(b) = {} THEN None ELSE Pr(MaxOf(IF OpenOf(b) # {} THEN OpenOf(b) ELSE PrsOf(b)))

Moved == {t \in Track : There(t) /\ (memory.tracked = None \/ memory.tracked[t] # tips[t])}

(* PRs are asked for again when the branch's head moved, or when it is     *)
(* open into a branch that was not looked at while another moved.          *)
AskAgain(old, head, moved) ==
  /\ head # 0
  /\ \/ old.prHead # head
     \/ moved # {} /\ old.pr # None /\ old.pr.state = "open" /\ old.pr.base \notin moved

(* An open PR that is now among those closed into a branch that moved.     *)
ClosedInto(old, moved) ==
  /\ old.pr # None /\ old.pr.state = "open" /\ old.pr.base \in moved
  /\ prs[old.pr.n].state # "open" /\ prs[old.pr.n].base \in moved

BranchFact(b, moved) ==
  LET old  == Old(b)
      head == IF There(b) THEN tips[b] ELSE old.head
      row  == [NoRow EXCEPT !.head = head, !.pr = old.pr, !.prs = old.prs, !.prHead = old.prHead]
  IN  IF AskAgain(old, head, moved)
      THEN [row EXCEPT !.pr = Current(b), !.prHead = head,
                       !.prs = {Pr(n) : n \in {m \in PrsOf(b) : prs[m].state # "closed"}}]
      ELSE IF ClosedInto(old, moved)
      THEN [row EXCEPT !.pr = Pr(old.pr.n),
                       !.prs = {p \in old.prs : p.n # old.pr.n} \cup
                               (IF prs[old.pr.n].state = "merged" THEN {Pr(old.pr.n)} ELSE {})]
      ELSE row

Merged(fact) == {p \in fact.prs : p.state = "merged"}

(* The commit by which a branch's head landed: its PR's, or itself.        *)
Landed(fact) ==
  LET carried == {p \in Merged(fact) : p.head = fact.head}
  IN  IF carried = {} THEN fact.head ELSE (CHOOSE p \in carried : \A q \in carried : q.n <= p.n).merge

MergedGone(b, fact) == ~There(b) /\ fact.head # 0 /\ Landed(fact) # fact.head

-----------------------------------------------------------------------------
(* T(B): the base of the branch's open PR, and of the open PRs of the      *)
(* items' branches it leads through.                                       *)

Fallback == IF \E t \in Track : There(t) THEN CHOOSE t \in Track : There(t) ELSE Main
Owned(b) == b \in Branch /\ status[b] # "cancelled"

BaseOf(facts, b) ==
  LET pr == facts[b].pr
  IN  IF pr # None /\ pr.state = "open" THEN pr.base ELSE None

LastOf(b, chain) == IF chain = <<>> THEN b ELSE chain[Len(chain)]
Passed(b, chain) == {b} \cup {chain[i] : i \in DOMAIN chain}

Longer(facts, b, chain) ==
  LET base == BaseOf(facts, LastOf(b, chain))
  IN  IF Owned(base) /\ base \notin Passed(b, chain) \cup Fixed THEN Append(chain, base) ELSE chain

ChainOf(facts, b) ==
  LET walk[n \in 0..Cardinality(Branch)] == IF n = 0 THEN <<>> ELSE Longer(facts, b, walk[n - 1])
  IN  walk[Cardinality(Branch)]

Follow(facts, b) ==
  LET chain == ChainOf(facts, b)
      base  == BaseOf(facts, LastOf(b, chain))
      Ends(target, orphan) == [target |-> target, orphan |-> orphan, chain |-> chain]
  IN  IF base \in {None} \cup Passed(b, chain) THEN Ends(Fallback, None)
      ELSE IF base \in Fixed THEN Ends(base, None)
      ELSE IF There(base) /\ base \notin Branch THEN Ends(base, IF Track = {} THEN None ELSE base)
      ELSE Ends(Fallback, base)

(* The same function, of which TLC computes every value once.              *)
Once(f) == CHOOSE g \in {f} : g = f

WithTargets(facts) ==
  Once([b \in Branch |->
     LET t == Follow(facts, b)
     IN  [facts[b] EXCEPT !.target = t.target, !.orphan = t.orphan, !.chain = t.chain]])

(* A branch whose commits can be compared with its target's.               *)
Listed(facts, b) == There(facts[b].target) /\ facts[b].head # 0 /\ ~MergedGone(b, facts[b])

(* Its commits that are in neither its target nor a long-lived branch.     *)
Unlanded(facts, b) ==
  IF Listed(facts, b)
  THEN commits[facts[b].head].anc \
         UNION {commits[tips[f]].anc : f \in {g \in Fixed \cup {facts[b].target} : There(g)}}
  ELSE {}

Common(facts, b, a) == Unlanded(facts, b) \cap Unlanded(facts, a)

-----------------------------------------------------------------------------
(* Edges: "b needs a".                                                     *)

CantLand(a) == status[a] \in {"deferred", "cancelled"}
ClosedPr(fact) == fact.pr # None /\ fact.pr.state = "closed"

(* The commit by which a's current work reached the target, 0 for none.    *)
(* What a finished item's landed-in would add is among these.              *)
Reached(fact, target) ==
  LET landings == {p.merge : p \in {q \in Merged(fact) : q.head = fact.head}} \cup {fact.head}
      there    == {c \in landings \ {0} : Holds(tips[target], c)}
  IN  IF there = {} THEN 0 ELSE MaxOf(there)

ChainState(facts, a, target) ==
  IF ~There(target) THEN "unknown"
  ELSE IF Reached(facts[a], target) # 0 THEN "landed"
  ELSE IF CantLand(a) \/ ClosedPr(facts[a]) THEN "stale"
  ELSE "waiting"

(* Mutant: a merged PR lands it wherever it was merged.                     *)
MergedSomewhere(p, target) == TRUE

Reaches(p, target) == Holds(tips[target], p.merge)

(* A merged PR of a carried the shared commit, and reached the target.      *)
Resolve(facts, a, target, mb) ==
  LET carried == {p \in Merged(facts[a]) : Holds(p.head, mb)}
  IN  IF \E p \in carried : Reaches(p, target) THEN "landed"
      ELSE IF CantLand(a) \/ (ClosedPr(facts[a]) /\ carried = {}) THEN "stale"
      ELSE "waiting"

(* An edge names the newest shared commit, 0 for none.                     *)
Edge(facts, b, dep, state, mb, chain) ==
  [dep |-> dep, state |-> state, mb |-> mb, chain |-> chain, target |-> facts[b].target]

CommitEdge(facts, b, a, chain) ==
  LET mb == MaxOf(Common(facts, b, a))
  IN  Edge(facts, b, a, Resolve(facts, a, facts[b].target, mb), mb, chain)

(* b needs every item its PR's bases run through, and what they end at.    *)
ChainEdges(facts, b) ==
  {IF Common(facts, b, a) # {} THEN CommitEdge(facts, b, a, TRUE)
   ELSE Edge(facts, b, a, ChainState(facts, a, facts[b].target), 0, TRUE)
     : a \in {facts[b].chain[i] : i \in DOMAIN facts[b].chain}}
  \cup
  {IF o \notin Branch THEN Edge(facts, b, o, "unknown", 0, TRUE)
   ELSE LET state == ChainState(facts, o, facts[b].target)
        IN  Edge(facts, b, o, IF state \in {"landed", "unknown"} THEN state ELSE "stale", 0, TRUE)
     : o \in {facts[b].orphan} \ {None}}

InChain(facts, b, a) == \E e \in ChainEdges(facts, b) : status[b] # "cancelled" /\ e.dep = a
Chained(facts, b, a) == InChain(facts, b, a) \/ InChain(facts, a, b)
Related(facts, b, a) == Common(facts, b, a) # {} \/ Chained(facts, b, a)

(* Which of two branches with common commits builds on the other.          *)
BuildsOn(facts, b, a) ==
  LET linked(x, y) == \E i \in DOMAIN facts[x].chain : facts[x].chain[i] = y
  IN  \/ linked(b, a)
      \/ ~linked(a, b) /\ facts[b].head # facts[a].head /\ facts[a].head \in Unlanded(facts, b)

Paired(facts, b) == {a \in Branch \ {b} : Common(facts, b, a) # {} /\ ~Chained(facts, b, a)}

PairEdges(facts, b) == {CommitEdge(facts, b, a, FALSE) : a \in {x \in Paired(facts, b) : BuildsOn(facts, b, x)}}

Share(a, mb, landing) == [dep |-> a, mb |-> mb, landing |-> landing, state |-> None]
PairShares(facts, b) ==
  {Share(a, 0, 0) : a \in {x \in Paired(facts, b) : ~BuildsOn(facts, b, x) /\ ~BuildsOn(facts, x, b)}}

-----------------------------------------------------------------------------
(* What was stored and is not found again.                                 *)

Unknown(facts, b) == ~There(facts[b].target)
MergedInto(fact, landing) == landing # 0 /\ fact.head # 0 /\ Holds(fact.head, landing)

Lost(facts, b) == {e \in Old(b).needs : e.dep \in Branch /\ ~Related(facts, b, e.dep)}

(* b still carries what a dropped when it was rewritten.                   *)
StillCarried(facts, b, e) == ~MergedGone(e.dep, facts[e.dep]) /\ e.mb \in Unlanded(facts, b)

(* Mutant: an edge that is not found again is gone.                        *)
NothingCarried(facts, b, e) == {}

(* The edge that is left of a lost one, none if it is gone.                *)
CarriedEdge(facts, b, e) ==
  LET target  == facts[b].target
      As(s)   == {[e EXCEPT !.state = s, !.target = target]}
      landing == IF MergedGone(e.dep, facts[e.dep]) THEN Landed(facts[e.dep]) ELSE e.mb
  IN  IF Unknown(facts, b) \/ Unknown(facts, e.dep) THEN {[e EXCEPT !.state = "unknown"]}
      ELSE IF StillCarried(facts, b, e)
      THEN IF Reached(facts[e.dep], target) = 0 THEN As("waiting") ELSE {}
      ELSE IF landing # 0 /\ Holds(tips[target], landing) THEN As("landed") ELSE {}

(* A hint takes the edge's place once a's work landed, until b holds it.   *)
CarriedShares(facts, b) ==
  {s \in {Share(e.dep, e.mb, Reached(facts[e.dep], facts[b].target)) :
            e \in {x \in Lost(facts, b) : /\ ~Unknown(facts, b) /\ ~Unknown(facts, x.dep)
                                          /\ StillCarried(facts, b, x)}} :
     s.landing # 0 /\ ~MergedInto(facts[b], s.landing)}
  \cup
  {s \in Old(b).shares : /\ s.mb # 0 /\ ~Related(facts, b, s.dep)
                         /\ s.mb \in Unlanded(facts, b) /\ ~MergedInto(facts[b], s.landing)}
  \cup
  {[s EXCEPT !.state = "unknown"] : s \in
     {x \in Old(b).shares : /\ x.mb = 0 /\ ~Related(facts, b, x.dep)
                            /\ (Unknown(facts, b) \/ Unknown(facts, x.dep))}}

(* A cancelled item needs nothing.                                         *)
NewRow(facts, b) ==
  LET active(S) == IF status[b] = "cancelled" THEN {} ELSE S
      carried == UNION {CarriedEdge(facts, b, e) : e \in Lost(facts, b)}
  IN  [facts[b] EXCEPT
         !.needs  = active(ChainEdges(facts, b) \cup PairEdges(facts, b) \cup carried),
         !.shares = PairShares(facts, b) \cup active(CarriedShares(facts, b))]

NewRows ==
  LET facts == WithTargets(Once([b \in Branch |-> BranchFact(b, Moved)]))
  IN  [b \in Branch |-> NewRow(facts, b)]

-----------------------------------------------------------------------------
(* A compute.                                                              *)

(* Mutant: the branches the stored facts name are left out.                *)
NamesListed == Branch \cup Fixed

(* The branches that matter: those listed, tracked, and named by what is   *)
(* stored.                                                                 *)
NamesThatMatter ==
  Branch \cup Fixed \cup
  UNION {{rows[b].target} \cup {rows[b].chain[i] : i \in DOMAIN rows[b].chain}
           \cup (IF rows[b].pr = None THEN {} ELSE {rows[b].pr.base}) : b \in DOMAIN rows}

Signature ==
  [tips |-> [n \in NamesThatMatter |-> tips[n]], status |-> status, stored |-> DOMAIN rows]

(* Nothing it depends on changed since the last one: it is skipped.        *)
Skips == memory.signature = Signature

Compute ==
  /\ ~Skips
  /\ rows' = NewRows
  /\ memory' = [signature |-> Signature, tracked |-> [t \in Track |-> tips[t]]]
  /\ UNCHANGED <<remote, status, upsets>>

(* GitHub fails: what is stored is marked unknown.  Signature and tips     *)
(* stay as they were.                                                      *)
ComputeFails ==
  /\ Upset
  /\ rows' = [b \in DOMAIN rows |->
       [rows[b] EXCEPT !.error = TRUE,
          !.needs = {[e EXCEPT !.state = "unknown"] : e \in @},
          !.shares = {[s EXCEPT !.state = "unknown"] : s \in @}]]
  /\ UNCHANGED <<remote, status, memory>>

Unresolved(b) == {e \in Old(b).needs : e.state # "landed"}

(* A stage is refused for an unresolved edge, and the next compute is not  *)
(* skipped.                                                                *)
Refuse(b) ==
  /\ Unresolved(b) # {} /\ memory.signature # None /\ Upset
  /\ memory' = [memory EXCEPT !.signature = None]
  /\ UNCHANGED <<remote, status, rows>>

Restart ==
  /\ memory # NoMemory /\ Upset
  /\ memory' = NoMemory
  /\ UNCHANGED <<remote, status, rows>>

Next ==
  \/ \E b \in Branch : Push(b) \/ Rewrite(b) \/ ClosePr(b) \/ MergePr(b) \/ DeleteBranch(b) \/ Move(b) \/ Refuse(b)
  \/ \E b \in Branch, f \in Branch \cup LongLived : MergeIn(b, f) \/ OpenPr(b, f)
  \/ Compute \/ ComputeFails \/ Restart

Spec == Init /\ [][Next]_vars

-----------------------------------------------------------------------------

HasWork(commit, c) == c # 0 /\ c \in commits[commit].work

(* An edge that a compute shows as landed tells the truth: the target      *)
(* holds the change of the shared commit, merged or squashed; or, if the   *)
(* dependency's branch was merged and deleted, whatever that last held.    *)
Lands ==
  Compute => \A b \in Branch : \A e \in rows'[b].needs :
    e.state = "landed" /\ e.mb # 0 =>
      \/ HasWork(tips[e.target], e.mb)
      \/ MergedGone(e.dep, rows'[e.dep]) /\ HasWork(tips[e.target], rows'[e.dep].head)
LandedIsThere == [][Lands]_vars

(* b holds the commit by which a's work of today reached b's target.       *)
HasWhatLanded(facts, b, a) ==
  There(facts[b].target) /\ MergedInto(facts[b], Reached(facts[a], facts[b].target))

(* However branches are rewritten, merged and deleted, a compute drops     *)
(* what b needs only when b no longer has that change for itself: its      *)
(* branch left it behind, or a long-lived branch has it too; when b has    *)
(* merged what a's work landed as; when a merged branch of the two is      *)
(* deleted; or when a's now builds on b's.                                 *)
Keeps ==
  Compute => \A b \in DOMAIN rows : \A e \in rows[b].needs :
    \/ status[b] = "cancelled"
    \/ \E x \in rows'[b].needs \cup rows'[b].shares : x.dep = e.dep
    \/ \E x \in {b, e.dep} \cap Branch : MergedGone(x, rows'[x])
    \/ e.dep \in Branch /\ (BuildsOn(rows', e.dep, b) \/ \E x \in rows'[e.dep].needs : x.dep = b)
    \/ e.dep \in Branch /\ HasWhatLanded(rows', b, e.dep)
    \/ e.mb = 0 \/ rows'[b].head = 0 \/ ~Holds(rows'[b].head, e.mb)
    \/ \E f \in LongLived : There(f) /\ Holds(tips[f], e.mb)
NoEdgeVanishes == [][Keeps]_vars

(* A compute that is skipped would have found what is stored, unless       *)
(* GitHub failed since.                                                    *)
SkippedIsKnown ==
  Skips /\ (\A b \in DOMAIN rows : ~rows[b].error) => NewRows = rows

(* A row that needs no new compute has no branch wait for what its target  *)
(* holds: a merged PR carried the shared commits, and its merge is there.   *)
LandedIsSeen ==
  Skips => \A b \in DOMAIN rows : \A e \in rows[b].needs :
    e.state = "waiting" /\ e.dep \in Branch /\ e.mb # 0 =>
      ~\E n \in PrsOf(e.dep) : /\ prs[n].state = "merged" /\ Holds(prs[n].head, e.mb)
                               /\ Holds(tips[e.target], prs[n].merge)
=============================================================================
