---------------------------- MODULE GitFactsProofs ----------------------------
(***************************************************************************)
(* What computes of a repo's facts store: an edge that is shown as landed  *)
(* tells the truth, what a branch needs is dropped for a reason, and a     *)
(* compute that is skipped would have stored what is stored.               *)
(* Proved for any branches, and any number of commits, PRs, computes and   *)
(* failures.                                                               *)
(***************************************************************************)
EXTENDS GitFacts, FiniteSetTheorems, SequenceTheorems, WellFoundedInduction, TLAPS

-----------------------------------------------------------------------------
(* Shapes.                                                                 *)

Names  == Branch \cup LongLived
Made   == 1..Len(commits)
Commit == [anc : SUBSET Nat, work : SUBSET Nat]
States == {"open", "closed", "merged"}
PrRow  == [of : Branch, base : Names, state : States, head : Nat, merge : Nat]
Statuses == {"open", "deferred", "cancelled"}

-----------------------------------------------------------------------------
(* The repo.                                                               *)

(* A commit holds its ancestors' work, and its own.                        *)
IsCommit(c, n) ==
  /\ c \in Commit /\ c.anc \subseteq 1..n /\ c.anc \subseteq c.work
CommitsOk ==
  /\ commits \in Seq(Commit) /\ Len(commits) >= 1
  /\ \A c \in Made : /\ c \in commits[c].anc
                     /\ IsCommit(commits[c], Len(commits))
                     /\ \A d \in commits[c].anc : commits[d].work \subseteq commits[c].work

TipsOk ==
  /\ tips \in [Names -> 0..Len(commits)]
  /\ \A f \in LongLived : There(f)

(* What a merge leaves holds the work of what was merged.                  *)
Carries(head, merge) ==
  head \in Made /\ merge \in Made /\ commits[head].work \subseteq commits[merge].work

PrsOk ==
  /\ prs \in Seq(PrRow)
  /\ \A n \in DOMAIN prs : /\ prs[n].state = "merged" => Carries(prs[n].head, prs[n].merge)
                           /\ prs[n].state = "open" => There(prs[n].of) /\ There(prs[n].base)

RepoInv == CommitsOk /\ TipsOk /\ PrsOk /\ status \in [Branch -> Statuses]

(* The commits there were are as they were, and no PR is gone.             *)
Grown ==
  /\ Len(commits') \in Nat /\ Len(commits) <= Len(commits')
  /\ \A c \in Made : commits'[c] = commits[c]
  /\ Len(prs') \in Nat /\ Len(prs) <= Len(prs')

(* A set of naturals has a least one.                                      *)
LEMMA LeastOfNaturals ==
  ASSUME NEW T, T \subseteq Nat, T # {}
  PROVE  \E x \in T : \A y \in T : x <= y
<1> DEFINE R == {ss \in Nat \X Nat : ss[1] < ss[2]}
<1>1. IsWellFoundedOn(R, Nat)
  BY NatLessThanWellFounded DEF OpToRel
<1>2. \A x, y \in Nat : <<y, x>> \in R <=> y < x
  BY SMT
<1> HIDE DEF R
<1>3. PICK x \in T : \A y \in T : ~(<<y, x>> \in R)
  BY <1>1, WFMin
<1>4. ASSUME NEW y \in T PROVE x <= y
  <2>1. x \in Nat /\ y \in Nat /\ ~(<<y, x>> \in R)
    BY <1>3
  <2>2. ~(y < x)
    BY <1>2, <2>1
  <2> QED
    BY <2>1, <2>2
<1> QED
  BY <1>4

(* A bounded set of naturals has a greatest one.                           *)
LEMMA GreatestIs ==
  ASSUME NEW n \in Nat, NEW S, S \subseteq 0..n, S # {}
  PROVE  MaxOf(S) \in S /\ \A m \in S : m <= MaxOf(S)
<1> DEFINE T == {k \in 0..n : \A x \in S : x <= k}
<1>1. n \in T
  OBVIOUS
<1>2. T \subseteq Nat /\ T # {}
  BY <1>1
<1>3. PICK k \in T : \A y \in T : k <= y
  BY <1>2, LeastOfNaturals
<1>4. k \in S
  <2> SUFFICES ASSUME k \notin S PROVE FALSE
    OBVIOUS
  <2>1. k \in 0..n /\ \A x \in S : x \in 0..n /\ x <= k /\ x # k
    BY <1>3
  <2>2. \A x \in S : x <= k - 1
    BY <2>1
  <2>3. k # 0
    <3>1. PICK x \in S : x \in 0..n /\ x <= k /\ x # k
      BY <2>1
    <3> QED
      BY <2>1, <3>1
  <2>4. k - 1 \in T
    BY <2>1, <2>2, <2>3
  <2> QED
    BY <1>3, <2>1, <2>4
<1>5. \A m \in S : m <= k
  BY <1>3
<1> QED
  BY <1>4, <1>5 DEF MaxOf

-----------------------------------------------------------------------------
(* People's steps keep the repo.                                           *)

LEMMA InitRepo == ASSUME RepoAssumption, Init PROVE RepoInv
<1>1. Main \in LongLived
  BY DEF RepoAssumption
<1>2. commits = <<[anc |-> {1}, work |-> {1}]>> /\ Len(commits) = 1 /\ commits[1] = [anc |-> {1}, work |-> {1}]
  BY DEF Init
<1>3. CommitsOk
  <2>1. [anc |-> {1}, work |-> {1}] \in Commit
    BY DEF Commit
  <2>2. commits \in Seq(Commit)
    BY <1>2, <2>1
  <2>3. Made = {1} /\ {1} \subseteq 1..1
    BY <1>2 DEF Made
  <2>4. IsCommit(commits[1], Len(commits)) /\ commits[1].anc = {1} /\ commits[1].work = {1}
    BY <1>2, <2>1, <2>3 DEF IsCommit
  <2> QED
    BY <1>2, <2>2, <2>3, <2>4 DEF CommitsOk
<1>4. TipsOk
  BY <1>2 DEF Init, TipsOk, Names, There
<1>5. prs = <<>> /\ status \in [Branch -> Statuses]
  BY DEF Init, Statuses
<1>6. PrsOk
  <2>1. prs \in Seq(PrRow) /\ DOMAIN prs = {}
    BY <1>5
  <2> QED
    BY <2>1 DEF PrsOk
<1> QED
  BY <1>3, <1>4, <1>5, <1>6 DEF RepoInv

(* What commits of the repo are.                                           *)
LEMMA CommitHas ==
  ASSUME CommitsOk, NEW c \in Made
  PROVE  /\ Len(commits) \in Nat /\ commits[c] \in Commit
         /\ commits[c].anc \subseteq Made /\ commits[c].anc \subseteq commits[c].work
         /\ commits[c].work \subseteq Nat
         /\ c \in commits[c].anc
         /\ \A d \in commits[c].anc : commits[d].work \subseteq commits[c].work
  BY DEF CommitsOk, IsCommit, Made, Commit

(* A branch that is there has a commit.                                    *)
LEMMA TipIsMade ==
  ASSUME TipsOk, CommitsOk, NEW b \in Names, There(b)
  PROVE  tips[b] \in Made
  BY DEF TipsOk, CommitsOk, There, Made

(* A new commit on top of others.                                          *)
LEMMA NewTipKeeps ==
  ASSUME RepoInv, NEW b \in Names, NEW anc, NEW work, NewTip(b, anc, work),
         anc \subseteq Made, work \in SUBSET Nat, anc \subseteq work,
         \A d \in anc : commits[d].work \subseteq work
  PROVE  /\ CommitsOk' /\ TipsOk' /\ Len(commits) <= Len(commits')
         /\ \A k \in Made : commits'[k] = commits[k]
         /\ New \in Made' /\ commits'[New].work = work \cup {New}
         /\ \A f \in Names : There(f) => There(f)'
<1> DEFINE n == Len(commits)
           c == [anc |-> anc \cup {New}, work |-> work \cup {New}]
<1>1. n \in Nat /\ n >= 1 /\ New = n + 1 /\ commits \in Seq(Commit) /\ Made = 1..n
  BY DEF RepoInv, CommitsOk, New, Made
<1>2. commits' = Append(commits, c) /\ tips' = [tips EXCEPT ![b] = New]
  BY DEF NewTip
<1>3. c \in Commit
  <2>1. New \in Nat /\ anc \subseteq Nat /\ work \subseteq Nat
    BY <1>1
  <2> HIDE DEF New
  <2> QED
    BY <2>1 DEF Commit
<1>4. /\ commits' \in Seq(Commit) /\ Len(commits') = n + 1
      /\ \A k \in 1..n : commits'[k] = commits[k]
      /\ commits'[n + 1] = c
  BY <1>1, <1>2, <1>3, AppendProperties
<1>5. Made' = 1..(n + 1) /\ Made' = Made \cup {New}
  BY <1>1, <1>4 DEF Made
<1>6. CommitsOk'
  <2>1. ASSUME NEW k \in Made
        PROVE  /\ k \in commits'[k].anc /\ IsCommit(commits'[k], n + 1)
               /\ \A d \in commits'[k].anc : commits'[d].work \subseteq commits'[k].work
    <3>1. commits'[k] = commits[k] /\ 1..n \subseteq 1..(n + 1)
      BY <1>1, <1>4
    <3>2. IsCommit(commits[k], n) /\ k \in commits[k].anc
      BY <2>1 DEF RepoInv, CommitsOk
    <3>3. IsCommit(commits'[k], n + 1)
      BY <3>1, <3>2 DEF IsCommit
    <3>4. ASSUME NEW d \in commits[k].anc PROVE commits'[d].work \subseteq commits'[k].work
      <4>1. d \in 1..n /\ commits[d].work \subseteq commits[k].work
        BY <1>1, <2>1, <3>4, CommitHas DEF RepoInv
      <4> QED
        BY <1>4, <3>1, <4>1
    <3> QED
      BY <3>1, <3>2, <3>3, <3>4
  <2>2. /\ New \in commits'[New].anc /\ IsCommit(commits'[New], n + 1)
        /\ \A d \in commits'[New].anc : commits'[d].work \subseteq commits'[New].work
    <3>1. commits'[New] = c
      BY <1>1, <1>4
    <3>2. c.anc = anc \cup {New} /\ c.work = work \cup {New}
      OBVIOUS
    <3>3. c.anc \subseteq 1..(n + 1)
      <4>1. anc \subseteq 1..n /\ New \in 1..(n + 1) /\ 1..n \subseteq 1..(n + 1)
        BY <1>1
      <4> QED
        BY <3>2, <4>1
    <3> HIDE DEF c
    <3>4. IsCommit(c, n + 1)
      BY <1>3, <3>2, <3>3 DEF IsCommit
    <3>5. ASSUME NEW d \in anc PROVE commits'[d].work \subseteq c.work
      <4>1. commits'[d] = commits[d]
        BY <1>1, <1>4, <3>5
      <4> QED
        BY <3>2, <4>1
    <3> QED
      BY <3>1, <3>2, <3>4, <3>5
  <2>3. \A k \in Made' : /\ k \in commits'[k].anc /\ IsCommit(commits'[k], n + 1)
                         /\ \A d \in commits'[k].anc : commits'[d].work \subseteq commits'[k].work
    BY <1>5, <2>1, <2>2
  <2> QED
    BY <1>1, <1>4, <2>3 DEF CommitsOk
<1>7. TipsOk' /\ \A f \in Names : There(f) => There(f)'
  <2>1. tips \in [Names -> 0..n] /\ \A f \in LongLived : tips[f] # 0
    BY DEF RepoInv, TipsOk, There
  <2>2. tips' \in [Names -> 0..(n + 1)]
    BY <1>1, <1>2, <2>1
  <2>3. \A f \in Names : tips[f] # 0 => tips'[f] # 0
    BY <1>1, <1>2, <2>1
  <2>4. LongLived \subseteq Names
    BY DEF Names
  <2> QED
    BY <1>4, <2>1, <2>2, <2>3, <2>4 DEF TipsOk, There
<1>8. Len(commits) <= Len(commits') /\ \A k \in Made : commits'[k] = commits[k]
  BY <1>1, <1>4
<1>9. commits'[New].work = work \cup {New}
  BY <1>1, <1>4
<1> QED
  BY <1>5, <1>6, <1>7, <1>8, <1>9

LEMMA CarriesStays ==
  ASSUME CommitsOk, Grown, NEW h, NEW m, Carries(h, m)
  PROVE  Carries(h, m)'
<1>1. h \in Made /\ m \in Made /\ h \in Made' /\ m \in Made'
  BY DEF Carries, Grown, Made, CommitsOk
<1>2. commits'[h] = commits[h] /\ commits'[m] = commits[m]
  BY <1>1 DEF Grown
<1> QED
  BY <1>1, <1>2 DEF Carries

(* PRs that are left alone stay what they are.                             *)
LEMMA PrsStay ==
  ASSUME RepoInv, Grown, prs' = prs, \A f \in Names : There(f) => There(f)'
  PROVE  PrsOk'
<1>1. prs \in Seq(PrRow) /\ \A n \in DOMAIN prs : prs[n] \in PrRow
  BY DEF RepoInv, PrsOk
<1>2. ASSUME NEW n \in DOMAIN prs, prs[n].state = "merged" PROVE Carries(prs[n].head, prs[n].merge)'
  <2>1. Carries(prs[n].head, prs[n].merge) /\ CommitsOk
    BY <1>2 DEF RepoInv, PrsOk
  <2>2. \A h, m : Carries(h, m) => Carries(h, m)'
    BY <2>1, CarriesStays
  <2>3. prs'[n] = prs[n]
    OBVIOUS
  <2> QED
    BY <2>1, <2>2, <2>3 DEF Carries
<1>3. ASSUME NEW n \in DOMAIN prs, prs[n].state = "open" PROVE There(prs[n].of)' /\ There(prs[n].base)'
  <2>1. prs[n].of \in Names /\ prs[n].base \in Names
    BY <1>1 DEF PrRow, Names
  <2>2. There(prs[n].of) /\ There(prs[n].base)
    BY <1>3 DEF RepoInv, PrsOk
  <2>3. prs'[n] = prs[n]
    OBVIOUS
  <2> QED
    BY <2>1, <2>2, <2>3 DEF There
<1> QED
  BY <1>1, <1>2, <1>3 DEF PrsOk

(* A step that only adds a commit.                                         *)
LEMMA CommitKeepsRepo ==
  ASSUME RepoInv, NEW b \in Names, NEW anc, NEW work, NewTip(b, anc, work), prs' = prs, status' = status,
         anc \subseteq Made, work \in SUBSET Nat, anc \subseteq work,
         \A d \in anc : commits[d].work \subseteq work
  PROVE  RepoInv' /\ Grown
<1>1. /\ CommitsOk' /\ TipsOk' /\ Len(commits) <= Len(commits')
      /\ \A k \in Made : commits'[k] = commits[k]
      /\ \A f \in Names : There(f) => There(f)'
  BY NewTipKeeps
<1>2. Len(commits') \in Nat /\ Len(prs) \in Nat
  BY <1>1 DEF CommitsOk, RepoInv, PrsOk
<1>3. Grown
  BY <1>1, <1>2 DEF Grown
<1>4. PrsOk'
  BY <1>1, <1>3, PrsStay
<1> QED
  BY <1>1, <1>3, <1>4 DEF RepoInv

LEMMA PushKeepsRepo == ASSUME RepoInv, NEW b \in Branch, Push(b) PROVE RepoInv' /\ Grown
<1>1. prs' = prs /\ status' = status /\ b \in Names /\ DOMAIN tips = Names
  BY DEF Push, Facts, Names, RepoInv, TipsOk
<1>2. PICK from \in Names : There(from) /\ NewTip(b, commits[tips[from]].anc, commits[tips[from]].work)
  BY <1>1 DEF Push
<1>3. tips[from] \in Made
  BY <1>2, TipIsMade DEF RepoInv
<1>4. /\ commits[tips[from]].anc \subseteq Made /\ commits[tips[from]].work \in SUBSET Nat
      /\ commits[tips[from]].anc \subseteq commits[tips[from]].work
      /\ \A d \in commits[tips[from]].anc : commits[d].work \subseteq commits[tips[from]].work
  BY <1>3, CommitHas DEF RepoInv
<1> QED
  BY <1>1, <1>2, <1>4, CommitKeepsRepo

LEMMA RewriteKeepsRepo == ASSUME RepoInv, NEW b \in Branch, Rewrite(b) PROVE RepoInv' /\ Grown
<1> DEFINE old == commits[tips[b]]
<1>1. prs' = prs /\ status' = status /\ b \in Names /\ There(b) /\ NewTip(b, old.anc \ {tips[b]}, old.work)
  BY DEF Rewrite, Facts, Names
<1>2. tips[b] \in Made
  BY <1>1, TipIsMade DEF RepoInv
<1>3. /\ old.anc \subseteq Made /\ old.work \in SUBSET Nat /\ old.anc \subseteq old.work
      /\ \A d \in old.anc : commits[d].work \subseteq old.work
  BY <1>2, CommitHas DEF RepoInv
<1> HIDE DEF old
<1> QED
  BY <1>1, <1>3, CommitKeepsRepo

LEMMA MergeInKeepsRepo ==
  ASSUME RepoInv, NEW b \in Branch, NEW from \in Names, MergeIn(b, from) PROVE RepoInv' /\ Grown
<1> DEFINE here  == commits[tips[b]]
           there == commits[tips[from]]
<1>1. prs' = prs /\ status' = status /\ b \in Names /\ There(b) /\ There(from)
  BY DEF MergeIn, Facts, Names
<1>2. tips[b] \in Made /\ tips[from] \in Made
  BY <1>1, TipIsMade DEF RepoInv
<1>3. /\ here.anc \subseteq Made /\ here.work \in SUBSET Nat /\ here.anc \subseteq here.work
      /\ \A d \in here.anc : commits[d].work \subseteq here.work
  BY <1>2, CommitHas DEF RepoInv
<1>4. /\ there.anc \subseteq Made /\ there.work \in SUBSET Nat /\ there.anc \subseteq there.work
      /\ \A d \in there.anc : commits[d].work \subseteq there.work
  BY <1>2, CommitHas DEF RepoInv
<1>5. CASE Holds(tips[from], tips[b])
  <2>1. tips' = [tips EXCEPT ![b] = tips[from]] /\ commits' = commits
    BY <1>5 DEF MergeIn
  <2>2. Len(commits) \in Nat /\ Len(prs) \in Nat
    BY DEF RepoInv, CommitsOk, PrsOk
  <2>3. Grown
    BY <1>1, <2>1, <2>2 DEF Grown
  <2>4. CommitsOk'
    BY <2>1 DEF RepoInv, CommitsOk, Made, IsCommit
  <2>5. tips \in [Names -> 0..Len(commits)] /\ tips[from] # 0
    BY <1>1 DEF RepoInv, TipsOk, There
  <2>6. tips' \in [Names -> 0..Len(commits)] /\ \A f \in Names : tips[f] # 0 => tips'[f] # 0
    BY <1>1, <2>1, <2>5
  <2>7. TipsOk' /\ \A f \in Names : There(f) => There(f)'
    BY <2>1, <2>6 DEF RepoInv, TipsOk, There, Names
  <2>8. PrsOk'
    BY <1>1, <2>3, <2>7, PrsStay
  <2> QED
    BY <1>1, <2>3, <2>4, <2>7, <2>8 DEF RepoInv
<1>6. CASE ~Holds(tips[from], tips[b])
  <2>1. NewTip(b, here.anc \cup there.anc, here.work \cup there.work)
    BY <1>6 DEF MergeIn
  <2> HIDE DEF here, there
  <2> DEFINE anc  == here.anc \cup there.anc
             work == here.work \cup there.work
  <2>2. /\ anc \subseteq Made /\ work \in SUBSET Nat /\ anc \subseteq work
        /\ \A d \in anc : commits[d].work \subseteq work
    BY <1>3, <1>4
  <2> HIDE DEF anc, work
  <2>3. NewTip(b, anc, work)
    BY <2>1 DEF anc, work
  <2> QED
    BY <1>1, <2>2, <2>3, CommitKeepsRepo
<1> QED
  BY <1>5, <1>6

(* A step on PRs that leaves the branches and commits alone.               *)
LEMMA PrStepKeepsRepo ==
  ASSUME RepoInv, tips' = tips, commits' = commits, status' = status, prs' \in Seq(PrRow), Len(prs) <= Len(prs'),
         \A n \in DOMAIN prs' : /\ prs'[n].state = "merged" => Carries(prs'[n].head, prs'[n].merge)
                                /\ prs'[n].state = "open" => There(prs'[n].of) /\ There(prs'[n].base)
  PROVE  RepoInv' /\ Grown
<1>1. CommitsOk'
  BY DEF RepoInv, CommitsOk, Made, IsCommit
<1>2. TipsOk'
  BY DEF RepoInv, TipsOk, There
<1>3. PrsOk'
  BY DEF PrsOk, Carries, There, Made
<1>4. Len(commits) \in Nat /\ Len(prs) \in Nat /\ Len(prs') \in Nat
  BY DEF RepoInv, CommitsOk, PrsOk
<1>5. Grown
  BY <1>4 DEF Grown
<1> QED
  BY <1>1, <1>2, <1>3, <1>5 DEF RepoInv

(* What the PRs of the repo are.                                           *)
LEMMA PrHas ==
  ASSUME RepoInv
  PROVE  /\ prs \in Seq(PrRow) /\ Len(prs) \in Nat /\ DOMAIN prs = 1..Len(prs)
         /\ \A n \in DOMAIN prs :
              /\ prs[n] \in PrRow
              /\ prs[n].of \in Branch /\ prs[n].base \in Names /\ prs[n].state \in States
              /\ prs[n].head \in Nat /\ prs[n].merge \in Nat
              /\ prs[n].state = "merged" => Carries(prs[n].head, prs[n].merge)
              /\ prs[n].state = "open" => There(prs[n].of) /\ There(prs[n].base)
<1>1. /\ prs \in Seq(PrRow) /\ Len(prs) \in Nat /\ DOMAIN prs = 1..Len(prs)
      /\ \A n \in DOMAIN prs : prs[n] \in PrRow
  BY DEF RepoInv, PrsOk
<1>2. \A r \in PrRow : /\ r.of \in Branch /\ r.base \in Names /\ r.state \in States
                       /\ r.head \in Nat /\ r.merge \in Nat
  BY DEF PrRow
<1> QED
  BY <1>1, <1>2 DEF RepoInv, PrsOk

LEMMA OpenPrKeepsRepo ==
  ASSUME RepoInv, NEW b \in Branch, NEW base \in Names, OpenPr(b, base) PROVE RepoInv' /\ Grown
<1> DEFINE pr == [of |-> b, base |-> base, state |-> "open", head |-> 0, merge |-> 0]
<1>1. /\ prs' = Append(prs, pr) /\ tips' = tips /\ commits' = commits /\ status' = status
      /\ There(b) /\ There(base)
  BY DEF OpenPr, Facts
<1>2. pr \in PrRow /\ pr.state = "open" /\ pr.of = b /\ pr.base = base
  BY DEF PrRow, States
<1> HIDE DEF pr
<1>3. /\ prs' \in Seq(PrRow) /\ Len(prs') = Len(prs) + 1 /\ DOMAIN prs' = DOMAIN prs \cup {Len(prs) + 1}
      /\ \A n \in DOMAIN prs : prs'[n] = prs[n]
      /\ prs'[Len(prs) + 1] = pr
  BY <1>1, <1>2, PrHas, AppendProperties
<1>4. \A n \in DOMAIN prs' : /\ prs'[n].state = "merged" => Carries(prs'[n].head, prs'[n].merge)
                             /\ prs'[n].state = "open" => There(prs'[n].of) /\ There(prs'[n].base)
  BY <1>1, <1>2, <1>3, PrHas
<1>5. Len(prs) <= Len(prs')
  BY <1>3, PrHas
<1> QED
  BY <1>1, <1>3, <1>4, <1>5, PrStepKeepsRepo

LEMMA ClosePrKeepsRepo == ASSUME RepoInv, NEW b \in Branch, ClosePr(b) PROVE RepoInv' /\ Grown
<1>1. PICK n \in OpenOf(b) : prs' = [prs EXCEPT ![n].state = "closed", ![n].head = tips[b]]
  BY DEF ClosePr
<1> DEFINE pr == [prs[n] EXCEPT !.state = "closed", !.head = tips[b]]
<1>2. tips' = tips /\ commits' = commits /\ status' = status /\ n \in 1..Len(prs) /\ tips[b] \in Nat
  BY <1>1, PrHas DEF ClosePr, Facts, OpenOf, RepoInv, TipsOk, Names, CommitsOk
<1>3. pr \in PrRow /\ pr.state = "closed"
  BY <1>2, PrHas DEF PrRow, States
<1>4. prs' = [prs EXCEPT ![n] = pr]
  BY <1>1
<1> HIDE DEF pr
<1>5. /\ prs' \in Seq(PrRow) /\ Len(prs') = Len(prs) /\ DOMAIN prs' = DOMAIN prs
      /\ \A m \in DOMAIN prs : prs'[m] = IF m = n THEN pr ELSE prs[m]
  BY <1>2, <1>3, <1>4, PrHas
<1>6. \A m \in DOMAIN prs' : /\ prs'[m].state = "merged" => Carries(prs'[m].head, prs'[m].merge)
                             /\ prs'[m].state = "open" => There(prs'[m].of) /\ There(prs'[m].base)
  BY <1>3, <1>5, PrHas
<1>7. Len(prs) <= Len(prs')
  BY <1>5, PrHas
<1> QED
  BY <1>2, <1>5, <1>6, <1>7, PrStepKeepsRepo

LEMMA MergePrKeepsRepo == ASSUME RepoInv, NEW b \in Branch, MergePr(b) PROVE RepoInv' /\ Grown
<1> PICK n \in OpenOf(b), squashed \in BOOLEAN :
      LET base == prs[n].base
          here == commits[tips[base]]
          head == commits[tips[b]]
      IN  /\ ~Holds(tips[base], tips[b])
          /\ NewTip(base, IF squashed THEN here.anc ELSE here.anc \cup head.anc, here.work \cup head.work)
          /\ prs' = [prs EXCEPT ![n] = [@ EXCEPT !.state = "merged", !.head = tips[b], !.merge = New]]
  BY DEF MergePr
<1> DEFINE base == prs[n].base
           here == commits[tips[base]]
           head == commits[tips[b]]
           anc  == IF squashed THEN here.anc ELSE here.anc \cup head.anc
           work == here.work \cup head.work
           pr   == [prs[n] EXCEPT !.state = "merged", !.head = tips[b], !.merge = New]
<1>1. /\ n \in 1..Len(prs) /\ n \in DOMAIN prs /\ prs[n].of = b /\ prs[n].state = "open"
      /\ b \in Names /\ base \in Names /\ There(b) /\ There(base) /\ prs[n] \in PrRow
  BY PrHas DEF OpenOf, Names
<1>2. tips[b] \in Made /\ tips[base] \in Made
  <2> HIDE DEF base
  <2> QED
    BY <1>1, TipIsMade DEF RepoInv
<1>3. NewTip(base, anc, work) /\ prs' = [prs EXCEPT ![n] = pr] /\ status' = status
  BY DEF MergePr, Facts
<1>4. /\ here.anc \subseteq Made /\ here.work \in SUBSET Nat /\ here.anc \subseteq here.work
      /\ \A d \in here.anc : commits[d].work \subseteq here.work
  BY <1>2, CommitHas DEF RepoInv
<1>5. /\ head.anc \subseteq Made /\ head.work \in SUBSET Nat /\ head.anc \subseteq head.work
      /\ \A d \in head.anc : commits[d].work \subseteq head.work
  BY <1>2, CommitHas DEF RepoInv
<1>6. /\ anc \subseteq Made /\ work \in SUBSET Nat /\ anc \subseteq work
      /\ \A d \in anc : commits[d].work \subseteq work
  <2> HIDE DEF here, head
  <2>1. CASE squashed
    BY <1>4, <1>5, <2>1
  <2>2. CASE ~squashed
    BY <1>4, <1>5, <2>2
  <2> QED
    BY <2>1, <2>2
<1>7. New \in Nat /\ tips[b] \in Nat
  BY <1>2 DEF New, RepoInv, CommitsOk, Made
<1>8. pr \in PrRow /\ pr.state = "merged" /\ pr.head = tips[b] /\ pr.merge = New
  BY <1>1, <1>7 DEF PrRow, States
<1> HIDE DEF pr
<1>9. /\ prs' \in Seq(PrRow) /\ Len(prs') = Len(prs) /\ DOMAIN prs' = DOMAIN prs
      /\ \A m \in DOMAIN prs : prs'[m] = IF m = n THEN pr ELSE prs[m]
  BY <1>1, <1>3, <1>8, PrHas
<1> HIDE DEF anc, work, base
<1>10. /\ CommitsOk' /\ TipsOk' /\ Len(commits) <= Len(commits')
       /\ \A k \in Made : commits'[k] = commits[k]
       /\ New \in Made' /\ commits'[New].work = work \cup {New}
       /\ \A f \in Names : There(f) => There(f)'
  BY <1>1, <1>3, <1>6, NewTipKeeps
<1>11. Grown
  BY <1>9, <1>10, PrHas DEF Grown, RepoInv, CommitsOk
<1>12. \A h, m : h = tips[b] /\ m = New => Carries(h, m)'
  <2>1. tips[b] \in Made' /\ commits'[tips[b]] = head
    BY <1>2, <1>10 DEF Made, RepoInv, CommitsOk
  <2>2. head.work \subseteq commits'[New].work
    BY <1>10 DEF work
  <2> QED
    BY <1>10, <2>1, <2>2, <1>3 DEF Carries
<1>13. PrsOk'
  <2>1. \A h, m : Carries(h, m) => Carries(h, m)'
    BY <1>11, CarriesStays DEF RepoInv
  <2>2. ASSUME NEW m \in DOMAIN prs', prs'[m].state = "merged" PROVE Carries(prs[m].head, prs[m].merge)'
    <3>1. CASE m = n
      BY <1>8, <1>9, <1>12, <3>1 DEF Carries
    <3>2. CASE m # n
      <4>1. Carries(prs[m].head, prs[m].merge) /\ prs'[m] = prs[m]
        BY <1>9, <2>2, <3>2, PrHas
      <4> QED
        BY <2>1, <4>1 DEF Carries
    <3> QED
      BY <3>1, <3>2
  <2>3. ASSUME NEW m \in DOMAIN prs', prs'[m].state = "open" PROVE There(prs[m].of)' /\ There(prs[m].base)'
    <3>1. m # n /\ prs'[m] = prs[m] /\ m \in DOMAIN prs
      BY <1>8, <1>9, <2>3
    <3>2. /\ There(prs[m].of) /\ There(prs[m].base)
          /\ prs[m].of \in Names /\ prs[m].base \in Names
      BY <2>3, <3>1, PrHas DEF Names
    <3> QED
      BY <1>10, <3>1, <3>2 DEF There
  <2> QED
    BY <1>9, <2>2, <2>3 DEF PrsOk
<1> QED
  BY <1>3, <1>10, <1>11, <1>13 DEF RepoInv

LEMMA DeleteKeepsRepo == ASSUME RepoAssumption, RepoInv, NEW b \in Branch, DeleteBranch(b) PROVE RepoInv' /\ Grown
<1> DEFINE merged == {n \in DOMAIN prs : prs[n].of = b /\ prs[n].state = "merged"}
           went   == IF merged = {} THEN b ELSE prs[MaxOf(merged)].base
           After(n) ==
             IF prs[n].state # "open" \/ b \notin {prs[n].of, prs[n].base} THEN prs[n]
             ELSE IF prs[n].of # b /\ went \notin {b, prs[n].of} /\ There(went)
             THEN [prs[n] EXCEPT !.base = went]
             ELSE [prs[n] EXCEPT !.state = "closed", !.head = tips[prs[n].of]]
<1>1. prs' = [n \in DOMAIN prs |-> After(n)] /\ tips' = [tips EXCEPT ![b] = 0] /\ commits' = commits /\ status' = status
  BY DEF DeleteBranch, Facts
<1>2. went \in Names
  <2>1. CASE merged = {}
    BY <2>1 DEF Names
  <2>2. CASE merged # {}
    <3>1. merged \subseteq DOMAIN prs /\ merged \subseteq 0..Len(prs) /\ Len(prs) \in Nat
      BY PrHas
    <3> HIDE DEF merged
    <3>2. MaxOf(merged) \in merged
      BY <2>2, <3>1, GreatestIs
    <3> QED
      BY <2>2, <3>1, <3>2, PrHas
  <2> QED
    BY <2>1, <2>2
<1> HIDE DEF went
<1>3. b \in Names /\ b \notin LongLived /\ tips \in [Names -> Nat] /\ tips' \in [Names -> 0..Len(commits)]
  <2>1. tips \in [Names -> 0..Len(commits)] /\ Len(commits) \in Nat
    BY DEF RepoInv, TipsOk, CommitsOk
  <2>2. 0..Len(commits) \subseteq Nat /\ 0 \in 0..Len(commits)
    BY <2>1
  <2>3. tips' \in [Names -> 0..Len(commits)]
    BY <1>1, <2>1, <2>2
  <2>4. tips \in [Names -> Nat]
    BY <2>1, <2>2
  <2> QED
    BY <2>3, <2>4 DEF Names, RepoAssumption
<1>4. tips'[b] = 0 /\ \A f \in Names : f # b => tips'[f] = tips[f]
  BY <1>1, <1>3
<1>5. ASSUME NEW n \in DOMAIN prs
      PROVE  /\ After(n) \in PrRow
             /\ After(n).state = "merged" => Carries(After(n).head, After(n).merge)
             /\ After(n).state = "open" => tips'[After(n).of] # 0 /\ tips'[After(n).base] # 0
  <2>1. /\ prs[n] \in PrRow /\ prs[n].of \in Names /\ prs[n].base \in Names /\ tips[prs[n].of] \in Nat
        /\ prs[n].state = "merged" => Carries(prs[n].head, prs[n].merge)
        /\ prs[n].state = "open" => There(prs[n].of) /\ There(prs[n].base)
    BY <1>3, PrHas DEF Names
  <2>2. CASE prs[n].state # "open" \/ b \notin {prs[n].of, prs[n].base}
    <3>1. After(n) = prs[n]
      BY <2>2
    <3> QED
      BY <1>4, <2>1, <2>2, <3>1 DEF There
  <2>3. CASE /\ prs[n].state = "open" /\ b \in {prs[n].of, prs[n].base}
             /\ prs[n].of # b /\ went \notin {b, prs[n].of} /\ There(went)
    <3>1. After(n) = [prs[n] EXCEPT !.base = went]
      BY <2>3
    <3> HIDE DEF After
    <3>2. After(n) \in PrRow /\ After(n).state = "open" /\ After(n).of = prs[n].of /\ After(n).base = went
      BY <1>2, <2>1, <2>3, <3>1 DEF PrRow
    <3> QED
      BY <1>2, <1>4, <2>1, <2>3, <3>2 DEF There
  <2>4. CASE /\ prs[n].state = "open" /\ b \in {prs[n].of, prs[n].base}
             /\ ~(prs[n].of # b /\ went \notin {b, prs[n].of} /\ There(went))
    <3>1. After(n) = [prs[n] EXCEPT !.state = "closed", !.head = tips[prs[n].of]]
      BY <2>4
    <3> HIDE DEF After
    <3>2. After(n) \in PrRow /\ After(n).state = "closed"
      BY <2>1, <3>1 DEF PrRow, States
    <3> QED
      BY <3>2
  <2> QED
    BY <2>2, <2>3, <2>4
<1> HIDE DEF After
<1>6. prs' \in Seq(PrRow) /\ Len(prs') = Len(prs) /\ DOMAIN prs' = DOMAIN prs /\ \A n \in DOMAIN prs : prs'[n] = After(n)
  <2>1. DOMAIN prs = 1..Len(prs) /\ Len(prs) \in Nat
    BY PrHas
  <2>2. prs' \in [1..Len(prs) -> PrRow]
    BY <1>1, <1>5, <2>1
  <2>3. prs' \in Seq(PrRow)
    BY <2>1, <2>2, SeqDef
  <2> QED
    BY <1>1, <2>1, <2>2, <2>3
<1>7. CommitsOk'
  BY <1>1 DEF RepoInv, CommitsOk, Made, IsCommit
<1>8. TipsOk'
  <2>1. \A f \in LongLived : f \in Names /\ f # b /\ tips[f] # 0
    BY <1>3 DEF Names, RepoInv, TipsOk, There
  <2> QED
    BY <1>1, <1>3, <1>4, <2>1 DEF TipsOk, There
<1>9. PrsOk'
  <2>1. \A h, m : Carries(h, m)' <=> Carries(h, m)
    BY <1>1 DEF Carries, Made
  <2>2. ASSUME NEW n \in DOMAIN prs'
        PROVE  /\ prs'[n].state = "merged" => Carries(prs[n].head, prs[n].merge)'
               /\ prs'[n].state = "open" => There(prs[n].of)' /\ There(prs[n].base)'
    <3>1. n \in DOMAIN prs /\ prs'[n] = After(n)
      BY <1>6
    <3> QED
      BY <1>5, <2>1, <3>1 DEF There, Carries
  <2> QED
    BY <1>6, <2>2 DEF PrsOk
<1>10. Grown
  BY <1>1, <1>6, PrHas DEF Grown, RepoInv, CommitsOk
<1> QED
  BY <1>1, <1>7, <1>8, <1>9, <1>10 DEF RepoInv

LEMMA MoveKeepsRepo == ASSUME RepoInv, NEW b \in Branch, Move(b) PROVE RepoInv' /\ Grown
<1>1. tips' = tips /\ commits' = commits /\ prs' = prs
  BY DEF Move, remote
<1>2. PICK s \in Statuses : status' = [status EXCEPT ![b] = s]
  BY DEF Move, Statuses
<1>3. status' \in [Branch -> Statuses]
  BY <1>2 DEF RepoInv
<1>4. CommitsOk' /\ TipsOk' /\ PrsOk'
  BY <1>1 DEF RepoInv, CommitsOk, Made, IsCommit, TipsOk, There, PrsOk, Carries
<1>5. Grown
  BY <1>1, PrHas DEF Grown, RepoInv, CommitsOk
<1> QED
  BY <1>3, <1>4, <1>5 DEF RepoInv

(* Nor do computes and what befalls the server touch it.                   *)
LEMMA RemoteStays ==
  ASSUME RepoInv, UNCHANGED <<remote, status>> PROVE RepoInv' /\ Grown
<1>1. tips' = tips /\ commits' = commits /\ prs' = prs /\ status' = status
  BY DEF remote
<1>2. CommitsOk' /\ TipsOk' /\ PrsOk'
  BY <1>1 DEF RepoInv, CommitsOk, Made, IsCommit, TipsOk, There, PrsOk, Carries
<1>3. Grown
  BY <1>1, PrHas DEF Grown, RepoInv, CommitsOk
<1> QED
  BY <1>1, <1>2, <1>3 DEF RepoInv

-----------------------------------------------------------------------------
(* What is stored.                                                         *)

Fields == {"head", "pr", "prs", "prHead", "chain", "orphan", "target", "needs", "shares", "error"}
EdgeFields == {"dep", "state", "mb", "chain", "target"}
ShareFields == {"dep", "mb", "landing", "state"}

(* A PR as it was read: if it was merged, its merge holds what it had.     *)
KnownPr(p) ==
  /\ p.n \in 1..Len(prs) /\ p.base \in Names
  /\ p.state = "merged" => Carries(p.head, p.merge)

(* What is known of a branch.                                              *)
FactOk(r) ==
  /\ DOMAIN r = Fields
  /\ r.head \in 0..Len(commits)
  /\ r.pr = None \/ KnownPr(r.pr)
  /\ \A p \in r.prs : KnownPr(p)

(* The branches a chain goes through are other items'.                     *)
ChainOk(b, chain) == chain \in Seq(Branch \ {b})

(* Its edges name other branches, and commits only of items' branches.     *)
RowOk(b, r) ==
  /\ FactOk(r)
  /\ r.target \in LongLived /\ ChainOk(b, r.chain)
  /\ \A e \in r.needs : DOMAIN e = EdgeFields /\ e.dep # b /\ (e.dep \notin Branch => e.mb = 0)
  /\ \A s \in r.shares : DOMAIN s = ShareFields /\ s.dep \in Branch

RowsOk == DOMAIN rows \subseteq Branch /\ \A b \in DOMAIN rows : RowOk(b, rows[b])

LEMMA NoRowOk == ASSUME RepoAssumption, RepoInv, NEW b PROVE RowOk(b, NoRow)
  BY EmptySeq DEF RowOk, FactOk, NoRow, Fields, ChainOk, RepoAssumption, RepoInv, CommitsOk

LEMMA OldOk == ASSUME RepoAssumption, RepoInv, RowsOk, NEW b PROVE RowOk(b, Old(b))
<1>1. CASE b \in DOMAIN rows
  BY <1>1 DEF RowsOk, Old
<1>2. CASE b \notin DOMAIN rows
  BY <1>2, NoRowOk DEF Old
<1> QED
  BY <1>1, <1>2

LEMMA KnownPrStays == ASSUME RepoInv, Grown, NEW p, KnownPr(p) PROVE KnownPr(p)'
<1>1. p.n \in 1..Len(prs')
  BY PrHas DEF KnownPr, Grown
<1>2. \A h, m : Carries(h, m) => Carries(h, m)'
  BY CarriesStays DEF RepoInv
<1> QED
  BY <1>1, <1>2 DEF KnownPr, Names

LEMMA FactStays == ASSUME RepoInv, Grown, NEW r, FactOk(r) PROVE FactOk(r)'
<1>1. \A p : KnownPr(p) => KnownPr(p)'
  BY KnownPrStays
<1>2. r.head \in 0..Len(commits')
  BY DEF FactOk, Grown, RepoInv, CommitsOk
<1> QED
  BY <1>1, <1>2 DEF FactOk

LEMMA RowsStay == ASSUME RepoInv, RowsOk, Grown, rows' = rows PROVE RowsOk'
<1>1. \A r : FactOk(r) => FactOk(r)'
  BY FactStays
<1>2. ASSUME NEW b \in DOMAIN rows PROVE RowOk(b, rows[b])'
  <2>1. RowOk(b, rows[b])
    BY DEF RowsOk
  <2>2. FactOk(rows[b])'
    BY <1>1, <2>1 DEF RowOk, FactOk, KnownPr, Carries, Made
  <2> QED
    BY <2>1, <2>2 DEF RowOk
<1> QED
  BY <1>2 DEF RowsOk

(* A PR as it is read now.                                                 *)
LEMMA PrIsKnown == ASSUME RepoInv, NEW n \in DOMAIN prs PROVE KnownPr(Pr(n)) /\ Pr(n).n = n
<1>1. /\ n \in 1..Len(prs) /\ prs[n].base \in Names
      /\ prs[n].state = "merged" => Carries(prs[n].head, prs[n].merge)
  BY PrHas
<1>2. /\ Pr(n).n = n /\ Pr(n).base = prs[n].base /\ Pr(n).state = prs[n].state /\ Pr(n).merge = prs[n].merge
      /\ prs[n].state = "merged" => Pr(n).head = prs[n].head
  BY DEF Pr
<1> QED
  BY <1>1, <1>2 DEF KnownPr

LEMMA CurrentIsKnown == ASSUME RepoInv, NEW b PROVE Current(b) = None \/ KnownPr(Current(b))
<1> DEFINE S == IF OpenOf(b) # {} THEN OpenOf(b) ELSE PrsOf(b)
<1>1. CASE PrsOf(b) = {}
  BY <1>1 DEF Current
<1>2. CASE PrsOf(b) # {}
  <2>1. S # {} /\ S \subseteq DOMAIN prs /\ S \subseteq 0..Len(prs) /\ Len(prs) \in Nat
    BY <1>2, PrHas DEF OpenOf, PrsOf
  <2>2. Current(b) = Pr(MaxOf(S))
    BY <1>2 DEF Current
  <2> HIDE DEF S
  <2>3. MaxOf(S) \in DOMAIN prs
    BY <2>1, GreatestIs
  <2> QED
    BY <2>2, <2>3, PrIsKnown
<1> QED
  BY <1>1, <1>2

(* What a compute finds out about a branch.                                *)
LEMMA BranchFactOk ==
  ASSUME RepoAssumption, RepoInv, RowsOk, NEW b \in Branch, NEW moved
  PROVE  FactOk(BranchFact(b, moved))
<1> DEFINE old  == Old(b)
           head == IF There(b) THEN tips[b] ELSE old.head
           row  == [NoRow EXCEPT !.head = head, !.pr = old.pr, !.prs = old.prs, !.prHead = old.prHead]
<1>1. FactOk(old)
  BY OldOk DEF RowOk
<1>2. head \in 0..Len(commits)
  BY <1>1 DEF FactOk, RepoInv, TipsOk, Names
<1>3. /\ DOMAIN row = Fields /\ row.head = head /\ row.pr = old.pr /\ row.prs = old.prs
  BY DEF NoRow, Fields
<1>4. FactOk(row)
  <2> HIDE DEF row, old, head
  <2> QED
    BY <1>1, <1>2, <1>3 DEF FactOk
<1>5. CASE AskAgain(old, head, moved)
  <2> DEFINE seen == {Pr(n) : n \in {m \in PrsOf(b) : prs[m].state # "closed"}}
             now  == [row EXCEPT !.pr = Current(b), !.prHead = head, !.prs = seen]
  <2>1. BranchFact(b, moved) = now
    BY <1>5 DEF BranchFact
  <2>2. \A p \in seen : KnownPr(p)
    BY PrIsKnown DEF PrsOf
  <2>3. Current(b) = None \/ KnownPr(Current(b))
    BY CurrentIsKnown
  <2> HIDE DEF row, seen
  <2>4. DOMAIN now = Fields /\ now.head = row.head /\ now.pr = Current(b) /\ now.prs = seen
    BY <1>3 DEF Fields
  <2> HIDE DEF now
  <2> QED
    BY <1>4, <2>1, <2>2, <2>3, <2>4 DEF FactOk
<1>6. CASE ~AskAgain(old, head, moved) /\ ClosedInto(old, moved)
  <2> DEFINE pr   == Pr(old.pr.n)
             seen == {p \in old.prs : p.n # old.pr.n} \cup (IF prs[old.pr.n].state = "merged" THEN {pr} ELSE {})
             now  == [row EXCEPT !.pr = pr, !.prs = seen]
  <2>1. BranchFact(b, moved) = now
    BY <1>6 DEF BranchFact
  <2>2. old.pr.n \in DOMAIN prs
    BY <1>1, <1>6, PrHas DEF FactOk, KnownPr, ClosedInto
  <2>3. KnownPr(pr)
    BY <2>2, PrIsKnown
  <2> HIDE DEF pr
  <2>4. \A p \in seen : KnownPr(p)
    BY <1>1, <2>3 DEF FactOk
  <2> HIDE DEF row, seen
  <2>5. DOMAIN now = Fields /\ now.head = row.head /\ now.pr = pr /\ now.prs = seen
    BY <1>3 DEF Fields
  <2> HIDE DEF now
  <2> QED
    BY <1>4, <2>1, <2>3, <2>4, <2>5 DEF FactOk
<1>7. CASE ~AskAgain(old, head, moved) /\ ~ClosedInto(old, moved)
  <2>1. BranchFact(b, moved) = row
    BY <1>7 DEF BranchFact
  <2> QED
    BY <1>4, <2>1
<1> QED
  BY <1>5, <1>6, <1>7

-----------------------------------------------------------------------------
(* The bases a branch's PR leads through.                                  *)

(* Facts by branch.                                                        *)
Known(facts) == \A b \in Branch : FactOk(facts[b])

(* g gives the chain after each of the first m steps from b.               *)
IsWalk(g, facts, b, m) == g = [n \in 0..m |-> IF n = 0 THEN <<>> ELSE Longer(facts, b, g[n - 1])]

(* The definition of ChainOf in those terms.                               *)
LEMMA ChainChooses ==
  ASSUME NEW facts, NEW b
  PROVE  ChainOf(facts, b) = (CHOOSE g : IsWalk(g, facts, b, Cardinality(Branch)))[Cardinality(Branch)]
  BY DEF ChainOf, IsWalk

LEMMA WalkSteps ==
  ASSUME NEW g, NEW facts, NEW b, NEW m \in Nat, IsWalk(g, facts, b, m)
  PROVE  DOMAIN g = 0..m /\ g[0] = <<>> /\ \A n \in 1..m : g[n] = Longer(facts, b, g[n - 1])
  BY DEF IsWalk

(* There is a walk of every length: each extends the one before it.        *)
LEMMA WalkExists == ASSUME NEW facts, NEW b, NEW m \in Nat PROVE \E g : IsWalk(g, facts, b, m)
<1> DEFINE Has(k) == \E g : IsWalk(g, facts, b, k)
           Lacking == {k \in Nat : ~Has(k)}
<1>1. Has(0)
  <2> DEFINE g == [n \in {0} |-> <<>>]
  <2>1. IsWalk(g, facts, b, 0)
    BY DEF IsWalk
  <2> QED
    BY <2>1
<1>2. ASSUME NEW k \in Nat, Has(k) PROVE Has(k + 1)
  <2>1. PICK g : IsWalk(g, facts, b, k)
    BY <1>2
  <2>2. DOMAIN g = 0..k /\ g[0] = <<>> /\ \A n \in 1..k : g[n] = Longer(facts, b, g[n - 1])
    BY <2>1, WalkSteps
  <2> DEFINE next == Longer(facts, b, g[k])
             h == [n \in 0..(k + 1) |-> IF n = k + 1 THEN next ELSE g[n]]
  <2>3. \A n \in 0..(k + 1) : h[n] = IF n = 0 THEN <<>> ELSE Longer(facts, b, h[n - 1])
    <3> TAKE n \in 0..(k + 1)
    <3>1. CASE n = 0
      BY <2>2, <3>1
    <3>2. CASE n = k + 1
      BY <3>2
    <3>3. CASE n \in 1..k
      <4>1. h[n] = g[n] /\ h[n - 1] = g[n - 1]
        BY <3>3
      <4> QED
        BY <2>2, <3>3, <4>1
    <3> QED
      BY <3>1, <3>2, <3>3
  <2>4. h = [n \in 0..(k + 1) |-> h[n]]
    OBVIOUS
  <2> HIDE DEF h
  <2>5. IsWalk(h, facts, b, k + 1)
    BY <2>3, <2>4 DEF IsWalk
  <2> QED
    BY <2>5
<1> HIDE DEF Has
<1>3. Lacking = {}
  <2> SUFFICES ASSUME Lacking # {} PROVE FALSE
    OBVIOUS
  <2>1. PICK x \in Lacking : \A y \in Lacking : x <= y
    BY LeastOfNaturals
  <2>2. x - 1 \in Nat /\ x - 1 \notin Lacking
    BY <1>1, <2>1
  <2> QED
    BY <1>2, <2>1, <2>2
<1>4. Has(m)
  BY <1>3
<1> QED
  BY <1>4 DEF Has

LEMMA LongerOk ==
  ASSUME NEW facts, NEW b, NEW chain, ChainOk(b, chain) PROVE ChainOk(b, Longer(facts, b, chain))
<1> DEFINE base == BaseOf(facts, LastOf(b, chain))
<1>1. CASE Owned(base) /\ base \notin Passed(b, chain) \cup Fixed
  <2>1. Longer(facts, b, chain) = Append(chain, base) /\ base \in Branch \ {b}
    BY <1>1 DEF Longer, Owned, Passed
  <2> HIDE DEF base
  <2> QED
    BY <2>1, AppendProperties DEF ChainOk
<1>2. CASE ~(Owned(base) /\ base \notin Passed(b, chain) \cup Fixed)
  BY <1>2 DEF Longer
<1> QED
  BY <1>1, <1>2

LEMMA ChainIsOk == ASSUME RepoAssumption, NEW facts, NEW b PROVE ChainOk(b, ChainOf(facts, b))
<1> DEFINE m == Cardinality(Branch)
           g == CHOOSE g : IsWalk(g, facts, b, m)
           Odd == {n \in 0..m : ~ChainOk(b, g[n])}
<1>1. m \in Nat
  BY FS_CardinalityType DEF RepoAssumption
<1> HIDE DEF m
<1>2. IsWalk(g, facts, b, m)
  BY <1>1, WalkExists
<1> HIDE DEF g
<1>3. g[0] = <<>> /\ \A n \in 1..m : g[n] = Longer(facts, b, g[n - 1])
  BY <1>1, <1>2, WalkSteps
<1>4. Odd = {}
  <2> SUFFICES ASSUME Odd # {} PROVE FALSE
    OBVIOUS
  <2>1. PICK x \in Odd : \A y \in Odd : x <= y
    <3>1. Odd \subseteq Nat
      BY <1>1
    <3> HIDE DEF Odd
    <3> QED
      BY <3>1, LeastOfNaturals
  <2>2. x # 0
    BY <1>3, <2>1, EmptySeq DEF ChainOk
  <2>3. x \in 1..m /\ x - 1 \in 0..m /\ x - 1 \notin Odd
    BY <1>1, <2>1, <2>2
  <2>4. ChainOk(b, g[x - 1])
    BY <2>3
  <2>5. ChainOk(b, g[x])
    BY <1>3, <2>3, <2>4, LongerOk
  <2> QED
    BY <2>1, <2>5
<1>5. ChainOk(b, g[m])
  BY <1>1, <1>4
<1> QED
  BY <1>5, ChainChooses DEF g, m

(* A chain starts at its branch and ends at an item's.                     *)
LEMMA LastIsBranch == ASSUME NEW b \in Branch, NEW chain, ChainOk(b, chain) PROVE LastOf(b, chain) \in Branch
<1>1. CASE chain = <<>>
  BY <1>1 DEF LastOf
<1>2. CASE chain # <<>>
  <2>1. Len(chain) \in 1..Len(chain) /\ chain \in Seq(Branch \ {b})
    BY <1>2, EmptySeq DEF ChainOk
  <2>2. chain[Len(chain)] \in Branch \ {b}
    BY <2>1, ElementOfSeq
  <2> QED
    BY <1>2, <2>2 DEF LastOf
<1> QED
  BY <1>1, <1>2

(* Where a branch goes: to a long-lived one; what it ends at is another's. *)
LEMMA FollowOk ==
  ASSUME RepoAssumption, RepoInv, NEW facts, Known(facts), NEW b \in Branch
  PROVE  LET t == Follow(facts, b) IN
         /\ DOMAIN t = {"target", "orphan", "chain"}
         /\ t.target \in LongLived /\ ChainOk(b, t.chain) /\ t.orphan # b
<1> DEFINE chain == ChainOf(facts, b)
           base  == BaseOf(facts, LastOf(b, chain))
           Ends(target, orphan) == [target |-> target, orphan |-> orphan, chain |-> chain]
<1>1. ChainOk(b, chain)
  BY ChainIsOk
<1>2. Fallback \in LongLived /\ Fixed \subseteq LongLived
  BY DEF RepoAssumption, Fallback, Fixed
<1> HIDE DEF chain
<1>3. LastOf(b, chain) \in Branch
  BY <1>1, LastIsBranch
<1>4. base \in Names \cup {None}
  BY <1>3 DEF Known, FactOk, KnownPr, BaseOf
<1>5. None # b
  BY DEF RepoAssumption
<1>6. Follow(facts, b) =
        IF base \in {None} \cup Passed(b, chain) THEN Ends(Fallback, None)
        ELSE IF base \in Fixed THEN Ends(base, None)
        ELSE IF There(base) /\ base \notin Branch THEN Ends(base, IF Track = {} THEN None ELSE base)
        ELSE Ends(Fallback, base)
  BY DEF Follow, chain
<1> HIDE DEF base
<1>7. b \in Passed(b, chain)
  BY DEF Passed
<1>8. CASE base \in {None} \cup Passed(b, chain)
  BY <1>1, <1>2, <1>5, <1>6, <1>8
<1>9. CASE base \notin {None} \cup Passed(b, chain) /\ base \in Fixed
  BY <1>1, <1>2, <1>5, <1>6, <1>9
<1>10. CASE base \notin {None} \cup Passed(b, chain) /\ base \notin Fixed /\ There(base) /\ base \notin Branch
  <2>1. base \in LongLived /\ base # b
    BY <1>4, <1>7, <1>10 DEF Names
  <2> QED
    BY <1>1, <1>5, <1>6, <1>10, <2>1
<1>11. CASE base \notin {None} \cup Passed(b, chain) /\ base \notin Fixed /\ ~(There(base) /\ base \notin Branch)
  BY <1>1, <1>2, <1>6, <1>7, <1>11
<1> QED
  BY <1>8, <1>9, <1>10, <1>11

-----------------------------------------------------------------------------
(* What a compute goes by, and what it stores.                             *)

Targeted(facts) ==
  \A b \in Branch : facts[b].target \in LongLived /\ ChainOk(b, facts[b].chain) /\ facts[b].orphan # b
FactsOk(facts) == Known(facts) /\ Targeted(facts)

Carried(facts, b) == UNION {CarriedEdge(facts, b, e) : e \in Lost(facts, b)}

FactsNow == WithTargets(Once([b \in Branch |-> BranchFact(b, Moved)]))

LEMMA OnceIsAll == ASSUME NEW f PROVE Once(f) = f
  BY DEF Once

(* Targets add three fields to what is known of a branch.                  *)
LEMMA TargetsAdd ==
  ASSUME RepoAssumption, RepoInv, NEW facts, Known(facts), NEW b \in Branch
  PROVE  LET now == WithTargets(facts) IN
         /\ DOMAIN now = Branch
         /\ DOMAIN now[b] = Fields
         /\ now[b].target = Follow(facts, b).target /\ now[b].orphan = Follow(facts, b).orphan
         /\ now[b].chain = Follow(facts, b).chain
         /\ now[b].head = facts[b].head /\ now[b].pr = facts[b].pr /\ now[b].prs = facts[b].prs
<1> DEFINE now == WithTargets(facts)
           t   == Follow(facts, b)
<1>1. DOMAIN now = Branch /\ now[b] = [facts[b] EXCEPT !.target = t.target, !.orphan = t.orphan, !.chain = t.chain]
  <2> DEFINE all == [c \in Branch |-> LET u == Follow(facts, c) IN
                       [facts[c] EXCEPT !.target = u.target, !.orphan = u.orphan, !.chain = u.chain]]
  <2>1. now = all
    <3>1. now = Once(all)
      BY DEF WithTargets
    <3> HIDE DEF now, all
    <3> QED
      BY <3>1, OnceIsAll
  <2> QED
    BY <2>1
<1>2. DOMAIN facts[b] = Fields
  BY DEF Known, FactOk
<1> HIDE DEF now, t
<1>3. /\ DOMAIN now[b] = Fields /\ now[b].target = t.target /\ now[b].orphan = t.orphan /\ now[b].chain = t.chain
      /\ now[b].head = facts[b].head /\ now[b].pr = facts[b].pr /\ now[b].prs = facts[b].prs
  BY <1>1, <1>2 DEF Fields
<1> QED
  BY <1>1, <1>3 DEF now, t

LEMMA FactsNowOk ==
  ASSUME RepoAssumption, RepoInv, RowsOk
  PROVE  FactsOk(FactsNow) /\ NewRows = [b \in Branch |-> NewRow(FactsNow, b)]
<1> DEFINE facts == [b \in Branch |-> BranchFact(b, Moved)]
<1>1. Known(facts)
  BY BranchFactOk DEF Known
<1>2. FactsNow = WithTargets(facts)
  BY OnceIsAll DEF FactsNow
<1> HIDE DEF facts
<1>3. Known(FactsNow)
  <2>1. ASSUME NEW b \in Branch PROVE FactOk(FactsNow[b])
    <3>1. FactOk(facts[b])
      BY <1>1 DEF Known
    <3> QED
      BY <1>1, <1>2, <3>1, TargetsAdd DEF FactOk
  <2> QED
    BY <2>1 DEF Known
<1>4. Targeted(FactsNow)
  BY <1>1, <1>2, TargetsAdd, FollowOk DEF Targeted
<1> QED
  BY <1>3, <1>4 DEF FactsOk, FactsNow, NewRows

LEMMA NewRowHas ==
  ASSUME NEW facts, FactsOk(facts), NEW b \in Branch
  PROVE  LET row == NewRow(facts, b) IN
         /\ DOMAIN row = Fields
         /\ row.head = facts[b].head /\ row.pr = facts[b].pr /\ row.prs = facts[b].prs
         /\ row.chain = facts[b].chain /\ row.target = facts[b].target
         /\ row.needs = IF status[b] = "cancelled" THEN {}
                        ELSE ChainEdges(facts, b) \cup PairEdges(facts, b) \cup Carried(facts, b)
         /\ row.shares = PairShares(facts, b)
                           \cup IF status[b] = "cancelled" THEN {} ELSE CarriedShares(facts, b)
<1> DEFINE needs == IF status[b] = "cancelled" THEN {}
                    ELSE ChainEdges(facts, b) \cup PairEdges(facts, b) \cup Carried(facts, b)
           shares == PairShares(facts, b) \cup IF status[b] = "cancelled" THEN {} ELSE CarriedShares(facts, b)
           row == NewRow(facts, b)
<1>1. row = [facts[b] EXCEPT !.needs = needs, !.shares = shares]
  BY DEF NewRow, Carried
<1>2. DOMAIN facts[b] = Fields
  BY DEF FactsOk, Known, FactOk
<1> HIDE DEF needs, shares, row
<1>3. /\ DOMAIN row = Fields /\ row.needs = needs /\ row.shares = shares
      /\ row.head = facts[b].head /\ row.pr = facts[b].pr /\ row.prs = facts[b].prs
      /\ row.chain = facts[b].chain /\ row.target = facts[b].target
  BY <1>1, <1>2 DEF Fields
<1> QED
  BY <1>3 DEF needs, shares, row

LEMMA EdgeHas ==
  ASSUME NEW facts, NEW b, NEW dep, NEW state, NEW mb, NEW chain
  PROVE  LET e == Edge(facts, b, dep, state, mb, chain) IN
         /\ DOMAIN e = EdgeFields /\ e.dep = dep /\ e.state = state /\ e.mb = mb /\ e.target = facts[b].target
  BY DEF Edge, EdgeFields

(* An edge by what two branches share names the newest of that.            *)
LEMMA CommitEdgeHas ==
  ASSUME NEW facts, NEW b, NEW a, NEW chain
  PROVE  LET e == CommitEdge(facts, b, a, chain) IN
         /\ DOMAIN e = EdgeFields /\ e.dep = a /\ e.target = facts[b].target
         /\ e.state = Resolve(facts, a, facts[b].target, e.mb)
  BY EdgeHas DEF CommitEdge

(* An edge of a chain names a branch of it, or what it ends at.            *)
LEMMA ChainEdgeHas ==
  ASSUME NEW facts, FactsOk(facts), NEW b \in Branch, NEW e \in ChainEdges(facts, b)
  PROVE  /\ DOMAIN e = EdgeFields /\ e.dep # b
         /\ \/ e.mb = 0
            \/ /\ e.dep \in Branch /\ Common(facts, b, e.dep) # {}
               /\ e = CommitEdge(facts, b, e.dep, TRUE)
<1> DEFINE goes == {facts[b].chain[i] : i \in DOMAIN facts[b].chain}
<1>1. goes \subseteq Branch \ {b} /\ facts[b].orphan # b
  <2>1. facts[b].chain \in Seq(Branch \ {b}) /\ facts[b].orphan # b
    BY DEF FactsOk, Targeted, ChainOk
  <2> QED
    BY <2>1, ElementOfSeq, LenProperties
<1>2. \/ \E a \in goes : e = IF Common(facts, b, a) # {} THEN CommitEdge(facts, b, a, TRUE)
                             ELSE Edge(facts, b, a, ChainState(facts, a, facts[b].target), 0, TRUE)
      \/ \E s : e = Edge(facts, b, facts[b].orphan, s, 0, TRUE)
  BY DEF ChainEdges
<1> HIDE DEF goes
<1>3. ASSUME NEW a \in goes, Common(facts, b, a) # {}, e = CommitEdge(facts, b, a, TRUE)
      PROVE  /\ DOMAIN e = EdgeFields /\ e.dep # b /\ e.dep \in Branch /\ Common(facts, b, e.dep) # {}
             /\ e = CommitEdge(facts, b, e.dep, TRUE)
  <2>1. DOMAIN e = EdgeFields /\ e.dep = a
    BY <1>3 DEF CommitEdge, Edge, EdgeFields
  <2> QED
    BY <1>1, <1>3, <2>1
<1>4. ASSUME NEW a \in goes, e = Edge(facts, b, a, ChainState(facts, a, facts[b].target), 0, TRUE)
      PROVE  DOMAIN e = EdgeFields /\ e.dep # b /\ e.mb = 0
  BY <1>1, <1>4 DEF Edge, EdgeFields
<1>5. ASSUME NEW s, e = Edge(facts, b, facts[b].orphan, s, 0, TRUE)
      PROVE  DOMAIN e = EdgeFields /\ e.dep # b /\ e.mb = 0
  BY <1>1, <1>5 DEF Edge, EdgeFields
<1> QED
  BY <1>2, <1>3, <1>4, <1>5

(* What is left of an edge is about the same branches and commit.          *)
LEMMA CarriedHas ==
  ASSUME NEW facts, NEW b, NEW e, DOMAIN e = EdgeFields, NEW x \in CarriedEdge(facts, b, e)
  PROVE  /\ DOMAIN x = EdgeFields /\ x.dep = e.dep /\ x.mb = e.mb
         /\ x.state = "landed" =>
              LET gone == MergedGone(e.dep, facts[e.dep])
                  landing == IF gone THEN Landed(facts[e.dep]) ELSE e.mb
              IN  /\ x.target = facts[b].target /\ There(x.target)
                  /\ landing # 0 /\ Holds(tips[x.target], landing)
<1> DEFINE target  == facts[b].target
           landing == IF MergedGone(e.dep, facts[e.dep]) THEN Landed(facts[e.dep]) ELSE e.mb
<1>1. \/ x = [e EXCEPT !.state = "unknown"]
      \/ x = [e EXCEPT !.state = "waiting", !.target = target]
      \/ /\ x = [e EXCEPT !.state = "landed", !.target = target]
         /\ There(target) /\ landing # 0 /\ Holds(tips[target], landing)
  BY DEF CarriedEdge, Unknown
<1> HIDE DEF target, landing
<1>2. CASE x = [e EXCEPT !.state = "unknown"]
  BY <1>2 DEF EdgeFields
<1>3. CASE x = [e EXCEPT !.state = "waiting", !.target = target]
  BY <1>3 DEF EdgeFields
<1>4. CASE /\ x = [e EXCEPT !.state = "landed", !.target = target]
           /\ There(target) /\ landing # 0 /\ Holds(tips[target], landing)
  <2>1. DOMAIN x = EdgeFields /\ x.dep = e.dep /\ x.mb = e.mb /\ x.target = target
    BY <1>4 DEF EdgeFields
  <2> QED
    BY <1>4, <2>1 DEF target, landing
<1> QED
  BY <1>1, <1>2, <1>3, <1>4

(* Every edge of a new row comes of one of these.                          *)
LEMMA NeedsAre ==
  ASSUME RepoAssumption, RepoInv, RowsOk, NEW facts, FactsOk(facts), NEW b \in Branch, NEW e \in NewRow(facts, b).needs
  PROVE  \/ e \in ChainEdges(facts, b)
         \/ \E a \in Branch \ {b} : Common(facts, b, a) # {} /\ e = CommitEdge(facts, b, a, FALSE)
         \/ \E x \in Lost(facts, b) : /\ x.dep \in Branch \ {b} /\ DOMAIN x = EdgeFields
                                      /\ e \in CarriedEdge(facts, b, x)
<1>1. e \in ChainEdges(facts, b) \cup PairEdges(facts, b) \cup Carried(facts, b)
  <2>1. NewRow(facts, b).needs = IF status[b] = "cancelled" THEN {}
                                 ELSE ChainEdges(facts, b) \cup PairEdges(facts, b) \cup Carried(facts, b)
    BY NewRowHas
  <2> QED
    BY <2>1
<1>2. CASE e \in PairEdges(facts, b)
  BY <1>2 DEF PairEdges, Paired
<1>3. CASE e \in Carried(facts, b)
  <2>1. PICK x \in Lost(facts, b) : e \in CarriedEdge(facts, b, x)
    BY <1>3 DEF Carried
  <2>2. x \in Old(b).needs /\ x.dep \in Branch
    BY DEF Lost
  <2>3. DOMAIN x = EdgeFields /\ x.dep # b
    BY <2>2, OldOk DEF RowOk
  <2> QED
    BY <2>1, <2>2, <2>3
<1> QED
  BY <1>1, <1>2, <1>3

LEMMA NewRowOk ==
  ASSUME RepoAssumption, RepoInv, RowsOk, NEW facts, FactsOk(facts), NEW b \in Branch PROVE RowOk(b, NewRow(facts, b))
<1> DEFINE row == NewRow(facts, b)
<1>1. /\ DOMAIN row = Fields /\ row.head = facts[b].head /\ row.pr = facts[b].pr /\ row.prs = facts[b].prs
      /\ row.target \in LongLived /\ ChainOk(b, row.chain)
      /\ row.shares \subseteq PairShares(facts, b) \cup CarriedShares(facts, b)
  <2>1. row.shares = PairShares(facts, b) \cup IF status[b] = "cancelled" THEN {} ELSE CarriedShares(facts, b)
    BY NewRowHas
  <2>2. /\ DOMAIN row = Fields /\ row.head = facts[b].head /\ row.pr = facts[b].pr /\ row.prs = facts[b].prs
    BY NewRowHas
  <2>3. row.target = facts[b].target /\ row.chain = facts[b].chain
    BY NewRowHas
  <2> QED
    BY <2>1, <2>2, <2>3 DEF FactsOk, Targeted
<1>2. ASSUME NEW e \in row.needs PROVE DOMAIN e = EdgeFields /\ e.dep # b /\ (e.dep \notin Branch => e.mb = 0)
  <2>1. CASE e \in ChainEdges(facts, b)
    BY <2>1, ChainEdgeHas
  <2>2. ASSUME NEW a \in Branch \ {b}, e = CommitEdge(facts, b, a, FALSE)
        PROVE  DOMAIN e = EdgeFields /\ e.dep = a
    BY <2>2 DEF CommitEdge, Edge, EdgeFields
  <2>3. ASSUME NEW x, x.dep \in Branch \ {b}, DOMAIN x = EdgeFields, e \in CarriedEdge(facts, b, x)
        PROVE  DOMAIN e = EdgeFields /\ e.dep = x.dep
    <3>1. DOMAIN e = EdgeFields
      BY <2>3, CarriedHas
    <3>2. e.dep = x.dep
      BY <2>3, CarriedHas
    <3> QED
      BY <3>1, <3>2
  <2>4. \/ e \in ChainEdges(facts, b)
        \/ \E a \in Branch \ {b} : e = CommitEdge(facts, b, a, FALSE)
        \/ \E x : x.dep \in Branch \ {b} /\ DOMAIN x = EdgeFields /\ e \in CarriedEdge(facts, b, x)
    BY NeedsAre
  <2> QED
    BY <2>1, <2>2, <2>3, <2>4
<1>3. \A s \in PairShares(facts, b) : DOMAIN s = ShareFields /\ s.dep \in Branch
  BY DEF PairShares, Paired, Share, ShareFields
<1>4. \A s \in CarriedShares(facts, b) : DOMAIN s = ShareFields /\ s.dep \in Branch
  <2>1. \A s \in Old(b).shares : DOMAIN s = ShareFields /\ s.dep \in Branch
    BY OldOk DEF RowOk
  <2>2. ASSUME NEW s \in CarriedShares(facts, b) PROVE DOMAIN s = ShareFields /\ s.dep \in Branch
    <3>1. \/ \E d \in Branch : \E m, l : s = Share(d, m, l)
          \/ s \in Old(b).shares
          \/ \E x \in Old(b).shares : s = [x EXCEPT !.state = "unknown"]
      BY DEF CarriedShares, Lost
    <3> QED
      BY <2>1, <3>1 DEF Share, ShareFields
  <2> QED
    BY <2>2
<1>5. FactOk(row)
  <2>1. FactOk(facts[b])
    BY DEF FactsOk, Known
  <2> HIDE DEF row
  <2> QED
    BY <1>1, <2>1 DEF FactOk
<1> HIDE DEF row
<1>6. RowOk(b, row)
  BY <1>1, <1>2, <1>3, <1>4, <1>5 DEF RowOk
<1> QED
  BY <1>6 DEF row

(* A merge that reached a commit brought it what was merged.               *)
LEMMA WorkArrives ==
  ASSUME RepoInv, NEW t \in Made, NEW h, NEW m, Carries(h, m), Holds(t, m), NEW c \in commits[h].work, c # 0
  PROVE  HasWork(t, c)
<1>1. h \in Made /\ commits[h].work \subseteq commits[m].work
  BY DEF Carries
<1>2. commits[m].work \subseteq commits[t].work
  BY CommitHas DEF Holds, RepoInv
<1> QED
  BY <1>1, <1>2 DEF HasWork

(* What a branch holds, it has the work of.                                *)
LEMMA HeldIsWork ==
  ASSUME RepoInv, NEW t \in Made, NEW c, Holds(t, c) PROVE HasWork(t, c)
<1>1. commits[t].anc \subseteq Made /\ commits[t].anc \subseteq commits[t].work
  BY CommitHas DEF RepoInv
<1> QED
  BY <1>1 DEF Holds, HasWork, Made

(* A branch that was merged and is gone landed by a PR's merge.            *)
LEMMA GoneLanded ==
  ASSUME RepoInv, NEW a, NEW fact, FactOk(fact), MergedGone(a, fact)
  PROVE  Carries(fact.head, Landed(fact)) /\ fact.head \in Made
<1> DEFINE carried == {p \in Merged(fact) : p.head = fact.head}
           numbers == {p.n : p \in carried}
           last    == CHOOSE p \in carried : \A q \in carried : q.n <= p.n
<1>1. carried # {} /\ fact.head # 0 /\ Landed(fact) = last.merge
  BY DEF MergedGone, Landed
<1>2. \A p \in carried : p.n \in 1..Len(prs) /\ p.head = fact.head /\ Carries(p.head, p.merge)
  BY DEF Merged, FactOk, KnownPr
<1> HIDE DEF carried
<1>3. numbers \subseteq 0..Len(prs) /\ numbers # {} /\ Len(prs) \in Nat
  BY <1>1, <1>2, PrHas
<1>4. MaxOf(numbers) \in numbers /\ \A n \in numbers : n <= MaxOf(numbers)
  <2> HIDE DEF numbers
  <2> QED
    BY <1>3, GreatestIs
<1>5. \E p \in carried : \A q \in carried : q.n <= p.n
  BY <1>4
<1>6. last \in carried
  BY <1>5
<1> HIDE DEF last
<1>7. Carries(fact.head, last.merge)
  BY <1>2, <1>6
<1> QED
  BY <1>1, <1>7 DEF Carries

-----------------------------------------------------------------------------
(* What a compute shows as landed.                                         *)

LEMMA CommitEdgeLands ==
  ASSUME RepoInv, NEW facts, FactsOk(facts), NEW b \in Branch, NEW a \in Branch, NEW e, NEW chain,
         Common(facts, b, a) # {}, e = CommitEdge(facts, b, a, chain), e.state = "landed", e.mb # 0
  PROVE  HasWork(tips[e.target], e.mb)
<1>1. e.target = facts[b].target /\ e.state = Resolve(facts, a, facts[b].target, e.mb)
  <2>1. CommitEdge(facts, b, a, chain).target = facts[b].target
    BY CommitEdgeHas
  <2>2. CommitEdge(facts, b, a, chain).state = Resolve(facts, a, facts[b].target, CommitEdge(facts, b, a, chain).mb)
    BY CommitEdgeHas
  <2> QED
    BY <2>1, <2>2
<1>2. There(e.target) /\ e.target \in Names
  BY <1>1 DEF Common, Unlanded, Listed, FactsOk, Targeted, Names
<1>3. tips[e.target] \in Made
  BY <1>2, TipIsMade DEF RepoInv
<1>4. PICK p \in Merged(facts[a]) : Holds(p.head, e.mb) /\ Holds(tips[e.target], p.merge)
  BY <1>1 DEF Resolve, Reaches
<1>5. Carries(p.head, p.merge)
  BY DEF Merged, FactsOk, Known, FactOk, KnownPr
<1>6. e.mb \in commits[p.head].work
  BY <1>4, <1>5, HeldIsWork DEF Carries, HasWork
<1> QED
  BY <1>3, <1>4, <1>5, <1>6, WorkArrives

LEMMA CarriedEdgeLands ==
  ASSUME RepoInv, NEW facts, FactsOk(facts), NEW b \in Branch, NEW x, DOMAIN x = EdgeFields, x.dep \in Branch,
         NEW e \in CarriedEdge(facts, b, x), e.state = "landed", e.mb # 0
  PROVE  \/ HasWork(tips[e.target], e.mb)
         \/ MergedGone(e.dep, facts[e.dep]) /\ HasWork(tips[e.target], facts[e.dep].head)
<1> DEFINE gone    == MergedGone(x.dep, facts[x.dep])
           landing == IF gone THEN Landed(facts[x.dep]) ELSE x.mb
<1>1. e.dep = x.dep /\ e.mb = x.mb
  BY CarriedHas
<1>2. e.target = facts[b].target /\ There(e.target) /\ Holds(tips[e.target], landing)
  BY CarriedHas
<1>3. tips[e.target] \in Made
  BY <1>2, TipIsMade DEF FactsOk, Targeted, RepoInv, Names
<1>4. CASE ~gone
  BY <1>1, <1>2, <1>3, <1>4, HeldIsWork
<1>5. CASE gone
  <2> DEFINE fact == facts[x.dep]
  <2>1. FactOk(fact) /\ MergedGone(x.dep, fact) /\ Holds(tips[e.target], Landed(fact))
    BY <1>2, <1>5 DEF FactsOk, Known
  <2> HIDE DEF fact
  <2>2. Carries(fact.head, Landed(fact)) /\ fact.head \in Made
    BY <2>1, GoneLanded
  <2>3. fact.head # 0 /\ fact.head \in commits[fact.head].work
    BY <2>2, CommitHas DEF RepoInv, Made
  <2>4. HasWork(tips[e.target], fact.head)
    BY <1>3, <2>1, <2>2, <2>3, WorkArrives
  <2> QED
    BY <1>1, <2>1, <2>4 DEF fact
<1> QED
  BY <1>4, <1>5

(* Whether a branch is gone is read off what is kept of its facts.         *)
LEMMA GoneByRow ==
  ASSUME NEW facts, FactsOk(facts), NEW a \in Branch
  PROVE  /\ NewRow(facts, a).head = facts[a].head
         /\ MergedGone(a, NewRow(facts, a)) <=> MergedGone(a, facts[a])
<1>1. NewRow(facts, a).head = facts[a].head /\ NewRow(facts, a).prs = facts[a].prs
  BY NewRowHas
<1> QED
  BY <1>1 DEF MergedGone, Landed, Merged

LEMMA ComputeLands == ASSUME RepoAssumption, RepoInv, RowsOk, Compute PROVE Lands
<1>1. /\ FactsOk(FactsNow) /\ rows' = [b \in Branch |-> NewRow(FactsNow, b)]
  BY FactsNowOk DEF Compute
<1> DEFINE facts == FactsNow
<1> HIDE DEF facts
<1>2. FactsOk(facts) /\ rows' = [b \in Branch |-> NewRow(facts, b)]
  BY <1>1 DEF facts
<1>3. ASSUME NEW b \in Branch, NEW e \in NewRow(facts, b).needs, e.state = "landed", e.mb # 0
      PROVE  \/ HasWork(tips[e.target], e.mb)
             \/ e.dep \in Branch /\ MergedGone(e.dep, facts[e.dep]) /\ HasWork(tips[e.target], facts[e.dep].head)
  <2>1. CASE e \in ChainEdges(facts, b)
    <3>1. e.dep \in Branch /\ Common(facts, b, e.dep) # {} /\ e = CommitEdge(facts, b, e.dep, TRUE)
      BY <1>2, <1>3, <2>1, ChainEdgeHas
    <3> DEFINE a == e.dep
    <3>2. a \in Branch /\ Common(facts, b, a) # {} /\ e = CommitEdge(facts, b, a, TRUE)
      BY <3>1
    <3> HIDE DEF a
    <3> QED
      BY <1>2, <1>3, <3>2, CommitEdgeLands
  <2>2. CASE \E a \in Branch \ {b} : Common(facts, b, a) # {} /\ e = CommitEdge(facts, b, a, FALSE)
    BY <1>2, <1>3, <2>2, CommitEdgeLands
  <2>3. CASE \E x \in Lost(facts, b) : /\ x.dep \in Branch \ {b} /\ DOMAIN x = EdgeFields
                                       /\ e \in CarriedEdge(facts, b, x)
    <3>1. PICK x : x.dep \in Branch \ {b} /\ DOMAIN x = EdgeFields /\ e \in CarriedEdge(facts, b, x)
      BY <2>3
    <3>2. e.dep = x.dep
      BY <3>1, CarriedHas
    <3> QED
      BY <1>2, <1>3, <3>1, <3>2, CarriedEdgeLands
  <2> QED
    BY <1>2, <2>1, <2>2, <2>3, NeedsAre
<1>4. \A a \in Branch : /\ rows'[a] = NewRow(facts, a) /\ NewRow(facts, a).head = facts[a].head
                        /\ MergedGone(a, NewRow(facts, a)) <=> MergedGone(a, facts[a])
  BY <1>2, GoneByRow
<1> QED
  BY <1>2, <1>3, <1>4 DEF Lands

-----------------------------------------------------------------------------
(* What a compute drops.                                                   *)

(* What is read off the rows and off the facts is the same.                *)
LEMMA UnlandedByRow ==
  ASSUME NEW facts, FactsOk(facts), NEW after, NEW b \in Branch, after[b] = NewRow(facts, b)
  PROVE  Unlanded(after, b) = Unlanded(facts, b)
<1>1. /\ after[b].target = facts[b].target /\ after[b].head = facts[b].head
      /\ MergedGone(b, after[b]) <=> MergedGone(b, facts[b])
  <2>1. NewRow(facts, b).target = facts[b].target /\ NewRow(facts, b).head = facts[b].head
    BY NewRowHas
  <2>2. MergedGone(b, NewRow(facts, b)) <=> MergedGone(b, facts[b])
    BY GoneByRow
  <2> QED
    BY <2>1, <2>2
<1>2. Listed(after, b) <=> Listed(facts, b)
  BY <1>1 DEF Listed
<1> QED
  BY <1>1, <1>2 DEF Unlanded

LEMMA BuildsOnByRow ==
  ASSUME NEW facts, FactsOk(facts), NEW after, NEW b \in Branch, NEW a \in Branch,
         after[b] = NewRow(facts, b), after[a] = NewRow(facts, a)
  PROVE  BuildsOn(after, b, a) <=> BuildsOn(facts, b, a)
<1>1. /\ after[b].chain = facts[b].chain /\ after[b].head = facts[b].head
      /\ after[a].chain = facts[a].chain /\ after[a].head = facts[a].head
  <2>1. NewRow(facts, b).chain = facts[b].chain /\ NewRow(facts, b).head = facts[b].head
    BY NewRowHas
  <2>2. NewRow(facts, a).chain = facts[a].chain /\ NewRow(facts, a).head = facts[a].head
    BY NewRowHas
  <2> QED
    BY <2>1, <2>2
<1>2. Unlanded(after, b) = Unlanded(facts, b)
  BY UnlandedByRow
<1> QED
  BY <1>1, <1>2 DEF BuildsOn

LEMMA ReachedByRow ==
  ASSUME NEW facts, FactsOk(facts), NEW a \in Branch, NEW target
  PROVE  Reached(NewRow(facts, a), target) = Reached(facts[a], target)
<1>1. NewRow(facts, a).prs = facts[a].prs /\ NewRow(facts, a).head = facts[a].head
  BY NewRowHas
<1>2. Merged(NewRow(facts, a)) = Merged(facts[a])
  BY <1>1 DEF Merged
<1> QED
  BY <1>1, <1>2 DEF Reached

(* What a lost edge leaves, unless b holds what a's work landed as, or its *)
(* commit is b's own no more.                                              *)
LEMMA LostLeaves ==
  ASSUME RepoAssumption, RepoInv, RowsOk, NEW facts, FactsOk(facts), NEW b \in Branch, NEW e \in Lost(facts, b),
         status[b] # "cancelled", e.mb # 0, facts[b].head # 0, Holds(facts[b].head, e.mb),
         ~MergedGone(b, facts[b]), ~MergedGone(e.dep, facts[e.dep]),
         ~\E f \in LongLived : There(f) /\ Holds(tips[f], e.mb),
         ~MergedInto(facts[b], Reached(facts[e.dep], facts[b].target))
  PROVE  \E x \in NewRow(facts, b).needs \cup NewRow(facts, b).shares : x.dep = e.dep
<1> DEFINE target == facts[b].target
           landing == Reached(facts[e.dep], target)
<1>1. e.dep \in Branch /\ DOMAIN e = EdgeFields
  <2>1. e \in Old(b).needs /\ e.dep \in Branch
    BY DEF Lost
  <2> QED
    BY <2>1, OldOk DEF RowOk
<1>2. ~Unknown(facts, b) /\ ~Unknown(facts, e.dep) /\ There(target) /\ target \in LongLived
  BY <1>1 DEF FactsOk, Targeted, RepoInv, TipsOk, Unknown
<1>3. Listed(facts, b)
  BY <1>2 DEF Listed
<1>4. StillCarried(facts, b, e)
  <2>1. \A f \in Fixed \cup {target} : f \in LongLived
    BY <1>2 DEF Fixed, RepoAssumption
  <2>2. e.mb \in Unlanded(facts, b)
    BY <1>3, <2>1 DEF Unlanded, Holds
  <2> QED
    BY <2>2 DEF StillCarried
<1>5. CASE landing = 0
  <2> DEFINE x == [e EXCEPT !.state = "waiting", !.target = target]
  <2>1. x \in CarriedEdge(facts, b, e)
    BY <1>2, <1>4, <1>5 DEF CarriedEdge
  <2>2. x \in NewRow(facts, b).needs
    <3>1. NewRow(facts, b).needs = IF status[b] = "cancelled" THEN {}
                                   ELSE ChainEdges(facts, b) \cup PairEdges(facts, b) \cup Carried(facts, b)
      BY NewRowHas
    <3> QED
      BY <2>1, <3>1 DEF Carried
  <2>3. x.dep = e.dep
    BY <1>1 DEF EdgeFields
  <2> QED
    BY <2>2, <2>3
<1>6. CASE landing # 0
  <2> DEFINE s == Share(e.dep, e.mb, landing)
  <2>1. s.dep = e.dep /\ s.landing = landing
    BY DEF Share
  <2>2. s \in CarriedShares(facts, b)
    <3>1. e \in {x \in Lost(facts, b) : ~Unknown(facts, b) /\ ~Unknown(facts, x.dep) /\ StillCarried(facts, b, x)}
      BY <1>2, <1>4
    <3> HIDE DEF s
    <3>2. s.landing # 0 /\ ~MergedInto(facts[b], s.landing)
      BY <1>6, <2>1
    <3>3. s = Share(e.dep, e.mb, Reached(facts[e.dep], facts[b].target))
      BY DEF s
    <3> HIDE DEF landing, target
    <3> QED
      BY <3>1, <3>2, <3>3 DEF CarriedShares
  <2>3. NewRow(facts, b).shares = PairShares(facts, b) \cup IF status[b] = "cancelled" THEN {} ELSE CarriedShares(facts, b)
    BY NewRowHas
  <2> HIDE DEF s
  <2>4. s \in NewRow(facts, b).shares
    BY <2>2, <2>3
  <2> QED
    BY <2>1, <2>4
<1> QED
  BY <1>5, <1>6

LEMMA ComputeKeeps == ASSUME RepoAssumption, RepoInv, RowsOk, Compute PROVE Keeps
<1> DEFINE facts == FactsNow
<1>1. FactsOk(facts) /\ rows' = [b \in Branch |-> NewRow(facts, b)]
  BY FactsNowOk DEF Compute
<1> HIDE DEF facts
<1> SUFFICES ASSUME NEW b \in DOMAIN rows, NEW e \in rows[b].needs,
                    status[b] # "cancelled",
                    \A x \in rows'[b].needs \cup rows'[b].shares : x.dep # e.dep,
                    \A x \in {b, e.dep} \cap Branch : ~MergedGone(x, rows'[x]),
                    e.dep \in Branch => ~BuildsOn(rows', e.dep, b) /\ \A x \in rows'[e.dep].needs : x.dep # b,
                    e.dep \in Branch => ~HasWhatLanded(rows', b, e.dep),
                    e.mb # 0, rows'[b].head # 0, Holds(rows'[b].head, e.mb),
                    ~\E f \in LongLived : There(f) /\ Holds(tips[f], e.mb)
             PROVE  FALSE
  BY DEF Keeps
<1> DEFINE a == e.dep
<1>2. b \in Branch /\ e \in Old(b).needs /\ a \in Branch \ {b}
  <2>1. b \in Branch /\ RowOk(b, rows[b])
    BY DEF RowsOk
  <2> QED
    BY <2>1 DEF Old, RowOk
<1> HIDE DEF a
<1>3. /\ rows'[b] = NewRow(facts, b) /\ rows'[a] = NewRow(facts, a)
      /\ rows'[b].head = facts[b].head /\ rows'[b].target = facts[b].target
      /\ MergedGone(b, rows'[b]) <=> MergedGone(b, facts[b])
      /\ MergedGone(a, rows'[a]) <=> MergedGone(a, facts[a])
  <2>1. NewRow(facts, b).target = facts[b].target /\ NewRow(facts, b).head = facts[b].head
    BY <1>1, <1>2, NewRowHas
  <2>2. \A x \in Branch : MergedGone(x, NewRow(facts, x)) <=> MergedGone(x, facts[x])
    BY <1>1, GoneByRow
  <2> QED
    BY <1>1, <1>2, <2>1, <2>2
<1>4. ~MergedGone(b, facts[b]) /\ ~MergedGone(a, facts[a])
  BY <1>2, <1>3 DEF a
<1>5. ~BuildsOn(facts, a, b)
  <2>1. BuildsOn(rows', a, b) <=> BuildsOn(facts, a, b)
    BY <1>1, <1>2, <1>3, BuildsOnByRow
  <2> QED
    BY <1>2, <2>1 DEF a
<1>6. rows'[b].needs = ChainEdges(facts, b) \cup PairEdges(facts, b) \cup Carried(facts, b)
  <2>1. NewRow(facts, b).needs = IF status[b] = "cancelled" THEN {}
                                 ELSE ChainEdges(facts, b) \cup PairEdges(facts, b) \cup Carried(facts, b)
    BY <1>1, <1>2, NewRowHas
  <2> QED
    BY <1>3, <2>1
<1>7. ~InChain(facts, b, a)
  BY <1>6 DEF InChain, a
<1>8. ~InChain(facts, a, b)
  <2> SUFFICES ASSUME InChain(facts, a, b) PROVE FALSE
    OBVIOUS
  <2>1. status[a] # "cancelled" /\ \E x \in ChainEdges(facts, a) : x.dep = b
    BY DEF InChain
  <2>2. NewRow(facts, a).needs = IF status[a] = "cancelled" THEN {}
                                 ELSE ChainEdges(facts, a) \cup PairEdges(facts, a) \cup Carried(facts, a)
    BY <1>1, <1>2, NewRowHas
  <2> QED
    BY <1>2, <1>3, <2>1, <2>2 DEF a
<1>9. Common(facts, b, a) = {}
  <2> SUFFICES ASSUME Common(facts, b, a) # {} PROVE FALSE
    OBVIOUS
  <2>1. a \in Paired(facts, b)
    BY <1>2, <1>7, <1>8 DEF Paired, Chained
  <2>2. CASE BuildsOn(facts, b, a)
    <3>1. CommitEdge(facts, b, a, FALSE) \in rows'[b].needs
      BY <1>6, <2>1, <2>2 DEF PairEdges
    <3>2. CommitEdge(facts, b, a, FALSE).dep = a
      BY DEF CommitEdge, Edge
    <3> QED
      BY <3>1, <3>2 DEF a
  <2>3. CASE ~BuildsOn(facts, b, a)
    <3>1. Share(a, 0, 0) \in PairShares(facts, b)
      BY <1>5, <2>1, <2>3 DEF PairShares
    <3>2. NewRow(facts, b).shares = PairShares(facts, b) \cup IF status[b] = "cancelled" THEN {} ELSE CarriedShares(facts, b)
      BY <1>1, <1>2, NewRowHas
    <3>3. Share(a, 0, 0).dep = a
      BY DEF Share
    <3> QED
      BY <1>3, <3>1, <3>2, <3>3 DEF a
  <2> QED
    BY <2>2, <2>3
<1>10. e \in Lost(facts, b)
  BY <1>2, <1>7, <1>8, <1>9 DEF Lost, Related, Chained, a
<1>11. ~MergedInto(facts[b], Reached(facts[a], facts[b].target))
  <2>1. Reached(rows'[a], rows'[b].target) = Reached(facts[a], facts[b].target)
    BY <1>1, <1>2, <1>3, ReachedByRow
  <2>2. There(rows'[b].target)
    BY <1>1, <1>2, <1>3 DEF FactsOk, Targeted, RepoInv, TipsOk
  <2>3. ~MergedInto(rows'[b], Reached(rows'[a], rows'[b].target))
    BY <1>2, <2>2 DEF HasWhatLanded, a
  <2> QED
    BY <1>3, <2>1, <2>3 DEF MergedInto
<1>12. \E x \in NewRow(facts, b).needs \cup NewRow(facts, b).shares : x.dep = e.dep
  BY <1>1, <1>2, <1>3, <1>4, <1>10, <1>11, LostLeaves DEF a
<1> QED
  BY <1>3, <1>12

-----------------------------------------------------------------------------
(* Every step keeps what is stored about the repo true.                    *)

GitInv == RepoInv /\ RowsOk

LEMMA InitGit == ASSUME RepoAssumption, Init PROVE GitInv
<1>1. DOMAIN rows = {}
  BY DEF Init
<1> QED
  BY <1>1, InitRepo DEF GitInv, RowsOk

LEMMA PeopleKeepGit ==
  ASSUME RepoAssumption, GitInv, NEW b \in Branch, NEW f \in Names,
         Push(b) \/ Rewrite(b) \/ ClosePr(b) \/ MergePr(b) \/ DeleteBranch(b) \/ Move(b) \/ MergeIn(b, f) \/ OpenPr(b, f)
  PROVE  GitInv'
<1>1. RepoInv' /\ Grown
  BY PushKeepsRepo, RewriteKeepsRepo, ClosePrKeepsRepo, MergePrKeepsRepo, DeleteKeepsRepo, MoveKeepsRepo,
     MergeInKeepsRepo, OpenPrKeepsRepo DEF GitInv
<1>2. rows' = rows
  BY DEF Push, Rewrite, ClosePr, MergePr, DeleteBranch, Move, MergeIn, OpenPr, Facts
<1> QED
  BY <1>1, <1>2, RowsStay DEF GitInv

LEMMA ComputeKeepsGit == ASSUME RepoAssumption, GitInv, Compute PROVE GitInv'
<1>1. UNCHANGED <<remote, status>> /\ rows' = NewRows
  BY DEF Compute
<1>2. RepoInv' /\ Grown
  BY <1>1, RemoteStays DEF GitInv
<1>3. FactsOk(FactsNow) /\ rows' = [b \in Branch |-> NewRow(FactsNow, b)]
  BY <1>1, FactsNowOk DEF GitInv
<1> DEFINE facts == FactsNow
<1> HIDE DEF facts
<1>4. \A b \in Branch : RowOk(b, NewRow(facts, b))
  BY <1>3, NewRowOk DEF GitInv, facts
<1>5. DOMAIN rows' = Branch /\ \A b \in Branch : rows'[b] = NewRow(facts, b)
  BY <1>3 DEF facts
<1>6. \A r : FactOk(r) => FactOk(r)'
  BY <1>2, FactStays DEF GitInv
<1>7. ASSUME NEW b \in Branch PROVE RowOk(b, rows[b])'
  <2>1. RowOk(b, NewRow(facts, b)) /\ rows'[b] = NewRow(facts, b)
    BY <1>4, <1>5
  <2>2. FactOk(rows[b])'
    BY <1>6, <2>1 DEF RowOk, FactOk, KnownPr, Carries, Made
  <2> QED
    BY <2>1, <2>2 DEF RowOk
<1> QED
  BY <1>2, <1>5, <1>7 DEF GitInv, RowsOk

LEMMA FailureKeepsGit == ASSUME RepoAssumption, GitInv, ComputeFails PROVE GitInv'
<1>1. UNCHANGED <<remote, status>>
  BY DEF ComputeFails
<1>2. RepoInv' /\ Grown
  BY <1>1, RemoteStays DEF GitInv
<1>3. /\ DOMAIN rows' = DOMAIN rows
      /\ \A b \in DOMAIN rows : rows'[b] = [rows[b] EXCEPT !.error = TRUE,
                                              !.needs = {[e EXCEPT !.state = "unknown"] : e \in @},
                                              !.shares = {[s EXCEPT !.state = "unknown"] : s \in @}]
  BY DEF ComputeFails
<1>4. \A r : FactOk(r) => FactOk(r)'
  BY <1>2, FactStays DEF GitInv
<1>5. ASSUME NEW b \in DOMAIN rows PROVE RowOk(b, rows[b])'
  <2> DEFINE old == rows[b]
             now == rows'[b]
  <2>1. b \in Branch /\ RowOk(b, old)
    BY DEF GitInv, RowsOk
  <2>2. /\ DOMAIN now = Fields /\ now.head = old.head /\ now.pr = old.pr /\ now.prs = old.prs
        /\ now.target = old.target /\ now.chain = old.chain
        /\ now.needs = {[e EXCEPT !.state = "unknown"] : e \in old.needs}
        /\ now.shares = {[s EXCEPT !.state = "unknown"] : s \in old.shares}
    BY <1>3, <2>1 DEF RowOk, FactOk, Fields
  <2>3. \A e \in now.needs : DOMAIN e = EdgeFields /\ e.dep # b /\ (e.dep \notin Branch => e.mb = 0)
    BY <2>1, <2>2 DEF RowOk, EdgeFields
  <2>4. \A s \in now.shares : DOMAIN s = ShareFields /\ s.dep \in Branch
    BY <2>1, <2>2 DEF RowOk, ShareFields
  <2>5. FactOk(rows[b])'
    BY <1>4, <2>1, <2>2 DEF RowOk, FactOk, KnownPr, Carries, Made
  <2> QED
    BY <2>1, <2>2, <2>3, <2>4, <2>5 DEF RowOk
<1> QED
  BY <1>2, <1>3, <1>5 DEF GitInv, RowsOk

LEMMA NextKeepsGit == ASSUME RepoAssumption, GitInv, [Next]_vars PROVE GitInv'
<1>1. CASE \E b \in Branch : Push(b) \/ Rewrite(b) \/ ClosePr(b) \/ MergePr(b) \/ DeleteBranch(b) \/ Move(b)
  <2>1. \E f \in Names : TRUE
    BY DEF RepoAssumption, Names
  <2> QED
    BY <1>1, <2>1, PeopleKeepGit
<1>2. CASE \E b \in Branch, f \in Branch \cup LongLived : MergeIn(b, f) \/ OpenPr(b, f)
  BY <1>2, PeopleKeepGit DEF Names
<1>3. CASE \E b \in Branch : Refuse(b)
  BY <1>3, RemoteStays, RowsStay DEF Refuse, GitInv
<1>4. CASE Compute
  BY <1>4, ComputeKeepsGit
<1>5. CASE ComputeFails
  BY <1>5, FailureKeepsGit
<1>6. CASE Restart
  BY <1>6, RemoteStays, RowsStay DEF Restart, GitInv
<1>7. CASE UNCHANGED vars
  BY <1>7, RemoteStays, RowsStay DEF vars, remote, GitInv
<1> QED
  BY <1>1, <1>2, <1>3, <1>4, <1>5, <1>6, <1>7 DEF Next

(* What is stored about a repo is true of it: a merged PR's merge holds    *)
(* the work that was merged, and edges name other items' branches.         *)
THEOREM GitInvariance == ASSUME RepoAssumption PROVE Spec => []GitInv
<1>1. Init => GitInv
  BY InitGit
<1>2. GitInv /\ [Next]_vars => GitInv'
  BY NextKeepsGit
<1> QED
  BY <1>1, <1>2, PTL DEF Spec

(* An edge that a compute shows as landed has the change of its shared     *)
(* commit in the target, or that of a merged and deleted dependency.       *)
THEOREM LandedHolds == ASSUME RepoAssumption PROVE Spec => LandedIsThere
<1>1. GitInv /\ [Next]_vars => [Lands]_vars
  BY ComputeLands DEF GitInv, Lands
<1> QED
  BY <1>1, GitInvariance, PTL DEF Spec, LandedIsThere

(* A compute drops what a branch needs only for one of the reasons of      *)
(* Keeps.                                                                  *)
THEOREM EdgesStay == ASSUME RepoAssumption PROVE Spec => NoEdgeVanishes
<1>1. GitInv /\ [Next]_vars => [Keeps]_vars
  BY ComputeKeeps DEF GitInv, Keeps
<1> QED
  BY <1>1, GitInvariance, PTL DEF Spec, NoEdgeVanishes

-----------------------------------------------------------------------------
(* What a compute would have found at another time.                        *)

(* The repo with other tips, statuses, commits and rows.                   *)
At(t, st, cm, rw) == INSTANCE GitFacts WITH
  tips <- t, status <- st, commits <- cm, rows <- rw, prs <- <<>>, memory <- NoMemory, upsets <- 0

(* Then the branches that matter to these facts were where they are, and   *)
(* the commits of these facts were what they are.                          *)
Agrees(t, cm, facts) ==
  /\ \A x \in Branch \cup Fixed : t[x] = tips[x] /\ (tips[x] # 0 => cm[tips[x]] = commits[tips[x]])
  /\ \A b \in Branch :
       /\ t[facts[b].target] = tips[facts[b].target] /\ tips[facts[b].target] # 0
       /\ cm[tips[facts[b].target]] = commits[tips[facts[b].target]]
       /\ facts[b].head # 0 => cm[facts[b].head] = commits[facts[b].head]
       /\ \A p \in Merged(facts[b]) : cm[p.head] = commits[p.head]

LEMMA SameGone ==
  ASSUME NEW t, NEW cm, NEW rw, NEW facts, FactsOk(facts), Agrees(t, cm, facts), NEW b \in Branch
  PROVE  At(t, status, cm, rw)!MergedGone(b, facts[b]) <=> MergedGone(b, facts[b])
<1>1. At(t, status, cm, rw)!Landed(facts[b]) = Landed(facts[b])
  BY DEF At!Landed, At!Merged, Landed, Merged
<1>2. At(t, status, cm, rw)!There(b) <=> There(b)
  BY DEF At!There, There, Agrees
<1> QED
  BY <1>1, <1>2 DEF At!MergedGone, MergedGone

LEMMA SameUnlanded ==
  ASSUME NEW t, NEW cm, NEW rw, NEW facts, FactsOk(facts), Agrees(t, cm, facts), NEW b \in Branch
  PROVE  At(t, status, cm, rw)!Unlanded(facts, b) = Unlanded(facts, b)
<1> DEFINE target == facts[b].target
           head == facts[b].head
           old  == At(t, status, cm, rw)!Unlanded(facts, b)
<1>1. /\ t[target] = tips[target] /\ tips[target] # 0 /\ cm[tips[target]] = commits[tips[target]]
      /\ head # 0 => cm[head] = commits[head]
      /\ \A f \in Fixed : t[f] = tips[f] /\ (tips[f] # 0 => cm[tips[f]] = commits[tips[f]])
  BY DEF Agrees
<1>2. At(t, status, cm, rw)!Listed(facts, b) <=> Listed(facts, b)
  BY <1>1, SameGone DEF At!Listed, Listed, At!There, There
<1>3. \A x : x \in Unlanded(facts, b) <=>
               /\ Listed(facts, b) /\ x \in commits[head].anc
               /\ \A f \in Fixed \cup {target} : tips[f] # 0 => x \notin commits[tips[f]].anc
  BY DEF Unlanded, There
<1>4. \A x : x \in old <=>
               /\ At(t, status, cm, rw)!Listed(facts, b) /\ x \in cm[head].anc
               /\ \A f \in Fixed \cup {target} : t[f] # 0 => x \notin cm[t[f]].anc
  BY DEF At!Unlanded, At!There, At!Fixed, Fixed
<1>5. Listed(facts, b) => head # 0
  BY DEF Listed
<1> HIDE DEF target, head, old
<1>6. \A x : x \in old <=> x \in Unlanded(facts, b)
  BY <1>1, <1>2, <1>3, <1>4, <1>5
<1>7. old = Unlanded(facts, b)
  BY <1>6 DEF old, At!Unlanded, Unlanded
<1> QED
  BY <1>7 DEF old

LEMMA SameReached ==
  ASSUME NEW t, NEW cm, NEW rw, NEW fact, NEW target,
         t[target] = tips[target], cm[tips[target]] = commits[tips[target]]
  PROVE  At(t, status, cm, rw)!Reached(fact, target) = Reached(fact, target)
<1> DEFINE landings == {p.merge : p \in {q \in Merged(fact) : q.head = fact.head}} \cup {fact.head}
           there    == {c \in landings \ {0} : Holds(tips[target], c)}
<1>1. At(t, status, cm, rw)!Merged(fact) = Merged(fact)
  BY DEF At!Merged, Merged
<1>2. {c \in landings \ {0} : At(t, status, cm, rw)!Holds(t[target], c)} = there
  BY DEF At!Holds, Holds
<1>3. Reached(fact, target) = IF there = {} THEN 0 ELSE MaxOf(there)
  BY DEF Reached
<1>4. At(t, status, cm, rw)!Reached(fact, target) = IF there = {} THEN 0 ELSE At(t, status, cm, rw)!MaxOf(there)
  <2> HIDE DEF there
  <2> QED
    BY <1>1, <1>2 DEF At!Reached
<1> QED
  BY <1>3, <1>4 DEF At!MaxOf, MaxOf

(* What is between two branches is the same then.                          *)
Between(t, cm, rw, facts, b, a) ==
  /\ At(t, status, cm, rw)!Common(facts, b, a) = Common(facts, b, a)
  /\ At(t, status, cm, rw)!CommitEdge(facts, b, a, TRUE) = CommitEdge(facts, b, a, TRUE)
  /\ At(t, status, cm, rw)!CommitEdge(facts, b, a, FALSE) = CommitEdge(facts, b, a, FALSE)

LEMMA SameBetween ==
  ASSUME NEW t, NEW cm, NEW rw, NEW facts, FactsOk(facts), Agrees(t, cm, facts), NEW a \in Branch, NEW b \in Branch
  PROVE  Between(t, cm, rw, facts, b, a)
<1> DEFINE target == facts[b].target
           mb == MaxOf(Common(facts, b, a))
           carried == {p \in Merged(facts[a]) : Holds(p.head, mb)}
<1>1. t[target] = tips[target] /\ cm[tips[target]] = commits[tips[target]]
  BY DEF Agrees
<1>2. At(t, status, cm, rw)!Common(facts, b, a) = Common(facts, b, a)
  BY SameUnlanded DEF At!Common, Common
<1>3. At(t, status, cm, rw)!MaxOf(At(t, status, cm, rw)!Common(facts, b, a)) = mb
  BY <1>2 DEF At!MaxOf, MaxOf
<1> HIDE DEF mb
<1>4. At(t, status, cm, rw)!Merged(facts[a]) = Merged(facts[a])
  BY DEF At!Merged, Merged
<1>5. \A p \in Merged(facts[a]) : /\ At(t, status, cm, rw)!Holds(p.head, mb) <=> Holds(p.head, mb)
                                  /\ At(t, status, cm, rw)!Reaches(p, target) <=> Reaches(p, target)
  BY <1>1 DEF Agrees, At!Holds, Holds, At!Reaches, Reaches
<1>6. {p \in At(t, status, cm, rw)!Merged(facts[a]) : At(t, status, cm, rw)!Holds(p.head, mb)} = carried
  BY <1>4, <1>5
<1>7. \A p \in carried : At(t, status, cm, rw)!Reaches(p, target) <=> Reaches(p, target)
  BY <1>5
<1>8. At(t, status, cm, rw)!Resolve(facts, a, target, mb) = Resolve(facts, a, target, mb)
  BY <1>6, <1>7 DEF At!Resolve, Resolve, At!CantLand, CantLand, At!ClosedPr, ClosedPr
<1> HIDE DEF carried
<1> QED
  BY <1>2, <1>3, <1>8 DEF Between, At!CommitEdge, CommitEdge, At!Edge, Edge, mb

LEMMA SameChainEdges ==
  ASSUME NEW t, NEW cm, NEW rw, NEW facts, FactsOk(facts), Agrees(t, cm, facts), NEW b \in Branch
  PROVE  At(t, status, cm, rw)!ChainEdges(facts, b) = ChainEdges(facts, b)
<1> DEFINE target == facts[b].target
           goes == {facts[b].chain[i] : i \in DOMAIN facts[b].chain}
           ends == {facts[b].orphan} \ {None}
           Then(a) == IF At(t, status, cm, rw)!Common(facts, b, a) # {}
                      THEN At(t, status, cm, rw)!CommitEdge(facts, b, a, TRUE)
                      ELSE At(t, status, cm, rw)!Edge(facts, b, a, At(t, status, cm, rw)!ChainState(facts, a, target), 0, TRUE)
           Now(a) == IF Common(facts, b, a) # {} THEN CommitEdge(facts, b, a, TRUE)
                     ELSE Edge(facts, b, a, ChainState(facts, a, target), 0, TRUE)
           ThenEnds(o) ==
             IF o \notin Branch THEN At(t, status, cm, rw)!Edge(facts, b, o, "unknown", 0, TRUE)
             ELSE LET state == At(t, status, cm, rw)!ChainState(facts, o, target)
                  IN  At(t, status, cm, rw)!Edge(facts, b, o, IF state \in {"landed", "unknown"} THEN state ELSE "stale", 0, TRUE)
           Ends(o) ==
             IF o \notin Branch THEN Edge(facts, b, o, "unknown", 0, TRUE)
             ELSE LET state == ChainState(facts, o, target)
                  IN  Edge(facts, b, o, IF state \in {"landed", "unknown"} THEN state ELSE "stale", 0, TRUE)
<1>1. goes \subseteq Branch
  <2>1. facts[b].chain \in Seq(Branch \ {b})
    BY DEF FactsOk, Targeted, ChainOk
  <2> QED
    BY <2>1, ElementOfSeq, LenProperties
<1>2. /\ \A a, s : At(t, status, cm, rw)!Edge(facts, b, a, s, 0, TRUE) = Edge(facts, b, a, s, 0, TRUE)
      /\ \A a : At(t, status, cm, rw)!Edge(facts, b, a, "unknown", 0, TRUE) = Edge(facts, b, a, "unknown", 0, TRUE)
  BY DEF At!Edge, Edge
<1>3. ASSUME NEW a \in Branch
      PROVE  At(t, status, cm, rw)!ChainState(facts, a, target) = ChainState(facts, a, target)
  <2>1. At(t, status, cm, rw)!There(target) <=> There(target)
    BY DEF Agrees, At!There, There
  <2>2. t[target] = tips[target] /\ cm[tips[target]] = commits[tips[target]]
    BY DEF Agrees
  <2> HIDE DEF target
  <2>3. At(t, status, cm, rw)!Reached(facts[a], target) = Reached(facts[a], target)
    BY <2>2, SameReached
  <2> QED
    BY <2>1, <2>3 DEF At!ChainState, ChainState, At!CantLand, CantLand, At!ClosedPr, ClosedPr
<1>4. ASSUME NEW a \in goes PROVE Then(a) = Now(a)
  <2>1. a \in Branch
    BY <1>1
  <2>2. Between(t, cm, rw, facts, b, a)
    BY <2>1, SameBetween
  <2>3. At(t, status, cm, rw)!ChainState(facts, a, target) = ChainState(facts, a, target)
    BY <2>1, <1>3
  <2> HIDE DEF target
  <2> QED
    BY <1>2, <2>2, <2>3 DEF Between
<1>5. ASSUME NEW o \in ends PROVE ThenEnds(o) = Ends(o)
  <2>1. CASE o \in Branch
    <3>1. At(t, status, cm, rw)!ChainState(facts, o, target) = ChainState(facts, o, target)
      BY <2>1, <1>3
    <3> HIDE DEF target
    <3> QED
      BY <1>2, <2>1, <3>1
  <2>2. CASE o \notin Branch
    BY <1>2, <2>2
  <2> QED
    BY <2>1, <2>2
<1>6. ChainEdges(facts, b) = {Now(a) : a \in goes} \cup {Ends(o) : o \in ends}
  BY DEF ChainEdges
<1>7. At(t, status, cm, rw)!ChainEdges(facts, b) = {Then(a) : a \in goes} \cup {ThenEnds(o) : o \in ends}
  BY DEF At!ChainEdges
<1> HIDE DEF Then, Now, ThenEnds, Ends, goes, ends
<1>8. {Then(a) : a \in goes} = {Now(a) : a \in goes}
  BY <1>4
<1>9. {ThenEnds(o) : o \in ends} = {Ends(o) : o \in ends}
  BY <1>5
<1> QED
  BY <1>6, <1>7, <1>8, <1>9

LEMMA SameRelated ==
  ASSUME NEW t, NEW cm, NEW rw, NEW facts, FactsOk(facts), Agrees(t, cm, facts), NEW a \in Branch, NEW b \in Branch
  PROVE  /\ At(t, status, cm, rw)!Chained(facts, b, a) <=> Chained(facts, b, a)
         /\ At(t, status, cm, rw)!Related(facts, b, a) <=> Related(facts, b, a)
<1>1. \A x, y \in Branch : At(t, status, cm, rw)!InChain(facts, x, y) <=> InChain(facts, x, y)
  BY SameChainEdges DEF At!InChain, InChain
<1>2. At(t, status, cm, rw)!Chained(facts, b, a) <=> Chained(facts, b, a)
  BY <1>1 DEF At!Chained, Chained
<1>3. Between(t, cm, rw, facts, b, a)
  BY SameBetween
<1> QED
  BY <1>2, <1>3 DEF At!Related, Related, Between

LEMMA SamePairs ==
  ASSUME NEW t, NEW cm, NEW rw, NEW facts, FactsOk(facts), Agrees(t, cm, facts), NEW b \in Branch
  PROVE  /\ At(t, status, cm, rw)!PairEdges(facts, b) = PairEdges(facts, b)
         /\ At(t, status, cm, rw)!PairShares(facts, b) = PairShares(facts, b)
<1>1. \A x, y \in Branch : At(t, status, cm, rw)!BuildsOn(facts, x, y) <=> BuildsOn(facts, x, y)
  BY SameUnlanded DEF At!BuildsOn, BuildsOn
<1>2. At(t, status, cm, rw)!Paired(facts, b) = Paired(facts, b)
  <2>1. \A a \in Branch : Between(t, cm, rw, facts, b, a)
    BY SameBetween
  <2>2. \A a \in Branch : At(t, status, cm, rw)!Common(facts, b, a) = Common(facts, b, a)
    BY <2>1 DEF Between
  <2>3. \A a \in Branch : At(t, status, cm, rw)!Chained(facts, b, a) <=> Chained(facts, b, a)
    BY SameRelated
  <2> QED
    BY <2>2, <2>3 DEF At!Paired, Paired
<1>3. Paired(facts, b) \subseteq Branch
  BY DEF Paired
<1>4. At(t, status, cm, rw)!PairEdges(facts, b) = PairEdges(facts, b)
  <2> DEFINE pairs == {x \in Paired(facts, b) : BuildsOn(facts, b, x)}
  <2>1. {x \in At(t, status, cm, rw)!Paired(facts, b) : At(t, status, cm, rw)!BuildsOn(facts, b, x)} = pairs
    BY <1>1, <1>2, <1>3
  <2>2. \A a \in pairs : At(t, status, cm, rw)!CommitEdge(facts, b, a, FALSE) = CommitEdge(facts, b, a, FALSE)
    <3> SUFFICES ASSUME NEW a \in pairs
                 PROVE  At(t, status, cm, rw)!CommitEdge(facts, b, a, FALSE) = CommitEdge(facts, b, a, FALSE)
      OBVIOUS
    <3>1. a \in Branch
      BY <1>3
    <3>2. Between(t, cm, rw, facts, b, a)
      BY <3>1, SameBetween
    <3> QED
      BY <3>2 DEF Between
  <2> HIDE DEF pairs
  <2>3. At(t, status, cm, rw)!PairEdges(facts, b) = {At(t, status, cm, rw)!CommitEdge(facts, b, a, FALSE) : a \in pairs}
    BY <2>1 DEF At!PairEdges
  <2>4. PairEdges(facts, b) = {CommitEdge(facts, b, a, FALSE) : a \in pairs}
    BY DEF PairEdges, pairs
  <2> QED
    BY <2>2, <2>3, <2>4
<1>5. At(t, status, cm, rw)!PairShares(facts, b) = PairShares(facts, b)
  <2> DEFINE pairs == {x \in Paired(facts, b) : ~BuildsOn(facts, b, x) /\ ~BuildsOn(facts, x, b)}
  <2>1. {x \in At(t, status, cm, rw)!Paired(facts, b) : /\ ~At(t, status, cm, rw)!BuildsOn(facts, b, x)
                                                         /\ ~At(t, status, cm, rw)!BuildsOn(facts, x, b)} = pairs
    BY <1>1, <1>2, <1>3
  <2> HIDE DEF pairs
  <2>2. At(t, status, cm, rw)!PairShares(facts, b) = {Share(a, 0, 0) : a \in pairs}
    BY <2>1 DEF At!PairShares, At!Share, Share
  <2>3. PairShares(facts, b) = {Share(a, 0, 0) : a \in pairs}
    BY DEF PairShares, pairs
  <2> QED
    BY <2>2, <2>3
<1> QED
  BY <1>4, <1>5

LEMMA SameCarried ==
  ASSUME NEW t, NEW cm, NEW rw, NEW facts, FactsOk(facts), Agrees(t, cm, facts), NEW b \in Branch,
         NEW e, e.dep \in Branch
  PROVE  /\ At(t, status, cm, rw)!StillCarried(facts, b, e) <=> StillCarried(facts, b, e)
         /\ At(t, status, cm, rw)!CarriedEdge(facts, b, e) = CarriedEdge(facts, b, e)
<1>1. t[facts[b].target] = tips[facts[b].target] /\ cm[tips[facts[b].target]] = commits[tips[facts[b].target]]
  BY DEF Agrees
<1>2. At(t, status, cm, rw)!MergedGone(e.dep, facts[e.dep]) <=> MergedGone(e.dep, facts[e.dep])
  BY SameGone
<1>3. At(t, status, cm, rw)!StillCarried(facts, b, e) <=> StillCarried(facts, b, e)
  BY <1>2, SameUnlanded DEF At!StillCarried, StillCarried
<1>4. /\ At(t, status, cm, rw)!Unknown(facts, b) <=> Unknown(facts, b)
      /\ At(t, status, cm, rw)!Unknown(facts, e.dep) <=> Unknown(facts, e.dep)
  BY DEF Agrees, At!Unknown, Unknown, At!There, There
<1>5. \A f : At(t, status, cm, rw)!Landed(f) = Landed(f)
  BY DEF At!Landed, At!Merged, Landed, Merged
<1>6. \A c : At(t, status, cm, rw)!Holds(t[facts[b].target], c) <=> Holds(tips[facts[b].target], c)
  BY <1>1 DEF At!Holds, Holds
<1>7. At(t, status, cm, rw)!Reached(facts[e.dep], facts[b].target) = Reached(facts[e.dep], facts[b].target)
  BY <1>1, SameReached
<1>8. At(t, status, cm, rw)!CarriedEdge(facts, b, e) = CarriedEdge(facts, b, e)
  BY <1>2, <1>3, <1>4, <1>5, <1>6, <1>7 DEF At!CarriedEdge, CarriedEdge
<1> QED
  BY <1>3, <1>8
-----------------------------------------------------------------------------
(* A row of a compute, by the needs and shares that were stored.           *)

LostOf(facts, b, S) == {e \in S : e.dep \in Branch /\ ~Related(facts, b, e.dep)}
LeftOf(facts, b, S) == UNION {CarriedEdge(facts, b, e) : e \in LostOf(facts, b, S)}
HintsOf(facts, b, S) ==
  {s \in {Share(e.dep, e.mb, Reached(facts[e.dep], facts[b].target)) :
            e \in {x \in LostOf(facts, b, S) : StillCarried(facts, b, x)}} :
     s.landing # 0 /\ ~MergedInto(facts[b], s.landing)}
KeptOf(facts, b, H) ==
  {s \in H : /\ s.mb # 0 /\ ~Related(facts, b, s.dep)
             /\ s.mb \in Unlanded(facts, b) /\ ~MergedInto(facts[b], s.landing)}

NeedsOf(facts, b, S) ==
  IF status[b] = "cancelled" THEN {} ELSE ChainEdges(facts, b) \cup PairEdges(facts, b) \cup LeftOf(facts, b, S)
SharesOf(facts, b, S, H) ==
  PairShares(facts, b) \cup IF status[b] = "cancelled" THEN {} ELSE HintsOf(facts, b, S) \cup KeptOf(facts, b, H)
RowOf(facts, b, S, H) == [facts[b] EXCEPT !.needs = NeedsOf(facts, b, S), !.shares = SharesOf(facts, b, S, H)]

(* All targets are there.                                                  *)
Reachable(facts) == \A b \in Branch : There(facts[b].target)

LEMMA TargetsAreThere == ASSUME RepoInv, NEW facts, FactsOk(facts) PROVE Reachable(facts)
  BY DEF Reachable, FactsOk, Targeted, RepoInv, TipsOk

EdgesOk(S) == \A e \in S : DOMAIN e = EdgeFields
HintsOk(H) == \A s \in H : s.dep \in Branch

LEMMA NewRowIs ==
  ASSUME NEW facts, Reachable(facts), NEW b \in Branch, HintsOk(Old(b).shares)
  PROVE  NewRow(facts, b) = RowOf(facts, b, Old(b).needs, Old(b).shares)
<1> DEFINE S == Old(b).needs
           H == Old(b).shares
<1>1. \A a \in Branch : ~Unknown(facts, a)
  BY DEF Reachable, Unknown
<1>2. Lost(facts, b) = LostOf(facts, b, S)
  BY DEF Lost, LostOf
<1>3. Carried(facts, b) = LeftOf(facts, b, S)
  BY <1>2 DEF Carried, LeftOf
<1>4. {x \in Lost(facts, b) : ~Unknown(facts, b) /\ ~Unknown(facts, x.dep) /\ StillCarried(facts, b, x)}
        = {x \in LostOf(facts, b, S) : StillCarried(facts, b, x)}
  <2>1. \A x \in LostOf(facts, b, S) : x.dep \in Branch
    BY DEF LostOf
  <2> QED
    BY <1>1, <1>2, <2>1
<1>5. {x \in H : x.mb = 0 /\ ~Related(facts, b, x.dep) /\ (Unknown(facts, b) \/ Unknown(facts, x.dep))} = {}
  BY <1>1 DEF HintsOk
<1>6. CarriedShares(facts, b) = HintsOf(facts, b, S) \cup KeptOf(facts, b, H)
  BY <1>4, <1>5 DEF CarriedShares, HintsOf, KeptOf
<1>7. NewRow(facts, b) =
        [facts[b] EXCEPT
           !.needs = IF status[b] = "cancelled" THEN {}
                     ELSE ChainEdges(facts, b) \cup PairEdges(facts, b) \cup Carried(facts, b),
           !.shares = PairShares(facts, b) \cup IF status[b] = "cancelled" THEN {} ELSE CarriedShares(facts, b)]
  BY DEF NewRow, Carried
<1> QED
  BY <1>3, <1>6, <1>7 DEF RowOf, NeedsOf, SharesOf

LEMMA ThenRowIs ==
  ASSUME NEW t, NEW cm, NEW rw, NEW facts, FactsOk(facts), Agrees(t, cm, facts), Reachable(facts), NEW b \in Branch,
         b \in DOMAIN rw, HintsOk(rw[b].shares)
  PROVE  At(t, status, cm, rw)!NewRow(facts, b) = RowOf(facts, b, rw[b].needs, rw[b].shares)
<1> DEFINE S == rw[b].needs
           H == rw[b].shares
           target == facts[b].target
           lost == At(t, status, cm, rw)!Lost(facts, b)
           still == {x \in lost : /\ ~At(t, status, cm, rw)!Unknown(facts, b)
                                  /\ ~At(t, status, cm, rw)!Unknown(facts, x.dep)
                                  /\ At(t, status, cm, rw)!StillCarried(facts, b, x)}
<1>1. \A a \in Branch : ~At(t, status, cm, rw)!Unknown(facts, a)
  BY DEF Agrees, At!Unknown, At!There
<1>2. At(t, status, cm, rw)!Old(b) = rw[b]
  BY DEF At!Old
<1>3. \A a \in Branch : At(t, status, cm, rw)!Related(facts, b, a) <=> Related(facts, b, a)
  BY SameRelated
<1>4. lost = LostOf(facts, b, S)
  BY <1>2, <1>3 DEF At!Lost, LostOf
<1> HIDE DEF lost
<1>5. \A x \in lost : x.dep \in Branch
  BY <1>4 DEF LostOf
<1>6. \A x \in lost : /\ At(t, status, cm, rw)!StillCarried(facts, b, x) <=> StillCarried(facts, b, x)
                      /\ At(t, status, cm, rw)!CarriedEdge(facts, b, x) = CarriedEdge(facts, b, x)
  BY <1>5, SameCarried
<1>7. still = {x \in LostOf(facts, b, S) : StillCarried(facts, b, x)}
  BY <1>1, <1>4, <1>5, <1>6
<1>8. UNION {At(t, status, cm, rw)!CarriedEdge(facts, b, e) : e \in lost} = LeftOf(facts, b, S)
  BY <1>4, <1>6 DEF LeftOf
<1>9. \A l : At(t, status, cm, rw)!MergedInto(facts[b], l) <=> MergedInto(facts[b], l)
  BY DEF Agrees, At!MergedInto, MergedInto, At!Holds, Holds
<1>10. \A a \in Branch : At(t, status, cm, rw)!Reached(facts[a], target) = Reached(facts[a], target)
  <2>1. t[target] = tips[target] /\ cm[tips[target]] = commits[tips[target]]
    BY DEF Agrees
  <2> HIDE DEF target
  <2> QED
    BY <2>1, SameReached
<1>11. {s \in {At(t, status, cm, rw)!Share(e.dep, e.mb, At(t, status, cm, rw)!Reached(facts[e.dep], target)) : e \in still} :
          s.landing # 0 /\ ~At(t, status, cm, rw)!MergedInto(facts[b], s.landing)} = HintsOf(facts, b, S)
  <2>1. \A x \in still : x.dep \in Branch
    BY <1>5
  <2> HIDE DEF still, target
  <2>2. \A e \in still : At(t, status, cm, rw)!Share(e.dep, e.mb, At(t, status, cm, rw)!Reached(facts[e.dep], target))
                           = Share(e.dep, e.mb, Reached(facts[e.dep], target))
    BY <1>10, <2>1 DEF At!Share, Share
  <2>3. {At(t, status, cm, rw)!Share(e.dep, e.mb, At(t, status, cm, rw)!Reached(facts[e.dep], target)) : e \in still}
          = {Share(e.dep, e.mb, Reached(facts[e.dep], target)) : e \in still}
    BY <2>2
  <2> QED
    BY <1>7, <1>9, <2>3 DEF HintsOf, target
<1>12. {s \in H : /\ s.mb # 0 /\ ~At(t, status, cm, rw)!Related(facts, b, s.dep)
                  /\ s.mb \in At(t, status, cm, rw)!Unlanded(facts, b)
                  /\ ~At(t, status, cm, rw)!MergedInto(facts[b], s.landing)} = KeptOf(facts, b, H)
  BY <1>3, <1>9, SameUnlanded DEF KeptOf, HintsOk
<1>13. {x \in H : /\ x.mb = 0 /\ ~At(t, status, cm, rw)!Related(facts, b, x.dep)
                  /\ (At(t, status, cm, rw)!Unknown(facts, b) \/ At(t, status, cm, rw)!Unknown(facts, x.dep))} = {}
  BY <1>1 DEF HintsOk
<1>14. At(t, status, cm, rw)!CarriedShares(facts, b) = HintsOf(facts, b, S) \cup KeptOf(facts, b, H)
  BY <1>2, <1>11, <1>12, <1>13 DEF At!CarriedShares, lost
<1>15. At(t, status, cm, rw)!NewRow(facts, b) =
        [facts[b] EXCEPT
           !.needs = IF status[b] = "cancelled" THEN {}
                     ELSE At(t, status, cm, rw)!ChainEdges(facts, b) \cup At(t, status, cm, rw)!PairEdges(facts, b)
                          \cup UNION {At(t, status, cm, rw)!CarriedEdge(facts, b, e) : e \in lost},
           !.shares = At(t, status, cm, rw)!PairShares(facts, b)
                      \cup IF status[b] = "cancelled" THEN {} ELSE At(t, status, cm, rw)!CarriedShares(facts, b)]
  BY DEF At!NewRow, lost
<1>16. At(t, status, cm, rw)!ChainEdges(facts, b) = ChainEdges(facts, b)
  BY SameChainEdges
<1>17. /\ At(t, status, cm, rw)!PairEdges(facts, b) = PairEdges(facts, b)
       /\ At(t, status, cm, rw)!PairShares(facts, b) = PairShares(facts, b)
  BY SamePairs
<1> QED
  BY <1>8, <1>14, <1>15, <1>16, <1>17 DEF RowOf, NeedsOf, SharesOf

-----------------------------------------------------------------------------
(* A compute that finds its own row stored leaves it as it is.             *)

(* What is left of an edge stays as it is.                                 *)
LEMMA LeftIsLeft ==
  ASSUME NEW facts, Reachable(facts), NEW b \in Branch, NEW e, DOMAIN e = EdgeFields, e.dep \in Branch,
         NEW x \in CarriedEdge(facts, b, e)
  PROVE  /\ CarriedEdge(facts, b, x) = {x}
         /\ StillCarried(facts, b, x) => Reached(facts[x.dep], facts[b].target) = 0
<1> DEFINE target == facts[b].target
           Landing(d, m) == IF MergedGone(d, facts[d]) THEN Landed(facts[d]) ELSE m
           Arrived(d, m) == Landing(d, m) # 0 /\ Holds(tips[target], Landing(d, m))
           As(y, s) == [y EXCEPT !.state = s, !.target = target]
<1>1. x.dep = e.dep /\ x.mb = e.mb
  BY CarriedHas
<1>2. ~Unknown(facts, b) /\ ~Unknown(facts, e.dep)
  BY DEF Reachable, Unknown
<1>3. StillCarried(facts, b, x) <=> StillCarried(facts, b, e)
  BY <1>1 DEF StillCarried
<1>4. CarriedEdge(facts, b, e) =
        IF StillCarried(facts, b, e)
        THEN IF Reached(facts[e.dep], target) = 0 THEN {As(e, "waiting")} ELSE {}
        ELSE IF Arrived(e.dep, e.mb) THEN {As(e, "landed")} ELSE {}
  BY <1>2 DEF CarriedEdge
<1>5. CarriedEdge(facts, b, x) =
        IF StillCarried(facts, b, e)
        THEN IF Reached(facts[e.dep], target) = 0 THEN {As(x, "waiting")} ELSE {}
        ELSE IF Arrived(e.dep, e.mb) THEN {As(x, "landed")} ELSE {}
  BY <1>1, <1>2, <1>3 DEF CarriedEdge
<1> HIDE DEF Arrived
<1>6. CASE StillCarried(facts, b, e)
  <2>1. Reached(facts[e.dep], target) = 0 /\ x = As(e, "waiting")
    BY <1>4, <1>6
  <2>2. As(x, "waiting") = x
    BY <2>1 DEF EdgeFields
  <2> QED
    BY <1>1, <1>5, <1>6, <2>1, <2>2
<1>7. CASE ~StillCarried(facts, b, e)
  <2>1. Arrived(e.dep, e.mb) /\ x = As(e, "landed")
    BY <1>4, <1>7
  <2>2. As(x, "landed") = x
    BY <2>1 DEF EdgeFields
  <2> QED
    BY <1>3, <1>5, <1>7, <2>1, <2>2
<1> QED
  BY <1>6, <1>7

LEMMA NeedsStay ==
  ASSUME NEW facts, FactsOk(facts), Reachable(facts), NEW b \in Branch, NEW S, EdgesOk(S), status[b] # "cancelled"
  PROVE  LET N == NeedsOf(facts, b, S) IN LeftOf(facts, b, N) = LeftOf(facts, b, S) /\ HintsOf(facts, b, N) = {}
<1> DEFINE N == NeedsOf(facts, b, S)
           left == LeftOf(facts, b, S)
<1>1. N = ChainEdges(facts, b) \cup PairEdges(facts, b) \cup left
  BY DEF NeedsOf
<1>2. \A e \in ChainEdges(facts, b) : Related(facts, b, e.dep)
  BY DEF Related, Chained, InChain
<1>3. \A e \in PairEdges(facts, b) : Related(facts, b, e.dep)
  <2>1. SUFFICES ASSUME NEW e \in PairEdges(facts, b) PROVE Related(facts, b, e.dep)
    OBVIOUS
  <2>2. PICK a \in Paired(facts, b) : e = CommitEdge(facts, b, a, FALSE)
    BY DEF PairEdges
  <2>3. e.dep = a
    BY <2>2 DEF CommitEdge, Edge
  <2> QED
    BY <2>2, <2>3 DEF Paired, Related
<1>4. ASSUME NEW x \in left
      PROVE  \E e \in LostOf(facts, b, S) : /\ x \in CarriedEdge(facts, b, e) /\ DOMAIN e = EdgeFields /\ e.dep \in Branch
                                            /\ x.dep = e.dep
  <2>1. PICK e \in LostOf(facts, b, S) : x \in CarriedEdge(facts, b, e)
    BY <1>4 DEF LeftOf
  <2>2. DOMAIN e = EdgeFields /\ e.dep \in Branch
    BY DEF LostOf, EdgesOk
  <2>3. x.dep = e.dep
    BY <2>1, <2>2, CarriedHas
  <2> QED
    BY <2>1, <2>2, <2>3
<1>5. \A x \in left : x.dep \in Branch /\ ~Related(facts, b, x.dep)
  BY <1>4 DEF LostOf
<1> HIDE DEF left
<1>6. LostOf(facts, b, N) = left
  <2> HIDE DEF N
  <2> QED
    BY <1>1, <1>2, <1>3, <1>5 DEF LostOf
<1> HIDE DEF N
<1>7. ASSUME NEW x \in left
      PROVE  /\ CarriedEdge(facts, b, x) = {x}
             /\ StillCarried(facts, b, x) => Reached(facts[x.dep], facts[b].target) = 0
  <2>1. PICK e \in LostOf(facts, b, S) : x \in CarriedEdge(facts, b, e) /\ DOMAIN e = EdgeFields /\ e.dep \in Branch
    BY <1>4, <1>7
  <2> QED
    BY <2>1, LeftIsLeft
<1>8. LeftOf(facts, b, N) = left
  BY <1>6, <1>7 DEF LeftOf
<1>9. HintsOf(facts, b, N) = {}
  <2>1. \A x \in {y \in LostOf(facts, b, N) : StillCarried(facts, b, y)} :
          Share(x.dep, x.mb, Reached(facts[x.dep], facts[b].target)).landing = 0
    BY <1>6, <1>7 DEF Share
  <2> QED
    BY <2>1 DEF HintsOf
<1> QED
  BY <1>8, <1>9 DEF N, left

LEMMA SharesStay ==
  ASSUME RepoInv, NEW facts, FactsOk(facts), NEW b \in Branch, NEW S, NEW H, status[b] # "cancelled"
  PROVE  KeptOf(facts, b, SharesOf(facts, b, S, H)) = HintsOf(facts, b, S) \cup KeptOf(facts, b, H)
<1> DEFINE G == SharesOf(facts, b, S, H)
<1>1. G = PairShares(facts, b) \cup HintsOf(facts, b, S) \cup KeptOf(facts, b, H)
  BY DEF SharesOf
<1>2. \A s \in PairShares(facts, b) : s.mb = 0
  BY DEF PairShares, Share
<1>3. 0 \notin Unlanded(facts, b)
  <2>1. CASE Listed(facts, b)
    <3>1. facts[b].head \in Made
      BY <2>1 DEF Listed, FactsOk, Known, FactOk, Made, RepoInv, CommitsOk
    <3>2. commits[facts[b].head].anc \subseteq Made /\ 0 \notin Made
      BY <3>1, CommitHas DEF RepoInv, Made
    <3> QED
      BY <3>2 DEF Unlanded
  <2>2. CASE ~Listed(facts, b)
    BY <2>2 DEF Unlanded
  <2> QED
    BY <2>1, <2>2
<1>4. ASSUME NEW s \in HintsOf(facts, b, S)
      PROVE  /\ s.mb # 0 /\ ~Related(facts, b, s.dep)
             /\ s.mb \in Unlanded(facts, b) /\ ~MergedInto(facts[b], s.landing)
  <2>1. PICK x \in LostOf(facts, b, S) : /\ StillCarried(facts, b, x)
                                         /\ s = Share(x.dep, x.mb, Reached(facts[x.dep], facts[b].target))
    BY <1>4 DEF HintsOf
  <2>2. s.dep = x.dep /\ s.mb = x.mb
    BY <2>1 DEF Share
  <2>3. ~Related(facts, b, x.dep)
    BY DEF LostOf
  <2>4. x.mb \in Unlanded(facts, b)
    BY <2>1 DEF StillCarried
  <2>5. ~MergedInto(facts[b], s.landing)
    BY <1>4 DEF HintsOf
  <2> QED
    BY <1>3, <2>2, <2>3, <2>4, <2>5
<1> HIDE DEF G
<1>5. KeptOf(facts, b, G) = HintsOf(facts, b, S) \cup KeptOf(facts, b, H)
  BY <1>1, <1>2, <1>4 DEF KeptOf
<1> QED
  BY <1>5 DEF G

LEMMA RowStays ==
  ASSUME RepoInv, NEW facts, FactsOk(facts), NEW b \in Branch, NEW S, EdgesOk(S), NEW H
  PROVE  LET r == RowOf(facts, b, S, H) IN RowOf(facts, b, r.needs, r.shares) = r
<1> DEFINE N == NeedsOf(facts, b, S)
           G == SharesOf(facts, b, S, H)
           r == RowOf(facts, b, S, H)
<1>1. Reachable(facts)
  BY TargetsAreThere
<1>2. NeedsOf(facts, b, N) = N
  <2>1. CASE status[b] = "cancelled"
    BY <2>1 DEF NeedsOf
  <2>2. CASE status[b] # "cancelled"
    <3>1. LeftOf(facts, b, N) = LeftOf(facts, b, S)
      BY <1>1, <2>2, NeedsStay
    <3> QED
      BY <2>2, <3>1 DEF NeedsOf
  <2> QED
    BY <2>1, <2>2
<1>3. SharesOf(facts, b, N, G) = G
  <2>1. CASE status[b] = "cancelled"
    BY <2>1 DEF SharesOf
  <2>2. CASE status[b] # "cancelled"
    <3>1. HintsOf(facts, b, N) = {}
      BY <1>1, <2>2, NeedsStay
    <3>2. KeptOf(facts, b, G) = HintsOf(facts, b, S) \cup KeptOf(facts, b, H)
      BY <2>2, SharesStay
    <3> QED
      BY <2>2, <3>1, <3>2 DEF SharesOf
  <2> QED
    BY <2>1, <2>2
<1>4. DOMAIN facts[b] = Fields
  BY DEF FactsOk, Known, FactOk
<1>5. r = [facts[b] EXCEPT !.needs = N, !.shares = G]
  BY DEF RowOf
<1> HIDE DEF N, G, r
<1>6. r.needs = N /\ r.shares = G
  BY <1>4, <1>5 DEF Fields
<1>7. RowOf(facts, b, N, G) = r
  BY <1>2, <1>3, <1>5 DEF RowOf
<1> QED
  BY <1>6, <1>7 DEF r
-----------------------------------------------------------------------------
(* Where branches go, by what matters to that.                             *)

LEMMA SameChain ==
  ASSUME NEW t, NEW cm, NEW rw, NEW facts, NEW b
  PROVE  At(t, status, cm, rw)!ChainOf(facts, b) = ChainOf(facts, b)
<1>1. At(t, status, cm, rw)!Cardinality(Branch) = Cardinality(Branch)
  BY DEF At!Cardinality, Cardinality
<1>2. At(t, status, cm, rw)!ChainOf(facts, b)
        = (CHOOSE g : IsWalk(g, facts, b, At(t, status, cm, rw)!Cardinality(Branch)))[At(t, status, cm, rw)!Cardinality(Branch)]
  BY DEF At!ChainOf, IsWalk, At!Longer, Longer, At!BaseOf, BaseOf, At!LastOf, LastOf, At!Passed, Passed,
         At!Owned, Owned, At!Fixed, Fixed
<1> QED
  BY <1>1, <1>2, ChainChooses

LEMMA SameFallback ==
  ASSUME NEW t, NEW cm, NEW rw, \A x \in Track : t[x] # 0 /\ tips[x] # 0
  PROVE  At(t, status, cm, rw)!Fallback = Fallback
  BY DEF At!Fallback, Fallback, At!There, There

(* Targets depend on the bases of PRs that are there.                      *)
LEMMA SameTargets ==
  ASSUME RepoAssumption, RepoInv, NEW t, NEW cm, NEW rw, NEW facts, Known(facts),
         \A x \in Fixed : t[x] = tips[x],
         \A b \in Branch : facts[b].pr # None => t[facts[b].pr.base] = tips[facts[b].pr.base]
  PROVE  At(t, status, cm, rw)!WithTargets(facts) = WithTargets(facts)
<1>1. At(t, status, cm, rw)!Fallback = Fallback
  <2>1. \A x \in Track : x \in Fixed /\ x \in LongLived /\ There(x)
    BY DEF RepoAssumption, Fixed, RepoInv, TipsOk
  <2>2. \A x \in Track : t[x] # 0 /\ tips[x] # 0
    BY <2>1 DEF There
  <2> QED
    BY <2>2, SameFallback
<1>2. ASSUME NEW b \in Branch PROVE At(t, status, cm, rw)!Follow(facts, b) = Follow(facts, b)
  <2> DEFINE chain == ChainOf(facts, b)
             base  == BaseOf(facts, LastOf(b, chain))
             Ends(target, orphan) == [target |-> target, orphan |-> orphan, chain |-> chain]
  <2>1. At(t, status, cm, rw)!ChainOf(facts, b) = chain
    BY SameChain
  <2>2. ChainOk(b, chain)
    BY ChainIsOk
  <2> HIDE DEF chain
  <2>3. LastOf(b, chain) \in Branch
    BY <2>2, LastIsBranch
  <2>4. base # None => t[base] = tips[base]
    BY <2>3 DEF BaseOf
  <2>5. Follow(facts, b) =
          IF base \in {None} \cup Passed(b, chain) THEN Ends(Fallback, None)
          ELSE IF base \in Fixed THEN Ends(base, None)
          ELSE IF tips[base] # 0 /\ base \notin Branch THEN Ends(base, IF Track = {} THEN None ELSE base)
          ELSE Ends(Fallback, base)
    BY DEF Follow, chain, There
  <2>6. At(t, status, cm, rw)!BaseOf(facts, At(t, status, cm, rw)!LastOf(b, chain)) = base
    BY DEF At!BaseOf, BaseOf, At!LastOf, LastOf
  <2>7. At(t, status, cm, rw)!Passed(b, chain) = Passed(b, chain) /\ At(t, status, cm, rw)!Fixed = Fixed
    BY DEF At!Passed, Passed, At!Fixed, Fixed
  <2> HIDE DEF base
  <2>8. At(t, status, cm, rw)!Follow(facts, b) =
          IF base \in {None} \cup Passed(b, chain) THEN Ends(Fallback, None)
          ELSE IF base \in Fixed THEN Ends(base, None)
          ELSE IF t[base] # 0 /\ base \notin Branch THEN Ends(base, IF Track = {} THEN None ELSE base)
          ELSE Ends(Fallback, base)
    BY <1>1, <2>1, <2>6, <2>7 DEF At!Follow, At!There
  <2> QED
    BY <2>4, <2>5, <2>8
<1>3. At(t, status, cm, rw)!WithTargets(facts) =
        [b \in Branch |->
           [facts[b] EXCEPT !.target = At(t, status, cm, rw)!Follow(facts, b).target,
                            !.orphan = At(t, status, cm, rw)!Follow(facts, b).orphan,
                            !.chain  = At(t, status, cm, rw)!Follow(facts, b).chain]]
  <2>1. \A f : At(t, status, cm, rw)!Once(f) = f
    BY DEF At!Once
  <2> QED
    BY <2>1 DEF At!WithTargets
<1>4. WithTargets(facts) =
        [b \in Branch |->
           [facts[b] EXCEPT !.target = Follow(facts, b).target, !.orphan = Follow(facts, b).orphan,
                            !.chain  = Follow(facts, b).chain]]
  BY OnceIsAll DEF WithTargets
<1> QED
  BY <1>2, <1>3, <1>4

-----------------------------------------------------------------------------
(* What a row has that a compute reads from GitHub, and what it adds.      *)

Bare(r) == [NoRow EXCEPT !.head = r.head, !.pr = r.pr, !.prs = r.prs, !.prHead = r.prHead]
Bared(rw) == [b \in Branch |-> Bare(rw[b])]

LEMMA BareHas ==
  ASSUME NEW r
  PROVE  /\ Bare(r).head = r.head /\ Bare(r).pr = r.pr /\ Bare(r).prs = r.prs /\ Bare(r).prHead = r.prHead
         /\ Bare(Bare(r)) = Bare(r)
  BY DEF Bare, NoRow

LEMMA SameBare ==
  ASSUME NEW r, NEW q, r.head = q.head, r.pr = q.pr, r.prs = q.prs, r.prHead = q.prHead
  PROVE  Bare(r) = Bare(q)
  BY DEF Bare

(* Nothing but what is read.                                               *)
IsBare(r) ==
  /\ DOMAIN r = Fields /\ r = [x \in Fields |-> r[x]]
  /\ r.chain = <<>> /\ r.orphan = None /\ r.target = Main /\ r.needs = {} /\ r.shares = {} /\ r.error = FALSE

LEMMA BareIsBare == ASSUME NEW r PROVE IsBare(Bare(r))
  BY DEF IsBare, Bare, NoRow, Fields

LEMMA BareAgain == ASSUME NEW r, IsBare(r) PROVE Bare(r) = r
<1> DEFINE s == Bare(r)
<1>1. IsBare(s)
  BY BareIsBare
<1>2. s.head = r.head /\ s.pr = r.pr /\ s.prs = r.prs /\ s.prHead = r.prHead
  BY BareHas
<1> HIDE DEF s
<1>3. \A x \in Fields : s[x] = r[x]
  BY <1>1, <1>2 DEF IsBare, Fields
<1>4. s = r
  BY <1>1, <1>3 DEF IsBare
<1> QED
  BY <1>4 DEF s

(* A compute reads a branch's head, and has its PRs by that head.          *)
LEMMA FactIsBare ==
  ASSUME NEW b, NEW moved
  PROVE  LET fact == BranchFact(b, moved) IN
         /\ Bare(fact) = fact
         /\ There(b) => fact.head = tips[b]
         /\ fact.head # 0 => fact.prHead = fact.head
<1> DEFINE old  == Old(b)
           head == IF There(b) THEN tips[b] ELSE old.head
           row  == [NoRow EXCEPT !.head = head, !.pr = old.pr, !.prs = old.prs, !.prHead = old.prHead]
           fact == BranchFact(b, moved)
<1>1. IsBare(row) /\ row.head = head /\ row.prHead = old.prHead
  BY DEF IsBare, NoRow, Fields
<1> HIDE DEF row
<1>2. CASE AskAgain(old, head, moved)
  <2> DEFINE seen == {Pr(n) : n \in {m \in PrsOf(b) : prs[m].state # "closed"}}
  <2>1. fact = [row EXCEPT !.pr = Current(b), !.prHead = head, !.prs = seen]
    BY <1>2 DEF BranchFact, row
  <2> HIDE DEF seen, fact, head
  <2>2. IsBare(fact) /\ fact.head = head /\ fact.prHead = head
    BY <1>1, <2>1 DEF IsBare, Fields
  <2> QED
    BY <2>2, BareAgain DEF fact, head
<1>3. CASE ~AskAgain(old, head, moved)
  <2>1. head # 0 => old.prHead = head
    BY <1>3 DEF AskAgain
  <2>2. CASE ClosedInto(old, moved)
    <3> DEFINE seen == {p \in old.prs : p.n # old.pr.n} \cup
                       (IF prs[old.pr.n].state = "merged" THEN {Pr(old.pr.n)} ELSE {})
    <3>1. fact = [row EXCEPT !.pr = Pr(old.pr.n), !.prs = seen]
      BY <1>3, <2>2 DEF BranchFact, row
    <3> HIDE DEF seen, fact, head
    <3>2. IsBare(fact) /\ fact.head = head /\ fact.prHead = old.prHead
      BY <1>1, <3>1 DEF IsBare, Fields
    <3> QED
      BY <2>1, <3>2, BareAgain DEF fact, head
  <2>3. CASE ~ClosedInto(old, moved)
    <3>1. fact = row
      BY <1>3, <2>3 DEF BranchFact, row
    <3> QED
      BY <1>1, <2>1, <3>1, BareAgain
  <2> QED
    BY <2>2, <2>3
<1> QED
  BY <1>2, <1>3

(* Where nothing moved, it finds what is stored.                           *)
LEMMA FactIsStored ==
  ASSUME NEW b \in DOMAIN rows, There(b) => rows[b].head = tips[b],
         rows[b].head # 0 => rows[b].prHead = rows[b].head
  PROVE  BranchFact(b, {}) = Bare(rows[b])
<1>1. Old(b) = rows[b] /\ (IF There(b) THEN tips[b] ELSE rows[b].head) = rows[b].head
  BY DEF Old
<1>2. ~AskAgain(rows[b], rows[b].head, {}) /\ ~ClosedInto(rows[b], {})
  BY DEF AskAgain, ClosedInto
<1> QED
  BY <1>1, <1>2 DEF BranchFact, Bare

(* What a compute stores has what it read.                                 *)
LEMMA StoredHas ==
  ASSUME RepoAssumption, RepoInv, RowsOk, NEW b \in Branch
  PROVE  Bare(NewRow(FactsNow, b)) = BranchFact(b, Moved)
<1> DEFINE raw == [a \in Branch |-> BranchFact(a, Moved)]
<1>1. Known(raw)
  BY BranchFactOk DEF Known
<1>2. FactsNow = WithTargets(raw)
  BY OnceIsAll DEF FactsNow
<1>3. raw[b] = BranchFact(b, Moved) /\ Bare(raw[b]) = raw[b]
  BY FactIsBare
<1>4. DOMAIN raw[b] = Fields
  BY <1>1 DEF Known, FactOk
<1> HIDE DEF raw
<1>5. FactsNow[b] = [raw[b] EXCEPT !.target = Follow(raw, b).target, !.orphan = Follow(raw, b).orphan,
                                   !.chain = Follow(raw, b).chain]
  <2> DEFINE all == [c \in Branch |-> LET u == Follow(raw, c) IN
                       [raw[c] EXCEPT !.target = u.target, !.orphan = u.orphan, !.chain = u.chain]]
  <2>1. FactsNow = all
    <3>1. FactsNow = Once(all)
      BY <1>2 DEF WithTargets
    <3> HIDE DEF all
    <3> QED
      BY <3>1, OnceIsAll
  <2> QED
    BY <2>1
<1>6. \E needs, shares : NewRow(FactsNow, b) = [FactsNow[b] EXCEPT !.needs = needs, !.shares = shares]
  BY DEF NewRow
<1>7. /\ DOMAIN FactsNow[b] = Fields /\ FactsNow[b].head = raw[b].head /\ FactsNow[b].pr = raw[b].pr
      /\ FactsNow[b].prs = raw[b].prs /\ FactsNow[b].prHead = raw[b].prHead
  BY <1>4, <1>5 DEF Fields
<1>8. /\ NewRow(FactsNow, b).head = raw[b].head /\ NewRow(FactsNow, b).pr = raw[b].pr
      /\ NewRow(FactsNow, b).prs = raw[b].prs /\ NewRow(FactsNow, b).prHead = raw[b].prHead
  BY <1>6, <1>7 DEF Fields
<1> QED
  BY <1>3, <1>8, SameBare

-----------------------------------------------------------------------------
(* A compute that is skipped would have found what is stored.              *)

(* Rows that a compute found where the tips were t, the commits cm and the *)
(* items' statuses st.                                                     *)
Stored(t, cm, st, rw) ==
  /\ Len(cm) \in Nat
  /\ \A x \in Names : t[x] \in 0..Len(cm)
  /\ \A b \in Branch :
       /\ t[b] # 0 => rw[b].head = t[b]
       /\ rw[b].head # 0 => rw[b].prHead = rw[b].head
       /\ rw[b].head \in 0..Len(cm)
       /\ \A p \in Merged(rw[b]) : p.head \in 1..Len(cm)
       /\ rw[b] = At(t, st, cm, rw)!NewRow(At(t, st, cm, rw)!WithTargets(Bared(rw)), b)

(* They are what is stored, and what the server remembers of that compute  *)
(* tells where the branches were.                                          *)
Found(t, cm, st, rw) ==
  /\ rows = rw /\ rows = [b \in Branch |-> rows[b]]
  /\ memory.signature.status = st
  /\ \A n \in DOMAIN memory.signature.tips : memory.signature.tips[n] = t[n]
  /\ memory.tracked # None /\ \A x \in Track : memory.tracked[x] = t[x]
  /\ Len(cm) <= Len(commits) /\ \A c \in 1..Len(cm) : cm[c] = commits[c]
  /\ Stored(t, cm, st, rw)

NoErrors == \A b \in DOMAIN rows : ~rows[b].error

KnownInv ==
  /\ DOMAIN memory = {"signature", "tracked"}
  /\ memory.signature # None /\ NoErrors => \E t, cm, st, rw : Found(t, cm, st, rw)

LEMMA ComputeStores ==
  ASSUME RepoAssumption, GitInv, Compute, NEW t, t = tips, NEW cm, cm = commits, NEW rw, rw = rows'
  PROVE  Stored(t, cm, status, rw) /\ DOMAIN rw = Branch
<1> DEFINE raw == [b \in Branch |-> BranchFact(b, Moved)]
           facts == FactsNow
<1>1. FactsOk(facts) /\ rw = [b \in Branch |-> NewRow(facts, b)]
  BY FactsNowOk DEF GitInv, Compute
<1>2. Known(raw) /\ facts = WithTargets(raw)
  BY BranchFactOk, OnceIsAll DEF Known, GitInv, FactsNow
<1>3. \A b \in Branch : Bare(rw[b]) = BranchFact(b, Moved)
  BY <1>1, StoredHas DEF GitInv
<1>4. Bared(rw) = raw
  BY <1>3 DEF Bared
<1>5. \A b \in Branch : RowOk(b, rw[b])
  BY <1>1, NewRowOk DEF GitInv
<1>6. \A b \in Branch : rw[b] = RowOf(facts, b, Old(b).needs, Old(b).shares)
  <2>1. ASSUME NEW b \in Branch PROVE HintsOk(Old(b).shares)
    BY OldOk DEF GitInv, RowOk, HintsOk
  <2>2. Reachable(facts)
    BY <1>1, TargetsAreThere DEF GitInv
  <2> HIDE DEF facts
  <2> QED
    BY <1>1, <2>1, <2>2, NewRowIs
<1> HIDE DEF raw, facts
<1>7. At(t, status, cm, rw)!WithTargets(raw) = facts
  <2>1. \A b \in Branch : raw[b].pr # None => t[raw[b].pr.base] = tips[raw[b].pr.base]
    OBVIOUS
  <2> QED
    BY <1>2, <2>1, SameTargets DEF GitInv
<1>8. Reachable(facts)
  BY <1>1, TargetsAreThere DEF GitInv
<1>9. Agrees(t, cm, facts)
  BY <1>8 DEF Agrees, Reachable, There
<1>10. ASSUME NEW b \in Branch
       PROVE  rw[b] = At(t, status, cm, rw)!NewRow(At(t, status, cm, rw)!WithTargets(Bared(rw)), b)
  <2>1. HintsOk(rw[b].shares)
    BY <1>5 DEF RowOk, HintsOk
  <2>2. b \in DOMAIN rw
    BY <1>1
  <2>3. At(t, status, cm, rw)!NewRow(facts, b) = RowOf(facts, b, rw[b].needs, rw[b].shares)
    BY <1>1, <1>8, <1>9, <2>1, <2>2, ThenRowIs
  <2>4. EdgesOk(Old(b).needs)
    BY OldOk DEF GitInv, RowOk, EdgesOk
  <2>5. RowOf(facts, b, rw[b].needs, rw[b].shares) = rw[b]
    BY <1>1, <1>6, <2>4, RowStays DEF GitInv
  <2> QED
    BY <1>4, <1>7, <2>3, <2>5
<1>11. ASSUME NEW b \in Branch
       PROVE  /\ t[b] # 0 => rw[b].head = t[b]
              /\ rw[b].head # 0 => rw[b].prHead = rw[b].head
  <2> DEFINE fact == BranchFact(b, Moved)
  <2>1. /\ There(b) => fact.head = tips[b]
        /\ fact.head # 0 => fact.prHead = fact.head
    BY FactIsBare
  <2>2. Bare(rw[b]).head = rw[b].head /\ Bare(rw[b]).prHead = rw[b].prHead
    BY BareHas
  <2> QED
    BY <1>3, <2>1, <2>2 DEF There
<1>12. ASSUME NEW b \in Branch
       PROVE  /\ rw[b].head \in 0..Len(cm)
              /\ \A p \in Merged(rw[b]) : p.head \in 1..Len(cm)
  <2>1. FactOk(rw[b])
    BY <1>5 DEF RowOk
  <2> QED
    BY <2>1 DEF FactOk, KnownPr, Carries, Made, Merged
<1>13. Len(cm) \in Nat /\ \A x \in Names : t[x] \in 0..Len(cm)
  BY DEF GitInv, RepoInv, CommitsOk, TipsOk
<1> QED
  BY <1>1, <1>10, <1>11, <1>12, <1>13 DEF Stored

LEMMA ComputeKnows == ASSUME RepoAssumption, GitInv, Compute PROVE KnownInv'
<1>1. PICK t, cm, rw : t = tips /\ cm = commits /\ rw = rows'
  OBVIOUS
<1>2. Stored(t, cm, status, rw) /\ DOMAIN rw = Branch
  BY <1>1, ComputeStores
<1>3. PICK st : st = status
  OBVIOUS
<1>4. Stored(t, cm, st, rw)
  BY <1>2, <1>3
<1>5. /\ memory' = [signature |-> Signature, tracked |-> [x \in Track |-> tips[x]]]
      /\ commits' = commits
  BY DEF Compute, remote
<1>6. DOMAIN memory' = {"signature", "tracked"} /\ memory'.signature = Signature
      /\ memory'.tracked = [x \in Track |-> tips[x]]
  BY <1>5
<1>7. Signature.status = st /\ \A n \in DOMAIN Signature.tips : Signature.tips[n] = t[n]
  BY <1>1, <1>3 DEF Signature
<1>8. [x \in Track |-> tips[x]] # None
  <2>1. [x \in Track |-> tips[x]] \in [Track -> Nat]
    BY DEF RepoAssumption, GitInv, RepoInv, CommitsOk, TipsOk, Names
  <2> QED
    BY <2>1 DEF RepoAssumption
<1>9. rows' = rw /\ rows' = [b \in Branch |-> rows'[b]]
  <2>1. rows' = NewRows
    BY DEF Compute
  <2>2. rows' = [b \in Branch |-> NewRow(FactsNow, b)]
    BY <2>1, FactsNowOk DEF GitInv
  <2> QED
    BY <1>1, <2>2
<1>10. Len(cm) <= Len(commits') /\ \A c \in 1..Len(cm) : cm[c] = commits'[c]
  BY <1>1, <1>5 DEF GitInv, RepoInv, CommitsOk
<1>11. Found(t, cm, st, rw)'
  BY <1>1, <1>4, <1>6, <1>7, <1>8, <1>9, <1>10 DEF Found
<1> QED
  BY <1>6, <1>11 DEF KnownInv

LEMMA SignatureIs ==
  ASSUME RepoAssumption, GitInv
  PROVE  /\ Signature # None /\ Signature.status = status
         /\ DOMAIN Signature.tips = NamesThatMatter
         /\ \A n \in NamesThatMatter : Signature.tips[n] = tips[n]
<1> DEFINE N == NamesThatMatter
<1>1. N \subseteq Names
  <2>1. ASSUME NEW b \in DOMAIN rows
        PROVE  /\ rows[b].target \in Names
               /\ \A i \in DOMAIN rows[b].chain : rows[b].chain[i] \in Names
               /\ rows[b].pr # None => rows[b].pr.base \in Names
    <3>1. RowOk(b, rows[b])
      BY <2>1 DEF GitInv, RowsOk
    <3>2. \A i \in DOMAIN rows[b].chain : rows[b].chain[i] \in Branch
      BY <3>1, ElementOfSeq DEF RowOk, ChainOk
    <3> QED
      BY <3>1, <3>2 DEF RowOk, FactOk, KnownPr, Names
  <2>2. Branch \cup Fixed \subseteq Names
    BY DEF RepoAssumption, Fixed, Names
  <2> QED
    BY <2>1, <2>2 DEF NamesThatMatter
<1>2. Signature = [tips |-> [n \in N |-> tips[n]], status |-> status, stored |-> DOMAIN rows]
  BY DEF Signature
<1> HIDE DEF N
<1>3. [n \in N |-> tips[n]] \in [N -> Nat]
  BY <1>1 DEF GitInv, RepoInv, CommitsOk, TipsOk
<1>4. [N -> Nat] \in {[M -> Nat] : M \in SUBSET (Branch \cup LongLived)}
  BY <1>1 DEF Names
<1>5. status \in [Branch -> {"open", "deferred", "cancelled"}] /\ DOMAIN rows \in SUBSET Branch
  BY DEF GitInv, RepoInv, Statuses, RowsOk
<1>6. Signature \in [tips   : UNION {[M -> Nat] : M \in SUBSET (Branch \cup LongLived)},
                     status : [Branch -> {"open", "deferred", "cancelled"}], stored : SUBSET Branch]
  BY <1>2, <1>3, <1>4, <1>5
<1>7. Signature # None
  BY <1>6 DEF RepoAssumption
<1> QED
  BY <1>2, <1>7 DEF N

(* What the last compute stored is what one would find now, if the         *)
(* branches that matter are where they were.                               *)
LEMMA SkipKnows ==
  ASSUME RepoAssumption, GitInv, NEW t, NEW cm, NEW rw, Found(t, cm, status, rw),
         \A n \in NamesThatMatter : t[n] = tips[n]
  PROVE  NewRows = rows
<1> DEFINE raw == [b \in Branch |-> BranchFact(b, Moved)]
           facts == FactsNow
<1>1. rows = rw /\ DOMAIN rw = Branch /\ Stored(t, cm, status, rw)
  BY DEF Found
<1>2. Moved = {}
  <2>1. \A x \in Track : memory.tracked[x] = tips[x]
    BY DEF Found, NamesThatMatter, Fixed
  <2> QED
    BY <2>1 DEF Moved, Found
<1>3. \A b \in Branch : b \in NamesThatMatter /\ rw[b].target \in NamesThatMatter
        /\ (rw[b].pr # None => rw[b].pr.base \in NamesThatMatter)
  BY <1>1 DEF NamesThatMatter
<1>4. \A b \in Branch : BranchFact(b, Moved) = Bare(rw[b])
  <2>1. ASSUME NEW b \in Branch PROVE BranchFact(b, {}) = Bare(rows[b])
    <3>1. (There(b) => rows[b].head = tips[b]) /\ (rows[b].head # 0 => rows[b].prHead = rows[b].head)
      BY <1>1, <1>3 DEF Stored, There
    <3> QED
      BY <1>1, <3>1, FactIsStored
  <2> QED
    BY <1>1, <1>2, <2>1
<1>5. raw = Bared(rw)
  BY <1>4 DEF Bared
<1>6. Known(raw) /\ facts = WithTargets(raw)
  BY BranchFactOk, OnceIsAll DEF Known, GitInv, FactsNow
<1>7. \A b \in Branch : raw[b].pr = rw[b].pr
  BY <1>4, BareHas
<1>8. FactsOk(facts) /\ NewRows = [b \in Branch |-> NewRow(facts, b)]
  BY FactsNowOk DEF GitInv
<1> HIDE DEF raw, facts
<1>9. At(t, status, cm, rw)!WithTargets(raw) = facts
  <2>1. \A b \in Branch : raw[b].pr # None => t[raw[b].pr.base] = tips[raw[b].pr.base]
    BY <1>3, <1>7
  <2>2. \A x \in Fixed : t[x] = tips[x]
    BY DEF NamesThatMatter
  <2> QED
    BY <1>6, <2>1, <2>2, SameTargets DEF GitInv
<1>10. \A b \in Branch : rw[b] = At(t, status, cm, rw)!NewRow(facts, b)
  BY <1>1, <1>5, <1>9 DEF Stored
<1>11. \A b \in Branch : rw[b].target = facts[b].target /\ rw[b].head = facts[b].head /\ rw[b].prs = facts[b].prs
  <2>1. ASSUME NEW b \in Branch
        PROVE  rw[b].target = facts[b].target /\ rw[b].head = facts[b].head /\ rw[b].prs = facts[b].prs
    <3>1. PICK row : row = At(t, status, cm, rw)!NewRow(facts, b)
      OBVIOUS
    <3>2. \E needs, shares : row = [facts[b] EXCEPT !.needs = needs, !.shares = shares]
      BY <3>1 DEF At!NewRow
    <3>3. rw[b] = row
      BY <1>10, <3>1
    <3>4. DOMAIN facts[b] = Fields
      BY <1>8 DEF FactsOk, Known, FactOk
    <3> QED
      BY <3>2, <3>3, <3>4 DEF Fields
  <2> QED
    BY <2>1
<1>12. Reachable(facts)
  BY <1>8, TargetsAreThere DEF GitInv
<1>13. Agrees(t, cm, facts)
  <2>1. Len(cm) \in Nat /\ (\A x \in Names : t[x] \in 0..Len(cm)) /\ \A c \in 1..Len(cm) : cm[c] = commits[c]
    BY <1>1 DEF Found, Stored
  <2>2. ASSUME NEW x \in NamesThatMatter, x \in Names
        PROVE  t[x] = tips[x] /\ (tips[x] # 0 => cm[tips[x]] = commits[tips[x]])
    <3>1. t[x] = tips[x] /\ t[x] \in 0..Len(cm)
      BY <2>1, <2>2
    <3>2. t[x] # 0 => t[x] \in 1..Len(cm)
      BY <2>1, <3>1
    <3> QED
      BY <2>1, <3>1, <3>2
  <2>3. \A x \in Branch \cup Fixed : x \in NamesThatMatter /\ x \in Names
    BY DEF RepoAssumption, NamesThatMatter, Fixed, Names
  <2>4. ASSUME NEW b \in Branch
        PROVE  /\ t[facts[b].target] = tips[facts[b].target] /\ tips[facts[b].target] # 0
               /\ cm[tips[facts[b].target]] = commits[tips[facts[b].target]]
    <3>1. facts[b].target \in NamesThatMatter /\ facts[b].target \in Names /\ tips[facts[b].target] # 0
      BY <1>3, <1>8, <1>11, <1>12 DEF FactsOk, Targeted, Reachable, There, Names
    <3> QED
      BY <2>2, <3>1
  <2>5. ASSUME NEW b \in Branch
        PROVE  /\ facts[b].head # 0 => cm[facts[b].head] = commits[facts[b].head]
               /\ \A p \in Merged(facts[b]) : cm[p.head] = commits[p.head]
    <3>1. rw[b].head \in 0..Len(cm) /\ \A p \in Merged(rw[b]) : p.head \in 1..Len(cm)
      BY <1>1 DEF Stored
    <3>2. facts[b].head \in 0..Len(cm) /\ \A p \in Merged(facts[b]) : p.head \in 1..Len(cm)
      BY <1>11, <3>1 DEF Merged
    <3>3. facts[b].head # 0 => facts[b].head \in 1..Len(cm)
      BY <2>1, <3>2
    <3> QED
      BY <2>1, <3>2, <3>3
  <2> QED
    BY <2>2, <2>3, <2>4, <2>5 DEF Agrees
<1>14. ASSUME NEW b \in Branch PROVE NewRow(facts, b) = rw[b]
  <2>1. Old(b) = rw[b] /\ b \in DOMAIN rw
    BY <1>1 DEF Old
  <2>2. HintsOk(rw[b].shares) /\ HintsOk(Old(b).shares)
    BY <2>1, OldOk DEF GitInv, RowOk, HintsOk
  <2>3. At(t, status, cm, rw)!NewRow(facts, b) = RowOf(facts, b, rw[b].needs, rw[b].shares)
    BY <1>8, <1>12, <1>13, <2>1, <2>2, ThenRowIs
  <2>4. NewRow(facts, b) = RowOf(facts, b, Old(b).needs, Old(b).shares)
    BY <1>12, <2>2, NewRowIs
  <2> QED
    BY <1>10, <2>1, <2>3, <2>4
<1>15. rows = [b \in Branch |-> rw[b]]
  BY DEF Found
<1> QED
  BY <1>8, <1>14, <1>15

LEMMA KnownGives == ASSUME RepoAssumption, GitInv, KnownInv PROVE SkippedIsKnown
<1> SUFFICES ASSUME Skips, \A b \in DOMAIN rows : ~rows[b].error PROVE NewRows = rows
  BY DEF SkippedIsKnown
<1>1. memory.signature = Signature
  BY DEF Skips
<1>2. PICK t, cm, st, rw : Found(t, cm, st, rw)
  BY <1>1, SignatureIs DEF KnownInv, NoErrors
<1>3. st = status /\ \A n \in NamesThatMatter : t[n] = tips[n]
  BY <1>1, <1>2, SignatureIs DEF Found
<1>4. Found(t, cm, status, rw)
  BY <1>2, <1>3
<1> QED
  BY <1>3, <1>4, SkipKnows

(* What is remembered stays true while nothing is computed.                *)
LEMMA KnownStays ==
  ASSUME RepoInv, KnownInv, Grown, memory' = memory, rows' = rows PROVE KnownInv'
<1>1. ASSUME NEW t, NEW cm, NEW st, NEW rw, Found(t, cm, st, rw) PROVE Found(t, cm, st, rw)'
  <2>1. Stored(t, cm, st, rw) /\ Len(cm) \in Nat
    BY <1>1 DEF Found, Stored
  <2>2. Len(cm) <= Len(commits') /\ \A c \in 1..Len(cm) : cm[c] = commits'[c]
    <3>1. Len(commits) \in Nat /\ Len(cm) <= Len(commits) /\ \A c \in 1..Len(cm) : cm[c] = commits[c]
      BY <1>1 DEF Found, RepoInv, CommitsOk
    <3> QED
      BY <2>1, <3>1 DEF Grown, Made
  <2> QED
    BY <1>1, <2>1, <2>2 DEF Found
<1>2. memory.signature # None /\ NoErrors' => \E t, cm, st, rw : Found(t, cm, st, rw)'
  BY <1>1 DEF KnownInv, NoErrors
<1> QED
  BY <1>2 DEF KnownInv, NoErrors

LEMMA KnownStart == ASSUME Init PROVE KnownInv
<1>1. DOMAIN memory = {"signature", "tracked"} /\ memory.signature = None
  BY DEF Init, NoMemory
<1> QED
  BY <1>1 DEF KnownInv

LEMMA FailureKeepsKnown == ASSUME RepoAssumption, GitInv, KnownInv, ComputeFails PROVE KnownInv'
<1>1. UNCHANGED <<remote, status>> /\ memory' = memory
  BY DEF ComputeFails
<1>2. RepoInv' /\ Grown
  BY <1>1, RemoteStays DEF GitInv
<1>3. CASE DOMAIN rows = {}
  <2>1. rows' = [b \in {} |-> rows[b]]
    BY <1>3 DEF ComputeFails
  <2>2. ASSUME NEW t, NEW cm, NEW st, NEW rw, Found(t, cm, st, rw) PROVE rows' = rows
    BY <1>3, <2>1, <2>2 DEF Found
  <2>3. CASE rows' = rows
    BY <1>1, <1>2, <2>3, KnownStays DEF GitInv
  <2>4. CASE rows' # rows
    BY <1>1, <1>3, <2>2, <2>4 DEF KnownInv, NoErrors
  <2> QED
    BY <2>3, <2>4
<1>4. CASE DOMAIN rows # {}
  <2>1. PICK b \in DOMAIN rows : TRUE
    BY <1>4
  <2>2. DOMAIN rows[b] = Fields
    BY DEF GitInv, RowsOk, RowOk, FactOk
  <2>3. b \in DOMAIN rows' /\ rows'[b].error
    BY <2>2 DEF ComputeFails, Fields
  <2>4. ~NoErrors'
    BY <2>3 DEF NoErrors
  <2> QED
    BY <1>1, <2>4 DEF KnownInv
<1> QED
  BY <1>3, <1>4

LEMMA ForgettingKeepsKnown ==
  ASSUME KnownInv, memory' = NoMemory \/ memory' = [memory EXCEPT !.signature = None] PROVE KnownInv'
<1>1. DOMAIN memory' = {"signature", "tracked"} /\ memory'.signature = None
  BY DEF NoMemory, KnownInv
<1> QED
  BY <1>1 DEF KnownInv

LEMMA NextKeepsKnown == ASSUME RepoAssumption, GitInv, KnownInv, [Next]_vars PROVE KnownInv'
<1>1. ASSUME NEW b \in Branch, NEW f \in Names,
             Push(b) \/ Rewrite(b) \/ ClosePr(b) \/ MergePr(b) \/ DeleteBranch(b) \/ Move(b) \/ MergeIn(b, f) \/ OpenPr(b, f)
      PROVE  KnownInv'
  <2>1. RepoInv' /\ Grown
    BY <1>1, PushKeepsRepo, RewriteKeepsRepo, ClosePrKeepsRepo, MergePrKeepsRepo, DeleteKeepsRepo, MoveKeepsRepo,
       MergeInKeepsRepo, OpenPrKeepsRepo DEF GitInv
  <2>2. rows' = rows /\ memory' = memory
    BY <1>1 DEF Push, Rewrite, ClosePr, MergePr, DeleteBranch, Move, MergeIn, OpenPr, Facts
  <2> QED
    BY <2>1, <2>2, KnownStays DEF GitInv
<1>2. CASE \E b \in Branch : Push(b) \/ Rewrite(b) \/ ClosePr(b) \/ MergePr(b) \/ DeleteBranch(b) \/ Move(b)
  <2>1. \E f \in Names : TRUE
    BY DEF RepoAssumption, Names
  <2> QED
    BY <1>1, <1>2, <2>1
<1>3. CASE \E b \in Branch, f \in Branch \cup LongLived : MergeIn(b, f) \/ OpenPr(b, f)
  BY <1>1, <1>3 DEF Names
<1>4. CASE \E b \in Branch : Refuse(b)
  BY <1>4, ForgettingKeepsKnown DEF Refuse
<1>5. CASE Compute
  BY <1>5, ComputeKnows
<1>6. CASE ComputeFails
  BY <1>6, FailureKeepsKnown
<1>7. CASE Restart
  BY <1>7, ForgettingKeepsKnown DEF Restart
<1>8. CASE UNCHANGED vars
  BY <1>8, RemoteStays, KnownStays DEF vars, remote, GitInv
<1> QED
  BY <1>2, <1>3, <1>4, <1>5, <1>6, <1>7, <1>8 DEF Next

(* A compute that is skipped because nothing it depends on changed would   *)
(* have stored what is stored, unless GitHub failed since.                 *)
THEOREM SkipsAreKnown == ASSUME RepoAssumption PROVE Spec => []SkippedIsKnown
<1>1. Init => KnownInv
  BY KnownStart
<1>2. GitInv /\ KnownInv /\ [Next]_vars => KnownInv'
  BY NextKeepsKnown
<1>3. GitInv /\ KnownInv => SkippedIsKnown
  BY KnownGives
<1> QED
  BY <1>1, <1>2, <1>3, GitInvariance, PTL DEF Spec
=============================================================================
