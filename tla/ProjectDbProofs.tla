---------------------------- MODULE ProjectDbProofs ----------------------------
(***************************************************************************)
(* What one op and one unit do to a project's tables (ProjectDb): the      *)
(* create, set and remove of server/lib/apply.ts with bump, recalc and     *)
(* statusChanged.  "Tables" is kept by each primitive step and so by each  *)
(* op; the derived statuses, which are wrong between a task's change and   *)
(* the recomputation after it, are followed apart and meet the rest again  *)
(* in "Sound".  A unit is a run of ops, which an induction over its length *)
(* follows.  The proofs about TeamServer and TodoSync rest on these.       *)
(***************************************************************************)
EXTENDS ProjectDb, SequenceTheorems, WellFoundedInduction, TLAPS

(* A set of naturals has a least one.  An induction over numbers is, in    *)
(* these proofs, about the least one for which a claim fails.              *)
LEMMA LeastNatural ==
  ASSUME NEW T, T \subseteq Nat, T # {}
  PROVE  \E x \in T : \A y \in T : x <= y
<1> DEFINE R == {ss \in Nat \X Nat : ss[1] < ss[2]}
<1>1. IsWellFoundedOn(R, Nat)
  BY NatLessThanWellFounded DEF OpToRel
<1>2. \A x, y \in Nat : <<y, x>> \in R <=> y < x
  BY SMT
<1> HIDE DEF R
<1>3. PICK x \in T : \A y \in T : ~(<<y, x>> \in R)
  BY <1>1, WFMin
<1>4. ASSUME NEW y \in T PROVE x <= y
  <2>1. x \in Nat /\ y \in Nat /\ ~(<<y, x>> \in R)
    BY <1>3
  <2>2. ~(y < x)
    BY <1>2, <2>1
  <2> QED
    BY <2>1, <2>2
<1> QED
  BY <1>4

(* Of the in-flight statuses that occur, one wins (CALC_PRECEDENCE).       *)
LEMMA SmallestRank ==
  ASSUME NEW R \in SUBSET DOMAIN CalcPrecedence, R # {}
  PROVE  \E i \in R : \A j \in R : i <= j
<1>1. R \subseteq 1..11
  BY DEF CalcPrecedence
<1> QED
  BY <1>1

(* The roll-up of any set of statuses is a status or none                  *)
(* (deriveCalcStatus).                                                     *)
LEMMA DerivedIsStatus ==
  ASSUME NEW S
  PROVE  DeriveCalcStatus(S) \in Statuses \cup {NoStatus}
<1> DEFINE live   == S \ Parked
           ranked == {i \in DOMAIN CalcPrecedence : CalcPrecedence[i] \in live}
           least  == CHOOSE i \in ranked : \A j \in ranked : i <= j
<1>1. \A i \in DOMAIN CalcPrecedence : CalcPrecedence[i] \in Statuses
  BY DEF CalcPrecedence, Statuses
<1>2. ranked # {} => least \in DOMAIN CalcPrecedence
  BY SmallestRank
<1>3. \/ DeriveCalcStatus(S) \in {NoStatus, "cancelled", "deferred", "deployed", "done", "todo"}
      \/ ranked # {} /\ DeriveCalcStatus(S) = CalcPrecedence[least]
  BY DEF DeriveCalcStatus
<1>4. {"cancelled", "deferred", "deployed", "done", "todo"} \subseteq Statuses
  BY DEF Statuses
<1> HIDE DEF ranked, least
<1> QED
  BY <1>1, <1>2, <1>3, <1>4

(* What every op keeps of the tables.                                      *)
Tables(d) == d \in Db /\ StatusesIn(d) /\ VersionsIn(d) /\ TombsIn(d)

(* The feed is a sequence, whose length is the project's seq.              *)
LEMMA FeedIsSeq ==
  ASSUME NEW d \in Db
  PROVE  d.feed \in Seq(Change) /\ Len(d.feed) \in Nat /\ DOMAIN d.feed = 1..Len(d.feed)
<1>1. d.feed \in Seq(Change)
  BY DEF Db
<1> QED
  BY <1>1, LenProperties

(* b is d with one change appended to the feed.                            *)
IsBump(b, d, uid, n, deleted) ==
  /\ b \in Db
  /\ b.rows = d.rows /\ b.tombs = d.tombs /\ b.calc = d.calc /\ b.trail = d.trail
  /\ Len(d.feed) \in Nat
  /\ DOMAIN d.feed = 1..Len(d.feed)
  /\ DOMAIN b.feed = 1..(Len(d.feed) + 1)
  /\ Len(b.feed) = Len(d.feed) + 1
  /\ \A s \in DOMAIN d.feed : b.feed[s] = d.feed[s]
  /\ b.feed[Len(d.feed) + 1] = [uid |-> uid, trail |-> n, deleted |-> deleted]

(* bump appends one change and touches nothing else.                       *)
LEMMA BumpAppends ==
  ASSUME NEW d \in Db, NEW uid \in Uid, NEW n \in Nat, NEW deleted \in BOOLEAN
  PROVE  IsBump(Bump(d, uid, n, deleted), d, uid, n, deleted)
<1> DEFINE e == [uid |-> uid, trail |-> n, deleted |-> deleted]
           b == Bump(d, uid, n, deleted)
<1>1. d.feed \in Seq(Change) /\ e \in Change
  BY DEF Db, Change
<1>2. b = [d EXCEPT !.feed = Append(d.feed, e)]
  BY DEF Bump
<1>3. b.feed = Append(d.feed, e) /\ b \in Db
      /\ b.rows = d.rows /\ b.tombs = d.tombs /\ b.calc = d.calc /\ b.trail = d.trail
  <2> HIDE DEF e
  <2>1. Append(d.feed, e) \in Seq(Change)
    BY <1>1, AppendProperties
  <2> QED
    BY <1>2, <2>1 DEF Db
<1> HIDE DEF b
<1>4. /\ Len(b.feed) = Len(d.feed) + 1
      /\ \A s \in 1..Len(d.feed) : b.feed[s] = d.feed[s]
      /\ b.feed[Len(d.feed) + 1] = e
  <2> HIDE DEF e
  <2> QED
    BY <1>1, <1>3, AppendProperties
<1>5. DOMAIN d.feed = 1..Len(d.feed) /\ DOMAIN b.feed = 1..Len(b.feed) /\ Len(d.feed) \in Nat
  BY <1>3, FeedIsSeq
<1> QED
  BY <1>3, <1>4, <1>5 DEF IsBump, b

(* A value of the tables that differs from d in no row and no tombstone,   *)
(* and has the feed of d as the first part of its own, is as good as d.    *)
LEMMA FeedGrows ==
  ASSUME NEW d, Tables(d), NEW e \in Db,
         e.rows = d.rows, e.tombs = d.tombs,
         Len(d.feed) <= Len(e.feed),
         \A s \in DOMAIN d.feed : e.feed[s] = d.feed[s]
  PROVE  Tables(e)
<1>1. DOMAIN d.feed = 1..Len(d.feed) /\ DOMAIN e.feed = 1..Len(e.feed)
      /\ Len(d.feed) \in Nat /\ Len(e.feed) \in Nat
  BY DEF Tables, Db
<1>2. StatusesIn(e)
  BY DEF Tables, StatusesIn
<1>3. ASSUME NEW u \in Uid, e.rows[u] # None, NEW f \in Field, e.rows[u].ver[f] > 0
      PROVE  /\ e.rows[u].ver[f] <= Len(e.feed)
             /\ e.feed[e.rows[u].ver[f]] = [uid |-> u, trail |-> 0, deleted |-> FALSE]
  <2>1. d.rows[u] = e.rows[u] /\ d.rows[u] # None
    BY <1>3 DEF Tables
  <2>2. d.rows[u] \in Row
    BY <2>1 DEF Db
  <2>3. d.rows[u].ver[f] \in Nat
    BY <2>2 DEF Row
  <2>4. /\ d.rows[u].ver[f] <= Len(d.feed)
        /\ d.feed[d.rows[u].ver[f]] = [uid |-> u, trail |-> 0, deleted |-> FALSE]
    BY <1>3, <2>1 DEF Tables, VersionsIn
  <2>5. d.rows[u].ver[f] \in 1..Len(d.feed)
    BY <1>1, <1>3, <2>1, <2>3, <2>4
  <2> QED
    BY <1>1, <2>1, <2>3, <2>4, <2>5
<1>4. TombsIn(e)
  BY <1>1 DEF Tables, TombsIn
<1> QED
  BY <1>2, <1>3, <1>4 DEF Tables, VersionsIn

(* A change of its own disturbs neither rows nor tombstones (bump).        *)
LEMMA BumpKeeps ==
  ASSUME NEW d, Tables(d), NEW uid \in Uid, NEW n \in Nat, NEW deleted \in BOOLEAN
  PROVE  Tables(Bump(d, uid, n, deleted))
<1> DEFINE b == Bump(d, uid, n, deleted)
<1>1. IsBump(b, d, uid, n, deleted)
  BY BumpAppends DEF Tables
<1> HIDE DEF b
<1>3. Tables(b)
  BY <1>1, FeedGrows DEF IsBump
<1> QED
  BY <1>3 DEF b

(* Recomputing a derived status disturbs neither (recalc).                 *)
LEMMA AfterTaskKeeps ==
  ASSUME NEW d, Tables(d), NEW uid \in Uid, NEW item \in Item
  PROVE  Tables(AfterTask(d, uid, item))
<1> DEFINE c == DeriveCalcStatus(TaskStatuses(d, item))
           e == [d EXCEPT !.calc[item] = c]
<1>1. c \in Statuses \cup {NoStatus}
  BY DerivedIsStatus
<1> HIDE DEF c
<1>2. e \in Db /\ e.rows = d.rows /\ e.tombs = d.tombs /\ e.feed = d.feed
  BY <1>1 DEF Db, Tables
<1>3. item \in Uid
  BY DEF Uid
<1> HIDE DEF e
<1>4. Tables(e)
  BY <1>2, FeedGrows, FeedIsSeq DEF Tables
<1>5. Tables(Bump(e, item, 0, FALSE))
  BY <1>3, <1>4, BumpKeeps
<1> QED
  BY <1>5 DEF AfterTask, Recalc, e, c
(* A history row keeps the tables' types, and what holds of them           *)
(* (statusChanged).                                                        *)
LEMMA StatusChangedIsDb ==
  ASSUME NEW d \in Db, NEW item \in Item,
         NEW from \in Value \cup {None}, NEW to \in Value \cup {None}
  PROVE  StatusChanged(d, item, from, to) \in Db
         /\ (Tables(d) => Tables(StatusChanged(d, item, from, to)))
<1> DEFINE Step == [from : Value \cup {None}, to : Value \cup {None}]
           longer == Append(d.trail[item], [from |-> from, to |-> to])
           e == [d EXCEPT !.trail[item] = longer]
           n == Len(d.trail[item]) + 1
<1>1. d.trail[item] \in Seq(Step) /\ n \in Nat
  <2>1. d.trail[item] \in Seq(Step)
    BY DEF Db
  <2> QED
    BY <2>1, LenProperties
<1>2. longer \in Seq(Step)
  <2>1. [from |-> from, to |-> to] \in Step
    OBVIOUS
  <2> QED
    BY <1>1, <2>1, AppendProperties
<1> HIDE DEF longer, n
<1>3. e \in Db /\ e.rows = d.rows /\ e.tombs = d.tombs /\ e.feed = d.feed
  BY <1>2 DEF Db
<1> HIDE DEF e
<1>4. item \in Uid
  BY DEF Uid
<1>5. Bump(e, item, n, FALSE) \in Db
  BY <1>1, <1>3, <1>4, BumpAppends DEF IsBump
<1>6. ASSUME Tables(d) PROVE Tables(Bump(e, item, n, FALSE))
  <2>1. Tables(e)
    BY <1>3, <1>6, FeedGrows, FeedIsSeq
  <2> QED
    BY <1>1, <1>4, <2>1, BumpKeeps
<1> QED
  BY <1>5, <1>6 DEF StatusChanged, e, longer, n

(* Clearing a tombstone leaves the others true (create).                   *)
LEMMA ClearedKeeps ==
  ASSUME NEW d, Tables(d), NEW uid \in Uid
  PROVE  Tables(Cleared(d, uid)) /\ Cleared(d, uid).rows = d.rows
         /\ Cleared(d, uid).feed = d.feed /\ Cleared(d, uid).tombs[uid] = None
<1> DEFINE e == Cleared(d, uid)
<1>1. e \in Db /\ e.rows = d.rows /\ e.feed = d.feed
      /\ e.tombs = [d.tombs EXCEPT ![uid] = None] /\ e.tombs[uid] = None
  BY DEF Cleared, Db, Tables
<1> HIDE DEF e
<1>2. StatusesIn(e) /\ VersionsIn(e)
  BY <1>1 DEF Tables, StatusesIn, VersionsIn
<1>3. TombsIn(e)
  <2> SUFFICES ASSUME NEW u \in Uid, e.tombs[u] # None
               PROVE  /\ e.rows[u] = None
                      /\ e.tombs[u].seq \in DOMAIN e.feed
                      /\ e.feed[e.tombs[u].seq] = [uid |-> u, trail |-> 0, deleted |-> TRUE]
    BY DEF TombsIn
  <2>1. e.tombs[u] = d.tombs[u]
    BY <1>1 DEF Db, Tables
  <2> QED
    BY <1>1, <2>1 DEF Tables, TombsIn
<1> QED
  BY <1>1, <1>2, <1>3 DEF Tables, e

(* A row is stored under the change that is appended with it.              *)
LEMMA StoreKeeps ==
  ASSUME NEW d, Tables(d), NEW uid \in Uid, NEW row \in Row,
         d.tombs[uid] = None,
         row.val["status"] \in StatusesOf(uid) \cup {None},
         \A f \in Field : \/ row.ver[f] = 0
                          \/ row.ver[f] = SeqOf(d) + 1
                          \/ d.rows[uid] # None /\ row.ver[f] = d.rows[uid].ver[f]
  PROVE  Tables([Bump(d, uid, 0, FALSE) EXCEPT !.rows[uid] = row])
<1> DEFINE b == Bump(d, uid, 0, FALSE)
           e == [b EXCEPT !.rows[uid] = row]
<1>0. Tables(b) /\ IsBump(b, d, uid, 0, FALSE)
  BY BumpKeeps, BumpAppends DEF Tables
<1>1. /\ Tables(b) /\ b.rows = d.rows /\ b.tombs = d.tombs
      /\ b.feed[Len(d.feed) + 1] = [uid |-> uid, trail |-> 0, deleted |-> FALSE]
      /\ Len(b.feed) = Len(d.feed) + 1 /\ Len(d.feed) \in Nat
  BY <1>0 DEF IsBump
<1> HIDE DEF b
<1>2. e \in Db /\ e.rows = [d.rows EXCEPT ![uid] = row] /\ e.tombs = b.tombs /\ e.feed = b.feed
  BY <1>1 DEF Tables, Db
<1> HIDE DEF e
<1>3. e.rows[uid] = row /\ \A u \in Uid \ {uid} : e.rows[u] = b.rows[u]
  BY <1>1, <1>2 DEF Tables, Db
<1>4. StatusesIn(e)
  BY <1>1, <1>3 DEF Tables, StatusesIn
<1>5. VersionsIn(e)
  <2> SUFFICES ASSUME NEW u \in Uid, e.rows[u] # None, NEW f \in Field, e.rows[u].ver[f] > 0
               PROVE  /\ e.rows[u].ver[f] <= Len(e.feed)
                      /\ e.feed[e.rows[u].ver[f]] = [uid |-> u, trail |-> 0, deleted |-> FALSE]
    BY DEF VersionsIn
  <2>1. CASE u # uid
    BY <1>1, <1>2, <1>3, <2>1 DEF Tables, VersionsIn
  <2>2. CASE u = uid
    <3>1. CASE row.ver[f] = SeqOf(d) + 1
      BY <1>1, <1>2, <1>3, <2>2, <3>1 DEF SeqOf
    <3>2. CASE d.rows[uid] # None /\ row.ver[f] = d.rows[uid].ver[f]
      BY <1>1, <1>2, <1>3, <2>2, <3>2 DEF Tables, VersionsIn
    <3> QED
      BY <1>3, <2>2, <3>1, <3>2
  <2> QED
    BY <2>1, <2>2
<1>6. TombsIn(e)
  BY <1>1, <1>2, <1>3 DEF Tables, TombsIn
<1> QED
  BY <1>2, <1>4, <1>5, <1>6 DEF Tables, e, b

(* A row is removed, and its tombstone names the change appended with it.  *)
LEMMA BuryKeeps ==
  ASSUME NEW d, Tables(d), NEW uid \in Uid, NEW tomb \in Tomb, tomb.seq = SeqOf(d) + 1
  PROVE  Tables([Bump(d, uid, 0, TRUE) EXCEPT !.rows[uid] = None, !.tombs[uid] = tomb])
<1> DEFINE b == Bump(d, uid, 0, TRUE)
           e == [b EXCEPT !.rows[uid] = None, !.tombs[uid] = tomb]
<1>0. Tables(b) /\ IsBump(b, d, uid, 0, TRUE)
  BY BumpKeeps, BumpAppends DEF Tables
<1>1. /\ Tables(b) /\ b.rows = d.rows /\ b.tombs = d.tombs
      /\ b.feed[Len(d.feed) + 1] = [uid |-> uid, trail |-> 0, deleted |-> TRUE]
      /\ Len(b.feed) = Len(d.feed) + 1 /\ Len(d.feed) \in Nat
      /\ DOMAIN b.feed = 1..Len(b.feed)
  BY <1>0 DEF IsBump
<1> HIDE DEF b
<1>2. /\ e \in Db /\ e.feed = b.feed
      /\ e.rows = [b.rows EXCEPT ![uid] = None] /\ e.tombs = [b.tombs EXCEPT ![uid] = tomb]
  BY <1>1 DEF Tables, Db
<1> HIDE DEF e
<1>3. /\ e.rows[uid] = None /\ e.tombs[uid] = tomb
      /\ \A u \in Uid \ {uid} : e.rows[u] = b.rows[u] /\ e.tombs[u] = b.tombs[u]
  BY <1>1, <1>2 DEF Tables, Db
<1>4. StatusesIn(e)
  BY <1>1, <1>3 DEF Tables, StatusesIn
<1>5. VersionsIn(e)
  BY <1>1, <1>2, <1>3 DEF Tables, VersionsIn
<1>6. TombsIn(e)
  <2> SUFFICES ASSUME NEW u \in Uid, e.tombs[u] # None
               PROVE  /\ e.rows[u] = None
                      /\ e.tombs[u].seq \in DOMAIN e.feed
                      /\ e.feed[e.tombs[u].seq] = [uid |-> u, trail |-> 0, deleted |-> TRUE]
    BY DEF TombsIn
  <2>1. CASE u # uid
    BY <1>1, <1>2, <1>3, <2>1 DEF Tables, TombsIn
  <2>2. CASE u = uid
    BY <1>1, <1>2, <1>3, <2>2 DEF SeqOf
  <2> QED
    BY <2>1, <2>2
<1> QED
  BY <1>2, <1>4, <1>5, <1>6 DEF Tables, e, b
-----------------------------------------------------------------------------
(* Results.                                                                *)

(* An answer built of typed parts is a result.                             *)
LEMMA ReplyIsResult ==
  ASSUME NEW status \in {"applied", "rejected"}, NEW reason \in Reasons,
         NEW versions \in [Field -> Nat \cup {None}], NEW refused \in SUBSET Field,
         NEW row \in Row \cup {None}
  PROVE  Reply(status, reason, versions, refused, row) \in Result
  BY DEF Reply, Result

(* A refusal with a known reason is a result.                              *)
LEMMA RefuseIsResult ==
  ASSUME NEW reason \in Reasons
  PROVE  Refuse(reason) \in Result
<1>1. NoVersions \in [Field -> Nat \cup {None}]
  BY DEF NoVersions
<1> QED
  BY <1>1, ReplyIsResult DEF Refuse

(* So is the answer about a uid that is not there (removedReason).         *)
LEMMA RemovedReasonIsResult ==
  ASSUME NEW d, NEW op
  PROVE  RemovedReason(d, op) \in Result
<1>1. {"unknown", "removed"} \subseteq Reasons
  BY DEF Reasons
<1>2. Refuse("unknown") \in Result /\ Refuse("removed") \in Result
  BY <1>1, RefuseIsResult
<1> QED
  BY <1>2 DEF RemovedReason

(* The versions a row has are versions a result may list.                  *)
LEMMA VersionsOfTyped ==
  ASSUME NEW row \in Row
  PROVE  VersionsOf(row) \in [Field -> Nat \cup {None}]
  BY DEF VersionsOf, Row

-----------------------------------------------------------------------------
(* create                                                                  *)

(* A created row is a row: defaults are values too (create).               *)
LEMMA NewRowTyped ==
  ASSUME NEW op, IsOp(op), NEW seq \in Nat
  PROVE  NewRow(op, seq) \in Row
<1>1. \A f \in Field : NewContent(op)[f] \in Value \cup {None}
  <2> TAKE f \in Field
  <2>1. CASE f \in DOMAIN op.data /\ IsSettable(op.uid, f)
    BY <2>1 DEF NewContent, IsOp, IsPartial
  <2>2. DefaultStatus(op.uid) \in Value \cup {None}
    BY FieldAssumption DEF DefaultStatus
  <2>3. CASE ~(f \in DOMAIN op.data /\ IsSettable(op.uid, f))
    BY <2>2, <2>3 DEF NewContent
  <2> QED
    BY <2>1, <2>3
<1>2. NewContent(op) \in Content
  BY <1>1 DEF NewContent, Content
<1>3. NewVersions(op, seq) \in [Field -> Nat]
  BY DEF NewVersions
<1>4. (IF op.uid \in Item THEN op.uid ELSE op.item) \in Item
  BY DEF IsOp
<1> QED
  BY <1>2, <1>3, <1>4 DEF NewRow, Row

(* What a person removed is as it was.                                     *)
RemovalsStick(d, e) ==
  \A u \in Uid : (d.tombs[u] # None /\ ~d.tombs[u].byPlugin) => e.tombs[u] = d.tombs[u]

(* recalc buries and unearths nothing.                                     *)
LEMMA AfterTaskTombs ==
  ASSUME NEW d \in Db, NEW uid \in Uid, NEW item \in Item
  PROVE  AfterTask(d, uid, item).tombs = d.tombs
  BY DEF AfterTask, Recalc, Bump, Db

(* What create keeps of the tables, and that it answers.                   *)
LEMMA CreateKeeps ==
  ASSUME NEW d, Tables(d), NEW op, IsOp(op)
  PROVE  /\ Tables(Create(d, op).db)
         /\ Create(d, op).result \in Result
         /\ RemovalsStick(d, Create(d, op).db)
<1> DEFINE cleared == Cleared(d, op.uid)
           row     == NewRow(op, SeqOf(d) + 1)
           stored  == [Bump(cleared, op.uid, 0, FALSE) EXCEPT !.rows[op.uid] = row]
           after   == AfterTask(stored, op.uid, op.item)
           made    == Reply("applied", "", VersionsOf(row), {}, None)
<1>1. op.uid \in Uid /\ op.item \in Item /\ SeqOf(d) + 1 \in Nat
  BY FeedIsSeq DEF IsOp, Tables, SeqOf
<1>2. /\ Tables(cleared) /\ cleared.rows = d.rows
      /\ cleared.feed = d.feed /\ cleared.tombs[op.uid] = None
  BY <1>1, ClearedKeeps
<1>3. row \in Row
  BY <1>1, NewRowTyped
<1>4. CASE d.rows[op.uid] # None
  <2>1. d.rows[op.uid] \in Row
    BY <1>1, <1>4 DEF Tables, Db
  <2>2. NoVersions \in [Field -> Nat \cup {None}]
    BY DEF NoVersions
  <2>3. CreateExisting(d, op) \in Result
    BY <2>1, <2>2, VersionsOfTyped, ReplyIsResult DEF CreateExisting, Reasons
  <2>4. Create(d, op).db = d /\ Create(d, op).result = CreateExisting(d, op)
    BY <1>4 DEF Create
  <2> QED
    BY <2>3, <2>4 DEF RemovalsStick
<1>5. CASE d.rows[op.uid] = None /\ Buried(d, op)
  <2>1. Create(d, op).db = d /\ Create(d, op).result = RemovedReason(d, op)
    BY <1>5 DEF Create
  <2> QED
    BY <2>1, RemovedReasonIsResult DEF RemovalsStick
<1>6. ASSUME ~Buried(d, op) PROVE RemovalsStick(d, cleared)
  BY <1>1, <1>6 DEF RemovalsStick, Buried, Cleared, Tables, Db
<1>7. CASE d.rows[op.uid] = None /\ ~Buried(d, op) /\ CreateRefusal(d, op) # ""
  <2>1. CreateRefusal(d, op) \in Reasons
    BY DEF CreateRefusal, Reasons
  <2>2. Create(d, op).db = cleared /\ Create(d, op).result = Refuse(CreateRefusal(d, op))
    BY <1>7 DEF Create
  <2> QED
    BY <1>2, <1>6, <1>7, <2>1, <2>2, RefuseIsResult
<1>8. CASE d.rows[op.uid] = None /\ ~Buried(d, op) /\ CreateRefusal(d, op) = ""
  <2>1. row.val["status"] \in StatusesOf(op.uid) \cup {None}
    <3>1. "status" \in Field /\ row.val = NewContent(op)
      BY FieldAssumption DEF Field, NewRow
    <3> QED
      BY <1>8, <3>1 DEF CreateRefusal, Invalid
  <2>2. \A f \in Field : row.ver[f] = 0 \/ row.ver[f] = SeqOf(cleared) + 1
    BY <1>2 DEF NewRow, NewVersions, SeqOf
  <2>3. Tables(stored)
    <3> HIDE DEF cleared, row
    <3> QED
      BY <1>1, <1>2, <1>3, <2>1, <2>2, StoreKeeps
  <2>4. stored.tombs = cleared.tombs
    BY <1>1, <1>2 DEF Bump, Tables, Db
  <2> HIDE DEF stored
  <2>5. Tables(after) /\ after.tombs = cleared.tombs
    BY <1>1, <2>3, <2>4, AfterTaskKeeps, AfterTaskTombs DEF Tables
  <2>6. made \in Result
    <3>1. VersionsOf(row) \in [Field -> Nat \cup {None}]
      BY <1>3, VersionsOfTyped
    <3> HIDE DEF row
    <3> QED
      BY <3>1, ReplyIsResult DEF Reasons
  <2>7. Create(d, op).db = after /\ Create(d, op).result = made
    BY <1>8 DEF Create, stored
  <2> HIDE DEF after, made, cleared
  <2> QED
    BY <1>6, <1>8, <2>5, <2>6, <2>7 DEF RemovalsStick
<1> QED
  BY <1>4, <1>5, <1>7, <1>8
-----------------------------------------------------------------------------
(* set                                                                     *)

(* What a set writes are fields with values, and a status only one that    *)
(* the row may have.                                                       *)
LEMMA WritesTyped ==
  ASSUME NEW d, NEW op, IsOp(op), NEW waits
  PROVE  LET w == Writes(d, op, waits)
         IN  /\ DOMAIN w \subseteq Field
             /\ \A f \in DOMAIN w : w[f] \in Value \cup {None}
             /\ "status" \in DOMAIN w => w["status"] \in StatusesOf(op.uid) \cup {None}
<1> DEFINE accepted == {f \in DOMAIN op.data : Verdict(d, op, waits, f) = "accepted"}
           reopens  == /\ op.uid \in Item
                       /\ "status" \in accepted /\ op.data["status"] \notin Terminal
                       /\ "archived" \in JsonField \ accepted
                       /\ d.rows[op.uid].val["archived"] # None
           w == Writes(d, op, waits)
<1>1. /\ DOMAIN op.data \subseteq Field
      /\ \A f \in DOMAIN op.data : op.data[f] \in Value \cup {None}
  BY DEF IsOp, IsPartial
<1>2. w = [f \in accepted \cup (IF reopens THEN {"archived"} ELSE {}) |->
             IF f \in accepted THEN op.data[f] ELSE None]
  BY DEF Writes
<1>3. reopens => "archived" \in Field
  BY DEF Field
<1>4. "status" \in accepted => ~Invalid(op.uid, "status", op.data["status"])
  BY DEF Verdict
<1>5. accepted \subseteq DOMAIN op.data
  OBVIOUS
<1> HIDE DEF accepted, reopens, w
<1>6. DOMAIN w \subseteq Field /\ \A f \in DOMAIN w : w[f] \in Value \cup {None}
  BY <1>1, <1>2, <1>3, <1>5
<1>7. "status" \in DOMAIN w => w["status"] \in StatusesOf(op.uid) \cup {None}
  BY <1>2, <1>4 DEF Invalid
<1> QED
  BY <1>6, <1>7 DEF w

(* A written row is a row, with the new values under the new version       *)
(* (set).                                                                  *)
LEMMA WrittenTyped ==
  ASSUME NEW row \in Row, NEW w, DOMAIN w \subseteq Field,
         \A f \in DOMAIN w : w[f] \in Value \cup {None}, NEW seq \in Nat
  PROVE  /\ Written(row, w, seq) \in Row
         /\ \A f \in Field : Written(row, w, seq).val[f] = IF f \in DOMAIN w THEN w[f] ELSE row.val[f]
         /\ \A f \in Field : Written(row, w, seq).ver[f] = IF f \in DOMAIN w THEN seq ELSE row.ver[f]
<1> DEFINE val == [f \in Field |-> IF f \in DOMAIN w THEN w[f] ELSE row.val[f]]
           ver == [f \in Field |-> IF f \in DOMAIN w THEN seq ELSE row.ver[f]]
<1>1. val \in Content
  BY DEF Content, Row
<1>2. ver \in [Field -> Nat]
  BY DEF Row
<1>3. Written(row, w, seq) = [row EXCEPT !.val = val, !.ver = ver]
  BY DEF Written
<1>4. Written(row, w, seq) \in Row /\ Written(row, w, seq).val = val
      /\ Written(row, w, seq).ver = ver
  <2> HIDE DEF val, ver
  <2> QED
    BY <1>1, <1>2, <1>3 DEF Row
<1> QED
  BY <1>4

(* What set keeps of the tables, and that it answers.                      *)
LEMMA SetKeeps ==
  ASSUME NEW d, Tables(d), NEW op, IsOp(op), NEW waits
  PROVE  /\ Tables(Set(d, op, waits).db)
         /\ Set(d, op, waits).result \in Result
         /\ RemovalsStick(d, Set(d, op, waits).db)
<1> DEFINE row     == d.rows[op.uid]
           writes  == Writes(d, op, waits)
           seq     == SeqOf(d) + 1
           new     == Written(row, writes, seq)
           stored  == [Bump(d, op.uid, 0, FALSE) EXCEPT !.rows[op.uid] = new]
           moved   == IF op.uid \in Item /\ "status" \in DOMAIN writes
                      THEN StatusChanged(stored, op.uid, row.val["status"], writes["status"])
                      ELSE stored
           after   == AfterTask(moved, op.uid, row.item)
           same    == {f \in DOMAIN op.data : Verdict(d, op, waits, f) = "same"}
           refused == DOMAIN op.data \ (same \cup DOMAIN writes)
           out     == [f \in Field |-> IF f \in DOMAIN writes THEN seq
                                       ELSE IF f \in same THEN row.ver[f] ELSE None]
           given   == Reply(IF refused # {} /\ out = NoVersions THEN "rejected" ELSE "applied",
                            "", out, refused, row)
<1>1. op.uid \in Uid /\ op.item \in Item /\ seq \in Nat /\ DOMAIN op.data \subseteq Field
  BY FeedIsSeq DEF IsOp, IsPartial, Tables, SeqOf
<1>2. CASE row = None
  <2>1. Set(d, op, waits).db = d /\ Set(d, op, waits).result = RemovedReason(d, op)
    BY <1>2 DEF Set
  <2> QED
    BY <2>1, RemovedReasonIsResult DEF RemovalsStick
<1>3. CASE row # None
  <2>1. /\ DOMAIN writes \subseteq Field
        /\ \A f \in DOMAIN writes : writes[f] \in Value \cup {None}
        /\ "status" \in DOMAIN writes => writes["status"] \in StatusesOf(op.uid) \cup {None}
    BY WritesTyped
  <2>2. row \in Row /\ d.tombs[op.uid] = None /\ row.val["status"] \in StatusesOf(op.uid) \cup {None}
    BY <1>1, <1>3 DEF Tables, TombsIn, StatusesIn, Db
  <2>3. "status" \in Field
    BY FieldAssumption DEF Field
  <2>4. row.val["status"] \in Value \cup {None} /\ row.item \in Item
    BY <2>2, <2>3 DEF Row, Content
  <2>5. out \in [Field -> Nat \cup {None}]
    <3>1. \A f \in Field : row.ver[f] \in Nat
      BY <2>2 DEF Row
    <3> QED
      BY <1>1, <3>1
  <2>6. given \in Result
    <3>1. refused \in SUBSET Field
      BY <1>1
    <3>2. "" \in Reasons
      BY DEF Reasons
    <3> HIDE DEF refused, out, row
    <3> QED
      BY <2>2, <2>5, <3>1, <3>2, ReplyIsResult
  <2>7. /\ Set(d, op, waits).db = IF DOMAIN writes = {} THEN d ELSE after
        /\ Set(d, op, waits).result = given
    BY <1>3 DEF Set
  <2> HIDE DEF writes, seq
  <2>8. new \in Row
    BY <1>1, <2>1, <2>2, WrittenTyped
  <2>9. new.val["status"] \in StatusesOf(op.uid) \cup {None}
    BY <1>1, <2>1, <2>2, <2>3, WrittenTyped
  <2>10. \A f \in Field : new.ver[f] = seq \/ new.ver[f] = row.ver[f]
    BY <1>1, <2>1, <2>2, WrittenTyped
  <2>11. Tables(stored) /\ stored.tombs = d.tombs
    <3>1. Tables(stored)
      <4> HIDE DEF new
      <4> QED
        BY <1>1, <1>3, <2>2, <2>8, <2>9, <2>10, StoreKeeps DEF seq
    <3>2. stored.tombs = d.tombs
      BY <1>1 DEF Bump, Tables, Db
    <3> QED
      BY <3>1, <3>2
  <2> HIDE DEF stored, new
  <2>12. Tables(moved) /\ moved.tombs = d.tombs
    <3>1. CASE op.uid \in Item /\ "status" \in DOMAIN writes
      <4>1. writes["status"] \in Value \cup {None}
        BY <2>1, <3>1
      <4>2. Tables(StatusChanged(stored, op.uid, row.val["status"], writes["status"]))
        <5> HIDE DEF row
        <5> QED
          BY <2>4, <2>11, <3>1, <4>1, StatusChangedIsDb DEF Tables
      <4>3. StatusChanged(stored, op.uid, row.val["status"], writes["status"]).tombs = stored.tombs
        BY <2>11 DEF StatusChanged, Bump, Tables, Db
      <4> QED
        BY <2>11, <3>1, <4>2, <4>3
    <3>2. CASE ~(op.uid \in Item /\ "status" \in DOMAIN writes)
      BY <2>11, <3>2
    <3> QED
      BY <3>1, <3>2
  <2> HIDE DEF moved, row
  <2>13. Tables(after) /\ after.tombs = d.tombs
    BY <1>1, <2>4, <2>12, AfterTaskKeeps, AfterTaskTombs DEF Tables
  <2> HIDE DEF after, given
  <2> QED
    BY <2>6, <2>7, <2>13 DEF RemovalsStick
<1> QED
  BY <1>2, <1>3

-----------------------------------------------------------------------------
(* remove                                                                  *)

(* What remove keeps of the tables, and that it answers.                   *)
LEMMA RemoveKeeps ==
  ASSUME NEW d, Tables(d), NEW op, IsOp(op)
  PROVE  /\ Tables(Remove(d, op).db)
         /\ Remove(d, op).result \in Result
         /\ RemovalsStick(d, Remove(d, op).db)
<1> DEFINE row   == d.rows[op.uid]
           tomb  == [seq |-> SeqOf(d) + 1, byPlugin |-> op.plugin]
           gone  == [Bump(d, op.uid, 0, TRUE) EXCEPT !.rows[op.uid] = None, !.tombs[op.uid] = tomb]
           after == AfterTask(gone, op.uid, row.item)
<1>1. op.uid \in Uid /\ tomb \in Tomb /\ tomb.seq = SeqOf(d) + 1
  BY FeedIsSeq DEF IsOp, Tables, SeqOf, Tomb
<1>2. NoVersions \in [Field -> Nat \cup {None}]
  BY DEF NoVersions
<1>3. CASE op.uid \in Item
  <2>1. Remove(d, op).db = d /\ Remove(d, op).result = Refuse("not-removable")
    BY <1>3 DEF Remove
  <2>2. "not-removable" \in Reasons
    BY DEF Reasons
  <2> QED
    BY <2>1, <2>2, RefuseIsResult DEF RemovalsStick
<1>4. CASE op.uid \notin Item /\ row = None
  <2>1. Remove(d, op).db = d /\ Remove(d, op).result = RemovedReason(d, op)
    BY <1>4 DEF Remove
  <2> QED
    BY <2>1, RemovedReasonIsResult DEF RemovalsStick
<1>5. row # None => row \in Row /\ row.item \in Item
  BY <1>1 DEF Tables, Db, Row
<1>6. CASE op.uid \notin Item /\ row # None /\ Unseen(d, op) # {}
  <2>1. Remove(d, op).db = d
        /\ Remove(d, op).result = Reply("rejected", "stale", NoVersions, Unseen(d, op), row)
    BY <1>6 DEF Remove
  <2>2. Unseen(d, op) \in SUBSET Field /\ "stale" \in Reasons /\ row \in Row \cup {None}
    BY <1>5, <1>6 DEF Unseen, Reasons
  <2> HIDE DEF row
  <2> QED
    BY <1>2, <2>1, <2>2, ReplyIsResult DEF RemovalsStick
<1>7. CASE op.uid \notin Item /\ row # None /\ Unseen(d, op) = {}
  <2>1. Remove(d, op).db = after
        /\ Remove(d, op).result = Reply("applied", "", NoVersions, {}, None)
    BY <1>7 DEF Remove
  <2>2. Tables(gone)
    <3> HIDE DEF tomb
    <3> QED
      BY <1>1, BuryKeeps
  <2>3. d.tombs[op.uid] = None
    BY <1>1, <1>7 DEF Tables, TombsIn
  <2>4. gone.tombs = [d.tombs EXCEPT ![op.uid] = tomb]
    BY <1>1 DEF Bump, Tables, Db
  <2> HIDE DEF gone, row
  <2>5. Tables(after) /\ after.tombs = gone.tombs
    BY <1>1, <1>5, <1>7, <2>2, AfterTaskKeeps, AfterTaskTombs DEF Tables
  <2> HIDE DEF after
  <2>6. RemovalsStick(d, after)
    BY <1>1, <2>3, <2>4, <2>5 DEF RemovalsStick, Tables, Db
  <2>7. Reply("applied", "", NoVersions, {}, None) \in Result
    BY <1>2, ReplyIsResult DEF Reasons
  <2> QED
    BY <2>1, <2>5, <2>6, <2>7
<1> QED
  BY <1>3, <1>4, <1>6, <1>7

(* Whatever the op: the tables stay typed, statuses legal, versions and    *)
(* tombstones true, persons' removals in force, and the answer is one.     *)
LEMMA ApplyOneKeeps ==
  ASSUME NEW d, Tables(d), NEW op, IsOp(op), NEW waits
  PROVE  /\ Tables(ApplyOne(d, op, waits).db)
         /\ ApplyOne(d, op, waits).result \in Result
         /\ RemovalsStick(d, ApplyOne(d, op, waits).db)
<1>1. CASE op.op = "create"
  <2>1. ApplyOne(d, op, waits) = Create(d, op)
    BY <1>1 DEF ApplyOne
  <2> QED
    BY <2>1, CreateKeeps
<1>2. CASE op.op = "set"
  <2>1. ApplyOne(d, op, waits) = Set(d, op, waits)
    BY <1>2 DEF ApplyOne
  <2> QED
    BY <2>1, SetKeeps
<1>3. CASE op.op = "remove"
  <2>1. ApplyOne(d, op, waits) = Remove(d, op)
    BY <1>3 DEF ApplyOne
  <2> QED
    BY <2>1, RemoveKeeps
<1> QED
  BY <1>1, <1>2, <1>3 DEF IsOp
-----------------------------------------------------------------------------
(* The derived statuses.                                                   *)

(* The tasks of an item decide its roll-up, and only they do.              *)
LEMMA OtherTasks ==
  ASSUME NEW d, NEW e, NEW i,
         \A t \in Task : \/ e.rows[t] = d.rows[t]
                         \/ /\ d.rows[t] = None \/ d.rows[t].item # i
                            /\ e.rows[t] = None \/ e.rows[t].item # i
  PROVE  TaskStatuses(e, i) = TaskStatuses(d, i)
<1> DEFINE TasksOf(x) == {u \in Task : x.rows[u] # None /\ x.rows[u].item = i}
<1>1. TasksOf(e) = TasksOf(d) /\ \A t \in TasksOf(d) : e.rows[t] = d.rows[t]
  OBVIOUS
<1>2. TaskStatuses(d, i) = {d.rows[t].val["status"] : t \in TasksOf(d)}
      /\ TaskStatuses(e, i) = {e.rows[t].val["status"] : t \in TasksOf(e)}
  BY DEF TaskStatuses
<1> HIDE DEF TasksOf
<1> QED
  BY <1>1, <1>2

(* The recomputation repairs the roll-up of the item it is asked for.      *)
LEMMA AfterTaskCalc ==
  ASSUME NEW d \in Db, NEW uid \in Uid, NEW item \in Item,
         uid \notin Task => CalcIn(d),
         \A i \in Item : i # item => d.calc[i] = DeriveCalcStatus(TaskStatuses(d, i))
  PROVE  CalcIn(AfterTask(d, uid, item))
<1> DEFINE c == DeriveCalcStatus(TaskStatuses(d, item))
           e == [d EXCEPT !.calc[item] = c]
           a == Bump(e, item, 0, FALSE)
<1>1. CASE uid \notin Task
  BY <1>1 DEF AfterTask
<1>2. CASE uid \in Task /\ d.calc[item] = c
  <2>1. AfterTask(d, uid, item) = d
    BY <1>2 DEF AfterTask, Recalc
  <2> QED
    BY <1>2, <2>1 DEF CalcIn
<1>3. CASE uid \in Task /\ d.calc[item] # c
  <2>1. AfterTask(d, uid, item) = a
    BY <1>3 DEF AfterTask, Recalc
  <2>2. a.rows = d.rows /\ a.calc = [d.calc EXCEPT ![item] = c]
    BY DEF Bump, Db
  <2> HIDE DEF a
  <2>3. \A i \in Item : TaskStatuses(a, i) = TaskStatuses(d, i)
    BY <2>2, OtherTasks
  <2>4. \A i \in Item : a.calc[i] = DeriveCalcStatus(TaskStatuses(d, i))
    <3> HIDE DEF c
    <3>1. a.calc[item] = c /\ \A i \in Item : i # item => a.calc[i] = d.calc[i]
      BY <2>2 DEF Db
    <3> QED
      BY <3>1 DEF c
  <2> QED
    BY <2>1, <2>3, <2>4 DEF CalcIn
<1> QED
  BY <1>1, <1>2, <1>3

(* An op that changes one row, and recomputes after a task, keeps every    *)
(* item's roll-up.                                                         *)
LEMMA OneRowCalc ==
  ASSUME NEW d \in Db, CalcIn(d), NEW e \in Db, NEW uid \in Uid, NEW item \in Item,
         NEW row \in Row \cup {None},
         e.rows = [d.rows EXCEPT ![uid] = row], e.calc = d.calc,
         uid \in Task => /\ d.rows[uid] = None \/ d.rows[uid].item = item
                         /\ row = None \/ row.item = item
  PROVE  CalcIn(AfterTask(e, uid, item))
<1>1. /\ e.rows[uid] = row
      /\ \A u \in Uid : u # uid => e.rows[u] = d.rows[u]
  BY DEF Db
<1>2. Task \subseteq Uid
  BY UidAssumption DEF Uid
<1>3. ASSUME uid \notin Task PROVE CalcIn(e)
  <2>1. ASSUME NEW i \in Item PROVE TaskStatuses(e, i) = TaskStatuses(d, i)
    <3>1. \A t \in Task : \/ e.rows[t] = d.rows[t]
                          \/ /\ d.rows[t] = None \/ d.rows[t].item # i
                             /\ e.rows[t] = None \/ e.rows[t].item # i
      BY <1>1, <1>2, <1>3
    <3> QED
      BY <3>1, OtherTasks
  <2> QED
    BY <2>1 DEF CalcIn
<1>4. ASSUME NEW i \in Item, i # item, uid \in Task
      PROVE  e.calc[i] = DeriveCalcStatus(TaskStatuses(e, i))
  <2>1. \A t \in Task : \/ e.rows[t] = d.rows[t]
                        \/ /\ d.rows[t] = None \/ d.rows[t].item # i
                           /\ e.rows[t] = None \/ e.rows[t].item # i
    BY <1>1, <1>2, <1>4
  <2>2. TaskStatuses(e, i) = TaskStatuses(d, i)
    BY <2>1, OtherTasks
  <2> QED
    BY <2>2 DEF CalcIn
<1>5. \A i \in Item : i # item => e.calc[i] = DeriveCalcStatus(TaskStatuses(e, i))
  <2>1. CASE uid \in Task
    BY <1>4, <2>1
  <2>2. CASE uid \notin Task
    BY <1>3, <2>2 DEF CalcIn
  <2> QED
    BY <2>1, <2>2
<1> QED
  BY <1>3, <1>5, AfterTaskCalc

(* e is d with a row stored, whatever its feed.                            *)
IsPut(e, d, uid, row) ==
  e \in Db /\ e.rows = [d.rows EXCEPT ![uid] = row] /\ e.calc = d.calc

(* A row is stored under the change appended with it (create, set).        *)
LEMMA PutRow ==
  ASSUME NEW d \in Db, NEW uid \in Uid, NEW row \in Row
  PROVE  IsPut([Bump(d, uid, 0, FALSE) EXCEPT !.rows[uid] = row], d, uid, row)
<1> DEFINE b == Bump(d, uid, 0, FALSE)
           e == [b EXCEPT !.rows[uid] = row]
<1>1. b \in Db /\ b.rows = d.rows /\ b.calc = d.calc
  <2>1. IsBump(b, d, uid, 0, FALSE)
    BY BumpAppends
  <2> QED
    BY <2>1 DEF IsBump
<1> HIDE DEF b
<1>2. e.rows = [b.rows EXCEPT ![uid] = row] /\ e.calc = b.calc
  BY <1>1 DEF Db
<1>3. e \in Db
  BY <1>1 DEF Db
<1> QED
  BY <1>1, <1>2, <1>3 DEF b, IsPut

(* create keeps every item's roll-up.                                      *)
LEMMA CreateCalc ==
  ASSUME NEW d, Tables(d), CalcIn(d), NEW op, IsOp(op)
  PROVE  CalcIn(Create(d, op).db)
<1> DEFINE cleared == Cleared(d, op.uid)
           row     == NewRow(op, SeqOf(d) + 1)
           stored  == [Bump(cleared, op.uid, 0, FALSE) EXCEPT !.rows[op.uid] = row]
<1>1. d \in Db /\ op.uid \in Uid /\ op.item \in Item /\ SeqOf(d) + 1 \in Nat
  BY FeedIsSeq DEF IsOp, Tables, SeqOf
<1>2. cleared \in Db /\ cleared.rows = d.rows /\ cleared.calc = d.calc
  BY <1>1 DEF Cleared, Db
<1>3. CalcIn(cleared)
  <2>1. \A i \in Item : TaskStatuses(cleared, i) = TaskStatuses(d, i)
    BY <1>2, OtherTasks
  <2> QED
    BY <1>2, <2>1 DEF CalcIn
<1>4. row \in Row /\ (op.uid \in Task => row.item = op.item)
  <2>1. op.uid \in Task => op.uid \notin Item
    BY UidAssumption
  <2> QED
    BY <1>1, <2>1, NewRowTyped DEF NewRow
<1> HIDE DEF row
<1>5. /\ stored \in Db /\ stored.rows = [d.rows EXCEPT ![op.uid] = row]
      /\ stored.calc = d.calc
  <2>1. IsPut(stored, cleared, op.uid, row)
    BY <1>1, <1>2, <1>4, PutRow
  <2> HIDE DEF stored, cleared
  <2> QED
    BY <1>2, <2>1 DEF IsPut
<1> HIDE DEF stored, cleared
<1>6. ASSUME d.rows[op.uid] = None PROVE CalcIn(AfterTask(stored, op.uid, op.item))
  BY <1>1, <1>4, <1>5, <1>6, OneRowCalc
<1>7. \/ Create(d, op).db \in {d, cleared}
      \/ d.rows[op.uid] = None /\ Create(d, op).db = AfterTask(stored, op.uid, op.item)
  BY DEF Create, stored, cleared, row
<1> QED
  BY <1>3, <1>6, <1>7

(* set keeps every item's roll-up.                                         *)
LEMMA SetCalc ==
  ASSUME NEW d, Tables(d), CalcIn(d), NEW op, IsOp(op), NEW waits
  PROVE  CalcIn(Set(d, op, waits).db)
<1> DEFINE row     == d.rows[op.uid]
           writes  == Writes(d, op, waits)
           seq     == SeqOf(d) + 1
           new     == Written(row, writes, seq)
           stored  == [Bump(d, op.uid, 0, FALSE) EXCEPT !.rows[op.uid] = new]
           moved   == IF op.uid \in Item /\ "status" \in DOMAIN writes
                      THEN StatusChanged(stored, op.uid, row.val["status"], writes["status"])
                      ELSE stored
           after   == AfterTask(moved, op.uid, row.item)
<1>1. d \in Db /\ op.uid \in Uid /\ seq \in Nat
  BY FeedIsSeq DEF IsOp, Tables, SeqOf
<1>2. CASE row = None \/ DOMAIN writes = {}
  <2>1. Set(d, op, waits).db = d
    BY <1>2 DEF Set
  <2> QED
    BY <2>1
<1>3. CASE row # None /\ DOMAIN writes # {}
  <2>1. row \in Row /\ row.item \in Item
    BY <1>1, <1>3 DEF Db, Row
  <2>2. /\ DOMAIN writes \subseteq Field
        /\ \A f \in DOMAIN writes : writes[f] \in Value \cup {None}
    BY WritesTyped
  <2>3. Set(d, op, waits).db = after
    BY <1>3 DEF Set
  <2> HIDE DEF writes, seq
  <2>4. new \in Row
    BY <1>1, <2>1, <2>2, WrittenTyped
  <2>5. new.item = row.item
    BY <2>1 DEF Written, Row
  <2>6. stored \in Db /\ stored.rows = [d.rows EXCEPT ![op.uid] = new] /\ stored.calc = d.calc
    <3>1. IsPut(stored, d, op.uid, new)
      BY <1>1, <2>4, PutRow
    <3> HIDE DEF stored, new
    <3> QED
      BY <3>1 DEF IsPut
  <2>7. moved \in Db
    <3>2. "status" \in Field
      BY FieldAssumption DEF Field
    <3>3. row.val["status"] \in Value \cup {None}
      BY <2>1, <3>2 DEF Row, Content
    <3> HIDE DEF stored, row
    <3>4. CASE op.uid \in Item /\ "status" \in DOMAIN writes
      BY <2>2, <2>6, <3>3, <3>4, StatusChangedIsDb
    <3> QED
      BY <2>6, <3>4
  <2>8. moved.rows = stored.rows /\ moved.calc = stored.calc
    BY <2>6 DEF StatusChanged, Bump, Db
  <2> HIDE DEF moved, stored, new, row
  <2>9. CalcIn(after)
    BY <1>1, <2>1, <2>4, <2>5, <2>6, <2>7, <2>8, OneRowCalc DEF row
  <2> QED
    BY <2>3, <2>9
<1> QED
  BY <1>2, <1>3

(* remove keeps every item's roll-up.                                      *)
LEMMA RemoveCalc ==
  ASSUME NEW d, Tables(d), CalcIn(d), NEW op, IsOp(op)
  PROVE  CalcIn(Remove(d, op).db)
<1> DEFINE row   == d.rows[op.uid]
           tomb  == [seq |-> SeqOf(d) + 1, byPlugin |-> op.plugin]
           b     == Bump(d, op.uid, 0, TRUE)
           gone  == [b EXCEPT !.rows[op.uid] = None, !.tombs[op.uid] = tomb]
<1>1. d \in Db /\ op.uid \in Uid /\ tomb \in Tomb
  BY FeedIsSeq DEF IsOp, Tables, SeqOf, Tomb
<1>2. row # None => row.item \in Item
  BY <1>1 DEF Db, Row
<1>3. gone \in Db /\ gone.rows = [d.rows EXCEPT ![op.uid] = None] /\ gone.calc = d.calc
  <2>1. IsBump(b, d, op.uid, 0, TRUE)
    BY <1>1, BumpAppends
  <2>2. b \in Db /\ b.rows = d.rows /\ b.calc = d.calc
    BY <2>1 DEF IsBump
  <2> HIDE DEF b, tomb
  <2>3. gone.rows = [b.rows EXCEPT ![op.uid] = None] /\ gone.calc = b.calc
    BY <2>2 DEF Db
  <2>4. gone \in Db
    BY <1>1, <2>2 DEF Db
  <2> QED
    BY <2>2, <2>3, <2>4
<1>4. \/ Remove(d, op).db = d
      \/ row # None /\ Remove(d, op).db = AfterTask(gone, op.uid, row.item)
  BY DEF Remove
<1> HIDE DEF gone, tomb, b
<1>5. ASSUME row # None PROVE CalcIn(AfterTask(gone, op.uid, row.item))
  BY <1>1, <1>2, <1>3, <1>5, OneRowCalc
<1> QED
  BY <1>4, <1>5

(* Every op leaves every item with the roll-up of its tasks.               *)
LEMMA ApplyOneCalc ==
  ASSUME NEW d, Tables(d), CalcIn(d), NEW op, IsOp(op), NEW waits
  PROVE  CalcIn(ApplyOne(d, op, waits).db)
<1>1. CASE op.op = "create"
  <2>1. ApplyOne(d, op, waits) = Create(d, op)
    BY <1>1 DEF ApplyOne
  <2> QED
    BY <2>1, CreateCalc
<1>2. CASE op.op = "set"
  <2>1. ApplyOne(d, op, waits) = Set(d, op, waits)
    BY <1>2 DEF ApplyOne
  <2> QED
    BY <2>1, SetCalc
<1>3. CASE op.op = "remove"
  <2>1. ApplyOne(d, op, waits) = Remove(d, op)
    BY <1>3 DEF ApplyOne
  <2> QED
    BY <2>1, RemoveCalc
<1> QED
  BY <1>1, <1>2, <1>3 DEF IsOp
-----------------------------------------------------------------------------
(* The feed shows what is there.                                           *)

(* Every child's item is there: create asks for it, and items stay.        *)
HomesIn(d) == \A u \in Uid : d.rows[u] # None => d.rows[d.rows[u].item] # None

(* The feed of e is that of d and one change more.                         *)
FeedAppended(e, d, uid, n, deleted) ==
  /\ Len(d.feed) \in Nat
  /\ DOMAIN d.feed = 1..Len(d.feed)
  /\ DOMAIN e.feed = 1..(Len(d.feed) + 1)
  /\ Len(e.feed) = Len(d.feed) + 1
  /\ \A s \in DOMAIN d.feed : e.feed[s] = d.feed[s]
  /\ e.feed[Len(d.feed) + 1] = [uid |-> uid, trail |-> n, deleted |-> deleted]

(* A change that says whether its row is there now, or that is about a     *)
(* history row, leaves the feed telling of every row (bump).               *)
LEMMA AppendedShows ==
  ASSUME NEW d \in Db, PresenceIn(d), NEW e \in Db, NEW uid \in Uid, NEW n \in Nat,
         NEW deleted \in BOOLEAN, FeedAppended(e, d, uid, n, deleted),
         \A u \in Uid : (n = 0 => u # uid) => e.rows[u] = d.rows[u],
         n = 0 => (deleted <=> e.rows[uid] = None)
  PROVE  PresenceIn(e)
<1> DEFINE last == Len(d.feed) + 1
<1>1. \A s \in DOMAIN d.feed : d.feed[s].uid \in Uid
  <2>1. d.feed \in Seq(Change)
    BY FeedIsSeq
  <2>2. \A s \in DOMAIN d.feed : d.feed[s] \in Change
    BY <2>1, ElementOfSeq, FeedIsSeq
  <2> QED
    BY <2>2 DEF Change
<1>2. ASSUME NEW s \in DOMAIN e.feed, LastChange(e, s)
      PROVE  e.feed[s].deleted <=> e.rows[e.feed[s].uid] = None
  <2>1. CASE s = last
    BY <1>2, <2>1 DEF LastChange, FeedAppended
  <2>2. CASE s # last
    <3>1. s \in DOMAIN d.feed /\ e.feed[s] = d.feed[s]
      BY <2>2 DEF FeedAppended
    <3>2. LastChange(d, s)
      <4>1. d.feed[s].trail = 0
        BY <1>2, <3>1 DEF LastChange
      <4>2. ASSUME NEW r \in (s + 1)..Len(d.feed)
            PROVE  d.feed[r].uid # d.feed[s].uid \/ d.feed[r].trail # 0
        <5>1. r \in DOMAIN d.feed /\ r \in (s + 1)..Len(e.feed)
          BY <3>1, <4>2 DEF FeedAppended
        <5>2. e.feed[r] = d.feed[r]
          BY <5>1 DEF FeedAppended
        <5> QED
          BY <1>2, <3>1, <5>1, <5>2 DEF LastChange
      <4> QED
        BY <4>1, <4>2 DEF LastChange
    <3>3. n = 0 => d.feed[s].uid # uid
      <4>1. last \in (s + 1)..Len(e.feed)
        BY <3>1 DEF FeedAppended
      <4>2. e.feed[last].uid # e.feed[s].uid \/ e.feed[last].trail # 0
        BY <1>2, <4>1 DEF LastChange
      <4> QED
        BY <3>1, <4>2 DEF FeedAppended
    <3> QED
      BY <1>1, <3>1, <3>2, <3>3 DEF PresenceIn
  <2> QED
    BY <2>1, <2>2
<1>3. ASSUME NEW u \in Uid, e.rows[u] # None
      PROVE  \E s \in DOMAIN e.feed : e.feed[s].uid = u
  <2>1. CASE n = 0 /\ u = uid
    BY <2>1 DEF FeedAppended
  <2>2. CASE ~(n = 0 /\ u = uid)
    <3>1. PICK s \in DOMAIN d.feed : d.feed[s].uid = u
      BY <1>3, <2>2 DEF PresenceIn
    <3> QED
      BY <3>1 DEF FeedAppended
  <2> QED
    BY <2>1, <2>2
<1> QED
  BY <1>2, <1>3 DEF PresenceIn

(* bump appends to the feed.                                               *)
LEMMA BumpFeed ==
  ASSUME NEW d \in Db, NEW uid \in Uid, NEW n \in Nat, NEW deleted \in BOOLEAN
  PROVE  /\ Bump(d, uid, n, deleted) \in Db
         /\ Bump(d, uid, n, deleted).rows = d.rows
         /\ Bump(d, uid, n, deleted).trail = d.trail
         /\ FeedAppended(Bump(d, uid, n, deleted), d, uid, n, deleted)
<1> DEFINE b == Bump(d, uid, n, deleted)
<1>1. IsBump(b, d, uid, n, deleted)
  BY BumpAppends
<1> HIDE DEF b
<1> QED
  BY <1>1 DEF IsBump, FeedAppended, b

(* recalc bumps an item that is there, and no row changes by it.           *)
LEMMA AfterTaskShows ==
  ASSUME NEW d \in Db, PresenceIn(d), NEW uid \in Uid, NEW item \in Item, d.rows[item] # None
  PROVE  /\ PresenceIn(AfterTask(d, uid, item))
         /\ AfterTask(d, uid, item).rows = d.rows
         /\ AfterTask(d, uid, item).trail = d.trail
<1> DEFINE c == DeriveCalcStatus(TaskStatuses(d, item))
           e == [d EXCEPT !.calc[item] = c]
           b == Bump(e, item, 0, FALSE)
<1>1. c \in Statuses \cup {NoStatus} /\ item \in Uid
  BY DerivedIsStatus DEF Uid
<1> HIDE DEF c
<1>2. e \in Db /\ e.rows = d.rows /\ e.feed = d.feed /\ e.trail = d.trail
  BY <1>1 DEF Db
<1>3. AfterTask(d, uid, item) \in {d, b}
  BY DEF AfterTask, Recalc, c
<1> HIDE DEF e
<1>4. b \in Db /\ b.rows = d.rows /\ b.trail = d.trail /\ FeedAppended(b, e, item, 0, FALSE)
  BY <1>1, <1>2, BumpFeed
<1> HIDE DEF b
<1>5. FeedAppended(b, d, item, 0, FALSE)
  BY <1>2, <1>4 DEF FeedAppended
<1>6. PresenceIn(b)
  BY <1>1, <1>4, <1>5, AppendedShows
<1> QED
  BY <1>3, <1>4, <1>6

-----------------------------------------------------------------------------
(* The history of statuses.                                                *)

(* An item that was never there has no history.                            *)
TrailsIn(d) == TrailIn(d) /\ \A i \in Item : d.rows[i] = None => d.trail[i] = <<>>

(* What a reader of the feed and of the history may conclude.              *)
Shown(d) == PresenceIn(d) /\ HomesIn(d) /\ TrailsIn(d)

(* It survives the recomputation of a roll-up.                             *)
LEMMA AfterTaskTold ==
  ASSUME NEW d \in Db, Shown(d), NEW uid \in Uid, NEW item \in Item, d.rows[item] # None
  PROVE  Shown(AfterTask(d, uid, item))
<1> DEFINE a == AfterTask(d, uid, item)
<1>1. PresenceIn(a) /\ a.rows = d.rows /\ a.trail = d.trail
  BY AfterTaskShows DEF Shown
<1> HIDE DEF a
<1>2. HomesIn(a) /\ TrailsIn(a)
  BY <1>1 DEF Shown, HomesIn, TrailsIn, TrailIn
<1> QED
  BY <1>1, <1>2 DEF Shown, a

(* A row is stored, or a child's taken away, with the change that says so  *)
(* (create, set, remove): the feed still tells of every row, and every     *)
(* child's item is still there.                                            *)
LEMMA OneRowShows ==
  ASSUME NEW d \in Db, Shown(d), NEW e \in Db, NEW uid \in Uid, NEW row \in Row \cup {None},
         e.rows = [d.rows EXCEPT ![uid] = row],
         FeedAppended(e, d, uid, 0, row = None),
         uid \in Item => row # None,
         row # None => row.item = uid \/ d.rows[row.item] # None
  PROVE  PresenceIn(e) /\ HomesIn(e)
<1>1. e.rows[uid] = row /\ \A u \in Uid : u # uid => e.rows[u] = d.rows[u]
  BY DEF Db
<1>2. PresenceIn(e)
  <2>1. (row = None) \in BOOLEAN
    OBVIOUS
  <2> QED
    BY <1>1, <2>1, AppendedShows DEF Shown
<1>3. ASSUME NEW u \in Uid, e.rows[u] # None PROVE e.rows[e.rows[u].item] # None
  <2>1. e.rows[u].item \in Item /\ e.rows[u].item \in Uid
    BY <1>3 DEF Db, Row, Uid
  <2>2. e.rows[u].item = uid \/ d.rows[e.rows[u].item] # None
    BY <1>1, <1>3 DEF Shown, HomesIn
  <2> QED
    BY <1>1, <2>1, <2>2
<1> QED
  BY <1>2, <1>3 DEF HomesIn

(* Where no item's status and no history row changes, the history stands.  *)
LEMMA SameTrails ==
  ASSUME NEW d, TrailsIn(d), NEW e, e.trail = d.trail,
         \A i \in Item : d.rows[i] # None =>
           e.rows[i] # None /\ e.rows[i].val["status"] = d.rows[i].val["status"]
  PROVE  TrailsIn(e)
<1>1. ASSUME NEW i \in Item, e.rows[i] # None, d.rows[i] = None PROVE e.trail[i] = <<>>
  BY <1>1 DEF TrailsIn
<1>2. TrailIn(e)
  <2> SUFFICES ASSUME NEW i \in Item, e.rows[i] # None
               PROVE  LET trail == e.trail[i]
                      IN  /\ \A n \in DOMAIN trail : trail[n].from # trail[n].to
                          /\ \A n \in 1..(Len(trail) - 1) : trail[n].to = trail[n + 1].from
                          /\ trail # <<>> => trail[Len(trail)].to = e.rows[i].val["status"]
    BY DEF TrailIn
  <2>1. CASE d.rows[i] = None
    <3>1. e.trail[i] = <<>>
      BY <1>1, <2>1
    <3>2. 1..(Len(<<>>) - 1) = {} /\ DOMAIN <<>> = {}
      OBVIOUS
    <3> QED
      BY <3>1, <3>2
  <2>2. CASE d.rows[i] # None
    BY <2>2 DEF TrailsIn, TrailIn
  <2> QED
    BY <2>1, <2>2
<1> QED
  BY <1>2 DEF TrailsIn

(* e is d with one history row of the item more, and the change about it.  *)
IsMove(e, d, item, from, to) ==
  /\ e.rows = d.rows
  /\ e.trail = [d.trail EXCEPT ![item] = Append(d.trail[item], [from |-> from, to |-> to])]
  /\ Len(d.trail[item]) \in Nat
  /\ FeedAppended(e, d, item, Len(d.trail[item]) + 1, FALSE)

(* statusChanged appends a history row, and a change about it.             *)
LEMMA StatusChangedAppends ==
  ASSUME NEW d \in Db, NEW item \in Item,
         NEW from \in Value \cup {None}, NEW to \in Value \cup {None}
  PROVE  IsMove(StatusChanged(d, item, from, to), d, item, from, to)
<1> DEFINE Step   == [from : Value \cup {None}, to : Value \cup {None}]
           longer == Append(d.trail[item], [from |-> from, to |-> to])
           c == [d EXCEPT !.trail[item] = longer]
           n == Len(d.trail[item]) + 1
           e == StatusChanged(d, item, from, to)
<1>1. d.trail[item] \in Seq(Step) /\ Len(d.trail[item]) \in Nat
  <2>1. d.trail[item] \in Seq(Step)
    BY DEF Db
  <2> QED
    BY <2>1, LenProperties
<1>2. longer \in Seq(Step)
  <2>1. [from |-> from, to |-> to] \in Step
    OBVIOUS
  <2> QED
    BY <1>1, <2>1, AppendProperties
<1>3. e = Bump(c, item, n, FALSE)
  BY DEF StatusChanged
<1> HIDE DEF longer
<1>4. c \in Db /\ c.rows = d.rows /\ c.feed = d.feed /\ c.trail = [d.trail EXCEPT ![item] = longer]
  BY <1>2 DEF Db
<1> HIDE DEF c, e
<1>5. item \in Uid /\ n \in Nat
  BY <1>1 DEF Uid
<1>6. e.rows = c.rows /\ e.trail = c.trail /\ FeedAppended(e, c, item, n, FALSE)
  <2> HIDE DEF n
  <2> QED
    BY <1>3, <1>4, <1>5, BumpFeed
<1>7. FeedAppended(e, d, item, n, FALSE)
  <2> HIDE DEF n
  <2> QED
    BY <1>4, <1>6 DEF FeedAppended
<1> QED
  BY <1>1, <1>4, <1>6, <1>7 DEF IsMove, e, longer

(* A history row from the status there was to the one there is keeps the   *)
(* trail unbroken.                                                         *)
LEMMA LongerTrail ==
  ASSUME NEW d \in Db, TrailsIn(d), NEW item \in Item, d.rows[item] # None,
         NEW to \in Value \cup {None}, d.rows[item].val["status"] # to,
         NEW e, e.rows[item] # None, e.rows[item].val["status"] = to,
         \A i \in Item : i # item => e.rows[i] = d.rows[i],
         e.trail = [d.trail EXCEPT ![item] =
                      Append(@, [from |-> d.rows[item].val["status"], to |-> to])]
  PROVE  TrailsIn(e)
<1> DEFINE Step == [from : Value \cup {None}, to : Value \cup {None}]
           from == d.rows[item].val["status"]
           step == [from |-> from, to |-> to]
           old  == d.trail[item]
           new  == Append(old, step)
<1>1. from \in Value \cup {None}
  <2>1. d.rows[item] \in Row
    BY DEF Db, Uid
  <2>2. "status" \in Field
    BY FieldAssumption DEF Field
  <2> QED
    BY <2>1, <2>2 DEF Row, Content
<1>2. old \in Seq(Step) /\ Len(old) \in Nat /\ DOMAIN old = 1..Len(old)
  <2>1. old \in Seq(Step)
    BY DEF Db
  <2> QED
    BY <2>1, LenProperties
<1>3. /\ Len(new) = Len(old) + 1 /\ DOMAIN new = 1..(Len(old) + 1)
      /\ \A n \in 1..Len(old) : new[n] = old[n]
      /\ new[Len(old) + 1] = step
  <2>1. step \in Step
    BY <1>1
  <2> HIDE DEF step, old
  <2>2. new \in Seq(Step) /\ Len(new) = Len(old) + 1
    BY <1>2, <2>1, AppendProperties
  <2> QED
    BY <1>2, <2>1, <2>2, AppendProperties, LenProperties
<1>4. e.trail[item] = new /\ \A i \in Item : i # item => e.trail[i] = d.trail[i]
  BY DEF Db
<1>5. /\ \A n \in DOMAIN old : old[n].from # old[n].to
      /\ \A n \in 1..(Len(old) - 1) : old[n].to = old[n + 1].from
      /\ old # <<>> => old[Len(old)].to = from
  BY DEF TrailsIn, TrailIn
<1>6. Len(old) # 0 => old # <<>>
  BY <1>2
<1> HIDE DEF old, new
<1>7. /\ \A n \in DOMAIN new : new[n].from # new[n].to
      /\ \A n \in 1..(Len(new) - 1) : new[n].to = new[n + 1].from
      /\ new[Len(new)].to = to
  <2>1. ASSUME NEW n \in DOMAIN new PROVE new[n].from # new[n].to
    BY <1>2, <1>3, <1>5
  <2>2. ASSUME NEW n \in 1..(Len(new) - 1) PROVE new[n].to = new[n + 1].from
    <3>1. CASE n = Len(old)
      BY <1>2, <1>3, <1>5, <1>6, <2>2, <3>1
    <3>2. CASE n # Len(old)
      <4>1. n \in 1..(Len(old) - 1) /\ n \in 1..Len(old) /\ n + 1 \in 1..Len(old)
        BY <1>2, <1>3, <2>2, <3>2
      <4> QED
        BY <1>3, <1>5, <4>1
    <3> QED
      BY <3>1, <3>2
  <2> QED
    BY <1>3, <2>1, <2>2
<1>8. TrailIn(e)
  <2> SUFFICES ASSUME NEW i \in Item, e.rows[i] # None
               PROVE  LET trail == e.trail[i]
                      IN  /\ \A n \in DOMAIN trail : trail[n].from # trail[n].to
                          /\ \A n \in 1..(Len(trail) - 1) : trail[n].to = trail[n + 1].from
                          /\ trail # <<>> => trail[Len(trail)].to = e.rows[i].val["status"]
    BY DEF TrailIn
  <2>1. CASE i = item
    BY <1>4, <1>7, <2>1
  <2>2. CASE i # item
    BY <1>4, <2>2 DEF TrailsIn, TrailIn
  <2> QED
    BY <2>1, <2>2
<1>9. \A i \in Item : e.rows[i] = None => e.trail[i] = <<>>
  BY <1>4 DEF TrailsIn
<1> QED
  BY <1>8, <1>9 DEF TrailsIn

(* create keeps it: a new item starts with no history, and a new child is  *)
(* one of an item that is there.                                           *)
LEMMA CreateTold ==
  ASSUME NEW d, Tables(d), Shown(d), NEW op, IsOp(op)
  PROVE  Shown(Create(d, op).db)
<1> DEFINE cleared == Cleared(d, op.uid)
           row     == NewRow(op, SeqOf(d) + 1)
           stored  == [Bump(cleared, op.uid, 0, FALSE) EXCEPT !.rows[op.uid] = row]
<1>1. d \in Db /\ op.uid \in Uid /\ op.item \in Item /\ SeqOf(d) + 1 \in Nat
  BY FeedIsSeq DEF IsOp, Tables, SeqOf
<1>2. cleared \in Db /\ cleared.rows = d.rows /\ cleared.feed = d.feed /\ cleared.trail = d.trail
  BY <1>1 DEF Cleared, Db
<1>3. Shown(cleared)
  BY <1>2 DEF Shown, PresenceIn, LastChange, HomesIn, TrailsIn, TrailIn
<1>4. row \in Row /\ row # None /\ row.item = IF op.uid \in Item THEN op.uid ELSE op.item
  <2>1. row \in Row
    BY <1>1, NewRowTyped
  <2> QED
    BY <2>1, NoneAssumption DEF NewRow
<1> HIDE DEF row
<1>5. /\ stored \in Db /\ stored.rows = [d.rows EXCEPT ![op.uid] = row]
      /\ stored.trail = d.trail /\ FeedAppended(stored, d, op.uid, 0, FALSE)
  <2> DEFINE b == Bump(cleared, op.uid, 0, FALSE)
  <2>1. /\ b \in Db /\ b.rows = d.rows /\ b.trail = d.trail
        /\ FeedAppended(b, cleared, op.uid, 0, FALSE)
    <3>1. cleared \in Db /\ cleared.rows = d.rows /\ cleared.trail = d.trail
      BY <1>2
    <3>2. op.uid \in Uid /\ 0 \in Nat /\ FALSE \in BOOLEAN
      BY <1>1
    <3> HIDE DEF cleared
    <3> QED
      BY <3>1, <3>2, BumpFeed
  <2> HIDE DEF b
  <2>2. IsPut(stored, cleared, op.uid, row)
    BY <1>1, <1>2, <1>4, PutRow
  <2>3. stored.feed = b.feed /\ stored.trail = b.trail
    BY <2>1 DEF Db, b
  <2> HIDE DEF stored, cleared
  <2> QED
    BY <1>2, <2>1, <2>2, <2>3 DEF IsPut, FeedAppended
<1>6. ASSUME d.rows[op.uid] = None, CreateRefusal(d, op) = ""
      PROVE  Shown(AfterTask(stored, op.uid, op.item))
  <2>1. op.uid \notin Item => d.rows[op.item] # None
    BY <1>1, <1>6 DEF CreateRefusal, Uid
  <2> HIDE DEF stored, cleared
  <2>2. PresenceIn(stored) /\ HomesIn(stored)
    <3>1. FeedAppended(stored, d, op.uid, 0, row = None)
      BY <1>4, <1>5
    <3> QED
      BY <1>1, <1>4, <1>5, <2>1, <3>1, OneRowShows
  <2>3. stored.rows[op.uid] = row /\ \A u \in Uid : u # op.uid => stored.rows[u] = d.rows[u]
    BY <1>1, <1>5 DEF Db
  <2>4. TrailsIn(stored)
    <3>1. \A i \in Item : d.rows[i] # None =>
            stored.rows[i] # None /\ stored.rows[i].val["status"] = d.rows[i].val["status"]
      BY <1>6, <2>3 DEF Uid
    <3> QED
      BY <1>5, <3>1, SameTrails DEF Shown
  <2>5. Shown(stored)
    BY <2>2, <2>4 DEF Shown
  <2>6. CASE op.uid \in Task
    <3>1. op.uid \notin Item /\ op.item # op.uid /\ op.item \in Uid
      BY <1>1, <2>6, UidAssumption DEF Uid
    <3>2. stored.rows[op.item] # None
      BY <2>1, <2>3, <3>1
    <3> QED
      BY <1>1, <1>5, <2>5, <3>2, AfterTaskTold
  <2>7. CASE op.uid \notin Task
    BY <2>5, <2>7 DEF AfterTask
  <2> QED
    BY <2>6, <2>7
<1>7. \/ Create(d, op).db \in {d, cleared}
      \/ /\ d.rows[op.uid] = None /\ CreateRefusal(d, op) = ""
         /\ Create(d, op).db = AfterTask(stored, op.uid, op.item)
  BY DEF Create, stored, cleared, row
<1> QED
  BY <1>3, <1>6, <1>7

(* A set that writes a status writes another one.                          *)
LEMMA StatusMoves ==
  ASSUME NEW d, NEW op, NEW waits, "status" \in DOMAIN Writes(d, op, waits)
  PROVE  Writes(d, op, waits)["status"] # d.rows[op.uid].val["status"]
<1> DEFINE accepted == {f \in DOMAIN op.data : Verdict(d, op, waits, f) = "accepted"}
           reopens  == /\ op.uid \in Item
                       /\ "status" \in accepted /\ op.data["status"] \notin Terminal
                       /\ "archived" \in JsonField \ accepted
                       /\ d.rows[op.uid].val["archived"] # None
           w == Writes(d, op, waits)
<1>1. w = [f \in accepted \cup (IF reopens THEN {"archived"} ELSE {}) |->
             IF f \in accepted THEN op.data[f] ELSE None]
  BY DEF Writes
<1>2. "status" \in accepted => op.data["status"] # d.rows[op.uid].val["status"]
  BY DEF Verdict
<1> HIDE DEF accepted, reopens, w
<1>3. "status" \in accepted /\ w["status"] = op.data["status"]
  BY <1>1 DEF w
<1> QED
  BY <1>2, <1>3 DEF w

(* set keeps it: a status that moves is followed by its history row.       *)
LEMMA SetTold ==
  ASSUME NEW d, Tables(d), Shown(d), NEW op, IsOp(op), NEW waits
  PROVE  Shown(Set(d, op, waits).db)
<1> DEFINE row     == d.rows[op.uid]
           writes  == Writes(d, op, waits)
           seq     == SeqOf(d) + 1
           new     == Written(row, writes, seq)
           stored  == [Bump(d, op.uid, 0, FALSE) EXCEPT !.rows[op.uid] = new]
           from    == row.val["status"]
           to      == writes["status"]
           moved   == IF op.uid \in Item /\ "status" \in DOMAIN writes
                      THEN StatusChanged(stored, op.uid, from, to)
                      ELSE stored
           after   == AfterTask(moved, op.uid, row.item)
<1>1. d \in Db /\ op.uid \in Uid /\ seq \in Nat
  BY FeedIsSeq DEF IsOp, Tables, SeqOf
<1>2. CASE row = None \/ DOMAIN writes = {}
  <2>1. Set(d, op, waits).db = d
    BY <1>2 DEF Set
  <2> QED
    BY <2>1
<1>3. CASE row # None /\ DOMAIN writes # {}
  <2>1. row \in Row /\ row.item \in Item /\ d.rows[row.item] # None
    BY <1>1, <1>3 DEF Db, Row, Shown, HomesIn
  <2>2. /\ DOMAIN writes \subseteq Field
        /\ \A f \in DOMAIN writes : writes[f] \in Value \cup {None}
    BY WritesTyped
  <2>3. Set(d, op, waits).db = after
    BY <1>3 DEF Set
  <2>4. "status" \in DOMAIN writes => from # to
    BY StatusMoves
  <2>5. "status" \in Field
    BY FieldAssumption DEF Field
  <2> HIDE DEF writes, seq
  <2>6. /\ new \in Row /\ new # None /\ new.item = row.item
        /\ new.val["status"] = IF "status" \in DOMAIN writes THEN to ELSE from
    <3>1. new \in Row
      BY <1>1, <2>1, <2>2, WrittenTyped
    <3>2. new.item = row.item
      BY <2>1 DEF Written, Row
    <3>3. new.val["status"] = IF "status" \in DOMAIN writes THEN to ELSE from
      BY <1>1, <2>1, <2>2, <2>5, WrittenTyped
    <3> QED
      BY <3>1, <3>2, <3>3, NoneAssumption
  <2>7. from \in Value \cup {None} /\ ("status" \in DOMAIN writes => to \in Value \cup {None})
    BY <2>1, <2>2, <2>5 DEF Row, Content
  <2>8. /\ stored \in Db /\ stored.rows = [d.rows EXCEPT ![op.uid] = new]
        /\ stored.trail = d.trail /\ FeedAppended(stored, d, op.uid, 0, FALSE)
    <3> DEFINE b == Bump(d, op.uid, 0, FALSE)
    <3>1. /\ b \in Db /\ b.rows = d.rows /\ b.trail = d.trail
          /\ FeedAppended(b, d, op.uid, 0, FALSE)
      BY <1>1, BumpFeed
    <3> HIDE DEF b, new, row
    <3>2. IsPut(stored, d, op.uid, new)
      BY <1>1, <2>6, PutRow DEF row
    <3>3. stored.feed = b.feed /\ stored.trail = b.trail
      BY <3>1 DEF Db, b
    <3> HIDE DEF stored
    <3> QED
      BY <3>1, <3>2, <3>3 DEF IsPut, FeedAppended
  <2> HIDE DEF new, stored, to
  <2>9. stored.rows[op.uid] = new /\ \A u \in Uid : u # op.uid => stored.rows[u] = d.rows[u]
    BY <1>1, <2>8 DEF Db
  <2>10. PresenceIn(stored) /\ HomesIn(stored)
    <3>1. FeedAppended(stored, d, op.uid, 0, new = None)
      BY <2>6, <2>8
    <3>2. d.rows[new.item] # None
      BY <2>1, <2>6
    <3> HIDE DEF row
    <3> QED
      BY <1>1, <2>6, <2>8, <3>1, <3>2, OneRowShows
  <2>11. moved \in Db /\ moved.rows = stored.rows /\ Shown(moved)
    <3>1. CASE op.uid \in Item /\ "status" \in DOMAIN writes
      <4>1. moved = StatusChanged(stored, op.uid, from, to)
        BY <3>1
      <4> HIDE DEF moved, from, row
      <4>2. from \in Value \cup {None} /\ to \in Value \cup {None}
        BY <2>7, <3>1
      <4>3. IsMove(moved, stored, op.uid, from, to)
        BY <2>8, <3>1, <4>2, <4>1, StatusChangedAppends
      <4>4. /\ moved.rows = stored.rows
            /\ moved.trail = [d.trail EXCEPT ![op.uid] = Append(d.trail[op.uid], [from |-> from, to |-> to])]
            /\ Len(d.trail[op.uid]) \in Nat
            /\ FeedAppended(moved, stored, op.uid, Len(d.trail[op.uid]) + 1, FALSE)
        BY <2>8, <4>3 DEF IsMove
      <4>5. moved \in Db
        BY <2>7, <2>8, <3>1, <4>1, StatusChangedIsDb
      <4>6. PresenceIn(moved)
        <5> DEFINE n == Len(d.trail[op.uid]) + 1
        <5>1. n \in Nat /\ n # 0
          BY <4>4
        <5>2. FeedAppended(moved, stored, op.uid, n, FALSE)
          BY <4>4
        <5> HIDE DEF n
        <5> QED
          BY <1>1, <2>8, <2>10, <4>4, <4>5, <5>1, <5>2, AppendedShows
      <4>7. HomesIn(moved)
        BY <2>10, <4>4 DEF HomesIn
      <4>8. TrailsIn(moved)
        <5>1. moved.rows[op.uid] = new /\ \A i \in Item : i # op.uid => moved.rows[i] = d.rows[i]
          BY <2>9, <4>4 DEF Uid
        <5>2. from = d.rows[op.uid].val["status"] /\ d.rows[op.uid] # None
          BY <1>3 DEF from, row
        <5>3. d.rows[op.uid].val["status"] # to /\ new.val["status"] = to
          BY <2>4, <2>6, <3>1, <5>2
        <5>4. moved.trail = [d.trail EXCEPT ![op.uid] =
                Append(@, [from |-> d.rows[op.uid].val["status"], to |-> to])]
          BY <4>4, <5>2
        <5>5. to \in Value \cup {None} /\ moved.rows[op.uid] # None
              /\ moved.rows[op.uid].val["status"] = to
          BY <2>6, <2>7, <3>1, <5>1, <5>3
        <5>6. d \in Db /\ TrailsIn(d) /\ op.uid \in Item
          BY <1>1, <3>1 DEF Shown
        <5> HIDE DEF moved, from, to, new
        <5> QED
          BY <5>1, <5>2, <5>3, <5>4, <5>5, <5>6, LongerTrail, SMTT(30)
      <4> QED
        BY <4>4, <4>5, <4>6, <4>7, <4>8 DEF Shown
    <3>2. CASE ~(op.uid \in Item /\ "status" \in DOMAIN writes)
      <4>1. moved = stored
        BY <3>2
      <4> HIDE DEF moved
      <4>2. \A i \in Item : d.rows[i] # None =>
              stored.rows[i] # None /\ stored.rows[i].val["status"] = d.rows[i].val["status"]
        <5> TAKE i \in Item
        <5>1. CASE i = op.uid
          BY <2>6, <2>9, <3>2, <5>1
        <5>2. CASE i # op.uid
          BY <2>9, <5>2 DEF Uid
        <5> QED
          BY <5>1, <5>2
      <4>3. TrailsIn(stored)
        BY <2>8, <4>2, SameTrails DEF Shown
      <4> QED
        BY <2>8, <2>10, <4>1, <4>3 DEF Shown
    <3> QED
      BY <3>1, <3>2
  <2> HIDE DEF moved
  <2>12. moved.rows[row.item] # None
    <3>1. row.item \in Uid
      BY <2>1 DEF Uid
    <3> HIDE DEF row
    <3> QED
      BY <2>1, <2>6, <2>9, <2>11, <3>1
  <2> HIDE DEF row, from
  <2>13. Shown(after)
    BY <1>1, <2>1, <2>11, <2>12, AfterTaskTold
  <2> QED
    BY <2>3, <2>13
<1> QED
  BY <1>2, <1>3

(* remove keeps it: only a child goes, and its change says so.             *)
LEMMA RemoveTold ==
  ASSUME NEW d, Tables(d), Shown(d), NEW op, IsOp(op)
  PROVE  Shown(Remove(d, op).db)
<1> DEFINE row   == d.rows[op.uid]
           tomb  == [seq |-> SeqOf(d) + 1, byPlugin |-> op.plugin]
           b     == Bump(d, op.uid, 0, TRUE)
           gone  == [b EXCEPT !.rows[op.uid] = None, !.tombs[op.uid] = tomb]
<1>1. d \in Db /\ op.uid \in Uid /\ tomb \in Tomb
  BY FeedIsSeq DEF IsOp, Tables, SeqOf, Tomb
<1>2. /\ gone \in Db /\ gone.rows = [d.rows EXCEPT ![op.uid] = None]
      /\ gone.trail = d.trail /\ FeedAppended(gone, d, op.uid, 0, TRUE)
  <2>1. b \in Db /\ b.rows = d.rows /\ b.trail = d.trail /\ FeedAppended(b, d, op.uid, 0, TRUE)
    BY <1>1, BumpFeed
  <2> HIDE DEF b, tomb
  <2>2. /\ gone.rows = [b.rows EXCEPT ![op.uid] = None]
        /\ gone.feed = b.feed /\ gone.trail = b.trail
    BY <2>1 DEF Db
  <2>3. gone \in Db
    BY <1>1, <2>1 DEF Db
  <2> HIDE DEF gone
  <2> QED
    BY <2>1, <2>2, <2>3 DEF FeedAppended
<1>3. \/ Remove(d, op).db = d
      \/ /\ op.uid \notin Item /\ row # None
         /\ Remove(d, op).db = AfterTask(gone, op.uid, row.item)
  BY DEF Remove
<1> HIDE DEF gone, b, tomb
<1>4. ASSUME op.uid \notin Item, row # None PROVE Shown(AfterTask(gone, op.uid, row.item))
  <2>1. row.item \in Item /\ d.rows[row.item] # None
    BY <1>1, <1>4 DEF Db, Row, Shown, HomesIn
  <2> HIDE DEF row
  <2>2. PresenceIn(gone) /\ HomesIn(gone)
    BY <1>1, <1>2, <1>4, OneRowShows
  <2>3. \A i \in Item : gone.rows[i] = d.rows[i]
    BY <1>2, <1>4 DEF Db, Uid
  <2>4. TrailsIn(gone)
    BY <1>2, <2>3, SameTrails DEF Shown
  <2>5. Shown(gone) /\ gone.rows[row.item] # None
    BY <2>1, <2>2, <2>3, <2>4 DEF Shown
  <2> QED
    BY <1>1, <1>2, <2>1, <2>5, AfterTaskTold
<1> QED
  BY <1>3, <1>4

(* Every op leaves the feed and the history telling the truth.             *)
LEMMA ApplyOneTold ==
  ASSUME NEW d, Tables(d), Shown(d), NEW op, IsOp(op), NEW waits
  PROVE  Shown(ApplyOne(d, op, waits).db)
<1>1. CASE op.op = "create"
  <2>1. ApplyOne(d, op, waits) = Create(d, op)
    BY <1>1 DEF ApplyOne
  <2> QED
    BY <2>1, CreateTold
<1>2. CASE op.op = "set"
  <2>1. ApplyOne(d, op, waits) = Set(d, op, waits)
    BY <1>2 DEF ApplyOne
  <2> QED
    BY <2>1, SetTold
<1>3. CASE op.op = "remove"
  <2>1. ApplyOne(d, op, waits) = Remove(d, op)
    BY <1>3 DEF ApplyOne
  <2> QED
    BY <2>1, RemoveTold
<1> QED
  BY <1>1, <1>2, <1>3 DEF IsOp

-----------------------------------------------------------------------------
(* What holds of the tables between ops: asked of the committed ones and   *)
(* of every transaction's view of them.                                    *)
Sound(d) == Tables(d) /\ CalcIn(d) /\ Shown(d)

(* Every op keeps the tables sound, and persons' removals in force.        *)
LEMMA ApplyOneSound ==
  ASSUME NEW d, Sound(d), NEW op, IsOp(op), NEW waits
  PROVE  /\ Sound(ApplyOne(d, op, waits).db)
         /\ ApplyOne(d, op, waits).result \in Result
         /\ RemovalsStick(d, ApplyOne(d, op, waits).db)
<1> DEFINE outcome == ApplyOne(d, op, waits)
<1>1. Tables(d) /\ CalcIn(d) /\ Shown(d)
  BY DEF Sound
<1>2. Tables(outcome.db) /\ outcome.result \in Result /\ RemovalsStick(d, outcome.db)
  BY <1>1, ApplyOneKeeps
<1>3. CalcIn(outcome.db)
  BY <1>1, ApplyOneCalc
<1>4. Shown(outcome.db)
  BY <1>1, ApplyOneTold
<1> HIDE DEF outcome
<1>5. Sound(outcome.db)
  BY <1>2, <1>3, <1>4 DEF Sound
<1> QED
  BY <1>2, <1>5 DEF outcome

-----------------------------------------------------------------------------
(***************************************************************************)
(* Versions: what a value and the version it was read with say of a row.   *)
(***************************************************************************)

(* The columns every row has a version for.                                *)
Plain(u) == Settable(u) \ JsonField

(* Version n of the field is one of d's changes, and if it is the row's    *)
(* then v is its value.                                                    *)
FitsIn(d, u, f, n, v) ==
  /\ n \in 1..SeqOf(d)
  /\ d.rows[u] # None /\ d.rows[u].ver[f] = n => d.rows[u].val[f] = v

(* Values and versions read at some time, a row or an entry made from it.  *)
RowFits(d, u, row) == \A f \in Plain(u) : FitsIn(d, u, f, row.ver[f], row.val[f])

(* e is d or comes after it: a version d has already given is still of the *)
(* value it was given to.                                                  *)
Newer(d, e) ==
  /\ SeqOf(d) \in Nat /\ SeqOf(e) \in Nat /\ SeqOf(d) <= SeqOf(e)
  /\ \A u \in Uid : e.rows[u] # None =>
       \A f \in Field : e.rows[u].ver[f] \in 1..SeqOf(d) =>
         /\ d.rows[u] # None
         /\ d.rows[u].ver[f] = e.rows[u].ver[f]
         /\ d.rows[u].val[f] = e.rows[u].val[f]

Versioned(d) == \A u \in Uid : d.rows[u] # None => \A f \in Plain(u) : d.rows[u].ver[f] > 0

(* An item that was ever changed is there.                                 *)
ItemsNamed(d) ==
  \A s \in DOMAIN d.feed : d.feed[s].uid \in Item => d.rows[d.feed[s].uid] # None

(* Tables from which ops can be answered.                                  *)
Grounded(d) == Sound(d) /\ Versioned(d) /\ ItemsNamed(d)

(* What a result says of the tables d it is given in, or of later ones.    *)
AnswerFits(d, op, r) ==
  /\ r \in Result
  /\ r.refused # {} => op.op # "create" /\ r.row # None
  /\ r.reason = "uid-exists" => r.row # None
  /\ r.row # None => RowFits(d, op.uid, r.row)
  /\ op.op = "create" /\ r.status = "applied" =>
       \A f \in Plain(op.uid) : f \in DOMAIN op.data =>
         r.versions[f] # None /\ FitsIn(d, op.uid, f, r.versions[f], op.data[f])
  /\ op.op = "set" =>
       \A f \in Plain(op.uid) : f \in DOMAIN op.data /\ r.versions[f] # None /\ f \notin r.refused =>
         FitsIn(d, op.uid, f, r.versions[f], op.data[f])

LEMMA PlainFields == \A u \in Uid : Plain(u) \subseteq Field
  BY DEF Plain, Settable, Field

LEMMA FitsStays ==
  ASSUME NEW d, NEW e, Newer(d, e), NEW u \in Uid, NEW f \in Field, NEW n, NEW v,
         FitsIn(d, u, f, n, v)
  PROVE  FitsIn(e, u, f, n, v)
  BY DEF Newer, FitsIn

LEMMA RowFitsStays ==
  ASSUME NEW d, NEW e, Newer(d, e), NEW u \in Uid, NEW row, RowFits(d, u, row)
  PROVE  RowFits(e, u, row)
  BY PlainFields, FitsStays DEF RowFits

LEMMA AnswerFitsStays ==
  ASSUME NEW d, NEW e, Newer(d, e), NEW op, op.uid \in Uid, NEW r, AnswerFits(d, op, r)
  PROVE  AnswerFits(e, op, r)
<1>1. r.row # None => RowFits(e, op.uid, r.row)
  BY RowFitsStays DEF AnswerFits
<1>2. \A f \in Plain(op.uid) : \A n, v : FitsIn(d, op.uid, f, n, v) => FitsIn(e, op.uid, f, n, v)
  BY PlainFields, FitsStays
<1> QED
  BY <1>1, <1>2 DEF AnswerFits

LEMMA NewerSelf ==
  ASSUME NEW d \in Db
  PROVE  Newer(d, d)
  BY FeedIsSeq DEF Newer, SeqOf

LEMMA NewerComposes ==
  ASSUME NEW d, NEW e, NEW g, Newer(d, e), Newer(e, g)
  PROVE  Newer(d, g)
  BY DEF Newer

(* A row of the tables fits them.                                          *)
LEMMA OwnRowFits ==
  ASSUME NEW d, Grounded(d), NEW u \in Uid, d.rows[u] # None
  PROVE  RowFits(d, u, d.rows[u])
<1>1. d.rows[u] \in Row
  BY DEF Grounded, Sound, Tables, Db
<1>2. \A f \in Plain(u) : d.rows[u].ver[f] \in Nat /\ d.rows[u].ver[f] > 0
                          /\ d.rows[u].ver[f] <= Len(d.feed)
  BY <1>1, PlainFields DEF Row, Grounded, Versioned, Sound, Tables, VersionsIn
<1>3. Len(d.feed) \in Nat
  BY FeedIsSeq DEF Grounded, Sound, Tables
<1> QED
  BY <1>2, <1>3 DEF RowFits, FitsIn, SeqOf

-----------------------------------------------------------------------------
(* What one op leaves: e is d with at most the row of u changed, under a   *)
(* version of its own.                                                     *)
Wrote(d, e, u) ==
  /\ e \in Db /\ Newer(d, e) /\ Versioned(e) /\ ItemsNamed(e)
  /\ \A v \in Uid : v # u => e.rows[v] = d.rows[v]

LEMMA WroteNothing ==
  ASSUME NEW d, Grounded(d), NEW e \in Db, e.rows = d.rows, e.feed = d.feed, NEW u
  PROVE  Wrote(d, e, u)
  BY FeedIsSeq DEF Grounded, Sound, Tables, Wrote, Newer, Versioned, ItemsNamed, SeqOf

LEMMA WroteRow ==
  ASSUME NEW d, Grounded(d), NEW u \in Uid, NEW row,
         NEW e \in Db, e.rows = [d.rows EXCEPT ![u] = row], ItemsNamed(e),
         Len(d.feed) <= Len(e.feed),
         row # None =>
           /\ \A f \in Field : \/ row.ver[f] \in {0, Len(d.feed) + 1}
                               \/ /\ d.rows[u] # None /\ row.ver[f] = d.rows[u].ver[f]
                                  /\ row.val[f] = d.rows[u].val[f]
           /\ \A f \in Plain(u) : row.ver[f] > 0
  PROVE  Wrote(d, e, u)
<1>1. d \in Db /\ Len(d.feed) \in Nat /\ Len(e.feed) \in Nat
  BY FeedIsSeq DEF Grounded, Sound, Tables
<1>2. e.rows[u] = row /\ \A v \in Uid : v # u => e.rows[v] = d.rows[v]
  BY <1>1 DEF Db
<1>3. Newer(d, e)
  BY <1>1, <1>2 DEF Newer, SeqOf
<1>4. Versioned(e)
  BY <1>2 DEF Versioned, Grounded
<1> QED
  BY <1>2, <1>3, <1>4 DEF Wrote

LEMMA AppendedNames ==
  ASSUME NEW d, NEW e, ItemsNamed(d), NEW uid, NEW n, NEW deleted,
         FeedAppended(e, d, uid, n, deleted),
         \A i \in Item : d.rows[i] # None => e.rows[i] # None,
         uid \in Item => e.rows[uid] # None
  PROVE  ItemsNamed(e)
<1> SUFFICES ASSUME NEW s \in DOMAIN e.feed, e.feed[s].uid \in Item
             PROVE  e.rows[e.feed[s].uid] # None
  BY DEF ItemsNamed
<1>1. CASE s \in DOMAIN d.feed
  BY <1>1 DEF FeedAppended, ItemsNamed
<1>2. CASE s = Len(d.feed) + 1
  BY <1>2 DEF FeedAppended
<1> QED
  BY <1>1, <1>2 DEF FeedAppended

(* recalc appends a change about an item that is there, or nothing.        *)
LEMMA AfterTaskNames ==
  ASSUME NEW d \in Db, ItemsNamed(d), NEW uid, NEW item \in Item, d.rows[item] # None
  PROVE  LET a == AfterTask(d, uid, item)
         IN  a \in Db /\ a.rows = d.rows /\ Len(d.feed) <= Len(a.feed) /\ ItemsNamed(a)
<1> DEFINE c == DeriveCalcStatus(TaskStatuses(d, item))
           e == [d EXCEPT !.calc[item] = c]
           b == Bump(e, item, 0, FALSE)
<1>1. c \in Statuses \cup {NoStatus}
  BY DerivedIsStatus
<1> HIDE DEF c
<1>2. e \in Db /\ e.rows = d.rows /\ e.feed = d.feed
  BY <1>1 DEF Db
<1>3. item \in Uid
  BY DEF Uid
<1> HIDE DEF e
<1>4. b \in Db /\ b.rows = d.rows /\ FeedAppended(b, d, item, 0, FALSE)
  <2>1. b \in Db /\ b.rows = e.rows /\ FeedAppended(b, e, item, 0, FALSE)
    BY <1>2, <1>3, BumpFeed
  <2> QED
    BY <1>2, <2>1 DEF FeedAppended
<1> HIDE DEF b
<1>5. ItemsNamed(b) /\ Len(d.feed) <= Len(b.feed)
  BY <1>4, AppendedNames DEF FeedAppended
<1>6. Len(d.feed) \in Nat
  BY FeedIsSeq
<1>7. AfterTask(d, uid, item) \in {d, b}
  BY DEF AfterTask, Recalc, b, e, c
<1> QED
  BY <1>4, <1>5, <1>6, <1>7

(* What an op does to d, and what its result says of what it left.         *)
OpAnswers(d, e, op, r) ==
  /\ Wrote(d, e, op.uid)
  /\ AnswerFits(e, op, r)
  /\ r.row # None => r.row = d.rows[op.uid]

(* A refusal that names no field says nothing of the tables.               *)
LEMMA RefusalFits ==
  ASSUME NEW d, NEW op, op.uid \in Uid, NEW reason \in Reasons \ {"uid-exists"}
  PROVE  AnswerFits(d, op, Refuse(reason)) /\ Refuse(reason).row = None
<1>1. Refuse(reason) \in Result
  BY RefuseIsResult
<1>2. Refuse(reason) = Reply("rejected", reason, NoVersions, {}, None)
  BY DEF Refuse
<1>3. /\ Refuse(reason).refused = {} /\ Refuse(reason).reason = reason /\ Refuse(reason).row = None
      /\ Refuse(reason).status = "rejected" /\ Refuse(reason).versions = NoVersions
  BY <1>2 DEF Reply
<1> HIDE DEF Refuse
<1>4. \A f \in Plain(op.uid) : f \in DOMAIN op.data /\ Refuse(reason).versions[f] # None => FALSE
  BY <1>3, PlainFields DEF NoVersions
<1> QED
  BY <1>1, <1>3, <1>4 DEF AnswerFits

(* A new row's versions are the seq of its change (create).                *)
LEMMA NewRowFits ==
  ASSUME NEW op, IsOp(op), NEW seq \in Nat, seq > 0
  PROVE  /\ \A f \in Field : NewRow(op, seq).ver[f] \in {0, seq}
         /\ \A f \in Plain(op.uid) : f \in Field /\ NewRow(op, seq).ver[f] = seq
         /\ \A f \in Plain(op.uid) : f \in DOMAIN op.data => NewRow(op, seq).val[f] = op.data[f]
         /\ \A f \in Plain(op.uid) : VersionsOf(NewRow(op, seq))[f] = seq
<1>1. /\ NewRow(op, seq).val = NewContent(op) /\ NewRow(op, seq).ver = NewVersions(op, seq)
  BY DEF NewRow
<1>2. \A f \in Plain(op.uid) : f \in Field /\ f \in Settable(op.uid)
  BY PlainFields DEF IsOp, Plain
<1>3. \A f \in Field : NewVersions(op, seq)[f] \in {0, seq}
  BY DEF NewVersions
<1>4. \A f \in Plain(op.uid) : NewVersions(op, seq)[f] = seq
  BY <1>2 DEF NewVersions
<1>5. \A f \in Plain(op.uid) : f \in DOMAIN op.data => NewContent(op)[f] = op.data[f]
  BY <1>2 DEF NewContent, IsSettable
<1> HIDE DEF NewRow
<1>6. \A f \in Plain(op.uid) : VersionsOf(NewRow(op, seq))[f] = seq
  BY <1>1, <1>2, <1>4 DEF VersionsOf
<1> QED
  BY <1>1, <1>2, <1>3, <1>4, <1>5, <1>6

(* create.                                                                 *)
LEMMA CreateAnswers ==
  ASSUME NEW d, Grounded(d), NEW op, IsOp(op), op.op = "create"
  PROVE  OpAnswers(d, Create(d, op).db, op, Create(d, op).result)
<1> DEFINE seq     == SeqOf(d) + 1
           cleared == Cleared(d, op.uid)
           row     == NewRow(op, seq)
           b       == Bump(cleared, op.uid, 0, FALSE)
           stored  == [b EXCEPT !.rows[op.uid] = row]
           after   == AfterTask(stored, op.uid, op.item)
           given   == Reply("applied", "", VersionsOf(row), {}, None)
<1>1. d \in Db /\ op.uid \in Uid /\ op.item \in Item /\ seq \in Nat /\ seq > 0 /\ seq = Len(d.feed) + 1
      /\ op.item \in Uid
  BY FeedIsSeq DEF IsOp, Grounded, Sound, Tables, SeqOf, Uid
<1>2. cleared \in Db /\ cleared.rows = d.rows /\ cleared.feed = d.feed
  BY <1>1 DEF Cleared, Db
<1>3. Wrote(d, d, op.uid) /\ Wrote(d, cleared, op.uid)
  BY <1>1, <1>2, WroteNothing
<1>4. row \in Row /\ row # None
  BY <1>1, NewRowTyped, NoneAssumption
<1>5. CASE d.rows[op.uid] # None
  <2> DEFINE had == d.rows[op.uid]
  <2>1. Create(d, op).db = d /\ Create(d, op).result = CreateExisting(d, op)
    BY <1>5 DEF Create
  <2>2. RowFits(d, op.uid, had) /\ had \in Row
    BY <1>1, <1>5, OwnRowFits DEF Db
  <2>3. CASE \A f \in DOMAIN op.data : IsSettable(op.uid, f) => had.val[f] = op.data[f]
    <3> DEFINE r == Reply("applied", "", VersionsOf(had), {}, None)
    <3>1. CreateExisting(d, op) = r
      BY <2>3 DEF CreateExisting
    <3>2. r \in Result
      BY <2>2, VersionsOfTyped, ReplyIsResult DEF Reasons
    <3>3. r.refused = {} /\ r.reason = "" /\ r.row = None /\ r.versions = VersionsOf(had)
      BY DEF Reply
    <3>4. \A f \in Plain(op.uid) : f \in DOMAIN op.data =>
            VersionsOf(had)[f] # None /\ FitsIn(d, op.uid, f, VersionsOf(had)[f], op.data[f])
      <4> TAKE f \in Plain(op.uid)
      <4>1. f \in Field /\ IsSettable(op.uid, f)
        BY <1>1, PlainFields DEF Plain, IsSettable
      <4>2. had.ver[f] \in Nat /\ had.ver[f] > 0 /\ had.ver[f] # None
        BY <1>1, <1>5, <2>2, <4>1, NoneAssumption DEF Grounded, Versioned, Row
      <4>3. VersionsOf(had)[f] = had.ver[f]
        BY <4>1, <4>2 DEF VersionsOf
      <4> QED
        BY <2>2, <2>3, <4>1, <4>2, <4>3 DEF RowFits
    <3> HIDE DEF r
    <3>5. AnswerFits(d, op, r)
      BY <3>2, <3>3, <3>4 DEF AnswerFits
    <3> QED
      BY <1>3, <2>1, <3>1, <3>3, <3>5 DEF OpAnswers
  <2>4. CASE ~\A f \in DOMAIN op.data : IsSettable(op.uid, f) => had.val[f] = op.data[f]
    <3> DEFINE r == Reply("rejected", "uid-exists", NoVersions, {}, had)
    <3>1. CreateExisting(d, op) = r
      BY <2>4 DEF CreateExisting
    <3>2. r \in Result
      BY <2>2, ReplyIsResult DEF Reasons, NoVersions
    <3>3. r.refused = {} /\ r.row = had /\ r.status = "rejected" /\ had # None
      BY <1>5 DEF Reply
    <3> HIDE DEF r
    <3>4. AnswerFits(d, op, r)
      BY <2>2, <3>2, <3>3 DEF AnswerFits
    <3> QED
      BY <1>3, <2>1, <3>1, <3>3, <3>4 DEF OpAnswers
  <2> QED
    BY <2>3, <2>4
<1>6. CASE d.rows[op.uid] = None /\ Buried(d, op)
  <2>1. Create(d, op).db = d /\ Create(d, op).result = RemovedReason(d, op)
    BY <1>6 DEF Create
  <2>2. RemovedReason(d, op) = Refuse("unknown") \/ RemovedReason(d, op) = Refuse("removed")
    BY DEF RemovedReason
  <2>3. {"unknown", "removed"} \subseteq Reasons \ {"uid-exists"}
    BY DEF Reasons
  <2> QED
    BY <1>1, <1>3, <2>1, <2>2, <2>3, RefusalFits DEF OpAnswers
<1>7. CASE d.rows[op.uid] = None /\ ~Buried(d, op) /\ CreateRefusal(d, op) # ""
  <2>1. Create(d, op).db = cleared /\ Create(d, op).result = Refuse(CreateRefusal(d, op))
    BY <1>7 DEF Create
  <2>2. CreateRefusal(d, op) \in Reasons \ {"uid-exists"}
    BY DEF CreateRefusal, Reasons
  <2> HIDE DEF cleared
  <2> QED
    BY <1>1, <1>3, <2>1, <2>2, RefusalFits DEF OpAnswers
<1>8. CASE d.rows[op.uid] = None /\ ~Buried(d, op) /\ CreateRefusal(d, op) = ""
  <2>1. Create(d, op).db = after /\ Create(d, op).result = given
    BY <1>8 DEF Create
  <2>2. op.uid \notin Item => d.rows[op.item] # None
    BY <1>1, <1>8 DEF CreateRefusal, Uid
  <2>3. /\ stored \in Db /\ stored.rows = [d.rows EXCEPT ![op.uid] = row]
        /\ FeedAppended(stored, d, op.uid, 0, FALSE)
    <3>1. b \in Db /\ b.rows = d.rows /\ FeedAppended(b, cleared, op.uid, 0, FALSE)
      <4> HIDE DEF cleared
      <4> QED
        BY <1>1, <1>2, BumpFeed
    <3>2. IsPut(stored, cleared, op.uid, row)
      BY <1>1, <1>2, <1>4, PutRow
    <3>3. stored.feed = b.feed
      BY <3>1 DEF Db
    <3> HIDE DEF stored, cleared, b
    <3> QED
      BY <1>2, <3>1, <3>2, <3>3 DEF IsPut, FeedAppended
  <2> HIDE DEF stored, cleared, b, row
  <2>4. stored.rows[op.uid] = row /\ \A v \in Uid : v # op.uid => stored.rows[v] = d.rows[v]
    BY <1>1, <2>3 DEF Db
  <2>5. ItemsNamed(stored)
    <3>1. ItemsNamed(d) /\ FeedAppended(stored, d, op.uid, 0, FALSE) /\ stored.rows[op.uid] # None
      BY <1>4, <2>3, <2>4 DEF Grounded, row
    <3>2. \A i \in Item : d.rows[i] # None => stored.rows[i] # None
      BY <1>8, <2>4 DEF Uid
    <3> QED
      BY <3>1, <3>2, AppendedNames
  <2>6. /\ after \in Db /\ after.rows = stored.rows /\ ItemsNamed(after)
        /\ Len(stored.feed) <= Len(after.feed)
    <3>1. CASE op.uid \in Task
      <4>1. op.uid \notin Item /\ op.item # op.uid
        BY <1>1, <3>1, UidAssumption DEF Uid
      <4>2. stored.rows[op.item] # None
        BY <1>1, <2>2, <2>4, <4>1
      <4> QED
        BY <1>1, <2>3, <2>5, <4>2, AfterTaskNames
    <3>2. CASE op.uid \notin Task
      <4>1. after = stored
        BY <3>2 DEF AfterTask
      <4>2. Len(stored.feed) \in Nat
        BY <2>3, FeedIsSeq
      <4> QED
        BY <2>3, <2>5, <4>1, <4>2
    <3> QED
      BY <3>1, <3>2
  <2>7. seq <= Len(after.feed) /\ Len(after.feed) \in Nat /\ Len(d.feed) <= Len(after.feed)
    <3>1. Len(after.feed) \in Nat
      BY <2>6, FeedIsSeq
    <3> HIDE DEF after
    <3> QED
      BY <1>1, <2>3, <2>6, <3>1 DEF FeedAppended
  <2>8. /\ \A f \in Field : row.ver[f] \in {0, seq}
        /\ \A f \in Plain(op.uid) : f \in Field /\ row.ver[f] = seq
        /\ \A f \in Plain(op.uid) : f \in DOMAIN op.data => row.val[f] = op.data[f]
        /\ \A f \in Plain(op.uid) : VersionsOf(row)[f] = seq
    BY <1>1, NewRowFits DEF row
  <2> HIDE DEF after
  <2>9. Wrote(d, after, op.uid)
    BY <1>1, <2>3, <2>6, <2>7, <2>8, WroteRow
  <2>10. given \in Result
    BY <1>4, VersionsOfTyped, ReplyIsResult DEF Reasons
  <2>11. given.refused = {} /\ given.reason = "" /\ given.row = None /\ given.versions = VersionsOf(row)
    BY DEF Reply
  <2>12. \A f \in Plain(op.uid) : f \in DOMAIN op.data =>
           VersionsOf(row)[f] # None /\ FitsIn(after, op.uid, f, VersionsOf(row)[f], op.data[f])
    BY <1>1, <2>4, <2>6, <2>7, <2>8, NoneAssumption DEF FitsIn, SeqOf
  <2> HIDE DEF given
  <2>13. AnswerFits(after, op, given)
    BY <2>10, <2>11, <2>12 DEF AnswerFits
  <2> QED
    BY <2>1, <2>9, <2>11, <2>13 DEF OpAnswers
<1> QED
  BY <1>5, <1>6, <1>7, <1>8

(* A set writes the values it was given, but for the archive's.            *)
LEMMA WritesGiven ==
  ASSUME NEW d, NEW op, NEW waits, NEW f \in DOMAIN Writes(d, op, waits), f \notin JsonField
  PROVE  f \in DOMAIN op.data /\ Writes(d, op, waits)[f] = op.data[f]
<1> DEFINE accepted == {g \in DOMAIN op.data : Verdict(d, op, waits, g) = "accepted"}
           reopens  == /\ op.uid \in Item
                       /\ "status" \in accepted /\ op.data["status"] \notin Terminal
                       /\ "archived" \in JsonField \ accepted
                       /\ d.rows[op.uid].val["archived"] # None
           w == Writes(d, op, waits)
<1>1. w = [g \in accepted \cup (IF reopens THEN {"archived"} ELSE {}) |->
             IF g \in accepted THEN op.data[g] ELSE None]
  BY DEF Writes
<1>2. reopens => "archived" \in JsonField
  OBVIOUS
<1>3. accepted \subseteq DOMAIN op.data
  OBVIOUS
<1> HIDE DEF accepted, reopens, w
<1>4. f \in accepted /\ w[f] = op.data[f]
  BY <1>1, <1>2 DEF w
<1> QED
  BY <1>3, <1>4 DEF w

(* A value is the same when it is the row's.                               *)
LEMMA SameGiven ==
  ASSUME NEW d, NEW op, NEW waits, NEW f, Verdict(d, op, waits, f) = "same"
  PROVE  op.data[f] = d.rows[op.uid].val[f]
<1>1. StatusRule(d, op, op.data[f], waits) # "same"
  BY DEF StatusRule
<1> QED
  BY <1>1 DEF Verdict

(* set.                                                                    *)
LEMMA SetAnswers ==
  ASSUME NEW d, Grounded(d), NEW op, IsOp(op), op.op = "set", NEW waits
  PROVE  OpAnswers(d, Set(d, op, waits).db, op, Set(d, op, waits).result)
<1> DEFINE row     == d.rows[op.uid]
           writes  == Writes(d, op, waits)
           seq     == SeqOf(d) + 1
           new     == Written(row, writes, seq)
           b       == Bump(d, op.uid, 0, FALSE)
           stored  == [b EXCEPT !.rows[op.uid] = new]
           from    == row.val["status"]
           to      == writes["status"]
           moved   == IF op.uid \in Item /\ "status" \in DOMAIN writes
                      THEN StatusChanged(stored, op.uid, from, to)
                      ELSE stored
           after   == AfterTask(moved, op.uid, row.item)
           same    == {f \in DOMAIN op.data : Verdict(d, op, waits, f) = "same"}
           refused == DOMAIN op.data \ (same \cup DOMAIN writes)
           out     == [f \in Field |-> IF f \in DOMAIN writes THEN seq
                                       ELSE IF f \in same THEN row.ver[f] ELSE None]
           r       == Reply(IF refused # {} /\ out = NoVersions THEN "rejected" ELSE "applied",
                            "", out, refused, row)
           e       == IF DOMAIN writes = {} THEN d ELSE after
<1>1. /\ d \in Db /\ op.uid \in Uid /\ seq \in Nat /\ seq = Len(d.feed) + 1
      /\ Len(d.feed) \in Nat /\ DOMAIN op.data \subseteq Field
  BY FeedIsSeq DEF IsOp, IsPartial, Grounded, Sound, Tables, SeqOf
<1>2. Wrote(d, d, op.uid)
  BY <1>1, WroteNothing
<1>3. CASE row = None
  <2>1. Set(d, op, waits).db = d /\ Set(d, op, waits).result = RemovedReason(d, op)
    BY <1>3 DEF Set
  <2>2. RemovedReason(d, op) = Refuse("unknown") \/ RemovedReason(d, op) = Refuse("removed")
    BY DEF RemovedReason
  <2>3. {"unknown", "removed"} \subseteq Reasons \ {"uid-exists"}
    BY DEF Reasons
  <2> QED
    BY <1>1, <1>2, <2>1, <2>2, <2>3, RefusalFits DEF OpAnswers
<1>4. CASE row # None
  <2>1. Set(d, op, waits).db = e /\ Set(d, op, waits).result = r
    BY <1>4 DEF Set
  <2>2. row \in Row /\ row.item \in Item /\ row.item \in Uid /\ d.rows[row.item] # None
    BY <1>1, <1>4 DEF Db, Row, Grounded, Sound, Shown, HomesIn, Uid
  <2>3. RowFits(d, op.uid, row)
    BY <1>1, <1>4, OwnRowFits
  <2>4. /\ DOMAIN writes \subseteq Field
        /\ \A f \in DOMAIN writes : writes[f] \in Value \cup {None}
    BY WritesTyped
  <2>5. \A f \in Plain(op.uid) :
          /\ f \in Field
          /\ f \in DOMAIN writes => f \in DOMAIN op.data /\ writes[f] = op.data[f]
          /\ f \in same => op.data[f] = row.val[f]
    BY <1>1, PlainFields, WritesGiven, SameGiven DEF Plain
  <2> HIDE DEF writes, same
  <2>6. new \in Row /\ new # None
        /\ (\A f \in Field : new.val[f] = IF f \in DOMAIN writes THEN writes[f] ELSE row.val[f])
        /\ (\A f \in Field : new.ver[f] = IF f \in DOMAIN writes THEN seq ELSE row.ver[f])
    <3>1. /\ new \in Row
          /\ \A f \in Field : new.val[f] = IF f \in DOMAIN writes THEN writes[f] ELSE row.val[f]
          /\ \A f \in Field : new.ver[f] = IF f \in DOMAIN writes THEN seq ELSE row.ver[f]
      <4> HIDE DEF seq, row
      <4> QED
        BY <1>1, <2>2, <2>4, WrittenTyped
    <3> HIDE DEF new, row
    <3> QED
      BY <3>1, NoneAssumption
  <2>7. /\ Wrote(d, e, op.uid)
        /\ DOMAIN writes # {} => e.rows[op.uid] = new /\ SeqOf(d) < SeqOf(e)
    <3>1. CASE DOMAIN writes = {}
      BY <1>2, <3>1
    <3>2. CASE DOMAIN writes # {}
      <4>1. /\ stored \in Db /\ stored.rows = [d.rows EXCEPT ![op.uid] = new]
            /\ FeedAppended(stored, d, op.uid, 0, FALSE)
        <5>1. b \in Db /\ b.rows = d.rows /\ FeedAppended(b, d, op.uid, 0, FALSE)
          BY <1>1, BumpFeed
        <5>2. IsPut(stored, d, op.uid, new)
          BY <1>1, <2>6, PutRow
        <5>3. stored.feed = b.feed
          BY <5>1 DEF Db
        <5> HIDE DEF stored, b, new
        <5> QED
          BY <5>1, <5>2, <5>3 DEF IsPut, FeedAppended
      <4> HIDE DEF stored, b, new
      <4>2. stored.rows[op.uid] = new /\ \A v \in Uid : v # op.uid => stored.rows[v] = d.rows[v]
        BY <1>1, <4>1 DEF Db
      <4>3. \A v \in Uid : d.rows[v] # None => stored.rows[v] # None
        BY <2>6, <4>2
      <4>4. ItemsNamed(stored)
        <5>1. ItemsNamed(d) /\ \A i \in Item : d.rows[i] # None => stored.rows[i] # None
          BY <4>3 DEF Grounded, Uid
        <5> QED
          BY <2>6, <4>1, <4>2, <5>1, AppendedNames
      <4>5. moved \in Db /\ moved.rows = stored.rows /\ ItemsNamed(moved)
            /\ Len(stored.feed) <= Len(moved.feed)
        <5>1. CASE op.uid \in Item /\ "status" \in DOMAIN writes
          <6>1. moved = StatusChanged(stored, op.uid, from, to)
            BY <5>1
          <6>2. "status" \in Field
            BY FieldAssumption DEF Field
          <6>3. from \in Value \cup {None} /\ to \in Value \cup {None}
            BY <2>2, <2>4, <5>1, <6>2 DEF Row, Content
          <6> HIDE DEF moved, from, to, row
          <6>4. moved \in Db /\ IsMove(moved, stored, op.uid, from, to)
            BY <4>1, <5>1, <6>1, <6>3, StatusChangedAppends, StatusChangedIsDb
          <6>5. FeedAppended(moved, stored, op.uid, Len(stored.trail[op.uid]) + 1, FALSE)
                /\ moved.rows = stored.rows
            BY <6>4 DEF IsMove
          <6>6. ItemsNamed(moved)
            <7>1. moved.rows[op.uid] # None
              BY <2>6, <4>2, <6>5
            <7>2. \A i \in Item : stored.rows[i] # None => moved.rows[i] # None
              BY <6>5
            <7> QED
              BY <4>4, <6>5, <7>1, <7>2, AppendedNames
          <6> QED
            BY <6>4, <6>5, <6>6 DEF FeedAppended
        <5>2. CASE ~(op.uid \in Item /\ "status" \in DOMAIN writes)
          <6>1. moved = stored
            BY <5>2
          <6>2. Len(stored.feed) \in Nat
            BY <4>1, FeedIsSeq
          <6> HIDE DEF moved
          <6> QED
            BY <4>1, <4>4, <6>1, <6>2
        <5> QED
          BY <5>1, <5>2
      <4> HIDE DEF moved
      <4>6. after \in Db /\ after.rows = moved.rows /\ ItemsNamed(after)
            /\ Len(moved.feed) <= Len(after.feed)
        <5>1. moved.rows[row.item] # None
          BY <2>2, <4>3, <4>5
        <5> HIDE DEF row
        <5> QED
          BY <2>2, <4>5, <5>1, AfterTaskNames
      <4> HIDE DEF after
      <4>7. Len(d.feed) + 1 <= Len(after.feed) /\ Len(after.feed) \in Nat
        <5>1. Len(moved.feed) \in Nat /\ Len(stored.feed) \in Nat /\ Len(after.feed) \in Nat
          BY <4>1, <4>5, <4>6, FeedIsSeq
        <5>2. Len(stored.feed) = Len(d.feed) + 1
          BY <4>1 DEF FeedAppended
        <5> QED
          BY <1>1, <4>5, <4>6, <5>1, <5>2
      <4>8. \A f \in Field : new.ver[f] = seq \/ (new.ver[f] = row.ver[f] /\ new.val[f] = row.val[f])
        BY <2>6
      <4>9. \A f \in Plain(op.uid) : new.ver[f] > 0
        BY <1>1, <1>4, <2>5, <2>6 DEF Grounded, Versioned
      <4>10. Wrote(d, after, op.uid)
        <5>1. after.rows = [d.rows EXCEPT ![op.uid] = new] /\ Len(d.feed) <= Len(after.feed)
          BY <1>1, <4>1, <4>5, <4>6, <4>7
        <5>2. \A f \in Field : \/ new.ver[f] \in {0, Len(d.feed) + 1}
                               \/ /\ d.rows[op.uid] # None /\ new.ver[f] = d.rows[op.uid].ver[f]
                                  /\ new.val[f] = d.rows[op.uid].val[f]
          BY <1>1, <1>4, <4>8
        <5> HIDE DEF row
        <5> QED
          BY <1>1, <4>6, <4>9, <5>1, <5>2, WroteRow
      <4> QED
        BY <1>1, <3>2, <4>2, <4>5, <4>6, <4>7, <4>10 DEF SeqOf
    <3> QED
      BY <3>1, <3>2
  <2> HIDE DEF e, new
  <2>8. Newer(d, e) /\ RowFits(e, op.uid, row)
    BY <1>1, <2>3, <2>7, RowFitsStays DEF Wrote
  <2>9. r \in Result
    <3>1. out \in [Field -> Nat \cup {None}]
      BY <1>1, <2>2 DEF Row
    <3>2. refused \in SUBSET Field
      BY <1>1
    <3> HIDE DEF out, refused, row
    <3> QED
      BY <2>2, <3>1, <3>2, ReplyIsResult DEF Reasons
  <2>10. r.refused = refused /\ r.reason = "" /\ r.row = row /\ r.versions = out
    BY DEF Reply
  <2>11. ASSUME NEW f \in Plain(op.uid), f \in DOMAIN op.data, out[f] # None, f \notin refused
         PROVE  FitsIn(e, op.uid, f, out[f], op.data[f])
    <3>1. CASE f \in DOMAIN writes
      <4>1. out[f] = seq /\ writes[f] = op.data[f]
        BY <2>5, <2>11, <3>1
      <4>2. e.rows[op.uid] = new /\ SeqOf(d) < SeqOf(e)
        BY <2>7, <3>1
      <4>3. seq \in 1..SeqOf(e)
        BY <1>1, <2>8, <4>2 DEF Newer
      <4>4. new.val[f] = op.data[f]
        BY <2>5, <2>6, <2>11, <3>1, <4>1
      <4> QED
        BY <4>1, <4>2, <4>3, <4>4 DEF FitsIn
    <3>2. CASE f \notin DOMAIN writes
      <4>1. f \in same
        BY <2>11, <3>2
      <4>2. out[f] = row.ver[f] /\ op.data[f] = row.val[f] /\ f \in Field
        BY <2>5, <2>11, <3>2, <4>1
      <4>3. FitsIn(d, op.uid, f, out[f], op.data[f])
        BY <2>3, <2>11, <4>2 DEF RowFits
      <4> QED
        BY <1>1, <2>8, <4>2, <4>3, FitsStays
    <3> QED
      BY <3>1, <3>2
  <2> HIDE DEF r
  <2>12. AnswerFits(e, op, r)
    <3> HIDE DEF out, refused
    <3> QED
      BY <1>4, <2>8, <2>9, <2>10, <2>11 DEF AnswerFits
  <2> QED
    BY <2>1, <2>7, <2>10, <2>12 DEF OpAnswers
<1> QED
  BY <1>3, <1>4

(* remove.                                                                 *)
LEMMA RemoveAnswers ==
  ASSUME NEW d, Grounded(d), NEW op, IsOp(op), op.op = "remove"
  PROVE  OpAnswers(d, Remove(d, op).db, op, Remove(d, op).result)
<1> DEFINE row   == d.rows[op.uid]
           tomb  == [seq |-> SeqOf(d) + 1, byPlugin |-> op.plugin]
           b     == Bump(d, op.uid, 0, TRUE)
           gone  == [b EXCEPT !.rows[op.uid] = None, !.tombs[op.uid] = tomb]
           after == AfterTask(gone, op.uid, row.item)
<1>1. d \in Db /\ op.uid \in Uid /\ tomb \in Tomb /\ Len(d.feed) \in Nat
  BY FeedIsSeq DEF IsOp, Grounded, Sound, Tables, SeqOf, Tomb
<1>2. Wrote(d, d, op.uid)
  BY <1>1, WroteNothing
<1>3. {"unknown", "removed", "not-removable"} \subseteq Reasons \ {"uid-exists"}
  BY DEF Reasons
<1>4. CASE op.uid \in Item
  <2>1. Remove(d, op).db = d /\ Remove(d, op).result = Refuse("not-removable")
    BY <1>4 DEF Remove
  <2> QED
    BY <1>1, <1>2, <1>3, <2>1, RefusalFits DEF OpAnswers
<1>5. CASE op.uid \notin Item /\ row = None
  <2>1. Remove(d, op).db = d /\ Remove(d, op).result = RemovedReason(d, op)
    BY <1>5 DEF Remove
  <2>2. RemovedReason(d, op) = Refuse("unknown") \/ RemovedReason(d, op) = Refuse("removed")
    BY DEF RemovedReason
  <2> QED
    BY <1>1, <1>2, <1>3, <2>1, <2>2, RefusalFits DEF OpAnswers
<1>6. CASE op.uid \notin Item /\ row # None /\ Unseen(d, op) # {}
  <2> DEFINE r == Reply("rejected", "stale", NoVersions, Unseen(d, op), row)
  <2>1. Remove(d, op).db = d /\ Remove(d, op).result = r
    BY <1>6 DEF Remove
  <2>2. row \in Row /\ RowFits(d, op.uid, row)
    BY <1>1, <1>6, OwnRowFits DEF Db
  <2>3. r \in Result
    BY <2>2, ReplyIsResult DEF Reasons, NoVersions, Unseen
  <2>4. r.reason = "stale" /\ r.row = row /\ row # None
    BY <1>6 DEF Reply
  <2> HIDE DEF r, row
  <2>5. AnswerFits(d, op, r)
    BY <2>2, <2>3, <2>4 DEF AnswerFits
  <2> QED
    BY <1>2, <2>1, <2>4, <2>5 DEF OpAnswers, row
<1>7. CASE op.uid \notin Item /\ row # None /\ Unseen(d, op) = {}
  <2> DEFINE r == Reply("applied", "", NoVersions, {}, None)
  <2>1. Remove(d, op).db = after /\ Remove(d, op).result = r
    BY <1>7 DEF Remove
  <2>2. row.item \in Item /\ d.rows[row.item] # None
    BY <1>1, <1>7 DEF Db, Row, Grounded, Sound, Shown, HomesIn
  <2>3. /\ gone \in Db /\ gone.rows = [d.rows EXCEPT ![op.uid] = None]
        /\ FeedAppended(gone, d, op.uid, 0, TRUE)
    <3>1. b \in Db /\ b.rows = d.rows /\ FeedAppended(b, d, op.uid, 0, TRUE)
      BY <1>1, BumpFeed
    <3> HIDE DEF b, tomb
    <3>2. gone.rows = [b.rows EXCEPT ![op.uid] = None] /\ gone.feed = b.feed
      BY <3>1 DEF Db
    <3>3. gone \in Db
      BY <1>1, <3>1 DEF Db
    <3> HIDE DEF gone
    <3> QED
      BY <3>1, <3>2, <3>3 DEF FeedAppended
  <2> HIDE DEF gone, b, tomb, row
  <2>4. \A i \in Item : gone.rows[i] = d.rows[i]
    BY <1>7, <2>3 DEF Db, Uid
  <2>5. ItemsNamed(gone)
    BY <1>7, <2>3, <2>4, AppendedNames DEF Grounded
  <2>6. /\ after \in Db /\ after.rows = gone.rows /\ ItemsNamed(after)
        /\ Len(gone.feed) <= Len(after.feed)
    <3>1. gone \in Db /\ ItemsNamed(gone) /\ row.item \in Item /\ gone.rows[row.item] # None
      BY <2>2, <2>3, <2>4, <2>5
    <3> QED
      BY <3>1, AfterTaskNames
  <2>7. Len(d.feed) <= Len(after.feed)
    <3>1. Len(after.feed) \in Nat
      BY <2>6, FeedIsSeq
    <3> HIDE DEF after
    <3> QED
      BY <1>1, <2>3, <2>6, <3>1 DEF FeedAppended
  <2> HIDE DEF after
  <2>8. Wrote(d, after, op.uid)
    <3>1. after.rows = [d.rows EXCEPT ![op.uid] = None]
      BY <2>3, <2>6
    <3> QED
      BY <1>1, <2>6, <2>7, <3>1, WroteRow
  <2>9. r \in Result
    BY ReplyIsResult DEF Reasons, NoVersions
  <2>10. r.refused = {} /\ r.row = None /\ r.reason = ""
    BY DEF Reply
  <2> HIDE DEF r
  <2>11. AnswerFits(after, op, r)
    BY <2>9, <2>10 DEF AnswerFits
  <2> QED
    BY <2>1, <2>8, <2>10, <2>11 DEF OpAnswers
<1> QED
  BY <1>4, <1>5, <1>6, <1>7

(* Every op.                                                               *)
LEMMA ApplyOneAnswers ==
  ASSUME NEW d, Grounded(d), NEW op, IsOp(op), NEW waits
  PROVE  LET done == ApplyOne(d, op, waits)
         IN  Grounded(done.db) /\ OpAnswers(d, done.db, op, done.result)
<1> DEFINE done == ApplyOne(d, op, waits)
<1>1. OpAnswers(d, done.db, op, done.result)
  <2>1. CASE op.op = "create"
    BY <2>1, CreateAnswers DEF ApplyOne
  <2>2. CASE op.op = "set"
    BY <2>2, SetAnswers DEF ApplyOne
  <2>3. CASE op.op = "remove"
    BY <2>3, RemoveAnswers DEF ApplyOne
  <2> QED
    BY <2>1, <2>2, <2>3 DEF IsOp
<1>2. Sound(done.db)
  BY ApplyOneSound DEF Grounded
<1> HIDE DEF done
<1>3. Grounded(done.db)
  BY <1>1, <1>2 DEF Grounded, OpAnswers, Wrote
<1> QED
  BY <1>1, <1>3 DEF done

-----------------------------------------------------------------------------
(* The empty project is sound.                                             *)
LEMMA EmptySound == Sound(EmptyDb)
<1>1. EmptyDb \in Db
  BY DEF EmptyDb, Db, NoStatus
<1>2. \A u \in Uid : EmptyDb.rows[u] = None /\ EmptyDb.tombs[u] = None
  BY DEF EmptyDb
<1>3. CalcIn(EmptyDb)
  <2>1. ASSUME NEW i \in Item PROVE TaskStatuses(EmptyDb, i) = {}
    BY <1>2, UidAssumption DEF TaskStatuses, Uid
  <2>2. DeriveCalcStatus({}) = NoStatus
    BY DEF DeriveCalcStatus
  <2> QED
    BY <2>1, <2>2 DEF CalcIn, EmptyDb
<1>4. Shown(EmptyDb)
  <2>1. DOMAIN EmptyDb.feed = {} /\ \A i \in Item : EmptyDb.trail[i] = <<>> /\ EmptyDb.rows[i] = None
    BY DEF EmptyDb, Uid
  <2> QED
    BY <1>2, <2>1 DEF Shown, PresenceIn, HomesIn, TrailsIn, TrailIn
<1> QED
  BY <1>1, <1>2, <1>3, <1>4 DEF Sound, Tables, StatusesIn, VersionsIn, TombsIn

-----------------------------------------------------------------------------
(* Units.                                                                  *)

(* RunUnit is defined by recursion on the unit's ops.                      *)

RunStart(d) == [db |-> d, answers |-> <<>>]

(* The tables and answers after op n, from those before it.                *)
RunStep(known, unit, waits, before, n) ==
  IF known[unit[n].id] # None
  THEN [before EXCEPT !.answers = Append(@, Answer(known[unit[n].id], TRUE))]
  ELSE [db |-> ApplyOne(before.db, unit[n], waits[n]).db,
        answers |-> Append(before.answers,
                           Answer(ApplyOne(before.db, unit[n], waits[n]).result, FALSE))]

(* g gives the tables and answers after each of the first m ops.           *)
IsRun(g, d, known, unit, waits, m) ==
  g = [n \in 0..m |-> IF n = 0 THEN RunStart(d) ELSE RunStep(known, unit, waits, g[n - 1], n)]

(* The definition of RunUnit in those terms.                               *)
LEMMA RunUnitChooses ==
  ASSUME NEW d, NEW known, NEW unit, NEW waits
  PROVE  RunUnit(d, known, unit, waits) =
           (CHOOSE g : IsRun(g, d, known, unit, waits, Len(unit)))[Len(unit)]
  BY DEF RunUnit, IsRun, RunStart, RunStep

(* A run is what its first state and its steps make it.                    *)
LEMMA RunSteps ==
  ASSUME NEW g, NEW d, NEW known, NEW unit, NEW waits, NEW m \in Nat,
         IsRun(g, d, known, unit, waits, m)
  PROVE  /\ DOMAIN g = 0..m
         /\ g[0] = RunStart(d)
         /\ \A n \in 1..m : g[n] = RunStep(known, unit, waits, g[n - 1], n)
  BY DEF IsRun

(* There is a run of every length: each extends the one before it.         *)
LEMMA RunExists ==
  ASSUME NEW d, NEW known, NEW unit, NEW waits, NEW m \in Nat
  PROVE  \E g : IsRun(g, d, known, unit, waits, m)
<1> DEFINE Has(k) == \E g : IsRun(g, d, known, unit, waits, k)
           Lacking == {k \in Nat : ~Has(k)}
<1>1. Has(0)
  <2> DEFINE g == [n \in {0} |-> RunStart(d)]
  <2>1. IsRun(g, d, known, unit, waits, 0)
    BY DEF IsRun
  <2> QED
    BY <2>1
<1>2. ASSUME NEW k \in Nat, Has(k) PROVE Has(k + 1)
  <2>1. PICK g : IsRun(g, d, known, unit, waits, k)
    BY <1>2
  <2>2. /\ DOMAIN g = 0..k /\ g[0] = RunStart(d)
        /\ \A n \in 1..k : g[n] = RunStep(known, unit, waits, g[n - 1], n)
    BY <2>1, RunSteps
  <2> DEFINE next == RunStep(known, unit, waits, g[k], k + 1)
             h == [n \in 0..(k + 1) |-> IF n = k + 1 THEN next ELSE g[n]]
  <2>3. \A n \in 0..(k + 1) :
          h[n] = IF n = 0 THEN RunStart(d) ELSE RunStep(known, unit, waits, h[n - 1], n)
    <3> TAKE n \in 0..(k + 1)
    <3>1. CASE n = 0
      BY <2>2, <3>1
    <3>2. CASE n = k + 1
      BY <3>2
    <3>3. CASE n \in 1..k
      <4>1. h[n] = g[n] /\ h[n - 1] = g[n - 1]
        BY <3>3
      <4> QED
        BY <2>2, <3>3, <4>1
    <3> QED
      BY <3>1, <3>2, <3>3
  <2>4. h = [n \in 0..(k + 1) |-> h[n]]
    OBVIOUS
  <2> HIDE DEF h
  <2>5. IsRun(h, d, known, unit, waits, k + 1)
    BY <2>3, <2>4 DEF IsRun
  <2> QED
    BY <2>5
<1> HIDE DEF Has
<1>3. Lacking = {}
  <2> SUFFICES ASSUME Lacking # {} PROVE FALSE
    OBVIOUS
  <2>1. PICK x \in Lacking : \A y \in Lacking : x <= y
    BY LeastNatural
  <2>2. x - 1 \in Nat /\ x - 1 \notin Lacking
    BY <1>1, <2>1
  <2> QED
    BY <1>2, <2>1, <2>2
<1>4. Has(m)
  BY <1>3
<1> QED
  BY <1>4 DEF Has

(* The first k ops are the same, with the same records and edges.          *)
SameLooks(known, unit, waits, known2, unit2, waits2, k) ==
  \A n \in 1..k : /\ unit2[n] = unit[n]
                  /\ known2[unit[n].id] = known[unit[n].id]
                  /\ waits2[n] = waits[n]

(* Two runs that look at the same record and edges of their first k ops    *)
(* agree so far.                                                           *)
LEMMA RunsAgree ==
  ASSUME NEW d, NEW known, NEW unit, NEW waits, NEW m \in Nat, NEW g,
         IsRun(g, d, known, unit, waits, m),
         NEW known2, NEW unit2, NEW waits2, NEW m2 \in Nat, NEW g2,
         IsRun(g2, d, known2, unit2, waits2, m2),
         NEW k \in Nat, k <= m, k <= m2,
         SameLooks(known, unit, waits, known2, unit2, waits2, k)
  PROVE  \A n \in 0..k : g2[n] = g[n]
<1> DEFINE Differ == {n \in 0..k : g2[n] # g[n]}
<1>1. /\ g[0] = RunStart(d) /\ g2[0] = RunStart(d)
      /\ \A n \in 1..k : /\ g[n] = RunStep(known, unit, waits, g[n - 1], n)
                         /\ g2[n] = RunStep(known2, unit2, waits2, g2[n - 1], n)
  <2>1. g[0] = RunStart(d) /\ \A n \in 1..m : g[n] = RunStep(known, unit, waits, g[n - 1], n)
    BY RunSteps
  <2>2. g2[0] = RunStart(d) /\ \A n \in 1..m2 : g2[n] = RunStep(known2, unit2, waits2, g2[n - 1], n)
    BY RunSteps
  <2>3. 1..k \subseteq 1..m /\ 1..k \subseteq 1..m2
    OBVIOUS
  <2> QED
    BY <2>1, <2>2, <2>3
<1>2. ASSUME NEW n \in 1..k, g2[n - 1] = g[n - 1] PROVE g2[n] = g[n]
  <2>1. RunStep(known2, unit2, waits2, g[n - 1], n) = RunStep(known, unit, waits, g[n - 1], n)
    BY DEF RunStep, SameLooks
  <2> QED
    BY <1>1, <1>2, <2>1
<1>3. Differ = {}
  <2> SUFFICES ASSUME Differ # {} PROVE FALSE
    OBVIOUS
  <2>1. PICK x \in Differ : \A y \in Differ : x <= y
    <3>1. Differ \subseteq Nat
      OBVIOUS
    <3> HIDE DEF Differ
    <3> QED
      BY <3>1, LeastNatural
  <2>2. x # 0
    BY <1>1, <2>1
  <2>3. x \in 1..k /\ x - 1 \in 0..k /\ x - 1 \notin Differ
    BY <2>1, <2>2
  <2> QED
    BY <1>2, <2>1, <2>3
<1> QED
  BY <1>3

(***************************************************************************)
(* What a unit leaves, and what its answers say of it.                     *)
(***************************************************************************)

Given  == [result : Result, duplicate : BOOLEAN]
Givens == Seq(Given)

(* A record kept of an op still fits the tables.                           *)
Recalled(d, known, unit) ==
  \A i \in 1..Len(unit) : known[unit[i].id] # None => AnswerFits(d, unit[i], known[unit[i].id])

(* After n of the unit's ops, s is what it came to.                        *)
RunFits(d, unit, s, n) ==
  /\ s.answers \in Givens /\ Len(s.answers) = n
  /\ Grounded(s.db) /\ Newer(d, s.db)
  /\ \A u \in Uid : (\A i \in 1..n : unit[i].uid # u) => s.db.rows[u] = d.rows[u]
  /\ \A i \in 1..n : /\ AnswerFits(s.db, unit[i], s.answers[i].result)
                     /\ AnswerFits(d, unit[i], GroupResult(s.answers[i].result))

(* The answer a rolled back op is given says no more than its own.         *)
LEMMA GroupResultIsResult ==
  ASSUME NEW r \in Result
  PROVE  /\ GroupResult(r) \in Result
         /\ GroupResult(r).status = "rejected" /\ GroupResult(r).versions = NoVersions
         /\ GroupResult(r).refused = r.refused /\ GroupResult(r).row = r.row
         /\ GroupResult(r).reason = "uid-exists" => r.reason = "uid-exists"
<1> DEFINE reason == IF r.status = "rejected" /\ r.reason # "" THEN r.reason ELSE "group-rolled-back"
<1>1. reason \in Reasons /\ (reason = "uid-exists" => r.reason = "uid-exists")
  BY DEF Result, Reasons
<1>2. r.refused \in SUBSET Field /\ r.row \in Row \cup {None}
  BY DEF Result
<1>3. NoVersions \in [Field -> Nat \cup {None}]
  BY DEF NoVersions
<1>4. GroupResult(r) = Reply("rejected", reason, NoVersions, r.refused, r.row)
  BY DEF GroupResult
<1> HIDE DEF reason, NoVersions
<1>5. GroupResult(r) \in Result
  BY <1>1, <1>2, <1>3, <1>4, ReplyIsResult
<1> QED
  BY <1>1, <1>4, <1>5 DEF Reply

LEMMA GroupResultFits ==
  ASSUME NEW d, NEW op, op.uid \in Uid, NEW r \in Result,
         r.refused # {} => op.op # "create" /\ r.row # None,
         r.reason = "uid-exists" => r.row # None,
         r.row # None => RowFits(d, op.uid, r.row)
  PROVE  AnswerFits(d, op, GroupResult(r))
<1> DEFINE g == GroupResult(r)
<1>1. /\ g \in Result /\ g.status = "rejected" /\ g.versions = NoVersions
      /\ g.refused = r.refused /\ g.row = r.row
      /\ g.reason = "uid-exists" => r.reason = "uid-exists"
  BY GroupResultIsResult
<1> HIDE DEF g
<1>2. \A f \in Plain(op.uid) : g.versions[f] = None
  BY <1>1, PlainFields DEF NoVersions
<1>3. AnswerFits(d, op, g)
  BY <1>1, <1>2 DEF AnswerFits
<1> QED
  BY <1>3 DEF g

(* An answer is appended.                                                  *)
LEMMA GivenAppended ==
  ASSUME NEW answers \in Givens, NEW a \in Given
  PROVE  /\ Append(answers, a) \in Givens /\ Len(answers) \in Nat
         /\ Len(Append(answers, a)) = Len(answers) + 1
         /\ \A i \in 1..Len(answers) : Append(answers, a)[i] = answers[i]
         /\ Append(answers, a)[Len(answers) + 1] = a
  BY AppendProperties, LenProperties DEF Givens

(* The next op.                                                            *)
LEMMA RunStepFits ==
  ASSUME NEW d, Grounded(d), NEW known, NEW unit, NEW waits, NEW s, NEW n \in Nat, n < Len(unit),
         Len(unit) \in Nat, \A i \in 1..Len(unit) : IsOp(unit[i]),
         \A i, j \in 1..Len(unit) : i # j => unit[i].uid # unit[j].uid,
         Recalled(d, known, unit),
         RunFits(d, unit, s, n),
         DOMAIN s = {"db", "answers"}
  PROVE  RunFits(d, unit, RunStep(known, unit, waits, s, n + 1), n + 1)
<1> DEFINE op   == unit[n + 1]
           t    == RunStep(known, unit, waits, s, n + 1)
           done == ApplyOne(s.db, op, waits[n + 1])
           a    == IF known[op.id] # None THEN Answer(known[op.id], TRUE) ELSE Answer(done.result, FALSE)
<1>1. n + 1 \in 1..Len(unit) /\ IsOp(op) /\ op.uid \in Uid /\ n + 1 \in Nat
      /\ 1..(n + 1) = 1..n \cup {n + 1}
  <2>1. n + 1 \in 1..Len(unit) /\ n + 1 \in Nat /\ 1..(n + 1) = 1..n \cup {n + 1}
    OBVIOUS
  <2>2. IsOp(op)
    BY <2>1
  <2> QED
    BY <2>1, <2>2 DEF IsOp
<1>2. \A i \in 1..n : i \in 1..Len(unit) /\ unit[i].uid \in Uid /\ op.uid # unit[i].uid
  BY <1>1 DEF IsOp
<1>3. /\ s.answers \in Givens /\ Len(s.answers) = n /\ Grounded(s.db) /\ Newer(d, s.db)
      /\ (\A u \in Uid : (\A i \in 1..n : unit[i].uid # u) => s.db.rows[u] = d.rows[u])
      /\ \A i \in 1..n : /\ AnswerFits(s.db, unit[i], s.answers[i].result)
                         /\ AnswerFits(d, unit[i], GroupResult(s.answers[i].result))
  BY DEF RunFits
<1>4. s.db.rows[op.uid] = d.rows[op.uid]
  BY <1>1, <1>2, <1>3
<1>5. \E e, r : /\ t.db = e /\ t.answers = Append(s.answers, a) /\ a.result = r /\ a \in Given
                /\ Grounded(e) /\ Newer(s.db, e) /\ AnswerFits(e, op, r)
                /\ (\A u \in Uid : u # op.uid => e.rows[u] = s.db.rows[u])
                /\ (r.row # None => RowFits(d, op.uid, r.row))
  <2>1. CASE known[op.id] # None
    <3>1. t = [s EXCEPT !.answers = Append(@, a)] /\ a = Answer(known[op.id], TRUE)
      BY <2>1 DEF RunStep
    <3>2. t.db = s.db /\ t.answers = Append(s.answers, a)
      <4> HIDE DEF a, t
      <4> QED
        BY <3>1
    <3>3. AnswerFits(d, op, known[op.id])
      BY <1>1, <2>1 DEF Recalled
    <3>4. AnswerFits(s.db, op, known[op.id])
      BY <1>1, <1>3, <3>3, AnswerFitsStays
    <3>5. known[op.id] \in Result /\ (known[op.id].row # None => RowFits(d, op.uid, known[op.id].row))
      BY <3>3 DEF AnswerFits
    <3>6. a.result = known[op.id] /\ a \in Given
      BY <3>1, <3>5 DEF Answer, Given
    <3>7. Newer(s.db, s.db)
      BY <1>3, NewerSelf DEF Grounded, Sound, Tables
    <3> HIDE DEF a, t, op
    <3> QED
      BY <1>3, <3>2, <3>4, <3>5, <3>6, <3>7
  <2>2. CASE known[op.id] = None
    <3>1. /\ t = [db |-> done.db, answers |-> Append(s.answers, a)] /\ a = Answer(done.result, FALSE)
      BY <2>2 DEF RunStep
    <3>2. t.db = done.db /\ t.answers = Append(s.answers, a) /\ a.result = done.result
      <4> HIDE DEF done
      <4> QED
        BY <3>1 DEF Answer
    <3>3. Grounded(done.db) /\ OpAnswers(s.db, done.db, op, done.result)
      BY <1>1, <1>3, ApplyOneAnswers
    <3> HIDE DEF done, a, t
    <3>4. /\ Newer(s.db, done.db) /\ AnswerFits(done.db, op, done.result)
          /\ (\A u \in Uid : u # op.uid => done.db.rows[u] = s.db.rows[u])
          /\ done.result \in Result
          /\ (done.result.row # None => done.result.row = d.rows[op.uid])
      BY <1>4, <3>3 DEF OpAnswers, Wrote, AnswerFits
    <3>5. done.result.row # None => RowFits(d, op.uid, done.result.row)
      BY <1>1, <3>4, OwnRowFits
    <3>6. a \in Given
      BY <3>1, <3>4 DEF Answer, Given
    <3> QED
      BY <3>2, <3>3, <3>4, <3>5, <3>6
  <2> QED
    BY <2>1, <2>2
<1> HIDE DEF t, a, op
<1>6. PICK e, r : /\ t.db = e /\ t.answers = Append(s.answers, a) /\ a.result = r /\ a \in Given
                  /\ Grounded(e) /\ Newer(s.db, e) /\ AnswerFits(e, op, r)
                  /\ (\A u \in Uid : u # op.uid => e.rows[u] = s.db.rows[u])
                  /\ (r.row # None => RowFits(d, op.uid, r.row))
  BY <1>5
<1>7. /\ t.answers \in Givens /\ Len(t.answers) = n + 1 /\ t.answers[n + 1] = a
      /\ \A i \in 1..n : t.answers[i] = s.answers[i]
  BY <1>3, <1>6, GivenAppended
<1>8. Newer(d, e)
  BY <1>3, <1>6, NewerComposes
<1>9. ASSUME NEW u \in Uid, \A i \in 1..(n + 1) : unit[i].uid # u PROVE e.rows[u] = d.rows[u]
  <2>1. u # op.uid /\ \A i \in 1..n : unit[i].uid # u
    BY <1>1, <1>9 DEF op
  <2> QED
    BY <1>3, <1>6, <2>1
<1>10. AnswerFits(d, op, GroupResult(r))
  <2>1. /\ r \in Result
        /\ r.refused # {} => op.op # "create" /\ r.row # None
        /\ r.reason = "uid-exists" => r.row # None
    BY <1>6 DEF AnswerFits
  <2> QED
    BY <1>1, <1>6, <2>1, GroupResultFits
<1>11. \A i \in 1..(n + 1) : /\ AnswerFits(e, unit[i], t.answers[i].result)
                             /\ AnswerFits(d, unit[i], GroupResult(t.answers[i].result))
  <2> TAKE i \in 1..(n + 1)
  <2>1. CASE i \in 1..n
    BY <1>2, <1>3, <1>6, <1>7, <2>1, AnswerFitsStays
  <2>2. CASE i = n + 1
    BY <1>6, <1>7, <1>10, <2>2 DEF op
  <2> QED
    BY <1>1, <2>1, <2>2
<1>12. RunFits(d, unit, t, n + 1)
  BY <1>6, <1>7, <1>8, <1>9, <1>11 DEF RunFits
<1> QED
  BY <1>12 DEF t

(* The whole unit, whose ops are of different uids.                        *)
LEMMA UnitAnswers ==
  ASSUME NEW d, Grounded(d), NEW known, NEW unit, NEW waits,
         Len(unit) \in Nat, \A i \in 1..Len(unit) : IsOp(unit[i]),
         \A i, j \in 1..Len(unit) : i # j => unit[i].uid # unit[j].uid,
         Recalled(d, known, unit)
  PROVE  RunFits(d, unit, RunUnit(d, known, unit, waits), Len(unit))
<1> DEFINE m == Len(unit)
           g == CHOOSE h : IsRun(h, d, known, unit, waits, m)
           Fit(n) == RunFits(d, unit, g[n], n)
           Unfit == {n \in 0..m : ~Fit(n)}
<1>1. IsRun(g, d, known, unit, waits, m)
  BY RunExists
<1> HIDE DEF g
<1>2. /\ g[0] = RunStart(d)
      /\ \A n \in 1..m : g[n] = RunStep(known, unit, waits, g[n - 1], n)
  BY <1>1, RunSteps
<1>3. \A n \in 0..m : DOMAIN g[n] = {"db", "answers"}
  <2> DEFINE Odd == {n \in 0..m : DOMAIN g[n] # {"db", "answers"}}
  <2>1. Odd = {}
    <3> SUFFICES ASSUME Odd # {} PROVE FALSE
      OBVIOUS
    <3>1. PICK x \in Odd : \A y \in Odd : x <= y
      <4>1. Odd \subseteq Nat
        OBVIOUS
      <4> HIDE DEF Odd
      <4> QED
        BY <4>1, LeastNatural
    <3>2. x # 0
      BY <1>2, <3>1 DEF RunStart
    <3>3. x \in 1..m /\ x - 1 \in 0..m /\ x - 1 \notin Odd
      BY <3>1, <3>2
    <3>4. DOMAIN g[x] = {"db", "answers"}
      BY <1>2, <3>3 DEF RunStep
    <3> QED
      BY <3>1, <3>4
  <2> QED
    BY <2>1
<1>4. Fit(0)
  <2>1. d \in Db /\ Newer(d, d)
    BY NewerSelf DEF Grounded, Sound, Tables
  <2>2. <<>> \in Givens /\ Len(<<>>) = 0
    BY EmptySeq DEF Givens
  <2> QED
    BY <1>2, <2>1, <2>2 DEF RunStart, RunFits
<1>5. ASSUME NEW n \in 1..m, Fit(n - 1) PROVE Fit(n)
  <2> DEFINE k == n - 1
  <2>1. k \in Nat /\ k < m /\ n = k + 1 /\ k \in 0..m
    OBVIOUS
  <2>2. g[n] = RunStep(known, unit, waits, g[k], k + 1) /\ DOMAIN g[k] = {"db", "answers"}
    BY <1>2, <1>3, <2>1
  <2>3. RunFits(d, unit, g[k], k)
    BY <1>5
  <2> HIDE DEF k
  <2>4. RunFits(d, unit, RunStep(known, unit, waits, g[k], k + 1), k + 1)
    BY <2>1, <2>2, <2>3, RunStepFits
  <2> QED
    BY <2>1, <2>2, <2>4
<1> HIDE DEF Fit
<1>6. Unfit = {}
  <2> SUFFICES ASSUME Unfit # {} PROVE FALSE
    OBVIOUS
  <2>1. PICK x \in Unfit : \A y \in Unfit : x <= y
    <3>1. Unfit \subseteq Nat
      OBVIOUS
    <3> HIDE DEF Unfit
    <3> QED
      BY <3>1, LeastNatural
  <2>2. x # 0
    BY <1>4, <2>1
  <2>3. x \in 1..m /\ x - 1 \in 0..m /\ x - 1 \notin Unfit
    BY <2>1, <2>2
  <2> QED
    BY <1>5, <2>1, <2>3
<1>7. Fit(m)
  BY <1>6
<1> QED
  BY <1>7, RunUnitChooses DEF Fit, g

LEMMA EmptyGrounded == Grounded(EmptyDb)
<1>1. DOMAIN EmptyDb.feed = {} /\ \A u \in Uid : EmptyDb.rows[u] = None
  BY DEF EmptyDb
<1> QED
  BY <1>1, EmptySound DEF Grounded, Versioned, ItemsNamed
=============================================================================
