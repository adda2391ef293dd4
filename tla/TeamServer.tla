----------------------------- MODULE TeamServer -----------------------------
(***************************************************************************)
(* The server's single write path (server/lib/apply.ts, applyOps and       *)
(* applyUnit): function instances take requests, each request's units run  *)
(* one transaction each under the project's row lock, and applied_ops      *)
(* remembers every op's result so a repeated op is answered, not applied.  *)
(* A worker may be lost at any point; a client may send any unit again at  *)
(* any time, also while the first copy is still running.                   *)
(***************************************************************************)
EXTENDS ProjectDb, FiniteSets

CONSTANTS
  Worker,      \* concurrent server function instances
  Unit,        \* what clients send: an op alone, or the ops of one group
  Malformed    \* ids of ops the database refuses to write, as a status set to null

(* A client gives every op an id of its own and never splits a group, so   *)
(* an op id stands for one place in one unit.                              *)
ASSUME UnitAssumption ==
  \A u \in Unit :
    /\ u \in Seq({u[i] : i \in DOMAIN u}) /\ u # <<>>
    /\ \A i \in DOMAIN u : IsOp(u[i])
    /\ Len(u) > 1 => Grouped(u)
    /\ \A v \in Unit : \A i \in DOMAIN u, j \in DOMAIN v :
         u[i].id = v[j].id => u = v /\ i = j

ASSUME WorkerAssumption == None \notin Worker

OpIds == UNION {{u[i].id : i \in DOMAIN u} : u \in Unit}

VARIABLES
  db,          \* the committed tables
  applied,     \* applied_ops: op id -> its result, None if never recorded
  lock,        \* the worker that holds the project's row, or None
  tx,          \* worker -> its transaction
  effects      \* history: op id -> how many committed transactions executed it

vars == <<db, applied, lock, tx, effects>>

Idle == [phase |-> "idle", unit |-> <<>>, work |-> EmptyDb, results |-> <<>>]

ErrorResult == Refuse("error")

(* The recorded result of an op, None if it never ran.                     *)
Prior(id) == applied[id]

(* Mutant: an error is recorded over whatever the op's result was.         *)
ErrorOver(id) == ErrorResult

ErrorUnlessKnown(id) == IF applied[id] = None THEN ErrorResult ELSE applied[id]

Init ==
  /\ db = EmptyDb
  /\ applied = [id \in OpIds |-> None]
  /\ lock = None
  /\ tx = [w \in Worker |-> Idle]
  /\ effects = [id \in OpIds |-> 0]

-----------------------------------------------------------------------------

(* select key from projects ... for update: the unit's transaction begins. *)
Begin(w, unit) ==
  /\ tx[w].phase = "idle"
  /\ lock = None
  /\ lock' = w
  /\ tx' = [tx EXCEPT ![w] = [Idle EXCEPT !.phase = "applying", !.unit = unit, !.work = db]]
  /\ UNCHANGED <<db, applied, effects>>

(* The transaction's next op is new and comes to write what the database   *)
(* does not take.                                                          *)
Refuses(t, waits) ==
  LET op == t.unit[Len(t.results) + 1]
  IN  /\ Len(t.results) < Len(t.unit)
      /\ op.id \in Malformed /\ Prior(op.id) = None
      /\ ComesToWrite(t.work, op, waits)

(* Every op is answered, but one that was new has a record by now: another *)
(* copy of the unit failed meanwhile, and the key of applied_ops is taken. *)
Clashes(t) ==
  /\ Len(t.results) = Len(t.unit)
  /\ ~RollsBack(t.unit, t.results)
  /\ \E i \in DOMAIN t.unit : ~t.results[i].duplicate /\ applied[t.unit[i].id] # None

(* The next op of the unit: answered from applied_ops, or applied to the   *)
(* transaction's view of the tables.                                       *)
Apply(w, waits) ==
  LET t  == tx[w]
      op == t.unit[Len(t.results) + 1]
      outcome == ApplyOne(t.work, op, waits)
  IN  /\ t.phase = "applying"
      /\ Len(t.results) < Len(t.unit)
      /\ ~Refuses(t, waits)
      /\ IF Prior(op.id) # None
         THEN tx' = [tx EXCEPT ![w].results = Append(@, Answer(Prior(op.id), TRUE))]
         ELSE tx' = [tx EXCEPT ![w].results = Append(@, Answer(outcome.result, FALSE)),
                               ![w].work    = outcome.db]
      /\ UNCHANGED <<db, applied, lock, effects>>

(* The database refuses a statement for good: the transaction rolls back,  *)
(* and the unit's results are recorded as errors afterwards, outside it.   *)
Throw(w, waits) ==
  /\ tx[w].phase = "applying"
  /\ Refuses(tx[w], waits) \/ Clashes(tx[w])
  /\ tx' = [tx EXCEPT ![w] = [Idle EXCEPT !.phase = "failed", !.unit = tx[w].unit]]
  /\ lock' = None
  /\ UNCHANGED <<db, applied, effects>>

(* insert into applied_ops ... on conflict do nothing, op by op.           *)
RememberError(w) ==
  LET t  == tx[w]
      op == t.unit[Len(t.results) + 1]
  IN  /\ t.phase = "failed"
      /\ applied' = [applied EXCEPT ![op.id] = ErrorUnlessKnown(op.id)]
      /\ tx' = [tx EXCEPT ![w] =
                  IF Len(t.results) + 1 = Len(t.unit) THEN Idle
                  ELSE [t EXCEPT !.results = Append(@, Answer(ErrorResult, FALSE))]]
      /\ UNCHANGED <<db, lock, effects>>

(* Every op is answered and none is in the way: results and tables commit. *)
Commit(w) ==
  LET t     == tx[w]
      fresh == {t.unit[i].id : i \in {j \in DOMAIN t.unit : ~t.results[j].duplicate}}
  IN  /\ t.phase = "applying"
      /\ Len(t.results) = Len(t.unit)
      /\ ~RollsBack(t.unit, t.results)
      /\ ~Clashes(t)
      /\ db' = t.work
      /\ applied' = Recorded(applied, t.unit, t.results)
      /\ effects' = [id \in OpIds |-> IF id \in fresh THEN effects[id] + 1 ELSE effects[id]]
      /\ lock' = None
      /\ tx' = [tx EXCEPT ![w] = Idle]

(* A group with a rejected op rolls back whole: nothing is applied and     *)
(* nothing is remembered, so a repeat tries it again.                      *)
Rollback(w) ==
  LET t == tx[w]
  IN  /\ t.phase = "applying"
      /\ Len(t.results) = Len(t.unit)
      /\ RollsBack(t.unit, t.results)
      /\ tx' = [tx EXCEPT ![w] = Idle]
      /\ lock' = None
      /\ UNCHANGED <<db, applied, effects>>

(* The instance or its connection dies: the database rolls the open        *)
(* transaction back; the client hears nothing.                             *)
Drop(w) ==
  /\ tx[w].phase # "idle"
  /\ tx' = [tx EXCEPT ![w] = Idle]
  /\ lock' = IF lock = w THEN None ELSE lock
  /\ UNCHANGED <<db, applied, effects>>

Next ==
  \E w \in Worker :
    \/ \E unit \in Unit : Begin(w, unit)
    \/ \E waits \in BOOLEAN : Apply(w, waits) \/ Throw(w, waits)
    \/ RememberError(w)
    \/ Commit(w)
    \/ Rollback(w)
    \/ Drop(w)

Spec == Init /\ [][Next]_vars

(* What the write path promises whoever sends it ops.                      *)
Service == INSTANCE ProjectService WITH db <- db, applied <- applied

-----------------------------------------------------------------------------
(***************************************************************************)
(* Properties.                                                             *)
(***************************************************************************)

Answers == Seq([result : Result, duplicate : BOOLEAN])

Transaction == [phase   : {"idle", "applying", "failed"},
                unit    : Unit \cup {<<>>},
                work    : Db,
                results : Answers]

(* The types, that a transaction never has more results than ops, and that *)
(* a status is always one its row may have: what create and set refuse as  *)
(* invalid never reaches a table.                                          *)
TypeOK ==
  /\ db \in Db
  /\ applied \in [OpIds -> Result \cup {None}]
  /\ lock \in Worker \cup {None}
  /\ tx \in [Worker -> Transaction]
  /\ effects \in [OpIds -> Nat]
  /\ \A w \in Worker : tx[w].phase # "idle" =>
        /\ tx[w].unit \in Unit
        /\ Len(tx[w].results) <= Len(tx[w].unit)
        /\ tx[w].phase = "failed" => Len(tx[w].results) < Len(tx[w].unit)
  /\ StatusesIn(db)

(* A field's version is the seq of the change that last wrote its row's    *)
(* fields: it names an entry of the feed about that very row, so two       *)
(* writes of one field never share a version, also across a removal and a  *)
(* plugin's re-creation (bump's seq, kept in "versions" by create and set).*)
VersionsNameTheirChange == VersionsIn(db)

(* The last change of a uid says whether its row is there, and a uid no    *)
(* change names has none: what a reader of the feed concludes from it is   *)
(* what the tables hold, whatever create, set and remove did.              *)
FeedShowsPresence == PresenceIn(db)

(* A tombstone stands for a row that is gone, and names the change that    *)
(* removed it; a uid is never both there and buried (create, remove).      *)
TombsAreRemovals == TombsIn(db)

(* An item's derived status is the roll-up of its tasks as they are, after *)
(* any mix of creates, sets and removals, in and out of groups (recalc).   *)
CalcIsDerived == CalcIn(db)

(* An item's history is an unbroken trail that ends in its status          *)
(* (statusChanged).                                                        *)
TrailEndsInStatus == TrailIn(db)

(* Of the ops of one group either every one is on record as applied or     *)
(* none is: neither half of a rejection with its status change lands alone.*)
GroupsAreAtomic ==
  \A u \in Unit : Grouped(u) =>
    \A i, j \in DOMAIN u :
      (applied[u[i].id] # None /\ ~IsRejected(applied[u[i].id])) =>
        (applied[u[j].id] # None /\ ~IsRejected(applied[u[j].id]))

(* Transactions, locks and lost workers aside, the project behaves as if   *)
(* every unit ran alone and at once: TeamServer implements ProjectService. *)
ImplementsService == Service!ServiceSpec

(* However often and however concurrently an op is sent, at most one       *)
(* transaction that executed it commits.                                   *)
AppliedOnce == \A id \in OpIds : effects[id] <= 1

(* A client that asks again gets the answer that was recorded first.       *)
AnswersAreFinal ==
  [][\A id \in OpIds : applied[id] # None => applied'[id] = applied[id]]_applied

(* What a person removed stays removed.                                    *)
PersonsRemovalsStick ==
  [][\A u \in Uid : (db.tombs[u] # None /\ ~db.tombs[u].byPlugin)
                     => db'.tombs[u] = db.tombs[u]]_db
=============================================================================
