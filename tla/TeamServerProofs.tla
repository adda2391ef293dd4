--------------------------- MODULE TeamServerProofs ---------------------------
(***************************************************************************)
(* The write path and the changes feed proved for every number of workers  *)
(* and readers, every set of units and any ops in them, in two parts, both *)
(* upon what ProjectDbProofs says of the tables.                           *)
(*                                                                         *)
(* First the transactions (TeamServer).  The inductive invariant IInv says *)
(* what a transaction may rely on: that the row lock is its own, that its  *)
(* view of the tables is sound, and that an answer it took from the        *)
(* record is still what the record says.  That the answers it made anew    *)
(* are of ops nobody has recorded since is not invariant: another copy of  *)
(* the unit may have failed meanwhile.  The key of applied_ops makes the   *)
(* commit fail then.                                                       *)
(*                                                                         *)
(* Then the feed (ChangeFeed).  A reader needs two things of the write     *)
(* path: that no row changes without a change that names it (Grows), and   *)
(* that an item is named before the children made in it (Orderly).  Both   *)
(* are proved of every op, then of every transaction; the reader's own     *)
(* invariants then say what a page that is half read or half applied still *)
(* lacks.                                                                  *)
(***************************************************************************)
EXTENDS ChangeFeed, ProjectDbProofs

(* Transactions.                                                           *)

(* The row lock belongs to the transaction that is applying.               *)
LockInv == \A w \in Worker : tx[w].phase = "applying" <=> lock = w

(* An answer taken for a repeat is the record's.                           *)
AnswerInv ==
  \A w \in Worker : tx[w].phase = "applying" =>
    \A i \in DOMAIN tx[w].results : tx[w].results[i].duplicate =>
      LET id == tx[w].unit[i].id
      IN  applied[id] # None /\ tx[w].results[i].result = applied[id]

(* An op that took effect is on record.                                    *)
EffectInv == \A id \in OpIds : effects[id] <= 1 /\ (effects[id] = 1 => applied[id] # None)

(* The committed tables and every transaction's view of them are good, and *)
(* the view of the one that holds the lock keeps persons' removals.        *)
TablesInv ==
  /\ Sound(db)
  /\ \A w \in Worker : Sound(tx[w].work)
  /\ \A w \in Worker : tx[w].phase = "applying" => RemovalsStick(db, tx[w].work)

(* The inductive invariant.                                                *)
IInv ==
  /\ TypeOK /\ TablesInv /\ LockInv /\ AnswerInv /\ EffectInv /\ GroupsAreAtomic

-----------------------------------------------------------------------------

(* Units are non-empty sequences of ops, whose ids tell them apart.        *)
LEMMA UnitFacts ==
  ASSUME NEW u \in Unit
  PROVE  /\ Len(u) \in Nat \ {0} /\ DOMAIN u = 1..Len(u)
         /\ Len(u) > 1 => Grouped(u)
         /\ \A i \in DOMAIN u : IsOp(u[i]) /\ u[i].id \in OpIds
         /\ \A v \in Unit : \A i \in DOMAIN u, j \in DOMAIN v :
              u[i].id = v[j].id => u = v /\ i = j
<1>1. u \in Seq({u[i] : i \in DOMAIN u}) /\ u # <<>>
  BY UnitAssumption
<1>2. Len(u) \in Nat \ {0} /\ DOMAIN u = 1..Len(u)
  BY <1>1, EmptySeq, LenProperties
<1>3. (\A i \in DOMAIN u : IsOp(u[i])) /\ (Len(u) > 1 => Grouped(u))
  BY UnitAssumption
<1>4. ASSUME NEW i \in DOMAIN u PROVE u[i].id \in OpIds
  <2>1. u[i].id \in {u[j].id : j \in DOMAIN u}
    OBVIOUS
  <2> QED
    BY <2>1 DEF OpIds
<1>5. \A v \in Unit : \A i \in DOMAIN u, j \in DOMAIN v :
        u[i].id = v[j].id => u = v /\ i = j
  BY UnitAssumption
<1> QED
  BY <1>2, <1>3, <1>4, <1>5

(* A transaction's results are a sequence of answers.                      *)
LEMMA ResultsFacts ==
  ASSUME TypeOK, NEW w \in Worker
  PROVE  /\ tx[w] \in Transaction
         /\ tx[w].results \in Seq([result : Result, duplicate : BOOLEAN])
         /\ Len(tx[w].results) \in Nat
         /\ DOMAIN tx[w].results = 1..Len(tx[w].results)
<1>1. tx[w] \in Transaction
  BY DEF TypeOK
<1>2. tx[w].results \in Seq([result : Result, duplicate : BOOLEAN])
  BY <1>1 DEF Transaction, Answers
<1> QED
  BY <1>1, <1>2, LenProperties

(* A worker between transactions.                                          *)
LEMMA IdleTyped ==
  /\ Idle \in Transaction /\ Sound(Idle.work) /\ Idle.phase = "idle" /\ Idle.results = <<>>
<1>1. EmptyDb \in Db
  BY EmptySound DEF Sound, Tables
<1>2. <<>> \in Answers
  BY DEF Answers
<1> QED
  BY <1>1, <1>2, EmptySound DEF Idle, Transaction

(* The record of an error is a record.                                     *)
LEMMA ErrorIsResult == ErrorResult \in Result /\ ErrorResult # None
<1>1. "error" \in Reasons
  BY DEF Reasons
<1> QED
  BY <1>1, RefuseIsResult, NoneAssumption DEF ErrorResult

(* The invariant holds of the empty project.                               *)
THEOREM InitIInv == Init => IInv
<1> SUFFICES ASSUME Init PROVE IInv
  OBVIOUS
<1>1. TypeOK
  <2>1. db \in Db /\ StatusesIn(db)
    BY EmptySound DEF Init, Sound, Tables
  <2>2. tx \in [Worker -> Transaction] /\ \A w \in Worker : tx[w].phase = "idle"
    BY IdleTyped DEF Init
  <2> QED
    BY <2>1, <2>2 DEF Init, TypeOK
<1>2. TablesInv
  BY EmptySound, IdleTyped DEF Init, TablesInv
<1>3. LockInv /\ AnswerInv
  BY IdleTyped, WorkerAssumption DEF Init, LockInv, AnswerInv
<1>4. EffectInv /\ GroupsAreAtomic
  <2>1. \A u \in Unit : \A i \in DOMAIN u : u[i].id \in OpIds
    BY UnitFacts
  <2> QED
    BY <2>1 DEF Init, EffectInv, GroupsAreAtomic
<1> QED
  BY <1>1, <1>2, <1>3, <1>4 DEF IInv

(* The unit's transaction ends without a trace but the lock.               *)
LEMMA EndKeeps ==
  ASSUME IInv, NEW w \in Worker,
         tx' = [tx EXCEPT ![w] = Idle],
         lock' = IF lock = w THEN None ELSE lock,
         UNCHANGED <<db, applied, effects>>
  PROVE  IInv'
<1>1. TypeOK'
  BY IdleTyped DEF IInv, TypeOK
<1>2. \A v \in Worker : tx'[v] = IF v = w THEN Idle ELSE tx[v]
  BY DEF IInv, TypeOK
<1>3. TablesInv'
  BY <1>2, IdleTyped DEF IInv, TablesInv
<1>4. LockInv'
  BY <1>2, IdleTyped, WorkerAssumption DEF IInv, LockInv
<1>5. EffectInv' /\ GroupsAreAtomic'
  BY <1>2, IdleTyped DEF IInv, EffectInv, GroupsAreAtomic
<1>6. AnswerInv'
  BY <1>2, IdleTyped DEF IInv, AnswerInv
<1> QED
  BY <1>1, <1>3, <1>4, <1>5, <1>6 DEF IInv

(* A lost worker leaves no trace.                                          *)
LEMMA DropKeeps ==
  ASSUME IInv, NEW w \in Worker, Drop(w)
  PROVE  IInv'
  BY EndKeeps DEF Drop

(* Nor does a group that rolls back.                                       *)
LEMMA RollbackKeeps ==
  ASSUME IInv, NEW w \in Worker, Rollback(w)
  PROVE  IInv'
<1>1. lock = w
  BY DEF Rollback, IInv, LockInv
<1> QED
  BY <1>1, EndKeeps DEF Rollback

(* A transaction begins on the committed tables.                           *)
LEMMA BeginKeeps ==
  ASSUME IInv, NEW w \in Worker, NEW unit \in Unit, Begin(w, unit)
  PROVE  IInv'
<1> DEFINE t == [Idle EXCEPT !.phase = "applying", !.unit = unit, !.work = db]
<1>1. /\ t \in Transaction /\ t.phase = "applying" /\ t.unit = unit /\ t.work = db
      /\ t.results = <<>>
  BY IdleTyped DEF Transaction, IInv, TypeOK
<1> HIDE DEF t
<1>2. \A v \in Worker : tx'[v] = IF v = w THEN t ELSE tx[v]
  BY DEF IInv, TypeOK, Begin, t
<1>3. TypeOK'
  <2>1. tx' \in [Worker -> Transaction]
    BY <1>1 DEF IInv, TypeOK, Begin, t
  <2>2. Len(<<>>) <= Len(unit)
    BY UnitFacts
  <2> QED
    BY <1>1, <1>2, <2>1, <2>2 DEF IInv, TypeOK, Begin
<1>4. TablesInv'
  BY <1>1, <1>2 DEF IInv, TablesInv, Begin, RemovalsStick
<1>5. LockInv'
  BY <1>1, <1>2, WorkerAssumption DEF IInv, LockInv, Begin
<1>6. EffectInv' /\ GroupsAreAtomic'
  BY <1>1, <1>2 DEF IInv, EffectInv, GroupsAreAtomic, Begin
<1>7. AnswerInv'
  <2>1. DOMAIN t.results = {}
    BY <1>1
  <2>2. applied' = applied
    BY DEF Begin
  <2> SUFFICES ASSUME NEW v \in Worker, tx'[v].phase = "applying",
                      NEW i \in DOMAIN tx'[v].results
               PROVE  v # w
    BY <1>2, <2>2 DEF IInv, AnswerInv
  <2> QED
    BY <1>2, <2>1
<1> QED
  BY <1>3, <1>4, <1>5, <1>6, <1>7 DEF IInv

(* A refused statement ends the transaction; its unit is failed.           *)
LEMMA ThrowKeeps ==
  ASSUME IInv, NEW w \in Worker, NEW waits \in BOOLEAN, Throw(w, waits)
  PROVE  IInv'
<1> DEFINE t == [Idle EXCEPT !.phase = "failed", !.unit = tx[w].unit]
<1>1. tx[w].unit \in Unit /\ Len(tx[w].unit) \in Nat \ {0}
  BY UnitFacts DEF IInv, TypeOK, Throw
<1>2. /\ t \in Transaction /\ t.phase = "failed" /\ t.unit = tx[w].unit
      /\ t.results = <<>> /\ Sound(t.work)
  BY <1>1, IdleTyped DEF Transaction
<1>4. \A v \in Worker : tx'[v] = IF v = w THEN t ELSE tx[v]
  BY DEF IInv, TypeOK, Throw
<1>5. tx' \in [Worker -> Transaction]
  BY <1>2 DEF IInv, TypeOK, Throw
<1> HIDE DEF t
<1>6. TypeOK'
  <2>1. Len(t.results) = 0 /\ 0 < Len(tx[w].unit) /\ 0 <= Len(tx[w].unit)
    BY <1>1, <1>2
  <2>2. \A v \in Worker : tx'[v].phase # "idle" =>
          /\ tx'[v].unit \in Unit
          /\ Len(tx'[v].results) <= Len(tx'[v].unit)
          /\ tx'[v].phase = "failed" => Len(tx'[v].results) < Len(tx'[v].unit)
    BY <1>1, <1>2, <1>4, <2>1 DEF IInv, TypeOK
  <2>3. /\ db' \in Db /\ applied' \in [OpIds -> Result \cup {None}] /\ lock' \in Worker \cup {None}
        /\ effects' \in [OpIds -> Nat] /\ StatusesIn(db)'
    BY DEF IInv, TypeOK, Throw
  <2> QED
    BY <1>5, <2>2, <2>3 DEF TypeOK
<1>7. TablesInv'
  BY <1>2, <1>4 DEF IInv, TablesInv, Throw
<1>8. LockInv'
  BY <1>2, <1>4, WorkerAssumption DEF IInv, LockInv, Throw
<1>10. EffectInv' /\ GroupsAreAtomic'
  BY DEF IInv, EffectInv, GroupsAreAtomic, Throw
<1>11. AnswerInv'
  BY <1>2, <1>4 DEF IInv, AnswerInv, Throw
<1> QED
  BY <1>6, <1>7, <1>8, <1>10, <1>11 DEF IInv

(* The transaction that has an op left to answer.                          *)
LEMMA NextOp ==
  ASSUME TypeOK, NEW w \in Worker, tx[w].phase # "idle", Len(tx[w].results) < Len(tx[w].unit)
  PROVE  /\ tx[w] \in Transaction /\ tx[w].unit \in Unit
         /\ tx[w].results \in Seq([result : Result, duplicate : BOOLEAN])
         /\ Len(tx[w].results) \in Nat /\ Len(tx[w].unit) \in Nat
         /\ Len(tx[w].results) + 1 \in DOMAIN tx[w].unit
         /\ DOMAIN tx[w].results = 1..Len(tx[w].results)
<1>1. tx[w].unit \in Unit
  BY DEF TypeOK
<1>2. Len(tx[w].unit) \in Nat /\ DOMAIN tx[w].unit = 1..Len(tx[w].unit)
  BY <1>1, UnitFacts
<1>3. /\ tx[w] \in Transaction
      /\ tx[w].results \in Seq([result : Result, duplicate : BOOLEAN])
      /\ Len(tx[w].results) \in Nat
      /\ DOMAIN tx[w].results = 1..Len(tx[w].results)
  BY ResultsFacts
<1>4. Len(tx[w].results) + 1 \in DOMAIN tx[w].unit
  BY <1>2, <1>3
<1> QED
  BY <1>1, <1>2, <1>3, <1>4

(* One op is answered, from its record or by applying it to the view.      *)
LEMMA ApplyKeeps ==
  ASSUME IInv, NEW w \in Worker, NEW waits \in BOOLEAN, Apply(w, waits)
  PROVE  IInv'
<1> DEFINE t       == tx[w]
           n       == Len(t.results) + 1
           op      == t.unit[n]
           outcome == ApplyOne(t.work, op, waits)
           known   == applied[op.id] # None
           answer  == IF known THEN Answer(applied[op.id], TRUE) ELSE Answer(outcome.result, FALSE)
           view    == IF known THEN t.work ELSE outcome.db
           t2      == [t EXCEPT !.results = Append(t.results, answer), !.work = view]
<1>1. /\ t \in Transaction /\ t.unit \in Unit /\ t.phase = "applying"
      /\ t.results \in Seq([result : Result, duplicate : BOOLEAN])
      /\ Len(t.results) \in Nat /\ Len(t.unit) \in Nat /\ n \in DOMAIN t.unit
      /\ DOMAIN t.results = 1..Len(t.results)
  BY NextOp DEF IInv, Apply
<1>0. n <= Len(t.unit)
  BY <1>1 DEF Apply
<1>2. IsOp(op) /\ op.id \in OpIds
  BY <1>1, UnitFacts
<1>3. Sound(t.work) /\ RemovalsStick(db, t.work)
  BY <1>1 DEF IInv, TablesInv
<1>4. /\ Sound(outcome.db) /\ outcome.result \in Result
      /\ RemovalsStick(t.work, outcome.db)
  <2> HIDE DEF op, t
  <2> QED
    BY <1>2, <1>3, ApplyOneSound
<1> HIDE DEF outcome
<1>5. RemovalsStick(db, outcome.db)
  BY <1>3, <1>4 DEF RemovalsStick
<1>6. Sound(view) /\ RemovalsStick(db, view)
  BY <1>3, <1>4, <1>5
<1>7. /\ answer \in [result : Result, duplicate : BOOLEAN]
      /\ answer.duplicate = known
      /\ known => answer.result = applied[op.id]
  BY <1>2, <1>4 DEF Answer, IInv, TypeOK
<1>9. tx' = [tx EXCEPT ![w] = t2]
  <2>1. CASE known
    <3>1. tx' = [tx EXCEPT ![w].results = Append(@, answer)]
      BY <2>1 DEF Apply, Prior
    <3>2. t2 = [t EXCEPT !.results = Append(t.results, answer)]
      BY <1>1, <2>1 DEF Transaction
    <3> HIDE DEF answer
    <3> QED
      BY <3>1, <3>2 DEF IInv, TypeOK
  <2>2. CASE ~known
    <3>1. tx' = [tx EXCEPT ![w].results = Append(@, answer), ![w].work = view]
      BY <2>2 DEF Apply, Prior, outcome
    <3> HIDE DEF answer, view
    <3> QED
      BY <3>1 DEF IInv, TypeOK
  <2> QED
    BY <2>1, <2>2
<1>10. db' = db /\ applied' = applied /\ lock' = lock /\ effects' = effects
  BY DEF Apply
<1> HIDE DEF answer, view
<1>11. /\ Append(t.results, answer) \in Seq([result : Result, duplicate : BOOLEAN])
       /\ Len(Append(t.results, answer)) = n
       /\ DOMAIN Append(t.results, answer) = 1..n
       /\ \A i \in 1..Len(t.results) : Append(t.results, answer)[i] = t.results[i]
       /\ Append(t.results, answer)[n] = answer
  BY <1>1, <1>7, AppendProperties, LenProperties
<1>12. /\ t2 \in Transaction /\ t2.phase = "applying" /\ t2.unit = t.unit /\ t2.work = view
       /\ t2.results = Append(t.results, answer)
  BY <1>1, <1>6, <1>11 DEF Transaction, Answers, Sound, Tables
<1> HIDE DEF t2
<1>13. \A v \in Worker : tx'[v] = IF v = w THEN t2 ELSE tx[v]
  BY <1>9 DEF IInv, TypeOK
<1>14. TypeOK'
  <2>1. tx' \in [Worker -> Transaction]
    BY <1>9, <1>12 DEF IInv, TypeOK
  <2> HIDE DEF t, n
  <2>2. \A v \in Worker : tx'[v].phase # "idle" =>
          /\ tx'[v].unit \in Unit
          /\ Len(tx'[v].results) <= Len(tx'[v].unit)
          /\ tx'[v].phase = "failed" => Len(tx'[v].results) < Len(tx'[v].unit)
    BY <1>1, <1>0, <1>11, <1>12, <1>13 DEF IInv, TypeOK
  <2> QED
    BY <1>10, <2>1, <2>2 DEF IInv, TypeOK
<1>15. TablesInv'
  BY <1>6, <1>10, <1>12, <1>13 DEF IInv, TablesInv
<1>16. LockInv'
  BY <1>1, <1>10, <1>12, <1>13 DEF IInv, LockInv
<1>17. EffectInv' /\ GroupsAreAtomic'
  BY <1>10 DEF IInv, EffectInv, GroupsAreAtomic
<1>18. AnswerInv'
  <2> SUFFICES ASSUME NEW v \in Worker, tx'[v].phase = "applying",
                      NEW i \in DOMAIN tx'[v].results, tx'[v].results[i].duplicate
               PROVE  LET id == tx'[v].unit[i].id
                      IN  applied[id] # None /\ tx'[v].results[i].result = applied[id]
    BY <1>10 DEF AnswerInv
  <2>1. CASE v = w /\ i = n
    <3>1. tx'[v] = t2
      BY <1>13, <2>1
    <3>2. tx'[v].results[i] = answer /\ tx'[v].unit[i] = t.unit[n]
      BY <1>11, <1>12, <2>1, <3>1
    <3>3. answer.duplicate /\ known /\ op = t.unit[n]
      BY <1>7, <3>2
    <3> QED
      BY <1>2, <1>7, <3>2, <3>3
  <2>2. CASE v = w /\ i # n
    <3>1. i \in DOMAIN t.results /\ t2.results[i] = t.results[i]
      <4>1. tx'[v] = t2
        BY <1>13, <2>2
      <4>2. i \in 1..n /\ i # n
        BY <1>11, <1>12, <2>2, <4>1
      <4>3. i \in 1..Len(t.results) /\ DOMAIN t.results = 1..Len(t.results)
        BY <1>1, <4>2
      <4> QED
        BY <1>11, <1>12, <4>3
    <3>2. tx'[v].unit = t.unit /\ tx'[v].results[i] = t.results[i]
      BY <1>12, <1>13, <2>2, <3>1
    <3>3. t.results[i].duplicate =>
            LET id == t.unit[i].id
            IN  applied[id] # None /\ t.results[i].result = applied[id]
      BY <1>1, <3>1 DEF IInv, AnswerInv
    <3> HIDE DEF t
    <3> QED
      BY <3>2, <3>3
  <2>3. CASE v # w
    BY <1>13, <2>3 DEF IInv, AnswerInv
  <2> QED
    BY <2>1, <2>2, <2>3
<1> QED
  BY <1>14, <1>15, <1>16, <1>17, <1>18 DEF IInv

(* An op that has no record yet gets the record of an error.               *)
LEMMA RememberErrorKeeps ==
  ASSUME IInv, NEW w \in Worker, RememberError(w)
  PROVE  IInv'
<1> DEFINE t  == tx[w]
           n  == Len(t.results) + 1
           id == t.unit[n].id
           t2 == IF n = Len(t.unit) THEN Idle
                 ELSE [t EXCEPT !.results = Append(t.results, Answer(ErrorResult, FALSE))]
<1>1. /\ t \in Transaction /\ t.unit \in Unit /\ t.phase = "failed"
      /\ t.results \in Seq([result : Result, duplicate : BOOLEAN])
      /\ Len(t.results) \in Nat /\ Len(t.unit) \in Nat /\ n \in DOMAIN t.unit
      /\ DOMAIN t.results = 1..Len(t.results)
      /\ n <= Len(t.unit)
  <2>1. t.phase = "failed" /\ Len(t.results) < Len(t.unit)
    BY DEF IInv, TypeOK, RememberError
  <2>2. /\ t \in Transaction /\ t.unit \in Unit
        /\ t.results \in Seq([result : Result, duplicate : BOOLEAN])
        /\ Len(t.results) \in Nat /\ Len(t.unit) \in Nat /\ n \in DOMAIN t.unit
        /\ DOMAIN t.results = 1..Len(t.results)
    BY <2>1, NextOp DEF IInv
  <2> QED
    BY <2>1, <2>2
<1>2. id \in OpIds
  BY <1>1, UnitFacts
<1>3. /\ applied' \in [OpIds -> Result \cup {None}]
      /\ applied'[id] # None
      /\ applied[id] = None => applied'[id] = ErrorResult
      /\ \A k \in OpIds : (k # id \/ applied[k] # None) => applied'[k] = applied[k]
  <2>1. applied' = [applied EXCEPT ![id] = ErrorUnlessKnown(id)]
    BY DEF RememberError
  <2> HIDE DEF id
  <2> QED
    BY <1>2, <2>1, ErrorIsResult DEF IInv, TypeOK, ErrorUnlessKnown
<1>4. /\ tx' = [tx EXCEPT ![w] = t2]
      /\ db' = db /\ lock' = lock /\ effects' = effects
  BY DEF RememberError
<1>5. t2 = Idle \/ /\ t2 \in Transaction /\ t2.phase = "failed" /\ t2.unit = t.unit
                   /\ t2.work = t.work /\ Len(t2.results) < Len(t.unit)
  <2> SUFFICES ASSUME n # Len(t.unit)
               PROVE  /\ t2 \in Transaction /\ t2.phase = "failed" /\ t2.unit = t.unit
                      /\ t2.work = t.work /\ Len(t2.results) < Len(t.unit)
    OBVIOUS
  <2> DEFINE a == Answer(ErrorResult, FALSE)
  <2>1. a \in [result : Result, duplicate : BOOLEAN]
    BY ErrorIsResult DEF Answer
  <2> HIDE DEF a
  <2>2. /\ Append(t.results, a) \in Seq([result : Result, duplicate : BOOLEAN])
        /\ Len(Append(t.results, a)) = n
    BY <1>1, <2>1, AppendProperties
  <2>3. t2 = [t EXCEPT !.results = Append(t.results, a)]
    BY DEF a
  <2>4. n < Len(t.unit)
    BY <1>1
  <2> HIDE DEF t2, n
  <2>5. t2 \in Transaction /\ t2.phase = "failed" /\ t2.unit = t.unit
        /\ t2.work = t.work /\ t2.results = Append(t.results, a)
    BY <1>1, <2>2, <2>3 DEF Transaction, Answers
  <2> QED
    BY <2>2, <2>4, <2>5
<1> HIDE DEF t2
<1>6. \A v \in Worker : tx'[v] = IF v = w THEN t2 ELSE tx[v]
  BY <1>4 DEF IInv, TypeOK
<1>7. t2.phase # "applying"
  BY <1>5, IdleTyped
<1>8. TypeOK'
  <2>1. tx' \in [Worker -> Transaction]
    BY <1>4, <1>5, IdleTyped DEF IInv, TypeOK
  <2>2. \A v \in Worker : tx'[v].phase # "idle" =>
          /\ tx'[v].unit \in Unit
          /\ Len(tx'[v].results) <= Len(tx'[v].unit)
          /\ tx'[v].phase = "failed" => Len(tx'[v].results) < Len(tx'[v].unit)
    <3>1. ASSUME t2.phase # "idle"
          PROVE  t2.unit \in Unit /\ Len(t2.results) < Len(t2.unit) /\ Len(t2.results) <= Len(t2.unit)
      <4>1. t2 \in Transaction /\ t2.unit = t.unit /\ Len(t2.results) < Len(t.unit)
        BY <1>5, <3>1, IdleTyped
      <4>2. Len(t2.results) \in Nat
        <5>1. t2.results \in Seq([result : Result, duplicate : BOOLEAN])
          BY <4>1 DEF Transaction, Answers
        <5> QED
          BY <5>1, LenProperties
      <4> QED
        BY <1>1, <4>1, <4>2
    <3> QED
      BY <1>6, <3>1 DEF IInv, TypeOK
  <2> QED
    BY <1>3, <1>4, <2>1, <2>2 DEF IInv, TypeOK
<1>9. TablesInv'
  BY <1>4, <1>5, <1>6, <1>7, IdleTyped DEF IInv, TablesInv
<1>10. LockInv'
  BY <1>1, <1>4, <1>6, <1>7 DEF IInv, LockInv
<1>13. EffectInv'
  BY <1>3, <1>4 DEF IInv, EffectInv
<1>14. GroupsAreAtomic'
  <2> SUFFICES ASSUME NEW u \in Unit, Grouped(u), NEW i \in DOMAIN u, NEW j \in DOMAIN u,
                      applied'[u[i].id] # None /\ ~IsRejected(applied'[u[i].id])
               PROVE  applied'[u[j].id] # None /\ ~IsRejected(applied'[u[j].id])
    BY DEF GroupsAreAtomic
  <2>1. u[i].id \in OpIds /\ u[j].id \in OpIds
    BY UnitFacts
  <2>2. applied'[u[i].id] = applied[u[i].id]
    <3>1. IsRejected(ErrorResult)
      BY DEF ErrorResult, Refuse, Reply, IsRejected
    <3> QED
      BY <1>3, <2>1, <3>1
  <2>3. applied[u[j].id] # None /\ ~IsRejected(applied[u[j].id])
    BY <2>2 DEF IInv, GroupsAreAtomic
  <2> QED
    BY <1>3, <2>1, <2>3
<1>15. AnswerInv'
  <2> SUFFICES ASSUME NEW v \in Worker, v # w, tx[v].phase = "applying",
                      NEW i \in DOMAIN tx[v].results, tx[v].results[i].duplicate
               PROVE  LET k == tx[v].unit[i].id
                      IN  applied'[k] # None /\ tx[v].results[i].result = applied'[k]
    BY <1>6, <1>7 DEF AnswerInv
  <2>1. tx[v].unit \in Unit /\ i \in DOMAIN tx[v].unit
    <3>1. tx[v].unit \in Unit /\ Len(tx[v].results) <= Len(tx[v].unit)
      BY DEF IInv, TypeOK
    <3> QED
      BY <3>1, UnitFacts, ResultsFacts DEF IInv
  <2>2. tx[v].unit[i].id \in OpIds
    BY <2>1, UnitFacts
  <2> QED
    BY <1>3, <2>2 DEF IInv, AnswerInv
<1> QED
  BY <1>8, <1>9, <1>10, <1>13, <1>14, <1>15 DEF IInv

(* Every answer of a transaction carries a result.                         *)
LEMMA AnswerTyped ==
  ASSUME TypeOK, NEW w \in Worker, NEW i \in DOMAIN tx[w].results
  PROVE  tx[w].results[i].result \in Result
<1> DEFINE S == [result : Result, duplicate : BOOLEAN]
<1>1. tx[w].results \in Seq(S) /\ i \in 1..Len(tx[w].results)
  BY ResultsFacts
<1> HIDE DEF S
<1>2. tx[w].results[i] \in S
  BY <1>1, ElementOfSeq
<1> QED
  BY <1>2 DEF S

(* What a committing transaction made anew is on nobody's record.          *)
LEMMA FreshIsNew ==
  ASSUME NEW w \in Worker, Commit(w),
         NEW i \in DOMAIN tx[w].unit, ~tx[w].results[i].duplicate
  PROVE  applied[tx[w].unit[i].id] = None
  BY DEF Commit, Clashes

(* A commit records the answers that are new, each under its own op, and   *)
(* changes no record there is.                                             *)
LEMMA CommitRecords ==
  ASSUME IInv, NEW w \in Worker, Commit(w)
  PROVE  /\ applied' \in [OpIds -> Result \cup {None}]
         /\ \A i \in DOMAIN tx[w].unit :
              applied'[tx[w].unit[i].id] = tx[w].results[i].result
         /\ \A id \in OpIds : applied[id] # None => applied'[id] = applied[id]
         /\ \A id \in OpIds : (\A i \in DOMAIN tx[w].unit : tx[w].unit[i].id # id)
                                => applied'[id] = applied[id]
<1> DEFINE t == tx[w]
           fresh(id) == \E i \in DOMAIN t.unit : t.unit[i].id = id /\ ~t.results[i].duplicate
           place(id) == CHOOSE i \in DOMAIN t.unit : t.unit[i].id = id
<1>1. /\ t.unit \in Unit /\ DOMAIN t.results = DOMAIN t.unit
      /\ t.phase = "applying"
      /\ \A i \in DOMAIN t.unit : t.unit[i].id \in OpIds
      /\ \A i, j \in DOMAIN t.unit : t.unit[i].id = t.unit[j].id => i = j
  <2>1. t.unit \in Unit /\ t.phase = "applying" /\ Len(t.results) = Len(t.unit)
    BY DEF IInv, TypeOK, Commit
  <2> QED
    BY <2>1, UnitFacts, ResultsFacts DEF IInv
<1>2. \A i \in DOMAIN t.results : t.results[i].result \in Result
  BY AnswerTyped DEF IInv
<1>3. \A i \in DOMAIN t.unit : place(t.unit[i].id) = i
  BY <1>1
<1>4. applied' = [id \in OpIds |-> IF fresh(id) THEN t.results[place(id)].result ELSE applied[id]]
  BY DEF Commit, Recorded, IInv, TypeOK
<1>5. \A i \in DOMAIN t.unit :
        IF t.results[i].duplicate THEN t.results[i].result = applied[t.unit[i].id]
        ELSE applied[t.unit[i].id] = None
  <2> TAKE i \in DOMAIN t.unit
  <2>1. CASE t.results[i].duplicate
    BY <1>1, <2>1 DEF IInv, AnswerInv
  <2>2. CASE ~t.results[i].duplicate
    BY <2>2, FreshIsNew
  <2> QED
    BY <2>1, <2>2
<1>6. \A i \in DOMAIN t.unit : fresh(t.unit[i].id) <=> ~t.results[i].duplicate
  BY <1>1
<1> HIDE DEF t, place
<1>7. \A i \in DOMAIN t.unit : applied'[t.unit[i].id] = t.results[i].result
  BY <1>1, <1>3, <1>4, <1>5, <1>6
<1>8. ASSUME NEW id \in OpIds
      PROVE  /\ applied'[id] \in Result \cup {None}
             /\ applied[id] # None => applied'[id] = applied[id]
             /\ (\A i \in DOMAIN t.unit : t.unit[i].id # id) => applied'[id] = applied[id]
  <2>1. CASE fresh(id)
    <3>1. PICK i \in DOMAIN t.unit : t.unit[i].id = id /\ ~t.results[i].duplicate
      BY <2>1
    <3> QED
      BY <1>1, <1>2, <1>5, <1>7, <3>1
  <2>2. CASE ~fresh(id)
    <3>1. applied'[id] = applied[id]
      BY <1>4, <2>2
    <3> QED
      BY <3>1 DEF IInv, TypeOK
  <2> QED
    BY <2>1, <2>2
<1>9. applied' \in [OpIds -> Result \cup {None}]
  BY <1>4, <1>8
<1> QED
  BY <1>7, <1>8, <1>9 DEF t

(* A commit publishes the view and the new answers together.               *)
LEMMA CommitKeeps ==
  ASSUME IInv, NEW w \in Worker, Commit(w)
  PROVE  IInv'
<1> DEFINE t == tx[w]
           fresh == {t.unit[i].id : i \in {j \in DOMAIN t.unit : ~t.results[j].duplicate}}
<1>1. /\ t.unit \in Unit /\ t.phase = "applying" /\ lock = w /\ ~RollsBack(t.unit, t.results)
      /\ DOMAIN t.results = DOMAIN t.unit
  <2>1. t.unit \in Unit /\ t.phase = "applying" /\ lock = w /\ Len(t.results) = Len(t.unit)
        /\ ~RollsBack(t.unit, t.results)
    BY DEF IInv, TypeOK, LockInv, Commit
  <2> QED
    BY <2>1, UnitFacts, ResultsFacts DEF IInv
<1>2. /\ applied' \in [OpIds -> Result \cup {None}]
      /\ \A i \in DOMAIN t.unit : applied'[t.unit[i].id] = t.results[i].result
      /\ \A id \in OpIds : applied[id] # None => applied'[id] = applied[id]
      /\ \A id \in OpIds : (\A i \in DOMAIN t.unit : t.unit[i].id # id)
                             => applied'[id] = applied[id]
  BY CommitRecords
<1>3. /\ db' = t.work /\ lock' = None /\ tx' = [tx EXCEPT ![w] = Idle]
      /\ effects' = [id \in OpIds |-> IF id \in fresh THEN effects[id] + 1 ELSE effects[id]]
  BY DEF Commit
<1>4. \A v \in Worker : tx'[v] = IF v = w THEN Idle ELSE tx[v]
  BY <1>3 DEF IInv, TypeOK
<1>5. \A v \in Worker : tx'[v].phase # "applying"
  BY <1>1, <1>4, IdleTyped DEF IInv, LockInv
<1>6. Sound(t.work)
  BY DEF IInv, TablesInv
<1>7. TypeOK'
  <2>1. db' \in Db /\ StatusesIn(db')
    BY <1>3, <1>6 DEF Sound, Tables
  <2>2. tx' \in [Worker -> Transaction] /\ effects' \in [OpIds -> Nat]
    BY <1>3, IdleTyped DEF IInv, TypeOK
  <2>3. \A v \in Worker : tx'[v].phase # "idle" =>
          /\ tx'[v].unit \in Unit
          /\ Len(tx'[v].results) <= Len(tx'[v].unit)
          /\ tx'[v].phase = "failed" => Len(tx'[v].results) < Len(tx'[v].unit)
    BY <1>4, IdleTyped DEF IInv, TypeOK
  <2> QED
    BY <1>2, <1>3, <2>1, <2>2, <2>3 DEF TypeOK
<1>8. TablesInv'
  BY <1>3, <1>4, <1>5, <1>6, IdleTyped DEF IInv, TablesInv
<1>9. LockInv'
  BY <1>3, <1>5, WorkerAssumption DEF LockInv
<1>11. AnswerInv'
  BY <1>5 DEF AnswerInv
<1>13. EffectInv'
  <2> SUFFICES ASSUME NEW id \in OpIds
               PROVE  effects'[id] <= 1 /\ (effects'[id] = 1 => applied'[id] # None)
    BY DEF EffectInv
  <2>1. effects[id] \in Nat /\ effects[id] <= 1 /\ (effects[id] = 1 => applied[id] # None)
    BY DEF IInv, TypeOK, EffectInv
  <2>2. CASE id \in fresh
    <3>1. PICK i \in DOMAIN t.unit : t.unit[i].id = id /\ ~t.results[i].duplicate
      BY <2>2
    <3>2. applied[id] = None
      BY <3>1, FreshIsNew
    <3>3. effects'[id] = 1
      BY <1>3, <2>1, <2>2, <3>2
    <3>4. t.results[i].result \in Result
      BY <1>1, <3>1, AnswerTyped DEF IInv
    <3> QED
      BY <1>2, <3>1, <3>3, <3>4, NoneAssumption
  <2>3. CASE id \notin fresh
    BY <1>2, <1>3, <2>1, <2>3
  <2> QED
    BY <2>2, <2>3
<1>14. GroupsAreAtomic'
  <2> SUFFICES ASSUME NEW u \in Unit, Grouped(u), NEW i \in DOMAIN u, NEW j \in DOMAIN u,
                      applied'[u[i].id] # None /\ ~IsRejected(applied'[u[i].id])
               PROVE  applied'[u[j].id] # None /\ ~IsRejected(applied'[u[j].id])
    BY DEF GroupsAreAtomic
  <2>1. u[i].id \in OpIds /\ u[j].id \in OpIds
    BY UnitFacts
  <2>2. CASE u = t.unit
    <3>1. applied'[u[j].id] = t.results[j].result
      BY <1>2, <2>2
    <3>2. ~IsRejected(t.results[j].result)
      BY <1>1, <2>2 DEF RollsBack
    <3>3. t.results[j].result \in Result
      BY <1>1, <2>2, AnswerTyped DEF IInv
    <3> QED
      BY <3>1, <3>2, <3>3, NoneAssumption
  <2>3. CASE u # t.unit
    <3>1. \A k \in DOMAIN t.unit : t.unit[k].id # u[i].id /\ t.unit[k].id # u[j].id
      BY <1>1, <2>3, UnitFacts
    <3>2. applied'[u[i].id] = applied[u[i].id] /\ applied'[u[j].id] = applied[u[j].id]
      BY <1>2, <2>1, <3>1
    <3> QED
      BY <3>2 DEF IInv, GroupsAreAtomic
  <2> QED
    BY <2>2, <2>3
<1> QED
  BY <1>7, <1>8, <1>9, <1>11, <1>13, <1>14 DEF IInv

-----------------------------------------------------------------------------

(* The invariant is inductive: one step per action.                        *)
LEMMA StepKeeps == IInv /\ [Next]_vars => IInv'
<1> SUFFICES ASSUME IInv, [Next]_vars PROVE IInv'
  OBVIOUS
<1>1. CASE UNCHANGED vars
  BY <1>1 DEF vars, IInv, TypeOK, TablesInv, LockInv, AnswerInv,
              EffectInv, GroupsAreAtomic
<1>2. ASSUME NEW w \in Worker, NEW unit \in Unit, Begin(w, unit) PROVE IInv'
  BY <1>2, BeginKeeps
<1>3. ASSUME NEW w \in Worker, NEW waits \in BOOLEAN, Apply(w, waits) PROVE IInv'
  BY <1>3, ApplyKeeps
<1>4. ASSUME NEW w \in Worker, NEW waits \in BOOLEAN, Throw(w, waits) PROVE IInv'
  BY <1>4, ThrowKeeps
<1>5. ASSUME NEW w \in Worker, RememberError(w) PROVE IInv'
  BY <1>5, RememberErrorKeeps
<1>6. ASSUME NEW w \in Worker, Commit(w) PROVE IInv'
  BY <1>6, CommitKeeps
<1>7. ASSUME NEW w \in Worker, Rollback(w) PROVE IInv'
  BY <1>7, RollbackKeeps
<1>8. ASSUME NEW w \in Worker, Drop(w) PROVE IInv'
  BY <1>8, DropKeeps
<1> QED
  BY <1>1, <1>2, <1>3, <1>4, <1>5, <1>6, <1>7, <1>8 DEF Next

(* The inductive invariant holds throughout (every handler of applyUnit).  *)
THEOREM Invariance == Spec => []IInv
<1>1. Init => IInv
  BY InitIInv
<1>2. IInv /\ [Next]_vars => IInv'
  BY StepKeeps
<1> QED
  BY <1>1, <1>2, PTL DEF Spec

(* Every type the model declares is kept, and no refused status is ever    *)
(* stored: create and set turn it away (invalid).                          *)
THEOREM TypesHold == Spec => []TypeOK
<1>1. IInv => TypeOK
  BY DEF IInv
<1> QED
  BY <1>1, Invariance, PTL

(* A field's version always names a change of its own row: the seq that    *)
(* bump gives is the one create and set keep, in every interleaving.       *)
THEOREM VersionsHold == Spec => []VersionsNameTheirChange
<1>1. IInv => VersionsNameTheirChange
  BY DEF IInv, TablesInv, Sound, Tables, VersionsNameTheirChange
<1> QED
  BY <1>1, Invariance, PTL

(* A tombstone is always the mark of a removal that stands (remove, and    *)
(* create's clearing of it).                                               *)
THEOREM TombsHold == Spec => []TombsAreRemovals
<1>1. IInv => TombsAreRemovals
  BY DEF IInv, TablesInv, Sound, Tables, TombsAreRemovals
<1> QED
  BY <1>1, Invariance, PTL

(* Every item's derived status is the roll-up of its tasks after any       *)
(* committed unit (recalc).                                                *)
THEOREM CalcHolds == Spec => []CalcIsDerived
<1>1. IInv => CalcIsDerived
  BY DEF IInv, TablesInv, Sound, CalcIsDerived
<1> QED
  BY <1>1, Invariance, PTL

(* The feed's last change of a uid says whether its row is there, after    *)
(* any mix of units: what a reader concludes from it is so (bump).         *)
THEOREM PresenceHolds == Spec => []FeedShowsPresence
<1>1. IInv => FeedShowsPresence
  BY DEF IInv, TablesInv, Sound, Shown, FeedShowsPresence
<1> QED
  BY <1>1, Invariance, PTL

(* An item's history is an unbroken trail that ends in its status, in      *)
(* every interleaving (statusChanged).                                     *)
THEOREM TrailsHold == Spec => []TrailEndsInStatus
<1>1. IInv => TrailEndsInStatus
  BY DEF IInv, TablesInv, Sound, Shown, TrailsIn, TrailEndsInStatus
<1> QED
  BY <1>1, Invariance, PTL

(* However often and however concurrently an op is sent, it takes effect   *)
(* at most once (applyUnit's lookup in applied_ops under the row lock).    *)
THEOREM AtMostOnce == Spec => []AppliedOnce
<1>1. IInv => AppliedOnce
  BY DEF IInv, EffectInv, AppliedOnce
<1> QED
  BY <1>1, Invariance, PTL

(* A group is on record as applied whole or not at all (applyUnit's        *)
(* rollback of a group with a rejected op).                                *)
THEOREM GroupsHold == Spec => []GroupsAreAtomic
<1>1. IInv => GroupsAreAtomic
  BY DEF IInv
<1> QED
  BY <1>1, Invariance, PTL

(* No step changes an answer on record: neither a repeat's commit nor the  *)
(* errors remembered for a copy that failed (on conflict do nothing).      *)
THEOREM AnswersHold == Spec => AnswersAreFinal
<1>1. IInv /\ [Next]_vars =>
        [\A id \in OpIds : applied[id] # None => applied'[id] = applied[id]]_applied
  <2> SUFFICES ASSUME IInv, [Next]_vars, NEW id \in OpIds, applied[id] # None
               PROVE  applied'[id] = applied[id]
    OBVIOUS
  <2>1. ASSUME NEW w \in Worker, Commit(w) PROVE applied'[id] = applied[id]
    BY <2>1, CommitRecords
  <2>2. ASSUME NEW w \in Worker, RememberError(w) PROVE applied'[id] = applied[id]
    BY <2>2 DEF RememberError, ErrorUnlessKnown, IInv, TypeOK
  <2>3. CASE applied' = applied
    BY <2>3
  <2> QED
    BY <2>1, <2>2, <2>3 DEF Next, Begin, Apply, Throw, Rollback, Drop, vars
<1> QED
  BY <1>1, Invariance, PTL DEF Spec, AnswersAreFinal

(* What a person removed stays removed, whatever plugins and other clients *)
(* send (create's test of the tombstone).                                  *)
THEOREM RemovalsHold == Spec => PersonsRemovalsStick
<1>1. IInv /\ [Next]_vars =>
        [\A u \in Uid : (db.tombs[u] # None /\ ~db.tombs[u].byPlugin)
                          => db'.tombs[u] = db.tombs[u]]_db
  <2> SUFFICES ASSUME IInv, [Next]_vars PROVE RemovalsStick(db, db') \/ db' = db
    BY DEF RemovalsStick
  <2>1. ASSUME NEW w \in Worker, Commit(w) PROVE RemovalsStick(db, db')
    <3>1. db' = tx[w].work /\ tx[w].phase = "applying"
      BY <2>1 DEF Commit
    <3> QED
      BY <3>1 DEF IInv, TablesInv
  <2> QED
    BY <2>1 DEF Next, Begin, Apply, Throw, RememberError, Rollback, Drop, vars
<1> QED
  BY <1>1, Invariance, PTL DEF Spec, PersonsRemovalsStick

-----------------------------------------------------------------------------
(***************************************************************************)
(* TeamServer implements ProjectService, for every number of workers and   *)
(* every set of units: what a transaction has done so far is what its      *)
(* unit's ops would do at once on the committed tables and the record,     *)
(* unless another copy of the unit failed meanwhile, and then it does not  *)
(* commit.                                                                 *)
(***************************************************************************)

(* The first ops of a unit.                                                *)

(* The part of a unit that comes before an op.                             *)
LEMMA FirstOps ==
  ASSUME NEW unit \in Unit, NEW n \in 0..Len(unit)
  PROVE  /\ Len(SubSeq(unit, 1, n)) = n /\ n \in Nat
         /\ \A i \in 1..n : SubSeq(unit, 1, n)[i] = unit[i]
<1> DEFINE S == {unit[i] : i \in DOMAIN unit}
<1>1. Len(unit) \in Nat /\ DOMAIN unit = 1..Len(unit)
  BY UnitFacts
<1>2. n \in Int /\ n \in Nat /\ \A i \in 1..n : unit[i] \in S
  BY <1>1
<1> HIDE DEF S
<1>3. /\ Len(SubSeq(unit, 1, n)) = IF 1 <= n THEN n - 1 + 1 ELSE 0
      /\ \A i \in 1..(n - 1 + 1) : SubSeq(unit, 1, n)[i] = unit[1 + i - 1]
  BY <1>2, SubSeqProperties
<1> QED
  BY <1>2, <1>3

(* After n ops: what the run that goes on to the unit's end has by then.   *)
LEMMA RunPrefix ==
  ASSUME NEW d, NEW known, NEW unit \in Unit, NEW waits, NEW n \in 0..Len(unit),
         NEW m \in Nat, n <= m, NEW g, IsRun(g, d, known, unit, waits, m)
  PROVE  RunUnit(d, known, SubSeq(unit, 1, n), waits) = g[n]
<1> DEFINE first == SubSeq(unit, 1, n)
           h == CHOOSE h : IsRun(h, d, known, first, waits, n)
<1>1. Len(first) = n /\ n \in Nat /\ \A i \in 1..n : first[i] = unit[i]
  BY FirstOps
<1> HIDE DEF first
<1>2. IsRun(h, d, known, first, waits, n)
  BY <1>1, RunExists
<1>3. RunUnit(d, known, first, waits) = h[n]
  BY <1>1, RunUnitChooses
<1> HIDE DEF h
<1>4. SameLooks(known, unit, waits, known, first, waits, n) /\ n <= n
  BY <1>1 DEF SameLooks
<1>5. \A i \in 0..n : h[i] = g[i]
  BY <1>1, <1>2, <1>4, RunsAgree
<1> QED
  BY <1>1, <1>3, <1>5 DEF first

(* No op: the tables as they are.                                          *)
LEMMA RunNone ==
  ASSUME NEW d, NEW known, NEW unit \in Unit, NEW waits
  PROVE  RunUnit(d, known, SubSeq(unit, 1, 0), waits) = RunStart(d)
<1>1. 0 \in 0..Len(unit)
  BY UnitFacts
<1>2. PICK g : IsRun(g, d, known, unit, waits, 0)
  BY RunExists
<1>3. g[0] = RunStart(d)
  BY <1>2, RunSteps
<1> QED
  BY <1>1, <1>2, <1>3, RunPrefix

(* One op more.                                                            *)
LEMMA RunNext ==
  ASSUME NEW d, NEW known, NEW unit \in Unit, NEW waits, NEW n \in 1..Len(unit)
  PROVE  RunUnit(d, known, SubSeq(unit, 1, n), waits)
           = RunStep(known, unit, waits, RunUnit(d, known, SubSeq(unit, 1, n - 1), waits), n)
<1>1. n \in Nat /\ n \in 0..Len(unit) /\ n - 1 \in 0..Len(unit) /\ n \in 1..n
  BY UnitFacts
<1>2. PICK g : IsRun(g, d, known, unit, waits, n)
  BY <1>1, RunExists
<1>3. g[n] = RunStep(known, unit, waits, g[n - 1], n)
  BY <1>1, <1>2, RunSteps
<1>4. RunUnit(d, known, SubSeq(unit, 1, n), waits) = g[n]
  BY <1>1, <1>2, RunPrefix
<1>5. RunUnit(d, known, SubSeq(unit, 1, n - 1), waits) = g[n - 1]
  BY <1>1, <1>2, RunPrefix
<1> QED
  BY <1>3, <1>4, <1>5

(* The first n ops look at their own records and edges only.               *)
LEMMA RunLooks ==
  ASSUME NEW d, NEW known, NEW unit \in Unit, NEW waits, NEW n \in 0..Len(unit),
         NEW known2, NEW waits2,
         \A i \in 1..n : known2[unit[i].id] = known[unit[i].id] /\ waits2[i] = waits[i]
  PROVE  RunUnit(d, known2, SubSeq(unit, 1, n), waits2)
           = RunUnit(d, known, SubSeq(unit, 1, n), waits)
<1>1. n \in Nat /\ n <= n /\ n \in 0..n
  BY UnitFacts
<1>2. PICK g : IsRun(g, d, known, unit, waits, n)
  BY <1>1, RunExists
<1>3. PICK h : IsRun(h, d, known2, unit, waits2, n)
  BY <1>1, RunExists
<1>4. SameLooks(known, unit, waits, known2, unit, waits2, n)
  BY DEF SameLooks
<1>5. \A i \in 0..n : h[i] = g[i]
  BY <1>1, <1>2, <1>3, <1>4, RunsAgree
<1> QED
  BY <1>1, <1>2, <1>3, <1>5, RunPrefix

(* All ops of the unit are the unit.                                       *)
LEMMA WholeUnit ==
  ASSUME NEW unit \in Unit
  PROVE  SubSeq(unit, 1, Len(unit)) = unit
<1> DEFINE S == {unit[i] : i \in DOMAIN unit}
<1>1. unit \in Seq(S)
  BY UnitAssumption
<1> HIDE DEF S
<1> QED
  BY <1>1, SubSeqFull

-----------------------------------------------------------------------------
(* What a transaction has done.                                            *)

(* Everything the transaction found unrecorded still is.                   *)
Undisturbed(w) ==
  \A i \in DOMAIN tx[w].results :
    ~tx[w].results[i].duplicate => applied[tx[w].unit[i].id] = None

(* The transaction's ops so far, at once on the committed tables, give its *)
(* view and its answers, and the database took each of them.               *)
RanSoFar(w, waits) ==
  LET t == tx[w]
      after(n) == RunUnit(db, applied, SubSeq(t.unit, 1, n), waits)
  IN  /\ after(Len(t.results)) = [db |-> t.work, answers |-> t.results]
      /\ \A i \in 1..Len(t.results) :
           ~ /\ t.unit[i].id \in Malformed /\ applied[t.unit[i].id] = None
             /\ ComesToWrite(after(i - 1).db, t.unit[i], waits[i])

(* A transaction nobody disturbed is one that could have run alone.        *)
RunInv ==
  \A w \in Worker : tx[w].phase = "applying" /\ Undisturbed(w) =>
    \E waits \in [DOMAIN tx[w].unit -> BOOLEAN] : RanSoFar(w, waits)

HasMalformed(unit) == \E i \in DOMAIN unit : unit[i].id \in Malformed

(* A unit fails only by a malformed op, in this worker or in another that  *)
(* ran a copy of it.                                                       *)
BlameInv ==
  \A w \in Worker :
    /\ tx[w].phase = "failed" => HasMalformed(tx[w].unit)
    /\ tx[w].phase = "applying" /\ ~Undisturbed(w) => HasMalformed(tx[w].unit)

(* The inductive invariant the refinement needs.                           *)
SInv == IInv /\ RunInv /\ BlameInv

-----------------------------------------------------------------------------

(* The transaction has answered op n, as its unit alone would have.        *)
Answered(w, waits, n) ==
  /\ n \in 1..Len(tx[w].unit) /\ tx[w].unit \in Unit
  /\ tx'[w].phase = "applying" /\ tx'[w].unit = tx[w].unit
  /\ DOMAIN tx[w].results = 1..(n - 1) /\ DOMAIN tx'[w].results = 1..n
  /\ Len(tx'[w].results) = n
  /\ \A i \in 1..(n - 1) : tx'[w].results[i] = tx[w].results[i]
  /\ tx'[w].results[n].duplicate <=> applied[tx[w].unit[n].id] # None
  /\ [db |-> tx'[w].work, answers |-> tx'[w].results]
       = RunStep(applied, tx[w].unit, waits, [db |-> tx[w].work, answers |-> tx[w].results], n)

(* What Apply makes of the transaction.                                    *)
LEMMA ApplyEffect ==
  ASSUME IInv, NEW w \in Worker, NEW b \in BOOLEAN, Apply(w, b),
         NEW n, n = Len(tx[w].results) + 1,
         NEW waits, waits[n] = b
  PROVE  Answered(w, waits, n)
<1> DEFINE t       == tx[w]
           op      == t.unit[n]
           known   == applied[op.id] # None
           outcome == ApplyOne(t.work, op, b)
           answer  == IF known THEN Answer(applied[op.id], TRUE) ELSE Answer(outcome.result, FALSE)
           view    == IF known THEN t.work ELSE outcome.db
<1>1. /\ t \in Transaction /\ t.unit \in Unit /\ t.phase = "applying"
      /\ t.results \in Seq([result : Result, duplicate : BOOLEAN])
      /\ Len(t.results) \in Nat /\ Len(t.unit) \in Nat /\ n \in 1..Len(t.unit)
      /\ DOMAIN t.results = 1..Len(t.results)
  <2>1. t.phase = "applying" /\ Len(t.results) < Len(t.unit)
    BY DEF Apply
  <2>2. /\ t \in Transaction /\ t.unit \in Unit
        /\ t.results \in Seq([result : Result, duplicate : BOOLEAN])
        /\ Len(t.results) \in Nat /\ Len(t.unit) \in Nat
        /\ DOMAIN t.results = 1..Len(t.results)
    BY <2>1, NextOp DEF IInv
  <2> QED
    BY <2>1, <2>2
<1>2. IsOp(op) /\ op.id \in OpIds
  BY <1>1, UnitFacts
<1>3. outcome.result \in Result
  <2>1. Sound(t.work)
    BY DEF IInv, TablesInv
  <2> HIDE DEF t, op
  <2> QED
    BY <1>2, <2>1, ApplyOneSound
<1> HIDE DEF outcome
<1>4. answer \in [result : Result, duplicate : BOOLEAN] /\ answer.duplicate = known
  BY <1>2, <1>3 DEF Answer, IInv, TypeOK
<1>5. /\ tx'[w].phase = t.phase /\ tx'[w].unit = t.unit
      /\ tx'[w].results = Append(t.results, answer) /\ tx'[w].work = view
  <2>1. CASE known
    <3>1. tx' = [tx EXCEPT ![w].results = Append(@, answer)]
      BY <2>1 DEF Apply, Prior
    <3> HIDE DEF answer
    <3> QED
      BY <1>1, <2>1, <3>1 DEF IInv, TypeOK, Transaction
  <2>2. CASE ~known
    <3>1. tx' = [tx EXCEPT ![w].results = Append(@, answer), ![w].work = view]
      BY <2>2 DEF Apply, Prior, outcome
    <3> HIDE DEF answer, view
    <3> QED
      BY <1>1, <3>1 DEF IInv, TypeOK, Transaction
  <2> QED
    BY <2>1, <2>2
<1>6. RunStep(applied, t.unit, waits, [db |-> t.work, answers |-> t.results], n)
        = [db |-> view, answers |-> Append(t.results, answer)]
  BY DEF RunStep, outcome
<1> HIDE DEF answer, view
<1>7. /\ Append(t.results, answer) \in Seq([result : Result, duplicate : BOOLEAN])
      /\ Len(Append(t.results, answer)) = n
      /\ DOMAIN Append(t.results, answer) = 1..n
      /\ \A i \in 1..Len(t.results) : Append(t.results, answer)[i] = t.results[i]
      /\ Append(t.results, answer)[n] = answer
  BY <1>1, <1>4, AppendProperties, LenProperties
<1>8. Len(t.results) = n - 1
  BY <1>1
<1> QED
  BY <1>1, <1>4, <1>5, <1>6, <1>7, <1>8 DEF Answered

(* A transaction that goes on while the record only grows has still run    *)
(* alone, as long as nothing it found unrecorded was recorded.             *)
LEMMA OthersRun ==
  ASSUME SInv, NEW w \in Worker, tx[w].phase = "applying", tx'[w] = tx[w], db' = db,
         \A id \in OpIds : applied[id] # None => applied'[id] = applied[id],
         Undisturbed(w)'
  PROVE  \E waits \in [DOMAIN tx'[w].unit -> BOOLEAN] : RanSoFar(w, waits)'
<1> DEFINE t == tx[w]
           k == Len(t.results)
<1>1. /\ t.unit \in Unit /\ k \in Nat /\ k \in 0..Len(t.unit) /\ DOMAIN t.results = 1..k
      /\ \A i \in 1..k : i \in DOMAIN t.unit /\ t.unit[i].id \in OpIds
  <2>1. t.unit \in Unit /\ k <= Len(t.unit)
    BY DEF SInv, IInv, TypeOK
  <2>2. k \in Nat /\ DOMAIN t.results = 1..k
    BY ResultsFacts DEF SInv, IInv
  <2> QED
    BY <2>1, <2>2, UnitFacts
<1>2. \A i \in 1..k : applied'[t.unit[i].id] = applied[t.unit[i].id]
  <2> TAKE i \in 1..k
  <2>1. CASE t.results[i].duplicate
    <3>1. applied[t.unit[i].id] # None
      BY <1>1, <2>1 DEF SInv, IInv, AnswerInv
    <3> QED
      BY <1>1, <3>1
  <2>2. CASE ~t.results[i].duplicate
    <3>1. applied'[t.unit[i].id] = None
      BY <1>1, <2>2 DEF Undisturbed
    <3> QED
      BY <1>1, <3>1
  <2> QED
    BY <2>1, <2>2
<1>3. Undisturbed(w)
  BY <1>1, <1>2 DEF Undisturbed
<1>4. PICK waits \in [DOMAIN t.unit -> BOOLEAN] : RanSoFar(w, waits)
  BY <1>3 DEF SInv, RunInv
<1>5. ASSUME NEW n \in 0..k
      PROVE  RunUnit(db', applied', SubSeq(t.unit, 1, n), waits)
               = RunUnit(db, applied, SubSeq(t.unit, 1, n), waits)
  <2>1. n \in 0..Len(t.unit) /\ \A i \in 1..n : i \in 1..k
    BY <1>1
  <2>2. \A i \in 1..n : applied'[t.unit[i].id] = applied[t.unit[i].id] /\ waits[i] = waits[i]
    BY <1>2, <2>1
  <2> HIDE DEF t
  <2> QED
    BY <1>1, <2>1, <2>2, RunLooks
<1>6. \A n \in 1..k : n \in 0..k /\ n - 1 \in 0..k
  BY <1>1
<1>7. k \in 0..k
  BY <1>1
<1>8. RanSoFar(w, waits)'
  BY <1>2, <1>4, <1>5, <1>6, <1>7 DEF RanSoFar
<1> QED
  BY <1>4, <1>8

(* The transaction that begins has run nothing.                            *)
LEMMA BeginRuns ==
  ASSUME SInv, NEW w \in Worker, NEW unit \in Unit, Begin(w, unit)
  PROVE  RunInv' /\ BlameInv'
<1> DEFINE t == [Idle EXCEPT !.phase = "applying", !.unit = unit, !.work = db]
<1>1. t.phase = "applying" /\ t.unit = unit /\ t.work = db /\ t.results = <<>>
  BY DEF Idle
<1> HIDE DEF t
<1>2. \A v \in Worker : tx'[v] = IF v = w THEN t ELSE tx[v]
  BY DEF SInv, IInv, TypeOK, Begin, t
<1>3. \A v \in Worker : v # w => tx'[v].phase # "applying"
  BY <1>2, WorkerAssumption DEF SInv, IInv, LockInv, Begin
<1>4. DOMAIN t.results = {} /\ Len(t.results) = 0 /\ 1..0 = {}
  BY <1>1
<1>5. RunInv'
  <2> DEFINE waits == [i \in DOMAIN unit |-> FALSE]
  <2>1. RunUnit(db, applied, SubSeq(unit, 1, 0), waits) = [db |-> db, answers |-> <<>>]
    BY RunNone DEF RunStart
  <2>2. waits \in [DOMAIN unit -> BOOLEAN]
    OBVIOUS
  <2> HIDE DEF waits
  <2>3. RanSoFar(w, waits)'
    BY <1>1, <1>2, <1>4, <2>1 DEF RanSoFar, Begin
  <2> QED
    BY <1>1, <1>2, <1>3, <2>2, <2>3 DEF RunInv
<1>6. BlameInv'
  <2>1. Undisturbed(w)'
    BY <1>2, <1>4 DEF Undisturbed
  <2> QED
    BY <1>1, <1>2, <1>3, <2>1 DEF SInv, BlameInv, HasMalformed
<1> QED
  BY <1>5, <1>6

(* One op more has run, as it would have at once.                          *)
LEMMA ApplyRuns ==
  ASSUME SInv, NEW w \in Worker, NEW b \in BOOLEAN, Apply(w, b)
  PROVE  RunInv' /\ BlameInv'
<1> DEFINE t == tx[w]
           n == Len(t.results) + 1
<1>1. /\ db' = db /\ applied' = applied /\ t.phase = "applying" /\ lock = w
      /\ \A v \in Worker : v # w => tx'[v] = tx[v] /\ tx'[v].phase # "applying"
  <2>1. t.phase = "applying" /\ lock = w
    BY DEF Apply, SInv, IInv, LockInv
  <2>2. \A v \in Worker : v # w => tx[v].phase # "applying"
    BY <2>1 DEF SInv, IInv, LockInv
  <2>3. \A v \in Worker : v # w => tx'[v] = tx[v]
    BY DEF Apply, SInv, IInv, TypeOK
  <2> QED
    BY <2>1, <2>2, <2>3 DEF Apply
<1>2. ASSUME NEW waits, waits[n] = b PROVE Answered(w, waits, n)
  <2>1. IInv /\ n = Len(tx[w].results) + 1
    BY DEF SInv
  <2> HIDE DEF n
  <2> QED
    BY <1>2, <2>1, ApplyEffect
<1>3. /\ n \in 1..Len(t.unit) /\ t.unit \in Unit
      /\ tx'[w].phase = "applying" /\ tx'[w].unit = t.unit
      /\ DOMAIN t.results = 1..(n - 1) /\ DOMAIN tx'[w].results = 1..n
      /\ Len(tx'[w].results) = n
      /\ \A i \in 1..(n - 1) : tx'[w].results[i] = t.results[i]
      /\ tx'[w].results[n].duplicate <=> applied[t.unit[n].id] # None
  <2>1. [i \in {n} |-> b][n] = b
    OBVIOUS
  <2> HIDE DEF n
  <2> QED
    BY <1>2, <2>1 DEF Answered
<1>4. Undisturbed(w)' <=> Undisturbed(w)
  <2>1. DOMAIN tx'[w].results = DOMAIN t.results \cup {n} /\ n \notin DOMAIN t.results
    BY <1>3
  <2>2. \A i \in DOMAIN t.results : tx'[w].results[i] = t.results[i]
    BY <1>3
  <2>3. ~tx'[w].results[n].duplicate => applied[t.unit[n].id] = None
    BY <1>3
  <2> HIDE DEF n
  <2> QED
    BY <1>1, <1>3, <2>1, <2>2, <2>3 DEF Undisturbed
<1>5. RunInv'
  <2> SUFFICES ASSUME Undisturbed(w)
               PROVE  \E waits \in [DOMAIN t.unit -> BOOLEAN] : RanSoFar(w, waits)'
    BY <1>1, <1>3, <1>4 DEF RunInv
  <2>1. PICK old \in [DOMAIN t.unit -> BOOLEAN] : RanSoFar(w, old)
    BY <1>1 DEF SInv, RunInv
  <2>2. n \in DOMAIN t.unit /\ n \in Nat /\ Len(t.results) = n - 1 /\ n - 1 \in Nat
    BY <1>3, UnitFacts, ResultsFacts DEF SInv, IInv
  <2>3. PICK waits \in [DOMAIN t.unit -> BOOLEAN] :
          waits[n] = b /\ \A i \in 1..(n - 1) : waits[i] = old[i]
    <3> DEFINE new == [old EXCEPT ![n] = b]
    <3>1. DOMAIN old = DOMAIN t.unit /\ \A i \in 1..(n - 1) : i # n
      BY <2>1, <2>2
    <3> HIDE DEF n
    <3>2. new \in [DOMAIN t.unit -> BOOLEAN] /\ new[n] = b /\ \A i \in 1..(n - 1) : new[i] = old[i]
      BY <2>1, <2>2, <3>1
    <3> QED
      BY <3>2
  <2> DEFINE before(m) == RunUnit(db, applied, SubSeq(t.unit, 1, m), old)
             after(m)  == RunUnit(db, applied, SubSeq(t.unit, 1, m), waits)
  <2>4. ASSUME NEW m \in 0..(n - 1) PROVE after(m) = before(m)
    <3>1. m \in 0..Len(t.unit) /\ \A i \in 1..m : i \in 1..(n - 1)
      BY <1>3, <2>2
    <3>2. \A i \in 1..m : applied[t.unit[i].id] = applied[t.unit[i].id] /\ waits[i] = old[i]
      BY <2>3, <3>1
    <3> HIDE DEF t, n
    <3> QED
      BY <1>3, <3>1, <3>2, RunLooks
  <2>5. before(n - 1) = [db |-> t.work, answers |-> t.results]
    BY <2>1, <2>2 DEF RanSoFar
  <2>6. after(n - 1) = [db |-> t.work, answers |-> t.results]
    BY <2>2, <2>4, <2>5
  <2>7. after(n) = [db |-> tx'[w].work, answers |-> tx'[w].results]
    <3>1. after(n) = RunStep(applied, t.unit, waits, after(n - 1), n)
      <4> HIDE DEF t, n
      <4> QED
        BY <1>3, RunNext
    <3> HIDE DEF n
    <3> QED
      BY <1>2, <2>3, <2>6, <3>1 DEF Answered
  <2>8. ASSUME NEW i \in 1..n
        PROVE  ~ /\ t.unit[i].id \in Malformed /\ applied[t.unit[i].id] = None
                 /\ ComesToWrite(after(i - 1).db, t.unit[i], waits[i])
    <3>1. CASE i = n
      <4>1. ~Refuses(t, b) /\ Len(t.results) < Len(t.unit)
        BY DEF Apply
      <4>2. after(i - 1).db = t.work
        BY <2>6, <3>1
      <4> QED
        BY <2>3, <3>1, <4>1, <4>2 DEF Refuses, Prior
    <3>2. CASE i # n
      <4>1. i \in 1..(n - 1) /\ i - 1 \in 0..(n - 1) /\ i \in 1..Len(t.results)
        BY <2>2, <3>2
      <4>2. ~ /\ t.unit[i].id \in Malformed /\ applied[t.unit[i].id] = None
              /\ ComesToWrite(before(i - 1).db, t.unit[i], old[i])
        BY <2>1, <4>1 DEF RanSoFar
      <4>3. after(i - 1) = before(i - 1) /\ waits[i] = old[i]
        BY <2>3, <2>4, <4>1
      <4> QED
        BY <4>2, <4>3
    <3> QED
      BY <3>1, <3>2
  <2>9. RanSoFar(w, waits)'
    <3> HIDE DEF n, t
    <3> QED
      BY <1>1, <1>3, <2>7, <2>8 DEF RanSoFar
  <2> QED
    BY <2>3, <2>9
<1>6. BlameInv'
  <2>1. tx'[w].phase = "applying" /\ tx'[w].unit = t.unit
    BY <1>3
  <2> HIDE DEF n
  <2> QED
    BY <1>1, <1>4, <2>1 DEF SInv, BlameInv, HasMalformed
<1> QED
  BY <1>5, <1>6

(* A statement is only refused of a malformed op.                          *)
LEMMA ThrowRuns ==
  ASSUME SInv, NEW w \in Worker, NEW b \in BOOLEAN, Throw(w, b)
  PROVE  RunInv' /\ BlameInv'
<1> DEFINE t == [Idle EXCEPT !.phase = "failed", !.unit = tx[w].unit]
<1>1. t.phase = "failed" /\ t.unit = tx[w].unit
  BY DEF Idle
<1>2. \A v \in Worker : tx'[v] = IF v = w THEN t ELSE tx[v]
  BY DEF SInv, IInv, TypeOK, Throw
<1> HIDE DEF t
<1>3. tx[w].phase = "applying" /\ lock = w
  BY DEF SInv, IInv, LockInv, Throw
<1>4. \A v \in Worker : tx'[v].phase # "applying"
  BY <1>1, <1>2, <1>3 DEF SInv, IInv, LockInv
<1>5. HasMalformed(tx[w].unit)
  <2>1. CASE Refuses(tx[w], b)
    <3>1. Len(tx[w].results) + 1 \in DOMAIN tx[w].unit
      BY <1>3, <2>1, NextOp DEF SInv, IInv, Refuses
    <3> QED
      BY <2>1, <3>1 DEF Refuses, HasMalformed
  <2>2. CASE Clashes(tx[w])
    <3>1. DOMAIN tx[w].results = DOMAIN tx[w].unit
      <4>1. tx[w].unit \in Unit /\ Len(tx[w].results) = Len(tx[w].unit)
        BY <1>3, <2>2 DEF SInv, IInv, TypeOK, Clashes
      <4> QED
        BY <4>1, UnitFacts, ResultsFacts DEF SInv, IInv
    <3>2. ~Undisturbed(w)
      BY <2>2, <3>1 DEF Clashes, Undisturbed
    <3> QED
      BY <1>3, <3>2 DEF SInv, BlameInv
  <2> QED
    BY <2>1, <2>2 DEF Throw
<1>6. BlameInv'
  BY <1>1, <1>2, <1>4, <1>5 DEF SInv, BlameInv, HasMalformed
<1> QED
  BY <1>4, <1>6 DEF RunInv

(* An error remembered disturbs copies of its own unit only.               *)
LEMMA RememberErrorRuns ==
  ASSUME SInv, NEW w \in Worker, RememberError(w)
  PROVE  RunInv' /\ BlameInv'
<1> DEFINE t  == tx[w]
           n  == Len(t.results) + 1
           id == t.unit[n].id
<1>1. t.phase = "failed" /\ t.unit \in Unit /\ n \in DOMAIN t.unit /\ id \in OpIds
  <2>1. t.phase = "failed" /\ Len(t.results) < Len(t.unit)
    BY DEF SInv, IInv, TypeOK, RememberError
  <2>2. t.unit \in Unit /\ n \in DOMAIN t.unit
    BY <2>1, NextOp DEF SInv, IInv
  <2> QED
    BY <2>1, <2>2, UnitFacts
<1>2. HasMalformed(t.unit)
  BY <1>1 DEF SInv, BlameInv
<1>3. /\ db' = db
      /\ \A k \in OpIds : (k # id \/ applied[k] # None) => applied'[k] = applied[k]
  <2>1. db' = db /\ applied' = [applied EXCEPT ![id] = ErrorUnlessKnown(id)]
    BY DEF RememberError
  <2> HIDE DEF id
  <2> QED
    BY <1>1, <2>1 DEF SInv, IInv, TypeOK, ErrorUnlessKnown
<1>4. \A v \in Worker : v # w => tx'[v] = tx[v]
  BY DEF SInv, IInv, TypeOK, RememberError
<1>5. tx'[w].phase \in {"idle", "failed"} /\ (tx'[w].phase = "failed" => tx'[w].unit = t.unit)
  <2> DEFINE longer == [t EXCEPT !.results = Append(@, Answer(ErrorResult, FALSE))]
  <2>1. tx'[w] = Idle \/ tx'[w] = longer
    BY DEF SInv, IInv, TypeOK, RememberError
  <2>2. longer.phase = "failed" /\ longer.unit = t.unit
    BY <1>1 DEF SInv, IInv, TypeOK, Transaction
  <2> HIDE DEF longer
  <2> QED
    BY <2>1, <2>2, IdleTyped
<1> HIDE DEF n, id, t
<1>6. ASSUME NEW v \in Worker, v # w, tx[v].phase = "applying", ~Undisturbed(v)'
      PROVE  HasMalformed(tx[v].unit)
  <2>1. PICK i \in DOMAIN tx[v].results :
          ~tx[v].results[i].duplicate /\ applied'[tx[v].unit[i].id] # None
    BY <1>4, <1>6 DEF Undisturbed
  <2>2. tx[v].unit \in Unit /\ i \in DOMAIN tx[v].unit
    <3>1. tx[v].unit \in Unit /\ Len(tx[v].results) <= Len(tx[v].unit)
      BY <1>6 DEF SInv, IInv, TypeOK
    <3> QED
      BY <2>1, <3>1, UnitFacts, ResultsFacts DEF SInv, IInv
  <2>3. tx[v].unit[i].id \in OpIds
    BY <2>2, UnitFacts
  <2>4. CASE applied[tx[v].unit[i].id] # None
    <3>1. ~Undisturbed(v)
      BY <2>1, <2>4 DEF Undisturbed
    <3> QED
      BY <1>6, <3>1 DEF SInv, BlameInv
  <2>5. CASE applied[tx[v].unit[i].id] = None
    <3>1. tx[v].unit[i].id = t.unit[n].id
      BY <1>3, <2>1, <2>3, <2>5 DEF id
    <3>2. tx[v].unit = t.unit
      BY <1>1, <2>2, <3>1, UnitFacts
    <3> QED
      BY <1>2, <3>2
  <2> QED
    BY <2>4, <2>5
<1>7. RunInv'
  <2> SUFFICES ASSUME NEW v \in Worker, tx'[v].phase = "applying", Undisturbed(v)'
               PROVE  \E waits \in [DOMAIN tx'[v].unit -> BOOLEAN] : RanSoFar(v, waits)'
    BY DEF RunInv
  <2>1. v # w
    BY <1>5
  <2>2. tx'[v] = tx[v] /\ tx[v].phase = "applying"
    BY <1>4, <2>1
  <2> QED
    BY <1>3, <2>2, OthersRun
<1>8. BlameInv'
  <2> SUFFICES ASSUME NEW v \in Worker
               PROVE  /\ tx'[v].phase = "failed" => HasMalformed(tx'[v].unit)
                      /\ tx'[v].phase = "applying" /\ ~Undisturbed(v)' => HasMalformed(tx'[v].unit)
    BY DEF BlameInv, HasMalformed
  <2>1. CASE v = w
    BY <1>2, <1>5, <2>1
  <2>2. CASE v # w
    BY <1>4, <1>6, <2>2 DEF SInv, BlameInv
  <2> QED
    BY <2>1, <2>2
<1> QED
  BY <1>7, <1>8

(* A transaction that ends leaves what others have run as it was.          *)
LEMMA EndRuns ==
  ASSUME SInv, NEW w \in Worker, tx' = [tx EXCEPT ![w] = Idle],
         lock = w \/ UNCHANGED <<db, applied>>
  PROVE  RunInv' /\ BlameInv'
<1>1. \A v \in Worker : tx'[v] = IF v = w THEN Idle ELSE tx[v]
  BY DEF SInv, IInv, TypeOK
<1>2. CASE lock = w
  <2>1. \A v \in Worker : tx'[v].phase # "applying"
    BY <1>1, <1>2, IdleTyped DEF SInv, IInv, LockInv
  <2>2. BlameInv'
    BY <1>1, <2>1, IdleTyped DEF SInv, BlameInv, HasMalformed
  <2> QED
    BY <2>1, <2>2 DEF RunInv
<1>3. CASE UNCHANGED <<db, applied>>
  <2>1. \A v \in Worker : Undisturbed(v)' => v = w \/ Undisturbed(v)
    BY <1>1, <1>3 DEF Undisturbed
  <2>2. RunInv'
    <3> SUFFICES ASSUME NEW v \in Worker, tx'[v].phase = "applying", Undisturbed(v)'
                 PROVE  \E waits \in [DOMAIN tx'[v].unit -> BOOLEAN] : RanSoFar(v, waits)'
      BY DEF RunInv
    <3>1. tx'[v] = tx[v]
      BY <1>1, IdleTyped
    <3> QED
      BY <1>3, <3>1, OthersRun
  <2>3. \A v \in Worker : v # w => (Undisturbed(v)' <=> Undisturbed(v))
    BY <1>1, <1>3 DEF Undisturbed
  <2>4. BlameInv'
    BY <1>1, <2>3, IdleTyped DEF SInv, BlameInv, HasMalformed
  <2> QED
    BY <2>2, <2>4
<1> QED
  BY <1>2, <1>3

(* The invariant is inductive.                                             *)
LEMMA SStepKeeps == SInv /\ [Next]_vars => SInv'
<1> SUFFICES ASSUME SInv, [Next]_vars PROVE SInv'
  OBVIOUS
<1>1. IInv'
  BY StepKeeps DEF SInv
<1>2. CASE UNCHANGED vars
  BY <1>1, <1>2 DEF vars, SInv, RunInv, BlameInv, Undisturbed, RanSoFar, HasMalformed
<1>3. ASSUME NEW w \in Worker, NEW unit \in Unit, Begin(w, unit) PROVE RunInv' /\ BlameInv'
  BY <1>3, BeginRuns
<1>4. ASSUME NEW w \in Worker, NEW b \in BOOLEAN, Apply(w, b) PROVE RunInv' /\ BlameInv'
  BY <1>4, ApplyRuns
<1>5. ASSUME NEW w \in Worker, NEW b \in BOOLEAN, Throw(w, b) PROVE RunInv' /\ BlameInv'
  BY <1>5, ThrowRuns
<1>6. ASSUME NEW w \in Worker, RememberError(w) PROVE RunInv' /\ BlameInv'
  BY <1>6, RememberErrorRuns
<1>7. ASSUME NEW w \in Worker, Commit(w) \/ Rollback(w) \/ Drop(w) PROVE RunInv' /\ BlameInv'
  <2>1. tx' = [tx EXCEPT ![w] = Idle]
    BY <1>7 DEF Commit, Rollback, Drop
  <2>2. lock = w \/ UNCHANGED <<db, applied>>
    BY <1>7 DEF Commit, Rollback, Drop, SInv, IInv, LockInv
  <2> QED
    BY <2>1, <2>2, EndRuns
<1> QED
  BY <1>1, <1>2, <1>3, <1>4, <1>5, <1>6, <1>7 DEF Next, SInv

-----------------------------------------------------------------------------
(* The refinement, step by step.                                           *)

(* A commit is the unit, performed alone and at once.                      *)
LEMMA CommitPerforms ==
  ASSUME SInv, NEW w \in Worker, Commit(w)
  PROVE  \E waits \in [DOMAIN tx[w].unit -> BOOLEAN] : Service!Perform(tx[w].unit, waits)
<1> DEFINE t == tx[w]
<1>1. /\ t.phase = "applying" /\ t.unit \in Unit /\ Len(t.results) = Len(t.unit)
      /\ ~RollsBack(t.unit, t.results) /\ ~Clashes(t)
      /\ db' = t.work /\ applied' = Recorded(applied, t.unit, t.results)
  BY DEF SInv, IInv, TypeOK, Commit
<1>2. DOMAIN t.unit = 1..Len(t.unit) /\ DOMAIN t.results = DOMAIN t.unit
  BY <1>1, UnitFacts, ResultsFacts DEF SInv, IInv
<1>3. Undisturbed(w)
  BY <1>1, <1>2 DEF Undisturbed, Clashes
<1>4. PICK waits \in [DOMAIN t.unit -> BOOLEAN] : RanSoFar(w, waits)
  BY <1>1, <1>3 DEF SInv, RunInv
<1>5. RunUnit(db, applied, t.unit, waits) = [db |-> t.work, answers |-> t.results]
  BY <1>1, <1>4, WholeUnit DEF RanSoFar
<1>6. ~Service!Fails(t.unit, waits)
  BY <1>1, <1>2, <1>4 DEF RanSoFar, Service!Fails
<1> HIDE DEF t
<1>7. Service!Perform(t.unit, waits)
  BY <1>1, <1>5, <1>6 DEF Service!Perform
<1> QED
  BY <1>4, <1>7 DEF t

(* An error is remembered where nothing was, or nothing happens.           *)
LEMMA ErrorRemembered ==
  ASSUME SInv, NEW w \in Worker, RememberError(w)
  PROVE  Service!RememberError(tx[w].unit) \/ UNCHANGED <<db, applied>>
<1> DEFINE n  == Len(tx[w].results) + 1
           id == tx[w].unit[n].id
<1>1. tx[w].phase = "failed" /\ tx[w].unit \in Unit /\ n \in DOMAIN tx[w].unit /\ id \in OpIds
  <2>1. tx[w].phase = "failed" /\ Len(tx[w].results) < Len(tx[w].unit)
    BY DEF SInv, IInv, TypeOK, RememberError
  <2>2. tx[w].unit \in Unit /\ n \in DOMAIN tx[w].unit
    BY <2>1, NextOp DEF SInv, IInv
  <2> QED
    BY <2>1, <2>2, UnitFacts
<1>2. HasMalformed(tx[w].unit)
  BY <1>1 DEF SInv, BlameInv
<1>3. db' = db /\ applied' = [applied EXCEPT ![id] = ErrorUnlessKnown(id)]
  BY DEF RememberError
<1> HIDE DEF n
<1>4. CASE applied[id] = None
  BY <1>1, <1>2, <1>3, <1>4 DEF Service!RememberError, HasMalformed, ErrorUnlessKnown
<1>5. CASE applied[id] # None
  BY <1>1, <1>3, <1>5 DEF SInv, IInv, TypeOK, ErrorUnlessKnown
<1> QED
  BY <1>4, <1>5

(* Every other step is one the service does not see.                       *)
LEMMA StepImplements == SInv /\ [Next]_vars => [Service!ServiceNext]_<<db, applied>>
<1> SUFFICES ASSUME SInv, [Next]_vars
             PROVE  Service!ServiceNext \/ UNCHANGED <<db, applied>>
  OBVIOUS
<1>1. ASSUME NEW w \in Worker, Commit(w) PROVE Service!ServiceNext
  <2>1. tx[w].unit \in Unit
    BY <1>1 DEF SInv, IInv, TypeOK, Commit
  <2> QED
    BY <1>1, <2>1, CommitPerforms DEF Service!ServiceNext
<1>2. ASSUME NEW w \in Worker, RememberError(w)
      PROVE  Service!ServiceNext \/ UNCHANGED <<db, applied>>
  <2>1. tx[w].unit \in Unit
    BY <1>2 DEF SInv, IInv, TypeOK, RememberError
  <2> QED
    BY <1>2, <2>1, ErrorRemembered DEF Service!ServiceNext
<1> QED
  BY <1>1, <1>2 DEF Next, Begin, Apply, Throw, Rollback, Drop, vars

(* The invariant holds of a project that is empty and workers that are     *)
(* idle.                                                                   *)
LEMMA InitSInv == Init => SInv
<1> SUFFICES ASSUME Init PROVE SInv
  OBVIOUS
<1>1. \A w \in Worker : tx[w].phase = "idle"
  BY IdleTyped DEF Init
<1> QED
  BY <1>1, InitIInv DEF SInv, RunInv, BlameInv

(* Whatever the interleaving, and whichever workers are lost, the tables   *)
(* and the record change as if units ran alone, whole and at once          *)
(* (applyUnit's transaction implements the write path's promise).          *)
THEOREM Implements == Spec => ImplementsService
<1>1. Init => SInv /\ Service!ServiceInit
  <2>1. Init => Service!ServiceInit
    BY DEF Init, OpIds, Service!ServiceInit, Service!OpIds
  <2> QED
    BY <2>1, InitSInv
<1>2. SInv /\ [Next]_vars => SInv'
  BY SStepKeeps
<1>3. SInv /\ [Next]_vars => [Service!ServiceNext]_<<db, applied>>
  BY StepImplements
<1> QED
  BY <1>1, <1>2, <1>3, PTL DEF Spec, ImplementsService, Service!ServiceSpec

-----------------------------------------------------------------------------
(* What a write does to the feed.                                          *)

(* A change of e that d does not have is about the key (uid, n).           *)
NewlyNames(d, e, uid, n) ==
  \E s \in (Len(d.feed) + 1)..Len(e.feed) : e.feed[s].uid = uid /\ e.feed[s].trail = n

(* A row and what is derived for it.                                       *)
SameRow(d, e, u) == e.rows[u] = d.rows[u] /\ (u \in Item => e.calc[u] = d.calc[u])

(* e is d some writes later: the feed is longer, whatever differs is named *)
(* by a new change, and no item is gone.                                   *)
Grows(d, e) ==
  /\ Len(d.feed) \in Nat /\ Len(e.feed) \in Nat /\ Len(d.feed) <= Len(e.feed)
  /\ \A s \in 1..Len(d.feed) : e.feed[s] = d.feed[s]
  /\ \A u \in Uid : ~SameRow(d, e, u) => NewlyNames(d, e, u, 0)
  /\ \A i \in Item : \A n \in DOMAIN e.trail[i] :
       n \notin DOMAIN d.trail[i] => NewlyNames(d, e, i, n)
  /\ \A i \in Item : d.rows[i] # None => e.rows[i] # None

(* The item a child is made in.                                            *)
MadeIn(u, i) ==
  \E unit \in Unit : \E k \in DOMAIN unit :
    unit[k].op = "create" /\ unit[k].uid = u /\ unit[k].item = i

(* A child is only ever made in one item: a uid is made up where its item  *)
(* is, and a plugin that makes a note again makes it in the same item.     *)
OneHome == \A u \in Child : \A i, j \in Item : MadeIn(u, i) /\ MadeIn(u, j) => i = j

Home(u) == CHOOSE i \in Item : MadeIn(u, i)

(* Children are where they are made, every row that is there and every     *)
(* item that is named is named as itself, and no child before its item.    *)
Orderly(d) ==
  /\ \A u \in Child : d.rows[u] # None => d.rows[u].item = Home(u)
  /\ \A u \in Uid : d.rows[u] # None =>
       \E s \in 1..Len(d.feed) : d.feed[s].uid = u /\ d.feed[s].trail = 0
  /\ \A s \in 1..Len(d.feed) : d.feed[s].uid \in Item => d.rows[d.feed[s].uid] # None
  /\ \A s \in 1..Len(d.feed) : d.feed[s].uid \in Child =>
       /\ d.feed[s].trail = 0
       /\ Home(d.feed[s].uid) \in Item
       /\ \E p \in 1..(s - 1) : d.feed[p].uid = Home(d.feed[s].uid) /\ d.feed[p].trail = 0

(* What every write does.                                                  *)
Follows(d, e) == Grows(d, e) /\ (OneHome /\ Orderly(d) => Orderly(e))

(* Writes follow each other.                                               *)
LEMMA GrowsOn ==
  ASSUME NEW d, NEW e, NEW f, Grows(d, e), Grows(e, f)
  PROVE  Grows(d, f)
<1>1. /\ Len(d.feed) \in Nat /\ Len(e.feed) \in Nat /\ Len(f.feed) \in Nat
      /\ Len(d.feed) <= Len(e.feed) /\ Len(e.feed) <= Len(f.feed)
  BY DEF Grows
<1>2. \A s \in 1..Len(d.feed) : f.feed[s] = d.feed[s]
  BY <1>1 DEF Grows
<1>3. ASSUME NEW u, NEW n, NewlyNames(d, e, u, n) PROVE NewlyNames(d, f, u, n)
  <2>1. PICK s \in (Len(d.feed) + 1)..Len(e.feed) : e.feed[s].uid = u /\ e.feed[s].trail = n
    BY <1>3 DEF NewlyNames
  <2>2. s \in 1..Len(e.feed) /\ s \in (Len(d.feed) + 1)..Len(f.feed)
    BY <1>1
  <2>3. f.feed[s] = e.feed[s]
    BY <2>2 DEF Grows
  <2> QED
    BY <2>1, <2>2, <2>3 DEF NewlyNames
<1>4. ASSUME NEW u, NEW n, NewlyNames(e, f, u, n) PROVE NewlyNames(d, f, u, n)
  BY <1>1, <1>4 DEF NewlyNames
<1>5. ASSUME NEW u \in Uid, ~SameRow(d, f, u) PROVE NewlyNames(d, f, u, 0)
  <2>1. ~SameRow(d, e, u) \/ ~SameRow(e, f, u)
    BY <1>5 DEF SameRow
  <2> QED
    BY <2>1, <1>3, <1>4 DEF Grows
<1>6. ASSUME NEW i \in Item, NEW n \in DOMAIN f.trail[i], n \notin DOMAIN d.trail[i]
      PROVE  NewlyNames(d, f, i, n)
  BY <1>3, <1>4, <1>6 DEF Grows
<1>7. \A i \in Item : d.rows[i] # None => f.rows[i] # None
  BY DEF Grows
<1> QED
  BY <1>1, <1>2, <1>5, <1>6, <1>7 DEF Grows

LEMMA FollowsOn ==
  ASSUME NEW d, NEW e, NEW f, Follows(d, e), Follows(e, f)
  PROVE  Follows(d, f)
  BY GrowsOn DEF Follows

(* Tables that differ in tombstones only.                                  *)
LEMMA SameFollows ==
  ASSUME NEW d \in Db, NEW e,
         e.rows = d.rows, e.feed = d.feed, e.calc = d.calc, e.trail = d.trail
  PROVE  Follows(d, e)
<1>1. Len(d.feed) \in Nat
  BY FeedIsSeq
<1>2. Grows(d, e)
  BY <1>1 DEF Grows, SameRow
<1>3. Orderly(d) => Orderly(e)
  BY DEF Orderly
<1> QED
  BY <1>2, <1>3 DEF Follows

(* e is d with one change more, about uid's row (n = 0) or its history.    *)
OneChange(d, e, uid, n, deleted) ==
  /\ FeedAppended(e, d, uid, n, deleted)
  /\ \A u \in Uid : (n = 0 => u # uid) => SameRow(d, e, u)
  /\ \A i \in Item : \A k \in DOMAIN e.trail[i] : k \notin DOMAIN d.trail[i] => i = uid /\ k = n

(* A change that is about an item that is there, or about a child in its   *)
(* item, keeps the feed's promises (bump).                                 *)
LEMMA OneChangeFollows ==
  ASSUME NEW d \in Db, NEW e, NEW uid \in Uid, NEW n \in Nat, NEW deleted,
         OneChange(d, e, uid, n, deleted),
         uid \in Item => e.rows[uid] # None,
         uid \in Child => /\ n = 0
                          /\ OneHome /\ Orderly(d) =>
                               /\ Home(uid) \in Item /\ d.rows[Home(uid)] # None
                               /\ e.rows[uid] # None => e.rows[uid].item = Home(uid)
  PROVE  Follows(d, e)
<1> DEFINE k == Len(d.feed)
<1>1. k \in Nat /\ Len(e.feed) = k + 1 /\ (\A s \in 1..k : e.feed[s] = d.feed[s])
      /\ e.feed[k + 1].uid = uid /\ e.feed[k + 1].trail = n
  BY DEF OneChange, FeedAppended
<1>2. NewlyNames(d, e, uid, n)
  BY <1>1 DEF NewlyNames
<1>3. \A i \in Item : d.rows[i] # None => e.rows[i] # None
  BY DEF OneChange, SameRow, Uid
<1>4. Grows(d, e)
  <2>1. \A u \in Uid : ~SameRow(d, e, u) => NewlyNames(d, e, u, 0)
    BY <1>2 DEF OneChange
  <2>2. \A i \in Item : \A m \in DOMAIN e.trail[i] :
          m \notin DOMAIN d.trail[i] => NewlyNames(d, e, i, m)
    BY <1>2 DEF OneChange
  <2> QED
    BY <1>1, <1>3, <2>1, <2>2 DEF Grows
<1>5. ASSUME OneHome, Orderly(d) PROVE Orderly(e)
  <2>1. \A u \in Uid : (n = 0 => u # uid) => e.rows[u] = d.rows[u]
    BY DEF OneChange, SameRow
  <2>2. \A u \in Child : e.rows[u] # None => e.rows[u].item = Home(u)
    BY <1>5, <2>1 DEF Orderly, Uid
  <2>3. ASSUME NEW u \in Uid, e.rows[u] # None
        PROVE  \E s \in 1..Len(e.feed) : e.feed[s].uid = u /\ e.feed[s].trail = 0
    <3>1. CASE n = 0 /\ u = uid
      BY <1>1, <3>1
    <3>2. CASE ~(n = 0 /\ u = uid)
      <4>1. PICK s \in 1..k : d.feed[s].uid = u /\ d.feed[s].trail = 0
        BY <1>5, <2>1, <2>3, <3>2 DEF Orderly
      <4> QED
        BY <1>1, <4>1
    <3> QED
      BY <3>1, <3>2
  <2>4. ASSUME NEW s \in 1..Len(e.feed), e.feed[s].uid \in Item
        PROVE  e.rows[e.feed[s].uid] # None
    <3>1. CASE s = k + 1
      BY <1>1, <2>4, <3>1
    <3>2. CASE s # k + 1
      <4>1. s \in 1..k /\ e.feed[s] = d.feed[s]
        BY <1>1, <3>2
      <4> QED
        BY <1>3, <1>5, <2>4, <4>1 DEF Orderly
    <3> QED
      BY <3>1, <3>2
  <2>5. ASSUME NEW s \in 1..Len(e.feed), e.feed[s].uid \in Child
        PROVE  /\ e.feed[s].trail = 0
               /\ Home(e.feed[s].uid) \in Item
               /\ \E p \in 1..(s - 1) : e.feed[p].uid = Home(e.feed[s].uid) /\ e.feed[p].trail = 0
    <3>1. CASE s = k + 1
      <4>1. n = 0 /\ Home(uid) \in Item /\ d.rows[Home(uid)] # None
        BY <1>1, <1>5, <2>5, <3>1
      <4>2. PICK p \in 1..k : d.feed[p].uid = Home(uid) /\ d.feed[p].trail = 0
        BY <1>5, <4>1 DEF Orderly, Uid
      <4>3. e.feed[s].uid = uid /\ e.feed[s].trail = n
        BY <1>1, <3>1
      <4>4. p \in 1..(s - 1) /\ e.feed[p] = d.feed[p]
        BY <1>1, <3>1
      <4> QED
        BY <4>1, <4>2, <4>3, <4>4
    <3>2. CASE s # k + 1
      <4>1. s \in 1..k /\ e.feed[s] = d.feed[s]
        BY <1>1, <3>2
      <4>2. /\ d.feed[s].trail = 0 /\ Home(d.feed[s].uid) \in Item
            /\ \E p \in 1..(s - 1) : d.feed[p].uid = Home(d.feed[s].uid) /\ d.feed[p].trail = 0
        BY <1>5, <2>5, <4>1 DEF Orderly
      <4>3. \A p \in 1..(s - 1) : e.feed[p] = d.feed[p]
        BY <1>1, <4>1
      <4> QED
        BY <4>1, <4>2, <4>3
    <3> QED
      BY <3>1, <3>2
  <2> QED
    BY <2>2, <2>3, <2>4, <2>5 DEF Orderly
<1> QED
  BY <1>4, <1>5 DEF Follows

(* recalc follows, of an item that is there.                               *)
LEMMA AfterTaskFollows ==
  ASSUME NEW d \in Db, NEW uid \in Uid, NEW item \in Item, d.rows[item] # None
  PROVE  Follows(d, AfterTask(d, uid, item))
<1> DEFINE c == DeriveCalcStatus(TaskStatuses(d, item))
           e == [d EXCEPT !.calc[item] = c]
           b == Bump(e, item, 0, FALSE)
<1>1. c \in Statuses \cup {NoStatus} /\ item \in Uid
  BY DerivedIsStatus DEF Uid
<1> HIDE DEF c
<1>2. /\ e \in Db /\ e.rows = d.rows /\ e.feed = d.feed /\ e.trail = d.trail
      /\ e.calc = [d.calc EXCEPT ![item] = c]
  BY <1>1 DEF Db
<1>3. AfterTask(d, uid, item) \in {d, b}
  BY DEF AfterTask, Recalc, c
<1> HIDE DEF e
<1>4. IsBump(b, e, item, 0, FALSE)
  BY <1>1, <1>2, BumpAppends
<1> HIDE DEF b
<1>5. OneChange(d, b, item, 0, FALSE)
  <2>1. FeedAppended(b, d, item, 0, FALSE)
    BY <1>2, <1>4 DEF IsBump, FeedAppended
  <2>2. \A u \in Uid : u # item => SameRow(d, b, u)
    BY <1>2, <1>4 DEF IsBump, SameRow, Db
  <2>3. b.trail = d.trail
    BY <1>2, <1>4 DEF IsBump
  <2> QED
    BY <2>1, <2>2, <2>3 DEF OneChange
<1>6. Follows(d, b)
  <2>1. b.rows[item] # None /\ item \notin Child
    BY <1>2, <1>4, UidAssumption DEF IsBump
  <2> QED
    BY <1>1, <1>5, <2>1, OneChangeFollows
<1>7. Follows(d, d)
  BY SameFollows
<1> QED
  BY <1>3, <1>6, <1>7

(* So does a write of one row, and the recomputation after it.             *)
LEMMA PutFollows ==
  ASSUME NEW d \in Db, NEW e \in Db, NEW uid \in Uid, NEW row \in Row \cup {None},
         NEW deleted \in BOOLEAN,
         e.rows = [d.rows EXCEPT ![uid] = row], e.calc = d.calc, e.trail = d.trail,
         FeedAppended(e, d, uid, 0, deleted),
         uid \in Item => row # None,
         uid \in Child /\ OneHome /\ Orderly(d) =>
           /\ Home(uid) \in Item /\ d.rows[Home(uid)] # None
           /\ row # None => row.item = Home(uid)
  PROVE  Follows(d, e)
<1>1. e.rows[uid] = row /\ \A u \in Uid : u # uid => e.rows[u] = d.rows[u]
  BY DEF Db
<1>2. OneChange(d, e, uid, 0, deleted)
  BY <1>1 DEF OneChange, SameRow
<1> QED
  BY <1>1, <1>2, OneChangeFollows

(* A create follows: its child goes into an item that is there.            *)
LEMMA CreateFollows ==
  ASSUME NEW d, Tables(d), NEW op, IsOp(op),
         op.uid \in Child /\ OneHome => op.item = Home(op.uid)
  PROVE  Follows(d, Create(d, op).db)
<1> DEFINE cleared == Cleared(d, op.uid)
           row     == NewRow(op, SeqOf(d) + 1)
           b       == Bump(cleared, op.uid, 0, FALSE)
           stored  == [b EXCEPT !.rows[op.uid] = row]
<1>1. d \in Db /\ op.uid \in Uid /\ op.item \in Item /\ SeqOf(d) + 1 \in Nat
  BY FeedIsSeq DEF IsOp, Tables, SeqOf
<1>2. /\ cleared \in Db /\ cleared.rows = d.rows /\ cleared.feed = d.feed
      /\ cleared.calc = d.calc /\ cleared.trail = d.trail
  BY <1>1 DEF Cleared, Db
<1>3. Follows(d, cleared) /\ Follows(d, d)
  BY <1>1, <1>2, SameFollows
<1>4. row \in Row /\ row # None /\ row.item = IF op.uid \in Item THEN op.uid ELSE op.item
  <2>1. row \in Row
    BY <1>1, NewRowTyped
  <2> QED
    BY <2>1, NoneAssumption DEF NewRow
<1>7. \/ Create(d, op).db \in {d, cleared}
      \/ /\ d.rows[op.uid] = None /\ CreateRefusal(d, op) = ""
         /\ Create(d, op).db = AfterTask(stored, op.uid, op.item)
  BY DEF Create
<1> HIDE DEF row, cleared
<1>5. /\ stored \in Db /\ stored.rows = [d.rows EXCEPT ![op.uid] = row]
      /\ stored.calc = d.calc /\ stored.trail = d.trail
      /\ FeedAppended(stored, d, op.uid, 0, FALSE)
  <2>1. IsBump(b, cleared, op.uid, 0, FALSE)
    BY <1>1, <1>2, BumpAppends
  <2> HIDE DEF b
  <2>2. /\ stored.rows = [b.rows EXCEPT ![op.uid] = row] /\ stored.calc = b.calc
        /\ stored.trail = b.trail /\ stored.feed = b.feed /\ stored \in Db
    BY <1>4, <2>1 DEF IsBump, Db
  <2> HIDE DEF stored
  <2> QED
    BY <1>2, <2>1, <2>2 DEF IsBump, FeedAppended
<1> HIDE DEF b, stored
<1>6. ASSUME d.rows[op.uid] = None, CreateRefusal(d, op) = ""
      PROVE  Follows(d, AfterTask(stored, op.uid, op.item))
  <2>1. op.uid \in Child => d.rows[op.item] # None
    BY <1>6 DEF CreateRefusal
  <2>2. Follows(d, stored)
    <3>1. op.uid \in Child => op.uid \notin Item
      BY UidAssumption
    <3> QED
      BY <1>1, <1>4, <1>5, <2>1, <3>1, PutFollows
  <2>3. CASE op.uid \in Task
    <3>1. op.uid \in Child /\ op.item # op.uid /\ op.item \in Uid
      BY <1>1, <2>3, UidAssumption DEF Uid
    <3>2. stored.rows[op.item] # None
      BY <1>1, <1>5, <2>1, <3>1 DEF Db
    <3> QED
      BY <1>1, <1>5, <2>2, <3>2, AfterTaskFollows, FollowsOn
  <2>4. CASE op.uid \notin Task
    BY <2>2, <2>4 DEF AfterTask
  <2> QED
    BY <2>3, <2>4
<1> QED
  BY <1>3, <1>6, <1>7

(* A history row is named by the change that comes with it.                *)
LEMMA MoveFollows ==
  ASSUME NEW d \in Db, NEW item \in Item, d.rows[item] # None,
         NEW from \in Value \cup {None}, NEW to \in Value \cup {None}
  PROVE  Follows(d, StatusChanged(d, item, from, to))
<1> DEFINE m == StatusChanged(d, item, from, to)
           n == Len(d.trail[item]) + 1
<1>1. IsMove(m, d, item, from, to)
  BY StatusChangedAppends
<1>2. m.calc = d.calc
  <2> DEFINE c == [d EXCEPT !.trail[item] = Append(@, [from |-> from, to |-> to])]
  <2>1. m = Bump(c, item, n, FALSE) /\ c.calc = d.calc
    BY DEF StatusChanged, Db
  <2>2. m = [c EXCEPT !.feed = Append(@, [uid |-> item, trail |-> n, deleted |-> FALSE])]
    BY <2>1 DEF Bump
  <2>3. "calc" \in DOMAIN c
    BY DEF Db
  <2> HIDE DEF c, m
  <2> QED
    BY <2>1, <2>2, <2>3
<1> HIDE DEF m
<1>3. n \in Nat /\ n # 0 /\ FeedAppended(m, d, item, n, FALSE) /\ m.rows = d.rows
  <2>1. Len(d.trail[item]) \in Nat /\ m.rows = d.rows
    BY <1>1 DEF IsMove
  <2>2. FeedAppended(m, d, item, n, FALSE)
    BY <1>1, Zenon DEF IsMove
  <2>3. n \in Nat /\ n # 0
    BY <2>1
  <2> QED
    BY <2>1, <2>2, <2>3, Zenon
<1>4. \A i \in Item : \A k \in DOMAIN m.trail[i] : k \notin DOMAIN d.trail[i] => i = item /\ k = n
  <2> TAKE i \in Item
  <2>1. CASE i # item
    BY <1>1, <2>1 DEF IsMove, Db
  <2>2. CASE i = item
    <3>1. m.trail[item] = Append(d.trail[item], [from |-> from, to |-> to])
      BY <1>1 DEF IsMove, Db
    <3>2. d.trail[item] \in Seq([from : Value \cup {None}, to : Value \cup {None}])
      BY DEF Db
    <3>3. DOMAIN m.trail[item] = 1..n /\ DOMAIN d.trail[item] = 1..(n - 1)
      BY <3>1, <3>2, AppendProperties, LenProperties
    <3> QED
      BY <1>3, <2>2, <3>3
  <2> QED
    BY <2>1, <2>2
<1> HIDE DEF n
<1>5. OneChange(d, m, item, n, FALSE)
  BY <1>2, <1>3, <1>4 DEF OneChange, SameRow
<1>6. item \in Uid /\ item \notin Child /\ m.rows[item] # None
  BY <1>3, UidAssumption DEF Uid
<1>7. Follows(d, m)
  BY <1>3, <1>5, <1>6, OneChangeFollows
<1> QED
  BY <1>7 DEF m

(* A set follows, with the history row of a status that moves.             *)
LEMMA SetFollows ==
  ASSUME NEW d, Tables(d), Shown(d), NEW op, IsOp(op), NEW waits
  PROVE  Follows(d, Set(d, op, waits).db)
<1> DEFINE row     == d.rows[op.uid]
           writes  == Writes(d, op, waits)
           seq     == SeqOf(d) + 1
           new     == Written(row, writes, seq)
           b       == Bump(d, op.uid, 0, FALSE)
           stored  == [b EXCEPT !.rows[op.uid] = new]
           moves   == op.uid \in Item /\ "status" \in DOMAIN writes
           moved   == IF moves
                      THEN StatusChanged(stored, op.uid, row.val["status"], writes["status"])
                      ELSE stored
           after   == AfterTask(moved, op.uid, row.item)
<1>1. d \in Db /\ op.uid \in Uid /\ seq \in Nat
  BY FeedIsSeq DEF IsOp, Tables, SeqOf
<1>2. CASE row = None \/ DOMAIN writes = {}
  <2>1. Set(d, op, waits).db = d
    BY <1>2 DEF Set
  <2> QED
    BY <1>1, <2>1, SameFollows
<1>3. CASE row # None /\ DOMAIN writes # {}
  <2>1. row \in Row /\ row.item \in Item /\ d.rows[row.item] # None
    BY <1>1, <1>3 DEF Db, Row, Shown, HomesIn
  <2>2. /\ DOMAIN writes \subseteq Field
        /\ \A f \in DOMAIN writes : writes[f] \in Value \cup {None}
    BY WritesTyped
  <2>3. Set(d, op, waits).db = after
    BY <1>3 DEF Set
  <2>4. "status" \in Field
    BY FieldAssumption DEF Field
  <2>5. op.uid \in Child /\ Orderly(d) => row.item = Home(op.uid)
    BY <1>3 DEF Orderly
  <2> HIDE DEF writes, seq
  <2>6. new \in Row /\ new # None /\ new.item = row.item
    <3>1. new \in Row
      BY <1>1, <2>1, <2>2, WrittenTyped
    <3>2. new.item = row.item
      BY <2>1 DEF Written, Row
    <3> QED
      BY <3>1, <3>2, NoneAssumption
  <2>7. row.val["status"] \in Value \cup {None} /\ (moves => writes["status"] \in Value \cup {None})
    BY <2>1, <2>2, <2>4 DEF Row, Content
  <2> HIDE DEF new
  <2>8. /\ stored \in Db /\ stored.rows = [d.rows EXCEPT ![op.uid] = new]
        /\ stored.calc = d.calc /\ stored.trail = d.trail
        /\ FeedAppended(stored, d, op.uid, 0, FALSE)
    <3>1. IsBump(b, d, op.uid, 0, FALSE)
      BY <1>1, BumpAppends
    <3> HIDE DEF b
    <3>2. /\ stored.rows = [b.rows EXCEPT ![op.uid] = new] /\ stored.calc = b.calc
          /\ stored.trail = b.trail /\ stored.feed = b.feed /\ stored \in Db
      BY <2>6, <3>1 DEF IsBump, Db
    <3> HIDE DEF stored
    <3> QED
      BY <3>1, <3>2 DEF IsBump, FeedAppended
  <2> HIDE DEF stored, b
  <2>9. Follows(d, stored)
    <3> HIDE DEF row
    <3> QED
      BY <1>1, <2>1, <2>5, <2>6, <2>8, PutFollows
  <2>10. stored.rows[op.uid] # None /\ stored.rows[row.item] # None
    <3>1. row.item \in Uid
      BY <2>1 DEF Uid
    <3>2. \A u \in Uid : stored.rows[u] = IF u = op.uid THEN new ELSE d.rows[u]
      BY <1>1, <2>8 DEF Db
    <3> HIDE DEF row
    <3> QED
      BY <1>1, <2>1, <2>6, <3>1, <3>2
  <2>11. moved \in Db /\ Follows(stored, moved) /\ moved.rows = stored.rows
    <3>1. CASE moves
      <4> DEFINE from == row.val["status"]
                 to   == writes["status"]
      <4>1. moved = StatusChanged(stored, op.uid, from, to) /\ op.uid \in Item
        BY <3>1
      <4>2. from \in Value \cup {None} /\ to \in Value \cup {None}
        BY <2>7, <3>1
      <4> HIDE DEF from, to, moved, moves, row
      <4>3. Follows(stored, moved)
        BY <2>8, <2>10, <4>1, <4>2, MoveFollows
      <4>4. IsMove(moved, stored, op.uid, from, to)
        BY <2>8, <4>1, <4>2, StatusChangedAppends
      <4>5. moved \in Db
        BY <2>8, <4>1, <4>2, StatusChangedIsDb
      <4> QED
        BY <4>3, <4>4, <4>5 DEF IsMove
    <3>2. CASE ~moves
      <4>1. moved = stored
        BY <3>2
      <4> HIDE DEF moved
      <4> QED
        BY <2>8, <4>1, SameFollows
    <3> QED
      BY <3>1, <3>2
  <2> HIDE DEF moved, moves, row
  <2>12. Follows(moved, after)
    BY <1>1, <2>1, <2>10, <2>11, AfterTaskFollows
  <2>13. Follows(d, moved)
    BY <2>9, <2>11, FollowsOn
  <2> HIDE DEF after
  <2>14. Follows(d, after)
    BY <2>12, <2>13, FollowsOn
  <2> QED
    BY <2>3, <2>14
<1> QED
  BY <1>2, <1>3

(* A remove follows: only children go.                                     *)
LEMMA RemoveFollows ==
  ASSUME NEW d, Tables(d), Shown(d), NEW op, IsOp(op)
  PROVE  Follows(d, Remove(d, op).db)
<1> DEFINE row   == d.rows[op.uid]
           tomb  == [seq |-> SeqOf(d) + 1, byPlugin |-> op.plugin]
           b     == Bump(d, op.uid, 0, TRUE)
           gone  == [b EXCEPT !.rows[op.uid] = None, !.tombs[op.uid] = tomb]
<1>1. d \in Db /\ op.uid \in Uid /\ tomb \in Tomb
  BY FeedIsSeq DEF IsOp, Tables, SeqOf, Tomb
<1>2. /\ gone \in Db /\ gone.rows = [d.rows EXCEPT ![op.uid] = None]
      /\ gone.calc = d.calc /\ gone.trail = d.trail /\ FeedAppended(gone, d, op.uid, 0, TRUE)
  <2>1. IsBump(b, d, op.uid, 0, TRUE)
    BY <1>1, BumpAppends
  <2> HIDE DEF b, tomb
  <2>2. /\ gone.rows = [b.rows EXCEPT ![op.uid] = None] /\ gone.calc = b.calc
        /\ gone.feed = b.feed /\ gone.trail = b.trail /\ gone \in Db
    BY <1>1, <2>1 DEF IsBump, Db
  <2> HIDE DEF gone
  <2> QED
    BY <2>1, <2>2 DEF IsBump, FeedAppended
<1>3. \/ Remove(d, op).db = d
      \/ /\ op.uid \notin Item /\ row # None
         /\ Remove(d, op).db = AfterTask(gone, op.uid, row.item)
  BY DEF Remove
<1> HIDE DEF gone, b, tomb
<1>4. ASSUME op.uid \notin Item, row # None PROVE Follows(d, AfterTask(gone, op.uid, row.item))
  <2>1. row.item \in Item /\ d.rows[row.item] # None
    BY <1>1, <1>4 DEF Db, Row, Shown, HomesIn
  <2>2. op.uid \in Child /\ Orderly(d) => row.item = Home(op.uid)
    BY <1>4 DEF Orderly
  <2>3. gone.rows[row.item] # None
    <3>1. \A i \in Item : gone.rows[i] = d.rows[i]
      BY <1>2, <1>4 DEF Db, Uid
    <3> QED
      BY <2>1, <3>1
  <2> HIDE DEF row
  <2>4. Follows(d, gone)
    BY <1>1, <1>2, <1>4, <2>1, <2>2, PutFollows
  <2>5. Follows(gone, AfterTask(gone, op.uid, row.item))
    BY <1>1, <1>2, <2>1, <2>3, AfterTaskFollows
  <2> QED
    BY <2>4, <2>5, FollowsOn
<1>5. Follows(d, d)
  BY <1>1, SameFollows
<1> QED
  BY <1>3, <1>4, <1>5

(* Every op: whatever it changes it names, and in order.                   *)
LEMMA ApplyOneFollows ==
  ASSUME NEW d, Sound(d), NEW op, IsOp(op), NEW waits,
         op.op = "create" /\ op.uid \in Child /\ OneHome => op.item = Home(op.uid)
  PROVE  Follows(d, ApplyOne(d, op, waits).db)
<1>1. Tables(d) /\ Shown(d)
  BY DEF Sound
<1>2. CASE op.op = "create"
  <2>1. ApplyOne(d, op, waits) = Create(d, op)
    BY <1>2 DEF ApplyOne
  <2> QED
    BY <1>1, <1>2, <2>1, CreateFollows
<1>3. CASE op.op = "set"
  <2>1. ApplyOne(d, op, waits) = Set(d, op, waits)
    BY <1>3 DEF ApplyOne
  <2> QED
    BY <1>1, <2>1, SetFollows
<1>4. CASE op.op = "remove"
  <2>1. ApplyOne(d, op, waits) = Remove(d, op)
    BY <1>4 DEF ApplyOne
  <2> QED
    BY <1>1, <2>1, RemoveFollows
<1> QED
  BY <1>2, <1>3, <1>4 DEF IsOp

-----------------------------------------------------------------------------
(* Transactions.                                                           *)

(* What a transaction will commit follows what is committed.               *)
FollowInv ==
  /\ OneHome => Orderly(db)
  /\ \A w \in Worker : tx[w].phase = "applying" =>
       Grows(db, tx[w].work) /\ (OneHome => Orderly(tx[w].work))

(* Clients make a child in its home.                                       *)
LEMMA MadeAtHome ==
  ASSUME NEW unit \in Unit, NEW k \in DOMAIN unit,
         unit[k].op = "create", unit[k].uid \in Child, OneHome
  PROVE  unit[k].item = Home(unit[k].uid)
<1> DEFINE u == unit[k].uid
           i == unit[k].item
<1>1. i \in Item
  BY UnitFacts DEF IsOp
<1>2. MadeIn(u, i)
  BY DEF MadeIn
<1> HIDE DEF u, i
<1>3. Home(u) \in Item /\ MadeIn(u, Home(u))
  BY <1>1, <1>2 DEF Home
<1>4. u \in Child
  BY DEF u
<1> QED
  BY <1>1, <1>2, <1>3, <1>4 DEF OneHome, u, i

(* The next op of a transaction.                                           *)
LEMMA ApplyFollows ==
  ASSUME IInv, FollowInv, NEW w \in Worker, NEW waits, Apply(w, waits)
  PROVE  FollowInv' /\ db' = db
<1> DEFINE t  == tx[w]
           op == t.unit[Len(t.results) + 1]
           outcome == ApplyOne(t.work, op, waits)
<1>1. /\ t.phase = "applying" /\ t.unit \in Unit
      /\ Len(t.results) + 1 \in DOMAIN t.unit /\ IsOp(op)
  <2>1. t.phase = "applying" /\ Len(t.results) < Len(t.unit)
    BY DEF Apply
  <2>2. t.unit \in Unit
    BY <2>1 DEF IInv, TypeOK
  <2>3. Len(t.results) \in Nat
    BY <2>1, ResultsFacts DEF IInv
  <2>4. DOMAIN t.unit = 1..Len(t.unit) /\ Len(t.unit) \in Nat
    BY <2>2, UnitFacts
  <2>5. Len(t.results) + 1 \in DOMAIN t.unit
    BY <2>1, <2>3, <2>4
  <2> QED
    BY <2>1, <2>2, <2>5, UnitFacts
<1>2. Follows(t.work, outcome.db)
  <2>1. op.op = "create" /\ op.uid \in Child /\ OneHome => op.item = Home(op.uid)
    BY <1>1, MadeAtHome
  <2>2. Sound(t.work)
    BY DEF IInv, TablesInv
  <2> HIDE DEF op, t
  <2> QED
    BY <1>1, <2>1, <2>2, ApplyOneFollows
<1>3. Grows(db, t.work) /\ (OneHome => Orderly(t.work))
  BY <1>1 DEF FollowInv
<1> HIDE DEF outcome
<1>4. Grows(db, outcome.db) /\ (OneHome => Orderly(outcome.db))
  BY <1>2, <1>3, GrowsOn DEF Follows
<1>5. db' = db /\ \A v \in Worker :
        /\ v # w => tx'[v] = tx[v]
        /\ tx'[v].phase = tx[v].phase
        /\ v = w => tx'[v].work \in {t.work, outcome.db}
  <2> DEFINE known  == Append(t.results, Answer(Prior(op.id), TRUE))
             answer == Append(t.results, Answer(outcome.result, FALSE))
             after  == outcome.db
  <2>1. /\ db' = db
        /\ \/ tx' = [tx EXCEPT ![w] = [t EXCEPT !.results = known]]
           \/ tx' = [tx EXCEPT ![w] = [t EXCEPT !.results = answer, !.work = after]]
    BY DEF Apply, outcome
  <2>2. tx \in [Worker -> Transaction] /\ t \in Transaction
    BY DEF IInv, TypeOK
  <2> HIDE DEF known, answer, after
  <2>3. \A v \in Worker : /\ v # w => tx'[v] = tx[v]
                          /\ tx'[v].phase = tx[v].phase
                          /\ v = w => tx'[v].work \in {t.work, after}
    <3>1. CASE tx' = [tx EXCEPT ![w] = [t EXCEPT !.results = known]]
      BY <2>2, <3>1 DEF Transaction
    <3>2. CASE tx' = [tx EXCEPT ![w] = [t EXCEPT !.results = answer, !.work = after]]
      BY <2>2, <3>2 DEF Transaction
    <3> QED
      BY <2>1, <3>1, <3>2
  <2> QED
    BY <2>1, <2>3 DEF after
<1> HIDE DEF t
<1>6. \A v \in Worker : tx'[v].phase = "applying" =>
        Grows(db, tx'[v].work) /\ (OneHome => Orderly(tx'[v].work))
  <2> TAKE v \in Worker
  <2>1. CASE v = w
    BY <1>3, <1>4, <1>5, <2>1
  <2>2. CASE v # w
    BY <1>5, <2>2 DEF FollowInv
  <2> QED
    BY <2>1, <2>2
<1> QED
  BY <1>5, <1>6 DEF FollowInv

(* Every step of the write path: the tables grow, or stay.                 *)
LEMMA StepGrows ==
  ASSUME IInv, FollowInv, [Next]_vars
  PROVE  FollowInv' /\ Grows(db, db')
<1>1. Grows(db, db)
  BY SameFollows DEF IInv, TypeOK, Follows
<1>2. CASE UNCHANGED vars
  BY <1>1, <1>2 DEF vars, FollowInv
<1>3. ASSUME NEW w \in Worker, NEW unit \in Unit, Begin(w, unit)
      PROVE  FollowInv' /\ Grows(db, db')
  <2>1. db' = db /\ \A v \in Worker : tx'[v] = IF v = w THEN
          [Idle EXCEPT !.phase = "applying", !.unit = unit, !.work = db] ELSE tx[v]
    BY <1>3 DEF Begin, IInv, TypeOK
  <2>2. tx'[w].work = db
    BY <2>1 DEF Idle
  <2> QED
    BY <1>1, <2>1, <2>2 DEF FollowInv
<1>4. ASSUME NEW w \in Worker, db' = db, tx'[w].phase # "applying",
             \A v \in Worker \ {w} : tx'[v] = tx[v]
      PROVE  FollowInv' /\ Grows(db, db')
  BY <1>1, <1>4 DEF FollowInv
<1>5. ASSUME NEW w \in Worker, NEW waits \in BOOLEAN, Throw(w, waits)
      PROVE  FollowInv' /\ Grows(db, db')
  <2>1. db' = db /\ \A v \in Worker : tx'[v] = IF v = w THEN
          [Idle EXCEPT !.phase = "failed", !.unit = tx[w].unit] ELSE tx[v]
    BY <1>5 DEF Throw, IInv, TypeOK
  <2> QED
    BY <1>4, <2>1 DEF Idle
<1>6. ASSUME NEW w \in Worker, RememberError(w)
      PROVE  FollowInv' /\ Grows(db, db')
  <2>1. /\ db' = db /\ tx[w].phase = "failed"
        /\ \A v \in Worker \ {w} : tx'[v] = tx[v]
    BY <1>6 DEF RememberError, IInv, TypeOK
  <2>2. tx'[w].phase # "applying"
    BY <1>6, <2>1 DEF RememberError, IInv, TypeOK, Idle, Transaction
  <2> QED
    BY <1>4, <2>1, <2>2
<1>7. ASSUME NEW w \in Worker, Commit(w)
      PROVE  FollowInv' /\ Grows(db, db')
  <2>1. /\ tx[w].phase = "applying" /\ db' = tx[w].work
        /\ \A v \in Worker : tx'[v] = IF v = w THEN Idle ELSE tx[v]
    BY <1>7 DEF Commit, IInv, TypeOK
  <2>2. \A v \in Worker : tx'[v].phase # "applying"
    BY <2>1 DEF IInv, LockInv, Idle
  <2>3. Grows(db, db') /\ (OneHome => Orderly(db'))
    BY <2>1 DEF FollowInv
  <2> QED
    BY <2>2, <2>3 DEF FollowInv
<1>8. ASSUME NEW w \in Worker, Rollback(w) \/ Drop(w)
      PROVE  FollowInv' /\ Grows(db, db')
  <2>1. db' = db /\ \A v \in Worker : tx'[v] = IF v = w THEN Idle ELSE tx[v]
    BY <1>8 DEF Rollback, Drop, IInv, TypeOK
  <2> QED
    BY <1>4, <2>1 DEF Idle
<1> QED
  BY <1>1, <1>2, <1>3, <1>5, <1>6, <1>7, <1>8, ApplyFollows DEF Next

-----------------------------------------------------------------------------
(* Readers.                                                                *)

Copy == [rows  : [Uid -> Row \cup {None}],
         calc  : [Item -> Statuses \cup {NoStatus}],
         trail : [Item -> SUBSET Nat]]

Query == [seq : Nat, key : Key]

Got == [key : Key, now : [row : Row \cup {None}, calc : Statuses \cup {NoStatus}]]

Client == [phase : {"idle", "reading", "applying"}, cursor : Nat, next : Nat,
           wanted : SUBSET Query, got : Seq(Got), copy : Copy]

RowKey(u) == [uid |-> u, trail |-> 0]

(* What is read still wants a query, or waits to be applied.               *)
Pending(c, key) ==
  (\E e \in c.wanted : e.key = key) \/ (\E n \in DOMAIN c.got : c.got[n].key = key)

(* Where a request stands in the feed.                                     *)
Placed(c, d) ==
  /\ c.cursor <= Len(d.feed)
  /\ c.phase = "idle" => c.wanted = {} /\ c.got = <<>>
  /\ c.phase = "applying" => c.wanted = {}
  /\ c.phase # "idle" => c.cursor <= c.next /\ c.next <= Len(d.feed)
  /\ \A e \in c.wanted : e.seq \in (c.cursor + 1)..c.next /\ e.key = KeyOf(d.feed[e.seq])

(* What the copy lacks lies after the cursor, and so does what is pending. *)
Behind(c, d) ==
  /\ \A key \in Key : Pending(c, key) => NamedAfter(d, c.cursor, key)
  /\ \A u \in Uid : ~SameRow(d, c.copy, u) => NamedAfter(d, c.cursor, RowKey(u))
  /\ \A i \in Item : \A n \in DOMAIN d.trail[i] :
       n \notin c.copy.trail[i] => NamedAfter(d, c.cursor, [uid |-> i, trail |-> n])

(* What a row that was read shows is what is there.                        *)
Shows(g, d) ==
  /\ g.now.row = d.rows[g.key.uid]
  /\ g.key.uid \in Item => g.now.calc = d.calc[g.key.uid]

(* While a page is under way: what the copy lacks is pending or lies after *)
(* the page, and so does what changed since its row was read.              *)
Ahead(c, d) == c.phase # "idle" =>
  /\ \A n \in DOMAIN c.got :
       c.got[n].key.trail = 0 /\ ~Shows(c.got[n], d) => NamedAfter(d, c.next, c.got[n].key)
  /\ \A u \in Uid :
       ~SameRow(d, c.copy, u) /\ ~Pending(c, RowKey(u)) => NamedAfter(d, c.next, RowKey(u))
  /\ \A i \in Item : \A n \in DOMAIN d.trail[i] :
       LET key == [uid |-> i, trail |-> n]
       IN  n \notin c.copy.trail[i] /\ ~Pending(c, key) => NamedAfter(d, c.next, key)

Fits(c, d) == Placed(c, d) /\ Behind(c, d) /\ Ahead(c, d)

(* The reader has the items named up to its cursor; those of the page it   *)
(* has or are pending; a child that is pending comes after its item.       *)
InOrder(c, d) ==
  /\ \A s \in 1..c.cursor : d.feed[s].uid \in Item /\ d.feed[s].trail = 0 =>
       c.copy.rows[d.feed[s].uid] # None
  /\ c.phase # "idle" => \A s \in (c.cursor + 1)..c.next :
       d.feed[s].uid \in Item /\ d.feed[s].trail = 0 =>
         c.copy.rows[d.feed[s].uid] # None \/ Pending(c, RowKey(d.feed[s].uid))
  /\ \A e \in c.wanted : e.key.uid \in Child =>
       LET home == Home(e.key.uid)
       IN  /\ home \in Item
           /\ \/ c.copy.rows[home] # None
              \/ \E n \in DOMAIN c.got : c.got[n].key = RowKey(home)
              \/ \E f \in c.wanted : f.key = RowKey(home) /\ f.seq < e.seq
  /\ \A n \in DOMAIN c.got : c.got[n].key.uid \in Child =>
       LET home == Home(c.got[n].key.uid)
       IN  /\ home \in Item
           /\ \/ c.copy.rows[home] # None
              \/ \E m \in 1..(n - 1) : c.got[m].key = RowKey(home)
           /\ c.got[n].now.row # None => c.got[n].now.row.item = home
  /\ \A n \in DOMAIN c.got : c.got[n].key.uid \in Item => c.got[n].now.row # None
  /\ \A u \in Child : c.copy.rows[u] # None =>
       /\ Home(u) \in Item /\ c.copy.rows[u].item = Home(u)
       /\ c.copy.rows[Home(u)] # None

(* The inductive invariant.                                                *)
FeedInv ==
  /\ IInv /\ FollowInv
  /\ reader \in [Reader -> Client]
  /\ \A r \in Reader : Fits(reader[r], db)
  /\ OneHome => \A r \in Reader : InOrder(reader[r], db)

-----------------------------------------------------------------------------
(* Writers go on while a reader reads.                                     *)

(* What was named stays named.                                             *)
LEMMA StillNamed ==
  ASSUME NEW d, NEW e, Grows(d, e), NEW since \in Nat, NEW key, NamedAfter(d, since, key)
  PROVE  NamedAfter(e, since, key)
<1>1. PICK s \in (since + 1)..Len(d.feed) : KeyOf(d.feed[s]) = key
  BY DEF NamedAfter, SeqOf
<1>2. s \in 1..Len(d.feed) /\ s \in (since + 1)..Len(e.feed)
  BY DEF Grows
<1>3. e.feed[s] = d.feed[s]
  BY <1>2 DEF Grows
<1> QED
  BY <1>1, <1>2, <1>3 DEF NamedAfter, SeqOf

(* What a write names lies after every place in the feed there was.        *)
LEMMA NamedLater ==
  ASSUME NEW d, NEW e, Grows(d, e), NEW since \in Nat, since <= Len(d.feed),
         NEW u, NEW n, NewlyNames(d, e, u, n)
  PROVE  NamedAfter(e, since, [uid |-> u, trail |-> n])
<1>1. PICK s \in (Len(d.feed) + 1)..Len(e.feed) : e.feed[s].uid = u /\ e.feed[s].trail = n
  BY DEF NewlyNames
<1>2. s \in (since + 1)..Len(e.feed)
  BY DEF Grows
<1> QED
  BY <1>1, <1>2 DEF NamedAfter, SeqOf, KeyOf

(* A write leaves every reader where it fits.                              *)
LEMMA WritersFit ==
  ASSUME NEW c \in Client, NEW d, NEW e, Grows(d, e), Fits(c, d)
  PROVE  Fits(c, e) /\ (InOrder(c, d) => InOrder(c, e))
<1>1. /\ c.cursor \in Nat /\ c.next \in Nat /\ Len(d.feed) \in Nat /\ Len(e.feed) \in Nat
      /\ c.cursor <= Len(d.feed) /\ Len(d.feed) <= Len(e.feed)
      /\ c.phase # "idle" => c.cursor <= c.next /\ c.next <= Len(d.feed)
      /\ c.wanted \subseteq Query /\ c.got \in Seq(Got)
  <2>1. Len(d.feed) \in Nat /\ Len(e.feed) \in Nat /\ Len(d.feed) <= Len(e.feed)
    BY DEF Grows
  <2>2. Placed(c, d)
    BY DEF Fits
  <2> QED
    BY <2>1, <2>2 DEF Client, Placed
<1>2. \A s \in 1..Len(d.feed) : e.feed[s] = d.feed[s]
  BY DEF Grows
<1>3. Placed(c, e)
  <2>1. Placed(c, d)
    BY DEF Fits
  <2>2. \A q \in c.wanted : q.seq \in (c.cursor + 1)..c.next /\ q.key = KeyOf(d.feed[q.seq])
    BY <2>1 DEF Placed
  <2>3. \A q \in c.wanted : c.phase # "idle" /\ q.seq \in 1..Len(d.feed)
    BY <1>1, <2>1, <2>2 DEF Placed
  <2>4. \A q \in c.wanted : q.key = KeyOf(e.feed[q.seq])
    BY <1>2, <2>2, <2>3
  <2>5. c.cursor <= Len(e.feed) /\ (c.phase # "idle" => c.next <= Len(e.feed))
    BY <1>1
  <2> QED
    BY <1>1, <2>1, <2>2, <2>4, <2>5 DEF Placed
<1>4. ASSUME NEW u \in Uid, ~SameRow(e, c.copy, u)
      PROVE  ~SameRow(d, c.copy, u) \/ NewlyNames(d, e, u, 0)
  BY <1>4 DEF SameRow, Grows
<1>5. ASSUME NEW i \in Item, NEW n \in DOMAIN e.trail[i]
      PROVE  n \in DOMAIN d.trail[i] \/ NewlyNames(d, e, i, n)
  BY DEF Grows
<1>6. Behind(c, e)
  <2>1. \A key \in Key : Pending(c, key) => NamedAfter(e, c.cursor, key)
    BY <1>1, StillNamed DEF Fits, Behind
  <2>2. \A u \in Uid : ~SameRow(e, c.copy, u) => NamedAfter(e, c.cursor, RowKey(u))
    BY <1>1, <1>4, StillNamed, NamedLater DEF Fits, Behind, RowKey
  <2>3. ASSUME NEW i \in Item, NEW n \in DOMAIN e.trail[i], n \notin c.copy.trail[i]
        PROVE  NamedAfter(e, c.cursor, [uid |-> i, trail |-> n])
    BY <1>1, <1>5, <2>3, StillNamed, NamedLater DEF Fits, Behind
  <2> QED
    BY <2>1, <2>2, <2>3 DEF Behind
<1>7. ASSUME c.phase # "idle" PROVE Ahead(c, e)
  <2>1. ASSUME NEW n \in DOMAIN c.got, c.got[n].key.trail = 0, ~Shows(c.got[n], e)
        PROVE  NamedAfter(e, c.next, c.got[n].key)
    <3>1. c.got[n] \in Got
      BY <1>1, ElementOfSeq, LenProperties
    <3>2. c.got[n].key.uid \in Uid /\ c.got[n].key = [uid |-> c.got[n].key.uid, trail |-> 0]
      BY <2>1, <3>1 DEF Got, Key
    <3>3. ~Shows(c.got[n], d) \/ NewlyNames(d, e, c.got[n].key.uid, 0)
      BY <2>1, <3>2 DEF Shows, Grows, SameRow
    <3>4. CASE ~Shows(c.got[n], d)
      BY <1>1, <1>7, <2>1, <3>4, StillNamed DEF Fits, Ahead
    <3>5. CASE NewlyNames(d, e, c.got[n].key.uid, 0)
      BY <1>1, <1>7, <3>2, <3>5, NamedLater
    <3> QED
      BY <3>3, <3>4, <3>5
  <2>2. ASSUME NEW u \in Uid, ~SameRow(e, c.copy, u), ~Pending(c, RowKey(u))
        PROVE  NamedAfter(e, c.next, RowKey(u))
    BY <1>1, <1>4, <1>7, <2>2, StillNamed, NamedLater DEF Fits, Ahead, RowKey
  <2>3. ASSUME NEW i \in Item, NEW n \in DOMAIN e.trail[i],
               n \notin c.copy.trail[i], ~Pending(c, [uid |-> i, trail |-> n])
        PROVE  NamedAfter(e, c.next, [uid |-> i, trail |-> n])
    BY <1>1, <1>5, <1>7, <2>3, StillNamed, NamedLater DEF Fits, Ahead
  <2> QED
    BY <2>1, <2>2, <2>3 DEF Ahead
<1>8. ASSUME InOrder(c, d) PROVE InOrder(c, e)
  <2>1. \A s \in 1..c.cursor : e.feed[s] = d.feed[s]
    BY <1>1, <1>2
  <2>2. c.phase # "idle" => \A s \in (c.cursor + 1)..c.next : e.feed[s] = d.feed[s]
    BY <1>1, <1>2
  <2> QED
    BY <1>8, <2>1, <2>2 DEF InOrder
<1> QED
  BY <1>3, <1>6, <1>7, <1>8 DEF Fits, Ahead

-----------------------------------------------------------------------------
(* A reader's own steps.                                                   *)

(* The page names every key that changed in it, where it first did.        *)
LEMMA PageFacts ==
  ASSUME NEW d \in Db, NEW since \in Nat, since < Len(d.feed)
  PROVE  /\ PageEnd(d, since) \in Nat /\ since < PageEnd(d, since)
         /\ PageEnd(d, since) <= Len(d.feed)
         /\ Page(d, since) \subseteq Query
         /\ \A e \in Page(d, since) : /\ e.seq \in (since + 1)..PageEnd(d, since)
                                      /\ e.key = KeyOf(d.feed[e.seq])
         /\ \A s \in (since + 1)..PageEnd(d, since) :
              \E e \in Page(d, since) : e.key = KeyOf(d.feed[s]) /\ e.seq <= s
<1> DEFINE end == PageEnd(d, since)
<1>1. Len(d.feed) \in Nat /\ DOMAIN d.feed = 1..Len(d.feed) /\ d.feed \in Seq(Change)
  BY FeedIsSeq
<1>2. end \in Nat /\ since < end /\ end <= Len(d.feed)
  BY <1>1, LimitAssumption DEF PageEnd, SeqOf
<1> HIDE DEF end
<1>3. \A e \in Page(d, since) : e.seq \in (since + 1)..end /\ e.key = KeyOf(d.feed[e.seq])
                                /\ e = [seq |-> e.seq, key |-> KeyOf(d.feed[e.seq])]
  BY DEF Page, end
<1>4. \A s \in (since + 1)..end : s \in Nat /\ KeyOf(d.feed[s]) \in Key
  <2> TAKE s \in (since + 1)..end
  <2>1. s \in DOMAIN d.feed /\ s \in Nat
    BY <1>1, <1>2
  <2>2. d.feed[s] \in Change
    BY <1>1, <2>1, ElementOfSeq
  <2> QED
    BY <2>1, <2>2 DEF Change, KeyOf, Key
<1>5. Page(d, since) \subseteq Query
  BY <1>3, <1>4 DEF Query
<1>6. ASSUME NEW s \in (since + 1)..end
      PROVE  \E e \in Page(d, since) : e.key = KeyOf(d.feed[s]) /\ e.seq <= s
  <2> DEFINE S == {k \in (since + 1)..end : KeyOf(d.feed[k]) = KeyOf(d.feed[s])}
  <2>1. S \subseteq Nat /\ s \in S
    BY <1>4, <1>6
  <2>2. PICK n \in S : \A k \in S : n <= k
    <3> HIDE DEF S
    <3> QED
      BY <2>1, LeastNatural
  <2>3. n \in (since + 1)..end /\ n <= s /\ KeyOf(d.feed[n]) = KeyOf(d.feed[s])
    BY <2>1, <2>2
  <2>4. IsFirstIn(d, since, n)
    <3> SUFFICES ASSUME NEW r \in (since + 1)..(n - 1), KeyOf(d.feed[r]) = KeyOf(d.feed[n])
                 PROVE  FALSE
      BY DEF IsFirstIn
    <3>1. r \in (since + 1)..end /\ r < n
      BY <1>2, <2>3
    <3>2. r \in S
      BY <2>3, <3>1
    <3> QED
      BY <2>2, <3>1, <3>2
  <2>5. [seq |-> n, key |-> KeyOf(d.feed[n])] \in Page(d, since)
    BY <2>3, <2>4 DEF Page, end
  <2> QED
    BY <2>3, <2>5
<1> QED
  BY <1>2, <1>3, <1>5, <1>6 DEF end

(* What a step leaves a reader with.                                       *)
Stays(c, c2, d) ==
  c2 \in Client /\ Fits(c2, d) /\ (OneHome /\ Orderly(d) /\ InOrder(c, d) => InOrder(c2, d))

(* A page is read: what the copy lacks is in it or after it.               *)
LEMMA ReadFeedFits ==
  ASSUME NEW c \in Client, NEW d \in Db, Fits(c, d),
         c.phase = "idle", c.cursor < Len(d.feed),
         NEW c2, c2 = [c EXCEPT !.phase  = "reading",
                                !.next   = PageEnd(d, c.cursor),
                                !.wanted = Page(d, c.cursor),
                                !.got    = <<>>]
  PROVE  Stays(c, c2, d)
<1> DEFINE end == PageEnd(d, c.cursor)
           page == Page(d, c.cursor)
<1>1. /\ end \in Nat /\ c.cursor < end /\ end <= Len(d.feed) /\ page \subseteq Query
      /\ \A e \in page : e.seq \in (c.cursor + 1)..end /\ e.key = KeyOf(d.feed[e.seq])
      /\ \A s \in (c.cursor + 1)..end : \E e \in page : e.key = KeyOf(d.feed[s]) /\ e.seq <= s
      /\ c.cursor \in Nat /\ Len(d.feed) \in Nat
  BY PageFacts, FeedIsSeq DEF Client
<1> HIDE DEF end, page
<1>2. /\ c2.phase = "reading" /\ c2.cursor = c.cursor /\ c2.next = end /\ c2.wanted = page
      /\ c2.got = <<>> /\ c2.copy = c.copy /\ c2 \in Client
  <2>1. <<>> \in Seq(Got)
    BY EmptySeq
  <2> QED
    BY <1>1, <2>1 DEF Client, end, page
<1>3. Placed(c2, d)
  BY <1>1, <1>2 DEF Placed
<1>4. \A key : Pending(c2, key) <=> \E e \in page : e.key = key
  BY <1>2 DEF Pending
<1>5. Behind(c2, d)
  <2>1. ASSUME NEW key \in Key, Pending(c2, key) PROVE NamedAfter(d, c2.cursor, key)
    <3>1. PICK e \in page : e.key = key
      BY <1>4, <2>1
    <3>2. e.seq \in (c.cursor + 1)..Len(d.feed)
      BY <1>1
    <3> QED
      BY <1>1, <1>2, <3>1, <3>2 DEF NamedAfter, SeqOf
  <2> QED
    BY <1>2, <2>1 DEF Behind, Fits
<1>6. ASSUME NEW key, NamedAfter(d, c.cursor, key), ~Pending(c2, key)
      PROVE  NamedAfter(d, end, key)
  <2>1. PICK s \in (c.cursor + 1)..Len(d.feed) : KeyOf(d.feed[s]) = key
    BY <1>6 DEF NamedAfter, SeqOf
  <2>2. s \notin (c.cursor + 1)..end
    BY <1>1, <1>4, <1>6, <2>1
  <2>3. s \in (end + 1)..Len(d.feed)
    BY <1>1, <2>2
  <2> QED
    BY <2>1, <2>3 DEF NamedAfter, SeqOf
<1>7. Ahead(c2, d)
  BY <1>2, <1>6 DEF Ahead, Behind, Fits
<1>8. ASSUME OneHome, Orderly(d), InOrder(c, d) PROVE InOrder(c2, d)
  <2>1. \A s \in (c.cursor + 1)..end : d.feed[s].uid \in Item /\ d.feed[s].trail = 0 =>
          Pending(c2, RowKey(d.feed[s].uid))
    BY <1>1, <1>4 DEF KeyOf, RowKey
  <2>2. ASSUME NEW e \in page, e.key.uid \in Child
        PROVE  /\ Home(e.key.uid) \in Item
               /\ \/ c.copy.rows[Home(e.key.uid)] # None
                  \/ \E f \in page : f.key = RowKey(Home(e.key.uid)) /\ f.seq < e.seq
    <3>1. e.seq \in 1..Len(d.feed) /\ d.feed[e.seq].uid = e.key.uid
      <4>1. e.seq \in (c.cursor + 1)..end /\ e.key = KeyOf(d.feed[e.seq])
        BY <1>1
      <4>2. e.key.uid = d.feed[e.seq].uid
        BY <4>1 DEF KeyOf
      <4>3. e.seq \in 1..Len(d.feed)
        BY <1>1, <4>1
      <4> QED
        BY <4>2, <4>3
    <3>2. Home(e.key.uid) \in Item
      BY <1>8, <2>2, <3>1 DEF Orderly
    <3>3. PICK p \in 1..(e.seq - 1) : d.feed[p].uid = Home(e.key.uid) /\ d.feed[p].trail = 0
      BY <1>8, <2>2, <3>1 DEF Orderly
    <3>4. CASE p <= c.cursor
      <4>1. p \in 1..c.cursor
        BY <1>1, <3>4
      <4> QED
        BY <1>8, <3>2, <3>3, <4>1 DEF InOrder
    <3>5. CASE ~(p <= c.cursor)
      <4>1. p \in (c.cursor + 1)..end /\ p < e.seq
        BY <1>1, <3>1, <3>5
      <4>2. PICK f \in page : f.key = KeyOf(d.feed[p]) /\ f.seq <= p
        BY <1>1, <4>1
      <4>3. f.seq < e.seq
        <5>1. f.seq \in Nat /\ e.seq \in Nat
          BY <1>1 DEF Query
        <5> QED
          BY <1>1, <4>1, <4>2, <5>1
      <4> QED
        BY <3>2, <3>3, <4>2, <4>3 DEF KeyOf, RowKey
    <3> QED
      BY <3>2, <3>4, <3>5
  <2>3. c2.copy = c.copy /\ DOMAIN c2.got = {} /\ c2.cursor = c.cursor /\ c2.next = end
      /\ c2.wanted = page
    BY <1>2
  <2>4. \A u \in Child : c2.copy.rows[u] # None =>
          /\ Home(u) \in Item /\ c2.copy.rows[u].item = Home(u)
          /\ c2.copy.rows[Home(u)] # None
    BY <1>8, <2>3 DEF InOrder
  <2>5. \A s \in 1..c2.cursor : d.feed[s].uid \in Item /\ d.feed[s].trail = 0 =>
          c2.copy.rows[d.feed[s].uid] # None
    BY <1>8, <2>3 DEF InOrder
  <2> QED
    BY <2>1, <2>2, <2>3, <2>4, <2>5 DEF InOrder
<1> QED
  BY <1>2, <1>3, <1>5, <1>7, <1>8 DEF Stays, Fits

(* The next row is read, as it is: nothing less is pending.                *)
LEMMA ReadRowFits ==
  ASSUME NEW c \in Client, NEW d \in Db, Fits(c, d),
         c.phase = "reading", NEW e \in c.wanted, \A f \in c.wanted : e.seq <= f.seq,
         NEW c2, c2 = [c EXCEPT !.wanted = @ \ {e},
                                !.got = Append(@, [key |-> e.key, now |-> RowAt(d, e.key)])]
  PROVE  Stays(c, c2, d)
<1> DEFINE g == [key |-> e.key, now |-> RowAt(d, e.key)]
           n == Len(c.got)
<1>1. e \in Query /\ e.key \in Key /\ e.key.uid \in Uid /\ \A f \in c.wanted : f.seq \in Nat
  BY DEF Client, Query, Key
<1>2. g \in Got /\ g.key = e.key /\ Shows(g, d) /\ g.now.row = d.rows[e.key.uid]
  <2>1. RowAt(d, e.key) \in [row : Row \cup {None}, calc : Statuses \cup {NoStatus}]
    BY <1>1 DEF RowAt, Db
  <2> QED
    BY <1>1, <2>1 DEF Got, Shows, RowAt
<1> HIDE DEF g
<1>3. c.got \in Seq(Got) /\ n \in Nat /\ DOMAIN c.got = 1..n
  BY LenProperties DEF Client
<1>4. /\ c2.phase = "reading" /\ c2.cursor = c.cursor /\ c2.next = c.next /\ c2.copy = c.copy
      /\ c2.wanted = c.wanted \ {e} /\ c2.got = Append(c.got, g)
      /\ c2 \in Client
  <2>1. Append(c.got, g) \in Seq(Got)
    BY <1>2, <1>3, AppendProperties
  <2> QED
    BY <2>1 DEF Client, g
<1>5. /\ DOMAIN c2.got = 1..(n + 1) /\ c2.got[n + 1] = g
      /\ \A k \in 1..n : c2.got[k] = c.got[k]
  BY <1>2, <1>3, <1>4, AppendProperties
<1> HIDE DEF n
<1>6. \A key : Pending(c2, key) <=> Pending(c, key)
  <2> TAKE key
  <2>1. ASSUME Pending(c, key) PROVE Pending(c2, key)
    <3>1. CASE \E k \in DOMAIN c.got : c.got[k].key = key
      BY <1>3, <1>5, <3>1 DEF Pending
    <3>2. CASE \E f \in c.wanted : f.key = key
      <4>1. CASE e.key = key
        <5>1. n + 1 \in DOMAIN c2.got /\ c2.got[n + 1].key = key
          BY <1>2, <1>3, <1>5, <4>1
        <5> QED
          BY <5>1 DEF Pending
      <4> QED
        BY <1>4, <3>2, <4>1 DEF Pending
    <3> QED
      BY <2>1, <3>1, <3>2 DEF Pending
  <2>2. ASSUME Pending(c2, key) PROVE Pending(c, key)
    <3>1. CASE \E k \in DOMAIN c2.got : c2.got[k].key = key
      <4>1. PICK k \in DOMAIN c2.got : c2.got[k].key = key
        BY <3>1
      <4>2. k \in 1..n \/ k = n + 1
        BY <1>3, <1>5
      <4> QED
        BY <1>2, <1>3, <1>5, <4>1, <4>2 DEF Pending
    <3>2. CASE \E f \in c2.wanted : f.key = key
      BY <1>4, <3>2 DEF Pending
    <3> QED
      BY <2>2, <3>1, <3>2 DEF Pending
  <2> QED
    BY <2>1, <2>2
<1>7. Placed(c2, d)
  BY <1>4 DEF Fits, Placed
<1>8. Behind(c2, d)
  BY <1>4, <1>6 DEF Fits, Behind
<1>9. Ahead(c2, d)
  <2>1. ASSUME NEW k \in DOMAIN c2.got, c2.got[k].key.trail = 0, ~Shows(c2.got[k], d)
        PROVE  NamedAfter(d, c2.next, c2.got[k].key)
    <3>1. k \in 1..n
      BY <1>2, <1>3, <1>5, <2>1
    <3> QED
      BY <1>3, <1>4, <1>5, <2>1, <3>1 DEF Fits, Ahead
  <2> QED
    BY <1>4, <1>6, <2>1 DEF Fits, Ahead
<1>10. ASSUME Orderly(d), InOrder(c, d) PROVE InOrder(c2, d)
  <2>1. ASSUME NEW u, \E k \in DOMAIN c.got : c.got[k].key = RowKey(u)
        PROVE  \E k \in 1..n : c2.got[k].key = RowKey(u)
    BY <1>3, <1>5, <2>1
  <2>2. ASSUME NEW f \in c2.wanted, f.key.uid \in Child
        PROVE  LET home == Home(f.key.uid)
               IN  /\ home \in Item
                   /\ \/ c2.copy.rows[home] # None
                      \/ \E k \in DOMAIN c2.got : c2.got[k].key = RowKey(home)
                      \/ \E f2 \in c2.wanted : f2.key = RowKey(home) /\ f2.seq < f.seq
    <3> DEFINE home == Home(f.key.uid)
    <3>1. f \in c.wanted /\ n + 1 \in DOMAIN c2.got /\ c2.got[n + 1].key = e.key
      BY <1>2, <1>3, <1>4, <1>5
    <3>2. /\ home \in Item
          /\ \/ c.copy.rows[home] # None
             \/ \E k \in DOMAIN c.got : c.got[k].key = RowKey(home)
             \/ \E f2 \in c.wanted : f2.key = RowKey(home) /\ f2.seq < f.seq
      BY <1>10, <2>2, <3>1 DEF InOrder
    <3>3. (\E k \in DOMAIN c.got : c.got[k].key = RowKey(home)) =>
            \E k \in DOMAIN c2.got : c2.got[k].key = RowKey(home)
      BY <1>3, <1>5
    <3> HIDE DEF home
    <3>4. (\E f2 \in c.wanted : f2.key = RowKey(home) /\ f2.seq < f.seq) =>
            \/ \E k \in DOMAIN c2.got : c2.got[k].key = RowKey(home)
            \/ \E f2 \in c2.wanted : f2.key = RowKey(home) /\ f2.seq < f.seq
      BY <1>4, <3>1
    <3> QED
      BY <1>4, <3>2, <3>3, <3>4 DEF home
  <2>3. ASSUME NEW k \in DOMAIN c2.got, c2.got[k].key.uid \in Child
        PROVE  LET home == Home(c2.got[k].key.uid)
               IN  /\ home \in Item
                   /\ \/ c2.copy.rows[home] # None
                      \/ \E m \in 1..(k - 1) : c2.got[m].key = RowKey(home)
                   /\ c2.got[k].now.row # None => c2.got[k].now.row.item = home
    <3>1. CASE k \in 1..n
      <4>1. k \in DOMAIN c.got /\ c2.got[k] = c.got[k] /\ \A m \in 1..(k - 1) : c2.got[m] = c.got[m]
        BY <1>3, <1>5, <3>1
      <4>2. c.got[k].key.uid \in Child
        BY <2>3, <4>1
      <4>3. LET home == Home(c.got[k].key.uid)
            IN  /\ home \in Item
                /\ \/ c.copy.rows[home] # None
                   \/ \E m \in 1..(k - 1) : c.got[m].key = RowKey(home)
                /\ c.got[k].now.row # None => c.got[k].now.row.item = home
        BY <1>10, <4>1, <4>2 DEF InOrder
      <4> QED
        BY <1>4, <4>1, <4>3
    <3>2. CASE k = n + 1
      <4> DEFINE home == Home(e.key.uid)
      <4>1. c2.got[k].key = e.key /\ c2.got[k].now.row = d.rows[e.key.uid] /\ e.key.uid \in Child
        BY <1>2, <1>5, <2>3, <3>2
      <4>2. /\ home \in Item
            /\ \/ c.copy.rows[home] # None
               \/ \E j \in DOMAIN c.got : c.got[j].key = RowKey(home)
               \/ \E f2 \in c.wanted : f2.key = RowKey(home) /\ f2.seq < e.seq
        BY <1>10, <4>1 DEF InOrder
      <4> HIDE DEF home
      <4>3. ~\E f2 \in c.wanted : f2.key = RowKey(home) /\ f2.seq < e.seq
        BY <1>1
      <4>4. (\E j \in DOMAIN c.got : c.got[j].key = RowKey(home)) =>
              \E m \in 1..(k - 1) : c2.got[m].key = RowKey(home)
        BY <1>3, <1>5, <3>2
      <4>5. d.rows[e.key.uid] # None => d.rows[e.key.uid].item = home
        BY <1>10, <4>1 DEF Orderly, home
      <4> QED
        BY <1>4, <4>1, <4>2, <4>3, <4>4, <4>5 DEF home
    <3>3. k \in 1..n \/ k = n + 1
      BY <1>3, <1>5
    <3> QED
      BY <3>1, <3>2, <3>3
  <2>4. ASSUME NEW k \in DOMAIN c2.got, c2.got[k].key.uid \in Item
        PROVE  c2.got[k].now.row # None
    <3>1. CASE k \in 1..n
      BY <1>3, <1>5, <1>10, <2>4, <3>1 DEF InOrder
    <3>2. CASE k = n + 1
      <4>1. c2.got[k] = g /\ e.key.uid \in Item
        BY <1>2, <1>5, <2>4, <3>2
      <4>2. e.seq \in 1..Len(d.feed) /\ e.key = KeyOf(d.feed[e.seq])
        BY FeedIsSeq DEF Fits, Placed, Client
      <4>3. d.rows[e.key.uid] # None
        BY <1>10, <4>1, <4>2 DEF Orderly, KeyOf
      <4> QED
        BY <1>2, <4>1, <4>3
    <3> QED
      BY <1>3, <1>5, <3>1, <3>2
  <2>5. /\ \A s \in 1..c2.cursor : d.feed[s].uid \in Item /\ d.feed[s].trail = 0 =>
             c2.copy.rows[d.feed[s].uid] # None
        /\ \A s \in (c2.cursor + 1)..c2.next : d.feed[s].uid \in Item /\ d.feed[s].trail = 0 =>
             c2.copy.rows[d.feed[s].uid] # None \/ Pending(c2, RowKey(d.feed[s].uid))
        /\ \A u \in Child : c2.copy.rows[u] # None =>
             /\ Home(u) \in Item /\ c2.copy.rows[u].item = Home(u)
             /\ c2.copy.rows[Home(u)] # None
    BY <1>4, <1>6, <1>10 DEF InOrder
  <2> QED
    BY <1>4, <2>2, <2>3, <2>4, <2>5 DEF InOrder
<1> QED
  BY <1>4, <1>7, <1>8, <1>9, <1>10 DEF Stays, Fits

(* The answer arrives: nothing changes but where it is.                    *)
LEMMA DeliverFits ==
  ASSUME NEW c \in Client, NEW d, Fits(c, d), c.phase = "reading", c.wanted = {},
         NEW c2, c2 = [c EXCEPT !.phase = "applying"]
  PROVE  Stays(c, c2, d)
<1>1. /\ c2.phase = "applying" /\ c2.cursor = c.cursor /\ c2.next = c.next
      /\ c2.copy = c.copy /\ c2.wanted = c.wanted /\ c2.got = c.got /\ c2 \in Client
  BY DEF Client
<1>2. \A key : Pending(c2, key) <=> Pending(c, key)
  BY <1>1 DEF Pending
<1>3. Fits(c2, d)
  BY <1>1, <1>2 DEF Fits, Placed, Behind, Ahead
<1>4. InOrder(c, d) => InOrder(c2, d)
  BY <1>1, <1>2 DEF InOrder
<1> QED
  BY <1>1, <1>3, <1>4 DEF Stays

(* What the reader writes of a change.                                     *)
LEMMA StoredFacts ==
  ASSUME NEW copy \in Copy, NEW g \in Got
  PROVE  LET s == Stored(copy, g)
         IN  /\ s \in Copy
             /\ g.key.trail # 0 =>
                  /\ s.rows = copy.rows /\ s.calc = copy.calc
                  /\ \A i \in Item : s.trail[i] = IF i = g.key.uid
                                     THEN copy.trail[i] \cup {g.key.trail} ELSE copy.trail[i]
             /\ g.key.trail = 0 =>
                  /\ s.trail = copy.trail
                  /\ \A u \in Uid : s.rows[u] = IF u = g.key.uid THEN g.now.row ELSE copy.rows[u]
                  /\ \A i \in Item : s.calc[i] = IF i = g.key.uid THEN g.now.calc ELSE copy.calc[i]
<1> DEFINE s == Stored(copy, g)
<1>1. g.key.uid \in Uid /\ g.key.trail \in Nat /\ g.now.row \in Row \cup {None}
      /\ g.now.calc \in Statuses \cup {NoStatus}
  BY DEF Got, Key
<1>2. CASE g.key.trail # 0
  <2>1. s = [copy EXCEPT !.trail = [copy.trail EXCEPT ![g.key.uid] = @ \cup {g.key.trail}]]
    BY <1>1, <1>2 DEF Stored
  <2>2. /\ s.rows = copy.rows /\ s.calc = copy.calc
        /\ s.trail = [copy.trail EXCEPT ![g.key.uid] = @ \cup {g.key.trail}]
        /\ s \in Copy
    BY <1>1, <2>1 DEF Copy
  <2> QED
    BY <1>2, <2>2 DEF Copy
<1>3. CASE g.key.trail = 0
  <2> DEFINE rows == [copy.rows EXCEPT ![g.key.uid] = g.now.row]
             calc == [i \in Item |-> IF i = g.key.uid THEN g.now.calc ELSE copy.calc[i]]
  <2>1. s = [copy EXCEPT !.rows = rows, !.calc = calc]
    BY <1>1, <1>3 DEF Stored
  <2>2. rows \in [Uid -> Row \cup {None}] /\ calc \in [Item -> Statuses \cup {NoStatus}]
    BY <1>1 DEF Copy
  <2> HIDE DEF rows, calc
  <2>3. s.rows = rows /\ s.calc = calc /\ s.trail = copy.trail /\ s \in Copy
    BY <2>1, <2>2 DEF Copy
  <2> QED
    BY <1>3, <2>3 DEF Copy, rows, calc
<1> QED
  BY <1>2, <1>3

(* The next change is applied: a row that has changed since is named again,*)
(* and a child finds its item there.                                       *)
LEMMA ApplyFits ==
  ASSUME NEW c \in Client, NEW d \in Db, Fits(c, d), c.phase = "applying", c.got # <<>>,
         NEW c2, c2 = [c EXCEPT !.copy = Stored(@, Head(c.got)), !.got = Tail(@)]
  PROVE  Stays(c, c2, d)
<1> DEFINE g    == Head(c.got)
           copy == Stored(c.copy, g)
           n    == Len(c.got)
<1>1. /\ c.got \in Seq(Got) /\ n \in Nat \ {0} /\ DOMAIN c.got = 1..n
      /\ g = c.got[1] /\ g \in Got /\ c.wanted = {} /\ c.copy \in Copy
  <2>1. c.got \in Seq(Got) /\ c.wanted = {} /\ c.copy \in Copy
    BY DEF Client, Fits, Placed
  <2>2. n \in Nat \ {0} /\ DOMAIN c.got = 1..n
    BY <2>1, LenProperties, EmptySeq
  <2>3. g = c.got[1] /\ g \in Got
    BY <2>1, HeadTailProperties
  <2> QED
    BY <2>1, <2>2, <2>3
<1>2. g.key \in Key /\ g.key.uid \in Uid /\ g.key.trail \in Nat
      /\ g.key = [uid |-> g.key.uid, trail |-> g.key.trail]
  BY <1>1 DEF Got, Key
<1>3. /\ copy \in Copy
      /\ g.key.trail # 0 =>
           /\ copy.rows = c.copy.rows /\ copy.calc = c.copy.calc
           /\ \A i \in Item : copy.trail[i] = IF i = g.key.uid
                              THEN c.copy.trail[i] \cup {g.key.trail} ELSE c.copy.trail[i]
      /\ g.key.trail = 0 =>
           /\ copy.trail = c.copy.trail
           /\ \A u \in Uid : copy.rows[u] = IF u = g.key.uid THEN g.now.row ELSE c.copy.rows[u]
           /\ \A i \in Item : copy.calc[i] = IF i = g.key.uid THEN g.now.calc ELSE c.copy.calc[i]
  <2> HIDE DEF g
  <2> QED
    BY <1>1, StoredFacts
<1>4. /\ c2.phase = "applying" /\ c2.cursor = c.cursor /\ c2.next = c.next
      /\ c2.wanted = {} /\ c2.copy = copy /\ c2.got = Tail(c.got) /\ c2 \in Client
  <2>1. Tail(c.got) \in Seq(Got)
    BY <1>1, HeadTailProperties
  <2> HIDE DEF copy
  <2>2. c2 = [c EXCEPT !.copy = copy, !.got = Tail(c.got)]
    BY DEF copy
  <2> QED
    BY <1>1, <1>3, <2>1, <2>2 DEF Client
<1>5. DOMAIN c2.got = 1..(n - 1) /\ \A k \in 1..(n - 1) : c2.got[k] = c.got[k + 1]
  <2>1. Len(Tail(c.got)) = n - 1 /\ \A k \in 1..(n - 1) : Tail(c.got)[k] = c.got[k + 1]
    BY <1>1, HeadTailProperties
  <2>2. Tail(c.got) \in Seq(Got)
    BY <1>1, HeadTailProperties
  <2>3. DOMAIN Tail(c.got) = 1..Len(Tail(c.got))
    BY <2>2, LenProperties
  <2> HIDE DEF n
  <2> QED
    BY <1>4, <2>1, <2>3
<1> HIDE DEF n, g, copy
<1>6. ASSUME NEW key PROVE Pending(c, key) <=> (key = g.key \/ Pending(c2, key))
  <2>1. Pending(c, key) <=> \E k \in 1..n : c.got[k].key = key
    BY <1>1 DEF Pending
  <2>2. Pending(c2, key) <=> \E k \in 1..(n - 1) : c.got[k + 1].key = key
    BY <1>4, <1>5 DEF Pending
  <2>3. \A k \in 1..n : k = 1 \/ (k - 1 \in 1..(n - 1) /\ (k - 1) + 1 = k)
    BY <1>1
  <2>4. 1 \in 1..n /\ \A k \in 1..(n - 1) : k + 1 \in 1..n
    BY <1>1
  <2> QED
    BY <1>1, <2>1, <2>2, <2>3, <2>4
<1>7. Placed(c2, d)
  BY <1>4 DEF Fits, Placed
<1>8. ASSUME NEW u \in Uid, ~SameRow(d, copy, u)
      PROVE  \/ ~SameRow(d, c.copy, u) /\ RowKey(u) # g.key
             \/ RowKey(u) = g.key /\ ~Shows(g, d)
  <2>1. CASE g.key.trail # 0
    BY <1>3, <1>8, <2>1 DEF SameRow, RowKey
  <2>2. CASE g.key.trail = 0
    <3>1. CASE u = g.key.uid
      BY <1>2, <1>3, <1>8, <2>2, <3>1 DEF SameRow, RowKey, Shows
    <3>2. CASE u # g.key.uid
      BY <1>3, <1>8, <2>2, <3>2 DEF SameRow, RowKey
    <3> QED
      BY <3>1, <3>2
  <2> QED
    BY <2>1, <2>2
<1>9. ASSUME NEW i \in Item, NEW k \in DOMAIN d.trail[i], k \notin copy.trail[i]
      PROVE  k \notin c.copy.trail[i] /\ [uid |-> i, trail |-> k] # g.key
  <2>1. k # 0
    <3>1. d.trail[i] \in Seq([from : Value \cup {None}, to : Value \cup {None}])
      BY DEF Db
    <3>2. DOMAIN d.trail[i] = 1..Len(d.trail[i]) /\ Len(d.trail[i]) \in Nat
      BY <3>1, LenProperties
    <3> QED
      BY <3>2
  <2>2. CASE g.key.trail = 0
    <3>1. copy.trail = c.copy.trail
      BY <1>3, <2>2
    <3> QED
      BY <1>9, <2>1, <2>2, <3>1
  <2>3. CASE g.key.trail # 0
    <3>1. copy.trail[i] = IF i = g.key.uid
                          THEN c.copy.trail[i] \cup {g.key.trail} ELSE c.copy.trail[i]
      BY <1>3, <2>3
    <3> QED
      BY <1>9, <3>1
  <2> QED
    BY <1>2, <2>2, <2>3
<1>10. Behind(c2, d)
  <2>1. \A key \in Key : Pending(c2, key) => NamedAfter(d, c2.cursor, key)
    BY <1>4, <1>6 DEF Fits, Behind
  <2>2. ASSUME NEW u \in Uid, ~SameRow(d, c2.copy, u) PROVE NamedAfter(d, c2.cursor, RowKey(u))
    <3>1. Pending(c, g.key)
      BY <1>6
    <3> QED
      BY <1>2, <1>4, <1>8, <2>2, <3>1 DEF Fits, Behind
  <2> QED
    BY <1>4, <1>9, <2>1, <2>2 DEF Fits, Behind
<1>11. Ahead(c2, d)
  <2>1. ASSUME NEW k \in DOMAIN c2.got, c2.got[k].key.trail = 0, ~Shows(c2.got[k], d)
        PROVE  NamedAfter(d, c2.next, c2.got[k].key)
    <3>1. k + 1 \in DOMAIN c.got /\ c2.got[k] = c.got[k + 1]
      BY <1>1, <1>5
    <3> QED
      BY <1>4, <2>1, <3>1 DEF Fits, Ahead
  <2>2. ASSUME NEW u \in Uid, ~SameRow(d, c2.copy, u), ~Pending(c2, RowKey(u))
        PROVE  NamedAfter(d, c2.next, RowKey(u))
    <3>1. CASE RowKey(u) = g.key /\ ~Shows(g, d)
      <4>1. 1 \in DOMAIN c.got /\ c.got[1].key.trail = 0 /\ ~Shows(c.got[1], d)
        BY <1>1, <3>1 DEF RowKey
      <4> QED
        BY <1>1, <1>4, <3>1, <4>1 DEF Fits, Ahead
    <3>2. CASE ~SameRow(d, c.copy, u) /\ RowKey(u) # g.key
      BY <1>4, <1>6, <2>2, <3>2 DEF Fits, Ahead
    <3> QED
      BY <1>4, <1>8, <2>2, <3>1, <3>2
  <2>3. ASSUME NEW i \in Item, NEW k \in DOMAIN d.trail[i],
               k \notin c2.copy.trail[i], ~Pending(c2, [uid |-> i, trail |-> k])
        PROVE  NamedAfter(d, c2.next, [uid |-> i, trail |-> k])
    <3>1. CASE [uid |-> i, trail |-> k] = g.key
      BY <1>2, <1>4, <1>9, <2>3, <3>1
    <3>2. CASE [uid |-> i, trail |-> k] # g.key
      BY <1>4, <1>6, <1>9, <2>3, <3>2 DEF Fits, Ahead
    <3> QED
      BY <3>1, <3>2
  <2> QED
    BY <2>1, <2>2, <2>3 DEF Ahead
<1>12. ASSUME InOrder(c, d) PROVE InOrder(c2, d)
  <2>1. 1 \in DOMAIN c.got /\ c.got[1] = g
    BY <1>1
  <2>2. g.key.uid \in Item => g.now.row # None
    BY <1>12, <2>1 DEF InOrder
  <2>3. ASSUME NEW i \in Item, c.copy.rows[i] # None \/ RowKey(i) = g.key
        PROVE  copy.rows[i] # None
    <3>1. i \in Uid /\ (RowKey(i) = g.key => g.key.trail = 0 /\ g.key.uid = i)
      BY DEF Uid, RowKey
    <3>2. CASE g.key.trail # 0
      BY <1>3, <2>3, <3>1, <3>2
    <3>3. CASE g.key.trail = 0
      BY <1>3, <2>2, <2>3, <3>1, <3>3
    <3> QED
      BY <3>2, <3>3
  <2>4. \A s \in 1..c2.cursor : d.feed[s].uid \in Item /\ d.feed[s].trail = 0 =>
          copy.rows[d.feed[s].uid] # None
    BY <1>4, <1>12, <2>3 DEF InOrder
  <2>5. \A s \in (c2.cursor + 1)..c2.next : d.feed[s].uid \in Item /\ d.feed[s].trail = 0 =>
          copy.rows[d.feed[s].uid] # None \/ Pending(c2, RowKey(d.feed[s].uid))
    BY <1>4, <1>6, <1>12, <2>3 DEF InOrder
  <2>6. ASSUME NEW k \in DOMAIN c2.got, c2.got[k].key.uid \in Child
        PROVE  LET home == Home(c2.got[k].key.uid)
               IN  /\ home \in Item
                   /\ \/ copy.rows[home] # None
                      \/ \E m \in 1..(k - 1) : c2.got[m].key = RowKey(home)
                   /\ c2.got[k].now.row # None => c2.got[k].now.row.item = home
    <3> DEFINE home == Home(c2.got[k].key.uid)
    <3>0. k \in 1..(n - 1)
      BY <1>5
    <3>1. k + 1 \in DOMAIN c.got /\ c2.got[k] = c.got[k + 1] /\ k \in 1..(n - 1)
      BY <1>1, <1>5, <3>0
    <3>2. /\ home \in Item
          /\ \/ c.copy.rows[home] # None
             \/ \E m \in 1..((k + 1) - 1) : c.got[m].key = RowKey(home)
          /\ c2.got[k].now.row # None => c2.got[k].now.row.item = home
      BY <1>12, <2>6, <3>1 DEF InOrder
    <3> HIDE DEF home
    <3>3. ASSUME NEW m \in 1..((k + 1) - 1), c.got[m].key = RowKey(home)
          PROVE  \/ RowKey(home) = g.key
                 \/ \E j \in 1..(k - 1) : c2.got[j].key = RowKey(home)
      <4>1. CASE m = 1
        BY <2>1, <3>3, <4>1
      <4>2. CASE m # 1
        <5>0. n \in Nat /\ k \in 1..(n - 1) /\ m \in 1..k /\ m # 1
          BY <1>1, <3>1, <3>3, <4>2
        <5>1. m - 1 \in 1..(k - 1) /\ m - 1 \in 1..(n - 1) /\ (m - 1) + 1 = m
          BY <5>0
        <5>2. c2.got[m - 1] = c.got[m]
          BY <1>5, <5>1
        <5> QED
          BY <3>3, <5>1, <5>2
      <4> QED
        BY <4>1, <4>2
    <3> QED
      BY <2>3, <3>2, <3>3 DEF home
  <2>7. ASSUME NEW k \in DOMAIN c2.got, c2.got[k].key.uid \in Item
        PROVE  c2.got[k].now.row # None
    <3>1. k + 1 \in DOMAIN c.got /\ c2.got[k] = c.got[k + 1]
      BY <1>1, <1>5
    <3> QED
      BY <1>12, <2>7, <3>1 DEF InOrder
  <2>8. ASSUME NEW u \in Child, copy.rows[u] # None
        PROVE  /\ Home(u) \in Item /\ copy.rows[u].item = Home(u)
               /\ copy.rows[Home(u)] # None
    <3>1. CASE g.key.trail = 0 /\ g.key.uid = u
      <4>1. copy.rows[u] = g.now.row
        BY <1>2, <1>3, <3>1
      <4>2. /\ Home(u) \in Item
            /\ \/ c.copy.rows[Home(u)] # None
               \/ \E m \in 1..(1 - 1) : c.got[m].key = RowKey(Home(u))
            /\ g.now.row # None => g.now.row.item = Home(u)
        BY <1>12, <2>1, <3>1 DEF InOrder
      <4> QED
        BY <2>3, <2>8, <4>1, <4>2
    <3>2. CASE ~(g.key.trail = 0 /\ g.key.uid = u)
      <4>1. copy.rows[u] = c.copy.rows[u]
        <5>1. CASE g.key.trail # 0
          BY <1>3, <5>1
        <5>2. CASE g.key.trail = 0
          BY <1>3, <3>2, <5>2 DEF Uid
        <5> QED
          BY <5>1, <5>2
      <4> QED
        BY <1>12, <2>3, <2>8, <4>1 DEF InOrder
    <3> QED
      BY <3>1, <3>2
  <2> QED
    BY <1>4, <2>4, <2>5, <2>6, <2>7, <2>8 DEF InOrder
<1> QED
  BY <1>4, <1>7, <1>10, <1>11, <1>12 DEF Stays, Fits

(* The cursor moves past a page that is applied: what the copy lacks lies  *)
(* after it.                                                               *)
LEMMA MoveFits ==
  ASSUME NEW c \in Client, NEW d, Fits(c, d), c.phase = "applying", c.got = <<>>,
         NEW c2, c2 = [c EXCEPT !.phase = "idle", !.cursor = c.next]
  PROVE  Stays(c, c2, d)
<1>1. /\ c2.phase = "idle" /\ c2.cursor = c.next /\ c2.copy = c.copy
      /\ c2.wanted = c.wanted /\ c2.got = c.got /\ c2 \in Client
  BY DEF Client
<1>2. c.wanted = {} /\ (\A key : ~Pending(c, key)) /\ (\A key : ~Pending(c2, key))
  BY <1>1 DEF Fits, Placed, Pending
<1>3. Placed(c2, d)
  BY <1>1, <1>2 DEF Fits, Placed
<1>4. Behind(c2, d) /\ Ahead(c2, d)
  BY <1>1, <1>2 DEF Fits, Behind, Ahead
<1>5. ASSUME InOrder(c, d) PROVE InOrder(c2, d)
  <2>1. c.cursor \in Nat /\ c.next \in Nat
    BY DEF Client
  <2>2. \A s \in 1..c.next : s \in 1..c.cursor \/ s \in (c.cursor + 1)..c.next
    BY <2>1
  <2>3. \A s \in 1..c.next : d.feed[s].uid \in Item /\ d.feed[s].trail = 0 =>
          c.copy.rows[d.feed[s].uid] # None
    BY <1>2, <1>5, <2>2 DEF InOrder
  <2> QED
    BY <1>1, <1>2, <1>5, <2>3 DEF InOrder
<1> QED
  BY <1>1, <1>3, <1>4, <1>5 DEF Stays, Fits

(* A request that is lost leaves what was applied.                         *)
LEMMA LoseFits ==
  ASSUME NEW c \in Client, NEW d, Fits(c, d),
         NEW c2, c2 = [NewReader EXCEPT !.cursor = c.cursor, !.copy = c.copy]
  PROVE  Stays(c, c2, d)
<1>1. /\ c2.phase = "idle" /\ c2.cursor = c.cursor /\ c2.copy = c.copy
      /\ c2.wanted = {} /\ c2.got = <<>> /\ c2 \in Client
  <2>1. <<>> \in Seq(Got)
    BY EmptySeq
  <2>2. c.cursor \in Nat /\ c.copy \in Copy
    BY DEF Fits, Client
  <2>3. c2 \in Client
    BY <2>1, <2>2 DEF NewReader, Client
  <2>4. /\ c2.phase = "idle" /\ c2.cursor = c.cursor /\ c2.copy = c.copy
        /\ c2.wanted = {} /\ c2.got = <<>>
    BY DEF NewReader
  <2> QED
    BY <2>3, <2>4
<1>2. \A key : ~Pending(c2, key)
  BY <1>1 DEF Pending
<1>3. Fits(c2, d)
  <2>1. Placed(c2, d)
    BY <1>1 DEF Fits, Placed
  <2>2. Behind(c2, d)
    BY <1>1, <1>2 DEF Fits, Behind
  <2>3. Ahead(c2, d)
    BY <1>1 DEF Ahead
  <2> QED
    BY <2>1, <2>2, <2>3 DEF Fits
<1>4. ASSUME InOrder(c, d) PROVE InOrder(c2, d)
  <2>1. \A s \in 1..c2.cursor : d.feed[s].uid \in Item /\ d.feed[s].trail = 0 =>
          c2.copy.rows[d.feed[s].uid] # None
    BY <1>1, <1>4 DEF InOrder
  <2>2. DOMAIN c2.got = {}
    BY <1>1, EmptySeq
  <2>3. \A u \in Child : c2.copy.rows[u] # None =>
          /\ Home(u) \in Item /\ c2.copy.rows[u].item = Home(u)
          /\ c2.copy.rows[Home(u)] # None
    BY <1>1, <1>4 DEF InOrder
  <2> QED
    BY <2>1, <2>2, <2>3, <1>1 DEF InOrder
<1> QED
  BY <1>1, <1>3, <1>4 DEF Stays

-----------------------------------------------------------------------------
(* The feed.                                                               *)

(* A new reader has nothing, of a project that has nothing.                *)
LEMMA InitFeedInv == FeedInit => FeedInv
<1> SUFFICES ASSUME FeedInit PROVE FeedInv
  OBVIOUS
<1>1. IInv
  BY InitIInv DEF FeedInit
<1>2. db = EmptyDb /\ \A w \in Worker : tx[w].phase = "idle"
  BY DEF FeedInit, Init, Idle
<1>3. /\ EmptyDb.feed = <<>> /\ Len(EmptyDb.feed) = 0 /\ DOMAIN EmptyDb.feed = {}
      /\ \A i \in Item : EmptyDb.trail[i] = <<>> /\ DOMAIN EmptyDb.trail[i] = {}
      /\ \A i \in Item : EmptyDb.calc[i] = NoStatus
      /\ \A u \in Uid : EmptyDb.rows[u] = None
  <2>1. EmptyDb.feed = <<>> /\ \A i \in Item : EmptyDb.trail[i] = <<>>
    BY DEF EmptyDb
  <2>2. Len(<<>>) = 0 /\ DOMAIN <<>> = {}
    OBVIOUS
  <2> QED
    BY <2>1, <2>2 DEF EmptyDb
<1>4. FollowInv
  <2>1. Orderly(EmptyDb)
    BY <1>3 DEF Orderly, Uid
  <2> QED
    BY <1>2, <2>1 DEF FollowInv
<1>5. NewReader \in Client /\ Fits(NewReader, EmptyDb) /\ InOrder(NewReader, EmptyDb)
  <2> DEFINE c == NewReader
  <2>1. EmptyCopy \in Copy
    BY DEF EmptyCopy, Copy
  <2>2. /\ c.phase = "idle" /\ c.cursor = 0 /\ c.wanted = {} /\ c.got = <<>>
        /\ c.copy = EmptyCopy /\ c \in Client
    <3>1. <<>> \in Seq(Got)
      BY EmptySeq
    <3> QED
      BY <2>1, <3>1 DEF NewReader, Client
  <2> HIDE DEF c
  <2>3. \A key : ~Pending(c, key)
    BY <2>2 DEF Pending
  <2>4. \A u \in Uid : SameRow(EmptyDb, c.copy, u) /\ c.copy.rows[u] = None
    BY <1>3, <2>2 DEF SameRow, EmptyCopy
  <2>5. Fits(c, EmptyDb)
    BY <1>3, <2>2, <2>3, <2>4 DEF Fits, Placed, Behind, Ahead
  <2>6. InOrder(c, EmptyDb)
    <3>1. DOMAIN c.got = {} /\ 1..c.cursor = {}
      BY <2>2
    <3> QED
      BY <2>2, <2>4, <3>1 DEF InOrder, Uid
  <2> QED
    BY <2>2, <2>5, <2>6 DEF c
<1> QED
  BY <1>1, <1>2, <1>4, <1>5 DEF FeedInv, FeedInit

(* Every step of the writers and of the readers keeps the invariant.       *)
LEMMA FeedStepKeeps == FeedInv /\ [FeedNext]_feedVars => FeedInv'
<1> SUFFICES ASSUME FeedInv, [FeedNext]_feedVars PROVE FeedInv'
  OBVIOUS
<1>1. CASE [Next]_vars /\ UNCHANGED reader
  <2>1. IInv' /\ FollowInv' /\ Grows(db, db')
    BY <1>1, StepKeeps, StepGrows DEF FeedInv
  <2>2. \A r \in Reader : reader[r] \in Client /\ Fits(reader[r], db)
    BY DEF FeedInv
  <2>3. \A r \in Reader : /\ Fits(reader[r], db')
                          /\ InOrder(reader[r], db) => InOrder(reader[r], db')
    BY <2>1, <2>2, WritersFit
  <2> QED
    BY <1>1, <2>1, <2>3 DEF FeedInv
<1>2. ASSUME NEW r \in Reader, UNCHANGED vars,
             NEW c2, reader' = [reader EXCEPT ![r] = c2], Stays(reader[r], c2, db)
      PROVE  FeedInv'
  <2>1. IInv' /\ FollowInv' /\ db' = db
    <3>1. [Next]_vars /\ db' = db
      BY <1>2 DEF vars
    <3> QED
      BY <3>1, StepKeeps, StepGrows DEF FeedInv
  <2>2. \A q \in Reader : reader'[q] = IF q = r THEN c2 ELSE reader[q]
    BY <1>2 DEF FeedInv
  <2>3. reader' \in [Reader -> Client]
    BY <1>2 DEF FeedInv, Stays
  <2>4. \A q \in Reader : Fits(reader'[q], db)
    BY <1>2, <2>2 DEF FeedInv, Stays
  <2>5. OneHome => \A q \in Reader : InOrder(reader'[q], db)
    BY <1>2, <2>2 DEF FeedInv, FollowInv, Stays
  <2> QED
    BY <2>1, <2>3, <2>4, <2>5 DEF FeedInv
<1>3. ASSUME NEW r \in Reader, UNCHANGED vars,
             \/ ReadFeed(r) \/ ReadRow(r) \/ Deliver(r)
             \/ ApplyChange(r) \/ MoveCursor(r) \/ Lose(r)
      PROVE  \E c2 : reader' = [reader EXCEPT ![r] = c2] /\ Stays(reader[r], c2, db)
  <2> DEFINE c == reader[r]
  <2>1. c \in Client /\ Fits(c, db) /\ db \in Db
    BY DEF FeedInv, IInv, TypeOK
  <2>2. CASE ReadFeed(r)
    <3> DEFINE c2 == [c EXCEPT !.phase  = "reading",
                               !.next   = PageEnd(db, c.cursor),
                               !.wanted = Page(db, c.cursor),
                               !.got    = <<>>]
    <3>1. reader' = [reader EXCEPT ![r] = c2]
      BY <2>2 DEF ReadFeed, NextCursor
    <3>2. c.phase = "idle" /\ c.cursor < Len(db.feed)
      BY <2>1, <2>2, FeedIsSeq DEF ReadFeed, SeqOf, Client
    <3>3. Stays(c, c2, db)
      BY <2>1, <3>2, ReadFeedFits
    <3> QED
      BY <3>1, <3>3
  <2>3. CASE ReadRow(r)
    <3>1. PICK e \in c.wanted :
            /\ \A f \in c.wanted : e.seq <= f.seq
            /\ reader' = [reader EXCEPT ![r] =
                  [c EXCEPT !.wanted = @ \ {e},
                            !.got = Append(@, [key |-> e.key, now |-> RowAt(db, e.key)])]]
      BY <2>3 DEF ReadRow
    <3>2. c.phase = "reading"
      BY <2>3 DEF ReadRow
    <3>3. Stays(c, [c EXCEPT !.wanted = @ \ {e},
                             !.got = Append(@, [key |-> e.key, now |-> RowAt(db, e.key)])], db)
      BY <2>1, <3>1, <3>2, ReadRowFits
    <3> QED
      BY <3>1, <3>3
  <2>4. CASE Deliver(r)
    <3>1. /\ reader' = [reader EXCEPT ![r] = [c EXCEPT !.phase = "applying"]]
          /\ c.phase = "reading" /\ c.wanted = {}
      BY <2>4 DEF Deliver
    <3> QED
      BY <2>1, <3>1, DeliverFits
  <2>5. CASE ApplyChange(r)
    <3>1. /\ reader' = [reader EXCEPT ![r] =
                         [c EXCEPT !.copy = Stored(@, Head(c.got)), !.got = Tail(@)]]
          /\ c.phase = "applying" /\ c.got # <<>>
      BY <2>5 DEF ApplyChange
    <3> QED
      BY <2>1, <3>1, ApplyFits
  <2>6. CASE MoveCursor(r)
    <3>1. /\ reader' = [reader EXCEPT ![r] = [c EXCEPT !.phase = "idle", !.cursor = c.next]]
          /\ c.phase = "applying" /\ c.got = <<>>
      BY <2>6 DEF MoveCursor
    <3> QED
      BY <2>1, <3>1, MoveFits
  <2>7. CASE Lose(r)
    <3>1. reader' = [reader EXCEPT ![r] =
            [NewReader EXCEPT !.cursor = c.cursor, !.copy = c.copy]]
      BY <2>7 DEF Lose
    <3> QED
      BY <2>1, <3>1, LoseFits
  <2> QED
    BY <1>3, <2>2, <2>3, <2>4, <2>5, <2>6, <2>7
<1>4. CASE FeedNext
  BY <1>1, <1>2, <1>3, <1>4 DEF FeedNext, ReaderStep
<1>5. CASE UNCHANGED feedVars
  BY <1>1, <1>5 DEF feedVars, vars
<1> QED
  BY <1>4, <1>5

(* The inductive invariant of writers and readers together.                *)
THEOREM FeedInvariance == FeedSpec => []FeedInv
<1> QED
  BY InitFeedInv, FeedStepKeeps, PTL DEF FeedSpec

(* A reader misses nothing (changesSince, _pull): a row of its copy that   *)
(* is not the committed one is named by a change after its cursor, for any *)
(* page size, any number of readers and writers, and whatever answers are  *)
(* lost.                                                                   *)
THEOREM ReadersAreCurrent == FeedSpec => []ReaderIsCurrent
<1>1. FeedInv => ReaderIsCurrent
  <2> SUFFICES ASSUME FeedInv PROVE ReaderIsCurrent
    OBVIOUS
  <2>1. \A r \in Reader : Behind(reader[r], db)
    BY DEF FeedInv, Fits
  <2>2. ASSUME NEW r \in Reader, NEW u \in Uid,
               RowAt(reader[r].copy, RowKey(u)) # RowAt(db, RowKey(u))
        PROVE  NamedAfter(db, reader[r].cursor, RowKey(u))
    <3>1. ~SameRow(db, reader[r].copy, u)
      BY <2>2 DEF SameRow, RowAt, RowKey
    <3> QED
      BY <2>1, <3>1 DEF Behind
  <2> QED
    BY <2>1, <2>2 DEF ReaderIsCurrent, Behind, RowKey
<1> QED
  BY <1>1, FeedInvariance, PTL

(* No reader ever holds a child without its item (changesSince answers     *)
(* each uid at its first place in the page), as long as a child that is    *)
(* made again is made in the same item.                                    *)
THEOREM ItemsComeFirst == ASSUME OneHome PROVE FeedSpec => []ChildrenFollowTheirItem
<1>1. FeedInv => ChildrenFollowTheirItem
  <2> SUFFICES ASSUME FeedInv PROVE ChildrenFollowTheirItem
    OBVIOUS
  <2>1. \A r \in Reader : InOrder(reader[r], db)
    BY DEF FeedInv
  <2> QED
    BY <2>1 DEF InOrder, ChildrenFollowTheirItem
<1> QED
  BY <1>1, FeedInvariance, PTL
===============================================================================
