------------------------------ MODULE ProjectDb ------------------------------
(***************************************************************************)
(* One project's tables on the team server, and what a single op does to   *)
(* them: the create, set and remove of server/lib/apply.ts as functions    *)
(* from the tables to the tables and a result.  TeamServer runs them under *)
(* the project's lock; TodoSync sends them ops from stores.                *)
(*                                                                         *)
(* Abstracted: field values are members of Value; the [n] numbers, slugs,  *)
(* author and time columns, notifications and queued deliveries are left   *)
(* to their own modules or out; a note's acknowledgements and the freezing *)
(* of request versions are the subject of RequestVersions.                 *)
(***************************************************************************)
EXTENDS Integers, Sequences, StatusModel

CONSTANTS
  Item,         \* uids of items
  Child,        \* uids of what items hold: tasks, checks, notes, log entries
  Task,         \* the children that are tasks
  Check,        \* the children that are pre-deploy checks (their timing stays so)
  ItemField,    \* columns a set may write on an item
  ChildField,   \* columns a set may write on a child
  JsonField,    \* keys of the item's "extra" json column
  Value,        \* values of fields
  None          \* null, and "no row"

Uid   == Item \cup Child
Field == ItemField \cup ChildField \cup JsonField

ASSUME FieldAssumption ==
  /\ "status" \in ItemField \cap ChildField
  /\ "position" \notin ItemField \cup JsonField
  /\ {"todo", "pending"} \subseteq Value

ASSUME UidAssumption ==
  /\ Item \cap Child = {}
  /\ Task \subseteq Child
  /\ Check \subseteq Child \ Task

Content == [Field -> Value \cup {None}]

(* A row: its item, its fields, and for each field the seq of the change   *)
(* that last wrote it; 0 is a field no change has versioned.               *)
Row  == [item : Item, val : Content, ver : [Field -> Nat]]
Tomb == [seq : Nat, byPlugin : BOOLEAN]

(* A changes-table entry.  The project's seq is the length of the feed,    *)
(* as every bump appends exactly one entry under the project's lock.       *)
(* "trail" is a history row's number, 0 for an entity's own row.           *)
Change == [uid : Uid, trail : Nat, deleted : BOOLEAN]

Db == [rows  : [Uid -> Row \cup {None}],
       tombs : [Uid -> Tomb \cup {None}],
       feed  : Seq(Change),
       calc  : [Item -> Statuses \cup {NoStatus}],
       trail : [Item -> Seq([from : Value \cup {None}, to : Value \cup {None}])]]

EmptyDb == [rows  |-> [u \in Uid |-> None],
            tombs |-> [u \in Uid |-> None],
            feed  |-> <<>>,
            calc  |-> [i \in Item |-> NoStatus],
            trail |-> [i \in Item |-> <<>>]]

SeqOf(db) == Len(db.feed)

-----------------------------------------------------------------------------
(***************************************************************************)
(* Ops and results.                                                        *)
(***************************************************************************)

IsPartial(f, S, T) == DOMAIN f \subseteq S /\ f \in [DOMAIN f -> T]

(* base is 0 for a field the op carries no version for.                    *)
IsOp(o) ==
  /\ DOMAIN o = {"id", "op", "uid", "item", "data", "base",
                 "unconditional", "plugin", "agent", "force", "group"}
  /\ o.id \in Nat
  /\ o.op \in {"create", "set", "remove"}
  /\ o.uid \in Uid
  /\ o.item \in Item
  /\ IsPartial(o.data, Field, Value \cup {None})
  /\ o.base \in [Field -> Nat]
  /\ o.unconditional \in BOOLEAN   \* the actor is a bridge: no version check
  /\ o.plugin \in BOOLEAN          \* a plugin's run made the op
  /\ o.agent \in BOOLEAN           \* via: agent
  /\ o.force \in BOOLEAN
  /\ o.group \in BOOLEAN          \* it is one of a group's ops

(* Why an op as a whole is refused; "" when it is not, or field by field.  *)
Reasons == {"", "invalid", "agent-handoff", "no-item", "uid-exists", "removed", "unknown",
            "not-removable", "stale", "error", "group-rolled-back"}

(* "versions" are the versions a result lists, None for a field it does    *)
(* not list; "refused" the fields it lists as rejected; "row" is the row   *)
(* as the op found it, which carries their server values and versions and  *)
(* the copy a colliding create is handed.                                  *)
Result == [status   : {"applied", "rejected"},
           reason   : Reasons,
           versions : [Field -> Nat \cup {None}],
           refused  : SUBSET Field,
           row      : Row \cup {None}]

ASSUME NoneAssumption == None \notin Nat \cup Value \cup Row \cup Tomb \cup Result

Reply(status, reason, versions, refused, row) ==
  [status |-> status, reason |-> reason, versions |-> versions,
   refused |-> refused, row |-> row]

NoVersions == [f \in Field |-> None]

Refuse(reason) == Reply("rejected", reason, NoVersions, {}, None)

(* A result that rolls a group back: rejected, or with a refused field.    *)
IsRejected(r) == r.status = "rejected" \/ r.refused # {}

-----------------------------------------------------------------------------
(***************************************************************************)
(* The pieces every handler uses.                                          *)
(***************************************************************************)

Settable(uid) == IF uid \in Item THEN ItemField ELSE ChildField

IsSettable(uid, f) == f \in Settable(uid) \/ (uid \in Item /\ f \in JsonField)

StatusesOf(uid) == IF uid \in Check THEN {"pending", "done"} ELSE Statuses

(* Mutant: a value is stored without being looked at.                      *)
AnythingGoes(uid, f, v) == FALSE

Invalid(uid, f, v) == f = "status" /\ v # None /\ v \notin StatusesOf(uid)

(* Mutant: every change is recorded as one that left the row there.        *)
BumpPresent(db, uid, trail, deleted) ==
  [db EXCEPT !.feed = Append(@, [uid |-> uid, trail |-> trail, deleted |-> FALSE])]

Bump(db, uid, trail, deleted) ==
  [db EXCEPT !.feed = Append(@, [uid |-> uid, trail |-> trail, deleted |-> deleted])]

TaskStatuses(db, item) ==
  {db.rows[t].val["status"] : t \in {u \in Task : db.rows[u] # None /\ db.rows[u].item = item}}

(* Recompute the item's derived status, bumping the item if it changed.    *)
Recalc(db, item) ==
  LET calc == DeriveCalcStatus(TaskStatuses(db, item))
  IN  IF db.calc[item] = calc THEN db
      ELSE Bump([db EXCEPT !.calc[item] = calc], item, 0, FALSE)

(* Mutant: a change of a task leaves its item's derived status alone.      *)
NoRecalc(db, uid, item) == db

(* Whatever changes a task ends by recomputing its item's status.          *)
AfterTask(db, uid, item) == IF uid \in Task THEN Recalc(db, item) ELSE db

(* A tombstone tells a removed uid from one never seen.                    *)
RemovedReason(db, op) ==
  Refuse(IF db.tombs[op.uid] = None THEN "unknown" ELSE "removed")

PendingChecks(db, item) ==
  \E c \in Check : /\ db.rows[c] # None
                   /\ db.rows[c].item = item
                   /\ db.rows[c].val["status"] # "done"

Guarded == {"ready-to-deploy", "deployed"}

AgentHandoff(op, to) == to = "ready-for-qa" /\ op.agent /\ ~op.force

(* Why the item may not take this status, "" when it may.  "waits" is what *)
(* the dependency edges of the item say at this moment.                    *)
StatusRule(db, op, to, waits) ==
  IF AgentHandoff(op, to) THEN "agent-handoff"
  ELSE IF to = "deployed" /\ ~op.force /\ PendingChecks(db, op.uid) THEN "checks-pending"
  ELSE IF to \in Guarded /\ ~op.force /\ waits THEN "waits-on"
  ELSE ""

-----------------------------------------------------------------------------
(***************************************************************************)
(* create                                                                  *)
(***************************************************************************)

DefaultStatus(uid) ==
  IF uid \in Check THEN "pending" ELSE IF uid \in Item \cup Task THEN "todo" ELSE None

NewContent(op) ==
  [f \in Field |-> IF f \in DOMAIN op.data /\ IsSettable(op.uid, f) THEN op.data[f]
                   ELSE IF f = "status" THEN DefaultStatus(op.uid) ELSE None]

NewVersions(op, seq) ==
  [f \in Field |-> IF f \in Settable(op.uid) \/ (f \in DOMAIN op.data /\ IsSettable(op.uid, f))
                        THEN seq ELSE 0]

NewRow(op, seq) ==
  [item |-> IF op.uid \in Item THEN op.uid ELSE op.item,
   val |-> NewContent(op), ver |-> NewVersions(op, seq)]

VersionsOf(row) ==
  [f \in Field |-> IF row.ver[f] > 0 THEN row.ver[f] ELSE None]

(* A create meets its own uid: the same content is a repeat, anything else *)
(* is a collision.                                                         *)
CreateExisting(db, op) ==
  LET row == db.rows[op.uid]
  IN  IF \A f \in DOMAIN op.data : IsSettable(op.uid, f) => row.val[f] = op.data[f]
      THEN Reply("applied", "", VersionsOf(row), {}, None)
      ELSE Reply("rejected", "uid-exists", NoVersions, {}, row)

(* Mutant: any tombstone gives way to a create.                            *)
NeverBuried(db, op) == FALSE

(* A removed uid stays removed, except that a plugin may make again what a *)
(* plugin's run removed.                                                   *)
Buried(db, op) ==
  LET tomb == db.tombs[op.uid]
  IN  tomb # None /\ ~(tomb.byPlugin /\ op.plugin)

(* What refuses a create whose uid is free, in the order it is asked.      *)
CreateRefusal(db, op) ==
  IF \E f \in Field : Invalid(op.uid, f, NewContent(op)[f]) THEN "invalid"
  ELSE IF op.uid \in Item /\ AgentHandoff(op, NewContent(op)["status"]) THEN "agent-handoff"
  ELSE IF op.uid \in Child /\ db.rows[op.item] = None THEN "no-item"
  ELSE ""

(* Mutant: the create that replaces a tombstone leaves it behind.          *)
KeepTomb(db, uid) == db

Cleared(db, uid) == [db EXCEPT !.tombs[uid] = None]

(* The tombstone a plugin's create gets past is cleared before the create  *)
(* is looked at any further, so a refusal leaves it cleared.               *)
Create(db, op) ==
  LET cleared == Cleared(db, op.uid)
      stored  == [Bump(cleared, op.uid, 0, FALSE)
                    EXCEPT !.rows[op.uid] = NewRow(op, SeqOf(db) + 1)]
  IN  IF db.rows[op.uid] # None
        THEN [db |-> db, result |-> CreateExisting(db, op)]
      ELSE IF Buried(db, op)
        THEN [db |-> db, result |-> RemovedReason(db, op)]
      ELSE IF CreateRefusal(db, op) # ""
        THEN [db |-> cleared, result |-> Refuse(CreateRefusal(db, op))]
      ELSE [db     |-> AfterTask(stored, op.uid, op.item),
            result |-> Reply("applied", "", VersionsOf(NewRow(op, SeqOf(db) + 1)), {}, None)]

-----------------------------------------------------------------------------
(***************************************************************************)
(* set: each field is accepted or refused on its own.                      *)
(***************************************************************************)

(* A field someone else wrote since the version the op is based on.  The   *)
(* position of a task and the writes of a bridge are not checked.          *)
Stale(db, op, f) ==
  LET version == db.rows[op.uid].ver[f]
  IN  /\ ~op.unconditional
      /\ f # "position"
      /\ version # 0
      /\ op.base[f] # version

(* What becomes of one field of a set.                                     *)
Verdict(db, op, waits, f) ==
  LET value == op.data[f]
      row   == db.rows[op.uid]
      rule  == StatusRule(db, op, value, waits)
  IN  IF ~IsSettable(op.uid, f) THEN "not-settable"
      ELSE IF Invalid(op.uid, f, value) THEN "invalid"
      ELSE IF value = row.val[f] THEN "same"
      ELSE IF Stale(db, op, f) THEN "stale"
      ELSE IF op.uid \in Item /\ f = "status" /\ rule # "" THEN rule
      ELSE "accepted"

(* The contents the set writes.  Reopening an archived item also takes it  *)
(* out of the archive.                                                     *)
Writes(db, op, waits) ==
  LET accepted == {f \in DOMAIN op.data : Verdict(db, op, waits, f) = "accepted"}
      reopens  == /\ op.uid \in Item
                  /\ "status" \in accepted /\ op.data["status"] \notin Terminal
                  /\ "archived" \in JsonField \ accepted
                  /\ db.rows[op.uid].val["archived"] # None
  IN  [f \in accepted \cup (IF reopens THEN {"archived"} ELSE {}) |->
         IF f \in accepted THEN op.data[f] ELSE None]

(* Mutant: the version is the seq of the change after this one.            *)
WrittenLate(row, writes, seq) ==
  [row EXCEPT !.val = [f \in Field |-> IF f \in DOMAIN writes THEN writes[f] ELSE @[f]],
              !.ver = [f \in Field |-> IF f \in DOMAIN writes THEN seq + 1 ELSE @[f]]]

Written(row, writes, seq) ==
  [row EXCEPT !.val = [f \in Field |-> IF f \in DOMAIN writes THEN writes[f] ELSE @[f]],
              !.ver = [f \in Field |-> IF f \in DOMAIN writes THEN seq ELSE @[f]]]

(* Mutant: the history row reads the status it moved from after the write. *)
StatusChangedLate(db, item, from, to) ==
  Bump([db EXCEPT !.trail[item] = Append(@, [from |-> to, to |-> to])],
       item, Len(db.trail[item]) + 1, FALSE)

(* The history row of a status change is a change of its own.              *)
StatusChanged(db, item, from, to) ==
  Bump([db EXCEPT !.trail[item] = Append(@, [from |-> from, to |-> to])],
       item, Len(db.trail[item]) + 1, FALSE)

Set(db, op, waits) ==
  LET row     == db.rows[op.uid]
      writes  == Writes(db, op, waits)
      seq     == SeqOf(db) + 1
      stored  == [Bump(db, op.uid, 0, FALSE) EXCEPT !.rows[op.uid] = Written(row, writes, seq)]
      moved   == IF op.uid \in Item /\ "status" \in DOMAIN writes
                 THEN StatusChanged(stored, op.uid, row.val["status"], writes["status"])
                 ELSE stored
      same    == {f \in DOMAIN op.data : Verdict(db, op, waits, f) = "same"}
      refused == DOMAIN op.data \ (same \cup DOMAIN writes)
      out     == [f \in Field |-> IF f \in DOMAIN writes THEN seq
                                  ELSE IF f \in same THEN row.ver[f] ELSE None]
  IN  IF row = None
        THEN [db |-> db, result |-> RemovedReason(db, op)]
      ELSE [db     |-> IF DOMAIN writes = {} THEN db ELSE AfterTask(moved, op.uid, row.item),
            result |-> Reply(IF refused # {} /\ out = NoVersions THEN "rejected" ELSE "applied",
                             "", out, refused, row)]

-----------------------------------------------------------------------------
(***************************************************************************)
(* remove: every versioned field must be the one the op has seen.          *)
(***************************************************************************)

Unseen(db, op) ==
  {f \in Field : /\ ~op.unconditional /\ f # "position"
                 /\ db.rows[op.uid].ver[f] # 0
                 /\ op.base[f] # db.rows[op.uid].ver[f]}

Remove(db, op) ==
  LET row    == db.rows[op.uid]
      tomb   == [seq |-> SeqOf(db) + 1, byPlugin |-> op.plugin]
      gone   == [Bump(db, op.uid, 0, TRUE) EXCEPT !.rows[op.uid] = None, !.tombs[op.uid] = tomb]
  IN  IF op.uid \in Item
        THEN [db |-> db, result |-> Refuse("not-removable")]
      ELSE IF row = None
        THEN [db |-> db, result |-> RemovedReason(db, op)]
      ELSE IF Unseen(db, op) # {}
        THEN [db |-> db, result |-> Reply("rejected", "stale", NoVersions, Unseen(db, op), row)]
      ELSE [db     |-> AfterTask(gone, op.uid, row.item),
            result |-> Reply("applied", "", NoVersions, {}, None)]

(* One op on the tables.                                                   *)
ApplyOne(db, op, waits) ==
  CASE op.op = "create" -> Create(db, op)
    [] op.op = "set"    -> Set(db, op, waits)
    [] op.op = "remove" -> Remove(db, op)

(* The op comes to write: nothing turned it away before.                   *)
ComesToWrite(db, op, waits) == ApplyOne(db, op, waits).db # db

-----------------------------------------------------------------------------
(***************************************************************************)
(* What the tables promise, of a value d of them: asked of the committed   *)
(* tables, and kept by every op.                                           *)
(***************************************************************************)

(* A status is one its row may have.                                       *)
StatusesIn(d) ==
  \A u \in Uid : d.rows[u] # None => d.rows[u].val["status"] \in StatusesOf(u) \cup {None}

(* A version names a change of its own row.                                *)
VersionsIn(d) ==
  \A u \in Uid : d.rows[u] # None =>
    \A f \in Field : d.rows[u].ver[f] > 0 =>
      /\ d.rows[u].ver[f] <= Len(d.feed)
      /\ d.feed[d.rows[u].ver[f]] = [uid |-> u, trail |-> 0, deleted |-> FALSE]

(* Change s is the last one of an entity's own row.                        *)
LastChange(d, s) ==
  /\ d.feed[s].trail = 0
  /\ \A r \in (s + 1)..Len(d.feed) : d.feed[r].uid # d.feed[s].uid \/ d.feed[r].trail # 0

(* The last change of a uid says whether its row is there.                 *)
PresenceIn(d) ==
  /\ \A s \in DOMAIN d.feed : LastChange(d, s) =>
        (d.feed[s].deleted <=> d.rows[d.feed[s].uid] = None)
  /\ \A u \in Uid : d.rows[u] # None => \E s \in DOMAIN d.feed : d.feed[s].uid = u

(* A tombstone names the change that removed its row.                      *)
TombsIn(d) ==
  \A u \in Uid : d.tombs[u] # None =>
    /\ d.rows[u] = None
    /\ d.tombs[u].seq \in DOMAIN d.feed
    /\ d.feed[d.tombs[u].seq] = [uid |-> u, trail |-> 0, deleted |-> TRUE]

(* Derived statuses are the roll-ups of the tasks.                         *)
CalcIn(d) == \A i \in Item : d.calc[i] = DeriveCalcStatus(TaskStatuses(d, i))

(* An item's history rows follow on each other and end in its status.      *)
TrailIn(d) ==
  \A i \in Item : d.rows[i] # None =>
    LET trail == d.trail[i]
    IN  /\ \A n \in DOMAIN trail : trail[n].from # trail[n].to
        /\ \A n \in 1..(Len(trail) - 1) : trail[n].to = trail[n + 1].from
        /\ trail # <<>> => trail[Len(trail)].to = d.rows[i].val["status"]

-----------------------------------------------------------------------------
(***************************************************************************)
(* A unit: an op alone or the ops of a group, with the results of the ops  *)
(* that ran before in "known" (op id -> its recorded result, or None).     *)
(***************************************************************************)

(* A result in a transaction, and whether it came from applied_ops.        *)
Answer(result, duplicate) == [result |-> result, duplicate |-> duplicate]

Grouped(unit) == unit[1].group

(* Mutant: a group only rolls back when an op is refused outright.         *)
RollsBackOnStatus(unit, answers) ==
  Grouped(unit) /\ \E i \in DOMAIN answers : answers[i].result.status = "rejected"

RollsBack(unit, answers) ==
  Grouped(unit) /\ \E i \in DOMAIN answers : IsRejected(answers[i].result)

(* The tables and the answers after the unit's ops, in order; waits[i] is  *)
(* what the dependency edges say when op i looks.                          *)
RunUnit(d, known, unit, waits) ==
  LET run[n \in 0..Len(unit)] ==
        IF n = 0 THEN [db |-> d, answers |-> <<>>]
        ELSE LET before  == run[n - 1]
                 prior   == known[unit[n].id]
                 outcome == ApplyOne(before.db, unit[n], waits[n])
             IN  IF prior # None
                 THEN [before EXCEPT !.answers = Append(@, Answer(prior, TRUE))]
                 ELSE [db |-> outcome.db,
                       answers |-> Append(before.answers, Answer(outcome.result, FALSE))]
  IN  run[Len(unit)]

(* Mutant: only what was applied is recorded.                              *)
RecordedIfApplied(known, unit, answers) ==
  [id \in DOMAIN known |->
     IF \E i \in DOMAIN unit : unit[i].id = id /\ ~IsRejected(answers[i].result)
     THEN answers[CHOOSE i \in DOMAIN unit : unit[i].id = id].result
     ELSE known[id]]

(* applied_ops after the unit commits: the answers that are new.           *)
Recorded(known, unit, answers) ==
  [id \in DOMAIN known |->
     IF \E i \in DOMAIN unit : unit[i].id = id /\ ~answers[i].duplicate
     THEN answers[CHOOSE i \in DOMAIN unit : unit[i].id = id].result
     ELSE known[id]]

(* The result an op of a group that rolled back is given: its own reason,  *)
(* if it was refused, and nothing of what it would have written.           *)
GroupResult(r) ==
  Reply("rejected", IF r.status = "rejected" /\ r.reason # "" THEN r.reason ELSE "group-rolled-back",
        NoVersions, r.refused, r.row)
=============================================================================
