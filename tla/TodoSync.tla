------------------------------- MODULE TodoSync -------------------------------
(***************************************************************************)
(* A clone's store and its sync rounds (todo/sync.py, run_round): diff the *)
(* files against the snapshot, push the ops through the outbox, record the *)
(* results, pull the changes after the cursor, retry what was deferred.    *)
(* Commands hold an item while they edit it and may run alongside a round; *)
(* requests may be lost, answered late or half-run, and a round may die    *)
(* between any two of its steps.  The server is ProjectService's: it runs  *)
(* each unit of a request at once.                                         *)
(*                                                                         *)
(* Abstracted: files are the synced fields they hold; [n] numbers, ids,    *)
(* status history, docs and git facts are left to other modules.  Which    *)
(* items a round scans, what it holds in memory and what is on disk is     *)
(* kept.  A page of changes is read at once (ChangeFeed splits it).        *)
(***************************************************************************)
EXTENDS ProjectDb, FiniteSets

CONSTANTS
  Store,         \* clones of the project
  Home,          \* uid -> the item it belongs to
  WithStatus,    \* rejection note -> the status it was written with
  Seed,          \* the ops every linked store has already pulled when it starts
  Unlinked,      \* stores that are not linked to the project yet
  Clone,         \* what the files of those hold
  Edit,          \* what commands do to the files
  WebEdit,       \* what people do on the dashboard
  Unacceptable,  \* uids whose ops the server answers with 400, 413 or 422
  Alongside,     \* do commands run while a round runs?
  PushOnly,      \* are there push-only rounds?
  MaxEdits, MaxFaults, MaxOps   \* bounds: commands and dashboard writes, lost requests and killed rounds, op ids

ASSUME HomeAssumption ==
  /\ DOMAIN Home = Uid
  /\ \A u \in Uid : Home[u] \in Item
  /\ \A i \in Item : Home[i] = i

IsEdit(e) ==
  /\ e.uid \in Uid /\ e.field \in Field /\ e.value \in Value \cup {None}
  /\ IsPartial(e.data, Field, Value \cup {None})

ASSUME SyncAssumption ==
  /\ IsFiniteSet(Uid)
  /\ Len(Seed) \in Nat /\ \A i \in 1..Len(Seed) : IsOp(Seed[i])
  /\ Clone \in [Uid -> Content \cup {None}]
  /\ \A n \in DOMAIN WithStatus : WithStatus[n] \in Value
  /\ \A e \in Edit : IsEdit(e) /\ (e.kind = "reject" => e.uid \in DOMAIN WithStatus)
  /\ \A e \in WebEdit : IsEdit(e) /\ e.kind \in {"set", "add", "remove"}
  /\ MaxOps \in Nat

VARIABLES
  db, known,     \* the server: its tables and applied_ops
  wire,          \* requests the server has not finished or whose answer is due
  files,         \* store -> uid -> the entity's values in its files, or None
  disk,          \* store -> the snapshot file
  outbox,        \* store -> the units pushed but not acknowledged
  marks,         \* store -> items marked changed
  held,          \* store -> items a command holds
  round,         \* store -> its round in memory
  intent,        \* history: store -> what its user asked for and was not yet told about
  used           \* history: op ids, commands and faults used up; child uids made

server == <<db, known>>
vars == <<db, known, wire, files, disk, outbox, marks, held, round, intent, used>>

-----------------------------------------------------------------------------
(***************************************************************************)
(* The server.                                                             *)
(***************************************************************************)

NeverWaits(unit) == [i \in DOMAIN unit |-> FALSE]

Seeded == RunUnit(EmptyDb, [id \in Nat |-> None], Seed, NeverWaits(Seed)).db

(* A unit as the store sends it: each op with the fingerprint of the local *)
(* data it was made from and, as history, the snapshot values it is based  *)
(* on.                                                                     *)
OpsOf(unit) == [i \in DOMAIN unit |-> unit[i].op]

(* What the unit came to goes into the tables, unless its group is undone, *)
(* and its answers into the request's.                                     *)
Finish(m, ops, done) ==
  LET undone  == RollsBack(ops, done.answers)
      Given(r) == IF undone THEN GroupResult(r) ELSE r
      answers == [i \in DOMAIN ops |-> [sent |-> Head(m.units)[i], result |-> Given(done.answers[i].result)]]
      served  == [m EXCEPT !.units = Tail(@), !.answers = @ \o answers]
  IN  /\ db' = IF undone THEN db ELSE done.db
      /\ known' = IF undone THEN known ELSE Recorded(known, ops, done.answers)
      /\ wire' = (wire \ {m}) \cup (IF Tail(m.units) = <<>> /\ ~m.awaited THEN {} ELSE {served})

(* The server runs the request's next unit.                                *)
Serve(m) ==
  /\ m.units # <<>>
  /\ ~m.refused
  /\ LET ops == OpsOf(Head(m.units))
     IN  Finish(m, ops, RunUnit(db, known, ops, NeverWaits(ops)))
  /\ UNCHANGED <<files, disk, outbox, marks, held, round, intent, used>>

(* A request, or its answer, gets lost, or the server dies half-way.       *)
LoseRequest(m) ==
  /\ used.faults < MaxFaults
  /\ used' = [used EXCEPT !.faults = @ + 1]
  /\ wire' = wire \ {m}
  /\ UNCHANGED <<db, known, files, disk, outbox, marks, held, round, intent>>

(* What the server says of uids changed after a cursor, each at its first  *)
(* place there, with its row as it is now.                                 *)
ChangesSince(since) ==
  {[seq |-> n, uid |-> db.feed[n].uid, row |-> db.rows[db.feed[n].uid]] :
     n \in {s \in (since + 1)..SeqOf(db) :
              /\ db.feed[s].trail = 0
              /\ \A r \in (since + 1)..(s - 1) :
                   db.feed[r].uid # db.feed[s].uid \/ db.feed[r].trail # 0}}

(* The first of some changes.                                              *)
Comes(ch, changes) == ch \in changes /\ \A c \in changes : ch.seq <= c.seq

-----------------------------------------------------------------------------
(***************************************************************************)
(* The store.                                                              *)
(***************************************************************************)

SetFields(uid) == {f \in Field : IsSettable(uid, f)}

Values(uid, data) ==
  [f \in Field |-> IF f \in DOMAIN data THEN data[f] ELSE None]

NoEnts == [u \in Uid |-> None]

(* The snapshot's entry for a server row.                                  *)
Entry(row) == [val |-> row.val, ver |-> row.ver]

NewSnapshot ==
  [cursor   |-> 0,
   ents     |-> NoEnts,
   deferred |-> {},
   stuck    |-> NoEnts,
   removed  |-> {}]

(* "local" is what a round last scanned, "now" what its pull re-read.      *)
NoScan == [val |-> NoEnts, scanned |-> {}, busy |-> {}]

Resting ==
  [phase |-> "idle", pushOnly |-> FALSE, full |-> FALSE, taken |-> {}, replay |-> FALSE,
   pushed |-> FALSE, save |-> FALSE, mem |-> NewSnapshot, local |-> NoScan, now |-> NoScan,
   pending |-> <<>>, sent |-> <<>>, limit |-> 0, answers |-> <<>>, refused |-> {},
   todo |-> {}, left |-> {}, inPull |-> FALSE, adopt |-> FALSE, next |-> 0]

(* What the user of a store that is not linked yet wants kept.             *)
Cloned == {<<u, f, Clone[u][f]>> : u \in {v \in Uid : Clone[v] # None}, f \in Field}

Init ==
  /\ db = Seeded
  /\ known = [id \in 1..MaxOps |-> None]
  /\ wire = {}
  /\ files = [s \in Store |-> IF s \in Unlinked THEN Clone
                             ELSE [u \in Uid |-> IF db.rows[u] = None THEN None ELSE db.rows[u].val]]
  /\ disk = [s \in Store |-> IF s \in Unlinked THEN NewSnapshot ELSE
       [NewSnapshot EXCEPT !.cursor = SeqOf(db),
          !.ents = [u \in Uid |-> IF db.rows[u] = None THEN None ELSE Entry(db.rows[u])]]]
  /\ outbox = [s \in Store |-> <<>>]
  /\ marks = [s \in Store |-> {}]
  /\ held = [s \in Store |-> {}]
  /\ round = [s \in Store |-> Resting]
  /\ intent = [s \in Store |-> IF s \in Unlinked THEN {w \in Cloned : w[2] \in SetFields(w[1])} ELSE {}]
  /\ used = [ops |-> 0, edits |-> 0, faults |-> 0, made |-> {}]

-----------------------------------------------------------------------------
(***************************************************************************)
(* Commands, and people on the dashboard.  "gone" is the intent that an    *)
(* entity be removed.                                                      *)
(***************************************************************************)

About(wishes, uid, f) == {w \in wishes : w[1] = uid /\ w[2] \in {f, "gone"}}

(* A wish is only what differs from what the store last synced: an edit    *)
(* taken back before it was pushed is none.                                *)
Synced(s) == IF round[s].phase = "idle" THEN disk[s] ELSE round[s].mem

UnderWay(s, uid) == \E i \in DOMAIN outbox[s] : \E j \in DOMAIN outbox[s][i] :
                      outbox[s][i][j].op.uid = uid

Outstanding(snap, w) ==
  LET ent == snap.ents[w[1]]
  IN  IF w[2] = "gone" THEN ent # None ELSE ent = None \/ ent.val[w[2]] # w[3]

Wishes(s, ws) == {w \in ws : UnderWay(s, w[1]) \/ Outstanding(Synced(s), w)}

(* A command takes hold of the item.                                       *)
Acquire(s, item) ==
  /\ item \notin held[s]
  /\ Alongside \/ round[s].phase = "idle"
  /\ used.edits < MaxEdits
  /\ used' = [used EXCEPT !.edits = @ + 1]
  /\ held' = [held EXCEPT ![s] = @ \cup {item}]
  /\ UNCHANGED <<db, known, wire, files, disk, outbox, marks, round, intent>>

(* It edits the files: a field, a new child, a removed child.              *)
EditFiles(s, e) ==
  LET mine == files[s][e.uid]
  IN  /\ Home[e.uid] \in held[s]
      /\ \/ /\ e.kind = "set"
            /\ mine # None /\ mine[e.field] # e.value
            /\ files' = [files EXCEPT ![s][e.uid][e.field] = e.value]
            /\ intent' = [intent EXCEPT ![s] = (@ \ About(@, e.uid, e.field))
                                                  \cup Wishes(s, {<<e.uid, e.field, e.value>>})]
            /\ UNCHANGED used
         \/ /\ e.kind = "add"
            /\ mine = None /\ e.uid \notin used.made /\ files[s][Home[e.uid]] # None
            /\ files' = [files EXCEPT ![s][e.uid] = Values(e.uid, e.data)]
            /\ intent' = [intent EXCEPT ![s] = @ \cup {<<e.uid, f, e.data[f]>> : f \in DOMAIN e.data}]
            /\ used' = [used EXCEPT !.made = @ \cup {e.uid}]
         \/ /\ e.kind = "remove"
            /\ mine # None /\ e.uid \in Child
            /\ files' = [files EXCEPT ![s][e.uid] = None]
            /\ intent' = [intent EXCEPT ![s] = {w \in @ : w[1] # e.uid}
                                                  \cup Wishes(s, {<<e.uid, "gone", None>>})]
            /\ UNCHANGED used
         \/ /\ e.kind = "reject"     \* a rejection note with its item's new status
            /\ mine = None /\ e.uid \notin used.made /\ files[s][Home[e.uid]] # None
            /\ files[s][Home[e.uid]]["status"] # WithStatus[e.uid]
            /\ files' = [files EXCEPT ![s][e.uid] = Values(e.uid, e.data),
                                      ![s][Home[e.uid]]["status"] = WithStatus[e.uid]]
            /\ intent' = [intent EXCEPT ![s] =
                            (@ \ About(@, Home[e.uid], "status"))
                              \cup {<<e.uid, f, e.data[f]>> : f \in DOMAIN e.data}
                              \cup Wishes(s, {<<Home[e.uid], "status", WithStatus[e.uid]>>})]
            /\ used' = [used EXCEPT !.made = @ \cup {e.uid}]
      /\ UNCHANGED <<db, known, wire, disk, outbox, marks, held, round>>

(* It lets the item go and marks it changed.                               *)
Release(s, item) ==
  /\ item \in held[s]
  /\ held' = [held EXCEPT ![s] = @ \ {item}]
  /\ marks' = [marks EXCEPT ![s] = @ \cup {item}]
  /\ UNCHANGED <<db, known, wire, files, disk, outbox, round, intent, used>>

NewOp(id, op, uid, data, base) ==
  [id |-> id, op |-> op, uid |-> uid, item |-> Home[uid], data |-> data, base |-> base,
   unconditional |-> FALSE, plugin |-> FALSE, agent |-> FALSE, force |-> FALSE, group |-> FALSE]

Applied(op, done) ==
  /\ done.result.status = "applied" /\ done.db # db
  /\ db' = done.db
  /\ known' = [known EXCEPT ![op.id] = done.result]

(* Someone writes on the dashboard, from the row as it is there.           *)
WriteOnDashboard(e) ==
  LET row  == db.rows[e.uid]
      op   == NewOp(used.ops + 1, IF e.kind = "add" THEN "create" ELSE e.kind, e.uid,
                    IF e.kind = "set" THEN [f \in {e.field} |-> e.value]
                    ELSE IF e.kind = "add" THEN e.data ELSE [f \in {} |-> None],
                    IF row = None THEN [f \in Field |-> 0] ELSE row.ver)
  IN  /\ used.edits < MaxEdits /\ used.ops < MaxOps
      /\ (e.kind = "add") <=> (row = None)
      /\ e.kind = "add" => e.uid \notin used.made
      /\ Applied(op, ApplyOne(db, op, FALSE))
      /\ used' = [used EXCEPT !.edits = @ + 1, !.ops = @ + 1, !.made = @ \cup {e.uid}]
      /\ UNCHANGED <<wire, files, disk, outbox, marks, held, round, intent>>

-----------------------------------------------------------------------------
(***************************************************************************)
(* diff: the ops that bring the server up to the scanned files.            *)
(***************************************************************************)

Draft(op, uid, data, base, fp, seen) ==
  [op |-> NewOp(0, op, uid, data, base), fp |-> fp, seen |-> seen]

Unversioned == [f \in Field |-> 0]

DataPrint(val)    == <<"data", val>>
RemovalPrint(ent) == <<"removed", ent.ver>>

(* The entities a diff looks at: those of the items that were read.        *)
Diffed(local) == {u \in Uid : local.val[u] # None /\ Home[u] \notin local.busy}

(* A refused entity is skipped until its local data changes.               *)
IsStuck(local, snap, u) == snap.stuck[u] = DataPrint(local.val[u])

Unstuck(local, snap) ==
  [snap EXCEPT !.stuck = [u \in Uid |-> IF u \in Diffed(local) /\ ~IsStuck(local, snap, u)
                                        THEN None ELSE @[u]]]

Changed(local, snap, u) ==
  {f \in SetFields(u) : local.val[u][f] # snap.ents[u].val[f]}

Drafts(local, snap) ==
  LET active  == {u \in Diffed(local) : ~IsStuck(local, snap, u)}
      created == {u \in active : snap.ents[u] = None}
      edited  == {u \in active \ created : Changed(local, snap, u) # {}}
      gone    == {u \in Child : /\ snap.ents[u] # None /\ local.val[u] = None
                                /\ Home[u] \in local.scanned
                                /\ snap.stuck[u] # RemovalPrint(snap.ents[u])}
      Fp(u)   == DataPrint(local.val[u])
  IN  {Draft("create", u, [f \in SetFields(u) |-> local.val[u][f]], Unversioned, Fp(u), None)
         : u \in created}
      \cup
      {Draft("set", u, [f \in Changed(local, snap, u) |-> local.val[u][f]],
             [f \in Field |-> IF f \in Changed(local, snap, u) THEN snap.ents[u].ver[f] ELSE 0],
             Fp(u), snap.ents[u].val) : u \in edited}
      \cup
      {Draft("remove", u, [f \in {} |-> None], snap.ents[u].ver, RemovalPrint(snap.ents[u]),
             snap.ents[u].val) : u \in gone}

(* Item creates, child creates, child sets, item sets, removes.            *)
Rank(d) == IF d.op.op = "remove" THEN 5
           ELSE IF d.op.uid \in Item THEN (IF d.op.op = "create" THEN 1 ELSE 4)
           ELSE (IF d.op.op = "create" THEN 2 ELSE 3)

(* Mutant: a rejection note is pushed on its own.                          *)
TravelsAlone(note, p) == FALSE

(* A rejection note travels with the status change it was written with.    *)
TravelsWith(note, p) ==
  /\ note.op.op = "create" /\ note.op.uid \in DOMAIN WithStatus
  /\ p.op.op = "set" /\ p.op.uid = Home[note.op.uid]
  /\ "status" \in DOMAIN p.op.data
  /\ p.op.data["status"] = WithStatus[note.op.uid]

(* Ops with one lead are pushed as one unit.                               *)
Lead(drafts, d) == IF \E p \in drafts : TravelsWith(d, p) THEN Home[d.op.uid] ELSE d.op.uid
Together(drafts, d) == {e \in drafts : Lead(drafts, e) = Lead(drafts, d)}

(* The lists of a set's elements in the order of their keys.               *)
Ordered(S, Key(_)) ==
  {l \in [1..Cardinality(S) -> S] :
     \A i, j \in 1..Cardinality(S) : i < j => l[i] # l[j] /\ Key(l[i]) <= Key(l[j])}

(* The ops in order, with the ids after n.                                 *)
Numbered(drafts, n) ==
  {{[l[i] EXCEPT !.op.id = n + i] : i \in DOMAIN l} : l \in Ordered(drafts, Rank)}

IdOf(d) == d.op.id
FirstId(unit) == unit[1].op.id
Ready(unit) == [j \in DOMAIN unit |-> [unit[j] EXCEPT !.op.group = Len(unit) > 1]]
UnitsOf(drafts) == {Ready(l) : l \in UNION {Ordered(Together(drafts, d), IdOf) : d \in drafts}}

-----------------------------------------------------------------------------
(***************************************************************************)
(* A round.                                                                *)
(***************************************************************************)

Rounds(s, r) == round' = [round EXCEPT ![s] = r]

(* What a scan of the wanted items reads: not those a command holds.       *)
ScanOf(s, wanted) ==
  LET there == {i \in wanted : files[s][i] # None}
      read  == there \ held[s]
  IN  [val |-> [u \in Uid |-> IF Home[u] \in read THEN files[s][u] ELSE None],
       scanned |-> read, busy |-> there \cap held[s]]

(* Ops an earlier round left in the outbox are pushed again before anything *)
(* is diffed.                                                              *)
Begun(s, r) ==
  IF outbox[s] = <<>> THEN [r EXCEPT !.phase = "scan"]
  ELSE [r EXCEPT !.phase = "send", !.replay = TRUE, !.save = TRUE,
                 !.pending = outbox[s], !.limit = Len(outbox[s]), !.local = ScanOf(s, Item)]

(* The round takes the marks and loads the snapshot.  With nothing marked  *)
(* a push-only round does not start; the one that links a store pulls      *)
(* before anything else.                                                   *)
StartRound(s, pushOnly, full, adopt) ==
  LET new     == \A u \in Uid : disk[s].ents[u] = None
      started == [Resting EXCEPT !.pushOnly = pushOnly, !.full = full \/ new, !.taken = marks[s],
                                 !.mem = disk[s], !.save = full \/ new, !.adopt = adopt]
  IN  /\ round[s].phase = "idle"
      /\ Alongside \/ held[s] = {}
      /\ pushOnly => PushOnly /\ (full \/ marks[s] # {} \/ outbox[s] # <<>>)
      /\ adopt => full /\ ~pushOnly /\ new
      /\ marks' = [marks EXCEPT ![s] = {}]
      /\ Rounds(s, IF adopt THEN [started EXCEPT !.phase = "fetch"] ELSE Begun(s, started))
      /\ UNCHANGED <<db, known, wire, files, disk, outbox, held, intent, used>>

(* The round reads the marked items, or all of them; those a command holds *)
(* are left for the next round and marked again.  Then it diffs.           *)
Scan(s) ==
  LET r      == round[s]
      local  == ScanOf(s, IF r.full THEN Item ELSE r.taken)
      mem    == Unstuck(local, r.mem)
      drafts == Drafts(local, mem)
  IN  /\ r.phase = "scan"
      /\ used.ops + Cardinality(drafts) <= MaxOps
      /\ used' = [used EXCEPT !.ops = @ + Cardinality(drafts)]
      /\ marks' = [marks EXCEPT ![s] = @ \cup local.busy]
      /\ disk' = IF drafts = {} THEN disk ELSE [disk EXCEPT ![s] = mem]
      /\ \E numbered \in Numbered(drafts, used.ops) : \E units \in Ordered(UnitsOf(numbered), FirstId) :
           Rounds(s, [r EXCEPT !.phase = "send", !.local = local, !.mem = mem, !.replay = FALSE,
                               !.pending = units, !.limit = Len(units),
                               !.save = r.save \/ drafts # {}])
      /\ UNCHANGED <<db, known, wire, files, outbox, held, intent>>

(* The next batch, as many units as the limits on its size allow, goes out *)
(* with everything unacknowledged in the outbox.                           *)
Send(s) ==
  LET r == round[s]
  IN  /\ r.phase = "send"
      /\ r.pending # <<>>
      /\ \E k \in 1..Len(r.pending) :
           LET batch == SubSeq(r.pending, 1, k)
           IN  /\ k <= r.limit
               /\ wire' = wire \cup {[store |-> s, units |-> batch, answers |-> <<>>, awaited |-> TRUE,
                                      refused |-> \E i \in DOMAIN batch : \E j \in DOMAIN batch[i] :
                                                    batch[i][j].op.uid \in Unacceptable]}
               /\ Rounds(s, [r EXCEPT !.phase = "wait", !.sent = batch,
                                      !.pending = SubSeq(@, k + 1, Len(@))])
      /\ outbox' = [outbox EXCEPT ![s] = r.pending]
      /\ UNCHANGED <<db, known, files, disk, marks, held, intent, used>>

(* Everything is pushed: the outbox empties.  A replay is followed by the  *)
(* round's own diff, that one by the pull.                                 *)
Pushed(s) ==
  LET r == round[s]
  IN  /\ r.phase = "send"
      /\ r.pending = <<>>
      /\ outbox' = [outbox EXCEPT ![s] = <<>>]
      /\ Rounds(s, IF r.replay THEN [r EXCEPT !.phase = "scan"]
                   ELSE IF ~r.pushOnly THEN [r EXCEPT !.phase = "fetch", !.pushed = TRUE]
                   ELSE [r EXCEPT !.phase = "retry", !.pushed = TRUE,
                                  !.todo = r.mem.deferred, !.mem.deferred = {},
                                  !.save = @ \/ r.mem.deferred # {}])
      /\ UNCHANGED <<db, known, wire, files, disk, marks, held, intent, used>>

(* The answer to the batch arrives.                                        *)
Respond(s, m) ==
  /\ m.store = s /\ m.awaited /\ ~m.refused /\ m.units = <<>>
  /\ round[s].phase = "wait"
  /\ wire' = wire \ {m}
  /\ Rounds(s, [round[s] EXCEPT !.phase = "handle", !.answers = m.answers])
  /\ UNCHANGED <<db, known, files, disk, outbox, marks, held, intent, used>>

Told(wishes, sent) ==
  {w \in wishes : w[1] = sent.op.uid /\ \/ w[2] \in DOMAIN sent.op.data /\ sent.op.data[w[2]] = w[3]
                                        \/ w[2] = "gone" /\ sent.op.op = "remove"}

(* The round stops with an error or dies: the snapshot in memory is gone.  *)
(* Only the error marks the items again, and only before everything is     *)
(* pushed.  A request under way may still reach the server.                *)
Stop(s, marked) ==
  /\ wire' = {m \in {IF n.store = s THEN [n EXCEPT !.awaited = FALSE] ELSE n : n \in wire} :
                m.awaited \/ (~m.refused /\ m.units # <<>>)}
  /\ marks' = IF marked THEN [marks EXCEPT ![s] = @ \cup round[s].taken] ELSE marks
  /\ Rounds(s, Resting)
  /\ UNCHANGED <<db, known, files, disk, outbox, held, intent>>

(* Mutant: a refused batch stops the round like any other error.           *)
RefusedAsError(s, m) ==
  /\ m.store = s /\ m.awaited /\ m.refused
  /\ round[s].phase = "wait"
  /\ UNCHANGED used
  /\ Stop(s, TRUE)

(* The server refuses the whole batch: it is halved until the op to blame  *)
(* is alone, and that unit is parked.                                      *)
Refused(s, m) ==
  LET r     == round[s]
      unit  == r.sent[1]
      uids  == {unit[j].op.uid : j \in DOMAIN unit}
      FpOf(u) == LET j == CHOOSE k \in DOMAIN unit : unit[k].op.uid = u IN unit[j].fp
      mem   == [r.mem EXCEPT !.stuck = [u \in Uid |-> IF u \in uids THEN FpOf(u) ELSE @[u]]]
  IN  /\ m.store = s /\ m.awaited /\ m.refused
      /\ r.phase = "wait"
      /\ wire' = wire \ {m}
      /\ IF Len(r.sent) > 1
         THEN /\ Rounds(s, [r EXCEPT !.phase = "send", !.pending = r.sent \o @,
                                     !.limit = (Len(r.sent) + 1) \div 2])
              /\ UNCHANGED <<disk, marks, intent>>
         ELSE /\ \A u \in uids : Home[u] \notin held[s]
              /\ Rounds(s, [r EXCEPT !.phase = "send", !.mem = mem])
              /\ disk' = [disk EXCEPT ![s] = mem]
              /\ marks' = [marks EXCEPT ![s] = @ \cup {Home[u] : u \in uids}]
              /\ intent' = [intent EXCEPT ![s] = @ \ UNION {Told(@, unit[j]) : j \in DOMAIN unit}]
      /\ UNCHANGED <<db, known, files, outbox, held, used>>

(* The request, or its answer, was lost: the round times out.              *)
TimeOut(s) ==
  /\ round[s].phase = "wait"
  /\ \A m \in wire : m.store = s => ~m.awaited
  /\ UNCHANGED used
  /\ Stop(s, ~round[s].pushed)

(* The connection fails, or the answer is late.                            *)
NetworkError(s) ==
  /\ round[s].phase \in {"wait", "fetch"}
  /\ used.faults < MaxFaults
  /\ used' = [used EXCEPT !.faults = @ + 1]
  /\ Stop(s, ~round[s].pushed)

Crash(s) ==
  /\ round[s].phase # "idle"
  /\ used.faults < MaxFaults
  /\ used' = [used EXCEPT !.faults = @ + 1]
  /\ Stop(s, FALSE)

-----------------------------------------------------------------------------
(***************************************************************************)
(* The results of a push.  "work" is what handling one may change: the     *)
(* store's files, its snapshot in memory, the fields refused or held, what *)
(* the round scanned, the marks, and what the user was told of.            *)
(***************************************************************************)

Work(s) == [files |-> files[s], mem |-> round[s].mem, refused |-> round[s].refused,
            local |-> round[s].local, marks |-> marks[s], intent |-> intent[s]]

(* An entity's values for a result: an item's are read again, a child's    *)
(* are the scanned ones.                                                   *)
Fresh(work, u) == IF u \in Item THEN work.files[u] ELSE work.local.val[u]

(* Mutant: a replayed result is handled as if nobody had edited since.     *)
AlwaysLocal(work, op) == TRUE

(* A replayed op is superseded when its values are no longer the local     *)
(* ones; a json key that is not there any more says nothing.               *)
StillLocal(work, op) ==
  LET cur == Fresh(work, op.uid)
  IN  cur # None /\ \A f \in DOMAIN op.data : cur[f] = op.data[f] \/ (f \in JsonField /\ cur[f] = None)

Forget(work, u) == [work EXCEPT !.mem.ents[u] = None]

DeletedLocally(work, u) == [work EXCEPT !.files[u] = None, !.local.val[u] = None]

(* The user reads of the op's refusal in the item's log.                   *)
Log(work, sent) == [work EXCEPT !.marks = @ \cup {Home[sent.op.uid]},
                                !.intent = @ \ Told(@, sent)]

(* The op was refused as a whole.                                          *)
WholeOpRejected(work, sent, r) ==
  LET u      == sent.op.uid
      op     == sent.op.op
      logged == Log(work, sent)
  IN  CASE \/ r.reason = "group-rolled-back" /\ op = "set"
           \/ r.reason = "no-item" -> work
        [] r.reason = "uid-exists" ->
             [work EXCEPT !.mem.ents[u] = Entry(r.row), !.files[u] = r.row.val,
                          !.intent = @ \ Told(@, sent)]
        [] r.reason = "removed" /\ op = "remove" ->
             [Forget(work, u) EXCEPT !.intent = @ \ Told(@, sent)]
        [] r.reason = "removed" /\ op # "remove" ->
             DeletedLocally(Forget(logged, u), u)
        [] r.reason \in {"error", "not-removable", "unknown", "agent-handoff", "invalid"} ->
             [logged EXCEPT !.mem.stuck[u] = sent.fp]
        [] r.reason = "group-rolled-back" /\ op = "create" ->
             [logged EXCEPT !.files[u] = None]
        [] OTHER -> logged

(* A refused field takes the server's value at once, in the snapshot and   *)
(* in the files.                                                           *)
AdoptServerValues(work, u, fields, row) ==
  LET cur  == Fresh(work, u)
      flat == [f \in Field |-> IF f \in fields THEN row.val[f] ELSE cur[f]]
      ent  == work.mem.ents[u]
      seen == [val |-> [f \in Field |-> IF f \in fields THEN row.val[f] ELSE ent.val[f]],
               ver |-> [f \in Field |-> IF f \in fields /\ row.ver[f] # 0 THEN row.ver[f]
                                                                          ELSE ent.ver[f]]]
      known1 == IF ent = None THEN work ELSE [work EXCEPT !.mem.ents[u] = seen]
  IN  IF fields = {} \/ cur = None THEN known1
      ELSE [known1 EXCEPT !.files[u] = flat,
                          !.local.val[u] = IF u \in Item THEN @ ELSE flat]

(* The snapshot records what the op achieved.                              *)
Achieved(work, sent, r, accepted) ==
  LET u    == sent.op.uid
      data == sent.op.data
      ent  == work.mem.ents[u]
      Version(f) == IF r.versions[f] = None THEN 0 ELSE r.versions[f]
  IN  CASE sent.op.op = "create" ->
             [work EXCEPT !.mem.ents[u] = [val |-> Values(u, data), ver |-> [f \in Field |-> Version(f)]]]
        [] sent.op.op = "set" ->
             IF ent = None THEN work
             ELSE [work EXCEPT !.mem.ents[u] =
                     [val |-> [f \in Field |-> IF f \in accepted THEN data[f] ELSE ent.val[f]],
                      ver |-> [f \in Field |-> IF f \in accepted THEN Version(f) ELSE ent.ver[f]]]]
        [] sent.op.op = "remove" ->
             [Forget(work, u) EXCEPT !.mem.removed = @ \cup {u}]

FieldwiseResult(work, sent, r, current) ==
  LET u        == sent.op.uid
      op       == sent.op.op
      fields   == DOMAIN sent.op.data
      listed   == {f \in fields : r.versions[f] # None}
      accepted == listed \ r.refused
      unclear  == fields \ (listed \cup r.refused)
      bad      == IF current THEN r.refused ELSE {}
      noted    == [work EXCEPT
                     !.refused = @ \cup (IF op = "set" THEN {<<"held", u, f>> : f \in unclear} ELSE {})
                                   \cup {<<"lost", u, f>> : f \in bad},
                     !.marks   = @ \cup (IF bad = {} THEN {} ELSE {Home[u]}),
                     !.intent  = {w \in @ : ~(/\ w \in Told(@, sent)
                                              /\ \/ w[2] \in accepted \cup bad
                                                 \/ w[2] = "gone" /\ (r.refused = {} \/ bad # {})
                                                 \/ op = "create")}]
      adopted  == IF op = "set" THEN AdoptServerValues(noted, u, bad, r.row) ELSE noted
  IN  Achieved(adopted, sent, r, accepted)

(* The result of the next op of the batch, handled under its item's lock.  *)
Handle(s) ==
  LET r       == round[s]
      sent    == Head(r.answers).sent
      result  == Head(r.answers).result
      current == ~r.replay \/ StillLocal(Work(s), sent.op)
      whole   == result.status = "rejected" /\ result.refused = {}
      holds   == {<<"held", sent.op.uid, f>> : f \in DOMAIN sent.op.data}
      start   == IF whole /\ sent.op.op = "set" /\ result.reason = "group-rolled-back"
                 THEN [Work(s) EXCEPT !.refused = @ \cup holds] ELSE Work(s)
      work    == IF ~whole THEN FieldwiseResult(start, sent, result, current)
                 ELSE IF current THEN WholeOpRejected(start, sent, result) ELSE start
  IN  /\ r.phase = "handle"
      /\ r.answers # <<>>
      /\ Home[sent.op.uid] \notin held[s]
      /\ files' = [files EXCEPT ![s] = work.files]
      /\ marks' = [marks EXCEPT ![s] = work.marks]
      /\ intent' = [intent EXCEPT ![s] = {w \in work.intent : w[1] # sent.op.uid
                                                              \/ Outstanding(work.mem, w)}]
      /\ Rounds(s, [r EXCEPT !.answers = Tail(@), !.mem = work.mem, !.refused = work.refused,
                             !.local = work.local])
      /\ UNCHANGED <<db, known, wire, disk, outbox, held, used>>

(* Every result of the batch is recorded: the snapshot is saved.           *)
SaveResults(s) ==
  /\ round[s].phase = "handle"
  /\ round[s].answers = <<>>
  /\ disk' = [disk EXCEPT ![s] = round[s].mem]
  /\ Rounds(s, [round[s] EXCEPT !.phase = "send", !.sent = <<>>])
  /\ UNCHANGED <<db, known, wire, files, outbox, marks, held, intent, used>>

-----------------------------------------------------------------------------
(***************************************************************************)
(* The pull.                                                               *)
(***************************************************************************)

(* The changes after the cursor.                                           *)
Fetch(s) ==
  LET r == round[s]
  IN  /\ r.phase = "fetch"
      /\ Rounds(s, [r EXCEPT !.phase = "apply", !.todo = ChangesSince(r.mem.cursor), !.next = SeqOf(db)])
      /\ UNCHANGED <<db, known, wire, files, disk, outbox, marks, held, intent, used>>

(* The fields a pulled change leaves as they are: they moved since "before" *)
(* read them, or are held, and the server did not refuse them.             *)
Kept(u, before, cur, old, refused) ==
  LET read == IF Home[u] \in before.scanned THEN before.val[u]
              ELSE IF old # None THEN old.val ELSE None
  IN  IF read = None \/ cur = None THEN {}
      ELSE {f \in Field : /\ <<"lost", u, f>> \notin refused
                          /\ <<"held", u, f>> \in refused \/ cur[f] # read[f]}

(* Mutant: a kept field takes the version of the value it did not take.    *)
VersionOfChange(old, row, kept, f) == row.ver[f]

(* A kept field stays at the version its snapshot value had.               *)
VersionSeen(old, row, kept, f) ==
  IF f \in kept /\ old # None /\ old.ver[f] # 0 THEN old.ver[f] ELSE row.ver[f]

Undeferred(mem, u) == [mem EXCEPT !.deferred = {c \in @ : c.uid # u}]

(* A change as it is written to the files and the snapshot.                *)
WriteChange(work, ch, before) ==
  LET u    == ch.uid
      cur  == work.files[u]
      old  == work.mem.ents[u]
      kept == Kept(u, before, cur, old, work.refused)
      val  == [f \in Field |-> IF f \in kept THEN cur[f] ELSE ch.row.val[f]]
      ent  == [val |-> [f \in Field |-> IF f \in kept /\ old # None THEN old.val[f] ELSE ch.row.val[f]],
               ver |-> [f \in Field |-> VersionSeen(old, ch.row, kept, f)]]
      mem  == Undeferred(work.mem, u)
  IN  IF ch.row = None
      THEN [work EXCEPT !.files[u] = None,
                        !.mem = [mem EXCEPT !.ents[u] = None, !.removed = @ \cup {u}]]
      ELSE [work EXCEPT !.files[u] = val, !.mem = [mem EXCEPT !.ents[u] = ent]]

(* A change waits when its item is held, was held when the round scanned   *)
(* it, or is not there.                                                    *)
MustWait(s, ch, before) ==
  \/ Home[ch.uid] \in before.busy \cup held[s]
  \/ ch.uid \in Child /\ files[s][Home[ch.uid]] = None

Deferred(mem, ch) == [mem EXCEPT !.deferred = {c \in @ : c.uid # ch.uid} \cup {ch}]

(* The item as it is now, as the pull re-reads it before each change.      *)
Reloaded(s, now, item) ==
  [now EXCEPT !.val = [u \in Uid |-> IF Home[u] = item THEN files[s][u] ELSE @[u]],
              !.scanned = IF files[s][item] = None THEN @ ELSE @ \cup {item},
              !.busy = @ \ {item}]

Stored(s, work, r) ==
  /\ files' = [files EXCEPT ![s] = work.files]
  /\ Rounds(s, [r EXCEPT !.mem = work.mem])

(* Mutant: a link takes the server's values without a word.                *)
ToldNothing(wishes, ch) == wishes

(* A link says which of the store's columns the server's replaced; it does *)
(* not say so of json keys.                                                *)
ToldReplaced(wishes, ch) == {w \in wishes : w[1] # ch.uid \/ ch.row = None \/ w[2] \notin Settable(ch.uid)}

(* The next change of the page.                                            *)
ApplyPulled(s) ==
  LET r == round[s]
  IN  /\ r.phase = "apply"
      /\ \E ch \in r.todo :
           LET rest == [r EXCEPT !.todo = @ \ {ch}]
               now  == Reloaded(s, r.now, Home[ch.uid])
               work == WriteChange(Work(s), ch, r.local)
               seen == IF ch.uid \in Item THEN [now EXCEPT !.val[ch.uid] = work.files[ch.uid]] ELSE now
           IN  /\ Comes(ch, r.todo)
               /\ IF MustWait(s, ch, r.local)
                  THEN Rounds(s, [rest EXCEPT !.mem = Deferred(@, ch)]) /\ UNCHANGED <<files, intent>>
                  ELSE /\ Stored(s, work, [rest EXCEPT !.now = seen])
                       /\ intent' = IF r.adopt THEN [intent EXCEPT ![s] = ToldReplaced(@, ch)] ELSE intent
      /\ UNCHANGED <<db, known, wire, disk, outbox, marks, held, used>>

(* The page is through: what is deferred is tried again, first here, and   *)
(* once more at the end of the round.                                      *)
RetryPage(s) ==
  LET r == round[s]
  IN  /\ r.phase = "apply"
      /\ r.todo = {}
      /\ Rounds(s, [r EXCEPT !.phase = "retry", !.inPull = TRUE, !.todo = r.mem.deferred,
                             !.mem.deferred = {}, !.left = {}])
      /\ UNCHANGED <<db, known, wire, files, disk, outbox, marks, held, intent, used>>

(* A deferred change, tried again.  In the pull it is compared with what   *)
(* the pull re-read, at the end of the round with what the round scanned.  *)
Retry(s) ==
  LET r      == round[s]
      before == IF r.inPull THEN r.now ELSE r.local
  IN  /\ r.phase = "retry"
      /\ \E ch \in r.todo :
           LET rest == [r EXCEPT !.todo = @ \ {ch}]
           IN  /\ Comes(ch, r.todo)
               /\ IF MustWait(s, ch, before)
                  THEN Rounds(s, [rest EXCEPT !.left = @ \cup {ch}]) /\ UNCHANGED files
                  ELSE Stored(s, WriteChange(Work(s), ch, before), rest)
      /\ UNCHANGED <<db, known, wire, disk, outbox, marks, held, intent, used>>

(* Mutant: the cursor moves to what the project's seq is by then.          *)
SeqByNow(r) == SeqOf(db)

(* Mutant: the cursor moves one too far.                                   *)
OnePast(r) == r.next + 1

(* The cursor the page came with.                                          *)
NextCursor(r) == r.next

(* The cursor moves past the page and the snapshot is saved; after the     *)
(* pull of a link the round proper begins.                                 *)
EndPull(s) ==
  LET r   == round[s]
      mem == [r.mem EXCEPT !.deferred = r.left, !.cursor = NextCursor(r)]
  IN  /\ r.phase = "retry" /\ r.inPull
      /\ r.todo = {}
      /\ disk' = [disk EXCEPT ![s] = mem]
      /\ Rounds(s, IF r.adopt
                   THEN Begun(s, [r EXCEPT !.adopt = FALSE, !.inPull = FALSE, !.left = {},
                                           !.now = NoScan, !.mem = mem])
                   ELSE [r EXCEPT !.inPull = FALSE, !.left = {}, !.todo = r.left,
                                  !.mem = [mem EXCEPT !.deferred = {}],
                                  !.save = @ \/ r.left # {}])
      /\ UNCHANGED <<db, known, wire, files, outbox, marks, held, intent, used>>

EndRound(s) ==
  LET r   == round[s]
      mem == [r.mem EXCEPT !.deferred = r.left]
  IN  /\ r.phase = "retry" /\ ~r.inPull
      /\ r.todo = {}
      /\ disk' = IF r.save THEN [disk EXCEPT ![s] = mem] ELSE disk
      /\ Rounds(s, Resting)
      /\ UNCHANGED <<db, known, wire, files, outbox, marks, held, intent, used>>

-----------------------------------------------------------------------------

Command(s) ==
  \/ \E i \in Item : Acquire(s, i) \/ Release(s, i)
  \/ \E e \in Edit : EditFiles(s, e)

RoundStep(s) ==
  \/ Scan(s) \/ Send(s) \/ Pushed(s) \/ Handle(s) \/ SaveResults(s)
  \/ Fetch(s) \/ ApplyPulled(s) \/ RetryPage(s) \/ Retry(s) \/ EndPull(s) \/ EndRound(s)
  \/ TimeOut(s)
  \/ \E m \in wire : Respond(s, m) \/ Refused(s, m)

Next ==
  \/ \E s \in Store : Command(s) \/ RoundStep(s) \/ NetworkError(s) \/ Crash(s)
  \/ \E s \in Store, pushOnly, full, adopt \in BOOLEAN : StartRound(s, pushOnly, full, adopt)
  \/ \E e \in WebEdit : WriteOnDashboard(e)
  \/ \E m \in wire : Serve(m) \/ LoseRequest(m)

Spec == Init /\ [][Next]_vars

(* Faults are bounded, so weak fairness of the network and of rounds means *)
(* that requests get through once the faults are used up.  The automatic   *)
(* rounds around commands and the service's timer start rounds again and   *)
(* again, and a round that starts when a sweep is due is a full one, so    *)
(* that however many are not, full ones come; commands end, but nobody has *)
(* to start one.                                                           *)
Fairness ==
  /\ \A s \in Store :
       /\ WF_vars(RoundStep(s))
       /\ SF_vars(StartRound(s, FALSE, TRUE, FALSE))
       /\ \A i \in Item : WF_vars(Release(s, i))
  /\ WF_vars(\E m \in wire : Serve(m))

FairSpec == Spec /\ Fairness

-----------------------------------------------------------------------------

IsEnt(e) == e.val \in Content /\ e.ver \in [Field -> Nat]

IsSnapshot(snap) ==
  /\ snap.cursor \in 0..SeqOf(db)
  /\ \A u \in Uid : snap.ents[u] # None => IsEnt(snap.ents[u])
  /\ snap.removed \subseteq Child
  /\ \A ch \in snap.deferred : ch.uid \in Uid

Snapshots(s) == {disk[s]} \cup (IF round[s].phase = "idle" THEN {} ELSE {round[s].mem})

Members(list) == {list[i] : i \in DOMAIN list}
SentOps(s) == UNION {Members(unit) : unit \in Members(outbox[s]) \cup Members(round[s].pending)}

(* Types; a snapshot's cursor never points past the server's feed, and     *)
(* every op under way is well-formed and has an id of its own.             *)
TypeOK ==
  /\ db \in Db
  /\ \A s \in Store :
       /\ \A u \in Uid : files[s][u] \in Content \cup {None}
       /\ \A snap \in Snapshots(s) : IsSnapshot(snap)
       /\ marks[s] \subseteq Item /\ held[s] \subseteq Item
       /\ \A d \in SentOps(s) : IsOp(d.op) /\ d.op.id \in 1..used.ops
       /\ \A d, e \in SentOps(s) : d.op.id = e.op.id => d = e

(* No op under way could overwrite a value its store had not seen when it  *)
(* made the op, but for a key of the json column: a key that the snapshot  *)
(* has no version of takes the server's with the value kept.               *)
NoBlindWrite ==
  \A m \in wire : \A i \in DOMAIN m.units : \A j \in DOMAIN m.units[i] :
    LET d == m.units[i][j]
        row == db.rows[d.op.uid]
    IN  (d.op.op = "set" /\ row # None /\ known[d.op.id] = None) =>
          \A f \in DOMAIN d.op.data \ JsonField :
            (d.op.base[f] = row.ver[f] /\ row.ver[f] # 0) => d.seen[f] = row.val[f]

(* What a user asked for is in the store's files until the server has it   *)
(* or the user is told why not.                                            *)
NoSilentLoss ==
  \A s \in Store : \A w \in intent[s] :
    IF w[2] = "gone" THEN files[s][w[1]] = None
    ELSE files[s][w[1]] # None /\ files[s][w[1]][w[2]] = w[3]

NamedAfter(since, u) ==
  \E n \in (since + 1)..SeqOf(db) : db.feed[n].uid = u /\ db.feed[n].trail = 0

IsDeferred(snap, u) == \E ch \in snap.deferred : ch.uid = u

UpToDate(ent, u) ==
  IF db.rows[u] = None THEN ent = None
  ELSE /\ ent # None
       /\ \A f \in SetFields(u) : ent.ver[f] = db.rows[u].ver[f]

(* Nothing is lost behind the cursor: an entity the snapshot on disk does  *)
(* not have as the server has it is named by a change the cursor has not   *)
(* passed, is deferred, or differs from its files so that the next diff    *)
(* takes it up again.                                                      *)
NothingBehindTheCursor ==
  \A s \in Store : \A u \in Uid :
    LET ent == disk[s].ents[u]
    IN  \/ UpToDate(ent, u)
        \/ NamedAfter(disk[s].cursor, u)
        \/ IsDeferred(disk[s], u)
        \/ (ent = None) # (files[s][u] = None)
        \/ (ent # None /\ files[s][u] # None /\ ent.val # files[s][u])

(* The ops the next full round would push.                                 *)
Pending(s) == Drafts(ScanOf(s, Item), disk[s])

GivenUp(s, u) == disk[s].stuck[u] # None

Quiet(s) ==
  /\ round[s].phase = "idle"
  /\ held[s] = {} /\ outbox[s] = <<>>
  /\ Pending(s) = {}
  /\ disk[s].cursor = SeqOf(db)
  /\ disk[s].deferred = {}
  /\ \A u \in Uid : ~GivenUp(s, u)

AgreesOn(s, u) == files[s][u] = IF db.rows[u] = None THEN None ELSE db.rows[u].val
Agrees(s) == \A u \in Uid : AgreesOn(s, u)

(* A store with nothing left to push or to pull has what the server has.   *)
(* It does not hold once a child is removed of which a pull kept a field   *)
(* edited meanwhile: the run MCTodoSyncRemovalLost shows it.               *)
QuietMeansEqual == \A s \in Store : Quiet(s) => Agrees(s)

(* A rejection note reaches the server only with the status change it was  *)
(* written with, which the item's history then shows, whatever became of   *)
(* the first attempt to push the two (_group_rejections, the group's       *)
(* rollback).  It holds as long as the item is not moved on locally before *)
(* they are pushed; the run MCTodoSyncPickedUp shows what happens then.    *)
RejectionsKeepTheirStatus ==
  \A n \in DOMAIN WithStatus : db.rows[n] # None =>
    \E k \in DOMAIN db.trail[Home[n]] : db.trail[Home[n]][k].to = WithStatus[n]

(* An op that was written to the outbox does not stay there, even if the   *)
(* server will not have it.                                                *)
OutboxDrains == \A s \in Store : outbox[s] # <<>> ~> outbox[s] = <<>>

(* When people stop, every store comes to have what the server has and     *)
(* stays so, whatever was lost on the way, but for the entities whose ops  *)
(* the server refused: those are parked until someone edits them.  (As in  *)
(* QuietMeansEqual, a child both set and removed here may stay apart.)     *)
Converges ==
  <>[](\A s \in Store : \A u \in Uid : GivenUp(s, u) \/ AgreesOn(s, u))
=============================================================================
