---------------------------- MODULE TodoSyncProofs ----------------------------
(***************************************************************************)
(* The rounds of stores against one project, proved for every set of       *)
(* stores, items, children and edits, and any number of losses and kills.  *)
(*                                                                         *)
(* Every version that a store, a request or an answer holds stands for a   *)
(* value: as long as the server's row has that version of the field, the   *)
(* field has that value ("fits the tables", and tables that move on keep   *)
(* it: ProjectDbProofs).  IInv says so of all there is: snapshots on disk  *)
(* and in memory, what a pull has still to write, what waits, the answers  *)
(* on their way and those recorded, and the ops that a store or a request  *)
(* holds, replayed ones too.  An op's id is of one op at one place, so an  *)
(* answer is an answer to the op that is read with it.                     *)
(*                                                                         *)
(* First the shapes and what a store's own step leaves alone, then one     *)
(* lemma for each action, the scan's diff and the grouping of its ops      *)
(* last, and the theorems.                                                 *)
(***************************************************************************)
EXTENDS TodoSync, ProjectDbProofs, FiniteSetTheorems

-----------------------------------------------------------------------------
(* Shapes.                                                                 *)

Texts  == Content \cup {None}
Ent    == [val : Content, ver : [Field -> Nat]]
Chg    == [seq : Nat, uid : Uid, row : Row \cup {None}]
Prints  == {None} \cup ({"data"} \X Texts) \cup ({"removed"} \X [Field -> Nat])

Snap == [cursor : Nat, ents : [Uid -> Ent \cup {None}], deferred : SUBSET Chg,
         stuck : [Uid -> Prints], removed : SUBSET Child]

Scanned == [val : [Uid -> Texts], scanned : SUBSET Item, busy : SUBSET Item]

Partial == UNION {[D -> Value \cup {None}] : D \in SUBSET Field}

OpSet == [id : Nat, op : {"create", "set", "remove"}, uid : Uid, item : Item, data : Partial,
          base : [Field -> Nat], unconditional : BOOLEAN, plugin : BOOLEAN, agent : BOOLEAN,
          force : BOOLEAN, group : BOOLEAN]

(* A create carries every column; only children are removed.               *)
Sensible(op) ==
  /\ \A f \in DOMAIN op.data : IsSettable(op.uid, f)
  /\ op.op = "create" => Plain(op.uid) \subseteq DOMAIN op.data
  /\ op.op = "remove" => op.uid \in Child

Drafted == {x \in [op : OpSet, fp : Prints, seen : Texts] : Sensible(x.op)}

(* The ops of a unit are of different entities.                            *)
Apart(unit) == \A i, j \in DOMAIN unit : i # j => unit[i].op.uid # unit[j].op.uid

PushUnit  == {unit \in Seq(Drafted) : unit # <<>> /\ Apart(unit)}
PushUnits == Seq(PushUnit)
Replies   == Seq([sent : Drafted, result : Result])

Msg == [store : Store, units : PushUnits, answers : Replies, awaited : BOOLEAN, refused : BOOLEAN]

Phases   == {"idle", "scan", "send", "wait", "handle", "fetch", "apply", "retry"}
Refusals == {"held", "lost"} \X Uid \X Field

Round == [phase : Phases, pushOnly : BOOLEAN, full : BOOLEAN, taken : SUBSET Item,
          replay : BOOLEAN, pushed : BOOLEAN, save : BOOLEAN, mem : Snap,
          local : Scanned, now : Scanned, pending : PushUnits, sent : PushUnits, limit : Nat,
          answers : Replies, refused : SUBSET Refusals, todo : SUBSET Chg, left : SUBSET Chg,
          inPull : BOOLEAN, adopt : BOOLEAN, next : Nat]

Used == [ops : 0..MaxOps, edits : Nat, faults : Nat, made : SUBSET Uid]

ServerTypes == Grounded(db) /\ known \in [1..MaxOps -> Result \cup {None}] /\ used \in Used
StoreTypes ==
  /\ files \in [Store -> [Uid -> Texts]]
  /\ disk \in [Store -> Snap]
  /\ outbox \in [Store -> PushUnits]
  /\ marks \in [Store -> SUBSET Item] /\ held \in [Store -> SUBSET Item]
  /\ round \in [Store -> Round]
Types == ServerTypes /\ StoreTypes /\ wire \in SUBSET Msg

-----------------------------------------------------------------------------
(* What everything a store or a request holds says of the tables.          *)

ChgFits(d, ch) == IF ch.row = None THEN ch.uid \in Child ELSE RowFits(d, ch.uid, ch.row)

SnapFits(d, snap) ==
  /\ snap.cursor <= SeqOf(d)
  /\ \A u \in Uid : snap.ents[u] # None => RowFits(d, u, snap.ents[u])
  /\ \A ch \in snap.deferred : ChgFits(d, ch)

RepliesFit(d, answers) ==
  \A i \in DOMAIN answers : AnswerFits(d, answers[i].sent.op, answers[i].result)

RoundFits(d, r) ==
  /\ SnapFits(d, r.mem)
  /\ \A ch \in r.todo \cup r.left : ChgFits(d, ch)
  /\ r.next <= SeqOf(d)
  /\ RepliesFit(d, r.answers)
  /\ r.phase = "wait" => r.sent # <<>>

(* The values and versions a set was made from.                            *)
DraftFits(d, x) ==
  x.op.op = "set" =>
    \A f \in Plain(x.op.uid) : f \in DOMAIN x.op.data =>
      FitsIn(d, x.op.uid, f, x.op.base[f], x.seen[f])

UnitsOfStore(s) == Members(outbox[s]) \cup Members(round[s].pending) \cup Members(round[s].sent)
UnitsInStores == UNION {UnitsOfStore(s) : s \in Store}
UnitsOnWire   == UNION {Members(m.units) : m \in wire}
UnitsGoing == UnitsInStores \cup UnitsOnWire
Going == UNION {Members(unit) : unit \in UnitsGoing}

DraftOk(x) ==
  /\ x.op.id \in 1..used.ops
  /\ DraftFits(db, x)
  /\ known[x.op.id] # None => AnswerFits(db, x.op, known[x.op.id])

StoresFit  == \A s \in Store : SnapFits(db, disk[s]) /\ RoundFits(db, round[s])
WireFits   == \A m \in wire : RepliesFit(db, m.answers)
KnownInv   == \A id \in 1..MaxOps : known[id] # None => id <= used.ops
GoingInv   == \A x \in Going : DraftOk(x)
UniqueInv  == \A x, y \in Going : x.op.id = y.op.id => x = y

IInv == Types /\ StoresFit /\ WireFits /\ KnownInv /\ GoingInv /\ UniqueInv

-----------------------------------------------------------------------------
(* Lists and what is in them.                                              *)

LEMMA EmptyHasNone ==
  ASSUME NEW S
  PROVE  <<>> \in Seq(S) /\ Members(<<>>) = {} /\ DOMAIN <<>> = {}
  BY EmptySeq DEF Members

LEMMA HeadAndTail ==
  ASSUME NEW S, NEW l \in Seq(S), l # <<>>
  PROVE  /\ Head(l) \in S /\ Head(l) \in Members(l) /\ Head(l) = l[1] /\ 1 \in DOMAIN l
         /\ Tail(l) \in Seq(S) /\ Members(Tail(l)) \subseteq Members(l)
         /\ \A i \in DOMAIN Tail(l) : i + 1 \in DOMAIN l /\ Tail(l)[i] = l[i + 1]
<1>1. Len(l) \in Nat /\ DOMAIN l = 1..Len(l) /\ Len(l) # 0
  BY LenProperties, EmptySeq
<1>2. Head(l) = l[1] /\ l[1] \in S /\ 1 \in DOMAIN l
  BY <1>1, ElementOfSeq, HeadTailProperties
<1>3. /\ Tail(l) \in Seq(S) /\ DOMAIN Tail(l) = 1..(Len(l) - 1)
      /\ \A i \in 1..(Len(l) - 1) : Tail(l)[i] = l[i + 1]
  <2>1. Tail(l) \in Seq(S) /\ Len(Tail(l)) = Len(l) - 1
        /\ \A i \in 1..Len(Tail(l)) : Tail(l)[i] = l[i + 1]
    BY HeadTailProperties
  <2>2. DOMAIN Tail(l) = 1..Len(Tail(l))
    BY <2>1, LenProperties
  <2> QED
    BY <2>1, <2>2
<1>4. \A i \in DOMAIN Tail(l) : i + 1 \in DOMAIN l /\ Tail(l)[i] = l[i + 1]
  BY <1>1, <1>3
<1> QED
  BY <1>2, <1>3, <1>4 DEF Members

LEMMA FirstsAndRest ==
  ASSUME NEW S, NEW l \in Seq(S), NEW k \in 1..Len(l)
  PROVE  /\ SubSeq(l, 1, k) \in Seq(S) /\ SubSeq(l, 1, k) # <<>>
         /\ Members(SubSeq(l, 1, k)) \subseteq Members(l)
         /\ SubSeq(l, k + 1, Len(l)) \in Seq(S)
         /\ Members(SubSeq(l, k + 1, Len(l))) \subseteq Members(l)
<1>1. Len(l) \in Nat /\ DOMAIN l = 1..Len(l)
  BY LenProperties
<1>2. ASSUME NEW a \in 1..(Len(l) + 1), NEW b \in 0..Len(l), a <= b + 1
      PROVE  /\ SubSeq(l, a, b) \in Seq(S) /\ Len(SubSeq(l, a, b)) = b - a + 1
             /\ Members(SubSeq(l, a, b)) \subseteq Members(l)
  <2>1. /\ SubSeq(l, a, b) \in Seq(S)
        /\ Len(SubSeq(l, a, b)) = b - a + 1
        /\ \A i \in 1..(b - a + 1) : SubSeq(l, a, b)[i] = l[a + i - 1]
    <3>1. CASE a <= b
      BY <1>1, <1>2, <3>1, SubSeqProperties
    <3>2. CASE a = b + 1
      <4>1. SubSeq(l, a, b) = <<>>
        BY <1>1, <1>2, <3>2, SubSeqProperties
      <4> QED
        BY <1>1, <1>2, <3>2, <4>1, EmptySeq
    <3> QED
      BY <1>1, <1>2, <3>1, <3>2
  <2>2. DOMAIN SubSeq(l, a, b) = 1..(b - a + 1)
    BY <2>1, LenProperties
  <2>3. \A i \in 1..(b - a + 1) : a + i - 1 \in 1..Len(l)
    BY <1>1, <1>2
  <2> QED
    BY <1>1, <2>1, <2>2, <2>3 DEF Members
<1>3. 1 \in 1..(Len(l) + 1) /\ k \in 0..Len(l) /\ 1 <= k + 1 /\ k + 1 \in 1..(Len(l) + 1)
      /\ Len(l) \in 0..Len(l) /\ k + 1 <= Len(l) + 1 /\ k - 1 + 1 # 0
  BY <1>1
<1>4. SubSeq(l, 1, k) # <<>>
  <2>1. Len(SubSeq(l, 1, k)) = k - 1 + 1
    BY <1>2, <1>3
  <2> QED
    BY <1>3, <2>1, EmptySeq
<1> QED
  BY <1>2, <1>3, <1>4

LEMMA ConcatHas ==
  ASSUME NEW S, NEW l \in Seq(S), NEW m \in Seq(S)
  PROVE  /\ l \o m \in Seq(S)
         /\ Members(l \o m) \subseteq Members(l) \cup Members(m)
<1>1. /\ l \o m \in Seq(S) /\ Len(l \o m) = Len(l) + Len(m)
      /\ \A i \in 1..(Len(l) + Len(m)) :
           (l \o m)[i] = IF i <= Len(l) THEN l[i] ELSE m[i - Len(l)]
  BY ConcatProperties
<1>2. /\ DOMAIN l = 1..Len(l) /\ DOMAIN m = 1..Len(m) /\ Len(l) \in Nat /\ Len(m) \in Nat
      /\ DOMAIN (l \o m) = 1..(Len(l) + Len(m))
  BY <1>1, LenProperties
<1>3. ASSUME NEW i \in DOMAIN (l \o m) PROVE (l \o m)[i] \in Members(l) \cup Members(m)
  <2>1. CASE i <= Len(l)
    BY <1>1, <1>2, <2>1 DEF Members
  <2>2. CASE ~(i <= Len(l))
    <3>1. i - Len(l) \in 1..Len(m)
      BY <1>2, <2>2
    <3> QED
      BY <1>1, <1>2, <2>2, <3>1 DEF Members
  <2> QED
    BY <2>1, <2>2
<1> QED
  BY <1>1, <1>3 DEF Members

(* All of a list are members of it.                                        *)
LEMMA MembersTyped ==
  ASSUME NEW S, NEW l \in Seq(S)
  PROVE  Members(l) \subseteq S /\ Len(l) \in Nat /\ DOMAIN l = 1..Len(l)
  BY LenProperties, ElementOfSeq DEF Members

-----------------------------------------------------------------------------
(* What fits the tables fits later ones.                                   *)

LEMMA SnapFitsStays ==
  ASSUME NEW d, NEW e, Newer(d, e), NEW snap \in Snap, SnapFits(d, snap)
  PROVE  SnapFits(e, snap)
<1>1. snap.cursor \in Nat /\ snap.deferred \in SUBSET Chg
  BY DEF Snap
<1>2. snap.cursor <= SeqOf(e)
  BY <1>1 DEF SnapFits, Newer
<1>3. \A u \in Uid : snap.ents[u] # None => RowFits(e, u, snap.ents[u])
  BY RowFitsStays DEF SnapFits
<1>4. \A ch \in snap.deferred : ChgFits(e, ch)
  BY <1>1, RowFitsStays DEF SnapFits, ChgFits, Chg
<1> QED
  BY <1>2, <1>3, <1>4 DEF SnapFits

LEMMA RepliesFitStays ==
  ASSUME NEW d, NEW e, Newer(d, e), NEW answers \in Replies, RepliesFit(d, answers)
  PROVE  RepliesFit(e, answers)
<1>1. \A i \in DOMAIN answers : answers[i] \in [sent : Drafted, result : Result]
  BY LenProperties, ElementOfSeq DEF Replies
<1>2. \A i \in DOMAIN answers : answers[i].sent.op.uid \in Uid
  BY <1>1 DEF Drafted, OpSet
<1> QED
  BY <1>2, AnswerFitsStays DEF RepliesFit

LEMMA RoundFitsStays ==
  ASSUME NEW d, NEW e, Newer(d, e), NEW r \in Round, RoundFits(d, r)
  PROVE  RoundFits(e, r)
<1>1. r.mem \in Snap /\ r.answers \in Replies /\ r.next \in Nat
      /\ r.todo \in SUBSET Chg /\ r.left \in SUBSET Chg
  BY DEF Round
<1>2. SnapFits(e, r.mem) /\ RepliesFit(e, r.answers)
  BY <1>1, SnapFitsStays, RepliesFitStays DEF RoundFits
<1>3. \A ch \in r.todo \cup r.left : ChgFits(e, ch)
  BY <1>1, RowFitsStays DEF RoundFits, ChgFits, Chg
<1>4. r.next <= SeqOf(e)
  BY <1>1 DEF RoundFits, Newer
<1> QED
  BY <1>2, <1>3, <1>4 DEF RoundFits

LEMMA DraftFitsStays ==
  ASSUME NEW d, NEW e, Newer(d, e), NEW x, x.op.uid \in Uid, DraftFits(d, x)
  PROVE  DraftFits(e, x)
  BY PlainFields, FitsStays DEF DraftFits

-----------------------------------------------------------------------------
(* The units under way.                                                    *)

LEMMA GoingMeans ==
  \A unit : unit \in UnitsGoing <=> \/ \E s \in Store : unit \in UnitsOfStore(s)
                                    \/ \E m \in wire : unit \in Members(m.units)
<1>1. \A unit : unit \in UnitsInStores <=> \E s \in Store : unit \in UnitsOfStore(s)
  BY DEF UnitsInStores
<1>2. \A unit : unit \in UnitsOnWire <=> \E m \in wire : unit \in Members(m.units)
  BY DEF UnitsOnWire
<1> QED
  BY <1>1, <1>2 DEF UnitsGoing

LEMMA GoingNextMeans ==
  \A unit : unit \in UnitsGoing' <=> \/ \E s \in Store : unit \in UnitsOfStore(s)'
                                     \/ \E m \in wire' : unit \in Members(m.units)
<1>1. \A unit : unit \in UnitsInStores' <=> \E s \in Store : unit \in UnitsOfStore(s)'
  BY DEF UnitsInStores
<1>2. \A unit : unit \in UnitsOnWire' <=> \E m \in wire' : unit \in Members(m.units)
  BY DEF UnitsOnWire
<1> QED
  BY <1>1, <1>2 DEF UnitsGoing

LEMMA UnitsTyped ==
  ASSUME Types
  PROVE  UnitsGoing \subseteq PushUnit /\ Going \subseteq Drafted
<1>1. \A s \in Store : UnitsOfStore(s) \subseteq PushUnit
  <2> TAKE s \in Store
  <2>1. outbox[s] \in PushUnits /\ round[s].pending \in PushUnits /\ round[s].sent \in PushUnits
    BY DEF Types, StoreTypes, Round
  <2> QED
    BY <2>1, MembersTyped DEF UnitsOfStore, PushUnits
<1>2. \A m \in wire : Members(m.units) \subseteq PushUnit
  <2> TAKE m \in wire
  <2>1. m.units \in PushUnits
    BY DEF Types, Msg
  <2> QED
    BY <2>1, MembersTyped DEF PushUnits
<1>3. UnitsGoing \subseteq PushUnit
  BY <1>1, <1>2, GoingMeans
<1>4. \A unit \in PushUnit : Members(unit) \subseteq Drafted
  BY MembersTyped DEF PushUnit
<1> QED
  BY <1>3, <1>4 DEF Going

LEMMA UnitFactsHere ==
  ASSUME NEW unit \in PushUnit
  PROVE  /\ Len(unit) \in Nat /\ DOMAIN unit = 1..Len(unit) /\ 1 \in DOMAIN unit
         /\ \A i \in DOMAIN unit : unit[i] \in Drafted /\ unit[i] \in Members(unit)
         /\ Apart(unit)
<1>1. unit \in Seq(Drafted) /\ unit # <<>> /\ Apart(unit)
  BY DEF PushUnit
<1> QED
  BY <1>1, HeadAndTail, LenProperties, ElementOfSeq DEF Members

(* A step that touches neither the server nor any unit that was not under  *)
(* way before.                                                             *)
LEMMA Quietly ==
  ASSUME IInv, UNCHANGED <<db, known>>, used' \in Used, used'.ops = used.ops,
         StoreTypes', wire' \in SUBSET Msg, StoresFit', WireFits',
         UnitsGoing' \subseteq UnitsGoing
  PROVE  IInv'
<1>1. Going' \subseteq Going
  BY DEF Going
<1>2. GoingInv' /\ UniqueInv'
  BY <1>1 DEF IInv, GoingInv, UniqueInv, DraftOk
<1>3. Types' /\ KnownInv'
  BY DEF IInv, Types, ServerTypes, KnownInv
<1> QED
  BY <1>2, <1>3 DEF IInv

(* A step of one store.                                                    *)
LEMMA OneStore ==
  ASSUME IInv, NEW s \in Store, UNCHANGED <<db, known>>, used' \in Used, used'.ops = used.ops,
         NEW F \in [Uid -> Texts], files' = [files EXCEPT ![s] = F],
         NEW D \in Snap, SnapFits(db, D), disk' = [disk EXCEPT ![s] = D],
         NEW O \in PushUnits, outbox' = [outbox EXCEPT ![s] = O],
         NEW M \in SUBSET Item, marks' = [marks EXCEPT ![s] = M],
         NEW H \in SUBSET Item, held' = [held EXCEPT ![s] = H],
         NEW R \in Round, RoundFits(db, R), round' = [round EXCEPT ![s] = R],
         Members(O) \subseteq UnitsGoing, Members(R.pending) \subseteq UnitsGoing,
         Members(R.sent) \subseteq UnitsGoing,
         wire' \in SUBSET Msg, WireFits', \A m \in wire' : Members(m.units) \subseteq UnitsGoing
  PROVE  IInv'
<1>1. StoreTypes
  BY DEF IInv, Types
<1>2. StoreTypes'
  BY <1>1 DEF StoreTypes
<1>3. /\ disk'[s] = D /\ outbox'[s] = O /\ round'[s] = R
      /\ \A t \in Store : t # s => disk'[t] = disk[t] /\ outbox'[t] = outbox[t] /\ round'[t] = round[t]
  BY <1>1 DEF StoreTypes
<1>4. StoresFit'
  BY <1>3 DEF IInv, StoresFit
<1>5. \A t \in Store : UnitsOfStore(t)' \subseteq UnitsGoing
  <2> TAKE t \in Store
  <2>1. CASE t = s
    <3>1. outbox'[t] = O /\ round'[t].pending = R.pending /\ round'[t].sent = R.sent
      BY <1>3, <2>1
    <3> QED
      BY <3>1 DEF UnitsOfStore
  <2>2. CASE t # s
    <3>1. UnitsOfStore(t)' = UnitsOfStore(t)
      BY <1>3, <2>2 DEF UnitsOfStore
    <3> QED
      BY <3>1, GoingMeans
  <2> QED
    BY <2>1, <2>2
<1>6. UnitsGoing' \subseteq UnitsGoing
  <2>1. \A unit : unit \in UnitsGoing' => \/ \E t \in Store : unit \in UnitsOfStore(t)'
                                          \/ \E m \in wire' : unit \in Members(m.units)
    BY GoingNextMeans
  <2> QED
    BY <1>5, <2>1
<1> QED
  BY <1>2, <1>4, <1>6, Quietly

(* What a store and the requests under way have, before a step.            *)
LEMMA Before ==
  ASSUME IInv, NEW s \in Store
  PROVE  /\ files[s] \in [Uid -> Texts] /\ files = [files EXCEPT ![s] = files[s]]
         /\ disk[s] \in Snap /\ SnapFits(db, disk[s]) /\ disk = [disk EXCEPT ![s] = disk[s]]
         /\ outbox[s] \in PushUnits /\ outbox = [outbox EXCEPT ![s] = outbox[s]]
         /\ Members(outbox[s]) \subseteq UnitsGoing
         /\ marks[s] \in SUBSET Item /\ marks = [marks EXCEPT ![s] = marks[s]]
         /\ held[s] \in SUBSET Item /\ held = [held EXCEPT ![s] = held[s]]
         /\ round[s] \in Round /\ RoundFits(db, round[s]) /\ round = [round EXCEPT ![s] = round[s]]
         /\ Members(round[s].pending) \subseteq UnitsGoing
         /\ Members(round[s].sent) \subseteq UnitsGoing
         /\ wire \in SUBSET Msg /\ WireFits /\ \A m \in wire : Members(m.units) \subseteq UnitsGoing
         /\ used \in Used
<1>1. StoreTypes /\ wire \in SUBSET Msg /\ used \in Used /\ WireFits
      /\ SnapFits(db, disk[s]) /\ RoundFits(db, round[s])
  BY DEF IInv, Types, ServerTypes, StoresFit
<1>2. /\ files[s] \in [Uid -> Texts] /\ files = [files EXCEPT ![s] = files[s]]
      /\ disk[s] \in Snap /\ disk = [disk EXCEPT ![s] = disk[s]]
      /\ outbox[s] \in PushUnits /\ outbox = [outbox EXCEPT ![s] = outbox[s]]
  BY <1>1 DEF StoreTypes
<1>3. /\ marks[s] \in SUBSET Item /\ marks = [marks EXCEPT ![s] = marks[s]]
      /\ held[s] \in SUBSET Item /\ held = [held EXCEPT ![s] = held[s]]
      /\ round[s] \in Round /\ round = [round EXCEPT ![s] = round[s]]
  BY <1>1 DEF StoreTypes
<1>4. UnitsOfStore(s) \subseteq UnitsGoing /\ \A m \in wire : Members(m.units) \subseteq UnitsGoing
  BY GoingMeans
<1> QED
  BY <1>1, <1>2, <1>3, <1>4 DEF UnitsOfStore

(* What a round has in memory.                                             *)
LEMMA RoundHas ==
  ASSUME NEW r \in Round
  PROVE  /\ r.phase \in Phases /\ r.mem \in Snap /\ r.local \in Scanned /\ r.now \in Scanned
         /\ r.pending \in PushUnits /\ r.sent \in PushUnits /\ r.limit \in Nat
         /\ r.answers \in Replies /\ r.refused \in SUBSET Refusals
         /\ r.todo \in SUBSET Chg /\ r.left \in SUBSET Chg /\ r.next \in Nat
         /\ r.taken \in SUBSET Item
  BY DEF Round

LEMMA SnapHas ==
  ASSUME NEW snap \in Snap
  PROVE  /\ snap.cursor \in Nat /\ snap.ents \in [Uid -> Ent \cup {None}]
         /\ snap.deferred \in SUBSET Chg /\ snap.stuck \in [Uid -> Prints]
         /\ snap.removed \in SUBSET Child
  BY DEF Snap

-----------------------------------------------------------------------------
(* Commands.                                                               *)

LEMMA AcquireKeeps ==
  ASSUME IInv, NEW s \in Store, NEW i \in Item, Acquire(s, i)
  PROVE  IInv'
<1>1. held' = [held EXCEPT ![s] = held[s] \cup {i}] /\ held[s] \cup {i} \in SUBSET Item
  BY Before DEF Acquire
<1>2. used' \in Used /\ used'.ops = used.ops
  BY Before DEF Acquire, Used
<1>3. UNCHANGED <<db, known, wire, files, disk, outbox, marks, round>>
  BY DEF Acquire
<1>4. WireFits'
  BY <1>3, Before DEF WireFits
<1> QED
  BY <1>1, <1>2, <1>3, <1>4, Before, OneStore

LEMMA ReleaseKeeps ==
  ASSUME IInv, NEW s \in Store, NEW i \in Item, Release(s, i)
  PROVE  IInv'
<1>1. /\ held' = [held EXCEPT ![s] = held[s] \ {i}] /\ held[s] \ {i} \in SUBSET Item
      /\ marks' = [marks EXCEPT ![s] = marks[s] \cup {i}] /\ marks[s] \cup {i} \in SUBSET Item
  BY Before DEF Release
<1>2. UNCHANGED <<db, known, wire, files, disk, outbox, round, used>>
  BY DEF Release
<1>3. WireFits' /\ used' \in Used
  BY <1>2, Before DEF WireFits
<1> QED
  BY <1>1, <1>2, <1>3, Before, OneStore

(* Values made of an edit's data are contents.                             *)
LEMMA ValuesTyped ==
  ASSUME NEW uid, NEW data, IsPartial(data, Field, Value \cup {None})
  PROVE  Values(uid, data) \in Content
  BY DEF Values, Content, IsPartial

(* A written field leaves contents.                                        *)
LEMMA FieldWritten ==
  ASSUME NEW val \in Content, NEW f \in Field, NEW v \in Value \cup {None}
  PROVE  [val EXCEPT ![f] = v] \in Content
  BY DEF Content

(* A command changes the values of one entity, or of two.                  *)
LEMMA EditFilesKeeps ==
  ASSUME IInv, NEW s \in Store, NEW e \in Edit, EditFiles(s, e)
  PROVE  IInv'
<1>1. /\ e.uid \in Uid /\ e.field \in Field /\ e.value \in Value \cup {None}
      /\ IsPartial(e.data, Field, Value \cup {None})
      /\ e.kind = "reject" => WithStatus[e.uid] \in Value
  BY SyncAssumption DEF IsEdit
<1>2. Home[e.uid] \in Item /\ Home[e.uid] \in Uid /\ "status" \in Field
  BY <1>1, HomeAssumption, FieldAssumption DEF Uid, Field
<1>3. files[s] \in [Uid -> Texts] /\ used \in Used /\ files \in [Store -> [Uid -> Texts]]
  BY Before DEF IInv, Types, StoreTypes
<1>4. \E F \in [Uid -> Texts] : files' = [files EXCEPT ![s] = F]
  <2>1. CASE e.kind = "set" /\ files[s][e.uid] # None
             /\ files' = [files EXCEPT ![s][e.uid][e.field] = e.value]
    <3> DEFINE new == [files[s][e.uid] EXCEPT ![e.field] = e.value]
               F   == [files[s] EXCEPT ![e.uid] = new]
    <3>1. files[s][e.uid] \in Content
      BY <1>1, <1>3, <2>1 DEF Texts
    <3>2. new \in Texts
      BY <1>1, <3>1, FieldWritten DEF Texts
    <3>3. files' = [files EXCEPT ![s] = F]
      BY <2>1
    <3> HIDE DEF new
    <3>4. F \in [Uid -> Texts]
      BY <1>1, <1>3, <3>2
    <3> HIDE DEF F
    <3> QED
      BY <3>3, <3>4
  <2>2. CASE files' = [files EXCEPT ![s][e.uid] = Values(e.uid, e.data)]
    <3> DEFINE F == [files[s] EXCEPT ![e.uid] = Values(e.uid, e.data)]
    <3>1. files' = [files EXCEPT ![s] = F]
      BY <2>2
    <3>2. F \in [Uid -> Texts]
      BY <1>1, <1>3, ValuesTyped DEF Texts
    <3> HIDE DEF F
    <3> QED
      BY <3>1, <3>2
  <2>3. CASE files' = [files EXCEPT ![s][e.uid] = None]
    <3> DEFINE F == [files[s] EXCEPT ![e.uid] = None]
    <3>1. files' = [files EXCEPT ![s] = F]
      BY <2>3
    <3>2. F \in [Uid -> Texts]
      BY <1>1, <1>3 DEF Texts
    <3> HIDE DEF F
    <3> QED
      BY <3>1, <3>2
  <2>4. CASE /\ e.kind = "reject" /\ files[s][Home[e.uid]] # None /\ files[s][e.uid] = None
             /\ files' = [files EXCEPT ![s][e.uid] = Values(e.uid, e.data),
                                       ![s][Home[e.uid]]["status"] = WithStatus[e.uid]]
    <3> DEFINE G   == [files[s] EXCEPT ![e.uid] = Values(e.uid, e.data)]
               new == [G[Home[e.uid]] EXCEPT !["status"] = WithStatus[e.uid]]
               F   == [G EXCEPT ![Home[e.uid]] = new]
    <3>1. G \in [Uid -> Texts] /\ G[Home[e.uid]] \in Content
      <4>1. G \in [Uid -> Texts]
        BY <1>1, <1>3, ValuesTyped DEF Texts
      <4>2. Home[e.uid] # e.uid
        BY <2>4
      <4>3. G[Home[e.uid]] = files[s][Home[e.uid]]
        BY <1>2, <1>3, <4>2
      <4> HIDE DEF G
      <4> QED
        BY <1>2, <1>3, <2>4, <4>1, <4>3 DEF Texts
    <3>2. files' = [files EXCEPT ![s] = F]
      <4>1. \A ff : [ff EXCEPT ![s][e.uid] = Values(e.uid, e.data),
                              ![s][Home[e.uid]]["status"] = WithStatus[e.uid]]
                    = [[ff EXCEPT ![s][e.uid] = Values(e.uid, e.data)]
                         EXCEPT ![s][Home[e.uid]]["status"] = WithStatus[e.uid]]
        OBVIOUS
      <4>2. [files EXCEPT ![s][e.uid] = Values(e.uid, e.data)] = [files EXCEPT ![s] = G]
        OBVIOUS
      <4> HIDE DEF G
      <4>3. files' = [[files EXCEPT ![s] = G] EXCEPT ![s][Home[e.uid]]["status"] = WithStatus[e.uid]]
        BY <2>4, <4>1, <4>2
      <4> QED
        BY <1>3, <4>3
    <3> HIDE DEF G
    <3>3. new \in Texts
      BY <1>1, <1>2, <2>4, <3>1, FieldWritten DEF Texts
    <3> HIDE DEF new
    <3>4. F \in [Uid -> Texts]
      BY <1>2, <3>1, <3>3
    <3> HIDE DEF F
    <3> QED
      BY <3>2, <3>4
  <2> QED
    BY <2>1, <2>2, <2>3, <2>4 DEF EditFiles
<1>5. used' \in Used /\ used'.ops = used.ops
  <2>1. used' = used \/ used' = [used EXCEPT !.made = @ \cup {e.uid}]
    BY DEF EditFiles
  <2> QED
    BY <1>1, <1>3, <2>1 DEF Used
<1>6. UNCHANGED <<db, known, wire, disk, outbox, marks, held, round>>
  BY DEF EditFiles
<1>7. WireFits'
  BY <1>6, Before DEF WireFits
<1> QED
  BY <1>4, <1>5, <1>6, <1>7, Before, OneStore

-----------------------------------------------------------------------------
(* Requests.                                                               *)

(* A step that leaves nothing new on the wire.                             *)
LEMMA WireShrinks ==
  ASSUME IInv, db' = db, wire' \subseteq wire
  PROVE  /\ wire' \in SUBSET Msg /\ WireFits'
         /\ \A m \in wire' : Members(m.units) \subseteq UnitsGoing
<1>1. wire \in SUBSET Msg /\ WireFits /\ \A m \in wire : Members(m.units) \subseteq UnitsGoing
  BY GoingMeans DEF IInv, Types
<1> QED
  BY <1>1 DEF WireFits

(* A store's own step: it leaves the server as it is, and what is on the   *)
(* wire was there before.                                                  *)
LEMMA OwnStep ==
  ASSUME IInv, NEW s \in Store, UNCHANGED <<db, known, held>>, wire' \subseteq wire,
         used' \in Used, used'.ops = used.ops,
         NEW F \in [Uid -> Texts], files' = [files EXCEPT ![s] = F],
         NEW D \in Snap, SnapFits(db, D), disk' = [disk EXCEPT ![s] = D],
         NEW O \in PushUnits, outbox' = [outbox EXCEPT ![s] = O],
         NEW M \in SUBSET Item, marks' = [marks EXCEPT ![s] = M],
         NEW R \in Round, RoundFits(db, R), round' = [round EXCEPT ![s] = R],
         Members(O) \subseteq UnitsGoing, Members(R.pending) \subseteq UnitsGoing,
         Members(R.sent) \subseteq UnitsGoing
  PROVE  IInv'
<1>1. /\ held[s] \in SUBSET Item /\ held' = [held EXCEPT ![s] = held[s]]
  BY Before
<1>2. /\ wire' \in SUBSET Msg /\ WireFits' /\ \A m \in wire' : Members(m.units) \subseteq UnitsGoing
  BY WireShrinks
<1> QED
  BY <1>1, <1>2, OneStore

LEMMA LoseRequestKeeps ==
  ASSUME IInv, NEW m \in wire, LoseRequest(m)
  PROVE  IInv'
<1>1. UNCHANGED <<db, known, files, disk, outbox, marks, held, round>> /\ wire' = wire \ {m}
  BY DEF LoseRequest
<1>2. used' \in Used /\ used'.ops = used.ops
  BY DEF LoseRequest, Used, IInv, Types, ServerTypes
<1>3. wire' \in SUBSET Msg /\ WireFits'
  BY <1>1, WireShrinks
<1>4. StoreTypes' /\ StoresFit'
  BY <1>1 DEF StoreTypes, StoresFit, IInv, Types
<1>5. \A s \in Store : UnitsOfStore(s)' = UnitsOfStore(s)
  BY <1>1 DEF UnitsOfStore
<1>6. UnitsGoing' \subseteq UnitsGoing
  BY <1>1, <1>5, GoingMeans, GoingNextMeans
<1> QED
  BY <1>1, <1>2, <1>3, <1>4, <1>6, Quietly

LEMMA SaveResultsKeeps ==
  ASSUME IInv, NEW s \in Store, SaveResults(s)
  PROVE  IInv'
<1> DEFINE r == round[s]
           R == [r EXCEPT !.phase = "send", !.sent = <<>>]
<1>1. /\ r \in Round /\ RoundFits(db, r) /\ Members(r.pending) \subseteq UnitsGoing
      /\ r.mem \in Snap
  BY Before, RoundHas
<1>2. <<>> \in PushUnits /\ Members(<<>>) = {}
  BY EmptyHasNone DEF PushUnits
<1>3. R \in Round
  BY <1>1, <1>2 DEF Round, Phases
<1>4. RoundFits(db, R)
  BY <1>1 DEF RoundFits, Round
<1>5. R.pending = r.pending /\ R.sent = <<>>
  BY <1>1 DEF Round
<1>6. SnapFits(db, r.mem)
  BY <1>1 DEF RoundFits
<1>7. /\ disk' = [disk EXCEPT ![s] = r.mem] /\ round' = [round EXCEPT ![s] = R]
      /\ UNCHANGED <<db, known, wire, files, outbox, marks, held, used>>
  BY DEF SaveResults, Rounds
<1> HIDE DEF R, r
<1>8. Members(R.pending) \subseteq UnitsGoing /\ Members(R.sent) \subseteq UnitsGoing
  BY <1>1, <1>2, <1>5
<1> QED
  BY <1>1, <1>3, <1>4, <1>6, <1>7, <1>8, Before, OwnStep

LEMMA RespondKeeps ==
  ASSUME IInv, NEW s \in Store, NEW m \in wire, Respond(s, m)
  PROVE  IInv'
<1> DEFINE r == round[s]
           R == [r EXCEPT !.phase = "handle", !.answers = m.answers]
<1>1. /\ r \in Round /\ RoundFits(db, r) /\ Members(r.pending) \subseteq UnitsGoing
      /\ Members(r.sent) \subseteq UnitsGoing
  BY Before
<1>2. m.answers \in Replies /\ RepliesFit(db, m.answers)
  BY DEF IInv, Types, Msg, WireFits
<1>3. R \in Round
  BY <1>1, <1>2 DEF Round, Phases
<1>4. RoundFits(db, R)
  BY <1>1, <1>2 DEF RoundFits, Round
<1>5. R.pending = r.pending /\ R.sent = r.sent
  BY <1>1 DEF Round
<1>6. /\ round' = [round EXCEPT ![s] = R] /\ wire' = wire \ {m}
      /\ UNCHANGED <<db, known, files, disk, outbox, marks, held, used>>
  BY DEF Respond, Rounds
<1> HIDE DEF R, r
<1>7. Members(R.pending) \subseteq UnitsGoing /\ Members(R.sent) \subseteq UnitsGoing
  BY <1>1, <1>5
<1>8. wire' \subseteq wire
  BY <1>6
<1> QED
  BY <1>3, <1>4, <1>6, <1>7, <1>8, Before, OwnStep

LEMMA PushedKeeps ==
  ASSUME IInv, NEW s \in Store, Pushed(s)
  PROVE  IInv'
<1> DEFINE r == round[s]
           R == IF r.replay THEN [r EXCEPT !.phase = "scan"]
                ELSE IF ~r.pushOnly THEN [r EXCEPT !.phase = "fetch", !.pushed = TRUE]
                ELSE [r EXCEPT !.phase = "retry", !.pushed = TRUE,
                               !.todo = r.mem.deferred, !.mem.deferred = {},
                               !.save = @ \/ r.mem.deferred # {}]
<1>1. /\ r \in Round /\ RoundFits(db, r) /\ Members(r.pending) \subseteq UnitsGoing
      /\ Members(r.sent) \subseteq UnitsGoing /\ r.mem \in Snap
  BY Before, RoundHas
<1>2. <<>> \in PushUnits /\ Members(<<>>) = {}
  BY EmptyHasNone DEF PushUnits
<1>3. R \in Round
  BY <1>1 DEF Round, Phases, Snap
<1>4. RoundFits(db, R)
  BY <1>1 DEF RoundFits, Round, SnapFits, Snap
<1>5. R.pending = r.pending /\ R.sent = r.sent
  BY <1>1 DEF Round
<1>6. /\ round' = [round EXCEPT ![s] = R] /\ outbox' = [outbox EXCEPT ![s] = <<>>]
      /\ UNCHANGED <<db, known, wire, files, disk, marks, held, used>>
  BY DEF Pushed, Rounds
<1> HIDE DEF R, r
<1>7. Members(R.pending) \subseteq UnitsGoing /\ Members(R.sent) \subseteq UnitsGoing
      /\ Members(<<>>) \subseteq UnitsGoing
  BY <1>1, <1>2, <1>5
<1> QED
  BY <1>2, <1>3, <1>4, <1>6, <1>7, Before, OwnStep

LEMMA SendKeeps ==
  ASSUME IInv, NEW s \in Store, Send(s)
  PROVE  IInv'
<1> DEFINE r == round[s]
<1>1. /\ r \in Round /\ RoundFits(db, r) /\ Members(r.pending) \subseteq UnitsGoing
      /\ r.pending \in PushUnits /\ wire \in SUBSET Msg /\ WireFits
      /\ \A m \in wire : Members(m.units) \subseteq UnitsGoing
  BY Before, RoundHas
<1>2. PICK k \in 1..Len(r.pending), refused \in BOOLEAN :
        /\ wire' = wire \cup {[store |-> s, units |-> SubSeq(r.pending, 1, k), answers |-> <<>>,
                               awaited |-> TRUE, refused |-> refused]}
        /\ round' = [round EXCEPT ![s] = [r EXCEPT !.phase = "wait", !.sent = SubSeq(r.pending, 1, k),
                                          !.pending = SubSeq(@, k + 1, Len(@))]]
  BY DEF Send, Rounds
<1> DEFINE batch == SubSeq(r.pending, 1, k)
           rest  == SubSeq(r.pending, k + 1, Len(r.pending))
           m     == [store |-> s, units |-> batch, answers |-> <<>>, awaited |-> TRUE, refused |-> refused]
           R     == [r EXCEPT !.phase = "wait", !.sent = batch, !.pending = rest]
<1>3. /\ batch \in PushUnits /\ batch # <<>> /\ Members(batch) \subseteq Members(r.pending)
      /\ rest \in PushUnits /\ Members(rest) \subseteq Members(r.pending)
  BY <1>1, FirstsAndRest DEF PushUnits
<1>4. <<>> \in Replies /\ DOMAIN <<>> = {}
  BY EmptyHasNone DEF Replies
<1>5. wire' = wire \cup {m} /\ round' = [round EXCEPT ![s] = R]
  BY <1>1, <1>2
<1> HIDE DEF batch, rest
<1>6. R \in Round
  BY <1>1, <1>3 DEF Round, Phases
<1>7. RoundFits(db, R)
  BY <1>1, <1>3 DEF RoundFits, Round
<1>8. R.pending = rest /\ R.sent = batch
  BY <1>1 DEF Round
<1>9. m \in Msg /\ m.units = batch /\ m.answers = <<>>
  BY <1>3, <1>4 DEF Msg
<1>10. RepliesFit(db, <<>>)
  BY <1>4 DEF RepliesFit
<1>11. /\ outbox' = [outbox EXCEPT ![s] = r.pending]
       /\ UNCHANGED <<db, known, files, disk, marks, held, used>>
  BY DEF Send
<1> HIDE DEF R, r, m
<1>12. /\ wire' \in SUBSET Msg /\ WireFits' /\ \A n \in wire' : Members(n.units) \subseteq UnitsGoing
  BY <1>1, <1>3, <1>5, <1>9, <1>10, <1>11 DEF WireFits
<1>13. Members(R.pending) \subseteq UnitsGoing /\ Members(R.sent) \subseteq UnitsGoing
  BY <1>1, <1>3, <1>8
<1> QED
  BY <1>1, <1>5, <1>6, <1>7, <1>11, <1>12, <1>13, Before, OneStore

-----------------------------------------------------------------------------
(* Rounds that begin and end.                                              *)

LEMMA SeqIsNat ==
  ASSUME IInv
  PROVE  SeqOf(db) \in Nat /\ db \in Db
  BY FeedIsSeq DEF IInv, Types, ServerTypes, Grounded, Sound, Tables, SeqOf

LEMMA NewSnapshotTyped ==
  ASSUME IInv
  PROVE  NewSnapshot \in Snap /\ SnapFits(db, NewSnapshot)
<1>1. NewSnapshot \in Snap
  BY DEF NewSnapshot, Snap, NoEnts, Prints
<1>2. /\ NewSnapshot.cursor = 0 /\ NewSnapshot.deferred = {}
      /\ \A u \in Uid : NewSnapshot.ents[u] = None
  BY DEF NewSnapshot, NoEnts
<1> QED
  BY <1>1, <1>2, SeqIsNat DEF SnapFits

LEMMA RestingTyped ==
  ASSUME IInv
  PROVE  /\ Resting \in Round /\ RoundFits(db, Resting)
         /\ Members(Resting.pending) = {} /\ Members(Resting.sent) = {}
<1>1. /\ <<>> \in PushUnits /\ Members(<<>>) = {} /\ DOMAIN <<>> = {} /\ <<>> \in Replies
  BY EmptyHasNone DEF PushUnits, Replies
<1>2. NoScan \in Scanned
  BY DEF NoScan, Scanned, NoEnts, Texts
<1>3. /\ Resting.pending = <<>> /\ Resting.sent = <<>> /\ Resting.answers = <<>>
      /\ Resting.mem = NewSnapshot /\ Resting.todo = {} /\ Resting.left = {}
      /\ Resting.next = 0 /\ Resting.phase = "idle"
  BY DEF Resting
<1>4. NewSnapshot \in Snap /\ SnapFits(db, NewSnapshot)
  BY NewSnapshotTyped
<1>5. Resting \in Round
  BY <1>1, <1>2, <1>4 DEF Resting, Round, Phases
<1>6. RepliesFit(db, <<>>)
  BY <1>1 DEF RepliesFit
<1>7. RoundFits(db, Resting)
  BY <1>3, <1>4, <1>6, SeqIsNat DEF RoundFits
<1> QED
  BY <1>1, <1>3, <1>5, <1>7

LEMMA StopKeeps ==
  ASSUME IInv, NEW s \in Store, NEW marked \in BOOLEAN, Stop(s, marked),
         used' \in Used, used'.ops = used.ops
  PROVE  IInv'
<1>1. \A m \in wire' : \E n \in wire : m = n \/ m = [n EXCEPT !.awaited = FALSE]
  BY DEF Stop
<1>2. wire \in SUBSET Msg /\ WireFits /\ \A n \in wire : Members(n.units) \subseteq UnitsGoing
  BY Before
<1>3. \A m \in wire' : m \in Msg /\ \E n \in wire : m.units = n.units /\ m.answers = n.answers
  BY <1>1, <1>2 DEF Msg
<1>4. UNCHANGED <<db, known, files, disk, outbox, held>>
  BY DEF Stop
<1>5. wire' \in SUBSET Msg /\ WireFits' /\ \A m \in wire' : Members(m.units) \subseteq UnitsGoing
  BY <1>2, <1>3, <1>4 DEF WireFits
<1>6. round' = [round EXCEPT ![s] = Resting]
  BY DEF Stop, Rounds
<1>7. \E M \in SUBSET Item : marks' = [marks EXCEPT ![s] = M]
  <2>1. round[s].taken \in SUBSET Item
    BY Before, RoundHas
  <2>2. marks[s] \in SUBSET Item /\ marks = [marks EXCEPT ![s] = marks[s]]
    BY Before
  <2>3. CASE marks' = [marks EXCEPT ![s] = @ \cup round[s].taken]
    <3>1. marks[s] \cup round[s].taken \in SUBSET Item
      BY <2>1, <2>2
    <3> QED
      BY <2>3, <3>1
  <2>4. CASE marks' = marks
    BY <2>2, <2>4
  <2> QED
    BY <2>3, <2>4 DEF Stop
<1> QED
  BY <1>4, <1>5, <1>6, <1>7, RestingTyped, Before, OneStore

LEMMA StopsKeep ==
  ASSUME IInv, NEW s \in Store, TimeOut(s) \/ NetworkError(s) \/ Crash(s)
  PROVE  IInv'
<1>1. used' \in Used /\ used'.ops = used.ops
  <2>1. used \in Used
    BY Before
  <2>2. used' = used \/ used' = [used EXCEPT !.faults = @ + 1]
    BY DEF TimeOut, NetworkError, Crash
  <2> QED
    BY <2>1, <2>2 DEF Used
<1>2. \E marked \in BOOLEAN : Stop(s, marked)
  BY Before DEF TimeOut, NetworkError, Crash, Round
<1> QED
  BY <1>1, <1>2, StopKeeps

LEMMA ScanTyped ==
  ASSUME IInv, NEW s \in Store, NEW wanted \in SUBSET Item
  PROVE  ScanOf(s, wanted) \in Scanned
<1>1. files[s] \in [Uid -> Texts] /\ None \in Texts
  BY Before DEF Texts
<1> QED
  BY <1>1 DEF ScanOf, Scanned

(* A round with what it begins with.                                       *)
LEMMA BegunTyped ==
  ASSUME IInv, NEW s \in Store, NEW r \in Round, RoundFits(db, r),
         Members(r.pending) \subseteq UnitsGoing, Members(r.sent) \subseteq UnitsGoing
  PROVE  /\ Begun(s, r) \in Round /\ RoundFits(db, Begun(s, r))
         /\ Members(Begun(s, r).pending) \subseteq UnitsGoing
         /\ Members(Begun(s, r).sent) \subseteq UnitsGoing
<1>1. CASE outbox[s] = <<>>
  <2> DEFINE R == [r EXCEPT !.phase = "scan"]
  <2>1. R \in Round
    BY DEF Round, Phases
  <2>2. RoundFits(db, R)
    BY DEF RoundFits, Round
  <2>3. R.pending = r.pending /\ R.sent = r.sent
    BY DEF Round
  <2>4. Begun(s, r) = R
    BY <1>1 DEF Begun
  <2> QED
    BY <2>1, <2>2, <2>3, <2>4
<1>2. CASE outbox[s] # <<>>
  <2> DEFINE box == outbox[s]
             scan == ScanOf(s, Item)
             R == [r EXCEPT !.phase = "send", !.replay = TRUE, !.save = TRUE,
                            !.pending = box, !.limit = Len(box), !.local = scan]
  <2>1. box \in PushUnits /\ Members(box) \subseteq UnitsGoing /\ Len(box) \in Nat
    BY Before, LenProperties DEF PushUnits
  <2>2. scan \in Scanned
    BY ScanTyped
  <2>3. Begun(s, r) = R
    BY <1>2 DEF Begun
  <2> HIDE DEF box, scan
  <2>4. R \in Round
    BY <2>1, <2>2 DEF Round, Phases
  <2>5. RoundFits(db, R)
    BY DEF RoundFits, Round
  <2>6. R.pending = box /\ R.sent = r.sent
    BY DEF Round
  <2> QED
    BY <2>1, <2>3, <2>4, <2>5, <2>6
<1> QED
  BY <1>1, <1>2

LEMMA StartRoundKeeps ==
  ASSUME IInv, NEW s \in Store, NEW pushOnly \in BOOLEAN, NEW full \in BOOLEAN,
         NEW adopt \in BOOLEAN, StartRound(s, pushOnly, full, adopt)
  PROVE  IInv'
<1> DEFINE sweep   == full \/ \A u \in Uid : disk[s].ents[u] = None
           started == [Resting EXCEPT !.pushOnly = pushOnly, !.full = sweep, !.taken = marks[s],
                                      !.mem = disk[s], !.save = sweep, !.adopt = adopt]
           fetch   == [started EXCEPT !.phase = "fetch"]
           R       == IF adopt THEN fetch ELSE Begun(s, started)
<1>1. /\ Resting \in Round /\ RoundFits(db, Resting)
      /\ Members(Resting.pending) = {} /\ Members(Resting.sent) = {} /\ Resting.phase = "idle"
  BY RestingTyped DEF Resting
<1>2. disk[s] \in Snap /\ SnapFits(db, disk[s]) /\ marks[s] \in SUBSET Item
  BY Before
<1>3. sweep \in BOOLEAN /\ {} \in SUBSET Item
  OBVIOUS
<1>4. /\ marks' = [marks EXCEPT ![s] = {}] /\ round' = [round EXCEPT ![s] = R]
      /\ UNCHANGED <<db, known, wire, files, disk, outbox, held, used>>
  BY DEF StartRound, Rounds
<1> HIDE DEF sweep
<1>5. started \in Round /\ fetch \in Round
  <2>1. started \in Round
    <3>1. Resting \in Round /\ disk[s] \in Snap /\ marks[s] \in SUBSET Item
      BY <1>1, <1>2
    <3>2. [Resting EXCEPT !.pushOnly = pushOnly, !.full = sweep] \in Round
      BY <1>3, <3>1 DEF Round
    <3>3. [[Resting EXCEPT !.pushOnly = pushOnly, !.full = sweep]
              EXCEPT !.taken = marks[s], !.mem = disk[s], !.save = sweep, !.adopt = adopt] \in Round
      BY <1>3, <3>1, <3>2 DEF Round
    <3> QED
      BY <3>3
  <2> HIDE DEF started
  <2>2. fetch \in Round
    BY <2>1 DEF Round, Phases
  <2> QED
    BY <2>1, <2>2
<1>6. RoundFits(db, started) /\ RoundFits(db, fetch)
  BY <1>1, <1>2 DEF RoundFits, Round
<1>7. /\ started.pending = Resting.pending /\ started.sent = Resting.sent
      /\ fetch.pending = Resting.pending /\ fetch.sent = Resting.sent
  BY <1>1 DEF Round
<1> HIDE DEF started, fetch
<1>8. /\ Begun(s, started) \in Round /\ RoundFits(db, Begun(s, started))
      /\ Members(Begun(s, started).pending) \subseteq UnitsGoing
      /\ Members(Begun(s, started).sent) \subseteq UnitsGoing
  BY <1>1, <1>5, <1>6, <1>7, BegunTyped
<1>9. /\ R \in Round /\ RoundFits(db, R)
      /\ Members(R.pending) \subseteq UnitsGoing /\ Members(R.sent) \subseteq UnitsGoing
  BY <1>1, <1>5, <1>6, <1>7, <1>8
<1> HIDE DEF R
<1> QED
  BY <1>3, <1>4, <1>9, Before, OwnStep

LEMMA EndRoundKeeps ==
  ASSUME IInv, NEW s \in Store, EndRound(s)
  PROVE  IInv'
<1> DEFINE r   == round[s]
           mem == [r.mem EXCEPT !.deferred = r.left]
<1>1. r \in Round /\ RoundFits(db, r) /\ r.mem \in Snap /\ r.left \in SUBSET Chg
  BY Before, RoundHas
<1>2. mem \in Snap /\ SnapFits(db, mem)
  BY <1>1 DEF Snap, SnapFits, RoundFits
<1>3. disk' = [disk EXCEPT ![s] = mem] \/ disk' = disk
  BY DEF EndRound
<1>4. \E D \in Snap : SnapFits(db, D) /\ disk' = [disk EXCEPT ![s] = D]
  BY <1>2, <1>3, Before
<1>5. /\ round' = [round EXCEPT ![s] = Resting]
      /\ UNCHANGED <<db, known, wire, files, outbox, marks, held, used>>
  BY DEF EndRound, Rounds
<1> QED
  BY <1>4, <1>5, RestingTyped, Before, OwnStep

LEMMA EndPullKeeps ==
  ASSUME IInv, NEW s \in Store, EndPull(s)
  PROVE  IInv'
<1> DEFINE r    == round[s]
           mem  == [r.mem EXCEPT !.deferred = r.left, !.cursor = r.next]
           bare == [mem EXCEPT !.deferred = {}]
           link == [r EXCEPT !.adopt = FALSE, !.inPull = FALSE, !.left = {},
                             !.now = NoScan, !.mem = mem]
           then == [r EXCEPT !.inPull = FALSE, !.left = {}, !.todo = r.left, !.mem = bare,
                             !.save = @ \/ r.left # {}]
           R    == IF r.adopt THEN Begun(s, link) ELSE then
<1>1. /\ r \in Round /\ RoundFits(db, r) /\ r.mem \in Snap /\ r.left \in SUBSET Chg
      /\ r.next \in Nat /\ Members(r.pending) \subseteq UnitsGoing /\ Members(r.sent) \subseteq UnitsGoing
  BY Before, RoundHas
<1>2. mem \in Snap /\ SnapFits(db, mem) /\ bare \in Snap /\ SnapFits(db, bare)
  BY <1>1 DEF Snap, SnapFits, RoundFits
<1>3. NoScan \in Scanned
  BY DEF NoScan, Scanned, NoEnts, Texts
<1>4. /\ disk' = [disk EXCEPT ![s] = mem] /\ round' = [round EXCEPT ![s] = R]
      /\ UNCHANGED <<db, known, wire, files, outbox, marks, held, used>>
  BY <1>1 DEF EndPull, Rounds, NextCursor, Snap
<1> HIDE DEF mem, bare
<1>5. link \in Round /\ then \in Round
  BY <1>1, <1>2, <1>3 DEF Round
<1>6. RoundFits(db, link) /\ RoundFits(db, then)
  BY <1>1, <1>2 DEF RoundFits, Round
<1>7. /\ link.pending = r.pending /\ link.sent = r.sent
      /\ then.pending = r.pending /\ then.sent = r.sent
  BY <1>1 DEF Round
<1> HIDE DEF link, then, r
<1>8. /\ Begun(s, link) \in Round /\ RoundFits(db, Begun(s, link))
      /\ Members(Begun(s, link).pending) \subseteq UnitsGoing
      /\ Members(Begun(s, link).sent) \subseteq UnitsGoing
  BY <1>1, <1>5, <1>6, <1>7, BegunTyped
<1>9. /\ R \in Round /\ RoundFits(db, R)
      /\ Members(R.pending) \subseteq UnitsGoing /\ Members(R.sent) \subseteq UnitsGoing
  BY <1>1, <1>5, <1>6, <1>7, <1>8
<1> HIDE DEF R
<1> QED
  BY <1>2, <1>4, <1>9, Before, OwnStep

LEMMA RetryPageKeeps ==
  ASSUME IInv, NEW s \in Store, RetryPage(s)
  PROVE  IInv'
<1> DEFINE r    == round[s]
           bare == [r.mem EXCEPT !.deferred = {}]
           R    == [r EXCEPT !.phase = "retry", !.inPull = TRUE, !.todo = r.mem.deferred,
                             !.mem = bare, !.left = {}]
<1>1. /\ r \in Round /\ RoundFits(db, r) /\ r.mem \in Snap /\ r.mem.deferred \in SUBSET Chg
      /\ Members(r.pending) \subseteq UnitsGoing /\ Members(r.sent) \subseteq UnitsGoing
  BY Before, RoundHas, SnapHas
<1>2. bare \in Snap /\ SnapFits(db, bare) /\ \A ch \in r.mem.deferred : ChgFits(db, ch)
  BY <1>1 DEF Snap, SnapFits, RoundFits
<1>3. /\ round' = [round EXCEPT ![s] = R]
      /\ UNCHANGED <<db, known, wire, files, disk, outbox, marks, held, used>>
  BY <1>1 DEF RetryPage, Rounds, Round
<1> HIDE DEF bare
<1>4. R \in Round
  BY <1>1, <1>2 DEF Round, Phases
<1>5. RoundFits(db, R)
  BY <1>1, <1>2 DEF RoundFits, Round
<1>6. R.pending = r.pending /\ R.sent = r.sent
  BY <1>1 DEF Round
<1> HIDE DEF R, r
<1> QED
  BY <1>1, <1>3, <1>4, <1>5, <1>6, Before, OwnStep

LEMMA RefusedKeeps ==
  ASSUME IInv, NEW s \in Store, NEW m \in wire, Refused(s, m)
  PROVE  IInv'
<1> DEFINE r       == round[s]
           unit    == r.sent[1]
           uids    == {unit[j].op.uid : j \in DOMAIN unit}
           FpOf(u) == LET j == CHOOSE k \in DOMAIN unit : unit[k].op.uid = u IN unit[j].fp
           stuck   == [u \in Uid |-> IF u \in uids THEN FpOf(u) ELSE r.mem.stuck[u]]
           mem     == [r.mem EXCEPT !.stuck = stuck]
           homes   == {Home[u] : u \in uids}
           half    == [r EXCEPT !.phase = "send", !.pending = r.sent \o r.pending,
                                !.limit = (Len(r.sent) + 1) \div 2]
           parked  == [r EXCEPT !.phase = "send", !.mem = mem]
<1>1. /\ r \in Round /\ RoundFits(db, r) /\ r.mem \in Snap /\ r.sent \in PushUnits
      /\ r.pending \in PushUnits
      /\ Members(r.pending) \subseteq UnitsGoing /\ Members(r.sent) \subseteq UnitsGoing
  BY Before, RoundHas
<1>2. /\ UNCHANGED <<db, known, files, outbox, held, used>>
      /\ wire' = wire \ {m} /\ r.phase = "wait"
  BY DEF Refused
<1>3. CASE /\ round' = [round EXCEPT ![s] = half]
           /\ UNCHANGED <<disk, marks>>
  <2> DEFINE list == r.sent \o r.pending
             lim  == (Len(r.sent) + 1) \div 2
  <2>1. list \in PushUnits /\ Members(list) \subseteq UnitsGoing
    BY <1>1, ConcatHas DEF PushUnits
  <2>2. lim \in Nat
    <3>1. Len(r.sent) \in Nat
      BY <1>1, LenProperties DEF PushUnits
    <3>2. \A n \in Nat : n \div 2 \in Nat
      BY SMT
    <3> DEFINE n == Len(r.sent) + 1
    <3>3. n \in Nat
      BY <3>1
    <3> HIDE DEF n
    <3>4. n \div 2 \in Nat
      BY <3>2, <3>3
    <3> QED
      BY <3>4 DEF n
  <2> HIDE DEF list, lim
  <2>3. half = [r EXCEPT !.phase = "send", !.pending = list, !.limit = lim]
    BY DEF list, lim
  <2> HIDE DEF half
  <2>4. half \in Round
    BY <1>1, <2>1, <2>2, <2>3 DEF Round, Phases
  <2>5. RoundFits(db, half)
    BY <1>1, <2>3 DEF RoundFits, Round
  <2>6. half.pending = list /\ half.sent = r.sent
    BY <1>1, <2>3 DEF Round
  <2>7. wire' \subseteq wire
    BY <1>2
  <2> HIDE DEF r
  <2> QED
    BY <1>1, <1>2, <1>3, <2>1, <2>4, <2>5, <2>6, <2>7, Before, OwnStep
<1>4. CASE /\ round' = [round EXCEPT ![s] = parked]
           /\ disk' = [disk EXCEPT ![s] = mem]
           /\ marks' = [marks EXCEPT ![s] = @ \cup homes]
  <2>1. unit \in PushUnit
    <3>1. r.sent # <<>>
      BY <1>1, <1>2 DEF RoundFits
    <3>2. r.sent \in Seq(PushUnit)
      BY <1>1 DEF PushUnits
    <3> QED
      BY <3>1, <3>2, HeadAndTail
  <2>2. \A j \in DOMAIN unit : unit[j].op.uid \in Uid /\ unit[j].fp \in Prints
    BY <2>1, UnitFactsHere DEF Drafted, OpSet
  <2>3. homes \in SUBSET Item
    BY <2>2, HomeAssumption
  <2>4. \A u \in uids : FpOf(u) \in Prints
    BY <2>2
  <2>5. r.mem.stuck \in [Uid -> Prints]
    BY <1>1, SnapHas
  <2> HIDE DEF uids, FpOf
  <2>6. stuck \in [Uid -> Prints]
    BY <2>4, <2>5
  <2> HIDE DEF stuck
  <2>7. mem \in Snap /\ SnapFits(db, mem)
    BY <1>1, <2>6 DEF Snap, SnapFits, RoundFits
  <2> HIDE DEF mem
  <2>8. parked \in Round
    BY <1>1, <2>7 DEF Round, Phases
  <2>9. RoundFits(db, parked)
    BY <1>1, <2>7 DEF RoundFits, Round
  <2>10. parked.pending = r.pending /\ parked.sent = r.sent
    BY <1>1 DEF Round
  <2>11. wire' \subseteq wire
    BY <1>2
  <2> DEFINE M == marks[s] \cup homes
  <2>12. M \in SUBSET Item /\ marks' = [marks EXCEPT ![s] = M]
    BY <1>4, <2>3, Before
  <2> HIDE DEF parked, r, homes, M
  <2> QED
    BY <1>1, <1>2, <1>4, <2>7, <2>8, <2>9, <2>10, <2>11, <2>12, Before, OwnStep
<1>5. \/ round' = [round EXCEPT ![s] = half] /\ UNCHANGED <<disk, marks>>
      \/ /\ round' = [round EXCEPT ![s] = parked]
         /\ disk' = [disk EXCEPT ![s] = mem]
         /\ marks' = [marks EXCEPT ![s] = @ \cup homes]
  <2>1. r.pending = round[s].pending /\ mem = [r.mem EXCEPT !.stuck = [u \in Uid |-> IF u \in uids THEN FpOf(u) ELSE @[u]]]
    OBVIOUS
  <2> QED
    BY <1>1 DEF Refused, Rounds, Round, Snap
<1> QED
  BY <1>3, <1>4, <1>5

-----------------------------------------------------------------------------
(* The pull.                                                               *)

LEMMA ChangesFit ==
  ASSUME IInv, NEW since \in Nat
  PROVE  ChangesSince(since) \in SUBSET Chg /\ \A ch \in ChangesSince(since) : ChgFits(db, ch)
<1>1. SeqOf(db) \in Nat /\ db \in Db /\ Grounded(db)
  BY SeqIsNat DEF IInv, Types, ServerTypes
<1>2. db.feed \in Seq(Change) /\ DOMAIN db.feed = 1..SeqOf(db)
  BY <1>1, LenProperties DEF Db, SeqOf
<1>3. ASSUME NEW ch \in ChangesSince(since) PROVE ch \in Chg /\ ChgFits(db, ch)
  <2>1. PICK n \in (since + 1)..SeqOf(db) :
          ch = [seq |-> n, uid |-> db.feed[n].uid, row |-> db.rows[db.feed[n].uid]]
    BY <1>3 DEF ChangesSince
  <2>2. n \in Nat /\ n \in DOMAIN db.feed
    BY <1>1, <1>2
  <2>3. db.feed[n].uid \in Uid
    <3>1. db.feed[n] \in Change
      BY <1>1, <1>2, <2>2, ElementOfSeq DEF SeqOf
    <3> QED
      BY <3>1 DEF Change
  <2>4. db.rows[db.feed[n].uid] \in Row \cup {None}
    BY <1>1, <2>3 DEF Db
  <2>5. db.rows[db.feed[n].uid] = None => db.feed[n].uid \in Child
    BY <1>1, <2>2, <2>3 DEF Grounded, ItemsNamed, Uid
  <2>6. db.rows[db.feed[n].uid] # None => RowFits(db, db.feed[n].uid, db.rows[db.feed[n].uid])
    BY <1>1, <2>3, OwnRowFits
  <2>7. ch.seq = n /\ ch.uid = db.feed[n].uid /\ ch.row = db.rows[db.feed[n].uid]
    BY <2>1
  <2>8. ch \in Chg
    BY <2>1, <2>2, <2>3, <2>4 DEF Chg
  <2> QED
    BY <2>5, <2>6, <2>7, <2>8 DEF ChgFits
<1> QED
  BY <1>3

LEMMA FetchKeeps ==
  ASSUME IInv, NEW s \in Store, Fetch(s)
  PROVE  IInv'
<1> DEFINE r == round[s]
           changes == ChangesSince(r.mem.cursor)
           R == [r EXCEPT !.phase = "apply", !.todo = changes, !.next = SeqOf(db)]
<1>1. /\ r \in Round /\ RoundFits(db, r) /\ r.mem \in Snap /\ r.mem.cursor \in Nat
      /\ Members(r.pending) \subseteq UnitsGoing /\ Members(r.sent) \subseteq UnitsGoing
  BY Before, RoundHas, SnapHas
<1>2. changes \in SUBSET Chg /\ (\A ch \in changes : ChgFits(db, ch)) /\ SeqOf(db) \in Nat
  BY <1>1, ChangesFit, SeqIsNat
<1>3. /\ round' = [round EXCEPT ![s] = R]
      /\ UNCHANGED <<db, known, wire, files, disk, outbox, marks, held, used>>
  BY DEF Fetch, Rounds
<1> HIDE DEF changes
<1>4. R \in Round
  BY <1>1, <1>2 DEF Round, Phases
<1>5. RoundFits(db, R)
  BY <1>1, <1>2 DEF RoundFits, Round
<1>6. R.pending = r.pending /\ R.sent = r.sent
  BY <1>1 DEF Round
<1> HIDE DEF R, r
<1> QED
  BY <1>1, <1>3, <1>4, <1>5, <1>6, Before, OwnStep

(* What a store works on, of a shape.                                      *)
WorkFits(w) ==
  /\ w \in [files : [Uid -> Texts], mem : Snap, refused : SUBSET Refusals, local : Scanned,
            marks : SUBSET Item, intent : {w.intent}]
  /\ SnapFits(db, w.mem)

LEMMA WorkStarts ==
  ASSUME IInv, NEW s \in Store
  PROVE  WorkFits(Work(s))
<1>1. /\ round[s].mem \in Snap /\ round[s].refused \in SUBSET Refusals
      /\ round[s].local \in Scanned /\ SnapFits(db, round[s].mem)
      /\ files[s] \in [Uid -> Texts] /\ marks[s] \in SUBSET Item
  BY Before, RoundHas DEF RoundFits
<1> QED
  BY <1>1 DEF WorkFits, Work

LEMMA WorkHas ==
  ASSUME NEW w, WorkFits(w)
  PROVE  /\ w.files \in [Uid -> Texts] /\ w.mem \in Snap /\ SnapFits(db, w.mem)
         /\ w.refused \in SUBSET Refusals /\ w.local \in Scanned /\ w.marks \in SUBSET Item
  BY DEF WorkFits

(* Parts of what is worked on may be replaced.                             *)
LEMMA WorkChanged ==
  ASSUME NEW w, WorkFits(w), NEW F \in [Uid -> Texts], NEW mem \in Snap, SnapFits(db, mem)
  PROVE  WorkFits([w EXCEPT !.files = F, !.mem = mem])
<1> DEFINE x == [w EXCEPT !.files = F, !.mem = mem]
<1>1. x.mem = mem /\ x.intent = w.intent
  BY DEF WorkFits
<1>2. x \in [files : [Uid -> Texts], mem : Snap, refused : SUBSET Refusals, local : Scanned,
             marks : SUBSET Item, intent : {w.intent}]
  BY DEF WorkFits
<1> HIDE DEF x
<1>3. WorkFits(x)
  BY <1>1, <1>2 DEF WorkFits
<1> QED
  BY <1>3 DEF x

(* A snapshot with one entry changed.                                      *)
LEMMA EntChanged ==
  ASSUME NEW snap \in Snap, SnapFits(db, snap), NEW u \in Uid, NEW ent \in Ent \cup {None},
         ent # None => RowFits(db, u, ent)
  PROVE  [snap EXCEPT !.ents[u] = ent] \in Snap /\ SnapFits(db, [snap EXCEPT !.ents[u] = ent])
<1> DEFINE new == [snap.ents EXCEPT ![u] = ent]
           x   == [snap EXCEPT !.ents[u] = ent]
<1>1. new \in [Uid -> Ent \cup {None}]
  BY DEF Snap
<1>2. \A v \in Uid : new[v] = IF v = u THEN ent ELSE snap.ents[v]
  BY DEF Snap
<1>3. x = [snap EXCEPT !.ents = new]
  BY DEF Snap
<1> HIDE DEF new, x
<1>4. x \in Snap /\ x.ents = new /\ x.cursor = snap.cursor /\ x.deferred = snap.deferred
  BY <1>1, <1>3 DEF Snap
<1>5. SnapFits(db, x)
  BY <1>2, <1>4 DEF SnapFits
<1> QED
  BY <1>4, <1>5 DEF x

(* A snapshot's deferred changes, or what it knows is removed, replaced.   *)
LEMMA DeferredChanged ==
  ASSUME NEW snap \in Snap, SnapFits(db, snap), NEW deferred \in SUBSET Chg,
         \A ch \in deferred : ChgFits(db, ch), NEW removed \in SUBSET Child
  PROVE  LET x == [snap EXCEPT !.deferred = deferred, !.removed = removed]
         IN  x \in Snap /\ SnapFits(db, x)
<1> DEFINE x == [snap EXCEPT !.deferred = deferred, !.removed = removed]
<1>1. x \in Snap /\ x.ents = snap.ents /\ x.cursor = snap.cursor /\ x.deferred = deferred
  BY DEF Snap
<1> HIDE DEF x
<1>2. SnapFits(db, x)
  BY <1>1 DEF SnapFits
<1> QED
  BY <1>1, <1>2 DEF x

LEMMA UndeferredFits ==
  ASSUME NEW snap \in Snap, SnapFits(db, snap), NEW u \in Uid
  PROVE  Undeferred(snap, u) \in Snap /\ SnapFits(db, Undeferred(snap, u))
<1> DEFINE rest == {c \in snap.deferred : c.uid # u}
           x    == [snap EXCEPT !.deferred = rest]
<1>1. rest \in SUBSET Chg /\ \A ch \in rest : ChgFits(db, ch)
  BY DEF SnapFits, Snap
<1>2. snap.removed \in SUBSET Child /\ x = [snap EXCEPT !.deferred = rest, !.removed = snap.removed]
  BY DEF Snap
<1>3. x = Undeferred(snap, u)
  BY DEF Undeferred, Snap
<1> HIDE DEF rest
<1>4. x \in Snap /\ SnapFits(db, x)
  BY <1>1, <1>2, DeferredChanged
<1> QED
  BY <1>3, <1>4

LEMMA DeferredFits ==
  ASSUME NEW snap \in Snap, SnapFits(db, snap), NEW ch \in Chg, ChgFits(db, ch)
  PROVE  Deferred(snap, ch) \in Snap /\ SnapFits(db, Deferred(snap, ch))
<1> DEFINE more == {c \in snap.deferred : c.uid # ch.uid} \cup {ch}
           x    == [snap EXCEPT !.deferred = more]
<1>1. more \in SUBSET Chg /\ \A c \in more : ChgFits(db, c)
  BY DEF SnapFits, Snap
<1>2. snap.removed \in SUBSET Child /\ x = [snap EXCEPT !.deferred = more, !.removed = snap.removed]
  BY DEF Snap
<1>3. x = Deferred(snap, ch)
  BY DEF Deferred, Snap
<1> HIDE DEF more
<1>4. x \in Snap /\ SnapFits(db, x)
  BY <1>1, <1>2, DeferredChanged
<1> QED
  BY <1>3, <1>4

(* The snapshot's entry after a pulled change: a field that was kept keeps *)
(* the value and the version it had there.                                 *)
LEMMA PulledEntry ==
  ASSUME NEW u \in Uid, NEW old \in Ent \cup {None}, NEW row \in Row, NEW kept,
         old # None => RowFits(db, u, old), RowFits(db, u, row)
  PROVE  LET ent == [val |-> [f \in Field |-> IF f \in kept /\ old # None THEN old.val[f] ELSE row.val[f]],
                     ver |-> [f \in Field |-> VersionSeen(old, row, kept, f)]]
         IN  ent \in Ent /\ RowFits(db, u, ent)
<1> DEFINE val == [f \in Field |-> IF f \in kept /\ old # None THEN old.val[f] ELSE row.val[f]]
           ver == [f \in Field |-> VersionSeen(old, row, kept, f)]
           ent == [val |-> val, ver |-> ver]
<1>2. \A f \in Field : /\ row.val[f] \in Value \cup {None} /\ row.ver[f] \in Nat
                       /\ old # None => old.val[f] \in Value \cup {None} /\ old.ver[f] \in Nat
  BY DEF Row, Ent, Content
<1>3. val \in Content
  BY <1>2 DEF Content
<1>4. ver \in [Field -> Nat]
  BY <1>2 DEF VersionSeen
<1>5. ent \in Ent
  BY <1>3, <1>4 DEF Ent
<1>6. ASSUME NEW f \in Plain(u) PROVE FitsIn(db, u, f, ver[f], val[f])
  <2>1. f \in Field
    BY PlainFields
  <2>2. /\ FitsIn(db, u, f, row.ver[f], row.val[f])
        /\ old # None => FitsIn(db, u, f, old.ver[f], old.val[f])
    BY DEF RowFits
  <2>3. old # None => old.ver[f] # 0
    BY <2>2 DEF FitsIn
  <2> QED
    BY <2>1, <2>2, <2>3 DEF VersionSeen
<1>7. ent.val = val /\ ent.ver = ver
  OBVIOUS
<1> HIDE DEF val, ver, ent
<1>8. RowFits(db, u, ent)
  BY <1>6, <1>7 DEF RowFits
<1> QED
  BY <1>5, <1>8 DEF ent, val, ver

LEMMA WriteChangeFits ==
  ASSUME NEW w, WorkFits(w), NEW ch \in Chg, ChgFits(db, ch), NEW before
  PROVE  WorkFits(WriteChange(w, ch, before))
<1> DEFINE u    == ch.uid
           cur  == w.files[u]
           old  == w.mem.ents[u]
           kept == Kept(u, before, cur, old, w.refused)
           val  == [f \in Field |-> IF f \in kept THEN cur[f] ELSE ch.row.val[f]]
           ent  == [val |-> [f \in Field |-> IF f \in kept /\ old # None THEN old.val[f] ELSE ch.row.val[f]],
                    ver |-> [f \in Field |-> VersionSeen(old, ch.row, kept, f)]]
           mem  == Undeferred(w.mem, u)
<1>1. u \in Uid /\ ch.row \in Row \cup {None}
  BY DEF Chg
<1>2. /\ w.files \in [Uid -> Texts] /\ cur \in Texts /\ w.mem \in Snap /\ SnapFits(db, w.mem)
      /\ old \in Ent \cup {None} /\ (old # None => RowFits(db, u, old))
  BY <1>1, WorkHas, SnapHas DEF SnapFits
<1>3. mem \in Snap /\ SnapFits(db, mem)
  BY <1>1, <1>2, UndeferredFits
<1>4. \A F, W : [w EXCEPT !.files[u] = F, !.mem = W] = [w EXCEPT !.files = [w.files EXCEPT ![u] = F], !.mem = W]
  BY DEF WorkFits
<1>5. CASE ch.row = None
  <2> DEFINE W == [mem EXCEPT !.ents[u] = None, !.removed = @ \cup {u}]
             M == [mem EXCEPT !.ents[u] = None]
  <2>1. M \in Snap /\ SnapFits(db, M)
    BY <1>1, <1>3, EntChanged
  <2>2. u \in Child
    BY <1>5 DEF ChgFits
  <2>3. /\ W = [M EXCEPT !.deferred = M.deferred, !.removed = M.removed \cup {u}]
        /\ M.deferred \in SUBSET Chg /\ M.removed \cup {u} \in SUBSET Child
        /\ \A c \in M.deferred : ChgFits(db, c)
    <3>1. mem \in Snap
      BY <1>3
    <3> HIDE DEF mem
    <3>2. W = [M EXCEPT !.removed = M.removed \cup {u}]
      BY <3>1 DEF Snap
    <3>3. M.deferred \in SUBSET Chg /\ M.removed \cup {u} \in SUBSET Child
      BY <2>1, <2>2, SnapHas
    <3>4. \A c \in M.deferred : ChgFits(db, c)
      BY <2>1 DEF SnapFits
    <3> HIDE DEF W, M
    <3>5. [M EXCEPT !.removed = M.removed \cup {u}] = [M EXCEPT !.deferred = M.deferred, !.removed = M.removed \cup {u}]
      BY <2>1 DEF Snap
    <3> QED
      BY <3>2, <3>3, <3>4, <3>5
  <2> DEFINE removed == M.removed \cup {u}
  <2>4. removed \in SUBSET Child /\ W = [M EXCEPT !.deferred = M.deferred, !.removed = removed]
    BY <2>3
  <2> HIDE DEF M, removed
  <2>5. W \in Snap /\ SnapFits(db, W)
    <3> DEFINE N == [M EXCEPT !.deferred = M.deferred, !.removed = removed]
    <3>1. M.deferred \in SUBSET Chg /\ \A c \in M.deferred : ChgFits(db, c)
      BY <2>3
    <3>2. N \in Snap /\ SnapFits(db, N)
      BY <2>1, <2>4, <3>1, DeferredChanged
    <3> QED
      BY <2>4, <3>2
  <2> DEFINE F == [w.files EXCEPT ![u] = None]
  <2>6. F \in [Uid -> Texts]
    BY <1>1, <1>2 DEF Texts
  <2>7. WriteChange(w, ch, before) = [w EXCEPT !.files = F, !.mem = W]
    BY <1>4, <1>5 DEF WriteChange
  <2> HIDE DEF F, W
  <2>8. WorkFits([w EXCEPT !.files = F, !.mem = W])
    BY <2>5, <2>6, WorkChanged
  <2> QED
    BY <2>7, <2>8
<1>6. CASE ch.row # None
  <2>1. ch.row \in Row /\ RowFits(db, u, ch.row)
    BY <1>1, <1>6 DEF ChgFits
  <2>2. kept \subseteq Field /\ (kept # {} => cur # None)
    BY DEF Kept
  <2>3. val \in Texts
    <3>1. \A f \in Field : ch.row.val[f] \in Value \cup {None}
                           /\ (cur # None => cur[f] \in Value \cup {None})
      BY <1>2, <2>1 DEF Row, Content, Texts
    <3> HIDE DEF kept, cur
    <3>2. val \in Content
      BY <2>2, <3>1 DEF Content
    <3> QED
      BY <3>2 DEF Texts
  <2> HIDE DEF val
  <2>4. ent \in Ent /\ RowFits(db, u, ent)
    <3> HIDE DEF kept, old, u
    <3> QED
      BY <1>1, <1>2, <2>1, PulledEntry
  <2>5. \A W : [w EXCEPT !.files[u] = val, !.mem = W] = [w EXCEPT !.files = [w.files EXCEPT ![u] = val], !.mem = W]
    BY <1>4
  <2> DEFINE F == [w.files EXCEPT ![u] = val]
             W == [mem EXCEPT !.ents[u] = ent]
  <2>6. WriteChange(w, ch, before) = [w EXCEPT !.files = F, !.mem = W]
    BY <1>6, <2>5 DEF WriteChange, val
  <2> HIDE DEF ent
  <2>7. W \in Snap /\ SnapFits(db, W)
    <3> HIDE DEF mem
    <3> QED
      BY <1>1, <1>3, <2>4, EntChanged
  <2>8. F \in [Uid -> Texts]
    BY <1>1, <1>2, <2>3
  <2> HIDE DEF F, W
  <2>9. WorkFits([w EXCEPT !.files = F, !.mem = W])
    BY <2>7, <2>8, WorkChanged
  <2> QED
    BY <2>6, <2>9
<1> QED
  BY <1>5, <1>6

LEMMA ReloadedTyped ==
  ASSUME IInv, NEW s \in Store, NEW now \in Scanned, NEW item \in Item
  PROVE  Reloaded(s, now, item) \in Scanned
<1>1. files[s] \in [Uid -> Texts]
  BY Before
<1> QED
  BY <1>1 DEF Reloaded, Scanned

(* A change of the round is taken from those to do.                        *)
LEMMA RestFits ==
  ASSUME NEW r \in Round, RoundFits(db, r), NEW ch
  PROVE  LET R == [r EXCEPT !.todo = @ \ {ch}]
         IN  /\ R \in Round /\ RoundFits(db, R) /\ R.mem = r.mem /\ R.now = r.now /\ R.left = r.left
             /\ R.pending = r.pending /\ R.sent = r.sent
<1> DEFINE R == [r EXCEPT !.todo = @ \ {ch}]
<1>1. /\ R \in Round /\ R.mem = r.mem /\ R.left = r.left /\ R.now = r.now
      /\ R.todo = r.todo \ {ch} /\ R.next = r.next /\ R.answers = r.answers
      /\ R.phase = r.phase /\ R.sent = r.sent /\ R.pending = r.pending
  BY DEF Round
<1> HIDE DEF R
<1>2. RoundFits(db, R)
  BY <1>1 DEF RoundFits
<1> QED
  BY <1>1, <1>2 DEF R

LEMMA ApplyPulledKeeps ==
  ASSUME IInv, NEW s \in Store, ApplyPulled(s)
  PROVE  IInv'
<1> DEFINE r == round[s]
<1>1. /\ r \in Round /\ RoundFits(db, r) /\ r.mem \in Snap /\ SnapFits(db, r.mem)
      /\ r.todo \in SUBSET Chg /\ (\A ch \in r.todo : ChgFits(db, ch))
      /\ r.left \in SUBSET Chg /\ (\A ch \in r.left : ChgFits(db, ch))
      /\ r.now \in Scanned
      /\ Members(r.pending) \subseteq UnitsGoing /\ Members(r.sent) \subseteq UnitsGoing
  BY Before, RoundHas DEF RoundFits
<1>2. UNCHANGED <<db, known, wire, disk, outbox, marks, held, used>>
  BY DEF ApplyPulled
<1>3. PICK ch \in r.todo :
        LET rest == [r EXCEPT !.todo = @ \ {ch}]
            now  == Reloaded(s, r.now, Home[ch.uid])
            work == WriteChange(Work(s), ch, r.local)
            seen == IF ch.uid \in Item THEN [now EXCEPT !.val[ch.uid] = work.files[ch.uid]] ELSE now
        IN  \/ Rounds(s, [rest EXCEPT !.mem = Deferred(@, ch)]) /\ files' = files
            \/ Stored(s, work, [rest EXCEPT !.now = seen])
  BY DEF ApplyPulled
<1> DEFINE rest == [r EXCEPT !.todo = @ \ {ch}]
           now  == Reloaded(s, r.now, Home[ch.uid])
           work == WriteChange(Work(s), ch, r.local)
           seen == IF ch.uid \in Item THEN [now EXCEPT !.val[ch.uid] = work.files[ch.uid]] ELSE now
           later == Deferred(r.mem, ch)
           R1   == [rest EXCEPT !.mem = later]
           R2   == [rest EXCEPT !.now = seen, !.mem = work.mem]
<1>4. ch \in Chg /\ ChgFits(db, ch) /\ ch.uid \in Uid /\ Home[ch.uid] \in Item
  BY <1>1, HomeAssumption DEF Chg
<1>5. /\ rest \in Round /\ RoundFits(db, rest) /\ rest.mem = r.mem /\ rest.now = r.now
      /\ rest.left = r.left /\ rest.pending = r.pending /\ rest.sent = r.sent
  BY <1>1, RestFits
<1>6. \/ round' = [round EXCEPT ![s] = R1] /\ files' = files
      \/ round' = [round EXCEPT ![s] = R2] /\ files' = [files EXCEPT ![s] = work.files]
  <2>1. CASE Rounds(s, [rest EXCEPT !.mem = Deferred(@, ch)]) /\ files' = files
    <3> HIDE DEF rest
    <3>1. [rest EXCEPT !.mem = Deferred(@, ch)] = [rest EXCEPT !.mem = later]
      BY <1>5
    <3> QED
      BY <2>1, <3>1 DEF Rounds
  <2>2. CASE Stored(s, work, [rest EXCEPT !.now = seen])
    <3> HIDE DEF rest, work, seen
    <3>1. [[rest EXCEPT !.now = seen] EXCEPT !.mem = work.mem] = R2
      BY <1>5
    <3> QED
      BY <2>2, <3>1 DEF Rounds, Stored
  <2> QED
    BY <1>3, <2>1, <2>2
<1>7. later \in Snap /\ SnapFits(db, later)
  BY <1>1, <1>4, DeferredFits
<1>8. WorkFits(work)
  BY <1>4, WorkStarts, WriteChangeFits
<1>9. /\ work.files \in [Uid -> Texts] /\ work.mem \in Snap /\ SnapFits(db, work.mem)
  BY <1>8, WorkHas
<1> HIDE DEF work, later
<1>10. seen \in Scanned
  <2>1. now \in Scanned
    BY <1>1, <1>4, ReloadedTyped
  <2> HIDE DEF now
  <2>2. work.files[ch.uid] \in Texts
    BY <1>4, <1>9
  <2> QED
    BY <1>4, <2>1, <2>2 DEF Scanned
<1> HIDE DEF rest, seen
<1>11. /\ R1 \in Round /\ RoundFits(db, R1) /\ R1.pending = r.pending /\ R1.sent = r.sent
  <2>1. R1 \in Round
    BY <1>1, <1>5, <1>7 DEF Round
  <2>2. R1.pending = rest.pending /\ R1.sent = rest.sent
    BY <1>5 DEF Round
  <2>3. RoundFits(db, R1)
    BY <1>1, <1>5, <1>7 DEF RoundFits, Round
  <2> QED
    BY <1>5, <2>1, <2>2, <2>3
<1>12. /\ R2 \in Round /\ RoundFits(db, R2) /\ R2.pending = r.pending /\ R2.sent = r.sent
  <2>1. R2 \in Round
    BY <1>1, <1>5, <1>9, <1>10 DEF Round
  <2>2. R2.pending = rest.pending /\ R2.sent = rest.sent
    BY <1>5 DEF Round
  <2>3. RoundFits(db, R2)
    BY <1>1, <1>5, <1>9, <1>10 DEF RoundFits, Round
  <2> QED
    BY <1>5, <2>1, <2>2, <2>3
<1> HIDE DEF R1, R2, r
<1>13. \E F \in [Uid -> Texts], R \in Round :
         /\ RoundFits(db, R) /\ R.pending = r.pending /\ R.sent = r.sent
         /\ files' = [files EXCEPT ![s] = F] /\ round' = [round EXCEPT ![s] = R]
  <2>1. files[s] \in [Uid -> Texts] /\ files = [files EXCEPT ![s] = files[s]]
    BY Before
  <2> QED
    BY <1>6, <1>9, <1>11, <1>12, <2>1
<1> QED
  BY <1>1, <1>2, <1>13, Before, OwnStep

LEMMA RetryKeeps ==
  ASSUME IInv, NEW s \in Store, Retry(s)
  PROVE  IInv'
<1> DEFINE r == round[s]
           before == IF r.inPull THEN r.now ELSE r.local
<1>1. /\ r \in Round /\ RoundFits(db, r) /\ r.mem \in Snap /\ SnapFits(db, r.mem)
      /\ r.todo \in SUBSET Chg /\ (\A ch \in r.todo : ChgFits(db, ch))
      /\ r.left \in SUBSET Chg /\ (\A ch \in r.left : ChgFits(db, ch))
      /\ r.now \in Scanned
      /\ Members(r.pending) \subseteq UnitsGoing /\ Members(r.sent) \subseteq UnitsGoing
  BY Before, RoundHas DEF RoundFits
<1>2. UNCHANGED <<db, known, wire, disk, outbox, marks, held, used>>
  BY DEF Retry
<1>3. PICK ch \in r.todo :
        LET rest == [r EXCEPT !.todo = @ \ {ch}]
        IN  \/ Rounds(s, [rest EXCEPT !.left = @ \cup {ch}]) /\ files' = files
            \/ Stored(s, WriteChange(Work(s), ch, before), rest)
  BY DEF Retry
<1> DEFINE rest == [r EXCEPT !.todo = @ \ {ch}]
           work == WriteChange(Work(s), ch, before)
           more == r.left \cup {ch}
           R1   == [rest EXCEPT !.left = more]
           R2   == [rest EXCEPT !.mem = work.mem]
<1>4. ch \in Chg /\ ChgFits(db, ch)
  BY <1>1
<1>5. /\ rest \in Round /\ RoundFits(db, rest) /\ rest.mem = r.mem /\ rest.now = r.now
      /\ rest.left = r.left /\ rest.pending = r.pending /\ rest.sent = r.sent
  BY <1>1, RestFits
<1>6. \/ round' = [round EXCEPT ![s] = R1] /\ files' = files
      \/ round' = [round EXCEPT ![s] = R2] /\ files' = [files EXCEPT ![s] = work.files]
  <2>1. CASE Rounds(s, [rest EXCEPT !.left = @ \cup {ch}]) /\ files' = files
    <3> HIDE DEF rest
    <3>1. [rest EXCEPT !.left = @ \cup {ch}] = R1
      BY <1>5
    <3> QED
      BY <2>1, <3>1 DEF Rounds
  <2>2. CASE Stored(s, work, rest)
    BY <2>2 DEF Rounds, Stored
  <2> QED
    BY <1>3, <2>1, <2>2
<1>7. more \in SUBSET Chg /\ \A c \in more : ChgFits(db, c)
  BY <1>1, <1>4
<1>8. WorkFits(work)
  BY <1>4, WorkStarts, WriteChangeFits
<1>9. /\ work.files \in [Uid -> Texts] /\ work.mem \in Snap /\ SnapFits(db, work.mem)
  BY <1>8, WorkHas
<1> HIDE DEF work, more, rest
<1>10. /\ R1 \in Round /\ RoundFits(db, R1) /\ R1.pending = r.pending /\ R1.sent = r.sent
  <2>1. R1 \in Round
    BY <1>1, <1>5, <1>7 DEF Round
  <2>2. R1.pending = rest.pending /\ R1.sent = rest.sent
    BY <1>5 DEF Round
  <2>3. RoundFits(db, R1)
    BY <1>1, <1>5, <1>7 DEF RoundFits, Round
  <2> QED
    BY <1>5, <2>1, <2>2, <2>3
<1>11. /\ R2 \in Round /\ RoundFits(db, R2) /\ R2.pending = r.pending /\ R2.sent = r.sent
  <2>1. R2 \in Round
    BY <1>1, <1>5, <1>9 DEF Round
  <2>2. R2.pending = rest.pending /\ R2.sent = rest.sent
    BY <1>5 DEF Round
  <2>3. RoundFits(db, R2)
    BY <1>1, <1>5, <1>9 DEF RoundFits, Round
  <2> QED
    BY <1>5, <2>1, <2>2, <2>3
<1> HIDE DEF R1, R2, r
<1>12. \E F \in [Uid -> Texts], R \in Round :
         /\ RoundFits(db, R) /\ R.pending = r.pending /\ R.sent = r.sent
         /\ files' = [files EXCEPT ![s] = F] /\ round' = [round EXCEPT ![s] = R]
  <2>1. files[s] \in [Uid -> Texts] /\ files = [files EXCEPT ![s] = files[s]]
    BY Before
  <2> QED
    BY <1>6, <1>9, <1>10, <1>11, <2>1
<1> QED
  BY <1>1, <1>2, <1>12, Before, OwnStep

-----------------------------------------------------------------------------
(* The results of a push.                                                  *)

LEMMA FileWritten ==
  ASSUME NEW w, WorkFits(w), NEW u \in Uid, NEW v \in Texts
  PROVE  WorkFits([w EXCEPT !.files[u] = v])
<1> DEFINE F == [w.files EXCEPT ![u] = v]
<1>1. F \in [Uid -> Texts] /\ w.mem \in Snap /\ SnapFits(db, w.mem)
  BY WorkHas
<1>2. [w EXCEPT !.files[u] = v] = [w EXCEPT !.files = F, !.mem = w.mem]
  BY DEF WorkFits
<1> HIDE DEF F
<1>3. WorkFits([w EXCEPT !.files = F, !.mem = w.mem])
  BY <1>1, WorkChanged
<1> QED
  BY <1>2, <1>3

LEMMA MemWritten ==
  ASSUME NEW w, WorkFits(w), NEW mem \in Snap, SnapFits(db, mem)
  PROVE  WorkFits([w EXCEPT !.mem = mem])
<1>1. w.files \in [Uid -> Texts]
  BY WorkHas
<1>2. [w EXCEPT !.mem = mem] = [w EXCEPT !.files = w.files, !.mem = mem]
  BY DEF WorkFits
<1>3. WorkFits([w EXCEPT !.files = w.files, !.mem = mem])
  BY <1>1, WorkChanged
<1> QED
  BY <1>2, <1>3

LEMMA EntWritten ==
  ASSUME NEW w, WorkFits(w), NEW u \in Uid, NEW ent \in Ent \cup {None},
         ent # None => RowFits(db, u, ent)
  PROVE  WorkFits([w EXCEPT !.mem.ents[u] = ent])
<1> DEFINE mem == [w.mem EXCEPT !.ents[u] = ent]
<1>1. mem \in Snap /\ SnapFits(db, mem)
  BY WorkHas, EntChanged
<1>2. [w EXCEPT !.mem.ents[u] = ent] = [w EXCEPT !.mem = mem]
  BY DEF WorkFits
<1> HIDE DEF mem
<1>3. WorkFits([w EXCEPT !.mem = mem])
  BY <1>1, MemWritten
<1> QED
  BY <1>2, <1>3

LEMMA StuckWritten ==
  ASSUME NEW w, WorkFits(w), NEW u \in Uid, NEW p \in Prints
  PROVE  WorkFits([w EXCEPT !.mem.stuck[u] = p])
<1> DEFINE stuck == [w.mem.stuck EXCEPT ![u] = p]
           mem   == [w.mem EXCEPT !.stuck = stuck]
<1>1. w.mem \in Snap /\ SnapFits(db, w.mem) /\ stuck \in [Uid -> Prints]
  BY WorkHas, SnapHas
<1>2. [w EXCEPT !.mem.stuck[u] = p] = [w EXCEPT !.mem = mem]
  BY <1>1 DEF WorkFits, Snap
<1> HIDE DEF stuck
<1>3. mem \in Snap /\ mem.cursor = w.mem.cursor /\ mem.ents = w.mem.ents
      /\ mem.deferred = w.mem.deferred
  BY <1>1 DEF Snap
<1> HIDE DEF mem
<1>4. SnapFits(db, mem)
  BY <1>1, <1>3 DEF SnapFits
<1>5. WorkFits([w EXCEPT !.mem = mem])
  BY <1>3, <1>4, MemWritten
<1> QED
  BY <1>2, <1>5

LEMMA LocalWritten ==
  ASSUME NEW w, WorkFits(w), NEW u \in Uid, NEW v \in Texts
  PROVE  WorkFits([w EXCEPT !.local.val[u] = v])
<1> DEFINE x == [w EXCEPT !.local.val[u] = v]
           L == [w.local EXCEPT !.val[u] = v]
<1>1. L \in Scanned
  BY WorkHas DEF Scanned
<1>2. x = [w EXCEPT !.local = L]
  BY DEF WorkFits
<1> HIDE DEF L, x
<1>3. x.mem = w.mem /\ x.intent = w.intent
      /\ x \in [files : [Uid -> Texts], mem : Snap, refused : SUBSET Refusals, local : Scanned,
                marks : SUBSET Item, intent : {w.intent}]
  BY <1>1, <1>2 DEF WorkFits
<1>4. WorkFits(x)
  BY <1>3 DEF WorkFits
<1> QED
  BY <1>4 DEF x

(* What was refused, marked and told.                                      *)
LEMMA NotesWritten ==
  ASSUME NEW w, WorkFits(w), NEW refused \in SUBSET Refusals, NEW K \in SUBSET Item, NEW I
  PROVE  WorkFits([w EXCEPT !.refused = refused, !.marks = K, !.intent = I])
<1> DEFINE x == [w EXCEPT !.refused = refused, !.marks = K, !.intent = I]
<1>1. x.mem = w.mem /\ x.intent = I
      /\ x \in [files : [Uid -> Texts], mem : Snap, refused : SUBSET Refusals, local : Scanned,
                marks : SUBSET Item, intent : {I}]
  BY DEF WorkFits
<1> HIDE DEF x
<1>2. WorkFits(x)
  BY <1>1 DEF WorkFits
<1> QED
  BY <1>2 DEF x

LEMMA IntentWritten ==
  ASSUME NEW w, WorkFits(w), NEW I
  PROVE  WorkFits([w EXCEPT !.intent = I])
<1>1. w.refused \in SUBSET Refusals /\ w.marks \in SUBSET Item
  BY WorkHas
<1>2. [w EXCEPT !.intent = I] = [w EXCEPT !.refused = w.refused, !.marks = w.marks, !.intent = I]
  BY DEF WorkFits
<1>3. WorkFits([w EXCEPT !.refused = w.refused, !.marks = w.marks, !.intent = I])
  BY <1>1, NotesWritten
<1> QED
  BY <1>2, <1>3

LEMMA LogFits ==
  ASSUME NEW w, WorkFits(w), NEW sent, sent.op.uid \in Uid
  PROVE  WorkFits(Log(w, sent))
<1> DEFINE K == w.marks \cup {Home[sent.op.uid]}
           I == w.intent \ Told(w.intent, sent)
<1>1. w.refused \in SUBSET Refusals /\ K \in SUBSET Item
  BY WorkHas, HomeAssumption
<1>2. Log(w, sent) = [w EXCEPT !.refused = w.refused, !.marks = K, !.intent = I]
  BY DEF Log, WorkFits
<1> HIDE DEF K, I
<1>3. WorkFits([w EXCEPT !.refused = w.refused, !.marks = K, !.intent = I])
  BY <1>1, NotesWritten
<1> QED
  BY <1>2, <1>3

LEMMA ForgetFits ==
  ASSUME NEW w, WorkFits(w), NEW u \in Uid
  PROVE  WorkFits(Forget(w, u))
  BY EntWritten DEF Forget

LEMMA DeletedLocallyFits ==
  ASSUME NEW w, WorkFits(w), NEW u \in Uid
  PROVE  WorkFits(DeletedLocally(w, u))
<1> DEFINE x == [w EXCEPT !.files[u] = None]
<1>1. None \in Texts
  BY DEF Texts
<1>2. WorkFits(x)
  BY <1>1, FileWritten
<1>3. DeletedLocally(w, u) = [x EXCEPT !.local.val[u] = None]
  BY DEF DeletedLocally
<1> HIDE DEF x
<1>4. WorkFits([x EXCEPT !.local.val[u] = None])
  BY <1>1, <1>2, LocalWritten
<1> QED
  BY <1>3, <1>4

LEMMA RowIsEnt ==
  ASSUME NEW u \in Uid, NEW row \in Row, RowFits(db, u, row)
  PROVE  Entry(row) \in Ent /\ RowFits(db, u, Entry(row)) /\ row.val \in Texts
<1>1. /\ Entry(row).val = row.val /\ Entry(row).ver = row.ver /\ Entry(row) \in Ent
      /\ row.val \in Texts
  BY DEF Entry, Row, Ent, Texts
<1> QED
  BY <1>1 DEF RowFits

LEMMA WholeOpRejectedFits ==
  ASSUME NEW w, WorkFits(w), NEW sent \in Drafted, NEW r \in Result, AnswerFits(db, sent.op, r)
  PROVE  WorkFits(WholeOpRejected(w, sent, r))
<1> DEFINE u      == sent.op.uid
           logged == Log(w, sent)
           out    == WholeOpRejected(w, sent, r)
<1>1. u \in Uid /\ sent.fp \in Prints /\ None \in Texts
  BY DEF Drafted, OpSet, Texts
<1>2. WorkFits(logged)
  BY <1>1, LogFits
<1>3. CASE out = w
  BY <1>3
<1>4. CASE /\ r.reason = "uid-exists"
           /\ out = [w EXCEPT !.mem.ents[u] = Entry(r.row), !.files[u] = r.row.val,
                              !.intent = @ \ Told(@, sent)]
  <2> DEFINE ent == Entry(r.row)
             val == r.row.val
             I   == w.intent \ Told(w.intent, sent)
             x1  == [w EXCEPT !.mem.ents[u] = ent]
             x2  == [x1 EXCEPT !.files[u] = val]
             x3  == [x2 EXCEPT !.intent = I]
  <2>1. r.row \in Row /\ RowFits(db, u, r.row)
    BY <1>4 DEF AnswerFits, Result
  <2>2. ent \in Ent /\ RowFits(db, u, ent) /\ val \in Texts
    BY <1>1, <2>1, RowIsEnt
  <2>3. out = x3
    BY <1>4
  <2> HIDE DEF ent, val, I, u, out
  <2>4. WorkFits(x1)
    BY <1>1, <2>2, EntWritten
  <2> HIDE DEF x1
  <2>5. WorkFits(x2)
    BY <1>1, <2>2, <2>4, FileWritten
  <2> HIDE DEF x2
  <2>6. WorkFits(x3)
    BY <2>5, IntentWritten
  <2> QED
    BY <2>3, <2>6 DEF out
<1>5. CASE out = [Forget(w, u) EXCEPT !.intent = @ \ Told(@, sent)]
  <2> DEFINE x == Forget(w, u)
             I == x.intent \ Told(x.intent, sent)
  <2>1. WorkFits(x)
    BY <1>1, ForgetFits
  <2>2. out = [x EXCEPT !.intent = I]
    BY <1>5
  <2> HIDE DEF x, I, out
  <2>3. WorkFits([x EXCEPT !.intent = I])
    BY <2>1, IntentWritten
  <2> QED
    BY <2>2, <2>3 DEF out
<1>6. CASE out = DeletedLocally(Forget(logged, u), u)
  <2> HIDE DEF logged
  <2>1. WorkFits(Forget(logged, u))
    BY <1>1, <1>2, ForgetFits
  <2> QED
    BY <1>1, <1>6, <2>1, DeletedLocallyFits
<1>7. CASE out = [logged EXCEPT !.mem.stuck[u] = sent.fp]
  <2> HIDE DEF logged
  <2>1. WorkFits([logged EXCEPT !.mem.stuck[u] = sent.fp])
    BY <1>1, <1>2, StuckWritten
  <2> QED
    BY <1>7, <2>1
<1>8. CASE out = [logged EXCEPT !.files[u] = None]
  <2> HIDE DEF logged
  <2>1. WorkFits([logged EXCEPT !.files[u] = None])
    BY <1>1, <1>2, FileWritten
  <2> QED
    BY <1>8, <2>1
<1>9. CASE out = logged
  BY <1>2, <1>9
<1>10. \/ out = w
       \/ /\ r.reason = "uid-exists"
          /\ out = [w EXCEPT !.mem.ents[u] = Entry(r.row), !.files[u] = r.row.val,
                             !.intent = @ \ Told(@, sent)]
       \/ out = [Forget(w, u) EXCEPT !.intent = @ \ Told(@, sent)]
       \/ out = DeletedLocally(Forget(logged, u), u)
       \/ out = [logged EXCEPT !.mem.stuck[u] = sent.fp]
       \/ out = [logged EXCEPT !.files[u] = None]
       \/ out = logged
  BY DEF WholeOpRejected
<1> QED
  BY <1>3, <1>4, <1>5, <1>6, <1>7, <1>8, <1>9, <1>10

LEMMA FreshTyped ==
  ASSUME NEW w, WorkFits(w), NEW u \in Uid
  PROVE  Fresh(w, u) \in Texts
<1>1. w.files \in [Uid -> Texts] /\ w.local.val \in [Uid -> Texts]
  BY WorkHas DEF Scanned
<1> QED
  BY <1>1 DEF Fresh

(* An entry some of whose fields take a row's values.                      *)
LEMMA SeenFits ==
  ASSUME NEW u \in Uid, NEW ent \in Ent, RowFits(db, u, ent), NEW fields \in SUBSET Field, NEW row,
         fields # {} => row \in Row /\ RowFits(db, u, row)
  PROVE  LET seen == [val |-> [f \in Field |-> IF f \in fields THEN row.val[f] ELSE ent.val[f]],
                      ver |-> [f \in Field |-> IF f \in fields /\ row.ver[f] # 0 THEN row.ver[f]
                                                                                 ELSE ent.ver[f]]]
         IN  seen \in Ent /\ RowFits(db, u, seen)
<1> DEFINE val == [f \in Field |-> IF f \in fields THEN row.val[f] ELSE ent.val[f]]
           ver == [f \in Field |-> IF f \in fields /\ row.ver[f] # 0 THEN row.ver[f] ELSE ent.ver[f]]
           seen == [val |-> val, ver |-> ver]
<1>1. \A f \in Field : /\ ent.val[f] \in Value \cup {None} /\ ent.ver[f] \in Nat
                       /\ f \in fields => row.val[f] \in Value \cup {None} /\ row.ver[f] \in Nat
  BY DEF Row, Ent, Content
<1>2. val \in Content /\ ver \in [Field -> Nat]
  BY <1>1 DEF Content
<1>3. seen \in Ent
  BY <1>2 DEF Ent
<1>4. ASSUME NEW f \in Plain(u) PROVE FitsIn(db, u, f, ver[f], val[f])
  <2>1. f \in Field
    BY PlainFields
  <2>2. /\ FitsIn(db, u, f, ent.ver[f], ent.val[f])
        /\ f \in fields => FitsIn(db, u, f, row.ver[f], row.val[f])
    BY DEF RowFits
  <2>3. f \in fields => row.ver[f] # 0
    BY <2>2 DEF FitsIn
  <2> QED
    BY <2>1, <2>2, <2>3
<1>5. seen.val = val /\ seen.ver = ver
  OBVIOUS
<1> HIDE DEF val, ver, seen
<1>6. RowFits(db, u, seen)
  BY <1>4, <1>5 DEF RowFits
<1> QED
  BY <1>3, <1>6 DEF seen, val, ver

LEMMA AdoptFits ==
  ASSUME NEW w, WorkFits(w), NEW u \in Uid, NEW fields \in SUBSET Field, NEW row,
         fields # {} => row \in Row /\ RowFits(db, u, row)
  PROVE  WorkFits(AdoptServerValues(w, u, fields, row))
<1> DEFINE cur  == Fresh(w, u)
           flat == [f \in Field |-> IF f \in fields THEN row.val[f] ELSE cur[f]]
           ent  == w.mem.ents[u]
           seen == [val |-> [f \in Field |-> IF f \in fields THEN row.val[f] ELSE ent.val[f]],
                    ver |-> [f \in Field |-> IF f \in fields /\ row.ver[f] # 0 THEN row.ver[f]
                                                                               ELSE ent.ver[f]]]
           known1 == IF ent = None THEN w ELSE [w EXCEPT !.mem.ents[u] = seen]
           filed  == [known1 EXCEPT !.files[u] = flat]
           mine   == IF u \in Item THEN known1.local.val[u] ELSE flat
           both   == [filed EXCEPT !.local.val[u] = mine]
<1>1. cur \in Texts /\ ent \in Ent \cup {None} /\ (ent # None => RowFits(db, u, ent))
  BY FreshTyped, WorkHas, SnapHas DEF SnapFits
<1>2. ent # None => seen \in Ent /\ RowFits(db, u, seen)
  <2> HIDE DEF ent, cur
  <2> SUFFICES ASSUME ent # None PROVE seen \in Ent /\ RowFits(db, u, seen)
    OBVIOUS
  <2>1. ent \in Ent /\ RowFits(db, u, ent)
    BY <1>1
  <2> QED
    BY <2>1, SeenFits
<1> HIDE DEF seen
<1>3. WorkFits(known1)
  <2>1. CASE ent = None
    BY <2>1
  <2>2. CASE ent # None
    <3>1. WorkFits([w EXCEPT !.mem.ents[u] = seen])
      BY <1>2, <2>2, EntWritten
    <3> QED
      BY <2>2, <3>1
  <2> QED
    BY <2>1, <2>2
<1>4. cur # None => flat \in Texts
  <2>1. cur # None => \A f \in Field : /\ cur[f] \in Value \cup {None}
                                       /\ f \in fields => row.val[f] \in Value \cup {None}
    BY <1>1 DEF Row, Content, Texts
  <2> HIDE DEF cur
  <2>2. cur # None => flat \in Content
    BY <2>1 DEF Content
  <2> QED
    BY <2>2 DEF Texts
<1>5. \/ AdoptServerValues(w, u, fields, row) = known1
      \/ cur # None /\ AdoptServerValues(w, u, fields, row) = both
  BY DEF AdoptServerValues, seen
<1>6. cur # None => mine \in Texts
  BY <1>3, <1>4, WorkHas DEF Scanned
<1> HIDE DEF flat, known1, cur, mine
<1>7. CASE cur # None
  <2>1. WorkFits(filed)
    BY <1>3, <1>4, <1>7, FileWritten
  <2> HIDE DEF filed
  <2>2. WorkFits(both)
    BY <1>6, <1>7, <2>1, LocalWritten
  <2> QED
    BY <1>3, <1>5, <2>2
<1>8. CASE cur = None
  BY <1>3, <1>5, <1>8
<1> QED
  BY <1>7, <1>8

LEMMA AchievedFits ==
  ASSUME NEW w, WorkFits(w), NEW sent \in Drafted, NEW r \in Result, AnswerFits(db, sent.op, r),
         NEW accepted, accepted \subseteq DOMAIN sent.op.data,
         \A f \in accepted : r.versions[f] # None /\ f \notin r.refused,
         sent.op.op = "create" => r.status = "applied"
  PROVE  WorkFits(Achieved(w, sent, r, accepted))
<1> DEFINE u    == sent.op.uid
           data == sent.op.data
           ent  == w.mem.ents[u]
           Version(f) == IF r.versions[f] = None THEN 0 ELSE r.versions[f]
           out  == Achieved(w, sent, r, accepted)
<1>1. /\ sent.op \in OpSet /\ Sensible(sent.op) /\ u \in Uid
      /\ DOMAIN data \subseteq Field /\ \A f \in DOMAIN data : data[f] \in Value \cup {None}
  BY DEF Drafted, OpSet, Partial
<1>2. w.mem \in Snap /\ ent \in Ent \cup {None} /\ (ent # None => RowFits(db, u, ent))
  BY <1>1, WorkHas, SnapHas DEF SnapFits
<1>3. \A f \in Field : Version(f) \in Nat
  BY DEF Result
<1>4. CASE sent.op.op = "create"
  <2> DEFINE val == Values(u, data)
             ver == [f \in Field |-> Version(f)]
             new == [val |-> val, ver |-> ver]
  <2>1. val \in Content
    BY <1>1 DEF Values, Content
  <2>2. ver \in [Field -> Nat]
    BY <1>3
  <2>3. \A f \in Plain(u) : FitsIn(db, u, f, ver[f], val[f])
    <3> TAKE f \in Plain(u)
    <3>1. f \in Field /\ f \in DOMAIN data
      BY <1>1, <1>4, PlainFields DEF Sensible
    <3>2. r.versions[f] # None /\ FitsIn(db, u, f, r.versions[f], data[f])
      BY <1>4, <3>1 DEF AnswerFits
    <3>3. ver[f] = r.versions[f] /\ val[f] = data[f]
      BY <3>1, <3>2 DEF Values
    <3> QED
      BY <3>2, <3>3
  <2>4. out = [w EXCEPT !.mem.ents[u] = new]
    BY <1>4 DEF Achieved
  <2> HIDE DEF val, ver, u, out
  <2>5. new \in Ent /\ RowFits(db, u, new)
    BY <2>1, <2>2, <2>3 DEF Ent, RowFits
  <2> HIDE DEF new
  <2>6. WorkFits([w EXCEPT !.mem.ents[u] = new])
    BY <1>1, <2>5, EntWritten
  <2> QED
    BY <2>4, <2>6 DEF out
<1>5. CASE sent.op.op = "set" /\ ent = None
  BY <1>5 DEF Achieved
<1>6. CASE sent.op.op = "set" /\ ent # None
  <2> DEFINE val == [f \in Field |-> IF f \in accepted THEN data[f] ELSE ent.val[f]]
             ver == [f \in Field |-> IF f \in accepted THEN Version(f) ELSE ent.ver[f]]
             new == [val |-> val, ver |-> ver]
  <2>1. \A f \in Field : ent.val[f] \in Value \cup {None} /\ ent.ver[f] \in Nat
    BY <1>2, <1>6 DEF Ent, Content
  <2>2. val \in Content
    <3> HIDE DEF data, ent
    <3> QED
      BY <1>1, <2>1 DEF Content, data
  <2>3. ver \in [Field -> Nat]
    <3> HIDE DEF ent, Version
    <3> QED
      BY <1>3, <2>1
  <2>4. \A f \in Plain(u) : FitsIn(db, u, f, ver[f], val[f])
    <3> TAKE f \in Plain(u)
    <3>1. f \in Field
      BY <1>1, PlainFields
    <3>2. CASE f \in accepted
      <4>1. r.versions[f] # None /\ FitsIn(db, u, f, r.versions[f], data[f])
        BY <1>6, <3>2 DEF AnswerFits
      <4>2. ver[f] = r.versions[f] /\ val[f] = data[f]
        BY <3>1, <3>2, <4>1
      <4> QED
        BY <4>1, <4>2
    <3>3. CASE f \notin accepted
      <4>1. ver[f] = ent.ver[f] /\ val[f] = ent.val[f]
        BY <3>1, <3>3
      <4>2. FitsIn(db, u, f, ent.ver[f], ent.val[f])
        BY <1>2, <1>6 DEF RowFits
      <4> QED
        BY <4>1, <4>2
    <3> QED
      BY <3>2, <3>3
  <2>5. out = [w EXCEPT !.mem.ents[u] = new]
    BY <1>6 DEF Achieved
  <2> HIDE DEF val, ver, u, out
  <2>6. new \in Ent /\ RowFits(db, u, new)
    BY <2>2, <2>3, <2>4 DEF Ent, RowFits
  <2> HIDE DEF new
  <2>7. WorkFits([w EXCEPT !.mem.ents[u] = new])
    BY <1>1, <2>6, EntWritten
  <2> QED
    BY <2>5, <2>7 DEF out
<1>7. CASE sent.op.op = "remove"
  <2> DEFINE x   == Forget(w, u)
             removed == x.mem.removed \cup {u}
             mem == [x.mem EXCEPT !.removed = removed]
  <2>1. u \in Child
    BY <1>1, <1>7 DEF Sensible
  <2>2. WorkFits(x)
    BY <1>1, ForgetFits
  <2>3. out = [x EXCEPT !.mem.removed = removed]
    BY <1>7 DEF Achieved
  <2> HIDE DEF x, out
  <2>4. x.mem \in Snap /\ SnapFits(db, x.mem) /\ removed \in SUBSET Child
    BY <2>1, <2>2, WorkHas, SnapHas
  <2>5. out = [x EXCEPT !.mem = mem]
    BY <2>2, <2>3 DEF WorkFits
  <2> HIDE DEF removed
  <2>6. mem \in Snap /\ mem.cursor = x.mem.cursor /\ mem.ents = x.mem.ents
        /\ mem.deferred = x.mem.deferred
    BY <2>4 DEF Snap
  <2> HIDE DEF mem
  <2>7. SnapFits(db, mem)
    BY <2>4, <2>6 DEF SnapFits
  <2>8. WorkFits([x EXCEPT !.mem = mem])
    BY <2>2, <2>6, <2>7, MemWritten
  <2> QED
    BY <2>5, <2>8 DEF out
<1> QED
  BY <1>1, <1>4, <1>5, <1>6, <1>7 DEF OpSet

LEMMA FieldwiseResultFits ==
  ASSUME NEW w, WorkFits(w), NEW sent \in Drafted, NEW r \in Result, AnswerFits(db, sent.op, r),
         NEW current \in BOOLEAN, ~(r.status = "rejected" /\ r.refused = {})
  PROVE  WorkFits(FieldwiseResult(w, sent, r, current))
<1> DEFINE u        == sent.op.uid
           op       == sent.op.op
           fields   == DOMAIN sent.op.data
           listed   == {f \in fields : r.versions[f] # None}
           accepted == listed \ r.refused
           unclear  == fields \ (listed \cup r.refused)
           bad      == IF current THEN r.refused ELSE {}
           more     == w.refused \cup (IF op = "set" THEN {<<"held", u, f>> : f \in unclear} ELSE {})
                                 \cup {<<"lost", u, f>> : f \in bad}
           K        == w.marks \cup (IF bad = {} THEN {} ELSE {Home[u]})
           I        == {v \in w.intent : ~(/\ v \in Told(w.intent, sent)
                                           /\ \/ v[2] \in accepted \cup bad
                                              \/ v[2] = "gone" /\ (r.refused = {} \/ bad # {})
                                              \/ op = "create")}
           noted    == [w EXCEPT !.refused = more, !.marks = K, !.intent = I]
           adopted  == IF op = "set" THEN AdoptServerValues(noted, u, bad, r.row) ELSE noted
<1>1. /\ u \in Uid /\ Home[u] \in Item /\ fields \subseteq Field
      /\ r.refused \subseteq Field /\ r.status \in {"applied", "rejected"}
      /\ op \in {"create", "set", "remove"}
  BY HomeAssumption DEF Drafted, OpSet, Partial, Result
<1>2. w.refused \in SUBSET Refusals /\ w.marks \in SUBSET Item
  BY WorkHas
<1>3. bad \subseteq Field /\ unclear \subseteq Field
      /\ (bad # {} => r.row \in Row /\ RowFits(db, u, r.row))
  BY <1>1 DEF AnswerFits, Result
<1>4. /\ accepted \subseteq fields
      /\ \A f \in accepted : r.versions[f] # None /\ f \notin r.refused
  OBVIOUS
<1>5. op = "create" => r.status = "applied"
  BY <1>1 DEF AnswerFits
<1>6. FieldwiseResult(w, sent, r, current) = Achieved(adopted, sent, r, accepted)
  BY DEF FieldwiseResult
<1> HIDE DEF accepted, unclear, bad
<1>7. more \in SUBSET Refusals /\ K \in SUBSET Item
  BY <1>1, <1>2, <1>3 DEF Refusals
<1> HIDE DEF more, K, I
<1>8. WorkFits(noted)
  BY <1>7, NotesWritten
<1> HIDE DEF noted
<1>9. WorkFits(adopted)
  BY <1>1, <1>3, <1>8, AdoptFits
<1> HIDE DEF adopted
<1>10. WorkFits(Achieved(adopted, sent, r, accepted))
  BY <1>4, <1>5, <1>9, AchievedFits
<1> QED
  BY <1>6, <1>10

LEMMA HandleKeeps ==
  ASSUME IInv, NEW s \in Store, Handle(s)
  PROVE  IInv'
<1> DEFINE r       == round[s]
           sent    == Head(r.answers).sent
           result  == Head(r.answers).result
           current == ~r.replay \/ StillLocal(Work(s), sent.op)
           whole   == result.status = "rejected" /\ result.refused = {}
           holds   == {<<"held", sent.op.uid, f>> : f \in DOMAIN sent.op.data}
           start   == IF whole /\ sent.op.op = "set" /\ result.reason = "group-rolled-back"
                      THEN [Work(s) EXCEPT !.refused = @ \cup holds] ELSE Work(s)
           work    == IF ~whole THEN FieldwiseResult(start, sent, result, current)
                      ELSE IF current THEN WholeOpRejected(start, sent, result) ELSE start
           R       == [r EXCEPT !.answers = Tail(@), !.mem = work.mem, !.refused = work.refused,
                                !.local = work.local]
<1>1. /\ r \in Round /\ RoundFits(db, r) /\ r.answers \in Replies
      /\ Members(r.pending) \subseteq UnitsGoing /\ Members(r.sent) \subseteq UnitsGoing
  BY Before, RoundHas
<1>2. /\ files' = [files EXCEPT ![s] = work.files]
      /\ marks' = [marks EXCEPT ![s] = work.marks]
      /\ round' = [round EXCEPT ![s] = R]
      /\ r.answers # <<>>
      /\ UNCHANGED <<db, known, wire, disk, outbox, held, used>>
  BY DEF Handle, Rounds
<1>3. /\ Head(r.answers) \in [sent : Drafted, result : Result] /\ Tail(r.answers) \in Replies
      /\ AnswerFits(db, sent.op, result) /\ RepliesFit(db, Tail(r.answers))
  <2>1. r.answers \in Seq([sent : Drafted, result : Result]) /\ RepliesFit(db, r.answers)
    BY <1>1 DEF Replies, RoundFits
  <2>2. /\ Head(r.answers) \in [sent : Drafted, result : Result]
        /\ Head(r.answers) = r.answers[1] /\ 1 \in DOMAIN r.answers
        /\ Tail(r.answers) \in Seq([sent : Drafted, result : Result])
        /\ \A i \in DOMAIN Tail(r.answers) : i + 1 \in DOMAIN r.answers
                                             /\ Tail(r.answers)[i] = r.answers[i + 1]
    BY <1>2, <2>1, HeadAndTail
  <2>3. AnswerFits(db, sent.op, result)
    BY <2>1, <2>2 DEF RepliesFit
  <2>4. RepliesFit(db, Tail(r.answers))
    BY <2>1, <2>2 DEF RepliesFit
  <2> QED
    BY <2>2, <2>3, <2>4 DEF Replies
<1>4. sent \in Drafted /\ result \in Result
  BY <1>3
<1>5. WorkFits(start)
  <2>1. WorkFits(Work(s))
    BY WorkStarts
  <2> DEFINE w == Work(s)
             more == w.refused \cup holds
  <2>2. holds \subseteq Refusals
    BY <1>4 DEF Refusals, Drafted, OpSet, Partial
  <2>3. more \in SUBSET Refusals /\ w.marks \in SUBSET Item
    BY <2>1, <2>2, WorkHas
  <2>4. [w EXCEPT !.refused = @ \cup holds] = [w EXCEPT !.refused = more, !.marks = w.marks, !.intent = w.intent]
    BY <2>1 DEF WorkFits
  <2> HIDE DEF more, w, holds
  <2>5. WorkFits([w EXCEPT !.refused = more, !.marks = w.marks, !.intent = w.intent])
    BY <2>1, <2>3, NotesWritten DEF w
  <2> QED
    BY <2>1, <2>4, <2>5 DEF w
<1>6. current \in BOOLEAN
  BY <1>1 DEF Round, StillLocal
<1> HIDE DEF start, current, sent, result
<1>7. WorkFits(work)
  <2>1. ~whole => WorkFits(FieldwiseResult(start, sent, result, current))
    BY <1>3, <1>4, <1>5, <1>6, FieldwiseResultFits
  <2>2. WorkFits(WholeOpRejected(start, sent, result))
    BY <1>3, <1>4, <1>5, WholeOpRejectedFits
  <2> QED
    BY <1>5, <2>1, <2>2
<1>8. /\ work.files \in [Uid -> Texts] /\ work.mem \in Snap /\ SnapFits(db, work.mem)
      /\ work.refused \in SUBSET Refusals /\ work.local \in Scanned /\ work.marks \in SUBSET Item
  BY <1>7, WorkHas
<1> HIDE DEF work
<1> DEFINE rest == Tail(r.answers)
<1>9. rest \in Replies /\ RepliesFit(db, rest)
      /\ R = [r EXCEPT !.answers = rest, !.mem = work.mem, !.refused = work.refused, !.local = work.local]
  BY <1>1, <1>3
<1> HIDE DEF rest, R
<1>10. R \in Round
  BY <1>1, <1>8, <1>9 DEF Round
<1>11. RoundFits(db, R)
  BY <1>1, <1>8, <1>9 DEF RoundFits, Round
<1>12. R.pending = r.pending /\ R.sent = r.sent
  BY <1>1, <1>9 DEF Round
<1> HIDE DEF r
<1> QED
  BY <1>1, <1>2, <1>8, <1>10, <1>11, <1>12, Before, OwnStep

-----------------------------------------------------------------------------
(* The server.                                                             *)

LEMMA OpSetIsOp ==
  ASSUME NEW x \in OpSet
  PROVE  IsOp(x)
<1>1. DOMAIN x = {"id", "op", "uid", "item", "data", "base",
                  "unconditional", "plugin", "agent", "force", "group"}
  BY DEF OpSet
<1>2. IsPartial(x.data, Field, Value \cup {None})
  BY DEF OpSet, Partial, IsPartial
<1> QED
  BY <1>1, <1>2 DEF OpSet, IsOp

(* A list made of another, entry by entry.                                 *)
LEMMA ListLike ==
  ASSUME NEW S, NEW T, NEW l \in Seq(S), NEW m \in [DOMAIN l -> T]
  PROVE  m \in Seq(T) /\ Len(m) = Len(l) /\ DOMAIN m = 1..Len(l)
<1>1. Len(l) \in Nat /\ DOMAIN l = 1..Len(l)
  BY LenProperties
<1>2. m \in Seq(T)
  BY <1>1, SeqDef
<1>3. Len(m) \in Nat /\ DOMAIN m = 1..Len(m)
  BY <1>2, LenProperties
<1>4. 1..Len(m) = 1..Len(l)
  BY <1>1, <1>3
<1>5. Len(m) = Len(l)
  BY <1>1, <1>3, <1>4
<1> QED
  BY <1>1, <1>2, <1>5

(* A step of the server.                                                   *)
LEMMA ServerStep ==
  ASSUME IInv, Newer(db, db'), Grounded(db)', known' \in [1..MaxOps -> Result \cup {None}],
         used' \in Used, used.ops <= used'.ops,
         UNCHANGED <<files, disk, outbox, marks, held, round>>,
         wire' \in SUBSET Msg, \A m \in wire' : RepliesFit(db', m.answers),
         \A m \in wire' : Members(m.units) \subseteq UnitsGoing,
         \A x \in Going : known'[x.op.id] # None => AnswerFits(db', x.op, known'[x.op.id]),
         KnownInv'
  PROVE  IInv'
<1>1. StoreTypes /\ Going \subseteq Drafted
  BY UnitsTyped DEF IInv, Types
<1>2. Types'
  BY <1>1 DEF Types, ServerTypes, StoreTypes
<1>3. StoresFit'
  <2> SUFFICES ASSUME NEW s \in Store PROVE SnapFits(db', disk[s]) /\ RoundFits(db', round[s])
    BY DEF StoresFit
  <2>1. /\ disk[s] \in Snap /\ SnapFits(db, disk[s])
        /\ round[s] \in Round /\ RoundFits(db, round[s])
    BY Before
  <2> QED
    BY <2>1, SnapFitsStays, RoundFitsStays
<1>4. WireFits'
  BY DEF WireFits
<1>5. \A s \in Store : UnitsOfStore(s)' = UnitsOfStore(s)
  BY DEF UnitsOfStore
<1>6. UnitsGoing' \subseteq UnitsGoing
  BY <1>5, GoingMeans, GoingNextMeans
<1>7. Going' \subseteq Going
  BY <1>6 DEF Going
<1>8. UniqueInv'
  BY <1>7 DEF IInv, UniqueInv
<1>9. GoingInv'
  <2> SUFFICES ASSUME NEW x \in Going PROVE DraftOk(x)'
    BY <1>7 DEF GoingInv
  <2>1. x \in Drafted /\ x.op.uid \in Uid /\ DraftOk(x)
    BY <1>1 DEF IInv, GoingInv, Drafted, OpSet
  <2>2. DraftFits(db', x)
    BY <2>1, DraftFitsStays DEF DraftOk
  <2>3. x.op.id \in 1..used'.ops
    BY <2>1 DEF DraftOk, Used, IInv, Types, ServerTypes
  <2> QED
    BY <2>2, <2>3 DEF DraftOk
<1> QED
  BY <1>2, <1>3, <1>4, <1>8, <1>9 DEF IInv

(* Answers added to answers.                                               *)
LEMMA RepliesAdded ==
  ASSUME NEW d, NEW a \in Replies, RepliesFit(d, a), NEW b \in Replies, RepliesFit(d, b)
  PROVE  a \o b \in Replies /\ RepliesFit(d, a \o b)
<1> DEFINE S == [sent : Drafted, result : Result]
<1>1. /\ a \o b \in Seq(S) /\ Members(a \o b) \subseteq Members(a) \cup Members(b)
  BY ConcatHas DEF Replies
<1>2. \A x \in Members(a) \cup Members(b) : AnswerFits(d, x.sent.op, x.result)
  BY DEF RepliesFit, Members
<1>3. \A i \in DOMAIN (a \o b) : (a \o b)[i] \in Members(a) \cup Members(b)
  BY <1>1 DEF Members
<1> QED
  BY <1>1, <1>2, <1>3 DEF RepliesFit, Replies

LEMMA ServeKeeps ==
  ASSUME IInv, NEW m \in wire, Serve(m)
  PROVE  IInv'
<1> DEFINE unit    == Head(m.units)
           ops     == OpsOf(unit)
           done    == RunUnit(db, known, ops, NeverWaits(ops))
           undone  == RollsBack(ops, done.answers)
           Given2(r) == IF undone THEN GroupResult(r) ELSE r
           answers == [i \in DOMAIN ops |-> [sent |-> unit[i], result |-> Given2(done.answers[i].result)]]
           served  == [m EXCEPT !.units = Tail(@), !.answers = @ \o answers]
           n       == Len(unit)
<1>1. m \in Msg /\ m.units \in PushUnits /\ m.answers \in Replies /\ RepliesFit(db, m.answers)
      /\ m.units # <<>> /\ Members(m.units) \subseteq UnitsGoing
  BY GoingMeans DEF IInv, Types, WireFits, Msg, Serve
<1>2. /\ unit \in PushUnit /\ unit \in UnitsGoing
      /\ Tail(m.units) \in PushUnits /\ Members(Tail(m.units)) \subseteq UnitsGoing
  BY <1>1, HeadAndTail DEF PushUnits
<1>3. /\ db' = IF undone THEN db ELSE done.db
      /\ known' = IF undone THEN known ELSE Recorded(known, ops, done.answers)
      /\ wire' = (wire \ {m}) \cup (IF Tail(m.units) = <<>> /\ ~m.awaited THEN {} ELSE {served})
      /\ UNCHANGED <<files, disk, outbox, marks, held, round, used>>
  BY DEF Serve, Finish
<1> HIDE DEF unit
<1>4. /\ unit \in Seq(Drafted) /\ n \in Nat /\ DOMAIN unit = 1..n /\ Apart(unit)
      /\ \A i \in 1..n : unit[i] \in Drafted /\ unit[i] \in Going
  <2>1. /\ n \in Nat /\ DOMAIN unit = 1..n /\ Apart(unit)
        /\ \A i \in DOMAIN unit : unit[i] \in Drafted /\ unit[i] \in Members(unit)
    BY <1>2, UnitFactsHere
  <2>2. unit \in Seq(Drafted)
    BY <1>2 DEF PushUnit
  <2> QED
    BY <1>2, <2>1, <2>2 DEF Going
<1>5. /\ Len(ops) = n /\ DOMAIN ops = 1..n
      /\ \A i \in 1..n : ops[i] = unit[i].op
  <2>1. ops \in [DOMAIN unit -> OpSet]
    BY <1>4 DEF OpsOf, Drafted
  <2>2. Len(ops) = n /\ DOMAIN ops = 1..n
    BY <1>4, <2>1, ListLike
  <2> QED
    BY <1>4, <2>2 DEF OpsOf
<1> HIDE DEF ops, n
<1>6. \A i \in 1..n : IsOp(ops[i]) /\ DraftOk(unit[i]) /\ ops[i].uid \in Uid
  BY <1>4, <1>5, OpSetIsOp DEF Drafted, IInv, GoingInv, IsOp
<1>7. RunFits(db, ops, done, n)
  <2>1. \A i, j \in 1..n : i # j => ops[i].uid # ops[j].uid
    BY <1>4, <1>5 DEF Apart
  <2>2. Recalled(db, known, ops)
    BY <1>5, <1>6 DEF Recalled, DraftOk
  <2>3. Grounded(db)
    BY DEF IInv, Types, ServerTypes
  <2> QED
    BY <1>4, <1>5, <1>6, <2>1, <2>2, <2>3, UnitAnswers
<1> HIDE DEF done
<1>8. /\ done.answers \in Givens /\ Len(done.answers) = n
      /\ Grounded(done.db) /\ Newer(db, done.db)
      /\ \A i \in 1..n : /\ AnswerFits(done.db, ops[i], done.answers[i].result)
                         /\ AnswerFits(db, ops[i], GroupResult(done.answers[i].result))
                         /\ done.answers[i].result \in Result
  <2>1. \A i \in 1..n : AnswerFits(done.db, ops[i], done.answers[i].result)
    BY <1>7 DEF RunFits
  <2> QED
    BY <1>7, <2>1 DEF RunFits, AnswerFits
<1>9. Grounded(db) /\ Newer(db, db) /\ db \in Db
  BY SeqIsNat, NewerSelf DEF IInv, Types, ServerTypes
<1>10. Newer(db, db') /\ Grounded(db)'
  BY <1>3, <1>8, <1>9
<1>11. \A i \in 1..n : Given2(done.answers[i].result) \in Result
                       /\ AnswerFits(db', ops[i], Given2(done.answers[i].result))
  BY <1>3, <1>8, GroupResultIsResult
<1> HIDE DEF Given2
<1>12. answers \in Replies /\ RepliesFit(db', answers)
  <2>1. answers \in [DOMAIN unit -> [sent : Drafted, result : Result]]
    BY <1>4, <1>5, <1>11
  <2>2. answers \in Replies /\ DOMAIN answers = 1..n
    BY <1>4, <2>1, ListLike DEF Replies
  <2>3. \A i \in 1..n : answers[i].sent.op = ops[i]
                        /\ answers[i].result = Given2(done.answers[i].result)
    BY <1>5
  <2> QED
    BY <1>11, <2>2, <2>3 DEF RepliesFit
<1> HIDE DEF answers
<1>13. \A k \in wire : RepliesFit(db', k.answers)
  <2>1. \A k \in wire : k.answers \in Replies /\ RepliesFit(db, k.answers)
    BY DEF IInv, Types, WireFits, Msg
  <2> QED
    BY <1>10, <2>1, RepliesFitStays
<1>14. served \in Msg /\ RepliesFit(db', served.answers) /\ Members(served.units) \subseteq UnitsGoing
  <2>1. m.answers \o answers \in Replies /\ RepliesFit(db', m.answers \o answers)
    BY <1>1, <1>12, <1>13, RepliesAdded
  <2> DEFINE both == m.answers \o answers
             rest == Tail(m.units)
  <2>2. served = [m EXCEPT !.units = rest, !.answers = both]
    OBVIOUS
  <2> HIDE DEF both, rest, served
  <2>3. served \in Msg /\ served.answers = both /\ served.units = rest
    BY <1>1, <1>2, <2>1, <2>2 DEF Msg, both, rest
  <2> QED
    BY <1>2, <2>1, <2>3 DEF both, rest
<1> HIDE DEF served
<1>15. /\ wire' \in SUBSET Msg /\ \A k \in wire' : RepliesFit(db', k.answers)
       /\ \A k \in wire' : Members(k.units) \subseteq UnitsGoing
  <2>1. \A k \in wire : k \in Msg /\ Members(k.units) \subseteq UnitsGoing
    BY GoingMeans DEF IInv, Types
  <2>2. \A k \in wire' : k \in wire \/ k = served
    BY <1>3
  <2> QED
    BY <1>13, <1>14, <2>1, <2>2
<1>16. known \in [1..MaxOps -> Result \cup {None}] /\ used \in Used /\ MaxOps \in Nat
  BY SyncAssumption DEF IInv, Types, ServerTypes
<1> DEFINE fresh(id) == \E i \in DOMAIN ops : ops[i].id = id /\ ~done.answers[i].duplicate
           at(id)    == CHOOSE i \in DOMAIN ops : ops[i].id = id
<1>17. /\ \A id \in 1..MaxOps :
             known'[id] = IF ~undone /\ fresh(id) THEN done.answers[at(id)].result ELSE known[id]
       /\ DOMAIN known' = 1..MaxOps
       /\ known' = [id \in 1..MaxOps |-> known'[id]]
  <2>1. DOMAIN known = 1..MaxOps /\ known = [id \in 1..MaxOps |-> known[id]]
    BY <1>16
  <2>2. CASE undone
    <3> HIDE DEF undone, fresh, at
    <3> QED
      BY <1>3, <2>1, <2>2
  <2>3. CASE ~undone
    <3>1. known' = Recorded(known, ops, done.answers)
      BY <1>3, <2>3
    <3>2. Recorded(known, ops, done.answers)
             = [id \in DOMAIN known |-> IF fresh(id) THEN done.answers[at(id)].result ELSE known[id]]
      BY DEF Recorded
    <3> HIDE DEF undone, fresh, at
    <3> QED
      BY <2>1, <2>3, <3>1, <3>2
  <2> QED
    BY <2>2, <2>3
<1>18. \A id : fresh(id) => at(id) \in 1..n /\ ops[at(id)].id = id
  BY <1>5
<1> HIDE DEF fresh, at, undone
<1>19. known' \in [1..MaxOps -> Result \cup {None}]
  <2>1. \A id \in 1..MaxOps : known'[id] \in Result \cup {None}
    BY <1>8, <1>16, <1>17, <1>18
  <2> QED
    BY <1>17, <2>1
<1>20. KnownInv'
  <2>1. \A id \in 1..MaxOps : known'[id] # None => id <= used.ops
    <3> SUFFICES ASSUME NEW id \in 1..MaxOps, known'[id] # None PROVE id <= used.ops
      OBVIOUS
    <3>1. CASE fresh(id)
      <4>1. at(id) \in 1..n /\ unit[at(id)].op.id = id /\ DraftOk(unit[at(id)])
        BY <1>5, <1>6, <1>18, <3>1
      <4> QED
        BY <1>16, <4>1 DEF DraftOk, Used
    <3>2. CASE ~fresh(id)
      BY <1>17, <3>2 DEF IInv, KnownInv
    <3> QED
      BY <3>1, <3>2
  <2> QED
    BY <1>3, <2>1 DEF KnownInv
<1>21. \A x \in Going : known'[x.op.id] # None => AnswerFits(db', x.op, known'[x.op.id])
  <2> SUFFICES ASSUME NEW x \in Going, known'[x.op.id] # None
               PROVE  AnswerFits(db', x.op, known'[x.op.id])
    OBVIOUS
  <2> DEFINE id == x.op.id
  <2>1. x \in Drafted /\ x.op.uid \in Uid /\ DraftOk(x) /\ id \in 1..MaxOps
    <3>1. x \in Drafted /\ DraftOk(x)
      BY UnitsTyped DEF IInv, GoingInv
    <3> QED
      BY <1>16, <3>1 DEF DraftOk, Used, Drafted, OpSet
  <2>2. CASE ~undone /\ fresh(id)
    <3>1. at(id) \in 1..n /\ ops[at(id)].id = id /\ unit[at(id)].op = ops[at(id)]
      BY <1>5, <1>18, <2>2
    <3>2. unit[at(id)] = x
      BY <1>4, <3>1 DEF IInv, UniqueInv
    <3>3. known'[id] = done.answers[at(id)].result /\ db' = done.db
      BY <1>3, <1>17, <2>1, <2>2
    <3> QED
      BY <1>8, <3>1, <3>2, <3>3
  <2>3. CASE ~(~undone /\ fresh(id))
    <3>1. known'[id] = known[id]
      BY <1>17, <2>1, <2>3
    <3>2. AnswerFits(db, x.op, known[id])
      BY <2>1, <3>1 DEF DraftOk
    <3> QED
      BY <1>10, <2>1, <3>1, <3>2, AnswerFitsStays
  <2> QED
    BY <2>2, <2>3
<1>22. used' \in Used /\ used.ops <= used'.ops
  BY <1>3, <1>16 DEF Used
<1> QED
  BY <1>3, <1>10, <1>15, <1>19, <1>20, <1>21, <1>22, ServerStep

(* A dashboard write is an op.                                             *)
LEMMA DashboardOp ==
  ASSUME IInv, NEW e \in WebEdit, used.ops < MaxOps
  PROVE  LET row == db.rows[e.uid]
             op  == NewOp(used.ops + 1, IF e.kind = "add" THEN "create" ELSE e.kind, e.uid,
                          IF e.kind = "set" THEN [f \in {e.field} |-> e.value]
                          ELSE IF e.kind = "add" THEN e.data ELSE [f \in {} |-> None],
                          IF row = None THEN [f \in Field |-> 0] ELSE row.ver)
         IN  IsOp(op) /\ op.id = used.ops + 1
<1> DEFINE row  == db.rows[e.uid]
           data == IF e.kind = "set" THEN [f \in {e.field} |-> e.value]
                   ELSE IF e.kind = "add" THEN e.data ELSE [f \in {} |-> None]
           base == IF row = None THEN [f \in Field |-> 0] ELSE row.ver
           kind == IF e.kind = "add" THEN "create" ELSE e.kind
           op   == NewOp(used.ops + 1, kind, e.uid, data, base)
<1>1. /\ e.uid \in Uid /\ e.field \in Field /\ e.value \in Value \cup {None}
      /\ IsPartial(e.data, Field, Value \cup {None}) /\ e.kind \in {"set", "add", "remove"}
  BY SyncAssumption DEF IsEdit
<1>2. row \in Row \cup {None}
  BY <1>1, SeqIsNat DEF Db
<1>3. used.ops + 1 \in Nat
  BY DEF IInv, Types, ServerTypes, Used
<1>4. IsPartial(data, Field, Value \cup {None})
  <2>1. IsPartial([f \in {e.field} |-> e.value], Field, Value \cup {None})
    BY <1>1 DEF IsPartial
  <2>2. IsPartial([f \in {} |-> None], Field, Value \cup {None})
    BY DEF IsPartial
  <2> QED
    BY <1>1, <2>1, <2>2
<1>5. base \in [Field -> Nat]
  BY <1>2 DEF Row
<1>6. kind \in {"create", "set", "remove"} /\ Home[e.uid] \in Item
  BY <1>1, HomeAssumption
<1> HIDE DEF data, base, kind
<1>7. IsOp(op)
  BY <1>1, <1>3, <1>4, <1>5, <1>6 DEF NewOp, IsOp
<1>8. op.id = used.ops + 1
  BY DEF NewOp
<1> QED
  BY <1>7, <1>8 DEF op, data, base, kind

LEMMA WriteOnDashboardKeeps ==
  ASSUME IInv, NEW e \in WebEdit, WriteOnDashboard(e)
  PROVE  IInv'
<1> DEFINE row  == db.rows[e.uid]
           op   == NewOp(used.ops + 1, IF e.kind = "add" THEN "create" ELSE e.kind, e.uid,
                         IF e.kind = "set" THEN [f \in {e.field} |-> e.value]
                         ELSE IF e.kind = "add" THEN e.data ELSE [f \in {} |-> None],
                         IF row = None THEN [f \in Field |-> 0] ELSE row.ver)
           done == ApplyOne(db, op, FALSE)
<1>1. /\ used.ops < MaxOps /\ Applied(op, done)
      /\ used' = [used EXCEPT !.edits = @ + 1, !.ops = @ + 1, !.made = @ \cup {e.uid}]
      /\ UNCHANGED <<wire, files, disk, outbox, marks, held, round>>
  BY DEF WriteOnDashboard
<1>2. IsOp(op) /\ op.id = used.ops + 1
  BY <1>1, DashboardOp
<1> HIDE DEF op
<1>3. Grounded(done.db) /\ OpAnswers(db, done.db, op, done.result)
  BY <1>2, ApplyOneAnswers DEF IInv, Types, ServerTypes
<1> HIDE DEF done
<1>4. /\ db' = done.db /\ known' = [known EXCEPT ![op.id] = done.result]
  BY <1>1 DEF Applied
<1>5. Newer(db, db') /\ Grounded(db)' /\ done.result \in Result
  BY <1>3, <1>4 DEF OpAnswers, Wrote, AnswerFits
<1>6. /\ known \in [1..MaxOps -> Result \cup {None}] /\ used \in Used /\ MaxOps \in Nat
      /\ KnownInv /\ e.uid \in Uid
  BY SyncAssumption DEF IInv, Types, ServerTypes, IsEdit
<1>7. used.ops \in Nat /\ op.id \in 1..MaxOps
  BY <1>1, <1>2, <1>6 DEF Used
<1>8. used' \in Used /\ used'.ops = used.ops + 1
  <2>1. used.edits + 1 \in Nat /\ used.made \cup {e.uid} \in SUBSET Uid
        /\ used.ops + 1 \in 0..MaxOps
    BY <1>1, <1>6, <1>7 DEF Used
  <2> QED
    BY <1>1, <1>6, <2>1 DEF Used
<1>9. known' \in [1..MaxOps -> Result \cup {None}]
  BY <1>4, <1>5, <1>6, <1>7
<1>10. KnownInv'
  BY <1>2, <1>4, <1>6, <1>7, <1>8 DEF KnownInv
<1>11. \A x \in Going : known'[x.op.id] # None => AnswerFits(db', x.op, known'[x.op.id])
  <2> SUFFICES ASSUME NEW x \in Going, known'[x.op.id] # None
               PROVE  AnswerFits(db', x.op, known'[x.op.id])
    OBVIOUS
  <2>1. x \in Drafted /\ DraftOk(x)
    BY UnitsTyped DEF IInv, GoingInv
  <2>2. x.op.uid \in Uid /\ x.op.id \in 1..used.ops
    BY <2>1 DEF Drafted, OpSet, DraftOk
  <2>3. known'[x.op.id] = known[x.op.id]
    BY <1>2, <1>4, <1>6, <1>7, <2>2
  <2>4. AnswerFits(db, x.op, known[x.op.id])
    BY <2>1, <2>3 DEF DraftOk
  <2> QED
    BY <1>5, <2>2, <2>3, <2>4, AnswerFitsStays
<1>12. \A k \in wire' : RepliesFit(db', k.answers)
  <2>1. \A k \in wire : k.answers \in Replies /\ RepliesFit(db, k.answers)
    BY DEF IInv, Types, WireFits, Msg
  <2> QED
    BY <1>1, <1>5, <2>1, RepliesFitStays
<1>13. wire' \in SUBSET Msg /\ \A k \in wire' : Members(k.units) \subseteq UnitsGoing
  BY <1>1, GoingMeans DEF IInv, Types
<1> QED
  BY <1>1, <1>5, <1>7, <1>8, <1>9, <1>10, <1>11, <1>12, <1>13, ServerStep

-----------------------------------------------------------------------------
(* The start.                                                              *)

(* Ops nobody has answered before leave tables from which ops can be       *)
(* answered, whatever they are.                                            *)
LEMMA RunGrounded ==
  ASSUME NEW d, Grounded(d), NEW known2, NEW unit, NEW waits, Len(unit) \in Nat,
         \A i \in 1..Len(unit) : IsOp(unit[i])
  PROVE  Grounded(RunUnit(d, known2, unit, waits).db)
<1> DEFINE m == Len(unit)
           g == CHOOSE h : IsRun(h, d, known2, unit, waits, m)
           Good(n) == DOMAIN g[n] = {"db", "answers"} /\ Grounded(g[n].db)
           Bad == {n \in 0..m : ~Good(n)}
<1>1. IsRun(g, d, known2, unit, waits, m)
  BY RunExists
<1> HIDE DEF g
<1>2. /\ g[0] = RunStart(d)
      /\ \A n \in 1..m : g[n] = RunStep(known2, unit, waits, g[n - 1], n)
  BY <1>1, RunSteps
<1>3. Bad = {}
  <2> SUFFICES ASSUME Bad # {} PROVE FALSE
    OBVIOUS
  <2>1. Bad \subseteq Nat
    OBVIOUS
  <2>2. PICK n \in Bad : \A k \in Bad : n <= k
    BY <2>1, LeastNatural
  <2>3. n \in 0..m /\ ~Good(n)
    BY <2>2
  <2>4. n # 0
    BY <1>2, <2>3 DEF RunStart
  <2>5. n \in 1..m /\ n - 1 \in 0..m
    BY <2>3, <2>4
  <2>6. n - 1 \notin Bad
    BY <2>2, <2>5
  <2>7. DOMAIN g[n - 1] = {"db", "answers"} /\ Grounded(g[n - 1].db)
    BY <2>5, <2>6
  <2> HIDE DEF Bad
  <2>8. g[n] = RunStep(known2, unit, waits, g[n - 1], n)
    BY <1>2, <2>5
  <2>9. /\ DOMAIN g[n] = {"db", "answers"}
        /\ g[n].db = g[n - 1].db \/ g[n].db = ApplyOne(g[n - 1].db, unit[n], waits[n]).db
    BY <2>7, <2>8 DEF RunStep
  <2>10. Grounded(ApplyOne(g[n - 1].db, unit[n], waits[n]).db)
    BY <2>5, <2>7, ApplyOneAnswers
  <2> QED
    BY <2>3, <2>7, <2>9, <2>10
<1>4. Grounded(g[m].db)
  BY <1>3
<1>5. RunUnit(d, known2, unit, waits) = g[m]
  BY RunUnitChooses DEF g
<1> QED
  BY <1>4, <1>5

LEMMA SeededGrounded == Grounded(Seeded)
<1>1. Grounded(RunUnit(EmptyDb, [id \in Nat |-> None], Seed, NeverWaits(Seed)).db)
  BY EmptyGrounded, RunGrounded, SyncAssumption
<1> QED
  BY <1>1 DEF Seeded

LEMMA InitHolds == Init => IInv
<1> SUFFICES ASSUME Init PROVE IInv
  OBVIOUS
<1>1. Grounded(db)
  BY SeededGrounded DEF Init
<1>2. db \in Db /\ SeqOf(db) \in Nat
  BY <1>1, FeedIsSeq DEF Grounded, Sound, Tables, SeqOf
<1>3. MaxOps \in Nat /\ Clone \in [Uid -> Texts]
  BY SyncAssumption DEF Texts
<1>4. known \in [1..MaxOps -> Result \cup {None}] /\ used \in Used /\ used.ops = 0
  <2>1. /\ known = [id \in 1..MaxOps |-> None]
        /\ used = [ops |-> 0, edits |-> 0, faults |-> 0, made |-> {}]
    BY DEF Init
  <2> QED
    BY <1>3, <2>1 DEF Used
<1>5. \A u \in Uid : db.rows[u] # None => /\ Entry(db.rows[u]) \in Ent
                                          /\ db.rows[u].val \in Content
                                          /\ RowFits(db, u, Entry(db.rows[u]))
  <2> SUFFICES ASSUME NEW u \in Uid, db.rows[u] # None
               PROVE  /\ Entry(db.rows[u]) \in Ent
                      /\ db.rows[u].val \in Content
                      /\ RowFits(db, u, Entry(db.rows[u]))
    OBVIOUS
  <2>1. db.rows[u] \in Row
    BY <1>2 DEF Db
  <2>2. RowFits(db, u, db.rows[u])
    BY <1>1, OwnRowFits
  <2>3. db.rows[u].val \in Content
    BY <2>1 DEF Row
  <2> QED
    BY <2>1, <2>2, <2>3 DEF Entry, Ent, Row, RowFits
<1>6. NewSnapshot \in Snap /\ SnapFits(db, NewSnapshot)
  <2>1. NewSnapshot \in Snap
    BY DEF NewSnapshot, Snap, NoEnts, Prints
  <2>2. /\ NewSnapshot.cursor = 0 /\ NewSnapshot.deferred = {}
        /\ \A u \in Uid : NewSnapshot.ents[u] = None
    BY DEF NewSnapshot, NoEnts
  <2> QED
    BY <1>2, <2>1, <2>2 DEF SnapFits
<1> DEFINE ents == [u \in Uid |-> IF db.rows[u] = None THEN None ELSE Entry(db.rows[u])]
           pulled == [NewSnapshot EXCEPT !.cursor = SeqOf(db), !.ents = ents]
           there == [u \in Uid |-> IF db.rows[u] = None THEN None ELSE db.rows[u].val]
<1>7. ents \in [Uid -> Ent \cup {None}] /\ \A u \in Uid : ents[u] # None => RowFits(db, u, ents[u])
  BY <1>5
<1>8. there \in [Uid -> Texts]
  BY <1>5 DEF Texts
<1>9. /\ files = [s \in Store |-> IF s \in Unlinked THEN Clone ELSE there]
      /\ disk = [s \in Store |-> IF s \in Unlinked THEN NewSnapshot ELSE pulled]
      /\ outbox = [s \in Store |-> <<>>]
      /\ marks = [s \in Store |-> {}] /\ held = [s \in Store |-> {}]
      /\ round = [s \in Store |-> Resting]
      /\ wire = {} /\ known = [id \in 1..MaxOps |-> None]
  BY DEF Init
<1> HIDE DEF ents, there
<1>10. pulled \in Snap /\ SnapFits(db, pulled)
  <2>1. /\ pulled \in Snap /\ pulled.ents = ents /\ pulled.cursor = SeqOf(db)
        /\ pulled.deferred = NewSnapshot.deferred
    BY <1>2, <1>6, <1>7 DEF Snap
  <2> HIDE DEF pulled
  <2> QED
    BY <1>2, <1>6, <1>7, <2>1 DEF SnapFits
<1> HIDE DEF pulled
<1>11. /\ <<>> \in PushUnits /\ Members(<<>>) = {} /\ DOMAIN <<>> = {} /\ <<>> \in Replies
  BY EmptyHasNone DEF PushUnits, Replies
<1>12. /\ Resting.pending = <<>> /\ Resting.sent = <<>> /\ Resting.answers = <<>>
       /\ Resting.mem = NewSnapshot /\ Resting.todo = {} /\ Resting.left = {}
       /\ Resting.next = 0 /\ Resting.phase = "idle"
  BY DEF Resting
<1>13. NoScan \in Scanned
  BY DEF NoScan, Scanned, NoEnts, Texts
<1>14. Resting \in Round
  BY <1>6, <1>11, <1>13 DEF Resting, Round, Phases
<1>15. RoundFits(db, Resting)
  <2>1. RepliesFit(db, <<>>)
    BY <1>11 DEF RepliesFit
  <2> QED
    BY <1>2, <1>6, <1>12, <2>1 DEF RoundFits
<1>16. StoreTypes /\ wire \in SUBSET Msg
  BY <1>3, <1>6, <1>8, <1>9, <1>10, <1>11, <1>14 DEF StoreTypes
<1>17. StoresFit /\ WireFits
  BY <1>6, <1>9, <1>10, <1>15 DEF StoresFit, WireFits
<1>18. Going = {}
  <2>1. \A s \in Store : outbox[s] = <<>> /\ round[s] = Resting
    BY <1>9
  <2>2. \A s \in Store : UnitsOfStore(s) = {}
    BY <1>11, <1>12, <2>1 DEF UnitsOfStore
  <2>3. UnitsGoing = {}
    BY <1>9, <2>2, GoingMeans
  <2> QED
    BY <2>3 DEF Going
<1>19. KnownInv /\ GoingInv /\ UniqueInv
  BY <1>9, <1>18 DEF KnownInv, GoingInv, UniqueInv
<1> QED
  BY <1>1, <1>4, <1>16, <1>17, <1>19 DEF IInv, Types, ServerTypes

-----------------------------------------------------------------------------
(* The scan and its diff.                                                  *)

LEMMA FiniteByKey ==
  ASSUME NEW S, NEW T, IsFiniteSet(T), NEW f \in [S -> T], \A x, y \in S : f[x] = f[y] => x = y
  PROVE  IsFiniteSet(S)
<1>1. f \in Injection(S, T)
  BY DEF Injection, IsInjective
<1> QED
  BY <1>1, FS_Injection

LEMMA UnstuckFits ==
  ASSUME NEW local, NEW snap \in Snap, SnapFits(db, snap)
  PROVE  Unstuck(local, snap) \in Snap /\ SnapFits(db, Unstuck(local, snap))
<1> DEFINE stuck == [u \in Uid |-> IF u \in Diffed(local) /\ ~IsStuck(local, snap, u)
                                   THEN None ELSE snap.stuck[u]]
           x == [snap EXCEPT !.stuck = stuck]
<1>1. stuck \in [Uid -> Prints]
  BY SnapHas DEF Prints
<1>2. Unstuck(local, snap) = x
  BY DEF Unstuck, Snap
<1> HIDE DEF stuck
<1>3. x \in Snap /\ x.cursor = snap.cursor /\ x.ents = snap.ents /\ x.deferred = snap.deferred
  BY <1>1 DEF Snap
<1> HIDE DEF x
<1>4. SnapFits(db, x)
  BY <1>3 DEF SnapFits
<1> QED
  BY <1>2, <1>3, <1>4

LEMMA DraftIs ==
  ASSUME NEW kind \in {"create", "set", "remove"}, NEW u \in Uid, NEW data \in Partial,
         NEW base \in [Field -> Nat], NEW fp \in Prints, NEW seen \in Texts
  PROVE  LET d == Draft(kind, u, data, base, fp, seen)
         IN  /\ d \in [op : OpSet, fp : Prints, seen : Texts]
             /\ d.op.op = kind /\ d.op.uid = u /\ d.op.data = data /\ d.op.base = base
             /\ d.seen = seen
<1>1. Home[u] \in Item
  BY HomeAssumption
<1> QED
  BY <1>1 DEF Draft, NewOp, OpSet

(* The three kinds of drafts.                                              *)
DraftCreate(local, u) ==
  Draft("create", u, [f \in SetFields(u) |-> local.val[u][f]], Unversioned, DataPrint(local.val[u]), None)

DraftSet(local, snap, u) ==
  Draft("set", u, [f \in Changed(local, snap, u) |-> local.val[u][f]],
        [f \in Field |-> IF f \in Changed(local, snap, u) THEN snap.ents[u].ver[f] ELSE 0],
        DataPrint(local.val[u]), snap.ents[u].val)

DraftRemove(snap, u) ==
  Draft("remove", u, [f \in {} |-> None], snap.ents[u].ver, RemovalPrint(snap.ents[u]), snap.ents[u].val)

LEMMA DraftsAre ==
  ASSUME NEW local, NEW snap, NEW d \in Drafts(local, snap)
  PROVE  \E u \in Uid :
           \/ /\ d = DraftCreate(local, u)
              /\ local.val[u] # None /\ snap.ents[u] = None
           \/ /\ d = DraftSet(local, snap, u)
              /\ local.val[u] # None /\ snap.ents[u] # None
           \/ /\ d = DraftRemove(snap, u)
              /\ local.val[u] = None /\ snap.ents[u] # None /\ u \in Child
<1> DEFINE active  == {u \in Diffed(local) : ~IsStuck(local, snap, u)}
           created == {u \in active : snap.ents[u] = None}
           edited  == {u \in active \ created : Changed(local, snap, u) # {}}
           gone    == {u \in Child : /\ snap.ents[u] # None /\ local.val[u] = None
                                     /\ Home[u] \in local.scanned
                                     /\ snap.stuck[u] # RemovalPrint(snap.ents[u])}
<1>1. Drafts(local, snap) = {DraftCreate(local, u) : u \in created}
                            \cup {DraftSet(local, snap, u) : u \in edited}
                            \cup {DraftRemove(snap, u) : u \in gone}
  BY DEF Drafts, DraftCreate, DraftSet, DraftRemove
<1>2. /\ \A u \in created : u \in Uid /\ local.val[u] # None /\ snap.ents[u] = None
      /\ \A u \in edited : u \in Uid /\ local.val[u] # None /\ snap.ents[u] # None
      /\ \A u \in gone : u \in Uid /\ u \in Child /\ local.val[u] = None /\ snap.ents[u] # None
  BY DEF Diffed, Uid
<1> HIDE DEF created, edited, gone
<1> QED
  BY <1>1, <1>2

LEMMA DraftCreateFits ==
  ASSUME NEW local \in Scanned, NEW u \in Uid, local.val[u] # None
  PROVE  /\ DraftCreate(local, u) \in Drafted /\ DraftFits(db, DraftCreate(local, u))
         /\ DraftCreate(local, u).op.uid = u
<1> DEFINE d == DraftCreate(local, u)
           data == [f \in SetFields(u) |-> local.val[u][f]]
<1>1. local.val[u] \in Content
  BY DEF Scanned, Texts
<1>2. data \in Partial
  <2>1. SetFields(u) \subseteq Field
    BY DEF SetFields
  <2> QED
    BY <1>1, <2>1 DEF Partial, Content
<1>3. Unversioned \in [Field -> Nat] /\ None \in Texts
  BY DEF Unversioned, Texts
<1>4. DataPrint(local.val[u]) \in Prints
  BY <1>1 DEF DataPrint, Prints, Texts
<1>5. /\ d \in [op : OpSet, fp : Prints, seen : Texts]
      /\ d.op.op = "create" /\ d.op.uid = u /\ d.op.data = data
  BY <1>2, <1>3, <1>4, DraftIs DEF DraftCreate
<1>6. DOMAIN data = SetFields(u) /\ Plain(u) \subseteq SetFields(u)
      /\ \A f \in SetFields(u) : IsSettable(u, f)
  BY PlainFields DEF SetFields, Plain, IsSettable
<1> HIDE DEF d, data
<1>7. d \in Drafted
  BY <1>5, <1>6 DEF Drafted, Sensible
<1>8. DraftFits(db, d)
  BY <1>5 DEF DraftFits
<1> QED
  BY <1>5, <1>7, <1>8 DEF d

LEMMA DraftSetFits ==
  ASSUME NEW local \in Scanned, NEW snap \in Snap, SnapFits(db, snap), NEW u \in Uid,
         local.val[u] # None, snap.ents[u] # None
  PROVE  /\ DraftSet(local, snap, u) \in Drafted /\ DraftFits(db, DraftSet(local, snap, u))
         /\ DraftSet(local, snap, u).op.uid = u
<1> DEFINE d    == DraftSet(local, snap, u)
           ent  == snap.ents[u]
           data == [f \in Changed(local, snap, u) |-> local.val[u][f]]
           base == [f \in Field |-> IF f \in Changed(local, snap, u) THEN ent.ver[f] ELSE 0]
<1>1. local.val[u] \in Content
  BY DEF Scanned, Texts
<1>2. ent \in Ent /\ RowFits(db, u, ent)
  BY SnapHas DEF SnapFits
<1>3. Changed(local, snap, u) \subseteq Field /\ \A f \in Changed(local, snap, u) : IsSettable(u, f)
  BY DEF Changed, SetFields
<1>4. data \in Partial
  BY <1>1, <1>3 DEF Partial, Content
<1>5. base \in [Field -> Nat] /\ ent.val \in Texts
  <2> HIDE DEF ent
  <2> QED
    BY <1>2 DEF Ent, Texts
<1>6. DataPrint(local.val[u]) \in Prints
  BY <1>1 DEF DataPrint, Prints, Texts
<1>7. /\ d \in [op : OpSet, fp : Prints, seen : Texts]
      /\ d.op.op = "set" /\ d.op.uid = u /\ d.op.data = data /\ d.op.base = base /\ d.seen = ent.val
  BY <1>4, <1>5, <1>6, DraftIs DEF DraftSet
<1>8. /\ DOMAIN data = Changed(local, snap, u)
      /\ \A f \in Changed(local, snap, u) : base[f] = ent.ver[f]
  BY <1>3
<1> HIDE DEF d, data, base, ent
<1>9. d \in Drafted
  BY <1>3, <1>7, <1>8 DEF Drafted, Sensible
<1>10. DraftFits(db, d)
  BY <1>2, <1>7, <1>8 DEF DraftFits, RowFits
<1> QED
  BY <1>7, <1>9, <1>10 DEF d

LEMMA DraftRemoveFits ==
  ASSUME NEW snap \in Snap, NEW u \in Uid, snap.ents[u] # None, u \in Child
  PROVE  /\ DraftRemove(snap, u) \in Drafted /\ DraftFits(db, DraftRemove(snap, u))
         /\ DraftRemove(snap, u).op.uid = u
<1> DEFINE d   == DraftRemove(snap, u)
           ent == snap.ents[u]
           data == [f \in {} |-> None]
<1>1. ent \in Ent
  BY SnapHas
<1>2. ent.ver \in [Field -> Nat] /\ ent.val \in Texts /\ RemovalPrint(ent) \in Prints
  BY <1>1 DEF Ent, Texts, RemovalPrint, Prints
<1>3. data \in Partial /\ DOMAIN data = {}
  BY DEF Partial
<1>4. /\ d \in [op : OpSet, fp : Prints, seen : Texts]
      /\ d.op.op = "remove" /\ d.op.uid = u /\ d.op.data = data
  BY <1>2, <1>3, DraftIs DEF DraftRemove
<1> HIDE DEF d, data
<1>5. d \in Drafted
  BY <1>3, <1>4 DEF Drafted, Sensible
<1>6. DraftFits(db, d)
  BY <1>4 DEF DraftFits
<1> QED
  BY <1>4, <1>5, <1>6 DEF d

(* What a diff yields: drafts of different entities.                       *)
DiffOf(S) ==
  /\ S \subseteq Drafted /\ IsFiniteSet(S)
  /\ \A d \in S : DraftFits(db, d)
  /\ \A d, e \in S : d.op.uid = e.op.uid => d = e

LEMMA DraftsFit ==
  ASSUME NEW local \in Scanned, NEW snap \in Snap, SnapFits(db, snap)
  PROVE  DiffOf(Drafts(local, snap))
<1> DEFINE S == Drafts(local, snap)
           Kinds(d, u) == \/ /\ d = DraftCreate(local, u)
                             /\ local.val[u] # None /\ snap.ents[u] = None
                          \/ /\ d = DraftSet(local, snap, u)
                             /\ local.val[u] # None /\ snap.ents[u] # None
                          \/ /\ d = DraftRemove(snap, u)
                             /\ local.val[u] = None /\ snap.ents[u] # None /\ u \in Child
<1>1. \A d \in S : \E u \in Uid : Kinds(d, u)
  BY DraftsAre
<1>2. \A d : \A u \in Uid : Kinds(d, u) => d \in Drafted /\ DraftFits(db, d) /\ d.op.uid = u
  BY DraftCreateFits, DraftSetFits, DraftRemoveFits
<1>3. \A d, e : \A u \in Uid : Kinds(d, u) /\ Kinds(e, u) => d = e
  OBVIOUS
<1> HIDE DEF Kinds, S
<1>4. \A d \in S : d \in Drafted /\ DraftFits(db, d) /\ d.op.uid \in Uid /\ Kinds(d, d.op.uid)
  BY <1>1, <1>2
<1>5. \A d, e \in S : d.op.uid = e.op.uid => d = e
  BY <1>3, <1>4
<1>6. IsFiniteSet(S)
  <2> DEFINE key == [d \in S |-> d.op.uid]
  <2>1. key \in [S -> Uid] /\ \A d, e \in S : key[d] = key[e] => d = e
    BY <1>4, <1>5
  <2> HIDE DEF key
  <2> QED
    BY <2>1, FiniteByKey, SyncAssumption
<1>7. DiffOf(S)
  BY <1>4, <1>5, <1>6 DEF DiffOf
<1> QED
  BY <1>7 DEF S

(* The drafts with their ids.                                              *)
NumberedWell(N, n, k) ==
  /\ N \subseteq Drafted /\ IsFiniteSet(N)
  /\ \A x \in N : x.op.id \in (n + 1)..(n + k) /\ DraftFits(db, x)
  /\ \A x, y \in N : x.op.id = y.op.id => x = y
  /\ \A x, y \in N : x.op.uid = y.op.uid => x = y

(* A draft with another id, and as one of a group or not.                  *)
LEMMA DraftStamped ==
  ASSUME NEW x \in Drafted, NEW id \in Nat
  PROVE  /\ [x EXCEPT !.op.id = id] \in Drafted
         /\ [x EXCEPT !.op.id = id].op.id = id /\ [x EXCEPT !.op.id = id].op.uid = x.op.uid
         /\ DraftFits(db, x) => DraftFits(db, [x EXCEPT !.op.id = id])
<1> DEFINE y == [x EXCEPT !.op.id = id]
<1>1. x \in [op : OpSet, fp : Prints, seen : Texts] /\ x.op \in OpSet /\ Sensible(x.op)
  BY DEF Drafted
<1>2. /\ y \in [op : OpSet, fp : Prints, seen : Texts] /\ y.seen = x.seen
      /\ y.op.id = id /\ y.op.uid = x.op.uid /\ y.op.op = x.op.op /\ y.op.data = x.op.data
      /\ y.op.base = x.op.base
  BY <1>1 DEF OpSet
<1> HIDE DEF y
<1>3. y \in Drafted
  BY <1>1, <1>2 DEF Drafted, Sensible
<1>4. DraftFits(db, x) => DraftFits(db, y)
  BY <1>2 DEF DraftFits
<1> QED
  BY <1>2, <1>3, <1>4 DEF y

LEMMA DraftGrouped ==
  ASSUME NEW x \in Drafted, NEW c \in Nat
  PROVE  /\ [x EXCEPT !.op.group = c > 1] \in Drafted
         /\ [x EXCEPT !.op.group = c > 1].op.id = x.op.id
         /\ [x EXCEPT !.op.group = c > 1].op.uid = x.op.uid
         /\ DraftFits(db, x) => DraftFits(db, [x EXCEPT !.op.group = c > 1])
<1> DEFINE y == [x EXCEPT !.op.group = c > 1]
<1>1. x \in [op : OpSet, fp : Prints, seen : Texts] /\ x.op \in OpSet /\ Sensible(x.op)
  BY DEF Drafted
<1>2. /\ y \in [op : OpSet, fp : Prints, seen : Texts] /\ y.seen = x.seen
      /\ y.op.id = x.op.id /\ y.op.uid = x.op.uid /\ y.op.op = x.op.op /\ y.op.data = x.op.data
      /\ y.op.base = x.op.base
  <2> DEFINE g == c > 1
  <2>1. g \in BOOLEAN
    OBVIOUS
  <2>2. y = [x EXCEPT !.op.group = g]
    OBVIOUS
  <2> HIDE DEF g, y
  <2> QED
    BY <1>1, <2>1, <2>2 DEF OpSet
<1> HIDE DEF y
<1>3. y \in Drafted
  BY <1>1, <1>2 DEF Drafted, Sensible
<1>4. DraftFits(db, x) => DraftFits(db, y)
  BY <1>2 DEF DraftFits
<1> QED
  BY <1>2, <1>3, <1>4 DEF y

LEMMA NumberedFits ==
  ASSUME NEW S, DiffOf(S), NEW n \in Nat, NEW N \in Numbered(S, n)
  PROVE  Cardinality(S) \in Nat /\ NumberedWell(N, n, Cardinality(S))
<1> DEFINE k == Cardinality(S)
<1>1. k \in Nat
  BY FS_CardinalityType DEF DiffOf
<1>2. PICK l \in Ordered(S, Rank) : N = {[l[i] EXCEPT !.op.id = n + i] : i \in DOMAIN l}
  BY DEF Numbered
<1>3. l \in [1..k -> S] /\ \A i, j \in 1..k : i < j => l[i] # l[j]
  BY <1>2 DEF Ordered
<1> HIDE DEF k
<1>4. \A i, j \in 1..k : l[i] = l[j] => i = j
  BY <1>1, <1>3
<1> DEFINE at(i) == [l[i] EXCEPT !.op.id = n + i]
<1>5. N = {at(i) : i \in 1..k}
  BY <1>2, <1>3
<1>6. ASSUME NEW i \in 1..k
      PROVE  /\ at(i) \in Drafted /\ DraftFits(db, at(i)) /\ at(i).op.id = n + i
             /\ at(i).op.uid = l[i].op.uid /\ n + i \in (n + 1)..(n + k)
  <2>1. l[i] \in Drafted /\ DraftFits(db, l[i]) /\ n + i \in Nat
    BY <1>1, <1>3 DEF DiffOf
  <2>2. n + i \in (n + 1)..(n + k)
    BY <1>1
  <2> QED
    BY <2>1, <2>2, DraftStamped
<1> HIDE DEF at
<1>7. \A i, j \in 1..k : at(i).op.id = at(j).op.id => i = j
  BY <1>1, <1>6
<1>8. \A i, j \in 1..k : at(i).op.uid = at(j).op.uid => i = j
  BY <1>3, <1>4, <1>6 DEF DiffOf
<1>9. /\ N \subseteq Drafted
      /\ \A x \in N : x.op.id \in (n + 1)..(n + k) /\ DraftFits(db, x)
  BY <1>5, <1>6
<1>10. \A x, y \in N : (x.op.id = y.op.id => x = y) /\ (x.op.uid = y.op.uid => x = y)
  BY <1>5, <1>7, <1>8
<1>11. IsFiniteSet(N)
  <2> DEFINE key == [x \in N |-> x.op.id]
  <2>1. key \in [N -> (n + 1)..(n + k)] /\ \A x, y \in N : key[x] = key[y] => x = y
    BY <1>9, <1>10
  <2>2. IsFiniteSet((n + 1)..(n + k))
    BY <1>1, FS_Interval
  <2> HIDE DEF key
  <2> QED
    BY <2>1, <2>2, FiniteByKey
<1> QED
  BY <1>1, <1>9, <1>10, <1>11 DEF NumberedWell, k

(* The units: lists of drafts that have one lead.                          *)
ListedAs(N, z, c, l, unit) ==
  /\ l \in [1..c -> Together(N, z)]
  /\ c = Cardinality(Together(N, z)) /\ c # 0
  /\ \A i, j \in 1..c : l[i] = l[j] => i = j
  /\ unit = [j \in 1..c |-> [l[j] EXCEPT !.op.group = c > 1]]

LEMMA SameRange ==
  ASSUME NEW m \in Nat, NEW n \in Nat, 1..m = 1..n
  PROVE  m = n
<1>1. (m = 0 \/ m \in 1..n) /\ (n = 0 \/ n \in 1..m)
  <2>1. (m = 0 \/ m \in 1..m) /\ (n = 0 \/ n \in 1..n)
    OBVIOUS
  <2> QED
    BY <2>1
<1> QED
  BY <1>1

LEMMA UnitIs ==
  ASSUME NEW N, NEW n \in Nat, NEW k \in Nat, NumberedWell(N, n, k), NEW unit \in UnitsOf(N)
  PROVE  \E z \in N, c \in Nat : \E l : ListedAs(N, z, c, l, unit)
<1> DEFINE All == UNION {Ordered(Together(N, d), IdOf) : d \in N}
<1>1. PICK l \in All : unit = Ready(l)
  BY DEF UnitsOf
<1>2. PICK z0 \in N : l \in Ordered(Together(N, z0), IdOf)
  BY <1>1
<1> HIDE DEF All
<1> DEFINE T == Together(N, z0)
           c == Cardinality(T)
<1>3. IsFiniteSet(T) /\ z0 \in T
  <2>1. T \in SUBSET N
    BY DEF Together
  <2> QED
    BY <2>1, FS_Subset DEF NumberedWell, Together
<1>4. c \in Nat /\ c # 0
  <2> HIDE DEF T
  <2> QED
    BY <1>3, FS_CardinalityType, FS_EmptySet
<1>5. l \in [1..c -> T] /\ \A i, j \in 1..c : i < j => l[i] # l[j]
  BY <1>2 DEF Ordered
<1>9. c = Cardinality(Together(N, z0)) /\ l \in [1..c -> Together(N, z0)]
  BY <1>5
<1> HIDE DEF c, T
<1>6. \A i, j \in 1..c : l[i] = l[j] => i = j
  BY <1>4, <1>5
<1>7. l \in Seq(T) /\ Len(l) = c /\ DOMAIN l = 1..c
  <2>1. l \in Seq(T)
    BY <1>4, <1>5, SeqDef
  <2>2. Len(l) \in Nat /\ DOMAIN l = 1..Len(l) /\ DOMAIN l = 1..c
    BY <1>5, <2>1, LenProperties
  <2>3. Len(l) = c
    BY <1>4, <2>2, SameRange
  <2> QED
    BY <2>1, <2>2, <2>3
<1>8. unit = [j \in 1..c |-> [l[j] EXCEPT !.op.group = c > 1]]
  BY <1>1, <1>7 DEF Ready
<1>10. ListedAs(N, z0, c, l, unit)
  BY <1>4, <1>6, <1>8, <1>9 DEF ListedAs
<1> QED
  BY <1>4, <1>10

LEMMA UnitOfFits ==
  ASSUME NEW N, NEW n \in Nat, NEW k \in Nat, NumberedWell(N, n, k), NEW unit \in UnitsOf(N)
  PROVE  /\ unit \in PushUnit
         /\ \A x \in Members(unit) : x.op.id \in (n + 1)..(n + k) /\ DraftFits(db, x)
<1>1. PICK z0 \in N, c \in Nat : \E l : ListedAs(N, z0, c, l, unit)
  BY UnitIs
<1>0. PICK l : ListedAs(N, z0, c, l, unit)
  BY <1>1
<1>2. /\ l \in [1..c -> Together(N, z0)] /\ c # 0
      /\ \A i, j \in 1..c : l[i] = l[j] => i = j
      /\ unit = [j \in 1..c |-> [l[j] EXCEPT !.op.group = c > 1]]
  BY <1>0 DEF ListedAs
<1>3. \A j \in 1..c : l[j] \in N /\ l[j] \in Drafted
  BY <1>2 DEF Together, NumberedWell
<1>4. (c > 1) \in BOOLEAN
  OBVIOUS
<1>5. ASSUME NEW j \in 1..c
      PROVE  /\ unit[j] \in Drafted /\ DraftFits(db, unit[j])
             /\ unit[j].op.id = l[j].op.id /\ unit[j].op.uid = l[j].op.uid
             /\ unit[j].op.id \in (n + 1)..(n + k)
  <2>1. unit[j] = [l[j] EXCEPT !.op.group = c > 1]
    BY <1>2
  <2>2. l[j] \in Drafted /\ DraftFits(db, l[j]) /\ l[j].op.id \in (n + 1)..(n + k)
    BY <1>3 DEF NumberedWell
  <2> QED
    BY <1>4, <2>1, <2>2, DraftGrouped
<1>6. DOMAIN unit = 1..c /\ unit = [j \in 1..c |-> unit[j]]
  BY <1>2
<1>7. unit \in [1..c -> Drafted]
  BY <1>5, <1>6
<1>8. unit \in Seq(Drafted)
  BY <1>7, SeqDef
<1>9. unit # <<>>
  <2>1. 1 \in DOMAIN unit
    BY <1>2, <1>6
  <2> QED
    BY <2>1, EmptyHasNone
<1>10. Apart(unit)
  <2> SUFFICES ASSUME NEW i \in 1..c, NEW j \in 1..c, unit[i].op.uid = unit[j].op.uid PROVE i = j
    BY <1>6 DEF Apart
  <2>1. l[i].op.uid = l[j].op.uid /\ l[i] \in N /\ l[j] \in N
    BY <1>3, <1>5
  <2>2. l[i] = l[j]
    BY <2>1 DEF NumberedWell
  <2> QED
    BY <1>2, <2>2
<1>11. unit \in PushUnit
  BY <1>8, <1>9, <1>10 DEF PushUnit
<1>12. \A x \in Members(unit) : x.op.id \in (n + 1)..(n + k) /\ DraftFits(db, x)
  BY <1>5, <1>6 DEF Members
<1> QED
  BY <1>11, <1>12

(* An op is in one unit, at one place of it: ops with an id are the same.  *)
LEMMA UnitsApart ==
  ASSUME NEW N, NEW n \in Nat, NEW k \in Nat, NumberedWell(N, n, k),
         NEW u1 \in UnitsOf(N), NEW u2 \in UnitsOf(N),
         NEW x \in Members(u1), NEW y \in Members(u2), x.op.id = y.op.id
  PROVE  x = y
<1>1. PICK z1 \in N, c1 \in Nat : \E l : ListedAs(N, z1, c1, l, u1)
  BY UnitIs
<1>11. PICK l1 : ListedAs(N, z1, c1, l1, u1)
  BY <1>1
<1>3. /\ l1 \in [1..c1 -> Together(N, z1)] /\ c1 = Cardinality(Together(N, z1))
      /\ u1 = [j \in 1..c1 |-> [l1[j] EXCEPT !.op.group = c1 > 1]]
  BY <1>11 DEF ListedAs
<1>2. PICK z2 \in N, c2 \in Nat : \E l : ListedAs(N, z2, c2, l, u2)
  BY UnitIs
<1>12. PICK l2 : ListedAs(N, z2, c2, l2, u2)
  BY <1>2
<1>4. /\ l2 \in [1..c2 -> Together(N, z2)] /\ c2 = Cardinality(Together(N, z2))
      /\ u2 = [j \in 1..c2 |-> [l2[j] EXCEPT !.op.group = c2 > 1]]
  BY <1>12 DEF ListedAs
<1>5. PICK i \in 1..c1 : x = [l1[i] EXCEPT !.op.group = c1 > 1]
  BY <1>3 DEF Members
<1>6. PICK j \in 1..c2 : y = [l2[j] EXCEPT !.op.group = c2 > 1]
  BY <1>4 DEF Members
<1>7. /\ l1[i] \in N /\ Lead(N, l1[i]) = Lead(N, z1)
      /\ l2[j] \in N /\ Lead(N, l2[j]) = Lead(N, z2)
  BY <1>3, <1>4, <1>5, <1>6 DEF Together
<1>8. x.op.id = l1[i].op.id /\ y.op.id = l2[j].op.id
  <2>1. l1[i] \in Drafted /\ l2[j] \in Drafted
    BY <1>7 DEF NumberedWell
  <2>2. (c1 > 1) \in BOOLEAN /\ (c2 > 1) \in BOOLEAN
    OBVIOUS
  <2> QED
    BY <1>5, <1>6, <2>1, <2>2, DraftGrouped
<1>9. l1[i] = l2[j]
  BY <1>7, <1>8 DEF NumberedWell
<1>10. Together(N, z1) = Together(N, z2)
  BY <1>7, <1>9 DEF Together
<1>16. c1 = c2
  BY <1>3, <1>4, <1>10
<1> QED
  BY <1>5, <1>6, <1>9, <1>16

LEMMA UnitsFinite ==
  ASSUME NEW N, NEW n \in Nat, NEW k \in Nat, NumberedWell(N, n, k)
  PROVE  IsFiniteSet(UnitsOf(N))
<1> DEFINE Key(unit) == {<<j, unit[j].op.id>> : j \in DOMAIN unit}
           C == Cardinality(N)
           T == (1..C) \X ((n + 1)..(n + k))
           key == [unit \in UnitsOf(N) |-> Key(unit)]
<1>1. C \in Nat
  BY FS_CardinalityType DEF NumberedWell
<1>2. ASSUME NEW unit \in UnitsOf(N)
      PROVE  /\ DOMAIN unit \subseteq 1..C
             /\ unit = [j \in DOMAIN unit |-> unit[j]]
             /\ \A j \in DOMAIN unit : unit[j] \in Members(unit)
  <2>1. PICK z \in N, c \in Nat : \E l : ListedAs(N, z, c, l, unit)
    BY UnitIs
  <2>2. PICK l : ListedAs(N, z, c, l, unit)
    BY <2>1
  <2>3. c = Cardinality(Together(N, z)) /\ unit = [j \in 1..c |-> [l[j] EXCEPT !.op.group = c > 1]]
    BY <2>2 DEF ListedAs
  <2>4. c <= C
    <3>1. Together(N, z) \in SUBSET N
      BY DEF Together
    <3> QED
      BY <2>3, <3>1, FS_Subset DEF NumberedWell
  <2>5. DOMAIN unit = 1..c
    BY <2>3
  <2>6. unit = [j \in DOMAIN unit |-> unit[j]]
    BY <2>3, <2>5
  <2> HIDE DEF C
  <2> QED
    BY <1>1, <2>4, <2>5, <2>6 DEF Members
<1> HIDE DEF C
<1>3. \A unit \in UnitsOf(N) : \A j \in DOMAIN unit : unit[j].op.id \in (n + 1)..(n + k)
  BY <1>2, UnitOfFits
<1>4. key \in [UnitsOf(N) -> SUBSET T]
  BY <1>2, <1>3
<1>5. ASSUME NEW u1 \in UnitsOf(N), NEW u2 \in UnitsOf(N), Key(u1) = Key(u2)
      PROVE  u1 = u2
  <2>1. \A j \in DOMAIN u1 : j \in DOMAIN u2 /\ u1[j].op.id = u2[j].op.id
    <3> TAKE j \in DOMAIN u1
    <3>1. <<j, u1[j].op.id>> \in Key(u2)
      BY <1>5
    <3> QED
      BY <3>1
  <2>2. \A j \in DOMAIN u2 : j \in DOMAIN u1
    <3> TAKE j \in DOMAIN u2
    <3>1. <<j, u2[j].op.id>> \in Key(u1)
      BY <1>5
    <3> QED
      BY <3>1
  <2> HIDE DEF Key
  <2>3. \A j \in DOMAIN u1 : u1[j] = u2[j]
    BY <1>2, <2>1, UnitsApart
  <2>4. DOMAIN u1 = DOMAIN u2
    BY <2>1, <2>2
  <2> QED
    BY <1>2, <2>3, <2>4
<1>6. IsFiniteSet(SUBSET T)
  <2>1. IsFiniteSet(1..C) /\ IsFiniteSet((n + 1)..(n + k))
    BY <1>1, FS_Interval
  <2>2. IsFiniteSet(T)
    BY <2>1, FS_Product
  <2> HIDE DEF T
  <2> QED
    BY <2>2, FS_SUBSET
<1>7. \A u1, u2 \in UnitsOf(N) : key[u1] = key[u2] => u1 = u2
  BY <1>5
<1> HIDE DEF key, T
<1> QED
  BY <1>4, <1>6, <1>7, FiniteByKey

(* What a round is to push: the units, in some order.                      *)
LEMMA UnitsListed ==
  ASSUME NEW N, NEW n \in Nat, NEW k \in Nat, NumberedWell(N, n, k),
         NEW units \in Ordered(UnitsOf(N), FirstId)
  PROVE  units \in PushUnits /\ Len(units) \in Nat /\ Members(units) \subseteq UnitsOf(N)
<1> DEFINE K == Cardinality(UnitsOf(N))
<1>1. K \in Nat
  BY UnitsFinite, FS_CardinalityType
<1>2. units \in [1..K -> UnitsOf(N)]
  BY DEF Ordered
<1>3. UnitsOf(N) \subseteq PushUnit
  BY UnitOfFits
<1> HIDE DEF K
<1>4. units \in Seq(PushUnit)
  <2>1. units \in [1..K -> PushUnit]
    BY <1>2, <1>3
  <2> QED
    BY <1>1, <2>1, SeqDef
<1> QED
  BY <1>2, <1>4, LenProperties DEF PushUnits, Members

(* Units with ids that no op had before join those under way.              *)
LEMMA NewUnits ==
  ASSUME IInv, UNCHANGED <<db, known, wire>>, used' \in Used, NEW k \in Nat,
         used'.ops = used.ops + k, StoreTypes', StoresFit',
         NEW N, NumberedWell(N, used.ops, k), UnitsGoing' \subseteq UnitsGoing \cup UnitsOf(N)
  PROVE  IInv'
<1>1. used.ops \in Nat /\ used.ops + k <= MaxOps /\ MaxOps \in Nat
  BY SyncAssumption DEF IInv, Types, ServerTypes, Used
<1> DEFINE New == UNION {Members(unit) : unit \in UnitsOf(N)}
<1>2. Going' \subseteq Going \cup New
  BY DEF Going
<1>3. \A x \in New : x.op.id \in (used.ops + 1)..(used.ops + k) /\ DraftFits(db, x)
  BY <1>1, UnitOfFits
<1>4. \A x, y \in New : x.op.id = y.op.id => x = y
  BY <1>1, UnitsApart
<1> HIDE DEF New
<1>5. \A x \in New : known[x.op.id] = None
  BY <1>1, <1>3 DEF IInv, KnownInv
<1>6. \A x \in Going : DraftOk(x) /\ x.op.id \in 1..used.ops
  BY DEF IInv, GoingInv, DraftOk
<1>7. \A x \in New : DraftOk(x)'
  <2>1. \A x \in New : x.op.id \in 1..(used.ops + k)
    BY <1>1, <1>3
  <2> QED
    BY <1>3, <1>5, <2>1 DEF DraftOk
<1>8. \A x \in Going : DraftOk(x)'
  <2>1. \A x \in Going : x.op.id \in 1..(used.ops + k)
    BY <1>1, <1>6
  <2> QED
    BY <1>6, <2>1 DEF DraftOk
<1>9. GoingInv'
  BY <1>2, <1>7, <1>8 DEF GoingInv
<1>10. \A x \in Going, y \in New : x.op.id # y.op.id
  BY <1>1, <1>3, <1>6
<1>11. UniqueInv'
  BY <1>2, <1>4, <1>10 DEF IInv, UniqueInv
<1>12. KnownInv'
  <2>1. \A id \in 1..MaxOps : id <= used.ops => id <= used.ops + k
    BY <1>1
  <2> QED
    BY <2>1 DEF IInv, KnownInv
<1>13. Types' /\ WireFits'
  BY DEF IInv, Types, ServerTypes, WireFits
<1> QED
  BY <1>9, <1>11, <1>12, <1>13 DEF IInv

LEMMA ScanKeeps ==
  ASSUME IInv, NEW s \in Store, Scan(s)
  PROVE  IInv'
<1> DEFINE r      == round[s]
           local  == ScanOf(s, IF r.full THEN Item ELSE r.taken)
           mem    == Unstuck(local, r.mem)
           drafts == Drafts(local, mem)
           k      == Cardinality(drafts)
<1>1. /\ r \in Round /\ RoundFits(db, r) /\ Members(r.sent) \subseteq UnitsGoing
      /\ disk[s] \in Snap /\ SnapFits(db, disk[s]) /\ marks[s] \in SUBSET Item /\ used \in Used
  BY Before
<1>2. r.taken \in SUBSET Item /\ r.mem \in Snap /\ SnapFits(db, r.mem)
  BY <1>1, RoundHas DEF RoundFits
<1>3. /\ used.ops + k <= MaxOps /\ used' = [used EXCEPT !.ops = @ + k]
      /\ marks' = [marks EXCEPT ![s] = @ \cup local.busy]
      /\ disk' = IF drafts = {} THEN disk ELSE [disk EXCEPT ![s] = mem]
      /\ UNCHANGED <<db, known, wire, files, outbox, held>>
  BY DEF Scan
<1>0. PICK N \in Numbered(drafts, used.ops) :
        \E us \in Ordered(UnitsOf(N), FirstId) : round' = [round EXCEPT ![s] =
             [r EXCEPT !.phase = "send", !.local = local, !.mem = mem, !.replay = FALSE,
                       !.pending = us, !.limit = Len(us), !.save = r.save \/ drafts # {}]]
  BY DEF Scan, Rounds
<1>4. PICK units \in Ordered(UnitsOf(N), FirstId) : round' = [round EXCEPT ![s] =
             [r EXCEPT !.phase = "send", !.local = local, !.mem = mem, !.replay = FALSE,
                       !.pending = units, !.limit = Len(units), !.save = r.save \/ drafts # {}]]
  BY <1>0
<1>5. local \in Scanned
  <2>1. (IF r.full THEN Item ELSE r.taken) \in SUBSET Item
    BY <1>2
  <2> QED
    BY <2>1, ScanTyped
<1> HIDE DEF local
<1>6. mem \in Snap /\ SnapFits(db, mem)
  BY <1>2, UnstuckFits
<1> HIDE DEF mem
<1>7. DiffOf(drafts)
  BY <1>5, <1>6, DraftsFit
<1> HIDE DEF drafts
<1>8. used.ops \in Nat /\ MaxOps \in Nat
  BY <1>1, SyncAssumption DEF Used
<1>9. k \in Nat /\ NumberedWell(N, used.ops, k)
  BY <1>4, <1>7, <1>8, NumberedFits
<1> HIDE DEF k
<1>10. units \in PushUnits /\ Len(units) \in Nat /\ Members(units) \subseteq UnitsOf(N)
  BY <1>4, <1>8, <1>9, UnitsListed
<1>11. used' \in Used /\ used'.ops = used.ops + k
  BY <1>1, <1>3, <1>8, <1>9 DEF Used
<1> DEFINE limit == Len(units)
           save  == r.save \/ drafts # {}
           R == [r EXCEPT !.phase = "send", !.local = local, !.mem = mem, !.replay = FALSE,
                          !.pending = units, !.limit = limit, !.save = save]
<1>12. limit \in Nat /\ save \in BOOLEAN
  BY <1>10
<1>13. round' = [round EXCEPT ![s] = R]
  BY <1>4
<1> HIDE DEF limit, save, r
<1>14. R \in Round
  <2>1. [r EXCEPT !.phase = "send", !.local = local, !.mem = mem, !.replay = FALSE] \in Round
    BY <1>1, <1>5, <1>6 DEF Round, Phases
  <2>2. [[r EXCEPT !.phase = "send", !.local = local, !.mem = mem, !.replay = FALSE]
           EXCEPT !.pending = units, !.limit = limit, !.save = save] \in Round
    BY <1>10, <1>12, <2>1 DEF Round
  <2> QED
    BY <2>2
<1>15. RoundFits(db, R)
  BY <1>1, <1>6 DEF RoundFits, Round
<1>16. R.pending = units /\ R.sent = r.sent
  BY <1>1 DEF Round
<1> HIDE DEF R
<1>17. StoreTypes'
  <2>1. marks[s] \cup local.busy \in SUBSET Item
    BY <1>1, <1>5 DEF Scanned
  <2>2. StoreTypes
    BY DEF IInv, Types
  <2>3. marks' \in [Store -> SUBSET Item] /\ round' \in [Store -> Round] /\ disk' \in [Store -> Snap]
    BY <1>3, <1>6, <1>13, <1>14, <2>1, <2>2 DEF StoreTypes
  <2> QED
    BY <1>3, <2>2, <2>3 DEF StoreTypes
<1>18. /\ round'[s] = R /\ (disk'[s] = mem \/ disk'[s] = disk[s])
       /\ \A t \in Store : t # s => disk'[t] = disk[t] /\ outbox'[t] = outbox[t] /\ round'[t] = round[t]
  BY <1>3, <1>13 DEF IInv, Types, StoreTypes
<1>19. StoresFit'
  BY <1>1, <1>3, <1>6, <1>15, <1>18 DEF IInv, StoresFit
<1>20. \A t \in Store : UnitsOfStore(t)' \subseteq UnitsGoing \cup UnitsOf(N)
  <2> TAKE t \in Store
  <2>1. CASE t = s
    <3>1. outbox'[t] = outbox[s] /\ round'[t].pending = units /\ round'[t].sent = r.sent
      BY <1>3, <1>16, <1>18, <2>1
    <3>2. Members(outbox[s]) \subseteq UnitsGoing
      BY Before
    <3> QED
      BY <1>1, <1>10, <3>1, <3>2 DEF UnitsOfStore
  <2>2. CASE t # s
    <3>1. UnitsOfStore(t)' = UnitsOfStore(t)
      BY <1>3, <1>18, <2>2 DEF UnitsOfStore
    <3> QED
      BY <3>1, GoingMeans
  <2> QED
    BY <2>1, <2>2
<1>21. UnitsGoing' \subseteq UnitsGoing \cup UnitsOf(N)
  <2>1. \A unit : unit \in UnitsGoing' => \/ \E t \in Store : unit \in UnitsOfStore(t)'
                                          \/ \E m \in wire' : unit \in Members(m.units)
    BY GoingNextMeans
  <2>2. \A m \in wire' : Members(m.units) \subseteq UnitsGoing
    BY <1>3, GoingMeans
  <2> QED
    BY <1>20, <2>1, <2>2
<1> QED
  BY <1>3, <1>9, <1>11, <1>17, <1>19, <1>21, NewUnits

-----------------------------------------------------------------------------
(* What holds in every state.                                              *)

LEMMA NextKeeps ==
  ASSUME IInv, [Next]_vars
  PROVE  IInv'
<1>1. ASSUME NEW s \in Store, Command(s) PROVE IInv'
  BY <1>1, AcquireKeeps, ReleaseKeeps, EditFilesKeeps DEF Command
<1>2. ASSUME NEW s \in Store, RoundStep(s) PROVE IInv'
  <2>1. CASE Scan(s) \/ Send(s) \/ Pushed(s) \/ Handle(s) \/ SaveResults(s)
    BY <2>1, ScanKeeps, SendKeeps, PushedKeeps, HandleKeeps, SaveResultsKeeps
  <2>2. CASE Fetch(s) \/ ApplyPulled(s) \/ RetryPage(s) \/ Retry(s) \/ EndPull(s) \/ EndRound(s)
    BY <2>2, FetchKeeps, ApplyPulledKeeps, RetryPageKeeps, RetryKeeps, EndPullKeeps, EndRoundKeeps
  <2>3. CASE TimeOut(s)
    BY <2>3, StopsKeep
  <2>4. CASE \E m \in wire : Respond(s, m) \/ Refused(s, m)
    BY <2>4, RespondKeeps, RefusedKeeps
  <2> QED
    BY <1>2, <2>1, <2>2, <2>3, <2>4 DEF RoundStep
<1>3. ASSUME NEW s \in Store, NetworkError(s) \/ Crash(s) PROVE IInv'
  BY <1>3, StopsKeep
<1>4. ASSUME NEW s \in Store, NEW pushOnly \in BOOLEAN, NEW full \in BOOLEAN, NEW adopt \in BOOLEAN,
             StartRound(s, pushOnly, full, adopt)
      PROVE  IInv'
  BY <1>4, StartRoundKeeps
<1>5. ASSUME NEW e \in WebEdit, WriteOnDashboard(e) PROVE IInv'
  BY <1>5, WriteOnDashboardKeeps
<1>6. ASSUME NEW m \in wire, Serve(m) \/ LoseRequest(m) PROVE IInv'
  BY <1>6, ServeKeeps, LoseRequestKeeps
<1>7. CASE UNCHANGED vars
  <2>1. UNCHANGED <<db, known, wire, files, disk, outbox, marks, held, round, used>>
    BY <1>7 DEF vars
  <2>2. \A s \in Store : UnitsOfStore(s)' = UnitsOfStore(s)
    BY <2>1 DEF UnitsOfStore
  <2>3. UnitsGoing' \subseteq UnitsGoing
    BY <2>1, <2>2, GoingMeans, GoingNextMeans
  <2>4. StoreTypes' /\ wire' \in SUBSET Msg /\ StoresFit' /\ WireFits' /\ used' \in Used
    BY <2>1 DEF IInv, Types, ServerTypes, StoreTypes, StoresFit, WireFits
  <2> QED
    BY <2>1, <2>3, <2>4, Quietly
<1> QED
  BY <1>1, <1>2, <1>3, <1>4, <1>5, <1>6, <1>7 DEF Next

(* Of everything a store holds, has sent or was told, the versions stand   *)
(* for the values beside them, whatever the rounds, commands, people, lost *)
(* requests and kills before.                                              *)
THEOREM Invariance == Spec => []IInv
<1>1. Init => IInv
  BY InitHolds
<1>2. IInv /\ [Next]_vars => IInv'
  BY NextKeeps
<1> QED
  BY <1>1, <1>2, PTL DEF Spec

LEMMA SnapIsSnapshot ==
  ASSUME SeqOf(db) \in Nat, NEW snap \in Snap, SnapFits(db, snap)
  PROVE  IsSnapshot(snap)
<1>1. /\ snap.cursor \in Nat /\ snap.ents \in [Uid -> Ent \cup {None}]
      /\ snap.deferred \in SUBSET Chg /\ snap.removed \in SUBSET Child
  BY SnapHas
<1>2. snap.cursor \in 0..SeqOf(db)
  BY <1>1 DEF SnapFits
<1>3. \A u \in Uid : snap.ents[u] # None => IsEnt(snap.ents[u])
  BY <1>1 DEF Ent, IsEnt
<1>4. \A ch \in snap.deferred : ch.uid \in Uid
  BY <1>1 DEF Chg
<1> QED
  BY <1>1, <1>2, <1>3, <1>4 DEF IsSnapshot

(* Whatever the stores, their edits and the losses, every state is typed:  *)
(* no cursor points past the server's feed, and no id is of two ops.       *)
THEOREM TypesHold == Spec => []TypeOK
<1>1. IInv => TypeOK
  <2> SUFFICES ASSUME IInv PROVE TypeOK
    OBVIOUS
  <2>1. db \in Db /\ SeqOf(db) \in Nat
    BY SeqIsNat
  <2>2. ASSUME NEW s \in Store
        PROVE  /\ \A u \in Uid : files[s][u] \in Content \cup {None}
               /\ marks[s] \subseteq Item /\ held[s] \subseteq Item
    <3>1. files[s] \in [Uid -> Texts] /\ marks[s] \in SUBSET Item /\ held[s] \in SUBSET Item
      BY Before
    <3> QED
      BY <3>1 DEF Texts
  <2>3. ASSUME NEW s \in Store PROVE \A snap \in Snapshots(s) : IsSnapshot(snap)
    <3>1. disk[s] \in Snap /\ SnapFits(db, disk[s]) /\ round[s].mem \in Snap /\ SnapFits(db, round[s].mem)
      BY Before, RoundHas DEF RoundFits
    <3> QED
      BY <2>1, <3>1, SnapIsSnapshot DEF Snapshots
  <2>4. ASSUME NEW s \in Store PROVE SentOps(s) \subseteq Going
    <3>1. Members(outbox[s]) \cup Members(round[s].pending) \subseteq UnitsGoing
      BY Before
    <3> QED
      BY <3>1 DEF SentOps, Going
  <2>5. \A x \in Going : IsOp(x.op) /\ x.op.id \in 1..used.ops
    <3> TAKE x \in Going
    <3>1. x \in Drafted
      BY UnitsTyped DEF IInv
    <3>2. x.op \in OpSet
      BY <3>1 DEF Drafted
    <3> QED
      BY <3>2, OpSetIsOp DEF IInv, GoingInv, DraftOk
  <2>6. \A x, y \in Going : x.op.id = y.op.id => x = y
    BY DEF IInv, UniqueInv
  <2> QED
    BY <2>1, <2>2, <2>3, <2>4, <2>5, <2>6 DEF TypeOK
<1> QED
  BY <1>1, Invariance, PTL

(* A set that the server has not run yet carries a version the row still   *)
(* has only if the store saw the row's value when it made the op (diff's   *)
(* base versions): so the conflict check of a push cannot let a value be   *)
(* overwritten that the writer never saw, however edits, rounds, replays,  *)
(* losses and crashes of any number of stores are interleaved.             *)
THEOREM WritesAreInformed == Spec => []NoBlindWrite
<1>1. ASSUME IInv, NEW x \in Going, x.op.op = "set", db.rows[x.op.uid] # None,
             NEW f \in DOMAIN x.op.data \ JsonField, x.op.base[f] = db.rows[x.op.uid].ver[f]
      PROVE  x.seen[f] = db.rows[x.op.uid].val[f]
  <2>1. x \in Drafted /\ DraftFits(db, x)
    BY <1>1, UnitsTyped DEF IInv, GoingInv, DraftOk
  <2>2. f \in DOMAIN x.op.data /\ IsSettable(x.op.uid, f) /\ f \notin JsonField
    BY <1>1, <2>1 DEF Drafted, Sensible
  <2>3. f \in Plain(x.op.uid)
    BY <2>2 DEF Plain, IsSettable
  <2>4. FitsIn(db, x.op.uid, f, x.op.base[f], x.seen[f])
    BY <1>1, <2>1, <2>2, <2>3 DEF DraftFits
  <2> QED
    BY <1>1, <2>4 DEF FitsIn
<1>2. ASSUME NEW m \in wire, NEW i \in DOMAIN m.units, NEW j \in DOMAIN m.units[i]
      PROVE  m.units[i][j] \in Going
  <2>1. m.units[i] \in Members(m.units) /\ m.units[i][j] \in Members(m.units[i])
    BY DEF Members
  <2> QED
    BY <2>1, GoingMeans DEF Going
<1>3. IInv => NoBlindWrite
  <2> SUFFICES ASSUME IInv, NEW m \in wire, NEW i \in DOMAIN m.units, NEW j \in DOMAIN m.units[i]
               PROVE  LET d == m.units[i][j]
                          row == db.rows[d.op.uid]
                      IN  (d.op.op = "set" /\ row # None /\ known[d.op.id] = None) =>
                            \A f \in DOMAIN d.op.data \ JsonField :
                              (d.op.base[f] = row.ver[f] /\ row.ver[f] # 0) => d.seen[f] = row.val[f]
    BY Zenon DEF NoBlindWrite
  <2> DEFINE x == m.units[i][j]
  <2>1. x \in Going
    BY <1>2
  <2> HIDE DEF x
  <2>2. x.op.op = "set" /\ db.rows[x.op.uid] # None =>
          \A f \in DOMAIN x.op.data \ JsonField :
            x.op.base[f] = db.rows[x.op.uid].ver[f] => x.seen[f] = db.rows[x.op.uid].val[f]
    BY <1>1, <2>1
  <2> QED
    BY <2>2 DEF x
<1> QED
  BY <1>3, Invariance, PTL
=============================================================================
