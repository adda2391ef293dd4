--------------------------- MODULE ProjectService ---------------------------
(***************************************************************************)
(* What the server's write path promises: units take effect one at a time  *)
(* and whole, an op that ran before is answered from its record and not    *)
(* run again, a group with a rejected op leaves nothing behind, and a unit *)
(* the database refuses is remembered as an error.  What a unit does to    *)
(* the tables is a parameter: TeamServer, which implements the promise     *)
(* with transactions, gives it the operators of ProjectDb.                 *)
(***************************************************************************)
EXTENDS Integers, Sequences

CONSTANTS
  Unit,                    \* what clients send
  Malformed,               \* ids of ops the database refuses to write
  None,                    \* no record
  EmptyDb,                 \* the tables of a new project
  ErrorResult,             \* the record of an op whose unit failed
  RunUnit(_, _, _, _),     \* the tables and answers after a unit
  ComesToWrite(_, _, _),   \* an op gets as far as writing
  RollsBack(_, _),         \* a unit's answers undo it
  Recorded(_, _, _)        \* the record after a unit

VARIABLES
  db,          \* the project's tables
  applied      \* op id -> its recorded result, or None

OpIds == UNION {{u[i].id : i \in DOMAIN u} : u \in Unit}

(* The unit comes to an op the database refuses.                           *)
Fails(unit, waits) ==
  \E i \in DOMAIN unit :
    /\ unit[i].id \in Malformed /\ applied[unit[i].id] = None
    /\ ComesToWrite(RunUnit(db, applied, SubSeq(unit, 1, i - 1), waits).db, unit[i], waits[i])

ServiceInit ==
  /\ db = EmptyDb
  /\ applied = [id \in OpIds |-> None]

(* The unit runs whole, or is a group that leaves everything as it was.    *)
Perform(unit, waits) ==
  LET done == RunUnit(db, applied, unit, waits)
  IN  /\ ~Fails(unit, waits)
      /\ ~RollsBack(unit, done.answers)
      /\ db' = done.db
      /\ applied' = Recorded(applied, unit, done.answers)

(* The ops of a unit that failed are remembered as errors, whichever was   *)
(* to blame; each on its own, so the server may stop half-way, and after   *)
(* the fact, so the unit might not fail any more.                          *)
RememberError(unit) ==
  /\ \E i \in DOMAIN unit : unit[i].id \in Malformed
  /\ \E i \in DOMAIN unit :
       /\ applied[unit[i].id] = None
       /\ applied' = [applied EXCEPT ![unit[i].id] = ErrorResult]
  /\ UNCHANGED db

ServiceNext ==
  \E unit \in Unit :
    \/ \E waits \in [DOMAIN unit -> BOOLEAN] : Perform(unit, waits)
    \/ RememberError(unit)

ServiceSpec == ServiceInit /\ [][ServiceNext]_<<db, applied>>
=============================================================================
