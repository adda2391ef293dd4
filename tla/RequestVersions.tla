--------------------------- MODULE RequestVersions ----------------------------
(***************************************************************************)
(* An item's request (server/lib/apply.ts, "request versions"): a series   *)
(* of ticket-request notes, of which the last is current.  A version may   *)
(* be edited until its item leaves `requested`, and a new one sends the    *)
(* item back there.  Every step is one op in its transaction under the     *)
(* project's lock, except for the dashboard's clearing of shipped items,   *)
(* which reads the items first and sends its ops after.                    *)
(***************************************************************************)
EXTENDS Naturals, Sequences

CONSTANTS
  Text,
  MaxVersions, MaxMoves,   \* bounds: versions posted, moves and edits
  MaxClears                \* bound: clearings of shipped items

VARIABLES
  item,      \* status, archived, and the number of writes of extra.archived
  request,   \* the ticket-request notes in order; version 0 is none given yet
  clearing,  \* clearings of shipped items under way: the writes of extra.archived they saw
  used

vars == <<item, request, clearing, used>>

(* One status for each that the code tells apart.                          *)
Status == {"requested", "in-triage", "todo", "blocked", "done", "cancelled"}
PAST_TRIAGE == {"todo", "done"}
TERMINAL == {"done", "cancelled"}

Note(version, text) == [version |-> version, text |-> text, frozen |-> FALSE, via |-> "none", triaged |-> FALSE]

(* Items of a database from before there were versions: notes without one, *)
(* that nothing froze.  The server gives them theirs before it serves.     *)
Init ==
  /\ item \in [status : Status, archived : {FALSE}, writes : {0}]
  /\ \E t \in Text, n \in 0..2 : request = [i \in 1..n |-> Note(0, t)]
  /\ clearing = {}
  /\ used = [moves |-> 0, clears |-> 0]

Versions == {i \in DOMAIN request : request[i].version > 0}
Served == Versions = DOMAIN request

BackfillRequestVersions ==
  /\ ~Served
  /\ LET n == CHOOSE i \in DOMAIN request \ Versions : \A j \in DOMAIN request \ Versions : i <= j
         counted == IF Versions = {} THEN 0 ELSE CHOOSE k \in 1..Len(request) : Versions = 1..k
         triaged == item.status \in PAST_TRIAGE
     IN  request' = [request EXCEPT ![n] =
           [@ EXCEPT !.version = counted + 1,
                     !.frozen = item.status # "requested",
                     !.via = IF item.status = "requested" THEN "none"
                             ELSE IF triaged \/ item.status = "in-triage" THEN "triage" ELSE "skip",
                     !.triaged = triaged]]
  /\ UNCHANGED <<item, clearing, used>>

-----------------------------------------------------------------------------

(* Mutant: only the current version freezes.                               *)
FreezesLast(notes) == {Len(notes)}

(* The versions that freeze when the item leaves `requested`: a superseded *)
(* one too.                                                                *)
Freezes(notes) == {i \in DOMAIN notes : ~notes[i].frozen}

(* What a change of the status does to the versions.                       *)
Lifecycle(notes, from, to) ==
  IF notes = <<>> THEN notes
  ELSE IF from = "requested" /\ to # "requested"
  THEN [i \in DOMAIN notes |->
          IF i \in Freezes(notes)
          THEN [notes[i] EXCEPT !.frozen = TRUE, !.via = IF to = "in-triage" THEN "triage" ELSE "skip"]
          ELSE notes[i]]
  ELSE IF to \in PAST_TRIAGE /\ notes[Len(notes)].frozen /\ notes[Len(notes)].via = "triage"
  THEN [notes EXCEPT ![Len(notes)].triaged = TRUE]
  ELSE notes

Moves == used.moves < MaxMoves /\ used' = [used EXCEPT !.moves = @ + 1]

(* A status set; reopening an archived item brings it back.                *)
SetStatus ==
  /\ Served /\ Moves
  /\ \E to \in Status \ {item.status} :
       LET reopens == item.archived /\ to \notin TERMINAL
       IN  /\ item' = [status |-> to, archived |-> item.archived /\ ~reopens,
                       writes |-> IF reopens THEN item.writes + 1 ELSE item.writes]
           /\ request' = Lifecycle(request, item.status, to)
  /\ UNCHANGED clearing

(* The newest version's number, and one more.                              *)
NextVersion == IF request = <<>> THEN 1 ELSE request[Len(request)].version + 1

(* A version after the first, of an item past `requested`, bounces it.     *)
Bounces == item.status # "requested" /\ request # <<>>

(* A first request that comes after work began says what it was built      *)
(* against.                                                                *)
PostRequest ==
  /\ Served /\ Len(request) < MaxVersions
  /\ \E t \in Text :
       LET late == item.status # "requested" /\ request = <<>>
           note == [Note(NextVersion, t) EXCEPT !.frozen = late, !.via = IF late THEN "skip" ELSE "none"]
           with == Append(request, note)
       IN  request' = IF Bounces THEN Lifecycle(with, item.status, "requested") ELSE with
  /\ item' = IF Bounces THEN [item EXCEPT !.status = "requested"] ELSE item
  /\ UNCHANGED <<clearing, used>>

(* A version is edited until it is frozen, superseded or not.              *)
EditRequest ==
  /\ Served /\ Moves
  /\ \E n \in DOMAIN request, t \in Text :
       /\ ~request[n].frozen /\ t # request[n].text
       /\ request' = [request EXCEPT ![n].text = t]
  /\ UNCHANGED <<item, clearing>>

-----------------------------------------------------------------------------

(* The item is flagged archived if it is terminal and not flagged: by the  *)
(* CLI, whose store holds it meanwhile,                                    *)
Archive ==
  /\ Served /\ item.status \in TERMINAL /\ ~item.archived
  /\ item' = [item EXCEPT !.archived = TRUE, !.writes = @ + 1]
  /\ UNCHANGED <<request, clearing, used>>

(* or by the dashboard, from what it read: its op is checked against the   *)
(* version of the flag, not of the status.                                 *)
ReadShipped ==
  /\ Served /\ used.clears < MaxClears
  /\ item.status \in TERMINAL /\ ~item.archived
  /\ clearing' = clearing \cup {item.writes}
  /\ used' = [used EXCEPT !.clears = @ + 1]
  /\ UNCHANGED <<item, request>>

ClearShipped ==
  /\ \E seen \in clearing :
       /\ clearing' = clearing \ {seen}
       /\ item' = IF item.archived \/ seen # item.writes THEN item
                  ELSE [item EXCEPT !.archived = TRUE, !.writes = @ + 1]
  /\ UNCHANGED <<request, used>>

Next ==
  \/ BackfillRequestVersions
  \/ SetStatus \/ PostRequest \/ EditRequest
  \/ Archive \/ ReadShipped \/ ClearShipped

Spec == Init /\ [][Next]_vars

-----------------------------------------------------------------------------

(* While an item is being worked on, none of its request's versions can    *)
(* still change, and the current one, the last, has the highest number of  *)
(* 1, 2, 3, ... whatever was posted, moved and sent back before.           *)
WorkIsOnAFrozenRequest ==
  Served =>
    /\ item.status # "requested" => \A n \in DOMAIN request : request[n].frozen
    /\ \A n \in DOMAIN request : request[n].version = n
=============================================================================
