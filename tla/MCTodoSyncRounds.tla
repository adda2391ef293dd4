--------------------------- MODULE MCTodoSyncRounds ---------------------------
(* Four settings: one store whose fields are edited while a round goes on,   *)
(* two stores with push-only rounds, one store whose rejection note travels  *)
(* with its item's status against an approval on the dashboard, and a clone  *)
(* that is linked to a project which has its item already.                   *)
EXTENDS MCTodoSync

CONSTANT Alone    \* the store of the settings with one

VARIABLE setting

Fields == INSTANCE TodoSync WITH
  Store <- Alone, Alongside <- TRUE, PushOnly <- FALSE, MaxFaults <- 2, MaxOps <- 6

Rejecting == INSTANCE TodoSync WITH
  Store <- Alone, Check <- {}, WithStatus <- MCNoteWithStatus, Seed <- MCSeedInQa,
  Edit <- MCRejection, WebEdit <- MCApproval,
  MaxEdits <- 3, MaxFaults <- 2, MaxOps <- 8

Linking == INSTANCE TodoSync WITH
  Store <- Alone, Unlinked <- Alone, Seed <- MCSeedItem, Edit <- MCLinkEdit, PushOnly <- FALSE,
  MaxEdits <- 2, MaxFaults <- 1, MaxOps <- 6

(* A link that failed is tried again as a common round, which pushes first.  *)
PushesFirst(s) ==
  /\ round[s].phase = "idle" /\ round'[s].phase # "idle"
  /\ ~round'[s].adopt /\ \A u \in Uid : disk[s].ents[u] = None

RoundsInit ==
  \/ setting = "fields"    /\ Fields!Init
  \/ setting = "stores"    /\ Init
  \/ setting = "rejection" /\ Rejecting!Init
  \/ setting = "link"      /\ Linking!Init

RoundsNext ==
  \/ setting = "fields"    /\ Fields!Next    /\ UNCHANGED setting
  \/ setting = "stores"    /\ Next           /\ UNCHANGED setting
  \/ setting = "rejection" /\ Rejecting!Next /\ UNCHANGED setting
  \/ /\ setting \in {"link", "link pushes first"} /\ Linking!Next
     /\ setting' = IF \E s \in Alone : PushesFirst(s) THEN "link pushes first" ELSE setting

RoundsSpec == RoundsInit /\ [][RoundsNext]_<<setting, vars>>

(* Stores with nothing to do agree with the server, and so with each other   *)
(* (QuietMeansEqual), and nothing is left behind a cursor                    *)
(* (NothingBehindTheCursor).  So does a clone that was linked, if the link   *)
(* pulled before it pushed.                                                  *)
QuietStoresAgree ==
  /\ setting = "stores" => QuietMeansEqual /\ NothingBehindTheCursor
  /\ setting = "link"   => Linking!QuietMeansEqual /\ Linking!NothingBehindTheCursor

(* No value is lost without a record, neither by a round nor by a link that  *)
(* pulled before it pushed, even if it dies and is tried again               *)
(* (NoSilentLoss).                                                           *)
LossesAreTold ==
  /\ setting = "rejection" => Rejecting!NoSilentLoss
  /\ setting = "link"      => Linking!NoSilentLoss

(* A rejection note lands with its status only (RejectionsKeepTheirStatus).  *)
RejectionsLandWhole == setting = "rejection" => Rejecting!RejectionsKeepTheirStatus
=============================================================================
