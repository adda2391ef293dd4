----------------------------- MODULE MCTodoSync -----------------------------
(* One item with a check, already pulled by every store. *)
EXTENDS TodoSync, TLC

MCItem  == {"i"}
MCChild == {"c"}
MCTask  == {}
MCCheck == {"c"}
MCItemField  == {"status"}
MCChildField == {"status"}
MCJsonField  == {}
MCValue == {"todo", "in-progress", "done", "pending", "blocked", "in-qa", "qa-rejected"}

MCHome == [u \in {"i", "c"} |-> "i"]
MCWithStatus == [u \in {} |-> "none"]

At(f, v) == [g \in {f} |-> v]
SeedItem  == NewOp(0, "create", "i", At("status", "todo"), [f \in Field |-> 0])
SeedCheck == NewOp(0, "create", "c", At("status", "pending"), [f \in Field |-> 0])

SetTo(uid, v) == [kind |-> "set", uid |-> uid, field |-> "status", value |-> v, data |-> At("status", v)]
Add(uid, v) == [SetTo(uid, v) EXCEPT !.kind = "add"]
Gone(uid)   == [SetTo(uid, None) EXCEPT !.kind = "remove"]

MCSeed == <<SeedItem, SeedCheck>>
MCSeedItem == <<SeedItem>>
MCNothing == {}
MCClone   == [u \in {"i", "c"} |-> Values(u, At("status", IF u = "i" THEN "in-progress" ELSE "done"))]

(* Fields: a status set back and forth, while others write it too.         *)
MCEdit    == {SetTo("i", "in-progress"), SetTo("i", "todo"), SetTo("c", "done")}
MCWebEdit == {SetTo("i", "done"), SetTo("c", "done")}

(* A check made and removed here and on the dashboard, beside a change of  *)
(* the item that the server refuses.                                       *)
MCRefusedEdit  == {Add("c", "pending"), Gone("c"), SetTo("i", "in-progress")}
MCChildWebEdit == {Gone("c"), SetTo("c", "done")}

(* A rejection note that travels with its item's status; in MCRejectedAndPickedUp
   the item is moved on before the two are pushed.                         *)
MCSeedInQa == <<[SeedItem EXCEPT !.data = At("status", "in-qa")]>>
MCNoteWithStatus == [u \in {"c"} |-> "qa-rejected"]
Reject(uid)      == [SetTo(uid, None) EXCEPT !.kind = "reject"]
MCRejection      == {Reject("c")}
MCApproval       == {SetTo("i", "done"), SetTo("i", "todo")}
MCRejectedAndPickedUp == {Reject("c"), SetTo("i", "in-progress")}
MCItemDone       == {SetTo("i", "done")}

(* An item moved on while its first move is being pushed.                  *)
MCLaterEdit == {SetTo("i", "in-progress"), SetTo("i", "todo"), SetTo("i", "blocked")}

(* A check set and then removed here, while it is set on the dashboard.    *)
MCSetAndRemoved == {SetTo("c", "done"), Gone("c")}
MCCheckDone     == {SetTo("c", "done")}

(* What a user does to a clone that is being linked.                       *)
MCLinkEdit == {SetTo("i", "done"), SetTo("c", "pending")}

MCRefusedUids == {"i"}

(* Stores are alike. *)
MCSymmetry == Permutations(Store)
=============================================================================
