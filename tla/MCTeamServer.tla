---------------------------- MODULE MCTeamServer ----------------------------
(* A small project, one item with a task and a check, in two settings:     *)
(* "writers", whose ops come from three writers with the interesting bases *)
(* and are applied by two workers, and "reader", in which a task is made,  *)
(* removed by a plugin's run or a person and made again, and its item is   *)
(* finished, while the feed is read in small pages.                        *)
EXTENDS ChangeFeed, TLC

CONSTANT Alone    \* the worker of the setting with a reader

VARIABLE setting

MCItem  == {"i"}
MCChild == {"t", "c"}
MCTask  == {"t"}
MCCheck == {"c"}
MCItemField  == {"status"}
MCChildField == {"status", "position"}
MCJsonField  == {"archived"}
MCValue == Statuses \cup {"pending", "garbage", "yes", "p1"}

At(f, v) == [g \in {f} |-> v]
Nothing  == [g \in {} |-> None]
Base(f, n) == [g \in Field |-> IF g = f THEN n ELSE 0]

Plain(id, op, uid, data, base) ==
  [id |-> id, op |-> op, uid |-> uid, item |-> "i", data |-> data, base |-> base,
   unconditional |-> FALSE, plugin |-> FALSE, agent |-> FALSE, force |-> FALSE, group |-> FALSE]

CreateItem   == Plain(1, "create", "i", At("status", "todo"), Base("status", 0))
CreateTask   == Plain(2, "create", "t", At("status", "todo"), Base("status", 0))
PluginTask   == [Plain(3, "create", "t", At("status", "in-progress"), Base("status", 0))
                   EXCEPT !.plugin = TRUE]
ItemDone     == Plain(4, "set", "i", [f \in {"status", "archived"} |->
                                        IF f = "status" THEN "done" ELSE "yes"], Base("status", 1))
ItemReopened == [Plain(5, "set", "i", At("status", "todo"), Base("status", 0))
                   EXCEPT !.unconditional = TRUE]
TaskDone     == Plain(6, "set", "t", [f \in {"status", "position"} |->
                                        IF f = "status" THEN "done" ELSE "p1"], Base("status", 2))
TaskGarbage  == Plain(7, "set", "t", At("status", "garbage"), Base("status", 2))
RemoveTask   == Plain(8, "remove", "t", Nothing, Base("status", 2))
PluginRemove == [Plain(9, "remove", "t", Nothing, Base("status", 2))
                   EXCEPT !.plugin = TRUE, !.unconditional = TRUE]
CreateCheck  == Plain(10, "create", "c", At("status", "pending"), Base("status", 0))
Deploy       == Plain(11, "set", "i", At("status", "deployed"), Base("status", 1))
Handoff      == [Plain(12, "set", "i", [f \in {"status", "archived"} |->
                                          IF f = "status" THEN "ready-for-qa" ELSE "yes"],
                       Base("status", 1)) EXCEPT !.agent = TRUE]
SetCheck     == [Plain(13, "set", "c", At("status", "done"), Base("status", 0))
                   EXCEPT !.unconditional = TRUE]

(* An op the database refuses to write: a status in null's place. *)
NullTask     == Plain(15, "set", "t", At("status", "in-progress"), Base("status", 2))

InGroup(op)  == [op EXCEPT !.group = TRUE]
RemoveCheck  == [Plain(14, "remove", "c", Nothing, Base("status", 0)) EXCEPT !.unconditional = TRUE]
LoneCheck    == [CreateCheck EXCEPT !.id = 17]

(* Single writes, and groups: a check that travels with a partly refused   *)
(* hand-off, a task's change with its item's, a malformed op in a group    *)
(* and one alone, and a removal sent as a group of one, as unrelate does.  *)
MCUnits == {<<CreateItem>>, <<CreateTask>>, <<TaskGarbage>>, <<Deploy>>, <<NullTask>>, <<LoneCheck>>,
            <<InGroup(CreateCheck), InGroup(Handoff)>>, <<InGroup(TaskDone), InGroup(ItemDone)>>,
            <<InGroup(ItemReopened), InGroup(SetCheck)>>, <<InGroup(RemoveCheck)>>}

LoneItemDone == [ItemDone EXCEPT !.id = 18]

MCFeedUnits == {<<CreateItem>>, <<CreateTask>>, <<PluginTask>>,
                <<PluginRemove>>, <<RemoveTask>>, <<LoneItemDone>>}

MCAllUnits == MCUnits \cup MCFeedUnits

MCMalformed == {13, 15}

(* In a setting only its own workers are busy, with its own units; beside   *)
(* a reader nobody sends again what is on record, which changes no table.  *)
Only(workers, units) ==
  \A w \in Worker : tx'[w].phase # "idle" => w \in workers /\ tx'[w].unit \in units

ProjectInit == FeedInit /\ setting \in {"writers", "reader"}

ProjectNext ==
  /\ \/ setting = "writers" /\ Next /\ UNCHANGED reader /\ Only(Worker \ Alone, MCUnits)
     \/ setting = "reader" /\ FeedNext /\ Only(Alone, {u \in MCFeedUnits : applied[u[1].id] = None})
  /\ UNCHANGED setting

ProjectSpec == ProjectInit /\ [][ProjectNext]_<<feedVars, setting>>

(* The workers of the setting with two are alike. *)
MCSymmetry == Permutations(Worker \ Alone)
=============================================================================
