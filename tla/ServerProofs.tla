----------------------------- MODULE ServerProofs -----------------------------
(***************************************************************************)
(* What the parts of MCServer keep, as it states it: their own modules'    *)
(* theorems, with each part alone in its behaviours.                       *)
(***************************************************************************)
EXTENDS MCServer, TLAPS

(* The parts' inductive invariants.                                        *)
JiraPart    == only = "jira"    => Small!OutboxInv
ActionsPart == only = "actions" => Small!ActionInv
PluginsPart == only = "plugins" => Small!PluginInv
RoundsPart  == only = "rounds"  => Small!StoreInv
MirrorPart  == only = "mirror"  => Mirror!MirrorBase /\ Mirror!Appended /\ Mirror!FollowInv
DocsPart    == only = "docs"    => Docs!KeptInv /\ Docs!ToldInv
GitPart     == only = "git"     => Git!GitInv /\ Git!KnownInv
SmallParts  ==
  /\ only = "login"    => Small!LoginInv
  /\ only = "request"  => Small!RequestInv
  /\ only = "handover" => Small!HandoverInv
  /\ only = "notes"    => Small!NotesInv
Parts       == JiraPart /\ ActionsPart /\ PluginsPart /\ RoundsPart /\ MirrorPart /\ DocsPart /\ GitPart /\ SmallParts

(* A step is one of the part that the behaviour has, and leaves it the one.*)
LEMMA PartStep ==
  ASSUME [Next]_allVars
  PROVE  /\ only' = only
         /\ only = "jira"     => [Small!Outbox!Next]_(Small!Outbox!vars)
         /\ only = "actions"  => [Small!Actions!Next]_(Small!Actions!vars)
         /\ only = "plugins"  => [Small!Plugins!Next]_(Small!Plugins!vars)
         /\ only = "rounds"   => [Small!Rounds!Next]_(Small!Rounds!vars)
         /\ only = "mirror"   => [Mirror!Next]_(Mirror!vars)
         /\ only = "docs"     => [Docs!Next]_(Docs!vars)
         /\ only = "git"      => [Git!Next]_(Git!vars)
         /\ only = "login"    => [Small!Login!Next]_(Small!Login!vars)
         /\ only = "request"  => [Small!Request!Next]_(Small!Request!vars)
         /\ only = "handover" => [Small!Handover!Next]_(Small!Handover!vars)
         /\ only = "notes"    => [Small!Notes!Next]_(Small!Notes!vars)
<1>1. CASE UNCHANGED allVars
  BY <1>1 DEF allVars, xs, Small!Outbox!vars, Small!Actions!vars, Small!Plugins!vars, Small!Rounds!vars, Small!Rounds!locks, Mirror!vars, Docs!vars, Git!vars,
              Small!Login!vars, Small!Request!vars, Small!Handover!vars, Small!Notes!vars
<1>2. CASE InJira \/ InActions \/ InPlugins \/ InRounds
  BY <1>2 DEF InJira, InActions, InPlugins, InRounds
<1>3. CASE InLogin \/ InRequest \/ InHandover \/ InNotes
  BY <1>3 DEF InLogin, InRequest, InHandover, InNotes
<1>4. CASE InMirror \/ InDocs \/ InGit
  BY <1>4 DEF InMirror, InDocs, InGit
<1> QED
  BY <1>1, <1>2, <1>3, <1>4 DEF Next

LEMMA PartStart ==
  ASSUME Init
  PROVE  /\ only = "jira"     => Small!Outbox!Init
         /\ only = "actions"  => Small!Actions!Init
         /\ only = "plugins"  => Small!Plugins!Init
         /\ only = "rounds"   => Small!Rounds!Init
         /\ only = "mirror"   => Mirror!Init
         /\ only = "docs"     => Docs!Init
         /\ only = "git"      => Git!Init
         /\ only = "login"    => Small!Login!Init
         /\ only = "request"  => Small!Request!Init
         /\ only = "handover" => Small!Handover!Init
         /\ only = "notes"    => Small!Notes!Init
  BY DEF Init

LEMMA PartsStart == Init => Parts
<1> SUFFICES ASSUME Init PROVE Parts
  OBVIOUS
<1>1. JiraPart /\ ActionsPart /\ PluginsPart /\ RoundsPart
  BY PartStart, Small!OutboxStart, Small!ActionStart, Small!PluginStart, Small!StoreStart, RoundsAssumption
     DEF JiraPart, ActionsPart, PluginsPart, RoundsPart
<1>2. SmallParts
  BY PartStart, Small!LoginStart, Small!RequestStart, Small!HandoverStart, Small!NotesStart DEF SmallParts
<1>3. DocsPart
  BY PartStart, Docs!DocsInit, Docs!ToldInit DEF DocsPart
<1>4. MirrorPart
  BY PartStart, Mirror!MirrorBaseInit, Mirror!AppendedInit, Mirror!FollowStart, LagsAssumption DEF MirrorPart
<1>5. GitPart
  BY PartStart, Git!InitGit, Git!KnownStart, ReposAssumption DEF GitPart
<1> QED
  BY <1>1, <1>2, <1>3, <1>4, <1>5 DEF Parts

LEMMA PartsStep == ASSUME Parts, [Next]_allVars PROVE Parts'
<1>1. JiraPart'
  BY PartStep, Small!OutboxStep, DeliveriesAssumption DEF Parts, JiraPart
<1>2. PluginsPart'
  BY PartStep, Small!PluginStep, DeliveriesAssumption DEF Parts, PluginsPart
<1>3. ActionsPart'
  BY PartStep, Small!ActionStays DEF Parts, ActionsPart
<1>4. RoundsPart'
  BY PartStep, Small!StoreStep, RoundsAssumption DEF Parts, RoundsPart
<1>5. SmallParts'
  <2>1. (only = "login" => Small!LoginInv)'
    BY PartStep, Small!LoginStep, LoginsAssumption DEF Parts, SmallParts
  <2>2. (only = "request" => Small!RequestInv)'
    BY PartStep, Small!RequestStep DEF Parts, SmallParts
  <2>3. (only = "handover" => Small!HandoverInv)'
    BY PartStep, Small!HandoverStep DEF Parts, SmallParts
  <2>4. (only = "notes" => Small!NotesInv)'
    BY PartStep, Small!NotesStep DEF Parts, SmallParts
  <2> QED
    BY <2>1, <2>2, <2>3, <2>4 DEF SmallParts
<1>6. DocsPart'
  BY PartStep, Docs!DocsNext, Docs!ToldNext DEF Parts, DocsPart
<1>7. MirrorPart'
  BY PartStep, Mirror!MirrorBaseNext, Mirror!AppendedNext, Mirror!FollowNext, LagsAssumption DEF Parts, MirrorPart
<1>8. GitPart'
  BY PartStep, Git!NextKeepsGit, Git!NextKeepsKnown, ReposAssumption DEF Parts, GitPart
<1> QED
  BY <1>1, <1>2, <1>3, <1>4, <1>5, <1>6, <1>7, <1>8 DEF Parts

THEOREM PartsHold == Spec => []Parts
  BY PartsStart, PartsStep, PTL DEF Spec

(* No two flushes have one Jira row, one plugin instance's findings, or    *)
(* one Action's run of which no delivery outlasted its lease, in hand at   *)
(* the same time.                                                          *)
THEOREM OneAtATimeHolds == Spec => []OneAtATime
<1>1. Parts => OneAtATime
  BY Small!OutboxGives, Small!ActionGives, Small!PluginGives DEF Parts, JiraPart, ActionsPart, PluginsPart, OneAtATime
<1> QED
  BY <1>1, PartsHold, PTL

(* The dev log tells of an Action's run what its row does, unless a        *)
(* delivery of it outlasted its lease.                                     *)
THEOREM LogsTellOutcomes == Spec => []LogTellsOutcome
<1>1. Parts => LogTellsOutcome
  BY Small!ActionGives DEF Parts, ActionsPart, LogTellsOutcome
<1> QED
  BY <1>1, PartsHold, PTL

(* What a plugin's instance finished for an event is not written again.    *)
THEOREM NothingIsWrittenAgain == Spec => []FinishedOnce
<1>1. Parts => FinishedOnce
  BY Small!PluginGives DEF Parts, PluginsPart, FinishedOnce
<1> QED
  BY <1>1, PartsHold, PTL

(* A delivery that lost its event attaches nothing over the later one's.   *)
THEOREM LaterRunsStandThere == Spec => LaterRunStands
<1>1. Parts /\ [Next]_allVars => [only = "plugins" => Small!Plugins!KeepsLaterRun]_allVars
  BY PartStep, Small!PluginNeverBack, DeliveriesAssumption DEF Parts, PluginsPart
<1> QED
  BY <1>1, PartsHold, PTL DEF Spec, LaterRunStands

(* The moves are the outbox's where there is one.                          *)
LEMMA MovesAre ==
  ASSUME only = "jira", only' = only
  PROVE  /\ Delivery!DeliveryInit <=> Small!Delivery!DeliveryInit
         /\ [Delivery!DeliveryNext]_(Delivery!vars) <=> [Small!Delivery!DeliveryNext]_(Small!Delivery!vars)
  BY DEF Delivery!DeliveryInit, Small!Delivery!DeliveryInit,
         Delivery!DeliveryNext, Delivery!Queue, Delivery!Take, Delivery!LetGo, Delivery!Send, Delivery!Becomes,
         Delivery!DeliveredSince, Delivery!Became, Delivery!vars,
         Small!Delivery!DeliveryNext, Small!Delivery!Queue, Small!Delivery!Take, Small!Delivery!LetGo,
         Small!Delivery!Send, Small!Delivery!Becomes, Small!Delivery!DeliveredSince, Small!Delivery!Became,
         Small!Delivery!vars

(* The outbox keeps what JiraDelivery promises.                            *)
THEOREM DeliversThereInOrder == Spec => DeliversInOrder
<1>1. Init => Delivery!DeliveryInit
  <2>1. CASE only = "jira"
    BY <2>1, PartStart, Small!OutboxStart DEF Delivery!DeliveryInit, Small!Delivery!DeliveryInit
  <2>2. CASE only # "jira"
    BY <2>2, DeliveriesAssumption DEF Delivery!DeliveryInit
  <2> QED
    BY <2>1, <2>2
<1>2. Parts /\ [Next]_allVars => [Delivery!DeliveryNext]_(Delivery!vars)
  <2>1. SUFFICES ASSUME Parts, [Next]_allVars PROVE [Delivery!DeliveryNext]_(Delivery!vars)
    OBVIOUS
  <2>2. CASE only = "jira"
    BY <2>1, <2>2, PartStep, Small!OutboxStep, MovesAre, DeliveriesAssumption DEF Parts, JiraPart, Small!Promised
  <2>3. CASE only # "jira"
    BY <2>1, <2>3, PartStep DEF Delivery!vars
  <2> QED
    BY <2>2, <2>3
<1> QED
  BY <1>1, <1>2, PartsHold, PTL DEF Spec, DeliversInOrder, Delivery!DeliverySpec

(* No round of a store reads an item that a command is in the middle of    *)
(* editing.                                                                *)
THEOREM RoundsReadWhole == Spec => []ReadsAreWhole
<1>1. Parts => ReadsAreWhole
  BY Small!StoreGives, RoundsAssumption DEF Parts, RoundsPart, ReadsAreWhole
<1> QED
  BY <1>1, PartsHold, PTL

(* As long as no process is killed, no edit of a store is forgotten.       *)
THEOREM EditsAreKept == Spec => []NothingForgotten
<1>1. Parts => NothingForgotten
  BY Small!StoreGives, RoundsAssumption DEF Parts, RoundsPart, NothingForgotten
<1> QED
  BY <1>1, PartsHold, PTL

(* One approval gives one token, and a denial none.                        *)
THEOREM OneTokenThere == Spec => []OneTokenPerLogin
<1>1. Parts => OneTokenPerLogin
  BY Small!LoginGives DEF Parts, SmallParts, OneTokenPerLogin
<1> QED
  BY <1>1, PartsHold, PTL

(* Who works on a request works on a text that no longer changes.          *)
THEOREM WorkIsFrozenThere == Spec => []WorkIsOnAFrozenRequest
<1>1. Parts => WorkIsOnAFrozenRequest
  BY Small!RequestGives DEF Parts, SmallParts, WorkIsOnAFrozenRequest
<1> QED
  BY <1>1, PartsHold, PTL

(* The bridge and a plugin are never both set to act on a project, and     *)
(* what the bridge sends the plugin does not send again.                   *)
THEOREM HandoversThere == Spec => []NeverBothAct /\ []QueuedMovesAreSentOnce
<1>1. Parts => NeverBothAct /\ QueuedMovesAreSentOnce
  BY Small!HandoverGives DEF Parts, SmallParts, NeverBothAct, QueuedMovesAreSentOnce
<1> QED
  BY <1>1, PartsHold, PTL

(* What a plugin's runner removed is taken for a person's removal only if  *)
(* the runner came between a round's scan and its look at the marks.       *)
THEOREM MistakenRemovalsWereLateThere == Spec => []OnlyLateRemovalsAreMistaken
<1>1. Parts => OnlyLateRemovalsAreMistaken
  BY Small!NotesGives DEF Parts, SmallParts, OnlyLateRemovalsAreMistaken
<1> QED
  BY <1>1, PartsHold, PTL

(* No doc is lost where two sides changed it, but what was written into a  *)
(* file while its bytes were on the way.                                   *)
THEOREM LostWritesWereRacedThere == Spec => []OnlyRacedWritesAreLost
<1>1. Parts => OnlyRacedWritesAreLost
  BY DEF Parts, DocsPart, OnlyRacedWritesAreLost, Docs!KeptInv
<1> QED
  BY <1>1, PartsHold, PTL

(* A store with nothing to sync has the server's docs.                     *)
THEOREM SettledDocsAgreeThere == Spec => []SettledDocsAgree
<1>1. Parts => SettledDocsAgree
  BY Docs!ToldGives DEF Parts, DocsPart, SettledDocsAgree
<1> QED
  BY <1>1, PartsHold, PTL

(* A linked ticket is appended to the item's request, once.                *)
THEOREM TicketsAreAppendedThere == Spec => []TicketsAreAppended
<1>1. Parts => TicketsAreAppended
  BY DEF Parts, MirrorPart, TicketsAreAppended, Mirror!Appended, Mirror!BlockInv, Mirror!TicketsAreAppended
<1> QED
  BY <1>1, PartsHold, PTL

(* A linked ticket's comments follow, where they are mirrored at all.      *)
THEOREM OthersFollowThere == Spec => OthersFollow
<1>1. Parts => (only = "mirror" => Mirror!PassMirrors)
  BY Mirror!FollowGives, LagsAssumption DEF Parts, MirrorPart
<1>2. Parts /\ [Next]_allVars => [only = "mirror" => Mirror!PassMirrors]_allVars
  BY <1>1
<1> QED
  BY <1>2, PartsHold, PTL DEF Spec, OthersFollow

(* An edge that a compute shows as landed tells the truth.                 *)
THEOREM LandedIsThereHolds == Spec => LandedIsThere
<1>1. Parts /\ [Next]_allVars => [only = "git" => Git!Lands]_allVars
  <2> SUFFICES ASSUME Parts, [Next]_allVars, only = "git" PROVE Git!Lands
    OBVIOUS
  <2> QED
    BY Git!ComputeLands, ReposAssumption DEF Parts, GitPart, Git!GitInv, Git!Lands
<1> QED
  BY <1>1, PartsHold, PTL DEF Spec, LandedIsThere

(* A compute drops what a branch needs only for one of the reasons the     *)
(* module names.                                                           *)
THEOREM NoEdgeVanishesThere == Spec => NoEdgeVanishes
<1>1. Parts /\ [Next]_allVars => [only = "git" => Git!Keeps]_allVars
  <2> SUFFICES ASSUME Parts, [Next]_allVars, only = "git" PROVE Git!Keeps
    OBVIOUS
  <2> QED
    BY Git!ComputeKeeps, ReposAssumption DEF Parts, GitPart, Git!GitInv, Git!Keeps
<1> QED
  BY <1>1, PartsHold, PTL DEF Spec, NoEdgeVanishes

(* A skipped compute would have stored what is stored.                     *)
THEOREM SkippedIsKnownThere == Spec => []SkippedIsKnown
<1>1. Parts => SkippedIsKnown
  BY Git!KnownGives, ReposAssumption DEF Parts, GitPart, SkippedIsKnown
<1> QED
  BY <1>1, PartsHold, PTL
===============================================================================
