------------------------------ MODULE SmallProofs ------------------------------
(***************************************************************************)
(* Eight modules' invariants, proved for every value of their constants:   *)
(* device logins, the versions of an item's request, the handover of the   *)
(* Jira jobs, the removal of a plugin's note, the deliveries of Actions    *)
(* and of plugins' events, the rounds of one store, and the outbox towards *)
(* Jira, which keeps what JiraDelivery promises.  They share no state;     *)
(* each comes here under a name, with variables of its own.                *)
(***************************************************************************)
EXTENDS SequenceTheorems, FiniteSetTheorems, TLAPS

CONSTANTS
  Code, Person, Poll, NoOne, MAX_PENDING_LOGINS, MaxPolls,    \* DeviceLogin's
  Text, MaxVersions, MaxItemMoves, MaxClears,                 \* RequestVersions'
  Rules, None, MaxMoves, MaxSaves,                            \* JiraHandover's
  Store, MaxRuns, MaxPeople, MaxCrashes,      \* PluginNotes'
  Flush, MAX_ATTEMPTS, MaxActionRuns, MaxFailures, MaxKills,   \* ActionRuns'
  Instances, MaxEvents,                                       \* PluginRuns', with Flush and what bounds them
  Proc, Item, Named, WholeStore, MaxFailedPushes, MaxSweeps,  \* StoreRounds'
  Issue, JiraStatus, Unreachable, MaxJiraMoves, MaxFaults, MaxChanges         \* JiraOutbox'

VARIABLES
  logins, live, polled, tokens, poll, cli, yes, no, begun,    \* DeviceLogin's
  item, request, clearing, asked,                             \* RequestVersions'
  bridge, transition, issue, page, poller, moves, saves,      \* JiraHandover's
  server, note, runs, took, snap, round, used,                \* PluginNotes'
  actionRuns, flush, devLog, faults,                          \* ActionRuns'
  events, flushes, lock, shown, log, upsets,                  \* PluginRuns'
  pc, me, flag, marks, sweepDue, outbox, roundRunner, shared, wholeStore, owner, edits, synced, mishaps,   \* StoreRounds'
  rows, sending, settings, jira, givenUp, spent               \* JiraOutbox'

Login == INSTANCE DeviceLogin
Request == INSTANCE RequestVersions WITH used <- asked, MaxMoves <- MaxItemMoves
Handover == INSTANCE JiraHandover
Notes == INSTANCE PluginNotes
Actions == INSTANCE ActionRuns WITH
  runs <- actionRuns, used <- faults, MaxRuns <- MaxActionRuns, MaxCrashes <- MaxKills
Plugins == INSTANCE PluginRuns WITH
  flush <- flushes, used <- upsets, MaxCrashes <- MaxKills
Rounds == INSTANCE StoreRounds WITH
  runner <- roundRunner, whole <- wholeStore, used <- mishaps,
  MaxFailures <- MaxFailedPushes, MaxCrashes <- MaxKills
Outbox == INSTANCE JiraOutbox WITH
  flush <- sending, log <- givenUp, used <- spent, MaxMoves <- MaxJiraMoves
Delivery == INSTANCE JiraDelivery WITH moves <- Outbox!Moves

-----------------------------------------------------------------------------
(***************************************************************************)
(* Logins by device (DeviceLogin).  A login that is there has given        *)
(* nothing away; what is known of it is held by one poll at most, which    *)
(* alone goes on to issue a token.                                         *)
(***************************************************************************)

PeopleAssumption == NoOne \notin Person

Working == {"touch", "take", "issue", "expired", "slow_down", "pending", "approved"}

LoginTypes ==
  /\ Login!Rows \subseteq Code /\ logins \in [Login!Rows -> Person \cup {NoOne}]
  /\ poll \in [Poll -> [at : Working \cup {"idle"}, code : Code \cup {NoOne}, handle : Person \cup {NoOne}]]
  /\ cli \in [Code -> {"none", "polls", "failed", "signed in"}]
  /\ yes \subseteq [code : Code, handle : Person]
  /\ \A t \in tokens : t = [code |-> t.code, handle |-> t.handle, n |-> t.n]

NoYes(c)   == \A y \in yes : y.code # c
NoToken(c) == \A t \in tokens : t.code # c
Yes(c, u)  == [code |-> c, handle |-> u] \in yes
Issuing(p) == poll[p].at = "issue"

(* Nothing is known of a code before its login is opened.                  *)
Untouched(c) ==
  /\ c \notin Login!Rows /\ c \notin no /\ NoYes(c) /\ NoToken(c)
  /\ \A p \in Poll : poll[p].at # "idle" => poll[p].code # c

(* A login that is there has given nothing away, and says who approved it. *)
Waits(c) ==
  /\ c \notin no /\ NoToken(c)
  /\ \A p \in Poll : Issuing(p) => poll[p].code # c
  /\ IF logins[c] = NoOne THEN NoYes(c) ELSE Yes(c, logins[c])

(* A poll that takes a login knows its approver, and alone issues a token. *)
Knows(p) ==
  /\ poll[p].at \in {"take", "issue"} => Yes(poll[p].code, poll[p].handle)
  /\ Issuing(p) =>
       /\ NoToken(poll[p].code)
       /\ \A q \in Poll : Issuing(q) /\ poll[q].code = poll[p].code => q = p

LoginInv ==
  /\ LoginTypes
  /\ \A c \in Code : cli[c] = "none" => Untouched(c)
  /\ \A c \in Login!Rows : Waits(c)
  /\ \A p \in Poll : Knows(p)
  /\ \A y \in yes : y.code \notin no
  /\ \A x, y \in yes : x.code = y.code => x = y
  /\ \A t \in tokens : \E y \in yes : y.code = t.code /\ t.handle \in {y.handle, NoOne}
  /\ \A s, t \in tokens : s.code = t.code => s = t

(* No login is open at first.                                              *)
LEMMA LoginStart == Login!Init => LoginInv
<1> SUFFICES ASSUME Login!Init PROVE LoginInv
  OBVIOUS
<1>1. Login!Rows = {} /\ tokens = {} /\ yes = {} /\ no = {} /\ \A p \in Poll : poll[p] = Login!Idle
  BY DEF Login!Init, Login!Rows
<1>2. LoginTypes
  BY <1>1 DEF Login!Init, LoginTypes, Login!Idle, Login!Rows
<1> QED
  BY <1>1, <1>2 DEF LoginInv, Untouched, Knows, Issuing, NoYes, NoToken, Login!Idle

(* Polls that go on without a login, an end of the polling.                *)
LEMMA QuietKeeps ==
  ASSUME LoginInv, LoginTypes', UNCHANGED <<logins, tokens, yes, no>>,
         \A c \in Code : cli'[c] = "none" => cli[c] = "none",
         \A p \in Poll : \/ poll'[p] = poll[p]
                         \/ /\ poll'[p].at \notin {"take", "issue"}
                            /\ poll'[p].at # "idle" => poll[p].at # "idle" /\ poll'[p].code = poll[p].code
  PROVE  LoginInv'
<1>1. \A c \in Code : cli'[c] = "none" => Untouched(c)'
  BY DEF LoginInv, Untouched, NoYes, NoToken, Login!Rows
<1>2. \A p \in Poll : Issuing(p)' => Issuing(p) /\ poll'[p] = poll[p]
  BY DEF Issuing
<1>3. \A c \in Login!Rows' : Waits(c)'
  BY <1>2 DEF LoginInv, Waits, NoYes, NoToken, Yes, Login!Rows
<1>4. \A p \in Poll : Knows(p)'
  <2> SUFFICES ASSUME NEW p \in Poll PROVE Knows(p)'
    OBVIOUS
  <2>1. Knows(p)
    BY DEF LoginInv
  <2>2. poll'[p].at \in {"take", "issue"} => poll'[p] = poll[p]
    OBVIOUS
  <2>3. poll'[p].at \in {"take", "issue"} => Yes(poll[p].code, poll[p].handle)' /\ poll'[p] = poll[p]
    BY <2>1, <2>2 DEF Knows, Yes
  <2>4. Issuing(p)' => /\ NoToken(poll[p].code)' /\ poll'[p] = poll[p]
                       /\ \A q \in Poll : Issuing(q)' /\ poll'[q].code = poll[p].code => q = p
    BY <1>2, <2>1 DEF Knows, NoToken
  <2> QED
    BY <2>3, <2>4 DEF Knows
<1> QED
  BY <1>1, <1>3, <1>4 DEF LoginInv

(* What prunes, expires, loses or ends a poll gives nothing away.          *)
LEMMA QuietStep ==
  ASSUME LoginInv,
         \/ \E c \in Code : Login!Expire(c) \/ Login!PollIsOld(c) \/ Login!GiveUp(c)
         \/ \E p \in Poll : Login!Touch(p) \/ Login!Answer(p) \/ Login!LosePoll(p)
         \/ UNCHANGED Login!vars
  PROVE  LoginInv'
<1>0. LoginTypes /\ UNCHANGED <<logins, tokens, yes, no>>
  BY DEF LoginInv, Login!Expire, Login!PollIsOld, Login!GiveUp, Login!Touch, Login!Answer, Login!LosePoll, Login!vars
<1>1. CASE \E c \in Code : Login!Expire(c) \/ Login!PollIsOld(c) \/ UNCHANGED Login!vars
  <2>1. UNCHANGED <<poll, cli>>
    BY <1>1 DEF Login!Expire, Login!PollIsOld, Login!vars
  <2>2. LoginTypes'
    BY <1>0, <2>1 DEF LoginTypes, Login!Rows
  <2> QED
    BY <1>0, <2>1, <2>2, QuietKeeps
<1>2. ASSUME NEW c \in Code, Login!GiveUp(c) PROVE LoginInv'
  <2>1. cli' = [cli EXCEPT ![c] = "failed"] /\ UNCHANGED poll
    BY <1>2 DEF Login!GiveUp
  <2>2. LoginTypes' /\ \A x \in Code : cli'[x] = "none" => cli[x] = "none"
    BY <1>0, <2>1 DEF LoginTypes, Login!Rows
  <2> QED
    BY <1>0, <2>1, <2>2, QuietKeeps
<1>3. ASSUME NEW p \in Poll, Login!Touch(p) PROVE LoginInv'
  <2>1. poll' = [poll EXCEPT ![p] = [poll[p] EXCEPT !.at = "pending"]] /\ UNCHANGED cli
        /\ poll[p].at = "touch"
    BY <1>3 DEF Login!Touch, Login!Goes
  <2>2. [poll[p] EXCEPT !.at = "pending"] \in
          [at : Working \cup {"idle"}, code : Code \cup {NoOne}, handle : Person \cup {NoOne}]
    BY <1>0 DEF LoginTypes, Working
  <2>3. LoginTypes'
    BY <1>0, <2>1, <2>2 DEF LoginTypes, Login!Rows
  <2>4. \A q \in Poll : poll'[q] = poll[q] \/ (q = p /\ poll'[q].at = "pending" /\ poll'[q].code = poll[q].code)
    BY <1>0, <2>1 DEF LoginTypes
  <2> QED
    BY <1>0, <2>1, <2>3, <2>4, QuietKeeps
<1>4. ASSUME NEW p \in Poll, Login!Answer(p) \/ Login!LosePoll(p) PROVE LoginInv'
  <2>1. poll' = [poll EXCEPT ![p] = Login!Idle]
    BY <1>4 DEF Login!Answer, Login!LosePoll, Login!Goes
  <2>2. PICK end \in {"polls", "failed", "signed in"} :
          cli' = [cli EXCEPT ![poll[p].code] = IF @ = "polls" THEN end ELSE @]
    <3>1. Login!Answered(poll[p].at) \in {"polls", "failed", "signed in"}
      BY DEF Login!Answered
    <3> QED
      BY <1>4, <3>1 DEF Login!Answer, Login!LosePoll
  <2>3. Login!Idle \in [at : Working \cup {"idle"}, code : Code \cup {NoOne}, handle : Person \cup {NoOne}]
        /\ Login!Idle.at = "idle"
    BY DEF Login!Idle
  <2>4. poll' \in [Poll -> [at : Working \cup {"idle"}, code : Code \cup {NoOne}, handle : Person \cup {NoOne}]]
    BY <1>0, <2>1, <2>3 DEF LoginTypes
  <2>5. /\ cli' \in [Code -> {"none", "polls", "failed", "signed in"}]
        /\ \A x \in Code : cli'[x] = "none" => cli[x] = "none"
    BY <1>0, <2>2 DEF LoginTypes
  <2>6. LoginTypes'
    BY <1>0, <2>4, <2>5 DEF LoginTypes, Login!Rows
  <2>7. \A q \in Poll : poll'[q] = poll[q] \/ poll'[q].at = "idle"
    BY <1>0, <2>1, <2>3 DEF LoginTypes
  <2> QED
    BY <1>0, <2>5, <2>6, <2>7, QuietKeeps
<1>5. CASE UNCHANGED Login!vars
  <2>1. UNCHANGED <<poll, cli>>
    BY <1>5 DEF Login!vars
  <2>2. LoginTypes'
    BY <1>0, <2>1 DEF LoginTypes, Login!Rows
  <2> QED
    BY <1>0, <2>1, <2>2, QuietKeeps
<1> QED
  BY <1>1, <1>2, <1>3, <1>4, <1>5

(* A login is opened: what waits longer than ten minutes goes.             *)
LEMMA StartKeeps == ASSUME LoginInv, NEW c \in Code, Login!StartLogin(c) PROVE LoginInv'
<1>0. LoginTypes /\ UNCHANGED <<tokens, poll, yes, no>> /\ cli[c] = "none" /\ Untouched(c)
  BY DEF LoginInv, Login!StartLogin
<1>1. /\ Login!Rows' \subseteq Login!Rows \cup {c}
      /\ \A x \in Login!Rows' : IF x = c THEN logins'[x] = NoOne ELSE logins'[x] = logins[x]
      /\ logins' \in [Login!Rows' -> Person \cup {NoOne}]
  <2>1. c \notin Login!Rows /\ Login!Pruned \subseteq Login!Rows
    BY <1>0 DEF Untouched, Login!Pruned
  <2>2. CASE logins' = [x \in Login!Pruned |-> logins[x]]
    BY <1>0, <2>1, <2>2 DEF Login!Rows, LoginTypes
  <2>3. CASE logins' = [x \in Login!Pruned \cup {c} |-> IF x = c THEN NoOne ELSE logins[x]]
    BY <1>0, <2>1, <2>3 DEF Login!Rows, LoginTypes
  <2> QED
    BY <2>2, <2>3 DEF Login!StartLogin, Login!Keep
<1>2. PICK told \in {"polls", "failed"} : cli' = [cli EXCEPT ![c] = told]
  BY DEF Login!StartLogin
<1>3. /\ cli' \in [Code -> {"none", "polls", "failed", "signed in"}]
      /\ \A x \in Code : cli'[x] = "none" => cli[x] = "none" /\ x # c
  BY <1>0, <1>2 DEF LoginTypes
<1>4. LoginTypes'
  BY <1>0, <1>1, <1>3 DEF LoginTypes
<1>5. \A x \in Code : cli'[x] = "none" => Untouched(x)'
  BY <1>0, <1>1, <1>3 DEF LoginInv, Untouched, NoYes, NoToken
<1>6. ASSUME NEW x \in Login!Rows' PROVE Waits(x)'
  <2>1. CASE x = c
    BY <1>0, <1>1, <2>1 DEF Untouched, Waits, Issuing, NoYes, NoToken
  <2>2. CASE x # c
    <3>1. x \in Login!Rows /\ logins'[x] = logins[x] /\ Waits(x)
      BY <1>1, <2>2 DEF LoginInv
    <3> QED
      BY <1>0, <3>1 DEF Waits, Issuing, NoYes, NoToken, Yes
  <2> QED
    BY <2>1, <2>2
<1>7. \A p \in Poll : Knows(p)'
  BY <1>0 DEF LoginInv, Knows, Issuing, Yes, NoToken
<1> QED
  BY <1>0, <1>4, <1>5, <1>6, <1>7 DEF LoginInv

(* An approval names the one person who gave it.                           *)
LEMMA ApproveKeeps ==
  ASSUME PeopleAssumption, LoginInv, NEW c \in Code, NEW u \in Person, Login!ApproveLogin(u, c)
  PROVE  LoginInv'
<1> DEFINE y == [code |-> c, handle |-> u]
<1>0. LoginTypes /\ UNCHANGED <<tokens, poll, cli, no>> /\ c \in Login!Rows /\ Waits(c) /\ NoYes(c) /\ c \notin no
  BY DEF LoginInv, Login!ApproveLogin, Login!MayApprove, Waits
<1>1. /\ yes' = yes \cup {y} /\ y \in [code : Code, handle : Person] /\ y.code = c
      /\ Login!Rows' = Login!Rows /\ logins' \in [Login!Rows -> Person \cup {NoOne}]
      /\ logins'[c] = u /\ \A x \in Login!Rows : x # c => logins'[x] = logins[x]
  BY <1>0 DEF Login!ApproveLogin, Login!Rows, LoginTypes
<1>2. LoginTypes'
  BY <1>0, <1>1 DEF LoginTypes
<1>3. \A x \in Code : cli'[x] = "none" => Untouched(x)'
  BY <1>0, <1>1 DEF LoginInv, Untouched, NoYes, NoToken
<1>4. ASSUME NEW x \in Login!Rows' PROVE Waits(x)'
  <2>1. CASE x = c
    BY <1>0, <1>1, <2>1 DEF Waits, Issuing, Yes, NoToken, PeopleAssumption
  <2>2. CASE x # c
    <3>1. x \in Login!Rows /\ logins'[x] = logins[x] /\ Waits(x)
      BY <1>1, <2>2 DEF LoginInv
    <3> QED
      BY <1>0, <1>1, <2>2, <3>1 DEF Waits, Issuing, NoYes, NoToken, Yes
  <2> QED
    BY <2>1, <2>2
<1>5. \A p \in Poll : Knows(p)'
  BY <1>0, <1>1 DEF LoginInv, Knows, Issuing, Yes, NoToken
<1>6. \A x, z \in yes' : x.code = z.code => x = z
  BY <1>0, <1>1 DEF LoginInv, NoYes
<1>7. \A t \in tokens : \E z \in yes' : z.code = t.code /\ t.handle \in {z.handle, NoOne}
  BY <1>1 DEF LoginInv
<1> QED
  BY <1>0, <1>1, <1>2, <1>3, <1>4, <1>5, <1>6, <1>7 DEF LoginInv

(* A denial takes a login away that nobody approved.                       *)
LEMMA DenyKeeps == ASSUME LoginInv, NEW c \in Code, Login!DenyLogin(c) PROVE LoginInv'
<1>0. LoginTypes /\ UNCHANGED <<tokens, poll, cli, yes>> /\ c \in Login!Rows /\ Waits(c) /\ NoYes(c)
      /\ no' = no \cup {c}
  BY DEF LoginInv, Login!DenyLogin, Waits
<1>1. /\ Login!Rows' = Login!Rows \ {c} /\ logins' \in [Login!Rows' -> Person \cup {NoOne}]
      /\ \A x \in Login!Rows' : logins'[x] = logins[x]
  BY <1>0 DEF Login!DenyLogin, Login!Keep, Login!Rows, LoginTypes
<1>2. LoginTypes'
  BY <1>0, <1>1 DEF LoginTypes
<1>3. \A x \in Code : cli'[x] = "none" => Untouched(x)'
  BY <1>0, <1>1 DEF LoginInv, Untouched, NoYes, NoToken
<1>4. \A x \in Login!Rows' : Waits(x)'
  BY <1>0, <1>1 DEF LoginInv, Waits, Issuing, NoYes, NoToken, Yes
<1>5. \A p \in Poll : Knows(p)'
  BY <1>0 DEF LoginInv, Knows, Issuing, Yes, NoToken
<1>6. \A x \in yes : x.code \notin no'
  BY <1>0 DEF LoginInv, NoYes
<1> QED
  BY <1>0, <1>2, <1>3, <1>4, <1>5, <1>6 DEF LoginInv

(* A poll reads who approved the login.                                    *)
LEMMA PollKeeps == ASSUME LoginInv, NEW c \in Code, NEW p \in Poll, Login!PollLogin(p, c) PROVE LoginInv'
<1>0. LoginTypes /\ UNCHANGED <<logins, tokens, cli, yes, no>> /\ cli[c] = "polls" /\ poll[p].at = "idle"
  BY DEF LoginInv, Login!PollLogin
<1>1. PICK r : poll' = [poll EXCEPT ![p] = r] /\ r.code = c
               /\ r \in [at : Working \cup {"idle"}, code : Code \cup {NoOne}, handle : Person \cup {NoOne}]
               /\ r.at # "idle" /\ r.at # "issue"
               /\ (r.at = "take" => c \in Login!Rows /\ r.handle = logins[c] /\ logins[c] # NoOne)
  <2> DEFINE at == IF c \notin Login!Rows \cap live THEN "expired"
                   ELSE IF c \in polled THEN "slow_down"
                   ELSE IF logins[c] = NoOne THEN "touch" ELSE "take"
             r == [at |-> at, code |-> c, handle |-> IF at = "take" THEN logins[c] ELSE NoOne]
  <2>1. poll' = [poll EXCEPT ![p] = r]
    BY DEF Login!PollLogin, Login!Goes
  <2>2. at \in {"expired", "slow_down", "touch", "take"}
        /\ (at = "take" => c \in Login!Rows /\ logins[c] # NoOne)
    OBVIOUS
  <2>3. at = "take" => logins[c] \in Person \cup {NoOne}
    BY <1>0, <2>2 DEF LoginTypes
  <2> HIDE DEF at
  <2>4. /\ r.code = c /\ r.at = at /\ (at = "take" => r.handle = logins[c])
        /\ r \in [at : Working \cup {"idle"}, code : Code \cup {NoOne}, handle : Person \cup {NoOne}]
    BY <2>2, <2>3 DEF Working
  <2> HIDE DEF r
  <2> QED
    BY <2>1, <2>2, <2>4
<1>2. \A q \in Poll : poll'[q] = IF q = p THEN r ELSE poll[q]
  BY <1>0, <1>1 DEF LoginTypes
<1>3. LoginTypes'
  BY <1>0, <1>1 DEF LoginTypes, Login!Rows
<1>4. \A x \in Code : cli'[x] = "none" => Untouched(x)'
  BY <1>0, <1>1, <1>2 DEF LoginInv, Untouched, NoYes, NoToken, Login!Rows
<1>5. \A q \in Poll : Issuing(q)' <=> Issuing(q) /\ q # p
  BY <1>0, <1>1, <1>2 DEF Issuing
<1>6. \A x \in Login!Rows' : Waits(x)'
  BY <1>0, <1>2, <1>5 DEF LoginInv, Waits, NoYes, NoToken, Yes, Login!Rows
<1>7. ASSUME NEW q \in Poll PROVE Knows(q)'
  <2>1. CASE q = p
    <3>1. r.at = "take" => Yes(c, r.handle)
      BY <1>1 DEF LoginInv, Waits
    <3> QED
      BY <1>0, <1>1, <1>2, <1>5, <2>1, <3>1 DEF Knows, Yes
  <2>2. CASE q # p
    BY <1>0, <1>2, <1>5, <2>2 DEF LoginInv, Knows, Yes, NoToken
  <2> QED
    BY <2>1, <2>2
<1> QED
  BY <1>0, <1>3, <1>4, <1>6, <1>7 DEF LoginInv

(* The delete hands the login to one poll.                                 *)
LEMMA TakeKeeps == ASSUME LoginInv, NEW p \in Poll, Login!Take(p) PROVE LoginInv'
<1> DEFINE c == poll[p].code
<1>0. LoginTypes /\ UNCHANGED <<tokens, cli, yes, no>> /\ poll[p].at = "take"
  BY DEF LoginInv, Login!Take
<1>1. CASE Login!StillApproved(p)
  <2> DEFINE r == [poll[p] EXCEPT !.at = "issue"]
  <2>1. /\ c \in Login!Rows /\ Login!Rows' = Login!Rows \ {c} /\ logins' \in [Login!Rows' -> Person \cup {NoOne}]
        /\ \A x \in Login!Rows' : logins'[x] = logins[x]
    BY <1>0, <1>1 DEF Login!Take, Login!Keep, Login!Rows, LoginTypes, Login!StillApproved
  <2>2. /\ poll' = [poll EXCEPT ![p] = r] /\ r.at = "issue" /\ r.code = c /\ r.handle = poll[p].handle
        /\ r \in [at : Working \cup {"idle"}, code : Code \cup {NoOne}, handle : Person \cup {NoOne}]
    BY <1>0, <1>1 DEF Login!Take, Login!Goes, LoginTypes, Working
  <2> HIDE DEF r
  <2>3. \A q \in Poll : poll'[q] = IF q = p THEN r ELSE poll[q]
    BY <1>0, <2>2 DEF LoginTypes
  <2>4. LoginTypes'
    BY <1>0, <2>1, <2>2 DEF LoginTypes
  <2>5. \A x \in Code : cli'[x] = "none" => Untouched(x)'
    BY <1>0, <2>1, <2>2, <2>3 DEF LoginInv, Untouched, NoYes, NoToken
  <2>6. \A q \in Poll : Issuing(q)' <=> Issuing(q) \/ q = p
    BY <2>2, <2>3 DEF Issuing
  <2>7. \A q \in Poll : poll'[q].code = poll[q].code /\ poll'[q].handle = poll[q].handle
    BY <2>2, <2>3
  <2> HIDE DEF c
  <2>8. \A x \in Login!Rows' : Waits(x)'
    <3> SUFFICES ASSUME NEW x \in Login!Rows' PROVE Waits(x)'
      OBVIOUS
    <3>1. x \in Login!Rows /\ x # c /\ Waits(x) /\ logins'[x] = logins[x]
      BY <2>1 DEF LoginInv
    <3> QED
      BY <1>0, <2>6, <2>7, <3>1 DEF Waits, NoYes, NoToken, Yes, c
  <2>9. \A q \in Poll : Issuing(q) => poll[q].code # c
    BY <2>1 DEF LoginInv, Waits
  <2>10. ASSUME NEW q \in Poll PROVE Knows(q)'
    <3>1. CASE q = p
      <4>1. NoToken(c) /\ Yes(c, poll[p].handle)
        BY <1>0, <2>1 DEF LoginInv, Waits, Knows, c
      <4>2. \A o \in Poll : Issuing(o)' /\ poll'[o].code = c => o = p
        BY <2>6, <2>7, <2>9
      <4> QED
        BY <1>0, <2>2, <2>3, <3>1, <4>1, <4>2 DEF Knows, Yes, NoToken
    <3>2. CASE q # p
      <4>1. Knows(q) /\ poll'[q] = poll[q] /\ poll'[p].code = c
        BY <2>2, <2>3, <3>2 DEF LoginInv
      <4>2. Issuing(q)' => Issuing(q) /\ poll[q].code # c
        BY <2>6, <2>9, <3>2
      <4> QED
        BY <1>0, <2>6, <2>7, <3>2, <4>1, <4>2 DEF Knows, Yes, NoToken
    <3> QED
      BY <3>1, <3>2
  <2> QED
    BY <1>0, <2>4, <2>5, <2>8, <2>10 DEF LoginInv
<1>2. CASE ~Login!StillApproved(p)
  <2>1. poll' = [poll EXCEPT ![p] = [poll[p] EXCEPT !.at = "expired"]] /\ UNCHANGED logins
    BY <1>2 DEF Login!Take, Login!Goes
  <2>2. [poll[p] EXCEPT !.at = "expired"] \in
          [at : Working \cup {"idle"}, code : Code \cup {NoOne}, handle : Person \cup {NoOne}]
    BY <1>0 DEF LoginTypes, Working
  <2>3. LoginTypes'
    BY <1>0, <2>1, <2>2 DEF LoginTypes, Login!Rows
  <2>4. \A q \in Poll : poll'[q] = poll[q] \/ (q = p /\ poll'[q].at = "expired" /\ poll'[q].code = poll[q].code)
    BY <1>0, <2>1 DEF LoginTypes
  <2> QED
    BY <1>0, <2>1, <2>3, <2>4, QuietKeeps
<1> QED
  BY <1>1, <1>2

(* The poll that took the login issues its only token.                     *)
LEMMA IssueKeeps == ASSUME LoginInv, NEW p \in Poll, Login!IssueToken(p) PROVE LoginInv'
<1>a. PICK n : tokens' = tokens \cup {[code |-> poll[p].code, handle |-> poll[p].handle, n |-> n]}
  BY DEF Login!IssueToken
<1> DEFINE c == poll[p].code
           new == [code |-> c, handle |-> poll[p].handle, n |-> n]
           r == [poll[p] EXCEPT !.at = "approved"]
<1>0. LoginTypes /\ UNCHANGED <<logins, cli, yes, no>> /\ poll[p].at = "issue" /\ tokens' = tokens \cup {new}
  BY <1>a DEF LoginInv, Login!IssueToken
<1>1. new = [code |-> new.code, handle |-> new.handle, n |-> new.n]
      /\ new.code = c /\ new.handle = poll[p].handle
  OBVIOUS
<1> HIDE DEF new
<1>2. /\ poll' = [poll EXCEPT ![p] = r] /\ r.at = "approved" /\ r.code = c /\ r.handle = poll[p].handle
      /\ r \in [at : Working \cup {"idle"}, code : Code \cup {NoOne}, handle : Person \cup {NoOne}]
  BY <1>0 DEF Login!IssueToken, Login!Goes, LoginTypes, Working
<1> HIDE DEF r
<1>3. \A q \in Poll : poll'[q] = IF q = p THEN r ELSE poll[q]
  BY <1>0, <1>2 DEF LoginTypes
<1>4. LoginTypes'
  BY <1>0, <1>1, <1>2 DEF LoginTypes, Login!Rows
<1>5. \A q \in Poll : Issuing(q)' <=> Issuing(q) /\ q # p
  BY <1>2, <1>3 DEF Issuing
<1>6. Knows(p) /\ Issuing(p)
  BY <1>0 DEF LoginInv, Issuing
<1>7. NoToken(c) /\ Yes(c, poll[p].handle) /\ c \in Code
  <2>1. [code |-> c, handle |-> poll[p].handle] \in [code : Code, handle : Person]
    BY <1>0, <1>6 DEF Knows, Yes, LoginTypes
  <2> QED
    BY <1>0, <1>6, <2>1 DEF Knows
<1> HIDE DEF c
<1>8. ASSUME NEW x \in Code, cli'[x] = "none" PROVE Untouched(x)'
  <2>1. Untouched(x) /\ x # c
    BY <1>0, <1>8 DEF LoginInv, Untouched, c
  <2> QED
    BY <1>0, <1>1, <1>2, <1>3, <2>1 DEF Untouched, NoYes, NoToken, Login!Rows
<1>9. ASSUME NEW x \in Login!Rows' PROVE Waits(x)'
  <2>1. x \in Login!Rows /\ Waits(x) /\ x # c
    BY <1>0, <1>6 DEF LoginInv, Waits, Login!Rows, c
  <2> QED
    BY <1>0, <1>1, <1>3, <1>5, <2>1 DEF Waits, NoYes, NoToken, Yes
<1>10. ASSUME NEW q \in Poll PROVE Knows(q)'
  <2>1. CASE q = p
    BY <1>2, <1>3, <2>1 DEF Knows, Issuing
  <2>2. CASE q # p
    <3>1. Knows(q) /\ poll'[q] = poll[q]
      BY <1>3, <2>2 DEF LoginInv
    <3>2. Issuing(q) => poll[q].code # c
      BY <1>6, <2>2 DEF Knows, c
    <3>3. Issuing(q)' => Issuing(q) /\ NoToken(poll[q].code)'
      BY <1>0, <1>1, <1>5, <3>1, <3>2 DEF Knows, NoToken
    <3>4. \A o \in Poll : Issuing(o)' => Issuing(o) /\ poll'[o] = poll[o]
      BY <1>3, <1>5
    <3> QED
      BY <1>0, <3>1, <3>3, <3>4 DEF Knows, Yes
  <2> QED
    BY <2>1, <2>2
<1>11. \A s, t \in tokens' : s.code = t.code => s = t
  BY <1>0, <1>1, <1>7 DEF LoginInv, NoToken
<1>12. \A t \in tokens' : \E y \in yes : y.code = t.code /\ t.handle \in {y.handle, NoOne}
  <2>1. \E y \in yes : y.code = new.code /\ new.handle \in {y.handle, NoOne}
    BY <1>1, <1>7 DEF Yes
  <2> QED
    BY <1>0, <2>1 DEF LoginInv
<1> QED
  BY <1>0, <1>4, <1>8, <1>9, <1>10, <1>11, <1>12 DEF LoginInv

(* A revoked token issues no other.                                        *)
LEMMA RevokeKeeps == ASSUME LoginInv, NEW t \in tokens, Login!RevokeApiToken(t) PROVE LoginInv'
<1> DEFINE After(x) == [x EXCEPT !.handle = IF x = t THEN NoOne ELSE @]
<1>0. LoginTypes /\ UNCHANGED <<logins, poll, cli, yes, no>> /\ tokens' = {After(x) : x \in tokens}
  BY DEF LoginInv, Login!RevokeApiToken
<1>1. \A x \in tokens : /\ After(x).code = x.code /\ After(x).handle \in {x.handle, NoOne}
                        /\ After(x) = [code |-> After(x).code, handle |-> After(x).handle, n |-> After(x).n]
  <2> SUFFICES ASSUME NEW x \in tokens
               PROVE  /\ After(x).code = x.code /\ After(x).handle \in {x.handle, NoOne}
                      /\ After(x) = [code |-> After(x).code, handle |-> After(x).handle, n |-> After(x).n]
    OBVIOUS
  <2>1. x = [code |-> x.code, handle |-> x.handle, n |-> x.n]
    BY <1>0 DEF LoginTypes
  <2> QED
    BY <2>1
<1> HIDE DEF After
<1>2. LoginTypes'
  BY <1>0, <1>1 DEF LoginTypes, Login!Rows
<1>3. \A c : NoToken(c) => NoToken(c)'
  BY <1>0, <1>1 DEF NoToken
<1>4. \A c \in Code : cli'[c] = "none" => Untouched(c)'
  BY <1>0, <1>3 DEF LoginInv, Untouched, NoYes, Login!Rows
<1>5. \A c \in Login!Rows' : Waits(c)'
  BY <1>0, <1>3 DEF LoginInv, Waits, Issuing, NoYes, Yes, Login!Rows
<1>6. \A p \in Poll : Knows(p)'
  BY <1>0, <1>3 DEF LoginInv, Knows, Issuing, Yes
<1>7. \A x, z \in tokens' : x.code = z.code => x = z
  BY <1>0, <1>1 DEF LoginInv
<1>8. \A x \in tokens' : \E y \in yes : y.code = x.code /\ x.handle \in {y.handle, NoOne}
  BY <1>0, <1>1 DEF LoginInv
<1> QED
  BY <1>0, <1>2, <1>4, <1>5, <1>6, <1>7, <1>8 DEF LoginInv

(* Every step keeps it.                                                    *)
LEMMA LoginStep == ASSUME PeopleAssumption PROVE LoginInv /\ [Login!Next]_(Login!vars) => LoginInv'
<1> SUFFICES ASSUME LoginInv, [Login!Next]_(Login!vars) PROVE LoginInv'
  OBVIOUS
<1> QED
  BY QuietStep, StartKeeps, ApproveKeeps, DenyKeeps, PollKeeps, TakeKeeps, IssueKeeps, RevokeKeeps DEF Login!Next

(* So tokens, approvals and denials agree.                                 *)
LEMMA LoginGives == LoginInv => Login!OneTokenPerLogin
<1> SUFFICES ASSUME LoginInv PROVE Login!OneTokenPerLogin
  OBVIOUS
<1>1. \A t \in tokens : t.code \notin no
  BY DEF LoginInv
<1> QED
  BY <1>1 DEF LoginInv, Login!OneTokenPerLogin

(* One approval gives one token, for the person who approved, and a denied *)
(* login none (server/lib/devices.ts), however polls overlap and repeat.   *)
THEOREM OneToken == ASSUME PeopleAssumption PROVE Login!Spec => []Login!OneTokenPerLogin
  BY LoginStart, LoginStep, LoginGives, PTL DEF Login!Spec

-----------------------------------------------------------------------------
(***************************************************************************)
(* An item's request (RequestVersions).  The versions that have numbers    *)
(* are the first ones, in order; all of them are frozen once the item is   *)
(* past being requested.                                                   *)
(***************************************************************************)

NoteType ==
  [version : Nat, text : Text, frozen : BOOLEAN, via : {"none", "triage", "skip"}, triaged : BOOLEAN]

ItemType == [status : Request!Status, archived : BOOLEAN, writes : Nat]

(* The first k versions have their numbers, the others none yet.           *)
Numbered(notes, k) ==
  k \in 0..Len(notes) /\ \A n \in DOMAIN notes : notes[n].version = IF n <= k THEN n ELSE 0
AllFrozen(notes) == \A n \in DOMAIN notes : notes[n].version > 0 => notes[n].frozen

RequestInv ==
  /\ item \in ItemType
  /\ request \in Seq(NoteType)
  /\ \E k \in Nat : Numbered(request, k)
  /\ item.status # "requested" => AllFrozen(request)

(* The request's notes, one by one.                                        *)
LEMMA NotesAre ==
  ASSUME NEW notes \in Seq(NoteType)
  PROVE  /\ Len(notes) \in Nat /\ DOMAIN notes = 1..Len(notes)
         /\ \A n \in DOMAIN notes : notes[n] \in NoteType
  BY LenProperties, ElementOfSeq

(* A note with one part changed.                                           *)
LEMMA FrozenIs ==
  ASSUME NEW entry \in NoteType, NEW frozen \in BOOLEAN
  PROVE  LET set == [entry EXCEPT !.frozen = frozen]
         IN  set \in NoteType /\ set.version = entry.version /\ (set.frozen <=> frozen)
  BY DEF NoteType

LEMMA TriagedIs ==
  ASSUME NEW entry \in NoteType, NEW triaged \in BOOLEAN
  PROVE  LET set == [entry EXCEPT !.triaged = triaged]
         IN  set \in NoteType /\ set.version = entry.version /\ (set.frozen <=> entry.frozen)
  BY DEF NoteType

(* An item, and an item that is archived.                                  *)
LEMMA ItemIs ==
  ASSUME NEW status \in Request!Status, NEW archived \in BOOLEAN, NEW writes \in Nat
  PROVE  LET it == [status |-> status, archived |-> archived, writes |-> writes]
         IN  it \in ItemType /\ it.status = status
  BY DEF ItemType

LEMMA ItemFlagged ==
  ASSUME NEW it \in ItemType
  PROVE  LET flagged == [it EXCEPT !.archived = TRUE, !.writes = @ + 1]
         IN  flagged \in ItemType /\ flagged.status = it.status
<1> DEFINE written == [it EXCEPT !.writes = @ + 1]
           flagged == [it EXCEPT !.archived = TRUE, !.writes = @ + 1]
<1>1. written \in ItemType /\ written.status = it.status
  BY DEF ItemType
<1>2. flagged = [written EXCEPT !.archived = TRUE]
  BY DEF ItemType
<1> HIDE DEF written, flagged
<1>3. flagged \in ItemType /\ flagged.status = it.status
  BY <1>1, <1>2 DEF ItemType
<1> QED
  BY <1>3 DEF flagged

(* One note is rewritten.                                                  *)
LEMMA NoteWritten ==
  ASSUME NEW notes \in Seq(NoteType), NEW n \in DOMAIN notes, NEW entry \in NoteType
  PROVE  LET written == [notes EXCEPT ![n] = entry]
         IN  /\ written \in Seq(NoteType) /\ DOMAIN written = DOMAIN notes /\ Len(written) = Len(notes)
             /\ written[n] = entry /\ \A i \in DOMAIN notes : i # n => written[i] = notes[i]
  BY NotesAre, ExceptSeq

(* What a change of the status does to versions that all have numbers.     *)
LEMMA LifecycleKeeps ==
  ASSUME NEW notes \in Seq(NoteType), NEW from, NEW to,
         \A n \in DOMAIN notes : notes[n].version = n,
         from # "requested" => AllFrozen(notes)
  PROVE  LET after == Request!Lifecycle(notes, from, to)
         IN  /\ after \in Seq(NoteType)
             /\ Numbered(after, Len(after))
             /\ to # "requested" => AllFrozen(after)
<1> DEFINE after == Request!Lifecycle(notes, from, to)
           last  == Len(notes)
<1>0. last \in Nat /\ DOMAIN notes = 1..last /\ \A n \in DOMAIN notes : notes[n] \in NoteType
  BY NotesAre
<1>1. CASE notes = <<>>
  BY <1>0, <1>1 DEF Request!Lifecycle, Numbered, AllFrozen
<1>2. CASE notes # <<>> /\ from = "requested" /\ to # "requested"
  <2> DEFINE entry(i) == IF i \in Request!Freezes(notes)
                        THEN [notes[i] EXCEPT !.frozen = TRUE,
                                              !.via = IF to = "in-triage" THEN "triage" ELSE "skip"]
                        ELSE notes[i]
  <2>1. after = [i \in 1..last |-> entry(i)]
    BY <1>0, <1>2 DEF Request!Lifecycle
  <2>2. \A i \in 1..last : entry(i) \in NoteType /\ entry(i).version = i /\ entry(i).frozen
    <3> SUFFICES ASSUME NEW i \in 1..last
                 PROVE  entry(i) \in NoteType /\ entry(i).version = i /\ entry(i).frozen
      OBVIOUS
    <3>1. PICK m \in NoteType : m = notes[i]
      BY <1>0
    <3>2. CASE m.frozen
      <4>1. i \notin Request!Freezes(notes) /\ entry(i) = m
        BY <3>1, <3>2 DEF Request!Freezes
      <4> QED
        BY <1>0, <3>1, <3>2, <4>1
    <3>3. CASE ~m.frozen
      <4>1. i \in Request!Freezes(notes)
        BY <1>0, <3>1, <3>3 DEF Request!Freezes
      <4>2. entry(i) = [m EXCEPT !.frozen = TRUE, !.via = IF to = "in-triage" THEN "triage" ELSE "skip"]
        BY <3>1, <4>1
      <4> HIDE DEF entry
      <4> QED
        BY <1>0, <3>1, <4>2 DEF NoteType
    <3> QED
      BY <3>2, <3>3
  <2> HIDE DEF entry
  <2>3. after \in Seq(NoteType) /\ Len(after) = last /\ DOMAIN after = 1..last
    BY <1>0, <2>1, <2>2, SeqDef
  <2> HIDE DEF after
  <2> QED
    BY <1>0, <2>1, <2>2, <2>3 DEF Numbered, AllFrozen, after
<1>3. CASE notes # <<>> /\ ~(from = "requested" /\ to # "requested")
           /\ to \in Request!PAST_TRIAGE /\ notes[last].frozen /\ notes[last].via = "triage"
  <2>1. last \in DOMAIN notes
    BY <1>0, <1>3, EmptySeq
  <2>2. PICK m \in NoteType : m = notes[last]
    BY <1>0, <2>1
  <2>3. after = [notes EXCEPT ![last] = [m EXCEPT !.triaged = TRUE]]
    BY <1>3, <2>2 DEF Request!Lifecycle
  <2> DEFINE entry == [m EXCEPT !.triaged = TRUE]
  <2>4. entry \in NoteType /\ entry.version = m.version /\ entry.frozen = m.frozen
    BY DEF NoteType
  <2> HIDE DEF entry, after
  <2>5. /\ after \in Seq(NoteType) /\ DOMAIN after = 1..last /\ Len(after) = last
        /\ after[last] = entry /\ \A i \in 1..last : i # last => after[i] = notes[i]
    BY <1>0, <2>1, <2>3, <2>4, NoteWritten DEF entry
  <2>6. \A i \in 1..last : after[i].version = i /\ (after[i].frozen <=> notes[i].frozen)
    BY <1>0, <2>1, <2>2, <2>4, <2>5
  <2>10. \A i \in 1..last : after[i].version = i
    BY <2>6
  <2>7. to # "requested" => from # "requested"
    BY <1>3
  <2>8. Numbered(after, last)
    <3>1. last \in Nat /\ DOMAIN after = 1..last /\ Len(after) = last
      BY <1>0, <2>5
    <3> HIDE DEF last
    <3> QED
      BY <2>10, <3>1 DEF Numbered
  <2>9. AllFrozen(notes) => AllFrozen(after)
    BY <1>0, <2>5, <2>6 DEF AllFrozen
  <2> QED
    BY <2>5, <2>7, <2>8, <2>9 DEF after
<1>4. CASE notes # <<>> /\ ~(from = "requested" /\ to # "requested")
           /\ ~(to \in Request!PAST_TRIAGE /\ notes[last].frozen /\ notes[last].via = "triage")
  <2>1. after = notes
    BY <1>4 DEF Request!Lifecycle
  <2>2. to # "requested" => from # "requested"
    BY <1>4
  <2> QED
    BY <1>0, <2>1, <2>2 DEF Numbered, AllFrozen
<1> QED
  BY <1>1, <1>2, <1>3, <1>4

(* Once all the notes have numbers, they are numbered in order.            *)
LEMMA ServedIs ==
  ASSUME RequestInv, Request!Served
  PROVE  \A n \in DOMAIN request : request[n].version = n
<1>1. PICK k \in Nat : Numbered(request, k)
  BY DEF RequestInv
<1> QED
  BY <1>1, NotesAre DEF RequestInv, Request!Served, Request!Versions, Numbered

(* A request from before versions were counted.                            *)
LEMMA RequestStart == Request!Init => RequestInv
<1> SUFFICES ASSUME Request!Init PROVE RequestInv
  OBVIOUS
<1>1. PICK t \in Text, n \in 0..2 : request = [i \in 1..n |-> Request!Note(0, t)]
  BY DEF Request!Init
<1>2. Request!Note(0, t) \in NoteType /\ Request!Note(0, t).version = 0
  BY DEF Request!Note, NoteType
<1>3. request \in Seq(NoteType) /\ Len(request) = n /\ DOMAIN request = 1..n
  BY <1>1, <1>2, SeqDef
<1>4. \A i \in DOMAIN request : request[i].version = 0
  BY <1>1, <1>2
<1>5. Numbered(request, 0)
  BY <1>3, <1>4 DEF Numbered
<1>6. item \in ItemType
  <2>1. item.status \in Request!Status /\ item.archived = FALSE /\ item.writes = 0
    BY DEF Request!Init
  <2>2. PICK status \in Request!Status : item = [status |-> status, archived |-> FALSE, writes |-> 0]
    BY <2>1 DEF Request!Init
  <2> QED
    BY <2>2, ItemIs
<1> QED
  BY <1>3, <1>4, <1>5, <1>6 DEF RequestInv, AllFrozen

(* A note from before versions were counted gets the next number.          *)
LEMMA BackfillKeeps == ASSUME RequestInv, Request!BackfillRequestVersions PROVE RequestInv'
<1>1. PICK k \in Nat : Numbered(request, k)
  BY DEF RequestInv
<1> DEFINE last == Len(request)
           n == CHOOSE i \in DOMAIN request \ Request!Versions : \A j \in DOMAIN request \ Request!Versions : i <= j
           counted == IF Request!Versions = {} THEN 0 ELSE CHOOSE c \in 1..Len(request) : Request!Versions = 1..c
           triaged == item.status \in Request!PAST_TRIAGE
           frozen == item.status # "requested"
           via == IF item.status = "requested" THEN "none"
                  ELSE IF triaged \/ item.status = "in-triage" THEN "triage" ELSE "skip"
<1>2. last \in Nat /\ DOMAIN request = 1..last /\ \A i \in DOMAIN request : request[i] \in NoteType
  BY NotesAre DEF RequestInv
<1>3. Request!Versions = 1..k /\ k < last
  <2> HIDE DEF last
  <2>1. k \in 0..last /\ \A i \in 1..last : request[i].version = IF i <= k THEN i ELSE 0
    BY <1>1, <1>2 DEF Numbered, last
  <2>2. \A i \in 1..last : request[i].version > 0 <=> i <= k
    BY <1>2, <2>1
  <2>3. Request!Versions = {i \in 1..last : i <= k}
    BY <1>2, <2>2 DEF Request!Versions
  <2>4. Request!Versions = 1..k
    BY <1>2, <2>1, <2>3
  <2>5. Request!Versions # 1..last
    BY <1>2 DEF Request!BackfillRequestVersions, Request!Served
  <2> QED
    BY <1>2, <2>1, <2>4, <2>5
<1>4. n = k + 1
  <2>1. k + 1 \in DOMAIN request \ Request!Versions /\ \A j \in DOMAIN request \ Request!Versions : k + 1 <= j
    BY <1>2, <1>3
  <2>2. \A i \in DOMAIN request \ Request!Versions :
          (\A j \in DOMAIN request \ Request!Versions : i <= j) => i = k + 1
    BY <1>2, <2>1
  <2> QED
    BY <2>1, <2>2
<1>5. counted = k
  <2>1. CASE k = 0
    BY <1>3, <2>1
  <2>2. CASE k # 0
    <3>1. k \in 1..k /\ k \in 1..last /\ Request!Versions # {}
      <4>1. k \in Nat /\ last \in Nat /\ 1 <= k /\ k <= last
        BY <1>2, <1>3, <2>2
      <4>2. k \in 1..k /\ k \in 1..last
        BY <4>1
      <4> QED
        BY <1>3, <4>2
    <3>2. \A c \in 1..last : Request!Versions = 1..c => c = k
      BY <1>2, <1>3, <3>1
    <3> QED
      BY <1>3, <3>1, <3>2
  <2> QED
    BY <2>1, <2>2
<1>6. PICK m \in NoteType : m = request[k + 1]
  BY <1>2, <1>3
<1> DEFINE entry == [m EXCEPT !.version = k + 1, !.frozen = frozen, !.via = via, !.triaged = triaged]
<1>7. request' = [request EXCEPT ![k + 1] = entry] /\ UNCHANGED item
  <2> HIDE DEF n, counted, triaged
  <2>1. request' = [request EXCEPT ![n] = [@ EXCEPT !.version = counted + 1, !.frozen = frozen,
                                                    !.via = via, !.triaged = triaged]]
    BY DEF Request!BackfillRequestVersions, n, counted, triaged
  <2> HIDE DEF via, frozen
  <2> QED
    BY <1>4, <1>5, <1>6, <2>1 DEF Request!BackfillRequestVersions
<1> HIDE DEF n, counted
<1>8. entry \in NoteType /\ entry.version = k + 1 /\ (item.status # "requested" => entry.frozen)
  <2>1. via \in {"none", "triage", "skip"} /\ triaged \in BOOLEAN /\ frozen \in BOOLEAN
    OBVIOUS
  <2>2. entry \in NoteType /\ entry.version = k + 1 /\ (entry.frozen <=> frozen)
    <3> HIDE DEF via, triaged, frozen
    <3> DEFINE half == [m EXCEPT !.version = k + 1, !.via = via]
               most == [half EXCEPT !.frozen = frozen]
    <3>1. half \in NoteType /\ half.version = k + 1
      <4>1. k + 1 \in Nat /\ via \in {"none", "triage", "skip"}
        BY <1>2, <1>3, <2>1
      <4> QED
        BY <4>1 DEF NoteType
    <3>2. entry = [most EXCEPT !.triaged = triaged]
      BY DEF NoteType
    <3> HIDE DEF half, entry
    <3>3. most \in NoteType /\ most.version = k + 1 /\ (most.frozen <=> frozen)
      BY <2>1, <3>1, FrozenIs
    <3> HIDE DEF most
    <3> QED
      BY <2>1, <3>2, <3>3, TriagedIs
  <2> QED
    BY <2>2
<1> HIDE DEF entry
<1>9. /\ request' \in Seq(NoteType) /\ DOMAIN request' = 1..last /\ Len(request') = last
      /\ request'[k + 1] = entry /\ \A i \in 1..last : i # k + 1 => request'[i] = request[i]
  BY <1>2, <1>3, <1>7, <1>8, NoteWritten DEF RequestInv
<1>10. Numbered(request', k + 1)
  BY <1>1, <1>2, <1>3, <1>8, <1>9 DEF Numbered
<1>11. item.status # "requested" => AllFrozen(request')
  BY <1>2, <1>3, <1>8, <1>9 DEF RequestInv, AllFrozen
<1> QED
  BY <1>7, <1>9, <1>10, <1>11 DEF RequestInv

(* A change of status freezes what has been asked for.                     *)
LEMMA SetStatusKeeps == ASSUME RequestInv, Request!SetStatus PROVE RequestInv'
<1>1. PICK to \in Request!Status : /\ item' \in ItemType
                           /\ item'.status = to
                           /\ request' = Request!Lifecycle(request, item.status, to)
  <2>1. PICK to \in Request!Status :
          LET reopens == item.archived /\ to \notin Request!TERMINAL
          IN  /\ item' = [status |-> to, archived |-> item.archived /\ ~reopens,
                          writes |-> IF reopens THEN item.writes + 1 ELSE item.writes]
              /\ request' = Request!Lifecycle(request, item.status, to)
    BY DEF Request!SetStatus
  <2> DEFINE reopens == item.archived /\ to \notin Request!TERMINAL
             archived == item.archived /\ ~reopens
             writes == IF reopens THEN item.writes + 1 ELSE item.writes
  <2>2. item' = [status |-> to, archived |-> archived, writes |-> writes]
    BY <2>1
  <2>3. archived \in BOOLEAN /\ writes \in Nat
    <3>1. item.writes \in Nat
      BY DEF RequestInv, ItemType
    <3> QED
      BY <3>1
  <2> HIDE DEF archived, writes
  <2>4. item' \in ItemType /\ item'.status = to
    BY <2>2, <2>3, ItemIs
  <2> QED
    BY <2>1, <2>4
<1>2. Request!Served
  BY DEF Request!SetStatus
<1>3. /\ request' \in Seq(NoteType) /\ Numbered(request', Len(request'))
      /\ to # "requested" => AllFrozen(request')
  BY <1>1, <1>2, ServedIs, LifecycleKeeps DEF RequestInv
<1>4. Len(request') \in Nat
  BY <1>3, NotesAre
<1> QED
  BY <1>1, <1>3, <1>4 DEF RequestInv

(* A version posted late is frozen at once.                                *)
LEMMA PostRequestKeeps == ASSUME RequestInv, Request!PostRequest PROVE RequestInv'
<1> DEFINE late == item.status # "requested" /\ request = <<>>
           last == Len(request)
<1>1. PICK t \in Text :
        LET entry == [Request!Note(Request!NextVersion, t) EXCEPT
                        !.frozen = late, !.via = IF late THEN "skip" ELSE "none"]
            with == Append(request, entry)
        IN  request' = IF Request!Bounces THEN Request!Lifecycle(with, item.status, "requested") ELSE with
  BY DEF Request!PostRequest
<1>2. /\ Request!Served /\ item' = IF Request!Bounces THEN [item EXCEPT !.status = "requested"] ELSE item
  BY DEF Request!PostRequest
<1>3. /\ request \in Seq(NoteType) /\ last \in Nat /\ DOMAIN request = 1..last
      /\ \A i \in DOMAIN request : request[i] \in NoteType
      /\ \A i \in DOMAIN request : request[i].version = i
  BY <1>2, NotesAre, ServedIs DEF RequestInv
<1>4. Request!NextVersion = last + 1
  <2>1. request # <<>> => last \in DOMAIN request
    BY <1>3, EmptySeq
  <2> QED
    BY <1>3, <2>1, EmptySeq DEF Request!NextVersion
<1> DEFINE entry == [Request!Note(last + 1, t) EXCEPT !.frozen = late, !.via = IF late THEN "skip" ELSE "none"]
           with == Append(request, entry)
<1>5. entry \in NoteType /\ entry.version = last + 1 /\ (late => entry.frozen)
  <2> DEFINE half == [Request!Note(last + 1, t) EXCEPT !.via = IF late THEN "skip" ELSE "none"]
  <2>1. half \in NoteType /\ half.version = last + 1
    <3>1. Request!Note(last + 1, t) \in NoteType /\ Request!Note(last + 1, t).version = last + 1
      BY <1>3 DEF Request!Note, NoteType
    <3>2. PICK via \in {"none", "skip"} : half = [Request!Note(last + 1, t) EXCEPT !.via = via]
      OBVIOUS
    <3> HIDE DEF half
    <3> QED
      BY <3>1, <3>2 DEF NoteType
  <2>2. entry = [half EXCEPT !.frozen = late]
    BY DEF Request!Note
  <2>3. late \in BOOLEAN
    OBVIOUS
  <2> HIDE DEF half, late, entry
  <2> QED
    BY <2>1, <2>2, <2>3, FrozenIs
<1>6. request' = IF Request!Bounces THEN Request!Lifecycle(with, item.status, "requested") ELSE with
  BY <1>1, <1>4
<1> HIDE DEF entry, late
<1>7. /\ with \in Seq(NoteType) /\ Len(with) = last + 1 /\ DOMAIN with = 1..(last + 1)
      /\ with[last + 1] = entry /\ \A i \in 1..last : with[i] = request[i]
  BY <1>3, <1>5, AppendProperties, LenProperties
<1> HIDE DEF with
<1>8. \A i \in DOMAIN with : with[i].version = i
  BY <1>3, <1>5, <1>7
<1>9. CASE Request!Bounces
  <2>1. item'.status = "requested"
    BY <1>2, <1>9 DEF RequestInv
  <2>2. late = FALSE /\ request # <<>>
    BY <1>9 DEF Request!Bounces, late
  <2>3. request' = with
    <3>1. with # <<>>
      BY <1>3, <1>7, EmptySeq
    <3> QED
      BY <1>6, <1>9, <3>1 DEF Request!Lifecycle, Request!PAST_TRIAGE
  <2>4. item' \in ItemType
    BY <1>2, <1>9 DEF RequestInv, ItemType, Request!Status
  <2>5. Numbered(with, last + 1)
    BY <1>3, <1>7, <1>8 DEF Numbered
  <2> QED
    BY <1>3, <1>7, <2>1, <2>3, <2>4, <2>5 DEF RequestInv
<1>10. CASE ~Request!Bounces
  <2>1. item' = item /\ request' = with
    BY <1>2, <1>6, <1>10
  <2>2. item.status # "requested" => late /\ last = 0
    BY <1>3, <1>10, EmptySeq DEF Request!Bounces, late
  <2>3. item.status # "requested" => AllFrozen(with)
    BY <1>5, <1>7, <2>2 DEF AllFrozen
  <2>4. Numbered(with, last + 1)
    BY <1>3, <1>7, <1>8 DEF Numbered
  <2> QED
    BY <1>3, <1>7, <2>1, <2>3, <2>4 DEF RequestInv
<1> QED
  BY <1>9, <1>10

(* A frozen text is not edited.                                            *)
LEMMA EditRequestKeeps == ASSUME RequestInv, Request!EditRequest PROVE RequestInv'
<1>1. PICK n \in DOMAIN request, t \in Text : request' = [request EXCEPT ![n].text = t]
  BY DEF Request!EditRequest
<1>2. UNCHANGED item
  BY DEF Request!EditRequest
<1>3. PICK m \in NoteType : m = request[n]
  BY NotesAre DEF RequestInv
<1> DEFINE entry == [m EXCEPT !.text = t]
<1>4. entry \in NoteType /\ entry.version = m.version /\ entry.frozen = m.frozen
  BY DEF NoteType
<1>5. request' = [request EXCEPT ![n] = entry]
  BY <1>1, <1>3
<1> HIDE DEF entry
<1>6. /\ request' \in Seq(NoteType) /\ DOMAIN request' = DOMAIN request /\ Len(request') = Len(request)
      /\ request'[n] = entry /\ \A i \in DOMAIN request : i # n => request'[i] = request[i]
  BY <1>4, <1>5, NoteWritten DEF RequestInv
<1>7. \A i \in DOMAIN request : request'[i].version = request[i].version
                                /\ (request'[i].frozen <=> request[i].frozen)
  BY <1>3, <1>4, <1>6
<1> QED
  BY <1>2, <1>6, <1>7 DEF RequestInv, Numbered, AllFrozen

(* Every step keeps it.                                                    *)
LEMMA RequestStep == RequestInv /\ [Request!Next]_(Request!vars) => RequestInv'
<1> SUFFICES ASSUME RequestInv, [Request!Next]_(Request!vars) PROVE RequestInv'
  OBVIOUS
<1>1. CASE UNCHANGED <<item, request>>
  BY <1>1 DEF RequestInv, Numbered, AllFrozen
<1>2. CASE Request!Archive \/ Request!ClearShipped
  <2>1. item' \in {item, [item EXCEPT !.archived = TRUE, !.writes = @ + 1]} /\ UNCHANGED request
    BY <1>2 DEF Request!Archive, Request!ClearShipped
  <2>2. item' \in ItemType /\ item'.status = item.status
    BY <2>1, ItemFlagged DEF RequestInv
  <2> QED
    BY <2>1, <2>2 DEF RequestInv, Numbered, AllFrozen
<1> QED
  BY <1>1, <1>2, BackfillKeeps, SetStatusKeeps, PostRequestKeeps, EditRequestKeeps
  DEF Request!Next, Request!vars, Request!ReadShipped

(* So the work that is done is on frozen texts.                            *)
LEMMA RequestGives == RequestInv => Request!WorkIsOnAFrozenRequest
<1> SUFFICES ASSUME RequestInv, Request!Served PROVE Request!WorkIsOnAFrozenRequest
  BY DEF Request!WorkIsOnAFrozenRequest
<1>1. \A n \in DOMAIN request : request[n].version = n /\ n > 0
  BY ServedIs, NotesAre DEF RequestInv
<1> QED
  BY <1>1 DEF Request!WorkIsOnAFrozenRequest, RequestInv, AllFrozen

(* Who works on a request works on texts that no longer change             *)
(* (server/lib/apply.ts), however its status moves meanwhile.              *)
THEOREM WorkIsFrozen == Request!Spec => []Request!WorkIsOnAFrozenRequest
  BY RequestStart, RequestStep, RequestGives, PTL DEF Request!Spec

-----------------------------------------------------------------------------
(***************************************************************************)
(* Who does the Jira work (JiraHandover).  A move that the bridge has      *)
(* sent, or still may send, is one the plugin has left alone, and must go  *)
(* on leaving alone whatever it has read by now.                           *)
(***************************************************************************)

BridgeType == [writes : BOOLEAN, triggers : Rules \cup {None}, poll : BOOLEAN, synced : BOOLEAN]
TransitionType == [on : BOOLEAN, rules : Rules \cup {None}, live : BOOLEAN]
IssueType == [on : BOOLEAN, live : BOOLEAN]
MoveType ==
  [row : {"none", "waiting", "dropped", "claimed", "sent"},
   event : {"queued", "claimed", "read", "ready", "done"},
   finished : BOOLEAN, skip : BOOLEAN, acts : BOOLEAN, held : BOOLEAN, exposed : BOOLEAN,
   by : SUBSET {"bridge", "plugin"}]

(* The bridge acts on no project that a plugin acts on; it begins no pass  *)
(* there, either, whether or not it ever made one.                         *)
Apart ==
  /\ bridge \in BridgeType /\ transition \in TransitionType /\ issue \in IssueType
  /\ ~(Handover!Sends(bridge) /\ Handover!TransitionActs(transition))
  /\ ~(bridge.poll /\ Handover!IssueActs(issue))

(* The plugin has not moved the ticket for m, and will not.                *)
LeftAlone(m) ==
  /\ m.event = "queued" => m.finished \/ ~Handover!TransitionActs(transition)
  /\ m.event = "claimed" => m.skip \/ ~Handover!TransitionActs(transition)
  /\ m.event \in {"read", "ready"} => m.skip \/ ~m.acts
  /\ "plugin" \notin m.by

(* So it leaves alone what the bridge sends.                               *)
SentOnce(m) ==
  /\ m \in MoveType
  /\ m.row \in {"waiting", "claimed", "sent"} /\ ~m.exposed => LeftAlone(m)
  /\ "bridge" \in m.by => m.row = "sent"

HandoverInv ==
  /\ Apart
  /\ moves \in Seq(MoveType)
  /\ \A k \in DOMAIN moves : SentOnce(moves[k])

-----------------------------------------------------------------------------
(* Settings that are written together.                                     *)

(* Settings written together are kept apart: what a pair of plugins is not *)
(* checked for must not begin to act.                                      *)
LEMMA SettleApart ==
  ASSUME Apart, NEW b \in BridgeType, NEW t \in TransitionType, NEW i \in IssueType, NEW checked,
         Handover!Settle(b, t, i, checked),
         \/ "transition" \in checked
         \/ (Handover!Sends(b) /\ Handover!TransitionActs(t) =>
               Handover!Sends(bridge) /\ Handover!TransitionActs(transition)),
         "issue" \in checked \/ (b.poll /\ Handover!IssueActs(i) => bridge.poll /\ Handover!IssueActs(issue))
  PROVE  Apart' /\ transition' = t /\ issue' = i
<1>1. transition' = t /\ issue' = i
  BY DEF Handover!Settle
<1>2. CASE "issue" \in checked /\ Handover!IssueActs(i)
  <2>1. bridge' = [b EXCEPT !.poll = FALSE]
    BY <1>2 DEF Handover!Settle, Handover!StopsPolling
  <2>2. bridge' \in BridgeType /\ ~bridge'.poll /\ bridge'.triggers = b.triggers /\ (bridge'.writes <=> b.writes)
    BY <2>1 DEF BridgeType
  <2>3. Handover!Sends(bridge') <=> Handover!Sends(b)
    BY <2>2 DEF Handover!Sends
  <2> QED
    BY <1>1, <2>2, <2>3 DEF Apart, Handover!Settle
<1>3. CASE ~("issue" \in checked /\ Handover!IssueActs(i))
  <2>1. bridge' = b
    BY <1>3 DEF Handover!Settle, Handover!StopsPolling
  <2> QED
    BY <1>1, <1>3, <2>1 DEF Apart, Handover!Settle
<1> QED
  BY <1>2, <1>3

(* Settings with one of their fields changed.                              *)
LEMMA BridgeIs ==
  ASSUME NEW b \in BridgeType, NEW writes \in BOOLEAN, NEW triggers \in Rules \cup {None}
  PROVE  LET set == [b EXCEPT !.writes = writes, !.triggers = triggers]
         IN  set \in BridgeType /\ (set.poll <=> b.poll) /\ (set.writes <=> writes) /\ set.triggers = triggers
  BY DEF BridgeType

(* Settings with one of their fields changed.                              *)
LEMMA PollingIs ==
  ASSUME NEW b \in BridgeType, NEW polls \in BOOLEAN
  PROVE  LET set == [b EXCEPT !.poll = polls]
         IN  set \in BridgeType /\ (set.poll <=> polls) /\ (Handover!Sends(set) <=> Handover!Sends(b))
  BY DEF BridgeType, Handover!Sends

LEMMA TransitionOn ==
  ASSUME NEW t \in TransitionType, NEW on \in BOOLEAN
  PROVE  LET set == [t EXCEPT !.on = on]
         IN  set \in TransitionType /\ (~on => ~Handover!TransitionActs(set))
  BY DEF TransitionType, Handover!TransitionActs

LEMMA TransitionIs ==
  ASSUME NEW t \in TransitionType, NEW on \in BOOLEAN, NEW rules \in Rules \cup {None}, NEW sends \in BOOLEAN
  PROVE  /\ [t EXCEPT !.rules = rules, !.live = sends] \in TransitionType
         /\ [on |-> on, rules |-> rules, live |-> sends] \in TransitionType
  BY DEF TransitionType

LEMMA IssueOn ==
  ASSUME NEW i \in IssueType, NEW on \in BOOLEAN
  PROVE  LET set == [i EXCEPT !.on = on]
         IN  set \in IssueType /\ (~on => ~Handover!IssueActs(set))
  BY DEF IssueType, Handover!IssueActs

LEMMA IssueIs ==
  ASSUME NEW i \in IssueType, NEW on \in BOOLEAN, NEW sends \in BOOLEAN
  PROVE  /\ [i EXCEPT !.live = sends] \in IssueType
         /\ [on |-> on, live |-> sends] \in IssueType
  BY DEF IssueType

-----------------------------------------------------------------------------
(* A move of an item.                                                      *)

(* A plugin that does not begin to act does nothing new about a move.      *)
LEMMA StillOnce ==
  ASSUME NEW m, SentOnce(m), Handover!TransitionActs(transition)' => Handover!TransitionActs(transition)
  PROVE  SentOnce(m)'
  BY DEF SentOnce, LeftAlone

(* Nothing is promised of a move the plugin was switched on by hand for.   *)
LEMMA ExposedOnce ==
  ASSUME NEW m, SentOnce(m)
  PROVE  SentOnce([m EXCEPT !.exposed = TRUE])'
  BY DEF SentOnce, MoveType

(* A handover closes the rows no flush has claimed.                        *)
LEMMA ClosedOnce ==
  ASSUME NEW m, SentOnce(m)
  PROVE  SentOnce(Handover!CloseOutbox(m)) /\ Handover!CloseOutbox(m).row # "waiting"
  BY DEF SentOnce, LeftAlone, MoveType, Handover!CloseOutbox

(* A handover to the plugin finishes what is queued for it.                *)
LEMMA SkippedOnce ==
  ASSUME NEW m, SentOnce(m)
  PROVE  SentOnce(Handover!SkipQueued(m))'
<1>1. CASE m.event = "done"
  BY <1>1 DEF SentOnce, LeftAlone, MoveType, Handover!SkipQueued
<1>2. CASE m.event = "queued"
  BY <1>2 DEF SentOnce, LeftAlone, MoveType, Handover!SkipQueued
<1>3. CASE m.event \notin {"queued", "done"}
  BY <1>3 DEF SentOnce, LeftAlone, MoveType, Handover!SkipQueued
<1> QED
  BY <1>1, <1>2, <1>3

-----------------------------------------------------------------------------
(* The actions.                                                            *)

(* The moves, one by one.                                                  *)
LEMMA MovesAre ==
  ASSUME NEW ms \in Seq(MoveType)
  PROVE  /\ Len(ms) \in Nat /\ DOMAIN ms = 1..Len(ms)
         /\ \A k \in DOMAIN ms : ms[k] \in MoveType
  BY LenProperties, ElementOfSeq

(* Moves rewritten one by one.                                             *)
LEMMA Rewritten ==
  ASSUME HandoverInv, Apart',
         DOMAIN moves' = DOMAIN moves, moves' = [k \in DOMAIN moves |-> moves'[k]],
         \A k \in DOMAIN moves : SentOnce(moves[k])'
  PROVE  HandoverInv'
<1>1. Len(moves) \in Nat /\ DOMAIN moves = 1..Len(moves)
  BY MovesAre DEF HandoverInv
<1>2. \A k \in DOMAIN moves : moves'[k] \in MoveType
  BY DEF SentOnce
<1>3. moves' \in Seq(MoveType)
  BY <1>1, <1>2, SeqDef
<1> QED
  BY <1>3 DEF HandoverInv

(* One move is rewritten.                                                  *)
LEMMA OneRewritten ==
  ASSUME HandoverInv, NEW k \in DOMAIN moves, NEW m, SentOnce(m), Handover!Change(k, m), UNCHANGED Handover!Settings
  PROVE  HandoverInv'
<1>1. moves' \in Seq(MoveType) /\ DOMAIN moves' = DOMAIN moves
      /\ \A j \in DOMAIN moves : moves'[j] = IF j = k THEN m ELSE moves[j]
  BY ExceptSeq DEF HandoverInv, SentOnce, Handover!Change
<1>2. Apart'
  BY DEF HandoverInv, Apart, Handover!Settings
<1>3. ASSUME NEW x, SentOnce(x) PROVE SentOnce(x)'
  BY <1>3, StillOnce DEF Handover!Settings
<1> QED
  BY <1>1, <1>2, <1>3 DEF HandoverInv

(* Neither acts at first.                                                  *)
LEMMA HandoverStart == Handover!Init => HandoverInv
<1> SUFFICES ASSUME Handover!Init PROVE HandoverInv
  OBVIOUS
<1>1. Apart
  BY DEF Handover!Init, Apart, BridgeType, TransitionType, IssueType,
         Handover!Sends, Handover!TransitionActs, Handover!IssueActs
<1>2. moves \in Seq(MoveType) /\ DOMAIN moves = {}
  BY EmptySeq DEF Handover!Init
<1> QED
  BY <1>1, <1>2 DEF HandoverInv

(* A plugin that begins to act by hand finds what is still queued.         *)
LEMMA ByHandKeeps == ASSUME HandoverInv, Apart', Handover!ByHand PROVE HandoverInv'
<1> DEFINE begins(k) == /\ ~Handover!TransitionActs(transition) /\ Handover!TransitionActs(transition')
                        /\ moves[k].event # "done"
<1>1. moves' = [k \in DOMAIN moves |-> IF begins(k) THEN [moves[k] EXCEPT !.exposed = TRUE] ELSE moves[k]]
  BY DEF Handover!ByHand
<1>2. ASSUME NEW k \in DOMAIN moves PROVE SentOnce(moves[k])'
  <2>1. PICK m : m = moves[k]
    OBVIOUS
  <2>2. SentOnce(m)
    BY <2>1 DEF HandoverInv
  <2>3. moves'[k] = IF begins(k) THEN [m EXCEPT !.exposed = TRUE] ELSE m
    BY <1>1, <2>1
  <2>4. CASE begins(k)
    BY <2>2, <2>3, <2>4, ExposedOnce
  <2>5. CASE ~begins(k) /\ m.event = "done"
    <3>1. SentOnce(m)'
      BY <2>2, <2>5 DEF SentOnce, LeftAlone
    <3> QED
      BY <2>3, <2>5, <3>1
  <2>6. CASE ~begins(k) /\ m.event # "done"
    BY <2>1, <2>2, <2>3, <2>6, StillOnce
  <2> QED
    BY <2>4, <2>5, <2>6
<1>3. DOMAIN moves' = DOMAIN moves /\ moves' = [k \in DOMAIN moves |-> moves'[k]]
  BY <1>1
<1> QED
  BY <1>2, <1>3, Rewritten

(* The bridge's settings are saved.                                        *)
LEMMA SaveBridgeKeeps == ASSUME HandoverInv, Handover!SaveBridge PROVE HandoverInv'
<1>1. PICK writes \in BOOLEAN, triggers \in Rules \cup {None} :
        /\ bridge' = [bridge EXCEPT !.writes = writes, !.triggers = triggers]
        /\ ~(Handover!Sends(bridge') /\ Handover!TransitionActs(transition))
  BY DEF Handover!SaveBridge
<1>2. bridge' \in BridgeType /\ (bridge'.poll <=> bridge.poll)
  BY <1>1, BridgeIs DEF HandoverInv, Apart
<1>3. UNCHANGED <<transition, issue, moves>>
  BY DEF Handover!SaveBridge
<1>4. Apart'
  BY <1>1, <1>2, <1>3 DEF HandoverInv, Apart
<1> QED
  BY <1>3, <1>4, StillOnce DEF HandoverInv

(* A plugin is switched on, or off.                                        *)
LEMMA SwitchPluginKeeps == ASSUME HandoverInv, Handover!SwitchPlugin PROVE HandoverInv'
<1>0. Apart /\ bridge \in BridgeType /\ transition \in TransitionType /\ issue \in IssueType
  BY DEF HandoverInv, Apart
<1>1. PICK on \in BOOLEAN :
        \/ Handover!Settle(bridge, [transition EXCEPT !.on = on], issue, IF on THEN {"transition"} ELSE {})
        \/ Handover!Settle(bridge, transition, [issue EXCEPT !.on = on], IF on THEN {"issue"} ELSE {})
  BY DEF Handover!SwitchPlugin
<1>2. CASE Handover!Settle(bridge, [transition EXCEPT !.on = on], issue, IF on THEN {"transition"} ELSE {})
  <2> DEFINE t == [transition EXCEPT !.on = on]
  <2>1. t \in TransitionType /\ (~on => ~Handover!TransitionActs(t))
    BY <1>0, TransitionOn
  <2> HIDE DEF t
  <2>2. Apart'
    <3>1. Handover!Settle(bridge, t, issue, IF on THEN {"transition"} ELSE {})
      BY <1>2 DEF t
    <3>2. CASE on
      BY <1>0, <2>1, <3>1, <3>2, SettleApart
    <3>3. CASE ~on
      BY <1>0, <2>1, <3>1, <3>3, SettleApart
    <3> QED
      BY <3>2, <3>3
  <2> QED
    BY <2>2, ByHandKeeps DEF Handover!SwitchPlugin
<1>3. CASE Handover!Settle(bridge, transition, [issue EXCEPT !.on = on], IF on THEN {"issue"} ELSE {})
  <2> DEFINE i == [issue EXCEPT !.on = on]
  <2>1. i \in IssueType /\ (~on => ~Handover!IssueActs(i))
    BY <1>0, IssueOn
  <2> HIDE DEF i
  <2>2. Apart'
    <3>1. Handover!Settle(bridge, transition, i, IF on THEN {"issue"} ELSE {})
      BY <1>3 DEF i
    <3>2. CASE on
      BY <1>0, <2>1, <3>1, <3>2, SettleApart
    <3>3. CASE ~on
      BY <1>0, <2>1, <3>1, <3>3, SettleApart
    <3> QED
      BY <3>2, <3>3
  <2> QED
    BY <2>2, ByHandKeeps DEF Handover!SwitchPlugin
<1> QED
  BY <1>1, <1>2, <1>3

(* A plugin's instances are saved.                                         *)
LEMMA SaveInstancesKeeps == ASSUME HandoverInv, Handover!SaveInstances PROVE HandoverInv'
<1>0. Apart /\ bridge \in BridgeType /\ transition \in TransitionType /\ issue \in IssueType
  BY DEF HandoverInv, Apart
<1>1. PICK sends \in BOOLEAN :
        \/ \E rules \in Rules :
             Handover!Settle(bridge, [transition EXCEPT !.rules = rules, !.live = sends], issue, {"transition"})
        \/ Handover!Settle(bridge, transition, [issue EXCEPT !.live = sends], {"issue"})
  BY DEF Handover!SaveInstances
<1>2. ASSUME NEW rules \in Rules,
             Handover!Settle(bridge, [transition EXCEPT !.rules = rules, !.live = sends], issue, {"transition"})
      PROVE  Apart'
  <2> DEFINE t == [transition EXCEPT !.rules = rules, !.live = sends]
  <2>1. t \in TransitionType
    BY <1>0, TransitionIs
  <2> HIDE DEF t
  <2> QED
    BY <1>0, <1>2, <2>1, SettleApart DEF t
<1>3. ASSUME Handover!Settle(bridge, transition, [issue EXCEPT !.live = sends], {"issue"}) PROVE Apart'
  <2> DEFINE i == [issue EXCEPT !.live = sends]
  <2>1. i \in IssueType
    BY <1>0, IssueIs
  <2> HIDE DEF i
  <2> QED
    BY <1>0, <1>3, <2>1, SettleApart DEF i
<1> QED
  BY <1>1, <1>2, <1>3, ByHandKeeps DEF Handover!SaveInstances

(* A handover to the plugin closes the bridge's rows and finishes what is  *)
(* queued for the plugin.                                                  *)
LEMMA TriggersHereKeeps == ASSUME HandoverInv, Handover!MoveTriggersHere PROVE HandoverInv'
<1> DEFINE b == [bridge EXCEPT !.writes = FALSE, !.triggers = None]
           t == [on |-> TRUE, rules |-> bridge.triggers, live |-> bridge.writes]
<1>0. Apart /\ bridge \in BridgeType /\ transition \in TransitionType /\ issue \in IssueType
  BY DEF HandoverInv, Apart
<1>1. b \in BridgeType /\ (b.poll <=> bridge.poll)
  BY <1>0, BridgeIs
<1>2. bridge.triggers \in Rules \cup {None} /\ bridge.writes \in BOOLEAN
  BY <1>0 DEF BridgeType
<1>3. t \in TransitionType
  BY <1>0, <1>2, TransitionIs
<1>4. Handover!Settle(b, t, issue, {"transition"})
  BY DEF Handover!MoveTriggersHere
<1> HIDE DEF b, t
<1>5. Apart'
  BY <1>0, <1>1, <1>3, <1>4, SettleApart
<1>6. moves' = [k \in DOMAIN moves |-> Handover!SkipQueued(Handover!CloseOutbox(moves[k]))]
  BY DEF Handover!MoveTriggersHere
<1>7. ASSUME NEW k \in DOMAIN moves PROVE SentOnce(moves[k])'
  <2>1. PICK m : m = Handover!CloseOutbox(moves[k])
    OBVIOUS
  <2>2. SentOnce(m)
    BY <2>1, ClosedOnce DEF HandoverInv
  <2> QED
    BY <1>6, <2>1, <2>2, SkippedOnce
<1>8. DOMAIN moves' = DOMAIN moves /\ moves' = [k \in DOMAIN moves |-> moves'[k]]
  BY <1>6
<1> QED
  BY <1>5, <1>7, <1>8, Rewritten

(* A handover to the bridge switches the plugin off.                       *)
LEMMA TriggersBackKeeps == ASSUME HandoverInv, Handover!MoveTriggersBack PROVE HandoverInv'
<1> DEFINE b == [bridge EXCEPT !.writes = transition.live, !.triggers = transition.rules]
           t == [transition EXCEPT !.on = FALSE]
<1>0. Apart /\ bridge \in BridgeType /\ transition \in TransitionType /\ issue \in IssueType
  BY DEF HandoverInv, Apart
<1>1. transition.rules \in Rules \cup {None} /\ transition.live \in BOOLEAN
  BY <1>0 DEF TransitionType
<1>2. b \in BridgeType /\ (b.poll <=> bridge.poll)
  BY <1>0, <1>1, BridgeIs
<1>3. t \in TransitionType /\ ~Handover!TransitionActs(t)
  BY <1>0, TransitionOn
<1>4. Handover!Settle(b, t, issue, {"transition"})
  BY DEF Handover!MoveTriggersBack
<1> HIDE DEF b, t
<1>5. Apart' /\ transition' = t
  BY <1>0, <1>2, <1>3, <1>4, SettleApart
<1>6. moves' = [k \in DOMAIN moves |-> Handover!CloseOutbox(moves[k])]
  BY DEF Handover!MoveTriggersBack
<1>7. ASSUME NEW k \in DOMAIN moves PROVE SentOnce(moves[k])'
  <2>1. PICK m : m = Handover!CloseOutbox(moves[k])
    OBVIOUS
  <2>2. SentOnce(m)
    BY <2>1, ClosedOnce DEF HandoverInv
  <2> QED
    BY <1>3, <1>5, <1>6, <2>1, <2>2, StillOnce
<1>8. DOMAIN moves' = DOMAIN moves /\ moves' = [k \in DOMAIN moves |-> moves'[k]]
  BY <1>6
<1> QED
  BY <1>5, <1>7, <1>8, Rewritten

(* Handovers of the polling leave the moves alone.                         *)
LEMMA PollingKeeps == ASSUME HandoverInv, Handover!MovePollingHere \/ Handover!MovePollingBack PROVE HandoverInv'
<1>0. Apart /\ bridge \in BridgeType /\ transition \in TransitionType /\ issue \in IssueType
  BY DEF HandoverInv, Apart
<1>1. PICK b \in BridgeType, i \in IssueType :
        Handover!Settle(b, transition, i, {"issue"}) /\ (Handover!Sends(b) <=> Handover!Sends(bridge))
  <2>1. CASE Handover!MovePollingHere
    <3> DEFINE b == [bridge EXCEPT !.poll = FALSE]
               i == [on |-> TRUE, live |-> TRUE]
    <3>1. b \in BridgeType /\ (Handover!Sends(b) <=> Handover!Sends(bridge)) /\ i \in IssueType
      BY <1>0, PollingIs, IssueIs
    <3>2. Handover!Settle(b, transition, i, {"issue"})
      BY <2>1 DEF Handover!MovePollingHere
    <3> HIDE DEF b, i
    <3> QED
      BY <3>1, <3>2
  <2>2. CASE Handover!MovePollingBack
    <3> DEFINE b == [bridge EXCEPT !.poll = TRUE]
               i == [issue EXCEPT !.on = FALSE]
    <3>1. b \in BridgeType /\ (Handover!Sends(b) <=> Handover!Sends(bridge)) /\ i \in IssueType
      BY <1>0, PollingIs, IssueOn
    <3>2. Handover!Settle(b, transition, i, {"issue"})
      BY <2>2 DEF Handover!MovePollingBack
    <3> HIDE DEF b, i
    <3> QED
      BY <3>1, <3>2
  <2> QED
    BY <2>1, <2>2
<1>2. Apart' /\ transition' = transition
  BY <1>0, <1>1, SettleApart
<1>3. moves' = moves
  BY DEF Handover!MovePollingHere, Handover!MovePollingBack
<1> QED
  BY <1>2, <1>3, StillOnce DEF HandoverInv

(* A move of an item is queued for the bridge only where the plugin does   *)
(* not act.                                                                *)
LEMMA MoveItemKeeps == ASSUME HandoverInv, Handover!MoveItem PROVE HandoverInv'
<1>1. UNCHANGED <<bridge, transition, issue>> /\ Apart /\ Apart'
  BY DEF HandoverInv, Handover!MoveItem, Apart
<1>2. PICK m : m = Handover!NewMove
  OBVIOUS
<1>3. SentOnce(m)
  <2>1. m \in MoveType /\ m.event = "queued" /\ m.by = {} /\ (m.row = "waiting" <=> Handover!Sends(bridge))
        /\ m.row \in {"none", "waiting"}
    BY <1>2 DEF Handover!NewMove, MoveType
  <2> QED
    BY <1>1, <2>1 DEF SentOnce, LeftAlone, Apart
<1>4. moves' = Append(moves, m)
  BY <1>2 DEF Handover!MoveItem
<1>5. /\ moves' \in Seq(MoveType) /\ Len(moves') = Len(moves) + 1
      /\ moves'[Len(moves) + 1] = m /\ \A k \in 1..Len(moves) : moves'[k] = moves[k]
  BY <1>3, <1>4, AppendProperties DEF HandoverInv, SentOnce
<1>6. DOMAIN moves = 1..Len(moves) /\ DOMAIN moves' = 1..Len(moves') /\ Len(moves) \in Nat
  BY <1>5, MovesAre DEF HandoverInv
<1>7. ASSUME NEW k \in DOMAIN moves' PROVE SentOnce(moves[k])'
  <2>1. SentOnce(moves'[k])
    BY <1>3, <1>5, <1>6 DEF HandoverInv
  <2> QED
    BY <1>1, <2>1, StillOnce
<1> QED
  BY <1>1, <1>5, <1>7 DEF HandoverInv

(* The bridge's poller passes over the tickets.                            *)
LEMMA PollerKeeps == ASSUME HandoverInv, Handover!StartPoll \/ Handover!EndPoll PROVE HandoverInv'
<1>1. UNCHANGED <<transition, issue, moves>>
  BY DEF Handover!StartPoll, Handover!EndPoll
<1>2. /\ bridge' \in BridgeType /\ (bridge'.poll <=> bridge.poll)
      /\ (bridge'.writes <=> bridge.writes) /\ bridge'.triggers = bridge.triggers
  <2>1. CASE Handover!StartPoll
    BY <2>1 DEF HandoverInv, Apart, Handover!StartPoll
  <2>2. CASE Handover!EndPoll
    BY <2>2 DEF HandoverInv, Apart, Handover!EndPoll, BridgeType
  <2> QED
    BY <2>1, <2>2
<1>3. Apart'
  BY <1>1, <1>2 DEF HandoverInv, Apart, Handover!Sends
<1> QED
  BY <1>1, <1>3, StillOnce DEF HandoverInv

-----------------------------------------------------------------------------
(* The bridge's flush and the plugin's delivery, on one move.              *)

(* The flush's steps, and then the delivery's.                             *)
LEMMA ClaimRowOnce ==
  ASSUME NEW m, SentOnce(m), m.row = "waiting" PROVE SentOnce([m EXCEPT !.row = "claimed"])
  BY DEF SentOnce, LeftAlone, MoveType

LEMMA SendRowOnce ==
  ASSUME NEW m, SentOnce(m), m.row = "claimed"
  PROVE  SentOnce([m EXCEPT !.row = "sent", !.by = @ \cup {"bridge"}])
  BY DEF SentOnce, LeftAlone, MoveType

LEMMA ClaimEventOnce ==
  ASSUME NEW m, SentOnce(m), m.event = "queued"
  PROVE  SentOnce([m EXCEPT !.event = "claimed", !.skip = m.finished])
  BY DEF SentOnce, LeftAlone, MoveType

LEMMA ReadInstancesOnce ==
  ASSUME NEW m, SentOnce(m), m.event = "claimed", NEW acts \in BOOLEAN, acts => Handover!TransitionActs(transition)
  PROVE  SentOnce([m EXCEPT !.event = "read", !.acts = acts])
  BY DEF SentOnce, LeftAlone, MoveType

LEMMA ReadHeldOnce ==
  ASSUME NEW m, SentOnce(m), m.event = "read", NEW held \in BOOLEAN
  PROVE  SentOnce([m EXCEPT !.event = "ready", !.held = held])
  BY DEF SentOnce, LeftAlone, MoveType

LEMMA RunOnce ==
  ASSUME NEW m, SentOnce(m), m.event = "ready"
  PROVE  SentOnce([m EXCEPT !.event = "done",
                            !.by = IF m.acts /\ ~m.held /\ ~m.skip THEN @ \cup {"plugin"} ELSE @])
<1>1. CASE m.acts /\ ~m.held /\ ~m.skip
  BY <1>1 DEF SentOnce, LeftAlone, MoveType
<1>2. CASE ~(m.acts /\ ~m.held /\ ~m.skip)
  BY <1>2 DEF SentOnce, LeftAlone, MoveType
<1> QED
  BY <1>1, <1>2

(* Each keeps it.                                                          *)
LEMMA WorkKeeps == ASSUME HandoverInv, NEW k \in DOMAIN moves, Handover!Work(k) PROVE HandoverInv'
<1>1. PICK m : m = moves[k] /\ SentOnce(m)
  BY DEF HandoverInv
<1>2. CASE Handover!ClaimRow(k)
  BY <1>1, <1>2, ClaimRowOnce, OneRewritten DEF Handover!ClaimRow
<1>3. CASE Handover!SendRow(k)
  BY <1>1, <1>3, SendRowOnce, OneRewritten DEF Handover!SendRow
<1>4. CASE Handover!ClaimEvent(k)
  BY <1>1, <1>4, ClaimEventOnce, OneRewritten DEF Handover!ClaimEvent
<1>5. CASE Handover!ReadInstances(k)
  <2>1. PICK acts \in BOOLEAN : acts = Handover!TransitionActs(transition)
    BY DEF Handover!TransitionActs
  <2>2. Handover!Change(k, [m EXCEPT !.event = "read", !.acts = acts])
    BY <1>1, <1>5, <2>1 DEF Handover!ReadInstances
  <2> QED
    BY <1>1, <1>5, <2>1, <2>2, ReadInstancesOnce, OneRewritten DEF Handover!ReadInstances
<1>6. CASE Handover!ReadHeld(k)
  <2>1. PICK held \in BOOLEAN : held = Handover!Sends(bridge)
    BY DEF Handover!Sends
  <2>2. Handover!Change(k, [m EXCEPT !.event = "ready", !.held = held])
    BY <1>1, <1>6, <2>1 DEF Handover!ReadHeld
  <2> QED
    BY <1>1, <1>6, <2>2, ReadHeldOnce, OneRewritten DEF Handover!ReadHeld
<1>7. CASE Handover!RunInstance(k)
  BY <1>1, <1>7, RunOnce, OneRewritten DEF Handover!RunInstance
<1> QED
  BY <1>2, <1>3, <1>4, <1>5, <1>6, <1>7 DEF Handover!Work

(* Every step keeps it.                                                    *)
LEMMA HandoverStep == ASSUME HandoverInv, [Handover!Next]_(Handover!vars) PROVE HandoverInv'
<1>1. CASE Handover!SaveBridge \/ Handover!SwitchPlugin \/ Handover!SaveInstances
  BY <1>1, SaveBridgeKeeps, SwitchPluginKeeps, SaveInstancesKeeps
<1>2. CASE Handover!MakeMove
  BY <1>2, TriggersHereKeeps, TriggersBackKeeps, PollingKeeps DEF Handover!MakeMove
<1>3. CASE Handover!MoveItem \/ Handover!StartPoll \/ Handover!EndPoll
  BY <1>3, MoveItemKeeps, PollerKeeps
<1>4. CASE \E k \in DOMAIN moves : Handover!Work(k)
  BY <1>4, WorkKeeps
<1>5. CASE Handover!PlanMove \/ UNCHANGED Handover!vars
  <2>1. UNCHANGED <<bridge, transition, issue, moves>>
    BY <1>5 DEF Handover!PlanMove, Handover!vars
  <2>2. Apart'
    BY <2>1 DEF HandoverInv, Apart
  <2> QED
    BY <2>1, <2>2, StillOnce DEF HandoverInv
<1> QED
  BY <1>1, <1>2, <1>3, <1>4, <1>5 DEF Handover!Next

(* So the two never both act, nor both send a move.                        *)
LEMMA HandoverGives == HandoverInv => Handover!NeverBothAct /\ Handover!QueuedMovesAreSentOnce
<1> SUFFICES ASSUME HandoverInv PROVE Handover!NeverBothAct /\ Handover!QueuedMovesAreSentOnce
  OBVIOUS
<1>1. Handover!NeverBothAct
  BY DEF HandoverInv, Apart, Handover!NeverBothAct, Handover!Polls
<1>2. ASSUME NEW k \in DOMAIN moves, moves[k].by = {"bridge", "plugin"} PROVE moves[k].exposed
  BY <1>2 DEF HandoverInv, SentOnce, LeftAlone
<1> QED
  BY <1>1, <1>2 DEF Handover!QueuedMovesAreSentOnce

(* The bridge and a plugin are never both set to act on a project, and     *)
(* what the bridge sends of the moves made before a handover the plugin    *)
(* does not send again (server/lib/plugins/handover.ts).                   *)
THEOREM Handovers == Handover!Spec => []Handover!NeverBothAct /\ []Handover!QueuedMovesAreSentOnce
  BY HandoverStart, HandoverStep, HandoverGives, PTL DEF Handover!Spec

-----------------------------------------------------------------------------
(***************************************************************************)
(* A plugin's note (PluginNotes).  As long as a store is going to tell the *)
(* server that the note is gone, the mark is there of whoever took it out. *)
(***************************************************************************)

(* Who takes the note out.                                                 *)
Takers == {"none", "runner", "late", "person", "sync"}

RunsType  == [runner : BOOLEAN, removed : BOOLEAN]
RoundType ==
  [at : {"rest", "tag", "push", "pull"}, there : BOOLEAN, op : {"none", "remove", "create"}, plugin : BOOLEAN,
   who : Takers]

NotesTypes ==
  /\ note \in [Store -> BOOLEAN]
  /\ runs \in [Store -> RunsType]
  /\ took \in [Store -> Takers]
  /\ snap \in [Store -> [version : Nat, behind : BOOLEAN]]
  /\ round \in [Store -> RoundType]
  /\ server \in [row : Nat, made : Nat, tomb : {"none", "person", "plugin"},
                 by : Takers]

(* Whoever took the note out has left a mark, r of who did, t, unless it   *)
(* was late.                                                               *)
Gone(r, t) ==
  /\ t \in {"runner", "late", "person"}
  /\ t = "runner" => r.runner
  /\ t = "person" => r.removed

(* A store whose snapshot has version v, at d in its round, will tell the  *)
(* server that the note is gone.                                           *)
Watched(v, d) == v # 0 \/ (d.at \in {"tag", "push"} /\ d.op = "create")

(* The marks a store needs to tell whose removal it was, with n if the     *)
(* note is among its files.                                                *)
Told(n, r, t, v, d) ==
  /\ Watched(v, d) /\ ~n => Gone(r, t)
  /\ d.at = "tag" /\ d.there => n \/ t # "runner"
  /\ d.at = "tag" /\ d.op = "create" => d.there
  /\ d.at = "tag" /\ d.op = "remove" /\ d.who = "runner" => r.runner
  /\ d.at = "push" /\ d.op = "remove" /\ ~d.plugin => d.who # "runner"

Tells(s) == Told(note[s], runs[s], took[s], snap[s].version, round[s])

NotesInv ==
  /\ NotesTypes
  /\ Notes!OnlyLateRemovalsAreMistaken
  /\ \A s \in Store : Tells(s)

-----------------------------------------------------------------------------
(* Marks, and places in a round, with one part changed.                    *)

(* A mark with one part changed.                                           *)
LEMMA RunnerIs ==
  ASSUME NEW r \in RunsType, NEW runner \in BOOLEAN
  PROVE  LET set == [r EXCEPT !.runner = runner]
         IN  set \in RunsType /\ (set.runner <=> runner) /\ (set.removed <=> r.removed)
  BY DEF RunsType

LEMMA RemovedIs ==
  ASSUME NEW r \in RunsType, NEW removed \in BOOLEAN
  PROVE  LET set == [r EXCEPT !.removed = removed]
         IN  set \in RunsType /\ (set.removed <=> removed) /\ (set.runner <=> r.runner)
  BY DEF RunsType

(* What one store does is no matter to the others, who may at most have a  *)
(* change to pull.                                                         *)
LEMMA OthersTell ==
  ASSUME NEW s \in Store, \A t \in Store : Tells(t),
         \A t \in Store \ {s} : /\ note'[t] = note[t] /\ runs'[t] = runs[t] /\ took'[t] = took[t]
                                /\ snap'[t].version = snap[t].version /\ round'[t] = round[t],
         Told(note'[s], runs'[s], took'[s], snap'[s].version, round'[s])
  PROVE  \A t \in Store : Tells(t)'
  BY DEF Tells

(* The note is there at first.                                             *)
LEMMA NotesStart == Notes!Init => NotesInv
  BY DEF Notes!Init, Notes!AtRest, NotesInv, NotesTypes, RunsType, RoundType, Takers,
         Notes!OnlyLateRemovalsAreMistaken, Tells, Told, Watched

-----------------------------------------------------------------------------
(* Runners and people.                                                     *)

(* The runner makes again only what nobody removed for good.               *)
LEMMA AttachKeeps == ASSUME NotesInv, NEW s \in Store, Notes!Attach(s) PROVE NotesInv'
<1> DEFINE n == note[s] \/ ~runs[s].removed
<1>0. NotesTypes /\ UNCHANGED <<server, runs, took, snap, round>>
  BY DEF NotesInv, Notes!Attach
<1>1. note' = [note EXCEPT ![s] = n]
  BY DEF Notes!Attach
<1>2. Told(n, runs[s], took[s], snap[s].version, round[s])
  <2>1. Tells(s)
    BY DEF NotesInv
  <2> QED
    BY <1>0, <2>1 DEF Tells, Told, Gone
<1> HIDE DEF n
<1>3. NotesTypes'
  BY <1>0, <1>1 DEF NotesTypes, n
<1>4. \A t \in Store : Tells(t)'
  BY <1>0, <1>1, <1>2, OthersTell DEF NotesInv, NotesTypes
<1> QED
  BY <1>0, <1>3, <1>4 DEF NotesInv, Notes!OnlyLateRemovalsAreMistaken

(* The note is taken out, unless a crash comes first.                      *)
LEMMA OutKeeps ==
  ASSUME NotesTypes, NEW s \in Store, NEW who \in Takers, NEW crash,
         IF crash THEN UNCHANGED <<note, took>> ELSE Notes!TakeOut(s, who)
  PROVE  /\ note' \in [Store -> BOOLEAN] /\ took' \in [Store -> Takers]
         /\ \A t \in Store \ {s} : note'[t] = note[t] /\ took'[t] = took[t]
         /\ \/ note'[s] = note[s] /\ took'[s] = took[s]
            \/ ~note'[s] /\ took'[s] = who
  BY DEF NotesTypes, Notes!TakeOut

(* The runner marks the note before it takes it out.                       *)
LEMMA DropKeeps == ASSUME NotesInv, NEW s \in Store, Notes!Drop(s) PROVE NotesInv'
<1> DEFINE r == [runs[s] EXCEPT !.runner = TRUE]
<1>0. /\ NotesTypes /\ UNCHANGED <<server, snap, round>> /\ note[s] /\ runs[s] \in RunsType
  BY DEF NotesInv, NotesTypes, Notes!Drop
<1>1. PICK crash : Notes!Drops(s, crash)
  BY DEF Notes!Drop
<1>2. r \in RunsType /\ r.runner /\ (r.removed <=> runs[s].removed)
  BY <1>0, RunnerIs
<1>3. runs' = [runs EXCEPT ![s] = r]
  BY <1>1 DEF Notes!Drops
<1>4. /\ note' \in [Store -> BOOLEAN] /\ took' \in [Store -> Takers]
      /\ \A t \in Store \ {s} : note'[t] = note[t] /\ took'[t] = took[t]
      /\ \/ note'[s] = note[s] /\ took'[s] = took[s]
         \/ ~note'[s] /\ took'[s] = Notes!Runner(s)
  <2>1. Notes!Runner(s) \in Takers
    BY DEF Notes!Runner, Takers
  <2>2. IF crash THEN UNCHANGED <<note, took>> ELSE Notes!TakeOut(s, Notes!Runner(s))
    BY <1>1 DEF Notes!Drops
  <2> QED
    BY <1>0, <2>1, <2>2, OutKeeps
<1> HIDE DEF r
<1>5. Told(note'[s], r, took'[s], snap[s].version, round[s])
  <2>1. Tells(s)
    BY DEF NotesInv
  <2> QED
    BY <1>0, <1>2, <1>4, <2>1 DEF Tells, Told, Gone, Notes!Runner
<1>6. NotesTypes'
  BY <1>0, <1>2, <1>3, <1>4 DEF NotesTypes
<1>7. \A t \in Store : Tells(t)'
  BY <1>0, <1>3, <1>4, <1>5, OthersTell DEF NotesInv, NotesTypes
<1> QED
  BY <1>0, <1>6, <1>7 DEF NotesInv, Notes!OnlyLateRemovalsAreMistaken

(* So does a person.                                                       *)
LEMMA UnnoteKeeps == ASSUME NotesInv, NEW s \in Store, Notes!Unnote(s) PROVE NotesInv'
<1> DEFINE r == [runs[s] EXCEPT !.removed = TRUE]
<1>0. /\ NotesTypes /\ UNCHANGED <<server, snap, round>> /\ note[s] /\ runs[s] \in RunsType
  BY DEF NotesInv, NotesTypes, Notes!Unnote
<1>1. PICK crash : IF crash THEN UNCHANGED <<note, took>> ELSE Notes!TakeOut(s, "person")
  BY DEF Notes!Unnote
<1>2. r \in RunsType /\ r.removed /\ (r.runner <=> runs[s].runner)
  BY <1>0, RemovedIs
<1>3. runs' = [runs EXCEPT ![s] = r]
  BY DEF Notes!Unnote
<1>4. /\ note' \in [Store -> BOOLEAN] /\ took' \in [Store -> Takers]
      /\ \A t \in Store \ {s} : note'[t] = note[t] /\ took'[t] = took[t]
      /\ \/ note'[s] = note[s] /\ took'[s] = took[s]
         \/ ~note'[s] /\ took'[s] = "person"
  BY <1>0, <1>1, OutKeeps DEF Takers
<1> HIDE DEF r
<1>5. Told(note'[s], r, took'[s], snap[s].version, round[s])
  <2>1. Tells(s)
    BY DEF NotesInv
  <2> QED
    BY <1>0, <1>2, <1>4, <2>1 DEF Tells, Told, Gone
<1>6. NotesTypes'
  BY <1>0, <1>2, <1>3, <1>4 DEF NotesTypes
<1>7. \A t \in Store : Tells(t)'
  BY <1>0, <1>3, <1>4, <1>5, OthersTell DEF NotesInv, NotesTypes
<1> QED
  BY <1>0, <1>6, <1>7 DEF NotesInv, Notes!OnlyLateRemovalsAreMistaken

(* A removal on the dashboard is a person's.                               *)
LEMMA DashboardKeeps == ASSUME NotesInv, Notes!RemoveOnDashboard PROVE NotesInv'
<1>0. NotesTypes /\ UNCHANGED <<note, runs, took, round>>
  BY DEF NotesInv, Notes!RemoveOnDashboard
<1>1. server' = [server EXCEPT !.row = 0, !.tomb = "person", !.by = "person"]
      /\ snap' = [s \in Store |-> [snap[s] EXCEPT !.behind = TRUE]]
  BY DEF Notes!RemoveOnDashboard
<1>2. NotesTypes' /\ server'.by = "person"
  BY <1>0, <1>1 DEF NotesTypes, Takers
<1>3. \A s \in Store : snap'[s].version = snap[s].version
  BY <1>0, <1>1 DEF NotesTypes
<1> QED
  BY <1>0, <1>2, <1>3 DEF NotesInv, Notes!OnlyLateRemovalsAreMistaken, Tells

-----------------------------------------------------------------------------
(* A round.                                                                *)

(* A store's round goes on, or ends.                                       *)
LEMMA RoundGoes ==
  ASSUME NotesTypes, NEW s \in Store, NEW d \in RoundType, round' = [round EXCEPT ![s] = d]
  PROVE  /\ round' \in [Store -> RoundType]
         /\ round'[s] = d /\ \A t \in Store \ {s} : round'[t] = round[t]
  BY DEF NotesTypes

(* What a scan finds to tell: n, the note is there, against the snapshot.  *)
LEMMA ScanFinds ==
  ASSUME NEW scanned \in BOOLEAN, NEW known \in BOOLEAN, NEW n \in BOOLEAN
  PROVE  LET op == IF ~scanned \/ known = n THEN "none" ELSE IF known THEN "remove" ELSE "create"
         IN  op \in {"none", "remove", "create"} /\ (op = "create" => scanned /\ n) /\ (op = "remove" => known /\ ~n)
<1>1. CASE n = known
  BY <1>1
<1>2. CASE n # known /\ known
  BY <1>2
<1>3. CASE n # known /\ ~known
  BY <1>3
<1> QED
  BY <1>1, <1>2, <1>3

(* A scan sees a note that is gone, whose taking out was marked.           *)
LEMMA ScanKeeps == ASSUME NotesInv, NEW s \in Store, Notes!Scan(s) PROVE NotesInv'
<1>0. NotesTypes /\ UNCHANGED <<server, note, runs, took, snap>> /\ round[s].at = "rest"
  BY DEF NotesInv, Notes!Scan
<1>1. PICK scanned \in BOOLEAN :
        LET known == snap[s].version # 0
            op    == IF ~scanned \/ known = note[s] THEN "none" ELSE IF known THEN "remove" ELSE "create"
        IN  round' = [round EXCEPT ![s] = [at |-> "tag", there |-> scanned /\ note[s], op |-> op, plugin |-> FALSE, who |-> took[s]]]
  BY DEF Notes!Scan
<1> DEFINE v     == snap[s].version
           known == v # 0
           op    == IF ~scanned \/ known = note[s] THEN "none" ELSE IF known THEN "remove" ELSE "create"
           there == scanned /\ note[s]
<1>2. PICK d : d = [at |-> "tag", there |-> there, op |-> op, plugin |-> FALSE, who |-> took[s]]
  OBVIOUS
<1>3. /\ op \in {"none", "remove", "create"}
      /\ op = "create" => there
      /\ op = "remove" => v # 0 /\ ~note[s]
      /\ there => note[s]
  <2>1. PICK n \in BOOLEAN, k \in BOOLEAN : n = note[s] /\ k = known
    BY <1>0 DEF NotesTypes
  <2> QED
    BY <2>1, ScanFinds
<1>4. there \in BOOLEAN
  BY <1>0 DEF NotesTypes
<1>5. round' = [round EXCEPT ![s] = d]
  BY <1>1, <1>2
<1> HIDE DEF op, there, v
<1>6. d \in RoundType /\ d.at = "tag" /\ d.op = op /\ (d.there <=> there) /\ d.who = took[s]
  BY <1>0, <1>2, <1>3, <1>4 DEF RoundType, NotesTypes
<1>7. Told(note[s], runs[s], took[s], v, d)
  <2>1. Tells(s)
    BY DEF NotesInv
  <2>2. Told(note[s], runs[s], took[s], v, round[s])
    BY <2>1 DEF Tells, v
  <2> QED
    BY <1>0, <1>3, <1>6, <2>2 DEF Told, Watched, Gone
<1>8. NotesTypes'
  BY <1>0, <1>5, <1>6, RoundGoes DEF NotesTypes
<1>9. \A t \in Store : Tells(t)'
  BY <1>0, <1>5, <1>6, <1>7, RoundGoes, OthersTell DEF NotesInv, v
<1> QED
  BY <1>0, <1>8, <1>9 DEF NotesInv, Notes!OnlyLateRemovalsAreMistaken

(* A mark that is cleared is of no use any more.                           *)
LEMMA MarkKeeps == ASSUME NotesInv, NEW s \in Store, Notes!MarkRunnerRemoves(s) PROVE NotesInv'
<1> DEFINE plugin == round[s].op = "remove" /\ runs[s].runner
           runner == runs[s].runner /\ snap[s].version # 0 /\ ~round[s].there
           old    == round[s]
           pushed == [old EXCEPT !.at = "push"]
           d      == [pushed EXCEPT !.plugin = plugin]
           r      == [runs[s] EXCEPT !.runner = runner]
<1>0. /\ NotesTypes /\ UNCHANGED <<server, note, took, snap>> /\ round[s].at = "tag"
      /\ old \in RoundType /\ runs[s] \in RunsType
  BY DEF NotesInv, NotesTypes, Notes!MarkRunnerRemoves
<1>1. plugin \in BOOLEAN /\ runner \in BOOLEAN
  BY <1>0 DEF RunsType, RoundType
<1>2. round' = [round EXCEPT ![s] = d] /\ runs' = [runs EXCEPT ![s] = r]
  BY <1>0 DEF Notes!MarkRunnerRemoves, NotesTypes
<1>3. pushed \in RoundType /\ pushed.at = "push" /\ pushed.op = old.op /\ (pushed.there <=> old.there) /\ pushed.who = old.who
  BY <1>0 DEF RoundType
<1>4. r \in RunsType /\ (r.runner <=> runner) /\ (r.removed <=> runs[s].removed)
  BY <1>0, <1>1, RunnerIs
<1>5. d \in RoundType /\ d.at = "push" /\ d.op = old.op /\ (d.plugin <=> plugin) /\ d.who = old.who
  <2> HIDE DEF pushed, plugin
  <2> QED
    BY <1>1, <1>3 DEF RoundType
<1> HIDE DEF d, r, pushed
<1>6. Told(note[s], r, took[s], snap[s].version, d)
  <2>1. Told(note[s], runs[s], took[s], snap[s].version, old)
    BY DEF NotesInv, Tells
  <2> QED
    BY <1>0, <1>4, <1>5, <2>1 DEF Told, Watched, Gone
<1>7. NotesTypes'
  BY <1>0, <1>2, <1>4, <1>5, RoundGoes DEF NotesTypes
<1>8. \A t \in Store : Tells(t)'
  BY <1>0, <1>2, <1>4, <1>5, <1>6, RoundGoes, OthersTell DEF NotesInv, NotesTypes
<1> QED
  BY <1>0, <1>7, <1>8 DEF NotesInv, Notes!OnlyLateRemovalsAreMistaken

(* A push is past what it was told of.                                     *)
LEMMA PushGoes ==
  ASSUME NotesTypes, NEW s \in Store, Notes!Push(s)
  PROVE  /\ round[s].at = "push" /\ round' \in [Store -> RoundType]
         /\ round'[s].at = "pull" /\ \A t \in Store \ {s} : round'[t] = round[t]
<1> DEFINE d == [round[s] EXCEPT !.at = "pull"]
<1>1. round[s] \in RoundType /\ round' = [round EXCEPT ![s] = d] /\ round[s].at = "push"
  BY DEF NotesTypes, Notes!Push
<1>2. d \in RoundType /\ d.at = "pull"
  BY <1>1 DEF RoundType
<1> HIDE DEF d
<1> QED
  BY <1>1, <1>2, RoundGoes

(* A round that has nothing to tell.                                       *)
LEMMA PushNothingKeeps == ASSUME NotesInv, NEW s \in Store, Notes!PushNothing(s) PROVE NotesInv'
<1>0. NotesTypes /\ UNCHANGED <<server, note, runs, took, snap>> /\ Notes!Push(s)
  BY DEF NotesInv, Notes!PushNothing
<1>1. Told(note[s], runs[s], took[s], snap[s].version, round'[s])
  <2>1. Tells(s)
    BY DEF NotesInv
  <2> QED
    BY <1>0, <2>1, PushGoes DEF Tells, Told, Watched
<1>2. NotesTypes'
  BY <1>0, PushGoes DEF NotesTypes
<1>3. \A t \in Store : Tells(t)'
  BY <1>0, <1>1, PushGoes, OthersTell DEF NotesInv
<1> QED
  BY <1>0, <1>2, <1>3 DEF NotesInv, Notes!OnlyLateRemovalsAreMistaken

(* What the snapshots are after an answer.                                 *)
LEMMA AnswerIs ==
  ASSUME NotesTypes, NEW s \in Store, NEW version \in Nat,
         snap' = Notes!Knows(s, version) \/ snap' = Notes!Learns(s, version)
  PROVE  /\ snap' \in [Store -> [version : Nat, behind : BOOLEAN]]
         /\ snap'[s].version = version /\ \A t \in Store \ {s} : snap'[t].version = snap[t].version
<1>1. CASE snap' = Notes!Knows(s, version)
  BY <1>1 DEF NotesTypes, Notes!Knows
<1>2. CASE snap' = Notes!Learns(s, version)
  BY <1>2 DEF NotesTypes, Notes!Learns
<1> QED
  BY <1>1, <1>2

(* A note that is made, or that a person's tombstone forbids.              *)
LEMMA PushCreateKeeps == ASSUME NotesInv, NEW s \in Store, Notes!PushCreate(s) PROVE NotesInv'
<1>0. /\ NotesTypes /\ Notes!Push(s) /\ round[s].op = "create" /\ runs[s] \in RunsType
      /\ server.row \in Nat /\ server.made \in Nat
  BY DEF NotesInv, NotesTypes, Notes!PushCreate
<1>1. Tells(s)
  BY DEF NotesInv
<1>2. CASE server.row # 0 /\ snap' = Notes!Knows(s, server.row) /\ UNCHANGED <<server, note, runs, took>>
  <2>1. Told(note[s], runs[s], took[s], snap'[s].version, round'[s])
    BY <1>0, <1>1, <1>2, PushGoes, AnswerIs DEF Tells, Told, Watched
  <2>2. NotesTypes'
    BY <1>0, <1>2, PushGoes, AnswerIs DEF NotesTypes
  <2>3. \A t \in Store : Tells(t)'
    BY <1>0, <1>2, <2>1, PushGoes, AnswerIs, OthersTell DEF NotesInv
  <2> QED
    BY <1>2, <2>2, <2>3 DEF NotesInv, Notes!OnlyLateRemovalsAreMistaken
<1>3. CASE /\ server' = [row |-> server.made + 1, made |-> server.made + 1, tomb |-> "none", by |-> "none"]
           /\ snap' = Notes!Learns(s, server.made + 1)
           /\ UNCHANGED <<note, runs, took>>
  <2>1. Told(note[s], runs[s], took[s], snap'[s].version, round'[s])
    BY <1>0, <1>1, <1>3, PushGoes, AnswerIs DEF Tells, Told, Watched
  <2>2. NotesTypes'
    BY <1>0, <1>3, PushGoes, AnswerIs DEF NotesTypes, Takers
  <2>3. \A t \in Store : Tells(t)'
    BY <1>0, <1>3, <2>1, PushGoes, AnswerIs, OthersTell DEF NotesInv
  <2> QED
    BY <1>3, <2>2, <2>3 DEF NotesInv, Notes!OnlyLateRemovalsAreMistaken
<1>4. CASE /\ Notes!TakeOut(s, "sync")
           /\ runs' = [runs EXCEPT ![s].removed = TRUE]
           /\ snap' = Notes!Knows(s, 0)
           /\ UNCHANGED server
  <2> DEFINE r == [runs[s] EXCEPT !.removed = TRUE]
  <2>1. r \in RunsType /\ runs' = [runs EXCEPT ![s] = r]
    BY <1>0, <1>4, RemovedIs
  <2> HIDE DEF r
  <2>2. Told(note'[s], runs'[s], took'[s], snap'[s].version, round'[s])
    BY <1>0, <1>4, PushGoes, AnswerIs DEF Told, Watched
  <2>3. /\ snap' \in [Store -> [version : Nat, behind : BOOLEAN]]
        /\ \A t \in Store \ {s} : snap'[t].version = snap[t].version
    BY <1>0, <1>4, AnswerIs
  <2>4. round' \in [Store -> RoundType] /\ \A t \in Store \ {s} : round'[t] = round[t]
    BY <1>0, PushGoes
  <2>5. NotesTypes'
    <3>1. runs' \in [Store -> RunsType]
      BY <1>0, <2>1 DEF NotesTypes
    <3>2. note' \in [Store -> BOOLEAN] /\ took' \in [Store -> Takers]
      BY <1>0, <1>4 DEF NotesTypes, Takers, Notes!TakeOut
    <3> QED
      BY <1>0, <1>4, <2>3, <2>4, <3>1, <3>2 DEF NotesTypes
  <2>6. \A t \in Store \ {s} : note'[t] = note[t] /\ runs'[t] = runs[t] /\ took'[t] = took[t]
    BY <1>0, <1>4, <2>1 DEF NotesTypes, Notes!TakeOut
  <2>7. \A t \in Store : Tells(t)'
    BY <2>2, <2>3, <2>4, <2>6, OthersTell DEF NotesInv
  <2> QED
    BY <1>4, <2>5, <2>7 DEF NotesInv, Notes!OnlyLateRemovalsAreMistaken
<1> QED
  BY <1>2, <1>3, <1>4 DEF Notes!PushCreate

(* An op that does not say that it is the runner's is a person's.          *)
LEMMA PushRemoveKeeps == ASSUME NotesInv, NEW s \in Store, Notes!PushRemove(s) PROVE NotesInv'
<1>0. /\ NotesTypes /\ Notes!Push(s) /\ round[s].op = "remove" /\ UNCHANGED <<note, runs, took>>
      /\ (snap' = Notes!Knows(s, 0) \/ snap' = Notes!Learns(s, 0))
  BY DEF NotesInv, Notes!PushRemove
<1>1. ~round[s].plugin => round[s].who # "runner"
  BY <1>0, PushGoes DEF NotesInv, Tells, Told
<1>2. /\ Notes!OnlyLateRemovalsAreMistaken'
      /\ server' \in [row : Nat, made : Nat, tomb : {"none", "person", "plugin"},
                      by : Takers]
  <2>1. PICK tomb \in {"person", "plugin"} : tomb = IF round[s].plugin THEN "plugin" ELSE "person"
    OBVIOUS
  <2>2. server' = server \/ server' = [server EXCEPT !.row = 0, !.by = round[s].who, !.tomb = tomb]
    BY <2>1 DEF Notes!PushRemove
  <2>3. PICK who \in Takers : who = round[s].who /\ (tomb = "person" => who # "runner")
    BY <1>0, <1>1, <2>1 DEF NotesTypes, RoundType
  <2>4. CASE server' = server
    BY <1>0, <2>4 DEF NotesInv, NotesTypes, Notes!OnlyLateRemovalsAreMistaken
  <2>5. CASE server' = [server EXCEPT !.row = 0, !.by = who, !.tomb = tomb]
    BY <1>0, <2>3, <2>5 DEF NotesTypes, Notes!OnlyLateRemovalsAreMistaken
  <2> QED
    BY <2>2, <2>3, <2>4, <2>5
<1>4. Told(note[s], runs[s], took[s], snap'[s].version, round'[s])
  BY <1>0, PushGoes, AnswerIs DEF Told, Watched
<1>5. NotesTypes'
  BY <1>0, <1>2, PushGoes, AnswerIs DEF NotesTypes
<1>6. \A t \in Store : Tells(t)'
  BY <1>0, <1>4, PushGoes, AnswerIs, OthersTell DEF NotesInv
<1> QED
  BY <1>2, <1>5, <1>6 DEF NotesInv

(* A pull brings the note back, or takes it out as sync does.              *)
LEMMA PullKeeps == ASSUME NotesInv, NEW s \in Store, Notes!Pull(s) PROVE NotesInv'
<1>0. /\ NotesTypes /\ UNCHANGED <<server, round>> /\ round[s].at = "pull" /\ runs[s] \in RunsType
      /\ server.row \in Nat /\ snap' = [snap EXCEPT ![s] = [version |-> server.row, behind |-> FALSE]]
  BY DEF NotesInv, NotesTypes, Notes!Pull
<1>1. /\ snap' \in [Store -> [version : Nat, behind : BOOLEAN]]
      /\ snap'[s].version = server.row /\ \A t \in Store \ {s} : snap'[t].version = snap[t].version
  BY <1>0 DEF NotesTypes
<1>2. CASE server.row # 0 /\ note' = [note EXCEPT ![s] = TRUE] /\ UNCHANGED <<runs, took>>
  <2>1. NotesTypes' /\ note'[s] /\ \A t \in Store \ {s} : note'[t] = note[t]
    BY <1>0, <1>1, <1>2 DEF NotesTypes
  <2>2. Told(note'[s], runs[s], took[s], snap'[s].version, round[s])
    BY <1>0, <2>1 DEF Told
  <2>3. \A t \in Store : Tells(t)'
    BY <1>0, <1>1, <1>2, <2>1, <2>2, OthersTell DEF NotesInv
  <2> QED
    BY <1>0, <2>1, <2>3 DEF NotesInv, Notes!OnlyLateRemovalsAreMistaken
<1>3. CASE server.row = 0
  <2> DEFINE removed == runs[s].removed \/ (server.tomb = "person" /\ (note[s] \/ snap[s].version # 0))
             r == [runs[s] EXCEPT !.removed = removed]
  <2>1. removed \in BOOLEAN
    BY <1>0 DEF RunsType
  <2>2. Notes!TakeOut(s, "sync") /\ runs' = [runs EXCEPT ![s] = r]
    BY <1>0, <1>3 DEF Notes!Pull
  <2>3. r \in RunsType
    BY <1>0, <2>1, RemovedIs
  <2> HIDE DEF r
  <2>4. NotesTypes'
    BY <1>0, <1>1, <2>2, <2>3 DEF NotesTypes, Takers, Notes!TakeOut
  <2>5. \A t \in Store \ {s} : note'[t] = note[t] /\ runs'[t] = runs[t] /\ took'[t] = took[t]
    BY <1>0, <2>2 DEF NotesTypes, Notes!TakeOut
  <2>6. Told(note'[s], runs'[s], took'[s], snap'[s].version, round[s])
    BY <1>0, <1>1, <1>3 DEF Told, Watched
  <2>7. \A t \in Store : Tells(t)'
    BY <1>0, <1>1, <2>5, <2>6, OthersTell DEF NotesInv
  <2> QED
    BY <1>0, <2>4, <2>7 DEF NotesInv, Notes!OnlyLateRemovalsAreMistaken
<1> QED
  BY <1>2, <1>3 DEF Notes!Pull

(* A round may end anywhere.                                               *)
LEMMA EndKeeps == ASSUME NotesInv, NEW s \in Store, Notes!EndRound(s) PROVE NotesInv'
<1>0. NotesTypes /\ UNCHANGED <<server, note, runs, took, snap>> /\ round' = [round EXCEPT ![s] = Notes!AtRest]
  BY DEF NotesInv, Notes!EndRound
<1>1. Notes!AtRest \in RoundType /\ Notes!AtRest.at = "rest"
  BY DEF Notes!AtRest, RoundType, Takers
<1>2. Told(note[s], runs[s], took[s], snap[s].version, Notes!AtRest)
  BY <1>1 DEF NotesInv, Tells, Told, Watched
<1>3. NotesTypes'
  BY <1>0, <1>1, RoundGoes DEF NotesTypes
<1>4. \A t \in Store : Tells(t)'
  BY <1>0, <1>1, <1>2, RoundGoes, OthersTell DEF NotesInv
<1> QED
  BY <1>0, <1>3, <1>4 DEF NotesInv, Notes!OnlyLateRemovalsAreMistaken

(* Every step keeps it.                                                    *)
LEMMA NotesStep == ASSUME NotesInv, [Notes!Next]_(Notes!vars) PROVE NotesInv'
<1>1. CASE Notes!RemoveOnDashboard
  BY <1>1, DashboardKeeps
<1>2. ASSUME NEW s \in Store, Notes!Attach(s) \/ Notes!Drop(s) \/ Notes!Unnote(s)
      PROVE  NotesInv'
  BY <1>2, AttachKeeps, DropKeeps, UnnoteKeeps
<1>3. ASSUME NEW s \in Store,
             \/ Notes!Scan(s) \/ Notes!MarkRunnerRemoves(s) \/ Notes!PushNothing(s)
             \/ Notes!PushCreate(s) \/ Notes!PushRemove(s) \/ Notes!Pull(s) \/ Notes!EndRound(s)
      PROVE  NotesInv'
  BY <1>3, ScanKeeps, MarkKeeps, PushNothingKeeps, PushCreateKeeps, PushRemoveKeeps, PullKeeps, EndKeeps
<1>4. CASE UNCHANGED Notes!vars
  BY <1>4 DEF Notes!vars, NotesInv, NotesTypes, Tells, Notes!OnlyLateRemovalsAreMistaken
<1> QED
  BY <1>1, <1>2, <1>3, <1>4 DEF Notes!Next

(* So the server is told whose removal it was.                             *)
LEMMA NotesGives == NotesInv => Notes!OnlyLateRemovalsAreMistaken
  BY DEF NotesInv

(* A removal that the server records as a person's was not a runner's,     *)
(* unless the runner came between a round's scan, which saw the note, and  *)
(* the round's look at the marks (todo/plugins.py).                        *)
THEOREM MistakenRemovalsWereLate == Notes!Spec => []Notes!OnlyLateRemovalsAreMistaken
  BY NotesStart, NotesStep, NotesGives, PTL DEF Notes!Spec

-----------------------------------------------------------------------------
(***************************************************************************)
(* Actions (ActionRuns).  Of a run whose deliveries end within their       *)
(* leases: it is not delivered twice at a time, and what the dev log tells *)
(* of it, or is about to, was its last outcome.                            *)
(***************************************************************************)
(* The inductive invariant.                                                *)

RunType ==
  [attempts : Nat, claim : {"none", "held", "stale"}, due : BOOLEAN, done : BOOLEAN, error : BOOLEAN,
   outlasted : BOOLEAN]

Busy == {"deliver", "sent", "sentLine", "failed"}

FlushType ==
  [at : {"idle", "swept", "next", "gaveUp"} \cup Busy, todo : SUBSET Nat, crashed : SUBSET Nat,
   run : Nat, attempts : Nat]

Line == {"none", "sent", "gave up"}

Works(f, r) == flush[f].at \in Busy /\ flush[f].run = r

(* A flush names a run exactly while it works on it or gives it up.        *)
NamesARun(f) ==
  IF flush[f].at \in Busy \cup {"gaveUp"} THEN flush[f].run \in Actions!Ids ELSE flush[f].run = 0

ActionTypes ==
  /\ actionRuns \in Seq(RunType)
  /\ devLog \in Seq(Line) /\ Len(devLog) = Len(actionRuns)
  /\ flush \in [Flush -> FlushType]
  /\ \A f \in Flush : NamesARun(f) /\ flush[f].todo \subseteq Actions!Ids /\ flush[f].crashed \subseteq Actions!Ids

(* The run a flush works on is leased to it until its outcome is in the    *)
(* row; a line that could not be written leaves it done and unclaimed.     *)
Leased(f) == Actions!Run(f).claim = "held" /\ ~Actions!Run(f).done
Sending(f) == flush[f].at \in Busy /\ Actions!InTime(flush[f].run) =>
  /\ flush[f].at \in {"deliver", "sent"} => Leased(f)
  /\ flush[f].at = "sentLine" => Actions!Run(f).claim = "none" /\ Actions!Run(f).done /\ ~Actions!Run(f).error
  /\ flush[f].at = "failed" => Leased(f) \/ (Actions!Run(f).claim = "none" /\ Actions!Run(f).done)

Alone ==
  \A f, g \in Flush : \A r \in Actions!Ids : Actions!InTime(r) /\ Works(f, r) /\ Works(g, r) => f = g

(* Nobody will write the row again.                                        *)
Over(r) == actionRuns[r].done /\ \A f \in Flush : ~Works(f, r)

(* What is told of a run, or about to be, was its last outcome.            *)
ToldWhenOver ==
  \A r \in Actions!Ids :
    Actions!InTime(r) /\ devLog[r] # "none" => Over(r) /\ (actionRuns[r].error <=> devLog[r] = "gave up")
GivingUp(f) == flush[f].crashed \cup (IF Actions!At(f, "gaveUp") THEN {flush[f].run} ELSE {})
GivenUpWhenOver ==
  \A f \in Flush : \A r \in GivingUp(f) : Actions!InTime(r) => Over(r) /\ actionRuns[r].error

ActionInv ==
  /\ ActionTypes
  /\ \A f \in Flush : Sending(f)
  /\ Alone /\ ToldWhenOver /\ GivenUpWhenOver

-----------------------------------------------------------------------------
(* What the steps share.                                                   *)

LEMMA IdsAre == ActionTypes => Actions!Ids = 1..Len(actionRuns) /\ DOMAIN devLog = Actions!Ids
  BY LenProperties DEF ActionTypes, Actions!Ids

(* Writing one row keeps the ids and the other rows.                       *)
LEMMA WriteKeeps ==
  ASSUME ActionTypes, NEW r \in Actions!Ids, NEW run \in RunType, Actions!Write(r, run)
  PROVE  /\ actionRuns' \in Seq(RunType) /\ Len(actionRuns') = Len(actionRuns) /\ Actions!Ids' = Actions!Ids
         /\ \A q \in Actions!Ids : actionRuns'[q] = IF q = r THEN run ELSE actionRuns[q]
<1>1. r \in 1..Len(actionRuns) /\ actionRuns \in Seq(RunType)
  BY IdsAre DEF ActionTypes
<1> QED
  BY <1>1, ExceptSeq, LenProperties, IdsAre DEF Actions!Write, Actions!Ids

LEMMA LineWritten ==
  ASSUME NEW r, r \in 1..Len(devLog), devLog \in Seq(Line), NEW line \in Line, devLog' = [devLog EXCEPT ![r] = line]
  PROVE  /\ devLog' \in Seq(Line) /\ Len(devLog') = Len(devLog)
         /\ \A j \in 1..Len(devLog) : devLog'[j] = IF j = r THEN line ELSE devLog[j]
  BY ExceptSeq

(* Logging one line keeps the others.                                      *)
LEMMA LoggedKeeps ==
  ASSUME ActionTypes, NEW r \in Actions!Ids, NEW outcome \in {"sent", "gave up"}, Actions!Logged(r, outcome)
  PROVE  /\ devLog' \in Seq(Line) /\ Len(devLog') = Len(devLog)
         /\ \A q \in Actions!Ids : devLog'[q] = IF q = r /\ devLog[q] = "none" THEN outcome ELSE devLog[q]
<1>1. r \in 1..Len(devLog) /\ devLog \in Seq(Line)
  BY IdsAre DEF ActionTypes
<1>2. PICK line \in Line : line = IF devLog[r] = "none" THEN outcome ELSE devLog[r]
  <2>1. devLog[r] \in Line /\ outcome \in Line
    BY <1>1, ElementOfSeq DEF Line
  <2> QED
    BY <2>1
<1>3. devLog' = [devLog EXCEPT ![r] = line]
  BY <1>2 DEF Actions!Logged
<1>4. /\ devLog' \in Seq(Line) /\ Len(devLog') = Len(devLog)
      /\ \A j \in 1 .. Len(devLog) : devLog'[j] = IF j = r THEN line ELSE devLog[j]
  BY <1>1, <1>2, <1>3, LineWritten
<1>5. Actions!Ids = 1..Len(devLog)
  BY IdsAre DEF ActionTypes
<1> QED
  BY <1>2, <1>4, <1>5

(* A flush moves alone.                                                    *)
LEMMA GoKeeps ==
  ASSUME ActionTypes, NEW f \in Flush, NEW g \in FlushType, Actions!Go(f, g)
  PROVE  /\ flush' \in [Flush -> FlushType]
         /\ flush'[f] = g /\ \A h \in Flush \ {f} : flush'[h] = flush[h]
  BY DEF ActionTypes, Actions!Go

LEMMA RowIs ==
  ASSUME ActionTypes, NEW r \in Actions!Ids
  PROVE  /\ actionRuns[r] \in RunType
         /\ devLog[r] \in Line
  BY IdsAre, ElementOfSeq DEF ActionTypes

-----------------------------------------------------------------------------
(* Every step keeps the invariant.                                         *)

(* A step of one flush: what it writes is no other's, and what is over     *)
(* stays as it is.                                                         *)
LEMMA FlushStep ==
  ASSUME ActionInv, NEW f \in Flush,
         flush' \in [Flush -> FlushType], \A h \in Flush \ {f} : flush'[h] = flush[h],
         actionRuns' \in Seq(RunType), Len(actionRuns') = Len(actionRuns),
         devLog' \in Seq(Line), Len(devLog') = Len(devLog),
         \A r \in Actions!Ids : actionRuns'[r].outlasted <=> actionRuns[r].outlasted,
         \A r \in Actions!Ids : Actions!InTime(r) /\ actionRuns'[r] # actionRuns[r] => \A h \in Flush \ {f} : ~Works(h, r),
         NamesARun(f)', (flush[f].todo \subseteq Actions!Ids)', (flush[f].crashed \subseteq Actions!Ids)', Sending(f)',
         \A r \in Actions!Ids : Actions!InTime(r) /\ Works(f, r)' => \A h \in Flush \ {f} : ~Works(h, r),
         \A r \in Actions!Ids : Actions!InTime(r) /\ Over(r) => actionRuns'[r].done /\ actionRuns'[r].error = actionRuns[r].error /\ ~Works(f, r)',
         \A r \in Actions!Ids : Actions!InTime(r) /\ devLog'[r] # devLog[r] => Over(r)' /\ (actionRuns[r].error <=> devLog[r] = "gave up")',
         \A r \in Actions!Ids : Actions!InTime(r) /\ r \in GivingUp(f)' => Over(r)' /\ actionRuns'[r].error
  PROVE  ActionInv'
<1>1. Actions!Ids' = Actions!Ids /\ Actions!Ids = 1..Len(actionRuns)
  BY IdsAre, LenProperties DEF ActionInv, Actions!Ids
<1>0. \A r \in Actions!Ids : Actions!InTime(r)' <=> Actions!InTime(r)
  BY DEF Actions!InTime
<1>2. ASSUME NEW r PROVE \A h \in Flush \ {f} : Works(h, r)' <=> Works(h, r)
  BY DEF Works
<1>3. \A r \in Actions!Ids : Actions!InTime(r) /\ Over(r) => Over(r)' /\ actionRuns'[r].error = actionRuns[r].error
  BY <1>2 DEF Over
<1>4. ActionTypes'
  <2>1. ASSUME NEW h \in Flush \ {f}
        PROVE  NamesARun(h)' /\ (flush[h].todo \subseteq Actions!Ids)' /\ (flush[h].crashed \subseteq Actions!Ids)'
    BY <1>1 DEF ActionInv, ActionTypes, NamesARun
  <2> QED
    BY <2>1 DEF ActionInv, ActionTypes
<1>5. \A h \in Flush : Sending(h)'
  <2>1. ASSUME NEW h \in Flush \ {f} PROVE Sending(h)'
    <3>1. flush'[h] = flush[h] /\ Sending(h) /\ NamesARun(h)
      BY DEF ActionInv, ActionTypes
    <3>2. CASE flush[h].at \notin Busy
      BY <3>1, <3>2 DEF Sending
    <3>3. CASE flush[h].at \in Busy
      <4>1. flush[h].run \in Actions!Ids /\ Works(h, flush[h].run)
        BY <3>1, <3>3 DEF NamesARun, Works
      <4>2. Actions!InTime(flush[h].run) => Actions!Run(h)' = Actions!Run(h)
        BY <3>1, <4>1 DEF Actions!Run
      <4>3. Actions!InTime(flush[h].run)' <=> Actions!InTime(flush[h].run)
        BY <3>1, <4>1 DEF Actions!InTime
      <4> QED
        BY <3>1, <4>2, <4>3 DEF Sending, Leased
    <3> QED
      BY <3>2, <3>3
  <2> QED
    BY <2>1
<1>6. Alone'
  <2>1. ASSUME NEW g \in Flush, NEW h \in Flush, NEW r \in Actions!Ids, Actions!InTime(r)', Works(g, r)', Works(h, r)' PROVE g = h
    <3>1. CASE g = f \/ h = f
      BY <3>1, <2>1, <1>0, <1>2
    <3>2. CASE g # f /\ h # f
      BY <3>2, <2>1, <1>0, <1>2 DEF ActionInv, Alone
    <3> QED
      BY <3>1, <3>2
  <2> QED
    BY <2>1, <1>1 DEF Alone
<1>7. ToldWhenOver'
  BY <1>0, <1>1, <1>3 DEF ActionInv, ToldWhenOver
<1>8. GivenUpWhenOver'
  <2>1. ASSUME NEW h \in Flush \ {f}, NEW r \in GivingUp(h)', Actions!InTime(r)' PROVE Over(r)' /\ actionRuns'[r].error
    <3>1. r \in GivingUp(h) /\ NamesARun(h) /\ flush[h].crashed \subseteq Actions!Ids
      BY DEF GivingUp, Actions!At, ActionInv, ActionTypes
    <3>2. r \in Actions!Ids
      BY <3>1 DEF GivingUp, Actions!At, NamesARun
    <3> QED
      BY <2>1, <3>1, <3>2, <1>0, <1>3 DEF ActionInv, GivenUpWhenOver
  <2>2. ASSUME NEW r \in GivingUp(f)' PROVE r \in Actions!Ids
    BY <1>1 DEF GivingUp, Actions!At, NamesARun
  <2> QED
    BY <1>0, <2>1, <2>2 DEF GivenUpWhenOver
<1> QED
  BY <1>4, <1>5, <1>6, <1>7, <1>8 DEF ActionInv

Resting(f, g) ==
  /\ g \in FlushType /\ g.at \in {"idle", "swept", "next"} /\ g.run = 0
  /\ g.todo \subseteq Actions!Ids /\ g.crashed \subseteq flush[f].crashed

(* A flush that goes on without a run in hand, and writes nothing.         *)
LEMMA RestStep ==
  ASSUME ActionInv, NEW f \in Flush, NEW g, Resting(f, g), Actions!Go(f, g), UNCHANGED <<actionRuns, devLog>>
  PROVE  ActionInv'
<1>1. /\ flush' \in [Flush -> FlushType]
      /\ flush'[f] = g /\ \A h \in Flush \ {f} : flush'[h] = flush[h]
  BY GoKeeps DEF Resting, ActionInv
<1>2. Actions!Ids' = Actions!Ids /\ flush[f].crashed \subseteq Actions!Ids
  BY DEF Actions!Ids, ActionInv, ActionTypes
<1>3. ASSUME NEW r PROVE ~Works(f, r)'
  BY <1>1 DEF Works, Busy, Resting
<1>4. ASSUME NEW r \in GivingUp(f)' PROVE r \in flush[f].crashed
  BY <1>1 DEF GivingUp, Actions!At, Resting
<1>5. \A r \in Actions!Ids : Over(r) => Over(r)'
  BY <1>1, <1>3 DEF Over, Works
<1>6. (flush[f].todo \subseteq Actions!Ids)' /\ (flush[f].crashed \subseteq Actions!Ids)' /\ NamesARun(f)' /\ Sending(f)'
  BY <1>1, <1>2 DEF Resting, NamesARun, Sending, Busy
<1>7. \A r \in Actions!Ids : Actions!InTime(r) /\ r \in GivingUp(f)' => Over(r)' /\ actionRuns'[r].error
  BY <1>4, <1>5 DEF ActionInv, GivenUpWhenOver, GivingUp
<1>8. \A r \in Actions!Ids : Over(r) => actionRuns'[r].done /\ actionRuns'[r].error = actionRuns[r].error /\ ~Works(f, r)'
  BY <1>3 DEF Over
<1> QED
  BY <1>1, <1>3, <1>6, <1>7, <1>8, FlushStep DEF ActionInv, ActionTypes

(* What a flush has in hand once it wrote "run" to row r.                  *)
Holding(f, g, r, run) ==
  /\ g \in FlushType /\ g.todo \subseteq Actions!Ids /\ g.crashed \subseteq flush[f].crashed
  /\ run.outlasted <=> actionRuns[r].outlasted
  /\ \/ g.at = "next" /\ g.run = 0
     \/ /\ g.run = r
        /\ \/ g.at = "deliver" /\ run.claim = "held" /\ ~run.done
           \/ g.at = "sentLine" /\ run.claim = "none" /\ run.done /\ ~run.error
           \/ g.at = "gaveUp" /\ run.done /\ run.error

(* A flush that writes the row of a run which, if in time, no other flush  *)
(* works on.                                                               *)
LEMMA RowStep ==
  ASSUME ActionInv, NEW f \in Flush, NEW r \in Actions!Ids, NEW run \in RunType, NEW g,
         Holding(f, g, r, run), Actions!Write(r, run), Actions!Go(f, g), UNCHANGED devLog,
         Actions!InTime(r) => ~Over(r) /\ \A h \in Flush \ {f} : ~Works(h, r)
  PROVE  ActionInv'
<1>1. /\ flush' \in [Flush -> FlushType]
      /\ flush'[f] = g /\ \A h \in Flush \ {f} : flush'[h] = flush[h]
  BY GoKeeps DEF Holding, ActionInv
<1>2. /\ actionRuns' \in Seq(RunType) /\ Len(actionRuns') = Len(actionRuns) /\ Actions!Ids' = Actions!Ids
      /\ \A q \in Actions!Ids : actionRuns'[q] = IF q = r THEN run ELSE actionRuns[q]
  BY WriteKeeps DEF ActionInv
<1>3. flush[f].crashed \subseteq Actions!Ids /\ \A q \in flush[f].crashed : Actions!InTime(q) => Over(q) /\ actionRuns[q].error
  BY DEF ActionInv, ActionTypes, GivenUpWhenOver, GivingUp
<1>4. ASSUME NEW q \in Actions!Ids, q # r PROVE ~Works(f, q)'
  BY <1>1, <1>4 DEF Works, Busy, Holding
<1>5. ASSUME NEW q \in Actions!Ids, Actions!InTime(q), Over(q) PROVE q # r /\ actionRuns'[q] = actionRuns[q] /\ ~Works(f, q)' /\ Over(q)'
  BY <1>1, <1>2, <1>4, <1>5 DEF Over, Works
<1>6. NamesARun(f)' /\ (flush[f].todo \subseteq Actions!Ids)' /\ (flush[f].crashed \subseteq Actions!Ids)'
  BY <1>1, <1>2, <1>3 DEF Holding, NamesARun, Busy
<1>7. Sending(f)'
  BY <1>1, <1>2 DEF Holding, Sending, Actions!Run, Leased, Busy
<1>8. ASSUME NEW q \in Actions!Ids, Actions!InTime(q), q \in GivingUp(f)' PROVE Over(q)' /\ actionRuns'[q].error
  <2>1. CASE q \in flush[f].crashed
    BY <2>1, <1>3, <1>5, <1>8
  <2>2. CASE q \notin flush[f].crashed
    <3>1. g.at = "gaveUp" /\ q = r /\ run.done /\ run.error
      BY <1>1, <1>8, <2>2 DEF GivingUp, Actions!At, Holding
    <3>2. \A h \in Flush : ~Works(h, r)'
      BY <1>1, <1>8, <3>1 DEF Works, Busy
    <3> QED
      BY <1>2, <3>1, <3>2 DEF Over
  <2> QED
    BY <2>1, <2>2
<1>9. \A q \in Actions!Ids : Actions!InTime(q) /\ Works(f, q)' => \A h \in Flush \ {f} : ~Works(h, q)
  BY <1>4
<1>10. \A q \in Actions!Ids : Actions!InTime(q) /\ actionRuns'[q] # actionRuns[q] => \A h \in Flush \ {f} : ~Works(h, q)
  BY <1>2
<1>11. \A q \in Actions!Ids : Actions!InTime(q) /\ Over(q) => actionRuns'[q].done /\ actionRuns'[q].error = actionRuns[q].error /\ ~Works(f, q)'
  BY <1>5 DEF Over
<1>12. \A q \in Actions!Ids : actionRuns'[q].outlasted <=> actionRuns[q].outlasted
  BY <1>2 DEF Holding
<1> QED
  BY <1>1, <1>2, <1>6, <1>7, <1>8, <1>9, <1>10, <1>11, <1>12, FlushStep DEF ActionInv, ActionTypes

(* A flush that writes a run's line, the row being written for the last    *)
(* time.                                                                   *)
LEMMA LineStep ==
  ASSUME ActionInv, NEW f \in Flush, NEW r \in Actions!Ids, NEW outcome \in {"sent", "gave up"}, NEW g,
         Resting(f, g), Actions!Logged(r, outcome), Actions!Go(f, g), UNCHANGED actionRuns,
         Actions!InTime(r) => /\ actionRuns[r].done /\ (actionRuns[r].error <=> outcome = "gave up")
                              /\ \A h \in Flush \ {f} : ~Works(h, r)
  PROVE  ActionInv'
<1>1. /\ flush' \in [Flush -> FlushType]
      /\ flush'[f] = g /\ \A h \in Flush \ {f} : flush'[h] = flush[h]
  BY GoKeeps DEF Resting, ActionInv
<1>2. Actions!Ids' = Actions!Ids /\ flush[f].crashed \subseteq Actions!Ids
  BY DEF Actions!Ids, ActionInv, ActionTypes
<1>3. ASSUME NEW q PROVE ~Works(f, q)'
  BY <1>1 DEF Works, Busy, Resting
<1>4. ASSUME NEW q \in GivingUp(f)' PROVE q \in flush[f].crashed
  BY <1>1 DEF GivingUp, Actions!At, Resting
<1>5. \A q \in Actions!Ids : Over(q) => Over(q)'
  BY <1>1, <1>3 DEF Over, Works
<1>6. (flush[f].todo \subseteq Actions!Ids)' /\ (flush[f].crashed \subseteq Actions!Ids)' /\ NamesARun(f)' /\ Sending(f)'
  BY <1>1, <1>2 DEF Resting, NamesARun, Sending, Busy
<1>7. \A q \in Actions!Ids : Actions!InTime(q) /\ q \in GivingUp(f)' => Over(q)' /\ actionRuns'[q].error
  BY <1>4, <1>5 DEF ActionInv, GivenUpWhenOver, GivingUp
<1>8. \A q \in Actions!Ids : Over(q) => actionRuns'[q].done /\ actionRuns'[q].error = actionRuns[q].error /\ ~Works(f, q)'
  BY <1>3 DEF Over
<1>9. /\ devLog' \in Seq(Line) /\ Len(devLog') = Len(devLog)
      /\ \A q \in Actions!Ids : devLog'[q] = IF q = r /\ devLog[q] = "none" THEN outcome ELSE devLog[q]
  BY LoggedKeeps DEF ActionInv
<1>10. Actions!InTime(r) => Over(r)'
  BY <1>1, <1>3 DEF Over, Works
<1>11. \A q \in Actions!Ids : Actions!InTime(q) /\ devLog'[q] # devLog[q] => Over(q)' /\ (actionRuns[q].error <=> devLog[q] = "gave up")'
  BY <1>9, <1>10
<1> QED
  BY <1>1, <1>3, <1>6, <1>7, <1>8, <1>9, <1>11, FlushStep DEF ActionInv, ActionTypes

-----------------------------------------------------------------------------
(* Every step of a flush keeps the invariant.                              *)

LEMMA ClaimKeeps ==
  ASSUME ActionInv, NEW f \in Flush, Actions!Claim(f)
  PROVE  ActionInv'
<1>1. PICK r \in flush[f].todo :
        LET g == [flush[f] EXCEPT !.todo = @ \ {r}]
        IN  IF Actions!MayClaim(actionRuns[r])
              THEN /\ Actions!Write(r, [actionRuns[r] EXCEPT !.attempts = @ + 1, !.claim = "held"])
                   /\ Actions!Go(f, [g EXCEPT !.at = "deliver", !.run = r, !.attempts = actionRuns[r].attempts + 1])
              ELSE Actions!Go(f, g) /\ UNCHANGED actionRuns
  BY DEF Actions!Claim
<1>2. /\ r \in Actions!Ids /\ actionRuns[r] \in RunType /\ flush[f] \in FlushType /\ flush[f].at = "next"
      /\ flush[f].run = 0 /\ UNCHANGED devLog /\ flush[f].todo \subseteq Actions!Ids /\ flush[f].crashed \subseteq Actions!Ids
  BY RowIs DEF ActionInv, ActionTypes, Actions!Claim, Actions!At, NamesARun, Busy
<1>3. CASE ~Actions!MayClaim(actionRuns[r])
  <2> DEFINE g == [flush[f] EXCEPT !.todo = @ \ {r}]
  <2>1. Resting(f, g)
    BY <1>2 DEF FlushType, Resting
  <2>2. Actions!Go(f, g) /\ UNCHANGED <<actionRuns, devLog>>
    BY <1>1, <1>2, <1>3
  <2> HIDE DEF g
  <2> QED
    BY <2>1, <2>2, RestStep
<1>4. CASE Actions!MayClaim(actionRuns[r])
  <2> DEFINE run == [actionRuns[r] EXCEPT !.attempts = @ + 1, !.claim = "held"]
             g == [flush[f] EXCEPT !.todo = @ \ {r}, !.at = "deliver", !.run = r, !.attempts = actionRuns[r].attempts + 1]
  <2>1. run \in RunType /\ run.claim = "held" /\ ~run.done /\ (run.outlasted <=> actionRuns[r].outlasted)
    <3>1. actionRuns[r].attempts + 1 \in Nat
      BY <1>2 DEF RunType
    <3>2. run \in RunType /\ run.claim = "held" /\ run.done = actionRuns[r].done /\ (run.outlasted <=> actionRuns[r].outlasted)
      BY <1>2, <3>1 DEF RunType
    <3> QED
      BY <1>4, <3>2 DEF Actions!MayClaim, Actions!Claimable
  <2>2. Holding(f, g, r, run)
    BY <1>2, <2>1 DEF RunType, FlushType, Busy, Holding
  <2>3. Actions!Write(r, run) /\ Actions!Go(f, g)
    BY <1>1, <1>2, <1>4 DEF Actions!Write, Actions!Go, FlushType
  <2> HIDE DEF run, g
  <2>4. Actions!InTime(r) => \A h \in Flush : ~Works(h, r)
    BY <1>2, <1>4 DEF ActionInv, Works, Sending, Busy, Actions!Run, Leased, Actions!MayClaim, Actions!Claimable
  <2>5. ~Over(r)
    BY <1>4 DEF Over, Actions!MayClaim, Actions!Claimable
  <2> QED
    BY <1>2, <2>1, <2>2, <2>3, <2>4, <2>5, RowStep
<1> QED
  BY <1>3, <1>4

LEMMA SweepKeeps ==
  ASSUME ActionInv, NEW f \in Flush, Actions!Sweep(f)
  PROVE  ActionInv'
<1> DEFINE g == [Actions!AtRest EXCEPT !.at = "swept", !.crashed = Actions!Abandoned]
           Given(r) == [actionRuns[r] EXCEPT !.claim = "none", !.done = TRUE, !.error = TRUE]
<1>1. Actions!Ids = 1..Len(actionRuns) /\ Len(actionRuns) \in Nat /\ actionRuns \in Seq(RunType) /\ UNCHANGED devLog
  BY IdsAre, LenProperties DEF ActionInv, ActionTypes, Actions!Sweep
<1>2. ASSUME NEW r \in Actions!Ids
      PROVE  /\ actionRuns[r] \in RunType /\ Given(r) \in RunType /\ Given(r).done /\ Given(r).error
             /\ Given(r).outlasted <=> actionRuns[r].outlasted
  BY RowIs DEF ActionInv, RunType
<1>3. actionRuns' = [r \in Actions!Ids |-> IF r \in Actions!Abandoned THEN Given(r) ELSE actionRuns[r]] /\ Actions!Go(f, g)
  BY DEF Actions!Sweep
<1>4. /\ g \in FlushType /\ g.at = "swept" /\ g.run = 0 /\ g.todo = {} /\ g.crashed = Actions!Abandoned
      /\ Actions!Abandoned \subseteq Actions!Ids /\ Actions!Ids \subseteq Nat
  <2>1. Actions!Abandoned \subseteq Actions!Ids /\ Actions!Ids \subseteq Nat
    BY <1>1 DEF Actions!Abandoned
  <2> QED
    BY <2>1 DEF FlushType, Actions!AtRest
<1> HIDE DEF g, Given
<1>5. actionRuns' \in Seq(RunType) /\ Len(actionRuns') = Len(actionRuns) /\ Actions!Ids' = Actions!Ids
  <2>1. actionRuns' \in [1..Len(actionRuns) -> RunType]
    BY <1>1, <1>2, <1>3
  <2> QED
    BY <1>1, <2>1, IsASeq, LenProperties DEF Actions!Ids
<1>6. /\ flush' \in [Flush -> FlushType]
      /\ flush'[f] = g /\ \A h \in Flush \ {f} : flush'[h] = flush[h]
  BY <1>3, <1>4, GoKeeps DEF ActionInv
<1>7. ASSUME NEW r \in Actions!Abandoned, Actions!InTime(r) PROVE \A h \in Flush : ~Works(h, r)
  <2>1. r \in Actions!Ids /\ ~actionRuns[r].done /\ actionRuns[r].claim = "stale"
    BY DEF Actions!Abandoned
  <2> QED
    BY <1>7, <2>1 DEF ActionInv, Sending, Works, Actions!Run, Leased, Busy
<1>8. ASSUME NEW r \in Actions!Ids PROVE ~Works(f, r)'
  BY <1>4, <1>6 DEF Works, Busy
<1>9. ASSUME NEW r \in Actions!Abandoned, Actions!InTime(r) PROVE Over(r)' /\ actionRuns'[r].error
  BY <1>2, <1>3, <1>4, <1>6, <1>7, <1>8, <1>9 DEF Over, Works
<1>10. ASSUME NEW r \in GivingUp(f)' PROVE r \in Actions!Abandoned
  BY <1>4, <1>6 DEF GivingUp, Actions!At
<1>11. NamesARun(f)' /\ (flush[f].todo \subseteq Actions!Ids)' /\ (flush[f].crashed \subseteq Actions!Ids)' /\ Sending(f)'
  BY <1>4, <1>5, <1>6 DEF NamesARun, Sending, Busy
<1>12. \A r \in Actions!Ids : actionRuns'[r] # actionRuns[r] => r \in Actions!Abandoned
  BY <1>3
<1>13. \A r \in Actions!Ids : Over(r) => actionRuns'[r] = actionRuns[r] /\ actionRuns[r].done
  BY <1>3 DEF Over, Actions!Abandoned
<1>14. \A r \in Actions!Ids : actionRuns'[r].outlasted <=> actionRuns[r].outlasted
  BY <1>2, <1>3
<1> QED
  BY <1>1, <1>5, <1>6, <1>7, <1>8, <1>9, <1>10, <1>11, <1>12, <1>13, <1>14, FlushStep DEF ActionInv, ActionTypes

(* What is known of the run a flush works on.                              *)
LEMMA InHand ==
  ASSUME ActionInv, NEW f \in Flush, flush[f].at \in Busy
  PROVE  /\ flush[f].run \in Actions!Ids /\ Actions!Run(f) \in RunType /\ flush[f] \in FlushType
         /\ flush[f].todo \subseteq Actions!Ids /\ flush[f].crashed \subseteq Actions!Ids
         /\ ~Over(flush[f].run)
         /\ Actions!InTime(flush[f].run) => \A h \in Flush \ {f} : ~Works(h, flush[f].run)
<1>1. flush[f].run \in Actions!Ids
  BY DEF ActionInv, ActionTypes, NamesARun
<1>2. Works(f, flush[f].run)
  BY DEF Works
<1> QED
  BY <1>1, <1>2, RowIs DEF ActionInv, ActionTypes, Over, Alone, Actions!Run

LEMMA RecordSentKeeps ==
  ASSUME ActionInv, NEW f \in Flush, Actions!RecordSent(f)
  PROVE  ActionInv'
<1> DEFINE r == flush[f].run
           g == [flush[f] EXCEPT !.at = "sentLine"]
           run == Actions!Sent(f)
<1>1. flush[f].at = "sent" /\ flush[f].at \in Busy
  BY DEF Actions!RecordSent, Actions!At, Busy
<1>2. run \in RunType /\ run.claim = "none" /\ run.done /\ ~run.error /\ (run.outlasted <=> actionRuns[r].outlasted)
  BY <1>1, InHand DEF Actions!Sent, RunType, Actions!Run
<1>3. Holding(f, g, r, run)
  BY <1>1, <1>2, InHand DEF Holding, FlushType, Busy
<1>4. Actions!Write(r, run) /\ Actions!Go(f, g) /\ UNCHANGED devLog
  BY DEF Actions!RecordSent
<1> HIDE DEF run, g
<1> QED
  BY <1>1, <1>2, <1>3, <1>4, InHand, RowStep

LEMMA RecordFailureKeeps ==
  ASSUME ActionInv, NEW f \in Flush, Actions!RecordFailure(f)
  PROVE  ActionInv'
<1> DEFINE r == flush[f].run
           g == IF Actions!LastAttempt(f) THEN [flush[f] EXCEPT !.at = "gaveUp"] ELSE Actions!Onward(f)
           run == Actions!Failed(f)
<1>1. flush[f].at = "failed" /\ flush[f].at \in Busy
  BY DEF Actions!RecordFailure, Actions!At, Busy
<1>2. Actions!LastAttempt(f) \in BOOLEAN
  BY DEF Actions!LastAttempt
<1>3. run \in RunType /\ run.error /\ run.done = Actions!LastAttempt(f) /\ (run.outlasted <=> actionRuns[r].outlasted)
  BY <1>1, <1>2, InHand DEF Actions!Failed, RunType, Actions!Run
<1>4. Holding(f, g, r, run)
  BY <1>1, <1>3, InHand DEF Holding, FlushType, Busy, Actions!Onward
<1>5. Actions!Write(r, run) /\ Actions!Go(f, g) /\ UNCHANGED devLog
  BY DEF Actions!RecordFailure
<1> HIDE DEF run, g
<1> QED
  BY <1>1, <1>3, <1>4, <1>5, InHand, RowStep

(* A delivery that worked or failed, and a line that could not be written: *)
(* the flush has the run in hand before and after.                         *)
LEMMA AtStep ==
  ASSUME ActionInv, NEW f \in Flush, flush[f].at \in Busy, NEW at \in Busy,
         Actions!Go(f, [flush[f] EXCEPT !.at = at]), UNCHANGED <<actionRuns, devLog>>,
         \/ flush[f].at = "deliver" /\ at \in {"sent", "failed"}
         \/ flush[f].at = "sentLine" /\ at = "failed"
  PROVE  ActionInv'
<1> DEFINE g == [flush[f] EXCEPT !.at = at]
<1>1. /\ g \in FlushType /\ g.at = at /\ g.run = flush[f].run
      /\ g.todo = flush[f].todo /\ g.crashed = flush[f].crashed
  BY InHand DEF FlushType, Busy
<1> HIDE DEF g
<1>2. /\ flush' \in [Flush -> FlushType]
      /\ flush'[f] = g /\ \A h \in Flush \ {f} : flush'[h] = flush[h]
  BY <1>1, GoKeeps DEF ActionInv, g
<1>3. Actions!Ids' = Actions!Ids
  BY DEF Actions!Ids
<1>4. NamesARun(f)' /\ (flush[f].todo \subseteq Actions!Ids)' /\ (flush[f].crashed \subseteq Actions!Ids)'
  BY <1>1, <1>2, <1>3, InHand DEF NamesARun
<1>5. Sending(f)'
  <2>1. Actions!Run(f)' = Actions!Run(f) /\ Sending(f) /\ (Actions!InTime(flush[f].run)' <=> Actions!InTime(flush[f].run))
    BY <1>1, <1>2 DEF Actions!Run, ActionInv, Actions!InTime
  <2> QED
    BY <1>1, <1>2, <2>1 DEF Sending, Leased, Busy
<1>6. ASSUME NEW h \in Flush, NEW r PROVE Works(h, r)' <=> Works(h, r)
  BY <1>1, <1>2 DEF Works
<1>7. \A r \in Actions!Ids : Actions!InTime(r) /\ Works(f, r)' => \A h \in Flush \ {f} : ~Works(h, r)
  BY <1>6 DEF ActionInv, Alone
<1>8. \A r \in Actions!Ids : Over(r) => Over(r)'
  BY <1>6 DEF Over
<1>9. \A r \in Actions!Ids : Actions!InTime(r) /\ r \in GivingUp(f)' => Over(r)' /\ actionRuns'[r].error
  <2>1. ASSUME NEW r \in GivingUp(f)' PROVE r \in GivingUp(f)
    BY <1>1, <1>2 DEF GivingUp, Actions!At, Busy
  <2> QED
    BY <2>1, <1>8 DEF ActionInv, GivenUpWhenOver
<1>10. \A r \in Actions!Ids : Over(r) => actionRuns'[r].done /\ actionRuns'[r].error = actionRuns[r].error /\ ~Works(f, r)'
  BY <1>6 DEF Over
<1> QED
  BY <1>2, <1>4, <1>5, <1>7, <1>9, <1>10, FlushStep DEF ActionInv, ActionTypes

LEMMA DeliverKeeps ==
  ASSUME ActionInv, NEW f \in Flush, Actions!Deliver(f)
  PROVE  ActionInv'
<1>1. /\ flush[f].at = "deliver" /\ UNCHANGED <<actionRuns, devLog>>
      /\ \E at \in {"sent", "failed"} : Actions!Go(f, [flush[f] EXCEPT !.at = at])
  BY DEF Actions!Deliver, Actions!At
<1> QED
  BY <1>1, AtStep DEF Busy

LEMMA LogSentKeeps ==
  ASSUME ActionInv, NEW f \in Flush, Actions!LogSent(f)
  PROVE  ActionInv'
<1>1. flush[f].at = "sentLine" /\ flush[f].at \in Busy /\ UNCHANGED actionRuns
  BY DEF Actions!LogSent, Actions!At, Busy
<1>2. CASE Actions!Logged(flush[f].run, "sent") /\ Actions!Go(f, Actions!Onward(f))
  <2>1. Resting(f, Actions!Onward(f))
    BY <1>1, InHand DEF Resting, Actions!Onward, FlushType
  <2>2. Actions!InTime(flush[f].run) => Actions!Run(f).done /\ ~Actions!Run(f).error
    BY <1>1 DEF ActionInv, Sending
  <2> QED
    BY <1>1, <1>2, <2>1, <2>2, InHand, LineStep DEF Actions!Run
<1>3. CASE Actions!Go(f, [flush[f] EXCEPT !.at = "failed"]) /\ UNCHANGED devLog
  BY <1>1, <1>3, AtStep DEF Busy
<1> QED
  BY <1>2, <1>3 DEF Actions!LogSent

LEMMA GivingUpKeeps ==
  ASSUME ActionInv, NEW f \in Flush, Actions!LogGaveUp(f) \/ Actions!LogAbandoned(f)
  PROVE  ActionInv'
<1>1. /\ flush[f] \in FlushType /\ flush[f].todo \subseteq Actions!Ids /\ flush[f].crashed \subseteq Actions!Ids
      /\ NamesARun(f) /\ UNCHANGED actionRuns
      /\ \A r \in GivingUp(f) : Actions!InTime(r) => Over(r) /\ actionRuns[r].error
  BY DEF ActionInv, ActionTypes, GivenUpWhenOver, Actions!LogGaveUp, Actions!LogAbandoned
<1>2. Resting(f, Actions!AtRest)
  BY DEF Resting, Actions!AtRest, FlushType
<1>3. CASE Actions!Go(f, Actions!AtRest) /\ UNCHANGED devLog
  BY <1>1, <1>2, <1>3, RestStep
<1>4. CASE /\ Actions!LogGaveUp(f) /\ Actions!Logged(flush[f].run, "gave up") /\ Actions!Go(f, Actions!Onward(f))
  <2>1. flush[f].at = "gaveUp" /\ flush[f].run \in Actions!Ids /\ flush[f].run \in GivingUp(f)
    BY <1>1, <1>4 DEF Actions!LogGaveUp, Actions!At, NamesARun, GivingUp
  <2>2. Resting(f, Actions!Onward(f))
    BY <1>1 DEF Resting, Actions!Onward, FlushType
  <2> QED
    BY <1>1, <1>4, <2>1, <2>2, LineStep DEF Over
<1>5. CASE Actions!LogAbandoned(f) /\ ~(Actions!Go(f, Actions!AtRest) /\ UNCHANGED devLog)
  <2>1. PICK r \in flush[f].crashed : Actions!Logged(r, "gave up") /\ Actions!Go(f, [flush[f] EXCEPT !.crashed = @ \ {r}])
    BY <1>5 DEF Actions!LogAbandoned
  <2>2. Resting(f, [flush[f] EXCEPT !.crashed = @ \ {r}])
    BY <1>1, <1>5 DEF Resting, FlushType, Actions!LogAbandoned, Actions!At, NamesARun, Busy
  <2> QED
    BY <1>1, <2>1, <2>2, LineStep DEF GivingUp, Over
<1> QED
  BY <1>3, <1>4, <1>5 DEF Actions!LogGaveUp

LEMMA RestKeeps ==
  ASSUME ActionInv, NEW f \in Flush, Actions!SelectDue(f) \/ Actions!EndFlush(f) \/ Actions!Crash(f)
  PROVE  ActionInv'
<1>1. /\ flush[f] \in FlushType /\ flush[f].todo \subseteq Actions!Ids /\ flush[f].crashed \subseteq Actions!Ids
      /\ NamesARun(f) /\ UNCHANGED <<actionRuns, devLog>> /\ Actions!Ids \subseteq Nat
  BY IdsAre DEF ActionInv, ActionTypes, Actions!SelectDue, Actions!EndFlush, Actions!Crash
<1>2. Resting(f, Actions!AtRest)
  BY DEF Resting, Actions!AtRest, FlushType
<1>3. CASE Actions!Go(f, Actions!AtRest)
  BY <1>1, <1>2, <1>3, RestStep
<1>4. CASE Actions!SelectDue(f)
  <2> DEFINE g == [flush[f] EXCEPT !.at = "next",
        !.todo = {r \in Actions!Ids : Actions!Claimable(actionRuns[r]) /\ actionRuns[r].attempts < MAX_ATTEMPTS /\ actionRuns[r].due}]
  <2>1. Resting(f, g)
    BY <1>1, <1>4 DEF Resting, FlushType, Actions!SelectDue, Actions!At, NamesARun, Busy
  <2>2. Actions!Go(f, g)
    BY <1>4 DEF Actions!SelectDue
  <2> HIDE DEF g
  <2> QED
    BY <1>1, <2>1, <2>2, RestStep
<1> QED
  BY <1>3, <1>4 DEF Actions!EndFlush, Actions!Crash
-----------------------------------------------------------------------------
(* The steps of the queue and of time.                                     *)

LEMMA QueueKeeps ==
  ASSUME ActionInv, Actions!QueueRun
  PROVE  ActionInv'
<1>1. /\ actionRuns' = Append(actionRuns, Actions!NewRun) /\ devLog' = Append(devLog, "none") /\ UNCHANGED flush
      /\ actionRuns \in Seq(RunType) /\ devLog \in Seq(Line) /\ Len(devLog) = Len(actionRuns) /\ Actions!Ids = 1..Len(actionRuns)
  BY IdsAre DEF Actions!QueueRun, ActionInv, ActionTypes
<1>2. Actions!NewRun \in RunType /\ "none" \in Line
  BY DEF Actions!NewRun, RunType, Line
<1>3. /\ actionRuns' \in Seq(RunType) /\ Len(actionRuns') = Len(actionRuns) + 1
      /\ \A r \in 1..Len(actionRuns) : actionRuns'[r] = actionRuns[r]
  BY <1>1, <1>2, AppendProperties
<1>4. /\ devLog' \in Seq(Line) /\ Len(devLog') = Len(devLog) + 1 /\ devLog'[Len(devLog) + 1] = "none"
      /\ \A r \in 1..Len(devLog) : devLog'[r] = devLog[r]
  BY <1>1, <1>2, AppendProperties
<1>5. Actions!Ids' = 1..(Len(actionRuns) + 1) /\ Len(actionRuns) \in Nat
  BY <1>1, <1>3, LenProperties DEF Actions!Ids
<1>6. Actions!Ids \subseteq Actions!Ids' /\ \A r \in Actions!Ids' : r \in Actions!Ids \/ r = Len(actionRuns) + 1
  BY <1>1, <1>5
<1>7. ActionTypes'
  BY <1>1, <1>3, <1>4, <1>6 DEF ActionInv, ActionTypes, NamesARun
<1>8. ASSUME NEW f \in Flush, NEW r PROVE Works(f, r)' <=> Works(f, r)
  BY <1>1 DEF Works
<1>9. ASSUME NEW f \in Flush, NEW r, Works(f, r) PROVE r \in Actions!Ids
  BY <1>9 DEF Works, ActionInv, ActionTypes, NamesARun
<1>10. ASSUME NEW f \in Flush PROVE Sending(f)'
  <2>1. CASE flush[f].at \in Busy
    <3>1. Actions!Run(f)' = Actions!Run(f) /\ (Actions!InTime(flush[f].run)' <=> Actions!InTime(flush[f].run))
      BY <1>1, <1>3, <1>9, <2>1 DEF Actions!Run, Works, Actions!InTime
    <3> QED
      BY <1>1, <3>1 DEF ActionInv, Sending, Leased
  <2>2. CASE flush[f].at \notin Busy
    BY <1>1, <2>2 DEF Sending
  <2> QED
    BY <2>1, <2>2
<1>0. \A r \in Actions!Ids : Actions!InTime(r)' <=> Actions!InTime(r)
  BY <1>1, <1>3 DEF Actions!InTime
<1>11. Alone'
  BY <1>0, <1>8, <1>9 DEF ActionInv, Alone
<1>12. ASSUME NEW r \in Actions!Ids, Over(r) PROVE Over(r)' /\ actionRuns'[r] = actionRuns[r]
  BY <1>1, <1>3, <1>8, <1>12 DEF Over
<1>13. ToldWhenOver'
  <2>1. ASSUME NEW r \in Actions!Ids', devLog'[r] # "none" PROVE r \in Actions!Ids /\ devLog'[r] = devLog[r]
    BY <1>1, <1>4, <1>6, <2>1
  <2> QED
    BY <1>0, <1>12, <2>1 DEF ActionInv, ToldWhenOver
<1>14. GivenUpWhenOver'
  <2>1. ASSUME NEW f \in Flush, NEW r \in GivingUp(f)', Actions!InTime(r)' PROVE Over(r)' /\ actionRuns'[r].error
    <3>1. r \in GivingUp(f)
      BY <1>1 DEF GivingUp, Actions!At
    <3>2. r \in Actions!Ids
      BY <3>1 DEF ActionInv, ActionTypes, GivingUp, Actions!At, NamesARun
    <3> QED
      BY <1>0, <2>1, <3>1, <3>2, <1>12 DEF ActionInv, GivenUpWhenOver
  <2> QED
    BY <2>1 DEF GivenUpWhenOver
<1> QED
  BY <1>7, <1>10, <1>11, <1>13, <1>14 DEF ActionInv

(* Time changes a row that nobody works on, or when it is due, or what the *)
(* invariant no longer speaks of.                                          *)
LEMMA ClockKeeps ==
  ASSUME ActionInv, Actions!Clock
  PROVE  ActionInv'
<1>1. PICK r \in Actions!Ids : Actions!LeaseRunsOut(r) \/ Actions!ComesDue(r)
  BY DEF Actions!Clock
<1>2. PICK run : /\ Actions!Write(r, run) /\ run \in RunType /\ run.done = actionRuns[r].done /\ run.error = actionRuns[r].error
                 /\ actionRuns[r].outlasted => run.outlasted
                 /\ run.claim # actionRuns[r].claim /\ ~run.outlasted => \A f \in Flush : ~Works(f, r)
  <2>1. actionRuns[r] \in RunType
    BY RowIs DEF ActionInv
  <2>2. CASE Actions!LeaseRunsOut(r)
    <3> DEFINE outlasted == actionRuns[r].outlasted \/ Actions!InHand(r)
               run       == [actionRuns[r] EXCEPT !.claim = "stale", !.outlasted = outlasted]
    <3>1. outlasted \in BOOLEAN
      BY <2>1 DEF RunType, Actions!InHand
    <3>2. ~outlasted => \A f \in Flush : ~Works(f, r)
      BY DEF Actions!InHand, Actions!Has, Works, Busy, Actions!At
    <3>3. Actions!Write(r, run)
      BY <2>2 DEF Actions!LeaseRunsOut
    <3> HIDE DEF outlasted
    <3>4. /\ run \in RunType /\ run.done = actionRuns[r].done /\ run.error = actionRuns[r].error
          /\ run.outlasted <=> outlasted
      BY <2>1, <3>1 DEF RunType
    <3>5. actionRuns[r].outlasted => outlasted
      BY DEF outlasted
    <3> QED
      BY <3>2, <3>3, <3>4, <3>5
  <2>3. CASE Actions!ComesDue(r)
    <3>1. [actionRuns[r] EXCEPT !.due = TRUE] \in RunType
      BY <2>1 DEF RunType
    <3> QED
      BY <2>1, <2>3, <3>1 DEF Actions!ComesDue, RunType
  <2> QED
    BY <1>1, <2>2, <2>3
<1>3. UNCHANGED <<flush, devLog>>
  BY <1>1 DEF Actions!LeaseRunsOut, Actions!ComesDue
<1>4. /\ actionRuns' \in Seq(RunType) /\ Len(actionRuns') = Len(actionRuns) /\ Actions!Ids' = Actions!Ids
      /\ \A q \in Actions!Ids : actionRuns'[q] = IF q = r THEN run ELSE actionRuns[q]
  BY <1>2, WriteKeeps DEF ActionInv
<1>5. ActionTypes'
  BY <1>3, <1>4 DEF ActionInv, ActionTypes, NamesARun
<1>6. ASSUME NEW f \in Flush, NEW q PROVE Works(f, q)' <=> Works(f, q)
  BY <1>3 DEF Works
<1>0. \A q \in Actions!Ids : Actions!InTime(q)' => Actions!InTime(q)
  BY <1>2, <1>4 DEF Actions!InTime
<1>7. ASSUME NEW f \in Flush PROVE Sending(f)'
  <2>1. CASE flush[f].at \in Busy
    <3>1. flush[f].run \in Actions!Ids /\ Works(f, flush[f].run)
      BY <2>1 DEF Works, ActionInv, ActionTypes, NamesARun
    <3>2. Actions!InTime(flush[f].run)' =>
            Actions!Run(f)'.claim = Actions!Run(f).claim /\ Actions!Run(f)'.done = Actions!Run(f).done /\ Actions!Run(f)'.error = Actions!Run(f).error
      BY <1>2, <1>3, <1>4, <3>1 DEF Actions!Run, Actions!InTime
    <3>3. Actions!InTime(flush[f].run)' => Actions!InTime(flush[f].run)
      BY <1>0, <1>3, <3>1 DEF Actions!InTime
    <3> QED
      BY <1>3, <3>2, <3>3 DEF ActionInv, Sending, Leased
  <2>2. CASE flush[f].at \notin Busy
    BY <1>3, <2>2 DEF Sending
  <2> QED
    BY <2>1, <2>2
<1>8. Alone'
  BY <1>0, <1>4, <1>6 DEF ActionInv, Alone
<1>9. \A q \in Actions!Ids : actionRuns'[q].error = actionRuns[q].error /\ (Over(q)' <=> Over(q))
  BY <1>2, <1>4, <1>6 DEF Over
<1>10. ToldWhenOver'
  BY <1>0, <1>3, <1>4, <1>9 DEF ActionInv, ToldWhenOver
<1>11. GivenUpWhenOver'
  <2>1. ASSUME NEW f \in Flush, NEW q \in GivingUp(f)', Actions!InTime(q)' PROVE Over(q)' /\ actionRuns'[q].error
    <3>1. q \in GivingUp(f)
      BY <1>3 DEF GivingUp, Actions!At
    <3>2. q \in Actions!Ids
      BY <3>1 DEF ActionInv, ActionTypes, GivingUp, Actions!At, NamesARun
    <3> QED
      BY <1>0, <2>1, <3>1, <3>2, <1>9 DEF ActionInv, GivenUpWhenOver
  <2> QED
    BY <2>1 DEF GivenUpWhenOver
<1> QED
  BY <1>5, <1>7, <1>8, <1>10, <1>11 DEF ActionInv

-----------------------------------------------------------------------------
(* The theorems.                                                           *)

LEMMA ActionStart == Actions!Init => ActionInv
<1> SUFFICES ASSUME Actions!Init PROVE ActionInv
  OBVIOUS
<1>1. /\ actionRuns = <<>> /\ devLog = <<>> /\ Actions!Ids = {} /\ flush = [f \in Flush |-> Actions!AtRest]
  BY EmptySeq DEF Actions!Init, Actions!Ids
<1>2. Actions!AtRest \in FlushType /\ Actions!AtRest.at = "idle" /\ Actions!AtRest.run = 0 /\ Actions!AtRest.todo = {} /\ Actions!AtRest.crashed = {}
  BY DEF Actions!AtRest, FlushType
<1>3. ActionTypes
  BY <1>1, <1>2, EmptySeq DEF ActionTypes, NamesARun, Busy
<1> QED
  BY <1>1, <1>2, <1>3 DEF ActionInv, Sending, Busy, Alone, ToldWhenOver, GivenUpWhenOver, GivingUp, Actions!At

LEMMA ActionStep ==
  ASSUME ActionInv, Actions!Next
  PROVE  ActionInv'
<1>1. CASE Actions!QueueRun
  BY <1>1, QueueKeeps
<1>2. CASE Actions!Clock
  BY <1>2, ClockKeeps
<1>3. ASSUME NEW f \in Flush, Actions!Step(f) \/ Actions!Crash(f) PROVE ActionInv'
  BY <1>3, SweepKeeps, GivingUpKeeps, RestKeeps, ClaimKeeps, DeliverKeeps, RecordSentKeeps, LogSentKeeps,
     RecordFailureKeeps DEF Actions!Step
<1> QED
  BY <1>1, <1>2, <1>3 DEF Actions!Next

(* A flush that delivers a run in time has its lease, alone.               *)
LEMMA ActionGives == ActionInv => Actions!OneDelivery /\ Actions!LogTellsOutcome
<1> SUFFICES ASSUME ActionInv PROVE Actions!OneDelivery /\ Actions!LogTellsOutcome
  OBVIOUS
<1>1. ASSUME NEW r \in Actions!Ids, NEW f \in Flush, Actions!Has(f, r) PROVE Works(f, r)
  <2>1. r # 0
    BY IdsAre DEF ActionInv
  <2> QED
    BY <1>1, <2>1 DEF Actions!Has, Actions!At, Works, ActionInv, ActionTypes, NamesARun
<1>2. Actions!OneDelivery
  BY <1>1 DEF Actions!OneDelivery, Actions!InTime, Busy, Works, Actions!Has, Actions!At, ActionInv, Sending, Leased, Actions!Run, Alone
<1>3. Actions!LogTellsOutcome
  BY DEF Actions!LogTellsOutcome, ActionInv, ToldWhenOver
<1> QED
  BY <1>2, <1>3

LEMMA ActionStays ==
  ASSUME ActionInv, [Actions!Next]_(Actions!vars)
  PROVE  ActionInv'
<1>1. CASE UNCHANGED Actions!vars
  <2>1. UNCHANGED <<actionRuns, flush, devLog>> /\ Actions!Ids' = Actions!Ids
    BY <1>1 DEF Actions!vars, Actions!Ids
  <2>2. ActionTypes'
    BY <2>1 DEF ActionInv, ActionTypes, NamesARun
  <2>3. Alone' /\ \A f \in Flush : Sending(f)'
    BY <2>1 DEF ActionInv, Sending, Actions!Run, Leased, Alone, Works, Actions!InTime
  <2>4. ToldWhenOver' /\ GivenUpWhenOver'
    BY <2>1 DEF ActionInv, ToldWhenOver, Over, Works, GivenUpWhenOver, GivingUp, Actions!At, Actions!InTime
  <2> QED
    BY <2>2, <2>3, <2>4 DEF ActionInv
<1> QED
  BY <1>1, ActionStep

(* The invariant holds in every reachable state.                           *)
THEOREM ActionInvariance == Actions!Spec => []ActionInv
  BY ActionStart, ActionStays, PTL DEF Actions!Spec

(* Only a delivery that outlasts its lease lets two flushes deliver one    *)
(* run, or the dev log tell of a run what its row does not                 *)
(* (server/lib/actions/runs.ts).                                           *)
THEOREM RunsAreToldRight == Actions!Spec => [](Actions!OneDelivery /\ Actions!LogTellsOutcome)
  BY ActionInvariance, ActionGives, PTL

-----------------------------------------------------------------------------
(***************************************************************************)
(* The runs of plugins (PluginRuns).  Deliveries never write what one      *)
(* instance found at the same time, never write again what is finished,    *)
(* and never put an earlier claim's findings over a later one's.           *)
(***************************************************************************)

(* An event fires each of its instances once; a lock that is free, or left *)
(* by a killed delivery, has no holder.                                    *)
PluginsAssumption ==
  /\ Instances \in Seq(Plugins!Instance)
  /\ \A i, j \in DOMAIN Instances : Instances[i] = Instances[j] => i = j
  /\ {"free", "left"} \cap Flush = {}

-----------------------------------------------------------------------------
(* The inductive invariant.                                                *)

EventType ==
  [attempts : Nat, claim : {"none", "held", "stale"}, lease : Nat, due : BOOLEAN, done : BOOLEAN,
   finished : SUBSET Plugins!Instance]

PluginResting == {"idle", "swept", "next"}
Writes  == {"apply", "applied"}
Locked  == {"check", "giveUp", "record", "release", "lost"} \cup Writes
Chosen  == {"run", "lock"} \cup Locked
Ending  == {"done", "failed"}
PluginWorking == {"before"} \cup Chosen \cup Ending

PluginFlushType ==
  [at : PluginResting \cup PluginWorking, todo : SUBSET Nat, ev : Nat, lease : Nat, skip : SUBSET Plugins!Instance, next : Nat,
   found : {"nothing", "something", "error", "transient"}, retry : BOOLEAN]

ShownType == [ev : Nat, lease : Nat, whole : BOOLEAN]

PluginTypes ==
  /\ events \in Seq(EventType)
  /\ flushes \in [Flush -> PluginFlushType]
  /\ lock \in [Plugins!Instance -> Flush \cup {"free", "left"}]
  /\ shown \in [Plugins!Instance -> ShownType]

(* An event's token is that of its last claim, or none.                    *)
LastToken(r) == events[r].lease \in {0, events[r].attempts}

(* A flush works on an event under a token that a claim of it gave.        *)
Claims(f) ==
  /\ flushes[f].todo \subseteq Plugins!Ids
  /\ flushes[f].at \in PluginWorking =>
       /\ flushes[f].ev \in Plugins!Ids /\ flushes[f].next \in 1..(Len(Instances) + 1)
       /\ flushes[f].lease \in 1..events[flushes[f].ev].attempts

(* Every claim's token is its own.                                         *)
TokensDiffer ==
  \A f, g \in Flush :
    /\ flushes[f].at \in PluginWorking /\ flushes[g].at \in PluginWorking
    /\ flushes[f].ev = flushes[g].ev /\ flushes[f].lease = flushes[g].lease
    => f = g

(* From taking the lock to letting it go the flush has the instance's.     *)
HasLock(f) ==
  /\ flushes[f].at \in Chosen => flushes[f].next \in DOMAIN Instances
  /\ flushes[f].at \in Locked => lock[Plugins!Current(f)] = f

(* As long as a flush has the lease it alone finishes instances: what is   *)
(* finished was so before its claim, or is behind it.                      *)
Behind(f) ==
  {Instances[k] : k \in {j \in DOMAIN Instances : j < flushes[f].next \/ (j = flushes[f].next /\ Plugins!At(f, "release"))}}

PluginKnows(f) ==
  /\ flushes[f].at \in {"run", "lock", "check"} => Plugins!Current(f) \notin flushes[f].skip
  /\ flushes[f].at \in PluginWorking \ Ending /\ Plugins!HoldsLease(f) => Plugins!Event(f).finished \subseteq flushes[f].skip \cup Behind(f)

(* What a flush is about to write is not finished, nor written by a later  *)
(* claim, whether or not it still has the lease.                           *)
MayWrite(f) ==
  flushes[f].at \in Writes =>
    /\ Plugins!Current(f) \notin Plugins!Event(f).finished
    /\ shown[Plugins!Current(f)].ev = flushes[f].ev => shown[Plugins!Current(f)].lease <= flushes[f].lease

(* What the item shows came from a claim.                                  *)
ShownByClaim(i) == shown[i].ev # 0 => shown[i].ev \in Plugins!Ids /\ shown[i].lease <= events[shown[i].ev].attempts

PluginInv ==
  /\ PluginTypes
  /\ \A r \in Plugins!Ids : LastToken(r)
  /\ TokensDiffer
  /\ \A f \in Flush : Claims(f) /\ HasLock(f) /\ PluginKnows(f) /\ MayWrite(f)
  /\ \A i \in Plugins!Instance : ShownByClaim(i)

-----------------------------------------------------------------------------
(* What the steps share.                                                   *)

LEMMA PluginIdsAre == PluginTypes => Plugins!Ids = 1..Len(events) /\ Plugins!Ids \subseteq Nat /\ Len(events) \in Nat
  BY LenProperties DEF PluginTypes, Plugins!Ids

LEMMA EventIs == ASSUME PluginTypes, NEW r \in Plugins!Ids PROVE events[r] \in EventType
  BY PluginIdsAre, ElementOfSeq DEF PluginTypes

LEMMA InstancesAre ==
  ASSUME PluginsAssumption
  PROVE  /\ DOMAIN Instances = 1..Len(Instances) /\ Len(Instances) \in Nat
         /\ \A k \in DOMAIN Instances : Instances[k] \in Plugins!Instance
  BY LenProperties DEF PluginsAssumption, Plugins!Instance

(* Writing one event keeps the ids and the other events.                   *)
LEMMA PluginWriteKeeps ==
  ASSUME PluginTypes, NEW r \in Plugins!Ids, NEW event \in EventType, Plugins!Write(r, event)
  PROVE  /\ events' \in Seq(EventType) /\ Plugins!Ids' = Plugins!Ids
         /\ \A q \in Plugins!Ids : events'[q] = IF q = r THEN event ELSE events[q]
<1>1. r \in 1..Len(events) /\ events \in Seq(EventType)
  BY PluginIdsAre DEF PluginTypes
<1> QED
  BY <1>1, ExceptSeq, LenProperties, PluginIdsAre DEF Plugins!Write, Plugins!Ids

(* A flush moves alone.                                                    *)
LEMMA PluginGoKeeps ==
  ASSUME PluginTypes, NEW f \in Flush, NEW g \in PluginFlushType, Plugins!Go(f, g)
  PROVE  /\ flushes' \in [Flush -> PluginFlushType]
         /\ flushes'[f] = g /\ \A h \in Flush \ {f} : flushes'[h] = flushes[h]
  BY DEF PluginTypes, Plugins!Go

Mine(f) == Claims(f) /\ HasLock(f) /\ PluginKnows(f) /\ MayWrite(f)

(* What a flush knows stays so while the steps of others leave its lock    *)
(* alone, finish nothing of its event as long as it has the lease, give    *)
(* its event no token like its own, and neither finish nor write the       *)
(* instance it writes.                                                     *)
LEMMA Undisturbed ==
  ASSUME PluginInv, NEW h \in Flush, flushes'[h] = flushes[h], Plugins!Ids \subseteq Plugins!Ids',
         flushes[h].at \in Locked => lock'[Plugins!Current(h)] = lock[Plugins!Current(h)],
         flushes[h].at \in Writes => shown'[Plugins!Current(h)] = shown[Plugins!Current(h)],
         flushes[h].at \in PluginWorking =>
           /\ Plugins!Event(h)'.attempts \in Nat /\ Plugins!Event(h)'.attempts >= Plugins!Event(h).attempts
           /\ Plugins!Event(h)'.lease = flushes[h].lease =>
                 Plugins!Event(h).lease = flushes[h].lease /\ Plugins!Event(h)'.finished = Plugins!Event(h).finished
           /\ flushes[h].at \in Writes =>
                 (Plugins!Current(h) \in Plugins!Event(h)'.finished => Plugins!Current(h) \in Plugins!Event(h).finished)
  PROVE  Mine(h)'
<1>1. flushes[h] \in PluginFlushType /\ Mine(h)
  BY DEF PluginInv, PluginTypes, Mine
<1>2. Plugins!Current(h)' = Plugins!Current(h) /\ Behind(h)' = Behind(h)
  BY DEF Plugins!Current, Behind, Plugins!At
<1>3. flushes[h].at \in PluginWorking => flushes[h].ev \in Plugins!Ids /\ events[flushes[h].ev].attempts \in Nat
  BY <1>1, EventIs DEF Mine, Claims, PluginInv, EventType
<1>4. Claims(h)'
  BY <1>1, <1>3 DEF Mine, Claims, Plugins!Event, PluginFlushType
<1>5. HasLock(h)'
  BY <1>1, <1>2 DEF Mine, HasLock
<1>6. PluginKnows(h)'
  BY <1>1, <1>2 DEF Mine, PluginKnows, Plugins!HoldsLease
<1>7. MayWrite(h)'
  <2>1. SUFFICES ASSUME flushes[h].at \in Writes
                 PROVE  /\ Plugins!Current(h) \notin Plugins!Event(h)'.finished
                        /\ shown[Plugins!Current(h)].ev = flushes[h].ev => shown[Plugins!Current(h)].lease <= flushes[h].lease
    BY <1>2 DEF MayWrite
  <2>2. flushes[h].at \in PluginWorking
    BY <2>1 DEF PluginWorking, Chosen, Locked
  <2> QED
    BY <1>1, <2>1, <2>2 DEF Mine, MayWrite
<1> QED
  BY <1>4, <1>5, <1>6, <1>7 DEF Mine

(* A step that gives no token: of one flush, or of none.                   *)
EventKept(f, r) ==
  /\ events'[r].attempts = events[r].attempts /\ events'[r].lease \in {events[r].lease, 0}
  /\ \/ events'[r].finished = events[r].finished
     \/ /\ r = flushes[f].ev /\ Plugins!HoldsLease(f) /\ Plugins!At(f, "record")
        /\ events'[r].finished = events[r].finished \cup {Plugins!Current(f)}

LockKept(f, i) == lock'[i] = lock[i] \/ lock[i] \in {f, "left"} \/ (lock[i] = "free" /\ lock'[i] = f)

ShownKept(f, i) ==
  \/ shown'[i] = shown[i]
  \/ /\ flushes[f].at \in Writes /\ i = Plugins!Current(f)
     /\ shown'[i].ev = flushes[f].ev /\ shown'[i].lease = flushes[f].lease

LEMMA WorkStep ==
  ASSUME PluginInv, PluginsAssumption, NEW f \in Flush,
         PluginTypes', Plugins!Ids' = Plugins!Ids, \A h \in Flush \ {f} : flushes'[h] = flushes[h],
         \A r \in Plugins!Ids : EventKept(f, r),
         \A i \in Plugins!Instance : LockKept(f, i) /\ ShownKept(f, i),
         flushes'[f].at \in PluginWorking =>
           flushes[f].at \in PluginWorking /\ flushes'[f].ev = flushes[f].ev /\ flushes'[f].lease = flushes[f].lease,
         Mine(f)'
  PROVE  PluginInv'
<1>1. ASSUME NEW r \in Plugins!Ids PROVE LastToken(r)'
  BY DEF PluginInv, LastToken, EventKept
<1>2. TokensDiffer'
  <2>1. ASSUME NEW g \in Flush, flushes'[g].at \in PluginWorking
        PROVE  flushes[g].at \in PluginWorking /\ flushes'[g].ev = flushes[g].ev /\ flushes'[g].lease = flushes[g].lease
    BY <2>1
  <2> QED
    BY <2>1 DEF PluginInv, TokensDiffer
<1>3. ASSUME NEW h \in Flush \ {f} PROVE Mine(h)'
  <2>1. Mine(h) /\ flushes'[h] = flushes[h]
    BY DEF PluginInv, Mine
  <2>2. flushes[h].at \in Chosen => Plugins!Current(h) \in Plugins!Instance
    BY <2>1, InstancesAre DEF Mine, HasLock, Plugins!Current
  <2>3. flushes[h].at \in Locked => lock'[Plugins!Current(h)] = lock[Plugins!Current(h)]
    <3>1. SUFFICES ASSUME flushes[h].at \in Locked PROVE LockKept(f, Plugins!Current(h)) /\ lock[Plugins!Current(h)] = h
      BY DEF LockKept, PluginsAssumption
    <3> QED
      BY <3>1, <2>1, <2>2 DEF Mine, HasLock, Chosen
  <2>4. ASSUME flushes[h].at \in Locked, flushes[f].at \in Locked PROVE Plugins!Current(h) # Plugins!Current(f)
    BY <2>1, <2>4 DEF Mine, PluginInv, HasLock
  <2>5. flushes[h].at \in Writes => shown'[Plugins!Current(h)] = shown[Plugins!Current(h)]
    <3>1. SUFFICES ASSUME flushes[h].at \in Writes 
                   PROVE  ShownKept(f, Plugins!Current(h)) /\ (Plugins!Current(h) # Plugins!Current(f) \/ flushes[f].at \notin Writes)
      BY <2>2 DEF ShownKept, Chosen, Locked
    <3> QED
      BY <3>1, <2>2, <2>4 DEF Chosen, Locked
  <2>6. ASSUME flushes[h].at \in PluginWorking
        PROVE  /\ Plugins!Event(h)'.attempts \in Nat /\ Plugins!Event(h)'.attempts >= Plugins!Event(h).attempts
               /\ Plugins!Event(h)'.lease = flushes[h].lease =>
                    Plugins!Event(h).lease = flushes[h].lease /\ Plugins!Event(h)'.finished = Plugins!Event(h).finished
               /\ flushes[h].at \in Writes =>
                    (Plugins!Current(h) \in Plugins!Event(h)'.finished => Plugins!Current(h) \in Plugins!Event(h).finished)
    <3>1. flushes[h].ev \in Plugins!Ids /\ flushes[h].lease # 0 /\ EventKept(f, flushes[h].ev)
      BY <2>1, <2>6 DEF Mine, Claims
    <3>2. Plugins!Event(h) \in EventType /\ Plugins!Event(h)' = events'[flushes[h].ev]
      BY <3>1, <2>1, EventIs DEF Plugins!Event, PluginInv
    <3>3. Plugins!Event(h)'.attempts = Plugins!Event(h).attempts /\ Plugins!Event(h)'.lease \in {Plugins!Event(h).lease, 0}
      BY <3>1, <3>2 DEF EventKept, Plugins!Event
    <3>4. CASE Plugins!Event(h)'.finished = Plugins!Event(h).finished
      BY <3>1, <3>2, <3>3, <3>4 DEF EventType
    <3>5. CASE /\ flushes[h].ev = flushes[f].ev /\ Plugins!HoldsLease(f) /\ Plugins!At(f, "record")
               /\ Plugins!Event(h)'.finished = Plugins!Event(h).finished \cup {Plugins!Current(f)}
      <4>1. flushes[f].at \in PluginWorking /\ flushes[f].at \in Locked
        BY <3>5 DEF Plugins!At, PluginWorking, Chosen, Locked
      <4>2. flushes[h].lease # flushes[f].lease
        BY <4>1, <2>6, <3>5 DEF PluginInv, TokensDiffer
      <4>3. Plugins!Event(h).lease # flushes[h].lease
        BY <4>2, <3>5 DEF Plugins!HoldsLease, Plugins!Event
      <4>4. flushes[h].at \in Writes => Plugins!Current(h) # Plugins!Current(f)
        BY <2>4, <4>1 DEF Locked
      <4> QED
        BY <3>1, <3>2, <3>3, <3>5, <4>3, <4>4 DEF EventType
    <3> QED
      BY <3>1, <3>2, <3>4, <3>5 DEF EventKept, Plugins!Event
  <2> QED
    BY <2>1, <2>3, <2>5, <2>6, Undisturbed
<1>4. ASSUME NEW i \in Plugins!Instance PROVE ShownByClaim(i)'
  <2>1. ASSUME NEW r \in Plugins!Ids PROVE events'[r].attempts = events[r].attempts
    BY DEF EventKept
  <2>2. CASE shown'[i] = shown[i]
    BY <2>1, <2>2 DEF PluginInv, ShownByClaim
  <2>3. CASE flushes[f].at \in Writes /\ shown'[i].ev = flushes[f].ev /\ shown'[i].lease = flushes[f].lease
    <3>1. flushes[f].ev \in Plugins!Ids /\ flushes[f].lease \in 1..events[flushes[f].ev].attempts
      BY <2>3 DEF PluginInv, Claims, PluginWorking, Chosen, Locked
    <3> QED
      BY <3>1, <2>1, <2>3 DEF ShownByClaim
  <2> QED
    BY <2>2, <2>3 DEF ShownKept
<1> QED
  BY <1>1, <1>2, <1>3, <1>4 DEF PluginInv, Mine

-----------------------------------------------------------------------------
(* Every step keeps the invariant.                                         *)

(* A step after which the flush has no event in hand.                      *)
LEMMA PluginRestStep ==
  ASSUME PluginInv, PluginsAssumption, NEW f \in Flush, NEW g \in PluginFlushType,
         g.at \in PluginResting, g.todo \subseteq Plugins!Ids, Plugins!Go(f, g),
         events' \in Seq(EventType), Plugins!Ids' = Plugins!Ids, \A r \in Plugins!Ids : EventKept(f, r),
         lock' \in [Plugins!Instance -> Flush \cup {"free", "left"}], \A i \in Plugins!Instance : LockKept(f, i),
         UNCHANGED shown
  PROVE  PluginInv'
<1>1. /\ flushes' \in [Flush -> PluginFlushType]
      /\ flushes'[f] = g /\ \A h \in Flush \ {f} : flushes'[h] = flushes[h]
  BY PluginGoKeeps DEF PluginInv
<1>2. PluginTypes'
  BY <1>1 DEF PluginInv, PluginTypes
<1>3. g.at \notin PluginWorking
  BY DEF PluginResting, PluginWorking, Chosen, Locked, Writes, Ending
<1>4. Mine(f)'
  BY <1>1, <1>3 DEF Mine, Claims, HasLock, PluginKnows, MayWrite, PluginWorking, Chosen, Locked, Writes
<1>5. \A i \in Plugins!Instance : ShownKept(f, i)
  BY DEF ShownKept
<1> QED
  BY <1>1, <1>2, <1>3, <1>4, <1>5, WorkStep

(* A step with the same instance of the same event.                        *)
LEMMA HoldStep ==
  ASSUME PluginInv, PluginsAssumption, NEW f \in Flush, flushes[f].at \in PluginWorking,
         NEW g \in PluginFlushType, g.at \in Chosen \cup Ending, Plugins!Go(f, g),
         g.ev = flushes[f].ev, g.lease = flushes[f].lease, g.todo = flushes[f].todo, g.skip = flushes[f].skip,
         g.next = flushes[f].next,
         events' \in Seq(EventType), Plugins!Ids' = Plugins!Ids, \A r \in Plugins!Ids : EventKept(f, r),
         lock' \in [Plugins!Instance -> Flush \cup {"free", "left"}], \A i \in Plugins!Instance : LockKept(f, i),
         shown' \in [Plugins!Instance -> ShownType], \A i \in Plugins!Instance : ShownKept(f, i),
         g.at \in Chosen =>
           /\ flushes[f].next \in DOMAIN Instances
           /\ flushes[f].at \notin Ending \cup {"release"}
           /\ Plugins!At(f, "record") => g.at \in {"release", "lost"}
           /\ Plugins!At(f, "record") /\ g.at = "lost" => UNCHANGED events,
         g.at \in Locked => lock'[Plugins!Current(f)] = f,
         g.at \in {"run", "lock", "check"} => Plugins!Current(f) \notin flushes[f].skip,
         g.at \in Writes =>
           /\ ~Plugins!At(f, "record") /\ Plugins!Current(f) \notin Plugins!Event(f).finished
           /\ shown'[Plugins!Current(f)].ev = flushes[f].ev => shown'[Plugins!Current(f)].lease <= flushes[f].lease
  PROVE  PluginInv'
<1>1. /\ flushes' \in [Flush -> PluginFlushType]
      /\ flushes'[f] = g /\ \A h \in Flush \ {f} : flushes'[h] = flushes[h]
  BY PluginGoKeeps DEF PluginInv
<1>2. PluginTypes'
  BY <1>1 DEF PluginInv, PluginTypes
<1>3. Claims(f) /\ PluginKnows(f) /\ flushes[f].ev \in Plugins!Ids
  BY DEF PluginInv, Claims
<1>4. Plugins!Current(f)' = Plugins!Current(f) /\ Plugins!Event(f)' = events'[flushes[f].ev]
  BY <1>1 DEF Plugins!Current, Plugins!Event
<1>5. EventKept(f, flushes[f].ev)
  BY <1>3
<1>6. Claims(f)'
  BY <1>1, <1>3, <1>5 DEF Claims, EventKept
<1>7. HasLock(f)'
  BY <1>1, <1>4 DEF HasLock
<1>8. PluginKnows(f)'
  <2>1. SUFFICES ASSUME flushes'[f].at \in PluginWorking \ Ending, Plugins!HoldsLease(f)'
                 PROVE  Plugins!Event(f)'.finished \subseteq flushes[f].skip \cup Behind(f)'
    BY <1>1, <1>4 DEF PluginKnows
  <2>2. g.at \in Chosen
    BY <1>1, <2>1
  <2>3. Behind(f) \subseteq Behind(f)'
    BY <1>1, <2>2 DEF Behind, Plugins!At
  <2>4. Plugins!HoldsLease(f)
    <3>1. flushes[f].lease # 0 /\ Plugins!Event(f)'.lease = flushes[f].lease
      BY <1>1, <1>3, <2>1 DEF Claims, Plugins!HoldsLease
    <3> QED
      BY <3>1, <1>4, <1>5 DEF EventKept, Plugins!HoldsLease, Plugins!Event
  <2>5. Plugins!Event(f).finished \subseteq flushes[f].skip \cup Behind(f)
    BY <1>3, <2>2, <2>4 DEF PluginKnows
  <2>6. CASE Plugins!Event(f)'.finished = Plugins!Event(f).finished
    BY <2>3, <2>5, <2>6
  <2>7. CASE Plugins!At(f, "record") /\ Plugins!Event(f)'.finished = Plugins!Event(f).finished \cup {Plugins!Current(f)}
    <3>1. CASE g.at = "lost"
      BY <3>1, <2>2, <2>3, <2>5, <2>7, <1>4 DEF Plugins!Event
    <3>2. CASE g.at = "release"
      <4>1. Plugins!Current(f) \in Behind(f)'
        BY <3>2, <1>1, <2>2 DEF Behind, Plugins!At, Plugins!Current
      <4> QED
        BY <4>1, <2>3, <2>5, <2>7
    <3> QED
      BY <3>1, <3>2, <2>2, <2>7
  <2> QED
    BY <2>6, <2>7, <1>4, <1>5 DEF EventKept, Plugins!Event
<1>9. MayWrite(f)'
  BY <1>1, <1>4, <1>5 DEF MayWrite, EventKept, Plugins!Event
<1> QED
  BY <1>1, <1>2, <1>6, <1>7, <1>8, <1>9, WorkStep DEF Mine

(* On to the next instance.                                                *)
LEMMA PassStep ==
  ASSUME PluginInv, PluginsAssumption, NEW f \in Flush, Plugins!Go(f, Plugins!PastThis(f)), UNCHANGED <<events, shown>>,
         (Plugins!At(f, "before") /\ Plugins!InstancesLeft(f) /\ Plugins!Current(f) \in flushes[f].skip) \/ Plugins!At(f, "release"),
         lock' \in [Plugins!Instance -> Flush \cup {"free", "left"}], \A i \in Plugins!Instance : LockKept(f, i)
  PROVE  PluginInv'
<1>1. /\ flushes[f] \in PluginFlushType /\ Claims(f) /\ PluginKnows(f) /\ HasLock(f)
      /\ flushes[f].at \in PluginWorking \ Ending /\ flushes[f].next \in Nat
  BY DEF PluginInv, PluginTypes, Plugins!At, PluginWorking, Chosen, Locked, Ending, PluginFlushType
<1>2. flushes[f].next \in DOMAIN Instances /\ flushes[f].next + 1 \in 1..(Len(Instances) + 1)
  BY <1>1, InstancesAre DEF HasLock, Claims, Plugins!At, Plugins!InstancesLeft, Chosen, Locked
<1> DEFINE g == Plugins!PastThis(f)
<1>3. /\ g \in PluginFlushType /\ g.at = "before" /\ g.next = flushes[f].next + 1 /\ g.ev = flushes[f].ev
      /\ g.lease = flushes[f].lease /\ g.todo = flushes[f].todo /\ g.skip = flushes[f].skip
  <2>1. flushes[f].next + 1 \in Nat /\ "nothing" \in {"nothing", "something", "error", "transient"}
    BY <1>1
  <2>2. "before" \in PluginResting \cup PluginWorking
    BY DEF PluginWorking
  <2> QED
    BY <1>1, <2>1, <2>2 DEF Plugins!PastThis, PluginFlushType
<1>4. /\ flushes' \in [Flush -> PluginFlushType]
      /\ flushes'[f] = g /\ \A h \in Flush \ {f} : flushes'[h] = flushes[h]
  BY <1>3, PluginGoKeeps DEF PluginInv
<1> HIDE DEF g
<1>5. PluginTypes' /\ Plugins!Ids' = Plugins!Ids
  BY <1>4 DEF PluginInv, PluginTypes, Plugins!Ids
<1>6. Claims(f)' /\ HasLock(f)' /\ MayWrite(f)'
  BY <1>1, <1>2, <1>3, <1>4, <1>5
     DEF Claims, HasLock, MayWrite, Chosen, Locked, Writes, PluginWorking
<1>7. PluginKnows(f)'
  <2>1. SUFFICES ASSUME Plugins!HoldsLease(f)' PROVE Plugins!Event(f)'.finished \subseteq flushes[f].skip \cup Behind(f)'
    BY <1>3, <1>4 DEF PluginKnows
  <2>2. Plugins!Event(f)' = Plugins!Event(f) /\ Plugins!HoldsLease(f)
    BY <2>1, <1>3, <1>4 DEF Plugins!HoldsLease, Plugins!Event
  <2>3. Behind(f) \subseteq Behind(f)'
    <3>1. \A j \in DOMAIN Instances : j \in Nat
      BY InstancesAre
    <3> QED
      BY <3>1, <1>1, <1>3, <1>4 DEF Behind
  <2> QED
    BY <1>1, <2>2, <2>3 DEF PluginKnows
<1>8. \A r \in Plugins!Ids : EventKept(f, r)
  BY DEF EventKept
<1>9. \A i \in Plugins!Instance : ShownKept(f, i)
  BY DEF ShownKept
<1> QED
  BY <1>1, <1>3, <1>4, <1>5, <1>6, <1>7, <1>8, <1>9, WorkStep DEF Mine

(* What an event may become.                                               *)
LEMMA Outcomes ==
  ASSUME NEW event \in EventType
  PROVE  /\ \A claim \in {"held", "stale"} : [event EXCEPT !.claim = claim] \in EventType
         /\ [event EXCEPT !.due = TRUE] \in EventType
         /\ \A i \in Plugins!Instance : [event EXCEPT !.finished = @ \cup {i}] \in EventType
  BY DEF EventType

Ended(event, due, done) ==
  [event EXCEPT !.claim = "none", !.lease = 0, !.due = due, !.done = done]

LEMMA EndedIs ==
  ASSUME NEW event \in EventType, NEW due \in BOOLEAN, NEW done \in BOOLEAN
  PROVE  /\ Ended(event, due, done) \in EventType /\ Ended(event, due, done).attempts = event.attempts
         /\ Ended(event, due, done).lease = 0 /\ Ended(event, due, done).finished = event.finished
  BY DEF EventType, Ended

(* An event that is written keeps its attempts.                            *)
LEMMA EventWritten ==
  ASSUME PluginTypes, NEW f \in Flush, NEW r \in Plugins!Ids, NEW event \in EventType, Plugins!Write(r, event),
         event.attempts = events[r].attempts, event.lease \in {events[r].lease, 0},
         \/ event.finished = events[r].finished
         \/ /\ r = flushes[f].ev /\ Plugins!HoldsLease(f) /\ Plugins!At(f, "record")
            /\ event.finished = events[r].finished \cup {Plugins!Current(f)}
  PROVE  /\ events' \in Seq(EventType) /\ Plugins!Ids' = Plugins!Ids
         /\ \A q \in Plugins!Ids : EventKept(f, q)
<1>1. /\ events' \in Seq(EventType) /\ Plugins!Ids' = Plugins!Ids
      /\ \A q \in Plugins!Ids : events'[q] = IF q = r THEN event ELSE events[q]
  BY PluginWriteKeeps
<1> QED
  BY <1>1 DEF EventKept

LEMMA EventsStay ==
  ASSUME PluginTypes, NEW f \in Flush, UNCHANGED events
  PROVE  /\ events' \in Seq(EventType) /\ Plugins!Ids' = Plugins!Ids
         /\ \A q \in Plugins!Ids : EventKept(f, q)
  BY DEF PluginTypes, Plugins!Ids, EventKept

LEMMA LocksStay ==
  ASSUME PluginTypes, NEW f \in Flush, UNCHANGED lock
  PROVE  lock' \in [Plugins!Instance -> Flush \cup {"free", "left"}] /\ \A i \in Plugins!Instance : LockKept(f, i)
  BY DEF PluginTypes, LockKept

LEMMA ShownStays ==
  ASSUME PluginTypes, NEW f \in Flush, UNCHANGED shown
  PROVE  shown' \in [Plugins!Instance -> ShownType] /\ \A i \in Plugins!Instance : ShownKept(f, i)
  BY DEF PluginTypes, ShownKept

(* Letting go of the lock.                                                 *)
LEMMA LockFreed ==
  ASSUME PluginTypes, NEW f \in Flush, lock' = [lock EXCEPT ![Plugins!Current(f)] = IF @ = f THEN "free" ELSE @]
  PROVE  lock' \in [Plugins!Instance -> Flush \cup {"free", "left"}] /\ \A i \in Plugins!Instance : LockKept(f, i)
  BY DEF PluginTypes, LockKept

(* What is known of a flush that works.                                    *)
LEMMA AtWork ==
  ASSUME PluginInv, PluginsAssumption, NEW f \in Flush, flushes[f].at \in PluginWorking
  PROVE  /\ flushes[f] \in PluginFlushType /\ flushes[f].ev \in Plugins!Ids /\ Plugins!Event(f) \in EventType /\ flushes[f].todo \subseteq Plugins!Ids
         /\ flushes[f].at \in Chosen \/ (Plugins!At(f, "before") /\ Plugins!InstancesLeft(f)) => flushes[f].next \in DOMAIN Instances /\ Plugins!Current(f) \in Plugins!Instance
<1>1. flushes[f] \in PluginFlushType /\ flushes[f].ev \in Plugins!Ids /\ flushes[f].todo \subseteq Plugins!Ids
  BY DEF PluginInv, PluginTypes, Claims
<1>2. Plugins!Event(f) \in EventType
  BY <1>1, EventIs DEF Plugins!Event, PluginInv
<1>3. flushes[f].at \in Chosen => flushes[f].next \in DOMAIN Instances
  BY DEF PluginInv, HasLock
<1>4. Plugins!InstancesLeft(f) => flushes[f].next \in DOMAIN Instances
  BY InstancesAre DEF PluginInv, Claims, Plugins!InstancesLeft
<1> QED
  BY <1>1, <1>2, <1>3, <1>4, InstancesAre DEF Plugins!Current

(* Moving on with the variables as they are.                               *)
LEMMA OnwardIs ==
  ASSUME PluginInv, NEW f \in Flush
  PROVE  /\ Plugins!Onward(f) \in PluginFlushType /\ Plugins!Onward(f).at = "next" /\ Plugins!Onward(f).todo = flushes[f].todo
         /\ Plugins!AtRest \in PluginFlushType /\ Plugins!AtRest.at = "idle" /\ Plugins!AtRest.todo = {} /\ flushes[f].todo \subseteq Plugins!Ids
<1>1. flushes[f].todo \in SUBSET Nat
  BY DEF PluginInv, PluginTypes, PluginFlushType
<1>2. "next" \in PluginResting \cup PluginWorking /\ "idle" \in PluginResting \cup PluginWorking
  BY DEF PluginResting
<1> QED
  BY <1>1, <1>2 DEF Plugins!Onward, Plugins!AtRest, PluginFlushType, PluginInv, Claims

LEMMA ToIs ==
  ASSUME PluginInv, NEW f \in Flush, NEW at \in PluginResting \cup PluginWorking
  PROVE  LET g == [flushes[f] EXCEPT !.at = at]
         IN  /\ g \in PluginFlushType /\ g.at = at /\ g.ev = flushes[f].ev /\ g.lease = flushes[f].lease
             /\ g.todo = flushes[f].todo /\ g.skip = flushes[f].skip /\ g.next = flushes[f].next
  BY DEF PluginInv, PluginTypes, PluginFlushType

(* Taking events: what a flush does between two events.                    *)
LEMMA PluginRestKeeps ==
  ASSUME PluginInv, PluginsAssumption, NEW f \in Flush,
         Plugins!Sweep(f) \/ Plugins!SelectDue(f) \/ Plugins!EndFlush(f) \/ Plugins!RecordDone(f) \/ Plugins!RecordFailure(f) \/ Plugins!Crash(f)
  PROVE  PluginInv'
<1>1. PluginTypes
  BY DEF PluginInv
<1>2. CASE Plugins!Sweep(f)
  <2>1. Plugins!At(f, "idle") /\ flushes[f].todo \subseteq Plugins!Ids /\ UNCHANGED <<lock, shown>>
    BY <1>2 DEF Plugins!Sweep, PluginInv, Claims
  <2> DEFINE New(r) == IF r \in Plugins!Abandoned THEN Ended(events[r], events[r].due, TRUE) ELSE events[r]
  <2>2. ASSUME NEW r \in Plugins!Ids
        PROVE  /\ New(r) \in EventType /\ New(r).attempts = events[r].attempts
               /\ New(r).lease \in {events[r].lease, 0} /\ New(r).finished = events[r].finished
    <3>1. events[r] \in EventType /\ events[r].due \in BOOLEAN
      BY <1>1, EventIs DEF EventType
    <3> QED
      BY <3>1, EndedIs
  <2>3. events' = [r \in Plugins!Ids |-> New(r)]
    <3>1. \A r \in Plugins!Ids : Ended(events[r], events[r].due, TRUE) = [events[r] EXCEPT !.claim = "none", !.lease = 0, !.done = TRUE]
      BY <1>1, EventIs DEF EventType, Ended
    <3> QED
      BY <1>2, <3>1 DEF Plugins!Sweep
  <2> HIDE DEF New
  <2>4. events' \in Seq(EventType) /\ Plugins!Ids' = Plugins!Ids
    BY <2>2, <2>3, <1>1, PluginIdsAre, IsASeq DEF Plugins!Ids
  <2>5. \A r \in Plugins!Ids : EventKept(f, r)
    BY <2>2, <2>3 DEF EventKept
  <2> DEFINE g == [flushes[f] EXCEPT !.at = "swept"]
  <2>6. Plugins!Go(f, g) /\ "swept" \in PluginResting
    BY <1>2 DEF Plugins!Sweep, Plugins!To, PluginResting
  <2>7. g \in PluginFlushType /\ g.at = "swept" /\ g.todo = flushes[f].todo
    BY <2>6, ToIs
  <2> HIDE DEF g
  <2> QED
    BY <1>1, <2>1, <2>4, <2>5, <2>6, <2>7, LocksStay, PluginRestStep
<1>3. CASE Plugins!SelectDue(f)
  <2> DEFINE todo == {r \in Plugins!Ids : Plugins!Claimable(events[r]) /\ events[r].attempts < MAX_ATTEMPTS /\ events[r].due}
             g == [flushes[f] EXCEPT !.at = "next", !.todo = todo]
  <2>1. todo \subseteq Plugins!Ids /\ todo \in SUBSET Nat
    BY <1>1, PluginIdsAre
  <2>2. Plugins!Go(f, g) /\ UNCHANGED <<events, lock, shown>>
    BY <1>3 DEF Plugins!SelectDue
  <2> HIDE DEF todo
  <2>3. "next" \in PluginResting /\ flushes[f] \in PluginFlushType
    BY DEF PluginResting, PluginInv, PluginTypes
  <2>4. g \in PluginFlushType /\ g.at = "next" /\ g.todo = todo
    BY <2>1, <2>3 DEF PluginFlushType
  <2> HIDE DEF g
  <2> QED
    BY <1>1, <2>1, <2>2, <2>3, <2>4, EventsStay, LocksStay, PluginRestStep
<1>4. CASE Plugins!EndFlush(f)
  <2>1. Plugins!Go(f, Plugins!AtRest) /\ UNCHANGED <<events, lock, shown>> /\ "idle" \in PluginResting
    BY <1>4 DEF Plugins!EndFlush, PluginResting
  <2> QED
    BY <1>1, <2>1, OnwardIs, EventsStay, LocksStay, PluginRestStep
<1>5. CASE Plugins!Crash(f)
  <2>1. Plugins!Go(f, Plugins!AtRest) /\ UNCHANGED <<events, shown>> /\ "idle" \in PluginResting
    BY <1>5 DEF Plugins!Crash, PluginResting
  <2>2. lock' \in [Plugins!Instance -> Flush \cup {"free", "left"}] /\ \A i \in Plugins!Instance : LockKept(f, i)
    BY <1>1, <1>5 DEF Plugins!Crash, PluginTypes, LockKept
  <2> QED
    BY <1>1, <2>1, <2>2, OnwardIs, EventsStay, PluginRestStep
<1>6. CASE Plugins!RecordDone(f) \/ Plugins!RecordFailure(f)
  <2>1. Plugins!Go(f, Plugins!Onward(f)) /\ UNCHANGED <<lock, shown>> /\ "next" \in PluginResting
    BY <1>6 DEF Plugins!RecordDone, Plugins!RecordFailure, PluginResting
  <2>2. flushes[f].at \in PluginWorking
    BY <1>6 DEF Plugins!RecordDone, Plugins!RecordFailure, Plugins!At, PluginWorking, Ending
  <2>3. flushes[f].ev \in Plugins!Ids /\ Plugins!Event(f) \in EventType /\ Plugins!Event(f) = events[flushes[f].ev]
    BY <2>2, AtWork DEF Plugins!Event
  <2>4. events' \in Seq(EventType) /\ Plugins!Ids' = Plugins!Ids /\ \A r \in Plugins!Ids : EventKept(f, r)
    <3>1. CASE UNCHANGED events
      BY <1>1, <3>1, EventsStay
    <3>2. CASE ~UNCHANGED events
      <4>1. PICK event \in EventType : /\ Plugins!Write(flushes[f].ev, event)
                                        /\ event.attempts = Plugins!Event(f).attempts /\ event.lease = 0
                                        /\ event.finished = Plugins!Event(f).finished
        <5>1. CASE Plugins!RecordDone(f)
          <6>1. Plugins!Write(flushes[f].ev, [Plugins!Event(f) EXCEPT !.done = TRUE, !.claim = "none", !.lease = 0])
            BY <5>1, <3>2 DEF Plugins!RecordDone
          <6>2. Plugins!Write(flushes[f].ev, Ended(Plugins!Event(f), Plugins!Event(f).due, TRUE)) /\ Plugins!Event(f).due \in BOOLEAN
            BY <6>1, <2>3 DEF Ended, EventType
          <6> QED
            BY <6>2, <2>3, EndedIs
        <5>2. CASE Plugins!RecordFailure(f)
          <6> DEFINE done == flushes[f].lease >= MAX_ATTEMPTS
          <6>1. done \in BOOLEAN
            OBVIOUS
          <6>2. Plugins!Write(flushes[f].ev, Ended(Plugins!Event(f), FALSE, done))
            BY <5>2, <3>2 DEF Plugins!RecordFailure, Ended
          <6> HIDE DEF done
          <6> QED
            BY <6>1, <6>2, <2>3, EndedIs
        <5> QED
          BY <1>6, <5>1, <5>2
      <4> QED
        BY <1>1, <2>3, <4>1, EventWritten
    <3> QED
      BY <3>1, <3>2
  <2> QED
    BY <1>1, <2>1, <2>4, OnwardIs, LocksStay, PluginRestStep
<1> QED
  BY <1>2, <1>3, <1>4, <1>5, <1>6

(* A working flush that goes on to the end of its delivery.                *)
LEMMA EndStep ==
  ASSUME PluginInv, PluginsAssumption, NEW f \in Flush, flushes[f].at \in PluginWorking,
         NEW at \in Ending, NEW retry \in BOOLEAN, Plugins!Go(f, [flushes[f] EXCEPT !.at = at, !.retry = retry]),
         UNCHANGED <<events, shown>>,
         lock' \in [Plugins!Instance -> Flush \cup {"free", "left"}], \A i \in Plugins!Instance : LockKept(f, i)
  PROVE  PluginInv'
<1> DEFINE g == [flushes[f] EXCEPT !.at = at, !.retry = retry]
<1>1. at \in PluginResting \cup PluginWorking /\ at \notin Chosen /\ flushes[f] \in PluginFlushType
  BY DEF PluginInv, PluginTypes, PluginWorking, Chosen, Locked, Ending, Writes
<1>2. /\ g \in PluginFlushType /\ g.at = at /\ g.ev = flushes[f].ev /\ g.lease = flushes[f].lease
      /\ g.todo = flushes[f].todo /\ g.skip = flushes[f].skip /\ g.next = flushes[f].next
  BY <1>1 DEF PluginFlushType
<1>3. Plugins!Go(f, g)
  OBVIOUS
<1> HIDE DEF g
<1>4. g.at \notin Locked \cup Writes \cup {"run", "lock", "check"}
  BY <1>1, <1>2 DEF Chosen, Locked
<1>5. events' \in Seq(EventType) /\ Plugins!Ids' = Plugins!Ids /\ \A r \in Plugins!Ids : EventKept(f, r)
  BY EventsStay DEF PluginInv
<1>6. shown' \in [Plugins!Instance -> ShownType] /\ \A i \in Plugins!Instance : ShownKept(f, i)
  BY ShownStays DEF PluginInv
<1> QED
  BY <1>1, <1>2, <1>3, <1>4, <1>5, <1>6, HoldStep

LEMMA PluginEndKeeps ==
  ASSUME PluginInv, PluginsAssumption, NEW f \in Flush,
         Plugins!LockBusy(f) \/ Plugins!Break(f) \/ Plugins!EndDelivery(f) \/ Plugins!CannotDeliver(f)
  PROVE  PluginInv'
<1>1. /\ flushes[f].at \in PluginWorking /\ flushes[f] \in PluginFlushType /\ flushes[f].retry \in BOOLEAN
      /\ UNCHANGED <<events, shown>> /\ PluginTypes
  BY DEF Plugins!LockBusy, Plugins!Break, Plugins!EndDelivery, Plugins!CannotDeliver, Plugins!At, PluginWorking, Chosen, Locked, Writes, PluginInv, PluginTypes, PluginFlushType
<1>2. lock' \in [Plugins!Instance -> Flush \cup {"free", "left"}] /\ \A i \in Plugins!Instance : LockKept(f, i)
  BY <1>1, LocksStay, LockFreed DEF Plugins!LockBusy, Plugins!Break, Plugins!EndDelivery, Plugins!CannotDeliver
<1>3. \A at : [flushes[f] EXCEPT !.at = at] = [flushes[f] EXCEPT !.at = at, !.retry = flushes[f].retry]
  BY <1>1 DEF PluginFlushType
<1>4. PICK at \in Ending, retry \in BOOLEAN : Plugins!Go(f, [flushes[f] EXCEPT !.at = at, !.retry = retry])
  <2>1. CASE Plugins!LockBusy(f)
    BY <2>1 DEF Plugins!LockBusy, Ending
  <2>2. CASE Plugins!Break(f) \/ Plugins!CannotDeliver(f)
    BY <2>2, <1>1, <1>3 DEF Plugins!Break, Plugins!CannotDeliver, Ending, Plugins!To
  <2>3. CASE Plugins!EndDelivery(f)
    BY <2>3, <1>1, <1>3 DEF Plugins!EndDelivery, Ending, Plugins!To
  <2> QED
    BY <2>1, <2>2, <2>3
<1> QED
  BY <1>1, <1>2, <1>4, EndStep

(* A lease that a flush still has shows that nobody was quicker.           *)
LEMMA LeaseSays ==
  ASSUME PluginInv, PluginsAssumption, NEW f \in Flush, Plugins!At(f, "check"), Plugins!HoldsLease(f)
  PROVE  /\ Plugins!Current(f) \notin Plugins!Event(f).finished
         /\ shown[Plugins!Current(f)].ev = flushes[f].ev => shown[Plugins!Current(f)].lease <= flushes[f].lease
<1>1. /\ flushes[f].at \in PluginWorking \ Ending /\ flushes[f].at \in Chosen
      /\ PluginKnows(f) /\ Claims(f) /\ flushes[f] \in PluginFlushType
  BY DEF Plugins!At, PluginWorking, Chosen, Locked, Ending, PluginInv, PluginTypes
<1>2. flushes[f].next \in DOMAIN Instances /\ Plugins!Current(f) \in Plugins!Instance /\ flushes[f].ev \in Plugins!Ids
  BY <1>1, AtWork
<1>3. Plugins!Current(f) \notin Behind(f)
  <2>1. ASSUME NEW j \in DOMAIN Instances, j < flushes[f].next PROVE Instances[j] # Plugins!Current(f)
    <3>1. j # flushes[f].next
      BY <2>1, InstancesAre, <1>2
    <3> QED
      BY <3>1, <1>2 DEF Plugins!Current, PluginsAssumption
  <2> QED
    BY <2>1, <1>1 DEF Behind, Plugins!At
<1>4. Plugins!Current(f) \notin Plugins!Event(f).finished
  BY <1>1, <1>3 DEF PluginKnows, Plugins!At
<1>5. flushes[f].lease = events[flushes[f].ev].attempts
  BY <1>1, <1>2 DEF Claims, Plugins!HoldsLease, Plugins!Event, PluginInv, LastToken
<1>6. flushes[f].ev # 0
  BY <1>2, PluginIdsAre DEF PluginInv
<1> QED
  BY <1>2, <1>4, <1>5, <1>6 DEF PluginInv, ShownByClaim

(* Looking, and taking the lock: nothing is written.                       *)
LEMMA LookKeeps ==
  ASSUME PluginInv, PluginsAssumption, NEW f \in Flush,
         Plugins!RunInstance(f) \/ Plugins!TakeLock(f) \/ Plugins!CheckLease(f) \/ Plugins!GiveUp(f)
  PROVE  PluginInv'
<1>1. /\ flushes[f].at \in PluginWorking /\ flushes[f].at \in {"run", "lock", "check", "giveUp"} /\ flushes[f].at \in Chosen
      /\ flushes[f] \in PluginFlushType /\ UNCHANGED <<events, shown>> /\ PluginTypes /\ PluginKnows(f) /\ HasLock(f)
  BY DEF Plugins!RunInstance, Plugins!TakeLock, Plugins!CheckLease, Plugins!GiveUp, Plugins!At, PluginWorking, Chosen, Locked, PluginInv, PluginTypes
<1>2. /\ events' \in Seq(EventType) /\ Plugins!Ids' = Plugins!Ids /\ \A r \in Plugins!Ids : EventKept(f, r)
      /\ shown' \in [Plugins!Instance -> ShownType] /\ \A i \in Plugins!Instance : ShownKept(f, i)
  BY <1>1, EventsStay, ShownStays
<1>3. flushes[f].next \in DOMAIN Instances /\ Plugins!Current(f) \in Plugins!Instance
  BY <1>1, AtWork
<1>4. PICK at \in Chosen, found \in {"nothing", "something", "error", "transient"} :
        /\ Plugins!Go(f, [flushes[f] EXCEPT !.at = at, !.found = found])
        /\ at \in {"run", "lock", "check"} => flushes[f].at \in {"run", "lock", "check"}
        /\ at \in Locked /\ ~Plugins!TakeLock(f) => flushes[f].at \in Locked
        /\ at \in Writes => Plugins!At(f, "check") /\ Plugins!HoldsLease(f)
  <2>1. \A at : [flushes[f] EXCEPT !.at = at] = [flushes[f] EXCEPT !.at = at, !.found = flushes[f].found]
    BY <1>1 DEF PluginFlushType
  <2>2. flushes[f].found \in {"nothing", "something", "error", "transient"}
    BY <1>1 DEF PluginFlushType
  <2> DEFINE found == flushes[f].found
  <2>7. /\ {"lock", "check", "lost", "apply", "giveUp", "record"} \subseteq Chosen /\ "lock" \notin Locked \cup Writes
        /\ {"check", "lost", "giveUp", "record"} \cap Writes = {} /\ {"check", "giveUp"} \subseteq Locked
    BY DEF Chosen, Locked, Writes
  <2>3. CASE Plugins!RunInstance(f)
    BY <2>3, <2>7 DEF Plugins!RunInstance, Plugins!At
  <2>4. CASE Plugins!TakeLock(f)
    <3>1. Plugins!Go(f, [flushes[f] EXCEPT !.at = "check", !.found = found]) /\ flushes[f].at = "lock"
      BY <2>4, <2>1 DEF Plugins!TakeLock, Plugins!To, Plugins!At
    <3> QED
      BY <3>1, <2>4, <2>2, <2>7
  <2>6. CASE Plugins!GiveUp(f)
    <3>1. Plugins!Go(f, [flushes[f] EXCEPT !.at = "record", !.found = found]) /\ flushes[f].at = "giveUp"
      BY <2>6, <2>1 DEF Plugins!GiveUp, Plugins!To, Plugins!At
    <3> QED
      BY <3>1, <2>2, <2>7
  <2>5. CASE Plugins!CheckLease(f)
    <3>1. PICK at \in {"lost", "apply", "giveUp", "record"} :
            Plugins!To(f, at) /\ (at = "apply" => Plugins!HoldsLease(f))
      BY <2>5 DEF Plugins!CheckLease, Plugins!MayApply
    <3>2. Plugins!Go(f, [flushes[f] EXCEPT !.at = at, !.found = found]) /\ flushes[f].at = "check" /\ Plugins!At(f, "check")
      BY <3>1, <2>5, <2>1 DEF Plugins!CheckLease, Plugins!To, Plugins!At
    <3> QED
      BY <3>1, <3>2, <2>2, <2>7
  <2> QED
    BY <2>3, <2>4, <2>5, <2>6
<1> DEFINE g == [flushes[f] EXCEPT !.at = at, !.found = found]
<1>5. /\ g \in PluginFlushType /\ g.at = at /\ g.ev = flushes[f].ev /\ g.lease = flushes[f].lease
      /\ g.todo = flushes[f].todo /\ g.skip = flushes[f].skip /\ g.next = flushes[f].next
  BY <1>1, <1>4 DEF PluginFlushType, PluginWorking
<1>6. Plugins!Go(f, g)
  BY <1>4
<1> HIDE DEF g
<1>7. lock' \in [Plugins!Instance -> Flush \cup {"free", "left"}] /\ \A i \in Plugins!Instance : LockKept(f, i)
  BY <1>1, LocksStay DEF Plugins!RunInstance, Plugins!TakeLock, Plugins!CheckLease, Plugins!GiveUp, PluginTypes, LockKept, Plugins!LockFree
<1>8. at \in Locked => lock'[Plugins!Current(f)] = f
  <2>1. CASE Plugins!TakeLock(f)
    BY <2>1, <1>1, <1>3 DEF Plugins!TakeLock, PluginTypes
  <2>2. CASE ~Plugins!TakeLock(f)
    BY <2>2, <1>1, <1>4 DEF Plugins!RunInstance, Plugins!CheckLease, Plugins!GiveUp, HasLock
  <2> QED
    BY <2>1, <2>2
<1>9. at \in {"run", "lock", "check"} => Plugins!Current(f) \notin flushes[f].skip
  BY <1>1, <1>4 DEF PluginKnows
<1>10. at \in Writes =>
         /\ ~Plugins!At(f, "record") /\ Plugins!Current(f) \notin Plugins!Event(f).finished
         /\ shown'[Plugins!Current(f)].ev = flushes[f].ev => shown'[Plugins!Current(f)].lease <= flushes[f].lease
  BY <1>1, <1>4, LeaseSays DEF Plugins!At
<1>11. flushes[f].at \notin Ending \cup {"release"} /\ ~Plugins!At(f, "record")
  BY <1>1 DEF Ending, Plugins!At
<1> QED
  BY <1>1, <1>2, <1>3, <1>4, <1>5, <1>6, <1>7, <1>8, <1>9, <1>10, <1>11, HoldStep

(* Before an instance: past it, on with the lease renewed, or the event is *)
(* left to who took it over.                                               *)
LEMMA BeforeKeeps ==
  ASSUME PluginInv, PluginsAssumption, NEW f \in Flush, Plugins!Before(f)
  PROVE  PluginInv'
<1>1. /\ Plugins!At(f, "before") /\ Plugins!InstancesLeft(f) /\ UNCHANGED <<lock, shown>> /\ PluginTypes
      /\ flushes[f].at \in PluginWorking /\ flushes[f].at \notin Ending \cup {"release"} /\ ~Plugins!At(f, "record")
  BY DEF Plugins!Before, Plugins!At, PluginWorking, Ending, PluginInv
<1>2. /\ flushes[f].ev \in Plugins!Ids /\ Plugins!Event(f) \in EventType /\ flushes[f].next \in DOMAIN Instances
      /\ Plugins!Event(f) = events[flushes[f].ev]
  BY <1>1, AtWork DEF Plugins!Event
<1>3. /\ lock' \in [Plugins!Instance -> Flush \cup {"free", "left"}] /\ \A i \in Plugins!Instance : LockKept(f, i)
      /\ shown' \in [Plugins!Instance -> ShownType] /\ \A i \in Plugins!Instance : ShownKept(f, i)
  BY <1>1, LocksStay, ShownStays
<1>4. CASE Plugins!Current(f) \in flushes[f].skip
  BY <1>1, <1>3, <1>4, PassStep DEF Plugins!Before
<1>5. CASE Plugins!Current(f) \notin flushes[f].skip /\ Plugins!HoldsLease(f)
  <2> DEFINE g == [flushes[f] EXCEPT !.at = "run"]
             event == [Plugins!Event(f) EXCEPT !.claim = "held"]
  <2>1. Plugins!Write(flushes[f].ev, event) /\ Plugins!Go(f, g)
    BY <1>5 DEF Plugins!Before, Plugins!To
  <2>2. /\ event \in EventType /\ event.attempts = events[flushes[f].ev].attempts
        /\ event.lease = events[flushes[f].ev].lease /\ event.finished = events[flushes[f].ev].finished
    BY <1>2, Outcomes DEF EventType
  <2> HIDE DEF event
  <2>3. events' \in Seq(EventType) /\ Plugins!Ids' = Plugins!Ids /\ \A r \in Plugins!Ids : EventKept(f, r)
    BY <1>1, <1>2, <2>1, <2>2, EventWritten
  <2>4. "run" \in PluginWorking /\ "run" \in Chosen /\ "run" \notin Locked \cup Writes
    BY DEF PluginWorking, Chosen, Locked, Writes
  <2>5. /\ g \in PluginFlushType /\ g.at = "run" /\ g.ev = flushes[f].ev /\ g.lease = flushes[f].lease
        /\ g.todo = flushes[f].todo /\ g.skip = flushes[f].skip /\ g.next = flushes[f].next
    BY <2>4, ToIs
  <2> HIDE DEF g
  <2> QED
    BY <1>1, <1>2, <1>3, <1>5, <2>1, <2>3, <2>4, <2>5, HoldStep
<1>6. CASE Plugins!Current(f) \notin flushes[f].skip /\ ~Plugins!HoldsLease(f)
  <2>1. Plugins!Go(f, Plugins!Onward(f)) /\ UNCHANGED events /\ "next" \in PluginResting
    BY <1>6 DEF Plugins!Before, PluginResting
  <2> QED
    BY <1>1, <1>3, <2>1, OnwardIs, EventsStay, PluginRestStep
<1> QED
  BY <1>4, <1>5, <1>6

(* The item is written.                                                    *)
LEMMA ApplyKeeps ==
  ASSUME PluginInv, PluginsAssumption, NEW f \in Flush, Plugins!Apply(f) \/ Plugins!ApplyRest(f)
  PROVE  PluginInv'
<1>1. /\ flushes[f].at \in PluginWorking /\ flushes[f].at \in Chosen /\ flushes[f].at \in Locked /\ flushes[f].at \in Writes
      /\ flushes[f].at \notin Ending \cup {"release", "record"}
      /\ flushes[f] \in PluginFlushType /\ UNCHANGED <<events, lock>> /\ PluginTypes /\ HasLock(f) /\ MayWrite(f)
  BY DEF Plugins!Apply, Plugins!ApplyRest, Plugins!At, PluginWorking, Chosen, Locked, Writes, Ending, PluginInv, PluginTypes
<1>2. flushes[f].next \in DOMAIN Instances /\ Plugins!Current(f) \in Plugins!Instance
  BY <1>1, AtWork
<1>3. /\ events' \in Seq(EventType) /\ Plugins!Ids' = Plugins!Ids /\ \A r \in Plugins!Ids : EventKept(f, r)
      /\ lock' \in [Plugins!Instance -> Flush \cup {"free", "left"}] /\ \A i \in Plugins!Instance : LockKept(f, i)
  BY <1>1, EventsStay, LocksStay
<1>4. PICK at \in {"applied", "record"}, whole \in BOOLEAN :
        /\ Plugins!Go(f, [flushes[f] EXCEPT !.at = at])
        /\ shown' = [shown EXCEPT ![Plugins!Current(f)] = [ev |-> flushes[f].ev, lease |-> flushes[f].lease, whole |-> whole]]
  BY DEF Plugins!Apply, Plugins!ApplyRest, Plugins!To
<1>5. /\ [ev |-> flushes[f].ev, lease |-> flushes[f].lease, whole |-> whole] \in ShownType
      /\ flushes[f].lease \in Nat
  BY <1>1 DEF PluginFlushType, ShownType
<1>6. /\ shown' \in [Plugins!Instance -> ShownType] /\ \A i \in Plugins!Instance : ShownKept(f, i)
      /\ shown'[Plugins!Current(f)].lease <= flushes[f].lease
  BY <1>1, <1>2, <1>4, <1>5 DEF PluginTypes, ShownKept
<1> DEFINE g == [flushes[f] EXCEPT !.at = at]
<1>7. at \in PluginWorking /\ at \in Chosen /\ at \in Locked /\ at \notin {"run", "lock", "check"}
  BY <1>4 DEF PluginWorking, Chosen, Locked, Writes
<1>8. /\ g \in PluginFlushType /\ g.at = at /\ g.ev = flushes[f].ev /\ g.lease = flushes[f].lease
      /\ g.todo = flushes[f].todo /\ g.skip = flushes[f].skip /\ g.next = flushes[f].next
  BY <1>7, ToIs
<1>9. Plugins!Go(f, g)
  BY <1>4
<1> HIDE DEF g
<1>10. Plugins!Current(f) \notin Plugins!Event(f).finished /\ ~Plugins!At(f, "record") /\ lock'[Plugins!Current(f)] = f
  BY <1>1 DEF MayWrite, HasLock, Plugins!At
<1> QED
  BY <1>1, <1>2, <1>3, <1>6, <1>7, <1>8, <1>9, <1>10, HoldStep

(* What was run is recorded, or the next delivery runs it again.           *)
LEMMA RecordKeeps ==
  ASSUME PluginInv, PluginsAssumption, NEW f \in Flush, Plugins!Record(f)
  PROVE  PluginInv'
<1>1. /\ flushes[f].at \in PluginWorking /\ flushes[f].at \in Chosen /\ flushes[f].at \in Locked /\ Plugins!At(f, "record")
      /\ flushes[f].at \notin Ending \cup {"release"}
      /\ flushes[f] \in PluginFlushType /\ UNCHANGED <<lock, shown>> /\ PluginTypes /\ HasLock(f)
  BY DEF Plugins!Record, Plugins!At, PluginWorking, Chosen, Locked, Ending, PluginInv, PluginTypes
<1>2. /\ flushes[f].next \in DOMAIN Instances /\ Plugins!Current(f) \in Plugins!Instance
      /\ flushes[f].ev \in Plugins!Ids /\ Plugins!Event(f) \in EventType /\ Plugins!Event(f) = events[flushes[f].ev]
  BY <1>1, AtWork DEF Plugins!Event
<1>3. /\ lock' \in [Plugins!Instance -> Flush \cup {"free", "left"}] /\ \A i \in Plugins!Instance : LockKept(f, i)
      /\ shown' \in [Plugins!Instance -> ShownType] /\ \A i \in Plugins!Instance : ShownKept(f, i)
  BY <1>1, LocksStay, ShownStays
<1>4. flushes[f].retry \in BOOLEAN /\ \A at : [flushes[f] EXCEPT !.at = at] = [flushes[f] EXCEPT !.at = at, !.retry = flushes[f].retry]
  BY <1>1 DEF PluginFlushType
<1>5. PICK at \in {"release", "lost"}, retry \in BOOLEAN :
        /\ Plugins!Go(f, [flushes[f] EXCEPT !.at = at, !.retry = retry])
        /\ \/ UNCHANGED events
           \/ /\ at = "release" /\ Plugins!HoldsLease(f)
              /\ Plugins!Write(flushes[f].ev, [Plugins!Event(f) EXCEPT !.finished = @ \cup {Plugins!Current(f)}])
  <2>1. CASE ~Plugins!Final(f)
    BY <2>1 DEF Plugins!Record
  <2>2. CASE Plugins!Final(f) /\ Plugins!HoldsLease(f)
    BY <2>2, <1>4 DEF Plugins!Record, Plugins!To
  <2>3. CASE Plugins!Final(f) /\ ~Plugins!HoldsLease(f)
    BY <2>3, <1>4 DEF Plugins!Record, Plugins!To
  <2> QED
    BY <2>1, <2>2, <2>3
<1>6. events' \in Seq(EventType) /\ Plugins!Ids' = Plugins!Ids /\ \A r \in Plugins!Ids : EventKept(f, r)
  <2>1. CASE UNCHANGED events
    BY <2>1, <1>1, EventsStay
  <2>2. CASE Plugins!HoldsLease(f) /\ Plugins!Write(flushes[f].ev, [Plugins!Event(f) EXCEPT !.finished = @ \cup {Plugins!Current(f)}])
    <3> DEFINE event == [Plugins!Event(f) EXCEPT !.finished = @ \cup {Plugins!Current(f)}]
    <3>1. /\ event \in EventType /\ event.attempts = events[flushes[f].ev].attempts
          /\ event.lease = events[flushes[f].ev].lease
          /\ event.finished = events[flushes[f].ev].finished \cup {Plugins!Current(f)}
      BY <1>2, Outcomes DEF EventType
    <3>2. Plugins!Write(flushes[f].ev, event)
      BY <2>2
    <3> HIDE DEF event
    <3> QED
      BY <1>1, <1>2, <2>2, <3>1, <3>2, EventWritten
  <2> QED
    BY <1>5, <2>1, <2>2
<1> DEFINE g == [flushes[f] EXCEPT !.at = at, !.retry = retry]
<1>7. at \in PluginResting \cup PluginWorking /\ at \in Chosen /\ at \notin {"run", "lock", "check"} \cup Writes
  BY <1>5 DEF PluginWorking, Chosen, Locked, Writes
<1>8. /\ g \in PluginFlushType /\ g.at = at /\ g.ev = flushes[f].ev /\ g.lease = flushes[f].lease
      /\ g.todo = flushes[f].todo /\ g.skip = flushes[f].skip /\ g.next = flushes[f].next
  BY <1>1, <1>7 DEF PluginFlushType
<1>9. Plugins!Go(f, g)
  BY <1>5
<1> HIDE DEF g
<1>10. lock'[Plugins!Current(f)] = f
  BY <1>1 DEF HasLock
<1>11. g.at \in {"release", "lost"} /\ (g.at = "lost" => UNCHANGED events)
  BY <1>5, <1>8
<1> QED
  BY <1>1, <1>2, <1>3, <1>6, <1>7, <1>8, <1>9, <1>10, <1>11, HoldStep

LEMMA ReleaseKeeps ==
  ASSUME PluginInv, PluginsAssumption, NEW f \in Flush, Plugins!Release(f)
  PROVE  PluginInv'
<1>1. UNCHANGED <<events, shown>> /\ PluginTypes
  BY DEF Plugins!Release, PluginInv
<1>2. lock' \in [Plugins!Instance -> Flush \cup {"free", "left"}] /\ \A i \in Plugins!Instance : LockKept(f, i)
  BY <1>1, LockFreed DEF Plugins!Release
<1>3. CASE Plugins!At(f, "lost")
  <2>1. Plugins!Go(f, Plugins!Onward(f)) /\ "next" \in PluginResting
    BY <1>3 DEF Plugins!Release, PluginResting
  <2> QED
    BY <1>1, <1>2, <2>1, OnwardIs, EventsStay, PluginRestStep
<1>4. CASE Plugins!At(f, "release")
  <2>1. Plugins!Go(f, Plugins!PastThis(f))
    BY <1>4 DEF Plugins!Release, Plugins!At
  <2> QED
    BY <1>1, <1>2, <1>4, <2>1, PassStep
<1> QED
  BY <1>3, <1>4 DEF Plugins!Release

(* A claim gives the event a token that no flush has.                      *)
LEMMA PluginClaimKeeps ==
  ASSUME PluginInv, PluginsAssumption, NEW f \in Flush, Plugins!Claim(f)
  PROVE  PluginInv'
<1>1. /\ UNCHANGED <<lock, shown>> /\ PluginTypes /\ flushes[f] \in PluginFlushType /\ flushes[f].todo \subseteq Plugins!Ids
      /\ Plugins!Ids \subseteq Nat
  BY PluginIdsAre DEF Plugins!Claim, PluginInv, PluginTypes, Claims
<1>2. PICK r \in flushes[f].todo :
        IF Plugins!Claimable(events[r])
        THEN /\ Plugins!Write(r, Plugins!Claimed(events[r]))
             /\ Plugins!Go(f, [Plugins!AtRest EXCEPT !.at = "before", !.todo = flushes[f].todo \ {r}, !.ev = r,
                                     !.lease = events[r].attempts + 1, !.skip = Plugins!FinishedBefore(events[r])])
        ELSE Plugins!Go(f, [flushes[f] EXCEPT !.todo = flushes[f].todo \ {r}]) /\ UNCHANGED events
  BY DEF Plugins!Claim
<1>3. r \in Plugins!Ids /\ events[r] \in EventType /\ flushes[f].at \in PluginResting
  <2>1. flushes[f].at = "next"
    BY DEF Plugins!Claim, Plugins!At
  <2> QED
    BY <1>1, <1>2, <2>1, EventIs DEF PluginResting
<1> DEFINE todo == flushes[f].todo \ {r}
<1>4. todo \subseteq Plugins!Ids /\ todo \in SUBSET Nat
  BY <1>1
<1> HIDE DEF todo
<1>5. CASE ~Plugins!Claimable(events[r])
  <2> DEFINE g == [flushes[f] EXCEPT !.todo = todo]
  <2>1. Plugins!Go(f, g) /\ UNCHANGED events
    BY <1>2, <1>5 DEF todo
  <2>2. g \in PluginFlushType /\ g.at \in PluginResting /\ g.todo = todo
    BY <1>1, <1>3, <1>4 DEF PluginFlushType
  <2> HIDE DEF g
  <2> QED
    BY <1>1, <1>4, <2>1, <2>2, EventsStay, LocksStay, PluginRestStep
<1>6. CASE Plugins!Claimable(events[r])
  <2> DEFINE token == events[r].attempts + 1
             g == [Plugins!AtRest EXCEPT !.at = "before", !.todo = todo, !.ev = r,
                                 !.lease = token, !.skip = events[r].finished]
             event == Plugins!Claimed(events[r])
  <2>1. token \in Nat /\ token > events[r].attempts /\ token \in 1..token
    BY <1>3 DEF EventType
  <2>2. Plugins!Write(r, event) /\ Plugins!Go(f, g)
    BY <1>2, <1>6 DEF Plugins!FinishedBefore, todo
  <2>3. /\ event \in EventType /\ event.attempts = token /\ event.lease = token
        /\ event.finished = events[r].finished
    BY <1>3, <2>1 DEF Plugins!Claimed, EventType
  <2> HIDE DEF event, token
  <2>4. events[r].finished \in SUBSET Plugins!Instance /\ r \in Nat /\ "before" \in PluginResting \cup PluginWorking
    BY <1>1, <1>3 DEF EventType, PluginWorking
  <2>5. /\ g \in PluginFlushType /\ g.at = "before" /\ g.todo = todo /\ g.ev = r /\ g.lease = token
        /\ g.skip = events[r].finished /\ g.next = 1
    BY <1>4, <2>1, <2>4 DEF Plugins!AtRest, PluginFlushType
  <2> HIDE DEF g
  <2>6. /\ events' \in Seq(EventType) /\ Plugins!Ids' = Plugins!Ids
        /\ \A q \in Plugins!Ids : events'[q] = IF q = r THEN event ELSE events[q]
    BY <1>1, <1>3, <2>2, <2>3, PluginWriteKeeps
  <2>7. /\ flushes' \in [Flush -> PluginFlushType]
        /\ flushes'[f] = g /\ \A h \in Flush \ {f} : flushes'[h] = flushes[h]
    BY <1>1, <2>2, <2>5, PluginGoKeeps
  <2>8. PluginTypes'
    BY <1>1, <2>6, <2>7 DEF PluginTypes
  <2>9. ASSUME NEW q \in Plugins!Ids
        PROVE  LastToken(q)' /\ events'[q].attempts \in Nat /\ events'[q].attempts >= events[q].attempts
    <3>1. events[q].attempts \in Nat /\ LastToken(q)
      BY <1>1, EventIs DEF PluginInv, EventType
    <3>2. CASE q = r
      <4>1. events'[q].attempts = token /\ events'[q].lease = token
        BY <3>2, <2>3, <2>6
      <4> QED
        BY <3>1, <3>2, <4>1, <2>1 DEF LastToken
    <3>3. CASE q # r
      <4>1. events'[q] = events[q]
        BY <3>3, <2>6
      <4> QED
        BY <3>1, <4>1 DEF LastToken
    <3> QED
      BY <3>2, <3>3
  <2>10. ASSUME NEW h \in Flush, flushes[h].at \in PluginWorking
         PROVE  flushes[h].ev \in Plugins!Ids /\ (flushes[h].ev = r => flushes[h].lease # token)
    <3>1. flushes[h].ev \in Plugins!Ids /\ flushes[h].lease \in 1..events[flushes[h].ev].attempts
      BY <2>10 DEF PluginInv, Claims
    <3> QED
      BY <3>1, <1>3, <2>1 DEF EventType
  <2>11. TokensDiffer'
    <3>1. SUFFICES ASSUME NEW g1 \in Flush, NEW g2 \in Flush,
                          flushes'[g1].at \in PluginWorking, flushes'[g2].at \in PluginWorking,
                          flushes'[g1].ev = flushes'[g2].ev, flushes'[g1].lease = flushes'[g2].lease
                   PROVE  g1 = g2
      BY DEF TokensDiffer
    <3>2. CASE g1 = f \/ g2 = f
      BY <3>1, <3>2, <2>5, <2>7, <2>10
    <3>3. CASE g1 # f /\ g2 # f
      BY <3>1, <3>3, <2>7 DEF PluginInv, TokensDiffer
    <3> QED
      BY <3>2, <3>3
  <2>12. ASSUME NEW h \in Flush \ {f} PROVE Mine(h)'
    <3>1. ASSUME flushes[h].at \in PluginWorking
          PROVE  /\ Plugins!Event(h)'.attempts \in Nat /\ Plugins!Event(h)'.attempts >= Plugins!Event(h).attempts
                 /\ Plugins!Event(h)'.lease = flushes[h].lease =>
                      Plugins!Event(h).lease = flushes[h].lease /\ Plugins!Event(h)'.finished = Plugins!Event(h).finished
                 /\ flushes[h].at \in Writes =>
                      (Plugins!Current(h) \in Plugins!Event(h)'.finished => Plugins!Current(h) \in Plugins!Event(h).finished)
      <4>1. /\ Plugins!Event(h) = events[flushes[h].ev] /\ Plugins!Event(h)' = events'[flushes[h].ev]
            /\ flushes[h].ev \in Plugins!Ids
        BY <3>1, <2>7, <2>10 DEF Plugins!Event
      <4>2. Plugins!Event(h)'.finished = Plugins!Event(h).finished
        BY <4>1, <2>3, <2>6
      <4>3. Plugins!Event(h)'.lease = flushes[h].lease => Plugins!Event(h).lease = flushes[h].lease
        BY <3>1, <4>1, <2>3, <2>6, <2>10
      <4> QED
        BY <4>1, <4>2, <4>3, <2>9
    <3> QED
      BY <3>1, <1>1, <2>6, <2>7, Undisturbed
  <2>13. Mine(f)'
    <3>1. Claims(f)'
      <4>1. 1 \in 1..(Len(Instances) + 1)
        BY InstancesAre
      <4>2. events'[r].attempts = token
        BY <1>3, <2>3, <2>6
      <4> QED
        BY <4>1, <4>2, <1>3, <1>4, <2>1, <2>5, <2>6, <2>7 DEF Claims
    <3>2. "before" \notin Chosen \cup Locked \cup Writes \cup {"run", "lock", "check"}
      BY DEF Chosen, Locked, Writes
    <3>3. HasLock(f)' /\ MayWrite(f)'
      BY <3>2, <2>5, <2>7 DEF HasLock, MayWrite
    <3>4. Plugins!Event(f)'.finished = flushes'[f].skip
      BY <1>3, <2>3, <2>5, <2>6, <2>7 DEF Plugins!Event
    <3>5. PluginKnows(f)'
      BY <3>2, <3>4, <2>5, <2>7 DEF PluginKnows
    <3> QED
      BY <3>1, <3>3, <3>5 DEF Mine
  <2>14. ASSUME NEW i \in Plugins!Instance PROVE ShownByClaim(i)'
    <3>1. SUFFICES ASSUME shown[i].ev # 0
                   PROVE  shown[i].ev \in Plugins!Ids /\ shown[i].lease <= events'[shown[i].ev].attempts
      BY <1>1, <2>6 DEF ShownByClaim
    <3>2. shown[i].ev \in Plugins!Ids /\ shown[i].lease <= events[shown[i].ev].attempts /\ shown[i].lease \in Nat
      BY <1>1, <3>1 DEF PluginInv, ShownByClaim, PluginTypes, ShownType
    <3>3. events[shown[i].ev].attempts \in Nat
      BY <1>1, <3>2, EventIs DEF EventType
    <3> QED
      BY <3>2, <3>3, <2>9
  <2> QED
    BY <2>6, <2>8, <2>9, <2>11, <2>12, <2>13, <2>14 DEF PluginInv, Mine
<1> QED
  BY <1>5, <1>6

(* Steps of no flush: events are queued, and time passes.                  *)
LEMMA PluginQuietStep ==
  ASSUME PluginInv, PluginsAssumption, UNCHANGED <<flushes, shown>>, PluginTypes', Plugins!Ids \subseteq Plugins!Ids',
         \A r \in Plugins!Ids : /\ events'[r].attempts = events[r].attempts /\ events'[r].lease = events[r].lease
                        /\ events'[r].finished = events[r].finished,
         \A r \in Plugins!Ids' \ Plugins!Ids : LastToken(r)',
         \A i \in Plugins!Instance : lock'[i] = lock[i] \/ lock[i] = "left"
  PROVE  PluginInv'
<1>1. ASSUME NEW r \in Plugins!Ids' PROVE LastToken(r)'
  BY DEF PluginInv, LastToken
<1>2. TokensDiffer'
  BY DEF PluginInv, TokensDiffer
<1>3. ASSUME NEW h \in Flush PROVE Mine(h)'
  <2>1. flushes[h].at \in Locked => lock'[Plugins!Current(h)] = lock[Plugins!Current(h)]
    <3>1. SUFFICES ASSUME flushes[h].at \in Locked PROVE Plugins!Current(h) \in Plugins!Instance /\ lock[Plugins!Current(h)] # "left"
      OBVIOUS
    <3> QED
      BY <3>1, AtWork DEF PluginInv, HasLock, Chosen, PluginWorking, PluginsAssumption
  <2>2. ASSUME flushes[h].at \in PluginWorking
        PROVE  /\ Plugins!Event(h)'.attempts = Plugins!Event(h).attempts /\ Plugins!Event(h)'.attempts \in Nat
               /\ Plugins!Event(h)'.lease = Plugins!Event(h).lease /\ Plugins!Event(h)'.finished = Plugins!Event(h).finished
    <3>1. flushes[h].ev \in Plugins!Ids /\ Plugins!Event(h) \in EventType
      BY <2>2, AtWork
    <3> QED
      BY <3>1 DEF Plugins!Event, EventType
  <2> QED
    BY <2>1, <2>2, Undisturbed
<1>4. ASSUME NEW i \in Plugins!Instance PROVE ShownByClaim(i)'
  BY DEF PluginInv, ShownByClaim
<1> QED
  BY <1>1, <1>2, <1>3, <1>4 DEF PluginInv, Mine

LEMMA PluginQuietKeeps ==
  ASSUME PluginInv, PluginsAssumption, Plugins!QueueEvent \/ Plugins!Clock \/ UNCHANGED Plugins!vars
  PROVE  PluginInv'
<1>1. PluginTypes
  BY DEF PluginInv
<1>2. CASE UNCHANGED Plugins!vars
  <2>1. UNCHANGED <<events, flushes, lock, shown>>
    BY <1>2 DEF Plugins!vars
  <2>2. PluginTypes' /\ Plugins!Ids' = Plugins!Ids
    BY <1>1, <2>1 DEF PluginTypes, Plugins!Ids
  <2> QED
    BY <2>1, <2>2, PluginQuietStep
<1>3. CASE Plugins!QueueEvent
  <2>1. UNCHANGED <<flushes, lock, shown>> /\ events' = Append(events, Plugins!NewEvent) /\ events \in Seq(EventType)
    BY <1>1, <1>3 DEF Plugins!QueueEvent, PluginTypes
  <2>2. Plugins!NewEvent \in EventType /\ Plugins!NewEvent.lease = 0
    BY DEF Plugins!NewEvent, EventType
  <2> HIDE DEF Plugins!NewEvent
  <2>3. /\ events' \in Seq(EventType) /\ Len(events') = Len(events) + 1
        /\ \A r \in 1..Len(events) : events'[r] = events[r]
        /\ events'[Len(events) + 1] = Plugins!NewEvent
    BY <2>1, <2>2, AppendProperties
  <2>4. PluginTypes'
    BY <1>1, <2>1, <2>3 DEF PluginTypes
  <2>5. Plugins!Ids' = 1..(Len(events) + 1) /\ Plugins!Ids = 1..Len(events) /\ Len(events) \in Nat
    BY <2>3, <1>1, PluginIdsAre, LenProperties DEF Plugins!Ids
  <2>6. Plugins!Ids \subseteq Plugins!Ids' /\ \A r \in Plugins!Ids' \ Plugins!Ids : r = Len(events) + 1
    BY <2>5
  <2>7. \A r \in Plugins!Ids' \ Plugins!Ids : LastToken(r)'
    BY <2>2, <2>3, <2>6 DEF LastToken
  <2> QED
    BY <2>1, <2>3, <2>4, <2>5, <2>6, <2>7, PluginQuietStep
<1>4. ASSUME NEW r \in Plugins!Ids, Plugins!LeaseRunsOut(r) \/ Plugins!ComesDue(r) PROVE PluginInv'
  <2>1. events[r] \in EventType
    BY <1>1, EventIs
  <2>2. PICK event \in EventType :
          /\ Plugins!Write(r, event) /\ event.attempts = events[r].attempts /\ event.lease = events[r].lease
          /\ event.finished = events[r].finished
    <3> DEFINE stale == [events[r] EXCEPT !.claim = "stale"]
               dueNow == [events[r] EXCEPT !.due = TRUE]
    <3>1. /\ stale \in EventType /\ stale.attempts = events[r].attempts /\ stale.lease = events[r].lease
          /\ stale.finished = events[r].finished
          /\ dueNow \in EventType /\ dueNow.attempts = events[r].attempts /\ dueNow.lease = events[r].lease
          /\ dueNow.finished = events[r].finished
      BY <2>1 DEF EventType
    <3>2. Plugins!Write(r, stale) \/ Plugins!Write(r, dueNow)
      BY <1>4 DEF Plugins!LeaseRunsOut, Plugins!ComesDue
    <3> HIDE DEF stale, dueNow
    <3> QED
      BY <3>1, <3>2
  <2>3. UNCHANGED <<flushes, lock, shown>>
    BY <1>4 DEF Plugins!LeaseRunsOut, Plugins!ComesDue
  <2>4. /\ events' \in Seq(EventType) /\ Plugins!Ids' = Plugins!Ids
        /\ \A q \in Plugins!Ids : events'[q] = IF q = r THEN event ELSE events[q]
    BY <1>1, <2>2, PluginWriteKeeps
  <2>5. PluginTypes'
    BY <1>1, <2>3, <2>4 DEF PluginTypes
  <2> QED
    BY <2>2, <2>3, <2>4, <2>5, PluginQuietStep
<1>5. ASSUME NEW i \in Plugins!Instance, Plugins!LockRunsOut(i) PROVE PluginInv'
  <2>1. UNCHANGED <<events, flushes, shown>> /\ lock[i] = "left" /\ lock' = [lock EXCEPT ![i] = "free"]
    BY <1>5 DEF Plugins!LockRunsOut
  <2>2. PluginTypes' /\ Plugins!Ids' = Plugins!Ids /\ \A j \in Plugins!Instance : lock'[j] = lock[j] \/ lock[j] = "left"
    BY <1>1, <2>1 DEF PluginTypes, Plugins!Ids
  <2> QED
    BY <2>1, <2>2, PluginQuietStep
<1> QED
  BY <1>2, <1>3, <1>4, <1>5 DEF Plugins!Clock

-----------------------------------------------------------------------------

LEMMA PluginStart == Plugins!Init => PluginInv
<1> SUFFICES ASSUME Plugins!Init PROVE PluginInv
  OBVIOUS
<1>1. /\ events = <<>> /\ Plugins!Ids = {} /\ flushes = [f \in Flush |-> Plugins!AtRest]
      /\ lock = [i \in Plugins!Instance |-> "free"]
      /\ shown = [i \in Plugins!Instance |-> [ev |-> 0, lease |-> 0, whole |-> TRUE]]
  BY EmptySeq DEF Plugins!Init, Plugins!Ids
<1>2. Plugins!AtRest \in PluginFlushType /\ Plugins!AtRest.at = "idle" /\ Plugins!AtRest.todo = {}
  BY DEF Plugins!AtRest, PluginFlushType, PluginResting
<1>3. "idle" \notin PluginWorking
  BY DEF PluginWorking, Chosen, Locked, Writes, Ending
<1>4. PluginTypes
  BY <1>1, <1>2, EmptySeq DEF PluginTypes, ShownType
<1>5. \A f \in Flush : flushes[f].at \notin PluginWorking /\ flushes[f].todo = {}
  BY <1>1, <1>2, <1>3
<1>6. \A f \in Flush : Claims(f) /\ HasLock(f) /\ PluginKnows(f) /\ MayWrite(f)
  BY <1>5 DEF Claims, HasLock, PluginKnows, MayWrite, PluginWorking, Chosen, Locked
<1>7. TokensDiffer
  BY <1>5 DEF TokensDiffer
<1>8. \A i \in Plugins!Instance : ShownByClaim(i)
  BY <1>1 DEF ShownByClaim
<1> QED
  BY <1>1, <1>4, <1>6, <1>7, <1>8 DEF PluginInv

LEMMA PluginStep ==
  ASSUME PluginInv, PluginsAssumption, [Plugins!Next]_(Plugins!vars)
  PROVE  PluginInv'
<1>1. ASSUME NEW f \in Flush, Plugins!Step(f) \/ Plugins!LockBusy(f) \/ Plugins!CannotDeliver(f) \/ Plugins!Break(f) \/ Plugins!Crash(f) PROVE PluginInv'
  <2>1. CASE Plugins!Sweep(f) \/ Plugins!SelectDue(f) \/ Plugins!EndFlush(f) \/ Plugins!RecordDone(f) \/ Plugins!RecordFailure(f) \/ Plugins!Crash(f)
    BY <2>1, PluginRestKeeps
  <2>2. CASE Plugins!LockBusy(f) \/ Plugins!Break(f) \/ Plugins!EndDelivery(f) \/ Plugins!CannotDeliver(f)
    BY <2>2, PluginEndKeeps
  <2>3. CASE Plugins!RunInstance(f) \/ Plugins!TakeLock(f) \/ Plugins!CheckLease(f) \/ Plugins!GiveUp(f)
    BY <2>3, LookKeeps
  <2>4. CASE Plugins!Claim(f) \/ Plugins!Before(f) \/ Plugins!Apply(f) \/ Plugins!ApplyRest(f) \/ Plugins!Record(f) \/ Plugins!Release(f)
    BY <2>4, PluginClaimKeeps, BeforeKeeps, ApplyKeeps, RecordKeeps, ReleaseKeeps
  <2> QED
    BY <1>1, <2>1, <2>2, <2>3, <2>4 DEF Plugins!Step
<1> QED
  BY <1>1, PluginQuietKeeps DEF Plugins!Next

(* The lock is the instance's, and its holder has looked at the lease.     *)
LEMMA PluginGives == PluginInv => Plugins!OneWriter /\ Plugins!FinishedOnce
<1> SUFFICES ASSUME PluginInv PROVE Plugins!OneWriter /\ Plugins!FinishedOnce
  OBVIOUS
<1>1. ASSUME NEW f \in Flush, Plugins!Writing(f)
      PROVE  lock[Plugins!Current(f)] = f /\ Plugins!Current(f) \notin Plugins!Event(f).finished
  BY <1>1 DEF Plugins!Writing, Plugins!At, PluginInv, HasLock, MayWrite, Writes, Locked
<1> QED
  BY <1>1 DEF Plugins!OneWriter, Plugins!FinishedOnce

(* Only a flush that may write writes what the item shows.                 *)
LEMMA PluginNeverBack ==
  ASSUME PluginInv, PluginsAssumption, [Plugins!Next]_(Plugins!vars)
  PROVE  Plugins!KeepsLaterRun
<1>1. SUFFICES ASSUME NEW i \in Plugins!Instance, shown'[i].ev = shown[i].ev PROVE shown'[i].lease >= shown[i].lease
  BY DEF Plugins!KeepsLaterRun
<1>2. shown[i] \in ShownType
  BY DEF PluginInv, PluginTypes
<1>3. CASE shown' = shown
  BY <1>2, <1>3 DEF ShownType
<1>4. ASSUME NEW f \in Flush, Plugins!Apply(f) \/ Plugins!ApplyRest(f) PROVE shown'[i].lease >= shown[i].lease
  <2>1. /\ flushes[f].at \in Writes /\ flushes[f] \in PluginFlushType /\ MayWrite(f)
    BY <1>4 DEF Plugins!Apply, Plugins!ApplyRest, Plugins!At, Writes, PluginInv, PluginTypes
  <2>2. PICK whole \in BOOLEAN :
          shown' = [shown EXCEPT ![Plugins!Current(f)] = [ev |-> flushes[f].ev, lease |-> flushes[f].lease, whole |-> whole]]
    BY <1>4 DEF Plugins!Apply, Plugins!ApplyRest
  <2>3. CASE i = Plugins!Current(f)
    <3>1. shown'[i].ev = flushes[f].ev /\ shown'[i].lease = flushes[f].lease
      BY <2>2, <2>3 DEF PluginInv, PluginTypes
    <3> QED
      BY <3>1, <2>1, <2>3, <1>1 DEF MayWrite
  <2>4. CASE i # Plugins!Current(f)
    BY <2>2, <2>4, <1>2 DEF PluginInv, PluginTypes, ShownType
  <2> QED
    BY <2>3, <2>4
<1>5. \/ shown' = shown
      \/ \E f \in Flush : Plugins!Apply(f) \/ Plugins!ApplyRest(f)
  BY DEF Plugins!Next, Plugins!vars, Plugins!Clock, Plugins!QueueEvent, Plugins!LeaseRunsOut, Plugins!ComesDue, Plugins!LockRunsOut, Plugins!Step, Plugins!Sweep, Plugins!SelectDue, Plugins!Claim,
         Plugins!EndFlush, Plugins!Before, Plugins!RunInstance, Plugins!TakeLock, Plugins!CheckLease, Plugins!GiveUp, Plugins!Record, Plugins!Release, Plugins!EndDelivery, Plugins!RecordDone,
         Plugins!RecordFailure, Plugins!LockBusy, Plugins!CannotDeliver, Plugins!Break, Plugins!Crash
<1> QED
  BY <1>3, <1>4, <1>5

(* The invariant holds in every reachable state: no two deliveries write   *)
(* one instance's findings at the same time, and none writes what is       *)
(* finished.                                                               *)
THEOREM PluginInvariance ==
  ASSUME PluginsAssumption
  PROVE  Plugins!Spec => [](PluginInv /\ Plugins!OneWriter /\ Plugins!FinishedOnce)
  BY PluginStart, PluginStep, PluginGives, PTL DEF Plugins!Spec

(* What an earlier claim found never replaces what a later one wrote.      *)
THEOREM LaterRunsStand ==
  ASSUME PluginsAssumption
  PROVE  Plugins!Spec => Plugins!LaterRunStands
<1>1. PluginInv /\ [Plugins!Next]_(Plugins!vars) => PluginInv'
  BY PluginStep
<1>2. PluginInv /\ [Plugins!Next]_(Plugins!vars) => [Plugins!KeepsLaterRun]_(Plugins!vars)
  BY PluginNeverBack
<1> QED
  BY <1>1, <1>2, PluginStart, PTL DEF Plugins!Spec, Plugins!LaterRunStands

-----------------------------------------------------------------------------
(***************************************************************************)
(* The rounds of one store (StoreRounds).  No round reads half an edit,    *)
(* and no edit is forgotten.                                               *)
(***************************************************************************)

StoreAssumption ==
  /\ WholeStore \subseteq Proc /\ None \notin Proc
  /\ Named \in [Proc -> SUBSET Item]

-----------------------------------------------------------------------------
(* The inductive invariant.                                                *)

Commands == {"items", "edit", "unlock"}
RoundPlaces   == {"next", "leave", "round", "take", "scan", "push", "sent", "results"}

Memory ==
  [back : {"lock", "done"}, first : BOOLEAN, pushOnly : BOOLEAN, full : BOOLEAN, replay : BOOLEAN,
   names : SUBSET Item, left : SUBSET Item, busy : SUBSET Item, read : [Item -> Nat], torn : SUBSET Item]

StoreTypes ==
  /\ pc \in [Proc -> Rounds!Places]
  /\ me \in [Proc -> Memory]
  /\ marks \subseteq Item /\ sweepDue \in BOOLEAN
  /\ shared \subseteq Proc
  /\ owner \in [Item -> Proc \cup {None}]
  /\ outbox \in [Item -> Nat] /\ edits \in [Item -> Nat] /\ synced \in [Item -> Nat]
  /\ mishaps \in [failures : Nat, crashes : Nat, sweeps : Nat]

(* A command has the locks of what it edits, a runner shares the store.    *)
HasLocks(p) ==
  /\ pc[p] \in Commands /\ p \in WholeStore => wholeStore = p
  /\ pc[p] \in {"edit", "unlock"} /\ p \notin WholeStore => \A i \in Named[p] : owner[i] = p
  /\ pc[p] \in RoundPlaces \cup {"share"} => roundRunner = p
  /\ pc[p] \in RoundPlaces => p \in shared

StoreAlone == wholeStore # None => shared = {}

(* Nothing is read or sent that was not edited.                            *)
Real(i) == synced[i] <= edits[i] /\ outbox[i] <= edits[i] /\ \A p \in Proc : me[p].read[i] <= edits[i]

(* A round before its scan, or in its replay: what it is to scan is before *)
(* it, and a sweep is due until then.                                      *)
Before(p) == pc[p] = "take" \/ (pc[p] \in {"push", "sent", "results"} /\ me[p].replay)

RoundIs(p) ==
  /\ Before(p) => me[p].busy = {}
  /\ pc[p] = "take" => me[p].read = Rounds!NoEdits /\ ~me[p].replay /\ me[p].left \subseteq me[p].names
  /\ Before(p) \/ pc[p] = "scan" => (me[p].full => sweepDue)
  /\ pc[p] = "scan" =>
       /\ ~me[p].replay /\ outbox = Rounds!NoEdits
       /\ me[p].left \subseteq Rounds!Wanted(me[p]) /\ me[p].busy \subseteq Rounds!Wanted(me[p]) \ me[p].left
       /\ \A i \in Item \ Rounds!Wanted(me[p]) : me[p].read[i] = 0
  /\ pc[p] = "push" => outbox = IF me[p].replay THEN me[p].read ELSE Rounds!NoEdits
  /\ pc[p] \in {"sent", "results"} =>
       \A i \in Item : IF i \in me[p].left THEN outbox[i] = me[p].read[i] /\ me[p].read[i] > synced[i]
                       ELSE outbox[i] \in {0, synced[i]}

(* What is edited will be marked, by the command that edited it.           *)
Later(i) == i \in marks \/ \E q \in Proc \ WholeStore : pc[q] \in {"unlock", "mark"} /\ i \in Named[q]
AllLater == sweepDue \/ \E q \in WholeStore : pc[q] \in {"unlock", "mark"}

(* What a round has yet to read or to mark, and what it read.              *)
Will(p, i) == (Before(p) /\ i \in Rounds!Wanted(me[p])) \/ (pc[p] = "scan" /\ i \in me[p].left \cup me[p].busy)
WasRead(p, i) ==
  /\ pc[p] \in {"scan", "push"} /\ ~me[p].replay
  /\ i \in Rounds!Wanted(me[p]) \ me[p].busy /\ (pc[p] = "scan" => i \notin me[p].left)

(* What was read is what there is, but for what a command will mark; and   *)
(* an edit is known to the server, on its way, read, or yet to be read.    *)
ReadIsNew(p, i) == WasRead(p, i) => me[p].read[i] = edits[i] \/ Later(i)
Kept(i) ==
  \/ edits[i] \in {synced[i], outbox[i]}
  \/ Later(i) \/ AllLater
  \/ \E p \in Proc : Will(p, i) \/ (WasRead(p, i) /\ me[p].read[i] = edits[i])

StoreInv ==
  /\ StoreTypes
  /\ \A p \in Proc : HasLocks(p) /\ RoundIs(p) /\ me[p].torn = {}
  /\ StoreAlone
  /\ \A i \in Item : Real(i)
  /\ mishaps.crashes = 0 => \A i \in Item : Kept(i) /\ \A p \in Proc : ReadIsNew(p, i)

-----------------------------------------------------------------------------
(* What the steps share.                                                   *)

StoreBusy == {"take", "scan", "push", "sent", "results"}

(* Only the runner is in a round.                                          *)
LEMMA OneRunner ==
  ASSUME StoreInv, NEW p \in Proc, pc[p] \in RoundPlaces \cup {"share"}, NEW h \in Proc \ {p}
  PROVE  pc[h] \notin RoundPlaces \cup {"share"}
  BY DEF StoreInv, HasLocks

(* Who is not in a round has nothing to read, and nothing read.            *)
LEMMA NotInRound ==
  ASSUME NEW p, pc[p] \notin StoreBusy
  PROVE  ~Before(p) /\ \A i : ~Will(p, i) /\ ~WasRead(p, i)
  BY DEF StoreBusy, Before, Will, WasRead

LEMMA OutOfRound == \A h \in Proc : pc[h] \notin StoreBusy => RoundIs(h)
  BY NotInRound DEF RoundIs, StoreBusy

LEMMA OutOfRoundNext == (\A h \in Proc : pc[h] \notin StoreBusy => RoundIs(h))'
  BY OutOfRound, PTL

(* A round of a process stays what it is while the others do not touch its *)
(* variables, nor the outbox and what the server has.                      *)
LEMMA RoundStays ==
  ASSUME NEW h \in Proc, RoundIs(h), pc'[h] = pc[h], me'[h] = me[h], UNCHANGED <<outbox, synced>>,
         sweepDue => sweepDue'
  PROVE  RoundIs(h)'
<1>1. Before(h)' = Before(h) /\ Rounds!Wanted(me[h])' = Rounds!Wanted(me[h])
  BY DEF Before, Rounds!Wanted
<1> QED
  BY <1>1 DEF RoundIs

(* What a process has yet to read and what it read is its own.             *)
LEMMA ReadStays ==
  ASSUME NEW h, pc'[h] = pc[h], me'[h] = me[h], NEW i
  PROVE  (Will(h, i)' <=> Will(h, i)) /\ (WasRead(h, i)' <=> WasRead(h, i))
  BY DEF Will, WasRead, Before, Rounds!Wanted

(* A step of a process outside of what a round reads and sends.            *)
LEMMA CommandStep ==
  ASSUME StoreInv, StoreAssumption, NEW p \in Proc, pc[p] \notin StoreBusy,
         NEW to \in Rounds!Places \ StoreBusy, pc' = [pc EXCEPT ![p] = to],
         NEW r \in Memory, me' = [me EXCEPT ![p] = r], r.read = me[p].read, r.torn = {},
         UNCHANGED <<outbox, synced, mishaps>>, StoreTypes',
         sweepDue => sweepDue', AllLater => AllLater',
         \A i \in Item : Later(i) => Later(i)',
         \A i \in Item : edits'[i] # edits[i] => edits'[i] >= edits[i] /\ pc[p] = "edit" /\ i \in Rounds!Touches(p),
         pc[p] = "edit" => to = "unlock",
         StoreAlone', \A h \in Proc : HasLocks(h)'
  PROVE  StoreInv'
<1>1. /\ pc \in [Proc -> Rounds!Places] /\ me \in [Proc -> Memory] /\ edits \in [Item -> Nat]
      /\ pc'[p] = to /\ me'[p] = r /\ \A h \in Proc \ {p} : pc'[h] = pc[h] /\ me'[h] = me[h]
  BY DEF StoreInv, StoreTypes
<1>2. ASSUME NEW h \in Proc PROVE RoundIs(h)' /\ me'[h].torn = {} /\ me'[h].read = me[h].read
  <2>1. CASE h = p
    <3>1. ~(pc[p] \in StoreBusy)'
      BY <1>1
    <3> QED
      BY <1>1, <2>1, <3>1, OutOfRoundNext
  <2>2. CASE h # p
    BY <1>1, <2>2, RoundStays DEF StoreInv
  <2> QED
    BY <2>1, <2>2
<1>3. ASSUME NEW i \in Item PROVE edits'[i] >= edits[i] /\ edits'[i] \in Nat
  BY <1>1 DEF StoreTypes
<1>4. ASSUME NEW i \in Item PROVE Real(i)'
  <2>1. /\ synced'[i] \in Nat /\ outbox'[i] \in Nat /\ \A h \in Proc : me[h].read[i] \in Nat
    BY <1>1 DEF StoreTypes, Memory
  <2> QED
    BY <2>1, <1>1, <1>2, <1>3 DEF StoreInv, Real
<1>5. ASSUME NEW h \in Proc, NEW i \in Item, WasRead(h, i)' \/ Will(h, i)'
      PROVE  h # p /\ pc[h] \in StoreBusy /\ (Will(h, i)' <=> Will(h, i)) /\ (WasRead(h, i)' <=> WasRead(h, i))
  <2>1. h # p
    BY <1>1, <1>5 DEF Will, WasRead, Before, StoreBusy
  <2>2. (Will(h, i)' <=> Will(h, i)) /\ (WasRead(h, i)' <=> WasRead(h, i))
    BY <1>1, <2>1, ReadStays
  <2> QED
    BY <1>5, <2>1, <2>2, NotInRound
<1>6. ASSUME NEW i \in Item, edits'[i] # edits[i]
      PROVE  p \notin WholeStore => Later(i)'
  BY <1>1, <1>6 DEF Later, Rounds!Touches
<1>7. ASSUME NEW i \in Item, edits'[i] # edits[i], p \in WholeStore
      PROVE  AllLater' /\ \A h \in Proc : pc[h] \notin StoreBusy
  <2>1. wholeStore = p /\ shared = {}
    BY <1>7 DEF StoreInv, HasLocks, Commands, StoreAlone, StoreAssumption
  <2> QED
    BY <1>1, <1>7, <2>1 DEF AllLater, StoreInv, HasLocks, RoundPlaces, StoreBusy
<1>8. ASSUME mishaps'.crashes = 0, NEW i \in Item
      PROVE  Kept(i)' /\ \A h \in Proc : ReadIsNew(h, i)'
  <2>1. Kept(i) /\ \A h \in Proc : ReadIsNew(h, i)
    BY <1>8 DEF StoreInv
  <2>2. Kept(i)'
    <3>1. CASE edits'[i] # edits[i]
      BY <3>1, <1>6, <1>7 DEF Kept
    <3>2. ASSUME edits'[i] = edits[i], NEW h \in Proc, Will(h, i) \/ (WasRead(h, i) /\ me[h].read[i] = edits[i])
          PROVE  Kept(i)'
      <4>1. h # p
        BY <3>2, NotInRound
      <4> QED
        BY <1>1, <3>2, <4>1, ReadStays DEF Kept
    <3>3. CASE edits'[i] = edits[i] /\ (edits[i] \in {synced[i], outbox[i]} \/ Later(i) \/ AllLater)
      BY <3>3 DEF Kept
    <3> QED
      BY <2>1, <3>1, <3>2, <3>3 DEF Kept
  <2>3. ASSUME NEW h \in Proc, WasRead(h, i)' PROVE me'[h].read[i] = edits'[i] \/ Later(i)'
    <3>1. /\ h # p /\ pc[h] \in StoreBusy /\ me'[h] = me[h]
          /\ me[h].read[i] = edits[i] \/ Later(i)
      BY <1>1, <1>5, <2>1, <2>3 DEF ReadIsNew
    <3> QED
      BY <3>1, <1>6, <1>7
  <2> QED
    BY <2>2, <2>3 DEF ReadIsNew
<1> QED
  BY <1>2, <1>4, <1>8 DEF StoreInv

(* A step of the round.                                                    *)
LEMMA RoundStep ==
  ASSUME StoreInv, NEW p \in Proc, pc[p] \in RoundPlaces,
         NEW to \in RoundPlaces, pc' = [pc EXCEPT ![p] = to],
         NEW r \in Memory, me' = [me EXCEPT ![p] = r], r.torn = {},
         UNCHANGED <<roundRunner, shared, wholeStore, owner, edits>>, StoreTypes', mishaps'.crashes = mishaps.crashes,
         \A i \in Item : synced'[i] <= edits[i] /\ outbox'[i] <= edits[i] /\ r.read[i] <= edits[i],
         RoundIs(p)',
         \A i \in Item : /\ Kept(i) /\ ReadIsNew(p, i)
                         /\ \A h \in Proc \ {p} : ~Will(h, i) /\ ~WasRead(h, i)
                         => Kept(i)' /\ ReadIsNew(p, i)'
  PROVE  StoreInv'
<1>1. /\ pc'[p] = to /\ me'[p] = r /\ \A h \in Proc \ {p} : pc'[h] = pc[h] /\ me'[h] = me[h]
  BY DEF StoreInv, StoreTypes
<1>2. ASSUME NEW h \in Proc \ {p}
      PROVE  pc[h] \notin StoreBusy /\ pc'[h] \notin StoreBusy /\ RoundIs(h)'
  <2>1. pc[h] \notin RoundPlaces \cup {"share"}
    BY OneRunner
  <2>2. pc[h] \notin StoreBusy /\ pc'[h] \notin StoreBusy
    <3>1. pc'[h] = pc[h]
      BY <1>1
    <3> QED
      BY <2>1, <3>1 DEF RoundPlaces, StoreBusy
  <2> QED
    BY <2>2, OutOfRoundNext
<1>3. ASSUME NEW h \in Proc PROVE HasLocks(h)'
  <2>1. CASE h = p
    BY <1>1, <2>1 DEF StoreInv, HasLocks, RoundPlaces, Commands
  <2>2. CASE h # p
    BY <1>1, <2>2 DEF StoreInv, HasLocks
  <2> QED
    BY <2>1, <2>2
<1>4. ASSUME NEW i \in Item PROVE Real(i)'
  BY <1>1 DEF StoreInv, Real
<1>5. StoreAlone' /\ \A h \in Proc : me'[h].torn = {}
  BY <1>1 DEF StoreInv, StoreAlone
<1>6. ASSUME mishaps'.crashes = 0, NEW i \in Item
      PROVE  Kept(i)' /\ \A h \in Proc : ReadIsNew(h, i)'
  <2>1. Kept(i) /\ \A h \in Proc : ReadIsNew(h, i)
    BY <1>6 DEF StoreInv
  <2>2. \A h \in Proc \ {p} : ~Will(h, i) /\ ~WasRead(h, i)
    BY <1>2, NotInRound
  <2>3. ASSUME NEW h \in Proc \ {p} PROVE ReadIsNew(h, i)'
    BY <1>2 DEF ReadIsNew, WasRead, StoreBusy
  <2> QED
    BY <2>1, <2>2, <2>3
<1> QED
  BY <1>2, <1>3, <1>4, <1>5, <1>6 DEF StoreInv

-----------------------------------------------------------------------------
(* The command.                                                            *)

(* A step that leaves the locks, the edits and the marks alone.            *)
LEMMA PlainStep ==
  ASSUME StoreInv, StoreAssumption, NEW p \in Proc, pc[p] \notin StoreBusy,
         NEW to \in Rounds!Places \ StoreBusy, pc' = [pc EXCEPT ![p] = to],
         NEW r \in Memory, me' = [me EXCEPT ![p] = r], r.read = me[p].read, r.torn = {},
         UNCHANGED <<Rounds!locks, edits, marks, sweepDue, outbox, synced, mishaps>>,
         pc[p] \notin {"edit", "unlock", "mark"},
         to \in Commands => pc[p] \in Commands,
         to = "edit" => p \in WholeStore \/ Named[p] \subseteq Rounds!Owned(p),
         to # "unlock",
         to \in RoundPlaces \cup {"share"} => pc[p] \in RoundPlaces
  PROVE  StoreInv'
<1>1. /\ pc \in [Proc -> Rounds!Places] /\ me \in [Proc -> Memory]
      /\ pc'[p] = to /\ \A h \in Proc \ {p} : pc'[h] = pc[h]
  BY DEF StoreInv, StoreTypes
<1>2. StoreTypes' /\ StoreAlone'
  BY DEF StoreInv, StoreTypes, StoreAlone, Rounds!locks
<1>3. ASSUME NEW h \in Proc PROVE HasLocks(h)'
  <2>1. HasLocks(h)
    BY DEF StoreInv
  <2>2. CASE h = p
    <3>1. pc'[p] = "edit" /\ p \notin WholeStore => \A i \in Named[p] : owner'[i] = p
      BY <1>1 DEF Rounds!Owned, Rounds!locks
    <3>2. pc'[p] \in RoundPlaces \cup {"share"} => roundRunner' = p /\ p \in shared'
      BY <1>1, <2>1, <2>2 DEF HasLocks, Rounds!locks
    <3>3. pc'[p] \in Commands /\ p \in WholeStore => wholeStore' = p
      BY <1>1, <2>1, <2>2 DEF HasLocks, Rounds!locks
    <3>4. pc'[p] # "unlock"
      BY <1>1
    <3> QED
      BY <2>2, <3>1, <3>2, <3>3, <3>4 DEF HasLocks
  <2>3. CASE h # p
    BY <1>1, <2>1, <2>3 DEF HasLocks, Rounds!locks
  <2> QED
    BY <2>2, <2>3
<1>4. (AllLater => AllLater') /\ \A i \in Item : Later(i) => Later(i)'
  BY <1>1, StoreAssumption DEF AllLater, Later, StoreAssumption
<1>5. \A i \in Item : edits'[i] = edits[i]
  OBVIOUS
<1> HIDE DEF StoreBusy
<1> QED
  BY <1>2, <1>3, <1>4, <1>5, CommandStep

(* What stays of a process that only moves.                                *)
LEMMA SameMemory ==
  ASSUME StoreInv, NEW p \in Proc
  PROVE  me[p] \in Memory /\ me[p].torn = {} /\ me = [me EXCEPT ![p] = me[p]] /\ pc[p] \in Rounds!Places
  BY DEF StoreInv, StoreTypes

LEMMA MoveStep ==
  ASSUME StoreInv, StoreAssumption, NEW p \in Proc, pc[p] \notin StoreBusy,
         NEW to \in Rounds!Places \ StoreBusy, Rounds!Go(p, to),
         UNCHANGED <<me, Rounds!locks, edits, marks, sweepDue, outbox, synced, mishaps>>,
         pc[p] \notin {"edit", "unlock", "mark"},
         to \in Commands => pc[p] \in Commands,
         to = "edit" => p \in WholeStore \/ Named[p] \subseteq Rounds!Owned(p),
         to # "unlock",
         to \in RoundPlaces \cup {"share"} => pc[p] \in RoundPlaces
  PROVE  StoreInv'
<1>1. me[p] \in Memory /\ me[p].torn = {} /\ me' = [me EXCEPT ![p] = me[p]] /\ pc' = [pc EXCEPT ![p] = to]
  BY SameMemory DEF Rounds!Go
<1> QED
  BY <1>1, PlainStep

LEMMA BeginStep == ASSUME StoreInv, StoreAssumption, NEW p \in Proc, Rounds!Begin(p) PROVE StoreInv'
<1>1. pc[p] \notin StoreBusy \cup Commands \cup {"mark"} /\ "try" \in Rounds!Places \ (StoreBusy \cup RoundPlaces \cup Commands)
  BY DEF Rounds!Begin, Rounds!At, StoreBusy, Rounds!Places, Commands, RoundPlaces
<1>2. Rounds!Go(p, "try") /\ UNCHANGED <<me, Rounds!locks, edits, marks, sweepDue, outbox, synced, mishaps>>
  BY DEF Rounds!Begin
<1> QED
  BY <1>1, <1>2, MoveStep DEF Commands

LEMMA StartEditStep == ASSUME StoreInv, StoreAssumption, NEW p \in Proc, Rounds!StartEdit(p) PROVE StoreInv'
<1>1. pc[p] = "items" /\ "items" \notin StoreBusy /\ "edit" \in Rounds!Places \ (StoreBusy \cup RoundPlaces)
  BY DEF Rounds!StartEdit, Rounds!At, StoreBusy, Rounds!Places, RoundPlaces
<1>2. Rounds!Go(p, "edit") /\ UNCHANGED <<me, Rounds!locks, edits, marks, sweepDue, outbox, synced, mishaps>>
  BY DEF Rounds!StartEdit
<1>3. p \in WholeStore \/ Named[p] \subseteq Rounds!Owned(p)
  BY DEF Rounds!StartEdit
<1> QED
  BY <1>1, <1>2, <1>3, MoveStep DEF Commands

LEMMA NoFlagStep == ASSUME StoreInv, StoreAssumption, NEW p \in Proc, Rounds!NoFlag(p) PROVE StoreInv'
<1>1. pc[p] \in RoundPlaces \ (StoreBusy \cup Commands \cup {"mark"}) /\ "leave" \in Rounds!Places \ (StoreBusy \cup Commands)
  BY DEF Rounds!NoFlag, Rounds!At, StoreBusy, Rounds!Places, Commands, RoundPlaces
<1>2. Rounds!Go(p, "leave") /\ UNCHANGED <<me, Rounds!locks, edits, marks, sweepDue, outbox, synced, mishaps>>
  BY DEF Rounds!NoFlag
<1> QED
  BY <1>1, <1>2, MoveStep DEF Commands

(* After the rounds a process goes where it came from.                     *)
LEMMA LookAgainStep == ASSUME StoreInv, StoreAssumption, NEW p \in Proc, Rounds!LookAgain(p) PROVE StoreInv'
<1>1. pc[p] \notin StoreBusy \cup Commands \cup {"mark"}
  BY DEF Rounds!LookAgain, Rounds!At, StoreBusy, Commands
<1>2. Rounds!After(p) \in Rounds!Places \ (StoreBusy \cup RoundPlaces \cup Commands \cup {"share"})
  BY SameMemory DEF Rounds!After, Memory, StoreBusy, Rounds!Places, Commands, RoundPlaces
<1>3. Rounds!Go(p, Rounds!After(p)) /\ UNCHANGED <<me, Rounds!locks, edits, marks, sweepDue, outbox, synced, mishaps>>
  BY DEF Rounds!LookAgain
<1> QED
  BY <1>1, <1>2, <1>3, MoveStep DEF Commands

LEMMA TakeFlagStep == ASSUME StoreInv, StoreAssumption, NEW p \in Proc, Rounds!TakeFlag(p) PROVE StoreInv'
<1>1. pc[p] \in RoundPlaces \ (StoreBusy \cup Commands \cup {"mark"}) /\ "round" \in Rounds!Places \ (StoreBusy \cup Commands)
  BY DEF Rounds!TakeFlag, Rounds!At, StoreBusy, Rounds!Places, Commands, RoundPlaces
<1>2. PICK r : r = [me[p] EXCEPT !.pushOnly = TRUE]
  OBVIOUS
<1>3. r \in Memory /\ r.read = me[p].read /\ r.torn = {}
  BY <1>2, SameMemory DEF Memory
<1>4. /\ pc' = [pc EXCEPT ![p] = "round"] /\ me' = [me EXCEPT ![p] = r]
      /\ UNCHANGED <<Rounds!locks, edits, marks, sweepDue, outbox, synced, mishaps>>
  BY <1>2 DEF Rounds!TakeFlag, Rounds!Go, Rounds!Mine
<1> QED
  BY <1>1, <1>3, <1>4, PlainStep DEF Commands

LEMMA FlagChangesStep == ASSUME StoreInv, StoreAssumption, NEW p \in Proc, Rounds!FlagChanges(p) PROVE StoreInv'
<1>1. pc[p] \notin StoreBusy \cup Commands \cup {"mark"} /\ "try" \in Rounds!Places \ (StoreBusy \cup RoundPlaces \cup Commands \cup {"share"})
  BY DEF Rounds!FlagChanges, Rounds!At, StoreBusy, Rounds!Places, Commands, RoundPlaces
<1>2. PICK r : r = [me[p] EXCEPT !.back = "done", !.first = FALSE]
  OBVIOUS
<1>3. r \in Memory /\ r.read = me[p].read /\ r.torn = {}
  BY <1>2, SameMemory DEF Memory
<1>4. /\ pc' = [pc EXCEPT ![p] = "try"] /\ me' = [me EXCEPT ![p] = r]
      /\ UNCHANGED <<Rounds!locks, edits, marks, sweepDue, outbox, synced, mishaps>>
  BY <1>2 DEF Rounds!FlagChanges, Rounds!Go, Rounds!Mine
<1> QED
  BY <1>1, <1>3, <1>4, PlainStep DEF Commands

(* A step that takes or leaves locks.                                      *)
LEMMA LockStep ==
  ASSUME StoreInv, StoreAssumption, NEW p \in Proc, pc[p] \notin StoreBusy,
         NEW to \in Rounds!Places \ StoreBusy, pc' = [pc EXCEPT ![p] = to],
         NEW r \in Memory, me' = [me EXCEPT ![p] = r], r.read = me[p].read, r.torn = {},
         UNCHANGED <<edits, marks, sweepDue, outbox, synced, mishaps>>,
         pc[p] \notin {"edit", "mark"}, pc[p] = "unlock" => to = "mark",
         shared' \subseteq Proc, owner' \in [Item -> Proc \cup {None}],
         \A h \in Proc \ {p} : /\ wholeStore = h => wholeStore' = h
                               /\ \A i \in Item : owner[i] = h => owner'[i] = h
                               /\ roundRunner = h => roundRunner' = h
                               /\ h \in shared => h \in shared',
         HasLocks(p)', StoreAlone'
  PROVE  StoreInv'
<1>1. /\ pc \in [Proc -> Rounds!Places] /\ me \in [Proc -> Memory]
      /\ pc'[p] = to /\ \A h \in Proc \ {p} : pc'[h] = pc[h]
  BY DEF StoreInv, StoreTypes
<1>2. StoreTypes'
  BY DEF StoreInv, StoreTypes
<1>3. ASSUME NEW h \in Proc PROVE HasLocks(h)'
  <2>1. HasLocks(h)
    BY DEF StoreInv
  <2>2. CASE h = p
    BY <2>2
  <2>3. CASE h # p
    <3>1. Named[h] \subseteq Item
      BY DEF StoreAssumption
    <3> QED
      BY <1>1, <2>1, <2>3, <3>1 DEF HasLocks
  <2> QED
    BY <2>2, <2>3
<1>4. (AllLater => AllLater') /\ \A i \in Item : Later(i) => Later(i)'
  BY <1>1, StoreAssumption DEF AllLater, Later, StoreAssumption
<1>5. \A i \in Item : edits'[i] = edits[i]
  OBVIOUS
<1> HIDE DEF StoreBusy
<1> QED
  BY <1>2, <1>3, <1>4, <1>5, CommandStep

LEMMA LockStoreStep == ASSUME StoreInv, StoreAssumption, NEW p \in Proc, Rounds!LockStore(p) PROVE StoreInv'
<1>1. /\ pc[p] \notin StoreBusy \cup Commands \cup {"mark"} /\ "items" \in Rounds!Places \ StoreBusy
      /\ pc' = [pc EXCEPT ![p] = "items"]
      /\ UNCHANGED <<me, roundRunner, owner, edits, marks, sweepDue, outbox, synced, mishaps>>
  BY DEF Rounds!LockStore, Rounds!At, Rounds!Go, StoreBusy, Rounds!Places, Commands
<1>2. /\ shared' \subseteq Proc /\ owner' \in [Item -> Proc \cup {None}] /\ StoreAlone'
      /\ pc'[p] = "items" /\ (p \in WholeStore => wholeStore' = p)
      /\ \A h \in Proc \ {p} : (wholeStore = h => wholeStore' = h) /\ (h \in shared => h \in shared')
  BY <1>1 DEF StoreInv, StoreTypes, Rounds!LockStore, Rounds!Shares, StoreAlone, StoreAssumption
<1>3. HasLocks(p)'
  BY <1>2 DEF HasLocks, RoundPlaces
<1> QED
  BY <1>1, <1>2, <1>3, SameMemory, LockStep DEF Commands

LEMMA LockItemStep ==
  ASSUME StoreInv, StoreAssumption, NEW p \in Proc, NEW i \in Item, Rounds!LockItem(p, i) PROVE StoreInv'
<1>1. /\ pc[p] = "items" /\ "items" \in Rounds!Places \ StoreBusy /\ pc' = [pc EXCEPT ![p] = "items"]
      /\ owner' = [owner EXCEPT ![i] = p] /\ owner[i] = None /\ pc'[p] = "items" /\ p \notin WholeStore
      /\ UNCHANGED <<me, roundRunner, shared, wholeStore, edits, marks, sweepDue, outbox, synced, mishaps>>
  BY DEF Rounds!LockItem, Rounds!At, StoreBusy, Rounds!Places, StoreInv, StoreTypes
<1>2. /\ shared' \subseteq Proc /\ owner' \in [Item -> Proc \cup {None}] /\ StoreAlone'
      /\ \A h \in Proc \ {p}, j \in Item : owner[j] = h => owner'[j] = h
  BY <1>1 DEF StoreInv, StoreTypes, StoreAlone, StoreAssumption
<1>3. HasLocks(p)'
  BY <1>1 DEF HasLocks, RoundPlaces
<1>4. me[p] \in Memory /\ me[p].torn = {} /\ me' = [me EXCEPT ![p] = me[p]]
  BY <1>1, SameMemory
<1>5. \A h \in Proc \ {p} : /\ wholeStore = h => wholeStore' = h
                            /\ \A j \in Item : owner[j] = h => owner'[j] = h
                            /\ roundRunner = h => roundRunner' = h
                            /\ h \in shared => h \in shared'
  BY <1>1, <1>2
<1>6. pc[p] \notin StoreBusy \cup {"edit", "mark", "unlock"}
  BY <1>1
<1>7. pc' = [pc EXCEPT ![p] = "items"] /\ UNCHANGED <<edits, marks, sweepDue, outbox, synced, mishaps>>
  BY <1>1
<1>8. shared' \subseteq Proc /\ owner' \in [Item -> Proc \cup {None}] /\ StoreAlone' /\ "items" \in Rounds!Places \ StoreBusy
  BY <1>1, <1>2
<1> QED
  BY <1>3, <1>4, <1>5, <1>6, <1>7, <1>8, LockStep

LEMMA UnlockStep == ASSUME StoreInv, StoreAssumption, NEW p \in Proc, Rounds!Unlock(p) PROVE StoreInv'
<1>1. /\ pc[p] = "unlock" /\ "unlock" \notin StoreBusy /\ "mark" \in Rounds!Places \ StoreBusy /\ pc' = [pc EXCEPT ![p] = "mark"]
      /\ owner' = Rounds!FreedItems(p) /\ shared' = shared \ {p} /\ wholeStore' = (IF wholeStore = p THEN None ELSE wholeStore)
      /\ UNCHANGED <<me, roundRunner, edits, marks, sweepDue, outbox, synced, mishaps>>
  BY DEF Rounds!Unlock, Rounds!At, Rounds!Go, StoreBusy, Rounds!Places
<1>2. /\ shared' \subseteq Proc /\ owner' \in [Item -> Proc \cup {None}] /\ StoreAlone' /\ pc'[p] = "mark"
      /\ \A h \in Proc \ {p} : (wholeStore = h => wholeStore' = h) /\ (h \in shared => h \in shared')
      /\ \A h \in Proc \ {p}, j \in Item : owner[j] = h => owner'[j] = h
  BY <1>1 DEF StoreInv, StoreTypes, StoreAlone, StoreAssumption, Rounds!FreedItems
<1>3. HasLocks(p)'
  BY <1>2 DEF HasLocks, RoundPlaces, Commands
<1>4. me[p] \in Memory /\ me[p].torn = {} /\ me' = [me EXCEPT ![p] = me[p]]
  BY <1>1, SameMemory
<1>5. \A h \in Proc \ {p} : /\ wholeStore = h => wholeStore' = h
                            /\ \A j \in Item : owner[j] = h => owner'[j] = h
                            /\ roundRunner = h => roundRunner' = h
                            /\ h \in shared => h \in shared'
  BY <1>1, <1>2
<1> QED
  BY <1>1, <1>2, <1>3, <1>4, <1>5, LockStep

LEMMA TryRunnerStep == ASSUME StoreInv, StoreAssumption, NEW p \in Proc, Rounds!TryRunner(p) PROVE StoreInv'
<1>1. PICK to : to = IF roundRunner = None THEN "share" ELSE me[p].back
  OBVIOUS
<1>2. /\ pc[p] \notin StoreBusy \cup Commands \cup {"mark"} /\ pc' = [pc EXCEPT ![p] = to]
      /\ UNCHANGED <<me, shared, wholeStore, owner, edits, marks, sweepDue, outbox, synced, mishaps>>
      /\ IF roundRunner = None THEN roundRunner' = p ELSE roundRunner' = roundRunner
  BY <1>1 DEF Rounds!TryRunner, Rounds!At, Rounds!Go, StoreBusy, Commands
<1>3. to \in Rounds!Places \ (StoreBusy \cup RoundPlaces \cup Commands) /\ (to = "share" => roundRunner = None)
  BY <1>1, SameMemory DEF Memory, StoreBusy, Rounds!Places, Commands, RoundPlaces
<1>4. /\ shared' \subseteq Proc /\ owner' \in [Item -> Proc \cup {None}] /\ StoreAlone' /\ pc'[p] = to
      /\ \A h \in Proc \ {p} : roundRunner = h => roundRunner' = h
  BY <1>2, <1>3 DEF StoreInv, StoreTypes, StoreAlone, StoreAssumption
<1>5. HasLocks(p)'
  BY <1>2, <1>3, <1>4 DEF HasLocks, Commands
<1> QED
  BY <1>2, <1>3, <1>4, <1>5, SameMemory, LockStep DEF Commands

LEMMA ShareStoreStep == ASSUME StoreInv, StoreAssumption, NEW p \in Proc, Rounds!ShareStore(p) PROVE StoreInv'
<1>1. PICK to, r : /\ to = IF me[p].first THEN "round" ELSE "next"
                   /\ r = [me[p] EXCEPT !.first = FALSE, !.pushOnly = FALSE]
  OBVIOUS
<1>2. /\ pc[p] = "share" /\ "share" \notin StoreBusy \cup Commands /\ wholeStore = None
      /\ pc' = [pc EXCEPT ![p] = to] /\ me' = [me EXCEPT ![p] = r] /\ shared' = shared \cup {p}
      /\ UNCHANGED <<roundRunner, wholeStore, owner, edits, marks, sweepDue, outbox, synced, mishaps>>
  BY <1>1 DEF Rounds!ShareStore, Rounds!At, Rounds!Go, Rounds!Mine, StoreBusy, Commands
<1>3. to \in RoundPlaces \ (StoreBusy \cup Commands) /\ to \in Rounds!Places
  BY <1>1 DEF StoreBusy, Rounds!Places, Commands, RoundPlaces
<1>4. r \in Memory /\ r.read = me[p].read /\ r.torn = {}
  BY <1>1, SameMemory DEF Memory
<1>5. /\ shared' \subseteq Proc /\ owner' \in [Item -> Proc \cup {None}] /\ StoreAlone' /\ pc'[p] = to
      /\ \A h \in Proc \ {p} : h \in shared => h \in shared'
  BY <1>2 DEF StoreInv, StoreTypes, StoreAlone
<1>6. HasLocks(p)'
  <2>1. roundRunner = p
    BY <1>2 DEF StoreInv, HasLocks
  <2> QED
    BY <2>1, <1>2, <1>3, <1>5 DEF HasLocks, Commands
<1>7. \A h \in Proc \ {p} : /\ wholeStore = h => wholeStore' = h
                            /\ \A j \in Item : owner[j] = h => owner'[j] = h
                            /\ roundRunner = h => roundRunner' = h
                            /\ h \in shared => h \in shared'
  BY <1>2, <1>5
<1>8. pc[p] \notin StoreBusy \cup {"edit", "mark", "unlock"} /\ to \in Rounds!Places \ StoreBusy
  BY <1>2, <1>3
<1> QED
  BY <1>2, <1>4, <1>5, <1>6, <1>7, <1>8, LockStep

LEMMA LetGoStep == ASSUME StoreInv, StoreAssumption, NEW p \in Proc, Rounds!LetGo(p) PROVE StoreInv'
<1>1. /\ pc[p] = "leave" /\ "leave" \in RoundPlaces \ (StoreBusy \cup Commands) /\ "look" \in Rounds!Places \ (StoreBusy \cup RoundPlaces \cup Commands)
      /\ pc' = [pc EXCEPT ![p] = "look"] /\ shared' = shared \ {p} /\ roundRunner' = None
      /\ UNCHANGED <<me, wholeStore, owner, edits, marks, sweepDue, outbox, synced, mishaps>>
  BY DEF Rounds!LetGo, Rounds!At, Rounds!Go, StoreBusy, Rounds!Places, RoundPlaces, Commands
<1>2. roundRunner = p
  BY <1>1 DEF StoreInv, HasLocks
<1>3. /\ shared' \subseteq Proc /\ owner' \in [Item -> Proc \cup {None}] /\ StoreAlone' /\ pc'[p] = "look"
  BY <1>1 DEF StoreInv, StoreTypes, StoreAlone
<1>4. HasLocks(p)'
  BY <1>1, <1>3 DEF HasLocks, Commands
<1>5. me[p] \in Memory /\ me[p].torn = {} /\ me' = [me EXCEPT ![p] = me[p]]
  BY <1>1, SameMemory
<1>6. \A h \in Proc \ {p} : /\ wholeStore = h => wholeStore' = h
                            /\ \A j \in Item : owner[j] = h => owner'[j] = h
                            /\ roundRunner = h => roundRunner' = h
                            /\ h \in shared => h \in shared'
  BY <1>1, <1>2
<1> QED
  BY <1>1, <1>3, <1>4, <1>5, <1>6, LockStep

(* The command's edit and its mark.                                        *)
LEMMA EndEditStep == ASSUME StoreInv, StoreAssumption, NEW p \in Proc, Rounds!EndEdit(p) PROVE StoreInv'
<1>1. /\ pc[p] = "edit" /\ "edit" \notin StoreBusy /\ "unlock" \in Rounds!Places \ StoreBusy
      /\ pc' = [pc EXCEPT ![p] = "unlock"]
      /\ UNCHANGED <<me, Rounds!locks, marks, sweepDue, outbox, synced, mishaps>>
      /\ edits' = [i \in Item |-> IF i \in Rounds!Touches(p) THEN edits[i] + 1 ELSE edits[i]]
  BY DEF Rounds!EndEdit, Rounds!At, Rounds!Go, StoreBusy, Rounds!Places
<1>2. pc \in [Proc -> Rounds!Places] /\ edits \in [Item -> Nat] /\ pc'[p] = "unlock"
      /\ \A h \in Proc \ {p} : pc'[h] = pc[h]
  BY <1>1 DEF StoreInv, StoreTypes
<1>3. edits' \in [Item -> Nat] /\ \A i \in Item : edits'[i] # edits[i] => edits'[i] >= edits[i] /\ i \in Rounds!Touches(p)
  BY <1>1, <1>2
<1>4. StoreTypes' /\ StoreAlone'
  BY <1>1, <1>3 DEF StoreInv, StoreTypes, StoreAlone, Rounds!locks
<1>5. ASSUME NEW h \in Proc PROVE HasLocks(h)'
  BY <1>1, <1>2 DEF StoreInv, HasLocks, Rounds!locks, Commands, RoundPlaces
<1>6. (AllLater => AllLater') /\ \A i \in Item : Later(i) => Later(i)'
  BY <1>1, <1>2, StoreAssumption DEF AllLater, Later, StoreAssumption
<1>7. me[p] \in Memory /\ me[p].torn = {} /\ me' = [me EXCEPT ![p] = me[p]]
  BY <1>1, SameMemory
<1> QED
  BY <1>1, <1>3, <1>4, <1>5, <1>6, <1>7, CommandStep

LEMMA MarkChangesStep == ASSUME StoreInv, StoreAssumption, NEW p \in Proc, Rounds!MarkChanges(p) PROVE StoreInv'
<1>1. /\ pc[p] = "mark" /\ "mark" \notin StoreBusy /\ "flag" \in Rounds!Places \ StoreBusy
      /\ pc' = [pc EXCEPT ![p] = "flag"]
      /\ UNCHANGED <<me, Rounds!locks, edits, outbox, synced, mishaps>>
      /\ IF p \in WholeStore THEN sweepDue' = TRUE /\ marks' = marks
                             ELSE marks' = marks \cup Named[p] /\ sweepDue' = sweepDue
  BY DEF Rounds!MarkChanges, Rounds!At, Rounds!Go, StoreBusy, Rounds!Places
<1>2. pc \in [Proc -> Rounds!Places] /\ pc'[p] = "flag" /\ \A h \in Proc \ {p} : pc'[h] = pc[h]
  BY <1>1 DEF StoreInv, StoreTypes
<1>3. StoreTypes' /\ StoreAlone'
  BY <1>1 DEF StoreInv, StoreTypes, StoreAlone, Rounds!locks, StoreAssumption
<1>4. ASSUME NEW h \in Proc PROVE HasLocks(h)'
  BY <1>1, <1>2 DEF StoreInv, HasLocks, Rounds!locks, Commands, RoundPlaces
<1>5. (AllLater => AllLater') /\ \A i \in Item : Later(i) => Later(i)'
  BY <1>1, <1>2, StoreAssumption DEF AllLater, Later, StoreAssumption
<1>6. me[p] \in Memory /\ me[p].torn = {} /\ me' = [me EXCEPT ![p] = me[p]]
  BY <1>1, SameMemory
<1>7. (sweepDue => sweepDue') /\ \A i \in Item : edits'[i] = edits[i]
  BY <1>1
<1> QED
  BY <1>1, <1>3, <1>4, <1>5, <1>6, <1>7, CommandStep

-----------------------------------------------------------------------------
(* The round.                                                              *)

(* What is to be marked or swept stays so until a step unmarks it.         *)
LEMMA LaterStays ==
  ASSUME StoreInv, StoreAssumption, NEW p \in Proc, pc[p] \in RoundPlaces,
         NEW to, pc' = [pc EXCEPT ![p] = to]
  PROVE  /\ \A i \in Item : Later(i) => Later(i)' \/ i \in marks \ marks'
         /\ AllLater => AllLater' \/ (sweepDue /\ ~sweepDue')
<1>1. \A h \in Proc \ {p} : pc'[h] = pc[h]
  BY DEF StoreInv, StoreTypes
<1>2. pc[p] \notin {"unlock", "mark"}
  BY DEF RoundPlaces
<1> QED
  BY <1>1, <1>2 DEF Later, AllLater, StoreAssumption

LEMMA FullIsSet == ASSUME NEW m \in Memory, NEW b \in BOOLEAN PROVE [m EXCEPT !.full = b] \in Memory
  BY DEF Memory

LEMMA ListMarksStep == ASSUME StoreInv, StoreAssumption, NEW p \in Proc, Rounds!ListMarks(p) PROVE StoreInv'
<1>1. PICK r : r = [me[p] EXCEPT !.full = sweepDue, !.names = marks, !.left = marks, !.busy = {},
                                 !.read = Rounds!NoEdits, !.torn = {}, !.replay = FALSE]
  OBVIOUS
<1>2. PICK to : to \in {"next", "take"} /\ pc' = [pc EXCEPT ![p] = to]
  BY DEF Rounds!ListMarks, Rounds!Go
<1>3. /\ pc[p] = "round" /\ me' = [me EXCEPT ![p] = r]
      /\ UNCHANGED <<flag, marks, sweepDue, outbox, Rounds!locks, edits, synced, mishaps>>
  BY <1>1 DEF Rounds!ListMarks, Rounds!At, Rounds!Mine
<1>4. r \in Memory
  <2>1. marks \in SUBSET Item /\ sweepDue \in BOOLEAN /\ Rounds!NoEdits \in [Item -> Nat]
    BY DEF StoreInv, StoreTypes, Rounds!NoEdits
  <2>2. PICK half : half = [me[p] EXCEPT !.full = sweepDue]
    OBVIOUS
  <2>3. half \in Memory
    BY <2>1, <2>2, SameMemory, FullIsSet
  <2>4. r = [half EXCEPT !.names = marks, !.left = marks, !.busy = {}, !.read = Rounds!NoEdits,
                         !.torn = {}, !.replay = FALSE]
    BY <1>1, <2>2, SameMemory DEF Memory
  <2> HIDE DEF Rounds!NoEdits
  <2> QED
    BY <2>1, <2>3, <2>4 DEF Memory
<1>5. /\ r.full = sweepDue /\ r.names = marks /\ r.left = marks /\ r.busy = {} /\ r.read = Rounds!NoEdits
      /\ r.torn = {} /\ ~r.replay
  BY <1>1, SameMemory DEF Memory
<1>6. pc'[p] = to /\ me'[p] = r /\ to \in RoundPlaces /\ to \in Rounds!Places
  BY <1>2, <1>3 DEF StoreInv, StoreTypes, RoundPlaces, Rounds!Places
<1>7. StoreTypes'
  BY <1>2, <1>3, <1>4, <1>6 DEF StoreInv, StoreTypes, Rounds!locks
<1>8. RoundIs(p)'
  BY <1>2, <1>3, <1>5, <1>6 DEF RoundIs, Before
<1>9. ASSUME NEW i \in Item
      PROVE  synced'[i] <= edits[i] /\ outbox'[i] <= edits[i] /\ r.read[i] <= edits[i]
  <2>1. edits[i] \in Nat /\ r.read[i] = 0
    BY <1>5 DEF StoreInv, StoreTypes, Rounds!NoEdits
  <2> QED
    BY <1>3, <2>1 DEF StoreInv, Real
<1>10. ASSUME NEW i \in Item, Kept(i), \A h \in Proc \ {p} : ~Will(h, i) /\ ~WasRead(h, i)
       PROVE  Kept(i)' /\ ReadIsNew(p, i)'
  <2>1. ~Will(p, i) /\ ~WasRead(p, i) /\ ~(WasRead(p, i))'
    BY <1>2, <1>3, <1>6 DEF Will, WasRead, Before
  <2>2. edits[i] \in {synced[i], outbox[i]} \/ Later(i) \/ AllLater
    BY <1>10, <2>1 DEF Kept
  <2>3. edits'[i] \in {synced'[i], outbox'[i]} \/ Later(i)' \/ AllLater'
    BY <1>2, <1>3, <2>2, LaterStays DEF RoundPlaces
  <2> QED
    BY <2>1, <2>3 DEF Kept, ReadIsNew
<1>11. pc[p] \in RoundPlaces /\ mishaps'.crashes = mishaps.crashes /\ UNCHANGED <<roundRunner, shared, wholeStore, owner, edits>>
  BY <1>3 DEF RoundPlaces, Rounds!locks
<1> QED
  BY <1>2, <1>3, <1>4, <1>5, <1>6, <1>7, <1>8, <1>9, <1>10, <1>11, RoundStep

LEMMA TakeMarkStep ==
  ASSUME StoreInv, StoreAssumption, NEW p \in Proc, NEW m \in Item, Rounds!TakeMark(p, m) PROVE StoreInv'
<1>1. PICK r : r = [me[p] EXCEPT !.left = @ \ {m}]
  OBVIOUS
<1>2. pc[p] = "take" /\ pc' = [pc EXCEPT ![p] = "take"] /\ pc'[p] = "take"
  BY DEF Rounds!TakeMark, Rounds!At, StoreInv, StoreTypes
<1>3. /\ me' = [me EXCEPT ![p] = r] /\ marks' = marks \ {m} /\ m \in me[p].left
      /\ UNCHANGED <<flag, sweepDue, outbox, Rounds!locks, edits, synced, mishaps>>
  BY <1>1 DEF Rounds!TakeMark, Rounds!Mine
<1>4. r \in Memory
  BY <1>1, SameMemory DEF Memory
<1>5. /\ r.full = me[p].full /\ r.names = me[p].names /\ r.left = me[p].left \ {m} /\ r.busy = me[p].busy
      /\ r.read = me[p].read /\ r.torn = {} /\ r.replay = me[p].replay
  BY <1>1, SameMemory DEF Memory
<1>6. me'[p] = r
  BY <1>3 DEF StoreInv, StoreTypes
<1>7. StoreTypes'
  BY <1>2, <1>3, <1>4 DEF StoreInv, StoreTypes, Rounds!locks
<1>8. Rounds!Wanted(r) = Rounds!Wanted(me[p]) /\ m \in Rounds!Wanted(r)
  <2>1. m \in me[p].names
    BY <1>2, <1>3 DEF StoreInv, RoundIs
  <2> QED
    BY <1>5, <2>1 DEF Rounds!Wanted
<1>9. RoundIs(p)'
  <2>1. RoundIs(p)
    BY DEF StoreInv
  <2> QED
    BY <1>2, <1>3, <1>5, <1>6, <2>1 DEF RoundIs, Before
<1>10. ASSUME NEW i \in Item
       PROVE  synced'[i] <= edits[i] /\ outbox'[i] <= edits[i] /\ r.read[i] <= edits[i]
  BY <1>3, <1>5 DEF StoreInv, Real
<1>11. ASSUME NEW i \in Item, Kept(i), \A h \in Proc \ {p} : ~Will(h, i) /\ ~WasRead(h, i)
       PROVE  Kept(i)' /\ ReadIsNew(p, i)'
  <2>1. ~WasRead(p, i) /\ ~(WasRead(p, i))' /\ (Will(p, i)' <=> Will(p, i)) /\ Will(p, m)'
    BY <1>2, <1>6, <1>8 DEF Will, WasRead, Before
  <2>2. edits[i] \in {synced[i], outbox[i]} \/ Later(i) \/ AllLater \/ Will(p, i)
    BY <1>11, <2>1 DEF Kept
  <2>3. edits'[i] \in {synced'[i], outbox'[i]} \/ Later(i)' \/ AllLater' \/ Will(p, i)'
    BY <1>2, <1>3, <2>1, <2>2, LaterStays DEF RoundPlaces
  <2> QED
    BY <2>1, <2>3 DEF Kept, ReadIsNew
<1>12. pc[p] \in RoundPlaces /\ "take" \in RoundPlaces /\ mishaps'.crashes = mishaps.crashes
       /\ UNCHANGED <<roundRunner, shared, wholeStore, owner, edits>>
  BY <1>2, <1>3 DEF RoundPlaces, Rounds!locks
<1> QED
  BY <1>2, <1>3, <1>4, <1>5, <1>7, <1>9, <1>10, <1>11, <1>12, RoundStep

LEMMA MarksTakenStep == ASSUME StoreInv, StoreAssumption, NEW p \in Proc, Rounds!MarksTaken(p) PROVE StoreInv'
<1>1. PICK r, to : IF Rounds!SentItems # {} THEN r = [me[p] EXCEPT !.replay = TRUE, !.read = outbox] /\ to = "push"
                   ELSE r = [me[p] EXCEPT !.left = Rounds!Wanted(me[p])] /\ to = "scan"
  OBVIOUS
<1>2. /\ pc[p] = "take" /\ pc' = [pc EXCEPT ![p] = to] /\ me' = [me EXCEPT ![p] = r] /\ me[p].left = {}
      /\ UNCHANGED <<flag, marks, sweepDue, outbox, Rounds!locks, edits, synced, mishaps>>
  BY <1>1 DEF Rounds!MarksTaken, Rounds!At, Rounds!Mine, Rounds!Go
<1>3. /\ to \in {"push", "scan"} /\ r.full = me[p].full /\ r.names = me[p].names /\ r.busy = me[p].busy
      /\ r.torn = {} /\ r.replay = (to = "push") /\ r.read = (IF to = "push" THEN outbox ELSE me[p].read)
      /\ (to = "scan" => r.left = Rounds!Wanted(me[p]) /\ Rounds!SentItems = {})
  <2>1. me[p].replay = FALSE
    BY <1>2, SameMemory DEF StoreInv, RoundIs, Memory
  <2> QED
    BY <1>1, <2>1, SameMemory DEF Memory
<1>4. r \in Memory
  <2>1. outbox \in [Item -> Nat] /\ Rounds!Wanted(me[p]) \subseteq Item
    BY SameMemory DEF StoreInv, StoreTypes, Rounds!Wanted, Memory
  <2>2. CASE Rounds!SentItems # {}
    BY <1>1, <2>1, <2>2, SameMemory DEF Memory
  <2>3. CASE Rounds!SentItems = {}
    BY <1>1, <2>1, <2>3, SameMemory DEF Memory
  <2> QED
    BY <2>2, <2>3
<1>5. me'[p] = r /\ pc'[p] = to /\ to \in RoundPlaces /\ to \in Rounds!Places
  BY <1>2, <1>3 DEF StoreInv, StoreTypes, RoundPlaces, Rounds!Places
<1>6. StoreTypes'
  BY <1>2, <1>4, <1>5 DEF StoreInv, StoreTypes, Rounds!locks
<1>7. Rounds!Wanted(r) = Rounds!Wanted(me[p]) /\ RoundIs(p)
  BY <1>3 DEF Rounds!Wanted, StoreInv
<1>8. RoundIs(p)'
  <2>1. CASE to = "push"
    BY <1>2, <1>3, <1>5, <1>7, <2>1 DEF RoundIs, Before
  <2>2. CASE to = "scan"
    <3>1. outbox = Rounds!NoEdits
      BY <1>3, <2>2 DEF Rounds!SentItems, Rounds!NoEdits, StoreInv, StoreTypes
    <3>2. r.read = Rounds!NoEdits /\ r.busy = {}
      BY <1>2, <1>3, <1>7, <2>2 DEF RoundIs, Before
    <3>3. \A i \in Item : r.read[i] = 0
      BY <3>2 DEF Rounds!NoEdits
    <3> HIDE DEF Rounds!NoEdits
    <3> QED
      BY <1>2, <1>3, <1>5, <1>7, <2>2, <3>1, <3>2, <3>3 DEF RoundIs, Before
  <2> QED
    BY <1>3, <2>1, <2>2
<1>9. ASSUME NEW i \in Item
      PROVE  synced'[i] <= edits[i] /\ outbox'[i] <= edits[i] /\ r.read[i] <= edits[i]
  BY <1>2, <1>3 DEF StoreInv, Real
<1>10. ASSUME NEW i \in Item, Kept(i), \A h \in Proc \ {p} : ~Will(h, i) /\ ~WasRead(h, i)
       PROVE  Kept(i)' /\ ReadIsNew(p, i)'
  <2>1. ~WasRead(p, i) /\ ~(WasRead(p, i))'
    BY <1>2, <1>3, <1>5, <1>7 DEF WasRead
  <2>2. Will(p, i) => Will(p, i)'
    BY <1>2, <1>3, <1>5, <1>7 DEF Will, Before
  <2>3. edits[i] \in {synced[i], outbox[i]} \/ Later(i) \/ AllLater \/ Will(p, i)
    BY <1>10, <2>1 DEF Kept
  <2>4. edits'[i] \in {synced'[i], outbox'[i]} \/ Later(i)' \/ AllLater' \/ Will(p, i)'
    BY <1>2, <2>2, <2>3, LaterStays DEF RoundPlaces
  <2> QED
    BY <2>1, <2>4 DEF Kept, ReadIsNew
<1>11. pc[p] \in RoundPlaces /\ mishaps'.crashes = mishaps.crashes /\ UNCHANGED <<roundRunner, shared, wholeStore, owner, edits>>
  BY <1>2 DEF RoundPlaces, Rounds!locks
<1> QED
  BY <1>2, <1>3, <1>4, <1>5, <1>6, <1>8, <1>9, <1>10, <1>11, RoundStep

LEMMA ScanItemStep ==
  ASSUME StoreInv, StoreAssumption, NEW p \in Proc, NEW m \in Item, Rounds!ScanItem(p, m) PROVE StoreInv'
<1>1. PICK r : r = IF owner[m] # None THEN [me[p] EXCEPT !.left = @ \ {m}, !.busy = @ \cup {m}]
                   ELSE [me[p] EXCEPT !.left = @ \ {m}, !.read[m] = edits[m]]
  OBVIOUS
<1>2. pc[p] = "scan" /\ pc' = [pc EXCEPT ![p] = "scan"] /\ pc'[p] = "scan" /\ m \in me[p].left
      /\ UNCHANGED <<flag, marks, sweepDue, outbox, Rounds!locks, edits, synced, mishaps>>
  BY DEF Rounds!ScanItem, Rounds!At, StoreInv, StoreTypes
(* Nobody is editing an item whose lock nobody holds: who acts on the whole*)
(* store has it alone, and the round shares it.                            *)
<1>3. owner[m] = None => Rounds!Editing(m) = {}
  <2>1. ASSUME NEW q \in Proc, pc[q] = "edit", m \in Rounds!Touches(q), owner[m] = None PROVE FALSE
    <3>1. CASE q \in WholeStore
      <4>1. wholeStore = q /\ p \in shared
        BY <1>2, <2>1, <3>1 DEF StoreInv, HasLocks, Commands, RoundPlaces
      <4> QED
        BY <4>1 DEF StoreInv, StoreAlone, StoreAssumption
    <3>2. CASE q \notin WholeStore
      BY <2>1, <3>2 DEF StoreInv, HasLocks, Rounds!Touches, StoreAssumption
    <3> QED
      BY <3>1, <3>2
  <2> QED
    BY <2>1 DEF Rounds!Editing, Rounds!At
<1>4. me' = [me EXCEPT ![p] = r]
  <2>1. CASE owner[m] # None
    BY <1>1, <2>1, SameMemory DEF Rounds!ScanItem, Rounds!Mine, Memory
  <2>2. CASE owner[m] = None
    BY <1>1, <1>3, <2>2, SameMemory DEF Rounds!ScanItem, Rounds!Mine, Memory
  <2> QED
    BY <2>1, <2>2
<1>5. /\ r.full = me[p].full /\ r.names = me[p].names /\ r.left = me[p].left \ {m}
      /\ r.torn = {} /\ r.replay = me[p].replay
      /\ r.busy = IF owner[m] # None THEN me[p].busy \cup {m} ELSE me[p].busy
      /\ r.read = IF owner[m] # None THEN me[p].read ELSE [me[p].read EXCEPT ![m] = edits[m]]
  BY <1>1, SameMemory DEF Memory
<1>6. r \in Memory
  <2>1. edits[m] \in Nat
    BY DEF StoreInv, StoreTypes
  <2> QED
    BY <1>1, <2>1, SameMemory DEF Memory
<1>7. me'[p] = r
  BY <1>4 DEF StoreInv, StoreTypes
<1>8. StoreTypes'
  BY <1>2, <1>4, <1>6 DEF StoreInv, StoreTypes, Rounds!locks
<1>9. /\ Rounds!Wanted(r) = Rounds!Wanted(me[p]) /\ RoundIs(p) /\ m \in Rounds!Wanted(r) \ me[p].busy
      /\ me[p].read \in [Item -> Nat] /\ ~me[p].replay
  BY <1>2, <1>5, SameMemory DEF Rounds!Wanted, StoreInv, RoundIs, Memory
<1>10. \A i \in Item \ {m} : r.read[i] = me[p].read[i]
  BY <1>5, <1>9
<1>11. owner[m] = None => r.read[m] = edits[m]
  BY <1>5, <1>9
<1>12. RoundIs(p)'
  BY <1>2, <1>5, <1>7, <1>9, <1>10 DEF RoundIs, Before
<1>13. ASSUME NEW i \in Item
       PROVE  synced'[i] <= edits[i] /\ outbox'[i] <= edits[i] /\ r.read[i] <= edits[i]
  <2>1. edits[i] \in Nat
    BY DEF StoreInv, StoreTypes
  <2> QED
    BY <1>2, <1>5, <1>10, <1>11, <2>1 DEF StoreInv, Real
<1>14. ASSUME NEW i \in Item, Kept(i), ReadIsNew(p, i), \A h \in Proc \ {p} : ~Will(h, i) /\ ~WasRead(h, i)
       PROVE  Kept(i)' /\ ReadIsNew(p, i)'
  <2>1. (Later(i) => Later(i)') /\ (AllLater => AllLater')
    BY <1>2, LaterStays DEF RoundPlaces
  <2>2. CASE i = m
    <3>1. Will(p, i)' \/ (WasRead(p, i)' /\ me'[p].read[i] = edits'[i])
      BY <1>2, <1>5, <1>7, <1>9, <1>11, <2>2 DEF Will, WasRead, Before
    <3>2. WasRead(p, i)' => me'[p].read[i] = edits'[i]
      BY <1>2, <1>5, <1>7, <1>11, <2>2 DEF WasRead
    <3> QED
      BY <3>1, <3>2 DEF Kept, ReadIsNew
  <2>3. CASE i # m
    <3>1. /\ Will(p, i)' <=> Will(p, i)
          /\ WasRead(p, i)' <=> WasRead(p, i)
      BY <1>2, <1>5, <1>7, <1>9, <2>3 DEF Will, WasRead, Before
    <3>2. me'[p].read[i] = me[p].read[i] /\ edits'[i] = edits[i] /\ synced'[i] = synced[i] /\ outbox'[i] = outbox[i]
      BY <1>2, <1>7, <1>10, <2>3
    <3>3. edits[i] \in {synced[i], outbox[i]} \/ Later(i) \/ AllLater \/ Will(p, i) \/ (WasRead(p, i) /\ me[p].read[i] = edits[i])
      BY <1>14 DEF Kept
    <3> QED
      BY <1>14, <2>1, <3>1, <3>2, <3>3 DEF Kept, ReadIsNew
  <2> QED
    BY <2>2, <2>3
<1>15. pc[p] \in RoundPlaces /\ "scan" \in RoundPlaces /\ mishaps'.crashes = mishaps.crashes
       /\ UNCHANGED <<roundRunner, shared, wholeStore, owner, edits>>
  BY <1>2 DEF RoundPlaces, Rounds!locks
<1> QED
  BY <1>2, <1>4, <1>5, <1>6, <1>8, <1>12, <1>13, <1>14, <1>15, RoundStep

LEMMA ScannedStep == ASSUME StoreInv, StoreAssumption, NEW p \in Proc, Rounds!Scanned(p) PROVE StoreInv'
<1>1. /\ pc[p] = "scan" /\ pc' = [pc EXCEPT ![p] = "push"] /\ pc'[p] = "push" /\ me[p].left = {}
      /\ sweepDue' = (sweepDue /\ ~me[p].full) /\ marks' = marks \cup me[p].busy
      /\ me' = [me EXCEPT ![p] = me[p]]
      /\ UNCHANGED <<me, outbox, Rounds!locks, edits, synced, mishaps>>
  BY SameMemory DEF Rounds!Scanned, Rounds!At, Rounds!Go, Rounds!LeftOver, StoreInv, StoreTypes
<1>2. me[p] \in Memory /\ me[p].torn = {}
  BY SameMemory
<1>3. RoundIs(p) /\ ~me[p].replay
  BY <1>1 DEF StoreInv, RoundIs
<1>4. StoreTypes'
  BY <1>1, <1>2 DEF StoreInv, StoreTypes, Rounds!locks, Rounds!Places, Memory
<1>5. RoundIs(p)'
  BY <1>1, <1>3 DEF RoundIs, Before
<1>6. ASSUME NEW i \in Item
      PROVE  synced'[i] <= edits[i] /\ outbox'[i] <= edits[i] /\ me[p].read[i] <= edits[i]
  BY <1>1 DEF StoreInv, Real
<1>7. ASSUME NEW i \in Item, Kept(i), ReadIsNew(p, i), \A h \in Proc \ {p} : ~Will(h, i) /\ ~WasRead(h, i)
      PROVE  Kept(i)' /\ ReadIsNew(p, i)'
  <2>1. Later(i) => Later(i)'
    BY <1>1, LaterStays DEF RoundPlaces
  <2>2. WasRead(p, i)' <=> WasRead(p, i)
    BY <1>1 DEF WasRead, Rounds!Wanted
  <2>3. Will(p, i) => Later(i)'
    BY <1>1 DEF Will, Before, Later
  <2>4. AllLater => AllLater' \/ Later(i)' \/ (WasRead(p, i) /\ me[p].read[i] = edits[i])
    <3>1. CASE sweepDue /\ ~sweepDue'
      <4>1. i \in me[p].busy \/ WasRead(p, i)
        BY <1>1, <1>3, <3>1 DEF WasRead, Rounds!Wanted
      <4> QED
        BY <1>1, <1>7, <2>1, <4>1 DEF ReadIsNew, Later
    <3>2. CASE sweepDue => sweepDue'
      BY <1>1, <3>2, LaterStays DEF RoundPlaces
    <3> QED
      BY <3>1, <3>2
  <2>5. edits[i] \in {synced[i], outbox[i]} \/ Later(i) \/ AllLater \/ Will(p, i) \/ (WasRead(p, i) /\ me[p].read[i] = edits[i])
    BY <1>7 DEF Kept
  <2>6. edits'[i] \in {synced'[i], outbox'[i]} \/ Later(i)' \/ AllLater' \/ (WasRead(p, i)' /\ me'[p].read[i] = edits'[i])
    BY <1>1, <2>1, <2>2, <2>3, <2>4, <2>5
  <2> QED
    BY <1>1, <1>7, <2>1, <2>2, <2>6 DEF Kept, ReadIsNew
<1>8. pc[p] \in RoundPlaces /\ "push" \in RoundPlaces /\ mishaps'.crashes = mishaps.crashes
      /\ UNCHANGED <<roundRunner, shared, wholeStore, owner, edits>>
  BY <1>1 DEF RoundPlaces, Rounds!locks
<1> QED
  BY <1>1, <1>2, <1>4, <1>5, <1>6, <1>7, <1>8, RoundStep

LEMMA PushStep == ASSUME StoreInv, StoreAssumption, NEW p \in Proc, Rounds!Push(p) PROVE StoreInv'
<1>1. PICK r : r = [me[p] EXCEPT !.left = Rounds!Unpushed(me[p])]
  OBVIOUS
<1>2. /\ pc[p] = "push" /\ pc' = [pc EXCEPT ![p] = "sent"] /\ pc'[p] = "sent"
      /\ me' = [me EXCEPT ![p] = r] /\ me'[p] = r
      /\ outbox' = [i \in Item |-> IF i \in Rounds!Unpushed(me[p]) THEN me[p].read[i] ELSE 0]
      /\ UNCHANGED <<marks, sweepDue, Rounds!locks, edits, synced, mishaps>>
  BY <1>1 DEF Rounds!Push, Rounds!At, Rounds!Go, Rounds!Mine, StoreInv, StoreTypes
<1>3. /\ r.full = me[p].full /\ r.names = me[p].names /\ r.left = Rounds!Unpushed(me[p]) /\ r.busy = me[p].busy
      /\ r.read = me[p].read /\ r.torn = {} /\ r.replay = me[p].replay /\ r \in Memory
  <2>1. Rounds!Unpushed(me[p]) \subseteq Item
    BY DEF Rounds!Unpushed
  <2> QED
    BY <1>1, <2>1, SameMemory DEF Memory
<1>4. StoreTypes'
  <2>1. me[p].read \in [Item -> Nat]
    BY SameMemory DEF Memory
  <2> QED
    BY <1>2, <1>3, <2>1 DEF StoreInv, StoreTypes, Rounds!locks, Rounds!Places
<1>5. RoundIs(p) /\ Rounds!Wanted(r) = Rounds!Wanted(me[p])
  BY <1>3 DEF StoreInv, Rounds!Wanted
<1>6. ASSUME NEW i \in Item
      PROVE  /\ synced[i] <= edits[i] /\ outbox[i] <= edits[i] /\ me[p].read[i] <= edits[i]
             /\ edits[i] \in Nat /\ synced[i] \in Nat /\ me[p].read[i] \in Nat
             /\ i \in Rounds!Unpushed(me[p]) <=> me[p].read[i] > synced[i]
             /\ outbox'[i] = IF me[p].read[i] > synced[i] THEN me[p].read[i] ELSE 0
  BY <1>2, SameMemory DEF StoreInv, StoreTypes, Real, Memory, Rounds!Unpushed
<1>7. ASSUME NEW i \in Item
      PROVE  synced'[i] <= edits[i] /\ outbox'[i] <= edits[i] /\ r.read[i] <= edits[i]
  BY <1>2, <1>3, <1>6
<1>8. RoundIs(p)'
  BY <1>2, <1>3, <1>5, <1>6 DEF RoundIs, Before
<1>9. ASSUME NEW i \in Item, Kept(i), ReadIsNew(p, i), \A h \in Proc \ {p} : ~Will(h, i) /\ ~WasRead(h, i)
      PROVE  Kept(i)' /\ ReadIsNew(p, i)'
  <2>1. (Later(i) => Later(i)') /\ (AllLater => AllLater')
    BY <1>2, LaterStays DEF RoundPlaces
  <2>2. ~(WasRead(p, i))' /\ (Will(p, i) => Will(p, i)')
    BY <1>2, <1>3, <1>5 DEF WasRead, Will, Before
  <2>3. edits[i] \in {synced[i], outbox[i]} \/ Later(i) \/ AllLater \/ Will(p, i) \/ (WasRead(p, i) /\ me[p].read[i] = edits[i])
    BY <1>9 DEF Kept
  <2>4. outbox[i] \in {0, me[p].read[i]}
    BY <1>2, <1>5 DEF RoundIs, Rounds!NoEdits
  <2>5. edits[i] \in {synced[i], outbox[i]} \/ me[p].read[i] = edits[i] => edits'[i] \in {synced'[i], outbox'[i]}
    BY <1>2, <1>6, <2>4
  <2>6. edits'[i] \in {synced'[i], outbox'[i]} \/ Later(i)' \/ AllLater' \/ Will(p, i)'
    BY <2>1, <2>2, <2>3, <2>5
  <2> QED
    BY <2>2, <2>6 DEF Kept, ReadIsNew
<1>10. pc[p] \in RoundPlaces /\ "sent" \in RoundPlaces /\ mishaps'.crashes = mishaps.crashes
       /\ UNCHANGED <<roundRunner, shared, wholeStore, owner, edits>>
  BY <1>2 DEF RoundPlaces, Rounds!locks
<1> QED
  BY <1>2, <1>3, <1>4, <1>7, <1>8, <1>9, <1>10, RoundStep

(* A recorded result: in whichever place the round handles it.             *)
LEMMA HandleStep ==
  ASSUME StoreInv, StoreAssumption, NEW p \in Proc, NEW m \in Item,
         Rounds!HandleResult(p, m) \/ Rounds!HandleNext(p, m)
  PROVE  StoreInv'
<1>1. PICK r : r = [me[p] EXCEPT !.left = @ \ {m}]
  OBVIOUS
<1>2. /\ pc[p] \in {"sent", "results"} /\ pc' = [pc EXCEPT ![p] = "results"] /\ pc'[p] = "results"
      /\ m \in me[p].left /\ me' = [me EXCEPT ![p] = r] /\ me'[p] = r
      /\ synced' = [synced EXCEPT ![m] = me[p].read[m]]
      /\ UNCHANGED <<marks, sweepDue, outbox, Rounds!locks, edits, mishaps>>
  BY <1>1 DEF Rounds!HandleResult, Rounds!HandleNext, Rounds!At, Rounds!Go, Rounds!Mine, StoreInv, StoreTypes
<1>3. /\ r.full = me[p].full /\ r.names = me[p].names /\ r.left = me[p].left \ {m} /\ r.busy = me[p].busy
      /\ r.read = me[p].read /\ r.torn = {} /\ r.replay = me[p].replay /\ r \in Memory
  BY <1>1, SameMemory DEF Memory
<1>4. StoreTypes'
  <2>1. me[p].read \in [Item -> Nat]
    BY SameMemory DEF Memory
  <2> QED
    BY <1>2, <1>3, <2>1 DEF StoreInv, StoreTypes, Rounds!locks, Rounds!Places
<1>5. RoundIs(p) /\ Rounds!Wanted(r) = Rounds!Wanted(me[p])
  BY <1>3 DEF StoreInv, Rounds!Wanted
<1>6. ASSUME NEW i \in Item
      PROVE  /\ synced[i] <= edits[i] /\ outbox[i] <= edits[i] /\ me[p].read[i] <= edits[i]
             /\ edits[i] \in Nat /\ synced[i] \in Nat /\ me[p].read[i] \in Nat
             /\ synced'[i] = IF i = m THEN me[p].read[i] ELSE synced[i]
  BY <1>2, SameMemory DEF StoreInv, StoreTypes, Real, Memory
<1>7. ASSUME NEW i \in Item
      PROVE  synced'[i] <= edits[i] /\ outbox'[i] <= edits[i] /\ r.read[i] <= edits[i]
  BY <1>2, <1>3, <1>6
<1>8. outbox[m] = me[p].read[m] /\ me[p].read[m] > synced[m]
  BY <1>2, <1>5 DEF RoundIs
<1>9. RoundIs(p)'
  BY <1>2, <1>3, <1>5, <1>6, <1>8 DEF RoundIs, Before
<1>10. ASSUME NEW i \in Item, Kept(i), \A h \in Proc \ {p} : ~Will(h, i) /\ ~WasRead(h, i)
       PROVE  Kept(i)' /\ ReadIsNew(p, i)'
  <2>1. (Later(i) => Later(i)') /\ (AllLater => AllLater')
    BY <1>2, LaterStays DEF RoundPlaces
  <2>2. ~WasRead(p, i) /\ ~(WasRead(p, i))' /\ (Will(p, i) => Will(p, i)')
    BY <1>2, <1>3, <1>5 DEF WasRead, Will, Before
  <2>3. edits[i] \in {synced[i], outbox[i]} \/ Later(i) \/ AllLater \/ Will(p, i)
    BY <1>10, <2>2 DEF Kept
  <2>4. edits[i] \in {synced[i], outbox[i]} => edits'[i] \in {synced'[i], outbox'[i]}
    BY <1>2, <1>6, <1>8
  <2>5. edits'[i] \in {synced'[i], outbox'[i]} \/ Later(i)' \/ AllLater' \/ Will(p, i)'
    BY <2>1, <2>2, <2>3, <2>4
  <2> QED
    BY <2>2, <2>5 DEF Kept, ReadIsNew
<1>11. pc[p] \in RoundPlaces /\ "results" \in RoundPlaces /\ mishaps'.crashes = mishaps.crashes
       /\ UNCHANGED <<roundRunner, shared, wholeStore, owner, edits>>
  BY <1>2 DEF RoundPlaces, Rounds!locks
<1> QED
  BY <1>2, <1>3, <1>4, <1>7, <1>9, <1>10, <1>11, RoundStep

LEMMA PushedStep == ASSUME StoreInv, StoreAssumption, NEW p \in Proc, Rounds!Pushed(p) PROVE StoreInv'
<1>1. PICK r, to : IF me[p].replay
                   THEN r = [me[p] EXCEPT !.replay = FALSE, !.read = Rounds!NoEdits, !.left = Rounds!Wanted(me[p])] /\ to = "scan"
                   ELSE r = me[p] /\ to = "next"
  OBVIOUS
<1>2. /\ pc[p] \in {"sent", "results"} /\ pc' = [pc EXCEPT ![p] = to] /\ me' = [me EXCEPT ![p] = r]
      /\ me[p].left = {} /\ outbox' = Rounds!NoEdits
      /\ UNCHANGED <<marks, sweepDue, Rounds!locks, edits, synced, mishaps>>
  BY <1>1, SameMemory DEF Rounds!Pushed, Rounds!At, Rounds!Go, Rounds!Mine
<1>3. /\ to \in {"scan", "next"} /\ r.full = me[p].full /\ r.names = me[p].names /\ r.busy = me[p].busy
      /\ r.torn = {} /\ (to = "scan" <=> me[p].replay)
      /\ IF to = "scan" THEN ~r.replay /\ r.read = Rounds!NoEdits /\ r.left = Rounds!Wanted(me[p])
                        ELSE r.read = me[p].read
  BY <1>1, SameMemory DEF Memory
<1>4. r \in Memory
  <2>1. Rounds!NoEdits \in [Item -> Nat] /\ Rounds!Wanted(me[p]) \subseteq Item
    BY SameMemory DEF Rounds!NoEdits, Rounds!Wanted, Memory
  <2> HIDE DEF Rounds!NoEdits
  <2>2. CASE me[p].replay = TRUE
    <3>1. PICK half : half = [me[p] EXCEPT !.read = Rounds!NoEdits, !.left = Rounds!Wanted(me[p])]
      OBVIOUS
    <3>2. half \in Memory
      BY <2>1, <3>1, SameMemory DEF Memory
    <3>3. r = [half EXCEPT !.replay = FALSE]
      BY <1>1, <2>2, <3>1, SameMemory DEF Memory
    <3> QED
      BY <3>2, <3>3 DEF Memory
  <2>3. CASE me[p].replay = FALSE
    BY <1>1, <2>3, SameMemory
  <2> QED
    BY <2>2, <2>3, SameMemory DEF Memory
<1>5. me'[p] = r /\ pc'[p] = to /\ to \in RoundPlaces /\ to \in Rounds!Places
  BY <1>2, <1>3 DEF StoreInv, StoreTypes, RoundPlaces, Rounds!Places
<1>6. StoreTypes'
  BY <1>2, <1>4, <1>5 DEF StoreInv, StoreTypes, Rounds!locks, Rounds!NoEdits
<1>7. RoundIs(p) /\ Rounds!Wanted(r) = Rounds!Wanted(me[p])
  BY <1>3 DEF StoreInv, Rounds!Wanted
<1>8. ASSUME NEW i \in Item
      PROVE  /\ synced[i] <= edits[i] /\ me[p].read[i] <= edits[i] /\ outbox[i] \in {0, synced[i]}
             /\ edits[i] \in Nat /\ synced[i] \in Nat /\ Rounds!NoEdits[i] = 0
  BY <1>2, <1>7, SameMemory DEF StoreInv, StoreTypes, Real, RoundIs, Rounds!NoEdits
<1>9. ASSUME NEW i \in Item
      PROVE  synced'[i] <= edits[i] /\ outbox'[i] <= edits[i] /\ r.read[i] <= edits[i]
  BY <1>2, <1>3, <1>8
<1>10. RoundIs(p)'
  <2>1. CASE to = "scan"
    BY <1>2, <1>3, <1>5, <1>7, <1>8, <2>1 DEF RoundIs, Before
  <2>2. CASE to = "next"
    BY <1>5, <2>2 DEF RoundIs, Before
  <2> QED
    BY <1>3, <2>1, <2>2
<1>11. ASSUME NEW i \in Item, Kept(i), \A h \in Proc \ {p} : ~Will(h, i) /\ ~WasRead(h, i)
       PROVE  Kept(i)' /\ ReadIsNew(p, i)'
  <2>1. (Later(i) => Later(i)') /\ (AllLater => AllLater')
    BY <1>2, LaterStays DEF RoundPlaces
  <2>2. ~WasRead(p, i) /\ ~(WasRead(p, i))' /\ (Will(p, i) => Will(p, i)')
    BY <1>2, <1>3, <1>5, <1>7 DEF WasRead, Will, Before
  <2>3. edits[i] \in {synced[i], outbox[i]} \/ Later(i) \/ AllLater \/ Will(p, i)
    BY <1>11, <2>2 DEF Kept
  <2>4. edits[i] \in {synced[i], outbox[i]} => edits'[i] = synced'[i]
    BY <1>2, <1>8
  <2>5. edits'[i] \in {synced'[i], outbox'[i]} \/ Later(i)' \/ AllLater' \/ Will(p, i)'
    BY <2>1, <2>2, <2>3, <2>4
  <2> QED
    BY <2>2, <2>5 DEF Kept, ReadIsNew
<1>12. pc[p] \in RoundPlaces /\ mishaps'.crashes = mishaps.crashes /\ UNCHANGED <<roundRunner, shared, wholeStore, owner, edits>>
  BY <1>2 DEF RoundPlaces, Rounds!locks
<1> QED
  BY <1>2, <1>3, <1>4, <1>5, <1>6, <1>9, <1>10, <1>11, <1>12, RoundStep

LEMMA FailStep == ASSUME StoreInv, StoreAssumption, NEW p \in Proc, Rounds!Fail(p) PROVE StoreInv'
<1>1. /\ pc[p] = "sent" /\ pc' = [pc EXCEPT ![p] = "next"] /\ pc'[p] = "next"
      /\ me' = [me EXCEPT ![p] = me[p]] /\ marks' = marks \cup me[p].names
      /\ mishaps' = [mishaps EXCEPT !.failures = @ + 1]
      /\ UNCHANGED <<me, sweepDue, outbox, Rounds!locks, edits, synced>>
  BY SameMemory DEF Rounds!Fail, Rounds!At, Rounds!Go, Rounds!GivenBack, StoreInv, StoreTypes
<1>2. me[p] \in Memory /\ me[p].torn = {} /\ RoundIs(p)
  BY SameMemory DEF StoreInv
<1>3. mishaps' \in [failures : Nat, crashes : Nat, sweeps : Nat] /\ mishaps'.crashes = mishaps.crashes
  BY <1>1 DEF StoreInv, StoreTypes
<1>4. StoreTypes'
  BY <1>1, <1>2, <1>3 DEF StoreInv, StoreTypes, Rounds!locks, Rounds!Places, Memory
<1>5. RoundIs(p)'
  BY <1>1 DEF RoundIs, Before
<1>6. ASSUME NEW i \in Item
      PROVE  synced'[i] <= edits[i] /\ outbox'[i] <= edits[i] /\ me[p].read[i] <= edits[i]
  BY <1>1 DEF StoreInv, Real
<1>7. ASSUME NEW i \in Item, Kept(i), \A h \in Proc \ {p} : ~Will(h, i) /\ ~WasRead(h, i)
      PROVE  Kept(i)' /\ ReadIsNew(p, i)'
  <2>1. (Later(i) => Later(i)') /\ (AllLater => AllLater')
    BY <1>1, LaterStays DEF RoundPlaces
  <2>2. ~WasRead(p, i) /\ ~(WasRead(p, i))'
    BY <1>1 DEF WasRead
  <2>3. Will(p, i) => Later(i)' \/ AllLater'
    BY <1>1, <1>2 DEF Will, Before, Rounds!Wanted, RoundIs, Later, AllLater
  <2>4. edits[i] \in {synced[i], outbox[i]} \/ Later(i) \/ AllLater \/ Will(p, i)
    BY <1>7, <2>2 DEF Kept
  <2>5. edits'[i] \in {synced'[i], outbox'[i]} \/ Later(i)' \/ AllLater'
    BY <1>1, <2>1, <2>3, <2>4
  <2> QED
    BY <2>2, <2>5 DEF Kept, ReadIsNew
<1>8. pc[p] \in RoundPlaces /\ "next" \in RoundPlaces /\ UNCHANGED <<roundRunner, shared, wholeStore, owner, edits>>
  BY <1>1 DEF RoundPlaces, Rounds!locks
<1> QED
  BY <1>1, <1>2, <1>3, <1>4, <1>5, <1>6, <1>7, <1>8, RoundStep

-----------------------------------------------------------------------------
(* What happens to a process, and the whole.                               *)

(* A dead process has no locks and is in no round; what it leaves half done*)
(* is not promised to anybody.                                             *)
LEMMA DieStep == ASSUME StoreInv, StoreAssumption, NEW p \in Proc, Rounds!Die(p) PROVE StoreInv'
<1>1. /\ pc' = [pc EXCEPT ![p] = "dead"] /\ pc'[p] = "dead" /\ \A h \in Proc \ {p} : pc'[h] = pc[h]
      /\ mishaps' = [mishaps EXCEPT !.crashes = @ + 1]
      /\ edits' = [i \in Item |-> IF Rounds!At(p, "edit") /\ i \in Rounds!Touches(p) THEN edits[i] + 1 ELSE edits[i]]
      /\ owner' = [i \in Item |-> IF owner[i] = p THEN None ELSE owner[i]]
      /\ shared' = shared \ {p} /\ wholeStore' = (IF wholeStore = p THEN None ELSE wholeStore)
      /\ roundRunner' = (IF roundRunner = p THEN None ELSE roundRunner)
      /\ UNCHANGED <<me, flag, marks, sweepDue, outbox, synced>>
  BY DEF Rounds!Die, Rounds!Go, StoreInv, StoreTypes
<1>2. mishaps' \in [failures : Nat, crashes : Nat, sweeps : Nat] /\ mishaps'.crashes # 0
  BY <1>1 DEF StoreInv, StoreTypes
<1>3. ASSUME NEW i \in Item PROVE edits[i] \in Nat /\ edits'[i] \in Nat /\ edits[i] <= edits'[i]
  BY <1>1 DEF StoreInv, StoreTypes
<1>4. StoreTypes'
  BY <1>1, <1>2, <1>3 DEF StoreInv, StoreTypes, Rounds!Places
<1>5. ASSUME NEW h \in Proc PROVE HasLocks(h)' /\ RoundIs(h)' /\ me'[h].torn = {}
  <2>1. HasLocks(h) /\ RoundIs(h) /\ me'[h].torn = {}
    BY <1>1 DEF StoreInv
  <2>2. CASE h = p
    <3>1. ~(pc[p] \in StoreBusy)'
      BY <1>1 DEF StoreBusy
    <3> QED
      BY <1>1, <2>1, <2>2, <3>1, OutOfRoundNext DEF HasLocks, Commands, RoundPlaces
  <2>3. CASE h # p
    <3>1. RoundIs(h)'
      BY <1>1, <2>1, <2>3, RoundStays
    <3>2. Named[h] \subseteq Item
      BY DEF StoreAssumption
    <3> QED
      BY <1>1, <2>1, <2>3, <3>1, <3>2 DEF HasLocks
  <2> QED
    BY <2>2, <2>3
<1>6. StoreAlone'
  BY <1>1 DEF StoreInv, StoreAlone
<1>7. ASSUME NEW i \in Item PROVE Real(i)'
  <2>1. synced[i] \in Nat /\ outbox[i] \in Nat /\ \A h \in Proc : me[h].read[i] \in Nat
    BY SameMemory DEF StoreInv, StoreTypes, Memory
  <2>2. \A h \in Proc : me[h].read[i] <= edits[i]
    BY DEF StoreInv, Real
  <2>3. \A h \in Proc : me'[h].read[i] <= edits'[i]
    BY <1>1, <1>3, <2>1, <2>2
  <2>4. synced'[i] <= edits'[i] /\ outbox'[i] <= edits'[i]
    BY <1>1, <1>3, <2>1 DEF StoreInv, Real
  <2> QED
    BY <2>3, <2>4 DEF Real
<1> QED
  BY <1>2, <1>4, <1>5, <1>6, <1>7 DEF StoreInv

LEMMA SweepComesDueStep == ASSUME StoreInv, Rounds!SweepComesDue PROVE StoreInv'
<1>1. /\ sweepDue' = TRUE /\ mishaps' = [mishaps EXCEPT !.sweeps = @ + 1]
      /\ UNCHANGED <<pc, me, flag, marks, outbox, Rounds!locks, edits, synced>>
  BY DEF Rounds!SweepComesDue
<1>2. mishaps' \in [failures : Nat, crashes : Nat, sweeps : Nat] /\ mishaps'.crashes = mishaps.crashes
  BY <1>1 DEF StoreInv, StoreTypes
<1>3. StoreTypes' /\ StoreAlone'
  BY <1>1, <1>2 DEF StoreInv, StoreTypes, Rounds!locks, StoreAlone
<1>4. ASSUME NEW h \in Proc PROVE HasLocks(h)' /\ RoundIs(h)' /\ me'[h].torn = {}
  <2>1. RoundIs(h)'
    BY <1>1, RoundStays DEF StoreInv
  <2> QED
    BY <1>1, <2>1 DEF StoreInv, HasLocks, Rounds!locks
<1>5. ASSUME NEW i \in Item PROVE Real(i)'
  BY <1>1 DEF StoreInv, Real
<1>6. ASSUME NEW i \in Item, mishaps'.crashes = 0 PROVE Kept(i)' /\ \A h \in Proc : ReadIsNew(h, i)'
  <2>1. AllLater' /\ (Later(i)' <=> Later(i))
    BY <1>1 DEF AllLater, Later
  <2>2. ASSUME NEW h \in Proc PROVE ReadIsNew(h, i)'
    <3>1. ReadIsNew(h, i) /\ (WasRead(h, i)' <=> WasRead(h, i))
      BY <1>1, <1>2, <1>6, ReadStays DEF StoreInv
    <3> QED
      BY <1>1, <2>1, <3>1 DEF ReadIsNew
  <2> QED
    BY <2>1, <2>2 DEF Kept
<1> QED
  BY <1>3, <1>4, <1>5, <1>6 DEF StoreInv

LEMMA StoreRestStep == ASSUME StoreInv, UNCHANGED Rounds!vars PROVE StoreInv'
<1>1. UNCHANGED <<pc, me, marks, sweepDue, shared, roundRunner, wholeStore, owner, outbox, edits, synced, mishaps>>
  BY DEF Rounds!vars, Rounds!locks
<1>2. StoreTypes' /\ StoreAlone' /\ \A h \in Proc : HasLocks(h)' /\ RoundIs(h)' /\ me'[h].torn = {}
  BY <1>1 DEF StoreInv, StoreTypes, StoreAlone, HasLocks, RoundIs, Before, Rounds!Wanted
<1>3. \A i \in Item : Real(i)'
  BY <1>1 DEF StoreInv, Real
<1>4. ASSUME NEW i \in Item PROVE Kept(i)' = Kept(i) /\ \A h \in Proc : ReadIsNew(h, i)' = ReadIsNew(h, i)
  BY <1>1 DEF Kept, ReadIsNew, Later, AllLater, Will, WasRead, Before, Rounds!Wanted
<1> QED
  BY <1>1, <1>2, <1>3, <1>4 DEF StoreInv

LEMMA StoreStart == ASSUME StoreAssumption, Rounds!Init PROVE StoreInv
<1>1. /\ pc = [p \in Proc |-> "begin"] /\ me = [p \in Proc |-> Rounds!Fresh] /\ marks = {} /\ sweepDue = FALSE
      /\ outbox = Rounds!NoEdits /\ shared = {} /\ wholeStore = None /\ owner = [i \in Item |-> None]
      /\ edits = Rounds!NoEdits /\ synced = Rounds!NoEdits /\ mishaps = [failures |-> 0, crashes |-> 0, sweeps |-> 0]
  BY DEF Rounds!Init
<1>2. Rounds!Fresh \in Memory /\ Rounds!Fresh.read = Rounds!NoEdits /\ Rounds!Fresh.torn = {} /\ Rounds!NoEdits \in [Item -> Nat]
  BY DEF Rounds!Fresh, Memory, Rounds!NoEdits
<1>3. StoreTypes
  BY <1>1, <1>2 DEF StoreTypes, Rounds!Places
<1>4. \A p \in Proc : HasLocks(p) /\ RoundIs(p) /\ me[p].torn = {}
  BY <1>1, <1>2 DEF HasLocks, RoundIs, Before, Commands, RoundPlaces
<1>5. \A i \in Item : Real(i)
  BY <1>1, <1>2 DEF Real, Rounds!NoEdits
<1>6. \A i \in Item : Kept(i) /\ \A p \in Proc : ReadIsNew(p, i)
  BY <1>1 DEF Kept, ReadIsNew, WasRead
<1> QED
  BY <1>1, <1>3, <1>4, <1>5, <1>6 DEF StoreInv, StoreAlone

LEMMA StoreStep == ASSUME StoreAssumption, StoreInv, [Rounds!Next]_(Rounds!vars) PROVE StoreInv'
<1>1. ASSUME NEW p \in Proc, Rounds!Step(p) PROVE StoreInv'
  <2>1. CASE Rounds!Begin(p) \/ Rounds!LockStore(p) \/ Rounds!StartEdit(p) \/ Rounds!EndEdit(p) \/ Rounds!Unlock(p) \/ Rounds!MarkChanges(p) \/ Rounds!FlagChanges(p)
    BY <2>1, BeginStep, LockStoreStep, StartEditStep, EndEditStep, UnlockStep, MarkChangesStep, FlagChangesStep
  <2>2. CASE Rounds!TryRunner(p) \/ Rounds!ShareStore(p) \/ Rounds!TakeFlag(p) \/ Rounds!NoFlag(p) \/ Rounds!LetGo(p) \/ Rounds!LookAgain(p)
    BY <2>2, TryRunnerStep, ShareStoreStep, TakeFlagStep, NoFlagStep, LetGoStep, LookAgainStep
  <2>3. CASE Rounds!ListMarks(p) \/ Rounds!MarksTaken(p) \/ Rounds!Scanned(p) \/ Rounds!Push(p) \/ Rounds!Pushed(p)
    BY <2>3, ListMarksStep, MarksTakenStep, ScannedStep, PushStep, PushedStep
  <2>4. ASSUME NEW i \in Item,
               Rounds!LockItem(p, i) \/ Rounds!TakeMark(p, i) \/ Rounds!ScanItem(p, i) \/ Rounds!HandleResult(p, i) \/ Rounds!HandleNext(p, i)
        PROVE  StoreInv'
    BY <2>4, LockItemStep, TakeMarkStep, ScanItemStep, HandleStep
  <2> QED
    BY <1>1, <2>1, <2>2, <2>3, <2>4 DEF Rounds!Step
<1> QED
  BY <1>1, FailStep, DieStep, SweepComesDueStep, StoreRestStep DEF Rounds!Next, Rounds!Rest

(* What the invariant says in the words of the properties.                 *)
LEMMA StoreGives == ASSUME StoreAssumption, StoreInv PROVE Rounds!ReadsAreWhole /\ Rounds!NothingForgotten
<1>1. Rounds!ReadsAreWhole
  BY DEF StoreInv, Rounds!ReadsAreWhole
<1>2. ASSUME NEW i \in Item, edits[i] > synced[i], mishaps.crashes = 0
      PROVE  i \in marks \/ outbox[i] = edits[i] \/ sweepDue \/ \E p \in Proc : Rounds!InHand(p, i)
  <2>1. Kept(i) /\ edits[i] # synced[i]
    BY <1>2 DEF StoreInv, StoreTypes
  <2>2. Later(i) \/ AllLater => i \in marks \/ sweepDue \/ \E p \in Proc : Rounds!InHand(p, i)
    BY DEF Later, AllLater, Rounds!InHand, Rounds!Touches, StoreAssumption
  <2>3. ASSUME NEW p \in Proc, Will(p, i) \/ (WasRead(p, i) /\ me[p].read[i] = edits[i])
        PROVE  Rounds!InHand(p, i)
    BY <2>3 DEF Will, WasRead, Before, Rounds!InHand, Rounds!At, StoreInv, RoundIs
  <2> QED
    BY <2>1, <2>2, <2>3 DEF Kept
<1> QED
  BY <1>1, <1>2 DEF Rounds!NothingForgotten

(* Rounds read whole items, and no edit is forgotten.                      *)
THEOREM StoreInvariance ==
  ASSUME StoreAssumption
  PROVE  Rounds!Spec => [](StoreInv /\ Rounds!ReadsAreWhole /\ Rounds!NothingForgotten)
<1>1. StoreInv /\ [Rounds!Next]_(Rounds!vars) => StoreInv'
  BY StoreStep
<1> QED
  BY <1>1, StoreStart, StoreGives, PTL DEF Rounds!Spec

-----------------------------------------------------------------------------
(***************************************************************************)
(* The outbox towards Jira (JiraOutbox).  No two flushes have one row in   *)
(* hand, and no older move of an issue reaches Jira after a newer one.     *)
(***************************************************************************)

(* A move queues a row for each issue its item names, so it names some.    *)
IssuesAssumption == IsFiniteSet(Issue) /\ Issue # {}

-----------------------------------------------------------------------------
(* The inductive invariant.                                                *)

Delivered == {"sent", "skipped"}

RowType ==
  {row \in [key : Issue, status : JiraStatus, attempts : Int, claim : {"none", "held", "stale"},
            due : BOOLEAN, done : BOOLEAN,
            result : {"none", "dry_run", "superseded", "refused"} \cup Delivered] :
     row.result \in {"dry_run"} \cup Delivered => row.done}

OutboxBusy == {"never", "newer", "older", "read", "post", "failed"} \cup Delivered

OutboxFlushType ==
  [at : {"idle", "sweep", "next", "gaveUp"} \cup OutboxBusy, todo : SUBSET Nat, crashed : SUBSET Nat,
   row : Nat, attempts : Int]

OutboxWorks(f, r) == sending[f].at \in OutboxBusy /\ sending[f].row = r

(* A flush names a row exactly while it works on it or gives it up.        *)
NamesARow(f) ==
  IF sending[f].at \in OutboxBusy \cup {"gaveUp"} THEN sending[f].row \in Outbox!Ids ELSE sending[f].row = 0

OutboxTypes ==
  /\ rows \in Seq(RowType)
  /\ sending \in [Flush -> OutboxFlushType]
  /\ jira \in [Issue -> JiraStatus]
  /\ \A f \in Flush : NamesARow(f)

(* The row a flush has in hand is leased and open, and no other's.         *)
OutboxLeased(f) == sending[f].at \in OutboxBusy => Outbox!Row(f).claim = "held" /\ ~Outbox!Row(f).done

OutboxAlone == \A f, g \in Flush : \A r \in Outbox!Ids : OutboxWorks(f, r) /\ OutboxWorks(g, r) => f = g

(* A row that is delivered, or that its flush may deliver without another  *)
(* look at the older ones.                                                 *)
Delivering(r) ==
  rows[r].result \in Delivered \/ \E g \in Flush : sending[g].at \in {"read", "post"} \cup Delivered /\ sending[g].row = r

(* Once a flush found nothing newer than its row, nothing newer is         *)
(* delivered as long as it may send the row: newer rows find it on its way.*)
InOrder(f) ==
  sending[f].at \in {"older", "read", "post"} =>
    \A q \in Outbox!Ids : q > sending[f].row /\ rows[q].key = Outbox!Row(f).key => ~Delivering(q)

OutboxInv ==
  /\ OutboxTypes
  /\ \A f \in Flush : OutboxLeased(f)
  /\ OutboxAlone
  /\ \A f \in Flush : InOrder(f)
-----------------------------------------------------------------------------
(* What the steps share.                                                   *)

LEMMA OutboxIdsAre == OutboxTypes => Outbox!Ids = 1..Len(rows)
  BY LenProperties DEF OutboxTypes, Outbox!Ids

LEMMA OutboxRowIs == ASSUME OutboxTypes, NEW r \in Outbox!Ids PROVE rows[r] \in RowType
  BY OutboxIdsAre, ElementOfSeq DEF OutboxTypes

(* Writing one row keeps the ids and the other rows.                       *)
LEMMA OutboxWriteKeeps ==
  ASSUME OutboxTypes, NEW r \in Outbox!Ids, NEW row \in RowType, Outbox!Write(r, row)
  PROVE  /\ rows' \in Seq(RowType) /\ Outbox!Ids' = Outbox!Ids
         /\ \A q \in Outbox!Ids : rows'[q] = IF q = r THEN row ELSE rows[q]
<1>1. r \in 1..Len(rows) /\ rows \in Seq(RowType)
  BY OutboxIdsAre DEF OutboxTypes
<1> QED
  BY <1>1, ExceptSeq, LenProperties, OutboxIdsAre DEF Outbox!Write, Outbox!Ids

(* A flush moves alone.                                                    *)
LEMMA OutboxGoKeeps ==
  ASSUME OutboxTypes, NEW f \in Flush, NEW g \in OutboxFlushType, Outbox!Go(f, g)
  PROVE  /\ sending' \in [Flush -> OutboxFlushType]
         /\ sending'[f] = g /\ \A h \in Flush \ {f} : sending'[h] = sending[h]
  BY DEF OutboxTypes, Outbox!Go

(* What is known of the row a flush has in hand.                           *)
LEMMA OutboxInHand ==
  ASSUME OutboxInv, NEW f \in Flush, sending[f].at \in OutboxBusy
  PROVE  /\ sending[f].row \in Outbox!Ids /\ Outbox!Row(f) \in RowType /\ sending[f] \in OutboxFlushType
         /\ Outbox!Row(f).claim = "held" /\ ~Outbox!Row(f).done /\ Outbox!Row(f).result \notin Delivered
         /\ \A h \in Flush \ {f} : ~OutboxWorks(h, sending[f].row)
<1>1. sending[f].row \in Outbox!Ids /\ sending[f] \in OutboxFlushType
  BY DEF OutboxInv, OutboxTypes, NamesARow
<1>2. Outbox!Row(f) \in RowType
  BY <1>1, OutboxRowIs DEF OutboxInv, Outbox!Row
<1>3. Outbox!Row(f).claim = "held" /\ ~Outbox!Row(f).done
  BY DEF OutboxInv, OutboxLeased
<1>4. \A h \in Flush \ {f} : ~OutboxWorks(h, sending[f].row)
  BY <1>1 DEF OutboxInv, OutboxAlone, OutboxWorks
<1> QED
  BY <1>1, <1>2, <1>3, <1>4 DEF RowType

(* To have a row is to work on it.                                         *)
LEMMA HasIsWorks ==
  ASSUME OutboxTypes, NEW f \in Flush, NEW r \in Outbox!Ids
  PROVE  Outbox!Has(f, r) <=> OutboxWorks(f, r)
<1>1. r # 0
  BY OutboxIdsAre
<1>2. NamesARow(f) /\ sending[f].at \in {"idle", "sweep", "next", "gaveUp"} \cup OutboxBusy
  BY DEF OutboxTypes, OutboxFlushType
<1>3. CASE sending[f].at \in OutboxBusy
  BY <1>3 DEF Outbox!Has, Outbox!At, OutboxWorks, OutboxBusy, Delivered
<1>4. CASE sending[f].at \notin OutboxBusy
  BY <1>1, <1>2, <1>4 DEF Outbox!Has, Outbox!At, OutboxWorks, NamesARow
<1> QED
  BY <1>3, <1>4

(* A step of one flush: what it writes is no other's, and what it delivers *)
(* is not newer than a row that another may send.                          *)
LEMMA OutboxFlushStep ==
  ASSUME OutboxInv, NEW f \in Flush,
         sending' \in [Flush -> OutboxFlushType], \A h \in Flush \ {f} : sending'[h] = sending[h],
         rows' \in Seq(RowType), Outbox!Ids' = Outbox!Ids, jira' \in [Issue -> JiraStatus],
         \A r \in Outbox!Ids : rows'[r].key = rows[r].key,
         \A r \in Outbox!Ids : rows'[r] # rows[r] => \A h \in Flush \ {f} : ~OutboxWorks(h, r),
         NamesARow(f)', OutboxLeased(f)', InOrder(f)',
         \A r \in Outbox!Ids : OutboxWorks(f, r)' => \A h \in Flush \ {f} : ~OutboxWorks(h, r),
         \A r \in Outbox!Ids : Delivering(r)' /\ ~Delivering(r) =>
            \A h \in Flush \ {f} : sending[h].at \in {"older", "read", "post"} =>
               ~(r > sending[h].row /\ rows[r].key = Outbox!Row(h).key)
  PROVE  OutboxInv'
<1>1. ASSUME NEW h \in Flush \ {f}, NEW r PROVE OutboxWorks(h, r)' <=> OutboxWorks(h, r)
  BY DEF OutboxWorks
<1>2. OutboxTypes'
  <2>1. ASSUME NEW h \in Flush \ {f} PROVE NamesARow(h)'
    BY DEF OutboxInv, OutboxTypes, NamesARow
  <2> QED
    BY <2>1 DEF OutboxInv, OutboxTypes
<1>3. ASSUME NEW h \in Flush \ {f}, sending[h].at \in OutboxBusy
      PROVE  sending[h].row \in Outbox!Ids /\ Outbox!Row(h)' = Outbox!Row(h)
  BY <1>3, OutboxInHand DEF OutboxWorks, Outbox!Row
<1>4. ASSUME NEW h \in Flush \ {f} PROVE OutboxLeased(h)'
  BY <1>3 DEF OutboxInv, OutboxLeased
<1>5. OutboxAlone'
  <2>1. ASSUME NEW g \in Flush, NEW h \in Flush, NEW r \in Outbox!Ids, OutboxWorks(g, r)', OutboxWorks(h, r)' PROVE g = h
    <3>1. CASE g = f \/ h = f
      BY <3>1, <2>1, <1>1
    <3>2. CASE g # f /\ h # f
      BY <3>2, <2>1, <1>1 DEF OutboxInv, OutboxAlone
    <3> QED
      BY <3>1, <3>2
  <2> QED
    BY <2>1 DEF OutboxAlone
<1>6. ASSUME NEW h \in Flush \ {f} PROVE InOrder(h)'
  <2>1. SUFFICES ASSUME sending[h].at \in {"older", "read", "post"},
                        NEW q \in Outbox!Ids, q > sending[h].row, rows'[q].key = Outbox!Row(h)'.key
                 PROVE  ~Delivering(q)'
    BY DEF InOrder
  <2>2. Outbox!Row(h)' = Outbox!Row(h) /\ rows[q].key = Outbox!Row(h).key
    BY <2>1, <1>3 DEF OutboxBusy
  <2>3. ~Delivering(q)
    BY <2>1, <2>2 DEF OutboxInv, InOrder
  <2> QED
    BY <2>1, <2>2, <2>3
<1> QED
  BY <1>2, <1>4, <1>5, <1>6 DEF OutboxInv
-----------------------------------------------------------------------------
(* What the steps are to JiraDelivery.                                     *)

Promised == [Delivery!DeliveryNext]_(Delivery!vars)

WhatBecame(r) ==
  IF rows[r].result \in Delivered THEN "delivered"
  ELSE IF rows[r].done THEN "dropped"
  ELSE IF \E f \in Flush : OutboxWorks(f, r) THEN "in hand" ELSE "waiting"

LEMMA BecameIs == OutboxTypes => \A r \in Outbox!Ids : Outbox!Became(r) = WhatBecame(r)
  BY HasIsWorks DEF Outbox!Became, WhatBecame, Delivered

LEMMA BecameNext == OutboxTypes' => \A r \in Outbox!Ids' : Outbox!Became(r)' = WhatBecame(r)'
<1>1. (OutboxTypes => \A r \in Outbox!Ids : Outbox!Became(r) = WhatBecame(r))'
  BY BecameIs, PTL
<1> QED
  BY <1>1

SameMove(r) == rows'[r].key = rows[r].key /\ rows'[r].status = rows[r].status

LEMMA MovesStay ==
  ASSUME Outbox!Ids' = Outbox!Ids, UNCHANGED jira, \A r \in Outbox!Ids : SameMove(r) /\ Outbox!Became(r)' = Outbox!Became(r)
  PROVE  Promised
  BY DEF Promised, Outbox!Moves, Delivery!vars, SameMove

LEMMA MovesBecome ==
  ASSUME NEW r \in Outbox!Ids, Outbox!Ids' = Outbox!Ids, \A q \in Outbox!Ids : SameMove(q),
         \A q \in Outbox!Ids \ {r} : Outbox!Became(q)' = Outbox!Became(q)
  PROVE  Outbox!Moves' = [Outbox!Moves EXCEPT ![r].became = Outbox!Became(r)'] /\ r \in DOMAIN Outbox!Moves /\ Outbox!Moves[r].became = Outbox!Became(r)
  BY DEF Outbox!Moves, SameMove

(* Who leaves a row, having written what became of it, lets go of a move.  *)
LEMMA LeaveStep ==
  ASSUME OutboxInv, NEW f \in Flush, sending[f].at \in OutboxBusy, NEW g \in OutboxFlushType, NEW row \in RowType,
         Outbox!Write(sending[f].row, row), Outbox!Go(f, g), UNCHANGED jira,
         row.key = Outbox!Row(f).key, row.status = Outbox!Row(f).status,
         row.result \in Delivered => sending[f].at \in Delivered,
         g.at \notin OutboxBusy, IF g.at = "gaveUp" THEN g.row = sending[f].row ELSE g.row = 0
  PROVE  OutboxInv' /\ Promised
<1>0. PICK r \in Outbox!Ids : r = sending[f].row
  BY OutboxInHand
<1>1. /\ ~rows[r].done /\ rows[r].result \notin Delivered /\ OutboxWorks(f, r) /\ rows[r] = Outbox!Row(f)
      /\ \A h \in Flush \ {f} : ~OutboxWorks(h, r)
  BY <1>0, OutboxInHand DEF Outbox!Row, OutboxWorks
<1>2. /\ sending' \in [Flush -> OutboxFlushType]
      /\ sending'[f] = g /\ \A h \in Flush \ {f} : sending'[h] = sending[h]
  BY OutboxGoKeeps DEF OutboxInv
<1>3. /\ rows' \in Seq(RowType) /\ Outbox!Ids' = Outbox!Ids
      /\ \A q \in Outbox!Ids : rows'[q] = IF q = r THEN row ELSE rows[q]
  BY <1>0, OutboxWriteKeeps DEF OutboxInv
<1>4. \A q : ~OutboxWorks(f, q)'
  BY <1>2 DEF OutboxWorks
<1>5. ASSUME NEW h \in Flush \ {f}, NEW q PROVE OutboxWorks(h, q)' <=> OutboxWorks(h, q)
  BY <1>2 DEF OutboxWorks
<1>6. NamesARow(f)' /\ OutboxLeased(f)' /\ InOrder(f)'
  BY <1>0, <1>2, <1>3 DEF NamesARow, OutboxLeased, InOrder, OutboxBusy
<1>7. \A q \in Outbox!Ids : SameMove(q)
  BY <1>1, <1>3 DEF SameMove
<1>8. \A q \in Outbox!Ids : Delivering(q)' => Delivering(q)
  BY <1>0, <1>1, <1>2, <1>3 DEF Delivering, OutboxBusy, OutboxWorks
<1>9. OutboxInv'
  <2>1. jira' \in [Issue -> JiraStatus]
    BY DEF OutboxInv, OutboxTypes
  <2>2. \A q \in Outbox!Ids : rows'[q] # rows[q] => \A h \in Flush \ {f} : ~OutboxWorks(h, q)
    BY <1>1, <1>3
  <2>3. \A q \in Outbox!Ids : rows'[q].key = rows[q].key
    BY <1>7 DEF SameMove
  <2> QED
    BY <1>2, <1>3, <1>4, <1>6, <1>8, <2>1, <2>2, <2>3, OutboxFlushStep
<1>10. ASSUME NEW q \in Outbox!Ids \ {r} PROVE Outbox!Became(q)' = Outbox!Became(q)
  <2>1. ~OutboxWorks(f, q) /\ ~OutboxWorks(f, q)'
    BY <1>0, <1>4 DEF OutboxWorks
  <2>2. rows'[q] = rows[q] /\ \A h \in Flush : OutboxWorks(h, q)' <=> OutboxWorks(h, q)
    BY <1>3, <1>5, <2>1
  <2> QED
    BY <1>3, <1>9, <2>2, BecameIs, BecameNext DEF OutboxInv, WhatBecame
<1>11. Outbox!Became(r) = "in hand" /\ Outbox!Became(r)' \in {"delivered", "dropped", "waiting"}
  <2>1. ASSUME NEW h \in Flush PROVE ~OutboxWorks(h, r)'
    BY <1>1, <1>4, <1>5
  <2>2. Outbox!Became(r) = WhatBecame(r) /\ Outbox!Became(r)' = WhatBecame(r)'
    BY <1>1, <1>3, <1>9, BecameIs, BecameNext DEF OutboxInv
  <2>3. WhatBecame(r) = "in hand"
    BY <1>1 DEF WhatBecame
  <2>4. WhatBecame(r)' \in {"delivered", "dropped", "waiting"}
    BY <2>1 DEF WhatBecame
  <2> QED
    BY <2>2, <2>3, <2>4
<1>12. Delivery!LetGo(r)
  <2>1. Outbox!Moves' = [Outbox!Moves EXCEPT ![r].became = Outbox!Became(r)'] /\ Outbox!Moves[r].became = "in hand"
    BY <1>1, <1>3, <1>7, <1>10, <1>11, MovesBecome
  <2>2. Outbox!Moves' = [Outbox!Moves EXCEPT ![r].became = Outbox!Became(r)'] /\ UNCHANGED jira
    BY <2>1
  <2> QED
    BY <1>11, <2>1, <2>2 DEF Delivery!LetGo, Delivery!Becomes, Delivery!Became
<1>13. r \in DOMAIN Outbox!Moves
  BY <1>1 DEF Outbox!Moves
<1> QED
  BY <1>9, <1>12, <1>13 DEF Promised, Delivery!DeliveryNext

(* Who keeps its row and writes none changes no move.                      *)
LEMMA OutboxHoldStep ==
  ASSUME OutboxInv, NEW f \in Flush, sending[f].at \in OutboxBusy, NEW at \in OutboxBusy,
         Outbox!Go(f, [sending[f] EXCEPT !.at = at]), UNCHANGED rows, jira' \in [Issue -> JiraStatus],
         InOrder(f)',
         \/ sending[f].at \in {"read", "post"} \cup Delivered
         \/ at \notin {"read", "post"} \cup Delivered
         \/ \A q \in Outbox!Ids : q < sending[f].row /\ rows[q].key = Outbox!Row(f).key => rows[q].done \/ rows[q].claim # "held"
  PROVE  OutboxInv' /\ Outbox!Moves' = Outbox!Moves
<1> DEFINE r == sending[f].row
           g == [sending[f] EXCEPT !.at = at]
<1>1. /\ g \in OutboxFlushType /\ g.at = at /\ g.row = r
  BY OutboxInHand DEF OutboxFlushType
<1> HIDE DEF g
<1>2. /\ sending' \in [Flush -> OutboxFlushType]
      /\ sending'[f] = g /\ \A h \in Flush \ {f} : sending'[h] = sending[h]
  BY <1>1, OutboxGoKeeps DEF OutboxInv, g
<1>3. Outbox!Ids' = Outbox!Ids /\ r \in Outbox!Ids /\ \A h \in Flush \ {f} : ~OutboxWorks(h, r)
  BY OutboxInHand DEF Outbox!Ids
<1>4. ASSUME NEW h \in Flush, NEW q PROVE OutboxWorks(h, q)' <=> OutboxWorks(h, q)
  BY <1>1, <1>2 DEF OutboxWorks
<1>5. NamesARow(f)' /\ OutboxLeased(f)'
  BY <1>1, <1>2, <1>3, OutboxInHand DEF NamesARow, OutboxLeased, Outbox!Row
<1>6. ASSUME NEW q \in Outbox!Ids, Delivering(q)', ~Delivering(q), NEW h \in Flush \ {f},
             sending[h].at \in {"older", "read", "post"}, q > sending[h].row, rows[q].key = Outbox!Row(h).key
      PROVE  FALSE
  <2>1. q = r /\ sending[f].at \notin {"read", "post"} \cup Delivered /\ at \in {"read", "post"} \cup Delivered
    BY <1>1, <1>2, <1>6 DEF Delivering
  <2>2. sending[h].row \in Outbox!Ids /\ Outbox!Row(h).claim = "held" /\ ~Outbox!Row(h).done
    BY <1>6, OutboxInHand DEF OutboxBusy
  <2>3. sending[h].row < r /\ rows[sending[h].row].key = Outbox!Row(f).key
    BY <1>3, <1>6, <2>1, <2>2, OutboxIdsAre DEF Outbox!Row, OutboxInv
  <2> QED
    BY <2>1, <2>2, <2>3 DEF Outbox!Row
<1>7. OutboxInv'
  <2>1. \A q \in Outbox!Ids : OutboxWorks(f, q)' => \A h \in Flush \ {f} : ~OutboxWorks(h, q)
    BY <1>4 DEF OutboxInv, OutboxAlone
  <2>2. rows' \in Seq(RowType)
    BY DEF OutboxInv, OutboxTypes
  <2> QED
    BY <1>2, <1>3, <1>5, <1>6, <2>1, <2>2, OutboxFlushStep
<1>8. ASSUME NEW q \in Outbox!Ids PROVE SameMove(q) /\ Outbox!Became(q)' = Outbox!Became(q)
  BY <1>3, <1>4, <1>7, BecameIs, BecameNext DEF SameMove, OutboxInv, WhatBecame
<1> QED
  BY <1>3, <1>7, <1>8 DEF Outbox!Moves, SameMove

(* What changes no row but those nobody has in hand, and leaves the flushes *)
(* at their rows, changes no move.                                         *)
LEMMA OutboxQuietStep ==
  ASSUME OutboxInv, UNCHANGED jira, sending' \in [Flush -> OutboxFlushType], rows' \in Seq(RowType), Outbox!Ids' = Outbox!Ids,
         \A h \in Flush : sending'[h] = sending[h] \/ ({sending[h].at, sending'[h].at} \cap OutboxBusy = {} /\ NamesARow(h)'),
         \A r \in Outbox!Ids :
           \/ rows'[r] = rows[r]
           \/ /\ SameMove(r) /\ rows'[r].done = rows[r].done /\ rows'[r].result = rows[r].result
              /\ rows'[r].claim = rows[r].claim \/ \A h \in Flush : ~OutboxWorks(h, r)
  PROVE  OutboxInv' /\ Promised
<1>1. ASSUME NEW h \in Flush, NEW q PROVE OutboxWorks(h, q)' <=> OutboxWorks(h, q)
  BY DEF OutboxWorks
<1>2. OutboxTypes'
  <2>1. ASSUME NEW h \in Flush PROVE NamesARow(h)'
    BY DEF OutboxInv, OutboxTypes, NamesARow
  <2> QED
    BY <2>1 DEF OutboxInv, OutboxTypes
<1>3. \A r \in Outbox!Ids : SameMove(r) /\ rows'[r].done = rows[r].done /\ rows'[r].result = rows[r].result
  BY DEF SameMove
<1>4. ASSUME NEW h \in Flush, (sending[h].at \in OutboxBusy)' \/ sending[h].at \in OutboxBusy
      PROVE  sending[h].row \in Outbox!Ids /\ sending'[h] = sending[h]
  BY <1>4, OutboxInHand
<1>5. ASSUME NEW h \in Flush PROVE OutboxLeased(h)'
  <2>1. SUFFICES ASSUME (sending[h].at \in OutboxBusy)' PROVE Outbox!Row(h)'.claim = "held" /\ ~Outbox!Row(h)'.done
    BY DEF OutboxLeased
  <2>2. sending[h].row \in Outbox!Ids /\ sending'[h] = sending[h] /\ OutboxWorks(h, sending[h].row)
    BY <1>4, <2>1 DEF OutboxWorks
  <2>3. Outbox!Row(h).claim = "held" /\ ~Outbox!Row(h).done
    BY <2>1, <2>2 DEF OutboxInv, OutboxLeased
  <2> QED
    BY <1>3, <2>2, <2>3 DEF Outbox!Row
<1>6. OutboxAlone'
  BY <1>1 DEF OutboxInv, OutboxAlone
<1>7. \A r \in Outbox!Ids : Delivering(r)' <=> Delivering(r)
  BY <1>3, <1>4 DEF Delivering, OutboxBusy
<1>8. ASSUME NEW h \in Flush PROVE InOrder(h)'
  <2>1. SUFFICES ASSUME (sending[h].at \in {"older", "read", "post"})',
                        NEW q \in Outbox!Ids, (q > sending[h].row /\ rows[q].key = Outbox!Row(h).key)'
                 PROVE  ~Delivering(q)'
    BY DEF InOrder
  <2>2. sending[h].row \in Outbox!Ids /\ sending'[h] = sending[h]
    BY <1>4, <2>1 DEF OutboxBusy
  <2>3. q > sending[h].row /\ rows[q].key = Outbox!Row(h).key
    BY <1>3, <2>1, <2>2 DEF Outbox!Row, SameMove
  <2> QED
    BY <1>7, <2>1, <2>2, <2>3 DEF OutboxInv, InOrder
<1>9. OutboxInv'
  BY <1>2, <1>5, <1>6, <1>8 DEF OutboxInv
<1>10. ASSUME NEW r \in Outbox!Ids PROVE Outbox!Became(r)' = Outbox!Became(r)
  BY <1>1, <1>2, <1>3, BecameIs, BecameNext DEF OutboxInv, WhatBecame
<1> QED
  BY <1>3, <1>9, <1>10, MovesStay
-----------------------------------------------------------------------------
(* Every step keeps the invariant and the promise.                         *)

(* Steps of a flush that has no row in hand, neither before nor after.     *)
LEMMA OutboxRestStep ==
  ASSUME OutboxInv, NEW f \in Flush, sending[f].at \notin OutboxBusy, NEW g \in OutboxFlushType,
         g.at \in {"idle", "sweep", "next"}, g.row = 0, Outbox!Go(f, g), UNCHANGED <<rows, jira>>
  PROVE  OutboxInv' /\ Promised
<1>1. /\ sending' \in [Flush -> OutboxFlushType]
      /\ sending'[f] = g /\ \A h \in Flush \ {f} : sending'[h] = sending[h]
  BY OutboxGoKeeps DEF OutboxInv
<1>2. g.at \notin OutboxBusy /\ NamesARow(f)'
  BY <1>1 DEF NamesARow, OutboxBusy, Delivered
<1>3. rows' \in Seq(RowType) /\ Outbox!Ids' = Outbox!Ids
  BY DEF OutboxInv, OutboxTypes, Outbox!Ids
<1>4. \A h \in Flush : sending'[h] = sending[h] \/ ({sending[h].at, sending'[h].at} \cap OutboxBusy = {} /\ NamesARow(h)')
  BY <1>1, <1>2
<1> QED
  BY <1>1, <1>3, <1>4, OutboxQuietStep

LEMMA OutboxRestKeeps ==
  ASSUME OutboxInv, NEW f \in Flush,
         \/ Outbox!SelectDue(f) \/ Outbox!EndFlush(f) \/ Outbox!GaveUp(f) \/ \E r \in Outbox!Ids : Outbox!LogAbandoned(f, r)
         \/ Outbox!Crash(f) /\ sending[f].at \notin OutboxBusy
  PROVE  OutboxInv' /\ Promised
<1>1. /\ sending[f] \in OutboxFlushType /\ NamesARow(f) /\ UNCHANGED <<rows, jira>> /\ Outbox!Ids \subseteq Nat
  <2>1. Outbox!Ids \subseteq Nat
    BY OutboxIdsAre DEF OutboxInv
  <2> QED
    BY <2>1 DEF OutboxInv, OutboxTypes, Outbox!SelectDue, Outbox!EndFlush, Outbox!GaveUp, Outbox!LogAbandoned, Outbox!Crash
<1>2. sending[f].at \notin OutboxBusy
  BY DEF Outbox!SelectDue, Outbox!EndFlush, Outbox!GaveUp, Outbox!LogAbandoned, Outbox!At, OutboxBusy, Delivered
<1>3. Outbox!AtRest \in OutboxFlushType /\ Outbox!AtRest.at = "idle" /\ Outbox!AtRest.row = 0
  BY DEF Outbox!AtRest, OutboxFlushType
<1>4. CASE Outbox!Go(f, Outbox!AtRest)
  BY <1>1, <1>2, <1>3, <1>4, OutboxRestStep
<1>5. CASE Outbox!SelectDue(f)
  <2> DEFINE todo == {r \in Outbox!Ids : /\ Outbox!Claimable(rows[r]) /\ rows[r].due
                                   /\ rows[r].attempts < MAX_ATTEMPTS /\ settings.writes}
             g == [Outbox!AtRest EXCEPT !.at = "sweep", !.todo = todo]
  <2>1. todo \in SUBSET Nat
    BY <1>1
  <2> HIDE DEF todo
  <2>2. g \in OutboxFlushType /\ g.at = "sweep" /\ g.row = 0
    BY <1>3, <2>1 DEF OutboxFlushType, Outbox!AtRest
  <2>3. Outbox!Go(f, g)
    BY <1>5 DEF Outbox!SelectDue, todo
  <2> HIDE DEF g
  <2> QED
    BY <1>1, <1>2, <2>2, <2>3, OutboxRestStep
<1>6. CASE Outbox!GaveUp(f)
  <2>1. Outbox!Onward(f) \in OutboxFlushType /\ Outbox!Onward(f).at = "next" /\ Outbox!Onward(f).row = 0 /\ Outbox!Go(f, Outbox!Onward(f))
    BY <1>1, <1>6 DEF Outbox!GaveUp, Outbox!Onward, OutboxFlushType
  <2> QED
    BY <1>1, <1>2, <2>1, OutboxRestStep
<1>7. CASE \E r \in Outbox!Ids : Outbox!LogAbandoned(f, r)
  <2>1. PICK r \in Outbox!Ids : Outbox!LogAbandoned(f, r)
    BY <1>7
  <2> DEFINE g == [sending[f] EXCEPT !.crashed = @ \ {r}]
  <2>2. sending[f].at = "next" /\ sending[f].row = 0
    BY <1>1, <1>2, <2>1 DEF Outbox!LogAbandoned, Outbox!At, NamesARow
  <2>3. g \in OutboxFlushType /\ g.at = "next" /\ g.row = 0 /\ Outbox!Go(f, g)
    BY <1>1, <2>1, <2>2 DEF OutboxFlushType, Outbox!LogAbandoned
  <2> HIDE DEF g
  <2> QED
    BY <1>1, <1>2, <2>3, OutboxRestStep
<1> QED
  BY <1>4, <1>5, <1>6, <1>7 DEF Outbox!EndFlush, Outbox!Crash

LEMMA OutboxSweepKeeps ==
  ASSUME OutboxInv, NEW f \in Flush, Outbox!Sweep(f)
  PROVE  OutboxInv' /\ Promised
<1> DEFINE g == [sending[f] EXCEPT !.at = "next", !.crashed = Outbox!Abandoned]
           Given(r) == [rows[r] EXCEPT !.claim = "none"]
<1>1. Outbox!Ids = 1..Len(rows) /\ Len(rows) \in Nat /\ sending[f] \in OutboxFlushType /\ sending[f].at = "sweep" /\ sending[f].row = 0
  BY OutboxIdsAre, LenProperties DEF OutboxInv, OutboxTypes, Outbox!Sweep, Outbox!At, NamesARow, OutboxBusy, Delivered
<1>2. ASSUME NEW r \in Outbox!Ids
      PROVE  /\ rows[r] \in RowType /\ Given(r) \in RowType
             /\ Given(r).key = rows[r].key /\ Given(r).status = rows[r].status
             /\ Given(r).done = rows[r].done /\ Given(r).result = rows[r].result
  BY OutboxRowIs DEF OutboxInv, RowType
<1>3. rows' = [r \in Outbox!Ids |-> IF r \in Outbox!Abandoned THEN Given(r) ELSE rows[r]] /\ Outbox!Go(f, g) /\ UNCHANGED jira
  BY DEF Outbox!Sweep
<1>4. Outbox!Abandoned \subseteq Outbox!Ids /\ Outbox!Abandoned \in SUBSET Nat
  BY <1>1 DEF Outbox!Abandoned
<1>5. g \in OutboxFlushType /\ g.at = "next" /\ g.row = 0
  BY <1>1, <1>4 DEF OutboxFlushType
<1> HIDE DEF g, Given
<1>6. rows' \in Seq(RowType) /\ Outbox!Ids' = Outbox!Ids
  <2>1. rows' \in [1..Len(rows) -> RowType]
    BY <1>1, <1>2, <1>3
  <2> QED
    BY <1>1, <2>1, IsASeq DEF Outbox!Ids
<1>7. /\ sending' \in [Flush -> OutboxFlushType]
      /\ sending'[f] = g /\ \A h \in Flush \ {f} : sending'[h] = sending[h]
  BY <1>3, <1>5, OutboxGoKeeps DEF OutboxInv
<1>8. ASSUME NEW r \in Outbox!Abandoned PROVE \A h \in Flush : ~OutboxWorks(h, r)
  <2>1. r \in Outbox!Ids /\ rows[r].claim = "stale"
    BY DEF Outbox!Abandoned
  <2> QED
    BY <2>1 DEF OutboxInv, OutboxLeased, OutboxWorks, Outbox!Row
<1>9. \A h \in Flush : sending'[h] = sending[h] \/ ({sending[h].at, sending'[h].at} \cap OutboxBusy = {} /\ NamesARow(h)')
  BY <1>1, <1>5, <1>7 DEF NamesARow, OutboxBusy, Delivered
<1>10. ASSUME NEW r \in Outbox!Ids
       PROVE  \/ rows'[r] = rows[r]
              \/ /\ SameMove(r) /\ rows'[r].done = rows[r].done /\ rows'[r].result = rows[r].result
                 /\ rows'[r].claim = rows[r].claim \/ \A h \in Flush : ~OutboxWorks(h, r)
  BY <1>2, <1>3, <1>8 DEF SameMove
<1> QED
  BY <1>3, <1>6, <1>7, <1>9, <1>10, OutboxQuietStep

(* Time changes a row that nobody has in hand, or only when it is due.     *)
LEMMA OutboxClockKeeps ==
  ASSUME OutboxInv, Outbox!Clock
  PROVE  OutboxInv' /\ Promised
<1>1. PICK r \in Outbox!Ids : Outbox!LeaseRunsOut(r) \/ Outbox!ComesDue(r)
  BY DEF Outbox!Clock
<1>2. rows[r] \in RowType
  BY OutboxRowIs DEF OutboxInv
<1>3. PICK row \in RowType :
        /\ Outbox!Write(r, row) /\ row.key = rows[r].key /\ row.status = rows[r].status
        /\ row.done = rows[r].done /\ row.result = rows[r].result
        /\ row.claim = rows[r].claim \/ \A f \in Flush : ~OutboxWorks(f, r)
  <2>1. CASE Outbox!LeaseRunsOut(r)
    <3>1. [rows[r] EXCEPT !.claim = "stale"] \in RowType
      BY <1>2 DEF RowType
    <3>2. \A f \in Flush : ~OutboxWorks(f, r)
      BY <2>1, HasIsWorks DEF Outbox!LeaseRunsOut, OutboxInv
    <3> QED
      BY <1>2, <2>1, <3>1, <3>2 DEF Outbox!LeaseRunsOut, RowType
  <2>2. CASE Outbox!ComesDue(r)
    <3>1. [rows[r] EXCEPT !.due = TRUE] \in RowType
      BY <1>2 DEF RowType
    <3> QED
      BY <1>2, <2>2, <3>1 DEF Outbox!ComesDue, RowType
  <2> QED
    BY <1>1, <2>1, <2>2
<1>4. UNCHANGED <<sending, jira>>
  BY <1>1 DEF Outbox!LeaseRunsOut, Outbox!ComesDue
<1>5. /\ rows' \in Seq(RowType) /\ Outbox!Ids' = Outbox!Ids
      /\ \A q \in Outbox!Ids : rows'[q] = IF q = r THEN row ELSE rows[q]
  BY <1>3, OutboxWriteKeeps DEF OutboxInv
<1>6. sending' \in [Flush -> OutboxFlushType] /\ \A h \in Flush : sending'[h] = sending[h]
  BY <1>4 DEF OutboxInv, OutboxTypes
<1>7. ASSUME NEW q \in Outbox!Ids
      PROVE  \/ rows'[q] = rows[q]
             \/ /\ SameMove(q) /\ rows'[q].done = rows[q].done /\ rows'[q].result = rows[q].result
                /\ rows'[q].claim = rows[q].claim \/ \A h \in Flush : ~OutboxWorks(h, q)
  BY <1>3, <1>5 DEF SameMove
<1> QED
  BY <1>4, <1>5, <1>6, <1>7, OutboxQuietStep

LEMMA SettingsKeep ==
  ASSUME OutboxInv, Outbox!SaveSettings
  PROVE  OutboxInv' /\ Promised
<1>1. UNCHANGED <<rows, sending, jira>> /\ Outbox!Ids' = Outbox!Ids
  BY DEF Outbox!SaveSettings, Outbox!Ids
<1>2. rows' \in Seq(RowType) /\ sending' \in [Flush -> OutboxFlushType]
  BY <1>1 DEF OutboxInv, OutboxTypes
<1> QED
  BY <1>1, <1>2, OutboxQuietStep

LEMMA OutboxClaimKeeps ==
  ASSUME OutboxInv, NEW f \in Flush, NEW r \in Outbox!Ids, Outbox!Claim(f, r)
  PROVE  OutboxInv' /\ Promised
<1>1. /\ rows[r] \in RowType /\ sending[f] \in OutboxFlushType /\ sending[f].at = "next" /\ sending[f].row = 0 /\ UNCHANGED jira
  BY OutboxRowIs DEF OutboxInv, OutboxTypes, Outbox!Claim, Outbox!At, NamesARow, OutboxBusy, Delivered
<1>2. CASE ~Outbox!MayClaim(rows[r])
  <2> DEFINE g == [sending[f] EXCEPT !.todo = @ \ {r}]
  <2>1. g \in OutboxFlushType /\ g.at = "next" /\ g.row = 0 /\ Outbox!Go(f, g) /\ UNCHANGED rows
    BY <1>1, <1>2 DEF Outbox!Claim, OutboxFlushType
  <2> HIDE DEF g
  <2> QED
    BY <1>1, <2>1, OutboxRestStep DEF OutboxBusy, Delivered
<1>3. CASE Outbox!MayClaim(rows[r])
  <2> DEFINE row == [rows[r] EXCEPT !.attempts = @ + 1, !.claim = "held"]
             g == [sending[f] EXCEPT !.todo = @ \ {r}, !.at = "never", !.row = r, !.attempts = rows[r].attempts + 1]
  <2>1. rows[r].attempts \in Int /\ rows[r].attempts + 1 \in Int /\ r \in Nat
    BY <1>1, OutboxIdsAre DEF RowType, OutboxInv
  <2>2. /\ row \in RowType /\ row.claim = "held" /\ row.done = rows[r].done
        /\ row.key = rows[r].key /\ row.status = rows[r].status /\ row.result = rows[r].result
    BY <1>1, <2>1 DEF RowType
  <2>3. g \in OutboxFlushType /\ g.at = "never" /\ g.row = r
    BY <1>1, <2>1 DEF OutboxFlushType, OutboxBusy
  <2>4. Outbox!Write(r, row) /\ Outbox!Go(f, g)
    BY <1>1, <1>3 DEF Outbox!Claim, Outbox!Write, Outbox!Go, OutboxFlushType
  <2>5. ~rows[r].done /\ rows[r].claim # "held" /\ rows[r].result \notin Delivered
    BY <1>1, <1>3 DEF Outbox!MayClaim, Outbox!Claimable, RowType
  <2> HIDE DEF row, g
  <2>6. /\ rows' \in Seq(RowType) /\ Outbox!Ids' = Outbox!Ids
        /\ \A q \in Outbox!Ids : rows'[q] = IF q = r THEN row ELSE rows[q]
    BY <2>2, <2>4, OutboxWriteKeeps DEF OutboxInv
  <2>7. /\ sending' \in [Flush -> OutboxFlushType]
        /\ sending'[f] = g /\ \A h \in Flush \ {f} : sending'[h] = sending[h]
    BY <2>3, <2>4, OutboxGoKeeps DEF OutboxInv
  <2>8. \A h \in Flush : ~OutboxWorks(h, r)
    BY <2>5 DEF OutboxInv, OutboxLeased, OutboxWorks, Outbox!Row
  <2>9. NamesARow(f)' /\ OutboxLeased(f)' /\ InOrder(f)'
    BY <2>2, <2>3, <2>5, <2>6, <2>7 DEF NamesARow, OutboxLeased, InOrder, Outbox!Row, OutboxBusy, Delivered
  <2>10. \A q \in Outbox!Ids : OutboxWorks(f, q)' <=> q = r
    BY <2>3, <2>7 DEF OutboxWorks, OutboxBusy
  <2>11. \A q \in Outbox!Ids : Delivering(q)' => Delivering(q)
    BY <2>2, <2>3, <2>6, <2>7 DEF Delivering, Delivered
  <2>12. \A q \in Outbox!Ids : SameMove(q)
    BY <2>2, <2>6 DEF SameMove
  <2>13. OutboxInv'
    <3>1. jira' \in [Issue -> JiraStatus]
      BY <1>1 DEF OutboxInv, OutboxTypes
    <3>2. \A q \in Outbox!Ids : rows'[q] # rows[q] => \A h \in Flush \ {f} : ~OutboxWorks(h, q)
      BY <2>6, <2>8
    <3>3. \A q \in Outbox!Ids : rows'[q].key = rows[q].key
      BY <2>12 DEF SameMove
    <3> QED
      BY <2>6, <2>7, <2>8, <2>9, <2>10, <2>11, <3>1, <3>2, <3>3, OutboxFlushStep
  <2>14. ASSUME NEW q \in Outbox!Ids \ {r} PROVE Outbox!Became(q)' = Outbox!Became(q)
    <3>1. ~OutboxWorks(f, q) /\ ~OutboxWorks(f, q)'
      BY <1>1, <2>10 DEF OutboxWorks, OutboxBusy, Delivered
    <3>2. rows'[q] = rows[q] /\ \A h \in Flush : OutboxWorks(h, q)' <=> OutboxWorks(h, q)
      BY <2>6, <2>7, <3>1 DEF OutboxWorks
    <3> QED
      BY <2>6, <2>13, <3>2, BecameIs, BecameNext DEF OutboxInv, WhatBecame
  <2>15. Outbox!Became(r) = "waiting" /\ Outbox!Became(r)' = "in hand"
    <3>1. Outbox!Became(r) = WhatBecame(r) /\ Outbox!Became(r)' = WhatBecame(r)'
      BY <2>6, <2>13, BecameIs, BecameNext DEF OutboxInv
    <3>2. WhatBecame(r) = "waiting"
      BY <2>5, <2>8 DEF WhatBecame
    <3>3. WhatBecame(r)' = "in hand"
      BY <2>2, <2>5, <2>6, <2>10 DEF WhatBecame
    <3> QED
      BY <3>1, <3>2, <3>3
  <2>16. Outbox!Moves' = [Outbox!Moves EXCEPT ![r].became = Outbox!Became(r)'] /\ r \in DOMAIN Outbox!Moves /\ Outbox!Moves[r].became = Outbox!Became(r)
    BY <2>6, <2>12, <2>14, MovesBecome
  <2> QED
    BY <1>1, <2>13, <2>15, <2>16 DEF Promised, Delivery!DeliveryNext, Delivery!Take, Delivery!Becomes
<1> QED
  BY <1>2, <1>3
(* Steps of a flush with a row in hand.                                    *)

LEMMA KeepsHold ==
  ASSUME OutboxInv, NEW f \in Flush, sending[f].at \in OutboxBusy, NEW at \in OutboxBusy,
         Outbox!Go(f, [sending[f] EXCEPT !.at = at])
  PROVE  /\ sending'[f].at = at /\ sending'[f].row = sending[f].row
         /\ \A h \in Flush \ {f} : sending'[h] = sending[h]
<1>1. [sending[f] EXCEPT !.at = at] \in OutboxFlushType
  BY OutboxInHand DEF OutboxFlushType
<1> QED
  BY <1>1, OutboxGoKeeps, OutboxInHand DEF OutboxInv, OutboxFlushType

(* Looking at the row, at the issue, or failing to.                        *)
LEMMA OutboxLookKeeps ==
  ASSUME OutboxInv, NEW f \in Flush, sending[f].at \in OutboxBusy, NEW at \in OutboxBusy,
         Outbox!Go(f, [sending[f] EXCEPT !.at = at]), UNCHANGED <<rows, jira>>,
         \/ at \in {"newer", "failed"}
         \/ sending[f].at = "newer" /\ at = "older" /\ ~Outbox!SomeNewer(f)
         \/ sending[f].at = "older" /\ at = "read" /\ ~Outbox!OlderInFlight(f)
         \/ sending[f].at = "read" /\ at \in {"skipped", "post"}
  PROVE  OutboxInv' /\ Promised
<1>1. /\ sending'[f].at = at /\ sending'[f].row = sending[f].row
      /\ \A h \in Flush \ {f} : sending'[h] = sending[h]
  BY KeepsHold
<1>2. Outbox!Ids' = Outbox!Ids /\ Outbox!Row(f)' = Outbox!Row(f) /\ jira' \in [Issue -> JiraStatus]
  BY <1>1 DEF Outbox!Ids, Outbox!Row, OutboxInv, OutboxTypes
<1>3. InOrder(f)'
  <2>1. SUFFICES ASSUME at \in {"older", "read", "post"}, NEW q \in Outbox!Ids,
                        q > sending[f].row, rows[q].key = Outbox!Row(f).key
                 PROVE  ~Delivering(q)'
    BY <1>1, <1>2 DEF InOrder
  <2>2. \A g \in Flush : sending'[g].row = q => g # f
    BY <1>1, <2>1, OutboxInHand, OutboxIdsAre DEF OutboxInv
  <2>3. Delivering(q)' => Delivering(q)
    BY <1>1, <2>2 DEF Delivering
  <2>4. CASE sending[f].at \in {"older", "read"}
    BY <2>1, <2>3, <2>4 DEF OutboxInv, InOrder
  <2>5. CASE sending[f].at = "newer" /\ ~Outbox!SomeNewer(f)
    <3>1. rows[q].result = "dry_run" /\ rows[q] \in RowType
      BY <2>1, <2>5, OutboxRowIs DEF Outbox!SomeNewer, OutboxInv
    <3>2. rows[q].done /\ rows[q].result \notin Delivered
      BY <3>1 DEF RowType, Delivered
    <3>3. \A g \in Flush : ~OutboxWorks(g, q)
      BY <3>2, OutboxInHand DEF OutboxWorks, Outbox!Row
    <3> QED
      BY <2>3, <3>2, <3>3 DEF Delivering, OutboxWorks, OutboxBusy
  <2> QED
    BY <2>1, <2>4, <2>5
<1>4. \/ sending[f].at \in {"read", "post"} \cup Delivered
      \/ at \notin {"read", "post"} \cup Delivered
      \/ \A q \in Outbox!Ids : q < sending[f].row /\ rows[q].key = Outbox!Row(f).key => rows[q].done \/ rows[q].claim # "held"
  BY DEF Outbox!OlderInFlight, Delivered
<1>5. OutboxInv' /\ Outbox!Moves' = Outbox!Moves
  BY <1>2, <1>3, <1>4, OutboxHoldStep
<1> QED
  BY <1>5 DEF Promised, Delivery!vars

LEMMA SendKeeps ==
  ASSUME OutboxInv, NEW f \in Flush, Outbox!PostTransition(f)
  PROVE  OutboxInv' /\ Promised
<1>1. sending[f].at = "post" /\ sending[f].at \in OutboxBusy /\ UNCHANGED rows
  BY DEF Outbox!PostTransition, Outbox!At, OutboxBusy
<1>2. PICK at \in {"sent", "failed"} : Outbox!Go(f, [sending[f] EXCEPT !.at = at])
  BY DEF Outbox!PostTransition
<1>3. at \in OutboxBusy /\ at \notin {"older", "read", "post"}
  BY DEF OutboxBusy, Delivered
<1>4. PICK r \in Outbox!Ids : r = sending[f].row
  BY <1>1, OutboxInHand
<1>5. /\ rows[r] = Outbox!Row(f) /\ rows[r] \in RowType /\ rows[r].key \in Issue /\ rows[r].status \in JiraStatus
      /\ ~rows[r].done /\ rows[r].result \notin Delivered /\ OutboxWorks(f, r)
  BY <1>1, <1>4, OutboxInHand DEF Outbox!Row, OutboxWorks, RowType
<1>6. jira' = [jira EXCEPT ![rows[r].key] = rows[r].status]
  BY <1>5 DEF Outbox!PostTransition
<1>7. jira' \in [Issue -> JiraStatus]
  BY <1>5, <1>6 DEF OutboxInv, OutboxTypes
<1>8. InOrder(f)'
  BY <1>1, <1>2, <1>3, KeepsHold DEF InOrder
<1>9. OutboxInv' /\ Outbox!Moves' = Outbox!Moves
  BY <1>1, <1>2, <1>3, <1>7, <1>8, OutboxHoldStep
<1>10. Delivery!Send(r)
  <2>1. \A q \in Outbox!Ids : Outbox!Moves[q].key = rows[q].key /\ Outbox!Moves[q].status = rows[q].status /\ Outbox!Moves[q].became = Outbox!Became(q)
    BY DEF Outbox!Moves
  <2>2. \A q \in Outbox!Ids : Outbox!Became(q) = WhatBecame(q)
    BY BecameIs DEF OutboxInv
  <2>3. Outbox!Moves[r].became = "in hand"
    BY <1>5, <2>1, <2>2 DEF WhatBecame
  <2>4. ASSUME NEW q \in Outbox!Ids, q > r, rows[q].key = rows[r].key PROVE Outbox!Moves[q].became # "delivered"
    <3>1. ~Delivering(q)
      BY <1>1, <1>4, <1>5, <2>4 DEF OutboxInv, InOrder
    <3> QED
      BY <2>1, <2>2, <3>1 DEF WhatBecame, Delivering
  <2>5. ~Delivery!DeliveredSince(r)
    <3>1. DOMAIN Outbox!Moves = Outbox!Ids
      BY DEF Outbox!Moves
    <3> QED
      BY <2>1, <2>4, <3>1 DEF Delivery!DeliveredSince
  <2>6. jira' = [jira EXCEPT ![Outbox!Moves[r].key] = Outbox!Moves[r].status]
    BY <1>6, <2>1
  <2> QED
    BY <1>9, <2>3, <2>5, <2>6 DEF Delivery!Send
<1>11. r \in DOMAIN Outbox!Moves
  BY DEF Outbox!Moves
<1> QED
  BY <1>9, <1>10, <1>11 DEF Promised, Delivery!DeliveryNext

(* Writing what became of the row, or being killed.                        *)
LEMMA LeaveKeeps ==
  ASSUME OutboxInv, NEW f \in Flush, sending[f].at \in OutboxBusy, NEW g, NEW row,
         g \in {Outbox!AtRest, Outbox!Onward(f), [sending[f] EXCEPT !.at = "gaveUp"]},
         row \in RowType, row.key = Outbox!Row(f).key, row.status = Outbox!Row(f).status,
         row.result \in Delivered => sending[f].at \in Delivered,
         Outbox!Write(sending[f].row, row), Outbox!Go(f, g), UNCHANGED jira
  PROVE  OutboxInv' /\ Promised
<1>1. g \in OutboxFlushType /\ g.at \notin OutboxBusy /\ IF g.at = "gaveUp" THEN g.row = sending[f].row ELSE g.row = 0
  <2>1. sending[f] \in OutboxFlushType
    BY OutboxInHand
  <2>2. CASE g = Outbox!AtRest
    BY <2>2 DEF Outbox!AtRest, OutboxFlushType, OutboxBusy, Delivered
  <2>3. CASE g = Outbox!Onward(f)
    BY <2>1, <2>3 DEF Outbox!Onward, OutboxFlushType, OutboxBusy, Delivered
  <2>4. CASE g = [sending[f] EXCEPT !.at = "gaveUp"]
    BY <2>1, <2>4 DEF OutboxFlushType, OutboxBusy, Delivered
  <2> QED
    BY <2>2, <2>3, <2>4
<1> QED
  BY <1>1, LeaveStep

(* What the queries that write a row make of it.                           *)
LEMMA OutboxOutcomes ==
  ASSUME NEW row \in RowType
  PROVE  /\ \A result \in {"refused"} \cup Delivered :
              [row EXCEPT !.done = TRUE, !.claim = "none", !.result = result] \in RowType
         /\ [Outbox!Superseded(row) EXCEPT !.claim = "none"] \in RowType
         /\ [row EXCEPT !.claim = "none", !.attempts = @ - 1] \in RowType
         /\ [row EXCEPT !.claim = "none", !.due = FALSE] \in RowType
<1>1. row.attempts \in Int /\ row.attempts - 1 \in Int
  BY DEF RowType
<1>2. \A result \in {"refused"} \cup Delivered :
        [row EXCEPT !.done = TRUE, !.claim = "none", !.result = result] \in RowType
  BY DEF RowType
<1>3. [Outbox!Superseded(row) EXCEPT !.claim = "none"] \in RowType
  BY DEF RowType, Outbox!Superseded
<1>4. [row EXCEPT !.claim = "none", !.attempts = @ - 1] \in RowType
  BY <1>1 DEF RowType
<1>5. [row EXCEPT !.claim = "none", !.due = FALSE] \in RowType
  BY DEF RowType
<1> QED
  BY <1>2, <1>3, <1>4, <1>5

LEMMA DecideKeeps ==
  ASSUME OutboxInv, NEW f \in Flush,
         Outbox!CheckNever(f) \/ Outbox!CheckNewer(f) \/ Outbox!CheckOlder(f) \/ Outbox!RecordDone(f) \/ Outbox!RecordFailure(f)
         \/ (Outbox!Crash(f) /\ sending[f].at \in OutboxBusy)
  PROVE  OutboxInv' /\ Promised
<1>1. sending[f].at \in OutboxBusy /\ UNCHANGED jira
  BY DEF Outbox!CheckNever, Outbox!CheckNewer, Outbox!CheckOlder, Outbox!RecordDone, Outbox!RecordFailure, Outbox!Crash, Outbox!At, OutboxBusy, Delivered
<1>2. Outbox!Row(f) \in RowType /\ sending[f].row \in Outbox!Ids /\ Outbox!Row(f).result \notin Delivered
  BY <1>1, OutboxInHand
<1>3. CASE Outbox!CheckNever(f) /\ Outbox!Row(f).status \in settings.never
  <2> DEFINE row == [Outbox!Row(f) EXCEPT !.done = TRUE, !.claim = "none", !.result = "refused"]
  <2>1. row \in RowType /\ row.key = Outbox!Row(f).key /\ row.status = Outbox!Row(f).status /\ row.result \notin Delivered
    <3>1. row \in RowType
      BY <1>2, OutboxOutcomes
    <3>2. row.key = Outbox!Row(f).key /\ row.status = Outbox!Row(f).status /\ row.result = "refused"
      BY <1>2 DEF RowType
    <3> QED
      BY <3>1, <3>2 DEF Delivered
  <2>2. Outbox!Write(sending[f].row, row) /\ Outbox!Go(f, Outbox!Onward(f))
    BY <1>3 DEF Outbox!CheckNever
  <2> HIDE DEF row
  <2> QED
    BY <1>1, <2>1, <2>2, LeaveKeeps
<1>4. CASE Outbox!CheckNewer(f) /\ Outbox!SomeNewer(f)
  <2> DEFINE row == [Outbox!Superseded(Outbox!Row(f)) EXCEPT !.claim = "none"]
  <2>1. row \in RowType /\ row.key = Outbox!Row(f).key /\ row.status = Outbox!Row(f).status /\ row.result \notin Delivered
    <3>1. row \in RowType
      BY <1>2, OutboxOutcomes
    <3>2. row.key = Outbox!Row(f).key /\ row.status = Outbox!Row(f).status /\ row.result = "superseded"
      BY <1>2 DEF RowType, Outbox!Superseded
    <3> QED
      BY <3>1, <3>2 DEF Delivered
  <2>2. Outbox!Write(sending[f].row, row) /\ Outbox!Go(f, Outbox!Onward(f))
    BY <1>4 DEF Outbox!CheckNewer
  <2> HIDE DEF row
  <2> QED
    BY <1>1, <2>1, <2>2, LeaveKeeps
<1>5. CASE Outbox!CheckOlder(f) /\ Outbox!OlderInFlight(f)
  <2> DEFINE row == [Outbox!Row(f) EXCEPT !.claim = "none", !.attempts = @ - 1]
  <2>1. row \in RowType /\ row.key = Outbox!Row(f).key /\ row.status = Outbox!Row(f).status /\ row.result \notin Delivered
    BY <1>2, OutboxOutcomes DEF RowType
  <2>2. Outbox!Write(sending[f].row, row) /\ Outbox!Go(f, Outbox!Onward(f))
    BY <1>5 DEF Outbox!CheckOlder
  <2> HIDE DEF row
  <2> QED
    BY <1>1, <2>1, <2>2, LeaveKeeps
<1>6. CASE Outbox!RecordDone(f)
  <2> DEFINE row == [Outbox!Row(f) EXCEPT !.done = TRUE, !.claim = "none", !.result = sending[f].at]
  <2>1. sending[f].at \in Delivered
    BY <1>6 DEF Outbox!RecordDone, Outbox!At, Delivered
  <2>2. row \in RowType /\ row.key = Outbox!Row(f).key /\ row.status = Outbox!Row(f).status
    BY <1>2, <2>1, OutboxOutcomes DEF RowType
  <2>3. Outbox!Write(sending[f].row, row) /\ Outbox!Go(f, Outbox!Onward(f))
    BY <1>6 DEF Outbox!RecordDone
  <2> HIDE DEF row
  <2> QED
    BY <1>1, <2>1, <2>2, <2>3, LeaveKeeps
<1>7. CASE Outbox!RecordFailure(f)
  <2> DEFINE row == [Outbox!Row(f) EXCEPT !.claim = "none", !.due = FALSE]
             g == IF Outbox!LastAttempt(f) THEN [sending[f] EXCEPT !.at = "gaveUp"] ELSE Outbox!Onward(f)
  <2>1. row \in RowType /\ row.key = Outbox!Row(f).key /\ row.status = Outbox!Row(f).status /\ row.result \notin Delivered
    BY <1>2, OutboxOutcomes DEF RowType
  <2>2. Outbox!Write(sending[f].row, row) /\ Outbox!Go(f, g) /\ g \in {Outbox!AtRest, Outbox!Onward(f), [sending[f] EXCEPT !.at = "gaveUp"]}
    BY <1>7 DEF Outbox!RecordFailure
  <2> HIDE DEF row, g
  <2> QED
    BY <1>1, <2>1, <2>2, LeaveKeeps
<1>8. CASE Outbox!Crash(f)
  <2>1. Outbox!Write(sending[f].row, Outbox!Row(f)) /\ Outbox!Go(f, Outbox!AtRest)
    <3>1. rows' = rows /\ rows = [q \in Outbox!Ids |-> rows[q]]
      BY <1>8, IsASeq DEF Outbox!Crash, Outbox!Ids, OutboxInv, OutboxTypes
    <3> QED
      BY <1>8, <1>2, <3>1 DEF Outbox!Crash, Outbox!Write, Outbox!Row
  <2> QED
    BY <1>1, <1>2, <2>1, LeaveKeeps
<1>9. CASE Outbox!CheckNever(f) /\ Outbox!Row(f).status \notin settings.never
  BY <1>1, <1>9, OutboxLookKeeps DEF Outbox!CheckNever, OutboxBusy
<1>10. CASE Outbox!CheckNewer(f) /\ ~Outbox!SomeNewer(f)
  BY <1>1, <1>10, OutboxLookKeeps DEF Outbox!CheckNewer, Outbox!At, OutboxBusy
<1>11. CASE Outbox!CheckOlder(f) /\ ~Outbox!OlderInFlight(f)
  BY <1>1, <1>11, OutboxLookKeeps DEF Outbox!CheckOlder, Outbox!At, OutboxBusy
<1> QED
  BY <1>3, <1>4, <1>5, <1>6, <1>7, <1>8, <1>9, <1>10, <1>11

LEMMA CallKeeps ==
  ASSUME OutboxInv, NEW f \in Flush, Outbox!ReadIssue(f) \/ Outbox!CallFails(f)
  PROVE  OutboxInv' /\ Promised
<1>1. sending[f].at \in OutboxBusy /\ UNCHANGED <<rows, jira>>
  BY DEF Outbox!ReadIssue, Outbox!CallFails, Outbox!At, OutboxBusy
<1>2. CASE Outbox!CallFails(f)
  BY <1>1, <1>2, OutboxLookKeeps DEF Outbox!CallFails, OutboxBusy
<1>3. CASE Outbox!ReadIssue(f)
  <2>1. PICK at \in {"skipped", "failed", "post"} : Outbox!Go(f, [sending[f] EXCEPT !.at = at])
    BY <1>3 DEF Outbox!ReadIssue
  <2>2. at \in OutboxBusy /\ sending[f].at = "read"
    BY <1>3 DEF OutboxBusy, Delivered, Outbox!ReadIssue, Outbox!At
  <2> QED
    BY <1>1, <2>1, <2>2, OutboxLookKeeps
<1> QED
  BY <1>2, <1>3
(* A move of the item queues a row for every issue.                        *)
LEMMA OutboxQueueKeeps ==
  ASSUME OutboxInv, IssuesAssumption, Outbox!QueueJira
  PROVE  OutboxInv' /\ Promised
<1> DEFINE m == Outbox!Cardinality(Issue)
           Drops(r) == settings.writes /\ Outbox!Waiting(rows[r])
           before == [r \in Outbox!Ids |-> IF Drops(r) THEN Outbox!Superseded(rows[r]) ELSE rows[r]]
<1>1. m \in Nat \ {0}
  <2>1. m = Cardinality(Issue)
    BY DEF Outbox!Cardinality, Cardinality
  <2> QED
    BY <2>1, FS_CardinalityType, FS_EmptySet DEF IssuesAssumption
<1>2. PICK new \in [1..m -> RowType] :
        /\ rows' = before \o new
        /\ \A j \in 1..m : new[j].result \in {"none", "dry_run"}
  <2>1. PICK status \in JiraStatus : \E order \in [1..m -> Issue] :
          rows' = before \o [j \in DOMAIN order |-> IF settings.writes THEN Outbox!NewRow(order[j], status)
                                                    ELSE Outbox!DryRun(Outbox!NewRow(order[j], status))]
    BY DEF Outbox!QueueJira
  <2>2. PICK order \in [1..m -> Issue] :
          rows' = before \o [j \in DOMAIN order |-> IF settings.writes THEN Outbox!NewRow(order[j], status)
                                                    ELSE Outbox!DryRun(Outbox!NewRow(order[j], status))]
    BY <2>1
  <2> DEFINE New(k) == IF settings.writes THEN Outbox!NewRow(k, status) ELSE Outbox!DryRun(Outbox!NewRow(k, status))
             new == [j \in 1..m |-> New(order[j])]
  <2>3. ASSUME NEW k \in Issue PROVE New(k) \in RowType /\ New(k).result \in {"none", "dry_run"}
    <3>1. Outbox!NewRow(k, status) \in RowType /\ Outbox!NewRow(k, status).result = "none"
      BY DEF Outbox!NewRow, RowType, Delivered
    <3>2. \A row \in RowType : Outbox!DryRun(row) \in RowType /\ Outbox!DryRun(row).result = "dry_run"
      BY DEF Outbox!DryRun, RowType
    <3> QED
      BY <3>1, <3>2
  <2>4. rows' = before \o new
    BY <2>2
  <2> HIDE DEF New, before
  <2>5. new \in [1..m -> RowType] /\ \A j \in 1..m : new[j].result \in {"none", "dry_run"}
    BY <2>3
  <2> QED
    BY <2>4, <2>5
<1>3. Outbox!Ids = 1..Len(rows) /\ Len(rows) \in Nat
  BY OutboxIdsAre, LenProperties DEF OutboxInv, OutboxTypes
<1>4. ASSUME NEW r \in Outbox!Ids
      PROVE  /\ Outbox!Superseded(rows[r]) \in RowType /\ rows[r] \in RowType
             /\ Outbox!Superseded(rows[r]).key = rows[r].key /\ Outbox!Superseded(rows[r]).status = rows[r].status
             /\ Outbox!Superseded(rows[r]).result \notin Delivered /\ Outbox!Superseded(rows[r]).done
  BY OutboxRowIs DEF Outbox!Superseded, RowType, OutboxInv, Delivered
<1>5. before \in [1..Len(rows) -> RowType] /\ \A r \in Outbox!Ids : before[r] = IF Drops(r) THEN Outbox!Superseded(rows[r]) ELSE rows[r]
  BY <1>3, <1>4
<1> HIDE DEF before, m
<1>6. before \in Seq(RowType) /\ Len(before) = Len(rows) /\ new \in Seq(RowType) /\ Len(new) = m
  BY <1>1, <1>3, <1>5, IsASeq, LenProperties
<1>7. /\ rows' \in Seq(RowType) /\ Len(rows') = Len(rows) + m
      /\ \A r \in 1..(Len(rows) + m) : rows'[r] = IF r <= Len(rows) THEN before[r] ELSE new[r - Len(rows)]
  <2>1. /\ before \o new \in Seq(RowType) /\ Len(before \o new) = Len(before) + Len(new)
        /\ \A r \in 1..(Len(before) + Len(new)) :
             (before \o new)[r] = IF r <= Len(before) THEN before[r] ELSE new[r - Len(before)]
    BY <1>6, ConcatProperties
  <2> QED
    BY <1>2, <1>6, <2>1
<1>8. Outbox!Ids' = 1..(Len(rows) + m)
  BY <1>7, LenProperties DEF Outbox!Ids
<1>9. Outbox!Ids \subseteq Outbox!Ids' /\ \A r \in Outbox!Ids : rows'[r] = before[r]
  BY <1>1, <1>3, <1>7, <1>8
<1>10. ASSUME NEW r \in Outbox!Ids', r \notin Outbox!Ids PROVE rows'[r].result \in {"none", "dry_run"}
  <2>1. r > Len(rows) /\ r - Len(rows) \in 1..m /\ r \in 1..(Len(rows) + m)
    BY <1>1, <1>3, <1>8, <1>10
  <2> QED
    BY <1>2, <1>3, <1>7, <2>1
<1>11. UNCHANGED <<sending, jira>>
  BY DEF Outbox!QueueJira
<1>12. ASSUME NEW f \in Flush, NEW r PROVE OutboxWorks(f, r)' <=> OutboxWorks(f, r)
  BY <1>11 DEF OutboxWorks
<1>13. ASSUME NEW f \in Flush, NEW r, OutboxWorks(f, r)
       PROVE  r \in Outbox!Ids /\ rows'[r] = rows[r] /\ r = sending[f].row
  <2>1. r \in Outbox!Ids /\ rows[r].claim = "held" /\ r = sending[f].row
    BY <1>13, OutboxInHand DEF OutboxWorks, Outbox!Row
  <2> QED
    BY <1>5, <1>9, <2>1 DEF Outbox!Waiting
<1>14. OutboxTypes'
  <2>1. ASSUME NEW f \in Flush PROVE NamesARow(f)'
    BY <1>9, <1>11 DEF OutboxInv, OutboxTypes, NamesARow
  <2> QED
    BY <1>7, <1>11, <2>1 DEF OutboxInv, OutboxTypes
<1>15. ASSUME NEW f \in Flush PROVE OutboxLeased(f)'
  BY <1>11, <1>13 DEF OutboxInv, OutboxLeased, Outbox!Row, OutboxWorks
<1>16. OutboxAlone'
  BY <1>9, <1>12, <1>13 DEF OutboxInv, OutboxAlone
<1>17. ASSUME NEW q \in Outbox!Ids', Delivering(q)' PROVE q \in Outbox!Ids /\ Delivering(q)
  <2>1. CASE q \in Outbox!Ids
    <3>1. rows'[q].result \in Delivered => rows[q].result \in Delivered
      BY <1>4, <1>5, <1>9, <2>1
    <3> QED
      BY <1>11, <1>17, <2>1, <3>1 DEF Delivering
  <2>2. CASE q \notin Outbox!Ids
    <3>1. rows'[q].result \notin Delivered
      BY <1>10, <2>2 DEF Delivered
    <3>2. \E g \in Flush : OutboxWorks(g, q)
      BY <1>11, <1>17, <3>1 DEF Delivering, OutboxWorks, OutboxBusy
    <3> QED
      BY <1>13, <2>2, <3>2
  <2> QED
    BY <2>1, <2>2
<1>18. \A r \in Outbox!Ids : SameMove(r)
  BY <1>4, <1>5, <1>9 DEF SameMove
<1>19. ASSUME NEW f \in Flush PROVE InOrder(f)'
  <2>1. SUFFICES ASSUME (sending[f].at \in {"older", "read", "post"})',
                        NEW q \in Outbox!Ids', (q > sending[f].row /\ rows[q].key = Outbox!Row(f).key)', Delivering(q)'
                 PROVE  FALSE
    BY DEF InOrder
  <2>2. q \in Outbox!Ids /\ Delivering(q)
    BY <1>17, <2>1
  <2>3. sending[f].at \in {"older", "read", "post"} /\ sending[f].row \in Outbox!Ids /\ Outbox!Row(f)' = Outbox!Row(f) /\ sending'[f] = sending[f]
    BY <1>11, <1>13, <2>1 DEF Outbox!Row, OutboxWorks, OutboxBusy
  <2>4. q > sending[f].row /\ rows[q].key = Outbox!Row(f).key
    BY <1>18, <2>1, <2>2, <2>3 DEF SameMove
  <2> QED
    BY <2>2, <2>3, <2>4 DEF OutboxInv, InOrder
<1>20. OutboxInv'
  BY <1>14, <1>15, <1>16, <1>19 DEF OutboxInv
<1>21. (\A r \in Outbox!Ids : Outbox!Became(r) = WhatBecame(r)) /\ \A r \in Outbox!Ids' : Outbox!Became(r)' = WhatBecame(r)'
  BY <1>14, BecameIs, BecameNext DEF OutboxInv
<1>22. ASSUME NEW r \in Outbox!Ids, ~Drops(r) PROVE Outbox!Moves'[r] = Outbox!Moves[r]
  <2>1. rows'[r] = rows[r]
    BY <1>5, <1>9, <1>22
  <2>2. WhatBecame(r)' = WhatBecame(r)
    BY <1>12, <2>1 DEF WhatBecame
  <2> QED
    BY <1>9, <1>21, <2>1, <2>2 DEF Outbox!Moves
<1>23. ASSUME NEW r \in Outbox!Ids, Drops(r)
       PROVE  Outbox!Moves[r].became = "waiting" /\ Outbox!Moves'[r] = [Outbox!Moves[r] EXCEPT !.became = "dropped"]
  <2>1. ~rows[r].done /\ rows[r].claim = "none" /\ rows[r].result \notin Delivered /\ rows[r] \in RowType
    BY <1>23, <1>4 DEF Outbox!Waiting, RowType
  <2>2. \A f \in Flush : ~OutboxWorks(f, r)
    BY <2>1 DEF OutboxInv, OutboxLeased, OutboxWorks, Outbox!Row
  <2>3. WhatBecame(r) = "waiting"
    BY <2>1, <2>2 DEF WhatBecame
  <2>4. WhatBecame(r)' = "dropped"
    BY <1>4, <1>5, <1>9, <1>23 DEF WhatBecame
  <2> QED
    BY <1>9, <1>18, <1>21, <2>3, <2>4 DEF Outbox!Moves, SameMove
<1>24. ASSUME NEW r \in Outbox!Ids', r \notin Outbox!Ids PROVE Outbox!Moves'[r].became \in {"waiting", "dropped"}
  <2>1. rows'[r].result \notin Delivered /\ \A f \in Flush : ~OutboxWorks(f, r)'
    BY <1>10, <1>12, <1>13, <1>24 DEF Delivered
  <2>2. WhatBecame(r)' \in {"waiting", "dropped"}
    BY <2>1 DEF WhatBecame
  <2> QED
    BY <1>21, <2>2 DEF Outbox!Moves
<1>25. DOMAIN Outbox!Moves = Outbox!Ids /\ DOMAIN Outbox!Moves' = Outbox!Ids' /\ Len(Outbox!Moves') > Len(Outbox!Moves)
  <2>1. DOMAIN Outbox!Moves = 1..Len(rows) /\ DOMAIN Outbox!Moves' = 1..(Len(rows) + m)
    BY <1>3, <1>8 DEF Outbox!Moves
  <2>2. \E S : Outbox!Moves \in [1..Len(rows) -> S]
    <3>1. Outbox!Moves \in [1..Len(rows) -> {Outbox!Moves[r] : r \in 1..Len(rows)}]
      BY <1>3 DEF Outbox!Moves
    <3> QED
      BY <3>1
  <2>3. \E S : Outbox!Moves' \in [1..(Len(rows) + m) -> S]
    <3>1. Outbox!Moves' \in [1..(Len(rows) + m) -> {Outbox!Moves'[r] : r \in 1..(Len(rows) + m)}]
      BY <1>8 DEF Outbox!Moves
    <3> QED
      BY <3>1
  <2>4. Len(Outbox!Moves) = Len(rows) /\ Len(Outbox!Moves') = Len(rows) + m
    BY <1>1, <1>3, <2>1, <2>2, <2>3, IsASeq, LenProperties
  <2> QED
    BY <1>1, <1>3, <1>8, <2>1, <2>4
<1>26. Delivery!Queue
  <2>1. \A r \in DOMAIN Outbox!Moves' :
          IF r \in DOMAIN Outbox!Moves
          THEN \/ Outbox!Moves'[r] = Outbox!Moves[r]
               \/ Outbox!Moves[r].became = "waiting" /\ Outbox!Moves'[r] = [Outbox!Moves[r] EXCEPT !.became = "dropped"]
          ELSE Outbox!Moves'[r].became \in {"waiting", "dropped"}
    BY <1>22, <1>23, <1>24, <1>25
  <2> QED
    BY <1>11, <1>25, <2>1 DEF Delivery!Queue
<1> QED
  BY <1>20, <1>26 DEF Promised, Delivery!DeliveryNext

-----------------------------------------------------------------------------
(* The theorems.                                                           *)

LEMMA OutboxStart == Outbox!Init => OutboxInv /\ Delivery!DeliveryInit
<1> SUFFICES ASSUME Outbox!Init PROVE OutboxInv /\ Delivery!DeliveryInit
  OBVIOUS
<1>1. /\ rows = <<>> /\ Outbox!Ids = {} /\ sending = [f \in Flush |-> Outbox!AtRest] /\ jira \in [Issue -> JiraStatus]
  BY EmptySeq DEF Outbox!Init, Outbox!Ids
<1>2. Outbox!AtRest \in OutboxFlushType /\ Outbox!AtRest.at = "idle" /\ Outbox!AtRest.row = 0
  BY DEF Outbox!AtRest, OutboxFlushType
<1>3. OutboxInv
  BY <1>1, <1>2, EmptySeq DEF OutboxInv, OutboxTypes, NamesARow, OutboxLeased, OutboxAlone, InOrder, OutboxBusy, Delivered
<1>4. Outbox!Moves = <<>>
  BY <1>1 DEF Outbox!Moves
<1> QED
  BY <1>1, <1>3, <1>4 DEF Delivery!DeliveryInit

LEMMA OutboxStep ==
  ASSUME OutboxInv, IssuesAssumption, [Outbox!Next]_(Outbox!vars)
  PROVE  OutboxInv' /\ Promised
<1>1. CASE UNCHANGED Outbox!vars
  <2>1. UNCHANGED <<rows, sending, jira>> /\ Outbox!Ids' = Outbox!Ids
    BY <1>1 DEF Outbox!vars, Outbox!Ids
  <2>2. rows' \in Seq(RowType) /\ sending' \in [Flush -> OutboxFlushType]
    BY <2>1 DEF OutboxInv, OutboxTypes
  <2> QED
    BY <2>1, <2>2, OutboxQuietStep
<1>2. ASSUME NEW f \in Flush, Outbox!Step(f) \/ Outbox!CallFails(f) \/ Outbox!Crash(f) PROVE OutboxInv' /\ Promised
  <2>1. CASE \E r \in Outbox!Ids : Outbox!Claim(f, r)
    BY <2>1, OutboxClaimKeeps
  <2>2. CASE Outbox!Crash(f) \/ \E r \in Outbox!Ids : Outbox!LogAbandoned(f, r)
    BY <2>2, OutboxRestKeeps, DecideKeeps
  <2>3. CASE Outbox!SelectDue(f) \/ Outbox!EndFlush(f) \/ Outbox!GaveUp(f) \/ Outbox!Sweep(f) \/ Outbox!PostTransition(f)
    BY <2>3, OutboxRestKeeps, OutboxSweepKeeps, SendKeeps
  <2>4. CASE Outbox!CheckNever(f) \/ Outbox!CheckNewer(f) \/ Outbox!CheckOlder(f) \/ Outbox!RecordDone(f) \/ Outbox!RecordFailure(f)
    <3>1. Outbox!CheckNever(f) \/ Outbox!CheckNewer(f) \/ Outbox!CheckOlder(f) \/ Outbox!RecordDone(f) \/ Outbox!RecordFailure(f)
          \/ (Outbox!Crash(f) /\ sending[f].at \in OutboxBusy)
      BY <2>4
    <3> QED
      BY <3>1, DecideKeeps
  <2>5. CASE Outbox!ReadIssue(f) \/ Outbox!CallFails(f)
    BY <2>5, CallKeeps
  <2> QED
    BY <1>2, <2>1, <2>2, <2>3, <2>4, <2>5 DEF Outbox!Step
<1> QED
  BY <1>1, <1>2, OutboxQueueKeeps, SettingsKeep, OutboxClockKeeps DEF Outbox!Next

(* A flush has a row in hand under its lease, alone.                       *)
LEMMA OutboxGives == OutboxInv => Outbox!OneSender
<1> SUFFICES ASSUME OutboxInv, NEW r \in Outbox!Ids, NEW f \in Flush, Outbox!Has(f, r)
             PROVE  rows[r].claim = "held" /\ ~rows[r].done /\ \A g \in Flush : Outbox!Has(g, r) => f = g
  BY DEF Outbox!OneSender
<1>1. OutboxWorks(f, r)
  BY HasIsWorks DEF OutboxInv
<1> QED
  BY <1>1, HasIsWorks DEF OutboxInv, OutboxLeased, Outbox!Row, OutboxWorks, OutboxAlone

(* The invariant holds in every reachable state, and no two flushes ever   *)
(* have one row in hand.                                                   *)
THEOREM OutboxInvariance ==
  ASSUME IssuesAssumption
  PROVE  Outbox!Spec => [](OutboxInv /\ Outbox!OneSender)
  BY OutboxStart, OutboxStep, OutboxGives, PTL DEF Outbox!Spec

(* Whatever flushes do, time out and are killed at, the outbox keeps what  *)
(* JiraDelivery promises: no older move of an issue reaches Jira after a   *)
(* newer one was delivered.                                                *)
THEOREM DeliversInOrder ==
  ASSUME IssuesAssumption
  PROVE  Outbox!Spec => Delivery!DeliverySpec
<1>1. OutboxInv /\ [Outbox!Next]_(Outbox!vars) => [Delivery!DeliveryNext]_(Delivery!vars)
  BY OutboxStep DEF Promised
<1> QED
  BY <1>1, OutboxStart, OutboxInvariance, PTL DEF Outbox!Spec, Delivery!DeliverySpec
=============================================================================
