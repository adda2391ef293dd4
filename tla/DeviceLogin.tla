----------------------------- MODULE DeviceLogin ------------------------------
(***************************************************************************)
(* Signing a command line in through the browser (server/lib/devices.ts,   *)
(* its routes, and cmd_login of todo/cli.py).  A CLI opens a login and     *)
(* polls for its token; a signed-in person approves or denies the code the *)
(* CLI shows.  A poll reads the login and then writes in a query of its    *)
(* own, so the polls of one login may overlap: one whose answer was lost   *)
(* is still at work when the next arrives.                                 *)
(***************************************************************************)
EXTENDS Naturals, FiniteSets

CONSTANTS
  Code,      \* logins that may be opened; the device code stands for its user code
  Person,    \* who may approve and deny
  Poll,      \* polls of one login that may be at work at once
  NoOne,
  MAX_PENDING_LOGINS,
  MaxPolls   \* bound: polls begun

VARIABLES
  logins,    \* device_logins: code -> NoOne while open, or its approver; no row, not in the domain
  live,      \* rows that have not expired
  polled,    \* rows with a last_poll that is recent enough to slow the next one down
  tokens,    \* api_tokens: [code, handle, n], n by order of creation
  poll,      \* poll -> where it is
  cli,       \* code -> what the command line that opened it knows
  yes,       \* what people were told: approved [code, handle]
  no,        \* logins that a denial removed
  begun      \* polls begun

vars == <<logins, live, polled, tokens, poll, cli, yes, no, begun>>

Idle == [at |-> "idle", code |-> NoOne, handle |-> NoOne]

Init ==
  /\ logins = [c \in {} |-> NoOne] /\ live = {} /\ polled = {} /\ tokens = {}
  /\ poll = [p \in Poll |-> Idle]
  /\ cli = [c \in Code |-> "none"]
  /\ yes = {} /\ no = {} /\ begun = 0

Rows == DOMAIN logins
Keep(codes) == logins' = [c \in codes |-> logins[c]]
Goes(p, q) == poll' = [poll EXCEPT ![p] = q]

-----------------------------------------------------------------------------

(* The three queries of a start, in one step: starts that overlap may only *)
(* leave more logins waiting than the limit allows.                        *)
Pruned == Rows \cap live

StartLogin(c) ==
  /\ cli[c] = "none"
  /\ IF Cardinality(Pruned) >= MAX_PENDING_LOGINS
     THEN /\ Keep(Pruned)
          /\ cli' = [cli EXCEPT ![c] = "failed"]
          /\ UNCHANGED live
     ELSE /\ logins' = [x \in Pruned \cup {c} |-> IF x = c THEN NoOne ELSE logins[x]]
          /\ live' = live \cup {c}
          /\ cli' = [cli EXCEPT ![c] = "polls"]
  /\ polled' = polled \cap Pruned
  /\ UNCHANGED <<tokens, poll, yes, no, begun>>

(* A login nobody approved in ten minutes, or approved but not collected.  *)
Expire(c) ==
  /\ c \in Rows \cap live
  /\ live' = live \ {c}
  /\ UNCHANGED <<logins, polled, tokens, poll, cli, yes, no, begun>>

MayApprove(c) == c \in Rows \cap live /\ logins[c] = NoOne

ApproveLogin(u, c) ==
  /\ MayApprove(c)
  /\ logins' = [logins EXCEPT ![c] = u]
  /\ yes' = yes \cup {[code |-> c, handle |-> u]}
  /\ UNCHANGED <<live, polled, tokens, poll, cli, no, begun>>

(* A denial removes a login nobody has approved yet, live or not.          *)
DenyLogin(c) ==
  /\ c \in Rows /\ logins[c] = NoOne
  /\ Keep(Rows \ {c})
  /\ no' = no \cup {c}
  /\ UNCHANGED <<live, polled, tokens, poll, cli, yes, begun>>

-----------------------------------------------------------------------------
(* A poll, from its first query to its answer.                             *)

(* A command line polls one at a time; a repeated request may overtake it. *)
PollLogin(p, c) ==
  /\ poll[p].at = "idle" /\ cli[c] = "polls" /\ begun < MaxPolls
  /\ begun' = begun + 1
  /\ LET at == IF c \notin Rows \cap live THEN "expired"
               ELSE IF c \in polled THEN "slow_down"
               ELSE IF logins[c] = NoOne THEN "touch" ELSE "take"
     IN  Goes(p, [at |-> at, code |-> c, handle |-> IF at = "take" THEN logins[c] ELSE NoOne])
  /\ UNCHANGED <<logins, live, polled, tokens, cli, yes, no>>

Touch(p) ==
  /\ poll[p].at = "touch"
  /\ polled' = polled \cup ({poll[p].code} \cap Rows)
  /\ Goes(p, [poll[p] EXCEPT !.at = "pending"])
  /\ UNCHANGED <<logins, live, tokens, cli, yes, no, begun>>

(* Mutant: what the poll read decides, not what its delete returned.       *)
WasApproved(p) == TRUE

StillApproved(p) == poll[p].code \in Rows /\ logins[poll[p].code] # NoOne

(* The delete hands the login to one poll.                                 *)
Take(p) ==
  /\ poll[p].at = "take"
  /\ IF StillApproved(p)
     THEN /\ Keep(Rows \ {poll[p].code})
          /\ Goes(p, [poll[p] EXCEPT !.at = "issue"])
     ELSE /\ Goes(p, [poll[p] EXCEPT !.at = "expired"])
          /\ UNCHANGED logins
  /\ UNCHANGED <<live, polled, tokens, cli, yes, no, begun>>

IssueToken(p) ==
  /\ poll[p].at = "issue"
  /\ tokens' = tokens \cup {[code |-> poll[p].code, handle |-> poll[p].handle, n |-> Cardinality(tokens)]}
  /\ Goes(p, [poll[p] EXCEPT !.at = "approved"])
  /\ UNCHANGED <<logins, live, polled, cli, yes, no, begun>>

(* The answer comes back, to a command line that still waits; any answer   *)
(* but pending and slow_down ends its polling.                             *)
Answered(at) ==
  CASE at = "approved" -> "signed in" [] at = "expired" -> "failed" [] OTHER -> "polls"

Answer(p) ==
  /\ poll[p].at \in {"expired", "slow_down", "pending", "approved"}
  /\ cli' = [cli EXCEPT ![poll[p].code] = IF @ = "polls" THEN Answered(poll[p].at) ELSE @]
  /\ Goes(p, Idle)
  /\ UNCHANGED <<logins, live, polled, tokens, yes, no, begun>>

(* The server stops or the answer is lost.  The command line ends on an    *)
(* error, unless what was lost was a repetition of its request.            *)
LosePoll(p) ==
  /\ poll[p].at # "idle"
  /\ \E gone \in {"polls", "failed"} : cli' = [cli EXCEPT ![poll[p].code] = IF @ = "polls" THEN gone ELSE @]
  /\ Goes(p, Idle)
  /\ UNCHANGED <<logins, live, polled, tokens, yes, no, begun>>

(* Two seconds after a poll the next is welcome; nobody approved in time.  *)
PollIsOld(c) ==
  /\ c \in polled
  /\ polled' = polled \ {c}
  /\ UNCHANGED <<logins, live, tokens, poll, cli, yes, no, begun>>

GiveUp(c) ==
  /\ cli[c] = "polls"
  /\ cli' = [cli EXCEPT ![c] = "failed"]
  /\ UNCHANGED <<logins, live, polled, tokens, poll, yes, no, begun>>

(* A revoked token stays here as nobody's.                                 *)
RevokeApiToken(t) ==
  /\ t \in tokens
  /\ tokens' = {[x EXCEPT !.handle = IF x = t THEN NoOne ELSE @] : x \in tokens}
  /\ UNCHANGED <<logins, live, polled, poll, cli, yes, no, begun>>

Next ==
  \/ \E c \in Code : StartLogin(c) \/ Expire(c) \/ DenyLogin(c) \/ PollIsOld(c) \/ GiveUp(c)
  \/ \E c \in Code, u \in Person : ApproveLogin(u, c)
  \/ \E c \in Code, p \in Poll : PollLogin(p, c)
  \/ \E p \in Poll : Touch(p) \/ Take(p) \/ IssueToken(p) \/ Answer(p) \/ LosePoll(p)
  \/ \E t \in tokens : RevokeApiToken(t)

Spec == Init /\ [][Next]_vars

-----------------------------------------------------------------------------

(* A login gives one token at most, however its polls overlap; the token   *)
(* is of the one person who was told the login is approved, and a login    *)
(* whose denial was carried out gives none.                                *)
OneTokenPerLogin ==
  /\ \A s, t \in tokens : s.code = t.code => s = t
  /\ \A t \in tokens :
       /\ t.code \notin no
       /\ \E y \in yes : y.code = t.code /\ t.handle \in {y.handle, NoOne}
  /\ \A x, y \in yes : x.code = y.code => x = y
=============================================================================
