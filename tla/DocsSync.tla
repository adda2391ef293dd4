------------------------------ MODULE DocsSync ------------------------------
(***************************************************************************)
(* The docs of one item, in stores and on the server (todo/sync.py's docs  *)
(* section, todo/docs.py, server/lib/docs.ts).  People edit files in a     *)
(* store's docs directory with any program, at any time; a store's sidecar *)
(* remembers for each name the content the server last confirmed (base).   *)
(* A round brings the changed docs of the feed, which wait in the snapshot *)
(* until their bytes are fetched, then uploads what differs from its base. *)
(*                                                                         *)
(* Contents are numbered as people write them; 0 is no content.  A name is *)
(* a sequence: Append(name, i) is a conflict copy of name.  One user works *)
(* in all stores.  Requests are a step each, with what the store does on   *)
(* the answer.  The feed's pages are the matter of ChangeFeed.             *)
(***************************************************************************)
EXTENDS Naturals, Sequences, FiniteSets, Functions, FiniteSetsExt

CONSTANTS
  Store,
  MaxEvents           \* bound: writes and deletes by people, failures, kills and damaged sidecars

VARIABLES
  server,      \* name -> [there, content]: a doc, or the tombstone of one
  unseen,      \* store -> names that changed past its cursor
  files,       \* store -> name -> content
  meta,        \* store -> name -> base, in the sidecar
  damaged,     \* stores whose sidecar could not be read, to be rebuilt
  saved,       \* store -> the changes that wait in the snapshot, on disk
  round,       \* store -> where its round is, and its variables
  superseded,  \* contents that a person replaced or deleted, having them before him
  overrun,     \* history: contents a fetch wrote over that came into the file while it ran
  used

vars == <<server, unseen, files, meta, damaged, saved, round, superseded, overrun, used>>

Empty == <<>>
Has(f, n) == n \in DOMAIN f
ValueAt(f, n) == IF Has(f, n) THEN f[n] ELSE 0
With(f, n, v) == [m \in DOMAIN f \cup {n} |-> IF m = n THEN v ELSE f[m]]
Without(f, n) == Restrict(f, DOMAIN f \ {n})

AtRest == [at |-> "idle", then |-> "idle", todo |-> {}, doc |-> Empty, content |-> 0,
           waiting |-> Empty, meta |-> Empty, recreated |-> {},
           raced |-> {}]     \* history: what people wrote into the file whose bytes are on the way

Init ==
  /\ server = Empty
  /\ unseen = [s \in Store |-> {}]
  /\ files = [s \in Store |-> Empty] /\ meta = [s \in Store |-> Empty] /\ saved = [s \in Store |-> Empty]
  /\ damaged = {}
  /\ round = [s \in Store |-> AtRest]
  /\ superseded = {} /\ overrun = {}
  /\ used = [contents |-> 0, deletes |-> 0, damages |-> 0, failures |-> 0]

At(s, at) == round[s].at = at
Set(v, s, x) == [v EXCEPT ![s] = x]
Happens(what) ==
  /\ used.contents + used.deletes + used.damages + used.failures < MaxEvents
  /\ used' = [used EXCEPT ![what] = @ + 1]
There(n) == Has(server, n) /\ server[n].there
Current(n) == IF There(n) THEN server[n].content ELSE 0
Knowingly(content) == superseded' = superseded \cup ({content} \ {0})

-----------------------------------------------------------------------------
(***************************************************************************)
(* People.                                                                 *)
(***************************************************************************)

Fetching(s, n) == At(s, "fetch") /\ round[s].doc = n

EditFile(s) ==
  /\ Happens("contents")
  /\ \E n \in {Empty} \cup DOMAIN files[s] :
       /\ files' = Set(files, s, With(files[s], n, used.contents + 1))
       /\ Knowingly(ValueAt(files[s], n))
       /\ round' = Set(round, s, [round[s] EXCEPT !.raced = @ \cup {c \in {used.contents + 1} : Fetching(s, n)}])
  /\ UNCHANGED <<server, unseen, meta, damaged, saved, overrun>>

DeleteFile(s) ==
  /\ Happens("deletes")
  /\ \E n \in DOMAIN files[s] :
       /\ files' = Set(files, s, Without(files[s], n))
       /\ Knowingly(files[s][n])
  /\ UNCHANGED <<server, unseen, meta, damaged, saved, round, overrun>>

(* A sidecar that cannot be read is put aside.                             *)
Damage(s) ==
  /\ Happens("damages")
  /\ ~At(s, "push") /\ ~At(s, "record") /\ ~At(s, "remove")
  /\ meta[s] # Empty
  /\ meta' = Set(meta, s, Empty) /\ damaged' = damaged \cup {s}
  /\ UNCHANGED <<server, unseen, files, saved, round, superseded, overrun>>

(* Every write of the server's is a change in the feed.                    *)
Tell(n) == unseen' = [s \in Store |-> unseen[s] \cup {n}]
Put(n, content) == server' = With(server, n, [there |-> TRUE, content |-> content]) /\ Tell(n)
TakeOff(n) == server' = With(server, n, [there |-> FALSE, content |-> Current(n)]) /\ Tell(n)

(* The dashboard's upload and delete name the content the page showed.     *)
OnDashboard ==
  /\ \/ Happens("contents") /\ Put(Empty, used.contents + 1)
     \/ There(Empty) /\ Happens("deletes") /\ TakeOff(Empty)
  /\ Knowingly(Current(Empty))
  /\ UNCHANGED <<files, meta, damaged, saved, round, overrun>>

-----------------------------------------------------------------------------
(***************************************************************************)
(* A round begins.  Where it can fail, it saves what it has.               *)
(***************************************************************************)

(* A round may only push: it asks the feed for nothing.                    *)
Begin(s) ==
  /\ At(s, "idle")
  /\ \E names \in {{}, unseen[s]} :
       LET waiting == [n \in names \cup DOMAIN saved[s] |-> IF n \in names THEN server[n] ELSE saved[s][n]]
       IN  /\ saved' = Set(saved, s, waiting)
           /\ unseen' = Set(unseen, s, unseen[s] \ names)
           /\ round' = Set(round, s, [AtRest EXCEPT !.at = IF s \in damaged THEN "rebuild" ELSE "pull", !.then = "push",
                                        !.waiting = waiting, !.meta = meta[s],
                                        !.todo = IF s \in damaged THEN DOMAIN files[s] ELSE DOMAIN waiting])
  /\ UNCHANGED <<server, files, meta, damaged, superseded, overrun, used>>

(* A command that shows docs writes the waiting changes first.             *)
FetchForCommand(s) ==
  /\ At(s, "idle") /\ saved[s] # Empty
  /\ round' = Set(round, s, [AtRest EXCEPT !.at = "pull", !.then = "end", !.waiting = saved[s], !.todo = DOMAIN saved[s]])
  /\ UNCHANGED <<server, unseen, files, meta, damaged, saved, superseded, overrun, used>>

(* Mutant: what was not fetched is not remembered.                         *)
NothingWaits(s) == Empty

(* What was not fetched this time waits for the next round.                *)
StillWaiting(s) == round[s].waiting

EndRound(s) ==
  /\ At(s, "end")
  /\ saved' = Set(saved, s, StillWaiting(s))
  /\ round' = Set(round, s, AtRest)
  /\ UNCHANGED <<server, unseen, files, meta, damaged, superseded, overrun, used>>

Go(s, r) == round' = Set(round, s, r)
Done(s, n) == [round[s] EXCEPT !.at = "pull", !.todo = @ \ {n}, !.waiting = Without(@, n)]
Later(s, n) == [round[s] EXCEPT !.at = "pull", !.todo = @ \ {n}]

(* A conflict copy's name: the first that is free.                         *)
CopyOf(s, n) ==
  Append(n, Min({i \in 1..(Cardinality(DOMAIN files[s] \cup DOMAIN meta[s]) + 1) :
                   ~Has(files[s], Append(n, i)) /\ ~Has(meta[s], Append(n, i))}))

(* Mutant: the local file stays, to be written over.                       *)
LeftAsIs(s, n) == files[s]

(* The local file n moves aside, as a doc of its own.                      *)
KeptAsConflict(s, n) == With(Without(files[s], n), CopyOf(s, n), files[s][n])

(* The sidecar is rebuilt from the server's records: the same content is   *)
(* unchanged; a doc deleted there goes by the pull, or moves aside if it   *)
(* was edited.                                                             *)
Rebuild(s) ==
  /\ At(s, "rebuild")
  /\ \E n \in round[s].todo :
       LET r       == [round[s] EXCEPT !.todo = @ \ {n}]
           deleted == Has(r.waiting, n) /\ ~r.waiting[n].there
           content == ValueAt(files[s], n)
           known   == content = IF There(n) THEN Current(n) ELSE IF deleted THEN r.waiting[n].content ELSE 0
           dropped == Without(r.meta, n)
       IN  IF deleted /\ content \notin {0, r.waiting[n].content}
           THEN /\ files' = Set(files, s, KeptAsConflict(s, n)) /\ meta' = Set(meta, s, dropped)
                /\ Go(s, [r EXCEPT !.meta = dropped])
           ELSE /\ Go(s, [r EXCEPT !.meta = IF content = 0 THEN @ ELSE IF known THEN With(@, n, content) ELSE dropped])
                /\ UNCHANGED <<files, meta>>
  /\ UNCHANGED <<server, unseen, damaged, saved, superseded, overrun, used>>

EndRebuild(s) ==
  /\ At(s, "rebuild") /\ round[s].todo = {}
  /\ meta' = Set(meta, s, round[s].meta)
  /\ damaged' = damaged \ {s}
  /\ Go(s, [round[s] EXCEPT !.at = "pull", !.todo = DOMAIN round[s].waiting])
  /\ UNCHANGED <<server, unseen, files, saved, superseded, overrun, used>>

-----------------------------------------------------------------------------
(***************************************************************************)
(* Pull: the changes that wait, one after another.                         *)
(***************************************************************************)

(* What lies here is what the server last confirmed.                       *)
Unedited(content, base) == content = base

(* The doc is gone there: it goes here, unless it was edited since.        *)
PullDeletion(s, n) ==
  LET content == ValueAt(files[s], n)
  IN  /\ files' = IF Unedited(content, ValueAt(meta[s], n)) THEN Set(files, s, Without(files[s], n)) ELSE files
      /\ meta' = Set(meta, s, Without(meta[s], n))
      /\ Go(s, Done(s, n))

(* The change is this store's own, or one it has already.                  *)
Confirmed(s, n) == round[s].waiting[n].content = ValueAt(meta[s], n)

(* The doc is another there: an edited file moves aside, then the bytes    *)
(* are fetched.                                                            *)
PullContent(s, n) ==
  LET there == round[s].waiting[n].content
      content == ValueAt(files[s], n)
      base == ValueAt(meta[s], n)
  IN  \/ Confirmed(s, n) /\ Go(s, Done(s, n)) /\ UNCHANGED <<files, meta>>
      \/ ~Confirmed(s, n) /\ content = there /\ meta' = Set(meta, s, With(meta[s], n, there)) /\ Go(s, Done(s, n)) /\ UNCHANGED files
      \/ /\ ~Confirmed(s, n) /\ content # there
         /\ Go(s, [round[s] EXCEPT !.at = "fetch", !.doc = n, !.raced = {}])
         /\ IF content \in {0, base} THEN UNCHANGED <<files, meta>>
            ELSE files' = Set(files, s, KeptAsConflict(s, n)) /\ meta' = Set(meta, s, Without(meta[s], n))

Pull(s) ==
  /\ At(s, "pull")
  /\ \E n \in round[s].todo :
       IF s \in damaged THEN Go(s, Later(s, n)) /\ UNCHANGED <<files, meta>>
       ELSE IF round[s].waiting[n].there THEN PullContent(s, n) ELSE PullDeletion(s, n)
  /\ UNCHANGED <<server, unseen, damaged, saved, superseded, overrun, used>>

(* The bytes are those the server has now; others than the change named    *)
(* wait for their own change.  What lies in the file by now is replaced.   *)
Fetch(s) ==
  /\ At(s, "fetch")
  /\ LET n == round[s].doc IN
     \/ ~There(n) /\ Go(s, Done(s, n)) /\ UNCHANGED <<files, meta, overrun>>
     \/ There(n) /\ Current(n) # round[s].waiting[n].content /\ Go(s, Later(s, n)) /\ UNCHANGED <<files, meta, overrun>>
     \/ /\ There(n) /\ Current(n) = round[s].waiting[n].content
        /\ files' = Set(files, s, With(files[s], n, Current(n)))
        /\ meta' = Set(meta, s, With(meta[s], n, Current(n)))
        /\ overrun' = overrun \cup ({ValueAt(files[s], n)} \cap round[s].raced)
        /\ Go(s, Done(s, n))
  /\ UNCHANGED <<server, unseen, damaged, saved, superseded, used>>

EndPull(s) ==
  /\ At(s, "pull") /\ round[s].todo = {}
  /\ Go(s, IF round[s].then = "push"
           THEN [round[s] EXCEPT !.at = "push", !.meta = meta[s], !.todo = DOMAIN meta[s] \cup DOMAIN files[s]]
           ELSE [round[s] EXCEPT !.at = "end"])
  /\ UNCHANGED <<server, unseen, files, meta, damaged, saved, superseded, overrun, used>>

-----------------------------------------------------------------------------
(***************************************************************************)
(* Push: the sidecar is in memory, written at the end and with every       *)
(* conflict copy.                                                          *)
(***************************************************************************)

BaseOf(s, n) == ValueAt(round[s].meta, n)
Pushed(s, n, m) == [round[s] EXCEPT !.at = "push", !.todo = @ \ {n}, !.meta = m]

PushDoc(s) ==
  /\ At(s, "push")
  /\ \E n \in round[s].todo :
       \/ Has(files[s], n) /\ files[s][n] = BaseOf(s, n) /\ Go(s, Pushed(s, n, round[s].meta))
       \/ Has(files[s], n) /\ files[s][n] # BaseOf(s, n) /\ Go(s, [round[s] EXCEPT !.at = "record", !.doc = n, !.content = files[s][n]])
       \/ ~Has(files[s], n) /\ BaseOf(s, n) = 0 /\ Go(s, Pushed(s, n, round[s].meta))
       \/ ~Has(files[s], n) /\ BaseOf(s, n) # 0 /\ Go(s, [round[s] EXCEPT !.at = "remove", !.doc = n])
  /\ UNCHANGED <<server, unseen, files, meta, damaged, saved, superseded, overrun, used>>

(* The server takes a write from who saw what it replaces.                 *)
Takes(n, base) == Current(n) = base

(* The server's half of recording an upload: the same content again is no  *)
(* change.                                                                 *)
Accepts(n, content, base) == Current(n) = content \/ Takes(n, base)

Recorded(n, content, base) ==
  IF Current(n) # content /\ Takes(n, base) THEN Put(n, content) ELSE UNCHANGED <<server, unseen>>

Record(s) ==
  /\ At(s, "record")
  /\ LET n == round[s].doc
         r == round[s]
     IN  /\ Recorded(n, r.content, BaseOf(s, n))
         /\ \/ /\ Accepts(n, r.content, BaseOf(s, n))
               /\ Go(s, Pushed(s, n, With(r.meta, n, r.content))) /\ UNCHANGED <<files, meta>>
            \/ \* deleted there while edited here: pushed once more, as a new doc
               /\ ~Accepts(n, r.content, BaseOf(s, n)) /\ ~There(n)
               /\ Go(s, IF n \in r.recreated THEN Pushed(s, n, Without(r.meta, n))
                        ELSE [r EXCEPT !.at = "push", !.meta = Without(@, n), !.recreated = @ \cup {n}])
               /\ UNCHANGED <<files, meta>>
            \/ \* changed there, too: the copy is pushed next, theirs comes with the pull
               /\ ~Accepts(n, r.content, BaseOf(s, n)) /\ There(n) /\ Has(files[s], n)
               /\ files' = Set(files, s, KeptAsConflict(s, n))
               /\ meta' = Set(meta, s, Without(r.meta, n))
               /\ Go(s, [r EXCEPT !.at = "push", !.todo = (@ \ {n}) \cup {CopyOf(s, n)}, !.recreated = @ \cup {CopyOf(s, n)},
                                  !.meta = Without(@, n), !.waiting = With(@, n, server[n])])
            \/ \* the file is gone by now
               /\ ~Accepts(n, r.content, BaseOf(s, n)) /\ There(n) /\ ~Has(files[s], n)
               /\ Go(s, Pushed(s, n, r.meta)) /\ UNCHANGED <<files, meta>>
  /\ UNCHANGED <<damaged, saved, superseded, overrun, used>>

Remove(s) ==
  /\ At(s, "remove")
  /\ LET n == round[s].doc
         theirs == There(n) /\ ~Takes(n, BaseOf(s, n))
         r == Pushed(s, n, Without(round[s].meta, n))
     IN  /\ IF There(n) /\ ~theirs THEN TakeOff(n) ELSE UNCHANGED <<server, unseen>>
         /\ Go(s, IF theirs THEN [r EXCEPT !.waiting = With(@, n, server[n])] ELSE r)
  /\ UNCHANGED <<files, meta, damaged, saved, superseded, overrun, used>>

EndPush(s) ==
  /\ At(s, "push") /\ round[s].todo = {}
  /\ meta' = Set(meta, s, round[s].meta)
  /\ Go(s, [round[s] EXCEPT !.at = "pull", !.then = "end", !.todo = DOMAIN round[s].waiting])
  /\ UNCHANGED <<server, unseen, files, damaged, saved, superseded, overrun, used>>

-----------------------------------------------------------------------------

(* No answer comes: the doc transfers end here.  The server may have done  *)
(* what it was asked.                                                      *)
Fail(s) ==
  /\ Happens("failures")
  /\ \/ At(s, "fetch") /\ UNCHANGED <<server, unseen, meta>>
     \/ At(s, "record") /\ (UNCHANGED <<server, unseen>> \/ Recorded(round[s].doc, round[s].content, BaseOf(s, round[s].doc)))
        /\ meta' = Set(meta, s, round[s].meta)
     \/ At(s, "remove") /\ (UNCHANGED <<server, unseen>> \/ (Takes(round[s].doc, BaseOf(s, round[s].doc)) /\ TakeOff(round[s].doc)))
        /\ meta' = Set(meta, s, round[s].meta)
  /\ Go(s, [round[s] EXCEPT !.at = "end"])
  /\ UNCHANGED <<files, damaged, saved, superseded, overrun>>

(* This doc alone fails, where the server refuses it or its file cannot be *)
(* written; a command's goes on after any failure.                         *)
FailDoc(s) ==
  /\ Happens("failures")
  /\ \/ At(s, "fetch") /\ Go(s, Later(s, round[s].doc))
     \/ (At(s, "record") \/ At(s, "remove")) /\ Go(s, Pushed(s, round[s].doc, round[s].meta))
  /\ UNCHANGED <<server, unseen, files, meta, damaged, saved, superseded, overrun>>

Crash(s) ==
  /\ ~At(s, "idle")
  /\ Happens("failures")
  /\ Go(s, AtRest)
  /\ UNCHANGED <<server, unseen, files, meta, damaged, saved, superseded, overrun>>

Step(s) ==
  \/ FetchForCommand(s) \/ EndRound(s) \/ Rebuild(s) \/ EndRebuild(s) \/ Pull(s) \/ Fetch(s) \/ EndPull(s)
  \/ PushDoc(s) \/ Record(s) \/ Remove(s) \/ EndPush(s)

Next == OnDashboard \/ \E s \in Store : EditFile(s) \/ DeleteFile(s) \/ Damage(s) \/ Begin(s) \/ Step(s) \/ Fail(s) \/ FailDoc(s) \/ Crash(s)

Spec == Init /\ [][Next]_vars

-----------------------------------------------------------------------------

Survives(c) ==
  \/ \E n \in DOMAIN server : Current(n) = c
  \/ \E s \in Store : \E n \in DOMAIN files[s] : files[s][n] = c

(* What somebody wrote is somewhere, in a file or on the server, until     *)
(* somebody who has it before him replaces or deletes it: where both sides *)
(* changed a doc, neither is lost.                                         *)
NoDocIsLost == \A c \in 1..used.contents : c \in superseded \/ Survives(c)

(* Nothing else is ever lost but what was written into a file while its    *)
(* bytes were on the way, and written over when they came.                 *)
OnlyRacedWritesAreLost == \A c \in 1..used.contents : c \in superseded \cup overrun \/ Survives(c)

Settled(s) ==
  /\ At(s, "idle") /\ s \notin damaged
  /\ unseen[s] = {} /\ saved[s] = Empty
  /\ meta[s] = files[s]

(* A store that has nothing to pull and nothing to push has the docs the   *)
(* server has.  (Who deletes a doc and loses the sidecar before the next   *)
(* round has no doc, and the server keeps it.)                             *)
SettledDocsAgree ==
  \A s \in Store : Settled(s) /\ used.damages = 0 => files[s] = [n \in {m \in DOMAIN server : There(m)} |-> Current(n)]
=============================================================================
