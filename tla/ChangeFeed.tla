------------------------------ MODULE ChangeFeed ------------------------------
(***************************************************************************)
(* The changes feed (server/lib/changes.ts, changesSince) beside the write *)
(* path.  A reader asks for the changes after its cursor; the server       *)
(* answers with two kinds of query outside any transaction: a page of the  *)
(* feed, then each changed row as it is by then.  The reader applies the   *)
(* answer change by change and only then moves its cursor (todo/sync.py,   *)
(* _pull).  Writers commit between any two of these steps, and an answer,  *)
(* or the reader, may be lost at any of them.                              *)
(***************************************************************************)
EXTENDS TeamServer

CONSTANTS
  Reader,   \* clients that follow the feed
  Limit     \* entries a page holds at most

ASSUME LimitAssumption == Limit \in Nat \ {0}

VARIABLE reader   \* reader -> its copy of the tables and its request

feedVars == <<db, applied, lock, tx, effects, reader>>

(* What a change is about: an entity's own row, or one row of an item's    *)
(* history.                                                                *)
Key == [uid : Uid, trail : Nat]
KeyOf(change) == [uid |-> change.uid, trail |-> change.trail]

(* The row a key stands for; an item's row includes its derived status.    *)
RowAt(d, key) ==
  [row  |-> d.rows[key.uid],
   calc |-> IF key.uid \in Item THEN d.calc[key.uid] ELSE NoStatus]

(* "trail" are the numbers of the history rows the reader holds.           *)
EmptyCopy == [rows  |-> [u \in Uid |-> None],
              calc  |-> [i \in Item |-> NoStatus],
              trail |-> [i \in Item |-> {}]]

NewReader == [phase |-> "idle", cursor |-> 0, next |-> 0,
              wanted |-> {}, got |-> <<>>, copy |-> EmptyCopy]

FeedInit == Init /\ reader = [r \in Reader |-> NewReader]

-----------------------------------------------------------------------------

(* The last entry of the page after "since".                               *)
PageEnd(d, since) == IF SeqOf(d) - since > Limit THEN since + Limit ELSE SeqOf(d)

(* Mutant: the answer's cursor is the project's seq, not the page's last.  *)
CursorAtSeq(d, since) == SeqOf(d)

(* The cursor an answer carries: the seq of the page's last entry.         *)
NextCursor(d, since) == PageEnd(d, since)

(* Mutant: a uid that changed more than once is placed at its last change. *)
IsLastIn(d, since, s) ==
  \A r \in (s + 1)..PageEnd(d, since) : KeyOf(d.feed[r]) # KeyOf(d.feed[s])

(* A uid that changed more than once in the page appears once, at its      *)
(* first position.                                                         *)
IsFirstIn(d, since, s) ==
  \A r \in (since + 1)..(s - 1) : KeyOf(d.feed[r]) # KeyOf(d.feed[s])

(* What the page after "since" names: each key at its place in the page.   *)
Page(d, since) ==
  {[seq |-> s, key |-> KeyOf(d.feed[s])] :
     s \in {n \in (since + 1)..PageEnd(d, since) : IsFirstIn(d, since, n)}}

(* The first query: a page of the feed.                                    *)
ReadFeed(r) ==
  LET c == reader[r]
  IN  /\ c.phase = "idle"
      /\ SeqOf(db) > c.cursor
      /\ reader' = [reader EXCEPT ![r].phase  = "reading",
                                  ![r].next   = NextCursor(db, c.cursor),
                                  ![r].wanted = Page(db, c.cursor),
                                  ![r].got    = <<>>]

(* One of the following queries: the next row, as it is now.               *)
ReadRow(r) ==
  LET c == reader[r]
  IN  /\ c.phase = "reading"
      /\ \E e \in c.wanted :
           /\ \A f \in c.wanted : e.seq <= f.seq
           /\ reader' = [reader EXCEPT ![r].wanted = @ \ {e},
                                       ![r].got = Append(@, [key |-> e.key, now |-> RowAt(db, e.key)])]

(* The answer reaches the reader.                                          *)
Deliver(r) ==
  /\ reader[r].phase = "reading"
  /\ reader[r].wanted = {}
  /\ reader' = [reader EXCEPT ![r].phase = "applying"]

Stored(copy, change) ==
  LET key == change.key
  IN  IF key.trail > 0 THEN [copy EXCEPT !.trail[key.uid] = @ \cup {key.trail}]
      ELSE [copy EXCEPT !.rows[key.uid] = change.now.row,
                        !.calc = [i \in Item |-> IF i = key.uid THEN change.now.calc ELSE @[i]]]

(* The reader applies the answer's next change to its copy.                *)
ApplyChange(r) ==
  LET c == reader[r]
  IN  /\ c.phase = "applying"
      /\ c.got # <<>>
      /\ reader' = [reader EXCEPT ![r].copy = Stored(@, Head(c.got)), ![r].got = Tail(@)]

(* Every change is applied: the cursor moves past the page.                *)
MoveCursor(r) ==
  LET c == reader[r]
  IN  /\ c.phase = "applying"
      /\ c.got = <<>>
      /\ reader' = [reader EXCEPT ![r].phase = "idle", ![r].cursor = c.next]

(* The request or its answer is lost, or the reader stops half-way: what   *)
(* it applied stays, its cursor does not move.                             *)
Lose(r) ==
  LET c == reader[r]
  IN  /\ c.phase # "idle"
      /\ reader' = [reader EXCEPT ![r] = [NewReader EXCEPT !.cursor = c.cursor, !.copy = c.copy]]

ReaderStep ==
  \E r \in Reader : \/ ReadFeed(r) \/ ReadRow(r) \/ Deliver(r)
                    \/ ApplyChange(r) \/ MoveCursor(r) \/ Lose(r)

FeedNext ==
  \/ Next /\ UNCHANGED reader
  \/ ReaderStep /\ UNCHANGED vars

FeedSpec == FeedInit /\ [][FeedNext]_feedVars

-----------------------------------------------------------------------------

(* A change after "since" that is about the key.                           *)
NamedAfter(d, since, key) ==
  \E s \in (since + 1)..SeqOf(d) : KeyOf(d.feed[s]) = key

(* The reader misses nothing: a row of its copy that is not the committed  *)
(* row is named by a change its cursor has not passed, so that a later     *)
(* page brings it; and it has every history row up to its cursor.  This is *)
(* so although the page and the rows are read at different moments.        *)
ReaderIsCurrent ==
  \A r \in Reader :
    LET c == reader[r]
    IN  /\ \A u \in Uid :
             LET key == [uid |-> u, trail |-> 0]
             IN  RowAt(c.copy, key) # RowAt(db, key) => NamedAfter(db, c.cursor, key)
        /\ \A i \in Item : \A n \in DOMAIN db.trail[i] :
             n \notin c.copy.trail[i] => NamedAfter(db, c.cursor, [uid |-> i, trail |-> n])

(* An item always precedes the children created after it: at no point of   *)
(* applying an answer does a reader hold a child without its item, also    *)
(* when the item changed again later in the page.                          *)
ChildrenFollowTheirItem ==
  \A r \in Reader : \A u \in Child :
    LET rows == reader[r].copy.rows
    IN  rows[u] # None => rows[rows[u].item] # None
=============================================================================
