------------------------------ MODULE DocsProofs ------------------------------
(***************************************************************************)
(* No doc is lost where two sides changed it, and a store that has nothing *)
(* to sync has the server's docs: proved for any number of stores, docs,   *)
(* edits, failures, kills and damaged sidecars, but for what was written   *)
(* into a file while its bytes were on the way.                            *)
(***************************************************************************)
EXTENDS DocsSync, FiniteSetTheorems, WellFoundedInduction, SequenceTheorems, TLAPS

-----------------------------------------------------------------------------
(* What the steps put into functions and take out.                         *)

Name == Seq(Nat)
IsFunction(f) == f = [n \in DOMAIN f |-> f[n]]

(* One entry more, or another,                                             *)
LEMMA WithIs ==
  ASSUME NEW f, NEW n, NEW v
  PROVE  /\ DOMAIN With(f, n, v) = DOMAIN f \cup {n}
         /\ With(f, n, v)[n] = v
         /\ \A m \in DOMAIN f : m # n => With(f, n, v)[m] = f[m]
         /\ \A m : m # n => ValueAt(With(f, n, v), m) = ValueAt(f, m)
         /\ ValueAt(With(f, n, v), n) = v
         /\ IsFunction(With(f, n, v))
  BY DEF With, ValueAt, Has, IsFunction

(* and one less.                                                           *)
LEMMA WithoutIs ==
  ASSUME NEW f, NEW n
  PROVE  /\ DOMAIN Without(f, n) = DOMAIN f \ {n}
         /\ \A m \in DOMAIN f : m # n => Without(f, n)[m] = f[m]
         /\ \A m : m # n => ValueAt(Without(f, n), m) = ValueAt(f, m)
         /\ ValueAt(Without(f, n), n) = 0
         /\ IsFunction(Without(f, n))
  BY DEF Without, Restrict, ValueAt, Has, IsFunction

(* A file or a base has a content.                                         *)
IsFile(f) ==
  /\ DOMAIN f \subseteq Name /\ IsFiniteSet(DOMAIN f) /\ IsFunction(f)
  /\ \A n \in DOMAIN f : f[n] \in Nat \ {0}

Doc == [there : BOOLEAN, content : Nat \ {0}]
IsDocs(d) == DOMAIN d \subseteq Name /\ IsFunction(d) /\ \A n \in DOMAIN d : d[n] \in Doc

(* Files stay files.                                                       *)
LEMMA FileWith ==
  ASSUME NEW f, IsFile(f), NEW n \in Name, NEW v \in Nat \ {0}
  PROVE  IsFile(With(f, n, v))
<1>1. IsFiniteSet(DOMAIN f \cup {n})
  BY FS_AddElement DEF IsFile
<1>2. /\ DOMAIN With(f, n, v) = DOMAIN f \cup {n} /\ IsFunction(With(f, n, v))
      /\ With(f, n, v)[n] = v /\ \A m \in DOMAIN f : m # n => With(f, n, v)[m] = f[m]
  BY DEF With, IsFunction
<1> QED
  BY <1>1, <1>2 DEF IsFile

(* So they do without one.                                                 *)
LEMMA FileWithout ==
  ASSUME NEW f, IsFile(f), NEW n
  PROVE  IsFile(Without(f, n))
<1>1. IsFiniteSet(DOMAIN f \ {n})
  BY FS_RemoveElement DEF IsFile
<1>2. /\ DOMAIN Without(f, n) = DOMAIN f \ {n} /\ IsFunction(Without(f, n))
      /\ \A m \in DOMAIN f : m # n => Without(f, n)[m] = f[m]
  BY WithoutIs
<1> QED
  BY <1>1, <1>2 DEF IsFile

(* There may be none.                                                      *)
LEMMA FileEmpty == IsFile(Empty) /\ IsDocs(Empty) /\ DOMAIN Empty = {} /\ Empty \in Name
<1>1. DOMAIN Empty = {} /\ IsFunction(Empty) /\ Empty \in Name
  BY EmptySeq DEF Empty, IsFunction, Name
<1> QED
  BY <1>1, FS_EmptySet DEF IsFile, IsDocs

(* Docs stay docs.                                                         *)
LEMMA DocsWith ==
  ASSUME NEW d, IsDocs(d), NEW n \in Name, NEW x \in Doc
  PROVE  IsDocs(With(d, n, x))
<1>1. /\ DOMAIN With(d, n, x) = DOMAIN d \cup {n} /\ IsFunction(With(d, n, x))
      /\ With(d, n, x)[n] = x /\ \A m \in DOMAIN d : m # n => With(d, n, x)[m] = d[m]
  BY DEF With, IsFunction
<1> QED
  BY <1>1 DEF IsDocs

(* So they do without one.                                                 *)
LEMMA DocsWithout ==
  ASSUME NEW d, IsDocs(d), NEW n
  PROVE  IsDocs(Without(d, n))
<1>1. /\ DOMAIN Without(d, n) = DOMAIN d \ {n} /\ IsFunction(Without(d, n))
      /\ \A m \in DOMAIN d : m # n => Without(d, n)[m] = d[m]
  BY WithoutIs
<1> QED
  BY <1>1 DEF IsDocs

(* A set of naturals has a least one.                                      *)
LEMMA LeastOne ==
  ASSUME NEW T, T \subseteq Nat, T # {}
  PROVE  \E x \in T : \A y \in T : x <= y
<1> DEFINE R == {ss \in Nat \X Nat : ss[1] < ss[2]}
<1>1. IsWellFoundedOn(R, Nat)
  BY NatLessThanWellFounded DEF OpToRel
<1>2. \A x, y \in Nat : <<y, x>> \in R <=> y < x
  BY SMT
<1> HIDE DEF R
<1>3. PICK x \in T : \A y \in T : ~(<<y, x>> \in R)
  BY <1>1, WFMin
<1>4. ASSUME NEW y \in T PROVE x <= y
  <2>1. x \in Nat /\ y \in Nat /\ ~(<<y, x>> \in R)
    BY <1>3
  <2>2. ~(y < x)
    BY <1>2, <2>1
  <2> QED
    BY <2>1, <2>2
<1> QED
  BY <1>4


-----------------------------------------------------------------------------
(* A conflict copy's name is free.                                         *)
LEMMA CopyIsFree ==
  ASSUME NEW s, IsFile(files[s]), IsFile(meta[s]), NEW n \in Name
  PROVE  /\ CopyOf(s, n) \in Name /\ CopyOf(s, n) # n
         /\ CopyOf(s, n) \notin DOMAIN files[s] /\ CopyOf(s, n) \notin DOMAIN meta[s]
<1> DEFINE D == DOMAIN files[s] \cup DOMAIN meta[s]
           I == 1..(Cardinality(D) + 1)
           T == {i \in I : ~Has(files[s], Append(n, i)) /\ ~Has(meta[s], Append(n, i))}
<1>1. IsFiniteSet(D) /\ Cardinality(D) \in Nat
  BY FS_Union, FS_CardinalityType DEF IsFile
<1> HIDE DEF D
<1>2. T # {}
  <2> SUFFICES ASSUME T = {} PROVE FALSE
    OBVIOUS
  <2> DEFINE f == [i \in I |-> Append(n, i)]
  <2>1. f \in [I -> D]
    BY DEF Has, D
  <2>2. IsFiniteSet(I) /\ Cardinality(I) = Cardinality(D) + 1
    BY <1>1, FS_Interval
  <2>3. PICK i \in I, j \in I : i # j /\ f[i] = f[j]
    <3> HIDE DEF f, I
    <3> QED
      BY <1>1, <2>1, <2>2, FS_PigeonHole
  <2>4. Append(n, i) = Append(n, j)
    BY <2>3
  <2>5. Append(n, i)[Len(n) + 1] = i /\ Append(n, j)[Len(n) + 1] = j
    BY DEF Name
  <2> QED
    BY <2>3, <2>4, <2>5
<1>3. T \subseteq Nat
  BY <1>1
<1>4. \E i \in T : \A j \in T : i <= j
  <2> HIDE DEF T
  <2> QED
    BY <1>2, <1>3, LeastOne
<1>5. Min(T) \in T
  <2> HIDE DEF T
  <2> QED
    BY <1>4 DEF Min
<1>6. CopyOf(s, n) = Append(n, Min(T))
  BY DEF CopyOf, D
<1>7. Min(T) \in Nat /\ ~Has(files[s], Append(n, Min(T))) /\ ~Has(meta[s], Append(n, Min(T)))
  <2> HIDE DEF Min
  <2> QED
    BY <1>3, <1>5
<1>8. Append(n, Min(T)) \in Name /\ Append(n, Min(T)) # n
  <2> HIDE DEF T
  <2>1. PICK i \in Nat : i = Min(T)
    BY <1>7
  <2>2. Append(n, i) \in Seq(Nat) /\ Len(Append(n, i)) = Len(n) + 1 /\ Len(n) \in Nat
    BY AppendProperties, LenProperties DEF Name
  <2> QED
    BY <2>1, <2>2 DEF Name
<1> QED
  BY <1>6, <1>7, <1>8 DEF Has

-----------------------------------------------------------------------------
(* Contents that are replaced, deleted, or written over by a fetch that    *)
(* they raced.                                                             *)
Gone == superseded \cup overrun

(* A content of n that the server has, or that is gone.                    *)
CurrentOf(d, n) == IF Has(d, n) /\ d[n].there THEN d[n].content ELSE 0
Known(d, g, n, c) == c \in {0, CurrentOf(d, n)} \cup g
Heard(d, g, w) == \A n \in DOMAIN w : Known(d, g, n, w[n].content)

(* A base is what the server has, or had; the file differs from it only by *)
(* a person's doing.                                                       *)
Confirms(d, g, f, m) ==
  \A n \in DOMAIN m : Known(d, g, n, m[n]) /\ (ValueAt(f, n) = m[n] \/ m[n] \in g)

Place == {"idle", "rebuild", "pull", "fetch", "push", "record", "remove", "end"}
InHand == {"rebuild", "push", "record", "remove"}

IsRound(r) ==
  /\ DOMAIN r = {"at", "then", "todo", "doc", "content", "waiting", "meta", "recreated", "raced"}
  /\ r.at \in Place /\ r.todo \subseteq Name /\ r.doc \in Name
  /\ IsDocs(r.waiting) /\ IsFile(r.meta)

(* A store with files f, bases m, waiting changes w, and r of its round.   *)
Kept(d, g, f, m, w, r) ==
  /\ IsFile(f) /\ IsFile(m) /\ IsDocs(w) /\ IsRound(r)
  /\ Heard(d, g, w) /\ Heard(d, g, r.waiting)
  /\ Confirms(d, g, f, m)
  /\ r.at \in InHand => Confirms(d, g, f, r.meta)
  /\ r.at \in {"pull", "fetch"} => r.todo \subseteq DOMAIN r.waiting
  /\ r.at = "fetch" => r.doc \in DOMAIN r.waiting /\ (ValueAt(f, r.doc) \in r.raced \/ Known(d, g, r.doc, ValueAt(f, r.doc)))
  /\ r.at = "record" => /\ ValueAt(r.meta, r.doc) \in g \cup {0}
                        /\ ValueAt(f, r.doc) = r.content \/ r.content \in g
                        /\ r.content \in Nat \ {0}
  /\ r.at = "remove" => ValueAt(r.meta, r.doc) \in g \ {0}

KeptAt(s) == Kept(server, Gone, files[s], meta[s], saved[s], round[s])

(* Where a content is: gone, on the server, or in a file.                  *)
Found(d, g, f, c) ==
  c \in g \/ (\E n \in DOMAIN d : CurrentOf(d, n) = c) \/ (\E n \in DOMAIN f : f[n] = c)

Tombs(d, g) == \A n \in DOMAIN d : ~d[n].there => d[n].content \in g

DocsTypes ==
  /\ IsDocs(server) /\ Tombs(server, Gone)
  /\ unseen \in [Store -> SUBSET DOMAIN server]
  /\ files = [s \in Store |-> files[s]] /\ meta = [s \in Store |-> meta[s]]
  /\ saved = [s \in Store |-> saved[s]] /\ round = [s \in Store |-> round[s]]
  /\ used \in [contents : Nat, deletes : Nat, damages : Nat, failures : Nat]

KeptInv == DocsTypes /\ OnlyRacedWritesAreLost /\ \A s \in Store : KeptAt(s)

-----------------------------------------------------------------------------
(* The server's docs become d2 and the replaced contents g2: what was      *)
(* known is known.                                                         *)
Recalls(d, g, d2, g2) == g \subseteq g2 /\ \A n : CurrentOf(d, n) \in {0, CurrentOf(d2, n)} \cup g2

(* A store keeps what it kept.                                             *)
LEMMA KeptStays ==
  ASSUME NEW d, NEW g, NEW d2, NEW g2, Recalls(d, g, d2, g2),
         NEW f, NEW m, NEW w, NEW r, Kept(d, g, f, m, w, r)
  PROVE  Kept(d2, g2, f, m, w, r)
<1>1. \A n, c : Known(d, g, n, c) => Known(d2, g2, n, c)
  BY DEF Known, Recalls
<1>2. \A h : Heard(d, g, h) => Heard(d2, g2, h)
  BY <1>1 DEF Heard
<1>3. \A b : Confirms(d, g, f, b) => Confirms(d2, g2, f, b)
  BY <1>1 DEF Confirms, Recalls
<1> QED
  BY <1>1, <1>2, <1>3 DEF Kept, Recalls

(* What a step leaves of a store.                                          *)
Keeps2(s) ==
  /\ Kept(server', Gone', files'[s], meta'[s], saved'[s], round'[s])
  /\ \A n \in DOMAIN files[s] : Found(server', Gone', files'[s], files[s][n])

(* A step keeps the invariant if it keeps each store.                      *)
LEMMA StepKeeps ==
  ASSUME KeptInv, Recalls(server, Gone, server', Gone'),
         DocsTypes', used.contents <= used'.contents,
         \A s \in Store : Keeps2(s) \/ (files'[s] = files[s] /\ meta'[s] = meta[s] /\ saved'[s] = saved[s] /\ round'[s] = round[s]),
         \A c \in 1..used'.contents : \/ c \in 1..used.contents
                                      \/ \E n \in DOMAIN server' : CurrentOf(server', n) = c
                                      \/ \E s \in Store : \E n \in DOMAIN files'[s] : files'[s][n] = c
  PROVE  KeptInv'
<1>1. used.contents \in Nat /\ used'.contents \in Nat
  BY DEF KeptInv, DocsTypes
<1>2. ASSUME NEW s \in Store PROVE Kept(server', Gone', files'[s], meta'[s], saved'[s], round'[s])
  <2>1. CASE Keeps2(s)
    BY <2>1 DEF Keeps2
  <2>2. CASE files'[s] = files[s] /\ meta'[s] = meta[s] /\ saved'[s] = saved[s] /\ round'[s] = round[s]
    <3>1. Kept(server, Gone, files[s], meta[s], saved[s], round[s])
      BY DEF KeptInv, KeptAt
    <3> QED
      BY <1>1, <2>2, <3>1, KeptStays
  <2> QED
    BY <2>1, <2>2
<1>3. ASSUME NEW c \in 1..used'.contents
      PROVE  \/ c \in Gone'
             \/ \E n \in DOMAIN server' : CurrentOf(server', n) = c
             \/ \E s \in Store : \E n \in DOMAIN files'[s] : files'[s][n] = c
  <2>1. CASE c \in Gone
    BY <2>1 DEF Recalls
  <2>2. ASSUME NEW n \in DOMAIN server, Current(n) = c, c \in 1..used.contents
        PROVE  c \in Gone' \/ \E m \in DOMAIN server' : CurrentOf(server', m) = c
    <3>1. CurrentOf(server, n) = c /\ c # 0
      BY <1>1, <2>2 DEF Current, CurrentOf, There
    <3>2. c \in Gone' \/ CurrentOf(server', n) = c
      BY <3>1 DEF Recalls
    <3> QED
      BY <3>1, <3>2 DEF CurrentOf, Has
  <2>3. ASSUME NEW s \in Store, NEW n \in DOMAIN files[s], files[s][n] = c
        PROVE  \/ c \in Gone'
               \/ \E m \in DOMAIN server' : CurrentOf(server', m) = c
               \/ \E m \in DOMAIN files'[s] : files'[s][m] = c
    BY <2>3 DEF Keeps2, Found
  <2>4. c \in 1..used.contents => \/ c \in Gone
                                  \/ \E n \in DOMAIN server : Current(n) = c
                                  \/ \E s \in Store : \E n \in DOMAIN files[s] : files[s][n] = c
    BY DEF KeptInv, OnlyRacedWritesAreLost, Survives, Gone
  <2> QED
    BY <2>1, <2>2, <2>3, <2>4
<1>4. OnlyRacedWritesAreLost'
  <2>1. \A n : Current(n)' = CurrentOf(server', n)
    BY DEF Current, CurrentOf, There
  <2> QED
    BY <1>3, <2>1 DEF OnlyRacedWritesAreLost, Survives, Gone
<1> QED
  BY <1>2, <1>4 DEF KeptInv, KeptAt

(* One store acts, and perhaps the server.                                 *)
LEMMA StoreActs ==
  ASSUME KeptInv, NEW s \in Store, NEW f, NEW m, NEW w, NEW r,
         files' = Set(files, s, f), meta' = Set(meta, s, m), saved' = Set(saved, s, w), round' = Set(round, s, r),
         Gone \subseteq Gone', IsDocs(server'), Tombs(server', Gone'),
         Recalls(server, Gone, server', Gone'),
         unseen' \in [Store -> SUBSET DOMAIN server'],
         used' \in [contents : Nat, deletes : Nat, damages : Nat, failures : Nat], used.contents <= used'.contents,
         \A c \in 1..used'.contents : \/ c \in 1..used.contents
                                      \/ \E n \in DOMAIN server' : CurrentOf(server', n) = c
                                      \/ \E n \in DOMAIN f : f[n] = c,
         Kept(server', Gone', f, m, w, r),
         \A n \in DOMAIN files[s] : Found(server', Gone', f, files[s][n])
  PROVE  KeptInv'
<1>1. /\ files = [t \in Store |-> files[t]] /\ meta = [t \in Store |-> meta[t]]
      /\ saved = [t \in Store |-> saved[t]] /\ round = [t \in Store |-> round[t]]
  BY DEF KeptInv, DocsTypes
<1>2. files'[s] = f /\ meta'[s] = m /\ saved'[s] = w /\ round'[s] = r
  BY <1>1 DEF Set
<1>3. \A t \in Store \ {s} : files'[t] = files[t] /\ meta'[t] = meta[t] /\ saved'[t] = saved[t] /\ round'[t] = round[t]
  BY <1>1 DEF Set
<1>4. Keeps2(s)
  BY <1>2 DEF Keeps2
<1>5. DocsTypes'
  BY <1>1 DEF DocsTypes, Set
<1>6. ASSUME NEW c \in 1..used'.contents
      PROVE  \/ c \in 1..used.contents
             \/ \E n \in DOMAIN server' : CurrentOf(server', n) = c
             \/ \E t \in Store : \E n \in DOMAIN files'[t] : files'[t][n] = c
  <2>1. \/ c \in 1..used.contents
        \/ \E n \in DOMAIN server' : CurrentOf(server', n) = c
        \/ \E n \in DOMAIN f : f[n] = c
    OBVIOUS
  <2>2. ASSUME NEW n \in DOMAIN f, f[n] = c
        PROVE  \E t \in Store : \E l \in DOMAIN files'[t] : files'[t][l] = c
    BY <1>2, <2>2
  <2> QED
    BY <2>1, <2>2
<1> QED
  BY <1>3, <1>4, <1>5, <1>6, StepKeeps

(* One store acts, and nothing is written or deleted.                      *)
LEMMA StoreActsAlone ==
  ASSUME KeptInv, NEW s \in Store, NEW f, NEW m, NEW w, NEW r,
         files' = Set(files, s, f), meta' = Set(meta, s, m), saved' = Set(saved, s, w), round' = Set(round, s, r),
         UNCHANGED <<server, Gone>>,
         unseen' \in [Store -> SUBSET DOMAIN server],
         used' \in [contents : Nat, deletes : Nat, damages : Nat, failures : Nat], used.contents = used'.contents,
         Kept(server, Gone, f, m, w, r),
         \A n \in DOMAIN files[s] : Found(server, Gone, f, files[s][n])
  PROVE  KeptInv'
<1>1. Recalls(server, Gone, server', Gone')
  BY DEF Recalls
<1>2. IsDocs(server') /\ Tombs(server', Gone') /\ used.contents \in Nat
  BY DEF KeptInv, DocsTypes
<1>3. Gone \subseteq Gone'
  OBVIOUS
<1>4. Kept(server', Gone', f, m, w, r)
  OBVIOUS
<1>5. \A n \in DOMAIN files[s] : Found(server', Gone', f, files[s][n])
  OBVIOUS
<1>6. used.contents <= used'.contents /\ unseen' \in [Store -> SUBSET DOMAIN server']
  BY <1>2
<1>7. \A c \in 1..used'.contents : c \in 1..used.contents
  OBVIOUS
<1> HIDE DEF KeptInv
<1> QED
  BY <1>1, <1>2, <1>3, <1>4, <1>5, <1>6, <1>7, StoreActs

(* A store that stays as it is.                                            *)
LEMMA SetSame ==
  ASSUME DocsTypes, NEW s \in Store
  PROVE  /\ files = Set(files, s, files[s]) /\ meta = Set(meta, s, meta[s])
         /\ saved = Set(saved, s, saved[s]) /\ round = Set(round, s, round[s])
  BY DEF DocsTypes, Set

(* What the invariant says of one store.                                   *)
LEMMA StoreIs ==
  ASSUME KeptInv, NEW s \in Store
  PROVE  /\ Kept(server, Gone, files[s], meta[s], saved[s], round[s])
         /\ DocsTypes /\ used.contents \in Nat
         /\ used \in [contents : Nat, deletes : Nat, damages : Nat, failures : Nat]
         /\ unseen \in [Store -> SUBSET DOMAIN server]
         /\ IsRound(round[s])
  BY DEF KeptInv, KeptAt, DocsTypes, Kept

-----------------------------------------------------------------------------
(* A round that is at its end, or lost, is at rest.                        *)
LEMMA RestKept ==
  ASSUME NEW d, NEW g, NEW f, NEW m, NEW w, NEW r, Kept(d, g, f, m, w, r)
  PROVE  Kept(d, g, f, m, w, AtRest)
<1>1. IsFile(Empty) /\ IsDocs(Empty) /\ DOMAIN Empty = {} /\ Empty \in Name
  BY FileEmpty
<1>2. IsRound(AtRest) /\ AtRest.at = "idle" /\ AtRest.waiting = Empty
  BY <1>1 DEF AtRest, IsRound, Place
<1> QED
  BY <1>1, <1>2 DEF Kept, Heard, InHand

(* A file that stays is still there.                                       *)
LEMMA SameFiles ==
  ASSUME NEW d, NEW g, NEW f, NEW n \in DOMAIN f
  PROVE  Found(d, g, f, f[n])
  BY DEF Found

(* A step of a round that writes nothing on the server.                    *)
LEMMA RoundActs ==
  ASSUME KeptInv, NEW s \in Store, NEW f, NEW m, NEW r,
         files' = Set(files, s, f), meta' = Set(meta, s, m), Go(s, r),
         UNCHANGED <<server, unseen, saved, Gone, used>>,
         Kept(server, Gone, f, m, saved[s], r),
         \A n \in DOMAIN files[s] : Found(server, Gone, f, files[s][n])
  PROVE  KeptInv'
<1>1. /\ saved' = Set(saved, s, saved[s]) /\ unseen' \in [Store -> SUBSET DOMAIN server]
      /\ used' \in [contents : Nat, deletes : Nat, damages : Nat, failures : Nat] /\ used.contents = used'.contents
  BY StoreIs, SetSame
<1>2. round' = Set(round, s, r)
  BY DEF Go
<1> QED
  BY <1>1, <1>2, StoreActsAlone

(* A step of a round that only goes on.                                    *)
LEMMA RoundGoes ==
  ASSUME KeptInv, NEW s \in Store, NEW r, Go(s, r),
         UNCHANGED <<server, unseen, files, meta, saved, Gone, used>>,
         Kept(server, Gone, files[s], meta[s], saved[s], r)
  PROVE  KeptInv'
<1>1. files' = Set(files, s, files[s]) /\ meta' = Set(meta, s, meta[s])
  BY StoreIs, SetSame
<1> QED
  BY <1>1, SameFiles, RoundActs

(* A kill loses the round.                                                 *)
LEMMA CrashKeeps ==
  ASSUME KeptInv, NEW s \in Store, Crash(s)
  PROVE  KeptInv'
<1>1. Kept(server, Gone, files[s], meta[s], saved[s], AtRest)
  BY StoreIs, RestKept
<1>2. used' \in [contents : Nat, deletes : Nat, damages : Nat, failures : Nat] /\ used.contents = used'.contents
  BY StoreIs DEF Crash, Happens
<1>3. round' = Set(round, s, AtRest) /\ UNCHANGED <<server, unseen, files, meta, saved, Gone>>
  BY DEF Crash, Go, Gone
<1>4. /\ files' = Set(files, s, files[s]) /\ meta' = Set(meta, s, meta[s]) /\ saved' = Set(saved, s, saved[s])
      /\ unseen' \in [Store -> SUBSET DOMAIN server]
  BY <1>3, StoreIs, SetSame
<1> QED
  BY <1>1, <1>2, <1>3, <1>4, SameFiles, StoreActsAlone

(* A round that ends saves what waits.                                     *)
LEMMA EndRoundKeeps ==
  ASSUME KeptInv, NEW s \in Store, EndRound(s)
  PROVE  KeptInv'
<1>1. Kept(server, Gone, files[s], meta[s], round[s].waiting, round[s])
  BY StoreIs DEF Kept, IsRound
<1>2. Kept(server, Gone, files[s], meta[s], round[s].waiting, AtRest)
  BY <1>1, StoreIs, RestKept
<1>3. /\ saved' = Set(saved, s, round[s].waiting) /\ round' = Set(round, s, AtRest)
      /\ UNCHANGED <<server, unseen, files, meta, Gone, used>>
  BY DEF EndRound, StillWaiting, Gone
<1>4. files' = Set(files, s, files[s]) /\ meta' = Set(meta, s, meta[s]) /\ unseen' \in [Store -> SUBSET DOMAIN server]
  BY <1>3, StoreIs, SetSame
<1>5. used' \in [contents : Nat, deletes : Nat, damages : Nat, failures : Nat] /\ used.contents = used'.contents
  BY <1>3, StoreIs
<1> QED
  BY <1>2, <1>3, <1>4, <1>5, SameFiles, StoreActsAlone

(* A command takes what waits.                                             *)
LEMMA FetchForCommandKeeps ==
  ASSUME KeptInv, NEW s \in Store, FetchForCommand(s)
  PROVE  KeptInv'
<1> DEFINE w == saved[s]
           r == [AtRest EXCEPT !.at = "pull", !.then = "end", !.waiting = w, !.todo = DOMAIN w]
<1>1. Kept(server, Gone, files[s], meta[s], w, round[s])
  BY StoreIs
<1>2. IsFile(Empty) /\ Empty \in Name
  BY FileEmpty
<1> HIDE DEF w
<1>3. IsRound(r) /\ r.at = "pull" /\ r.waiting = w /\ r.todo = DOMAIN w
  <2>1. /\ r.at = "pull" /\ r.todo = DOMAIN w /\ r.doc = Empty /\ r.waiting = w /\ r.meta = Empty
        /\ DOMAIN r = DOMAIN AtRest
    BY DEF AtRest
  <2> HIDE DEF r
  <2> QED
    BY <1>1, <1>2, <2>1 DEF IsRound, Place, Kept, IsDocs, AtRest
<1>4. Kept(server, Gone, files[s], meta[s], w, r)
  BY <1>1, <1>3 DEF Kept, InHand
<1>5. Go(s, r) /\ UNCHANGED <<server, unseen, files, meta, saved, Gone, used>>
  BY DEF FetchForCommand, Go, w, Gone
<1>6. Kept(server, Gone, files[s], meta[s], saved[s], r)
  BY <1>4 DEF w
<1> HIDE DEF r
<1> QED
  BY <1>5, <1>6, RoundGoes

(* A round begins with what the feed tells.                                *)
LEMMA BeginKeeps ==
  ASSUME KeptInv, NEW s \in Store, Begin(s)
  PROVE  KeptInv'
<1>1. PICK names \in {{}, unseen[s]} :
        LET waiting == [n \in names \cup DOMAIN saved[s] |-> IF n \in names THEN server[n] ELSE saved[s][n]]
        IN  /\ saved' = Set(saved, s, waiting)
            /\ unseen' = Set(unseen, s, unseen[s] \ names)
            /\ round' = Set(round, s, [AtRest EXCEPT !.at = IF s \in damaged THEN "rebuild" ELSE "pull", !.then = "push",
                                         !.waiting = waiting, !.meta = meta[s],
                                         !.todo = IF s \in damaged THEN DOMAIN files[s] ELSE DOMAIN waiting])
  BY DEF Begin
<1> DEFINE w == [n \in names \cup DOMAIN saved[s] |-> IF n \in names THEN server[n] ELSE saved[s][n]]
           r == [AtRest EXCEPT !.at = IF s \in damaged THEN "rebuild" ELSE "pull", !.then = "push",
                               !.waiting = w, !.meta = meta[s],
                               !.todo = IF s \in damaged THEN DOMAIN files[s] ELSE DOMAIN w]
<1>2. /\ saved' = Set(saved, s, w) /\ round' = Set(round, s, r) /\ unseen' = Set(unseen, s, unseen[s] \ names)
      /\ UNCHANGED <<server, files, meta, Gone, used>>
  BY <1>1 DEF Begin, Gone
<1>3. names \subseteq DOMAIN server
  BY StoreIs
<1>4. Kept(server, Gone, files[s], meta[s], saved[s], round[s]) /\ IsDocs(server) /\ Tombs(server, Gone)
  BY StoreIs DEF DocsTypes
<1>5. DOMAIN w = names \cup DOMAIN saved[s] /\ \A n \in DOMAIN w : w[n] = IF n \in names THEN server[n] ELSE saved[s][n]
  OBVIOUS
<1>6. IsFunction(w)
  BY DEF IsFunction
<1>7. IsFile(Empty) /\ Empty \in Name
  BY FileEmpty
<1>8. r.at \in {"rebuild", "pull"} /\ r.waiting = w /\ r.meta = meta[s] /\ (r.at = "pull" => r.todo = DOMAIN w)
  BY DEF AtRest
<1> HIDE DEF w
<1>9. IsDocs(w)
  BY <1>3, <1>4, <1>5, <1>6 DEF Kept, IsDocs
<1>10. Heard(server, Gone, w)
  <2> SUFFICES ASSUME NEW n \in DOMAIN w PROVE Known(server, Gone, n, w[n].content)
    BY DEF Heard
  <2>1. CASE n \in names
    BY <1>3, <1>4, <1>5, <2>1 DEF Known, CurrentOf, Has, Tombs
  <2>2. CASE n \notin names
    BY <1>4, <1>5, <2>2 DEF Kept, Heard
  <2> QED
    BY <2>1, <2>2
<1>11. IsRound(r)
  <2>1. /\ r.todo = (IF s \in damaged THEN DOMAIN files[s] ELSE DOMAIN w) /\ r.doc = Empty
        /\ DOMAIN r = DOMAIN AtRest
    BY DEF AtRest
  <2> HIDE DEF r
  <2> QED
    BY <1>4, <1>7, <1>8, <1>9, <2>1 DEF IsRound, Place, Kept, IsDocs, IsFile, AtRest
<1> HIDE DEF r
<1>12. Kept(server, Gone, files[s], meta[s], w, r)
  BY <1>4, <1>8, <1>9, <1>10, <1>11 DEF Kept, InHand
<1>13. files' = Set(files, s, files[s]) /\ meta' = Set(meta, s, meta[s])
  BY <1>2, StoreIs, SetSame
<1>14. unseen' \in [Store -> SUBSET DOMAIN server]
  BY <1>2, StoreIs DEF Set
<1>15. used' \in [contents : Nat, deletes : Nat, damages : Nat, failures : Nat] /\ used.contents = used'.contents
  BY <1>2, StoreIs
<1> QED
  BY <1>2, <1>12, <1>13, <1>14, <1>15, SameFiles, StoreActsAlone

(* A lost sidecar says nothing.                                            *)
LEMMA DamageKeeps ==
  ASSUME KeptInv, NEW s \in Store, Damage(s)
  PROVE  KeptInv'
<1>1. Kept(server, Gone, files[s], meta[s], saved[s], round[s])
  BY StoreIs
<1>2. Kept(server, Gone, files[s], Empty, saved[s], round[s])
  BY <1>1, FileEmpty DEF Kept, Confirms
<1>3. used' \in [contents : Nat, deletes : Nat, damages : Nat, failures : Nat] /\ used.contents = used'.contents
  BY StoreIs DEF Damage, Happens
<1>4. meta' = Set(meta, s, Empty) /\ UNCHANGED <<server, unseen, files, saved, round, Gone>>
  BY DEF Damage, Gone
<1>5. /\ files' = Set(files, s, files[s]) /\ saved' = Set(saved, s, saved[s]) /\ round' = Set(round, s, round[s])
      /\ unseen' \in [Store -> SUBSET DOMAIN server]
  BY <1>4, StoreIs, SetSame
<1> QED
  BY <1>2, <1>3, <1>4, <1>5, SameFiles, StoreActsAlone

-----------------------------------------------------------------------------
(* A file that is moved aside is there under another name.                 *)
LEMMA MovedIs ==
  ASSUME NEW s, IsFile(files[s]), IsFile(meta[s]), NEW n \in DOMAIN files[s]
  PROVE  /\ IsFile(KeptAsConflict(s, n))
         /\ ValueAt(KeptAsConflict(s, n), n) = 0
         /\ \A m : ValueAt(files[s], m) \notin {0, ValueAt(KeptAsConflict(s, n), m)} => m = n
         /\ \A m \in DOMAIN files[s] : \E l \in DOMAIN KeptAsConflict(s, n) : KeptAsConflict(s, n)[l] = files[s][m]
<1> DEFINE f == files[s]
           c == CopyOf(s, n)
           h == Without(f, n)
           f2 == With(h, c, f[n])
<1>1. n \in Name /\ f[n] \in Nat \ {0}
  BY DEF IsFile
<1>2. c \in Name /\ c # n /\ c \notin DOMAIN f
  BY <1>1, CopyIsFree
<1> HIDE DEF c
<1>3. DOMAIN h = DOMAIN f \ {n} /\ \A m \in DOMAIN f : m # n => h[m] = f[m]
  BY DEF Without, Restrict
<1>4. IsFile(h)
  BY FileWithout
<1>5. IsFile(f2)
  BY <1>1, <1>2, <1>4, FileWith
<1> HIDE DEF h
<1>6. /\ DOMAIN f2 = DOMAIN h \cup {c} /\ f2[c] = f[n]
      /\ \A m \in DOMAIN h : m # c => f2[m] = h[m]
  BY DEF With
<1>7. f2 = KeptAsConflict(s, n)
  BY DEF KeptAsConflict, h, c
<1> HIDE DEF f2
<1>8. ValueAt(f2, n) = 0
  BY <1>2, <1>3, <1>6 DEF ValueAt, Has
<1>9. ASSUME NEW m, m # n, ValueAt(f, m) # 0 PROVE ValueAt(f2, m) = ValueAt(f, m)
  BY <1>2, <1>3, <1>6, <1>9 DEF ValueAt, Has
<1>10. ASSUME NEW m \in DOMAIN f PROVE \E l \in DOMAIN f2 : f2[l] = f[m]
  BY <1>2, <1>3, <1>6
<1> QED
  BY <1>5, <1>7, <1>8, <1>9, <1>10

(* The bases no longer name it.                                            *)
LEMMA MovedConfirms ==
  ASSUME NEW s, IsFile(files[s]), IsFile(meta[s]), NEW n \in DOMAIN files[s],
         NEW d, NEW g, NEW b, IsFile(b), Confirms(d, g, files[s], b)
  PROVE  Confirms(d, g, KeptAsConflict(s, n), Without(b, n))
<1> DEFINE f2 == KeptAsConflict(s, n)
<1>1. \A m : ValueAt(files[s], m) \notin {0, ValueAt(f2, m)} => m = n
  BY MovedIs
<1> HIDE DEF f2
<1>2. DOMAIN Without(b, n) = DOMAIN b \ {n} /\ \A m \in DOMAIN b : m # n => Without(b, n)[m] = b[m]
  BY DEF Without, Restrict
<1>3. \A m \in DOMAIN b : b[m] # 0
  BY DEF IsFile
<1>4. Confirms(d, g, f2, Without(b, n))
  BY <1>1, <1>2, <1>3 DEF Confirms
<1> QED
  BY <1>4 DEF f2

(* A base less,                                                            *)
LEMMA WithoutConfirms ==
  ASSUME NEW d, NEW g, NEW f, NEW b, Confirms(d, g, f, b), NEW n
  PROVE  Confirms(d, g, f, Without(b, n))
<1>1. DOMAIN Without(b, n) = DOMAIN b \ {n} /\ \A m \in DOMAIN b : m # n => Without(b, n)[m] = b[m]
  BY DEF Without, Restrict
<1> QED
  BY <1>1 DEF Confirms

(* and one that the server has, or had.                                    *)
LEMMA WithConfirms ==
  ASSUME NEW d, NEW g, NEW f, NEW b, Confirms(d, g, f, b), NEW n, NEW v,
         Known(d, g, n, v), ValueAt(f, n) = v \/ v \in g
  PROVE  Confirms(d, g, f, With(b, n, v))
<1>1. DOMAIN With(b, n, v) = DOMAIN b \cup {n} /\ With(b, n, v)[n] = v /\ \A m \in DOMAIN b : m # n => With(b, n, v)[m] = b[m]
  BY DEF With
<1> QED
  BY <1>1 DEF Confirms

(* A rebuilt sidecar names what the server has.                            *)
LEMMA RebuildKeeps ==
  ASSUME KeptInv, NEW s \in Store, Rebuild(s)
  PROVE  KeptInv'
<1> DEFINE R == round[s]
<1>1. PICK n \in R.todo :
       LET r       == [R EXCEPT !.todo = @ \ {n}]
           deleted == Has(r.waiting, n) /\ ~r.waiting[n].there
           content == ValueAt(files[s], n)
           known   == content = IF There(n) THEN Current(n) ELSE IF deleted THEN r.waiting[n].content ELSE 0
           dropped == Without(r.meta, n)
       IN  IF deleted /\ content \notin {0, r.waiting[n].content}
           THEN /\ files' = Set(files, s, KeptAsConflict(s, n)) /\ meta' = Set(meta, s, dropped)
                /\ Go(s, [r EXCEPT !.meta = dropped])
           ELSE /\ Go(s, [r EXCEPT !.meta = IF content = 0 THEN @ ELSE IF known THEN With(@, n, content) ELSE dropped])
                /\ UNCHANGED <<files, meta>>
  BY DEF Rebuild
<1>2. Kept(server, Gone, files[s], meta[s], saved[s], R) /\ R.at = "rebuild"
  BY StoreIs DEF Rebuild, At
<1> DEFINE c == ValueAt(files[s], n)
           b1 == Without(R.meta, n)
           b2 == With(R.meta, n, c)
           known == c = IF There(n) THEN Current(n)
                        ELSE IF Has(R.waiting, n) /\ ~R.waiting[n].there THEN R.waiting[n].content ELSE 0
           r1 == [[R EXCEPT !.todo = @ \ {n}] EXCEPT !.meta = b1]
           r3 == [[R EXCEPT !.todo = @ \ {n}] EXCEPT !.meta = IF c = 0 THEN @ ELSE IF known THEN b2 ELSE b1]
<1>3. IsRound(R) /\ Confirms(server, Gone, files[s], R.meta)
  BY <1>2 DEF Kept, InHand
<1>4. r1.meta = b1 /\ r1.at = R.at /\ r1.waiting = R.waiting /\ DOMAIN r1 = DOMAIN R /\ r1.todo \subseteq R.todo /\ r1.doc = R.doc
  BY <1>3 DEF IsRound
<1>5. /\ r3.meta = (IF c = 0 THEN R.meta ELSE IF known THEN b2 ELSE b1)
      /\ r3.at = R.at /\ r3.waiting = R.waiting /\ DOMAIN r3 = DOMAIN R /\ r3.todo \subseteq R.todo /\ r3.doc = R.doc
  BY <1>3 DEF IsRound
<1>6. \/ /\ c # 0 /\ files' = Set(files, s, KeptAsConflict(s, n)) /\ meta' = Set(meta, s, b1) /\ Go(s, r1)
      \/ Go(s, r3) /\ UNCHANGED <<files, meta>>
  BY <1>1, <1>3 DEF IsRound
<1>7. UNCHANGED <<server, unseen, saved, Gone, used>>
  BY DEF Rebuild, Gone
<1>8. IsFile(b1) /\ Confirms(server, Gone, files[s], b1)
  BY <1>3, FileWithout, WithoutConfirms DEF IsRound
<1> HIDE DEF r1, r3, b1, b2
<1>9. CASE c # 0 /\ files' = Set(files, s, KeptAsConflict(s, n)) /\ meta' = Set(meta, s, b1) /\ Go(s, r1)
  <2>1. n \in DOMAIN files[s] /\ IsFile(files[s]) /\ IsFile(meta[s])
    BY <1>2, <1>9 DEF ValueAt, Has, Kept
  <2>2. /\ IsFile(KeptAsConflict(s, n))
        /\ \A m \in DOMAIN files[s] : Found(server, Gone, KeptAsConflict(s, n), files[s][m])
    BY <2>1, MovedIs DEF Found
  <2>3. Confirms(server, Gone, KeptAsConflict(s, n), b1)
    BY <1>3, <2>1, MovedConfirms DEF b1, IsRound
  <2>4. Kept(server, Gone, KeptAsConflict(s, n), b1, saved[s], r1)
    BY <1>2, <1>3, <1>4, <1>8, <2>2, <2>3 DEF Kept, IsRound, InHand
  <2> QED
    BY <1>7, <1>9, <2>2, <2>4, RoundActs
<1>10. CASE Go(s, r3) /\ UNCHANGED <<files, meta>>
  <2>1. CASE c = 0
    BY <1>3, <1>5, <2>1, <1>2, <1>7, <1>10, RoundGoes DEF Kept, IsRound, InHand
  <2>2. CASE c # 0 /\ known
    <3>1. n \in Name /\ c \in Nat \ {0}
      BY <1>2, <1>3, <2>2 DEF ValueAt, Has, Kept, IsFile, IsRound
    <3>2. IsFile(b2)
      BY <1>3, <3>1, FileWith DEF b2, IsRound
    <3>3. Known(server, Gone, n, c)
      BY <1>2, <2>2 DEF Kept, Heard, Known, CurrentOf, Current, There, Has
    <3>4. Confirms(server, Gone, files[s], b2)
      BY <1>3, <3>3, WithConfirms DEF b2
    <3>5. Kept(server, Gone, files[s], meta[s], saved[s], r3)
      BY <1>2, <1>3, <1>5, <2>2, <3>2, <3>4 DEF Kept, IsRound, InHand
    <3> QED
      BY <1>7, <1>10, <3>5, RoundGoes
  <2>3. CASE c # 0 /\ ~known
    <3>1. Kept(server, Gone, files[s], meta[s], saved[s], r3)
      BY <1>2, <1>3, <1>5, <1>8, <2>3 DEF Kept, IsRound, InHand
    <3> QED
      BY <1>7, <1>10, <3>1, RoundGoes
  <2> QED
    BY <2>1, <2>2, <2>3
<1> QED
  BY <1>6, <1>9, <1>10

(* It becomes the store's.                                                 *)
LEMMA EndRebuildKeeps ==
  ASSUME KeptInv, NEW s \in Store, EndRebuild(s)
  PROVE  KeptInv'
<1> DEFINE R == round[s]
           r == [R EXCEPT !.at = "pull", !.todo = DOMAIN R.waiting]
<1>1. Kept(server, Gone, files[s], meta[s], saved[s], R) /\ R.at = "rebuild"
  BY StoreIs DEF EndRebuild, At
<1>2. meta' = Set(meta, s, R.meta) /\ Go(s, r) /\ UNCHANGED <<server, unseen, files, saved, Gone, used>>
  BY DEF EndRebuild, Gone
<1>3. /\ r.at = "pull" /\ r.todo = DOMAIN R.waiting /\ r.waiting = R.waiting /\ r.meta = R.meta /\ r.doc = R.doc
      /\ DOMAIN r = DOMAIN R
  BY <1>1 DEF Kept, IsRound
<1> HIDE DEF r
<1>4. Kept(server, Gone, files[s], R.meta, saved[s], r)
  BY <1>1, <1>3 DEF Kept, IsRound, InHand, Place, IsDocs
<1>5. files' = Set(files, s, files[s])
  BY <1>2, StoreIs, SetSame
<1> QED
  BY <1>2, <1>4, <1>5, SameFiles, RoundActs

(* What a round has pulled no longer waits.                                *)
LEMMA DoneKept ==
  ASSUME KeptInv, NEW s \in Store, round[s].at \in {"pull", "fetch"}, NEW n,
         NEW f, IsFile(f), NEW m, IsFile(m), Confirms(server, Gone, f, m)
  PROVE  /\ Kept(server, Gone, f, m, saved[s], Later(s, n))
         /\ Kept(server, Gone, f, m, saved[s], Done(s, n))
<1> DEFINE R == round[s]
           r1 == Later(s, n)
           r2 == Done(s, n)
           w == Without(R.waiting, n)
<1>1. Kept(server, Gone, files[s], meta[s], saved[s], R)
  BY StoreIs
<1>2. r1.at = "pull" /\ r1.todo = R.todo \ {n} /\ r1.waiting = R.waiting /\ r1.meta = R.meta /\ r1.doc = R.doc /\ DOMAIN r1 = DOMAIN R
  BY <1>1 DEF Kept, IsRound, Later
<1>3. r2.at = "pull" /\ r2.todo = R.todo \ {n} /\ r2.waiting = w /\ r2.meta = R.meta /\ r2.doc = R.doc /\ DOMAIN r2 = DOMAIN R
  BY <1>1 DEF Kept, IsRound, Done
<1>4. IsDocs(w)
  BY <1>1, DocsWithout DEF Kept, IsRound
<1>5. DOMAIN w = DOMAIN R.waiting \ {n} /\ \A x \in DOMAIN R.waiting : x # n => w[x] = R.waiting[x]
  BY DEF Without, Restrict
<1> HIDE DEF r1, r2, w
<1>6. Heard(server, Gone, w)
  BY <1>1, <1>5 DEF Kept, Heard
<1>7. R.todo \subseteq DOMAIN R.waiting
  BY <1>1 DEF Kept
<1>8. Kept(server, Gone, f, m, saved[s], r1)
  BY <1>1, <1>2, <1>7 DEF Kept, IsRound, InHand, Place
<1>9. Kept(server, Gone, f, m, saved[s], r2)
  BY <1>1, <1>3, <1>4, <1>5, <1>6, <1>7 DEF Kept, IsRound, InHand, Place
<1> QED
  BY <1>8, <1>9 DEF r1, r2

(* Only a file that nobody edited goes with its doc.                       *)
LEMMA PullDeletionKeeps ==
  ASSUME KeptInv, NEW s \in Store,
         At(s, "pull"), NEW n \in round[s].todo, PullDeletion(s, n),
         UNCHANGED <<server, unseen, saved, Gone, used>>
  PROVE  KeptInv'
<1> DEFINE c == ValueAt(files[s], n)
           b == ValueAt(meta[s], n)
           f == IF c = b THEN Without(files[s], n) ELSE files[s]
           m == Without(meta[s], n)
<1>1. Kept(server, Gone, files[s], meta[s], saved[s], round[s]) /\ round[s].at = "pull"
  BY StoreIs DEF At
<1>2. meta' = Set(meta, s, m) /\ Go(s, Done(s, n))
  BY DEF PullDeletion
<1>3. files' = Set(files, s, f)
  BY StoreIs, SetSame DEF PullDeletion, Unedited
<1>4. IsFile(Without(files[s], n)) /\ IsFile(m)
  BY <1>1, FileWithout DEF Kept
<1>5. IsFile(f)
  BY <1>1, <1>4 DEF Kept
<1>6. /\ DOMAIN Without(files[s], n) = DOMAIN files[s] \ {n}
      /\ \A x \in DOMAIN files[s] : x # n => Without(files[s], n)[x] = files[s][x]
      /\ DOMAIN m = DOMAIN meta[s] \ {n} /\ \A x \in DOMAIN meta[s] : x # n => m[x] = meta[s][x]
  BY DEF Without, Restrict
<1>7. /\ n \notin DOMAIN m
      /\ \A x : x # n => ValueAt(f, x) = ValueAt(files[s], x)
  BY <1>6 DEF ValueAt, Has
<1>8. Confirms(server, Gone, f, m)
  BY <1>1, <1>6, <1>7 DEF Kept, Confirms
<1>9. \A x \in DOMAIN files[s] : Found(server, Gone, f, files[s][x])
  <2> SUFFICES ASSUME NEW x \in DOMAIN files[s] PROVE Found(server, Gone, f, files[s][x])
    OBVIOUS
  <2>1. CASE x # n \/ c # b
    BY <1>6, <2>1 DEF Found
  <2>2. CASE x = n /\ c = b
    <3>1. c # 0 /\ c = files[s][x]
      BY <1>1, <2>2 DEF ValueAt, Has, Kept, IsFile
    <3>2. Known(server, Gone, n, c)
      BY <1>1, <2>2, <3>1 DEF Kept, Confirms, ValueAt, Has
    <3> QED
      BY <3>1, <3>2 DEF Known, Found, CurrentOf, Has
  <2> QED
    BY <2>1, <2>2
<1> HIDE DEF f, m
<1>10. Kept(server, Gone, f, m, saved[s], Done(s, n))
  BY <1>1, <1>4, <1>5, <1>8, DoneKept
<1> QED
  BY <1>2, <1>3, <1>9, <1>10, RoundActs

(* An edited file moves aside before the bytes are fetched.                *)
LEMMA PullContentKeeps ==
  ASSUME KeptInv, NEW s \in Store,
         At(s, "pull"), NEW n \in round[s].todo, PullContent(s, n),
         UNCHANGED <<server, unseen, saved, Gone, used>>
  PROVE  KeptInv'
<1> DEFINE R == round[s]
           there == R.waiting[n].content
           c == ValueAt(files[s], n)
           b == ValueAt(meta[s], n)
           r == [R EXCEPT !.at = "fetch", !.doc = n, !.raced = {}]
<1>1. Kept(server, Gone, files[s], meta[s], saved[s], R) /\ R.at = "pull"
  BY StoreIs DEF At
<1>2. n \in DOMAIN R.waiting /\ n \in Name /\ Known(server, Gone, n, there) /\ there # 0
  BY <1>1 DEF Kept, IsRound, Heard, IsDocs, Doc
<1>3. r.at = "fetch" /\ r.doc = n /\ r.todo = R.todo /\ r.waiting = R.waiting /\ r.meta = R.meta /\ DOMAIN r = DOMAIN R
  BY <1>1 DEF Kept, IsRound
<1>4. \/ Go(s, Done(s, n)) /\ UNCHANGED <<files, meta>>
      \/ c = there /\ meta' = Set(meta, s, With(meta[s], n, there)) /\ Go(s, Done(s, n)) /\ UNCHANGED files
      \/ Go(s, r) /\ c \in {0, b} /\ UNCHANGED <<files, meta>>
      \/ /\ Go(s, r) /\ c # 0
         /\ files' = Set(files, s, KeptAsConflict(s, n)) /\ meta' = Set(meta, s, Without(meta[s], n))
  BY DEF PullContent
<1> HIDE DEF r
<1>5. CASE Go(s, Done(s, n)) /\ UNCHANGED <<files, meta>>
  <2>1. Kept(server, Gone, files[s], meta[s], saved[s], Done(s, n))
    BY <1>1, DoneKept DEF Kept
  <2> QED
    BY <1>5, <2>1, RoundGoes
<1>6. CASE c = there /\ meta' = Set(meta, s, With(meta[s], n, there)) /\ Go(s, Done(s, n)) /\ UNCHANGED files
  <2>1. there \in Nat \ {0}
    BY <1>1, <1>2, <1>6 DEF ValueAt, Has, Kept, IsFile
  <2>2. IsFile(With(meta[s], n, there))
    BY <1>1, <1>2, <2>1, FileWith DEF Kept
  <2>3. Confirms(server, Gone, files[s], With(meta[s], n, there))
    BY <1>1, <1>2, <1>6, WithConfirms DEF Kept
  <2>4. Kept(server, Gone, files[s], With(meta[s], n, there), saved[s], Done(s, n))
    BY <1>1, <2>2, <2>3, DoneKept DEF Kept
  <2>5. files' = Set(files, s, files[s])
    BY <1>6, StoreIs, SetSame
  <2> QED
    BY <1>6, <2>4, <2>5, SameFiles, RoundActs
<1>7. CASE Go(s, r) /\ c \in {0, b} /\ UNCHANGED <<files, meta>>
  <2>1. Known(server, Gone, n, c)
    BY <1>1, <1>7 DEF Kept, Confirms, ValueAt, Has, Known
  <2>2. Kept(server, Gone, files[s], meta[s], saved[s], r)
    BY <1>1, <1>2, <1>3, <2>1 DEF Kept, IsRound, InHand, Place
  <2> QED
    BY <1>7, <2>2, RoundGoes
<1>8. CASE /\ Go(s, r) /\ c # 0
           /\ files' = Set(files, s, KeptAsConflict(s, n)) /\ meta' = Set(meta, s, Without(meta[s], n))
  <2>1. n \in DOMAIN files[s] /\ IsFile(files[s]) /\ IsFile(meta[s])
    BY <1>1, <1>8 DEF ValueAt, Has, Kept
  <2>5. IsFile(KeptAsConflict(s, n)) /\ ValueAt(KeptAsConflict(s, n), n) = 0
    BY <2>1, MovedIs
  <2>2. \A m \in DOMAIN files[s] : Found(server, Gone, KeptAsConflict(s, n), files[s][m])
    BY <2>1, MovedIs DEF Found
  <2>3. Confirms(server, Gone, KeptAsConflict(s, n), Without(meta[s], n)) /\ IsFile(Without(meta[s], n))
    BY <1>1, <2>1, MovedConfirms, FileWithout DEF Kept
  <2>4. Kept(server, Gone, KeptAsConflict(s, n), Without(meta[s], n), saved[s], r)
    BY <1>1, <1>2, <1>3, <2>5, <2>3 DEF Kept, IsRound, InHand, Place, Known
  <2> QED
    BY <1>8, <2>2, <2>4, RoundActs
<1> QED
  BY <1>4, <1>5, <1>6, <1>7, <1>8

(* A change is pulled.                                                     *)
LEMMA PullKeeps ==
  ASSUME KeptInv, NEW s \in Store, Pull(s)
  PROVE  KeptInv'
<1>1. At(s, "pull") /\ UNCHANGED <<server, unseen, saved, Gone, used>>
  BY DEF Pull, Gone
<1>2. PICK n \in round[s].todo : IF s \in damaged THEN Go(s, Later(s, n)) /\ UNCHANGED <<files, meta>>
                                 ELSE IF round[s].waiting[n].there THEN PullContent(s, n) ELSE PullDeletion(s, n)
  BY DEF Pull
<1>3. CASE Go(s, Later(s, n)) /\ UNCHANGED <<files, meta>>
  <2>1. Kept(server, Gone, files[s], meta[s], saved[s], Later(s, n))
    BY <1>1, StoreIs, DoneKept DEF Kept, At
  <2> QED
    BY <1>1, <1>3, <2>1, RoundGoes
<1> QED
  BY <1>1, <1>2, <1>3, PullContentKeeps, PullDeletionKeeps

(* The bytes replace what the server had, or a person replaced, or wrote   *)
(* meanwhile.                                                              *)
LEMMA FetchKeeps ==
  ASSUME KeptInv, NEW s \in Store, Fetch(s)
  PROVE  KeptInv'
<1> DEFINE R == round[s]
           n == R.doc
           c == Current(n)
           f == With(files[s], n, c)
           m == With(meta[s], n, c)
<1>1. Kept(server, Gone, files[s], meta[s], saved[s], R) /\ R.at = "fetch" /\ IsDocs(server)
  BY StoreIs DEF Fetch, At, DocsTypes
<1>2. UNCHANGED <<server, unseen, saved, used>>
  BY DEF Fetch
<1>3. \/ (Go(s, Done(s, n)) \/ Go(s, Later(s, n))) /\ UNCHANGED <<files, meta, Gone>>
      \/ /\ There(n) /\ files' = Set(files, s, f) /\ meta' = Set(meta, s, m) /\ Go(s, Done(s, n))
         /\ Gone' = Gone \cup ({ValueAt(files[s], n)} \cap R.raced)
  BY DEF Fetch, Gone
<1>4. CASE (Go(s, Done(s, n)) \/ Go(s, Later(s, n))) /\ UNCHANGED <<files, meta, Gone>>
  <2>1. /\ Kept(server, Gone, files[s], meta[s], saved[s], Done(s, n))
        /\ Kept(server, Gone, files[s], meta[s], saved[s], Later(s, n))
    BY <1>1, DoneKept DEF Kept
  <2> QED
    BY <1>2, <1>4, <2>1, RoundGoes
<1>5. CASE /\ There(n) /\ files' = Set(files, s, f) /\ meta' = Set(meta, s, m) /\ Go(s, Done(s, n))
           /\ Gone' = Gone \cup ({ValueAt(files[s], n)} \cap R.raced)
  <2>1. n \in Name /\ c \in Nat \ {0} /\ c = CurrentOf(server, n)
    BY <1>1, <1>5 DEF Kept, IsRound, There, Current, CurrentOf, Has, IsDocs, Doc
  <2>2. IsFile(f) /\ IsFile(m)
    BY <1>1, <2>1, FileWith DEF Kept
  <2>3. /\ DOMAIN f = DOMAIN files[s] \cup {n} /\ f[n] = c /\ \A x \in DOMAIN files[s] : x # n => f[x] = files[s][x]
        /\ DOMAIN m = DOMAIN meta[s] \cup {n} /\ m[n] = c /\ \A x \in DOMAIN meta[s] : x # n => m[x] = meta[s][x]
    BY DEF With
  <2> HIDE DEF f, m, c
  <2>4. \A x : x # n => ValueAt(f, x) = ValueAt(files[s], x)
    BY <2>3 DEF ValueAt, Has
  <2>5. Confirms(server, Gone, f, m)
    <3> SUFFICES ASSUME NEW x \in DOMAIN m PROVE Known(server, Gone, x, m[x]) /\ (ValueAt(f, x) = m[x] \/ m[x] \in Gone)
      BY DEF Confirms
    <3>1. CASE x = n
      BY <2>1, <2>3, <3>1 DEF Known, ValueAt, Has
    <3>2. CASE x # n
      BY <1>1, <2>3, <2>4, <3>2 DEF Kept, Confirms
    <3> QED
      BY <3>1, <3>2
  <2>6. \A x \in DOMAIN files[s] : Found(server', Gone', f, files[s][x])
    <3> SUFFICES ASSUME NEW x \in DOMAIN files[s] PROVE Found(server', Gone', f, files[s][x])
      OBVIOUS
    <3>1. CASE x # n
      BY <2>3, <3>1 DEF Found
    <3>2. CASE x = n
      <4>1. ValueAt(files[s], n) = files[s][x] /\ files[s][x] # 0
        BY <1>1, <3>2 DEF Kept, ValueAt, Has, IsFile
      <4>2. Known(server, Gone, n, files[s][x]) \/ files[s][x] \in Gone'
        BY <1>1, <1>5, <4>1 DEF Kept
      <4> QED
        BY <1>2, <1>5, <2>1, <2>3, <4>1, <4>2 DEF Known, Found
    <3> QED
      BY <3>1, <3>2
  <2>7. Kept(server, Gone, f, m, saved[s], Done(s, n))
    BY <1>1, <2>2, <2>5, DoneKept
  <2>8. /\ Gone \subseteq Gone' /\ Recalls(server, Gone, server', Gone')
        /\ IsDocs(server') /\ Tombs(server', Gone')
        /\ saved' = Set(saved, s, saved[s]) /\ round' = Set(round, s, Done(s, n))
        /\ unseen' \in [Store -> SUBSET DOMAIN server']
        /\ used' \in [contents : Nat, deletes : Nat, damages : Nat, failures : Nat] /\ used.contents = used'.contents
    BY <1>2, <1>5, StoreIs, SetSame DEF Recalls, DocsTypes, Tombs, Go
  <2>9. Kept(server', Gone', f, m, saved[s], Done(s, n))
    BY <2>7, <2>8, KeptStays
  <2>10. used.contents <= used'.contents /\ \A x \in 1..used'.contents : x \in 1..used.contents
    BY <2>8, StoreIs
  <2> HIDE DEF Found
  <2> QED
    BY <1>5, <2>6, <2>8, <2>9, <2>10, StoreActs
<1> QED
  BY <1>3, <1>4, <1>5

(* The push begins with the bases of the sidecar.                          *)
LEMMA EndPullKeeps ==
  ASSUME KeptInv, NEW s \in Store, EndPull(s)
  PROVE  KeptInv'
<1> DEFINE R == round[s]
           r == IF R.then = "push"
                THEN [R EXCEPT !.at = "push", !.meta = meta[s], !.todo = DOMAIN meta[s] \cup DOMAIN files[s]]
                ELSE [R EXCEPT !.at = "end"]
<1>1. Kept(server, Gone, files[s], meta[s], saved[s], R)
  BY StoreIs
<1>2. Go(s, r) /\ UNCHANGED <<server, unseen, files, meta, saved, Gone, used>>
  BY DEF EndPull, Gone
<1>3. /\ r.waiting = R.waiting /\ r.doc = R.doc /\ DOMAIN r = DOMAIN R
      /\ \/ r.at = "push" /\ r.meta = meta[s] /\ r.todo = DOMAIN meta[s] \cup DOMAIN files[s]
         \/ r.at = "end" /\ r.meta = R.meta /\ r.todo = R.todo
  BY <1>1 DEF Kept, IsRound
<1> HIDE DEF r
<1>4. Kept(server, Gone, files[s], meta[s], saved[s], r)
  BY <1>1, <1>3 DEF Kept, IsRound, IsFile, InHand, Place
<1> QED
  BY <1>2, <1>4, RoundGoes

(* A file that differs from its base was edited since.                     *)
LEMMA PushDocKeeps ==
  ASSUME KeptInv, NEW s \in Store, PushDoc(s)
  PROVE  KeptInv'
<1> DEFINE R == round[s]
<1>1. Kept(server, Gone, files[s], meta[s], saved[s], R) /\ R.at = "push"
  BY StoreIs DEF PushDoc, At
<1>2. UNCHANGED <<server, unseen, files, meta, saved, Gone, used>>
  BY DEF PushDoc, Gone
<1>3. PICK n \in R.todo :
        \/ Go(s, Pushed(s, n, R.meta))
        \/ Has(files[s], n) /\ files[s][n] # BaseOf(s, n) /\ Go(s, [R EXCEPT !.at = "record", !.doc = n, !.content = files[s][n]])
        \/ ~Has(files[s], n) /\ BaseOf(s, n) # 0 /\ Go(s, [R EXCEPT !.at = "remove", !.doc = n])
  BY DEF PushDoc
<1> DEFINE b == ValueAt(R.meta, n)
           r1 == Pushed(s, n, R.meta)
           r2 == [R EXCEPT !.at = "record", !.doc = n, !.content = files[s][n]]
           r3 == [R EXCEPT !.at = "remove", !.doc = n]
<1>4. r1.at = "push" /\ r1.todo \subseteq R.todo /\ r1.meta = R.meta /\ r1.waiting = R.waiting /\ r1.doc = R.doc /\ DOMAIN r1 = DOMAIN R
  BY <1>1 DEF Kept, IsRound, Pushed
<1>5. /\ r2.at = "record" /\ r2.todo = R.todo /\ r2.meta = R.meta /\ r2.waiting = R.waiting /\ r2.doc = n /\ DOMAIN r2 = DOMAIN R
      /\ r2.content = files[s][n]
  BY <1>1 DEF Kept, IsRound
<1>6. r3.at = "remove" /\ r3.todo = R.todo /\ r3.meta = R.meta /\ r3.waiting = R.waiting /\ r3.doc = n /\ DOMAIN r3 = DOMAIN R
  BY <1>1 DEF Kept, IsRound
<1>7. Confirms(server, Gone, files[s], R.meta) /\ n \in Name
  BY <1>1 DEF Kept, InHand, IsRound
<1>8. ValueAt(files[s], n) # b => b \in Gone \cup {0}
  BY <1>7 DEF Confirms, ValueAt, Has
<1>9. \/ Go(s, r1)
      \/ Has(files[s], n) /\ files[s][n] # b /\ Go(s, r2)
      \/ ~Has(files[s], n) /\ b # 0 /\ Go(s, r3)
  BY <1>3 DEF BaseOf
<1> HIDE DEF r1, r2, r3
<1>10. CASE Go(s, r1)
  <2>1. Kept(server, Gone, files[s], meta[s], saved[s], r1)
    BY <1>1, <1>4 DEF Kept, IsRound, InHand, Place
  <2> QED
    BY <1>2, <1>10, <2>1, RoundGoes
<1>11. CASE Has(files[s], n) /\ files[s][n] # b /\ Go(s, r2)
  <2>1. ValueAt(files[s], n) = files[s][n] /\ files[s][n] \in Nat \ {0}
    BY <1>1, <1>11 DEF ValueAt, Kept, IsFile, Has
  <2>2. Kept(server, Gone, files[s], meta[s], saved[s], r2)
    BY <1>1, <1>5, <1>7, <1>8, <1>11, <2>1 DEF Kept, IsRound, InHand, Place
  <2> QED
    BY <1>2, <1>11, <2>2, RoundGoes
<1>12. CASE ~Has(files[s], n) /\ b # 0 /\ Go(s, r3)
  <2>1. b \in Gone \ {0}
    BY <1>8, <1>12 DEF ValueAt
  <2>2. Kept(server, Gone, files[s], meta[s], saved[s], r3)
    BY <1>1, <1>6, <1>7, <2>1 DEF Kept, IsRound, InHand, Place
  <2> QED
    BY <1>2, <1>12, <2>2, RoundGoes
<1> QED
  BY <1>9, <1>10, <1>11, <1>12

(* The bases in memory become the sidecar's.                               *)
LEMMA EndPushKeeps ==
  ASSUME KeptInv, NEW s \in Store, EndPush(s)
  PROVE  KeptInv'
<1> DEFINE R == round[s]
           r == [R EXCEPT !.at = "pull", !.then = "end", !.todo = DOMAIN R.waiting]
<1>1. Kept(server, Gone, files[s], meta[s], saved[s], R) /\ R.at = "push"
  BY StoreIs DEF EndPush, At
<1>2. meta' = Set(meta, s, R.meta) /\ Go(s, r) /\ UNCHANGED <<server, unseen, files, saved, Gone, used>>
  BY DEF EndPush, Gone
<1>3. r.at = "pull" /\ r.todo = DOMAIN R.waiting /\ r.waiting = R.waiting /\ r.meta = R.meta /\ r.doc = R.doc /\ DOMAIN r = DOMAIN R
  BY <1>1 DEF Kept, IsRound
<1> HIDE DEF r
<1>4. Kept(server, Gone, files[s], R.meta, saved[s], r)
  BY <1>1, <1>3 DEF Kept, IsRound, IsDocs, InHand, Place
<1>5. files' = Set(files, s, files[s])
  BY <1>2, StoreIs, SetSame
<1> QED
  BY <1>2, <1>4, <1>5, SameFiles, RoundActs
-----------------------------------------------------------------------------
(* A person writes or deletes a file, having its content before him; a     *)
(* round that fetches it is raced.                                         *)
Races(r, n, v, r2) ==
  /\ DOMAIN r2 = DOMAIN r /\ \A x \in DOMAIN r \ {"raced"} : r2[x] = r[x]
  /\ r.raced \subseteq r2.raced
  /\ r.at = "fetch" /\ r.doc = n => v \in r2.raced \cup {0}

LEMMA EditKept ==
  ASSUME NEW d, NEW g, NEW f, NEW m, NEW w, NEW r, Kept(d, g, f, m, w, r),
         NEW n, ValueAt(f, n) \in g \cup {0},
         NEW f2, IsFile(f2), \A x : x # n => ValueAt(f2, x) = ValueAt(f, x),
         NEW r2, Races(r, n, ValueAt(f2, n), r2)
  PROVE  Kept(d, g, f2, m, w, r2)
<1>1. ASSUME NEW b, IsFile(b), Confirms(d, g, f, b) PROVE Confirms(d, g, f2, b)
  BY <1>1 DEF Confirms, IsFile
<1>2. /\ DOMAIN r2 = DOMAIN r /\ r2.at = r.at /\ r2.todo = r.todo /\ r2.doc = r.doc /\ r2.content = r.content
      /\ r2.waiting = r.waiting /\ r2.meta = r.meta
  BY DEF Races, Kept, IsRound
<1>3. r.raced \subseteq r2.raced /\ (r.at = "fetch" /\ r.doc = n => ValueAt(f2, n) \in r2.raced \cup {0})
  BY DEF Races
<1>4. IsRound(r2)
  BY <1>2 DEF Kept, IsRound
<1>5. r2.at = "fetch" => ValueAt(f2, r2.doc) \in r2.raced \/ Known(d, g, r2.doc, ValueAt(f2, r2.doc))
  BY <1>2, <1>3 DEF Kept, Known
<1>6. r2.at \in InHand => Confirms(d, g, f2, r2.meta)
  BY <1>1, <1>2 DEF Kept, IsRound
<1> QED
  BY <1>1, <1>2, <1>4, <1>5, <1>6 DEF Kept

(* So the invariant is kept.                                               *)
LEMMA PersonActs ==
  ASSUME KeptInv, NEW s \in Store, NEW n, NEW f, IsFile(f), NEW r, Races(round[s], n, ValueAt(f, n), r),
         files' = Set(files, s, f), round' = Set(round, s, r), Knowingly(ValueAt(files[s], n)),
         \A x : x # n => ValueAt(f, x) = ValueAt(files[s], x),
         UNCHANGED <<server, unseen, meta, saved, overrun>>,
         used' \in [contents : Nat, deletes : Nat, damages : Nat, failures : Nat], used.contents <= used'.contents,
         \A c \in 1..used'.contents : c \in 1..used.contents \/ \E l \in DOMAIN f : f[l] = c
  PROVE  KeptInv'
<1>1. Gone' = Gone \cup ({ValueAt(files[s], n)} \ {0})
  BY DEF Knowingly, Gone
<1>2. Recalls(server, Gone, server', Gone')
  BY <1>1 DEF Recalls
<1>3. Kept(server, Gone, files[s], meta[s], saved[s], round[s]) /\ IsDocs(server) /\ Tombs(server, Gone)
  BY StoreIs DEF DocsTypes
<1>4. Kept(server', Gone', files[s], meta[s], saved[s], round[s])
  BY <1>2, <1>3, KeptStays
<1>5. Kept(server', Gone', f, meta[s], saved[s], r)
  BY <1>1, <1>4, EditKept
<1>6. IsDocs(server') /\ Tombs(server', Gone')
  BY <1>1, <1>3 DEF Tombs
<1>7. \A l \in DOMAIN files[s] : Found(server', Gone', f, files[s][l])
  <2> SUFFICES ASSUME NEW l \in DOMAIN files[s] PROVE Found(server', Gone', f, files[s][l])
    OBVIOUS
  <2>1. files[s][l] # 0 /\ ValueAt(files[s], l) = files[s][l]
    BY <1>3 DEF Kept, IsFile, ValueAt, Has
  <2>2. CASE l = n
    BY <1>1, <2>1, <2>2 DEF Found
  <2>3. CASE l # n
    BY <2>1, <2>3 DEF Found, ValueAt, Has
  <2> QED
    BY <2>2, <2>3
<1>8. /\ meta' = Set(meta, s, meta[s]) /\ saved' = Set(saved, s, saved[s])
      /\ unseen' \in [Store -> SUBSET DOMAIN server']
  BY StoreIs, SetSame
<1>9. Gone \subseteq Gone'
  BY <1>1
<1> QED
  BY <1>2, <1>5, <1>6, <1>7, <1>8, <1>9, StoreActs

(* A file is written,                                                      *)
LEMMA EditFileKeeps ==
  ASSUME KeptInv, NEW s \in Store, EditFile(s)
  PROVE  KeptInv'
<1> DEFINE R == round[s]
           c == used.contents + 1
<1>1. PICK n \in {Empty} \cup DOMAIN files[s] :
        /\ files' = Set(files, s, With(files[s], n, c))
        /\ Knowingly(ValueAt(files[s], n))
        /\ round' = Set(round, s, [R EXCEPT !.raced = @ \cup {x \in {c} : Fetching(s, n)}])
  BY DEF EditFile
<1> DEFINE f == With(files[s], n, c)
           r == [R EXCEPT !.raced = @ \cup {x \in {c} : Fetching(s, n)}]
<1>2. IsFile(files[s]) /\ used.contents \in Nat /\ n \in Name /\ IsRound(R)
  BY StoreIs, FileEmpty DEF Kept, IsFile
<1>3. IsFile(f) /\ ValueAt(f, n) = c /\ \A x : x # n => ValueAt(f, x) = ValueAt(files[s], x)
  <2>1. c \in Nat \ {0}
    BY <1>2
  <2>2. IsFile(f)
    BY <1>2, <2>1, FileWith
  <2>3. ValueAt(f, n) = c /\ \A x : x # n => ValueAt(f, x) = ValueAt(files[s], x)
    BY DEF With, ValueAt, Has
  <2> QED
    BY <2>2, <2>3
<1>4. n \in DOMAIN f /\ f[n] = c
  BY DEF With
<1>5. used' = [used EXCEPT !.contents = @ + 1] /\ UNCHANGED <<server, unseen, meta, saved, overrun>>
  BY DEF EditFile, Happens
<1>6. used' \in [contents : Nat, deletes : Nat, damages : Nat, failures : Nat] /\ used'.contents = c
  BY <1>5, StoreIs
<1>7. Races(R, n, c, r)
  BY <1>2 DEF Races, Fetching, At, IsRound
<1>8. \A x \in 1..used'.contents : x \in 1..used.contents \/ f[n] = x
  BY <1>2, <1>4, <1>6
<1>9. files' = Set(files, s, f) /\ round' = Set(round, s, r)
  BY <1>1
<1>10. used.contents <= used'.contents
  BY <1>2, <1>6
<1> HIDE DEF f, r, c
<1> QED
  BY <1>1, <1>3, <1>4, <1>5, <1>6, <1>7, <1>8, <1>9, <1>10, PersonActs

(* or deleted.                                                             *)
LEMMA DeleteFileKeeps ==
  ASSUME KeptInv, NEW s \in Store, DeleteFile(s)
  PROVE  KeptInv'
<1>1. PICK n \in DOMAIN files[s] :
        /\ files' = Set(files, s, Without(files[s], n))
        /\ Knowingly(files[s][n])
  BY DEF DeleteFile
<1> DEFINE f == Without(files[s], n)
<1>2. IsFile(files[s]) /\ used.contents \in Nat /\ IsRound(round[s])
  BY StoreIs DEF Kept
<1>3. IsFile(f) /\ ValueAt(f, n) = 0 /\ \A x : x # n => ValueAt(f, x) = ValueAt(files[s], x)
  BY <1>2, FileWithout, WithoutIs
<1>4. used' \in [contents : Nat, deletes : Nat, damages : Nat, failures : Nat] /\ used'.contents = used.contents
  BY StoreIs DEF DeleteFile, Happens
<1>5. UNCHANGED <<server, unseen, meta, saved, overrun>> /\ round' = Set(round, s, round[s])
  BY StoreIs, SetSame DEF DeleteFile
<1>6. Races(round[s], n, 0, round[s])
  BY <1>2 DEF Races, IsRound
<1>7. Knowingly(ValueAt(files[s], n))
  BY <1>1 DEF ValueAt, Has
<1> HIDE DEF f
<1>8. files' = Set(files, s, f)
  BY <1>1 DEF f
<1>9. used.contents <= used'.contents
  BY <1>2, <1>4
<1> QED
  BY <1>3, <1>4, <1>5, <1>6, <1>7, <1>8, <1>9, PersonActs

-----------------------------------------------------------------------------
(* The server's doc n becomes x, its content of now being gone.            *)
LEMMA ServerIs ==
  ASSUME KeptInv, NEW n \in Name, NEW x \in Doc, server' = With(server, n, x), Tell(n),
         Gone \subseteq Gone', CurrentOf(server, n) \in Gone' \cup {0},
         ~x.there => x.content \in Gone'
  PROVE  /\ IsDocs(server') /\ Tombs(server', Gone') /\ unseen' \in [Store -> SUBSET DOMAIN server']
         /\ Recalls(server, Gone, server', Gone')
         /\ n \in DOMAIN server' /\ CurrentOf(server', n) = IF x.there THEN x.content ELSE 0
<1>1. IsDocs(server) /\ Tombs(server, Gone) /\ unseen \in [Store -> SUBSET DOMAIN server]
  BY DEF KeptInv, DocsTypes
<1>2. /\ DOMAIN server' = DOMAIN server \cup {n} /\ server'[n] = x
      /\ \A m \in DOMAIN server : m # n => server'[m] = server[m]
  BY DEF With
<1>3. IsDocs(server')
  BY <1>1, DocsWith
<1>4. \A m : m # n => CurrentOf(server', m) = CurrentOf(server, m)
  BY <1>2 DEF CurrentOf, Has
<1>5. unseen' \in [Store -> SUBSET DOMAIN server']
  BY <1>1, <1>2 DEF Tell
<1>6. Recalls(server, Gone, server', Gone')
  BY <1>4 DEF Recalls
<1>7. Tombs(server', Gone')
  BY <1>1, <1>2 DEF Tombs
<1> QED
  BY <1>2, <1>3, <1>5, <1>6, <1>7 DEF CurrentOf, Has

(* A doc is uploaded, or deleted, on the dashboard.                        *)
LEMMA OnDashboardKeeps ==
  ASSUME KeptInv, OnDashboard
  PROVE  KeptInv'
<1>1. Gone' = Gone \cup ({Current(Empty)} \ {0}) /\ UNCHANGED <<files, meta, saved, round>>
  BY DEF OnDashboard, Knowingly, Gone
<1>2. Empty \in Name /\ used \in [contents : Nat, deletes : Nat, damages : Nat, failures : Nat]
  BY FileEmpty DEF KeptInv, DocsTypes
<1>3. CurrentOf(server, Empty) = Current(Empty)
  BY DEF Current, CurrentOf, There
<1> DEFINE x == [there |-> TRUE, content |-> used.contents + 1]
           y == [there |-> FALSE, content |-> Current(Empty)]
<1>4. /\ IsDocs(server') /\ Tombs(server', Gone') /\ unseen' \in [Store -> SUBSET DOMAIN server']
      /\ Recalls(server, Gone, server', Gone')
      /\ used' \in [contents : Nat, deletes : Nat, damages : Nat, failures : Nat] /\ used.contents <= used'.contents
      /\ \A c \in 1..used'.contents : c \in 1..used.contents \/ \E n \in DOMAIN server' : CurrentOf(server', n) = c
  <2>1. CASE Happens("contents") /\ Put(Empty, used.contents + 1)
    <3>1. x \in Doc /\ x.there /\ x.content = used.contents + 1
      BY <1>2 DEF Doc
    <3>2. server' = With(server, Empty, x) /\ Tell(Empty)
      BY <2>1 DEF Put
    <3> HIDE DEF x
    <3>3. /\ IsDocs(server') /\ Tombs(server', Gone') /\ unseen' \in [Store -> SUBSET DOMAIN server']
          /\ Recalls(server, Gone, server', Gone')
          /\ Empty \in DOMAIN server' /\ CurrentOf(server', Empty) = used.contents + 1
      BY <1>1, <1>2, <1>3, <3>1, <3>2, ServerIs
    <3>4. used' \in [contents : Nat, deletes : Nat, damages : Nat, failures : Nat] /\ used'.contents = used.contents + 1
      BY <1>2, <2>1 DEF Happens
    <3>5. \A c \in 1..used'.contents : c \in 1..used.contents \/ c = used.contents + 1
      BY <1>2, <3>4
    <3> QED
      BY <1>2, <3>3, <3>4, <3>5
  <2>2. CASE There(Empty) /\ Happens("deletes") /\ TakeOff(Empty)
    <3>1. y \in Doc /\ ~y.there /\ y.content = Current(Empty) /\ Current(Empty) # 0
      BY <2>2 DEF Doc, KeptInv, DocsTypes, IsDocs, Current, There, Has
    <3>2. server' = With(server, Empty, y) /\ Tell(Empty)
      BY <2>2 DEF TakeOff
    <3> HIDE DEF y
    <3>3. /\ IsDocs(server') /\ Tombs(server', Gone') /\ unseen' \in [Store -> SUBSET DOMAIN server']
          /\ Recalls(server, Gone, server', Gone')
      BY <1>1, <1>2, <1>3, <3>1, <3>2, ServerIs
    <3>4. used' \in [contents : Nat, deletes : Nat, damages : Nat, failures : Nat] /\ used'.contents = used.contents
      BY <1>2, <2>2 DEF Happens
    <3> QED
      BY <1>2, <3>3, <3>4
  <2> QED
    BY <2>1, <2>2 DEF OnDashboard
<1>5. DocsTypes'
  BY <1>1, <1>4 DEF KeptInv, DocsTypes
<1> QED
  BY <1>1, <1>4, <1>5, StepKeeps

-----------------------------------------------------------------------------
(* A request of round r, which has doc n in hand, with base b.             *)
LEMMA RecordedKept ==
  ASSUME KeptInv, NEW s \in Store, round[s].at = "record",
         Recorded(round[s].doc, round[s].content, BaseOf(s, round[s].doc)), UNCHANGED Gone
  PROVE  /\ IsDocs(server') /\ Tombs(server', Gone') /\ unseen' \in [Store -> SUBSET DOMAIN server']
         /\ Recalls(server, Gone, server', Gone')
         /\ Kept(server', Gone', files[s], meta[s], saved[s], round[s])
         /\ Accepts(round[s].doc, round[s].content, BaseOf(s, round[s].doc)) => CurrentOf(server', round[s].doc) = round[s].content
         /\ ~Accepts(round[s].doc, round[s].content, BaseOf(s, round[s].doc)) => UNCHANGED <<server, unseen>>
<1> DEFINE R == round[s]
           n == R.doc
           c == R.content
           b == ValueAt(R.meta, n)
           x == [there |-> TRUE, content |-> c]
<1>1. Kept(server, Gone, files[s], meta[s], saved[s], R) /\ IsDocs(server) /\ Tombs(server, Gone)
  BY StoreIs DEF DocsTypes
<1>2. n \in Name /\ c \in Nat \ {0} /\ b \in Gone \cup {0}
  BY <1>1 DEF Kept, IsRound
<1>3. Current(n) = CurrentOf(server, n)
  BY DEF Current, CurrentOf, There
<1>4. IF Current(n) # c /\ Current(n) = b THEN Put(n, c) ELSE UNCHANGED <<server, unseen>>
  BY DEF Recorded, Takes, BaseOf
<1>5. Accepts(n, c, BaseOf(s, n)) <=> Current(n) = c \/ Current(n) = b
  BY DEF Accepts, Takes, BaseOf
<1>6. CASE Current(n) # c /\ Current(n) = b
  <2>1. x \in Doc /\ x.there /\ x.content = c
    BY <1>2 DEF Doc
  <2>2. server' = With(server, n, x) /\ Tell(n)
    BY <1>4, <1>6 DEF Put
  <2> HIDE DEF x
  <2>3. /\ IsDocs(server') /\ Tombs(server', Gone') /\ unseen' \in [Store -> SUBSET DOMAIN server']
        /\ Recalls(server, Gone, server', Gone') /\ CurrentOf(server', n) = c
    BY <1>2, <1>3, <1>6, <2>1, <2>2, ServerIs
  <2>4. Kept(server', Gone', files[s], meta[s], saved[s], R)
    BY <1>1, <2>3, KeptStays
  <2> QED
    BY <1>5, <1>6, <2>3, <2>4
<1>7. CASE ~(Current(n) # c /\ Current(n) = b)
  <2>1. UNCHANGED <<server, unseen>>
    BY <1>4, <1>7
  <2>2. Recalls(server, Gone, server', Gone') /\ unseen' \in [Store -> SUBSET DOMAIN server']
    BY <2>1, StoreIs DEF Recalls
  <2>3. Kept(server', Gone', files[s], meta[s], saved[s], R) /\ IsDocs(server') /\ Tombs(server', Gone')
    BY <1>1, <2>1
  <2> QED
    BY <1>3, <1>5, <1>7, <2>1, <2>2, <2>3
<1> QED
  BY <1>6, <1>7

(* The same of a removal.                                                  *)
LEMMA TakenOffKept ==
  ASSUME KeptInv, NEW s \in Store, round[s].at = "remove",
         \/ UNCHANGED <<server, unseen>>
         \/ Takes(round[s].doc, BaseOf(s, round[s].doc)) /\ TakeOff(round[s].doc),
         UNCHANGED Gone
  PROVE  /\ IsDocs(server') /\ Tombs(server', Gone') /\ unseen' \in [Store -> SUBSET DOMAIN server']
         /\ Recalls(server, Gone, server', Gone')
         /\ Kept(server', Gone', files[s], meta[s], saved[s], round[s])
<1> DEFINE R == round[s]
           n == R.doc
           b == ValueAt(R.meta, n)
           x == [there |-> FALSE, content |-> Current(n)]
<1>1. Kept(server, Gone, files[s], meta[s], saved[s], R) /\ IsDocs(server) /\ Tombs(server, Gone)
  BY StoreIs DEF DocsTypes
<1>2. n \in Name /\ b \in Gone \ {0} /\ IsFile(R.meta)
  BY <1>1 DEF Kept, IsRound
<1>3. Current(n) = CurrentOf(server, n)
  BY DEF Current, CurrentOf, There
<1>4. CASE UNCHANGED <<server, unseen>>
  <2>1. Recalls(server, Gone, server', Gone') /\ unseen' \in [Store -> SUBSET DOMAIN server']
    BY <1>4, StoreIs DEF Recalls
  <2> QED
    BY <1>1, <1>4, <2>1
<1>5. CASE Takes(n, BaseOf(s, n)) /\ TakeOff(n)
  <2>1. Current(n) = b /\ b \in Nat \ {0}
    BY <1>2, <1>5 DEF Takes, BaseOf, ValueAt, Has, IsFile
  <2>2. x \in Doc /\ ~x.there /\ x.content = b
    BY <2>1 DEF Doc
  <2>3. server' = With(server, n, x) /\ Tell(n)
    BY <1>5 DEF TakeOff
  <2> HIDE DEF x
  <2>4. /\ IsDocs(server') /\ Tombs(server', Gone') /\ unseen' \in [Store -> SUBSET DOMAIN server']
        /\ Recalls(server, Gone, server', Gone')
    BY <1>2, <1>3, <2>1, <2>2, <2>3, ServerIs
  <2> QED
    BY <1>1, <2>4, KeptStays
<1> QED
  BY <1>4, <1>5

(* Doc n is pushed, and the base in memory is m.                           *)
LEMMA PushedKept ==
  ASSUME NEW d, NEW g, NEW f, NEW b, NEW w, NEW R, Kept(d, g, f, b, w, R), R.at \in InHand,
         NEW r, DOMAIN r = DOMAIN R, r.at = "push", r.todo \subseteq Name, r.doc = R.doc,
         IsFile(r.meta), Confirms(d, g, f, r.meta), IsDocs(r.waiting), Heard(d, g, r.waiting)
  PROVE  Kept(d, g, f, b, w, r)
  BY DEF Kept, IsRound, InHand, Place

(* What becomes of an upload.                                              *)
LEMMA RecordKeeps ==
  ASSUME KeptInv, NEW s \in Store, Record(s)
  PROVE  KeptInv'
<1> DEFINE R == round[s]
           n == R.doc
           c == R.content
           k == CopyOf(s, n)
           m1 == With(R.meta, n, c)
           m2 == Without(R.meta, n)
           w2 == With(R.waiting, n, server[n])
           r1 == Pushed(s, n, m1)
           r2 == Pushed(s, n, m2)
           r3 == [R EXCEPT !.at = "push", !.meta = Without(@, n), !.recreated = @ \cup {n}]
           r4 == [R EXCEPT !.at = "push", !.todo = (@ \ {n}) \cup {k}, !.recreated = @ \cup {k},
                           !.meta = Without(@, n), !.waiting = With(@, n, server[n])]
           r5 == Pushed(s, n, R.meta)
           ok == Accepts(n, c, BaseOf(s, n))
<1>1. R.at = "record" /\ Recorded(n, c, BaseOf(s, n)) /\ UNCHANGED <<saved, Gone, used>>
  BY DEF Record, At, Gone
<1>2. /\ IsDocs(server') /\ Tombs(server', Gone') /\ unseen' \in [Store -> SUBSET DOMAIN server']
      /\ Recalls(server, Gone, server', Gone')
      /\ Kept(server', Gone', files[s], meta[s], saved[s], R)
      /\ ok => CurrentOf(server', n) = c
      /\ ~ok => UNCHANGED <<server, unseen>>
  BY <1>1, RecordedKept
<1>3. /\ DOMAIN R = {"at", "then", "todo", "doc", "content", "waiting", "meta", "recreated", "raced"}
      /\ R.todo \subseteq Name /\ n \in Name /\ IsDocs(R.waiting) /\ IsFile(R.meta) /\ IsFile(files[s]) /\ IsFile(meta[s])
      /\ Heard(server', Gone', R.waiting)
      /\ Confirms(server', Gone', files[s], R.meta)
      /\ ValueAt(files[s], n) = c \/ c \in Gone'
      /\ c \in Nat \ {0}
  BY <1>1, <1>2 DEF Kept, IsRound, InHand
<1>4. /\ DOMAIN r1 = DOMAIN R /\ r1.at = "push" /\ r1.todo \subseteq Name /\ r1.doc = n /\ r1.meta = m1 /\ r1.waiting = R.waiting
      /\ DOMAIN r2 = DOMAIN R /\ r2.at = "push" /\ r2.todo \subseteq Name /\ r2.doc = n /\ r2.meta = m2 /\ r2.waiting = R.waiting
      /\ DOMAIN r5 = DOMAIN R /\ r5.at = "push" /\ r5.todo \subseteq Name /\ r5.doc = n /\ r5.meta = R.meta /\ r5.waiting = R.waiting
  BY <1>3 DEF Pushed
<1>5. DOMAIN r3 = DOMAIN R /\ r3.at = "push" /\ r3.todo \subseteq Name /\ r3.doc = n /\ r3.meta = m2 /\ r3.waiting = R.waiting
  BY <1>3
<1>6. DOMAIN r4 = DOMAIN R /\ r4.at = "push" /\ r4.todo = (R.todo \ {n}) \cup {k} /\ r4.doc = n /\ r4.meta = m2 /\ r4.waiting = w2
  BY <1>3
<1>7. \/ ok /\ Go(s, r1) /\ UNCHANGED <<files, meta>>
      \/ (Go(s, r2) \/ Go(s, r3)) /\ UNCHANGED <<files, meta>>
      \/ /\ ~ok /\ There(n) /\ Has(files[s], n) /\ Go(s, r4)
         /\ files' = Set(files, s, KeptAsConflict(s, n)) /\ meta' = Set(meta, s, m2)
      \/ Go(s, r5) /\ UNCHANGED <<files, meta>>
  BY DEF Record
<1> HIDE DEF r1, r2, r3, r4, r5, ok
<1>8. /\ saved' = Set(saved, s, saved[s]) /\ used' \in [contents : Nat, deletes : Nat, damages : Nat, failures : Nat]
      /\ used.contents <= used'.contents /\ Gone \subseteq Gone'
      /\ \A x \in 1..used'.contents : x \in 1..used.contents
  BY <1>1, StoreIs, SetSame
<1>9. /\ files = Set(files, s, files[s]) /\ meta = Set(meta, s, meta[s])
      /\ \A x \in DOMAIN files[s] : Found(server', Gone', files[s], files[s][x])
  BY StoreIs, SetSame, SameFiles
<1>10. IsFile(m2) /\ Confirms(server', Gone', files[s], m2)
  BY <1>3, FileWithout, WithoutConfirms
<1>11. ASSUME NEW r, Go(s, r), UNCHANGED <<files, meta>>, Kept(server', Gone', files[s], meta[s], saved[s], r)
       PROVE  KeptInv'
  <2>1. round' = Set(round, s, r)
    BY <1>11 DEF Go
  <2> QED
    BY <1>2, <1>8, <1>9, <1>11, <2>1, StoreActs
<1>12. CASE ok /\ Go(s, r1) /\ UNCHANGED <<files, meta>>
  <2>1. IsFile(m1)
    BY <1>3, FileWith
  <2>2. Known(server', Gone', n, c)
    BY <1>2, <1>12 DEF Known
  <2>3. Confirms(server', Gone', files[s], m1)
    BY <1>3, <2>2, WithConfirms
  <2> HIDE DEF m1
  <2>4. Kept(server', Gone', files[s], meta[s], saved[s], r1)
    BY <1>1, <1>2, <1>3, <1>4, <2>1, <2>3, PushedKept DEF InHand
  <2> QED
    BY <1>11, <1>12, <2>4
<1>13. CASE (Go(s, r2) \/ Go(s, r3)) /\ UNCHANGED <<files, meta>>
  <2> HIDE DEF m2
  <2>1. Kept(server', Gone', files[s], meta[s], saved[s], r2)
    BY <1>1, <1>2, <1>3, <1>4, <1>10, PushedKept DEF InHand
  <2>2. Kept(server', Gone', files[s], meta[s], saved[s], r3)
    BY <1>1, <1>2, <1>3, <1>5, <1>10, PushedKept DEF InHand
  <2> QED
    BY <1>11, <1>13, <2>1, <2>2
<1>14. CASE Go(s, r5) /\ UNCHANGED <<files, meta>>
  <2>1. Kept(server', Gone', files[s], meta[s], saved[s], r5)
    BY <1>1, <1>2, <1>3, <1>4, PushedKept DEF InHand
  <2> QED
    BY <1>11, <1>14, <2>1
<1>15. CASE /\ ~ok /\ There(n) /\ Has(files[s], n) /\ Go(s, r4)
            /\ files' = Set(files, s, KeptAsConflict(s, n)) /\ meta' = Set(meta, s, m2)
  <2> DEFINE f == KeptAsConflict(s, n)
  <2>1. n \in DOMAIN files[s]
    BY <1>15 DEF Has
  <2>2. IsFile(f) /\ k \in Name
    BY <1>3, <2>1, MovedIs, CopyIsFree
  <2>3. \A x \in DOMAIN files[s] : Found(server', Gone', f, files[s][x])
    BY <1>3, <2>1, MovedIs DEF Found
  <2>4. Confirms(server', Gone', f, m2)
    BY <1>3, <2>1, MovedConfirms
  <2>5. n \in DOMAIN server /\ server[n].there /\ server[n] \in Doc /\ server' = server
    BY <1>2, <1>15 DEF There, Has, IsDocs
  <2>6. IsDocs(w2)
    BY <1>3, <2>5, DocsWith
  <2>7. w2[n] = server[n] /\ DOMAIN w2 = DOMAIN R.waiting \cup {n} /\ \A x \in DOMAIN R.waiting : x # n => w2[x] = R.waiting[x]
    BY DEF With
  <2>8. Heard(server', Gone', w2)
    <3> HIDE DEF w2
    <3> QED
      BY <1>3, <2>5, <2>7 DEF Heard, Known, CurrentOf, Has
  <2> HIDE DEF f, m2, w2
  <2>9. Kept(server', Gone', f, m2, saved[s], r4)
    BY <1>2, <1>3, <1>6, <1>10, <2>2, <2>4, <2>6, <2>8 DEF Kept, IsRound, InHand, Place
  <2>10. round' = Set(round, s, r4) /\ files' = Set(files, s, f) /\ meta' = Set(meta, s, m2)
    BY <1>15 DEF Go, f
  <2> QED
    BY <1>2, <1>8, <2>3, <2>9, <2>10, StoreActs
<1> QED
  BY <1>7, <1>12, <1>13, <1>14, <1>15

(* What becomes of a removal.                                              *)
LEMMA RemoveKeeps ==
  ASSUME KeptInv, NEW s \in Store, Remove(s)
  PROVE  KeptInv'
<1> DEFINE R == round[s]
           n == R.doc
           m == Without(R.meta, n)
           w == With(R.waiting, n, server[n])
           theirs == There(n) /\ ~Takes(n, BaseOf(s, n))
           r1 == Pushed(s, n, m)
           r2 == [r1 EXCEPT !.waiting = With(@, n, server[n])]
<1>1. R.at = "remove" /\ UNCHANGED <<files, meta, saved, Gone, used>>
  BY DEF Remove, At, Gone
<1>2. /\ IF There(n) /\ ~theirs THEN TakeOff(n) ELSE UNCHANGED <<server, unseen>>
      /\ Go(s, IF theirs THEN r2 ELSE r1)
  BY DEF Remove
<1>3. UNCHANGED <<server, unseen>> \/ (Takes(n, BaseOf(s, n)) /\ TakeOff(n))
  BY <1>2
<1>4. /\ IsDocs(server') /\ Tombs(server', Gone') /\ unseen' \in [Store -> SUBSET DOMAIN server']
      /\ Recalls(server, Gone, server', Gone')
      /\ Kept(server', Gone', files[s], meta[s], saved[s], R)
  BY <1>1, <1>3, TakenOffKept
<1>5. /\ DOMAIN R = {"at", "then", "todo", "doc", "content", "waiting", "meta", "recreated", "raced"}
      /\ R.todo \subseteq Name /\ n \in Name /\ IsDocs(R.waiting) /\ IsFile(R.meta)
      /\ Heard(server', Gone', R.waiting)
      /\ Confirms(server', Gone', files[s], R.meta)
  BY <1>1, <1>4 DEF Kept, IsRound, InHand
<1>6. /\ DOMAIN r1 = DOMAIN R /\ r1.at = "push" /\ r1.todo \subseteq Name /\ r1.doc = n /\ r1.meta = m /\ r1.waiting = R.waiting
      /\ DOMAIN r2 = DOMAIN R /\ r2.at = "push" /\ r2.todo \subseteq Name /\ r2.doc = n /\ r2.meta = m /\ r2.waiting = w
  BY <1>5 DEF Pushed
<1>7. IsFile(m) /\ Confirms(server', Gone', files[s], m)
  BY <1>5, FileWithout, WithoutConfirms
<1>8. theirs => server' = server /\ n \in DOMAIN server /\ server[n].there /\ server[n] \in Doc
  BY <1>2, <1>4 DEF There, Has, IsDocs
<1>9. theirs => IsDocs(w)
  BY <1>5, <1>8, DocsWith
<1>10. w[n] = server[n] /\ DOMAIN w = DOMAIN R.waiting \cup {n} /\ \A x \in DOMAIN R.waiting : x # n => w[x] = R.waiting[x]
  BY DEF With
<1>11. theirs => Heard(server', Gone', w)
  <2> HIDE DEF w, theirs
  <2> QED
    BY <1>5, <1>8, <1>10 DEF Heard, Known, CurrentOf, Has
<1> HIDE DEF m, w, r1, r2, theirs
<1>12. Kept(server', Gone', files[s], meta[s], saved[s], r1)
  BY <1>1, <1>4, <1>5, <1>6, <1>7, PushedKept DEF InHand
<1>13. theirs => Kept(server', Gone', files[s], meta[s], saved[s], r2)
  BY <1>1, <1>4, <1>5, <1>6, <1>7, <1>9, <1>11, PushedKept DEF InHand
<1> DEFINE r == IF theirs THEN r2 ELSE r1
<1>14. round' = Set(round, s, r) /\ Kept(server', Gone', files[s], meta[s], saved[s], r)
  BY <1>2, <1>12, <1>13 DEF Go
<1> HIDE DEF r
<1>15. /\ files' = Set(files, s, files[s]) /\ meta' = Set(meta, s, meta[s]) /\ saved' = Set(saved, s, saved[s])
       /\ used' \in [contents : Nat, deletes : Nat, damages : Nat, failures : Nat]
       /\ used.contents <= used'.contents /\ Gone \subseteq Gone'
       /\ \A x \in 1..used'.contents : x \in 1..used.contents
       /\ \A x \in DOMAIN files[s] : Found(server', Gone', files[s], files[s][x])
  BY <1>1, StoreIs, SetSame, SameFiles
<1> QED
  BY <1>4, <1>14, <1>15, StoreActs

(* A request has no answer, whatever became of it.                         *)
LEMMA FailKeeps ==
  ASSUME KeptInv, NEW s \in Store, Fail(s)
  PROVE  KeptInv'
<1> DEFINE R == round[s]
           n == R.doc
           r == [R EXCEPT !.at = "end"]
<1>1. Go(s, r) /\ UNCHANGED <<files, saved, Gone>>
  BY DEF Fail, Gone
<1>2. used' \in [contents : Nat, deletes : Nat, damages : Nat, failures : Nat] /\ used'.contents = used.contents
  BY StoreIs DEF Fail, Happens
<1>3. Kept(server, Gone, files[s], meta[s], saved[s], R) /\ IsDocs(server) /\ Tombs(server, Gone)
  BY StoreIs DEF DocsTypes
<1>4. r.at = "end" /\ DOMAIN r = DOMAIN R /\ r.todo = R.todo /\ r.doc = n /\ r.waiting = R.waiting /\ r.meta = R.meta
  BY <1>3 DEF Kept, IsRound
<1> HIDE DEF r
<1>5. ASSUME NEW m \in {meta[s], R.meta}, meta' = Set(meta, s, m), m = meta[s] \/ R.at \in InHand,
             IsDocs(server'), Tombs(server', Gone'), unseen' \in [Store -> SUBSET DOMAIN server'],
             Recalls(server, Gone, server', Gone'),
             Kept(server', Gone', files[s], meta[s], saved[s], R)
      PROVE  KeptInv'
  <2>1. IsFile(m) /\ Confirms(server', Gone', files[s], m)
    BY <1>5 DEF Kept, IsRound
  <2>2. Kept(server', Gone', files[s], m, saved[s], r)
    BY <1>4, <1>5, <2>1 DEF Kept, IsRound, InHand, Place
  <2>3. /\ files' = Set(files, s, files[s]) /\ saved' = Set(saved, s, saved[s]) /\ round' = Set(round, s, r)
        /\ used.contents <= used'.contents /\ Gone \subseteq Gone'
        /\ \A x \in 1..used'.contents : x \in 1..used.contents
        /\ \A x \in DOMAIN files[s] : Found(server', Gone', files[s], files[s][x])
    BY <1>1, <1>2, StoreIs, SetSame, SameFiles DEF Go
  <2> QED
    BY <1>2, <1>5, <2>2, <2>3, StoreActs
<1>6. ASSUME UNCHANGED <<server, unseen>>
      PROVE  /\ IsDocs(server') /\ Tombs(server', Gone') /\ unseen' \in [Store -> SUBSET DOMAIN server']
             /\ Recalls(server, Gone, server', Gone')
             /\ Kept(server', Gone', files[s], meta[s], saved[s], R)
  <2>1. Gone' = Gone /\ server' = server /\ unseen' = unseen
    BY <1>1, <1>6
  <2> QED
    BY <1>3, <2>1, StoreIs DEF Recalls
<1>7. CASE At(s, "fetch") /\ UNCHANGED <<server, unseen, meta>>
  <2>1. meta' = Set(meta, s, meta[s])
    BY <1>7, StoreIs, SetSame
  <2> QED
    BY <1>5, <1>6, <1>7, <2>1
<1>8. CASE At(s, "record") /\ (UNCHANGED <<server, unseen>> \/ Recorded(n, R.content, BaseOf(s, n))) /\ meta' = Set(meta, s, R.meta)
  <2>1. R.at = "record" /\ R.at \in InHand
    BY <1>8 DEF At, InHand
  <2>2. CASE UNCHANGED <<server, unseen>>
    BY <1>5, <1>6, <1>8, <2>1, <2>2
  <2>3. CASE Recorded(n, R.content, BaseOf(s, n))
    <3>1. /\ IsDocs(server') /\ Tombs(server', Gone') /\ unseen' \in [Store -> SUBSET DOMAIN server']
          /\ Recalls(server, Gone, server', Gone')
          /\ Kept(server', Gone', files[s], meta[s], saved[s], R)
      BY <1>1, <2>1, <2>3, RecordedKept
    <3> QED
      BY <1>5, <1>8, <2>1, <3>1
  <2> QED
    BY <1>8, <2>2, <2>3
<1>9. CASE /\ At(s, "remove") /\ (UNCHANGED <<server, unseen>> \/ (Takes(n, BaseOf(s, n)) /\ TakeOff(n)))
           /\ meta' = Set(meta, s, R.meta)
  <2>1. R.at = "remove" /\ R.at \in InHand
    BY <1>9 DEF At, InHand
  <2>2. /\ IsDocs(server') /\ Tombs(server', Gone') /\ unseen' \in [Store -> SUBSET DOMAIN server']
        /\ Recalls(server, Gone, server', Gone')
        /\ Kept(server', Gone', files[s], meta[s], saved[s], R)
    BY <1>1, <1>9, <2>1, TakenOffKept
  <2> QED
    BY <1>5, <1>9, <2>1, <2>2
<1> QED
  BY <1>7, <1>8, <1>9 DEF Fail

(* A doc that fails alone stays as it is.                                  *)
LEMMA FailDocKeeps ==
  ASSUME KeptInv, NEW s \in Store, FailDoc(s)
  PROVE  KeptInv'
<1> DEFINE R == round[s]
           n == R.doc
           r1 == Later(s, n)
           r2 == Pushed(s, n, R.meta)
<1>1. UNCHANGED <<server, unseen, files, meta, saved, Gone>>
  BY DEF FailDoc, Gone
<1>2. used' \in [contents : Nat, deletes : Nat, damages : Nat, failures : Nat] /\ used.contents = used'.contents
  BY StoreIs DEF FailDoc, Happens
<1>3. Kept(server, Gone, files[s], meta[s], saved[s], R)
  BY StoreIs
<1>4. \/ R.at = "fetch" /\ round' = Set(round, s, r1)
      \/ R.at \in {"record", "remove"} /\ round' = Set(round, s, r2)
  BY DEF FailDoc, Go, At
<1>5. R.at = "fetch" => Kept(server, Gone, files[s], meta[s], saved[s], r1)
  <2> HIDE DEF r1
  <2> QED
    BY <1>3, DoneKept DEF Kept, r1
<1>6. R.at \in {"record", "remove"} => Kept(server, Gone, files[s], meta[s], saved[s], r2)
  <2>1. r2.at = "push" /\ r2.todo \subseteq R.todo /\ r2.meta = R.meta /\ r2.waiting = R.waiting /\ r2.doc = R.doc /\ DOMAIN r2 = DOMAIN R
    BY <1>3 DEF Kept, IsRound, Pushed
  <2> HIDE DEF r2
  <2> QED
    BY <1>3, <2>1 DEF Kept, IsRound, InHand, Place
<1>7. PICK r : round' = Set(round, s, r) /\ Kept(server, Gone, files[s], meta[s], saved[s], r)
  <2> HIDE DEF r1, r2
  <2> QED
    BY <1>4, <1>5, <1>6
<1>8. /\ files' = Set(files, s, files[s]) /\ meta' = Set(meta, s, meta[s]) /\ saved' = Set(saved, s, saved[s])
      /\ unseen' \in [Store -> SUBSET DOMAIN server]
  BY <1>1, StoreIs, SetSame
<1> QED
  BY <1>1, <1>2, <1>7, <1>8, SameFiles, StoreActsAlone

-----------------------------------------------------------------------------

(* There is no doc at first.                                               *)
LEMMA DocsInit == Init => KeptInv
<1> SUFFICES ASSUME Init PROVE KeptInv
  OBVIOUS
<1>1. IsFile(Empty) /\ IsDocs(Empty) /\ DOMAIN Empty = {} /\ Empty \in Name
  BY FileEmpty
<1>2. IsRound(AtRest) /\ AtRest.at = "idle" /\ AtRest.waiting = Empty
  BY <1>1 DEF AtRest, IsRound, Place
<1>3. DocsTypes
  BY <1>1 DEF Init, DocsTypes, Tombs
<1>4. \A s \in Store : KeptAt(s)
  BY <1>1, <1>2 DEF Init, KeptAt, Kept, Heard, Confirms, InHand
<1>5. OnlyRacedWritesAreLost
  <2>1. used.contents = 0
    BY DEF Init
  <2> QED
    BY <2>1 DEF OnlyRacedWritesAreLost
<1> QED
  BY <1>3, <1>4, <1>5 DEF KeptInv

(* Every step keeps the invariant.                                         *)
LEMMA DocsNext ==
  ASSUME KeptInv, [Next]_vars
  PROVE  KeptInv'
<1>1. CASE UNCHANGED vars
  BY <1>1 DEF vars, KeptInv, KeptAt, DocsTypes, OnlyRacedWritesAreLost, Survives, Current, There, Gone
<1>2. ASSUME NEW s \in Store, EditFile(s) \/ DeleteFile(s) \/ Damage(s) \/ Begin(s) \/ Step(s) \/ Fail(s) \/ FailDoc(s) \/ Crash(s)
      PROVE  KeptInv'
  <2>1. CASE Step(s)
    BY <2>1, FetchForCommandKeeps, EndRoundKeeps, RebuildKeeps, EndRebuildKeeps, PullKeeps, FetchKeeps, EndPullKeeps,
       PushDocKeeps, RecordKeeps, RemoveKeeps, EndPushKeeps DEF Step
  <2> QED
    BY <1>2, <2>1, EditFileKeeps, DeleteFileKeeps, DamageKeeps, BeginKeeps, FailKeeps, FailDocKeeps, CrashKeeps
<1> QED
  BY <1>1, <1>2, OnDashboardKeeps DEF Next

(* What a round has in memory, the files, the bases and the server fit.    *)
THEOREM DocsInvariance == Spec => []KeptInv
  BY DocsInit, DocsNext, PTL DEF Spec

(* What somebody wrote is in a file or on the server until somebody who    *)
(* has it before him replaces or deletes it (todo/sync.py, todo/docs.py),  *)
(* whatever rounds, failures, kills and damaged sidecars do meanwhile: a   *)
(* fetch that finds a file written since it looked (sync.py:1811-1813) is  *)
(* all that loses a content.                                               *)
THEOREM LostWritesWereRaced == Spec => []OnlyRacedWritesAreLost
<1>1. KeptInv => OnlyRacedWritesAreLost
  BY DEF KeptInv
<1> QED
  BY <1>1, DocsInvariance, PTL

-----------------------------------------------------------------------------
(* What a store that never lost its sidecar has been told.                 *)

(* For each name the base m is what the server has, or a change of it waits *)
(* (w), or is past the cursor (u).                                         *)
Informed(d, u, m, w) == \A n : n \in u \/ n \in DOMAIN w \/ ValueAt(m, n) = CurrentOf(d, n)

(* A change that waits is how the server has it, or there is a later one.  *)
News(d, u, w) ==
  \A n \in DOMAIN w : n \in u \/ CurrentOf(d, n) = IF w[n].there THEN w[n].content ELSE 0

Bases(m, r) == IF r.at \in InHand THEN r.meta ELSE m

Told(d, u, m, w, r) ==
  /\ Informed(d, u, m, w) /\ News(d, u, w)
  /\ r.at # "rebuild"
  /\ r.at # "idle" => /\ Informed(d, u, Bases(m, r), r.waiting) /\ News(d, u, r.waiting)
                      /\ DOMAIN r.waiting \subseteq DOMAIN w \cup u
  /\ r.at = "fetch" => r.waiting[r.doc].there

ToldAt(s) == Told(server, unseen[s], meta[s], saved[s], round[s])

ToldInv == used.damages = 0 => damaged = {} /\ \A s \in Store : ToldAt(s)

(* The server's docs change, and the feed tells.                           *)
Tells(d, u, d2, u2) == u \subseteq u2 /\ \A n : n \in u2 \/ CurrentOf(d2, n) = CurrentOf(d, n)

(* A store that knows of the change, or will.                              *)
LEMMA ToldStays ==
  ASSUME NEW d, NEW u, NEW d2, NEW u2, Tells(d, u, d2, u2),
         NEW m, NEW w, NEW r, Told(d, u, m, w, r)
  PROVE  Told(d2, u2, m, w, r)
<1>1. \A x, y : Informed(d, u, x, y) => Informed(d2, u2, x, y)
  BY DEF Informed, Tells
<1>2. \A y : News(d, u, y) => News(d2, u2, y)
  BY DEF News, Tells
<1> QED
  BY <1>1, <1>2 DEF Told, Tells

(* One store acts, and perhaps the server.                                 *)
LEMMA StoreTold ==
  ASSUME DocsTypes, ToldInv, NEW s \in Store, NEW m, NEW w, NEW r,
         used'.damages = 0, used.damages = 0, damaged' \subseteq damaged,
         meta' = Set(meta, s, m), saved' = Set(saved, s, w), round' = Set(round, s, r),
         \A t \in Store \ {s} : Tells(server, unseen[t], server', unseen'[t]),
         Told(server', unseen'[s], m, w, r)
  PROVE  ToldInv'
<1>1. /\ meta' = [t \in Store |-> IF t = s THEN m ELSE meta[t]] /\ saved' = [t \in Store |-> IF t = s THEN w ELSE saved[t]]
      /\ round' = [t \in Store |-> IF t = s THEN r ELSE round[t]]
  BY DEF DocsTypes, Set
<1>2. ASSUME NEW t \in Store, t # s PROVE Told(server', unseen'[t], meta[t], saved[t], round[t])
  <2>1. Told(server, unseen[t], meta[t], saved[t], round[t])
    BY DEF ToldInv, ToldAt
  <2>2. Tells(server, unseen[t], server', unseen'[t])
    BY <1>2
  <2> QED
    BY <2>1, <2>2, ToldStays
<1> QED
  BY <1>1, <1>2 DEF ToldInv, ToldAt

(* The same, if only this store's cursor and the server's docs may change. *)
LEMMA RoundTold ==
  ASSUME KeptInv, ToldInv, NEW s \in Store, NEW m, NEW r, used'.damages = 0, used.damages = 0,
         meta' = Set(meta, s, m), Go(s, r), UNCHANGED <<saved, damaged>>,
         UNCHANGED <<server, unseen>> \/ \A t \in Store : Tells(server, unseen[t], server', unseen'[t]),
         Told(server', unseen'[s], m, saved[s], r)
  PROVE  ToldInv'
<1>1. DocsTypes /\ saved' = Set(saved, s, saved[s])
  BY StoreIs, SetSame
<1>2. UNCHANGED <<server, unseen>> => \A t \in Store : Tells(server, unseen[t], server', unseen'[t])
  BY DEF Tells
<1>3. round' = Set(round, s, r)
  BY DEF Go
<1> QED
  BY <1>1, <1>2, <1>3, StoreTold

(* What the invariant says of one store.                                   *)
LEMMA ToldIs ==
  ASSUME KeptInv, ToldInv, used.damages = 0, NEW s \in Store
  PROVE  /\ Told(server, unseen[s], meta[s], saved[s], round[s]) /\ damaged = {}
         /\ meta = Set(meta, s, meta[s]) /\ saved = Set(saved, s, saved[s])
         /\ Kept(server, Gone, files[s], meta[s], saved[s], round[s])
         /\ DOMAIN round[s] = {"at", "then", "todo", "doc", "content", "waiting", "meta", "recreated", "raced"}
         /\ IsDocs(round[s].waiting)
  BY StoreIs, SetSame DEF ToldInv, ToldAt, IsRound

(* The server's content of a name.                                         *)
LEMMA CurrentIs ==
  \A n : Current(n) = CurrentOf(server, n)
  BY DEF Current, CurrentOf, There

(* Files and the server change, and no store does anything.                *)
LEMMA OthersTold ==
  ASSUME ToldInv, used'.damages = 0 => used.damages = 0, UNCHANGED <<meta, damaged, saved, round>>,
         \A t \in Store : Tells(server, unseen[t], server', unseen'[t])
  PROVE  ToldInv'
<1>1. ASSUME NEW t \in Store, Told(server, unseen[t], meta[t], saved[t], round[t])
      PROVE  Told(server', unseen'[t], meta'[t], saved'[t], round'[t])
  BY <1>1, ToldStays
<1> QED
  BY <1>1 DEF ToldInv, ToldAt

(* A write of the server's is told.                                        *)
LEMMA TellTells ==
  ASSUME DocsTypes, NEW n, NEW x, server' = With(server, n, x), Tell(n)
  PROVE  \A t \in Store : Tells(server, unseen[t], server', unseen'[t]) /\ n \in unseen'[t]
<1>1. \A m : m # n => CurrentOf(server', m) = CurrentOf(server, m)
  BY DEF With, CurrentOf, Has
<1>2. \A t \in Store : unseen'[t] = unseen[t] \cup {n}
  BY DEF Tell
<1> QED
  BY <1>1, <1>2 DEF Tells

(* What a round has pulled, the base says, or a later change will.         *)
LEMMA DoneTold ==
  ASSUME NEW d, NEW u, NEW m, NEW w, NEW R, Told(d, u, m, w, R), R.at \in {"pull", "fetch"},
         NEW n \in DOMAIN R.waiting,
         NEW m2, \A x : x # n => ValueAt(m2, x) = ValueAt(m, x), n \in u \/ ValueAt(m2, n) = CurrentOf(d, n),
         NEW r, r.at = "pull", r.waiting = Without(R.waiting, n)
  PROVE  Told(d, u, m2, w, r)
<1>1. DOMAIN r.waiting = DOMAIN R.waiting \ {n} /\ \A x \in DOMAIN R.waiting : x # n => r.waiting[x] = R.waiting[x]
  BY DEF Without, Restrict
<1>2. Informed(d, u, m, R.waiting) /\ News(d, u, R.waiting) /\ DOMAIN R.waiting \subseteq DOMAIN w \cup u
  BY DEF Told, Bases, InHand
<1>3. Informed(d, u, m2, w) /\ Informed(d, u, m2, r.waiting)
  BY <1>1, <1>2 DEF Told, Informed
<1>4. News(d, u, r.waiting)
  BY <1>1, <1>2 DEF News
<1> QED
  BY <1>1, <1>2, <1>3, <1>4 DEF Told, Bases, InHand

(* A base is given up while a change waits.                                *)
LEMMA WaitsTold ==
  ASSUME NEW d, NEW u, NEW m, NEW w, NEW R, Told(d, u, m, w, R), R.at \in {"pull", "fetch"},
         NEW n \in DOMAIN R.waiting,
         NEW m2, \A x : x # n => ValueAt(m2, x) = ValueAt(m, x),
         NEW r, r.at \in {"pull", "fetch"}, r.waiting = R.waiting, r.at = "fetch" => r.waiting[r.doc].there
  PROVE  Told(d, u, m2, w, r)
<1>1. Informed(d, u, m, R.waiting) /\ News(d, u, R.waiting) /\ DOMAIN R.waiting \subseteq DOMAIN w \cup u
  BY DEF Told, Bases, InHand
<1>2. Informed(d, u, m2, w) /\ Informed(d, u, m2, r.waiting)
  BY <1>1 DEF Told, Informed
<1> QED
  BY <1>1, <1>2 DEF Told, Bases, InHand

(* The bases of a round become those of the store.                         *)
LEMMA WrittenTold ==
  ASSUME NEW d, NEW u, NEW m, NEW w, NEW R, Told(d, u, m, w, R), R.at # "idle",
         NEW r, r.at \in {"pull", "end"}, r.waiting = R.waiting
  PROVE  Told(d, u, Bases(m, R), w, r)
<1>1. Informed(d, u, Bases(m, R), R.waiting) /\ News(d, u, R.waiting) /\ DOMAIN R.waiting \subseteq DOMAIN w \cup u
  BY DEF Told
<1>2. Informed(d, u, Bases(m, R), w)
  BY <1>1 DEF Told, Informed
<1>3. Bases(Bases(m, R), r) = Bases(m, R)
  BY DEF Bases, InHand
<1> QED
  BY <1>1, <1>2, <1>3 DEF Told

(* Doc n is pushed: the base says what the server has, or a change waits.  *)
LEMMA PushTold ==
  ASSUME NEW d, NEW u, NEW m, NEW w, NEW R, Told(d, u, m, w, R), R.at \in InHand,
         NEW n, NEW r, r.at \in InHand \ {"rebuild"}, r.waiting = R.waiting,
         \A x : x # n => ValueAt(r.meta, x) = ValueAt(R.meta, x),
         n \in u \/ n \in DOMAIN R.waiting \/ ValueAt(r.meta, n) = CurrentOf(d, n)
  PROVE  Told(d, u, m, w, r)
<1>1. Informed(d, u, R.meta, R.waiting) /\ News(d, u, R.waiting) /\ DOMAIN R.waiting \subseteq DOMAIN w \cup u
  BY DEF Told, Bases, InHand
<1>2. Informed(d, u, r.meta, r.waiting)
  BY <1>1 DEF Informed
<1> QED
  BY <1>1, <1>2 DEF Told, Bases, InHand

(* The server's doc n waits from now on.                                   *)
LEMMA TheirsTold ==
  ASSUME NEW d, NEW u, NEW m, NEW w, NEW R, Told(d, u, m, w, R), R.at \in InHand,
         NEW n, n \in u \/ n \in DOMAIN R.waiting,
         NEW r, r.at = "push", r.waiting = With(R.waiting, n, d[n]), n \in DOMAIN d,
         \A x : x # n => ValueAt(r.meta, x) = ValueAt(R.meta, x),
         NEW m2 \in {m, r.meta}
  PROVE  Told(d, u, m2, w, r)
<1>1. Informed(d, u, R.meta, R.waiting) /\ News(d, u, R.waiting) /\ DOMAIN R.waiting \subseteq DOMAIN w \cup u
  BY DEF Told, Bases, InHand
<1>2. /\ DOMAIN r.waiting = DOMAIN R.waiting \cup {n} /\ r.waiting[n] = d[n]
      /\ \A x \in DOMAIN R.waiting : x # n => r.waiting[x] = R.waiting[x]
  BY DEF With
<1>3. Informed(d, u, r.meta, r.waiting) /\ Informed(d, u, r.meta, w)
  BY <1>1, <1>2 DEF Informed
<1>4. News(d, u, r.waiting)
  BY <1>1, <1>2 DEF News, CurrentOf, Has
<1>5. DOMAIN r.waiting \subseteq DOMAIN w \cup u
  BY <1>1, <1>2
<1>6. Informed(d, u, m2, w)
  BY <1>3 DEF Told
<1> QED
  BY <1>1, <1>3, <1>4, <1>5, <1>6 DEF Told, Bases, InHand

-----------------------------------------------------------------------------
(* Each step keeps it, as long as no sidecar was damaged.                  *)

(* A round takes what the feed tells into what waits.                      *)
LEMMA BeginTold ==
  ASSUME KeptInv, ToldInv, used.damages = 0, used'.damages = 0, NEW s \in Store, Begin(s)
  PROVE  ToldInv'
<1>1. PICK names \in {{}, unseen[s]} :
        LET waiting == [n \in names \cup DOMAIN saved[s] |-> IF n \in names THEN server[n] ELSE saved[s][n]]
        IN  /\ saved' = Set(saved, s, waiting)
            /\ unseen' = Set(unseen, s, unseen[s] \ names)
            /\ round' = Set(round, s, [AtRest EXCEPT !.at = IF s \in damaged THEN "rebuild" ELSE "pull", !.then = "push",
                                         !.waiting = waiting, !.meta = meta[s],
                                         !.todo = IF s \in damaged THEN DOMAIN files[s] ELSE DOMAIN waiting])
  BY DEF Begin
<1> DEFINE w == [n \in names \cup DOMAIN saved[s] |-> IF n \in names THEN server[n] ELSE saved[s][n]]
           r == [AtRest EXCEPT !.at = IF s \in damaged THEN "rebuild" ELSE "pull", !.then = "push",
                               !.waiting = w, !.meta = meta[s],
                               !.todo = IF s \in damaged THEN DOMAIN files[s] ELSE DOMAIN w]
<1>2. /\ saved' = Set(saved, s, w) /\ round' = Set(round, s, r) /\ unseen' = Set(unseen, s, unseen[s] \ names)
      /\ UNCHANGED <<server, meta, damaged>>
  BY <1>1 DEF Begin
<1>3. Told(server, unseen[s], meta[s], saved[s], round[s]) /\ damaged = {} /\ meta = Set(meta, s, meta[s])
  BY ToldIs
<1>4. DocsTypes /\ names \subseteq DOMAIN server /\ unseen \in [Store -> SUBSET DOMAIN server]
  BY StoreIs
<1>5. DOMAIN w = names \cup DOMAIN saved[s] /\ \A n \in DOMAIN w : w[n] = IF n \in names THEN server[n] ELSE saved[s][n]
  OBVIOUS
<1>6. r.at = "pull" /\ r.waiting = w
  BY <1>3 DEF AtRest
<1>7. unseen'[s] = unseen[s] \ names /\ \A t \in Store \ {s} : unseen'[t] = unseen[t]
  BY <1>2, <1>4 DEF Set
<1> HIDE DEF w, r
<1>8. Informed(server', unseen'[s], meta[s], w)
  BY <1>2, <1>3, <1>5, <1>7 DEF Told, Informed
<1>9. News(server', unseen'[s], w)
  <2>1. names \subseteq unseen[s]
    OBVIOUS
  <2>2. \A n \in names : CurrentOf(server, n) = IF w[n].there THEN w[n].content ELSE 0
    BY <1>4, <1>5 DEF CurrentOf, Has
  <2>3. \A n \in DOMAIN w \ names : n \in unseen[s] \/ CurrentOf(server, n) = IF w[n].there THEN w[n].content ELSE 0
    BY <1>3, <1>5 DEF Told, News
  <2> QED
    BY <1>2, <1>7, <2>2, <2>3 DEF News
<1>10. Told(server', unseen'[s], meta[s], w, r)
  BY <1>6, <1>8, <1>9 DEF Told, Bases, InHand
<1>11. \A t \in Store \ {s} : Tells(server, unseen[t], server', unseen'[t])
  BY <1>2, <1>7 DEF Tells
<1>12. meta' = Set(meta, s, meta[s]) /\ damaged' \subseteq damaged
  BY <1>2, <1>3
<1> QED
  BY <1>2, <1>4, <1>10, <1>11, <1>12, StoreTold

(* A command takes what waits.                                             *)
LEMMA FetchForCommandTold ==
  ASSUME KeptInv, ToldInv, used.damages = 0, used'.damages = 0, NEW s \in Store, FetchForCommand(s)
  PROVE  ToldInv'
<1> DEFINE r == [AtRest EXCEPT !.at = "pull", !.then = "end", !.waiting = saved[s], !.todo = DOMAIN saved[s]]
<1>1. Told(server, unseen[s], meta[s], saved[s], round[s]) /\ meta = Set(meta, s, meta[s])
  BY ToldIs
<1>2. Go(s, r) /\ UNCHANGED <<server, unseen, meta, damaged, saved>>
  BY DEF FetchForCommand, Go
<1>3. r.at = "pull" /\ r.waiting = saved[s]
  BY DEF AtRest
<1> HIDE DEF r
<1>4. Told(server, unseen[s], meta[s], saved[s], r)
  BY <1>1, <1>3 DEF Told, Bases, InHand
<1> QED
  BY <1>1, <1>2, <1>4, RoundTold

(* What still waits is saved.                                              *)
LEMMA EndRoundTold ==
  ASSUME KeptInv, ToldInv, used.damages = 0, used'.damages = 0, NEW s \in Store, EndRound(s)
  PROVE  ToldInv'
<1>1. Told(server, unseen[s], meta[s], saved[s], round[s]) /\ meta = Set(meta, s, meta[s]) /\ DocsTypes
  BY ToldIs, StoreIs
<1>2. /\ saved' = Set(saved, s, round[s].waiting) /\ round' = Set(round, s, AtRest) /\ round[s].at = "end"
      /\ UNCHANGED <<server, unseen, meta, damaged>>
  BY DEF EndRound, StillWaiting, At
<1>3. AtRest.at = "idle"
  BY DEF AtRest
<1>4. Told(server, unseen[s], meta[s], round[s].waiting, AtRest)
  BY <1>1, <1>2, <1>3 DEF Told, Bases, InHand
<1>5. \A t \in Store \ {s} : Tells(server, unseen[t], server', unseen'[t])
  BY <1>2 DEF Tells
<1>6. meta' = Set(meta, s, meta[s]) /\ damaged' \subseteq damaged /\ Told(server', unseen'[s], meta[s], round[s].waiting, AtRest)
  BY <1>1, <1>2, <1>4
<1> QED
  BY <1>1, <1>2, <1>5, <1>6, StoreTold

(* What waited is still saved.                                             *)
LEMMA CrashTold ==
  ASSUME KeptInv, ToldInv, used.damages = 0, used'.damages = 0, NEW s \in Store, Crash(s)
  PROVE  ToldInv'
<1>1. Told(server, unseen[s], meta[s], saved[s], round[s]) /\ meta = Set(meta, s, meta[s])
  BY ToldIs
<1>2. Go(s, AtRest) /\ UNCHANGED <<server, unseen, meta, damaged, saved>>
  BY DEF Crash
<1>3. AtRest.at = "idle"
  BY DEF AtRest
<1>4. Told(server, unseen[s], meta[s], saved[s], AtRest)
  BY <1>1, <1>3 DEF Told
<1> QED
  BY <1>1, <1>2, <1>4, RoundTold

(* A doc that is gone there has no base.                                   *)
LEMMA PullDeletionTold ==
  ASSUME KeptInv, ToldInv, used.damages = 0, used'.damages = 0, NEW s \in Store,
         At(s, "pull"), NEW n \in round[s].todo, ~round[s].waiting[n].there, PullDeletion(s, n),
         UNCHANGED <<server, unseen, damaged, saved>>
  PROVE  ToldInv'
<1> DEFINE R == round[s]
           m == Without(meta[s], n)
           r == Done(s, n)
<1>1. Told(server, unseen[s], meta[s], saved[s], R) /\ DOMAIN R = {"at", "then", "todo", "doc", "content", "waiting", "meta", "recreated", "raced"}
  BY ToldIs
<1>2. R.at = "pull" /\ n \in DOMAIN R.waiting
  BY ToldIs DEF Kept, At
<1>3. meta' = Set(meta, s, m) /\ Go(s, r)
  BY DEF PullDeletion
<1>4. r.at = "pull" /\ r.waiting = Without(R.waiting, n)
  BY <1>1 DEF Done
<1>5. ValueAt(m, n) = 0 /\ \A x : x # n => ValueAt(m, x) = ValueAt(meta[s], x)
  BY DEF ValueAt, Has, Without, Restrict
<1>6. n \in unseen[s] \/ ValueAt(m, n) = CurrentOf(server, n)
  BY <1>1, <1>2, <1>5 DEF Told, News
<1> HIDE DEF m, r
<1>7. Told(server, unseen[s], m, saved[s], r)
  BY <1>1, <1>2, <1>4, <1>5, <1>6, DoneTold
<1> QED
  BY <1>3, <1>7, RoundTold

(* What is confirmed is the server's, or waits.                            *)
LEMMA PullContentTold ==
  ASSUME KeptInv, ToldInv, used.damages = 0, used'.damages = 0, NEW s \in Store,
         At(s, "pull"), NEW n \in round[s].todo, round[s].waiting[n].there, PullContent(s, n),
         UNCHANGED <<server, unseen, damaged, saved>>
  PROVE  ToldInv'
<1> DEFINE R == round[s]
           there == R.waiting[n].content
           r1 == Done(s, n)
           r2 == [R EXCEPT !.at = "fetch", !.doc = n, !.raced = {}]
           m1 == With(meta[s], n, there)
           m2 == Without(meta[s], n)
<1>1. /\ Told(server, unseen[s], meta[s], saved[s], R) /\ meta = Set(meta, s, meta[s])
      /\ DOMAIN R = {"at", "then", "todo", "doc", "content", "waiting", "meta", "recreated", "raced"}
  BY ToldIs
<1>2. R.at = "pull" /\ n \in DOMAIN R.waiting
  BY ToldIs DEF Kept, At
<1>3. n \in unseen[s] \/ CurrentOf(server, n) = there
  BY <1>1, <1>2 DEF Told, News
<1>4. \/ ValueAt(meta[s], n) = there /\ Go(s, r1) /\ UNCHANGED meta
      \/ meta' = Set(meta, s, m1) /\ Go(s, r1)
      \/ Go(s, r2) /\ (UNCHANGED meta \/ meta' = Set(meta, s, m2))
  BY DEF PullContent, Confirmed
<1>5. /\ r1.at = "pull" /\ r1.waiting = Without(R.waiting, n)
      /\ r2.at = "fetch" /\ r2.waiting = R.waiting /\ r2.doc = n
  BY <1>1 DEF Done
<1>6. /\ ValueAt(m1, n) = there /\ \A x : x # n => ValueAt(m1, x) = ValueAt(meta[s], x)
      /\ \A x : x # n => ValueAt(m2, x) = ValueAt(meta[s], x)
  BY DEF ValueAt, Has, With, Without, Restrict
<1> HIDE DEF m1, m2, r1, r2
<1>7. ValueAt(meta[s], n) = there => Told(server, unseen[s], meta[s], saved[s], r1)
  BY <1>1, <1>2, <1>3, <1>5, DoneTold
<1>8. Told(server, unseen[s], m1, saved[s], r1)
  BY <1>1, <1>2, <1>3, <1>5, <1>6, DoneTold
<1>9. Told(server, unseen[s], meta[s], saved[s], r2) /\ Told(server, unseen[s], m2, saved[s], r2)
  BY <1>1, <1>2, <1>5, <1>6, WaitsTold
<1> QED
  BY <1>1, <1>4, <1>7, <1>8, <1>9, RoundTold

(* A change is pulled.                                                     *)
LEMMA PullTold ==
  ASSUME KeptInv, ToldInv, used.damages = 0, used'.damages = 0, NEW s \in Store, Pull(s)
  PROVE  ToldInv'
<1>1. At(s, "pull") /\ UNCHANGED <<server, unseen, damaged, saved>> /\ damaged = {}
  BY ToldIs DEF Pull
<1>2. PICK n \in round[s].todo : IF round[s].waiting[n].there THEN PullContent(s, n) ELSE PullDeletion(s, n)
  BY <1>1 DEF Pull
<1> QED
  BY <1>1, <1>2, PullDeletionTold, PullContentTold

(* The bytes are the server's.                                             *)
LEMMA FetchTold ==
  ASSUME KeptInv, ToldInv, used.damages = 0, used'.damages = 0, NEW s \in Store, Fetch(s)
  PROVE  ToldInv'
<1> DEFINE R == round[s]
           n == R.doc
           m == With(meta[s], n, Current(n))
           r1 == Done(s, n)
           r2 == Later(s, n)
<1>1. /\ Told(server, unseen[s], meta[s], saved[s], R) /\ meta = Set(meta, s, meta[s])
      /\ DOMAIN R = {"at", "then", "todo", "doc", "content", "waiting", "meta", "recreated", "raced"}
  BY ToldIs
<1>2. R.at = "fetch" /\ n \in DOMAIN R.waiting /\ R.waiting[n].there /\ R.waiting[n].content # 0
  BY ToldIs DEF Kept, Told, Fetch, At, IsDocs, Doc
<1>3. UNCHANGED <<server, unseen, damaged, saved>>
  BY DEF Fetch
<1>4. \/ ~There(n) /\ Go(s, r1) /\ UNCHANGED meta
      \/ Go(s, r2) /\ UNCHANGED meta
      \/ meta' = Set(meta, s, m) /\ Go(s, r1)
  BY DEF Fetch
<1>5. /\ r1.at = "pull" /\ r1.waiting = Without(R.waiting, n)
      /\ r2.at = "pull" /\ r2.waiting = R.waiting
  BY <1>1 DEF Done, Later
<1>6. ValueAt(m, n) = CurrentOf(server, n) /\ \A x : x # n => ValueAt(m, x) = ValueAt(meta[s], x)
  <2>1. ValueAt(m, n) = Current(n) /\ \A x : x # n => ValueAt(m, x) = ValueAt(meta[s], x)
    BY DEF ValueAt, Has, With
  <2> QED
    BY <2>1, CurrentIs
<1>7. ~There(n) => n \in unseen[s]
  BY <1>1, <1>2 DEF Told, News, CurrentOf, There
<1> HIDE DEF m, r1, r2
<1>8. ~There(n) => Told(server, unseen[s], meta[s], saved[s], r1)
  BY <1>1, <1>2, <1>5, <1>7, DoneTold
<1>9. Told(server, unseen[s], m, saved[s], r1)
  BY <1>1, <1>2, <1>5, <1>6, DoneTold
<1>10. Told(server, unseen[s], meta[s], saved[s], r2)
  BY <1>1, <1>2, <1>5, WaitsTold
<1> QED
  BY <1>1, <1>3, <1>4, <1>8, <1>9, <1>10, RoundTold

(* The bases of the push are the sidecar's.                                *)
LEMMA EndPullTold ==
  ASSUME KeptInv, ToldInv, used.damages = 0, used'.damages = 0, NEW s \in Store, EndPull(s)
  PROVE  ToldInv'
<1> DEFINE R == round[s]
           r == IF R.then = "push"
                THEN [R EXCEPT !.at = "push", !.meta = meta[s], !.todo = DOMAIN meta[s] \cup DOMAIN files[s]]
                ELSE [R EXCEPT !.at = "end"]
<1>1. /\ Told(server, unseen[s], meta[s], saved[s], R) /\ meta = Set(meta, s, meta[s])
      /\ DOMAIN R = {"at", "then", "todo", "doc", "content", "waiting", "meta", "recreated", "raced"}
  BY ToldIs
<1>2. R.at = "pull" /\ Go(s, r) /\ UNCHANGED <<server, unseen, meta, damaged, saved>>
  BY DEF EndPull, At
<1>3. r.waiting = R.waiting /\ ((r.at = "push" /\ r.meta = meta[s]) \/ r.at = "end")
  BY <1>1
<1> HIDE DEF r
<1>4. Told(server, unseen[s], meta[s], saved[s], r)
  BY <1>1, <1>2, <1>3 DEF Told, Bases, InHand
<1> QED
  BY <1>1, <1>2, <1>4, RoundTold

(* A request begins.                                                       *)
LEMMA PushDocTold ==
  ASSUME KeptInv, ToldInv, used.damages = 0, used'.damages = 0, NEW s \in Store, PushDoc(s)
  PROVE  ToldInv'
<1> DEFINE R == round[s]
<1>1. /\ Told(server, unseen[s], meta[s], saved[s], R) /\ meta = Set(meta, s, meta[s])
      /\ DOMAIN R = {"at", "then", "todo", "doc", "content", "waiting", "meta", "recreated", "raced"}
  BY ToldIs
<1>2. R.at = "push" /\ UNCHANGED <<server, unseen, meta, damaged, saved>>
  BY DEF PushDoc, At
<1>3. PICK n \in R.todo : \/ Go(s, Pushed(s, n, R.meta))
                          \/ Go(s, [R EXCEPT !.at = "record", !.doc = n, !.content = files[s][n]])
                          \/ Go(s, [R EXCEPT !.at = "remove", !.doc = n])
  BY DEF PushDoc
<1>4. ASSUME NEW r, Go(s, r), r.at \in {"push", "record", "remove"}, r.waiting = R.waiting, r.meta = R.meta
      PROVE  ToldInv'
  <2>1. Told(server, unseen[s], meta[s], saved[s], r)
    BY <1>1, <1>2, <1>4 DEF Told, Bases, InHand
  <2> QED
    BY <1>1, <1>2, <1>4, <2>1, RoundTold
<1> DEFINE r1 == Pushed(s, n, R.meta)
           r2 == [R EXCEPT !.at = "record", !.doc = n, !.content = files[s][n]]
           r3 == [R EXCEPT !.at = "remove", !.doc = n]
<1>5. /\ r1.at = "push" /\ r1.waiting = R.waiting /\ r1.meta = R.meta
      /\ r2.at = "record" /\ r2.waiting = R.waiting /\ r2.meta = R.meta
      /\ r3.at = "remove" /\ r3.waiting = R.waiting /\ r3.meta = R.meta
  BY <1>1 DEF Pushed
<1>6. Go(s, r1) \/ Go(s, r2) \/ Go(s, r3)
  BY <1>3
<1> HIDE DEF r1, r2, r3
<1> QED
  BY <1>4, <1>5, <1>6

(* The bases in memory are written.                                        *)
LEMMA EndPushTold ==
  ASSUME KeptInv, ToldInv, used.damages = 0, used'.damages = 0, NEW s \in Store, EndPush(s)
  PROVE  ToldInv'
<1> DEFINE R == round[s]
           r == [R EXCEPT !.at = "pull", !.then = "end", !.todo = DOMAIN R.waiting]
<1>1. /\ Told(server, unseen[s], meta[s], saved[s], R)
      /\ DOMAIN R = {"at", "then", "todo", "doc", "content", "waiting", "meta", "recreated", "raced"}
  BY ToldIs
<1>2. R.at = "push" /\ meta' = Set(meta, s, R.meta) /\ Go(s, r) /\ UNCHANGED <<server, unseen, damaged, saved>>
  BY DEF EndPush, At
<1>3. r.at = "pull" /\ r.waiting = R.waiting
  BY <1>1
<1> HIDE DEF r
<1>4. Told(server, unseen[s], R.meta, saved[s], r)
  <2>1. Bases(meta[s], R) = R.meta
    BY <1>2 DEF Bases, InHand
  <2>2. Told(server, unseen[s], Bases(meta[s], R), saved[s], r)
    BY <1>1, <1>2, <1>3, WrittenTold
  <2> QED
    BY <2>1, <2>2
<1> QED
  BY <1>2, <1>4, RoundTold

(* An upload is told,                                                      *)
LEMMA RecordedTells ==
  ASSUME KeptInv, NEW n, NEW c, NEW b, Recorded(n, c, b)
  PROVE  /\ \A t \in Store : Tells(server, unseen[t], server', unseen'[t])
         /\ UNCHANGED <<server, unseen>> \/ \A t \in Store : n \in unseen'[t]
<1>1. CASE UNCHANGED <<server, unseen>>
  BY <1>1 DEF Tells
<1>2. CASE Put(n, c)
  BY <1>2, TellTells DEF Put, KeptInv
<1> QED
  BY <1>1, <1>2 DEF Recorded

(* and a removal.                                                          *)
LEMMA TakeOffTells ==
  ASSUME KeptInv, NEW n, TakeOff(n)
  PROVE  \A t \in Store : Tells(server, unseen[t], server', unseen'[t]) /\ n \in unseen'[t]
  BY TellTells DEF TakeOff, KeptInv

(* The answer to an upload says what the server has.                       *)
LEMMA RecordTold ==
  ASSUME KeptInv, ToldInv, used.damages = 0, used'.damages = 0, NEW s \in Store, Record(s)
  PROVE  ToldInv'
<1> DEFINE R == round[s]
           n == R.doc
           c == R.content
           k == CopyOf(s, n)
           m1 == With(R.meta, n, c)
           m2 == Without(R.meta, n)
           w2 == With(R.waiting, n, server[n])
           r1 == Pushed(s, n, m1)
           r2 == Pushed(s, n, m2)
           r3 == [R EXCEPT !.at = "push", !.meta = Without(@, n), !.recreated = @ \cup {n}]
           r4 == [R EXCEPT !.at = "push", !.todo = (@ \ {n}) \cup {k}, !.recreated = @ \cup {k},
                           !.meta = Without(@, n), !.waiting = With(@, n, server[n])]
           r5 == Pushed(s, n, R.meta)
           ok == Accepts(n, c, BaseOf(s, n))
<1>1. R.at = "record" /\ Recorded(n, c, BaseOf(s, n)) /\ UNCHANGED <<saved, Gone, damaged>>
  BY DEF Record, At, Gone
<1>2. /\ \A t \in Store : Tells(server, unseen[t], server', unseen'[t])
      /\ UNCHANGED <<server, unseen>> \/ n \in unseen'[s]
  BY <1>1, RecordedTells
<1>3. (ok => CurrentOf(server', n) = c) /\ (~ok => UNCHANGED <<server, unseen>>)
  BY <1>1, RecordedKept
<1>4. /\ Told(server, unseen[s], meta[s], saved[s], R) /\ meta = Set(meta, s, meta[s])
      /\ DOMAIN R = {"at", "then", "todo", "doc", "content", "waiting", "meta", "recreated", "raced"}
  BY ToldIs
<1>5. Told(server', unseen'[s], meta[s], saved[s], R)
  BY <1>2, <1>4, ToldStays
<1>6. \/ ok /\ Go(s, r1) /\ UNCHANGED meta
      \/ ~ok /\ ~There(n) /\ (Go(s, r2) \/ Go(s, r3)) /\ UNCHANGED meta
      \/ ~ok /\ There(n) /\ Go(s, r4) /\ meta' = Set(meta, s, m2)
      \/ Go(s, r5) /\ UNCHANGED meta
  BY DEF Record
<1>7. /\ r1.at = "push" /\ r1.meta = m1 /\ r1.waiting = R.waiting
      /\ r2.at = "push" /\ r2.meta = m2 /\ r2.waiting = R.waiting
      /\ r5.at = "push" /\ r5.meta = R.meta /\ r5.waiting = R.waiting
  BY <1>4 DEF Pushed
<1>8. r3.at = "push" /\ r3.meta = m2 /\ r3.waiting = R.waiting
  BY <1>4
<1>9. r4.at = "push" /\ r4.meta = m2 /\ r4.waiting = w2
  BY <1>4
<1>10. /\ ValueAt(m1, n) = c /\ \A x : x # n => ValueAt(m1, x) = ValueAt(R.meta, x)
       /\ ValueAt(m2, n) = 0 /\ \A x : x # n => ValueAt(m2, x) = ValueAt(R.meta, x)
  BY DEF ValueAt, Has, With, Without, Restrict
<1>11. ~There(n) => CurrentOf(server, n) = 0
  BY DEF There, CurrentOf
<1>12. ~ok => ValueAt(R.meta, n) # CurrentOf(server, n)
  BY CurrentIs DEF Accepts, Takes, BaseOf
<1>13. ~ok => n \in unseen[s] \/ n \in DOMAIN R.waiting
  BY <1>1, <1>4, <1>12 DEF Told, Informed, Bases, InHand
<1>14. There(n) => n \in DOMAIN server
  BY DEF There, Has
<1> HIDE DEF m1, m2, r1, r2, r3, r4, r5, ok
<1>15. ASSUME NEW m, NEW r, meta' = Set(meta, s, m), Go(s, r), Told(server', unseen'[s], m, saved[s], r)
       PROVE  ToldInv'
  BY <1>1, <1>2, <1>15, RoundTold
<1>16. ASSUME UNCHANGED meta PROVE meta' = Set(meta, s, meta[s])
  BY <1>4, <1>16
<1>17. CASE ok /\ Go(s, r1) /\ UNCHANGED meta
  <2>1. /\ R.at \in InHand /\ r1.at \in InHand \ {"rebuild"} /\ r1.waiting = R.waiting
        /\ \A x : x # n => ValueAt(r1.meta, x) = ValueAt(R.meta, x)
        /\ ValueAt(r1.meta, n) = CurrentOf(server', n)
    BY <1>1, <1>3, <1>7, <1>10, <1>17 DEF InHand
  <2>2. Told(server', unseen'[s], meta[s], saved[s], r1)
    BY <1>5, <2>1, PushTold
  <2> QED
    BY <1>15, <1>16, <1>17, <2>2
<1>18. CASE ~ok /\ ~There(n) /\ (Go(s, r2) \/ Go(s, r3)) /\ UNCHANGED meta
  <2>1. CurrentOf(server', n) = 0
    BY <1>3, <1>11, <1>18
  <2>2. /\ R.at \in InHand /\ r2.at \in InHand \ {"rebuild"} /\ r2.waiting = R.waiting
        /\ r3.at \in InHand \ {"rebuild"} /\ r3.waiting = R.waiting
        /\ \A x : x # n => ValueAt(r2.meta, x) = ValueAt(R.meta, x) /\ ValueAt(r3.meta, x) = ValueAt(R.meta, x)
        /\ ValueAt(r2.meta, n) = CurrentOf(server', n) /\ ValueAt(r3.meta, n) = CurrentOf(server', n)
    BY <1>1, <1>7, <1>8, <1>10, <2>1 DEF InHand
  <2>3. Told(server', unseen'[s], meta[s], saved[s], r2)
    BY <1>5, <2>2, PushTold
  <2>4. Told(server', unseen'[s], meta[s], saved[s], r3)
    BY <1>5, <2>2, PushTold
  <2> QED
    BY <1>15, <1>16, <1>18, <2>3, <2>4
<1>19. CASE ~ok /\ There(n) /\ Go(s, r4) /\ meta' = Set(meta, s, m2)
  <2>1. r4.waiting = With(R.waiting, n, server'[n]) /\ n \in DOMAIN server' /\ (n \in unseen'[s] \/ n \in DOMAIN R.waiting)
    BY <1>3, <1>9, <1>13, <1>14, <1>19
  <2> HIDE DEF w2
  <2>2. Told(server', unseen'[s], m2, saved[s], r4)
    BY <1>1, <1>5, <1>9, <1>10, <2>1, TheirsTold DEF InHand
  <2> QED
    BY <1>15, <1>19, <2>2
<1>20. CASE Go(s, r5) /\ UNCHANGED meta
  <2>1. Told(server', unseen'[s], meta[s], saved[s], r5)
    BY <1>1, <1>5, <1>7 DEF Told, Bases, InHand
  <2> QED
    BY <1>15, <1>16, <1>20, <2>1
<1> QED
  BY <1>6, <1>17, <1>18, <1>19, <1>20

(* So does that to a removal.                                              *)
LEMMA RemoveTold ==
  ASSUME KeptInv, ToldInv, used.damages = 0, used'.damages = 0, NEW s \in Store, Remove(s)
  PROVE  ToldInv'
<1> DEFINE R == round[s]
           n == R.doc
           m == Without(R.meta, n)
           w == With(R.waiting, n, server[n])
           theirs == There(n) /\ ~Takes(n, BaseOf(s, n))
           r1 == Pushed(s, n, m)
           r2 == [r1 EXCEPT !.waiting = With(@, n, server[n])]
<1>1. R.at = "remove" /\ UNCHANGED <<meta, saved, damaged>>
  BY DEF Remove, At
<1>2. /\ IF There(n) /\ ~theirs THEN TakeOff(n) ELSE UNCHANGED <<server, unseen>>
      /\ Go(s, IF theirs THEN r2 ELSE r1)
  BY DEF Remove
<1>3. /\ Told(server, unseen[s], meta[s], saved[s], R) /\ meta = Set(meta, s, meta[s])
      /\ DOMAIN R = {"at", "then", "todo", "doc", "content", "waiting", "meta", "recreated", "raced"}
  BY ToldIs
<1>4. TakeOff(n) => \A t \in Store : Tells(server, unseen[t], server', unseen'[t]) /\ n \in unseen'[t]
  BY TakeOffTells
<1>5. UNCHANGED <<server, unseen>> => \A t \in Store : Tells(server, unseen[t], server', unseen'[t])
  BY DEF Tells
<1>6. /\ r1.at = "push" /\ r1.meta = m /\ r1.waiting = R.waiting
      /\ r2.at = "push" /\ r2.meta = m /\ r2.waiting = w
  BY <1>3 DEF Pushed
<1>7. ValueAt(m, n) = 0 /\ \A x : x # n => ValueAt(m, x) = ValueAt(R.meta, x)
  BY DEF ValueAt, Has, Without, Restrict
<1>8. ~There(n) => CurrentOf(server, n) = 0
  BY DEF There, CurrentOf
<1>9. theirs => n \in unseen[s] \/ n \in DOMAIN R.waiting
  BY <1>1, <1>3, CurrentIs DEF Told, Informed, Bases, InHand, Takes, BaseOf
<1>10. theirs => n \in DOMAIN server /\ There(n)
  BY DEF There, Has
<1>11. /\ \A t \in Store : Tells(server, unseen[t], server', unseen'[t])
       /\ There(n) /\ ~theirs => n \in unseen'[s]
       /\ ~(There(n) /\ ~theirs) => UNCHANGED <<server, unseen>>
  BY <1>2, <1>4, <1>5
<1>12. Told(server', unseen'[s], meta[s], saved[s], R)
  BY <1>3, <1>11, ToldStays
<1> HIDE DEF m, r1, r2, theirs
<1>13. CASE ~theirs
  <2>1. n \in unseen'[s] \/ ValueAt(m, n) = CurrentOf(server', n)
    BY <1>7, <1>8, <1>11, <1>13
  <2>2. Told(server', unseen'[s], meta[s], saved[s], r1)
    BY <1>1, <1>6, <1>7, <1>12, <2>1, PushTold DEF InHand
  <2> QED
    BY <1>1, <1>2, <1>3, <1>11, <1>13, <2>2, RoundTold
<1>14. CASE theirs
  <2>1. r2.waiting = With(R.waiting, n, server'[n]) /\ n \in DOMAIN server' /\ (n \in unseen'[s] \/ n \in DOMAIN R.waiting)
    BY <1>6, <1>9, <1>10, <1>11, <1>14
  <2> HIDE DEF w
  <2>2. Told(server', unseen'[s], meta[s], saved[s], r2)
    BY <1>1, <1>6, <1>7, <1>12, <2>1, TheirsTold DEF InHand
  <2> QED
    BY <1>1, <1>2, <1>3, <1>11, <1>14, <2>2, RoundTold
<1> QED
  BY <1>13, <1>14

(* What was not answered is told by the feed.                              *)
LEMMA FailTold ==
  ASSUME KeptInv, ToldInv, used.damages = 0, used'.damages = 0, NEW s \in Store, Fail(s)
  PROVE  ToldInv'
<1> DEFINE R == round[s]
           n == R.doc
           b == BaseOf(s, n)
           r == [R EXCEPT !.at = "end"]
<1>1. Go(s, r) /\ UNCHANGED <<damaged, saved>>
  BY DEF Fail
<1>2. /\ Told(server, unseen[s], meta[s], saved[s], R) /\ meta = Set(meta, s, meta[s])
      /\ DOMAIN R = {"at", "then", "todo", "doc", "content", "waiting", "meta", "recreated", "raced"}
  BY ToldIs
<1>3. r.at = "end" /\ r.waiting = R.waiting
  BY <1>2
<1>4. \/ R.at = "fetch" /\ UNCHANGED <<server, unseen, meta>>
      \/ /\ R.at \in {"record", "remove"} /\ meta' = Set(meta, s, R.meta)
         /\ UNCHANGED <<server, unseen>> \/ Recorded(n, R.content, b) \/ TakeOff(n)
  BY DEF Fail, At
<1>5. \A t \in Store : Tells(server, unseen[t], server', unseen'[t])
  <2>1. UNCHANGED <<server, unseen>> => \A t \in Store : Tells(server, unseen[t], server', unseen'[t])
    BY DEF Tells
  <2>2. Recorded(n, R.content, b) => \A t \in Store : Tells(server, unseen[t], server', unseen'[t])
    BY RecordedTells
  <2>3. TakeOff(n) => \A t \in Store : Tells(server, unseen[t], server', unseen'[t])
    BY TakeOffTells
  <2> QED
    BY <1>4, <2>1, <2>2, <2>3
<1>6. Told(server', unseen'[s], meta[s], saved[s], R)
  BY <1>2, <1>5, ToldStays
<1> HIDE DEF r
<1>7. Told(server', unseen'[s], Bases(meta[s], R), saved[s], r)
  BY <1>3, <1>4, <1>6, WrittenTold
<1>8. meta' = Set(meta, s, Bases(meta[s], R))
  BY <1>2, <1>4 DEF Bases, InHand
<1> QED
  BY <1>1, <1>5, <1>7, <1>8, RoundTold

-----------------------------------------------------------------------------

(* A doc that failed waits still.                                          *)
LEMMA FailDocTold ==
  ASSUME KeptInv, ToldInv, used.damages = 0, used'.damages = 0, NEW s \in Store, FailDoc(s)
  PROVE  ToldInv'
<1> DEFINE R == round[s]
           n == R.doc
           r1 == Later(s, n)
           r2 == Pushed(s, n, R.meta)
<1>1. UNCHANGED <<server, unseen, meta, damaged, saved>>
  BY DEF FailDoc
<1>2. /\ Told(server, unseen[s], meta[s], saved[s], R) /\ meta = Set(meta, s, meta[s])
      /\ DOMAIN R = {"at", "then", "todo", "doc", "content", "waiting", "meta", "recreated", "raced"}
  BY ToldIs
<1>3. \/ R.at = "fetch" /\ Go(s, r1)
      \/ R.at \in {"record", "remove"} /\ Go(s, r2)
  BY DEF FailDoc, At
<1>4. /\ r1.at = "pull" /\ r1.waiting = R.waiting
      /\ r2.at = "push" /\ r2.waiting = R.waiting /\ r2.meta = R.meta
  BY <1>2 DEF Later, Pushed
<1> HIDE DEF r1, r2
<1>5. R.at = "fetch" => Told(server, unseen[s], meta[s], saved[s], r1)
  BY <1>2, <1>4 DEF Told, Bases, InHand
<1>6. R.at \in {"record", "remove"} => Told(server, unseen[s], meta[s], saved[s], r2)
  BY <1>2, <1>4 DEF Told, Bases, InHand
<1>7. PICK r : Go(s, r) /\ Told(server, unseen[s], meta[s], saved[s], r)
  BY <1>3, <1>5, <1>6
<1>8. meta' = Set(meta, s, meta[s]) /\ Told(server', unseen'[s], meta[s], saved[s], r)
  BY <1>1, <1>2, <1>7
<1> QED
  BY <1>1, <1>7, <1>8, RoundTold

(* A file that is written or deleted is no news.                           *)
LEMMA PersonTold ==
  ASSUME KeptInv, ToldInv, used.damages = 0, used'.damages = 0, NEW s \in Store, EditFile(s) \/ DeleteFile(s)
  PROVE  ToldInv'
<1> DEFINE R == round[s]
<1>1. UNCHANGED <<server, unseen, meta, damaged, saved>>
  BY DEF EditFile, DeleteFile
<1>2. /\ Told(server, unseen[s], meta[s], saved[s], R) /\ meta = Set(meta, s, meta[s])
      /\ DOMAIN R = {"at", "then", "todo", "doc", "content", "waiting", "meta", "recreated", "raced"}
  BY ToldIs
<1>3. round = Set(round, s, R)
  BY StoreIs, SetSame
<1>4. PICK r : round' = Set(round, s, r) /\ r.at = R.at /\ r.waiting = R.waiting /\ r.meta = R.meta /\ r.doc = R.doc
  BY <1>2, <1>3 DEF EditFile, DeleteFile
<1>5. Told(server, unseen[s], meta[s], saved[s], r)
  BY <1>2, <1>4 DEF Told, Bases, InHand
<1>6. meta' = Set(meta, s, meta[s]) /\ Go(s, r) /\ Told(server', unseen'[s], meta[s], saved[s], r)
  BY <1>1, <1>2, <1>4, <1>5 DEF Go
<1> QED
  BY <1>1, <1>6, RoundTold

(* There is no doc at first.                                               *)
LEMMA ToldInit == Init => ToldInv
<1>1. DOMAIN Empty = {} /\ AtRest.at = "idle"
  BY FileEmpty DEF AtRest
<1>2. \A n : CurrentOf(Empty, n) = 0 /\ ValueAt(Empty, n) = 0
  BY <1>1 DEF CurrentOf, ValueAt, Has
<1>3. Told(Empty, {}, Empty, Empty, AtRest)
  BY <1>1, <1>2 DEF Told, Informed, News
<1> QED
  BY <1>3 DEF Init, ToldInv, ToldAt

(* Every step keeps it.                                                    *)
LEMMA ToldNext ==
  ASSUME KeptInv, ToldInv, [Next]_vars
  PROVE  ToldInv'
<1>1. CASE UNCHANGED vars
  BY <1>1 DEF vars, ToldInv, ToldAt
<1>2. CASE OnDashboard
  <2>1. (used'.damages = 0 => used.damages = 0) /\ UNCHANGED <<meta, damaged, saved, round>>
    BY <1>2, StoreIs DEF OnDashboard, Happens, KeptInv, DocsTypes
  <2>2. \A t \in Store : Tells(server, unseen[t], server', unseen'[t])
    BY <1>2, TellTells DEF OnDashboard, Put, TakeOff, KeptInv
  <2> QED
    BY <2>1, <2>2, OthersTold
<1>3. ASSUME NEW s \in Store, EditFile(s) \/ DeleteFile(s)
      PROVE  ToldInv'
  <2>1. used'.damages = used.damages
    BY <1>3, StoreIs DEF EditFile, DeleteFile, Happens
  <2> QED
    BY <1>3, <2>1, PersonTold DEF ToldInv
<1>4. ASSUME NEW s \in Store, Damage(s) PROVE ToldInv'
  <2>1. used'.damages = used.damages + 1 /\ used.damages \in Nat
    BY <1>4, StoreIs DEF Damage, Happens
  <2> QED
    BY <2>1 DEF ToldInv
<1>5. ASSUME NEW s \in Store, Begin(s) \/ Step(s) \/ Fail(s) \/ FailDoc(s) \/ Crash(s) PROVE ToldInv'
  <2>1. used'.damages = used.damages
    BY <1>5, StoreIs DEF Begin, Step, Fail, FailDoc, Crash, Happens, FetchForCommand, EndRound, Rebuild, EndRebuild, Pull, Fetch, EndPull,
                         PushDoc, Record, Remove, EndPush
  <2>2. CASE used'.damages # 0
    BY <2>2 DEF ToldInv
  <2>3. CASE used'.damages = 0
    <3>1. used.damages = 0 /\ ~At(s, "rebuild")
      BY <2>1, <2>3 DEF ToldInv, ToldAt, Told, At
    <3>2. ~Rebuild(s) /\ ~EndRebuild(s)
      BY <3>1 DEF Rebuild, EndRebuild
    <3> QED
      BY <1>5, <2>3, <3>1, <3>2, BeginTold, FetchForCommandTold, EndRoundTold, PullTold, FetchTold, EndPullTold,
         PushDocTold, RecordTold, RemoveTold, EndPushTold, FailTold, FailDocTold, CrashTold DEF Step
  <2> QED
    BY <2>2, <2>3
<1> QED
  BY <1>1, <1>2, <1>3, <1>4, <1>5 DEF Next

(* So a store with nothing to sync has what the server has.                *)
LEMMA ToldGives ==
  ASSUME KeptInv, ToldInv
  PROVE  SettledDocsAgree
<1> SUFFICES ASSUME NEW s \in Store, Settled(s), used.damages = 0
             PROVE  files[s] = [n \in {m \in DOMAIN server : There(m)} |-> Current(n)]
  BY DEF SettledDocsAgree
<1>1. /\ Told(server, unseen[s], meta[s], saved[s], round[s])
      /\ IsFile(files[s]) /\ IsDocs(server)
  BY ToldIs, StoreIs DEF Kept, DocsTypes
<1>2. unseen[s] = {} /\ DOMAIN saved[s] = {} /\ meta[s] = files[s]
  BY FileEmpty DEF Settled
<1>3. \A n : ValueAt(files[s], n) = Current(n)
  BY <1>1, <1>2, CurrentIs DEF Told, Informed
<1>4. \A n \in DOMAIN files[s] : files[s][n] # 0 /\ files[s][n] = Current(n)
  BY <1>1, <1>3 DEF IsFile, ValueAt, Has
<1>5. \A n \in DOMAIN files[s] : n \in DOMAIN server /\ There(n)
  BY <1>4 DEF Current, There, Has
<1>6. \A n \in DOMAIN server : There(n) => Current(n) # 0
  BY <1>1 DEF IsDocs, Doc, Current
<1>7. \A n \in DOMAIN server : There(n) => n \in DOMAIN files[s]
  BY <1>3, <1>6 DEF ValueAt, Has
<1>8. DOMAIN files[s] = {m \in DOMAIN server : There(m)}
  BY <1>5, <1>7
<1>9. files[s] = [n \in DOMAIN files[s] |-> files[s][n]]
  BY <1>1 DEF IsFile, IsFunction
<1> QED
  BY <1>4, <1>8, <1>9

(* A store that has nothing to pull and nothing to push has the docs the   *)
(* server has (todo/sync.py), whatever people, rounds, failures and kills  *)
(* did before, as long as no sidecar was lost.                             *)
THEOREM SettledDocs == Spec => []SettledDocsAgree
<1>1. KeptInv /\ [Next]_vars /\ ToldInv => ToldInv'
  BY ToldNext
<1>2. KeptInv /\ ToldInv => SettledDocsAgree
  BY ToldGives
<1> QED
  BY <1>1, <1>2, ToldInit, DocsInvariance, PTL DEF Spec

=============================================================================
