------------------------ MODULE StateDatabaseProofs ------------------------
(***************************************************************************)
(* Theorems about StateDatabase, for every number of processes and every   *)
(* range of schema versions.                                               *)
(***************************************************************************)
EXTENDS StateDatabase, TLAPS, WellFoundedInduction, FiniteSetTheorems

Steps == {"idle", "drop", "create", "stamp", "migrate", "ready", "call"}

----------------------------------------------------------------------------
(***************************************************************************)
(* The version.  A file is either being created - and then nobody          *)
(* upgrades it - or it has tables, and then nobody creates it.             *)
(***************************************************************************)
Shared ==
  /\ version \in 0..Current /\ shape \in 0..Current
  /\ pc \in [Procs -> Steps]
  /\ seen \in [Procs -> 0..Current]
  /\ \A p \in Procs : pc[p] = "migrate" => seen[p] < Current

Created ==
  /\ {version, shape} \subseteq {0, Current}
  /\ \A p \in Procs : pc[p] # "migrate"

Upgraded ==
  /\ shape # 0
  /\ \A p \in Procs : pc[p] \notin {"drop", "create", "stamp"}

Earned == Shared /\ VersionIsEarned /\ (Created \/ Upgraded)

LEMMA MaxOfTwo ==
  ASSUME NEW m \in Nat, NEW n \in Nat
  PROVE  Max({m, n}) = IF m >= n THEN m ELSE n
<1>1. CASE m >= n
  <2>1. m \in {m, n} /\ \A y \in {m, n} : m >= y
    BY <1>1
  <2>2. \A x \in {m, n} : (\A y \in {m, n} : x >= y) => x = m
    BY <1>1
  <2> QED BY <1>1, <2>1, <2>2 DEF Max
<1>2. CASE ~(m >= n)
  <2>1. n \in {m, n} /\ \A y \in {m, n} : n >= y
    BY <1>2
  <2>2. \A x \in {m, n} : (\A y \in {m, n} : x >= y) => x = n
    BY <1>2
  <2> QED BY <1>2, <2>1, <2>2 DEF Max
<1> QED BY <1>1, <1>2

LEMMA InitEarned == Init => Earned
<1> SUFFICES ASSUME Init PROVE Earned
  OBVIOUS
<1> USE StateDatabaseAssumption
<1>1. Shared
  BY DEF Init, Shared, Steps
<1>2. Created \/ Upgraded
  BY DEF Init, Created, Upgraded
<1> QED BY <1>1, <1>2 DEF Init, Earned, VersionIsEarned

(* A tool call leaves the schema alone. *)
LEMMA CallKeepsSchema ==
  ASSUME NEW p \in Procs, Begins(p) \/ Writes(p) \/ Ends(p)
  PROVE  /\ UNCHANGED <<version, shape, seen, raced>>
         /\ \E to \in {"idle", "call"} : pc' = [pc EXCEPT ![p] = to]
BY DEF Begins, Writes, Ends, Kept, Returns, Goes, GoesOn, schema,
   CreateWatchlist, BeginCreatePortfolio, BeginDelete, BeginRename, BeginAdd,
   BeginRemove, Insert, Rename, Delete, Add, Remove

LEMMA StepEarned == Earned /\ [Next]_vars => Earned'
<1> SUFFICES ASSUME Earned, [Next]_vars PROVE Earned'
  OBVIOUS
<1> USE StateDatabaseAssumption DEF Earned, Shared, Steps, VersionIsEarned
<1>1. ASSUME NEW p \in Procs, Open(p) PROVE Earned'
  BY <1>1 DEF Open, Goes, MayReset, Created, Upgraded
<1>2. ASSUME NEW p \in Procs, Drop(p) PROVE Earned'
  BY <1>2 DEF Drop, Goes, Created, Upgraded
<1>3. ASSUME NEW p \in Procs, Create(p) PROVE Earned'
  BY <1>3 DEF Create, Goes, Created, Upgraded
<1>4. ASSUME NEW p \in Procs, Stamp(p) PROVE Earned'
  BY <1>4 DEF Stamp, Goes, Created, Upgraded
<1>5. ASSUME NEW p \in Procs, Migrate(p) PROVE Earned'
  <2>1. Upgraded
    BY <1>5 DEF Migrate, Created
  <2>2. shape' = IF shape >= seen[p] + 1 THEN shape ELSE seen[p] + 1
    <3>1. shape \in Nat /\ seen[p] + 1 \in Nat
      OBVIOUS
    <3> QED BY <1>5, <3>1, MaxOfTwo DEF Migrate
  <2>3. seen[p] + 1 \in 0..Current
    BY <1>5 DEF Migrate
  <2>4. version' = seen[p] + 1 /\ seen' = [seen EXCEPT ![p] = @ + 1]
        /\ pc' = [pc EXCEPT ![p] = IF seen[p] + 1 = Current THEN "ready" ELSE "migrate"]
    BY <1>5 DEF Migrate, MigratesTo, Goes
  <2>5. Upgraded'
    BY <2>1, <2>2, <2>4 DEF Upgraded
  <2>6. Shared'
    BY <2>2, <2>3, <2>4
  <2> QED BY <2>2, <2>3, <2>4, <2>5, <2>6
<1>6. ASSUME NEW p \in Procs, Begins(p) \/ Writes(p) \/ Ends(p) PROVE Earned'
  BY <1>6, CallKeepsSchema DEF Created, Upgraded
<1>7. CASE UNCHANGED vars
  BY <1>7 DEF vars, schema, Created, Upgraded
<1> QED BY <1>1, <1>2, <1>3, <1>4, <1>5, <1>6, <1>7 DEF Next, Opening

LEMMA EarnedCorrect == Spec => []Earned
<1>1. Init => Earned
  BY InitEarned
<1>2. Earned /\ [Next]_vars => Earned'
  BY StepEarned
<1> QED BY <1>1, <1>2, PTL DEF Spec

\* The recorded version never runs ahead of the tables, whoever creates and
\* upgrades them, and wherever it is interrupted.
THEOREM VersionEarned == Spec => []VersionIsEarned
<1>1. Earned => VersionIsEarned
  BY DEF Earned
<1> QED BY <1>1, EarnedCorrect, PTL


LEMMA CallGoesOn ==
  ASSUME NEW p \in Procs, Begins(p) \/ Writes(p) \/ Ends(p)
  PROVE  Returns(p) \/ \E a : GoesOn(p, a) /\ a.op # "none"
<1> DEFINE Going == \E a : GoesOn(p, a) /\ a.op # "none"
<1>3. ASSUME NEW c, NEW k PROVE AddTo(c, k).op = "add"
  BY DEF AddTo, NoCall
<1>4. ASSUME NEW n, BeginCreatePortfolio(p, n) PROVE Returns(p) \/ Going
  <2> DEFINE a == [NoCall EXCEPT !.op = "insert", !.kind = "portfolio", !.name = n]
  <2>1. Returns(p) \/ GoesOn(p, a)
    BY <1>4 DEF BeginCreatePortfolio
  <2>2. a.op # "none"
    BY DEF NoCall
  <2> HIDE DEF a
  <2> QED BY <2>1, <2>2
<1>5. ASSUME NEW n, BeginDelete(p, n) PROVE Going
  <2>1. PICK c, d : GoesOn(p, [NoCall EXCEPT !.op = "delete", !.id = c.id,
                                 !.marked = c.default, !.other = d.id])
    BY <1>5 DEF BeginDelete
  <2> DEFINE a == [NoCall EXCEPT !.op = "delete", !.id = c.id,
                                 !.marked = c.default, !.other = d.id]
  <2>2. a.op # "none"
    BY DEF NoCall
  <2>3. GoesOn(p, a)
    BY <2>1
  <2> HIDE DEF a
  <2> QED BY <2>2, <2>3
<1>6. ASSUME NEW k, NEW n, NEW m, BeginRename(p, k, n, m) PROVE Going
  <2> DEFINE id == FirstOf(Named(coll, k, n)).id
             a == [NoCall EXCEPT !.op = "rename", !.kind = k, !.name = m, !.id = id]
  <2>1. GoesOn(p, a)
    BY <1>6 DEF BeginRename
  <2> HIDE DEF id
  <2>2. a.op # "none"
    BY DEF NoCall
  <2> HIDE DEF a
  <2> QED BY <2>1, <2>2
<1>7. ASSUME NEW k, NEW n, BeginAdd(p, k, n) PROVE Going
  <2> DEFINE a == [NoCall EXCEPT !.op = "insert", !.kind = k, !.name = n, !.adds = TRUE]
  <2>1. \/ \E c : GoesOn(p, AddTo(c, k))
        \/ GoesOn(p, a)
    BY <1>7 DEF BeginAdd
  <2>2. a.op # "none"
    BY DEF NoCall
  <2> HIDE DEF a
  <2> QED BY <1>3, <2>1, <2>2
<1>8. ASSUME NEW k, NEW n, NEW e, BeginRemove(p, k, n, e) PROVE Going
  <2> DEFINE a == [NoCall EXCEPT !.op = "remove", !.kind = k, !.id = e.id]
  <2>1. GoesOn(p, a)
    BY <1>8 DEF BeginRemove
  <2>2. a.op # "none"
    BY DEF NoCall
  <2> HIDE DEF a
  <2> QED BY <2>1, <2>2
<1>9. ASSUME Writes(p) PROVE Returns(p) \/ Going
  BY <1>3, <1>9 DEF Writes, Insert, Rename, Delete, Add, Remove
<1> QED BY <1>4, <1>5, <1>6, <1>7, <1>8, <1>9 DEF Begins, Ends, CreateWatchlist

InCall ==
  /\ call = [p \in Procs |-> call[p]]
  /\ \A p \in Procs : pc[p] = "call" <=> call[p] # NoCall

LEMMA StepInCall == Earned /\ InCall /\ [Next]_vars => InCall'
<1> SUFFICES ASSUME Earned, InCall, [Next]_vars PROVE InCall'
  OBVIOUS
<1>1. ASSUME NEW p \in Procs, Opening(p) PROVE InCall'
  <2>1. /\ UNCHANGED call /\ pc[p] # "call"
        /\ \E to \in Steps \ {"call"} : pc' = [pc EXCEPT ![p] = to]
    BY <1>1 DEF Opening, Open, Drop, Create, Stamp, Migrate, Goes, Steps
  <2> QED BY <2>1 DEF Earned, Shared, InCall
<1>2. ASSUME NEW p \in Procs, Begins(p) \/ Writes(p) \/ Ends(p) PROVE InCall'
  <2>1. CASE Returns(p)
    BY <2>1 DEF Returns, Goes, Earned, Shared, InCall
  <2>2. CASE \E a : GoesOn(p, a) /\ a.op # "none"
    <3>1. PICK a : GoesOn(p, a) /\ a.op # "none"
      BY <2>2
    <3>2. a # NoCall
      BY <3>1 DEF NoCall
    <3> QED BY <3>1, <3>2 DEF GoesOn, Goes, Earned, Shared, InCall
  <2> QED BY <1>2, <2>1, <2>2, CallGoesOn
<1>3. CASE UNCHANGED vars
  BY <1>3 DEF vars, InCall
<1> QED BY <1>1, <1>2, <1>3 DEF Next

\* Versions and calls keep their types, whatever the schema versions there are.
THEOREM TypeCorrect == Spec => []TypeOK
<1>1. Init => InCall
  BY DEF Init, InCall
<1>2. Earned /\ InCall /\ [Next]_vars => InCall'
  BY StepInCall
<1>3. Earned /\ InCall => TypeOK
  BY DEF Earned, Shared, Steps, InCall, TypeOK
<1> QED BY <1>1, <1>2, <1>3, EarnedCorrect, PTL DEF Spec

----------------------------------------------------------------------------
(***************************************************************************)
(* Before the rebuild nobody works with the rows, and none has lost its    *)
(* collection.                                                             *)
(***************************************************************************)
Before ==
  /\ \A p \in Procs : pc[p] \in {"ready", "call"} => shape \in {0, Current}
  /\ \A p \in Procs : pc[p] = "migrate" => seen[p] <= shape
  /\ shape \in 1..Rebuild =>
       \A e \in entries : \E c \in coll : c.kind = e.kind /\ c.id = e.coll

LEMMA InitBefore == Init => Before
<1> SUFFICES ASSUME Init PROVE Before
  OBVIOUS
<1>1. \A c, i : ItemOf(c, i).kind = "watchlist" /\ ItemOf(c, i).coll = c.id
  BY DEF ItemOf
<1>2. /\ Main.kind = "watchlist" /\ Namesake.kind = "watchlist"
  BY DEF Main, Namesake
<1>3. \E f \in Found : coll = f[1] /\ entries = f[2]
  BY DEF Init
<1>4. \A e \in entries : \E c \in coll : c.kind = e.kind /\ c.id = e.coll
  BY <1>1, <1>2, <1>3 DEF Found
<1> QED BY <1>4 DEF Init, Before

LEMMA MigrateShape ==
  ASSUME Earned, NEW p \in Procs, Migrate(p)
  PROVE  /\ shape # 0 /\ seen[p] + 1 \in 1..Current /\ shape' >= seen[p] + 1
         /\ shape' = IF shape >= seen[p] + 1 THEN shape ELSE seen[p] + 1
         /\ pc' = [pc EXCEPT ![p] = IF seen[p] + 1 = Current THEN "ready" ELSE "migrate"]
<1> USE StateDatabaseAssumption DEF Earned, Shared
<1>1. shape # 0
  BY DEF Migrate, Created, Upgraded
<1>2. shape \in Nat /\ seen[p] \in Nat /\ seen[p] < Current
  BY DEF Migrate
<1>3. shape' = IF shape >= seen[p] + 1 THEN shape ELSE seen[p] + 1
  BY <1>2, MaxOfTwo DEF Migrate
<1> QED BY <1>1, <1>2, <1>3 DEF Migrate, Goes

LEMMA StepBefore == Earned /\ Before /\ [Next]_vars => Before'
<1> SUFFICES ASSUME Earned, Before, [Next]_vars PROVE Before'
  OBVIOUS
<1> USE StateDatabaseAssumption
<1>1. ASSUME NEW p \in Procs, Open(p) PROVE Before'
  BY <1>1 DEF Open, Goes, rows, Earned, Shared, VersionIsEarned, Before
<1>2. ASSUME NEW p \in Procs, Drop(p) PROVE Before'
  BY <1>2 DEF Drop, Goes, Earned, Shared, Created, Upgraded, Before
<1>3. ASSUME NEW p \in Procs, Create(p) PROVE Before'
  BY <1>3 DEF Create, Goes, Earned, Shared, Created, Upgraded, Before
<1>4. ASSUME NEW p \in Procs, Stamp(p) PROVE Before'
  BY <1>4 DEF Stamp, Goes, rows, Earned, Shared, Created, Upgraded, Before
<1>5. ASSUME NEW p \in Procs, Migrate(p) PROVE Before'
  <2>1. /\ shape # 0 /\ seen[p] + 1 \in 1..Current
        /\ shape' = IF shape >= seen[p] + 1 THEN shape ELSE seen[p] + 1
        /\ pc' = [pc EXCEPT ![p] = IF seen[p] + 1 = Current THEN "ready" ELSE "migrate"]
    BY <1>5, MigrateShape
  <2>2. shape \in 0..Current /\ seen[p] \in 0..Current /\ pc \in [Procs -> Steps]
    BY DEF Earned, Shared
  <2>3. \A q \in Procs : pc'[q] \in {"ready", "call"} => shape' \in {0, Current}
    BY <2>1, <2>2 DEF Before
  <2>4. ASSUME shape' \in 1..Rebuild
        PROVE  \A e \in entries' : \E c \in coll' : c.kind = e.kind /\ c.id = e.coll
    <3>1. seen[p] # Rebuild /\ shape \in 1..Rebuild
      BY <2>1, <2>2, <2>4
    <3>2. UNCHANGED <<coll, entries>>
      BY <1>5, <3>1 DEF Migrate, rows
    <3> QED BY <3>1, <3>2 DEF Before
  <2>5. \A q \in Procs : pc'[q] = "migrate" => seen'[q] <= shape'
    <3>1. seen' = [seen EXCEPT ![p] = seen[p] + 1] /\ seen \in [Procs -> 0..Current]
      BY <1>5 DEF Migrate, Earned, Shared
    <3>2. shape' \in Nat /\ shape <= shape' /\ seen[p] + 1 <= shape'
      BY <2>1, <2>2
    <3> TAKE q \in Procs
    <3>3. CASE q = p
      BY <3>1, <3>2, <3>3
    <3>4. CASE q # p
      BY <2>1, <2>2, <3>1, <3>2, <3>4 DEF Before
    <3> QED BY <3>3, <3>4
  <2> QED BY <2>3, <2>4, <2>5 DEF Before
<1>6. ASSUME NEW p \in Procs, Begins(p) \/ Writes(p) PROVE Before'
  <2>1. UNCHANGED <<shape, seen>> /\ \E to \in {"idle", "call"} : pc' = [pc EXCEPT ![p] = to]
    BY <1>6, CallKeepsSchema
  <2>2. pc[p] \in {"ready", "call"} /\ shape # 0
    BY <1>6 DEF Begins, Writes, Ready, Doing, CreateWatchlist, BeginCreatePortfolio,
       BeginDelete, BeginRename, BeginAdd, BeginRemove, Insert, Rename, Delete, Add, Remove
  <2>3. shape = Current
    BY <2>2 DEF Before
  <2> QED BY <2>1, <2>3 DEF Before, Earned, Shared
<1>7. ASSUME NEW p \in Procs, Ends(p) PROVE Before'
  <2>1. UNCHANGED <<shape, seen, coll, entries>> /\ pc' = [pc EXCEPT ![p] = "idle"]
    BY <1>7 DEF Ends, Returns, Goes, Kept, schema, rows
  <2> QED BY <2>1 DEF Before, Earned, Shared
<1>8. CASE UNCHANGED vars
  BY <1>8 DEF vars, schema, rows, Before
<1> QED BY <1>1, <1>2, <1>3, <1>4, <1>5, <1>6, <1>7, <1>8 DEF Next, Opening

----------------------------------------------------------------------------
(***************************************************************************)
(* The rows, on a file that no reset has raced for.  Ids identify          *)
(* collections, what a call goes on from is still true of the row that has *)
(* the id, and a file without tables has no rows and nobody who uses them. *)
(***************************************************************************)
IsRow(c) == c = [id |-> c.id, born |-> c.born, kind |-> c.kind, name |-> c.name,
                 default |-> c.default]

Ids(cs, l) ==
  /\ \A c \in cs : c.id \in Nat /\ c.id <= l /\ IsRow(c)
  /\ \A c, d \in cs : c.id = d.id => c = d

Fits(a, cs, l) ==
  /\ a.op = "add" => /\ a.id \in Nat /\ a.id <= l
                     /\ \A d \in cs : d.id = a.id => d.born = a.born
  /\ a.op = "delete" => /\ a.kind = "watchlist" /\ a.other \in Nat /\ a.other <= l
                        /\ a.other # a.id
                        /\ \A d \in cs : d.id = a.other => d.kind = "watchlist"

Belongs(e, cs, l) ==
  /\ e.coll \in Nat /\ e.coll <= l
  /\ \A c \in cs : c.id = e.coll => c.born = e.born

Empty ==
  /\ coll = {} /\ entries = {} /\ saved = {}
  /\ \A p \in Procs : pc[p] # "call"

Numbered(es, l) == l \in Nat /\ \A e \in es : e.id \in Nat /\ e.id <= l

Whole ==
  /\ last \in Nat
  /\ shape = 0 => Empty
  /\ Ids(coll, last)
  /\ \A e \in entries : Belongs(e, coll, last)
  /\ \A p \in Procs : pc[p] = "call" => Fits(call[p], coll, last)
  /\ Numbered(entries, lastEntry)
  /\ saved \subseteq KeysOf(entries)

Sound ==
  /\ Shared
  /\ call = [p \in Procs |-> call[p]]
  /\ \A p \in Procs : pc[p] = "drop" => seen[p] = 0
  /\ ~raced => Whole

(* What the collections may become in a call. *)
Grows(cs) ==
  \A d \in cs : \/ \E c \in coll : c.id = d.id /\ c.born = d.born /\ c.kind = d.kind
               \/ last < d.id

Follows(cs) == Grows(cs) /\ Ids(cs, last + 2)

(* What they have become. *)
Become(cs) ==
  coll' = cs /\ last' \in Nat /\ last <= last' /\ Ids(cs, last') /\ Grows(cs)

LEMMA MaxIn ==
  ASSUME NEW n \in Nat, NEW S \in SUBSET (0..n), S # {}
  PROVE  Max(S) \in S /\ Max(S) \in Nat /\ \A y \in S : y <= Max(S)
<1> DEFINE T == {n - x : x \in S}
<1>1. T \subseteq Nat /\ T # {}
  <2>1. \A x \in S : x \in 0..n /\ n - x \in Nat
    OBVIOUS
  <2>2. PICK x \in S : TRUE
    OBVIOUS
  <2>3. n - x \in T
    OBVIOUS
  <2> QED BY <2>1, <2>3
<1>2. PICK t \in T : \A u \in T : ~(<<u, t>> \in OpToRel(<, Nat))
  BY <1>1, NatLessThanWellFounded, WFMin
<1>3. PICK x \in S : t = n - x
  OBVIOUS
<1>4. \A y \in S : x >= y
  <2> TAKE y \in S
  <2>1. n - y \in T /\ n - y \in Nat /\ t \in Nat
    BY <1>1
  <2>2. ~(n - y < t)
    BY <1>2, <2>1 DEF OpToRel
  <2> QED BY <1>3, <2>2
<1>5. Max(S) \in S /\ \A y \in S : Max(S) >= y
  BY <1>4 DEF Max
<1>6. \A y \in S : y \in Nat
  OBVIOUS
<1> QED BY <1>5, <1>6

LEMMA StoreLast ==
  ASSUME Whole, NEW cs, Follows(cs), Store(cs)
  PROVE  Become(cs)
<1> DEFINE S == {last} \cup {c.id : c \in cs}
<1>1. last \in Nat /\ \A c \in cs : c.id \in Nat /\ c.id <= last + 2 /\ IsRow(c)
  BY DEF Whole, Follows, Ids
<1>2. S \in SUBSET (0..(last + 2)) /\ S # {} /\ last + 2 \in Nat
  BY <1>1
<1>3. Max(S) \in Nat /\ \A y \in S : y <= Max(S)
  <2> HIDE DEF S
  <2> QED BY <1>2, MaxIn
<1>4. last' = Max(S) /\ coll' = cs
  BY DEF Store
<1>5. last' \in Nat
  <2> HIDE DEF S
  <2> QED BY <1>2, <1>3, <1>4
<1>6. last <= last' /\ \A c \in cs : c.id <= last'
  BY <1>3, <1>4
<1> QED BY <1>1, <1>4, <1>5, <1>6 DEF Follows, Ids, Become

LEMMA FitsKept ==
  ASSUME Whole, NEW cs, Grows(cs), NEW l \in Nat, last <= l, NEW a, Fits(a, coll, last),
         \A c \in cs : c.id \in Nat
  PROVE  Fits(a, cs, l)
<1>1. last \in Nat
  BY DEF Whole
<1>2. ASSUME a.op = "add"
      PROVE  /\ a.id \in Nat /\ a.id <= l
             /\ \A d \in cs : d.id = a.id => d.born = a.born
  <2>1. a.id \in Nat /\ a.id <= last /\ \A d \in coll : d.id = a.id => d.born = a.born
    BY <1>2 DEF Fits
  <2> QED BY <1>1, <2>1 DEF Grows
<1>3. ASSUME a.op = "delete"
      PROVE  /\ a.kind = "watchlist" /\ a.other \in Nat /\ a.other <= l
             /\ a.other # a.id
             /\ \A d \in cs : d.id = a.other => d.kind = "watchlist"
  <2>1. /\ a.kind = "watchlist" /\ a.other \in Nat /\ a.other <= last
        /\ a.other # a.id
        /\ \A d \in coll : d.id = a.other => d.kind = "watchlist"
    BY <1>3 DEF Fits
  <2> QED BY <1>1, <2>1 DEF Grows
<1> QED BY <1>2, <1>3 DEF Fits

LEMMA BelongsKept ==
  ASSUME Whole, NEW cs, Grows(cs), NEW l \in Nat, last <= l, NEW e, Belongs(e, coll, last),
         \A c \in cs : c.id \in Nat
  PROVE  Belongs(e, cs, l)
<1>1. last \in Nat
  BY DEF Whole
<1> QED BY <1>1 DEF Belongs, Grows

(***************************************************************************)
(* A step of a call keeps the rows whole when the collections follow from  *)
(* those there were, and what the call goes on from fits them.             *)
(***************************************************************************)
LEMMA CallStep ==
  ASSUME Sound, ~raced, shape # 0, UNCHANGED <<shape, raced>>, NEW p \in Procs,
         NEW cs, Become(cs),
         NEW to, pc' = [pc EXCEPT ![p] = to],
         NEW a, call' = [call EXCEPT ![p] = a],
         to = "call" => Fits(a, cs, last'),
         \A e \in entries' : e \in entries \/ Belongs(e, coll, last),
         Numbered(entries', lastEntry'), saved' \subseteq KeysOf(entries')
  PROVE  Whole'
<1>1. Whole
  BY DEF Sound
<1>2. /\ coll' = cs /\ last' \in Nat /\ last <= last' /\ Ids(cs, last') /\ Grows(cs)
      /\ \A c \in cs : c.id \in Nat
  BY DEF Become, Ids
<1>3. \A e \in entries' : Belongs(e, cs, last')
  BY <1>1, <1>2, BelongsKept DEF Whole
<1>4. ASSUME NEW q \in Procs, pc'[q] = "call" PROVE Fits(call'[q], cs, last')
  <2>1. CASE q = p
    <3>1. pc'[q] = to /\ call'[q] = a
      BY <2>1 DEF Sound, Shared
    <3> QED BY <1>4, <3>1
  <2>2. CASE q # p
    <3>1. pc[q] = "call" /\ call'[q] = call[q]
      BY <1>4, <2>2 DEF Sound, Shared
    <3>2. Fits(call[q], coll, last)
      BY <1>1, <3>1 DEF Whole
    <3> QED BY <1>1, <1>2, <3>1, <3>2, FitsKept
  <2> QED BY <2>1, <2>2
<1>5. Ids(coll', last')
  BY <1>2
<1>6. \A e \in entries' : Belongs(e, coll', last')
  BY <1>2, <1>3
<1>7. \A q \in Procs : pc'[q] = "call" => Fits(call'[q], coll', last')
  BY <1>2, <1>4
<1>8. shape' # 0
  OBVIOUS
<1> QED BY <1>2, <1>5, <1>6, <1>7, <1>8 DEF Whole, Ids, Fits, Belongs, KeysOf, Key, Numbered


(***************************************************************************)
(* What the operators on collections return.                               *)
(***************************************************************************)
LEMMA FirstOfIn ==
  ASSUME NEW cs, cs # {}, \A c \in cs : c.id \in Nat
  PROVE  FirstOf(cs) \in cs
<1> DEFINE T == {c.id : c \in cs}
<1>1. T \subseteq Nat /\ T # {}
  OBVIOUS
<1>2. PICK t \in T : \A u \in T : ~(<<u, t>> \in OpToRel(<, Nat))
  BY <1>1, NatLessThanWellFounded, WFMin
<1>3. PICK c \in cs : t = c.id
  OBVIOUS
<1>4. \A d \in cs : c.id <= d.id
  <2> TAKE d \in cs
  <2>1. d.id \in T /\ d.id \in Nat /\ t \in Nat
    BY <1>1
  <2>2. ~(d.id < t)
    BY <1>2, <2>1 DEF OpToRel
  <2> QED BY <1>3, <2>1, <2>2
<1> QED BY <1>4 DEF FirstOf

(* The collections with at most one more. *)
OneMore(cs) ==
  cs = coll \/ \E x : x.id = last + 1 /\ IsRow(x) /\ cs = coll \cup {x}

LEMMA NextIdFacts ==
  ASSUME Whole, NEW cs, OneMore(cs)
  PROVE  /\ NextId(cs) \in {last + 1, last + 2}
         /\ \A c \in cs : c.id < NextId(cs)
         /\ cs = coll => NextId(cs) = last + 1
<1>1. last \in Nat /\ \A c \in coll : c.id \in Nat /\ c.id <= last
  BY DEF Whole, Ids
<1>2. CASE cs = coll
  <2>1. cs \ coll = {}
    BY <1>2
  <2>2. NextId(cs) = last + 1
    BY <1>1, <2>1, FS_EmptySet DEF NextId
  <2> QED BY <1>1, <1>2, <2>2
<1>3. CASE cs # coll
  <2>1. PICK x : x.id = last + 1 /\ cs = coll \cup {x}
    BY <1>3 DEF OneMore
  <2>2. x \notin coll
    BY <1>1, <2>1
  <2>3. cs \ coll = {x}
    BY <2>1, <2>2
  <2>4. NextId(cs) = last + 2
    <3>1. Cardinality(cs \ coll) = 1
      BY <2>3, FS_Singleton
    <3> QED BY <1>1, <3>1 DEF NextId
  <2> QED BY <1>1, <1>3, <2>1, <2>4
<1> QED BY <1>2, <1>3

LEMMA OneMoreFollows ==
  ASSUME Whole, NEW cs, OneMore(cs)
  PROVE  /\ Follows(cs) /\ coll \subseteq cs
         /\ \A c, d \in cs : c.id = d.id => c = d
         /\ \A c \in cs : c.id \in Nat
<1>1. /\ last \in Nat /\ \A c \in coll : c.id \in Nat /\ c.id <= last /\ IsRow(c)
      /\ \A c, d \in coll : c.id = d.id => c = d
  BY DEF Whole, Ids
<1>2. CASE cs = coll
  BY <1>1, <1>2 DEF Follows, Grows, Ids
<1>3. CASE cs # coll
  <2>1. PICK x : x.id = last + 1 /\ IsRow(x) /\ cs = coll \cup {x}
    BY <1>3 DEF OneMore
  <2>2. \A c \in cs : c \in coll \/ c = x
    BY <2>1
  <2>3. Ids(cs, last + 2)
    <3>1. \A c \in coll : c.id # x.id
      BY <1>1, <2>1
    <3>2. \A c, d \in cs : c.id = d.id => c = d
      BY <1>1, <2>2, <3>1
    <3>3. \A c \in cs : c.id \in Nat /\ c.id <= last + 2 /\ IsRow(c)
      BY <1>1, <2>1, <2>2
    <3> QED BY <3>2, <3>3 DEF Ids
  <2>4. Grows(cs)
    BY <1>1, <2>1, <2>2 DEF Grows
  <2> QED BY <2>1, <2>3, <2>4 DEF Follows, Ids
<1> QED BY <1>2, <1>3

LEMMA WithDefaultOneMore ==
  ASSUME Whole, NEW k
  PROVE  OneMore(WithDefault(k))
<1>1. NextId(coll) = last + 1
  BY NextIdFacts DEF OneMore
<1>2. New(coll, k, Default, TRUE).id = last + 1 /\ IsRow(New(coll, k, Default, TRUE))
  BY <1>1 DEF New, IsRow
<1> QED BY <1>2 DEF WithDefault, OneMore

LEMMA MadeFollows ==
  ASSUME Whole, NEW cs, OneMore(cs), NEW x, x.id = NextId(cs), IsRow(x)
  PROVE  Follows(cs \cup {x})
<1>1. /\ last \in Nat /\ NextId(cs) \in {last + 1, last + 2}
      /\ \A c \in cs : c.id < NextId(cs)
  BY NextIdFacts DEF Whole
<1>2. /\ Grows(cs) /\ \A c, d \in cs : c.id = d.id => c = d
      /\ \A c \in cs : c.id \in Nat /\ IsRow(c)
  BY OneMoreFollows DEF Follows, Ids
<1> DEFINE cx == cs \cup {x}
<1>3. \A c \in cx : c \in cs \/ c = x
  OBVIOUS
<1>4. x.id \in Nat /\ x.id <= last + 2 /\ last < x.id
  BY <1>1
<1>5. Grows(cx)
  BY <1>2, <1>3, <1>4 DEF Grows
<1>6. \A c \in cx : c.id \in Nat /\ c.id <= last + 2 /\ IsRow(c)
  BY <1>1, <1>2, <1>3, <1>4
<1>7. \A c, d \in cx : c.id = d.id => c = d
  <2> SUFFICES ASSUME NEW c \in cx, NEW d \in cx, c.id = d.id PROVE c = d
    OBVIOUS
  <2>1. \A y \in cs : y.id # x.id
    <3> TAKE y \in cs
    <3>1. y.id < NextId(cs) /\ y.id \in Nat
      BY <1>1, <1>2
    <3> QED BY <1>4, <3>1
  <2> QED BY <1>2, <1>3, <2>1
<1> QED BY <1>5, <1>6, <1>7 DEF Follows, Ids

(* Changing a name or a mark keeps the id, the birth and the kind. *)
LEMMA RelabelFollows ==
  ASSUME Whole, NEW cs, NEW f, DOMAIN f \subseteq coll, cs = {f[c] : c \in DOMAIN f},
         \A c \in DOMAIN f : /\ f[c].id = c.id /\ f[c].born = c.born /\ f[c].kind = c.kind
                             /\ IsRow(f[c])
  PROVE  Follows(cs)
<1>1. /\ last \in Nat /\ \A c \in coll : c.id \in Nat /\ c.id <= last
      /\ \A c, d \in coll : c.id = d.id => c = d
  BY DEF Whole, Ids
<1>2. Grows(cs)
  BY DEF Grows
<1>3. \A d \in cs : d.id \in Nat /\ d.id <= last + 2 /\ IsRow(d)
  BY <1>1
<1>4. \A c, d \in cs : c.id = d.id => c = d
  BY <1>1
<1> QED BY <1>2, <1>3, <1>4 DEF Follows, Ids


----------------------------------------------------------------------------
(***************************************************************************)
(* One lemma for each operation.                                           *)
(***************************************************************************)
LEMMA OpeningStep ==
  ASSUME Sound, ~raced, UNCHANGED <<rows, call, saved, raced>>, NEW p \in Procs,
         NEW to \in Steps \ {"call"}, pc' = [pc EXCEPT ![p] = to],
         shape' = 0 => shape = 0
  PROVE  Whole'
<1>1. \A q \in Procs : pc'[q] = "call" => pc[q] = "call"
  BY DEF Sound, Shared
<1> QED BY <1>1 DEF Sound, Whole, Empty, Ids, Belongs, Fits, KeysOf, Key, Numbered, rows

LEMMA OpenSound ==
  ASSUME Sound, Earned', NEW p \in Procs, Open(p)
  PROVE  Sound'
<1> USE StateDatabaseAssumption
<1>1. /\ UNCHANGED <<rows, call, saved, raced>> /\ shape' \in {shape, Current}
      /\ pc[p] = "idle"
      /\ \E to \in Steps \ {"call"} :
           /\ pc' = [pc EXCEPT ![p] = to]
           /\ to = "drop" => seen' = [seen EXCEPT ![p] = 0]
           /\ seen' = seen \/ \E v : seen' = [seen EXCEPT ![p] = v]
  BY DEF Open, Goes, MayReset, Steps
<1>2. PICK to \in Steps \ {"call"} :
           /\ pc' = [pc EXCEPT ![p] = to]
           /\ to = "drop" => seen' = [seen EXCEPT ![p] = 0]
           /\ seen' = seen \/ \E v : seen' = [seen EXCEPT ![p] = v]
  BY <1>1
<1>3. ~raced' => Whole'
  <2>1. Current # 0
    OBVIOUS
  <2>2. shape' = 0 => shape = 0
    BY <1>1, <2>1
  <2> QED BY <1>1, <1>2, <2>2, OpeningStep
<1>4. \A q \in Procs : pc'[q] = "drop" => seen'[q] = 0
  BY <1>2 DEF Sound, Shared
<1> QED BY <1>1, <1>3, <1>4 DEF Sound, Earned

LEMMA ResetSound ==
  ASSUME Sound, Earned', NEW p \in Procs, Drop(p)
  PROVE  Sound'
<1>1. /\ pc' = [pc EXCEPT ![p] = "create"] /\ shape' = 0 /\ coll' = {} /\ entries' = {}
      /\ last' = 0 /\ lastEntry' = 0 /\ raced' = (raced \/ shape # seen[p]) /\ seen[p] = 0
      /\ UNCHANGED <<seen, call, saved>>
  BY DEF Drop, Goes, Sound
<1>2. ASSUME ~raced' PROVE Whole'
  <2>1. Whole /\ shape = 0
    BY <1>1, <1>2 DEF Sound
  <2>2. saved = {} /\ \A q \in Procs : pc[q] # "call"
    BY <2>1 DEF Whole, Empty
  <2>3. \A q \in Procs : pc'[q] # "call"
    BY <1>1, <2>2 DEF Sound, Shared
  <2> QED BY <1>1, <2>2, <2>3 DEF Whole, Empty, Ids, Numbered
<1>3. \A q \in Procs : pc'[q] = "drop" => seen'[q] = 0
  BY <1>1 DEF Sound, Shared
<1> QED BY <1>1, <1>2, <1>3 DEF Sound, Earned

LEMMA MakeSound ==
  ASSUME Sound, Earned, Earned', NEW p \in Procs,
         Create(p) \/ Stamp(p) \/ (Migrate(p) /\ seen[p] # Rebuild)
  PROVE  Sound'
<1> USE StateDatabaseAssumption
<1>1. /\ UNCHANGED <<rows, call, saved, raced>>
      /\ \E to \in Steps \ {"call", "drop"} : pc' = [pc EXCEPT ![p] = to]
      /\ seen' = seen \/ (pc[p] = "migrate" /\ \E v : seen' = [seen EXCEPT ![p] = v])
  BY DEF Create, Stamp, Migrate, Goes, Steps
<1>2. PICK to \in Steps \ {"call", "drop"} : pc' = [pc EXCEPT ![p] = to]
  BY <1>1
<1>3. shape' = 0 => shape = 0
  <2>1. CASE Migrate(p)
    BY <2>1, MigrateShape
  <2> QED BY <2>1 DEF Create, Stamp
<1>4. ~raced' => Whole'
  BY <1>1, <1>2, <1>3, OpeningStep DEF Sound
<1>5. \A q \in Procs : pc'[q] = "drop" => seen'[q] = 0
  BY <1>1, <1>2 DEF Sound, Shared
<1> QED BY <1>1, <1>4, <1>5 DEF Sound, Earned

(* What the rebuild copies has all that a user knows. *)
LEMMA CopiedFacts ==
  ASSUME Whole
  PROVE  /\ CopiedLists \subseteq coll /\ CopiedItems \subseteq entries
         /\ \A e \in entries : e.kind = "watchlist" => \E d \in CopiedItems : Key(d) = Key(e)
<1>1. CopiedLists \subseteq coll /\ CopiedItems \subseteq entries
  BY DEF CopiedLists, CopiedItems, Lists
<1>2. ASSUME NEW e \in entries, e.kind = "watchlist"
      PROVE  \E d \in CopiedItems : Key(d) = Key(e)
  <2> DEFINE twins(x) == {d \in entries : d.kind = "watchlist" /\ d.coll = x.coll}
             d == FirstOf(twins(e))
  <2>1. twins(e) # {} /\ \A x \in twins(e) : x.id \in Nat
    BY <1>2 DEF Whole, Numbered
  <2>2. d \in twins(e)
    <3> HIDE DEF twins
    <3> QED BY <2>1, FirstOfIn
  <2>3. d \in entries /\ d.kind = "watchlist" /\ d.coll = e.coll
    BY <2>2
  <2>4. twins(d) = twins(e)
    BY <2>3
  <2>5. d = FirstOf(twins(d))
    BY <2>4
  <2> HIDE DEF d
  <2>6. d \in CopiedItems
    BY <2>3, <2>5 DEF CopiedItems
  <2> QED BY <1>2, <2>3, <2>6 DEF Key
<1> QED BY <1>1, <1>2

LEMMA RebuildWhole ==
  ASSUME Sound, Before, ~raced', NEW p \in Procs, Rebuilds, UNCHANGED <<call, saved>>,
         NEW to \in Steps \ {"call"}, pc' = [pc EXCEPT ![p] = to],
         shape # 0, shape' # 0
  PROVE  Whole'
<1> USE StateDatabaseAssumption
<1> DEFINE S == {0} \cup {c.id : c \in coll}
           E == {0} \cup {e.id : e \in entries}
<1>1. Whole /\ (shape > Rebuild => UNCHANGED <<last, lastEntry>>)
  BY DEF Sound, Rebuilds
<1>2. /\ last \in Nat /\ \A c \in coll : c.id \in Nat /\ c.id <= last
      /\ lastEntry \in Nat /\ \A e \in entries : e.id \in Nat /\ e.id <= lastEntry
  BY <1>1 DEF Whole, Ids, Numbered
<1>3. S \in SUBSET (0..last) /\ S # {} /\ E \in SUBSET (0..lastEntry) /\ E # {}
  BY <1>2
<1>4. last' = Max(S) /\ lastEntry' = Max(E)
  BY DEF Rebuilds
<1>5. coll' \subseteq coll /\ entries' \subseteq entries
  BY <1>1, CopiedFacts DEF Rebuilds
<1>6. 0 \in S /\ (\A c \in coll : c.id \in S) /\ \A e \in entries : e.id \in E
  OBVIOUS
<1> HIDE DEF S, E
<1>7. last' \in Nat /\ \A c \in coll : c.id <= last'
  BY <1>2, <1>3, <1>4, <1>6, MaxIn
<1>8. Numbered(entries', lastEntry')
  <2>1. lastEntry' \in Nat /\ \A y \in E : y <= lastEntry'
    BY <1>2, <1>3, <1>4, MaxIn
  <2> QED BY <1>2, <1>5, <1>6, <2>1 DEF Numbered
<1>9. Ids(coll', last')
  BY <1>1, <1>5, <1>7 DEF Whole, Ids
<1>10. shape \in 1..Rebuild \/ UNCHANGED last
  BY <1>1 DEF Sound, Shared
<1>11. \A e \in entries' : Belongs(e, coll', last')
  <2> TAKE e \in entries'
  <2>1. e \in entries /\ Belongs(e, coll, last)
    BY <1>1, <1>5 DEF Whole
  <2>2. e.coll <= last'
    <3>1. CASE shape \in 1..Rebuild
      BY <1>7, <2>1, <3>1 DEF Before
    <3>2. CASE UNCHANGED last
      BY <2>1, <3>2 DEF Belongs
    <3> QED BY <1>10, <3>1, <3>2
  <2> QED BY <1>5, <2>1, <2>2 DEF Belongs
<1>12. \A q \in Procs : pc'[q] = "call" => Fits(call'[q], coll', last')
  <2> SUFFICES ASSUME NEW q \in Procs, pc'[q] = "call" PROVE Fits(call'[q], coll', last')
    OBVIOUS
  <2>1. pc[q] = "call" /\ call'[q] = call[q]
    BY DEF Sound, Shared
  <2>2. UNCHANGED last
    BY <1>10, <2>1 DEF Before
  <2>3. Fits(call[q], coll, last)
    BY <1>1, <2>1 DEF Whole
  <2> QED BY <1>5, <2>1, <2>2, <2>3 DEF Fits
<1>13. saved' \subseteq KeysOf(entries')
  <2>1. ASSUME NEW e \in entries PROVE \E d \in entries' : Key(d) = Key(e)
    <3>1. CASE e.kind = "watchlist"
      BY <1>1, <3>1, CopiedFacts DEF Rebuilds
    <3>2. CASE e.kind # "watchlist"
      BY <3>2 DEF Rebuilds
    <3> QED BY <3>1, <3>2
  <2> QED BY <1>1, <2>1 DEF Whole, KeysOf
<1> QED BY <1>7, <1>8, <1>9, <1>11, <1>12, <1>13 DEF Whole

LEMMA RebuildSound ==
  ASSUME Sound, Earned, Earned', Before, NEW p \in Procs, Migrate(p), seen[p] = Rebuild
  PROVE  Sound'
<1>1. /\ shape # 0 /\ shape' # 0
      /\ pc' = [pc EXCEPT ![p] = IF seen[p] + 1 = Current THEN "ready" ELSE "migrate"]
  <2>1. shape \in Nat
    BY DEF Sound, Shared
  <2> QED BY <2>1, MigrateShape
<1>2. Rebuilds /\ UNCHANGED <<call, saved>> /\ seen' = [seen EXCEPT ![p] = @ + 1]
  BY DEF Migrate
<1>3. ~raced' => Whole'
  <2> DEFINE to == IF seen[p] + 1 = Current THEN "ready" ELSE "migrate"
  <2>1. to \in Steps \ {"call"}
    BY DEF Steps
  <2>2. pc' = [pc EXCEPT ![p] = to]
    BY <1>1
  <2> HIDE DEF to
  <2> QED BY <1>1, <1>2, <2>1, <2>2, RebuildWhole
<1>4. \A q \in Procs : pc'[q] = "drop" => seen'[q] = 0
  BY <1>1, <1>2 DEF Sound, Shared
<1> QED BY <1>2, <1>3, <1>4 DEF Sound, Earned

(* The frame of a call's steps. *)
LEMMA CallFrame ==
  ASSUME Sound, Earned', NEW p \in Procs, Begins(p) \/ Writes(p) \/ Ends(p),
         ~raced => Whole'
  PROVE  Sound'
<1>1. UNCHANGED <<seen, raced>> /\ \E to \in {"idle", "call"} : pc' = [pc EXCEPT ![p] = to]
  BY CallKeepsSchema
<1>2. call' = [call EXCEPT ![p] = call'[p]]
  <2>1. \E a : call' = [call EXCEPT ![p] = a]
    BY DEF Begins, Writes, Ends, Returns, GoesOn, CreateWatchlist, BeginCreatePortfolio,
       BeginDelete, BeginRename, BeginAdd, BeginRemove, Insert, Rename, Delete, Add, Remove
  <2> QED BY <2>1 DEF Sound
<1>3. call' = [q \in Procs |-> call'[q]]
  BY <1>2 DEF Sound
<1>4. \A q \in Procs : pc'[q] = "drop" => seen'[q] = 0
  BY <1>1 DEF Sound, Shared
<1> QED BY <1>1, <1>3, <1>4 DEF Sound, Earned

LEMMA EndsSound ==
  ASSUME Sound, ~raced, NEW p \in Procs, Ends(p)
  PROVE  Whole'
<1>1. UNCHANGED <<shape, rows, saved, raced>> /\ pc' = [pc EXCEPT ![p] = "idle"]
      /\ \A q \in Procs \ {p} : call'[q] = call[q]
  BY DEF Ends, Returns, Goes, Kept, schema, Sound
<1>2. \A q \in Procs : pc'[q] = "call" => pc[q] = "call" /\ call'[q] = call[q]
  BY <1>1 DEF Sound, Shared
<1> QED BY <1>1, <1>2 DEF Sound, Whole, Empty, Ids, Belongs, Fits, KeysOf, Key, Numbered, rows

(* What a step that ends the call, or goes on to one that is neither an add *)
(* nor a delete, has to show.                                              *)
LEMMA PlainStep ==
  ASSUME Sound, ~raced, shape # 0, Kept, NEW p \in Procs, NEW cs, Become(cs),
         \/ Returns(p)
         \/ \E a : GoesOn(p, a) /\ a.op \notin {"add", "delete"},
         entries' \subseteq entries, UNCHANGED lastEntry, saved' \subseteq KeysOf(entries')
  PROVE  Whole'
<1>1. UNCHANGED <<shape, raced>> /\ Numbered(entries', lastEntry')
  BY DEF Kept, schema, Sound, Whole, Numbered
<1>2. CASE Returns(p)
  <2>1. pc' = [pc EXCEPT ![p] = "idle"] /\ call' = [call EXCEPT ![p] = NoCall]
    BY <1>2 DEF Returns, Goes
  <2>2. "idle" = "call" => Fits(NoCall, cs, last')
    OBVIOUS
  <2> QED BY <1>1, <2>1, <2>2, CallStep
<1>3. CASE \E a : GoesOn(p, a) /\ a.op \notin {"add", "delete"}
  <2>1. PICK a : GoesOn(p, a) /\ a.op \notin {"add", "delete"}
    BY <1>3
  <2>2. Fits(a, cs, last')
    BY <2>1 DEF Fits
  <2> QED BY <1>1, <2>1, <2>2, CallStep DEF GoesOn, Goes
<1> QED BY <1>2, <1>3

LEMMA RowsUnchanged ==
  ASSUME Whole, UNCHANGED <<rows, saved>>
  PROVE  /\ Become(coll) /\ entries' \subseteq entries /\ saved' \subseteq KeysOf(entries')
         /\ UNCHANGED lastEntry
BY DEF Whole, Become, Grows, Ids, rows


LEMMA EntriesUnchanged ==
  ASSUME Whole, UNCHANGED <<entries, lastEntry, saved>>
  PROVE  /\ entries' \subseteq entries /\ saved' \subseteq KeysOf(entries')
         /\ Numbered(entries', lastEntry')
BY DEF Whole, Numbered

LEMMA CreateWatchlistWhole ==
  ASSUME Sound, ~raced, NEW p \in Procs, NEW n, CreateWatchlist(p, n)
  PROVE  Whole'
<1>1. Whole
  BY DEF Sound
<1> DEFINE x == New(coll, "watchlist", n, FALSE)
           cs == IF Named(coll, "watchlist", n) = {} THEN coll \cup {x} ELSE coll
<1>2. x.id = last + 1 /\ IsRow(x)
  <2>1. NextId(coll) = last + 1
    BY <1>1, NextIdFacts DEF OneMore
  <2> QED BY <2>1 DEF New, IsRow
<1>3. OneMore(cs)
  <2> HIDE DEF x
  <2> QED BY <1>2 DEF OneMore
<1>4. Store(cs) /\ Returns(p) /\ Kept /\ shape # 0 /\ UNCHANGED <<entries, lastEntry, saved>>
  BY DEF CreateWatchlist, Ready
<1> HIDE DEF cs
<1>5. Become(cs)
  BY <1>1, <1>3, <1>4, OneMoreFollows, StoreLast
<1> QED BY <1>1, <1>4, <1>5, EntriesUnchanged, PlainStep

LEMMA BeginCreatePortfolioWhole ==
  ASSUME Sound, ~raced, NEW p \in Procs, NEW n, BeginCreatePortfolio(p, n)
  PROVE  Whole'
<1> DEFINE a == [NoCall EXCEPT !.op = "insert", !.kind = "portfolio", !.name = n]
<1>1. a.op \notin {"add", "delete"}
  BY DEF NoCall
<1>2. /\ Returns(p) \/ GoesOn(p, a)
      /\ Kept /\ shape # 0 /\ UNCHANGED <<rows, saved>>
  BY DEF BeginCreatePortfolio, Ready
<1> HIDE DEF a
<1>3. /\ Become(coll) /\ entries' \subseteq entries /\ saved' \subseteq KeysOf(entries')
      /\ UNCHANGED lastEntry
  BY <1>2, RowsUnchanged DEF Sound
<1> QED BY <1>1, <1>2, <1>3, PlainStep

LEMMA BeginRenameWhole ==
  ASSUME Sound, ~raced, NEW p \in Procs, NEW k, NEW n, NEW m, BeginRename(p, k, n, m)
  PROVE  Whole'
<1> DEFINE id == FirstOf(Named(coll, k, n)).id
           a == [NoCall EXCEPT !.op = "rename", !.kind = k, !.name = m, !.id = id]
<1>0. \A i : [NoCall EXCEPT !.op = "rename", !.kind = k, !.name = m, !.id = i].op = "rename"
  BY DEF NoCall
<1>1. a.op \notin {"add", "delete"}
  BY <1>0
<1>2. GoesOn(p, a) /\ Kept /\ shape # 0 /\ UNCHANGED <<rows, saved>>
  BY DEF BeginRename, Ready
<1> HIDE DEF a
<1>3. /\ Become(coll) /\ entries' \subseteq entries /\ saved' \subseteq KeysOf(entries')
      /\ UNCHANGED lastEntry
  BY <1>2, RowsUnchanged DEF Sound
<1> QED BY <1>1, <1>2, <1>3, PlainStep

LEMMA BeginRemoveWhole ==
  ASSUME Sound, ~raced, NEW p \in Procs, NEW k, NEW n, NEW e, BeginRemove(p, k, n, e)
  PROVE  Whole'
<1> DEFINE a == [NoCall EXCEPT !.op = "remove", !.kind = k, !.id = e.id]
           cs == WithDefault(k)
<1>1. a.op \notin {"add", "delete"}
  BY DEF NoCall
<1>2. GoesOn(p, a) /\ Store(cs) /\ Kept /\ shape # 0 /\ UNCHANGED <<entries, lastEntry, saved>>
  BY DEF BeginRemove, Ready
<1>3. Whole
  BY DEF Sound
<1> HIDE DEF a
<1>4. Become(cs)
  BY <1>2, <1>3, WithDefaultOneMore, OneMoreFollows, StoreLast
<1> QED BY <1>1, <1>2, <1>3, <1>4, EntriesUnchanged, PlainStep

LEMMA BeginDeleteWhole ==
  ASSUME Sound, ~raced, NEW p \in Procs, NEW n, BeginDelete(p, n)
  PROVE  Whole'
<1> DEFINE cs == WithDefault("watchlist")
           A(c, d) == [NoCall EXCEPT !.op = "delete", !.id = c.id, !.marked = c.default,
                                     !.other = d.id]
<1>1. Whole
  BY DEF Sound
<1>2. PICK c \in Named(cs, "watchlist", n),
            d \in {x \in cs : x.kind = "watchlist" /\ x.name # n} : GoesOn(p, A(c, d))
  BY DEF BeginDelete
<1>3. Store(cs) /\ Kept /\ shape # 0 /\ UNCHANGED <<shape, raced, entries, lastEntry, saved>>
  BY DEF BeginDelete, Ready, Kept, schema
<1> HIDE DEF cs
<1>4. /\ Become(cs) /\ \A x, y \in cs : x.id = y.id => x = y
      /\ \A x \in cs : x.id \in Nat /\ x.id <= last'
  BY <1>1, <1>3, WithDefaultOneMore, OneMoreFollows, StoreLast DEF cs, Become, Ids
<1>5. c \in cs /\ d \in cs /\ c # d /\ d.kind = "watchlist"
  BY <1>2 DEF Named
<1>6. A(c, d).op = "delete" /\ A(c, d).id = c.id /\ A(c, d).other = d.id
      /\ A(c, d).kind = "watchlist"
  BY DEF NoCall
<1> DEFINE a == A(c, d)
<1> HIDE DEF A
<1>7. Fits(a, cs, last')
  BY <1>4, <1>5, <1>6 DEF Fits
<1>8. pc' = [pc EXCEPT ![p] = "call"] /\ call' = [call EXCEPT ![p] = a]
  BY <1>2 DEF GoesOn, Goes
<1>9. /\ entries' \subseteq entries /\ saved' \subseteq KeysOf(entries')
      /\ Numbered(entries', lastEntry')
  BY <1>1, <1>3, EntriesUnchanged
<1> HIDE DEF a
<1> QED BY <1>3, <1>4, <1>7, <1>8, <1>9, CallStep

LEMMA AddToFacts ==
  ASSUME NEW c, NEW k
  PROVE  /\ AddTo(c, k).op = "add" /\ AddTo(c, k).id = c.id
         /\ AddTo(c, k).born = c.born
BY DEF AddTo, NoCall

(* An add that goes on to a row of the collections there are fits it. *)
LEMMA AddStep ==
  ASSUME Sound, ~raced, shape # 0, Kept, NEW p \in Procs, NEW cs, Become(cs),
         NEW c \in cs, NEW k, GoesOn(p, AddTo(c, k)),
         UNCHANGED <<entries, lastEntry, saved>>
  PROVE  Whole'
<1> DEFINE a == AddTo(c, k)
<1>1. a.op = "add" /\ a.id = c.id /\ a.born = c.born
  BY AddToFacts
<1>2. GoesOn(p, a)
  OBVIOUS
<1> HIDE DEF a
<1>3. Fits(a, cs, last')
  BY <1>1 DEF Fits, Become, Ids
<1>4. pc' = [pc EXCEPT ![p] = "call"] /\ call' = [call EXCEPT ![p] = a]
      /\ UNCHANGED <<shape, raced>>
  BY <1>2 DEF GoesOn, Goes, Kept, schema
<1>5. /\ entries' \subseteq entries /\ saved' \subseteq KeysOf(entries')
      /\ Numbered(entries', lastEntry')
  BY EntriesUnchanged DEF Sound
<1> QED BY <1>3, <1>4, <1>5, CallStep

LEMMA BeginAddWhole ==
  ASSUME Sound, ~raced, NEW p \in Procs, NEW k, NEW n, BeginAdd(p, k, n)
  PROVE  Whole'
<1> DEFINE cs == WithDefault(k)
           wanted == Wanted(cs, k, n)
           made == New(cs, k, n, FALSE)
           ins == [NoCall EXCEPT !.op = "insert", !.kind = k, !.name = n, !.adds = TRUE]
<1>1. Whole
  BY DEF Sound
<1>2. Kept /\ shape # 0 /\ UNCHANGED <<entries, lastEntry, saved>>
  BY DEF BeginAdd, Ready
<1>3. \/ wanted # {} /\ GoesOn(p, AddTo(FirstOf(wanted), k)) /\ Store(cs)
      \/ GoesOn(p, AddTo(made, k)) /\ Store(cs \cup {made})
      \/ GoesOn(p, ins) /\ Store(cs)
  BY DEF BeginAdd
<1>4. wanted \subseteq cs
  BY DEF Wanted, Defaults, Named
<1>5. ins.op \notin {"add", "delete"}
  BY DEF NoCall
<1>6. made.id = NextId(cs) /\ IsRow(made)
  <2> HIDE DEF cs
  <2> QED BY DEF New, IsRow
<1> HIDE DEF cs, wanted, made, ins
<1>7. OneMore(cs)
  BY <1>1, WithDefaultOneMore DEF cs
<1>8. Follows(cs) /\ \A c \in cs : c.id \in Nat
  BY <1>1, <1>7, OneMoreFollows
<1>9. CASE wanted # {} /\ GoesOn(p, AddTo(FirstOf(wanted), k)) /\ Store(cs)
  <2>1. FirstOf(wanted) \in cs
    BY <1>4, <1>8, <1>9, FirstOfIn
  <2>2. Become(cs)
    BY <1>1, <1>8, <1>9, StoreLast
  <2> QED BY <1>2, <1>9, <2>1, <2>2, AddStep
<1>10. CASE GoesOn(p, AddTo(made, k)) /\ Store(cs \cup {made})
  <2>1. Become(cs \cup {made})
    BY <1>1, <1>6, <1>7, <1>10, MadeFollows, StoreLast
  <2> QED BY <1>2, <1>10, <2>1, AddStep
<1>11. CASE GoesOn(p, ins) /\ Store(cs)
  <2>1. Become(cs)
    BY <1>1, <1>8, <1>11, StoreLast
  <2> QED BY <1>1, <1>2, <1>5, <1>11, <2>1, EntriesUnchanged, PlainStep
<1> QED BY <1>3, <1>9, <1>10, <1>11


LEMMA InsertWhole ==
  ASSUME Sound, ~raced, NEW p \in Procs, Insert(p)
  PROVE  Whole'
<1> DEFINE made == New(coll, "portfolio", call[p].name, FALSE)
           cs == coll \cup {made}
<1>1. Whole
  BY DEF Sound
<1>2. /\ Store(cs) /\ Kept /\ shape # 0 /\ UNCHANGED <<entries, lastEntry, saved>>
      /\ GoesOn(p, AddTo(made, "portfolio")) \/ Returns(p)
  BY DEF Insert, Doing
<1>3. made.id = NextId(coll) /\ IsRow(made)
  BY DEF New, IsRow
<1> HIDE DEF made
<1>4. Become(cs)
  BY <1>1, <1>2, <1>3, MadeFollows, StoreLast DEF OneMore
<1>5. made \in cs
  OBVIOUS
<1> HIDE DEF cs
<1>6. CASE Returns(p)
  BY <1>1, <1>2, <1>4, <1>6, EntriesUnchanged, PlainStep
<1>7. CASE GoesOn(p, AddTo(made, "portfolio"))
  BY <1>2, <1>4, <1>5, <1>7, AddStep
<1> QED BY <1>2, <1>6, <1>7

LEMMA RenameWhole ==
  ASSUME Sound, ~raced, NEW p \in Procs, Rename(p)
  PROVE  Whole'
<1> DEFINE new == {[c EXCEPT !.name = call[p].name] : c \in Row(p)}
           cs == (coll \ Row(p)) \cup new
           f == [c \in coll |-> IF c \in Row(p) THEN [c EXCEPT !.name = call[p].name] ELSE c]
<1>1. Whole /\ \A c \in coll : IsRow(c)
  BY DEF Sound, Whole, Ids
<1>2. Store(cs) /\ Kept /\ shape # 0 /\ UNCHANGED <<entries, lastEntry, saved>> /\ Returns(p)
  BY DEF Rename, Doing
<1>3. cs = {f[c] : c \in coll}
  <2>1. Row(p) \subseteq coll
    BY DEF Row
  <2> QED BY <2>1
<1>4. \A c : IsRow(c) => LET d == [c EXCEPT !.name = call[p].name] IN
        d.id = c.id /\ d.born = c.born /\ d.kind = c.kind /\ IsRow(d)
  BY DEF IsRow
<1>5. \A c \in DOMAIN f : /\ f[c].id = c.id /\ f[c].born = c.born /\ f[c].kind = c.kind
                         /\ IsRow(f[c])
  BY <1>1, <1>4
<1>6. DOMAIN f = coll
  OBVIOUS
<1> HIDE DEF cs, f
<1>7. Become(cs)
  BY <1>1, <1>2, <1>3, <1>5, <1>6, RelabelFollows, StoreLast
<1> QED BY <1>1, <1>2, <1>7, EntriesUnchanged, PlainStep

(* What a delete makes of the collections. *)
LEMMA DeleteFollows ==
  ASSUME Whole, NEW p \in Procs
  PROVE  Follows(PassesMark(p, coll \ Row(p)))
<1> DEFINE old == coll \ Row(p)
           Mark(c) == [c EXCEPT !.default =
                         @ \/ (c.kind = "watchlist" /\ c.id = call[p].other)]
           f == [c \in old |-> IF call[p].marked THEN Mark(c) ELSE c]
           cs == PassesMark(p, old)
<1>1. \A c \in old : IsRow(c)
  BY DEF Whole, Ids
<1>2. cs = {f[c] : c \in old}
  BY DEF PassesMark
<1>3. \A c, b : IsRow(c) => LET d == [c EXCEPT !.default = b] IN
        d.id = c.id /\ d.born = c.born /\ d.kind = c.kind /\ IsRow(d)
  BY DEF IsRow
<1>4. \A c : IsRow(c) => Mark(c).id = c.id /\ Mark(c).born = c.born /\ Mark(c).kind = c.kind
                        /\ IsRow(Mark(c))
  BY <1>3
<1> HIDE DEF Mark
<1>5. \A c \in DOMAIN f : /\ f[c].id = c.id /\ f[c].born = c.born /\ f[c].kind = c.kind
                         /\ IsRow(f[c])
  BY <1>1, <1>4
<1>6. DOMAIN f = old /\ old \subseteq coll
  OBVIOUS
<1> HIDE DEF f, cs
<1> QED BY <1>2, <1>5, <1>6, RelabelFollows DEF cs

LEMMA DeleteWhole ==
  ASSUME Sound, ~raced, NEW p \in Procs, Delete(p)
  PROVE  Whole'
<1> DEFINE cs == PassesMark(p, coll \ Row(p))
<1>1. Whole
  BY DEF Sound
<1>2. /\ Store(cs) /\ Kept /\ shape # 0 /\ Returns(p)
      /\ entries' = entries \ Items(p) /\ saved' = saved \ KeysOf(Items(p))
      /\ UNCHANGED lastEntry
  BY DEF Delete, Doing
<1> HIDE DEF cs
<1>3. Become(cs)
  BY <1>1, <1>2, DeleteFollows, StoreLast DEF cs
<1>4. entries' \subseteq entries /\ saved' \subseteq KeysOf(entries')
  BY <1>1, <1>2 DEF Whole, KeysOf
<1> QED BY <1>2, <1>3, <1>4, PlainStep

LEMMA AddWhole ==
  ASSUME Sound, ~raced, NEW p \in Procs, Add(p)
  PROVE  Whole'
<1> DEFINE e == [id |-> lastEntry + 1, kind |-> call[p].kind, coll |-> call[p].id,
                 born |-> call[p].born]
<1>1. Whole /\ shape # 0 /\ pc[p] = "call" /\ call[p].op = "add"
  BY DEF Sound, Add, Doing
<1>2. UNCHANGED <<coll, last, shape, raced>> /\ Returns(p)
  BY DEF Add, Kept, schema
<1>3. \/ saved' = saved \cup KeysOf(Items(p)) /\ UNCHANGED <<entries, lastEntry>>
      \/ /\ entries' = entries \cup {e} /\ saved' = saved \cup {Key(e)}
         /\ lastEntry' = lastEntry + 1
  BY DEF Add
<1>4. Become(coll)
  BY <1>1, <1>2 DEF Whole, Become, Grows, Ids
<1>5. Belongs(e, coll, last)
  BY <1>1 DEF Whole, Fits, Belongs
<1>6. e.id = lastEntry + 1
  OBVIOUS
<1> HIDE DEF e
<1>7. Items(p) \subseteq entries
  BY DEF Items
<1>8. \A x \in entries' : x \in entries \/ Belongs(x, coll, last)
  BY <1>3, <1>5
<1>9. saved' \subseteq KeysOf(entries')
  BY <1>1, <1>3, <1>7 DEF Whole, KeysOf
<1>10. Numbered(entries', lastEntry')
  BY <1>1, <1>3, <1>6 DEF Whole, Numbered
<1>11. pc' = [pc EXCEPT ![p] = "idle"] /\ call' = [call EXCEPT ![p] = NoCall]
  BY <1>2 DEF Returns, Goes
<1>12. "idle" = "call" => Fits(NoCall, coll, last')
  OBVIOUS
<1> QED BY <1>1, <1>2, <1>4, <1>8, <1>9, <1>10, <1>11, <1>12, CallStep

LEMMA RemoveWhole ==
  ASSUME Sound, ~raced, NEW p \in Procs, Remove(p)
  PROVE  Whole'
<1> DEFINE gone == {e \in entries : e.kind = call[p].kind /\ e.id = call[p].id}
<1>1. /\ Whole /\ shape # 0 /\ Kept /\ Returns(p) /\ UNCHANGED <<coll, last, lastEntry>>
  BY DEF Sound, Remove, Doing
<1>2. entries' = entries \ gone /\ saved' = saved \ KeysOf(gone)
  BY DEF Remove
<1>3. Become(coll)
  BY <1>1 DEF Whole, Become, Grows, Ids
<1> HIDE DEF gone
<1>4. entries' \subseteq entries /\ saved' \subseteq KeysOf(entries')
  BY <1>1, <1>2 DEF Whole, KeysOf
<1> QED BY <1>1, <1>3, <1>4, PlainStep

----------------------------------------------------------------------------
LEMMA PairCardinality ==
  ASSUME NEW x, NEW y, x # y
  PROVE  Cardinality({x, y}) = 2
<1>1. IsFiniteSet({x}) /\ Cardinality({x}) = 1
  BY FS_Singleton
<1>2. Cardinality({x} \cup {y}) = 2
  BY <1>1, FS_AddElement
<1>3. {x} \cup {y} = {x, y}
  OBVIOUS
<1> QED BY <1>2, <1>3

LEMMA InitSound == Init => Sound
<1> SUFFICES ASSUME Init PROVE Sound
  OBVIOUS
<1> USE StateDatabaseAssumption
<1>1. Shared
  BY InitEarned DEF Earned
<1>2. /\ IsRow(Main) /\ Main.id = 1 /\ Main.born = 1
      /\ IsRow(Namesake) /\ Namesake.id = 2 /\ Namesake.born = 2
  BY DEF IsRow, Main, Namesake
<1>3. \A c, i : LET e == ItemOf(c, i) IN e.id = i /\ e.coll = c.id /\ e.born = c.born
  BY DEF ItemOf
<1>4. /\ \E f \in Found : coll = f[1] /\ entries = f[2]
      /\ last = Cardinality(coll) /\ lastEntry = Cardinality(entries)
      /\ saved = KeysOf(entries) /\ shape = version /\ \A p \in Procs : pc[p] = "idle"
  BY DEF Init
<1>5. /\ version = 0 => coll = {} /\ entries = {}
      /\ \/ coll = {} /\ entries = {}
         \/ coll = {Main} /\ entries \in {{ItemOf(Main, 1)}, {ItemOf(Main, 1), ItemOf(Main, 2)}}
         \/ /\ coll = {Main, Namesake}
            /\ entries \in {{ItemOf(Main, 1)}, {ItemOf(Main, 1), ItemOf(Namesake, 2)}}
  BY <1>4 DEF Found
<1>6. /\ Main # Namesake /\ ItemOf(Main, 1) # ItemOf(Main, 2)
      /\ ItemOf(Main, 1) # ItemOf(Namesake, 2)
  BY <1>2, <1>3
<1>7. /\ Cardinality({Main, Namesake}) = 2
      /\ Cardinality({ItemOf(Main, 1), ItemOf(Main, 2)}) = 2
      /\ Cardinality({ItemOf(Main, 1), ItemOf(Namesake, 2)}) = 2
      /\ Cardinality({Main}) = 1 /\ Cardinality({ItemOf(Main, 1)}) = 1 /\ Cardinality({}) = 0
  BY <1>6, PairCardinality, FS_EmptySet, FS_Singleton
<1>8. /\ last = IF coll = {} THEN 0 ELSE IF coll = {Main} THEN 1 ELSE 2
      /\ Numbered(entries, lastEntry)
  <2> DEFINE a == ItemOf(Main, 1)
             b == ItemOf(Main, 2)
             d == ItemOf(Namesake, 2)
  <2>0. a.id = 1 /\ b.id = 2 /\ d.id = 2
    BY <1>3
  <2> HIDE DEF a, b, d
  <2>1. last = IF coll = {} THEN 0 ELSE IF coll = {Main} THEN 1 ELSE 2
    <3>1. Main \in {Main} /\ Namesake \notin {Main}
      BY <1>6
    <3> QED BY <1>4, <1>5, <1>7, <3>1
  <2>2. CASE entries = {}
    BY <1>4, <1>7, <2>1, <2>2 DEF Numbered
  <2>3. CASE entries = {a}
    <3>1. lastEntry = 1
      BY <1>4, <1>7, <2>3 DEF a
    <3> QED BY <2>0, <2>1, <2>3, <3>1 DEF Numbered
  <2>4. CASE entries = {a, b}
    <3>1. lastEntry = 2
      BY <1>4, <1>7, <2>4 DEF a, b
    <3> QED BY <2>0, <2>1, <2>4, <3>1 DEF Numbered
  <2>5. CASE entries = {a, d}
    <3>1. lastEntry = 2
      BY <1>4, <1>7, <2>5 DEF a, d
    <3> QED BY <2>0, <2>1, <2>5, <3>1 DEF Numbered
  <2> QED BY <1>5, <2>1, <2>2, <2>3, <2>4, <2>5 DEF a, b, d
<1>9. Ids(coll, last) /\ last \in Nat
  BY <1>2, <1>5, <1>6, <1>8 DEF Ids
<1>10. \A e \in entries : Belongs(e, coll, last)
  BY <1>2, <1>3, <1>5, <1>6, <1>8 DEF Belongs
<1>11. shape = 0 => Empty
  BY <1>4, <1>5 DEF Empty, KeysOf
<1> QED BY <1>1, <1>4, <1>8, <1>9, <1>10, <1>11 DEF Init, Sound, Whole

LEMMA StepSound == Sound /\ Before /\ Earned /\ Earned' /\ [Next]_vars => Sound'
<1> SUFFICES ASSUME Sound, Before, Earned, Earned', [Next]_vars PROVE Sound'
  OBVIOUS
<1>1. ASSUME NEW p \in Procs, Opening(p) PROVE Sound'
  BY <1>1, OpenSound, ResetSound, MakeSound, RebuildSound DEF Opening
<1>2. ASSUME NEW p \in Procs, Begins(p) PROVE Sound'
  <2>1. ~raced => Whole'
    BY <1>2, CreateWatchlistWhole, BeginCreatePortfolioWhole, BeginDeleteWhole,
       BeginRenameWhole, BeginAddWhole, BeginRemoveWhole DEF Begins
  <2> QED BY <1>2, <2>1, CallFrame
<1>3. ASSUME NEW p \in Procs, Writes(p) PROVE Sound'
  <2>1. ~raced => Whole'
    BY <1>3, InsertWhole, RenameWhole, DeleteWhole, AddWhole, RemoveWhole DEF Writes
  <2> QED BY <1>3, <2>1, CallFrame
<1>4. ASSUME NEW p \in Procs, Ends(p) PROVE Sound'
  BY <1>4, EndsSound, CallFrame
<1>5. CASE UNCHANGED vars
  BY <1>5 DEF vars, schema, rows, Sound, Shared, Whole, Empty, Ids, Belongs, Fits, KeysOf, Key, Numbered, Earned
<1> QED BY <1>1, <1>2, <1>3, <1>4, <1>5 DEF Next

LEMMA SoundCorrect == Spec => [](Sound /\ Before /\ Earned)
<1>1. Init => Sound /\ Before /\ Earned
  BY InitSound, InitBefore, InitEarned
<1>2. Sound /\ Before /\ Earned /\ [Next]_vars => Sound' /\ Before' /\ Earned'
  BY StepSound, StepBefore, StepEarned
<1> QED BY <1>1, <1>2, PTL DEF Spec

\* What a user was told is saved stays until a user removes it or its list, through
\* upgrades that stop, are repeated and build the tables of watchlists anew; two first
\* starts at once, and ids let go of by a rebuild done twice, are left out.
THEOREM SavedSurvive == Spec => []SavedRowsSurvive
<1>1. Sound => SavedRowsSurvive
  BY DEF Sound, Whole, SavedRowsSurvive
<1> QED BY <1>1, SoundCorrect, PTL

\* An entry is in the collection that bore the name when it was looked up,
\* though the provider is asked in between.
THEOREM AddedRight == Spec => []AddedWhereAsked
<1>1. Sound => AddedWhereAsked
  BY DEF Sound, Whole, Belongs, AddedWhereAsked
<1> QED BY <1>1, SoundCorrect, PTL


----------------------------------------------------------------------------
(***************************************************************************)
(* The default collection: only a delete can take it, and one that went on *)
(* from what is still so puts another in its place.                        *)
(***************************************************************************)
LEMMA WithDefaultGrows ==
  ASSUME NEW k
  PROVE  coll \subseteq WithDefault(k)
BY DEF WithDefault

(***************************************************************************)
(* Once the tables are rebuilt a watchlist has its name alone; before, the *)
(* default one is the first of its name, so it is the one that is copied.  *)
(***************************************************************************)
UniqueNames(cs) ==
  \A c, d \in cs : c.kind = "watchlist" /\ d.kind = "watchlist" /\ c.name = d.name => c = d

Firsts(cs) ==
  \A c \in Defaults(cs, "watchlist") : c = FirstOf(Named(cs, "watchlist", c.name))

Alone ==
  ~raced => /\ shape > Rebuild => UniqueNames(coll)
            /\ shape \in 1..Rebuild => Firsts(coll)

LEMMA FirstOfOne ==
  ASSUME NEW c, c.id \in Nat
  PROVE  FirstOf({c}) = c
BY DEF FirstOf

LEMMA NewName ==
  ASSUME UniqueNames(coll), NEW k, NEW n, NEW d,
         k = "watchlist" => Named(coll, k, n) = {}
  PROVE  UniqueNames(coll \cup {New(coll, k, n, d)})
<1> DEFINE x == New(coll, k, n, d)
<1>1. x.kind = k /\ x.name = n
  BY DEF New
<1> HIDE DEF x
<1>2. UniqueNames(coll \cup {x})
  BY <1>1 DEF UniqueNames, Named
<1> QED BY <1>2 DEF x

LEMMA WithDefaultUnique ==
  ASSUME UniqueNames(coll), NEW k \in Kinds, DefaultFound(k)
  PROVE  UniqueNames(WithDefault(k))
<1>1. CASE Defaults(coll, k) # {}
  BY <1>1 DEF WithDefault
<1>2. CASE Defaults(coll, k) = {}
  <2>1. k = "watchlist" => Named(coll, k, Default) = {}
    BY <1>2 DEF DefaultFound
  <2>2. WithDefault(k) = coll \cup {New(coll, k, Default, TRUE)}
    BY <1>2 DEF WithDefault
  <2>3. UniqueNames(coll \cup {New(coll, k, Default, TRUE)})
    BY <2>1, NewName
  <2> QED BY <2>2, <2>3
<1> QED BY <1>1, <1>2

LEMMA BeginsUnique ==
  ASSUME UniqueNames(coll), NEW p \in Procs, Begins(p)
  PROVE  UniqueNames(coll')
<1>1. ASSUME NEW n, CreateWatchlist(p, n) PROVE UniqueNames(coll')
  BY <1>1, NewName DEF CreateWatchlist, Store
<1>2. ASSUME NEW n, BeginCreatePortfolio(p, n) PROVE UniqueNames(coll')
  BY <1>2 DEF BeginCreatePortfolio, rows
<1>3. ASSUME NEW n, BeginDelete(p, n) PROVE UniqueNames(coll')
  BY <1>3, WithDefaultUnique DEF BeginDelete, Store, Kinds
<1>4. ASSUME NEW k, NEW n, NEW m, BeginRename(p, k, n, m) PROVE UniqueNames(coll')
  BY <1>4 DEF BeginRename, rows
<1>5. ASSUME NEW k \in Kinds, NEW n, BeginAdd(p, k, n) PROVE UniqueNames(coll')
  <2> DEFINE cs == WithDefault(k)
             made == New(cs, k, n, FALSE)
  <2>1. UniqueNames(cs)
    BY <1>5, WithDefaultUnique DEF BeginAdd
  <2>2. \/ coll' = cs
        \/ /\ coll' = cs \cup {made} /\ k = "watchlist" /\ Wanted(cs, k, n) = {}
    BY <1>5 DEF BeginAdd, Store
  <2>3. made.kind = k /\ made.name = n
    BY DEF New
  <2>4. Defaults(cs, k) # {}
    <3>1. New(coll, k, Default, TRUE).kind = k /\ New(coll, k, Default, TRUE).default = TRUE
      BY DEF New
    <3>2. CASE Defaults(coll, k) = {}
      BY <3>1, <3>2 DEF WithDefault, Defaults
    <3>3. CASE Defaults(coll, k) # {}
      BY <3>3 DEF WithDefault
    <3> QED BY <3>2, <3>3
  <2> HIDE DEF made, cs
  <2>5. CASE coll' = cs \cup {made} /\ k = "watchlist" /\ Wanted(cs, k, n) = {}
    <3>1. Named(cs, k, n) = {}
      BY <2>4, <2>5 DEF Wanted
    <3> QED BY <2>1, <2>3, <2>5, <3>1 DEF UniqueNames, Named
  <2> QED BY <2>1, <2>2, <2>5
<1>6. ASSUME NEW k \in Kinds, NEW n, NEW e, BeginRemove(p, k, n, e) PROVE UniqueNames(coll')
  BY <1>6, WithDefaultUnique DEF BeginRemove, Store
<1> QED BY <1>1, <1>2, <1>3, <1>4, <1>5, <1>6 DEF Begins

LEMMA RenameUnique ==
  ASSUME Sound, ~raced, UniqueNames(coll), NEW p \in Procs, Rename(p)
  PROVE  UniqueNames(coll')
<1> DEFINE n == call[p].name
           f(c) == [c EXCEPT !.name = n]
<1>1. /\ \A c \in coll : IsRow(c)
      /\ \A c, d \in coll : c.id = d.id => c = d
  BY DEF Sound, Whole, Ids
<1>2. /\ coll' = (coll \ Row(p)) \cup {f(c) : c \in Row(p)}
      /\ call[p].kind = "watchlist" => Named(coll, "watchlist", n) \subseteq Row(p)
  BY DEF Rename, Store
<1>3. \A c \in coll : f(c).kind = c.kind /\ f(c).name = n
  BY <1>1 DEF IsRow
<1> HIDE DEF f
<1>4. SUFFICES ASSUME NEW c \in coll', NEW d \in coll', c.kind = "watchlist",
                      d.kind = "watchlist", c.name = d.name
               PROVE  c = d
  BY DEF UniqueNames
<1>5. Row(p) \subseteq coll /\ \A x, y \in Row(p) : x = y
  BY <1>1 DEF Row
<1>6. \A x \in coll \ Row(p) : ~(x.kind = "watchlist" /\ x.name = n /\ call[p].kind = "watchlist")
  BY <1>2 DEF Named
<1>7. \A x \in Row(p) : x.kind = call[p].kind
  BY DEF Row
<1> HIDE DEF n
<1>8. CASE c \in coll \ Row(p) /\ d \in coll \ Row(p)
  BY <1>4, <1>8 DEF UniqueNames
<1>9. ASSUME NEW x \in Row(p), NEW y \in coll \ Row(p), f(x).kind = "watchlist",
             y.kind = "watchlist", f(x).name = y.name
      PROVE  FALSE
  BY <1>3, <1>5, <1>6, <1>7, <1>9
<1>10. CASE c \notin coll \ Row(p) /\ d \notin coll \ Row(p)
  BY <1>2, <1>5, <1>10
<1> QED BY <1>2, <1>4, <1>8, <1>9, <1>10

LEMMA WritesUnique ==
  ASSUME Sound, ~raced, UniqueNames(coll), NEW p \in Procs, Writes(p)
  PROVE  UniqueNames(coll')
<1>1. CASE Insert(p)
  <2>1. coll' = coll \cup {New(coll, "portfolio", call[p].name, FALSE)}
    BY <1>1 DEF Insert, Store
  <2> QED BY <2>1, NewName
<1>2. CASE Delete(p)
  <2> DEFINE old == coll \ Row(p)
             Mark(c) == [c EXCEPT !.default =
                           @ \/ (c.kind = "watchlist" /\ c.id = call[p].other)]
  <2>1. coll' = PassesMark(p, old)
    BY <1>2 DEF Delete, Store
  <2>2. coll' = old \/ coll' = {Mark(c) : c \in old}
    BY <2>1 DEF PassesMark
  <2>3. \A c, b : IsRow(c) => LET d == [c EXCEPT !.default = b] IN
                               d.kind = c.kind /\ d.name = c.name
    BY DEF IsRow
  <2>4. \A c \in coll : Mark(c).kind = c.kind /\ Mark(c).name = c.name
    BY <2>3 DEF Sound, Whole, Ids
  <2> HIDE DEF Mark
  <2> QED BY <2>2, <2>4 DEF UniqueNames
<1> QED BY <1>1, <1>2, RenameUnique DEF Writes, Add, Remove

LEMMA RebuildUnique ==
  ASSUME Rebuilds
  PROVE  UniqueNames(coll')
BY DEF Rebuilds, CopiedLists, Lists, UniqueNames

LEMMA RebuildKeepsDefaults ==
  ASSUME Sound, Alone, ~raced, Rebuilds, shape # 0, NEW k \in Kinds
  PROVE  Defaults(coll, k) \subseteq coll'
<1> USE StateDatabaseAssumption
<1> SUFFICES ASSUME NEW c \in Defaults(coll, k) PROVE c \in coll'
  OBVIOUS
<1>1. c \in coll /\ c.kind = k /\ c.default /\ c.id \in Nat
  BY DEF Defaults, Sound, Whole, Ids
<1>2. coll' = CopiedLists \cup (coll \ Lists)
  BY DEF Rebuilds
<1>3. CASE k # "watchlist"
  BY <1>1, <1>2, <1>3 DEF Lists
<1>4. CASE k = "watchlist" /\ shape > Rebuild
  <2>1. Named(coll, "watchlist", c.name) = {c}
    BY <1>1, <1>4 DEF Alone, UniqueNames, Named
  <2>2. c = FirstOf(Named(coll, "watchlist", c.name))
    BY <1>1, <2>1, FirstOfOne
  <2> QED BY <1>1, <1>2, <1>4, <2>2 DEF CopiedLists, Lists
<1>5. CASE k = "watchlist" /\ ~(shape > Rebuild)
  <2>1. shape \in 1..Rebuild
    BY <1>5 DEF Sound, Shared
  <2>2. c = FirstOf(Named(coll, "watchlist", c.name))
    BY <1>1, <1>5, <2>1 DEF Alone, Firsts
  <2> QED BY <1>1, <1>2, <1>5, <2>2 DEF CopiedLists, Lists
<1> QED BY <1>3, <1>4, <1>5

LEMMA InitAlone == Init => Alone
<1> SUFFICES ASSUME Init, shape # 0 PROVE Firsts(coll) /\ (shape > Rebuild => UniqueNames(coll))
  <2>1. Rebuild \in Nat /\ 0 \notin 1..Rebuild /\ ~(0 > Rebuild)
    BY StateDatabaseAssumption
  <2> QED BY <2>1 DEF Alone
<1>1. /\ Main.id = 1 /\ Main.kind = "watchlist" /\ Main.name = Default
      /\ Namesake.id = 2 /\ Namesake.kind = "watchlist" /\ Namesake.name = Default
      /\ Main.default = TRUE /\ Namesake.default = FALSE
  BY DEF Main, Namesake
<1>2. /\ coll = {Main} \/ coll = {Main, Namesake}
      /\ shape > Rebuild => coll = {Main}
  <2>1. shape = version /\ version # 0 /\ \E f \in Found : coll = f[1]
    BY DEF Init
  <2>2. version \in Nat /\ Rebuild \in Nat
    BY StateDatabaseAssumption DEF Init
  <2> QED BY <2>1, <2>2 DEF Found
<1>3. Defaults(coll, "watchlist") = {Main} /\ Named(coll, "watchlist", Default) = coll
  BY <1>1, <1>2 DEF Defaults, Named
<1>4. FirstOf(coll) = Main
  BY <1>1, <1>2 DEF FirstOf
<1> QED BY <1>1, <1>2, <1>3, <1>4 DEF Firsts, UniqueNames

LEMMA StepAlone == Sound /\ Before /\ Earned /\ Alone /\ [Next]_vars => Alone'
<1> SUFFICES ASSUME Sound, Before, Earned, Alone, [Next]_vars, ~raced'
             PROVE  /\ shape' > Rebuild => UniqueNames(coll')
                    /\ shape' \in 1..Rebuild => Firsts(coll')
  BY DEF Alone, UniqueNames, Firsts, Defaults, Named, FirstOf
<1> USE StateDatabaseAssumption
<1>2. ~raced
  <2>1. ASSUME NEW p \in Procs, Opening(p) PROVE ~raced
    BY <2>1 DEF Opening, Open, Drop, Create, Stamp, Migrate, Rebuilds
  <2>2. ASSUME NEW p \in Procs, Begins(p) \/ Writes(p) \/ Ends(p) PROVE ~raced
    BY <2>2, CallKeepsSchema
  <2> QED BY <2>1, <2>2 DEF Next, vars
<1>1. shape \in 0..Current /\ (shape = 0 => coll = {})
  BY <1>2 DEF Sound, Shared, Whole, Empty
<1>3. UniqueNames({}) /\ Firsts({})
  BY DEF UniqueNames, Firsts, Defaults
<1>4. ASSUME NEW p \in Procs, Open(p) \/ Create(p) \/ Stamp(p)
      PROVE  /\ UNCHANGED coll
             /\ \/ UNCHANGED shape
                \/ shape = 0
                \/ shape' = Current /\ shape \in {0, Current}
  BY <1>4 DEF Open, Create, Stamp, rows, Earned, Created, Upgraded
<1>5. ASSUME NEW p \in Procs, Drop(p) PROVE coll' = {}
  BY <1>5 DEF Drop
<1>6. ASSUME NEW p \in Procs, Migrate(p)
      PROVE  /\ shape' > Rebuild => UniqueNames(coll')
             /\ shape' \in 1..Rebuild => Firsts(coll')
  <2>1. /\ shape # 0 /\ seen[p] + 1 \in 1..Current
        /\ shape' = IF shape >= seen[p] + 1 THEN shape ELSE seen[p] + 1
    BY <1>6, MigrateShape
  <2>2. seen[p] \in 0..Current
    BY DEF Earned, Shared
  <2>3. CASE seen[p] = Rebuild
    <3>1. UniqueNames(coll')
      BY <1>6, <2>3, RebuildUnique DEF Migrate
    <3>2. shape' > Rebuild
      BY <1>1, <2>1, <2>2, <2>3
    <3> QED BY <3>1, <3>2
  <2>4. CASE seen[p] # Rebuild
    <3>1. UNCHANGED coll
      BY <1>6, <2>4 DEF Migrate, rows
    <3>2. shape' \in 1..Rebuild => shape \in 1..Rebuild
      BY <1>1, <2>1, <2>2
    <3>3. shape' > Rebuild => shape > Rebuild
      <4>1. seen[p] <= shape
        BY <1>6 DEF Migrate, Before
      <4> QED BY <1>1, <2>1, <2>2, <2>4, <4>1
    <3> QED BY <1>2, <3>1, <3>2, <3>3 DEF Alone, UniqueNames, Firsts, Defaults, Named
  <2> QED BY <2>3, <2>4
<1>7. ASSUME NEW p \in Procs, Begins(p) \/ Writes(p)
      PROVE  UNCHANGED shape /\ shape = Current /\ UniqueNames(coll')
  <2>1. UNCHANGED shape
    BY <1>7, CallKeepsSchema
  <2>2. pc[p] \in {"ready", "call"} /\ shape # 0
    BY <1>7 DEF Begins, Writes, Ready, Doing, CreateWatchlist, BeginCreatePortfolio,
       BeginDelete, BeginRename, BeginAdd, BeginRemove, Insert, Rename, Delete, Add, Remove
  <2>3. shape = Current
    BY <2>2 DEF Before
  <2>4. UniqueNames(coll)
    BY <1>2, <2>3 DEF Alone
  <2> QED BY <1>2, <1>7, <2>1, <2>3, <2>4, BeginsUnique, WritesUnique
<1>8. ASSUME NEW p \in Procs, Ends(p) PROVE UNCHANGED <<shape, coll>>
  BY <1>8 DEF Ends, Kept, schema, rows
<1>9. UNCHANGED vars => UNCHANGED <<shape, coll>>
  BY DEF vars, schema, rows
<1>10. CASE UNCHANGED <<shape, coll>>
  BY <1>2, <1>10 DEF Alone, UniqueNames, Firsts, Defaults, Named
<1>11. CASE coll' = {}
  BY <1>3, <1>11
<1>12. ASSUME NEW p \in Procs, Open(p) \/ Create(p) \/ Stamp(p)
       PROVE  /\ shape' > Rebuild => UniqueNames(coll')
              /\ shape' \in 1..Rebuild => Firsts(coll')
  <2>1. CASE UNCHANGED shape
    BY <1>4, <1>10, <1>12, <2>1
  <2>2. CASE shape = 0
    BY <1>1, <1>4, <1>11, <1>12, <2>2
  <2>3. CASE shape' = Current /\ shape \in {0, Current}
    BY <1>1, <1>4, <1>10, <1>11, <1>12, <2>3
  <2> QED BY <1>4, <1>12, <2>1, <2>2, <2>3
<1>13. Current \notin 1..Rebuild
  OBVIOUS
<1> QED BY <1>5, <1>6, <1>7, <1>8, <1>9, <1>10, <1>11, <1>12, <1>13 DEF Next, Opening

LEMMA AloneCorrect == Spec => []Alone
<1>1. Init => Alone
  BY InitAlone
<1>2. Sound /\ Before /\ Earned /\ Alone /\ [Next]_vars => Alone'
  BY StepAlone
<1> QED BY <1>1, <1>2, SoundCorrect, PTL DEF Spec

LEMMA BeginsGrow ==
  ASSUME NEW p \in Procs, Begins(p)
  PROVE  coll \subseteq coll'
<1>1. \A k : coll \subseteq WithDefault(k)
  BY DEF WithDefault
<1>2. ASSUME NEW n, CreateWatchlist(p, n) PROVE coll \subseteq coll'
  BY <1>2 DEF CreateWatchlist, Store
<1>3. ASSUME NEW n, BeginCreatePortfolio(p, n) PROVE coll \subseteq coll'
  BY <1>3 DEF BeginCreatePortfolio, rows
<1>4. ASSUME NEW n, BeginDelete(p, n) PROVE coll \subseteq coll'
  BY <1>1, <1>4 DEF BeginDelete, Store
<1>5. ASSUME NEW k, NEW n, NEW m, BeginRename(p, k, n, m) PROVE coll \subseteq coll'
  BY <1>5 DEF BeginRename, rows
<1>6. ASSUME NEW k, NEW n, BeginAdd(p, k, n) PROVE coll \subseteq coll'
  <2>1. \E x : coll' = WithDefault(k) \/ coll' = WithDefault(k) \cup {x}
    BY <1>6 DEF BeginAdd, Store
  <2> QED BY <1>1, <2>1
<1>7. ASSUME NEW k, NEW n, NEW e, BeginRemove(p, k, n, e) PROVE coll \subseteq coll'
  BY <1>1, <1>7 DEF BeginRemove, Store
<1> QED BY <1>2, <1>3, <1>4, <1>5, <1>6, <1>7 DEF Begins

LEMMA RenameKeepsDefaults ==
  ASSUME Sound, ~raced, NEW p \in Procs, Rename(p), NEW k, NEW c \in Defaults(coll, k)
  PROVE  Defaults(coll', k) # {}
<1>1. c \in coll /\ c.kind = k /\ c.default /\ IsRow(c)
  BY DEF Defaults, Sound, Whole, Ids
<1> DEFINE d == [c EXCEPT !.name = call[p].name]
<1>2. coll' = (coll \ Row(p)) \cup {[x EXCEPT !.name = call[p].name] : x \in Row(p)}
  BY DEF Rename, Store
<1>3. d.kind = c.kind /\ d.default = c.default
  BY <1>1 DEF IsRow
<1>4. d \in coll' \/ c \in coll'
  BY <1>1, <1>2
<1> HIDE DEF d
<1> QED BY <1>1, <1>3, <1>4 DEF Defaults

LEMMA DeleteKeepsDefaults ==
  ASSUME Sound, ~raced, NEW p \in Procs, Delete(p), ~Overtaken(call[p]),
         NEW k, NEW c \in Defaults(coll, k)
  PROVE  Defaults(coll', k) # {}
<1> DEFINE left == coll \ Row(p)
           mine(x) == x.kind = "watchlist" /\ x.id = call[p].other
           Mark(x) == [x EXCEPT !.default = @ \/ mine(x)]
<1>1. /\ coll' = PassesMark(p, left) /\ call[p].op = "delete" /\ pc[p] = "call"
      /\ shape # 0
  BY DEF Delete, Doing, Store
<1>2. /\ \A x \in coll : IsRow(x)
      /\ call[p].kind = "watchlist" /\ call[p].other # call[p].id
      /\ \A d \in coll : d.id = call[p].other => d.kind = "watchlist"
  BY <1>1 DEF Sound, Whole, Ids, Fits
<1>3. call[p].marked /\ \E d \in coll : d.id = call[p].other
  BY <1>1 DEF Overtaken
<1>4. coll' = {Mark(x) : x \in left}
  BY <1>1, <1>3 DEF PassesMark
<1>5. \A x, b : IsRow(x) => LET y == [x EXCEPT !.default = b] IN
                             y.kind = x.kind /\ y.default = b
  BY DEF IsRow
<1>6. \A x \in coll : Mark(x).kind = x.kind /\ Mark(x).default = (x.default \/ mine(x))
  <2> TAKE x \in coll
  <2>1. Mark(x) = [x EXCEPT !.default = x.default \/ mine(x)]
    OBVIOUS
  <2> QED BY <1>2, <1>5, <2>1
<1> HIDE DEF Mark
<1>7. c \in coll /\ c.kind = k /\ c.default
  BY DEF Defaults
<1>8. CASE c \in Row(p)
  <2>1. k = "watchlist"
    BY <1>2, <1>7, <1>8 DEF Row
  <2>2. PICK d \in coll : d.id = call[p].other
    BY <1>3
  <2>3. d \in left /\ mine(d)
    BY <1>2, <2>2 DEF Row
  <2>4. Mark(d) \in coll' /\ Mark(d).kind = k /\ Mark(d).default
    BY <1>4, <1>6, <2>1, <2>3
  <2> QED BY <2>4 DEF Defaults
<1>9. CASE c \notin Row(p)
  <2>1. Mark(c) \in coll' /\ Mark(c).kind = k /\ Mark(c).default
    BY <1>4, <1>6, <1>7, <1>9
  <2> QED BY <2>1 DEF Defaults
<1> QED BY <1>8, <1>9

LEMMA DefaultStep ==
  ASSUME Sound, Alone, Next, NEW k \in Kinds, Defaults(coll, k) # {}, Defaults(coll', k) = {}
  PROVE  raced' \/ \E p \in Procs : Overtaken(call[p]) /\ call'[p] = NoCall
<1>1. ~(coll \subseteq coll')
  BY DEF Defaults
<1>2. ASSUME NEW p \in Procs, Opening(p) PROVE raced'
  <2>1. Drop(p) \/ (Migrate(p) /\ Rebuilds)
    BY <1>1, <1>2 DEF Opening, Open, Create, Stamp, Migrate, rows
  <2>2. CASE Drop(p)
    <3>1. coll # {}
      BY DEF Defaults
    <3>2. raced' = (raced \/ shape # seen[p]) /\ seen[p] = 0
      BY <2>2 DEF Drop, Sound
    <3> QED BY <3>1, <3>2 DEF Sound, Whole, Empty
  <2>3. CASE Rebuilds
    <3>1. raced => raced'
      BY <2>3 DEF Rebuilds
    <3>2. ~raced => Defaults(coll, k) \subseteq coll'
      <4>1. ASSUME ~raced PROVE shape # 0
        BY <4>1 DEF Sound, Whole, Empty, Defaults
      <4> QED BY <2>3, <4>1, RebuildKeepsDefaults
    <3> QED BY <3>1, <3>2 DEF Defaults
  <2> QED BY <2>1, <2>2, <2>3
<1>3. ASSUME NEW p \in Procs, Writes(p), ~raced
      PROVE  Overtaken(call[p]) /\ call'[p] = NoCall
  <2>1. PICK c \in Defaults(coll, k) : TRUE
    OBVIOUS
  <2>2. ~Rename(p)
    BY <1>3, <2>1, RenameKeepsDefaults
  <2>3. Delete(p)
    BY <1>1, <1>3, <2>2 DEF Writes, Insert, Add, Remove, Store
  <2>4. Overtaken(call[p])
    BY <1>3, <2>1, <2>3, DeleteKeepsDefaults
  <2>5. call' = [call EXCEPT ![p] = NoCall]
    BY <2>3 DEF Delete, Returns
  <2> QED BY <2>4, <2>5 DEF Sound
<1>4. \A p \in Procs : ~Begins(p)
  BY <1>1, BeginsGrow
<1>5. \A p \in Procs : ~Ends(p)
  BY <1>1 DEF Ends, rows
<1>6. \A p \in Procs : Writes(p) => raced' = raced
  BY DEF Writes, Insert, Rename, Delete, Add, Remove, Kept
<1> QED BY <1>2, <1>3, <1>4, <1>5, <1>6 DEF Next

\* There is a default watchlist and portfolio for as long as nobody deletes it
\* on the strength of what another call has changed.
THEOREM DefaultKept == Spec => DefaultStays
<1>1. Sound /\ Alone /\ [Next]_vars =>
        [\A k \in Kinds :
           Defaults(coll, k) # {} /\ Defaults(coll', k) = {} =>
             raced' \/ \E p \in Procs : Overtaken(call[p]) /\ call'[p] = NoCall]_vars
  BY DefaultStep
<1> QED BY <1>1, SoundCorrect, AloneCorrect, PTL DEF Spec, DefaultStays
=============================================================================
