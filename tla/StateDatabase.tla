--------------------------- MODULE StateDatabase ---------------------------
(***************************************************************************)
(* The local state database (src/memory/sqlite.ts) and the watchlists and  *)
(* portfolios kept in it (src/market-state/service.ts, src/tools/portfolio *)
(* watchlist.ts and tracker.ts).                                           *)
(*                                                                         *)
(* The terminal, the GUI server and the monitor share the file.  A tool    *)
(* call opens it - creating or upgrading the schema - reads, and writes;   *)
(* "add" waits for a price provider in between.  A transaction is a step,  *)
(* and so is a statement outside of one, with the reads next to it.        *)
(***************************************************************************)
EXTENDS Naturals, FiniteSets, FiniteSetsExt

CONSTANTS
  Procs,       \* calls that may run at the same time
  None,
  Names,       \* of watchlists and portfolios
  Default,     \* the name a default one is created with
  Oldest,      \* the oldest schema version that can be upgraded
  Rebuild,     \* the version from which the tables of watchlists are built anew
  Current,     \* the version this build wants
  Starts,      \* versions of the file when the model starts: 0 is no file
  MaxCalls     \* bound of the model

ASSUME StateDatabaseAssumption ==
  /\ Default \in Names /\ None \notin Names
  /\ Oldest \in Nat \ {0} /\ Current \in Nat
  /\ Rebuild \in Oldest..Current /\ Rebuild < Current
  /\ Starts \subseteq 0..Current /\ MaxCalls \in Nat

VARIABLES
  version,  \* the row of schema_version: 0 when there is none
  shape,    \* the version the tables have: 0 when there are none
  coll,     \* watchlists and portfolios
  entries,  \* watchlist_items and portfolio_lots
  last,     \* the last id of a collection (sqlite_sequence)
  lastEntry, \* the last id of an entry
  pc,       \* "idle", "drop", "create", "stamp", "migrate", "ready", "call"
  seen,     \* what a process read of the schema when it opened the file
  call,     \* what it read for the write that is left to do
  calls,    \* history: tool calls so far
  births,   \* history: collections created so far
  saved,    \* history: what a user was told is saved
  raced     \* history: a reset found tables that were not there when it decided to,
            \* or a rebuild done again found rows removed, and their ids free

schema == <<version, shape>>
rows == <<coll, entries, last, lastEntry, births>>
vars == <<schema, rows, pc, seen, call, calls, saved, raced>>

Kinds == {"watchlist", "portfolio"}

NoCall == [op |-> "none", kind |-> "watchlist", name |-> None, id |-> 0, born |-> 0,
           marked |-> FALSE, other |-> 0, adds |-> FALSE]

\* Mutant: an id is one more than the highest in use.
Unused(cs) == IF cs = {} THEN 1 ELSE Max({c.id : c \in cs}) + 1

\* AUTOINCREMENT: an id is not given twice.
NextId(cs) == last + Cardinality(cs \ coll) + 1

New(cs, k, n, default) ==
  [id |-> NextId(cs), born |-> births + Cardinality(cs \ coll) + 1,
   kind |-> k, name |-> n, default |-> default]

Named(cs, k, n) == {c \in cs : c.kind = k /\ c.name = n}
Defaults(cs, k) == {c \in cs : c.kind = k /\ c.default}

\* SELECT ... LIMIT 1
FirstOf(cs) == CHOOSE c \in cs : \A d \in cs : c.id <= d.id

\* The collections become cs.
Store(cs) ==
  /\ coll' = cs
  /\ last' = Max({last} \cup {c.id : c \in cs})
  /\ births' = Max({births} \cup {c.born : c \in cs})

TypeOK ==
  /\ version \in 0..Current /\ shape \in 0..Current
  /\ \A p \in Procs :
       /\ pc[p] \in {"idle", "drop", "create", "stamp", "migrate", "ready", "call"}
       /\ seen[p] \in 0..Current
       /\ pc[p] = "call" <=> call[p] # NoCall

\* What a user knows an entry by: its instrument, of which there is one here, in a
\* watchlist, and a lot by itself.
Key(e) == IF e.kind = "watchlist" THEN <<"item", e.coll>> ELSE <<"lot", e.id>>

KeysOf(es) == {Key(e) : e \in es}

\* A file with one list and one item in it.  Before the rebuild nothing makes names
\* of lists and instruments in a list unique: a list may have a namesake, and an
\* item a twin (the tables of tests/unit/memory/sqlite.test.ts:491-515).
Main == [id |-> 1, born |-> 1, kind |-> "watchlist", name |-> Default, default |-> TRUE]
Namesake == [id |-> 2, born |-> 2, kind |-> "watchlist", name |-> Default, default |-> FALSE]

ItemOf(c, i) == [id |-> i, kind |-> "watchlist", coll |-> c.id, born |-> c.born]

Found ==
  IF version = 0 THEN {<<{}, {}>>}
  ELSE {<<{Main}, {ItemOf(Main, 1)}>>} \cup
       IF version > Rebuild THEN {}
       ELSE {<<{Main}, {ItemOf(Main, 1), ItemOf(Main, 2)}>>,
             <<{Main, Namesake}, {ItemOf(Main, 1)}>>,
             <<{Main, Namesake}, {ItemOf(Main, 1), ItemOf(Namesake, 2)}>>}

Init ==
  /\ version \in Starts /\ shape = version
  /\ \E f \in Found : coll = f[1] /\ entries = f[2]
  /\ last = Cardinality(coll) /\ births = Cardinality(coll)
  /\ lastEntry = Cardinality(entries)
  /\ saved = KeysOf(entries)
  /\ pc = [p \in Procs |-> "idle"] /\ seen = [p \in Procs |-> 0]
  /\ call = [p \in Procs |-> NoCall]
  /\ calls = 0 /\ raced = FALSE

-----------------------------------------------------------------------------
(* initializeStateDatabase *)

\* Mutant: what has no version that can be upgraded is created anew.
MayAlwaysReset == TRUE

\* findKnownStateTables: the schema is created only where there is nothing.
MayReset == shape = 0

Goes(p, to) == pc' = [pc EXCEPT ![p] = to]

Open(p) ==
  /\ pc[p] = "idle" /\ calls < MaxCalls
  /\ calls' = calls + 1
  /\ IF version = Current
       THEN /\ Goes(p, "ready")
            /\ shape' = IF shape = 0 THEN Current ELSE shape
            /\ UNCHANGED seen
     ELSE IF version < Oldest
       THEN /\ MayReset /\ Goes(p, "drop")
            /\ seen' = [seen EXCEPT ![p] = shape] /\ UNCHANGED shape
     ELSE /\ Goes(p, "migrate")
          /\ seen' = [seen EXCEPT ![p] = version] /\ UNCHANGED shape
  /\ UNCHANGED <<version, rows, call, saved, raced>>

\* resetSchema is no transaction: tables are dropped and created one by one, and
\* the version comes last.
Drop(p) ==
  /\ pc[p] = "drop" /\ Goes(p, "create")
  /\ version' = 0 /\ shape' = 0
  /\ coll' = {} /\ entries' = {} /\ last' = 0 /\ lastEntry' = 0
  /\ raced' = (raced \/ shape # seen[p])
  /\ UNCHANGED <<births, seen, call, calls, saved>>

Create(p) ==
  /\ pc[p] = "create" /\ Goes(p, "stamp")
  /\ shape' = Current
  /\ UNCHANGED <<version, rows, seen, call, calls, saved, raced>>

Stamp(p) ==
  /\ pc[p] = "stamp" /\ shape # 0 /\ Goes(p, "ready")
  /\ version' = Current
  /\ UNCHANGED <<shape, rows, seen, call, calls, saved, raced>>

\* Mutant: a step records the version the build wants, not the one it led to.
StampsCurrent(p) == Current

MigratesTo(p) == seen[p] + 1

Lists == {c \in coll : c.kind = "watchlist"}

\* migrateV8ToV9 makes new tables of watchlists and of their items and copies the
\* rows, INSERT OR IGNORE: the first of each name, and of each instrument in a list.
CopiedLists == {c \in Lists : c = FirstOf(Named(coll, "watchlist", c.name))}

\* Mutant: the old lists go before their items are copied, and ON DELETE CASCADE
\* takes these.
CascadedItems == {}

CopiedItems ==
  {e \in entries : /\ e.kind = "watchlist"
                   /\ e = FirstOf({d \in entries : d.kind = "watchlist" /\ d.coll = e.coll})}

\* OR IGNORE does not spare an item whose list was left out: a foreign key fails,
\* and the transaction with it.
CanRebuild == \A e \in entries : e.kind = "watchlist" => \E c \in CopiedLists : c.id = e.coll

\* The old tables are dropped, and with them the ids of rows removed before.
Rebuilds ==
  /\ CanRebuild
  /\ coll' = CopiedLists \cup (coll \ Lists)
  /\ entries' = CopiedItems \cup {e \in entries : e.kind # "watchlist"}
  /\ last' = Max({0} \cup {c.id : c \in coll})
  /\ lastEntry' = Max({0} \cup {e.id : e \in entries})
  /\ raced' = (raced \/ (shape > Rebuild /\ <<last, lastEntry>>' # <<last, lastEntry>>))
  /\ UNCHANGED births

\* One step of runMigrations, a transaction; a process does not read the version
\* again, so it may repeat a step another has done.
Migrate(p) ==
  /\ pc[p] = "migrate"
  /\ version' = MigratesTo(p) /\ shape' = Max({shape, seen[p] + 1})
  /\ seen' = [seen EXCEPT ![p] = @ + 1]
  /\ Goes(p, IF seen[p] + 1 = Current THEN "ready" ELSE "migrate")
  /\ IF seen[p] = Rebuild THEN Rebuilds ELSE UNCHANGED <<rows, raced>>
  /\ UNCHANGED <<call, calls, saved>>

-----------------------------------------------------------------------------
(* Tool calls, up to the reads that precede their last write. *)

Ready(p) == pc[p] = "ready" /\ shape # 0

Returns(p) == Goes(p, "idle") /\ call' = [call EXCEPT ![p] = NoCall]

GoesOn(p, c) == Goes(p, "call") /\ call' = [call EXCEPT ![p] = c]

\* getDefaultWatchlist and getDefaultPortfolio create the default when there is
\* none; names of watchlists are unique, so the insert is ignored when the name
\* is taken, and the call fails.
DefaultFound(k) ==
  Defaults(coll, k) # {} \/ k = "portfolio" \/ Named(coll, k, Default) = {}

WithDefault(k) ==
  IF Defaults(coll, k) = {} THEN coll \cup {New(coll, k, Default, TRUE)} ELSE coll

Kept == UNCHANGED <<schema, seen, calls, raced>>

\* createWatchlist: INSERT OR IGNORE.
CreateWatchlist(p, n) ==
  /\ Ready(p) /\ Returns(p)
  /\ Store(IF Named(coll, "watchlist", n) = {}
             THEN coll \cup {New(coll, "watchlist", n, FALSE)} ELSE coll)
  /\ Kept /\ UNCHANGED <<entries, lastEntry, saved>>

\* createPortfolio looks for the name, and inserts.
BeginCreatePortfolio(p, n) ==
  /\ Ready(p)
  /\ IF Named(coll, "portfolio", n) # {} THEN Returns(p)
     ELSE GoesOn(p, [NoCall EXCEPT !.op = "insert", !.kind = "portfolio", !.name = n])
  /\ Kept /\ UNCHANGED <<rows, saved>>

\* renameWatchlist and renamePortfolio; the latter looks for the new name.
BeginRename(p, k, n, m) ==
  /\ Ready(p) /\ Named(coll, k, n) # {}
  /\ LET c == FirstOf(Named(coll, k, n)) IN
     /\ k = "portfolio" /\ Named(coll, k, m) # {} => FirstOf(Named(coll, k, m)) = c
     /\ GoesOn(p, [NoCall EXCEPT !.op = "rename", !.kind = k, !.name = m, !.id = c.id])
  /\ Kept /\ UNCHANGED <<rows, saved>>

\* deleteWatchlist: the default, listed first, takes the place of another one.
BeginDelete(p, n) ==
  /\ Ready(p) /\ DefaultFound("watchlist")
  /\ LET cs == WithDefault("watchlist")
         others == {c \in cs : c.kind = "watchlist" /\ c.name # n}
     IN /\ Named(cs, "watchlist", n) # {} /\ others # {}
        /\ \E c \in Named(cs, "watchlist", n), d \in others :
             /\ ~c.default => d.default
             /\ GoesOn(p, [NoCall EXCEPT !.op = "delete", !.id = c.id, !.marked = c.default,
                                          !.other = d.id])
        /\ Store(cs)
  /\ Kept /\ UNCHANGED <<entries, lastEntry, saved>>

\* What is left of an add to collection c.
AddTo(c, k) == [NoCall EXCEPT !.op = "add", !.kind = k, !.id = c.id, !.born = c.born]

\* The collections an add goes to; getOrCreatePortfolio takes the first portfolio
\* that has the default one's name.
Wanted(cs, k, n) ==
  IF n # None THEN Named(cs, k, n)
  ELSE IF k = "watchlist" THEN Defaults(cs, k)
  ELSE Named(cs, k, FirstOf(Defaults(cs, k)).name)

\* add: getOrCreateWatchlist or getOrCreatePortfolio, and on to the provider.
BeginAdd(p, k, n) ==
  /\ Ready(p) /\ DefaultFound(k)
  /\ LET cs == WithDefault(k)
         wanted == Wanted(cs, k, n)
         made == New(cs, k, n, FALSE)
     IN IF wanted # {} THEN GoesOn(p, AddTo(FirstOf(wanted), k)) /\ Store(cs)
        ELSE IF k = "watchlist" THEN GoesOn(p, AddTo(made, k)) /\ Store(cs \cup {made})
        ELSE /\ GoesOn(p, [NoCall EXCEPT !.op = "insert", !.kind = k, !.name = n, !.adds = TRUE])
             /\ Store(cs)
  /\ Kept /\ UNCHANGED <<entries, lastEntry, saved>>

BeginRemove(p, k, n, e) ==
  /\ Ready(p) /\ DefaultFound(k)
  /\ LET cs == WithDefault(k)
         wanted == IF n = None THEN Defaults(cs, k) ELSE Named(cs, k, n)
     IN /\ wanted # {} /\ e.kind = k /\ e.coll = FirstOf(wanted).id
        /\ Store(cs)
  /\ GoesOn(p, [NoCall EXCEPT !.op = "remove", !.kind = k, !.id = e.id])
  /\ Kept /\ UNCHANGED <<entries, lastEntry, saved>>

-----------------------------------------------------------------------------
(* Their last write. *)

\* The row a call is about, if it is still there.
Row(p) == {c \in coll : c.id = call[p].id /\ c.kind = call[p].kind}

\* Mutant: the rows that point at a list stay when it is deleted.
OwnsNothing(p) == {}

\* What ON DELETE CASCADE takes with it.
Items(p) == {e \in entries : \E c \in Row(p) : c.kind = e.kind /\ c.id = e.coll}

Doing(p, op) == pc[p] = "call" /\ call[p].op = op /\ shape # 0

Insert(p) ==
  /\ Doing(p, "insert")
  /\ LET made == New(coll, "portfolio", call[p].name, FALSE) IN
     /\ Store(coll \cup {made})
     /\ IF call[p].adds
          THEN GoesOn(p, AddTo(made, "portfolio"))
          ELSE Returns(p)
  /\ Kept /\ UNCHANGED <<entries, lastEntry, saved>>

Rename(p) ==
  /\ Doing(p, "rename") /\ Returns(p)
  /\ call[p].kind = "watchlist" =>
       Named(coll, "watchlist", call[p].name) \subseteq Row(p)
  /\ Store((coll \ Row(p)) \cup {[c EXCEPT !.name = call[p].name] : c \in Row(p)})
  /\ Kept /\ UNCHANGED <<entries, lastEntry, saved>>

\* Mutant: the default is deleted and nothing takes its place.
KeepsMark(p, cs) == cs

\* What was the default when it was read passes the mark on.
PassesMark(p, cs) ==
  IF call[p].marked
    THEN {[c EXCEPT !.default = @ \/ (c.kind = "watchlist" /\ c.id = call[p].other)] : c \in cs}
    ELSE cs

\* A second default breaks a unique index, and the transaction with it.
Delete(p) ==
  /\ Doing(p, "delete") /\ Returns(p)
  /\ LET left == PassesMark(p, coll \ Row(p)) IN
     Cardinality(Defaults(left, "watchlist")) <= 1 /\ Store(left)
  /\ entries' = entries \ Items(p)
  /\ saved' = saved \ KeysOf(Items(p))
  /\ UNCHANGED lastEntry /\ Kept

\* addWatchlistItem keeps one item per instrument, and there is one here;
\* a collection that is gone breaks a foreign key.
Add(p) ==
  /\ Doing(p, "add") /\ Returns(p)
  /\ Row(p) # {}
  /\ IF call[p].kind = "watchlist" /\ Items(p) # {}
       THEN /\ saved' = saved \cup KeysOf(Items(p))
            /\ UNCHANGED <<entries, lastEntry>>
       ELSE LET made == [id |-> lastEntry + 1, kind |-> call[p].kind, coll |-> call[p].id,
                         born |-> call[p].born]
            IN /\ entries' = entries \cup {made} /\ lastEntry' = lastEntry + 1
               /\ saved' = saved \cup {Key(made)}
  /\ Kept /\ UNCHANGED <<coll, last, births>>

Remove(p) ==
  /\ Doing(p, "remove") /\ Returns(p)
  /\ LET gone == {e \in entries : e.kind = call[p].kind /\ e.id = call[p].id} IN
     /\ entries' = entries \ gone
     /\ saved' = saved \ KeysOf(gone)
  /\ Kept /\ UNCHANGED <<coll, last, lastEntry, births>>

\* A statement fails - the file is locked, a table is gone, a constraint holds -
\* or the process dies.
Ends(p) ==
  /\ pc[p] # "idle" /\ Returns(p)
  /\ Kept /\ UNCHANGED <<rows, saved>>

Opening(p) == Open(p) \/ Drop(p) \/ Create(p) \/ Stamp(p) \/ Migrate(p)

Begins(p) ==
  \/ \E n \in Names : CreateWatchlist(p, n) \/ BeginCreatePortfolio(p, n) \/ BeginDelete(p, n)
  \/ \E k \in Kinds, n \in Names :
       \E m \in Names \ {n} : BeginRename(p, k, n, m)
  \/ \E k \in Kinds, n \in Names \cup {None} :
       \/ BeginAdd(p, k, n)
       \/ \E e \in entries : BeginRemove(p, k, n, e)

Writes(p) == Insert(p) \/ Rename(p) \/ Delete(p) \/ Add(p) \/ Remove(p)

Next == \E p \in Procs : Opening(p) \/ Begins(p) \/ Writes(p) \/ Ends(p)

Spec == Init /\ [][Next]_vars

-----------------------------------------------------------------------------
(* Properties. *)

\* What a user was told is saved is there until a user removes it or its list: on a
\* file this build cannot read, and through upgrades that stop, are done twice and
\* build the tables anew; of twins in a list one is enough.  Two first starts at the
\* same time may lose it, and so may a removal that meets an id given again after a
\* rebuild done twice.
SavedRowsSurvive == ~raced => saved \subseteq KeysOf(entries)

\* The recorded version never runs ahead of the tables, whoever upgrades them and
\* wherever it stops: what is opened without an upgrade needs none.
VersionIsEarned == version <= shape

\* An entry lands in the collection that bore the name when it was looked up,
\* though others rename, delete and create while the provider is asked.  The id may
\* be another's once a rebuild done twice has let go of it.
AddedWhereAsked ==
  ~raced => \A e \in entries, c \in coll :
              c.kind = e.kind /\ c.id = e.coll => c.born = e.born

\* The default collection is never without a successor, unless a delete goes on
\* from what another one has overtaken: that the list was not the default, or who
\* is to follow it.
Overtaken(c) == c.op = "delete" /\ (c.marked => \A d \in coll : d.id # c.other)

DefaultStays ==
  [][\A k \in Kinds :
       Defaults(coll, k) # {} /\ Defaults(coll', k) = {} =>
         raced' \/ \E p \in Procs : Overtaken(call[p]) /\ call'[p] = NoCall]_vars

\* openspec/specs/user-market-state/spec.md:24, "OpenCandle SHALL provide one
\* default watchlist and one default portfolio".
DefaultIsProvided == \A k \in Kinds : DefaultFound(k)
=============================================================================
