---------------------------- MODULE ActiveRecord ----------------------------
(***************************************************************************)
(* lib/arken/ActiveRecord.lua and its adapters: the rows of a table, what  *)
(* one Lua state remembers of them, and transactions.  For each key the    *)
(* adapter has an entry in three tables:                                   *)
(*   cache    the record object handed to scripts, or false once destroyed *)
(*   neat     a clean copy of the row, to tell what changed                *)
(*   pending  PostgreSQL only: a clean copy after an update                *)
(* A record is one value; a script may set it before each save, so an      *)
(* update is given any value.  SQLite and MySQL share their code here; the *)
(* answers of the database are SQLite's and PostgreSQL's.                  *)
(*                                                                         *)
(* The history variables say which keys commit, rollback and a lost        *)
(* connection leave with a clean copy that may differ from the row.        *)
(***************************************************************************)
EXTENDS Integers

CONSTANTS
  Keys,         \* primary keys
  Values,       \* what a row holds
  MaxSavePoint, \* bound on begins without an end, and on ends without a
                \* begin, in the test environment
  None

ASSUME RecordAssumption == None \notin Values /\ MaxSavePoint \in Nat

VARIABLES
  adapter,   \* "sqlite" or "postgres"
  env,       \* ARKEN_ENV: "test" or "production"
  row,       \* the table as this connection sees it; None: no row
  base,      \* the table a ROLLBACK returns to
  inTx,      \* the connection is in a transaction
  savePoint, \* Adapter.savePoint
  cache,     \* "nil", "false" or "record"
  neat,      \* a value or None
  pending,   \* a value or None, which stands for nil and for false
  handles,   \* keys scripts have a record of
  outside,   \* changes since the clean copy was made, not in the transaction
  inside,    \* changes in the transaction, and "read" when they were read
  spoiled    \* keys whose clean copy may be wrong

config == <<adapter, env>>
dbVars == <<row, base, inTx>>
history == <<outside, inside, spoiled>>
vars == <<config, dbVars, savePoint, cache, neat, pending, handles, history>>

All(x) == [k \in Keys |-> x]

Init ==
  /\ adapter \in {"sqlite", "postgres"}
  /\ env \in {"test", "production"}
  /\ row \in [Keys -> Values \cup {None}]
  /\ base = row
  /\ inTx = FALSE
  /\ savePoint = 0
  /\ cache = All("nil") /\ neat = All(None) /\ pending = All(None)
  /\ handles = {}
  /\ outside = All({}) /\ inside = All({})
  /\ spoiled = {}

\* pending[key] or neat[key] or {}: what changes() and update compare with.
Baseline(k) == IF pending[k] # None THEN pending[k] ELSE neat[k]

\* A statement of this connection changed key k.
Note(k, change) ==
  IF inTx THEN inside' = [inside EXCEPT ![k] = @ \cup {change}] /\ UNCHANGED outside
          ELSE outside' = [outside EXCEPT ![k] = @ \cup {change}] /\ UNCHANGED inside

-----------------------------------------------------------------------------

\* create: INSERT, and the record is the clean copy; the key is one that the
\* database or the script chose.
Create(k, v) ==
  /\ row[k] = None
  /\ row' = [row EXCEPT ![k] = v]
  /\ cache' = [cache EXCEPT ![k] = "record"]
  /\ neat' = [neat EXCEPT ![k] = v]
  /\ handles' = handles \cup {k}
  /\ outside' = [outside EXCEPT ![k] = {}]
  /\ inside' = IF inTx THEN [inside EXCEPT ![k] = @ \cup {"new"}] ELSE inside
  /\ spoiled' = IF pending[k] = None THEN spoiled \ {k} ELSE spoiled
  /\ UNCHANGED <<config, base, inTx, savePoint, pending>>

\* An UPDATE statement; without the row it changes nothing, and succeeds.
SetRow(k, v) ==
  /\ row' = IF row[k] = None THEN row ELSE [row EXCEPT ![k] = v]
  /\ Note(k, "upd")
  /\ spoiled' = IF row[k] = None THEN spoiled \cup {k} ELSE spoiled

\* SqliteAdapter and MysqlAdapter: always an UPDATE; a clean copy that exists
\* follows.
UpdateNeat(k, v) ==
  /\ adapter = "sqlite"
  /\ k \in handles
  /\ SetRow(k, v)
  /\ neat' = IF neat[k] = None THEN neat ELSE [neat EXCEPT ![k] = v]
  /\ UNCHANGED <<config, base, inTx, savePoint, cache, pending, handles>>

\* Mutant: the pending copy is not compared with.
Unchanged_Neat(k, v) == v = neat[k]

\* PostgresAdapter: the record has the value of the clean copy.
Unchanged(k, v) == v = Baseline(k)

\* It then writes nothing.
UpdateSame(k, v) ==
  /\ adapter = "postgres"
  /\ k \in handles
  /\ Unchanged(k, v)
  /\ UNCHANGED vars

\* PostgresAdapter: the columns that differ, and the record is pending.
UpdatePending(k, v) ==
  /\ adapter = "postgres"
  /\ k \in handles
  /\ ~Unchanged(k, v)
  /\ SetRow(k, v)
  /\ pending' = [pending EXCEPT ![k] = v]
  /\ UNCHANGED <<config, base, inTx, savePoint, cache, neat, handles>>

Update(k, v) == UpdateNeat(k, v) \/ UpdateSame(k, v) \/ UpdatePending(k, v)

\* destroy: DELETE.
Destroy(k) ==
  /\ k \in handles
  /\ row' = [row EXCEPT ![k] = None]
  /\ cache' = [cache EXCEPT ![k] = "false"]
  /\ pending' = [pending EXCEPT ![k] = None]
  /\ Note(k, "del")
  /\ UNCHANGED <<config, base, inTx, savePoint, neat, handles, spoiled>>

-----------------------------------------------------------------------------

\* parser_fetch of a row that was selected: the clean copy is made or renewed.
Fetched(k) ==
  /\ row[k] # None
  /\ neat' = [neat EXCEPT ![k] = row[k]]
  /\ cache' = [cache EXCEPT ![k] = "record"]
  /\ handles' = handles \cup {k}
  /\ outside' = [outside EXCEPT ![k] = {}]
  /\ inside' = [inside EXCEPT ![k] = IF @ = {} THEN {} ELSE @ \cup {"read"}]
  /\ spoiled' = IF pending[k] = None THEN spoiled \ {k} ELSE spoiled
  /\ UNCHANGED <<config, dbVars, savePoint, pending>>

\* find or all with other conditions than the key: a row of an object that is
\* in the cache is not looked at.
Fetch(k) ==
  /\ cache[k] # "record"
  /\ Fetched(k)

\* find by key without an object in the cache: from the clean copy when there
\* is one, unless the record was destroyed here.
FindNeat(k) ==
  /\ cache[k] = "nil" /\ neat[k] # None
  /\ cache' = [cache EXCEPT ![k] = "record"]
  /\ handles' = handles \cup {k}
  /\ UNCHANGED <<config, dbVars, savePoint, neat, pending, history>>

FindRow(k) ==
  /\ cache[k] = "false" \/ (cache[k] = "nil" /\ neat[k] = None)
  /\ Fetched(k)

\* find with reload or lock, and record:reload().
Reload(k) == Fetched(k)

\* ActiveRecord.clear.
Clear ==
  /\ cache' = All("nil") /\ neat' = All(None) /\ pending' = All(None)
  /\ outside' = All({})
  /\ spoiled' = {}
  /\ UNCHANGED <<config, dbVars, savePoint, handles, inside>>

-----------------------------------------------------------------------------

\* begin.  A BEGIN in a transaction is an error in SQLite and only a warning
\* in PostgreSQL; either way nothing changes.
BeginProduction ==
  /\ env = "production"
  /\ ~inTx
  /\ inTx' = TRUE /\ base' = row
  /\ UNCHANGED <<config, row, savePoint, cache, neat, pending, handles, history>>

\* In the test environment the outermost begin is a BEGIN and the others are
\* save points, which need a transaction.
BeginTest ==
  /\ env = "test"
  /\ savePoint \in 0..(MaxSavePoint - 1)
  /\ IF savePoint = 0 THEN inTx => adapter = "postgres" ELSE inTx
  /\ savePoint' = savePoint + 1
  /\ inTx' = TRUE
  /\ base' = IF inTx THEN base ELSE row
  /\ UNCHANGED <<config, row, cache, neat, pending, handles, history>>

\* After a commit too many, begin executes nothing.
BeginNothing ==
  /\ env = "test"
  /\ savePoint < 0
  /\ savePoint' = savePoint + 1
  /\ UNCHANGED <<config, dbVars, cache, neat, pending, handles, history>>

\* Mutant: rollback and commit keep the pending copies.
Forget_KeepPending ==
  cache' = All("nil") /\ UNCHANGED <<neat, pending>>

\* What rollback and commit forget; the clean copies stay.
Forget ==
  cache' = All("nil") /\ pending' = All(None) /\ UNCHANGED neat

\* Keys that lose their only true copy when that is forgotten.
Forgotten(changes) ==
  {k \in Keys : \/ "del" \in changes[k]
                \/ adapter = "postgres" /\ "upd" \in changes[k]}

Changes == [k \in Keys |-> outside[k] \cup inside[k]]

\* The tables are cleared before the statement is executed, so in every case
\* below, and whether there is a transaction or not.

\* The rows stay as they are, and so does the transaction, if there is one.
EndKeeping ==
  /\ Forget
  /\ spoiled' = spoiled \cup Forgotten(Changes)
  /\ outside' = All({})
  /\ UNCHANGED <<config, dbVars, handles, inside>>

\* The transaction, if there is one, is rolled back.
EndUndoing ==
  /\ Forget
  /\ row' = IF inTx THEN base ELSE row
  /\ inTx' = FALSE
  /\ spoiled' = spoiled \cup Forgotten(outside) \cup
       {k \in Keys : \/ {"new", "read"} \cap inside[k] # {}
                     \/ adapter = "sqlite" /\ "upd" \in inside[k]}
  /\ outside' = All({}) /\ inside' = All({})
  /\ UNCHANGED <<config, base, handles>>

\* commit: COMMIT, which outside of a transaction changes nothing.
CommitProduction ==
  /\ env = "production"
  /\ Forget
  /\ inTx' = FALSE
  /\ spoiled' = spoiled \cup Forgotten(Changes)
  /\ outside' = All({}) /\ inside' = All({})
  /\ UNCHANGED <<config, row, base, savePoint, handles>>

\* A COMMIT that fails: PostgreSQL rolls back, SQLite leaves the transaction
\* open.
CommitFails ==
  /\ env = "production"
  /\ inTx
  /\ IF adapter = "postgres" THEN EndUndoing ELSE EndKeeping
  /\ UNCHANGED savePoint

\* In the test environment commit executes nothing; savePoint may become
\* negative.
CommitTest ==
  /\ env = "test"
  /\ savePoint > -MaxSavePoint
  /\ savePoint' = savePoint - 1
  /\ EndKeeping

\* rollback of a nested begin releases the save point, which keeps the changes;
\* without a transaction that is an error.
RollbackNested ==
  /\ env = "test"
  /\ savePoint > 1
  /\ savePoint' = savePoint - 1
  /\ EndKeeping

\* ROLLBACK, an error or a warning outside of a transaction.
RollbackTop ==
  /\ env = "test" => savePoint - 1 < 1
  /\ savePoint' = 0
  /\ EndUndoing

\* execute() got an error: PostgreSQL's connection is closed and its
\* transaction lost, the tables and savePoint stay.  The other adapters have
\* no close(), so their transaction goes on.
ExecuteFails ==
  /\ adapter = "postgres"
  /\ inTx
  /\ row' = base
  /\ inTx' = FALSE
  /\ spoiled' = spoiled \cup {k \in Keys : inside[k] # {}}
  /\ inside' = All({})
  /\ UNCHANGED <<config, base, savePoint, cache, neat, pending, handles, outside>>

-----------------------------------------------------------------------------

Next ==
  \/ \E k \in Keys, v \in Values : Create(k, v) \/ Update(k, v)
  \/ \E k \in Keys : \/ Destroy(k) \/ Fetch(k) \/ FindNeat(k) \/ FindRow(k)
                     \/ Reload(k)
  \/ Clear \/ BeginProduction \/ BeginTest \/ BeginNothing
  \/ CommitProduction \/ CommitFails \/ CommitTest
  \/ RollbackNested \/ RollbackTop
  \/ ExecuteFails

Spec == Init /\ [][Next]_vars

-----------------------------------------------------------------------------

\* The clean copy that changes(), was() and update compare with is the row,
\* unless the record is known to be destroyed or the key was spoiled: by a
\* commit or a nested end after a destroy or an update by PostgreSQL, in the
\* transaction or before it; by a rollback, with or without a transaction,
\* after the same before it or after a create, a read or an update by SQLite
\* in it; by a lost connection; by an UPDATE of a row that is not there.
\* find by key makes records from neat alone: they are the row as long as
\* nothing is pending, since the two copies are then the same.
CleanCopyIsRow ==
  \A k \in Keys :
    k \notin spoiled /\ cache[k] # "false" /\ Baseline(k) # None
      => Baseline(k) = row[k]

\* A save that PostgreSQL's update leaves out because nothing changed is one
\* the row does not need: it holds the value already.
SkippedSaveIsSaved ==
  \A k \in handles \ spoiled, v \in Values :
    adapter = "postgres" /\ row[k] # None /\ Unchanged(k, v) => row[k] = v
=============================================================================
