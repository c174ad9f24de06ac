------------------------- MODULE ActiveRecordProofs -------------------------
(***************************************************************************)
(* Proof that the clean copies of ActiveRecord are the rows, for every set *)
(* of keys and values and any nesting of transactions.                     *)
(*                                                                         *)
(* CleanCopyIsRow speaks of the copy that is compared with now.  What it   *)
(* is after the end of a transaction depends on copies that are hidden     *)
(* until then and on the row that a ROLLBACK would bring back: the         *)
(* invariant says which changes leave the clean copy equal to the row      *)
(* (NeatIsRow) and which leave it equal to that other row (NeatIsBase).    *)
(***************************************************************************)
EXTENDS ActiveRecord, TLAPS

Change == {"upd", "del", "new", "read"}

Types ==
  /\ adapter \in {"sqlite", "postgres"}
  /\ row \in [Keys -> Values \cup {None}] /\ base \in [Keys -> Values \cup {None}]
  /\ cache \in [Keys -> {"nil", "false", "record"}]
  /\ neat \in [Keys -> Values \cup {None}] /\ pending \in [Keys -> Values \cup {None}]
  /\ outside \in [Keys -> SUBSET Change] /\ inside \in [Keys -> SUBSET Change]
  /\ handles \subseteq Keys /\ spoiled \subseteq Keys
  /\ inTx \in BOOLEAN

\* A set of changes that leaves the clean copy of the adapter as true as it was.
Harmless(changes) ==
  /\ "del" \notin changes
  /\ adapter = "postgres" => "upd" \notin changes

\* A set of changes in a transaction whose ROLLBACK leaves the clean copy true.
Undone(changes) ==
  /\ "new" \notin changes /\ "read" \notin changes
  /\ adapter = "sqlite" => "upd" \notin changes

\* What the transaction has not touched is as before it, and there are no
\* changes in a transaction that is over.
TxInv(k) ==
  /\ ~inTx => inside[k] = {}
  /\ inTx /\ inside[k] = {} => row[k] = base[k]

\* Only PostgreSQL has pending copies, and none of a destroyed record.
PendingInv(k) ==
  /\ adapter = "sqlite" => pending[k] = None
  /\ k \notin spoiled /\ cache[k] = "false" => row[k] = None /\ pending[k] = None

NeatIsRow(k) ==
  k \notin spoiled /\ Harmless(outside[k]) /\ Harmless(inside[k]) /\ neat[k] # None
    => neat[k] = row[k]

NeatIsBase(k) ==
  inTx /\ k \notin spoiled /\ Harmless(outside[k]) /\ Undone(inside[k]) /\ neat[k] # None
    => neat[k] = base[k]

CopyIsRow(k) ==
  k \notin spoiled /\ cache[k] # "false" /\ Baseline(k) # None => Baseline(k) = row[k]

KeyInv(k) ==
  TxInv(k) /\ PendingInv(k) /\ NeatIsRow(k) /\ NeatIsBase(k) /\ CopyIsRow(k)

Inv == Types /\ \A k \in Keys : KeyInv(k)

-----------------------------------------------------------------------------
(* Steps on one key.                                                       *)

\* Nothing of key k changes.
Same(k) ==
  /\ row'[k] = row[k] /\ base'[k] = base[k] /\ inTx' = inTx /\ adapter' = adapter
  /\ cache'[k] = cache[k] /\ neat'[k] = neat[k] /\ pending'[k] = pending[k]
  /\ outside'[k] = outside[k] /\ inside'[k] = inside[k]
  /\ k \in spoiled' <=> k \in spoiled

\* A key that a step leaves alone keeps its invariant.
LEMMA SameKey ==
  ASSUME NEW k \in Keys, KeyInv(k), Same(k) PROVE KeyInv(k)'
BY DEF Same, KeyInv, TxInv, PendingInv, NeatIsRow, NeatIsBase, CopyIsRow,
       Baseline, Harmless, Undone

\* A step on one key keeps the invariant if it does so for that key.
LEMMA OneKey ==
  ASSUME Inv, Types', NEW k \in Keys, KeyInv(k)', \A j \in Keys \ {k} : Same(j)
  PROVE  Inv'
<1>1. ASSUME NEW j \in Keys \ {k} PROVE KeyInv(j)'
  BY SameKey DEF Inv
<1> QED
  BY <1>1 DEF Inv

\* INSERT: the clean copy is the new row; a pending copy would have meant a row.
LEMMA CreateStep ==
  ASSUME Inv, NEW k \in Keys, NEW v \in Values, Create(k, v) PROVE Inv'
<1> USE RecordAssumption
<1>1. Types'
  BY DEF Inv, Types, Create, config, Change
<1>2. \A j \in Keys \ {k} : Same(j)
  BY DEF Inv, Types, Create, config, Same
<1>3. /\ row[k] = None /\ row'[k] = v /\ cache'[k] = "record" /\ neat'[k] = v
      /\ outside'[k] = {}
      /\ inside'[k] = (IF inTx THEN inside[k] \cup {"new"} ELSE inside[k])
      /\ k \in spoiled' <=> k \in spoiled /\ pending[k] # None
      /\ pending' = pending /\ inTx' = inTx /\ adapter' = adapter /\ base' = base
  BY DEF Inv, Types, Create, config
<1>4. KeyInv(k) /\ v # None
  BY DEF Inv
<1>5. k \notin spoiled => pending[k] = None
  BY <1>3, <1>4 DEF KeyInv, PendingInv, CopyIsRow, Baseline
<1>6. TxInv(k)' /\ PendingInv(k)'
  BY <1>3, <1>4 DEF KeyInv, TxInv, PendingInv
<1>7. NeatIsRow(k)' /\ NeatIsBase(k)'
  BY <1>3 DEF NeatIsRow, NeatIsBase, Undone
<1>8. CopyIsRow(k)'
  BY <1>3, <1>5 DEF CopyIsRow, Baseline
<1> QED
  BY <1>1, <1>2, <1>6, <1>7, <1>8, OneKey DEF KeyInv

\* UPDATE by SQLite and MySQL: the clean copy follows the row.
LEMMA UpdateNeatStep ==
  ASSUME Inv, NEW k \in Keys, NEW v \in Values, UpdateNeat(k, v) PROVE Inv'
<1> USE RecordAssumption
<1>1. Types'
  BY DEF Inv, Types, UpdateNeat, SetRow, Note, config, Change
<1>2. \A j \in Keys \ {k} : Same(j)
  BY DEF Inv, Types, UpdateNeat, SetRow, Note, config, Same
<1>3. /\ adapter = "sqlite" /\ adapter' = adapter
      /\ row'[k] = (IF row[k] = None THEN None ELSE v)
      /\ neat'[k] = (IF neat[k] = None THEN None ELSE v)
      /\ IF inTx THEN inside'[k] = inside[k] \cup {"upd"} /\ outside'[k] = outside[k]
                 ELSE outside'[k] = outside[k] \cup {"upd"} /\ inside'[k] = inside[k]
      /\ k \in spoiled' <=> k \in spoiled \/ row[k] = None
      /\ pending' = pending /\ cache' = cache /\ inTx' = inTx /\ base' = base
  BY DEF Inv, Types, UpdateNeat, SetRow, Note, config
<1>4. KeyInv(k) /\ v # None
  BY DEF Inv
<1>5. TxInv(k)' /\ PendingInv(k)'
  BY <1>3, <1>4 DEF KeyInv, TxInv, PendingInv
<1>6. NeatIsRow(k)' /\ NeatIsBase(k)'
  BY <1>3 DEF NeatIsRow, NeatIsBase, Undone
<1>7. CopyIsRow(k)'
  BY <1>3, <1>4 DEF KeyInv, PendingInv, CopyIsRow, Baseline
<1> QED
  BY <1>1, <1>2, <1>5, <1>6, <1>7, OneKey DEF KeyInv

\* UPDATE by PostgreSQL: the pending copy is the row, the clean one is as before
\* the transaction.
LEMMA UpdatePendingStep ==
  ASSUME Inv, NEW k \in Keys, NEW v \in Values, UpdatePending(k, v) PROVE Inv'
<1> USE RecordAssumption
<1>1. Types'
  BY DEF Inv, Types, UpdatePending, SetRow, Note, config, Change
<1>2. \A j \in Keys \ {k} : Same(j)
  BY DEF Inv, Types, UpdatePending, SetRow, Note, config, Same
<1>3. /\ adapter = "postgres" /\ adapter' = adapter
      /\ row'[k] = (IF row[k] = None THEN None ELSE v)
      /\ pending'[k] = v
      /\ IF inTx THEN inside'[k] = inside[k] \cup {"upd"} /\ outside'[k] = outside[k]
                 ELSE outside'[k] = outside[k] \cup {"upd"} /\ inside'[k] = inside[k]
      /\ k \in spoiled' <=> k \in spoiled \/ row[k] = None
      /\ neat' = neat /\ cache' = cache /\ inTx' = inTx /\ base' = base
  BY DEF Inv, Types, UpdatePending, SetRow, Note, config
<1>4. KeyInv(k) /\ v # None
  BY DEF Inv
<1>5. TxInv(k)' /\ PendingInv(k)'
  BY <1>3, <1>4 DEF KeyInv, TxInv, PendingInv
<1>6. NeatIsRow(k)'
  BY <1>3 DEF NeatIsRow, Harmless
<1>7. NeatIsBase(k)'
  BY <1>3, <1>4 DEF KeyInv, NeatIsBase, Harmless, Undone
<1>8. CopyIsRow(k)'
  BY <1>3, <1>4 DEF CopyIsRow, Baseline
<1> QED
  BY <1>1, <1>2, <1>5, <1>6, <1>7, <1>8, OneKey DEF KeyInv

\* destroy: the row goes and the cache remembers that it is not there.
LEMMA DestroyStep ==
  ASSUME Inv, NEW k \in Keys, Destroy(k) PROVE Inv'
<1> USE RecordAssumption
<1>1. Types'
  BY DEF Inv, Types, Destroy, Note, config, Change
<1>2. \A j \in Keys \ {k} : Same(j)
  BY DEF Inv, Types, Destroy, Note, config, Same
<1>3. /\ row'[k] = None /\ cache'[k] = "false" /\ pending'[k] = None
      /\ IF inTx THEN inside'[k] = inside[k] \cup {"del"} /\ outside'[k] = outside[k]
                 ELSE outside'[k] = outside[k] \cup {"del"} /\ inside'[k] = inside[k]
      /\ neat' = neat /\ spoiled' = spoiled /\ inTx' = inTx /\ base' = base
      /\ adapter' = adapter
  BY DEF Inv, Types, Destroy, Note, config
<1>4. KeyInv(k)
  BY DEF Inv
<1>5. TxInv(k)' /\ PendingInv(k)' /\ CopyIsRow(k)'
  BY <1>3, <1>4 DEF KeyInv, TxInv, PendingInv, CopyIsRow
<1>6. NeatIsRow(k)'
  BY <1>3 DEF NeatIsRow, Harmless
<1>7. NeatIsBase(k)'
  BY <1>3, <1>4 DEF KeyInv, NeatIsBase, Harmless, Undone
<1> QED
  BY <1>1, <1>2, <1>5, <1>6, <1>7, OneKey DEF KeyInv

\* SELECT: the clean copy is the row again; read after a change in the
\* transaction, it is not the row that a ROLLBACK brings back.
LEMMA FetchedStep ==
  ASSUME Inv, NEW k \in Keys, Fetched(k) PROVE Inv'
<1> USE RecordAssumption
<1>1. Types'
  BY DEF Inv, Types, Fetched, dbVars, config, Change
<1>2. \A j \in Keys \ {k} : Same(j)
  BY DEF Inv, Types, Fetched, dbVars, config, Same
<1>3. /\ row[k] # None /\ neat'[k] = row[k] /\ cache'[k] = "record"
      /\ outside'[k] = {}
      /\ inside'[k] = (IF inside[k] = {} THEN {} ELSE inside[k] \cup {"read"})
      /\ k \in spoiled' <=> k \in spoiled /\ pending[k] # None
      /\ row' = row /\ base' = base /\ inTx' = inTx /\ pending' = pending
      /\ adapter' = adapter
  BY DEF Inv, Types, Fetched, dbVars, config
<1>4. KeyInv(k)
  BY DEF Inv
<1>5. TxInv(k)' /\ PendingInv(k)'
  BY <1>3, <1>4 DEF KeyInv, TxInv, PendingInv
<1>6. NeatIsRow(k)'
  BY <1>3 DEF NeatIsRow
<1>7. NeatIsBase(k)'
  BY <1>3, <1>4 DEF KeyInv, TxInv, NeatIsBase, Undone
<1>8. CopyIsRow(k)'
  BY <1>3, <1>4 DEF KeyInv, PendingInv, CopyIsRow, Baseline
<1> QED
  BY <1>1, <1>2, <1>5, <1>6, <1>7, <1>8, OneKey DEF KeyInv

\* find from the clean copy.
LEMMA FindNeatStep ==
  ASSUME Inv, NEW k \in Keys, FindNeat(k) PROVE Inv'
<1>1. Types'
  BY DEF Inv, Types, FindNeat, dbVars, config, history
<1>2. \A j \in Keys \ {k} : Same(j)
  BY DEF Inv, Types, FindNeat, dbVars, config, history, Same
<1>3. /\ cache[k] = "nil" /\ cache'[k] = "record"
      /\ UNCHANGED <<adapter, row, base, inTx, neat, pending, outside, inside, spoiled>>
  BY DEF Inv, Types, FindNeat, dbVars, config, history
<1>4. KeyInv(k)
  BY DEF Inv
<1>5. KeyInv(k)'
  BY <1>3, <1>4 DEF KeyInv, TxInv, PendingInv, NeatIsRow, NeatIsBase, CopyIsRow,
                    Baseline, Harmless, Undone
<1> QED
  BY <1>1, <1>2, <1>5, OneKey

-----------------------------------------------------------------------------
(* Steps on every key.                                                     *)

\* clear forgets every copy.
LEMMA ClearStep == ASSUME Inv, Clear PROVE Inv'
<1> USE RecordAssumption
<1>1. Types'
  BY DEF Inv, Types, Clear, All, dbVars, config
<1>2. ASSUME NEW k \in Keys PROVE KeyInv(k)'
  <2>1. /\ cache'[k] = "nil" /\ neat'[k] = None /\ pending'[k] = None
        /\ UNCHANGED <<adapter, row, base, inTx, inside>>
    BY DEF Clear, All, dbVars, config
  <2>2. KeyInv(k)
    BY DEF Inv
  <2> QED
    BY <2>1, <2>2 DEF KeyInv, TxInv, PendingInv, NeatIsRow, NeatIsBase, CopyIsRow, Baseline
<1> QED
  BY <1>1, <1>2 DEF Inv

\* BEGIN: the row that a ROLLBACK brings back is the present one.
LEMMA BeginStep == ASSUME Inv, BeginProduction \/ BeginTest PROVE Inv'
<1>1. /\ inTx' = TRUE /\ base' = IF inTx THEN base ELSE row
      /\ UNCHANGED <<adapter, row, cache, neat, pending, handles, outside, inside, spoiled>>
  BY DEF BeginProduction, BeginTest, config, history
<1>2. Types'
  BY <1>1 DEF Inv, Types
<1>3. ASSUME NEW k \in Keys PROVE KeyInv(k)'
  <2>1. KeyInv(k)
    BY DEF Inv
  <2>2. TxInv(k)' /\ PendingInv(k)'
    BY <1>1, <2>1 DEF KeyInv, TxInv, PendingInv
  <2>3. NeatIsRow(k)' /\ CopyIsRow(k)'
    BY <1>1, <2>1 DEF KeyInv, NeatIsRow, CopyIsRow, Baseline, Harmless
  <2>4. NeatIsBase(k)'
    <3>1. CASE inTx
      BY <1>1, <2>1, <3>1 DEF KeyInv, NeatIsBase, Harmless, Undone
    <3>2. CASE ~inTx
      BY <1>1, <2>1, <3>2 DEF KeyInv, TxInv, NeatIsRow, NeatIsBase, Harmless
    <3> QED
      BY <3>1, <3>2
  <2> QED
    BY <2>2, <2>3, <2>4 DEF KeyInv
<1> QED
  BY <1>2, <1>3 DEF Inv

\* A begin that executes nothing changes no key.
LEMMA BeginNothingStep == ASSUME Inv, BeginNothing PROVE Inv'
<1>1. Types' /\ \A k \in Keys : Same(k)
  BY DEF BeginNothing, config, dbVars, history, Inv, Types, Same
<1> QED
  BY <1>1, SameKey DEF Inv

\* Ends of transactions that keep the rows: after Forget the clean copy alone is
\* left, and the keys for which it is not the row are spoiled.
LEMMA KeepingEndStep == ASSUME Inv, CommitProduction \/ EndKeeping PROVE Inv'
<1> USE RecordAssumption
<1>1. /\ cache' = All("nil") /\ pending' = All(None) /\ outside' = All({})
      /\ \/ inside' = inside /\ inTx' = inTx
         \/ inside' = All({}) /\ inTx' = FALSE
      /\ spoiled' = spoiled \cup Forgotten(Changes)
      /\ UNCHANGED <<adapter, row, base, neat, handles>>
  BY DEF CommitProduction, EndKeeping, Forget, dbVars, config
<1>2. Types'
  BY <1>1 DEF Inv, Types, All, Forgotten
<1>3. ASSUME NEW k \in Keys PROVE KeyInv(k)'
  <2>1. KeyInv(k)
    BY DEF Inv
  <2>2. /\ cache'[k] = "nil" /\ pending'[k] = None /\ outside'[k] = {}
        /\ inside'[k] = inside[k] \/ (inside'[k] = {} /\ inTx' = FALSE)
        /\ inTx' = inTx \/ inTx' = FALSE
        /\ k \notin spoiled' => /\ k \notin spoiled
                                /\ Harmless(outside[k]) /\ Harmless(inside[k])
    BY <1>1 DEF All, Forgotten, Changes, Harmless
  <2>3. TxInv(k)' /\ PendingInv(k)'
    BY <1>1, <2>1, <2>2 DEF All, KeyInv, TxInv, PendingInv
  <2>4. k \notin spoiled' /\ neat[k] # None => neat[k] = row[k]
    BY <2>1, <2>2 DEF KeyInv, NeatIsRow
  <2>5. NeatIsRow(k)' /\ CopyIsRow(k)'
    BY <1>1, <2>2, <2>4 DEF NeatIsRow, CopyIsRow, Baseline
  <2>6. NeatIsBase(k)'
    <3>1. CASE inTx' = FALSE
      BY <3>1 DEF NeatIsBase
    <3>2. CASE inside' = inside /\ inTx' = inTx
      BY <1>1, <2>1, <2>2, <3>2 DEF KeyInv, NeatIsBase, Undone
    <3> QED
      BY <1>1, <3>1, <3>2
  <2> QED
    BY <2>3, <2>5, <2>6 DEF KeyInv
<1> QED
  BY <1>2, <1>3 DEF Inv

\* ROLLBACK: the clean copy of what is not spoiled is the row that comes back,
\* or, without a transaction, the row that stays.
LEMMA UndoingEndStep == ASSUME Inv, EndUndoing PROVE Inv'
<1> USE RecordAssumption
<1>1. /\ cache' = All("nil") /\ pending' = All(None)
      /\ outside' = All({}) /\ inside' = All({})
      /\ inTx' = FALSE /\ row' = IF inTx THEN base ELSE row
      /\ spoiled' = spoiled \cup Forgotten(outside) \cup
           {k \in Keys : \/ {"new", "read"} \cap inside[k] # {}
                         \/ adapter = "sqlite" /\ "upd" \in inside[k]}
      /\ UNCHANGED <<adapter, base, neat, handles>>
  BY DEF EndUndoing, Forget, config
<1>2. Types'
  BY <1>1 DEF Inv, Types, All, Forgotten
<1>3. ASSUME NEW k \in Keys PROVE KeyInv(k)'
  <2>1. KeyInv(k)
    BY DEF Inv
  <2>2. /\ cache'[k] = "nil" /\ pending'[k] = None /\ inside'[k] = {}
        /\ row'[k] = IF inTx THEN base[k] ELSE row[k]
    BY <1>1 DEF All
  <2>3. k \notin spoiled' => k \notin spoiled /\ Harmless(outside[k]) /\ Undone(inside[k])
    BY <1>1 DEF Forgotten, Harmless, Undone
  <2>4. k \notin spoiled' /\ neat[k] # None => neat[k] = row'[k]
    <3>1. CASE inTx
      BY <2>1, <2>2, <2>3, <3>1 DEF KeyInv, NeatIsBase
    <3>2. CASE ~inTx
      BY <2>1, <2>2, <2>3, <3>2 DEF KeyInv, TxInv, NeatIsRow, Harmless
    <3> QED
      BY <3>1, <3>2
  <2> QED
    BY <1>1, <2>2, <2>4 DEF KeyInv, TxInv, PendingInv, NeatIsRow, NeatIsBase, CopyIsRow,
                            Baseline
<1> QED
  BY <1>2, <1>3 DEF Inv

\* The lost connection: what the transaction did not touch is as it was.
LEMMA ExecuteFailsStep == ASSUME Inv, ExecuteFails PROVE Inv'
<1>1. /\ inTx /\ row' = base /\ inTx' = FALSE /\ inside' = All({})
      /\ spoiled' = spoiled \cup {k \in Keys : inside[k] # {}}
      /\ UNCHANGED <<adapter, base, cache, neat, pending, handles, outside>>
  BY DEF ExecuteFails, config
<1>2. Types'
  BY <1>1 DEF Inv, Types, All
<1>3. ASSUME NEW k \in Keys PROVE KeyInv(k)'
  <2>1. KeyInv(k) /\ inside'[k] = {}
    BY <1>1 DEF Inv, All
  <2>2. k \notin spoiled' => k \notin spoiled /\ inside[k] = {} /\ row'[k] = row[k]
    BY <1>1, <2>1 DEF KeyInv, TxInv
  <2>3. TxInv(k)' /\ PendingInv(k)' /\ NeatIsBase(k)'
    BY <1>1, <2>1, <2>2 DEF KeyInv, TxInv, PendingInv, NeatIsBase
  <2>4. NeatIsRow(k)' /\ CopyIsRow(k)'
    BY <1>1, <2>1, <2>2 DEF KeyInv, NeatIsRow, CopyIsRow, Baseline, Harmless
  <2> QED
    BY <2>3, <2>4 DEF KeyInv
<1> QED
  BY <1>2, <1>3 DEF Inv

-----------------------------------------------------------------------------

\* Nothing is cached at the start.
LEMMA InitInv == Init => Inv
BY RecordAssumption
   DEF Init, All, Inv, Types, Change, KeyInv, TxInv, PendingInv, NeatIsRow, NeatIsBase,
       CopyIsRow, Baseline

\* Every operation keeps the invariant.
LEMMA NextInv == Inv /\ [Next]_vars => Inv'
<1> SUFFICES ASSUME Inv, [Next]_vars PROVE Inv'
  OBVIOUS
<1>1. CASE UNCHANGED vars
  <2>1. Types' /\ \A k \in Keys : Same(k)
    BY <1>1 DEF vars, config, dbVars, history, Inv, Types, Same
  <2> QED
    BY <2>1, SameKey DEF Inv
<1>2. ASSUME NEW k \in Keys, NEW v \in Values, Create(k, v) PROVE Inv'
  BY <1>2, CreateStep
<1>3. ASSUME NEW k \in Keys, NEW v \in Values, Update(k, v) PROVE Inv'
  BY <1>1, <1>3, UpdateNeatStep, UpdatePendingStep DEF Update, UpdateSame
<1>4. ASSUME NEW k \in Keys, Destroy(k) \/ FindNeat(k) PROVE Inv'
  BY <1>4, DestroyStep, FindNeatStep
<1>5. ASSUME NEW k \in Keys, Fetch(k) \/ FindRow(k) \/ Reload(k) PROVE Inv'
  BY <1>5, FetchedStep DEF Fetch, FindRow, Reload
<1>6. CASE Clear \/ BeginProduction \/ BeginTest \/ BeginNothing
  BY <1>6, ClearStep, BeginStep, BeginNothingStep
<1>7. CASE CommitProduction \/ CommitTest \/ RollbackNested
  BY <1>7, KeepingEndStep DEF CommitTest, RollbackNested
<1>8. CASE CommitFails \/ RollbackTop \/ ExecuteFails
  BY <1>8, KeepingEndStep, UndoingEndStep, ExecuteFailsStep DEF CommitFails, RollbackTop
<1> QED
  BY <1>1, <1>2, <1>3, <1>4, <1>5, <1>6, <1>7, <1>8 DEF Next

\* The invariant holds in every reachable state.
LEMMA InvHolds == Spec => []Inv
BY InitInv, NextInv, PTL DEF Spec

\* The clean copy of Adapter.neat and Adapter.pending is the row of the table,
\* through any sequence of saves, reads, begins, commits and rollbacks, nested,
\* failed or outside of a transaction, but for the keys that are spoiled.
THEOREM CleanCopyIsRowHolds == Spec => []CleanCopyIsRow
<1>1. Inv => CleanCopyIsRow
  BY DEF Inv, KeyInv, CopyIsRow, CleanCopyIsRow
<1> QED
  BY <1>1, InvHolds, PTL

\* PostgresAdapter:update leaves out no UPDATE that the row needs, for a key
\* that is not spoiled.
THEOREM SkippedSaveIsSavedHolds == Spec => []SkippedSaveIsSaved
<1>1. Inv => SkippedSaveIsSaved
  BY RecordAssumption
     DEF Inv, Types, KeyInv, PendingInv, CopyIsRow, SkippedSaveIsSaved, Unchanged, Baseline
<1> QED
  BY <1>1, InvHolds, PTL
=============================================================================
