------------------------------ MODULE Archive -------------------------------
(***************************************************************************)
(* The SQLite-backed archive of src/cpp/state/archive.cc.                  *)
(*                                                                         *)
(* The database is a record of tables, each a set of rows; a row is a      *)
(* record with the columns of its table.  All statements run on one        *)
(* connection, so every query sees the rows of an open transaction (db);   *)
(* `committed` is what END TRANSACTION made durable.  Add is executed by   *)
(* writer threads, one step per SQL statement loop, in the order of the    *)
(* code; the mutation lock is held from BEGIN to the return.  Queries are  *)
(* operators over a database value.  A SHA-256 hash is modelled by what it *)
(* does for this code, an injective function: Sha(h, d) = <<h, d>>.       *)
(***************************************************************************)
EXTENDS Integers, Sequences, FiniteSets, SequencesExt, FiniteSetsExt

CONSTANTS
    Accounts,          \* account addresses, naturals so ORDER BY applies
    Keys,              \* storage slot keys
    Fields,            \* the tables balance, nonce and code
    Vals,              \* values written to fields and slots
    Zero,              \* the zero value returned for missing rows
    MaxBlock,          \* block numbers are 0 .. MaxBlock
    Updates,           \* the updates callers pass to Add
    Writers,           \* threads calling Add
    NoWriter,          \* the mutation lock is free
    MaxFailures,       \* bound on SQL statements failing with an I/O error
    MaxRestarts,       \* bound on Close/crash followed by Open
    StorageAfterCreate \* callers write a slot only of an account with a status row

VARIABLES
    db,        \* the tables as seen by the connection (uncommitted rows too)
    committed, \* the tables as of the last END TRANSACTION
    txOpen,    \* a BEGIN TRANSACTION has not been ended
    mutex,     \* holder of mutation_lock_
    pc,        \* per writer: where in Add it is
    arg,       \* per writer: the block and update of its Add call
    ret,       \* per writer: the status its last Add call returned
    failures,  \* number of injected statement failures so far
    open,      \* Archive::impl_ is set: the database is open
    restarts   \* number of Close or crash steps so far

vars == <<db, committed, txOpen, mutex, pc, arg, ret, failures, open, restarts>>

Heights == 0 .. MaxBlock

Tables == {"blocks", "status", "field", "storage", "hash"}

EmptyDb == [t \in Tables |-> {}]

ZeroHash == <<>>

Sha(h, d) == <<h, d>>

-----------------------------------------------------------------------------
(* Updates and their per-account diffs (AccountUpdate::From, GetHash).     *)

UpdateType == [deleted : SUBSET Accounts, created : SUBSET Accounts,
               fields  : SUBSET (Fields \X Accounts \X Vals),
               storage : SUBSET (Accounts \X Keys \X Vals)]

Touched(u) == u.deleted \cup u.created \cup {t[2] : t \in u.fields}
                \cup {t[1] : t \in u.storage}

DiffOf(u, a) ==
    [deleted |-> a \in u.deleted,
     created |-> a \in u.created,
     fields  |-> {<<t[1], t[3]>> : t \in {s \in u.fields : s[2] = a}},
     storage |-> {<<t[2], t[3]>> : t \in {s \in u.storage : s[1] = a}}]

-----------------------------------------------------------------------------
(* Queries: "SELECT ... WHERE account = ? AND block <= ? ORDER BY block    *)
(* DESC LIMIT 1" is the latest row at or below the block.                  *)

Latest(rows) == CHOOSE r \in rows : \A s \in rows : s.block <= r.block

RowsOf(d, tbl, a, b) == {r \in d[tbl] : r.account = a /\ r.block <= b}

LastBlockHeight(d) == IF d.blocks = {} THEN -1 ELSE Max(d.blocks)

Exists(d, b, a) ==
    LET R == RowsOf(d, "status", a, b) IN R # {} /\ Latest(R).exist = 1

GetField(d, f, b, a) ==
    LET R == {r \in RowsOf(d, "field", a, b) : r.field = f}
    IN IF R = {} THEN Zero ELSE Latest(R).value

(* IFNULL(MAX(reincarnation),0) FROM status WHERE account = ? AND block <= ? *)
Reincarnation(d, a, b) ==
    LET R == RowsOf(d, "status", a, b)
    IN IF R = {} THEN 0 ELSE Max({r.reinc : r \in R})

(* Mutants of NewReincarnation: the +1 dropped, or typed as -1.           *)
NewReincarnationNoIncrement(d, a) ==
    LET R == {r \in d.status : r.account = a}
    IN IF R = {} THEN 0 ELSE Max({r.reinc : r \in R})

NewReincarnationDecrement(d, a) ==
    LET R == {r \in d.status : r.account = a}
    IN IF R = {} THEN 0 ELSE Max({r.reinc : r \in R}) - 1

(* IFNULL(MAX(reincarnation)+1,0) FROM status WHERE account = ?            *)
NewReincarnation(d, a) ==
    LET R == {r \in d.status : r.account = a}
    IN IF R = {} THEN 0 ELSE Max({r.reinc : r \in R}) + 1

GetStorage(d, b, a, k) ==
    LET R == {r \in RowsOf(d, "storage", a, b) :
                r.reinc = Reincarnation(d, a, b) /\ r.slot = k}
    IN IF R = {} THEN Zero ELSE Latest(R).value

GetAccountHash(d, b, a) ==
    LET R == RowsOf(d, "hash", a, b) IN IF R = {} THEN ZeroHash ELSE Latest(R).hash

GetAccountList(d, b) == {r.account : r \in {s \in d.hash : s.block <= b}}

(* SHA-256 streamed over each account's latest hash, ordered by account.   *)
GetHash(d, b) ==
    LET order == SetToSortSeq(GetAccountList(d, b), <)
    IN [i \in DOMAIN order |-> GetAccountHash(d, b, order[i])]

-----------------------------------------------------------------------------
(* Verify and VerifyAccount: replay every account's rows block by block,   *)
(* recompute its hash chain and compare it with the stored one.            *)

(* The AccountUpdate rebuilt from the rows of account a at block x.        *)
Rebuild(d, a, x) ==
    LET At(tbl) == {r \in d[tbl] : r.account = a /\ r.block = x}
    IN [deleted |-> \E r \in At("status") : r.exist = 0,
        created |-> \E r \in At("status") : r.exist = 1,
        fields  |-> {<<r.field, r.value>> : r \in At("field")},
        storage |-> {<<r.slot, r.value>> : r \in At("storage")}]

ContentTables == {"status", "field", "storage"}

VerifyAccount(d, b, a) ==
    LET content == SetToSortSeq(UNION {{r.block : r \in RowsOf(d, t, a, b)} :
                                        t \in ContentTables}, <)
        hashed  == SetToSortSeq({r.block : r \in RowsOf(d, "hash", a, b)}, <)
        Chain(i) == FoldLeft(LAMBDA h, x : Sha(h, Rebuild(d, a, x)), ZeroHash,
                             SubSeq(content, 1, i))
    IN /\ hashed = content
       /\ \A i \in DOMAIN content :
            GetAccountHash(d, content[i], a) = Chain(i)

Verify(d, b, expected) ==
    /\ GetHash(d, b) = expected
    /\ \A a \in GetAccountList(d, b) : VerifyAccount(d, b, a)
    /\ \A t \in ContentTables :
         {r.account : r \in {s \in d[t] : s.block <= b}} \subseteq GetAccountList(d, b)

-----------------------------------------------------------------------------
(* The statements of Add, in the order the code runs them.  Each step     *)
(* inserts the rows of one statement loop into one table.                  *)

AddSteps == <<"block", "delete", "create", "field", "storage", "hash", "end">>

StepTable == [block |-> "blocks", delete |-> "status", create |-> "status",
              field |-> "field", storage |-> "storage", hash |-> "hash",
              end |-> "blocks"]

NextStep(s) ==
    LET i == CHOOSE j \in 1 .. Len(AddSteps) - 1 : AddSteps[j] = s IN AddSteps[i + 1]

StatusRows(d, b, accounts, exist) ==
    {[account |-> a, block |-> b, exist |-> exist,
      reinc |-> NewReincarnation(d, a)] : a \in accounts}

FieldRows(b, u) ==
    {[field |-> t[1], account |-> t[2], block |-> b, value |-> t[3]] : t \in u.fields}

StorageRows(d, b, u) ==
    {[account |-> t[1], reinc |-> Reincarnation(d, t[1], b), slot |-> t[2],
      block |-> b, value |-> t[3]] : t \in u.storage}

(* Mutant of AccountHashRows: the diff hash stored without chaining it on *)
(* the account's previous hash.                                            *)
AccountHashRowsUnchained(d, b, u) ==
    {[account |-> a, block |-> b, hash |-> Sha(ZeroHash, DiffOf(u, a))] : a \in Touched(u)}

AccountHashRows(d, b, u) ==
    {[account |-> a, block |-> b,
      hash |-> Sha(GetAccountHash(d, b, a), DiffOf(u, a))] : a \in Touched(u)}

StepRows(s, d, b, u) ==
    CASE s = "block"   -> {b}
      [] s = "delete"  -> StatusRows(d, b, u.deleted, 0)
      [] s = "create"  -> StatusRows(d, b, u.created, 1)
      [] s = "field"   -> FieldRows(b, u)
      [] s = "storage" -> StorageRows(d, b, u)
      [] s = "hash"    -> AccountHashRows(d, b, u)
      [] s = "end"     -> {}

(* The PRIMARY KEY of each table.                                          *)
PrimaryKey(tbl, r) ==
    CASE tbl = "blocks"  -> r
      [] tbl = "status"  -> <<r.account, r.block>>
      [] tbl = "field"   -> <<r.field, r.account, r.block>>
      [] tbl = "storage" -> <<r.account, r.reinc, r.slot, r.block>>
      [] tbl = "hash"    -> <<r.account, r.block>>

Violates(d, tbl, r) == \E s \in d[tbl] : PrimaryKey(tbl, s) = PrimaryKey(tbl, r)

Insert(d, tbl, rows) == [d EXCEPT ![tbl] = @ \cup rows]

-----------------------------------------------------------------------------
(* Writer threads executing Add(block, update).                            *)

Idle == "idle"

(* The caller contract of the passing runs: a slot is written only for an *)
(* account that already has a status row or is created by the update.      *)
CallerMayAdd(u) ==
    StorageAfterCreate =>
        \A t \in u.storage : t[1] \in u.created \/ \E r \in db.status : r.account = t[1]

(* Return from Add: the MutexLock guard releases the mutation lock.  No    *)
(* path of Add ends an open transaction except the final END.              *)
Return(w, status) ==
    /\ pc' = [pc EXCEPT ![w] = Idle]
    /\ ret' = [ret EXCEPT ![w] = status]
    /\ mutex' = NoWriter
    /\ UNCHANGED <<open, restarts>>

(* Lines 85-96: GetLastBlockHeight under its own lock, before the mutation *)
(* lock is taken; an older block is refused.                               *)
AddRefused(w, b, u) ==
    /\ pc[w] = Idle /\ open
    /\ CallerMayAdd(u)
    /\ LastBlockHeight(db) >= 0 /\ LastBlockHeight(db) >= b
    /\ ret' = [ret EXCEPT ![w] = "error"]
    /\ UNCHANGED <<db, committed, txOpen, mutex, pc, arg, failures, open, restarts>>

(* Mutant of AddCall: the height check of lines 85-90 dropped.            *)
AddCallUnchecked(w, b, u) ==
    /\ pc[w] = Idle /\ open
    /\ CallerMayAdd(u)
    /\ pc' = [pc EXCEPT ![w] = "lock"]
    /\ arg' = [arg EXCEPT ![w] = [block |-> b, update |-> u]]
    /\ ret' = [ret EXCEPT ![w] = "none"]
    /\ UNCHANGED <<db, committed, txOpen, mutex, failures, open, restarts>>

AddCall(w, b, u) ==
    /\ pc[w] = Idle /\ open
    /\ CallerMayAdd(u)
    /\ ~(LastBlockHeight(db) >= 0 /\ LastBlockHeight(db) >= b)
    /\ pc' = [pc EXCEPT ![w] = "lock"]
    /\ arg' = [arg EXCEPT ![w] = [block |-> b, update |-> u]]
    /\ ret' = [ret EXCEPT ![w] = "none"]
    /\ UNCHANGED <<db, committed, txOpen, mutex, failures, open, restarts>>

(* Lines 99-101: take the mutation lock and run BEGIN TRANSACTION, which   *)
(* SQLite refuses while a transaction is still open.                       *)
AddBegin(w) ==
    /\ pc[w] = "lock" /\ mutex = NoWriter /\ ~txOpen
    /\ mutex' = w
    /\ txOpen' = TRUE
    /\ pc' = [pc EXCEPT ![w] = "block"]
    /\ UNCHANGED <<db, committed, arg, ret, failures, open, restarts>>

AddBeginFails(w) ==
    /\ pc[w] = "lock" /\ mutex = NoWriter /\ txOpen
    /\ Return(w, "error")
    /\ UNCHANGED <<db, committed, txOpen, arg, failures>>

(* Lines 103-166: one statement loop; every row goes in.                   *)
AddStep(w) ==
    LET s    == pc[w]
        rows == StepRows(s, db, arg[w].block, arg[w].update)
    IN /\ mutex = w /\ s \notin {"lock", "end", Idle}
       /\ \A r \in rows : ~Violates(db, StepTable[s], r)
       /\ db' = Insert(db, StepTable[s], rows)
       /\ pc' = [pc EXCEPT ![w] = NextStep(s)]
       /\ UNCHANGED <<committed, txOpen, mutex, arg, ret, failures, open, restarts>>

(* A statement of the loop fails, on a PRIMARY KEY conflict or an I/O      *)
(* error, after the loop inserted the rows it visited first (hash-map      *)
(* order: any subset).  RETURN_IF_ERROR returns with the transaction open. *)
AddStepFails(w) ==
    LET s    == pc[w]
        rows == StepRows(s, db, arg[w].block, arg[w].update)
        ok   == {r \in rows : ~Violates(db, StepTable[s], r)}
    IN /\ mutex = w /\ s \notin {"lock", Idle}
       /\ \/ /\ ok # rows
             /\ UNCHANGED failures
          \/ /\ failures < MaxFailures
             /\ failures' = failures + 1
       /\ \E done \in SUBSET ok :
            /\ rows # {} => done # rows
            /\ db' = Insert(db, StepTable[s], done)
       /\ Return(w, "error")
       /\ UNCHANGED <<committed, txOpen, arg>>

(* Line 168: END TRANSACTION makes the rows durable.                       *)
AddCommit(w) ==
    /\ mutex = w /\ pc[w] = "end"
    /\ committed' = db
    /\ txOpen' = FALSE
    /\ Return(w, "ok")
    /\ UNCHANGED <<db, arg, failures>>

(* Archive::Add on a closed archive: CheckState (lines 860-863) fails.    *)
AddClosed(w) ==
    /\ pc[w] = Idle /\ ~open
    /\ ret' = [ret EXCEPT ![w] = "error"]
    /\ UNCHANGED <<db, committed, txOpen, mutex, pc, arg, failures, open, restarts>>

(* Archive::Close: internal Close finalizes every statement under its     *)
(* lock, then db_.Close(); SQLite rolls back a transaction still open on  *)
(* the connection; impl_ is reset.  By its comment no other operation may *)
(* run during Close (not checked), so every writer is idle.                *)
Close ==
    /\ open /\ \A w \in Writers : pc[w] = Idle
    /\ restarts < MaxRestarts
    /\ open' = FALSE /\ restarts' = restarts + 1
    /\ db' = committed /\ txOpen' = FALSE
    /\ UNCHANGED <<committed, mutex, pc, arg, ret, failures>>

(* The process dies at any point of any Add; SQLite's journal keeps what  *)
(* END TRANSACTION committed and nothing else.                             *)
Crash ==
    /\ open /\ restarts < MaxRestarts
    /\ open' = FALSE /\ restarts' = restarts + 1
    /\ db' = committed /\ txOpen' = FALSE /\ mutex' = NoWriter
    /\ pc' = [w \in Writers |-> Idle]
    /\ UNCHANGED <<committed, arg, ret, failures>>

(* Archive::Open on the same file: the CREATE TABLE IF NOT EXISTS          *)
(* statements keep the rows, the statements are prepared again.            *)
Open ==
    /\ ~open
    /\ open' = TRUE
    /\ UNCHANGED <<db, committed, txOpen, mutex, pc, arg, ret, failures, restarts>>

Init ==
    /\ db = EmptyDb
    /\ committed = EmptyDb
    /\ txOpen = FALSE
    /\ mutex = NoWriter
    /\ pc = [w \in Writers |-> Idle]
    /\ arg = [w \in Writers |-> [block |-> 0, update |-> CHOOSE u \in Updates : TRUE]]
    /\ ret = [w \in Writers |-> "none"]
    /\ failures = 0
    /\ open = TRUE /\ restarts = 0

Next ==
    \E w \in Writers :
        \/ \E b \in Heights, u \in Updates : AddRefused(w, b, u) \/ AddCall(w, b, u)
        \/ AddBegin(w) \/ AddBeginFails(w)
        \/ AddStep(w) \/ AddStepFails(w) \/ AddCommit(w)
        \/ AddClosed(w)
    \/ Close \/ Crash \/ Open

Spec == Init /\ [][Next]_vars

-----------------------------------------------------------------------------
(* Properties.                                                             *)

TypeOK ==
    /\ db.blocks \subseteq Heights /\ committed.blocks \subseteq Heights
    /\ \A r \in db.status : r.exist \in {0, 1} /\ r.reinc \in Nat
    /\ \A r \in db.storage : r.reinc \in Nat /\ r.slot \in Keys
    /\ txOpen \in BOOLEAN
    /\ mutex \in Writers \cup {NoWriter}
    /\ pc \in [Writers -> {Idle, "lock"} \cup {AddSteps[i] : i \in 1 .. Len(AddSteps)}]
    /\ ret \in [Writers -> {"none", "ok", "error"}]
    /\ failures \in 0 .. MaxFailures
    /\ open \in BOOLEAN /\ restarts \in 0 .. MaxRestarts

(* The durable archive implements ArchiveHistory: what Exists, GetBalance, *)
(* GetNonce, GetCode and GetStorage return at each height is the world     *)
(* state reached by applying the added updates in block order, and a       *)
(* commit only adds a block newer than all before it.                      *)
WorldAt(d, x) ==
    [exists  |-> [a \in Accounts |-> Exists(d, x, a)],
     field   |-> [f \in Fields |-> [a \in Accounts |-> GetField(d, f, x, a)]],
     storage |-> [a \in Accounts |-> [k \in Keys |-> GetStorage(d, x, a, k)]]]

History == INSTANCE ArchiveHistory
    WITH last <- LastBlockHeight(committed),
         snap <- [x \in Heights |-> WorldAt(committed, x)]

RefinesHistory == History!Spec

(* Spec 8.7: Verify(b, GetHash(b)) succeeds for every block added: every   *)
(* account's stored hash chain equals the chain recomputed from its rows,  *)
(* which needs Add's hash step to chain on the right previous hash and     *)
(* every content row to be covered by a hash row.  It is checked on the   *)
(* durable tables; CommittedReadsStable relates them to the connection.    *)
VerifySucceeds ==
    \A b \in Heights : b <= LastBlockHeight(committed) =>
        Verify(committed, b, GetHash(committed, b))

(* Spec 5: Add strictly increases the latest-block watermark: a block is   *)
(* committed only if it is newer than every block committed before.        *)
BlocksCommittedInOrder ==
    [][committed' # committed =>
         \A b \in committed'.blocks \ committed.blocks :
            \A c \in committed.blocks : c < b]_vars

(* The getters (lines 183-272) run on the connection that holds Add's     *)
(* open transaction, so they see its rows.  Spec 5: once Add(b, u) has     *)
(* returned, Get*(b, ...) reflects u at every later time: what Exists,     *)
(* GetBalance, GetNonce, GetCode and GetStorage return at a committed      *)
(* height is not changed by the rows of an Add in flight, or of a failed   *)
(* one that left its transaction open.                                     *)
CommittedReadsStable ==
    \A x \in Heights : x <= LastBlockHeight(committed) => WorldAt(db, x) = WorldAt(committed, x)

(* Spec 4.9/7: Add runs as one transaction and a failed one rolls back: *)
(* once no Add is running, no transaction is left open.                    *)
NoTransactionLeftOpen ==
    (\A w \in Writers : pc[w] = Idle) => ~txOpen

=============================================================================
