# TLA+ models of Carmen's state storage

This directory holds TLA+ models of the parts of Carmen that the repository
ships under `src/`:

- the C++ SQLite archive of per-block updates (`src/cpp/state/archive.cc`);
- the Go index wrapper with an LRU cache (`src/go/backend/index/cache/cacheindex.go`);
- the Go MPT state adapter and its code store (`src/go/state/mpt/state.go`).

Each model has MC modules and configurations for the TLC model checker. The
inventory of parts, runs, mutants, findings and hazards is in `PROJECT.json`.
Every definition there is mapped to the source lines it models.

## The system and its parts

| Part | Source | State | Operations | Interactions |
|---|---|---|---|---|
| Archive | `archive.cc` | the SQLite tables `block`, `status`, `balance`/`code`/`nonce`, `storage`, `account_hash`; one connection `db_`, one open transaction at most; `mutation_lock_` and one lock per read statement | `Open`, `Add`, `GetLastBlockHeight`, `Exists`, `Get*`, `GetHash`, `GetAccountList`, `GetAccountHash`, `Verify`, `VerifyAccount`, `Flush`, `Close` | Block processing calls `Add` with increasing blocks; RPC readers call the getters concurrently; `Verify` recomputes the hash chain |
| Cached index | `cacheindex.go` | an LRU `common.Cache` of key → id, a wrapped `index.Index` | `GetOrAdd`, `Get`, `Contains`, `GetStateHash`, `Close` | The cache sits in front of any other index |
| MptState | `state.go` | a `LiveTrie` (not under `src/`), the map `code` (hash → bytes), the file `codes.json` | `CreateAccount`, `DeleteAccount`, `Set*`/`Get*`, `SetCode`, `Flush` (`writeCodes`, then the trie's Flush), `Close`, open (`newMptState` → `readCodes`) | Accounts live in the trie, which stores each account's code hash; the map must hold the code for every such hash |
| Schema-5 construction | `go_schema5.go` | none of its own | `newS5State`, `newGoMemoryS5State`, `newGoFileS5State`, `mptStateCapacity` | Opens a MptState and hands it to the state with an archive, or closes it again on failure |
| Directory lock, block tool | `state.go`, `tool/block.go` | a lock file | `LockDirectory`, the CLI | start-up only |

### What makes each part correct

- **Archive.** Blocks are committed in strictly increasing order.
- **Archive.** Reading at block `x` shows exactly the updates of blocks `<= x`, with deletion and creation resetting storage (spec 4.9).
- **Archive.** The stored account hash of each block equals the chain recomputed from the content, so `Verify` accepts every archive built by `Add`.
- **Archive.** A failed `Add` leaves no partial block behind.
- **Cached index.** Every id the cache returns is the one the wrapped index holds.
- **Cached index.** Ids are never handed out twice.
- **Cached index.** `Contains` answers as the wrapped index would.
- **Archive.** An `Add` that returned OK is durable across `Close` and crashes.
- **MptState.** The getters implement the State contract. After a restart they show the world as of the last `Flush` that returned.
- **MptState.** Every code hash in the trie has its code, also after a crash during a flush.
- **MptState.** Every state it leaves behind can be opened again.
- **MptState.** A `Close` that has begun returns.

## Modules

| Module | Models | Kind |
|---|---|---|
| `ArchiveHistory` | What the archive promises: `last` block and `snap[x]`, the world visible at each height; `Add(b,u)` with `b > last`. | abstract spec |
| `Archive` | `internal::Archive`: the tables as sets of row records (`db`), the committed state (`committed`), the open transaction (`txOpen`), `mutation_lock_` (`mutex`), and per writer a program counter through the statements of `Add` (`pc`, `arg`, `ret`). Readers and `Verify` are operators over the tables, translated from their SQL. | detailed spec; refines `ArchiveHistory` |
| `MC_Archive` | Model values and the seven block updates the runs enumerate. | MC module |
| `LRU` | `common.Cache` as `[order, val]`: `LruGet` promotes; `LruSet` promotes and evicts past `Capacity`. | helper (the cache is not under `src/`) |
| `IndexSpec` | An uncached index: ids `0,1,2,...` in order of first `GetOrAdd`; `Get` of an unknown key is `ErrNotFound`; `GetStateHash` commits to the keys in id order; no call follows `Close`. | abstract spec |
| `CacheIndex` | `cache.Index`: `GetOrAdd`, `Get`, `Contains`, and the delegating `GetStateHash` and `Close`, over `LRU` and an abstract wrapped index, whose calls may fail with an I/O error. | detailed spec; refines `IndexSpec` for `GetOrAdd` callers |
| `CodeFile` | The format of `codes.json`: record sizes, and `readCodes` as a recursive parser (`ParseFrom`) over a model of `bufio.Reader.Read` (`BufRead`). | operators |
| `LiveTrie` | The trie as the state uses it: per account an `AccountInfo` (balance, nonce, code hash) and its slots. An account exists iff its info is not the zero info. Writing the zero info deletes the account's storage. | helper (the trie is not under `src/`) |
| `StateSpec` | What the state promises: per account `exists`, balance, nonce, code and storage (`world`), the world as of the last flush (`saved`). Its operations are `CreateAccount`, `DeleteAccount`, `Set*`, `Flush` and `Restart`. | abstract spec |
| `MptState` | `MptState` over `LiveTrie`: every setter, `SetCode` and its failing trie write, `Flush` in three steps (`FlushCodesBegin` truncates and orders the records, `FlushCodesEnd`, `FlushTrie`), `Close` (a Flush that ends in `trie.Close`), `Crash`, `Open` (`newMptState`), and `newS5State` handing the state on (`NewS5State`) or closing it (`NewS5StateFails`). | detailed spec; refines `StateSpec` |
| `MC_MptState` | Two code hashes: the empty code and a 300-byte or a 4100-byte one. | MC module |

### How the Archive model corresponds to the code

`Add` is split at the points where another thread can act, or where a failure
can stop it:

1. `AddCall` / `AddRefused` is the height check of lines 85-90. It runs before the lock is taken.
2. `AddBegin` / `AddBeginFails` takes `mutation_lock_` and runs `BEGIN TRANSACTION`. The `BEGIN` fails if a transaction is still open.
3. `AddStep` runs one statement group per step: block, deletes, creates, fields, storage, hash.
4. `AddStepFails` models a failing statement group.
   - A failure is either a primary-key conflict or an I/O error.
   - The failing group inserts a proper subset of its rows, because `flat_hash_map` iteration order is unspecified.
   - The step then returns the error with the transaction still open, as `RETURN_IF_ERROR` does.
5. `AddCommit` is `END TRANSACTION`.

Readers on the same connection see uncommitted rows. The refinement mapping
therefore maps only `committed` to the abstract history, and `VerifySucceeds`
checks the committed tables. `CommittedReadsStable` then relates the two: at
every committed height, the getters over `db` return what they return over
`committed`. Only the unlocked height check of lines 85-90 keeps the rows of
an `Add` in flight, or of a failed one, above every committed height.

`Close`, `Open` and `Crash` model the end of a connection:

- `Close` is `Archive::Close`. It runs only while no `Add` is in flight, as its comment requires (line 535). SQLite rolls back a transaction that is still open when the connection closes, so `db` falls back to `committed`. This is the only way out of a transaction that a failed statement left open.
- `Crash` kills the process at any point of an `Add`. The database file keeps what `END TRANSACTION` committed.
- `Open` reopens the same file.
- `AddClosed` is an `Add` on a closed archive, refused by `CheckState`.

### How the MptState model corresponds to the code

- The state's calls are sequential. `phase` says where `Flush`, `Close` and reopening stand: `idle`, `codes`, `trie`, `restart`, `opened` or `failed`.
- `closing` marks a Flush that is the first half of `Close`. `FlushTrie` then closes the trie, and the state is gone until `Open`.
- `Open` leads to `opened`. There, `newS5State` either hands the state on (`idle`) or closes it, which rewrites `codes.json` and flushes the trie during an open that fails.
- `trieDurable` is the trie as of its last `Flush`. The trie is assumed to reopen as of its last `Flush`. This is the contract of `LiveTrie`, which is not under `src/`.
- `disk` is `codes.json` as its records and the number of bytes on disk.
- `Open` runs `readCodes` on `disk`. An error makes the open fail (`phase = "failed"`).
- `CrashPoints` names the phases in which the process may die.
- `saved` is a history variable: what the getters showed at the last `Flush` that returned.
- The refinement maps `world` to the getters' view `View(trie, code)`. The abstract `Restart` is the concrete `Open`.

### Abstractions

- Hashes are modelled as the injective function `Sha(h, d) = <<h, d>>`.
- Balances, nonces, codes and slot values are values from a small set.
- A code is its hash and its length, because the parser only counts bytes.
- The trie is abstracted to the functions its getters and setters compute (`LiveTrie`). Its nodes, hashing and paging are outside this model.

## Runs

| Run | Config | Expect | What it shows |
|---|---|---|---|
| archive | `MC_Archive.cfg` | pass | The run has one writer whose statements may fail (1 I/O failure) and up to two `Close`/reopen or crash steps. In it, what the getters read through the connection at a committed height equals the durable tables, whatever rows an `Add` in flight or a failed `Add` has inserted (`CommittedReadsStable`); every committed block of the durable tables verifies (`VerifySucceeds`); and those tables implement `ArchiveHistory` (`RefinesHistory`). |
| archive_concurrent_add | `MC_Archive_ConcurrentAdd.cfg` | violation | Two writers: both pass the unlocked height check, so block 0 is committed after block 1. |
| archive_failed_add | `MC_Archive_FailedAdd.cfg` | violation | A failed statement leaves the transaction open; every later `BEGIN` fails. |
| archive_reincarnation | `MC_Archive_Reincarnation.cfg` | violation | A slot written before an account's first status row survives its creation: the creation gets reincarnation `IFNULL(MAX+1,0) = 0`. |
| cacheindex_types | `MC_CacheIndex_Types.cfg` | pass | With every call, and a failing wrapped index, the cache stays within capacity and ids within range. `Close` ends the index, so this cfg turns deadlock checking off. |
| cacheindex_getoradd | `MC_CacheIndex_GetOrAdd.cfg` | pass | Callers of `GetOrAdd`, `GetStateHash` and `Close` see an uncached index (refinement of `IndexSpec`) across evictions. Deadlock checking is off, as `Close` ends the index. |
| cacheindex_get_missing | `MC_CacheIndex_GetMissing.cfg` | violation | `Get` of an unknown key caches id 0; a later `GetOrAdd` returns that id, which belongs to another key. |
| cacheindex_contains_miss | `MC_CacheIndex_ContainsMiss.cfg` | violation | `Contains` of an evicted known key returns false. |
| cacheindex_io_error | `MC_CacheIndex_IoError.cfg` | violation | A failed wrapped `GetOrAdd` caches id 0, which is served later without error. |
| mptstate | `MC_MptState.cfg` | pass | The run allows every setter, a failing trie write in `SetCode`, `Flush`, `Close`, reopening, a failing schema-5 construction, and a crash when idle or between `writeCodes` and the trie's `Flush`. In it, the getters refine `StateSpec` (`RefinesState`), every code hash has its code (`CodesPresent`), and every state left behind reopens (`ReopenSucceeds`). |
| mptstate_large_code | `MC_MptState_LargeCode.cfg` | violation | A 4100-byte code is read short by one `bufio.Reader.Read`, so `readCodes` reports corruption and the state cannot be reopened. |
| mptstate_crash_in_write | `MC_MptState_CrashInWrite.cfg` | violation | A crash right after `os.Create` truncated `codes.json` reopens with no codes and no error, while the durable trie still refers to the code. |

Each property of a passing run has a mutant in `PROJECT.json`: a plausible bug
in the mapped definition that TLC catches under that run's configuration.

## Bounds and why they suffice

**Archive**

- Two accounts, one slot key, blocks `0..2`.
- Seven updates that cover the behaviours that matter:
  - creation with a balance and a slot;
  - writes to an existing account;
  - deletion;
  - re-creation with code;
  - storage of an account that has no status row;
  - deletion of a second account.
- Three blocks allow two successive blocks after an empty one, which is enough for the hash chain and for reincarnation to build on earlier blocks.
- Two writers are the fewest that show the race.

**Cached index**

- Three or four keys over a capacity of two, so evictions and re-adds of evicted keys happen.

- Up to two `Close`/reopen or crash steps, so a failed `Add`, the rollback, and a second round of adds after reopening all happen.

**MptState**

- One account, one slot key, values `{0, 1}`, and two codes: the empty code (length 0) and one of 300 bytes.
  - A second account multiplies the states past what the refinement check finishes in minutes.
  - Every operation acts on one account, and the properties are per account, so one account shows each of them.
- One crash and one failing trie write.
- The buffer has its real size, 4096 bytes. The large-code run uses one code of 4100 bytes, the smallest kind of record that straddles the buffer.

## Fairness

Every property is a safety property, including the refinements with `[][Next]_v`, and no run assumes fairness.

- `MptState.Close` is straight-line code: `errors.Join` always evaluates both the `Flush` and the trie's `Close`, and nothing in it waits. That it returns would follow from fairness of its own two steps alone, so no liveness property is stated for it.
- The archive's single modelled writer never waits on anyone. Two writers would need a fair `absl::Mutex`, which absl does not promise.
- The cached index has no waiting at all.

## Not modelled, and planned next

- Archive `Close` racing `GetHash`/`GetAccountList`/`Verify`, which use `db_` without a lock. The readers are operators, not threads, and `Close` waits for idle writers, as its comment requires.
- The `static_cast<int>(block)` truncation above 2^31.
- Opening and closing the `LiveTrie` itself. `OpenGoFileState` leaves the trie open when `readCodes` then fails. That leak is listed as a hazard. The model records only that the open failed.
- Write errors of `codes.json`. After one, `errors.Join` still flushes the trie. The file is already truncated by then, so the loss is the one the crash run shows.
- `LockDirectory`: a single create-exclusive file, whose stale lock after a crash is listed as a hazard.
- Of the schema-5 construction:
  - `mptStateCapacity` sizes the trie's node cache, which is not modelled.
  - The `newGo*S5State` functions only chain the open with `newS5State`.
  - `go_schema5.go` passes a capacity to `mpt.OpenGoMemoryState`/`OpenGoFileState`, which `state.go` declares with two parameters. The model follows `state.go`.
- The block CLI. `diffToUpdate` converts an `mpt.Diff`, which is not under `src/`, into an update, and prints it.
- Tests and benchmarks.
- Forest, page pool, stock and node cache: these are not part of `src/`.
