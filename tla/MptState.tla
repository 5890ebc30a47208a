------------------------------ MODULE MptState ------------------------------
(***************************************************************************)
(* MptState (src/go/state/mpt/state.go): the adapter between a LiveTrie   *)
(* and Carmen's State interface, together with its content-addressed code *)
(* map and the file codes.json that keeps it.  Calls are sequential (the  *)
(* state is used by one goroutine); Flush is writeCodes followed by the   *)
(* trie's Flush, and the process may crash between any two steps and be   *)
(* restarted, reopening the trie as of its last Flush and the code map    *)
(* from codes.json (newMptState -> readCodes).  The opened state is handed *)
(* to newS5State (src/go/state/go_schema5.go), which closes it again when  *)
(* the archive cannot be opened.                                           *)
(***************************************************************************)
EXTENDS CodeFile

CONSTANTS
    Accounts, Keys,
    Vals,           \* balances, nonces and slot values; 0 is the zero value
    NoHash,         \* the zero hash of AccountInfo{}
    EmptyCodeHash,  \* emptyCodeHash, the hash of the empty code (in Hashes)
    CrashPoints,    \* the phases in which the process may crash
    MaxCrashes,     \* bound on crashes
    MaxTrieErrors   \* bound on failing trie writes

LOCAL INSTANCE LiveTrie

VARIABLES
    trie,         \* the live trie as the process sees it
    trieDurable,  \* the trie as of its last completed Flush
    code,         \* hashes of the codes in s.code
    disk,         \* codes.json: [stream: records in write order, size: bytes]
    phase,        \* "idle", "codes" (in writeCodes), "trie" (codes written,
                  \* trie.Flush pending), "restart", "opened" (newMptState
                  \* returned, newS5State pending), "failed"
    closing,      \* the Flush in progress is the first half of Close
    crashes, trieErrors,
    saved         \* history: what the getters showed at the last Flush

vars == <<trie, trieDurable, code, disk, phase, closing, crashes, trieErrors, saved>>

-----------------------------------------------------------------------------
(* The getters.  A nil code from the map reads as the empty code.          *)

Exists(t, a) == InfoExists(t, a)

GetBalance(t, a) == IF InfoExists(t, a) THEN GetAccountInfo(t, a).balance ELSE 0

GetNonce(t, a) == GetAccountInfo(t, a).nonce

GetStorage(t, a, k) == GetValue(t, a, k)

GetCode(t, c, a) ==
    LET h == GetAccountInfo(t, a).codeHash
    IN IF InfoExists(t, a) /\ h \in c THEN h ELSE EmptyCodeHash

GetCodeHash(t, a) ==
    IF InfoExists(t, a) THEN GetAccountInfo(t, a).codeHash ELSE EmptyCodeHash

View(t, c) ==
    [a \in Accounts |->
        [exists  |-> Exists(t, a),     balance |-> GetBalance(t, a),
         nonce   |-> GetNonce(t, a),   code    |-> GetCode(t, c, a),
         storage |-> [k \in Keys |-> GetStorage(t, a, k)]]]

-----------------------------------------------------------------------------
Init ==
    /\ trie = EmptyTrie /\ trieDurable = EmptyTrie
    /\ code = {}
    /\ disk = [stream |-> <<>>, size |-> 0]
    /\ phase = "restart" /\ closing = FALSE
    /\ crashes = 0 /\ trieErrors = 0
    /\ saved = View(EmptyTrie, {})

TrieWrite(t) ==
    /\ phase = "idle"
    /\ trie' = t
    /\ UNCHANGED <<trieDurable, code, disk, phase, closing, crashes, trieErrors, saved>>

(* Mutant of CreateAccount: the existence check dropped.                  *)
CreateAccountResets(a) ==
    TrieWrite(SetAccountInfo(trie, a, [ZeroInfo EXCEPT !.codeHash = EmptyCodeHash]))

CreateAccount(a) ==
    TrieWrite(IF InfoExists(trie, a) THEN ClearStorage(trie, a)
              ELSE SetAccountInfo(trie, a, [ZeroInfo EXCEPT !.codeHash = EmptyCodeHash]))

DeleteAccount(a) == TrieWrite(SetAccountInfo(trie, a, ZeroInfo))

(* Mutant of SetBalance: an account created by it gets no code hash.      *)
SetBalanceNoCodeHash(a, v) ==
    LET info == GetAccountInfo(trie, a)
    IN /\ info.balance # v
       /\ TrieWrite(SetAccountInfo(trie, a, [info EXCEPT !.balance = v]))

(* SetBalance and SetNonce: an unchanged value is not written; a write to *)
(* an account that does not exist gives it the empty code's hash.         *)
SetBalance(a, v) ==
    LET info == GetAccountInfo(trie, a)
    IN /\ info.balance # v
       /\ TrieWrite(SetAccountInfo(trie, a,
             [info EXCEPT !.balance = v,
                          !.codeHash = IF InfoExists(trie, a) THEN @ ELSE EmptyCodeHash]))

SetNonce(a, v) ==
    LET info == GetAccountInfo(trie, a)
    IN /\ info.nonce # v
       /\ TrieWrite(SetAccountInfo(trie, a,
             [info EXCEPT !.nonce = v,
                          !.codeHash = IF InfoExists(trie, a) THEN @ ELSE EmptyCodeHash]))

SetStorage(a, k, v) == TrieWrite(SetValue(trie, a, k, v))

(* SetCode: the early returns, then s.code[codeHash] = code, then the     *)
(* trie write, which may fail and leave the code in the map.              *)
SetCodeProceeds(a, h) ==
    /\ phase = "idle"
    /\ ~(~InfoExists(trie, a) /\ h = EmptyCodeHash)
    /\ GetAccountInfo(trie, a).codeHash # h

SetCode(a, h) ==
    /\ SetCodeProceeds(a, h)
    /\ code' = code \cup {h}
    /\ trie' = SetAccountInfo(trie, a, [GetAccountInfo(trie, a) EXCEPT !.codeHash = h])
    /\ UNCHANGED <<trieDurable, disk, phase, closing, crashes, trieErrors, saved>>

SetCodeTrieFails(a, h) ==
    /\ SetCodeProceeds(a, h)
    /\ trieErrors < MaxTrieErrors
    /\ trieErrors' = trieErrors + 1
    /\ code' = code \cup {h}
    /\ UNCHANGED <<trie, trieDurable, disk, phase, closing, crashes, saved>>

(* Flush, first writeCodes: os.Create truncates codes.json, the records   *)
(* follow in map iteration order, which is any order.  isClose says       *)
(* whether this Flush is the one Close runs.                               *)
WriteCodesBegin(isClose) ==
    /\ \E order \in SetToSeqs(code) : disk' = [stream |-> order, size |-> 0]
    /\ phase' = "codes" /\ closing' = isClose
    /\ UNCHANGED <<trie, trieDurable, code, crashes, trieErrors, saved>>

FlushCodesBegin == phase = "idle" /\ WriteCodesBegin(FALSE)

(* Close: errors.Join(s.Flush(), s.trie.Close()).                          *)
Close == phase = "idle" /\ WriteCodesBegin(TRUE)

FlushCodesEnd ==
    /\ phase = "codes"
    /\ disk' = [disk EXCEPT !.size = StreamSize(disk.stream)]
    /\ phase' = "trie"
    /\ UNCHANGED <<trie, trieDurable, code, closing, crashes, trieErrors, saved>>

(* Then the trie's Flush; Flush returns, and in Close trie.Close follows,  *)
(* after which the state is gone until it is opened again.                 *)
FlushTrie ==
    /\ phase = "trie"
    /\ trieDurable' = trie
    /\ saved' = View(trie, code)
    /\ phase' = IF closing THEN "restart" ELSE "idle"
    /\ closing' = FALSE
    /\ UNCHANGED <<trie, code, disk, crashes, trieErrors>>

Crash ==
    /\ phase \in CrashPoints
    /\ crashes < MaxCrashes
    /\ crashes' = crashes + 1
    /\ phase' = "restart" /\ closing' = FALSE
    /\ UNCHANGED <<trie, trieDurable, code, disk, trieErrors, saved>>

(* newMptState: the trie reopens as last flushed, readCodes fills s.code; *)
(* an error of readCodes fails the open.                                   *)
Open ==
    /\ phase = "restart"
    /\ LET r == ReadCodes(disk)
       IN IF r.status = "ok"
          THEN phase' = "opened" /\ code' = r.codes /\ trie' = trieDurable
          ELSE phase' = "failed" /\ UNCHANGED <<code, trie>>
    /\ UNCHANGED <<trieDurable, disk, closing, crashes, trieErrors, saved>>

(* newS5State: the state goes to the caller, or, when the archive cannot   *)
(* be opened (or the configuration asks for the S4 archive), it is closed  *)
(* with state.Close() and the construction fails.                          *)
NewS5State ==
    /\ phase = "opened"
    /\ phase' = "idle"
    /\ UNCHANGED <<trie, trieDurable, code, disk, closing, crashes, trieErrors, saved>>

NewS5StateFails == phase = "opened" /\ WriteCodesBegin(TRUE)

Next ==
    \/ \E a \in Accounts :
         \/ CreateAccount(a) \/ DeleteAccount(a)
         \/ \E v \in Vals : SetBalance(a, v) \/ SetNonce(a, v)
         \/ \E k \in Keys, v \in Vals : SetStorage(a, k, v)
         \/ \E h \in Hashes : SetCode(a, h) \/ SetCodeTrieFails(a, h)
    \/ FlushCodesBegin \/ FlushCodesEnd \/ FlushTrie
    \/ Close \/ Crash \/ Open \/ NewS5State \/ NewS5StateFails

Spec == Init /\ [][Next]_vars

-----------------------------------------------------------------------------
(* GetCode and GetCodeHash agree: every existing account's code hash has   *)
(* its code in s.code, across SetCode failures, Flush, crashes and          *)
(* reopening (GetCode would otherwise return nil for a contract).          *)
CodesPresent ==
    phase = "idle" =>
        \A a \in Accounts : GetCode(trie, code, a) = GetCodeHash(trie, a)

(* A state that was flushed, or crashed, can be opened again: readCodes    *)
(* accepts every codes.json the process leaves behind.                     *)
ReopenSucceeds == phase # "failed"

(* The getters implement the State contract, and after a restart show the *)
(* world as of the last Flush that returned (spec 4.8, 5).  The restart   *)
(* of the contract is the step that reopens the state (Open).             *)
Contract == INSTANCE StateSpec WITH world <- View(trie, code), saved <- saved,
                                   Codes <- Hashes, EmptyCode <- EmptyCodeHash

RefinesState == Contract!Spec

=============================================================================
