---------------------------- MODULE MaterialLifecycle ----------------------------
(***************************************************************************)
(* The write path of the plugin: credential rows in PostgreSQL, versions   *)
(* of secret material in a KV v2 mount, and the material transactions      *)
(* (material_transactions.py) that keep the two in step without a          *)
(* distributed commit.                                                     *)
(*                                                                         *)
(* A request opens an outer transaction, locks its credential graph,       *)
(* writes versions to the backend while the row change is still            *)
(* uncommitted, and then either commits, is rolled back for certain, or    *)
(* loses the answer to its COMMIT.  Compensation, the cleanup of discarded *)
(* candidates and the destruction of deleted credentials all run after the *)
(* locks are gone, interleaved with other requests, the verification job,  *)
(* the expiry scan, and crashes.                                           *)
(***************************************************************************)
EXTENDS Naturals

CONSTANTS
    Cred,         \* credentials; each stands for one uuid and so one KV path
    Request,      \* concurrent HTTP requests and command runs
    Legacy,       \* credentials written before staged rotation existed
    Ssh,          \* credentials whose material has a public-key identity
    FormStatus,   \* statuses an edit form or PATCH may submit
    Mortal,       \* requests whose process may die
    Expiring,     \* credentials whose validity window is over
    Offered,      \* bound: the operations requests ask for
    MaxVersion    \* bound: the versions written at one path

ASSUME SubsetAssumption == /\ Legacy \cup Ssh \cup Expiring \subseteq Cred
                            /\ Mortal \subseteq Request
ASSUME BoundAssumption == MaxVersion \in Nat \ {0}

None == 0         \* an empty version column; KV versions start at 1

Status == {"active", "staged", "expired", "retired", "rotating", "compromised"}
AsLoaded == "as loaded"   \* the request leaves the status it loaded
ASSUME StatusAssumption == FormStatus \subseteq Status

\* The lifecycle columns of models/credentials.py.
Row == [kv: Nat, live: Nat, staged: Nat, liveKey: Nat, stagedKey: Nat, status: Status]
BlankRow == [kv |-> None, live |-> None, staged |-> None,
             liveKey |-> None, stagedKey |-> None, status |-> "active"]

\* Operations on one existing credential, those a batch may carry, those that
\* write material, and those that save what a form or serializer submitted.
SingleOps == {"rotate", "update", "stage", "promote", "discard"}
BatchOps == {"edit", "delete"}
WriteOps == {"create", "rotate", "update", "stage"}
FormOps == {"edit", "update"}
Ops == {"create"} \cup SingleOps \cup BatchOps
ASSUME OfferedAssumption == Offered \subseteq Ops
PC == {"idle", "waiting", "body", "commit", "recover", "finish", "destroy"}

VARIABLES
    rows,         \* credentials with a committed row
    inv,          \* [Cred -> Row], the committed columns (the inventory)
    counter,      \* [Cred -> Nat], the mount's current_version per path
    present,      \* pairs <<credential, version>> readable on the mount
    pc, op, subj, \* per request: step, operation, declared participants
    draft,        \* per request: the uncommitted columns
    attempted,    \* per request: owner.attempts (owner.deletions of a discard)
    known,        \* per request: attempts whose version the answer reported
    wrote,        \* per request: the version really written (or to discard)
    witness,      \* per request: attempts whose audit row is in the transaction
    unknown,      \* per request: recover(unknown=True)
    verify,       \* [Cred -> Nat], version the verification job has read
    used,         \* uuids drawn so far
    \* History, read by the properties only.
    everLive,     \* pairs a committed row has named live
    explained,    \* readable pairs with a reconciliation record or log line, the
                  \* candidates a rotation replaced, and what a crash, or the lost
                  \* COMMIT of a deletion, left where no code could run
    external,     \* candidates removed from outside the plugin
    late          \* those of them removed after a promotion had checked them

dbVars == <<rows, inv, used>>
kvVars == <<counter, present>>
reqVars == <<pc, op, subj, draft, attempted, known, wrote, witness, unknown>>
histVars == <<everLive, explained, external, late>>
vars == <<dbVars, kvVars, reqVars, verify, histVars>>

Pairs == Cred \X Nat
AllPairsOf(S) == {p \in present : p[1] \in S}
WroteBy(r, S) == {<<c, wrote[r][c]>> : c \in {d \in S : wrote[r][d] # None}}

\* select_for_update on the credential row, held until the transaction ends.
Held(c) == \E r \in Request : pc[r] \in {"body", "commit"} /\ c \in subj[r]

--------------------------------------------------------------------------------
\* What a committed row serves: reveal_material's version resolution.
Served(c) == IF inv[c].live # None THEN inv[c].live ELSE counter[c]

\* secrets/identity.py.  The fingerprint of version v is named by v itself.
KeyOf(c, v) == IF c \in Ssh THEN v ELSE None
KeepStagedKey(row) == row                             \* fault: identity not cleared
ClearStagedKey(row) == [row EXCEPT !.stagedKey = None]
RecordLiveKey(row, key) == ClearStagedKey([row EXCEPT !.liveKey = key])
PromoteKeyIdentity(row) ==
    RecordLiveKey(row, IF row.stagedKey = row.staged THEN row.staged ELSE None)

\* stage_material pins a legacy row to what is live now before writing.
Pinned(row) ==
    IF row.live = None /\ row.kv # None THEN [row EXCEPT !.live = row.kv] ELSE row

\* Fault: a status that is not one of CredentialStatusChoices.
StoredBadStatus(o, c, row, v) ==
    [row EXCEPT !.kv = v, !.live = v, !.staged = None, !.status = "live"]

\* The columns store_credential saves after the backend returned version v.
Stored(o, c, row, v) ==
    IF o = "stage"
    THEN [Pinned(row) EXCEPT !.kv = v, !.staged = v, !.stagedKey = KeyOf(c, v),
                             !.status = "staged"]
    ELSE [RecordLiveKey(row, KeyOf(c, v)) EXCEPT !.kv = v, !.live = v, !.staged = None]

Cas(r, c) == IF op[r] = "create" THEN 0 ELSE draft[r][c].kv

--------------------------------------------------------------------------------
Init ==
    /\ rows = Legacy
    /\ inv = [c \in Cred |-> IF c \in Legacy THEN [BlankRow EXCEPT !.kv = 1] ELSE BlankRow]
    /\ counter = [c \in Cred |-> IF c \in Legacy THEN 1 ELSE 0]
    /\ present = Legacy \X {1}
    /\ used = Legacy
    /\ pc = [r \in Request |-> "idle"]
    /\ op = [r \in Request |-> "edit"]
    /\ subj = [r \in Request |-> {}]
    /\ draft = [r \in Request |-> [c \in Cred |-> BlankRow]]
    /\ attempted = [r \in Request |-> {}]
    /\ known = [r \in Request |-> {}]
    /\ wrote = [r \in Request |-> [c \in Cred |-> None]]
    /\ witness = [r \in Request |-> {}]
    /\ unknown = [r \in Request |-> FALSE]
    /\ verify = [c \in Cred |-> None]
    /\ everLive = Legacy \X {1}
    /\ explained = {} /\ external = {} /\ late = {}

\* History: the pairs of P are accounted for from now on.
Explain(P) == explained' = (explained \cup P) \cap present'

\* The owner is dropped: the request holds nothing any more.
Reset(r) ==
    /\ pc' = [pc EXCEPT ![r] = "idle"]
    /\ op' = [op EXCEPT ![r] = "edit"]
    /\ subj' = [subj EXCEPT ![r] = {}]
    /\ draft' = [draft EXCEPT ![r] = [c \in Cred |-> BlankRow]]
    /\ attempted' = [attempted EXCEPT ![r] = {}]
    /\ known' = [known EXCEPT ![r] = {}]
    /\ wrote' = [wrote EXCEPT ![r] = [c \in Cred |-> None]]
    /\ witness' = [witness EXCEPT ![r] = {}]
    /\ unknown' = [unknown EXCEPT ![r] = FALSE]

\* The transaction is gone: recover() accounts for the owner's attempts, if any.
Unwind(r, lost) ==
    IF attempted[r] = {} THEN Reset(r)
    ELSE /\ pc' = [pc EXCEPT ![r] = "recover"]
         /\ unknown' = [unknown EXCEPT ![r] = lost]
         /\ UNCHANGED <<op, subj, draft, attempted, known, wrote, witness>>

--------------------------------------------------------------------------------
(***************************************************************************)
(* Opening a transaction and locking its graph.                            *)
(***************************************************************************)

\* A create draws fresh uuids; its rows are invisible until it commits.
BeginCreate(r, S) ==
    /\ pc[r] = "idle" /\ "create" \in Offered
    /\ S # {} /\ S \cap used = {}
    /\ pc' = [pc EXCEPT ![r] = "body"]
    /\ op' = [op EXCEPT ![r] = "create"]
    /\ subj' = [subj EXCEPT ![r] = S]
    /\ used' = used \cup S
    /\ UNCHANGED <<rows, inv, kvVars, draft, attempted, known, wrote, witness, unknown,
                   verify, histVars>>

\* Any other operation first loads its instances, and a form or PATCH sets the
\* status it will save (or keeps the loaded one), before it waits for row locks.
Begin(r, o, S, status) ==
    /\ pc[r] = "idle" /\ S # {} /\ S \subseteq rows
    /\ o \in BatchOps \/ (o \in SingleOps /\ \E c \in Cred : S = {c})
    /\ o \in FormOps \/ status = AsLoaded
    /\ pc' = [pc EXCEPT ![r] = "waiting"]
    /\ op' = [op EXCEPT ![r] = o]
    /\ subj' = [subj EXCEPT ![r] = S]
    /\ draft' = [draft EXCEPT ![r] = [c \in Cred |->
                    IF c \notin S \/ o \notin FormOps THEN BlankRow
                    ELSE IF status = AsLoaded THEN inv[c]
                    ELSE [inv[c] EXCEPT !.status = status]]]
    /\ UNCHANGED <<dbVars, kvVars, attempted, known, wrote, witness, unknown, verify,
                   histVars>>

\* The columns a request works on once it holds the locks: refresh_from_db, or
\* for an edit or update the seven version columns of lock_material_subject.
StaleColumns(r, c) == draft[r][c]                     \* fault: no refresh after the lock
Refreshed(r, c) ==
    IF op[r] \in FormOps THEN [inv[c] EXCEPT !.status = draft[r][c].status]
    ELSE inv[c]

Lock(r) ==
    /\ pc[r] = "waiting"
    /\ subj[r] \subseteq rows
    /\ \A c \in subj[r] : ~Held(c)
    /\ pc' = [pc EXCEPT ![r] = IF op[r] \in {"edit", "delete"} THEN "commit" ELSE "body"]
    /\ draft' = [draft EXCEPT ![r] =
                    [c \in Cred |-> IF c \in subj[r] THEN Refreshed(r, c) ELSE BlankRow]]
    /\ UNCHANGED <<dbVars, kvVars, op, subj, attempted, known, wrote, witness, unknown,
                   verify, histVars>>

NeverRefused(r) == FALSE                              \* fault: waits for a deleted row

\* A participant was deleted while the request waited for its lock.
LockRefused(r) ==
    /\ pc[r] = "waiting"
    /\ ~(subj[r] \subseteq rows)
    /\ Reset(r)
    /\ UNCHANGED <<dbVars, kvVars, verify, histVars>>

--------------------------------------------------------------------------------
(***************************************************************************)
(* The body of a transaction: backend calls under the row lock.            *)
(***************************************************************************)
WriteReady(r, c) ==
    /\ pc[r] = "body" /\ op[r] \in WriteOps
    /\ c \in subj[r] \ attempted[r]
    /\ op[r] = "stage" => draft[r][c].staged = None

\* The mount accepts the write: check-and-set holds and the counter advances.
Accepted(r, c) ==
    /\ counter[c] = Cas(r, c)
    /\ counter[c] < MaxVersion
    /\ counter' = [counter EXCEPT ![c] = @ + 1]
    /\ present' = present \cup {<<c, counter[c] + 1>>}
    /\ wrote' = [wrote EXCEPT ![r][c] = counter[c] + 1]

\* backend.write answers.  log_access may still lose its audit row (audited).
StoreMaterial(r, c, audited) ==
    /\ WriteReady(r, c)
    /\ Accepted(r, c)
    /\ attempted' = [attempted EXCEPT ![r] = @ \cup {c}]
    /\ known' = [known EXCEPT ![r] = @ \cup {c}]
    /\ draft' = [draft EXCEPT ![r][c] = Stored(op[r], c, @, counter[c] + 1)]
    /\ witness' = [witness EXCEPT ![r] = IF audited THEN @ \cup {c} ELSE @]
    /\ pc' = [pc EXCEPT ![r] = IF attempted[r] \cup {c} = subj[r] THEN "commit" ELSE "body"]
    /\ UNCHANGED <<dbVars, op, subj, unknown, verify, histVars>>

\* The attempt was appended before the call, so it is recovered without a version.
AttemptFails(r, c) ==
    /\ pc' = [pc EXCEPT ![r] = "recover"]
    /\ attempted' = [attempted EXCEPT ![r] = @ \cup {c}]
    /\ UNCHANGED <<op, subj, draft, known, witness, unknown>>

\* The write took effect and its answer was lost: the version stays unknown.
StoreLost(r, c) ==
    /\ WriteReady(r, c)
    /\ Accepted(r, c)
    /\ AttemptFails(r, c)
    /\ UNCHANGED <<dbVars, verify, histVars>>

\* A check-and-set conflict, or any refusal without effect.
StoreRefused(r, c) ==
    /\ WriteReady(r, c)
    /\ AttemptFails(r, c)
    /\ UNCHANGED <<dbVars, kvVars, wrote, verify, histVars>>

\* promote_staged: list_versions must still show the candidate.
PromoteStaged(r, c) ==
    LET row == draft[r][c] IN
    /\ c \in subj[r]
    /\ pc[r] = "body" /\ op[r] = "promote"
    /\ row.staged # None
    /\ <<c, row.staged>> \in present
    /\ draft' = [draft EXCEPT ![r][c] =
                    [PromoteKeyIdentity(row) EXCEPT
                        !.live = row.staged, !.staged = None, !.status = "active"]]
    /\ pc' = [pc EXCEPT ![r] = "commit"]
    /\ UNCHANGED <<dbVars, kvVars, op, subj, attempted, known, wrote, witness, unknown,
                   verify, histVars>>

\* discard_staged: clears the pointer and queues the exact version for cleanup.
DiscardStaged(r, c, audited) ==
    LET row == draft[r][c] IN
    /\ c \in subj[r]
    /\ pc[r] = "body" /\ op[r] = "discard"
    /\ row.staged # None
    /\ draft' = [draft EXCEPT ![r][c] =
                    [ClearStagedKey(row) EXCEPT !.staged = None, !.status = "active"]]
    /\ wrote' = [wrote EXCEPT ![r][c] = row.staged]
    /\ attempted' = [attempted EXCEPT ![r] = @ \cup {c}]
    /\ known' = [known EXCEPT ![r] = @ \cup {c}]
    /\ witness' = [witness EXCEPT ![r] = IF audited THEN @ \cup {c} ELSE @]
    /\ pc' = [pc EXCEPT ![r] = "commit"]
    /\ UNCHANGED <<dbVars, kvVars, op, subj, unknown, verify, histVars>>

\* A framework block swallows an error after rolling back to its savepoint: the
\* row changes and audit rows are undone, the owner's attempts are not.
InnerRollback(r) ==
    /\ pc[r] \in {"body", "commit"} /\ attempted[r] # {}
    /\ draft' = [draft EXCEPT ![r] =
                    [c \in Cred |-> IF c \in subj[r] THEN inv[c] ELSE BlankRow]]
    /\ witness' = [witness EXCEPT ![r] = {}]
    /\ UNCHANGED <<dbVars, kvVars, pc, op, subj, attempted, known, wrote, unknown, verify,
                   histVars>>

\* An exception in the body: the database certainly rolled back, unless the
\* connection itself was lost, which recover() must treat as unknown.
BodyFails(r, lost) ==
    /\ pc[r] \in {"body", "commit"}
    /\ Unwind(r, lost)
    /\ UNCHANGED <<dbVars, kvVars, verify, histVars>>

--------------------------------------------------------------------------------
(***************************************************************************)
(* Commit.                                                                 *)
(***************************************************************************)

\* owner.witness(): every attempt's audit row is still in the transaction.
\* Deleting a row does not go through the material owner.
AlwaysWitnessed(r) == TRUE                            \* fault: witness() skipped
Witnessed(r) == op[r] = "delete" \/ attempted[r] \subseteq witness[r]

\* Rows as PostgreSQL has them once the transaction is durable.
Apply(r, lost) ==
    LET S == subj[r]
        kept == {c \in S : op[r] # "delete" /\ (op[r] = "create" => draft[r][c].kv # None)}
        replaced == {c \in S : op[r] \in {"rotate", "update"} /\ inv[c].staged # None}
        written == {<<c, draft[r][c].live>> : c \in {d \in kept : draft[r][d].live # None}}
    IN  /\ rows' = IF op[r] = "delete" THEN rows \ S ELSE rows \cup kept
        /\ inv' = [c \in Cred |-> IF c \in kept THEN draft[r][c]
                                   ELSE IF c \in rows' THEN inv[c] ELSE BlankRow]
        /\ everLive' = {p \in everLive \cup written : p[1] \in rows'}
        /\ external' = {p \in external : inv'[p[1]].staged = p[2]}
        /\ late' = {p \in late : p[1] \in rows'}
        /\ Explain({<<c, inv[c].staged>> : c \in replaced} \cup lost)

WitnessFails(r) ==
    /\ pc[r] = "commit" /\ ~Witnessed(r)
    /\ Unwind(r, FALSE)
    /\ UNCHANGED <<dbVars, kvVars, verify, histVars>>

Commit(r) ==
    /\ pc[r] = "commit" /\ Witnessed(r)
    /\ UNCHANGED kvVars
    /\ Apply(r, {})
    /\ \/ /\ op[r] \in {"discard", "delete"}
          /\ pc' = [pc EXCEPT ![r] = IF op[r] = "delete" THEN "destroy" ELSE "finish"]
          /\ UNCHANGED <<op, subj, draft, attempted, known, wrote, witness, unknown>>
       \/ /\ op[r] \notin {"discard", "delete"}
          /\ Reset(r)
    /\ UNCHANGED <<used, verify>>

\* The commit is confirmed and a later on_commit callback raises: recover()
\* only records, and finish_deletions is not reached.
CallbackFails(r) ==
    /\ pc[r] = "commit" /\ Witnessed(r) /\ op[r] # "delete"
    /\ UNCHANGED kvVars
    /\ Apply(r, WroteBy(r, attempted[r]))
    /\ Reset(r)
    /\ UNCHANGED <<used, verify>>

\* A deferred constraint refuses the COMMIT with SQLSTATE 23xxx: a known rollback.
CommitRejected(r) ==
    /\ pc[r] = "commit" /\ Witnessed(r)
    /\ Unwind(r, FALSE)
    /\ UNCHANGED <<dbVars, kvVars, verify, histVars>>

\* The answer to COMMIT is lost; the transaction may or may not be durable.
\* A lost deletion also loses its on_commit callback.
CommitUnknown(r, applied) ==
    /\ pc[r] = "commit" /\ Witnessed(r)
    /\ UNCHANGED kvVars
    /\ \/ /\ applied
          /\ Apply(r, IF op[r] = "delete" THEN AllPairsOf(subj[r]) ELSE {})
       \/ ~applied /\ UNCHANGED <<rows, inv, histVars>>
    /\ Unwind(r, TRUE)
    /\ UNCHANGED <<used, verify>>

--------------------------------------------------------------------------------
(***************************************************************************)
(* After the transaction: compensation and cleanup, without any lock.      *)
(***************************************************************************)

\* A version-scoped backend.delete: done, or failed with or without effect.
DeleteVersion(c, v, done) ==
    \/ present' = present \ {<<c, v>>}
    \/ ~done /\ UNCHANGED present

\* One iteration of recover(): the exact version is removed only when the
\* rollback is certain and the version was reported; a record always follows.
CompensateUnknown(r, c) == op[r] # "discard" /\ c \in known[r]   \* fault
CompensateDiscard(r, c) == ~unknown[r] /\ c \in known[r]         \* fault
MayCompensate(r, c) == op[r] # "discard" /\ ~unknown[r] /\ c \in known[r]

Recover(r, c, done) ==
    /\ pc[r] = "recover" /\ c \in attempted[r]
    /\ IF MayCompensate(r, c) THEN DeleteVersion(c, wrote[r][c], done)
       ELSE UNCHANGED present
    /\ Explain(WroteBy(r, {c}))
    /\ IF attempted[r] = {c} THEN Reset(r)
       ELSE /\ attempted' = [attempted EXCEPT ![r] = @ \ {c}]
            /\ UNCHANGED <<pc, op, subj, draft, known, wrote, witness, unknown>>
    /\ UNCHANGED <<dbVars, counter, verify, everLive, external, late>>

\* finish_deletions: the committed discard removes exactly its old candidate.
FinishDeletion(r, c, done) ==
    /\ pc[r] = "finish" /\ c \in attempted[r]
    /\ DeleteVersion(c, wrote[r][c], done)
    /\ Explain(IF done THEN {} ELSE WroteBy(r, {c}))
    /\ Reset(r)
    /\ UNCHANGED <<dbVars, counter, verify, everLive, external, late>>

\* The on_commit destruction of a deleted credential's whole path.  A failure
\* leaves the ORPHANED SECRET line.  The path is never used again, so its
\* counter is left where it was.
DestroyMaterial(r, c, done) ==
    /\ pc[r] = "destroy" /\ c \in subj[r]
    /\ \/ present' = present \ AllPairsOf({c})
       \/ ~done /\ UNCHANGED present
    /\ Explain(IF done THEN {} ELSE AllPairsOf({c}))
    /\ IF subj[r] = {c} THEN Reset(r)
       ELSE /\ subj' = [subj EXCEPT ![r] = @ \ {c}]
            /\ UNCHANGED <<pc, op, draft, attempted, known, wrote, witness, unknown>>
    /\ UNCHANGED <<dbVars, counter, verify, everLive, external, late>>

\* The process dies; PostgreSQL rolls an open transaction back.
Crash(r) ==
    /\ r \in Mortal /\ pc[r] # "idle"
    /\ UNCHANGED kvVars
    /\ Explain(IF pc[r] = "destroy" THEN AllPairsOf(subj[r]) ELSE WroteBy(r, attempted[r]))
    /\ Reset(r)
    /\ UNCHANGED <<dbVars, verify, everLive, external, late>>

--------------------------------------------------------------------------------
(***************************************************************************)
(* Jobs, and the world outside the plugin.                                 *)
(***************************************************************************)

\* CredentialVerifyJob reads current_version without a lock ...
VerifyRead(c) ==
    /\ c \in rows /\ verify[c] = None
    /\ verify' = [verify EXCEPT ![c] = counter[c]]
    /\ UNCHANGED <<dbVars, kvVars, reqVars, histVars>>

KeepVersion(c) == inv[c].kv                           \* fault: kv_version not refreshed
VerifiedVersion(c) == verify[c]

\* ... and its UPDATE waits for the row lock, then stores what it read.
VerifyWrite(c) ==
    /\ verify[c] # None
    /\ ~Held(c)
    /\ inv' = IF c \in rows THEN [inv EXCEPT ![c].kv = VerifiedVersion(c)] ELSE inv
    /\ verify' = [verify EXCEPT ![c] = None]
    /\ UNCHANGED <<rows, used, kvVars, reqVars, histVars>>

\* ExpiryScanJob marks a credential past its validity window.
ExpiryScan(c) ==
    /\ c \in rows \cap Expiring /\ ~Held(c)
    /\ inv[c].status \notin {"expired", "retired"}
    /\ inv' = [inv EXCEPT ![c].status = "expired"]
    /\ UNCHANGED <<rows, used, kvVars, reqVars, verify, histVars>>

\* Somebody removes a staged candidate on the mount, outside the plugin.
OutOfBandDelete(c) ==
    LET p == <<c, inv[c].staged>> IN
    /\ c \in rows /\ p \in present
    /\ present' = present \ {p}
    /\ external' = external \cup {p}
    /\ late' = IF \E r \in Request : pc[r] = "commit" /\ op[r] = "promote" /\ c \in subj[r]
               THEN late \cup {p} ELSE late
    /\ Explain({})
    /\ UNCHANGED <<dbVars, counter, reqVars, verify, everLive>>

--------------------------------------------------------------------------------
RequestStep(r) ==
    \/ Lock(r) \/ LockRefused(r)
    \/ \E c \in Cred : \/ \E b \in BOOLEAN : StoreMaterial(r, c, b)
                       \/ StoreLost(r, c) \/ StoreRefused(r, c)
                       \/ PromoteStaged(r, c)
                       \/ \E b \in BOOLEAN : DiscardStaged(r, c, b)
    \/ InnerRollback(r)
    \/ \E b \in BOOLEAN : BodyFails(r, b)
    \/ WitnessFails(r) \/ Commit(r) \/ CallbackFails(r) \/ CommitRejected(r)
    \/ \E b \in BOOLEAN : CommitUnknown(r, b)
    \/ \E c \in Cred, b \in BOOLEAN :
          Recover(r, c, b) \/ FinishDeletion(r, c, b) \/ DestroyMaterial(r, c, b)

Next ==
    \/ \E r \in Request, S \in SUBSET Cred : BeginCreate(r, S)
    \/ \E r \in Request, o \in Offered, S \in SUBSET Cred, status \in FormStatus \cup {AsLoaded} :
          Begin(r, o, S, status)
    \/ \E r \in Request : RequestStep(r) \/ Crash(r)
    \/ \E c \in Cred : VerifyRead(c) \/ VerifyWrite(c) \/ ExpiryScan(c) \/ OutOfBandDelete(c)

Spec == Init /\ [][Next]_vars

\* A worker keeps executing its request until it finishes or dies; PostgreSQL
\* queues lock waiters, so a waiter is not overtaken for ever; the verification
\* job is a system job that runs at every interval.
Fairness ==
    /\ \A r \in Request : WF_vars(RequestStep(r)) /\ SF_vars(Lock(r))
    /\ \A c \in Cred : WF_vars(VerifyRead(c)) /\ SF_vars(VerifyWrite(c))

FairSpec == Spec /\ Fairness

--------------------------------------------------------------------------------
\* Type correctness of the database, the mount, the requests and the history.
DbTypeOK ==
    /\ rows \subseteq Cred /\ used \subseteq Cred
    /\ inv \in [Cred -> Row]
    /\ verify \in [Cred -> Nat]
KvTypeOK ==
    /\ counter \in [Cred -> Nat]
    /\ present \subseteq Pairs
ReqTypeOK ==
    /\ pc \in [Request -> PC]
    /\ op \in [Request -> Ops]
    /\ subj \in [Request -> SUBSET Cred]
    /\ draft \in [Request -> [Cred -> Row]]
    /\ attempted \in [Request -> SUBSET Cred]
    /\ known \in [Request -> SUBSET Cred]
    /\ wrote \in [Request -> [Cred -> Nat]]
    /\ witness \in [Request -> SUBSET Cred]
    /\ unknown \in [Request -> BOOLEAN]
HistTypeOK ==
    /\ everLive \subseteq Pairs /\ explained \subseteq Pairs
    /\ external \subseteq Pairs /\ late \subseteq Pairs

\* Every variable has its type: every column a transaction saves is a legal row, with
\* a status CredentialStatusChoices has.
TypeOK == DbTypeOK /\ KvTypeOK /\ ReqTypeOK /\ HistTypeOK

\* A version consumers have ever been served stays readable while its credential
\* exists: no compensation, discard or destruction, whatever it raced with,
\* removes it, and no promotion puts a vanished candidate into service.  Only an
\* outside deletion after the promotion's own check is out of the code's reach.
ServedVersionsSurvive ==
    \A p \in everLive : p[1] \in rows \ Legacy => p \in present \cup late

\* A candidate a committed row still stages stays readable, so it can be promoted:
\* discard removes it only after the cleared pointer is durable.
StagedCandidateSurvives ==
    \A c \in rows : inv[c].staged # None => <<c, inv[c].staged>> \in present \cup external

\* Nothing readable is left behind silently.  Every version on the mount was
\* served, is staged, was replaced by a rotation over it, is still owned by a
\* running request, or is named by a reconciliation record or log line; the
\* exceptions are exactly a dead process and a deletion whose COMMIT was lost.
Owned(c, v) ==
    \E r \in Request :
        \/ pc[r] \in {"body", "commit", "recover", "finish"}
              /\ c \in attempted[r] /\ wrote[r][c] = v
        \/ pc[r] = "destroy" /\ c \in subj[r]
NoSilentResidue ==
    \A p \in present :
        \/ p[1] \in rows /\ (p \in everLive \/ inv[p[1]].staged = p[2])
        \/ Owned(p[1], p[2])
        \/ p \in explained

\* The stored public-key identities always belong to the versions the row names:
\* what automation authorizes is the key of the version it will read.
KeyIdentityMatchesPointer ==
    \A c \in rows :
        /\ inv[c].liveKey \in {None, inv[c].live}
        /\ inv[c].stagedKey \in {None, inv[c].staged}
        /\ inv[c].staged # None => inv[c].staged > inv[c].live

\* The committed live pointer never goes back to an older version: no edit, job or
\* racing writer saves columns it loaded before it held the lock.
LiveNeverRegresses ==
    [][\A c \in rows \cap rows' : inv'[c].live >= inv[c].live]_vars

\* Every request finishes or dies: none waits for ever for a lock, a deleted row or
\* its own compensation.
RequestsFinish == \A r \in Request : pc[r] # "idle" ~> pc[r] = "idle"

\* A rolled-back write leaves kv_version below the mount's counter, and check-and-set
\* refuses every later write; the verification job always heals the credential,
\* although it reads without a lock and may store a stale value.
CheckAndSetHeals ==
    \A c \in Cred : (c \in rows /\ inv[c].kv # counter[c])
                        ~> (c \notin rows \/ inv[c].kv = counter[c])

--------------------------------------------------------------------------------
(***************************************************************************)
(* Why served versions and staged candidates survive: the inductive        *)
(* invariant behind ServedVersionsSurvive and StagedCandidateSurvives.     *)
(***************************************************************************)
Open(r) == pc[r] \in {"body", "commit"}
Claims(r) == Open(r) \/ pc[r] = "destroy"

\* Row locks, fresh uuids and committed deletions make claims on a path exclusive.
ClaimInv ==
    /\ rows \subseteq used
    /\ \A r \in Request :
          /\ pc[r] # "idle" => subj[r] \subseteq used
          /\ Open(r) /\ op[r] = "create" => subj[r] \cap rows = {}
          /\ Open(r) /\ op[r] # "create" => subj[r] \subseteq rows
          /\ pc[r] = "destroy" => subj[r] \cap rows = {}
    /\ \A r, q \in Request : r # q /\ Claims(r) /\ Claims(q) => subj[r] \cap subj[q] = {}

\* Which requests carry attempts.
AttemptInv ==
    \A r \in Request :
        /\ attempted[r] \subseteq subj[r]
        /\ attempted[r] # {} => op[r] \in WriteOps \cup {"discard"}
        /\ pc[r] \in {"idle", "waiting"} => attempted[r] = {}
        /\ pc[r] \in {"idle", "waiting", "body", "commit"} =>
              \A c \in Cred \ attempted[r] : wrote[r][c] = None
        /\ pc[r] = "waiting" => op[r] # "create"
        /\ pc[r] = "finish" => op[r] = "discard"
        /\ pc[r] = "destroy" => op[r] = "delete"
        /\ pc[r] = "commit" /\ op[r] = "create" => attempted[r] = subj[r]

\* What an open transaction would make durable for c: the committed pointers, a
\* version of its own, or the candidate it found present.
DraftOK(r, c) ==
    LET d == draft[r][c]  i == inv[c]  v == wrote[r][c] IN
    \/ op[r] # "create" /\ d.staged \in {i.staged, None} /\ (c \notin Legacy => d.live = i.live)
    \/ /\ op[r] \in {"create", "rotate", "update"} /\ c \in attempted[r] /\ v # None
       /\ d.live = v /\ d.staged = None
    \/ /\ op[r] = "stage" /\ c \in attempted[r] /\ v # None
       /\ d.staged = v /\ (c \notin Legacy => d.live = i.live)
    \/ /\ op[r] = "promote" /\ pc[r] = "commit"
       /\ d.live = i.staged /\ i.staged # None /\ d.staged = None
       /\ <<c, d.live>> \in present \cup late
    \/ op[r] = "create" /\ c \notin attempted[r] \cap witness[r]
DraftInv == \A r \in Request : Open(r) => \A c \in subj[r] : DraftOK(r, c)

\* A discard that may still commit names exactly the committed candidate.
DiscardInv ==
    \A r \in Request : Open(r) /\ op[r] = "discard" => \A c \in attempted[r] :
        /\ wrote[r][c] = inv[c].staged /\ inv[c].staged # None
        /\ c \in witness[r] => draft[r][c].staged = None

\* The committed pointers.
PointerInv ==
    /\ \A p \in everLive :
          p[1] \in rows /\ (p[1] \notin Legacy => p[2] # None /\ p[2] <= counter[p[1]])
    /\ \A c \in rows : inv[c].staged <= counter[c]
    /\ \A c \in rows \ Legacy :
          /\ <<c, inv[c].live>> \in everLive
          /\ inv[c].staged # None => <<c, inv[c].staged>> \notin everLive

\* r may still remove the version it wrote or discarded; r may still commit it.
MayRemove(r, c) ==
    /\ c \in attempted[r] /\ wrote[r][c] # None
    /\ \/ op[r] \in WriteOps /\ (Open(r) \/ (pc[r] = "recover" /\ ~unknown[r]))
       \/ op[r] = "discard" /\ pc[r] = "finish"
MayCommit(r, c) ==
    c \in attempted[r] /\ wrote[r][c] # None /\ op[r] \in WriteOps /\ Open(r)

\* What a request may still remove, no committed pointer names and nobody else commits.
WrittenInv ==
    \A r \in Request, c \in Cred :
        /\ wrote[r][c] <= counter[c]
        /\ MayCommit(r, c) => <<c, wrote[r][c]>> \in present
        /\ MayRemove(r, c) =>
              /\ c \notin Legacy => <<c, wrote[r][c]>> \notin everLive
              /\ c \in rows => inv[c].staged # wrote[r][c]
              /\ \A q \in Request \ {r} : MayCommit(q, c) => wrote[q][c] # wrote[r][c]

SafetyInv ==
    /\ TypeOK /\ ClaimInv /\ AttemptInv /\ DraftInv /\ DiscardInv /\ PointerInv /\ WrittenInv
    /\ ServedVersionsSurvive /\ StagedCandidateSurvives

--------------------------------------------------------------------------------
(***************************************************************************)
(* What the documentation says and the code does not do.                   *)
(***************************************************************************)

\* invariants.md: staging does not change what consumers get, because the pointer is
\* pinned before the candidate is written.  The pin is uncommitted while the
\* candidate is already latest, and is undone when the staging rolls back.
StagingKeepsConsumersServed ==
    \A c \in rows : <<c, Served(c)>> \in present \cup late

================================================================================
