-------------------------- MODULE AutomationResolution --------------------------
(***************************************************************************)
(* Execution-bound resolution of one SSH credential (automation.py).       *)
(*                                                                         *)
(* A resolver reserves a dispatch durably, then opens a second             *)
(* transaction that holds the credential graph through the backend read,   *)
(* checks everything again, and commits its audit row before the material  *)
(* leaves.  Writers of the row, revocations, lost COMMIT answers, crashes, *)
(* retries of the same dispatch and changes on the mount interleave.       *)
(***************************************************************************)
EXTENDS Naturals

CONSTANTS
    Request,      \* concurrent calls of resolve_automation
    Dispatch,     \* unique (execution, nonce digest, step, reference) keys
    Key,          \* public-key identities of material
    NoKey,        \* no material, or no public key recorded
    Scope,        \* assignment, username, engine and schema identities
    NoScope,
    NoDispatch,
    Mortal,       \* requests whose process may die
    MaxVersion    \* bound: the versions written at the path

ASSUME AutomationAssumption ==
    /\ Mortal \subseteq Request
    /\ NoKey \notin Key /\ NoScope \notin Scope /\ NoDispatch \notin Dispatch
    /\ MaxVersion \in Nat \ {0}

None == 0
NotAdmitted == [scope |-> NoScope, key |-> NoKey]

\* Whether the columns of the credential and its policy groups admit a resolution.
Gate == {"open", "closed"}

\* The steps of a delivery transaction, which holds the locks.
Working == {"delivering", "reading", "checking", "committing"}
PC == {"idle", "authorized", "reserved", "failed"} \cup Working

VARIABLES
    row,          \* the committed credential and assignment columns
    content,      \* [1..MaxVersion -> Key \cup {NoKey}], material on the mount
    counter,      \* the latest version number of the path
    granted,      \* [Dispatch -> BOOLEAN]: lease, actor, permissions and validity
                  \* window, the checks that no row lock keeps true
    frozen,       \* [Dispatch -> identity] approved at admission
    pin,          \* [Dispatch -> Nat], the version a pinned reference names, or None
    receipt,      \* [Dispatch -> Nat], the durable receipt's resolved_version
    success,      \* dispatches with a durable success audit row
    failure,      \* dispatches with a durable failure audit row
    pc, cur, ver, \* per request: step, dispatch, reserved version
    bundle,       \* per request: the key of the material it has read
    \* History, read by the properties only.
    answers,      \* [Dispatch -> Nat], bundles that left the function
    seen,         \* dispatches for which the vault returned material
    excused,      \* dispatches whose process died or whose audit row was refused
    revoked       \* [Request -> BOOLEAN], the grant was gone when the read ended
                  \* and has not come back

worldVars == <<row, content, counter, granted>>
admitVars == <<frozen, pin>>
storeVars == <<receipt, success, failure>>
reqVars == <<pc, cur, ver, bundle>>
histVars == <<answers, seen, excused, revoked>>
vars == <<worldVars, admitVars, storeVars, reqVars, histVars>>

Identity == [scope |-> row.scope, key |-> row.key]

\* lock_credential_graph, held by a delivery through its backend read.
Held == \E r \in Request : pc[r] \in Working

Init ==
    /\ row \in [live: {1}, staged: {None}, key: Key, stagedKey: {NoKey}, gate: {"open"},
                scope: Scope]
    /\ content = [v \in 1..MaxVersion |-> IF v = 1 THEN row.key ELSE NoKey]
    /\ counter = 1
    /\ granted = [k \in Dispatch |-> TRUE]
    /\ frozen = [k \in Dispatch |-> NotAdmitted]
    /\ pin = [k \in Dispatch |-> None]
    /\ receipt = [k \in Dispatch |-> None]
    /\ success = {} /\ failure = {}
    /\ pc = [r \in Request |-> "idle"]
    /\ cur = [r \in Request |-> NoDispatch]
    /\ ver = [r \in Request |-> None]
    /\ bundle = [r \in Request |-> NoKey]
    /\ answers = [k \in Dispatch |-> 0]
    /\ seen = {} /\ excused = {}
    /\ revoked = [r \in Request |-> FALSE]

--------------------------------------------------------------------------------
(***************************************************************************)
(* Admission and the checks of _resolve_metadata.                          *)
(***************************************************************************)

\* _check_dispatch, _actor, _target and the visibility checks: all of it can change
\* under a running call.
CheckDispatch(k) == granted[k]

\* The facts _resolve_metadata reads under the graph lock, and _version's rules.
Resolvable(k) ==
    /\ row.gate = "open"
    /\ row.live # None /\ row.live # row.staged
    /\ pin[k] # None => pin[k] = row.live

\* _require_identity against the frozen provider identity.
SameIdentity(k) == Identity = frozen[k]

\* capture_reference_identity, frozen by RPC before the dispatch exists.
Admit(k, pinned) ==
    /\ frozen[k] = NotAdmitted
    /\ CheckDispatch(k) /\ ~Held /\ Resolvable(k)
    /\ frozen' = [frozen EXCEPT ![k] = Identity]
    /\ pin' = [pin EXCEPT ![k] = IF pinned THEN row.live ELSE None]
    /\ UNCHANGED <<worldVars, storeVars, reqVars, histVars>>

--------------------------------------------------------------------------------
(***************************************************************************)
(* resolve_automation.                                                     *)
(***************************************************************************)
Goto(r, step) == pc' = [pc EXCEPT ![r] = step]

\* The transaction rolls back, its locks go, and the failure is to be recorded.
Fail(r) ==
    /\ Goto(r, "failed")
    /\ bundle' = [bundle EXCEPT ![r] = NoKey]
    /\ UNCHANGED <<cur, ver>>

\* Any executor may ask again for a dispatch, also while another call serves it.
Resolve(r, k) ==
    /\ pc[r] = "idle"
    /\ Goto(r, IF CheckDispatch(k) /\ frozen[k] # NotAdmitted THEN "authorized" ELSE "failed")
    /\ cur' = [cur EXCEPT ![r] = k]
    /\ UNCHANGED <<worldVars, admitVars, storeVars, ver, bundle, histVars>>

AlwaysUnspent(k) == TRUE                              \* fault: no unique constraint
Unspent(k) == receipt[k] = None

MayReserve(r) ==
    LET k == cur[r] IN Resolvable(k) /\ CheckDispatch(k) /\ SameIdentity(k) /\ Unspent(k)

\* _reserve commits the selected version before any read of material.
Reserve(r) ==
    /\ pc[r] = "authorized" /\ ~Held
    /\ MayReserve(r)
    /\ receipt' = [receipt EXCEPT ![cur[r]] = row.live]
    /\ ver' = [ver EXCEPT ![r] = row.live]
    /\ Goto(r, "reserved")
    /\ UNCHANGED <<worldVars, admitVars, success, failure, cur, bundle, histVars>>

\* The answer to the receipt's COMMIT is lost: refused, and spent if it was durable.
ReserveUnknown(r, applied) ==
    /\ pc[r] = "authorized" /\ ~Held
    /\ MayReserve(r)
    /\ receipt' = IF applied THEN [receipt EXCEPT ![cur[r]] = row.live] ELSE receipt
    /\ Fail(r)
    /\ UNCHANGED <<worldVars, admitVars, success, failure, histVars>>

\* Refused by a check, or the database fails.
ReserveRefused(r) ==
    /\ pc[r] = "authorized"
    /\ Fail(r)
    /\ UNCHANGED <<worldVars, admitVars, storeVars, histVars>>

\* _deliver: everything again under fresh locks, equal to what was reserved; the
\* audit row is inserted, not yet durable.
OpenDelivery(r) ==
    LET k == cur[r] IN
    /\ pc[r] = "reserved" /\ ~Held
    /\ CheckDispatch(k) /\ Resolvable(k) /\ SameIdentity(k)
    /\ row.live = ver[r]
    /\ Goto(r, "delivering")
    /\ UNCHANGED <<worldVars, admitVars, storeVars, cur, ver, bundle, histVars>>

DeliveryRefused(r) ==
    /\ pc[r] = "reserved"
    /\ Fail(r)
    /\ UNCHANGED <<worldVars, admitVars, storeVars, histVars>>

\* _check_dispatch, then the read of one explicit version is sent.
SendRead(r) ==
    /\ pc[r] = "delivering" /\ CheckDispatch(cur[r])
    /\ Goto(r, "reading")
    /\ UNCHANGED <<worldVars, admitVars, storeVars, cur, ver, bundle, histVars>>

AnyBundle(r) == content[ver[r]] # NoKey               \* fault: bundle identity not checked

\* verify_bundle_identity: the key in the bundle is the approved one.
ApprovedBundle(r) == content[ver[r]] = frozen[cur[r]].key

ReadBundle(r) ==
    /\ pc[r] = "reading" /\ content[ver[r]] # NoKey
    /\ seen' = seen \cup {cur[r]}
    /\ IF ApprovedBundle(r)
       THEN /\ Goto(r, "checking")
            /\ bundle' = [bundle EXCEPT ![r] = content[ver[r]]]
            /\ UNCHANGED <<cur, ver>>
       ELSE Fail(r)
    /\ revoked' = [revoked EXCEPT ![r] = ~granted[cur[r]]]
    /\ UNCHANGED <<worldVars, admitVars, storeVars, answers, excused>>

NoFinalGrant(r) ==                                    \* fault: dispatch not checked again
    Resolvable(cur[r]) /\ SameIdentity(cur[r]) /\ row.live = ver[r]

\* The second _resolve_metadata and the last _check_dispatch.
StillAuthorized(r) ==
    /\ Resolvable(cur[r]) /\ SameIdentity(cur[r]) /\ row.live = ver[r]
    /\ CheckDispatch(cur[r])

FinalCheck(r) ==
    /\ pc[r] = "checking" /\ StillAuthorized(r)
    /\ Goto(r, "committing")
    /\ UNCHANGED <<worldVars, admitVars, storeVars, cur, ver, bundle, histVars>>

BackendFails(r) ==                                    \* fault: failed checks keep waiting
    /\ pc[r] = "reading"
    /\ Fail(r)
    /\ UNCHANGED <<worldVars, admitVars, storeVars, histVars>>

\* Any exception inside the delivery transaction: a failed check, a backend or
\* database error.
DeliveryFails(r) ==
    /\ pc[r] \in Working
    /\ Fail(r)
    /\ UNCHANGED <<worldVars, admitVars, storeVars, histVars>>

\* The request is over: its locals are gone.
Done(r) ==
    /\ Goto(r, "idle")
    /\ cur' = [cur EXCEPT ![r] = NoDispatch]
    /\ ver' = [ver EXCEPT ![r] = None]
    /\ bundle' = [bundle EXCEPT ![r] = NoKey]
    /\ revoked' = [revoked EXCEPT ![r] = FALSE]

\* The success audit is durable, and only then the material is returned.
CommitDelivery(r) ==
    /\ pc[r] = "committing"
    /\ success' = success \cup {cur[r]}
    /\ answers' = [answers EXCEPT ![cur[r]] = @ + 1]
    /\ Done(r)
    /\ UNCHANGED <<worldVars, admitVars, receipt, failure, seen, excused>>

CommitUnknown(r, applied) ==
    /\ pc[r] = "committing"
    /\ success' = IF applied THEN success \cup {cur[r]} ELSE success
    /\ Fail(r)
    /\ UNCHANGED <<worldVars, admitVars, receipt, failure, histVars>>

NeverLogged(r) == failure                             \* fault: refusals are not recorded
FailureLogged(r) == failure \cup {cur[r]}

\* record_automation_access outside any transaction; a refused audit row still
\* ends in AutomationResolutionDenied.
RecordFailure(r, logged) ==
    /\ pc[r] = "failed"
    /\ failure' = IF logged THEN FailureLogged(r) ELSE failure
    /\ excused' = IF logged THEN excused ELSE excused \cup {cur[r]}
    /\ Done(r)
    /\ UNCHANGED <<worldVars, admitVars, receipt, success, answers, seen>>

Crash(r) ==
    /\ r \in Mortal /\ pc[r] # "idle"
    /\ excused' = excused \cup {cur[r]}
    /\ Done(r)
    /\ UNCHANGED <<worldVars, admitVars, storeVars, answers, seen>>

--------------------------------------------------------------------------------
(***************************************************************************)
(* Everyone else.                                                          *)
(***************************************************************************)
UnnumberedVersion == None                             \* fault: an answer without a version
NextVersion == counter + 1

\* Material writers (MaterialLifecycle) and metadata edits wait for the row lock.
SaveRow(new) ==
    /\ ~Held
    /\ row' = new
    /\ UNCHANGED <<granted, admitVars, storeVars, reqVars, histVars>>

Room == counter < MaxVersion

WriteVersion(key) ==
    /\ Room
    /\ counter' = counter + 1
    /\ content' = [content EXCEPT ![counter + 1] = key]

RotateMaterial(key) ==
    /\ WriteVersion(key)
    /\ SaveRow([row EXCEPT !.live = NextVersion, !.staged = None, !.key = key,
                           !.stagedKey = NoKey])

StageMaterial(key) ==
    /\ row.staged = None
    /\ WriteVersion(key)
    /\ SaveRow([row EXCEPT !.staged = NextVersion, !.stagedKey = key])

PromoteStaged ==
    /\ row.staged # None
    /\ SaveRow([row EXCEPT !.live = row.staged, !.staged = None, !.key = row.stagedKey,
                           !.stagedKey = NoKey])
    /\ UNCHANGED <<content, counter>>

\* Status, policy groups or assignment change; a change of what the
\* identity snapshot covers.
EditRow(gate, scope) ==
    /\ <<gate, scope>> # <<row.gate, row.scope>>
    /\ SaveRow([row EXCEPT !.gate = gate, !.scope = scope])
    /\ UNCHANGED <<content, counter>>

\* The pointer goes first; the version's later deletion only makes reads fail.
DiscardStaged ==
    /\ row.staged # None
    /\ SaveRow([row EXCEPT !.staged = None, !.stagedKey = NoKey])
    /\ UNCHANGED <<content, counter>>

\* A lease or the validity window expires, an actor is disabled, a permission goes:
\* no row lock orders this.
Revoke(k) ==
    /\ granted[k]
    /\ granted' = [granted EXCEPT ![k] = FALSE]
    /\ UNCHANGED <<row, content, counter, admitVars, storeVars, reqVars, histVars>>

\* ... and comes back, also during a call: what counts is the last check.
Restore(k) ==
    /\ ~granted[k]
    /\ granted' = [granted EXCEPT ![k] = TRUE]
    /\ revoked' = [r \in Request |-> revoked[r] /\ cur[r] # k]
    /\ UNCHANGED <<row, content, counter, admitVars, storeVars, reqVars, answers, seen, excused>>

\* The path is destroyed and written again outside the plugin: the same version
\* number now holds another key.
Substitute(v, key) ==
    /\ content[v] \notin {NoKey, key}
    /\ content' = [content EXCEPT ![v] = key]
    /\ UNCHANGED <<row, counter, granted, admitVars, storeVars, reqVars, histVars>>

--------------------------------------------------------------------------------
RequestStep(r) ==
    \/ Reserve(r) \/ ReserveRefused(r) \/ OpenDelivery(r) \/ DeliveryRefused(r)
    \/ SendRead(r) \/ ReadBundle(r) \/ FinalCheck(r) \/ DeliveryFails(r) \/ CommitDelivery(r)
    \/ \E b \in BOOLEAN : ReserveUnknown(r, b) \/ CommitUnknown(r, b) \/ RecordFailure(r, b)

WorldStep ==
    \/ \E key \in Key : RotateMaterial(key) \/ StageMaterial(key)
    \/ PromoteStaged \/ DiscardStaged
    \/ \E gate \in Gate, scope \in Scope : EditRow(gate, scope)
    \/ \E k \in Dispatch : Revoke(k) \/ Restore(k)
    \/ \E v \in 1..MaxVersion, key \in Key : Substitute(v, key)

Next ==
    \/ \E k \in Dispatch, pinned \in BOOLEAN : Admit(k, pinned)
    \/ \E r \in Request, k \in Dispatch : Resolve(r, k)
    \/ \E r \in Request : RequestStep(r) \/ Crash(r)
    \/ WorldStep

Spec == Init /\ [][Next]_vars

\* A worker executes its call to the end or dies.
Fairness == \A r \in Request : WF_vars(RequestStep(r))

FairSpec == Spec /\ Fairness

--------------------------------------------------------------------------------
\* Every variable has its type; in particular a receipt holds a real version.
TypeOK ==
    /\ row \in [live: 1..MaxVersion, staged: 0..MaxVersion, key: Key,
                stagedKey: Key \cup {NoKey}, gate: Gate, scope: Scope]
    /\ content \in [1..MaxVersion -> Key \cup {NoKey}]
    /\ counter \in 1..MaxVersion
    /\ granted \in [Dispatch -> BOOLEAN]
    /\ frozen \in [Dispatch -> [scope: Scope, key: Key] \cup {NotAdmitted}]
    /\ pin \in [Dispatch -> 0..MaxVersion] /\ receipt \in [Dispatch -> 0..MaxVersion]
    /\ success \subseteq Dispatch /\ failure \subseteq Dispatch
    /\ pc \in [Request -> PC]
    /\ cur \in [Request -> Dispatch \cup {NoDispatch}]
    /\ ver \in [Request -> 0..MaxVersion]
    /\ bundle \in [Request -> Key \cup {NoKey}]
    /\ answers \in [Dispatch -> Nat]
    /\ seen \subseteq Dispatch /\ excused \subseteq Dispatch
    /\ revoked \in [Request -> BOOLEAN]

\* The abstract promise.  A claim is open while the call that reserved it runs.
Claiming(r) == pc[r] \in {"reserved"} \cup Working
State(k) ==
    IF answers[k] > 0 THEN "answered"
    ELSE IF receipt[k] = None THEN "unused"
    ELSE IF \E r \in Request : Claiming(r) /\ cur[r] = k THEN "claimed" ELSE "burnt"
OneUse == INSTANCE OneUseDelivery WITH state <- [k \in Dispatch |-> State(k)]

\* A dispatch is answered at most once, only by the call that reserved it, and a
\* dispatch spent without an answer stays spent whatever retries arrive
\* (AutomationResolutionReceipt and its unique constraint).
ImplementsOneUse == OneUse!Spec

\* ... and under the workers' fairness no claim stays open (_deliver always ends).
ImplementsFairOneUse == OneUse!FairSpec

\* What leaves is what was approved: at the instant the material is returned the
\* reserved version is still the live one and not the candidate, the pin still
\* holds, and the key of the material itself is the frozen identity.
AnswersAreApproved ==
    [][\A r \in Request :
          answers' # answers /\ pc[r] = "committing" /\ pc'[r] = "idle" =>
             /\ ver[r] = receipt[cur[r]] /\ ver[r] = row.live /\ ver[r] # row.staged
             /\ pin[cur[r]] \in {None, ver[r]}
             /\ bundle[r] = frozen[cur[r]].key]_vars

\* A grant that was gone when the vault's answer arrived and did not come back keeps
\* the material inside: _deliver's checks before the read do not suffice.
RevocationStopsDelivery ==
    \A r \in Request : pc[r] = "committing" => ~revoked[r]

\* Material never leaves the vault without a trace: once no call is working on a
\* dispatch whose material was read, a success or failure row is durable, except
\* where the process died or the audit table refused the row; and an answer always
\* has its success row.
ReadsLeaveEvidence ==
    \A k \in Dispatch :
        /\ answers[k] > 0 => k \in success
        /\ k \in seen /\ (\A r \in Request : cur[r] # k) => k \in success \cup failure \cup excused

================================================================================
