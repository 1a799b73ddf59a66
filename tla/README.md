# Verification of netbox-openbao

TLA+ models of netbox-openbao, the NetBox plugin that keeps credential *metadata* in
PostgreSQL and credential *material* in an OpenBao or Vault KV v2 mount. The models are
checked with TLC on small instances, and the most important properties are proved with
TLAPS for every instance. Paths below are relative to the repository's `src/`;
`PROJECT.json` maps every modelling definition to its lines.

## 1. The system

| Component | State it keeps | Operations | What makes it correct |
|---|---|---|---|
| Material transactions (`material_transactions.py`, `synchronization.py`, `api/transactions.py`) | the owner of the outer transaction: attempts, deletions, witness, commit flag; row locks on policy, engine, credential | open, lock and refresh, witness, commit, recover (compensate), finish deletions | a version consumers are served is never compensated away; nothing is left on the mount unrecorded |
| Write services (`services.py`, `secrets/identity.py`) | pointer columns `kv_version`, `live_kv_version`, `staged_kv_version`, key fingerprints and their versions | store, rotate, stage, promote, discard, reveal | pointers name readable versions; a fingerprint belongs to the version its pointer names |
| Credential rows (`models/credentials.py`) | lifecycle columns, status, path | save, delete | no stale save moves a pointer back |
| API, forms, views (`api/views.py`, `forms.py`, `views.py`) | the loaded instance of a request | create, edit, batch edit, delete, rotation endpoints | what was loaded before the lock is refreshed after it |
| Deletion signals (`signals.py`) | on_commit callbacks | destroy material, close sessions, refresh metadata | material is destroyed only after a durable deletion |
| Jobs (`jobs.py`) | none of their own | verify, expiry scan, health, prune | an unlocked read stored later cannot wedge a credential |
| KV backends (`backends/`) | versions and `current_version` per path; tokens and sessions | check-and-set write, version-scoped delete, read | a lost answer is not a refusal |
| Automation resolution (`automation.py`, `models/automation.py`) | durable one-use receipts, audit rows | admit, reserve, deliver, refuse | one answer per dispatch, of the approved key, with evidence |
| Metadata projection (`services.py` 318-385) | custom metadata on the mount | publish after commit, under an advisory lock | what is published last is what was committed last |
| Settings and memo (`models/settings.py`, `conf.py`, `middleware.py`) | one settings row, a thread-local copy with a pending mark | save, delete, read, end of request | the prefix never changes under existing credentials; no thread keeps a rolled-back value |
| Authentication material (`models/auth.py`, `signals.py` 18-38) | revisioned login material, cached tokens by revision | replace, invalidate | a token of a replaced revision is not used again |
| Cluster administration (`administration/cluster.py`, `api/views.py`) | durable audit rows, observations; the cluster itself is external | preflight, authorize, mutate, conclude | every mutation has a durable authorization row first; a lost answer is concluded as unknown, never as failed, and never retried |
| Engine, authentication, access and final planes (`administration/*.py`, `api/*_views.py`) | static registries of reviewed operations; the capability document, mounts and objects are external | catalog, preview, lifecycle, journeys, explorer, logins, MFA, leases | the same, and: what the operator reviewed (digest, mount, type, impact) is what the call meets |
| Quick add (`quickadd.py`) | address, service, credential and assignment in one transaction, advisory lock on the network of the address | one operation | concurrent quick adds share a service of a name, and an address they may view, and lose no port |
| Importer (`importers/`) | unique `import_source` markers | snapshot, one transaction for each secret | every secret once, with its assignment |
| Assignments (`models/assignments.py`, `signals.py` 197-228) | assignment rows, `on_commit` refreshes of old and new owner | assign, reassign, unassign, cascade | what the mount lists is what NetBox has |
| Policy gate | none of its own | permission lookups | re-checked where it matters (automation) |
| Credential types, user interface | none shared | parsing, rendering | outside the reach of a model checker |

How they interact: views and forms call the services inside a material transaction. The
transaction locks policy, engine and credential rows, the services write to the mount
*while the row change is still uncommitted*, and there is no distributed commit. After
the locks are gone, compensation of failed writes, removal of discarded candidates and
destruction of deleted credentials talk to the mount again, interleaved with other
requests and with the jobs, which take no lock. Automation resolution takes the same row
locks and holds them through its read of the mount.

The hard part is therefore failure and interleaving: a write that takes effect with its
answer lost, a COMMIT whose outcome is unknown, a batch whose savepoint NetBox rolled
back silently, a process that dies between any two steps, a check that is stale when it
is used. `PROJECT.json` lists each hazard at its line with the properties aimed at it.

## 2. The plan

Five models, each the composition of the components that share state:

1. `MaterialLifecycle`, the write path, with its proofs;
2. `AutomationResolution` over the abstract specification `OneUseDelivery`, with its proofs;
3. `ClusterAdministration` over the abstract specification `AuditedMutation`, with its proofs;
4. `AdministrationPlane` over the same `AuditedMutation`: `EngineAdministration`,
   `AuthenticationAdministration` and `ResourceAdministration`, which extend
   `GuardedRequest`, which extends `ReviewedContracts`, with its proofs;
5. `CredentialEstate`: `CredentialGraph` (over `SettingsMemory`) and `ServiceIdentity`,
   which extend `DatabaseTransaction`, with its proofs.

Every safety property the passing runs check, invariants, action properties and refinements,
is proved for every instance; liveness is model-checked.

## 3. Modules

### MaterialLifecycle: the write path

State: committed rows and columns (`rows`, `inv`), the mount (`counter`, `present`), and
per request the fields of the owner (`pc`, `op`, `subj`, `draft`, `attempted`, `known`,
`wrote`, `witness`, `unknown`). A request goes through

    idle -> waiting -> body -> commit -> idle
                         |        |-> finish   (discards committed: delete the candidate)
                         |        |-> destroy  (deletions committed: on_commit callbacks)
                         `-> recover           (rolled back or unknown: compensate)

| Actions | Code |
|---|---|
| `Begin`, `BeginCreate`, `Lock`, `LockRefused` | load and submit, then `lock_material_subjects`; `Refreshed` is the list of columns `lock_material_subject` reloads |
| `StoreMaterial`, `StoreLost`, `StoreRefused`, `AttemptFails` | `store_credential` and `OpenBaoBackend.write`: accepted, accepted with the answer lost, refused by check-and-set, failed before the write |
| `PromoteStaged`, `DiscardStaged` | `promote_staged` with its check of the mount; `discard_staged` |
| `InnerRollback`, `BodyFails`, `WitnessFails` | NetBox's savepoint rollback, an exception in the body, `MaterialTransaction.witness` |
| `Commit`, `CommitRejected`, `CommitUnknown`, `CallbackFails` | `material_transaction` and `_unknown_rollback` |
| `Recover`, `FinishDeletion`, `DestroyMaterial` | `recover`, `finish_deletions`, `destroy_material_on_delete`, each call of the backend one step that may fail |
| `VerifyRead`, `VerifyWrite`, `ExpiryScan` | the two jobs |
| `Crash`, `OutOfBandDelete` | external: a worker dies; an operator deletes a version |

A key identity is the version it was derived from, so a fingerprint that outlives its
version shows as a wrong number. Policy and engine rows are locked together with the
credential and are not lock objects of their own here.

### AutomationResolution over OneUseDelivery

One credential, its assignment and the dispatches that may resolve it. A call goes
`idle -> authorized -> reserved -> delivering -> reading -> checking -> committing -> idle`,
or to `failed` from anywhere, where the refusal is recorded. `Reserve` is `_reserve` with
its own COMMIT; the steps from `delivering` to `committing` are the single transaction of
`_deliver`, during which `Held` keeps every writer of the row out. What no row lock keeps
true (lease, actor, permissions, validity window) is `granted`, which may go and come
back at any moment; `CheckDispatch` stands for every place the code asks. The live
column's key and the *scope* (assignment, username, engine and schema digests) form the
identity frozen at admission. `Substitute` rewrites a version on the mount behind the
plugin's back. Writers are the ones of `MaterialLifecycle`, reduced to their committed
effect on the row; a read of a version that is gone is `DeliveryFails`.

`OneUseDelivery` is the promise: a dispatch is `unused`, `claimed`, `answered` or
`burnt`, and each arrow is taken at most once. The refinement mapping is `State`: answered
when a bundle left, unused without a receipt, claimed while the reserving call runs, burnt
otherwise.

### ClusterAdministration over AuditedMutation

One endpoint with its Raft cluster, and the requests that administer it over the direct or
the broker transport. A mutation goes

    idle -> seal -> init | leader -> raft -> audit -> send -> wait -> complete -> done
              |        |               |       |       |       |-> unknown ----> done
              `--------`---------------`-------`-------`-------`-> fail -------> done

where every arrow is one call: each preflight read is a step of its own, and the state it
checked may change before the next. `Authorize` is the durable record, which refuses an
`ambient` transaction; `AuthorizeLost` is its COMMIT with the answer lost. From `Send` on
the mutation has a life of its own (`flight`): OpenBao carries it out, refuses it or never
gets it, also after NetBox has answered. `NoVerdict` covers timeouts, transport errors,
5xx and undecodable bodies; `ReplyUnparsed` is a decodable reply the normalizer rejects,
which only the direct `initialize` and `unseal` report as a failure (`Misreported`).
`Complete`, `Fail` and `Unknown` are the follow-up records, best effort, and the response.
Health, capabilities and state are observations: one row and one audit record in one
transaction. A snapshot download is authorized and streamed, and its end is recorded.

| Actions | Code |
|---|---|
| `Initialize`, `JoinRaft`, `Unseal`, `Seal`, `RemoveRaftPeer`, `RestoreRaftSnapshot`, `DownloadRaftSnapshot`, `State`, `Health`, `Capabilities` | the views up to their first call: permission and confirmation |
| `SealStatus`, `InitializationStatus`, `LeaderStatus`, `RaftConfiguration`, `Survey`, `ReadFails`, `ReadUnknown` | the preflight reads and their checks |
| `Authorize`, `AuthorizeFails`, `AuthorizeLost`, `Send`, `SendFails` | `log_administration`, the backend's one request |
| `ReplyAccepted`, `ReplyRefused`, `NoVerdict`, `ReplyUnparsed` | `_request`, `_send`, `_status_error`, the normalizers |
| `Complete`, `Fail`, `Unknown`, `OpenSnapshot`, `EndStream`, `Observe`, `ObserveFails`, `ObserveLost` | the end of the views |
| `Execute`, `Refuse`, `Lose`, `Elsewhere`, `Crash` | external |

Assumed of OpenBao: a standby forwards a removal, the index an operator confirmed is no
precondition of the request, and a request that is carried out is answered with one of the
statuses the call expects. The product version is an input that may refuse.

`AuditedMutation` is the promise: a mutation is recorded, then sent once, may then take
effect, and its one answer is `refused` only if it has not taken effect and never will,
`accepted` only if it has; only `unknown` leaves the rest open. The refinement mapping
leaves out the two replies that the direct transport misreports; the run
`unparsed_reply` shows what they do.

### AdministrationPlane over AuditedMutation

The administration API beside the cluster operations has some two hundred operations and
one skeleton, and the modules are split the same way. `ReviewedContracts` is the data: the
registries, each operation with the mount type it needs, its method, risk and confirmation.
`GuardedRequest` is the skeleton:

    idle -> seal -> discover -> mounts | impact | fetch -> audit -> [prelude ->] send -> wait
                                                   `-> observe -> done     (metadata reads)
    wait -> complete | fail | unknown -> done

with the failure of every arrow. The other three modules add what a plane does on its own:

| Module | Adds | Code |
|---|---|---|
| `EngineAdministration` | inventory check before a disable, mount preconditions, the parameter a mount folds to, resolution of journeys and explorer operations | `engine_views.py`, `engines.py`, `engine_journeys.py` |
| `AuthenticationAdministration` | mount resolution with its own audit row, the type check, the signed OIDC envelope | `authentication_views.py`, `authentication.py` |
| `ResourceAdministration` | impact previews, the walk of the lease tree and of the entities to merge, the comparison of the impact before the authorization | `access_views.py`, `finalization_views.py` |
| `AdministrationPlane` | the composition: one service, one capability document (its digest changes with every mount), leases that end with their engine | `OpenBaoClusterViewSet`, `schema.py` |

`Handle` is what every request does, `Begin` the views up to their first call, `OpenBao`
the effect of a call, `Elsewhere` other tools and NetBox's own credential writes. A `view`
holds what a request has read, so that properties can say whether the world still agrees.
The capability document is `<<service, mounts advertised, auth mounts advertised>>`; its
digest is the document itself. An object of the access and final planes is a pair of version
numbers, read in two calls by the operations that walk. Field rules, path compilation and
response normalization only refuse: an answer `invalid` or a raise.

Two behaviours of the code are in the model because the skeleton has them: the direct
transport parses the replies of remounts, mounted operations and accessor lookups as reads
(`Misreported`, left out of the refinement mapping), and an unknown outcome of a preflight
read reaches a handler whose record uses names not bound yet (`Unbound`), which is a 500.

### CredentialEstate

What shares one PostgreSQL database and is not about versions of material.
`DatabaseTransaction` is the database as the plugin uses it: READ COMMITTED reads, row and
advisory locks until the end of the transaction, deadlock victims, deferred foreign keys,
`on_commit` callbacks that a dying worker loses. It is external to the plugin. A worker
serves a list of requests; every statement that another transaction could interleave with
is a step, and a step names the locks the next one waits for.

| Module | Actions | Code |
|---|---|---|
| `SettingsMemory` | `Configure`, `Unset`, `_lock_for_prefix_write`, `_save_locked`, `delete_settings`, `Consult`, `EndRequest` | `models/settings.py`, `conf.py`, `middleware.py` |
| `CredentialGraph` | `Create`, `Stamp`; `Assign`, `_assign`, `Reassign`, `capture_previous_credential`, `Rebind`, `Unassign`, `DeleteAssignment`; `Delete`, `Clear`, `destroy_material_on_delete`; `_lock_metadata`; `_publish_custom_metadata`, `Project`, `set_metadata`, `delete_material`; `quick_add_ssh`, `_new_ip_address`, `LockService`, `_primary_ip_addresses`, `_get_or_create_service`; `import_secrets`, `ImportSecret`, `NextSecret` | `services.py`, `signals.py`, `quickadd.py`, `importers/` |
| `ServiceIdentity` | `Rotate`, `Reencrypt`, `save`, `Withdraw`, `DeleteMaterial`, `invalidate_auth_material_sessions`; `get_backend`, `refresh_auth_material`, `Reload`, `_get_client`, `Keep`, `Present` | `models/auth.py`, `signals.py`, `backends/`, `openbao_configure.py` |

Abstractions: a settings row is its key and its prefix; load and validation of a settings
form are one step, because the check under the lock decides; the share lock of a foreign-key
check is a lock taken before COMMIT; the unique constraint on assignments appears only
through `get_or_create`; policy and engine locks of the credential graph are left out, as are
the SSH type checks; a quick add names the address rows its caller may not view (`hidden`,
none when there is no user), which `_new_ip_address` and `_primary_ip_addresses` leave out and
`_visible_ip_addresses` refuses, so that a caller can add a second address of a network beside
one it cannot see; every other permission is a refusal before the COMMIT, and so are
`add_ipaddress` and the uniqueness NetBox may enforce, which refuse only a new address
(`_new_ip_address`); an address is of no VRF; a service is found by its parent and its name
(`Named`), whatever template names it; the material of a created credential is there before its row, which is
`MaterialLifecycle`'s subject. A failed metadata call either had its effect or not; one that
lands after its timeout is not modelled.

## 4. Runs

| Run | Instance | Shows |
|---|---|---|
| `material_rotation` | 1 credential, 2 mortal requests, 3 versions; create, rotate, stage, promote, discard | `ServedVersionsSurvive`, `StagedCandidateSurvives`, `KeyIdentityMatchesPointer`, `TypeOK` |
| `material_batch` | 2 credentials, 2 mortal requests, 2 versions; create, edit, writing update, delete, in batches | `NoSilentResidue`, `LiveNeverRegresses` |
| `material_liveness` | 1 credential, 2 requests, 2 versions, expiry and status edits | `RequestsFinish`, `CheckAndSetHeals` |
| `automation_resolution` | 2 mortal calls on 1 dispatch, 2 keys, 2 scopes, 2 versions | `ImplementsOneUse`, `AnswersAreApproved`, `RevocationStopsDelivery`, `ReadsLeaveEvidence`, `TypeOK`, `ImplementsFairOneUse` |
| `cluster_administration` | 2 requests, 4 peers, 2 identities, 1 outside change; initialize, unseal, seal, remove, restore | `EvidencePrecedesEffect`, `UnracedActsOnReviewed`, `ImplementsAuditedMutation`, `TypeOK` |
| `cluster_liveness` | 1 mortal request, all 12 operations, 2 outside changes | `RequestsConclude` |
| `administration` | 7 workloads: every task of a plane against 1 change elsewhere, and the pairs that meet (remount and disable, OIDC start and poll, disable and lease revocation); 2 requests, one mortal; both transports | `EvidencePrecedesEffect`, `UnracedActsOnReviewed`, `ImplementsAuditedMutation`, `RequestsConclude`, `TypeOK` |
| `credential_estate` | 20 workloads of up to 3 workers, one mortal | `PrefixCoherent`, `MemoIsCommitted`, `ProjectionCurrent`, `RowHasMaterial`, `DeletedStaysDeleted`, `ServiceShared`, `ImportedOnce`, `ImportsComplete`, `IdentityCurrent`, `RotationsSurvive`, `RequestsConclude`, `TypeOK` |
| `legacy_staging` | 1 legacy credential, 1 request | violated: `StagingKeepsConsumersServed` |
| `quorum_race` | 2 requests, 4 peers, removals only | violated: `QuorumProtected` |
| `unparsed_reply` | 1 request, initialize and unseal | violated: `FailedMeansNotDone` |
| `stale_prefix` | the workloads of `credential_estate`, nobody dies | violated: `DefaultWithoutRow` |

Why the bounds are enough for what they show: every hazard of the write path needs at
most two requests on one path (one past its locks, one inside its transaction) and three
versions (served, written by one, written by the other); batches need two credentials so
that one of several can fail. Two calls on one dispatch are a retry racing the original,
and a second version is what a rotation, or a staging and its promotion, puts between
reservation and delivery. A third one adds only repetitions of the same; the theorems of
section 5 cover the safety properties of this run for every number of versions.
Two calls of *different* dispatches meet only at the row lock; the theorems cover them.
Four peers are the smallest cluster whose voters the removal guard lets go, and two
requests with one outside change put an election, a reseal or a reconfiguration between
any two calls of a view that races another. The first cluster run leaves out join, reset,
force and the read-only operations, which share their steps with the ones it has; the
liveness run has all of them.
In the administration run, tasks that the model cannot tell apart (same plane, method, risk,
confirmation and kind of mount) are represented by one; its two ordinary mounts fold to the same
parameter, one request meets one change elsewhere at any point of its life, and two requests
meet where one changes what the other has read. A workload of the estate run is the smallest set
of requests for one race: three writers of the settings around the first credential, an
assignment that moves while it is deleted and while its credential is deleted, publishers of one
credential, a reveal that locks in the order opposite to a deletion, two quick adds that create
or reuse the service, two of services with different names on one device that
need the same new address (there only the lock of the network orders them), two of which one may
not view the address the other uses, two importers with a common secret, two rotations of different fields
with a call between them.
The material, cluster, administration and estate runs set `CHECK_DEADLOCK FALSE` because versions, uuids and
requests are used up and a finished system stops; the automation run checks
deadlock. Requests, credentials of one kind, keys, scopes and the peers other than the
endpoint's own are symmetric; liveness runs use no symmetry.

Fairness. A worker executes its request to the end or dies: weak fairness of each
request's steps. PostgreSQL queues waiters of a row lock, so a request that can lock again
and again eventually does: strong fairness of `Lock`. The verification job is a system job
that runs at every interval: weak fairness of its read, strong fairness of its write,
which a row lock may delay. The automation calls need weak fairness only, since a call
that waits for a lock may always be refused by the database. The cluster views need weak fairness of a view's own steps: every HTTP call has a timeout
and every failure a handler. OpenBao and the database owe them nothing. The other
administration views are the same. The estate needs less: weak fairness of the disjunction of
all requests' steps, PostgreSQL's lock grants and deadlock detection included, since what can
go on stays able to go on until it does.
Nothing forces a request to begin,
a backend to answer well, a process to live or an operator to act.

### What the violations say

* `legacy_staging`: `docs/architecture/invariants.md` says staging does not change what
  consumers get, because a credential predating staged rotation is pinned first. The pin
  is part of the transaction that stages: until it commits, other readers resolve
  "latest", which already is the candidate, and if it rolls back the pin goes with it
  while the compensation deletes the candidate, so "latest" is a deleted version.
* `quorum_race`: `docs/architecture/invariants.md` says that peer removal protects quorum,
  and `administration-plane.md` names only changes made outside NetBox as able to race. The
  voter count and the index are read before the authorization record and the request, and
  no lock covers the cluster: two removals through NetBox both see four voters and leave
  two. `UnracedActsOnReviewed`, which passes, is what the guards do give.
* `unparsed_reply`: `docs/architecture/administration-plane.md` says an accepted response
  that fails parsing is reported as unknown. The direct transport normalizes the replies of
  `initialize` and `unseal` as it does reads, so the operator is told of a failure after
  OpenBao was initialized or unsealed.
* `stale_prefix`: the comment in `Credential.save` says that whichever write obtains the lock
  first commits a coherent outcome. With no settings row the prefix comes from `get_config`,
  hence from the memo of the request, which was filled before the lock was taken; if the row
  it remembers is deleted in between, the credential is stamped under a prefix nothing
  configures any more. `PrefixCoherent`, which passes, is what the lock does give: a settings
  row that exists agrees with every credential.

### Observations without a run

Met while modelling; the models contain the behaviour, no property claims the opposite.

* `jobs.py` 150-152 and `services.py` 14-15 say the residue of a failed compensating delete
  shows up in the verification job. The job iterates rows and a rolled-back create has none;
  `docs/architecture/write-path.md` has it right, and `NoSilentResidue` says what holds: the
  residue is in the log.
* A remount through the plane followed by a disable of the new path destroys the NetBox
  inventory: the rows keep the old `kv_mount`, so the inventory check passes
  (`administration-plane.md` 280-281 asks the operator to update the row).
* The view of access resources leaves no audit record of an unknown outcome, although
  `administration-plane.md` 376-391 describes one for every mutation.
* The explorer takes its risk from method and path words, so it runs for instance a database
  `rotate-root`, a destructive journey, as an ordinary write, and it compares mount parameters
  but not mount types.
* An assignment that another transaction moves while a reassignment, removal or cascade waits
  for its row is taken from an owner for whom no refresh was registered
  (`capture_previous_credential` reads before the UPDATE waits, deletions use the loaded row).
  `Missed` models it and `ProjectionCurrent` excuses exactly those owners. An edit of an
  assignment deleted meanwhile inserts it again.
* An assignment to a device racing a change of the credential's type to SSH can create the
  binding both checks forbid: neither takes a lock.
* The importer's comment says a source estate can be migrated onto two engines
  independently; the unique constraint on `import_source` alone refuses the second engine.
  As a management command it has no middleware, so its settings memo lasts the whole run.
* A quick add whose caller may not view the address that is there adds a second one of the
  network, and whoever sees both is refused a quick add of it from then on
  (`_new_ip_address`); `ServiceShared` excuses exactly those addresses.
* A token or session of a replaced revision may be kept again after its invalidation, or stay
  in another process; the revision in the key is what keeps it from being used.

## 5. Proofs

Assumptions are only those the modules state about their constants (`SubsetAssumption`,
`BoundAssumption`, `StatusAssumption`, `OfferedAssumption`, `AutomationAssumption`,
`ClusterAssumption`, `PlaneAssumption`, `EngineAssumption`, `AuthAssumption`,
`EstateAssumption`, `KeyAssumption`, `SharedAssumption`): no bound on the number of requests,
credentials, dispatches, versions, workers, mounts or peers, and nothing but the set of peers
and the rows a database starts with is assumed finite.

`MaterialSafetyProofs` proves `TypeCorrect`, then `ServedCorrect` and `StagedCorrect` from the
inductive invariant `SafetyInv`:

* `ClaimInv`: row locks, fresh uuids and durable deletions make claims on a path exclusive;
* `AttemptInv`: which requests carry attempts, and in which steps;
* `DraftInv`: what an open transaction would make durable for a credential is one of a
  few things: the committed pointers, a version it wrote itself, or the candidate it
  found present;
* `DiscardInv`: a discard that may still commit names exactly the committed candidate;
* `PointerInv`: committed pointers are in the history and below the mount's counter;
* `WrittenInv`: what a request may still *remove*, no committed pointer names and no
  other request may still commit.

The properties alone are not inductive: that a version is present says nothing about a
request past its transaction that is about to delete it. `WrittenInv` is the heart: it
separates the requests that may remove a version from the requests that may commit it,
which is why an unknown COMMIT must not be compensated. The step lemmas group actions by
what they can do: close a request or remove expendable versions, open a transaction,
decide inside it, write a version, make it durable, and the jobs and the outside.
The theorems speak of non-legacy credentials where the property does.

The same module builds two more layers on `SafetyInv`. `KeyInv` adds that no column
of a row, of a draft or of the verification job names a version the mount has not counted,
that identities belong to their pointers in rows *and* in drafts, and that an open draft is
not behind the committed live pointer; a form that kept the columns it loaded before its
lock would break the last part. `KeyIdentityCorrect` and `LiveCorrect` follow. `ResidueInv`
adds what a draft knows of its own attempts: a witnessed attempt is exactly what the draft
names live or staged, and a draft lets go of the committed candidate only to replace,
promote or discard it. `NoSilentResidue` alone is not inductive, because a commit ends the
ownership of everything the request wrote; with `ResidueInv` each such version is named by
the new row, and the candidate the row named before is served, explained, or owned by the
discard that is still to delete it. `ResidueCorrect` follows.

`AutomationProofs` proves `AutomationTypeCorrect` and `OneUseCorrect`
(`Spec => OneUse!Spec`). Its invariant `ClaimInv` says that a claim is exclusive, has its
receipt and is unanswered; then `Reserve` maps to `Claim`, `CommitDelivery` to `Answer`,
every failure, crash or lost COMMIT of a claiming call to `Burn`, and everything else to
a stutter. The same module adds `DeliverInv` (while a delivery holds the graph, its
version is live, pinned and not the candidate, and what it has read is the approved key; a
grant missing at the read is still missing) and proves `ApprovedCorrect`,
`RevocationCorrect` and `EvidenceCorrect`.

`ClusterProofs` proves `ClusterTypeCorrect`, `EvidenceFirst` and `AuditedMutationCorrect`
(`Spec => AM!Spec`). Its invariant `ClaimInv` ties what a request may say to where it
stands: no record before the authorization stage, a record behind every flight, no flight
before the send, `executed` behind every acceptance, and behind every failure of a tracked
mutation a flight that never started or was refused. `EvidencePrecedesEffect` alone is not
inductive, because that a sent request has its record follows from the stage it passed.
`Authorize` and `AuthorizeLost` map to the abstract `Authorize`, `Send` to `Send`,
`Execute` to `Effect` (also after the response, which then was `unknown`), the three
endings to `Answer`, and everything else to a stutter. `ReviewedCorrect` proves
`UnracedActsOnReviewed` from `ReviewInv`: past its preflight a request's form agrees with
what it read, and, since the voters change only together with the index, the voters it
counted are the voters as long as the index stands.

`AdministrationProofs` proves, for every set of requests, mounts and workloads,
`PlaneEvidenceFirst`, `PlaneAuditedMutation` (`Spec => AM!Spec`), `PlaneReviewed` and
`PlaneTypeCorrect`. `EvidenceInv` says which stages lie behind the authorization: a request
in `prelude` or `send`, and every call that has left, has its row. Rows are only added,
`Authorize` alone enters these stages from before them and writes the row in the same step,
only `Send` starts a call, and OpenBao decides only calls that were sent. `PlaneInv` adds for
each request `Claims` (no row before the authorization, no call before the send, `executed`
behind every acceptance, a call that never started or was refused behind every refusal of a
tracked mutation) and `Review` (what the stages passed so far have compared: the digest with
the document read, the kind with the mount found, the parameter and the confirmation with
the form, the inventory and the impact with what was read). `Review` is what makes
`UnracedActsOnReviewed` inductive: at `send` the comparisons are long past, and only the
stage says that they were made. The mapping is the one of the cluster. `PlaneAssumption`
asks of a workload that its tasks are `Disciplined` (metadata is read with GET, engine
lists are GET, only remount and disable of an engine ask for a confirmation);
`RegistriesDisciplined` proves that of every contract the registries and the explorer have,
so the assumption excludes no task the code can run.

`CredentialEstateProofs` proves, for every set of workers and every workload, `PrefixCorrect`,
`RotationsCorrect`, `MemoCorrect` and `IdentityCorrect`. None of the four properties is
inductive: each speaks of committed rows or of a call at its end, and what is committed next
is in a transaction that another worker has open. `EstateInv` says what that can be:

* `LockInv`: no lock has two holders, and a settings or material row somebody holds is there
  (only its holder could remove it);
* `StepOK`: which requests take which step, and what each step has locked. `PrefixReady` is
  what `_lock_for_prefix_write` gives: the settings row is held, or the advisory lock is and
  there is no row. Two transactions are never both ready, because a row that is held exists;
* `SettingsOwn`, `CredentialOwn`, `MaterialOwn`: what a commit would write. A settings row
  agrees with every stored credential, a credential with the stored settings row, both in a
  transaction that is ready; a rotation has merged its fields onto the row it still holds,
  with the next revision;
* `MemoOK`: the memo is a row of the request's lifetime. An uncommitted settings write is
  marked `pending` (`SettingsOwn`), so nothing read inside its transaction is remembered.

A commit then keeps the invariant of the *others*: what they are ready for, nobody but them
can have written. The lemma `OneReady` is that argument for the prefix; the row lock of the
material is the same for rotations. The four properties follow, `IdentityCurrent` through a
second invariant. `IdentityInv` says that revisions only grow and are never reused for other
fields, that every token, pooled session and client goes by the revision whose fields it was
made with (so keeping one after its invalidation, or in another process, is harmless), and
that what a call has loaded is no older than the revision it read last; between that read and
the reload of the row the row may be rotated again, which only raises it, or withdrawn, which
ends the call. `EstateAssumption` asks of a workload's initial rows (`Sound`) what the schema
gives, one record to a key and material with all its fields and a natural revision, and that
the property to be kept holds at the start: credentials lie under the stored prefix.

`CredentialTypesProofs` proves `TypesKept`, the type invariant. It is far
from inductive: what a step reads of its connection (the assignment a
signal captured, the owner to rebind, the callback at the head of the list) is there because an
earlier step loaded it. `TypesInv` says for each step what that is (`Stage`), at which steps a
transaction is open, and when callbacks may be registered. The bound on callbacks is of the
code, whatever the workload: a reassignment registers the refreshes of both owners, a deletion
one refresh and one destruction, every other unit of work one at most.

`CredentialFateProofs` proves `MaterialKept`, `DeletionsHold` and `ProjectionsCurrent`. The
first two rest on two facts of the code. A row's key is drawn for it alone (a uuid, a
sequence), so the rows a request has still to insert (`Draft`) are of nobody else; and a
deletion takes the projection lock of its credential before it removes the row, holds it to its
COMMIT, and destroys the material only afterwards. `FateInv` says who may have written a row
under a drawn key (`Inserting`, `Removing`), that what is still to be destroyed is deleted in
the same transaction or is already gone (`DoomOK`), which locks deletions and publishers hold
at their steps (`Ordered`), that no draft is of a deleted credential or one under deletion,
and that deleted material is destroyed, drifts, or has a living worker that is yet to destroy
it (`Gone`). `RowHasMaterial` is inductive with these.

`ProjectionCurrent` speaks of quiet states only; `MirrorInv` says what leads there. If OpenBao
lists something else than NetBox has bound, a committed worker is still to publish (`Waiting`)
or is just sending (`Sending`); and if what is being sent has been overtaken by a commit, some
other worker is still waiting. A commit that writes an assignment has a callback for its owner
(`Announced`); an owner it is taken from without one is in `drift`, which the property excepts.
A publisher reads the bound targets after it has the projection lock and holds the lock
until the answer, so two publishers of one credential are never between their read and their
answer at once (`FateInv.Ordered`): without the lock the older list could arrive last, which is
the mutant of this property.

`KeyAssumption` asks of a workload what Django and PostgreSQL give: the rows under drawn keys
are not in use before they are drawn, each is drawn by one request, the initial rows are typed,
finitely many, and satisfy their foreign keys and the unique constraint on `import_source`,
and a request names objects that may exist.

`CredentialSharingProofs` proves `ServicesShared`, `SecretsImportedOnce` and
`ImportsAreComplete`, about what requests of several workers make together.

`SharedInv` is about quick add, whose rows no unique constraint protects. `ServiceShared` speaks
of committed rows; which row a quick add *will* commit was decided by a SELECT some statements
ago. `Adds` says which locks it has at each step: the advisory lock of the network from the
lookup of the address on, the row of the parent from the lookup of the service on, both to the
COMMIT. `AddressOwn` and `ServiceOwn` say what an open transaction has written under them: the
only address of its network that its caller may view; the only service of its name on its
parent, which has the requested port and all the ports that are stored. Two transactions cannot
be there at once for one parent, since
`Hosted` says the parent is a row that is there to be locked. `Promised` keeps the
earlier requests: a port a committed quick add asked for belongs to a service that still exists,
hence to one that a later quick add finds and widens instead of making another. Without the
locks both would find nothing and insert, which is the mutant of this property.
The history variable `asked` also pairs a new address with those of the table its caller could
not see when it was committed (`Unseen`): only these may be of the same network, so an address
beside one the caller may view, which the lock of the network prevents, violates the property.
Services need no such exception: their lookup is not restricted. `SharedAssumption` asks that
the property holds at the start: nobody made two services of one name on a parent, or two
addresses of one network, by hand, which the plugin could not repair.

`ImportInv` is about the importers. What a run knows of the markers is a snapshot that other
runs outdate; the unique constraint on `import_source` refuses the second insertion, and the
prefix lock of `Credential.save` (`PrefixReady`, of `EstateInv`) keeps it behind the COMMIT of
the first. `OneSecret` says that stored markers are unique, `Marker` that an open transaction
writes one credential at most, with a marker no stored one has, `SecretOwn` that from its
insertion to its COMMIT an importer's transaction has the credential of its item, and at the
COMMIT the assignment too, and `Reported` that what a run knows or reports is stored.
`ImportedOnce` excepts reports after a deletion, which may of course remove what was
imported. `ImportsComplete` is an action property because the assignment may be removed later; a
crash anywhere inside an item leaves both rows or none, which is what the importer's docstring
calls per-secret atomic.

Only model-checked: the liveness properties (`RequestsFinish`, `CheckAndSetHeals`,
`ImplementsFairOneUse`, every `RequestsConclude`), which need fairness and `ENABLED`, out of
the prover's reach. Every invariant and action property of a passing run is proved. The
properties of the four violated runs are the repository's claims, and false.

## 6. Not modelled, and why

* Format work: validation of fields, parsing of keys, TLS, rendering, filters. No shared
  state, nothing for a model checker to interleave.
* Which fields of a bundle automation returns, and the wording of audit rows.
* KV v1: the engine model refuses it.
* The RPC plugin that signs dispatches, PostgreSQL and OpenBao themselves: modelled from
  how the code uses them, marked external where a definition stands for them.
* The policy gate: permission lookups on the committed row, no state of its own; automation
  re-checks them through `granted`.
* Primary flags, SSH host keys and connection resolution of assignments; procedure runs, which
  only record a request to another plugin; health, rotation-due and pruning jobs, which report
  or delete old log rows.
* The content of audit and access-log rows, and the audit rows of settings changes.
* The user interface and the browser code: they call the operations above.
