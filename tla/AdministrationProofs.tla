-------------------------- MODULE AdministrationProofs --------------------------
(***************************************************************************)
(* The administration planes, for every set of requests, mounts and tasks  *)
(* and any number of changes made elsewhere: evidence comes first, the     *)
(* registries are disciplined, the planes implement AuditedMutation, an    *)
(* unraced call acts on what was reviewed, and every variable is typed.    *)
(*                                                                         *)
(* EvidencePrecedesEffect is not inductive: that a call which leaves has   *)
(* its row follows from the stages the request passed.  EvidenceInv says   *)
(* which stages lie behind the authorization.  PlaneInv adds what a        *)
(* request may claim about its call (Claims) and what its preflight has    *)
(* compared (Review) at each stage.                                        *)
(***************************************************************************)
EXTENDS AdministrationPlane, TLAPS

\* The stages between the durable authorization and the call.
Cleared == {"prelude", "send"}

EvidenceInv ==
    /\ stage \in [Request -> Stage]
    /\ flight \in [Request -> Flight]
    /\ \A r \in Request : stage[r] \in Cleared \/ flight[r] # "none" => r \in Authorized

--------------------------------------------------------------------------------
\* Audit rows are only added, so what was authorized stays authorized.
LEMMA AuthorizedGrows ==
    ASSUME audit \subseteq audit'
    PROVE  Authorized \subseteq Authorized'
BY DEF Authorized

\* A request that goes on without crossing the authorization keeps the invariant.
LEMMA MoveKeeps ==
    ASSUME EvidenceInv, NEW r \in Request, NEW s \in Stage \ Cleared,
           Goto(r, s), UNCHANGED flight, audit \subseteq audit'
    PROVE  EvidenceInv'
<1>1. /\ stage' \in [Request -> Stage]
      /\ \A q \in Request : stage'[q] = IF q = r THEN s ELSE stage[q]
  BY DEF EvidenceInv, Goto
<1>2. \A q \in Request : stage'[q] \in Cleared => stage[q] \in Cleared
  BY <1>1
<1> QED BY <1>1, <1>2, AuthorizedGrows DEF EvidenceInv

\* So does a step that leaves stages, calls and audit rows alone.
LEMMA StutterKeeps ==
    ASSUME EvidenceInv, UNCHANGED <<stage, flight, audit>>
    PROVE  EvidenceInv'
BY DEF EvidenceInv, Authorized

\* Raising, answering and recording never cross the authorization.
LEMMA EndingsKeep ==
    ASSUME EvidenceInv, NEW r \in Request, UNCHANGED flight, audit \subseteq audit',
           Raise(r) \/ \E v : Answer(r, v)
    PROVE  EvidenceInv'
<1>1. PICK s \in {"fail", "done"} : Goto(r, s)
  BY DEF Raise, Answer
<1>2. s \in Stage \ Cleared
  BY DEF Stage, Cleared
<1> QED BY <1>1, <1>2, MoveKeeps

\* The record of a phase is added to the audit rows.
LEMMA LogGrows ==
    ASSUME NEW r, NEW p, Log(r, p) \/ UNCHANGED audit
    PROVE  audit \subseteq audit'
BY DEF Log

\* The capability document leads to another read, an observation or the authorization.
LEMMA AfterDiscoverStage ==
    ASSUME NEW t, NEW kind
    PROVE  AfterDiscover(t, kind) \in Stage \ Cleared
BY DEF AfterDiscover, Stage, Reading, Cleared

--------------------------------------------------------------------------------
\* Submissions and refusals of the serializers.
LEMMA SubmitKeeps ==
    ASSUME EvidenceInv, NEW r \in Request, NEW f, NEW v, Submit(r, f, v) \/ Reject(r, f)
    PROVE  EvidenceInv'
<1>1. CASE Submit(r, f, v)
  <2>1. Goto(r, "seal") /\ UNCHANGED <<flight, audit>>
    BY <1>1 DEF Submit, Proceed
  <2>2. "seal" \in Stage \ Cleared
    BY DEF Stage, Reading, Cleared
  <2> QED BY <2>1, <2>2, MoveKeeps
<1>2. CASE Reject(r, f)
  BY <1>2, EndingsKeep DEF Reject
<1> QED BY <1>1, <1>2

\* The first call of every view.
LEMMA BeginKeeps ==
    ASSUME EvidenceInv, NEW r \in Request, Begin(r)
    PROVE  EvidenceInv'
<1>1. PICK t : \/ AdministerEngine(r, t) \/ ExecuteMounted(r, t, Document)
               \/ AdministerAuth(r, t) \/ AdministerResource(r, t, Document)
  BY DEF Begin
<1>2. CASE AdministerEngine(r, t)
  <2>1. PICK f, v : Submit(r, f, v) \/ Reject(r, f)
    BY <1>2, Zenon DEF AdministerEngine
  <2> QED BY <2>1, SubmitKeeps
<1>3. CASE ExecuteMounted(r, t, Document)
  <2>1. PICK f, v : Submit(r, f, v)
    BY <1>3, Zenon DEF ExecuteMounted
  <2> QED BY <2>1, SubmitKeeps
<1>4. CASE AdministerAuth(r, t)
  <2>1. PICK f, v : Submit(r, f, v) \/ Reject(r, f)
    BY <1>4, Zenon DEF AdministerAuth
  <2> QED BY <2>1, SubmitKeeps
<1>5. CASE AdministerResource(r, t, Document)
  <2>1. PICK f, v : Submit(r, f, v) \/ Reject(r, f)
    BY <1>5, Zenon DEF AdministerResource
  <2> QED BY <2>1, SubmitKeeps
<1> QED BY <1>1, <1>2, <1>3, <1>4, <1>5

\* The reads of the skeleton and the metadata records.
LEMMA ReadKeeps ==
    ASSUME EvidenceInv, NEW r \in Request, NEW document,
           SealStatus(r) \/ Discover(r, document) \/ ReadFails(r) \/ ReadUnknown(r)
           \/ Observe(r) \/ ObserveFails(r)
    PROVE  EvidenceInv'
<1>1. CASE SealStatus(r)
  <2>1. UNCHANGED <<flight, audit>> /\ (Goto(r, "discover") \/ Raise(r))
    BY <1>1 DEF SealStatus, Proceed
  <2>2. "discover" \in Stage \ Cleared
    BY DEF Stage, Reading, Cleared
  <2> QED BY <2>1, <2>2, MoveKeeps, EndingsKeep
<1>2. CASE Discover(r, document)
  <2>1. /\ UNCHANGED <<flight, audit>>
        /\ Goto(r, AfterDiscover(form[r].task, view[r].kind)) \/ Raise(r)
    BY <1>2 DEF Discover, Proceed
  <2> QED BY <2>1, AfterDiscoverStage, MoveKeeps, EndingsKeep
<1>3. CASE ReadFails(r)
  BY <1>3, EndingsKeep DEF ReadFails
<1>4. CASE ReadUnknown(r)
  <2>1. UNCHANGED <<flight, audit>> /\ (Goto(r, "unknown") \/ Answer(r, "broken"))
    BY <1>4 DEF ReadUnknown, Proceed
  <2>2. "unknown" \in Stage \ Cleared
    BY DEF Stage, Cleared
  <2> QED BY <2>1, <2>2, MoveKeeps, EndingsKeep
<1>5. CASE Observe(r)
  BY <1>5, EndingsKeep, LogGrows DEF Observe
<1>6. CASE ObserveFails(r)
  BY <1>6, EndingsKeep, LogGrows DEF ObserveFails
<1> QED BY <1>1, <1>2, <1>3, <1>4, <1>5, <1>6

\* The authorization writes the row it is named for, and only then opens the way.
LEMMA AuthorizeKeeps ==
    ASSUME EvidenceInv, NEW r \in Request, Authorize(r)
    PROVE  EvidenceInv'
<1>1. PICK s \in Cleared : Goto(r, s)
  BY DEF Authorize, Proceed, Cleared
<1>2. /\ UNCHANGED flight /\ audit \subseteq audit'
      /\ [req |-> r, phase |-> "authorized"] \in audit'
  BY DEF Authorize, Log
<1>3. r \in Authorized'
  BY <1>2 DEF Authorized
<1>4. /\ stage' \in [Request -> Stage]
      /\ \A q \in Request \ {r} : stage'[q] = stage[q]
  BY <1>1 DEF EvidenceInv, Goto, Stage, Reading, Cleared
<1> QED BY <1>2, <1>3, <1>4, AuthorizedGrows DEF EvidenceInv

\* The call and what precedes it start from a stage behind the authorization.
LEMMA CallKeeps ==
    ASSUME EvidenceInv, NEW r \in Request,
           Fetch(r) \/ AuthorizeFails(r) \/ Send(r) \/ SendFails(r)
    PROVE  EvidenceInv'
<1>1. CASE Fetch(r) /\ stage[r] = "fetch"
  <2>1. Goto(r, "observe") /\ UNCHANGED <<flight, audit>>
    BY <1>1 DEF Fetch, Proceed
  <2>2. "observe" \in Stage \ Cleared
    BY DEF Stage, Cleared
  <2> QED BY <2>1, <2>2, MoveKeeps
<1>2. CASE Fetch(r) /\ stage[r] = "prelude"
  <2>1. stage' = [stage EXCEPT ![r] = "send"] /\ UNCHANGED <<flight, audit>>
    BY <1>2 DEF Fetch, Proceed, Goto
  <2>2. stage' \in [Request -> Stage] /\ \A q \in Request : stage'[q] \in Cleared => stage[q] \in Cleared
    BY <1>2, <2>1 DEF EvidenceInv, Stage, Cleared
  <2> QED BY <2>1, <2>2, AuthorizedGrows DEF EvidenceInv
<1>3. CASE AuthorizeFails(r)
  BY <1>3, EndingsKeep, LogGrows DEF AuthorizeFails
<1>4. CASE Send(r)
  <2>1. /\ stage' = [stage EXCEPT ![r] = "wait"]
        /\ flight' = [flight EXCEPT ![r] = "sent"]
        /\ UNCHANGED audit /\ stage[r] = "send"
    BY <1>4 DEF Send, Proceed, Goto
  <2>2. /\ stage' \in [Request -> Stage] /\ flight' \in [Request -> Flight]
        /\ \A q \in Request \ {r} : stage'[q] = stage[q] /\ flight'[q] = flight[q]
    BY <2>1 DEF EvidenceInv, Stage, Flight
  <2>3. r \in Authorized
    BY <2>1 DEF EvidenceInv, Cleared
  <2> QED BY <2>1, <2>2, <2>3, AuthorizedGrows DEF EvidenceInv
<1>5. CASE SendFails(r)
  BY <1>5, EndingsKeep DEF SendFails
<1> QED BY <1>1, <1>2, <1>3, <1>4, <1>5 DEF Fetch

\* The answer, as the transport reports it, and the follow-up records.
LEMMA OutcomeKeeps ==
    ASSUME EvidenceInv, NEW r \in Request,
           ReplyAccepted(r) \/ ReplyRefused(r) \/ NoVerdict(r) \/ ReplyUnparsed(r)
           \/ Complete(r) \/ Fail(r) \/ Unknown(r) \/ Crash(r)
    PROVE  EvidenceInv'
<1>0. {"complete", "unknown", "dead"} \subseteq Stage \ Cleared
  BY DEF Stage, Cleared
<1>1. CASE ReplyAccepted(r)
  <2>1. Goto(r, "complete") /\ UNCHANGED <<flight, audit>>
    BY <1>1 DEF ReplyAccepted, Proceed
  <2> QED BY <1>0, <2>1, MoveKeeps
<1>2. CASE ReplyRefused(r)
  BY <1>2, EndingsKeep DEF ReplyRefused
<1>3. CASE NoVerdict(r)
  <2>1. UNCHANGED <<flight, audit>> /\ (Goto(r, "unknown") \/ Raise(r))
    BY <1>3 DEF NoVerdict, Proceed
  <2> QED BY <1>0, <2>1, MoveKeeps, EndingsKeep
<1>4. CASE ReplyUnparsed(r)
  BY <1>4, EndingsKeep DEF ReplyUnparsed
<1>5. CASE Complete(r)
  BY <1>5, EndingsKeep, LogGrows DEF Complete
<1>6. CASE Fail(r)
  BY <1>6, EndingsKeep, LogGrows DEF Fail
<1>7. CASE Unknown(r)
  BY <1>7, EndingsKeep, LogGrows DEF Unknown
<1>8. CASE Crash(r)
  <2>1. Goto(r, "dead") /\ UNCHANGED <<flight, audit>>
    BY <1>8 DEF Crash, Proceed
  <2> QED BY <1>0, <2>1, MoveKeeps
<1> QED BY <1>1, <1>2, <1>3, <1>4, <1>5, <1>6, <1>7, <1>8

\* The reads of the planes: mounts, resolution and impact.
LEMMA PlaneReadKeeps ==
    ASSUME EvidenceInv, NEW r \in Request,
           EngineMounts(r) \/ PrepareMounted(r) \/ ResolveMount(r) \/ Resolved(r) \/ ReadImpact(r)
    PROVE  EvidenceInv'
<1>0. {"audit", "observe", "fetch", "resolved", "seal", "impact"} \subseteq Stage \ Cleared
  BY DEF Stage, Reading, Cleared
<1>1. CASE EngineMounts(r)
  <2>1. /\ UNCHANGED <<flight, audit>>
        /\ Goto(r, "audit") \/ Goto(r, "observe") \/ Goto(r, "fetch") \/ Raise(r)
    BY <1>1 DEF EngineMounts, Proceed
  <2> QED BY <1>0, <2>1, MoveKeeps, EndingsKeep
<1>2. CASE PrepareMounted(r)
  <2>1. UNCHANGED <<flight, audit>> /\ (Goto(r, "audit") \/ Answer(r, "invalid"))
    BY <1>2 DEF PrepareMounted, Proceed
  <2> QED BY <1>0, <2>1, MoveKeeps, EndingsKeep
<1>3. CASE ResolveMount(r)
  <2>1. UNCHANGED <<flight, audit>> /\ (Goto(r, "resolved") \/ Raise(r))
    BY <1>3 DEF ResolveMount, Proceed
  <2> QED BY <1>0, <2>1, MoveKeeps, EndingsKeep
<1>4. CASE Resolved(r)
  <2>1. UNCHANGED flight /\ Log(r, "observed") /\ (Goto(r, "seal") \/ Answer(r, "invalid"))
    BY <1>4 DEF Resolved, Proceed
  <2> QED BY <1>0, <2>1, MoveKeeps, EndingsKeep, LogGrows
<1>5. CASE ReadImpact(r)
  <2>1. /\ UNCHANGED <<flight, audit>>
        /\ Goto(r, "impact") \/ Goto(r, "observe") \/ Goto(r, "audit") \/ Raise(r)
    BY <1>5 DEF ReadImpact, Proceed
  <2> QED BY <1>0, <2>1, MoveKeeps, EndingsKeep
<1> QED BY <1>1, <1>2, <1>3, <1>4, <1>5

\* OpenBao only decides calls that have left.
LEMMA OpenBaoKeeps ==
    ASSUME EvidenceInv, NEW r \in Request, OpenBao(r)
    PROVE  EvidenceInv'
<1>1. PICK f \in {"executed", "refused", "lost"} : Arrive(r, f)
  BY DEF OpenBao, Turned, EngineEffect, AuthEffect, ResourceEffect
<1>2. /\ flight[r] = "sent" /\ flight' = [flight EXCEPT ![r] = f]
      /\ UNCHANGED <<stage, audit>>
  BY <1>1 DEF Arrive
<1>3. /\ flight' \in [Request -> Flight]
      /\ \A q \in Request : flight'[q] # "none" => flight[q] # "none"
  BY <1>2 DEF EvidenceInv, Flight
<1> QED BY <1>2, <1>3, AuthorizedGrows DEF EvidenceInv

--------------------------------------------------------------------------------
\* Every step of the planes keeps the invariant.
LEMMA EvidenceStep ==
    ASSUME EvidenceInv, [Next]_vars
    PROVE  EvidenceInv'
<1>1. CASE UNCHANGED vars
  BY <1>1, StutterKeeps DEF vars, guardedVars, requestVars
<1>2. CASE Elsewhere
  <2>1. UNCHANGED requestVars
    BY <1>2 DEF Elsewhere, ServiceChanges, EngineElsewhere, StoreCredential, DeleteCredentials,
                ReplaceEngine, ReplaceMethod, ResourceElsewhere, Outside
  <2> QED BY <2>1, StutterKeeps DEF requestVars
<1>3. ASSUME NEW r \in Request, Begin(r)
      PROVE  EvidenceInv'
  BY <1>3, BeginKeeps
<1>4. ASSUME NEW r \in Request, Work(r)
      PROVE  EvidenceInv'
  <2>1. \/ Handle(r, Document)
        \/ EngineMounts(r) \/ PrepareMounted(r) \/ ResolveMount(r) \/ Resolved(r) \/ ReadImpact(r)
    BY <1>4 DEF Work
  <2> QED BY <2>1, ReadKeeps, AuthorizeKeeps, CallKeeps, OutcomeKeeps, PlaneReadKeeps DEF Handle
<1>5. ASSUME NEW r \in Request, OpenBao(r)
      PROVE  EvidenceInv'
  BY <1>5, OpenBaoKeeps
<1>6. ASSUME NEW r \in Request, Crash(r)
      PROVE  EvidenceInv'
  BY <1>6, OutcomeKeeps
<1> QED BY <1>1, <1>2, <1>3, <1>4, <1>5, <1>6 DEF Next

\* No call of the engine, authentication, access and final planes leaves NetBox before
\* its authorization row is committed (EvidencePrecedesEffect), whatever registry the
\* tasks come from, however many requests run and whatever changes elsewhere.
THEOREM PlaneEvidenceFirst == Spec => []EvidencePrecedesEffect
<1>1. Init => EvidenceInv
  BY DEF Init, GuardedInit, EvidenceInv, Stage, Flight, Cleared
<1>2. EvidenceInv /\ [Next]_vars => EvidenceInv'
  BY EvidenceStep
<1>3. EvidenceInv => EvidencePrecedesEffect
  BY DEF EvidenceInv, EvidencePrecedesEffect, Dispatched
<1> QED BY <1>1, <1>2, <1>3, PTL DEF Spec

--------------------------------------------------------------------------------
(***************************************************************************)
(* The registries.  The views rely on what Disciplined says of a contract  *)
(* without checking it; the registries of administration/ provide it.      *)
(***************************************************************************)

\* The names of the metadata reads.
Metadata == {"catalog", "conformance", "preview"}

\* A contract with the shape of a record, and what Disciplined asks of it.
SoundContract(c) ==
    /\ c = [id |-> c.id, kind |-> c.kind, method |-> c.method, risk |-> c.risk,
            confirm |-> c.confirm]
    /\ c.risk \in {"read", "write", "destructive"} /\ c.confirm \in BOOLEAN
    /\ c.id \in Metadata => c.method = "GET"

\* The fields of a contract.
LEMMA ContractFields ==
    ASSUME NEW kind, NEW method, NEW risk, NEW confirm, NEW ids,
           NEW c \in Contracts(kind, method, risk, confirm, ids)
    PROVE  /\ c = [id |-> c.id, kind |-> c.kind, method |-> c.method, risk |-> c.risk,
                   confirm |-> c.confirm]
           /\ c.id \in ids /\ c.method = method /\ c.risk = risk /\ c.confirm = confirm
BY DEF Contracts

\* A table is sound when it is of reads, or names none of the metadata reads.
LEMMA ContractsSound ==
    ASSUME NEW kind, NEW method, NEW risk \in {"read", "write", "destructive"},
           NEW confirm \in BOOLEAN, NEW ids,
           method = "GET" \/ ids \cap Metadata = {}
    PROVE  \A c \in Contracts(kind, method, risk, confirm, ids) : SoundContract(c)
<1> SUFFICES ASSUME NEW c \in Contracts(kind, method, risk, confirm, ids)
             PROVE  SoundContract(c)
  OBVIOUS
<1>1. /\ c = [id |-> c.id, kind |-> c.kind, method |-> c.method, risk |-> c.risk,
              confirm |-> c.confirm]
      /\ c.id \in ids /\ c.method = method /\ c.risk = risk /\ c.confirm = confirm
  BY ContractFields
<1> QED BY <1>1 DEF SoundContract

\* The tables for reads, writes and destructive operations, and the four of a resource.
LEMMA TablesSound ==
    /\ \A kind, ids : \A c \in Reads(kind, ids) : SoundContract(c)
    /\ \A kind, method, ids : ids \cap Metadata = {} =>
         \A c \in Writes(kind, method, ids) \cup Destroys(kind, method, ids) : SoundContract(c)
<1>1. ASSUME NEW kind, NEW ids, NEW c \in Reads(kind, ids) PROVE SoundContract(c)
  BY <1>1, ContractsSound DEF Reads
<1>2. ASSUME NEW kind, NEW method, NEW ids, ids \cap Metadata = {},
             NEW c \in Writes(kind, method, ids) \cup Destroys(kind, method, ids)
      PROVE  SoundContract(c)
  BY <1>2, ContractsSound DEF Writes, Destroys
<1> QED BY <1>1, <1>2

\* The four operations on a resource: list, read, write, delete.
LEMMA CrudSound == \A kind : \A c \in Crud(kind) : SoundContract(c)
<1>1. {"write"} \cap Metadata = {} /\ {"delete"} \cap Metadata = {}
  BY DEF Metadata
<1> QED BY <1>1, TablesSound DEF Crud

\* The first-class journeys, engine by engine.
LEMMA JourneysSound == \A c \in ENGINE_JOURNEYS : SoundContract(c)
<1> USE TablesSound DEF Metadata
<1>1. \A c \in KV1 \cup KV2Data \cup KV2Metadata : SoundContract(c)
  BY DEF KV1, KV2Data, KV2Metadata
<1>2. \A c \in TransitKeys \cup TransitOperations : SoundContract(c)
  BY DEF TransitKeys, TransitOperations
<1>3. \A c \in DatabaseRoles \cup DatabaseCredentials : SoundContract(c)
  BY DEF DatabaseRoles, DatabaseCredentials
<1>4. \A c \in SSH \cup TOTP \cup KUBERNETES : SoundContract(c)
  BY DEF SSH, TOTP, KUBERNETES
<1>5. \A c \in PKIConfiguration \cup PKIIssuers \cup PKIKeys : SoundContract(c)
  BY DEF PKIConfiguration, PKIIssuers, PKIKeys
<1>6. \A c \in PKIRoles \cup PKIIssuance \cup PKIRoots \cup PKITidy : SoundContract(c)
  BY DEF PKIRoles, PKIIssuance, PKIRoots, PKITidy
<1> QED BY <1>1, <1>2, <1>3, <1>4, <1>5, <1>6 DEF ENGINE_JOURNEYS

\* The explorer derives risk and confirmation, and keeps the rest of a contract.
LEMMA ExplorerSound ==
    ASSUME NEW c, SoundContract(c)
    PROVE  SoundContract(ExplorerContract(c))
<1>1. _mounted_operation_risk(c) \in {"read", "write", "destructive"}
  BY DEF _mounted_operation_risk
<1>2. PICK b \in BOOLEAN : b = (_mounted_operation_risk(c) = "destructive")
  OBVIOUS
<1>3. ExplorerContract(c) = [id |-> c.id, kind |-> c.kind, method |-> c.method,
                             risk |-> _mounted_operation_risk(c), confirm |-> b]
  BY <1>2, Zenon DEF ExplorerContract
<1> QED BY <1>1, <1>3 DEF SoundContract

\* The engine lifecycle: listings are reads, and only a remount or a disable is confirmed.
LEMMA EngineOperationsSound ==
    \A c \in ENGINE_LIFECYCLE_OPERATIONS :
        /\ SoundContract(c)
        /\ c.id \in {"list", "status", "operations"} => c.method = "GET"
        /\ c.confirm => c.id \in {"remount", "disable"}
<1> SUFFICES ASSUME NEW c \in ENGINE_LIFECYCLE_OPERATIONS
             PROVE  /\ SoundContract(c)
                    /\ c.id \in {"list", "status", "operations"} => c.method = "GET"
                    /\ c.confirm => c.id \in {"remount", "disable"}
  OBVIOUS
<1> USE DEF Metadata
<1>0. SoundContract(c)
  BY TablesSound, ContractsSound DEF ENGINE_LIFECYCLE_OPERATIONS
<1>1. CASE c \in Reads("engine", {"list", "configuration", "tuning", "status", "operations",
                                  "journeys"})
  <2>1. c.method = "GET" /\ c.confirm = FALSE
    BY <1>1 DEF Reads, Contracts
  <2> QED BY <1>0, <2>1
<1>2. CASE c \in Writes("engine", "POST", {"enable", "tune"})
  <2>1. c.id \in {"enable", "tune"} /\ c.confirm = FALSE
    BY <1>2 DEF Writes, Contracts
  <2> QED BY <1>0, <2>1
<1>3. CASE c \in Contracts("engine", "POST", "write", TRUE, {"remount"})
  <2>1. c.id \in {"remount"}
    BY <1>3, ContractFields
  <2> QED BY <1>0, <2>1
<1>4. CASE c \in Destroys("engine", "DELETE", {"disable"})
  <2>1. c.id \in {"disable"}
    BY <1>4, ContractFields DEF Destroys
  <2> QED BY <1>0, <2>1
<1> QED BY <1>1, <1>2, <1>3, <1>4 DEF ENGINE_LIFECYCLE_OPERATIONS

\* Auth methods, their resources and configurations, logins, MFA and tokens.
LEMMA AuthSound ==
    \A c \in UNION {AUTH_LIFECYCLE, AUTH_RESOURCE_REGISTRY, AUTH_CONFIG_OPERATION_IDS,
                    LOGIN_OPERATION_IDS, AppRoleOperations, OIDCOperations, MFAOperations,
                    TOKEN_OPERATION_IDS} : SoundContract(c)
<1> USE TablesSound DEF Metadata
<1>1. \A c \in AUTH_LIFECYCLE \cup MFAOperations : SoundContract(c)
  BY DEF AUTH_LIFECYCLE, MFAOperations
<1>2. \A c \in AUTH_RESOURCE_REGISTRY : SoundContract(c)
  BY CrudSound DEF AUTH_RESOURCE_REGISTRY
<1>3. \A c \in AUTH_CONFIG_OPERATION_IDS : SoundContract(c)
  BY DEF AUTH_CONFIG_OPERATION_IDS
<1>4. \A c \in LOGIN_OPERATION_IDS : SoundContract(c)
  BY DEF LOGIN_OPERATION_IDS
<1>5. \A c \in AppRoleOperations : SoundContract(c)
  BY ContractsSound DEF AppRoleOperations
<1>6. \A c \in OIDCOperations : SoundContract(c)
  BY DEF OIDCOperations
<1>7. \A c \in TOKEN_OPERATION_IDS : SoundContract(c)
  BY ContractsSound DEF TOKEN_OPERATION_IDS
<1> QED BY <1>1, <1>2, <1>3, <1>4, <1>5, <1>6, <1>7

\* Access and final resources with their catalogs and previews.
LEMMA ResourcesSound ==
    /\ \A c \in ACCESS_RESOURCES \cup Reads("access", {"catalog", "preview"}) : SoundContract(c)
    /\ \A c \in FINAL_RESOURCES \cup Reads("leases", {"catalog", "conformance", "preview"}) :
         SoundContract(c)
<1> USE TablesSound DEF Metadata
<1>1. \A c \in Policies \cup Entities \cup Groups : SoundContract(c)
  BY CrudSound DEF Policies, Entities, Groups
<1>2. \A c \in OIDCClients \cup OIDCKeys \cup OIDCScopes \cup Crud("namespaces") : SoundContract(c)
  BY CrudSound DEF OIDCClients, OIDCKeys, OIDCScopes
<1>3. \A c \in ACCESS_RESOURCES : SoundContract(c)
  BY <1>1, <1>2 DEF ACCESS_RESOURCES
<1>4. \A c \in Leases \cup Wrapping : SoundContract(c)
  BY ContractsSound DEF Leases, Wrapping
<1>5. \A c \in Tools \cup UIHeaders : SoundContract(c)
  BY ContractsSound DEF Tools, UIHeaders
<1>6. \A c \in FINAL_RESOURCES : SoundContract(c)
  BY <1>4, <1>5 DEF FINAL_RESOURCES
<1> QED BY <1>3, <1>6

\* A task carries the fields of its contract and the name of its plane.
LEMMA TaskFields ==
    ASSUME NEW plane, NEW S, NEW t \in Task(plane, S)
    PROVE  \E c \in S : /\ t.plane = plane /\ t.id = c.id /\ t.method = c.method
                        /\ t.risk = c.risk /\ t.confirm = c.confirm
BY DEF Task

\* Outside the engine plane a sound table makes disciplined tasks.
LEMMA TasksDisciplined ==
    ASSUME NEW plane, NEW S, \A c \in S : SoundContract(c),
           plane # "engine", NEW t \in Task(plane, S)
    PROVE  Disciplined(t)
<1>1. PICK c \in S : /\ t.plane = plane /\ t.id = c.id /\ t.method = c.method
                     /\ t.risk = c.risk /\ t.confirm = c.confirm
  BY TaskFields
<1> QED BY <1>1 DEF SoundContract, Disciplined, Catalog, Previews, Metadata

\* Every registry is disciplined.
THEOREM RegistriesDisciplined == \A t \in AllTasks : Disciplined(t)
<1>1. ASSUME NEW t \in Task("engine", ENGINE_LIFECYCLE_OPERATIONS) PROVE Disciplined(t)
  <2>1. PICK c \in ENGINE_LIFECYCLE_OPERATIONS :
           /\ t.plane = "engine" /\ t.id = c.id /\ t.method = c.method
           /\ t.risk = c.risk /\ t.confirm = c.confirm
    BY TaskFields
  <2> QED BY <2>1, EngineOperationsSound
          DEF SoundContract, Disciplined, Catalog, Previews, Metadata, Lists
<1>2. \A c \in {ExplorerContract(d) : d \in ENGINE_JOURNEYS} : SoundContract(c)
  BY JourneysSound, ExplorerSound
<1> QED BY <1>1, <1>2, JourneysSound, AuthSound, ResourcesSound, TasksDisciplined DEF AllTasks

--------------------------------------------------------------------------------
(***************************************************************************)
(* Types, claims and reviews.  What a request may claim about its call and *)
(* what its preflight has compared follow from where it stands.            *)
(***************************************************************************)

Shaped(v) == v = [document |-> v.document, kind |-> v.kind, rows |-> v.rows,
                  impact |-> v.impact]

Refusals == {"refused", "invalid", "broken"}
Acceptances == {"accepted", "incomplete"}

\* Stages before the authorization row, and before the one call.
Early == {"idle", "seal", "discover", "mounts", "impact", "fetch", "resolved", "audit", "observe"}
Unsent == Early \cup Cleared

Claims(r) ==
    /\ Disciplined(form[r].task)
    /\ stage[r] \in Early => r \notin Authorized
    /\ stage[r] \in Unsent => flight[r] = "none"
    /\ stage[r] \in {"idle", "fetch", "observe"} => form[r].task.method = "GET"
    /\ stage[r] = "complete" => flight[r] = "executed"
    /\ stage[r] = "fail" =>
         verdict[r] = "refused" /\ (Tracked(r) => flight[r] \in {"none", "refused"})
    /\ stage[r] = "done" /\ Tracked(r) =>
         /\ verdict[r] \in Refusals \cup Acceptances \cup {"unknown"}
         /\ verdict[r] \in Refusals => flight[r] \in {"none", "refused"}
         /\ verdict[r] \in Acceptances => flight[r] = "executed"

\* What the views check before their first call.
Admitted(f, v) ==
    /\ f.task.plane \in {"engine", "access", "final"}
         \/ (f.task.plane = "auth" /\ ~Resolves(f.task)) =>
         (f.task.confirm => f.confirmed)
    /\ f.task.plane \in {"engine", "auth", "journey", "explorer", "access", "final"}
    /\ f.task.plane = "engine" /\ f.task.id = "disable" => f.target \notin v.rows
    /\ f.task.plane \in {"engine", "journey", "explorer"} => f.target \in Mount

\* What the document, the mount list and the impact were compared with.
Bound(f, v) == DigestBound(f.task) => f.digest = v.document
Matched(f, v) == v.kind = f.task.kind /\ (f.task.confirm => f.confirmed)
Compared(f, v) ==
    /\ f.task.confirm => f.confirmed
    /\ f.task.plane = "journey" => v.kind = f.task.kind
    /\ f.task.plane = "explorer" => v.kind # "none" /\ f.target \notin Reserved
    /\ Resolves(f.task) => v.kind = f.task.kind
    /\ f.task.plane \in {"access", "final"} /\ f.task.confirm => f.impact = v.impact

Review(r) ==
    /\ stage[r] \in Unsent \ {"idle"} \/ flight[r] # "none" => Admitted(form[r], view[r])
    /\ stage[r] \in {"mounts", "impact", "fetch", "observe", "audit"} \cup Cleared
         \/ flight[r] # "none" => Bound(form[r], view[r])
    /\ stage[r] \in {"seal", "discover"} /\ Resolves(form[r].task) =>
         view[r].kind = "none" \/ Matched(form[r], view[r])
    /\ stage[r] \in {"audit"} \cup Cleared \/ flight[r] # "none" =>
         Compared(form[r], view[r])
    /\ stage[r] = "impact" =>
         Previews(form[r].task) \/ form[r].task.plane \in {"access", "final"}

ShapeInv ==
    /\ form = [r \in Request |-> form[r]]
    /\ view = [r \in Request |-> view[r]]
    /\ verdict \in [Request -> Verdict]
    /\ \A r \in Request : Shaped(view[r])

PlaneInv ==
    /\ EvidenceInv /\ ShapeInv
    /\ workload \in DOMAIN Workloads
    /\ \A r \in Request : Claims(r) /\ Review(r)

\* Initially nothing is claimed or reviewed.
LEMMA PlaneInit == Init => PlaneInv
<1> SUFFICES ASSUME Init PROVE PlaneInv
  OBVIOUS
<1> USE DEF Init, GuardedInit
<1>1. EvidenceInv
  BY DEF EvidenceInv, Stage, Flight, Cleared
<1>2. ShapeInv
  BY DEF ShapeInv, Shaped, NoView, Verdict
<1>3. ASSUME NEW r \in Request PROVE Claims(r) /\ Review(r)
  <2>1. /\ form[r].task = NoTask /\ stage[r] = "idle" /\ flight[r] = "none"
        /\ r \notin Authorized
    BY DEF NoForm, Authorized
  <2>2. Disciplined(NoTask) /\ NoTask.method = "GET"
    BY DEF NoTask, Disciplined, Catalog, Previews, Lists
  <2> QED BY <2>1, <2>2 DEF Claims, Review, Cleared
<1> QED BY <1>1, <1>2, <1>3 DEF PlaneInv

--------------------------------------------------------------------------------
\* The fields of the forms.
LEMMA EngineFields ==
    ASSUME NEW t, NEW m, NEW d, NEW g, NEW c
    PROVE  LET f == EngineForm(t, m, d, g, c) IN
           f.task = t /\ f.target = m /\ f.dest = d /\ f.digest = g /\ f.confirmed = c
BY DEF EngineForm, NoForm

\* The fields of a form of the auth views.
LEMMA AuthFields ==
    ASSUME NEW t, NEW m, NEW d, NEW c
    PROVE  LET f == AuthForm(t, m, d, c) IN
           f.task = t /\ f.target = m /\ f.dest = d /\ f.confirmed = c
BY DEF AuthForm, NoForm

\* The fields of a form of the access and final views.
LEMMA ResourceFields ==
    ASSUME NEW t, NEW g, NEW i, NEW c
    PROVE  LET f == ResourceForm(t, g, i, c) IN
           f.task = t /\ f.target = "none" /\ f.digest = g /\ f.impact = i /\ f.confirmed = c
BY DEF ResourceForm, NoForm

\* A field of a view is replaced and the others stay.
LEMMA ViewFields ==
    ASSUME NEW v, NEW x, Shaped(v)
    PROVE  /\ LET w == [v EXCEPT !.document = x] IN
              Shaped(w) /\ w.document = x /\ w.kind = v.kind /\ w.rows = v.rows
              /\ w.impact = v.impact
           /\ LET w == [v EXCEPT !.kind = x] IN
              Shaped(w) /\ w.document = v.document /\ w.kind = x /\ w.rows = v.rows
              /\ w.impact = v.impact
           /\ LET w == [v EXCEPT !.impact = x] IN
              Shaped(w) /\ w.document = v.document /\ w.kind = v.kind /\ w.rows = v.rows
              /\ w.impact = x
           /\ LET w == [v EXCEPT !.rows = x] IN
              Shaped(w) /\ w.document = v.document /\ w.kind = v.kind /\ w.rows = x
              /\ w.impact = v.impact
BY DEF Shaped

\* A view that has read nothing.
LEMMA NoViewFields == Shaped(NoView) /\ NoView.kind = "none" /\ NoView.rows = {}
BY DEF Shaped, NoView

\* A form whose fields have their types.
FormTyped(f) ==
    /\ Disciplined(f.task)
    /\ f.target \in Mount \cup AuthMount \cup {"none"}
    /\ f.confirmed \in BOOLEAN

\* The view a request starts with.
Fresh(v) == Shaped(v) /\ v.kind = "none" /\ v.rows \in {{}, rows}

\* What submits an engine lifecycle form.
LEMMA EngineAdmission ==
    ASSUME NEW r \in Request, NEW t, Disciplined(t), t.plane = "engine", AdministerEngine(r, t)
    PROVE  \E f, v : /\ FormTyped(f)
                     /\ (Submit(r, f, v) /\ Admitted(f, v) /\ Fresh(v)) \/ Reject(r, f)
<1>1. PICK m \in Mount, d \in (IF t.id = "remount" THEN Mount ELSE {"none"}),
           c \in (IF t.confirm THEN BOOLEAN ELSE {FALSE}) :
        \/ /\ LifecycleValid(EngineForm(t, m, d, << >>, c))
           /\ Submit(r, EngineForm(t, m, d, << >>, c), [NoView EXCEPT !.rows = rows])
        \/ Reject(r, EngineForm(t, m, d, << >>, c))
  BY Zenon DEF AdministerEngine
<1> DEFINE f == EngineForm(t, m, d, << >>, c)
           v == [NoView EXCEPT !.rows = rows]
<1>2. f.task = t /\ f.target = m /\ f.dest = d /\ f.confirmed = c
  BY EngineFields
<1>3. Shaped(v) /\ v.kind = "none" /\ v.rows = rows
  BY DEF NoView, Shaped
<1> HIDE DEF f, v
<1>4. c \in BOOLEAN
  BY DEF Disciplined
<1>5. FormTyped(f)
  BY <1>2, <1>4 DEF FormTyped
<1>6. LifecycleValid(f) => Admitted(f, v)
  BY <1>2, <1>3 DEF LifecycleValid, Admitted, Disciplined
<1> QED BY <1>1, <1>3, <1>5, <1>6 DEF f, v, Fresh

\* What submits a journey or an explorer operation.
LEMMA MountedAdmission ==
    ASSUME NEW r \in Request, NEW t, Disciplined(t), t.plane \in {"journey", "explorer"},
           ExecuteMounted(r, t, Document)
    PROVE  \E f, v : FormTyped(f) /\ Submit(r, f, v) /\ Admitted(f, v) /\ Fresh(v)
<1>1. PICK m \in Mount, g \in {Document, << >>},
           c \in (IF t.confirm THEN BOOLEAN ELSE {FALSE}) :
        Submit(r, EngineForm(t, m, "none", g, c), NoView)
  BY Zenon DEF ExecuteMounted
<1> DEFINE f == EngineForm(t, m, "none", g, c)
<1>2. f.task = t /\ f.target = m /\ f.confirmed = c
  BY EngineFields
<1> HIDE DEF f
<1>3. c \in BOOLEAN
  BY DEF Disciplined
<1>4. FormTyped(f) /\ Admitted(f, NoView) /\ Fresh(NoView)
  BY <1>2, <1>3, NoViewFields DEF FormTyped, Admitted, Fresh
<1> QED BY <1>1, <1>4 DEF f

\* What submits a form of the auth views.
LEMMA AuthAdmission ==
    ASSUME NEW r \in Request, NEW t, Disciplined(t), t.plane = "auth", AdministerAuth(r, t)
    PROVE  \E f, v : /\ FormTyped(f)
                     /\ (Submit(r, f, v) /\ Admitted(f, v) /\ Fresh(v)) \/ Reject(r, f)
<1>1. PICK m \in (IF t.kind \in {"mfa", "session"} THEN {"none"} ELSE AuthMount),
           d \in (IF t.id = "remount" THEN AuthMount ELSE {"none"}),
           c \in (IF t.confirm THEN BOOLEAN ELSE {FALSE}) :
        \/ AuthValid(AuthForm(t, m, d, c)) /\ Submit(r, AuthForm(t, m, d, c), NoView)
        \/ Reject(r, AuthForm(t, m, d, c))
  BY Zenon DEF AdministerAuth
<1> DEFINE f == AuthForm(t, m, d, c)
<1>2. f.task = t /\ f.target = m /\ f.confirmed = c
  BY AuthFields
<1> HIDE DEF f
<1>3. c \in BOOLEAN
  BY DEF Disciplined
<1>4. FormTyped(f) /\ Fresh(NoView)
  BY <1>2, <1>3, NoViewFields DEF FormTyped, Fresh
<1>5. AuthValid(f) => Admitted(f, NoView)
  BY <1>2 DEF AuthValid, Unconfirmed, Admitted
<1> QED BY <1>1, <1>4, <1>5 DEF f

\* What submits a form of the access and final views.
LEMMA ResourceAdmission ==
    ASSUME NEW r \in Request, NEW t, Disciplined(t), t.plane \in {"access", "final"},
           AdministerResource(r, t, Document)
    PROVE  \E f, v : /\ FormTyped(f)
                     /\ (Submit(r, f, v) /\ Admitted(f, v) /\ Fresh(v)) \/ Reject(r, f)
<1>1. PICK g \in {Document, << >>}, i \in Previewed(t),
           c \in (IF t.confirm THEN BOOLEAN ELSE {FALSE}) :
        \/ (t.confirm => c) /\ Submit(r, ResourceForm(t, g, i, c), NoView)
        \/ Reject(r, ResourceForm(t, g, i, c))
  BY Zenon DEF AdministerResource
<1> DEFINE f == ResourceForm(t, g, i, c)
<1>2. f.task = t /\ f.target = "none" /\ f.confirmed = c
  BY ResourceFields
<1> HIDE DEF f
<1>3. c \in BOOLEAN
  BY DEF Disciplined
<1>4. FormTyped(f) /\ Fresh(NoView)
  BY <1>2, <1>3, NoViewFields DEF FormTyped, Fresh
<1>5. (t.confirm => c) => Admitted(f, NoView)
  BY <1>2 DEF Admitted
<1> QED BY <1>1, <1>4, <1>5 DEF f

\* What is submitted is typed, checked, and has read nothing yet.
LEMMA Admission ==
    ASSUME PlaneInv, NEW r \in Request, Begin(r)
    PROVE  \E f, v : /\ FormTyped(f)
                     /\ (Submit(r, f, v) /\ Admitted(f, v) /\ Fresh(v)) \/ Reject(r, f)
<1>1. PICK t \in Workloads[workload].tasks[r] :
         \/ t.plane = "engine" /\ AdministerEngine(r, t)
         \/ t.plane \in {"journey", "explorer"} /\ ExecuteMounted(r, t, Document)
         \/ t.plane = "auth" /\ AdministerAuth(r, t)
         \/ t.plane \in {"access", "final"} /\ AdministerResource(r, t, Document)
  BY DEF Begin
<1>2. Disciplined(t)
  BY PlaneAssumption DEF PlaneInv
<1> QED BY <1>1, <1>2, EngineAdmission, MountedAdmission, AuthAdmission, ResourceAdmission

\* Only an authorization row authorizes.
LEMMA LogFrame ==
    ASSUME NEW r \in Request, NEW p, Log(r, p)
    PROVE  /\ p # "authorized" => Authorized' = Authorized
           /\ p = "authorized" => Authorized' = Authorized \cup {r}
BY DEF Log, Authorized

\* Without a new row nobody is authorized anew.
LEMMA AuditFrame == UNCHANGED audit => Authorized' = Authorized
BY DEF Authorized

\* A step of one request.
Others(r) ==
    /\ UNCHANGED transport
    /\ \A q \in Request \ {r} :
         /\ form'[q] = form[q] /\ stage'[q] = stage[q] /\ view'[q] = view[q]
         /\ flight'[q] = flight[q] /\ verdict'[q] = verdict[q]
         /\ q \in Authorized' <=> q \in Authorized

\* The others keep their claims and their reviews.
LEMMA OneRequest ==
    ASSUME PlaneInv, EvidenceInv', ShapeInv', UNCHANGED workload,
           NEW r \in Request, Others(r), Claims(r)', Review(r)'
    PROVE  PlaneInv'
<1>1. ASSUME NEW q \in Request \ {r} PROVE Claims(q)' /\ Review(q)'
  <2>1. Claims(q) /\ Review(q) /\ (Tracked(q)' <=> Tracked(q))
    BY DEF PlaneInv, Others, Tracked, Misreported
  <2>2. /\ form'[q] = form[q] /\ stage'[q] = stage[q] /\ view'[q] = view[q]
        /\ flight'[q] = flight[q] /\ verdict'[q] = verdict[q]
        /\ q \in Authorized' <=> q \in Authorized
    BY DEF Others
  <2>3. Claims(q)'
    BY <2>1, <2>2 DEF Claims
  <2>4. Review(q)'
    BY <2>1, <2>2 DEF Review
  <2> QED BY <2>3, <2>4
<1> QED BY <1>1 DEF PlaneInv

\* A request that leaves its form and view alone and goes where nothing is compared.
LEMMA ReviewKeeps ==
    ASSUME NEW r \in Request, Review(r), form'[r] = form[r], view'[r] = view[r],
           stage'[r] \notin Unsent \/ stage'[r] = stage[r],
           flight'[r] = "none" \/ flight[r] # "none" \/ stage[r] = "send"
    PROVE  Review(r)'
BY DEF Review, Unsent, Early, Cleared

\* A request that raises has sent nothing that OpenBao may carry out, or is not tracked.
LEMMA RaiseKeeps ==
    ASSUME PlaneInv, EvidenceInv', NEW r \in Request, Raise(r),
           UNCHANGED <<form, view, flight, transport>>,
           \A q \in Request \ {r} : q \in Authorized' <=> q \in Authorized,
           Tracked(r) => flight[r] \in {"none", "refused"}, UNCHANGED workload
    PROVE  PlaneInv'
<1>1. /\ stage'[r] = "fail" /\ verdict'[r] = "refused" /\ verdict' \in [Request -> Verdict]
      /\ \A q \in Request \ {r} : stage'[q] = stage[q] /\ verdict'[q] = verdict[q]
  BY DEF Raise, Goto, PlaneInv, EvidenceInv, ShapeInv, Verdict
<1>2. ShapeInv' /\ Others(r)
  BY <1>1 DEF PlaneInv, ShapeInv, Others
<1>3. Tracked(r)' <=> Tracked(r)
  BY DEF Tracked, Misreported
<1>4. Claims(r)'
  BY <1>1, <1>3 DEF PlaneInv, Claims, Unsent, Early, Cleared
<1>5. Review(r)'
  BY <1>1, ReviewKeeps DEF PlaneInv, Unsent, Early, Cleared
<1> QED BY <1>2, <1>4, <1>5, OneRequest

\* So has one that answers.
LEMMA AnswerKeeps ==
    ASSUME PlaneInv, EvidenceInv', NEW r \in Request, NEW v \in Verdict, Answer(r, v),
           UNCHANGED <<form, flight, transport>>, UNCHANGED workload,
           \A q \in Request \ {r} : view'[q] = view[q] /\ (q \in Authorized' <=> q \in Authorized),
           view' = [q \in Request |-> view'[q]], Shaped(view'[r]),
           flight[r] # "none" => view'[r] = view[r],
           Tracked(r) => /\ v \in Refusals \cup Acceptances \cup {"unknown"}
                         /\ v \in Refusals => flight[r] \in {"none", "refused"}
                         /\ v \in Acceptances => flight[r] = "executed"
    PROVE  PlaneInv'
<1>1. /\ stage'[r] = "done" /\ verdict'[r] = v /\ verdict' \in [Request -> Verdict]
      /\ \A q \in Request \ {r} : stage'[q] = stage[q] /\ verdict'[q] = verdict[q]
  BY DEF Answer, Goto, PlaneInv, EvidenceInv, ShapeInv
<1>2. ShapeInv' /\ Others(r)
  BY <1>1 DEF PlaneInv, ShapeInv, Others
<1>3. Tracked(r)' <=> Tracked(r)
  BY DEF Tracked, Misreported
<1>4. Claims(r)'
  BY <1>1, <1>3 DEF PlaneInv, Claims, Unsent, Early, Cleared
<1>5. Review(r)'
  BY <1>1 DEF PlaneInv, Review, Unsent, Early, Cleared
<1> QED BY <1>2, <1>4, <1>5, OneRequest

\* A request that goes on: what remains to be shown is about itself.
LEMMA ProceedKeeps ==
    ASSUME PlaneInv, EvidenceInv', NEW r \in Request, NEW s \in Stage, Proceed(r, s),
           UNCHANGED <<form, transport>>, UNCHANGED workload,
           \A q \in Request \ {r} : /\ view'[q] = view[q] /\ flight'[q] = flight[q]
                                    /\ q \in Authorized' <=> q \in Authorized,
           view' = [q \in Request |-> view'[q]], Shaped(view'[r]),
           stage'[r] = s => Claims(r)' /\ Review(r)'
    PROVE  PlaneInv'
<1>1. /\ stage'[r] = s /\ UNCHANGED verdict
      /\ \A q \in Request \ {r} : stage'[q] = stage[q]
  BY DEF Proceed, Goto, PlaneInv, EvidenceInv
<1>2. ShapeInv' /\ Others(r)
  BY <1>1 DEF PlaneInv, ShapeInv, Others
<1> QED BY <1>1, <1>2, OneRequest

\* A submission is admitted, a rejection answers before anything was sent.
LEMMA BeginPlane ==
    ASSUME PlaneInv, NEW r \in Request, Begin(r), UNCHANGED workload
    PROVE  PlaneInv'
<1>0. EvidenceInv'
  BY BeginKeeps DEF PlaneInv
<1>1. PICK f, v : /\ FormTyped(f)
                  /\ (Submit(r, f, v) /\ Admitted(f, v) /\ Fresh(v)) \/ Reject(r, f)
  BY Admission
<1>2. stage[r] = "idle" /\ r \notin Authorized /\ flight[r] = "none"
  BY <1>1 DEF Submit, Reject, PlaneInv, Claims, Early, Unsent
<1>3. /\ form' = [form EXCEPT ![r] = f] /\ UNCHANGED <<flight, audit, transport>>
      /\ Authorized' = Authorized
  BY <1>1, AuditFrame DEF Submit, Reject, worldVars
<1>4. /\ form' = [q \in Request |-> form'[q]] /\ form'[r] = f
      /\ \A q \in Request \ {r} : form'[q] = form[q]
  BY <1>3 DEF PlaneInv, ShapeInv
<1>5. CASE Submit(r, f, v) /\ Admitted(f, v) /\ Fresh(v)
  <2>1. /\ view' = [q \in Request |-> view'[q]] /\ view'[r] = v
        /\ \A q \in Request \ {r} : view'[q] = view[q]
    BY <1>5 DEF Submit, PlaneInv, ShapeInv
  <2>2. /\ stage'[r] = "seal" /\ UNCHANGED verdict
        /\ \A q \in Request \ {r} : stage'[q] = stage[q]
    BY <1>5 DEF Submit, Proceed, Goto, PlaneInv, EvidenceInv
  <2>3. ShapeInv' /\ Others(r)
    BY <1>3, <1>4, <1>5, <2>1, <2>2 DEF PlaneInv, ShapeInv, Others, Fresh
  <2>4. Claims(r)'
    BY <1>1, <1>2, <1>3, <1>4, <2>2 DEF Claims, FormTyped, Early, Unsent
  <2>5. Review(r)'
    BY <1>2, <1>3, <1>4, <1>5, <2>1, <2>2 DEF Review, Cleared, Fresh
  <2> QED BY <1>0, <2>3, <2>4, <2>5, OneRequest
<1>6. CASE Reject(r, f)
  <2>1. /\ stage'[r] = "done" /\ verdict'[r] = "invalid" /\ UNCHANGED view
        /\ verdict' \in [Request -> Verdict]
        /\ \A q \in Request \ {r} : stage'[q] = stage[q] /\ verdict'[q] = verdict[q]
    BY <1>6 DEF Reject, Answer, Goto, PlaneInv, EvidenceInv, ShapeInv, Verdict
  <2>2. ShapeInv' /\ Others(r)
    BY <1>3, <1>4, <2>1 DEF PlaneInv, ShapeInv, Others
  <2>3. Claims(r)'
    BY <1>1, <1>2, <1>3, <1>4, <2>1 DEF Claims, FormTyped, Early, Unsent, Cleared, Refusals,
       Acceptances
  <2>4. Review(r)'
    BY <1>2, <1>3, <2>1 DEF Review, Early, Unsent, Cleared
  <2> QED BY <1>0, <2>2, <2>3, <2>4, OneRequest
<1> QED BY <1>1, <1>5, <1>6

\* A stage before the call has no call.
LEMMA UnsentFacts ==
    ASSUME PlaneInv, NEW r \in Request, stage[r] \in Unsent
    PROVE  /\ flight[r] = "none" /\ Claims(r) /\ Review(r) /\ Shaped(view[r])
           /\ Disciplined(form[r].task)
           /\ view = [q \in Request |-> view[q]]
           /\ stage[r] # "idle" => Admitted(form[r], view[r])
BY DEF PlaneInv, Claims, ShapeInv, Review

\* Failed reads, records and sends.
LEMMA FailuresPlane ==
    ASSUME PlaneInv, NEW r \in Request, UNCHANGED workload,
           ReadFails(r) \/ ObserveFails(r) \/ AuthorizeFails(r) \/ SendFails(r) \/ ReplyRefused(r)
           \/ ReplyUnparsed(r)
    PROVE  PlaneInv'
<1>1. EvidenceInv'
  BY ReadKeeps, CallKeeps, OutcomeKeeps DEF PlaneInv
<1>2. /\ Raise(r) /\ UNCHANGED <<form, view, flight, transport>>
      /\ Log(r, "observed") \/ Log(r, "authorized") \/ UNCHANGED audit
  BY DEF ReadFails, ObserveFails, AuthorizeFails, SendFails, ReplyRefused, ReplyUnparsed, worldVars
<1>3. \A q \in Request \ {r} : q \in Authorized' <=> q \in Authorized
  BY <1>2, LogFrame, AuditFrame
<1>4. Tracked(r) => flight[r] \in {"none", "refused"}
  BY DEF ReadFails, ObserveFails, AuthorizeFails, SendFails, ReplyRefused, ReplyUnparsed, Reading,
         PlaneInv, Claims, Unsent, Early, Cleared, Tracked
<1> QED BY <1>1, <1>2, <1>3, <1>4, RaiseKeeps

\* Seal status: the same view, one stage on.
LEMMA SealPlane ==
    ASSUME PlaneInv, NEW r \in Request, SealStatus(r), UNCHANGED workload
    PROVE  PlaneInv'
<1>1. EvidenceInv'
  BY ReadKeeps DEF PlaneInv
<1>2. /\ stage[r] = "seal" /\ UNCHANGED <<form, view, flight, audit, transport>>
      /\ Raise(r) \/ Proceed(r, "discover")
  BY DEF SealStatus, worldVars
<1>3. flight[r] = "none" /\ Claims(r) /\ Review(r) /\ Authorized' = Authorized
      /\ Shaped(view[r]) /\ view = [q \in Request |-> view[q]]
  BY <1>2, UnsentFacts, AuditFrame DEF Unsent, Early
<1>4. CASE Raise(r)
  BY <1>1, <1>2, <1>3, <1>4, RaiseKeeps
<1>5. CASE Proceed(r, "discover")
  <2>1. stage'[r] = "discover" => Claims(r)' /\ Review(r)'
    BY <1>2, <1>3 DEF Claims, Review, Unsent, Early, Cleared
  <2> QED BY <1>1, <1>2, <1>3, <1>5, <2>1, ProceedKeeps DEF Stage, Reading
<1> QED BY <1>2, <1>4, <1>5

\* Where a request goes from the document, and what it knows there.
LEMMA DiscoverTo ==
    ASSUME NEW t, NEW kind, Disciplined(t),
           t.plane \in {"engine", "auth", "journey", "explorer", "access", "final"}
    PROVE  LET s == AfterDiscover(t, kind) IN
           /\ s \in {"mounts", "impact", "fetch", "observe", "audit"}
           /\ s \in {"fetch", "observe"} => t.method = "GET"
           /\ s = "audit" => /\ t.plane \in {"auth", "access", "final"}
                             /\ Resolves(t) => kind # "none"
                             /\ t.plane \in {"access", "final"} => ~t.confirm
           /\ s = "impact" => Previews(t) \/ t.plane \in {"access", "final"}
BY DEF AfterDiscover, Disciplined, Audited, Catalog, Previews, Lists, Resolves

\* The document is put into the view, and compared where the task is bound to it.
LEMMA DiscoverPlane ==
    ASSUME PlaneInv, NEW r \in Request, Discover(r, Document), UNCHANGED workload
    PROVE  PlaneInv'
<1> DEFINE t == form[r].task
           s == AfterDiscover(t, view[r].kind)
<1>1. EvidenceInv'
  BY ReadKeeps DEF PlaneInv
<1>2. /\ stage[r] = "discover" /\ UNCHANGED <<form, flight, audit, transport>>
      /\ view' = [view EXCEPT ![r].document = Document]
      /\ \/ Raise(r)
         \/ Proceed(r, s) /\ (DigestBound(t) => form[r].digest = Document)
  BY DEF Discover, worldVars
<1>3. flight[r] = "none" /\ Claims(r) /\ Review(r) /\ Authorized' = Authorized
      /\ Shaped(view[r]) /\ view = [q \in Request |-> view[q]]
      /\ Disciplined(t) /\ Admitted(form[r], view[r])
  BY <1>2, UnsentFacts, AuditFrame DEF Unsent, Early
<1>4. /\ view' = [q \in Request |-> view'[q]] /\ Shaped(view'[r])
      /\ view'[r].document = Document /\ view'[r].kind = view[r].kind
      /\ view'[r].rows = view[r].rows
      /\ \A q \in Request \ {r} : view'[q] = view[q]
  <2>1. view'[r] = [view[r] EXCEPT !.document = Document]
    BY <1>2, <1>3
  <2>2. /\ view' = [q \in Request |-> view'[q]]
        /\ \A q \in Request \ {r} : view'[q] = view[q]
    BY <1>2, <1>3
  <2>3. /\ Shaped(view'[r]) /\ view'[r].document = Document
        /\ view'[r].kind = view[r].kind /\ view'[r].rows = view[r].rows
    BY <1>3, <2>1 DEF Shaped
  <2> QED BY <2>2, <2>3
<1>5. CASE Raise(r)
  <2>1. /\ stage'[r] = "fail" /\ verdict'[r] = "refused" /\ verdict' \in [Request -> Verdict]
        /\ \A q \in Request \ {r} : stage'[q] = stage[q] /\ verdict'[q] = verdict[q]
    BY <1>5 DEF Raise, Goto, PlaneInv, EvidenceInv, ShapeInv, Verdict
  <2>2. ShapeInv' /\ Others(r)
    BY <1>2, <1>3, <1>4, <2>1 DEF PlaneInv, ShapeInv, Others
  <2>3. Claims(r)' /\ Review(r)'
    BY <1>2, <1>3, <2>1 DEF Claims, Review, Unsent, Early, Cleared
  <2> QED BY <1>1, <2>2, <2>3, OneRequest
<1>6. CASE Proceed(r, s) /\ (DigestBound(t) => form[r].digest = Document)
  <2>1. /\ s \in {"mounts", "impact", "fetch", "observe", "audit"}
        /\ s \in {"fetch", "observe"} => t.method = "GET"
        /\ s = "audit" => /\ t.plane \in {"auth", "access", "final"}
                          /\ Resolves(t) => view[r].kind # "none"
                          /\ t.plane \in {"access", "final"} => ~t.confirm
        /\ s = "impact" => Previews(t) \/ t.plane \in {"access", "final"}
    BY <1>3, DiscoverTo DEF Admitted
  <2> HIDE DEF s
  <2>2. stage'[r] = s => Claims(r)'
    BY <1>2, <1>3, <2>1 DEF Claims, Unsent, Early, Cleared
  <2>3. Admitted(form[r], view'[r]) /\ Bound(form[r], view'[r])
    BY <1>3, <1>4, <1>6 DEF Admitted, Bound
  <2>4. s = "audit" => Compared(form[r], view'[r])
    BY <1>2, <1>3, <1>4, <2>1 DEF Compared, Review, Matched, Admitted
  <2>5. stage'[r] = s => Review(r)'
    BY <1>2, <1>3, <2>1, <2>3, <2>4 DEF Review, Cleared
  <2> QED BY <1>1, <1>2, <1>3, <1>4, <1>6, <2>1, <2>2, <2>5, ProceedKeeps DEF Stage, Reading
<1> QED BY <1>2, <1>5, <1>6

\* The kind a mount list shows is put into the view.
LEMMA KindFacts ==
    ASSUME PlaneInv, NEW r \in Request, NEW x, view' = [view EXCEPT ![r].kind = x]
    PROVE  /\ view' = [q \in Request |-> view'[q]] /\ Shaped(view'[r])
           /\ view'[r].kind = x /\ view'[r].document = view[r].document
           /\ view'[r].rows = view[r].rows /\ view'[r].impact = view[r].impact
           /\ \A q \in Request \ {r} : view'[q] = view[q]
<1>1. Shaped(view[r]) /\ view = [q \in Request |-> view[q]]
  BY DEF PlaneInv, ShapeInv
<1>2. /\ view'[r] = [view[r] EXCEPT !.kind = x]
      /\ view' = [q \in Request |-> view'[q]]
      /\ \A q \in Request \ {r} : view'[q] = view[q]
  BY <1>1
<1>3. /\ Shaped(view'[r]) /\ view'[r].kind = x /\ view'[r].document = view[r].document
      /\ view'[r].rows = view[r].rows /\ view'[r].impact = view[r].impact
  BY <1>1, <1>2 DEF Shaped
<1> QED BY <1>2, <1>3

\* A request that raises before its call, whatever it just read.
LEMMA EarlyRaise ==
    ASSUME PlaneInv, EvidenceInv', NEW r \in Request, Raise(r), stage[r] \in Unsent,
           UNCHANGED <<form, flight, transport>>, UNCHANGED workload,
           Authorized' = Authorized,
           view' = [q \in Request |-> view'[q]], Shaped(view'[r]),
           \A q \in Request \ {r} : view'[q] = view[q]
    PROVE  PlaneInv'
<1>1. flight[r] = "none" /\ Claims(r)
  BY UnsentFacts
<1>2. /\ stage'[r] = "fail" /\ verdict'[r] = "refused" /\ verdict' \in [Request -> Verdict]
      /\ \A q \in Request \ {r} : stage'[q] = stage[q] /\ verdict'[q] = verdict[q]
  BY DEF Raise, Goto, PlaneInv, EvidenceInv, ShapeInv, Verdict
<1>3. ShapeInv' /\ Others(r)
  BY <1>2 DEF PlaneInv, ShapeInv, Others
<1>4. Claims(r)' /\ Review(r)'
  BY <1>1, <1>2 DEF Claims, Review, Unsent, Early, Cleared
<1> QED BY <1>3, <1>4, OneRequest

\* The second call of a two-call read, and plain reads.
LEMMA FetchPlane ==
    ASSUME PlaneInv, NEW r \in Request, Fetch(r), UNCHANGED workload
    PROVE  PlaneInv'
<1>1. EvidenceInv'
  BY CallKeeps DEF PlaneInv
<1>2. /\ UNCHANGED <<form, view, flight, audit, transport>>
      /\ \/ stage[r] = "fetch" /\ Proceed(r, "observe")
         \/ stage[r] = "prelude" /\ Proceed(r, "send")
  BY DEF Fetch, worldVars
<1>3. flight[r] = "none" /\ Claims(r) /\ Review(r) /\ Authorized' = Authorized
      /\ Shaped(view[r]) /\ view = [q \in Request |-> view[q]]
  BY <1>2, UnsentFacts, AuditFrame DEF Unsent, Early, Cleared
<1>4. CASE stage[r] = "fetch" /\ Proceed(r, "observe")
  <2>1. stage'[r] = "observe" => Claims(r)' /\ Review(r)'
    BY <1>2, <1>3, <1>4 DEF Claims, Review, Unsent, Early, Cleared
  <2> QED BY <1>1, <1>2, <1>3, <1>4, <2>1, ProceedKeeps DEF Stage
<1>5. CASE stage[r] = "prelude" /\ Proceed(r, "send")
  <2>1. stage'[r] = "send" => Claims(r)' /\ Review(r)'
    BY <1>2, <1>3, <1>5 DEF Claims, Review, Unsent, Early, Cleared
  <2> QED BY <1>1, <1>2, <1>3, <1>5, <2>1, ProceedKeeps DEF Stage
<1> QED BY <1>2, <1>4, <1>5

\* A read whose outcome is unknown ends before anything was sent.
LEMMA ReadUnknownPlane ==
    ASSUME PlaneInv, NEW r \in Request, ReadUnknown(r), UNCHANGED workload
    PROVE  PlaneInv'
<1>1. EvidenceInv'
  BY ReadKeeps DEF PlaneInv
<1>2. /\ stage[r] \in Unsent /\ UNCHANGED <<form, view, flight, audit, transport>>
      /\ Answer(r, "broken") \/ Proceed(r, "unknown")
  BY DEF ReadUnknown, worldVars, Reading, Unsent, Early, Cleared
<1>3. flight[r] = "none" /\ Claims(r) /\ Review(r) /\ Authorized' = Authorized
      /\ Shaped(view[r]) /\ view = [q \in Request |-> view[q]]
  BY <1>2, UnsentFacts, AuditFrame
<1>4. CASE Answer(r, "broken")
  BY <1>1, <1>2, <1>3, <1>4, AnswerKeeps DEF Verdict, Refusals, Acceptances
<1>5. CASE Proceed(r, "unknown")
  <2>1. stage'[r] = "unknown" => Claims(r)' /\ Review(r)'
    BY <1>2, <1>3 DEF Claims, Review, Unsent, Early, Cleared
  <2> QED BY <1>1, <1>2, <1>3, <1>5, <2>1, ProceedKeeps DEF Stage
<1> QED BY <1>2, <1>4, <1>5

\* An observation is of a read.
LEMMA ObservePlane ==
    ASSUME PlaneInv, NEW r \in Request, Observe(r), UNCHANGED workload
    PROVE  PlaneInv'
<1>1. EvidenceInv'
  BY ReadKeeps DEF PlaneInv
<1>2. /\ stage[r] = "observe" /\ UNCHANGED <<form, view, flight, transport>>
      /\ Answer(r, "accepted") /\ Log(r, "observed")
  BY DEF Observe, worldVars
<1>3. flight[r] = "none" /\ Claims(r) /\ Authorized' = Authorized
      /\ Shaped(view[r]) /\ view = [q \in Request |-> view[q]]
  BY <1>2, UnsentFacts, LogFrame DEF Unsent, Early
<1>4. ~Tracked(r)
  BY <1>2, <1>3 DEF Claims, Tracked
<1> QED BY <1>1, <1>2, <1>3, <1>4, AnswerKeeps DEF Verdict

\* The engine views compare the mount list with the form.
LEMMA EngineMountsPlane ==
    ASSUME PlaneInv, NEW r \in Request, EngineMounts(r), UNCHANGED workload
    PROVE  PlaneInv'
<1> DEFINE t == form[r].task
           s == IF Audited(t) THEN "audit" ELSE IF t.id = "journeys" THEN "observe" ELSE "fetch"
<1>1. EvidenceInv'
  BY PlaneReadKeeps DEF PlaneInv
<1>2. /\ stage[r] = "mounts" /\ t.plane = "engine"
      /\ UNCHANGED <<form, flight, audit, transport>>
      /\ view' = [view EXCEPT ![r].kind = engines[form[r].target]]
      /\ Raise(r) \/ Proceed(r, s)
  BY DEF EngineMounts, worldVars
<1>3. flight[r] = "none" /\ Claims(r) /\ Review(r) /\ Authorized' = Authorized
      /\ Disciplined(t) /\ Admitted(form[r], view[r])
  BY <1>2, UnsentFacts, AuditFrame DEF Unsent, Early
<1>4. /\ view' = [q \in Request |-> view'[q]] /\ Shaped(view'[r])
      /\ view'[r].document = view[r].document /\ view'[r].rows = view[r].rows
      /\ \A q \in Request \ {r} : view'[q] = view[q]
  BY <1>2, KindFacts
<1>5. CASE Raise(r)
  BY <1>1, <1>2, <1>3, <1>4, <1>5, EarlyRaise DEF Unsent, Early
<1>6. CASE Proceed(r, s)
  <2>1. s \in {"audit", "observe", "fetch"} /\ (s # "audit" => t.method = "GET")
    BY <1>3 DEF Audited, Disciplined, Catalog, Previews
  <2> HIDE DEF s
  <2>2. Admitted(form[r], view'[r]) /\ Bound(form[r], view'[r]) /\ Compared(form[r], view'[r])
    BY <1>2, <1>3, <1>4 DEF Admitted, Bound, Compared, Resolves, DigestBound
  <2>3. stage'[r] = s => Claims(r)' /\ Review(r)'
    BY <1>2, <1>3, <2>1, <2>2 DEF Claims, Review, Unsent, Early, Cleared
  <2> QED BY <1>1, <1>2, <1>3, <1>4, <1>6, <2>1, <2>3, ProceedKeeps DEF Stage, Reading
<1> QED BY <1>2, <1>5, <1>6

\* Journeys and explorer operations resolve their mount and their confirmation.
LEMMA PrepareMountedPlane ==
    ASSUME PlaneInv, NEW r \in Request, PrepareMounted(r), UNCHANGED workload
    PROVE  PlaneInv'
<1> DEFINE t == form[r].task
           kind == engines[form[r].target]
<1>1. EvidenceInv'
  BY PlaneReadKeeps DEF PlaneInv
<1>2. /\ stage[r] = "mounts" /\ t.plane \in {"journey", "explorer"}
      /\ UNCHANGED <<form, flight, audit, transport>>
      /\ view' = [view EXCEPT ![r].kind = kind]
  BY DEF PrepareMounted, worldVars
<1>3. \/ Answer(r, "invalid")
      \/ /\ Proceed(r, "audit") /\ (t.confirm => form[r].confirmed)
         /\ t.plane = "journey" => kind = t.kind
         /\ t.plane = "explorer" => kind # "none" /\ form[r].target \notin Reserved
  BY DEF PrepareMounted, resolve_engine_journey, resolve_explorer_operation, Mounted
<1>4. flight[r] = "none" /\ Claims(r) /\ Review(r) /\ Authorized' = Authorized
      /\ Admitted(form[r], view[r])
  BY <1>2, UnsentFacts, AuditFrame DEF Unsent, Early
<1>5. /\ view' = [q \in Request |-> view'[q]] /\ Shaped(view'[r]) /\ view'[r].kind = kind
      /\ view'[r].document = view[r].document /\ view'[r].rows = view[r].rows
      /\ \A q \in Request \ {r} : view'[q] = view[q]
  BY <1>2, KindFacts
<1> HIDE DEF kind
<1>6. CASE Answer(r, "invalid")
  BY <1>1, <1>2, <1>4, <1>5, <1>6, AnswerKeeps DEF Verdict, Refusals, Acceptances
<1>7. CASE /\ Proceed(r, "audit") /\ (t.confirm => form[r].confirmed)
           /\ t.plane = "journey" => kind = t.kind
           /\ t.plane = "explorer" => kind # "none" /\ form[r].target \notin Reserved
  <2>1. Admitted(form[r], view'[r]) /\ Bound(form[r], view'[r]) /\ Compared(form[r], view'[r])
    BY <1>2, <1>4, <1>5, <1>7 DEF Admitted, Bound, Compared, Resolves, Review
  <2>2. stage'[r] = "audit" => Claims(r)' /\ Review(r)'
    BY <1>2, <1>4, <2>1 DEF Claims, Review, Unsent, Early, Cleared
  <2> QED BY <1>1, <1>2, <1>4, <1>5, <1>7, <2>2, ProceedKeeps DEF Stage
<1> QED BY <1>3, <1>6, <1>7

\* The auth views resolve their mount, record it, and compare type and confirmation.
LEMMA ResolvePlane ==
    ASSUME PlaneInv, NEW r \in Request, ResolveMount(r) \/ Resolved(r), UNCHANGED workload
    PROVE  PlaneInv'
<1>0. EvidenceInv'
  BY PlaneReadKeeps DEF PlaneInv
<1>1. CASE ResolveMount(r)
  <2>1. /\ stage[r] = "mounts" /\ form[r].task.plane = "auth"
        /\ UNCHANGED <<form, flight, audit, transport>>
        /\ view' = [view EXCEPT ![r].kind = auths[form[r].target]]
        /\ Raise(r) \/ Proceed(r, "resolved")
    BY <1>1 DEF ResolveMount, worldVars
  <2>2. flight[r] = "none" /\ Claims(r) /\ Review(r) /\ Authorized' = Authorized
        /\ Admitted(form[r], view[r])
    BY <2>1, UnsentFacts, AuditFrame DEF Unsent, Early
  <2>3. /\ view' = [q \in Request |-> view'[q]] /\ Shaped(view'[r])
        /\ view'[r].document = view[r].document /\ view'[r].rows = view[r].rows
        /\ \A q \in Request \ {r} : view'[q] = view[q]
    BY <2>1, KindFacts
  <2>4. CASE Raise(r)
    BY <1>0, <2>1, <2>2, <2>3, <2>4, EarlyRaise DEF Unsent, Early
  <2>5. CASE Proceed(r, "resolved")
    <3>1. Admitted(form[r], view'[r])
      BY <2>2, <2>3 DEF Admitted
    <3>2. stage'[r] = "resolved" => Claims(r)' /\ Review(r)'
      BY <2>1, <2>2, <3>1 DEF Claims, Review, Unsent, Early, Cleared
    <3> QED BY <1>0, <2>1, <2>2, <2>3, <2>5, <3>2, ProceedKeeps DEF Stage
  <2> QED BY <2>1, <2>4, <2>5
<1>2. CASE Resolved(r)
  <2>1. /\ stage[r] = "resolved" /\ UNCHANGED <<form, view, flight, transport>>
        /\ Log(r, "observed")
        /\ \/ Answer(r, "invalid")
           \/ Proceed(r, "seal") /\ Matched(form[r], view[r])
    BY <1>2 DEF Resolved, worldVars, TypeMatches, Unconfirmed, Matched
  <2>2. flight[r] = "none" /\ Claims(r) /\ Review(r) /\ Authorized' = Authorized
        /\ Shaped(view[r]) /\ view = [q \in Request |-> view[q]]
    BY <2>1, UnsentFacts, LogFrame DEF Unsent, Early
  <2>3. CASE Answer(r, "invalid")
    BY <1>0, <2>1, <2>2, <2>3, AnswerKeeps DEF Verdict, Refusals, Acceptances
  <2>4. CASE Proceed(r, "seal") /\ Matched(form[r], view[r])
    <3>1. stage'[r] = "seal" => Claims(r)' /\ Review(r)'
      BY <2>1, <2>2, <2>4 DEF Claims, Review, Unsent, Early, Cleared
    <3> QED BY <1>0, <2>1, <2>2, <2>4, <3>1, ProceedKeeps DEF Stage, Reading
  <2> QED BY <2>1, <2>3, <2>4
<1> QED BY <1>1, <1>2

\* The impact is compared with the one the operator was shown, as it was just read.
LEMMA ImpactPlane ==
    ASSUME PlaneInv, NEW r \in Request, ReadImpact(r), UNCHANGED workload
    PROVE  PlaneInv'
<1> DEFINE t == form[r].task
<1>1. EvidenceInv'
  BY PlaneReadKeeps DEF PlaneInv
<1>2. PICK seen :
        /\ stage[r] = "impact" /\ UNCHANGED <<form, flight, audit, transport>>
        /\ view' = [view EXCEPT ![r].impact = seen]
        /\ \/ Raise(r) \/ Proceed(r, "impact")
           \/ Previews(t) /\ Proceed(r, "observe")
           \/ ~Previews(t) /\ Proceed(r, "audit") /\ form[r].impact = seen
  BY DEF ReadImpact, worldVars, ImpactMatches
<1>3. flight[r] = "none" /\ Claims(r) /\ Review(r) /\ Authorized' = Authorized
      /\ Shaped(view[r]) /\ view = [q \in Request |-> view[q]] /\ Disciplined(t)
      /\ Admitted(form[r], view[r]) /\ Bound(form[r], view[r])
  BY <1>2, UnsentFacts, AuditFrame DEF Unsent, Early, Review
<1>4. /\ view'[r] = [view[r] EXCEPT !.impact = seen]
      /\ view' = [q \in Request |-> view'[q]]
      /\ \A q \in Request \ {r} : view'[q] = view[q]
  BY <1>2, <1>3
<1>5. /\ Shaped(view'[r]) /\ view'[r].kind = view[r].kind
      /\ view'[r].document = view[r].document
      /\ view'[r].rows = view[r].rows /\ view'[r].impact = seen
  BY <1>3, <1>4 DEF Shaped
<1>6. Admitted(form[r], view'[r]) /\ Bound(form[r], view'[r])
  BY <1>3, <1>5 DEF Admitted, Bound
<1>7. CASE Raise(r)
  BY <1>1, <1>2, <1>3, <1>4, <1>5, <1>7, EarlyRaise DEF Unsent, Early
<1>8. CASE Proceed(r, "impact")
  <2>1. stage'[r] = "impact" => Claims(r)' /\ Review(r)'
    BY <1>2, <1>3, <1>6 DEF Claims, Review, Unsent, Early, Cleared
  <2> QED BY <1>1, <1>2, <1>3, <1>4, <1>5, <1>8, <2>1, ProceedKeeps DEF Stage, Reading
<1>9. CASE Previews(t) /\ Proceed(r, "observe")
  <2>1. t.method = "GET"
    BY <1>3, <1>9 DEF Disciplined
  <2>2. stage'[r] = "observe" => Claims(r)' /\ Review(r)'
    BY <1>2, <1>3, <1>6, <2>1 DEF Claims, Review, Unsent, Early, Cleared
  <2> QED BY <1>1, <1>2, <1>3, <1>4, <1>5, <1>9, <2>2, ProceedKeeps DEF Stage
<1>10. CASE ~Previews(t) /\ Proceed(r, "audit") /\ form[r].impact = seen
  <2>1. Compared(form[r], view'[r])
    <3>1. t.plane \in {"access", "final"} /\ (t.confirm => form[r].confirmed)
      BY <1>2, <1>3, <1>10 DEF Review, Admitted
    <3> QED BY <1>5, <1>10, <3>1 DEF Compared, Resolves
  <2>2. stage'[r] = "audit" => Claims(r)' /\ Review(r)'
    BY <1>2, <1>3, <1>6, <2>1 DEF Claims, Review, Unsent, Early, Cleared
  <2> QED BY <1>1, <1>2, <1>3, <1>4, <1>5, <1>10, <2>2, ProceedKeeps DEF Stage
<1> QED BY <1>2, <1>7, <1>8, <1>9, <1>10

\* The authorization and the call.
LEMMA CallPlane ==
    ASSUME PlaneInv, NEW r \in Request, Authorize(r) \/ Send(r), UNCHANGED workload
    PROVE  PlaneInv'
<1>0. EvidenceInv'
  BY AuthorizeKeeps, CallKeeps DEF PlaneInv
<1>1. CASE Authorize(r)
  <2>1. PICK s \in Cleared :
          /\ stage[r] = "audit" /\ UNCHANGED <<form, view, flight, transport>>
          /\ Proceed(r, s) /\ Log(r, "authorized")
    BY <1>1 DEF Authorize, worldVars, Cleared
  <2>2. flight[r] = "none" /\ Claims(r) /\ Review(r)
        /\ Shaped(view[r]) /\ view = [q \in Request |-> view[q]]
        /\ \A q \in Request \ {r} : q \in Authorized' <=> q \in Authorized
    BY <2>1, UnsentFacts, LogFrame DEF Unsent, Early
  <2>3. stage'[r] = s => Claims(r)' /\ Review(r)'
    BY <2>1, <2>2 DEF Claims, Review, Unsent, Early, Cleared
  <2>4. s \in Stage
    BY DEF Stage, Reading, Cleared
  <2> QED BY <1>0, <2>1, <2>2, <2>3, <2>4, ProceedKeeps
<1>2. CASE Send(r)
  <2>1. /\ stage[r] = "send" /\ UNCHANGED <<form, view, audit, transport>>
        /\ Proceed(r, "wait") /\ flight' = [flight EXCEPT ![r] = "sent"]
    BY <1>2 DEF Send, worldVars
  <2>2. Claims(r) /\ Review(r) /\ Authorized' = Authorized
        /\ Shaped(view[r]) /\ view = [q \in Request |-> view[q]]
    BY <2>1, UnsentFacts, AuditFrame DEF Unsent, Cleared
  <2>3. \A q \in Request \ {r} : flight'[q] = flight[q]
    BY <2>1 DEF PlaneInv, EvidenceInv
  <2>4. stage'[r] = "wait" => Claims(r)' /\ Review(r)'
    BY <2>1, <2>2 DEF Claims, Review, Unsent, Early, Cleared
  <2> QED BY <1>0, <2>1, <2>2, <2>3, <2>4, ProceedKeeps DEF Stage
<1> QED BY <1>1, <1>2

\* The answer, as the transport reports it, the follow-up records and the dying worker.
LEMMA OutcomePlane ==
    ASSUME PlaneInv, NEW r \in Request, UNCHANGED workload,
           ReplyAccepted(r) \/ NoVerdict(r) \/ Complete(r) \/ Fail(r) \/ Unknown(r) \/ Crash(r)
    PROVE  PlaneInv'
<1>0. EvidenceInv'
  BY OutcomeKeeps DEF PlaneInv
<1>1. /\ Claims(r) /\ Review(r) /\ Shaped(view[r]) /\ view = [q \in Request |-> view[q]]
      /\ UNCHANGED <<form, view, flight, transport>>
  BY DEF PlaneInv, ShapeInv, ReplyAccepted, NoVerdict, Complete, Fail, Unknown, Crash, worldVars
<1>2. Authorized' = Authorized
  <2>1. UNCHANGED audit \/ \E p \in {"completed", "failed", "unknown"} : Log(r, p)
    BY DEF ReplyAccepted, NoVerdict, Complete, Fail, Unknown, Crash
  <2> QED BY <2>1, LogFrame, AuditFrame
<1>3. CASE ReplyAccepted(r) \/ NoVerdict(r) \/ Crash(r)
  <2>1. CASE Raise(r) /\ ReadOnly(r)
    BY <1>0, <1>1, <1>2, <2>1, RaiseKeeps DEF Tracked, ReadOnly
  <2>2. CASE /\ stage[r] = "wait" /\ flight[r] = "executed" /\ Proceed(r, "complete")
    <3>1. stage'[r] = "complete" => Claims(r)' /\ Review(r)'
      BY <1>1, <1>2, <2>2 DEF Claims, Review, Unsent, Early, Cleared
    <3> QED BY <1>0, <1>1, <1>2, <2>2, <3>1, ProceedKeeps DEF Stage
  <2>3. ASSUME NEW s \in {"unknown", "dead"}, Proceed(r, s) PROVE PlaneInv'
    <3>1. stage'[r] = s => Claims(r)' /\ Review(r)'
      BY <1>1, <1>2 DEF Claims, Review, Unsent, Early, Cleared
    <3> QED BY <1>0, <1>1, <1>2, <2>3, <3>1, ProceedKeeps DEF Stage
  <2> QED BY <1>3, <2>1, <2>2, <2>3 DEF ReplyAccepted, NoVerdict, Crash
<1>4. CASE Complete(r) \/ Fail(r) \/ Unknown(r)
  <2>1. PICK v \in Verdict :
          /\ Answer(r, v)
          /\ Tracked(r) => /\ v \in Refusals \cup Acceptances \cup {"unknown"}
                           /\ v \in Refusals => flight[r] \in {"none", "refused"}
                           /\ v \in Acceptances => flight[r] = "executed"
    <3>1. CASE Complete(r)
      BY <1>1, <3>1 DEF Complete, Claims, Verdict, Refusals, Acceptances
    <3>2. CASE Fail(r)
      BY <1>1, <3>2 DEF Fail, Claims, Verdict, Refusals, Acceptances
    <3>3. CASE Unknown(r)
      BY <1>1, <3>3 DEF Unknown, Claims, Verdict, Refusals, Acceptances
    <3> QED BY <1>4, <3>1, <3>2, <3>3
  <2> QED BY <1>0, <1>1, <1>2, <2>1, AnswerKeeps
<1> QED BY <1>3, <1>4

\* OpenBao carries out only what is in flight, which no failure claims.
LEMMA BaoFacts ==
    ASSUME PlaneInv, NEW r \in Request, OpenBao(r)
    PROVE  /\ UNCHANGED <<form, stage, view, verdict, audit, transport>>
           /\ flight[r] = "sent" /\ flight'[r] \in {"executed", "refused", "lost"}
           /\ flight' \in [Request -> Flight]
           /\ \A q \in Request \ {r} : flight'[q] = flight[q]
<1>1. PICK f \in {"executed", "refused", "lost"} : Arrive(r, f)
  BY DEF OpenBao, Turned, EngineEffect, AuthEffect, ResourceEffect
<1> QED BY <1>1 DEF Arrive, worldVars, PlaneInv, EvidenceInv, Flight

\* OpenBao changes nothing a request claims before it answers.
LEMMA BaoPlane ==
    ASSUME PlaneInv, NEW r \in Request, OpenBao(r), UNCHANGED workload
    PROVE  PlaneInv'
<1>0. EvidenceInv'
  BY OpenBaoKeeps DEF PlaneInv
<1>1. /\ UNCHANGED <<form, stage, view, verdict, audit, transport>>
      /\ flight[r] = "sent" /\ flight'[r] \in {"executed", "refused", "lost"}
      /\ \A q \in Request \ {r} : flight'[q] = flight[q]
  BY BaoFacts
<1>2. Authorized' = Authorized
  BY <1>1, AuditFrame
<1>3. ShapeInv' /\ Others(r)
  BY <1>1, <1>2 DEF PlaneInv, ShapeInv, Others
<1>4. Claims(r)'
  BY <1>1, <1>2 DEF PlaneInv, Claims, Unsent, Early, Cleared, Tracked, Misreported, Refusals,
     Acceptances
<1>5. Review(r)'
  BY <1>1 DEF PlaneInv, Review
<1> QED BY <1>0, <1>3, <1>4, <1>5, OneRequest

\* Changes elsewhere and stuttering leave the requests alone.
LEMMA QuietPlane ==
    ASSUME PlaneInv, UNCHANGED <<requestVars, transport, workload>>
    PROVE  PlaneInv'
<1>1. UNCHANGED <<form, stage, view, flight, verdict, audit, transport, workload>>
  BY DEF requestVars
<1>2. EvidenceInv' /\ Authorized' = Authorized
  BY <1>1, StutterKeeps, AuditFrame DEF PlaneInv
<1>3. ShapeInv'
  BY <1>1 DEF PlaneInv, ShapeInv
<1>4. ASSUME NEW q \in Request PROVE Claims(q)' /\ Review(q)'
  BY <1>1, <1>2 DEF PlaneInv, Claims, Review, Tracked, Misreported
<1> QED BY <1>1, <1>2, <1>3, <1>4 DEF PlaneInv

\* What changes elsewhere changes no request.
LEMMA ElsewhereFrame ==
    ASSUME Elsewhere
    PROVE  UNCHANGED <<requestVars, transport, ambient>>
BY DEF Elsewhere, ServiceChanges, EngineElsewhere, StoreCredential, DeleteCredentials,
       ReplaceEngine, ReplaceMethod, ResourceElsewhere, Outside

\* Every step of the planes keeps claims and reviews.
LEMMA PlaneStep == PlaneInv /\ [Next]_vars => PlaneInv'
<1> SUFFICES ASSUME PlaneInv, [Next]_vars PROVE PlaneInv'
  OBVIOUS
<1>1. CASE UNCHANGED vars
  BY <1>1, QuietPlane DEF vars, guardedVars, worldVars
<1>2. CASE Elsewhere /\ UNCHANGED workload
  BY <1>2, ElsewhereFrame, QuietPlane
<1>3. ASSUME NEW r \in Request, UNCHANGED workload,
             Begin(r) \/ Work(r) \/ OpenBao(r) \/ Crash(r)
      PROVE  PlaneInv'
  BY <1>3, BeginPlane, FailuresPlane, SealPlane, DiscoverPlane, FetchPlane, ReadUnknownPlane,
     ObservePlane, EngineMountsPlane, PrepareMountedPlane, ResolvePlane, ImpactPlane, CallPlane,
     OutcomePlane, BaoPlane DEF Work, Handle
<1> QED BY <1>1, <1>2, <1>3 DEF Next

\* Claims and reviews hold throughout.
THEOREM PlaneCorrect == Spec => []PlaneInv
BY PlaneInit, PlaneStep, PTL DEF Spec

--------------------------------------------------------------------------------
(***************************************************************************)
(* The planes implement AuditedMutation.                                   *)
(***************************************************************************)

AbstractStep == [AM!Next]_(AM!mutationVars)

\* A step that leaves what the abstract specification sees is a stuttering step.
LEMMA Stutter ==
    ASSUME UNCHANGED <<Recorded, Sent, Effected, Reported>>
    PROVE  AbstractStep
BY DEF AbstractStep, AM!mutationVars

\* What is recorded, sent and carried out follows rows, calls and forms.
LEMMA SeenFrame ==
    ASSUME UNCHANGED <<form, transport>>
    PROVE  /\ \A q \in Request : Tracked(q)' <=> Tracked(q)
           /\ Authorized' = Authorized => Recorded' = Recorded
           /\ UNCHANGED flight => Sent' = Sent /\ Effected' = Effected
<1>1. \A q \in Request : Tracked(q)' <=> Tracked(q)
  BY DEF Tracked, Misreported
<1>2. Authorized' = Authorized => Recorded' = Recorded
  BY <1>1 DEF Recorded, Authorized
<1>3. UNCHANGED flight => Sent' = Sent /\ Effected' = Effected
  BY <1>1 DEF Sent, Effected, Dispatched, Executed
<1> QED BY <1>1, <1>2, <1>3

\* A step that writes no authorization, moves no call and answers nobody.
LEMMA Quiet ==
    ASSUME UNCHANGED <<form, transport, flight>>, Authorized' = Authorized,
           \A q \in Request : /\ stage'[q] = "done" <=> stage[q] = "done"
                              /\ stage[q] = "done" => verdict'[q] = verdict[q]
    PROVE  AbstractStep
<1>1. Recorded' = Recorded /\ Sent' = Sent /\ Effected' = Effected
  BY SeenFrame
<1>2. Reported' = Reported
  BY SeenFrame DEF Reported
<1> QED BY <1>1, <1>2, Stutter

\* A request that goes on without an answer.
LEMMA OnwardRefines ==
    ASSUME PlaneInv, NEW r \in Request, UNCHANGED <<form, transport, flight>>,
           Authorized' = Authorized, stage[r] # "done", NEW s, s # "done",
           Raise(r) \/ Proceed(r, s)
    PROVE  AbstractStep
<1>1. \A q \in Request : /\ stage'[q] = "done" <=> stage[q] = "done"
                         /\ stage[q] = "done" => verdict'[q] = verdict[q]
  BY DEF Raise, Proceed, Goto, PlaneInv, EvidenceInv, ShapeInv
<1> QED BY <1>1, Quiet

\* What a verdict tells the operator.
LEMMA ToldFacts ==
    ASSUME NEW v
    PROVE  /\ v \in Refusals => Told(v) = "refused"
           /\ v \in Acceptances => Told(v) = "accepted"
           /\ v = "unknown" => Told(v) = "unknown"
BY DEF Told, Refusals, Acceptances

\* An answer is the abstract answer that the claims of the request allow.
LEMMA AnswerRefines ==
    ASSUME PlaneInv, PlaneInv', NEW r \in Request, NEW v, Answer(r, v),
           UNCHANGED <<form, transport, flight>>, Authorized' = Authorized, stage[r] # "done"
    PROVE  AbstractStep
<1>1. /\ stage'[r] = "done" /\ verdict'[r] = v
      /\ \A q \in Request \ {r} : stage'[q] = stage[q] /\ verdict'[q] = verdict[q]
  BY DEF Answer, Goto, PlaneInv, EvidenceInv, ShapeInv
<1>2. /\ \A q \in Request : Tracked(q)' <=> Tracked(q)
      /\ Recorded' = Recorded /\ Sent' = Sent /\ Effected' = Effected
  BY SeenFrame
<1>3. CASE ~Tracked(r)
  <2>1. Reported' = Reported
    BY <1>1, <1>2, <1>3 DEF Reported
  <2> QED BY <1>2, <2>1, Stutter
<1>4. CASE Tracked(r)
  <2>1. Claims(r)'
    BY DEF PlaneInv
  <2>2. /\ v \in Refusals \cup Acceptances \cup {"unknown"}
        /\ v \in Refusals => flight[r] \in {"none", "refused"}
        /\ v \in Acceptances => flight[r] = "executed"
    BY <1>1, <1>2, <1>4, <2>1 DEF Claims
  <2>3. Reported[r] = "none" /\ Reported' = [Reported EXCEPT ![r] = Told(v)]
    BY <1>1, <1>2, <1>4 DEF Reported
  <2>4. r \in Effected <=> flight[r] = "executed"
    BY <1>4 DEF Effected, Executed
  <2>5. /\ Told(v) \in {"refused", "accepted", "unknown"}
        /\ Told(v) = "refused" => r \notin Effected
        /\ Told(v) = "accepted" => r \in Effected
    BY <2>2, <2>4, ToldFacts
  <2>6. AM!Answer(r, Told(v))
    BY <1>2, <2>3, <2>5 DEF AM!Answer
  <2> QED BY <2>5, <2>6 DEF AbstractStep, AM!Next
<1> QED BY <1>3, <1>4

\* A new request has no record and no call; a rejected one is refused at once.
LEMMA BeginRefines ==
    ASSUME PlaneInv, NEW r \in Request, Begin(r)
    PROVE  AbstractStep
<1>1. PICK f, v : Submit(r, f, v) \/ Reject(r, f)
  BY Admission
<1>2. /\ stage[r] = "idle" /\ UNCHANGED <<flight, audit, transport>>
      /\ \A q \in Request \ {r} :
           form'[q] = form[q] /\ stage'[q] = stage[q] /\ verdict'[q] = verdict[q]
      /\ \/ stage'[r] = "seal"
         \/ stage'[r] = "done" /\ verdict'[r] = "invalid"
  BY <1>1 DEF Submit, Reject, Proceed, Answer, Goto, worldVars, PlaneInv, EvidenceInv, ShapeInv
<1>3. r \notin Authorized /\ flight[r] = "none" /\ ~Tracked(r)
  BY <1>2 DEF PlaneInv, Claims, Early, Unsent, Tracked
<1>4. \A q \in Request \ {r} : Tracked(q)' <=> Tracked(q)
  BY <1>2 DEF Tracked, Misreported
<1>5. Recorded' = Recorded /\ Sent' = Sent /\ Effected' = Effected
  BY <1>2, <1>3, <1>4 DEF Recorded, Sent, Effected, Authorized, Dispatched, Executed
<1>6. CASE Tracked(r)' /\ stage'[r] = "done"
  <2>1. Told(verdict'[r]) = "refused"
    BY <1>2, <1>6, ToldFacts DEF Refusals
  <2>2. Reported[r] = "none" /\ Reported' = [Reported EXCEPT ![r] = "refused"]
    BY <1>2, <1>3, <1>4, <1>6, <2>1 DEF Reported
  <2>3. r \notin Effected
    BY <1>3 DEF Effected
  <2>4. AM!Answer(r, "refused")
    BY <1>5, <2>2, <2>3 DEF AM!Answer
  <2> QED BY <2>4 DEF AbstractStep, AM!Next
<1>7. CASE ~(Tracked(r)' /\ stage'[r] = "done")
  <2>1. Reported' = Reported
    BY <1>2, <1>3, <1>4, <1>7 DEF Reported
  <2> QED BY <1>5, <2>1, Stutter
<1> QED BY <1>6, <1>7

\* A request that writes its authorization row, whether or not it learns that it did.
LEMMA AuthorizeRefines ==
    ASSUME PlaneInv, NEW r \in Request, stage[r] = "audit", Log(r, "authorized"),
           UNCHANGED <<form, transport, flight>>, NEW s, s # "done", Raise(r) \/ Proceed(r, s)
    PROVE  AbstractStep
<1>1. \A q \in Request : /\ stage'[q] = "done" <=> stage[q] = "done"
                         /\ stage[q] = "done" => verdict'[q] = verdict[q]
  BY DEF Raise, Proceed, Goto, PlaneInv, EvidenceInv, ShapeInv
<1>2. Authorized' = Authorized \cup {r} /\ r \notin Authorized
  BY LogFrame DEF PlaneInv, Claims, Early
<1>3. /\ \A q \in Request : Tracked(q)' <=> Tracked(q)
      /\ Sent' = Sent /\ Effected' = Effected
  BY SeenFrame
<1>4. Reported' = Reported /\ Reported[r] = "none"
  BY <1>1, <1>3 DEF Reported
<1>5. CASE Tracked(r)
  <2>1. Recorded' = Recorded \cup {r} /\ r \notin Recorded
    BY <1>2, <1>3, <1>5 DEF Recorded, Authorized
  <2>2. AM!Authorize(r)
    BY <1>3, <1>4, <2>1 DEF AM!Authorize
  <2> QED BY <2>2 DEF AbstractStep, AM!Next
<1>6. CASE ~Tracked(r)
  <2>1. Recorded' = Recorded
    BY <1>2, <1>3, <1>6 DEF Recorded, Authorized
  <2> QED BY <1>3, <1>4, <2>1, Stutter
<1> QED BY <1>5, <1>6

\* The one call is the abstract dispatch.
LEMMA SendRefines ==
    ASSUME PlaneInv, NEW r \in Request, Send(r)
    PROVE  AbstractStep
<1>1. /\ UNCHANGED <<form, audit, verdict, transport>>
      /\ stage[r] = "send" /\ stage'[r] = "wait" /\ flight'[r] = "sent"
      /\ \A q \in Request \ {r} : stage'[q] = stage[q] /\ flight'[q] = flight[q]
  BY DEF Send, Proceed, Goto, worldVars, PlaneInv, EvidenceInv
<1>2. flight[r] = "none" /\ r \in Authorized
  BY <1>1 DEF PlaneInv, EvidenceInv, Claims, Unsent, Cleared
<1>3. /\ \A q \in Request : Tracked(q)' <=> Tracked(q)
      /\ Recorded' = Recorded
  BY <1>1, SeenFrame, AuditFrame
<1>4. Effected' = Effected
  BY <1>1, <1>2, <1>3 DEF Effected, Executed
<1>5. Reported' = Reported /\ Reported[r] = "none"
  BY <1>1, <1>3 DEF Reported
<1>6. CASE Tracked(r)
  <2>1. Sent' = Sent \cup {r} /\ r \in Recorded \ Sent
    BY <1>1, <1>2, <1>3, <1>6 DEF Sent, Recorded, Dispatched
  <2>2. AM!Send(r)
    BY <1>3, <1>4, <1>5, <2>1 DEF AM!Send
  <2> QED BY <2>2 DEF AbstractStep, AM!Next
<1>7. CASE ~Tracked(r)
  <2>1. Sent' = Sent
    BY <1>1, <1>3, <1>7 DEF Sent, Dispatched
  <2> QED BY <1>3, <1>4, <1>5, <2>1, Stutter
<1> QED BY <1>6, <1>7

\* OpenBao carries out only what is in flight, and nobody was told it failed.
LEMMA BaoRefines ==
    ASSUME PlaneInv, NEW r \in Request, OpenBao(r)
    PROVE  AbstractStep
<1>1. /\ UNCHANGED <<form, stage, verdict, audit, transport>>
      /\ flight[r] = "sent" /\ flight'[r] \in {"executed", "refused", "lost"}
      /\ \A q \in Request \ {r} : flight'[q] = flight[q]
  BY BaoFacts
<1>2. /\ \A q \in Request : Tracked(q)' <=> Tracked(q)
      /\ Recorded' = Recorded
  BY <1>1, SeenFrame, AuditFrame
<1>3. Sent' = Sent
  BY <1>1, <1>2 DEF Sent, Dispatched
<1>4. Reported' = Reported
  BY <1>1, <1>2 DEF Reported
<1>5. CASE Tracked(r) /\ flight'[r] = "executed"
  <2>1. Effected' = Effected \cup {r} /\ r \in Sent \ Effected
    BY <1>1, <1>2, <1>5 DEF Effected, Sent, Dispatched, Executed
  <2>2. stage[r] = "done" => verdict[r] = "unknown"
    BY <1>1, <1>5 DEF PlaneInv, Claims
  <2>3. Reported[r] \in {"none", "unknown"}
    BY <2>2, ToldFacts DEF Reported
  <2>4. AM!Effect(r)
    BY <1>2, <1>3, <1>4, <2>1, <2>3 DEF AM!Effect
  <2> QED BY <2>4 DEF AbstractStep, AM!Next
<1>6. CASE ~(Tracked(r) /\ flight'[r] = "executed")
  <2>1. Effected' = Effected
    BY <1>1, <1>2, <1>6 DEF Effected, Executed
  <2> QED BY <1>2, <1>3, <1>4, <2>1, Stutter
<1> QED BY <1>5, <1>6

\* Reads and the transport's reading of the answer are invisible, unless they answer.
LEMMA ReadRefines ==
    ASSUME PlaneInv, PlaneInv', NEW r \in Request,
           \/ SealStatus(r) \/ Discover(r, Document) \/ Fetch(r) \/ ReadFails(r) \/ ReadUnknown(r)
           \/ EngineMounts(r) \/ PrepareMounted(r) \/ ResolveMount(r) \/ ReadImpact(r)
           \/ SendFails(r) \/ ReplyAccepted(r) \/ ReplyRefused(r) \/ NoVerdict(r)
           \/ ReplyUnparsed(r) \/ Crash(r)
    PROVE  AbstractStep
<1> DEFINE S == Stage \ {"done"}
<1>1. /\ UNCHANGED <<form, transport, flight, audit>> /\ stage[r] # "done"
      /\ Raise(r) \/ (\E s \in S : Proceed(r, s)) \/ \E v : Answer(r, v)
  <2>1. CASE Discover(r, Document)
    <3>1. AfterDiscover(form[r].task, view[r].kind) \in S
      BY DEF AfterDiscover, Stage, Reading
    <3> HIDE DEF S
    <3> QED BY <2>1, <3>1 DEF Discover, worldVars
  <2>2. CASE SealStatus(r) \/ Fetch(r) \/ ReadFails(r) \/ ReadUnknown(r)
    BY <2>2 DEF SealStatus, Fetch, ReadFails, ReadUnknown, worldVars, Stage, Reading
  <2>3. CASE EngineMounts(r) \/ PrepareMounted(r) \/ ResolveMount(r) \/ ReadImpact(r)
    <3>1. /\ UNCHANGED <<form, transport, flight, audit>> /\ stage[r] \in {"mounts", "impact"}
      BY <2>3 DEF EngineMounts, PrepareMounted, ResolveMount, ReadImpact, worldVars
    <3>2. \/ Raise(r) \/ Answer(r, "invalid")
          \/ \E s \in {"audit", "observe", "fetch", "resolved", "impact"} : Proceed(r, s)
      BY <2>3 DEF EngineMounts, PrepareMounted, ResolveMount, ReadImpact
    <3> QED BY <3>1, <3>2 DEF Stage, Reading
  <2>4. CASE SendFails(r) \/ ReplyAccepted(r) \/ ReplyRefused(r) \/ NoVerdict(r)
             \/ ReplyUnparsed(r) \/ Crash(r)
    BY <2>4 DEF SendFails, ReplyAccepted, ReplyRefused, NoVerdict, ReplyUnparsed, Crash,
                worldVars, Stage
  <2> QED BY <2>1, <2>2, <2>3, <2>4
<1>2. Authorized' = Authorized
  BY <1>1, AuditFrame
<1> QED BY <1>1, <1>2, OnwardRefines, AnswerRefines

\* So are observations and follow-up records; the answers that come with them are not.
LEMMA RecordRefines ==
    ASSUME PlaneInv, PlaneInv', NEW r \in Request,
           \/ Observe(r) \/ ObserveFails(r) \/ Resolved(r)
           \/ Complete(r) \/ Fail(r) \/ Unknown(r)
    PROVE  AbstractStep
<1>1. /\ UNCHANGED <<form, transport, flight>> /\ stage[r] # "done"
      /\ UNCHANGED audit
         \/ \E p \in {"observed", "completed", "failed", "unknown"} : Log(r, p)
      /\ Raise(r) \/ Proceed(r, "seal") \/ \E v : Answer(r, v)
  BY DEF Observe, ObserveFails, Resolved, Complete, Fail, Unknown, worldVars
<1>2. Authorized' = Authorized
  BY <1>1, LogFrame, AuditFrame
<1> QED BY <1>1, <1>2, OnwardRefines, AnswerRefines

\* Every step of the planes is a step of the promise, or invisible.
LEMMA PlaneRefines == PlaneInv /\ PlaneInv' /\ [Next]_vars => AbstractStep
<1> SUFFICES ASSUME PlaneInv, PlaneInv', [Next]_vars PROVE AbstractStep
  OBVIOUS
<1>1. CASE Elsewhere \/ UNCHANGED vars
  <2>1. UNCHANGED <<form, stage, flight, verdict, audit, transport>>
    BY <1>1, ElsewhereFrame DEF vars, guardedVars, worldVars, requestVars
  <2> QED BY <2>1, AuditFrame, Quiet
<1>2. ASSUME NEW r \in Request, Authorize(r) \/ AuthorizeFails(r) PROVE AbstractStep
  <2>1. PICK s \in {"prelude", "send", "fail"} :
          /\ stage[r] = "audit" /\ UNCHANGED <<form, transport, flight>>
          /\ Raise(r) \/ Proceed(r, s)
          /\ Log(r, "authorized") \/ UNCHANGED audit
    BY <1>2 DEF Authorize, AuthorizeFails, worldVars
  <2>2. CASE Log(r, "authorized")
    BY <2>1, <2>2, AuthorizeRefines
  <2>3. CASE UNCHANGED audit
    BY <2>1, <2>3, AuditFrame, OnwardRefines
  <2> QED BY <2>1, <2>2, <2>3
<1>3. ASSUME NEW r \in Request, Begin(r) \/ Work(r) \/ OpenBao(r) \/ Crash(r)
      PROVE  AbstractStep
  BY <1>2, <1>3, BeginRefines, ReadRefines, RecordRefines, SendRefines, BaoRefines DEF Work, Handle
<1> QED BY <1>1, <1>3 DEF Next

\* Initially nothing is recorded, sent, done or told.
LEMMA PlaneInitRefines == Init => AM!Init
BY DEF Init, GuardedInit, AM!Init, Recorded, Sent, Effected, Reported, Authorized, Dispatched,
       Executed

\* On every plane a mutation, but a direct remount or mounted operation, is authorized
\* durably, sent at most once, and never reported as refused when OpenBao carried it
\* out or still may.
THEOREM PlaneAuditedMutation == Spec => ImplementsAuditedMutation
<1>1. PlaneInv /\ PlaneInv' /\ [Next]_vars => [AM!Next]_(AM!mutationVars)
  BY PlaneRefines DEF AbstractStep
<1> QED
  BY <1>1, PlaneInit, PlaneStep, PlaneInitRefines, PTL
     DEF Spec, ImplementsAuditedMutation, AM!Spec

--------------------------------------------------------------------------------
(***************************************************************************)
(* What was reviewed is what is done, as long as nobody raced it.          *)
(***************************************************************************)

\* A call in flight that meets what its preflight read meets what was reviewed.
LEMMA FlightReviewed ==
    ASSUME PlaneInv, NEW r \in Request, flight[r] = "sent", Unraced(r)
    PROVE  Reviewed(form[r])
<1> DEFINE f == form[r]
           v == view[r]
<1>1. Admitted(f, v) /\ Bound(f, v) /\ Compared(f, v)
  BY DEF PlaneInv, Review
<1>2. DigestBound(f.task) => f.digest = Document
  BY <1>1 DEF Bound, Unraced
<1>3. f.task.plane \in {"engine", "journey", "explorer"} =>
        f.target \in Mount /\ v.kind = engines[f.target]
  BY <1>1 DEF Admitted, Unraced
<1>4. f.task.plane = "explorer" => f.target \in Mounted \ Reserved
  BY <1>1, <1>3 DEF Compared, Mounted
<1>5. f.task.plane = "engine" /\ f.task.id = "disable" => f.target \notin rows
  BY <1>1 DEF Admitted, Unraced
<1>6. Resolves(f.task) => auths[f.target] = f.task.kind
  BY <1>1 DEF Compared, Unraced
<1>7. f.task.plane \in {"access", "final"} /\ f.task.confirm =>
        f.impact = version[FamilyOf(f.task)]
  BY <1>1 DEF Compared, Unraced
<1> QED BY <1>1, <1>2, <1>3, <1>4, <1>5, <1>6, <1>7 DEF Compared, Reviewed

\* On every plane a call that meets what its preflight read (document, mount list,
\* inventory, impact) meets what the operator reviewed and confirmed.
THEOREM PlaneReviewed == Spec => UnracedActsOnReviewed
<1>1. PlaneInv => [\A r \in Request : Acts(r) /\ Unraced(r) => Reviewed(form[r])]_vars
  BY FlightReviewed DEF Acts
<1> QED
  BY <1>1, PlaneInit, PlaneStep, PTL DEF Spec, UnracedActsOnReviewed

--------------------------------------------------------------------------------
(***************************************************************************)
(* Types.                                                                  *)
(***************************************************************************)

\* The part of the type invariant that belongs to one request.
RequestTyped(r) ==
    FormTyped(form[r]) /\ view[r].rows \subseteq Mount

WorldTyped ==
    /\ service \in Service /\ outside \in 0..MaxOutside
    /\ transport \in {"direct", "broker"} /\ ambient \in BOOLEAN
    /\ audit \subseteq [req : Request, phase : Phase]
    /\ engines \in [Mount -> Engine] /\ rows \subseteq Mount
    /\ auths \in [AuthMount -> AuthType \cup {"none"}]
    /\ version \in [Family -> Nat \X Nat]

TypeInv == PlaneInv /\ WorldTyped /\ \A r \in Request : RequestTyped(r)

\* The inductive form contains the type invariant.
LEMMA TypesFollow == TypeInv => TypeOK
<1> SUFFICES ASSUME TypeInv PROVE TypeOK
  OBVIOUS
<1>1. ASSUME NEW r \in Request
      PROVE  /\ form[r].task.risk \in {"read", "write", "destructive"}
             /\ form[r].target \in Mount \cup AuthMount \cup {"none"}
             /\ form[r].confirmed \in BOOLEAN
             /\ stage[r] \in Stage /\ flight[r] \in Flight /\ verdict[r] \in Verdict
             /\ view[r].rows \subseteq Mount
  BY DEF TypeInv, RequestTyped, FormTyped, Disciplined, PlaneInv, EvidenceInv, ShapeInv
<1> QED BY <1>1 DEF TypeInv, WorldTyped, TypeOK

\* Types hold initially.
LEMMA TypesInit == Init => TypeInv
<1> SUFFICES ASSUME Init PROVE TypeInv
  OBVIOUS
<1>1. PlaneInv
  BY PlaneInit
<1>2. WorldTyped
  <2>1. engines \in [Mount -> Engine] /\ rows \subseteq Mount
    BY EngineAssumption DEF Init, EngineInit, Engine
  <2>2. auths \in [AuthMount -> AuthType \cup {"none"}]
    BY AuthAssumption DEF Init, AuthInit
  <2>3. version \in [Family -> Nat \X Nat]
    BY DEF Init, ResourceInit
  <2> QED BY <2>1, <2>2, <2>3, PlaneAssumption DEF Init, GuardedInit, WorldTyped, Service, Supported
<1>3. ASSUME NEW r \in Request PROVE RequestTyped(r)
  <2>1. form[r] = NoForm /\ view[r] = NoView
    BY DEF Init, GuardedInit
  <2>2. NoForm.task = NoTask /\ NoForm.target = "none" /\ NoForm.confirmed = FALSE
    BY DEF NoForm
  <2>3. Disciplined(NoTask)
    BY DEF NoTask, Disciplined, Catalog, Previews, Lists
  <2> QED BY <2>1, <2>2, <2>3, NoViewFields DEF RequestTyped, FormTyped
<1> QED BY <1>1, <1>2, <1>3 DEF TypeInv

\* Forms and views keep their types: a form is typed when it is submitted, and only a
\* submission writes the rows of a view.
LEMMA RequestsTyped ==
    ASSUME TypeInv, PlaneInv', [Next]_vars
    PROVE  \A r \in Request : RequestTyped(r)'
<1>1. CASE UNCHANGED <<form, view>>
  BY <1>1 DEF TypeInv, RequestTyped
<1>2. ASSUME NEW r \in Request, UNCHANGED form, NEW x, view' = [view EXCEPT ![r].document = x]
                \/ view' = [view EXCEPT ![r].kind = x] \/ view' = [view EXCEPT ![r].impact = x]
      PROVE  \A q \in Request : RequestTyped(q)'
  <2>1. Shaped(view[r]) /\ view = [q \in Request |-> view[q]]
    BY DEF TypeInv, PlaneInv, ShapeInv
  <2>2. /\ \/ view'[r] = [view[r] EXCEPT !.document = x]
           \/ view'[r] = [view[r] EXCEPT !.kind = x]
           \/ view'[r] = [view[r] EXCEPT !.impact = x]
        /\ \A q \in Request \ {r} : view'[q] = view[q]
    BY <1>2, <2>1
  <2>3. view'[r].rows = view[r].rows
    BY <2>1, <2>2 DEF Shaped
  <2> QED BY <1>2, <2>2, <2>3 DEF TypeInv, RequestTyped
<1>3. ASSUME NEW r \in Request, Begin(r) PROVE \A q \in Request : RequestTyped(q)'
  <2>1. PICK f, v : /\ FormTyped(f)
                    /\ (Submit(r, f, v) /\ Admitted(f, v) /\ Fresh(v)) \/ Reject(r, f)
    BY <1>3, Admission DEF TypeInv
  <2>2. /\ form' = [form EXCEPT ![r] = f]
        /\ UNCHANGED view \/ (view' = [view EXCEPT ![r] = v] /\ Fresh(v))
    BY <2>1 DEF Submit, Reject
  <2>3. form'[r] = f /\ \A q \in Request \ {r} : form'[q] = form[q] /\ view'[q] = view[q]
    BY <2>2 DEF TypeInv, PlaneInv, ShapeInv
  <2>4. view'[r].rows \subseteq Mount
    BY <2>2 DEF TypeInv, PlaneInv, ShapeInv, RequestTyped, WorldTyped, Fresh
  <2> QED BY <2>1, <2>3, <2>4 DEF TypeInv, RequestTyped
<1>4. CASE Elsewhere \/ UNCHANGED vars
  BY <1>1, <1>4, ElsewhereFrame DEF vars, guardedVars, requestVars
<1>5. ASSUME NEW r \in Request, Work(r) \/ OpenBao(r) \/ Crash(r)
      PROVE  \A q \in Request : RequestTyped(q)'
  <2>1. CASE Discover(r, Document)
    BY <1>2, <2>1 DEF Discover
  <2>2. CASE EngineMounts(r) \/ PrepareMounted(r) \/ ResolveMount(r)
    BY <1>2, <2>2 DEF EngineMounts, PrepareMounted, ResolveMount
  <2>3. CASE ReadImpact(r)
    <3>1. PICK x : view' = [view EXCEPT ![r].impact = x] /\ UNCHANGED form
      BY <2>3 DEF ReadImpact
    <3> QED BY <1>2, <3>1
  <2>4. CASE OpenBao(r)
    BY <1>1, <2>4, BaoFacts DEF TypeInv
  <2>5. CASE Resolved(r) \/ Crash(r) \/ (Handle(r, Document) /\ ~Discover(r, Document))
    <3>1. UNCHANGED <<form, view>>
      BY <2>5 DEF Resolved, Crash, Handle, SealStatus, Fetch, ReadFails, ReadUnknown, Observe,
         ObserveFails, Authorize, AuthorizeFails, Send, SendFails, ReplyAccepted, ReplyRefused,
         NoVerdict, ReplyUnparsed, Complete, Fail, Unknown
    <3> QED BY <1>1, <3>1
  <2> QED BY <1>5, <2>1, <2>2, <2>3, <2>4, <2>5 DEF Work
<1> QED BY <1>3, <1>4, <1>5 DEF Next

\* A version stays a pair of naturals when one half grows.
LEMMA TouchedTyped ==
    ASSUME version \in [Family -> Nat \X Nat], NEW y \in Family, NEW i \in 1..2, Touched(y, i)
    PROVE  version' \in [Family -> Nat \X Nat]
<1>1. PICK a \in Nat, b \in Nat : version[y] = <<a, b>>
  OBVIOUS
<1>2. [version[y] EXCEPT ![i] = version[y][i] + 1] \in Nat \X Nat
  <2>1. CASE i = 1
    <3>1. [<<a, b>> EXCEPT ![1] = <<a, b>>[1] + 1] = <<a + 1, b>>
      OBVIOUS
    <3> QED BY <1>1, <2>1, <3>1
  <2>2. CASE i = 2
    <3>1. [<<a, b>> EXCEPT ![2] = <<a, b>>[2] + 1] = <<a, b + 1>>
      OBVIOUS
    <3> QED BY <1>1, <2>2, <3>1
  <2> QED BY <2>1, <2>2
<1>3. version' = [version EXCEPT ![y] = [version[y] EXCEPT ![i] = version[y][i] + 1]]
  BY DEF Touched
<1> HIDE DEF Touched
<1> QED BY <1>2, <1>3

\* What OpenBao holds keeps its type: an effect writes a mounted type or nothing.
LEMMA EffectsTyped ==
    ASSUME TypeInv, NEW r \in Request, OpenBao(r)
    PROVE  /\ engines' \in [Mount -> Engine] /\ rows' \subseteq Mount
           /\ auths' \in [AuthMount -> AuthType \cup {"none"}]
           /\ version' \in [Family -> Nat \X Nat]
<1> DEFINE f == form[r]
<1>1. /\ engines \in [Mount -> Engine] /\ rows \subseteq Mount
      /\ auths \in [AuthMount -> AuthType \cup {"none"}]
      /\ version \in [Family -> Nat \X Nat]
  BY DEF TypeInv, WorldTyped
<1>2. CASE Turned(r) /\ UNCHANGED <<engineVars, auths, version>>
  BY <1>1, <1>2 DEF engineVars
<1>3. CASE /\ EngineEffect(r) /\ UNCHANGED auths
           /\ IF f.task.id = "disable" /\ f.target \in Mounted
              THEN Touched("leases", 1) ELSE UNCHANGED version
  <2>1. engines' \in [Mount -> Engine]
    <3>1. Enabled(f) \/ Remounted(f) \/ Disabled(f) \/ Operated(f)
      BY <1>3 DEF EngineEffect
    <3> QED BY <1>1, <3>1 DEF Enabled, Remounted, Disabled, Operated, Mounted, Engine
  <2>2. version' \in [Family -> Nat \X Nat]
    BY <1>1, <1>3, TouchedTyped DEF Family
  <2> QED BY <1>1, <1>3, <2>1, <2>2 DEF EngineEffect
<1>4. CASE AuthEffect(r) /\ UNCHANGED <<engineVars, version>>
  <2>1. AuthEnabled(f) \/ AuthRemounted(f) \/ AuthDisabled(f) \/ AuthOperated(f)
    BY <1>4 DEF AuthEffect
  <2>2. auths' \in [AuthMount -> AuthType \cup {"none"}]
    BY <1>1, <2>1 DEF AuthEnabled, AuthRemounted, AuthDisabled, AuthOperated, AuthMounted
  <2> QED BY <1>1, <1>4, <2>2 DEF engineVars
<1>5. CASE ResourceEffect(r) /\ UNCHANGED <<engineVars, auths>>
  <2>1. version' \in [Family -> Nat \X Nat]
    BY <1>1, <1>5, TouchedTyped DEF ResourceEffect
  <2> QED BY <1>1, <1>5, <2>1 DEF engineVars
<1> QED BY <1>2, <1>3, <1>4, <1>5 DEF OpenBao

\* Every step keeps the world typed.
LEMMA WorldKeeps ==
    ASSUME TypeInv, [Next]_vars
    PROVE  WorldTyped'
<1>0. WorldTyped
  BY DEF TypeInv
<1>1. CASE UNCHANGED vars
  BY <1>0, <1>1 DEF WorldTyped, vars, guardedVars, worldVars, requestVars, engineVars
<1>2. CASE Elsewhere
  <2>1. /\ UNCHANGED <<audit, transport, ambient>> /\ service' \in Service
        /\ outside' \in 0..MaxOutside
    <3>1. /\ service' \in Service \cup {service} /\ outside < MaxOutside /\ outside' = outside + 1
      BY <1>2 DEF Elsewhere, ServiceChanges, EngineElsewhere, StoreCredential, DeleteCredentials,
         ReplaceEngine, ReplaceMethod, ResourceElsewhere, Outside
    <3> QED BY <1>0, <1>2, <3>1, ElsewhereFrame, PlaneAssumption DEF WorldTyped, requestVars
  <2>2. engines' \in [Mount -> Engine] /\ rows' \subseteq Mount
    BY <1>0, <1>2 DEF WorldTyped, Elsewhere, EngineElsewhere, StoreCredential, DeleteCredentials,
       ReplaceEngine, engineVars, Engine
  <2>3. auths' \in [AuthMount -> AuthType \cup {"none"}]
    BY <1>0, <1>2 DEF WorldTyped, Elsewhere, ReplaceMethod
  <2>4. version' \in [Family -> Nat \X Nat]
    <3>1. UNCHANGED version \/ \E y \in Family, i \in 1..2 : Touched(y, i)
      BY <1>2 DEF Elsewhere, ResourceElsewhere
    <3> QED BY <1>0, <3>1, TouchedTyped DEF WorldTyped
  <2> QED BY <1>0, <2>1, <2>2, <2>3, <2>4 DEF WorldTyped
<1>3. ASSUME NEW r \in Request, Begin(r) \/ Work(r) \/ OpenBao(r) \/ Crash(r)
      PROVE  UNCHANGED worldVars /\ audit' \subseteq [req : Request, phase : Phase]
  <2>1. CASE Begin(r)
    <3>1. UNCHANGED <<worldVars, audit>>
      BY <2>1, Admission DEF TypeInv, Submit, Reject
    <3> QED BY <1>0, <3>1 DEF WorldTyped
  <2>2. CASE OpenBao(r)
    BY <1>0, <2>2 DEF WorldTyped, OpenBao, Turned, EngineEffect, AuthEffect, ResourceEffect, Arrive
  <2>3. CASE Work(r) \/ Crash(r)
    <3>1. /\ UNCHANGED worldVars
          /\ UNCHANGED audit \/ \E p \in Phase : Log(r, p)
      BY <2>3 DEF Phase, Work, Resolved, Crash, Handle, SealStatus, Discover, Fetch, ReadFails,
         ReadUnknown, Observe, ObserveFails, Authorize, AuthorizeFails, Send, SendFails,
         ReplyAccepted, ReplyRefused, NoVerdict, ReplyUnparsed, Complete, Fail, Unknown,
         EngineMounts, PrepareMounted, ResolveMount, ReadImpact
    <3>2. \A p \in Phase : [req |-> r, phase |-> p] \in [req : Request, phase : Phase]
      OBVIOUS
    <3> QED BY <1>0, <3>1, <3>2 DEF WorldTyped, Log
  <2> QED BY <1>3, <2>1, <2>2, <2>3
<1>4. ASSUME NEW r \in Request, Begin(r) \/ Work(r) \/ (Crash(r) /\ UNCHANGED <<engineVars, auths, version>>)
      PROVE  UNCHANGED <<engines, rows, auths, version>>
  <2>1. CASE Begin(r)
    <3>1. ASSUME NEW t, AdministerEngine(r, t) PROVE UNCHANGED engineVars
      BY <3>1, Zenon DEF AdministerEngine
    <3>2. ASSUME NEW t, ExecuteMounted(r, t, Document) PROVE UNCHANGED engineVars
      BY <3>2, Zenon DEF ExecuteMounted
    <3>3. ASSUME NEW t, AdministerAuth(r, t) PROVE UNCHANGED auths
      BY <3>3, Zenon DEF AdministerAuth
    <3>4. ASSUME NEW t, AdministerResource(r, t, Document) PROVE UNCHANGED version
      BY <3>4, Zenon DEF AdministerResource
    <3>5. UNCHANGED <<engineVars, auths, version>>
      BY <2>1, <3>1, <3>2, <3>3, <3>4 DEF Begin
    <3> QED BY <3>5 DEF engineVars
  <2>2. CASE Work(r)
    BY <2>2 DEF Work, engineVars, EngineMounts, PrepareMounted, ResolveMount, Resolved, ReadImpact
  <2> QED BY <1>4, <2>1, <2>2 DEF engineVars
<1>5. CASE \E r \in Request : Begin(r) \/ Work(r) \/ OpenBao(r)
             \/ (Crash(r) /\ UNCHANGED <<engineVars, auths, version>>)
  BY <1>0, <1>3, <1>4, <1>5, EffectsTyped DEF WorldTyped, worldVars
<1> QED BY <1>1, <1>2, <1>5 DEF Next

\* Every variable of the planes keeps its type.
THEOREM PlaneTypeCorrect == Spec => []TypeOK
<1>1. TypeInv /\ [Next]_vars => TypeInv'
  BY PlaneStep, RequestsTyped, WorldKeeps DEF TypeInv
<1> QED BY <1>1, TypesInit, TypesFollow, PTL DEF Spec

================================================================================
