--------------------------- MODULE AdministrationPlane ---------------------------
(***************************************************************************)
(* The engine, authentication, access and final planes over one cluster.   *)
(* They share the service, the capability document (a mount enabled by one *)
(* request changes the digest every other one is bound to) and the leases  *)
(* (which go with a disabled engine).                                      *)
(***************************************************************************)
EXTENDS EngineAdministration, AuthenticationAdministration, ResourceAdministration

CONSTANT Workloads    \* by name: the tasks of each request, and what else changes meanwhile

VARIABLE workload     \* the one of this behaviour

vars == <<guardedVars, engines, rows, auths, version, workload>>

AllTasks ==
    UNION {Task("engine", ENGINE_LIFECYCLE_OPERATIONS),
           Task("journey", ENGINE_JOURNEYS),
           Task("explorer", {ExplorerContract(c) : c \in ENGINE_JOURNEYS}),
           Task("auth", UNION {AUTH_LIFECYCLE, AUTH_RESOURCE_REGISTRY, AUTH_CONFIG_OPERATION_IDS,
                               LOGIN_OPERATION_IDS, AppRoleOperations, OIDCOperations,
                               MFAOperations, TOKEN_OPERATION_IDS}),
           Task("access", ACCESS_RESOURCES \cup Reads("access", {"catalog", "preview"})),
           Task("final", FINAL_RESOURCES \cup Reads("leases", {"catalog", "conformance", "preview"}))}

\* What the views rely on in a registry without checking it: listings, catalogs and
\* previews are reads, and the engine views confirm what they ask a confirmation for.
Disciplined(t) ==
    /\ t.risk \in {"read", "write", "destructive"} /\ t.confirm \in BOOLEAN
    /\ Catalog(t) \/ Previews(t) => t.method = "GET"
    /\ t.plane = "engine" /\ Lists(t) => t.method = "GET"
    /\ t.plane = "engine" /\ t.confirm => t.id \in {"remount", "disable"}

ASSUME PlaneAssumption ==
    /\ Mortal \subseteq Request /\ MaxOutside \in Nat
    /\ \A w \in DOMAIN Workloads :
         /\ DOMAIN Workloads[w].tasks = Request
         /\ \A r \in Request : \A t \in Workloads[w].tasks[r] : Disciplined(t)

\* normalize_openapi_document: one digest over everything the service advertises.
Document == <<service, Advertised, AuthDocument>>

Init ==
    /\ GuardedInit /\ EngineInit /\ AuthInit /\ ResourceInit
    /\ workload \in DOMAIN Workloads

--------------------------------------------------------------------------------
Begin(r) ==
    /\ stage[r] = "idle"
    /\ \E t \in Workloads[workload].tasks[r] :
         \/ t.plane = "engine" /\ AdministerEngine(r, t) /\ UNCHANGED <<auths, version>>
         \/ /\ t.plane \in {"journey", "explorer"} /\ ExecuteMounted(r, t, Document)
            /\ UNCHANGED <<auths, version>>
         \/ t.plane = "auth" /\ AdministerAuth(r, t) /\ UNCHANGED <<engineVars, version>>
         \/ /\ t.plane \in {"access", "final"} /\ AdministerResource(r, t, Document)
            /\ UNCHANGED <<engineVars, auths>>

Work(r) ==
    \/ Handle(r, Document) /\ UNCHANGED <<engineVars, auths, version>>
    \/ EngineMounts(r) /\ UNCHANGED <<auths, version>>
    \/ PrepareMounted(r) /\ UNCHANGED <<auths, version>>
    \/ ResolveMount(r) /\ UNCHANGED <<engineVars, version>>
    \/ Resolved(r) /\ UNCHANGED <<engineVars, version>>
    \/ ReadImpact(r) /\ UNCHANGED <<engineVars, auths>>

\* Leases end with the engine that granted them.
OpenBao(r) ==
    \/ Turned(r) /\ UNCHANGED <<engineVars, auths, version>>
    \/ /\ service # "closed"
       /\ \/ /\ EngineEffect(r) /\ UNCHANGED auths
             /\ IF form[r].task.id = "disable" /\ form[r].target \in Mounted
                THEN Touched("leases", 1) ELSE UNCHANGED version
          \/ AuthEffect(r) /\ UNCHANGED <<engineVars, version>>
          \/ ResourceEffect(r) /\ UNCHANGED <<engineVars, auths>>

Elsewhere ==
    LET noise == Workloads[workload].noise IN
    \/ "service" \in noise /\ ServiceChanges /\ UNCHANGED <<engineVars, auths, version>>
    \/ "engines" \in noise /\ EngineElsewhere /\ UNCHANGED <<auths, version>>
    \/ /\ "auths" \in noise /\ \E m \in AuthMount : ReplaceMethod(m)
       /\ UNCHANGED <<engineVars, version>>
    \/ "resources" \in noise /\ ResourceElsewhere /\ UNCHANGED <<engineVars, auths>>

Next ==
    /\ \/ Elsewhere
       \/ \E r \in Request :
            \/ Begin(r) \/ Work(r) \/ OpenBao(r)
            \/ Crash(r) /\ UNCHANGED <<engineVars, auths, version>>
    /\ UNCHANGED workload

Spec == Init /\ [][Next]_vars

\* A worker keeps running its view: every call it makes has a timeout.  OpenBao and
\* the operators owe it nothing.
Fairness == \A r \in Request : WF_vars(Work(r) /\ UNCHANGED workload)

FairSpec == Spec /\ Fairness
--------------------------------------------------------------------------------
\* Every variable keeps its type.
TypeOK ==
    /\ service \in Service /\ outside \in 0..MaxOutside
    /\ transport \in {"direct", "broker"} /\ ambient \in BOOLEAN
    /\ \A r \in Request :
         /\ form[r].task.risk \in {"read", "write", "destructive"}
         /\ form[r].target \in Mount \cup AuthMount \cup {"none"}
         /\ form[r].confirmed \in BOOLEAN
         /\ stage[r] \in Stage /\ flight[r] \in Flight /\ verdict[r] \in Verdict
         /\ view[r].rows \subseteq Mount
    /\ audit \subseteq [req : Request, phase : Phase]
    /\ engines \in [Mount -> Engine] /\ rows \subseteq Mount
    /\ auths \in [AuthMount -> AuthType \cup {"none"}]
    /\ version \in [Family -> Nat \X Nat]

Authorized == {r \in Request : [req |-> r, phase |-> "authorized"] \in audit}
Dispatched == {r \in Request : flight[r] # "none"}
Executed == {r \in Request : flight[r] = "executed"}

Acts(r) == flight[r] = "sent" /\ flight'[r] = "executed"

\* Nothing the request looked at has changed since it looked.
Unraced(r) ==
    LET f == form[r] IN
    /\ view[r].document = Document
    /\ f.task.plane \in {"engine", "journey", "explorer"} =>
         view[r].kind = engines[f.target]
    /\ f.task.id = "disable" => view[r].rows = rows
    /\ Resolves(f.task) => view[r].kind = auths[f.target]
    /\ f.task.plane \in {"access", "final"} /\ f.task.confirm =>
         view[r].impact = version[FamilyOf(f.task)]

\* What the operator reviewed is what the call finds.
Reviewed(f) ==
    /\ f.task.confirm => f.confirmed
    /\ DigestBound(f.task) => f.digest = Document
    /\ f.task.plane = "journey" => engines[f.target] = f.task.kind
    /\ f.task.plane = "explorer" => f.target \in Mounted \ Reserved
    /\ f.task.plane = "engine" /\ f.task.id = "disable" => f.target \notin rows
    /\ Resolves(f.task) => auths[f.target] = f.task.kind
    /\ f.task.plane \in {"access", "final"} /\ f.task.confirm =>
         f.impact = version[FamilyOf(f.task)]

\* The stale-state detectors work together (capability digest, live mount list, type
\* and inventory checks, impact digest, exact confirmation): a call that meets what
\* its preflight read meets what the operator reviewed, although the planes share one
\* document and change it under each other.
UnracedActsOnReviewed ==
    [][\A r \in Request : Acts(r) /\ Unraced(r) => Reviewed(form[r])]_vars

\* Evidence comes first (log_administration with require_durable): no audited call
\* leaves NetBox before its authorization row is committed, whatever transaction
\* surrounds the view, whoever dies, and however many reads precede it.
EvidencePrecedesEffect == Dispatched \subseteq Authorized

\* Mutations whose unusable reply is reported as unknown.
Tracked(r) == form[r].task.method # "GET" /\ ~Misreported(r)
Told(v) ==
    CASE v \in {"refused", "invalid", "broken"} -> "refused"
      [] v \in {"accepted", "incomplete"} -> "accepted"
      [] v = "unknown" -> "unknown"
      [] OTHER -> "none"

Recorded == {r \in Authorized : Tracked(r)}
Sent == {r \in Dispatched : Tracked(r)}
Effected == {r \in Executed : Tracked(r)}
Reported == [r \in Request |->
               IF Tracked(r) /\ stage[r] = "done" THEN Told(verdict[r]) ELSE "none"]

AM == INSTANCE AuditedMutation WITH
    recorded <- Recorded, sent <- Sent, effected <- Effected, report <- Reported

\* Every mutation but direct remounts and direct mounted operations implements the
\* promise of the administration plane: authorized durably, sent once, and never
\* reported as refused (also by a 400 or a 500) when it was, or may be, carried out.
ImplementsAuditedMutation == AM!Spec

\* Every request ends, with a response or with its worker, also when OpenBao never
\* answers, the service closes between two reads or the audit table refuses every row.
RequestsConclude ==
    \A r \in Request : stage[r] # "idle" ~> stage[r] \in {"done", "dead"}

================================================================================
