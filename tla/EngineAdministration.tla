-------------------------- MODULE EngineAdministration --------------------------
(***************************************************************************)
(* Secrets-engine lifecycle, first-class journeys and the classified       *)
(* explorer (api/engine_views.py, administration/engines.py,               *)
(* administration/engine_journeys.py), and the NetBox inventory that lives *)
(* on the same mounts.                                                     *)
(***************************************************************************)
EXTENDS GuardedRequest

CONSTANTS
    Mount,            \* secrets-engine mount paths
    Reserved,         \* cubbyhole, identity and sys
    KVMount,          \* the mount that backs the NetBox inventory at first
    Param,            \* [Mount -> parameter name the OpenAPI document gives it]
    EngineType        \* engine types in use, the KV version included

ASSUME EngineAssumption ==
    /\ Reserved \subseteq Mount /\ KVMount \in Mount \ Reserved
    /\ DOMAIN Param = Mount
    /\ "kv2" \in EngineType
    /\ "none" \notin Mount \cup EngineType

VARIABLES
    engines,          \* [Mount -> mounted type or "none"]
    rows              \* kv_mount of the NetBox engines that have credentials

engineVars == <<engines, rows>>

Engine == EngineType \cup {"none", "system"}

EngineInit ==
    /\ rows = {KVMount}
    /\ engines = [m \in Mount |->
                    CASE m \in Reserved -> "system"
                      [] m = KVMount -> "kv2"
                      [] OTHER -> "none"]

Mounted == {m \in Mount : engines[m] # "none"}

\* mount_parameter_for_path folds punctuation, so two mounts may share a parameter;
\* the document then advertises the operations of both under one name.
Advertised == {<<Param[m], engines[m]>> : m \in Mounted}
_ambiguous_mount_parameters ==
    {Param[m] : m \in {n \in Mounted : \E k \in Mounted \ {n} : Param[k] = Param[n]}}

--------------------------------------------------------------------------------
\* Requests.

EngineForm(t, target, dest, digest, confirmed) ==
    [NoForm EXCEPT !.task = t, !.target = target, !.dest = dest, !.digest = digest,
                   !.confirmed = confirmed]

\* The serializers, and the inventory check of disable_secret_engine.
LifecycleValid(f) ==
    CASE f.task.id = "enable" -> f.target \notin Reserved
      [] f.task.id = "remount" ->
           f.target # f.dest /\ f.dest \notin Reserved /\ f.confirmed
      [] f.task.id = "disable" ->
           f.target \notin Reserved /\ f.confirmed /\ f.target \notin rows
      [] OTHER -> TRUE

\* secret_engines, configuration, tuning, remount status and both catalogs; enable,
\* tune, remount and disable.
AdministerEngine(r, t) ==
    \E m \in Mount, d \in (IF t.id = "remount" THEN Mount ELSE {"none"}),
       c \in (IF t.confirm THEN BOOLEAN ELSE {FALSE}) :
        LET f == EngineForm(t, m, d, << >>, c) IN
        /\ \/ LifecycleValid(f) /\ Submit(r, f, [NoView EXCEPT !.rows = rows])
           \/ ~LifecycleValid(f) /\ Reject(r, f)
        /\ UNCHANGED engineVars

\* The digest is the one the operator's catalog came with: current or not.
ExecuteMounted(r, t, document) ==
    \E m \in Mount, g \in {document, << >>}, c \in (IF t.confirm THEN BOOLEAN ELSE {FALSE}) :
        /\ Submit(r, EngineForm(t, m, "none", g, c), NoView)
        /\ UNCHANGED engineVars

--------------------------------------------------------------------------------
\* list_secret_engines and what the views conclude from it.

LifecycleReady(f) ==
    CASE f.task.id = "enable" -> f.target \notin Mounted
      [] f.task.id = "remount" -> f.target \in Mounted /\ f.dest \notin Mounted
      [] f.task.id = "journeys" -> TRUE
      [] OTHER -> f.target \in Mounted

EngineMounts(r) ==
    LET f == form[r] IN
    /\ stage[r] = "mounts" /\ f.task.plane = "engine"
    /\ view' = [view EXCEPT ![r].kind = engines[f.target]]
    /\ \/ LifecycleReady(f) /\ Proceed(r, IF Audited(f.task) THEN "audit"
                                          ELSE IF f.task.id = "journeys" THEN "observe"
                                          ELSE "fetch")
       \/ ~LifecycleReady(f) /\ Raise(r)
    /\ UNCHANGED <<worldVars, form, flight, audit, engineVars>>

\* The mount is live, alone under its parameter, of the journey's type, and the
\* document read before advertised the operation.
resolve_engine_journey(f, seen) ==
    /\ f.target \in Mounted
    /\ Param[f.target] \notin _ambiguous_mount_parameters
    /\ engines[f.target] = f.task.kind
    /\ <<Param[f.target], f.task.kind>> \in seen

\* The explorer compares parameters only.
resolve_explorer_operation(f, seen) ==
    /\ <<Param[f.target], f.task.kind>> \in seen
    /\ f.target \in Mounted \ Reserved

\* _prepare_explorer_execution and _prepare_engine_journey: a mount that does not
\* resolve, undeclared, missing or ill-typed fields, a missing permission and a wrong
\* confirmation are all refused without a record.
PrepareMounted(r) ==
    LET f == form[r]
        seen == view[r].document[2]
        resolved == IF f.task.plane = "journey" THEN resolve_engine_journey(f, seen)
                                                ELSE resolve_explorer_operation(f, seen)
    IN /\ stage[r] = "mounts" /\ f.task.plane \in {"journey", "explorer"}
       /\ view' = [view EXCEPT ![r].kind = engines[f.target]]
       /\ \/ resolved /\ (f.task.confirm => f.confirmed) /\ Proceed(r, "audit")
          \/ Answer(r, "invalid")
       /\ UNCHANGED <<worldVars, form, flight, audit, engineVars>>

--------------------------------------------------------------------------------
\* OpenBao (external).

Enabled(f) ==
    /\ f.task.id = "enable" /\ f.target \notin Mounted
    /\ \E y \in EngineType : engines' = [engines EXCEPT ![f.target] = y]

\* The data moves with the engine; the rows in NetBox keep the old path.
Remounted(f) ==
    /\ f.task.id = "remount"
    /\ f.target \in Mounted \ Reserved /\ f.dest \notin Mounted
    /\ engines' = [engines EXCEPT ![f.dest] = engines[f.target], ![f.target] = "none"]

\* Disabling an absent mount succeeds.
Disabled(f) ==
    /\ f.task.id = "disable" /\ f.target \notin Reserved
    /\ engines' = [engines EXCEPT ![f.target] = "none"]

\* Tuning and mounted operations change what is behind the mount, not the mount.
Operated(f) ==
    /\ f.task.id = "tune" \/ f.task.plane \in {"journey", "explorer"}
    /\ f.target \in Mounted
    /\ UNCHANGED engines

EngineEffect(r) ==
    /\ form[r].task.plane \in {"engine", "journey", "explorer"}
    /\ Arrive(r, "executed")
    /\ Enabled(form[r]) \/ Remounted(form[r]) \/ Disabled(form[r]) \/ Operated(form[r])
    /\ UNCHANGED rows

--------------------------------------------------------------------------------
\* The first credential on a mount, the last one deleted, and other tools.

StoreCredential(m) ==
    /\ Outside
    /\ m \notin rows /\ engines[m] = "kv2"
    /\ rows' = rows \cup {m}
    /\ UNCHANGED engines

DeleteCredentials(m) ==
    /\ Outside
    /\ m \in rows
    /\ rows' = rows \ {m}
    /\ UNCHANGED engines

ReplaceEngine(m) ==
    /\ Outside
    /\ m \notin Reserved
    /\ \E y \in (EngineType \cup {"none"}) \ {engines[m]} :
         engines' = [engines EXCEPT ![m] = y]
    /\ UNCHANGED rows

EngineElsewhere == \E m \in Mount : StoreCredential(m) \/ DeleteCredentials(m) \/ ReplaceEngine(m)

================================================================================
