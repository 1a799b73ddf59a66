----------------------------- MODULE GuardedRequest -----------------------------
(***************************************************************************)
(* The life of one request to the engine, authentication, access or final  *)
(* views of the administration API: seal status, capability document,      *)
(* reads of its own, durable authorization, one call, and a best-effort    *)
(* record of the outcome (api/engine_views.py, authentication_views.py,    *)
(* access_views.py, finalization_views.py, administration/backends.py).    *)
(* The reads that differ between the planes are actions of their modules.  *)
(***************************************************************************)
EXTENDS Naturals, FiniteSets, ReviewedContracts

CONSTANTS
    Request,          \* administration requests
    Mortal,           \* requests whose worker may die
    MaxOutside        \* bound: changes made behind the administration plane's back

Supported == {"2.6.2", "2.6.3"}         \* _require_baseline: 2.6.2 and later 2.6
Service == Supported \cup {"closed"}    \* sealed, uninitialized or of another release

\* The contract a request names, in the plane that serves it.
Task(plane, S) ==
    {[plane |-> plane, id |-> c.id, kind |-> c.kind, method |-> c.method,
      risk |-> c.risk, confirm |-> c.confirm] : c \in S}

\* The reads of a request, one backend call each.
Reading == {"seal", "discover", "mounts", "impact", "prelude", "fetch"}
Stage == Reading \cup
    {"idle", "resolved", "audit", "send", "wait", "observe",
     "complete", "fail", "unknown", "done", "dead"}
Verdict == {"none", "accepted", "incomplete", "refused", "unknown", "invalid", "broken"}
Flight == {"none", "sent", "executed", "refused", "lost"}
Phase == {"authorized", "completed", "failed", "unknown", "observed"}

VARIABLES
    service,          \* OpenBao behind the endpoint
    outside,          \* changes made elsewhere so far
    transport,        \* "direct" or "broker"
    ambient,          \* ATOMIC_REQUESTS or another transaction around the view
    form,             \* what the operator sent
    stage,
    view,             \* what the request read
    flight,           \* the call between NetBox and OpenBao
    verdict,
    audit             \* committed OpenBaoAdministrationLog rows

worldVars == <<service, outside, transport, ambient>>
requestVars == <<form, stage, view, flight, verdict, audit>>
guardedVars == <<worldVars, requestVars>>

NoTask == [plane |-> "engine", id |-> "list", kind |-> "engine", method |-> "GET",
           risk |-> "read", confirm |-> FALSE]
NoForm == [task |-> NoTask, target |-> "none", dest |-> "none", digest |-> << >>,
           impact |-> <<0, 0>>, confirmed |-> FALSE]
NoView == [document |-> << >>, kind |-> "none", rows |-> {}, impact |-> << >>]

GuardedInit ==
    /\ service = "2.6.2"
    /\ outside = 0
    /\ transport \in {"direct", "broker"}
    /\ ambient \in BOOLEAN
    /\ form = [r \in Request |-> NoForm]
    /\ stage = [r \in Request |-> "idle"]
    /\ view = [r \in Request |-> NoView]
    /\ flight = [r \in Request |-> "none"]
    /\ verdict = [r \in Request |-> "none"]
    /\ audit = {}

--------------------------------------------------------------------------------
Goto(r, s) == stage' = [stage EXCEPT ![r] = s]
Proceed(r, s) == Goto(r, s) /\ UNCHANGED verdict

\* Mutant: the handler keeps the transport's own word for the outcome.
RaiseBare(r) ==
    /\ verdict' = [verdict EXCEPT ![r] = "not_sent"]
    /\ Goto(r, "fail")

\* OpenBaoError or AdministrationAuditError reaches the view's handler.
Raise(r) ==
    /\ verdict' = [verdict EXCEPT ![r] = "refused"]
    /\ Goto(r, "fail")

\* A DRF exception passes every handler: no failure record.
Answer(r, v) ==
    /\ verdict' = [verdict EXCEPT ![r] = v]
    /\ Goto(r, "done")

Log(r, p) == audit' = audit \cup {[req |-> r, phase |-> p]}

\* Object permission and serializer passed.
Submit(r, f, v) ==
    /\ stage[r] = "idle"
    /\ form' = [form EXCEPT ![r] = f]
    /\ view' = [view EXCEPT ![r] = v]
    /\ Proceed(r, "seal")
    /\ UNCHANGED <<worldVars, flight, audit>>

\* Object permission, the serializer or a check of NetBox's own tables refused.
Reject(r, f) ==
    /\ stage[r] = "idle"
    /\ form' = [form EXCEPT ![r] = f]
    /\ Answer(r, "invalid")
    /\ UNCHANGED <<worldVars, view, flight, audit>>

--------------------------------------------------------------------------------
\* What a task goes through.

\* Catalogs and the conformance report: the access and final ones skip the seal check.
Catalog(t) == t.id \in {"catalog", "conformance"}
Lists(t) == t.id \in {"list", "status", "operations"}
Resolves(t) == t.plane = "auth" /\ t.kind \notin {"auth", "mfa", "session"}
Previews(t) == t.id = "preview"
DigestBound(t) == t.plane \in {"journey", "explorer", "access", "final"} /\ ~Catalog(t)

\* Logins and token operations are audited as mutations even when they are reads.
Audited(t) ==
    /\ ~Catalog(t) /\ ~Previews(t)
    /\ \/ t.plane \in {"journey", "explorer", "access", "final"}
       \/ t.method # "GET"
       \/ t.id \in {"login", "lookup-self"}

\* Two calls: the role behind an OIDC login, the owner of a TOTP secret.
HasPrelude(t) == t.id \in {"oidc-start", "totp-reset"}

AfterDiscover(t, kind) ==
    IF t.plane = "engine" THEN IF Lists(t) THEN "fetch" ELSE "mounts"
    ELSE IF t.plane \in {"journey", "explorer"} \/ (Resolves(t) /\ kind = "none") THEN "mounts"
    ELSE IF Previews(t) \/ (t.plane \in {"access", "final"} /\ t.confirm) THEN "impact"
    ELSE IF Catalog(t) THEN "observe"
    ELSE IF Audited(t) THEN "audit"
    ELSE "fetch"

--------------------------------------------------------------------------------
\* Reads.

SealStatus(r) ==
    /\ stage[r] = "seal"
    /\ \/ (service # "closed" \/ Catalog(form[r].task)) /\ Proceed(r, "discover")
       \/ service = "closed" /\ Raise(r)
    /\ UNCHANGED <<worldVars, form, view, flight, audit>>

\* Mutant: the view trusts the digest the browser holds.
DiscoverUnbound(r, document) ==
    /\ stage[r] = "discover" /\ service # "closed"
    /\ view' = [view EXCEPT ![r].document = document]
    /\ Proceed(r, AfterDiscover(form[r].task, view[r].kind))
    /\ UNCHANGED <<worldVars, form, flight, audit>>

\* The release and the digest of the document; final operations are pinned to 2.6.2.
Discover(r, document) ==
    LET t == form[r].task
        fresh == (DigestBound(t) => form[r].digest = document)
                 /\ (t.plane = "final" /\ t.id # "conformance" => service = "2.6.2")
    IN /\ stage[r] = "discover" /\ service # "closed"
       /\ view' = [view EXCEPT ![r].document = document]
       /\ \/ fresh /\ Proceed(r, AfterDiscover(t, view[r].kind))
          \/ ~fresh /\ Raise(r)
       /\ UNCHANGED <<worldVars, form, flight, audit>>

\* A read that touches no mount and no reviewed object, or the second call of a
\* two-call read.
Fetch(r) ==
    /\ stage[r] \in {"fetch", "prelude"}
    /\ Proceed(r, IF stage[r] = "fetch" THEN "observe" ELSE "send")
    /\ UNCHANGED <<worldVars, form, view, flight, audit>>

\* A missing backend, an operation that is not advertised, a transport or parsing
\* failure, an unusable answer.
ReadFails(r) ==
    /\ stage[r] \in Reading
    /\ Raise(r)
    /\ UNCHANGED <<worldVars, form, view, flight, audit>>

\* The broker marks a failed read's outcome unknown, and so does the direct transport
\* for the lease lookup, which is a POST.
MarksUnknown(r) ==
    \/ transport = "broker"
    \/ stage[r] = "impact" /\ form[r].task.kind = "leases"
       /\ form[r].task.id \in {"revoke", "preview"}

\* The first two reads leave the names the handler formats its record with unbound,
\* and a preflight helper that never returned leaves them unbound throughout.
Unbound(r) ==
    \/ form[r].task.plane \in {"journey", "explorer"}
    \/ form[r].task.plane \in {"engine", "auth"} /\ stage[r] \in {"seal", "discover"}

Resolving(r) == Resolves(form[r].task) /\ view[r].kind = "none"

ReadUnknown(r) ==
    /\ stage[r] \in Reading /\ MarksUnknown(r)
    /\ Audited(form[r].task) \/ (form[r].task.plane = "final" /\ Previews(form[r].task))
    /\ ~Resolving(r)
    /\ \/ Unbound(r) /\ Answer(r, "broken")
       \/ ~Unbound(r) /\ Proceed(r, "unknown")
    /\ UNCHANGED <<worldVars, form, view, flight, audit>>

--------------------------------------------------------------------------------
\* Metadata reads: the row is written before the response is returned.

Observe(r) ==
    /\ stage[r] = "observe"
    /\ Log(r, "observed")
    /\ Answer(r, "accepted")
    /\ UNCHANGED <<worldVars, form, view, flight>>

ObserveFails(r) ==
    /\ stage[r] \in {"observe", "resolved"}
    /\ (Log(r, "observed") /\ ~ambient) \/ UNCHANGED audit
    /\ Raise(r)
    /\ UNCHANGED <<worldVars, form, view, flight>>

--------------------------------------------------------------------------------
\* Durable authorization and the one call.

\* Mutant: an ordinary atomic block, which joins the transaction around the view.
AuthorizeInAmbient(r) ==
    /\ stage[r] = "audit"
    /\ audit' = (IF ambient THEN audit ELSE audit \cup {[req |-> r, phase |-> "authorized"]})
    /\ Proceed(r, IF HasPrelude(form[r].task) THEN "prelude" ELSE "send")
    /\ UNCHANGED <<worldVars, form, view, flight>>

\* transaction.atomic(durable=True) refuses any transaction around it.
Authorize(r) ==
    /\ stage[r] = "audit" /\ ~ambient
    /\ Log(r, "authorized")
    /\ Proceed(r, IF HasPrelude(form[r].task) THEN "prelude" ELSE "send")
    /\ UNCHANGED <<worldVars, form, view, flight>>

\* Also when the row commits and the answer to its COMMIT is lost.
AuthorizeFails(r) ==
    /\ stage[r] = "audit"
    /\ (Log(r, "authorized") /\ ~ambient) \/ UNCHANGED audit
    /\ Raise(r)
    /\ UNCHANGED <<worldVars, form, view, flight>>

Send(r) ==
    /\ stage[r] = "send"
    /\ flight' = [flight EXCEPT ![r] = "sent"]
    /\ Proceed(r, "wait")
    /\ UNCHANGED <<worldVars, form, view, audit>>

\* No token, no session, no broker contract, no secure callback URL.
SendFails(r) ==
    /\ stage[r] = "send"
    /\ Raise(r)
    /\ UNCHANGED <<worldVars, form, view, flight, audit>>

\* OpenBao (external).  The effect of an executed call belongs to the planes.
Arrive(r, f) ==
    /\ flight[r] = "sent"
    /\ flight' = [flight EXCEPT ![r] = f]
    /\ UNCHANGED <<worldVars, form, stage, view, verdict, audit>>

Turned(r) == Arrive(r, "refused") \/ Arrive(r, "lost")

--------------------------------------------------------------------------------
\* The answer, as the transport reports it.

ReplyAccepted(r) ==
    /\ stage[r] = "wait" /\ flight[r] = "executed"
    /\ Proceed(r, "complete")
    /\ UNCHANGED <<worldVars, form, view, flight, audit>>

ReplyRefused(r) ==
    /\ stage[r] = "wait" /\ flight[r] = "refused"
    /\ Raise(r)
    /\ UNCHANGED <<worldVars, form, view, flight, audit>>

ReadOnly(r) == form[r].task.method = "GET"

\* Mutant: a lost answer is treated as it is for a read.
LostAnswerFails(r) ==
    /\ stage[r] = "wait"
    /\ Raise(r)
    /\ UNCHANGED <<worldVars, form, view, flight, audit>>

\* Mutant: the session has no timeout.
WaitsForever(r) ==
    /\ stage[r] = "wait" /\ flight[r] = "executed" /\ ~ReadOnly(r)
    /\ Proceed(r, "unknown")
    /\ UNCHANGED <<worldVars, form, view, flight, audit>>

\* A transport error, a timeout, a 5xx or an undecodable body after the dispatch.
NoVerdict(r) ==
    /\ stage[r] = "wait"
    /\ \/ (~ReadOnly(r) \/ transport = "broker") /\ Proceed(r, "unknown")
       \/ ReadOnly(r) /\ Raise(r)
    /\ UNCHANGED <<worldVars, form, view, flight, audit>>

\* The direct transport parses these replies as if they were reads.
Misreported(r) ==
    /\ transport = "direct"
    /\ \/ form[r].task.plane \in {"journey", "explorer"}
       \/ form[r].task.id \in {"remount", "accessor-lookup", "lookup-accessor"}

\* An accepted reply whose body the transport cannot use.
ReplyUnparsed(r) ==
    /\ stage[r] = "wait" /\ flight[r] = "executed" /\ Misreported(r)
    /\ Raise(r)
    /\ UNCHANGED <<worldVars, form, view, flight, audit>>

--------------------------------------------------------------------------------
\* Best-effort follow-up records and the response.

Complete(r) ==
    /\ stage[r] = "complete"
    /\ \/ Log(r, "completed") /\ \E v \in {"accepted", "incomplete"} : Answer(r, v)
       \/ UNCHANGED audit /\ Answer(r, "incomplete")
    /\ UNCHANGED <<worldVars, form, view, flight>>

\* The exception rolls an ambient transaction back, the failure record included.
Fail(r) ==
    /\ stage[r] = "fail"
    /\ (Log(r, "failed") /\ ~ambient) \/ UNCHANGED audit
    /\ Answer(r, verdict[r])
    /\ UNCHANGED <<worldVars, form, view, flight>>

\* The access view answers without a record.
Unknown(r) ==
    /\ stage[r] = "unknown"
    /\ (Log(r, "unknown") /\ form[r].task.plane # "access") \/ UNCHANGED audit
    /\ Answer(r, "unknown")
    /\ UNCHANGED <<worldVars, form, view, flight>>

Crash(r) ==
    /\ r \in Mortal /\ stage[r] \notin {"idle", "done", "dead"}
    /\ Proceed(r, "dead")
    /\ UNCHANGED <<worldVars, form, view, flight, audit>>

\* Other tools, direct operators and NetBox's other views, all counted together.
Outside ==
    /\ outside < MaxOutside
    /\ outside' = outside + 1
    /\ UNCHANGED <<service, transport, ambient, requestVars>>

\* Seals, restarts and upgrades.
ServiceChanges ==
    /\ outside < MaxOutside
    /\ outside' = outside + 1
    /\ service' \in Service \ {service}
    /\ UNCHANGED <<transport, ambient, requestVars>>

\* What a request does on its own, whatever its plane, given the current document.
Handle(r, document) ==
    \/ SealStatus(r) \/ Discover(r, document) \/ Fetch(r) \/ ReadFails(r) \/ ReadUnknown(r)
    \/ Observe(r) \/ ObserveFails(r)
    \/ Authorize(r) \/ AuthorizeFails(r) \/ Send(r) \/ SendFails(r)
    \/ ReplyAccepted(r) \/ ReplyRefused(r) \/ NoVerdict(r) \/ ReplyUnparsed(r)
    \/ Complete(r) \/ Fail(r) \/ Unknown(r)

================================================================================
