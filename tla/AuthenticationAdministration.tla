----------------------- MODULE AuthenticationAdministration -----------------------
(***************************************************************************)
(* Auth methods and their configurations and resources, AppRole material,  *)
(* logins, direct OIDC, MFA and token operations                           *)
(* (api/authentication_views.py, administration/authentication.py).        *)
(***************************************************************************)
EXTENDS GuardedRequest

CONSTANTS
    AuthMount,        \* auth mount paths
    AuthType,         \* auth method types in use
    Login,            \* the auth mount in use at first, and its type
    LoginType,
    Caller            \* [Request -> NetBox user]

ASSUME AuthAssumption ==
    /\ DOMAIN Caller = Request
    /\ Login \in AuthMount /\ LoginType \in AuthType
    /\ "none" \notin AuthMount \cup AuthType

VARIABLE auths        \* [AuthMount -> mounted type or "none"]

AuthInit == auths = [m \in AuthMount |-> IF m = Login THEN LoginType ELSE "none"]

AuthMounted == {m \in AuthMount : auths[m] # "none"}
AuthDocument == {<<m, auths[m]>> : m \in AuthMounted}

--------------------------------------------------------------------------------
\* Requests.  A view that resolves its mount checks the confirmation afterwards.

AuthForm(t, target, dest, confirmed) ==
    [NoForm EXCEPT !.task = t, !.target = target, !.dest = dest, !.confirmed = confirmed]

Unconfirmed(f) == f.task.confirm /\ ~f.confirmed
AuthValid(f) ==
    /\ ~Resolves(f.task) => ~Unconfirmed(f)
    /\ f.task.id = "remount" => f.target # f.dest

\* The signed envelope binds a poll to a start by the same user on the same mount.
\* It may also have expired.
Envelope(r, m) ==
    \E s \in Request \ {r} :
        /\ form[s].task.id = "oidc-start" /\ form[s].target = m
        /\ verdict[s] \in {"accepted", "incomplete"}
        /\ Caller[s] = Caller[r]

AdministerAuth(r, t) ==
    \E m \in (IF t.kind \in {"mfa", "session"} THEN {"none"} ELSE AuthMount),
       d \in (IF t.id = "remount" THEN AuthMount ELSE {"none"}),
       c \in (IF t.confirm THEN BOOLEAN ELSE {FALSE}) :
        LET f == AuthForm(t, m, d, c) IN
        /\ \/ AuthValid(f) /\ Submit(r, f, NoView)
           \/ ~AuthValid(f) /\ Reject(r, f)
        /\ UNCHANGED auths

--------------------------------------------------------------------------------
\* _resolve_auth_mount: its own seal status, document, mount list and audit row.

ResolveMount(r) ==
    LET f == form[r] IN
    /\ stage[r] = "mounts" /\ f.task.plane = "auth"
    /\ view' = [view EXCEPT ![r].kind = auths[f.target]]
    /\ \/ f.target \in AuthMounted /\ Proceed(r, "resolved")
       \/ f.target \notin AuthMounted /\ Raise(r)
    /\ UNCHANGED <<worldVars, form, flight, audit, auths>>

\* The mounted type is the one the contract is for, the confirmation is exact, and a
\* poll presents its envelope.
TypeMatches(r) ==
    /\ view[r].kind = form[r].task.kind
    /\ ~Unconfirmed(form[r])
    /\ form[r].task.id = "oidc-poll" => Envelope(r, form[r].target)

Resolved(r) ==
    /\ stage[r] = "resolved"
    /\ Log(r, "observed")
    /\ \/ TypeMatches(r) /\ Proceed(r, "seal")
       \/ Answer(r, "invalid")
    /\ UNCHANGED <<worldVars, form, view, flight, auths>>

--------------------------------------------------------------------------------
\* OpenBao (external).

AuthEnabled(f) ==
    /\ f.task.id = "enable" /\ f.target \notin AuthMounted
    /\ \E y \in AuthType : auths' = [auths EXCEPT ![f.target] = y]

AuthRemounted(f) ==
    /\ f.task.id = "remount"
    /\ f.target \in AuthMounted /\ f.dest \notin AuthMounted
    /\ auths' = [auths EXCEPT ![f.dest] = auths[f.target], ![f.target] = "none"]

AuthDisabled(f) ==
    /\ f.task.id = "disable"
    /\ auths' = [auths EXCEPT ![f.target] = "none"]

\* Tuning, configurations, resources, material, logins, MFA and tokens leave the
\* mounts alone.
AuthOperated(f) ==
    /\ f.task.id \notin {"enable", "remount", "disable"}
    /\ Resolves(f.task) \/ f.task.id = "tune" => f.target \in AuthMounted
    /\ UNCHANGED auths

AuthEffect(r) ==
    /\ form[r].task.plane = "auth"
    /\ Arrive(r, "executed")
    /\ AuthEnabled(form[r]) \/ AuthRemounted(form[r]) \/ AuthDisabled(form[r])
       \/ AuthOperated(form[r])

ReplaceMethod(m) ==
    /\ Outside
    /\ \E y \in (AuthType \cup {"none"}) \ {auths[m]} : auths' = [auths EXCEPT ![m] = y]

================================================================================
