-------------------------- MODULE ClusterAdministration --------------------------
(***************************************************************************)
(* The guarded cluster actions of the administration API (api/views.py,    *)
(* OpenBaoClusterViewSet) over the direct and the broker transport         *)
(* (administration/backends.py, administration/broker.py).                 *)
(*                                                                         *)
(* A mutation reads the cluster's state with separate calls, commits a     *)
(* durable authorization record, sends one request and reports accepted,   *)
(* refused or unknown.  No lock is held: other requests, direct operators, *)
(* elections, lost or late answers, audit failures and dying workers       *)
(* interleave with every call.                                             *)
(***************************************************************************)
EXTENDS Naturals, FiniteSets

CONSTANTS
    Request,      \* administration requests
    Peer,         \* Raft server IDs
    Self,         \* the peer behind the configured endpoint
    ClusterId,    \* cluster identities a restored snapshot may carry
    Offered,      \* the operations the requests choose from
    Mortal,       \* requests whose worker may die
    MaxOutside    \* bound: changes made on OpenBao behind NetBox's back

Bootstrap == {"initialize", "join"}
Unsealing == {"unseal", "reset"}
Restoring == {"restore", "force"}
Reviewed == Restoring \cup {"remove"}
Mutation == Bootstrap \cup Unsealing \cup Reviewed \cup {"seal"}
Observation == {"health", "capabilities", "state"}
Operation == Mutation \cup Observation \cup {"download"}

ASSUME ClusterAssumption ==
    /\ Self \in Peer /\ IsFiniteSet(Peer)
    /\ ClusterId # {}
    /\ Offered \subseteq Operation
    /\ Mortal \subseteq Request
    /\ MaxOutside \in Nat

\* The reads of a request, one backend call each.
Reading == {"seal", "init", "leader", "raft", "survey", "probe"}
Stage == Reading \cup
    {"idle", "audit", "send", "wait", "open", "stream", "observe",
     "complete", "fail", "unknown", "done", "dead"}
Verdict == {"none", "accepted", "incomplete", "aborted",
            "conflict", "unavailable", "unknown"}
Failure == {"conflict", "unavailable"}
Flight == {"none", "sent", "executed", "refused", "lost"}
Phase == {"authorized", "completed", "failed", "unknown", "observed", "aborted"}

VARIABLES
    \* OpenBao behind the endpoint.
    initialized, sealed,
    members, voters,  \* the Raft configuration
    leader, index,    \* the active peer, the configuration index
    clusterId,
    outside,
    \* The deployment.
    transport,        \* "direct" or "broker"
    ambient,          \* ATOMIC_REQUESTS or another transaction around the view
    \* Requests.
    op, form,         \* the operation, and the state the operator confirmed
    stage,
    view,             \* what the preflight read: cluster ID, index and leader
    flight,           \* the mutation between NetBox and OpenBao
    verdict,
    \* NetBox tables.
    audit,            \* committed OpenBaoAdministrationLog rows
    observed          \* requests whose observation is in the cluster row

raftVars == <<members, voters, leader, index>>
baoVars == <<initialized, sealed, members, voters, leader, index, clusterId>>
deployVars == <<transport, ambient>>
requestVars == <<op, form, stage, view, flight, verdict>>
vars == <<initialized, sealed, members, voters, leader, index, clusterId, outside,
          transport, ambient, op, form, stage, view, flight, verdict, audit, observed>>

Form == [peer : Peer, index : Nat, id : ClusterId]
View == [id : ClusterId, index : Nat, leader : Peer]
Record == [req : Request, phase : Phase]

\* A node that was never initialized, or the active node of a running cluster.
Init ==
    /\ initialized \in BOOLEAN
    /\ sealed = ~initialized
    /\ members = (IF initialized THEN Peer ELSE {})
    /\ voters = members
    /\ leader = Self /\ index = 0
    /\ clusterId \in ClusterId
    /\ outside = 0
    /\ transport \in {"direct", "broker"}
    /\ ambient \in BOOLEAN
    /\ op = [r \in Request |-> "state"]
    /\ form = [r \in Request |-> [peer |-> Self, index |-> 0, id |-> clusterId]]
    /\ stage = [r \in Request |-> "idle"]
    /\ view = [r \in Request |-> [id |-> clusterId, index |-> 0, leader |-> Self]]
    /\ flight = [r \in Request |-> "none"]
    /\ verdict = [r \in Request |-> "none"]
    /\ audit = {} /\ observed = {}

--------------------------------------------------------------------------------
\* Requests pass object permission and the confirmation serializer.

Goto(r, s) == stage' = [stage EXCEPT ![r] = s]

Submit(r, o, f, s) ==
    /\ stage[r] = "idle" /\ o \in Offered
    /\ op' = [op EXCEPT ![r] = o]
    /\ form' = [form EXCEPT ![r] = f]
    /\ Goto(r, s)
    /\ UNCHANGED <<baoVars, outside, deployVars, view, flight, verdict, audit, observed>>

Initialize(r) == Submit(r, "initialize", form[r], "seal")
JoinRaft(r) == Submit(r, "join", form[r], "seal")
Unseal(r) == \E o \in Unsealing : Submit(r, o, form[r], "seal")
Seal(r) == Submit(r, "seal", form[r], "seal")
DownloadRaftSnapshot(r) == Submit(r, "download", form[r], "seal")
State(r) == Submit(r, "state", form[r], "seal")
Health(r) == Submit(r, "health", form[r], "probe")
Capabilities(r) == Submit(r, "capabilities", form[r], "probe")

\* The operator confirms an index and a cluster ID shown earlier.
RemoveRaftPeer(r) ==
    \E p \in Peer, i \in 0..index :
        Submit(r, "remove", [form[r] EXCEPT !.peer = p, !.index = i], "seal")
RestoreRaftSnapshot(r) ==
    \E o \in Restoring, i \in 0..index, c \in ClusterId :
        Submit(r, o, [form[r] EXCEPT !.index = i, !.id = c], "seal")

--------------------------------------------------------------------------------
\* Preflight reads.

\* Mutant: the handler forgets which failure it raises.
RaiseBare(r, v) ==
    /\ verdict' = [verdict EXCEPT ![r] = "failed"]
    /\ Goto(r, "fail")

\* OpenBaoError or AdministrationAuditError reaches the handler's last except.
Raise(r, v) ==
    /\ verdict' = [verdict EXCEPT ![r] = v]
    /\ Goto(r, "fail")

Proceed(r, s) == Goto(r, s) /\ UNCHANGED verdict

SealReady(o) ==
    CASE o \in Bootstrap -> ~initialized
      [] o \in Unsealing -> initialized /\ sealed
      [] o = "state" -> TRUE
      [] OTHER -> initialized /\ ~sealed

AfterSeal(o) ==
    CASE o \in Bootstrap -> "init"
      [] o \in Unsealing -> "audit"
      [] o = "state" -> "survey"
      [] OTHER -> "leader"

\* The version is an input: _require_baseline refuses all but 2.6.2 and later 2.6.
\* A removal reads the leader before it looks at the seal, and that read may fail.
SealStatus(r) ==
    /\ stage[r] = "seal"
    /\ view' = [view EXCEPT ![r].id = clusterId]
    /\ \E baseline \in BOOLEAN :
         \/ /\ SealReady(op[r]) /\ (baseline \/ op[r] = "state")
            /\ Proceed(r, AfterSeal(op[r]))
         \/ /\ ~SealReady(op[r]) \/ (~baseline /\ op[r] # "state")
            /\ \E v \in IF op[r] = "remove" THEN Failure ELSE {"conflict"} : Raise(r, v)
    /\ UNCHANGED <<baoVars, outside, deployVars, op, form, flight, audit, observed>>

InitializationStatus(r) ==
    /\ stage[r] = "init"
    /\ \/ ~initialized /\ Proceed(r, "audit")
       \/ initialized /\ Raise(r, "conflict")
    /\ UNCHANGED <<baoVars, outside, deployVars, op, form, view, flight, audit, observed>>

LeaderStatus(r) ==
    /\ stage[r] = "leader"
    /\ \/ leader = Self /\ Proceed(r, IF op[r] \in Reviewed THEN "raft" ELSE "audit")
       \/ leader # Self /\ Raise(r, "conflict")
    /\ UNCHANGED <<baoVars, outside, deployVars, op, form, view, flight, audit, observed>>

\* Mutant: the voter guard is off by one.
RemovalSafeAtThree(p) ==
    /\ p \in members /\ p # leader
    /\ p \in voters => Cardinality(voters) > 2

RemovalSafe(p) ==
    /\ p \in members /\ p # leader
    /\ p \in voters => Cardinality(voters) > 3

FreshRaftState(r) == form[r].index = index /\ form[r].id = view[r].id

ConfigurationReady(r) ==
    IF op[r] = "remove" THEN form[r].index = index /\ RemovalSafe(form[r].peer)
                        ELSE FreshRaftState(r)

RaftConfiguration(r) ==
    /\ stage[r] = "raft"
    /\ view' = [view EXCEPT ![r].index = index, ![r].leader = leader]
    /\ \/ ConfigurationReady(r) /\ Proceed(r, "audit")
       \/ ~ConfigurationReady(r) /\ Raise(r, "conflict")
    /\ UNCHANGED <<baoVars, outside, deployVars, op, form, flight, audit, observed>>

\* The optional leader, HA and Raft reads of the state view; the one read of the
\* health and capability views.
Survey(r) ==
    /\ stage[r] \in {"survey", "probe"}
    /\ Proceed(r, "observe")
    /\ UNCHANGED <<baoVars, outside, deployVars, op, form, view, flight, audit, observed>>

\* A missing backend, a refused contract, a transport or parsing failure.
ReadFails(r) ==
    /\ stage[r] \in Reading
    /\ \E v \in Failure : Raise(r, v)
    /\ UNCHANGED <<baoVars, outside, deployVars, op, form, view, flight, audit, observed>>

\* The broker marks a failed read's outcome unknown, and a mutation believes it.
ReadUnknown(r) ==
    /\ stage[r] \in Reading /\ transport = "broker" /\ op[r] \in Mutation
    /\ Proceed(r, "unknown")
    /\ UNCHANGED <<baoVars, outside, deployVars, op, form, view, flight, audit, observed>>

--------------------------------------------------------------------------------
\* Durable authorization and the one request.

Log(r, p) == audit' = audit \cup {[req |-> r, phase |-> p]}

\* Mutant: an ordinary atomic block, which joins the transaction around the view.
AuthorizeInAmbient(r) ==
    /\ stage[r] = "audit"
    /\ audit' = (IF ambient THEN audit ELSE audit \cup {[req |-> r, phase |-> "authorized"]})
    /\ Goto(r, IF op[r] = "download" THEN "open" ELSE "send")
    /\ UNCHANGED <<baoVars, outside, deployVars, op, form, view, flight, verdict, observed>>

\* transaction.atomic(durable=True) refuses any transaction around it.
Authorize(r) ==
    /\ stage[r] = "audit" /\ ~ambient
    /\ Log(r, "authorized")
    /\ Goto(r, IF op[r] = "download" THEN "open" ELSE "send")
    /\ UNCHANGED <<baoVars, outside, deployVars, op, form, view, flight, verdict, observed>>

AuthorizeFails(r) ==
    /\ stage[r] = "audit"
    /\ Raise(r, "unavailable")
    /\ UNCHANGED <<baoVars, outside, deployVars, op, form, view, flight, audit, observed>>

\* The row commits and the answer to its COMMIT is lost.
AuthorizeLost(r) ==
    /\ stage[r] = "audit" /\ ~ambient
    /\ Log(r, "authorized")
    /\ Raise(r, "unavailable")
    /\ UNCHANGED <<baoVars, outside, deployVars, op, form, view, flight, observed>>

Send(r) ==
    /\ stage[r] = "send"
    /\ flight' = [flight EXCEPT ![r] = "sent"]
    /\ Goto(r, "wait")
    /\ UNCHANGED <<baoVars, outside, deployVars, op, form, view, verdict, audit, observed>>

\* No token, no session or no contract: raised before the request leaves.
SendFails(r) ==
    /\ stage[r] = "send"
    /\ Raise(r, "unavailable")
    /\ UNCHANGED <<baoVars, outside, deployVars, op, form, view, flight, audit, observed>>

--------------------------------------------------------------------------------
\* OpenBao (external).  A request in flight is carried out, refused or lost at
\* any later time, whether or not NetBox still waits.

BootNode(r) ==
    /\ op[r] \in Bootstrap /\ ~initialized
    /\ initialized' = TRUE /\ sealed' = TRUE
    /\ members' = (IF op[r] = "join" THEN Peer ELSE {Self})
    /\ voters' = members' /\ index' = index + 1
    /\ leader' \in IF op[r] = "join" THEN voters' ELSE {Self}
    /\ UNCHANGED clusterId

TurnSeal(r) ==
    /\ initialized
    /\ \/ op[r] = "unseal" /\ sealed' \in {sealed, FALSE} /\ UNCHANGED leader
       \/ op[r] = "reset" /\ UNCHANGED <<sealed, leader>>
       \/ /\ op[r] = "seal" /\ ~sealed /\ leader = Self
          /\ sealed' = TRUE /\ leader' \in voters
    /\ UNCHANGED <<initialized, members, voters, index, clusterId>>

\* Standbys forward; the configuration index is not a precondition.
DropPeer(r) ==
    /\ op[r] = "remove" /\ initialized /\ ~sealed
    /\ voters \ {form[r].peer} # {}
    /\ members' = members \ {form[r].peer}
    /\ voters' = voters \ {form[r].peer}
    /\ leader' \in IF leader \in voters' THEN {leader} ELSE voters'
    /\ index' = index + 1
    /\ UNCHANGED <<initialized, sealed, clusterId>>

RestoreData(r) ==
    /\ op[r] \in Restoring /\ initialized /\ ~sealed
    /\ clusterId' \in ClusterId
    /\ sealed' \in {FALSE, op[r] = "force"}
    /\ UNCHANGED <<initialized, raftVars>>

Arrive(r, f) ==
    /\ flight[r] = "sent"
    /\ flight' = [flight EXCEPT ![r] = f]
    /\ UNCHANGED <<outside, deployVars, op, form, stage, view, verdict, audit, observed>>

Execute(r) ==
    /\ Arrive(r, "executed")
    /\ BootNode(r) \/ TurnSeal(r) \/ DropPeer(r) \/ RestoreData(r)

Refuse(r) == Arrive(r, "refused") /\ UNCHANGED baoVars

Lose(r) == Arrive(r, "lost") /\ UNCHANGED baoVars

\* Direct operators, elections and other tools.
Elsewhere ==
    /\ initialized /\ outside < MaxOutside
    /\ outside' = outside + 1
    /\ \/ /\ sealed' = ~sealed /\ leader' \in voters
          /\ UNCHANGED <<members, voters, index>>
       \/ /\ leader' \in voters \ {leader}
          /\ UNCHANGED <<sealed, members, voters, index>>
       \/ \E p \in Peer \ {leader} :
            /\ members' \in {members \cup {p}, members \ {p}}
            /\ voters' \in {voters \cup {p}, voters \ {p}}
            /\ voters' \subseteq members' /\ <<members', voters'>> # <<members, voters>>
            /\ index' = index + 1
            /\ UNCHANGED <<sealed, leader>>
    /\ UNCHANGED <<initialized, clusterId, deployVars, requestVars, audit, observed>>

--------------------------------------------------------------------------------
\* The answer, as the transport reports it.  OpenBao answers what it carries out
\* with one of the statuses the call expects.

ReplyAccepted(r) ==
    /\ stage[r] = "wait" /\ flight[r] = "executed"
    /\ Proceed(r, "complete")
    /\ UNCHANGED <<baoVars, outside, deployVars, op, form, view, flight, audit, observed>>

\* 4xx: 400, 409 and 412 are conflicts, the rest unavailable.
ReplyRefused(r) ==
    /\ stage[r] = "wait" /\ flight[r] = "refused"
    /\ \E v \in Failure : Raise(r, v)
    /\ UNCHANGED <<baoVars, outside, deployVars, op, form, view, flight, audit, observed>>

\* Mutant: a lost answer is treated as it is for a read.
LostAnswerFails(r) ==
    /\ stage[r] = "wait"
    /\ Raise(r, "unavailable")
    /\ UNCHANGED <<baoVars, outside, deployVars, op, form, view, flight, audit, observed>>
\* Mutant: the request has no timeout.
WaitsForever(r) ==
    /\ stage[r] = "wait" /\ flight[r] = "executed"
    /\ Proceed(r, "unknown")
    /\ UNCHANGED <<baoVars, outside, deployVars, op, form, view, flight, audit, observed>>

\* A transport error, a timeout, a 5xx or an undecodable body after the dispatch.
NoVerdict(r) ==
    /\ stage[r] = "wait"
    /\ Proceed(r, "unknown")
    /\ UNCHANGED <<baoVars, outside, deployVars, op, form, view, flight, audit, observed>>

\* The direct transport normalizes these replies as if they were reads.
Misreported(r) == transport = "direct" /\ op[r] \in {"initialize"} \cup Unsealing

\* A decodable body that the normalizer rejects.
ReplyUnparsed(r) ==
    /\ stage[r] = "wait" /\ flight[r] = "executed" /\ Misreported(r)
    /\ Raise(r, "unavailable")
    /\ UNCHANGED <<baoVars, outside, deployVars, op, form, view, flight, audit, observed>>

--------------------------------------------------------------------------------
\* Best-effort follow-up records and the response.

Conclude(r, v) ==
    /\ verdict' = [verdict EXCEPT ![r] = v]
    /\ Goto(r, "done")
    /\ UNCHANGED <<baoVars, outside, deployVars, op, form, view, flight, observed>>

Complete(r) ==
    /\ stage[r] = "complete"
    /\ \/ Log(r, "completed") /\ \E v \in {"accepted", "incomplete"} : Conclude(r, v)
       \/ UNCHANGED audit /\ Conclude(r, "incomplete")

\* The exception rolls an ambient transaction back, the failure record included.
Fail(r) ==
    /\ stage[r] = "fail"
    /\ (Log(r, "failed") /\ ~ambient) \/ UNCHANGED audit
    /\ Conclude(r, verdict[r])

Unknown(r) ==
    /\ stage[r] = "unknown"
    /\ Log(r, "unknown") \/ UNCHANGED audit
    /\ Conclude(r, "unknown")

OpenSnapshot(r) ==
    /\ stage[r] = "open"
    /\ Proceed(r, "stream") \/ \E v \in Failure : Raise(r, v)
    /\ UNCHANGED <<baoVars, outside, deployVars, op, form, view, flight, audit, observed>>

EndStream(r) ==
    /\ stage[r] = "stream"
    /\ \E p \in {"completed", "aborted"} :
         /\ Log(r, p) \/ UNCHANGED audit
         /\ Conclude(r, IF p = "completed" THEN "accepted" ELSE "aborted")

\* The observation and its audit row commit together.
Observe(r) ==
    /\ stage[r] = "observe"
    /\ Log(r, "observed")
    /\ observed' = (IF op[r] = "state" THEN observed ELSE observed \cup {r})
    /\ verdict' = [verdict EXCEPT ![r] = "accepted"]
    /\ Goto(r, "done")
    /\ UNCHANGED <<baoVars, outside, deployVars, op, form, view, flight>>

ObserveFails(r) ==
    /\ stage[r] = "observe"
    /\ Raise(r, "unavailable")
    /\ UNCHANGED <<baoVars, outside, deployVars, op, form, view, flight, audit, observed>>

ObserveLost(r) ==
    /\ stage[r] = "observe" /\ ~ambient
    /\ Log(r, "observed")
    /\ observed' = (IF op[r] = "state" THEN observed ELSE observed \cup {r})
    /\ Raise(r, "unavailable")
    /\ UNCHANGED <<baoVars, outside, deployVars, op, form, view, flight>>

Crash(r) ==
    /\ r \in Mortal /\ stage[r] \notin {"idle", "done", "dead"}
    /\ Proceed(r, "dead")
    /\ UNCHANGED <<baoVars, outside, deployVars, op, form, view, flight, audit, observed>>

--------------------------------------------------------------------------------
Begin(r) ==
    \/ Initialize(r) \/ JoinRaft(r) \/ Unseal(r) \/ Seal(r)
    \/ RemoveRaftPeer(r) \/ RestoreRaftSnapshot(r) \/ DownloadRaftSnapshot(r)
    \/ State(r) \/ Health(r) \/ Capabilities(r)

Work(r) ==
    \/ SealStatus(r) \/ InitializationStatus(r) \/ LeaderStatus(r)
    \/ RaftConfiguration(r) \/ Survey(r) \/ ReadFails(r) \/ ReadUnknown(r)
    \/ Authorize(r) \/ AuthorizeFails(r) \/ AuthorizeLost(r) \/ Send(r) \/ SendFails(r)
    \/ ReplyAccepted(r) \/ ReplyRefused(r) \/ NoVerdict(r) \/ ReplyUnparsed(r)
    \/ Complete(r) \/ Fail(r) \/ Unknown(r)
    \/ OpenSnapshot(r) \/ EndStream(r) \/ Observe(r) \/ ObserveFails(r) \/ ObserveLost(r)

OpenBao(r) == Execute(r) \/ Refuse(r) \/ Lose(r)

Next == Elsewhere \/ \E r \in Request : Begin(r) \/ Work(r) \/ OpenBao(r) \/ Crash(r)

Spec == Init /\ [][Next]_vars

\* A worker keeps running its view: every call it makes has a timeout.  OpenBao
\* and the operators owe it nothing.
Fairness == \A r \in Request : WF_vars(Work(r))

FairSpec == Spec /\ Fairness
--------------------------------------------------------------------------------
\* Every variable keeps its type, and the voters are members.
TypeOK ==
    /\ initialized \in BOOLEAN /\ sealed \in BOOLEAN
    /\ members \subseteq Peer /\ voters \subseteq members
    /\ leader \in Peer /\ index \in Nat /\ clusterId \in ClusterId
    /\ outside \in 0..MaxOutside
    /\ transport \in {"direct", "broker"} /\ ambient \in BOOLEAN
    /\ op \in [Request -> Operation]
    /\ form \in [Request -> Form]
    /\ stage \in [Request -> Stage]
    /\ view \in [Request -> View]
    /\ flight \in [Request -> Flight]
    /\ verdict \in [Request -> Verdict]
    /\ audit \subseteq Record /\ observed \subseteq Request

Authorized == {r \in Request : [req |-> r, phase |-> "authorized"] \in audit}
Dispatched == {r \in Request : flight[r] # "none"}
Executed == {r \in Request : flight[r] = "executed"}

\* Evidence comes first (log_administration, record_health_observation): a mutation
\* leaves NetBox only behind a committed authorization record, whatever transaction
\* surrounds the view and whoever dies, and the cluster row shows an observation
\* only together with its committed audit row.
EvidencePrecedesEffect ==
    /\ Dispatched \subseteq Authorized
    /\ \A r \in observed : [req |-> r, phase |-> "observed"] \in audit

\* The stale-screen detectors work (remove_raft_peer, _fresh_raft_state): when the
\* cluster has not changed since the preflight read it, a removal or a restore acts
\* on the index and the cluster ID the operator confirmed, and a removal spares the
\* leader and leaves at least three voters.
Acts(r) == flight[r] = "sent" /\ flight'[r] = "executed"
Unraced(r) ==
    view[r].index = index /\ view[r].leader = leader /\ view[r].id = clusterId
UnracedActsOnReviewed ==
    [][\A r \in Request :
          Acts(r) /\ op[r] \in Reviewed /\ Unraced(r) =>
             /\ form[r].index = index
             /\ op[r] \in Restoring => form[r].id = clusterId
             /\ op[r] = "remove" =>
                  /\ form[r].peer # leader
                  /\ form[r].peer \in voters => Cardinality(voters') >= 3]_vars

\* Requests that mutate and whose failed parsing is reported as unknown.
Tracked(r) == op[r] \in Mutation /\ ~Misreported(r)
Told(v) ==
    CASE v \in Failure -> "refused"
      [] v \in {"accepted", "incomplete"} -> "accepted"
      [] v = "unknown" -> "unknown"
      [] OTHER -> "none"

Recorded == {r \in Authorized : Tracked(r)}
Sent == {r \in Dispatched : Tracked(r)}
Effected == {r \in Executed : Tracked(r)}
Reported == [r \in Request |->
               IF Tracked(r) /\ stage[r] = "done" THEN Told(verdict[r]) ELSE "none"]

AM == INSTANCE AuditedMutation WITH
    recorded <- Recorded, sent <- Sent, effected <- Effected, report <- Reported

\* Every mutation but a direct initialization or unseal implements the promise of
\* the administration plane: authorized durably, sent once, and never reported as
\* refused when it was, or still may be, carried out.
ImplementsAuditedMutation == AM!Spec

\* docs/architecture/administration-plane.md says that accepted responses that fail
\* bounded parsing are reported as unknown: an operator told that a mutation failed
\* never finds it done.
FailedMeansNotDone ==
    \A r \in Request :
        stage[r] = "done" /\ op[r] \in Mutation /\ verdict[r] \in Failure =>
            flight[r] # "executed"

\* docs/architecture/invariants.md says that peer removal "protects quorum": NetBox
\* alone, with nobody changing the membership elsewhere, never takes a cluster of
\* four or more voters below three.
QuorumProtected ==
    initialized /\ outside = 0 /\ (\A r \in Request : op[r] # "initialize") =>
        Cardinality(voters) >= 3

\* Every request ends: with a response, or with its worker, also when OpenBao never
\* answers and the audit table refuses every row.
RequestsConclude ==
    \A r \in Request : stage[r] # "idle" ~> stage[r] \in {"done", "dead"}

================================================================================
