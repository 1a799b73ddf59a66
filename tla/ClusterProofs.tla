------------------------------ MODULE ClusterProofs ------------------------------
(***************************************************************************)
(* Theorems about cluster administration, for every set of requests, peers *)
(* and cluster identities and any number of changes made elsewhere.        *)
(***************************************************************************)
EXTENDS ClusterAdministration, FiniteSetTheorems, TLAPS

USE ClusterAssumption

--------------------------------------------------------------------------------
(***************************************************************************)
(* Type correctness.                                                       *)
(***************************************************************************)

\* The part of the type invariant that speaks of OpenBao.
BaoOK ==
    /\ initialized \in BOOLEAN /\ sealed \in BOOLEAN
    /\ members \subseteq Peer /\ voters \subseteq members
    /\ leader \in Peer /\ index \in Nat /\ clusterId \in ClusterId

\* The part that speaks of requests and their records.
RequestOK ==
    /\ op \in [Request -> Operation]
    /\ form \in [Request -> Form]
    /\ stage \in [Request -> Stage]
    /\ view \in [Request -> View]
    /\ flight \in [Request -> Flight]
    /\ verdict \in [Request -> Verdict]
    /\ audit \subseteq Record /\ observed \subseteq Request

\* Initially every variable has its type.
LEMMA TypeInit == Init => TypeOK
<1> SUFFICES ASSUME Init PROVE TypeOK
  OBVIOUS
<1>1. BaoOK /\ outside \in 0..MaxOutside
  BY DEF Init, BaoOK
<1>2. form \in [Request -> Form] /\ view \in [Request -> View]
  BY <1>1 DEF Init, Form, View, BaoOK
<1>3. RequestOK
  BY <1>2 DEF Init, RequestOK, Operation, Observation, Stage, Flight, Verdict
<1> QED
  BY <1>1, <1>3 DEF Init, TypeOK, BaoOK, RequestOK

\* A record of a known request and phase is a Record.
LEMMA RecordType ==
    ASSUME NEW r \in Request, NEW p \in Phase
    PROVE  [req |-> r, phase |-> p] \in Record
BY DEF Record

\* Form edits stay in their type.
LEMMA FormType ==
    ASSUME NEW f \in Form, NEW p \in Peer, NEW i \in Nat, NEW c \in ClusterId
    PROVE  /\ [f EXCEPT !.peer = p, !.index = i] \in Form
           /\ [f EXCEPT !.index = i, !.id = c] \in Form
BY DEF Form

\* What a read stores stays in its type.
LEMMA ViewType ==
    ASSUME view \in [Request -> View], NEW r \in Request,
           NEW i \in Nat, NEW c \in ClusterId, NEW p \in Peer
    PROVE  /\ [view EXCEPT ![r].id = c] \in [Request -> View]
           /\ [view EXCEPT ![r].index = i, ![r].leader = p] \in [Request -> View]
BY DEF View

\* Submitting a request of any kind keeps the types.
LEMMA BeginType ==
    ASSUME TypeOK, NEW r \in Request, Begin(r)
    PROVE  TypeOK'
<1>1. ASSUME NEW o \in Operation, NEW f \in Form, NEW s \in {"seal", "probe"}, Submit(r, o, f, s)
      PROVE  TypeOK'
  BY <1>1 DEF TypeOK, Submit, Goto, Stage, Reading, baoVars, deployVars
<1>2. form[r] \in Form
  BY DEF TypeOK
<1> USE DEF Operation, Mutation, Bootstrap, Unsealing, Reviewed, Restoring, Observation
<1>3. CASE Initialize(r) \/ JoinRaft(r) \/ Seal(r) \/ DownloadRaftSnapshot(r) \/ State(r)
           \/ Health(r) \/ Capabilities(r)
  BY <1>1, <1>2, <1>3 DEF Initialize, JoinRaft, Seal, DownloadRaftSnapshot, State, Health,
     Capabilities
<1>4. CASE Unseal(r)
  BY <1>1, <1>2, <1>4 DEF Unseal
<1>5. CASE RemoveRaftPeer(r)
  <2>1. PICK p \in Peer, i \in 0..index :
          Submit(r, "remove", [form[r] EXCEPT !.peer = p, !.index = i], "seal")
    BY <1>5 DEF RemoveRaftPeer
  <2>2. [form[r] EXCEPT !.peer = p, !.index = i] \in Form
    <3>1. i \in Nat
      BY DEF TypeOK
    <3>2. clusterId \in ClusterId
      BY DEF TypeOK
    <3> QED
      BY <1>2, <3>1, <3>2, FormType
  <2> QED
    BY <1>1, <2>1, <2>2
<1>6. CASE RestoreRaftSnapshot(r)
  <2>1. PICK o \in Restoring, i \in 0..index, c \in ClusterId :
          Submit(r, o, [form[r] EXCEPT !.index = i, !.id = c], "seal")
    BY <1>6 DEF RestoreRaftSnapshot
  <2>2. [form[r] EXCEPT !.index = i, !.id = c] \in Form
    <3>1. i \in Nat
      BY DEF TypeOK
    <3> QED
      BY <1>2, <3>1, FormType
  <2> QED
    BY <1>1, <2>1, <2>2
<1> QED
  BY <1>3, <1>4, <1>5, <1>6 DEF Begin

\* Every call a view makes, and the death of its worker, keeps the types.
LEMMA WorkType ==
    ASSUME TypeOK, NEW r \in Request, Work(r) \/ Crash(r)
    PROVE  TypeOK'
<1> USE DEF TypeOK, baoVars, deployVars, Goto, Raise, Proceed, Conclude, Log,
        Stage, Reading, Verdict, Failure, Flight
<1>0. \A p \in Phase : [req |-> r, phase |-> p] \in Record
  BY RecordType
<1> USE <1>0 DEF Phase
<1>1. CASE SealStatus(r)
  <2>1. view' \in [Request -> View]
    BY <1>1, ViewType DEF SealStatus
  <2>2. stage' \in [Request -> Stage] /\ verdict' \in [Request -> Verdict]
    BY <1>1 DEF SealStatus, AfterSeal
  <2> QED
    BY <1>1, <2>1, <2>2 DEF SealStatus
<1>2. CASE RaftConfiguration(r)
  <2>1. view' \in [Request -> View]
    BY <1>2, ViewType DEF RaftConfiguration
  <2>2. stage' \in [Request -> Stage] /\ verdict' \in [Request -> Verdict]
    BY <1>2 DEF RaftConfiguration
  <2> QED
    BY <1>2, <2>1, <2>2 DEF RaftConfiguration
<1>3. CASE InitializationStatus(r) \/ LeaderStatus(r) \/ Survey(r) \/ ReadFails(r) \/ ReadUnknown(r)
  BY <1>3 DEF InitializationStatus, LeaderStatus, Survey, ReadFails, ReadUnknown
<1>4. CASE Authorize(r) \/ AuthorizeFails(r) \/ AuthorizeLost(r) \/ Send(r) \/ SendFails(r)
  BY <1>4 DEF Authorize, AuthorizeFails, AuthorizeLost, Send, SendFails
<1>5. CASE ReplyAccepted(r) \/ ReplyRefused(r) \/ NoVerdict(r) \/ ReplyUnparsed(r)
  BY <1>5 DEF ReplyAccepted, ReplyRefused, NoVerdict, ReplyUnparsed
<1>6. CASE Complete(r) \/ Fail(r) \/ Unknown(r)
  BY <1>6 DEF Complete, Fail, Unknown
<1>7. CASE OpenSnapshot(r) \/ EndStream(r)
  BY <1>7 DEF OpenSnapshot, EndStream
<1>8. CASE Observe(r) \/ ObserveFails(r) \/ ObserveLost(r)
  BY <1>8 DEF Observe, ObserveFails, ObserveLost
<1>9. CASE Crash(r)
  BY <1>9 DEF Crash
<1> QED
  BY <1>1, <1>2, <1>3, <1>4, <1>5, <1>6, <1>7, <1>8, <1>9 DEF Work

\* OpenBao's own steps keep the types.
LEMMA BaoType ==
    ASSUME TypeOK, NEW r \in Request, OpenBao(r)
    PROVE  TypeOK'
<1>1. /\ UNCHANGED <<outside, transport, ambient, op, form, stage, view, verdict, audit, observed>>
      /\ flight' \in [Request -> Flight]
  BY DEF OpenBao, Execute, Refuse, Lose, Arrive, deployVars, TypeOK, Flight
<1>2. BaoOK'
  <2> USE DEF TypeOK, BaoOK
  <2>1. CASE BootNode(r)
    BY <2>1 DEF BootNode
  <2>2. CASE TurnSeal(r)
    BY <2>2 DEF TurnSeal
  <2>3. CASE DropPeer(r)
    BY <2>3 DEF DropPeer
  <2>4. CASE RestoreData(r)
    BY <2>4 DEF RestoreData, raftVars
  <2>5. CASE UNCHANGED baoVars
    BY <2>5 DEF baoVars
  <2> QED
    BY <2>1, <2>2, <2>3, <2>4, <2>5 DEF OpenBao, Execute, Refuse, Lose
<1> QED
  BY <1>1, <1>2 DEF TypeOK, BaoOK

\* So do changes made elsewhere.
LEMMA ElsewhereType ==
    ASSUME TypeOK, Elsewhere
    PROVE  TypeOK'
<1>1. outside' \in 0..MaxOutside
  BY DEF TypeOK, Elsewhere
<1>0. BaoOK'
  <2>1. UNCHANGED <<initialized, clusterId>>
    BY DEF Elsewhere
  <2>2. sealed' \in BOOLEAN /\ leader' \in Peer
    BY DEF TypeOK, Elsewhere
  <2>3. members' \subseteq Peer /\ voters' \subseteq members' /\ index' \in Nat
    BY DEF TypeOK, Elsewhere
  <2> QED
    BY <2>1, <2>2, <2>3 DEF BaoOK, TypeOK
<1>2. UNCHANGED <<transport, ambient, op, form, stage, view, flight, verdict, audit, observed>>
  BY DEF Elsewhere, deployVars, requestVars
<1> QED
  BY <1>0, <1>1, <1>2 DEF TypeOK, BaoOK

\* TypeOK is inductive.
LEMMA TypeStep == TypeOK /\ [Next]_vars => TypeOK'
<1> SUFFICES ASSUME TypeOK, [Next]_vars PROVE TypeOK'
  OBVIOUS
<1>1. CASE Elsewhere
  BY <1>1, ElsewhereType
<1>2. CASE \E r \in Request : Begin(r)
  BY <1>2, BeginType
<1>3. CASE \E r \in Request : Work(r) \/ Crash(r)
  BY <1>3, WorkType
<1>4. CASE \E r \in Request : OpenBao(r)
  BY <1>4, BaoType
<1>5. CASE UNCHANGED vars
  BY <1>5 DEF vars, TypeOK
<1> QED
  BY <1>1, <1>2, <1>3, <1>4, <1>5 DEF Next

\* Every variable of cluster administration keeps its type.
THEOREM ClusterTypeCorrect == Spec => []TypeOK
BY TypeInit, TypeStep, PTL DEF Spec

--------------------------------------------------------------------------------
(***************************************************************************)
(* The promise about mutations.  What a request may claim about its        *)
(* mutation follows from where it stands: its record, its flight and its   *)
(* verdict move together.                                                  *)
(***************************************************************************)

\* Stages before the authorization record, and before the one request.
Early == {"idle", "audit", "observe"} \cup Reading
Unsent == Early \cup {"send", "open", "stream"}

Claims(r) ==
    /\ stage[r] \in Early => r \notin Authorized
    /\ stage[r] \in {"send", "wait"} => r \in Authorized
    /\ flight[r] # "none" => r \in Authorized
    /\ stage[r] \in Unsent => flight[r] = "none" /\ verdict[r] = "none"
    /\ stage[r] = "wait" => flight[r] # "none"
    /\ stage[r] = "complete" => flight[r] = "executed"
    /\ stage[r] = "fail" =>
         verdict[r] \in Failure /\ (Tracked(r) => flight[r] \in {"none", "refused"})
    /\ stage[r] \in {"observe", "open", "stream", "survey", "probe"} => op[r] \notin Mutation
    /\ stage[r] = "done" /\ Tracked(r) =>
           /\ verdict[r] \in {"accepted", "incomplete", "unknown"} \cup Failure
           /\ verdict[r] \in Failure => flight[r] \in {"none", "refused"}
           /\ verdict[r] \in {"accepted", "incomplete"} => flight[r] = "executed"

\* The inductive invariant: types, consistent claims, audited observations.
ClaimInv ==
    /\ TypeOK
    /\ \A r \in Request : Claims(r)
    /\ \A r \in observed : [req |-> r, phase |-> "observed"] \in audit

\* Initially nothing is claimed.
LEMMA ClaimInit == Init => ClaimInv
BY TypeInit DEF Init, ClaimInv, Claims, Authorized, Early, Unsent, Reading, Tracked

\* A request whose state a step leaves alone keeps its claims.
LEMMA ClaimsFrame ==
    ASSUME NEW q \in Request, Claims(q),
           stage'[q] = stage[q], flight'[q] = flight[q], verdict'[q] = verdict[q],
           op'[q] = op[q], transport' = transport,
           q \in Authorized' <=> q \in Authorized
    PROVE  Claims(q)'
BY DEF Claims, Tracked, Misreported

\* Only an authorization record authorizes.
LEMMA LogFrame ==
    ASSUME NEW r \in Request, NEW p \in Phase, Log(r, p)
    PROVE  /\ p # "authorized" => Authorized' = Authorized
           /\ p = "authorized" => Authorized' = Authorized \cup {r}
           /\ audit \subseteq audit'
           /\ [req |-> r, phase |-> p] \in audit'
BY DEF Log, Authorized

\* Without a new row nobody is authorized anew.
LEMMA AuditFrame == UNCHANGED audit => Authorized' = Authorized
BY DEF Authorized

\* A step of one request: the others keep their claims, and so does it.
LEMMA OneRequest ==
    ASSUME ClaimInv, TypeOK', NEW r \in Request, Claims(r)',
           \A q \in Request \ {r} :
              /\ stage'[q] = stage[q] /\ flight'[q] = flight[q] /\ verdict'[q] = verdict[q]
              /\ op'[q] = op[q]
              /\ q \in Authorized' <=> q \in Authorized,
           transport' = transport,
           \A q \in observed' : [req |-> q, phase |-> "observed"] \in audit'
    PROVE  ClaimInv'
<1>1. ASSUME NEW q \in Request \ {r} PROVE Claims(q)'
  BY <1>1, ClaimsFrame DEF ClaimInv
<1> QED
  BY <1>1 DEF ClaimInv

\* Submitting a request claims nothing.
LEMMA BeginClaims ==
    ASSUME ClaimInv, NEW r \in Request, Begin(r)
    PROVE  ClaimInv'
<1> USE DEF Initialize, JoinRaft, Unseal, Seal, DownloadRaftSnapshot, State, Health,
        Capabilities, RemoveRaftPeer, RestoreRaftSnapshot
<1>1. /\ stage[r] = "idle" /\ stage'[r] \in {"seal", "probe"}
      /\ stage'[r] = "probe" => op'[r] \in Observation
  BY DEF Begin, Submit, Goto, Observation, ClaimInv, TypeOK
<1>2. TypeOK'
  BY BeginType DEF ClaimInv
<1>3. /\ UNCHANGED <<flight, verdict, audit, observed, transport>>
      /\ \A q \in Request \ {r} : stage'[q] = stage[q] /\ op'[q] = op[q]
  BY DEF Begin, Submit, Goto, deployVars, ClaimInv, TypeOK
<1>4. Authorized' = Authorized
  BY <1>3, AuditFrame
<1>5. Claims(r)'
  BY <1>1, <1>3, <1>4 DEF ClaimInv, Claims, Early, Unsent, Reading, Observation, Mutation,
     Bootstrap, Unsealing, Reviewed, Restoring
<1> QED
  BY <1>2, <1>3, <1>4, <1>5, OneRequest DEF ClaimInv

\* A read moves its request on, fails it or leaves it unknown; nothing was sent.
LEMMA ReadClaims ==
    ASSUME ClaimInv, NEW r \in Request,
           \/ SealStatus(r) \/ InitializationStatus(r) \/ LeaderStatus(r)
           \/ RaftConfiguration(r) \/ Survey(r) \/ ReadFails(r) \/ ReadUnknown(r)
    PROVE  ClaimInv'
<1> USE DEF SealStatus, InitializationStatus, LeaderStatus, RaftConfiguration, Survey, ReadFails,
        ReadUnknown
<1>1. TypeOK'
  BY WorkType DEF ClaimInv, Work
<1>2. /\ UNCHANGED <<op, flight, audit, observed, transport>>
      /\ \A q \in Request \ {r} : stage'[q] = stage[q] /\ verdict'[q] = verdict[q]
  BY DEF Raise, Proceed, Goto, deployVars, ClaimInv, TypeOK
<1>3. stage[r] \in Reading
  BY DEF Reading
<1>4. Authorized' = Authorized
  BY <1>2, AuditFrame
<1>5. \/ stage'[r] = "fail" /\ verdict'[r] \in Failure
      \/ stage'[r] \in {"init", "audit", "leader", "raft", "unknown"} /\ verdict' = verdict
      \/ stage'[r] \in {"survey", "observe"} /\ verdict' = verdict /\ op[r] \notin Mutation
  <2> USE DEF Raise, Proceed, Goto, Failure, ClaimInv, TypeOK
  <2>1. CASE SealStatus(r)
    BY <2>1 DEF AfterSeal, Mutation, Bootstrap, Unsealing, Reviewed, Restoring
  <2>2. CASE InitializationStatus(r) \/ LeaderStatus(r) \/ RaftConfiguration(r)
    BY <2>2
  <2>3. CASE Survey(r)
    BY <2>3 DEF Claims
  <2>4. CASE ReadFails(r) \/ ReadUnknown(r)
    BY <2>4
  <2> QED
    BY <2>1, <2>2, <2>3, <2>4
<1>6. Claims(r)'
  BY <1>2, <1>3, <1>4, <1>5 DEF ClaimInv, Claims, Early, Unsent, Reading, Tracked, Misreported
<1> QED
  BY <1>1, <1>2, <1>4, <1>6, OneRequest DEF ClaimInv

\* The authorization is on record before the request is sent.
LEMMA SendClaims ==
    ASSUME ClaimInv, NEW r \in Request,
           Authorize(r) \/ AuthorizeFails(r) \/ AuthorizeLost(r) \/ Send(r) \/ SendFails(r)
    PROVE  ClaimInv'
<1> USE DEF ClaimInv, TypeOK, Raise, Goto, deployVars
<1>1. TypeOK'
  BY WorkType DEF Work
<1>2. CASE Authorize(r) \/ AuthorizeLost(r)
  <2>1. Authorized' = Authorized \cup {r} /\ audit \subseteq audit'
    BY <1>2, LogFrame DEF Authorize, AuthorizeLost, Phase
  <2>2. Claims(r)'
    BY <1>2, <2>1 DEF Authorize, AuthorizeLost, Claims, Early, Unsent, Reading, Failure, Mutation,
       Bootstrap, Unsealing, Reviewed, Restoring
  <2> QED
    BY <1>1, <1>2, <2>1, <2>2, OneRequest DEF Authorize, AuthorizeLost
<1>3. CASE AuthorizeFails(r) \/ Send(r) \/ SendFails(r)
  <2>1. Authorized' = Authorized /\ UNCHANGED audit
    BY <1>3, AuditFrame DEF AuthorizeFails, Send, SendFails
  <2>2. Claims(r)'
    BY <1>3, <2>1 DEF AuthorizeFails, Send, SendFails, Claims, Early, Unsent, Reading, Failure
  <2> QED
    BY <1>1, <1>3, <2>1, <2>2, OneRequest DEF AuthorizeFails, Send, SendFails
<1> QED
  BY <1>2, <1>3

\* The transport's reading of the answer agrees with the flight.
LEMMA ReplyClaims ==
    ASSUME ClaimInv, NEW r \in Request,
           \/ ReplyAccepted(r) \/ ReplyRefused(r) \/ NoVerdict(r) \/ ReplyUnparsed(r)
           \/ OpenSnapshot(r) \/ ObserveFails(r) \/ Crash(r)
    PROVE  ClaimInv'
<1> USE DEF ClaimInv, TypeOK, Raise, Proceed, Goto, deployVars
<1>1. TypeOK'
  BY WorkType DEF Work
<1> USE DEF ReplyAccepted, ReplyRefused, NoVerdict, ReplyUnparsed, OpenSnapshot, ObserveFails, Crash
<1>2. UNCHANGED <<op, flight, audit, observed, transport>>
  OBVIOUS
<1>3. Authorized' = Authorized
  BY <1>2, AuditFrame
<1>4. Claims(r)'
  BY <1>2, <1>3 DEF Claims, Early, Unsent, Reading, Failure, Tracked, Misreported
<1> QED
  BY <1>1, <1>2, <1>3, <1>4, OneRequest

\* A response repeats what the request may claim.
LEMMA ConcludeClaims ==
    ASSUME ClaimInv, NEW r \in Request,
           Complete(r) \/ Fail(r) \/ Unknown(r) \/ EndStream(r) \/ Observe(r)
    PROVE  ClaimInv'
<1> USE DEF ClaimInv, TypeOK, Goto, deployVars
<1>1. TypeOK'
  BY WorkType DEF Work
<1>2. PICK p \in Phase \ {"authorized"} : Log(r, p) \/ UNCHANGED audit
  BY DEF Complete, Fail, Unknown, EndStream, Observe, Phase
<1>3. Authorized' = Authorized /\ audit \subseteq audit'
  BY <1>2, LogFrame, AuditFrame
<1>4. /\ UNCHANGED <<op, flight, transport>>
      /\ stage'[r] = "done"
      /\ \A q \in Request \ {r} : stage'[q] = stage[q] /\ verdict'[q] = verdict[q]
  BY DEF Complete, Fail, Unknown, EndStream, Observe, Conclude
<1>5. Claims(r)'
  <2>1. CASE Complete(r)
    BY <2>1, <1>3, <1>4 DEF Complete, Conclude, Claims, Early, Unsent, Reading, Failure, Tracked, Misreported
  <2>2. CASE Fail(r)
    BY <2>2, <1>3, <1>4 DEF Fail, Conclude, Claims, Early, Unsent, Reading, Failure, Tracked, Misreported
  <2>3. CASE Unknown(r)
    BY <2>3, <1>3, <1>4 DEF Unknown, Conclude, Claims, Early, Unsent, Reading, Failure, Tracked, Misreported
  <2>4. CASE EndStream(r) \/ Observe(r)
    BY <2>4, <1>3, <1>4 DEF EndStream, Observe, Claims, Early, Unsent, Reading, Tracked
  <2> QED
    BY <2>1, <2>2, <2>3, <2>4
<1>6. \A q \in observed' : [req |-> q, phase |-> "observed"] \in audit'
  <2>1. CASE Observe(r)
    <3>1. [req |-> r, phase |-> "observed"] \in audit'
      BY <2>1, LogFrame DEF Observe, Phase
    <3> QED
      BY <2>1, <3>1, <1>3 DEF Observe
  <2>2. CASE Complete(r) \/ Fail(r) \/ Unknown(r) \/ EndStream(r)
    BY <2>2, <1>3 DEF Complete, Fail, Unknown, EndStream, Conclude
  <2> QED
    BY <2>1, <2>2
<1> QED
  BY <1>1, <1>3, <1>4, <1>5, <1>6, OneRequest

\* An observation whose COMMIT answer is lost has its evidence, and claims nothing.
LEMMA ObserveLostClaims ==
    ASSUME ClaimInv, NEW r \in Request, ObserveLost(r)
    PROVE  ClaimInv'
<1> USE DEF ClaimInv, TypeOK, Goto, Raise, ObserveLost, deployVars
<1>1. TypeOK'
  BY WorkType DEF Work
<1>2. /\ Authorized' = Authorized /\ audit \subseteq audit'
      /\ [req |-> r, phase |-> "observed"] \in audit'
  BY LogFrame DEF Phase
<1>3. Claims(r)'
  BY <1>2 DEF Claims, Early, Unsent, Reading, Failure, Tracked
<1>4. \A q \in observed' : [req |-> q, phase |-> "observed"] \in audit'
  BY <1>2
<1> QED
  BY <1>1, <1>2, <1>3, <1>4, OneRequest

\* OpenBao touches a request only while it is in flight.
LEMMA BaoClaims ==
    ASSUME ClaimInv, NEW r \in Request, OpenBao(r)
    PROVE  ClaimInv'
<1>1. TypeOK'
  BY BaoType DEF ClaimInv
<1>2. /\ UNCHANGED <<op, stage, verdict, audit, observed, transport>>
      /\ flight[r] = "sent" /\ flight'[r] \in {"executed", "refused", "lost"}
      /\ \A q \in Request \ {r} : flight'[q] = flight[q]
  BY DEF OpenBao, Execute, Refuse, Lose, Arrive, deployVars, ClaimInv, TypeOK
<1>3. Authorized' = Authorized
  BY <1>2, AuditFrame
<1>4. Claims(r)'
  BY <1>2, <1>3 DEF ClaimInv, Claims, Tracked, Misreported
<1> QED
  BY <1>1, <1>2, <1>3, <1>4, OneRequest DEF ClaimInv

\* ClaimInv is inductive.
LEMMA ClaimStep == ClaimInv /\ [Next]_vars => ClaimInv'
<1> SUFFICES ASSUME ClaimInv, [Next]_vars PROVE ClaimInv'
  OBVIOUS
<1>0. TypeOK'
  BY TypeStep DEF ClaimInv
<1>1. CASE Elsewhere \/ UNCHANGED vars
  <2>1. UNCHANGED <<op, stage, flight, verdict, audit, observed, transport>>
    BY <1>1 DEF Elsewhere, requestVars, deployVars, vars
  <2>2. Authorized' = Authorized
    BY <2>1, AuditFrame
  <2>3. ASSUME NEW q \in Request PROVE Claims(q)'
    BY <2>1, <2>2, ClaimsFrame DEF ClaimInv
  <2> QED
    BY <1>0, <2>1, <2>3 DEF ClaimInv
<1>2. CASE \E r \in Request : Begin(r)
  BY <1>2, BeginClaims
<1>3. CASE \E r \in Request : Work(r) \/ Crash(r)
  BY <1>3, ReadClaims, SendClaims, ReplyClaims, ConcludeClaims, ObserveLostClaims DEF Work
<1>4. CASE \E r \in Request : OpenBao(r)
  BY <1>4, BaoClaims
<1> QED
  BY <1>1, <1>2, <1>3, <1>4 DEF Next

\* No mutation leaves and no observation is stored without committed evidence,
\* whatever transaction surrounds the view and whichever workers die.
THEOREM EvidenceFirst == Spec => []EvidencePrecedesEffect
<1>1. ClaimInv => EvidencePrecedesEffect
  BY DEF ClaimInv, Claims, EvidencePrecedesEffect, Dispatched
<1> QED
  BY <1>1, ClaimInit, ClaimStep, PTL DEF Spec

--------------------------------------------------------------------------------
(***************************************************************************)
(* Cluster administration implements AuditedMutation.                      *)
(***************************************************************************)

AbstractStep == [AM!Next]_(AM!mutationVars)

\* A step that leaves what the abstract specification sees is a stuttering step.
LEMMA Stutter ==
    ASSUME UNCHANGED <<Recorded, Sent, Effected, Reported>>
    PROVE  AbstractStep
BY DEF AbstractStep, AM!mutationVars

\* A step that writes no authorization, moves no flight and answers nobody.
LEMMA Quiet ==
    ASSUME UNCHANGED <<op, transport>>, Authorized' = Authorized,
           Dispatched' = Dispatched, Executed' = Executed,
           \A q \in Request :
              Tracked(q) => (stage'[q] = "done" <=> stage[q] = "done")
                            /\ (stage[q] = "done" => verdict'[q] = verdict[q])
    PROVE  AbstractStep
<1>1. \A q \in Request : Tracked(q)' <=> Tracked(q)
  BY DEF Tracked, Misreported
<1>2. Recorded' = Recorded /\ Sent' = Sent /\ Effected' = Effected
  BY <1>1 DEF Recorded, Sent, Effected, Authorized, Dispatched, Executed
<1>3. Reported' = Reported
  BY <1>1 DEF Reported
<1> QED
  BY <1>2, <1>3, Stutter

\* The flights of a step that leaves them alone.
LEMMA FlightFrame == UNCHANGED flight => Dispatched' = Dispatched /\ Executed' = Executed
BY DEF Dispatched, Executed

\* A new request has no record, no flight and no report, whatever its kind.
LEMMA BeginRefines ==
    ASSUME ClaimInv, NEW r \in Request, Begin(r)
    PROVE  AbstractStep
<1> USE DEF Initialize, JoinRaft, Unseal, Seal, DownloadRaftSnapshot, State, Health,
        Capabilities, RemoveRaftPeer, RestoreRaftSnapshot
<1>1. /\ stage[r] = "idle" /\ stage'[r] \in {"seal", "probe"}
      /\ UNCHANGED <<flight, verdict, audit, transport>>
      /\ \A q \in Request \ {r} : stage'[q] = stage[q] /\ op'[q] = op[q]
  BY DEF Begin, Submit, Goto, deployVars, ClaimInv, TypeOK
<1>2. r \notin Authorized /\ flight[r] = "none"
  BY <1>1 DEF ClaimInv, Claims, Early, Unsent
<1>3. Authorized' = Authorized /\ Dispatched' = Dispatched /\ Executed' = Executed
  BY <1>1, AuditFrame, FlightFrame
<1>4. \A q \in Request \ {r} : Tracked(q)' <=> Tracked(q)
  BY <1>1 DEF Tracked, Misreported
<1>5. r \notin Dispatched /\ r \notin Executed
  BY <1>2 DEF Dispatched, Executed
<1>6. Recorded' = Recorded /\ Sent' = Sent /\ Effected' = Effected
  BY <1>2, <1>3, <1>4, <1>5 DEF Recorded, Sent, Effected, Authorized, Dispatched, Executed
<1>7. Reported' = Reported
  BY <1>1, <1>4 DEF Reported
<1> QED
  BY <1>6, <1>7, Stutter

\* Reads, failed preparations and the transport's reading of the answer are invisible.
LEMMA InnerRefines ==
    ASSUME ClaimInv, NEW r \in Request,
           \/ SealStatus(r) \/ InitializationStatus(r) \/ LeaderStatus(r)
           \/ RaftConfiguration(r) \/ Survey(r) \/ ReadFails(r) \/ ReadUnknown(r)
           \/ AuthorizeFails(r) \/ SendFails(r)
           \/ ReplyAccepted(r) \/ ReplyRefused(r) \/ NoVerdict(r) \/ ReplyUnparsed(r)
           \/ OpenSnapshot(r) \/ ObserveFails(r) \/ Crash(r)
    PROVE  AbstractStep
<1> USE DEF SealStatus, InitializationStatus, LeaderStatus, RaftConfiguration, Survey, ReadFails,
        ReadUnknown, AuthorizeFails, SendFails, ReplyAccepted, ReplyRefused, NoVerdict,
        ReplyUnparsed, OpenSnapshot, ObserveFails, Crash
<1>1. UNCHANGED <<op, flight, audit, transport>>
  BY DEF deployVars
<1>2. stage[r] # "done" /\ stage'[r] # "done"
  BY DEF Raise, Proceed, Goto, Reading, AfterSeal, ClaimInv, TypeOK
<1>3. \A q \in Request \ {r} : stage'[q] = stage[q] /\ verdict'[q] = verdict[q]
  BY DEF Raise, Proceed, Goto, ClaimInv, TypeOK
<1>4. Authorized' = Authorized /\ Dispatched' = Dispatched /\ Executed' = Executed
  BY <1>1, AuditFrame, FlightFrame
<1> QED
  BY <1>1, <1>2, <1>3, <1>4, Quiet

\* An observation is invisible, whether or not its COMMIT is acknowledged.
LEMMA ObserveLostRefines ==
    ASSUME ClaimInv, NEW r \in Request, ObserveLost(r)
    PROVE  AbstractStep
<1>1. /\ UNCHANGED <<op, flight, transport>>
      /\ stage[r] # "done" /\ stage'[r] # "done"
      /\ \A q \in Request \ {r} : stage'[q] = stage[q] /\ verdict'[q] = verdict[q]
  BY DEF ObserveLost, Raise, Goto, deployVars, ClaimInv, TypeOK
<1>2. Authorized' = Authorized /\ Dispatched' = Dispatched /\ Executed' = Executed
  BY <1>1, LogFrame, FlightFrame DEF ObserveLost, Phase
<1> QED
  BY <1>1, <1>2, Quiet

\* The durable record is the abstract authorization.
LEMMA AuthorizeRefines ==
    ASSUME ClaimInv, NEW r \in Request, Authorize(r) \/ AuthorizeLost(r)
    PROVE  AbstractStep
<1>1. /\ UNCHANGED <<op, flight, transport>>
      /\ stage[r] = "audit" /\ stage'[r] \in {"open", "send", "fail"}
      /\ \A q \in Request \ {r} : stage'[q] = stage[q] /\ verdict'[q] = verdict[q]
  BY DEF Authorize, AuthorizeLost, Raise, Goto, deployVars, ClaimInv, TypeOK
<1>2. Authorized' = Authorized \cup {r} /\ r \notin Authorized
  BY <1>1, LogFrame DEF Authorize, AuthorizeLost, Phase, ClaimInv, Claims, Early
<1>3. \A q \in Request : Tracked(q)' <=> Tracked(q)
  BY <1>1 DEF Tracked, Misreported
<1>4. Sent' = Sent /\ Effected' = Effected
  BY <1>1, <1>3 DEF Sent, Effected, Dispatched, Executed
<1>5. Reported' = Reported
  BY <1>1, <1>3 DEF Reported
<1>6. CASE Tracked(r)
  <2>1. Recorded' = Recorded \cup {r} /\ r \notin Recorded
    BY <1>2, <1>3, <1>6 DEF Recorded, Authorized
  <2>2. Reported[r] = "none"
    BY <1>1 DEF Reported
  <2>3. AM!Authorize(r)
    BY <1>4, <1>5, <2>1, <2>2 DEF AM!Authorize
  <2> QED
    BY <2>3 DEF AbstractStep, AM!Next
<1>7. CASE ~Tracked(r)
  <2>1. Recorded' = Recorded
    BY <1>2, <1>3, <1>7 DEF Recorded, Authorized
  <2> QED
    BY <1>4, <1>5, <2>1, Stutter
<1> QED
  BY <1>6, <1>7

\* The one request is the abstract dispatch.
LEMMA SendRefines ==
    ASSUME ClaimInv, NEW r \in Request, Send(r)
    PROVE  AbstractStep
<1>1. /\ UNCHANGED <<op, audit, verdict, transport>>
      /\ stage[r] = "send" /\ stage'[r] = "wait" /\ flight'[r] = "sent"
      /\ \A q \in Request \ {r} : stage'[q] = stage[q] /\ flight'[q] = flight[q]
  BY DEF Send, Goto, deployVars, ClaimInv, TypeOK
<1>2. flight[r] = "none" /\ r \in Authorized
  BY <1>1 DEF ClaimInv, Claims, Unsent
<1>3. \A q \in Request : Tracked(q)' <=> Tracked(q)
  BY <1>1 DEF Tracked, Misreported
<1>4. Recorded' = Recorded /\ Effected' = Effected
  BY <1>1, <1>2, <1>3, AuditFrame DEF Recorded, Effected, Executed, Authorized
<1>5. Reported' = Reported
  BY <1>1, <1>3 DEF Reported
<1>6. CASE Tracked(r)
  <2>1. Sent' = Sent \cup {r} /\ r \in Recorded \ Sent
    BY <1>1, <1>2, <1>3, <1>6 DEF Sent, Recorded, Dispatched
  <2>2. Reported[r] = "none"
    BY <1>1 DEF Reported
  <2>3. AM!Send(r)
    BY <1>4, <1>5, <2>1, <2>2 DEF AM!Send
  <2> QED
    BY <2>3 DEF AbstractStep, AM!Next
<1>7. CASE ~Tracked(r)
  <2>1. Sent' = Sent
    BY <1>1, <1>3, <1>7 DEF Sent, Dispatched
  <2> QED
    BY <1>4, <1>5, <2>1, Stutter
<1> QED
  BY <1>6, <1>7

\* OpenBao carries out only what is in flight, and nobody was told it failed.
LEMMA BaoRefines ==
    ASSUME ClaimInv, NEW r \in Request, OpenBao(r)
    PROVE  AbstractStep
<1>1. /\ UNCHANGED <<op, stage, verdict, audit, transport>>
      /\ flight[r] = "sent" /\ flight'[r] \in {"executed", "refused", "lost"}
      /\ \A q \in Request \ {r} : flight'[q] = flight[q]
  BY DEF OpenBao, Execute, Refuse, Lose, Arrive, deployVars, ClaimInv, TypeOK
<1>2. \A q \in Request : Tracked(q)' <=> Tracked(q)
  BY <1>1 DEF Tracked, Misreported
<1>3. Recorded' = Recorded /\ Sent' = Sent
  BY <1>1, <1>2, AuditFrame DEF Recorded, Sent, Dispatched, Authorized
<1>4. Reported' = Reported
  BY <1>1, <1>2 DEF Reported
<1>5. CASE Tracked(r) /\ flight'[r] = "executed"
  <2>1. Effected' = Effected \cup {r} /\ r \in Sent \ Effected
    BY <1>1, <1>2, <1>5 DEF Effected, Sent, Dispatched, Executed
  <2>2. Reported[r] \in {"none", "unknown"}
    BY <1>1, <1>5 DEF Reported, Told, ClaimInv, Claims, Failure
  <2>3. AM!Effect(r)
    BY <1>3, <1>4, <2>1, <2>2 DEF AM!Effect
  <2> QED
    BY <2>3 DEF AbstractStep, AM!Next
<1>6. CASE ~(Tracked(r) /\ flight'[r] = "executed")
  <2>1. Effected' = Effected
    BY <1>1, <1>2, <1>6 DEF Effected, Executed
  <2> QED
    BY <1>3, <1>4, <2>1, Stutter
<1> QED
  BY <1>5, <1>6

\* A response is the abstract answer that the request may give.
LEMMA ConcludeRefines ==
    ASSUME ClaimInv, NEW r \in Request,
           Complete(r) \/ Fail(r) \/ Unknown(r) \/ EndStream(r) \/ Observe(r)
    PROVE  AbstractStep
<1> USE DEF Complete, Fail, Unknown, EndStream, Observe
<1>1. PICK p \in Phase \ {"authorized"} : Log(r, p) \/ UNCHANGED audit
  BY DEF Phase
<1>2. Authorized' = Authorized
  BY <1>1, LogFrame, AuditFrame
<1>3. /\ UNCHANGED <<op, flight, transport>>
      /\ stage[r] # "done" /\ stage'[r] = "done"
      /\ \A q \in Request \ {r} : stage'[q] = stage[q] /\ verdict'[q] = verdict[q]
  BY DEF Conclude, Goto, deployVars, ClaimInv, TypeOK
<1>4. \A q \in Request : Tracked(q)' <=> Tracked(q)
  BY <1>3 DEF Tracked, Misreported
<1>5. Recorded' = Recorded /\ Sent' = Sent /\ Effected' = Effected
  BY <1>2, <1>3, <1>4, FlightFrame DEF Recorded, Sent, Effected, Authorized, Dispatched, Executed
<1>6. CASE Tracked(r)
  <2>1. Claims(r)' /\ TypeOK
    BY ConcludeClaims DEF ClaimInv
  <2>2. /\ verdict'[r] \in {"accepted", "incomplete", "unknown"} \cup Failure
        /\ verdict'[r] \in Failure => flight[r] # "executed"
        /\ verdict'[r] \in {"accepted", "incomplete"} => flight[r] = "executed"
    BY <1>3, <1>4, <1>6, <2>1 DEF Claims
  <2>3. Reported[r] = "none" /\ Reported' = [Reported EXCEPT ![r] = Told(verdict'[r])]
    BY <1>3, <1>4, <1>6 DEF Reported
  <2>4. /\ Told(verdict'[r]) \in {"refused", "accepted", "unknown"}
        /\ Told(verdict'[r]) = "refused" => flight[r] # "executed"
        /\ Told(verdict'[r]) = "accepted" => flight[r] = "executed"
    BY <2>2 DEF Told, Failure
  <2>5. r \in Effected <=> flight[r] = "executed"
    BY <1>6 DEF Effected, Executed
  <2>6. AM!Answer(r, Told(verdict'[r]))
    BY <1>5, <2>3, <2>4, <2>5 DEF AM!Answer
  <2> QED
    BY <2>4, <2>6 DEF AbstractStep, AM!Next
<1>7. CASE ~Tracked(r)
  <2>1. Reported' = Reported
    BY <1>3, <1>4, <1>7 DEF Reported
  <2> QED
    BY <1>5, <2>1, Stutter
<1> QED
  BY <1>6, <1>7

\* Every step of cluster administration is a step of the promise, or invisible.
LEMMA StepRefines == ClaimInv /\ [Next]_vars => AbstractStep
<1> SUFFICES ASSUME ClaimInv, [Next]_vars PROVE AbstractStep
  OBVIOUS
<1>1. CASE Elsewhere \/ UNCHANGED vars
  <2>1. UNCHANGED <<op, stage, flight, verdict, audit, transport>>
    BY <1>1 DEF Elsewhere, requestVars, deployVars, vars
  <2> QED
    BY <2>1, AuditFrame, FlightFrame, Quiet
<1>2. CASE \E r \in Request : Begin(r)
  BY <1>2, BeginRefines
<1>3. CASE \E r \in Request : Work(r) \/ Crash(r)
  BY <1>3, InnerRefines, AuthorizeRefines, ObserveLostRefines, SendRefines, ConcludeRefines DEF Work
<1>4. CASE \E r \in Request : OpenBao(r)
  BY <1>4, BaoRefines
<1> QED
  BY <1>1, <1>2, <1>3, <1>4 DEF Next

\* Initially nothing is recorded, sent, done or told.
LEMMA InitRefines == Init => AM!Init
BY DEF Init, AM!Init, Recorded, Sent, Effected, Reported, Authorized, Dispatched, Executed

\* Over either transport every mutation but a direct initialization or unseal is
\* authorized durably, sent at most once, and never reported as refused when
\* OpenBao carried it out or still may.
THEOREM AuditedMutationCorrect == Spec => ImplementsAuditedMutation
<1>1. ClaimInv /\ [Next]_vars => [AM!Next]_(AM!mutationVars)
  BY StepRefines DEF AbstractStep
<1> QED
  BY <1>1, ClaimInit, ClaimStep, InitRefines, PTL DEF Spec, ImplementsAuditedMutation, AM!Spec

--------------------------------------------------------------------------------
(***************************************************************************)
(* What was reviewed is what is done, as long as nobody raced it.          *)
(***************************************************************************)

\* A removal or a restore past its preflight, or still on its way to OpenBao.
Committed(r) ==
    op[r] \in Reviewed /\ (stage[r] \in {"audit", "send", "wait"} \/ flight[r] = "sent")

\* The preflight compared the form with what it read.  The voters it counted are
\* still the voters while the configuration index stands.
Compared(r) ==
    /\ form[r].index = view[r].index
    /\ op[r] \in Restoring => form[r].id = view[r].id
    /\ op[r] = "remove" => form[r].peer # view[r].leader
    /\ op[r] = "remove" /\ view[r].index = index /\ form[r].peer \in voters =>
           Cardinality(voters) > 3

ReviewOf(r) ==
    /\ view[r].index <= index
    /\ stage[r] = "init" => op[r] \notin Reviewed
    /\ Committed(r) => Compared(r)

ReviewInv == ClaimInv /\ \A r \in Request : ReviewOf(r)

\* Initially nothing has been reviewed.
LEMMA ReviewInit == Init => ReviewInv
<1> SUFFICES ASSUME Init, NEW r \in Request PROVE ReviewOf(r)
  BY ClaimInit DEF ReviewInv
<1>1. view[r] = [id |-> clusterId, index |-> 0, leader |-> Self]
  BY DEF Init
<1> QED
  BY <1>1 DEF Init, ReviewOf, Committed

\* The index never falls, and stands only while the voters do.
LEMMA IndexStep ==
    ASSUME TypeOK, [Next]_vars
    PROVE  index' \in Nat /\ ((index' = index /\ voters' = voters) \/ index' = index + 1)
<1> USE DEF TypeOK
<1>1. CASE Elsewhere
  BY <1>1 DEF Elsewhere
<1>2. CASE \E r \in Request : Begin(r)
  BY <1>2 DEF Begin, Initialize, JoinRaft, Unseal, Seal, DownloadRaftSnapshot, State, Health,
     Capabilities, RemoveRaftPeer, RestoreRaftSnapshot, Submit, baoVars
<1>3. CASE \E r \in Request : Work(r) \/ Crash(r)
  BY <1>3 DEF Work, SealStatus, InitializationStatus, LeaderStatus, RaftConfiguration, Survey,
     ReadFails, ReadUnknown, Authorize, AuthorizeFails, AuthorizeLost, Send, SendFails,
     ReplyAccepted, ReplyRefused, NoVerdict, ReplyUnparsed, Complete, Fail, Unknown, Conclude,
     OpenSnapshot, EndStream, Observe, ObserveFails, ObserveLost, Crash, baoVars
<1>4. CASE \E r \in Request : OpenBao(r)
  <2>1. PICK r \in Request : OpenBao(r)
    BY <1>4
  <2>2. CASE BootNode(r) \/ DropPeer(r)
    BY <2>2 DEF BootNode, DropPeer
  <2>3. CASE TurnSeal(r) \/ RestoreData(r) \/ UNCHANGED baoVars
    BY <2>3 DEF TurnSeal, RestoreData, raftVars, baoVars
  <2> QED
    BY <2>1, <2>2, <2>3 DEF OpenBao, Execute, Refuse, Lose
<1>5. CASE UNCHANGED vars
  BY <1>5 DEF vars
<1> QED
  BY <1>1, <1>2, <1>3, <1>4, <1>5 DEF Next

\* A request that keeps its form and view, and enters no stage that commits it to
\* its review, keeps its review.
LEMMA ReviewFrame ==
    ASSUME ReviewInv, [Next]_vars, NEW q \in Request,
           op'[q] = op[q], form'[q] = form[q], view'[q] = view[q],
           stage'[q] = "init" => stage[q] = "init",
           Committed(q)' => Committed(q)
    PROVE  ReviewOf(q)'
<1>1. TypeOK /\ ReviewOf(q)
  BY DEF ReviewInv, ClaimInv
<1>2. view[q].index \in Nat /\ index \in Nat
  BY <1>1 DEF TypeOK, View
<1>3. index' \in Nat /\ ((index' = index /\ voters' = voters) \/ index' = index + 1)
  BY <1>1, IndexStep
<1>4. (view[q].index <= index)'
  BY <1>1, <1>2, <1>3 DEF ReviewOf
<1>5. Committed(q)' => Compared(q)'
  <2> SUFFICES ASSUME Committed(q)' PROVE Compared(q)'
    OBVIOUS
  <2>1. Compared(q)
    BY <1>1 DEF ReviewOf
  <2>2. CASE index' = index /\ voters' = voters
    BY <2>1, <2>2 DEF Compared
  <2>3. CASE index' = index + 1
    <3>1. view[q].index # index'
      BY <1>1, <1>2, <2>3 DEF ReviewOf
    <3> QED
      BY <2>1, <3>1 DEF Compared
  <2> QED
    BY <1>3, <2>2, <2>3
<1> QED
  BY <1>1, <1>4, <1>5 DEF ReviewOf

\* The preflight's last read compares the form with what it returns.
LEMMA ConfigurationReview ==
    ASSUME ReviewInv, NEW r \in Request, RaftConfiguration(r)
    PROVE  ReviewOf(r)'
<1>1. TypeOK /\ Claims(r) /\ view[r] \in View
  BY DEF ReviewInv, ClaimInv, TypeOK
<1>2. /\ stage[r] = "raft" /\ UNCHANGED <<op, form, flight, index, leader, voters>>
      /\ \/ ConfigurationReady(r)
         \/ stage'[r] = "fail"
      /\ stage'[r] # "init"
  BY <1>1 DEF RaftConfiguration, Proceed, Raise, Goto, baoVars, TypeOK
<1>3. /\ view'[r].index = index /\ view'[r].leader = leader /\ view'[r].id = view[r].id
  BY <1>1 DEF RaftConfiguration, TypeOK, View
<1>4. flight'[r] = "none"
  BY <1>1, <1>2 DEF Claims, Unsent, Early, Reading
<1>5. (view[r].index <= index)'
  BY <1>1, <1>2, <1>3 DEF TypeOK
<1>6. ASSUME Committed(r)' PROVE Compared(r)'
  <2>1. ConfigurationReady(r) /\ op[r] \in Reviewed
    BY <1>2, <1>4, <1>6 DEF Committed
  <2>2. CASE op[r] = "remove"
    <3>1. form[r].index = index /\ form[r].peer # leader
      BY <2>1, <2>2 DEF ConfigurationReady, RemovalSafe
    <3>2. form[r].peer \in voters => Cardinality(voters) > 3
      BY <2>1, <2>2 DEF ConfigurationReady, RemovalSafe
    <3> QED
      BY <1>2, <1>3, <2>2, <3>1, <3>2 DEF Compared, Restoring
  <2>3. CASE op[r] # "remove"
    <3>1. form[r].index = index /\ form[r].id = view[r].id
      BY <2>1, <2>3 DEF ConfigurationReady, FreshRaftState
    <3> QED
      BY <1>2, <1>3, <2>3, <3>1 DEF Compared
  <2> QED
    BY <2>2, <2>3
<1> QED
  BY <1>2, <1>5, <1>6 DEF ReviewOf

\* The first read of a request names the cluster; nothing is committed yet.
LEMMA SealReview ==
    ASSUME ReviewInv, NEW r \in Request, SealStatus(r)
    PROVE  ReviewOf(r)'
<1>1. TypeOK /\ Claims(r) /\ ReviewOf(r) /\ view[r] \in View
  BY DEF ReviewInv, ClaimInv, TypeOK
<1>2. /\ stage[r] = "seal" /\ UNCHANGED <<op, form, flight, index, voters>>
      /\ stage'[r] \in {AfterSeal(op[r]), "fail"}
  BY <1>1 DEF SealStatus, Proceed, Raise, Goto, baoVars, TypeOK
<1>3. view'[r].index = view[r].index
  BY <1>1 DEF SealStatus, TypeOK, View
<1>4. flight'[r] = "none"
  BY <1>1, <1>2 DEF Claims, Unsent, Early, Reading
<1>5. op[r] \in Reviewed => stage'[r] \in {"leader", "fail"}
  BY <1>2 DEF AfterSeal, Reviewed, Restoring, Bootstrap, Unsealing
<1> QED
  BY <1>1, <1>2, <1>3, <1>4, <1>5 DEF ReviewOf, Committed

\* A submitted form is compared only later.
LEMMA BeginReview ==
    ASSUME ReviewInv, NEW r \in Request, Begin(r)
    PROVE  ReviewOf(r)'
<1>1. TypeOK /\ Claims(r) /\ ReviewOf(r)
  BY DEF ReviewInv, ClaimInv
<1>2. /\ stage[r] = "idle" /\ stage'[r] \in {"seal", "probe"}
      /\ UNCHANGED <<view, flight, index>>
  BY <1>1 DEF Begin, Initialize, JoinRaft, Unseal, Seal, DownloadRaftSnapshot, State, Health,
     Capabilities, RemoveRaftPeer, RestoreRaftSnapshot, Submit, Goto, baoVars, TypeOK
<1>3. flight[r] = "none"
  BY <1>1, <1>2 DEF Claims, Unsent, Early
<1> QED
  BY <1>1, <1>2, <1>3 DEF ReviewOf, Committed

\* Past the reads a view never touches its form or what it read.
LEMMA LaterReview ==
    ASSUME ReviewInv, NEW r \in Request, (Work(r) \/ Crash(r)) \/ OpenBao(r),
           ~SealStatus(r), ~RaftConfiguration(r)
    PROVE  ReviewOf(r)'
<1>1. TypeOK /\ Claims(r) /\ ReviewOf(r) /\ [Next]_vars
  BY DEF ReviewInv, ClaimInv, Next
<1>2. UNCHANGED <<op, form, view>>
  BY DEF Work, InitializationStatus, LeaderStatus, Survey,
     ReadFails, ReadUnknown, Authorize, AuthorizeFails, AuthorizeLost, Send, SendFails,
     ReplyAccepted, ReplyRefused, NoVerdict, ReplyUnparsed, Complete, Fail, Unknown, Conclude,
     OpenSnapshot, EndStream, Observe, ObserveFails, ObserveLost, Crash,
     OpenBao, Execute, Refuse, Lose, Arrive
<1>3. CASE OpenBao(r)
  <2>1. UNCHANGED stage /\ flight[r] = "sent"
    BY <1>3 DEF OpenBao, Execute, Refuse, Lose, Arrive
  <2>2. Committed(r)' => Committed(r)
    BY <1>2, <2>1 DEF Committed
  <2> QED
    BY <1>1, <1>2, <2>1, <2>2, ReviewFrame
<1>4. CASE InitializationStatus(r) \/ LeaderStatus(r)
  <2>1. /\ UNCHANGED flight /\ stage'[r] \in {"audit", "raft", "fail"}
        /\ op[r] \in Reviewed => stage'[r] \in {"raft", "fail"}
    BY <1>1, <1>4 DEF InitializationStatus, LeaderStatus, Proceed, Raise, Goto, TypeOK, ReviewOf
  <2>2. Committed(r)' => Committed(r)
    BY <1>2, <2>1 DEF Committed
  <2> QED
    BY <1>1, <1>2, <2>1, <2>2, ReviewFrame
<1>5. CASE Send(r)
  <2>1. stage[r] = "send" /\ stage'[r] = "wait"
    BY <1>1, <1>5 DEF Send, Goto, TypeOK
  <2>2. Committed(r)' => Committed(r)
    BY <1>2, <2>1 DEF Committed
  <2> QED
    BY <1>1, <1>2, <2>1, <2>2, ReviewFrame
<1>6. CASE Authorize(r)
  <2>1. stage[r] = "audit" /\ stage'[r] \in {"open", "send"}
    BY <1>1, <1>6 DEF Authorize, Goto, TypeOK
  <2>2. Committed(r)' => Committed(r)
    BY <1>2, <2>1 DEF Committed
  <2> QED
    BY <1>1, <1>2, <2>1, <2>2, ReviewFrame
<1>7. ASSUME (Work(r) \/ Crash(r)), ~InitializationStatus(r), ~LeaderStatus(r), ~Send(r), ~Authorize(r)
      PROVE  ReviewOf(r)'
  <2>1. UNCHANGED flight /\ stage'[r] \in {"observe", "unknown", "complete", "fail", "stream", "done", "dead"}
    BY <1>1, <1>7 DEF Work, Survey,
     ReadFails, ReadUnknown, AuthorizeFails, AuthorizeLost, SendFails,
     ReplyAccepted, ReplyRefused, NoVerdict, ReplyUnparsed, Complete, Fail, Unknown, Conclude,
     OpenSnapshot, EndStream, Observe, ObserveFails, ObserveLost, Crash,
     Proceed, Raise, Goto, TypeOK
  <2>2. Committed(r)' => Committed(r)
    BY <1>2, <2>1 DEF Committed
  <2> QED
    BY <1>1, <1>2, <2>1, <2>2, ReviewFrame
<1> QED
  BY <1>3, <1>4, <1>5, <1>6, <1>7

\* A step of one request leaves the others' forms, views and stages alone.
LEMMA OthersReview ==
    ASSUME ReviewInv, NEW r \in Request, Begin(r) \/ Work(r) \/ OpenBao(r) \/ Crash(r),
           NEW q \in Request, q # r
    PROVE  ReviewOf(q)'
<1>1. TypeOK /\ [Next]_vars
  BY DEF ReviewInv, ClaimInv, Next
<1>2. CASE Begin(r)
  <2>1. /\ op'[q] = op[q] /\ form'[q] = form[q] /\ view'[q] = view[q]
        /\ stage'[q] = stage[q] /\ flight'[q] = flight[q]
    BY <1>1, <1>2 DEF Begin, Initialize, JoinRaft, Unseal, Seal, DownloadRaftSnapshot, State,
       Health, Capabilities, RemoveRaftPeer, RestoreRaftSnapshot, Submit, Goto, TypeOK
  <2> QED
    BY <1>1, <2>1, ReviewFrame DEF Committed
<1>3. CASE OpenBao(r)
  <2>1. UNCHANGED <<op, form, view, stage>> /\ flight'[q] = flight[q]
    BY <1>1, <1>3 DEF OpenBao, Execute, Refuse, Lose, Arrive, TypeOK
  <2> QED
    BY <1>1, <2>1, ReviewFrame DEF Committed
<1>4. CASE Work(r) \/ Crash(r)
  <2>1. UNCHANGED <<op, form>> /\ stage'[q] = stage[q] /\ flight'[q] = flight[q]
    BY <1>1, <1>4 DEF Work, SealStatus, InitializationStatus, LeaderStatus, RaftConfiguration, Survey,
     ReadFails, ReadUnknown, Authorize, AuthorizeFails, AuthorizeLost, Send, SendFails,
     ReplyAccepted, ReplyRefused, NoVerdict, ReplyUnparsed, Complete, Fail, Unknown, Conclude,
     OpenSnapshot, EndStream, Observe, ObserveFails, ObserveLost, Crash,
     Proceed, Raise, Goto, TypeOK
  <2>2. view'[q] = view[q]
    BY <1>1, <1>4 DEF Work, SealStatus, InitializationStatus, LeaderStatus, RaftConfiguration, Survey,
     ReadFails, ReadUnknown, Authorize, AuthorizeFails, AuthorizeLost, Send, SendFails,
     ReplyAccepted, ReplyRefused, NoVerdict, ReplyUnparsed, Complete, Fail, Unknown, Conclude,
     OpenSnapshot, EndStream, Observe, ObserveFails, ObserveLost, Crash, TypeOK
  <2> QED
    BY <1>1, <2>1, <2>2, ReviewFrame DEF Committed
<1> QED
  BY <1>2, <1>3, <1>4

\* ReviewInv is inductive.
LEMMA ReviewStep == ReviewInv /\ [Next]_vars => ReviewInv'
<1> SUFFICES ASSUME ReviewInv, [Next]_vars, NEW q \in Request PROVE ReviewOf(q)'
  BY ClaimStep DEF ReviewInv
<1>1. CASE Elsewhere \/ UNCHANGED vars
  <2>1. UNCHANGED <<op, form, view, stage, flight>>
    BY <1>1 DEF Elsewhere, requestVars, vars
  <2> QED
    BY <2>1, ReviewFrame DEF Committed
<1>2. ASSUME NEW r \in Request, Begin(r) \/ Work(r) \/ OpenBao(r) \/ Crash(r)
      PROVE  ReviewOf(q)'
  <2>1. CASE q # r
    BY <1>2, <2>1, OthersReview
  <2>2. ReviewOf(r)'
    <3>1. CASE Begin(r)
      BY <3>1, BeginReview
    <3>2. CASE SealStatus(r)
      BY <3>2, SealReview
    <3>3. CASE RaftConfiguration(r)
      BY <3>3, ConfigurationReview
    <3>4. CASE ~Begin(r) /\ ~SealStatus(r) /\ ~RaftConfiguration(r)
      BY <1>2, <3>4, LaterReview
    <3> QED
      BY <3>1, <3>2, <3>3, <3>4
  <2> QED
    BY <2>1, <2>2
<1> QED
  BY <1>1, <1>2 DEF Next

\* Only OpenBao's own step carries a mutation out.
LEMMA ActsExecute ==
    ASSUME TypeOK, [Next]_vars, NEW r \in Request, Acts(r)
    PROVE  Execute(r)
<1> USE DEF Acts, TypeOK
<1>1. ASSUME UNCHANGED flight PROVE FALSE
  BY <1>1
<1>2. ASSUME Elsewhere \/ UNCHANGED vars PROVE FALSE
  BY <1>2 DEF Elsewhere, requestVars, vars
<1>3. ASSUME NEW q \in Request, Begin(q) PROVE FALSE
  BY <1>1, <1>3 DEF Begin, Initialize, JoinRaft, Unseal, Seal, DownloadRaftSnapshot, State,
     Health, Capabilities, RemoveRaftPeer, RestoreRaftSnapshot, Submit
<1>4. ASSUME NEW q \in Request, Work(q) \/ Crash(q) PROVE FALSE
  <2>1. CASE Send(q)
    BY <2>1 DEF Send
  <2>2. CASE ~Send(q)
    BY <1>1, <1>4, <2>2 DEF Work, SealStatus, InitializationStatus, LeaderStatus, RaftConfiguration,
     Survey, ReadFails, ReadUnknown, Authorize, AuthorizeFails, AuthorizeLost, SendFails,
     ReplyAccepted, ReplyRefused, NoVerdict, ReplyUnparsed, Complete, Fail, Unknown, Conclude,
     OpenSnapshot, EndStream, Observe, ObserveFails, ObserveLost, Crash
  <2> QED
    BY <2>1, <2>2
<1>5. ASSUME NEW q \in Request, OpenBao(q) PROVE Execute(r)
  <2>1. CASE Execute(q)
    BY <2>1 DEF Execute, Arrive
  <2>2. CASE Refuse(q) \/ Lose(q)
    BY <2>2 DEF Refuse, Lose, Arrive
  <2> QED
    BY <1>5, <2>1, <2>2 DEF OpenBao
<1> QED
  BY <1>2, <1>3, <1>4, <1>5 DEF Next

\* A removal or a restore that nobody raced acts on the reviewed state, spares the
\* leader and leaves at least three voters, for any number of peers and requests.
THEOREM ReviewedCorrect == Spec => UnracedActsOnReviewed
<1>1. ASSUME ReviewInv, [Next]_vars, NEW r \in Request,
             Acts(r), op[r] \in Reviewed, Unraced(r)
      PROVE  /\ form[r].index = index
             /\ op[r] \in Restoring => form[r].id = clusterId
             /\ op[r] = "remove" =>
                  /\ form[r].peer # leader
                  /\ form[r].peer \in voters => Cardinality(voters') >= 3
  <2>1. TypeOK /\ ReviewOf(r) /\ Execute(r)
    BY <1>1, ActsExecute DEF ReviewInv, ClaimInv
  <2>2. Compared(r)
    BY <1>1, <2>1 DEF ReviewOf, Committed, Acts
  <2>3. /\ form[r].index = index
        /\ op[r] \in Restoring => form[r].id = clusterId
        /\ op[r] = "remove" => form[r].peer # leader
    BY <1>1, <2>2 DEF Compared, Unraced
  <2>4. ASSUME op[r] = "remove", form[r].peer \in voters
        PROVE  Cardinality(voters') >= 3
    <3>1. Cardinality(voters) > 3
      BY <1>1, <2>2, <2>4 DEF Compared, Unraced
    <3>2. voters' = voters \ {form[r].peer}
      BY <2>1, <2>4 DEF Execute, BootNode, TurnSeal, DropPeer, RestoreData, Bootstrap, Restoring
    <3>3. IsFiniteSet(voters)
      BY <2>1, FS_Subset DEF TypeOK
    <3>4. Cardinality(voters') = Cardinality(voters) - 1 /\ Cardinality(voters) \in Nat
      BY <2>4, <3>2, <3>3, FS_RemoveElement, FS_CardinalityType
    <3> QED
      BY <3>1, <3>4
  <2> QED
    BY <2>3, <2>4
<1>2. ReviewInv /\ [Next]_vars =>
        [\A r \in Request :
          Acts(r) /\ op[r] \in Reviewed /\ Unraced(r) =>
             /\ form[r].index = index
             /\ op[r] \in Restoring => form[r].id = clusterId
             /\ op[r] = "remove" =>
                  /\ form[r].peer # leader
                  /\ form[r].peer \in voters => Cardinality(voters') >= 3]_vars
  BY <1>1
<1> QED
  BY <1>2, ReviewInit, ReviewStep, PTL DEF Spec, UnracedActsOnReviewed

================================================================================
