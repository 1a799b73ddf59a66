---------------------------- MODULE AutomationProofs ----------------------------
(***************************************************************************)
(* Theorems about automation resolution, for every set of requests,        *)
(* dispatches, keys and scopes and every bound on versions: one delivery   *)
(* per dispatch, what leaves a delivery, and the evidence it leaves        *)
(* behind.                                                                 *)
(***************************************************************************)
EXTENDS AutomationResolution, TLAPS

USE AutomationAssumption

--------------------------------------------------------------------------------
(***************************************************************************)
(* Type correctness.                                                       *)
(***************************************************************************)

\* A call knows its dispatch from start to end, and a candidate has a key.
CallInv ==
    /\ \A r \in Request : pc[r] = "idle" <=> cur[r] = NoDispatch
    /\ row.staged # None => row.stagedKey \in Key

\* The type invariant, strengthened so that it is inductive.
TypeInv == TypeOK /\ CallInv

\* Initially every variable has its type.
LEMMA TypeInit == Init => TypeInv
<1> SUFFICES ASSUME Init PROVE TypeInv
  OBVIOUS
<1>1. PICK key \in Key, scope \in Scope :
        row = [live |-> 1, staged |-> None, key |-> key, stagedKey |-> NoKey, gate |-> "open",
               scope |-> scope]
  BY DEF Init
<1>2. TypeOK
  BY <1>1 DEF TypeOK, Init, None, PC, NotAdmitted, Gate
<1>3. CallInv
  BY <1>1 DEF CallInv, Init
<1> QED
  BY <1>2, <1>3 DEF TypeInv

\* A failing call keeps its dispatch and forgets its bundle.
LEMMA FailType ==
    ASSUME TypeInv, NEW r \in Request, pc[r] # "idle", Fail(r)
    PROVE  /\ pc' \in [Request -> PC] /\ bundle' \in [Request -> Key \cup {NoKey}]
           /\ cur' = cur /\ ver' = ver
           /\ \A q \in Request : pc'[q] = "idle" <=> cur'[q] = NoDispatch
BY DEF TypeInv, TypeOK, CallInv, Fail, Goto, PC

\* A finished call has no locals left.
LEMMA DoneType ==
    ASSUME TypeInv, NEW r \in Request, Done(r)
    PROVE  /\ pc' \in [Request -> PC] /\ bundle' \in [Request -> Key \cup {NoKey}]
           /\ cur' \in [Request -> Dispatch \cup {NoDispatch}] /\ ver' \in [Request -> 0..MaxVersion]
           /\ revoked' \in [Request -> BOOLEAN]
           /\ \A q \in Request : pc'[q] = "idle" <=> cur'[q] = NoDispatch
BY DEF TypeInv, TypeOK, CallInv, Done, Goto, PC, None

\* Every step of a call keeps the types.
LEMMA RequestType ==
    ASSUME TypeInv, NEW r \in Request, RequestStep(r) \/ Crash(r)
    PROVE  TypeInv'
<1> USE DEF TypeInv, TypeOK, CallInv, worldVars, admitVars, storeVars, histVars
<1>0. pc[r] # "idle" => cur[r] \in Dispatch
  OBVIOUS
<1>1. CASE Reserve(r)
  BY <1>1, <1>0 DEF Reserve, Goto, PC
<1>2. CASE ReserveRefused(r)
  BY <1>2, FailType DEF ReserveRefused
<1>3. CASE OpenDelivery(r)
  BY <1>3 DEF OpenDelivery, Goto, PC, Working
<1>4. CASE DeliveryRefused(r)
  BY <1>4, FailType DEF DeliveryRefused
<1>5. CASE SendRead(r)
  BY <1>5 DEF SendRead, Goto, PC, Working
<1>6. CASE ReadBundle(r)
  <2>1. seen' \subseteq Dispatch /\ revoked' \in [Request -> BOOLEAN]
    BY <1>6, <1>0 DEF ReadBundle
  <2>2. CASE ApprovedBundle(r)
    <3>1. content[ver[r]] \in Key \cup {NoKey}
      BY <2>2, <1>6, <1>0 DEF ApprovedBundle, ReadBundle, NotAdmitted
    <3>2. Goto(r, "checking") /\ bundle' = [bundle EXCEPT ![r] = content[ver[r]]]
          /\ UNCHANGED <<cur, ver, worldVars, admitVars, storeVars, answers, excused>>
      BY <2>2, <1>6 DEF ReadBundle
    <3>3. bundle' \in [Request -> Key \cup {NoKey}] /\ pc' \in [Request -> PC]
      BY <3>1, <3>2 DEF Goto, PC, Working
    <3>4. \A q \in Request : pc'[q] = "idle" <=> cur'[q] = NoDispatch
      BY <3>2, <1>6 DEF Goto, ReadBundle
    <3> QED
      BY <2>1, <3>2, <3>3, <3>4
  <2>3. CASE ~ApprovedBundle(r)
    BY <2>1, <2>3, <1>6, FailType DEF ReadBundle
  <2> QED
    BY <2>2, <2>3
<1>7. CASE FinalCheck(r)
  BY <1>7 DEF FinalCheck, Goto, PC, Working
<1>8. CASE DeliveryFails(r)
  BY <1>8, FailType DEF DeliveryFails, Working
<1>9. CASE CommitDelivery(r)
  <2>1. cur[r] \in Dispatch /\ Done(r)
    BY <1>9, <1>0 DEF CommitDelivery
  <2>2. success' \subseteq Dispatch /\ answers' \in [Dispatch -> Nat]
    BY <1>9, <2>1 DEF CommitDelivery
  <2>3. UNCHANGED <<worldVars, admitVars, receipt, failure, seen, excused>>
    BY <1>9 DEF CommitDelivery
  <2> QED
    BY <2>1, <2>2, <2>3, DoneType
<1>10. ASSUME NEW b \in BOOLEAN, ReserveUnknown(r, b) PROVE TypeInv'
  BY <1>10, <1>0, FailType DEF ReserveUnknown
<1>11. ASSUME NEW b \in BOOLEAN, CommitUnknown(r, b) PROVE TypeInv'
  BY <1>11, <1>0, FailType DEF CommitUnknown
<1>12. ASSUME NEW b \in BOOLEAN, RecordFailure(r, b) PROVE TypeInv'
  BY <1>12, <1>0, DoneType DEF RecordFailure, FailureLogged
<1>13. CASE Crash(r)
  BY <1>13, <1>0, DoneType DEF Crash
<1> QED
  BY <1>1, <1>2, <1>3, <1>4, <1>5, <1>6, <1>7, <1>8, <1>9, <1>10, <1>11, <1>12, <1>13
  DEF RequestStep

RowType == [live: 1..MaxVersion, staged: 0..MaxVersion, key: Key,
            stagedKey: Key \cup {NoKey}, gate: Gate, scope: Scope]

\* A row whose candidate is replaced or cleared is legal, and so is one whose live
\* pointer moves.
LEMMA RowEdit ==
    ASSUME NEW old \in RowType, NEW live \in 1..MaxVersion, NEW staged \in 0..MaxVersion,
           NEW key \in Key, NEW stagedKey \in Key \cup {NoKey}
    PROVE  /\ [old EXCEPT !.live = live, !.staged = staged, !.key = key, !.stagedKey = stagedKey]
                 \in RowType
           /\ [old EXCEPT !.live = live, !.staged = staged, !.key = key, !.stagedKey = stagedKey]
                 .staged = staged
           /\ [old EXCEPT !.staged = staged, !.stagedKey = stagedKey] \in RowType
           /\ [old EXCEPT !.staged = staged, !.stagedKey = stagedKey].staged = staged
           /\ [old EXCEPT !.staged = staged, !.stagedKey = stagedKey].stagedKey = stagedKey
BY DEF RowType

\* The facts a writer starts from.
LEMMA RowFacts ==
    ASSUME TypeInv
    PROVE  /\ row \in RowType /\ None \in 0..MaxVersion /\ NoKey \in Key \cup {NoKey}
           /\ \A key \in Key : key \in Key \cup {NoKey}
           /\ \A v \in 1..MaxVersion : v \in 0..MaxVersion
BY DEF TypeInv, TypeOK, RowType, None

\* A save of a legal row keeps the types of what it does not touch.
LEMMA SaveType ==
    ASSUME TypeInv, NEW new \in RowType, new.staged # None => new.stagedKey \in Key,
           SaveRow(new), counter' \in 1..MaxVersion,
           content' \in [1..MaxVersion -> Key \cup {NoKey}]
    PROVE  TypeInv'
BY DEF TypeInv, TypeOK, CallInv, RowType, SaveRow, admitVars, storeVars, reqVars, histVars

\* Every step of the world keeps the types.
LEMMA WorldType == ASSUME TypeInv, WorldStep PROVE TypeInv'
<1> USE DEF TypeInv, TypeOK, CallInv, admitVars, storeVars, reqVars, histVars
<1>1. ASSUME NEW key \in Key, RotateMaterial(key) PROVE TypeInv'
  <2> DEFINE new == [row EXCEPT !.live = NextVersion, !.staged = None, !.key = key,
                                !.stagedKey = NoKey]
  <2>1. counter + 1 \in 1..MaxVersion /\ NextVersion \in 1..MaxVersion
    BY <1>1 DEF RotateMaterial, WriteVersion, Room, NextVersion
  <2>2. new \in RowType /\ new.staged = None
    BY <2>1, RowFacts, RowEdit, Zenon
  <2>3. counter' \in 1..MaxVersion /\ content' \in [1..MaxVersion -> Key \cup {NoKey}]
    BY <1>1, <2>1 DEF RotateMaterial, WriteVersion
  <2>4. SaveRow(new)
    BY <1>1 DEF RotateMaterial
  <2> HIDE DEF new
  <2> QED
    BY <2>2, <2>3, <2>4, SaveType
<1>2. ASSUME NEW key \in Key, StageMaterial(key) PROVE TypeInv'
  <2> DEFINE new == [row EXCEPT !.staged = NextVersion, !.stagedKey = key]
  <2>1. counter + 1 \in 1..MaxVersion /\ NextVersion \in 1..MaxVersion
    BY <1>2 DEF StageMaterial, WriteVersion, Room, NextVersion
  <2>2. new \in RowType /\ new.stagedKey \in Key
    BY <2>1, RowFacts, RowEdit, Zenon
  <2>3. counter' \in 1..MaxVersion /\ content' \in [1..MaxVersion -> Key \cup {NoKey}]
    BY <1>2, <2>1 DEF StageMaterial, WriteVersion
  <2>4. SaveRow(new)
    BY <1>2 DEF StageMaterial
  <2> HIDE DEF new
  <2> QED
    BY <2>2, <2>3, <2>4, SaveType
<1>3. CASE PromoteStaged
  <2> DEFINE new == [row EXCEPT !.live = row.staged, !.staged = None, !.key = row.stagedKey,
                                !.stagedKey = NoKey]
  <2>1. row.staged \in 1..MaxVersion /\ row.stagedKey \in Key
    BY <1>3 DEF PromoteStaged, None
  <2>2. new \in RowType /\ new.staged = None
    BY <2>1, RowFacts, RowEdit, Zenon
  <2>3. SaveRow(new) /\ UNCHANGED <<content, counter>>
    BY <1>3 DEF PromoteStaged
  <2> HIDE DEF new
  <2> QED
    BY <2>2, <2>3, SaveType
<1>4. CASE DiscardStaged
  <2> DEFINE new == [row EXCEPT !.staged = None, !.stagedKey = NoKey]
  <2>2. new \in RowType /\ new.staged = None
    BY RowFacts, RowEdit, Zenon
  <2>3. SaveRow(new) /\ UNCHANGED <<content, counter>>
    BY <1>4 DEF DiscardStaged
  <2> HIDE DEF new
  <2> QED
    BY <2>2, <2>3, SaveType
<1>5. ASSUME NEW gate \in Gate, NEW scope \in Scope, EditRow(gate, scope) PROVE TypeInv'
  <2> DEFINE new == [row EXCEPT !.gate = gate, !.scope = scope]
  <2>2. new \in RowType /\ (new.staged # None => new.stagedKey \in Key)
    BY DEF RowType, None
  <2>3. SaveRow(new) /\ UNCHANGED <<content, counter>>
    BY <1>5 DEF EditRow
  <2> HIDE DEF new
  <2> QED
    BY <2>2, <2>3, SaveType
<1>6. ASSUME NEW k \in Dispatch, Revoke(k) PROVE TypeInv'
  BY <1>6 DEF Revoke
<1>7. ASSUME NEW k \in Dispatch, Restore(k) PROVE TypeInv'
  BY <1>7 DEF Restore
<1>8. ASSUME NEW v \in 1..MaxVersion, NEW key \in Key, Substitute(v, key) PROVE TypeInv'
  BY <1>8 DEF Substitute
<1> QED
  BY <1>1, <1>2, <1>3, <1>4, <1>5, <1>6, <1>7, <1>8 DEF WorldStep

\* Every step keeps the types.
LEMMA TypeStep == TypeInv /\ [Next]_vars => TypeInv'
<1> SUFFICES ASSUME TypeInv, [Next]_vars PROVE TypeInv'
  OBVIOUS
<1>1. ASSUME NEW k \in Dispatch, NEW pinned \in BOOLEAN, Admit(k, pinned) PROVE TypeInv'
  BY <1>1 DEF TypeInv, TypeOK, CallInv, Admit, Identity, None, worldVars, storeVars, reqVars, histVars
<1>2. ASSUME NEW r \in Request, NEW k \in Dispatch, Resolve(r, k) PROVE TypeInv'
  BY <1>2 DEF TypeInv, TypeOK, CallInv, Resolve, Goto, PC, worldVars, admitVars, storeVars, histVars
<1>3. ASSUME NEW r \in Request, RequestStep(r) \/ Crash(r) PROVE TypeInv'
  BY <1>3, RequestType
<1>4. CASE WorldStep
  BY <1>4, WorldType
<1>5. CASE UNCHANGED vars
  BY <1>5 DEF TypeInv, TypeOK, CallInv, vars, worldVars, admitVars, storeVars, reqVars, histVars
<1> QED
  BY <1>1, <1>2, <1>3, <1>4, <1>5 DEF Next

\* Every variable keeps its type: a receipt names a real version, a frozen
\* identity a real scope and key.
THEOREM AutomationTypeCorrect == Spec => []TypeOK
<1>1. Spec => []TypeInv
  BY TypeInit, TypeStep, PTL DEF Spec
<1>2. TypeInv => TypeOK
  BY DEF TypeInv
<1> QED
  BY <1>1, <1>2, PTL

--------------------------------------------------------------------------------
(***************************************************************************)
(* Claims.                                                                 *)
(***************************************************************************)

\* A claim is exclusive, names its receipt and is not yet answered.
ClaimInv ==
    /\ \A r \in Request : Claiming(r) =>
          receipt[cur[r]] # None /\ receipt[cur[r]] = ver[r] /\ answers[cur[r]] = 0
    /\ \A r, q \in Request : Claiming(r) /\ Claiming(q) /\ cur[r] = cur[q] => r = q
    /\ \A k \in Dispatch : answers[k] > 0 => receipt[k] # None

\* What the world leaves alone; the row moves only while no delivery holds it.
LEMMA WorldFrame ==
    ASSUME WorldStep
    PROVE  /\ UNCHANGED <<frozen, pin, receipt, success, failure, pc, cur, ver, bundle>>
           /\ UNCHANGED <<answers, seen, excused>>
           /\ Held => row' = row
BY DEF WorldStep, RotateMaterial, StageMaterial, PromoteStaged, DiscardStaged, EditRow, SaveRow,
       Revoke, Restore, Substitute, admitVars, storeVars, reqVars, histVars

\* Initially nothing is claimed.
LEMMA ClaimInit == Init => ClaimInv
BY DEF Init, ClaimInv, Claiming, Working

\* A call that ends in failure gives up its claim, if it had one.
LEMMA FailClaims ==
    ASSUME TypeInv, ClaimInv, NEW r \in Request, Fail(r), receipt' = receipt, answers' = answers
    PROVE  ClaimInv'
BY DEF TypeInv, TypeOK, ClaimInv, Claiming, Working, Fail, Goto

\* A call that is over gives up its claim, if it had one.
LEMMA DoneClaims ==
    ASSUME TypeInv, ClaimInv, NEW r \in Request, Done(r), receipt' = receipt, answers' = answers
    PROVE  ClaimInv'
BY DEF TypeInv, TypeOK, ClaimInv, Claiming, Working, Done, Goto

\* The steps of a delivery keep its claim.
LEMMA MoveClaims ==
    ASSUME TypeInv, ClaimInv, NEW r \in Request, NEW to \in Working, Claiming(r), Goto(r, to),
           UNCHANGED <<cur, ver, receipt, answers>>
    PROVE  ClaimInv'
BY DEF TypeInv, TypeOK, ClaimInv, Claiming, Goto

\* Every step of a call keeps claims exclusive.
LEMMA RequestClaims ==
    ASSUME TypeInv, ClaimInv, NEW r \in Request, RequestStep(r) \/ Crash(r)
    PROVE  ClaimInv'
<1> USE DEF storeVars, histVars
<1>0. pc[r] # "idle" => cur[r] \in Dispatch
  BY DEF TypeInv, TypeOK, CallInv
<1>1. CASE Reserve(r)
  <2>1. receipt[cur[r]] = None /\ row.live # None
    BY <1>1 DEF Reserve, MayReserve, Unspent, Resolvable
  <2>2. answers[cur[r]] = 0
    BY <1>0, <1>1, <2>1 DEF Reserve, ClaimInv, TypeInv, TypeOK
  <2>3. \A q \in Request : Claiming(q) => cur[q] # cur[r]
    BY <2>1 DEF ClaimInv
  <2> QED
    BY <1>0, <1>1, <2>1, <2>2, <2>3
    DEF Reserve, Goto, ClaimInv, Claiming, Working, TypeInv, TypeOK, None
<1>2. CASE ReserveRefused(r)
  BY <1>2, FailClaims DEF ReserveRefused
<1>3. CASE OpenDelivery(r)
  BY <1>3, MoveClaims DEF OpenDelivery, Claiming, Working
<1>4. CASE DeliveryRefused(r)
  BY <1>4, FailClaims DEF DeliveryRefused
<1>5. CASE SendRead(r)
  BY <1>5, MoveClaims DEF SendRead, Claiming, Working
<1>6. CASE ReadBundle(r)
  BY <1>6, MoveClaims, FailClaims DEF ReadBundle, Claiming, Working
<1>7. CASE FinalCheck(r)
  BY <1>7, MoveClaims DEF FinalCheck, Claiming, Working
<1>8. CASE DeliveryFails(r)
  BY <1>8, FailClaims DEF DeliveryFails
<1>9. CASE CommitDelivery(r)
  <2>1. Claiming(r) /\ receipt' = receipt /\ Done(r)
        /\ answers' = [answers EXCEPT ![cur[r]] = @ + 1]
    BY <1>9 DEF CommitDelivery, Claiming, Working
  <2> QED
    BY <1>0, <1>9, <2>1
    DEF CommitDelivery, Done, Goto, ClaimInv, Claiming, Working, TypeInv, TypeOK
<1>10. ASSUME NEW b \in BOOLEAN, ReserveUnknown(r, b) PROVE ClaimInv'
  <2>1. receipt[cur[r]] = None /\ row.live # None
    BY <1>10 DEF ReserveUnknown, MayReserve, Unspent, Resolvable
  <2>2. \A q \in Request : Claiming(q) => cur[q] # cur[r]
    BY <2>1 DEF ClaimInv
  <2> QED
    BY <1>0, <1>10, <2>1, <2>2
    DEF ReserveUnknown, Fail, Goto, ClaimInv, Claiming, Working, TypeInv, TypeOK, None
<1>11. ASSUME NEW b \in BOOLEAN, CommitUnknown(r, b) PROVE ClaimInv'
  BY <1>11, FailClaims DEF CommitUnknown
<1>12. ASSUME NEW b \in BOOLEAN, RecordFailure(r, b) PROVE ClaimInv'
  BY <1>12, DoneClaims DEF RecordFailure
<1>13. CASE Crash(r)
  BY <1>13, DoneClaims DEF Crash
<1> QED
  BY <1>1, <1>2, <1>3, <1>4, <1>5, <1>6, <1>7, <1>8, <1>9, <1>10, <1>11, <1>12, <1>13
  DEF RequestStep

\* Every step keeps claims exclusive.
LEMMA ClaimStep == TypeInv /\ ClaimInv /\ [Next]_vars => ClaimInv'
<1> SUFFICES ASSUME TypeInv, ClaimInv, [Next]_vars PROVE ClaimInv'
  OBVIOUS
<1>1. ASSUME NEW k \in Dispatch, NEW pinned \in BOOLEAN, Admit(k, pinned) PROVE ClaimInv'
  BY <1>1 DEF ClaimInv, Claiming, Admit, worldVars, storeVars, reqVars, histVars
<1>2. ASSUME NEW r \in Request, NEW k \in Dispatch, Resolve(r, k) PROVE ClaimInv'
  BY <1>2 DEF ClaimInv, Claiming, Working, Resolve, Goto, storeVars, histVars, TypeInv, TypeOK
<1>3. ASSUME NEW r \in Request, RequestStep(r) \/ Crash(r) PROVE ClaimInv'
  BY <1>3, RequestClaims
<1>4. CASE WorldStep
  BY <1>4, WorldFrame DEF ClaimInv, Claiming
<1>5. CASE UNCHANGED vars
  BY <1>5 DEF ClaimInv, Claiming, vars, storeVars, reqVars, histVars
<1> QED
  BY <1>1, <1>2, <1>3, <1>4, <1>5 DEF Next

--------------------------------------------------------------------------------
(***************************************************************************)
(* Resolution implements one-use delivery.                                 *)
(***************************************************************************)

\* A step or a stutter of the abstract specification.
AbstractStep == [OneUse!Next]_(OneUse!oneUseVars)

\* Nobody's claim changes: a stutter.
LEMMA StateSame ==
    ASSUME receipt' = receipt, answers' = answers,
           \A q \in Request : Claiming(q)' <=> Claiming(q),
           \A q \in Request : Claiming(q) => cur'[q] = cur[q]
    PROVE  AbstractStep
<1>1. \A k \in Dispatch : State(k)' = State(k)
  BY DEF State
<1> QED
  BY <1>1 DEF AbstractStep, OneUse!oneUseVars

\* A call gives up its claim: the dispatch is burnt.
LEMMA StateBurn ==
    ASSUME TypeInv, ClaimInv, NEW r \in Request, Claiming(r), ~Claiming(r)', cur[r] \in Dispatch,
           receipt' = receipt, answers' = answers,
           \A q \in Request \ {r} : (Claiming(q)' <=> Claiming(q)) /\ cur'[q] = cur[q]
    PROVE  AbstractStep
<1>1. State(cur[r]) = "claimed"
  BY DEF State, ClaimInv
<1>2. \A q \in Request : Claiming(q)' => cur'[q] # cur[r]
  BY DEF ClaimInv
<1>3. \A k \in Dispatch : State(k)' = IF k = cur[r] THEN "burnt" ELSE State(k)
  BY <1>2 DEF State, ClaimInv
<1>4. OneUse!Burn(cur[r])
  BY <1>1, <1>3 DEF OneUse!Burn, OneUse!Move
<1> QED
  BY <1>4 DEF AbstractStep, OneUse!Next

\* A failing call burns its claim or had none.
LEMMA FailRefines ==
    ASSUME TypeInv, ClaimInv, NEW r \in Request, pc[r] # "idle", Fail(r),
           receipt' = receipt, answers' = answers
    PROVE  AbstractStep
<1>1. ~Claiming(r)' /\ cur' = cur /\ \A q \in Request \ {r} : pc'[q] = pc[q]
  BY DEF Fail, Goto, Claiming, Working, TypeInv, TypeOK
<1>2. \A q \in Request \ {r} : Claiming(q)' <=> Claiming(q)
  BY <1>1 DEF Claiming
<1>3. cur[r] \in Dispatch
  BY DEF TypeInv, TypeOK, CallInv
<1>4. CASE Claiming(r)
  BY <1>1, <1>2, <1>3, <1>4, StateBurn
<1>5. CASE ~Claiming(r)
  BY <1>1, <1>2, <1>5, StateSame
<1> QED
  BY <1>4, <1>5

\* So does a call that ends without an answer.
LEMMA DoneRefines ==
    ASSUME TypeInv, ClaimInv, NEW r \in Request, pc[r] # "idle", Done(r),
           receipt' = receipt, answers' = answers
    PROVE  AbstractStep
<1>1. ~Claiming(r)' /\ \A q \in Request \ {r} : pc'[q] = pc[q] /\ cur'[q] = cur[q]
  BY DEF Done, Goto, Claiming, Working, TypeInv, TypeOK
<1>2. \A q \in Request \ {r} : Claiming(q)' <=> Claiming(q)
  BY <1>1 DEF Claiming
<1>3. cur[r] \in Dispatch
  BY DEF TypeInv, TypeOK, CallInv
<1>4. CASE Claiming(r)
  BY <1>1, <1>2, <1>3, <1>4, StateBurn
<1>5. CASE ~Claiming(r)
  BY <1>1, <1>2, <1>5, StateSame
<1> QED
  BY <1>4, <1>5

\* The steps of a delivery are invisible.
LEMMA MoveRefines ==
    ASSUME TypeInv, NEW r \in Request, NEW to \in Working, Claiming(r), Goto(r, to),
           UNCHANGED <<cur, receipt, answers>>
    PROVE  AbstractStep
<1>1. \A q \in Request : Claiming(q)' <=> Claiming(q)
  BY DEF Goto, Claiming, TypeInv, TypeOK
<1> QED
  BY <1>1, StateSame

\* A reservation is a claim.
LEMMA ReserveRefines ==
    ASSUME TypeInv, ClaimInv, NEW r \in Request, Reserve(r)
    PROVE  AbstractStep
<1>0. cur[r] \in Dispatch
  BY DEF Reserve, TypeInv, TypeOK, CallInv
<1>1. receipt[cur[r]] = None /\ row.live # None
  BY DEF Reserve, MayReserve, Unspent, Resolvable
<1>2. answers' = answers /\ cur' = cur /\ receipt' = [receipt EXCEPT ![cur[r]] = row.live]
      /\ pc' = [pc EXCEPT ![r] = "reserved"]
  BY DEF Reserve, Goto, histVars
<1>3. State(cur[r]) = "unused"
  BY <1>0, <1>1 DEF State, ClaimInv
<1>4. Claiming(r)' /\ \A q \in Request \ {r} : Claiming(q)' <=> Claiming(q)
  BY <1>2 DEF Claiming, TypeInv, TypeOK
<1>5. answers[cur[r]] = 0
  BY <1>0, <1>1 DEF ClaimInv, TypeInv, TypeOK
<1>6. pc[r] = "authorized"
  BY DEF Reserve
<1>7. ~Claiming(r)
  BY <1>6 DEF Claiming, Working
<1>8. \A k \in Dispatch : State(k)' = IF k = cur[r] THEN "claimed" ELSE State(k)
  <2> SUFFICES ASSUME NEW k \in Dispatch
               PROVE  State(k)' = IF k = cur[r] THEN "claimed" ELSE State(k)
    OBVIOUS
  <2>1. CASE k = cur[r]
    BY <1>0, <1>1, <1>2, <1>4, <1>5, <2>1 DEF State, TypeInv, TypeOK
  <2>2. CASE k # cur[r]
    BY <1>0, <1>2, <1>4, <1>7, <2>2 DEF State, TypeInv, TypeOK
  <2> QED
    BY <2>1, <2>2
<1>9. OneUse!Claim(cur[r])
  BY <1>0, <1>2, <1>3, <1>8 DEF OneUse!Claim, OneUse!Move
<1> QED
  BY <1>0, <1>9 DEF AbstractStep, OneUse!Next

\* A reservation whose COMMIT answer is lost burns the dispatch, or nothing happened.
LEMMA UnknownRefines ==
    ASSUME TypeInv, ClaimInv, NEW r \in Request, NEW b \in BOOLEAN, ReserveUnknown(r, b)
    PROVE  AbstractStep
<1>0. cur[r] \in Dispatch /\ pc[r] = "authorized" /\ answers' = answers /\ Fail(r)
  BY DEF ReserveUnknown, TypeInv, TypeOK, CallInv, histVars
<1>1. receipt[cur[r]] = None /\ row.live # None
  BY DEF ReserveUnknown, MayReserve, Unspent, Resolvable
<1>2. CASE ~b
  BY <1>0, <1>2, FailRefines DEF ReserveUnknown
<1>3. CASE b
  <2>1. cur' = cur /\ \A q \in Request : Claiming(q)' <=> Claiming(q)
    BY <1>0 DEF Fail, Goto, Claiming, Working, TypeInv, TypeOK
  <2>2. receipt' = [receipt EXCEPT ![cur[r]] = row.live]
    BY <1>3 DEF ReserveUnknown
  <2>3. State(cur[r]) = "unused"
    BY <1>0, <1>1 DEF State, ClaimInv
  <2>4. \A q \in Request : Claiming(q) => cur[q] # cur[r]
    BY <1>1 DEF ClaimInv
  <2>5. answers[cur[r]] = 0
    BY <1>0, <1>1 DEF ClaimInv, TypeInv, TypeOK
  <2>6. \A k \in Dispatch : State(k)' = IF k = cur[r] THEN "burnt" ELSE State(k)
    <3> SUFFICES ASSUME NEW k \in Dispatch
                 PROVE  State(k)' = IF k = cur[r] THEN "burnt" ELSE State(k)
      OBVIOUS
    <3>1. CASE k = cur[r]
      BY <1>0, <1>1, <2>1, <2>2, <2>4, <2>5, <3>1 DEF State, TypeInv, TypeOK
    <3>2. CASE k # cur[r]
      BY <1>0, <2>1, <2>2, <3>2 DEF State, TypeInv, TypeOK
    <3> QED
      BY <3>1, <3>2
  <2>7. OneUse!Burn(cur[r])
    BY <1>0, <2>3, <2>6 DEF OneUse!Burn, OneUse!Move
  <2> QED
    BY <1>0, <2>7 DEF AbstractStep, OneUse!Next
<1> QED
  BY <1>2, <1>3

\* A committed delivery is the one answer.
LEMMA CommitRefines ==
    ASSUME TypeInv, ClaimInv, NEW r \in Request, CommitDelivery(r)
    PROVE  AbstractStep
<1>0. cur[r] \in Dispatch /\ Claiming(r) /\ Done(r) /\ receipt' = receipt
      /\ answers' = [answers EXCEPT ![cur[r]] = @ + 1]
  BY DEF CommitDelivery, TypeInv, TypeOK, CallInv, Claiming, Working
<1>1. answers[cur[r]] = 0 /\ receipt[cur[r]] # None
  BY <1>0 DEF ClaimInv
<1>2. answers' = [answers EXCEPT ![cur[r]] = 1]
  BY <1>0, <1>1
<1>3. State(cur[r]) = "claimed"
  BY <1>0, <1>1 DEF State
<1>4. ~Claiming(r)' /\ \A q \in Request \ {r} : (Claiming(q)' <=> Claiming(q)) /\ cur'[q] = cur[q]
  BY <1>0 DEF Done, Goto, Claiming, Working, TypeInv, TypeOK
<1>5. \A k \in Dispatch : State(k)' = IF k = cur[r] THEN "answered" ELSE State(k)
  <2> SUFFICES ASSUME NEW k \in Dispatch
               PROVE  State(k)' = IF k = cur[r] THEN "answered" ELSE State(k)
    OBVIOUS
  <2>1. CASE k = cur[r]
    BY <1>0, <1>2, <2>1 DEF State, TypeInv, TypeOK
  <2>2. CASE k # cur[r]
    BY <1>0, <1>2, <1>4, <2>2 DEF State, TypeInv, TypeOK
  <2> QED
    BY <2>1, <2>2
<1>6. OneUse!Answer(cur[r])
  BY <1>0, <1>2, <1>3, <1>5 DEF OneUse!Answer, OneUse!Move
<1> QED
  BY <1>0, <1>6 DEF AbstractStep, OneUse!Next

\* Every step of a call maps to an abstract step or a stutter.
LEMMA RequestRefines ==
    ASSUME TypeInv, ClaimInv, NEW r \in Request, RequestStep(r) \/ Crash(r)
    PROVE  AbstractStep
<1> USE DEF storeVars, histVars
<1>1. CASE Reserve(r)
  BY <1>1, ReserveRefines
<1>2. CASE ReserveRefused(r)
  BY <1>2, FailRefines DEF ReserveRefused
<1>3. CASE OpenDelivery(r)
  BY <1>3, MoveRefines DEF OpenDelivery, Claiming, Working
<1>4. CASE DeliveryRefused(r)
  BY <1>4, FailRefines DEF DeliveryRefused
<1>5. CASE SendRead(r)
  BY <1>5, MoveRefines DEF SendRead, Claiming, Working
<1>6. CASE ReadBundle(r)
  BY <1>6, MoveRefines, FailRefines DEF ReadBundle, Claiming, Working
<1>7. CASE FinalCheck(r)
  BY <1>7, MoveRefines DEF FinalCheck, Claiming, Working
<1>8. CASE DeliveryFails(r)
  BY <1>8, FailRefines DEF DeliveryFails, Working
<1>9. CASE CommitDelivery(r)
  BY <1>9, CommitRefines
<1>10. ASSUME NEW b \in BOOLEAN, ReserveUnknown(r, b) PROVE AbstractStep
  BY <1>10, UnknownRefines
<1>11. ASSUME NEW b \in BOOLEAN, CommitUnknown(r, b) PROVE AbstractStep
  BY <1>11, FailRefines DEF CommitUnknown
<1>12. ASSUME NEW b \in BOOLEAN, RecordFailure(r, b) PROVE AbstractStep
  BY <1>12, DoneRefines DEF RecordFailure
<1>13. CASE Crash(r)
  BY <1>13, DoneRefines DEF Crash
<1> QED
  BY <1>1, <1>2, <1>3, <1>4, <1>5, <1>6, <1>7, <1>8, <1>9, <1>10, <1>11, <1>12, <1>13
  DEF RequestStep

\* Initial states map to initial states.
LEMMA RefineInit == Init => OneUse!Init
<1> SUFFICES ASSUME Init PROVE OneUse!Init
  OBVIOUS
<1>1. \A k \in Dispatch : State(k) = "unused"
  BY DEF Init, State
<1> QED
  BY <1>1 DEF OneUse!Init, Init

\* Every step maps to an abstract step or a stutter.
LEMMA RefineStep == TypeInv /\ ClaimInv /\ [Next]_vars => AbstractStep
<1> SUFFICES ASSUME TypeInv, ClaimInv, [Next]_vars PROVE AbstractStep
  OBVIOUS
<1>1. ASSUME NEW k \in Dispatch, NEW pinned \in BOOLEAN, Admit(k, pinned) PROVE AbstractStep
  BY <1>1, StateSame DEF Claiming, Admit, storeVars, reqVars, histVars
<1>2. ASSUME NEW r \in Request, NEW k \in Dispatch, Resolve(r, k) PROVE AbstractStep
  <2>1. \A q \in Request : Claiming(q)' <=> Claiming(q)
    BY <1>2 DEF Claiming, Working, Resolve, Goto, TypeInv, TypeOK
  <2>2. \A q \in Request : Claiming(q) => cur'[q] = cur[q]
    BY <1>2 DEF Claiming, Working, Resolve, TypeInv, TypeOK
  <2> QED
    BY <1>2, <2>1, <2>2, StateSame DEF Resolve, storeVars, histVars
<1>3. ASSUME NEW r \in Request, RequestStep(r) \/ Crash(r) PROVE AbstractStep
  BY <1>3, RequestRefines
<1>4. CASE WorldStep
  BY <1>4, WorldFrame, StateSame DEF Claiming
<1>5. CASE UNCHANGED vars
  BY <1>5, StateSame DEF Claiming, vars, storeVars, reqVars, histVars
<1> QED
  BY <1>1, <1>2, <1>3, <1>4, <1>5 DEF Next

\* Whatever retries, lost COMMITs and crashes happen, a dispatch is answered at most
\* once and only by the call whose reservation claimed it; a dispatch spent without
\* an answer stays spent.
THEOREM OneUseCorrect == Spec => ImplementsOneUse
<1>1. TypeInv /\ ClaimInv /\ [Next]_vars => (TypeInv /\ ClaimInv)'
  BY TypeStep, ClaimStep
<1>2. Spec => [](TypeInv /\ ClaimInv)
  BY TypeInit, ClaimInit, <1>1, PTL DEF Spec
<1>3. TypeInv /\ ClaimInv /\ [Next]_vars => [OneUse!Next]_(OneUse!oneUseVars)
  BY RefineStep DEF AbstractStep
<1> QED
  BY <1>2, <1>3, RefineInit, PTL DEF Spec, ImplementsOneUse, OneUse!Spec

--------------------------------------------------------------------------------
(***************************************************************************)
(* The locks keep the checks of _deliver true until its COMMIT.            *)
(***************************************************************************)

\* While a delivery holds the graph its version is the live one, not the candidate,
\* and the pinned one; what it has read is the approved key; and a grant missing at
\* the read is still missing.
DeliverInv ==
    \A r \in Request :
        /\ pc[r] \in Working =>
              ver[r] = row.live /\ ver[r] # row.staged /\ pin[cur[r]] \in {None, ver[r]}
        /\ pc[r] \in {"checking", "committing"} => bundle[r] = frozen[cur[r]].key
        /\ pc[r] = "checking" /\ revoked[r] => ~granted[cur[r]]
        /\ pc[r] = "committing" => ~revoked[r]

\* Initially no delivery is open.
LEMMA DeliverInit == Init => DeliverInv
BY DEF Init, DeliverInv, Working

\* A call that fails or ends is no delivery any more.
LEMMA EndDelivers ==
    ASSUME TypeInv, DeliverInv, NEW r \in Request,
           (Fail(r) /\ UNCHANGED revoked) \/ Done(r),
           UNCHANGED <<row, granted, frozen, pin>>
    PROVE  DeliverInv'
<1>1. pc'[r] \notin Working \cup {"checking", "committing"}
  BY DEF Fail, Done, Goto, Working, TypeInv, TypeOK
<1>2. \A q \in Request \ {r} :
        pc'[q] = pc[q] /\ cur'[q] = cur[q] /\ ver'[q] = ver[q] /\ bundle'[q] = bundle[q]
        /\ revoked'[q] = revoked[q]
  BY DEF Fail, Done, Goto, TypeInv, TypeOK
<1> QED
  BY <1>1, <1>2 DEF DeliverInv, Working

\* Every step of a call keeps the facts of open deliveries.
LEMMA RequestDelivers ==
    ASSUME TypeInv, DeliverInv, ClaimInv, NEW r \in Request, RequestStep(r) \/ Crash(r)
    PROVE  DeliverInv'
<1> USE DEF worldVars, admitVars, histVars
<1>1. CASE Reserve(r)
  BY <1>1 DEF Reserve, Goto, DeliverInv, Working, TypeInv, TypeOK
<1>2. CASE ReserveRefused(r)
  BY <1>2, EndDelivers DEF ReserveRefused
<1>3. CASE OpenDelivery(r)
  <2>1. ver[r] = row.live /\ ver[r] # row.staged /\ pin[cur[r]] \in {None, ver[r]}
    BY <1>3 DEF OpenDelivery, Resolvable
  <2> QED
    BY <1>3, <2>1 DEF OpenDelivery, Goto, DeliverInv, Working, TypeInv, TypeOK
<1>4. CASE DeliveryRefused(r)
  BY <1>4, EndDelivers DEF DeliveryRefused
<1>5. CASE SendRead(r)
  BY <1>5 DEF SendRead, Goto, DeliverInv, Working, TypeInv, TypeOK
<1>6. CASE ReadBundle(r)
  <2>0. revoked' = [revoked EXCEPT ![r] = ~granted[cur[r]]] /\ UNCHANGED <<row, granted, frozen, pin>>
        /\ pc[r] = "reading"
    BY <1>6 DEF ReadBundle
  <2>1. CASE ApprovedBundle(r)
    <3>1. pc' = [pc EXCEPT ![r] = "checking"] /\ UNCHANGED <<cur, ver>>
          /\ bundle' = [bundle EXCEPT ![r] = frozen[cur[r]].key]
      BY <1>6, <2>1 DEF ReadBundle, ApprovedBundle, Goto
    <3>2. revoked'[r] => ~granted[cur[r]]
      BY <2>0 DEF TypeInv, TypeOK
    <3>3. \A q \in Request \ {r} : revoked'[q] = revoked[q]
      BY <2>0 DEF TypeInv, TypeOK
    <3> QED
      BY <2>0, <3>1, <3>2, <3>3 DEF DeliverInv, Working, TypeInv, TypeOK
  <2>2. CASE ~ApprovedBundle(r)
    <3>1. pc' = [pc EXCEPT ![r] = "failed"] /\ UNCHANGED <<cur, ver>>
          /\ bundle' = [bundle EXCEPT ![r] = NoKey]
      BY <1>6, <2>2 DEF ReadBundle, Fail, Goto
    <3>2. \A q \in Request \ {r} : revoked'[q] = revoked[q]
      BY <2>0 DEF TypeInv, TypeOK
    <3> QED
      BY <2>0, <3>1, <3>2 DEF DeliverInv, Working, TypeInv, TypeOK
  <2> QED
    BY <2>1, <2>2
<1>7. CASE FinalCheck(r)
  <2>1. ~revoked[r]
    BY <1>7 DEF FinalCheck, StillAuthorized, CheckDispatch, DeliverInv
  <2> QED
    BY <1>7, <2>1 DEF FinalCheck, Goto, DeliverInv, Working, TypeInv, TypeOK
<1>8. CASE DeliveryFails(r)
  BY <1>8, EndDelivers DEF DeliveryFails
<1>9. CASE CommitDelivery(r)
  BY <1>9, EndDelivers DEF CommitDelivery
<1>10. ASSUME NEW b \in BOOLEAN, ReserveUnknown(r, b) PROVE DeliverInv'
  BY <1>10, EndDelivers DEF ReserveUnknown
<1>11. ASSUME NEW b \in BOOLEAN, CommitUnknown(r, b) PROVE DeliverInv'
  BY <1>11, EndDelivers DEF CommitUnknown
<1>12. ASSUME NEW b \in BOOLEAN, RecordFailure(r, b) PROVE DeliverInv'
  BY <1>12, EndDelivers DEF RecordFailure
<1>13. CASE Crash(r)
  BY <1>13, EndDelivers DEF Crash
<1> QED
  BY <1>1, <1>2, <1>3, <1>4, <1>5, <1>6, <1>7, <1>8, <1>9, <1>10, <1>11, <1>12, <1>13
  DEF RequestStep

\* The world changes the row only when no delivery is open, and grants one way or
\* the other at any time.
LEMMA WorldDelivers == ASSUME TypeInv, DeliverInv, WorldStep PROVE DeliverInv'
<1>1. UNCHANGED <<frozen, pin, pc, cur, ver, bundle>>
  BY WorldFrame
<1>2. (\E r \in Request : pc[r] \in Working) => row' = row
  BY WorldFrame DEF Held
<1>3. CASE UNCHANGED <<granted, revoked>>
  BY <1>1, <1>2, <1>3 DEF DeliverInv
<1>4. ASSUME NEW k \in Dispatch, Revoke(k) PROVE DeliverInv'
  <2>1. granted' = [granted EXCEPT ![k] = FALSE] /\ revoked' = revoked
    BY <1>4 DEF Revoke, histVars
  <2>2. \A r \in Request : pc[r] = "checking" => cur[r] \in Dispatch
    BY DEF TypeInv, TypeOK, CallInv
  <2>3. \A d \in Dispatch : ~granted[d] => ~granted'[d]
    BY <2>1 DEF TypeInv, TypeOK
  <2> QED
    BY <1>1, <1>2, <2>1, <2>2, <2>3 DEF DeliverInv
<1>5. ASSUME NEW k \in Dispatch, Restore(k) PROVE DeliverInv'
  <2>1. granted' = [granted EXCEPT ![k] = TRUE]
        /\ revoked' = [r \in Request |-> revoked[r] /\ cur[r] # k]
    BY <1>5 DEF Restore
  <2>2. \A r \in Request : revoked'[r] => revoked[r] /\ cur[r] # k
    BY <2>1
  <2>3. \A d \in Dispatch \ {k} : granted'[d] = granted[d]
    BY <2>1 DEF TypeInv, TypeOK
  <2>4. \A r \in Request : pc[r] = "checking" => cur[r] \in Dispatch
    BY DEF TypeInv, TypeOK, CallInv
  <2> QED
    BY <1>1, <1>2, <2>2, <2>3, <2>4 DEF DeliverInv
<1>6. UNCHANGED <<granted, revoked>> \/ \E k \in Dispatch : Revoke(k) \/ Restore(k)
  BY DEF WorldStep, RotateMaterial, StageMaterial, PromoteStaged, DiscardStaged, EditRow, SaveRow,
         Substitute, histVars
<1> QED
  BY <1>3, <1>4, <1>5, <1>6

\* Every step keeps the facts of open deliveries.
LEMMA DeliverStep == TypeInv /\ ClaimInv /\ DeliverInv /\ [Next]_vars => DeliverInv'
<1> SUFFICES ASSUME TypeInv, ClaimInv, DeliverInv, [Next]_vars PROVE DeliverInv'
  OBVIOUS
<1>1. ASSUME NEW k \in Dispatch, NEW pinned \in BOOLEAN, Admit(k, pinned) PROVE DeliverInv'
  <2>1. \A r \in Request : pc[r] \notin Working
    BY <1>1 DEF Admit, Held
  <2> QED
    BY <1>1, <2>1 DEF Admit, DeliverInv, Working, reqVars, histVars
<1>2. ASSUME NEW r \in Request, NEW k \in Dispatch, Resolve(r, k) PROVE DeliverInv'
  BY <1>2 DEF Resolve, Goto, DeliverInv, Working, worldVars, admitVars, histVars, TypeInv, TypeOK
<1>3. ASSUME NEW r \in Request, RequestStep(r) \/ Crash(r) PROVE DeliverInv'
  BY <1>3, RequestDelivers
<1>4. CASE WorldStep
  BY <1>4, WorldDelivers
<1>5. CASE UNCHANGED vars
  BY <1>5 DEF DeliverInv, vars, worldVars, admitVars, reqVars, histVars
<1> QED
  BY <1>1, <1>2, <1>3, <1>4, <1>5 DEF Next

--------------------------------------------------------------------------------
\* All that a delivery relies on.
DeliveryInv == TypeInv /\ ClaimInv /\ DeliverInv

\* The delivery invariant holds in every reachable state.
LEMMA DeliveryCorrect == Spec => []DeliveryInv
<1>1. Init => DeliveryInv
  BY TypeInit, ClaimInit, DeliverInit DEF DeliveryInv
<1>2. DeliveryInv /\ [Next]_vars => DeliveryInv'
  BY TypeStep, ClaimStep, DeliverStep DEF DeliveryInv
<1> QED
  BY <1>1, <1>2, PTL DEF Spec

\* No material leaves under a grant that was gone when the vault answered and did
\* not come back.
THEOREM RevocationCorrect == Spec => []RevocationStopsDelivery
<1>1. DeliveryInv => RevocationStopsDelivery
  BY DEF DeliveryInv, DeliverInv, RevocationStopsDelivery
<1> QED
  BY <1>1, DeliveryCorrect, PTL

\* When material is returned, its version is the reserved, the live and the pinned
\* one, and its key is the one frozen at admission.
THEOREM ApprovedCorrect == Spec => AnswersAreApproved
<1> DEFINE A == \A r \in Request :
        answers' # answers /\ pc[r] = "committing" /\ pc'[r] = "idle" =>
           /\ ver[r] = receipt[cur[r]] /\ ver[r] = row.live /\ ver[r] # row.staged
           /\ pin[cur[r]] \in {None, ver[r]}
           /\ bundle[r] = frozen[cur[r]].key
<1>1. DeliveryInv => A
  BY DEF DeliveryInv, DeliverInv, ClaimInv, Claiming, Working
<1>2. DeliveryInv /\ [Next]_vars => [A]_vars
  BY <1>1
<1> QED
  BY <1>2, DeliveryCorrect, PTL DEF Spec, AnswersAreApproved

--------------------------------------------------------------------------------
(***************************************************************************)
(* Evidence.                                                               *)
(***************************************************************************)

\* Nobody's call ends and no evidence disappears.
LEMMA EvidenceKept ==
    ASSUME TypeInv, ReadsLeaveEvidence, answers' = answers, seen' = seen,
           success \subseteq success', failure \subseteq failure', excused \subseteq excused',
           \A r \in Request : cur[r] \in Dispatch => cur'[r] = cur[r]
    PROVE  ReadsLeaveEvidence'
BY DEF ReadsLeaveEvidence, TypeInv, TypeOK

\* The call that ends leaves evidence of its dispatch, or is excused.
LEMMA EvidenceDone ==
    ASSUME TypeInv, ReadsLeaveEvidence, NEW r \in Request, cur[r] \in Dispatch, Done(r),
           \A k \in Dispatch : answers'[k] > 0 => k \in success', seen' = seen,
           success \subseteq success', failure \subseteq failure', excused \subseteq excused',
           cur[r] \in success' \cup failure' \cup excused'
    PROVE  ReadsLeaveEvidence'
<1>1. \A q \in Request \ {r} : cur'[q] = cur[q]
  BY DEF Done, TypeInv, TypeOK
<1>2. \A k \in Dispatch :
        k \in seen /\ (\A q \in Request : cur'[q] # k) => k \in success' \cup failure' \cup excused'
  BY <1>1 DEF ReadsLeaveEvidence
<1> QED
  BY <1>2 DEF ReadsLeaveEvidence

\* Every step of a call keeps the evidence.
LEMMA RequestEvidence ==
    ASSUME TypeInv, ReadsLeaveEvidence, NEW r \in Request, RequestStep(r) \/ Crash(r)
    PROVE  ReadsLeaveEvidence'
<1> USE DEF storeVars, histVars
<1>0. pc[r] # "idle" => cur[r] \in Dispatch
  BY DEF TypeInv, TypeOK, CallInv
<1>1. CASE Reserve(r)
  BY <1>1, EvidenceKept DEF Reserve
<1>2. CASE ReserveRefused(r)
  BY <1>2, EvidenceKept DEF ReserveRefused, Fail
<1>3. CASE OpenDelivery(r)
  BY <1>3, EvidenceKept DEF OpenDelivery
<1>4. CASE DeliveryRefused(r)
  BY <1>4, EvidenceKept DEF DeliveryRefused, Fail
<1>5. CASE SendRead(r)
  BY <1>5, EvidenceKept DEF SendRead
<1>6. CASE ReadBundle(r)
  <2>1. cur' = cur /\ seen' = seen \cup {cur[r]}
        /\ UNCHANGED <<success, failure, answers, excused>>
    BY <1>6 DEF ReadBundle, Fail
  <2> QED
    BY <2>1 DEF ReadsLeaveEvidence
<1>7. CASE FinalCheck(r)
  BY <1>7, EvidenceKept DEF FinalCheck
<1>8. CASE DeliveryFails(r)
  BY <1>8, EvidenceKept DEF DeliveryFails, Fail
<1>9. CASE CommitDelivery(r)
  <2>1. /\ Done(r) /\ cur[r] \in Dispatch /\ seen' = seen
        /\ success' = success \cup {cur[r]} /\ failure' = failure /\ excused' = excused
        /\ answers' = [answers EXCEPT ![cur[r]] = @ + 1]
    BY <1>0, <1>9 DEF CommitDelivery
  <2>2. \A k \in Dispatch : answers'[k] > 0 => k \in success'
    BY <2>1 DEF ReadsLeaveEvidence, TypeInv, TypeOK
  <2> QED
    BY <2>1, <2>2, EvidenceDone
<1>10. ASSUME NEW b \in BOOLEAN, ReserveUnknown(r, b) PROVE ReadsLeaveEvidence'
  BY <1>10, EvidenceKept DEF ReserveUnknown, Fail
<1>11. ASSUME NEW b \in BOOLEAN, CommitUnknown(r, b) PROVE ReadsLeaveEvidence'
  BY <1>11, EvidenceKept DEF CommitUnknown, Fail
<1>12. ASSUME NEW b \in BOOLEAN, RecordFailure(r, b) PROVE ReadsLeaveEvidence'
  <2>1. Done(r) /\ cur[r] \in Dispatch /\ success' = success /\ answers' = answers /\ seen' = seen
    BY <1>0, <1>12 DEF RecordFailure
  <2>2. /\ success \subseteq success' /\ failure \subseteq failure' /\ excused \subseteq excused'
        /\ cur[r] \in success' \cup failure' \cup excused'
    BY <1>12, <2>1 DEF RecordFailure, FailureLogged
  <2>3. \A k \in Dispatch : answers'[k] > 0 => k \in success'
    BY <2>1 DEF ReadsLeaveEvidence
  <2> QED
    BY <2>1, <2>2, <2>3, EvidenceDone
<1>13. CASE Crash(r)
  <2>1. /\ Done(r) /\ cur[r] \in Dispatch
        /\ success' = success /\ failure' = failure /\ answers' = answers /\ seen' = seen
    BY <1>0, <1>13 DEF Crash
  <2>2. /\ success \subseteq success' /\ failure \subseteq failure' /\ excused \subseteq excused'
        /\ cur[r] \in success' \cup failure' \cup excused'
    BY <1>13, <2>1 DEF Crash
  <2>3. \A k \in Dispatch : answers'[k] > 0 => k \in success'
    BY <2>1 DEF ReadsLeaveEvidence
  <2> QED
    BY <2>1, <2>2, <2>3, EvidenceDone
<1> QED
  BY <1>1, <1>2, <1>3, <1>4, <1>5, <1>6, <1>7, <1>8, <1>9, <1>10, <1>11, <1>12, <1>13
  DEF RequestStep

\* Every step keeps the evidence.
LEMMA EvidenceStep == TypeInv /\ ReadsLeaveEvidence /\ [Next]_vars => ReadsLeaveEvidence'
<1> SUFFICES ASSUME TypeInv, ReadsLeaveEvidence, [Next]_vars PROVE ReadsLeaveEvidence'
  OBVIOUS
<1>1. ASSUME NEW k \in Dispatch, NEW pinned \in BOOLEAN, Admit(k, pinned) PROVE ReadsLeaveEvidence'
  BY <1>1, EvidenceKept DEF Admit, storeVars, reqVars, histVars
<1>2. ASSUME NEW r \in Request, NEW k \in Dispatch, Resolve(r, k) PROVE ReadsLeaveEvidence'
  <2>1. \A q \in Request : cur[q] \in Dispatch => cur'[q] = cur[q]
    BY <1>2 DEF Resolve, TypeInv, TypeOK, CallInv
  <2>2. answers' = answers /\ seen' = seen
    BY <1>2 DEF Resolve, histVars
  <2>3. success \subseteq success' /\ failure \subseteq failure' /\ excused \subseteq excused'
    BY <1>2 DEF Resolve, storeVars, histVars
  <2> QED
    BY <2>1, <2>2, <2>3, EvidenceKept, Zenon
<1>3. ASSUME NEW r \in Request, RequestStep(r) \/ Crash(r) PROVE ReadsLeaveEvidence'
  BY <1>3, RequestEvidence
<1>4. CASE WorldStep
  BY <1>4, WorldFrame, EvidenceKept
<1>5. CASE UNCHANGED vars
  BY <1>5, EvidenceKept DEF vars, storeVars, reqVars, histVars
<1> QED
  BY <1>1, <1>2, <1>3, <1>4, <1>5 DEF Next

\* Material the vault returned leaves a durable audit row once its call is over,
\* unless the process died or the audit table refused; an answer has its success row.
THEOREM EvidenceCorrect == Spec => []ReadsLeaveEvidence
<1>1. Init => TypeInv /\ ReadsLeaveEvidence
  BY TypeInit DEF Init, ReadsLeaveEvidence
<1>2. TypeInv /\ ReadsLeaveEvidence /\ [Next]_vars => (TypeInv /\ ReadsLeaveEvidence)'
  BY TypeStep, EvidenceStep
<1> QED
  BY <1>1, <1>2, PTL DEF Spec

================================================================================
