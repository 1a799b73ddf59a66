-------------------------- MODULE MaterialSafetyProofs --------------------------
(***************************************************************************)
(* Proofs about the write path, for every set of credentials and requests  *)
(* and every bound. TypeCorrect comes first. What consumers depend on      *)
(* survives every interleaving: SafetyInv of MaterialLifecycle is          *)
(* inductive, and with it ServedVersionsSurvive and                        *)
(* StagedCandidateSurvives.                                                *)
(*                                                                         *)
(* The actions fall into a few kinds, one lemma each: steps that close a   *)
(* request or remove versions nobody needs (CloseStep), steps inside an    *)
(* open transaction, steps that write a version, durable transactions      *)
(* (ApplyStep), and steps of the jobs and of the outside world.            *)
(***************************************************************************)
EXTENDS MaterialLifecycle, TLAPS

--------------------------------------------------------------------------------
(***************************************************************************)
(* The row helpers return legal rows.                                      *)
(***************************************************************************)

\* A blank row is a legal row.
LEMMA BlankRowType == BlankRow \in Row
BY DEF BlankRow, Row, None, Status

\* The key identity of a version is a version or empty.
LEMMA KeyOfType == ASSUME NEW c, NEW v \in Nat PROVE KeyOf(c, v) \in Nat
BY DEF KeyOf, None

\* Clearing and recording identities keep a row legal.
LEMMA IdentityType ==
    ASSUME NEW row \in Row, NEW key \in Nat
    PROVE  /\ ClearStagedKey(row) \in Row
           /\ RecordLiveKey(row, key) \in Row
           /\ PromoteKeyIdentity(row) \in Row
BY DEF ClearStagedKey, RecordLiveKey, PromoteKeyIdentity, Row, None

\* What a store saves is a legal row.
LEMMA StoredType ==
    ASSUME NEW o, NEW c, NEW row \in Row, NEW v \in Nat
    PROVE  Stored(o, c, row, v) \in Row
<1>1. KeyOf(c, v) \in Nat
  BY KeyOfType
<1>2. Pinned(row) \in Row
  BY DEF Pinned, Row, None
<1>3. RecordLiveKey(row, KeyOf(c, v)) \in Row
  BY <1>1, IdentityType
<1>4. "staged" \in Status
  BY DEF Status
<1> QED
  BY <1>1, <1>2, <1>3, <1>4 DEF Stored, Row, None

--------------------------------------------------------------------------------
(***************************************************************************)
(* Type correctness.                                                       *)
(***************************************************************************)

\* The initial state, legacy rows included, is well typed.
LEMMA TypeInit == Init => TypeOK
<1> SUFFICES ASSUME Init PROVE TypeOK
  OBVIOUS
<1> USE BlankRowType DEF Init
<1>1. DbTypeOK
  BY SubsetAssumption DEF DbTypeOK, Row, Status, None, BlankRow
<1>2. KvTypeOK
  BY SubsetAssumption DEF KvTypeOK, Pairs
<1>3. ReqTypeOK
  BY DEF ReqTypeOK, PC, Ops, BatchOps, SingleOps, None
<1>4. HistTypeOK
  BY SubsetAssumption DEF HistTypeOK, Pairs
<1> QED
  BY <1>1, <1>2, <1>3, <1>4 DEF TypeOK

\* Dropping the owner leaves the requests well typed.
LEMMA ResetType ==
    ASSUME ReqTypeOK, NEW r \in Request, Reset(r)
    PROVE  ReqTypeOK'
BY BlankRowType DEF ReqTypeOK, Reset, PC, Ops, BatchOps, SingleOps, None

\* So does entering recovery.
LEMMA UnwindType ==
    ASSUME ReqTypeOK, NEW r \in Request, NEW lost \in BOOLEAN, Unwind(r, lost)
    PROVE  ReqTypeOK'
<1>1. CASE attempted[r] = {}
  BY <1>1, ResetType DEF Unwind
<1>2. CASE attempted[r] # {}
  BY <1>2 DEF ReqTypeOK, Unwind, PC
<1> QED
  BY <1>1, <1>2

\* A durable transaction leaves rows, columns and history well typed.
LEMMA ApplyType ==
    ASSUME TypeOK, NEW r \in Request, NEW lost \in SUBSET Pairs,
           Apply(r, lost), UNCHANGED <<kvVars, used, verify>>
    PROVE  DbTypeOK' /\ KvTypeOK' /\ HistTypeOK'
<1> DEFINE kept == {c \in subj[r] : op[r] # "delete" /\ draft[r][c].kv # None}
<1>1. subj[r] \subseteq Cred /\ kept \subseteq Cred
  BY DEF TypeOK, ReqTypeOK
<1>2. \A c \in Cred : draft[r][c] \in Row /\ inv[c] \in Row
  BY DEF TypeOK, ReqTypeOK, DbTypeOK
<1>3. \A c \in Cred : <<c, draft[r][c].live>> \in Pairs
  BY <1>2 DEF Row, Pairs
<1>4. rows' \subseteq Cred
  BY <1>1 DEF Apply, TypeOK, DbTypeOK
<1>5. inv' \in [Cred -> Row]
  BY <1>2, BlankRowType DEF Apply
<1>6. KvTypeOK'
  BY DEF KvTypeOK, kvVars, TypeOK
<1>7. everLive' \subseteq Pairs /\ external' \subseteq Pairs /\ late' \subseteq Pairs
  BY <1>1, <1>3 DEF Apply, TypeOK, HistTypeOK
<1>8. explained' \subseteq Pairs
  BY <1>6 DEF Apply, Explain, KvTypeOK
<1> QED
  BY <1>4, <1>5, <1>6, <1>7, <1>8 DEF DbTypeOK, HistTypeOK, TypeOK

\* Steps of a request before its transaction ends keep the state well typed.
LEMMA TypeBody ==
    ASSUME TypeOK, NEW r \in Request
    PROVE  /\ \A S \in SUBSET Cred : BeginCreate(r, S) => TypeOK'
           /\ \A o \in Offered, S \in SUBSET Cred, status \in FormStatus \cup {AsLoaded} :
                 Begin(r, o, S, status) => TypeOK'
           /\ Lock(r) => TypeOK'
           /\ LockRefused(r) => TypeOK'
           /\ InnerRollback(r) => TypeOK'
           /\ \A c \in Cred :
                 /\ \A b \in BOOLEAN : StoreMaterial(r, c, b) => TypeOK'
                 /\ StoreLost(r, c) => TypeOK'
                 /\ StoreRefused(r, c) => TypeOK'
                 /\ PromoteStaged(r, c) => TypeOK'
                 /\ \A b \in BOOLEAN : DiscardStaged(r, c, b) => TypeOK'
<1> USE DEF TypeOK, dbVars, kvVars, histVars
<1>1. ASSUME NEW S \in SUBSET Cred, BeginCreate(r, S) PROVE TypeOK'
  BY <1>1 DEF BeginCreate, DbTypeOK, KvTypeOK, ReqTypeOK, HistTypeOK, PC, Ops
<1>2. ASSUME NEW o \in Offered, NEW S \in SUBSET Cred,
             NEW status \in FormStatus \cup {AsLoaded}, Begin(r, o, S, status)
      PROVE  TypeOK'
  <2>1. o \in Ops
    BY OfferedAssumption
  <2>2. \A c \in Cred : status # AsLoaded => [inv[c] EXCEPT !.status = status] \in Row
    BY StatusAssumption DEF DbTypeOK, Row
  <2> DEFINE loaded == [c \in Cred |-> IF c \notin S \/ o \notin FormOps THEN BlankRow
                                       ELSE IF status = AsLoaded THEN inv[c]
                                       ELSE [inv[c] EXCEPT !.status = status]]
  <2>3. loaded \in [Cred -> Row]
    BY <2>2, BlankRowType DEF DbTypeOK
  <2>4. draft' = [draft EXCEPT ![r] = loaded]
    BY <1>2 DEF Begin
  <2> HIDE DEF loaded
  <2>5. draft' \in [Request -> [Cred -> Row]]
    BY <2>3, <2>4 DEF ReqTypeOK
  <2> QED
    BY <1>2, <2>1, <2>5 DEF Begin, DbTypeOK, KvTypeOK, ReqTypeOK, HistTypeOK, PC
<1>3. ASSUME Lock(r) PROVE TypeOK'
  <2>1. ASSUME NEW c \in Cred PROVE Refreshed(r, c) \in Row
    <3>1. inv[c] \in Row /\ draft[r][c] \in Row
      BY DEF DbTypeOK, ReqTypeOK
    <3> QED
      BY <3>1 DEF Refreshed, Row
  <2> QED
    BY <1>3, <2>1, BlankRowType
    DEF Lock, DbTypeOK, KvTypeOK, ReqTypeOK, HistTypeOK, PC
<1>4. ASSUME LockRefused(r) PROVE TypeOK'
  BY <1>4, ResetType DEF LockRefused, DbTypeOK, KvTypeOK, HistTypeOK
<1>5. ASSUME InnerRollback(r) PROVE TypeOK'
  BY <1>5, BlankRowType
  DEF InnerRollback, DbTypeOK, KvTypeOK, ReqTypeOK, HistTypeOK
<1>6. ASSUME NEW c \in Cred PROVE
        /\ \A b \in BOOLEAN : StoreMaterial(r, c, b) => TypeOK'
        /\ StoreLost(r, c) => TypeOK'
        /\ StoreRefused(r, c) => TypeOK'
        /\ PromoteStaged(r, c) => TypeOK'
        /\ \A b \in BOOLEAN : DiscardStaged(r, c, b) => TypeOK'
  <2>0. Accepted(r, c) => KvTypeOK' /\ wrote' \in [Request -> [Cred -> Nat]]
    BY DEF Accepted, KvTypeOK, ReqTypeOK, Pairs
  <2>1. ASSUME NEW b \in BOOLEAN, StoreMaterial(r, c, b) PROVE TypeOK'
    <3>1. Stored(op[r], c, draft[r][c], counter[c] + 1) \in Row
      BY StoredType DEF ReqTypeOK, KvTypeOK
    <3>2. draft' \in [Request -> [Cred -> Row]]
      BY <2>1, <3>1 DEF StoreMaterial, ReqTypeOK
    <3> QED
      BY <2>0, <2>1, <3>2 DEF StoreMaterial, DbTypeOK, ReqTypeOK, HistTypeOK, PC
  <2>2. ASSUME StoreLost(r, c) PROVE TypeOK'
    BY <2>0, <2>2 DEF StoreLost, AttemptFails, DbTypeOK, ReqTypeOK, HistTypeOK, PC
  <2>3. ASSUME StoreRefused(r, c) PROVE TypeOK'
    BY <2>3 DEF StoreRefused, AttemptFails, DbTypeOK, KvTypeOK, ReqTypeOK, HistTypeOK, PC
  <2>4. ASSUME PromoteStaged(r, c) PROVE TypeOK'
    <3> DEFINE row == draft[r][c]
    <3>1. row \in Row /\ PromoteKeyIdentity(row) \in Row
      BY IdentityType DEF ReqTypeOK
    <3>2. [PromoteKeyIdentity(row) EXCEPT
              !.live = row.staged, !.staged = None, !.status = "active"] \in Row
      BY <3>1 DEF Row, Status, None
    <3>3. draft' \in [Request -> [Cred -> Row]]
      BY <2>4, <3>2 DEF PromoteStaged, ReqTypeOK
    <3> QED
      BY <2>4, <3>3 DEF PromoteStaged, DbTypeOK, KvTypeOK, ReqTypeOK, HistTypeOK, PC
  <2>5. ASSUME NEW b \in BOOLEAN, DiscardStaged(r, c, b) PROVE TypeOK'
    <3> DEFINE row == draft[r][c]
    <3>1. row \in Row /\ ClearStagedKey(row) \in Row
      BY IdentityType DEF ReqTypeOK
    <3>2. [ClearStagedKey(row) EXCEPT !.staged = None, !.status = "active"] \in Row
      BY <3>1 DEF Row, Status, None
    <3>3. draft' \in [Request -> [Cred -> Row]]
      BY <2>5, <3>2 DEF DiscardStaged, ReqTypeOK
    <3>4. wrote' \in [Request -> [Cred -> Nat]]
      BY <2>5, <3>1 DEF DiscardStaged, ReqTypeOK, Row
    <3> QED
      BY <2>5, <3>3, <3>4
      DEF DiscardStaged, DbTypeOK, KvTypeOK, ReqTypeOK, HistTypeOK, PC
  <2> QED
    BY <2>1, <2>2, <2>3, <2>4, <2>5
<1> HIDE DEF TypeOK
<1> QED
  BY <1>1, <1>2, <1>3, <1>4, <1>5, <1>6

\* So do the ends of a transaction and everything after it.
LEMMA TypeEnd ==
    ASSUME TypeOK, NEW r \in Request
    PROVE  /\ \A b \in BOOLEAN : BodyFails(r, b) => TypeOK'
           /\ WitnessFails(r) => TypeOK'
           /\ Commit(r) => TypeOK'
           /\ CallbackFails(r) => TypeOK'
           /\ CommitRejected(r) => TypeOK'
           /\ \A b \in BOOLEAN : CommitUnknown(r, b) => TypeOK'
           /\ \A c \in Cred, b \in BOOLEAN :
                 /\ Recover(r, c, b) => TypeOK'
                 /\ FinishDeletion(r, c, b) => TypeOK'
                 /\ DestroyMaterial(r, c, b) => TypeOK'
           /\ Crash(r) => TypeOK'
<1> USE DEF TypeOK, dbVars, kvVars, histVars
<1>0. WroteBy(r, attempted[r]) \in SUBSET Pairs
  BY DEF WroteBy, ReqTypeOK, Pairs
<1>a. AllPairsOf(subj[r]) \in SUBSET Pairs
  BY DEF AllPairsOf, KvTypeOK
<1>b. \A P : present' \subseteq present /\ Explain(P) => explained' \subseteq Pairs
  BY DEF Explain, KvTypeOK
<1>1. ASSUME NEW b \in BOOLEAN, BodyFails(r, b) PROVE TypeOK'
  BY <1>1, UnwindType DEF BodyFails, DbTypeOK, KvTypeOK, HistTypeOK
<1>2. ASSUME WitnessFails(r) PROVE TypeOK'
  BY <1>2, UnwindType DEF WitnessFails, DbTypeOK, KvTypeOK, HistTypeOK
<1>3. ASSUME Commit(r) PROVE TypeOK'
  <2>1. DbTypeOK' /\ KvTypeOK' /\ HistTypeOK'
    BY <1>3, ApplyType DEF Commit
  <2>2. ReqTypeOK'
    <3>1. CASE op[r] \in {"discard", "delete"}
      BY <1>3, <3>1 DEF Commit, ReqTypeOK, PC
    <3>2. CASE op[r] \notin {"discard", "delete"}
      BY <1>3, <3>2, ResetType DEF Commit
    <3> QED
      BY <3>1, <3>2
  <2> QED
    BY <2>1, <2>2
<1>4. ASSUME CallbackFails(r) PROVE TypeOK'
  <2>1. DbTypeOK' /\ KvTypeOK' /\ HistTypeOK'
    BY <1>0, <1>4, ApplyType DEF CallbackFails
  <2> QED
    BY <1>4, <2>1, ResetType DEF CallbackFails
<1>5. ASSUME CommitRejected(r) PROVE TypeOK'
  BY <1>5, UnwindType DEF CommitRejected, DbTypeOK, KvTypeOK, HistTypeOK
<1>6. ASSUME NEW b \in BOOLEAN, CommitUnknown(r, b) PROVE TypeOK'
  <2>1. DbTypeOK' /\ KvTypeOK' /\ HistTypeOK'
    <3>1. CASE b
      BY <1>a, <1>6, <3>1, ApplyType DEF CommitUnknown
    <3>2. CASE ~b
      BY <1>6, <3>2 DEF CommitUnknown, DbTypeOK, KvTypeOK, HistTypeOK
    <3> QED
      BY <3>1, <3>2
  <2> QED
    BY <1>6, <2>1, UnwindType DEF CommitUnknown
<1>7. ASSUME NEW c \in Cred, NEW b \in BOOLEAN PROVE
        /\ Recover(r, c, b) => TypeOK'
        /\ FinishDeletion(r, c, b) => TypeOK'
        /\ DestroyMaterial(r, c, b) => TypeOK'
  <2>1. ASSUME Recover(r, c, b) PROVE TypeOK'
    <3>1. present' \subseteq present
      BY <2>1 DEF Recover, DeleteVersion
    <3>2. ReqTypeOK'
      <4>1. CASE attempted[r] = {c}
        BY <2>1, <4>1, ResetType DEF Recover
      <4>2. CASE attempted[r] # {c}
        <5>1. /\ attempted' = [attempted EXCEPT ![r] = @ \ {c}]
              /\ UNCHANGED <<pc, op, subj, draft, known, wrote, witness, unknown>>
          BY <2>1, <4>2 DEF Recover
        <5> QED
          BY <5>1 DEF ReqTypeOK
      <4> QED
        BY <4>1, <4>2
    <3> QED
      BY <1>b, <2>1, <3>1, <3>2 DEF Recover, DbTypeOK, KvTypeOK, HistTypeOK
  <2>2. ASSUME FinishDeletion(r, c, b) PROVE TypeOK'
    <3>1. present' \subseteq present
      BY <2>2 DEF FinishDeletion, DeleteVersion
    <3> QED
      BY <1>b, <2>2, <3>1, ResetType DEF FinishDeletion, DbTypeOK, KvTypeOK, HistTypeOK
  <2>3. ASSUME DestroyMaterial(r, c, b) PROVE TypeOK'
    <3>1. present' \subseteq present
      BY <2>3 DEF DestroyMaterial
    <3>2. ReqTypeOK'
      <4>1. CASE subj[r] = {c}
        BY <2>3, <4>1, ResetType DEF DestroyMaterial
      <4>2. CASE subj[r] # {c}
        <5>1. /\ subj' = [subj EXCEPT ![r] = @ \ {c}]
              /\ UNCHANGED <<pc, op, draft, attempted, known, wrote, witness, unknown>>
          BY <2>3, <4>2 DEF DestroyMaterial
        <5> QED
          BY <5>1 DEF ReqTypeOK
      <4> QED
        BY <4>1, <4>2
    <3> QED
      BY <1>b, <2>3, <3>1, <3>2 DEF DestroyMaterial, DbTypeOK, KvTypeOK, HistTypeOK
  <2> QED
    BY <2>1, <2>2, <2>3
<1>8. ASSUME Crash(r) PROVE TypeOK'
  BY <1>b, <1>8, ResetType DEF Crash, DbTypeOK, KvTypeOK, HistTypeOK
<1> HIDE DEF TypeOK
<1> QED
  BY <1>1, <1>2, <1>3, <1>4, <1>5, <1>6, <1>7, <1>8

\* So do the jobs and an outside deletion.
LEMMA TypeJobs ==
    ASSUME TypeOK, NEW c \in Cred
    PROVE  /\ VerifyRead(c) => TypeOK'
           /\ VerifyWrite(c) => TypeOK'
           /\ ExpiryScan(c) => TypeOK'
           /\ OutOfBandDelete(c) => TypeOK'
<1> USE DEF TypeOK, dbVars, kvVars, reqVars, histVars
<1>1. ASSUME VerifyRead(c) PROVE TypeOK'
  BY <1>1 DEF VerifyRead, DbTypeOK, KvTypeOK, ReqTypeOK, HistTypeOK
<1>2. ASSUME VerifyWrite(c) PROVE TypeOK'
  <2>1. [inv[c] EXCEPT !.kv = verify[c]] \in Row
    BY DEF DbTypeOK, Row
  <2>2. inv' \in [Cred -> Row] /\ verify' \in [Cred -> Nat]
    BY <1>2, <2>1 DEF VerifyWrite, VerifiedVersion, DbTypeOK, None
  <2> QED
    BY <1>2, <2>2 DEF VerifyWrite, DbTypeOK, KvTypeOK, ReqTypeOK, HistTypeOK
<1>3. ASSUME ExpiryScan(c) PROVE TypeOK'
  <2>1. [inv[c] EXCEPT !.status = "expired"] \in Row
    BY DEF DbTypeOK, Row, Status
  <2>2. inv' \in [Cred -> Row]
    BY <1>3, <2>1 DEF ExpiryScan, DbTypeOK
  <2> QED
    BY <1>3, <2>2 DEF ExpiryScan, DbTypeOK, KvTypeOK, ReqTypeOK, HistTypeOK
<1>4. ASSUME OutOfBandDelete(c) PROVE TypeOK'
  <2>1. present' \subseteq present /\ explained' \subseteq present'
    BY <1>4 DEF OutOfBandDelete, Explain
  <2>2. external' \subseteq Pairs /\ late' \subseteq Pairs
    BY <1>4 DEF OutOfBandDelete, KvTypeOK, HistTypeOK
  <2> QED
    BY <1>4, <2>1, <2>2 DEF OutOfBandDelete, DbTypeOK, KvTypeOK, ReqTypeOK, HistTypeOK
<1> HIDE DEF TypeOK
<1> QED
  BY <1>1, <1>2, <1>3, <1>4

\* Every step keeps the state well typed.
LEMMA TypeStep == TypeOK /\ [Next]_vars => TypeOK'
<1> SUFFICES ASSUME TypeOK, [Next]_vars PROVE TypeOK'
  OBVIOUS
<1>1. CASE UNCHANGED vars
  BY <1>1 DEF vars, dbVars, kvVars, reqVars, histVars, TypeOK, DbTypeOK, KvTypeOK,
              ReqTypeOK, HistTypeOK
<1>2. CASE Next
  BY <1>2, TypeBody, TypeEnd, TypeJobs DEF Next, RequestStep
<1> QED
  BY <1>1, <1>2

\* The write path is well typed: every column ever saved, drafted or read belongs to a
\* legal row, whatever requests, jobs and failures interleave.
THEOREM TypeCorrect == Spec => []TypeOK
BY TypeInit, TypeStep, PTL DEF Spec

--------------------------------------------------------------------------------
(***************************************************************************)
(* Consumers keep what they depend on.                                     *)
(***************************************************************************)

\* Request q is not touched by the step.
Same(q) ==
    /\ pc'[q] = pc[q] /\ op'[q] = op[q] /\ subj'[q] = subj[q] /\ draft'[q] = draft[q]
    /\ attempted'[q] = attempted[q] /\ known'[q] = known[q] /\ wrote'[q] = wrote[q]
    /\ witness'[q] = witness[q] /\ unknown'[q] = unknown[q]
OthersSame(r) == \A q \in Request \ {r} : Same(q)

\* Version v of c is nothing a consumer, a promotion or another request counts on.
Expendable(r, c, v) ==
    /\ c \in rows \ Legacy => <<c, v>> \notin everLive
    /\ c \in rows => inv[c].staged # v \/ v = None
    /\ \A q \in Request \ {r} : MayCommit(q, c) => wrote[q][c] # v

--------------------------------------------------------------------------------
\* A request that closes, or is already past its transaction, disturbs nothing as
\* long as it removes only expendable versions and gains no power to remove others.
LEMMA CloseStep ==
    ASSUME SafetyInv, TypeOK', NEW r \in Request, OthersSame(r),
           UNCHANGED <<rows, inv, used, counter, everLive, external, late>>,
           present' \subseteq present,
           \A c \in Cred, v \in Nat :
              <<c, v>> \in present /\ <<c, v>> \notin present' => Expendable(r, c, v),
           \/ pc'[r] \in {"idle", "waiting", "recover"}
           \/ pc'[r] = "destroy" /\ pc[r] = "destroy" /\ op'[r] = op[r]
                 /\ subj'[r] \subseteq subj[r],
           pc'[r] # "idle" => subj'[r] \subseteq used,
           attempted'[r] \subseteq subj'[r],
           attempted'[r] # {} => op'[r] \in WriteOps \cup {"discard"},
           pc'[r] \in {"idle", "waiting"} =>
              attempted'[r] = {} /\ \A c \in Cred : wrote'[r][c] = None,
           pc'[r] = "waiting" => op'[r] # "create",
           \A c \in Cred : wrote'[r][c] <= counter[c],
           \A c \in Cred : MayRemove(r, c)' => MayRemove(r, c) /\ wrote'[r][c] = wrote[r][c]
    PROVE  SafetyInv'
<1>0. ~Open(r)' /\ \A c \in Cred : ~MayCommit(r, c)'
  BY DEF Open, MayCommit
<1>a. \A q \in Request \ {r} : (Open(q)' <=> Open(q)) /\ (Claims(q)' <=> Claims(q))
  BY DEF OthersSame, Same, Open, Claims
<1>b. \A q \in Request \ {r}, c \in Cred :
         /\ (MayCommit(q, c)' <=> MayCommit(q, c))
         /\ (MayRemove(q, c)' <=> MayRemove(q, c))
         /\ wrote'[q][c] = wrote[q][c]
  BY DEF OthersSame, Same, Open, MayCommit, MayRemove
<1>1. ClaimInv'
  <2>1. Claims(r)' => Claims(r) /\ subj'[r] \subseteq subj[r] /\ subj[r] \cap rows = {}
    BY <1>0 DEF Claims, SafetyInv, ClaimInv
  <2> QED
    BY <1>0, <1>a, <2>1 DEF SafetyInv, ClaimInv, OthersSame, Same
<1>2. AttemptInv'
  BY DEF SafetyInv, AttemptInv, OthersSame, Same
<1>3. DraftInv'
  <2> SUFFICES ASSUME NEW q \in Request, Open(q)', NEW c \in subj'[q]
               PROVE  DraftOK(q, c)'
    BY DEF DraftInv
  <2>1. q # r /\ Same(q) /\ Open(q) /\ c \in subj[q] /\ c \in Cred
    BY <1>0, <1>a DEF OthersSame, Same, SafetyInv, TypeOK, ReqTypeOK
  <2>2. DraftOK(q, c)
    BY <2>1 DEF SafetyInv, DraftInv
  <2>3. op[q] = "promote" /\ pc[q] = "commit" => c \in rows
    BY <2>1 DEF SafetyInv, ClaimInv
  <2>4. inv[c].staged \in Nat
    BY <2>1 DEF SafetyInv, TypeOK, DbTypeOK, Row
  <2>5. /\ op[q] = "promote" /\ pc[q] = "commit" /\ inv[c].staged # None
        /\ <<c, inv[c].staged>> \in present \cup late
        => <<c, inv[c].staged>> \in present' \cup late'
    BY <2>1, <2>3, <2>4 DEF Expendable
  <2> QED
    BY <2>1, <2>2, <2>5 DEF DraftOK, Same
<1>4. DiscardInv'
  BY <1>0, <1>a DEF SafetyInv, DiscardInv, OthersSame, Same
<1>5. PointerInv'
  BY DEF SafetyInv, PointerInv
<1>6. WrittenInv'
  <2> SUFFICES ASSUME NEW q \in Request, NEW c \in Cred
               PROVE  /\ wrote'[q][c] <= counter'[c]
                      /\ MayCommit(q, c)' => <<c, wrote'[q][c]>> \in present'
                      /\ MayRemove(q, c)' =>
                            /\ c \notin Legacy => <<c, wrote'[q][c]>> \notin everLive'
                            /\ c \in rows' => inv'[c].staged # wrote'[q][c]
                            /\ \A p \in Request \ {q} :
                                  MayCommit(p, c)' => wrote'[p][c] # wrote'[q][c]
    BY DEF WrittenInv
  <2>1. CASE q = r
    BY <1>0, <1>b, <2>1 DEF SafetyInv, WrittenInv
  <2>2. CASE q # r
    <3>1. wrote[q][c] \in Nat
      BY DEF SafetyInv, TypeOK, ReqTypeOK
    <3>2. MayCommit(q, c) => <<c, wrote[q][c]>> \in present'
      BY <2>2, <3>1 DEF SafetyInv, WrittenInv, Expendable
    <3> QED
      BY <1>0, <1>b, <2>2, <3>2 DEF SafetyInv, WrittenInv
  <2> QED
    BY <2>1, <2>2
<1>7. ServedVersionsSurvive'
  <2> SUFFICES ASSUME NEW p \in everLive, p[1] \in rows \ Legacy
               PROVE  p \in present' \cup late
    BY DEF ServedVersionsSurvive
  <2>1. p \in Pairs /\ p = <<p[1], p[2]>> /\ p[1] \in Cred /\ p[2] \in Nat
    BY DEF SafetyInv, TypeOK, HistTypeOK, Pairs
  <2>2. p \in present \cup late
    BY DEF SafetyInv, ServedVersionsSurvive
  <2> QED
    BY <2>1, <2>2 DEF Expendable
<1>8. StagedCandidateSurvives'
  <2> SUFFICES ASSUME NEW c \in rows, inv[c].staged # None
               PROVE  <<c, inv[c].staged>> \in present' \cup external
    BY DEF StagedCandidateSurvives
  <2>1. c \in Cred /\ inv[c].staged \in Nat
    BY DEF SafetyInv, TypeOK, DbTypeOK, Row
  <2> QED
    BY <2>1 DEF SafetyInv, StagedCandidateSurvives, Expendable
<1> QED
  BY <1>1, <1>2, <1>3, <1>4, <1>5, <1>6, <1>7, <1>8 DEF SafetyInv

\* A dropped owner holds nothing.
LEMMA ResetFacts ==
    ASSUME TypeOK, NEW r \in Request, Reset(r)
    PROVE  /\ OthersSame(r)
           /\ pc'[r] = "idle" /\ op'[r] = "edit" /\ subj'[r] = {} /\ attempted'[r] = {}
           /\ \A c \in Cred : wrote'[r][c] = None
BY DEF Reset, OthersSame, Same, TypeOK, ReqTypeOK

\* A request that is reset while the shared state stays, or loses expendable
\* versions, preserves the invariant.
LEMMA ResetStep ==
    ASSUME SafetyInv, TypeOK', NEW r \in Request, Reset(r),
           UNCHANGED <<rows, inv, used, counter, everLive, external, late>>,
           present' \subseteq present,
           \A c \in Cred, v \in Nat :
              <<c, v>> \in present /\ <<c, v>> \notin present' => Expendable(r, c, v)
    PROVE  SafetyInv'
<1>1. /\ OthersSame(r) /\ pc'[r] = "idle" /\ subj'[r] = {} /\ attempted'[r] = {}
      /\ \A c \in Cred : wrote'[r][c] = None
  BY ResetFacts DEF SafetyInv
<1>2. \A c \in Cred : 0 <= counter[c]
  BY DEF SafetyInv, TypeOK, KvTypeOK
<1>3. \A c \in Cred : ~MayRemove(r, c)'
  BY <1>1 DEF MayRemove
<1> QED
  BY <1>1, <1>2, <1>3, CloseStep DEF None

\* An open transaction that unwinds without having become durable.
LEMMA UnwindStep ==
    ASSUME SafetyInv, TypeOK', NEW r \in Request, NEW lost \in BOOLEAN, Open(r),
           Unwind(r, lost),
           UNCHANGED <<rows, inv, used, counter, present, everLive, external, late>>
    PROVE  SafetyInv'
<1>1. CASE attempted[r] = {}
  BY <1>1, ResetStep DEF Unwind
<1>2. CASE attempted[r] # {}
  <2>1. /\ OthersSame(r) /\ pc'[r] = "recover" /\ op'[r] = op[r] /\ subj'[r] = subj[r]
        /\ attempted'[r] = attempted[r] /\ wrote'[r] = wrote[r]
    BY <1>2 DEF Unwind, OthersSame, Same, SafetyInv, TypeOK, ReqTypeOK
  <2>2. subj[r] \subseteq used
    BY DEF SafetyInv, ClaimInv, Open
  <2>3. \A c \in Cred : MayRemove(r, c)' => MayRemove(r, c) /\ wrote'[r][c] = wrote[r][c]
    BY <2>1 DEF MayRemove
  <2>4. \A c \in Cred : wrote'[r][c] <= counter[c]
    BY <2>1 DEF SafetyInv, WrittenInv
  <2>5. attempted[r] \subseteq subj[r] /\ op[r] \in WriteOps \cup {"discard"}
    BY <1>2 DEF SafetyInv, AttemptInv
  <2> QED
    BY <2>1, <2>2, <2>3, <2>4, <2>5, CloseStep
<1> QED
  BY <1>1, <1>2

--------------------------------------------------------------------------------
(***************************************************************************)
(* Steps that open a transaction or stay inside one.                       *)
(***************************************************************************)

\* A step that leaves request r open and the shared state alone: what it must show
\* of r itself.
LEMMA OpenStep ==
    ASSUME SafetyInv, TypeOK', NEW r \in Request, OthersSame(r), Open(r)',
           UNCHANGED <<rows, inv, counter, present, everLive, external, late>>,
           used \subseteq used', subj'[r] \subseteq used',
           op'[r] = "create" => subj'[r] \cap rows = {},
           op'[r] # "create" => subj'[r] \subseteq rows,
           \A q \in Request \ {r} : Claims(q) => subj'[r] \cap subj[q] = {},
           attempted'[r] \subseteq subj'[r],
           attempted'[r] # {} => op'[r] \in WriteOps \cup {"discard"},
           \A c \in Cred \ attempted'[r] : wrote'[r][c] = None,
           pc'[r] = "commit" /\ op'[r] = "create" => attempted'[r] = subj'[r],
           \A c \in subj'[r] : DraftOK(r, c)',
           op'[r] = "discard" => \A c \in attempted'[r] :
              /\ wrote'[r][c] = inv[c].staged /\ inv[c].staged # None
              /\ c \in witness'[r] => draft'[r][c].staged = None,
           \A c \in Cred : wrote'[r][c] <= counter[c],
           \A c \in Cred : MayRemove(r, c)' => MayRemove(r, c) /\ wrote'[r][c] = wrote[r][c],
           \A c \in Cred : MayCommit(r, c)' => MayCommit(r, c) /\ wrote'[r][c] = wrote[r][c]
    PROVE  SafetyInv'
<1>a. \A q \in Request \ {r} : (Open(q)' <=> Open(q)) /\ (Claims(q)' <=> Claims(q))
  BY DEF OthersSame, Same, Open, Claims
<1>b. \A q \in Request \ {r}, c \in Cred :
         /\ (MayCommit(q, c)' <=> MayCommit(q, c))
         /\ (MayRemove(q, c)' <=> MayRemove(q, c))
         /\ wrote'[q][c] = wrote[q][c]
  BY DEF OthersSame, Same, Open, MayCommit, MayRemove
<1>1. ClaimInv'
  <2>1. rows' \subseteq used'
    BY DEF SafetyInv, ClaimInv
  <2>2. \A q \in Request :
          /\ pc'[q] # "idle" => subj'[q] \subseteq used'
          /\ Open(q)' /\ op'[q] = "create" => subj'[q] \cap rows' = {}
          /\ Open(q)' /\ op'[q] # "create" => subj'[q] \subseteq rows'
          /\ pc'[q] = "destroy" => subj'[q] \cap rows' = {}
    BY <1>a DEF SafetyInv, ClaimInv, OthersSame, Same, Open
  <2>3. \A p, q \in Request : p # q /\ Claims(p)' /\ Claims(q)' => subj'[p] \cap subj'[q] = {}
    BY <1>a DEF SafetyInv, ClaimInv, OthersSame, Same
  <2> QED
    BY <2>1, <2>2, <2>3 DEF ClaimInv
<1>2. AttemptInv'
  BY DEF SafetyInv, AttemptInv, OthersSame, Same, Open
<1>3. DraftInv'
  <2> SUFFICES ASSUME NEW q \in Request, q # r, Open(q)', NEW c \in subj'[q]
               PROVE  DraftOK(q, c)'
    BY DEF DraftInv
  <2>1. Same(q) /\ Open(q) /\ c \in subj[q]
    BY <1>a DEF OthersSame, Same
  <2>2. DraftOK(q, c)
    BY <2>1 DEF SafetyInv, DraftInv
  <2> QED
    BY <2>1, <2>2 DEF DraftOK, Same
<1>4. DiscardInv'
  BY <1>a DEF SafetyInv, DiscardInv, OthersSame, Same
<1>5. PointerInv' /\ ServedVersionsSurvive' /\ StagedCandidateSurvives'
  BY DEF SafetyInv, PointerInv, ServedVersionsSurvive, StagedCandidateSurvives
<1>6. WrittenInv'
  BY <1>b DEF SafetyInv, WrittenInv
<1> QED
  BY <1>1, <1>2, <1>3, <1>4, <1>5, <1>6 DEF SafetyInv

\* Opening a transaction, and the body steps that write nothing to the mount.
LEMMA OpeningSafe ==
    ASSUME SafetyInv, TypeOK', NEW r \in Request
    PROVE  /\ \A S \in SUBSET Cred : BeginCreate(r, S) => SafetyInv'
           /\ Lock(r) => SafetyInv'
           /\ InnerRollback(r) => SafetyInv'
<1> USE DEF dbVars, kvVars, histVars
<1>t. TypeOK
  BY DEF SafetyInv
<1>1. ASSUME NEW S \in SUBSET Cred, BeginCreate(r, S) PROVE SafetyInv'
  <2>1. /\ OthersSame(r) /\ pc'[r] = "body" /\ op'[r] = "create" /\ subj'[r] = S
        /\ attempted'[r] = attempted[r] /\ wrote'[r] = wrote[r] /\ used' = used \cup S
        /\ S \cap used = {} /\ pc[r] = "idle"
        /\ UNCHANGED <<rows, inv, counter, present, everLive, external, late>>
    BY <1>1, <1>t DEF BeginCreate, OthersSame, Same, TypeOK, ReqTypeOK
  <2>2. attempted[r] = {} /\ \A c \in Cred : wrote[r][c] = None
    BY <2>1 DEF SafetyInv, AttemptInv
  <2>3. rows \subseteq used /\ \A q \in Request : Claims(q) => subj[q] \subseteq used
    BY DEF SafetyInv, ClaimInv, Claims, Open
  <2>4. \A c \in S : DraftOK(r, c)'
    BY <2>1, <2>2 DEF DraftOK
  <2>5. \A c \in Cred : wrote'[r][c] <= counter[c]
    BY <2>1 DEF SafetyInv, WrittenInv
  <2>6. \A c \in Cred : ~MayRemove(r, c)' /\ ~MayCommit(r, c)'
    BY <2>1, <2>2 DEF MayRemove, MayCommit
  <2>7. Open(r)'
    BY <2>1 DEF Open
  <2> QED
    BY <2>1, <2>2, <2>3, <2>4, <2>5, <2>6, <2>7, OpenStep
<1>2. ASSUME Lock(r) PROVE SafetyInv'
  <2>1. /\ OthersSame(r) /\ pc'[r] \in {"body", "commit"} /\ op'[r] = op[r]
        /\ subj'[r] = subj[r] /\ attempted'[r] = attempted[r] /\ wrote'[r] = wrote[r]
        /\ pc[r] = "waiting" /\ subj[r] \subseteq rows /\ \A c \in subj[r] : ~Held(c)
        /\ \A c \in subj[r] : draft'[r][c] = Refreshed(r, c)
        /\ UNCHANGED <<rows, inv, used, counter, present, everLive, external, late>>
    BY <1>2, <1>t DEF Lock, OthersSame, Same, TypeOK, ReqTypeOK
  <2>2. attempted[r] = {} /\ (\A c \in Cred : wrote[r][c] = None) /\ op[r] # "create"
    BY <2>1 DEF SafetyInv, AttemptInv
  <2>3. ASSUME NEW q \in Request \ {r}, Claims(q) PROVE subj[r] \cap subj[q] = {}
    <3>1. CASE Open(q)
      BY <2>1, <3>1 DEF Held, Open
    <3>2. CASE pc[q] = "destroy"
      BY <2>1, <3>2 DEF SafetyInv, ClaimInv
    <3> QED
      BY <2>3, <3>1, <3>2 DEF Claims
  <2>4. ASSUME NEW c \in subj[r] PROVE DraftOK(r, c)'
    <3>1. c \in Cred /\ inv[c] \in Row
      BY <1>t DEF TypeOK, ReqTypeOK, DbTypeOK
    <3>2. Refreshed(r, c).live = inv[c].live /\ Refreshed(r, c).staged = inv[c].staged
      BY <3>1 DEF Refreshed, Row
    <3> QED
      BY <2>1, <2>2, <3>2 DEF DraftOK
  <2>5. \A c \in Cred : wrote'[r][c] <= counter[c]
    BY <2>1 DEF SafetyInv, WrittenInv
  <2>6. \A c \in Cred : ~MayRemove(r, c)' /\ ~MayCommit(r, c)'
    BY <2>1, <2>2 DEF MayRemove, MayCommit
  <2>7. Open(r)' /\ subj[r] \subseteq used
    BY <2>1 DEF Open, SafetyInv, ClaimInv
  <2> QED
    BY <2>1, <2>2, <2>3, <2>4, <2>5, <2>6, <2>7, OpenStep
<1>3. ASSUME InnerRollback(r) PROVE SafetyInv'
  <2>1. /\ OthersSame(r) /\ pc'[r] = pc[r] /\ op'[r] = op[r] /\ subj'[r] = subj[r]
        /\ attempted'[r] = attempted[r] /\ wrote'[r] = wrote[r] /\ witness'[r] = {}
        /\ unknown'[r] = unknown[r] /\ Open(r)
        /\ \A c \in subj[r] : draft'[r][c] = inv[c]
        /\ UNCHANGED <<rows, inv, used, counter, present, everLive, external, late>>
    BY <1>3, <1>t DEF InnerRollback, OthersSame, Same, TypeOK, ReqTypeOK, Open
  <2>2. /\ subj[r] \subseteq used
        /\ op[r] = "create" => subj[r] \cap rows = {}
        /\ op[r] # "create" => subj[r] \subseteq rows
        /\ \A q \in Request \ {r} : Claims(q) => subj[r] \cap subj[q] = {}
    BY <2>1 DEF SafetyInv, ClaimInv, Claims, Open
  <2>3. /\ attempted[r] \subseteq subj[r]
        /\ attempted[r] # {} => op[r] \in WriteOps \cup {"discard"}
        /\ \A c \in Cred \ attempted[r] : wrote[r][c] = None
        /\ pc[r] = "commit" /\ op[r] = "create" => attempted[r] = subj[r]
    BY <2>1 DEF SafetyInv, AttemptInv, Open
  <2>4. \A c \in subj[r] : DraftOK(r, c)'
    BY <2>1 DEF DraftOK
  <2>5. op[r] = "discard" => \A c \in attempted[r] :
           wrote[r][c] = inv[c].staged /\ inv[c].staged # None
    BY <2>1 DEF SafetyInv, DiscardInv
  <2>6. \A c \in Cred : wrote'[r][c] <= counter[c]
    BY <2>1 DEF SafetyInv, WrittenInv
  <2>7. \A c \in Cred : (MayRemove(r, c)' => MayRemove(r, c))
                        /\ (MayCommit(r, c)' => MayCommit(r, c))
    BY <2>1 DEF MayRemove, MayCommit, Open
  <2>8. Open(r)'
    BY <2>1 DEF Open
  <2> QED
    BY <2>1, <2>2, <2>3, <2>4, <2>5, <2>6, <2>7, <2>8, OpenStep
<1> QED
  BY <1>1, <1>2, <1>3

\* Promotion decides on a candidate it has just seen; a discard names the committed one.
LEMMA DecisionSafe ==
    ASSUME SafetyInv, TypeOK', NEW r \in Request, NEW c \in Cred
    PROVE  /\ PromoteStaged(r, c) => SafetyInv'
           /\ \A b \in BOOLEAN : DiscardStaged(r, c, b) => SafetyInv'
<1> USE DEF dbVars, kvVars, histVars
<1>t. TypeOK
  BY DEF SafetyInv
<1>d. draft[r][c] \in Row /\ inv[c] \in Row
  BY <1>t DEF TypeOK, ReqTypeOK, DbTypeOK
<1>c. Open(r) =>
        /\ subj[r] \subseteq used
        /\ op[r] = "create" => subj[r] \cap rows = {}
        /\ op[r] # "create" => subj[r] \subseteq rows
        /\ \A q \in Request \ {r} : Claims(q) => subj[r] \cap subj[q] = {}
        /\ attempted[r] \subseteq subj[r]
        /\ attempted[r] # {} => op[r] \in WriteOps \cup {"discard"}
        /\ \A e \in Cred \ attempted[r] : wrote[r][e] = None
        /\ \A e \in subj[r] : DraftOK(r, e)
  BY DEF SafetyInv, ClaimInv, AttemptInv, DraftInv, Claims, Open
<1>1. ASSUME PromoteStaged(r, c) PROVE SafetyInv'
  <2>1. /\ OthersSame(r) /\ pc'[r] = "commit" /\ op'[r] = op[r] /\ subj'[r] = subj[r]
        /\ attempted'[r] = attempted[r] /\ wrote'[r] = wrote[r] /\ witness'[r] = witness[r]
        /\ unknown'[r] = unknown[r] /\ pc[r] = "body" /\ op[r] = "promote" /\ c \in subj[r]
        /\ draft[r][c].staged # None /\ <<c, draft[r][c].staged>> \in present
        /\ \A e \in Cred \ {c} : draft'[r][e] = draft[r][e]
        /\ UNCHANGED <<rows, inv, used, counter, present, everLive, external, late>>
    BY <1>1, <1>t DEF PromoteStaged, OthersSame, Same, TypeOK, ReqTypeOK
  <2>2. draft'[r][c] = [PromoteKeyIdentity(draft[r][c]) EXCEPT
                          !.live = draft[r][c].staged, !.staged = None, !.status = "active"]
    BY <1>1, <1>t DEF PromoteStaged, TypeOK, ReqTypeOK
  <2>3. PromoteKeyIdentity(draft[r][c]) \in Row
    BY <1>d, IdentityType
  <2>4. draft'[r][c].live = draft[r][c].staged /\ draft'[r][c].staged = None
    BY <2>2, <2>3 DEF Row
  <2>5. Open(r) /\ Open(r)'
    BY <2>1 DEF Open
  <2>6. draft[r][c].staged = inv[c].staged
    BY <1>c, <2>1, <2>5 DEF DraftOK
  <2>7. \A e \in subj[r] : DraftOK(r, e)'
    <3>1. DraftOK(r, c)'
      BY <2>1, <2>4, <2>6 DEF DraftOK
    <3>2. ASSUME NEW e \in subj[r], e # c PROVE DraftOK(r, e)'
      <4>1. e \in Cred /\ DraftOK(r, e)
        BY <1>c, <1>t, <2>5 DEF TypeOK, ReqTypeOK
      <4> QED
        BY <2>1, <3>2, <4>1 DEF DraftOK
    <3> QED
      BY <3>1, <3>2
  <2>8. \A e \in Cred : (wrote'[r][e] <= counter[e]) /\ ~MayRemove(r, e)' /\ ~MayCommit(r, e)'
    BY <2>1 DEF SafetyInv, WrittenInv, MayRemove, MayCommit, WriteOps
  <2> QED
    BY <1>c, <2>1, <2>5, <2>7, <2>8, OpenStep
<1>2. ASSUME NEW b \in BOOLEAN, DiscardStaged(r, c, b) PROVE SafetyInv'
  <2>1. /\ OthersSame(r) /\ pc'[r] = "commit" /\ op'[r] = op[r] /\ subj'[r] = subj[r]
        /\ attempted'[r] = attempted[r] \cup {c}
        /\ wrote'[r][c] = draft[r][c].staged
        /\ \A e \in Cred \ {c} : wrote'[r][e] = wrote[r][e] /\ draft'[r][e] = draft[r][e]
        /\ witness'[r] \subseteq witness[r] \cup {c}
        /\ unknown'[r] = unknown[r] /\ pc[r] = "body" /\ op[r] = "discard" /\ c \in subj[r]
        /\ draft[r][c].staged # None
        /\ UNCHANGED <<rows, inv, used, counter, present, everLive, external, late>>
    BY <1>2, <1>t DEF DiscardStaged, OthersSame, Same, TypeOK, ReqTypeOK
  <2>2. draft'[r][c] = [ClearStagedKey(draft[r][c]) EXCEPT !.staged = None, !.status = "active"]
    BY <1>2, <1>t DEF DiscardStaged, TypeOK, ReqTypeOK
  <2>3. draft'[r][c].live = draft[r][c].live /\ draft'[r][c].staged = None
    BY <1>d, <2>2 DEF ClearStagedKey, Row
  <2>4. Open(r) /\ Open(r)'
    BY <2>1 DEF Open
  <2>5. draft[r][c].staged = inv[c].staged /\ (c \notin Legacy => draft[r][c].live = inv[c].live)
    BY <1>c, <2>1, <2>4 DEF DraftOK
  <2>6. \A e \in subj[r] : DraftOK(r, e)'
    <3>1. DraftOK(r, c)'
      BY <2>1, <2>3, <2>5 DEF DraftOK
    <3>2. ASSUME NEW e \in subj[r], e # c PROVE DraftOK(r, e)'
      <4>1. e \in Cred /\ DraftOK(r, e)
        BY <1>c, <1>t, <2>4 DEF TypeOK, ReqTypeOK
      <4> QED
        BY <2>1, <3>2, <4>1 DEF DraftOK
    <3> QED
      BY <3>1, <3>2
  <2>7. \A e \in attempted'[r] :
           /\ wrote'[r][e] = inv[e].staged /\ inv[e].staged # None
           /\ e \in witness'[r] => draft'[r][e].staged = None
    <3>1. attempted[r] \subseteq Cred
      BY <1>t DEF TypeOK, ReqTypeOK
    <3> QED
      BY <2>1, <2>3, <2>4, <2>5, <3>1 DEF SafetyInv, DiscardInv
  <2>8. \A e \in Cred : ~MayRemove(r, e)' /\ ~MayCommit(r, e)'
    BY <2>1 DEF MayRemove, MayCommit, WriteOps
  <2>9. \A e \in Cred : wrote'[r][e] <= counter[e]
    <3>1. c \in rows
      BY <1>c, <2>1, <2>4
    <3>2. inv[c].staged <= counter[c]
      BY <3>1 DEF SafetyInv, PointerInv
    <3>3. \A e \in Cred : wrote[r][e] <= counter[e]
      BY DEF SafetyInv, WrittenInv
    <3> QED
      BY <2>1, <2>5, <3>2, <3>3
  <2> QED
    BY <1>c, <2>1, <2>4, <2>6, <2>7, <2>8, <2>9, OpenStep
<1> QED
  BY <1>1, <1>2

--------------------------------------------------------------------------------
(***************************************************************************)
(* Steps that write a version: it is newer than everything known.          *)
(***************************************************************************)

\* A write that the mount accepted, answered or not, preserves the invariant.
LEMMA AcceptStep ==
    ASSUME SafetyInv, TypeOK', NEW r \in Request, NEW c \in Cred, OthersSame(r),
           WriteReady(r, c), Accepted(r, c),
           UNCHANGED <<rows, inv, used, everLive, external, late>>,
           op'[r] = op[r] /\ subj'[r] = subj[r] /\ attempted'[r] = attempted[r] \cup {c},
           pc'[r] \in {"body", "commit", "recover"},
           pc'[r] = "commit" => attempted'[r] = subj[r],
           pc'[r] # "recover" => \A e \in subj[r] : DraftOK(r, e)'
    PROVE  SafetyInv'
<1> DEFINE n == counter[c] + 1
<1>t. TypeOK
  BY DEF SafetyInv
<1>0. counter[c] \in Nat /\ n \in Nat /\ n > counter[c] /\ n # None
  BY <1>t DEF TypeOK, KvTypeOK, None
<1>1. /\ counter'[c] = n /\ \A e \in Cred \ {c} : counter'[e] = counter[e]
      /\ present' = present \cup {<<c, n>>}
      /\ wrote'[r][c] = n /\ \A e \in Cred \ {c} : wrote'[r][e] = wrote[r][e]
  BY <1>t DEF Accepted, TypeOK, KvTypeOK, ReqTypeOK
<1>2. /\ Open(r) /\ pc[r] = "body" /\ op[r] \in WriteOps /\ c \in subj[r] /\ c \notin attempted[r]
      /\ subj[r] \subseteq Cred
  BY <1>t DEF WriteReady, Open, TypeOK, ReqTypeOK
<1> HIDE DEF n
<1>3. \A e \in Cred : counter[e] \in Nat /\ counter'[e] \in Nat /\ counter[e] <= counter'[e]
  BY <1>t, <1>0, <1>1 DEF TypeOK, KvTypeOK
<1>a. \A q \in Request \ {r} : (Open(q)' <=> Open(q)) /\ (Claims(q)' <=> Claims(q))
  BY DEF OthersSame, Same, Open, Claims
<1>b. \A q \in Request \ {r}, e \in Cred :
         /\ (MayCommit(q, e)' <=> MayCommit(q, e))
         /\ (MayRemove(q, e)' <=> MayRemove(q, e))
         /\ wrote'[q][e] = wrote[q][e]
  BY DEF OthersSame, Same, Open, MayCommit, MayRemove
<1>v. /\ \A q \in Request, e \in Cred : wrote[q][e] <= counter[e]
      /\ \A q \in Request, e \in Cred : MayCommit(q, e) => <<e, wrote[q][e]>> \in present
      /\ \A q \in Request, e \in Cred : MayRemove(q, e) =>
            /\ e \notin Legacy => <<e, wrote[q][e]>> \notin everLive
            /\ e \in rows => inv[e].staged # wrote[q][e]
      /\ \A p, q \in Request, e \in Cred :
            p # q /\ MayRemove(q, e) /\ MayCommit(p, e) => wrote[p][e] # wrote[q][e]
  BY DEF SafetyInv, WrittenInv
<1>w. \A q \in Request, e \in Cred : wrote[q][e] \in Nat /\ wrote[q][e] <= counter[e]
  BY <1>t, <1>v DEF TypeOK, ReqTypeOK
<1>4. ClaimInv'
  <2>1. Claims(r) /\ subj[r] \subseteq used
    BY <1>2 DEF Claims, SafetyInv, ClaimInv
  <2>2. \A q \in Request :
          /\ pc'[q] # "idle" => subj'[q] \subseteq used'
          /\ Open(q)' /\ op'[q] = "create" => subj'[q] \cap rows' = {}
          /\ Open(q)' /\ op'[q] # "create" => subj'[q] \subseteq rows'
          /\ pc'[q] = "destroy" => subj'[q] \cap rows' = {}
    BY <1>2, <1>a, <2>1 DEF SafetyInv, ClaimInv, OthersSame, Same
  <2>3. \A p, q \in Request : p # q /\ Claims(p)' /\ Claims(q)' => subj'[p] \cap subj'[q] = {}
    BY <1>a, <2>1 DEF SafetyInv, ClaimInv, OthersSame, Same
  <2> QED
    BY <2>2, <2>3 DEF SafetyInv, ClaimInv
<1>5. AttemptInv'
  <2>1. /\ attempted[r] \subseteq subj[r]
        /\ \A e \in Cred \ attempted[r] : wrote[r][e] = None
    BY <1>2 DEF SafetyInv, AttemptInv
  <2>2. /\ attempted'[r] \subseteq subj'[r]
        /\ \A e \in Cred \ attempted'[r] : wrote'[r][e] = None
    BY <1>1, <1>2, <2>1
  <2>3. pc'[r] \notin {"idle", "waiting", "finish", "destroy"} /\ op'[r] \in WriteOps
    BY <1>2
  <2> SUFFICES ASSUME NEW q \in Request, q # r
               PROVE  /\ attempted'[q] \subseteq subj'[q]
                      /\ attempted'[q] # {} => op'[q] \in WriteOps \cup {"discard"}
                      /\ pc'[q] \in {"idle", "waiting"} => attempted'[q] = {}
                      /\ pc'[q] \in {"idle", "waiting", "body", "commit"} =>
                            \A e \in Cred \ attempted'[q] : wrote'[q][e] = None
                      /\ pc'[q] = "waiting" => op'[q] # "create"
                      /\ pc'[q] = "finish" => op'[q] = "discard"
                      /\ pc'[q] = "destroy" => op'[q] = "delete"
                      /\ pc'[q] = "commit" /\ op'[q] = "create" => attempted'[q] = subj'[q]
    BY <2>2, <2>3 DEF AttemptInv
  <2>4. Same(q)
    BY DEF OthersSame
  <2> QED
    BY <2>4 DEF SafetyInv, AttemptInv, Same
<1>6. DraftInv'
  <2> SUFFICES ASSUME NEW q \in Request, Open(q)', NEW e \in subj'[q]
               PROVE  DraftOK(q, e)'
    BY DEF DraftInv
  <2>1. CASE q = r
    BY <2>1 DEF Open
  <2>2. CASE q # r
    <3>1. Same(q) /\ Open(q) /\ e \in subj[q]
      BY <1>a, <2>2 DEF OthersSame, Same
    <3>2. DraftOK(q, e)
      BY <3>1 DEF SafetyInv, DraftInv
    <3> QED
      BY <1>1, <3>1, <3>2 DEF DraftOK, Same
  <2> QED
    BY <2>1, <2>2
<1>7. DiscardInv'
  BY <1>2, <1>a DEF SafetyInv, DiscardInv, OthersSame, Same, WriteOps
<1>8. PointerInv'
  <2>1. \A p \in everLive :
           p[1] \in rows /\ (p[1] \notin Legacy => p[2] # None /\ p[2] <= counter'[p[1]])
    <3> SUFFICES ASSUME NEW p \in everLive
                 PROVE  /\ p[1] \in rows
                        /\ p[1] \notin Legacy => p[2] # None /\ p[2] <= counter'[p[1]]
      OBVIOUS
    <3>1. p[1] \in Cred /\ p[2] \in Nat
      BY <1>t DEF TypeOK, HistTypeOK, Pairs
    <3> QED
      BY <1>3, <3>1 DEF SafetyInv, PointerInv
  <2>2. \A e \in rows : inv[e].staged <= counter'[e]
    <3> SUFFICES ASSUME NEW e \in rows PROVE inv[e].staged <= counter'[e]
      OBVIOUS
    <3>1. e \in Cred /\ inv[e].staged \in Nat
      BY <1>t DEF TypeOK, DbTypeOK, Row
    <3> QED
      BY <1>3, <3>1 DEF SafetyInv, PointerInv
  <2> QED
    BY <2>1, <2>2 DEF SafetyInv, PointerInv
<1>9. WrittenInv'
  <2>f. /\ c \notin Legacy => <<c, n>> \notin everLive
        /\ c \in rows => inv[c].staged # n
    <3>1. c \notin Legacy /\ <<c, n>> \in everLive => n <= counter[c]
      BY DEF SafetyInv, PointerInv
    <3>2. c \in rows => inv[c].staged \in Nat /\ inv[c].staged <= counter[c]
      BY <1>t DEF SafetyInv, PointerInv, TypeOK, DbTypeOK, Row
    <3> QED
      BY <1>0, <3>1, <3>2
  <2>m. \A q \in Request, e \in Cred : q # r \/ e # c =>
           /\ wrote'[q][e] = wrote[q][e]
           /\ MayRemove(q, e)' => MayRemove(q, e)
           /\ MayCommit(q, e)' => MayCommit(q, e)
    <3> SUFFICES ASSUME NEW q \in Request, NEW e \in Cred, q # r \/ e # c
                 PROVE  /\ wrote'[q][e] = wrote[q][e]
                        /\ MayRemove(q, e)' => MayRemove(q, e)
                        /\ MayCommit(q, e)' => MayCommit(q, e)
      OBVIOUS
    <3>1. CASE q # r
      BY <1>b, <3>1
    <3>2. CASE q = r /\ e # c
      BY <1>1, <1>2, <3>2 DEF MayRemove, MayCommit
    <3> QED
      BY <3>1, <3>2
  <2>n. \A q \in Request : wrote[q][c] # n
    BY <1>0, <1>w
  <2>1. \A q \in Request, e \in Cred : wrote'[q][e] <= counter'[e]
    <3> SUFFICES ASSUME NEW q \in Request, NEW e \in Cred PROVE wrote'[q][e] <= counter'[e]
      OBVIOUS
    <3>1. CASE q = r /\ e = c
      BY <1>0, <1>1, <3>1
    <3>2. CASE q # r \/ e # c
      BY <1>3, <1>w, <2>m, <3>2
    <3> QED
      BY <3>1, <3>2
  <2>2. ASSUME NEW q \in Request, NEW e \in Cred, MayCommit(q, e)'
        PROVE  <<e, wrote'[q][e]>> \in present'
    <3>1. CASE q = r /\ e = c
      BY <1>1, <3>1
    <3>2. CASE q # r \/ e # c
      BY <1>1, <1>v, <2>2, <2>m, <3>2
    <3> QED
      BY <3>1, <3>2
  <2>3. ASSUME NEW q \in Request, NEW e \in Cred, MayRemove(q, e)'
        PROVE  /\ e \notin Legacy => <<e, wrote'[q][e]>> \notin everLive
               /\ e \in rows => inv[e].staged # wrote'[q][e]
    <3>1. CASE q = r /\ e = c
      BY <1>1, <2>f, <3>1
    <3>2. CASE q # r \/ e # c
      BY <1>v, <2>3, <2>m, <3>2
    <3> QED
      BY <3>1, <3>2
  <2>4. ASSUME NEW q \in Request, NEW e \in Cred, MayRemove(q, e)',
               NEW p \in Request \ {q}, MayCommit(p, e)'
        PROVE  wrote'[p][e] # wrote'[q][e]
    <3>1. CASE e = c /\ q = r
      BY <1>1, <2>m, <2>n, <3>1
    <3>2. CASE e = c /\ p = r
      BY <1>1, <2>m, <2>n, <3>2
    <3>3. CASE e # c \/ (q # r /\ p # r)
      BY <1>v, <2>4, <2>m, <3>3
    <3> QED
      BY <3>1, <3>2, <3>3
  <2> QED
    BY <2>1, <2>2, <2>3, <2>4 DEF WrittenInv
<1>10. ServedVersionsSurvive' /\ StagedCandidateSurvives'
  BY <1>1 DEF SafetyInv, ServedVersionsSurvive, StagedCandidateSurvives
<1> QED
  BY <1>4, <1>5, <1>6, <1>7, <1>8, <1>9, <1>10 DEF SafetyInv

\* Storing, with or without an answer, and a refused store.
LEMMA StoreSafe ==
    ASSUME SafetyInv, TypeOK', NEW r \in Request, NEW c \in Cred
    PROVE  /\ \A b \in BOOLEAN : StoreMaterial(r, c, b) => SafetyInv'
           /\ StoreLost(r, c) => SafetyInv'
           /\ StoreRefused(r, c) => SafetyInv'
<1> USE DEF dbVars, kvVars, histVars
<1>t. TypeOK
  BY DEF SafetyInv
<1>1. ASSUME NEW b \in BOOLEAN, StoreMaterial(r, c, b) PROVE SafetyInv'
  <2> DEFINE n == counter[c] + 1
             d == draft[r][c]
  <2>1. /\ OthersSame(r) /\ op'[r] = op[r] /\ subj'[r] = subj[r] /\ pc[r] = "body"
        /\ op[r] \in WriteOps /\ c \in subj[r] /\ c \notin attempted[r]
        /\ attempted'[r] = attempted[r] \cup {c} /\ witness'[r] \subseteq witness[r] \cup {c}
        /\ pc'[r] = (IF attempted[r] \cup {c} = subj[r] THEN "commit" ELSE "body")
        /\ UNCHANGED <<rows, inv, used, everLive, external, late>>
    BY <1>1, <1>t DEF StoreMaterial, WriteReady, Accepted, OthersSame, Same, TypeOK, ReqTypeOK
  <2>2. /\ wrote'[r][c] = n /\ \A e \in Cred \ {c} : wrote'[r][e] = wrote[r][e]
        /\ draft'[r][c] = Stored(op[r], c, d, n)
        /\ \A e \in Cred \ {c} : draft'[r][e] = draft[r][e]
    BY <1>1, <1>t DEF StoreMaterial, Accepted, TypeOK, ReqTypeOK
  <2>3. n \in Nat /\ n # None /\ d \in Row /\ KeyOf(c, n) \in Nat /\ inv[c] \in Row
    BY <1>t, KeyOfType DEF TypeOK, ReqTypeOK, DbTypeOK, KvTypeOK, None
  <2> HIDE DEF n, d
  <2>4. op[r] # "stage" => draft'[r][c].live = n /\ draft'[r][c].staged = None
    <3>1. RecordLiveKey(d, KeyOf(c, n)) \in Row
      BY <2>3, IdentityType
    <3> QED
      BY <2>2, <2>3, <3>1 DEF Stored, Row
  <2>o. DraftOK(r, c) /\ (op[r] # "create" => c \in rows)
    BY <2>1 DEF SafetyInv, DraftInv, ClaimInv, Open
  <2>5. op[r] = "stage" => /\ draft'[r][c].staged = n
                           /\ c \notin Legacy => draft'[r][c].live = inv[c].live
    <3> SUFFICES ASSUME op[r] = "stage"
                 PROVE  /\ draft'[r][c].staged = n
                        /\ c \notin Legacy => draft'[r][c].live = inv[c].live
      OBVIOUS
    <3>1. Pinned(d) \in Row /\ (d.live # None => Pinned(d).live = d.live)
      BY <2>3 DEF Pinned, Row
    <3>2. draft'[r][c].staged = n /\ draft'[r][c].live = Pinned(d).live
      BY <2>2, <2>3, <3>1 DEF Stored, Row
    <3>3. c \notin Legacy => d.live = inv[c].live
      BY <2>1, <2>o DEF DraftOK, d
    <3>4. c \notin Legacy => inv[c].live # None
      <4> SUFFICES ASSUME c \notin Legacy PROVE inv[c].live # None
        OBVIOUS
      <4>1. <<c, inv[c].live>> \in everLive
        BY <2>o DEF SafetyInv, PointerInv
      <4>2. <<c, inv[c].live>>[2] # None
        BY <4>1 DEF SafetyInv, PointerInv
      <4> QED
        BY <4>2
    <3> QED
      BY <3>1, <3>2, <3>3, <3>4
  <2>6. ASSUME NEW e \in subj[r] PROVE DraftOK(r, e)'
    <3>1. CASE e = c
      BY <2>1, <2>2, <2>3, <2>4, <2>5, <3>1 DEF DraftOK, WriteOps
    <3>2. CASE e # c
      <4>1. e \in Cred /\ DraftOK(r, e)
        BY <1>t, <2>1 DEF TypeOK, ReqTypeOK, SafetyInv, DraftInv, Open
      <4>2. wrote'[r][e] = wrote[r][e] /\ draft'[r][e] = draft[r][e]
        BY <2>2, <3>2, <4>1
      <4> QED
        BY <2>1, <3>2, <4>1, <4>2 DEF DraftOK, WriteOps
    <3> QED
      BY <3>1, <3>2
  <2>7. WriteReady(r, c) /\ Accepted(r, c)
    BY <1>1 DEF StoreMaterial
  <2> QED
    BY <2>1, <2>6, <2>7, AcceptStep
<1>2. ASSUME StoreLost(r, c) PROVE SafetyInv'
  <2>1. /\ OthersSame(r) /\ op'[r] = op[r] /\ subj'[r] = subj[r] /\ pc'[r] = "recover"
        /\ attempted'[r] = attempted[r] \cup {c}
        /\ UNCHANGED <<rows, inv, used, everLive, external, late>>
        /\ WriteReady(r, c) /\ Accepted(r, c)
    BY <1>2, <1>t DEF StoreLost, AttemptFails, Accepted, OthersSame, Same, TypeOK, ReqTypeOK
  <2> QED
    BY <2>1, AcceptStep
<1>3. ASSUME StoreRefused(r, c) PROVE SafetyInv'
  <2>1. /\ OthersSame(r) /\ op'[r] = op[r] /\ subj'[r] = subj[r] /\ pc'[r] = "recover"
        /\ attempted'[r] = attempted[r] \cup {c} /\ wrote'[r] = wrote[r]
        /\ unknown'[r] = unknown[r] /\ pc[r] = "body" /\ op[r] \in WriteOps
        /\ c \in subj[r] /\ c \notin attempted[r]
        /\ UNCHANGED <<rows, inv, used, counter, present, everLive, external, late>>
    BY <1>3, <1>t DEF StoreRefused, WriteReady, AttemptFails, OthersSame, Same, TypeOK, ReqTypeOK
  <2>2. wrote[r][c] = None /\ attempted[r] \subseteq subj[r] /\ subj[r] \subseteq used
    BY <2>1 DEF SafetyInv, AttemptInv, ClaimInv
  <2>3. \A e \in Cred : MayRemove(r, e)' => MayRemove(r, e) /\ wrote'[r][e] = wrote[r][e]
    BY <2>1, <2>2 DEF MayRemove, Open
  <2>4. \A e \in Cred : wrote'[r][e] <= counter[e]
    BY <2>1 DEF SafetyInv, WrittenInv
  <2> QED
    BY <2>1, <2>2, <2>3, <2>4, CloseStep
<1> QED
  BY <1>1, <1>2, <1>3

--------------------------------------------------------------------------------
(***************************************************************************)
(* Durable transactions.                                                   *)
(***************************************************************************)

\* A transaction that becomes durable puts into service, or stages, only versions
\* that are readable and that nobody may still remove; r itself may then only finish
\* a discard, destroy deleted credentials or record an unknown outcome.
LEMMA ApplyStep ==
    ASSUME SafetyInv, TypeOK', NEW r \in Request, NEW lost, OthersSame(r),
           pc[r] = "commit", Witnessed(r), Apply(r, lost),
           UNCHANGED <<counter, present, used>>,
           \/ /\ pc'[r] = "idle" /\ attempted'[r] = {}
              /\ subj'[r] = {} /\ \A c \in Cred : wrote'[r][c] = None
           \/ /\ op'[r] = op[r] /\ subj'[r] = subj[r] /\ attempted'[r] = attempted[r]
              /\ wrote'[r] = wrote[r]
              /\ \/ pc'[r] = "recover" /\ unknown'[r]
                 \/ pc'[r] = "finish" /\ op[r] = "discard"
                 \/ pc'[r] = "destroy" /\ op[r] = "delete"
    PROVE  SafetyInv'
<1> DEFINE S == subj[r]
           kept == {c \in S : op[r] # "delete" /\ (op[r] = "create" => draft[r][c].kv # None)}
<1>t. TypeOK
  BY DEF SafetyInv
<1>0. /\ S \subseteq Cred /\ kept \subseteq S /\ rows \subseteq Cred
      /\ \A c \in Cred : draft[r][c] \in Row /\ inv[c] \in Row
  BY <1>t DEF TypeOK, ReqTypeOK, DbTypeOK
<1>a. /\ rows' = (IF op[r] = "delete" THEN rows \ S ELSE rows \cup kept)
      /\ \A c \in Cred : inv'[c] = IF c \in kept THEN draft[r][c]
                                    ELSE IF c \in rows' THEN inv[c] ELSE BlankRow
      /\ everLive' = {p \in everLive \cup
            {<<c, draft[r][c].live>> : c \in {d \in kept : draft[r][d].live # None}} :
                p[1] \in rows'}
      /\ external' = {p \in external : inv'[p[1]].staged = p[2]}
      /\ late' = {p \in late : p[1] \in rows'}
  BY DEF Apply
<1> HIDE DEF kept
<1>d. /\ kept \subseteq S
      /\ op[r] = "delete" => kept = {}
      /\ op[r] \notin {"create", "delete"} => kept = S
  BY DEF kept
<1>c. /\ Open(r) /\ Claims(r)
      /\ op[r] = "create" => S \cap rows = {} /\ attempted[r] = S
      /\ op[r] # "create" => S \subseteq rows
      /\ S \subseteq used /\ attempted[r] \subseteq S
      /\ attempted[r] # {} => op[r] \in WriteOps \cup {"discard"}
      /\ op[r] # "delete" => attempted[r] \subseteq witness[r]
      /\ \A q \in Request \ {r} : Claims(q) => S \cap subj[q] = {}
  BY DEF Open, Claims, SafetyInv, ClaimInv, AttemptInv, Witnessed
<1>1. /\ kept \subseteq rows' /\ rows \ S \subseteq rows' /\ rows' \subseteq (rows \ S) \cup kept
      /\ \A c \in kept : inv'[c] = draft[r][c]
      /\ \A c \in rows' \ kept : c \in rows /\ c \notin S /\ inv'[c] = inv[c]
      /\ op[r] = "delete" => rows' \cap S = {}
  <2>1. kept \subseteq rows' /\ rows \ S \subseteq rows' /\ (op[r] = "delete" => rows' \cap S = {})
    BY <1>a, <1>d
  <2>2. rows' \subseteq (rows \ S) \cup kept
    BY <1>a, <1>c, <1>d
  <2> QED
    BY <1>0, <1>a, <1>d, <2>1, <2>2
<1>s. \A q \in Request \ {r} : (Open(q)' <=> Open(q)) /\ (Claims(q)' <=> Claims(q))
  BY DEF OthersSame, Same, Open, Claims
<1>m. \A q \in Request \ {r}, c \in Cred :
         /\ (MayCommit(q, c)' <=> MayCommit(q, c))
         /\ (MayRemove(q, c)' <=> MayRemove(q, c))
         /\ wrote'[q][c] = wrote[q][c]
  BY DEF OthersSame, Same, Open, MayCommit, MayRemove
<1>n. ~Open(r)' /\ \A c \in Cred : ~MayCommit(r, c)'
  BY DEF Open, MayCommit
<1>v. /\ \A q \in Request, c \in Cred : wrote[q][c] <= counter[c]
      /\ \A q \in Request, c \in Cred : MayCommit(q, c) => <<c, wrote[q][c]>> \in present
      /\ \A q \in Request, c \in Cred : MayRemove(q, c) =>
            /\ c \notin Legacy => <<c, wrote[q][c]>> \notin everLive
            /\ c \in rows => inv[c].staged # wrote[q][c]
      /\ \A p, q \in Request, c \in Cred :
            p # q /\ MayRemove(q, c) /\ MayCommit(p, c) => wrote[p][c] # wrote[q][c]
  BY DEF SafetyInv, WrittenInv
<1>p. /\ \A c \in rows \ Legacy :
            /\ <<c, inv[c].live>> \in everLive /\ <<c, inv[c].live>> \in present \cup late
            /\ inv[c].live # None /\ inv[c].live <= counter[c]
            /\ inv[c].staged # None => <<c, inv[c].staged>> \notin everLive
      /\ \A c \in rows : inv[c].staged <= counter[c]
      /\ \A c \in rows : inv[c].staged # None => <<c, inv[c].staged>> \in present \cup external
  <2>1. ASSUME NEW c \in rows \ Legacy
        PROVE  /\ <<c, inv[c].live>> \in everLive /\ <<c, inv[c].live>> \in present \cup late
               /\ inv[c].live # None /\ inv[c].live <= counter[c]
               /\ inv[c].staged # None => <<c, inv[c].staged>> \notin everLive
    <3> DEFINE p == <<c, inv[c].live>>
    <3>1. p \in everLive /\ (inv[c].staged # None => <<c, inv[c].staged>> \notin everLive)
      BY DEF SafetyInv, PointerInv
    <3>2. p[1] = c /\ p[2] = inv[c].live
      OBVIOUS
    <3> HIDE DEF p
    <3>3. p[2] # None /\ p[2] <= counter[p[1]] /\ p \in present \cup late
      BY <3>1, <3>2 DEF SafetyInv, PointerInv, ServedVersionsSurvive
    <3> QED
      BY <3>1, <3>2, <3>3 DEF p
  <2> QED
    BY <2>1 DEF SafetyInv, PointerInv, StagedCandidateSurvives
\* What a durable draft makes live, and what it stages.
<1> DEFINE LiveOK(c) ==
               /\ draft[r][c].live # None /\ draft[r][c].live <= counter[c]
               /\ <<c, draft[r][c].live>> \in present \cup late
               /\ draft[r][c].staged # None => <<c, draft[r][c].live>> \in everLive
               /\ \A q \in Request \ {r} : MayRemove(q, c) => wrote[q][c] # draft[r][c].live
           StagedOK(c) ==
               /\ draft[r][c].staged <= counter[c]
               /\ <<c, draft[r][c].staged>> \in present \cup external
               /\ c \notin Legacy => <<c, draft[r][c].staged>> \notin everLive
               /\ \A q \in Request \ {r} : MayRemove(q, c) => wrote[q][c] # draft[r][c].staged
<1>e. ASSUME NEW c \in kept
      PROVE  (c \notin Legacy => LiveOK(c)) /\ (draft[r][c].staged # None => StagedOK(c))
  <2>0. c \in S /\ c \in Cred /\ (op[r] # "create" => c \in rows) /\ DraftOK(r, c)
    BY <1>0, <1>c, <1>d DEF SafetyInv, DraftInv
  <2>1. CASE /\ op[r] # "create" /\ draft[r][c].staged \in {inv[c].staged, None}
             /\ c \notin Legacy => draft[r][c].live = inv[c].live
    <3>1. ASSUME NEW q \in Request \ {r}, MayRemove(q, c)
          PROVE  inv[c].staged # wrote[q][c] /\ (c \notin Legacy => inv[c].live # wrote[q][c])
      BY <1>p, <1>v, <2>0, <2>1, <3>1
    <3> QED
      BY <1>p, <2>0, <2>1, <3>1
  <2>2. CASE /\ op[r] \in {"create", "rotate", "update"} /\ c \in attempted[r]
             /\ wrote[r][c] # None /\ draft[r][c].live = wrote[r][c] /\ draft[r][c].staged = None
    <3>1. MayCommit(r, c)
      BY <1>c, <2>2 DEF MayCommit, WriteOps
    <3> QED
      BY <1>v, <2>0, <2>2, <3>1
  <2>3. CASE /\ op[r] = "stage" /\ c \in attempted[r] /\ wrote[r][c] # None
             /\ draft[r][c].staged = wrote[r][c]
             /\ c \notin Legacy => draft[r][c].live = inv[c].live
    <3>1. MayCommit(r, c) /\ MayRemove(r, c)
      BY <1>c, <2>3 DEF MayCommit, MayRemove, WriteOps
    <3>2. c \notin Legacy => \A q \in Request \ {r} : MayRemove(q, c) => inv[c].live # wrote[q][c]
      BY <1>p, <1>v, <2>0, <2>3
    <3>3. StagedOK(c)
      BY <1>v, <2>0, <2>3, <3>1
    <3> QED
      BY <1>p, <2>0, <2>3, <3>2, <3>3
  <2>4. CASE /\ op[r] = "promote" /\ draft[r][c].live = inv[c].staged /\ inv[c].staged # None
             /\ draft[r][c].staged = None /\ <<c, draft[r][c].live>> \in present \cup late
    BY <1>p, <1>v, <2>0, <2>4
  <2>5. ~(op[r] = "create" /\ c \notin attempted[r] \cap witness[r])
    BY <1>c, <2>0
  <2> QED
    BY <2>0, <2>1, <2>2, <2>3, <2>4, <2>5 DEF DraftOK
<1> HIDE DEF LiveOK, StagedOK
<1>2. ClaimInv'
  <2>1. rows' \subseteq used'
    BY <1>1, <1>c, <1>d DEF SafetyInv, ClaimInv
  <2>2. ASSUME NEW q \in Request
        PROVE  /\ pc'[q] # "idle" => subj'[q] \subseteq used'
               /\ Open(q)' /\ op'[q] = "create" => subj'[q] \cap rows' = {}
               /\ Open(q)' /\ op'[q] # "create" => subj'[q] \subseteq rows'
               /\ pc'[q] = "destroy" => subj'[q] \cap rows' = {}
    <3>1. CASE q = r
      BY <1>1, <1>c, <1>n, <3>1
    <3>2. CASE q # r
      <4>1. Same(q) /\ (Open(q)' <=> Open(q))
        BY <1>s, <3>2 DEF OthersSame
      <4>2. Claims(q) => S \cap subj[q] = {}
        BY <1>c, <3>2
      <4>3. /\ pc[q] # "idle" => subj[q] \subseteq used
            /\ Open(q) /\ op[q] = "create" => subj[q] \cap rows = {}
            /\ Open(q) /\ op[q] # "create" => subj[q] \subseteq rows
            /\ pc[q] = "destroy" => subj[q] \cap rows = {}
        BY DEF SafetyInv, ClaimInv
      <4> QED
        BY <1>1, <1>d, <4>1, <4>2, <4>3 DEF Same, Claims
    <3> QED
      BY <3>1, <3>2
  <2>3. Claims(r)' => subj'[r] = S
    BY <1>n DEF Claims
  <2>4. \A p, q \in Request : p # q /\ Claims(p)' /\ Claims(q)' => subj'[p] \cap subj'[q] = {}
    BY <1>c, <1>s, <2>3 DEF SafetyInv, ClaimInv, OthersSame, Same
  <2> QED
    BY <2>1, <2>2, <2>4 DEF ClaimInv
<1>3. AttemptInv'
  BY <1>c DEF SafetyInv, AttemptInv, OthersSame, Same
<1>x. ASSUME NEW q \in Request \ {r}, Open(q), NEW c \in subj[q]
      PROVE  c \in Cred /\ c \notin S /\ c \notin kept
             /\ (op[q] # "create" => c \in rows /\ c \in rows' /\ inv'[c] = inv[c])
  <2>1. c \in Cred /\ c \notin S /\ c \notin kept
    BY <1>t, <1>c, <1>d, <1>x DEF Claims, TypeOK, ReqTypeOK
  <2>2. op[q] # "create" => c \in rows
    BY <1>x DEF SafetyInv, ClaimInv
  <2> QED
    BY <1>1, <2>1, <2>2
<1>4. DraftInv'
  <2> SUFFICES ASSUME NEW q \in Request, Open(q)', NEW c \in subj'[q]
               PROVE  DraftOK(q, c)'
    BY DEF DraftInv
  <2>1. q # r /\ Same(q) /\ Open(q) /\ c \in subj[q]
    BY <1>n, <1>s DEF OthersSame, Same
  <2>2. DraftOK(q, c)
    BY <2>1 DEF SafetyInv, DraftInv
  <2>3. op[q] # "create" => c \in rows' /\ inv'[c] = inv[c]
    BY <1>x, <2>1
  <2>4. op[q] # "create" /\ <<c, draft[q][c].live>> \in late => <<c, draft[q][c].live>> \in late'
    BY <1>a, <2>3
  <2> QED
    BY <2>1, <2>2, <2>3, <2>4 DEF DraftOK, Same
<1>5. DiscardInv'
  <2> SUFFICES ASSUME NEW q \in Request, Open(q)', op'[q] = "discard", NEW c \in attempted'[q]
               PROVE  /\ wrote'[q][c] = inv'[c].staged /\ inv'[c].staged # None
                      /\ c \in witness'[q] => draft'[q][c].staged = None
    BY DEF DiscardInv
  <2>1. q # r /\ Same(q) /\ Open(q) /\ op[q] = "discard" /\ c \in attempted[q] /\ c \in subj[q]
    BY <1>n, <1>s DEF OthersSame, Same, SafetyInv, AttemptInv
  <2>2. inv'[c] = inv[c]
    BY <1>x, <2>1
  <2> QED
    BY <2>1, <2>2 DEF SafetyInv, DiscardInv, Same
\* A pair in everLive' is old, or made live by the draft of a kept row.
<1>y. ASSUME NEW p \in everLive'
      PROVE  /\ p[1] \in rows' /\ p = <<p[1], p[2]>>
             /\ p \in everLive \/ (p[1] \in kept /\ p[2] = draft[r][p[1]].live)
  <2>1. p \in Pairs
    BY DEF TypeOK, HistTypeOK, Pairs
  <2> QED
    BY <1>a, <1>y, <2>1 DEF Pairs
<1>z. ASSUME NEW c \in Cred, NEW v \in Nat, <<c, v>> \in everLive'
      PROVE  c \in rows' /\ (<<c, v>> \in everLive \/ (c \in kept /\ v = draft[r][c].live))
  BY <1>y, <1>z
<1>w. \A c \in Cred : /\ draft[r][c].live \in Nat /\ draft[r][c].staged \in Nat
                      /\ inv[c].live \in Nat /\ inv[c].staged \in Nat
                      /\ counter[c] \in Nat /\ \A q \in Request : wrote[q][c] \in Nat
  BY <1>0, <1>t DEF Row, TypeOK, KvTypeOK, ReqTypeOK
<1>6. PointerInv'
  <2>1. ASSUME NEW p \in everLive'
        PROVE  /\ p[1] \in rows'
               /\ p[1] \notin Legacy => p[2] # None /\ p[2] <= counter'[p[1]]
    <3>1. CASE p \in everLive
      BY <1>y, <2>1, <3>1 DEF SafetyInv, PointerInv
    <3>2. CASE p[1] \in kept /\ p[2] = draft[r][p[1]].live
      BY <1>e, <1>y, <2>1, <3>2 DEF LiveOK
    <3> QED
      BY <1>y, <2>1, <3>1, <3>2
  <2>2. ASSUME NEW c \in rows' PROVE inv'[c].staged <= counter'[c]
    <3>0. c \in Cred
      BY <1>0, <1>1, <1>d
    <3>1. CASE c \in kept
      <4>1. inv'[c] = draft[r][c] /\ (draft[r][c].staged # None => draft[r][c].staged <= counter[c])
        BY <1>1, <1>e, <3>1 DEF StagedOK
      <4>2. counter[c] \in Nat /\ None <= counter[c]
        BY <1>w, <3>0 DEF None
      <4> QED
        BY <4>1, <4>2
    <3>2. CASE c \notin kept
      BY <1>1, <1>p, <3>2
    <3> QED
      BY <3>1, <3>2
  <2>3. ASSUME NEW c \in rows' \ Legacy
        PROVE  /\ <<c, inv'[c].live>> \in everLive'
               /\ inv'[c].staged # None => <<c, inv'[c].staged>> \notin everLive'
    <3>0. c \in Cred
      BY <1>0, <1>1, <1>d
    <3>1. CASE c \in kept
      <4>1. inv'[c] = draft[r][c] /\ draft[r][c].live # None
        BY <1>1, <1>e, <3>1 DEF LiveOK
      <4>2. <<c, draft[r][c].live>> \in everLive'
        BY <1>a, <3>1, <4>1
      <4>3. draft[r][c].staged # None =>
               /\ <<c, draft[r][c].staged>> \notin everLive
               /\ <<c, draft[r][c].live>> \in everLive
        BY <1>e, <3>1 DEF LiveOK, StagedOK
      <4>4. draft[r][c].staged # None => draft[r][c].staged # draft[r][c].live
        BY <4>3
      <4>5. draft[r][c].staged # None => <<c, draft[r][c].staged>> \notin everLive'
        BY <1>w, <1>z, <3>0, <4>3, <4>4
      <4> QED
        BY <4>1, <4>2, <4>5
    <3>2. CASE c \notin kept
      <4>1. c \in rows \ Legacy /\ inv'[c] = inv[c]
        BY <1>1, <3>2
      <4>2. <<c, inv[c].live>> \in everLive'
        BY <1>a, <1>p, <4>1
      <4>3. inv[c].staged # None => <<c, inv[c].staged>> \notin everLive'
        BY <1>p, <1>w, <1>z, <3>0, <3>2, <4>1
      <4> QED
        BY <4>1, <4>2, <4>3
    <3> QED
      BY <3>1, <3>2
  <2> QED
    BY <2>1, <2>2, <2>3 DEF PointerInv
<1>7. WrittenInv'
  <2>1. ASSUME NEW q \in Request, NEW c \in Cred PROVE wrote'[q][c] <= counter'[c]
    <3>1. CASE q = r
      BY <1>v, <1>w, <3>1 DEF None
    <3>2. CASE q # r
      BY <1>m, <1>v, <3>2
    <3> QED
      BY <3>1, <3>2
  <2>2. \A q \in Request, c \in Cred :
           MayCommit(q, c)' => q # r /\ MayCommit(q, c) /\ <<c, wrote'[q][c]>> \in present'
    BY <1>m, <1>n, <1>v
  <2>3. ASSUME NEW q \in Request, NEW c \in Cred, MayRemove(q, c)', q # r
        PROVE  /\ c \notin Legacy => <<c, wrote'[q][c]>> \notin everLive'
               /\ c \in rows' => inv'[c].staged # wrote'[q][c]
    <3>1. MayRemove(q, c) /\ wrote'[q][c] = wrote[q][c] /\ wrote[q][c] # None
      BY <1>m, <2>3 DEF MayRemove
    <3>2. ASSUME c \notin Legacy PROVE <<c, wrote[q][c]>> \notin everLive'
      BY <1>e, <1>v, <1>w, <1>z, <2>3, <3>1, <3>2 DEF LiveOK
    <3>3. ASSUME c \in rows' PROVE inv'[c].staged # wrote[q][c]
      <4>1. CASE c \in kept
        BY <1>1, <1>e, <2>3, <3>1, <4>1 DEF StagedOK
      <4>2. CASE c \notin kept
        <5>1. c \in rows /\ inv'[c] = inv[c]
          BY <1>1, <3>3, <4>2
        <5> QED
          BY <1>v, <3>1, <5>1
      <4> QED
        BY <4>1, <4>2
    <3> QED
      BY <3>1, <3>2, <3>3
  \* The discard itself: its candidate is no longer staged and was never live.
  <2>4. ASSUME NEW c \in Cred, MayRemove(r, c)'
        PROVE  /\ c \notin Legacy => <<c, wrote'[r][c]>> \notin everLive'
               /\ c \in rows' => inv'[c].staged # wrote'[r][c]
               /\ \A q \in Request \ {r} : ~MayCommit(q, c)
    <3>1. /\ op[r] = "discard" /\ c \in attempted[r] /\ wrote'[r][c] = wrote[r][c]
          /\ wrote[r][c] # None
      BY <2>4 DEF MayRemove, Open, WriteOps
    <3>2. c \in S /\ c \in kept /\ c \in witness[r] /\ c \in rows
      BY <1>c, <1>d, <3>1
    <3>3. /\ wrote[r][c] = inv[c].staged /\ inv[c].staged # None
          /\ draft[r][c].staged = None
      BY <1>c, <3>1, <3>2 DEF SafetyInv, DiscardInv
    <3>4. c \notin Legacy => draft[r][c].live = inv[c].live
      <4>1. DraftOK(r, c)
        BY <1>c, <3>2 DEF SafetyInv, DraftInv
      <4> QED
        BY <3>1, <4>1 DEF DraftOK
    <3>5. c \notin Legacy => <<c, inv[c].staged>> \notin everLive /\ inv[c].staged # inv[c].live
      BY <1>p, <3>2, <3>3
    <3>6. c \notin Legacy => <<c, inv[c].staged>> \notin everLive'
      BY <1>w, <1>z, <3>4, <3>5
    <3>7. \A q \in Request \ {r} : ~MayCommit(q, c)
      BY <1>c, <3>2 DEF MayCommit, Claims, SafetyInv, AttemptInv
    <3> QED
      BY <1>1, <3>1, <3>2, <3>3, <3>6, <3>7
  <2>5. ASSUME NEW q \in Request, NEW c \in Cred, MayRemove(q, c)',
               NEW p \in Request \ {q}, MayCommit(p, c)'
        PROVE  wrote'[p][c] # wrote'[q][c]
    <3>1. p # r /\ MayCommit(p, c)
      BY <2>2, <2>5
    <3>2. q # r
      BY <2>4, <2>5, <3>1
    <3> QED
      BY <1>m, <1>v, <2>5, <3>1, <3>2
  <2> QED
    BY <2>5, <2>4, <2>3, <2>2, <2>1 DEF WrittenInv
<1>8. ServedVersionsSurvive'
  <2> SUFFICES ASSUME NEW p \in everLive', p[1] \in rows' \ Legacy
               PROVE  p \in present \cup late'
    BY DEF ServedVersionsSurvive
  <2>1. p \in present \cup late
    <3>1. CASE p \in everLive
      BY <3>1 DEF SafetyInv, PointerInv, ServedVersionsSurvive
    <3>2. CASE p[1] \in kept /\ p[2] = draft[r][p[1]].live
      BY <1>e, <1>y, <3>2 DEF LiveOK
    <3> QED
      BY <1>y, <3>1, <3>2
  <2> QED
    BY <1>a, <2>1
<1>9. StagedCandidateSurvives'
  <2> SUFFICES ASSUME NEW c \in rows', inv'[c].staged # None
               PROVE  <<c, inv'[c].staged>> \in present \cup external'
    BY DEF StagedCandidateSurvives
  <2>1. <<c, inv'[c].staged>> \in present \cup external
    <3>1. CASE c \in kept
      BY <1>1, <1>e, <3>1 DEF StagedOK
    <3>2. CASE c \notin kept
      BY <1>1, <1>p, <3>2
    <3> QED
      BY <3>1, <3>2
  <2> QED
    BY <1>a, <2>1
<1> QED
  BY <1>2, <1>3, <1>4, <1>5, <1>6, <1>7, <1>8, <1>9 DEF SafetyInv

\* Commit, with or without a failing callback, and a COMMIT whose answer is lost.
LEMMA CommitSafe ==
    ASSUME SafetyInv, TypeOK', NEW r \in Request
    PROVE  /\ Commit(r) => SafetyInv'
           /\ CallbackFails(r) => SafetyInv'
           /\ \A b \in BOOLEAN : CommitUnknown(r, b) => SafetyInv'
<1> USE DEF kvVars, histVars
<1>t. TypeOK
  BY DEF SafetyInv
<1>1. ASSUME Commit(r) PROVE SafetyInv'
  <2>1. pc[r] = "commit" /\ Witnessed(r) /\ Apply(r, {}) /\ UNCHANGED <<counter, present, used>>
    BY <1>1 DEF Commit
  <2>2. CASE op[r] \in {"discard", "delete"}
    <3>1. /\ OthersSame(r) /\ op'[r] = op[r] /\ subj'[r] = subj[r]
          /\ attempted'[r] = attempted[r] /\ wrote'[r] = wrote[r]
          /\ pc'[r] = (IF op[r] = "delete" THEN "destroy" ELSE "finish")
      BY <1>1, <1>t, <2>2 DEF Commit, OthersSame, Same, TypeOK, ReqTypeOK
    <3> QED
      BY <2>1, <2>2, <3>1, ApplyStep
  <2>3. CASE op[r] \notin {"discard", "delete"}
    BY <1>1, <1>t, <2>1, <2>3, ResetFacts, ApplyStep DEF Commit
  <2> QED
    BY <2>2, <2>3
<1>2. ASSUME CallbackFails(r) PROVE SafetyInv'
  BY <1>2, <1>t, ResetFacts, ApplyStep DEF CallbackFails
<1>3. ASSUME NEW b \in BOOLEAN, CommitUnknown(r, b) PROVE SafetyInv'
  <2>1. /\ pc[r] = "commit" /\ Witnessed(r) /\ Unwind(r, TRUE)
        /\ UNCHANGED <<counter, present, used>>
    BY <1>3 DEF CommitUnknown
  <2>2. CASE UNCHANGED <<rows, inv, histVars>>
    BY <2>1, <2>2, UnwindStep DEF Open
  <2>3. ASSUME NEW lost, Apply(r, lost) PROVE SafetyInv'
    <3>1. CASE attempted[r] = {}
      BY <1>t, <2>1, <2>3, <3>1, ResetFacts, ApplyStep DEF Unwind
    <3>2. CASE attempted[r] # {}
      <4>1. /\ OthersSame(r) /\ pc'[r] = "recover" /\ unknown'[r] /\ op'[r] = op[r]
            /\ subj'[r] = subj[r] /\ attempted'[r] = attempted[r] /\ wrote'[r] = wrote[r]
        BY <1>t, <2>1, <3>2 DEF Unwind, OthersSame, Same, TypeOK, ReqTypeOK
      <4> QED
        BY <2>1, <2>3, <4>1, ApplyStep
    <3> QED
      BY <3>1, <3>2
  <2> QED
    BY <1>3, <2>2, <2>3 DEF CommitUnknown
<1> QED
  BY <1>1, <1>2, <1>3

--------------------------------------------------------------------------------
(***************************************************************************)
(* After the transaction, and outside it.                                  *)
(***************************************************************************)

\* Requests that end, fail or die without touching the mount.
LEMMA EndingSafe ==
    ASSUME SafetyInv, TypeOK', NEW r \in Request
    PROVE  /\ LockRefused(r) => SafetyInv'
           /\ \A b \in BOOLEAN : BodyFails(r, b) => SafetyInv'
           /\ WitnessFails(r) => SafetyInv'
           /\ CommitRejected(r) => SafetyInv'
           /\ Crash(r) => SafetyInv'
<1> USE DEF dbVars, kvVars, histVars
<1>1. LockRefused(r) => SafetyInv'
  BY ResetStep DEF LockRefused
<1>2. ASSUME NEW b \in BOOLEAN, BodyFails(r, b) PROVE SafetyInv'
  BY <1>2, UnwindStep DEF BodyFails, Open
<1>3. WitnessFails(r) => SafetyInv'
  BY UnwindStep DEF WitnessFails, Open
<1>4. CommitRejected(r) => SafetyInv'
  BY UnwindStep DEF CommitRejected, Open
<1>5. Crash(r) => SafetyInv'
  BY ResetStep DEF Crash
<1> QED
  BY <1>1, <1>2, <1>3, <1>4, <1>5

\* A version that r may remove is expendable.
LEMMA RemovalExpendable ==
    ASSUME SafetyInv, NEW r \in Request, NEW c \in Cred, MayRemove(r, c)
    PROVE  Expendable(r, c, wrote[r][c])
BY DEF SafetyInv, WrittenInv, Expendable

\* Compensation, the cleanup of a discarded candidate and the destruction of a
\* deleted credential remove only what nobody counts on.
LEMMA CleanupSafe ==
    ASSUME SafetyInv, TypeOK', NEW r \in Request, NEW c \in Cred, NEW b \in BOOLEAN
    PROVE  /\ Recover(r, c, b) => SafetyInv'
           /\ FinishDeletion(r, c, b) => SafetyInv'
           /\ DestroyMaterial(r, c, b) => SafetyInv'
<1> USE DEF dbVars, kvVars, histVars
<1>t. TypeOK
  BY DEF SafetyInv
<1>0. ASSUME pc[r] \in {"recover", "finish"}, c \in attempted[r],
             present' \in {present, present \ {<<c, wrote[r][c]>>}},
             MayRemove(r, c) \/ wrote[r][c] = None \/ present' = present
      PROVE  /\ present' \subseteq present
             /\ \A e \in Cred, v \in Nat :
                   <<e, v>> \in present /\ <<e, v>> \notin present' => Expendable(r, e, v)
  <2> SUFFICES ASSUME NEW e \in Cred, NEW v \in Nat, <<e, v>> \in present, <<e, v>> \notin present'
               PROVE  Expendable(r, e, v)
    BY <1>0
  <2>1. e = c /\ v = wrote[r][c] /\ present' # present
    BY <1>0
  <2>2. CASE MayRemove(r, c)
    BY <2>1, <2>2, RemovalExpendable
  <2>3. CASE wrote[r][c] = None
    <3>1. c \in rows \ Legacy => <<c, None>> \notin everLive
      BY DEF SafetyInv, PointerInv
    <3> QED
      BY <2>1, <2>3, <3>1 DEF Expendable, MayCommit
  <2> QED
    BY <1>0, <2>1, <2>2, <2>3
<1>1. ASSUME Recover(r, c, b) PROVE SafetyInv'
  <2>1. /\ pc[r] = "recover" /\ c \in attempted[r]
        /\ UNCHANGED <<rows, inv, used, counter, everLive, external, late>>
    BY <1>1 DEF Recover
  <2>2. /\ attempted[r] \subseteq subj[r] /\ op[r] \in WriteOps \cup {"discard"}
        /\ subj[r] \subseteq used
    BY <2>1 DEF SafetyInv, AttemptInv, ClaimInv
  <2>3. present' \in {present, present \ {<<c, wrote[r][c]>>}}
    BY <1>1 DEF Recover, DeleteVersion
  <2>4. MayRemove(r, c) \/ wrote[r][c] = None \/ present' = present
    BY <1>1, <2>1, <2>2 DEF Recover, MayCompensate, MayRemove
  <2>5. /\ present' \subseteq present
        /\ \A e \in Cred, v \in Nat :
              <<e, v>> \in present /\ <<e, v>> \notin present' => Expendable(r, e, v)
    BY <1>0, <2>1, <2>3, <2>4
  <2>6. CASE Reset(r)
    BY <2>1, <2>5, <2>6, ResetStep
  <2>7. CASE /\ attempted' = [attempted EXCEPT ![r] = @ \ {c}]
             /\ UNCHANGED <<pc, op, subj, draft, known, wrote, witness, unknown>>
    <3>1. OthersSame(r) /\ attempted'[r] = attempted[r] \ {c}
      BY <1>t, <2>7 DEF OthersSame, Same, TypeOK, ReqTypeOK
    <3>2. \A e \in Cred : MayRemove(r, e)' => MayRemove(r, e) /\ wrote'[r][e] = wrote[r][e]
      BY <2>7, <3>1 DEF MayRemove, Open
    <3>3. \A e \in Cred : wrote'[r][e] <= counter[e]
      BY <2>7 DEF SafetyInv, WrittenInv
    <3> QED
      BY <2>1, <2>2, <2>5, <2>7, <3>1, <3>2, <3>3, CloseStep
  <2> QED
    BY <1>1, <2>6, <2>7 DEF Recover
<1>2. ASSUME FinishDeletion(r, c, b) PROVE SafetyInv'
  <2>1. /\ pc[r] = "finish" /\ c \in attempted[r] /\ Reset(r)
        /\ UNCHANGED <<rows, inv, used, counter, everLive, external, late>>
        /\ present' \in {present, present \ {<<c, wrote[r][c]>>}}
    BY <1>2 DEF FinishDeletion, DeleteVersion
  <2>2. MayRemove(r, c) \/ wrote[r][c] = None
    BY <2>1 DEF MayRemove, SafetyInv, AttemptInv
  <2> QED
    BY <1>0, <2>1, <2>2, ResetStep
<1>3. ASSUME DestroyMaterial(r, c, b) PROVE SafetyInv'
  <2>1. /\ pc[r] = "destroy" /\ c \in subj[r]
        /\ UNCHANGED <<rows, inv, used, counter, everLive, external, late>>
        /\ present' \in {present, present \ AllPairsOf({c})}
    BY <1>3 DEF DestroyMaterial
  <2>2. /\ subj[r] \cap rows = {} /\ subj[r] \subseteq used /\ op[r] = "delete"
        /\ attempted[r] = {}
        /\ \A q \in Request \ {r} : Open(q) => c \notin subj[q]
    BY <2>1 DEF SafetyInv, ClaimInv, AttemptInv, Claims, WriteOps
  <2>3. \A e \in Cred, v \in Nat :
           <<e, v>> \in present /\ <<e, v>> \notin present' => Expendable(r, e, v)
    <3> SUFFICES ASSUME NEW e \in Cred, NEW v \in Nat,
                        <<e, v>> \in present, <<e, v>> \notin present'
                 PROVE  Expendable(r, e, v)
      OBVIOUS
    <3>1. e = c
      BY <2>1 DEF AllPairsOf
    <3>2. c \notin rows /\ \A q \in Request \ {r} : ~MayCommit(q, c)
      BY <2>1, <2>2 DEF MayCommit, SafetyInv, AttemptInv
    <3> QED
      BY <3>1, <3>2 DEF Expendable
  <2>4. present' \subseteq present
    BY <2>1
  <2>5. CASE Reset(r)
    BY <2>1, <2>3, <2>4, <2>5, ResetStep
  <2>6. CASE /\ subj' = [subj EXCEPT ![r] = @ \ {c}]
             /\ UNCHANGED <<pc, op, draft, attempted, known, wrote, witness, unknown>>
    <3>1. OthersSame(r) /\ subj'[r] = subj[r] \ {c}
      BY <1>t, <2>6 DEF OthersSame, Same, TypeOK, ReqTypeOK
    <3>2. \A e \in Cred : ~MayRemove(r, e)'
      BY <2>2, <2>6 DEF MayRemove
    <3>3. \A e \in Cred : wrote'[r][e] <= counter[e]
      BY <2>6 DEF SafetyInv, WrittenInv
    <3> QED
      BY <2>1, <2>2, <2>3, <2>4, <2>6, <3>1, <3>2, <3>3, CloseStep
  <2> QED
    BY <1>3, <2>5, <2>6 DEF DestroyMaterial
<1> QED
  BY <1>1, <1>2, <1>3

\* A request that only loaded its instances holds nothing yet.
LEMMA BeginSafe ==
    ASSUME SafetyInv, TypeOK', NEW r \in Request, NEW o \in Offered, NEW S \in SUBSET Cred,
           NEW status \in FormStatus \cup {AsLoaded}, Begin(r, o, S, status)
    PROVE  SafetyInv'
<1> USE DEF dbVars, kvVars, histVars
<1>t. TypeOK
  BY DEF SafetyInv
<1>1. /\ OthersSame(r) /\ pc'[r] = "waiting" /\ op'[r] = o /\ subj'[r] = S
      /\ attempted'[r] = attempted[r] /\ wrote'[r] = wrote[r] /\ pc[r] = "idle"
      /\ S \subseteq rows /\ o # "create"
      /\ UNCHANGED <<rows, inv, used, counter, present, everLive, external, late>>
  BY <1>t DEF Begin, BatchOps, SingleOps, OthersSame, Same, TypeOK, ReqTypeOK
<1>2. attempted[r] = {} /\ \A c \in Cred : wrote[r][c] = None
  BY <1>1 DEF SafetyInv, AttemptInv
<1>3. S \subseteq used
  BY <1>1 DEF SafetyInv, ClaimInv
<1>4. \A c \in Cred : wrote'[r][c] <= counter[c]
  BY <1>1 DEF SafetyInv, WrittenInv
<1>5. \A c \in Cred : ~MayRemove(r, c)'
  BY <1>1, <1>2 DEF MayRemove
<1> QED
  BY <1>1, <1>2, <1>3, <1>4, <1>5, CloseStep

\* A job that changes neither pointer of any row.
LEMMA ColumnStep ==
    ASSUME SafetyInv, TypeOK', UNCHANGED <<rows, used, kvVars, reqVars, histVars>>,
           \A c \in Cred : inv'[c].live = inv[c].live /\ inv'[c].staged = inv[c].staged
    PROVE  SafetyInv'
<1> USE DEF kvVars, reqVars, histVars
<1>t. rows \subseteq Cred /\ \A r \in Request : subj[r] \subseteq Cred /\ attempted[r] \subseteq subj[r]
  BY DEF SafetyInv, TypeOK, DbTypeOK, ReqTypeOK, AttemptInv
<1>1. ClaimInv' /\ AttemptInv'
  BY DEF SafetyInv, ClaimInv, AttemptInv, Open, Claims
<1>2. DraftInv'
  <2> SUFFICES ASSUME NEW r \in Request, Open(r), NEW c \in subj[r] PROVE DraftOK(r, c)'
    BY DEF DraftInv, Open
  <2>1. c \in Cred /\ DraftOK(r, c)
    BY <1>t DEF SafetyInv, DraftInv
  <2> QED
    BY <2>1 DEF DraftOK
<1>3. DiscardInv'
  BY <1>t DEF SafetyInv, DiscardInv, Open
<1>4. PointerInv'
  BY <1>t DEF SafetyInv, PointerInv
<1>5. WrittenInv'
  BY <1>t DEF SafetyInv, WrittenInv, MayRemove, MayCommit, Open
<1>6. ServedVersionsSurvive' /\ StagedCandidateSurvives'
  BY <1>t DEF SafetyInv, ServedVersionsSurvive, StagedCandidateSurvives
<1> QED
  BY <1>1, <1>2, <1>3, <1>4, <1>5, <1>6 DEF SafetyInv

\* The unlocked jobs and an outside deletion of a candidate.
LEMMA JobsSafe ==
    ASSUME SafetyInv, TypeOK', NEW c \in Cred
    PROVE  /\ VerifyRead(c) => SafetyInv'
           /\ VerifyWrite(c) => SafetyInv'
           /\ ExpiryScan(c) => SafetyInv'
           /\ OutOfBandDelete(c) => SafetyInv'
<1>t. TypeOK /\ inv \in [Cred -> Row]
  BY DEF SafetyInv, TypeOK, DbTypeOK
<1>1. VerifyRead(c) => SafetyInv'
  BY ColumnStep DEF VerifyRead, dbVars
<1>2. ASSUME VerifyWrite(c) PROVE SafetyInv'
  <2>1. \A e \in Cred : inv'[e].live = inv[e].live /\ inv'[e].staged = inv[e].staged
    BY <1>2, <1>t DEF VerifyWrite, Row
  <2> QED
    BY <1>2, <2>1, ColumnStep DEF VerifyWrite
<1>3. ASSUME ExpiryScan(c) PROVE SafetyInv'
  <2>1. \A e \in Cred : inv'[e].live = inv[e].live /\ inv'[e].staged = inv[e].staged
    BY <1>3, <1>t DEF ExpiryScan, Row
  <2> QED
    BY <1>3, <2>1, ColumnStep DEF ExpiryScan
<1>4. ASSUME OutOfBandDelete(c) PROVE SafetyInv'
  <2> DEFINE p == <<c, inv[c].staged>>
  <2>1. /\ c \in rows /\ present' = present \ {p} /\ external' = external \cup {p}
        /\ late \subseteq late' /\ late' \subseteq late \cup {p}
        /\ (\E r \in Request : pc[r] = "commit" /\ op[r] = "promote" /\ c \in subj[r])
              => p \in late'
        /\ UNCHANGED <<rows, inv, used, counter, reqVars, everLive>>
    BY <1>4 DEF OutOfBandDelete, dbVars
  <2> USE DEF reqVars
  <2>2. ClaimInv' /\ AttemptInv' /\ DiscardInv' /\ PointerInv'
    BY <2>1 DEF SafetyInv, ClaimInv, AttemptInv, DiscardInv, PointerInv, Open, Claims
  <2>3. DraftInv'
    <3> SUFFICES ASSUME NEW r \in Request, Open(r), NEW e \in subj[r] PROVE DraftOK(r, e)'
      BY <2>1 DEF DraftInv, Open
    <3>1. DraftOK(r, e)
      BY DEF SafetyInv, DraftInv
    <3>2. /\ op[r] = "promote" /\ pc[r] = "commit" /\ draft[r][e].live = inv[e].staged
          /\ <<e, draft[r][e].live>> \in present \cup late
          => <<e, draft[r][e].live>> \in present' \cup late'
      BY <2>1
    <3> QED
      BY <2>1, <3>1, <3>2 DEF DraftOK
  <2>4. WrittenInv'
    <3>1. \A r \in Request, e \in Cred : MayCommit(r, e) => <<e, wrote[r][e]>> \in present'
      <4> SUFFICES ASSUME NEW r \in Request, NEW e \in Cred, MayCommit(r, e)
                   PROVE  <<e, wrote[r][e]>> \in present'
        OBVIOUS
      <4>1. MayRemove(r, e)
        BY DEF MayCommit, MayRemove
      <4> QED
        BY <2>1, <4>1 DEF SafetyInv, WrittenInv
    <3>2. \A r \in Request, e \in Cred : /\ (MayCommit(r, e)' <=> MayCommit(r, e))
                                          /\ (MayRemove(r, e)' <=> MayRemove(r, e))
      BY <2>1 DEF MayCommit, MayRemove, Open
    <3> QED
      BY <2>1, <3>1, <3>2 DEF SafetyInv, WrittenInv
  <2>5. ServedVersionsSurvive'
    <3>1. c \notin Legacy => p \notin everLive
      <4> SUFFICES ASSUME c \notin Legacy, p \in everLive PROVE FALSE
        OBVIOUS
      <4>1. p[1] = c /\ p[2] = inv[c].staged
        OBVIOUS
      <4>2. p[2] # None
        BY <4>1 DEF SafetyInv, PointerInv
      <4> QED
        BY <2>1, <4>1, <4>2 DEF SafetyInv, PointerInv
    <3> SUFFICES ASSUME NEW l \in everLive, l[1] \in rows \ Legacy
                 PROVE  l \in present' \cup late'
      BY <2>1 DEF ServedVersionsSurvive
    <3>2. l \in present \cup late
      BY DEF SafetyInv, ServedVersionsSurvive
    <3>3. l # p
      BY <3>1
    <3> QED
      BY <2>1, <3>2, <3>3
  <2>6. StagedCandidateSurvives'
    BY <2>1 DEF SafetyInv, StagedCandidateSurvives
  <2> QED
    BY <2>2, <2>3, <2>4, <2>5, <2>6 DEF SafetyInv
<1> QED
  BY <1>1, <1>2, <1>3, <1>4

--------------------------------------------------------------------------------
\* The invariant holds when the service starts on an inventory of legacy rows.
LEMMA SafetyInit == Init => SafetyInv
<1> SUFFICES ASSUME Init PROVE SafetyInv
  OBVIOUS
<1>1. TypeOK /\ Legacy \subseteq Cred
  BY TypeInit, SubsetAssumption
<1>2. \A r \in Request : /\ pc[r] = "idle" /\ op[r] = "edit" /\ subj[r] = {} /\ attempted[r] = {}
                         /\ \A c \in Cred : wrote[r][c] = None
  BY DEF Init
<1>3. ClaimInv /\ AttemptInv /\ DraftInv /\ DiscardInv
  BY <1>2 DEF Init, ClaimInv, AttemptInv, DraftInv, DiscardInv, Open, Claims
<1>4. \A c \in Legacy : inv[c].staged = None
  BY <1>1 DEF Init, BlankRow
<1>5. PointerInv /\ ServedVersionsSurvive /\ StagedCandidateSurvives
  <2>1. \A c \in rows : inv[c].staged = None /\ counter[c] = 1 /\ c \in Legacy
    BY <1>1, <1>4 DEF Init
  <2>2. \A p \in everLive : p[1] \in rows /\ p[1] \in Legacy
    BY DEF Init
  <2> QED
    BY <2>1, <2>2 DEF PointerInv, ServedVersionsSurvive, StagedCandidateSurvives, None
<1>6. WrittenInv
  BY <1>1, <1>2 DEF WrittenInv, MayCommit, MayRemove, TypeOK, KvTypeOK, None
<1> QED
  BY <1>1, <1>3, <1>5, <1>6 DEF SafetyInv

\* Every step of every actor preserves the invariant.
LEMMA SafetyStep == SafetyInv /\ [Next]_vars => SafetyInv'
<1> SUFFICES ASSUME SafetyInv, [Next]_vars PROVE SafetyInv'
  OBVIOUS
<1>t. TypeOK'
  BY TypeStep DEF SafetyInv
<1>1. CASE UNCHANGED vars
  BY <1>1, <1>t, ColumnStep DEF vars, dbVars
<1>2. CASE Next
  BY <1>2, <1>t, BeginSafe, OpeningSafe, DecisionSafe, StoreSafe, CommitSafe, EndingSafe,
     CleanupSafe, JobsSafe DEF Next, RequestStep
<1> QED
  BY <1>1, <1>2

\* The inductive invariant holds throughout.
THEOREM SafetyCorrect == Spec => []SafetyInv
BY SafetyInit, SafetyStep, PTL DEF Spec

\* Whatever requests, failures, crashes and jobs interleave, a version that consumers
\* were ever served stays readable while its credential exists.
THEOREM ServedCorrect == Spec => []ServedVersionsSurvive
<1>1. SafetyInv => ServedVersionsSurvive
  BY DEF SafetyInv
<1> QED
  BY <1>1, SafetyCorrect, PTL

\* A candidate that a committed row stages stays readable until the cleared pointer is
\* durable, or someone outside the plugin removes it.
THEOREM StagedCorrect == Spec => []StagedCandidateSurvives
<1>1. SafetyInv => StagedCandidateSurvives
  BY DEF SafetyInv
<1> QED
  BY <1>1, SafetyCorrect, PTL

--------------------------------------------------------------------------------
(***************************************************************************)
(* The stored key identities belong to the pointers of their row, the live *)
(* pointer never goes back, and no version is left on the mount without an *)
(* owner, a row that names it, or a record.                                *)
(*                                                                         *)
(* KeyInv adds to SafetyInv what the columns of rows and drafts may name.  *)
(* ResidueInv adds to KeyInv what a draft knows of its own attempts and of *)
(* the candidate it found; without it a commit could drop a version that   *)
(* no row names and no request still owns.                                 *)
(*                                                                         *)
(* First, identities and pointers.                                         *)
(***************************************************************************)

\* The identities of a row belong to its pointers, and a candidate is newer than
\* what is live.
Keyed(row) ==
    /\ row.liveKey \in {None, row.live}
    /\ row.stagedKey \in {None, row.staged}
    /\ row.staged # None => row.staged > row.live

\* No column names a version the mount has not counted.
Within(row, n) == row.kv <= n /\ row.live <= n /\ row.staged <= n

\* The committed columns, and what the verification job has read.
InventoryKeyed ==
    \A c \in Cred :
        /\ Keyed(inv[c]) /\ Within(inv[c], counter[c]) /\ verify[c] <= counter[c]
        /\ c \notin rows => inv[c] = BlankRow

\* The columns an open transaction would save.
DraftKeyed(r) ==
    /\ pc[r] = "idle" => \A c \in Cred : draft[r][c] = BlankRow
    /\ Open(r) => \A c \in subj[r] :
         Keyed(draft[r][c]) /\ Within(draft[r][c], counter[c]) /\ draft[r][c].live >= inv[c].live

KeyInv == SafetyInv /\ InventoryKeyed /\ \A r \in Request : DraftKeyed(r)

\* A blank row names nothing.
LEMMA BlankKeyed ==
    /\ Keyed(BlankRow) /\ BlankRow.live = 0 /\ BlankRow.staged = None /\ BlankRow.kv = None
    /\ \A n \in Nat : Within(BlankRow, n)
BY DEF Keyed, Within, BlankRow, None

\* The columns of typed state.
LEMMA ColumnTypes ==
    ASSUME TypeOK
    PROVE  /\ \A c \in Cred : inv[c] \in Row /\ counter[c] \in Nat /\ verify[c] \in Nat
           /\ \A r \in Request : subj[r] \subseteq Cred /\ attempted[r] \subseteq Cred
           /\ \A r \in Request, c \in Cred : draft[r][c] \in Row /\ wrote[r][c] \in Nat
BY DEF TypeOK, DbTypeOK, KvTypeOK, ReqTypeOK

\* Column arithmetic: what is within a counter stays within a larger one.
LEMMA WithinGrows ==
    ASSUME NEW row \in Row, NEW m \in Nat, NEW n \in Nat, m <= n, Within(row, m)
    PROVE  Within(row, n)
BY DEF Within, Row

\* What a store saves: the new version is newer than everything the row names.
LEMMA StoredKeyed ==
    ASSUME NEW o, NEW c, NEW row \in Row, NEW n \in Nat, Keyed(row), Within(row, n),
           o = "stage" => row.staged = None
    PROVE  LET s == Stored(o, c, row, n + 1) IN
           /\ Keyed(s) /\ Within(s, n + 1) /\ s.live >= row.live
           /\ o # "stage" => s.live = n + 1 /\ s.kv = n + 1
           /\ o = "stage" => s.staged = n + 1
<1> DEFINE v == n + 1
           k == KeyOf(c, v)
           s == Stored(o, c, row, v)
<1>1. v \in Nat /\ k \in {None, v} /\ k \in Nat /\ v > n /\ v # None
  BY KeyOfType DEF KeyOf, None
<1> HIDE DEF v, k
<1>2. CASE o = "stage"
  <2> DEFINE p == Pinned(row)
  <2>1. /\ p \in Row /\ p.liveKey = row.liveKey /\ p.live >= row.live /\ p.live <= n
        /\ p.liveKey \in {None, p.live}
    BY DEF Pinned, Row, Keyed, Within, None
  <2> HIDE DEF p
  <2>2. s = [p EXCEPT !.kv = v, !.staged = v, !.stagedKey = k, !.status = "staged"]
    BY <1>2 DEF Stored, s, k, p
  <2>3. s.kv = v /\ s.staged = v /\ s.stagedKey = k /\ s.live = p.live /\ s.liveKey = p.liveKey
    BY <2>1, <2>2 DEF Row
  <2>4. p.live \in Nat
    BY <2>1 DEF Row
  <2> QED BY <1>1, <1>2, <2>1, <2>3, <2>4 DEF Keyed, Within, v
<1>3. CASE o # "stage"
  <2> DEFINE p == RecordLiveKey(row, k)
  <2>1. p \in Row /\ p.liveKey = k /\ p.stagedKey = None
    BY <1>1, IdentityType DEF RecordLiveKey, ClearStagedKey, Row
  <2> HIDE DEF p
  <2>2. s = [p EXCEPT !.kv = v, !.live = v, !.staged = None]
    BY <1>3 DEF Stored, s, k, p
  <2>3. s.kv = v /\ s.live = v /\ s.staged = None /\ s.liveKey = k /\ s.stagedKey = None
    BY <2>1, <2>2 DEF Row
  <2>4. row.live \in Nat /\ row.live <= n
    BY DEF Row, Within
  <2> QED BY <1>1, <1>3, <2>3, <2>4 DEF Keyed, Within, v, None
<1> QED BY <1>2, <1>3 DEF v, s

\* What a promotion saves.
LEMMA PromotedKeyed ==
    ASSUME NEW row \in Row, NEW n \in Nat, Keyed(row), Within(row, n), row.staged # None
    PROVE  LET w == [PromoteKeyIdentity(row) EXCEPT
                       !.live = row.staged, !.staged = None, !.status = "active"] IN
           Keyed(w) /\ Within(w, n) /\ w.live >= row.live /\ w.live = row.staged
<1> DEFINE p == PromoteKeyIdentity(row)
           w == [p EXCEPT !.live = row.staged, !.staged = None, !.status = "active"]
<1>1. p \in Row /\ p.liveKey \in {None, row.staged} /\ p.stagedKey = None /\ p.kv = row.kv
  BY IdentityType DEF PromoteKeyIdentity, RecordLiveKey, ClearStagedKey, Row, None
<1> HIDE DEF p
<1>2. /\ w.live = row.staged /\ w.staged = None /\ w.liveKey = p.liveKey
      /\ w.stagedKey = None /\ w.kv = row.kv
  BY <1>1 DEF Row
<1>3. row.staged \in Nat /\ row.live \in Nat /\ row.kv \in Nat
  BY DEF Row
<1> HIDE DEF w
<1>4. Keyed(w) /\ Within(w, n) /\ w.live >= row.live /\ w.live = row.staged
  BY <1>1, <1>2, <1>3 DEF Keyed, Within, None
<1> QED BY <1>4 DEF w, p

\* What a discard saves.
LEMMA DiscardedKeyed ==
    ASSUME NEW row \in Row, NEW n \in Nat, Keyed(row), Within(row, n)
    PROVE  LET w == [ClearStagedKey(row) EXCEPT !.staged = None, !.status = "active"] IN
           Keyed(w) /\ Within(w, n) /\ w.live = row.live
<1> DEFINE p == ClearStagedKey(row)
           w == [p EXCEPT !.staged = None, !.status = "active"]
<1>1. p \in Row /\ p.liveKey = row.liveKey /\ p.stagedKey = None /\ p.kv = row.kv
      /\ p.live = row.live
  BY IdentityType DEF ClearStagedKey, Row, None
<1> HIDE DEF p
<1>2. /\ w.live = row.live /\ w.staged = None /\ w.liveKey = row.liveKey
      /\ w.stagedKey = None /\ w.kv = row.kv
  BY <1>1 DEF Row
<1> HIDE DEF w
<1>3. Keyed(w) /\ Within(w, n) /\ w.live = row.live
  BY <1>2 DEF Keyed, Within, None
<1> QED BY <1>3 DEF w, p

\* A step of one request: it shows its own draft, and locks keep the others' rows.
LEMMA KeyFrame ==
    ASSUME KeyInv, SafetyInv', NEW r \in Request, OthersSame(r), InventoryKeyed', DraftKeyed(r)',
           \A c \in Cred : counter[c] <= counter'[c],
           \A c \in Cred : inv'[c].live = inv[c].live \/ (Open(r) /\ c \in subj[r])
    PROVE  KeyInv'
<1>1. ASSUME NEW q \in Request, q # r PROVE DraftKeyed(q)'
  <2>1. Same(q) /\ DraftKeyed(q) /\ (Open(q)' <=> Open(q))
    BY <1>1 DEF KeyInv, OthersSame, Same, Open
  <2>2. pc'[q] = "idle" => \A c \in Cred : draft'[q][c] = BlankRow
    BY <2>1 DEF Same, DraftKeyed
  <2>3. ASSUME Open(q), NEW c \in subj[q]
        PROVE  /\ Keyed(draft'[q][c]) /\ Within(draft'[q][c], counter'[c])
               /\ draft'[q][c].live >= inv'[c].live
    <3>1. c \in Cred /\ draft[q][c] \in Row /\ counter[c] \in Nat /\ counter'[c] \in Nat
      BY ColumnTypes DEF KeyInv, SafetyInv, TypeOK, KvTypeOK
    <3>2. ~(Open(r) /\ c \in subj[r])
      BY <1>1, <2>3 DEF KeyInv, SafetyInv, ClaimInv, Claims
    <3>3. inv'[c].live = inv[c].live /\ draft'[q][c] = draft[q][c]
      BY <2>1, <3>1, <3>2 DEF Same
    <3>4. Within(draft[q][c], counter'[c])
      BY <2>1, <2>3, <3>1, WithinGrows DEF DraftKeyed
    <3> QED BY <2>1, <2>3, <3>3, <3>4 DEF DraftKeyed
  <2>4. subj'[q] = subj[q]
    BY <2>1 DEF Same
  <2> QED BY <2>1, <2>2, <2>3, <2>4 DEF DraftKeyed
<1> QED BY <1>1 DEF KeyInv

\* The committed columns stay and the counters grow.
LEMMA InventoryStays ==
    ASSUME KeyInv, TypeOK', UNCHANGED <<rows, inv, verify>>,
           \A c \in Cred : counter[c] <= counter'[c]
    PROVE  InventoryKeyed'
<1> SUFFICES ASSUME NEW c \in Cred
             PROVE  /\ Keyed(inv[c]) /\ Within(inv[c], counter'[c]) /\ verify[c] <= counter'[c]
                    /\ c \notin rows => inv[c] = BlankRow
  BY DEF InventoryKeyed
<1>1. inv[c] \in Row /\ counter[c] \in Nat /\ verify[c] \in Nat /\ counter'[c] \in Nat
  BY ColumnTypes DEF KeyInv, SafetyInv, TypeOK, KvTypeOK
<1>2. Keyed(inv[c]) /\ Within(inv[c], counter[c]) /\ verify[c] <= counter[c]
      /\ (c \notin rows => inv[c] = BlankRow)
  BY DEF KeyInv, InventoryKeyed
<1> QED BY <1>1, <1>2, WithinGrows

\* A request that is not left open.
LEMMA KeyClose ==
    ASSUME KeyInv, SafetyInv', NEW r \in Request, OthersSame(r), ~Open(r)',
           pc'[r] = "idle" => \A c \in Cred : draft'[r][c] = BlankRow,
           UNCHANGED <<rows, inv, verify>>, \A c \in Cred : counter[c] <= counter'[c]
    PROVE  KeyInv'
<1>1. InventoryKeyed'
  BY InventoryStays DEF SafetyInv
<1>2. DraftKeyed(r)'
  BY DEF DraftKeyed
<1> QED BY <1>1, <1>2, KeyFrame

\* A dropped owner drafts nothing.
LEMMA ResetBlank ==
    ASSUME TypeOK, NEW r \in Request, Reset(r)
    PROVE  OthersSame(r) /\ pc'[r] = "idle" /\ \A c \in Cred : draft'[r][c] = BlankRow
BY ResetFacts DEF Reset, TypeOK, ReqTypeOK

\* So does one that unwinds.
LEMMA UnwindBlank ==
    ASSUME TypeOK, NEW r \in Request, NEW lost, Unwind(r, lost)
    PROVE  /\ OthersSame(r) /\ ~Open(r)'
           /\ pc'[r] = "idle" => \A c \in Cred : draft'[r][c] = BlankRow
<1>1. CASE attempted[r] = {}
  BY <1>1, ResetBlank DEF Unwind, Open
<1>2. CASE attempted[r] # {}
  BY <1>2 DEF Unwind, Open, OthersSame, Same, TypeOK, ReqTypeOK
<1> QED BY <1>1, <1>2

\* Counters that stay do not shrink.
LEMMA CountersStay == TypeOK /\ UNCHANGED counter => \A c \in Cred : counter[c] <= counter'[c]
BY DEF TypeOK, KvTypeOK

\* Endings, failures, recoveries and crashes draft nothing.
LEMMA EndingKeyed ==
    ASSUME KeyInv, SafetyInv', NEW r \in Request,
           \/ LockRefused(r) \/ WitnessFails(r) \/ CommitRejected(r) \/ Crash(r)
           \/ \E b \in BOOLEAN : BodyFails(r, b)
           \/ \E c \in Cred, b \in BOOLEAN :
                Recover(r, c, b) \/ FinishDeletion(r, c, b) \/ DestroyMaterial(r, c, b)
    PROVE  KeyInv'
<1>t. TypeOK
  BY DEF KeyInv, SafetyInv
<1>1. UNCHANGED <<rows, inv, verify, counter>>
  BY DEF LockRefused, WitnessFails, CommitRejected, Crash, BodyFails, Recover, FinishDeletion,
         DestroyMaterial, dbVars, kvVars
<1>2. /\ OthersSame(r) /\ ~Open(r)'
      /\ pc'[r] = "idle" => \A c \in Cred : draft'[r][c] = BlankRow
  <2>1. CASE Reset(r)
    BY <1>t, <2>1, ResetBlank DEF Open
  <2>2. CASE \E lost : Unwind(r, lost)
    BY <1>t, <2>2, UnwindBlank
  <2>3. CASE \E c \in Cred : /\ pc[r] = "recover" /\ attempted' = [attempted EXCEPT ![r] = @ \ {c}]
                             /\ UNCHANGED <<pc, op, subj, draft, known, wrote, witness, unknown>>
    BY <1>t, <2>3 DEF OthersSame, Same, Open, TypeOK, ReqTypeOK
  <2>4. CASE \E c \in Cred : /\ pc[r] = "destroy" /\ subj' = [subj EXCEPT ![r] = @ \ {c}]
                             /\ UNCHANGED <<pc, op, draft, attempted, known, wrote, witness, unknown>>
    BY <1>t, <2>4 DEF OthersSame, Same, Open, TypeOK, ReqTypeOK
  <2> QED BY <2>1, <2>2, <2>3, <2>4 DEF LockRefused, WitnessFails, CommitRejected, Crash, BodyFails,
             Recover, FinishDeletion, DestroyMaterial
<1> QED BY <1>t, <1>1, <1>2, CountersStay, KeyClose

\* Opening a transaction takes the committed columns, or a blank row for a new credential.
LEMMA OpeningKeyed ==
    ASSUME KeyInv, SafetyInv', NEW r \in Request,
           \/ \E S \in SUBSET Cred : BeginCreate(r, S)
           \/ \E o \in Offered, S \in SUBSET Cred, status \in FormStatus \cup {AsLoaded} :
                Begin(r, o, S, status)
           \/ Lock(r) \/ InnerRollback(r)
    PROVE  KeyInv'
<1>t. TypeOK
  BY DEF KeyInv, SafetyInv
<1>1. UNCHANGED <<rows, inv, verify, counter>> /\ OthersSame(r)
  BY <1>t DEF BeginCreate, Begin, Lock, InnerRollback, dbVars, kvVars, OthersSame, Same,
     TypeOK, ReqTypeOK
<1>2. InventoryKeyed'
  BY <1>t, <1>1, CountersStay, InventoryStays DEF SafetyInv
<1>3. DraftKeyed(r)'
  <2>1. ASSUME NEW S \in SUBSET Cred, BeginCreate(r, S) PROVE DraftKeyed(r)'
    <3>1. pc[r] = "idle" /\ pc'[r] = "body" /\ subj'[r] = S /\ draft' = draft /\ S \cap used = {}
      BY <1>t, <2>1 DEF BeginCreate, TypeOK, ReqTypeOK
    <3>2. \A c \in S : /\ draft'[r][c] = BlankRow /\ inv'[c] = BlankRow /\ counter'[c] \in Nat
      BY <1>t, <1>1, <3>1 DEF KeyInv, DraftKeyed, InventoryKeyed, SafetyInv, ClaimInv, TypeOK,
         KvTypeOK
    <3> QED BY <3>1, <3>2, BlankKeyed DEF DraftKeyed
  <2>2. CASE \E o \in Offered, S \in SUBSET Cred, status \in FormStatus \cup {AsLoaded} :
                Begin(r, o, S, status)
    <3>1. pc'[r] = "waiting"
      BY <1>t, <2>2 DEF Begin, TypeOK, ReqTypeOK
    <3> QED BY <3>1 DEF DraftKeyed, Open
  <2>3. CASE Lock(r) \/ InnerRollback(r)
    <3>1. /\ pc'[r] # "idle" /\ subj'[r] = subj[r]
          /\ \A c \in subj[r] : draft'[r][c] \in {Refreshed(r, c), inv[c]}
      BY <1>t, <2>3 DEF Lock, InnerRollback, TypeOK, ReqTypeOK
    <3>2. ASSUME NEW c \in subj[r]
          PROVE  /\ Keyed(draft'[r][c]) /\ Within(draft'[r][c], counter[c])
                 /\ draft'[r][c].live >= inv[c].live
      <4>1. c \in Cred /\ inv[c] \in Row /\ Keyed(inv[c]) /\ Within(inv[c], counter[c])
        BY <1>t, ColumnTypes DEF KeyInv, InventoryKeyed
      <4>2. LET d == draft'[r][c] IN
            /\ d.live = inv[c].live /\ d.staged = inv[c].staged /\ d.kv = inv[c].kv
            /\ d.liveKey = inv[c].liveKey /\ d.stagedKey = inv[c].stagedKey
        <5>1. PICK s : draft'[r][c] = inv[c] \/ draft'[r][c] = [inv[c] EXCEPT !.status = s]
          BY <3>1 DEF Refreshed
        <5> QED BY <4>1, <5>1 DEF Row
      <4>3. inv[c].live \in Nat
        BY <4>1 DEF Row
      <4> QED BY <4>1, <4>2, <4>3 DEF Keyed, Within
    <3> QED BY <1>1, <3>1, <3>2 DEF DraftKeyed
  <2> QED BY <2>1, <2>2, <2>3
<1> QED BY <1>t, <1>1, <1>2, <1>3, CountersStay, KeyFrame

\* Promotion and discard.
LEMMA DecisionKeyed ==
    ASSUME KeyInv, SafetyInv', NEW r \in Request, NEW c \in Cred,
           PromoteStaged(r, c) \/ \E b \in BOOLEAN : DiscardStaged(r, c, b)
    PROVE  KeyInv'
<1> DEFINE d == draft[r][c]
<1>t. TypeOK
  BY DEF KeyInv, SafetyInv
<1>1. UNCHANGED <<rows, inv, verify, counter>> /\ OthersSame(r) /\ c \in subj[r] /\ Open(r)
      /\ pc'[r] = "commit" /\ subj'[r] = subj[r]
      /\ \A e \in Cred \ {c} : draft'[r][e] = draft[r][e]
  BY <1>t DEF PromoteStaged, DiscardStaged, dbVars, kvVars, OthersSame, Same, Open, TypeOK, ReqTypeOK
<1>2. InventoryKeyed'
  BY <1>t, <1>1, CountersStay, InventoryStays DEF SafetyInv
<1>3. /\ d \in Row /\ inv[c] \in Row /\ counter[c] \in Nat
      /\ Keyed(d) /\ Within(d, counter[c]) /\ d.live >= inv[c].live
  BY <1>t, <1>1, ColumnTypes DEF KeyInv, DraftKeyed
<1>4. Keyed(draft'[r][c]) /\ Within(draft'[r][c], counter[c]) /\ draft'[r][c].live >= d.live
  <2>1. CASE PromoteStaged(r, c)
    <3>1. /\ d.staged # None
          /\ draft'[r][c] = [PromoteKeyIdentity(d) EXCEPT
                               !.live = d.staged, !.staged = None, !.status = "active"]
      BY <1>t, <2>1 DEF PromoteStaged, TypeOK, ReqTypeOK
    <3> HIDE DEF d
    <3> QED BY <1>3, <3>1, PromotedKeyed
  <2>2. CASE \E b \in BOOLEAN : DiscardStaged(r, c, b)
    <3>1. PICK b \in BOOLEAN : DiscardStaged(r, c, b)
      BY <2>2
    <3> DEFINE cleared == [ClearStagedKey(d) EXCEPT !.staged = None, !.status = "active"]
    <3>2. draft' = [draft EXCEPT ![r][c] = cleared]
      BY <3>1 DEF DiscardStaged
    <3>3. draft \in [Request -> [Cred -> Row]]
      BY <1>t DEF TypeOK, ReqTypeOK
    <3> HIDE DEF d
    <3>4. Keyed(cleared) /\ Within(cleared, counter[c]) /\ cleared.live = d.live
      BY <1>3, DiscardedKeyed
    <3> HIDE DEF cleared
    <3>5. draft'[r][c] = cleared
      BY <3>2, <3>3
    <3>6. Keyed(draft'[r][c]) /\ Within(draft'[r][c], counter[c]) /\ draft'[r][c].live = d.live
      BY <3>4, <3>5
    <3>7. d.live \in Nat
      BY <1>3 DEF Row
    <3> QED BY <3>6, <3>7
  <2> QED BY <2>1, <2>2
<1>5. draft'[r][c].live \in Nat /\ d.live \in Nat /\ inv[c].live \in Nat
  BY <1>3, ColumnTypes DEF SafetyInv, Row, TypeOK, ReqTypeOK
<1>6. DraftKeyed(r)'
  <2>1. subj[r] \subseteq Cred
    BY <1>t, ColumnTypes
  <2> HIDE DEF d
  <2>2. draft'[r][c].live >= inv[c].live
    BY <1>3, <1>4, <1>5
  <2>3. \A e \in subj[r] \ {c} : Keyed(draft'[r][e]) /\ Within(draft'[r][e], counter[e])
                                 /\ draft'[r][e].live >= inv[e].live
    BY <1>1, <2>1 DEF KeyInv, DraftKeyed
  <2> QED BY <1>1, <1>4, <2>2, <2>3 DEF DraftKeyed
<1> QED BY <1>t, <1>1, <1>2, <1>6, CountersStay, KeyFrame

\* Writes: check-and-set passed, so the new version is newer than every column.
LEMMA StoreKeyed ==
    ASSUME KeyInv, SafetyInv', NEW r \in Request, NEW c \in Cred,
           StoreLost(r, c) \/ StoreRefused(r, c) \/ \E b \in BOOLEAN : StoreMaterial(r, c, b)
    PROVE  KeyInv'
<1>t. TypeOK
  BY DEF KeyInv, SafetyInv
<1>1. UNCHANGED <<rows, inv, verify>> /\ OthersSame(r)
  BY <1>t DEF StoreLost, StoreRefused, StoreMaterial, AttemptFails, Accepted, dbVars, OthersSame,
     Same, TypeOK, ReqTypeOK
<1>2. \A e \in Cred : counter[e] \in Nat /\ counter[e] <= counter'[e]
  BY <1>t DEF StoreLost, StoreRefused, StoreMaterial, Accepted, kvVars, TypeOK, KvTypeOK
<1>3. CASE StoreLost(r, c) \/ StoreRefused(r, c)
  <2>1. pc'[r] = "recover"
    BY <1>t, <1>3 DEF StoreLost, StoreRefused, AttemptFails, TypeOK, ReqTypeOK
  <2> QED BY <1>1, <1>2, <2>1, KeyClose DEF Open
<1>4. CASE \E b \in BOOLEAN : StoreMaterial(r, c, b)
  <2> DEFINE d == draft[r][c]
             n == counter[c]
  <2>1. /\ Open(r) /\ c \in subj[r] /\ subj'[r] = subj[r] /\ pc'[r] # "idle"
        /\ op[r] = "stage" => d.staged = None
        /\ \A e \in Cred \ {c} : draft'[r][e] = draft[r][e] /\ counter'[e] = counter[e]
        /\ draft'[r][c] = Stored(op[r], c, d, n + 1) /\ counter'[c] = n + 1
    BY <1>t, <1>4 DEF StoreMaterial, WriteReady, Accepted, Open, TypeOK, ReqTypeOK, KvTypeOK
  <2>2. /\ d \in Row /\ inv[c] \in Row /\ n \in Nat
        /\ Keyed(d) /\ Within(d, n) /\ d.live >= inv[c].live
    BY <1>t, <2>1, ColumnTypes DEF KeyInv, DraftKeyed
  <2> HIDE DEF d, n
  <2>3. Keyed(draft'[r][c]) /\ Within(draft'[r][c], n + 1) /\ draft'[r][c].live >= d.live
    BY <2>1, <2>2, StoredKeyed
  <2>4. draft'[r][c].live \in Nat /\ d.live \in Nat /\ inv[c].live \in Nat
    BY <2>2, ColumnTypes DEF SafetyInv, Row, TypeOK, ReqTypeOK
  <2>5. draft'[r][c].live >= inv[c].live
    BY <2>2, <2>3, <2>4
  <2>6. subj[r] \subseteq Cred
    BY <1>t, ColumnTypes
  <2>7. \A e \in subj[r] \ {c} : Keyed(draft'[r][e]) /\ Within(draft'[r][e], counter'[e])
                                 /\ draft'[r][e].live >= inv[e].live
    BY <2>1, <2>6 DEF KeyInv, DraftKeyed
  <2>8. DraftKeyed(r)'
    BY <1>1, <2>1, <2>3, <2>5, <2>7 DEF DraftKeyed
  <2>9. InventoryKeyed'
    BY <1>1, <1>2, InventoryStays DEF SafetyInv
  <2> QED BY <1>1, <1>2, <2>8, <2>9, KeyFrame
<1> QED BY <1>3, <1>4

\* The credentials whose drafted columns a durable transaction saves.
Kept(r) == {c \in subj[r] : op[r] # "delete" /\ (op[r] = "create" => draft[r][c].kv # None)}

\* What a durable transaction leaves: a committed request saves its own drafts, and
\* touches no other row.
LEMMA ApplyFacts ==
    ASSUME TypeOK, NEW r \in Request, NEW lost, Apply(r, lost)
    PROVE  /\ Kept(r) \subseteq subj[r] /\ subj[r] \subseteq Cred /\ rows \subseteq Cred
           /\ rows' = (IF op[r] = "delete" THEN rows \ subj[r] ELSE rows \cup Kept(r))
           /\ \A c \in Cred : inv'[c] = IF c \in Kept(r) THEN draft[r][c]
                                         ELSE IF c \in rows' THEN inv[c] ELSE BlankRow
           /\ everLive' = {p \in everLive \cup
                 {<<c, draft[r][c].live>> : c \in {d \in Kept(r) : draft[r][d].live # None}} :
                     p[1] \in rows'}
           /\ explained' = (explained \cup
                 ({<<c, inv[c].staged>> : c \in {d \in subj[r] : op[r] \in {"rotate", "update"}
                                                                /\ inv[d].staged # None}}
                  \cup lost)) \cap present'
           /\ op[r] = "delete" => Kept(r) = {}
           /\ op[r] \notin {"create", "delete"} => Kept(r) = subj[r]
<1>1. subj[r] \subseteq Cred /\ rows \subseteq Cred
  BY DEF TypeOK, ReqTypeOK, DbTypeOK
<1>2. /\ rows' = (IF op[r] = "delete" THEN rows \ subj[r] ELSE rows \cup Kept(r))
      /\ inv' = [c \in Cred |-> IF c \in Kept(r) THEN draft[r][c]
                                 ELSE IF c \in rows' THEN inv[c] ELSE BlankRow]
  BY DEF Apply, Kept
<1>3. everLive' = {p \in everLive \cup
         {<<c, draft[r][c].live>> : c \in {d \in Kept(r) : draft[r][d].live # None}} :
             p[1] \in rows'}
  BY DEF Apply, Kept
<1>4. explained' = (explained \cup
         ({<<c, inv[c].staged>> : c \in {d \in subj[r] : op[r] \in {"rotate", "update"}
                                                        /\ inv[d].staged # None}}
          \cup lost)) \cap present'
  BY DEF Apply, Explain
<1>5. /\ op[r] = "delete" => Kept(r) = {}
      /\ op[r] \notin {"create", "delete"} => Kept(r) = subj[r]
      /\ Kept(r) \subseteq subj[r]
  BY DEF Kept
<1> QED BY <1>1, <1>2, <1>3, <1>4, <1>5

\* A durable transaction saves keyed columns, and never an older live pointer.
LEMMA ApplyKeyed ==
    ASSUME KeyInv, SafetyInv', NEW r \in Request, NEW lost, Open(r), Apply(r, lost),
           UNCHANGED <<counter, verify>>, OthersSame(r), ~Open(r)',
           pc'[r] = "idle" => \A c \in Cred : draft'[r][c] = BlankRow
    PROVE  KeyInv' /\ \A c \in rows \cap rows' : inv'[c].live >= inv[c].live
<1>t. TypeOK
  BY DEF KeyInv, SafetyInv
<1>1. /\ Kept(r) \subseteq subj[r] /\ subj[r] \subseteq Cred /\ rows \subseteq Cred
      /\ rows' = (IF op[r] = "delete" THEN rows \ subj[r] ELSE rows \cup Kept(r))
      /\ \A c \in Cred : inv'[c] = IF c \in Kept(r) THEN draft[r][c]
                                    ELSE IF c \in rows' THEN inv[c] ELSE BlankRow
      /\ op[r] = "delete" => Kept(r) = {}
  BY <1>t, ApplyFacts
<1>2. \A c \in Cred : counter[c] \in Nat /\ inv[c] \in Row
  BY <1>t, ColumnTypes
<1>3. \A c \in Kept(r) : Keyed(draft[r][c]) /\ Within(draft[r][c], counter[c])
                         /\ draft[r][c].live >= inv[c].live
  BY <1>1 DEF KeyInv, DraftKeyed
<1>4. InventoryKeyed'
  <2> SUFFICES ASSUME NEW c \in Cred
               PROVE  /\ Keyed(inv'[c]) /\ Within(inv'[c], counter[c]) /\ verify[c] <= counter[c]
                      /\ c \notin rows' => inv'[c] = BlankRow
    BY DEF InventoryKeyed
  <2>1. Keyed(inv[c]) /\ Within(inv[c], counter[c]) /\ verify[c] <= counter[c]
    BY DEF KeyInv, InventoryKeyed
  <2>2. c \in Kept(r) => c \in rows'
    BY <1>1
  <2>3. Keyed(BlankRow) /\ Within(BlankRow, counter[c])
    BY <1>2, BlankKeyed
  <2> QED BY <1>1, <1>3, <2>1, <2>2, <2>3
<1>5. DraftKeyed(r)'
  BY DEF DraftKeyed
<1>6. \A c \in Cred : inv'[c].live = inv[c].live \/ c \in subj[r]
  <2> SUFFICES ASSUME NEW c \in Cred, c \notin subj[r] PROVE inv'[c] = inv[c]
    OBVIOUS
  <2>1. c \notin Kept(r) /\ (c \in rows' <=> c \in rows)
    BY <1>1
  <2>2. c \notin rows => inv[c] = BlankRow
    BY DEF KeyInv, InventoryKeyed
  <2> QED BY <1>1, <2>1, <2>2
<1>7. \A c \in rows \cap rows' : inv'[c].live >= inv[c].live
  <2> SUFFICES ASSUME NEW c \in rows, c \in rows' PROVE inv'[c].live >= inv[c].live
    OBVIOUS
  <2>1. c \in Cred /\ inv[c].live \in Nat
    BY <1>1, <1>2 DEF Row
  <2> QED BY <1>1, <1>3, <2>1
<1> QED BY <1>t, <1>4, <1>5, <1>6, <1>7, CountersStay, KeyFrame

\* A step that saves no column keeps every live pointer.
LEMMA LiveStays ==
    ASSUME TypeOK, UNCHANGED inv
    PROVE  \A c \in rows \cap rows' : inv'[c].live >= inv[c].live
<1>1. \A c \in rows : inv[c].live \in Nat
  BY DEF TypeOK, DbTypeOK, Row
<1> QED BY <1>1

\* Commits, answered or not.
LEMMA CommitKeyed ==
    ASSUME KeyInv, SafetyInv', NEW r \in Request,
           Commit(r) \/ CallbackFails(r) \/ \E b \in BOOLEAN : CommitUnknown(r, b)
    PROVE  KeyInv' /\ \A c \in rows \cap rows' : inv'[c].live >= inv[c].live
<1>t. TypeOK
  BY DEF KeyInv, SafetyInv
<1>1. Open(r) /\ UNCHANGED <<counter, verify>>
  BY DEF Commit, CallbackFails, CommitUnknown, Open, kvVars
<1>2. /\ OthersSame(r) /\ ~Open(r)'
      /\ pc'[r] = "idle" => \A c \in Cred : draft'[r][c] = BlankRow
  <2>1. CASE Reset(r)
    BY <1>t, <2>1, ResetBlank DEF Open
  <2>2. CASE Unwind(r, TRUE)
    BY <1>t, <2>2, UnwindBlank
  <2>3. CASE /\ pc' = [pc EXCEPT ![r] = IF op[r] = "delete" THEN "destroy" ELSE "finish"]
             /\ UNCHANGED <<op, subj, draft, attempted, known, wrote, witness, unknown>>
    BY <1>t, <2>3 DEF Open, OthersSame, Same, TypeOK, ReqTypeOK
  <2> QED BY <2>1, <2>2, <2>3 DEF Commit, CallbackFails, CommitUnknown
<1>3. ASSUME NEW lost, Apply(r, lost)
      PROVE  KeyInv' /\ \A c \in rows \cap rows' : inv'[c].live >= inv[c].live
  BY <1>1, <1>2, <1>3, ApplyKeyed
<1>4. CASE UNCHANGED <<rows, inv, histVars>>
  BY <1>t, <1>1, <1>2, <1>4, CountersStay, KeyClose, LiveStays
<1> QED BY <1>3, <1>4 DEF Commit, CallbackFails, CommitUnknown

\* A job that saves kv_version or a status of a row nobody holds.
LEMMA JobKeyed ==
    ASSUME KeyInv, SafetyInv', NEW c \in Cred, VerifyRead(c) \/ VerifyWrite(c) \/ ExpiryScan(c)
    PROVE  KeyInv' /\ \A e \in rows \cap rows' : inv'[e].live >= inv[e].live
<1>t. TypeOK /\ inv \in [Cred -> Row] /\ verify \in [Cred -> Nat]
  BY DEF KeyInv, SafetyInv, TypeOK, DbTypeOK
<1>1. UNCHANGED <<rows, counter, pc, op, subj, draft>>
  BY DEF VerifyRead, VerifyWrite, ExpiryScan, dbVars, kvVars, reqVars
<1>2. \A e \in Cred :
        /\ inv'[e].live = inv[e].live /\ inv'[e].staged = inv[e].staged
        /\ inv'[e].liveKey = inv[e].liveKey /\ inv'[e].stagedKey = inv[e].stagedKey
        /\ inv'[e].kv \in {inv[e].kv, verify[e]}
        /\ e \notin rows => inv'[e] = inv[e]
        /\ verify'[e] \in {verify[e], counter[e], None}
  <2>1. CASE VerifyRead(c)
    BY <1>t, <2>1 DEF VerifyRead, dbVars
  <2>2. CASE VerifyWrite(c)
    <3>1. \A e \in Cred : verify'[e] \in {verify[e], None}
      BY <1>t, <2>2 DEF VerifyWrite
    <3>2. CASE c \in rows
      <4>1. /\ inv'[c] = [inv[c] EXCEPT !.kv = verify[c]]
            /\ \A e \in Cred \ {c} : inv'[e] = inv[e]
        BY <1>t, <2>2, <3>2 DEF VerifyWrite, VerifiedVersion
      <4> QED BY <1>t, <3>1, <3>2, <4>1 DEF Row
    <3>3. CASE c \notin rows
      BY <2>2, <3>1, <3>3 DEF VerifyWrite
    <3> QED BY <3>2, <3>3
  <2>3. CASE ExpiryScan(c)
    <3>1. /\ inv'[c] = [inv[c] EXCEPT !.status = "expired"] /\ c \in rows
          /\ \A e \in Cred \ {c} : inv'[e] = inv[e]
          /\ verify' = verify
      BY <1>t, <2>3 DEF ExpiryScan
    <3> QED BY <1>t, <3>1 DEF Row
  <2> QED BY <2>1, <2>2, <2>3
<1>3. InventoryKeyed'
  <2> SUFFICES ASSUME NEW e \in Cred
               PROVE  /\ Keyed(inv'[e]) /\ Within(inv'[e], counter[e]) /\ verify'[e] <= counter[e]
                      /\ e \notin rows => inv'[e] = BlankRow
    BY <1>1 DEF InventoryKeyed
  <2>1. /\ Keyed(inv[e]) /\ Within(inv[e], counter[e]) /\ verify[e] <= counter[e]
        /\ e \notin rows => inv[e] = BlankRow
    BY DEF KeyInv, InventoryKeyed
  <2>2. counter[e] \in Nat
    BY <1>t, ColumnTypes
  <2>3. Keyed(inv'[e]) /\ Within(inv'[e], counter[e])
    BY <1>2, <2>1 DEF Keyed, Within
  <2> QED BY <1>2, <2>1, <2>2, <2>3 DEF None
<1>4. ASSUME NEW r \in Request PROVE DraftKeyed(r)'
  <2>1. subj[r] \subseteq Cred /\ DraftKeyed(r)
    BY <1>t, ColumnTypes DEF KeyInv
  <2>2. \A e \in subj[r] : inv'[e].live = inv[e].live
    BY <1>2, <2>1
  <2> QED BY <1>1, <2>1, <2>2 DEF DraftKeyed, Open
<1>5. \A e \in rows \cap rows' : inv'[e].live >= inv[e].live
  <2>1. \A e \in rows : e \in Cred /\ inv[e].live \in Nat
    BY <1>t DEF Row, TypeOK, DbTypeOK
  <2> QED BY <1>2, <2>1
<1> QED BY <1>3, <1>4, <1>5 DEF KeyInv

\* What leaves rows, columns and requests alone.
LEMMA StutterKeyed ==
    ASSUME KeyInv, SafetyInv', UNCHANGED <<rows, inv, verify, counter, pc, op, subj, draft>>
    PROVE  KeyInv'
<1>1. InventoryKeyed'
  BY DEF KeyInv, InventoryKeyed
<1>2. \A r \in Request : DraftKeyed(r)'
  BY DEF KeyInv, DraftKeyed, Open
<1> QED BY <1>1, <1>2 DEF KeyInv

\* Initially only legacy rows exist, at version 1 and without pointers.
LEMMA KeyInit == Init => KeyInv
<1> SUFFICES ASSUME Init PROVE KeyInv
  OBVIOUS
<1>1. SafetyInv
  BY SafetyInit
<1>2. InventoryKeyed
  <2> SUFFICES ASSUME NEW c \in Cred
               PROVE  /\ Keyed(inv[c]) /\ Within(inv[c], counter[c]) /\ verify[c] <= counter[c]
                      /\ c \notin rows => inv[c] = BlankRow
    BY DEF InventoryKeyed
  <2>1. CASE c \in Legacy
    <3>1. inv[c] = [BlankRow EXCEPT !.kv = 1] /\ counter[c] = 1 /\ verify[c] = 0 /\ c \in rows
      BY <2>1 DEF Init, None
    <3> QED BY <3>1 DEF Keyed, Within, BlankRow, None
  <2>2. CASE c \notin Legacy
    BY <2>2, BlankKeyed DEF Init, None
  <2> QED BY <2>1, <2>2
<1>3. \A r \in Request : DraftKeyed(r)
  BY DEF Init, DraftKeyed, Open
<1> QED BY <1>1, <1>2, <1>3 DEF KeyInv

\* Every step keeps identities and pointers in step, and every live pointer at least
\* where it was.
LEMMA KeyStep ==
    ASSUME KeyInv, [Next]_vars
    PROVE  KeyInv' /\ \A c \in rows \cap rows' : inv'[c].live >= inv[c].live
<1>s. SafetyInv' /\ TypeOK
  BY SafetyStep DEF KeyInv, SafetyInv
<1>1. CASE UNCHANGED vars
  <2>1. UNCHANGED <<rows, inv, verify, counter, pc, op, subj, draft>>
    BY <1>1 DEF vars, dbVars, kvVars, reqVars
  <2> QED BY <1>s, <2>1, StutterKeyed, LiveStays
<1>2. ASSUME NEW r \in Request,
             \/ \E S \in SUBSET Cred : BeginCreate(r, S)
             \/ \E o \in Offered, S \in SUBSET Cred, status \in FormStatus \cup {AsLoaded} :
                  Begin(r, o, S, status)
             \/ Lock(r) \/ InnerRollback(r)
      PROVE  KeyInv' /\ \A c \in rows \cap rows' : inv'[c].live >= inv[c].live
  <2>1. UNCHANGED inv
    BY <1>2 DEF BeginCreate, Begin, Lock, InnerRollback, dbVars
  <2> QED BY <1>2, <1>s, <2>1, OpeningKeyed, LiveStays
<1>3. ASSUME NEW r \in Request, NEW c \in Cred,
             \/ PromoteStaged(r, c) \/ \E b \in BOOLEAN : DiscardStaged(r, c, b)
             \/ StoreLost(r, c) \/ StoreRefused(r, c) \/ \E b \in BOOLEAN : StoreMaterial(r, c, b)
      PROVE  KeyInv' /\ \A e \in rows \cap rows' : inv'[e].live >= inv[e].live
  <2>1. UNCHANGED inv
    BY <1>3 DEF PromoteStaged, DiscardStaged, StoreLost, StoreRefused, StoreMaterial, dbVars
  <2> QED BY <1>3, <1>s, <2>1, DecisionKeyed, StoreKeyed, LiveStays
<1>4. ASSUME NEW r \in Request,
             \/ LockRefused(r) \/ WitnessFails(r) \/ CommitRejected(r) \/ Crash(r)
             \/ \E b \in BOOLEAN : BodyFails(r, b)
             \/ \E c \in Cred, b \in BOOLEAN :
                  Recover(r, c, b) \/ FinishDeletion(r, c, b) \/ DestroyMaterial(r, c, b)
      PROVE  KeyInv' /\ \A c \in rows \cap rows' : inv'[c].live >= inv[c].live
  <2>1. UNCHANGED inv
    BY <1>4 DEF LockRefused, WitnessFails, CommitRejected, Crash, BodyFails, Recover,
       FinishDeletion, DestroyMaterial, dbVars
  <2> QED BY <1>4, <1>s, <2>1, EndingKeyed, LiveStays
<1>5. ASSUME NEW r \in Request,
             Commit(r) \/ CallbackFails(r) \/ \E b \in BOOLEAN : CommitUnknown(r, b)
      PROVE  KeyInv' /\ \A c \in rows \cap rows' : inv'[c].live >= inv[c].live
  BY <1>5, <1>s, CommitKeyed
<1>6. ASSUME NEW c \in Cred, VerifyRead(c) \/ VerifyWrite(c) \/ ExpiryScan(c)
      PROVE  KeyInv' /\ \A e \in rows \cap rows' : inv'[e].live >= inv[e].live
  BY <1>6, <1>s, JobKeyed
<1>7. ASSUME NEW c \in Cred, OutOfBandDelete(c)
      PROVE  KeyInv' /\ \A e \in rows \cap rows' : inv'[e].live >= inv[e].live
  <2>1. UNCHANGED <<rows, inv, verify, counter, pc, op, subj, draft>>
    BY <1>7 DEF OutOfBandDelete, dbVars, reqVars
  <2> QED BY <1>s, <2>1, StutterKeyed, LiveStays
<1>8. CASE \E r \in Request : RequestStep(r) \/ Crash(r)
  BY <1>2, <1>3, <1>4, <1>5, <1>8 DEF RequestStep
<1> QED BY <1>1, <1>2, <1>6, <1>7, <1>8 DEF Next

\* The stored public-key identities always belong to the versions the row names,
\* whatever requests, lost answers, jobs and crashes interleave.
THEOREM KeyIdentityCorrect == Spec => []KeyIdentityMatchesPointer
<1>1. KeyInv => KeyIdentityMatchesPointer
  BY DEF KeyInv, InventoryKeyed, Keyed, KeyIdentityMatchesPointer, SafetyInv, TypeOK, DbTypeOK
<1>2. KeyInv /\ [Next]_vars => KeyInv'
  BY KeyStep
<1> QED BY <1>1, <1>2, KeyInit, PTL DEF Spec

\* The committed live pointer of a credential never goes back to an older version: no
\* edit, job or racing writer saves what it loaded before it held the lock.
THEOREM LiveCorrect == Spec => LiveNeverRegresses
<1>1. KeyInv /\ [Next]_vars =>
        [\A c \in rows \cap rows' : inv'[c].live >= inv[c].live]_vars
  BY KeyStep
<1>2. KeyInv /\ [Next]_vars => KeyInv'
  BY KeyStep
<1> QED BY <1>1, <1>2, KeyInit, PTL DEF Spec, LiveNeverRegresses

--------------------------------------------------------------------------------
(***************************************************************************)
(* Residue: nothing readable is left behind silently.                      *)
(***************************************************************************)

\* What a witnessed attempt left in the draft names the version it wrote.
WitnessOK(r, c) ==
    /\ op[r] \in {"create", "rotate", "update"} =>
         draft[r][c].live = wrote[r][c] /\ draft[r][c].kv = wrote[r][c]
    /\ op[r] = "stage" => draft[r][c].staged = wrote[r][c]

\* A draft lets go of the committed candidate only to replace, promote or discard it.
StagedKept(r, c) ==
    draft[r][c].staged # inv[c].staged =>
        \/ op[r] \in {"create", "rotate", "update"}
        \/ op[r] = "stage" /\ inv[c].staged = None
        \/ op[r] = "promote" /\ draft[r][c].live = inv[c].staged
        \/ op[r] = "discard" /\ c \in attempted[r]

\* The draft of one request accounts for its attempts and for the candidate it found.
DraftAccounts(r) ==
    /\ pc[r] # "idle" /\ op[r] \in SingleOps => \E c \in Cred : subj[r] = {c}
    /\ pc[r] \in {"idle", "waiting"} => witness[r] = {}
    /\ Open(r) => /\ witness[r] \subseteq attempted[r]
                  /\ \A c \in witness[r] : wrote[r][c] # None /\ WitnessOK(r, c)
                  /\ \A c \in subj[r] : StagedKept(r, c)

\* One request owns version v of c; some account of it exists.
OwnedBy(r, c, v) ==
    \/ pc[r] \in {"body", "commit", "recover", "finish"} /\ c \in attempted[r] /\ wrote[r][c] = v
    \/ pc[r] = "destroy" /\ c \in subj[r]
Accounted(c, v) ==
    \/ c \in rows /\ (<<c, v>> \in everLive \/ inv[c].staged = v)
    \/ \E r \in Request : OwnedBy(r, c, v)
    \/ <<c, v>> \in explained
EveryVersionAccounted ==
    \A c \in Cred, v \in Nat : <<c, v>> \in present => v # None /\ Accounted(c, v)

ResidueInv == KeyInv /\ (\A r \in Request : DraftAccounts(r)) /\ EveryVersionAccounted

\* Pair by pair, the accounts are the property.
LEMMA AccountsResidue == ResidueInv => NoSilentResidue
<1> SUFFICES ASSUME ResidueInv, NEW p \in present
             PROVE  \/ p[1] \in rows /\ (p \in everLive \/ inv[p[1]].staged = p[2])
                    \/ Owned(p[1], p[2])
                    \/ p \in explained
  BY DEF NoSilentResidue
<1>1. p \in Cred \X Nat
  BY DEF ResidueInv, KeyInv, SafetyInv, TypeOK, KvTypeOK, Pairs
<1>2. PICK c \in Cred, v \in Nat : p = <<c, v>>
  BY <1>1
<1>3. p[1] = c /\ p[2] = v
  BY <1>2
<1>4. Accounted(c, v)
  BY <1>2 DEF ResidueInv, EveryVersionAccounted
<1> QED BY <1>2, <1>3, <1>4 DEF Accounted, Owned, OwnedBy

\* What r does not touch stays accounted for by the drafts of the others.
LEMMA DraftsStay ==
    ASSUME ResidueInv, NEW r \in Request, OthersSame(r),
           \A c \in Cred : inv'[c].staged = inv[c].staged \/ (Open(r) /\ c \in subj[r])
    PROVE  \A q \in Request \ {r} : DraftAccounts(q)'
<1> SUFFICES ASSUME NEW q \in Request, q # r PROVE DraftAccounts(q)'
  OBVIOUS
<1>1. Same(q) /\ DraftAccounts(q)
  BY DEF ResidueInv, OthersSame
<1>2. Open(q)' <=> Open(q)
  BY <1>1 DEF Same, Open
<1>3. ASSUME Open(q), NEW c \in subj[q] PROVE StagedKept(q, c)'
  <2>1. c \in Cred /\ ~(Open(r) /\ c \in subj[r])
    BY <1>3, ColumnTypes DEF ResidueInv, KeyInv, SafetyInv, ClaimInv, Claims
  <2>2. inv'[c].staged = inv[c].staged /\ StagedKept(q, c)
    BY <1>1, <1>3, <2>1 DEF DraftAccounts
  <2> QED BY <1>1, <2>2 DEF StagedKept, Same
<1>4. \A c \in witness[q] : WitnessOK(q, c) => WitnessOK(q, c)'
  BY <1>1 DEF Same, WitnessOK
<1> QED BY <1>1, <1>2, <1>3, <1>4 DEF DraftAccounts, Same

\* The others keep what they own.
LEMMA OwnersStay ==
    ASSUME NEW r \in Request, OthersSame(r), NEW c, NEW v,
           \E q \in Request : OwnedBy(q, c, v)
    PROVE  OwnedBy(r, c, v) \/ \E q \in Request : OwnedBy(q, c, v)'
<1>1. PICK q \in Request : OwnedBy(q, c, v)
  OBVIOUS
<1>2. CASE q # r
  BY <1>1, <1>2 DEF OthersSame, Same, OwnedBy
<1> QED BY <1>1, <1>2

\* A step of one request that commits nothing: what it wrote it owns, what it stops
\* owning it explains or removes.
LEMMA ResidueFrame ==
    ASSUME ResidueInv, KeyInv', NEW r \in Request, OthersSame(r), DraftAccounts(r)',
           UNCHANGED <<rows, inv, everLive>>, explained \cap present' \subseteq explained',
           \A c \in Cred, v \in Nat : <<c, v>> \in present' =>
              \/ v # None /\ OwnedBy(r, c, v)'
              \/ /\ <<c, v>> \in present
                 /\ OwnedBy(r, c, v) => OwnedBy(r, c, v)' \/ <<c, v>> \in explained'
    PROVE  ResidueInv'
<1>1. \A q \in Request : DraftAccounts(q)'
  BY DraftsStay
<1>2. EveryVersionAccounted'
  <2> SUFFICES ASSUME NEW c \in Cred, NEW v \in Nat, <<c, v>> \in present'
               PROVE  v # None /\ Accounted(c, v)'
    BY DEF EveryVersionAccounted
  <2>1. CASE v # None /\ OwnedBy(r, c, v)'
    BY <2>1 DEF Accounted
  <2>2. CASE /\ <<c, v>> \in present
             /\ OwnedBy(r, c, v) => OwnedBy(r, c, v)' \/ <<c, v>> \in explained'
    <3>1. v # None /\ Accounted(c, v)
      BY <2>2 DEF ResidueInv, EveryVersionAccounted
    <3>2. CASE \E q \in Request : OwnedBy(q, c, v)
      BY <2>2, <3>1, <3>2, OwnersStay DEF Accounted
    <3>3. CASE \/ c \in rows /\ (<<c, v>> \in everLive \/ inv[c].staged = v)
               \/ <<c, v>> \in explained
      BY <3>1, <3>3 DEF Accounted
    <3> QED BY <3>1, <3>2, <3>3 DEF Accounted
  <2> QED BY <2>1, <2>2
<1> QED BY <1>1, <1>2 DEF ResidueInv

\* A request that is not left open, on a mount that only shrinks.
LEMMA ResidueClose ==
    ASSUME ResidueInv, KeyInv', NEW r \in Request, OthersSame(r),
           \/ pc'[r] = "idle" /\ witness'[r] = {}
           \/ /\ pc'[r] \in {"recover", "finish", "destroy"}
              /\ op'[r] \notin SingleOps
                 \/ (subj'[r] = subj[r] /\ op'[r] = op[r] /\ pc[r] # "idle"),
           UNCHANGED <<rows, inv, everLive>>, explained \cap present' \subseteq explained',
           present' \subseteq present,
           \A c \in Cred, v \in Nat : <<c, v>> \in present' /\ OwnedBy(r, c, v) =>
              OwnedBy(r, c, v)' \/ <<c, v>> \in explained'
    PROVE  ResidueInv'
<1>1. DraftAccounts(r)'
  BY DEF DraftAccounts, ResidueInv, Open
<1> QED BY <1>1, ResidueFrame

\* The pairs a request names when it accounts for what it wrote.
LEMMA WroteByHas ==
    ASSUME NEW r, NEW S, NEW c \in S, wrote[r][c] # None
    PROVE  <<c, wrote[r][c]>> \in WroteBy(r, S)
BY DEF WroteBy

\* A known or unknown rollback keeps every attempt until recover() accounts for it.
LEMMA UnwindResidue ==
    ASSUME ResidueInv, KeyInv', NEW r \in Request, NEW lost, Unwind(r, lost), Open(r),
           UNCHANGED <<rows, inv, everLive, explained, present>>
    PROVE  ResidueInv'
<1>t. TypeOK
  BY DEF ResidueInv, KeyInv, SafetyInv
<1>1. OthersSame(r)
  BY <1>t, UnwindBlank
<1>2. CASE attempted[r] = {}
  <2>1. Reset(r)
    BY <1>2 DEF Unwind
  <2>2. pc'[r] = "idle" /\ witness'[r] = {}
    BY <1>t, <2>1 DEF Reset, TypeOK, ReqTypeOK
  <2>3. \A c \in Cred, v \in Nat : ~OwnedBy(r, c, v)
    BY <1>2 DEF OwnedBy, Open
  <2> QED BY <1>1, <2>2, <2>3, ResidueClose
<1>3. CASE attempted[r] # {}
  <2>1. /\ pc'[r] = "recover" /\ attempted'[r] = attempted[r] /\ wrote'[r] = wrote[r]
        /\ op'[r] = op[r] /\ subj'[r] = subj[r] /\ pc[r] # "idle"
    BY <1>t, <1>3 DEF Unwind, Open, TypeOK, ReqTypeOK
  <2>2. \A c \in Cred, v \in Nat : OwnedBy(r, c, v) => OwnedBy(r, c, v)'
    BY <2>1 DEF OwnedBy, Open
  <2> QED BY <1>1, <2>1, <2>2, ResidueClose
<1> QED BY <1>2, <1>3

\* A request dropped after it explained what it owned.
LEMMA ResetResidue ==
    ASSUME ResidueInv, KeyInv', NEW r \in Request, Reset(r),
           UNCHANGED <<rows, inv, everLive>>, explained \cap present' \subseteq explained',
           present' \subseteq present,
           \A c \in Cred, v \in Nat :
              <<c, v>> \in present' /\ OwnedBy(r, c, v) => <<c, v>> \in explained'
    PROVE  ResidueInv'
<1>t. TypeOK
  BY DEF ResidueInv, KeyInv, SafetyInv
<1>1. OthersSame(r) /\ pc'[r] = "idle" /\ witness'[r] = {}
  BY <1>t, ResetFacts DEF Reset, TypeOK, ReqTypeOK
<1> QED BY <1>1, ResidueClose

\* Rollbacks of an open transaction, and a wait for a row that is gone.
LEMMA EndingResidue ==
    ASSUME ResidueInv, KeyInv', NEW r \in Request,
           \/ LockRefused(r) \/ WitnessFails(r) \/ CommitRejected(r)
           \/ \E b \in BOOLEAN : BodyFails(r, b)
    PROVE  ResidueInv'
<1>1. UNCHANGED <<rows, inv, everLive, explained, present>>
  BY DEF LockRefused, WitnessFails, CommitRejected, BodyFails, dbVars, kvVars, histVars
<1>2. CASE LockRefused(r)
  <2>1. Reset(r) /\ \A c \in Cred, v \in Nat : ~OwnedBy(r, c, v)
    BY <1>2 DEF LockRefused, OwnedBy
  <2> QED BY <1>1, <2>1, ResetResidue
<1>3. CASE WitnessFails(r) \/ CommitRejected(r) \/ \E b \in BOOLEAN : BodyFails(r, b)
  <2>1. PICK lost : Unwind(r, lost)
    BY <1>3 DEF WitnessFails, CommitRejected, BodyFails
  <2>2. Open(r)
    BY <1>3 DEF WitnessFails, CommitRejected, BodyFails, Open
  <2> QED BY <1>1, <2>1, <2>2, UnwindResidue
<1> QED BY <1>2, <1>3

\* A dead process: what it owned is the residue the property excuses by name.
LEMMA CrashResidue ==
    ASSUME ResidueInv, KeyInv', NEW r \in Request, Crash(r)
    PROVE  ResidueInv'
<1> DEFINE P == IF pc[r] = "destroy" THEN AllPairsOf(subj[r]) ELSE WroteBy(r, attempted[r])
<1>1. /\ Reset(r) /\ UNCHANGED <<rows, inv, everLive, present>>
      /\ explained' = (explained \cup P) \cap present
  BY DEF Crash, dbVars, kvVars, Explain
<1>2. ASSUME NEW c \in Cred, NEW v \in Nat, <<c, v>> \in present, OwnedBy(r, c, v)
      PROVE  <<c, v>> \in P
  <2>1. CASE pc[r] = "destroy"
    BY <1>2, <2>1 DEF OwnedBy, AllPairsOf
  <2>2. CASE pc[r] # "destroy"
    <3>1. v # None
      BY <1>2 DEF ResidueInv, EveryVersionAccounted
    <3> QED BY <1>2, <2>2, <3>1, WroteByHas DEF OwnedBy
  <2> QED BY <2>1, <2>2
<1> HIDE DEF P
<1> QED BY <1>1, <1>2, ResetResidue

\* recover(): each attempt is compensated or recorded before it is forgotten.
LEMMA RecoverResidue ==
    ASSUME ResidueInv, KeyInv', NEW r \in Request, NEW c \in Cred, NEW b \in BOOLEAN,
           Recover(r, c, b)
    PROVE  ResidueInv'
<1>t. TypeOK
  BY DEF ResidueInv, KeyInv, SafetyInv
<1>1. /\ pc[r] = "recover" /\ c \in attempted[r] /\ present' \subseteq present
      /\ UNCHANGED <<rows, inv, everLive>>
      /\ explained' = (explained \cup WroteBy(r, {c})) \cap present'
  BY DEF Recover, DeleteVersion, Explain, dbVars
<1>2. ASSUME NEW v \in Nat, <<c, v>> \in present', OwnedBy(r, c, v)
      PROVE  <<c, v>> \in explained'
  <2>1. v # None /\ wrote[r][c] = v
    BY <1>1, <1>2 DEF OwnedBy, ResidueInv, EveryVersionAccounted
  <2>2. <<c, v>> \in WroteBy(r, {c})
    BY <2>1, WroteByHas
  <2> QED BY <1>1, <1>2, <2>2
<1>3. CASE attempted[r] = {c}
  <2>1. Reset(r)
    BY <1>3 DEF Recover
  <2>2. \A e \in Cred, v \in Nat : OwnedBy(r, e, v) => e = c
    BY <1>1, <1>3 DEF OwnedBy
  <2> QED BY <1>1, <1>2, <2>1, <2>2, ResetResidue
<1>4. CASE attempted[r] # {c}
  <2>1. /\ attempted' = [attempted EXCEPT ![r] = @ \ {c}]
        /\ UNCHANGED <<pc, op, subj, draft, known, wrote, witness, unknown>>
    BY <1>4 DEF Recover
  <2>2. OthersSame(r) /\ attempted'[r] = attempted[r] \ {c}
    BY <1>t, <2>1 DEF OthersSame, Same, TypeOK, ReqTypeOK
  <2>3. \A e \in Cred \ {c}, v \in Nat : OwnedBy(r, e, v) => OwnedBy(r, e, v)'
    BY <1>1, <2>1, <2>2 DEF OwnedBy
  <2>4. pc'[r] = "recover" /\ pc[r] # "idle" /\ subj'[r] = subj[r] /\ op'[r] = op[r]
    BY <1>1, <2>1
  <2> QED BY <1>1, <1>2, <2>2, <2>3, <2>4, ResidueClose
<1> QED BY <1>3, <1>4

\* finish_deletions: the discarded candidate, the only one, is removed or recorded.
LEMMA FinishResidue ==
    ASSUME ResidueInv, KeyInv', NEW r \in Request, NEW c \in Cred, NEW b \in BOOLEAN,
           FinishDeletion(r, c, b)
    PROVE  ResidueInv'
<1>1. /\ pc[r] = "finish" /\ c \in attempted[r] /\ present' \subseteq present /\ Reset(r)
      /\ UNCHANGED <<rows, inv, everLive>>
      /\ explained' = (explained \cup (IF b THEN {} ELSE WroteBy(r, {c}))) \cap present'
      /\ b => present' = present \ {<<c, wrote[r][c]>>}
  BY DEF FinishDeletion, DeleteVersion, Explain, dbVars
<1>2. op[r] = "discard" /\ attempted[r] \subseteq subj[r]
  BY <1>1 DEF ResidueInv, KeyInv, SafetyInv, AttemptInv
<1>3. \E e \in Cred : subj[r] = {e}
  BY <1>1, <1>2 DEF ResidueInv, DraftAccounts, SingleOps
<1>4. ASSUME NEW e \in Cred, NEW v \in Nat, <<e, v>> \in present', OwnedBy(r, e, v)
      PROVE  <<e, v>> \in explained'
  <2>1. e = c /\ wrote[r][c] = v
    BY <1>1, <1>2, <1>3, <1>4 DEF OwnedBy
  <2>2. v # None /\ ~b
    BY <1>1, <1>4, <2>1 DEF ResidueInv, EveryVersionAccounted
  <2>3. <<e, v>> \in WroteBy(r, {c})
    BY <2>1, <2>2, WroteByHas
  <2> QED BY <1>1, <1>4, <2>2, <2>3
<1> QED BY <1>1, <1>4, ResetResidue

\* The destruction of a deleted credential removes its path or leaves its log line.
LEMMA DestroyResidue ==
    ASSUME ResidueInv, KeyInv', NEW r \in Request, NEW c \in Cred, NEW b \in BOOLEAN,
           DestroyMaterial(r, c, b)
    PROVE  ResidueInv'
<1>t. TypeOK
  BY DEF ResidueInv, KeyInv, SafetyInv
<1>1. /\ pc[r] = "destroy" /\ c \in subj[r] /\ present' \subseteq present
      /\ UNCHANGED <<rows, inv, everLive>>
      /\ explained' = (explained \cup (IF b THEN {} ELSE AllPairsOf({c}))) \cap present'
      /\ b => present' = present \ AllPairsOf({c})
  BY DEF DestroyMaterial, Explain, dbVars
<1>2. ASSUME NEW v \in Nat, <<c, v>> \in present' PROVE <<c, v>> \in explained'
  <2>1. <<c, v>> \in AllPairsOf({c})
    BY <1>1, <1>2 DEF AllPairsOf
  <2> QED BY <1>1, <1>2, <2>1
<1>3. CASE subj[r] = {c}
  <2>1. Reset(r)
    BY <1>3 DEF DestroyMaterial
  <2>2. \A e \in Cred, v \in Nat : OwnedBy(r, e, v) => e = c
    BY <1>1, <1>3 DEF OwnedBy
  <2> QED BY <1>1, <1>2, <2>1, <2>2, ResetResidue
<1>4. CASE subj[r] # {c}
  <2>1. /\ subj' = [subj EXCEPT ![r] = @ \ {c}]
        /\ UNCHANGED <<pc, op, draft, attempted, known, wrote, witness, unknown>>
    BY <1>4 DEF DestroyMaterial
  <2>2. OthersSame(r) /\ subj'[r] = subj[r] \ {c}
    BY <1>t, <2>1 DEF OthersSame, Same, TypeOK, ReqTypeOK
  <2>3. \A e \in Cred \ {c}, v \in Nat : OwnedBy(r, e, v) => OwnedBy(r, e, v)'
    BY <1>1, <2>1, <2>2 DEF OwnedBy
  <2>4. op[r] = "delete"
    BY <1>1 DEF ResidueInv, KeyInv, SafetyInv, AttemptInv
  <2>5. pc'[r] = "destroy" /\ op'[r] \notin SingleOps
    BY <1>1, <2>1, <2>4 DEF SingleOps
  <2> QED BY <1>1, <1>2, <2>2, <2>3, <2>5, ResidueClose
<1> QED BY <1>3, <1>4

\* Opening a transaction, and a savepoint rolled back inside one: the drafts hold the
\* committed candidate, and no witness is left.
LEMMA OpeningResidue ==
    ASSUME ResidueInv, KeyInv', NEW r \in Request,
           \/ \E S \in SUBSET Cred : BeginCreate(r, S)
           \/ \E o \in Offered, S \in SUBSET Cred, status \in FormStatus \cup {AsLoaded} :
                Begin(r, o, S, status)
           \/ Lock(r) \/ InnerRollback(r)
    PROVE  ResidueInv'
<1>t. TypeOK
  BY DEF ResidueInv, KeyInv, SafetyInv
<1>1. /\ UNCHANGED <<rows, inv, everLive, explained, present, attempted, wrote>>
      /\ OthersSame(r)
  BY <1>t DEF BeginCreate, Begin, Lock, InnerRollback, dbVars, kvVars, histVars, OthersSame,
     Same, TypeOK, ReqTypeOK
<1>w. pc[r] \in {"idle", "waiting"} => attempted[r] = {}
  BY DEF ResidueInv, KeyInv, SafetyInv, AttemptInv
<1>2. \A c \in Cred, v \in Nat : OwnedBy(r, c, v) => OwnedBy(r, c, v)'
  <2>1. CASE pc[r] \in {"idle", "waiting"}
    BY <2>1 DEF OwnedBy
  <2>2. CASE InnerRollback(r)
    BY <1>1, <2>2 DEF InnerRollback, OwnedBy
  <2> QED BY <2>1, <2>2 DEF BeginCreate, Begin, Lock
<1>3. DraftAccounts(r)'
  <2>1. ASSUME NEW S \in SUBSET Cred, BeginCreate(r, S) PROVE DraftAccounts(r)'
    <3>1. /\ pc[r] = "idle" /\ op'[r] = "create" /\ witness' = witness
      BY <1>t, <2>1 DEF BeginCreate, TypeOK, ReqTypeOK
    <3>2. witness[r] = {}
      BY <3>1 DEF ResidueInv, DraftAccounts
    <3>3. pc'[r] = "body"
      BY <1>t, <2>1 DEF BeginCreate, TypeOK, ReqTypeOK
    <3> QED BY <3>1, <3>2, <3>3 DEF DraftAccounts, StagedKept, SingleOps
  <2>2. ASSUME NEW o \in Offered, NEW S \in SUBSET Cred,
               NEW status \in FormStatus \cup {AsLoaded}, Begin(r, o, S, status)
        PROVE  DraftAccounts(r)'
    <3>1. /\ pc'[r] = "waiting" /\ op'[r] = o /\ subj'[r] = S
          /\ o \in SingleOps => \E c \in Cred : S = {c}
          /\ pc[r] = "idle" /\ witness' = witness
      BY <1>t, <2>2 DEF Begin, TypeOK, ReqTypeOK, BatchOps, SingleOps
    <3>2. witness'[r] = {}
      BY <3>1 DEF ResidueInv, DraftAccounts
    <3> QED BY <3>1, <3>2 DEF DraftAccounts, Open
  <2>3. CASE Lock(r) \/ InnerRollback(r)
    <3>1. /\ pc[r] # "idle" /\ op'[r] = op[r] /\ subj'[r] = subj[r]
          /\ \A c \in subj[r] : draft'[r][c] \in {Refreshed(r, c), inv[c]}
      BY <1>t, <2>3 DEF Lock, InnerRollback, TypeOK, ReqTypeOK
    <3>2. ASSUME NEW c \in subj[r] PROVE StagedKept(r, c)'
      <4>1. inv[c] \in Row
        BY <1>t, ColumnTypes
      <4>2. PICK s : draft'[r][c] = inv[c] \/ draft'[r][c] = [inv[c] EXCEPT !.status = s]
        BY <3>1 DEF Refreshed
      <4>3. draft'[r][c].staged = inv[c].staged
        BY <4>1, <4>2 DEF Row
      <4> QED BY <1>1, <4>3 DEF StagedKept
    <3>3. witness'[r] = {}
      <4>1. CASE Lock(r)
        BY <4>1 DEF Lock, ResidueInv, DraftAccounts
      <4>2. CASE InnerRollback(r)
        BY <1>t, <4>2 DEF InnerRollback, TypeOK, ReqTypeOK
      <4> QED BY <2>3, <4>1, <4>2
    <3> QED BY <3>1, <3>2, <3>3 DEF DraftAccounts, ResidueInv
  <2> QED BY <2>1, <2>2, <2>3
<1> QED BY <1>1, <1>2, <1>3, ResidueFrame

\* Promotion and discard let go of exactly the committed candidate.
LEMMA DecisionResidue ==
    ASSUME ResidueInv, KeyInv', NEW r \in Request, NEW c \in Cred,
           PromoteStaged(r, c) \/ \E b \in BOOLEAN : DiscardStaged(r, c, b)
    PROVE  ResidueInv'
<1> DEFINE d == draft[r][c]
<1>t. TypeOK /\ d \in Row
  BY ColumnTypes DEF ResidueInv, KeyInv, SafetyInv
<1>1. /\ UNCHANGED <<rows, inv, everLive, explained, present>> /\ OthersSame(r)
      /\ pc[r] = "body" /\ pc'[r] = "commit" /\ op' = op /\ subj' = subj
      /\ c \in subj[r] /\ op[r] \in {"promote", "discard"} /\ d.staged # None
      /\ \A e \in Cred \ {c} : draft'[r][e] = draft[r][e] /\ wrote'[r][e] = wrote[r][e]
  BY <1>t DEF PromoteStaged, DiscardStaged, dbVars, kvVars, histVars, OthersSame, Same,
     TypeOK, ReqTypeOK
<1>2. d.staged = inv[c].staged
  BY <1>1 DEF ResidueInv, KeyInv, SafetyInv, DraftInv, DraftOK, Open
<1>3. /\ subj[r] \subseteq Cred /\ attempted[r] \subseteq subj[r]
      /\ attempted[r] # {} => op[r] # "promote"
      /\ c \in attempted[r] /\ op[r] = "discard" => wrote[r][c] = inv[c].staged
  BY <1>t, <1>1, ColumnTypes DEF ResidueInv, KeyInv, SafetyInv, AttemptInv, DiscardInv, Open, WriteOps
<1>4. /\ op[r] \in SingleOps => \E e \in Cred : subj[r] = {e}
      /\ witness[r] \subseteq attempted[r]
      /\ \A e \in witness[r] : wrote[r][e] # None
      /\ \A e \in subj[r] : StagedKept(r, e)
  BY <1>1 DEF ResidueInv, DraftAccounts, Open
<1>5. subj[r] = {c}
  BY <1>1, <1>4 DEF SingleOps
<1>6. CASE PromoteStaged(r, c)
  <2>1. /\ draft'[r][c] = [PromoteKeyIdentity(d) EXCEPT
                             !.live = d.staged, !.staged = None, !.status = "active"]
        /\ UNCHANGED <<attempted, wrote, witness>> /\ op[r] = "promote"
    BY <1>t, <1>6 DEF PromoteStaged, TypeOK, ReqTypeOK
  <2>2. draft'[r][c].live = inv[c].staged
    <3>1. counter[c] \in Nat /\ Keyed(d) /\ Within(d, counter[c])
      BY <1>t, <1>1, ColumnTypes DEF ResidueInv, KeyInv, DraftKeyed, Open
    <3> HIDE DEF d
    <3> QED BY <1>t, <1>1, <1>2, <2>1, <3>1, PromotedKeyed
  <2>3. attempted[r] = {} /\ witness[r] = {}
    BY <1>3, <1>4, <2>1
  <2>4. DraftAccounts(r)'
    BY <1>1, <1>5, <2>1, <2>2, <2>3 DEF DraftAccounts, StagedKept
  <2>5. \A e \in Cred, v \in Nat : ~OwnedBy(r, e, v)
    BY <1>1, <2>3 DEF OwnedBy
  <2> QED BY <1>1, <2>4, <2>5, ResidueFrame
<1>7. CASE \E b \in BOOLEAN : DiscardStaged(r, c, b)
  <2>0. PICK b \in BOOLEAN : DiscardStaged(r, c, b)
    BY <1>7
  <2>1. /\ wrote'[r][c] = d.staged /\ attempted'[r] = attempted[r] \cup {c}
        /\ witness'[r] \subseteq witness[r] \cup {c} /\ op[r] = "discard"
    BY <1>t, <2>0 DEF DiscardStaged, TypeOK, ReqTypeOK
  <2> HIDE DEF d
  <2>2. DraftAccounts(r)'
    <3>1. witness'[r] \subseteq attempted'[r] /\ \A e \in witness'[r] : wrote'[r][e] # None
      BY <1>1, <1>3, <1>4, <1>5, <2>1
    <3>2. \A e \in witness'[r] : WitnessOK(r, e)'
      BY <1>1, <2>1 DEF WitnessOK
    <3>3. \A e \in subj'[r] : StagedKept(r, e)'
      BY <1>1, <1>5, <2>1 DEF StagedKept
    <3> QED BY <1>1, <1>5, <3>1, <3>2, <3>3 DEF DraftAccounts
  <2>3. \A e \in Cred, v \in Nat : OwnedBy(r, e, v) => OwnedBy(r, e, v)'
    BY <1>1, <1>2, <1>3, <2>1 DEF OwnedBy
  <2> QED BY <1>1, <2>2, <2>3, ResidueFrame
<1> QED BY <1>6, <1>7

\* Writes: the owner appended the attempt before the call, so it owns the version
\* whether or not the answer arrives.
LEMMA StoreResidue ==
    ASSUME ResidueInv, KeyInv', NEW r \in Request, NEW c \in Cred,
           StoreLost(r, c) \/ StoreRefused(r, c) \/ \E b \in BOOLEAN : StoreMaterial(r, c, b)
    PROVE  ResidueInv'
<1> DEFINE n == counter[c] + 1
           d == draft[r][c]
<1>t. TypeOK
  BY DEF ResidueInv, KeyInv, SafetyInv
<1>1. /\ UNCHANGED <<rows, inv, everLive, explained>> /\ OthersSame(r)
      /\ pc[r] = "body" /\ c \in subj[r] /\ c \notin attempted[r] /\ op[r] \in WriteOps
      /\ op[r] = "stage" => draft[r][c].staged = None
      /\ op' = op /\ subj' = subj /\ attempted'[r] = attempted[r] \cup {c}
      /\ pc'[r] \in {"body", "commit", "recover"}
      /\ \A e \in Cred \ {c} : wrote'[r][e] = wrote[r][e]
  BY <1>t DEF StoreLost, StoreRefused, StoreMaterial, AttemptFails, Accepted, WriteReady, dbVars,
     kvVars, histVars, OthersSame, Same, TypeOK, ReqTypeOK
<1>2. \/ present' = present
      \/ present' = present \cup {<<c, n>>} /\ wrote'[r][c] = n
  BY <1>t DEF StoreLost, StoreRefused, StoreMaterial, Accepted, kvVars, TypeOK, ReqTypeOK
<1>3. n # None /\ n \in Nat
  BY <1>t, ColumnTypes DEF None
<1> HIDE DEF n
<1>4. \A e \in Cred, v \in Nat : OwnedBy(r, e, v) => OwnedBy(r, e, v)'
  BY <1>1 DEF OwnedBy
<1>5. ASSUME NEW e \in Cred, NEW v \in Nat, <<e, v>> \in present'
      PROVE  <<e, v>> \in present \/ (v # None /\ OwnedBy(r, e, v)')
  <2>1. CASE <<e, v>> \in present
    BY <2>1
  <2>2. CASE <<e, v>> \notin present
    <3>1. e = c /\ v = n /\ wrote'[r][c] = n
      BY <1>2, <1>5, <2>2
    <3> QED BY <1>1, <1>3, <3>1 DEF OwnedBy
  <2> QED BY <2>1, <2>2
<1>6. /\ op[r] \in SingleOps => \E e \in Cred : subj[r] = {e}
      /\ witness[r] \subseteq attempted[r] /\ attempted[r] \subseteq subj[r] /\ subj[r] \subseteq Cred
      /\ \A e \in witness[r] : wrote[r][e] # None /\ WitnessOK(r, e)
      /\ \A e \in subj[r] : StagedKept(r, e)
  BY <1>t, <1>1, ColumnTypes DEF ResidueInv, DraftAccounts, Open, KeyInv, SafetyInv, AttemptInv
<1>7. DraftAccounts(r)'
  <2>1. CASE StoreLost(r, c) \/ StoreRefused(r, c)
    <3>1. pc'[r] = "recover"
      BY <1>t, <2>1 DEF StoreLost, StoreRefused, AttemptFails, TypeOK, ReqTypeOK
    <3> QED BY <1>1, <1>6, <3>1 DEF DraftAccounts, Open
  <2>2. CASE \E b \in BOOLEAN : StoreMaterial(r, c, b)
    <3>1. /\ draft'[r][c] = Stored(op[r], c, d, n) /\ wrote'[r][c] = n
          /\ \A e \in Cred \ {c} : draft'[r][e] = draft[r][e]
          /\ witness'[r] \subseteq witness[r] \cup {c}
          /\ pc'[r] \in {"body", "commit"}
      BY <1>t, <2>2 DEF StoreMaterial, Accepted, TypeOK, ReqTypeOK, n
    <3>2. d \in Row /\ counter[c] \in Nat /\ Keyed(d) /\ Within(d, counter[c])
      BY <1>t, <1>1, ColumnTypes DEF ResidueInv, KeyInv, DraftKeyed, Open
    <3>3. op[r] = "stage" => d.staged = None
      BY <1>1
    <3> HIDE DEF d
    <3>4. LET s == draft'[r][c] IN
          /\ op[r] # "stage" => s.live = n /\ s.kv = n
          /\ op[r] = "stage" => s.staged = n
      BY <3>1, <3>2, <3>3, StoredKeyed DEF n
    <3>5. WitnessOK(r, c)'
      BY <1>1, <3>1, <3>4 DEF WitnessOK
    <3>6. \A e \in witness[r] : e # c /\ e \in Cred /\ WitnessOK(r, e)'
      BY <1>1, <1>6, <3>1 DEF WitnessOK
    <3>7. \A e \in witness'[r] : wrote'[r][e] # None /\ WitnessOK(r, e)'
      BY <1>1, <1>3, <1>6, <3>1, <3>5, <3>6
    <3>8. StagedKept(r, c)'
      <4>1. op[r] = "stage" => inv[c].staged = None
        BY <1>1, <1>6 DEF StagedKept
      <4> QED BY <1>1, <4>1 DEF StagedKept, WriteOps
    <3>9. \A e \in subj[r] \ {c} : StagedKept(r, e)'
      BY <1>1, <1>6, <3>1 DEF StagedKept
    <3> QED BY <1>1, <1>6, <3>1, <3>7, <3>8, <3>9 DEF DraftAccounts
  <2> QED BY <2>1, <2>2
<1>8. explained \cap present' \subseteq explained'
  BY <1>1
<1> QED BY <1>1, <1>4, <1>5, <1>7, <1>8, ResidueFrame

\* Jobs that save kv_version or a status, and steps that change nothing here.
LEMMA JobResidue ==
    ASSUME ResidueInv, KeyInv', UNCHANGED <<rows, present, reqVars, everLive, explained>>,
           \A c \in Cred : inv'[c].staged = inv[c].staged
    PROVE  ResidueInv'
<1>1. UNCHANGED <<pc, op, subj, draft, attempted, wrote, witness>>
  BY DEF reqVars
<1>2. ASSUME NEW r \in Request PROVE DraftAccounts(r)'
  <2>1. subj[r] \subseteq Cred
    BY ColumnTypes DEF ResidueInv, KeyInv, SafetyInv
  <2>2. \A c \in subj[r] : StagedKept(r, c) => StagedKept(r, c)'
    BY <1>1, <2>1 DEF StagedKept
  <2>3. \A c \in witness[r] : WitnessOK(r, c) => WitnessOK(r, c)'
    BY <1>1 DEF WitnessOK
  <2> QED BY <1>1, <2>2, <2>3 DEF ResidueInv, DraftAccounts, Open
<1>3. EveryVersionAccounted'
  BY <1>1 DEF ResidueInv, EveryVersionAccounted, Accounted, OwnedBy
<1> QED BY <1>2, <1>3 DEF ResidueInv

\* A candidate removed from outside needs no account any more.
LEMMA OutsideResidue ==
    ASSUME ResidueInv, KeyInv', NEW c \in Cred, OutOfBandDelete(c)
    PROVE  ResidueInv'
<1>1. /\ UNCHANGED <<rows, inv, everLive, pc, op, subj, draft, attempted, wrote, witness>>
      /\ present' \subseteq present /\ explained' = explained \cap present'
  BY DEF OutOfBandDelete, dbVars, reqVars, Explain
<1>2. ASSUME NEW r \in Request PROVE DraftAccounts(r)'
  <2>1. \A e \in subj[r] : StagedKept(r, e) => StagedKept(r, e)'
    BY <1>1 DEF StagedKept
  <2>2. \A e \in witness[r] : WitnessOK(r, e) => WitnessOK(r, e)'
    BY <1>1 DEF WitnessOK
  <2> QED BY <1>1, <2>1, <2>2 DEF ResidueInv, DraftAccounts, Open
<1>3. EveryVersionAccounted'
  BY <1>1 DEF ResidueInv, EveryVersionAccounted, Accounted, OwnedBy
<1> QED BY <1>2, <1>3 DEF ResidueInv

\* A durable transaction: every version it wrote is now served or staged, and the
\* candidate it let go of was promoted, is owned by the discard, or is explained.
LEMMA ApplyAccounts ==
    ASSUME ResidueInv, NEW r \in Request, NEW lost, pc[r] = "commit", Witnessed(r),
           Apply(r, lost), UNCHANGED present, OthersSame(r),
           op[r] = "delete" => (pc'[r] = "destroy" /\ subj'[r] = subj[r])
                               \/ AllPairsOf(subj[r]) \subseteq lost,
           op[r] = "discard" /\ attempted[r] # {} =>
               \/ /\ pc'[r] \in {"recover", "finish"}
                  /\ attempted'[r] = attempted[r] /\ wrote'[r] = wrote[r]
               \/ WroteBy(r, attempted[r]) \subseteq lost,
           NEW c \in Cred, NEW v \in Nat, <<c, v>> \in present
    PROVE  Accounted(c, v)'
<1>t. TypeOK
  BY DEF ResidueInv, KeyInv, SafetyInv
<1>1. /\ Kept(r) \subseteq subj[r] /\ subj[r] \subseteq Cred /\ rows \subseteq Cred
      /\ rows' = (IF op[r] = "delete" THEN rows \ subj[r] ELSE rows \cup Kept(r))
      /\ \A e \in Cred : inv'[e] = IF e \in Kept(r) THEN draft[r][e]
                                    ELSE IF e \in rows' THEN inv[e] ELSE BlankRow
      /\ everLive' = {p \in everLive \cup
            {<<e, draft[r][e].live>> : e \in {f \in Kept(r) : draft[r][f].live # None}} :
                p[1] \in rows'}
      /\ explained' = (explained \cup
            ({<<e, inv[e].staged>> : e \in {f \in subj[r] : op[r] \in {"rotate", "update"}
                                                           /\ inv[f].staged # None}}
             \cup lost)) \cap present'
      /\ op[r] = "delete" => Kept(r) = {}
      /\ op[r] \notin {"create", "delete"} => Kept(r) = subj[r]
  BY <1>t, ApplyFacts
<1>2. v # None /\ Accounted(c, v) /\ Open(r)
  BY DEF ResidueInv, EveryVersionAccounted, Open
<1>3. /\ witness[r] \subseteq attempted[r]
      /\ \A e \in witness[r] : wrote[r][e] # None /\ WitnessOK(r, e)
      /\ \A e \in subj[r] : StagedKept(r, e)
  BY <1>2 DEF ResidueInv, DraftAccounts
<1>4. /\ attempted[r] \subseteq subj[r]
      /\ attempted[r] # {} => op[r] \in WriteOps \cup {"discard"}
      /\ op[r] = "create" => subj[r] \cap rows = {}
      /\ op[r] = "discard" => \A e \in attempted[r] : wrote[r][e] = inv[e].staged
  BY <1>2 DEF ResidueInv, KeyInv, SafetyInv, AttemptInv, ClaimInv, DiscardInv
<1>5. ASSUME c \in Kept(r), draft[r][c].live = v PROVE Accounted(c, v)'
  <2>1. c \in rows'
    BY <1>1, <1>5
  <2>2. <<c, v>> \in {<<e, draft[r][e].live>> : e \in {f \in Kept(r) : draft[r][f].live # None}}
    BY <1>2, <1>5
  <2>3. <<c, v>>[1] = c
    OBVIOUS
  <2>4. <<c, v>> \in everLive'
    BY <1>1, <2>1, <2>2, <2>3
  <2> QED BY <2>1, <2>4 DEF Accounted
<1>6. ASSUME <<c, v>> \in lost PROVE Accounted(c, v)'
  <2>1. <<c, v>> \in explained'
    BY <1>1, <1>6
  <2> QED BY <2>1 DEF Accounted
<1>7. ASSUME op[r] = "discard", c \in attempted[r], wrote[r][c] = v PROVE Accounted(c, v)'
  <2>1. CASE WroteBy(r, attempted[r]) \subseteq lost
    <3>1. <<c, wrote[r][c]>> \in WroteBy(r, attempted[r])
      BY <1>2, <1>7, WroteByHas
    <3> QED BY <1>6, <1>7, <2>1, <3>1
  <2>2. CASE /\ pc'[r] \in {"recover", "finish"}
             /\ attempted'[r] = attempted[r] /\ wrote'[r] = wrote[r]
    BY <1>7, <2>2 DEF Accounted, OwnedBy
  <2> QED BY <1>7, <2>1, <2>2
<1>8. ASSUME op[r] = "delete", c \in subj[r] PROVE Accounted(c, v)'
  <2>1. CASE pc'[r] = "destroy" /\ subj'[r] = subj[r]
    BY <1>8, <2>1 DEF Accounted, OwnedBy
  <2>2. CASE AllPairsOf(subj[r]) \subseteq lost
    <3>1. <<c, v>>[1] = c
      OBVIOUS
    <3>2. <<c, v>> \in AllPairsOf(subj[r])
      BY <1>8, <3>1 DEF AllPairsOf
    <3> QED BY <1>6, <2>2, <3>2
  <2> QED BY <1>8, <2>1, <2>2
<1>9. CASE \E q \in Request : OwnedBy(q, c, v)
  <2>1. CASE \E q \in Request : OwnedBy(q, c, v)'
    BY <2>1 DEF Accounted
  <2>2. CASE OwnedBy(r, c, v)
    <3>1. c \in attempted[r] /\ wrote[r][c] = v
      BY <2>2 DEF OwnedBy
    <3>2. CASE op[r] = "discard"
      BY <1>7, <3>1, <3>2
    <3>3. CASE op[r] # "discard"
      <4>1. op[r] \in WriteOps /\ c \in witness[r] /\ c \in subj[r]
        BY <1>4, <3>1, <3>3 DEF Witnessed, WriteOps
      <4>2. WitnessOK(r, c)
        BY <1>3, <4>1
      <4>3. CASE op[r] = "stage"
        <5>1. c \in Kept(r) /\ c \in rows' /\ inv'[c].staged = v
          BY <1>1, <3>1, <4>1, <4>2, <4>3 DEF WitnessOK
        <5> QED BY <5>1 DEF Accounted
      <4>4. CASE op[r] # "stage"
        <5>1. draft[r][c].live = v /\ draft[r][c].kv = v
          BY <3>1, <4>1, <4>2, <4>4 DEF WitnessOK, WriteOps
        <5>2. c \in Kept(r)
          BY <1>2, <4>1, <5>1 DEF Kept, WriteOps
        <5> QED BY <1>5, <5>1, <5>2
      <4> QED BY <4>3, <4>4
    <3> QED BY <3>2, <3>3
  <2> QED BY <1>9, <2>1, <2>2, OwnersStay
<1>10. CASE <<c, v>> \in explained
  BY <1>1, <1>10 DEF Accounted
<1>11. CASE c \in rows /\ <<c, v>> \in everLive
  <2>1. CASE op[r] = "delete" /\ c \in subj[r]
    BY <1>8, <2>1
  <2>2. CASE ~(op[r] = "delete" /\ c \in subj[r])
    <3>1. c \in rows' /\ <<c, v>>[1] = c
      BY <1>1, <1>11, <2>2
    <3>2. <<c, v>> \in everLive'
      BY <1>1, <1>11, <3>1
    <3> QED BY <3>1, <3>2 DEF Accounted
  <2> QED BY <2>1, <2>2
<1>12. CASE c \in rows /\ inv[c].staged = v
  <2>1. CASE op[r] = "delete" /\ c \in subj[r]
    BY <1>8, <2>1
  <2>2. CASE ~(op[r] = "delete" /\ c \in subj[r])
    <3>1. c \in rows'
      BY <1>1, <1>12, <2>2
    <3>2. CASE c \notin Kept(r)
      BY <1>1, <1>12, <3>1, <3>2 DEF Accounted
    <3>3. CASE c \in Kept(r)
      <4>1. c \in subj[r] /\ inv'[c] = draft[r][c] /\ StagedKept(r, c)
        BY <1>1, <1>3, <3>3
      <4>2. CASE draft[r][c].staged = inv[c].staged
        BY <1>12, <3>1, <4>1, <4>2 DEF Accounted
      <4>3. CASE op[r] \in {"rotate", "update"}
        <5>1. <<c, v>> \in {<<e, inv[e].staged>> : e \in {f \in subj[r] :
                                op[r] \in {"rotate", "update"} /\ inv[f].staged # None}}
          BY <1>2, <1>12, <4>1, <4>3
        <5>2. <<c, v>> \in explained'
          BY <1>1, <5>1
        <5> QED BY <5>2 DEF Accounted
      <4>4. CASE op[r] = "promote" /\ draft[r][c].live = inv[c].staged
        BY <1>5, <1>12, <3>3, <4>4
      <4>5. CASE op[r] = "discard" /\ c \in attempted[r]
        BY <1>4, <1>7, <1>12, <4>5
      <4>6. op[r] # "create"
        BY <1>4, <1>12, <4>1
      <4> QED BY <1>2, <1>12, <4>1, <4>2, <4>3, <4>4, <4>5, <4>6 DEF StagedKept
    <3> QED BY <3>2, <3>3
  <2> QED BY <2>1, <2>2
<1> QED BY <1>2, <1>9, <1>10, <1>11, <1>12 DEF Accounted

\* Commits, answered or not.
LEMMA CommitResidue ==
    ASSUME ResidueInv, KeyInv', NEW r \in Request,
           Commit(r) \/ CallbackFails(r) \/ \E b \in BOOLEAN : CommitUnknown(r, b)
    PROVE  ResidueInv'
<1>t. TypeOK
  BY DEF ResidueInv, KeyInv, SafetyInv
<1>1. pc[r] = "commit" /\ Witnessed(r) /\ UNCHANGED present /\ Open(r)
  BY DEF Commit, CallbackFails, CommitUnknown, Open, kvVars
<1>2. ASSUME NEW lost, Apply(r, lost), OthersSame(r), DraftAccounts(r)',
             op[r] = "delete" => (pc'[r] = "destroy" /\ subj'[r] = subj[r])
                                 \/ AllPairsOf(subj[r]) \subseteq lost,
             op[r] = "discard" /\ attempted[r] # {} =>
                 \/ /\ pc'[r] \in {"recover", "finish"}
                    /\ attempted'[r] = attempted[r] /\ wrote'[r] = wrote[r]
                 \/ WroteBy(r, attempted[r]) \subseteq lost
      PROVE  ResidueInv'
  <2>1. EveryVersionAccounted'
    <3> SUFFICES ASSUME NEW c \in Cred, NEW v \in Nat, <<c, v>> \in present'
                 PROVE  v # None /\ Accounted(c, v)'
      BY DEF EveryVersionAccounted
    <3>1. v # None
      BY <1>1 DEF ResidueInv, EveryVersionAccounted
    <3> QED BY <1>1, <1>2, <3>1, ApplyAccounts
  <2>2. \A c \in Cred : inv'[c].staged = inv[c].staged \/ (Open(r) /\ c \in subj[r])
    <3> SUFFICES ASSUME NEW c \in Cred, c \notin subj[r] PROVE inv'[c] = inv[c]
      BY <1>1
    <3>1. /\ Kept(r) \subseteq subj[r]
          /\ rows' = (IF op[r] = "delete" THEN rows \ subj[r] ELSE rows \cup Kept(r))
          /\ inv'[c] = IF c \in Kept(r) THEN draft[r][c]
                       ELSE IF c \in rows' THEN inv[c] ELSE BlankRow
      BY <1>t, <1>2, ApplyFacts
    <3>2. c \notin rows => inv[c] = BlankRow
      BY DEF ResidueInv, KeyInv, InventoryKeyed
    <3> QED BY <3>1, <3>2
  <2>3. \A q \in Request : DraftAccounts(q)'
    BY <1>2, <2>2, DraftsStay
  <2> QED BY <2>1, <2>3 DEF ResidueInv
<1>3. Reset(r) => OthersSame(r) /\ DraftAccounts(r)'
  <2>1. Reset(r) => OthersSame(r) /\ pc'[r] = "idle" /\ witness'[r] = {}
    BY <1>t, ResetFacts DEF Reset, TypeOK, ReqTypeOK
  <2> QED BY <2>1 DEF DraftAccounts, Open
<1>4. op[r] = "delete" => attempted[r] = {}
  BY DEF ResidueInv, KeyInv, SafetyInv, AttemptInv, WriteOps
<1>5. CASE Commit(r)
  <2>1. CASE op[r] \in {"discard", "delete"}
    <3>1. /\ Apply(r, {})
          /\ pc' = [pc EXCEPT ![r] = IF op[r] = "delete" THEN "destroy" ELSE "finish"]
          /\ UNCHANGED <<op, subj, draft, attempted, known, wrote, witness, unknown>>
      BY <1>5, <2>1 DEF Commit
    <3>2. OthersSame(r) /\ pc'[r] = IF op[r] = "delete" THEN "destroy" ELSE "finish"
      BY <1>t, <3>1 DEF OthersSame, Same, TypeOK, ReqTypeOK
    <3>3. DraftAccounts(r)'
      BY <1>1, <3>1, <3>2 DEF ResidueInv, DraftAccounts, Open
    <3> QED BY <1>2, <2>1, <3>1, <3>2, <3>3
  <2>2. CASE op[r] \notin {"discard", "delete"}
    <3>1. Apply(r, {}) /\ Reset(r)
      BY <1>5, <2>2 DEF Commit
    <3> QED BY <1>2, <1>3, <2>2, <3>1
  <2> QED BY <2>1, <2>2
<1>6. CASE CallbackFails(r)
  <2>1. Apply(r, WroteBy(r, attempted[r])) /\ Reset(r) /\ op[r] # "delete"
    BY <1>6 DEF CallbackFails
  <2> QED BY <1>2, <1>3, <2>1
<1>7. ASSUME NEW b \in BOOLEAN, CommitUnknown(r, b) PROVE ResidueInv'
  <2> DEFINE lost == IF op[r] = "delete" THEN AllPairsOf(subj[r]) ELSE {}
  <2>1. Unwind(r, TRUE) /\ (Apply(r, lost) \/ UNCHANGED <<rows, inv, histVars>>)
    BY <1>7 DEF CommitUnknown
  <2>2. op[r] = "delete" => AllPairsOf(subj[r]) \subseteq lost
    OBVIOUS
  <2> HIDE DEF lost
  <2>3. CASE UNCHANGED <<rows, inv, histVars>>
    <3>1. UNCHANGED <<everLive, explained>>
      BY <2>3 DEF histVars
    <3> QED BY <1>1, <2>1, <2>3, <3>1, UnwindResidue
  <2>4. CASE Apply(r, lost)
    <3>1. CASE attempted[r] = {}
      <4>1. Reset(r)
        BY <2>1, <3>1 DEF Unwind
      <4> QED BY <1>2, <1>3, <2>2, <2>4, <3>1, <4>1
    <3>2. CASE attempted[r] # {}
      <4>1. /\ pc'[r] = "recover" /\ OthersSame(r)
            /\ UNCHANGED <<op, subj, draft, attempted, known, wrote, witness>>
        BY <1>t, <2>1, <3>2 DEF Unwind, OthersSame, Same, TypeOK, ReqTypeOK
      <4>2. DraftAccounts(r)'
        BY <1>1, <4>1 DEF ResidueInv, DraftAccounts, Open
      <4> QED BY <1>2, <2>2, <2>4, <4>1, <4>2
    <3> QED BY <3>1, <3>2
  <2> QED BY <2>1, <2>3, <2>4
<1> QED BY <1>5, <1>6, <1>7

\* Initially the mount holds what the legacy rows serve.
LEMMA ResidueInit == Init => ResidueInv
<1> SUFFICES ASSUME Init PROVE ResidueInv
  OBVIOUS
<1>1. KeyInv
  BY KeyInit
<1>2. \A r \in Request : DraftAccounts(r)
  BY DEF Init, DraftAccounts, Open
<1>3. EveryVersionAccounted
  <2> SUFFICES ASSUME NEW c \in Cred, NEW v \in Nat, <<c, v>> \in present
               PROVE  v # None /\ Accounted(c, v)
    BY DEF EveryVersionAccounted
  <2>1. c \in rows /\ v = 1 /\ <<c, v>> \in everLive
    BY DEF Init
  <2> QED BY <2>1 DEF Accounted, None
<1> QED BY <1>1, <1>2, <1>3 DEF ResidueInv

\* Every step keeps every readable version accounted for.
LEMMA ResidueStep == ResidueInv /\ [Next]_vars => ResidueInv'
<1> SUFFICES ASSUME ResidueInv, [Next]_vars PROVE ResidueInv'
  OBVIOUS
<1>k. KeyInv'
  BY KeyStep DEF ResidueInv
<1>1. CASE UNCHANGED vars
  <2>1. UNCHANGED <<rows, inv, present, reqVars, everLive, explained>>
    BY <1>1 DEF vars, dbVars, kvVars, histVars
  <2> QED BY <1>k, <2>1, JobResidue
<1>2. ASSUME NEW c \in Cred, VerifyRead(c) \/ VerifyWrite(c) \/ ExpiryScan(c) PROVE ResidueInv'
  <2>1. UNCHANGED <<rows, present, reqVars, everLive, explained>>
    BY <1>2 DEF VerifyRead, VerifyWrite, ExpiryScan, dbVars, kvVars, histVars
  <2>2. \A e \in Cred : inv[e] \in Row /\ inv \in [Cred -> Row]
    BY DEF ResidueInv, KeyInv, SafetyInv, TypeOK, DbTypeOK
  <2>3. \A e \in Cred : inv'[e].staged = inv[e].staged
    <3>1. CASE UNCHANGED inv
      BY <3>1
    <3>2. CASE \E x : inv' = [inv EXCEPT ![c].kv = x]
      BY <2>2, <3>2 DEF Row
    <3>3. CASE \E x : inv' = [inv EXCEPT ![c].status = x]
      BY <2>2, <3>3 DEF Row
    <3> QED BY <1>2, <3>1, <3>2, <3>3 DEF VerifyRead, VerifyWrite, ExpiryScan, dbVars
  <2> QED BY <1>k, <2>1, <2>3, JobResidue
<1>3. CASE \E r \in Request : RequestStep(r) \/ Crash(r)
  BY <1>k, <1>3, OpeningResidue, EndingResidue, StoreResidue, DecisionResidue, CommitResidue,
     RecoverResidue, FinishResidue, DestroyResidue, CrashResidue DEF RequestStep
<1> QED BY <1>k, <1>1, <1>2, <1>3, OpeningResidue, OutsideResidue DEF Next

\* Nothing readable is left behind silently: every version on the mount was served, is
\* staged, is owned by a running request, or has its record; the exceptions are the
\* ones the history variable names.
THEOREM ResidueCorrect == Spec => []NoSilentResidue
BY ResidueInit, ResidueStep, AccountsResidue, PTL DEF Spec

================================================================================
