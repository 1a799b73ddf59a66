---------------------------- MODULE AuditedMutation ----------------------------
(***************************************************************************)
(* What the administration plane promises about a mutation, without reads, *)
(* transports or an audit table: nothing is sent before its authorization  *)
(* is durable, it is sent at most once, and the answer never understates   *)
(* what OpenBao did.  "refused" is final; only an operator told "unknown"  *)
(* may still see the mutation take effect.                                 *)
(***************************************************************************)
CONSTANT Request

VARIABLES
    recorded,         \* requests whose authorization is durable
    sent,             \* requests whose mutation left for OpenBao
    effected,         \* requests whose mutation OpenBao carried out
    report            \* [Request -> what the operator was told]

mutationVars == <<recorded, sent, effected, report>>

Report == {"none", "refused", "accepted", "unknown"}

Init ==
    /\ recorded = {} /\ sent = {} /\ effected = {}
    /\ report = [r \in Request |-> "none"]

Authorize(r) ==
    /\ report[r] = "none" /\ r \notin recorded
    /\ recorded' = recorded \cup {r}
    /\ UNCHANGED <<sent, effected, report>>

Send(r) ==
    /\ report[r] = "none" /\ r \in recorded \ sent
    /\ sent' = sent \cup {r}
    /\ UNCHANGED <<recorded, effected, report>>

Effect(r) ==
    /\ r \in sent \ effected
    /\ report[r] \in {"none", "unknown"}
    /\ effected' = effected \cup {r}
    /\ UNCHANGED <<recorded, sent, report>>

Answer(r, v) ==
    /\ report[r] = "none"
    /\ v = "refused" => r \notin effected
    /\ v = "accepted" => r \in effected
    /\ report' = [report EXCEPT ![r] = v]
    /\ UNCHANGED <<recorded, sent, effected>>

Next ==
    \E r \in Request :
        \/ Authorize(r) \/ Send(r) \/ Effect(r)
        \/ \E v \in {"refused", "accepted", "unknown"} : Answer(r, v)

Spec == Init /\ [][Next]_mutationVars

================================================================================
