------------------------- MODULE ResourceAdministration -------------------------
(***************************************************************************)
(* Policies, identity, OIDC provider and namespaces (api/access_views.py)  *)
(* and leases, wrapping, tools and UI headers (api/finalization_views.py): *)
(* destructive operations are bound to the digest of an impact preview,    *)
(* which the view computes again before it authorizes.                     *)
(***************************************************************************)
EXTENDS GuardedRequest, Sequences

Family == {"access", "leases", "ui-headers"}

VARIABLE version      \* [Family -> versions of the two objects an impact is read from]

ResourceInit == version = [y \in Family |-> <<0, 0>>]

FamilyOf(t) == IF t.plane = "access" THEN "access" ELSE t.kind

\* A merge reads every entity, a prefix every branch of the lease tree, one call each.
Walks(t) == t.id \in {"merge", "revoke-prefix", "force-revoke"}

--------------------------------------------------------------------------------
\* Requests: catalogs, the conformance report, previews and operations.

ResourceForm(t, digest, impact, confirmed) ==
    [NoForm EXCEPT !.task = t, !.digest = digest, !.impact = impact, !.confirmed = confirmed]

\* What some earlier preview may have shown.
Previewed(t) ==
    IF t.confirm THEN (0..version[FamilyOf(t)][1]) \X (0..version[FamilyOf(t)][2])
                 ELSE {<<0, 0>>}

AdministerResource(r, t, document) ==
    \E g \in {document, << >>}, i \in Previewed(t), c \in (IF t.confirm THEN BOOLEAN ELSE {FALSE}) :
        LET f == ResourceForm(t, g, i, c)
            valid == t.confirm => c
        IN /\ (valid /\ Submit(r, f, NoView)) \/ (~valid /\ Reject(r, f))
           /\ UNCHANGED version

--------------------------------------------------------------------------------
\* _impact_state and _impact.

ImpactMatches(r, seen) == form[r].impact = seen

\* The lease walk is bounded in depth, branches, leaves and bytes: ReadFails.
ReadImpact(r) ==
    LET t == form[r].task
        y == FamilyOf(t)
        seen == IF Walks(t) THEN Append(view[r].impact, version[y][Len(view[r].impact) + 1])
                            ELSE version[y]
    IN /\ stage[r] = "impact"
       /\ view' = [view EXCEPT ![r].impact = seen]
       /\ \/ Len(seen) < 2 /\ Proceed(r, "impact")
          \/ Len(seen) = 2 /\ Previews(t) /\ Proceed(r, "observe")
          \/ Len(seen) = 2 /\ ~Previews(t) /\ ImpactMatches(r, seen) /\ Proceed(r, "audit")
          \/ Len(seen) = 2 /\ ~Previews(t) /\ ~ImpactMatches(r, seen) /\ Raise(r)
       /\ UNCHANGED <<worldVars, form, flight, audit, version>>

--------------------------------------------------------------------------------
\* OpenBao (external).

Touched(y, i) == version' = [version EXCEPT ![y][i] = @ + 1]

ResourceEffect(r) ==
    LET t == form[r].task IN
    /\ t.plane \in {"access", "final"}
    /\ Arrive(r, "executed")
    /\ IF t.risk = "read" \/ FamilyOf(t) \notin Family THEN UNCHANGED version
                                                        ELSE Touched(FamilyOf(t), 1)

ResourceElsewhere == Outside /\ \E y \in Family, i \in 1..2 : Touched(y, i)

================================================================================
