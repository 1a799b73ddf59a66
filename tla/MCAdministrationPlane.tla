------------------------- MODULE MCAdministrationPlane -------------------------
\* Instances of AdministrationPlane for TLC.
EXTENDS AdministrationPlane, TLC

\* Both mounts fold to one parameter.
MCParam == [m \in Mount |-> IF m \in Reserved THEN "system" ELSE "kv_a"]

MCCaller == [r \in Request |-> "operator"]

\* Tasks that differ by their class only, and by the names the model tells apart.
Named == {"merge", "revoke", "revoke-prefix", "oidc-start", "oidc-poll", "totp-reset", "login",
          "lookup-self", "lookup-accessor", "accessor-lookup", "enable", "tune", "remount",
          "disable", "list", "status", "journeys", "configuration", "catalog", "conformance",
          "preview"}
Kinds == EngineType \cup AuthType \cup {"engine", "auth", "mfa", "session", "leases",
                                         "ui-headers", "tools"}
Representative(t) ==
    LET kind == IF t.plane = "access" THEN "access"
                ELSE IF t.kind \in Kinds THEN t.kind ELSE "foreign"
    IN [t EXCEPT !.id = IF t.id \in Named THEN t.id ELSE "any", !.kind = kind]

One == CHOOSE r \in Request : TRUE
Work1(S, noise) ==
    [tasks |-> [r \in Request |-> IF r = One THEN S ELSE {}], noise |-> noise]
Work2(S, T, noise) ==
    [tasks |-> [r \in Request |-> IF r = One THEN S ELSE T], noise |-> noise]

Representatives == {Representative(t) : t \in AllTasks}
Of(planes) == {t \in Representatives : t.plane \in planes}
Some(plane, ids) == {t \in Representatives : t.plane = plane /\ t.id \in ids}

\* Every task of a plane against what may change under it, and the tasks of different
\* planes that meet.
MCWorkloads ==
    [engines |-> Work1(Of({"engine"}), {"service", "engines"}),
     mounted |-> Work1(Of({"journey", "explorer"}), {"service", "engines"}),
     auths |-> Work1(Of({"auth"}), {"service", "auths"}),
     resources |-> Work1(Of({"access", "final"}), {"service", "resources"}),
     remount |-> Work2(Some("engine", {"remount"}), Some("engine", {"disable"}), {}),
     oidc |-> Work2(Some("auth", {"oidc-start"}), Some("auth", {"oidc-poll"}), {}),
     leases |-> Work2(Some("engine", {"disable"}), Some("final", {"revoke-prefix"}), {})]

================================================================================
