--------------------------- MODULE ReviewedContracts ---------------------------
(***************************************************************************)
(* The static registries of the administration plane: which operation of   *)
(* OpenBao a view may call, with which method, at which risk, and whether  *)
(* the operator has to confirm it.  Runtime discovery only ever narrows    *)
(* these tables (administration/engine_journeys.py, engines.py, access.py, *)
(* finalization.py, authentication.py, api/authentication_views.py).       *)
(*                                                                         *)
(* A contract leaves out labels, paths, fields and permission names.  Its  *)
(* kind is the mount type it needs (the KV version is part of the type),   *)
(* or the resource family where no mount is involved.                      *)
(***************************************************************************)

Contracts(kind, method, risk, confirm, ids) ==
    {[id |-> i, kind |-> kind, method |-> method, risk |-> risk, confirm |-> confirm] : i \in ids}

Reads(kind, ids) == Contracts(kind, "GET", "read", FALSE, ids)
Writes(kind, method, ids) == Contracts(kind, method, "write", FALSE, ids)
Destroys(kind, method, ids) == Contracts(kind, method, "destructive", TRUE, ids)

\* The four operations of an ordinary resource.
Crud(kind) ==
    Reads(kind, {"list", "read"}) \cup Writes(kind, "POST", {"write"})
    \cup Destroys(kind, "DELETE", {"delete"})

--------------------------------------------------------------------------------
\* First-class journeys over mounted secrets engines.

KV1 ==
    Reads("kv1", {"browse", "read"}) \cup Writes("kv1", "POST", {"write"})
    \cup Destroys("kv1", "DELETE", {"delete"})

KV2Data ==
    Reads("kv2", {"browse", "read", "diff"})
    \cup Writes("kv2", "POST", {"write", "undelete"}) \cup Writes("kv2", "PATCH", {"patch"})
    \cup Destroys("kv2", "DELETE", {"delete-latest"})
    \cup Destroys("kv2", "POST", {"delete-versions", "destroy"})

KV2Metadata ==
    Reads("kv2", {"metadata", "config-read"})
    \cup Writes("kv2", "POST", {"metadata-write", "config-write"})
    \cup Destroys("kv2", "DELETE", {"metadata-delete"})

TransitKeys ==
    Reads("transit", {"keys", "key-read"})
    \cup Writes("transit", "POST", {"key-create", "key-configure", "key-rotate"})
    \cup Destroys("transit", "DELETE", {"key-delete"})

TransitOperations ==
    Writes("transit", "POST", {"encrypt", "decrypt", "rewrap", "sign", "verify", "hash",
                               "hmac", "random"})

DatabaseRoles ==
    Reads("database", {"connections", "connection-read", "roles", "role-read"})
    \cup Writes("database", "POST", {"connection-write", "role-write"})
    \cup Destroys("database", "DELETE", {"connection-delete", "role-delete"})

DatabaseCredentials ==
    Reads("database", {"static-roles", "static-role-read", "credentials", "static-credentials"})
    \cup Writes("database", "POST", {"static-role-write"})
    \cup Destroys("database", "DELETE", {"static-role-delete"})
    \cup Destroys("database", "POST", {"rotate-root", "rotate-static", "reset"})

SSH ==
    Reads("ssh", {"roles", "role-read", "public-key"})
    \cup Writes("ssh", "POST", {"role-write", "credentials", "sign", "lookup", "verify-otp"})
    \cup Destroys("ssh", "DELETE", {"role-delete"})

TOTP ==
    Reads("totp", {"keys", "key-read", "code"})
    \cup Writes("totp", "POST", {"key-create", "validate"})
    \cup Destroys("totp", "DELETE", {"key-delete"})

PKIConfiguration ==
    Reads("pki", {"cluster-read", "crl-read", "issuers-config-read", "keys-config-read",
                  "urls-read", "acme-read"})
    \cup Writes("pki", "POST", {"cluster-write", "crl-write", "issuers-config-write",
                                "keys-config-write", "urls-write", "acme-write"})

PKIIssuers ==
    Reads("pki", {"issuers", "issuer-read"})
    \cup Writes("pki", "POST", {"issuer-write", "issuer-import-cert", "issuer-import-bundle"})
    \cup Destroys("pki", "DELETE", {"issuer-delete"})

PKIKeys ==
    Reads("pki", {"keys", "key-read"}) \cup Writes("pki", "POST", {"key-write", "key-import"})
    \cup Destroys("pki", "DELETE", {"key-delete"})
    \cup Destroys("pki", "POST", {"key-generate-internal", "key-generate-exported",
                                  "key-generate-kms"})

PKIRoles ==
    Reads("pki", {"roles", "role-read", "certificates", "revoked-certificates",
                  "certificate-read"})
    \cup Writes("pki", "POST", {"role-write"}) \cup Writes("pki", "PATCH", {"role-patch"})
    \cup Destroys("pki", "DELETE", {"role-delete"})

PKIIssuance ==
    Writes("pki", "POST", {"issue", "sign", "issuer-issue", "issuer-sign"})
    \cup Destroys("pki", "POST", {"revoke"})

PKIRoots ==
    Writes("pki", "POST", {"intermediate-generate", "issuers-intermediate-generate",
                           "intermediate-set-signed", "intermediate-cross-sign",
                           "issuer-sign-intermediate"})
    \cup Destroys("pki", "POST", {"root-generate", "issuers-root-generate", "root-rotate"})
    \cup Destroys("pki", "DELETE", {"root-delete"})

PKITidy ==
    Reads("pki", {"tidy-status", "auto-tidy-read"}) \cup Writes("pki", "POST", {"auto-tidy-write"})
    \cup Destroys("pki", "POST", {"tidy", "tidy-cancel"})

KUBERNETES ==
    Reads("kubernetes", {"check", "config-read", "roles", "role-read"})
    \cup Writes("kubernetes", "POST", {"config-write", "role-write", "credentials"})
    \cup Destroys("kubernetes", "DELETE", {"config-delete", "role-delete"})

ENGINE_JOURNEYS ==
    UNION {KV1, KV2Data, KV2Metadata, TransitKeys, TransitOperations, DatabaseRoles,
           DatabaseCredentials, SSH, TOTP, PKIConfiguration, PKIIssuers, PKIKeys, PKIRoles,
           PKIIssuance, PKIRoots, PKITidy, KUBERNETES}

\* The explorer has no table: it derives risk and confirmation from the method and
\* from the segments delete, destroy and revoke of the advertised path.
Marked == {"delete-versions", "destroy", "revoke"}
_mounted_operation_risk(c) ==
    CASE c.method = "DELETE" -> "destructive"
      [] c.method # "GET" /\ c.id \in Marked -> "destructive"
      [] c.method = "GET" -> "read"
      [] OTHER -> "write"
ExplorerContract(c) ==
    [id |-> c.id, kind |-> c.kind, method |-> c.method, risk |-> _mounted_operation_risk(c),
     confirm |-> _mounted_operation_risk(c) = "destructive"]

--------------------------------------------------------------------------------
\* Secrets-engine lifecycle.  A remount is a write that has to be confirmed.

ENGINE_LIFECYCLE_OPERATIONS ==
    Reads("engine", {"list", "configuration", "tuning", "status", "operations", "journeys"})
    \cup Writes("engine", "POST", {"enable", "tune"})
    \cup Contracts("engine", "POST", "write", TRUE, {"remount"})
    \cup Destroys("engine", "DELETE", {"disable"})

--------------------------------------------------------------------------------
\* Authentication.  "sensitive" writes are writes; a remount needs no confirmation.

AUTH_LIFECYCLE ==
    Reads("auth", {"list", "read", "status"})
    \cup Writes("auth", "POST", {"enable", "tune", "remount"})
    \cup Destroys("auth", "DELETE", {"disable"})

AUTH_RESOURCE_REGISTRY ==
    UNION {Crud(k) : k \in {"token", "userpass", "approle", "kubernetes", "jwt", "oidc",
                            "ldap", "radius", "cert"}}

AUTH_CONFIG_OPERATION_IDS ==
    UNION {Reads(k, {"config-read"}) \cup Writes(k, "POST", {"config-write"}) :
           k \in {"cert", "jwt", "oidc", "kubernetes", "ldap", "radius"}}

LOGIN_OPERATION_IDS ==
    Reads("token", {"login"})
    \cup UNION {Writes(k, "POST", {"login"}) :
                k \in {"userpass", "ldap", "radius", "jwt", "approle", "kubernetes"}}

AppRoleOperations ==
    Reads("approle", {"role-id"}) \cup Writes("approle", "POST", {"secret-id", "role-id-write"})
    \cup Contracts("approle", "POST", "read", FALSE, {"accessor-lookup"})
    \cup Destroys("approle", "POST", {"accessor-destroy"})

OIDCOperations ==
    UNION {Writes(k, "POST", {"oidc-start", "oidc-poll"}) : k \in {"jwt", "oidc"}}

MFAOperations ==
    Reads("mfa", {"methods", "method-read", "enforcements", "enforcement-read"})
    \cup Writes("mfa", "POST", {"validate", "method-create", "method-write", "totp-self",
                               "totp-generate", "enforcement-write"})
    \cup Destroys("mfa", "DELETE", {"method-delete", "enforcement-delete"})
    \cup Destroys("mfa", "POST", {"totp-reset", "totp-destroy"})

TOKEN_OPERATION_IDS ==
    Reads("session", {"lookup-self"})
    \cup Contracts("session", "POST", "read", FALSE, {"lookup-accessor"})
    \cup Writes("session", "POST", {"renew-self", "renew-accessor"})
    \cup Destroys("session", "POST", {"revoke-self", "revoke-accessor"})

--------------------------------------------------------------------------------
\* Policies, identity, OIDC provider and namespaces.

Policies == Crud("acl-policies") \cup Crud("password-policies")
            \cup Reads("password-policies", {"generate"})
Entities == Crud("entities") \cup Destroys("entities", "POST", {"merge"})
            \cup Crud("entity-aliases")
Groups == Crud("groups") \cup Crud("group-aliases")
OIDCClients == Crud("oidc-clients")
OIDCKeys == Crud("oidc-keys") \cup Destroys("oidc-keys", "POST", {"rotate"})
OIDCScopes == UNION {Crud(k) : k \in {"oidc-assignments", "oidc-providers", "oidc-scopes"}}

ACCESS_RESOURCES ==
    UNION {Policies, Entities, Groups, OIDCClients, OIDCKeys, OIDCScopes, Crud("namespaces")}

--------------------------------------------------------------------------------
\* Leases, wrapping, tools and UI headers.

Leases ==
    Reads("leases", {"list"}) \cup Contracts("leases", "POST", "read", FALSE, {"lookup"})
    \cup Writes("leases", "POST", {"renew"})
    \cup Destroys("leases", "POST", {"revoke", "revoke-prefix", "force-revoke"})
Wrapping ==
    Writes("tools", "POST", {"wrap", "rewrap", "unwrap"})
    \cup Contracts("tools", "POST", "read", FALSE, {"wrapping-lookup"})
Tools ==
    Writes("tools", "POST", {"hash", "random"})
    \cup Contracts("tools", "POST", "read", FALSE, {"token-lookup"})
UIHeaders ==
    Reads("ui-headers", {"list", "read"})
    \cup Contracts("ui-headers", "POST", "write", TRUE, {"write"})
    \cup Destroys("ui-headers", "DELETE", {"delete"})

FINAL_RESOURCES == UNION {Leases, Wrapping, Tools, UIHeaders}

================================================================================
