---------------------------- MODULE CredentialEstate ----------------------------
(***************************************************************************)
(* The settings, the credential graph and the service identities in one    *)
(* database, changed by requests of several workers.                       *)
(***************************************************************************)
EXTENDS CredentialGraph, ServiceIdentity

vars == <<jobs, db, tx, settingsVars, graphVars, identityVars>>

\* Rows PostgreSQL may hold at the start: no row is an advisory lock, a key has one record
\* at most, credentials lie under the stored prefix, and the material has its fields and a
\* PositiveBigIntegerField as its revision.
Sound(rows) ==
    /\ {Singleton, Material} \subseteq DOMAIN rows
    /\ \A row \in DOMAIN rows : row[1] # "advisory" /\ \A r, s \in rows[row] : r = s
    /\ \A row \in DOMAIN rows : \A settings \in rows[Singleton] : \A r \in rows[row] :
          row[1] = "credential" => r.prefix = settings.prefix
    /\ \A r \in rows[Material] : r.fields = [f \in Field |-> r.fields[f]] /\ r.revision \in Nat

ASSUME EstateAssumption ==
    /\ Mortal \subseteq Worker /\ DefaultPrefix \in Prefix
    /\ \A load \in Workloads : DOMAIN load.jobs = Worker /\ Sound(load.rows)

\* The rows a request inserts under keys drawn for it alone (uuid4, a sequence), by their
\* place in it.
Drawn == {Credential(c) : c \in Cred} \cup {Service(s) : s \in Target}
Places(job) == IF job.kind = "import" THEN 1..Len(job.items) ELSE {1}
Inserts(job, k, row) ==
    \/ job.kind = "import" /\ row = Credential(job.items[k].cred)
    \/ job.kind = "create" /\ row = Credential(job.cred)
    \/ job.kind = "quickadd" /\ ~job.existing /\ row = Credential(job.cred)
    \/ job.kind = "quickadd" /\ row = Service(job.service)

DrawnOnce(requests) ==
    \A row \in Drawn : \A v, w \in Worker :
        \A i \in DOMAIN requests[v], j \in DOMAIN requests[w] :
            \A k \in Places(requests[v][i]), l \in Places(requests[w][j]) :
                Inserts(requests[v][i], k, row) /\ Inserts(requests[w][j], l, row) =>
                    v = w /\ i = j /\ k = l

\* A row holds one record at most, typed by its table, and finitely many are there.
RowTyped(row, records) ==
    /\ \A r, s \in records : r = s
    /\ row[1] \in {"settings", "credential"} => \A r \in records : r.prefix \in Prefix
    /\ row[1] = "assignment" => \A r \in records : r.cred \in Cred /\ r.target \in Target
    /\ row[1] = "service" => row \in Drawn
Filled(rows) == {row \in DOMAIN rows : rows[row] # {}}
RowsTyped(rows) ==
    /\ rows = [row \in DOMAIN rows |-> rows[row]] /\ IsFiniteSet(Filled(rows))
    /\ \A row \in DOMAIN rows : RowTyped(row, rows[row])

\* A request names a prefix, credentials, targets and rows that may exist.
Request(job, rows) ==
    /\ job.kind \in {"create", "assign", "reassign", "delete", "quickadd"} => job.cred \in Cred
    /\ job.kind = "configure" => job.prefix \in Prefix
    /\ job.kind = "assign" => job.target \in Target
    /\ job.kind \in {"reassign", "unassign"} => Assignment(job.assignment) \in DOMAIN rows
    /\ job.kind = "quickadd" => /\ job.service \in Target /\ job.hidden \subseteq DOMAIN rows
                                /\ Parent(job.parent) \in DOMAIN rows
    /\ job.kind = "import" => \A k \in 1..Len(job.items) :
         job.items[k].cred \in Cred /\ job.items[k].target \in Target \cup {"none"}

\* A marker names one secret (the unique constraint on import_source).
Marked(rows) ==
    \A r, s \in Filled(rows) :
        /\ r[1] = "credential" /\ s[1] = "credential"
        /\ The(rows[r]).source = The(rows[s]).source /\ The(rows[r]).source # "none"
        => r = s

\* No key is in use before it is drawn, constraints and foreign keys hold, and quick add
\* names a parent that is there.
ASSUME KeyAssumption ==
    \A load \in Workloads :
        /\ Drawn \subseteq DOMAIN load.rows /\ RowsTyped(load.rows) /\ Consistent(load.rows)
        /\ Marked(load.rows) /\ DrawnOnce(load.jobs)
        /\ \A w \in Worker :
              /\ load.jobs[w] \in Seq(Range(load.jobs[w]))
              /\ \A i \in DOMAIN load.jobs[w] :
                    /\ Request(load.jobs[w][i], load.rows)
                    /\ load.jobs[w][i].kind = "quickadd" =>
                         load.rows[Parent(load.jobs[w][i].parent)] # {}
                    /\ \A row \in Drawn, k \in Places(load.jobs[w][i]) :
                          Inserts(load.jobs[w][i], k, row) => load.rows[row] = {}

\* Nobody made two services of one name on a parent, or two addresses of one network, by
\* hand.
ASSUME SharedAssumption ==
    \A load \in Workloads : \A r, s \in Filled(load.rows) :
        \/ /\ r[1] = "service" /\ s[1] = "service"
           /\ Named(The(load.rows[r])) = Named(The(load.rows[s]))
        \/ /\ r[1] = "address" /\ s[1] = "address"
           /\ The(load.rows[r]).cidr = The(load.rows[s]).cidr
        => r = s

Init == DatabaseInit /\ SettingsInit /\ GraphInit /\ IdentityInit

--------------------------------------------------------------------------------
Appears(row) == db[row] = {} /\ db'[row] # {}
Vanishes(row) == db[row] # {} /\ db'[row] = {}

\* A commit, with what the history variables keep of it.  A created credential's
\* material is there before its row (MaterialLifecycle).
CommitEstate(w) ==
    /\ Commit(w)
    /\ fresh' = [v \in Worker |-> fresh[v] \cup {db'[Singleton]}]
    /\ live' = live \cup {c \in Cred : Appears(Credential(c))}
    /\ deleted' = deleted \cup {c \in Cred : Vanishes(Credential(c))}
    /\ drift' = IF tx'[w].step = "callbacks" THEN drift \cup Missed(w) ELSE drift
    /\ history' = IF db'[Material] = {} THEN history
                  ELSE Over(Only(The(db'[Material]).revision, The(db'[Material]).fields), history)
    /\ intended' = IF tx'[w].step = "callbacks" /\ Has(w, "rotate")
                   THEN [f \in Field |-> IF f \in Job(w).fields THEN Job(w).value ELSE intended[f]]
                   ELSE intended
    /\ asked' = IF tx'[w].step = "callbacks" THEN asked \cup Asked(w) ELSE asked
    /\ UNCHANGED <<memo, pending, kv, run, kept, serving>>

Work(w) ==
    /\ tx[w].wants = <<>>
    /\ \/ SettingsWork(w) /\ UNCHANGED <<graphVars, identityVars>>
       \/ GraphWork(w) /\ UNCHANGED identityVars
       \/ IdentityWork(w) /\ UNCHANGED <<settingsVars, graphVars>>
       \/ ~Importing(w) /\ EndRequest(w) /\ UNCHANGED <<graphVars, identityVars>>
       \/ CommitEstate(w)

PostgreSQL(w) ==
    /\ tx[w].wants # <<>>
    /\ Grant(w) \/ Victim(w)
    /\ UNCHANGED <<settingsVars, graphVars, identityVars>>

\* A request goes on: by its worker, or by the database it waits for.
Serves(w) ==
    /\ jobs[w] # <<>> /\ tx[w].step # "dead"
    /\ Work(w) \/ PostgreSQL(w)

Fails(w) ==
    \/ Refuse(w) /\ UNCHANGED <<settingsVars, graphVars, identityVars>>
    \/ /\ Crash(w)
       /\ drift' = drift \cup Lost(w)
       /\ kept' = [kept EXCEPT ![w] = NoKept]
       /\ UNCHANGED <<settingsVars, kv, live, deleted, run, asked, serving, history, intended>>

Next ==
    \/ \E w \in Worker : Serves(w) \/ Fails(w)
    \/ \E w \in Worker : Consult(w) /\ UNCHANGED <<graphVars, identityVars>>
    \/ Expire /\ UNCHANGED <<settingsVars, graphVars>>

Spec == Init /\ [][Next]_vars

\* As long as a worker or the database can go on with some request, something goes on.
\* That is all: nobody owes a commit, a successful call or a cache hit.
FairSpec == Spec /\ WF_vars(\E w \in Worker : Serves(w))
--------------------------------------------------------------------------------
Quiescent == \A w \in Worker : tx[w].step \in {"idle", "dead"}
Stored(table) == {row \in DOMAIN db : row[1] = table /\ db[row] # {}}

\* Every variable keeps its type, and a row is written by at most one transaction.
TypeOK ==
    /\ \A row \in DOMAIN db : Cardinality(db[row]) <= 1
    /\ \A w \in Worker :
         /\ tx[w].open \in BOOLEAN /\ Len(tx[w].hooks) <= 3
         /\ tx[w].step \in {"idle", "dead", "finish", "failed"} => ~tx[w].open
         /\ tx[w].own # NoRows => tx[w].open
         /\ \A v \in Worker \ {w} : tx[w].held \cap tx[v].held = {}
    /\ \A row \in Stored("credential") : The(db[row]).prefix \in Prefix
    /\ \A row \in Stored("assignment") : The(db[row]).cred \in Cred /\ The(db[row]).target \in Target
    /\ live \cup drift \cup deleted \subseteq Cred
    /\ kv \in [Cred -> SUBSET Target]

\* Prefix and credentials agree (_lock_for_prefix_write): whoever creates, changes or
\* deletes the settings row while credentials are created, a stored row's prefix is the
\* one every stored credential is stamped with.
PrefixCoherent ==
    \A row \in Stored("credential") : \A settings \in db[Singleton] :
        The(db[row]).prefix = settings.prefix

\* With no settings row every credential lies under the default prefix (the comment in
\* Credential.save: whichever write obtains the lock first commits a coherent outcome).
DefaultWithoutRow ==
    db[Singleton] = {} =>
        \A row \in Stored("credential") : The(db[row]).prefix = DefaultPrefix

\* A thread's memo is a settings row that was committed during its request: never one
\* that was rolled back, nor one left by the request before (conf.py, middleware.py).
MemoIsCommitted ==
    \A w \in Worker : memo[w] # <<>> => Head(memo[w]) \in fresh[w]

\* When all is quiet OpenBao lists what NetBox has (_publish_custom_metadata), however
\* the commits and their callbacks were ordered, unless a publication failed, its
\* worker died, or the owner was one no callback was registered for.
ProjectionCurrent ==
    Quiescent => \A c \in Cred : db[Credential(c)] # {} /\ c \notin drift => kv[c] = Bound(c)

\* Material is destroyed only for a deletion that committed (destroy_material_on_delete),
\* whatever foreign key, deadlock or refusal rolls the deletion back.
RowHasMaterial == \A c \in Cred : db[Credential(c)] # {} => c \in live

\* A publisher that read the credential before its deletion does not bring its path
\* back (serialize_material_delete, and the second read under the lock).
DeletedStaysDeleted == Quiescent => deleted \cap live \subseteq drift

\* Concurrent quick adds share one service of a name on a parent and one address of a
\* network, unless whoever added the second may not view the first, and no committed one
\* loses the port it asked for (_get_or_create_service, _new_ip_address).
ServiceShared ==
    /\ \A s, t \in Stored("service") : Named(The(db[s])) = Named(The(db[t])) => s = t
    /\ \A i, j \in Stored("address") :
         The(db[i]).cidr = The(db[j]).cidr => i = j \/ <<i, j>> \in asked \/ <<j, i>> \in asked
    /\ \A s \in Stored("service") : \A pair \in asked :
         pair[1] = Named(The(db[s])) => pair[2] \in The(db[s]).ports

\* Whatever two importers and a crash between them do, a secret is imported once, and
\* one a run reports as imported or skipped is there unless credentials were deleted.
ImportedOnce ==
    /\ \A c, d \in Stored("credential") :
         The(db[c]).source = The(db[d]).source /\ The(db[c]).source # "none" => c = d
    /\ deleted = {} => \A w \in Worker :
         run[w].reported \subseteq {The(db[c]).source : c \in Stored("credential")}

\* An imported secret is never committed without its assignment (per-secret atomic, as
\* netbox_secrets.py says of import_secrets).
ImportsComplete ==
    [][\A pair \in asked' \ asked : pair[1][1] = "credential" =>
          /\ db'[pair[1]] # {}
          /\ pair[2] \in Bound(pair[1][2])' \cup {"none"}]_vars

\* A call presents a login made with the fields of one committed revision, no older
\* than the one in force when the call began, although tokens and sessions of replaced
\* revisions linger in the cache and in other processes.
IdentityCurrent ==
    \A w \in Worker : tx[w].step = "present" =>
        /\ serving[w].revision >= serving[w].floor
        /\ Head(serving[w].client) = history[serving[w].revision]

\* Concurrent rotations of different fields all survive (EngineAuthMaterial.save).
RotationsSurvive == \A row \in db[Material] : row.fields = intended

\* Every request ends: lock waits end or are broken (credential deletion and reveal
\* lock in opposite orders), and publishers let go of the projection lock.
RequestsConclude ==
    \A w \in Worker : tx[w].step # "idle" ~> tx[w].step \in {"idle", "dead"}

================================================================================
