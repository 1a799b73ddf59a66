----------------------------- MODULE CredentialGraph -----------------------------
(***************************************************************************)
(* Credentials and their assignments: creation under the settings prefix,  *)
(* assignment, reassignment, cascading deletion, the locks of a reveal,    *)
(* quick add and the importer, and the custom metadata published after     *)
(* each commit (services.py, signals.py, quickadd.py, importers).  What a  *)
(* rotation does to the material is MaterialLifecycle's subject.           *)
(***************************************************************************)
EXTENDS SettingsMemory, SequencesExt

CONSTANTS Cred, Target

VARIABLES
    kv,       \* the targets OpenBao's custom_metadata lists, by credential
    live,     \* the credentials with material on the mount
    drift,    \* those whose publication nobody made or that failed: logged or lost (history)
    deleted,  \* those whose row a commit removed (history)
    run,      \* the importer's progress: known markers, position, secrets reported as there
    asked     \* what committed quick adds and imports asked for, and the addresses that a
              \* quick add of a second one could not see (history)

graphVars == <<kv, live, drift, deleted, run, asked>>

Credential(c) == <<"credential", c>>
Assignment(a) == <<"assignment", a>>
Service(s) == <<"service", s>>
Parent(p) == <<"parent", p>>
Address(i) == <<"address", i>>
Projection(c) == <<"advisory", c>>
AddressCreation(cidr) == <<"advisory", "quickadd.ip", cidr>>

\* The targets of a credential's assignments, as build_custom_metadata lists them.
build_custom_metadata(w, c) ==
    {The(Seen(w, row)).target : row \in {a \in Table(w, "assignment") : The(Seen(w, a)).cred = c}}
Bound(c) ==
    {The(db[row]).target : row \in {a \in DOMAIN db : a[1] = "assignment" /\
                                     \E r \in db[a] : r.cred = c}}

GraphInit ==
    /\ kv = [c \in Cred |-> Bound(c)]
    /\ live = {c \in Cred : db[Credential(c)] # {}}
    /\ drift = {} /\ deleted = {} /\ asked = {}
    /\ run = [w \in Worker |-> [known |-> {}, at |-> 1, reported |-> {}]]

Publish(c) == [call |-> "publish", cred |-> c]
Destroy(c) == [call |-> "destroy", cred |-> c]

\* One callback for each owner, old and new.
defer_custom_metadata(creds) == SetToSeq({Publish(c) : c \in creds})

Quiet == UNCHANGED <<jobs, db, settingsVars, graphVars>>

--------------------------------------------------------------------------------
\* A credential is stamped once, under the locked row's prefix or, with no row, under
\* what get_config remembers.  prepare_material has read a setting by then.
Importing(w) == Has(w, "import") /\ run[w].at <= Len(Job(w).items)
Item(w) == IF Has(w, "import") THEN Job(w).items[run[w].at] ELSE Job(w)

Create(w) ==
    /\ Ready(w, "create")
    /\ Remember(w)
    /\ tx' = Open(w, "prefix", <<Singleton>>, NoRows)
    /\ UNCHANGED <<jobs, db, fresh, graphVars>>

\* Mutant: the marker is not unique.
NeverDuplicate(w) == FALSE

\* full_clean and the unique constraint on import_source; whoever inserts holds the
\* prefix lock, so nobody waits here.
Duplicate(w) == Has(w, "import") /\ \E c \in Credentials(w) : c.source = Item(w).source

Stamp(w) ==
    LET prefix == IF Locked(w) # {} THEN The(Locked(w)).prefix ELSE get_config(w)
        source == IF Has(w, "import") THEN Item(w).source ELSE "none"
        row == Only(Credential(Item(w).cred), {[prefix |-> prefix, source |-> source]})
    IN
    /\ At(w, "locked") /\ (Has(w, "create") \/ Has(w, "quickadd") \/ Has(w, "import"))
    /\ \/ Duplicate(w) /\ tx' = RolledBack(w, "failed") /\ UNCHANGED <<memo, pending>>
       \/ /\ ~Duplicate(w)
          /\ tx' = Write(w, row, <<>>, IF Has(w, "create") THEN "commit" ELSE "assign", <<>>)
          /\ IF Locked(w) = {} THEN Remember(w) ELSE UNCHANGED <<memo, pending>>
    /\ UNCHANGED <<jobs, db, fresh, graphVars>>

--------------------------------------------------------------------------------
\* The foreign key of a new or moved assignment is checked at commit, under a share
\* lock of the credential.
Bind(w, a, c, target, owners) ==
    tx' = Write(w, Only(Assignment(a), {[cred |-> c, target |-> target]}),
                defer_custom_metadata(owners), "commit", <<Credential(c)>>)

Assign(w) ==
    /\ Ready(w, "assign")
    /\ tx' = IF db[Credential(Job(w).cred)] = {} THEN Answered(w)
             ELSE Open(w, "assign", <<>>, NoRows)
    /\ Quiet

\* A service is looked up by its parent and its name, of a request or of a record.
Named(r) == <<"named", r.parent, r.name>>

\* The service quick add found or made: the target of its assignment.
ServicesOf(w) == {row \in Table(w, "service") : Named(The(Seen(w, row))) = Named(Job(w))}
TargetOf(w) ==
    IF Has(w, "quickadd") THEN (CHOOSE row \in ServicesOf(w) : TRUE)[2]
    ELSE Item(w).target

\* Mutant: only a credential that is stored already is assigned.
AssignStored(w) ==
    LET c == Item(w).cred IN
    /\ At(w, "assign")
    /\ IF TargetOf(w) = "none" \/ db[Credential(c)] = {}
       THEN tx' = Goto(w, "commit", <<>>)
       ELSE Bind(w, Item(w).assignment, c, TargetOf(w), {c})
    /\ Quiet

\* assign_credential, the importer's create and quick add's get_or_create.
_assign(w) ==
    LET c == Item(w).cred
        there == \E row \in Table(w, "assignment") :
                    Seen(w, row) = {[cred |-> c, target |-> TargetOf(w)]}
    IN
    /\ At(w, "assign")
    /\ IF TargetOf(w) = "none" \/ (Has(w, "quickadd") /\ there)
       THEN tx' = Goto(w, "commit", <<>>)
       ELSE Bind(w, Item(w).assignment, c, TargetOf(w), {c})
    /\ Quiet

\* Reassignment loads the row, captures the previous owner before its UPDATE and
\* writes what it loaded: a row deleted meanwhile is inserted again.
Reassign(w) ==
    /\ Ready(w, "reassign")
    /\ LET row == Assignment(Job(w).assignment) IN
       tx' = IF db[row] = {} \/ db[Credential(Job(w).cred)] = {} THEN Answered(w)
             ELSE Open(w, "previous", <<>>, Only(row, db[row]))
    /\ Quiet

capture_previous_credential(w) ==
    /\ At(w, "previous")
    /\ LET row == Assignment(Job(w).assignment) IN
       tx' = [tx EXCEPT ![w].step = "rebind", ![w].wants = <<row>>,
                        ![w].image = {r.cred : r \in Seen(w, row)}]
    /\ Quiet

Rebind(w) ==
    /\ At(w, "rebind")
    /\ LET a == Job(w).assignment IN
       Bind(w, a, Job(w).cred, The(tx[w].loaded[Assignment(a)]).target,
            tx[w].image \cup {Job(w).cred})
    /\ Quiet

\* A DELETE by primary key: the owner refreshed is the one that was loaded.
Unassign(w) ==
    /\ Ready(w, "unassign")
    /\ LET row == Assignment(Job(w).assignment) IN
       tx' = IF db[row] = {} THEN Answered(w) ELSE Open(w, "remove", <<row>>, Only(row, db[row]))
    /\ Quiet

DeleteAssignment(w) ==
    /\ At(w, "remove")
    /\ LET row == Assignment(Job(w).assignment) IN
       tx' = Write(w, Only(row, {}), defer_custom_metadata({r.cred : r \in tx[w].loaded[row]}),
                   "commit", <<>>)
    /\ Quiet

--------------------------------------------------------------------------------
\* Deletion collects the assignments, takes the projection lock (serialize_material_delete),
\* deletes the collected rows and then the credential.
Collected(c) == {row \in DOMAIN db : row[1] = "assignment" /\ \E r \in db[row] : r.cred = c}

\* Mutant: deletion is not ordered against publishers.
DeleteUnordered(w) ==
    /\ Ready(w, "delete")
    /\ LET rows == Collected(Job(w).cred) IN
       tx' = IF db[Credential(Job(w).cred)] = {} THEN Answered(w)
             ELSE Open(w, "clear", SetToSeq(rows), [r \in rows |-> db[r]])
    /\ Quiet

Delete(w) ==
    /\ Ready(w, "delete")
    /\ LET c == Job(w).cred
           rows == Collected(c)
       IN tx' = IF db[Credential(c)] = {} THEN Answered(w)
                ELSE Open(w, "clear", <<Projection(c)>> \o SetToSeq(rows), [r \in rows |-> db[r]])
    /\ Quiet

Clear(w) ==
    /\ At(w, "clear")
    /\ LET rows == DOMAIN tx[w].loaded IN
       tx' = Write(w, [r \in rows |-> {}],
                   defer_custom_metadata(IF rows = {} THEN {} ELSE {Job(w).cred}),
                   "drop", <<Credential(Job(w).cred)>>)
    /\ Quiet

\* Mutant: the material goes with the statement.
DestroyAtOnce(w) ==
    /\ At(w, "drop")
    /\ tx' = Write(w, Only(Credential(Job(w).cred), {}), <<>>, "commit", <<>>)
    /\ live' = live \ {Job(w).cred}
    /\ UNCHANGED <<jobs, db, settingsVars, kv, drift, deleted, run, asked>>

\* post_delete: the material goes once the deletion has committed.
destroy_material_on_delete(w) ==
    /\ At(w, "drop")
    /\ tx' = Write(w, Only(Credential(Job(w).cred), {}), <<Destroy(Job(w).cred)>>, "commit", <<>>)
    /\ Quiet

\* Automation and reveal_credential: service, then credential, then assignment.
_lock_metadata(w) ==
    /\ Ready(w, "reveal")
    /\ tx' = Open(w, "commit", <<Service(Job(w).service), Credential(Job(w).cred),
                                 Assignment(Job(w).assignment)>>, NoRows)
    /\ Quiet

--------------------------------------------------------------------------------
\* After the commit the callbacks run one by one, each publication in a transaction of
\* its own: the source is read, locked, and read again.
Called(w) ==
    [tx EXCEPT ![w] = [Idle EXCEPT !.step = "callbacks", !.hooks = Tail(tx[w].hooks),
                                   !.loaded = tx[w].loaded]]
NextCall(w, call) == At(w, "callbacks") /\ tx[w].hooks # <<>> /\ Head(tx[w].hooks).call = call
Subject(w) == Head(tx[w].hooks).cred

\* Mutant: publishers are not ordered.
PublishUnordered(w) ==
    /\ NextCall(w, "publish")
    /\ tx' = IF db[Credential(Subject(w))] = {} THEN Called(w)
             ELSE [tx EXCEPT ![w].step = "project", ![w].open = TRUE]
    /\ Quiet

_publish_custom_metadata(w) ==
    /\ NextCall(w, "publish")
    /\ tx' = IF db[Credential(Subject(w))] = {} THEN Called(w)
             ELSE [tx EXCEPT ![w].step = "project", ![w].open = TRUE,
                             ![w].wants = <<Projection(Subject(w))>>]
    /\ Quiet

Project(w) ==
    /\ At(w, "project")
    /\ tx' = IF db[Credential(Subject(w))] = {} THEN Called(w)
             ELSE [tx EXCEPT ![w].step = "send", ![w].image = build_custom_metadata(w, Subject(w))]
    /\ Quiet

\* A failed call is logged ("reconciliation is required") and may have had its effect.
set_metadata(w) ==
    /\ At(w, "send")
    /\ \/ /\ kv' = [kv EXCEPT ![Subject(w)] = tx[w].image]
          /\ live' = live \cup {Subject(w)}
          /\ UNCHANGED drift
       \/ /\ \/ kv' = [kv EXCEPT ![Subject(w)] = tx[w].image] /\ live' = live \cup {Subject(w)}
             \/ UNCHANGED <<kv, live>>
          /\ drift' = drift \cup {Subject(w)}
    /\ tx' = Called(w)
    /\ UNCHANGED <<jobs, db, settingsVars, deleted, run, asked>>

\* delete_material; a failure is logged as an orphaned secret.
delete_material(w) ==
    /\ NextCall(w, "destroy")
    /\ \/ live' = live \ {Subject(w)} /\ UNCHANGED drift
       \/ drift' = drift \cup {Subject(w)} /\ UNCHANGED live
    /\ tx' = Called(w)
    /\ UNCHANGED <<jobs, db, settingsVars, kv, deleted, run, asked>>

Respond(w) == At(w, "callbacks") /\ tx[w].hooks = <<>> /\ tx' = Answered(w) /\ Quiet

--------------------------------------------------------------------------------
\* Quick add: the address under its own lock, the parent, the service, and then the
\* credential and its assignment, in one transaction.
\* Mutant: the parent is not locked.
QuickAddUnordered(w) ==
    /\ Ready(w, "quickadd")
    /\ Remember(w)
    /\ tx' = IF Job(w).address = "none" THEN Open(w, "parent", <<>>, NoRows)
             ELSE Open(w, "address", <<AddressCreation(Job(w).cidr)>>, NoRows)
    /\ UNCHANGED <<jobs, db, fresh, graphVars>>

quick_add_ssh(w) ==
    /\ Ready(w, "quickadd")
    /\ Remember(w)
    /\ tx' = IF Job(w).address = "none"
             THEN Open(w, "parent", <<Parent(Job(w).parent)>>, NoRows)
             ELSE Open(w, "address", <<AddressCreation(Job(w).cidr)>>, NoRows)
    /\ UNCHANGED <<jobs, db, fresh, graphVars>>

\* The addresses of the network that the caller may view: one that is hidden from it is
\* not found, and the caller adds a second.
Same(w) == {row \in Table(w, "address") : /\ The(Seen(w, row)).cidr = Job(w).cidr
                                          /\ row \notin Job(w).hidden}

\* The only address there is reused; of several none is chosen.  Adding one is refused
\* without ipam.add_ipaddress, or by full_clean where NetBox enforces unique addresses.
_new_ip_address(w) ==
    /\ At(w, "address")
    /\ \/ Cardinality(Same(w)) # 1 /\ tx' = RolledBack(w, "failed")
       \/ /\ Cardinality(Same(w)) <= 1
          /\ tx' = Write(w, IF Same(w) # {} THEN NoRows
                            ELSE Only(Address(Job(w).address), {[cidr |-> Job(w).cidr]}),
                         <<>>, "parent", <<Parent(Job(w).parent)>>)
    /\ Quiet

\* The parent is locked, then the service of that name.
LockService(w) ==
    /\ At(w, "parent")
    /\ tx' = Goto(w, "service", SetToSeq(ServicesOf(w)))
    /\ Quiet

\* The parent's own address, by default, unless the caller may not view it.
_primary_ip_addresses(w) ==
    {i \in The(Seen(w, Parent(Job(w).parent))).primary : Address(i) \notin Job(w).hidden}

\* An existing service is widened by the port, and given the address when it has none;
\* one with a different address is not used for an explicit request.  Nor does it get an
\* address the caller may not view (_visible_ip_addresses), be it the one just added.
_get_or_create_service(w) ==
    LET explicit == Job(w).address # "none"
        chosen == IF explicit THEN {row[2] : row \in Same(w)}
                  ELSE _primary_ip_addresses(w)
        services == ServicesOf(w)
        row == IF services = {} THEN Service(Job(w).service) ELSE CHOOSE s \in services : TRUE
        old == IF services = {} THEN [ports |-> {}, addresses |-> {}] ELSE The(Seen(w, row))
        addresses == IF old.addresses = {} THEN chosen ELSE old.addresses
        service == [parent |-> Job(w).parent, name |-> Job(w).name,
                    ports |-> old.ports \cup {Job(w).port}, addresses |-> addresses]
    IN
    /\ At(w, "service")
    /\ tx' = IF explicit /\ (chosen = {} \/ ~(chosen \subseteq addresses))
             THEN RolledBack(w, "failed")
             ELSE Write(w, Only(row, {service}), <<>>, IF Job(w).existing THEN "assign" ELSE "prefix",
                        IF Job(w).existing THEN <<>> ELSE <<Singleton>>)
    /\ Quiet

--------------------------------------------------------------------------------
\* The importer takes one snapshot of the markers and gives each secret a transaction.
import_secrets(w) ==
    /\ Ready(w, "import")
    /\ run' = [run EXCEPT ![w] = [known |-> {c.source : c \in Credentials(w)}, at |-> 1,
                                  reported |-> {}]]
    /\ tx' = Goto(w, "secret", <<>>)
    /\ UNCHANGED <<jobs, db, settingsVars, kv, live, drift, deleted, asked>>

ImportSecret(w) ==
    /\ At(w, "secret") /\ Importing(w)
    /\ IF Item(w).source \in run[w].known
       THEN /\ run' = [run EXCEPT ![w].at = @ + 1, ![w].reported = @ \cup {Item(w).source}]
            /\ UNCHANGED <<tx, memo, pending>>
       ELSE /\ tx' = Open(w, "prefix", <<Singleton>>, NoRows)
            /\ Remember(w) /\ UNCHANGED run
    /\ UNCHANGED <<jobs, db, fresh, kv, live, drift, deleted, asked>>

\* Mutant: a failed secret is tried again.
RetrySecret(w) ==
    /\ Importing(w) /\ tx[w].step \in {"finish", "failed"}
    /\ run' = [run EXCEPT ![w].at = IF tx[w].step = "finish" THEN @ + 1 ELSE @]
    /\ tx' = [tx EXCEPT ![w] = [Idle EXCEPT !.step = "secret"]]
    /\ UNCHANGED <<jobs, db, settingsVars, kv, live, drift, deleted, asked>>

\* A failed secret does not stop the run.
NextSecret(w) ==
    /\ Importing(w) /\ tx[w].step \in {"finish", "failed"}
    /\ LET done == IF tx[w].step = "finish" THEN {Item(w).source} ELSE {} IN
       run' = [run EXCEPT ![w] = [known |-> @.known \cup done, at |-> @.at + 1,
                                  reported |-> @.reported \cup done]]
    /\ tx' = [tx EXCEPT ![w] = [Idle EXCEPT !.step = "secret"]]
    /\ UNCHANGED <<jobs, db, settingsVars, kv, live, drift, deleted, asked>>

Imported(w) == At(w, "secret") /\ ~Importing(w) /\ tx' = Answered(w) /\ Quiet

GraphWork(w) ==
    \/ Create(w) \/ Stamp(w) \/ Assign(w) \/ _assign(w)
    \/ Reassign(w) \/ capture_previous_credential(w) \/ Rebind(w) \/ Unassign(w) \/ DeleteAssignment(w)
    \/ Delete(w) \/ Clear(w) \/ destroy_material_on_delete(w) \/ _lock_metadata(w)
    \/ _publish_custom_metadata(w) \/ Project(w) \/ set_metadata(w) \/ delete_material(w)
    \/ Respond(w)
    \/ quick_add_ssh(w) \/ _new_ip_address(w) \/ LockService(w) \/ _get_or_create_service(w)
    \/ import_secrets(w) \/ ImportSecret(w) \/ NextSecret(w) \/ Imported(w)

\* The address a transaction adds, beside each one there that its caller may not view.
Unseen(w) ==
    {pair \in {row \in DOMAIN tx[w].own : row[1] = "address"} \X Job(w).hidden :
        db[pair[2]] # {}}

\* What the commit of a quick add or of an imported secret promises.
Asked(w) ==
    IF Has(w, "quickadd") THEN {<<Named(Job(w)), Job(w).port>>} \cup Unseen(w)
    ELSE IF Has(w, "import") THEN {<<Credential(Item(w).cred), Item(w).target>>} ELSE {}

\* The owners a commit takes an assignment from without a callback for them: whoever
\* moved the assignment meanwhile is neither captured nor loaded.
Missed(w) ==
    {c \in Cred : /\ \E row \in DOMAIN tx[w].own :
                       row[1] = "assignment" /\ \E r \in db[row] : r.cred = c
                  /\ Publish(c) \notin Range(tx[w].hooks)}

\* What a worker still had to call when it died.
Lost(w) ==
    IF tx[w].step \in {"callbacks", "project", "send"}
    THEN {h.cred : h \in {g \in Range(tx[w].hooks) : g.call # "invalidate"}} ELSE {}

================================================================================
