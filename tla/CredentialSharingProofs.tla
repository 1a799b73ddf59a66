------------------------ MODULE CredentialSharingProofs ------------------------
(***************************************************************************)
(* Proofs about CredentialEstate, after CredentialFateProofs: what         *)
(* requests of several workers share. Concurrent quick adds have one       *)
(* service of a name on a parent, with every port asked for, and one       *)
(* address of those they may view; whatever importers and crashes do, a    *)
(* secret is imported once, with its assignment, and what a run reports is *)
(* there.                                                                  *)
(*                                                                         *)
(* SharedInv follows the rows quick add locks and would write: under the   *)
(* lock of the parent, nobody else inserts or widens its service.          *)
(* ImportInv follows the markers: under the prefix lock one transaction at *)
(* a time stamps a credential, and none with a marker that is stored.      *)
(***************************************************************************)
EXTENDS CredentialFateProofs

--------------------------------------------------------------------------------
(***************************************************************************)
(* What quick adds share.                                                  *)
(***************************************************************************)

\* The tables quick add shares with others, and the steps at which it may have written them.
Shared == {"parent", "service", "address"}
Widened == {"prefix", "locked", "assign", "commit"}
Adding == {"parent", "service"} \cup Widened
Owned(w) == {row \in DOMAIN tx[w].own : row[1] \in Shared}

\* The lock is held, or the next thing the request waits for.
Awaits(w, lock) == lock \in tx[w].held \/ (tx[w].wants # <<>> /\ Head(tx[w].wants) = lock)

\* A quick add has the only address of its network that its caller may view, under the
\* lock of that network.
AddressOwn(w, row) ==
    /\ AddressCreation(Job(w).cidr) \in tx[w].held
    /\ tx[w].own[row] = {[cidr |-> Job(w).cidr]}
    /\ \A i \in Stored("address") : The(db[i]).cidr = Job(w).cidr => i \in Job(w).hidden
    /\ \A other \in Owned(w) : other[1] = "address" => other = row

\* A quick add has the only service of its name on its parent, with its port and those
\* there were.
ServiceOwn(w, row) ==
    /\ tx[w].step \in Widened /\ row \in DOMAIN db
    /\ \E n \in tx[w].own[row] :
          /\ tx[w].own[row] = {n} /\ Named(n) = Named(Job(w)) /\ Job(w).port \in n.ports
          /\ \A s \in Stored("service") : Named(The(db[s])) = Named(n) =>
                s = row /\ The(db[s]).ports \subseteq n.ports
    /\ db[row] # {} => Named(The(db[row])) = Named(Job(w))
    /\ \A other \in Owned(w) : other[1] = "service" => other = row

\* What quick add has locked at each of its steps, and what it would write.
Adds(w) ==
    LET t == tx[w]
        parent == Parent(Job(w).parent)
    IN
    /\ t.step = "address" => Awaits(w, AddressCreation(Job(w).cidr))
    /\ t.step = "parent" => Awaits(w, parent)
    /\ t.step \in {"service"} \cup Widened => parent \in t.held
    /\ t.step \in Widened => \E row \in Owned(w) : row[1] = "service"
Shares(w) ==
    /\ Owned(w) # {} => Has(w, "quickadd") /\ tx[w].step \in Adding
    /\ Has(w, "quickadd") => Adds(w)
    /\ \A row \in Owned(w) :
          /\ row[1] # "parent"
          /\ row[1] = "address" => AddressOwn(w, row)
          /\ row[1] = "service" => ServiceOwn(w, row)

\* A service that somebody was promised a port of is there.
Promised ==
    \A pair \in asked : pair[1][1] = "named" =>
        \E s \in Stored("service") : Named(The(db[s])) = pair[1]

\* Quick add names parents that are there.
Hosted ==
    \A w \in Worker : \A i \in DOMAIN jobs[w] :
        jobs[w][i].kind = "quickadd" => db[Parent(jobs[w][i].parent)] # {}

SharedInv ==
    /\ \A w \in Worker : Shares(w)
    /\ ServiceShared /\ Promised /\ Hosted

\* What a step inside a transaction leaves alone.
Apart == UNCHANGED <<jobs, db, asked>>

\* A request keeps what it shares when its rows, its locks and its place stay.
LEMMA SharesStay ==
    ASSUME NEW v, tx'[v] = tx[v], jobs'[v] = jobs[v], db' = db, Shares(v)
    PROVE  Shares(v)'
<1>1. Owned(v)' = Owned(v)  BY DEF Owned, Shared
<1>2. Has(v, "quickadd")' <=> Has(v, "quickadd")  BY DEF Has, Job
<1>3. Job(v)' = Job(v)  BY DEF Job
<1>4. Adds(v) => Adds(v)'
  BY <1>1, <1>3 DEF Adds, Awaits, Parent, AddressCreation, Widened
<1>5. ASSUME NEW row \in Owned(v), AddressOwn(v, row) PROVE AddressOwn(v, row)'
  BY <1>1, <1>3, <1>5 DEF AddressOwn, AddressCreation, Stored, The
<1>6. ASSUME NEW row \in Owned(v), ServiceOwn(v, row) PROVE ServiceOwn(v, row)'
  BY <1>1, <1>3, <1>6 DEF ServiceOwn, Stored, The, Named, Widened
<1>7. QED  BY <1>1, <1>2, <1>4, <1>5, <1>6 DEF Shares, Adding, Widened

\* A step that leaves the rows alone keeps SharedInv when it keeps what its request shares.
LEMMA SharedStep ==
    ASSUME SharedInv, NEW w \in Worker, Others(w), Apart, Shares(w)'
    PROVE  SharedInv'
<1>1. jobs' = jobs /\ db' = db /\ asked' = asked  BY DEF Apart
<1>2. ASSUME NEW v \in Worker PROVE Shares(v)'
  <2>1. CASE v = w  BY <2>1
  <2>2. CASE v # w
    <3>1. tx'[v] = tx[v] /\ jobs'[v] = jobs[v]  BY <1>1, <2>2 DEF Others
    <3>2. Shares(v)  BY DEF SharedInv
    <3>3. QED  BY <1>1, <3>1, <3>2, SharesStay
  <2>3. QED  BY <2>1, <2>2
<1>3. ServiceShared'
  <2>1. ServiceShared  BY DEF SharedInv
  <2>2. QED  BY ONLY <1>1, <2>1 DEF ServiceShared, Stored, The, Named
<1>4. Promised' /\ Hosted'
  <2>1. Promised /\ Hosted  BY DEF SharedInv
  <2>2. QED  BY ONLY <1>1, <2>1 DEF Promised, Hosted, Stored, The, Named, Parent
<1>5. QED  BY <1>2, <1>3, <1>4 DEF SharedInv

\* A request that shares nothing before or after.
LEMMA SharedOut ==
    ASSUME SharedInv, NEW w \in Worker, Others(w), Apart,
           \A row \in DOMAIN tx'[w].own : row[1] \in Shared => row \in DOMAIN tx[w].own,
           \/ ~Has(w, "quickadd")
           \/ /\ tx'[w].step \notin {"address"} \cup Adding
              /\ tx[w].step \notin Adding \/ DOMAIN tx'[w].own = {}
    PROVE  SharedInv'
<1>1. Owned(w)' = {}
  <2>1. Owned(w) = {} \/ DOMAIN tx'[w].own = {}  BY DEF SharedInv, Shares
  <2>2. QED  BY <2>1 DEF Owned, Shared
<1>2. Has(w, "quickadd")' <=> Has(w, "quickadd")  BY DEF Apart, Has, Job
<1>3. Has(w, "quickadd")' => Adds(w)'  BY <1>2 DEF Adds, Adding, Widened
<1>4. Shares(w)'  BY <1>1, <1>3 DEF Shares
<1>5. QED  BY <1>4, SharedStep

\* A request goes on inside its transaction, and writes nothing shared.
LEMMA SharedOn ==
    ASSUME SharedInv, NEW w \in Worker, Others(w), Apart,
           \/ tx'[w].step = tx[w].step
           \/ tx[w].step \in Widened /\ tx'[w].step \in Widened,
           tx[w].held \subseteq tx'[w].held,
           \A row \in DOMAIN tx'[w].own : row[1] \in Shared => row \in DOMAIN tx[w].own,
           \A row \in DOMAIN tx[w].own : row[1] \in Shared =>
               row \in DOMAIN tx'[w].own /\ tx'[w].own[row] = tx[w].own[row],
           Has(w, "quickadd") /\ tx[w].step = "address" =>
               Awaits(w, AddressCreation(Job(w).cidr))',
           Has(w, "quickadd") /\ tx[w].step = "parent" => Awaits(w, Parent(Job(w).parent))'
    PROVE  SharedInv'
<1>0. jobs' = jobs /\ db' = db  BY DEF Apart
<1>1. Owned(w)' = Owned(w)  BY DEF Owned, Shared
<1>2. Has(w, "quickadd")' <=> Has(w, "quickadd")  BY <1>0 DEF Has, Job
<1>3. Job(w)' = Job(w)  BY <1>0 DEF Job
<1>4. Shares(w)  BY DEF SharedInv
<1>5. \A row \in Owned(w) : tx'[w].own[row] = tx[w].own[row]  BY DEF Owned
<1>6. tx[w].step \in Widened <=> tx'[w].step \in Widened  OBVIOUS
<1>7. ASSUME Has(w, "quickadd"), Adds(w) PROVE Adds(w)'
  <2>1. tx'[w].step \in {"address", "parent", "service"} => tx'[w].step = tx[w].step
    BY DEF Widened
  <2>2. Parent(Job(w).parent)' = Parent(Job(w).parent)  BY <1>3 DEF Parent
  <2>3. tx'[w].step = "address" => Awaits(w, AddressCreation(Job(w).cidr))'  BY <1>7, <2>1
    DEF Adds
  <2>4. tx'[w].step = "parent" => Awaits(w, Parent(Job(w).parent))'  BY <1>7, <2>1, <2>2
  <2>5. tx'[w].step \in {"service"} \cup Widened => Parent(Job(w).parent) \in tx'[w].held
    BY <1>6, <1>7, <2>1 DEF Adds
  <2>6. tx'[w].step \in Widened => \E row \in Owned(w)' : row[1] = "service"
    BY <1>1, <1>6, <1>7 DEF Adds
  <2>7. QED  BY <2>2, <2>3, <2>4, <2>5, <2>6 DEF Adds, Widened
<1>8. ASSUME NEW row \in Owned(w), AddressOwn(w, row) PROVE AddressOwn(w, row)'
  BY <1>0, <1>1, <1>3, <1>5, <1>8 DEF AddressOwn, AddressCreation, Stored, The
<1>9. ASSUME NEW row \in Owned(w), ServiceOwn(w, row) PROVE ServiceOwn(w, row)'
  BY <1>0, <1>1, <1>3, <1>5, <1>6, <1>9 DEF ServiceOwn, Stored, The, Named, Widened
<1>10. Owned(w) # {} => tx'[w].step \in Adding  BY <1>4 DEF Shares, Adding
<1>11. Shares(w)'  BY <1>1, <1>2, <1>4, <1>7, <1>8, <1>9, <1>10 DEF Shares, Adding, Widened
<1>12. QED  BY <1>11, SharedStep

\* What a request of another kind, or one that is not adding rows, may do.
Outside(w, s) == ~Has(w, "quickadd") \/ s \notin {"address"} \cup Adding

\* A request that shares nothing goes on, and writes nothing.
LEMMA SharedMove ==
    ASSUME EstateInv, SharedInv, NEW w \in Worker, Apart, NEW s, Outside(w, s),
           Outside(w, tx[w].step),
           \/ tx' = Answered(w) /\ s = "finish"
           \/ \E l : tx' = Goto(w, s, l)
           \/ \E l, d : tx' = Open(w, s, l, d)
           \/ \E l, i : tx' = Captures(w, s, l, i)
           \/ \E i : tx' = Images(w, s, i)
           \/ \E l : tx' = Publishes(w, s, l)
           \/ \E d : tx' = Loads(w, s, d)
           \/ tx' = Unhooks(w) /\ s = tx[w].step
    PROVE  SharedInv'
<1>1. ShapeInv  BY DEF EstateInv
<1>2. Others(w) /\ tx'[w].step = s /\ tx'[w].own = tx[w].own
  <2>1. CASE tx' = Answered(w) /\ s = "finish"  BY <1>1, <2>1, AnsweredFields
  <2>2. CASE \E l : tx' = Goto(w, s, l)  BY <1>1, <2>2, GotoFields
  <2>3. CASE \E l, d : tx' = Open(w, s, l, d)
    <3>1. PICK l, d : tx' = Open(w, s, l, d)  BY <2>3
    <3>2. QED  BY ONLY <1>1, <3>1, w \in Worker, BeginFields
  <2>4. CASE \E l, i : tx' = Captures(w, s, l, i)  BY <1>1, <2>4, CaptureFields
  <2>5. CASE \E i : tx' = Images(w, s, i)  BY <1>1, <2>5, ImageFields
  <2>6. CASE \E l : tx' = Publishes(w, s, l)
    <3>1. PICK l : tx' = Publishes(w, s, l)  BY <2>6
    <3>2. QED  BY ONLY <1>1, <3>1, w \in Worker, PublishFields
  <2>7. CASE \E d : tx' = Loads(w, s, d)  BY <1>1, <2>7, LoadFields
  <2>8. CASE tx' = Unhooks(w) /\ s = tx[w].step  BY <1>1, <2>8, HooksFields
  <2>9. QED  BY <2>1, <2>2, <2>3, <2>4, <2>5, <2>6, <2>7, <2>8
<1>3. \/ ~Has(w, "quickadd")
      \/ tx'[w].step \notin {"address"} \cup Adding /\ tx[w].step \notin Adding
  BY <1>2 DEF Outside
<1>4. QED  BY <1>2, <1>3, SharedOut

\* A transaction is over, and leaves no rows.
LEMMA SharedDrop ==
    ASSUME EstateInv, SharedInv, NEW w \in Worker, Apart, NEW s, s \notin {"address"} \cup Adding,
           \/ tx' = RolledBack(w, s)
           \/ tx' = Resets(w, s)
           \/ tx' = Called(w) /\ s = "callbacks"
    PROVE  SharedInv'
<1>1. ShapeInv  BY DEF EstateInv
<1>2. Others(w) /\ tx'[w].step = s /\ tx'[w].own = NoRows
  BY <1>1, RolledBackFields, ResetFields, CalledFields
<1>3. DOMAIN tx'[w].own = {}  BY <1>2 DEF NoRows
<1>4. QED  BY <1>2, <1>3, SharedOut

\* A request of another kind writes rows that are not shared.
LEMMA SharedWrite ==
    ASSUME EstateInv, SharedInv, NEW w \in Worker, Apart, ~Has(w, "quickadd"),
           NEW rows, NEW h, NEW s, NEW l, tx' = Write(w, rows, h, s, l),
           \A row \in DOMAIN rows : row[1] \notin Shared
    PROVE  SharedInv'
<1>1. ShapeInv  BY DEF EstateInv
<1>2. Others(w) /\ tx'[w].own = Over(rows, tx[w].own)
  BY ONLY <1>1, w \in Worker, tx' = Write(w, rows, h, s, l), WriteFields
<1>3. \A row \in DOMAIN tx'[w].own : row[1] \in Shared => row \in DOMAIN tx[w].own
  BY <1>2 DEF Over
<1>4. QED  BY <1>2, <1>3, SharedOut

\* A quick add writes rows that are not shared, after those that are.
LEMMA SharedOnWrite ==
    ASSUME EstateInv, SharedInv, NEW w \in Worker, Apart, tx[w].step \in Widened,
           NEW rows, NEW h, NEW s, NEW l, tx' = Write(w, rows, h, s, l), s \in Widened,
           \A row \in DOMAIN rows : row[1] \notin Shared
    PROVE  SharedInv'
<1>1. ShapeInv  BY DEF EstateInv
<1>2. /\ Others(w) /\ tx'[w].step = s /\ tx'[w].own = Over(rows, tx[w].own)
      /\ tx'[w].held = tx[w].held
  BY ONLY <1>1, w \in Worker, tx' = Write(w, rows, h, s, l), WriteFields
<1>3. /\ \A row \in DOMAIN tx'[w].own : row[1] \in Shared => row \in DOMAIN tx[w].own
      /\ \A row \in DOMAIN tx[w].own : row[1] \in Shared =>
            row \in DOMAIN tx'[w].own /\ tx'[w].own[row] = tx[w].own[row]
  BY <1>2 DEF Over
<1>4. tx[w].step \notin {"address", "parent"}  BY DEF Widened
<1>5. QED  BY <1>2, <1>3, <1>4, SharedOn

\* The settings.
LEMMA SharedSettings ==
    ASSUME EstateInv, SharedInv, NEW w \in Worker, SettingsWork(w), UNCHANGED graphVars
    PROVE  SharedInv'
<1>0. Apart
  BY DEF graphVars, Apart, SettingsWork, Configure, Unset, _save_locked, delete_settings,
     _lock_for_prefix_write
<1>1. CASE _lock_for_prefix_write(w)
  <2>1. PICK l : tx' = Goto(w, "locked", l)  BY <1>1, Zenon DEF _lock_for_prefix_write
  <2>2. tx[w].step = "prefix"  BY <1>1 DEF _lock_for_prefix_write, At
  <2>3. /\ Others(w) /\ tx'[w].step = "locked" /\ tx'[w].own = tx[w].own
        /\ tx'[w].held = tx[w].held
    BY <2>1, GotoFields DEF EstateInv
  <2>4. tx[w].step \in Widened /\ tx'[w].step \in Widened /\ tx[w].step \notin {"address", "parent"}
    BY <2>2, <2>3 DEF Widened
  <2>5. QED  BY <1>0, <2>3, <2>4, SharedOn
<1>2. ASSUME ~_lock_for_prefix_write(w) PROVE SharedInv'
  <2>1. ~Has(w, "quickadd")
    BY <1>2 DEF SettingsWork, Configure, Unset, _save_locked, delete_settings, Ready, Has
  <2>2. \A s : Outside(w, s)  BY <2>1 DEF Outside
  <2>3. CASE Configure(w) \/ Unset(w)
    <3>1. \/ tx' = Answered(w)
          \/ \E l, d : tx' = Open(w, "prefix", l, d)
      BY <2>3, Zenon DEF Configure, Unset
    <3>2. QED  BY <1>0, <2>2, <3>1, SharedMove
  <2>4. CASE _save_locked(w) \/ delete_settings(w)
    <3>1. \/ tx' = RolledBack(w, "failed")
          \/ \E r : \/ tx' = Write(w, Only(Singleton, r), <<>>, "commit", <<>>)
                    \/ tx' = Write(w, NoRows, <<>>, "commit", <<>>)
      BY <2>4, Zenon DEF _save_locked, delete_settings
    <3>2. "failed" \notin {"address"} \cup Adding  BY DEF Adding, Widened
    <3>3. CASE tx' = RolledBack(w, "failed")  BY <1>0, <3>2, <3>3, SharedDrop
    <3>4. ASSUME NEW rows, DOMAIN rows \subseteq {Singleton}, tx' = Write(w, rows, <<>>, "commit", <<>>)
          PROVE  SharedInv'
      <4>1. \A row \in DOMAIN rows : row[1] \notin Shared  BY <3>4 DEF Shared, Singleton
      <4>2. QED  BY ONLY EstateInv, SharedInv, w \in Worker, <1>0, <2>1, <3>4, <4>1, SharedWrite
    <3>5. \A r : DOMAIN Only(Singleton, r) \subseteq {Singleton}  BY DEF Only
    <3>6. DOMAIN NoRows \subseteq {Singleton}  BY DEF NoRows
    <3>7. QED  BY <3>1, <3>3, <3>4, <3>5, <3>6
  <2>5. QED  BY <1>2, <2>3, <2>4 DEF SettingsWork
<1>3. QED  BY <1>1, <1>2

--------------------------------------------------------------------------------
(***************************************************************************)
(* Requests that share nothing, and the steps around a quick add.          *)
(***************************************************************************)

\* The engine authentication material.
LEMMA SharedIdentity ==
    ASSUME EstateInv, TypesInv, IdentityInv, SharedInv, NEW w \in Worker, IdentityWork(w),
           UNCHANGED graphVars
    PROVE  SharedInv'
<1>1. Apart  BY TypedIdentity DEF graphVars, Apart
<1>2. Kinds(w, tx[w].step)  BY TypedBase
<1>3. CASE invalidate_auth_material_sessions(w)
  <2>1. tx' = Unhooks(w) /\ tx[w].step = "callbacks"
    BY <1>3 DEF invalidate_auth_material_sessions, Unhooks, At
  <2>2. Outside(w, tx[w].step)  BY <2>1 DEF Outside, Adding, Widened
  <2>3. QED  BY <1>1, <2>1, <2>2, SharedMove
<1>4. ASSUME ~invalidate_auth_material_sessions(w) PROVE SharedInv'
  <2>1. ~Has(w, "quickadd")
    BY <1>2, <1>4 DEF IdentityWork, Rotate, Reencrypt, save, Withdraw, DeleteMaterial, get_backend,
       refresh_auth_material, Reload, _get_client, Keep, Present, Ready, At, Has, Kinds, Calling
  <2>2. \A s : Outside(w, s)  BY <2>1 DEF Outside
  <2>3. CASE Rotate(w) \/ Reencrypt(w) \/ Withdraw(w)
    <3>1. \/ tx' = Answered(w)
          \/ \E s \in {"merge", "withdraw"} : \E l, d : tx' = Open(w, s, l, d)
      BY <2>3, Zenon DEF Rotate, Reencrypt, Withdraw
    <3>2. QED  BY <1>1, <2>2, <3>1, SharedMove
  <2>4. CASE save(w) \/ DeleteMaterial(w)
    <3>1. \/ tx' = RolledBack(w, "failed")
          \/ \E r, h : tx' = Write(w, Only(Material, r), h, "commit", <<>>)
      BY <2>4, Zenon DEF save, DeleteMaterial
    <3>2. "failed" \notin {"address"} \cup Adding  BY DEF Adding, Widened
    <3>3. CASE tx' = RolledBack(w, "failed")  BY <1>1, <3>2, <3>3, SharedDrop
    <3>4. ASSUME NEW r, NEW h, tx' = Write(w, Only(Material, r), h, "commit", <<>>)
          PROVE  SharedInv'
      <4>1. \A row \in DOMAIN Only(Material, r) : row[1] \notin Shared
        BY DEF Only, Shared, Material
      <4>2. QED  BY ONLY EstateInv, SharedInv, w \in Worker, <1>1, <2>1, <3>4, <4>1, SharedWrite
    <3>5. QED  BY <3>1, <3>3, <3>4
  <2>5. CASE \/ get_backend(w) \/ refresh_auth_material(w) \/ Reload(w) \/ _get_client(w) \/ Keep(w)
             \/ Present(w)
    <3>1. \/ tx' = Answered(w)
          \/ \E s \in {"client", "reload", "present", "keep", "refresh", "finish"} :
                (\E l : tx' = Goto(w, s, l)) \/ (\E d : tx' = Loads(w, s, d))
      BY <2>5, Zenon DEF get_backend, refresh_auth_material, Reload, _get_client, Keep, Present, Loads
    <3>2. QED  BY <1>1, <2>2, <3>1, SharedMove
  <2>6. QED  BY <1>4, <2>3, <2>4, <2>5 DEF IdentityWork
<1>5. QED  BY <1>3, <1>4

\* What a quick add may never do: the requests of the other kinds.
LEMMA OtherKinds ==
    ASSUME EstateInv, TypesInv, NEW w \in Worker,
           \/ Create(w) \/ Assign(w) \/ Reassign(w) \/ capture_previous_credential(w) \/ Rebind(w)
           \/ Unassign(w) \/ DeleteAssignment(w) \/ Delete(w) \/ Clear(w)
           \/ destroy_material_on_delete(w) \/ _lock_metadata(w) \/ import_secrets(w)
           \/ ImportSecret(w) \/ NextSecret(w) \/ Imported(w)
    PROVE  ~Has(w, "quickadd")
<1>1. Kinds(w, tx[w].step)  BY TypedBase
<1>2. QED
  BY <1>1 DEF Create, Assign, Reassign, capture_previous_credential, Rebind, Unassign,
     DeleteAssignment, Delete, Clear, destroy_material_on_delete, _lock_metadata, import_secrets,
     ImportSecret, NextSecret, Imported, Importing, Ready, At, Has, Kinds

\* The requests about credentials and assignments.
LEMMA SharedOthers ==
    ASSUME EstateInv, TypesInv, SharedInv, NEW w \in Worker, Apart,
           \/ Create(w) \/ Assign(w) \/ Reassign(w) \/ capture_previous_credential(w) \/ Rebind(w)
           \/ Unassign(w) \/ DeleteAssignment(w) \/ Delete(w) \/ Clear(w)
           \/ destroy_material_on_delete(w) \/ _lock_metadata(w) \/ import_secrets(w)
           \/ ImportSecret(w) \/ NextSecret(w) \/ Imported(w)
    PROVE  SharedInv'
<1>0. ~Has(w, "quickadd")  BY OtherKinds
<1>1. \A s : Outside(w, s)  BY <1>0 DEF Outside
<1>2. CASE \/ Create(w) \/ Assign(w) \/ Reassign(w) \/ Unassign(w) \/ _lock_metadata(w)
           \/ Delete(w) \/ Imported(w)
  <2>1. \/ tx' = Answered(w)
        \/ \E s \in {"prefix", "assign", "previous", "remove", "commit", "clear"} :
              \E l, d : tx' = Open(w, s, l, d)
    BY <1>2, Zenon DEF Create, Assign, Reassign, Unassign, _lock_metadata, Delete, Imported
  <2>2. QED  BY <1>1, <2>1, SharedMove
<1>3. CASE capture_previous_credential(w) \/ import_secrets(w)
  <2>1. \/ \E l, i : tx' = Captures(w, "rebind", l, i)
        \/ \E l : tx' = Goto(w, "secret", l)
    BY <1>3, Zenon DEF capture_previous_credential, import_secrets, Captures
  <2>2. QED  BY <1>1, <2>1, SharedMove
<1>4. CASE ImportSecret(w)
  <2>1. CASE \E l, d : tx' = Open(w, "prefix", l, d)  BY <1>1, <2>1, SharedMove
  <2>2. CASE tx' = tx
    <3>1. Others(w)  BY <2>2 DEF Others, EstateInv, ShapeInv
    <3>2. QED  BY <1>0, <2>2, <3>1, SharedOut
  <2>3. tx' = tx \/ \E l, d : tx' = Open(w, "prefix", l, d)  BY <1>4, Zenon DEF ImportSecret
  <2>4. QED  BY <2>1, <2>2, <2>3
<1>5. CASE NextSecret(w)
  <2>1. tx' = Resets(w, "secret")  BY <1>5 DEF NextSecret, Resets
  <2>2. "secret" \notin {"address"} \cup Adding  BY DEF Adding, Widened
  <2>3. QED  BY <2>1, <2>2, SharedDrop
<1>6. CASE Rebind(w) \/ DeleteAssignment(w)
  <2>1. PICK a, records, h, l : tx' = Write(w, Only(Assignment(a), records), h, "commit", l)
    BY <1>6, RebindRewrites, RemoveRewrites DEF Rewrites
  <2>2. \A row \in DOMAIN Only(Assignment(a), records) : row[1] \notin Shared
    BY DEF Only, Shared, Assignment
  <2>3. QED  BY ONLY EstateInv, SharedInv, w \in Worker, Apart, <1>0, <2>1, <2>2, SharedWrite
<1>7. CASE Clear(w)
  <2> DEFINE rows == [r \in DOMAIN tx[w].loaded |-> {}]
  <2>1. \A row \in DOMAIN rows : row[1] \notin Shared
    <3>1. StepOK(w) /\ tx[w].step = "clear"  BY <1>7 DEF EstateInv, Clear, At
    <3>2. \A row \in DOMAIN tx[w].loaded : row[1] = "assignment"  BY <3>1 DEF StepOK
    <3>3. QED  BY <3>2 DEF Shared
  <2>2. \E h, s, l : tx' = Write(w, rows, h, s, l)  BY <1>7, Zenon DEF Clear
  <2> HIDE DEF rows
  <2>3. PICK h, s, l : tx' = Write(w, rows, h, s, l)  BY <2>2
  <2>4. QED  BY ONLY EstateInv, SharedInv, w \in Worker, Apart, <1>0, <2>1, <2>3, SharedWrite
<1>8. CASE destroy_material_on_delete(w)
  <2> DEFINE rows == Only(Credential(Job(w).cred), {})
  <2>1. \A row \in DOMAIN rows : row[1] \notin Shared  BY DEF Only, Shared, Credential
  <2>2. \E h, s, l : tx' = Write(w, rows, h, s, l)  BY <1>8, Zenon DEF destroy_material_on_delete
  <2> HIDE DEF rows
  <2>3. PICK h, s, l : tx' = Write(w, rows, h, s, l)  BY <2>2
  <2>4. QED  BY ONLY EstateInv, SharedInv, w \in Worker, Apart, <1>0, <2>1, <2>3, SharedWrite
<1>9. QED  BY <1>2, <1>3, <1>4, <1>5, <1>6, <1>7, <1>8

\* The callbacks.
LEMMA SharedPublish ==
    ASSUME EstateInv, SharedInv, NEW w \in Worker, Apart,
           \/ _publish_custom_metadata(w) \/ Project(w) \/ set_metadata(w) \/ delete_material(w)
           \/ Respond(w)
    PROVE  SharedInv'
<1>1. Outside(w, tx[w].step)
  BY DEF _publish_custom_metadata, Project, set_metadata, delete_material, Respond, NextCall, At,
     Outside, Adding, Widened
<1>2. /\ \A s \in {"project", "send", "finish"} : Outside(w, s)
      /\ "callbacks" \notin {"address"} \cup Adding
  BY DEF Outside, Adding, Widened
<1>3. \/ tx' = Called(w)
      \/ tx' = Answered(w)
      \/ \E l : tx' = Publishes(w, "project", l)
      \/ \E i : tx' = Images(w, "send", i)
  BY Zenon DEF _publish_custom_metadata, Project, set_metadata, delete_material, Respond, Publishes,
     Images
<1>4. CASE tx' = Called(w)  BY <1>2, <1>4, SharedDrop
<1>5. CASE tx' # Called(w)  BY <1>1, <1>2, <1>3, <1>5, SharedMove
<1>6. QED  BY <1>4, <1>5

\* A quick add, or another request, stamps its credential.
LEMMA SharedStamp ==
    ASSUME EstateInv, SharedInv, NEW w \in Worker, Apart, Stamp(w)
    PROVE  SharedInv'
<1> DEFINE row == Credential(Item(w).cred)
<1>1. \/ tx' = RolledBack(w, "failed")
      \/ \E r : \E s \in {"commit", "assign"} : tx' = Write(w, Only(row, {r}), <<>>, s, <<>>)
  BY Zenon DEF Stamp
<1>2. row[1] \notin Shared  BY DEF Credential, Shared
<1>3. tx[w].step \in Widened /\ "failed" \notin {"address"} \cup Adding
  BY DEF Stamp, At, Widened, Adding
<1> HIDE DEF row
<1>4. CASE tx' = RolledBack(w, "failed")  BY <1>3, <1>4, SharedDrop
<1>5. ASSUME NEW r, NEW s \in {"commit", "assign"}, tx' = Write(w, Only(row, {r}), <<>>, s, <<>>)
      PROVE  SharedInv'
  <2>1. s \in Widened /\ \A x \in DOMAIN Only(row, {r}) : x[1] \notin Shared
    BY <1>2 DEF Only, Widened
  <2>2. QED
    BY ONLY EstateInv, SharedInv, w \in Worker, Apart, <1>3, <1>5, <2>1, SharedOnWrite
<1>6. QED  BY <1>1, <1>4, <1>5

\* The assignment of a credential: quick add's, the importer's, and others.
LEMMA SharedAssign ==
    ASSUME EstateInv, TypesInv, SharedInv, NEW w \in Worker, Apart, _assign(w)
    PROVE  SharedInv'
<1>1. tx[w].step = "assign" /\ (tx' = Goto(w, "commit", <<>>) \/ Rewrites(w))
  BY AssignRewrites
<1>2. "assign" \in Widened /\ "commit" \in Widened  BY DEF Widened
<1>3. CASE tx' = Goto(w, "commit", <<>>)
  <2>1. /\ Others(w) /\ tx'[w].step = "commit" /\ tx'[w].own = tx[w].own
        /\ tx'[w].held = tx[w].held
    BY <1>3, GotoFields DEF EstateInv
  <2>2. QED  BY <1>1, <1>2, <2>1, SharedOn
<1>4. CASE Rewrites(w)
  <2>1. PICK a, records, h, l : tx' = Write(w, Only(Assignment(a), records), h, "commit", l)
    BY <1>4 DEF Rewrites
  <2>2. \A row \in DOMAIN Only(Assignment(a), records) : row[1] \notin Shared
    BY DEF Only, Shared, Assignment
  <2>3. QED
    BY ONLY EstateInv, SharedInv, w \in Worker, Apart, <1>1, <1>2, <2>1, <2>2, SharedOnWrite
<1>5. QED  BY <1>1, <1>3, <1>4

\* What a quick add has not yet written is stored.
LEMMA SharedRows ==
    ASSUME EstateInv, TypesInv, FateInv, SharedInv, NEW w \in Worker,
           tx[w].step \in {"address", "parent", "service"}
    PROVE  /\ Has(w, "quickadd") /\ Shares(w) /\ Adds(w) /\ ShapeInv
           /\ tx[w].step = "address" => DOMAIN tx[w].own = {}
           /\ \A row \in DOMAIN tx[w].own : row[1] = "address"
           /\ ServicesOf(w) =
                 {s \in Stored("service") : Named(The(db[s])) = Named(Job(w))}
<1>1. Kinds(w, tx[w].step) /\ ShapeInv  BY TypedBase
<1>2. Has(w, "quickadd")  BY <1>1 DEF Kinds
<1>3. Shares(w) /\ Adds(w)  BY <1>2 DEF SharedInv, Shares
<1>4. tx[w].step = "address" => DOMAIN tx[w].own = {}
  BY TypedBase DEF Writing
<1>5. \A row \in DOMAIN tx[w].own : row[1] = "address"
  BY DEF FateInv, Fated, AddressFirst
<1>6. \A row \in DOMAIN db : row[1] = "service" => Seen(w, row) = db[row]  BY <1>5 DEF Seen
<1>7. QED  BY <1>1, <1>2, <1>3, <1>4, <1>5, <1>6 DEF ServicesOf, Table, Stored

\* Quick add takes the lock of the address, or of the parent.
LEMMA SharedQuick ==
    ASSUME EstateInv, TypesInv, SharedInv, NEW w \in Worker, Apart, quick_add_ssh(w)
    PROVE  SharedInv'
<1>0. jobs' = jobs /\ ShapeInv  BY DEF Apart, EstateInv
<1> DEFINE parent == Parent(Job(w).parent)
           network == AddressCreation(Job(w).cidr)
<1>1. tx[w].step = "idle" /\ Shares(w)  BY DEF quick_add_ssh, Ready, At, SharedInv
<1>2. \/ tx' = Open(w, "parent", <<parent>>, NoRows)
      \/ tx' = Open(w, "address", <<network>>, NoRows)
  BY DEF quick_add_ssh
<1>3. Owned(w) = {}  BY <1>1 DEF Shares, Adding, Widened
<1>4. parent' = parent /\ network' = network
  BY <1>0 DEF Parent, Job, AddressCreation
<1>5. /\ Others(w) /\ tx'[w].own = tx[w].own
      /\ \/ tx'[w].step = "parent" /\ tx'[w].wants = <<parent>>
         \/ tx'[w].step = "address" /\ tx'[w].wants = <<network>>
  <2> HIDE DEF parent, network
  <2>1. CASE tx' = Open(w, "parent", <<parent>>, NoRows)
    BY ONLY <1>0, <2>1, w \in Worker, BeginFields
  <2>2. CASE tx' = Open(w, "address", <<network>>, NoRows)
    BY ONLY <1>0, <2>2, w \in Worker, BeginFields
  <2>3. QED  BY <1>2, <2>1, <2>2
<1>6. Owned(w)' = {}  BY <1>3, <1>5 DEF Owned, Shared
<1>7. Adds(w)'
  <2>1. \A lock : <<lock>> # <<>> /\ Head(<<lock>>) = lock  OBVIOUS
  <2>2. CASE tx'[w].step = "parent" /\ tx'[w].wants = <<parent>>
    BY <1>4, <2>1, <2>2 DEF Adds, Awaits, Widened
  <2>3. CASE tx'[w].step = "address" /\ tx'[w].wants = <<network>>
    BY <1>4, <2>1, <2>3 DEF Adds, Awaits, Widened
  <2>4. QED  BY <1>5, <2>2, <2>3
<1>8. Shares(w)'  BY <1>6, <1>7 DEF Shares
<1>9. QED  BY <1>5, <1>8, SharedStep

--------------------------------------------------------------------------------
(***************************************************************************)
(* The address, the parent and the service.                                *)
(***************************************************************************)

\* Quick add inserts its address, or finds it.
LEMMA SharedAddress ==
    ASSUME EstateInv, TypesInv, FateInv, SharedInv, NEW w \in Worker, Apart, _new_ip_address(w)
    PROVE  SharedInv'
<1>0. jobs' = jobs /\ db' = db  BY DEF Apart
<1> DEFINE parent == Parent(Job(w).parent)
           network == AddressCreation(Job(w).cidr)
           new == {[cidr |-> Job(w).cidr]}
           row == Address(Job(w).address)
           rows == IF Same(w) # {} THEN NoRows ELSE Only(row, new)
<1>1. tx[w].step = "address" /\ tx[w].wants = <<>>  BY DEF _new_ip_address, At
<1>2. Has(w, "quickadd") /\ Adds(w) /\ ShapeInv /\ DOMAIN tx[w].own = {}  BY <1>1, SharedRows
<1>3. network \in tx[w].held  BY <1>1, <1>2 DEF Adds, Awaits
<1>4. Same(w) = {i \in Stored("address") : The(db[i]).cidr = Job(w).cidr /\ i \notin Job(w).hidden}
  <2>1. \A i : Seen(w, i) = db[i]  BY <1>2 DEF Seen
  <2>2. QED  BY <2>1 DEF Same, Table, Stored
<1>5. \/ tx' = RolledBack(w, "failed")
      \/ tx' = Write(w, rows, <<>>, "parent", <<parent>>)
  BY Zenon DEF _new_ip_address
<1>6. CASE tx' = RolledBack(w, "failed")
  <2>1. "failed" \notin {"address"} \cup Adding  BY DEF Adding, Widened
  <2>2. QED  BY <1>6, <2>1, SharedDrop
<1>7. CASE tx' = Write(w, rows, <<>>, "parent", <<parent>>)
  <2>1. /\ Others(w) /\ tx'[w].step = "parent" /\ tx'[w].own = Over(rows, tx[w].own)
        /\ tx'[w].held = tx[w].held /\ tx'[w].wants = <<parent>>
    <3> HIDE DEF rows, parent
    <3>1. QED  BY ONLY <1>2, <1>7, w \in Worker, WriteFields
  <2>2. /\ DOMAIN tx'[w].own = DOMAIN rows
        /\ \A x \in DOMAIN rows : tx'[w].own[x] = rows[x]
    <3> HIDE DEF rows
    <3>1. QED  BY <1>2, <2>1 DEF Over
  <2>3. \A x \in DOMAIN rows : x = row /\ rows[x] = new /\ Same(w) = {}  BY DEF NoRows, Only
  <2>4. row[1] = "address"  BY DEF Address
  <2>5. Job(w)' = Job(w) /\ Has(w, "quickadd")'  BY <1>0, <1>2 DEF Job, Has
  <2>6. Adds(w)'
    <3>1. <<parent>> # <<>> /\ Head(<<parent>>) = parent  OBVIOUS
    <3>2. Awaits(w, Parent(Job(w).parent))'  BY <2>1, <2>5, <3>1 DEF Awaits, Parent
    <3>3. QED  BY <2>1, <3>2 DEF Adds, Widened
  <2> HIDE DEF rows
  <2>7. \A x \in Owned(w)' : x = row /\ tx'[w].own[x] = new /\ Same(w) = {}
    BY <2>2, <2>3 DEF Owned
  <2>8. ASSUME NEW x \in Owned(w)' PROVE AddressOwn(w, x)'
    <3>1. AddressCreation(Job(w).cidr)' \in tx'[w].held  BY <1>3, <2>1, <2>5 DEF AddressCreation
    <3>2. tx'[w].own[x] = {[cidr |-> Job(w).cidr]}'  BY <2>5, <2>7
    <3>3. \A i \in Stored("address") : The(db[i]).cidr = Job(w).cidr => i \in Job(w).hidden
      BY <1>4, <2>7
    <3>4. \A other \in Owned(w)' : other = x  BY <2>7
    <3>5. Stored("address")' = Stored("address") /\ \A i : The(db[i])' = The(db[i])
      BY <1>0 DEF Stored, The
    <3>6. QED  BY <2>5, <3>1, <3>2, <3>3, <3>4, <3>5 DEF AddressOwn
  <2>9. Shares(w)'
    <3>1. tx'[w].step \in Adding  BY <2>1 DEF Adding
    <3>2. \A x \in Owned(w)' : x[1] = "address"  BY <2>4, <2>7
    <3>3. QED  BY <2>5, <2>6, <2>8, <3>1, <3>2 DEF Shares
  <2>10. QED  BY <2>1, <2>9, SharedStep
<1>8. QED  BY <1>5, <1>6, <1>7

\* The parent is locked before its service.
LEMMA SharedLock ==
    ASSUME EstateInv, TypesInv, FateInv, SharedInv, NEW w \in Worker, Apart, LockService(w)
    PROVE  SharedInv'
<1>0. jobs' = jobs /\ db' = db  BY DEF Apart
<1>1. tx[w].step = "parent" /\ tx[w].wants = <<>>  BY DEF LockService, At
<1>2. /\ Has(w, "quickadd") /\ Adds(w) /\ Shares(w) /\ ShapeInv
      /\ \A row \in DOMAIN tx[w].own : row[1] = "address"
  BY <1>1, SharedRows
<1>3. Parent(Job(w).parent) \in tx[w].held  BY <1>1, <1>2 DEF Adds, Awaits
<1>4. PICK l : tx' = Goto(w, "service", l)  BY Zenon DEF LockService
<1>5. /\ Others(w) /\ tx'[w].step = "service" /\ tx'[w].own = tx[w].own
      /\ tx'[w].held = tx[w].held
  BY <1>2, <1>4, GotoFields
<1>6. Job(w)' = Job(w) /\ Has(w, "quickadd")'  BY <1>0, <1>2 DEF Job, Has
<1>7. Owned(w)' = Owned(w)  BY <1>5 DEF Owned, Shared
<1>8. Adds(w)'
  <2>1. Parent(Job(w).parent)' = Parent(Job(w).parent)  BY <1>6 DEF Parent
  <2>2. QED  BY <1>3, <1>5, <2>1 DEF Adds, Widened
<1>9. ASSUME NEW row \in Owned(w) PROVE row[1] = "address" /\ AddressOwn(w, row)'
  <2>1. row[1] = "address" /\ AddressOwn(w, row)  BY <1>2 DEF Owned, Shares
  <2>2. QED  BY <1>0, <1>5, <1>6, <1>7, <2>1 DEF AddressOwn, AddressCreation, Stored, The
<1>10. tx'[w].step \in Adding  BY <1>5 DEF Adding
<1>11. Shares(w)'
  <2>1. \A row \in Owned(w)' : row[1] = "address" /\ AddressOwn(w, row)'  BY <1>7, <1>9
  <2>2. QED  BY <1>6, <1>8, <1>10, <2>1 DEF Shares
<1>12. QED  BY <1>5, <1>11, SharedStep

\* The service quick add would insert is of no row yet.
LEMMA NewService ==
    ASSUME EstateInv, TypesInv, FateInv, NEW w \in Worker, tx[w].step = "service"
    PROVE  Service(Job(w).service) \in Drawn /\ db[Service(Job(w).service)] = {}
<1> DEFINE row == Service(Job(w).service)
<1>1. Has(w, "quickadd")
  <2>1. Kinds(w, tx[w].step)  BY TypedBase
  <2>2. QED  BY <2>1 DEF Kinds
<1>2. jobs[w] # <<>> /\ Job(w).kind = "quickadd" /\ ~Has(w, "import")  BY <1>1 DEF Has
<1>3. Request(Job(w), db) /\ 1 \in DOMAIN jobs[w] /\ Job(w) = jobs[w][1]  BY <1>2, JobTyped
<1>4. row \in Drawn  BY <1>2, <1>3 DEF Request, Drawn
<1>5. Position(w) = 1 /\ Places(Job(w)) = {1}  BY <1>2 DEF Position, Places
<1>6. Inserts(Job(w), 1, row)  BY <1>2 DEF Inserts
<1>7. tx[w].step \notin Past  BY DEF Past
<1>8. Draft(w, row)  BY <1>3, <1>5, <1>6, <1>7 DEF Draft
<1>9. QED  BY <1>4, <1>8 DEF FateInv, DraftsOK

\* What quick add makes of its service.
LEMMA WidenedService ==
    ASSUME EstateInv, TypesInv, FateInv, SharedInv, NEW w \in Worker, _get_or_create_service(w)
    PROVE  /\ tx[w].step = "service"
           /\ \/ tx' = RolledBack(w, "failed")
              \/ \E row, n, l : \E s \in {"assign", "prefix"} :
                    /\ tx' = Write(w, Only(row, {n}), <<>>, s, l)
                    /\ row[1] = "service" /\ row \in DOMAIN db
                    /\ Named(n) = Named(Job(w)) /\ Job(w).port \in n.ports
                    /\ \A t \in Stored("service") : Named(The(db[t])) = Named(n) =>
                          t = row /\ The(db[t]).ports \subseteq n.ports
                    /\ db[row] # {} => Named(The(db[row])) = Named(Job(w))
<1> DEFINE services == ServicesOf(w)
           row == IF services = {} THEN Service(Job(w).service) ELSE CHOOSE s \in services : TRUE
           old == IF services = {} THEN [ports |-> {}, addresses |-> {}] ELSE The(Seen(w, row))
           ports == old.ports \cup {Job(w).port}
           made(a) == [parent |-> Job(w).parent, name |-> Job(w).name, ports |-> ports,
                       addresses |-> a]
<1>1. tx[w].step = "service"  BY DEF _get_or_create_service, At
<1>2. /\ services = {s \in Stored("service") : Named(The(db[s])) = Named(Job(w))}
      /\ \A x \in DOMAIN tx[w].own : x[1] = "address"
  BY <1>1, SharedRows
<1>3. \/ tx' = RolledBack(w, "failed")
      \/ \E a, l : \E s \in {"assign", "prefix"} :
            tx' = Write(w, Only(row, {made(a)}), <<>>, s, l)
  BY Zenon DEF _get_or_create_service
<1>4. \A a : Named(made(a)) = Named(Job(w)) /\ made(a).ports = ports  BY DEF Named
<1>5. /\ row[1] = "service" /\ row \in DOMAIN db
      /\ \A t \in Stored("service") : Named(The(db[t])) = Named(Job(w)) =>
            t = row /\ The(db[t]).ports \subseteq ports
      /\ db[row] # {} => Named(The(db[row])) = Named(Job(w))
  <2>1. CASE services = {}
    <3>1. row \in Drawn /\ db[row] = {}  BY <1>1, <2>1, NewService
    <3>2. row[1] = "service"  BY <2>1 DEF Service
    <3>3. row \in DOMAIN db  BY <3>1 DEF TypesInv
    <3> HIDE DEF row, ports
    <3>4. QED  BY <1>2, <2>1, <3>1, <3>2, <3>3
  <2>2. CASE services # {}
    <3>1. row \in services  BY <2>2
    <3>2. old = The(Seen(w, row))  BY <2>2
    <3> HIDE DEF services, row, old
    <3>3. row \in Stored("service") /\ Named(The(db[row])) = Named(Job(w))  BY <1>2, <3>1
    <3>4. row \in DOMAIN db /\ row[1] = "service"  BY <3>3 DEF Stored
    <3>5. Seen(w, row) = db[row]  BY <1>2, <3>4 DEF Seen
    <3>6. The(db[row]).ports \subseteq ports  BY <3>2, <3>5
    <3>7. \A t \in Stored("service") : Named(The(db[t])) = Named(Job(w)) => t = row
      <4>1. ServiceShared  BY DEF SharedInv
      <4>2. QED  BY <3>3, <4>1 DEF ServiceShared
    <3> HIDE DEF ports
    <3>8. QED  BY <3>3, <3>4, <3>6, <3>7
  <2>3. QED  BY <2>1, <2>2
<1>6. Job(w).port \in ports  OBVIOUS
<1> HIDE DEF row, ports, made
<1>7. ASSUME NEW a, NEW l, NEW s \in {"assign", "prefix"},
             tx' = Write(w, Only(row, {made(a)}), <<>>, s, l)
      PROVE  \E r, n, k : \E z \in {"assign", "prefix"} :
                    /\ tx' = Write(w, Only(r, {n}), <<>>, z, k)
                    /\ r[1] = "service" /\ r \in DOMAIN db
                    /\ Named(n) = Named(Job(w)) /\ Job(w).port \in n.ports
                    /\ \A t \in Stored("service") : Named(The(db[t])) = Named(n) =>
                          t = r /\ The(db[t]).ports \subseteq n.ports
                    /\ db[r] # {} => Named(The(db[r])) = Named(Job(w))
  <2> DEFINE n == made(a)
  <2>1. Named(n) = Named(Job(w)) /\ n.ports = ports  BY <1>4
  <2>2. tx' = Write(w, Only(row, {n}), <<>>, s, l)  BY <1>7
  <2> HIDE DEF n
  <2>3. /\ Job(w).port \in n.ports
        /\ \A t \in Stored("service") : Named(The(db[t])) = Named(n) =>
              t = row /\ The(db[t]).ports \subseteq n.ports
    BY <1>5, <1>6, <2>1
  <2>4. QED  BY <1>5, <2>1, <2>2, <2>3
<1>8. QED  BY <1>1, <1>3, <1>7

\* Quick add writes its service.
LEMMA SharedService ==
    ASSUME EstateInv, TypesInv, FateInv, SharedInv, NEW w \in Worker, Apart,
           _get_or_create_service(w)
    PROVE  SharedInv'
<1>0. jobs' = jobs /\ db' = db  BY DEF Apart
<1>1. tx[w].step = "service"  BY WidenedService
<1>2. /\ Has(w, "quickadd") /\ Adds(w) /\ Shares(w) /\ ShapeInv
      /\ \A row \in DOMAIN tx[w].own : row[1] = "address"
  BY <1>1, SharedRows
<1>3. CASE tx' = RolledBack(w, "failed")
  <2>1. "failed" \notin {"address"} \cup Adding  BY DEF Adding, Widened
  <2>2. QED  BY <1>3, <2>1, SharedDrop
<1>4. CASE tx' # RolledBack(w, "failed")
  <2>1. PICK row, n, l : \E s \in {"assign", "prefix"} :
                /\ tx' = Write(w, Only(row, {n}), <<>>, s, l)
                /\ row[1] = "service" /\ row \in DOMAIN db
                /\ Named(n) = Named(Job(w)) /\ Job(w).port \in n.ports
                /\ \A t \in Stored("service") : Named(The(db[t])) = Named(n) =>
                      t = row /\ The(db[t]).ports \subseteq n.ports
                /\ db[row] # {} => Named(The(db[row])) = Named(Job(w))
    BY <1>4, WidenedService
  <2>2. PICK s \in {"assign", "prefix"} : tx' = Write(w, Only(row, {n}), <<>>, s, l)  BY <2>1
  <2> DEFINE rows == Only(row, {n})
  <2>3. DOMAIN rows = {row} /\ rows[row] = {n}  BY DEF Only
  <2>4. tx' = Write(w, rows, <<>>, s, l)  BY <2>2
  <2> HIDE DEF rows
  <2>5. /\ Others(w) /\ tx'[w].step = s /\ tx'[w].own = Over(rows, tx[w].own)
        /\ tx'[w].held = tx[w].held
    BY ONLY <1>2, <2>4, w \in Worker, WriteFields
  <2>6. /\ DOMAIN tx'[w].own = {row} \cup DOMAIN tx[w].own
        /\ tx'[w].own[row] = {n}
        /\ \A x \in DOMAIN tx[w].own : x # row => tx'[w].own[x] = tx[w].own[x]
    BY <2>3, <2>5 DEF Over
  <2>7. Owned(w)' = {row} \cup Owned(w) /\ \A x \in Owned(w) : x[1] = "address"
    BY <1>2, <2>1, <2>6 DEF Owned, Shared
  <2>8. Job(w)' = Job(w) /\ Has(w, "quickadd")'  BY <1>0, <1>2 DEF Job, Has
  <2>9. tx'[w].step \in Widened /\ tx'[w].step \in Adding  BY <2>5 DEF Widened, Adding
  <2>10. Adds(w)'
    <3>1. Parent(Job(w).parent) \in tx'[w].held  BY <1>1, <1>2, <2>5 DEF Adds
    <3>2. Parent(Job(w).parent)' = Parent(Job(w).parent)  BY <2>8 DEF Parent
    <3>3. tx'[w].step \notin {"address", "parent"}  BY <2>9 DEF Widened
    <3>4. \E x \in Owned(w)' : x[1] = "service"  BY <2>1, <2>7
    <3>5. QED  BY <3>1, <3>2, <3>3, <3>4 DEF Adds
  <2>11. ASSUME NEW x \in Owned(w) PROVE AddressOwn(w, x)'
    <3>1. x[1] = "address" /\ AddressOwn(w, x) /\ x \in DOMAIN tx[w].own
      BY <1>2, <2>7 DEF Shares, Owned
    <3>2. x # row /\ tx'[w].own[x] = tx[w].own[x]  BY <2>1, <2>6, <3>1
    <3>3. \A other \in Owned(w)' : other[1] = "address" => other \in Owned(w)  BY <2>1, <2>7
    <3>4. QED
      BY <1>0, <2>5, <2>8, <3>1, <3>2, <3>3 DEF AddressOwn, AddressCreation, Stored, The
  <2>12. ServiceOwn(w, row)'
    <3>1. \A other \in Owned(w)' : other[1] = "service" => other = row  BY <2>7
    <3>2. /\ Stored("service")' = Stored("service")
          /\ db' = db /\ \A x : The(db[x])' = The(db[x]) /\ Named(The(db[x]))' = Named(The(db[x]))
      BY <1>0 DEF Stored, The, Named
    <3>3. \E m \in tx'[w].own[row] :
            /\ tx'[w].own[row] = {m} /\ Named(m) = Named(Job(w)') /\ Job(w)'.port \in m.ports
            /\ \A t \in Stored("service") : Named(The(db[t])) = Named(m) =>
                  t = row /\ The(db[t]).ports \subseteq m.ports
      BY <2>1, <2>6, <2>8
    <3>4. db[row] # {} => Named(The(db[row])) = Named(Job(w)')  BY <2>1, <2>8
    <3>5. QED  BY <2>1, <2>9, <3>1, <3>2, <3>3, <3>4 DEF ServiceOwn
  <2>13. Shares(w)'
    <3>1. ASSUME NEW x \in Owned(w)'
          PROVE  /\ x[1] # "parent" /\ (x[1] = "address" => AddressOwn(w, x)')
                 /\ (x[1] = "service" => ServiceOwn(w, x)')
      <4>1. CASE x = row  BY <2>1, <2>12, <4>1
      <4>2. CASE x \in Owned(w)  BY <2>7, <2>11, <4>2
      <4>3. QED  BY <2>7, <3>1, <4>1, <4>2
    <3>2. QED  BY <2>8, <2>9, <2>10, <3>1 DEF Shares
  <2>14. QED  BY <2>5, <2>13, SharedStep
<1>5. QED  BY <1>3, <1>4

\* The graph, and all that quick add does to it.
LEMMA SharedGraph ==
    ASSUME EstateInv, TypesInv, FateInv, SharedInv, NEW w \in Worker, GraphWork(w)
    PROVE  SharedInv'
<1>1. UNCHANGED <<jobs, db>>  BY GraphReads
<1>2. asked' = asked
  BY DEF GraphWork, Create, Stamp, Assign, _assign, Reassign, capture_previous_credential, Rebind,
     Unassign, DeleteAssignment, Delete, Clear, destroy_material_on_delete, _lock_metadata,
     _publish_custom_metadata, Project, set_metadata, delete_material, Respond, quick_add_ssh,
     _new_ip_address, LockService, _get_or_create_service, import_secrets, ImportSecret, NextSecret,
     Imported, Quiet, graphVars
<1>3. Apart  BY <1>1, <1>2 DEF Apart
<1>4. QED
  BY <1>3, SharedOthers, SharedPublish, SharedStamp, SharedAssign, SharedQuick, SharedAddress,
     SharedLock, SharedService DEF GraphWork

\* A request that waits for the address lock or for its parent gets it.
LEMMA SharedGrant ==
    ASSUME EstateInv, TypesInv, FateInv, SharedInv, NEW w \in Worker, Grant(w), asked' = asked
    PROVE  SharedInv'
<1>1. Apart /\ jobs' = jobs /\ tx[w].wants # <<>> /\ ShapeInv  BY DEF Grant, Apart, EstateInv
<1>2. PICK lock, locked : /\ lock = Head(tx[w].wants) /\ tx' = Grants(w, locked)
                          /\ locked = IF Found(w, lock) THEN {lock} ELSE {}
  BY Zenon DEF Grant, Grants
<1>3. /\ Others(w) /\ tx'[w].step = tx[w].step /\ tx'[w].own = tx[w].own
      /\ tx'[w].held = tx[w].held \cup locked
  BY <1>1, <1>2, GrantFields
<1>4. ASSUME NEW mine, Awaits(w, mine), Found(w, mine) PROVE mine \in tx'[w].held
  BY <1>2, <1>3, <1>4 DEF Awaits
<1>5. ASSUME Has(w, "quickadd"), tx[w].step = "address" PROVE Awaits(w, AddressCreation(Job(w).cidr))'
  <2> DEFINE network == AddressCreation(Job(w).cidr)
  <2>1. Awaits(w, network)  BY <1>5, SharedRows DEF Adds
  <2>2. Found(w, network)  BY DEF EstateInv, RowsOK, AddressCreation, Found
  <2>3. network' = network  BY <1>1 DEF Job, AddressCreation
  <2> HIDE DEF network
  <2>4. network \in tx'[w].held  BY <1>4, <2>1, <2>2
  <2>5. Awaits(w, network)'  BY <2>3, <2>4 DEF Awaits
  <2>6. QED  BY <2>5 DEF network
<1>6. ASSUME Has(w, "quickadd"), tx[w].step = "parent" PROVE Awaits(w, Parent(Job(w).parent))'
  <2> DEFINE parent == Parent(Job(w).parent)
  <2>1. Awaits(w, parent) /\ \A row \in DOMAIN tx[w].own : row[1] = "address"
    BY <1>6, SharedRows DEF Adds
  <2>2. db[parent] # {}
    <3>1. jobs[w] # <<>> /\ Job(w).kind = "quickadd"  BY <1>6 DEF Has
    <3>2. 1 \in DOMAIN jobs[w] /\ Job(w) = jobs[w][1]  BY <3>1, JobTyped
    <3>3. QED  BY <3>1, <3>2 DEF SharedInv, Hosted
  <2>3. Seen(w, parent) = db[parent]  BY <2>1 DEF Seen, Parent
  <2>4. Found(w, parent)  BY <2>2, <2>3 DEF Found
  <2>5. parent' = parent  BY <1>1 DEF Job, Parent
  <2> HIDE DEF parent
  <2>6. parent \in tx'[w].held  BY <1>4, <2>1, <2>4
  <2>7. Awaits(w, parent)'  BY <2>5, <2>6 DEF Awaits
  <2>8. QED  BY <2>7 DEF parent
<1>7. QED  BY <1>1, <1>3, <1>5, <1>6, SharedOn

\* A request ends, and the next one has shared nothing yet.
LEMMA SharedEnd ==
    ASSUME EstateInv, TypesInv, SharedInv, NEW w \in Worker, jobs[w] # <<>>, EndRequest(w),
           asked' = asked
    PROVE  SharedInv'
<1>1. tx' = Idles(w) /\ jobs' = [jobs EXCEPT ![w] = Tail(@)] /\ db' = db
  BY DEF EndRequest, Finish, Idles
<1>2. ShapeInv /\ DOMAIN jobs = Worker  BY DEF EstateInv, ShapeInv
<1>3. Others(w) /\ tx'[w].step = "idle" /\ tx'[w].own = NoRows  BY <1>1, <1>2, IdleFields
<1>4. jobs'[w] = Tail(jobs[w]) /\ \A v \in Worker \ {w} : jobs'[v] = jobs[v]  BY <1>1, <1>2
<1>5. Shares(w)'
  <2>1. Owned(w)' = {}  BY <1>3 DEF Owned, NoRows
  <2>2. Adds(w)'  BY <1>3 DEF Adds, Widened
  <2>3. QED  BY <2>1, <2>2 DEF Shares
<1>6. ASSUME NEW v \in Worker, v # w PROVE Shares(v)'
  <2>1. tx'[v] = tx[v] /\ jobs'[v] = jobs[v] /\ Shares(v)
    BY <1>3, <1>4, <1>6 DEF Others, SharedInv
  <2>2. QED  BY <1>1, <2>1, SharesStay
<1>7. \A i \in DOMAIN jobs'[w] : i + 1 \in DOMAIN jobs[w] /\ jobs'[w][i] = jobs[w][i + 1]
  <2>1. jobs[w] \in Seq(Range(jobs[w]))  BY DEF TypesInv, JobsTyped
  <2> DEFINE S == Range(jobs[w])
  <2> HIDE DEF S
  <2>2. jobs[w] \in Seq(S)  BY <2>1 DEF S
  <2>3. QED  BY <1>4, <2>2, TailSeq
<1>8. Hosted'
  <2>1. Hosted  BY DEF SharedInv
  <2>2. ASSUME NEW v \in Worker, NEW i \in DOMAIN jobs'[v], jobs'[v][i].kind = "quickadd"
        PROVE  db[Parent(jobs'[v][i].parent)] # {}
    <3>1. CASE v = w  BY <1>7, <2>1, <2>2, <3>1 DEF Hosted
    <3>2. CASE v # w  BY <1>4, <2>1, <2>2, <3>2 DEF Hosted
    <3>3. QED  BY <3>1, <3>2
  <2>3. QED  BY <1>1, <2>2 DEF Hosted, Parent
<1>9. ServiceShared' /\ Promised'
  <2>1. ServiceShared /\ Promised  BY DEF SharedInv
  <2>2. asked' = asked  OBVIOUS
  <2>3. QED  BY ONLY <1>1, <2>1, <2>2 DEF ServiceShared, Promised, Stored, The, Named
<1>10. QED  BY <1>5, <1>6, <1>8, <1>9 DEF SharedInv

\* A transaction is cancelled, refused, or dies with its worker.
LEMMA SharedLost ==
    ASSUME EstateInv, SharedInv, NEW w \in Worker, Victim(w) \/ Refuse(w) \/ Crash(w),
           asked' = asked
    PROVE  SharedInv'
<1>1. Apart  BY DEF Victim, Refuse, Crash, Apart
<1>2. tx' = RolledBack(w, "failed") \/ tx' = Resets(w, "dead")
  BY Zenon DEF Victim, Refuse, Crash, Resets
<1>3. "failed" \notin {"address"} \cup Adding /\ "dead" \notin {"address"} \cup Adding
  BY DEF Adding, Widened
<1>4. QED  BY <1>1, <1>2, <1>3, SharedDrop

\* A step elsewhere.
LEMMA SharedStutter ==
    ASSUME SharedInv, UNCHANGED <<jobs, db, tx, asked>>
    PROVE  SharedInv'
<1>1. ASSUME NEW v \in Worker PROVE Shares(v)'
  <2>1. tx'[v] = tx[v] /\ jobs'[v] = jobs[v] /\ db' = db /\ Shares(v)  BY DEF SharedInv
  <2>2. QED  BY <2>1, SharesStay
<1>2. ServiceShared' /\ Promised' /\ Hosted'
  <2>1. ServiceShared /\ Promised /\ Hosted  BY DEF SharedInv
  <2>2. db' = db /\ jobs' = jobs /\ asked' = asked  OBVIOUS
  <2>3. QED  BY ONLY <2>1, <2>2 DEF ServiceShared, Promised, Hosted, Stored, The, Named, Parent
<1>3. QED  BY <1>1, <1>2 DEF SharedInv

--------------------------------------------------------------------------------
(***************************************************************************)
(* Commits of a shared service.                                            *)
(***************************************************************************)

\* What a commit puts in the shared tables: what the request owns there.
LEMMA SharedTables ==
    ASSUME NEW w \in Worker, db' = Over(tx[w].own, db)
    PROVE  /\ DOMAIN db \subseteq DOMAIN db'
           /\ \A row \in Owned(w) : row \in DOMAIN db' /\ db'[row] = tx[w].own[row]
           /\ \A row : row[1] \in Shared /\ row \notin Owned(w) =>
                (row \in DOMAIN db' <=> row \in DOMAIN db) /\ (row \in DOMAIN db => db'[row] = db[row])
           /\ \A table \in Shared : \A row \in Stored(table)' :
                row \in Owned(w) \/ (row \in Stored(table) /\ db'[row] = db[row])
<1>1. /\ DOMAIN db' = DOMAIN tx[w].own \cup DOMAIN db
      /\ \A row \in DOMAIN tx[w].own : db'[row] = tx[w].own[row]
      /\ \A row \in DOMAIN db : row \notin DOMAIN tx[w].own => db'[row] = db[row]
  BY DEF Over
<1>2. QED  BY ONLY <1>1 DEF Owned, Stored

\* One record is the only one.
LEMMA Single ==
    ASSUME NEW n PROVE The({n}) = n
BY DEF The

\* Two requests have not locked one row.
LEMMA NotBoth ==
    ASSUME EstateInv, NEW v \in Worker, NEW w \in Worker, v # w, NEW lock,
           lock \in tx[v].held, lock \in tx[w].held
    PROVE  FALSE
BY DEF EstateInv, LockInv

\* A request that owns a service has locked its parent.
LEMMA OwnedService ==
    ASSUME SharedInv, NEW w \in Worker, NEW row \in Owned(w), row[1] = "service"
    PROVE  /\ Has(w, "quickadd") /\ ServiceOwn(w, row)
           /\ Parent(Job(w).parent) \in tx[w].held
<1>1. Shares(w)  BY DEF SharedInv
<1>2. Has(w, "quickadd") /\ ServiceOwn(w, row)  BY <1>1 DEF Shares
<1>3. tx[w].step \in Widened  BY <1>2 DEF ServiceOwn
<1>4. QED  BY <1>1, <1>2, <1>3 DEF Shares, Adds

\* No two requests insert one service.
LEMMA OneInsert ==
    ASSUME TypesInv, FateInv, NEW v \in Worker, NEW w \in Worker, NEW row, row[1] = "service",
           row \in Owned(v), row \in Owned(w), tx[v].own[row] # {}, tx[w].own[row] # {},
           db[row] = {}
    PROVE  v = w
<1>1. ASSUME NEW u \in Worker, row \in Owned(u), tx[u].own[row] # {}
      PROVE  /\ row \in Drawn /\ 1 \in DOMAIN jobs[u]
             /\ \E k \in Places(jobs[u][1]) : Inserts(jobs[u][1], k, row)
  <2>1. RowsTyped(tx[u].own) /\ row \in DOMAIN tx[u].own  BY <1>1 DEF TypesInv, ConnTyped, Owned
  <2>2. row \in Drawn  BY <2>1 DEF RowsTyped, RowTyped
  <2>3. Inserting(u)  BY DEF FateInv, Fated
  <2>4. Placed(u, row)  BY <1>1, <2>1, <2>2, <2>3 DEF Inserting
  <2>5. /\ jobs[u] # <<>> /\ Position(u) \in Places(Job(u)) /\ Inserts(Job(u), Position(u), row)
    BY <2>4 DEF Placed
  <2>6. 1 \in DOMAIN jobs[u] /\ Job(u) = jobs[u][1]  BY <2>5, JobTyped
  <2>7. QED  BY <2>2, <2>5, <2>6
<1>2. PICK k \in Places(jobs[v][1]) : Inserts(jobs[v][1], k, row)  BY <1>1
<1>3. PICK l \in Places(jobs[w][1]) : Inserts(jobs[w][1], l, row)  BY <1>1
<1>4. row \in Drawn /\ 1 \in DOMAIN jobs[v] /\ 1 \in DOMAIN jobs[w]  BY <1>1
<1>5. DrawnOnce(jobs)  BY DEF FateInv
<1>6. QED  BY ONLY v \in Worker, w \in Worker, <1>2, <1>3, <1>4, <1>5, OneDraft

\* What another request owns stays the only one when a commit writes what this one owns.
LEMMA SharesBeside ==
    ASSUME EstateInv, TypesInv, FateInv, SharedInv, NEW w \in Worker, NEW v \in Worker, v # w,
           tx'[v] = tx[v], jobs' = jobs, db' = Over(tx[w].own, db)
    PROVE  Shares(v)'
<1>1. Shares(v) /\ Shares(w)  BY DEF SharedInv
<1>2. Owned(v)' = Owned(v) /\ Job(v)' = Job(v) /\ (Has(v, "quickadd")' <=> Has(v, "quickadd"))
  BY DEF Owned, Shared, Job, Has
<1>3. Adds(v) => Adds(v)'
  BY <1>2 DEF Adds, Awaits, Parent, AddressCreation, Widened
<1>4. ASSUME NEW row \in Owned(v), row[1] = "address" PROVE AddressOwn(v, row)'
  <2>1. AddressOwn(v, row)  BY <1>1, <1>4 DEF Shares
  <2>2. ASSUME NEW i \in Owned(w), i[1] = "address"
        PROVE  tx[w].own[i] = {[cidr |-> Job(w).cidr]} /\ Job(w).cidr # Job(v).cidr
    <3>1. AddressOwn(w, i)  BY <1>1, <2>2 DEF Shares
    <3>2. QED  BY <2>1, <3>1, NotBoth DEF AddressOwn
  <2>3. ASSUME NEW i \in Stored("address")', The(db'[i]).cidr = Job(v).cidr
        PROVE  i \in Stored("address") /\ db'[i] = db[i]
    <3>1. "address" \in Shared /\ i[1] = "address"  BY DEF Shared, Stored
    <3>2. CASE i \in Owned(w)
      <4>1. db'[i] = {[cidr |-> Job(w).cidr]}  BY <2>2, <3>1, <3>2, SharedTables
      <4>2. The(db'[i]) = [cidr |-> Job(w).cidr]  BY <4>1, Single
      <4>3. QED  BY <2>2, <2>3, <3>1, <3>2, <4>2
    <3>3. CASE i \notin Owned(w)  BY <3>1, <3>3, SharedTables
    <3>4. QED  BY <3>2, <3>3
  <2>4. \A i : The(db[i])' = The(db'[i])  BY DEF The
  <2>5. \A i \in Stored("address")' : The(db[i])'.cidr = Job(v).cidr => i \in Job(v).hidden
    BY <2>1, <2>3, <2>4 DEF AddressOwn
  <2>6. QED  BY <1>2, <2>1, <2>5 DEF AddressOwn, AddressCreation
<1>5. ASSUME NEW row \in Owned(v), row[1] = "service" PROVE ServiceOwn(v, row)'
  <2>1. ServiceOwn(v, row) /\ Parent(Job(v).parent) \in tx[v].held  BY <1>5, OwnedService
  <2>2. ASSUME NEW s \in Owned(w), s[1] = "service"
        PROVE  /\ ServiceOwn(w, s) /\ Named(Job(w)) # Named(Job(v))
               /\ Named(The(tx[w].own[s])) = Named(Job(w)) /\ tx[w].own[s] # {}
    <3>1. ServiceOwn(w, s) /\ Parent(Job(w).parent) \in tx[w].held  BY <2>2, OwnedService
    <3>2. Named(Job(w)) # Named(Job(v))  BY <2>1, <3>1, NotBoth DEF Parent, Named
    <3>3. PICK n : tx[w].own[s] = {n} /\ Named(n) = Named(Job(w))  BY <3>1 DEF ServiceOwn
    <3>4. The(tx[w].own[s]) = n  BY <3>3, Single
    <3>5. QED  BY <3>1, <3>2, <3>3, <3>4
  <2>3. PICK n \in tx[v].own[row] :
           /\ tx[v].own[row] = {n} /\ Named(n) = Named(Job(v)) /\ Job(v).port \in n.ports
           /\ \A s \in Stored("service") : Named(The(db[s])) = Named(n) =>
                 s = row /\ The(db[s]).ports \subseteq n.ports
    BY <2>1 DEF ServiceOwn
  <2>4. "service" \in Shared  BY DEF Shared
  <2>5. ASSUME NEW s \in Stored("service")', Named(The(db'[s])) = Named(n)
        PROVE  s = row /\ The(db'[s]).ports \subseteq n.ports
    <3>1. s[1] = "service"  BY DEF Stored
    <3>2. s \notin Owned(w)
      <4>1. SUFFICES ASSUME s \in Owned(w) PROVE FALSE  OBVIOUS
      <4>2. db'[s] = tx[w].own[s]  BY <4>1, SharedTables
      <4>3. QED  BY <2>2, <2>3, <2>5, <3>1, <4>1, <4>2
    <3>3. s \in Stored("service") /\ db'[s] = db[s]  BY <2>4, <3>2, SharedTables
    <3>4. QED  BY <2>3, <2>5, <3>3
  <2>6. row \in DOMAIN db'  BY <2>1, SharedTables DEF ServiceOwn
  <2>7. ASSUME db'[row] # {} PROVE Named(The(db'[row])) = Named(Job(v))
    <3>1. row \in DOMAIN db /\ (db[row] # {} => Named(The(db[row])) = Named(Job(v)))
      BY <2>1 DEF ServiceOwn
    <3>2. CASE row \notin Owned(w)
      <4>1. db'[row] = db[row]  BY <1>5, <2>4, <3>1, <3>2, SharedTables
      <4>2. QED  BY <2>7, <3>1, <4>1
    <3>3. CASE row \in Owned(w)
      <4>1. ServiceOwn(w, row) /\ Named(Job(w)) # Named(Job(v)) /\ tx[w].own[row] # {}
        BY <1>5, <2>2, <3>3
      <4>2. db[row] = {}  BY <3>1, <4>1 DEF ServiceOwn
      <4>3. tx[v].own[row] # {}  BY <2>3
      <4>4. v = w  BY <1>5, <3>3, <4>1, <4>2, <4>3, OneInsert
      <4>5. QED  BY <4>4
    <3>4. QED  BY <3>2, <3>3
  <2>8. \E m \in tx'[v].own[row] :
           /\ tx'[v].own[row] = {m} /\ Named(m) = Named(Job(v)') /\ Job(v)'.port \in m.ports
           /\ \A s \in Stored("service")' : Named(The(db'[s])) = Named(m) =>
                 s = row /\ The(db'[s]).ports \subseteq m.ports
    BY <1>2, <2>3, <2>5
  <2>9. \A x : The(db[x])' = The(db'[x]) /\ Named(The(db[x]))' = Named(The(db'[x]))
    BY DEF The, Named
  <2>10. /\ tx'[v].step \in Widened
         /\ \A other \in Owned(v)' : other[1] = "service" => other = row
    BY <1>2, <2>1 DEF ServiceOwn
  <2>11. db'[row] # {} => Named(The(db'[row])) = Named(Job(v)')  BY <1>2, <2>7
  <2>12. QED  BY <2>6, <2>8, <2>9, <2>10, <2>11 DEF ServiceOwn, Widened
<1>6. QED  BY <1>1, <1>2, <1>3, <1>4, <1>5 DEF Shares, Adding, Widened

\* What the services are after a commit: the request's own, and those it leaves alone.
LEMMA ServicesAfter ==
    ASSUME SharedInv, NEW w \in Worker, db' = Over(tx[w].own, db), NEW s \in Stored("service")'
    PROVE  \/ s \notin Owned(w) /\ s \in Stored("service") /\ The(db'[s]) = The(db[s])
           \/ /\ s \in Owned(w) /\ s[1] = "service" /\ Named(The(db'[s])) = Named(Job(w))
              /\ Job(w).port \in The(db'[s]).ports
              /\ \A t \in Stored("service") : Named(The(db[t])) = Named(Job(w)) =>
                    t = s /\ The(db[t]).ports \subseteq The(db'[s]).ports
              /\ \A t \in Owned(w) : t[1] = "service" => t = s
<1>1. "service" \in Shared /\ s[1] = "service"  BY DEF Shared, Stored
<1>2. CASE s \notin Owned(w)
  <2>1. s \in Stored("service") /\ db'[s] = db[s]  BY <1>1, <1>2, SharedTables
  <2>2. QED  BY <1>2, <2>1
<1>3. CASE s \in Owned(w)
  <2>1. ServiceOwn(w, s)  BY <1>1, <1>3, OwnedService
  <2>2. PICK n \in tx[w].own[s] :
           /\ tx[w].own[s] = {n} /\ Named(n) = Named(Job(w)) /\ Job(w).port \in n.ports
           /\ \A t \in Stored("service") : Named(The(db[t])) = Named(n) =>
                 t = s /\ The(db[t]).ports \subseteq n.ports
    BY <2>1 DEF ServiceOwn
  <2>3. db'[s] = {n}  BY <1>3, <2>2, SharedTables
  <2>4. The(db'[s]) = n  BY <2>3, Single
  <2>5. \A t \in Owned(w) : t[1] = "service" => t = s  BY <2>1 DEF ServiceOwn
  <2>6. QED  BY <1>1, <1>3, <2>2, <2>4, <2>5
<1>4. QED  BY <1>2, <1>3

\* What a committed request asked for is a port of a service, or an imported credential;
\* and it tells of the addresses it could not see.
LEMMA AskedPairs ==
    ASSUME SharedInv, NEW w \in Worker, tx[w].step = "commit", NEW pair \in Asked(w)
    PROVE  \/ pair[1][1] \in {"credential", "address"}
           \/ /\ pair[1] = Named(Job(w)) /\ pair[2] = Job(w).port
              /\ \E s \in Owned(w) : s[1] = "service"
<1>1. CASE Has(w, "quickadd")
  <2>1. pair = <<Named(Job(w)), Job(w).port>> \/ pair \in Unseen(w)  BY <1>1 DEF Asked
  <2>2. Adds(w) /\ tx[w].step \in Widened  BY <1>1 DEF SharedInv, Shares, Widened
  <2>3. pair \in Unseen(w) => pair[1][1] = "address"  BY DEF Unseen
  <2>4. QED  BY <2>1, <2>2, <2>3 DEF Adds
<1>2. CASE ~Has(w, "quickadd")  BY <1>2 DEF Asked, Credential
<1>3. QED  BY <1>1, <1>2

\* A commit puts down one service of a name on a parent, with every port asked of it, and
\* no address beside one its caller may view.
LEMMA SharedCommitted ==
    ASSUME EstateInv, TypesInv, FateInv, SharedInv, NEW w \in Worker, tx[w].step = "commit",
           tx' = Commits(w), db' = Over(tx[w].own, db), jobs' = jobs,
           asked' = asked \cup Asked(w)
    PROVE  SharedInv'
<1>0. ShapeInv /\ ServiceShared /\ Promised /\ Hosted /\ Shares(w)  BY DEF EstateInv, SharedInv
<1>1. Others(w) /\ tx'[w].step = "callbacks" /\ tx'[w].own = NoRows
  BY <1>0, CommittedFields
<1>2. ASSUME NEW v \in Worker PROVE Shares(v)'
  <2>1. CASE v = w
    <3>1. Owned(w)' = {}  BY <1>1 DEF Owned, NoRows
    <3>2. Adds(w)'  BY <1>1 DEF Adds, Widened
    <3>3. QED  BY <2>1, <3>1, <3>2 DEF Shares
  <2>2. CASE v # w
    <3>1. tx'[v] = tx[v]  BY <1>1, <2>2 DEF Others
    <3>2. QED  BY <2>2, <3>1, SharesBeside
  <2>3. QED  BY <2>1, <2>2
<1>3. \A x : The(db[x])' = The(db'[x])  BY DEF The
<1>4. ASSUME NEW s \in Stored("service")', NEW t \in Stored("service")',
             Named(The(db'[s])) = Named(The(db'[t]))
      PROVE  s = t
  <2>1. CASE s \in Owned(w)
    <3>1. CASE t \in Owned(w)  BY <2>1, <3>1, ServicesAfter
    <3>2. CASE t \notin Owned(w)  BY <1>4, <2>1, <3>2, ServicesAfter
    <3>3. QED  BY <3>1, <3>2
  <2>2. CASE s \notin Owned(w)
    <3>1. s \in Stored("service") /\ The(db'[s]) = The(db[s])  BY <2>2, ServicesAfter
    <3>2. CASE t \in Owned(w)  BY <1>4, <3>1, <3>2, ServicesAfter
    <3>3. CASE t \notin Owned(w)
      <4>1. t \in Stored("service") /\ The(db'[t]) = The(db[t])  BY <3>3, ServicesAfter
      <4>2. QED  BY <1>0, <1>4, <3>1, <4>1 DEF ServiceShared
    <3>4. QED  BY <3>2, <3>3
  <2>3. QED  BY <2>1, <2>2
<1>5. ASSUME NEW i \in Stored("address")', NEW j \in Stored("address")',
             The(db'[i]).cidr = The(db'[j]).cidr
      PROVE  i = j \/ <<i, j>> \in asked' \/ <<j, i>> \in asked'
  <2>1. "address" \in Shared /\ i[1] = "address" /\ j[1] = "address"  BY DEF Shared, Stored
  <2>2. ASSUME NEW k \in Stored("address")', k[1] = "address", k \in Owned(w)
        PROVE  /\ AddressOwn(w, k) /\ The(db'[k]).cidr = Job(w).cidr
    <3>1. AddressOwn(w, k)  BY <1>0, <2>2 DEF Shares
    <3>2. db'[k] = {[cidr |-> Job(w).cidr]}  BY <2>2, <3>1, SharedTables DEF AddressOwn
    <3>3. The(db'[k]) = [cidr |-> Job(w).cidr]  BY <3>2, Single
    <3>4. QED  BY <3>1, <3>3
  <2>3. ASSUME NEW k \in Stored("address")', k \notin Owned(w)
        PROVE  k \in Stored("address") /\ The(db'[k]) = The(db[k])
    BY <2>1, <2>3, SharedTables
  <2>4. ASSUME NEW k \in Stored("address")', k \in Owned(w), NEW l \in Stored("address")',
               l \notin Owned(w), k[1] = "address", The(db'[k]).cidr = The(db'[l]).cidr
        PROVE  <<k, l>> \in asked'
    <3>1. AddressOwn(w, k) /\ The(db'[k]).cidr = Job(w).cidr  BY <2>2, <2>4
    <3>2. l \in Stored("address") /\ The(db'[l]) = The(db[l])  BY <2>3, <2>4
    <3>3. l \in Job(w).hidden /\ db[l] # {}  BY <2>4, <3>1, <3>2 DEF AddressOwn, Stored
    <3>4. k \in DOMAIN tx[w].own /\ Has(w, "quickadd")  BY <1>0, <2>4 DEF Owned, Shares
    <3>5. <<k, l>> \in Unseen(w)  BY <2>4, <3>3, <3>4 DEF Unseen
    <3>6. QED  BY <3>4, <3>5 DEF Asked
  <2>5. CASE i \in Owned(w) /\ j \in Owned(w)  BY <2>1, <2>2, <2>5 DEF AddressOwn
  <2>6. CASE i \in Owned(w) /\ j \notin Owned(w)  BY <1>5, <2>1, <2>4, <2>6
  <2>7. CASE i \notin Owned(w) /\ j \in Owned(w)  BY <1>5, <2>1, <2>4, <2>7
  <2>8. CASE i \notin Owned(w) /\ j \notin Owned(w)
    BY <1>0, <1>5, <2>3, <2>8 DEF ServiceShared
  <2>9. QED  BY <2>5, <2>6, <2>7, <2>8
<1>6. ASSUME NEW row \in Owned(w), row[1] = "service"
      PROVE  row \in Stored("service")' /\ Named(The(db'[row])) = Named(Job(w))
  <2>1. ServiceOwn(w, row)  BY <1>6, OwnedService
  <2>2. tx[w].own[row] # {}  BY <2>1 DEF ServiceOwn
  <2>3. row \in Stored("service")'  BY <1>6, <2>2, SharedTables DEF Stored
  <2>4. QED  BY <1>6, <2>3, ServicesAfter
<1>7. ASSUME NEW s \in Stored("service")', NEW pair \in asked',
             pair[1] = Named(The(db'[s]))
      PROVE  pair[2] \in The(db'[s]).ports
  <2>1. pair[1][1] = "named"  BY <1>7 DEF Named
  <2>2. CASE pair \in asked
    <3>1. PICK t \in Stored("service") : Named(The(db[t])) = pair[1]
      BY <1>0, <2>1, <2>2 DEF Promised
    <3>2. Named(The(db[t])) = Named(The(db'[s]))  BY <1>7, <3>1
    <3>3. pair[2] \in The(db[t]).ports  BY <1>0, <2>2, <3>1 DEF ServiceShared
    <3>4. CASE s \in Owned(w)  BY <3>2, <3>3, <3>4, ServicesAfter
    <3>5. CASE s \notin Owned(w)
      <4>1. s \in Stored("service") /\ The(db'[s]) = The(db[s])  BY <3>5, ServicesAfter
      <4>2. s = t  BY <1>0, <3>2, <4>1 DEF ServiceShared
      <4>3. QED  BY <3>3, <4>1, <4>2
    <3>6. QED  BY <3>4, <3>5
  <2>3. CASE pair \in Asked(w)
    <3>1. /\ pair[1] = Named(Job(w)) /\ pair[2] = Job(w).port
          /\ \E t \in Owned(w) : t[1] = "service"
      BY <2>1, <2>3, AskedPairs
    <3>2. PICK t \in Owned(w) : t[1] = "service"  BY <3>1
    <3>3. Named(The(db'[s])) = Named(Job(w))  BY <1>7, <3>1
    <3>4. s = t  BY <1>4, <1>6, <3>2, <3>3
    <3>5. QED  BY <3>1, <3>2, <3>4, ServicesAfter
  <2>4. QED  BY <2>2, <2>3
<1>8. ServiceShared'
  <2>1. \A x : Named(The(db[x]))' = Named(The(db'[x]))  BY DEF The, Named
  <2>2. QED  BY <1>3, <1>4, <1>5, <1>7, <2>1 DEF ServiceShared
<1>9. ASSUME NEW pair \in asked', pair[1][1] = "named"
      PROVE  \E s \in Stored("service")' : Named(The(db'[s])) = pair[1]
  <2>1. CASE pair \in asked
    <3>1. PICK t \in Stored("service") : Named(The(db[t])) = pair[1]
      BY <1>0, <1>9, <2>1 DEF Promised
    <3>2. t \in DOMAIN db /\ db[t] # {} /\ t[1] = "service" /\ t[1] \in Shared
      BY DEF Stored, Shared
    <3>3. CASE t \in Owned(w)
      <4>1. t \in Stored("service")' /\ Named(The(db'[t])) = Named(Job(w))  BY <1>6, <3>2, <3>3
      <4>2. Named(The(db[t])) = Named(Job(w))  BY <3>2, <3>3, OwnedService DEF ServiceOwn
      <4>3. QED  BY <3>1, <4>1, <4>2
    <3>4. CASE t \notin Owned(w)
      <4>1. t \in DOMAIN db' /\ db'[t] = db[t]  BY <3>2, <3>4, SharedTables
      <4>2. t \in Stored("service")'  BY <3>2, <4>1 DEF Stored
      <4>3. QED  BY <3>1, <4>1, <4>2
    <3>5. QED  BY <3>3, <3>4
  <2>2. CASE pair \in Asked(w)
    <3>1. pair[1] = Named(Job(w)) /\ \E t \in Owned(w) : t[1] = "service"
      BY <1>9, <2>2, AskedPairs
    <3>2. PICK t \in Owned(w) : t[1] = "service"  BY <3>1
    <3>3. QED  BY <1>6, <3>1, <3>2
  <2>3. QED  BY <2>1, <2>2
<1>10. Promised'
  <2>1. \A x : Named(The(db[x]))' = Named(The(db'[x]))  BY DEF The, Named
  <2>2. QED  BY <1>3, <1>9, <2>1 DEF Promised
<1>11. Hosted'
  <2>1. ASSUME NEW v \in Worker, NEW i \in DOMAIN jobs[v], jobs[v][i].kind = "quickadd"
        PROVE  db'[Parent(jobs[v][i].parent)] # {}
    <3> DEFINE row == Parent(jobs[v][i].parent)
    <3>1. row \in DOMAIN db  BY <2>1 DEF TypesInv, JobsTyped, Request
    <3>2. db[row] # {}  BY <1>0, <2>1 DEF Hosted
    <3>3. row[1] = "parent" /\ row[1] \in Shared  BY DEF Parent, Shared
    <3> HIDE DEF row
    <3>4. row \notin Owned(w)  BY <1>0, <3>3 DEF Shares
    <3>5. db'[row] = db[row]  BY <3>1, <3>3, <3>4, SharedTables
    <3>6. QED  BY <3>2, <3>5 DEF row
  <2>2. \A p : Parent(p)' = Parent(p)  BY DEF Parent
  <2>3. QED  BY <2>1, <2>2 DEF Hosted
<1>12. QED  BY <1>2, <1>8, <1>10, <1>11 DEF SharedInv

--------------------------------------------------------------------------------
(***************************************************************************)
(* Quick adds share a service, and the addresses they may view.            *)
(***************************************************************************)

\* A commit, with its history.
LEMMA SharedCommit ==
    ASSUME EstateInv, TypesInv, FateInv, SharedInv, NEW w \in Worker, CommitEstate(w)
    PROVE  SharedInv'
<1>0. ShapeInv  BY DEF EstateInv
<1>1. /\ tx[w].step = "commit" /\ jobs' = jobs
      /\ asked' = IF tx'[w].step = "callbacks" THEN asked \cup Asked(w) ELSE asked
  BY DEF CommitEstate, Commit, At
<1>2. \/ db' = Over(tx[w].own, db) /\ tx' = Commits(w)
      \/ db' = db /\ tx' = RolledBack(w, "failed")
  BY DEF CommitEstate, Commit, Commits
<1>3. CASE db' = Over(tx[w].own, db) /\ tx' = Commits(w)
  <2>1. tx'[w].step = "callbacks"  BY <1>0, <1>3, CommittedFields
  <2>2. asked' = asked \cup Asked(w)  BY <1>1, <2>1
  <2>3. QED  BY <1>1, <1>3, <2>2, SharedCommitted
<1>4. CASE db' = db /\ tx' = RolledBack(w, "failed")
  <2>1. tx'[w].step = "failed"  BY <1>0, <1>4, RolledBackFields
  <2>2. Apart  BY <1>1, <1>4, <2>1 DEF Apart
  <2>3. "failed" \notin {"address"} \cup Adding  BY DEF Adding, Widened
  <2>4. QED  BY <1>4, <2>2, <2>3, SharedDrop
<1>5. QED  BY <1>2, <1>3, <1>4

\* SharedInv is inductive.
LEMMA NextShared ==
    ASSUME EstateInv, IdentityInv, TypesInv, FateInv, SharedInv, [Next]_vars PROVE SharedInv'
<1>1. ASSUME NEW w \in Worker, Serves(w) PROVE SharedInv'
  <2>1. CASE SettingsWork(w) /\ UNCHANGED <<graphVars, identityVars>>
    BY <2>1, SharedSettings
  <2>2. CASE GraphWork(w)  BY <2>2, SharedGraph
  <2>3. CASE IdentityWork(w) /\ UNCHANGED <<settingsVars, graphVars>>  BY <2>3, SharedIdentity
  <2>4. CASE EndRequest(w) /\ UNCHANGED <<graphVars, identityVars>>
    BY <1>1, <2>4, SharedEnd DEF graphVars, Serves
  <2>5. CASE CommitEstate(w)  BY <2>5, SharedCommit
  <2>6. CASE PostgreSQL(w)  BY <2>6, SharedGrant, SharedLost DEF PostgreSQL, graphVars
  <2>7. QED  BY <1>1, <2>1, <2>2, <2>3, <2>4, <2>5, <2>6 DEF Serves, Work
<1>2. ASSUME NEW w \in Worker, Fails(w) PROVE SharedInv'
  BY <1>2, SharedLost DEF Fails, graphVars
<1>3. ASSUME NEW w \in Worker, Consult(w), UNCHANGED <<graphVars, identityVars>> PROVE SharedInv'
  BY <1>3, SharedStutter DEF Consult, graphVars
<1>4. CASE Expire /\ UNCHANGED <<settingsVars, graphVars>>
  BY <1>4, SharedStutter DEF Expire, graphVars
<1>5. CASE UNCHANGED vars  BY <1>5, SharedStutter DEF vars, graphVars
<1>6. QED  BY <1>1, <1>2, <1>3, <1>4, <1>5 DEF Next

\* Nothing is asked for yet, and nobody shares what was there.
LEMMA InitShared ==
    ASSUME Init PROVE SharedInv
<1>1. PICK load \in Workloads : db = load.rows /\ jobs = load.jobs  BY DEF Init, DatabaseInit
<1>2. tx = [w \in Worker |-> Idle] /\ asked = {}  BY DEF Init, DatabaseInit, GraphInit
<1>3. \A w \in Worker : tx[w].step = "idle" /\ tx[w].own = NoRows  BY <1>2 DEF Idle
<1>4. ASSUME NEW w \in Worker PROVE Shares(w)
  <2>1. Owned(w) = {}  BY <1>3 DEF Owned, NoRows
  <2>2. Adds(w)  BY <1>3 DEF Adds, Widened
  <2>3. QED  BY <2>1, <2>2 DEF Shares
<1>5. ServiceShared
  <2>1. \A r, s \in Filled(db) :
           \/ r[1] = "service" /\ s[1] = "service" /\ Named(The(db[r])) = Named(The(db[s]))
           \/ r[1] = "address" /\ s[1] = "address" /\ The(db[r]).cidr = The(db[s]).cidr
           => r = s
    BY <1>1, SharedAssumption
  <2>2. \A table : \A r \in Stored(table) : r \in Filled(db) /\ r[1] = table
    BY DEF Stored, Filled
  <2>3. QED  BY <1>2, <2>1, <2>2 DEF ServiceShared
<1>6. Promised  BY <1>2 DEF Promised
<1>7. Hosted  BY <1>1, KeyAssumption DEF Hosted
<1>8. QED  BY <1>4, <1>5, <1>6, <1>7 DEF SharedInv

\* What quick adds share, in every state.
THEOREM SharedCorrect == Spec => []SharedInv
<1>1. Init => SharedInv /\ IdentityInv  BY InitShared, InitIdentity
<1>2. EstateInv /\ EstateInv' /\ IdentityInv /\ [Next]_vars => IdentityInv'  BY NextIdentity
<1>3. EstateInv /\ IdentityInv /\ TypesInv /\ FateInv /\ SharedInv /\ [Next]_vars => SharedInv'
  BY NextShared
<1>4. QED  BY <1>1, <1>2, <1>3, EstateCorrect, TypesCorrect, FateCorrect, PTL DEF Spec

\* Concurrent quick adds share one service of a name on a parent, and one address unless
\* whoever added the second may not view the first; none loses its port.
THEOREM ServicesShared == Spec => []ServiceShared
<1>1. SharedInv => ServiceShared  BY DEF SharedInv
<1>2. QED  BY <1>1, SharedCorrect, PTL

--------------------------------------------------------------------------------
(***************************************************************************)
(* What importers leave.                                                   *)
(***************************************************************************)

\* The markers of the stored credentials, and what a request would write of credentials.
Sources == {The(db[c]).source : c \in Stored("credential")}
Written(w) == {row \in DOMAIN tx[w].own : row[1] = "credential"}
Stamping == {"assign", "commit"}

\* A transaction writes one credential at most, with a marker that no stored one has.
Marker(w) ==
    \A row \in Written(w) :
        /\ tx[w].step \in Stamping /\ row \in Drawn
        /\ tx[w].own[row] # {} =>
             \E r \in tx[w].own[row] :
                tx[w].own[row] = {r} /\ (r.source # "none" => r.source \notin Sources)
        /\ \A other \in Written(w) : other = row

\* An importer's transaction holds the credential of its secret, and before its COMMIT the
\* assignment too; when it is through, the credential is there.
SecretOwn(w) ==
    LET t == tx[w]
        row == Credential(Item(w).cred)
        a == Assignment(Item(w).assignment)
    IN
    Has(w, "import") =>
        /\ t.step \in Stamping =>
             /\ row \in DOMAIN t.own
             /\ \E r \in t.own[row] : t.own[row] = {r} /\ r.source = Item(w).source
        /\ t.step = "commit" /\ Item(w).target # "none" =>
             /\ a \in DOMAIN t.own
             /\ t.own[a] = {[cred |-> Item(w).cred, target |-> Item(w).target]}
        /\ t.step \in {"finish"} \cup After /\ Importing(w) /\ deleted = {} =>
             Item(w).source \in Sources

\* The markers a run knows of, and reports, are there.
Reported(w) == deleted = {} => run[w].known \cup run[w].reported \subseteq Sources

\* A marker names one secret.
OneSecret ==
    \A c, d \in Stored("credential") :
        The(db[c]).source = The(db[d]).source /\ The(db[c]).source # "none" => c = d

ImportInv ==
    /\ \A w \in Worker : Marker(w) /\ SecretOwn(w) /\ Reported(w)
    /\ OneSecret

\* What a step inside a transaction leaves alone.
Beside == UNCHANGED <<jobs, db, deleted>>

\* A request keeps what it has of its secret when its rows, its place and its run stay.
LEMMA SecretStay ==
    ASSUME NEW v, tx'[v] = tx[v], jobs'[v] = jobs[v], run'[v] = run[v], db' = db,
           deleted' = deleted, Marker(v) /\ SecretOwn(v) /\ Reported(v)
    PROVE  Marker(v)' /\ SecretOwn(v)' /\ Reported(v)'
<1>1. Sources' = Sources  BY DEF Sources, Stored, The
<1>2. (Has(v, "import")' <=> Has(v, "import")) /\ Job(v)' = Job(v)  BY DEF Has, Job
<1>3. Item(v)' = Item(v) /\ (Importing(v)' <=> Importing(v))  BY <1>2 DEF Item, Importing
<1>4. Marker(v)'  BY <1>1 DEF Marker, Written, Stamping, Drawn, Credential, Service
<1>5. SecretOwn(v)'
  BY <1>1, <1>2, <1>3 DEF SecretOwn, Stamping, After, Credential, Assignment
<1>6. Reported(v)'  BY <1>1 DEF Reported
<1>7. QED  BY <1>4, <1>5, <1>6

\* A step that leaves the rows alone keeps ImportInv when it keeps what its request has.
LEMMA SecretStep ==
    ASSUME ImportInv, NEW w \in Worker, Others(w), Beside, \A v \in Worker \ {w} : run'[v] = run[v],
           Marker(w)', SecretOwn(w)', Reported(w)'
    PROVE  ImportInv'
<1>1. jobs' = jobs /\ db' = db /\ deleted' = deleted  BY DEF Beside
<1>2. ASSUME NEW v \in Worker PROVE Marker(v)' /\ SecretOwn(v)' /\ Reported(v)'
  <2>1. CASE v = w  BY <2>1
  <2>2. CASE v # w
    <3>1. tx'[v] = tx[v] /\ jobs'[v] = jobs[v] /\ run'[v] = run[v]  BY <1>1, <2>2 DEF Others
    <3>2. Marker(v) /\ SecretOwn(v) /\ Reported(v)  BY DEF ImportInv
    <3>3. QED  BY <1>1, <3>1, <3>2, SecretStay
  <2>3. QED  BY <2>1, <2>2
<1>3. OneSecret'
  <2>1. OneSecret  BY DEF ImportInv
  <2>2. QED  BY ONLY <1>1, <2>1 DEF OneSecret, Stored, The
<1>4. QED  BY <1>2, <1>3 DEF ImportInv

\* A step writes no credential, and is not the one that an importer's secret waits for.
LEMMA SecretPlain ==
    ASSUME ImportInv, NEW w \in Worker, Others(w), Beside, run' = run,
           tx[w].step \notin Stamping \/ DOMAIN tx'[w].own = {},
           \A row \in DOMAIN tx'[w].own : row[1] = "credential" => row \in DOMAIN tx[w].own,
           \/ ~Has(w, "import")
           \/ tx'[w].step \notin Stamping \cup After \cup {"finish"}
           \/ tx'[w].step \notin Stamping /\ ~Importing(w)
           \/ tx'[w].step \notin Stamping /\ tx[w].step \in After
    PROVE  ImportInv'
<1>1. jobs' = jobs /\ db' = db /\ deleted' = deleted  BY DEF Beside
<1>2. Marker(w) /\ SecretOwn(w) /\ Reported(w)  BY DEF ImportInv
<1>3. Sources' = Sources  BY <1>1 DEF Sources, Stored, The
<1>4. (Has(w, "import")' <=> Has(w, "import")) /\ Job(w)' = Job(w)  BY <1>1 DEF Has, Job
<1>5. Item(w)' = Item(w) /\ (Importing(w)' <=> Importing(w))  BY <1>4 DEF Item, Importing
<1>6. Marker(w)'
  <2>1. Written(w)' = {}
    <3>1. Written(w) = {} \/ DOMAIN tx'[w].own = {}  BY <1>2 DEF Marker
    <3>2. QED  BY <3>1 DEF Written
  <2>2. QED  BY <2>1 DEF Marker
<1>7. SecretOwn(w)'
  <2>1. CASE ~Has(w, "import")  BY <1>4, <2>1 DEF SecretOwn
  <2>2. CASE tx'[w].step \notin Stamping \cup After \cup {"finish"}
    BY <2>2 DEF SecretOwn, Stamping, After
  <2>3. CASE tx'[w].step \notin Stamping /\ ~Importing(w)
    BY <1>5, <2>3 DEF SecretOwn, Stamping, After
  <2>4. CASE Has(w, "import") /\ tx'[w].step \notin Stamping /\ tx[w].step \in After
    BY <1>1, <1>2, <1>3, <1>5, <2>4 DEF SecretOwn, Stamping, After
  <2>5. QED  BY <2>1, <2>2, <2>3, <2>4
<1>8. Reported(w)'  BY <1>1, <1>2, <1>3 DEF Reported
<1>9. QED  BY <1>6, <1>7, <1>8, SecretStep

\* A step that moves neither its request nor its rows.
LEMMA SecretSame ==
    ASSUME ImportInv, NEW w \in Worker, Others(w), Beside, run' = run,
           tx'[w].step = tx[w].step, tx'[w].own = tx[w].own
    PROVE  ImportInv'
<1>1. jobs' = jobs /\ db' = db /\ deleted' = deleted  BY DEF Beside
<1>2. Marker(w) /\ SecretOwn(w) /\ Reported(w)  BY DEF ImportInv
<1>3. Sources' = Sources  BY <1>1 DEF Sources, Stored, The
<1>4. (Has(w, "import")' <=> Has(w, "import")) /\ Job(w)' = Job(w)  BY <1>1 DEF Has, Job
<1>5. Item(w)' = Item(w) /\ (Importing(w)' <=> Importing(w))  BY <1>4 DEF Item, Importing
<1>6. Marker(w)'  BY <1>2, <1>3 DEF Marker, Written, Stamping, Drawn, Credential, Service
<1>7. SecretOwn(w)'
  BY <1>1, <1>2, <1>3, <1>4, <1>5 DEF SecretOwn, Stamping, After, Credential, Assignment
<1>8. Reported(w)'  BY <1>1, <1>2, <1>3 DEF Reported
<1>9. QED  BY <1>6, <1>7, <1>8, SecretStep

\* Where a request may go: it is no importer, or it is not where an importer's secret is.
Aloof(w, s) == ~Has(w, "import") \/ s \notin Stamping \cup After \cup {"finish"}

\* A request goes on, and writes nothing.
LEMMA SecretMove ==
    ASSUME EstateInv, ImportInv, NEW w \in Worker, Beside, run' = run, NEW s,
           tx[w].step \notin Stamping,
           \/ Aloof(w, s)
           \/ s \notin Stamping /\ (~Importing(w) \/ tx[w].step \in After),
           \/ tx' = Answered(w) /\ s = "finish"
           \/ \E l : tx' = Goto(w, s, l)
           \/ \E l, d : tx' = Open(w, s, l, d)
           \/ \E l, i : tx' = Captures(w, s, l, i)
           \/ \E i : tx' = Images(w, s, i)
           \/ \E l : tx' = Publishes(w, s, l)
           \/ \E d : tx' = Loads(w, s, d)
    PROVE  ImportInv'
<1>1. ShapeInv  BY DEF EstateInv
<1>2. Others(w) /\ tx'[w].step = s /\ tx'[w].own = tx[w].own
  <2>1. CASE tx' = Answered(w) /\ s = "finish"  BY <1>1, <2>1, AnsweredFields
  <2>2. CASE \E l : tx' = Goto(w, s, l)  BY <1>1, <2>2, GotoFields
  <2>3. CASE \E l, d : tx' = Open(w, s, l, d)
    <3>1. PICK l, d : tx' = Open(w, s, l, d)  BY <2>3
    <3>2. QED  BY ONLY <1>1, <3>1, w \in Worker, BeginFields
  <2>4. CASE \E l, i : tx' = Captures(w, s, l, i)  BY <1>1, <2>4, CaptureFields
  <2>5. CASE \E i : tx' = Images(w, s, i)  BY <1>1, <2>5, ImageFields
  <2>6. CASE \E l : tx' = Publishes(w, s, l)
    <3>1. PICK l : tx' = Publishes(w, s, l)  BY <2>6
    <3>2. QED  BY ONLY <1>1, <3>1, w \in Worker, PublishFields
  <2>7. CASE \E d : tx' = Loads(w, s, d)  BY <1>1, <2>7, LoadFields
  <2>8. QED  BY <2>1, <2>2, <2>3, <2>4, <2>5, <2>6, <2>7
<1>3. QED  BY <1>2, SecretPlain DEF Aloof

\* A transaction is over, and leaves no rows.
LEMMA SecretDrop ==
    ASSUME EstateInv, ImportInv, NEW w \in Worker, Beside, run' = run, NEW s,
           \/ s \notin Stamping \cup After \cup {"finish"} /\ tx' = RolledBack(w, s)
           \/ s \notin Stamping \cup After \cup {"finish"} /\ tx' = Resets(w, s)
           \/ tx' = Called(w) /\ tx[w].step \in After
    PROVE  ImportInv'
<1>1. ShapeInv  BY DEF EstateInv
<1>2. /\ Others(w) /\ tx'[w].own = NoRows
      /\ \/ tx'[w].step = s /\ s \notin Stamping \cup After \cup {"finish"}
         \/ tx'[w].step = "callbacks" /\ tx[w].step \in After
  BY <1>1, RolledBackFields, ResetFields, CalledFields
<1>3. DOMAIN tx'[w].own = {} /\ "callbacks" \notin Stamping  BY <1>2 DEF NoRows, Stamping
<1>4. QED  BY <1>2, <1>3, SecretPlain

\* A request of another kind writes rows that are no credentials.
LEMMA SecretWrite ==
    ASSUME EstateInv, ImportInv, NEW w \in Worker, Beside, run' = run, ~Has(w, "import"),
           tx[w].step \notin Stamping,
           NEW rows, NEW h, NEW s, NEW l, tx' = Write(w, rows, h, s, l),
           \A row \in DOMAIN rows : row[1] # "credential"
    PROVE  ImportInv'
<1>1. ShapeInv  BY DEF EstateInv
<1>2. Others(w) /\ tx'[w].own = Over(rows, tx[w].own)
  BY ONLY <1>1, w \in Worker, tx' = Write(w, rows, h, s, l), WriteFields
<1>3. \A row \in DOMAIN tx'[w].own : row[1] = "credential" => row \in DOMAIN tx[w].own
  BY <1>2 DEF Over
<1>4. QED  BY <1>2, <1>3, SecretPlain

\* The settings.
LEMMA SecretSettings ==
    ASSUME EstateInv, ImportInv, NEW w \in Worker, SettingsWork(w), UNCHANGED graphVars
    PROVE  ImportInv'
<1>0. Beside /\ run' = run
  BY DEF graphVars, Beside, SettingsWork, Configure, Unset, _save_locked, delete_settings,
     _lock_for_prefix_write
<1>1. tx[w].step \notin Stamping
  BY DEF SettingsWork, Configure, Unset, _save_locked, delete_settings, _lock_for_prefix_write,
     Ready, At, Stamping
<1>2. CASE _lock_for_prefix_write(w)
  <2>1. PICK l : tx' = Goto(w, "locked", l)  BY <1>2, Zenon DEF _lock_for_prefix_write
  <2>2. Aloof(w, "locked")  BY DEF Aloof, Stamping, After
  <2>3. QED  BY <1>0, <1>1, <2>1, <2>2, SecretMove
<1>3. ASSUME ~_lock_for_prefix_write(w) PROVE ImportInv'
  <2>1. ~Has(w, "import")
    BY <1>3 DEF SettingsWork, Configure, Unset, _save_locked, delete_settings, Ready, Has
  <2>2. \A s : Aloof(w, s)  BY <2>1 DEF Aloof
  <2>3. CASE Configure(w) \/ Unset(w)
    <3>1. \/ tx' = Answered(w)
          \/ \E l, d : tx' = Open(w, "prefix", l, d)
      BY <2>3, Zenon DEF Configure, Unset
    <3>2. QED  BY <1>0, <1>1, <2>2, <3>1, SecretMove
  <2>4. CASE _save_locked(w) \/ delete_settings(w)
    <3>1. \/ tx' = RolledBack(w, "failed")
          \/ \E r : \/ tx' = Write(w, Only(Singleton, r), <<>>, "commit", <<>>)
                    \/ tx' = Write(w, NoRows, <<>>, "commit", <<>>)
      BY <2>4, Zenon DEF _save_locked, delete_settings
    <3>2. "failed" \notin Stamping \cup After \cup {"finish"}  BY DEF Stamping, After
    <3>3. CASE tx' = RolledBack(w, "failed")  BY <1>0, <3>2, <3>3, SecretDrop
    <3>4. ASSUME NEW rows, DOMAIN rows \subseteq {Singleton}, tx' = Write(w, rows, <<>>, "commit", <<>>)
          PROVE  ImportInv'
      <4>1. \A row \in DOMAIN rows : row[1] # "credential"  BY <3>4 DEF Singleton
      <4>2. QED
        BY ONLY EstateInv, ImportInv, w \in Worker, <1>0, <1>1, <2>1, <3>4, <4>1, SecretWrite
    <3>5. \A r : DOMAIN Only(Singleton, r) \subseteq {Singleton}  BY DEF Only
    <3>6. DOMAIN NoRows \subseteq {Singleton}  BY DEF NoRows
    <3>7. QED  BY <3>1, <3>3, <3>4, <3>5, <3>6
  <2>5. QED  BY <1>3, <2>3, <2>4 DEF SettingsWork
<1>4. QED  BY <1>2, <1>3

--------------------------------------------------------------------------------
(***************************************************************************)
(* Requests that import nothing.                                           *)
(***************************************************************************)

\* The engine authentication material.
LEMMA SecretIdentity ==
    ASSUME EstateInv, TypesInv, IdentityInv, ImportInv, NEW w \in Worker, IdentityWork(w),
           UNCHANGED graphVars
    PROVE  ImportInv'
<1>1. Beside /\ run' = run  BY TypedIdentity DEF graphVars, Beside
<1>2. Kinds(w, tx[w].step) /\ ShapeInv  BY TypedBase
<1>3. CASE invalidate_auth_material_sessions(w)
  <2>1. tx' = Unhooks(w)  BY <1>3 DEF invalidate_auth_material_sessions, Unhooks
  <2>2. Others(w) /\ tx'[w].step = tx[w].step /\ tx'[w].own = tx[w].own
    BY <1>2, <2>1, HooksFields
  <2>3. QED  BY <1>1, <2>2, SecretSame
<1>4. ASSUME ~invalidate_auth_material_sessions(w) PROVE ImportInv'
  <2>1. ~Has(w, "import") /\ tx[w].step \notin Stamping
    BY <1>2, <1>4 DEF IdentityWork, Rotate, Reencrypt, save, Withdraw, DeleteMaterial, get_backend,
       refresh_auth_material, Reload, _get_client, Keep, Present, Ready, At, Has, Kinds, Calling,
       Stamping
  <2>2. \A s : Aloof(w, s)  BY <2>1 DEF Aloof
  <2>3. CASE Rotate(w) \/ Reencrypt(w) \/ Withdraw(w)
    <3>1. \/ tx' = Answered(w)
          \/ \E s \in {"merge", "withdraw"} : \E l, d : tx' = Open(w, s, l, d)
      BY <2>3, Zenon DEF Rotate, Reencrypt, Withdraw
    <3>2. QED  BY <1>1, <2>1, <2>2, <3>1, SecretMove
  <2>4. CASE save(w) \/ DeleteMaterial(w)
    <3>1. \/ tx' = RolledBack(w, "failed")
          \/ \E r, h : tx' = Write(w, Only(Material, r), h, "commit", <<>>)
      BY <2>4, Zenon DEF save, DeleteMaterial
    <3>2. "failed" \notin Stamping \cup After \cup {"finish"}  BY DEF Stamping, After
    <3>3. CASE tx' = RolledBack(w, "failed")  BY <1>1, <3>2, <3>3, SecretDrop
    <3>4. ASSUME NEW r, NEW h, tx' = Write(w, Only(Material, r), h, "commit", <<>>)
          PROVE  ImportInv'
      <4>1. \A row \in DOMAIN Only(Material, r) : row[1] # "credential"  BY DEF Only, Material
      <4>2. QED  BY ONLY EstateInv, ImportInv, w \in Worker, <1>1, <2>1, <3>4, <4>1, SecretWrite
    <3>5. QED  BY <3>1, <3>3, <3>4
  <2>5. CASE \/ get_backend(w) \/ refresh_auth_material(w) \/ Reload(w) \/ _get_client(w) \/ Keep(w)
             \/ Present(w)
    <3>1. \/ tx' = Answered(w)
          \/ \E s \in {"client", "reload", "present", "keep", "refresh", "finish"} :
                (\E l : tx' = Goto(w, s, l)) \/ (\E d : tx' = Loads(w, s, d))
      BY <2>5, Zenon DEF get_backend, refresh_auth_material, Reload, _get_client, Keep, Present, Loads
    <3>2. QED  BY <1>1, <2>1, <2>2, <3>1, SecretMove
  <2>6. QED  BY <1>4, <2>3, <2>4, <2>5 DEF IdentityWork
<1>5. QED  BY <1>3, <1>4

\* What an importer may never do: the requests of the other kinds.
LEMMA ImportKinds ==
    ASSUME EstateInv, TypesInv, NEW w \in Worker,
           \/ Create(w) \/ Assign(w) \/ Reassign(w) \/ capture_previous_credential(w) \/ Rebind(w)
           \/ Unassign(w) \/ DeleteAssignment(w) \/ Delete(w) \/ Clear(w)
           \/ destroy_material_on_delete(w) \/ _lock_metadata(w) \/ quick_add_ssh(w)
           \/ _new_ip_address(w) \/ LockService(w) \/ _get_or_create_service(w)
    PROVE  ~Has(w, "import") /\ tx[w].step \notin Stamping
<1>1. Kinds(w, tx[w].step)  BY TypedBase
<1>2. QED
  BY <1>1 DEF Create, Assign, Reassign, capture_previous_credential, Rebind, Unassign,
     DeleteAssignment, Delete, Clear, destroy_material_on_delete, _lock_metadata, quick_add_ssh,
     _new_ip_address, LockService, _get_or_create_service, Ready, At, Has, Kinds, Stamping

\* A request of another kind loads, locks, or gives up.
LEMMA SecretBegin ==
    ASSUME EstateInv, TypesInv, ImportInv, NEW w \in Worker, Beside, run' = run,
           \/ Create(w) \/ Assign(w) \/ Reassign(w) \/ capture_previous_credential(w)
           \/ Unassign(w) \/ Delete(w) \/ _lock_metadata(w) \/ quick_add_ssh(w) \/ LockService(w)
    PROVE  ImportInv'
<1>0. ~Has(w, "import") /\ tx[w].step \notin Stamping  BY ImportKinds
<1>1. \A s : Aloof(w, s)  BY <1>0 DEF Aloof
<1>2. CASE \/ Create(w) \/ Assign(w) \/ Reassign(w) \/ Unassign(w) \/ _lock_metadata(w)
           \/ Delete(w) \/ quick_add_ssh(w)
  <2>1. \/ tx' = Answered(w)
        \/ \E s \in {"prefix", "assign", "previous", "remove", "commit", "clear", "parent", "address"} :
              \E l, d : tx' = Open(w, s, l, d)
    BY <1>2, Zenon DEF Create, Assign, Reassign, Unassign, _lock_metadata, Delete, quick_add_ssh
  <2>2. QED  BY <1>0, <1>1, <2>1, SecretMove
<1>3. CASE capture_previous_credential(w) \/ LockService(w)
  <2>1. \/ \E l, i : tx' = Captures(w, "rebind", l, i)
        \/ \E l : tx' = Goto(w, "service", l)
    BY <1>3, Zenon DEF capture_previous_credential, LockService, Captures
  <2>2. QED  BY <1>0, <1>1, <2>1, SecretMove
<1>4. QED  BY <1>2, <1>3

\* A request of another kind writes assignments, an address or a service.
LEMMA SecretOthers ==
    ASSUME EstateInv, TypesInv, FateInv, SharedInv, ImportInv, NEW w \in Worker, Beside, run' = run,
           \/ Rebind(w) \/ DeleteAssignment(w) \/ Clear(w) \/ _new_ip_address(w)
           \/ _get_or_create_service(w)
    PROVE  ImportInv'
<1>0. ~Has(w, "import") /\ tx[w].step \notin Stamping  BY ImportKinds
<1>1. "failed" \notin Stamping \cup After \cup {"finish"}  BY DEF Stamping, After
<1>2. ASSUME NEW rows, NEW h, NEW s, NEW l, tx' = Write(w, rows, h, s, l),
             \A row \in DOMAIN rows : row[1] # "credential"
      PROVE  ImportInv'
  BY ONLY EstateInv, ImportInv, w \in Worker, Beside, run' = run, <1>0, <1>2, SecretWrite
<1>3. CASE Rebind(w) \/ DeleteAssignment(w)
  <2>1. PICK a, records, h, l : tx' = Write(w, Only(Assignment(a), records), h, "commit", l)
    BY <1>3, RebindRewrites, RemoveRewrites DEF Rewrites
  <2>2. \A row \in DOMAIN Only(Assignment(a), records) : row[1] # "credential"
    BY DEF Only, Assignment
  <2>3. QED  BY ONLY <1>2, <2>1, <2>2
<1>4. CASE Clear(w)
  <2> DEFINE rows == [r \in DOMAIN tx[w].loaded |-> {}]
  <2>1. \A row \in DOMAIN rows : row[1] # "credential"
    <3>1. StepOK(w) /\ tx[w].step = "clear"  BY <1>4 DEF EstateInv, Clear, At
    <3>2. \A row \in DOMAIN tx[w].loaded : row[1] = "assignment"  BY <3>1 DEF StepOK
    <3>3. QED  BY <3>2
  <2>2. \E h, s, l : tx' = Write(w, rows, h, s, l)  BY <1>4, Zenon DEF Clear
  <2> HIDE DEF rows
  <2>3. PICK h, s, l : tx' = Write(w, rows, h, s, l)  BY <2>2
  <2>4. QED  BY ONLY <1>2, <2>1, <2>3
<1>5. CASE _new_ip_address(w)
  <2>1. \/ tx' = RolledBack(w, "failed")
        \/ \E r, l : \/ tx' = Write(w, Only(Address(Job(w).address), r), <<>>, "parent", l)
                     \/ tx' = Write(w, NoRows, <<>>, "parent", l)
    BY <1>5, Zenon DEF _new_ip_address
  <2>2. CASE tx' = RolledBack(w, "failed")  BY <1>1, <2>2, SecretDrop
  <2>3. \A r : \A row \in DOMAIN Only(Address(Job(w).address), r) : row[1] # "credential"
    BY DEF Only, Address
  <2>4. \A row \in DOMAIN NoRows : row[1] # "credential"  BY DEF NoRows
  <2>5. ASSUME NEW r, NEW l, tx' = Write(w, Only(Address(Job(w).address), r), <<>>, "parent", l)
        PROVE  ImportInv'
    BY ONLY <1>2, <2>3, <2>5
  <2>6. ASSUME NEW l, tx' = Write(w, NoRows, <<>>, "parent", l) PROVE ImportInv'
    BY ONLY <1>2, <2>4, <2>6
  <2>7. QED  BY <2>1, <2>2, <2>5, <2>6
<1>6. CASE _get_or_create_service(w)
  <2>1. CASE tx' = RolledBack(w, "failed")  BY <1>1, <2>1, SecretDrop
  <2>2. CASE tx' # RolledBack(w, "failed")
    <3>1. PICK row, n, l, s : tx' = Write(w, Only(row, {n}), <<>>, s, l) /\ row[1] = "service"
      BY <1>6, <2>2, WidenedService
    <3>2. \A x \in DOMAIN Only(row, {n}) : x[1] # "credential"  BY <3>1 DEF Only
    <3>3. QED  BY ONLY <1>2, <3>1, <3>2
  <2>3. QED  BY <2>1, <2>2
<1>7. QED  BY <1>3, <1>4, <1>5, <1>6

\* A deletion writes the credential it is about, and no marker.
LEMMA SecretDestroy ==
    ASSUME EstateInv, TypesInv, ImportInv, NEW w \in Worker, Beside, run' = run,
           destroy_material_on_delete(w)
    PROVE  ImportInv'
<1> DEFINE row == Credential(Job(w).cred)
<1>0. ~Has(w, "import") /\ tx[w].step \notin Stamping  BY ImportKinds
<1>1. Marker(w) /\ SecretOwn(w) /\ Reported(w) /\ ShapeInv  BY DEF ImportInv, EstateInv
<1>2. row \in Drawn
  <2>1. Kinds(w, tx[w].step) /\ tx[w].step = "drop"
    BY TypedBase DEF destroy_material_on_delete, At
  <2>2. jobs[w] # <<>> /\ Job(w).kind = "delete"  BY <2>1 DEF Kinds, Has
  <2>3. Job(w).cred \in Cred  BY <2>2, JobTyped DEF Request
  <2>4. QED  BY <2>3 DEF Drawn
<1>3. \E h, l : tx' = Write(w, Only(row, {}), h, "commit", l)
  BY Zenon DEF destroy_material_on_delete
<1> HIDE DEF row
<1>4. PICK h, l : tx' = Write(w, Only(row, {}), h, "commit", l)  BY <1>3
<1>5. Others(w) /\ tx'[w].own = Over(Only(row, {}), tx[w].own) /\ tx'[w].step = "commit"
  BY ONLY <1>1, <1>4, w \in Worker, WriteFields
<1>6. /\ row \in DOMAIN tx'[w].own /\ tx'[w].own[row] = {}
      /\ \A x \in DOMAIN tx'[w].own : x = row \/ x \in DOMAIN tx[w].own
  BY <1>5 DEF Over, Only
<1>7. Written(w) = {}  BY <1>0, <1>1 DEF Marker
<1>8. \A x \in Written(w)' : x = row  BY <1>6, <1>7 DEF Written
<1>9. Marker(w)'
  <2>1. tx'[w].step \in Stamping'  BY <1>5 DEF Stamping
  <2>2. row \in Drawn'  BY <1>2 DEF Drawn, Credential, Service
  <2>3. QED  BY <1>6, <1>8, <2>1, <2>2 DEF Marker
<1>10. SecretOwn(w)'
  <2>1. ~Has(w, "import")'  BY <1>0 DEF Has, Job, Beside
  <2>2. QED  BY <2>1 DEF SecretOwn
<1>11. Reported(w)'  BY <1>1 DEF Reported, Beside, Sources, Stored, The
<1>12. QED  BY <1>5, <1>9, <1>10, <1>11, SecretStep

--------------------------------------------------------------------------------
(***************************************************************************)
(* Callbacks, stamps, assignments and the run.                             *)
(***************************************************************************)

\* The callbacks.
LEMMA SecretPublish ==
    ASSUME EstateInv, ImportInv, NEW w \in Worker, Beside, run' = run,
           \/ _publish_custom_metadata(w) \/ Project(w) \/ set_metadata(w) \/ delete_material(w)
           \/ Respond(w)
    PROVE  ImportInv'
<1>1. tx[w].step \in After /\ tx[w].step \notin Stamping
  BY DEF _publish_custom_metadata, Project, set_metadata, delete_material, Respond, NextCall, At,
     After, Stamping
<1>2. {"project", "send", "finish"} \cap Stamping = {}  BY DEF Stamping
<1>3. \/ tx' = Called(w)
      \/ tx' = Answered(w)
      \/ \E l : tx' = Publishes(w, "project", l)
      \/ \E i : tx' = Images(w, "send", i)
  BY Zenon DEF _publish_custom_metadata, Project, set_metadata, delete_material, Respond, Publishes,
     Images
<1>4. CASE tx' = Called(w)  BY <1>1, <1>4, SecretDrop
<1>5. CASE tx' # Called(w)  BY <1>1, <1>2, <1>3, <1>5, SecretMove
<1>6. QED  BY <1>4, <1>5

\* Where nothing of the credentials is written, a request sees those that are stored.
LEMMA SecretSeen ==
    ASSUME ImportInv, NEW w \in Worker, tx[w].step \notin Stamping
    PROVE  Written(w) = {} /\ {c.source : c \in Credentials(w)} = Sources
<1>1. Written(w) = {}  BY DEF ImportInv, Marker
<1>2. \A row \in DOMAIN db : row[1] = "credential" => Seen(w, row) = db[row]
  BY <1>1 DEF Written, Seen
<1>3. Table(w, "credential") = Stored("credential")  BY <1>2 DEF Table, Stored
<1>4. Credentials(w) = {The(db[c]) : c \in Stored("credential")}
  BY <1>2, <1>3 DEF Credentials, Stored
<1>5. QED  BY <1>1, <1>4 DEF Sources

\* What a request stamps is its own, under a marker that nobody has stored.
LEMMA Stamps ==
    ASSUME EstateInv, TypesInv, ImportInv, NEW w \in Worker, Stamp(w)
    PROVE  /\ tx[w].step = "locked" /\ Credential(Item(w).cred) \in Drawn
           /\ \/ tx' = RolledBack(w, "failed")
              \/ \E r : \E s \in Stamping :
                    /\ tx' = Write(w, Only(Credential(Item(w).cred), {r}), <<>>, s, <<>>)
                    /\ r.source # "none" => r.source \notin Sources
                    /\ Has(w, "import") => s = "assign" /\ r.source = Item(w).source
<1> DEFINE row == Credential(Item(w).cred)
           source == IF Has(w, "import") THEN Item(w).source ELSE "none"
<1>1. /\ tx[w].step = "locked" /\ (Has(w, "create") \/ Has(w, "quickadd") \/ Has(w, "import"))
      /\ Stage(w) /\ jobs[w] # <<>>
  BY TypedBase DEF Stamp, At, Has
<1>2. Item(w).cred \in Cred
  <2>1. CASE Has(w, "import")
    <3>1. Importing(w)  BY <1>1, <2>1 DEF Stage
    <3>2. QED  BY <3>1, ItemTyped
  <2>2. CASE ~Has(w, "import")
    <3>1. Item(w) = Job(w) /\ Job(w).kind \in {"create", "quickadd"}
      BY <1>1, <2>2 DEF Item, Has
    <3>2. QED  BY <1>1, <3>1, JobTyped DEF Request
  <2>3. QED  BY <2>1, <2>2
<1>3. row \in Drawn  BY <1>2 DEF Drawn
<1>4. \/ tx' = RolledBack(w, "failed")
      \/ /\ ~Duplicate(w)
         /\ \E p : tx' = Write(w, Only(row, {[prefix |-> p, source |-> source]}), <<>>,
                               IF Has(w, "create") THEN "commit" ELSE "assign", <<>>)
  BY Zenon DEF Stamp
<1>5. CASE ~Duplicate(w) /\
           \E p : tx' = Write(w, Only(row, {[prefix |-> p, source |-> source]}), <<>>,
                              IF Has(w, "create") THEN "commit" ELSE "assign", <<>>)
  <2> DEFINE s == IF Has(w, "create") THEN "commit" ELSE "assign"
  <2>1. PICK p : tx' = Write(w, Only(row, {[prefix |-> p, source |-> source]}), <<>>, s, <<>>)
    BY <1>5
  <2> DEFINE r == [prefix |-> p, source |-> source]
  <2>2. r.source = source  OBVIOUS
  <2>3. s \in Stamping /\ (Has(w, "import") => s = "assign")  BY DEF Stamping, Has
  <2>4. Has(w, "import") => source = Item(w).source  OBVIOUS
  <2>5. source # "none" => source \notin Sources
    <3>1. SUFFICES ASSUME source # "none" PROVE source \notin Sources  OBVIOUS
    <3>2. Has(w, "import") /\ source = Item(w).source  BY <3>1
    <3>3. \A c \in Credentials(w) : c.source # source  BY <1>5, <3>2 DEF Duplicate
    <3>4. {c.source : c \in Credentials(w)} = Sources
      <4>1. tx[w].step \notin Stamping  BY <1>1 DEF Stamping
      <4>2. QED  BY <4>1, SecretSeen
    <3>5. QED  BY <3>3, <3>4
  <2>6. tx' = Write(w, Only(row, {r}), <<>>, s, <<>>)  BY <2>1
  <2> HIDE DEF r, s, source, row
  <2>7. \E x : \E z \in Stamping :
            /\ tx' = Write(w, Only(row, {x}), <<>>, z, <<>>)
            /\ x.source # "none" => x.source \notin Sources
            /\ Has(w, "import") => z = "assign" /\ x.source = Item(w).source
    BY <2>2, <2>3, <2>4, <2>5, <2>6
  <2>8. QED  BY <1>1, <1>3, <2>7 DEF row
<1>6. QED  BY <1>1, <1>3, <1>4, <1>5

\* A credential is stamped.
LEMMA SecretStamp ==
    ASSUME EstateInv, TypesInv, ImportInv, NEW w \in Worker, Beside, run' = run, Stamp(w)
    PROVE  ImportInv'
<1> DEFINE row == Credential(Item(w).cred)
<1>0. tx[w].step = "locked" /\ row \in Drawn /\ ShapeInv  BY Stamps DEF EstateInv
<1>1. CASE tx' = RolledBack(w, "failed")
  <2>1. "failed" \notin Stamping \cup After \cup {"finish"}  BY DEF Stamping, After
  <2>2. QED  BY <1>1, <2>1, SecretDrop
<1>2. CASE tx' # RolledBack(w, "failed")
  <2>1. PICK r : \E s \in Stamping :
                /\ tx' = Write(w, Only(row, {r}), <<>>, s, <<>>)
                /\ r.source # "none" => r.source \notin Sources
                /\ Has(w, "import") => s = "assign" /\ r.source = Item(w).source
    BY <1>2, Stamps
  <2>2. PICK s \in Stamping :
                /\ tx' = Write(w, Only(row, {r}), <<>>, s, <<>>)
                /\ r.source # "none" => r.source \notin Sources
                /\ Has(w, "import") => s = "assign" /\ r.source = Item(w).source
    BY <2>1
  <2>3. /\ Has(w, "import")' <=> Has(w, "import")
        /\ Item(w)' = Item(w) /\ Sources' = Sources /\ Reported(w)
    BY DEF Beside, Has, Job, Item, Sources, Stored, The, ImportInv
  <2>4. row[1] = "credential" /\ row \in Drawn' /\ row' = row
    BY <1>0, <2>3 DEF Credential, Drawn, Service
  <2>5. row = Credential(Item(w).cred)'  BY <2>4
  <2> HIDE DEF row
  <2> DEFINE rows == Only(row, {r})
  <2>6. tx' = Write(w, rows, <<>>, s, <<>>)  BY <2>2
  <2> HIDE DEF rows
  <2>7. Others(w) /\ tx'[w].own = Over(rows, tx[w].own) /\ tx'[w].step = s
    BY ONLY <1>0, <2>6, w \in Worker, WriteFields
  <2>8. Others(w) /\ tx'[w].own = Over(Only(row, {r}), tx[w].own) /\ tx'[w].step = s
    BY <2>7 DEF rows
  <2>9. /\ row \in DOMAIN tx'[w].own /\ tx'[w].own[row] = {r}
        /\ \A x \in DOMAIN tx'[w].own : x = row \/ x \in DOMAIN tx[w].own
    BY <2>8 DEF Over, Only
  <2>10. \A x \in Written(w)' : x = row
    <3>1. tx[w].step \notin Stamping  BY <1>0 DEF Stamping
    <3>2. Written(w) = {}  BY <3>1, SecretSeen
    <3>3. QED  BY <2>9, <3>2 DEF Written
  <2>11. Marker(w)'
    <3>1. tx'[w].step \in Stamping'  BY <2>2, <2>8 DEF Stamping
    <3>2. \E x \in tx'[w].own[row] :
             tx'[w].own[row] = {x} /\ (x.source # "none" => x.source \notin Sources')
      BY <2>2, <2>3, <2>9
    <3>3. QED  BY <2>4, <2>10, <3>1, <3>2 DEF Marker
  <2>12. SecretOwn(w)'
    <3>1. SUFFICES ASSUME Has(w, "import") PROVE SecretOwn(w)'  BY <2>3 DEF SecretOwn
    <3>2. tx'[w].step = "assign" /\ r.source = Item(w)'.source  BY <2>2, <2>3, <2>8, <3>1
    <3>3. \E x \in tx'[w].own[row] : tx'[w].own[row] = {x} /\ x.source = Item(w)'.source
      BY <2>9, <3>2
    <3>4. QED  BY <2>5, <2>9, <3>2, <3>3 DEF SecretOwn, After
  <2>13. Reported(w)'  BY <2>3 DEF Reported, Beside
  <2>14. QED  BY <2>8, <2>11, <2>12, <2>13, SecretStep
<1>3. QED  BY <1>1, <1>2

\* The assignment of an imported credential, or of another.
LEMMA SecretAssign ==
    ASSUME EstateInv, ImportInv, NEW w \in Worker, Beside, run' = run, _assign(w)
    PROVE  ImportInv'
<1> DEFINE a == Assignment(Item(w).assignment)
           bound == [cred |-> Item(w).cred, target |-> TargetOf(w)]
           rows == Only(a, {bound})
<1>0. /\ tx[w].step = "assign" /\ ShapeInv
      /\ Marker(w) /\ SecretOwn(w) /\ Reported(w)
  BY DEF _assign, At, EstateInv, ImportInv
<1>1. Has(w, "import") => ~Has(w, "quickadd") /\ TargetOf(w) = Item(w).target
  BY DEF Has, TargetOf
<1>2. \/ tx' = Goto(w, "commit", <<>>) /\ (Has(w, "import") => Item(w).target = "none")
      \/ \E h, l : tx' = Write(w, rows, h, "commit", l)
  BY <1>1, Zenon DEF _assign, Bind
<1>3. /\ Has(w, "import")' <=> Has(w, "import")
      /\ Item(w)' = Item(w) /\ Sources' = Sources
  BY DEF Beside, Has, Job, Item, Sources, Stored, The
<1>4. a[1] = "assignment" /\ a' = a  BY <1>3 DEF Assignment
<1>5. DOMAIN rows = {a} /\ rows[a] = {bound} /\ bound.cred = Item(w).cred  BY DEF Only
<1> HIDE DEF rows
<1>6. /\ Others(w) /\ tx'[w].step = "commit"
      /\ \/ tx'[w].own = tx[w].own /\ (Has(w, "import") => Item(w).target = "none")
         \/ tx'[w].own = Over(rows, tx[w].own)
  <2>1. CASE tx' = Goto(w, "commit", <<>>) /\ (Has(w, "import") => Item(w).target = "none")
    BY <1>0, <2>1, GotoFields
  <2>2. CASE \E h, l : tx' = Write(w, rows, h, "commit", l)
    <3>1. PICK h, l : tx' = Write(w, rows, h, "commit", l)  BY <2>2
    <3>2. QED  BY ONLY <1>0, <3>1, w \in Worker, WriteFields
  <2>3. QED  BY <1>2, <2>1, <2>2
<1>7. /\ DOMAIN tx[w].own \subseteq DOMAIN tx'[w].own
      /\ \A row \in DOMAIN tx'[w].own : row # a =>
            row \in DOMAIN tx[w].own /\ tx'[w].own[row] = tx[w].own[row]
      /\ Has(w, "import") /\ Item(w).target # "none" =>
            a \in DOMAIN tx'[w].own /\ tx'[w].own[a] = {bound}
  BY <1>5, <1>6 DEF Over
<1>8. Marker(w)'
  <2>1. \A row \in Written(w)' : row \in Written(w) /\ tx'[w].own[row] = tx[w].own[row]
    BY <1>4, <1>7 DEF Written
  <2>2. tx'[w].step \in Stamping'  BY <1>6 DEF Stamping
  <2>3. Drawn' = Drawn  BY DEF Drawn, Credential, Service
  <2>4. QED  BY <1>0, <1>3, <2>1, <2>2, <2>3 DEF Marker
<1>9. SecretOwn(w)'
  <2>1. SUFFICES ASSUME Has(w, "import") PROVE SecretOwn(w)'  BY <1>3 DEF SecretOwn
  <2> DEFINE row == Credential(Item(w).cred)
  <2>2. /\ row \in DOMAIN tx[w].own
        /\ \E r \in tx[w].own[row] : tx[w].own[row] = {r} /\ r.source = Item(w).source
    BY <1>0, <2>1 DEF SecretOwn, Stamping
  <2>3. row # a /\ row' = row  BY <1>3, <1>4 DEF Credential
  <2>4. row \in DOMAIN tx'[w].own /\ tx'[w].own[row] = tx[w].own[row]  BY <1>7, <2>2, <2>3
  <2>5. Item(w).target # "none" =>
           a \in DOMAIN tx'[w].own
           /\ tx'[w].own[a] = {[cred |-> Item(w).cred, target |-> Item(w).target]}
    BY <1>1, <1>7, <2>1
  <2>6. a = Assignment(Item(w).assignment)' /\ row = Credential(Item(w).cred)'
    BY <1>4, <2>3
  <2>7. "commit" \notin After \cup {"finish"}  BY DEF After
  <2> HIDE DEF a, row, bound
  <2>8. \E r \in tx'[w].own[row] : tx'[w].own[row] = {r} /\ r.source = Item(w)'.source
    BY <1>3, <2>2, <2>4
  <2>9. Item(w)'.target # "none" =>
           a \in DOMAIN tx'[w].own
           /\ tx'[w].own[a] = {[cred |-> Item(w)'.cred, target |-> Item(w)'.target]}
    BY <1>3, <2>5
  <2>10. QED  BY <1>6, <2>4, <2>6, <2>7, <2>8, <2>9 DEF SecretOwn, After
<1>10. Reported(w)'  BY <1>0, <1>3 DEF Reported, Beside
<1>11. QED  BY <1>6, <1>8, <1>9, <1>10, SecretStep

\* Between two secrets of a run.
LEMMA SecretBetween ==
    ASSUME ImportInv, NEW w \in Worker, Others(w), Beside, \A v \in Worker \ {w} : run'[v] = run[v],
           tx'[w].step = "secret", DOMAIN tx'[w].own = {}, Reported(w)'
    PROVE  ImportInv'
<1>1. Marker(w)'  BY DEF Marker, Written
<1>2. SecretOwn(w)'  BY DEF SecretOwn, Stamping, After
<1>3. QED  BY <1>1, <1>2, SecretStep

\* The importer goes from one secret to the next.
LEMMA SecretImport ==
    ASSUME EstateInv, TypesInv, ImportInv, NEW w \in Worker, GraphWork(w), Beside,
           import_secrets(w) \/ ImportSecret(w) \/ NextSecret(w) \/ Imported(w)
    PROVE  ImportInv'
<1>0. /\ \A v \in Worker \ {w} : run'[v] = run[v]
      /\ ShapeInv /\ RunTyped /\ run = [v \in Worker |-> run[v]]
      /\ tx[w].step \notin Writing => DOMAIN tx[w].own = {}
  BY TypedProgress, TypedBase DEF TypesInv, RunTyped
<1>1. SecretOwn(w) /\ Reported(w)  BY DEF ImportInv
<1>2. Sources' = Sources /\ deleted' = deleted  BY DEF Beside, Sources, Stored, The
<1>3. CASE import_secrets(w)
  <2>1. tx[w].step = "idle" /\ tx' = Goto(w, "secret", <<>>)
    BY <1>3 DEF import_secrets, Ready, At
  <2>2. Others(w) /\ tx'[w].step = "secret" /\ tx'[w].own = tx[w].own
    BY <1>0, <2>1, GotoFields
  <2>3. DOMAIN tx'[w].own = {}  BY <1>0, <2>1, <2>2 DEF Writing
  <2>4. {c.source : c \in Credentials(w)} = Sources  BY <2>1, SecretSeen DEF Stamping
  <2>5. run'[w].known = Sources /\ run'[w].reported = {}
    BY <1>0, <1>3, <2>4 DEF import_secrets
  <2>6. Reported(w)'  BY <1>2, <2>5 DEF Reported
  <2>7. QED  BY <1>0, <2>2, <2>3, <2>6, SecretBetween
<1>4. CASE ImportSecret(w)
  <2>1. tx[w].step = "secret"  BY <1>4 DEF ImportSecret, At
  <2>2. CASE Item(w).source \in run[w].known
    <3>1. tx' = tx /\ run' = [run EXCEPT ![w].at = @ + 1, ![w].reported = @ \cup {Item(w).source}]
      BY <1>4, <2>2 DEF ImportSecret
    <3> DEFINE r == run[w].reported \cup {Item(w).source}
    <3>2. run' = [run EXCEPT ![w].at = @ + 1, ![w].reported = r]  BY <3>1
    <3> HIDE DEF r
    <3>3. run' = [run EXCEPT ![w] = [known |-> run[w].known, at |-> run[w].at + 1, reported |-> r]]
      BY <1>0, <3>2, Further
    <3>4. run'[w].known = run[w].known /\ run'[w].reported = r  BY <1>0, <3>3
    <3>5. Reported(w)'  BY <1>1, <1>2, <2>2, <3>4 DEF Reported, r
    <3>6. Others(w) /\ tx'[w].step = "secret" /\ DOMAIN tx'[w].own = {}
      BY <1>0, <2>1, <3>1 DEF Others, Writing, ShapeInv
    <3>7. QED  BY <1>0, <3>5, <3>6, SecretBetween
  <2>3. CASE Item(w).source \notin run[w].known
    <3>1. run' = run /\ \E l, d : tx' = Open(w, "prefix", l, d)
      BY <1>4, <2>3, Zenon DEF ImportSecret
    <3>2. Aloof(w, "prefix") /\ tx[w].step \notin Stamping  BY <2>1 DEF Aloof, Stamping, After
    <3>3. QED  BY <3>1, <3>2, SecretMove
  <2>4. QED  BY <2>2, <2>3
<1>5. CASE NextSecret(w)
  <2> DEFINE done == IF tx[w].step = "finish" THEN {Item(w).source} ELSE {}
  <2>1. tx' = Resets(w, "secret") /\ Importing(w)  BY <1>5 DEF NextSecret, Resets
  <2>2. Others(w) /\ tx'[w].step = "secret" /\ DOMAIN tx'[w].own = {}
    BY <1>0, <2>1, ResetFields DEF NoRows
  <2>3. deleted = {} => done \subseteq Sources
    BY <1>1, <2>1 DEF SecretOwn, Importing, After
  <2>4. run'[w].known = run[w].known \cup done /\ run'[w].reported = run[w].reported \cup done
    BY <1>0, <1>5 DEF NextSecret
  <2> HIDE DEF done
  <2>5. Reported(w)'  BY <1>1, <1>2, <2>3, <2>4 DEF Reported
  <2>6. QED  BY <1>0, <2>2, <2>5, SecretBetween
<1>6. CASE Imported(w)
  <2>1. tx[w].step = "secret" /\ ~Importing(w) /\ tx' = Answered(w) /\ run' = run
    BY <1>6 DEF Imported, At, Quiet, graphVars
  <2>2. tx[w].step \notin Stamping /\ "finish" \notin Stamping  BY <2>1 DEF Stamping
  <2>3. QED  BY <2>1, <2>2, SecretMove
<1>7. QED  BY <1>3, <1>4, <1>5, <1>6

\* The graph, and all that importers do to it.
LEMMA SecretGraph ==
    ASSUME EstateInv, TypesInv, FateInv, SharedInv, ImportInv, NEW w \in Worker, GraphWork(w)
    PROVE  ImportInv'
<1>1. UNCHANGED <<jobs, db>>  BY GraphReads
<1>2. deleted' = deleted
  BY DEF GraphWork, Create, Stamp, Assign, _assign, Reassign, capture_previous_credential, Rebind,
     Unassign, DeleteAssignment, Delete, Clear, destroy_material_on_delete, _lock_metadata,
     _publish_custom_metadata, Project, set_metadata, delete_material, Respond, quick_add_ssh,
     _new_ip_address, LockService, _get_or_create_service, import_secrets, ImportSecret, NextSecret,
     Imported, Quiet, graphVars
<1>3. Beside  BY <1>1, <1>2 DEF Beside
<1>4. CASE import_secrets(w) \/ ImportSecret(w) \/ NextSecret(w) \/ Imported(w)
  BY <1>3, <1>4, SecretImport
<1>5. CASE ~(import_secrets(w) \/ ImportSecret(w) \/ NextSecret(w) \/ Imported(w))
  <2>1. run' = run
    BY <1>5 DEF GraphWork, Create, Stamp, Assign, _assign, Reassign, capture_previous_credential,
       Rebind, Unassign, DeleteAssignment, Delete, Clear, destroy_material_on_delete, _lock_metadata,
       _publish_custom_metadata, Project, set_metadata, delete_material, Respond, quick_add_ssh,
       _new_ip_address, LockService, _get_or_create_service, Quiet, graphVars
  <2>2. QED
    BY <1>3, <1>5, <2>1, SecretBegin, SecretOthers, SecretDestroy, SecretPublish, SecretStamp,
       SecretAssign DEF GraphWork
<1>6. QED  BY <1>4, <1>5

\* A request gets a lock.
LEMMA SecretGrant ==
    ASSUME EstateInv, ImportInv, NEW w \in Worker, Grant(w), UNCHANGED <<run, deleted>>
    PROVE  ImportInv'
<1>1. Beside /\ run' = run /\ ShapeInv  BY DEF Grant, Beside, EstateInv
<1>2. PICK locked : tx' = Grants(w, locked)  BY Zenon DEF Grant, Grants
<1>3. Others(w) /\ tx'[w].step = tx[w].step /\ tx'[w].own = tx[w].own
  BY <1>1, <1>2, GrantFields
<1>4. QED  BY <1>1, <1>3, SecretSame

\* A request ends; a run, after its last secret.
LEMMA SecretEnd ==
    ASSUME EstateInv, TypesInv, ImportInv, NEW w \in Worker, EndRequest(w),
           UNCHANGED <<run, deleted>>
    PROVE  ImportInv'
<1>1. tx' = Idles(w) /\ jobs' = [jobs EXCEPT ![w] = Tail(@)] /\ db' = db
  BY DEF EndRequest, Finish, Idles
<1>2. ShapeInv /\ DOMAIN jobs = Worker  BY DEF EstateInv, ShapeInv
<1>3. Others(w) /\ tx'[w].step = "idle" /\ tx'[w].own = NoRows  BY <1>1, <1>2, IdleFields
<1>4. \A v \in Worker \ {w} : jobs'[v] = jobs[v]  BY <1>1, <1>2
<1>5. Marker(w)'  BY <1>3 DEF Marker, Written, NoRows
<1>6. SecretOwn(w)'  BY <1>3 DEF SecretOwn, Stamping, After
<1>7. \A v \in Worker : Reported(v)'
  <2>1. Sources' = Sources  BY <1>1 DEF Sources, Stored, The
  <2>2. QED  BY <2>1 DEF Reported, ImportInv
<1>8. ASSUME NEW v \in Worker, v # w PROVE Marker(v)' /\ SecretOwn(v)' /\ Reported(v)'
  <2>1. tx'[v] = tx[v] /\ jobs'[v] = jobs[v] /\ run'[v] = run[v]
    BY <1>3, <1>4, <1>8 DEF Others
  <2>2. Marker(v) /\ SecretOwn(v) /\ Reported(v)  BY DEF ImportInv
  <2>3. QED  BY <1>1, <2>1, <2>2, SecretStay
<1>9. OneSecret'
  <2>1. OneSecret  BY DEF ImportInv
  <2>2. QED  BY ONLY <1>1, <2>1 DEF OneSecret, Stored, The
<1>10. QED  BY <1>5, <1>6, <1>7, <1>8, <1>9 DEF ImportInv

\* A transaction is cancelled, refused, or dies with its worker.
LEMMA SecretLost ==
    ASSUME EstateInv, ImportInv, NEW w \in Worker, Victim(w) \/ Refuse(w) \/ Crash(w),
           UNCHANGED <<run, deleted>>
    PROVE  ImportInv'
<1>1. Beside /\ run' = run  BY DEF Victim, Refuse, Crash, Beside
<1>2. tx' = RolledBack(w, "failed") \/ tx' = Resets(w, "dead")
  BY Zenon DEF Victim, Refuse, Crash, Resets
<1>3. /\ "failed" \notin Stamping \cup After \cup {"finish"}
      /\ "dead" \notin Stamping \cup After \cup {"finish"}
  BY DEF Stamping, After
<1>4. QED  BY <1>1, <1>2, <1>3, SecretDrop

\* A step elsewhere.
LEMMA SecretStutter ==
    ASSUME ImportInv, UNCHANGED <<jobs, db, tx, run, deleted>>
    PROVE  ImportInv'
<1>1. ASSUME NEW v \in Worker PROVE Marker(v)' /\ SecretOwn(v)' /\ Reported(v)'
  <2>1. Marker(v) /\ SecretOwn(v) /\ Reported(v)  BY DEF ImportInv
  <2>2. QED  BY <2>1, SecretStay
<1>2. OneSecret'
  <2>1. OneSecret  BY DEF ImportInv
  <2>2. db' = db  OBVIOUS
  <2>3. QED  BY ONLY <2>1, <2>2 DEF OneSecret, Stored, The
<1>3. QED  BY <1>1, <1>2 DEF ImportInv

--------------------------------------------------------------------------------
(***************************************************************************)
(* Commits of a marker.                                                    *)
(***************************************************************************)

\* The prefix lock lets one transaction stamp credentials at a time.
LEMMA OneStamper ==
    ASSUME EstateInv, NEW v \in Worker, NEW w \in Worker, NEW r \in Written(v), NEW s \in Written(w),
           tx[v].own[r] # {}, tx[w].own[s] # {}
    PROVE  v = w
<1>1. PrefixReady(v) /\ PrefixReady(w)
  BY DEF EstateInv, OwnOK, CredentialOwn, Written
<1>2. \A u \in Worker : Singleton \in tx[u].held => db[Singleton] # {}
  BY DEF EstateInv, LockInv
<1>3. CASE Singleton \in tx[v].held /\ Singleton \in tx[w].held  BY <1>3, NotBoth
<1>4. CASE PrefixWrite \in tx[v].held /\ PrefixWrite \in tx[w].held  BY <1>4, NotBoth
<1>5. QED  BY <1>1, <1>2, <1>3, <1>4 DEF PrefixReady

\* What a commit makes of the credentials: it inserts the one it wrote, or deletes it.
LEMMA SecretRows ==
    ASSUME EstateInv, TypesInv, FateInv, ImportInv, NEW w \in Worker, tx[w].step = "commit",
           db' = Over(tx[w].own, db)
    PROVE  /\ \A c \in Stored("credential")' :
                \/ c \notin Written(w) /\ c \in Stored("credential") /\ db'[c] = db[c]
                \/ c \in Written(w) /\ tx[w].own[c] # {} /\ db'[c] = tx[w].own[c]
           /\ \A c \in Written(w) :
                /\ c \in DOMAIN db' /\ db'[c] = tx[w].own[c]
                /\ tx[w].own[c] # {} => db[c] = {}
           /\ \A c \in Stored("credential") \ Written(w) :
                c \in Stored("credential")' /\ db'[c] = db[c]
<1>1. /\ DOMAIN db' = DOMAIN tx[w].own \cup DOMAIN db
      /\ \A row \in DOMAIN tx[w].own : db'[row] = tx[w].own[row]
      /\ \A row \in DOMAIN db : row \notin DOMAIN tx[w].own => db'[row] = db[row]
  BY DEF Over
<1>2. ASSUME NEW c \in Written(w), tx[w].own[c] # {} PROVE db[c] = {}
  <2>1. c \in Drawn /\ c \in DOMAIN tx[w].own /\ c[1] = "credential"
    BY DEF ImportInv, Marker, Written
  <2>2. Inserting(w)  BY DEF FateInv, Fated
  <2>3. Placed(w, c)  BY <1>2, <2>1, <2>2 DEF Inserting
  <2>4. 1 \in DOMAIN jobs[w] /\ Job(w) = jobs[w][1]  BY <2>3, JobTyped DEF Placed
  <2>5. Draft(w, c)  BY <2>3, <2>4 DEF Placed, Draft, Past
  <2>6. QED  BY <2>1, <2>5 DEF FateInv, DraftsOK
<1>3. QED  BY ONLY <1>1, <1>2 DEF Written, Stored

\* The markers a commit stores, and those it takes away.
LEMMA SecretSources ==
    ASSUME EstateInv, TypesInv, FateInv, ImportInv, NEW w \in Worker, tx[w].step = "commit",
           db' = Over(tx[w].own, db),
           deleted' = deleted \cup {c \in Cred : Vanishes(Credential(c))}
    PROVE  /\ deleted' = {} => Sources \subseteq Sources'
           /\ \A c \in Stored("credential")' :
                \/ c \notin Written(w) /\ c \in Stored("credential") /\ The(db'[c]) = The(db[c])
                \/ /\ c \in Written(w) /\ tx[w].own[c] = {The(db'[c])}
                   /\ The(db'[c]).source # "none" => The(db'[c]).source \notin Sources
<1>1. ASSUME deleted' = {}, NEW c \in Stored("credential")
      PROVE  c \in Stored("credential")' /\ db'[c] = db[c]
  <2>1. c \notin Written(w)
    <3>1. SUFFICES ASSUME c \in Written(w) PROVE FALSE  OBVIOUS
    <3>2. tx[w].own[c] = {} /\ db'[c] = {} /\ db[c] # {}
      BY <3>1, SecretRows DEF Stored
    <3>3. c \in Drawn /\ c[1] = "credential"  BY <3>1 DEF ImportInv, Marker, Written
    <3>4. PICK x \in Cred : c = Credential(x)  BY <3>3 DEF Drawn, Service
    <3>5. Vanishes(Credential(x))  BY <3>2, <3>4 DEF Vanishes
    <3>6. QED  BY <1>1, <3>5
  <2>2. QED  BY <2>1, SecretRows
<1>2. ASSUME deleted' = {} PROVE Sources \subseteq Sources'
  <2>1. \A c \in Stored("credential") : The(db[c])' = The(db[c])  BY <1>1, <1>2 DEF The
  <2>2. QED  BY <1>1, <1>2, <2>1 DEF Sources
<1>3. ASSUME NEW c \in Stored("credential")'
      PROVE  \/ c \notin Written(w) /\ c \in Stored("credential") /\ The(db'[c]) = The(db[c])
             \/ /\ c \in Written(w) /\ tx[w].own[c] = {The(db'[c])}
                /\ The(db'[c]).source # "none" => The(db'[c]).source \notin Sources
  <2>1. CASE c \notin Written(w)  BY <2>1, SecretRows
  <2>2. CASE c \in Written(w)
    <3>1. tx[w].own[c] # {} /\ db'[c] = tx[w].own[c]  BY <2>2, SecretRows
    <3>2. PICK r : tx[w].own[c] = {r} /\ (r.source # "none" => r.source \notin Sources)
      BY <2>2, <3>1 DEF ImportInv, Marker
    <3>3. The(db'[c]) = r  BY <3>1, <3>2, Single
    <3>4. QED  BY <2>2, <3>2, <3>3
  <2>3. QED  BY <2>1, <2>2
<1>4. QED  BY <1>2, <1>3

\* What another transaction would write is nobody's marker after a commit.
LEMMA SecretBeside ==
    ASSUME EstateInv, TypesInv, FateInv, ImportInv, NEW w \in Worker, NEW v \in Worker, v # w,
           tx[w].step = "commit", tx'[v] = tx[v], jobs' = jobs, run' = run,
           db' = Over(tx[w].own, db),
           deleted' = deleted \cup {c \in Cred : Vanishes(Credential(c))}
    PROVE  Marker(v)' /\ SecretOwn(v)' /\ Reported(v)'
<1>0. Marker(v) /\ SecretOwn(v) /\ Reported(v)  BY DEF ImportInv
<1>1. (Has(v, "import")' <=> Has(v, "import")) /\ Job(v)' = Job(v)  BY DEF Has, Job
<1>2. Item(v)' = Item(v) /\ (Importing(v)' <=> Importing(v))  BY <1>1 DEF Item, Importing
<1>3. deleted' = {} => deleted = {} /\ Sources \subseteq Sources'  BY SecretSources
<1>4. ASSUME NEW row \in Written(v), NEW r \in tx[v].own[row], tx[v].own[row] = {r},
             r.source # "none", r.source \notin Sources
      PROVE  r.source \notin Sources'
  <2>1. SUFFICES ASSUME r.source \in Sources' PROVE FALSE  OBVIOUS
  <2>2. \A c : The(db[c])' = The(db'[c])  BY DEF The
  <2>3. PICK c \in Stored("credential")' : The(db'[c]).source = r.source
    BY <2>1, <2>2 DEF Sources
  <2>4. CASE c \notin Written(w)
    <3>1. c \in Stored("credential") /\ The(db'[c]) = The(db[c])  BY <2>4, SecretSources
    <3>2. QED  BY <1>4, <2>3, <3>1 DEF Sources
  <2>5. CASE c \in Written(w)
    <3>1. tx[w].own[c] # {}  BY <2>5, SecretSources
    <3>2. tx[v].own[row] # {}  BY <1>4
    <3>3. v = w  BY <2>5, <3>1, <3>2, OneStamper
    <3>4. QED  BY <3>3
  <2>6. QED  BY <2>4, <2>5
<1>5. Marker(v)'
  <2>1. Written(v)' = Written(v) /\ Drawn' = Drawn /\ Stamping' = Stamping
    BY DEF Written, Drawn, Credential, Service, Stamping
  <2>2. \A row \in Written(v) : tx[v].own[row] # {} =>
           \E r \in tx[v].own[row] :
              tx[v].own[row] = {r} /\ (r.source # "none" => r.source \notin Sources')
    BY <1>0, <1>4 DEF Marker
  <2>3. QED  BY <1>0, <2>1, <2>2 DEF Marker
<1>6. SecretOwn(v)'
  BY <1>0, <1>1, <1>2, <1>3 DEF SecretOwn, Stamping, After, Credential, Assignment
<1>7. Reported(v)'  BY <1>0, <1>3 DEF Reported
<1>8. QED  BY <1>5, <1>6, <1>7

--------------------------------------------------------------------------------
(***************************************************************************)
(* A secret is imported once, and completely.                              *)
(***************************************************************************)

\* A commit stores a marker once, and the secret of an importer with it.
LEMMA SecretCommitted ==
    ASSUME EstateInv, TypesInv, FateInv, ImportInv, NEW w \in Worker, tx[w].step = "commit",
           tx' = Commits(w), jobs' = jobs, run' = run, db' = Over(tx[w].own, db),
           deleted' = deleted \cup {c \in Cred : Vanishes(Credential(c))}
    PROVE  ImportInv'
<1>0. /\ ShapeInv /\ Marker(w) /\ SecretOwn(w) /\ Reported(w) /\ OneSecret
  BY DEF EstateInv, ImportInv
<1>1. Others(w) /\ tx'[w].step = "callbacks" /\ tx'[w].own = NoRows
  BY <1>0, CommittedFields
<1>2. \A c : The(db[c])' = The(db'[c])  BY DEF The
<1>3. deleted' = {} => deleted = {} /\ Sources \subseteq Sources'  BY SecretSources
<1>4. Marker(w)'  BY <1>1 DEF Marker, Written, NoRows
<1>5. SecretOwn(w)'
  <2>1. SUFFICES ASSUME Has(w, "import") PROVE Item(w).source \in Sources'
    <3>1. (Has(w, "import")' <=> Has(w, "import")) /\ Item(w)' = Item(w)  BY DEF Has, Job, Item
    <3>2. QED  BY <1>1, <2>1, <3>1 DEF SecretOwn, Stamping
  <2> DEFINE row == Credential(Item(w).cred)
  <2>2. PICK r \in tx[w].own[row] : tx[w].own[row] = {r} /\ r.source = Item(w).source
    BY <1>0, <2>1 DEF SecretOwn, Stamping
  <2>3. row \in Written(w)  BY <1>0, <2>1 DEF SecretOwn, Stamping, Written, Credential
  <2>4. row[1] = "credential"  BY DEF Credential
  <2> HIDE DEF row
  <2>5. row \in DOMAIN db' /\ db'[row] = {r}  BY <2>2, <2>3, SecretRows
  <2>6. row \in Stored("credential")' /\ The(db'[row]) = r  BY <2>4, <2>5, Single DEF Stored
  <2>7. QED  BY <1>2, <2>2, <2>6 DEF Sources
<1>6. Reported(w)'  BY <1>0, <1>3 DEF Reported
<1>7. ASSUME NEW v \in Worker, v # w PROVE Marker(v)' /\ SecretOwn(v)' /\ Reported(v)'
  <2>1. tx'[v] = tx[v]  BY <1>1, <1>7 DEF Others
  <2>2. QED  BY <1>7, <2>1, SecretBeside
<1>8. ASSUME NEW c \in Stored("credential")', NEW d \in Stored("credential")',
             The(db'[c]).source = The(db'[d]).source, The(db'[c]).source # "none"
      PROVE  c = d
  <2>1. CASE c \in Written(w) /\ d \in Written(w)  BY <1>0, <2>1 DEF Marker
  <2>2. CASE c \in Written(w) /\ d \notin Written(w)
    <3>1. The(db'[c]).source \notin Sources  BY <1>8, <2>2, SecretSources
    <3>2. d \in Stored("credential") /\ The(db'[d]) = The(db[d])  BY <2>2, SecretSources
    <3>3. QED  BY <1>8, <3>1, <3>2 DEF Sources
  <2>3. CASE c \notin Written(w) /\ d \in Written(w)
    <3>1. The(db'[d]).source \notin Sources  BY <1>8, <2>3, SecretSources
    <3>2. c \in Stored("credential") /\ The(db'[c]) = The(db[c])  BY <2>3, SecretSources
    <3>3. QED  BY <1>8, <3>1, <3>2 DEF Sources
  <2>4. CASE c \notin Written(w) /\ d \notin Written(w)
    <3>1. /\ c \in Stored("credential") /\ The(db'[c]) = The(db[c])
          /\ d \in Stored("credential") /\ The(db'[d]) = The(db[d])
      BY <2>4, SecretSources
    <3>2. QED  BY <1>0, <1>8, <3>1 DEF OneSecret
  <2>5. QED  BY <2>1, <2>2, <2>3, <2>4
<1>9. OneSecret'  BY <1>2, <1>8 DEF OneSecret
<1>10. QED  BY <1>4, <1>5, <1>6, <1>7, <1>9 DEF ImportInv

\* A commit, with its history.
LEMMA SecretCommit ==
    ASSUME EstateInv, TypesInv, FateInv, ImportInv, NEW w \in Worker, CommitEstate(w)
    PROVE  ImportInv'
<1>1. /\ tx[w].step = "commit" /\ jobs' = jobs /\ run' = run
      /\ deleted' = deleted \cup {c \in Cred : Vanishes(Credential(c))}
  BY DEF CommitEstate, Commit, At
<1>2. \/ db' = Over(tx[w].own, db) /\ tx' = Commits(w)
      \/ db' = db /\ tx' = RolledBack(w, "failed")
  BY DEF CommitEstate, Commit, Commits
<1>3. CASE db' = Over(tx[w].own, db) /\ tx' = Commits(w)  BY <1>1, <1>3, SecretCommitted
<1>4. CASE db' = db /\ tx' = RolledBack(w, "failed")
  <2>1. \A c : ~Vanishes(Credential(c))  BY <1>4 DEF Vanishes
  <2>2. Beside  BY <1>1, <1>4, <2>1 DEF Beside
  <2>3. "failed" \notin Stamping \cup After \cup {"finish"}  BY DEF Stamping, After
  <2>4. QED  BY <1>1, <1>4, <2>2, <2>3, SecretDrop
<1>5. QED  BY <1>2, <1>3, <1>4

\* ImportInv is inductive.
LEMMA NextImport ==
    ASSUME EstateInv, IdentityInv, TypesInv, FateInv, SharedInv, ImportInv, [Next]_vars
    PROVE  ImportInv'
<1>1. ASSUME NEW w \in Worker, Serves(w) PROVE ImportInv'
  <2>1. CASE SettingsWork(w) /\ UNCHANGED <<graphVars, identityVars>>
    BY <2>1, SecretSettings
  <2>2. CASE GraphWork(w)  BY <2>2, SecretGraph
  <2>3. CASE IdentityWork(w) /\ UNCHANGED <<settingsVars, graphVars>>  BY <2>3, SecretIdentity
  <2>4. CASE EndRequest(w) /\ UNCHANGED <<graphVars, identityVars>>
    BY <2>4, SecretEnd DEF graphVars
  <2>5. CASE CommitEstate(w)  BY <2>5, SecretCommit
  <2>6. CASE PostgreSQL(w)  BY <2>6, SecretGrant, SecretLost DEF PostgreSQL, graphVars
  <2>7. QED  BY <1>1, <2>1, <2>2, <2>3, <2>4, <2>5, <2>6 DEF Serves, Work
<1>2. ASSUME NEW w \in Worker, Fails(w) PROVE ImportInv'
  BY <1>2, SecretLost DEF Fails, graphVars
<1>3. ASSUME NEW w \in Worker, Consult(w), UNCHANGED <<graphVars, identityVars>> PROVE ImportInv'
  BY <1>3, SecretStutter DEF Consult, graphVars
<1>4. CASE Expire /\ UNCHANGED <<settingsVars, graphVars>>
  BY <1>4, SecretStutter DEF Expire, graphVars
<1>5. CASE UNCHANGED vars  BY <1>5, SecretStutter DEF vars, graphVars
<1>6. QED  BY <1>1, <1>2, <1>3, <1>4, <1>5 DEF Next

\* No run has begun, and the unique constraint holds.
LEMMA InitImport ==
    ASSUME Init PROVE ImportInv
<1>1. PICK load \in Workloads : db = load.rows /\ jobs = load.jobs  BY DEF Init, DatabaseInit
<1>2. /\ tx = [w \in Worker |-> Idle]
      /\ run = [w \in Worker |-> [known |-> {}, at |-> 1, reported |-> {}]]
  BY DEF Init, DatabaseInit, GraphInit
<1>3. ASSUME NEW w \in Worker PROVE Marker(w) /\ SecretOwn(w) /\ Reported(w)
  <2>1. tx[w].step = "idle" /\ tx[w].own = NoRows  BY <1>2 DEF Idle
  <2>2. Marker(w)  BY <2>1 DEF Marker, Written, NoRows
  <2>3. SecretOwn(w)  BY <2>1 DEF SecretOwn, Stamping, After
  <2>4. Reported(w)  BY <1>2 DEF Reported
  <2>5. QED  BY <2>2, <2>3, <2>4
<1>4. OneSecret
  <2>1. Marked(db)  BY <1>1, KeyAssumption
  <2>2. QED  BY <2>1 DEF Marked, OneSecret, Stored, Filled
<1>5. QED  BY <1>3, <1>4 DEF ImportInv

\* What importers leave, in every state.
THEOREM ImportCorrect == Spec => []ImportInv
<1>1. Init => ImportInv /\ IdentityInv  BY InitImport, InitIdentity
<1>2. EstateInv /\ EstateInv' /\ IdentityInv /\ [Next]_vars => IdentityInv'  BY NextIdentity
<1>3. EstateInv /\ IdentityInv /\ TypesInv /\ FateInv /\ SharedInv /\ ImportInv /\ [Next]_vars
      => ImportInv'
  BY NextImport
<1>4. QED
  BY <1>1, <1>2, <1>3, EstateCorrect, TypesCorrect, FateCorrect, SharedCorrect, PTL DEF Spec

\* A secret is imported once, and what a run reports as there is there.
THEOREM SecretsImportedOnce == Spec => []ImportedOnce
<1>1. ImportInv => ImportedOnce
  <2>1. SUFFICES ASSUME ImportInv PROVE ImportedOnce  OBVIOUS
  <2>2. OneSecret /\ \A w \in Worker : Reported(w)  BY <2>1 DEF ImportInv
  <2>3. QED  BY <2>2 DEF ImportedOnce, OneSecret, Reported, Sources
<1>2. QED  BY <1>1, ImportCorrect, PTL

\* What an imported secret's commit promises, the commit puts down.
LEMMA SecretComplete ==
    ASSUME EstateInv, ImportInv, NEW w \in Worker, CommitEstate(w), NEW pair \in asked' \ asked,
           pair[1][1] = "credential"
    PROVE  db'[pair[1]] # {} /\ pair[2] \in Bound(pair[1][2])' \cup {"none"}
<1>0. PICK c, target, a : /\ c = Item(w).cred /\ target = Item(w).target
                          /\ a = Assignment(Item(w).assignment)
  OBVIOUS
<1>1. /\ tx[w].step = "commit" /\ tx'[w].step = "callbacks" /\ pair \in Asked(w)
      /\ SecretOwn(w) /\ ShapeInv
  BY DEF CommitEstate, Commit, At, ImportInv, EstateInv
<1>2. Has(w, "import") /\ pair = <<Credential(c), target>>
  <2>1. CASE Has(w, "quickadd")  BY <1>1, <2>1 DEF Asked, Unseen, Named
  <2>2. CASE ~Has(w, "quickadd")  BY <1>0, <1>1, <2>2 DEF Asked
  <2>3. QED  BY <2>1, <2>2
<1>3. db' = Over(tx[w].own, db)
  <2>1. tx' = RolledBack(w, "failed") => tx'[w].step = "failed"  BY <1>1, RolledBackFields
  <2>2. QED  BY <1>1, <2>1 DEF CommitEstate, Commit
<1>4. \A row \in DOMAIN tx[w].own : row \in DOMAIN db' /\ db'[row] = tx[w].own[row]
  BY <1>3 DEF Over
<1>5. db'[Credential(c)] # {}  BY <1>0, <1>1, <1>2, <1>4 DEF SecretOwn, Stamping
<1>6. ASSUME target # "none" PROVE target \in Bound(c)'
  <2> DEFINE bound == [cred |-> c, target |-> target]
  <2>1. a \in DOMAIN db' /\ db'[a] = {bound}  BY <1>0, <1>1, <1>2, <1>4, <1>6 DEF SecretOwn
  <2>2. a[1] = "assignment" /\ bound.cred = c /\ bound.target = target  BY <1>0 DEF Assignment
  <2> HIDE DEF bound
  <2>3. The(db'[a]) = bound  BY <2>1, Single
  <2>4. \A row : The(db[row])' = The(db'[row])  BY DEF The
  <2>5. Bound(c)' = {The(db'[row]).target : row \in {x \in DOMAIN db' : x[1] = "assignment" /\
                                                       \E r \in db'[x] : r.cred = c}}
    BY <2>4 DEF Bound
  <2>6. QED  BY <2>1, <2>2, <2>3, <2>5
<1>7. pair[1] = Credential(c) /\ pair[1][2] = c /\ pair[2] = target  BY <1>2 DEF Credential
<1>8. QED  BY <1>5, <1>6, <1>7

\* Only a commit promises anything.
LEMMA AskedStays ==
    ASSUME EstateInv, IdentityInv, TypesInv, [Next]_vars, asked' # asked
    PROVE  \E w \in Worker : CommitEstate(w)
<1>1. \A w : GraphWork(w) => asked' = asked
  BY DEF GraphWork, Create, Stamp, Assign, _assign, Reassign, capture_previous_credential, Rebind,
     Unassign, DeleteAssignment, Delete, Clear, destroy_material_on_delete, _lock_metadata,
     _publish_custom_metadata, Project, set_metadata, delete_material, Respond, quick_add_ssh,
     _new_ip_address, LockService, _get_or_create_service, import_secrets, ImportSecret, NextSecret,
     Imported, Quiet, graphVars
<1>2. \A w \in Worker : Serves(w) => CommitEstate(w)
  BY <1>1 DEF Serves, Work, PostgreSQL, graphVars
<1>3. \A w : ~Fails(w)  BY DEF Fails, graphVars
<1>4. QED  BY <1>2, <1>3 DEF Next, vars, graphVars

\* An imported secret is never committed without its assignment.
THEOREM ImportsAreComplete == Spec => ImportsComplete
<1> DEFINE Complete == \A pair \in asked' \ asked : pair[1][1] = "credential" =>
                          /\ db'[pair[1]] # {}
                          /\ pair[2] \in Bound(pair[1][2])' \cup {"none"}
<1>1. EstateInv /\ IdentityInv /\ TypesInv /\ ImportInv /\ [Next]_vars => [Complete]_vars
  <2>1. SUFFICES ASSUME EstateInv, IdentityInv, TypesInv, ImportInv, [Next]_vars,
                        NEW pair \in asked' \ asked, pair[1][1] = "credential"
                 PROVE  db'[pair[1]] # {} /\ pair[2] \in Bound(pair[1][2])' \cup {"none"}
    OBVIOUS
  <2>2. PICK w \in Worker : CommitEstate(w)  BY <2>1, AskedStays
  <2>3. QED  BY <2>1, <2>2, SecretComplete
<1>2. Init => IdentityInv  BY InitIdentity
<1>3. EstateInv /\ EstateInv' /\ IdentityInv /\ [Next]_vars => IdentityInv'  BY NextIdentity
<1>4. QED
  BY <1>1, <1>2, <1>3, EstateCorrect, TypesCorrect, ImportCorrect, PTL DEF Spec, ImportsComplete

================================================================================
