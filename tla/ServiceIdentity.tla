----------------------------- MODULE ServiceIdentity -----------------------------
(***************************************************************************)
(* EngineAuthMaterial: rotations that merge the submitted fields onto the  *)
(* locked row, and the tokens and client-certificate sessions kept under   *)
(* the row's revision (models/auth.py, signals.py, backends).              *)
(***************************************************************************)
EXTENDS DatabaseTransaction

CONSTANT Field      \* the secrets of one row

VARIABLES
    kept,      \* by revision, what was logged in with: the shared cache, each process's pool
    serving,   \* the backend object of each worker: its revision, and its client
    history,   \* the fields committed under each revision (history)
    intended   \* the last value committed for each field (history)

identityVars == <<kept, serving, history, intended>>

Material == <<"material", "m">>
Cache == "cache"
NoKept == [revision \in {} |-> [f \in Field |-> 0]]
NoClient == [floor |-> 0, revision |-> 0, client |-> <<>>, calls |-> 0]

IdentityInit ==
    /\ kept = [place \in Worker \cup {Cache} |-> NoKept]
    /\ serving = [w \in Worker |-> NoClient]
    /\ history = IF db[Material] = {} THEN NoKept
                 ELSE Only(The(db[Material]).revision, The(db[Material]).fields)
    /\ intended = IF db[Material] = {} THEN [f \in Field |-> 0] ELSE The(db[Material]).fields

Invalidate(revision) == [call |-> "invalidate", revision |-> revision]
Rest == UNCHANGED <<jobs, db, identityVars>>

--------------------------------------------------------------------------------
\* The form or command loads the row, encrypts some fields, and saves.
Rotate(w) ==
    /\ Ready(w, "rotate")
    /\ tx' = IF db[Material] = {} THEN Answered(w)
             ELSE Open(w, "merge", <<Material>>, Only(Material, db[Material]))
    /\ Rest

\* openbao_configure reencrypt: every field again, on a row it locks before loading.
Reencrypt(w) ==
    /\ Ready(w, "reencrypt")
    /\ tx' = Open(w, "merge", <<Material>>, NoRows)
    /\ Rest

_submitted_fields(w) == IF Has(w, "rotate") THEN Job(w).fields ELSE {}

\* Mutant: the whole loaded instance is saved.
SaveWhole(w) ==
    /\ At(w, "merge")
    /\ LET old == The(Seen(w, Material))
           loaded == The(Over(tx[w].loaded, Only(Material, {old}))[Material])
           fields == [f \in Field |-> IF f \in _submitted_fields(w) THEN Job(w).value
                                      ELSE loaded.fields[f]]
       IN tx' = IF Seen(w, Material) = {} THEN RolledBack(w, "failed")
                ELSE Write(w, Only(Material, {[revision |-> old.revision + 1, fields |-> fields]}),
                           <<Invalidate(old.revision)>>, "commit", <<>>)
    /\ Rest

\* Only the submitted fields go onto the locked row, with the next revision.
save(w) ==
    /\ At(w, "merge")
    /\ LET old == The(Seen(w, Material))
           fields == [f \in Field |-> IF f \in _submitted_fields(w) THEN Job(w).value
                                      ELSE old.fields[f]]
       IN tx' = IF Seen(w, Material) = {} THEN RolledBack(w, "failed")
                ELSE Write(w, Only(Material, {[revision |-> old.revision + 1, fields |-> fields]}),
                           <<Invalidate(old.revision)>>, "commit", <<>>)
    /\ Rest

Withdraw(w) ==
    /\ Ready(w, "withdraw")
    /\ tx' = IF db[Material] = {} THEN Answered(w)
             ELSE Open(w, "withdraw", <<Material>>, Only(Material, db[Material]))
    /\ Rest

DeleteMaterial(w) ==
    /\ At(w, "withdraw")
    /\ tx' = Write(w, Only(Material, {}), <<Invalidate(The(tx[w].loaded[Material]).revision)>>,
                   "commit", <<>>)
    /\ Rest

\* After the commit: the shared token, and the sessions of this process only.
Dropped(place, revision) ==
    [r \in DOMAIN kept[place] \ {revision} |-> kept[place][r]]
invalidate_auth_material_sessions(w) ==
    /\ At(w, "callbacks") /\ tx[w].hooks # <<>> /\ Head(tx[w].hooks).call = "invalidate"
    /\ LET revision == Head(tx[w].hooks).revision IN
       kept' = [kept EXCEPT ![Cache] = Dropped(Cache, revision), ![w] = Dropped(w, revision)]
    /\ tx' = [tx EXCEPT ![w].hooks = Tail(@)]
    /\ UNCHANGED <<jobs, db, serving, history, intended>>

--------------------------------------------------------------------------------
\* A backend object serves several calls of one request.
Place(w) == IF Job(w).broker THEN w ELSE Cache
Revision(rows) == IF rows = {} THEN 0 ELSE The(rows).revision

\* Mutant: one key for the row.
IdentityOfRow(rows) == IF rows = {} THEN 0 ELSE 1

\* The key of tokens and sessions carries the revision.
cache_identity(rows) == Revision(rows)

get_backend(w) ==
    /\ Ready(w, "call")
    /\ serving' = [serving EXCEPT ![w] = [NoClient EXCEPT !.calls = Job(w).calls]]
    /\ tx' = [tx EXCEPT ![w].step = "refresh", ![w].loaded = Only(Material, db[Material])]
    /\ UNCHANGED <<jobs, db, kept, history, intended>>

\* The revision is read before every use; a different one drops the client.  Reading the
\* row is a second query.
refresh_auth_material(w) ==
    /\ At(w, "refresh")
    /\ LET now == Revision(db[Material])
           same == now = Revision(tx[w].loaded[Material])
       IN /\ serving' = [serving EXCEPT ![w].floor = now, ![w].client = IF same THEN @ ELSE <<>>]
          /\ tx' = Goto(w, IF same THEN "client" ELSE "reload", <<>>)
    /\ UNCHANGED <<jobs, db, kept, history, intended>>

Reload(w) ==
    /\ At(w, "reload")
    /\ tx' = IF db[Material] = {} /\ serving[w].floor # 0 THEN Answered(w)
             ELSE [tx EXCEPT ![w].step = "client", ![w].loaded = Only(Material, db[Material])]
    /\ Rest

\* The client at hand, the kept login of this revision, or a login with the loaded fields.
_get_client(w) ==
    LET rows == tx[w].loaded[Material]
        revision == cache_identity(rows)
        login == <<The(rows).fields>>
        there == revision \in DOMAIN kept[Place(w)]
    IN
    /\ At(w, "client")
    /\ \/ /\ serving[w].client # <<>>
          /\ tx' = Goto(w, "present", <<>>) /\ UNCHANGED <<serving, kept>>
       \/ /\ serving[w].client = <<>> /\ rows = {}
          /\ tx' = Answered(w) /\ UNCHANGED <<serving, kept>>
       \/ /\ serving[w].client = <<>> /\ rows # {} /\ there
          /\ serving' = [serving EXCEPT ![w].revision = revision,
                                        ![w].client = <<kept[Place(w)][revision]>>]
          /\ tx' = Goto(w, "present", <<>>) /\ UNCHANGED kept
       \/ /\ serving[w].client = <<>> /\ rows # {} /\ ~there
          /\ serving' = [serving EXCEPT ![w].revision = revision, ![w].client = login]
          /\ tx' = Goto(w, "keep", <<>>) /\ UNCHANGED kept
    /\ UNCHANGED <<jobs, db, history, intended>>

\* cache.set, or the pool, after the login has answered.
Keep(w) ==
    /\ At(w, "keep")
    /\ kept' = [kept EXCEPT ![Place(w)] = Over(Only(serving[w].revision, Head(serving[w].client)), @)]
    /\ tx' = Goto(w, "present", <<>>)
    /\ UNCHANGED <<jobs, db, serving, history, intended>>

\* The call itself, and perhaps another one with the same backend object.
Present(w) ==
    /\ At(w, "present")
    /\ serving' = [serving EXCEPT ![w].calls = @ - 1]
    /\ tx' = Goto(w, IF serving[w].calls > 1 THEN "refresh" ELSE "finish", <<>>)
    /\ UNCHANGED <<jobs, db, kept, history, intended>>

\* The lease of a kept token ends.
Expire ==
    /\ \E revision \in DOMAIN kept[Cache] :
         kept' = [kept EXCEPT ![Cache] = Dropped(Cache, revision)]
    /\ UNCHANGED <<jobs, db, tx, serving, history, intended>>

IdentityWork(w) ==
    \/ Rotate(w) \/ Reencrypt(w) \/ save(w) \/ Withdraw(w) \/ DeleteMaterial(w)
    \/ invalidate_auth_material_sessions(w)
    \/ get_backend(w) \/ refresh_auth_material(w) \/ Reload(w) \/ _get_client(w) \/ Keep(w)
    \/ Present(w)

================================================================================
