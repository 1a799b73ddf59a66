----------------------------- MODULE SettingsMemory -----------------------------
(***************************************************************************)
(* The settings singleton (models/settings.py), its per-thread memo        *)
(* (conf.py, middleware.py, jobs.py) and the lock that serialises the path *)
(* prefix with the credentials stamped under it.                           *)
(***************************************************************************)
EXTENDS DatabaseTransaction

CONSTANTS Prefix, DefaultPrefix

VARIABLES
    memo,      \* _thread_locals.config: empty, or the rows it read (none is _MISSING)
    pending,   \* _thread_locals.settings_write_transaction
    fresh      \* the committed settings each request has lived with (history)

settingsVars == <<memo, pending, fresh>>

Singleton == <<"settings", "default">>
PrefixWrite == <<"advisory", "_PREFIX_WRITE_LOCK_ID">>

SettingsInit ==
    /\ memo = [w \in Worker |-> <<>>]
    /\ pending = [w \in Worker |-> FALSE]
    /\ fresh = [w \in Worker |-> {db[Singleton]}]

--------------------------------------------------------------------------------
\* True while the thread is inside the transaction that wrote settings.
_settings_write_is_uncommitted(w) == pending[w] /\ tx[w].open

\* What get_config reads, and the memo it leaves.
_current_config(w) ==
    IF _settings_write_is_uncommitted(w) \/ memo[w] = <<>>
    THEN Seen(w, Singleton) ELSE Head(memo[w])
get_config(w) ==
    LET rows == _current_config(w) IN
    IF rows = {} THEN DefaultPrefix ELSE The(rows).prefix
Remember(w) ==
    /\ pending' = [pending EXCEPT ![w] = _settings_write_is_uncommitted(w)]
    /\ memo' = [memo EXCEPT ![w] = IF _settings_write_is_uncommitted(w) THEN @
                                   ELSE <<_current_config(w)>>]

\* A settings request reads settings too, before, inside and after its transaction.
Consult(w) ==
    /\ Has(w, "configure") \/ Has(w, "unset")
    /\ tx[w].step \notin {"idle", "dead"} /\ tx[w].wants = <<>>
    /\ Remember(w)
    /\ UNCHANGED <<jobs, db, tx, fresh>>

\* Mutant: nothing marks the uncommitted write.
ClearUnmarked(w, pending_write) ==
    memo' = [memo EXCEPT ![w] = <<>>] /\ pending' = [pending EXCEPT ![w] = FALSE]

clear_config(w, pending_write) ==
    /\ memo' = [memo EXCEPT ![w] = <<>>]
    /\ pending' = [pending EXCEPT ![w] = pending_write /\ tx[w].open]

\* The middleware and the job wrapper discard the memo with the request.
EndRequest(w) ==
    /\ Finish(w)
    /\ clear_config(w, FALSE)
    /\ fresh' = [fresh EXCEPT ![w] = {db[Singleton]}]

--------------------------------------------------------------------------------
Credentials(w) == {The(Seen(w, row)) : row \in Table(w, "credential")}

\* No row yet: the prefix every stored path encodes.  Later: unchanged, or no credential.
_validate_prefix_change(w, prefix, previous) ==
    IF previous = {} THEN \A c \in Credentials(w) : c.prefix = prefix
    ELSE The(previous).prefix = prefix \/ Credentials(w) = {}

\* The form or serializer loads the row and validates, then save() begins its transaction.
Configure(w) ==
    /\ Ready(w, "configure")
    /\ LET row == db[Singleton] IN
       tx' = IF _validate_prefix_change(w, Job(w).prefix, row)
             THEN Open(w, "prefix", <<Singleton>>, Only(Singleton, row)) ELSE Answered(w)
    /\ UNCHANGED <<jobs, db, settingsVars>>

Unset(w) ==
    /\ Ready(w, "unset")
    /\ tx' = IF db[Singleton] = {} THEN Answered(w)
             ELSE Open(w, "prefix", <<Singleton>>, Only(Singleton, db[Singleton]))
    /\ UNCHANGED <<jobs, db, settingsVars>>

\* Mutant: nothing to lock while there is no row.
RowLockOnly(w) ==
    /\ At(w, "prefix")
    /\ tx' = Goto(w, "locked", <<>>)
    /\ UNCHANGED <<jobs, db, settingsVars>>

\* The row lock, or with no row the advisory lock and a second look.
_lock_for_prefix_write(w) ==
    /\ At(w, "prefix")
    /\ tx' = Goto(w, "locked", IF Singleton \in tx[w].held THEN <<>>
                               ELSE <<PrefixWrite, Singleton>>)
    /\ UNCHANGED <<jobs, db, settingsVars>>

Locked(w) == IF Singleton \in tx[w].held THEN Seen(w, Singleton) ELSE {}
Loaded(w) == tx[w].loaded[Singleton]

\* Mutant: a refusal answered from inside the transaction.
RefusedInside(w) ==
    /\ At(w, "locked") /\ Has(w, "configure")
    /\ tx' = Answered(w)
    /\ UNCHANGED <<jobs, db, settingsVars>>

_save_locked(w) ==
    LET prefix == Job(w).prefix
        pk == IF Loaded(w) = {} THEN <<w, Len(jobs[w])>> ELSE The(Loaded(w)).pk
        current == IF Loaded(w) = {} THEN Locked(w) = {}
                   ELSE Locked(w) # {} /\ The(Locked(w)).pk = pk
    IN
    /\ At(w, "locked") /\ Has(w, "configure")
    /\ \/ /\ current /\ _validate_prefix_change(w, prefix, Locked(w))
          /\ tx' = Write(w, Only(Singleton, {[pk |-> pk, prefix |-> prefix]}), <<>>, "commit", <<>>)
          /\ clear_config(w, TRUE)
       \/ /\ ~(current /\ _validate_prefix_change(w, prefix, Locked(w)))
          /\ tx' = RolledBack(w, "failed")
          /\ UNCHANGED <<memo, pending>>
    /\ UNCHANGED <<jobs, db, fresh>>

\* delete(), and through pre_delete QuerySet.delete(): refused while credentials exist.
\* The DELETE names the loaded row, which may be another one by now.
_ensure_deletable(w) == Locked(w) = {} \/ Credentials(w) = {}
delete_settings(w) ==
    /\ At(w, "locked") /\ Has(w, "unset")
    /\ \/ /\ _ensure_deletable(w)
          /\ tx' = Write(w, IF \E row \in Locked(w) : row.pk = The(Loaded(w)).pk
                            THEN Only(Singleton, {}) ELSE NoRows, <<>>, "commit", <<>>)
          /\ clear_config(w, TRUE)
       \/ ~_ensure_deletable(w) /\ tx' = RolledBack(w, "failed") /\ UNCHANGED <<memo, pending>>
    /\ UNCHANGED <<jobs, db, fresh>>

SettingsWork(w) ==
    \/ Configure(w) \/ Unset(w) \/ _save_locked(w) \/ delete_settings(w)
    \/ _lock_for_prefix_write(w)

================================================================================
