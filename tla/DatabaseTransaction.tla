-------------------------- MODULE DatabaseTransaction --------------------------
(***************************************************************************)
(* The requests of several NetBox processes over one PostgreSQL database:  *)
(* READ COMMITTED reads, row and advisory locks held to the end of the     *)
(* transaction, deadlock victims, deferred foreign keys, on_commit hooks.  *)
(* All of it is external to the plugin and modelled from how the plugin    *)
(* uses it.  A row is the empty set (absent) or the set of its record.     *)
(***************************************************************************)
EXTENDS Naturals, Sequences, FiniteSets, TLC

CONSTANTS
    Worker,     \* processes serving requests
    Mortal,     \* those that may die
    Workloads   \* the initial rows, and the requests each worker serves in turn

VARIABLES
    jobs,       \* the requests each worker has left, the one it serves first
    db,         \* the committed rows, by <<table, key>>
    tx          \* what each worker is doing, with its transaction

Job(w) == Head(jobs[w])
Has(w, kind) == jobs[w] # <<>> /\ Job(w).kind = kind

NoRows == [row \in {} |-> {}]
Only(row, records) == [r \in {row} |-> records]
Over(new, old) ==
    [row \in DOMAIN new \cup DOMAIN old |-> IF row \in DOMAIN new THEN new[row] ELSE old[row]]

Idle == [step |-> "idle", open |-> FALSE, own |-> NoRows, held |-> {}, wants |-> <<>>,
         hooks |-> <<>>, loaded |-> NoRows, image |-> {}]

DatabaseInit ==
    /\ \E load \in Workloads : db = load.rows /\ jobs = load.jobs
    /\ tx = [w \in Worker |-> Idle]

\* A statement sees what is committed when it starts, and its own transaction's writes.
Seen(w, row) == IF row \in DOMAIN tx[w].own THEN tx[w].own[row] ELSE db[row]
Table(w, table) == {row \in DOMAIN db : row[1] = table /\ Seen(w, row) # {}}
The(rows) == CHOOSE r \in rows : TRUE

At(w, step) == tx[w].step = step /\ tx[w].wants = <<>>
Ready(w, kind) == At(w, "idle") /\ Has(w, kind)

\* Next in the same transaction: what to lock, then where to go on.
Goto(w, step, locks) == [tx EXCEPT ![w].step = step, ![w].wants = locks]
Open(w, step, locks, loaded) ==
    [tx EXCEPT ![w].step = step, ![w].open = TRUE, ![w].wants = locks, ![w].loaded = loaded]
Write(w, rows, hooks, step, locks) ==
    [tx EXCEPT ![w].own = Over(rows, @), ![w].hooks = @ \o hooks, ![w].step = step,
               ![w].wants = locks]
RolledBack(w, step) ==
    [tx EXCEPT ![w] = [Idle EXCEPT !.step = step, !.loaded = tx[w].loaded]]
Answered(w) == [tx EXCEPT ![w].step = "finish"]

--------------------------------------------------------------------------------
\* SELECT ... FOR UPDATE, UPDATE and DELETE lock the rows they find: nothing when the
\* row is not visible.  Advisory locks are always found.
Found(w, lock) == lock \notin DOMAIN db \/ Seen(w, lock) # {}
Holders(w, lock) == {v \in Worker \ {w} : lock \in tx[v].held}
Blockers(w) ==
    IF tx[w].wants = <<>> THEN {}
    ELSE LET lock == Head(tx[w].wants) IN
         IF Found(w, lock) THEN Holders(w, lock) ELSE {}

Grant(w) ==
    /\ tx[w].wants # <<>> /\ Blockers(w) = {}
    /\ LET lock == Head(tx[w].wants)
           locked == IF Found(w, lock) THEN {lock} ELSE {}
       IN tx' = [tx EXCEPT ![w].wants = Tail(@), ![w].held = @ \cup locked]
    /\ UNCHANGED <<jobs, db>>

\* A transaction in a circle of waits is cancelled.
Victim(w) ==
    /\ \E circle \in SUBSET Worker :
         w \in circle /\ circle = UNION {Blockers(v) : v \in circle}
    /\ tx' = RolledBack(w, "failed")
    /\ UNCHANGED <<jobs, db>>

\* Foreign keys are checked at the end: an assignment names a credential.
Consistent(rows) ==
    \A row \in DOMAIN rows : row[1] = "assignment" /\ rows[row] # {} =>
        rows[<<"credential", The(rows[row]).cred>>] # {}

Commit(w) ==
    /\ At(w, "commit")
    /\ LET rows == Over(tx[w].own, db) IN
       \/ /\ Consistent(rows)
          /\ db' = rows
          /\ tx' = [tx EXCEPT ![w] = [Idle EXCEPT !.step = "callbacks", !.hooks = tx[w].hooks,
                                                  !.loaded = tx[w].loaded]]
       \/ ~Consistent(rows) /\ tx' = RolledBack(w, "failed") /\ UNCHANGED db
    /\ UNCHANGED jobs

\* What follows the writes in the request (object permissions, the caller's conform
\* check, a lost connection) may still raise.
Refuse(w) ==
    /\ At(w, "commit")
    /\ tx' = RolledBack(w, "failed")
    /\ UNCHANGED <<jobs, db>>

Finish(w) ==
    /\ tx[w].step \in {"finish", "failed"}
    /\ tx' = [tx EXCEPT ![w] = Idle]
    /\ jobs' = [jobs EXCEPT ![w] = Tail(@)]
    /\ UNCHANGED db

Crash(w) ==
    /\ w \in Mortal /\ tx[w].step \notin {"idle", "dead"}
    /\ tx' = [tx EXCEPT ![w] = [Idle EXCEPT !.step = "dead"]]
    /\ UNCHANGED <<jobs, db>>

================================================================================
