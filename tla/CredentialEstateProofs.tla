------------------------- MODULE CredentialEstateProofs -------------------------
(***************************************************************************)
(* Proofs about CredentialEstate, for every set of workers and every       *)
(* workload: the settings prefix and the credentials agree, rotations of   *)
(* different fields all survive, a thread remembers committed settings     *)
(* only, and a call presents a login of a current revision.                *)
(*                                                                         *)
(* EstateInv says what a transaction has locked at each of its steps, what *)
(* its commit would write, and that both stay right while others commit.   *)
(* The lock for prefix writes is the settings row or, when there is none,  *)
(* the advisory lock: two transactions never both have it, because a row   *)
(* that somebody holds is there.  IdentityInv, below it, says that tokens, *)
(* sessions and clients go by the revision whose fields they were made     *)
(* with, and that what a call has loaded is no older than what it checked. *)
(***************************************************************************)
EXTENDS CredentialEstate, TLAPS

--------------------------------------------------------------------------------
\* The fields of a connection.
Fields(t) == t = [step |-> t.step, open |-> t.open, own |-> t.own, held |-> t.held,
                  wants |-> t.wants, hooks |-> t.hooks, loaded |-> t.loaded, image |-> t.image]
ShapeInv ==
    /\ tx = [w \in Worker |-> tx[w]] /\ \A w \in Worker : Fields(tx[w])
    /\ DOMAIN jobs = Worker /\ DOMAIN memo = Worker /\ DOMAIN pending = Worker
    /\ DOMAIN fresh = Worker

\* Two transactions hold no common lock, and the rows they hold are there.
LockInv ==
    /\ \A v, w \in Worker : v # w => tx[v].held \cap tx[w].held = {}
    /\ \A w \in Worker : \A row \in {Singleton, Material} : row \in tx[w].held => db[row] # {}

\* What the lock for prefix writes gives: the settings row, or its absence.
PrefixReady(w) ==
    Singleton \in tx[w].held \/ (PrefixWrite \in tx[w].held /\ db[Singleton] = {})
MaterialReady(w) == Material \in tx[w].held \/ db[Material] = {}

Writing == {"parent", "service", "prefix", "locked", "assign", "drop", "commit"}
Calling == {"refresh", "reload", "client", "keep", "present"}

\* The requests that take step s.
Kinds(w, s) ==
    /\ s \in {"address", "parent", "service"} => Has(w, "quickadd")
    /\ s = "secret" => Has(w, "import")
    /\ s \in {"previous", "rebind"} => Has(w, "reassign")
    /\ s = "remove" => Has(w, "unassign")
    /\ s \in {"clear", "drop"} => Has(w, "delete")
    /\ s = "merge" => Has(w, "rotate") \/ Has(w, "reencrypt")
    /\ s = "withdraw" => Has(w, "withdraw")
    /\ s \in Calling => Has(w, "call")
    /\ s \in {"prefix", "locked"} =>
         \E kind \in {"configure", "unset", "create", "quickadd", "import"} : Has(w, kind)
    /\ s = "assign" => \E kind \in {"assign", "quickadd", "import"} : Has(w, kind)
    /\ s \in {"commit", "callbacks", "project", "send"} => ~Has(w, "call")

\* Where a request stands tells what it has locked and written.
StepOK(w) ==
    LET t == tx[w] IN
    /\ DOMAIN t.own # {} => t.step \in Writing
    /\ Kinds(w, t.step)
    /\ t.step \in {"address", "parent", "service", "prefix", "locked"} => t.open
    /\ t.step = "clear" => \A row \in DOMAIN t.loaded : row[1] = "assignment"
    /\ Has(w, "configure") \/ Has(w, "unset") => t.step = "commit" \/ DOMAIN t.own = {}
    /\ t.step = "locked" =>
         \/ t.wants = <<PrefixWrite, Singleton>>
         \/ t.wants = <<Singleton>> /\ PrefixWrite \in t.held
         \/ t.wants = <<>> /\ PrefixReady(w)
    /\ t.step \in {"merge", "withdraw"} =>
         t.wants = <<Material>> \/ (t.wants = <<>> /\ MaterialReady(w))
    /\ Has(w, "rotate") /\ t.step = "commit" => Material \in DOMAIN t.own /\ t.own[Material] # {}

\* What a transaction would commit.
SettingsOwn(w) ==
    LET t == tx[w] IN
    Singleton \in DOMAIN t.own =>
        /\ t.step = "commit" /\ t.wants = <<>> /\ t.open /\ pending[w]
        /\ PrefixReady(w) /\ DOMAIN t.own = {Singleton}
        /\ \A r, s \in t.own[Singleton] : r = s
        /\ \A s \in t.own[Singleton] : \A row \in Stored("credential") :
              The(db[row]).prefix = s.prefix
CredentialOwn(w) ==
    LET t == tx[w] IN
    \A row \in DOMAIN t.own :
        /\ row[1] # "advisory"
        /\ row[1] = "credential" /\ t.own[row] # {} =>
             PrefixReady(w) /\ \A s \in db[Singleton] : The(t.own[row]).prefix = s.prefix
Merged(w, old) ==
    [f \in Field |-> IF f \in _submitted_fields(w) THEN Job(w).value ELSE old[f]]
MaterialOwn(w) ==
    LET t == tx[w] IN
    Material \in DOMAIN t.own =>
        /\ t.step = "commit" /\ t.wants = <<>> /\ MaterialReady(w)
        /\ t.own[Material] # {} =>
             /\ Material \in t.held
             /\ \A r, s \in t.own[Material] : r = s
             /\ \A r \in t.own[Material], m \in db[Material] :
                   r.fields = Merged(w, m.fields) /\ r.revision = m.revision + 1
OwnOK(w) == SettingsOwn(w) /\ CredentialOwn(w) /\ MaterialOwn(w)

\* A thread remembers a settings row that was committed during its request.
MemoOK(w) ==
    /\ db[Singleton] \in fresh[w]
    /\ memo[w] # <<>> => Head(memo[w]) \in fresh[w]

RowsOK ==
    /\ {Singleton, Material} \subseteq DOMAIN db
    /\ \A row \in DOMAIN db : row[1] # "advisory"
    /\ \A row \in {Singleton, Material} : \A r, s \in db[row] : r = s
    /\ \A r \in db[Material] : r.fields = [f \in Field |-> r.fields[f]]
    /\ PrefixCoherent /\ RotationsSurvive

EstateInv ==
    /\ ShapeInv /\ LockInv /\ RowsOK
    /\ \A w \in Worker : StepOK(w) /\ OwnOK(w) /\ MemoOK(w)

\* A connection is a record of its eight fields, each from some set.
LEMMA Typed ==
    ASSUME ShapeInv
    PROVE \E S1, S2, S3, S4, S5, S6, S7, S8 :
            tx \in [Worker -> [step : S1, open : S2, own : S3, held : S4, wants : S5,
                               hooks : S6, loaded : S7, image : S8]]
<1> DEFINE S1 == {tx[w].step : w \in Worker}
           S2 == {tx[w].open : w \in Worker}
           S3 == {tx[w].own : w \in Worker}
           S4 == {tx[w].held : w \in Worker}
           S5 == {tx[w].wants : w \in Worker}
           S6 == {tx[w].hooks : w \in Worker}
           S7 == {tx[w].loaded : w \in Worker}
           S8 == {tx[w].image : w \in Worker}
<1>1. ASSUME NEW w \in Worker
      PROVE  tx[w] \in [step : S1, open : S2, own : S3, held : S4, wants : S5,
                        hooks : S6, loaded : S7, image : S8]
  <2>1. /\ tx[w].step \in S1 /\ tx[w].open \in S2 /\ tx[w].own \in S3 /\ tx[w].held \in S4
        /\ tx[w].wants \in S5 /\ tx[w].hooks \in S6 /\ tx[w].loaded \in S7 /\ tx[w].image \in S8
    BY Zenon
  <2> HIDE DEF S1, S2, S3, S4, S5, S6, S7, S8
  <2>2. Fields(tx[w])  BY DEF ShapeInv
  <2>3. QED  BY <2>1, <2>2, Zenon DEF Fields
<1> HIDE DEF S1, S2, S3, S4, S5, S6, S7, S8
<1>2. tx \in [Worker -> [step : S1, open : S2, own : S3, held : S4, wants : S5,
                        hooks : S6, loaded : S7, image : S8]]
  BY <1>1, Zenon DEF ShapeInv
<1>3. QED  BY <1>2, Zenon

\* Worker w's connection is t, and the others are what they were.
Moves(w, t) ==
    /\ tx' = [v \in Worker |-> tx'[v]]
    /\ tx'[w] = t /\ \A v \in Worker \ {w} : tx'[v] = tx[v]
Conn(step, open, own, held, wants, hooks, loaded, image) ==
    [step |-> step, open |-> open, own |-> own, held |-> held, wants |-> wants,
     hooks |-> hooks, loaded |-> loaded, image |-> image]

\* Goto sets the step and what it waits for.
LEMMA GotoMoves ==
    ASSUME ShapeInv, NEW w \in Worker, NEW s, NEW l, tx' = Goto(w, s, l)
    PROVE  Moves(w, Conn(s, tx[w].open, tx[w].own, tx[w].held, l, tx[w].hooks, tx[w].loaded,
                         tx[w].image))
<1>1. PICK S1, S2, S3, S4, S5, S6, S7, S8 :
            tx \in [Worker -> [step : S1, open : S2, own : S3, held : S4, wants : S5,
                               hooks : S6, loaded : S7, image : S8]]
  BY Typed, Zenon
<1>2. QED  BY <1>1 DEF Goto, Moves, Conn

\* Open begins a transaction: the step, its locks and what was loaded.
LEMMA OpenMoves ==
    ASSUME ShapeInv, NEW w \in Worker, NEW s, NEW l, NEW d, tx' = Open(w, s, l, d)
    PROVE  Moves(w, Conn(s, TRUE, tx[w].own, tx[w].held, l, tx[w].hooks, d, tx[w].image))
<1>1. PICK S1, S2, S3, S4, S5, S6, S7, S8 :
            tx \in [Worker -> [step : S1, open : S2, own : S3, held : S4, wants : S5,
                               hooks : S6, loaded : S7, image : S8]]
  BY Typed, Zenon
<1>2. QED  BY <1>1 DEF Open, Moves, Conn

\* Write lays rows over the own ones and appends hooks.
LEMMA WriteMoves ==
    ASSUME ShapeInv, NEW w \in Worker, NEW rows, NEW h, NEW s, NEW l, tx' = Write(w, rows, h, s, l)
    PROVE  Moves(w, Conn(s, tx[w].open, Over(rows, tx[w].own), tx[w].held, l, tx[w].hooks \o h,
                         tx[w].loaded, tx[w].image))
<1>1. PICK S1, S2, S3, S4, S5, S6, S7, S8 :
            tx \in [Worker -> [step : S1, open : S2, own : S3, held : S4, wants : S5,
                               hooks : S6, loaded : S7, image : S8]]
  BY Typed, Zenon
<1>2. QED  BY <1>1 DEF Write, Moves, Conn

\* A rollback keeps nothing but what the request had loaded.
LEMMA RolledBackMoves ==
    ASSUME ShapeInv, NEW w \in Worker, NEW s, tx' = RolledBack(w, s)
    PROVE  Moves(w, Conn(s, FALSE, NoRows, {}, <<>>, <<>>, tx[w].loaded, {}))
<1>1. PICK S1, S2, S3, S4, S5, S6, S7, S8 :
            tx \in [Worker -> [step : S1, open : S2, own : S3, held : S4, wants : S5,
                               hooks : S6, loaded : S7, image : S8]]
  BY Typed, Zenon
<1>2. QED  BY <1>1 DEF RolledBack, Idle, Moves, Conn

\* Answering only changes the step.
LEMMA AnsweredMoves ==
    ASSUME ShapeInv, NEW w \in Worker, tx' = Answered(w)
    PROVE  Moves(w, Conn("finish", tx[w].open, tx[w].own, tx[w].held, tx[w].wants, tx[w].hooks,
                         tx[w].loaded, tx[w].image))
<1>1. PICK S1, S2, S3, S4, S5, S6, S7, S8 :
            tx \in [Worker -> [step : S1, open : S2, own : S3, held : S4, wants : S5,
                               hooks : S6, loaded : S7, image : S8]]
  BY Typed, Zenon
<1>2. QED  BY <1>1 DEF Answered, Moves, Conn

\* A finished callback leaves the hooks after it.
LEMMA CalledMoves ==
    ASSUME ShapeInv, NEW w \in Worker, tx' = Called(w)
    PROVE  Moves(w, Conn("callbacks", FALSE, NoRows, {}, <<>>, Tail(tx[w].hooks), tx[w].loaded, {}))
<1>1. PICK S1, S2, S3, S4, S5, S6, S7, S8 :
            tx \in [Worker -> [step : S1, open : S2, own : S3, held : S4, wants : S5,
                               hooks : S6, loaded : S7, image : S8]]
  BY Typed, Zenon
<1>2. QED  BY <1>1 DEF Called, Idle, Moves, Conn

\* A dead worker, or the next secret of an import, starts from an idle connection.
LEMMA ResetMoves ==
    ASSUME ShapeInv, NEW w \in Worker, NEW s, tx' = [tx EXCEPT ![w] = [Idle EXCEPT !.step = s]]
    PROVE  Moves(w, Conn(s, FALSE, NoRows, {}, <<>>, <<>>, NoRows, {}))
<1>1. PICK S1, S2, S3, S4, S5, S6, S7, S8 :
            tx \in [Worker -> [step : S1, open : S2, own : S3, held : S4, wants : S5,
                               hooks : S6, loaded : S7, image : S8]]
  BY Typed, Zenon
<1>2. QED  BY <1>1 DEF Idle, Moves, Conn

\* A finished request leaves an idle connection.
LEMMA FinishMoves ==
    ASSUME ShapeInv, NEW w \in Worker, tx' = [tx EXCEPT ![w] = Idle]
    PROVE  Moves(w, Conn("idle", FALSE, NoRows, {}, <<>>, <<>>, NoRows, {}))
<1>1. PICK S1, S2, S3, S4, S5, S6, S7, S8 :
            tx \in [Worker -> [step : S1, open : S2, own : S3, held : S4, wants : S5,
                               hooks : S6, loaded : S7, image : S8]]
  BY Typed, Zenon
<1>2. QED  BY <1>1 DEF Idle, Moves, Conn

\* A commit releases everything but the hooks and what was loaded.
LEMMA CommittedMoves ==
    ASSUME ShapeInv, NEW w \in Worker,
           tx' = [tx EXCEPT ![w] = [Idle EXCEPT !.step = "callbacks", !.hooks = tx[w].hooks,
                                                !.loaded = tx[w].loaded]]
    PROVE  Moves(w, Conn("callbacks", FALSE, NoRows, {}, <<>>, tx[w].hooks, tx[w].loaded, {}))
<1>1. PICK S1, S2, S3, S4, S5, S6, S7, S8 :
            tx \in [Worker -> [step : S1, open : S2, own : S3, held : S4, wants : S5,
                               hooks : S6, loaded : S7, image : S8]]
  BY Typed, Zenon
<1>2. QED  BY <1>1 DEF Idle, Moves, Conn

\* A granted lock leaves the list of waits and is held, if it was found.
LEMMA GrantMoves ==
    ASSUME ShapeInv, NEW w \in Worker, NEW locked,
           tx' = [tx EXCEPT ![w].wants = Tail(@), ![w].held = @ \cup locked]
    PROVE  Moves(w, Conn(tx[w].step, tx[w].open, tx[w].own, tx[w].held \cup locked,
                         Tail(tx[w].wants), tx[w].hooks, tx[w].loaded, tx[w].image))
<1>1. PICK S1, S2, S3, S4, S5, S6, S7, S8 :
            tx \in [Worker -> [step : S1, open : S2, own : S3, held : S4, wants : S5,
                               hooks : S6, loaded : S7, image : S8]]
  BY Typed, Zenon
<1>2. QED  BY <1>1 DEF Moves, Conn

\* capture_previous_credential and Project set the image.
LEMMA ImageMoves ==
    ASSUME ShapeInv, NEW w \in Worker, NEW s, NEW l, NEW i,
           \/ tx' = [tx EXCEPT ![w].step = s, ![w].wants = l, ![w].image = i]
           \/ tx' = [tx EXCEPT ![w].step = s, ![w].image = i] /\ l = tx[w].wants
    PROVE  Moves(w, Conn(s, tx[w].open, tx[w].own, tx[w].held, l, tx[w].hooks, tx[w].loaded, i))
<1>1. PICK S1, S2, S3, S4, S5, S6, S7, S8 :
            tx \in [Worker -> [step : S1, open : S2, own : S3, held : S4, wants : S5,
                               hooks : S6, loaded : S7, image : S8]]
  BY Typed, Zenon
<1>2. QED  BY <1>1 DEF Moves, Conn

\* A publication opens a transaction of its own.
LEMMA PublishMoves ==
    ASSUME ShapeInv, NEW w \in Worker, NEW s, NEW l,
           tx' = [tx EXCEPT ![w].step = s, ![w].open = TRUE, ![w].wants = l]
    PROVE  Moves(w, Conn(s, TRUE, tx[w].own, tx[w].held, l, tx[w].hooks, tx[w].loaded,
                         tx[w].image))
<1>1. PICK S1, S2, S3, S4, S5, S6, S7, S8 :
            tx \in [Worker -> [step : S1, open : S2, own : S3, held : S4, wants : S5,
                               hooks : S6, loaded : S7, image : S8]]
  BY Typed, Zenon
<1>2. QED  BY <1>1 DEF Moves, Conn

\* invalidate_auth_material_sessions is called once.
LEMMA HooksMoves ==
    ASSUME ShapeInv, NEW w \in Worker, tx' = [tx EXCEPT ![w].hooks = Tail(@)]
    PROVE  Moves(w, Conn(tx[w].step, tx[w].open, tx[w].own, tx[w].held, tx[w].wants,
                         Tail(tx[w].hooks), tx[w].loaded, tx[w].image))
<1>1. PICK S1, S2, S3, S4, S5, S6, S7, S8 :
            tx \in [Worker -> [step : S1, open : S2, own : S3, held : S4, wants : S5,
                               hooks : S6, loaded : S7, image : S8]]
  BY Typed, Zenon
<1>2. QED  BY <1>1 DEF Moves, Conn

\* A backend object loads the material outside a transaction.
LEMMA LoadMoves ==
    ASSUME ShapeInv, NEW w \in Worker, NEW s, NEW d,
           tx' = [tx EXCEPT ![w].step = s, ![w].loaded = d]
    PROVE  Moves(w, Conn(s, tx[w].open, tx[w].own, tx[w].held, tx[w].wants, tx[w].hooks, d,
                         tx[w].image))
<1>1. PICK S1, S2, S3, S4, S5, S6, S7, S8 :
            tx \in [Worker -> [step : S1, open : S2, own : S3, held : S4, wants : S5,
                               hooks : S6, loaded : S7, image : S8]]
  BY Typed, Zenon
<1>2. QED  BY <1>1 DEF Moves, Conn

--------------------------------------------------------------------------------
\* The other workers' requests and memories are untouched.
Aside(w) ==
    /\ db' = db /\ intended' = intended
    /\ DOMAIN jobs' = Worker /\ DOMAIN memo' = Worker /\ DOMAIN pending' = Worker
    /\ DOMAIN fresh' = Worker
    /\ \A v \in Worker \ {w} : /\ jobs'[v] = jobs[v] /\ memo'[v] = memo[v]
                               /\ pending'[v] = pending[v] /\ fresh'[v] = fresh[v]

\* What a worker's step demands is kept while its state and the rows are.
LEMMA StepFrame ==
    ASSUME NEW v, tx'[v] = tx[v], db' = db, jobs'[v] = jobs[v], StepOK(v)
    PROVE  StepOK(v)'
BY DEF StepOK, Kinds, PrefixReady, MaterialReady, Has, Job

\* What a worker would commit stays right while its state and the rows are kept.
LEMMA OwnFrame ==
    ASSUME NEW v, tx'[v] = tx[v], db' = db, jobs'[v] = jobs[v], pending'[v] = pending[v], OwnOK(v)
    PROVE  OwnOK(v)'
BY DEF OwnOK, SettingsOwn, CredentialOwn, MaterialOwn, PrefixReady, MaterialReady, Merged,
       _submitted_fields, Stored, Has, Job

\* A memo stays a committed row.
LEMMA MemoFrame ==
    ASSUME NEW v, db' = db, memo'[v] = memo[v], fresh'[v] = fresh[v], MemoOK(v)
    PROVE  MemoOK(v)'
BY DEF MemoOK

\* The rows stay right.
LEMMA RowsFrame ==
    ASSUME RowsOK, db' = db, intended' = intended PROVE RowsOK'
BY DEF RowsOK, PrefixCoherent, RotationsSurvive, Stored

\* The connections keep their shape.
LEMMA MovesShape ==
    ASSUME ShapeInv, NEW w \in Worker, Aside(w), NEW s, NEW o, NEW r, NEW h, NEW l, NEW k, NEW d,
           NEW i, Moves(w, Conn(s, o, r, h, l, k, d, i))
    PROVE  ShapeInv'
<1>1. Fields(tx[w])'  BY DEF Moves, Conn, Fields
<1>2. \A v \in Worker \ {w} : Fields(tx[v])'  BY DEF Moves, Fields, ShapeInv
<1>3. QED  BY <1>1, <1>2 DEF ShapeInv, Moves, Aside

\* A step of one worker that commits nothing keeps the invariant when that worker does.
LEMMA LocalStep ==
    ASSUME EstateInv, NEW w \in Worker, Aside(w), ShapeInv',
           \A v \in Worker \ {w} : tx'[v] = tx[v] /\ tx'[w].held \cap tx[v].held = {},
           \A row \in {Singleton, Material} : row \in tx'[w].held => db[row] # {},
           StepOK(w)', OwnOK(w)', MemoOK(w)'
    PROVE  EstateInv'
<1>1. \A v \in Worker \ {w} : StepOK(v)' /\ OwnOK(v)' /\ MemoOK(v)'
  BY StepFrame, OwnFrame, MemoFrame DEF Aside, EstateInv
<1>2. LockInv'  BY DEF LockInv, EstateInv, Aside
<1>3. RowsOK'  BY RowsFrame DEF EstateInv, Aside
<1>4. QED  BY <1>1, <1>2, <1>3 DEF EstateInv

\* A transaction without rows commits nothing wrong.
LEMMA EmptyOwn ==
    ASSUME NEW w, DOMAIN (tx'[w].own) = {} PROVE OwnOK(w)'
BY DEF OwnOK, SettingsOwn, CredentialOwn, MaterialOwn

Special == {"address", "parent", "service", "clear", "drop", "locked", "merge", "withdraw"}

\* A step without demands.
LEMMA PlainStep ==
    ASSUME NEW w, DOMAIN (tx'[w].own) = {}, tx'[w].step \notin Special,
           tx'[w].step = "prefix" => tx'[w].open, Kinds(w, tx[w].step)',
           tx'[w].step = "commit" => ~Has(w, "rotate")'
    PROVE  StepOK(w)'
BY DEF StepOK, Special

\* A step that keeps its locks.
LEMMA HoldStep ==
    ASSUME EstateInv, NEW w \in Worker, Aside(w), NEW s, NEW o, NEW r, NEW l, NEW k, NEW d,
           NEW i, Moves(w, Conn(s, o, r, tx[w].held, l, k, d, i)),
           StepOK(w)', OwnOK(w)', MemoOK(w)'
    PROVE  EstateInv'
<1>1. ShapeInv'  BY MovesShape DEF EstateInv
<1>2. tx'[w].held = tx[w].held /\ \A v \in Worker \ {w} : tx'[v] = tx[v]  BY DEF Moves, Conn
<1>3. \A v \in Worker \ {w} : tx'[w].held \cap tx[v].held = {}
  BY <1>2 DEF EstateInv, LockInv
<1>4. \A row \in {Singleton, Material} : row \in tx'[w].held => db[row] # {}
  BY <1>2 DEF EstateInv, LockInv
<1>5. QED  BY <1>1, <1>2, <1>3, <1>4, LocalStep

\* A step that releases locks and rows, to a place without demands.
LEMMA ReleaseStep ==
    ASSUME EstateInv, NEW w \in Worker, Aside(w), NEW s, NEW o, NEW l, NEW k, NEW d,
           NEW i, Moves(w, Conn(s, o, NoRows, {}, l, k, d, i)),
           s \notin Special \cup {"prefix", "commit"}, Kinds(w, s)', MemoOK(w)'
    PROVE  EstateInv'
<1>1. ShapeInv'  BY MovesShape DEF EstateInv
<1>2. /\ tx'[w].held = {} /\ \A v \in Worker \ {w} : tx'[v] = tx[v]
      /\ tx'[w].own = NoRows /\ tx'[w].step = s
  BY DEF Moves, Conn
<1>3. DOMAIN (tx'[w].own) = {}  BY <1>2 DEF NoRows
<1>4. StepOK(w)' /\ OwnOK(w)'  BY <1>2, <1>3, EmptyOwn, PlainStep
<1>5. QED  BY <1>1, <1>2, <1>4, LocalStep

\* A step outside the writing ones, to a place without demands.
LEMMA QuietStep ==
    ASSUME EstateInv, NEW w \in Worker, Aside(w), NEW s, NEW o, NEW l, NEW k, NEW d,
           NEW i, Moves(w, Conn(s, o, tx[w].own, tx[w].held, l, k, d, i)),
           tx[w].step \notin Writing, s \notin Special, s = "prefix" => o,
           s = "commit" => ~Has(w, "rotate")', Kinds(w, s)', MemoOK(w)'
    PROVE  EstateInv'
<1>1. DOMAIN tx[w].own = {}  BY DEF EstateInv, StepOK
<1>2. tx'[w].own = tx[w].own /\ tx'[w].step = s /\ tx'[w].open = o  BY DEF Moves, Conn
<1>3. StepOK(w)' /\ OwnOK(w)'  BY <1>1, <1>2, EmptyOwn, PlainStep
<1>4. QED  BY <1>3, HoldStep

\* Nothing but connections changes.
Calm == UNCHANGED <<jobs, db, settingsVars, intended>>

\* Then the others, the memo and the request are what they were.
LEMMA CalmAside ==
    ASSUME EstateInv, NEW w \in Worker, Calm
    PROVE  /\ Aside(w) /\ MemoOK(w)' /\ \A kind : Has(w, kind)' = Has(w, kind)
           /\ \A s : Kinds(w, s) => Kinds(w, s)'
<1>1. Aside(w)  BY DEF Calm, settingsVars, Aside, EstateInv, ShapeInv
<1>2. MemoOK(w)  BY DEF EstateInv
<1>3. MemoOK(w)'  BY <1>2, MemoFrame DEF Calm, settingsVars
<1>4. \A kind : Has(w, kind)' = Has(w, kind)  BY DEF Calm, Has, Job
<1>5. \A s : Kinds(w, s) => Kinds(w, s)'  BY <1>4 DEF Kinds
<1>6. QED  BY <1>1, <1>3, <1>4, <1>5

\* QuietStep, with the settings and requests unchanged.
LEMMA CalmQuiet ==
    ASSUME EstateInv, NEW w \in Worker, Calm, NEW s, NEW o, NEW l, NEW k, NEW d, NEW i,
           Moves(w, Conn(s, o, tx[w].own, tx[w].held, l, k, d, i)),
           tx[w].step \notin Writing, s \notin Special, s = "prefix" => o,
           s = "commit" => ~Has(w, "rotate"), Kinds(w, s)
    PROVE  EstateInv'
BY CalmAside, QuietStep

\* ReleaseStep, with the settings and requests unchanged.
LEMMA CalmRelease ==
    ASSUME EstateInv, NEW w \in Worker, Calm, NEW s, NEW o, NEW l, NEW k, NEW d, NEW i,
           Moves(w, Conn(s, o, NoRows, {}, l, k, d, i)),
           s \notin Special \cup {"prefix", "commit"}, Kinds(w, s)
    PROVE  EstateInv'
BY CalmAside, ReleaseStep

\* A request that has written nothing may be answered.
LEMMA CalmAnswer ==
    ASSUME EstateInv, NEW w \in Worker, Calm, tx' = Answered(w), tx[w].step \notin Writing
    PROVE  EstateInv'
<1>1. ShapeInv  BY DEF EstateInv
<1>2. "finish" \notin Special /\ Kinds(w, "finish") /\ "finish" # "prefix" /\ "finish" # "commit"
  BY DEF Special, Kinds, Calling
<1>3. Moves(w, Conn("finish", tx[w].open, tx[w].own, tx[w].held, tx[w].wants, tx[w].hooks,
                    tx[w].loaded, tx[w].image))
  BY <1>1, AnsweredMoves
<1>4. QED  BY <1>2, <1>3, CalmQuiet

\* A transaction may be rolled back anywhere.
LEMMA CalmRollback ==
    ASSUME EstateInv, NEW w \in Worker, Calm, tx' = RolledBack(w, "failed")
    PROVE  EstateInv'
<1>1. ShapeInv  BY DEF EstateInv
<1>2. "failed" \notin Special \cup {"prefix", "commit"} /\ Kinds(w, "failed")
  BY DEF Special, Kinds, Calling
<1>3. Moves(w, Conn("failed", FALSE, NoRows, {}, <<>>, <<>>, tx[w].loaded, {}))
  BY <1>1, RolledBackMoves
<1>4. QED  BY <1>2, <1>3, CalmRelease

\* A callback may end anywhere.
LEMMA CalmCalled ==
    ASSUME EstateInv, NEW w \in Worker, Calm, tx' = Called(w), ~Has(w, "call")
    PROVE  EstateInv'
<1>1. ShapeInv  BY DEF EstateInv
<1>2. "callbacks" \notin Special \cup {"prefix", "commit"} /\ Kinds(w, "callbacks")
  BY DEF Special, Kinds, Calling
<1>3. Moves(w, Conn("callbacks", FALSE, NoRows, {}, <<>>, Tail(tx[w].hooks), tx[w].loaded, {}))
  BY <1>1, CalledMoves
<1>4. QED  BY <1>2, <1>3, CalmRelease

\* A request that has written nothing goes to a step without demands.
LEMMA CalmGoto ==
    ASSUME EstateInv, NEW w \in Worker, Calm, NEW s, NEW l, tx' = Goto(w, s, l),
           tx[w].step \notin Writing, s \notin Special \cup {"prefix", "commit"}, Kinds(w, s)
    PROVE  EstateInv'
<1>1. ShapeInv  BY DEF EstateInv
<1>2. Moves(w, Conn(s, tx[w].open, tx[w].own, tx[w].held, l, tx[w].hooks, tx[w].loaded,
                    tx[w].image))
  BY <1>1, GotoMoves
<1>3. QED  BY <1>2, CalmQuiet

\* A request that has written nothing opens a transaction.
LEMMA CalmOpen ==
    ASSUME EstateInv, NEW w \in Worker, Calm, NEW s, NEW l, NEW d, tx' = Open(w, s, l, d),
           tx[w].step \notin Writing, s \notin Special, s = "commit" => ~Has(w, "rotate"),
           Kinds(w, s)
    PROVE  EstateInv'
<1>1. ShapeInv  BY DEF EstateInv
<1>2. Moves(w, Conn(s, TRUE, tx[w].own, tx[w].held, l, tx[w].hooks, d, tx[w].image))
  BY <1>1, OpenMoves
<1>3. QED  BY <1>2, CalmQuiet

\* A request about to start has written nothing.
LEMMA Starting ==
    ASSUME NEW w, NEW kind, Ready(w, kind)
    PROVE  tx[w].step \notin Writing /\ Has(w, kind)
           /\ \A other : other # kind => ~Has(w, other)
BY DEF Ready, At, Has, Writing

\* A worker's request takes the step it is at.
LEMMA KindsHold ==
    ASSUME EstateInv, NEW w \in Worker PROVE Kinds(w, tx[w].step)
BY DEF EstateInv, StepOK

--------------------------------------------------------------------------------
\* A settings request loads, validates and begins.
LEMMA ConfigureKeeps ==
    ASSUME EstateInv, NEW w \in Worker, Configure(w) \/ Unset(w), intended' = intended
    PROVE  EstateInv'
<1>1. Calm  BY DEF Calm, Configure, Unset
<1>2. tx[w].step \notin Writing /\ Kinds(w, "prefix")
  BY Starting DEF Configure, Unset, Kinds, Calling
<1>3. \/ tx' = Answered(w) 
      \/ \E l, d : tx' = Open(w, "prefix", l, d)
  BY Zenon DEF Configure, Unset
<1>4. "prefix" \notin Special /\ "prefix" # "commit"  BY DEF Special
<1>5. QED  BY <1>1, <1>2, <1>3, <1>4, CalmOpen, CalmAnswer

\* Assignment, reassignment, removal and reveal begin.
LEMMA AssignKeeps ==
    ASSUME EstateInv, NEW w \in Worker, Quiet, intended' = intended,
           Assign(w) \/ Reassign(w) \/ Unassign(w) \/ _lock_metadata(w)
    PROVE  EstateInv'
<1>1. Calm  BY DEF Calm, Quiet
<1>2. tx[w].step \notin Writing /\ ~Has(w, "rotate") /\ ~Has(w, "call")
  BY Starting DEF Assign, Reassign, Unassign, _lock_metadata
<1>3. \/ tx' = Answered(w)
      \/ Has(w, "assign") /\ \E l, d : tx' = Open(w, "assign", l, d)
      \/ Has(w, "reassign") /\ \E l, d : tx' = Open(w, "previous", l, d)
      \/ Has(w, "unassign") /\ \E l, d : tx' = Open(w, "remove", l, d)
      \/ \E l, d : tx' = Open(w, "commit", l, d)
  BY Zenon DEF Assign, Reassign, Unassign, _lock_metadata, Ready
<1>4. {"assign", "previous", "remove", "commit"} \cap Special = {}  BY DEF Special
<1>5. /\ Has(w, "assign") => Kinds(w, "assign")
      /\ Has(w, "reassign") => Kinds(w, "previous")
      /\ Has(w, "unassign") => Kinds(w, "remove")
      /\ Kinds(w, "commit")
  BY <1>2 DEF Kinds, Calling
<1>6. QED  BY <1>1, <1>2, <1>3, <1>4, <1>5, CalmOpen, CalmAnswer

\* The previous owner is captured.
LEMMA CaptureKeeps ==
    ASSUME EstateInv, NEW w \in Worker, Quiet, intended' = intended, capture_previous_credential(w)
    PROVE  EstateInv'
<1>1. Calm  BY DEF Calm, Quiet
<1>2. tx[w].step = "previous"  BY DEF capture_previous_credential, At
<1>3. tx[w].step \notin Writing /\ Kinds(w, "rebind")
  BY <1>2, KindsHold DEF Writing, Kinds, Calling
<1>4. ShapeInv  BY DEF EstateInv
<1>5. \E l, i : tx' = [tx EXCEPT ![w].step = "rebind", ![w].wants = l, ![w].image = i]
  BY Zenon DEF capture_previous_credential
<1>6. PICK l, i : Moves(w, Conn("rebind", tx[w].open, tx[w].own, tx[w].held, l, tx[w].hooks,
                                tx[w].loaded, i))
  BY <1>4, <1>5, ImageMoves
<1>7. "rebind" \notin Special /\ "rebind" # "prefix" /\ "rebind" # "commit"  BY DEF Special
<1>8. QED  BY <1>1, <1>3, <1>6, <1>7, CalmQuiet

\* The callbacks of a commit are called and answered.
LEMMA CallKeeps ==
    ASSUME EstateInv, NEW w \in Worker, intended' = intended,
           \/ _publish_custom_metadata(w) \/ Project(w) \/ set_metadata(w) \/ delete_material(w)
           \/ Respond(w)
    PROVE  EstateInv'
<1>1. Calm
  BY DEF Calm, Quiet, _publish_custom_metadata, Project, set_metadata, delete_material, Respond
<1>2. tx[w].step \in {"callbacks", "project", "send"}
  BY DEF _publish_custom_metadata, Project, set_metadata, delete_material, Respond, NextCall, At
<1>3. tx[w].step \notin Writing /\ ~Has(w, "call")  BY <1>2, KindsHold DEF Writing, Kinds
<1>4. \/ tx' = Answered(w) \/ tx' = Called(w)
      \/ \E l : tx' = [tx EXCEPT ![w].step = "project", ![w].open = TRUE, ![w].wants = l]
      \/ \E i : tx' = [tx EXCEPT ![w].step = "send", ![w].image = i]
  BY Zenon DEF _publish_custom_metadata, Project, set_metadata, delete_material, Respond
<1>5. /\ {"project", "send"} \cap (Special \cup {"prefix", "commit"}) = {}
      /\ Kinds(w, "project") /\ Kinds(w, "send")
  BY <1>3 DEF Special, Kinds, Calling
<1>6. ShapeInv  BY DEF EstateInv
<1>7. ASSUME NEW l, tx' = [tx EXCEPT ![w].step = "project", ![w].open = TRUE, ![w].wants = l]
      PROVE  EstateInv'
  <2>1. Moves(w, Conn("project", TRUE, tx[w].own, tx[w].held, l, tx[w].hooks, tx[w].loaded,
                      tx[w].image))
    BY <1>6, <1>7, PublishMoves
  <2>2. QED  BY <1>1, <1>3, <1>5, <2>1, CalmQuiet
<1>8. ASSUME NEW i, tx' = [tx EXCEPT ![w].step = "send", ![w].image = i]
      PROVE  EstateInv'
  <2>1. Moves(w, Conn("send", tx[w].open, tx[w].own, tx[w].held, tx[w].wants, tx[w].hooks,
                      tx[w].loaded, i))
    BY <1>6, <1>8, ImageMoves
  <2>2. QED  BY <1>1, <1>3, <1>5, <2>1, CalmQuiet
<1>9. QED  BY <1>1, <1>3, <1>4, <1>7, <1>8, CalmAnswer, CalmCalled

\* Nothing relevant changes.
LEMMA StutterKeeps ==
    ASSUME EstateInv, tx' = tx, Calm
    PROVE  EstateInv'
<1>1. ShapeInv'  BY DEF EstateInv, ShapeInv, Fields, Calm, settingsVars
<1>2. LockInv'  BY DEF EstateInv, LockInv, Calm
<1>3. RowsOK'  BY RowsFrame DEF EstateInv, Calm
<1>4. \A w \in Worker : StepOK(w)' /\ OwnOK(w)' /\ MemoOK(w)'
  BY StepFrame, OwnFrame, MemoFrame DEF EstateInv, Calm, settingsVars
<1>5. QED  BY <1>1, <1>2, <1>3, <1>4 DEF EstateInv

\* A backend object refreshes, logs in and calls.
LEMMA IdentityKeeps ==
    ASSUME EstateInv, NEW w \in Worker, Calm,
           \/ get_backend(w) \/ refresh_auth_material(w) \/ Reload(w) \/ _get_client(w) \/ Keep(w)
           \/ Present(w)
    PROVE  EstateInv'
<1>1. tx[w].step \in {"idle", "refresh", "reload", "client", "keep", "present"}
      /\ Has(w, "call")
  <2>1. CASE get_backend(w)  BY <2>1 DEF get_backend, Ready, At
  <2>2. CASE ~get_backend(w)
    <3>1. tx[w].step \in {"refresh", "reload", "client", "keep", "present"}
      BY <2>2 DEF refresh_auth_material, Reload, _get_client, Keep, Present, At
    <3>2. QED  BY <3>1, KindsHold DEF Kinds, Calling
  <2>3. QED  BY <2>1, <2>2
<1>2. tx[w].step \notin Writing  BY <1>1 DEF Writing
<1>3. \/ tx' = Answered(w)
      \/ \E s \in {"client", "reload", "present", "keep", "refresh", "finish"} :
            tx' = Goto(w, s, <<>>)
      \/ \E s \in {"client", "refresh"} : \E d :
            tx' = [tx EXCEPT ![w].step = s, ![w].loaded = d]
  BY Zenon DEF get_backend, refresh_auth_material, Reload, _get_client, Keep, Present
<1>4. \A s \in {"client", "reload", "present", "keep", "refresh", "finish"} :
         s \notin Special \cup {"prefix", "commit"} /\ Kinds(w, s)
  BY <1>1 DEF Special, Kinds, Calling
<1>5. ShapeInv  BY DEF EstateInv
<1>6. ASSUME NEW s \in {"client", "refresh"}, NEW d,
             tx' = [tx EXCEPT ![w].step = s, ![w].loaded = d]
      PROVE  EstateInv'
  <2>1. Moves(w, Conn(s, tx[w].open, tx[w].own, tx[w].held, tx[w].wants, tx[w].hooks, d,
                      tx[w].image))
    BY <1>5, <1>6, LoadMoves
  <2>2. s \notin Special /\ s # "prefix" /\ s # "commit" /\ Kinds(w, s)  BY <1>4
  <2>3. QED  BY <1>1, <1>2, <2>1, <2>2, CalmQuiet
<1>7. QED  BY <1>1, <1>2, <1>3, <1>4, <1>6, CalmAnswer, CalmGoto

\* Sessions of the replaced revision are dropped.
LEMMA InvalidateKeeps ==
    ASSUME EstateInv, NEW w \in Worker, Calm, invalidate_auth_material_sessions(w)
    PROVE  EstateInv'
<1>1. tx[w].step = "callbacks"  BY DEF invalidate_auth_material_sessions, At
<1>2. /\ tx[w].step \notin Writing /\ Kinds(w, "callbacks")
      /\ "callbacks" \notin Special /\ "callbacks" # "prefix" /\ "callbacks" # "commit"
  BY <1>1, KindsHold DEF Writing, Special
<1>3. ShapeInv  BY DEF EstateInv
<1>4. tx' = [tx EXCEPT ![w].hooks = Tail(@)]  BY DEF invalidate_auth_material_sessions
<1>5. Moves(w, Conn(tx[w].step, tx[w].open, tx[w].own, tx[w].held, tx[w].wants,
                    Tail(tx[w].hooks), tx[w].loaded, tx[w].image))
  BY <1>3, <1>4, HooksMoves
<1>6. QED  BY <1>1, <1>2, <1>5, CalmQuiet

\* The fields of a moved connection.
LEMMA MovesFields ==
    ASSUME NEW w, NEW s, NEW o, NEW r, NEW h, NEW l, NEW k, NEW d, NEW i,
           Moves(w, Conn(s, o, r, h, l, k, d, i))
    PROVE  /\ tx'[w].step = s /\ tx'[w].open = o /\ tx'[w].own = r /\ tx'[w].held = h
           /\ tx'[w].wants = l /\ tx'[w].hooks = k /\ tx'[w].loaded = d /\ tx'[w].image = i
           /\ \A v \in Worker \ {w} : tx'[v] = tx[v]
BY DEF Moves, Conn

\* The fields after Open.
LEMMA OpenFields ==
    ASSUME ShapeInv, NEW w \in Worker, NEW s, NEW l, NEW d, tx' = Open(w, s, l, d)
    PROVE  /\ tx'[w].step = s /\ tx'[w].open = TRUE /\ tx'[w].own = tx[w].own
           /\ tx'[w].held = tx[w].held /\ tx'[w].wants = l /\ tx'[w].loaded = d
<1>1. Moves(w, Conn(s, TRUE, tx[w].own, tx[w].held, l, tx[w].hooks, d, tx[w].image))
  BY OpenMoves
<1>2. QED  BY <1>1 DEF Moves, Conn

\* Reading the settings leaves a memo of committed rows: a transaction that has written
\* them does not remember.
LEMMA RememberMemo ==
    ASSUME EstateInv, NEW w \in Worker, Remember(w), db' = db, fresh' = fresh
    PROVE  /\ MemoOK(w)'
           /\ DOMAIN memo' = Worker /\ DOMAIN pending' = Worker
           /\ \A v \in Worker \ {w} : memo'[v] = memo[v] /\ pending'[v] = pending[v]
           /\ Singleton \in DOMAIN tx[w].own => pending'[w]
<1>1. /\ DOMAIN memo = Worker /\ DOMAIN pending = Worker
      /\ MemoOK(w) /\ SettingsOwn(w)
  BY DEF EstateInv, ShapeInv, OwnOK
<1>2. /\ DOMAIN memo' = Worker /\ DOMAIN pending' = Worker
      /\ \A v \in Worker \ {w} : memo'[v] = memo[v] /\ pending'[v] = pending[v]
      /\ pending'[w] = _settings_write_is_uncommitted(w)
      /\ memo'[w] = IF _settings_write_is_uncommitted(w) THEN memo[w] ELSE <<_current_config(w)>>
  BY <1>1, Zenon DEF Remember
<1>3. Singleton \in DOMAIN tx[w].own => _settings_write_is_uncommitted(w)
  BY <1>1 DEF SettingsOwn, _settings_write_is_uncommitted
<1>4. ~_settings_write_is_uncommitted(w) => _current_config(w) \in fresh[w]
  BY <1>1, <1>3 DEF _current_config, Seen, MemoOK
<1>5. MemoOK(w)'
  <2>1. CASE _settings_write_is_uncommitted(w)  BY <1>1, <1>2, <2>1 DEF MemoOK
  <2>2. CASE ~_settings_write_is_uncommitted(w)
    <3>1. memo'[w] = <<_current_config(w)>>  BY <1>2, <2>2
    <3>2. Head(memo'[w]) \in fresh[w]  BY <1>4, <2>2, <3>1
    <3>3. QED  BY <1>1, <3>2 DEF MemoOK
  <2>3. QED  BY <2>1, <2>2
<1>6. QED  BY <1>2, <1>3, <1>5

\* Reading settings is a step of one worker.
LEMMA RememberAside ==
    ASSUME EstateInv, NEW w \in Worker, Remember(w), UNCHANGED <<jobs, db, fresh, intended>>
    PROVE  /\ Aside(w) /\ MemoOK(w)' /\ \A kind : Has(w, kind)' = Has(w, kind)
           /\ \A s : Kinds(w, s) => Kinds(w, s)'
<1>1. Aside(w) /\ MemoOK(w)'
  BY RememberMemo DEF Aside, EstateInv, ShapeInv
<1>2. \A kind : Has(w, kind)' = Has(w, kind)  BY DEF Has, Job
<1>3. \A s : Kinds(w, s) => Kinds(w, s)'  BY <1>2 DEF Kinds
<1>4. QED  BY <1>1, <1>2, <1>3

\* get_config may be called anywhere in a settings request.
LEMMA ConsultKeeps ==
    ASSUME EstateInv, NEW w \in Worker, Consult(w), intended' = intended
    PROVE  EstateInv'
<1>1. Remember(w) /\ UNCHANGED <<jobs, db, tx, fresh, intended>>  BY DEF Consult
<1>2. Aside(w) /\ MemoOK(w)' /\ (Singleton \in DOMAIN tx[w].own => pending'[w])
  BY <1>1, RememberAside, RememberMemo
<1>3. ShapeInv'  BY <1>1, <1>2 DEF EstateInv, ShapeInv, Fields, Aside
<1>4. StepOK(w)'  BY <1>1, StepFrame DEF EstateInv
<1>5. OwnOK(w)
  BY DEF EstateInv
<1>6. OwnOK(w)'
  BY <1>1, <1>2, <1>5 DEF OwnOK, SettingsOwn, CredentialOwn, MaterialOwn, PrefixReady,
     MaterialReady, Merged, _submitted_fields, Stored, Has, Job
<1>7. QED  BY <1>1, <1>2, <1>3, <1>4, <1>6, LocalStep DEF EstateInv, LockInv

\* Opening a transaction after reading the settings.
LEMMA CreateKeeps ==
    ASSUME EstateInv, NEW w \in Worker, Create(w), intended' = intended
    PROVE  EstateInv'
<1>1. Aside(w) /\ MemoOK(w)' /\ \A s : Kinds(w, s) => Kinds(w, s)'
  BY RememberAside DEF Create
<1>2. tx[w].step \notin Writing /\ Kinds(w, "prefix")  BY Starting DEF Create, Kinds, Calling
<1>3. ShapeInv  BY DEF EstateInv
<1>4. tx' = Open(w, "prefix", <<Singleton>>, NoRows)  BY DEF Create
<1>5. Moves(w, Conn("prefix", TRUE, tx[w].own, tx[w].held, <<Singleton>>, tx[w].hooks, NoRows,
                    tx[w].image))
  BY <1>3, <1>4, OpenMoves
<1>6. "prefix" \notin Special /\ "prefix" # "commit"  BY DEF Special
<1>7. QED  BY <1>1, <1>2, <1>5, <1>6, QuietStep

\* The importer goes from secret to secret.
LEMMA ImportKeeps ==
    ASSUME EstateInv, NEW w \in Worker, intended' = intended,
           import_secrets(w) \/ ImportSecret(w) \/ NextSecret(w) \/ Imported(w)
    PROVE  EstateInv'
<1>1. ShapeInv  BY DEF EstateInv
<1>2. /\ {"secret", "prefix"} \cap Special = {} /\ "secret" \notin Writing
      /\ "secret" \notin Special \cup {"prefix", "commit"} /\ "prefix" # "commit"
      /\ Has(w, "import") => Kinds(w, "secret") /\ Kinds(w, "prefix")
  BY DEF Special, Writing, Kinds, Calling
<1>3. CASE import_secrets(w)
  <2>1. Calm  BY <1>3 DEF import_secrets, Calm
  <2>2. tx[w].step \notin Writing /\ Has(w, "import")  BY <1>3, Starting DEF import_secrets
  <2>3. tx' = Goto(w, "secret", <<>>)  BY <1>3 DEF import_secrets
  <2>4. QED  BY <1>2, <2>1, <2>2, <2>3, CalmGoto
<1>4. CASE ImportSecret(w)
  <2>1. tx[w].step \notin Writing /\ Has(w, "import")
    BY <1>4, KindsHold DEF ImportSecret, At, Writing, Kinds
  <2>2. CASE Item(w).source \in run[w].known
    <3>1. tx' = tx /\ Calm  BY <1>4, <2>2 DEF ImportSecret, Calm, settingsVars
    <3>2. QED  BY <3>1, StutterKeeps
  <2>3. CASE Item(w).source \notin run[w].known
    <3>1. /\ tx' = Open(w, "prefix", <<Singleton>>, NoRows)
          /\ Remember(w) /\ UNCHANGED <<jobs, db, fresh, intended>>
      BY <1>4, <2>3 DEF ImportSecret
    <3>2. Aside(w) /\ MemoOK(w)' /\ \A s : Kinds(w, s) => Kinds(w, s)'
      BY <3>1, RememberAside
    <3>3. Moves(w, Conn("prefix", TRUE, tx[w].own, tx[w].held, <<Singleton>>, tx[w].hooks, NoRows,
                        tx[w].image))
      BY <1>1, <3>1, OpenMoves
    <3>4. QED  BY <1>2, <2>1, <3>2, <3>3, QuietStep
  <2>4. QED  BY <2>2, <2>3
<1>5. CASE NextSecret(w)
  <2>1. Calm  BY <1>5 DEF NextSecret, Calm
  <2>2. Has(w, "import")  BY <1>5 DEF NextSecret, Importing
  <2>3. tx' = [tx EXCEPT ![w] = [Idle EXCEPT !.step = "secret"]]  BY <1>5 DEF NextSecret
  <2>4. Moves(w, Conn("secret", FALSE, NoRows, {}, <<>>, <<>>, NoRows, {}))
    BY <1>1, <2>3, ResetMoves
  <2>5. QED  BY <1>2, <2>1, <2>2, <2>4, CalmRelease
<1>6. CASE Imported(w)
  <2>1. tx[w].step \notin Writing /\ tx' = Answered(w)  BY <1>2, <1>6 DEF Imported, At
  <2>2. Calm  BY <1>6 DEF Imported, Quiet, Calm
  <2>3. QED  BY <2>1, <2>2, CalmAnswer
<1>7. QED  BY <1>3, <1>4, <1>5, <1>6

\* Starts that demand something of the step they go to.
LEMMA EmptyStart ==
    ASSUME EstateInv, NEW w \in Worker, Aside(w), NEW s, NEW l, NEW d, tx' = Open(w, s, l, d),
           tx[w].step \notin Writing, MemoOK(w)', StepOK(w)'
    PROVE  EstateInv'
<1>1. ShapeInv  BY DEF EstateInv
<1>2. Moves(w, Conn(s, TRUE, tx[w].own, tx[w].held, l, tx[w].hooks, d, tx[w].image))
  BY <1>1, OpenMoves
<1>3. DOMAIN tx[w].own = {}  BY DEF EstateInv, StepOK
<1>4. OwnOK(w)'  BY <1>2, <1>3, EmptyOwn DEF Moves, Conn
<1>5. QED  BY <1>2, <1>4, HoldStep

\* Quick add begins with its address or its parent.
LEMMA QuickStart ==
    ASSUME EstateInv, NEW w \in Worker, quick_add_ssh(w), intended' = intended
    PROVE  EstateInv'
<1>1. Aside(w) /\ MemoOK(w)' /\ \A kind : Has(w, kind)' = Has(w, kind)
  BY RememberAside DEF quick_add_ssh
<1>2. tx[w].step \notin Writing  BY Starting DEF quick_add_ssh
<1>3. Has(w, "quickadd")  BY DEF quick_add_ssh, Ready
<1>0. \/ tx' = Open(w, "parent", <<Parent(Job(w).parent)>>, NoRows)
      \/ tx' = Open(w, "address", <<AddressCreation(Job(w).cidr)>>, NoRows)
  BY DEF quick_add_ssh
<1>4. ASSUME NEW s \in {"parent", "address"}, NEW l, tx' = Open(w, s, l, NoRows)
      PROVE  EstateInv'
  <2>1. ShapeInv /\ DOMAIN tx[w].own = {}  BY <1>2 DEF EstateInv, StepOK
  <2>2. tx'[w].step = s /\ tx'[w].open = TRUE /\ tx'[w].own = tx[w].own
    BY <1>4, <2>1, OpenFields
  <2>3. Has(w, "quickadd")' /\ ~Has(w, "rotate")'  BY <1>1, <1>3 DEF Has
  <2>4. Kinds(w, s)'  BY <2>3 DEF Kinds, Calling
  <2>5. StepOK(w)'  BY <2>1, <2>2, <2>3, <2>4 DEF StepOK
  <2>6. QED  BY <1>1, <1>2, <1>4, <2>5, EmptyStart
<1>5. QED  BY <1>0, <1>4

\* Deletion begins with the assignments it collected.
LEMMA DeleteStart ==
    ASSUME EstateInv, NEW w \in Worker, Delete(w), intended' = intended
    PROVE  EstateInv'
<1>1. Calm  BY DEF Delete, Quiet, Calm
<1>2. Aside(w) /\ MemoOK(w)' /\ \A kind : Has(w, kind)' = Has(w, kind)  BY <1>1, CalmAside
<1>3. tx[w].step \notin Writing  BY Starting DEF Delete
<1>4. Has(w, "delete")  BY DEF Delete, Ready
<1>5. CASE tx' = Answered(w)  BY <1>1, <1>3, <1>5, CalmAnswer
<1>6. CASE tx' # Answered(w)
  <2> DEFINE c == Job(w).cred
             rows == Collected(c)
             l == <<Projection(c)>> \o SetToSeq(rows)
             all == [r \in rows |-> db[r]]
  <2>1. tx' = Open(w, "clear", l, all)
    BY <1>6 DEF Delete
  <2> HIDE DEF l, all
  <2>2. ShapeInv /\ DOMAIN tx[w].own = {}  BY <1>3 DEF EstateInv, StepOK
  <2>3. tx'[w].step = "clear" /\ tx'[w].own = tx[w].own /\ tx'[w].loaded = all
    BY <2>1, <2>2, OpenFields
  <2>4. \A row \in DOMAIN (tx'[w].loaded) : row[1] = "assignment"
    BY <2>3 DEF Collected, all
  <2>5. Has(w, "delete")' /\ ~Has(w, "rotate")'  BY <1>2, <1>4 DEF Has
  <2>6. Kinds(w, "clear")'  BY <2>5 DEF Kinds, Calling
  <2>7. StepOK(w)'  BY <2>2, <2>3, <2>4, <2>5, <2>6 DEF StepOK
  <2>8. QED  BY <1>2, <1>3, <2>1, <2>7, EmptyStart
<1>7. QED  BY <1>5, <1>6

\* Rotation, re-encryption and withdrawal begin by waiting for the row.
LEMMA MaterialStart ==
    ASSUME EstateInv, NEW w \in Worker, Calm, Rotate(w) \/ Reencrypt(w) \/ Withdraw(w)
    PROVE  EstateInv'
<1>1. Aside(w) /\ MemoOK(w)' /\ \A kind : Has(w, kind)' = Has(w, kind)  BY CalmAside
<1>2. tx[w].step \notin Writing  BY Starting DEF Rotate, Reencrypt, Withdraw
<1>3. CASE tx' = Answered(w)  BY <1>2, <1>3, CalmAnswer
<1>4. CASE tx' # Answered(w)
  <2>0. \/ tx' = Open(w, "merge", <<Material>>, Only(Material, db[Material]))
        \/ tx' = Open(w, "merge", <<Material>>, NoRows)
        \/ tx' = Open(w, "withdraw", <<Material>>, Only(Material, db[Material]))
    BY <1>4 DEF Rotate, Reencrypt, Withdraw
  <2>1. ASSUME NEW s \in {"merge", "withdraw"}, NEW d, tx' = Open(w, s, <<Material>>, d)
        PROVE  EstateInv'
    <3>1. ShapeInv /\ DOMAIN tx[w].own = {}  BY <1>2 DEF EstateInv, StepOK
    <3>2. tx'[w].step = s /\ tx'[w].own = tx[w].own /\ tx'[w].wants = <<Material>>
      BY <2>1, <3>1, OpenFields
    <3>3. Kinds(w, s)'
      <4>1. CASE Withdraw(w)
        <5>1. PICK e : tx' = Open(w, "withdraw", <<Material>>, e)
          BY <1>4, <4>1, Zenon DEF Withdraw
        <5>2. tx'[w].step = "withdraw"  BY <3>1, <5>1, OpenFields
        <5>3. Has(w, "withdraw")  BY <4>1 DEF Withdraw, Ready
        <5>4. QED  BY <1>1, <3>2, <5>2, <5>3 DEF Kinds, Calling
      <4>2. CASE Rotate(w) \/ Reencrypt(w)
        <5>1. PICK e : tx' = Open(w, "merge", <<Material>>, e)
          BY <1>4, <4>2, Zenon DEF Rotate, Reencrypt
        <5>2. tx'[w].step = "merge"  BY <3>1, <5>1, OpenFields
        <5>3. Has(w, "rotate") \/ Has(w, "reencrypt")  BY <4>2 DEF Rotate, Reencrypt, Ready
        <5>4. QED  BY <1>1, <3>2, <5>2, <5>3 DEF Kinds, Calling
      <4>3. QED  BY <4>1, <4>2
    <3>4. StepOK(w)'  BY <1>1, <3>1, <3>2, <3>3 DEF StepOK
    <3>5. QED  BY <1>1, <1>2, <2>1, <3>4, EmptyStart
  <2>2. QED  BY <2>0, <2>1
<1>5. QED  BY <1>3, <1>4

\* A deadlock victim, a refusal and a crash commit nothing.
LEMMA FailKeeps ==
    ASSUME EstateInv, NEW w \in Worker, Calm, Victim(w) \/ Refuse(w) \/ Crash(w)
    PROVE  EstateInv'
<1>1. CASE Victim(w) \/ Refuse(w)
  <2>1. tx' = RolledBack(w, "failed")  BY <1>1 DEF Victim, Refuse
  <2>2. QED  BY <2>1, CalmRollback
<1>2. CASE Crash(w)
  <2>1. tx' = [tx EXCEPT ![w] = [Idle EXCEPT !.step = "dead"]]  BY <1>2 DEF Crash
  <2>2. ShapeInv  BY DEF EstateInv
  <2>3. Moves(w, Conn("dead", FALSE, NoRows, {}, <<>>, <<>>, NoRows, {}))
    BY <2>1, <2>2, ResetMoves
  <2>4. "dead" \notin Special \cup {"prefix", "commit"} /\ Kinds(w, "dead")
    BY DEF Special, Kinds, Calling
  <2>5. QED  BY <2>3, <2>4, CalmRelease
<1>3. QED  BY <1>1, <1>2

\* The end of a request discards memo and marker.
LEMMA EndKeeps ==
    ASSUME EstateInv, NEW w \in Worker, EndRequest(w), intended' = intended
    PROVE  EstateInv'
<1>1. /\ tx' = [tx EXCEPT ![w] = Idle] /\ jobs' = [jobs EXCEPT ![w] = Tail(@)] /\ db' = db
      /\ memo' = [memo EXCEPT ![w] = <<>>]
      /\ pending' = [pending EXCEPT ![w] = FALSE /\ tx[w].open]
      /\ fresh' = [fresh EXCEPT ![w] = {db[Singleton]}]
  BY DEF EndRequest, Finish, clear_config
<1>2. ShapeInv  BY DEF EstateInv
<1>3. Moves(w, Conn("idle", FALSE, NoRows, {}, <<>>, <<>>, NoRows, {}))
  BY <1>1, <1>2, FinishMoves
<1>4. Aside(w)
  <2>1. /\ DOMAIN jobs' = Worker /\ DOMAIN memo' = Worker /\ DOMAIN pending' = Worker
        /\ DOMAIN fresh' = Worker
    BY <1>1, <1>2, Zenon DEF ShapeInv
  <2>2. \A v \in Worker \ {w} : /\ jobs'[v] = jobs[v] /\ memo'[v] = memo[v]
                                /\ pending'[v] = pending[v] /\ fresh'[v] = fresh[v]
    BY <1>1, <1>2, Zenon DEF ShapeInv
  <2>3. QED  BY <1>1, <2>1, <2>2 DEF Aside
<1>5. MemoOK(w)'
  <2>1. memo'[w] = <<>> /\ fresh'[w] = {db[Singleton]}  BY <1>1, <1>2, Zenon DEF ShapeInv
  <2>2. QED  BY <1>1, <2>1 DEF MemoOK
<1>6. "idle" \notin Special \cup {"prefix", "commit"} /\ Kinds(w, "idle")'
  BY DEF Special, Kinds, Calling
<1>7. QED  BY <1>3, <1>4, <1>5, <1>6, ReleaseStep

--------------------------------------------------------------------------------
\* Until the last statement a transaction has written neither the settings nor the material.
LEMMA Unwritten ==
    ASSUME EstateInv, NEW w \in Worker, tx[w].step # "commit" \/ tx[w].wants # <<>>
    PROVE  Singleton \notin DOMAIN tx[w].own /\ Material \notin DOMAIN tx[w].own
BY DEF EstateInv, OwnOK, SettingsOwn, MaterialOwn

\* Rows anyone may write, credentials under the locked prefix.
PlainRows(w, rows) ==
    \A row \in DOMAIN rows :
        /\ row[1] \notin {"advisory", "settings", "material"}
        /\ row[1] = "credential" /\ rows[row] # {} =>
             PrefixReady(w) /\ \A s \in db[Singleton] : The(rows[row]).prefix = s.prefix

\* Such rows may join those a transaction has written.
LEMMA PlainOwn ==
    ASSUME EstateInv, NEW w \in Worker, NEW rows, PlainRows(w, rows), db' = db,
           Singleton \notin DOMAIN tx[w].own, Material \notin DOMAIN tx[w].own,
           tx'[w].own = Over(rows, tx[w].own), tx[w].held \subseteq tx'[w].held
    PROVE  OwnOK(w)'
<1>1. Singleton[1] = "settings" /\ Material[1] = "material"  BY DEF Singleton, Material
<1>2. /\ DOMAIN (tx'[w].own) = DOMAIN rows \cup DOMAIN tx[w].own
      /\ \A row \in DOMAIN (tx'[w].own) :
            tx'[w].own[row] = IF row \in DOMAIN rows THEN rows[row] ELSE tx[w].own[row]
  BY DEF Over
<1>3. Singleton \notin DOMAIN (tx'[w].own) /\ Material \notin DOMAIN (tx'[w].own)
  BY <1>1, <1>2 DEF PlainRows
<1>4. CredentialOwn(w)  BY DEF EstateInv, OwnOK
<1>5. PrefixReady(w) => PrefixReady(w)'  BY DEF PrefixReady
<1>6. CredentialOwn(w)'
  <2> SUFFICES ASSUME NEW row \in DOMAIN (tx'[w].own)
               PROVE  /\ row[1] # "advisory"
                      /\ row[1] = "credential" /\ tx'[w].own[row] # {} =>
                           /\ PrefixReady(w)'
                           /\ \A s \in db[Singleton] : The(tx'[w].own[row]).prefix = s.prefix
    BY DEF CredentialOwn
  <2>1. CASE row \in DOMAIN rows  BY <1>2, <1>5, <2>1 DEF PlainRows
  <2>2. CASE row \notin DOMAIN rows  BY <1>2, <1>4, <1>5, <2>2 DEF CredentialOwn
  <2>3. QED  BY <2>1, <2>2
<1>7. QED  BY <1>3, <1>6 DEF OwnOK, SettingsOwn, MaterialOwn

\* A statement that writes plain rows.
LEMMA WriteStep ==
    ASSUME EstateInv, NEW w \in Worker, Aside(w), MemoOK(w)',
           \A kind : Has(w, kind)' = Has(w, kind),
           NEW rows, NEW h, NEW s, NEW l, tx' = Write(w, rows, h, s, l),
           tx[w].step # "commit", PlainRows(w, rows),
           s \in {"parent", "prefix", "assign", "drop", "commit"},
           Kinds(w, s), s \in {"parent", "prefix"} => tx[w].open,
           s # "commit" => ~Has(w, "configure") /\ ~Has(w, "unset"), ~Has(w, "rotate")
    PROVE  EstateInv'
<1>1. ShapeInv  BY DEF EstateInv
<1>2. Moves(w, Conn(s, tx[w].open, Over(rows, tx[w].own), tx[w].held, l, tx[w].hooks \o h,
                    tx[w].loaded, tx[w].image))
  BY <1>1, WriteMoves
<1>3. /\ tx'[w].own = Over(rows, tx[w].own) /\ tx'[w].held = tx[w].held /\ tx'[w].step = s
      /\ tx'[w].open = tx[w].open
  BY <1>2 DEF Moves, Conn
<1>4. OwnOK(w)'  BY <1>3, Unwritten, PlainOwn DEF Aside
<1>5. Kinds(w, s)'  BY DEF Kinds
<1>6. StepOK(w)'  BY <1>3, <1>5 DEF StepOK, Writing
<1>7. QED  BY <1>2, <1>4, <1>6, HoldStep

\* WriteStep, with the settings and requests unchanged.
LEMMA CalmWrite ==
    ASSUME EstateInv, NEW w \in Worker, Calm,
           NEW rows, NEW h, NEW s, NEW l, tx' = Write(w, rows, h, s, l),
           tx[w].step # "commit", PlainRows(w, rows),
           s \in {"parent", "prefix", "assign", "drop", "commit"},
           Kinds(w, s), s \in {"parent", "prefix"} => tx[w].open,
           s # "commit" => ~Has(w, "configure") /\ ~Has(w, "unset"), ~Has(w, "rotate")
    PROVE  EstateInv'
BY CalmAside, WriteStep

\* An assignment is a plain row.
LEMMA AssignmentPlain ==
    ASSUME NEW w, NEW a, NEW records PROVE PlainRows(w, Only(Assignment(a), records))
<1>1. Assignment(a)[1] = "assignment"  BY DEF Assignment
<1>2. QED  BY <1>1 DEF PlainRows, Only

\* Assignments are written.
LEMMA BindKeeps ==
    ASSUME EstateInv, NEW w \in Worker, Quiet, intended' = intended, _assign(w) \/ Rebind(w)
    PROVE  EstateInv'
<1>1. Calm  BY DEF Calm, Quiet
<1>2. tx[w].step \in {"assign", "rebind"}  BY DEF _assign, Rebind, At
<1>3. ~Has(w, "rotate") /\ Kinds(w, "commit")
  BY <1>2, KindsHold DEF Kinds, Calling, Has
<1>4. \/ tx' = Goto(w, "commit", <<>>)
      \/ \E a, c, target, owners : Bind(w, a, c, target, owners)
  BY Zenon DEF _assign, Rebind
<1>5. ASSUME NEW a, NEW c, NEW target, NEW owners, Bind(w, a, c, target, owners)
      PROVE  EstateInv'
  <2> DEFINE rows == Only(Assignment(a), {[cred |-> c, target |-> target]})
             h == defer_custom_metadata(owners)
  <2>1. tx' = Write(w, rows, h, "commit", <<Credential(c)>>)  BY <1>5 DEF Bind
  <2>2. PlainRows(w, rows)  BY AssignmentPlain
  <2> HIDE DEF rows, h
  <2>3. QED  BY <1>1, <1>2, <1>3, <2>1, <2>2, CalmWrite
<1>6. ASSUME tx' = Goto(w, "commit", <<>>)
      PROVE  EstateInv'
  <2>1. ShapeInv  BY DEF EstateInv
  <2>2. Moves(w, Conn("commit", tx[w].open, tx[w].own, tx[w].held, <<>>, tx[w].hooks,
                      tx[w].loaded, tx[w].image))
    BY <1>6, <2>1, GotoMoves
  <2>3. tx'[w].own = tx[w].own /\ tx'[w].held = tx[w].held /\ tx'[w].step = "commit"
    BY <2>2 DEF Moves, Conn
  <2>4. /\ Aside(w) /\ MemoOK(w)' /\ \A kind : Has(w, kind)' = Has(w, kind)
        /\ Kinds(w, "commit")'
    BY <1>1, <1>3, CalmAside
  <2>5. StepOK(w)'  BY <1>3, <2>3, <2>4 DEF StepOK, Writing
  <2>6. Singleton \notin DOMAIN tx[w].own /\ Material \notin DOMAIN tx[w].own /\ CredentialOwn(w)
    BY <1>2, Unwritten DEF EstateInv, OwnOK
  <2>7. OwnOK(w)'
    BY <2>3, <2>4, <2>6 DEF OwnOK, SettingsOwn, MaterialOwn, CredentialOwn, Aside, PrefixReady
  <2>8. QED  BY <2>2, <2>4, <2>5, <2>7, HoldStep
<1>7. QED  BY <1>4, <1>5, <1>6

\* Assignments and then the credential are deleted.
LEMMA RemoveKeeps ==
    ASSUME EstateInv, NEW w \in Worker, Quiet, intended' = intended,
           DeleteAssignment(w) \/ Clear(w) \/ destroy_material_on_delete(w)
    PROVE  EstateInv'
<1>1. Calm  BY DEF Calm, Quiet
<1>2. tx[w].step \in {"remove", "clear", "drop"}
  BY DEF DeleteAssignment, Clear, destroy_material_on_delete, At
<1>3. ~Has(w, "rotate") /\ Kinds(w, "commit")
  BY <1>2, KindsHold DEF Kinds, Calling, Has
<1>4. CASE DeleteAssignment(w)
  <2>1. PICK a, h : tx' = Write(w, Only(Assignment(a), {}), h, "commit", <<>>)
    BY <1>4, Zenon DEF DeleteAssignment
  <2>2. PlainRows(w, Only(Assignment(a), {}))  BY AssignmentPlain
  <2>3. QED  BY <1>1, <1>2, <1>3, <2>1, <2>2, CalmWrite
<1>5. CASE Clear(w)
  <2> DEFINE rows == [r \in DOMAIN tx[w].loaded |-> {}]
  <2>1. PICK h, l : tx' = Write(w, rows, h, "drop", l)  BY <1>5, Zenon DEF Clear
  <2>2. tx[w].step = "clear"  BY <1>5 DEF Clear, At
  <2>3. Has(w, "delete") /\ \A row \in DOMAIN tx[w].loaded : row[1] = "assignment"
    BY <2>2, KindsHold DEF EstateInv, StepOK, Kinds
  <2>4. ~Has(w, "configure") /\ ~Has(w, "unset") /\ Kinds(w, "drop")
    BY <2>3 DEF Has, Kinds, Calling
  <2>5. PlainRows(w, rows)  BY <2>3 DEF PlainRows
  <2> HIDE DEF rows
  <2>6. QED  BY <1>1, <1>2, <1>3, <2>1, <2>3, <2>4, <2>5, CalmWrite
<1>6. CASE destroy_material_on_delete(w)
  <2> DEFINE rows == Only(Credential(Job(w).cred), {})
             h == <<Destroy(Job(w).cred)>>
  <2>1. tx' = Write(w, rows, h, "commit", <<>>)  BY <1>6 DEF destroy_material_on_delete
  <2>2. Credential(Job(w).cred)[1] = "credential"  BY DEF Credential
  <2>3. PlainRows(w, rows)  BY <2>2 DEF PlainRows, Only
  <2> HIDE DEF rows, h
  <2>4. QED  BY <1>1, <1>2, <1>3, <2>1, <2>3, CalmWrite
<1>7. QED  BY <1>4, <1>5, <1>6

\* Quick add finds or makes its address.
LEMMA AddressKeeps ==
    ASSUME EstateInv, NEW w \in Worker, Quiet, intended' = intended, _new_ip_address(w)
    PROVE  EstateInv'
<1>1. Calm  BY DEF Calm, Quiet
<1>2. tx[w].step = "address"  BY DEF _new_ip_address, At
<1>3. Has(w, "quickadd") /\ tx[w].open  BY <1>2, KindsHold DEF EstateInv, StepOK, Kinds
<1>4. /\ ~Has(w, "rotate") /\ ~Has(w, "configure") /\ ~Has(w, "unset")
      /\ Kinds(w, "parent") /\ Kinds(w, "prefix") /\ Kinds(w, "assign")
  BY <1>3 DEF Has, Kinds, Calling
<1>5. CASE tx' = RolledBack(w, "failed")  BY <1>1, <1>5, CalmRollback
<1>6. CASE tx' # RolledBack(w, "failed")
  <2> DEFINE one == Only(Address(Job(w).address), {[cidr |-> Job(w).cidr]})
             rows == IF Same(w) # {} THEN NoRows ELSE one
  <2>1. tx' = Write(w, rows, <<>>, "parent", <<Parent(Job(w).parent)>>)
    BY <1>6 DEF _new_ip_address
  <2>2. Address(Job(w).address)[1] = "address"  BY DEF Address
  <2>3. PlainRows(w, one)  BY <2>2 DEF PlainRows, Only
  <2>4. PlainRows(w, NoRows)  BY DEF PlainRows, NoRows
  <2> HIDE DEF one
  <2>5. PlainRows(w, rows)  BY <2>3, <2>4
  <2> HIDE DEF rows
  <2>6. QED  BY <1>1, <1>2, <1>3, <1>4, <2>1, <2>5, CalmWrite
<1>7. QED  BY <1>5, <1>6

\* Quick add widens or makes its service.
LEMMA ServiceKeeps ==
    ASSUME EstateInv, NEW w \in Worker, Quiet, intended' = intended, _get_or_create_service(w)
    PROVE  EstateInv'
<1>1. Calm  BY DEF Calm, Quiet
<1>2. tx[w].step = "service"  BY DEF _get_or_create_service, At
<1>3. Has(w, "quickadd") /\ tx[w].open  BY <1>2, KindsHold DEF EstateInv, StepOK, Kinds
<1>4. /\ ~Has(w, "rotate") /\ ~Has(w, "configure") /\ ~Has(w, "unset")
      /\ Kinds(w, "parent") /\ Kinds(w, "prefix") /\ Kinds(w, "assign")
  BY <1>3 DEF Has, Kinds, Calling
<1>5. CASE tx' = RolledBack(w, "failed")  BY <1>1, <1>5, CalmRollback
<1>6. CASE tx' # RolledBack(w, "failed")
  <2> DEFINE chosen == IF Job(w).address # "none" THEN {a[2] : a \in Same(w)}
                       ELSE _primary_ip_addresses(w)
             services == ServicesOf(w)
             row == IF services = {} THEN Service(Job(w).service) ELSE CHOOSE s \in services : TRUE
             old == IF services = {} THEN [ports |-> {}, addresses |-> {}] ELSE The(Seen(w, row))
             record == [parent |-> Job(w).parent, name |-> Job(w).name,
                        ports |-> old.ports \cup {Job(w).port},
                        addresses |-> IF old.addresses = {} THEN chosen ELSE old.addresses]
  <2>1. tx' = Write(w, Only(row, {record}), <<>>, IF Job(w).existing THEN "assign" ELSE "prefix",
                    IF Job(w).existing THEN <<>> ELSE <<Singleton>>)
    BY <1>6 DEF _get_or_create_service
  <2>2. row[1] = "service"
    <3>1. Service(Job(w).service)[1] = "service"  BY DEF Service
    <3>2. \A s \in services : s[1] = "service"  BY DEF ServicesOf, Table
    <3> HIDE DEF services
    <3>3. services # {} => (CHOOSE s \in services : TRUE) \in services  BY Zenon
    <3>4. QED  BY <3>1, <3>2, <3>3
  <2> HIDE DEF row, record
  <2>3. PlainRows(w, Only(row, {record}))  BY <2>2 DEF PlainRows, Only
  <2>4. ASSUME NEW s \in {"assign", "prefix"}, NEW l,
               tx' = Write(w, Only(row, {record}), <<>>, s, l)
        PROVE  EstateInv'
    BY <1>1, <1>2, <1>3, <1>4, <2>3, <2>4, CalmWrite
  <2>5. QED  BY <2>1, <2>4
<1>7. QED  BY <1>5, <1>6

\* Before the last statement more locks do no harm to what was written.
LEMMA CarryOwn ==
    ASSUME EstateInv, NEW w \in Worker, db' = db, tx[w].step # "commit" \/ tx[w].wants # <<>>,
           tx'[w].own = tx[w].own, tx[w].held \subseteq tx'[w].held
    PROVE  OwnOK(w)'
<1>1. Singleton \notin DOMAIN tx[w].own /\ Material \notin DOMAIN tx[w].own /\ CredentialOwn(w)
  BY Unwritten DEF EstateInv, OwnOK
<1>2. PrefixReady(w) => PrefixReady(w)'  BY DEF PrefixReady
<1>3. QED  BY <1>1, <1>2 DEF OwnOK, SettingsOwn, MaterialOwn, CredentialOwn

\* A transaction goes on to a step whose demands it meets.
LEMMA GotoKeeps ==
    ASSUME EstateInv, NEW w \in Worker, Calm, NEW s, NEW l, tx' = Goto(w, s, l),
           tx[w].step # "commit", StepOK(w)'
    PROVE  EstateInv'
<1>1. ShapeInv  BY DEF EstateInv
<1>2. Moves(w, Conn(s, tx[w].open, tx[w].own, tx[w].held, l, tx[w].hooks, tx[w].loaded,
                    tx[w].image))
  BY <1>1, GotoMoves
<1>3. tx'[w].own = tx[w].own /\ tx'[w].held = tx[w].held  BY <1>2 DEF Moves, Conn
<1>4. Aside(w) /\ MemoOK(w)'  BY CalmAside
<1>5. OwnOK(w)'  BY <1>3, <1>4, CarryOwn DEF Aside
<1>6. QED  BY <1>2, <1>4, <1>5, HoldStep

\* _lock_for_prefix_write: the row lock, or the advisory lock and a second look.
LEMMA LockKeeps ==
    ASSUME EstateInv, NEW w \in Worker, _lock_for_prefix_write(w), intended' = intended
    PROVE  EstateInv'
<1>1. Calm  BY DEF _lock_for_prefix_write, Calm
<1>2. tx[w].step = "prefix" /\ StepOK(w) /\ ShapeInv
  BY DEF _lock_for_prefix_write, At, EstateInv
<1>3. PICK l : /\ tx' = Goto(w, "locked", l)
               /\ l = IF Singleton \in tx[w].held THEN <<>> ELSE <<PrefixWrite, Singleton>>
  BY Zenon DEF _lock_for_prefix_write
<1>4. Moves(w, Conn("locked", tx[w].open, tx[w].own, tx[w].held, l, tx[w].hooks, tx[w].loaded,
                    tx[w].image))
  BY <1>2, <1>3, GotoMoves
<1>5. /\ tx'[w].own = tx[w].own /\ tx'[w].held = tx[w].held /\ tx'[w].step = "locked"
      /\ tx'[w].open = tx[w].open /\ tx'[w].wants = l
  BY <1>4 DEF Moves, Conn
<1>6. \A kind : Has(w, kind)' = Has(w, kind)  BY <1>1, CalmAside
<1>7. Kinds(w, "locked")'  BY <1>2, <1>6, KindsHold DEF Kinds, Calling
<1>8. StepOK(w)'  BY <1>2, <1>3, <1>5, <1>6, <1>7 DEF StepOK, PrefixReady, Writing
<1>9. QED  BY <1>1, <1>2, <1>3, <1>8, GotoKeeps

\* Quick add locks its parent's services.
LEMMA LockServiceKeeps ==
    ASSUME EstateInv, NEW w \in Worker, LockService(w), intended' = intended
    PROVE  EstateInv'
<1>1. Calm  BY DEF LockService, Quiet, Calm
<1>2. tx[w].step = "parent" /\ StepOK(w) /\ ShapeInv
  BY DEF LockService, At, EstateInv
<1>3. PICK l : tx' = Goto(w, "service", l)  BY Zenon DEF LockService
<1>4. Moves(w, Conn("service", tx[w].open, tx[w].own, tx[w].held, l, tx[w].hooks, tx[w].loaded,
                    tx[w].image))
  BY <1>2, <1>3, GotoMoves
<1>5. /\ tx'[w].own = tx[w].own /\ tx'[w].step = "service" /\ tx'[w].open = tx[w].open
  BY <1>4 DEF Moves, Conn
<1>6. \A kind : Has(w, kind)' = Has(w, kind)  BY <1>1, CalmAside
<1>7. Kinds(w, "service")'  BY <1>2, <1>6, KindsHold DEF Kinds, Calling
<1>8. StepOK(w)'  BY <1>2, <1>5, <1>6, <1>7 DEF StepOK, Writing
<1>9. QED  BY <1>1, <1>2, <1>3, <1>8, GotoKeeps

\* A member of a row.
LEMMA TheIn == ASSUME NEW rows, rows # {} PROVE The(rows) \in rows
BY Zenon DEF The

\* Who is through with the lock for prefix writes reads the settings row, or knows it absent.
LEMMA LockedReads ==
    ASSUME EstateInv, NEW w \in Worker, At(w, "locked")
    PROVE  /\ PrefixReady(w) /\ tx[w].open /\ Singleton \notin DOMAIN tx[w].own
           /\ Locked(w) = db[Singleton]
           /\ Singleton \in tx[w].held <=> db[Singleton] # {}
<1>1. tx[w].step = "locked" /\ tx[w].wants = <<>>  BY DEF At
<1>2. PrefixReady(w) /\ tx[w].open
  <2>1. StepOK(w)  BY DEF EstateInv
  <2>2. tx[w].open  BY <1>1, <2>1 DEF StepOK
  <2>3. \/ tx[w].wants = <<PrefixWrite, Singleton>>
        \/ tx[w].wants = <<Singleton>>
        \/ PrefixReady(w)
    BY <1>1, <2>1, Zenon DEF StepOK
  <2>4. <<PrefixWrite, Singleton>> # <<>> /\ <<Singleton>> # <<>>  OBVIOUS
  <2>5. QED  BY <1>1, <2>2, <2>3, <2>4
<1>3. Singleton \notin DOMAIN tx[w].own  BY <1>1, Unwritten
<1>4. Singleton \in tx[w].held => db[Singleton] # {}  BY DEF EstateInv, LockInv
<1>5. QED  BY <1>2, <1>3, <1>4 DEF Locked, Seen, PrefixReady

\* A credential is stamped with the prefix of the settings row, while the lock keeps
\* that row, or its absence, as it is.
LEMMA StampKeeps ==
    ASSUME EstateInv, NEW w \in Worker, Stamp(w), intended' = intended
    PROVE  EstateInv'
<1> DEFINE prefix == IF Locked(w) # {} THEN The(Locked(w)).prefix ELSE get_config(w)
           source == IF Has(w, "import") THEN Item(w).source ELSE "none"
           row == Only(Credential(Item(w).cred), {[prefix |-> prefix, source |-> source]})
           s == IF Has(w, "create") THEN "commit" ELSE "assign"
<1>1. /\ At(w, "locked") /\ (Has(w, "create") \/ Has(w, "quickadd") \/ Has(w, "import"))
      /\ UNCHANGED <<jobs, db, fresh, intended>>
  BY DEF Stamp
<1>2. \/ tx' = RolledBack(w, "failed") /\ UNCHANGED <<memo, pending>>
      \/ /\ tx' = Write(w, row, <<>>, s, <<>>)
         /\ Remember(w) \/ UNCHANGED <<memo, pending>>
  BY DEF Stamp
<1>3. CASE tx' = RolledBack(w, "failed") /\ UNCHANGED <<memo, pending>>
  <2>1. Calm  BY <1>1, <1>3 DEF Calm, settingsVars
  <2>2. QED  BY <1>3, <2>1, CalmRollback
<1>4. CASE tx' = Write(w, row, <<>>, s, <<>>) /\ (Remember(w) \/ UNCHANGED <<memo, pending>>)
  <2>1. Aside(w) /\ MemoOK(w)' /\ \A kind : Has(w, kind)' = Has(w, kind)
    <3>1. CASE Remember(w)  BY <1>1, <3>1, RememberAside
    <3>2. CASE UNCHANGED <<memo, pending>>
      <4>1. Calm  BY <1>1, <3>2 DEF Calm, settingsVars
      <4>2. QED  BY <4>1, CalmAside
    <3>3. QED  BY <1>4, <3>1, <3>2
  <2>2. PrefixReady(w) /\ Locked(w) = db[Singleton]  BY <1>1, LockedReads
  <2>3. \A t \in db[Singleton] : prefix = t.prefix
    <3>1. \A t, u \in db[Singleton] : t = u  BY DEF EstateInv, RowsOK
    <3>2. QED  BY <2>2, <3>1, TheIn
  <2>4. PlainRows(w, row)
    <3>1. Credential(Item(w).cred)[1] = "credential"  BY DEF Credential
    <3> HIDE DEF prefix, source
    <3>2. The({[prefix |-> prefix, source |-> source]}) = [prefix |-> prefix, source |-> source]
      BY TheIn
    <3>3. QED  BY <2>2, <2>3, <3>1, <3>2 DEF PlainRows, Only
  <2> HIDE DEF row
  <2>5. s \in {"assign", "commit"}  OBVIOUS
  <2> HIDE DEF s
  <2>6. ~Has(w, "rotate") /\ ~Has(w, "configure") /\ ~Has(w, "unset") /\ Kinds(w, s)
    BY <1>1 DEF Has, Kinds, Calling, s
  <2>7. tx[w].step # "commit"  BY <1>1 DEF At
  <2>8. QED  BY <1>4, <2>1, <2>4, <2>5, <2>6, <2>7, WriteStep
<1>5. QED  BY <1>2, <1>3, <1>4

\* clear_config marks the uncommitted write and forgets the memo.
LEMMA ClearAside ==
    ASSUME EstateInv, NEW w \in Worker, clear_config(w, TRUE), UNCHANGED <<jobs, db, fresh, intended>>
    PROVE  /\ Aside(w) /\ MemoOK(w)' /\ \A kind : Has(w, kind)' = Has(w, kind)
           /\ tx[w].open => pending'[w]
<1>1. DOMAIN memo = Worker /\ DOMAIN pending = Worker /\ MemoOK(w)  BY DEF EstateInv, ShapeInv
<1>2. /\ DOMAIN memo' = Worker /\ DOMAIN pending' = Worker
      /\ \A v \in Worker \ {w} : memo'[v] = memo[v] /\ pending'[v] = pending[v]
      /\ memo'[w] = <<>> /\ pending'[w] = (TRUE /\ tx[w].open)
  BY <1>1, Zenon DEF clear_config
<1>3. Aside(w)  BY <1>2 DEF Aside, EstateInv, ShapeInv
<1>4. MemoOK(w)'  BY <1>1, <1>2 DEF MemoOK
<1>5. \A kind : Has(w, kind)' = Has(w, kind)  BY DEF Has, Job
<1>6. QED  BY <1>2, <1>3, <1>4, <1>5

\* The settings row is written, or deleted, under the lock for prefix writes.
LEMMA SettingsWrite ==
    ASSUME EstateInv, NEW w \in Worker, clear_config(w, TRUE), UNCHANGED <<jobs, db, fresh, intended>>,
           At(w, "locked"), Has(w, "configure") \/ Has(w, "unset"),
           NEW rows, tx' = Write(w, rows, <<>>, "commit", <<>>), DOMAIN rows \subseteq {Singleton},
           Singleton \in DOMAIN rows => \A r, s \in rows[Singleton] : r = s,
           Singleton \in DOMAIN rows => \A s \in rows[Singleton] : \A row \in Stored("credential") :
                    The(db[row]).prefix = s.prefix
    PROVE  EstateInv'
<1>1. /\ Aside(w) /\ MemoOK(w)' /\ \A kind : Has(w, kind)' = Has(w, kind)
      /\ tx[w].open => pending'[w]
  BY ClearAside
<1>2. ShapeInv  BY DEF EstateInv
<1>3. Moves(w, Conn("commit", tx[w].open, Over(rows, tx[w].own), tx[w].held, <<>>,
                    tx[w].hooks \o <<>>, tx[w].loaded, tx[w].image))
  BY <1>2, WriteMoves
<1>4. /\ tx'[w].own = Over(rows, tx[w].own) /\ tx'[w].held = tx[w].held /\ tx'[w].step = "commit"
      /\ tx'[w].open = tx[w].open /\ tx'[w].wants = <<>>
  BY <1>3 DEF Moves, Conn
<1>5. PrefixReady(w) /\ tx[w].open  BY LockedReads
<1>6. DOMAIN tx[w].own = {}
  BY DEF EstateInv, StepOK, At
<1>7. /\ DOMAIN (tx'[w].own) = DOMAIN rows
      /\ \A row \in DOMAIN rows : tx'[w].own[row] = rows[row]
  BY <1>4, <1>6 DEF Over
<1>8. ~Has(w, "rotate") /\ ~Has(w, "call")  BY DEF Has
<1>9. StepOK(w)'
  <2>1. Kinds(w, "commit")'  BY <1>1, <1>8 DEF Kinds, Calling
  <2>2. QED  BY <1>1, <1>4, <1>8, <2>1 DEF StepOK, Writing
<1>10. Stored("credential")' = Stored("credential") /\ PrefixReady(w)'
  BY <1>4, <1>5 DEF Stored, PrefixReady
<1>11. SettingsOwn(w)'
  <2> SUFFICES ASSUME Singleton \in DOMAIN (tx'[w].own) PROVE SettingsOwn(w)'
    BY DEF SettingsOwn
  <2>1. DOMAIN (tx'[w].own) = {Singleton} /\ tx'[w].own[Singleton] = rows[Singleton]  BY <1>7
  <2>2. tx'[w].open /\ pending'[w]  BY <1>1, <1>4, <1>5
  <2>3. \A r, s \in tx'[w].own[Singleton] : r = s  BY <1>7, <2>1
  <2>4. \A s \in tx'[w].own[Singleton] : \A row \in Stored("credential") :
           The(db'[row]).prefix = s.prefix
    BY <1>7, <2>1
  <2>5. QED  BY <1>4, <1>10, <2>1, <2>2, <2>3, <2>4 DEF SettingsOwn
<1>12. CredentialOwn(w)' /\ MaterialOwn(w)'
  <2>1. Singleton[1] = "settings" /\ Material # Singleton  BY DEF Singleton, Material
  <2>2. QED  BY <1>7, <2>1 DEF CredentialOwn, MaterialOwn
<1>13. OwnOK(w)'  BY <1>11, <1>12 DEF OwnOK
<1>14. QED  BY <1>1, <1>3, <1>9, <1>13, HoldStep

\* _save_locked validates again under the lock: the credentials it saw are all there are.
LEMMA SaveSettingsKeeps ==
    ASSUME EstateInv, NEW w \in Worker, _save_locked(w), intended' = intended
    PROVE  EstateInv'
<1>1. At(w, "locked") /\ Has(w, "configure") /\ UNCHANGED <<jobs, db, fresh, intended>>
  BY DEF _save_locked
<1> DEFINE prefix == Job(w).prefix
           pk == IF Loaded(w) = {} THEN <<w, Len(jobs[w])>> ELSE The(Loaded(w)).pk
           rows == Only(Singleton, {[pk |-> pk, prefix |-> prefix]})
<1>2. \/ /\ _validate_prefix_change(w, prefix, Locked(w))
         /\ tx' = Write(w, rows, <<>>, "commit", <<>>)
         /\ clear_config(w, TRUE)
      \/ tx' = RolledBack(w, "failed") /\ UNCHANGED <<memo, pending>>
  BY DEF _save_locked
<1>3. CASE tx' = RolledBack(w, "failed") /\ UNCHANGED <<memo, pending>>
  <2>1. Calm  BY <1>1, <1>3 DEF Calm, settingsVars
  <2>2. QED  BY <1>3, <2>1, CalmRollback
<1>4. CASE /\ _validate_prefix_change(w, prefix, Locked(w))
           /\ tx' = Write(w, rows, <<>>, "commit", <<>>) /\ clear_config(w, TRUE)
  <2>1. Locked(w) = db[Singleton]  BY <1>1, LockedReads
  <2>2. DOMAIN tx[w].own = {}  BY <1>1 DEF EstateInv, StepOK, At
  <2>3. Credentials(w) = {The(db[row]) : row \in Stored("credential")}
    BY <2>2 DEF Credentials, Table, Seen, Stored
  <2>4. \A row \in Stored("credential") : The(db[row]).prefix = prefix
    <3> HIDE DEF prefix
    <3> SUFFICES ASSUME NEW row \in Stored("credential") PROVE The(db[row]).prefix = prefix
      OBVIOUS
    <3>1. The(db[row]) \in Credentials(w)  BY <2>3
    <3>2. CASE db[Singleton] = {}
      <4>1. \A c \in Credentials(w) : c.prefix = prefix
        BY <1>4, <2>1, <3>2 DEF _validate_prefix_change
      <4>2. QED  BY <3>1, <4>1
    <3>3. CASE db[Singleton] # {}
      <4>1. The(db[Singleton]).prefix = prefix
        BY <1>4, <2>1, <3>1, <3>3 DEF _validate_prefix_change
      <4>2. The(db[Singleton]) \in db[Singleton]  BY <3>3, TheIn
      <4>3. PrefixCoherent  BY DEF EstateInv, RowsOK
      <4>4. QED  BY <4>1, <4>2, <4>3 DEF PrefixCoherent
    <3>4. QED  BY <3>2, <3>3
  <2> HIDE DEF prefix, pk
  <2>5. DOMAIN rows = {Singleton} /\ rows[Singleton] = {[pk |-> pk, prefix |-> prefix]}
    BY DEF Only
  <2>6. \A r, s \in rows[Singleton] : r = s  BY <2>5
  <2>7. \A s \in rows[Singleton] : s.prefix = prefix  BY <2>5
  <2> HIDE DEF rows
  <2>8. \A s \in rows[Singleton] : \A row \in Stored("credential") : The(db[row]).prefix = s.prefix
    BY <2>4, <2>7
  <2>9. QED  BY <1>1, <1>4, <2>5, <2>6, <2>8, SettingsWrite
<1>5. QED  BY <1>2, <1>3, <1>4

\* Deletion of the settings row.
LEMMA DeleteSettingsKeeps ==
    ASSUME EstateInv, NEW w \in Worker, delete_settings(w), intended' = intended
    PROVE  EstateInv'
<1>1. At(w, "locked") /\ Has(w, "unset") /\ UNCHANGED <<jobs, db, fresh, intended>>
  BY DEF delete_settings
<1>2. \/ /\ \/ tx' = Write(w, Only(Singleton, {}), <<>>, "commit", <<>>)
            \/ tx' = Write(w, NoRows, <<>>, "commit", <<>>)
         /\ clear_config(w, TRUE)
      \/ tx' = RolledBack(w, "failed") /\ UNCHANGED <<memo, pending>>
  BY DEF delete_settings
<1>3. CASE tx' = RolledBack(w, "failed") /\ UNCHANGED <<memo, pending>>
  <2>1. Calm  BY <1>1, <1>3 DEF Calm, settingsVars
  <2>2. QED  BY <1>3, <2>1, CalmRollback
<1>4. ASSUME NEW rows \in {Only(Singleton, {}), NoRows}, clear_config(w, TRUE),
             tx' = Write(w, rows, <<>>, "commit", <<>>)
      PROVE  EstateInv'
  <2>1. /\ DOMAIN rows \subseteq {Singleton}
        /\ Singleton \in DOMAIN rows => rows[Singleton] = {}
    BY DEF Only, NoRows
  <2>2. QED  BY <1>1, <1>4, <2>1, SettingsWrite
<1>5. QED  BY <1>2, <1>3, <1>4

--------------------------------------------------------------------------------
\* Who merges or withdraws holds the material row, or knows it absent.
LEMMA MaterialReads ==
    ASSUME EstateInv, NEW w \in Worker, At(w, "merge") \/ At(w, "withdraw")
    PROVE  /\ MaterialReady(w) /\ DOMAIN tx[w].own = {} /\ Seen(w, Material) = db[Material]
<1>1. tx[w].step \in {"merge", "withdraw"} /\ tx[w].wants = <<>> /\ StepOK(w)
  BY DEF At, EstateInv
<1>2. <<Material>> # <<>>  OBVIOUS
<1>3. MaterialReady(w)  BY <1>1, <1>2, Zenon DEF StepOK
<1>4. DOMAIN tx[w].own = {}  BY <1>1 DEF StepOK, Writing
<1>5. QED  BY <1>3, <1>4 DEF Seen

\* The material row is replaced by the merged one, or removed.
LEMMA MaterialWrite ==
    ASSUME EstateInv, NEW w \in Worker, Calm, At(w, "merge") \/ At(w, "withdraw"),
           NEW records, NEW h, tx' = Write(w, Only(Material, records), h, "commit", <<>>),
           Has(w, "rotate") => records # {}, \A r, s \in records : r = s,
           records # {} => Material \in tx[w].held,
           \A r \in records, m \in db[Material] :
              r.fields = Merged(w, m.fields) /\ r.revision = m.revision + 1
    PROVE  EstateInv'
<1>1. Aside(w) /\ MemoOK(w)' /\ \A kind : Has(w, kind)' = Has(w, kind)  BY CalmAside
<1>2. ShapeInv  BY DEF EstateInv
<1> DEFINE rows == Only(Material, records)
<1>3. Moves(w, Conn("commit", tx[w].open, Over(rows, tx[w].own), tx[w].held, <<>>,
                    tx[w].hooks \o h, tx[w].loaded, tx[w].image))
  BY <1>2, WriteMoves
<1>4. /\ tx'[w].own = Over(rows, tx[w].own) /\ tx'[w].held = tx[w].held /\ tx'[w].step = "commit"
      /\ tx'[w].wants = <<>>
  BY <1>3 DEF Moves, Conn
<1>5. MaterialReady(w) /\ DOMAIN tx[w].own = {}  BY MaterialReads
<1>6. DOMAIN (tx'[w].own) = {Material} /\ tx'[w].own[Material] = records
  BY <1>4, <1>5 DEF Over, Only
<1>7. StepOK(w)'
  <2>1. ~Has(w, "call")  BY KindsHold DEF Kinds, Has, At
  <2>2. Kinds(w, "commit")'  BY <1>1, <2>1 DEF Kinds, Calling
  <2>3. QED  BY <1>1, <1>4, <1>6, <2>2 DEF StepOK, Writing
<1>8. Material[1] = "material" /\ Material # Singleton  BY DEF Singleton, Material
<1>9. SettingsOwn(w)' /\ CredentialOwn(w)'  BY <1>6, <1>8 DEF SettingsOwn, CredentialOwn
<1>10. \A f : Merged(w, f)' = Merged(w, f)
  BY <1>1 DEF Merged, _submitted_fields, Job, Calm
<1>11. MaterialReady(w)'  BY <1>1, <1>4, <1>5 DEF MaterialReady, Aside
<1>12. MaterialOwn(w)'
  BY <1>1, <1>4, <1>6, <1>10, <1>11 DEF MaterialOwn, Aside
<1>13. QED  BY <1>1, <1>3, <1>7, <1>9, <1>12, HoldStep DEF OwnOK

\* EngineAuthMaterial.save merges the submitted fields onto the locked row.
LEMMA SaveKeeps ==
    ASSUME EstateInv, NEW w \in Worker, Calm, save(w)
    PROVE  EstateInv'
<1> DEFINE old == The(Seen(w, Material))
           fields == [f \in Field |-> IF f \in _submitted_fields(w) THEN Job(w).value
                                      ELSE old.fields[f]]
           record == [revision |-> old.revision + 1, fields |-> fields]
<1>1. At(w, "merge")  BY DEF save
<1>2. \/ tx' = RolledBack(w, "failed")
      \/ /\ Seen(w, Material) # {}
         /\ tx' = Write(w, Only(Material, {record}), <<Invalidate(old.revision)>>, "commit", <<>>)
  BY DEF save
<1>3. CASE tx' = RolledBack(w, "failed")  BY <1>3, CalmRollback
<1>4. CASE /\ Seen(w, Material) # {}
           /\ tx' = Write(w, Only(Material, {record}), <<Invalidate(old.revision)>>, "commit", <<>>)
  <2>1. MaterialReady(w) /\ Seen(w, Material) = db[Material]  BY <1>1, MaterialReads
  <2>2. Material \in tx[w].held  BY <1>4, <2>1 DEF MaterialReady
  <2>3. \A m \in db[Material] : m = old
    <3>1. \A r, s \in db[Material] : r = s  BY DEF EstateInv, RowsOK
    <3>2. QED  BY <1>4, <2>1, <3>1, TheIn
  <2>4. fields = Merged(w, old.fields)  BY DEF Merged
  <2> HIDE DEF fields, old
  <2>5. record.fields = fields /\ record.revision = old.revision + 1  OBVIOUS
  <2> HIDE DEF record
  <2>6. \A r \in {record}, m \in db[Material] :
           r.fields = Merged(w, m.fields) /\ r.revision = m.revision + 1
    BY <2>3, <2>4, <2>5
  <2>7. QED  BY <1>1, <1>4, <2>2, <2>6, MaterialWrite
<1>5. QED  BY <1>2, <1>3, <1>4

\* The material row is deleted.
LEMMA DeleteMaterialKeeps ==
    ASSUME EstateInv, NEW w \in Worker, Calm, DeleteMaterial(w)
    PROVE  EstateInv'
<1>1. At(w, "withdraw")  BY DEF DeleteMaterial
<1>2. ~Has(w, "rotate")  BY <1>1, KindsHold DEF At, Kinds, Has
<1>3. PICK h : tx' = Write(w, Only(Material, {}), h, "commit", <<>>)  BY Zenon DEF DeleteMaterial
<1>4. QED  BY <1>1, <1>2, <1>3, MaterialWrite

\* A lock is granted to one transaction, and only for a row that is there.
LEMMA GrantKeeps ==
    ASSUME EstateInv, NEW w \in Worker, Calm, Grant(w)
    PROVE  EstateInv'
<1> DEFINE lock == Head(tx[w].wants)
           locked == IF Found(w, lock) THEN {lock} ELSE {}
<1>1. /\ tx[w].wants # <<>> /\ (Found(w, lock) => Holders(w, lock) = {})
      /\ tx' = [tx EXCEPT ![w].wants = Tail(@), ![w].held = @ \cup locked]
  BY DEF Grant, Blockers
<1>2. ShapeInv /\ LockInv /\ RowsOK /\ StepOK(w)  BY DEF EstateInv
<1>3. Moves(w, Conn(tx[w].step, tx[w].open, tx[w].own, tx[w].held \cup locked,
                    Tail(tx[w].wants), tx[w].hooks, tx[w].loaded, tx[w].image))
  BY <1>1, <1>2, GrantMoves
<1>4. /\ tx'[w].own = tx[w].own /\ tx'[w].held = tx[w].held \cup locked
      /\ tx'[w].step = tx[w].step /\ tx'[w].open = tx[w].open /\ tx'[w].loaded = tx[w].loaded
      /\ tx'[w].wants = Tail(tx[w].wants) /\ \A v \in Worker \ {w} : tx'[v] = tx[v]
  BY <1>3 DEF Moves, Conn
<1>5. Aside(w) /\ MemoOK(w)' /\ \A kind : Has(w, kind)' = Has(w, kind)  BY CalmAside
<1>6. ShapeInv'  BY <1>2, <1>3, <1>5, MovesShape
<1>7. \A v \in Worker \ {w} : tx'[w].held \cap tx[v].held = {}
  <2> SUFFICES ASSUME NEW v \in Worker \ {w} PROVE tx'[w].held \cap tx[v].held = {}
    OBVIOUS
  <2>1. tx[w].held \cap tx[v].held = {}  BY <1>2 DEF LockInv
  <2>2. Found(w, lock) => lock \notin tx[v].held  BY <1>1 DEF Holders
  <2>3. \A x \in locked : x = lock /\ Found(w, lock)  OBVIOUS
  <2> HIDE DEF lock, locked
  <2>4. QED  BY <1>4, <2>1, <2>2, <2>3
<1>8. Singleton \notin DOMAIN tx[w].own /\ Material \notin DOMAIN tx[w].own
  BY <1>1, Unwritten
<1>9. \A row \in {Singleton, Material} : row \in tx'[w].held => db[row] # {}
  <2> SUFFICES ASSUME NEW row \in {Singleton, Material}, row \in tx'[w].held
               PROVE  db[row] # {}
    OBVIOUS
  <2>1. CASE row \in tx[w].held  BY <1>2, <2>1 DEF LockInv
  <2>2. CASE row \notin tx[w].held
    <3>1. row = lock /\ Found(w, lock)  BY <1>4, <2>2
    <3> HIDE DEF lock, locked
    <3>2. row \in DOMAIN db /\ row \notin DOMAIN tx[w].own  BY <1>2, <1>8 DEF RowsOK
    <3>3. QED  BY <3>1, <3>2 DEF Found, Seen
  <2>3. QED  BY <2>1, <2>2
<1>10. OwnOK(w)'  BY <1>1, <1>4, <1>5, CarryOwn DEF Aside
<1>11. \A row \in {Singleton, Material} : lock = row => row \in tx'[w].held \/ db[row] = {}
  BY <1>4, <1>8 DEF Found, Seen
<1>12. lock = PrefixWrite => PrefixWrite \in tx'[w].held
  <2>1. PrefixWrite[1] = "advisory"  BY DEF PrefixWrite
  <2>2. PrefixWrite \notin DOMAIN db  BY <1>2, <2>1 DEF RowsOK
  <2>3. QED  BY <1>4, <2>2 DEF Found
<1>13. tx[w].wants = <<PrefixWrite, Singleton>> =>
          lock = PrefixWrite /\ Tail(tx[w].wants) = <<Singleton>>
  OBVIOUS
<1>14. \A row : tx[w].wants = <<row>> => lock = row /\ Tail(tx[w].wants) = <<>>
  OBVIOUS
<1> HIDE DEF lock, locked
<1>15. tx'[w].step = "locked" =>
         \/ tx'[w].wants = <<PrefixWrite, Singleton>>
         \/ tx'[w].wants = <<Singleton>> /\ PrefixWrite \in tx'[w].held
         \/ tx'[w].wants = <<>> /\ PrefixReady(w)'
  <2> SUFFICES ASSUME tx[w].step = "locked"
               PROVE  \/ tx'[w].wants = <<Singleton>> /\ PrefixWrite \in tx'[w].held
                      \/ tx'[w].wants = <<>> /\ PrefixReady(w)'
    BY <1>4
  <2>1. \/ tx[w].wants = <<PrefixWrite, Singleton>>
        \/ tx[w].wants = <<Singleton>> /\ PrefixWrite \in tx[w].held
    BY <1>1, <1>2, Zenon DEF StepOK
  <2>2. CASE tx[w].wants = <<PrefixWrite, Singleton>>  BY <1>4, <1>12, <1>13, <2>2
  <2>3. CASE tx[w].wants = <<Singleton>> /\ PrefixWrite \in tx[w].held
    <3>1. lock = Singleton /\ tx'[w].wants = <<>>  BY <1>4, <1>14, <2>3
    <3>2. PrefixWrite \in tx'[w].held  BY <1>4, <2>3
    <3>3. PrefixReady(w)'  BY <1>5, <1>11, <3>1, <3>2 DEF PrefixReady, Aside
    <3>4. QED  BY <3>1, <3>3
  <2>4. QED  BY <2>1, <2>2, <2>3
<1>16. tx'[w].step \in {"merge", "withdraw"} =>
         tx'[w].wants = <<Material>> \/ (tx'[w].wants = <<>> /\ MaterialReady(w)')
  <2> SUFFICES ASSUME tx[w].step \in {"merge", "withdraw"}
               PROVE  tx'[w].wants = <<>> /\ MaterialReady(w)'
    BY <1>4
  <2>1. tx[w].wants = <<Material>>  BY <1>1, <1>2, Zenon DEF StepOK
  <2>2. lock = Material /\ tx'[w].wants = <<>>  BY <1>4, <1>14, <2>1
  <2>3. MaterialReady(w)'  BY <1>5, <1>11, <2>2 DEF MaterialReady, Aside
  <2>4. QED  BY <2>2, <2>3
<1>17. StepOK(w)'
  <2>1. Kinds(w, tx[w].step)'  BY <1>2, <1>4, <1>5 DEF StepOK, Kinds
  <2>2. QED  BY <1>2, <1>4, <1>5, <1>15, <1>16, <2>1 DEF StepOK
<1>18. QED  BY <1>4, <1>5, <1>6, <1>7, <1>9, <1>10, <1>17, LocalStep

--------------------------------------------------------------------------------
\* Two transactions are never both ready to write under the prefix.
LEMMA OneReady ==
    ASSUME EstateInv, NEW v \in Worker, NEW w \in Worker, v # w, PrefixReady(v)
    PROVE  ~PrefixReady(w)
BY DEF EstateInv, LockInv, PrefixReady

\* A commit changes no row that another transaction's step relies on, and the rows it
\* writes were right when they were written and still are.
LEMMA CommitKeeps ==
    ASSUME EstateInv, NEW w \in Worker, At(w, "commit"), db' = Over(tx[w].own, db),
           tx' = [tx EXCEPT ![w] = [Idle EXCEPT !.step = "callbacks", !.hooks = tx[w].hooks,
                                                !.loaded = tx[w].loaded]],
           UNCHANGED <<jobs, memo, pending>>,
           fresh' = [v \in Worker |-> fresh[v] \cup {db'[Singleton]}],
           intended' = IF tx'[w].step = "callbacks" /\ Has(w, "rotate")
                       THEN [f \in Field |-> IF f \in Job(w).fields THEN Job(w).value
                                             ELSE intended[f]]
                       ELSE intended
    PROVE  EstateInv'
<1> DEFINE own == tx[w].own
<1>1. /\ ShapeInv /\ LockInv /\ RowsOK /\ StepOK(w) /\ tx[w].step = "commit"
      /\ SettingsOwn(w) /\ CredentialOwn(w) /\ MaterialOwn(w)
  BY DEF EstateInv, OwnOK, At
<1>2. Moves(w, Conn("callbacks", FALSE, NoRows, {}, <<>>, tx[w].hooks, tx[w].loaded, {}))
  BY <1>1, CommittedMoves
<1>3. /\ tx'[w].own = NoRows /\ tx'[w].held = {} /\ tx'[w].step = "callbacks"
      /\ \A v \in Worker \ {w} : tx'[v] = tx[v]
  BY <1>2 DEF Moves, Conn
<1>4. /\ DOMAIN db' = DOMAIN own \cup DOMAIN db
      /\ \A row \in DOMAIN db' : db'[row] = IF row \in DOMAIN own THEN own[row] ELSE db[row]
  BY DEF Over
<1> HIDE DEF own
<1>5. Singleton \in DOMAIN db' /\ Material \in DOMAIN db'  BY <1>1, <1>4 DEF RowsOK
<1>6. /\ Singleton \in DOMAIN own => PrefixReady(w)
      /\ \A row \in DOMAIN own : row[1] = "credential" /\ own[row] # {} => PrefixReady(w)
      /\ Material \in DOMAIN own => MaterialReady(w)
  BY <1>1 DEF SettingsOwn, CredentialOwn, MaterialOwn, own
<1>7. ShapeInv'
  <2>1. Fields(tx[w])'  BY <1>2 DEF Moves, Conn, Fields
  <2>2. \A v \in Worker \ {w} : Fields(tx[v])'  BY <1>1, <1>3 DEF Fields, ShapeInv
  <2>3. tx' = [v \in Worker |-> tx'[v]]  BY <1>2 DEF Moves
  <2>4. QED  BY <1>1, <2>1, <2>2, <2>3 DEF ShapeInv
\* The rows another transaction has locked are not written.
<1>8. ASSUME NEW v \in Worker \ {w}
      PROVE  /\ PrefixReady(v) => Singleton \notin DOMAIN own /\ db'[Singleton] = db[Singleton]
             /\ Material \in tx[v].held => Material \notin DOMAIN own /\ db'[Material] = db[Material]
  <2>1. PrefixReady(v) => Singleton \notin DOMAIN own  BY <1>6, OneReady
  <2>2. Material \in tx[v].held => Material \notin DOMAIN own
    BY <1>1, <1>6 DEF LockInv, MaterialReady
  <2>3. QED  BY <1>4, <1>5, <2>1, <2>2
<1>9. LockInv'
  <2>1. \A u, v \in Worker : u # v => tx'[u].held \cap tx'[v].held = {}
    BY <1>1, <1>3 DEF LockInv
  <2>2. ASSUME NEW v \in Worker, NEW row \in {Singleton, Material}, row \in tx'[v].held
        PROVE  db'[row] # {}
    BY <1>1, <1>3, <1>8, <2>2 DEF LockInv, PrefixReady
  <2>3. QED  BY <2>1, <2>2 DEF LockInv
<1>10. ASSUME NEW v \in Worker \ {w}
       PROVE  StepOK(v)' /\ OwnOK(v)'
  <2>1. tx'[v] = tx[v] /\ StepOK(v) /\ OwnOK(v)  BY <1>3 DEF EstateInv
  <2>2. PrefixReady(v) => PrefixReady(v)'  BY <1>8, <2>1 DEF PrefixReady
  <2>3. MaterialReady(v) => MaterialReady(v)'
    <3>1. CASE Material \in tx[v].held  BY <2>1, <3>1 DEF MaterialReady
    <3>2. CASE db[Material] = {}
      <4>1. Material \in DOMAIN own => own[Material] = {}
        BY <1>1, <3>2 DEF MaterialOwn, LockInv, own
      <4>2. db'[Material] = {}  BY <1>4, <1>5, <3>2, <4>1
      <4>3. QED  BY <4>2 DEF MaterialReady
    <3>3. QED  BY <3>1, <3>2 DEF MaterialReady
  <2>4. \A kind : Has(v, kind)' = Has(v, kind)  BY DEF Has, Job
  <2>5. StepOK(v)'
    <3>1. Kinds(v, tx[v].step)'  BY <2>1, <2>4 DEF StepOK, Kinds
    <3>2. QED  BY <2>1, <2>2, <2>3, <2>4, <3>1 DEF StepOK
  <2>6. SettingsOwn(v)'
    <3> SUFFICES ASSUME Singleton \in DOMAIN tx[v].own PROVE SettingsOwn(v)'
      BY <2>1 DEF SettingsOwn
    <3>1. SettingsOwn(v) /\ PrefixReady(v)  BY <2>1 DEF OwnOK, SettingsOwn
    <3>2. \A row \in DOMAIN own : row[1] = "credential" => own[row] = {}
      BY <1>6, <3>1, OneReady
    <3>3. \A row \in Stored("credential")' : row \in Stored("credential") /\ db'[row] = db[row]
      BY <1>4, <3>2 DEF Stored
    <3>4. QED  BY <2>1, <2>2, <3>1, <3>3 DEF SettingsOwn
  <2>7. CredentialOwn(v)'
    BY <1>8, <2>1, <2>2 DEF OwnOK, CredentialOwn
  <2>8. MaterialOwn(v)'
    <3>1. \A f : Merged(v, f)' = Merged(v, f)  BY <2>4 DEF Merged, _submitted_fields, Job
    <3>2. QED  BY <1>8, <2>1, <2>3, <3>1 DEF OwnOK, MaterialOwn
  <2>9. QED  BY <2>5, <2>6, <2>7, <2>8 DEF OwnOK
<1>11. StepOK(w)' /\ OwnOK(w)'
  <2>1. DOMAIN (tx'[w].own) = {}  BY <1>3 DEF NoRows
  <2>2. ~Has(w, "call")  BY <1>1, KindsHold DEF Kinds
  <2>3. Kinds(w, "callbacks")'  BY <2>2 DEF Kinds, Calling, Has, Job
  <2>4. "callbacks" \notin Special \cup {"prefix", "commit"}  BY DEF Special
  <2>5. QED  BY <1>3, <2>1, <2>3, <2>4, EmptyOwn, PlainStep
<1>12. ASSUME NEW v \in Worker
       PROVE  MemoOK(v)'
  <2>1. fresh'[v] = fresh[v] \cup {db'[Singleton]} /\ MemoOK(v)  BY DEF EstateInv
  <2>2. QED  BY <2>1 DEF MemoOK
<1>13. PrefixCoherent'
  <2> SUFFICES ASSUME NEW row \in Stored("credential")', NEW s \in db'[Singleton]
               PROVE  The(db'[row]).prefix = s.prefix
    BY DEF PrefixCoherent
  <2>1. row \in DOMAIN db' /\ row[1] = "credential" /\ db'[row] # {}  BY DEF Stored
  <2>2. CASE Singleton \in DOMAIN own
    <3>1. DOMAIN own = {Singleton}  BY <1>1, <2>2 DEF SettingsOwn, own
    <3>2. Singleton[1] = "settings"  BY DEF Singleton
    <3>3. row \in Stored("credential") /\ db'[row] = db[row] /\ db'[Singleton] = own[Singleton]
      BY <1>4, <1>5, <2>1, <3>1, <3>2 DEF Stored
    <3>4. QED  BY <1>1, <2>2, <3>3 DEF SettingsOwn, own
  <2>3. CASE Singleton \notin DOMAIN own
    <3>1. db'[Singleton] = db[Singleton]  BY <1>4, <1>5, <2>3
    <3>2. CASE row \in DOMAIN own
      <4>1. db'[row] = own[row]  BY <1>4, <2>1, <3>2
      <4>2. QED  BY <1>1, <2>1, <3>1, <3>2, <4>1 DEF CredentialOwn, own
    <3>3. CASE row \notin DOMAIN own
      <4>1. row \in Stored("credential") /\ db'[row] = db[row]  BY <1>4, <2>1, <3>3 DEF Stored
      <4>2. QED  BY <1>1, <3>1, <4>1 DEF RowsOK, PrefixCoherent
    <3>4. QED  BY <3>2, <3>3
  <2>4. QED  BY <2>2, <2>3
\* A rotation writes the merged fields onto the row it holds.
<1>14. ASSUME NEW r \in db'[Material]
       PROVE  r.fields = [f \in Field |-> r.fields[f]] /\ r.fields = intended'
  <2>1. CASE Material \in DOMAIN own
    <3>1. db'[Material] = own[Material]  BY <1>4, <1>5, <2>1
    <3>2. Material \in tx[w].held /\ \A m \in db[Material] : r.fields = Merged(w, m.fields)
      BY <1>1, <2>1, <3>1 DEF MaterialOwn, own
    <3>3. PICK m \in db[Material] : TRUE  BY <1>1, <3>2 DEF LockInv
    <3>4. r.fields = Merged(w, m.fields) /\ m.fields = intended
          /\ m.fields = [f \in Field |-> m.fields[f]]
      BY <1>1, <3>2 DEF RowsOK, RotationsSurvive
    <3>5. r.fields = [f \in Field |-> IF f \in _submitted_fields(w) THEN Job(w).value
                                      ELSE intended[f]]
      BY <3>4 DEF Merged
    <3>6. CASE Has(w, "rotate")
      BY <1>3, <3>5, <3>6 DEF _submitted_fields
    <3>7. CASE ~Has(w, "rotate")
      <4>1. intended' = intended /\ _submitted_fields(w) = {}
        BY <3>7 DEF _submitted_fields
      <4>2. QED  BY <3>4, <3>5, <4>1
    <3>8. QED  BY <3>6, <3>7
  <2>2. CASE Material \notin DOMAIN own
    <3>1. db'[Material] = db[Material]  BY <1>4, <1>5, <2>2
    <3>2. ~Has(w, "rotate")  BY <1>1, <2>2 DEF StepOK, own
    <3>3. QED  BY <1>1, <3>1, <3>2 DEF RowsOK, RotationsSurvive
  <2>3. QED  BY <2>1, <2>2
<1>15. \A row \in {Singleton, Material} : \A r, s \in db'[row] : r = s
  <2>1. \A r, s \in db'[Singleton] : r = s
    BY <1>1, <1>4, <1>5 DEF RowsOK, SettingsOwn, own
  <2>2. \A r, s \in db'[Material] : r = s
    BY <1>1, <1>4, <1>5 DEF RowsOK, MaterialOwn, own
  <2>3. QED  BY <2>1, <2>2
<1>16. RowsOK'
  <2>1. \A row \in DOMAIN db' : row[1] # "advisory"
    BY <1>1, <1>4 DEF RowsOK, CredentialOwn, own
  <2>2. QED  BY <1>5, <1>13, <1>14, <1>15, <2>1 DEF RowsOK, RotationsSurvive
<1>17. QED  BY <1>7, <1>9, <1>10, <1>11, <1>12, <1>16 DEF EstateInv

--------------------------------------------------------------------------------
\* The initial rows are sound and nobody has begun.
LEMMA InitEstate ==
    ASSUME Init PROVE EstateInv
<1>1. PICK load \in Workloads : db = load.rows /\ jobs = load.jobs  BY DEF Init, DatabaseInit
<1>2. DOMAIN jobs = Worker /\ Sound(db)  BY <1>1, EstateAssumption
<1>3. tx = [w \in Worker |-> Idle]  BY DEF Init, DatabaseInit
<1>4. /\ memo = [w \in Worker |-> <<>>] /\ pending = [w \in Worker |-> FALSE]
      /\ fresh = [w \in Worker |-> {db[Singleton]}]
  BY DEF Init, SettingsInit
<1>5. ASSUME NEW w \in Worker
      PROVE  /\ tx[w] = Idle /\ Fields(tx[w]) /\ tx[w].step = "idle" /\ tx[w].held = {}
             /\ DOMAIN tx[w].own = {}
  BY <1>3 DEF Idle, NoRows, Fields
<1>6. ShapeInv  BY <1>2, <1>3, <1>4, <1>5 DEF ShapeInv
<1>7. LockInv  BY <1>5 DEF LockInv
<1>8. ASSUME NEW w \in Worker
      PROVE  StepOK(w) /\ OwnOK(w) /\ MemoOK(w)
  <2>1. StepOK(w)  BY <1>5 DEF StepOK, Kinds, Calling
  <2>2. OwnOK(w)  BY <1>5 DEF OwnOK, SettingsOwn, CredentialOwn, MaterialOwn
  <2>3. MemoOK(w)  BY <1>4 DEF MemoOK
  <2>4. QED  BY <2>1, <2>2, <2>3
<1>9. PrefixCoherent
  <2> SUFFICES ASSUME NEW row \in Stored("credential"), NEW s \in db[Singleton]
               PROVE  The(db[row]).prefix = s.prefix
    BY DEF PrefixCoherent
  <2>1. The(db[row]) \in db[row]  BY TheIn DEF Stored
  <2>2. QED  BY <1>2, <2>1 DEF Sound, Stored
<1>10. RotationsSurvive
  <2> SUFFICES ASSUME NEW r \in db[Material] PROVE r.fields = intended
    BY DEF RotationsSurvive
  <2>1. intended = The(db[Material]).fields  BY DEF Init, IdentityInit
  <2>2. The(db[Material]) \in db[Material]  BY TheIn
  <2>3. \A s, t \in db[Material] : s = t  BY <1>2 DEF Sound
  <2>4. QED  BY <2>1, <2>2, <2>3
<1>11. RowsOK
  <2>1. /\ {Singleton, Material} \subseteq DOMAIN db
        /\ \A row \in DOMAIN db : row[1] # "advisory" /\ \A r, s \in db[row] : r = s
        /\ \A r \in db[Material] : r.fields = [f \in Field |-> r.fields[f]]
    BY <1>2 DEF Sound
  <2>2. QED  BY <1>9, <1>10, <2>1 DEF RowsOK
<1>12. QED  BY <1>6, <1>7, <1>8, <1>11 DEF EstateInv

\* A commit, or a foreign key that fails at its end.
LEMMA CommitEstateKeeps ==
    ASSUME EstateInv, NEW w \in Worker, CommitEstate(w)
    PROVE  EstateInv'
<1>1. /\ At(w, "commit") /\ UNCHANGED <<jobs, memo, pending>>
      /\ fresh' = [v \in Worker |-> fresh[v] \cup {db'[Singleton]}]
      /\ intended' = IF tx'[w].step = "callbacks" /\ Has(w, "rotate")
                     THEN [f \in Field |-> IF f \in Job(w).fields THEN Job(w).value
                                           ELSE intended[f]]
                     ELSE intended
  BY DEF CommitEstate, Commit
<1>2. \/ /\ db' = Over(tx[w].own, db)
         /\ tx' = [tx EXCEPT ![w] = [Idle EXCEPT !.step = "callbacks", !.hooks = tx[w].hooks,
                                                 !.loaded = tx[w].loaded]]
      \/ tx' = RolledBack(w, "failed") /\ UNCHANGED db
  BY DEF CommitEstate, Commit
<1>3. CASE /\ db' = Over(tx[w].own, db)
           /\ tx' = [tx EXCEPT ![w] = [Idle EXCEPT !.step = "callbacks", !.hooks = tx[w].hooks,
                                                   !.loaded = tx[w].loaded]]
  BY <1>1, <1>3, CommitKeeps
<1>4. CASE tx' = RolledBack(w, "failed") /\ UNCHANGED db
  <2>1. ShapeInv  BY DEF EstateInv
  <2>2. Moves(w, Conn("failed", FALSE, NoRows, {}, <<>>, <<>>, tx[w].loaded, {}))
    BY <1>4, <2>1, RolledBackMoves
  <2>3. tx'[w].step = "failed"  BY <2>2 DEF Moves, Conn
  <2>4. intended' = intended  BY <1>1, <2>3
  <2>5. \A v \in Worker : fresh'[v] = fresh[v]
    <3> SUFFICES ASSUME NEW v \in Worker PROVE fresh'[v] = fresh[v]
      OBVIOUS
    <3>1. fresh'[v] = fresh[v] \cup {db[Singleton]}  BY <1>1, <1>4
    <3>2. db[Singleton] \in fresh[v]  BY DEF EstateInv, MemoOK
    <3>3. QED  BY <3>1, <3>2
  <2>6. Aside(w)  BY <1>1, <1>4, <2>1, <2>4, <2>5 DEF Aside, ShapeInv
  <2>7. MemoOK(w)'  BY <1>1, <1>4, <2>5, MemoFrame DEF EstateInv
  <2>8. "failed" \notin Special \cup {"prefix", "commit"} /\ Kinds(w, "failed")'
    BY DEF Special, Kinds, Calling
  <2>9. QED  BY <2>2, <2>6, <2>7, <2>8, ReleaseStep
<1>5. QED  BY <1>2, <1>3, <1>4

\* Every step of the credential graph.
LEMMA GraphKeeps ==
    ASSUME EstateInv, NEW w \in Worker, GraphWork(w), intended' = intended
    PROVE  EstateInv'
<1>1. CASE Create(w)  BY <1>1, CreateKeeps
<1>2. CASE Stamp(w)  BY <1>2, StampKeeps
<1>3. CASE Assign(w) \/ Reassign(w) \/ Unassign(w) \/ _lock_metadata(w)
  <2>1. Quiet  BY <1>3 DEF Assign, Reassign, Unassign, _lock_metadata
  <2>2. QED  BY <1>3, <2>1, AssignKeeps
<1>4. CASE _assign(w) \/ Rebind(w)
  <2>1. Quiet  BY <1>4 DEF _assign, Rebind
  <2>2. QED  BY <1>4, <2>1, BindKeeps
<1>5. CASE capture_previous_credential(w)
  <2>1. Quiet  BY <1>5 DEF capture_previous_credential
  <2>2. QED  BY <1>5, <2>1, CaptureKeeps
<1>6. CASE DeleteAssignment(w) \/ Clear(w) \/ destroy_material_on_delete(w)
  <2>1. Quiet  BY <1>6 DEF DeleteAssignment, Clear, destroy_material_on_delete
  <2>2. QED  BY <1>6, <2>1, RemoveKeeps
<1>7. CASE Delete(w)  BY <1>7, DeleteStart
<1>8. CASE \/ _publish_custom_metadata(w) \/ Project(w) \/ set_metadata(w) \/ delete_material(w)
           \/ Respond(w)
  BY <1>8, CallKeeps
<1>9. CASE quick_add_ssh(w)  BY <1>9, QuickStart
<1>10. CASE _new_ip_address(w)
  <2>1. Quiet  BY <1>10 DEF _new_ip_address
  <2>2. QED  BY <1>10, <2>1, AddressKeeps
<1>11. CASE LockService(w)  BY <1>11, LockServiceKeeps
<1>12. CASE _get_or_create_service(w)
  <2>1. Quiet  BY <1>12 DEF _get_or_create_service
  <2>2. QED  BY <1>12, <2>1, ServiceKeeps
<1>13. CASE import_secrets(w) \/ ImportSecret(w) \/ NextSecret(w) \/ Imported(w)
  BY <1>13, ImportKeeps
<1>14. QED
  BY <1>1, <1>2, <1>3, <1>4, <1>5, <1>6, <1>7, <1>8, <1>9, <1>10, <1>11, <1>12, <1>13 DEF GraphWork

\* Every step of the engine authentication material.
LEMMA IdentityWorkKeeps ==
    ASSUME EstateInv, NEW w \in Worker, IdentityWork(w), UNCHANGED settingsVars
    PROVE  EstateInv'
<1>1. Calm
  BY DEF Calm, IdentityWork, Rest, identityVars, Rotate, Reencrypt, save, Withdraw, DeleteMaterial,
     invalidate_auth_material_sessions, get_backend, refresh_auth_material, Reload, _get_client,
     Keep, Present
<1>2. CASE Rotate(w) \/ Reencrypt(w) \/ Withdraw(w)  BY <1>1, <1>2, MaterialStart
<1>3. CASE save(w)  BY <1>1, <1>3, SaveKeeps
<1>4. CASE DeleteMaterial(w)  BY <1>1, <1>4, DeleteMaterialKeeps
<1>5. CASE invalidate_auth_material_sessions(w)  BY <1>1, <1>5, InvalidateKeeps
<1>6. CASE \/ get_backend(w) \/ refresh_auth_material(w) \/ Reload(w) \/ _get_client(w) \/ Keep(w)
           \/ Present(w)
  BY <1>1, <1>6, IdentityKeeps
<1>7. QED  BY <1>2, <1>3, <1>4, <1>5, <1>6 DEF IdentityWork

\* EstateInv is inductive.
LEMMA NextEstate ==
    ASSUME EstateInv, [Next]_vars PROVE EstateInv'
<1>1. ASSUME NEW w \in Worker, Serves(w) PROVE EstateInv'
  <2>1. CASE Work(w)
    <3>1. CASE SettingsWork(w) /\ UNCHANGED <<graphVars, identityVars>>
      <4>1. intended' = intended  BY <3>1 DEF identityVars
      <4>2. CASE Configure(w) \/ Unset(w)  BY <4>1, <4>2, ConfigureKeeps
      <4>3. CASE _save_locked(w)  BY <4>1, <4>3, SaveSettingsKeeps
      <4>4. CASE delete_settings(w)  BY <4>1, <4>4, DeleteSettingsKeeps
      <4>5. CASE _lock_for_prefix_write(w)  BY <4>1, <4>5, LockKeeps
      <4>6. QED  BY <3>1, <4>2, <4>3, <4>4, <4>5 DEF SettingsWork
    <3>2. CASE GraphWork(w) /\ UNCHANGED identityVars
      <4>1. intended' = intended  BY <3>2 DEF identityVars
      <4>2. QED  BY <3>2, <4>1, GraphKeeps
    <3>3. CASE IdentityWork(w) /\ UNCHANGED <<settingsVars, graphVars>>
      BY <3>3, IdentityWorkKeeps
    <3>4. CASE EndRequest(w) /\ UNCHANGED <<graphVars, identityVars>>
      <4>1. intended' = intended  BY <3>4 DEF identityVars
      <4>2. QED  BY <3>4, <4>1, EndKeeps
    <3>5. CASE CommitEstate(w)  BY <3>5, CommitEstateKeeps
    <3>6. QED  BY <2>1, <3>1, <3>2, <3>3, <3>4, <3>5 DEF Work
  <2>2. CASE PostgreSQL(w)
    <3>1. Calm  BY <2>2 DEF PostgreSQL, Grant, Victim, Calm, identityVars
    <3>2. CASE Grant(w)  BY <3>1, <3>2, GrantKeeps
    <3>3. CASE Victim(w)  BY <3>1, <3>3, FailKeeps
    <3>4. QED  BY <2>2, <3>2, <3>3 DEF PostgreSQL
  <2>3. QED  BY <1>1, <2>1, <2>2 DEF Serves
<1>2. ASSUME NEW w \in Worker, Fails(w) PROVE EstateInv'
  <2>1. (Refuse(w) \/ Crash(w)) /\ Calm  BY <1>2 DEF Fails, Refuse, Crash, Calm, identityVars
  <2>2. QED  BY <2>1, FailKeeps
<1>3. ASSUME NEW w \in Worker, Consult(w), UNCHANGED <<graphVars, identityVars>> PROVE EstateInv'
  <2>1. intended' = intended  BY <1>3 DEF identityVars
  <2>2. QED  BY <1>3, <2>1, ConsultKeeps
<1>4. CASE Expire /\ UNCHANGED <<settingsVars, graphVars>>
  <2>1. tx' = tx /\ Calm  BY <1>4 DEF Expire, Calm
  <2>2. QED  BY <2>1, StutterKeeps
<1>5. CASE UNCHANGED vars
  <2>1. tx' = tx /\ Calm  BY <1>5 DEF vars, identityVars, Calm
  <2>2. QED  BY <2>1, StutterKeeps
<1>6. QED  BY <1>1, <1>2, <1>3, <1>4, <1>5 DEF Next

\* The inductive invariant: locks, what a step has locked, what a transaction would
\* commit, the memos and the rows.
THEOREM EstateCorrect == Spec => []EstateInv
<1>1. Init => EstateInv  BY InitEstate
<1>2. EstateInv /\ [Next]_vars => EstateInv'  BY NextEstate
<1>3. QED  BY <1>1, <1>2, PTL DEF Spec

\* For every number of workers and every workload: a stored settings row has the prefix
\* every stored credential is stamped with (_lock_for_prefix_write, Credential.save).
THEOREM PrefixCorrect == Spec => []PrefixCoherent
<1>1. EstateInv => PrefixCoherent  BY DEF EstateInv, RowsOK
<1>2. QED  BY <1>1, EstateCorrect, PTL

\* For every workload: concurrent rotations of different fields all survive
\* (EngineAuthMaterial.save).
THEOREM RotationsCorrect == Spec => []RotationsSurvive
<1>1. EstateInv => RotationsSurvive  BY DEF EstateInv, RowsOK
<1>2. QED  BY <1>1, EstateCorrect, PTL

\* For every workload: a thread's memo is a settings row committed during its request
\* (conf.get_config, _settings_write_is_uncommitted).
THEOREM MemoCorrect == Spec => []MemoIsCommitted
<1>1. EstateInv => MemoIsCommitted  BY DEF EstateInv, MemoOK, MemoIsCommitted
<1>2. QED  BY <1>1, EstateCorrect, PTL

\* The other workers' connections are what they were.
Others(w) == \A v \in Worker \ {w} : tx'[v] = tx[v]

\* Goto is one worker's step.
LEMMA GotoOthers ==
    ASSUME ShapeInv, NEW w \in Worker, NEW s, NEW l, tx' = Goto(w, s, l) PROVE Others(w)
BY GotoMoves DEF Moves, Others

\* Open is one worker's step.
LEMMA OpenOthers ==
    ASSUME ShapeInv, NEW w \in Worker, NEW s, NEW l, NEW d, tx' = Open(w, s, l, d) PROVE Others(w)
BY OpenMoves DEF Moves, Others

\* A write is one worker's step.
LEMMA WriteOthers ==
    ASSUME ShapeInv, NEW w \in Worker, NEW rows, NEW h, NEW s, NEW l, tx' = Write(w, rows, h, s, l)
    PROVE  Others(w)
BY WriteMoves DEF Moves, Others

\* A rollback is one worker's step.
LEMMA RolledBackOthers ==
    ASSUME ShapeInv, NEW w \in Worker, NEW s, tx' = RolledBack(w, s) PROVE Others(w)
BY RolledBackMoves DEF Moves, Others

\* An answer is one worker's step.
LEMMA AnsweredOthers ==
    ASSUME ShapeInv, NEW w \in Worker, tx' = Answered(w) PROVE Others(w)
BY AnsweredMoves DEF Moves, Others

\* A finished callback is one worker's step.
LEMMA CalledOthers ==
    ASSUME ShapeInv, NEW w \in Worker, tx' = Called(w) PROVE Others(w)
BY CalledMoves DEF Moves, Others

\* The settings requests move one worker.
LEMMA SettingsOthers ==
    ASSUME ShapeInv, NEW w \in Worker, SettingsWork(w) PROVE Others(w)
<1>1. CASE Configure(w)  BY <1>1, OpenOthers, AnsweredOthers DEF Configure
<1>2. CASE Unset(w)  BY <1>2, OpenOthers, AnsweredOthers DEF Unset
<1>3. CASE _save_locked(w)  BY <1>3, WriteOthers, RolledBackOthers DEF _save_locked
<1>4. CASE delete_settings(w)  BY <1>4, WriteOthers, RolledBackOthers DEF delete_settings
<1>5. CASE _lock_for_prefix_write(w)  BY <1>5, GotoOthers DEF _lock_for_prefix_write
<1>6. QED  BY <1>1, <1>2, <1>3, <1>4, <1>5 DEF SettingsWork

\* The requests of the credential graph move one worker.
LEMMA GraphOthers ==
    ASSUME ShapeInv, NEW w \in Worker, GraphWork(w) PROVE Others(w)
<1>1. CASE Create(w)  BY <1>1, OpenOthers DEF Create
<1>2. CASE Stamp(w)  BY <1>2, WriteOthers, RolledBackOthers DEF Stamp
<1>3. CASE Assign(w)  BY <1>3, OpenOthers, AnsweredOthers DEF Assign
<1>4. CASE _assign(w)  BY <1>4, GotoOthers, WriteOthers DEF _assign, Bind
<1>5. CASE Reassign(w)  BY <1>5, OpenOthers, AnsweredOthers DEF Reassign
<1>6. CASE capture_previous_credential(w)
  <2>1. PICK l, i : tx' = [tx EXCEPT ![w].step = "rebind", ![w].wants = l, ![w].image = i]
    BY <1>6, Zenon DEF capture_previous_credential
  <2>2. QED  BY <2>1, ImageMoves DEF Moves, Others
<1>7. CASE Rebind(w)  BY <1>7, WriteOthers DEF Rebind, Bind
<1>8. CASE Unassign(w)  BY <1>8, OpenOthers, AnsweredOthers DEF Unassign
<1>9. CASE DeleteAssignment(w)  BY <1>9, WriteOthers DEF DeleteAssignment
<1>10. CASE Delete(w)  BY <1>10, OpenOthers, AnsweredOthers DEF Delete
<1>11. CASE Clear(w)
  <2>1. PICK rows, h, l : tx' = Write(w, rows, h, "drop", l)  BY <1>11, Zenon DEF Clear
  <2>2. QED  BY <2>1, WriteOthers
<1>12. CASE destroy_material_on_delete(w)  BY <1>12, WriteOthers DEF destroy_material_on_delete
<1>13. CASE _lock_metadata(w)  BY <1>13, OpenOthers DEF _lock_metadata
<1>14. CASE _publish_custom_metadata(w)
  <2>1. \/ tx' = Called(w)
        \/ \E l : tx' = [tx EXCEPT ![w].step = "project", ![w].open = TRUE, ![w].wants = l]
    BY <1>14, Zenon DEF _publish_custom_metadata
  <2>2. ASSUME NEW l, tx' = [tx EXCEPT ![w].step = "project", ![w].open = TRUE, ![w].wants = l]
        PROVE  Others(w)
    <3>1. Moves(w, Conn("project", TRUE, tx[w].own, tx[w].held, l, tx[w].hooks, tx[w].loaded,
                        tx[w].image))
      BY <2>2, PublishMoves
    <3>2. QED  BY <3>1 DEF Moves, Others
  <2>3. QED  BY <2>1, <2>2, CalledOthers
<1>15. CASE Project(w)
  <2>1. tx' = Called(w) \/ \E i : tx' = [tx EXCEPT ![w].step = "send", ![w].image = i]
    BY <1>15, Zenon DEF Project
  <2>2. ASSUME NEW i, tx' = [tx EXCEPT ![w].step = "send", ![w].image = i]
        PROVE  Others(w)
    <3>1. Moves(w, Conn("send", tx[w].open, tx[w].own, tx[w].held, tx[w].wants, tx[w].hooks,
                        tx[w].loaded, i))
      BY <2>2, ImageMoves
    <3>2. QED  BY <3>1 DEF Moves, Others
  <2>3. QED  BY <2>1, <2>2, CalledOthers
<1>16. CASE set_metadata(w) \/ delete_material(w)
  BY <1>16, CalledOthers DEF set_metadata, delete_material
<1>17. CASE Respond(w) \/ Imported(w)  BY <1>17, AnsweredOthers DEF Respond, Imported
<1>18. CASE quick_add_ssh(w)  BY <1>18, OpenOthers DEF quick_add_ssh
<1>19. CASE _new_ip_address(w)  BY <1>19, WriteOthers, RolledBackOthers DEF _new_ip_address
<1>20. CASE LockService(w)  BY <1>20, GotoOthers DEF LockService
<1>21. CASE _get_or_create_service(w)
  BY <1>21, WriteOthers, RolledBackOthers DEF _get_or_create_service
<1>22. CASE import_secrets(w)  BY <1>22, GotoOthers DEF import_secrets
<1>23. CASE ImportSecret(w)  BY <1>23, OpenOthers DEF ImportSecret, Others
<1>24. CASE NextSecret(w)
  <2>1. tx' = [tx EXCEPT ![w] = [Idle EXCEPT !.step = "secret"]]  BY <1>24 DEF NextSecret
  <2>2. QED  BY <2>1, ResetMoves DEF Moves, Others
<1>25. QED
  BY <1>1, <1>2, <1>3, <1>4, <1>5, <1>6, <1>7, <1>8, <1>9, <1>10, <1>11, <1>12, <1>13, <1>14,
     <1>15, <1>16, <1>17, <1>18, <1>19, <1>20, <1>21, <1>22, <1>23, <1>24 DEF GraphWork

\* The settings and the graph are no call's business.
LEMMA SettingsNoCall ==
    ASSUME EstateInv, NEW w \in Worker, SettingsWork(w) PROVE ~Has(w, "call")
<1>1. Kinds(w, tx[w].step)  BY KindsHold
<1>2. CASE Configure(w) \/ Unset(w)  BY <1>2, Starting DEF Configure, Unset
<1>3. CASE _save_locked(w) \/ delete_settings(w)  BY <1>3 DEF _save_locked, delete_settings, Has
<1>4. CASE _lock_for_prefix_write(w)
  BY <1>1, <1>4 DEF _lock_for_prefix_write, At, Kinds, Has
<1>5. QED  BY <1>2, <1>3, <1>4 DEF SettingsWork

\* Requests of the credential graph are no calls either.
LEMMA GraphNoCall ==
    ASSUME EstateInv, NEW w \in Worker, GraphWork(w) PROVE ~Has(w, "call")
<1>1. Kinds(w, tx[w].step)  BY KindsHold
<1>2. CASE \/ Create(w) \/ Assign(w) \/ Reassign(w) \/ Unassign(w) \/ Delete(w)
           \/ _lock_metadata(w) \/ quick_add_ssh(w) \/ import_secrets(w)
  BY <1>2, Starting DEF Create, Assign, Reassign, Unassign, Delete, _lock_metadata, quick_add_ssh,
     import_secrets
<1>3. CASE \/ Stamp(w) \/ _assign(w) \/ capture_previous_credential(w) \/ Rebind(w)
           \/ DeleteAssignment(w) \/ Clear(w) \/ destroy_material_on_delete(w)
  <2>1. tx[w].step \in {"locked", "assign", "previous", "rebind", "remove", "clear", "drop"}
    BY <1>3 DEF Stamp, _assign, capture_previous_credential, Rebind, DeleteAssignment, Clear,
       destroy_material_on_delete, At
  <2>2. QED  BY <1>1, <2>1 DEF Kinds, Has
<1>4. CASE \/ _publish_custom_metadata(w) \/ Project(w) \/ set_metadata(w) \/ delete_material(w)
           \/ Respond(w) 
  <2>1. tx[w].step \in {"callbacks", "project", "send"}
    BY <1>4 DEF _publish_custom_metadata, NextCall, Project, set_metadata, delete_material,
       Respond, At
  <2>2. QED  BY <1>1, <2>1 DEF Kinds
<1>5. CASE \/ _new_ip_address(w) \/ LockService(w) \/ _get_or_create_service(w) \/ ImportSecret(w)
           \/ Imported(w)
  <2>1. tx[w].step \in {"address", "parent", "service", "secret"}
    BY <1>5 DEF _new_ip_address, LockService, _get_or_create_service, ImportSecret, Imported, At
  <2>2. QED  BY <1>1, <2>1 DEF Kinds, Has
<1>6. CASE NextSecret(w)  BY <1>6 DEF NextSecret, Importing, Has
<1>7. QED  BY <1>2, <1>3, <1>4, <1>5, <1>6 DEF GraphWork

\* The fields of a backend object.
Backend(s) == s = [floor |-> s.floor, revision |-> s.revision, client |-> s.client,
                   calls |-> s.calls]

\* Revisions only grow, and each has the fields committed under it.
HistoryOK ==
    /\ DOMAIN history \subseteq Nat
    /\ \A m \in db[Material] :
         /\ m.revision \in DOMAIN history /\ m.fields = history[m.revision]
         /\ \A r \in DOMAIN history : r <= m.revision
KeptOK ==
    /\ DOMAIN kept = Worker \cup {Cache}
    /\ \A place \in Worker \cup {Cache} : \A r \in DOMAIN kept[place] :
         r \in DOMAIN history /\ kept[place][r] = history[r]
ServingShape ==
    serving = [w \in Worker |-> serving[w]] /\ \A w \in Worker : Backend(serving[w])

\* What a call has loaded was committed, its client belongs to what it loaded, and what
\* it loaded is no older than the revision it read last.
CallOK(w) ==
    LET t == tx[w]
        s == serving[w]
        rows == t.loaded[Material]
    IN t.step \in Calling =>
         /\ s.floor \in Nat
         /\ \A r \in rows : r.revision \in DOMAIN history /\ r.fields = history[r.revision]
         /\ s.client # <<>> =>
              /\ rows # {} /\ s.revision = Revision(rows)
              /\ s.revision \in DOMAIN history /\ Head(s.client) = history[s.revision]
         /\ t.step = "reload" =>
              s.client = <<>> /\ \A m \in db[Material] : s.floor <= m.revision
         /\ t.step \in {"client", "keep", "present"} => s.floor <= Revision(rows)
         /\ t.step \in {"keep", "present"} => s.client # <<>>

IdentityInv == HistoryOK /\ KeptOK /\ ServingShape /\ \A w \in Worker : CallOK(w)

\* No revision is rewritten, and the row's revision never falls.
Growing ==
    /\ DOMAIN history \subseteq DOMAIN history'
    /\ \A r \in DOMAIN history : history'[r] = history[r]
    /\ \A n \in db'[Material] : \E m \in db[Material] :
          n.revision \in Nat /\ m.revision \in Nat /\ m.revision <= n.revision

\* A call stays right while the history grows under it.
LEMMA CallFrame ==
    ASSUME NEW v, tx'[v].step = tx[v].step, tx'[v].loaded = tx[v].loaded,
           serving'[v] = serving[v], Growing, CallOK(v)
    PROVE  CallOK(v)'
<1> SUFFICES ASSUME tx[v].step \in Calling PROVE CallOK(v)'
  BY DEF CallOK
<1>1. \A r \in DOMAIN history : r \in DOMAIN history' /\ history'[r] = history[r]  BY DEF Growing
<1>2. ASSUME tx[v].step = "reload", NEW n \in db'[Material]
      PROVE  serving[v].floor <= n.revision
  <2>1. PICK m \in db[Material] : n.revision \in Nat /\ m.revision \in Nat /\ m.revision <= n.revision
    BY <1>2 DEF Growing
  <2>2. serving[v].floor \in Nat /\ serving[v].floor <= m.revision  BY <1>2 DEF CallOK
  <2>3. QED  BY <2>1, <2>2
<1>3. QED  BY <1>1, <1>2 DEF CallOK

\* Nothing committed, nothing rewritten.
LEMMA StillGrowing ==
    ASSUME IdentityInv, db' = db, history' = history PROVE Growing
<1>1. \A m \in db[Material] : m.revision \in Nat /\ m.revision <= m.revision
  BY DEF IdentityInv, HistoryOK
<1>2. QED  BY <1>1 DEF Growing

\* The history stays right while the rows are kept.
LEMMA HistoryFrame ==
    ASSUME IdentityInv, db' = db, history' = history PROVE HistoryOK'
BY DEF IdentityInv, HistoryOK

\* A step of one worker that commits nothing keeps the invariant when its call does.
LEMMA IdentityFrame ==
    ASSUME IdentityInv, NEW w \in Worker, Others(w), UNCHANGED <<db, history>>, KeptOK', ServingShape',
           \A v \in Worker \ {w} : serving'[v] = serving[v], CallOK(w)'
    PROVE  IdentityInv'
<1>1. Growing  BY StillGrowing
<1>2. \A v \in Worker \ {w} : CallOK(v)'  BY <1>1, CallFrame DEF Others, IdentityInv
<1>3. HistoryOK'  BY HistoryFrame
<1>4. QED  BY <1>2, <1>3 DEF IdentityInv

\* What is kept stays right while nothing is kept or dropped.
LEMMA KeptFrame ==
    ASSUME IdentityInv, UNCHANGED <<kept, history>> PROVE KeptOK'
BY DEF IdentityInv, KeptOK

\* The backend objects keep their shape.
LEMMA ServingFrame ==
    ASSUME IdentityInv, UNCHANGED serving PROVE ServingShape'
BY DEF IdentityInv, ServingShape, Backend

\* A worker outside a call leaves every call as it was.
LEMMA Uninvolved ==
    ASSUME IdentityInv, NEW w \in Worker, Others(w), UNCHANGED <<db, identityVars>>,
           tx'[w].step \notin Calling
    PROVE  IdentityInv'
<1>1. UNCHANGED <<db, history, kept, serving>>  BY DEF identityVars
<1>2. CallOK(w)'  BY DEF CallOK
<1>3. QED  BY <1>1, <1>2, KeptFrame, ServingFrame, IdentityFrame

\* A step of no worker.
LEMMA SameCalls ==
    ASSUME IdentityInv, tx' = tx, UNCHANGED <<db, history, serving>>, KeptOK' PROVE IdentityInv'
<1>1. Growing  BY StillGrowing
<1>2. \A v \in Worker : CallOK(v)'  BY <1>1, CallFrame DEF IdentityInv
<1>3. HistoryOK' /\ ServingShape'  BY HistoryFrame, ServingFrame
<1>4. QED  BY <1>2, <1>3 DEF IdentityInv

\* Work of other kinds of requests.
LEMMA ElsewhereKeeps ==
    ASSUME EstateInv, EstateInv', IdentityInv, NEW w \in Worker, UNCHANGED <<db, jobs, identityVars>>,
           SettingsWork(w) \/ GraphWork(w)
    PROVE  IdentityInv'
<1>1. ShapeInv /\ Kinds(w, tx[w].step)'  BY DEF EstateInv, StepOK
<1>2. Others(w) /\ ~Has(w, "call")  BY <1>1, SettingsOthers, GraphOthers, SettingsNoCall, GraphNoCall
<1>3. ~Has(w, "call")'  BY <1>2 DEF Has, Job
<1>4. tx'[w].step \notin Calling  BY <1>1, <1>3 DEF Kinds
<1>5. QED  BY <1>2, <1>4, Uninvolved

--------------------------------------------------------------------------------
\* A backend object is a record of its four fields, each from some set.
LEMMA TypedServing ==
    ASSUME ServingShape
    PROVE  \E S1, S2, S3, S4 :
             serving \in [Worker -> [floor : S1, revision : S2, client : S3, calls : S4]]
<1> DEFINE S1 == {serving[w].floor : w \in Worker}
           S2 == {serving[w].revision : w \in Worker}
           S3 == {serving[w].client : w \in Worker}
           S4 == {serving[w].calls : w \in Worker}
<1>1. ASSUME NEW w \in Worker
      PROVE  serving[w] \in [floor : S1, revision : S2, client : S3, calls : S4]
  <2>1. /\ serving[w].floor \in S1 /\ serving[w].revision \in S2 /\ serving[w].client \in S3
        /\ serving[w].calls \in S4
    BY Zenon
  <2> HIDE DEF S1, S2, S3, S4
  <2>2. Backend(serving[w])  BY DEF ServingShape
  <2>3. QED  BY <2>1, <2>2, Zenon DEF Backend
<1> HIDE DEF S1, S2, S3, S4
<1>2. serving \in [Worker -> [floor : S1, revision : S2, client : S3, calls : S4]]
  BY <1>1, Zenon DEF ServingShape
<1>3. QED  BY <1>2, Zenon

\* Worker w's backend object is b, and the others are what they were.
Object(floor, revision, client, calls) ==
    [floor |-> floor, revision |-> revision, client |-> client, calls |-> calls]
Serving(w, b) ==
    /\ serving' = [v \in Worker |-> serving'[v]]
    /\ serving'[w] = b /\ \A v \in Worker \ {w} : serving'[v] = serving[v]

\* The backend objects keep their shape when one is replaced.
LEMMA ServingKept ==
    ASSUME ServingShape, NEW w \in Worker, NEW f, NEW r, NEW c, NEW n, Serving(w, Object(f, r, c, n))
    PROVE  ServingShape'
<1>1. Backend(serving[w])'  BY DEF Serving, Object, Backend
<1>2. \A v \in Worker \ {w} : Backend(serving[v])'  BY DEF Serving, Backend, ServingShape
<1>3. QED  BY <1>1, <1>2 DEF ServingShape, Serving

\* get_backend makes an object without a client.
LEMMA NewServing ==
    ASSUME ServingShape, NEW w \in Worker, NEW n,
           serving' = [serving EXCEPT ![w] = [NoClient EXCEPT !.calls = n]]
    PROVE  Serving(w, Object(0, 0, <<>>, n))
<1>1. PICK S1, S2, S3, S4 :
          serving \in [Worker -> [floor : S1, revision : S2, client : S3, calls : S4]]
  BY TypedServing, Zenon
<1>2. QED  BY <1>1 DEF NoClient, Serving, Object

\* refresh_auth_material sets the floor and keeps or drops the client.
LEMMA RefreshedServing ==
    ASSUME ServingShape, NEW w \in Worker, NEW now, NEW c,
           serving' = [serving EXCEPT ![w].floor = now, ![w].client = c]
    PROVE  Serving(w, Object(now, serving[w].revision, c, serving[w].calls))
<1>1. PICK S1, S2, S3, S4 :
          serving \in [Worker -> [floor : S1, revision : S2, client : S3, calls : S4]]
  BY TypedServing, Zenon
<1>2. QED  BY <1>1 DEF Serving, Object

\* _get_client sets the client and the revision it goes by.
LEMMA LoggedServing ==
    ASSUME ServingShape, NEW w \in Worker, NEW r, NEW c,
           serving' = [serving EXCEPT ![w].revision = r, ![w].client = c]
    PROVE  Serving(w, Object(serving[w].floor, r, c, serving[w].calls))
<1>1. PICK S1, S2, S3, S4 :
          serving \in [Worker -> [floor : S1, revision : S2, client : S3, calls : S4]]
  BY TypedServing, Zenon
<1>2. QED  BY <1>1 DEF Serving, Object

\* A call made counts down the calls left.
LEMMA PresentedServing ==
    ASSUME ServingShape, NEW w \in Worker,
           serving' = [serving EXCEPT ![w].calls = @ - 1]
    PROVE  Serving(w, Object(serving[w].floor, serving[w].revision, serving[w].client,
                             serving[w].calls - 1))
<1>1. PICK S1, S2, S3, S4 :
          serving \in [Worker -> [floor : S1, revision : S2, client : S3, calls : S4]]
  BY TypedServing, Zenon
<1>2. QED  BY <1>1 DEF Serving, Object

\* The one row, and its revision.
LEMMA OneRow ==
    ASSUME EstateInv, IdentityInv
    PROVE  /\ \A m \in db[Material] : m = The(db[Material])
           /\ db[Material] = {} => Revision(db[Material]) = 0
           /\ \A m \in db[Material] :
                 Revision(db[Material]) = m.revision /\ m.revision \in DOMAIN history
           /\ Revision(db[Material]) \in Nat
<1>1. \A r, s \in db[Material] : r = s  BY DEF EstateInv, RowsOK
<1>2. \A m \in db[Material] : m = The(db[Material])  BY <1>1, TheIn
<1>3. \A m \in db[Material] : m.revision \in DOMAIN history /\ m.revision \in Nat
  BY DEF IdentityInv, HistoryOK
<1>4. QED  BY <1>2, <1>3 DEF Revision

\* get_backend loads the committed row.
LEMMA GetBackendKeeps ==
    ASSUME EstateInv, IdentityInv, NEW w \in Worker, get_backend(w)
    PROVE  IdentityInv'
<1>1. ShapeInv /\ ServingShape  BY DEF EstateInv, IdentityInv
<1> DEFINE d == Only(Material, db[Material])
<1>2. tx' = [tx EXCEPT ![w].step = "refresh", ![w].loaded = d]  BY DEF get_backend
<1>3. PICK n : serving' = [serving EXCEPT ![w] = [NoClient EXCEPT !.calls = n]]
  BY Zenon DEF get_backend
<1>4. Serving(w, Object(0, 0, <<>>, n))  BY <1>1, <1>3, NewServing
<1>5. ServingShape'  BY <1>1, <1>4, ServingKept
<1> HIDE DEF d
<1>6. Moves(w, Conn("refresh", tx[w].open, tx[w].own, tx[w].held, tx[w].wants, tx[w].hooks, d,
                    tx[w].image))
  BY <1>1, <1>2, LoadMoves
<1>7. Others(w) /\ tx'[w].step = "refresh" /\ tx'[w].loaded = d  BY <1>6 DEF Moves, Conn, Others
<1>8. d[Material] = db[Material]  BY DEF d, Only
<1>9. UNCHANGED <<db, history, kept>>  BY DEF get_backend
<1>10. \A r \in db[Material] : r.revision \in DOMAIN history /\ r.fields = history[r.revision]
  BY DEF IdentityInv, HistoryOK
<1>11. serving'[w].floor = 0 /\ serving'[w].client = <<>>
       /\ \A v \in Worker \ {w} : serving'[v] = serving[v]
  BY <1>4 DEF Serving, Object
<1>12. CallOK(w)'  BY <1>7, <1>8, <1>9, <1>10, <1>11 DEF CallOK
<1>13. KeptOK'  BY <1>9, KeptFrame
<1>14. QED  BY <1>5, <1>7, <1>9, <1>11, <1>12, <1>13, IdentityFrame

\* A client survives refresh_auth_material only when the revision read is the loaded one.
LEMMA RefreshKeeps ==
    ASSUME EstateInv, IdentityInv, NEW w \in Worker, refresh_auth_material(w)
    PROVE  IdentityInv'
<1>1. ShapeInv /\ ServingShape /\ CallOK(w)  BY DEF EstateInv, IdentityInv
<1> DEFINE now == Revision(db[Material])
           rows == tx[w].loaded[Material]
           same == now = Revision(rows)
           c == IF same THEN serving[w].client ELSE <<>>
           s == IF same THEN "client" ELSE "reload"
<1>2. /\ tx[w].step = "refresh" /\ tx' = Goto(w, s, <<>>)
      /\ serving' = [serving EXCEPT ![w].floor = now, ![w].client = IF same THEN @ ELSE <<>>]
  BY DEF refresh_auth_material, At
<1>3. serving' = [serving EXCEPT ![w].floor = now, ![w].client = c]
  <2>1. PICK S1, S2, S3, S4 :
          serving \in [Worker -> [floor : S1, revision : S2, client : S3, calls : S4]]
    BY <1>1, TypedServing, Zenon
  <2> HIDE DEF now, same
  <2>2. QED  BY <1>2, <2>1
<1>4. now \in Nat /\ \A m \in db[Material] : now = m.revision  BY OneRow
<1>5. same => now = Revision(rows)  OBVIOUS
<1>6. (same => c = serving[w].client /\ s = "client") /\ (~same => c = <<>> /\ s = "reload")
  OBVIOUS
<1> HIDE DEF now, rows, same, c, s
<1>7. Serving(w, Object(now, serving[w].revision, c, serving[w].calls))
  BY <1>1, <1>3, RefreshedServing
<1>8. ServingShape'  BY <1>1, <1>7, ServingKept
<1>9. Moves(w, Conn(s, tx[w].open, tx[w].own, tx[w].held, <<>>, tx[w].hooks, tx[w].loaded,
                    tx[w].image))
  BY <1>1, <1>2, GotoMoves
<1>10. Others(w) /\ tx'[w].step = s /\ tx'[w].loaded = tx[w].loaded
  BY <1>9 DEF Moves, Conn, Others
<1>11. UNCHANGED <<db, history, kept>>  BY DEF refresh_auth_material
<1>12. /\ serving'[w].floor = now /\ serving'[w].client = c
       /\ serving'[w].revision = serving[w].revision
       /\ \A v \in Worker \ {w} : serving'[v] = serving[v]
  BY <1>7 DEF Serving, Object
<1>13. /\ \A r \in rows : r.revision \in DOMAIN history /\ r.fields = history[r.revision]
       /\ serving[w].client # <<>> =>
            /\ rows # {} /\ serving[w].revision = Revision(rows)
            /\ serving[w].revision \in DOMAIN history
            /\ Head(serving[w].client) = history[serving[w].revision]
  BY <1>1, <1>2 DEF CallOK, Calling, rows
<1>14. CallOK(w)'
  <2>1. CASE same
    <3>1. tx'[w].step = "client" /\ serving'[w].client = serving[w].client
      BY <1>6, <1>10, <1>12, <2>1
    <3>2. now <= Revision(rows)  BY <1>4, <1>5, <2>1
    <3>3. QED  BY <1>4, <1>10, <1>11, <1>12, <1>13, <3>1, <3>2 DEF CallOK, rows
  <2>2. CASE ~same
    <3>1. tx'[w].step = "reload" /\ serving'[w].client = <<>>  BY <1>6, <1>10, <1>12, <2>2
    <3>2. \A m \in db[Material] : now <= m.revision  BY <1>4
    <3>3. QED  BY <1>4, <1>10, <1>11, <1>12, <1>13, <3>1, <3>2 DEF CallOK, rows
  <2>3. QED  BY <2>1, <2>2
<1>15. KeptOK'  BY <1>11, KeptFrame
<1>16. QED  BY <1>8, <1>10, <1>11, <1>12, <1>14, <1>15, IdentityFrame

\* What Reload finds is no older than the revision read before.
LEMMA ReloadKeeps ==
    ASSUME EstateInv, IdentityInv, NEW w \in Worker, Reload(w)
    PROVE  IdentityInv'
<1>1. ShapeInv /\ CallOK(w) /\ tx[w].step = "reload"  BY DEF EstateInv, IdentityInv, Reload, At
<1>2. UNCHANGED <<db, history, kept, serving>>  BY DEF Reload, Rest, identityVars
<1>3. CASE tx' = Answered(w)
  <2>1. Moves(w, Conn("finish", tx[w].open, tx[w].own, tx[w].held, tx[w].wants, tx[w].hooks,
                         tx[w].loaded, tx[w].image))
    BY <1>1, <1>3, AnsweredMoves
  <2>2. Others(w) /\ tx'[w].step \notin Calling  BY <2>1 DEF Moves, Conn, Others, Calling
  <2>3. CallOK(w)'  BY <2>2 DEF CallOK
  <2>4. QED  BY <1>2, <2>2, <2>3, KeptFrame, ServingFrame, IdentityFrame
<1> DEFINE d == Only(Material, db[Material])
<1>4. CASE /\ ~(db[Material] = {} /\ serving[w].floor # 0)
           /\ tx' = [tx EXCEPT ![w].step = "client", ![w].loaded = d]
  <2>1. d[Material] = db[Material]  BY DEF Only
  <2> HIDE DEF d
  <2>2. Moves(w, Conn("client", tx[w].open, tx[w].own, tx[w].held, tx[w].wants, tx[w].hooks, d,
                      tx[w].image))
    BY <1>1, <1>4, LoadMoves
  <2>3. Others(w) /\ tx'[w].step = "client" /\ tx'[w].loaded = d  BY <2>2 DEF Moves, Conn, Others
  <2>4. /\ serving[w].floor \in Nat /\ serving[w].client = <<>>
        /\ \A m \in db[Material] : serving[w].floor <= m.revision
    BY <1>1 DEF CallOK, Calling
  <2>5. serving[w].floor <= Revision(db[Material])
    <3>1. CASE db[Material] = {}  BY <1>4, <2>4, <3>1, OneRow
    <3>2. CASE db[Material] # {}
      <4>1. PICK m \in db[Material] : TRUE  BY <3>2
      <4>2. Revision(db[Material]) = m.revision  BY OneRow
      <4>3. QED  BY <2>4, <4>2
    <3>3. QED  BY <3>1, <3>2
  <2>6. \A r \in db[Material] : r.revision \in DOMAIN history /\ r.fields = history[r.revision]
    BY DEF IdentityInv, HistoryOK
  <2>7. CallOK(w)'  BY <1>2, <2>1, <2>3, <2>4, <2>5, <2>6 DEF CallOK
  <2>8. QED  BY <1>2, <2>3, <2>7, KeptFrame, ServingFrame, IdentityFrame
<1>5. QED  BY <1>3, <1>4 DEF Reload

\* _get_client finds or makes a login with the fields of the loaded revision.
LEMMA ClientKeeps ==
    ASSUME EstateInv, IdentityInv, NEW w \in Worker, _get_client(w)
    PROVE  IdentityInv'
<1>1. ShapeInv /\ ServingShape /\ CallOK(w) /\ KeptOK /\ tx[w].step = "client"
  BY DEF EstateInv, IdentityInv, _get_client, At
<1>2. UNCHANGED <<db, history, kept>>  BY DEF _get_client
<1> DEFINE rows == tx[w].loaded[Material]
           revision == Revision(rows)
           login == The(rows).fields
<1>3. \/ serving[w].client # <<>> /\ tx' = Goto(w, "present", <<>>) /\ UNCHANGED serving
      \/ tx' = Answered(w) /\ UNCHANGED serving
      \/ /\ rows # {} /\ revision \in DOMAIN kept[Place(w)]
         /\ serving' = [serving EXCEPT ![w].revision = revision,
                                       ![w].client = <<kept[Place(w)][revision]>>]
         /\ tx' = Goto(w, "present", <<>>)
      \/ /\ rows # {}
         /\ serving' = [serving EXCEPT ![w].revision = revision, ![w].client = <<login>>]
         /\ tx' = Goto(w, "keep", <<>>)
  BY DEF _get_client, cache_identity
<1>4. /\ serving[w].floor \in Nat /\ serving[w].floor <= revision
      /\ \A r \in rows : r.revision \in DOMAIN history /\ r.fields = history[r.revision]
      /\ serving[w].client # <<>> =>
            /\ rows # {} /\ serving[w].revision = revision
            /\ serving[w].revision \in DOMAIN history
            /\ Head(serving[w].client) = history[serving[w].revision]
  BY <1>1 DEF CallOK, Calling
<1>5. rows # {} => revision \in DOMAIN history /\ login = history[revision]
  BY <1>4, TheIn DEF Revision
<1>6. Place(w) \in Worker \cup {Cache}  BY DEF Place
<1>7. revision \in DOMAIN kept[Place(w)] => kept[Place(w)][revision] = history[revision]
  BY <1>1, <1>6 DEF KeptOK
<1>8. revision = Revision(tx[w].loaded[Material]) /\ rows = tx[w].loaded[Material]  OBVIOUS
<1> HIDE DEF rows, revision, login
<1>9. KeptOK'  BY <1>2, KeptFrame
<1>10. ASSUME NEW s \in {"present", "keep"}, tx' = Goto(w, s, <<>>)
       PROVE  Others(w) /\ tx'[w].step = s /\ tx'[w].loaded = tx[w].loaded
  <2>1. Moves(w, Conn(s, tx[w].open, tx[w].own, tx[w].held, <<>>, tx[w].hooks, tx[w].loaded,
                      tx[w].image))
    BY <1>1, <1>10, GotoMoves
  <2>2. QED  BY <2>1 DEF Moves, Conn, Others
<1>11. CASE serving[w].client # <<>> /\ tx' = Goto(w, "present", <<>>) /\ UNCHANGED serving
  <2>1. Others(w) /\ tx'[w].step = "present" /\ tx'[w].loaded = tx[w].loaded  BY <1>10, <1>11
  <2>2. CallOK(w)'  BY <1>2, <1>4, <1>8, <1>11, <2>1 DEF CallOK
  <2>3. QED  BY <1>2, <1>9, <1>11, <2>1, <2>2, ServingFrame, IdentityFrame
<1>12. CASE tx' = Answered(w) /\ UNCHANGED serving
  <2>1. Moves(w, Conn("finish", tx[w].open, tx[w].own, tx[w].held, tx[w].wants, tx[w].hooks,
                         tx[w].loaded, tx[w].image))
    BY <1>1, <1>12, AnsweredMoves
  <2>2. Others(w) /\ tx'[w].step \notin Calling  BY <2>1 DEF Moves, Conn, Others, Calling
  <2>3. CallOK(w)'  BY <2>2 DEF CallOK
  <2>4. QED  BY <1>2, <1>9, <1>12, <2>2, <2>3, ServingFrame, IdentityFrame
\* A login was made with the fields of the revision it goes by.
<1>13. ASSUME NEW fields, NEW s \in {"present", "keep"}, rows # {}, fields = history[revision],
              serving' = [serving EXCEPT ![w].revision = revision, ![w].client = <<fields>>],
              tx' = Goto(w, s, <<>>)
       PROVE  IdentityInv'
  <2>1. Others(w) /\ tx'[w].step = s /\ tx'[w].loaded = tx[w].loaded  BY <1>10, <1>13
  <2> DEFINE c == <<fields>>
  <2>2. c # <<>> /\ Head(c) = fields  OBVIOUS
  <2>3. serving' = [serving EXCEPT ![w].revision = revision, ![w].client = c]  BY <1>13
  <2> HIDE DEF c
  <2>4. Serving(w, Object(serving[w].floor, revision, c, serving[w].calls))
    BY <1>1, <2>3, LoggedServing
  <2>5. ServingShape'  BY <1>1, <2>4, ServingKept
  <2>6. /\ serving'[w].floor = serving[w].floor /\ serving'[w].client = c
        /\ serving'[w].revision = revision /\ \A v \in Worker \ {w} : serving'[v] = serving[v]
    BY <2>4 DEF Serving, Object
  <2>7. CallOK(w)'  BY <1>2, <1>4, <1>5, <1>8, <1>13, <2>1, <2>2, <2>6 DEF CallOK
  <2>8. QED  BY <1>2, <1>9, <2>1, <2>5, <2>6, <2>7, IdentityFrame
<1>14. CASE /\ rows # {} /\ revision \in DOMAIN kept[Place(w)]
            /\ serving' = [serving EXCEPT ![w].revision = revision,
                                          ![w].client = <<kept[Place(w)][revision]>>]
            /\ tx' = Goto(w, "present", <<>>)
  BY <1>7, <1>13, <1>14
<1>15. CASE /\ rows # {}
            /\ serving' = [serving EXCEPT ![w].revision = revision, ![w].client = <<login>>]
            /\ tx' = Goto(w, "keep", <<>>)
  BY <1>5, <1>13, <1>15
<1>16. QED  BY <1>3, <1>11, <1>12, <1>14, <1>15

\* Dropping what is kept does no harm.
LEMMA KeptLess ==
    ASSUME IdentityInv, history' = history, DOMAIN kept' = Worker \cup {Cache},
           \A place \in Worker \cup {Cache} : \A r \in DOMAIN (kept'[place]) :
              r \in DOMAIN kept[place] /\ kept'[place][r] = kept[place][r]
    PROVE  KeptOK'
BY DEF IdentityInv, KeptOK

\* Dropped leaves the other revisions.
LEMMA DroppedLess ==
    ASSUME NEW place, NEW revision
    PROVE  \A r \in DOMAIN Dropped(place, revision) :
              r \in DOMAIN kept[place] /\ Dropped(place, revision)[r] = kept[place][r]
BY DEF Dropped

\* A login is kept under the revision it was made with.
LEMMA KeepKeeps ==
    ASSUME EstateInv, IdentityInv, NEW w \in Worker, Keep(w)
    PROVE  IdentityInv'
<1>1. ShapeInv /\ KeptOK /\ CallOK(w) /\ tx[w].step = "keep"
  BY DEF EstateInv, IdentityInv, Keep, At
<1>2. UNCHANGED <<db, history, serving>> /\ tx' = Goto(w, "present", <<>>)  BY DEF Keep
<1> DEFINE revision == serving[w].revision
           fields == Head(serving[w].client)
           place == Place(w)
           new == Over(Only(revision, fields), kept[place])
<1>3. kept' = [kept EXCEPT ![place] = new]  BY DEF Keep
<1>4. revision \in DOMAIN history /\ fields = history[revision]  BY <1>1 DEF CallOK, Calling
<1>5. place \in Worker \cup {Cache}  BY DEF Place
<1>6. \A r \in DOMAIN new : r \in DOMAIN history /\ new[r] = history[r]
  <2>1. \A r \in DOMAIN kept[place] : r \in DOMAIN history /\ kept[place][r] = history[r]
    BY <1>1, <1>5 DEF KeptOK
  <2> HIDE DEF revision, fields, place
  <2>2. QED  BY <1>4, <2>1 DEF Over, Only
<1> HIDE DEF revision, fields, place, new
<1>7. KeptOK'
  <2>1. DOMAIN kept' = Worker \cup {Cache}  BY <1>1, <1>3 DEF KeptOK
  <2>2. \A p \in Worker \cup {Cache} : kept'[p] = IF p = place THEN new ELSE kept[p]
    BY <1>1, <1>3 DEF KeptOK
  <2>3. QED  BY <1>1, <1>2, <1>6, <2>1, <2>2 DEF KeptOK
<1>8. Moves(w, Conn("present", tx[w].open, tx[w].own, tx[w].held, <<>>, tx[w].hooks, tx[w].loaded,
                    tx[w].image))
  BY <1>1, <1>2, GotoMoves
<1>9. Others(w) /\ tx'[w].step = "present" /\ tx'[w].loaded = tx[w].loaded
  BY <1>8 DEF Moves, Conn, Others
<1>10. CallOK(w)'  BY <1>1, <1>2, <1>9 DEF CallOK, Calling
<1>11. QED  BY <1>2, <1>7, <1>9, <1>10, ServingFrame, IdentityFrame

\* Another call of the same object reads the revision again.
LEMMA PresentKeeps ==
    ASSUME EstateInv, IdentityInv, NEW w \in Worker, Present(w)
    PROVE  IdentityInv'
<1>1. ShapeInv /\ ServingShape /\ CallOK(w) /\ tx[w].step = "present"
  BY DEF EstateInv, IdentityInv, Present, At
<1>2. UNCHANGED <<db, history, kept>>  BY DEF Present
<1>3. PICK s \in {"refresh", "finish"} : tx' = Goto(w, s, <<>>)  BY Zenon DEF Present
<1>4. Moves(w, Conn(s, tx[w].open, tx[w].own, tx[w].held, <<>>, tx[w].hooks, tx[w].loaded,
                    tx[w].image))
  BY <1>1, <1>3, GotoMoves
<1>5. Others(w) /\ tx'[w].step = s /\ tx'[w].loaded = tx[w].loaded
  BY <1>4 DEF Moves, Conn, Others
<1>6. Serving(w, Object(serving[w].floor, serving[w].revision, serving[w].client,
                        serving[w].calls - 1))
  BY <1>1, PresentedServing DEF Present
<1>7. ServingShape'  BY <1>1, <1>6, ServingKept
<1>8. /\ serving'[w].floor = serving[w].floor /\ serving'[w].client = serving[w].client
      /\ serving'[w].revision = serving[w].revision
      /\ \A v \in Worker \ {w} : serving'[v] = serving[v]
  BY <1>6 DEF Serving, Object
<1>9. CallOK(w)'  BY <1>1, <1>2, <1>5, <1>8 DEF CallOK, Calling
<1>10. KeptOK'  BY <1>2, KeptFrame
<1>11. QED  BY <1>2, <1>5, <1>7, <1>8, <1>9, <1>10, IdentityFrame

\* invalidate_auth_material_sessions only drops.
LEMMA InvalidateIdentity ==
    ASSUME EstateInv, IdentityInv, NEW w \in Worker, invalidate_auth_material_sessions(w)
    PROVE  IdentityInv'
<1>1. ShapeInv /\ KeptOK /\ tx[w].step = "callbacks"
  BY DEF EstateInv, IdentityInv, invalidate_auth_material_sessions, At
<1>2. UNCHANGED <<db, history, serving>> /\ tx' = [tx EXCEPT ![w].hooks = Tail(@)]
  BY DEF invalidate_auth_material_sessions
<1>3. PICK revision :
         kept' = [kept EXCEPT ![Cache] = Dropped(Cache, revision), ![w] = Dropped(w, revision)]
  BY Zenon DEF invalidate_auth_material_sessions
<1> DEFINE a == Dropped(Cache, revision)
           b == Dropped(w, revision)
<1>4. kept' = [kept EXCEPT ![Cache] = a, ![w] = b]  BY <1>3
<1>5. /\ \A r \in DOMAIN a : r \in DOMAIN kept[Cache] /\ a[r] = kept[Cache][r]
      /\ \A r \in DOMAIN b : r \in DOMAIN kept[w] /\ b[r] = kept[w][r]
  BY DroppedLess
<1> HIDE DEF a, b
<1>6. DOMAIN kept' = Worker \cup {Cache}  BY <1>1, <1>4 DEF KeptOK
<1>7. \A p \in Worker \cup {Cache} :
         kept'[p] = IF p = w THEN b ELSE IF p = Cache THEN a ELSE kept[p]
  BY <1>1, <1>4 DEF KeptOK
<1>8. KeptOK'  BY <1>2, <1>5, <1>6, <1>7, KeptLess
<1>9. Moves(w, Conn(tx[w].step, tx[w].open, tx[w].own, tx[w].held, tx[w].wants,
                    Tail(tx[w].hooks), tx[w].loaded, tx[w].image))
  BY <1>1, <1>2, HooksMoves
<1>10. Others(w) /\ tx'[w].step \notin Calling  BY <1>1, <1>9 DEF Moves, Conn, Others, Calling
<1>11. CallOK(w)'  BY <1>10 DEF CallOK
<1>12. QED  BY <1>2, <1>8, <1>10, <1>11, ServingFrame, IdentityFrame

\* An expired token is dropped.
LEMMA ExpireIdentity ==
    ASSUME IdentityInv, Expire PROVE IdentityInv'
<1>1. UNCHANGED <<db, tx, history, serving>>  BY DEF Expire
<1>2. PICK revision : kept' = [kept EXCEPT ![Cache] = Dropped(Cache, revision)]  BY DEF Expire
<1>3. DOMAIN kept = Worker \cup {Cache}  BY DEF IdentityInv, KeptOK
<1>4. KeptOK'  BY <1>1, <1>2, <1>3, DroppedLess, KeptLess
<1>5. QED  BY <1>1, <1>4, SameCalls

\* A dead process loses its pool.
LEMMA CrashIdentity ==
    ASSUME EstateInv, IdentityInv, NEW w \in Worker, Crash(w), kept' = [kept EXCEPT ![w] = NoKept],
           UNCHANGED <<serving, history>>
    PROVE  IdentityInv'
<1>1. ShapeInv /\ UNCHANGED db /\ tx' = [tx EXCEPT ![w] = [Idle EXCEPT !.step = "dead"]]
  BY DEF EstateInv, Crash
<1>2. Moves(w, Conn("dead", FALSE, NoRows, {}, <<>>, <<>>, NoRows, {}))  BY <1>1, ResetMoves
<1>3. Others(w) /\ tx'[w].step \notin Calling  BY <1>2 DEF Moves, Conn, Others, Calling
<1>4. DOMAIN kept = Worker \cup {Cache}  BY DEF IdentityInv, KeptOK
<1>5. DOMAIN NoKept = {}  BY DEF NoKept
<1>6. KeptOK'
  <2>1. DOMAIN kept' = Worker \cup {Cache}  BY <1>4
  <2>2. \A p \in Worker \cup {Cache} : kept'[p] = IF p = w THEN NoKept ELSE kept[p]  BY <1>4
  <2>3. QED  BY <1>5, <2>1, <2>2, KeptLess
<1>7. CallOK(w)'  BY <1>3 DEF CallOK
<1>8. QED  BY <1>1, <1>3, <1>6, <1>7, ServingFrame, IdentityFrame

\* Rotations and withdrawals change nothing before their commit.
LEMMA MaterialIdentity ==
    ASSUME EstateInv, IdentityInv, NEW w \in Worker,
           Rotate(w) \/ Reencrypt(w) \/ Withdraw(w) \/ save(w) \/ DeleteMaterial(w)
    PROVE  IdentityInv'
<1>1. ShapeInv /\ UNCHANGED <<db, identityVars>>
  BY DEF EstateInv, Rotate, Reencrypt, Withdraw, save, DeleteMaterial, Rest
<1>2. CASE Rotate(w) \/ Reencrypt(w) \/ Withdraw(w)
  <2>1. \/ tx' = Answered(w) \/ \E s \in {"merge", "withdraw"} : \E l, d : tx' = Open(w, s, l, d)
    BY <1>2, Zenon DEF Rotate, Reencrypt, Withdraw
  <2>2. CASE tx' = Answered(w)
    <3>1. Moves(w, Conn("finish", tx[w].open, tx[w].own, tx[w].held, tx[w].wants, tx[w].hooks,
                        tx[w].loaded, tx[w].image))
      BY <1>1, <2>2, AnsweredMoves
    <3>2. Others(w) /\ tx'[w].step \notin Calling  BY <3>1 DEF Moves, Conn, Others, Calling
    <3>3. QED  BY <1>1, <3>2, Uninvolved
  <2>3. ASSUME NEW s \in {"merge", "withdraw"}, NEW l, NEW d, tx' = Open(w, s, l, d)
        PROVE  IdentityInv'
    <3>1. Moves(w, Conn(s, TRUE, tx[w].own, tx[w].held, l, tx[w].hooks, d, tx[w].image))
      BY <1>1, <2>3, OpenMoves
    <3>2. Others(w) /\ tx'[w].step \notin Calling  BY <3>1 DEF Moves, Conn, Others, Calling
    <3>3. QED  BY <1>1, <3>2, Uninvolved
  <2>4. QED  BY <2>1, <2>2, <2>3
<1>3. CASE save(w) \/ DeleteMaterial(w)
  <2>1. tx' = RolledBack(w, "failed") \/ \E rows, h : tx' = Write(w, rows, h, "commit", <<>>)
    BY <1>3, Zenon DEF save, DeleteMaterial
  <2>2. CASE tx' = RolledBack(w, "failed")
    <3>1. Moves(w, Conn("failed", FALSE, NoRows, {}, <<>>, <<>>, tx[w].loaded, {}))
      BY <1>1, <2>2, RolledBackMoves
    <3>2. Others(w) /\ tx'[w].step \notin Calling  BY <3>1 DEF Moves, Conn, Others, Calling
    <3>3. QED  BY <1>1, <3>2, Uninvolved
  <2>3. ASSUME NEW rows, NEW h, tx' = Write(w, rows, h, "commit", <<>>)
        PROVE  IdentityInv'
    <3>1. Moves(w, Conn("commit", tx[w].open, Over(rows, tx[w].own), tx[w].held, <<>>,
                        tx[w].hooks \o h, tx[w].loaded, tx[w].image))
      BY <1>1, <2>3, WriteMoves
    <3>2. Others(w) /\ tx'[w].step \notin Calling  BY <3>1 DEF Moves, Conn, Others, Calling
    <3>3. QED  BY <1>1, <3>2, Uninvolved
  <2>4. QED  BY <2>1, <2>2, <2>3
<1>4. QED  BY <1>2, <1>3

\* What is committed goes into the history.
LEMMA CommitHistory ==
    ASSUME EstateInv', IdentityInv,
           \A n \in db'[Material] :
              n \in db[Material] \/ \E m \in db[Material] : n.revision = m.revision + 1,
           history' = IF db'[Material] = {} THEN history
                      ELSE Over(Only(The(db'[Material]).revision, The(db'[Material]).fields),
                                history)
    PROVE  HistoryOK' /\ Growing
<1>1. HistoryOK  BY DEF IdentityInv
<1>2. CASE db'[Material] = {}  BY <1>1, <1>2 DEF HistoryOK, Growing
<1>3. CASE db'[Material] # {}
  <2> DEFINE n == The(db'[Material])
             r == n.revision
             f == n.fields
  <2>1. n \in db'[Material]  BY <1>3, TheIn
  <2>2. \A x \in db'[Material] : x = n  BY <2>1 DEF EstateInv, RowsOK
  <2>3. history' = Over(Only(r, f), history)  BY <1>3
  <2>4. PICK m \in db[Material] : n = m \/ r = m.revision + 1  BY <2>1
  <2>5. /\ m.revision \in Nat /\ m.revision \in DOMAIN history /\ m.fields = history[m.revision]
        /\ \A x \in DOMAIN history : x <= m.revision /\ x \in Nat
    BY <1>1 DEF HistoryOK
  <2>6. n = m => r = m.revision /\ f = m.fields  OBVIOUS
  <2>7. \A x \in db'[Material] : x.revision = r /\ x.fields = f  BY <2>2
  <2> HIDE DEF n, r, f
  <2>8. /\ DOMAIN history' = DOMAIN history \cup {r} /\ history'[r] = f
        /\ \A x \in DOMAIN history : x # r => history'[x] = history[x]
    BY <2>3 DEF Over, Only
  <2>9. r \in DOMAIN history => history[r] = f
    <3>1. CASE n = m  BY <2>5, <2>6, <3>1
    <3>2. CASE r = m.revision + 1  BY <2>5, <3>2
    <3>3. QED  BY <2>4, <3>1, <3>2
  <2>10. r \in Nat /\ m.revision <= r /\ \A x \in DOMAIN history : x <= r
    BY <2>4, <2>5, <2>6
  <2>11. HistoryOK'
    <3>1. DOMAIN history' \subseteq Nat  BY <2>5, <2>8, <2>10
    <3>2. \A x \in DOMAIN history' : x <= r  BY <2>8, <2>10
    <3>3. QED  BY <2>7, <2>8, <3>1, <3>2 DEF HistoryOK
  <2>12. Growing
    <3>1. \A x \in DOMAIN history : x \in DOMAIN history' /\ history'[x] = history[x]
      BY <2>8, <2>9
    <3>2. \A x \in db'[Material] : x.revision \in Nat /\ m.revision <= x.revision
      BY <2>7, <2>10
    <3>3. QED  BY <2>5, <3>1, <3>2 DEF Growing
  <2>13. QED  BY <2>11, <2>12
<1>4. QED  BY <1>2, <1>3

\* A commit leaves the material as it is, withdraws it, or gives it the next revision.
LEMMA CommitIdentity ==
    ASSUME EstateInv, EstateInv', IdentityInv, NEW w \in Worker, CommitEstate(w)
    PROVE  IdentityInv'
<1>1. /\ ShapeInv /\ LockInv /\ MaterialOwn(w) /\ {Singleton, Material} \subseteq DOMAIN db
      /\ KeptOK
  BY DEF EstateInv, OwnOK, RowsOK, IdentityInv
<1>2. /\ UNCHANGED <<kept, serving>>
      /\ history' = IF db'[Material] = {} THEN history
                    ELSE Over(Only(The(db'[Material]).revision, The(db'[Material]).fields), history)
  BY DEF CommitEstate
<1>3. \/ /\ db' = Over(tx[w].own, db)
         /\ tx' = [tx EXCEPT ![w] = [Idle EXCEPT !.step = "callbacks", !.hooks = tx[w].hooks,
                                                 !.loaded = tx[w].loaded]]
      \/ tx' = RolledBack(w, "failed") /\ db' = db
  BY DEF CommitEstate, Commit
<1>4. Others(w) /\ tx'[w].step \notin Calling
  <2>1. CASE tx' = [tx EXCEPT ![w] = [Idle EXCEPT !.step = "callbacks", !.hooks = tx[w].hooks,
                                                  !.loaded = tx[w].loaded]]
    <3>1. Moves(w, Conn("callbacks", FALSE, NoRows, {}, <<>>, tx[w].hooks, tx[w].loaded, {}))
      BY <1>1, <2>1, CommittedMoves
    <3>2. QED  BY <3>1 DEF Moves, Conn, Others, Calling
  <2>2. CASE tx' = RolledBack(w, "failed")
    <3>1. Moves(w, Conn("failed", FALSE, NoRows, {}, <<>>, <<>>, tx[w].loaded, {}))
      BY <1>1, <2>2, RolledBackMoves
    <3>2. QED  BY <3>1 DEF Moves, Conn, Others, Calling
  <2>3. QED  BY <1>3, <2>1, <2>2
\* A rotation holds the row whose next revision it commits.
<1>5. \A n \in db'[Material] :
         n \in db[Material] \/ \E m \in db[Material] : n.revision = m.revision + 1
  <2>1. CASE db' = db  BY <2>1
  <2>2. CASE db' = Over(tx[w].own, db)
    <3>1. db'[Material] = IF Material \in DOMAIN tx[w].own THEN tx[w].own[Material] ELSE db[Material]
      BY <1>1, <2>2 DEF Over
    <3>2. ASSUME Material \in DOMAIN tx[w].own, NEW n \in tx[w].own[Material]
          PROVE  \E m \in db[Material] : n.revision = m.revision + 1
      <4>1. Material \in tx[w].held /\ \A m \in db[Material] : n.revision = m.revision + 1
        BY <1>1, <3>2 DEF MaterialOwn
      <4>2. db[Material] # {}  BY <1>1, <4>1 DEF LockInv
      <4>3. QED  BY <4>1, <4>2
    <3>3. QED  BY <3>1, <3>2
  <2>3. QED  BY <1>3, <2>1, <2>2
<1>6. HistoryOK' /\ Growing  BY <1>2, <1>5, CommitHistory
<1>7. \A v \in Worker \ {w} : CallOK(v)'  BY <1>2, <1>4, <1>6, CallFrame DEF Others, IdentityInv
<1>8. CallOK(w)'  BY <1>4 DEF CallOK
<1>9. KeptOK'  BY <1>1, <1>2, <1>6 DEF KeptOK, Growing
<1>10. ServingShape'  BY <1>2, ServingFrame
<1>11. QED  BY <1>6, <1>7, <1>8, <1>9, <1>10 DEF IdentityInv

\* It holds at the start: nothing is kept and nobody calls.
LEMMA InitIdentity ==
    ASSUME Init PROVE IdentityInv
<1>1. EstateInv  BY InitEstate
<1>2. PICK load \in Workloads : db = load.rows /\ jobs = load.jobs  BY DEF Init, DatabaseInit
<1>3. Sound(db)  BY <1>2, EstateAssumption
<1>4. \A m \in db[Material] : m.revision \in Nat  BY <1>3 DEF Sound
<1>5. /\ kept = [place \in Worker \cup {Cache} |-> NoKept] /\ serving = [w \in Worker |-> NoClient]
      /\ history = IF db[Material] = {} THEN NoKept
                   ELSE Only(The(db[Material]).revision, The(db[Material]).fields)
  BY DEF Init, IdentityInit
<1>6. HistoryOK
  <2>1. CASE db[Material] = {}
    <3>1. DOMAIN history = {}  BY <1>5, <2>1 DEF NoKept
    <3>2. QED  BY <2>1, <3>1 DEF HistoryOK
  <2>2. CASE db[Material] # {}
    <3> DEFINE m == The(db[Material])
    <3>1. m \in db[Material] /\ \A n \in db[Material] : n = m
      BY <1>1, <2>2, TheIn DEF EstateInv, RowsOK
    <3>2. history = Only(m.revision, m.fields)  BY <1>5, <2>2
    <3>3. m.revision \in Nat  BY <1>4, <3>1
    <3> HIDE DEF m
    <3>4. DOMAIN history = {m.revision} /\ history[m.revision] = m.fields  BY <3>2 DEF Only
    <3>5. QED  BY <3>1, <3>3, <3>4 DEF HistoryOK
  <2>3. QED  BY <2>1, <2>2
<1>7. KeptOK  BY <1>5 DEF KeptOK, NoKept
<1>8. ServingShape  BY <1>5 DEF ServingShape, Backend, NoClient
<1>9. \A w \in Worker : CallOK(w)
  <2>1. \A w \in Worker : tx[w].step = "idle"  BY DEF Init, DatabaseInit, Idle
  <2>2. QED  BY <2>1 DEF CallOK, Calling
<1>10. QED  BY <1>6, <1>7, <1>8, <1>9 DEF IdentityInv

\* A granted lock changes no call.
LEMMA WaitIdentity ==
    ASSUME EstateInv, IdentityInv, NEW w \in Worker, Grant(w), UNCHANGED identityVars
    PROVE  IdentityInv'
<1>1. ShapeInv /\ UNCHANGED <<db, kept, serving, history>>  BY DEF EstateInv, Grant, identityVars
<1>2. PICK locked : tx' = [tx EXCEPT ![w].wants = Tail(@), ![w].held = @ \cup locked]
  BY Zenon DEF Grant
<1>3. Moves(w, Conn(tx[w].step, tx[w].open, tx[w].own, tx[w].held \cup locked,
                    Tail(tx[w].wants), tx[w].hooks, tx[w].loaded, tx[w].image))
  BY <1>1, <1>2, GrantMoves
<1>4. Others(w) /\ tx'[w].step = tx[w].step /\ tx'[w].loaded = tx[w].loaded
  BY <1>3 DEF Moves, Conn, Others
<1>5. CallOK(w)'  BY <1>1, <1>4, StillGrowing, CallFrame DEF IdentityInv
<1>6. QED  BY <1>1, <1>4, <1>5, KeptFrame, ServingFrame, IdentityFrame

\* A cancelled or refused transaction makes no call.
LEMMA RollbackIdentity ==
    ASSUME EstateInv, IdentityInv, NEW w \in Worker, Victim(w) \/ Refuse(w), UNCHANGED identityVars
    PROVE  IdentityInv'
<1>1. ShapeInv /\ UNCHANGED db /\ tx' = RolledBack(w, "failed")  BY DEF EstateInv, Victim, Refuse
<1>2. Moves(w, Conn("failed", FALSE, NoRows, {}, <<>>, <<>>, tx[w].loaded, {}))
  BY <1>1, RolledBackMoves
<1>3. Others(w) /\ tx'[w].step \notin Calling  BY <1>2 DEF Moves, Conn, Others, Calling
<1>4. QED  BY <1>1, <1>3, Uninvolved

\* A finished request makes no call.
LEMMA EndIdentity ==
    ASSUME EstateInv, IdentityInv, NEW w \in Worker, EndRequest(w), UNCHANGED identityVars
    PROVE  IdentityInv'
<1>1. ShapeInv /\ UNCHANGED db /\ tx' = [tx EXCEPT ![w] = Idle]
  BY DEF EstateInv, EndRequest, Finish
<1>2. Moves(w, Conn("idle", FALSE, NoRows, {}, <<>>, <<>>, NoRows, {}))  BY <1>1, FinishMoves
<1>3. Others(w) /\ tx'[w].step \notin Calling  BY <1>2 DEF Moves, Conn, Others, Calling
<1>4. QED  BY <1>1, <1>3, Uninvolved

\* Requests of the credential graph write rows by committing only.
LEMMA GraphReads ==
    ASSUME NEW w, GraphWork(w) PROVE UNCHANGED <<jobs, db>>
BY DEF GraphWork, Create, Stamp, Assign, _assign, Reassign, capture_previous_credential, Rebind,
   Unassign, DeleteAssignment, Delete, Clear, destroy_material_on_delete, _lock_metadata,
   _publish_custom_metadata, Project, set_metadata, delete_material, Respond, quick_add_ssh,
   _new_ip_address, LockService, _get_or_create_service, import_secrets, ImportSecret, NextSecret,
   Imported, Quiet

\* Every step keeps it.
LEMMA NextIdentity ==
    ASSUME EstateInv, EstateInv', IdentityInv, [Next]_vars PROVE IdentityInv'
<1>1. ASSUME NEW w \in Worker, Serves(w) PROVE IdentityInv'
  <2>1. CASE Work(w)
    <3>1. CASE SettingsWork(w) /\ UNCHANGED <<graphVars, identityVars>>
      <4>1. UNCHANGED <<jobs, db>>
        BY <3>1 DEF SettingsWork, Configure, Unset, _save_locked, delete_settings,
           _lock_for_prefix_write
      <4>2. QED  BY <3>1, <4>1, ElsewhereKeeps
    <3>2. CASE GraphWork(w) /\ UNCHANGED identityVars
      BY <3>2, GraphReads, ElsewhereKeeps
    <3>3. CASE IdentityWork(w)
      BY <3>3, MaterialIdentity, InvalidateIdentity, GetBackendKeeps, RefreshKeeps, ReloadKeeps,
         ClientKeeps, KeepKeeps, PresentKeeps DEF IdentityWork
    <3>4. CASE EndRequest(w) /\ UNCHANGED <<graphVars, identityVars>>
      BY <3>4, EndIdentity
    <3>5. CASE CommitEstate(w)  BY <3>5, CommitIdentity
    <3>6. QED  BY <2>1, <3>1, <3>2, <3>3, <3>4, <3>5 DEF Work
  <2>2. CASE PostgreSQL(w)  BY <2>2, WaitIdentity, RollbackIdentity DEF PostgreSQL
  <2>3. QED  BY <1>1, <2>1, <2>2 DEF Serves
<1>2. ASSUME NEW w \in Worker, Fails(w) PROVE IdentityInv'
  <2>1. CASE Refuse(w) /\ UNCHANGED <<settingsVars, graphVars, identityVars>>
    BY <2>1, RollbackIdentity
  <2>2. CASE Crash(w) /\ kept' = [kept EXCEPT ![w] = NoKept] /\ UNCHANGED <<serving, history>>
    BY <2>2, CrashIdentity
  <2>3. QED  BY <1>2, <2>1, <2>2 DEF Fails
<1>3. CASE UNCHANGED <<db, tx, kept, serving, history>>  BY <1>3, KeptFrame, SameCalls
<1>4. ASSUME NEW w \in Worker, Consult(w), UNCHANGED <<graphVars, identityVars>> PROVE IdentityInv'
  BY <1>3, <1>4 DEF Consult, identityVars
<1>5. CASE Expire  BY <1>5, ExpireIdentity
<1>6. CASE UNCHANGED vars  BY <1>3, <1>6 DEF vars, identityVars
<1>7. QED  BY <1>1, <1>2, <1>4, <1>5, <1>6 DEF Next

\* IdentityCurrent, for every workload: a call of OpenBaoBackend presents a login made
\* with the fields of one committed revision, no older than the one in force when the call
\* began (refresh_auth_material, cache_identity, EngineAuthMaterial.save).
THEOREM IdentityCorrect == Spec => []IdentityCurrent
<1>1. Init => IdentityInv  BY InitIdentity
<1>2. EstateInv /\ EstateInv' /\ IdentityInv /\ [Next]_vars => IdentityInv'  BY NextIdentity
<1>3. IdentityInv => IdentityCurrent
  <2> SUFFICES ASSUME IdentityInv, NEW w \in Worker, tx[w].step = "present"
               PROVE  /\ serving[w].revision >= serving[w].floor
                      /\ Head(serving[w].client) = history[serving[w].revision]
    BY DEF IdentityCurrent
  <2>1. CallOK(w) /\ DOMAIN history \subseteq Nat  BY DEF IdentityInv, HistoryOK
  <2>2. /\ serving[w].floor \in Nat /\ serving[w].revision \in DOMAIN history
        /\ serving[w].floor <= serving[w].revision
        /\ Head(serving[w].client) = history[serving[w].revision]
    BY <2>1 DEF CallOK, Calling
  <2>3. QED  BY <2>1, <2>2
<1>4. QED  BY <1>1, <1>2, <1>3, EstateCorrect, PTL DEF Spec

================================================================================
