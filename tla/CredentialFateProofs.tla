------------------------- MODULE CredentialFateProofs --------------------------
(***************************************************************************)
(* Proofs about CredentialEstate, after CredentialTypesProofs: what        *)
(* becomes of a credential. A stored row has its material, a deleted       *)
(* credential stays deleted, and in quiet OpenBao lists of a credential    *)
(* what NetBox has.                                                        *)
(*                                                                         *)
(* FateInv follows rows under drawn keys: only the request that drew a key *)
(* inserts its row, only a deletion that holds the projection lock removes *)
(* it, and what is still to be destroyed belongs to a row that goes first. *)
(* MirrorInv follows what is sent: whenever OpenBao lists something else   *)
(* than NetBox has, somebody is still to publish it, and the projection    *)
(* lock keeps two publishers of one credential apart.                      *)
(***************************************************************************)
EXTENDS CredentialTypesProofs

--------------------------------------------------------------------------------
(***************************************************************************)
(* Drafts, deletions and the projection lock.                              *)
(***************************************************************************)

\* The steps that follow a transaction.
Past == {"callbacks", "project", "send", "finish", "failed", "dead"}

\* Where a request stands among the rows it inserts.
Position(w) == IF Has(w, "import") THEN run[w].at ELSE 1
Placed(w, row) ==
    jobs[w] # <<>> /\ Position(w) \in Places(Job(w)) /\ Inserts(Job(w), Position(w), row)

\* A row that a worker has still to insert.
Draft(w, row) ==
    \E i \in DOMAIN jobs[w] : \E k \in Places(jobs[w][i]) :
        /\ Inserts(jobs[w][i], k, row)
        /\ \/ i > 1 \/ tx[w].step = "idle" \/ k > Position(w)
           \/ k = Position(w) /\ tx[w].step \notin Past

\* A credential whose material a worker will destroy, and one it is deleting.
Doomed(w, c) ==
    \E i \in DOMAIN tx[w].hooks : tx[w].hooks[i].call = "destroy" /\ tx[w].hooks[i].cred = c
Deleting(w, c) ==
    (Has(w, "delete") /\ Job(w).cred = c /\ tx[w].step \in {"clear", "drop"}) \/ Doomed(w, c)

\* Rows under drawn keys are inserted by the request that drew them.
Inserting(w) ==
    \A row \in DOMAIN tx[w].own \cap Drawn :
        tx[w].own[row] # {} => Placed(w, row) \/ (row[1] = "service" /\ db[row] # {})

\* Only a deletion removes one, under the projection lock.
Removing(w) ==
    \A row \in DOMAIN tx[w].own \cap Drawn : tx[w].own[row] = {} =>
        \E c \in Cred : /\ row = Credential(c) /\ tx[w].step = "commit"
                        /\ Projection(c) \in tx[w].held /\ Doomed(w, c)

\* What is to be destroyed is deleted first.
DoomOK(w) ==
    \A c \in Cred : Doomed(w, c) =>
        \/ /\ tx[w].step = "commit"
           /\ Credential(c) \in DOMAIN tx[w].own /\ tx[w].own[Credential(c)] = {}
        \/ tx[w].step \in After /\ db[Credential(c)] = {}

\* Deletions and publishers hold the projection lock.
Ordered(w) ==
    LET t == tx[w]
        lock == Projection(Job(w).cred)
        mine == Projection(Subject(w))
    IN
    /\ t.step = "clear" => lock \in t.held \/ (t.wants # <<>> /\ Head(t.wants) = lock)
    /\ t.step = "drop" => lock \in t.held
    /\ t.step = "callbacks" => t.wants = <<>> /\ t.held = {}
    /\ t.step = "project" => \/ t.wants = <<mine>> /\ t.held = {}
                             \/ t.wants = <<>> /\ t.held = {mine}
    /\ t.step = "send" =>
         t.wants = <<>> /\ t.held = {mine} /\ db[Credential(Subject(w))] # {}

\* Quick add writes its service after its address.
AddressFirst(w) ==
    tx[w].step \in {"address", "parent", "service"} =>
        \A row \in DOMAIN tx[w].own : row[1] = "address"

Fated(w) == Inserting(w) /\ Removing(w) /\ DoomOK(w) /\ Ordered(w) /\ AddressFirst(w)

\* A draft is of no row yet, nor of one that was deleted or is being deleted.
DraftsOK ==
    \A w \in Worker : \A row \in Drawn : Draft(w, row) =>
        /\ db[row] = {}
        /\ \A c \in Cred : row = Credential(c) =>
             c \notin deleted /\ \A v \in Worker : ~Deleting(v, c)

\* A deleted credential has no row, and no material unless somebody is yet to destroy it.
Gone(c) ==
    /\ c \in deleted => db[Credential(c)] = {}
    /\ c \in deleted \cap live /\ c \notin drift =>
         \E w \in Worker : tx[w].step \in After /\ Doomed(w, c)

FateInv ==
    /\ \A w \in Worker : Fated(w)
    /\ DraftsOK /\ DrawnOnce(jobs) /\ RowHasMaterial
    /\ \A c \in Cred : Gone(c)

--------------------------------------------------------------------------------
(***************************************************************************)
(* Steps that leave every row under a drawn key alone.                     *)
(***************************************************************************)

\* A connection nobody moves, over rows that stay as it needs them.
LEMMA FatedFrame ==
    ASSUME NEW v \in Worker, Fated(v), tx'[v] = tx[v], jobs'[v] = jobs[v], run'[v] = run[v],
           \A row \in Drawn : row[1] = "service" /\ db[row] # {} => db'[row] # {},
           \A c \in Cred : Doomed(v, c) /\ db[Credential(c)] = {} => db'[Credential(c)] = {},
           tx[v].step = "send" => db'[Credential(Subject(v))] # {}
    PROVE  Fated(v)'
<1>1. /\ \A row : Placed(v, row)' <=> Placed(v, row)
      /\ \A c : Doomed(v, c)' <=> Doomed(v, c)
  BY DEF Placed, Position, Has, Job, Doomed
<1>2. Inserting(v)'  BY <1>1 DEF Fated, Inserting, Drawn
<1>3. Removing(v)'  BY <1>1 DEF Fated, Removing, Drawn
<1>4. DoomOK(v)'  BY <1>1 DEF Fated, DoomOK, Credential
<1>5. Ordered(v)'  BY DEF Fated, Ordered, Job, Subject, Credential, Projection
<1>6. AddressFirst(v)'  BY DEF Fated, AddressFirst
<1>7. QED  BY <1>2, <1>3, <1>4, <1>5, <1>6 DEF Fated

\* What other workers draft, delete and destroy.
LEMMA FateAside ==
    ASSUME NEW v, tx'[v] = tx[v], jobs'[v] = jobs[v], run'[v] = run[v]
    PROVE  /\ \A row : Draft(v, row)' <=> Draft(v, row)
           /\ \A c : Deleting(v, c)' <=> Deleting(v, c)
           /\ \A c : Doomed(v, c)' <=> Doomed(v, c)
BY DEF Draft, Position, Has, Job, Deleting, Doomed

\* Drafts only fall while a request goes on.
LEMMA DraftsFall ==
    ASSUME NEW w, jobs' = jobs, run'[w] = run[w],
           \/ tx[w].step = "idle"
           \/ tx'[w].step # "idle" /\ (tx[w].step \in Past => tx'[w].step \in Past)
    PROVE  \A row : Draft(w, row)' => Draft(w, row)
BY DEF Draft, Position, Has, Job

\* One worker's step, which commits nothing.
LEMMA FateStep ==
    ASSUME FateInv, NEW w \in Worker, Others(w), Fated(w)', jobs' = jobs, db' = db,
           deleted' = deleted, \A v \in Worker \ {w} : run'[v] = run[v],
           \A row \in Drawn : Draft(w, row)' => Draft(w, row),
           \A c \in Cred : Deleting(w, c)' => Deleting(w, c) \/ db[Credential(c)] # {},
           drift \subseteq drift',
           \A c \in Cred : c \in live' \ live => db[Credential(c)] # {},
           \A c \in Cred : c \in live \ live' => db[Credential(c)] = {},
           \A c \in Cred : tx[w].step \in After /\ Doomed(w, c) =>
               c \in drift' \/ c \notin live' \/ (tx'[w].step \in After /\ Doomed(w, c)')
    PROVE  FateInv'
<1>0. \A v \in Worker \ {w} : tx'[v] = tx[v]  BY DEF Others
<1>1. ASSUME NEW v \in Worker, v # w
      PROVE  /\ \A row : Draft(v, row)' <=> Draft(v, row)
             /\ \A c : Deleting(v, c)' <=> Deleting(v, c)
             /\ \A c : Doomed(v, c)' <=> Doomed(v, c)
  BY <1>0, <1>1, FateAside
<1>2. \A v \in Worker : Fated(v)'
  <2> SUFFICES ASSUME NEW v \in Worker, v # w PROVE Fated(v)'
    OBVIOUS
  <2>1. Fated(v) /\ tx'[v] = tx[v] /\ jobs'[v] = jobs[v] /\ run'[v] = run[v]
    BY <1>0 DEF FateInv
  <2>2. tx[v].step = "send" => db'[Credential(Subject(v))] # {}  BY <2>1 DEF Fated, Ordered
  <2>3. QED  BY <2>1, <2>2, FatedFrame
<1>3. DraftsOK'
  <2> SUFFICES ASSUME NEW v \in Worker, NEW row \in Drawn, Draft(v, row)'
               PROVE  /\ db[row] = {}
                      /\ \A c \in Cred : row = Credential(c) =>
                            c \notin deleted /\ \A u \in Worker : ~Deleting(u, c)'
    BY DEF DraftsOK, Drawn, Credential, Service
  <2>1. Draft(v, row)  BY <1>1
  <2>2. /\ db[row] = {}
        /\ \A c \in Cred : row = Credential(c) =>
              c \notin deleted /\ \A u \in Worker : ~Deleting(u, c)
    BY <2>1 DEF FateInv, DraftsOK
  <2>3. ASSUME NEW c \in Cred, row = Credential(c), NEW u \in Worker PROVE ~Deleting(u, c)'
    <3>1. ~Deleting(u, c) /\ db[Credential(c)] = {}  BY <2>2, <2>3
    <3>2. QED  BY <1>1, <3>1
  <2>4. QED  BY <2>2, <2>3
<1>4. DrawnOnce(jobs)'  BY DEF FateInv, DrawnOnce, Drawn, Credential, Service, Places, Inserts
<1>5. RowHasMaterial'  BY DEF FateInv, RowHasMaterial, Credential
<1>6. ASSUME NEW c \in Cred PROVE Gone(c)'
  <2>1. Gone(c)  BY DEF FateInv
  <2>2. c \in deleted' => db'[Credential(c)] = {}  BY <2>1 DEF Gone, Credential
  <2>3. ASSUME c \in deleted', c \in live', c \notin drift'
        PROVE  \E v \in Worker : tx'[v].step \in After /\ Doomed(v, c)'
    <3>1. c \in deleted /\ c \notin drift /\ db[Credential(c)] = {}  BY <2>1, <2>3 DEF Gone
    <3>2. c \in live  BY <2>3, <3>1
    <3>3. PICK v \in Worker : tx[v].step \in After /\ Doomed(v, c)  BY <2>1, <3>1, <3>2 DEF Gone
    <3>4. CASE v = w  BY <2>3, <3>3, <3>4
    <3>5. CASE v # w  BY <1>0, <1>1, <3>3, <3>5
    <3>6. QED  BY <3>4, <3>5
  <2>4. After' = After  BY DEF After
  <2>5. QED  BY <2>2, <2>3, <2>4 DEF Gone
<1>7. QED  BY <1>2, <1>3, <1>4, <1>5, <1>6 DEF FateInv

\* Nothing of OpenBao or of the rows.
Still == UNCHANGED <<jobs, db, live, drift, deleted>>

\* Nobody is doomed by a request that is still at work.
LEMMA NoDoom ==
    ASSUME FateInv, NEW w \in Worker, tx[w].step \notin {"commit"} \cup After
    PROVE  \A c \in Cred : ~Doomed(w, c)
BY DEF FateInv, Fated, DoomOK

\* A step that writes no row under a drawn key, and dooms nothing.
LEMMA LightStep ==
    ASSUME FateInv, NEW w \in Worker, Others(w), Still, run' = run,
           tx[w].step \notin {"commit"} \cup After,
           tx'[w].step \notin {"clear", "drop"} \cup After,
           \A row \in DOMAIN tx'[w].own \cap Drawn :
               row \in DOMAIN tx[w].own /\ tx'[w].own[row] = tx[w].own[row],
           \A i \in DOMAIN tx'[w].hooks : tx'[w].hooks[i].call # "destroy",
           tx'[w].step \in {"address", "parent", "service"} =>
               \A row \in DOMAIN tx'[w].own : row[1] = "address",
           \/ tx[w].step = "idle"
           \/ tx'[w].step # "idle" /\ (tx[w].step \in Past => tx'[w].step \in Past)
    PROVE  FateInv'
<1>1. /\ \A c \in Cred : ~Doomed(w, c)
      /\ \A c \in Cred : ~Doomed(w, c)'
  BY NoDoom DEF Doomed
<1>2. jobs' = jobs /\ db' = db /\ deleted' = deleted /\ drift' = drift /\ live' = live  BY DEF Still
<1>3. \A row : Placed(w, row)' <=> Placed(w, row)  BY <1>2 DEF Placed, Position, Has, Job
<1>4. Fated(w)'
  <2>1. Fated(w)  BY DEF FateInv
  <2>2. Inserting(w)'
    BY <1>2, <1>3, <2>1 DEF Fated, Inserting, Drawn, Credential, Service
  <2>3. Removing(w)'
    <3>1. \A row \in DOMAIN tx[w].own \cap Drawn : tx[w].own[row] # {}
      BY <1>1, <2>1 DEF Fated, Removing
    <3>2. \A row \in DOMAIN tx'[w].own \cap Drawn : tx'[w].own[row] # {}  BY <3>1
    <3>3. QED  BY <3>2 DEF Removing, Drawn, Credential, Service
  <2>4. DoomOK(w)'  BY <1>1 DEF DoomOK
  <2>5. Ordered(w)'  BY DEF Ordered, After
  <2>6. AddressFirst(w)'  BY DEF AddressFirst
  <2>7. QED  BY <2>2, <2>3, <2>4, <2>5, <2>6 DEF Fated
<1>5. \A row \in Drawn : Draft(w, row)' => Draft(w, row)  BY <1>2, DraftsFall
<1>6. \A c \in Cred : ~Deleting(w, c)'  BY <1>1 DEF Deleting
<1>7. QED  BY <1>1, <1>2, <1>4, <1>5, <1>6, FateStep

\* A rollback of what is not committed.
LEMMA RollbackStep ==
    ASSUME FateInv, NEW w \in Worker, Others(w), Still, run' = run,
           tx[w].step \notin After, tx'[w].step \in {"failed", "dead"},
           tx'[w].own = NoRows, tx'[w].hooks = <<>>
    PROVE  FateInv'
<1>1. \A c \in Cred : ~Doomed(w, c)'  BY DEF Doomed
<1>2. jobs' = jobs /\ db' = db /\ deleted' = deleted /\ drift' = drift /\ live' = live  BY DEF Still
<1>3. Fated(w)'
  <2>1. DOMAIN tx'[w].own = {}  BY DEF NoRows
  <2>2. Inserting(w)' /\ Removing(w)'  BY <2>1 DEF Inserting, Removing
  <2>3. DoomOK(w)'  BY <1>1 DEF DoomOK
  <2>4. Ordered(w)' /\ AddressFirst(w)'  BY <2>1 DEF Ordered, AddressFirst
  <2>5. QED  BY <2>2, <2>3, <2>4 DEF Fated
<1>4. \A row \in Drawn : Draft(w, row)' => Draft(w, row)  BY <1>2, DraftsFall DEF Past
<1>5. \A c \in Cred : ~Deleting(w, c)'  BY <1>1 DEF Deleting
<1>6. QED  BY <1>2, <1>3, <1>4, <1>5, FateStep

\* What light steps start from.
LEMMA LightBase ==
    ASSUME EstateInv, TypesInv, FateInv, NEW w \in Worker,
           tx[w].step \notin {"drop", "commit"} \cup After
    PROVE  /\ ShapeInv /\ tx[w].hooks = <<>>
           /\ tx[w].step \notin {"commit"} \cup After /\ AddressFirst(w)
           /\ tx[w].step \notin Writing => DOMAIN tx[w].own = {}
BY TypedBase DEF FateInv, Fated

\* A request begins, with its transaction.
LEMMA LightOpen ==
    ASSUME EstateInv, TypesInv, FateInv, NEW w \in Worker, tx[w].step = "idle",
           NEW s, s \notin {"clear", "drop", "idle"} \cup After, NEW l, NEW d,
           tx' = Open(w, s, l, d), Still, run' = run
    PROVE  FateInv'
<1>1. tx[w].step \notin {"drop", "commit"} \cup After \cup Writing  BY DEF After, Writing
<1>2. ShapeInv /\ tx[w].hooks = <<>> /\ DOMAIN tx[w].own = {}  BY <1>1, LightBase
<1>3. /\ Others(w) /\ tx'[w].step = s /\ tx'[w].own = tx[w].own /\ tx'[w].hooks = tx[w].hooks
  BY <1>2, BeginFields
<1>4. QED  BY <1>1, <1>2, <1>3, LightStep

\* A request is answered.
LEMMA LightAnswer ==
    ASSUME EstateInv, TypesInv, FateInv, NEW w \in Worker,
           tx[w].step \in {"idle", "secret"} \cup Calling, tx' = Answered(w), Still, run' = run
    PROVE  FateInv'
<1>1. tx[w].step \notin {"drop", "commit"} \cup After \cup Writing \cup Past
  BY DEF After, Writing, Past, Calling
<1>2. ShapeInv /\ tx[w].hooks = <<>> /\ DOMAIN tx[w].own = {}  BY <1>1, LightBase
<1>3. /\ Others(w) /\ tx'[w].step = "finish" /\ tx'[w].own = tx[w].own
      /\ tx'[w].hooks = tx[w].hooks
  BY <1>2, AnsweredFields
<1>4. "finish" \notin {"clear", "drop"} \cup After  BY DEF After
<1>5. QED  BY <1>1, <1>2, <1>3, <1>4, LightStep

\* A request goes on.
LEMMA LightGoto ==
    ASSUME EstateInv, TypesInv, FateInv, NEW w \in Worker,
           tx[w].step \notin {"drop", "commit"} \cup Past,
           NEW s, s \notin {"clear", "drop", "idle"} \cup After,
           s \in {"address", "parent", "service"} => tx[w].step \in {"address", "parent", "service"},
           \/ \E l : tx' = Goto(w, s, l)
           \/ \E l, i : tx' = Captures(w, s, l, i)
           \/ \E d : tx' = Loads(w, s, d),
           Still, run' = run
    PROVE  FateInv'
<1>1. tx[w].step \notin {"drop", "commit"} \cup After  BY DEF After, Past
<1>2. ShapeInv /\ tx[w].hooks = <<>> /\ AddressFirst(w)  BY <1>1, LightBase
<1>3. /\ Others(w) /\ tx'[w].step = s /\ tx'[w].own = tx[w].own /\ tx'[w].hooks = tx[w].hooks
  BY <1>2, GotoFields, CaptureFields, LoadFields
<1>4. QED  BY <1>1, <1>2, <1>3, LightStep DEF AddressFirst

\* A request writes rows under keys nobody draws.
LEMMA LightWrite ==
    ASSUME EstateInv, TypesInv, FateInv, NEW w \in Worker,
           tx[w].step \notin {"idle", "drop", "commit"} \cup Past,
           NEW s, s \notin {"clear", "drop", "idle"} \cup After, NEW rows, NEW h, NEW l,
           tx' = Write(w, rows, h, s, l), DOMAIN rows \cap Drawn = {},
           s \in {"address", "parent", "service"} =>
               /\ tx[w].step \in {"address", "parent", "service"}
               /\ \A row \in DOMAIN rows : row[1] = "address",
           NEW S, h \in Seq(S), \A i \in DOMAIN h : h[i].call # "destroy", Still, run' = run
    PROVE  FateInv'
<1>1. tx[w].step \notin {"drop", "commit"} \cup After  BY DEF After, Past
<1>2. ShapeInv /\ tx[w].hooks = <<>> /\ AddressFirst(w)  BY <1>1, LightBase
<1>3. /\ Others(w) /\ tx'[w].step = s /\ tx'[w].own = Over(rows, tx[w].own)
      /\ tx'[w].hooks = tx[w].hooks \o h
  <2>1. ShapeInv  BY <1>2
  <2>2. QED  BY ONLY <2>1, w \in Worker, tx' = Write(w, rows, h, s, l), WriteFields
<1>4. tx'[w].hooks = h
  <2>1. <<>> \o h = h  OBVIOUS
  <2>2. QED  BY ONLY <1>2, <1>3, <2>1
<1>5. /\ DOMAIN tx'[w].own = DOMAIN rows \cup DOMAIN tx[w].own
      /\ \A row \in DOMAIN tx'[w].own :
            tx'[w].own[row] = IF row \in DOMAIN rows THEN rows[row] ELSE tx[w].own[row]
  BY ONLY <1>3 DEF Over
<1>6. \A row \in DOMAIN tx'[w].own \cap Drawn :
          row \in DOMAIN tx[w].own /\ tx'[w].own[row] = tx[w].own[row]
  BY <1>5
<1>7. tx'[w].step \in {"address", "parent", "service"} =>
          \A row \in DOMAIN tx'[w].own : row[1] = "address"
  BY <1>2, <1>3, <1>5 DEF AddressFirst
<1>8. \A i \in DOMAIN tx'[w].hooks : tx'[w].hooks[i].call # "destroy"  BY <1>4
<1>9. tx[w].step \notin Past /\ tx[w].step \notin {"commit"} \cup After
      /\ tx'[w].step \notin {"clear", "drop"} \cup After /\ tx'[w].step # "idle"
  BY <1>1, <1>3
<1>10. QED  BY ONLY FateInv, w \in Worker, Still, run' = run, <1>3, <1>6, <1>7, <1>8, <1>9, LightStep

\* A transaction is rolled back.
LEMMA LightRollback ==
    ASSUME EstateInv, FateInv, NEW w \in Worker, tx[w].step \notin After,
           tx' = RolledBack(w, "failed"), Still, run' = run
    PROVE  FateInv'
<1>1. ShapeInv  BY DEF EstateInv
<1>2. /\ Others(w) /\ tx'[w].step = "failed" /\ tx'[w].own = NoRows /\ tx'[w].hooks = <<>>
  BY <1>1, RolledBackFields
<1>3. QED  BY <1>2, RollbackStep

\* One row under a key nobody draws.
LEMMA Undrawn ==
    ASSUME NEW row, row[1] \notin {"credential", "service"}
    PROVE  /\ row \notin Drawn
           /\ \A records : DOMAIN Only(row, records) = {row}
           /\ \A records : DOMAIN Only(row, records) \cap Drawn = {}
BY DEF Drawn, Credential, Service, Only

\* The settings.
LEMMA FateSettings ==
    ASSUME EstateInv, TypesInv, FateInv, NEW w \in Worker, SettingsWork(w), UNCHANGED graphVars
    PROVE  FateInv'
<1>0. run' = run /\ Still
  BY DEF graphVars, Still, SettingsWork, Configure, Unset, _save_locked, delete_settings,
     _lock_for_prefix_write
<1>1. CASE Configure(w) \/ Unset(w)
  <2>1. tx[w].step = "idle"  BY <1>1 DEF Configure, Unset, Ready, At
  <2>2. \/ tx' = Answered(w)
        \/ tx' = Open(w, "prefix", <<Singleton>>, Only(Singleton, db[Singleton]))
    BY <1>1 DEF Configure, Unset
  <2>3. "prefix" \notin {"clear", "drop", "idle"} \cup After  BY DEF After
  <2>4. QED  BY <1>0, <2>1, <2>2, <2>3, LightAnswer, LightOpen
<1>2. CASE _lock_for_prefix_write(w)
  <2>1. tx[w].step = "prefix" /\ \E l : tx' = Goto(w, "locked", l)
    BY <1>2, Zenon DEF _lock_for_prefix_write, At
  <2>2. "locked" \notin {"clear", "drop", "idle", "address", "parent", "service"} \cup After
        /\ tx[w].step \notin {"drop", "commit"} \cup Past
    BY <2>1 DEF After, Past
  <2>3. QED  BY <1>0, <2>1, <2>2, LightGoto
<1>3. CASE _save_locked(w) \/ delete_settings(w)
  <2>1. tx[w].step = "locked"  BY <1>3 DEF _save_locked, delete_settings, At
  <2>2. \/ tx' = RolledBack(w, "failed")
        \/ \E r : tx' = Write(w, Only(Singleton, r), <<>>, "commit", <<>>)
        \/ tx' = Write(w, NoRows, <<>>, "commit", <<>>)
    BY <1>3, Zenon DEF _save_locked, delete_settings
  <2>3. /\ "commit" \notin {"clear", "drop", "idle", "address", "parent", "service"} \cup After
        /\ tx[w].step \notin {"idle", "drop", "commit"} \cup Past /\ tx[w].step \notin After
    BY <2>1 DEF After, Past
  <2>4. \A r : DOMAIN Only(Singleton, r) \cap Drawn = {}  BY Undrawn DEF Singleton
  <2>5. DOMAIN NoRows \cap Drawn = {}  BY DEF NoRows
  <2>6. <<>> \in Seq(Calls) /\ DOMAIN <<>> = {}  OBVIOUS
  <2>7. QED  BY <1>0, <2>2, <2>3, <2>4, <2>5, <2>6, LightRollback, LightWrite
<1>4. QED  BY <1>1, <1>2, <1>3 DEF SettingsWork

\* The owners of at most one row.
LEMMA OneOwner ==
    ASSUME NEW owners, \A x, y \in owners : x = y PROVE \E x : owners \subseteq {x}
<1>1. CASE owners = {}  BY <1>1
<1>2. CASE owners # {}
  <2>1. PICK x \in owners : TRUE  BY <1>2
  <2>2. QED  BY <2>1
<1>3. QED  BY <1>1, <1>2

\* What is written about an assignment, with a callback for every owner it names.
Rewrites(w) ==
    \E a, records, l, x, y : \E owners \in SUBSET Cred :
        /\ owners \subseteq {x, y} /\ \A r \in records : r.cred \in owners
        /\ tx' = Write(w, Only(Assignment(a), records), defer_custom_metadata(owners), "commit", l)

\* A new assignment.
LEMMA AssignRewrites ==
    ASSUME EstateInv, TypesInv, NEW w \in Worker, _assign(w)
    PROVE  tx[w].step = "assign" /\ (tx' = Goto(w, "commit", <<>>) \/ Rewrites(w))
<1>1. tx[w].step = "assign"  BY DEF _assign, At
<1>2. \/ tx' = Goto(w, "commit", <<>>)
      \/ TargetOf(w) # "none" /\ Bind(w, Item(w).assignment, Item(w).cred, TargetOf(w), {Item(w).cred})
  BY Zenon DEF _assign
<1>3. CASE TargetOf(w) # "none"
           /\ Bind(w, Item(w).assignment, Item(w).cred, TargetOf(w), {Item(w).cred})
  <2> DEFINE c == Item(w).cred
             t == TargetOf(w)
             a == Item(w).assignment
             records == {[cred |-> c, target |-> t]}
  <2>1. c \in Cred  BY <1>1, <1>3, TargetTyped
  <2>2. tx' = Write(w, Only(Assignment(a), records), defer_custom_metadata({c}), "commit",
                    <<Credential(c)>>)
    BY <1>3 DEF Bind
  <2>3. {c} \in SUBSET Cred /\ {c} \subseteq {c, c} /\ \A r \in records : r.cred \in {c}
    BY <2>1
  <2> HIDE DEF c, t, a, records
  <2>4. QED  BY <1>1, <2>2, <2>3 DEF Rewrites
<1>4. QED  BY <1>1, <1>2, <1>3

\* A moved one.
LEMMA RebindRewrites ==
    ASSUME EstateInv, TypesInv, NEW w \in Worker, Rebind(w)
    PROVE  tx[w].step = "rebind" /\ Rewrites(w)
<1> DEFINE a == Job(w).assignment
           c == Job(w).cred
           t == The(tx[w].loaded[Assignment(Job(w).assignment)]).target
           owners == tx[w].image \cup {c}
           records == {[cred |-> c, target |-> t]}
<1>0. Stage(w) /\ Kinds(w, tx[w].step)  BY TypedBase
<1>1. tx[w].step = "rebind" /\ Has(w, "reassign")  BY <1>0 DEF Rebind, At, Kinds
<1>2. jobs[w] # <<>>  BY <1>1 DEF Has
<1>3. c \in Cred
  <2>1. Request(Job(w), db)  BY <1>2, JobTyped
  <2>2. QED  BY <1>1, <2>1 DEF Has, Request
<1>4. tx[w].image \subseteq Cred /\ \A x, y \in tx[w].image : x = y
  BY <1>0, <1>1 DEF Stage
<1>5. PICK x : tx[w].image \subseteq {x}  BY <1>4, OneOwner
<1>6. owners \in SUBSET Cred /\ owners \subseteq {x, c} /\ \A r \in records : r.cred \in owners
  BY <1>3, <1>4, <1>5
<1>7. tx' = Write(w, Only(Assignment(a), records), defer_custom_metadata(owners), "commit",
                  <<Credential(c)>>)
  BY DEF Rebind, Bind
<1> HIDE DEF a, c, t, owners, records
<1>8. QED  BY <1>1, <1>6, <1>7 DEF Rewrites

\* A removed one.
LEMMA RemoveRewrites ==
    ASSUME EstateInv, TypesInv, NEW w \in Worker, DeleteAssignment(w)
    PROVE  tx[w].step = "remove" /\ Rewrites(w)
<1> DEFINE a == Job(w).assignment
           row == Assignment(a)
           owners == {r.cred : r \in tx[w].loaded[row]}
<1>0. Stage(w) /\ RowsTyped(tx[w].loaded)  BY TypedBase
<1>1. tx[w].step = "remove"  BY DEF DeleteAssignment, At
<1>2. row \in DOMAIN tx[w].loaded  BY <1>0, <1>1 DEF Stage
<1>3. RowTyped(row, tx[w].loaded[row]) /\ row[1] = "assignment"
  BY <1>0, <1>2 DEF RowsTyped, Assignment
<1>4. owners \in SUBSET Cred /\ \A x, y \in owners : x = y  BY <1>3 DEF RowTyped
<1>5. PICK x : owners \subseteq {x}  BY <1>4, OneOwner
<1>6. tx' = Write(w, Only(Assignment(a), {}), defer_custom_metadata(owners), "commit", <<>>)
  BY DEF DeleteAssignment
<1>7. owners \subseteq {x, x} /\ \A r \in {} : r.cred \in owners  BY <1>5
<1> HIDE DEF a, row, owners
<1>8. QED  BY <1>1, <1>4, <1>6, <1>7 DEF Rewrites

\* Rewritten assignments doom nothing.
LEMMA FateRewrites ==
    ASSUME EstateInv, TypesInv, FateInv, NEW w \in Worker, Rewrites(w), Still, run' = run,
           tx[w].step \in {"assign", "rebind", "remove"}
    PROVE  FateInv'
<1>1. PICK a, records, l, x, y : \E owners \in SUBSET Cred :
        /\ owners \subseteq {x, y} /\ \A r \in records : r.cred \in owners
        /\ tx' = Write(w, Only(Assignment(a), records), defer_custom_metadata(owners), "commit", l)
  BY DEF Rewrites
<1>2. PICK owners \in SUBSET Cred :
        /\ owners \subseteq {x, y} /\ \A r \in records : r.cred \in owners
        /\ tx' = Write(w, Only(Assignment(a), records), defer_custom_metadata(owners), "commit", l)
  BY <1>1
<1> DEFINE h == defer_custom_metadata(owners)
           rows == Only(Assignment(a), records)
<1>3. h \in Seq(Calls) /\ \A i \in DOMAIN h : h[i].call # "destroy"
  <2>1. h \in Seq(Calls) /\ \A i \in DOMAIN h : h[i].call = "publish"  BY <1>2, Deferred
  <2>2. QED  BY <2>1
<1>4. DOMAIN rows \cap Drawn = {}  BY Undrawn DEF Assignment
<1>5. tx' = Write(w, rows, h, "commit", l)  BY <1>2
<1> HIDE DEF h, rows
<1>6. /\ "commit" \notin {"clear", "drop", "idle", "address", "parent", "service"} \cup After
      /\ tx[w].step \notin {"idle", "drop", "commit"} \cup Past
  BY DEF After, Past
<1>7. QED  BY <1>3, <1>4, <1>5, <1>6, LightWrite

\* The requests that begin, and the statements about assignments and addresses.
LEMMA FateLight ==
    ASSUME EstateInv, TypesInv, FateInv, NEW w \in Worker, run' = run, Still,
           \/ Create(w) \/ Assign(w) \/ _assign(w) \/ Reassign(w) \/ capture_previous_credential(w)
           \/ Rebind(w) \/ Unassign(w) \/ DeleteAssignment(w) \/ _lock_metadata(w)
           \/ quick_add_ssh(w) \/ _new_ip_address(w) \/ LockService(w) \/ Imported(w)
    PROVE  FateInv'
<1>1. CASE \/ Create(w) \/ Assign(w) \/ Reassign(w) \/ Unassign(w) \/ _lock_metadata(w)
           \/ quick_add_ssh(w)
  <2>1. tx[w].step = "idle"
    BY <1>1 DEF Create, Assign, Reassign, Unassign, _lock_metadata, quick_add_ssh, Ready, At
  <2>2. \/ tx' = Answered(w)
        \/ \E s \in {"prefix", "assign", "previous", "remove", "commit", "parent", "address"} :
              \E l, d : tx' = Open(w, s, l, d)
    BY <1>1, Zenon DEF Create, Assign, Reassign, Unassign, _lock_metadata, quick_add_ssh
  <2>3. \A s \in {"prefix", "assign", "previous", "remove", "commit", "parent", "address"} :
            s \notin {"clear", "drop", "idle"} \cup After
    BY DEF After
  <2>4. QED  BY <2>1, <2>2, <2>3, LightAnswer, LightOpen
<1>2. CASE _assign(w)
  <2>1. tx[w].step = "assign" /\ (tx' = Goto(w, "commit", <<>>) \/ Rewrites(w))
    BY <1>2, AssignRewrites
  <2>2. /\ "commit" \notin {"clear", "drop", "idle", "address", "parent", "service"} \cup After
        /\ tx[w].step \notin {"drop", "commit"} \cup Past
    BY <2>1 DEF After, Past
  <2>3. QED  BY <2>1, <2>2, LightGoto, FateRewrites
<1>3. CASE Rebind(w) \/ DeleteAssignment(w)
  BY <1>3, RebindRewrites, RemoveRewrites, FateRewrites
<1>4. CASE capture_previous_credential(w) \/ LockService(w)
  <2>1. \/ tx[w].step = "previous" /\ \E l, i : tx' = Captures(w, "rebind", l, i)
        \/ tx[w].step = "parent" /\ \E l : tx' = Goto(w, "service", l)
    BY <1>4, Zenon DEF capture_previous_credential, LockService, At, Captures
  <2>2. /\ "rebind" \notin {"clear", "drop", "idle", "address", "parent", "service"} \cup After
        /\ "service" \notin {"clear", "drop", "idle"} \cup After
        /\ tx[w].step \notin {"drop", "commit"} \cup Past
    BY <2>1 DEF After, Past
  <2>3. QED  BY <2>1, <2>2, LightGoto
<1>5. CASE _new_ip_address(w)
  <2>1. tx[w].step = "address"  BY <1>5 DEF _new_ip_address, At
  <2>2. \/ tx' = RolledBack(w, "failed")
        \/ \E l : tx' = Write(w, NoRows, <<>>, "parent", l)
        \/ \E l, a, r : tx' = Write(w, Only(Address(a), r), <<>>, "parent", l)
    BY <1>5, Zenon DEF _new_ip_address
  <2>3. /\ "parent" \notin {"clear", "drop", "idle"} \cup After
        /\ tx[w].step \notin {"idle", "drop", "commit"} \cup Past /\ tx[w].step \notin After
    BY <2>1 DEF After, Past
  <2>4. ASSUME NEW a, NEW r
        PROVE  /\ DOMAIN Only(Address(a), r) \cap Drawn = {}
               /\ \A row \in DOMAIN Only(Address(a), r) : row[1] = "address"
    <3>1. Address(a)[1] = "address"  BY DEF Address
    <3>2. DOMAIN Only(Address(a), r) = {Address(a)}  BY DEF Only
    <3>3. DOMAIN Only(Address(a), r) \cap Drawn = {}  BY <3>1, Undrawn
    <3>4. QED  BY <3>1, <3>2, <3>3
  <2>5. DOMAIN NoRows = {}  BY DEF NoRows
  <2>6. <<>> \in Seq(Calls) /\ \A i \in DOMAIN <<>> : <<>>[i].call # "destroy"  OBVIOUS
  <2>7. ASSUME NEW rows, NEW l, tx' = Write(w, rows, <<>>, "parent", l), DOMAIN rows \cap Drawn = {},
               \A row \in DOMAIN rows : row[1] = "address"
        PROVE  FateInv'
    <3>1. "parent" \in {"address", "parent", "service"} =>
              /\ tx[w].step \in {"address", "parent", "service"}
              /\ \A row \in DOMAIN rows : row[1] = "address"
      BY <2>1, <2>7
    <3>2. QED
      BY ONLY EstateInv, TypesInv, FateInv, w \in Worker, Still, run' = run, <2>3, <2>6, <2>7, <3>1,
         LightWrite
  <2>8. CASE tx' = RolledBack(w, "failed")  BY <2>3, <2>8, LightRollback
  <2>9. CASE \E l : tx' = Write(w, NoRows, <<>>, "parent", l)  BY <2>5, <2>7, <2>9
  <2>10. CASE \E l, a, r : tx' = Write(w, Only(Address(a), r), <<>>, "parent", l)
    BY <2>4, <2>7, <2>10
  <2>11. QED  BY <2>2, <2>8, <2>9, <2>10
<1>6. CASE Imported(w)  BY <1>6, LightAnswer DEF Imported, At
<1>7. QED  BY <1>1, <1>2, <1>3, <1>4, <1>5, <1>6

\* What a worker is still to destroy when a callback has been made.
LEMMA DoomTail ==
    ASSUME NEW w \in Worker, tx[w].hooks \in Seq(Calls), tx[w].hooks # <<>>,
           tx'[w].hooks = Tail(tx[w].hooks)
    PROVE  /\ \A c : Doomed(w, c)' => Doomed(w, c)
           /\ \A c : Doomed(w, c) =>
                Doomed(w, c)' \/ (Head(tx[w].hooks).call = "destroy" /\ Head(tx[w].hooks).cred = c)
<1> DEFINE h == tx[w].hooks
           t == Tail(tx[w].hooks)
<1>1. /\ Head(h) = h[1]
      /\ \A i \in DOMAIN t : i + 1 \in DOMAIN h /\ t[i] = h[i + 1]
      /\ \A i \in DOMAIN h : i > 1 => i - 1 \in DOMAIN t /\ t[i - 1] = h[i]
      /\ \A i \in DOMAIN h : i > 1 \/ i = 1
  BY TailSeq
<1>2. tx'[w].hooks = t /\ tx[w].hooks = h  OBVIOUS
<1> HIDE DEF h, t
<1>3. ASSUME NEW c, Doomed(w, c)' PROVE Doomed(w, c)
  <2>1. PICK i \in DOMAIN t : t[i].call = "destroy" /\ t[i].cred = c  BY <1>2, <1>3 DEF Doomed
  <2>2. i + 1 \in DOMAIN h /\ h[i + 1].call = "destroy" /\ h[i + 1].cred = c  BY <1>1, <2>1
  <2>3. QED  BY <1>2, <2>2 DEF Doomed
<1>4. ASSUME NEW c, Doomed(w, c), ~(Head(h).call = "destroy" /\ Head(h).cred = c)
      PROVE  Doomed(w, c)'
  <2>1. PICK i \in DOMAIN h : h[i].call = "destroy" /\ h[i].cred = c  BY <1>2, <1>4 DEF Doomed
  <2>2. i > 1  BY <1>1, <1>4, <2>1
  <2>3. i - 1 \in DOMAIN t /\ t[i - 1].call = "destroy" /\ t[i - 1].cred = c  BY <1>1, <2>1, <2>2
  <2>4. QED  BY <1>2, <2>3 DEF Doomed
<1>5. QED  BY <1>2, <1>3, <1>4

\* A callback has been made: the next one is ahead.
LEMMA FateCalled ==
    ASSUME EstateInv, TypesInv, FateInv, NEW w \in Worker, tx[w].step \in After,
           tx[w].hooks # <<>>, Others(w), jobs' = jobs, db' = db, run' = run, deleted' = deleted,
           tx'[w].step = "callbacks", DOMAIN tx'[w].own = {}, tx'[w].wants = <<>>,
           tx'[w].held = {}, tx'[w].hooks = Tail(tx[w].hooks), drift \subseteq drift',
           \A c \in Cred : c \in live' \ live => db[Credential(c)] # {},
           \A c \in Cred : c \in live \ live' => db[Credential(c)] = {},
           Head(tx[w].hooks).call = "destroy" =>
               Head(tx[w].hooks).cred \in drift' \/ Head(tx[w].hooks).cred \notin live'
    PROVE  FateInv'
<1>1. tx[w].hooks \in Seq(Calls)  BY TypedBase
<1>2. /\ \A c : Doomed(w, c)' => Doomed(w, c)
      /\ \A c : Doomed(w, c) =>
            Doomed(w, c)' \/ (Head(tx[w].hooks).call = "destroy" /\ Head(tx[w].hooks).cred = c)
  BY <1>1, DoomTail
<1>3. /\ Fated(w) /\ "callbacks" \in After /\ tx[w].step \in Past /\ "callbacks" \in Past
      /\ tx[w].step # "commit"
  BY DEF FateInv, After, Past
<1>4. Fated(w)'
  <2>1. Inserting(w)' /\ Removing(w)'  BY DEF Inserting, Removing
  <2>2. DoomOK(w)'
    <3>1. \A c \in Cred : Doomed(w, c) => db[Credential(c)] = {}  BY <1>3 DEF Fated, DoomOK
    <3>2. \A c \in Cred : Doomed(w, c)' => tx'[w].step \in After /\ db'[Credential(c)] = {}
      BY <1>2, <1>3, <3>1
    <3>3. QED  BY <3>2 DEF DoomOK, After, Credential
  <2>3. Ordered(w)' /\ AddressFirst(w)'  BY DEF Ordered, AddressFirst
  <2>4. QED  BY <2>1, <2>2, <2>3 DEF Fated
<1>5. \A row \in Drawn : Draft(w, row)' => Draft(w, row)  BY <1>3, DraftsFall
<1>6. \A c \in Cred : Deleting(w, c)' => Deleting(w, c)  BY <1>2 DEF Deleting
<1>7. \A c \in Cred : tx[w].step \in After /\ Doomed(w, c) =>
          c \in drift' \/ c \notin live' \/ (tx'[w].step \in After /\ Doomed(w, c)')
  BY <1>2, <1>3
<1>8. \A v \in Worker \ {w} : run'[v] = run[v]  OBVIOUS
<1>9. \A c \in Cred : Deleting(w, c)' => Deleting(w, c) \/ db[Credential(c)] # {}  BY <1>6
<1>10. QED  BY <1>4, <1>5, <1>7, <1>8, <1>9, FateStep

\* The engine authentication material.
LEMMA FateIdentity ==
    ASSUME EstateInv, TypesInv, IdentityInv, FateInv, NEW w \in Worker, IdentityWork(w),
           UNCHANGED graphVars
    PROVE  FateInv'
<1>1. UNCHANGED <<jobs, db>> /\ Others(w)  BY TypedIdentity
<1>2. Still /\ run' = run  BY <1>1 DEF Still, graphVars
<1>3. CASE Rotate(w) \/ Reencrypt(w) \/ Withdraw(w)
  <2>1. tx[w].step = "idle"  BY <1>3 DEF Rotate, Reencrypt, Withdraw, Ready, At
  <2>2. \/ tx' = Answered(w)
        \/ \E s \in {"merge", "withdraw"} : \E l, d : tx' = Open(w, s, l, d)
    BY <1>3, Zenon DEF Rotate, Reencrypt, Withdraw
  <2>3. \A s \in {"merge", "withdraw"} : s \notin {"clear", "drop", "idle"} \cup After
    BY DEF After
  <2>4. QED  BY <1>2, <2>1, <2>2, <2>3, LightAnswer, LightOpen
<1>4. CASE save(w) \/ DeleteMaterial(w)
  <2>1. tx[w].step \in {"merge", "withdraw"}  BY <1>4 DEF save, DeleteMaterial, At
  <2>2. \/ tx' = RolledBack(w, "failed")
        \/ \E r, n : tx' = Write(w, Only(Material, r), <<Invalidate(n)>>, "commit", <<>>)
    BY <1>4, Zenon DEF save, DeleteMaterial
  <2>3. /\ "commit" \notin {"clear", "drop", "idle", "address", "parent", "service"} \cup After
        /\ tx[w].step \notin {"idle", "drop", "commit"} \cup Past /\ tx[w].step \notin After
    BY <2>1 DEF After, Past
  <2>4. \A r : DOMAIN Only(Material, r) \cap Drawn = {}  BY Undrawn DEF Material
  <2>5. ASSUME NEW r, NEW n, tx' = Write(w, Only(Material, r), <<Invalidate(n)>>, "commit", <<>>)
        PROVE  FateInv'
    <3> DEFINE d == Invalidate(n)
               h == <<d>>
    <3>1. d.call # "destroy"  BY DEF Invalidate
    <3>2. tx' = Write(w, Only(Material, r), h, "commit", <<>>)  BY <2>5
    <3> HIDE DEF d
    <3>3. h \in Seq({d}) /\ \A i \in DOMAIN h : h[i].call # "destroy"  BY <3>1
    <3> HIDE DEF h
    <3>4. "commit" \in {"address", "parent", "service"} =>
              /\ tx[w].step \in {"address", "parent", "service"}
              /\ \A row \in DOMAIN Only(Material, r) : row[1] = "address"
      OBVIOUS
    <3>5. QED
      BY ONLY EstateInv, TypesInv, FateInv, w \in Worker, <1>2, <2>3, <2>4, <3>2, <3>3, <3>4,
         LightWrite
  <2>6. QED  BY <1>2, <2>2, <2>3, <2>5, LightRollback
<1>5. CASE \/ get_backend(w) \/ refresh_auth_material(w) \/ Reload(w) \/ _get_client(w) \/ Keep(w)
           \/ Present(w)
  <2>1. tx[w].step \in {"idle"} \cup Calling
    BY <1>5 DEF get_backend, refresh_auth_material, Reload, _get_client, Keep, Present, Ready, At,
       Calling
  <2>2. \/ tx' = Answered(w)
        \/ \E s \in {"client", "reload", "present", "keep", "refresh", "finish"} :
              (\E l : tx' = Goto(w, s, l)) \/ (\E d : tx' = Loads(w, s, d))
    BY <1>5, Zenon DEF get_backend, refresh_auth_material, Reload, _get_client, Keep, Present, Loads
  <2>3. \A s \in {"client", "reload", "present", "keep", "refresh", "finish"} :
            s \notin {"clear", "drop", "idle", "address", "parent", "service"} \cup After
    BY DEF After
  <2>4. tx[w].step \notin {"drop", "commit"} \cup Past /\ tx[w].step \in {"idle", "secret"} \cup Calling
    BY <2>1 DEF Calling, Past
  <2>5. QED  BY <1>2, <2>2, <2>3, <2>4, LightAnswer, LightGoto
<1>6. CASE invalidate_auth_material_sessions(w)
  <2>1. /\ tx[w].step = "callbacks" /\ tx[w].hooks # <<>> /\ tx' = Unhooks(w)
        /\ Head(tx[w].hooks).call = "invalidate"
    BY <1>6 DEF invalidate_auth_material_sessions, At, Unhooks
  <2>2. ShapeInv /\ tx[w].step \in After /\ tx[w].step \notin Writing
    BY <2>1, TypedBase DEF After, Writing
  <2>3. DOMAIN tx[w].own = {}  BY <2>2, TypedBase
  <2>4. tx[w].wants = <<>> /\ tx[w].held = {}  BY <2>1 DEF FateInv, Fated, Ordered
  <2>5. /\ tx'[w].step = "callbacks" /\ DOMAIN tx'[w].own = {} /\ tx'[w].wants = <<>>
        /\ tx'[w].held = {} /\ tx'[w].hooks = Tail(tx[w].hooks)
    BY <2>1, <2>2, <2>3, <2>4, HooksFields
  <2>6. QED  BY <1>1, <1>2, <2>1, <2>2, <2>5, FateCalled DEF Still
<1>7. QED  BY <1>3, <1>4, <1>5, <1>6 DEF IdentityWork

--------------------------------------------------------------------------------
(***************************************************************************)
(* Insertions and deletions.                                               *)
(***************************************************************************)

\* A row is inserted under the key drawn for it, or a stored service is updated.
LEMMA InsertStep ==
    ASSUME EstateInv, TypesInv, FateInv, NEW w \in Worker, Still, run' = run,
           tx[w].step \notin {"idle", "drop", "commit"} \cup Past,
           NEW s, s \notin {"clear", "drop", "idle", "address", "parent", "service"} \cup After,
           NEW row, NEW r, NEW l, tx' = Write(w, Only(row, {r}), <<>>, s, l),
           Placed(w, row) \/ (row[1] = "service" /\ db[row] # {})
    PROVE  FateInv'
<1>1. tx[w].step \notin {"drop", "commit"} \cup After  BY DEF After, Past
<1>2. ShapeInv /\ tx[w].hooks = <<>>  BY <1>1, LightBase
<1>3. Others(w) /\ tx'[w].step = s /\ tx'[w].own = Over(Only(row, {r}), tx[w].own) /\ tx'[w].hooks = <<>>
  <2>1. ShapeInv  BY <1>2
  <2> DEFINE rows == Only(row, {r})
             h == <<>>
  <2>2. tx' = Write(w, rows, h, s, l)  OBVIOUS
  <2> HIDE DEF rows, h
  <2>3. /\ Others(w) /\ tx'[w].step = s /\ tx'[w].own = Over(rows, tx[w].own)
        /\ tx'[w].hooks = tx[w].hooks \o h
    BY ONLY <2>1, <2>2, w \in Worker, WriteFields
  <2>4. <<>> \o <<>> = <<>>  OBVIOUS
  <2>5. QED  BY ONLY <1>2, <2>3, <2>4 DEF rows, h
<1>4. /\ DOMAIN tx'[w].own = {row} \cup DOMAIN tx[w].own
      /\ \A x \in DOMAIN tx'[w].own : tx'[w].own[x] = IF x = row THEN {r} ELSE tx[w].own[x]
  BY ONLY <1>3 DEF Over, Only
<1>5. /\ \A c \in Cred : ~Doomed(w, c)
      /\ \A c \in Cred : ~Doomed(w, c)'
  <2>1. tx[w].step \notin {"commit"} \cup After  BY <1>1
  <2>2. QED  BY <1>3, <2>1, NoDoom DEF Doomed
<1>6. jobs' = jobs /\ db' = db /\ deleted' = deleted /\ drift' = drift /\ live' = live  BY DEF Still
<1>7. \A x : Placed(w, x)' <=> Placed(w, x)  BY <1>6 DEF Placed, Position, Has, Job
<1>8. Fated(w)  BY DEF FateInv
<1>9. Inserting(w)'
  <2>1. \A x \in DOMAIN tx'[w].own \cap Drawn :
           tx'[w].own[x] # {} => Placed(w, x) \/ (x[1] = "service" /\ db[x] # {})
    BY <1>4, <1>8 DEF Fated, Inserting
  <2>2. QED  BY <1>6, <1>7, <2>1 DEF Inserting, Drawn, Credential, Service
<1>10. Removing(w)'
  <2>1. \A x \in DOMAIN tx[w].own \cap Drawn : tx[w].own[x] # {}
    BY <1>5, <1>8 DEF Fated, Removing
  <2>2. \A x \in DOMAIN tx'[w].own \cap Drawn : tx'[w].own[x] # {}  BY <1>4, <2>1
  <2>3. QED  BY <2>2 DEF Removing, Drawn, Credential, Service
<1>11. Fated(w)'
  <2>1. DoomOK(w)'  BY <1>5 DEF DoomOK
  <2>2. Ordered(w)' /\ AddressFirst(w)'  BY <1>3 DEF Ordered, AddressFirst, After
  <2>3. QED  BY <1>9, <1>10, <2>1, <2>2 DEF Fated
<1>12. \A x \in Drawn : Draft(w, x)' => Draft(w, x)  BY <1>3, <1>6, DraftsFall
<1>13. \A c \in Cred : ~Deleting(w, c)'  BY <1>3, <1>5 DEF Deleting
<1>14. QED  BY <1>3, <1>5, <1>6, <1>11, <1>12, <1>13, FateStep

\* A stamped credential is the one its request drew.
LEMMA FateStamp ==
    ASSUME EstateInv, TypesInv, FateInv, NEW w \in Worker, Stamp(w), Still, run' = run
    PROVE  FateInv'
<1> DEFINE row == Credential(Item(w).cred)
<1>0. Stage(w)  BY TypedBase
<1>1. tx[w].step = "locked" /\ (Has(w, "create") \/ Has(w, "quickadd") \/ Has(w, "import"))
  BY DEF Stamp, At
<1>2. \/ tx' = RolledBack(w, "failed")
      \/ \E r : \E s \in {"commit", "assign"} : tx' = Write(w, Only(row, {r}), <<>>, s, <<>>)
  BY Zenon DEF Stamp
<1>3. jobs[w] # <<>>  BY <1>1 DEF Has
<1>4. Placed(w, row)
  <2>1. CASE Has(w, "create")
    <3>1. ~Has(w, "import") /\ Job(w).kind = "create"  BY <2>1 DEF Has
    <3>2. Position(w) = 1 /\ Item(w) = Job(w) /\ Places(Job(w)) = {1}
      BY <3>1 DEF Position, Item, Places
    <3>3. QED  BY <1>3, <3>1, <3>2 DEF Placed, Inserts
  <2>2. CASE Has(w, "quickadd")
    <3>1. ~Has(w, "import") /\ Job(w).kind = "quickadd"  BY <2>2 DEF Has
    <3>2. Position(w) = 1 /\ Item(w) = Job(w) /\ Places(Job(w)) = {1}
      BY <3>1 DEF Position, Item, Places
    <3>3. ~Job(w).existing  BY <1>0, <1>1, <2>2 DEF Stage
    <3>4. QED  BY <1>3, <3>1, <3>2, <3>3 DEF Placed, Inserts
  <2>3. CASE Has(w, "import")
    <3>1. Importing(w) /\ Job(w).kind = "import"  BY <1>0, <1>1, <2>3 DEF Stage, Has
    <3>2. run[w].at \in 1..Len(Job(w).items) /\ Item(w) = Job(w).items[run[w].at]
      BY <3>1, ItemTyped
    <3>3. Position(w) = run[w].at /\ Places(Job(w)) = 1..Len(Job(w).items)
      BY <2>3, <3>1 DEF Position, Places
    <3>4. QED  BY <1>3, <3>1, <3>2, <3>3 DEF Placed, Inserts
  <2>4. QED  BY <1>1, <2>1, <2>2, <2>3
<1>5. /\ tx[w].step \notin {"idle", "drop", "commit"} \cup Past /\ tx[w].step \notin After
      /\ \A s \in {"commit", "assign"} :
            s \notin {"clear", "drop", "idle", "address", "parent", "service"} \cup After
  BY <1>1 DEF After, Past
<1> HIDE DEF row
<1>6. ASSUME NEW r, NEW s \in {"commit", "assign"}, tx' = Write(w, Only(row, {r}), <<>>, s, <<>>)
      PROVE  FateInv'
  <2>1. s \notin {"clear", "drop", "idle", "address", "parent", "service"} \cup After  BY <1>5
  <2>2. QED
    BY ONLY EstateInv, TypesInv, FateInv, w \in Worker, Still, run' = run, <1>4, <1>5, <1>6, <2>1,
       InsertStep
<1>7. QED  BY <1>2, <1>5, <1>6, LightRollback

\* The service of quick add is there, or is the one its request drew.
LEMMA FateService ==
    ASSUME EstateInv, TypesInv, FateInv, NEW w \in Worker, _get_or_create_service(w), Still, run' = run
    PROVE  FateInv'
<1> DEFINE services == ServicesOf(w)
           row == IF services = {} THEN Service(Job(w).service) ELSE CHOOSE s \in services : TRUE
<1>0. Kinds(w, tx[w].step) /\ AddressFirst(w)  BY TypedBase DEF FateInv, Fated
<1>1. tx[w].step = "service" /\ Has(w, "quickadd")
  BY <1>0 DEF _get_or_create_service, At, Kinds
<1>2. \/ tx' = RolledBack(w, "failed")
      \/ \E r, l : \E s \in {"assign", "prefix"} : tx' = Write(w, Only(row, {r}), <<>>, s, l)
  BY Zenon DEF _get_or_create_service
<1>3. Placed(w, row) \/ (row[1] = "service" /\ db[row] # {})
  <2>1. CASE services = {}
    <3>1. jobs[w] # <<>> /\ Job(w).kind = "quickadd" /\ ~Has(w, "import")  BY <1>1 DEF Has
    <3>2. Position(w) = 1 /\ Places(Job(w)) = {1}  BY <3>1 DEF Position, Places
    <3>3. QED  BY <2>1, <3>1, <3>2 DEF Placed, Inserts
  <2>2. CASE services # {}
    <3>1. row \in services  BY <2>2
    <3> HIDE DEF row
    <3>2. row[1] = "service" /\ Seen(w, row) # {}  BY <3>1 DEF ServicesOf, Table
    <3>3. row \notin DOMAIN tx[w].own  BY <1>0, <1>1, <3>2 DEF AddressFirst
    <3>4. QED  BY <3>2, <3>3 DEF Seen
  <2>3. QED  BY <2>1, <2>2
<1>4. /\ tx[w].step \notin {"idle", "drop", "commit"} \cup Past /\ tx[w].step \notin After
      /\ \A s \in {"assign", "prefix"} :
            s \notin {"clear", "drop", "idle", "address", "parent", "service"} \cup After
  BY <1>1 DEF After, Past
<1> HIDE DEF row, services
<1>5. ASSUME NEW r, NEW l, NEW s \in {"assign", "prefix"}, tx' = Write(w, Only(row, {r}), <<>>, s, l)
      PROVE  FateInv'
  <2>1. s \notin {"clear", "drop", "idle", "address", "parent", "service"} \cup After  BY <1>4
  <2>2. QED
    BY ONLY EstateInv, TypesInv, FateInv, w \in Worker, Still, run' = run, <1>3, <1>4, <1>5, <2>1,
       InsertStep
<1>6. QED  BY <1>2, <1>4, <1>5, LightRollback

\* The importer is between two secrets.
LEMMA BetweenStep ==
    ASSUME FateInv, NEW w \in Worker, Others(w), Still, \A v \in Worker \ {w} : run'[v] = run[v],
           tx[w].step \notin {"commit"} \cup After, tx'[w].step = "secret",
           DOMAIN tx'[w].own = {}, tx'[w].hooks = <<>>,
           \A row \in Drawn : Draft(w, row)' => Draft(w, row)
    PROVE  FateInv'
<1>1. \A c \in Cred : ~Doomed(w, c)'  BY DEF Doomed
<1>2. \A c \in Cred : ~Doomed(w, c)  BY NoDoom
<1>3. Fated(w)'
  <2>1. Inserting(w)' /\ Removing(w)'  BY DEF Inserting, Removing
  <2>2. DoomOK(w)'  BY <1>1 DEF DoomOK
  <2>3. Ordered(w)' /\ AddressFirst(w)'  BY DEF Ordered, AddressFirst
  <2>4. QED  BY <2>1, <2>2, <2>3 DEF Fated
<1>4. \A c \in Cred : ~Deleting(w, c)'  BY <1>1 DEF Deleting
<1>5. QED  BY <1>2, <1>3, <1>4, FateStep DEF Still

\* Its position goes on.
LEMMA DraftsGoOn ==
    ASSUME TypesInv, NEW w \in Worker, jobs' = jobs, Has(w, "import"), run'[w].at = run[w].at + 1,
           tx'[w].step # "idle"
    PROVE  \A row : Draft(w, row)' => Draft(w, row)
<1>1. run[w].at \in Nat  BY DEF TypesInv, RunTyped
<1>2. /\ Position(w) = run[w].at /\ Position(w)' = run[w].at + 1
  BY DEF Position, Has, Job
<1>3. jobs[w] # <<>> /\ Job(w) = jobs[w][1] /\ Job(w).kind = "import"
  BY JobTyped DEF Has
<1> SUFFICES ASSUME NEW row, Draft(w, row)' PROVE Draft(w, row)
  OBVIOUS
<1>4. PICK i \in DOMAIN jobs[w] : \E k \in Places(jobs[w][i]) :
         /\ Inserts(jobs[w][i], k, row)
         /\ \/ i > 1 \/ k > run[w].at + 1
            \/ k = run[w].at + 1 /\ tx'[w].step \notin Past
  BY <1>2 DEF Draft, Places, Inserts, Past
<1>5. PICK k \in Places(jobs[w][i]) :
         /\ Inserts(jobs[w][i], k, row)
         /\ i > 1 \/ k > run[w].at + 1 \/ k = run[w].at + 1
  BY <1>4
<1>6. i > 1 \/ k > run[w].at
  <2>1. CASE i > 1  BY <2>1
  <2>2. CASE ~(i > 1)
    <3>1. i = 1
      <4>1. jobs[w] \in Seq(Range(jobs[w]))  BY DEF TypesInv, JobsTyped
      <4>2. QED  BY <2>2, <4>1
    <3>2. k \in 1..Len(Job(w).items)  BY <1>3, <3>1 DEF Places
    <3>3. QED  BY <1>1, <1>5, <2>2, <3>2
  <2>3. QED  BY <2>1, <2>2
<1>7. QED  BY <1>2, <1>5, <1>6 DEF Draft

\* The importer's steps between two secrets.
LEMMA FateImport ==
    ASSUME EstateInv, TypesInv, FateInv, NEW w \in Worker, UNCHANGED <<db, live, drift, deleted>>,
           GraphWork(w), import_secrets(w) \/ ImportSecret(w) \/ NextSecret(w)
    PROVE  FateInv'
<1>0. /\ jobs' = jobs /\ Still /\ \A v \in Worker \ {w} : run'[v] = run[v]
      /\ ShapeInv /\ RunTyped
  BY GraphReads, TypedProgress DEF EstateInv, TypesInv, Still
<1>1. CASE import_secrets(w)
  <2>1. tx[w].step = "idle" /\ tx' = Goto(w, "secret", <<>>)  BY <1>1 DEF import_secrets, Ready, At
  <2>2. tx[w].step \notin {"drop", "commit"} \cup After \cup Writing  BY <2>1 DEF After, Writing
  <2>3. tx[w].hooks = <<>> /\ DOMAIN tx[w].own = {}  BY <2>2, LightBase
  <2>4. Others(w) /\ tx'[w].step = "secret" /\ DOMAIN tx'[w].own = {} /\ tx'[w].hooks = <<>>
    BY <1>0, <2>1, <2>3, GotoFields
  <2>5. \A row \in Drawn : Draft(w, row)' => Draft(w, row)
    BY <1>0, <2>1 DEF Draft, Places, Inserts
  <2>6. QED  BY <1>0, <2>2, <2>4, <2>5, BetweenStep
<1>2. CASE ImportSecret(w)
  <2>1. tx[w].step = "secret" /\ Importing(w)  BY <1>2 DEF ImportSecret, At
  <2>2. tx[w].step \notin {"drop", "commit"} \cup After \cup Writing  BY <2>1 DEF After, Writing
  <2>3. tx[w].hooks = <<>> /\ DOMAIN tx[w].own = {}  BY <2>2, LightBase
  <2>4. CASE tx' = Open(w, "prefix", <<Singleton>>, NoRows) /\ run' = run
    <3>1. /\ Others(w) /\ tx'[w].step = "prefix" /\ tx'[w].own = tx[w].own
          /\ tx'[w].hooks = tx[w].hooks
      BY <1>0, <2>4, BeginFields
    <3>2. "prefix" \notin {"clear", "drop", "idle", "address", "parent", "service"} \cup After
          /\ tx[w].step \notin Past
      BY <2>1 DEF After, Past
    <3>3. QED  BY <1>0, <2>2, <2>3, <2>4, <3>1, <3>2, LightStep
  <2>5. CASE tx' = tx /\ \E r : run' = [run EXCEPT ![w].at = @ + 1, ![w].reported = r]
    <3>1. PICK r : run' = [run EXCEPT ![w].at = @ + 1, ![w].reported = r]  BY <2>5
    <3>2. run' = [run EXCEPT ![w] = [known |-> run[w].known, at |-> run[w].at + 1, reported |-> r]]
      BY <1>0, <3>1, Further
    <3>3. run'[w].at = run[w].at + 1  BY <1>0, <3>2 DEF RunTyped
    <3>4. Has(w, "import") /\ tx'[w].step # "idle"  BY <2>1, <2>5 DEF Importing
    <3>5. \A row \in Drawn : Draft(w, row)' => Draft(w, row)
      BY <1>0, <3>3, <3>4, DraftsGoOn
    <3>6. Others(w) /\ tx'[w].step = "secret" /\ DOMAIN tx'[w].own = {} /\ tx'[w].hooks = <<>>
      BY <2>1, <2>3, <2>5 DEF Others
    <3>7. QED  BY <1>0, <2>2, <3>5, <3>6, BetweenStep
  <2>6. QED
    <3>1. \/ tx' = Open(w, "prefix", <<Singleton>>, NoRows) /\ run' = run
          \/ tx' = tx /\ \E r : run' = [run EXCEPT ![w].at = @ + 1, ![w].reported = r]
      BY <1>2, Zenon DEF ImportSecret
    <3>2. QED  BY <2>4, <2>5, <3>1
<1>3. CASE NextSecret(w)
  <2>1. /\ Importing(w) /\ tx[w].step \in {"finish", "failed"} /\ tx' = Resets(w, "secret")
        /\ \E k, r : run' = [run EXCEPT ![w] = [known |-> k, at |-> run[w].at + 1, reported |-> r]]
    BY <1>3, Zenon DEF NextSecret, Resets
  <2>2. PICK k, r : run' = [run EXCEPT ![w] = [known |-> k, at |-> run[w].at + 1, reported |-> r]]
    BY <2>1
  <2>3. run'[w].at = run[w].at + 1  BY <1>0, <2>2 DEF RunTyped
  <2>4. /\ Others(w) /\ tx'[w].step = "secret" /\ tx'[w].own = NoRows /\ tx'[w].hooks = <<>>
    BY <1>0, <2>1, ResetFields
  <2>5. Has(w, "import") /\ DOMAIN NoRows = {} /\ tx[w].step \notin {"commit"} \cup After
    BY <2>1 DEF Importing, NoRows, After
  <2>6. \A row \in Drawn : Draft(w, row)' => Draft(w, row)
    BY <1>0, <2>3, <2>4, <2>5, DraftsGoOn
  <2>7. QED  BY <1>0, <2>4, <2>5, <2>6, BetweenStep
<1>4. QED  BY <1>1, <1>2, <1>3

\* A deletion waits for the projection lock first.
LEMMA FateDelete ==
    ASSUME EstateInv, TypesInv, FateInv, NEW w \in Worker, Delete(w), Still, run' = run
    PROVE  FateInv'
<1> DEFINE c == Job(w).cred
           rows == Collected(c)
           l == <<Projection(c)>> \o SetToSeq(rows)
           d == [r \in rows |-> db[r]]
<1>0. ShapeInv /\ RowsTyped(db)  BY TypedBase
<1>1. tx[w].step = "idle" /\ Has(w, "delete")  BY DEF Delete, Ready, At
<1>2. tx[w].step \notin {"drop", "commit"} \cup After \cup Writing  BY <1>1 DEF After, Writing
<1>3. tx[w].hooks = <<>> /\ DOMAIN tx[w].own = {}  BY <1>2, LightBase
<1>4. \/ tx' = Answered(w)
      \/ db[Credential(c)] # {} /\ tx' = Open(w, "clear", l, d)
  BY DEF Delete
<1>5. l # <<>> /\ Head(l) = Projection(c)
  <2>1. rows \subseteq Filled(db)  BY DEF Collected, Filled
  <2>2. IsFiniteSet(rows)  BY <1>0, <2>1, FS_Subset DEF RowsTyped
  <2> HIDE DEF rows
  <2>3. SetToSeq(rows) \in Seq(rows)  BY <2>2, SetToSeqLists
  <2> DEFINE s == SetToSeq(rows)
             p == Projection(c)
  <2> HIDE DEF s, p
  <2>4. s \in Seq(rows)  BY <2>3 DEF s
  <2>5. <<p>> \o s # <<>> /\ Head(<<p>> \o s) = p  BY <2>4
  <2>6. QED  BY <2>5 DEF s, p
<1> HIDE DEF l, d
<1>6. ASSUME db[Credential(c)] # {}, tx' = Open(w, "clear", l, d) PROVE FateInv'
  <2>1. /\ Others(w) /\ tx'[w].step = "clear" /\ tx'[w].own = tx[w].own /\ tx'[w].wants = l
        /\ tx'[w].hooks = tx[w].hooks
    BY <1>0, <1>6, BeginFields
  <2>2. \A x \in Cred : ~Doomed(w, x)'  BY <1>3, <2>1 DEF Doomed
  <2>3. Job(w)' = Job(w) /\ jobs' = jobs  BY DEF Still, Job
  <2>4. Fated(w)'
    <3>1. Inserting(w)' /\ Removing(w)'  BY <1>3, <2>1 DEF Inserting, Removing
    <3>2. DoomOK(w)'  BY <2>2 DEF DoomOK
    <3>3. Ordered(w)'  BY <1>5, <2>1, <2>3 DEF Ordered, Projection
    <3>4. AddressFirst(w)'  BY <2>1 DEF AddressFirst
    <3>5. QED  BY <3>1, <3>2, <3>3, <3>4 DEF Fated
  <2>5. \A row \in Drawn : Draft(w, row)' => Draft(w, row)  BY <1>1, <2>3, DraftsFall
  <2>6. \A x \in Cred : Deleting(w, x)' => db[Credential(x)] # {}
    BY <1>6, <2>2, <2>3 DEF Deleting
  <2>7. \A x \in Cred : ~(tx[w].step \in After)  BY <1>2
  <2>8. QED  BY <2>1, <2>4, <2>5, <2>6, <2>7, FateStep DEF Still
<1>7. QED  BY <1>1, <1>4, <1>6, LightAnswer

\* The lock is held when the collected rows are deleted.
LEMMA FateClear ==
    ASSUME EstateInv, TypesInv, FateInv, NEW w \in Worker, Clear(w), Still, run' = run
    PROVE  FateInv'
<1> DEFINE rows == DOMAIN tx[w].loaded
           c == Job(w).cred
           owners == IF rows = {} THEN {} ELSE {c}
           cleared == [r \in rows |-> {}]
           h == defer_custom_metadata(owners)
<1>0. ShapeInv /\ Kinds(w, tx[w].step) /\ StepOK(w)  BY TypedBase DEF EstateInv
<1>1. tx[w].step = "clear" /\ Has(w, "delete") /\ tx[w].wants = <<>>
  BY <1>0 DEF Clear, At, Kinds
<1>2. tx[w].step \notin {"drop", "commit"} \cup After \cup Writing /\ tx[w].step \notin Past
  BY <1>1 DEF After, Writing, Past
<1>3. tx[w].hooks = <<>> /\ DOMAIN tx[w].own = {}  BY <1>2, LightBase
<1>4. Projection(c) \in tx[w].held
  <2>1. Ordered(w)  BY DEF FateInv, Fated
  <2>2. QED  BY <1>1, <2>1 DEF Ordered
<1>5. c \in Cred
  <2>1. Request(Job(w), db)  BY <1>1, JobTyped DEF Has
  <2>2. QED  BY <1>1, <2>1 DEF Has, Request
<1>6. h \in Seq(Calls) /\ \A i \in DOMAIN h : h[i].call = "publish"
  <2>1. owners \in SUBSET Cred /\ owners \subseteq {c, c}  BY <1>5
  <2> HIDE DEF owners, c
  <2>2. QED  BY <2>1, Deferred
<1>7. DOMAIN cleared = rows /\ DOMAIN cleared \cap Drawn = {}
  <2>1. \A row \in rows : row[1] = "assignment"  BY <1>0, <1>1 DEF StepOK
  <2>2. \A row \in Drawn : row[1] # "assignment"  BY DEF Drawn, Credential, Service
  <2>3. QED  BY <2>1, <2>2
<1>8. tx' = Write(w, cleared, h, "drop", <<Credential(c)>>)  BY DEF Clear
<1> HIDE DEF cleared, h, rows, owners
<1>9. /\ Others(w) /\ tx'[w].step = "drop" /\ tx'[w].own = Over(cleared, tx[w].own)
      /\ tx'[w].held = tx[w].held /\ tx'[w].hooks = tx[w].hooks \o h
  <2>1. ShapeInv  BY <1>0
  <2>2. QED  BY ONLY <2>1, <1>8, w \in Worker, WriteFields
<1>10. tx'[w].hooks = h
  <2>1. <<>> \o h = h  BY <1>6
  <2>2. QED  BY ONLY <1>3, <1>9, <2>1
<1>11. DOMAIN tx'[w].own \cap Drawn = {}  BY <1>3, <1>7, <1>9 DEF Over
<1>12. /\ \A x \in Cred : ~Doomed(w, x)'
       /\ \A x \in Cred : ~Doomed(w, x)
  <2>1. \A i \in DOMAIN tx'[w].hooks : tx'[w].hooks[i].call # "destroy"  BY <1>6, <1>10
  <2>2. QED  BY <1>3, <2>1 DEF Doomed
<1>13. Job(w)' = Job(w) /\ jobs' = jobs  BY DEF Still, Job
<1>14. Fated(w)'
  <2>1. Inserting(w)' /\ Removing(w)'
    BY <1>11 DEF Inserting, Removing, Drawn, Credential, Service
  <2>2. DoomOK(w)'  BY <1>12 DEF DoomOK
  <2>3. Ordered(w)'  BY <1>4, <1>9, <1>13 DEF Ordered, Projection
  <2>4. AddressFirst(w)'  BY <1>9 DEF AddressFirst
  <2>5. QED  BY <2>1, <2>2, <2>3, <2>4 DEF Fated
<1>15. \A row \in Drawn : Draft(w, row)' => Draft(w, row)  BY <1>2, <1>9, <1>13, DraftsFall
<1>16. \A x \in Cred : Deleting(w, x)' => Deleting(w, x)
  BY <1>1, <1>12, <1>13 DEF Deleting, Has
<1>17. tx[w].step \notin After  BY <1>2
<1>18. QED  BY <1>9, <1>14, <1>15, <1>16, <1>17, FateStep DEF Still

\* The credential goes under the lock, and its material is to go.
LEMMA FateDestroy ==
    ASSUME EstateInv, TypesInv, FateInv, NEW w \in Worker, destroy_material_on_delete(w), Still,
           run' = run
    PROVE  FateInv'
<1> PICK c : c = Job(w).cred  OBVIOUS
<1> DEFINE rows == Only(Credential(c), {})
           h == tx[w].hooks
           d == Destroy(c)
           new == <<d>>
<1>0. ShapeInv /\ Kinds(w, tx[w].step) /\ h \in Seq(Calls)  BY TypedBase
<1>1. tx[w].step = "drop" /\ Has(w, "delete")  BY <1>0 DEF destroy_material_on_delete, At, Kinds
<1>2. tx[w].step \notin {"commit"} \cup After /\ tx[w].step \notin Past  BY <1>1 DEF After, Past
<1>3. Projection(c) \in tx[w].held /\ Fated(w)  BY <1>1 DEF FateInv, Fated, Ordered
<1>4. c \in Cred
  <2>1. Request(Job(w), db)  BY <1>1, JobTyped DEF Has
  <2>2. QED  BY <1>1, <2>1 DEF Has, Request
<1>5. tx' = Write(w, rows, new, "commit", <<>>)  BY DEF destroy_material_on_delete
<1>6. /\ DOMAIN rows = {Credential(c)} /\ rows[Credential(c)] = {}
      /\ d.call = "destroy" /\ d.cred = c
  BY DEF Only, Destroy
<1> HIDE DEF rows, d, new
<1>7. /\ Others(w) /\ tx'[w].step = "commit" /\ tx'[w].own = Over(rows, tx[w].own)
      /\ tx'[w].held = tx[w].held /\ tx'[w].hooks = h \o new
  <2>1. ShapeInv  BY <1>0
  <2>2. QED  BY ONLY <2>1, <1>5, w \in Worker, WriteFields DEF h
<1>8. /\ DOMAIN tx'[w].own = {Credential(c)} \cup DOMAIN tx[w].own
      /\ \A x \in DOMAIN tx'[w].own :
            tx'[w].own[x] = IF x = Credential(c) THEN {} ELSE tx[w].own[x]
  BY ONLY <1>6, <1>7 DEF Over
<1>9. /\ DOMAIN (h \o <<d>>) = 1..(Len(h) + 1) /\ (h \o <<d>>)[Len(h) + 1] = d
      /\ \A i \in 1..Len(h) : (h \o <<d>>)[i] = h[i]
      /\ DOMAIN h = 1..Len(h) /\ Len(h) \in Nat
  <2> HIDE DEF h
  <2>1. QED  BY <1>0
<1>10. \A x \in Cred : ~Doomed(w, x)  BY <1>2, NoDoom
<1>11. Doomed(w, c)' /\ \A x \in Cred : Doomed(w, x)' => x = c
  <2> DEFINE k == h \o <<d>>
  <2>1. tx'[w].hooks = k  BY <1>7 DEF new
  <2>2. /\ DOMAIN k = 1..(Len(h) + 1) /\ k[Len(h) + 1] = d
        /\ \A i \in 1..Len(h) : k[i] = h[i]
    BY <1>9
  <2> HIDE DEF k
  <2>3. Len(h) + 1 \in DOMAIN k  BY <1>9, <2>2
  <2>4. Doomed(w, c)'  BY <1>6, <2>1, <2>2, <2>3 DEF Doomed
  <2>5. ASSUME NEW x \in Cred, Doomed(w, x)' PROVE x = c
    <3>1. PICK i \in DOMAIN k : k[i].call = "destroy" /\ k[i].cred = x  BY <2>1, <2>5 DEF Doomed
    <3>2. CASE i \in 1..Len(h)  BY <1>9, <1>10, <2>2, <3>1, <3>2 DEF Doomed
    <3>3. CASE i = Len(h) + 1  BY <1>6, <2>2, <3>1, <3>3
    <3>4. QED  BY <1>9, <2>2, <3>2, <3>3
  <2>6. QED  BY <2>4, <2>5
<1> HIDE DEF h
<1>12. Job(w)' = Job(w) /\ jobs' = jobs /\ db' = db  BY DEF Still, Job
<1>13. Fated(w)'
  <2>1. \A x : Placed(w, x)' <=> Placed(w, x)  BY <1>12 DEF Still, Placed, Position, Has, Job
  <2>2. Inserting(w)'
    <3>1. \A x \in DOMAIN tx'[w].own \cap Drawn :
             tx'[w].own[x] # {} => Placed(w, x) \/ (x[1] = "service" /\ db[x] # {})
      BY <1>3, <1>8 DEF Fated, Inserting
    <3>2. QED  BY <1>12, <2>1, <3>1 DEF Inserting, Drawn, Credential, Service
  <2>3. Removing(w)'
    <3>1. \A x \in DOMAIN tx[w].own \cap Drawn : tx[w].own[x] # {}
      BY <1>3, <1>10 DEF Fated, Removing
    <3>2. \A x \in DOMAIN tx'[w].own \cap Drawn : tx'[w].own[x] = {} => x = Credential(c)
      BY <1>8, <3>1
    <3>3. Projection(c) \in tx'[w].held  BY <1>3, <1>7
    <3>4. QED
      BY <1>4, <1>7, <1>11, <3>2, <3>3 DEF Removing, Drawn, Credential, Service, Projection
  <2>4. DoomOK(w)'
    <3>1. Credential(c) \in DOMAIN tx'[w].own /\ tx'[w].own[Credential(c)] = {}  BY <1>8
    <3>2. QED  BY <1>7, <1>11, <3>1 DEF DoomOK, Credential
  <2>5. Ordered(w)' /\ AddressFirst(w)'  BY <1>7 DEF Ordered, AddressFirst
  <2>6. QED  BY <2>2, <2>3, <2>4, <2>5 DEF Fated
<1>14. \A row \in Drawn : Draft(w, row)' => Draft(w, row)  BY <1>2, <1>7, <1>12, DraftsFall
<1>15. \A x \in Cred : Deleting(w, x)' => Deleting(w, x)
  BY <1>1, <1>7, <1>11 DEF Deleting
<1>16. tx[w].step \notin After  BY <1>2
<1>17. QED  BY <1>7, <1>13, <1>14, <1>15, <1>16, FateStep DEF Still

--------------------------------------------------------------------------------
(***************************************************************************)
(* Publishers, commits and locks.                                          *)
(***************************************************************************)

\* What a publisher starts from.
LEMMA AfterBase ==
    ASSUME EstateInv, TypesInv, FateInv, NEW w \in Worker, tx[w].step \in After
    PROVE  /\ ShapeInv /\ Stage(w) /\ Ordered(w) /\ DoomOK(w) /\ tx[w].hooks \in Seq(Calls)
           /\ DOMAIN tx[w].own = {} /\ tx[w].step \in Past /\ tx[w].step # "commit"
           /\ tx[w].step \in {"project", "send"} => tx[w].hooks # <<>>
           /\ \A c \in Cred : Doomed(w, c) => db[Credential(c)] = {}
<1>1. tx[w].step \notin Writing /\ tx[w].step \in Past /\ tx[w].step # "commit"
  BY DEF After, Writing, Past
<1>2. Ordered(w) /\ DoomOK(w)  BY DEF FateInv, Fated
<1>3. Stage(w) /\ ShapeInv /\ tx[w].hooks \in Seq(Calls) /\ DOMAIN tx[w].own = {}
  BY <1>1, TypedBase
<1>4. \A c \in Cred : Doomed(w, c) => db[Credential(c)] = {}  BY <1>1, <1>2 DEF DoomOK
<1>5. QED  BY <1>1, <1>2, <1>3, <1>4 DEF Stage

\* A publisher goes on with the same callback.
LEMMA FateOnward ==
    ASSUME EstateInv, TypesInv, FateInv, NEW w \in Worker, tx[w].step \in After, Still, run' = run,
           Others(w), tx'[w].step \in After, tx'[w].own = tx[w].own,
           tx'[w].hooks = tx[w].hooks, Ordered(w)'
    PROVE  FateInv'
<1>1. /\ DoomOK(w) /\ DOMAIN tx[w].own = {} /\ tx[w].step \in Past
      /\ \A c \in Cred : Doomed(w, c) => db[Credential(c)] = {}
  BY AfterBase
<1>2. tx'[w].step \in Past /\ tx'[w].step \notin {"idle", "clear", "drop", "address", "parent", "service"}
      /\ After' = After
  BY DEF After, Past
<1>3. \A c : Doomed(w, c)' <=> Doomed(w, c)  BY DEF Doomed
<1>4. jobs' = jobs /\ db' = db /\ deleted' = deleted /\ drift' = drift /\ live' = live  BY DEF Still
<1>5. Fated(w)'
  <2>1. Inserting(w)' /\ Removing(w)'  BY <1>1 DEF Inserting, Removing
  <2>2. DoomOK(w)'
    <3>1. \A c \in Cred : Doomed(w, c)' => tx'[w].step \in After /\ db'[Credential(c)] = {}
      BY <1>1, <1>3, <1>4
    <3>2. QED  BY <1>2, <3>1 DEF DoomOK, Credential
  <2>3. AddressFirst(w)'  BY <1>2 DEF AddressFirst
  <2>4. QED  BY <2>1, <2>2, <2>3 DEF Fated
<1>6. \A row \in Drawn : Draft(w, row)' => Draft(w, row)  BY <1>1, <1>2, <1>4, DraftsFall
<1>7. \A c \in Cred : Deleting(w, c)' => Deleting(w, c)  BY <1>2, <1>3 DEF Deleting
<1>8. QED  BY <1>3, <1>4, <1>5, <1>6, <1>7, FateStep

\* The callbacks that follow a commit.
LEMMA FatePublish ==
    ASSUME EstateInv, TypesInv, FateInv, NEW w \in Worker, UNCHANGED <<jobs, db, run, deleted>>,
           \/ _publish_custom_metadata(w) \/ Project(w) \/ set_metadata(w) \/ delete_material(w)
           \/ Respond(w)
    PROVE  FateInv'
<1>0. tx[w].step \in After
  BY DEF _publish_custom_metadata, Project, set_metadata, delete_material, Respond, NextCall, At,
     After
<1>1. /\ ShapeInv /\ Stage(w) /\ Ordered(w) /\ tx[w].hooks \in Seq(Calls)
      /\ DOMAIN tx[w].own = {} /\ tx[w].step \in Past
      /\ tx[w].step \in {"project", "send"} => tx[w].hooks # <<>>
      /\ \A c \in Cred : Doomed(w, c) => db[Credential(c)] = {}
  BY <1>0, AfterBase
<1>2. ASSUME tx' = Called(w), tx[w].hooks # <<>>, drift \subseteq drift',
             \A c \in Cred : c \in live' \ live => db[Credential(c)] # {},
             \A c \in Cred : c \in live \ live' => db[Credential(c)] = {},
             Head(tx[w].hooks).call = "destroy" => Subject(w) \in drift' \/ Subject(w) \notin live'
      PROVE  FateInv'
  <2>1. /\ Others(w) /\ tx'[w].step = "callbacks" /\ tx'[w].own = NoRows /\ tx'[w].held = {}
        /\ tx'[w].wants = <<>> /\ tx'[w].hooks = Tail(tx[w].hooks)
    BY <1>1, <1>2, CalledFields
  <2>2. DOMAIN tx'[w].own = {}  BY <2>1 DEF NoRows
  <2>3. Head(tx[w].hooks).call = "destroy" =>
            Head(tx[w].hooks).cred \in drift' \/ Head(tx[w].hooks).cred \notin live'
    BY <1>2 DEF Subject
  <2>4. QED  BY <1>0, <1>2, <2>1, <2>2, <2>3, FateCalled
<1>3. CASE _publish_custom_metadata(w)
  <2>1. /\ tx[w].step = "callbacks" /\ tx[w].hooks # <<>> /\ Head(tx[w].hooks).call = "publish"
        /\ live' = live /\ drift' = drift /\ Still
    BY <1>3 DEF _publish_custom_metadata, NextCall, At, Quiet, graphVars, Still
  <2>2. CASE tx' = Called(w)  BY <1>2, <2>1, <2>2
  <2>3. CASE tx' = Publishes(w, "project", <<Projection(Subject(w))>>)
    <3> DEFINE l == <<Projection(Subject(w))>>
    <3>1. tx' = Publishes(w, "project", l)  BY <2>3
    <3> HIDE DEF l
    <3>2. /\ Others(w) /\ tx'[w].step = "project" /\ tx'[w].own = tx[w].own
          /\ tx'[w].held = tx[w].held /\ tx'[w].wants = l /\ tx'[w].hooks = tx[w].hooks
      <4>1. ShapeInv  BY <1>1
      <4>2. QED  BY ONLY <3>1, <4>1, w \in Worker, PublishFields
    <3>3. tx[w].held = {} /\ Subject(w)' = Subject(w)  BY <1>1, <2>1, <3>2 DEF Ordered, Subject
    <3>4. Ordered(w)'  BY <3>2, <3>3 DEF Ordered, l, Projection
    <3>5. "project" \in After  BY DEF After
    <3>6. QED  BY <1>0, <2>1, <3>2, <3>4, <3>5, FateOnward
  <2>4. \/ tx' = Called(w) \/ tx' = Publishes(w, "project", <<Projection(Subject(w))>>)
    BY <1>3 DEF _publish_custom_metadata, Publishes
  <2>5. QED  BY <2>2, <2>3, <2>4
<1>4. CASE Project(w)
  <2>1. /\ tx[w].step = "project" /\ tx[w].wants = <<>> /\ live' = live /\ drift' = drift /\ Still
    BY <1>4 DEF Project, At, Quiet, graphVars, Still
  <2>2. tx[w].hooks # <<>> /\ Head(tx[w].hooks).call = "publish"  BY <1>1, <2>1 DEF Stage
  <2>3. CASE tx' = Called(w)  BY <1>2, <2>1, <2>2, <2>3
  <2>4. ASSUME db[Credential(Subject(w))] # {}, NEW i, tx' = Images(w, "send", i)
        PROVE  FateInv'
    <3>1. /\ Others(w) /\ tx'[w].step = "send" /\ tx'[w].own = tx[w].own
          /\ tx'[w].held = tx[w].held /\ tx'[w].wants = tx[w].wants /\ tx'[w].hooks = tx[w].hooks
      BY <1>1, <2>4, ImageFields
    <3>2. tx[w].held = {Projection(Subject(w))}  BY <1>1, <2>1 DEF Ordered
    <3>3. Subject(w)' = Subject(w)  BY <3>1 DEF Subject
    <3>4. Ordered(w)'  BY <2>1, <2>4, <3>1, <3>2, <3>3 DEF Ordered, Projection, Credential
    <3>5. "send" \in After  BY DEF After
    <3>6. QED  BY <1>0, <2>1, <3>1, <3>4, <3>5, FateOnward
  <2>5. \/ tx' = Called(w)
        \/ /\ db[Credential(Subject(w))] # {}
           /\ tx' = Images(w, "send", build_custom_metadata(w, Subject(w)))
    BY <1>4 DEF Project, Images
  <2>6. QED  BY <2>3, <2>4, <2>5
<1>5. CASE set_metadata(w)
  <2>1. tx[w].step = "send" /\ tx' = Called(w)  BY <1>5 DEF set_metadata, At
  <2>2. /\ tx[w].hooks # <<>> /\ Head(tx[w].hooks).call = "publish"
        /\ db[Credential(Subject(w))] # {}
    BY <1>1, <2>1 DEF Stage, Ordered
  <2>3. drift \subseteq drift' /\ live \subseteq live' /\ live' \subseteq live \cup {Subject(w)}
    BY <1>5 DEF set_metadata
  <2>4. QED  BY <1>2, <2>1, <2>2, <2>3
<1>6. CASE delete_material(w)
  <2>1. /\ tx[w].hooks # <<>> /\ Head(tx[w].hooks).call = "destroy" /\ tx' = Called(w)
    BY <1>6 DEF delete_material, NextCall
  <2>2. Doomed(w, Subject(w)) /\ Subject(w) \in Cred
    <3>1. 1 \in DOMAIN tx[w].hooks /\ Head(tx[w].hooks) = tx[w].hooks[1] /\ Head(tx[w].hooks) \in Calls
      BY <1>1, <2>1, TailSeq
    <3>2. QED  BY <2>1, <3>1 DEF Doomed, Subject, Calls
  <2>3. db[Credential(Subject(w))] = {}  BY <1>1, <2>2
  <2>4. /\ drift \subseteq drift' /\ live' \subseteq live /\ live \subseteq live' \cup {Subject(w)}
        /\ Subject(w) \in drift' \/ Subject(w) \notin live'
    BY <1>6 DEF delete_material
  <2>5. QED  BY <1>2, <2>1, <2>3, <2>4
<1>7. CASE Respond(w)
  <2>1. tx[w].hooks = <<>> /\ tx' = Answered(w) /\ Still
    BY <1>7 DEF Respond, Quiet, graphVars, Still
  <2>2. Others(w) /\ tx'[w].step = "finish" /\ tx'[w].own = tx[w].own /\ tx'[w].hooks = tx[w].hooks
    BY <1>1, <2>1, AnsweredFields
  <2>3. /\ \A c \in Cred : ~Doomed(w, c)
        /\ \A c \in Cred : ~Doomed(w, c)'
    BY <2>1, <2>2 DEF Doomed
  <2>4. Fated(w)'
    <3>1. Inserting(w)' /\ Removing(w)'  BY <1>1, <2>2 DEF Inserting, Removing
    <3>2. DoomOK(w)'  BY <2>3 DEF DoomOK
    <3>3. Ordered(w)' /\ AddressFirst(w)'  BY <2>2 DEF Ordered, AddressFirst
    <3>4. QED  BY <3>1, <3>2, <3>3 DEF Fated
  <2>5. \A row \in Drawn : Draft(w, row)' => Draft(w, row)
    BY <1>1, <2>2, DraftsFall DEF Past
  <2>6. \A c \in Cred : ~Deleting(w, c)'  BY <2>2, <2>3 DEF Deleting
  <2>7. QED  BY <2>1, <2>2, <2>3, <2>4, <2>5, <2>6, FateStep DEF Still
<1>8. QED  BY <1>3, <1>4, <1>5, <1>6, <1>7

\* Every step of the graph.
LEMMA FateGraph ==
    ASSUME EstateInv, TypesInv, FateInv, NEW w \in Worker, GraphWork(w)
    PROVE  FateInv'
<1>0. UNCHANGED <<jobs, db>>  BY GraphReads
<1>1. CASE import_secrets(w) \/ ImportSecret(w) \/ NextSecret(w)
  <2>1. UNCHANGED <<db, live, drift, deleted>>
    BY <1>0, <1>1 DEF import_secrets, ImportSecret, NextSecret
  <2>2. QED  BY <1>1, <2>1, FateImport
<1>2. CASE \/ _publish_custom_metadata(w) \/ Project(w) \/ set_metadata(w) \/ delete_material(w)
           \/ Respond(w)
  <2>1. UNCHANGED <<run, deleted>>
    BY <1>2 DEF _publish_custom_metadata, Project, set_metadata, delete_material, Respond, Quiet,
       graphVars
  <2>2. QED  BY <1>0, <1>2, <2>1, FatePublish
<1>3. CASE \/ Create(w) \/ Stamp(w) \/ Assign(w) \/ _assign(w) \/ Reassign(w)
           \/ capture_previous_credential(w) \/ Rebind(w) \/ Unassign(w) \/ DeleteAssignment(w)
           \/ Delete(w) \/ Clear(w) \/ destroy_material_on_delete(w) \/ _lock_metadata(w)
           \/ quick_add_ssh(w) \/ _new_ip_address(w) \/ LockService(w) \/ _get_or_create_service(w)
           \/ Imported(w)
  <2>1. run' = run /\ Still
    BY <1>0, <1>3 DEF Create, Stamp, Assign, _assign, Reassign, capture_previous_credential, Rebind,
       Unassign, DeleteAssignment, Delete, Clear, destroy_material_on_delete, _lock_metadata,
       quick_add_ssh, _new_ip_address, LockService, _get_or_create_service, Imported, Quiet,
       graphVars, Still
  <2>2. QED
    BY <1>3, <2>1, FateLight, FateStamp, FateService, FateDelete, FateClear, FateDestroy
<1>4. QED  BY <1>1, <1>2, <1>3 DEF GraphWork

\* What a commit does to the rows under drawn keys.
LEMMA CommittedRows ==
    ASSUME EstateInv, TypesInv, FateInv, NEW w \in Worker, tx[w].step = "commit",
           db' = Over(tx[w].own, db)
    PROVE  /\ \A row \in Drawn : db[row] = {} /\ db'[row] # {} => Placed(w, row) /\ Draft(w, row)
           /\ \A row \in Drawn : db[row] # {} /\ db'[row] = {} =>
                \E c \in Cred : row = Credential(c) /\ Projection(c) \in tx[w].held /\ Doomed(w, c)
           /\ \A c \in Cred : Doomed(w, c) => db'[Credential(c)] = {}
<1>1. Drawn \subseteq DOMAIN db /\ Fated(w)  BY DEF TypesInv, FateInv
<1>2. \A row \in Drawn : db'[row] = IF row \in DOMAIN tx[w].own THEN tx[w].own[row] ELSE db[row]
  BY <1>1 DEF Over
<1>3. tx[w].step \notin Past /\ tx[w].step \notin After  BY DEF Past, After
<1>4. ASSUME NEW row \in Drawn, db[row] = {}, db'[row] # {} PROVE Placed(w, row) /\ Draft(w, row)
  <2>1. row \in DOMAIN tx[w].own /\ tx[w].own[row] # {}  BY <1>2, <1>4
  <2>2. Placed(w, row)  BY <1>1, <1>4, <2>1 DEF Fated, Inserting
  <2>3. 1 \in DOMAIN jobs[w] /\ Job(w) = jobs[w][1]  BY <2>2, JobTyped DEF Placed
  <2>4. Draft(w, row)  BY <1>3, <2>2, <2>3 DEF Placed, Draft
  <2>5. QED  BY <2>2, <2>4
<1>5. ASSUME NEW row \in Drawn, db[row] # {}, db'[row] = {}
      PROVE  \E c \in Cred : row = Credential(c) /\ Projection(c) \in tx[w].held /\ Doomed(w, c)
  BY <1>1, <1>2, <1>5 DEF Fated, Removing
<1>6. ASSUME NEW c \in Cred, Doomed(w, c) PROVE db'[Credential(c)] = {}
  <2>1. Credential(c) \in DOMAIN tx[w].own /\ tx[w].own[Credential(c)] = {}
    BY <1>1, <1>3, <1>6 DEF Fated, DoomOK
  <2>2. Credential(c) \in Drawn  BY DEF Drawn
  <2>3. QED  BY <1>2, <2>1, <2>2
<1>7. QED  BY <1>4, <1>5, <1>6

\* A publisher sends for a credential.
LEMMA SubjectTyped ==
    ASSUME EstateInv, TypesInv, NEW v \in Worker, tx[v].step \in {"project", "send"}
    PROVE  Subject(v) \in Cred /\ tx[v].hooks # <<>> /\ Head(tx[v].hooks).call = "publish"
<1>1. Stage(v) /\ tx[v].hooks \in Seq(Calls)  BY TypedBase
<1>2. tx[v].hooks # <<>> /\ Head(tx[v].hooks).call = "publish"  BY <1>1 DEF Stage
<1>3. Head(tx[v].hooks) \in Calls  BY <1>1, <1>2, TailSeq
<1>4. QED  BY <1>2, <1>3 DEF Calls, Subject

\* A commit that succeeds.
LEMMA FateCommitted ==
    ASSUME EstateInv, TypesInv, FateInv, NEW w \in Worker, tx[w].step = "commit",
           tx' = Commits(w), db' = Over(tx[w].own, db), jobs' = jobs, run' = run,
           live' = live \cup {c \in Cred : Appears(Credential(c))},
           deleted' = deleted \cup {c \in Cred : Vanishes(Credential(c))},
           drift \subseteq drift'
    PROVE  FateInv'
<1>0. ShapeInv  BY DEF EstateInv
<1>1. /\ Others(w) /\ tx'[w].step = "callbacks" /\ tx'[w].own = NoRows /\ tx'[w].held = {}
      /\ tx'[w].wants = <<>> /\ tx'[w].hooks = tx[w].hooks
  BY <1>0, CommittedFields
<1>2. \A row \in Drawn : db[row] = {} /\ db'[row] # {} => Placed(w, row) /\ Draft(w, row)
  BY CommittedRows
<1>3. \A row \in Drawn : db[row] # {} /\ db'[row] = {} =>
         \E c \in Cred : row = Credential(c) /\ Projection(c) \in tx[w].held /\ Doomed(w, c)
  BY CommittedRows
<1>4. \A c \in Cred : Doomed(w, c) => db'[Credential(c)] = {}  BY CommittedRows
<1>5. /\ \A c \in Cred : Credential(c) \in Drawn
      /\ \A c, d : Credential(c) = Credential(d) => c = d
  BY DEF Drawn, Credential
<1>6. \A v \in Worker \ {w} : tx'[v] = tx[v] /\ jobs'[v] = jobs[v] /\ run'[v] = run[v]
  BY <1>1 DEF Others
<1>7. ASSUME NEW v \in Worker, v # w
      PROVE  /\ \A row : Draft(v, row)' <=> Draft(v, row)
             /\ \A c : Deleting(v, c)' <=> Deleting(v, c)
             /\ \A c : Doomed(v, c)' <=> Doomed(v, c)
  BY <1>6, <1>7, FateAside
<1>8. \A c : Doomed(w, c)' <=> Doomed(w, c)  BY <1>1 DEF Doomed
<1>9. tx[w].step \notin Past /\ "callbacks" \in Past /\ "callbacks" \in After /\ After' = After
  BY DEF Past, After
<1>10. \A row \in Drawn : Draft(w, row)' => Draft(w, row)  BY <1>1, <1>9, DraftsFall
<1>11. \A row \in Drawn : \A v \in Worker : Draft(v, row) =>
         /\ db[row] = {}
         /\ \A c \in Cred : row = Credential(c) =>
              c \notin deleted /\ \A u \in Worker : ~Deleting(u, c)
  BY DEF FateInv, DraftsOK
<1>12. \A c \in Cred : \A v \in Worker : Doomed(v, c) => Deleting(v, c)  BY DEF Deleting
<1>13. ASSUME NEW v \in Worker PROVE Fated(v)'
  <2>1. CASE v = w
    <3>1. Inserting(w)' /\ Removing(w)'  BY <1>1 DEF Inserting, Removing, NoRows
    <3>2. DoomOK(w)'
      <4>1. \A c \in Cred : Doomed(w, c)' => tx'[w].step \in After /\ db'[Credential(c)] = {}
        BY <1>1, <1>4, <1>8, <1>9
      <4>2. QED  BY <1>9, <4>1 DEF DoomOK, Credential
    <3>3. Ordered(w)' /\ AddressFirst(w)'  BY <1>1 DEF Ordered, AddressFirst
    <3>4. QED  BY <2>1, <3>1, <3>2, <3>3 DEF Fated
  <2>2. CASE v # w
    <3>1. Fated(v) /\ tx'[v] = tx[v] /\ jobs'[v] = jobs[v] /\ run'[v] = run[v]
      BY <1>6, <2>2 DEF FateInv
    <3>2. \A row \in Drawn : row[1] = "service" /\ db[row] # {} => db'[row] # {}
      BY <1>3 DEF Credential
    <3>3. \A c \in Cred : Doomed(v, c) /\ db[Credential(c)] = {} => db'[Credential(c)] = {}
      BY <1>2, <1>5, <1>11, <1>12
    <3>4. ASSUME tx[v].step = "send" PROVE db'[Credential(Subject(v))] # {}
      <4>1. Subject(v) \in Cred  BY <3>4, SubjectTyped
      <4>2. tx[v].held = {Projection(Subject(v))} /\ db[Credential(Subject(v))] # {}
        BY <3>1, <3>4 DEF Fated, Ordered
      <4>3. tx[v].held \cap tx[w].held = {}  BY <2>2 DEF EstateInv, LockInv
      <4>4. QED  BY <1>3, <1>5, <4>1, <4>2, <4>3
    <3>5. QED  BY <3>1, <3>2, <3>3, <3>4, FatedFrame
  <2>3. QED  BY <2>1, <2>2
<1>14. ASSUME NEW v \in Worker, NEW row \in Drawn, Draft(v, row)'
       PROVE  /\ db'[row] = {}
              /\ \A c \in Cred : row = Credential(c) =>
                    c \notin deleted' /\ \A u \in Worker : ~Deleting(u, c)'
  <2>1. Draft(v, row)  BY <1>7, <1>10, <1>14
  <2>2. db[row] = {}  BY <1>11, <2>1
  <2>3. db'[row] = {}
    <3>1. SUFFICES ASSUME db'[row] # {} PROVE FALSE
      OBVIOUS
    <3>2. Placed(w, row)  BY <1>2, <2>2, <3>1
    <3>3. /\ 1 \in DOMAIN jobs[w] /\ Job(w) = jobs[w][1] /\ Position(w) \in Places(jobs[w][1])
          /\ Inserts(jobs[w][1], Position(w), row)
      BY <3>2, JobTyped DEF Placed
    <3>4. Position(w)' = Position(w) /\ Position(w) \in Nat
      BY DEF Position, Has, Job, TypesInv, RunTyped
    <3>5. PICK i \in DOMAIN jobs[v] : \E k \in Places(jobs[v][i]) :
             /\ Inserts(jobs[v][i], k, row)
             /\ \/ i > 1 \/ tx'[v].step = "idle" \/ k > Position(v)'
                \/ k = Position(v)' /\ tx'[v].step \notin Past
      BY <1>14 DEF Draft, Places, Inserts, Past
    <3>6. PICK k \in Places(jobs[v][i]) :
             /\ Inserts(jobs[v][i], k, row)
             /\ \/ i > 1 \/ tx'[v].step = "idle" \/ k > Position(v)'
                \/ k = Position(v)' /\ tx'[v].step \notin Past
      BY <3>5
    <3>7. v = w /\ i = 1 /\ k = Position(w)  BY <3>3, <3>6 DEF FateInv, DrawnOnce
    <3>8. QED  BY <1>1, <1>9, <3>4, <3>6, <3>7
  <2>4. ASSUME NEW c \in Cred, row = Credential(c)
        PROVE  c \notin deleted' /\ \A u \in Worker : ~Deleting(u, c)'
    <3>1. c \notin deleted /\ \A u \in Worker : ~Deleting(u, c)  BY <1>11, <2>1, <2>4
    <3>2. c \notin deleted'  BY <2>2, <2>4, <3>1 DEF Vanishes
    <3>3. ASSUME NEW u \in Worker PROVE ~Deleting(u, c)'
      <4>1. CASE u # w  BY <1>7, <3>1, <4>1
      <4>2. CASE u = w  BY <1>1, <1>8, <1>12, <3>1, <4>2 DEF Deleting
      <4>3. QED  BY <4>1, <4>2
    <3>4. QED  BY <3>2, <3>3
  <2>5. QED  BY <2>3, <2>4
<1>15. DraftsOK'  BY <1>14 DEF DraftsOK, Drawn, Credential, Service
<1>16. DrawnOnce(jobs)'
  <2>1. DrawnOnce(jobs) /\ jobs' = jobs  BY DEF FateInv
  <2>2. QED  BY ONLY <2>1 DEF DrawnOnce, Drawn, Credential, Service, Places, Inserts
<1>17. RowHasMaterial'
  <2>1. \A c \in Cred : db[Credential(c)] # {} => c \in live  BY DEF FateInv, RowHasMaterial
  <2>2. ASSUME NEW c \in Cred, db'[Credential(c)] # {} PROVE c \in live'
    BY <2>1, <2>2 DEF Appears
  <2>3. QED  BY <2>2 DEF RowHasMaterial, Credential
<1>18. ASSUME NEW c \in Cred PROVE Gone(c)'
  <2>1. Gone(c)  BY DEF FateInv
  <2>2. ASSUME c \in deleted PROVE db[Credential(c)] = {} /\ db'[Credential(c)] = {}
    BY <1>2, <1>5, <1>11, <2>1, <2>2 DEF Gone
  <2>3. c \in deleted' => db'[Credential(c)] = {}  BY <2>2 DEF Vanishes
  <2>4. ASSUME c \in deleted', c \in live', c \notin drift'
        PROVE  \E v \in Worker : tx'[v].step \in After /\ Doomed(v, c)'
    <3>1. CASE c \in deleted
      <4>1. c \in live /\ c \notin drift  BY <2>2, <2>4, <3>1 DEF Appears
      <4>2. PICK v \in Worker : tx[v].step \in After /\ Doomed(v, c)
        BY <2>1, <3>1, <4>1 DEF Gone
      <4>3. v # w  BY <4>2 DEF After
      <4>4. QED  BY <1>6, <1>7, <4>2, <4>3
    <3>2. CASE c \notin deleted
      <4>1. db[Credential(c)] # {} /\ db'[Credential(c)] = {}  BY <2>4, <3>2 DEF Vanishes
      <4>2. Doomed(w, c)  BY <1>3, <1>5, <4>1
      <4>3. QED  BY <1>1, <1>8, <1>9, <4>2
    <3>3. QED  BY <3>1, <3>2
  <2>5. Credential(c)' = Credential(c)  BY DEF Credential
  <2>6. QED  BY <1>9, <2>3, <2>4, <2>5 DEF Gone
<1>19. QED  BY <1>13, <1>15, <1>16, <1>17, <1>18 DEF FateInv

\* A commit, with its history.
LEMMA FateCommit ==
    ASSUME EstateInv, TypesInv, FateInv, NEW w \in Worker, CommitEstate(w)
    PROVE  FateInv'
<1>1. /\ tx[w].step = "commit" /\ jobs' = jobs /\ run' = run
      /\ live' = live \cup {c \in Cred : Appears(Credential(c))}
      /\ deleted' = deleted \cup {c \in Cred : Vanishes(Credential(c))}
      /\ drift' = IF tx'[w].step = "callbacks" THEN drift \cup Missed(w) ELSE drift
  BY DEF CommitEstate, Commit, At
<1>2. \/ db' = Over(tx[w].own, db) /\ tx' = Commits(w)
      \/ db' = db /\ tx' = RolledBack(w, "failed")
  BY DEF CommitEstate, Commit, Commits
<1>3. CASE db' = Over(tx[w].own, db) /\ tx' = Commits(w)
  <2>1. drift \subseteq drift'  BY <1>1
  <2>2. QED  BY <1>1, <1>3, <2>1, FateCommitted
<1>4. CASE db' = db /\ tx' = RolledBack(w, "failed")
  <2>1. ShapeInv /\ tx[w].step \notin After  BY <1>1 DEF EstateInv, After
  <2>2. tx'[w].step = "failed"  BY <1>4, <2>1, RolledBackFields
  <2>3. live' = live /\ deleted' = deleted /\ drift' = drift
    BY <1>1, <1>4, <2>2 DEF Appears, Vanishes
  <2>4. QED  BY <1>1, <1>4, <2>1, <2>3, LightRollback DEF Still
<1>5. QED  BY <1>2, <1>3, <1>4

\* Who inserts a row under a drawn key, and where, is one.
LEMMA OneDraft ==
    ASSUME NEW requests, DrawnOnce(requests), NEW row \in Drawn, NEW u \in Worker, NEW v \in Worker,
           NEW i \in DOMAIN requests[u], NEW j \in DOMAIN requests[v],
           NEW k \in Places(requests[u][i]), NEW l \in Places(requests[v][j]),
           Inserts(requests[u][i], k, row), Inserts(requests[v][j], l, row)
    PROVE  u = v /\ i = j /\ k = l
BY DEF DrawnOnce

\* Requests that keep their order are still the only ones that draw their keys.
LEMMA MovedOnce ==
    ASSUME NEW before, NEW after, DrawnOnce(before), NEW move,
           \A x \in Worker : \A n \in DOMAIN after[x] :
              move[x][n] \in DOMAIN before[x] /\ before[x][move[x][n]] = after[x][n],
           \A x \in Worker : \A n, m \in DOMAIN after[x] : move[x][n] = move[x][m] => n = m
    PROVE  DrawnOnce(after)
<1>1. ASSUME NEW row \in Drawn, NEW u \in Worker, NEW v \in Worker,
             NEW i \in DOMAIN after[u], NEW j \in DOMAIN after[v],
             NEW k \in Places(after[u][i]), NEW l \in Places(after[v][j]),
             Inserts(after[u][i], k, row), Inserts(after[v][j], l, row)
      PROVE  u = v /\ i = j /\ k = l
  <2>1. PICK m : m = move[u][i]  OBVIOUS
  <2>2. PICK n : n = move[v][j]  OBVIOUS
  <2>3. m \in DOMAIN before[u] /\ before[u][m] = after[u][i]  BY <2>1
  <2>4. n \in DOMAIN before[v] /\ before[v][n] = after[v][j]  BY <2>2
  <2>5. k \in Places(before[u][m]) /\ Inserts(before[u][m], k, row)  BY <1>1, <2>3
  <2>6. l \in Places(before[v][n]) /\ Inserts(before[v][n], l, row)  BY <1>1, <2>4
  <2>7. u = v /\ m = n /\ k = l
    BY ONLY DrawnOnce(before), row \in Drawn, u \in Worker, v \in Worker, <2>3, <2>4, <2>5, <2>6,
       OneDraft
  <2>8. QED  BY <2>1, <2>2, <2>7
<1>2. QED  BY ONLY <1>1 DEF DrawnOnce

\* A request ends: its drafts are gone, and the next request's are what they were.
LEMMA FateEnd ==
    ASSUME EstateInv, TypesInv, FateInv, NEW w \in Worker, jobs[w] # <<>>, EndRequest(w),
           UNCHANGED graphVars
    PROVE  FateInv'
<1>1. /\ tx[w].step \in {"finish", "failed"} /\ tx' = Idles(w)
      /\ jobs' = [jobs EXCEPT ![w] = Tail(@)]
      /\ UNCHANGED <<db, live, drift, deleted, run>>
  BY DEF EndRequest, Finish, Idles, graphVars
<1>2. ShapeInv /\ DOMAIN jobs = Worker  BY DEF EstateInv, ShapeInv
<1>3. /\ Others(w) /\ tx'[w].step = "idle" /\ tx'[w].own = NoRows /\ tx'[w].hooks = <<>>
  BY <1>1, <1>2, IdleFields
<1>4. jobs'[w] = Tail(jobs[w]) /\ \A v \in Worker \ {w} : jobs'[v] = jobs[v]  BY <1>1, <1>2
<1>5. \A i \in DOMAIN jobs'[w] : i \in Nat \ {0} /\ i + 1 \in DOMAIN jobs[w] /\ jobs'[w][i] = jobs[w][i + 1]
  <2>1. jobs[w] \in Seq(Range(jobs[w]))  BY DEF TypesInv, JobsTyped
  <2> DEFINE S == Range(jobs[w])
  <2> HIDE DEF S
  <2>2. jobs[w] \in Seq(S)  BY <2>1 DEF S
  <2>3. /\ Tail(jobs[w]) \in Seq(S)
        /\ \A i \in DOMAIN Tail(jobs[w]) : i + 1 \in DOMAIN jobs[w] /\ Tail(jobs[w])[i] = jobs[w][i + 1]
    BY <2>2, TailSeq
  <2>4. \A i \in DOMAIN Tail(jobs[w]) : i \in Nat \ {0}  BY <2>3
  <2>5. QED  BY <1>4, <2>3, <2>4
<1>6. \A v \in Worker \ {w} : tx'[v] = tx[v] /\ jobs'[v] = jobs[v] /\ run'[v] = run[v]
  BY <1>1, <1>3, <1>4 DEF Others
<1>7. tx[w].step \notin {"commit"} \cup After /\ After' = After  BY <1>1 DEF After
<1>8. \A c \in Cred : ~Doomed(w, c)  BY <1>7, NoDoom
<1>9. ASSUME NEW v \in Worker
      PROVE  /\ \A row : Draft(v, row)' => Draft(v, row)
             /\ \A c : Deleting(v, c)' => Deleting(v, c)
             /\ \A c : v # w => (Doomed(v, c)' <=> Doomed(v, c))
  <2>1. CASE v # w  BY <1>6, <2>1, FateAside
  <2>2. CASE v = w
    <3>1. \A c : ~Deleting(w, c)'  BY <1>3 DEF Deleting, Doomed
    <3>2. ASSUME NEW row, Draft(w, row)' PROVE Draft(w, row)
      <4>1. PICK i \in DOMAIN jobs'[w] : \E k \in Places(jobs'[w][i]) : Inserts(jobs'[w][i], k, row)
        BY <3>2 DEF Draft, Places, Inserts
      <4>2. i + 1 \in DOMAIN jobs[w] /\ jobs'[w][i] = jobs[w][i + 1] /\ i + 1 > 1  BY <1>5
      <4>3. QED  BY <4>1, <4>2 DEF Draft
    <3>3. QED  BY <2>2, <3>1, <3>2
  <2>3. QED  BY <2>1, <2>2
<1>10. ASSUME NEW v \in Worker PROVE Fated(v)'
  <2>1. CASE v = w
    <3>1. Inserting(w)' /\ Removing(w)'  BY <1>3 DEF Inserting, Removing, NoRows
    <3>2. DoomOK(w)'  BY <1>3 DEF DoomOK, Doomed
    <3>3. Ordered(w)' /\ AddressFirst(w)'  BY <1>3 DEF Ordered, AddressFirst
    <3>4. QED  BY <2>1, <3>1, <3>2, <3>3 DEF Fated
  <2>2. CASE v # w
    <3>1. Fated(v) /\ tx'[v] = tx[v] /\ jobs'[v] = jobs[v] /\ run'[v] = run[v] /\ db' = db
      BY <1>1, <1>6, <2>2 DEF FateInv
    <3>2. tx[v].step = "send" => db[Credential(Subject(v))] # {}  BY <3>1 DEF Fated, Ordered
    <3>3. QED  BY <3>1, <3>2, FatedFrame
  <2>3. QED  BY <2>1, <2>2
<1>11. DraftsOK'
  <2>1. \A v \in Worker : \A row \in Drawn : Draft(v, row) =>
           /\ db[row] = {}
           /\ \A c \in Cred : row = Credential(c) =>
                c \notin deleted /\ \A u \in Worker : ~Deleting(u, c)
    BY DEF FateInv, DraftsOK
  <2>2. \A v \in Worker : \A row \in Drawn : Draft(v, row)' =>
           /\ db[row] = {}
           /\ \A c \in Cred : row = Credential(c) =>
                c \notin deleted /\ \A u \in Worker : ~Deleting(u, c)'
    BY <1>9, <2>1
  <2>3. db' = db /\ deleted' = deleted  BY <1>1
  <2>4. QED  BY ONLY <2>2, <2>3 DEF DraftsOK, Drawn, Credential, Service
<1>12. DrawnOnce(jobs)'
  <2>1. DrawnOnce(jobs)  BY DEF FateInv
  <2> DEFINE move == [x \in Worker |-> [n \in DOMAIN jobs'[x] |-> IF x = w THEN n + 1 ELSE n]]
  <2>2. \A x \in Worker : \A n \in DOMAIN jobs'[x] :
           move[x][n] \in DOMAIN jobs[x] /\ jobs[x][move[x][n]] = jobs'[x][n]
    BY <1>5, <1>6
  <2>3. \A x \in Worker : \A n, m \in DOMAIN jobs'[x] : move[x][n] = move[x][m] => n = m
    BY <1>5
  <2> HIDE DEF move
  <2>4. DrawnOnce(jobs')  BY ONLY <2>1, <2>2, <2>3, MovedOnce
  <2>5. QED  BY ONLY <2>4
<1>13. RowHasMaterial'  BY <1>1 DEF FateInv, RowHasMaterial, Credential
<1>14. ASSUME NEW c \in Cred PROVE Gone(c)'
  <2>1. Gone(c)  BY DEF FateInv
  <2>2. ASSUME c \in deleted \cap live, c \notin drift
        PROVE  \E v \in Worker : tx'[v].step \in After /\ Doomed(v, c)'
    <3>1. PICK v \in Worker : tx[v].step \in After /\ Doomed(v, c)  BY <2>1, <2>2 DEF Gone
    <3>2. v # w  BY <1>8, <3>1
    <3>3. QED  BY <1>6, <1>9, <3>1, <3>2
  <2>3. QED  BY <1>1, <1>7, <2>1, <2>2 DEF Gone, Credential
<1>15. QED  BY <1>10, <1>11, <1>12, <1>13, <1>14 DEF FateInv

\* A lock is granted.
LEMMA FateGrant ==
    ASSUME EstateInv, TypesInv, FateInv, NEW w \in Worker, Grant(w), UNCHANGED graphVars
    PROVE  FateInv'
<1>1. /\ tx[w].wants # <<>> /\ jobs' = jobs /\ db' = db
      /\ live' = live /\ drift' = drift /\ deleted' = deleted /\ run' = run
  BY DEF Grant, graphVars
<1>2. PICK lock, locked : /\ lock = Head(tx[w].wants) /\ tx' = Grants(w, locked)
                          /\ locked = IF Found(w, lock) THEN {lock} ELSE {}
  BY Zenon DEF Grant, Grants
<1>3. ShapeInv /\ \A row \in DOMAIN db : row[1] # "advisory"  BY DEF EstateInv, RowsOK
<1>4. /\ Others(w) /\ tx'[w].step = tx[w].step /\ tx'[w].own = tx[w].own
      /\ tx'[w].held = tx[w].held \cup locked /\ tx'[w].wants = Tail(tx[w].wants)
      /\ tx'[w].hooks = tx[w].hooks
  BY <1>2, <1>3, GrantFields
<1>5. /\ \A row : Placed(w, row)' <=> Placed(w, row)
      /\ \A c : Doomed(w, c)' <=> Doomed(w, c)
  BY <1>1, <1>4 DEF Placed, Position, Has, Job, Doomed
<1>6. Fated(w)  BY DEF FateInv
<1>7. ASSUME NEW c, lock = Projection(c) PROVE lock \in locked
  BY <1>2, <1>3, <1>7 DEF Projection, Found
<1>8. Fated(w)'
  <2>1. Inserting(w)'  BY <1>1, <1>4, <1>5, <1>6 DEF Fated, Inserting, Drawn, Credential, Service
  <2>2. Removing(w)'
    BY <1>4, <1>5, <1>6 DEF Fated, Removing, Drawn, Credential, Service, Projection
  <2>3. DoomOK(w)'  BY <1>1, <1>4, <1>5, <1>6 DEF Fated, DoomOK, Credential, After
  <2>4. Ordered(w)'
    <3>1. PICK p, m : p = Projection(Job(w).cred) /\ m = Projection(Subject(w))  OBVIOUS
    <3>2. p = Projection(Job(w).cred)' /\ m = Projection(Subject(w))'
      BY <1>1, <1>4, <3>1 DEF Job, Subject, Projection
    <3>3. lock \in {p, m} => lock \in locked /\ locked = {lock}  BY <1>2, <1>7, <3>1
    <3>4. /\ tx[w].step = "clear" => p \in tx[w].held \/ lock = p
          /\ tx[w].step = "drop" => p \in tx[w].held
          /\ tx[w].step \notin {"callbacks", "send"}
          /\ tx[w].step = "project" => tx[w].wants = <<m>> /\ tx[w].held = {}
      BY <1>1, <1>2, <1>6, <3>1 DEF Fated, Ordered
    <3>5. /\ tx'[w].step = "clear" => p \in tx'[w].held
          /\ tx'[w].step = "drop" => p \in tx'[w].held
          /\ tx'[w].step \notin {"callbacks", "send"}
      BY <1>4, <3>3, <3>4
    <3>6. ASSUME tx'[w].step = "project" PROVE tx'[w].wants = <<>> /\ tx'[w].held = {m}
      <4>1. tx[w].wants = <<m>> /\ tx[w].held = {}  BY <1>4, <3>4, <3>6
      <4>2. Head(<<m>>) = m /\ Tail(<<m>>) = <<>>  OBVIOUS
      <4>3. QED  BY <1>2, <1>4, <3>3, <4>1, <4>2
    <3>7. QED  BY <3>2, <3>5, <3>6 DEF Ordered
  <2>5. AddressFirst(w)'  BY <1>4, <1>6 DEF Fated, AddressFirst
  <2>6. QED  BY <2>1, <2>2, <2>3, <2>4, <2>5 DEF Fated
<1>9. \A row : Draft(w, row)' => Draft(w, row)  BY <1>1, <1>4, DraftsFall
<1>10. \A c \in Cred : Deleting(w, c)' => Deleting(w, c)
  BY <1>1, <1>4, <1>5 DEF Deleting, Has, Job
<1>11. QED  BY <1>1, <1>4, <1>5, <1>8, <1>9, <1>10, FateStep

\* A publisher that waits holds nothing: nobody waits for it.
LEMMA NoPublisher ==
    ASSUME FateInv, NEW w \in Worker, tx[w].wants # <<>>, Victim(w)
    PROVE  tx[w].step \notin After
<1>1. PICK circle \in SUBSET Worker : w \in circle /\ circle = UNION {Blockers(v) : v \in circle}
  BY DEF Victim
<1>2. PICK v \in circle : w \in Blockers(v)  BY <1>1
<1>3. tx[w].held # {}  BY <1>2 DEF Blockers, Holders
<1>4. Ordered(w)  BY DEF FateInv, Fated
<1>5. QED  BY <1>3, <1>4 DEF Ordered, After

--------------------------------------------------------------------------------
(***************************************************************************)
(* A stored row has its material, and a deletion is final.                 *)
(***************************************************************************)

\* A worker dies: what it had still to destroy is known to drift.
LEMMA FateCrash ==
    ASSUME EstateInv, TypesInv, FateInv, NEW w \in Worker, Crash(w), drift' = drift \cup Lost(w),
           UNCHANGED <<live, deleted, run>>
    PROVE  FateInv'
<1>1. /\ tx' = Resets(w, "dead") /\ jobs' = jobs /\ db' = db /\ tx[w].step # "idle"
      /\ live' = live /\ deleted' = deleted /\ run' = run /\ drift' = drift \cup Lost(w)
  BY DEF Crash, Resets
<1>2. ShapeInv  BY DEF EstateInv
<1>3. /\ Others(w) /\ tx'[w].step = "dead" /\ tx'[w].own = NoRows /\ tx'[w].hooks = <<>>
  BY <1>1, <1>2, ResetFields
<1>4. Fated(w)'
  <2>1. Inserting(w)' /\ Removing(w)'  BY <1>3 DEF Inserting, Removing, NoRows
  <2>2. DoomOK(w)'  BY <1>3 DEF DoomOK, Doomed
  <2>3. Ordered(w)' /\ AddressFirst(w)'  BY <1>3 DEF Ordered, AddressFirst
  <2>4. QED  BY <2>1, <2>2, <2>3 DEF Fated
<1>5. \A row : Draft(w, row)' => Draft(w, row)  BY <1>1, <1>3, DraftsFall DEF Past
<1>6. \A c : ~Deleting(w, c)'  BY <1>3 DEF Deleting, Doomed
<1>7. ASSUME NEW c \in Cred, tx[w].step \in After, Doomed(w, c) PROVE c \in drift'
  <2>1. PICK i \in DOMAIN tx[w].hooks : tx[w].hooks[i].call = "destroy" /\ tx[w].hooks[i].cred = c
    BY <1>7 DEF Doomed
  <2>2. tx[w].hooks[i] \in Range(tx[w].hooks)  BY DEF Range
  <2>3. c \in Lost(w)  BY <1>7, <2>1, <2>2 DEF Lost, After
  <2>4. QED  BY <1>1, <2>3
<1>8. QED  BY <1>1, <1>3, <1>4, <1>5, <1>6, <1>7, FateStep

\* Nothing of the requests, the rows and the mount.
LEMMA FateStutter ==
    ASSUME FateInv, UNCHANGED <<jobs, db, tx, run, live, drift, deleted>>
    PROVE  FateInv'
<1>1. /\ jobs' = jobs /\ db' = db /\ tx' = tx /\ run' = run /\ live' = live /\ drift' = drift
      /\ deleted' = deleted
  OBVIOUS
<1>2. \A v \in Worker : /\ \A row : Draft(v, row)' <=> Draft(v, row)
                        /\ \A c : Deleting(v, c)' <=> Deleting(v, c)
                        /\ \A c : Doomed(v, c)' <=> Doomed(v, c)
  BY <1>1, FateAside
<1>3. \A v \in Worker : Fated(v)'
  <2> SUFFICES ASSUME NEW v \in Worker PROVE Fated(v)'
    OBVIOUS
  <2>1. Fated(v)  BY DEF FateInv
  <2>2. tx[v].step = "send" => db'[Credential(Subject(v))] # {}  BY <1>1, <2>1 DEF Fated, Ordered
  <2>3. QED  BY <1>1, <2>1, <2>2, FatedFrame
<1>4. DraftsOK'
  <2>1. \A v \in Worker : \A row \in Drawn : Draft(v, row) =>
           /\ db[row] = {}
           /\ \A c \in Cred : row = Credential(c) =>
                c \notin deleted /\ \A u \in Worker : ~Deleting(u, c)
    BY DEF FateInv, DraftsOK
  <2>2. \A v \in Worker : \A row \in Drawn : Draft(v, row)' =>
           /\ db[row] = {}
           /\ \A c \in Cred : row = Credential(c) =>
                c \notin deleted /\ \A u \in Worker : ~Deleting(u, c)'
    BY <1>2, <2>1
  <2>3. QED  BY ONLY <1>1, <2>2 DEF DraftsOK, Drawn, Credential, Service
<1>5. DrawnOnce(jobs)'
  <2>1. DrawnOnce(jobs)  BY DEF FateInv
  <2>2. QED  BY ONLY <1>1, <2>1 DEF DrawnOnce, Drawn, Credential, Service, Places, Inserts
<1>6. RowHasMaterial'  BY <1>1 DEF FateInv, RowHasMaterial, Credential
<1>7. ASSUME NEW c \in Cred PROVE Gone(c)'
  <2>1. Gone(c)  BY DEF FateInv
  <2>2. After' = After  BY DEF After
  <2>3. QED  BY <1>1, <1>2, <2>1, <2>2 DEF Gone, Credential
<1>8. QED  BY <1>3, <1>4, <1>5, <1>6, <1>7 DEF FateInv

\* FateInv is inductive.
LEMMA NextFate ==
    ASSUME EstateInv, IdentityInv, TypesInv, FateInv, [Next]_vars PROVE FateInv'
<1>1. ASSUME NEW w \in Worker, Serves(w) PROVE FateInv'
  <2>1. CASE SettingsWork(w) /\ UNCHANGED <<graphVars, identityVars>>  BY <2>1, FateSettings
  <2>2. CASE GraphWork(w)  BY <2>2, FateGraph
  <2>3. CASE IdentityWork(w) /\ UNCHANGED <<settingsVars, graphVars>>  BY <2>3, FateIdentity
  <2>4. CASE EndRequest(w) /\ UNCHANGED <<graphVars, identityVars>>
    BY <1>1, <2>4, FateEnd DEF Serves
  <2>5. CASE CommitEstate(w)  BY <2>5, FateCommit
  <2>6. CASE PostgreSQL(w)
    <3>1. UNCHANGED graphVars /\ tx[w].wants # <<>>  BY <2>6 DEF PostgreSQL
    <3>2. CASE Grant(w)  BY <3>1, <3>2, FateGrant
    <3>3. CASE Victim(w)
      <4>1. tx[w].step \notin After  BY <3>1, <3>3, NoPublisher
      <4>2. tx' = RolledBack(w, "failed") /\ Still /\ run' = run
        BY <3>1, <3>3 DEF Victim, graphVars, Still
      <4>3. QED  BY <4>1, <4>2, LightRollback
    <3>4. QED  BY <2>6, <3>2, <3>3 DEF PostgreSQL
  <2>7. QED  BY <1>1, <2>1, <2>2, <2>3, <2>4, <2>5, <2>6 DEF Serves, Work
<1>2. ASSUME NEW w \in Worker, Fails(w) PROVE FateInv'
  <2>1. CASE Refuse(w) /\ UNCHANGED <<settingsVars, graphVars, identityVars>>
    <3>1. tx[w].step \notin After  BY <2>1 DEF Refuse, At, After
    <3>2. tx' = RolledBack(w, "failed") /\ Still /\ run' = run
      BY <2>1 DEF Refuse, graphVars, Still
    <3>3. QED  BY <3>1, <3>2, LightRollback
  <2>2. CASE Crash(w) /\ drift' = drift \cup Lost(w) /\ UNCHANGED <<live, deleted, run>>
    BY <2>2, FateCrash
  <2>3. QED  BY <1>2, <2>1, <2>2 DEF Fails
<1>3. ASSUME NEW w \in Worker, Consult(w), UNCHANGED <<graphVars, identityVars>> PROVE FateInv'
  BY <1>3, FateStutter DEF Consult, graphVars
<1>4. CASE Expire /\ UNCHANGED <<settingsVars, graphVars>>
  BY <1>4, FateStutter DEF Expire, settingsVars, graphVars
<1>5. CASE UNCHANGED vars  BY <1>5, FateStutter DEF vars, settingsVars, graphVars
<1>6. QED  BY <1>1, <1>2, <1>3, <1>4, <1>5 DEF Next

\* Keys are not in use before they are drawn, and nothing is deleted yet.
LEMMA InitFate ==
    ASSUME Init PROVE FateInv
<1>1. PICK load \in Workloads : db = load.rows /\ jobs = load.jobs  BY DEF Init, DatabaseInit
<1>2. /\ tx = [w \in Worker |-> Idle] /\ live = {c \in Cred : db[Credential(c)] # {}}
      /\ deleted = {}
  BY DEF Init, DatabaseInit, GraphInit
<1>3. \A w \in Worker : tx[w].step = "idle" /\ tx[w].own = NoRows /\ tx[w].hooks = <<>>
  BY <1>2 DEF Idle
<1>4. \A w \in Worker, c \in Cred : ~Doomed(w, c) /\ ~Deleting(w, c)
  BY <1>3 DEF Doomed, Deleting
<1>5. ASSUME NEW w \in Worker PROVE Fated(w)
  <2>1. Inserting(w) /\ Removing(w)  BY <1>3 DEF Inserting, Removing, NoRows
  <2>2. DoomOK(w)  BY <1>4 DEF DoomOK
  <2>3. Ordered(w) /\ AddressFirst(w)  BY <1>3 DEF Ordered, AddressFirst
  <2>4. QED  BY <2>1, <2>2, <2>3 DEF Fated
<1>6. DraftsOK
  <2>1. ASSUME NEW w \in Worker, NEW row \in Drawn, Draft(w, row) PROVE db[row] = {}
    <3>1. PICK i \in DOMAIN jobs[w] : \E k \in Places(jobs[w][i]) : Inserts(jobs[w][i], k, row)
      BY <2>1 DEF Draft
    <3>2. PICK k \in Places(jobs[w][i]) : Inserts(jobs[w][i], k, row)  BY <3>1
    <3>3. QED  BY <1>1, <3>2, KeyAssumption
  <2>2. QED  BY <1>2, <1>4, <2>1 DEF DraftsOK
<1>7. DrawnOnce(jobs)  BY <1>1, KeyAssumption
<1>8. RowHasMaterial  BY <1>2 DEF RowHasMaterial
<1>9. \A c \in Cred : Gone(c)  BY <1>2 DEF Gone
<1>10. QED  BY <1>5, <1>6, <1>7, <1>8, <1>9 DEF FateInv

\* Which rows are still to be inserted and which material is still to be destroyed, in every state.
THEOREM FateCorrect == Spec => []FateInv
<1>1. Init => FateInv  BY InitFate
<1>2. Init => IdentityInv  BY InitIdentity
<1>3. EstateInv /\ EstateInv' /\ IdentityInv /\ [Next]_vars => IdentityInv'  BY NextIdentity
<1>4. EstateInv /\ IdentityInv /\ TypesInv /\ FateInv /\ [Next]_vars => FateInv'  BY NextFate
<1>5. QED  BY <1>1, <1>2, <1>3, <1>4, EstateCorrect, TypesCorrect, PTL DEF Spec

\* Material is destroyed only for a deletion that committed.
THEOREM MaterialKept == Spec => []RowHasMaterial
<1>1. FateInv => RowHasMaterial  BY DEF FateInv
<1>2. QED  BY <1>1, FateCorrect, PTL

\* A publisher does not bring the path of a deleted credential back.
THEOREM DeletionsHold == Spec => []DeletedStaysDeleted
<1>1. ASSUME TypesInv, FateInv PROVE DeletedStaysDeleted
  <2> SUFFICES ASSUME Quiescent, NEW c \in deleted \cap live, c \notin drift PROVE FALSE
    BY DEF DeletedStaysDeleted
  <2>1. c \in Cred  BY <1>1 DEF TypesInv
  <2>2. Gone(c)  BY <1>1, <2>1 DEF FateInv
  <2>3. PICK w \in Worker : tx[w].step \in After  BY <2>2 DEF Gone
  <2>4. QED  BY <2>3 DEF Quiescent, After
<1>2. QED  BY <1>1, TypesCorrect, FateCorrect, PTL

--------------------------------------------------------------------------------
(***************************************************************************)
(* What OpenBao lists.                                                     *)
(***************************************************************************)

\* Whoever an assignment is written for has a callback.
Announced(w) ==
    \A row \in DOMAIN tx[w].own : row[1] = "assignment" =>
        \A r \in tx[w].own[row] : \E i \in DOMAIN tx[w].hooks : tx[w].hooks[i] = Publish(r.cred)

\* A publication that has still to read what it sends, and one that has read it.
Waiting(w, c) ==
    /\ tx[w].step \in After
    /\ \E i \in DOMAIN tx[w].hooks : tx[w].hooks[i] = Publish(c) /\ (i = 1 => tx[w].step # "send")
Sending(w, c) == tx[w].step = "send" /\ Subject(w) = c

\* What OpenBao lists of a credential is what NetBox has, unless somebody is to publish
\* it; what is being sent is what NetBox has, unless somebody is to read it again.
Mirrored(c) ==
    db[Credential(c)] # {} /\ c \notin drift =>
        /\ kv[c] # Bound(c) => \E w \in Worker : Waiting(w, c) \/ Sending(w, c)
        /\ \A w \in Worker : Sending(w, c) /\ tx[w].image # Bound(c) =>
             \E v \in Worker : Waiting(v, c)

\* Nothing is listed of a credential that was never there.
Unborn(c) == db[Credential(c)] = {} /\ c \notin deleted => kv[c] = {}

MirrorInv ==
    /\ \A w \in Worker : Announced(w)
    /\ \A c \in Cred : Mirrored(c) /\ Unborn(c)
    /\ Consistent(db)

\* A connection nobody moves.
LEMMA MirrorAside ==
    ASSUME NEW v, tx'[v] = tx[v]
    PROVE  /\ Announced(v) => Announced(v)'
           /\ \A c : Waiting(v, c)' <=> Waiting(v, c)
           /\ \A c : Sending(v, c)' <=> Sending(v, c)
BY DEF Announced, Waiting, Sending, Subject, Publish, After

\* One worker's step, which commits nothing.
LEMMA MirrorStep ==
    ASSUME MirrorInv, NEW w \in Worker, Others(w), db' = db, deleted' = deleted,
           drift \subseteq drift', Announced(w)',
           \A c \in Cred : db[Credential(c)] = {} => kv'[c] = kv[c],
           \A c \in Cred : db[Credential(c)] # {} /\ c \notin drift' =>
               /\ \/ kv'[c] \in {kv[c], Bound(c)}
                  \/ Sending(w, c) /\ kv'[c] = tx[w].image
               /\ Waiting(w, c) =>
                    \/ Waiting(w, c)'
                    \/ /\ Sending(w, c)' /\ tx'[w].image = Bound(c)
                       /\ \A v \in Worker \ {w} : ~Sending(v, c)
               /\ Sending(w, c) => Waiting(w, c)' \/ Sending(w, c)' \/ kv'[c] = tx[w].image
               /\ Sending(w, c)' =>
                    \/ tx'[w].image = Bound(c)
                    \/ Sending(w, c) /\ tx'[w].image = tx[w].image
    PROVE  MirrorInv'
<1>1. \A v \in Worker \ {w} : tx'[v] = tx[v]  BY DEF Others
<1>2. ASSUME NEW v \in Worker, v # w
      PROVE  /\ Announced(v)'
             /\ \A c : Waiting(v, c)' <=> Waiting(v, c)
             /\ \A c : Sending(v, c)' <=> Sending(v, c)
  BY <1>1, <1>2, MirrorAside DEF MirrorInv
<1>3. ASSUME NEW c \in Cred PROVE Mirrored(c)' /\ Unborn(c)'
  <2>1. Bound(c)' = Bound(c) /\ Credential(c)' = Credential(c)  BY DEF Bound, Credential
  <2>2. Mirrored(c) /\ Unborn(c)  BY DEF MirrorInv
  <2>3. Unborn(c)'  BY <2>1, <2>2 DEF Unborn
  <2>4. ASSUME db[Credential(c)] # {}, c \notin drift'
        PROVE  /\ kv'[c] # Bound(c) => \E v \in Worker : Waiting(v, c)' \/ Sending(v, c)'
               /\ \A v \in Worker : Sending(v, c)' /\ tx'[v].image # Bound(c) =>
                    \E u \in Worker : Waiting(u, c)'
    <3>1. /\ kv[c] # Bound(c) => \E v \in Worker : Waiting(v, c) \/ Sending(v, c)
          /\ \A v \in Worker : Sending(v, c) /\ tx[v].image # Bound(c) =>
               \E u \in Worker : Waiting(u, c)
      BY <2>2, <2>4 DEF Mirrored
    <3>2. \A u \in Worker : Waiting(u, c) => Waiting(u, c)' \/ Sending(u, c)'
      BY <1>2, <2>4
    <3>3. ASSUME kv'[c] # Bound(c) PROVE \E v \in Worker : Waiting(v, c)' \/ Sending(v, c)'
      <4>1. CASE Sending(w, c) /\ kv'[c] = tx[w].image
        <5>1. PICK u \in Worker : Waiting(u, c)  BY <3>1, <3>3, <4>1
        <5>2. QED  BY <3>2, <5>1
      <4>2. CASE kv'[c] = kv[c] /\ ~(Sending(w, c) /\ kv'[c] = tx[w].image)
        <5>1. PICK v \in Worker : Waiting(v, c) \/ Sending(v, c)  BY <3>1, <3>3, <4>2
        <5>2. CASE v = w  BY <2>4, <3>2, <4>2, <5>1, <5>2
        <5>3. CASE v # w  BY <1>2, <5>1, <5>3
        <5>4. QED  BY <5>2, <5>3
      <4>3. QED  BY <2>4, <3>3, <4>1, <4>2
    <3>4. ASSUME NEW v \in Worker, Sending(v, c)', tx'[v].image # Bound(c)
          PROVE  \E u \in Worker : Waiting(u, c)'
      <4>1. Sending(v, c) /\ tx'[v].image = tx[v].image
        <5>1. CASE v = w  BY <2>4, <3>4, <5>1
        <5>2. CASE v # w  BY <1>1, <1>2, <3>4, <5>2
        <5>3. QED  BY <5>1, <5>2
      <4>2. PICK u \in Worker : Waiting(u, c)  BY <3>1, <3>4, <4>1
      <4>3. CASE u = w
        <5>1. Waiting(w, c)'
          <6>1. CASE v = w  BY <2>4, <3>4, <4>2, <4>3, <6>1
          <6>2. CASE v # w  BY <2>4, <4>1, <4>2, <4>3, <6>2
          <6>3. QED  BY <6>1, <6>2
        <5>2. QED  BY <5>1
      <4>4. CASE u # w  BY <1>2, <4>2, <4>4
      <4>5. QED  BY <4>3, <4>4
    <3>5. QED  BY <3>3, <3>4
  <2>5. Mirrored(c)'  BY <2>1, <2>4 DEF Mirrored
  <2>6. QED  BY <2>3, <2>5
<1>4. \A v \in Worker : Announced(v)'  BY <1>2
<1>5. Consistent(db)'
  <2>1. Consistent(db)  BY DEF MirrorInv
  <2>2. QED  BY ONLY <2>1, db' = db DEF Consistent
<1>6. QED  BY <1>3, <1>4, <1>5 DEF MirrorInv

\* What a step outside the callbacks leaves alone.
Aside4 == UNCHANGED <<db, drift, deleted, kv>>

\* A step outside the callbacks.
LEMMA MirrorLight ==
    ASSUME MirrorInv, NEW w \in Worker, Others(w), Aside4, tx[w].step \notin After,
           tx'[w].step \notin After, Announced(w)'
    PROVE  MirrorInv'
<1>1. db' = db /\ drift' = drift /\ deleted' = deleted /\ kv' = kv  BY DEF Aside4
<1>2. \A c : ~Waiting(w, c) /\ ~Sending(w, c) /\ ~Sending(w, c)'
  BY DEF Waiting, Sending, After
<1>3. \A c \in Cred : kv'[c] \in {kv[c], Bound(c)}  BY <1>1
<1>4. QED  BY <1>1, <1>2, <1>3, MirrorStep

\* A request goes on, and writes nothing.
LEMMA MirrorMove ==
    ASSUME EstateInv, MirrorInv, NEW w \in Worker, Aside4, tx[w].step \notin After,
           NEW s, s \notin After,
           \/ tx' = Answered(w) /\ s = "finish"
           \/ \E l : tx' = Goto(w, s, l)
           \/ \E l, d : tx' = Open(w, s, l, d)
           \/ \E l, i : tx' = Captures(w, s, l, i)
           \/ \E d : tx' = Loads(w, s, d)
           \/ tx' = RolledBack(w, s)
           \/ tx' = Resets(w, s)
           \/ tx' = Idles(w) /\ s = "idle"
    PROVE  MirrorInv'
<1>1. ShapeInv  BY DEF EstateInv
<1>2. /\ Others(w) /\ tx'[w].step = s
      /\ \/ tx'[w].own = tx[w].own /\ tx'[w].hooks = tx[w].hooks
         \/ tx'[w].own = NoRows
  <2>1. CASE tx' = Answered(w) /\ s = "finish"  BY <1>1, <2>1, AnsweredFields
  <2>2. CASE \E l : tx' = Goto(w, s, l)  BY <1>1, <2>2, GotoFields
  <2>3. CASE \E l, d : tx' = Open(w, s, l, d)
    <3>1. PICK l, d : tx' = Open(w, s, l, d)  BY <2>3
    <3>2. QED  BY ONLY <1>1, <3>1, w \in Worker, BeginFields
  <2>4. CASE \E l, i : tx' = Captures(w, s, l, i)  BY <1>1, <2>4, CaptureFields
  <2>5. CASE \E d : tx' = Loads(w, s, d)  BY <1>1, <2>5, LoadFields
  <2>6. CASE tx' = RolledBack(w, s)  BY <1>1, <2>6, RolledBackFields
  <2>7. CASE tx' = Resets(w, s)  BY <1>1, <2>7, ResetFields
  <2>8. CASE tx' = Idles(w) /\ s = "idle"  BY <1>1, <2>8, IdleFields
  <2>9. QED  BY <2>1, <2>2, <2>3, <2>4, <2>5, <2>6, <2>7, <2>8
<1>3. Announced(w)'
  <2>1. Announced(w)  BY DEF MirrorInv
  <2>2. CASE tx'[w].own = tx[w].own /\ tx'[w].hooks = tx[w].hooks
    BY <2>1, <2>2 DEF Announced, Publish
  <2>3. CASE tx'[w].own = NoRows  BY <2>3 DEF Announced, NoRows
  <2>4. QED  BY <1>2, <2>2, <2>3
<1>4. QED  BY <1>2, <1>3, MirrorLight

\* A request writes, with a callback for every owner of a written assignment.
LEMMA MirrorWrite ==
    ASSUME EstateInv, TypesInv, MirrorInv, NEW w \in Worker, Aside4, tx[w].step \notin After,
           NEW s, s \notin After, NEW rows, NEW h, NEW l, tx' = Write(w, rows, h, s, l),
           NEW S, h \in Seq(S),
           \A row \in DOMAIN rows : row[1] = "assignment" =>
               \A r \in rows[row] : \E i \in DOMAIN h : h[i] = Publish(r.cred)
    PROVE  MirrorInv'
<1>1. ShapeInv /\ tx[w].hooks \in Seq(Calls) /\ Announced(w)  BY TypedBase DEF MirrorInv
<1>2. /\ Others(w) /\ tx'[w].step = s /\ tx'[w].own = Over(rows, tx[w].own)
      /\ tx'[w].hooks = tx[w].hooks \o h
  <2>1. ShapeInv  BY <1>1
  <2>2. QED  BY ONLY <2>1, w \in Worker, tx' = Write(w, rows, h, s, l), WriteFields
<1> DEFINE g == tx[w].hooks
           k == g \o h
<1>3. /\ \A i \in DOMAIN g : i \in DOMAIN k /\ k[i] = g[i]
      /\ \A i \in DOMAIN h : Len(g) + i \in DOMAIN k /\ k[Len(g) + i] = h[i]
  <2>1. g \in Seq(Calls)  BY <1>1
  <2> HIDE DEF g
  <2>2. QED  BY <2>1
<1>4. tx'[w].hooks = k /\ tx[w].hooks = g  BY <1>2
<1> HIDE DEF g, k
<1>5. ASSUME NEW row \in DOMAIN tx'[w].own, row[1] = "assignment", NEW r \in tx'[w].own[row]
      PROVE  \E i \in DOMAIN k : k[i] = Publish(r.cred)
  <2>1. CASE row \in DOMAIN rows
    <3>1. r \in rows[row]  BY <1>2, <1>5, <2>1 DEF Over
    <3>2. PICK i \in DOMAIN h : h[i] = Publish(r.cred)  BY <1>5, <2>1, <3>1
    <3>3. QED  BY <1>3, <3>2
  <2>2. CASE row \notin DOMAIN rows
    <3>1. row \in DOMAIN tx[w].own /\ r \in tx[w].own[row]  BY <1>2, <1>5, <2>2 DEF Over
    <3>2. PICK i \in DOMAIN g : g[i] = Publish(r.cred)  BY <1>1, <1>4, <1>5, <3>1 DEF Announced
    <3>3. QED  BY <1>3, <3>2
  <2>3. QED  BY <2>1, <2>2
<1>6. Announced(w)'  BY <1>4, <1>5 DEF Announced, Publish
<1>7. QED  BY <1>2, <1>6, MirrorLight

\* One row that is no assignment, with any callbacks.
LEMMA MirrorPlain ==
    ASSUME EstateInv, TypesInv, MirrorInv, NEW w \in Worker, Aside4, tx[w].step \notin After,
           NEW s, s \notin After, NEW row, row[1] # "assignment", NEW records,
           NEW h, NEW l, NEW S, h \in Seq(S),
           \/ tx' = Write(w, Only(row, records), h, s, l)
           \/ tx' = Write(w, NoRows, h, s, l)
    PROVE  MirrorInv'
<1>1. DOMAIN Only(row, records) = {row} /\ DOMAIN NoRows = {}  BY DEF Only, NoRows
<1>2. ASSUME NEW rows, \A x \in DOMAIN rows : x[1] # "assignment", tx' = Write(w, rows, h, s, l)
      PROVE  MirrorInv'
  <2>1. \A x \in DOMAIN rows : x[1] = "assignment" =>
            \A r \in rows[x] : \E i \in DOMAIN h : h[i] = Publish(r.cred)
    BY <1>2
  <2>2. QED
    BY ONLY EstateInv, TypesInv, MirrorInv, w \in Worker, Aside4, tx[w].step \notin After,
       s \notin After, h \in Seq(S), <1>2, <2>1, MirrorWrite
<1>3. \A x \in DOMAIN Only(row, records) : x[1] # "assignment"  BY <1>1
<1>4. \A x \in DOMAIN NoRows : x[1] # "assignment"  BY <1>1
<1>5. QED  BY <1>2, <1>3, <1>4

\* The settings.
LEMMA MirrorSettings ==
    ASSUME EstateInv, TypesInv, MirrorInv, NEW w \in Worker, SettingsWork(w), UNCHANGED graphVars
    PROVE  MirrorInv'
<1>0. Aside4
  BY DEF graphVars, Aside4, SettingsWork, Configure, Unset, _save_locked, delete_settings,
     _lock_for_prefix_write
<1>1. /\ tx[w].step \notin After
      /\ "prefix" \notin After /\ "locked" \notin After /\ "finish" \notin After
      /\ "failed" \notin After /\ "commit" \notin After
  BY DEF SettingsWork, Configure, Unset, _save_locked, delete_settings, _lock_for_prefix_write,
     Ready, At, After
<1>2. CASE Configure(w) \/ Unset(w)
  <2>1. \/ tx' = Answered(w)
        \/ \E l, d : tx' = Open(w, "prefix", l, d)
    BY <1>2, Zenon DEF Configure, Unset
  <2>2. QED  BY <1>0, <1>1, <2>1, MirrorMove
<1>3. CASE _lock_for_prefix_write(w)
  <2>1. \E l : tx' = Goto(w, "locked", l)  BY <1>3, Zenon DEF _lock_for_prefix_write
  <2>2. QED  BY <1>0, <1>1, <2>1, MirrorMove
<1>4. CASE _save_locked(w) \/ delete_settings(w)
  <2>1. \/ tx' = RolledBack(w, "failed")
        \/ \E r : \/ tx' = Write(w, Only(Singleton, r), <<>>, "commit", <<>>)
                  \/ tx' = Write(w, NoRows, <<>>, "commit", <<>>)
    BY <1>4, Zenon DEF _save_locked, delete_settings
  <2>2. Singleton[1] # "assignment" /\ <<>> \in Seq(Calls)  BY DEF Singleton
  <2>3. CASE tx' = RolledBack(w, "failed")  BY <1>0, <1>1, <2>3, MirrorMove
  <2>4. ASSUME NEW r, \/ tx' = Write(w, Only(Singleton, r), <<>>, "commit", <<>>)
                      \/ tx' = Write(w, NoRows, <<>>, "commit", <<>>)
        PROVE  MirrorInv'
    BY ONLY EstateInv, TypesInv, MirrorInv, w \in Worker, <1>0, <1>1, <2>2, <2>4, MirrorPlain
  <2>5. QED  BY <2>1, <2>3, <2>4
<1>5. QED  BY <1>2, <1>3, <1>4 DEF SettingsWork

\* The engine authentication material, but for its callback.
LEMMA MirrorIdentity ==
    ASSUME EstateInv, TypesInv, IdentityInv, MirrorInv, NEW w \in Worker, IdentityWork(w),
           UNCHANGED graphVars, ~invalidate_auth_material_sessions(w)
    PROVE  MirrorInv'
<1>1. Aside4  BY TypedIdentity DEF graphVars, Aside4
<1>2. tx[w].step \notin After
  BY DEF IdentityWork, Rotate, Reencrypt, save, Withdraw, DeleteMaterial, get_backend,
     refresh_auth_material, Reload, _get_client, Keep, Present, Ready, At, After
<1>3. \A s \in {"merge", "withdraw", "client", "reload", "present", "keep", "refresh", "finish",
                "failed", "commit"} : s \notin After
  BY DEF After
<1>4. CASE Rotate(w) \/ Reencrypt(w) \/ Withdraw(w)
  <2>1. \/ tx' = Answered(w)
        \/ \E s \in {"merge", "withdraw"} : \E l, d : tx' = Open(w, s, l, d)
    BY <1>4, Zenon DEF Rotate, Reencrypt, Withdraw
  <2>2. QED  BY <1>1, <1>2, <1>3, <2>1, MirrorMove
<1>5. CASE save(w) \/ DeleteMaterial(w)
  <2>1. \/ tx' = RolledBack(w, "failed")
        \/ \E r, n : tx' = Write(w, Only(Material, r), <<Invalidate(n)>>, "commit", <<>>)
    BY <1>5, Zenon DEF save, DeleteMaterial
  <2>2. CASE tx' = RolledBack(w, "failed")  BY <1>1, <1>2, <1>3, <2>2, MirrorMove
  <2>3. ASSUME NEW r, NEW n, tx' = Write(w, Only(Material, r), <<Invalidate(n)>>, "commit", <<>>)
        PROVE  MirrorInv'
    <3> DEFINE d == Invalidate(n)
               h == <<d>>
    <3>1. tx' = Write(w, Only(Material, r), h, "commit", <<>>)  BY <2>3
    <3> HIDE DEF d
    <3>2. h \in Seq({d})  OBVIOUS
    <3> HIDE DEF h
    <3>3. Material[1] # "assignment" /\ "commit" \notin After  BY <1>3 DEF Material
    <3>4. QED
      BY ONLY EstateInv, TypesInv, MirrorInv, w \in Worker, <1>1, <1>2, <3>1, <3>2, <3>3,
         MirrorPlain
  <2>4. QED  BY <2>1, <2>2, <2>3
<1>6. CASE \/ get_backend(w) \/ refresh_auth_material(w) \/ Reload(w) \/ _get_client(w) \/ Keep(w)
           \/ Present(w)
  <2>1. \/ tx' = Answered(w)
        \/ \E s \in {"client", "reload", "present", "keep", "refresh", "finish"} :
              (\E l : tx' = Goto(w, s, l)) \/ (\E d : tx' = Loads(w, s, d))
    BY <1>6, Zenon DEF get_backend, refresh_auth_material, Reload, _get_client, Keep, Present, Loads
  <2>2. QED  BY <1>1, <1>2, <1>3, <2>1, MirrorMove
<1>7. QED  BY <1>4, <1>5, <1>6 DEF IdentityWork

\* What is written about an assignment is announced.
LEMMA MirrorRewrites ==
    ASSUME EstateInv, TypesInv, MirrorInv, NEW w \in Worker, Rewrites(w), Aside4,
           tx[w].step \in {"assign", "rebind", "remove"}
    PROVE  MirrorInv'
<1>1. PICK a, records, l, x, y : \E owners \in SUBSET Cred :
        /\ owners \subseteq {x, y} /\ \A r \in records : r.cred \in owners
        /\ tx' = Write(w, Only(Assignment(a), records), defer_custom_metadata(owners), "commit", l)
  BY DEF Rewrites
<1>2. PICK owners \in SUBSET Cred :
        /\ owners \subseteq {x, y} /\ \A r \in records : r.cred \in owners
        /\ tx' = Write(w, Only(Assignment(a), records), defer_custom_metadata(owners), "commit", l)
  BY <1>1
<1> DEFINE h == defer_custom_metadata(owners)
           rows == Only(Assignment(a), records)
<1>3. /\ h \in Seq(Calls)
      /\ \A c \in owners : \E i \in DOMAIN h : h[i] = Publish(c)
  BY <1>2, Deferred
<1>4. DOMAIN rows = {Assignment(a)} /\ rows[Assignment(a)] = records  BY DEF Only
<1>5. tx' = Write(w, rows, h, "commit", l)  BY <1>2
<1> HIDE DEF h, rows
<1>6. \A row \in DOMAIN rows : row[1] = "assignment" =>
          \A r \in rows[row] : \E i \in DOMAIN h : h[i] = Publish(r.cred)
  BY <1>2, <1>3, <1>4
<1>7. tx[w].step \notin After /\ "commit" \notin After  BY DEF After
<1>8. QED
  BY ONLY EstateInv, TypesInv, MirrorInv, w \in Worker, Aside4, <1>3, <1>5, <1>6, <1>7, MirrorWrite

\* A deletion's writes: the collected rows go, and nothing they become names an owner.
LEMMA MirrorDeletes ==
    ASSUME EstateInv, TypesInv, MirrorInv, NEW w \in Worker, Aside4,
           Clear(w) \/ destroy_material_on_delete(w)
    PROVE  MirrorInv'
<1>0. Kinds(w, tx[w].step)  BY TypedBase
<1>1. tx[w].step \notin After /\ "drop" \notin After /\ "commit" \notin After
  BY DEF Clear, destroy_material_on_delete, At, After
<1>2. CASE Clear(w)
  <2> DEFINE c == Job(w).cred
             rows == DOMAIN tx[w].loaded
             owners == IF rows = {} THEN {} ELSE {c}
             h == defer_custom_metadata(owners)
             cleared == [r \in rows |-> {}]
  <2>1. Has(w, "delete")  BY <1>0, <1>2 DEF Clear, At, Kinds
  <2>2. c \in Cred
    <3>1. Request(Job(w), db)  BY <2>1, JobTyped DEF Has
    <3>2. QED  BY <2>1, <3>1 DEF Has, Request
  <2>3. h \in Seq(Calls)
    <3>1. owners \in SUBSET Cred /\ owners \subseteq {c, c}  BY <2>2
    <3> HIDE DEF owners, c
    <3>2. QED  BY <3>1, Deferred
  <2>4. tx' = Write(w, cleared, h, "drop", <<Credential(c)>>)  BY <1>2 DEF Clear
  <2>5. \A row \in DOMAIN cleared : cleared[row] = {}  OBVIOUS
  <2> HIDE DEF cleared, h
  <2>6. \A row \in DOMAIN cleared : row[1] = "assignment" =>
            \A r \in cleared[row] : \E i \in DOMAIN h : h[i] = Publish(r.cred)
    BY <2>5
  <2>7. QED
    BY ONLY EstateInv, TypesInv, MirrorInv, w \in Worker, Aside4, <1>1, <2>3, <2>4, <2>6, MirrorWrite
<1>3. CASE destroy_material_on_delete(w)
  <2> DEFINE row == Credential(Job(w).cred)
             d == Destroy(Job(w).cred)
             h == <<d>>
  <2>1. tx' = Write(w, Only(row, {}), h, "commit", <<>>)  BY <1>3 DEF destroy_material_on_delete
  <2>2. row[1] # "assignment"  BY DEF Credential
  <2> HIDE DEF row, d
  <2>3. h \in Seq({d})  OBVIOUS
  <2> HIDE DEF h
  <2>4. QED
    BY ONLY EstateInv, TypesInv, MirrorInv, w \in Worker, Aside4, <1>1, <2>1, <2>2, <2>3, MirrorPlain
<1>4. QED  BY <1>2, <1>3

\* Quick add's writes, and a stamped credential.
LEMMA MirrorInserts ==
    ASSUME EstateInv, TypesInv, MirrorInv, NEW w \in Worker, Aside4,
           Stamp(w) \/ _new_ip_address(w) \/ _get_or_create_service(w)
    PROVE  MirrorInv'
<1>1. /\ tx[w].step \notin After
      /\ \A s \in {"commit", "assign", "parent", "prefix", "failed"} : s \notin After
  BY DEF Stamp, _new_ip_address, _get_or_create_service, At, After
<1> DEFINE services == ServicesOf(w)
           chosen == IF services = {} THEN Service(Job(w).service) ELSE CHOOSE s \in services : TRUE
<1>2. chosen[1] = "service"
  <2>1. CASE services = {}  BY <2>1 DEF Service
  <2>2. CASE services # {}
    <3>1. chosen \in services  BY <2>2
    <3> HIDE DEF chosen
    <3>2. QED  BY <3>1 DEF ServicesOf, Table
  <2>3. QED  BY <2>1, <2>2
<1>3. \/ tx' = RolledBack(w, "failed")
      \/ \E r, l : \E s \in {"commit", "assign", "parent", "prefix"} :
            \/ tx' = Write(w, Only(Credential(Item(w).cred), r), <<>>, s, l)
            \/ \E a : tx' = Write(w, Only(Address(a), r), <<>>, s, l)
            \/ tx' = Write(w, NoRows, <<>>, s, l)
            \/ tx' = Write(w, Only(chosen, r), <<>>, s, l)
  <2>1. CASE Stamp(w)
    <3>1. \/ tx' = RolledBack(w, "failed")
          \/ \E r : \E s \in {"commit", "assign"} :
                tx' = Write(w, Only(Credential(Item(w).cred), {r}), <<>>, s, <<>>)
      BY <2>1, Zenon DEF Stamp
    <3> HIDE DEF chosen
    <3>2. QED  BY <3>1
  <2>2. CASE _new_ip_address(w)
    <3>1. \/ tx' = RolledBack(w, "failed")
          \/ \E l : tx' = Write(w, NoRows, <<>>, "parent", l)
          \/ \E l, a, r : tx' = Write(w, Only(Address(a), r), <<>>, "parent", l)
      BY <2>2, Zenon DEF _new_ip_address
    <3> HIDE DEF chosen
    <3>2. QED  BY <3>1
  <2>3. CASE _get_or_create_service(w)
    <3>1. \/ tx' = RolledBack(w, "failed")
          \/ \E r, l : \E s \in {"assign", "prefix"} : tx' = Write(w, Only(chosen, {r}), <<>>, s, l)
      BY <2>3, Zenon DEF _get_or_create_service
    <3> HIDE DEF chosen
    <3>2. QED  BY <3>1
  <2>4. QED  BY <2>1, <2>2, <2>3
<1> HIDE DEF chosen
<1>4. CASE tx' = RolledBack(w, "failed")  BY <1>1, <1>4, MirrorMove
<1>5. ASSUME NEW r, NEW l, NEW s \in {"commit", "assign", "parent", "prefix"},
             NEW row, row[1] # "assignment",
             \/ tx' = Write(w, Only(row, r), <<>>, s, l)
             \/ tx' = Write(w, NoRows, <<>>, s, l)
      PROVE  MirrorInv'
  <2>1. <<>> \in Seq(Calls) /\ s \notin After  BY <1>1
  <2>2. QED
    BY ONLY EstateInv, TypesInv, MirrorInv, w \in Worker, Aside4, <1>1, <1>5, <2>1, MirrorPlain
<1>6. /\ Credential(Item(w).cred)[1] # "assignment" /\ chosen[1] # "assignment"
      /\ \A a : Address(a)[1] # "assignment"
  BY <1>2 DEF Credential, Address
<1>7. QED  BY <1>3, <1>4, <1>5, <1>6

\* Every step of the graph that is no callback.
LEMMA MirrorGraph ==
    ASSUME EstateInv, TypesInv, MirrorInv, NEW w \in Worker, GraphWork(w),
           ~_publish_custom_metadata(w), ~Project(w), ~set_metadata(w), ~delete_material(w),
           ~Respond(w)
    PROVE  MirrorInv'
<1>0. UNCHANGED <<jobs, db>>  BY GraphReads
<1>1. Aside4
  BY <1>0 DEF GraphWork, Create, Stamp, Assign, _assign, Reassign, capture_previous_credential,
     Rebind, Unassign, DeleteAssignment, Delete, Clear, destroy_material_on_delete, _lock_metadata,
     quick_add_ssh, _new_ip_address, LockService, _get_or_create_service, import_secrets,
     ImportSecret, NextSecret, Imported, Quiet, graphVars, Aside4
<1>2. CASE \/ Create(w) \/ Assign(w) \/ Reassign(w) \/ Unassign(w) \/ _lock_metadata(w)
           \/ quick_add_ssh(w) \/ Delete(w)
  <2>1. /\ tx[w].step \notin After
        /\ \A s \in {"prefix", "assign", "previous", "remove", "commit", "parent", "address", "clear",
                     "finish"} : s \notin After
    BY <1>2 DEF Create, Assign, Reassign, Unassign, _lock_metadata, quick_add_ssh, Delete, Ready, At,
       After
  <2>2. \/ tx' = Answered(w)
        \/ \E s \in {"prefix", "assign", "previous", "remove", "commit", "parent", "address",
                     "clear"} : \E l, d : tx' = Open(w, s, l, d)
    BY <1>2, Zenon DEF Create, Assign, Reassign, Unassign, _lock_metadata, quick_add_ssh, Delete
  <2>3. QED  BY <1>1, <2>1, <2>2, MirrorMove
<1>3. CASE _assign(w)
  <2>1. tx[w].step = "assign" /\ (tx' = Goto(w, "commit", <<>>) \/ Rewrites(w))
    BY <1>3, AssignRewrites
  <2>2. "commit" \notin After /\ tx[w].step \notin After  BY <2>1 DEF After
  <2>3. QED  BY <1>1, <2>1, <2>2, MirrorMove, MirrorRewrites
<1>4. CASE Rebind(w) \/ DeleteAssignment(w)
  BY <1>1, <1>4, RebindRewrites, RemoveRewrites, MirrorRewrites
<1>5. CASE capture_previous_credential(w) \/ LockService(w) \/ import_secrets(w)
  <2>1. \/ tx[w].step = "previous" /\ \E l, i : tx' = Captures(w, "rebind", l, i)
        \/ tx[w].step = "parent" /\ \E l : tx' = Goto(w, "service", l)
        \/ tx[w].step = "idle" /\ \E l : tx' = Goto(w, "secret", l)
    BY <1>5, Zenon DEF capture_previous_credential, LockService, import_secrets, Ready, At, Captures
  <2>2. /\ "rebind" \notin After /\ "service" \notin After /\ "secret" \notin After
        /\ tx[w].step \notin After
    BY <2>1 DEF After
  <2>3. QED  BY <1>1, <2>1, <2>2, MirrorMove
<1>6. CASE Stamp(w) \/ _new_ip_address(w) \/ _get_or_create_service(w)
  BY <1>1, <1>6, MirrorInserts
<1>7. CASE Clear(w) \/ destroy_material_on_delete(w)  BY <1>1, <1>7, MirrorDeletes
<1>8. CASE ImportSecret(w)
  <2>1. tx[w].step = "secret"  BY <1>8 DEF ImportSecret, At
  <2>2. tx[w].step \notin After /\ "prefix" \notin After  BY <2>1 DEF After
  <2>3. CASE \E l, d : tx' = Open(w, "prefix", l, d)  BY <1>1, <2>2, <2>3, MirrorMove
  <2>4. CASE tx' = tx
    <3>1. Announced(w) /\ Others(w)  BY <2>4 DEF MirrorInv, Others
    <3>2. Announced(w)'  BY <2>4, <3>1 DEF Announced, Publish
    <3>3. QED  BY <1>1, <2>2, <2>4, <3>1, <3>2, MirrorLight
  <2>5. QED
    <3>1. tx' = tx \/ \E l, d : tx' = Open(w, "prefix", l, d)  BY <1>8, Zenon DEF ImportSecret
    <3>2. QED  BY <2>3, <2>4, <3>1
<1>9. CASE NextSecret(w)
  <2>1. tx[w].step \notin After /\ "secret" \notin After /\ tx' = Resets(w, "secret")
    BY <1>9 DEF NextSecret, Resets, After
  <2>2. QED  BY <1>1, <2>1, MirrorMove
<1>10. CASE Imported(w)
  <2>1. tx[w].step \notin After /\ "finish" \notin After /\ tx' = Answered(w)
    BY <1>10 DEF Imported, At, After
  <2>2. QED  BY <1>1, <2>1, MirrorMove
<1>11. QED  BY <1>2, <1>3, <1>4, <1>5, <1>6, <1>7, <1>8, <1>9, <1>10 DEF GraphWork

--------------------------------------------------------------------------------
(***************************************************************************)
(* Publishing, committing and dying.                                       *)
(***************************************************************************)

\* A callback has been made: nobody waits for it any more.
LEMMA MirrorCalled ==
    ASSUME EstateInv, TypesInv, MirrorInv, NEW w \in Worker, tx[w].step \in After,
           tx[w].hooks # <<>>, Others(w), db' = db, deleted' = deleted, drift \subseteq drift',
           tx'[w].step = "callbacks", DOMAIN tx'[w].own = {}, tx'[w].hooks = Tail(tx[w].hooks),
           \A c \in Cred : kv'[c] # kv[c] =>
               db[Credential(c)] # {} /\ Sending(w, c) /\ kv'[c] = tx[w].image,
           \A c \in Cred : Head(tx[w].hooks).call = "publish" /\ Subject(w) = c =>
               \/ db[Credential(c)] = {} \/ c \in drift'
               \/ tx[w].step = "send" /\ kv'[c] = tx[w].image
    PROVE  MirrorInv'
<1> DEFINE h == tx[w].hooks
           t == Tail(tx[w].hooks)
<1>0. h \in Seq(Calls)  BY TypedBase
<1>1. /\ Head(h) = h[1]
      /\ \A i \in DOMAIN t : i + 1 \in DOMAIN h /\ t[i] = h[i + 1]
      /\ \A i \in DOMAIN h : i > 1 => i - 1 \in DOMAIN t /\ t[i - 1] = h[i]
      /\ \A i \in DOMAIN h : i > 1 \/ i = 1
  BY <1>0, TailSeq
<1>2. tx'[w].hooks = t /\ tx[w].hooks = h  OBVIOUS
<1> HIDE DEF h, t
<1>3. Announced(w)'  BY DEF Announced
<1>4. ASSUME NEW c \in Cred, db[Credential(c)] # {}, c \notin drift', Waiting(w, c)
      PROVE  Waiting(w, c)'
  <2>1. PICK i \in DOMAIN h : h[i] = Publish(c) /\ (i = 1 => tx[w].step # "send")
    BY <1>2, <1>4 DEF Waiting
  <2>2. CASE i = 1
    <3>1. Head(h).call = "publish" /\ Subject(w) = c
      BY <1>1, <1>2, <2>1, <2>2 DEF Publish, Subject
    <3>2. QED  BY <1>2, <1>4, <2>1, <2>2, <3>1
  <2>3. CASE i > 1
    <3>1. i - 1 \in DOMAIN t /\ t[i - 1] = Publish(c)  BY <1>1, <2>1, <2>3
    <3>2. QED  BY <1>2, <3>1 DEF Waiting, Publish, After
  <2>4. QED  BY <1>1, <2>2, <2>3
<1>5. ASSUME NEW c \in Cred, db[Credential(c)] # {}, c \notin drift', Sending(w, c)
      PROVE  kv'[c] = tx[w].image
  <2>1. tx[w].step = "send" /\ Subject(w) = c  BY <1>5 DEF Sending
  <2>2. Head(tx[w].hooks).call = "publish"  BY <2>1, SubjectTyped
  <2>3. QED  BY <1>5, <2>1, <2>2
<1>6. \A c : ~Sending(w, c)'  BY DEF Sending
<1>7. QED  BY <1>3, <1>4, <1>5, <1>6, MirrorStep

\* A worker goes on with the same callbacks.
LEMMA MirrorSame ==
    ASSUME MirrorInv, NEW w \in Worker, Others(w), Aside4, tx'[w].own = tx[w].own,
           tx'[w].hooks = tx[w].hooks,
           \/ tx'[w].step = tx[w].step /\ tx'[w].image = tx[w].image
           \/ tx[w].step = "callbacks" /\ tx'[w].step = "project"
    PROVE  MirrorInv'
<1>1. db' = db /\ drift' = drift /\ deleted' = deleted /\ kv' = kv  BY DEF Aside4
<1>2. Announced(w)
  BY DEF MirrorInv
<1>3. Announced(w)'  BY <1>2 DEF Announced, Publish
<1>4. \A c : Waiting(w, c) => Waiting(w, c)'  BY DEF Waiting, Publish, After
<1>5. \A c : Sending(w, c) => Sending(w, c)'  BY DEF Sending, Subject
<1>6. \A c : Sending(w, c)' => Sending(w, c) /\ tx'[w].image = tx[w].image
  BY DEF Sending, Subject
<1>7. QED  BY <1>1, <1>3, <1>4, <1>5, <1>6, MirrorStep

\* What a publisher reads is what is committed.
LEMMA ReadsBound ==
    ASSUME TypesInv, NEW w \in Worker, DOMAIN tx[w].own = {}, NEW c
    PROVE  build_custom_metadata(w, c) = Bound(c)
<1>1. \A row : Seen(w, row) = db[row]  BY DEF Seen
<1>2. ASSUME NEW a \in DOMAIN db
      PROVE  (db[a] # {} /\ The(db[a]).cred = c) <=> \E r \in db[a] : r.cred = c
  <2>1. RowTyped(a, db[a])  BY DEF TypesInv, RowsTyped
  <2>2. \A r \in db[a] : The(db[a]) = r  BY <2>1, OnlyRecord
  <2>3. QED  BY <2>2
<1>3. {a \in Table(w, "assignment") : The(Seen(w, a)).cred = c}
      = {a \in DOMAIN db : a[1] = "assignment" /\ \E r \in db[a] : r.cred = c}
  BY <1>1, <1>2 DEF Table
<1>4. QED  BY <1>1, <1>3 DEF build_custom_metadata, Bound

\* A publisher has read what it sends, and nobody else sends for that credential.
LEMMA MirrorReads ==
    ASSUME EstateInv, TypesInv, FateInv, MirrorInv, NEW w \in Worker, Aside4,
           tx[w].step = "project", tx[w].wants = <<>>,
           tx' = Images(w, "send", build_custom_metadata(w, Subject(w)))
    PROVE  MirrorInv'
<1>0. "project" \in After  BY DEF After
<1>1. ShapeInv /\ Ordered(w) /\ DOMAIN tx[w].own = {} /\ tx[w].hooks \in Seq(Calls)
  BY <1>0, AfterBase
<1>2. Subject(w) \in Cred  BY SubjectTyped
<1>3. build_custom_metadata(w, Subject(w)) = Bound(Subject(w))  BY <1>1, ReadsBound
<1>4. /\ Others(w) /\ tx'[w].step = "send" /\ tx'[w].own = tx[w].own
      /\ tx'[w].hooks = tx[w].hooks /\ tx'[w].image = Bound(Subject(w))
  BY <1>1, <1>3, ImageFields
<1>5. db' = db /\ drift' = drift /\ deleted' = deleted /\ kv' = kv  BY DEF Aside4
<1>6. Announced(w)'  BY <1>1, <1>4 DEF Announced
<1>7. \A c : Sending(w, c)' <=> Subject(w) = c  BY <1>4 DEF Sending, Subject
<1>8. \A c : ~Sending(w, c)  BY DEF Sending
<1>9. ASSUME NEW v \in Worker \ {w} PROVE ~Sending(v, Subject(w))
  <2>1. SUFFICES ASSUME tx[v].step = "send", Subject(v) = Subject(w) PROVE FALSE
    BY DEF Sending
  <2>2. Ordered(v)  BY DEF FateInv, Fated
  <2>3. tx[v].held = {Projection(Subject(w))}  BY <2>1, <2>2 DEF Ordered
  <2>4. tx[w].held = {Projection(Subject(w))}  BY <1>1 DEF Ordered
  <2>5. tx[v].held \cap tx[w].held = {}  BY DEF EstateInv, LockInv
  <2>6. QED  BY <2>3, <2>4, <2>5
<1>10. ASSUME NEW c \in Cred, Waiting(w, c)
       PROVE  Waiting(w, c)' \/ (Subject(w) = c /\ Sending(w, c)')
  <2>1. PICK i \in DOMAIN tx[w].hooks : tx[w].hooks[i] = Publish(c)  BY <1>10 DEF Waiting
  <2>2. CASE i = 1
    <3>1. Head(tx[w].hooks) = tx[w].hooks[1]
      BY <1>1, <2>1, <2>2
    <3>2. Subject(w) = c  BY <2>1, <2>2, <3>1 DEF Subject, Publish
    <3>3. QED  BY <1>7, <3>2
  <2>3. CASE i # 1
    BY <1>4, <2>1, <2>3 DEF Waiting, Publish, After
  <2>4. QED  BY <2>2, <2>3
<1>11. QED  BY <1>4, <1>5, <1>6, <1>7, <1>8, <1>9, <1>10, MirrorStep

\* The callbacks that follow a commit.
LEMMA MirrorPublish ==
    ASSUME EstateInv, TypesInv, FateInv, MirrorInv, NEW w \in Worker,
           UNCHANGED <<jobs, db, run, deleted>>,
           \/ _publish_custom_metadata(w) \/ Project(w) \/ set_metadata(w) \/ delete_material(w)
           \/ Respond(w)
    PROVE  MirrorInv'
<1>0. tx[w].step \in After
  BY DEF _publish_custom_metadata, Project, set_metadata, delete_material, Respond, NextCall, At,
     After
<1>1. /\ ShapeInv /\ Ordered(w) /\ tx[w].hooks \in Seq(Calls) /\ DOMAIN tx[w].own = {}
      /\ db' = db /\ deleted' = deleted
  BY <1>0, AfterBase
<1>2. ASSUME tx' = Called(w), tx[w].hooks # <<>>, drift \subseteq drift',
             \A c \in Cred : kv'[c] # kv[c] =>
                 db[Credential(c)] # {} /\ Sending(w, c) /\ kv'[c] = tx[w].image,
             \A c \in Cred : Head(tx[w].hooks).call = "publish" /\ Subject(w) = c =>
                 \/ db[Credential(c)] = {} \/ c \in drift'
                 \/ tx[w].step = "send" /\ kv'[c] = tx[w].image
      PROVE  MirrorInv'
  <2>1. /\ Others(w) /\ tx'[w].step = "callbacks" /\ tx'[w].own = NoRows
        /\ tx'[w].hooks = Tail(tx[w].hooks)
    BY <1>1, <1>2, CalledFields
  <2>2. DOMAIN tx'[w].own = {}  BY <2>1 DEF NoRows
  <2>3. QED  BY <1>0, <1>1, <1>2, <2>1, <2>2, MirrorCalled
<1>3. CASE _publish_custom_metadata(w)
  <2>1. tx[w].step = "callbacks" /\ tx[w].hooks # <<>> /\ Aside4
    BY <1>3 DEF _publish_custom_metadata, NextCall, At, Quiet, graphVars, Aside4
  <2>2. \/ db[Credential(Subject(w))] = {} /\ tx' = Called(w)
        \/ tx' = Publishes(w, "project", <<Projection(Subject(w))>>)
    BY <1>3 DEF _publish_custom_metadata, Publishes
  <2>3. CASE db[Credential(Subject(w))] = {} /\ tx' = Called(w)
    BY <1>2, <2>1, <2>3 DEF Aside4
  <2>4. CASE tx' = Publishes(w, "project", <<Projection(Subject(w))>>)
    <3> DEFINE l == <<Projection(Subject(w))>>
    <3>1. tx' = Publishes(w, "project", l)  BY <2>4
    <3> HIDE DEF l
    <3>2. /\ Others(w) /\ tx'[w].step = "project" /\ tx'[w].own = tx[w].own
          /\ tx'[w].hooks = tx[w].hooks
      <4>1. ShapeInv  BY <1>1
      <4>2. QED  BY ONLY <3>1, <4>1, w \in Worker, PublishFields
    <3>3. QED  BY <2>1, <3>2, MirrorSame
  <2>5. QED  BY <2>2, <2>3, <2>4
<1>4. CASE Project(w)
  <2>1. tx[w].step = "project" /\ tx[w].wants = <<>> /\ Aside4
    BY <1>4 DEF Project, At, Quiet, graphVars, Aside4
  <2>2. tx[w].hooks # <<>>  BY <2>1, SubjectTyped
  <2>3. \/ db[Credential(Subject(w))] = {} /\ tx' = Called(w)
        \/ tx' = Images(w, "send", build_custom_metadata(w, Subject(w)))
    BY <1>4 DEF Project, Images
  <2>4. CASE db[Credential(Subject(w))] = {} /\ tx' = Called(w)
    BY <1>2, <2>1, <2>2, <2>4 DEF Aside4
  <2>5. CASE tx' = Images(w, "send", build_custom_metadata(w, Subject(w)))
    BY <2>1, <2>5, MirrorReads
  <2>6. QED  BY <2>3, <2>4, <2>5
<1>5. CASE set_metadata(w)
  <2>1. tx[w].step = "send" /\ tx' = Called(w)  BY <1>5 DEF set_metadata, At
  <2>2. tx[w].hooks # <<>> /\ Subject(w) \in Cred /\ db[Credential(Subject(w))] # {}
    BY <1>1, <2>1, SubjectTyped DEF Ordered
  <2>3. /\ drift \subseteq drift'
        /\ \/ kv' = [kv EXCEPT ![Subject(w)] = tx[w].image]
           \/ kv' = kv /\ Subject(w) \in drift'
    BY <1>5 DEF set_metadata
  <2>4. kv \in [Cred -> SUBSET Target]  BY DEF TypesInv
  <2>5. /\ \A c \in Cred : kv'[c] # kv[c] => c = Subject(w) /\ kv'[c] = tx[w].image
        /\ kv'[Subject(w)] = tx[w].image \/ Subject(w) \in drift'
    BY <2>2, <2>3, <2>4
  <2>6. Sending(w, Subject(w))  BY <2>1 DEF Sending
  <2>7. QED  BY <1>2, <2>1, <2>2, <2>3, <2>5, <2>6
<1>6. CASE delete_material(w)
  <2>1. /\ tx[w].hooks # <<>> /\ Head(tx[w].hooks).call = "destroy" /\ tx' = Called(w)
        /\ drift \subseteq drift' /\ kv' = kv
    BY <1>6 DEF delete_material, NextCall
  <2>2. QED  BY <1>2, <2>1
<1>7. CASE Respond(w)
  <2>1. /\ tx[w].step = "callbacks" /\ tx[w].hooks = <<>> /\ tx' = Answered(w)
        /\ kv' = kv /\ drift' = drift
    BY <1>7 DEF Respond, At, Quiet, graphVars
  <2>2. Others(w) /\ tx'[w].step = "finish" /\ tx'[w].own = tx[w].own
    BY <1>1, <2>1, AnsweredFields
  <2>3. \A c : ~Waiting(w, c) /\ ~Sending(w, c) /\ ~Sending(w, c)'
    BY <2>1, <2>2 DEF Waiting, Sending
  <2>4. Announced(w)'  BY <1>1, <2>2 DEF Announced
  <2>5. QED  BY <1>1, <2>1, <2>2, <2>3, <2>4, MirrorStep
<1>8. QED  BY <1>3, <1>4, <1>5, <1>6, <1>7

\* The callback of a rotation publishes nothing.
LEMMA MirrorInvalidate ==
    ASSUME EstateInv, TypesInv, IdentityInv, MirrorInv, NEW w \in Worker, IdentityWork(w),
           UNCHANGED graphVars, invalidate_auth_material_sessions(w)
    PROVE  MirrorInv'
<1>1. db' = db /\ drift' = drift /\ deleted' = deleted /\ kv' = kv
  BY TypedIdentity DEF graphVars
<1>2. /\ tx[w].step = "callbacks" /\ tx[w].hooks # <<>> /\ tx' = Unhooks(w)
      /\ Head(tx[w].hooks).call = "invalidate"
  BY DEF invalidate_auth_material_sessions, At, Unhooks
<1>3. ShapeInv /\ tx[w].step \in After /\ tx[w].step \notin Writing
  BY <1>2, TypedBase DEF After, Writing
<1>4. DOMAIN tx[w].own = {}  BY <1>3, TypedBase
<1>5. /\ Others(w) /\ tx'[w].step = "callbacks" /\ DOMAIN tx'[w].own = {}
      /\ tx'[w].hooks = Tail(tx[w].hooks)
  BY <1>2, <1>3, <1>4, HooksFields
<1>6. \A c \in Cred : ~(Head(tx[w].hooks).call = "publish")  BY <1>2
<1>7. QED  BY <1>1, <1>2, <1>3, <1>5, <1>6, MirrorCalled

\* A worker dies: what it had still to publish is known to drift.
LEMMA MirrorCrash ==
    ASSUME EstateInv, TypesInv, MirrorInv, NEW w \in Worker, Crash(w), drift' = drift \cup Lost(w),
           UNCHANGED <<deleted, kv>>
    PROVE  MirrorInv'
<1>1. /\ tx' = Resets(w, "dead") /\ db' = db /\ deleted' = deleted /\ kv' = kv
      /\ drift' = drift \cup Lost(w) /\ ShapeInv
  BY DEF Crash, Resets, EstateInv
<1>2. Others(w) /\ tx'[w].step = "dead" /\ tx'[w].own = NoRows  BY <1>1, ResetFields
<1>3. Announced(w)'  BY <1>2 DEF Announced, NoRows
<1>4. \A c : ~Sending(w, c)'  BY <1>2 DEF Sending
<1>5. ASSUME NEW c, Waiting(w, c) PROVE c \in drift'
  <2>1. PICK i \in DOMAIN tx[w].hooks : tx[w].hooks[i] = Publish(c)  BY <1>5 DEF Waiting
  <2>2. tx[w].hooks[i] \in Range(tx[w].hooks)  BY DEF Range
  <2>3. Publish(c).call # "invalidate" /\ Publish(c).cred = c  BY DEF Publish
  <2>4. tx[w].step \in {"callbacks", "project", "send"}  BY <1>5 DEF Waiting, After
  <2>5. c \in Lost(w)  BY <2>1, <2>2, <2>3, <2>4 DEF Lost
  <2>6. QED  BY <1>1, <2>5
<1>6. ASSUME NEW c, Sending(w, c) PROVE c \in drift'
  <2>1. tx[w].step = "send" /\ Subject(w) = c  BY <1>6 DEF Sending
  <2>2. /\ tx[w].hooks # <<>> /\ Head(tx[w].hooks).call = "publish" /\ tx[w].hooks \in Seq(Calls)
    BY <2>1, SubjectTyped, TypedBase
  <2>3. Head(tx[w].hooks) = tx[w].hooks[1] /\ 1 \in DOMAIN tx[w].hooks  BY <2>2
  <2>4. Head(tx[w].hooks) \in Range(tx[w].hooks)  BY <2>3 DEF Range
  <2>5. c \in Lost(w)  BY <2>1, <2>2, <2>4 DEF Lost, Subject
  <2>6. QED  BY <1>1, <2>5
<1>7. QED  BY <1>1, <1>2, <1>3, <1>4, <1>5, <1>6, MirrorStep

\* Nothing of the requests, the rows and the mount.
LEMMA MirrorStutter ==
    ASSUME MirrorInv, UNCHANGED <<db, tx, drift, deleted, kv>> PROVE MirrorInv'
<1>1. db' = db /\ tx' = tx /\ drift' = drift /\ deleted' = deleted /\ kv' = kv  OBVIOUS
<1>2. \A v \in Worker : /\ Announced(v)'
                        /\ \A c : Waiting(v, c)' <=> Waiting(v, c)
                        /\ \A c : Sending(v, c)' <=> Sending(v, c)
  BY <1>1, MirrorAside DEF MirrorInv
<1>3. ASSUME NEW c \in Cred PROVE Mirrored(c)' /\ Unborn(c)'
  <2>1. Mirrored(c) /\ Unborn(c)  BY DEF MirrorInv
  <2>2. Bound(c)' = Bound(c) /\ Credential(c)' = Credential(c)  BY <1>1 DEF Bound, Credential
  <2>3. Mirrored(c)'  BY <1>1, <1>2, <2>1, <2>2 DEF Mirrored
  <2>4. Unborn(c)'  BY <1>1, <2>1, <2>2 DEF Unborn
  <2>5. QED  BY <2>3, <2>4
<1>4. Consistent(db)'
  <2>1. Consistent(db)  BY DEF MirrorInv
  <2>2. QED  BY ONLY <1>1, <2>1 DEF Consistent
<1>5. QED  BY <1>2, <1>3, <1>4 DEF MirrorInv

\* With foreign keys held, nothing is bound to a credential that is not there.
LEMMA Unbound ==
    ASSUME TypesInv, Consistent(db), NEW c, db[Credential(c)] = {} PROVE Bound(c) = {}
<1>1. ASSUME NEW row \in DOMAIN db, row[1] = "assignment", NEW r \in db[row] PROVE r.cred # c
  <2>1. RowTyped(row, db[row])  BY DEF TypesInv, RowsTyped
  <2>2. The(db[row]) = r  BY <2>1, OnlyRecord
  <2>3. db[<<"credential", r.cred>>] # {}  BY <1>1, <2>2 DEF Consistent
  <2>4. QED  BY <2>3 DEF Credential
<1>2. {a \in DOMAIN db : a[1] = "assignment" /\ \E r \in db[a] : r.cred = c} = {}  BY <1>1
<1>3. QED  BY <1>2 DEF Bound

\* A commit leaves alone what is bound to those it announces nothing of and misses not.
LEMMA StillBound ==
    ASSUME NEW w, NEW c \in Cred, Announced(w), db' = Over(tx[w].own, db), c \notin Missed(w),
           \A i \in DOMAIN tx[w].hooks : tx[w].hooks[i] # Publish(c)
    PROVE  Bound(c)' = Bound(c)
<1>1. Publish(c) \notin Range(tx[w].hooks)  BY DEF Range
<1>2. \A row \in DOMAIN tx[w].own : row[1] = "assignment" =>
          /\ \A r \in db[row] : r.cred # c
          /\ \A r \in tx[w].own[row] : r.cred # c
  BY <1>1 DEF Missed, Announced
<1>3. /\ DOMAIN db' = DOMAIN tx[w].own \cup DOMAIN db
      /\ \A row \in DOMAIN db' : db'[row] = IF row \in DOMAIN tx[w].own THEN tx[w].own[row] ELSE db[row]
  BY DEF Over
<1> DEFINE S == {a \in DOMAIN db : a[1] = "assignment" /\ \E r \in db[a] : r.cred = c}
           T == {a \in DOMAIN db' : a[1] = "assignment" /\ \E r \in db'[a] : r.cred = c}
<1>4. \A a : a \in T => a \in S  BY <1>2, <1>3
<1>5. \A a : a \in S => a \in T /\ db'[a] = db[a]  BY <1>2, <1>3
<1>6. Bound(c) = {The(db[row]).target : row \in S}  BY DEF Bound
<1>7. Bound(c)' = {The(db'[row]).target : row \in T}  BY DEF Bound, The
<1> HIDE DEF S, T
<1>8. S = T /\ \A a \in S : db'[a] = db[a]  BY <1>4, <1>5
<1>9. QED  BY <1>6, <1>7, <1>8

\* A commit that succeeds.
LEMMA MirrorCommitted ==
    ASSUME EstateInv, TypesInv, FateInv, MirrorInv, NEW w \in Worker, tx[w].step = "commit",
           tx' = Commits(w), db' = Over(tx[w].own, db), Consistent(db'), kv' = kv,
           deleted' = deleted \cup {c \in Cred : Vanishes(Credential(c))},
           drift' = drift \cup Missed(w)
    PROVE  MirrorInv'
<1>0. ShapeInv /\ "callbacks" \in After /\ tx[w].step \notin After  BY DEF EstateInv, After
<1>1. /\ Others(w) /\ tx'[w].step = "callbacks" /\ tx'[w].own = NoRows
      /\ tx'[w].hooks = tx[w].hooks
  BY <1>0, CommittedFields
<1>2. \A v \in Worker \ {w} : tx'[v] = tx[v]  BY <1>1 DEF Others
<1>3. ASSUME NEW v \in Worker, v # w
      PROVE  /\ Announced(v)'
             /\ \A c : Waiting(v, c)' <=> Waiting(v, c)
             /\ \A c : Sending(v, c)' <=> Sending(v, c)
  BY <1>2, <1>3, MirrorAside DEF MirrorInv
<1>4. Announced(w)'  BY <1>1 DEF Announced, NoRows
<1>5. \A c : ~Waiting(w, c) /\ ~Sending(w, c) /\ ~Sending(w, c)'
  BY <1>0, <1>1 DEF Waiting, Sending
<1>6. ASSUME NEW c \in Cred PROVE Mirrored(c)' /\ Unborn(c)'
  <2>1. Mirrored(c) /\ Unborn(c)  BY DEF MirrorInv
  <2>2. Credential(c)' = Credential(c) /\ Credential(c) \in Drawn  BY DEF Credential, Drawn
  <2>3. Unborn(c)'
    <3>1. SUFFICES ASSUME db'[Credential(c)] = {}, c \notin deleted' PROVE kv[c] = {}
      BY <2>2 DEF Unborn
    <3>2. db[Credential(c)] = {} /\ c \notin deleted  BY <3>1 DEF Vanishes
    <3>3. QED  BY <2>1, <3>2 DEF Unborn
  <2>4. ASSUME db'[Credential(c)] # {}, c \notin drift'
        PROVE  /\ kv[c] # Bound(c)' => \E v \in Worker : Waiting(v, c)' \/ Sending(v, c)'
               /\ \A v \in Worker : Sending(v, c)' /\ tx'[v].image # Bound(c)' =>
                    \E u \in Worker : Waiting(u, c)'
    <3>1. CASE \E i \in DOMAIN tx[w].hooks : tx[w].hooks[i] = Publish(c)
      <4>1. Waiting(w, c)'  BY <1>0, <1>1, <3>1 DEF Waiting, Publish, After
      <4>2. QED  BY <4>1
    <3>2. CASE \A i \in DOMAIN tx[w].hooks : tx[w].hooks[i] # Publish(c)
      <4>1. Announced(w) /\ c \notin Missed(w) /\ c \notin drift  BY <2>4 DEF MirrorInv
      <4>2. Bound(c)' = Bound(c)  BY <3>2, <4>1, StillBound
      <4>3. CASE db[Credential(c)] # {}
        <5>1. /\ kv[c] # Bound(c) => \E v \in Worker : Waiting(v, c) \/ Sending(v, c)
              /\ \A v \in Worker : Sending(v, c) /\ tx[v].image # Bound(c) =>
                   \E u \in Worker : Waiting(u, c)
          BY <2>1, <4>1, <4>3 DEF Mirrored
        <5>2. \A v \in Worker : Waiting(v, c) => Waiting(v, c)'  BY <1>3, <1>5
        <5>3. \A v \in Worker : Sending(v, c) <=> Sending(v, c)'  BY <1>3, <1>5
        <5>4. \A v \in Worker : Sending(v, c) => tx'[v] = tx[v]  BY <1>2, <1>5
        <5>5. QED  BY <4>2, <5>1, <5>2, <5>3, <5>4
      <4>4. CASE db[Credential(c)] = {}
        <5>1. Draft(w, Credential(c))  BY <2>2, <2>4, <4>4, CommittedRows
        <5>2. c \notin deleted  BY <2>2, <5>1 DEF FateInv, DraftsOK
        <5>3. kv[c] = {} /\ Bound(c) = {}  BY <2>1, <4>4, <5>2, Unbound DEF Unborn, MirrorInv
        <5>4. ASSUME NEW v \in Worker, Sending(v, c)' PROVE FALSE
          <6>1. Sending(v, c)  BY <1>3, <1>5, <5>4
          <6>2. db[Credential(c)] # {}  BY <6>1 DEF Sending, FateInv, Fated, Ordered
          <6>3. QED  BY <4>4, <6>2
        <5>5. QED  BY <4>2, <5>3, <5>4
      <4>5. QED  BY <4>3, <4>4
    <3>3. QED  BY <3>1, <3>2
  <2>5. Mirrored(c)'
    <3>1. kv'[c] = kv[c]  OBVIOUS
    <3>2. QED  BY <2>2, <2>4, <3>1 DEF Mirrored
  <2>6. QED  BY <2>3, <2>5
<1>7. \A v \in Worker : Announced(v)'  BY <1>3, <1>4
<1>8. Consistent(db)'  BY DEF Consistent
<1>9. QED  BY <1>6, <1>7, <1>8 DEF MirrorInv

\* A commit, with its history.
LEMMA MirrorCommit ==
    ASSUME EstateInv, TypesInv, FateInv, MirrorInv, NEW w \in Worker, CommitEstate(w)
    PROVE  MirrorInv'
<1>0. ShapeInv  BY DEF EstateInv
<1>1. /\ tx[w].step = "commit" /\ kv' = kv
      /\ deleted' = deleted \cup {c \in Cred : Vanishes(Credential(c))}
      /\ drift' = IF tx'[w].step = "callbacks" THEN drift \cup Missed(w) ELSE drift
  BY DEF CommitEstate, Commit, At
<1>2. \/ db' = Over(tx[w].own, db) /\ tx' = Commits(w) /\ Consistent(Over(tx[w].own, db))
      \/ db' = db /\ tx' = RolledBack(w, "failed")
  BY DEF CommitEstate, Commit, Commits
<1>3. CASE db' = Over(tx[w].own, db) /\ tx' = Commits(w) /\ Consistent(Over(tx[w].own, db))
  <2>1. tx'[w].step = "callbacks"  BY <1>0, <1>3, CommittedFields
  <2>2. drift' = drift \cup Missed(w) /\ Consistent(db')  BY <1>1, <1>3, <2>1
  <2>3. QED  BY <1>1, <1>3, <2>2, MirrorCommitted
<1>4. CASE db' = db /\ tx' = RolledBack(w, "failed")
  <2>1. tx'[w].step = "failed"  BY <1>0, <1>4, RolledBackFields
  <2>2. Aside4  BY <1>1, <1>4, <2>1 DEF Vanishes, Aside4
  <2>3. tx[w].step \notin After /\ "failed" \notin After  BY <1>1 DEF After
  <2>4. QED  BY <1>4, <2>2, <2>3, MirrorMove
<1>5. QED  BY <1>2, <1>3, <1>4

--------------------------------------------------------------------------------
(***************************************************************************)
(* In quiet OpenBao lists what NetBox has.                                 *)
(***************************************************************************)

\* MirrorInv is inductive.
LEMMA NextMirror ==
    ASSUME EstateInv, IdentityInv, TypesInv, FateInv, MirrorInv, [Next]_vars PROVE MirrorInv'
<1>1. ASSUME NEW w \in Worker, Serves(w) PROVE MirrorInv'
  <2>1. CASE SettingsWork(w) /\ UNCHANGED <<graphVars, identityVars>>  BY <2>1, MirrorSettings
  <2>2. CASE GraphWork(w)
    <3>1. CASE \/ _publish_custom_metadata(w) \/ Project(w) \/ set_metadata(w) \/ delete_material(w)
               \/ Respond(w)
      <4>1. UNCHANGED <<jobs, db>>  BY <2>2, GraphReads
      <4>2. UNCHANGED <<run, deleted>>
        BY <3>1 DEF _publish_custom_metadata, Project, set_metadata, delete_material, Respond, Quiet,
           graphVars
      <4>3. QED  BY <3>1, <4>1, <4>2, MirrorPublish
    <3>2. QED  BY <2>2, <3>1, MirrorGraph
  <2>3. CASE IdentityWork(w) /\ UNCHANGED <<settingsVars, graphVars>>
    BY <2>3, MirrorIdentity, MirrorInvalidate
  <2>4. CASE EndRequest(w) /\ UNCHANGED <<graphVars, identityVars>>
    <3>1. tx[w].step \notin After /\ "idle" \notin After /\ tx' = Idles(w) /\ Aside4
      BY <2>4 DEF EndRequest, Finish, Idles, After, graphVars, Aside4
    <3>2. QED  BY <3>1, MirrorMove
  <2>5. CASE CommitEstate(w)  BY <2>5, MirrorCommit
  <2>6. CASE PostgreSQL(w)
    <3>1. UNCHANGED graphVars /\ tx[w].wants # <<>>  BY <2>6 DEF PostgreSQL
    <3>2. CASE Grant(w)
      <4>1. \E locked : tx' = Grants(w, locked)  BY <3>2, Zenon DEF Grant, Grants
      <4>2. Aside4 /\ ShapeInv  BY <3>1, <3>2 DEF Grant, graphVars, Aside4, EstateInv
      <4>3. /\ Others(w) /\ tx'[w].step = tx[w].step /\ tx'[w].image = tx[w].image
            /\ tx'[w].own = tx[w].own /\ tx'[w].hooks = tx[w].hooks
        BY <4>1, <4>2, GrantFields
      <4>4. QED  BY <4>2, <4>3, MirrorSame
    <3>3. CASE Victim(w)
      <4>1. tx[w].step \notin After /\ "failed" \notin After  BY <3>1, <3>3, NoPublisher DEF After
      <4>2. tx' = RolledBack(w, "failed") /\ Aside4  BY <3>1, <3>3 DEF Victim, graphVars, Aside4
      <4>3. QED  BY <4>1, <4>2, MirrorMove
    <3>4. QED  BY <2>6, <3>2, <3>3 DEF PostgreSQL
  <2>7. QED  BY <1>1, <2>1, <2>2, <2>3, <2>4, <2>5, <2>6 DEF Serves, Work
<1>2. ASSUME NEW w \in Worker, Fails(w) PROVE MirrorInv'
  <2>1. CASE Refuse(w) /\ UNCHANGED <<settingsVars, graphVars, identityVars>>
    <3>1. tx[w].step \notin After /\ "failed" \notin After  BY <2>1 DEF Refuse, At, After
    <3>2. tx' = RolledBack(w, "failed") /\ Aside4  BY <2>1 DEF Refuse, graphVars, Aside4
    <3>3. QED  BY <3>1, <3>2, MirrorMove
  <2>2. CASE Crash(w) /\ drift' = drift \cup Lost(w) /\ UNCHANGED <<deleted, kv>>
    BY <2>2, MirrorCrash
  <2>3. QED  BY <1>2, <2>1, <2>2 DEF Fails
<1>3. ASSUME NEW w \in Worker, Consult(w), UNCHANGED <<graphVars, identityVars>> PROVE MirrorInv'
  BY <1>3, MirrorStutter DEF Consult, graphVars
<1>4. CASE Expire /\ UNCHANGED <<settingsVars, graphVars>>
  BY <1>4, MirrorStutter DEF Expire, settingsVars, graphVars
<1>5. CASE UNCHANGED vars  BY <1>5, MirrorStutter DEF vars, settingsVars, graphVars
<1>6. QED  BY <1>1, <1>2, <1>3, <1>4, <1>5 DEF Next

\* OpenBao lists what NetBox has.
LEMMA InitMirror ==
    ASSUME Init, TypesInv PROVE MirrorInv
<1>1. PICK load \in Workloads : db = load.rows  BY DEF Init, DatabaseInit
<1>2. tx = [w \in Worker |-> Idle] /\ kv = [c \in Cred |-> Bound(c)]
  BY DEF Init, DatabaseInit, GraphInit
<1>3. \A w \in Worker : tx[w].step = "idle" /\ tx[w].own = NoRows  BY <1>2 DEF Idle
<1>4. \A w \in Worker : Announced(w) /\ \A c : ~Sending(w, c)
  BY <1>3 DEF Announced, Sending, NoRows
<1>5. Consistent(db)  BY <1>1, KeyAssumption
<1>6. \A c \in Cred : Mirrored(c)  BY <1>2, <1>4 DEF Mirrored
<1>7. \A c \in Cred : Unborn(c)  BY <1>2, <1>5, Unbound DEF Unborn
<1>8. QED  BY <1>4, <1>5, <1>6, <1>7 DEF MirrorInv

\* What is still to be published or sent, in every state.
THEOREM MirrorCorrect == Spec => []MirrorInv
<1>1. Init => TypesInv  BY InitTypes
<1>2. TypesInv /\ Init => MirrorInv  BY InitMirror
<1>3. Init => IdentityInv  BY InitIdentity
<1>4. EstateInv /\ EstateInv' /\ IdentityInv /\ [Next]_vars => IdentityInv'  BY NextIdentity
<1>5. EstateInv /\ IdentityInv /\ TypesInv /\ FateInv /\ MirrorInv /\ [Next]_vars => MirrorInv'
  BY NextMirror
<1>6. QED  BY <1>1, <1>2, <1>3, <1>4, <1>5, EstateCorrect, TypesCorrect, FateCorrect, PTL DEF Spec

\* When all is quiet OpenBao lists what NetBox has.
THEOREM ProjectionsCurrent == Spec => []ProjectionCurrent
<1>1. ASSUME MirrorInv PROVE ProjectionCurrent
  <2> SUFFICES ASSUME Quiescent, NEW c \in Cred, db[Credential(c)] # {}, c \notin drift
               PROVE  kv[c] = Bound(c)
    BY DEF ProjectionCurrent
  <2>1. Mirrored(c)  BY <1>1 DEF MirrorInv
  <2>2. \A w \in Worker : ~Waiting(w, c) /\ ~Sending(w, c)
    BY DEF Quiescent, Waiting, Sending, After
  <2>3. QED  BY <2>1, <2>2 DEF Mirrored
<1>2. QED  BY <1>1, MirrorCorrect, PTL

================================================================================
