------------------------- MODULE CredentialTypesProofs -------------------------
(***************************************************************************)
(* Proofs about CredentialEstate, after CredentialEstateProofs: every row, *)
(* lock, callback and request keeps its type, in every instance.           *)
(*                                                                         *)
(* TypesInv adds to EstateInv where each request stands: which rows a step *)
(* may rely on having loaded, which callbacks it can still have, and that  *)
(* a connection has a transaction exactly at the steps inside one. The     *)
(* rows stay finite sets because nobody inserts a row but the request that *)
(* drew its key.                                                           *)
(***************************************************************************)
EXTENDS CredentialEstateProofs, FunctionTheorems, FiniteSetTheorems, SequenceTheorems

\* The steps that follow a commit, those of no transaction, and the callbacks.
After == {"callbacks", "project", "send"}
Closed == {"idle", "dead", "finish", "failed", "callbacks", "secret"} \cup Calling
Calls == [call : {"publish", "destroy"}, cred : Cred] \cup [call : {"invalidate"}, revision : Nat]

\* Requests are typed.
JobsTyped ==
    \A w \in Worker :
        /\ jobs[w] \in Seq(Range(jobs[w]))
        /\ \A i \in DOMAIN jobs[w] : Request(jobs[w][i], db)
RunTyped ==
    /\ run = [w \in Worker |-> run[w]]
    /\ \A w \in Worker :
         /\ run[w] = [known |-> run[w].known, at |-> run[w].at, reported |-> run[w].reported]
         /\ run[w].at \in Nat \ {0}
FreshTyped == \A w \in Worker : \A rows \in fresh[w] : \A r \in rows : r.prefix \in Prefix

\* Where a request of the graph stands tells what it has loaded, and what it goes on with.
Stage(w) ==
    LET t == tx[w]
        a == Assignment(Job(w).assignment)
    IN
    /\ t.step \in {"previous", "rebind"} => a \in DOMAIN t.loaded /\ t.loaded[a] # {}
    /\ t.step = "remove" => a \in DOMAIN t.loaded
    /\ t.step = "rebind" => t.image \subseteq Cred /\ \A c, d \in t.image : c = d
    /\ t.step = "withdraw" => The(t.loaded[Material]).revision \in Nat
    /\ t.step \in {"project", "send"} => t.hooks # <<>> /\ Head(t.hooks).call = "publish"
    /\ t.step = "send" => t.image \subseteq Target
    /\ Has(w, "import") /\ t.step \in {"prefix", "locked", "assign", "commit"} => Importing(w)
    /\ Has(w, "quickadd") /\ t.step \in {"prefix", "locked"} => ~Job(w).existing
    /\ Has(w, "quickadd") /\ t.step \in {"prefix", "locked", "assign"} =>
         \E row \in DOMAIN t.own \cap DOMAIN db :
            row[1] = "service" /\ \E s \in t.own[row] : Named(s) = Named(Job(w))

\* A connection has typed rows and hooks, and a transaction open when it has written.
ConnTyped(w) ==
    LET t == tx[w] IN
    /\ t.open \in BOOLEAN
    /\ RowsTyped(t.own) /\ RowsTyped(t.loaded)
    /\ t.hooks \in Seq(Calls)
    /\ t.hooks # <<>> => t.step \in {"drop", "commit"} \cup After
    /\ t.step = "drop" => Len(t.hooks) <= 1
    /\ Len(t.hooks) <= 3
    /\ (t.open <=> t.step \notin Closed)
    /\ DOMAIN t.own # {} => t.open
    /\ Stage(w)

\* Everything has its type, and the rows under drawn keys are there to be inserted.
TypesInv ==
    /\ JobsTyped /\ RunTyped /\ FreshTyped
    /\ Drawn \subseteq DOMAIN db /\ RowsTyped(db)
    /\ \A w \in Worker : ConnTyped(w)
    /\ live \cup drift \cup deleted \subseteq Cred
    /\ kv \in [Cred -> SUBSET Target]

--------------------------------------------------------------------------------
(***************************************************************************)
(* Sequences, functions and rows.                                          *)
(***************************************************************************)

\* A sequence is one over its own elements.
LEMMA SelfSeq ==
    ASSUME NEW S, NEW s \in Seq(S) PROVE s \in Seq(Range(s))
<1>1. Len(s) \in Nat /\ DOMAIN s = 1..Len(s) /\ s = [i \in 1..Len(s) |-> s[i]]  OBVIOUS
<1>2. \A i \in 1..Len(s) : s[i] \in Range(s)  BY <1>1 DEF Range
<1>3. s \in [1..Len(s) -> Range(s)]  BY <1>1, <1>2
<1>4. QED  BY <1>1, <1>3, SeqDef

\* What follows the first element.
LEMMA TailSeq ==
    ASSUME NEW S, NEW s \in Seq(S), s # <<>>
    PROVE  /\ Tail(s) \in Seq(S) /\ 1 \in DOMAIN s /\ Head(s) = s[1] /\ Head(s) \in S
           /\ Len(Tail(s)) = Len(s) - 1 /\ Len(s) \in Nat \ {0}
           /\ \A i \in DOMAIN Tail(s) : i + 1 \in DOMAIN s /\ Tail(s)[i] = s[i + 1]
           /\ \A i \in DOMAIN s : i > 1 => i - 1 \in DOMAIN Tail(s) /\ Tail(s)[i - 1] = s[i]
OBVIOUS

\* SetToSeq lists a finite set.
LEMMA SetToSeqLists ==
    ASSUME NEW S, IsFiniteSet(S)
    PROVE  /\ SetToSeq(S) \in Seq(S) /\ Len(SetToSeq(S)) = Cardinality(S)
           /\ \A x \in S : \E i \in DOMAIN SetToSeq(S) : SetToSeq(S)[i] = x
<1> DEFINE n == Cardinality(S)
<1>1. n \in Nat  BY FS_CardinalityType
<1>2. ExistsBijection(1..n, S)  BY FS_CardinalityType
<1>3. PICK f \in Bijection(1..n, S) : TRUE  BY <1>2 DEF ExistsBijection
<1>4. f \in [1..n -> S] /\ \A a, b \in 1..n : f[a] = f[b] => a = b
  BY <1>3, Fun_BijectionProperties
<1>5. IsInjective(f)  BY <1>4 DEF IsInjective
<1>6. SetToSeq(S) \in [1..n -> S] /\ IsInjective(SetToSeq(S))
  BY <1>4, <1>5, Zenon DEF SetToSeq
<1> DEFINE g == SetToSeq(S)
<1> HIDE DEF g
<1>7. g \in [1..n -> S] /\ \A a, b \in 1..n : g[a] = g[b] => a = b
  BY <1>6 DEF IsInjective, g
<1>8. g \in Seq(S) /\ Len(g) = n /\ DOMAIN g = 1..n  BY <1>1, <1>7, SeqDef
<1>9. g \in Injection(1..n, S)  BY <1>7, Fun_IsInj
<1>10. IsFiniteSet(1..n) /\ Cardinality(1..n) = n  BY <1>1, FS_Interval
<1>11. Range(g) = S
  <2>1. g \in Bijection(1..n, Range(g))  BY <1>9, Fun_InjMeansBijImage
  <2>2. Range(g) \subseteq S  BY <1>7 DEF Range
  <2>3. Cardinality(Range(g)) = n /\ IsFiniteSet(Range(g))
    BY <1>10, <2>1, FS_Bijection DEF ExistsBijection
  <2>4. QED  BY <2>2, <2>3, FS_Subset
<1>12. \A x \in S : \E i \in DOMAIN g : g[i] = x  BY <1>11 DEF Range
<1>13. QED  BY <1>8, <1>12 DEF g

--------------------------------------------------------------------------------
(***************************************************************************)
(* What the operators of DatabaseTransaction do to a connection.           *)
(***************************************************************************)

\* No rows are typed rows.
LEMMA NoRowsTyped == RowsTyped(NoRows)
<1>1. DOMAIN NoRows = {} /\ Filled(NoRows) = {}  BY DEF NoRows, Filled
<1>2. IsFiniteSet({})  BY FS_EmptySet
<1>3. NoRows = [row \in DOMAIN NoRows |-> NoRows[row]]  BY DEF NoRows
<1>4. QED  BY <1>1, <1>2, <1>3 DEF RowsTyped

\* One row.
LEMMA OnlyTyped ==
    ASSUME NEW row, NEW records, RowTyped(row, records) PROVE RowsTyped(Only(row, records))
<1>1. /\ DOMAIN Only(row, records) = {row} /\ Only(row, records)[row] = records
      /\ Only(row, records) = [r \in DOMAIN Only(row, records) |-> Only(row, records)[r]]
  BY DEF Only
<1>2. Filled(Only(row, records)) \subseteq {row} /\ IsFiniteSet({row})
  BY <1>1, FS_Singleton DEF Filled
<1>3. IsFiniteSet(Filled(Only(row, records)))  BY <1>2, FS_Subset
<1>4. QED  BY <1>1, <1>3 DEF RowsTyped

\* Typed rows over typed rows.
LEMMA OverTyped ==
    ASSUME NEW a, NEW b, RowsTyped(a), RowsTyped(b) PROVE RowsTyped(Over(a, b))
<1>1. /\ DOMAIN Over(a, b) = DOMAIN a \cup DOMAIN b
      /\ \A row \in DOMAIN Over(a, b) : Over(a, b)[row] = IF row \in DOMAIN a THEN a[row] ELSE b[row]
      /\ Over(a, b) = [row \in DOMAIN Over(a, b) |-> Over(a, b)[row]]
  BY DEF Over
<1>2. Filled(Over(a, b)) \subseteq Filled(a) \cup Filled(b)  BY <1>1 DEF Filled
<1>3. IsFiniteSet(Filled(a) \cup Filled(b))  BY FS_Union DEF RowsTyped
<1>4. IsFiniteSet(Filled(Over(a, b)))  BY <1>2, <1>3, FS_Subset
<1>5. QED  BY <1>1, <1>4 DEF RowsTyped

\* Some of the typed rows.
LEMMA SomeTyped ==
    ASSUME NEW rows, RowsTyped(rows), NEW S, S \subseteq DOMAIN rows
    PROVE  RowsTyped([row \in S |-> rows[row]])
<1> DEFINE some == [row \in S |-> rows[row]]
<1>1. /\ DOMAIN some = S /\ \A row \in S : some[row] = rows[row]
      /\ some = [row \in DOMAIN some |-> some[row]]
  OBVIOUS
<1> HIDE DEF some
<1>2. Filled(some) \subseteq Filled(rows)  BY <1>1 DEF Filled
<1>3. IsFiniteSet(Filled(some))  BY <1>2, FS_Subset DEF RowsTyped
<1>4. RowsTyped(some)  BY <1>1, <1>3 DEF RowsTyped
<1>5. QED  BY <1>4 DEF some

\* One callback for each owner.
LEMMA Deferred ==
    ASSUME NEW creds \in SUBSET Cred, NEW a, NEW b, creds \subseteq {a, b}
    PROVE  /\ defer_custom_metadata(creds) \in Seq(Calls)
           /\ Len(defer_custom_metadata(creds)) <= 2
           /\ (a = b => Len(defer_custom_metadata(creds)) <= 1)
           /\ \A c \in creds : \E i \in DOMAIN defer_custom_metadata(creds) :
                 defer_custom_metadata(creds)[i] = Publish(c)
           /\ \A i \in DOMAIN defer_custom_metadata(creds) :
                 defer_custom_metadata(creds)[i].call = "publish"
<1> DEFINE P == {Publish(c) : c \in creds}
           s == defer_custom_metadata(creds)
<1>1. P \subseteq {Publish(a), Publish(b)}  BY DEF Publish
<1>2. IsFiniteSet({Publish(a)} \cup {Publish(b)}) /\ {Publish(a), Publish(b)} = {Publish(a)} \cup {Publish(b)}
  BY FS_AddElement, FS_EmptySet, FS_Singleton
<1>3. Cardinality({Publish(a), Publish(b)}) <= 2
  <2>1. {Publish(a), Publish(b)} = {Publish(a)} \cup {Publish(b)}  OBVIOUS
  <2>2. Cardinality({Publish(a)}) = 1 /\ IsFiniteSet({Publish(a)})  BY FS_Singleton
  <2>3. Cardinality({Publish(a)} \cup {Publish(b)}) \in {1, 2}  BY <2>2, FS_AddElement
  <2>4. QED  BY <2>1, <2>3
<1>4. IsFiniteSet(P) /\ Cardinality(P) <= Cardinality({Publish(a), Publish(b)})
  BY <1>1, <1>2, FS_Subset
<1>5. a = b => Cardinality(P) <= 1
  <2>1. SUFFICES ASSUME a = b PROVE Cardinality(P) <= 1
    OBVIOUS
  <2>2. {Publish(a), Publish(b)} = {Publish(a)}  BY <2>1
  <2>3. Cardinality({Publish(a)}) = 1  BY FS_Singleton
  <2>4. QED  BY <1>4, <2>2, <2>3
<1>6. s = SetToSeq(P)  BY DEF defer_custom_metadata
<1>7. P \subseteq Calls  BY DEF Publish, Calls
<1>8. \A p \in P : p.call = "publish"  BY DEF Publish
<1>9. \A c \in creds : Publish(c) \in P  OBVIOUS
<1> HIDE DEF P, s
<1>10. s \in Seq(P) /\ Len(s) = Cardinality(P) /\ \A x \in P : \E i \in DOMAIN s : s[i] = x
  BY <1>4, <1>6, SetToSeqLists
<1>11. Cardinality(P) \in Nat /\ Cardinality({Publish(a), Publish(b)}) \in Nat
  BY <1>2, <1>4, FS_CardinalityType
<1>12. s \in Seq(Calls)  BY <1>7, <1>10
<1>13. \A i \in DOMAIN s : s[i].call = "publish"  BY <1>8, <1>10
<1>14. Len(s) <= 2 /\ (a = b => Len(s) <= 1)  BY <1>3, <1>4, <1>5, <1>10, <1>11
<1>15. QED  BY <1>9, <1>10, <1>12, <1>13, <1>14 DEF s

\* A connection nobody moves stays typed.
LEMMA TypedFrame ==
    ASSUME NEW v, tx'[v] = tx[v], jobs'[v] = jobs[v], run'[v] = run[v],
           DOMAIN db \subseteq DOMAIN db', ConnTyped(v)
    PROVE  ConnTyped(v)'
BY DEF ConnTyped, Stage, Has, Job, Importing

Staged == {"previous", "rebind", "remove", "send", "prefix", "locked", "assign", "withdraw",
           "project"}

\* Most steps ask nothing of what was loaded.
LEMMA PlainStage ==
    ASSUME NEW w, NEW s, tx'[w].step = s, s \notin Staged,
           s = "commit" => ~Has(w, "import")'
    PROVE  Stage(w)'
BY DEF Stage, Staged


\* The moves that are written out in the actions.
Captures(w, s, l, i) == [tx EXCEPT ![w].step = s, ![w].wants = l, ![w].image = i]
Images(w, s, i) == [tx EXCEPT ![w].step = s, ![w].image = i]
Publishes(w, s, l) == [tx EXCEPT ![w].step = s, ![w].open = TRUE, ![w].wants = l]
Unhooks(w) == [tx EXCEPT ![w].hooks = Tail(@)]
Loads(w, s, d) == [tx EXCEPT ![w].step = s, ![w].loaded = d]
Grants(w, locked) == [tx EXCEPT ![w].wants = Tail(@), ![w].held = @ \cup locked]
Resets(w, s) == [tx EXCEPT ![w] = [Idle EXCEPT !.step = s]]
Idles(w) == [tx EXCEPT ![w] = Idle]
Commits(w) == [tx EXCEPT ![w] = [Idle EXCEPT !.step = "callbacks", !.hooks = tx[w].hooks,
                                             !.loaded = tx[w].loaded]]

\* What the operators of DatabaseTransaction leave in a connection, field by field.
LEMMA GotoFields ==
    ASSUME ShapeInv, NEW w \in Worker, NEW s, NEW l, tx' = Goto(w, s, l)
    PROVE  /\ Others(w) /\ tx'[w].step = s /\ tx'[w].open = tx[w].open /\ tx'[w].own = tx[w].own
           /\ tx'[w].held = tx[w].held /\ tx'[w].wants = l /\ tx'[w].hooks = tx[w].hooks
           /\ tx'[w].loaded = tx[w].loaded /\ tx'[w].image = tx[w].image
<1>1. Moves(w, Conn(s, tx[w].open, tx[w].own, tx[w].held, l, tx[w].hooks, tx[w].loaded, tx[w].image))
  BY GotoMoves
<1>2. QED  BY <1>1 DEF Moves, Conn, Others

\* A request that begins.
LEMMA BeginFields ==
    ASSUME ShapeInv, NEW w \in Worker, NEW s, NEW l, NEW d, tx' = Open(w, s, l, d)
    PROVE  /\ Others(w) /\ tx'[w].step = s /\ tx'[w].open = TRUE /\ tx'[w].own = tx[w].own
           /\ tx'[w].held = tx[w].held /\ tx'[w].wants = l /\ tx'[w].hooks = tx[w].hooks
           /\ tx'[w].loaded = d /\ tx'[w].image = tx[w].image
<1>1. Moves(w, Conn(s, TRUE, tx[w].own, tx[w].held, l, tx[w].hooks, d, tx[w].image))
  BY OpenMoves
<1>2. QED  BY <1>1 DEF Moves, Conn, Others

\* A statement that writes rows.
LEMMA WriteFields ==
    ASSUME ShapeInv, NEW w \in Worker, NEW rows, NEW h, NEW s, NEW l, tx' = Write(w, rows, h, s, l)
    PROVE  /\ Others(w) /\ tx'[w].step = s /\ tx'[w].open = tx[w].open
           /\ tx'[w].own = Over(rows, tx[w].own)
           /\ tx'[w].held = tx[w].held /\ tx'[w].wants = l /\ tx'[w].hooks = tx[w].hooks \o h
           /\ tx'[w].loaded = tx[w].loaded /\ tx'[w].image = tx[w].image
<1>1. Moves(w, Conn(s, tx[w].open, Over(rows, tx[w].own), tx[w].held, l, tx[w].hooks \o h,
                    tx[w].loaded, tx[w].image))
  BY WriteMoves
<1>2. QED  BY <1>1 DEF Moves, Conn, Others

\* A transaction rolled back.
LEMMA RolledBackFields ==
    ASSUME ShapeInv, NEW w \in Worker, NEW s, tx' = RolledBack(w, s)
    PROVE  /\ Others(w) /\ tx'[w].step = s /\ tx'[w].open = FALSE /\ tx'[w].own = NoRows
           /\ tx'[w].held = {} /\ tx'[w].wants = <<>> /\ tx'[w].hooks = <<>>
           /\ tx'[w].loaded = tx[w].loaded /\ tx'[w].image = {}
<1>1. Moves(w, Conn(s, FALSE, NoRows, {}, <<>>, <<>>, tx[w].loaded, {}))
  BY RolledBackMoves
<1>2. QED  BY <1>1 DEF Moves, Conn, Others

\* A request that is answered.
LEMMA AnsweredFields ==
    ASSUME ShapeInv, NEW w \in Worker, tx' = Answered(w)
    PROVE  /\ Others(w) /\ tx'[w].step = "finish" /\ tx'[w].open = tx[w].open
           /\ tx'[w].own = tx[w].own /\ tx'[w].held = tx[w].held /\ tx'[w].wants = tx[w].wants
           /\ tx'[w].hooks = tx[w].hooks /\ tx'[w].loaded = tx[w].loaded
           /\ tx'[w].image = tx[w].image
<1>1. Moves(w, Conn("finish", tx[w].open, tx[w].own, tx[w].held, tx[w].wants, tx[w].hooks,
                    tx[w].loaded, tx[w].image))
  BY AnsweredMoves
<1>2. QED  BY <1>1 DEF Moves, Conn, Others

\* A callback that has been made.
LEMMA CalledFields ==
    ASSUME ShapeInv, NEW w \in Worker, tx' = Called(w)
    PROVE  /\ Others(w) /\ tx'[w].step = "callbacks" /\ tx'[w].open = FALSE /\ tx'[w].own = NoRows
           /\ tx'[w].held = {} /\ tx'[w].wants = <<>> /\ tx'[w].hooks = Tail(tx[w].hooks)
           /\ tx'[w].loaded = tx[w].loaded /\ tx'[w].image = {}
<1>1. Moves(w, Conn("callbacks", FALSE, NoRows, {}, <<>>, Tail(tx[w].hooks), tx[w].loaded, {}))
  BY CalledMoves
<1>2. QED  BY <1>1 DEF Moves, Conn, Others

\* A row left out of what was loaded.
LEMMA ResetFields ==
    ASSUME ShapeInv, NEW w \in Worker, NEW s, tx' = Resets(w, s)
    PROVE  /\ Others(w) /\ tx'[w].step = s /\ tx'[w].open = FALSE /\ tx'[w].own = NoRows
           /\ tx'[w].held = {} /\ tx'[w].wants = <<>> /\ tx'[w].hooks = <<>>
           /\ tx'[w].loaded = NoRows /\ tx'[w].image = {}
<1>1. Moves(w, Conn(s, FALSE, NoRows, {}, <<>>, <<>>, NoRows, {}))
  BY ResetMoves DEF Resets
<1>2. QED  BY <1>1 DEF Moves, Conn, Others

\* A request over.
LEMMA IdleFields ==
    ASSUME ShapeInv, NEW w \in Worker, tx' = Idles(w)
    PROVE  /\ Others(w) /\ tx'[w].step = "idle" /\ tx'[w].open = FALSE /\ tx'[w].own = NoRows
           /\ tx'[w].held = {} /\ tx'[w].wants = <<>> /\ tx'[w].hooks = <<>>
           /\ tx'[w].loaded = NoRows /\ tx'[w].image = {}
<1>1. Moves(w, Conn("idle", FALSE, NoRows, {}, <<>>, <<>>, NoRows, {}))
  BY FinishMoves DEF Idles
<1>2. QED  BY <1>1 DEF Moves, Conn, Others

\* A transaction committed.
LEMMA CommittedFields ==
    ASSUME ShapeInv, NEW w \in Worker,
           tx' = Commits(w)
    PROVE  /\ Others(w) /\ tx'[w].step = "callbacks" /\ tx'[w].open = FALSE /\ tx'[w].own = NoRows
           /\ tx'[w].held = {} /\ tx'[w].wants = <<>> /\ tx'[w].hooks = tx[w].hooks
           /\ tx'[w].loaded = tx[w].loaded /\ tx'[w].image = {}
<1>1. Moves(w, Conn("callbacks", FALSE, NoRows, {}, <<>>, tx[w].hooks, tx[w].loaded, {}))
  BY CommittedMoves DEF Commits
<1>2. QED  BY <1>1 DEF Moves, Conn, Others

\* A lock granted.
LEMMA GrantFields ==
    ASSUME ShapeInv, NEW w \in Worker, NEW locked,
           tx' = Grants(w, locked)
    PROVE  /\ Others(w) /\ tx'[w].step = tx[w].step /\ tx'[w].open = tx[w].open
           /\ tx'[w].own = tx[w].own /\ tx'[w].held = tx[w].held \cup locked
           /\ tx'[w].wants = Tail(tx[w].wants) /\ tx'[w].hooks = tx[w].hooks
           /\ tx'[w].loaded = tx[w].loaded /\ tx'[w].image = tx[w].image
<1>1. Moves(w, Conn(tx[w].step, tx[w].open, tx[w].own, tx[w].held \cup locked,
                    Tail(tx[w].wants), tx[w].hooks, tx[w].loaded, tx[w].image))
  BY GrantMoves DEF Grants
<1>2. QED  BY ONLY <1>1 DEF Moves, Conn, Others

\* An image kept of some rows.
LEMMA CaptureFields ==
    ASSUME ShapeInv, NEW w \in Worker, NEW s, NEW l, NEW i,
           tx' = Captures(w, s, l, i)
    PROVE  /\ Others(w) /\ tx'[w].step = s /\ tx'[w].open = tx[w].open
           /\ tx'[w].own = tx[w].own /\ tx'[w].held = tx[w].held
           /\ tx'[w].wants = l /\ tx'[w].hooks = tx[w].hooks
           /\ tx'[w].loaded = tx[w].loaded /\ tx'[w].image = i
<1>1. Moves(w, Conn(s, tx[w].open, tx[w].own, tx[w].held, l, tx[w].hooks, tx[w].loaded, i))
  BY ImageMoves DEF Captures
<1>2. QED  BY ONLY <1>1 DEF Moves, Conn, Others

\* An image set.
LEMMA ImageFields ==
    ASSUME ShapeInv, NEW w \in Worker, NEW s, NEW i,
           tx' = Images(w, s, i)
    PROVE  /\ Others(w) /\ tx'[w].step = s /\ tx'[w].open = tx[w].open
           /\ tx'[w].own = tx[w].own /\ tx'[w].held = tx[w].held
           /\ tx'[w].wants = tx[w].wants /\ tx'[w].hooks = tx[w].hooks
           /\ tx'[w].loaded = tx[w].loaded /\ tx'[w].image = i
<1>1. Moves(w, Conn(s, tx[w].open, tx[w].own, tx[w].held, tx[w].wants, tx[w].hooks, tx[w].loaded,
                    i))
  BY ImageMoves DEF Images
<1>2. QED  BY ONLY <1>1 DEF Moves, Conn, Others

\* A callback registered.
LEMMA PublishFields ==
    ASSUME ShapeInv, NEW w \in Worker, NEW s, NEW l,
           tx' = Publishes(w, s, l)
    PROVE  /\ Others(w) /\ tx'[w].step = s /\ tx'[w].open = TRUE
           /\ tx'[w].own = tx[w].own /\ tx'[w].held = tx[w].held
           /\ tx'[w].wants = l /\ tx'[w].hooks = tx[w].hooks
           /\ tx'[w].loaded = tx[w].loaded /\ tx'[w].image = tx[w].image
<1>1. Moves(w, Conn(s, TRUE, tx[w].own, tx[w].held, l, tx[w].hooks, tx[w].loaded,
                    tx[w].image))
  BY PublishMoves DEF Publishes
<1>2. QED  BY ONLY <1>1 DEF Moves, Conn, Others

\* Callbacks registered.
LEMMA HooksFields ==
    ASSUME ShapeInv, NEW w \in Worker, tx' = Unhooks(w)
    PROVE  /\ Others(w) /\ tx'[w].step = tx[w].step /\ tx'[w].open = tx[w].open
           /\ tx'[w].own = tx[w].own /\ tx'[w].held = tx[w].held
           /\ tx'[w].wants = tx[w].wants /\ tx'[w].hooks = Tail(tx[w].hooks)
           /\ tx'[w].loaded = tx[w].loaded /\ tx'[w].image = tx[w].image
<1>1. Moves(w, Conn(tx[w].step, tx[w].open, tx[w].own, tx[w].held, tx[w].wants,
                    Tail(tx[w].hooks), tx[w].loaded, tx[w].image))
  BY HooksMoves DEF Unhooks
<1>2. QED  BY <1>1 DEF Moves, Conn, Others

\* Rows loaded.
LEMMA LoadFields ==
    ASSUME ShapeInv, NEW w \in Worker, NEW s, NEW d,
           tx' = Loads(w, s, d)
    PROVE  /\ Others(w) /\ tx'[w].step = s /\ tx'[w].open = tx[w].open
           /\ tx'[w].own = tx[w].own /\ tx'[w].held = tx[w].held
           /\ tx'[w].wants = tx[w].wants /\ tx'[w].hooks = tx[w].hooks
           /\ tx'[w].loaded = d /\ tx'[w].image = tx[w].image
<1>1. Moves(w, Conn(s, tx[w].open, tx[w].own, tx[w].held, tx[w].wants, tx[w].hooks, d,
                    tx[w].image))
  BY LoadMoves DEF Loads
<1>2. QED  BY ONLY <1>1 DEF Moves, Conn, Others

\* A released connection.
LEMMA TypedRelease ==
    ASSUME NEW w, RowsTyped(tx'[w].loaded), tx'[w].step \notin Staged \cup {"commit"},
           tx'[w].step \in Closed,
           tx'[w].open = FALSE, tx'[w].own = NoRows, tx'[w].hooks = <<>>
    PROVE  ConnTyped(w)'
<1>1. Stage(w)'
  <2>1. tx'[w].step \notin Staged /\ tx'[w].step # "commit"  OBVIOUS
  <2>2. QED  BY <2>1, PlainStage
<1>2. DOMAIN NoRows = {} /\ RowsTyped(NoRows)  BY NoRowsTyped DEF NoRows
<1>3. <<>> \in Seq(Calls) /\ Len(<<>>) = 0  OBVIOUS
<1>4. /\ tx'[w].open \in BOOLEAN /\ ~tx'[w].open /\ RowsTyped(tx'[w].own)
      /\ DOMAIN tx'[w].own = {} /\ tx'[w].hooks \in Seq(Calls) /\ Len(tx'[w].hooks) = 0
  BY <1>2, <1>3
<1>5. QED  BY <1>1, <1>4 DEF ConnTyped

\* A rollback.
LEMMA TypedRollback ==
    ASSUME ShapeInv, NEW w \in Worker, ConnTyped(w), tx' = RolledBack(w, "failed")
    PROVE  ConnTyped(w)'
<1>1. RowsTyped(tx[w].loaded) /\ "failed" \notin Staged \cup {"commit"} /\ "failed" \in Closed
  BY DEF ConnTyped, Staged, Closed
<1>2. /\ tx'[w].step = "failed" /\ tx'[w].open = FALSE /\ tx'[w].own = NoRows
      /\ tx'[w].hooks = <<>> /\ tx'[w].loaded = tx[w].loaded
  BY RolledBackFields
<1>3. QED  BY ONLY <1>1, <1>2, TypedRelease

\* A fresh connection.
LEMMA TypedReset ==
    ASSUME ShapeInv, NEW w \in Worker, NEW s \in {"secret", "dead"},
           tx' = Resets(w, s)
    PROVE  ConnTyped(w)'
<1>1. RowsTyped(NoRows) /\ s \notin Staged \cup {"commit"} /\ s \in Closed
  BY NoRowsTyped DEF Staged, Closed
<1>2. /\ tx'[w].step = s /\ tx'[w].open = FALSE /\ tx'[w].own = NoRows
      /\ tx'[w].hooks = <<>> /\ tx'[w].loaded = NoRows
  BY ResetFields
<1>3. QED  BY ONLY <1>1, <1>2, TypedRelease

\* A finished request.
LEMMA TypedIdle ==
    ASSUME ShapeInv, NEW w \in Worker, tx' = Idles(w)
    PROVE  ConnTyped(w)'
<1>1. RowsTyped(NoRows) /\ "idle" \notin Staged \cup {"commit"} /\ "idle" \in Closed
  BY NoRowsTyped DEF Staged, Closed
<1>2. /\ tx'[w].step = "idle" /\ tx'[w].open = FALSE /\ tx'[w].own = NoRows
      /\ tx'[w].hooks = <<>> /\ tx'[w].loaded = NoRows
  BY IdleFields
<1>3. QED  BY ONLY <1>1, <1>2, TypedRelease

\* A request without a transaction has written nothing and has nothing to call.
LEMMA ClosedConn ==
    ASSUME NEW w, ConnTyped(w), tx[w].step \in Closed
    PROVE  /\ tx[w].open = FALSE /\ DOMAIN tx[w].own = {} /\ RowsTyped(tx[w].own)
           /\ RowsTyped(tx[w].loaded)
           /\ tx[w].step # "callbacks" => tx[w].hooks = <<>>
BY DEF ConnTyped, Closed, After, Calling

\* An answer.
LEMMA TypedAnswered ==
    ASSUME ShapeInv, NEW w \in Worker, ConnTyped(w), tx' = Answered(w), tx[w].step \in Closed,
           tx[w].hooks = <<>>
    PROVE  ConnTyped(w)'
<1>1. /\ tx'[w].step = "finish" /\ tx'[w].open = tx[w].open /\ tx'[w].own = tx[w].own
      /\ tx'[w].hooks = <<>> /\ tx'[w].loaded = tx[w].loaded
  BY AnsweredFields
<1>2. "finish" \notin Staged /\ "finish" # "commit" /\ "finish" # "drop" /\ "finish" \in Closed
  BY DEF Staged, Closed
<1>3. Stage(w)'  BY <1>1, <1>2, PlainStage
<1>4. <<>> \in Seq(Calls) /\ Len(<<>>) = 0  OBVIOUS
<1>5. /\ tx[w].open = FALSE /\ DOMAIN tx[w].own = {} /\ RowsTyped(tx[w].own)
      /\ RowsTyped(tx[w].loaded)
  BY ClosedConn
<1>6. /\ tx'[w].open \in BOOLEAN /\ ~tx'[w].open /\ RowsTyped(tx'[w].own)
      /\ DOMAIN tx'[w].own = {} /\ tx'[w].hooks \in Seq(Calls) /\ Len(tx'[w].hooks) = 0
  BY <1>1, <1>4, <1>5
<1>7. QED  BY <1>1, <1>2, <1>3, <1>5, <1>6 DEF ConnTyped

\* A transaction begins.
LEMMA TypedOpen ==
    ASSUME ShapeInv, NEW w \in Worker, ConnTyped(w), NEW s, NEW l, NEW d, tx' = Open(w, s, l, d),
           tx[w].step \in {"idle", "secret"}, RowsTyped(d), s \notin Closed, Stage(w)'
    PROVE  ConnTyped(w)'
<1>1. /\ tx'[w].step = s /\ tx'[w].open = TRUE /\ tx'[w].own = tx[w].own
      /\ tx'[w].hooks = tx[w].hooks /\ tx'[w].loaded = d
  BY BeginFields
<1>2. tx[w].step \in Closed /\ tx[w].step # "callbacks"  BY DEF Closed
<1>3. DOMAIN tx[w].own = {} /\ RowsTyped(tx[w].own) /\ tx[w].hooks = <<>>  BY <1>2, ClosedConn
<1>4. <<>> \in Seq(Calls) /\ Len(<<>>) = 0  OBVIOUS
<1>5. /\ tx'[w].open /\ tx'[w].open \in BOOLEAN /\ RowsTyped(tx'[w].own)
      /\ tx'[w].hooks = <<>> /\ tx'[w].hooks \in Seq(Calls) /\ Len(tx'[w].hooks) = 0
      /\ RowsTyped(tx'[w].loaded) /\ tx'[w].step \notin Closed
  BY <1>1, <1>3, <1>4
<1>6. Stage(w)'  OBVIOUS
<1>7. QED  BY ONLY <1>5, <1>6 DEF ConnTyped

\* A request goes on in its transaction.
LEMMA TypedGoto ==
    ASSUME ShapeInv, NEW w \in Worker, ConnTyped(w), NEW s, NEW l, tx' = Goto(w, s, l),
           tx[w].hooks = <<>>, s \in Closed <=> tx[w].step \in Closed, Stage(w)'
    PROVE  ConnTyped(w)'
<1>1. /\ tx'[w].step = s /\ tx'[w].open = tx[w].open /\ tx'[w].own = tx[w].own
      /\ tx'[w].hooks = tx[w].hooks /\ tx'[w].loaded = tx[w].loaded
  BY GotoFields
<1>2. <<>> \in Seq(Calls) /\ Len(<<>>) = 0  OBVIOUS
<1>3. tx[w].open <=> tx[w].step \notin Closed  BY DEF ConnTyped
<1>4. tx[w].open \in BOOLEAN /\ RowsTyped(tx[w].own) /\ RowsTyped(tx[w].loaded)
      /\ (DOMAIN tx[w].own # {} => tx[w].open)
  BY DEF ConnTyped
<1>5. QED  BY <1>1, <1>2, <1>3, <1>4 DEF ConnTyped

\* A statement writes typed rows and registers typed hooks.
LEMMA TypedWrite ==
    ASSUME ShapeInv, NEW w \in Worker, ConnTyped(w), NEW rows, NEW hooks, NEW s, NEW l,
           tx' = Write(w, rows, hooks, s, l), tx[w].open, RowsTyped(rows),
           tx[w].hooks \o hooks \in Seq(Calls), Len(tx[w].hooks \o hooks) <= 3,
           s = "drop" => Len(tx[w].hooks \o hooks) <= 1,
           tx[w].hooks \o hooks # <<>> => s \in {"drop", "commit"}, s \notin Closed, Stage(w)'
    PROVE  ConnTyped(w)'
<1> DEFINE k == tx[w].hooks \o hooks
           r == Over(rows, tx[w].own)
<1>1. /\ tx'[w].step = s /\ tx'[w].open = tx[w].open /\ tx'[w].own = r
      /\ tx'[w].hooks = k /\ tx'[w].loaded = tx[w].loaded
  BY ONLY ShapeInv, w \in Worker, tx' = Write(w, rows, hooks, s, l), WriteFields
<1>2. RowsTyped(tx[w].own) /\ RowsTyped(tx[w].loaded) /\ tx[w].open \in BOOLEAN  BY DEF ConnTyped
<1>3. RowsTyped(r)  BY <1>2, OverTyped
<1>4. /\ k \in Seq(Calls) /\ Len(k) <= 3 /\ (s = "drop" => Len(k) <= 1)
      /\ (k # <<>> => s \in {"drop", "commit"} \cup After)
  OBVIOUS
<1> HIDE DEF k, r
<1>5. QED  BY <1>1, <1>2, <1>3, <1>4 DEF ConnTyped

\* A statement without hooks.
LEMMA TypedQuietWrite ==
    ASSUME ShapeInv, NEW w \in Worker, ConnTyped(w), NEW rows, NEW s, NEW l,
           tx' = Write(w, rows, <<>>, s, l), tx[w].open, RowsTyped(rows),
           tx[w].hooks = <<>>, s \notin Closed, Stage(w)'
    PROVE  ConnTyped(w)'
<1>1. /\ tx[w].hooks \o <<>> \in Seq(Calls) /\ Len(tx[w].hooks \o <<>>) = 0
      /\ tx[w].hooks \o <<>> = <<>>
  OBVIOUS
<1>2. /\ Len(tx[w].hooks \o <<>>) <= 3 /\ (s = "drop" => Len(tx[w].hooks \o <<>>) <= 1)
      /\ (tx[w].hooks \o <<>> # <<>> => s \in {"drop", "commit"})
  BY <1>1
<1>3. QED  BY ONLY ShapeInv, w \in Worker, ConnTyped(w), tx' = Write(w, rows, <<>>, s, l),
             tx[w].open, RowsTyped(rows), s \notin Closed, Stage(w)', <1>1, <1>2, TypedWrite

\* The next callback, or none.
LEMMA TypedCalled ==
    ASSUME ShapeInv, NEW w \in Worker, ConnTyped(w), tx' = Called(w), tx[w].hooks # <<>>
    PROVE  ConnTyped(w)'
<1>1. /\ tx'[w].step = "callbacks" /\ tx'[w].open = FALSE /\ tx'[w].own = NoRows
      /\ tx'[w].hooks = Tail(tx[w].hooks) /\ tx'[w].loaded = tx[w].loaded
  BY CalledFields
<1>2. "callbacks" \notin Staged /\ "callbacks" # "commit" /\ "callbacks" # "drop"
      /\ "callbacks" \in After /\ "callbacks" \in Closed
  BY DEF Staged, After, Closed
<1>3. Stage(w)'  BY <1>1, <1>2, PlainStage
<1>4. tx[w].hooks \in Seq(Calls) /\ Len(tx[w].hooks) <= 3 /\ RowsTyped(tx[w].loaded)
  BY DEF ConnTyped
<1>5. Tail(tx[w].hooks) \in Seq(Calls) /\ Len(Tail(tx[w].hooks)) <= 3  BY <1>4, TailSeq
<1>6. DOMAIN NoRows = {} /\ RowsTyped(NoRows)  BY NoRowsTyped DEF NoRows
<1>7. QED  BY <1>1, <1>2, <1>3, <1>5, <1>6 DEF ConnTyped

\* What every step of a worker starts from.
LEMMA TypedBase ==
    ASSUME EstateInv, TypesInv, NEW w \in Worker
    PROVE  /\ ShapeInv /\ ConnTyped(w) /\ Stage(w) /\ Kinds(w, tx[w].step)
           /\ RowsTyped(db) /\ RowsTyped(tx[w].own) /\ RowsTyped(tx[w].loaded)
           /\ (tx[w].open <=> tx[w].step \notin Closed)
           /\ tx[w].hooks \in Seq(Calls)
           /\ tx[w].step \notin {"drop", "commit"} \cup After => tx[w].hooks = <<>>
           /\ tx[w].step \notin Writing => DOMAIN tx[w].own = {}
           /\ {Singleton, Material} \subseteq DOMAIN db
BY DEF EstateInv, TypesInv, ConnTyped, StepOK, RowsOK

\* Rows read are typed.
LEMMA SeenTyped ==
    ASSUME TypesInv, NEW w \in Worker, NEW row, row \in DOMAIN db \/ row \in DOMAIN tx[w].own
    PROVE  RowTyped(row, Seen(w, row))
BY DEF TypesInv, ConnTyped, RowsTyped, Seen

\* The request being served.
LEMMA JobTyped ==
    ASSUME TypesInv, NEW w \in Worker, jobs[w] # <<>>
    PROVE  Request(Job(w), db) /\ 1 \in DOMAIN jobs[w] /\ Job(w) = jobs[w][1]
<1>1. jobs[w] \in Seq(Range(jobs[w])) /\ \A i \in DOMAIN jobs[w] : Request(jobs[w][i], db)
  BY DEF TypesInv, JobsTyped
<1>2. 1 \in DOMAIN jobs[w] /\ Job(w) = jobs[w][1]  BY <1>1 DEF Job
<1>3. QED  BY <1>1, <1>2

\* Where a request stands asks nothing of an ordinary one.
LEMMA OtherStage ==
    ASSUME NEW w, ~Has(w, "import")', ~Has(w, "quickadd")',
           tx'[w].step \notin {"previous", "rebind", "remove", "project", "send", "withdraw"}
    PROVE  Stage(w)'
BY DEF Stage

\* A request is of one kind.
LEMMA OneKind ==
    ASSUME NEW w, NEW kind, Has(w, kind), jobs' = jobs
    PROVE  /\ Has(w, kind)' /\ jobs[w] # <<>> /\ Job(w)' = Job(w)
           /\ \A other : other # kind => ~Has(w, other) /\ ~Has(w, other)'
BY DEF Has, Job

\* Settings requests: the rows they load and write.
LEMMA TypedSettings ==
    ASSUME EstateInv, TypesInv, NEW w \in Worker, SettingsWork(w), run' = run
    PROVE  ConnTyped(w)'
<1>0. /\ ShapeInv /\ ConnTyped(w) /\ RowsTyped(db) /\ Kinds(w, tx[w].step)
      /\ (tx[w].open <=> tx[w].step \notin Closed)
      /\ tx[w].step \notin {"drop", "commit"} \cup After => tx[w].hooks = <<>>
      /\ {Singleton, Material} \subseteq DOMAIN db
  BY TypedBase
<1>1. CASE Configure(w) \/ Unset(w)
  <2>1. PICK kind \in {"configure", "unset"} : Ready(w, kind) /\ jobs' = jobs
    BY <1>1, Zenon DEF Configure, Unset
  <2>2. Has(w, kind) /\ tx[w].step = "idle"  BY <2>1 DEF Ready, At
  <2>3. ~Has(w, "import")' /\ ~Has(w, "quickadd")'  BY <2>1, <2>2, OneKind
  <2>4. \/ tx' = Answered(w) \/ tx' = Open(w, "prefix", <<Singleton>>, Only(Singleton, db[Singleton]))
    BY <1>1 DEF Configure, Unset
  <2>5. CASE tx' = Answered(w)
    <3>1. tx[w].step \in Closed /\ tx[w].hooks = <<>>  BY <1>0, <2>2 DEF Closed, After
    <3>2. QED  BY <1>0, <2>5, <3>1, TypedAnswered
  <2>6. CASE tx' = Open(w, "prefix", <<Singleton>>, Only(Singleton, db[Singleton]))
    <3>1. tx'[w].step = "prefix"  BY <1>0, <2>6, BeginFields
    <3>2. Stage(w)'  BY <2>3, <3>1, OtherStage
    <3>3. RowsTyped(Only(Singleton, db[Singleton]))
      <4>1. RowTyped(Singleton, db[Singleton])  BY <1>0 DEF RowsTyped
      <4>2. QED  BY <4>1, OnlyTyped
    <3>4. "prefix" \notin Closed  BY DEF Closed, Calling
    <3>5. QED  BY <1>0, <2>2, <2>6, <3>2, <3>3, <3>4, TypedOpen
  <2>7. QED  BY <2>4, <2>5, <2>6
<1>2. CASE _lock_for_prefix_write(w)
  <2>1. tx[w].step = "prefix" /\ UNCHANGED <<jobs, db>>  BY <1>2 DEF _lock_for_prefix_write, At
  <2>2. PICK l : tx' = Goto(w, "locked", l)  BY <1>2, Zenon DEF _lock_for_prefix_write
  <2>3. tx[w].hooks = <<>> /\ "locked" \notin Closed /\ tx[w].step \notin Closed
    BY <1>0, <2>1 DEF Closed, After, Calling
  <2>4. /\ tx'[w].step = "locked" /\ tx'[w].own = tx[w].own /\ tx'[w].loaded = tx[w].loaded
    BY <1>0, <2>2, GotoFields
  <2>5. Stage(w)  BY <1>0 DEF ConnTyped
  <2>6. Stage(w)'  BY <2>1, <2>4, <2>5 DEF Stage, Has, Job, Importing
  <2>7. QED  BY <1>0, <2>2, <2>3, <2>6, TypedGoto
<1>3. CASE _save_locked(w) \/ delete_settings(w)
  <2>1. PICK kind \in {"configure", "unset"} : Has(w, kind) /\ tx[w].step = "locked" /\ jobs' = jobs
    BY <1>3, Zenon DEF _save_locked, delete_settings, At
  <2>2. ~Has(w, "import")' /\ ~Has(w, "quickadd")' /\ jobs[w] # <<>>  BY <2>1, OneKind
  <2>3. \/ tx' = RolledBack(w, "failed")
        \/ \E rows : RowsTyped(rows) /\ tx' = Write(w, rows, <<>>, "commit", <<>>)
    <3>1. CASE _save_locked(w)
      <4>1. \/ tx' = RolledBack(w, "failed")
            \/ \E pk : tx' = Write(w, Only(Singleton, {[pk |-> pk, prefix |-> Job(w).prefix]}), <<>>,
                                   "commit", <<>>)
        BY <3>1, Zenon DEF _save_locked
      <4>2. Has(w, "configure")  BY <3>1 DEF _save_locked
      <4>3. Job(w).prefix \in Prefix
        <5>1. Request(Job(w), db)  BY <2>2, JobTyped
        <5>2. QED  BY <4>2, <5>1 DEF Has, Request
      <4>4. ASSUME NEW pk PROVE RowsTyped(Only(Singleton, {[pk |-> pk, prefix |-> Job(w).prefix]}))
        <5>1. RowTyped(Singleton, {[pk |-> pk, prefix |-> Job(w).prefix]})
          BY <4>3 DEF RowTyped, Singleton
        <5>2. QED  BY <5>1, OnlyTyped
      <4>5. QED  BY <4>1, <4>4
    <3>2. CASE delete_settings(w)
      <4>1. \/ tx' = RolledBack(w, "failed")
            \/ tx' = Write(w, Only(Singleton, {}), <<>>, "commit", <<>>)
            \/ tx' = Write(w, NoRows, <<>>, "commit", <<>>)
        BY <3>2 DEF delete_settings
      <4>2. RowTyped(Singleton, {})  BY DEF RowTyped, Singleton
      <4>3. RowsTyped(Only(Singleton, {})) /\ RowsTyped(NoRows)  BY <4>2, OnlyTyped, NoRowsTyped
      <4>4. QED  BY <4>1, <4>3, Zenon
    <3>3. QED  BY <1>3, <3>1, <3>2
  <2>4. CASE tx' = RolledBack(w, "failed")  BY <1>0, <2>4, TypedRollback
  <2>5. ASSUME NEW rows, RowsTyped(rows), tx' = Write(w, rows, <<>>, "commit", <<>>)
        PROVE  ConnTyped(w)'
    <3>1. tx'[w].step = "commit"  BY <1>0, <2>5, WriteFields
    <3>2. Stage(w)'  BY <2>2, <3>1, OtherStage
    <3>3. tx[w].hooks = <<>> /\ "commit" \notin Closed /\ tx[w].open
      BY <1>0, <2>1 DEF Closed, After, Calling
    <3>4. QED  BY <1>0, <2>5, <3>2, <3>3, TypedQuietWrite
  <2>6. QED  BY <2>3, <2>4, <2>5
<1>4. QED  BY <1>1, <1>2, <1>3 DEF SettingsWork

--------------------------------------------------------------------------------
(***************************************************************************)
(* The requests of the API: what each step loads, writes and registers.    *)
(***************************************************************************)

\* A request answered at once.
LEMMA TypedStartAnswered ==
    ASSUME EstateInv, TypesInv, NEW w \in Worker, tx[w].step \in {"idle", "secret"}, tx' = Answered(w)
    PROVE  ConnTyped(w)'
<1>1. /\ ShapeInv /\ ConnTyped(w)
      /\ tx[w].step \notin {"drop", "commit"} \cup After => tx[w].hooks = <<>>
  BY TypedBase
<1>2. tx[w].step \in Closed /\ tx[w].hooks = <<>>  BY <1>1 DEF Closed, After
<1>3. QED  BY <1>1, <1>2, TypedAnswered

\* A request that begins with a row it loads, or with none.
LEMMA TypedStart ==
    ASSUME EstateInv, TypesInv, NEW w \in Worker, tx[w].step \in {"idle", "secret"},
           NEW s, NEW l, NEW d, tx' = Open(w, s, l, d), RowsTyped(d), s \notin Closed, Stage(w)'
    PROVE  ConnTyped(w)'
<1>1. ShapeInv /\ ConnTyped(w)  BY TypedBase
<1>2. QED  BY <1>1, TypedOpen

\* The requests that begin without demands.
LEMMA TypedPlainStart ==
    ASSUME EstateInv, TypesInv, NEW w \in Worker, jobs' = jobs, db' = db,
           \/ Create(w) \/ Assign(w) \/ _lock_metadata(w) \/ quick_add_ssh(w) \/ Delete(w)
    PROVE  ConnTyped(w)'
<1>0. ShapeInv /\ RowsTyped(db)  BY TypedBase
<1>1. /\ tx[w].step = "idle"
      /\ Create(w) => Has(w, "create")
      /\ Assign(w) => Has(w, "assign")
      /\ _lock_metadata(w) => Has(w, "reveal")
      /\ quick_add_ssh(w) => Has(w, "quickadd")
      /\ Delete(w) => Has(w, "delete")
  BY DEF Create, Assign, _lock_metadata, quick_add_ssh, Delete, Ready, At
<1>2. \/ tx' = Answered(w)
      \/ \E l : tx' = Open(w, "prefix", l, NoRows) /\ Create(w)
      \/ \E l : tx' = Open(w, "assign", l, NoRows) /\ Assign(w)
      \/ \E l : tx' = Open(w, "commit", l, NoRows) /\ _lock_metadata(w)
      \/ \E l : tx' = Open(w, "parent", l, NoRows) /\ quick_add_ssh(w)
      \/ \E l : tx' = Open(w, "address", l, NoRows) /\ quick_add_ssh(w)
      \/ \E l : tx' = Open(w, "clear", l, [r \in Collected(Job(w).cred) |-> db[r]])
  BY Zenon DEF Create, Assign, _lock_metadata, quick_add_ssh, Delete
<1>3. CASE tx' = Answered(w)  BY <1>1, <1>3, TypedStartAnswered
<1>4. ASSUME NEW s \in {"prefix", "assign", "commit"}, NEW l, tx' = Open(w, s, l, NoRows),
             NEW kind \in {"create", "assign", "reveal"}, Has(w, kind)
      PROVE  ConnTyped(w)'
  <2>1. ~Has(w, "import")' /\ ~Has(w, "quickadd")'  BY <1>4, OneKind
  <2>2. tx'[w].step = s  BY <1>0, <1>4, BeginFields
  <2>3. Stage(w)'  BY <2>1, <2>2, OtherStage
  <2>4. s \notin Closed /\ RowsTyped(NoRows)  BY NoRowsTyped DEF Closed, Calling
  <2>5. QED  BY <1>1, <1>4, <2>3, <2>4, TypedStart
<1>5. ASSUME NEW s \in {"parent", "address", "clear"}, NEW l, NEW d, RowsTyped(d),
             tx' = Open(w, s, l, d)
      PROVE  ConnTyped(w)'
  <2>1. tx'[w].step = s /\ s \notin Staged /\ s # "commit"
    BY <1>0, <1>5, BeginFields DEF Staged
  <2>2. Stage(w)'  BY <2>1, PlainStage
  <2>3. s \notin Closed  BY DEF Closed, Calling
  <2>4. QED  BY <1>1, <1>5, <2>2, <2>3, TypedStart
<1>6. RowsTyped([r \in Collected(Job(w).cred) |-> db[r]])
  BY <1>0, SomeTyped DEF Collected
<1>7. RowsTyped(NoRows)  BY NoRowsTyped
<1>8. CASE \E l : tx' = Open(w, "prefix", l, NoRows) /\ Create(w)
  <2>1. PICK l : tx' = Open(w, "prefix", l, NoRows) /\ Create(w)  BY <1>8
  <2>2. QED  BY <1>1, <1>4, <2>1
<1>9. CASE \E l : tx' = Open(w, "assign", l, NoRows) /\ Assign(w)
  <2>1. PICK l : tx' = Open(w, "assign", l, NoRows) /\ Assign(w)  BY <1>9
  <2>2. QED  BY <1>1, <1>4, <2>1
<1>10. CASE \E l : tx' = Open(w, "commit", l, NoRows) /\ _lock_metadata(w)
  <2>1. PICK l : tx' = Open(w, "commit", l, NoRows) /\ _lock_metadata(w)  BY <1>10
  <2>2. QED  BY <1>1, <1>4, <2>1
<1>11. QED  BY <1>2, <1>3, <1>5, <1>6, <1>7, <1>8, <1>9, <1>10

\* A row of a request for an assignment, there when it begins.
LEMMA TypedRowStart ==
    ASSUME EstateInv, TypesInv, NEW w \in Worker, jobs' = jobs, db' = db, Reassign(w) \/ Unassign(w)
    PROVE  ConnTyped(w)'
<1> DEFINE row == Assignment(Job(w).assignment)
<1>0. ShapeInv /\ RowsTyped(db)  BY TypedBase
<1>1. tx[w].step = "idle" /\ (Has(w, "reassign") \/ Has(w, "unassign"))
  BY DEF Reassign, Unassign, Ready, At
<1>2. jobs[w] # <<>> /\ Job(w)' = Job(w) /\ ~Has(w, "import")' /\ ~Has(w, "quickadd")'
  BY <1>1, OneKind
<1>3. row \in DOMAIN db
  <2>1. Request(Job(w), db)  BY <1>2, JobTyped
  <2>2. Job(w).kind \in {"reassign", "unassign"}  BY <1>1 DEF Has
  <2>3. QED  BY <2>1, <2>2 DEF Request
<1>4. \/ tx' = Answered(w)
      \/ db[row] # {} /\ tx' = Open(w, "previous", <<>>, Only(row, db[row]))
      \/ db[row] # {} /\ tx' = Open(w, "remove", <<row>>, Only(row, db[row]))
  BY DEF Reassign, Unassign
<1>5. RowsTyped(Only(row, db[row]))
  <2>1. RowTyped(row, db[row])  BY <1>0, <1>3 DEF RowsTyped
  <2>2. QED  BY <2>1, OnlyTyped
<1>6. row \in DOMAIN Only(row, db[row]) /\ Only(row, db[row])[row] = db[row]  BY DEF Only
<1>7. ASSUME db[row] # {}, NEW s \in {"previous", "remove"}, NEW l,
             tx' = Open(w, s, l, Only(row, db[row]))
      PROVE  ConnTyped(w)'
  <2>1. tx'[w].step = s /\ tx'[w].loaded = Only(row, db[row])
    <3> DEFINE d == Only(row, db[row])
    <3>1. tx' = Open(w, s, l, d)  BY <1>7
    <3> HIDE DEF d
    <3>2. tx'[w].step = s /\ tx'[w].loaded = d
      <4>1. ShapeInv  BY <1>0
      <4>2. QED  BY ONLY <3>1, <4>1, w \in Worker, BeginFields
    <3>3. QED  BY <3>2 DEF d
  <2>2. row' = row  BY <1>2 DEF Assignment
  <2>3. Stage(w)'
    <3>0. row \in DOMAIN tx'[w].loaded /\ tx'[w].loaded[row] # {}
      BY ONLY <1>6, <2>1, db[row] # {}
    <3>1. row' \in DOMAIN tx'[w].loaded /\ tx'[w].loaded[row'] # {}  BY ONLY <2>2, <3>0
    <3>2. QED  BY <1>2, <2>1, <3>1 DEF Stage
  <2>4. s \notin Closed  BY DEF Closed, Calling
  <2>5. QED  BY <1>1, <1>5, <1>7, <2>3, <2>4, TypedStart
<1> HIDE DEF row
<1>8. QED  BY <1>1, <1>4, <1>7, TypedStartAnswered

\* The previous owner.
LEMMA TypedCapture ==
    ASSUME EstateInv, TypesInv, NEW w \in Worker, jobs' = jobs, db' = db, capture_previous_credential(w)
    PROVE  ConnTyped(w)'
<1> DEFINE row == Assignment(Job(w).assignment)
           owners == {r.cred : r \in Seen(w, row)}
<1>0. /\ ShapeInv /\ ConnTyped(w) /\ Stage(w) /\ Kinds(w, tx[w].step)
      /\ tx[w].step \notin {"drop", "commit"} \cup After => tx[w].hooks = <<>>
  BY TypedBase
<1>1. tx[w].step = "previous" /\ Has(w, "reassign")
  BY <1>0 DEF capture_previous_credential, At, Kinds
<1>2. jobs[w] # <<>> /\ Job(w)' = Job(w) /\ ~Has(w, "import")' /\ ~Has(w, "quickadd")'
  BY <1>1, OneKind
<1>3. row \in DOMAIN db
  <2>1. Request(Job(w), db)  BY <1>2, JobTyped
  <2>2. QED  BY <1>1, <2>1 DEF Request, Has
<1>4. RowTyped(row, Seen(w, row)) /\ row[1] = "assignment"
  BY <1>3, SeenTyped DEF Assignment
<1>5. owners \subseteq Cred /\ \A c, d \in owners : c = d  BY <1>4 DEF RowTyped
<1>6. /\ Others(w) /\ tx'[w].step = "rebind" /\ tx'[w].open = tx[w].open
      /\ tx'[w].own = tx[w].own /\ tx'[w].hooks = tx[w].hooks
      /\ tx'[w].loaded = tx[w].loaded /\ tx'[w].image = owners
  <2>1. tx' = Captures(w, "rebind", <<row>>, owners)
    BY DEF capture_previous_credential, Captures
  <2> HIDE DEF row, owners
  <2>2. QED  BY <1>0, <2>1, CaptureFields
<1>7. Stage(w)'
  <2>1. row' = row  BY <1>2 DEF Assignment
  <2>2. row \in DOMAIN tx[w].loaded /\ tx[w].loaded[row] # {}  BY <1>0, <1>1 DEF Stage
  <2>3. row' \in DOMAIN tx'[w].loaded /\ tx'[w].loaded[row'] # {}  BY <1>6, <2>1, <2>2
  <2>4. tx'[w].step = "rebind" /\ tx'[w].image \subseteq Cred /\ \A c, d \in tx'[w].image : c = d
    BY <1>5, <1>6
  <2>5. ~Has(w, "import")' /\ ~Has(w, "quickadd")'  BY <1>2
  <2>6. QED  BY ONLY <2>3, <2>4, <2>5 DEF Stage
<1>8. "rebind" \notin Closed /\ tx[w].step \notin Closed /\ tx[w].hooks = <<>>
  BY <1>0, <1>1 DEF Closed, Calling, After
<1>9. QED  BY <1>0, <1>6, <1>7, <1>8 DEF ConnTyped

\* The secret an importer is at.
LEMMA ItemTyped ==
    ASSUME TypesInv, NEW w \in Worker, Importing(w)
    PROVE  /\ run[w].at \in 1..Len(Job(w).items) /\ Item(w) = Job(w).items[run[w].at]
           /\ Item(w).cred \in Cred /\ Item(w).target \in Target \cup {"none"}
<1>1. Has(w, "import") /\ run[w].at <= Len(Job(w).items)  BY DEF Importing
<1>2. jobs[w] # <<>> /\ Job(w).kind = "import"  BY <1>1 DEF Has
<1>3. Request(Job(w), db)  BY <1>2, JobTyped
<1>4. \A k \in 1..Len(Job(w).items) :
         Job(w).items[k].cred \in Cred /\ Job(w).items[k].target \in Target \cup {"none"}
  BY <1>2, <1>3 DEF Request
<1>5. run[w].at \in Nat \ {0}  BY DEF TypesInv, RunTyped
<1>6. run[w].at \in 1..Len(Job(w).items)  BY <1>1, <1>5
<1>7. QED  BY <1>1, <1>4, <1>6 DEF Item

\* The record of a row that is there.
LEMMA OnlyRecord ==
    ASSUME NEW row, NEW rows, RowTyped(row, rows), NEW r \in rows PROVE The(rows) = r
<1>1. The(rows) \in rows  BY TheIn
<1>2. QED  BY <1>1 DEF RowTyped

\* The service quick add found or made is one of the table.
LEMMA TargetTyped ==
    ASSUME EstateInv, TypesInv, NEW w \in Worker, tx[w].step = "assign", TargetOf(w) # "none"
    PROVE  /\ Item(w).cred \in Cred /\ TargetOf(w) \in Target
           /\ Has(w, "quickadd") => Service(TargetOf(w)) \in ServicesOf(w)
<1>0. Stage(w) /\ Kinds(w, "assign")  BY TypedBase
<1>1. PICK kind \in {"assign", "quickadd", "import"} : Has(w, kind)  BY <1>0 DEF Kinds
<1>2. jobs[w] # <<>> /\ Job(w).kind = kind  BY <1>1 DEF Has
<1>3. Request(Job(w), db)  BY <1>2, JobTyped
<1>4. CASE kind = "import"
  <2>1. Importing(w)  BY <1>0, <1>1, <1>4 DEF Stage
  <2>2. Item(w).cred \in Cred /\ Item(w).target \in Target \cup {"none"}  BY <2>1, ItemTyped
  <2>3. ~Has(w, "quickadd")  BY <1>2, <1>4 DEF Has
  <2>4. TargetOf(w) = Item(w).target  BY <2>3 DEF TargetOf
  <2>5. QED  BY <2>2, <2>3, <2>4
<1>5. CASE kind = "assign"
  <2>1. Item(w) = Job(w)  BY <1>2, <1>5 DEF Item, Has
  <2>2. ~Has(w, "quickadd")  BY <1>2, <1>5 DEF Has
  <2>3. TargetOf(w) = Job(w).target  BY <2>1, <2>2 DEF TargetOf
  <2>4. QED  BY <1>2, <1>3, <1>5, <2>1, <2>2, <2>3 DEF Request
<1>6. CASE kind = "quickadd"
  <2>1. Item(w) = Job(w) /\ Job(w).cred \in Cred  BY <1>2, <1>3, <1>6 DEF Item, Has, Request
  <2>2. PICK row \in DOMAIN tx[w].own \cap DOMAIN db :
           row[1] = "service" /\ \E s \in tx[w].own[row] : Named(s) = Named(Job(w))
    BY <1>0, <1>1, <1>6 DEF Stage
  <2>3. PICK s \in tx[w].own[row] : Named(s) = Named(Job(w))  BY <2>2
  <2>4. Seen(w, row) = tx[w].own[row]  BY DEF Seen
  <2>5. The(Seen(w, row)) = s  BY <2>4, SeenTyped, OnlyRecord
  <2>6. row \in Table(w, "service")  BY <2>2, <2>3, <2>4 DEF Table
  <2>7. row \in ServicesOf(w)  BY <2>3, <2>5, <2>6 DEF ServicesOf
  <2> DEFINE chosen == CHOOSE x \in ServicesOf(w) : TRUE
  <2>8. chosen \in ServicesOf(w)  BY <2>7
  <2>9. TargetOf(w) = chosen[2]  BY <1>1, <1>6 DEF TargetOf
  <2> HIDE DEF chosen
  <2>10. chosen \in DOMAIN db /\ chosen[1] = "service"  BY <2>8 DEF ServicesOf, Table
  <2>11. chosen \in Drawn  BY <2>10, SeenTyped DEF RowTyped
  <2>12. PICK t \in Target : chosen = Service(t)
    <3>1. \A c \in Cred : Credential(c)[1] = "credential"  BY DEF Credential
    <3>2. QED  BY <2>10, <2>11, <3>1 DEF Drawn
  <2>13. chosen[2] = t  BY <2>12 DEF Service
  <2>14. QED  BY <2>1, <2>8, <2>9, <2>12, <2>13
<1>7. QED  BY <1>1, <1>4, <1>5, <1>6

\* Statements that write typed rows and register one callback for each owner.
LEMMA TypedDeferredWrite ==
    ASSUME EstateInv, TypesInv, NEW w \in Worker, NEW rows, NEW owners \in SUBSET Cred, NEW a, NEW b,
           owners \subseteq {a, b}, NEW s \in {"drop", "commit"}, NEW l,
           tx' = Write(w, rows, defer_custom_metadata(owners), s, l), RowsTyped(rows),
           tx[w].step \in {"assign", "rebind", "remove", "clear"},
           s = "drop" => a = b, Stage(w)'
    PROVE  ConnTyped(w)'
<1> DEFINE new == defer_custom_metadata(owners)
           k == tx[w].hooks \o new
<1>1. /\ ShapeInv /\ ConnTyped(w) /\ (tx[w].open <=> tx[w].step \notin Closed)
      /\ tx[w].step \notin {"drop", "commit"} \cup After => tx[w].hooks = <<>>
  BY TypedBase
<1>2. tx[w].open /\ tx[w].hooks = <<>> /\ s \notin Closed  BY <1>1 DEF Closed, Calling, After
<1>3. new \in Seq(Calls) /\ Len(new) <= 2 /\ (a = b => Len(new) <= 1)  BY Deferred
<1> HIDE DEF new
<1>4. k = new  BY <1>2, <1>3
<1> HIDE DEF k
<1>5. k \in Seq(Calls) /\ Len(k) <= 3 /\ (s = "drop" => Len(k) <= 1)
  BY <1>3, <1>4
<1>6. tx[w].hooks \o new = k  BY DEF k
<1>7. tx' = Write(w, rows, new, s, l)  BY DEF new
<1>8. tx[w].hooks \o new \in Seq(Calls) /\ Len(tx[w].hooks \o new) <= 3
      /\ (s = "drop" => Len(tx[w].hooks \o new) <= 1)
      /\ (tx[w].hooks \o new # <<>> => s \in {"drop", "commit"})
  BY <1>5, <1>6
<1>9. RowsTyped(rows) /\ Stage(w)'  OBVIOUS
<1>10. QED  BY ONLY <1>1, <1>2, <1>7, <1>8, <1>9, w \in Worker, TypedWrite

\* Where a commit stands.
LEMMA CommitStage ==
    ASSUME NEW w, tx'[w].step = "commit", Has(w, "import")' => Importing(w)' PROVE Stage(w)'
BY DEF Stage

\* A new or moved assignment.
LEMMA TypedBind ==
    ASSUME EstateInv, TypesInv, NEW w \in Worker, tx[w].step \in {"assign", "rebind"}, NEW a,
           NEW c \in Cred, NEW target \in Target, NEW owners \in SUBSET Cred, NEW x, NEW y,
           owners \subseteq {x, y}, Bind(w, a, c, target, owners),
           Has(w, "import")' => Importing(w)'
    PROVE  ConnTyped(w)'
<1> DEFINE rows == Only(Assignment(a), {[cred |-> c, target |-> target]})
<1>1. tx' = Write(w, rows, defer_custom_metadata(owners), "commit", <<Credential(c)>>)
  BY DEF Bind
<1>2. RowTyped(Assignment(a), {[cred |-> c, target |-> target]})
  BY DEF RowTyped, Assignment
<1>3. RowsTyped(rows)  BY <1>2, OnlyTyped
<1> HIDE DEF rows
<1>4. ShapeInv  BY TypedBase
<1>5. tx'[w].step = "commit"  BY <1>1, <1>4, WriteFields
<1>6. Stage(w)'  BY <1>5, CommitStage
<1>7. QED  BY <1>1, <1>3, <1>6, TypedDeferredWrite

\* assign_credential, the importer's create and get_or_create.
LEMMA TypedAssign ==
    ASSUME EstateInv, TypesInv, NEW w \in Worker, _assign(w), UNCHANGED <<jobs, db, run>>
    PROVE  ConnTyped(w)'
<1>0. /\ ShapeInv /\ ConnTyped(w) /\ Stage(w)
      /\ tx[w].step \notin {"drop", "commit"} \cup After => tx[w].hooks = <<>>
  BY TypedBase
<1>1. tx[w].step = "assign"  BY DEF _assign, At
<1>2. Has(w, "import")' => Importing(w)'  BY <1>0, <1>1 DEF Stage, Has, Job, Importing
<1>3. \/ tx' = Goto(w, "commit", <<>>)
      \/ TargetOf(w) # "none" /\ Bind(w, Item(w).assignment, Item(w).cred, TargetOf(w), {Item(w).cred})
  BY Zenon DEF _assign
<1>4. CASE tx' = Goto(w, "commit", <<>>)
  <2>1. tx'[w].step = "commit"  BY <1>0, <1>4, GotoFields
  <2>2. Stage(w)'  BY <1>2, <2>1, CommitStage
  <2>3. tx[w].hooks = <<>> /\ "commit" \notin Closed /\ tx[w].step \notin Closed
    BY <1>0, <1>1 DEF Closed, After, Calling
  <2>4. QED  BY <1>0, <1>4, <2>2, <2>3, TypedGoto
<1>5. CASE TargetOf(w) # "none"
           /\ Bind(w, Item(w).assignment, Item(w).cred, TargetOf(w), {Item(w).cred})
  <2> DEFINE c == Item(w).cred
             t == TargetOf(w)
             a == Item(w).assignment
  <2>1. c \in Cred /\ t \in Target  BY <1>1, <1>5, TargetTyped
  <2>2. Bind(w, a, c, t, {c})  BY <1>5
  <2> HIDE DEF c, t, a
  <2>3. {c} \in SUBSET Cred /\ {c} \subseteq {c, c}  BY <2>1
  <2>4. QED  BY <1>1, <1>2, <2>1, <2>2, <2>3, TypedBind
<1>6. QED  BY <1>3, <1>4, <1>5

\* A moved assignment keeps the target it was loaded with.
LEMMA TypedRebind ==
    ASSUME EstateInv, TypesInv, NEW w \in Worker, Rebind(w), UNCHANGED <<jobs, db, run>>
    PROVE  ConnTyped(w)'
<1> DEFINE row == Assignment(Job(w).assignment)
           c == Job(w).cred
           t == The(tx[w].loaded[row]).target
           owners == tx[w].image \cup {c}
<1>0. /\ Stage(w) /\ Kinds(w, tx[w].step) /\ RowsTyped(tx[w].loaded)
  BY TypedBase
<1>1. tx[w].step = "rebind" /\ Has(w, "reassign")  BY <1>0 DEF Rebind, At, Kinds
<1>2. jobs[w] # <<>> /\ ~Has(w, "import")'  BY <1>1, OneKind
<1>3. c \in Cred
  <2>1. Request(Job(w), db)  BY <1>2, JobTyped
  <2>2. QED  BY <1>1, <2>1 DEF Has, Request
<1>4. /\ row \in DOMAIN tx[w].loaded /\ tx[w].loaded[row] # {}
      /\ tx[w].image \subseteq Cred /\ \A x, y \in tx[w].image : x = y
  BY <1>0, <1>1 DEF Stage
<1>5. t \in Target
  <2>1. RowTyped(row, tx[w].loaded[row]) /\ row[1] = "assignment"
    BY <1>0, <1>4 DEF RowsTyped, Assignment
  <2>2. The(tx[w].loaded[row]) \in tx[w].loaded[row]  BY <1>4, TheIn
  <2>3. QED  BY <2>1, <2>2 DEF RowTyped
<1>6. Bind(w, Job(w).assignment, c, t, owners)  BY DEF Rebind
<1>7. PICK x : owners \subseteq {x, c}
  <2>1. CASE tx[w].image = {}  BY <2>1
  <2>2. CASE tx[w].image # {}
    <3>1. PICK x \in tx[w].image : TRUE  BY <2>2
    <3>2. QED  BY <1>4, <3>1
  <2>3. QED  BY <2>1, <2>2
<1>8. owners \in SUBSET Cred  BY <1>3, <1>4
<1> HIDE DEF row, c, t, owners
<1>9. QED  BY <1>1, <1>2, <1>3, <1>5, <1>6, <1>7, <1>8, TypedBind

\* A removed assignment: its loaded owner.
LEMMA TypedRemove ==
    ASSUME EstateInv, TypesInv, NEW w \in Worker, DeleteAssignment(w), UNCHANGED <<jobs, db, run>>
    PROVE  ConnTyped(w)'
<1> DEFINE row == Assignment(Job(w).assignment)
           owners == {r.cred : r \in tx[w].loaded[row]}
<1>0. /\ ShapeInv /\ Stage(w) /\ Kinds(w, tx[w].step) /\ RowsTyped(tx[w].loaded)
  BY TypedBase
<1>1. tx[w].step = "remove" /\ Has(w, "unassign")  BY <1>0 DEF DeleteAssignment, At, Kinds
<1>2. jobs[w] # <<>> /\ ~Has(w, "import")'  BY <1>1, OneKind
<1>3. row \in DOMAIN tx[w].loaded  BY <1>0, <1>1 DEF Stage
<1>4. RowTyped(row, tx[w].loaded[row]) /\ row[1] = "assignment"
  BY <1>0, <1>3 DEF RowsTyped, Assignment
<1>5. owners \in SUBSET Cred /\ \A x, y \in owners : x = y  BY <1>4 DEF RowTyped
<1>6. PICK x : owners \subseteq {x, x}
  <2>1. CASE owners = {}  BY <2>1
  <2>2. CASE owners # {}
    <3>1. PICK x \in owners : TRUE  BY <2>2
    <3>2. QED  BY <1>5, <3>1
  <2>3. QED  BY <2>1, <2>2
<1>7. tx' = Write(w, Only(row, {}), defer_custom_metadata(owners), "commit", <<>>)
  BY DEF DeleteAssignment
<1>8. RowTyped(row, {})  BY <1>4 DEF RowTyped
<1>9. RowsTyped(Only(row, {}))  BY <1>8, OnlyTyped
<1> HIDE DEF row, owners
<1>10. tx'[w].step = "commit"  BY <1>0, <1>7, WriteFields
<1>11. Stage(w)'  BY <1>2, <1>10, CommitStage
<1>12. QED  BY <1>1, <1>5, <1>6, <1>7, <1>9, <1>11, TypedDeferredWrite

\* The collected assignments of a deleted credential.
LEMMA TypedClear ==
    ASSUME EstateInv, TypesInv, NEW w \in Worker, Clear(w), UNCHANGED <<jobs, db, run>>
    PROVE  ConnTyped(w)'
<1> DEFINE rows == DOMAIN tx[w].loaded
           c == Job(w).cred
           owners == IF rows = {} THEN {} ELSE {c}
           cleared == [r \in rows |-> {}]
<1>0. /\ ShapeInv /\ Kinds(w, tx[w].step) /\ StepOK(w)
  BY TypedBase DEF EstateInv
<1>1. tx[w].step = "clear" /\ Has(w, "delete")  BY <1>0 DEF Clear, At, Kinds
<1>2. jobs[w] # <<>>  BY <1>1, OneKind
<1>3. c \in Cred
  <2>1. Request(Job(w), db)  BY <1>2, JobTyped
  <2>2. QED  BY <1>1, <2>1 DEF Has, Request
<1>4. owners \in SUBSET Cred /\ owners \subseteq {c, c}  BY <1>3
<1>5. tx' = Write(w, cleared, defer_custom_metadata(owners), "drop", <<Credential(c)>>)
  BY DEF Clear
<1>6. RowsTyped(cleared)
  <2>1. \A row \in rows : row[1] = "assignment"  BY <1>0, <1>1 DEF StepOK
  <2>2. \A row \in rows : RowTyped(row, {})  BY <2>1 DEF RowTyped
  <2>3. cleared = [r \in DOMAIN cleared |-> cleared[r]] /\ DOMAIN cleared = rows
        /\ \A r \in rows : cleared[r] = {}
    OBVIOUS
  <2>4. Filled(cleared) = {} /\ IsFiniteSet({})  BY <2>3, FS_EmptySet DEF Filled
  <2>5. QED  BY <2>2, <2>3, <2>4 DEF RowsTyped
<1> HIDE DEF rows, c, owners, cleared
<1>7. tx'[w].step = "drop"  BY <1>0, <1>5, WriteFields
<1>8. Stage(w)'  BY <1>7, PlainStage DEF Staged
<1>9. "drop" # "commit"  OBVIOUS
<1>10. QED  BY <1>1, <1>4, <1>5, <1>6, <1>8, TypedDeferredWrite

\* The prefix a credential is stamped with.
LEMMA StampPrefix ==
    ASSUME EstateInv, TypesInv, NEW w \in Worker
    PROVE  /\ \A r \in Locked(w) : r.prefix \in Prefix
           /\ Locked(w) # {} => The(Locked(w)).prefix \in Prefix
           /\ get_config(w) \in Prefix
<1>1. {Singleton, Material} \subseteq DOMAIN db /\ MemoOK(w)  BY TypedBase DEF EstateInv
<1>2. RowTyped(Singleton, Seen(w, Singleton))  BY <1>1, SeenTyped
<1>3. \A r \in Seen(w, Singleton) : r.prefix \in Prefix  BY <1>2 DEF RowTyped, Singleton
<1>4. \A r \in Locked(w) : r.prefix \in Prefix  BY <1>3 DEF Locked
<1>5. memo[w] # <<>> => \A r \in Head(memo[w]) : r.prefix \in Prefix
  BY <1>1 DEF MemoOK, TypesInv, FreshTyped
<1>6. \A r \in _current_config(w) : r.prefix \in Prefix  BY <1>3, <1>5 DEF _current_config
<1>7. get_config(w) \in Prefix
  BY <1>6, TheIn, EstateAssumption DEF get_config
<1>8. QED  BY <1>4, <1>7, TheIn

\* A credential is stamped.
LEMMA TypedStamp ==
    ASSUME EstateInv, TypesInv, NEW w \in Worker, Stamp(w), UNCHANGED <<jobs, db, run>>
    PROVE  ConnTyped(w)'
<1> DEFINE prefix == IF Locked(w) # {} THEN The(Locked(w)).prefix ELSE get_config(w)
           source == IF Has(w, "import") THEN Item(w).source ELSE "none"
           row == Credential(Item(w).cred)
           record == [prefix |-> prefix, source |-> source]
           next == IF Has(w, "create") THEN "commit" ELSE "assign"
<1>0. /\ ShapeInv /\ ConnTyped(w) /\ Stage(w) /\ RowsTyped(tx[w].own)
      /\ (tx[w].open <=> tx[w].step \notin Closed)
      /\ tx[w].step \notin {"drop", "commit"} \cup After => tx[w].hooks = <<>>
  BY TypedBase
<1>1. tx[w].step = "locked"  BY DEF Stamp, At
<1>2. \/ tx' = RolledBack(w, "failed")
      \/ tx' = Write(w, Only(row, {record}), <<>>, next, <<>>)
  BY DEF Stamp
<1>3. prefix \in Prefix  BY StampPrefix
<1>4. RowTyped(row, {record})
  <2>1. record.prefix \in Prefix  BY <1>3
  <2>2. row[1] = "credential"  BY DEF Credential
  <2> HIDE DEF record, row
  <2>3. QED  BY <2>1, <2>2 DEF RowTyped
<1>5. RowsTyped(Only(row, {record}))  BY <1>4, OnlyTyped
<1>6. row[1] = "credential"  BY DEF Credential
<1>7. next \in {"commit", "assign"} /\ (Has(w, "create") => next = "commit")
      /\ (next = "commit" => Has(w, "create"))
  OBVIOUS
<1>9. ASSUME tx' = Write(w, Only(row, {record}), <<>>, next, <<>>)
      PROVE  ConnTyped(w)'
  <2> DEFINE rows == Only(row, {record})
  <2>1. DOMAIN rows = {row}  BY DEF Only
  <2>2. RowsTyped(rows) /\ tx' = Write(w, rows, <<>>, next, <<>>)  BY <1>5, <1>9
  <2> HIDE DEF prefix, source, row, record, next, rows
  <2>3. tx'[w].step = next /\ tx'[w].own = Over(rows, tx[w].own)  BY <1>0, <2>2, WriteFields
  <2>4. next \notin Closed /\ tx[w].open /\ tx[w].hooks = <<>>
    BY <1>0, <1>1, <1>7 DEF Closed, Calling, After
  <2>5. \A r \in DOMAIN tx[w].own : r[1] = "service" =>
           r \in DOMAIN tx'[w].own /\ tx'[w].own[r] = tx[w].own[r]
    BY <1>6, <2>1, <2>3 DEF Over
  <2>6. Stage(w)'
    <3>1. Has(w, "import")' => Importing(w)'
      BY <1>0, <1>1 DEF Stage, Has, Job, Importing
    <3>2. ASSUME Has(w, "quickadd")', next = "assign"
          PROVE  \E r \in DOMAIN tx'[w].own \cap DOMAIN db :
                    r[1] = "service" /\ \E s \in tx'[w].own[r] : Named(s) = Named(Job(w))
      <4>1. Has(w, "quickadd")  BY <3>2 DEF Has, Job
      <4>2. PICK r \in DOMAIN tx[w].own \cap DOMAIN db :
               r[1] = "service" /\ \E s \in tx[w].own[r] : Named(s) = Named(Job(w))
        BY <1>0, <1>1, <4>1 DEF Stage
      <4>3. QED  BY <2>5, <4>2
    <3>3. Has(w, "create")' => next = "commit"  BY <1>7 DEF Has, Job
    <3>4. Job(w)' = Job(w) /\ db' = db  BY DEF Job
    <3>5. CASE next = "assign"  BY <2>3, <3>1, <3>2, <3>4, <3>5 DEF Stage
    <3>6. CASE next = "commit"
      <4>1. tx'[w].step = "commit"  BY <2>3, <3>6
      <4>2. QED  BY <3>1, <4>1, CommitStage
    <3>7. QED  BY <1>7, <3>5, <3>6
  <2>7. QED  BY <1>0, <2>2, <2>4, <2>6, TypedQuietWrite
<1> HIDE DEF prefix, source, row, record, next
<1>10. QED  BY <1>0, <1>2, <1>9, TypedRollback

\* The credential goes, and its material is to go.
LEMMA TypedDestroy ==
    ASSUME EstateInv, TypesInv, NEW w \in Worker, destroy_material_on_delete(w),
           UNCHANGED <<jobs, db, run>>
    PROVE  ConnTyped(w)'
<1> DEFINE c == Job(w).cred
           rows == Only(Credential(c), {})
           k == tx[w].hooks \o <<Destroy(c)>>
<1>0. /\ ShapeInv /\ ConnTyped(w) /\ Kinds(w, tx[w].step)
      /\ (tx[w].open <=> tx[w].step \notin Closed) /\ tx[w].hooks \in Seq(Calls)
  BY TypedBase
<1>1. tx[w].step = "drop" /\ Has(w, "delete")
  BY <1>0 DEF destroy_material_on_delete, At, Kinds
<1>2. jobs[w] # <<>> /\ ~Has(w, "import")'  BY <1>1, OneKind
<1>3. c \in Cred
  <2>1. Request(Job(w), db)  BY <1>2, JobTyped
  <2>2. QED  BY <1>1, <2>1 DEF Has, Request
<1>4. Len(tx[w].hooks) <= 1  BY <1>0, <1>1 DEF ConnTyped
<1>5. Destroy(c) \in Calls  BY <1>3 DEF Destroy, Calls
<1>6. tx' = Write(w, rows, <<Destroy(c)>>, "commit", <<>>)  BY DEF destroy_material_on_delete
<1>7. RowsTyped(rows)
  <2>1. RowTyped(Credential(c), {})  BY DEF RowTyped, Credential
  <2>2. QED  BY <2>1, OnlyTyped
<1> DEFINE d == Destroy(c)
<1> HIDE DEF c, rows, d
<1>8. tx[w].hooks \o <<d>> \in Seq(Calls) /\ Len(tx[w].hooks \o <<d>>) = Len(tx[w].hooks) + 1
  BY <1>0, <1>5 DEF d
<1>9. tx' = Write(w, rows, <<d>>, "commit", <<>>)  BY <1>6 DEF d
<1>10. /\ Len(tx[w].hooks \o <<d>>) <= 3 /\ "commit" \notin Closed /\ tx[w].open
       /\ tx'[w].step = "commit"
  <2>1. tx'[w].step = "commit"  BY ONLY <1>0, <1>9, w \in Worker, WriteFields
  <2>2. Len(tx[w].hooks) \in Nat  BY <1>0
  <2>3. QED  BY <1>0, <1>1, <1>4, <1>8, <2>1, <2>2 DEF Closed, Calling
<1>11. Stage(w)'  BY <1>2, <1>10, CommitStage
<1>12. "commit" = "drop" => Len(tx[w].hooks \o <<d>>) <= 1  OBVIOUS
<1>13. tx[w].hooks \o <<d>> # <<>> => "commit" \in {"drop", "commit"}  OBVIOUS
<1>14. QED  BY ONLY <1>0, <1>7, <1>8, <1>9, <1>10, <1>11, <1>12, <1>13, w \in Worker, TypedWrite

\* A publication begins, and its credential is read.
LEMMA TypedPublish ==
    ASSUME EstateInv, TypesInv, NEW w \in Worker, UNCHANGED <<jobs, db, run>>,
           \/ _publish_custom_metadata(w) \/ Project(w) \/ set_metadata(w) \/ delete_material(w)
           \/ Respond(w)
    PROVE  ConnTyped(w)'
<1>0. /\ ShapeInv /\ ConnTyped(w) /\ Stage(w) /\ RowsTyped(tx[w].own)
      /\ RowsTyped(tx[w].loaded)
      /\ (tx[w].open <=> tx[w].step \notin Closed) /\ tx[w].hooks \in Seq(Calls)
      /\ tx[w].step \notin Writing => DOMAIN tx[w].own = {}
      /\ Len(tx[w].hooks) <= 3
  BY TypedBase DEF ConnTyped
<1>1. tx[w].step \in After /\ tx[w].step \notin Writing
  BY DEF _publish_custom_metadata, Project, set_metadata, delete_material, Respond, NextCall, At,
     After, Writing
<1>2. CASE tx' = Answered(w) /\ Respond(w)
  <2>1. tx[w].hooks = <<>> /\ tx[w].step \in Closed  BY <1>2 DEF Respond, At, Closed
  <2>2. QED  BY <1>0, <1>2, <2>1, TypedAnswered
<1>3. CASE tx' = Called(w)
  <2>1. CASE ~Respond(w)
    <3>1. \/ tx[w].step \in {"project", "send"} \/ tx[w].hooks # <<>>
      BY <2>1 DEF _publish_custom_metadata, Project, set_metadata, delete_material, NextCall, At
    <3>2. tx[w].hooks # <<>>  BY <1>0, <3>1 DEF Stage
    <3>3. QED  BY <1>0, <1>3, <3>2, TypedCalled
  <2>2. CASE Respond(w)  BY <1>2, <2>2 DEF Respond
  <2>3. QED  BY <2>1, <2>2
<1>4. ASSUME NEW l, tx' = Publishes(w, "project", l), NextCall(w, "publish")
      PROVE  ConnTyped(w)'
  <2>1. /\ tx'[w].step = "project" /\ tx'[w].open = TRUE /\ tx'[w].own = tx[w].own
        /\ tx'[w].hooks = tx[w].hooks /\ tx'[w].loaded = tx[w].loaded
    BY <1>0, <1>4, PublishFields
  <2>2. Stage(w)'  BY <1>4, <2>1 DEF Stage, NextCall
  <2>3. "project" \notin Closed /\ "project" \in After /\ "project" # "drop"
    BY DEF Closed, Calling, After
  <2>4. tx'[w].open /\ tx'[w].open \in BOOLEAN  BY <2>1
  <2>5. QED  BY <1>0, <2>1, <2>2, <2>3, <2>4 DEF ConnTyped
<1>5. ASSUME NEW i, i \subseteq Target, tx' = Images(w, "send", i), tx[w].step = "project"
      PROVE ConnTyped(w)'
  <2>1. /\ tx'[w].step = "send" /\ tx'[w].open = tx[w].open /\ tx'[w].own = tx[w].own
        /\ tx'[w].hooks = tx[w].hooks /\ tx'[w].loaded = tx[w].loaded /\ tx'[w].image = i
    BY <1>0, <1>5, ImageFields
  <2>2. Stage(w)'  BY <1>0, <1>5, <2>1 DEF Stage
  <2>3. "send" \notin Closed /\ "send" \in After /\ tx[w].open
    BY <1>0, <1>5 DEF Closed, Calling, After
  <2>4. QED  BY <1>0, <2>1, <2>2, <2>3 DEF ConnTyped
<1>6. build_custom_metadata(w, Subject(w)) \subseteq Target
  <2> DEFINE owned == {a \in Table(w, "assignment") : The(Seen(w, a)).cred = Subject(w)}
  <2>1. \A row \in owned : row \in DOMAIN db /\ row[1] = "assignment" /\ Seen(w, row) # {}
    BY DEF Table
  <2>2. \A row \in owned : The(Seen(w, row)).target \in Target
    <3> TAKE row \in owned
    <3>1. RowTyped(row, Seen(w, row))  BY <2>1, SeenTyped
    <3>2. The(Seen(w, row)) \in Seen(w, row)  BY <2>1, TheIn
    <3>3. QED  BY <2>1, <3>1, <3>2 DEF RowTyped
  <2>3. build_custom_metadata(w, Subject(w)) = {The(Seen(w, row)).target : row \in owned}
    BY DEF build_custom_metadata
  <2> HIDE DEF owned
  <2>4. QED  BY <2>2, <2>3
<1>7. CASE _publish_custom_metadata(w)
  <2>1. \/ tx' = Called(w) \/ tx' = Publishes(w, "project", <<Projection(Subject(w))>>)
    BY <1>7 DEF _publish_custom_metadata, Publishes
  <2>2. NextCall(w, "publish")  BY <1>7 DEF _publish_custom_metadata
  <2>3. QED  BY <1>3, <1>4, <2>1, <2>2
<1>8. CASE Project(w)
  <2>1. \/ tx' = Called(w) \/ tx' = Images(w, "send", build_custom_metadata(w, Subject(w)))
    BY <1>8 DEF Project, Images
  <2>2. tx[w].step = "project"  BY <1>8 DEF Project, At
  <2>3. QED  BY <1>3, <1>5, <1>6, <2>1, <2>2
<1>9. QED
  BY <1>2, <1>3, <1>7, <1>8 DEF set_metadata, delete_material, Respond

\* An address of quick add.
LEMMA TypedAddress ==
    ASSUME EstateInv, TypesInv, NEW w \in Worker, _new_ip_address(w) \/ LockService(w),
           UNCHANGED <<jobs, db, run>>
    PROVE  ConnTyped(w)'
<1>0. /\ ShapeInv /\ ConnTyped(w) /\ (tx[w].open <=> tx[w].step \notin Closed)
      /\ tx[w].step \notin {"drop", "commit"} \cup After => tx[w].hooks = <<>>
  BY TypedBase
<1>1. tx[w].step \in {"address", "parent"}  BY DEF _new_ip_address, LockService, At
<1>2. tx[w].hooks = <<>> /\ tx[w].open /\ tx[w].step \notin Closed
  BY <1>0, <1>1 DEF Closed, After, Calling
<1>3. \/ tx' = RolledBack(w, "failed")
      \/ \E l : tx' = Goto(w, "service", l)
      \/ \E l : tx' = Write(w, NoRows, <<>>, "parent", l)
      \/ \E l : tx' = Write(w, Only(Address(Job(w).address), {[cidr |-> Job(w).cidr]}), <<>>,
                            "parent", l)
  BY Zenon DEF _new_ip_address, LockService
<1>4. ASSUME NEW rows, NEW l, RowsTyped(rows), tx' = Write(w, rows, <<>>, "parent", l)
      PROVE  ConnTyped(w)'
  <2>1. tx'[w].step = "parent"  BY <1>0, <1>4, WriteFields
  <2>2. Stage(w)'  BY <2>1, PlainStage DEF Staged
  <2>3. "parent" \notin Closed  BY DEF Closed, Calling
  <2>4. QED  BY <1>0, <1>2, <1>4, <2>2, <2>3, TypedQuietWrite
<1>5. ASSUME NEW l, tx' = Goto(w, "service", l) PROVE ConnTyped(w)'
  <2>1. tx'[w].step = "service"  BY <1>0, <1>5, GotoFields
  <2>2. Stage(w)'  BY <2>1, PlainStage DEF Staged
  <2>3. "service" \notin Closed  BY DEF Closed, Calling
  <2>4. QED  BY <1>0, <1>2, <1>5, <2>2, <2>3, TypedGoto
<1>6. RowsTyped(Only(Address(Job(w).address), {[cidr |-> Job(w).cidr]}))
  <2>1. RowTyped(Address(Job(w).address), {[cidr |-> Job(w).cidr]})  BY DEF RowTyped, Address
  <2>2. QED  BY <2>1, OnlyTyped
<1>7. QED  BY <1>0, <1>3, <1>4, <1>5, <1>6, NoRowsTyped, TypedRollback

\* The service of quick add.
LEMMA TypedService ==
    ASSUME EstateInv, TypesInv, NEW w \in Worker, _get_or_create_service(w),
           UNCHANGED <<jobs, db, run>>
    PROVE  ConnTyped(w)'
<1> DEFINE services == ServicesOf(w)
           row == IF services = {} THEN Service(Job(w).service) ELSE CHOOSE s \in services : TRUE
           next == IF Job(w).existing THEN "assign" ELSE "prefix"
<1>0. /\ ShapeInv /\ ConnTyped(w) /\ (tx[w].open <=> tx[w].step \notin Closed)
      /\ tx[w].step \notin {"drop", "commit"} \cup After => tx[w].hooks = <<>>
      /\ Kinds(w, tx[w].step)
  BY TypedBase
<1>1. tx[w].step = "service" /\ Has(w, "quickadd")
  BY <1>0 DEF _get_or_create_service, At, Kinds
<1>2. tx[w].hooks = <<>> /\ tx[w].open /\ tx[w].step \notin Closed
  BY <1>0, <1>1 DEF Closed, After, Calling
<1>3. /\ jobs[w] # <<>> /\ Has(w, "quickadd")' /\ ~Has(w, "import")' /\ Job(w)' = Job(w)
  BY <1>1, OneKind
<1>4. \/ tx' = RolledBack(w, "failed")
      \/ \E service, l : /\ Named(service) = Named(Job(w))
                         /\ tx' = Write(w, Only(row, {service}), <<>>, next, l)
  <2> DEFINE explicit == Job(w).address # "none"
             chosen == IF explicit THEN {r[2] : r \in Same(w)}
                       ELSE _primary_ip_addresses(w)
             old == IF services = {} THEN [ports |-> {}, addresses |-> {}] ELSE The(Seen(w, row))
             addresses == IF old.addresses = {} THEN chosen ELSE old.addresses
             service == [parent |-> Job(w).parent, name |-> Job(w).name,
                         ports |-> old.ports \cup {Job(w).port}, addresses |-> addresses]
             locks == IF Job(w).existing THEN <<>> ELSE <<Singleton>>
  <2>1. \/ tx' = RolledBack(w, "failed")
        \/ tx' = Write(w, Only(row, {service}), <<>>, next, locks)
    BY DEF _get_or_create_service
  <2>2. Named(service) = Named(Job(w))  BY DEF Named
  <2> HIDE DEF row, next, service, locks
  <2>3. QED  BY <2>1, <2>2
<1>5. row \in Drawn /\ row[1] = "service" /\ row \in DOMAIN db
  <2>1. Drawn \subseteq DOMAIN db  BY DEF TypesInv
  <2>2. CASE services = {}
    <3>1. Request(Job(w), db)  BY <1>3, JobTyped
    <3>2. Job(w).service \in Target  BY <1>1, <3>1 DEF Has, Request
    <3>3. row = Service(Job(w).service)  BY <2>2
    <3> HIDE DEF row
    <3>4. QED  BY <2>1, <3>2, <3>3 DEF Drawn, Service
  <2>3. CASE services # {}
    <3>1. row \in services  BY <2>3
    <3> HIDE DEF row
    <3>2. row[1] = "service" /\ row \in DOMAIN db  BY <3>1 DEF ServicesOf, Table
    <3>3. QED  BY <3>2, SeenTyped DEF RowTyped
  <2>4. QED  BY <2>2, <2>3
<1>6. next \in {"assign", "prefix"} /\ (next = "prefix" => ~Job(w).existing)
  OBVIOUS
<1> HIDE DEF row, next, services
<1>7. ASSUME NEW service, NEW l, Named(service) = Named(Job(w)),
             tx' = Write(w, Only(row, {service}), <<>>, next, l)
      PROVE  ConnTyped(w)'
  <2> DEFINE rows == Only(row, {service})
  <2>1. RowTyped(row, {service})  BY <1>5 DEF RowTyped
  <2>2. RowsTyped(rows)  BY <2>1, OnlyTyped
  <2>3. DOMAIN rows = {row} /\ rows[row] = {service}  BY DEF Only
  <2>4. tx' = Write(w, rows, <<>>, next, l)  BY <1>7
  <2> HIDE DEF rows
  <2>5. tx'[w].step = next /\ tx'[w].own = Over(rows, tx[w].own)  BY <1>0, <2>4, WriteFields
  <2>6. row \in DOMAIN tx'[w].own /\ tx'[w].own[row] = {service}  BY <2>3, <2>5 DEF Over
  <2>7. \E r \in DOMAIN tx'[w].own \cap DOMAIN db :
           r[1] = "service" /\ \E s \in tx'[w].own[r] : Named(s) = Named(Job(w))
    BY <1>5, <1>7, <2>6
  <2>8. Stage(w)'  BY <1>3, <1>6, <2>5, <2>7 DEF Stage
  <2>9. next \notin Closed  BY <1>6 DEF Closed, Calling
  <2>10. QED  BY <1>0, <1>2, <2>2, <2>4, <2>8, <2>9, TypedQuietWrite
<1>8. QED  BY <1>0, <1>4, <1>7, TypedRollback

\* The importer's steps between secrets.
LEMMA TypedImport ==
    ASSUME EstateInv, TypesInv, NEW w \in Worker, UNCHANGED <<jobs, db>>,
           import_secrets(w) \/ ImportSecret(w) \/ NextSecret(w) \/ Imported(w)
    PROVE  ConnTyped(w)'
<1>0. /\ ShapeInv /\ ConnTyped(w) /\ Kinds(w, tx[w].step)
      /\ tx[w].step \notin {"drop", "commit"} \cup After => tx[w].hooks = <<>>
  BY TypedBase
<1>1. CASE import_secrets(w)
  <2>1. tx' = Goto(w, "secret", <<>>) /\ tx[w].step = "idle"  BY <1>1 DEF import_secrets, Ready, At
  <2>2. tx[w].hooks = <<>> /\ "secret" \in Closed /\ tx[w].step \in Closed
    BY <1>0, <2>1 DEF Closed, After
  <2>3. tx'[w].step = "secret"  BY <1>0, <2>1, GotoFields
  <2>4. Stage(w)'  BY <2>3, PlainStage DEF Staged
  <2>5. QED  BY <1>0, <2>1, <2>2, <2>4, TypedGoto
<1>2. CASE ImportSecret(w)
  <2>1. tx[w].step = "secret" /\ Importing(w)  BY <1>2 DEF ImportSecret, At
  <2>2. Has(w, "import")  BY <2>1 DEF Importing
  <2>3. CASE tx' = tx
    <3>1. Stage(w)'  BY <2>1, <2>3, PlainStage DEF Staged
    <3>2. QED  BY <1>0, <2>3, <3>1 DEF ConnTyped
  <2>4. CASE tx' = Open(w, "prefix", <<Singleton>>, NoRows) /\ run' = run
    <3>1. tx'[w].step = "prefix"  BY <1>0, <2>4, BeginFields
    <3>2. Importing(w)' /\ ~Has(w, "quickadd")'
      BY <2>1, <2>2, <2>4, OneKind DEF Importing, Has, Job
    <3>3. Stage(w)'  BY <3>1, <3>2 DEF Stage
    <3>4. "prefix" \notin Closed /\ RowsTyped(NoRows)  BY NoRowsTyped DEF Closed, Calling
    <3>5. QED  BY <2>1, <2>4, <3>3, <3>4, TypedStart
  <2>5. QED  BY <1>2, <2>3, <2>4 DEF ImportSecret
<1>3. CASE NextSecret(w)
  <2>1. tx' = Resets(w, "secret")  BY <1>3 DEF NextSecret, Resets
  <2>2. QED  BY <1>0, <2>1, TypedReset
<1>4. CASE Imported(w)
  <2>1. tx' = Answered(w) /\ tx[w].step = "secret"  BY <1>4 DEF Imported, At
  <2>2. QED  BY <2>1, TypedStartAnswered
<1>5. QED  BY <1>1, <1>2, <1>3, <1>4

\* Rows of the engine's authentication material.
LEMMA TypedMaterialStart ==
    ASSUME EstateInv, TypesInv, IdentityInv, NEW w \in Worker, UNCHANGED <<jobs, db>>,
           Rotate(w) \/ Reencrypt(w) \/ Withdraw(w)
    PROVE  ConnTyped(w)'
<1>0. ShapeInv /\ RowsTyped(db) /\ {Singleton, Material} \subseteq DOMAIN db  BY TypedBase
<1>1. tx[w].step = "idle"  BY DEF Rotate, Reencrypt, Withdraw, Ready, At
<1>2. PICK kind \in {"rotate", "reencrypt", "withdraw"} : Has(w, kind)
  BY DEF Rotate, Reencrypt, Withdraw, Ready
<1>3. ~Has(w, "import")' /\ ~Has(w, "quickadd")'  BY <1>2, OneKind
<1>4. \/ tx' = Answered(w)
      \/ tx' = Open(w, "merge", <<Material>>, Only(Material, db[Material]))
      \/ tx' = Open(w, "merge", <<Material>>, NoRows)
      \/ db[Material] # {} /\ tx' = Open(w, "withdraw", <<Material>>, Only(Material, db[Material]))
  BY DEF Rotate, Reencrypt, Withdraw
<1>5. RowsTyped(Only(Material, db[Material])) /\ RowsTyped(NoRows)
  <2>1. RowTyped(Material, db[Material])  BY <1>0 DEF RowsTyped
  <2>2. QED  BY <2>1, OnlyTyped, NoRowsTyped
<1>6. ASSUME NEW d, RowsTyped(d), tx' = Open(w, "merge", <<Material>>, d) PROVE ConnTyped(w)'
  <2>1. tx'[w].step = "merge"  BY <1>0, <1>6, BeginFields
  <2>2. Stage(w)'  BY <2>1, PlainStage DEF Staged
  <2>3. "merge" \notin Closed  BY DEF Closed, Calling
  <2>4. QED  BY <1>1, <1>6, <2>2, <2>3, TypedStart
<1>7. ASSUME db[Material] # {}, NEW d, d = Only(Material, db[Material]),
             tx' = Open(w, "withdraw", <<Material>>, d)
      PROVE ConnTyped(w)'
  <2>1. tx'[w].step = "withdraw" /\ tx'[w].loaded = d
    BY ONLY <1>0, w \in Worker, tx' = Open(w, "withdraw", <<Material>>, d), BeginFields
  <2>2. The(db[Material]) \in db[Material]  BY <1>7, TheIn
  <2>3. The(db[Material]).revision \in Nat  BY <2>2 DEF IdentityInv, HistoryOK
  <2>4. d[Material] = db[Material]  BY <1>7 DEF Only
  <2>5. Stage(w)'  BY <1>3, <2>1, <2>3, <2>4 DEF Stage
  <2>6. "withdraw" \notin Closed  BY DEF Closed, Calling
  <2>7. RowsTyped(d)  BY <1>5, <1>7
  <2>8. QED  BY <1>1, <1>7, <2>5, <2>6, <2>7, TypedStart
<1>8. QED  BY <1>1, <1>4, <1>5, <1>6, <1>7, TypedStartAnswered

\* A statement that writes the material and invalidates a revision.
LEMMA TypedMaterialWrite ==
    ASSUME EstateInv, TypesInv, IdentityInv, NEW w \in Worker, UNCHANGED <<jobs, db>>,
           save(w) \/ DeleteMaterial(w)
    PROVE  ConnTyped(w)'
<1>0. /\ ShapeInv /\ ConnTyped(w) /\ Stage(w) /\ Kinds(w, tx[w].step)
      /\ (tx[w].open <=> tx[w].step \notin Closed)
      /\ tx[w].step \notin {"drop", "commit"} \cup After => tx[w].hooks = <<>>
      /\ tx[w].step \notin Writing => DOMAIN tx[w].own = {}
  BY TypedBase
<1>1. /\ tx[w].step \in {"merge", "withdraw"}
      /\ save(w) => tx[w].step = "merge"
      /\ DeleteMaterial(w) => tx[w].step = "withdraw"
  BY DEF save, DeleteMaterial, At
<1>2. /\ tx[w].hooks = <<>> /\ tx[w].open /\ tx[w].step \notin Closed /\ "commit" \notin Closed
      /\ DOMAIN tx[w].own = {}
  BY <1>0, <1>1 DEF Closed, After, Calling, Writing
<1>3. PICK kind \in {"rotate", "reencrypt", "withdraw"} : Has(w, kind)
  BY <1>0, <1>1 DEF Kinds
<1>4. ~Has(w, "import")'  BY <1>3, OneKind
<1>5. ASSUME NEW rows, RowsTyped(rows), NEW revision \in Nat,
             tx' = Write(w, rows, <<Invalidate(revision)>>, "commit", <<>>)
      PROVE  ConnTyped(w)'
  <2> DEFINE h == Invalidate(revision)
  <2>1. h \in Calls  BY DEF Invalidate, Calls
  <2> HIDE DEF h
  <2>2. /\ tx[w].hooks \o <<h>> \in Seq(Calls) /\ Len(tx[w].hooks \o <<h>>) <= 3
        /\ "commit" = "drop" => Len(tx[w].hooks \o <<h>>) <= 1
        /\ tx[w].hooks \o <<h>> # <<>> => "commit" \in {"drop", "commit"}
    BY <1>2, <2>1
  <2>3. tx' = Write(w, rows, <<h>>, "commit", <<>>) /\ RowsTyped(rows)  BY <1>5 DEF h
  <2>4. tx'[w].step = "commit"  BY ONLY <1>0, <2>3, w \in Worker, WriteFields
  <2>5. Stage(w)'  BY <1>4, <2>4, CommitStage
  <2>6. QED  BY ONLY <1>0, <1>2, <2>2, <2>3, <2>5, w \in Worker, TypedWrite
<1>6. \A records : (\A r, s \in records : r = s) => RowsTyped(Only(Material, records))
  <2> TAKE records
  <2> HAVE \A r, s \in records : r = s
  <2>1. RowTyped(Material, records)  BY DEF RowTyped, Material
  <2>2. QED  BY <2>1, OnlyTyped
<1>7. CASE save(w)
  <2>1. CASE Seen(w, Material) = {}
    <3>1. tx' = RolledBack(w, "failed")  BY <1>7, <2>1 DEF save
    <3>2. QED  BY <1>0, <3>1, TypedRollback
  <2>2. CASE Seen(w, Material) # {}
    <3>1. PICK r : tx' = Write(w, Only(Material, {r}), <<Invalidate(The(Seen(w, Material)).revision)>>,
                               "commit", <<>>)
      BY <1>7, <2>2, Zenon DEF save
    <3>2. Seen(w, Material) = db[Material]  BY <1>2 DEF Seen
    <3>3. The(Seen(w, Material)) \in db[Material]  BY <2>2, <3>2, TheIn
    <3>4. The(Seen(w, Material)).revision \in Nat  BY <3>3 DEF IdentityInv, HistoryOK
    <3>5. RowsTyped(Only(Material, {r}))  BY <1>6
    <3>6. QED  BY <1>5, <3>1, <3>4, <3>5
  <2>3. QED  BY <2>1, <2>2
<1>8. CASE DeleteMaterial(w)
  <2>1. tx' = Write(w, Only(Material, {}), <<Invalidate(The(tx[w].loaded[Material]).revision)>>,
                    "commit", <<>>)
    BY <1>8 DEF DeleteMaterial
  <2>2. The(tx[w].loaded[Material]).revision \in Nat  BY <1>0, <1>1, <1>8 DEF Stage
  <2>3. RowsTyped(Only(Material, {}))  BY <1>6
  <2>4. QED  BY <1>5, <2>1, <2>2, <2>3
<1>9. QED  BY <1>7, <1>8

--------------------------------------------------------------------------------
(***************************************************************************)
(* Callbacks, commits and the steps outside a transaction.                 *)
(***************************************************************************)

\* The steps of a call.
LEMMA TypedCall ==
    ASSUME EstateInv, TypesInv, NEW w \in Worker, UNCHANGED <<jobs, db>>,
           \/ get_backend(w) \/ refresh_auth_material(w) \/ Reload(w) \/ _get_client(w) \/ Keep(w)
           \/ Present(w)
    PROVE  ConnTyped(w)'
<1>0. /\ ShapeInv /\ ConnTyped(w) /\ RowsTyped(db) /\ RowsTyped(tx[w].loaded)
      /\ (tx[w].open <=> tx[w].step \notin Closed) /\ {Singleton, Material} \subseteq DOMAIN db
      /\ tx[w].step \notin {"drop", "commit"} \cup After => tx[w].hooks = <<>>
      /\ RowsTyped(tx[w].own) /\ tx[w].step \notin Writing => DOMAIN tx[w].own = {}
  BY TypedBase
<1>1. tx[w].step \in {"idle", "refresh", "reload", "client", "keep", "present"}
  BY DEF get_backend, refresh_auth_material, Reload, _get_client, Keep, Present, Ready, At
<1>2. tx[w].step \in Closed /\ tx[w].hooks = <<>> /\ tx[w].step \notin Writing
  BY <1>0, <1>1 DEF Closed, Calling, After, Writing
<1>3. \/ tx' = Answered(w)
      \/ \E s \in {"client", "reload", "present", "keep", "refresh", "finish"} :
            tx' = Goto(w, s, <<>>)
      \/ \E s \in {"client", "refresh"} : tx' = Loads(w, s, Only(Material, db[Material]))
  BY Zenon DEF get_backend, refresh_auth_material, Reload, _get_client, Keep, Present, Loads
<1>4. \A s \in {"client", "reload", "present", "keep", "refresh", "finish"} :
         s \in Closed /\ s \notin Staged /\ s # "commit"
  BY DEF Closed, Calling, Staged
<1>5. ASSUME NEW s \in {"client", "reload", "present", "keep", "refresh", "finish"},
             tx' = Goto(w, s, <<>>)
      PROVE  ConnTyped(w)'
  <2>1. tx'[w].step = s  BY <1>0, <1>5, GotoFields
  <2>2. Stage(w)'  BY <1>4, <2>1, PlainStage
  <2>3. s \in Closed  BY <1>4
  <2>4. QED  BY <1>0, <1>2, <1>5, <2>2, <2>3, TypedGoto
<1>6. RowsTyped(Only(Material, db[Material]))
  <2>1. RowTyped(Material, db[Material])  BY <1>0 DEF RowsTyped
  <2>2. QED  BY <2>1, OnlyTyped
<1>7. ASSUME NEW s \in {"client", "refresh"}, NEW d, RowsTyped(d), tx' = Loads(w, s, d)
      PROVE  ConnTyped(w)'
  <2>1. /\ tx'[w].step = s /\ tx'[w].open = tx[w].open /\ tx'[w].own = tx[w].own
        /\ tx'[w].hooks = tx[w].hooks /\ tx'[w].loaded = d
    BY <1>0, <1>7, LoadFields
  <2>2. Stage(w)'  BY <1>4, <2>1, PlainStage
  <2>3. s \in Closed /\ s # "drop"  BY <1>4
  <2>4. /\ tx[w].open \in BOOLEAN /\ tx[w].hooks \in Seq(Calls) /\ Len(tx[w].hooks) <= 3
        /\ (DOMAIN tx[w].own # {} => tx[w].open)
    BY <1>0 DEF ConnTyped
  <2>5. QED  BY <1>0, <1>2, <1>7, <2>1, <2>2, <2>3, <2>4 DEF ConnTyped
<1>8. QED  BY <1>0, <1>2, <1>3, <1>5, <1>6, <1>7, TypedAnswered

\* Sessions dropped.
LEMMA TypedInvalidate ==
    ASSUME EstateInv, TypesInv, NEW w \in Worker, UNCHANGED <<jobs, db>>,
           invalidate_auth_material_sessions(w)
    PROVE  ConnTyped(w)'
<1>0. ShapeInv /\ ConnTyped(w)  BY TypedBase
<1>1. tx[w].step = "callbacks" /\ tx[w].hooks # <<>> /\ tx' = Unhooks(w)
  BY DEF invalidate_auth_material_sessions, At, Unhooks
<1>2. /\ tx'[w].step = "callbacks" /\ tx'[w].open = tx[w].open /\ tx'[w].own = tx[w].own
      /\ tx'[w].hooks = Tail(tx[w].hooks) /\ tx'[w].loaded = tx[w].loaded
  BY <1>0, <1>1, HooksFields
<1>3. Stage(w)'  BY <1>2, PlainStage DEF Staged
<1>4. tx[w].hooks \in Seq(Calls) /\ Len(tx[w].hooks) <= 3  BY <1>0 DEF ConnTyped
<1>5. Tail(tx[w].hooks) \in Seq(Calls) /\ Len(Tail(tx[w].hooks)) <= 3  BY <1>1, <1>4, TailSeq
<1>6. /\ tx[w].open \in BOOLEAN /\ RowsTyped(tx[w].own) /\ RowsTyped(tx[w].loaded)
      /\ (tx[w].open <=> tx[w].step \notin Closed) /\ (DOMAIN tx[w].own # {} => tx[w].open)
  BY <1>0 DEF ConnTyped
<1>7. QED  BY <1>1, <1>2, <1>3, <1>5, <1>6 DEF ConnTyped, After

\* A lock that is granted.
LEMMA TypedGrant ==
    ASSUME EstateInv, TypesInv, NEW w \in Worker, Grant(w), run' = run
    PROVE  ConnTyped(w)'
<1>0. ShapeInv /\ ConnTyped(w) /\ UNCHANGED <<jobs, db>>  BY TypedBase DEF Grant
<1>1. PICK locked : tx' = Grants(w, locked)  BY Zenon DEF Grant, Grants
<1>2. /\ tx'[w].step = tx[w].step /\ tx'[w].open = tx[w].open /\ tx'[w].own = tx[w].own
      /\ tx'[w].hooks = tx[w].hooks /\ tx'[w].loaded = tx[w].loaded /\ tx'[w].image = tx[w].image
  BY <1>0, <1>1, GrantFields
<1>3. QED  BY <1>0, <1>2 DEF ConnTyped, Stage, Has, Job, Importing

\* A commit, its callbacks ahead.
LEMMA TypedCommit ==
    ASSUME EstateInv, TypesInv, NEW w \in Worker, Commit(w)
    PROVE  /\ ConnTyped(w)' /\ Others(w) /\ jobs' = jobs /\ RowsTyped(db')
           /\ DOMAIN db \subseteq DOMAIN db'
<1>0. /\ ShapeInv /\ ConnTyped(w) /\ RowsTyped(db) /\ RowsTyped(tx[w].own) /\ jobs' = jobs
  BY TypedBase DEF Commit
<1>1. \/ db' = Over(tx[w].own, db) /\ tx' = Commits(w)
      \/ db' = db /\ tx' = RolledBack(w, "failed")
  BY DEF Commit, Commits
<1>2. CASE db' = db /\ tx' = RolledBack(w, "failed")
  <2>1. Others(w)  BY <1>0, <1>2, RolledBackFields
  <2>2. QED  BY <1>0, <1>2, <2>1, TypedRollback
<1>3. CASE db' = Over(tx[w].own, db) /\ tx' = Commits(w)
  <2>1. /\ Others(w) /\ tx'[w].step = "callbacks" /\ tx'[w].open = FALSE /\ tx'[w].own = NoRows
        /\ tx'[w].hooks = tx[w].hooks /\ tx'[w].loaded = tx[w].loaded
    BY <1>0, <1>3, CommittedFields
  <2>2. Stage(w)'  BY <2>1, PlainStage DEF Staged
  <2>3. DOMAIN NoRows = {} /\ RowsTyped(NoRows)  BY NoRowsTyped DEF NoRows
  <2>4. RowsTyped(tx[w].loaded) /\ tx[w].hooks \in Seq(Calls) /\ Len(tx[w].hooks) <= 3
    BY <1>0 DEF ConnTyped
  <2>5. "callbacks" \in After /\ "callbacks" \in Closed /\ "callbacks" # "drop"
    BY DEF After, Closed
  <2>6. ~tx'[w].open /\ tx'[w].open \in BOOLEAN  BY <2>1
  <2>7. ConnTyped(w)'  BY <2>1, <2>2, <2>3, <2>4, <2>5, <2>6 DEF ConnTyped
  <2>8. RowsTyped(db')  BY <1>0, <1>3, OverTyped
  <2>9. DOMAIN db \subseteq DOMAIN db'  BY <1>3 DEF Over
  <2>10. QED  BY <1>0, <2>1, <2>7, <2>8, <2>9
<1>4. QED  BY <1>1, <1>2, <1>3

\* A failure: the connection is released.
LEMMA TypedFails ==
    ASSUME EstateInv, TypesInv, NEW w \in Worker, Victim(w) \/ Refuse(w) \/ Crash(w)
    PROVE  ConnTyped(w)' /\ Others(w) /\ UNCHANGED <<jobs, db>>
<1>0. ShapeInv /\ ConnTyped(w) /\ UNCHANGED <<jobs, db>>  BY TypedBase DEF Victim, Refuse, Crash
<1>1. tx' = RolledBack(w, "failed") \/ tx' = Resets(w, "dead")
  BY DEF Victim, Refuse, Crash, Resets
<1>2. QED  BY <1>0, <1>1, TypedRollback, TypedReset, RolledBackFields, ResetFields

\* A request of the graph leaves its connection typed.
LEMMA TypedGraph ==
    ASSUME EstateInv, TypesInv, NEW w \in Worker, GraphWork(w)
    PROVE  ConnTyped(w)'
<1>0. jobs' = jobs /\ db' = db /\ UNCHANGED <<jobs, db>>  BY GraphReads
<1>1. CASE Create(w) \/ Assign(w) \/ _lock_metadata(w) \/ quick_add_ssh(w) \/ Delete(w)
  BY <1>0, <1>1, TypedPlainStart
<1>2. CASE Reassign(w) \/ Unassign(w)  BY <1>0, <1>2, TypedRowStart
<1>3. CASE capture_previous_credential(w)  BY <1>0, <1>3, TypedCapture
<1>4. CASE import_secrets(w) \/ ImportSecret(w) \/ NextSecret(w) \/ Imported(w)
  BY <1>0, <1>4, TypedImport
<1>5. CASE \/ Stamp(w) \/ _assign(w) \/ Rebind(w) \/ DeleteAssignment(w) \/ Clear(w)
           \/ destroy_material_on_delete(w) \/ _publish_custom_metadata(w) \/ Project(w)
           \/ set_metadata(w) \/ delete_material(w) \/ Respond(w) \/ _new_ip_address(w)
           \/ LockService(w) \/ _get_or_create_service(w)
  <2>1. UNCHANGED <<jobs, db, run>>
    BY <1>0, <1>5 DEF Stamp, _assign, Rebind, DeleteAssignment, Clear, destroy_material_on_delete,
       _publish_custom_metadata, Project, set_metadata, delete_material, Respond, _new_ip_address,
       LockService, _get_or_create_service, Quiet, graphVars
  <2>2. QED
    BY <1>5, <2>1, TypedStamp, TypedAssign, TypedRebind, TypedRemove, TypedClear, TypedDestroy,
       TypedPublish, TypedAddress, TypedService
<1>6. QED  BY <1>1, <1>2, <1>3, <1>4, <1>5 DEF GraphWork

\* The engine authentication material.
LEMMA TypedIdentity ==
    ASSUME EstateInv, TypesInv, IdentityInv, NEW w \in Worker, IdentityWork(w)
    PROVE  ConnTyped(w)' /\ Others(w) /\ UNCHANGED <<jobs, db>>
<1>1. UNCHANGED <<jobs, db>>
  BY DEF IdentityWork, Rest, Rotate, Reencrypt, save, Withdraw, DeleteMaterial,
     invalidate_auth_material_sessions, get_backend, refresh_auth_material, Reload, _get_client,
     Keep, Present
<1>2. ConnTyped(w)'
  BY <1>1, TypedMaterialStart, TypedMaterialWrite, TypedInvalidate, TypedCall DEF IdentityWork
<1>3. ShapeInv  BY DEF EstateInv
<1>4. \/ tx' = Answered(w)
      \/ \E s, l : tx' = Goto(w, s, l)
      \/ \E s, d : tx' = Loads(w, s, d)
      \/ \E s, l, d : tx' = Open(w, s, l, d)
      \/ \E r, h, s, l : tx' = Write(w, r, h, s, l)
      \/ tx' = RolledBack(w, "failed")
      \/ tx' = Unhooks(w)
  <2>1. CASE Rotate(w) \/ Reencrypt(w) \/ Withdraw(w)
    BY <2>1, Zenon DEF Rotate, Reencrypt, Withdraw
  <2>2. CASE save(w) \/ DeleteMaterial(w)
    BY <2>2, Zenon DEF save, DeleteMaterial
  <2>3. CASE invalidate_auth_material_sessions(w)
    BY <2>3, Zenon DEF invalidate_auth_material_sessions, Unhooks
  <2>4. CASE get_backend(w) \/ refresh_auth_material(w) \/ Reload(w)
    BY <2>4, Zenon DEF get_backend, refresh_auth_material, Reload, Loads
  <2>5. CASE _get_client(w) \/ Keep(w) \/ Present(w)
    BY <2>5, Zenon DEF _get_client, Keep, Present
  <2>6. QED  BY <2>1, <2>2, <2>3, <2>4, <2>5 DEF IdentityWork
<1>5. Others(w)
  <2>1. CASE tx' = Answered(w)  BY <1>3, <2>1, AnsweredFields
  <2>2. CASE \E s, l : tx' = Goto(w, s, l)  BY <1>3, <2>2, GotoFields
  <2>3. CASE \E s, d : tx' = Loads(w, s, d)  BY <1>3, <2>3, LoadFields
  <2>4. CASE \E s, l, d : tx' = Open(w, s, l, d)  BY <1>3, <2>4, BeginFields
  <2>5. CASE \E r, h, s, l : tx' = Write(w, r, h, s, l)
    <3>1. PICK r, h, s, l : tx' = Write(w, r, h, s, l)  BY <2>5, Zenon
    <3>2. QED  BY <1>3, <3>1, WriteFields
  <2>6. CASE tx' = RolledBack(w, "failed")  BY <1>3, <2>6, RolledBackFields
  <2>7. CASE tx' = Unhooks(w)  BY <1>3, <2>7, HooksFields
  <2>8. QED  BY <1>4, <2>1, <2>2, <2>3, <2>4, <2>5, <2>6, <2>7
<1>6. QED  BY <1>1, <1>2, <1>5

\* The importer's position goes on.
LEMMA Further ==
    ASSUME RunTyped, NEW w \in Worker, NEW r,
           run' = [run EXCEPT ![w].at = @ + 1, ![w].reported = r]
    PROVE  run' = [run EXCEPT ![w] = [known |-> run[w].known, at |-> run[w].at + 1,
                                      reported |-> r]]
<1> DEFINE K == {run[v].known : v \in Worker}
           A == {run[v].at : v \in Worker}
           R == {run[v].reported : v \in Worker}
<1>1. \A v \in Worker : run[v].known \in K /\ run[v].at \in A /\ run[v].reported \in R
  BY Zenon
<1> HIDE DEF K, A, R
<1>2. run \in [Worker -> [known : K, at : A, reported : R]]  BY <1>1 DEF RunTyped
<1>3. PICK m : m = run[w].at + 1  OBVIOUS
<1>4. run' = [run EXCEPT ![w].at = m, ![w].reported = r]  BY <1>3
<1>5. /\ run'[w] = [known |-> run[w].known, at |-> m, reported |-> r]
      /\ run' = [v \in Worker |-> run'[v]]
      /\ \A v \in Worker \ {w} : run'[v] = run[v]
  BY ONLY <1>2, <1>4, w \in Worker
<1>6. run' = [run EXCEPT ![w] = [known |-> run[w].known, at |-> m, reported |-> r]]
  BY ONLY <1>2, <1>5, w \in Worker
<1>7. QED  BY <1>3, <1>6

\* What a graph request leaves of the importer's progress and of the history.
LEMMA TypedProgress ==
    ASSUME EstateInv, TypesInv, NEW w \in Worker, GraphWork(w)
    PROVE  /\ RunTyped' /\ \A v \in Worker \ {w} : run'[v] = run[v]
           /\ fresh' = fresh
<1>1. fresh' = fresh
  BY DEF GraphWork, Create, Stamp, Assign, _assign, Reassign, capture_previous_credential, Rebind,
   Unassign, DeleteAssignment, Delete, Clear, destroy_material_on_delete, _lock_metadata,
   _publish_custom_metadata, Project, set_metadata, delete_material, Respond, quick_add_ssh,
   _new_ip_address, LockService, _get_or_create_service, import_secrets, ImportSecret, NextSecret,
   Imported, Quiet, settingsVars
<1>2. RunTyped  BY DEF TypesInv
<1>3. \/ run' = run
      \/ \E k, a, r : a \in Nat \ {0} /\
            run' = [run EXCEPT ![w] = [known |-> k, at |-> a, reported |-> r]]
  <2>1. run[w] = [known |-> run[w].known, at |-> run[w].at, reported |-> run[w].reported]
        /\ run[w].at + 1 \in Nat \ {0} /\ 1 \in Nat \ {0}
    BY <1>2 DEF RunTyped
  <2>2. CASE import_secrets(w)
    <3>1. \E k, r : run' = [run EXCEPT ![w] = [known |-> k, at |-> 1, reported |-> r]]
      BY <2>2, Zenon DEF import_secrets
    <3>2. QED  BY <2>1, <3>1, Zenon
  <2>3. CASE ImportSecret(w)
    <3>1. \/ run' = run
          \/ \E r : run' = [run EXCEPT ![w].at = @ + 1, ![w].reported = r]
      BY <2>3, Zenon DEF ImportSecret
    <3>2. ASSUME NEW r, run' = [run EXCEPT ![w].at = @ + 1, ![w].reported = r]
          PROVE  run' = [run EXCEPT ![w] = [known |-> run[w].known, at |-> run[w].at + 1,
                                            reported |-> r]]
      BY <1>2, <3>2, Further
    <3>3. QED  BY <2>1, <3>1, <3>2, Zenon
  <2>4. CASE NextSecret(w)
    <3>1. \E k, r : run' = [run EXCEPT ![w] = [known |-> k, at |-> run[w].at + 1,
                                               reported |-> r]]
      BY <2>4, Zenon DEF NextSecret
    <3>2. QED  BY <2>1, <3>1, Zenon
  <2>5. CASE ~import_secrets(w) /\ ~ImportSecret(w) /\ ~NextSecret(w)
    BY <2>5 DEF GraphWork, Create, Stamp, Assign, _assign, Reassign, capture_previous_credential,
     Rebind, Unassign, DeleteAssignment, Delete, Clear, destroy_material_on_delete, _lock_metadata,
     _publish_custom_metadata, Project, set_metadata, delete_material, Respond, quick_add_ssh,
     _new_ip_address, LockService, _get_or_create_service, Imported, Quiet, graphVars
  <2>6. QED  BY <2>2, <2>3, <2>4, <2>5
<1>4. CASE run' = run  BY <1>1, <1>2, <1>4 DEF RunTyped
<1>5. ASSUME NEW k, NEW a \in Nat \ {0}, NEW r,
             run' = [run EXCEPT ![w] = [known |-> k, at |-> a, reported |-> r]]
      PROVE  RunTyped' /\ \A v \in Worker \ {w} : run'[v] = run[v]
  <2>1. run = [v \in Worker |-> run[v]]  BY <1>2 DEF RunTyped
  <2>2. run' = [v \in Worker |-> IF v = w THEN [known |-> k, at |-> a, reported |-> r] ELSE run[v]]
    BY <1>5, <2>1
  <2>3. run'[w] = [known |-> k, at |-> a, reported |-> r] /\ \A v \in Worker \ {w} : run'[v] = run[v]
    BY <2>2
  <2>4. run' = [v \in Worker |-> run'[v]]  BY <2>2
  <2>5. QED  BY <1>2, <2>3, <2>4 DEF RunTyped
<1>6. QED  BY <1>1, <1>3, <1>4, <1>5

\* What a graph request leaves of OpenBao's state.
LEMMA TypedMount ==
    ASSUME EstateInv, TypesInv, NEW w \in Worker, GraphWork(w)
    PROVE  live' \cup drift' \cup deleted' \subseteq Cred /\ kv' \in [Cred -> SUBSET Target]
<1>0. live \cup drift \cup deleted \subseteq Cred /\ kv \in [Cred -> SUBSET Target]
  BY DEF TypesInv
<1>1. CASE set_metadata(w) \/ delete_material(w)
  <2>1. ConnTyped(w) /\ Stage(w) /\ tx[w].hooks \in Seq(Calls)  BY TypedBase
  <2>2. tx[w].hooks # <<>> /\ Head(tx[w].hooks).call \in {"publish", "destroy"}
    BY <1>1, <2>1 DEF set_metadata, delete_material, NextCall, At, Stage
  <2>3. Subject(w) \in Cred  BY <2>1, <2>2, TailSeq DEF Calls, Subject
  <2>4. set_metadata(w) => tx[w].image \subseteq Target  BY <2>1 DEF set_metadata, At, Stage
  <2>5. kv' = kv \/ (set_metadata(w) /\ kv' = [kv EXCEPT ![Subject(w)] = tx[w].image])
    BY <1>1 DEF set_metadata, delete_material
  <2>6. kv' \in [Cred -> SUBSET Target]  BY <1>0, <2>3, <2>4, <2>5
  <2>7. /\ live' \subseteq live \cup {Subject(w)} /\ drift' \subseteq drift \cup {Subject(w)}
        /\ deleted' = deleted
    BY <1>1 DEF set_metadata, delete_material
  <2>8. QED  BY <1>0, <2>3, <2>6, <2>7
<1>2. CASE ~set_metadata(w) /\ ~delete_material(w)
  <2>1. UNCHANGED <<kv, live, drift, deleted>>
    BY <1>2 DEF GraphWork, Create, Stamp, Assign, _assign, Reassign, capture_previous_credential,
     Rebind, Unassign, DeleteAssignment, Delete, Clear, destroy_material_on_delete, _lock_metadata,
     _publish_custom_metadata, Project, Respond, quick_add_ssh,
     _new_ip_address, LockService, _get_or_create_service, import_secrets, ImportSecret, NextSecret,
     Imported, Quiet, graphVars
  <2>2. QED  BY <1>0, <2>1
<1>3. QED  BY <1>1, <1>2

\* One worker's step, which leaves the requests and the rows.
LEMMA TypesStep ==
    ASSUME TypesInv, NEW w \in Worker, ConnTyped(w)', Others(w), jobs' = jobs, db' = db,
           RunTyped', \A v \in Worker \ {w} : run'[v] = run[v], fresh' = fresh,
           live' \cup drift' \cup deleted' \subseteq Cred, kv' \in [Cred -> SUBSET Target]
    PROVE  TypesInv'
<1>1. \A v \in Worker : ConnTyped(v)'
  <2> SUFFICES ASSUME NEW v \in Worker, v # w PROVE ConnTyped(v)'
    OBVIOUS
  <2>1. tx'[v] = tx[v] /\ run'[v] = run[v] /\ jobs'[v] = jobs[v] /\ DOMAIN db \subseteq DOMAIN db'
    BY DEF Others
  <2>2. ConnTyped(v)  BY DEF TypesInv
  <2>3. QED  BY <2>1, <2>2, TypedFrame
<1>2. JobsTyped' /\ FreshTyped'  BY DEF TypesInv, JobsTyped, FreshTyped
<1>3. RowsTyped(db)' /\ (Drawn \subseteq DOMAIN db)'  BY DEF TypesInv, RowsTyped, RowTyped, Drawn
<1>4. QED  BY <1>1, <1>2, <1>3 DEF TypesInv

\* What the settings rows committed so far may say.
LEMMA SettingsTyped ==
    ASSUME RowsTyped(db), Singleton \in DOMAIN db PROVE \A r \in db[Singleton] : r.prefix \in Prefix
<1>1. RowTyped(Singleton, db[Singleton])  BY DEF RowsTyped
<1>2. Singleton[1] = "settings"  BY DEF Singleton
<1>3. QED  BY <1>1, <1>2 DEF RowTyped

\* A request ends, and the next one of its worker can begin.
LEMMA TypedEnd ==
    ASSUME EstateInv, TypesInv, NEW w \in Worker, jobs[w] # <<>>, EndRequest(w), UNCHANGED graphVars
    PROVE  TypesInv'
<1>1. /\ ShapeInv /\ {Singleton, Material} \subseteq DOMAIN db /\ RowsTyped(db)
  BY TypedBase
<1>2. /\ tx' = Idles(w) /\ db' = db /\ jobs' = [jobs EXCEPT ![w] = Tail(@)]
      /\ fresh' = [fresh EXCEPT ![w] = {db[Singleton]}]
      /\ UNCHANGED <<kv, live, drift, deleted, run>>
  BY DEF EndRequest, Finish, Idles, graphVars
<1>3. Others(w)  BY <1>1, <1>2, IdleFields
<1>4. DOMAIN jobs = Worker /\ DOMAIN fresh = Worker  BY <1>1 DEF ShapeInv
<1>5. jobs'[w] = Tail(jobs[w]) /\ \A v \in Worker \ {w} : jobs'[v] = jobs[v]  BY <1>2, <1>4
<1>6. ASSUME NEW v \in Worker PROVE ConnTyped(v)'
  <2>1. CASE v = w  BY <1>1, <1>2, <2>1, TypedIdle
  <2>2. CASE v # w
    <3>1. tx'[v] = tx[v] /\ jobs'[v] = jobs[v] /\ run'[v] = run[v] /\ DOMAIN db \subseteq DOMAIN db'
      BY <1>2, <1>3, <1>5, <2>2 DEF Others
    <3>2. ConnTyped(v)  BY DEF TypesInv
    <3>3. QED  BY <3>1, <3>2, TypedFrame
  <2>3. QED  BY <2>1, <2>2
<1>7. JobsTyped'
  <2> SUFFICES ASSUME NEW v \in Worker
               PROVE  /\ jobs'[v] \in Seq(Range(jobs'[v]))
                      /\ \A i \in DOMAIN jobs'[v] : Request(jobs'[v][i], db)
    BY <1>2 DEF JobsTyped
  <2>1. jobs[v] \in Seq(Range(jobs[v])) /\ \A i \in DOMAIN jobs[v] : Request(jobs[v][i], db)
    BY DEF TypesInv, JobsTyped
  <2>2. CASE v = w
    <3> DEFINE S == Range(jobs[w])
    <3> HIDE DEF S
    <3>1. jobs[w] \in Seq(S)  BY <2>1, <2>2 DEF S
    <3>2. Tail(jobs[w]) \in Seq(S) /\ \A i \in DOMAIN Tail(jobs[w]) :
             i + 1 \in DOMAIN jobs[w] /\ Tail(jobs[w])[i] = jobs[w][i + 1]
      BY <3>1, TailSeq
    <3>3. Tail(jobs[w]) \in Seq(Range(Tail(jobs[w])))  BY <3>2, SelfSeq
    <3>4. QED  BY <1>5, <2>1, <2>2, <3>2, <3>3
  <2>3. CASE v # w  BY <1>5, <2>1, <2>3
  <2>4. QED  BY <2>2, <2>3
<1>8. FreshTyped'
  <2>1. \A r \in db[Singleton] : r.prefix \in Prefix  BY <1>1, SettingsTyped
  <2>2. \A v \in Worker : fresh'[v] = IF v = w THEN {db[Singleton]} ELSE fresh[v]
    BY <1>2, <1>4
  <2>3. QED  BY <2>1, <2>2 DEF TypesInv, FreshTyped
<1>9. RunTyped' /\ (Drawn \subseteq DOMAIN db)' /\ RowsTyped(db)'
      /\ (live \cup drift \cup deleted \subseteq Cred)' /\ (kv \in [Cred -> SUBSET Target])'
  BY <1>2 DEF TypesInv, RunTyped, RowsTyped, RowTyped, Drawn
<1>10. QED  BY <1>6, <1>7, <1>8, <1>9 DEF TypesInv

\* A commit, with its history.
LEMMA TypedCommitEstate ==
    ASSUME EstateInv, TypesInv, NEW w \in Worker, CommitEstate(w)
    PROVE  TypesInv'
<1>1. /\ ConnTyped(w)' /\ Others(w) /\ jobs' = jobs /\ RowsTyped(db')
      /\ DOMAIN db \subseteq DOMAIN db'
  BY TypedCommit DEF CommitEstate
<1>2. /\ fresh' = [v \in Worker |-> fresh[v] \cup {db'[Singleton]}]
      /\ live' = live \cup {c \in Cred : Appears(Credential(c))}
      /\ deleted' = deleted \cup {c \in Cred : Vanishes(Credential(c))}
      /\ drift' = IF tx'[w].step = "callbacks" THEN drift \cup Missed(w) ELSE drift
      /\ run' = run /\ kv' = kv
  BY DEF CommitEstate
<1>3. ASSUME NEW v \in Worker PROVE ConnTyped(v)'
  <2>1. CASE v # w
    <3>1. tx'[v] = tx[v] /\ jobs'[v] = jobs[v] /\ run'[v] = run[v]
      BY <1>1, <1>2, <2>1 DEF Others
    <3>2. ConnTyped(v)  BY DEF TypesInv
    <3>3. QED  BY <1>1, <3>1, <3>2, TypedFrame
  <2>2. QED  BY <1>1, <2>1
<1>4. JobsTyped'
  <2> SUFFICES ASSUME NEW v \in Worker, NEW i \in DOMAIN jobs[v] PROVE Request(jobs[v][i], db')
    BY <1>1 DEF JobsTyped, TypesInv
  <2>1. Request(jobs[v][i], db)  BY DEF TypesInv, JobsTyped
  <2>2. QED  BY <1>1, <2>1 DEF Request
<1>5. FreshTyped'
  <2>1. Singleton \in DOMAIN db'  BY <1>1, TypedBase
  <2>2. \A r \in db'[Singleton] : r.prefix \in Prefix
    <3>1. RowTyped(Singleton, db'[Singleton])  BY <1>1, <2>1 DEF RowsTyped
    <3>2. Singleton[1] = "settings"  BY DEF Singleton
    <3>3. QED  BY <3>1, <3>2 DEF RowTyped
  <2>3. \A v \in Worker : fresh'[v] = fresh[v] \cup {db'[Singleton]}  BY <1>2
  <2>4. QED  BY <2>2, <2>3 DEF TypesInv, FreshTyped
<1>6. RunTyped' /\ (Drawn \subseteq DOMAIN db)' /\ RowsTyped(db)' /\ (kv \in [Cred -> SUBSET Target])'
  BY <1>1, <1>2 DEF TypesInv, RunTyped, RowsTyped, RowTyped, Drawn
<1>7. (live \cup drift \cup deleted \subseteq Cred)'
  <2>1. live \cup drift \cup deleted \subseteq Cred  BY DEF TypesInv
  <2>2. drift' \subseteq drift \cup Missed(w) /\ Missed(w) \subseteq Cred  BY <1>2 DEF Missed
  <2>3. QED  BY <1>2, <2>1, <2>2
<1>8. QED  BY <1>3, <1>4, <1>5, <1>6, <1>7 DEF TypesInv

\* Nothing a worker had still to call is beyond the credentials.
LEMMA LostTyped ==
    ASSUME TypesInv, NEW w \in Worker PROVE Lost(w) \subseteq Cred
<1>1. tx[w].hooks \in Seq(Calls)  BY DEF TypesInv, ConnTyped
<1>2. \A g \in Range(tx[w].hooks) : g \in Calls  BY <1>1 DEF Range
<1>3. \A g \in Calls : g.call # "invalidate" => g.cred \in Cred  BY DEF Calls
<1>4. Lost(w) \subseteq {h.cred : h \in {g \in Range(tx[w].hooks) : g.call # "invalidate"}}
  BY DEF Lost
<1>5. QED  BY <1>2, <1>3, <1>4

\* Nothing of the connections, the requests and the rows.
LEMMA TypesStutter ==
    ASSUME TypesInv, UNCHANGED <<jobs, db, tx, run, fresh, live, drift, deleted, kv>>
    PROVE  TypesInv'
<1>1. \A v \in Worker : ConnTyped(v)'
  <2> SUFFICES ASSUME NEW v \in Worker PROVE ConnTyped(v)'
    OBVIOUS
  <2>1. ConnTyped(v)  BY DEF TypesInv
  <2>2. QED  BY <2>1, TypedFrame
<1>2. JobsTyped' /\ FreshTyped' /\ RunTyped'  BY DEF TypesInv, JobsTyped, FreshTyped, RunTyped
<1>3. RowsTyped(db)' /\ (Drawn \subseteq DOMAIN db)'  BY DEF TypesInv, RowsTyped, RowTyped, Drawn
<1>4. QED  BY <1>1, <1>2, <1>3 DEF TypesInv

\* TypesInv is inductive.
LEMMA NextTypes ==
    ASSUME EstateInv, IdentityInv, TypesInv, [Next]_vars PROVE TypesInv'
<1>0. /\ live \cup drift \cup deleted \subseteq Cred /\ kv \in [Cred -> SUBSET Target]
      /\ RunTyped /\ ShapeInv
  BY DEF TypesInv, EstateInv
<1>1. ASSUME NEW w \in Worker, ConnTyped(w)', Others(w), UNCHANGED <<jobs, db, fresh, run, kv>>,
             UNCHANGED <<live, deleted>>, drift' \subseteq Cred
      PROVE  TypesInv'
  <2>1. RunTyped' /\ \A v \in Worker \ {w} : run'[v] = run[v]  BY <1>0, <1>1 DEF RunTyped
  <2>2. live' \cup drift' \cup deleted' \subseteq Cred /\ kv' \in [Cred -> SUBSET Target]
    BY <1>0, <1>1
  <2>3. QED  BY <1>1, <2>1, <2>2, TypesStep
<1>2. ASSUME NEW w \in Worker, Serves(w) PROVE TypesInv'
  <2>1. CASE SettingsWork(w) /\ UNCHANGED <<graphVars, identityVars>>
    <3>1. UNCHANGED <<jobs, db, fresh>>
      BY <2>1 DEF SettingsWork, Configure, Unset, _save_locked, delete_settings,
         _lock_for_prefix_write, settingsVars
    <3>2. UNCHANGED <<run, kv, live, deleted, drift>>  BY <2>1 DEF graphVars
    <3>3. ConnTyped(w)' /\ Others(w)  BY <1>0, <2>1, <3>2, TypedSettings, SettingsOthers
    <3>4. QED  BY <1>0, <1>1, <3>1, <3>2, <3>3
  <2>2. CASE GraphWork(w)
    <3>1. ConnTyped(w)' /\ Others(w) /\ jobs' = jobs /\ db' = db
      BY <1>0, <2>2, TypedGraph, GraphOthers, GraphReads
    <3>2. QED  BY <2>2, <3>1, TypedProgress, TypedMount, TypesStep
  <2>3. CASE IdentityWork(w) /\ UNCHANGED <<settingsVars, graphVars>>
    <3>1. UNCHANGED <<run, kv, live, deleted, drift, fresh>>  BY <2>3 DEF graphVars, settingsVars
    <3>2. ConnTyped(w)' /\ Others(w) /\ UNCHANGED <<jobs, db>>  BY <2>3, TypedIdentity
    <3>3. QED  BY <1>0, <1>1, <3>1, <3>2
  <2>4. CASE EndRequest(w) /\ UNCHANGED <<graphVars, identityVars>>
    BY <1>2, <2>4, TypedEnd DEF Serves
  <2>5. CASE CommitEstate(w)  BY <2>5, TypedCommitEstate
  <2>6. CASE PostgreSQL(w)
    <3>1. UNCHANGED <<run, kv, live, deleted, drift, fresh>>
      BY <2>6 DEF PostgreSQL, graphVars, settingsVars
    <3>2. CASE Grant(w)
      <4>1. PICK locked : tx' = Grants(w, locked)  BY <3>2, Zenon DEF Grant, Grants
      <4>2. Others(w) /\ UNCHANGED <<jobs, db>>  BY <1>0, <3>2, <4>1, GrantFields DEF Grant
      <4>3. ConnTyped(w)'  BY <3>1, <3>2, TypedGrant
      <4>4. QED  BY <1>0, <1>1, <3>1, <4>2, <4>3
    <3>3. CASE Victim(w)
      <4>1. ConnTyped(w)' /\ Others(w) /\ UNCHANGED <<jobs, db>>  BY <3>3, TypedFails
      <4>2. QED  BY <1>0, <1>1, <3>1, <4>1
    <3>4. QED  BY <2>6, <3>2, <3>3 DEF PostgreSQL
  <2>7. QED  BY <1>2, <2>1, <2>2, <2>3, <2>4, <2>5, <2>6 DEF Serves, Work
<1>3. ASSUME NEW w \in Worker, Fails(w) PROVE TypesInv'
  <2>1. UNCHANGED <<run, kv, live, deleted, fresh>> /\ drift' \subseteq drift \cup Lost(w)
    BY <1>3 DEF Fails, graphVars, settingsVars
  <2>2. ConnTyped(w)' /\ Others(w) /\ UNCHANGED <<jobs, db>>  BY <1>3, TypedFails DEF Fails
  <2>3. drift' \subseteq Cred  BY <1>0, <2>1, LostTyped
  <2>4. QED  BY <1>1, <2>1, <2>2, <2>3
<1>4. ASSUME NEW w \in Worker, Consult(w), UNCHANGED <<graphVars, identityVars>> PROVE TypesInv'
  BY <1>4, TypesStutter DEF Consult, graphVars
<1>5. CASE Expire /\ UNCHANGED <<settingsVars, graphVars>>
  BY <1>5, TypesStutter DEF Expire, settingsVars, graphVars
<1>6. CASE UNCHANGED vars  BY <1>6, TypesStutter DEF vars, settingsVars, graphVars
<1>7. QED  BY <1>2, <1>3, <1>4, <1>5, <1>6 DEF Next

--------------------------------------------------------------------------------
(***************************************************************************)
(* The type invariant.                                                     *)
(***************************************************************************)

\* The rows and the requests a workload starts with are typed.
LEMMA InitTypes ==
    ASSUME Init PROVE TypesInv
<1>1. PICK load \in Workloads : db = load.rows /\ jobs = load.jobs  BY DEF Init, DatabaseInit
<1>2. Drawn \subseteq DOMAIN db /\ RowsTyped(db)  BY <1>1, KeyAssumption
<1>3. JobsTyped
  <2> SUFFICES ASSUME NEW w \in Worker
               PROVE  /\ jobs[w] \in Seq(Range(jobs[w]))
                      /\ \A i \in DOMAIN jobs[w] : Request(jobs[w][i], db)
    BY DEF JobsTyped
  <2>1. QED  BY <1>1, KeyAssumption
<1>4. tx = [w \in Worker |-> Idle] /\ fresh = [w \in Worker |-> {db[Singleton]}]
      /\ run = [w \in Worker |-> [known |-> {}, at |-> 1, reported |-> {}]]
      /\ kv = [c \in Cred |-> Bound(c)] /\ live = {c \in Cred : db[Credential(c)] # {}}
      /\ drift = {} /\ deleted = {}
  BY DEF Init, DatabaseInit, SettingsInit, GraphInit
<1>5. RunTyped  BY <1>4 DEF RunTyped
<1>6. FreshTyped
  <2>1. Singleton \in DOMAIN db  BY <1>1, EstateAssumption DEF Sound
  <2>2. \A r \in db[Singleton] : r.prefix \in Prefix  BY <1>2, <2>1, SettingsTyped
  <2>3. \A w \in Worker : fresh[w] = {db[Singleton]}  BY <1>4
  <2>4. QED  BY <2>2, <2>3 DEF FreshTyped
<1>7. ASSUME NEW w \in Worker PROVE ConnTyped(w)
  <2>1. tx[w] = Idle  BY <1>4
  <2>2. /\ tx[w].step = "idle" /\ tx[w].open = FALSE /\ tx[w].own = NoRows /\ tx[w].hooks = <<>>
        /\ tx[w].loaded = NoRows
    BY <2>1 DEF Idle
  <2>3. DOMAIN NoRows = {} /\ RowsTyped(NoRows)  BY NoRowsTyped DEF NoRows
  <2>4. <<>> \in Seq(Calls) /\ Len(<<>>) = 0  OBVIOUS
  <2>5. "idle" \in Closed  BY DEF Closed
  <2>6. Stage(w)  BY <2>2 DEF Stage
  <2>7. ~tx[w].open /\ tx[w].open \in BOOLEAN  BY <2>2
  <2>8. /\ RowsTyped(tx[w].own) /\ DOMAIN tx[w].own = {} /\ RowsTyped(tx[w].loaded)
        /\ tx[w].hooks \in Seq(Calls) /\ Len(tx[w].hooks) = 0 /\ tx[w].step \in Closed
    BY <2>2, <2>3, <2>4, <2>5
  <2>9. tx[w].step # "drop"  BY <2>2
  <2>10. QED  BY <2>2, <2>6, <2>7, <2>8, <2>9 DEF ConnTyped
<1>8. ASSUME NEW c \in Cred PROVE Bound(c) \subseteq Target
  <2> DEFINE rows == {a \in DOMAIN db : a[1] = "assignment" /\ \E r \in db[a] : r.cred = c}
  <2>1. ASSUME NEW row \in rows PROVE The(db[row]).target \in Target
    <3>1. row[1] = "assignment" /\ db[row] # {} /\ row \in DOMAIN db  OBVIOUS
    <3>2. The(db[row]) \in db[row]  BY <3>1, TheIn
    <3>3. RowTyped(row, db[row])  BY <1>2, <3>1 DEF RowsTyped
    <3>4. QED  BY <3>1, <3>2, <3>3 DEF RowTyped
  <2>2. Bound(c) = {The(db[row]).target : row \in rows}  BY Zenon DEF Bound
  <2> HIDE DEF rows
  <2>3. QED  BY <2>1, <2>2
<1>9. kv \in [Cred -> SUBSET Target] /\ live \cup drift \cup deleted \subseteq Cred
  BY <1>4, <1>8
<1>10. QED  BY <1>2, <1>3, <1>5, <1>6, <1>7, <1>9 DEF TypesInv

\* Requests, rows, connections and what they go on with are typed in every state.
THEOREM TypesCorrect == Spec => []TypesInv
<1>1. Init => TypesInv  BY InitTypes
<1>2. Init => IdentityInv  BY InitIdentity
<1>3. EstateInv /\ EstateInv' /\ IdentityInv /\ [Next]_vars => IdentityInv'  BY NextIdentity
<1>4. EstateInv /\ IdentityInv /\ TypesInv /\ [Next]_vars => TypesInv'  BY NextTypes
<1>5. QED  BY <1>1, <1>2, <1>3, <1>4, EstateCorrect, PTL DEF Spec

\* What a stored row says of its record.
LEMMA StoredRecord ==
    ASSUME RowsTyped(db), NEW row \in DOMAIN db, db[row] # {}
    PROVE  The(db[row]) \in db[row] /\ RowTyped(row, db[row]) /\ db[row] = {The(db[row])}
<1>1. The(db[row]) \in db[row]  BY TheIn
<1>2. RowTyped(row, db[row])  BY DEF RowsTyped
<1>3. QED  BY <1>1, <1>2 DEF RowTyped

\* TypeOK, for every number of workers and every workload.
THEOREM TypesKept == Spec => []TypeOK
<1>1. ASSUME EstateInv, TypesInv PROVE TypeOK
  <2>1. RowsTyped(db)  BY <1>1 DEF TypesInv
  <2>2. ASSUME NEW row \in DOMAIN db PROVE Cardinality(db[row]) <= 1
    <3>1. CASE db[row] = {}  BY <3>1, FS_EmptySet
    <3>2. CASE db[row] # {}
      <4>1. db[row] = {The(db[row])}  BY <2>1, <3>2, StoredRecord
      <4>2. Cardinality({The(db[row])}) = 1  BY FS_Singleton
      <4>3. QED  BY <4>1, <4>2
    <3>3. QED  BY <3>1, <3>2
  <2>3. ASSUME NEW w \in Worker
        PROVE  /\ tx[w].open \in BOOLEAN /\ Len(tx[w].hooks) <= 3
               /\ tx[w].step \in {"idle", "dead", "finish", "failed"} => ~tx[w].open
               /\ tx[w].own # NoRows => tx[w].open
               /\ \A v \in Worker \ {w} : tx[w].held \cap tx[v].held = {}
    <3>1. /\ tx[w].open \in BOOLEAN /\ Len(tx[w].hooks) <= 3
          /\ (tx[w].open <=> tx[w].step \notin Closed)
          /\ DOMAIN tx[w].own # {} => tx[w].open
          /\ tx[w].own = [row \in DOMAIN tx[w].own |-> tx[w].own[row]]
      BY <1>1 DEF TypesInv, ConnTyped, RowsTyped
    <3>2. DOMAIN tx[w].own = {} => tx[w].own = NoRows  BY <3>1 DEF NoRows
    <3>3. \A v \in Worker \ {w} : tx[w].held \cap tx[v].held = {}  BY <1>1 DEF EstateInv, LockInv
    <3>4. {"idle", "dead", "finish", "failed"} \subseteq Closed  BY DEF Closed
    <3>5. QED  BY <3>1, <3>2, <3>3, <3>4
  <2>4. ASSUME NEW row \in Stored("credential") PROVE The(db[row]).prefix \in Prefix
    <3>1. row \in DOMAIN db /\ db[row] # {} /\ row[1] = "credential"  BY DEF Stored
    <3>2. QED  BY <2>1, <3>1, StoredRecord DEF RowTyped
  <2>5. ASSUME NEW row \in Stored("assignment")
        PROVE  The(db[row]).cred \in Cred /\ The(db[row]).target \in Target
    <3>1. row \in DOMAIN db /\ db[row] # {} /\ row[1] = "assignment"  BY DEF Stored
    <3>2. QED  BY <2>1, <3>1, StoredRecord DEF RowTyped
  <2>6. QED  BY <1>1, <2>2, <2>3, <2>4, <2>5 DEF TypeOK, TypesInv
<1>2. QED  BY <1>1, EstateCorrect, TypesCorrect, PTL

================================================================================
