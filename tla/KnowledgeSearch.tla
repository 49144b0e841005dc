---------------------------- MODULE KnowledgeSearch ----------------------------
(***************************************************************************)
(* Searching what was indexed: the pool of open stores, which keeps the    *)
(* last few by the order they were opened in and lets go of the oldest     *)
(* whoever uses it, the embedder each call resolves for itself, and the    *)
(* vectors of one embedder compared with a query of another.  The rows of  *)
(* a store are those of one workspace, which every query asks for; a store *)
(* without a path is in memory, and new each time it is opened.            *)
(***************************************************************************)
EXTENDS Naturals, Sequences, FiniteSets

CONSTANTS Ingests, Searches,  \* calls
          Docs,
          Models,    \* embedding models, of those below
          Known,     \* store files whose table has the workspace
          PoolSize,  \* stores the pool keeps: 4
          MaxOpens   \* connections that are opened (a bound)

ASSUME PoolSizeAssumption == PoolSize \in Nat \ {0} /\ MaxOpens \in Nat
ASSUME KnownAssumption == Known \subseteq {"a.db", "b.db"}
ASSUME KnownModels == Models \subseteq {"bge-m3", "kure-v1", "multilingual-e5-small"}

VARIABLES active,     \* the embedding model in use
          downloaded, \* models whose files are there
          onFile,     \* store path -> rows; a row is a document and who embedded it
          opened,     \* connection -> the path it was opened for
          pool,       \* store path -> connection, for the stores that are open
          order,      \* their paths, oldest first
          opens,      \* connections opened so far
          call,       \* caller -> what it does and knows
          hits        \* caller -> the rows its search returned

searchVars == <<active, downloaded, onFile, opened, pool, order, opens, call, hits>>

Callers == Ingests \cup Searches
Files == {"a.db", "b.db"}
Paths == Files \cup {""}

-----------------------------------------------------------------------------
\* OnnxModelKind: two of the models have vectors of the same length.
Dim(m) == CASE m \in {"bge-m3", "kure-v1"} -> 1024 [] OTHER -> 384

\* default_embedder: the model, if its files are there and load, or a stand-in
\* of the model's dimension; without a model a stand-in of 384.
Embedder(m, real) == [model |-> m, real |-> real, dim |-> Dim(m)]
Embedders ==
  IF active = "none" THEN {Embedder("none", FALSE)}
  ELSE {Embedder(active, FALSE)}
       \cup (IF active \in downloaded THEN {Embedder(active, TRUE)} ELSE {})

Rows == [doc : Docs, by : [model : Models \cup {"none"}, real : BOOLEAN, dim : {384, 1024}]]

\* What a caller sees through its connection.
PathOf(c) == opened[call[c].conn]
Seen(c) == IF PathOf(c) \in Files THEN onFile[PathOf(c)] ELSE {}

\* cosine_normalized: 0 for a vector of another length; any other score is above.
Scores(q, rows) ==
  {s \in [rows -> 0..2] : \A r \in rows : s[r] = 0 <=> r.by.dim # q.dim}

\* The heap keeps the k best of all rows of the workspace.
Best(rows, k, s) ==
  {h \in SUBSET rows :
     /\ Cardinality(h) = IF Cardinality(rows) < k THEN Cardinality(rows) ELSE k
     /\ \A r \in h, o \in rows \ h : s[r] >= s[o]}

-----------------------------------------------------------------------------
Idle == [op |-> "none", path |-> "", conn |-> 0, pc |-> "idle", by |-> Embedder("none", FALSE),
         doc |-> CHOOSE d \in Docs : TRUE, k |-> 0, had |-> {}]

\* The call returns, with what it found or an error.
Done(c) == /\ call' = [call EXCEPT ![c] = [Idle EXCEPT !.pc = "done"]]
           /\ hits' = [hits EXCEPT ![c] = {}]

SearchInit ==
  /\ active = "none" /\ downloaded = {}
  /\ onFile = [p \in Files |-> {}]
  /\ opened = [n \in 1..MaxOpens |-> ""]
  /\ pool = [p \in Paths |-> 0] /\ order = <<>> /\ opens = 0
  /\ call = [c \in Callers |-> Idle] /\ hits = [c \in Callers |-> {}]

\* set_active_embedding_model: only a model that is there.
Activate(m) ==
  /\ m \in downloaded /\ m # active
  /\ active' = m
  /\ UNCHANGED <<downloaded, onFile, opened, pool, order, opens, call, hits>>

\* A download that ends.
Downloaded(m) ==
  /\ m \notin downloaded
  /\ downloaded' = downloaded \cup {m}
  /\ UNCHANGED <<active, onFile, opened, pool, order, opens, call, hits>>

\* validate_store_path comes before anything else: a path outside of the data
\* directory is refused.  An empty query or k = 0 finds nothing at once.
Refused(c) ==
  /\ call[c].pc = "idle"
  /\ Done(c)
  /\ UNCHANGED <<active, downloaded, onFile, opened, pool, order, opens>>

Call(c, op, p, d, k) ==
  /\ call[c].pc = "idle"
  /\ \E e \in Embedders :
       call' = [call EXCEPT ![c] = [Idle EXCEPT !.op = op, !.path = p, !.pc = "open",
                                               !.by = e, !.doc = d, !.k = k]]
  /\ UNCHANGED <<active, downloaded, onFile, opened, pool, order, opens, hits>>

\* (fault) the store that is opened also takes the place of the one let go of
ReuseOldest(p) ==
  LET full == Len(order) >= PoolSize
  IN IF pool[p] # 0 THEN [pool |-> pool, order |-> order, conn |-> pool[p], opens |-> opens]
     ELSE [pool |-> [q \in Paths |-> IF q = p THEN opens + 1
                                     ELSE IF full /\ q = order[1] THEN opens + 1 ELSE pool[q]],
           order |-> Append(order, p), conn |-> opens + 1, opens |-> opens + 1]

\* get_or_open: the oldest goes before the new one is opened, and if it cannot be
\* opened the oldest is gone all the same.
GetOrOpen(p) ==
  LET full == Len(order) >= PoolSize
  IN IF pool[p] # 0 THEN [pool |-> pool, order |-> order, conn |-> pool[p], opens |-> opens]
     ELSE [pool |-> [q \in Paths |-> IF q = p THEN opens + 1
                                     ELSE IF full /\ q = order[1] THEN 0 ELSE pool[q]],
           order |-> Append(IF full THEN Tail(order) ELSE order, p),
           conn |-> opens + 1, opens |-> opens + 1]

Open(c) ==
  LET g == GetOrOpen(call[c].path)
  IN /\ call[c].pc = "open" /\ g.opens <= MaxOpens
     /\ pool' = g.pool /\ order' = g.order /\ opens' = g.opens
     /\ opened' = IF g.opens = opens THEN opened ELSE [opened EXCEPT ![g.opens] = call[c].path]
     /\ call' = [call EXCEPT ![c].conn = g.conn, ![c].pc = "opened"]
     /\ UNCHANGED <<active, downloaded, onFile, hits>>

OpenFails(c) ==
  /\ call[c].pc = "open" /\ pool[call[c].path] = 0
  /\ IF Len(order) >= PoolSize
     THEN pool' = [pool EXCEPT ![order[1]] = 0] /\ order' = Tail(order)
     ELSE UNCHANGED <<pool, order>>
  /\ Done(c)
  /\ UNCHANGED <<active, downloaded, onFile, opened, opens>>

\* has_workspace: a workspace without a row in the table of its store is unknown to
\* all three calls.
HasWorkspace(c) == call[c].pc = "opened" /\ PathOf(c) \in Known

Unknown(c) ==
  /\ call[c].pc = "opened" /\ PathOf(c) \notin Known
  /\ Done(c)
  /\ UNCHANGED <<active, downloaded, onFile, opened, pool, order, opens>>

\* An ingest writes a document with its chunks, or keeps the row it finds: what
\* was embedded by another model stays as it was.
Write(c) ==
  LET new == {[doc |-> call[c].doc, by |-> call[c].by]}
      after == IF \E r \in Seen(c) : r.doc = call[c].doc THEN Seen(c) ELSE Seen(c) \cup new
  IN /\ call[c].op = "ingest" /\ HasWorkspace(c)
     /\ onFile' = [onFile EXCEPT ![PathOf(c)] = after]
     /\ Done(c)
     /\ UNCHANGED <<active, downloaded, opened, pool, order, opens>>

Stats(c) ==
  /\ call[c].op = "stats" /\ HasWorkspace(c)
  /\ Done(c)
  /\ UNCHANGED <<active, downloaded, onFile, opened, pool, order, opens>>

\* The query is embedded without the store locked.
EmbedQuery(c) ==
  /\ call[c].op = "search" /\ HasWorkspace(c)
  /\ call' = [call EXCEPT ![c].pc = "embedded", ![c].had = Seen(c)]
  /\ UNCHANGED <<active, downloaded, onFile, opened, pool, order, opens, hits>>

\* The embedder fails, or the database does: another connection may keep it busy for
\* longer than the 5 s it waits.
CallFails(c) ==
  /\ call[c].pc \in {"opened", "embedded"}
  /\ Done(c)
  /\ UNCHANGED <<active, downloaded, onFile, opened, pool, order, opens>>

Search(c) ==
  /\ call[c].pc = "embedded"
  /\ \E s \in Scores(call[c].by, Seen(c)) : \E h \in Best(Seen(c), call[c].k, s) :
       hits' = [hits EXCEPT ![c] = h]
  /\ call' = [call EXCEPT ![c].pc = "found"]
  /\ UNCHANGED <<active, downloaded, onFile, opened, pool, order, opens>>

\* The paths of the documents are looked up; the call returns.
Return(c) ==
  /\ call[c].pc = "found"
  /\ Done(c)
  /\ UNCHANGED <<active, downloaded, onFile, opened, pool, order, opens>>

SearchNext ==
  \/ \E m \in Models : Activate(m) \/ Downloaded(m)
  \/ \E c \in Callers :
       \/ c \in Ingests /\ \E p \in Paths, d \in Docs : Call(c, "ingest", p, d, 0)
       \/ c \in Searches /\ \E p \in Paths, k \in 1..2 : Call(c, "search", p, Idle.doc, k)
       \/ c \in Searches /\ \E p \in Paths : Call(c, "stats", p, Idle.doc, 0)
       \/ Refused(c) \/ Open(c) \/ OpenFails(c) \/ Write(c) \/ Unknown(c) \/ Stats(c)
       \/ EmbedQuery(c) \/ CallFails(c) \/ Search(c) \/ Return(c)

-----------------------------------------------------------------------------
\* A search of a file returns rows of that file, up to k of them, whichever
\* stores the pool has let go of and whoever opened the file again meanwhile: no
\* fewer than were there when it looked for the workspace.  As long as there is
\* a row its query can be compared with, it returns none that cannot be.
SearchIsRight ==
  \A c \in Callers :
    call[c].op = "search" /\ call[c].pc = "found" /\ call[c].path \in Files =>
      /\ hits[c] \subseteq onFile[call[c].path]
      /\ Cardinality(hits[c]) <= call[c].k
      /\ Cardinality(hits[c]) < call[c].k => call[c].had \subseteq hits[c]
      /\ (\E r \in hits[c] : r.by.dim # call[c].by.dim) =>
           \A r \in call[c].had : r.by.dim = call[c].by.dim => r \in hits[c]
=============================================================================
