----------------------- MODULE KnowledgeIngestProofs -----------------------
(***************************************************************************)
(* What holds of an ingest for every set of workspaces and ingests, every  *)
(* folder and any number of crashes: its types, that its entry is exact,   *)
(* that Done means indexed, and that cancel_ingest is heeded.              *)
(***************************************************************************)
EXTENDS KnowledgeIngest, SequenceTheorems, TLAPS

\* A file is in hand at these steps.
InHand == {"chunk", "embed", "write", "document", "chunks"}
Returned == {"drain", "finish", "ended"}

Types ==
  /\ active \in Workspace
  /\ registry \in [Workspace -> SUBSET Ingest]
  /\ scope \in [Workspace -> SUBSET Ingest]
  /\ tokens \in SUBSET Ingest
  /\ flags \in SUBSET tokens
  /\ pc \in [Ingest -> Under \cup {"new", "ended"}]
  /\ of \in [Ingest -> Workspace]
  /\ next \in [Ingest -> Nat] /\ \A i \in Ingest : next[i] \in 1..Len(Folder[i]) + 1
  /\ \A i \in Ingest : pc[i] \in InHand => next[i] <= Len(Folder[i])
  /\ outcome \in [Ingest -> Outcome \cup {"none"}]
  /\ window \in {"open", "gone"}
  /\ documents \in [Workspace -> SUBSET Content]
  /\ chunks \in [Workspace -> SUBSET Content]
  /\ stopped \in [Ingest -> {"no", "cancelled", "switched"}]
  /\ late \in [Ingest -> Nat]

\* What Emit(i) leaves of the two signals.
LEMMA EmitTypes ==
  ASSUME NEW i \in Ingest, Types, Emit(i)
  PROVE  tokens' \in SUBSET Ingest /\ flags' \in SUBSET tokens' /\ flags \subseteq flags'
<1>1. CASE window = "gone" BY <1>1 DEF Emit, Types
<1>2. CASE window = "open" BY <1>2 DEF Emit, Types
<1>3. QED BY <1>1, <1>2 DEF Types

\* The types hold in every reachable state.
LEMMA TypesCorrect == Spec => []Types
<1>1. Init => Types
  BY IngestAssumption DEF Init, Types, Under, InHand, Outcome
<1>2. Types /\ [Next]_vars => Types'
  <2> SUFFICES ASSUME Types, [Next]_vars PROVE Types'
    OBVIOUS
  <2> USE IngestAssumption DEF Types, Under, InHand, Outcome, Goto, signals, progress,
                               tables, history
  <2>1. ASSUME NEW i \in Ingest, Step(i) PROVE Types'
    <3>1. CASE Spawn(i) BY <3>1, EmitTypes DEF Spawn
    <3>2. CASE OpenFails(i) BY <3>2, EmitTypes DEF OpenFails
    <3>3. CASE Open(i)
      <4>1. CASE of[i] \in Known /\ Goto(i, "file") /\ UNCHANGED outcome
        BY <3>3, <4>1 DEF Open
      <4>2. CASE Return(i, "failed")
        BY <3>3, <4>2 DEF Open, Return
      <4>3. QED BY <3>3, <4>1, <4>2 DEF Open
    <3>4. CASE File(i)
      <4>1. CASE next[i] > Len(Folder[i]) BY <3>4, <4>1 DEF File, Return
      <4>2. CASE next[i] <= Len(Folder[i]) /\ i \in flags BY <3>4, <4>2 DEF File, Return
      <4>3. CASE next[i] <= Len(Folder[i]) /\ i \notin flags
        <5>1. CASE Folder[i][next[i]] \in Unreadable BY <3>4, <4>3, <5>1 DEF File, Return
        <5>2. CASE Folder[i][next[i]] \notin Unreadable /\ Folder[i][next[i]] \in Blank
          <6>1. /\ next' = [next EXCEPT ![i] = @ + 1]
                /\ UNCHANGED <<active, registry, scope, tokens, flags, pc, outcome, of,
                               documents, chunks, stopped, late, window>>
            BY <3>4, <4>3, <5>2 DEF File
          <6>2. pc[i] = "file" /\ Len(Folder[i]) \in Nat
            BY <3>4 DEF File
          <6>3. QED BY <6>1, <6>2, <4>3
        <5>3. CASE Folder[i][next[i]] \notin Unreadable /\ Folder[i][next[i]] \notin Blank
          <6>1. /\ pc' = [pc EXCEPT ![i] = "chunk"]
                /\ UNCHANGED <<active, registry, scope, tokens, flags, next, outcome, of,
                               documents, chunks, stopped, late, window>>
            BY <3>4, <4>3, <5>3 DEF File
          <6>2. QED BY <6>1, <4>3
        <5>4. QED BY <5>1, <5>2, <5>3
      <4>4. QED BY <4>1, <4>2, <4>3
    <3>5. CASE Chunking(i) BY <3>5 DEF Chunking, Stage, Return
    <3>6. CASE Embedding(i) BY <3>6 DEF Embedding, Stage, Return
    <3>7. CASE Writing(i) BY <3>7 DEF Writing, Stage, Return
    <3>8. CASE ServiceFails(i) BY <3>8 DEF ServiceFails, Return
    <3>9. CASE AddDocument(i)
      <4>1. Folder[i][next[i]] \in Content
        BY <3>9, ElementOfSeq DEF AddDocument
      <4>2. documents' \in [Workspace -> SUBSET Content]
        BY <3>9, <4>1 DEF AddDocument
      <4>3. late' \in [Ingest -> Nat]
        BY <3>9 DEF AddDocument
      <4>4. QED BY <3>9, <4>2, <4>3 DEF AddDocument
    <3>10. CASE AddChunks(i)
      <4>1. Folder[i][next[i]] \in Content
        BY <3>10, ElementOfSeq DEF AddChunks
      <4>2. chunks' \in [Workspace -> SUBSET Content]
        BY <3>10, <4>1 DEF AddChunks
      <4>3. QED BY <3>10, <4>2 DEF AddChunks
    <3>11. CASE Tell(i) BY <3>11, EmitTypes DEF Tell
    <3>12. CASE Finish(i) BY <3>12 DEF Finish
    <3>13. QED BY <2>1, <3>1, <3>2, <3>3, <3>4, <3>5, <3>6, <3>7, <3>8, <3>9, <3>10, <3>11,
                 <3>12 DEF Step
  <2>2. ASSUME NEW i \in Ingest, Forward(i) PROVE Types'
    BY <2>2, EmitTypes DEF Forward
  <2>3. CASE CloseWindow
    <3>1. PICK reached \in {{}, UNION {registry[w] : w \in Workspace}} :
            /\ tokens' = tokens \cup reached \cup UNION {scope[w] : w \in Workspace}
            /\ flags' = flags \cup reached
      BY <2>3 DEF CloseWindow
    <3>2. tokens' \in SUBSET Ingest /\ flags' \in SUBSET tokens'
      BY <3>1
    <3>3. QED BY <2>3, <3>2 DEF CloseWindow
  <2>4. ASSUME NEW i \in Ingest, NEW w \in Workspace, Start(i, w) PROVE Types'
    BY <2>4 DEF Start
  <2>5. ASSUME NEW w \in Workspace, Cancel(w) PROVE Types'
    BY <2>5 DEF Cancel, Stop, UnderWay
  <2>6. ASSUME NEW w \in Workspace, SwitchWorkspace(w) PROVE Types'
    BY <2>6 DEF SwitchWorkspace, UnderWay
  <2>7. ASSUME NEW w \in Workspace, SwitchUnsaved(w) PROVE Types'
    BY <2>7 DEF SwitchUnsaved
  <2>8. CASE Crash BY <2>8 DEF Crash
  <2>9. CASE UNCHANGED vars BY <2>9 DEF vars
  <2>10. QED BY <2>1, <2>2, <2>3, <2>4, <2>5, <2>6, <2>7, <2>8, <2>9 DEF Next
<1>3. QED BY <1>1, <1>2, PTL DEF Spec

\* Progress is sent between the opening of the store and the last event.
Bridged ==
  /\ unsent \in SUBSET Ingest
  /\ \A i \in unsent : pc[i] \in {"file", "chunk", "embed", "write", "document", "chunks", "drain"}
  /\ crashes \in 0..MaxCrashes

\* The type invariant of the module, with what it says of the bridge.
THEOREM TypeCorrect == Spec => []TypeOK
<1>1. Init => Bridged
  BY IngestAssumption DEF Init, Bridged
<1>2. Types /\ Bridged /\ [Next]_vars
        => Bridged'
  <2> SUFFICES ASSUME Types, Bridged, [Next]_vars
               PROVE  Bridged'
    OBVIOUS
  <2> USE DEF Types, Bridged, Under, Goto, signals, progress, tables, history
  <2>1. ASSUME NEW i \in Ingest, Step(i) PROVE Bridged'
    <3>1. CASE Spawn(i) \/ OpenFails(i) \/ Open(i)
      BY <3>1 DEF Spawn, OpenFails, Open, Return
    <3>2. CASE File(i)
      BY <3>2 DEF File, Return
    <3>3. CASE Chunking(i) \/ Embedding(i) \/ Writing(i) \/ ServiceFails(i)
      BY <3>3 DEF Chunking, Embedding, Writing, Stage, ServiceFails, Return
    <3>4. CASE AddDocument(i) \/ AddChunks(i)
      BY <3>4 DEF AddDocument, AddChunks
    <3>5. CASE Tell(i)
      BY <3>5 DEF Tell
    <3>6. CASE Finish(i)
      BY <3>6 DEF Finish
    <3>7. QED BY <2>1, <3>1, <3>2, <3>3, <3>4, <3>5, <3>6 DEF Step
  <2>2. ASSUME NEW i \in Ingest, Forward(i) PROVE Bridged'
    BY <2>2 DEF Forward
  <2>8. CASE CloseWindow BY <2>8 DEF CloseWindow
  <2>3. ASSUME NEW i \in Ingest, NEW w \in Workspace, Start(i, w)
        PROVE  Bridged'
    BY <2>3 DEF Start
  <2>4. ASSUME NEW w \in Workspace, Cancel(w) \/ SwitchWorkspace(w) \/ SwitchUnsaved(w)
        PROVE  Bridged'
    BY <2>4 DEF Cancel, SwitchWorkspace, SwitchUnsaved
  <2>5. CASE Crash BY <2>5, IngestAssumption DEF Crash
  <2>6. CASE UNCHANGED vars BY <2>6 DEF vars
  <2>7. QED BY <2>1, <2>2, <2>3, <2>4, <2>5, <2>6, <2>8 DEF Next
<1>3. Types /\ Bridged => TypeOK
  <2> SUFFICES ASSUME Types, Bridged PROVE TypeOK
    OBVIOUS
  <2>1. unsent \in SUBSET UnderWay
    BY DEF Bridged, UnderWay, Under
  <2>2. QED BY <2>1 DEF Types, TypeOK, Bridged
<1>4. QED BY <1>1, <1>2, <1>3, TypesCorrect, PTL DEF Spec

-----------------------------------------------------------------------------
\* The entry of a workspace is its ingest, and one ingest at most is under way.
\* It is inductive: an ingest begins only where the entry is empty.
THEOREM EntryIsExact == Spec => []RegistryIsExact
<1>1. Init => RegistryIsExact
  BY DEF Init, RegistryIsExact, UnderWay, Under
<1>2. Types /\ RegistryIsExact /\ [Next]_vars => RegistryIsExact'
  <2> SUFFICES ASSUME Types, RegistryIsExact, [Next]_vars PROVE RegistryIsExact'
    OBVIOUS
  <2>1. ASSUME UNCHANGED <<registry, of, UnderWay>> PROVE RegistryIsExact'
    BY <2>1 DEF RegistryIsExact
  <2>2. ASSUME NEW i \in Ingest, pc[i] \in Under, NEW there \in Under,
               pc' = [pc EXCEPT ![i] = there]
        PROVE  UnderWay' = UnderWay
    BY <2>2 DEF UnderWay, Types
  <2>3. ASSUME NEW i \in Ingest, Step(i) PROVE RegistryIsExact'
    <3>1. CASE Spawn(i) \/ OpenFails(i) \/ Tell(i) \/ AddDocument(i) \/ AddChunks(i)
      BY <3>1, <2>1, <2>2 DEF Spawn, OpenFails, Tell, AddDocument, AddChunks, Goto, Under
    <3>2. CASE Open(i)
      BY <3>2, <2>1, <2>2 DEF Open, Return, Goto, Under
    <3>3. CASE File(i)
      <4>1. CASE pc' = pc BY <3>3, <4>1, <2>1 DEF File, UnderWay
      <4>2. CASE pc' # pc
        <5>1. pc[i] \in Under /\ UNCHANGED <<registry, of>>
          BY <3>3 DEF File, Under
        <5>2. \E there \in Under : pc' = [pc EXCEPT ![i] = there]
          BY <3>3, <4>2 DEF File, Return, Goto, Under
        <5>3. QED BY <5>1, <5>2, <2>1, <2>2
      <4>3. QED BY <4>1, <4>2
    <3>4. CASE Chunking(i) \/ Embedding(i) \/ Writing(i) \/ ServiceFails(i)
      <4>1. pc[i] \in Under /\ UNCHANGED <<registry, of>>
        BY <3>4 DEF Chunking, Embedding, Writing, Stage, ServiceFails, Under
      <4>2. \E there \in Under : pc' = [pc EXCEPT ![i] = there]
        BY <3>4 DEF Chunking, Embedding, Writing, Stage, ServiceFails, Return, Goto, Under
      <4>3. QED BY <4>1, <4>2, <2>1, <2>2
    <3>5. CASE Finish(i)
      <4>1. UnderWay' = UnderWay \ {i}
        BY <3>5 DEF Finish, Goto, UnderWay, Under, Types
      <4>2. of' = of /\ of[i] \in Workspace /\ pc[i] \in Under
        BY <3>5 DEF Finish, Types, Under
      <4>3. registry' = [registry EXCEPT ![of[i]] = {}]
        BY <3>5 DEF Finish
      <4>4. registry[of[i]] = {i}
        BY <4>2 DEF RegistryIsExact, UnderWay
      <4>5. QED BY <4>1, <4>2, <4>3, <4>4 DEF RegistryIsExact, Types
    <3>6. QED BY <2>3, <3>1, <3>2, <3>3, <3>4, <3>5 DEF Step
  <2>4. ASSUME (\E i \in Ingest : Forward(i)) \/ CloseWindow PROVE RegistryIsExact'
    BY <2>4, <2>1 DEF Forward, CloseWindow, UnderWay
  <2>5. ASSUME NEW i \in Ingest, NEW w \in Workspace, Start(i, w) PROVE RegistryIsExact'
    <3>1. UnderWay' = UnderWay \cup {i} /\ i \notin UnderWay
      BY <2>5 DEF Start, Goto, UnderWay, Under, Types
    <3>2. /\ registry' = [registry EXCEPT ![w] = {i}] /\ registry[w] = {}
          /\ of' = [of EXCEPT ![i] = w]
      BY <2>5 DEF Start
    <3>3. QED BY <3>1, <3>2 DEF RegistryIsExact, Types, UnderWay
  <2>6. ASSUME NEW w \in Workspace, Cancel(w) \/ SwitchWorkspace(w) \/ SwitchUnsaved(w)
        PROVE  RegistryIsExact'
    BY <2>6, <2>1 DEF Cancel, SwitchWorkspace, SwitchUnsaved, UnderWay
  <2>7. CASE Crash
    <3>1. UnderWay' = {}
      BY <2>7 DEF Crash, UnderWay, Under, Types
    <3>2. QED BY <2>7, <3>1 DEF Crash, RegistryIsExact
  <2>8. CASE UNCHANGED vars BY <2>8, <2>1 DEF vars, UnderWay
  <2>9. QED BY <2>3, <2>4, <2>5, <2>6, <2>7, <2>8 DEF Next
<1>3. QED BY <1>1, <1>2, TypesCorrect, PTL DEF Spec

-----------------------------------------------------------------------------
\* The contents of the files an ingest has left behind are indexed.
Left(i) ==
  \A n \in 1..next[i] - 1 :
    Folder[i][n] \in Blank \cup (documents[of[i]] \cap chunks[of[i]])

\* The inductive form of DoneMeansIndexed: what has been done so far while the
\* service runs, and that a Done is kept for the workspace it was told of.
Indexing ==
  /\ \A i \in Ingest : pc[i] \in InHand \cup {"file"} => Left(i)
  /\ \A i \in Ingest : pc[i] = "chunks" => Folder[i][next[i]] \in documents[of[i]]
  /\ \A i \in Ingest : pc[i] \in {"new", "starting", "opening"} => outcome[i] = "none" /\ next[i] = 1
  /\ DoneMeansIndexed

\* Rows are only added; an ingest that keeps its place keeps what it has.
LEMMA IndexedStays ==
  ASSUME Types, Indexing,
         \A w \in Workspace : documents[w] \subseteq documents'[w] /\ chunks[w] \subseteq chunks'[w],
         NEW i \in Ingest, of'[i] = of[i]
  PROVE  /\ next'[i] = next[i] /\ Left(i) => Left(i)'
         /\ Indexable(i) \subseteq documents[of[i]] \cap chunks[of[i]]
              => Indexable(i) \subseteq documents'[of'[i]] \cap chunks'[of'[i]]
         /\ Folder[i][next[i]] \in documents[of[i]] => Folder[i][next[i]] \in documents'[of'[i]]
<1>1. of[i] \in Workspace
  BY DEF Types
<1>2. QED BY <1>1 DEF Left

\* A step that leaves place and outcome as they are keeps Indexing.
LEMMA KeepsIndexing ==
  ASSUME Types, Indexing, UNCHANGED <<next, of, documents, chunks>>,
         \A i \in Ingest :
           \/ pc'[i] = pc[i] /\ outcome'[i] = outcome[i]
           \/ /\ pc[i] \in InHand \cup {"file"} /\ pc'[i] \in InHand \cup {"file"}
              /\ pc'[i] # "chunks" /\ outcome'[i] = outcome[i]
           \/ pc'[i] \in Returned /\ (outcome'[i] = outcome[i] \/ outcome'[i] # "done")
           \/ pc[i] = "starting" /\ pc'[i] = "opening" /\ outcome'[i] = outcome[i]
           \/ pc[i] = "opening" /\ pc'[i] = "file" /\ outcome'[i] = outcome[i]
  PROVE  Indexing'
<1>1. ASSUME NEW i \in Ingest, pc'[i] \in InHand \cup {"file"} PROVE Left(i)'
  <2>1. pc[i] \in InHand \cup {"file", "opening"}
    BY <1>1 DEF InHand, Returned
  <2>2. pc[i] = "opening" => Left(i)
    BY DEF Indexing, Left
  <2>3. Left(i)
    BY <2>1, <2>2 DEF Indexing
  <2>4. QED BY <2>3 DEF Left
<1>2. ASSUME NEW i \in Ingest, pc'[i] = "chunks" PROVE Folder[i][next'[i]] \in documents'[of'[i]]
  BY <1>2 DEF Indexing, Returned
<1>3. ASSUME NEW i \in Ingest, pc'[i] \in {"new", "starting", "opening"}
      PROVE  outcome'[i] = "none" /\ next'[i] = 1
  BY <1>3 DEF Indexing, Returned, InHand
<1>4. DoneMeansIndexed'
  BY DEF Indexing, DoneMeansIndexed
<1>5. QED BY <1>1, <1>2, <1>3, <1>4 DEF Indexing

\* With the whole folder behind it, an ingest has indexed what can be.
LEMMA AllLeft ==
  ASSUME Types, NEW i \in Ingest, Left(i), next[i] > Len(Folder[i])
  PROVE  Indexable(i) \subseteq documents[of[i]] \cap chunks[of[i]]
<1>1. Folder[i] \in Seq(Content) /\ Len(Folder[i]) \in Nat /\ DOMAIN Folder[i] = 1..Len(Folder[i])
  BY IngestAssumption
<1>2. next[i] = Len(Folder[i]) + 1
  <2>1. next[i] \in 1..Len(Folder[i]) + 1
    BY DEF Types
  <2>2. QED BY <1>1, <2>1
<1>3. QED BY <1>1, <1>2 DEF Left, Indexable

\* A step of one ingest that leaves a file behind, or adds to the tables,
\* keeps Indexing when what that ingest now has behind it is indexed.
LEMMA OneMovesOn ==
  ASSUME Types, Indexing, NEW i \in Ingest,
         \A w \in Workspace : documents[w] \subseteq documents'[w] /\ chunks[w] \subseteq chunks'[w],
         of' = of, outcome' = outcome,
         \A j \in Ingest \ {i} : pc'[j] = pc[j] /\ next'[j] = next[j],
         pc[i] \in InHand \cup {"file"}, pc'[i] \in {"file", "chunks"}, Left(i)',
         pc'[i] = "chunks" => Folder[i][next'[i]] \in documents'[of[i]]
  PROVE  Indexing'
<1>1. ASSUME NEW j \in Ingest, pc'[j] \in InHand \cup {"file"} PROVE Left(j)'
  <2>1. CASE j = i BY <2>1
  <2>2. CASE j # i
    <3>1. Left(j) /\ next'[j] = next[j] /\ of'[j] = of[j]
      BY <1>1, <2>2 DEF Indexing
    <3>2. QED BY <3>1, IndexedStays
  <2>3. QED BY <2>1, <2>2
<1>2. ASSUME NEW j \in Ingest, pc'[j] = "chunks" PROVE Folder[j][next'[j]] \in documents'[of'[j]]
  <2>1. CASE j = i BY <2>1, <1>2
  <2>2. CASE j # i BY <2>2, <1>2 DEF Indexing, Types
  <2>3. QED BY <2>1, <2>2
<1>3. ASSUME NEW j \in Ingest, pc'[j] \in {"new", "starting", "opening"}
      PROVE  outcome'[j] = "none" /\ next'[j] = 1
  BY <1>3 DEF Indexing
<1>4. DoneMeansIndexed'
  BY DEF Indexing, DoneMeansIndexed, Types
<1>5. QED BY <1>1, <1>2, <1>3, <1>4 DEF Indexing

\* The service ends, or goes on, only with the files it has left behind indexed.
LEMMA IndexingCorrect == Spec => []Indexing
<1>1. Init => Indexing
  BY DEF Init, Indexing, InHand, DoneMeansIndexed
<1>2. Types /\ Indexing /\ [Next]_vars => Indexing'
  <2> SUFFICES ASSUME Types, Indexing, [Next]_vars PROVE Indexing'
    OBVIOUS
  <2> USE DEF Goto, signals, progress, tables, history
  <2>1. ASSUME NEW i \in Ingest, Step(i) PROVE Indexing'
    <3>1. CASE Spawn(i) \/ OpenFails(i) \/ Tell(i) \/ Finish(i)
      BY <3>1, KeepsIndexing
      DEF Spawn, OpenFails, Tell, Finish, Types, InHand, Returned
    <3>2. CASE Open(i)
      BY <3>2, KeepsIndexing DEF Open, Return, Types, InHand, Returned
    <3>3. CASE Chunking(i) \/ Embedding(i) \/ Writing(i) \/ ServiceFails(i)
      BY <3>3, KeepsIndexing
      DEF Chunking, Embedding, Writing, Stage, ServiceFails, Return, Types, InHand, Returned
    <3>4. CASE File(i)
      <4>0. pc[i] = "file" /\ Left(i) /\ UNCHANGED <<of, documents, chunks>>
        BY <3>4 DEF File, Indexing
      <4>1. CASE next[i] > Len(Folder[i])
        <5>1. /\ pc' = [pc EXCEPT ![i] = "drain"] /\ next' = next
              /\ outcome' = [outcome EXCEPT ![i] = "done"]
          BY <3>4, <4>1 DEF File, Return
        <5>2. DoneMeansIndexed'
          BY <4>0, <4>1, <5>1, AllLeft DEF Indexing, DoneMeansIndexed, Types
        <5>3. \A j \in Ingest : pc'[j] \in InHand \cup {"file"} => Left(j)'
          BY <4>0, <5>1 DEF Indexing, Left, InHand, Types
        <5>4. \A j \in Ingest : pc'[j] = "chunks" => Folder[j][next'[j]] \in documents'[of'[j]]
          BY <4>0, <5>1 DEF Indexing, Types
        <5>5. \A j \in Ingest : pc'[j] \in {"new", "starting", "opening"}
                                  => outcome'[j] = "none" /\ next'[j] = 1
          BY <4>0, <5>1 DEF Indexing, Types
        <5>6. QED BY <5>2, <5>3, <5>4, <5>5 DEF Indexing
      <4>2. CASE next[i] <= Len(Folder[i]) /\ ~ (i \notin flags /\ Folder[i][next[i]] \in Blank \ Unreadable)
        <5>1. next' = next
          BY <3>4, <4>2 DEF File
        <5>2. CASE pc' = [pc EXCEPT ![i] = "chunk"] /\ outcome' = outcome
          BY <4>0, <5>1, <5>2, KeepsIndexing DEF Types, InHand
        <5>3. CASE /\ pc' = [pc EXCEPT ![i] = "drain"]
                   /\ \E o \in {"cancelled", "failed"} : outcome' = [outcome EXCEPT ![i] = o]
          BY <4>0, <5>1, <5>3, KeepsIndexing DEF Types, Returned
        <5>4. CASE i \in flags
          BY <3>4, <4>2, <5>3, <5>4, IngestAssumption DEF File, Return, Types
        <5>5. CASE i \notin flags /\ Folder[i][next[i]] \in Unreadable
          BY <3>4, <4>2, <5>3, <5>5, IngestAssumption DEF File, Return, Types
        <5>6. CASE i \notin flags /\ Folder[i][next[i]] \notin Unreadable
          <6>1. ~ (next[i] > Len(Folder[i])) /\ Folder[i][next[i]] \notin Blank
            BY <4>2, <5>6, IngestAssumption DEF Types
          <6>2. pc' = [pc EXCEPT ![i] = "chunk"] /\ outcome' = outcome
            BY <3>4, <5>6, <6>1 DEF File, Return
          <6>3. QED BY <6>2, <5>2
        <5>7. QED BY <5>4, <5>5, <5>6
      <4>3. CASE next[i] <= Len(Folder[i]) /\ i \notin flags /\ Folder[i][next[i]] \in Blank \ Unreadable
        <5>0. ~ (next[i] > Len(Folder[i]))
          BY <4>3, IngestAssumption DEF Types
        <5>1. next' = [next EXCEPT ![i] = @ + 1] /\ pc' = pc /\ outcome' = outcome
          BY <3>4, <4>3, <5>0 DEF File, Return
        <5>2. next[i] \in Nat /\ next'[i] = next[i] + 1
          BY <5>1 DEF Types
        <5>3. Left(i)'
          BY <4>0, <4>3, <5>2 DEF Left
        <5>4. QED BY <4>0, <5>1, <5>3, OneMovesOn DEF Types
      <4>4. QED BY <4>1, <4>2, <4>3, IngestAssumption DEF Types
    <3>5. CASE AddDocument(i)
      <4>1. /\ pc[i] = "document" /\ pc' = [pc EXCEPT ![i] = "chunks"]
            /\ documents' = [documents EXCEPT ![of[i]] = @ \cup {Folder[i][next[i]]}]
            /\ UNCHANGED <<of, next, outcome, chunks>>
        BY <3>5 DEF AddDocument
      <4>2. /\ \A w \in Workspace : documents[w] \subseteq documents'[w]
            /\ Folder[i][next[i]] \in documents'[of[i]]
        BY <4>1 DEF Types
      <4>3. Left(i)'
        BY <4>1, <4>2, IndexedStays DEF Indexing, InHand
      <4>4. QED BY <4>1, <4>2, <4>3, OneMovesOn DEF Types, InHand
    <3>6. CASE AddChunks(i)
      <4>1. /\ pc[i] = "chunks" /\ pc' = [pc EXCEPT ![i] = "file"]
            /\ chunks' = [chunks EXCEPT ![of[i]] = @ \cup {Folder[i][next[i]]}]
            /\ next' = [next EXCEPT ![i] = @ + 1]
            /\ UNCHANGED <<of, outcome, documents>>
        BY <3>6 DEF AddChunks
      <4>2. /\ \A w \in Workspace : chunks[w] \subseteq chunks'[w]
            /\ Folder[i][next[i]] \in documents[of[i]] \cap chunks'[of[i]]
        BY <4>1 DEF Types, Indexing
      <4>3. next[i] \in Nat /\ next'[i] = next[i] + 1 /\ of[i] \in Workspace
        BY <4>1 DEF Types
      <4>4. Left(i)
        BY <4>1 DEF Indexing, InHand
      <4>5. Left(i)'
        BY <4>1, <4>2, <4>3, <4>4 DEF Left
      <4>6. QED BY <4>1, <4>2, <4>5, OneMovesOn DEF Types, InHand
    <3>7. QED BY <2>1, <3>1, <3>2, <3>3, <3>4, <3>5, <3>6 DEF Step
  <2>2. ASSUME (\E i \in Ingest : Forward(i)) \/ CloseWindow PROVE Indexing'
    BY <2>2, KeepsIndexing DEF Forward, CloseWindow
  <2>3. ASSUME NEW i \in Ingest, NEW w \in Workspace, Start(i, w) PROVE Indexing'
    <3>1. /\ pc[i] = "new" /\ pc' = [pc EXCEPT ![i] = "starting"]
          /\ of' = [of EXCEPT ![i] = w]
          /\ UNCHANGED <<next, outcome, documents, chunks>>
      BY <2>3 DEF Start
    <3>2. \A j \in Ingest : pc'[j] \in InHand \cup {"file"} => Left(j)'
      BY <3>1 DEF Indexing, Left, InHand, Types
    <3>3. \A j \in Ingest : pc'[j] = "chunks" => Folder[j][next'[j]] \in documents'[of'[j]]
      BY <3>1 DEF Indexing, Types
    <3>4. \A j \in Ingest : pc'[j] \in {"new", "starting", "opening"}
                              => outcome'[j] = "none" /\ next'[j] = 1
      BY <3>1 DEF Indexing, Types
    <3>5. DoneMeansIndexed'
      BY <3>1 DEF Indexing, DoneMeansIndexed, Types
    <3>6. QED BY <3>2, <3>3, <3>4, <3>5 DEF Indexing
  <2>4. ASSUME NEW w \in Workspace, Cancel(w) \/ SwitchWorkspace(w) \/ SwitchUnsaved(w)
        PROVE  Indexing'
    BY <2>4, KeepsIndexing DEF Cancel, SwitchWorkspace, SwitchUnsaved
  <2>5. CASE Crash
    BY <2>5, KeepsIndexing DEF Crash, Types, InHand, Returned
  <2>6. CASE UNCHANGED vars BY <2>6, KeepsIndexing DEF vars
  <2>7. QED BY <2>1, <2>2, <2>3, <2>4, <2>5, <2>6 DEF Next
<1>3. QED BY <1>1, <1>2, TypesCorrect, PTL DEF Spec

\* Whatever a failed, cancelled or dead ingest left in the tables, an ingest
\* that reports Done leaves every readable file indexed.
THEOREM DoneIsIndexed == Spec => []DoneMeansIndexed
<1>1. Indexing => DoneMeansIndexed
  BY DEF Indexing
<1>2. QED BY <1>1, IndexingCorrect, PTL

-----------------------------------------------------------------------------
\* The inductive form of CancelStopsWriting: a cancelled ingest has its flag
\* set, so it begins no other document than the one it had begun.
Heeding ==
  \A i \in Ingest :
    /\ stopped[i] = "no" => late[i] = 0
    /\ stopped[i] = "cancelled" =>
         /\ i \in flags
         /\ late[i] \in {0, 1}
         /\ pc[i] = "document" => late[i] = 0

\* What leaves the history alone keeps Heeding, if it begins no document of an
\* ingest whose flag is set.
LEMMA KeepsHeeding ==
  ASSUME Heeding, UNCHANGED history, flags \subseteq flags',
         \A i \in Ingest : pc'[i] = "document" => pc[i] = "document" \/ i \notin flags
  PROVE  Heeding'
BY DEF Heeding, history

\* An ingest cancelled by cancel_ingest adds one more document at most: the
\* flag that Cancel sets is looked at again before the next one.
THEOREM CancelHeeded == Spec => []CancelStopsWriting
<1>1. Init => Heeding
  BY DEF Init, Heeding
<1>2. Types /\ Heeding /\ [Next]_vars => Heeding'
  <2> SUFFICES ASSUME Types, Heeding, [Next]_vars PROVE Heeding'
    OBVIOUS
  <2> USE DEF Goto, signals
  <2>1. ASSUME NEW i \in Ingest, Step(i) PROVE Heeding'
    <3>1. CASE Spawn(i) \/ OpenFails(i) \/ Tell(i)
      BY <3>1, EmitTypes, KeepsHeeding DEF Spawn, OpenFails, Tell, Types
    <3>2. CASE Open(i) \/ ServiceFails(i) \/ Finish(i) \/ AddChunks(i)
      BY <3>2, KeepsHeeding DEF Open, ServiceFails, Return, Finish, AddChunks, Types
    <3>3. CASE File(i)
      BY <3>3, KeepsHeeding DEF File, Return, Types
    <3>4. CASE Chunking(i) \/ Embedding(i)
      BY <3>4, KeepsHeeding DEF Chunking, Embedding, Stage, Return, Types
    <3>5. CASE Writing(i)
      BY <3>5, KeepsHeeding DEF Writing, Stage, Return, Types
    <3>6. CASE AddDocument(i)
      <4>1. /\ pc[i] = "document" /\ pc' = [pc EXCEPT ![i] = "chunks"]
            /\ late' = [late EXCEPT ![i] = IF stopped[i] = "no" THEN @ ELSE @ + 1]
            /\ UNCHANGED <<flags, stopped>>
        BY <3>6 DEF AddDocument
      <4>2. stopped[i] = "cancelled" => late'[i] = 1
        BY <4>1 DEF Heeding, Types
      <4>3. QED BY <4>1, <4>2 DEF Heeding, Types
    <3>7. QED BY <2>1, <3>1, <3>2, <3>3, <3>4, <3>5, <3>6 DEF Step
  <2>2. ASSUME NEW i \in Ingest, Forward(i) PROVE Heeding'
    BY <2>2, EmitTypes, KeepsHeeding DEF Forward
  <2>3. CASE CloseWindow
    BY <2>3, KeepsHeeding DEF CloseWindow
  <2>4. ASSUME NEW i \in Ingest, NEW w \in Workspace, Start(i, w) PROVE Heeding'
    BY <2>4, KeepsHeeding DEF Start, Types
  <2>5. ASSUME NEW w \in Workspace, Cancel(w) PROVE Heeding'
    <3>1. PICK i \in registry[w] : /\ flags' = flags \cup {i}
                                   /\ Stop(i, "cancelled")
                                   /\ UNCHANGED <<pc, late>>
      BY <2>5 DEF Cancel
    <3>2. stopped' = [stopped EXCEPT ![i] = IF i \in UnderWay /\ @ = "no" THEN "cancelled" ELSE @]
      BY <3>1 DEF Stop
    <3>3. i \in Ingest
      BY <3>1 DEF Types
    <3>4. QED BY <3>1, <3>2, <3>3 DEF Heeding, Types
  <2>6. ASSUME NEW w \in Workspace, SwitchWorkspace(w) PROVE Heeding'
    BY <2>6 DEF SwitchWorkspace, Heeding, Types
  <2>7. ASSUME NEW w \in Workspace, SwitchUnsaved(w) PROVE Heeding'
    BY <2>7, KeepsHeeding DEF SwitchUnsaved
  <2>8. CASE Crash
    BY <2>8, KeepsHeeding DEF Crash, Types
  <2>9. CASE UNCHANGED vars
    BY <2>9, KeepsHeeding DEF vars
  <2>10. QED BY <2>1, <2>2, <2>3, <2>4, <2>5, <2>6, <2>7, <2>8, <2>9 DEF Next
<1>3. Heeding => CancelStopsWriting
  BY DEF Heeding, CancelStopsWriting
<1>4. QED BY <1>1, <1>2, <1>3, TypesCorrect, PTL DEF Spec

=============================================================================
