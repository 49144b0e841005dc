--------------------------- MODULE WorkbenchProofs ---------------------------
(***************************************************************************)
(* What holds of the workbench for any number of runs and exits: the types *)
(* of its state, that a run cancelled before its last stage registers no   *)
(* model, and that a run tells one end and nothing after it.               *)
(***************************************************************************)
EXTENDS Workbench, TLAPS

PC == {"idle", "spawned", "enter", "work", "load", "open", "write",
       "prepare", "create", "complete", "ended"}

\* The types the invariants rest on.
Types ==
  /\ window \in {"open", "gone"}
  /\ pc \in [Run -> PC]
  /\ stage \in [Run -> Stage]
  /\ goal \in [Run -> {"preview", "catalog", "ollama"}]
  /\ cancelled \in SUBSET Run
  /\ told \in [Run -> Seq(Event)]
  /\ disk \in [form : {"list", "broken"}, models : SUBSET Run]
  /\ loaded \in [Run -> SUBSET Run]
  /\ exits \in 0..MaxExits
  /\ early \in SUBSET Run

-----------------------------------------------------------------------------
\* What telling changes: the events go to the end of what r has told, or the
\* run is cancelled.
LEMMA TellTypes ==
  ASSUME told \in [Run -> Seq(Event)], cancelled \in SUBSET Run, early \in SUBSET Run,
         NEW r \in Run, NEW events \in Seq(Event), Tell(r, events)
  PROVE  /\ told' \in [Run -> Seq(Event)]
         /\ cancelled' \in SUBSET Run
         /\ early' \in SUBSET Run
         /\ cancelled \subseteq cancelled'
         /\ early' \subseteq early \cup ({r} \cap Preparing')
         /\ early' \subseteq early \cup (cancelled' \cap Preparing')
<1>1. CASE window = "open"
  <2>1. told' = [told EXCEPT ![r] = @ \o events] /\ cancelled' = cancelled /\ early' = early
    BY <1>1, Zenon DEF Tell
  <2>2. told[r] \o events \in Seq(Event)
    OBVIOUS
  <2>3. QED BY <2>1, <2>2
<1>2. CASE window # "open"
  <2>1. told' = told /\ cancelled' = cancelled \cup {r} /\ early' = early \cup ({r} \cap Preparing')
    BY <1>2, Zenon DEF Tell, CancelToken
  <2>2. QED BY <2>1
<1>3. QED BY <1>1, <1>2

LEMMA TellAppends ==
  ASSUME told \in [Run -> Seq(Event)], NEW r \in Run, NEW events \in Seq(Event),
         Tell(r, events)
  PROVE  /\ \A q \in Run \ {r} : told'[q] = told[q]
         /\ told'[r] = told[r] \/ told'[r] = told[r] \o events
<1>1. CASE window = "open"
  <2>1. told' = [told EXCEPT ![r] = @ \o events]
    BY <1>1, Zenon DEF Tell
  <2>2. QED BY <2>1
<1>2. CASE window # "open"
  BY <1>2 DEF Tell
<1>3. QED BY <1>1, <1>2

\* The events of the steps are events.
LEMMA Events ==
  /\ <<>> \in Seq(Event)
  /\ \A e \in Event : <<e>> \in Seq(Event)
  /\ <<"ollama failed", "failed">> \in Seq(Event)
  /\ {"started", "registered", "ollama failed", "completed", "failed", "cancelled"} \subseteq Event
BY DEF Event, Terminal

-----------------------------------------------------------------------------
\* The types are kept by every step.
LEMMA TypesCorrect == Spec => []Types
<1>1. Init => Types
  BY WorkbenchAssumption DEF Init, Types, PC, Stage
<1>2. Types /\ [Next]_vars => Types'
  <2> SUFFICES ASSUME Types, [Next]_vars PROVE Types'
    OBVIOUS
  <2>0. /\ told \in [Run -> Seq(Event)]
        /\ cancelled \in SUBSET Run
        /\ early \in SUBSET Run
    BY DEF Types
  <2>a. ASSUME NEW r \in Run, NEW events \in Seq(Event), End(r, events),
               disk' \in [form : {"list", "broken"}, models : SUBSET Run],
               UNCHANGED <<window, stage, goal, loaded, exits>>
        PROVE  Types'
    <3>1. /\ told' \in [Run -> Seq(Event)]
          /\ cancelled' \in SUBSET Run
          /\ early' \in SUBSET Run
      BY <2>0, <2>a, TellTypes DEF End
    <3>2. pc' \in [Run -> PC]
      BY <2>a DEF End, Types, PC
    <3>3. QED BY <2>a, <3>1, <3>2 DEF Types
  <2>b. ASSUME NEW r \in Run, NEW events \in Seq(Event), NEW s \in PC, Tell(r, events),
               pc' = [pc EXCEPT ![r] = s],
               stage' \in [Run -> Stage],
               disk' \in [form : {"list", "broken"}, models : SUBSET Run],
               loaded' \in [Run -> SUBSET Run],
               UNCHANGED <<window, goal, exits>>
        PROVE  Types'
    <3>1. /\ told' \in [Run -> Seq(Event)]
          /\ cancelled' \in SUBSET Run
          /\ early' \in SUBSET Run
      BY <2>0, <2>b, TellTypes
    <3>2. QED BY <2>b, <3>1 DEF Types
  <2>c. /\ stage \in [Run -> Stage]
        /\ disk \in [form : {"list", "broken"}, models : SUBSET Run]
        /\ loaded \in [Run -> SUBSET Run]
    BY DEF Types
  <2>1. ASSUME NEW r \in Run, Step(r) PROVE Types'
    <3>1. CASE Start(r)
      BY <3>1 DEF Start, Types, PC
    <3>2. CASE StartRefused(r)
      BY <3>2 DEF StartRefused, Types, PC
    <3>3. CASE Cancel(r)
      <4>1. cancelled' = cancelled \cup {r} /\ early' \in SUBSET Run
        BY <3>3, <2>0 DEF Cancel, CancelToken, Preparing
      <4>2. QED BY <3>3, <4>1 DEF Cancel, Types
    <3>4. CASE WorkDone(r)
      <4>1. stage' \in [Run -> Stage]
        <5>1. Following(stage[r]) \in Stage
          BY <2>c DEF Following, Stage
        <5>2. QED BY <2>c, <3>4, <5>1 DEF WorkDone
      <4>2. "enter" \in PC
        BY DEF PC
      <4>3. QED BY <2>b, <2>c, <3>4, <4>1, <4>2, Events DEF WorkDone
    <3>5. CASE WorkFails(r) BY <2>a, <2>c, <3>5, Events DEF WorkFails
    <3>6. CASE Began(r)
      <4>1. "enter" \in PC
        BY DEF PC
      <4>2. QED BY <2>b, <2>c, <3>6, <4>1, Events DEF Began
    <3>7. CASE SeeCancel(r) BY <2>a, <2>c, <3>7, Events DEF SeeCancel
    <3>8. CASE Enter(r)
      <4>1. Begins(r) \in PC
        BY DEF Begins, PC
      <4>2. QED BY <2>b, <2>c, <3>8, <4>1, Events DEF Enter
    <3>9. CASE ToolMissing(r) BY <2>a, <2>c, <3>9, Events DEF ToolMissing
    <3>10. CASE WorkCancelled(r) BY <2>a, <2>c, <3>10, Events DEF WorkCancelled
    <3>11. CASE Load(r)
      <4>1. "open" \in PC
        BY DEF PC
      <4>2. loaded' \in [Run -> SUBSET Run]
        BY <2>c, <3>11 DEF Load
      <4>3. QED BY <2>b, <2>c, <3>11, <4>1, <4>2, Events DEF Load
    <3>12. CASE LoadFails(r) BY <2>a, <2>c, <3>12, Events DEF LoadFails
    <3>13. CASE Truncate(r)
      BY <3>13 DEF Truncate, Types, PC
    <3>14. CASE Write(r)
      <4>1. disk' \in [form : {"list", "broken"}, models : SUBSET Run]
        BY <2>c, <3>14 DEF Write, Written
      <4>2. (IF goal[r] = "ollama" THEN "prepare" ELSE "complete") \in PC
        BY DEF PC
      <4>3. QED BY <2>b, <2>c, <3>14, <4>1, <4>2, Events DEF Write
    <3>15. CASE SaveFails(r)
      <4>1. disk' \in [form : {"list", "broken"}, models : SUBSET Run]
        BY <2>c, <3>15 DEF SaveFails
      <4>2. QED BY <2>a, <3>15, <4>1, Events DEF SaveFails
    <3>16. CASE OllamaSeesCancel(r) BY <2>a, <2>c, <3>16, Events DEF OllamaSeesCancel
    <3>17. CASE OllamaStarts(r)
      <4>1. "create" \in PC
        BY DEF PC
      <4>2. CASE End(r, <<"ollama failed">>)
        BY <2>a, <2>c, <3>17, <4>2, Events DEF OllamaStarts
      <4>3. CASE pc' = [pc EXCEPT ![r] = "create"] /\ Tell(r, <<>>)
        BY <2>b, <2>c, <3>17, <4>1, <4>3, Events DEF OllamaStarts
      <4>4. QED BY <3>17, <4>2, <4>3 DEF OllamaStarts
    <3>18. CASE OllamaDone(r)
      <4>1. "complete" \in PC
        BY DEF PC
      <4>2. QED BY <2>b, <2>c, <3>18, <4>1, Events DEF OllamaDone
    <3>19. CASE OllamaFails(r) BY <2>a, <2>c, <3>19, Events DEF OllamaFails
    <3>20. CASE Complete(r) BY <2>a, <2>c, <3>20, Events DEF Complete
    <3>21. QED
      BY <2>1, <3>1, <3>2, <3>3, <3>4, <3>5, <3>6, <3>7, <3>8, <3>9, <3>10, <3>11, <3>12,
         <3>13, <3>14, <3>15, <3>16, <3>17, <3>18, <3>19, <3>20 DEF Step, Working, Reacting
  <2>2. CASE CloseWindow
    <3>1. cancelled' \in SUBSET Run /\ early' \in SUBSET Run
      BY <2>0, <2>2 DEF CloseWindow, CancelToken, Preparing
    <3>2. QED BY <2>2, <3>1 DEF CloseWindow, Types
  <2>3. CASE Exit
    <3>1. pc' \in [Run -> PC]
      BY <2>3 DEF Exit, Types, PC
    <3>2. exits' \in 0..MaxExits
      BY <2>3, WorkbenchAssumption DEF Exit, Types
    <3>3. QED BY <2>3, <3>1, <3>2 DEF Exit, Types
  <2>4. CASE UNCHANGED vars BY <2>4 DEF vars, Types
  <2>5. QED BY <2>1, <2>2, <2>3, <2>4 DEF Next
<1>3. QED
  BY <1>1, <1>2, PTL DEF Spec

-----------------------------------------------------------------------------
\* The actions of a run all move its pc and tell events; the two invariants
\* below see no more of them than this.
Moves(r, s, events) == pc' = [pc EXCEPT ![r] = s] /\ Tell(r, events)

Before == {"idle", "spawned", "enter", "work"}
Success == {"registered", "completed"}

Unregistered(r) ==
  /\ r \notin disk.models
  /\ \A q \in Run : r \notin loaded[q]
Modest(r) == \A i \in 1..Len(told[r]) : told[r][i] \notin Success

\* What keeps a run out: as long as it has not begun the last stage nobody
\* knows of its model, and once cancelled before that it stays where it is.
Out ==
  /\ \A r \in Run : r \in early \/ pc[r] \in Before => Unregistered(r) /\ Modest(r)
  /\ \A r \in early : r \in cancelled /\ pc[r] \in {"spawned", "enter", "work", "ended"}

LEMMA OutKept ==
  ASSUME Types, Out, NEW r \in Run, NEW s \in PC, NEW events \in Seq(Event), Moves(r, s, events),
         s \in Before => pc[r] \in Before,
         r \in early => s \in {"enter", "work", "ended"},
         r \in early \/ pc[r] \in Before => events \in Seq(Event \ Success),
         \A q \in Run : q \in early \/ pc[q] \in Before => Unregistered(q)'
  PROVE  Out'
<1>0. /\ told \in [Run -> Seq(Event)]
      /\ cancelled \in SUBSET Run
      /\ early \in SUBSET Run
      /\ pc \in [Run -> PC]
  BY DEF Types
<1>1. /\ pc'[r] = s
      /\ \A q \in Run \ {r} : pc'[q] = pc[q]
  BY <1>0 DEF Moves
<1>2. /\ early' \in SUBSET Run
      /\ cancelled \subseteq cancelled'
      /\ early' \subseteq early \cup ({r} \cap Preparing')
      /\ early' \subseteq early \cup (cancelled' \cap Preparing')
  BY <1>0, TellTypes DEF Moves
<1>3. /\ \A q \in Run \ {r} : told'[q] = told[q]
      /\ told'[r] = told[r] \/ told'[r] = told[r] \o events
  BY <1>0, TellAppends DEF Moves
<1>4. r \in Preparing' => s \in {"spawned", "enter", "work"}
  BY <1>1 DEF Preparing
<1>5. ASSUME NEW q \in Run, q \in early' \/ pc'[q] \in Before
      PROVE  q \in early \/ pc[q] \in Before
  BY <1>1, <1>2, <1>4, <1>5 DEF Before
<1>6. ASSUME NEW q \in Run, q \in early' \/ pc'[q] \in Before
      PROVE  Modest(q)'
  <2>1. q \in early \/ pc[q] \in Before
    BY <1>5, <1>6
  <2>2. Modest(q)
    BY <2>1 DEF Out
  <2>3. CASE q # r
    BY <1>3, <2>2, <2>3 DEF Modest
  <2>4. CASE q = r /\ told'[r] = told[r]
    BY <2>2, <2>4 DEF Modest
  <2>5. CASE q = r /\ told'[r] = told[r] \o events
    <3>1. \A i \in 1..Len(events) : events[i] \notin Success
      BY <2>1, <2>5
    <3>2. told[r] \in Seq(Event)
      BY <1>0
    <3>3. ASSUME NEW i \in 1..Len(told[r] \o events)
          PROVE  (told[r] \o events)[i] \notin Success
      BY <2>2, <2>5, <3>1, <3>2 DEF Modest
    <3>4. QED BY <2>5, <3>3 DEF Modest
  <2>6. QED BY <1>3, <2>3, <2>4, <2>5
<1>7. ASSUME NEW q \in early'
      PROVE  q \in cancelled' /\ pc'[q] \in {"spawned", "enter", "work", "ended"}
  <2>1. CASE q \in early
    BY <1>1, <1>2, <2>1 DEF Out
  <2>2. CASE q \notin early
    BY <1>1, <1>2, <1>4, <2>2
  <2>3. QED BY <2>1, <2>2
<1>8. QED BY <1>2, <1>5, <1>6, <1>7 DEF Out

\* What a run tells when it does not succeed.
LEMMA TellingNoSuccess ==
  /\ <<>> \in Seq(Event \ Success)
  /\ \A e \in {"started", "cancelled", "failed", "ollama failed"} : <<e>> \in Seq(Event \ Success)
  /\ <<"ollama failed", "failed">> \in Seq(Event \ Success)
<1>1. {"started", "cancelled", "failed", "ollama failed"} \subseteq Event \ Success
  BY DEF Success, Event, Terminal
<1>2. ASSUME NEW S, NEW e \in S, NEW f \in S
      PROVE  <<>> \in Seq(S) /\ <<e>> \in Seq(S) /\ <<e, f>> \in Seq(S)
  OBVIOUS
<1>3. QED BY <1>1, <1>2, Zenon

LEMMA OutHolds == Spec => []Out
<1>1. Init => Out
  BY DEF Init, Out, Unregistered, Modest, Before
<1>2. Types /\ Out /\ [Next]_vars => Out'
  <2> SUFFICES ASSUME Types, Out, [Next]_vars PROVE Out'
    OBVIOUS
  <2>0. /\ loaded \in [Run -> SUBSET Run]
        /\ disk.models \in SUBSET Run
        /\ pc \in [Run -> PC]
    BY DEF Types
  <2>a. ASSUME NEW r \in Run, disk' = disk, loaded' = loaded
        PROVE  \A q \in Run : q \in early \/ pc[q] \in Before => Unregistered(q)'
    BY <2>a DEF Out, Unregistered
  <2>b. ASSUME NEW r \in Run, NEW events \in Seq(Event), End(r, events), pc[r] # "idle",
               events \in Seq(Event \ Success),
               \A q \in Run : q \in early \/ pc[q] \in Before => Unregistered(q)'
        PROVE  Out'
    <3>1. Moves(r, "ended", events)
      BY <2>b DEF End, Moves
    <3>2. "ended" \in PC /\ "ended" \notin Before
      BY DEF PC, Before
    <3>3. QED BY <2>b, <3>1, <3>2, OutKept
  <2>c. /\ <<>> \in Seq(Event \ Success)
        /\ \A e \in {"started", "cancelled", "failed", "ollama failed"} : <<e>> \in Seq(Event \ Success)
        /\ <<"ollama failed", "failed">> \in Seq(Event \ Success)
    BY TellingNoSuccess
  <2>d. \A r \in early : r \in cancelled /\ pc[r] \in {"spawned", "enter", "work", "ended"}
    BY DEF Out
  <2>e. ASSUME NEW r \in Run, NEW s \in PC, NEW events \in Seq(Event), Moves(r, s, events),
               r \notin early, s \in Before => pc[r] \in Before,
               pc[r] \in Before => events = <<>>,
               \A q \in Run : q \in early \/ pc[q] \in Before => Unregistered(q)'
        PROVE  Out'
    BY <2>e, <2>c, OutKept
  <2>1. ASSUME NEW r \in Run, Step(r) PROVE Out'
    <3>a. PC = {"idle", "spawned", "enter", "work", "load", "open", "write",
                "prepare", "create", "complete", "ended"}
      BY DEF PC
    <3>b. Before = {"idle", "spawned", "enter", "work"}
      BY DEF Before
    <3>1. CASE Start(r)
      BY <2>0, <2>d, <3>1, <3>b DEF Start, Out, Unregistered, Modest
    <3>2. CASE StartRefused(r)
      BY <2>0, <2>d, <3>2, <3>b DEF StartRefused, Out, Unregistered, Modest
    <3>3. CASE Cancel(r)
      <4>1. cancelled' = cancelled \cup {r} /\ early' = early \cup ({r} \cap Preparing)
        BY <3>3 DEF Cancel, CancelToken, Preparing
      <4>2. UNCHANGED <<pc, told, disk, loaded>>
        BY <3>3 DEF Cancel
      <4>3. QED BY <4>1, <4>2, <3>b DEF Out, Unregistered, Modest, Preparing
    <3>4. CASE WorkDone(r)
      <4>1. Moves(r, "enter", <<>>) /\ disk' = disk /\ loaded' = loaded /\ pc[r] = "work"
        BY <3>4 DEF WorkDone, Moves
      <4>2. QED BY <2>a, <2>c, <3>a, <3>b, <4>1, Events, OutKept
    <3>5. CASE WorkFails(r)
      BY <2>a, <2>b, <2>c, <3>5, Events DEF WorkFails
    <3>6. CASE Began(r)
      <4>1. Moves(r, "enter", <<"started">>) /\ disk' = disk /\ loaded' = loaded /\ pc[r] = "spawned"
        BY <3>6 DEF Began, Moves
      <4>2. QED BY <2>a, <2>c, <3>a, <3>b, <4>1, Events, OutKept
    <3>7. CASE SeeCancel(r)
      BY <2>a, <2>b, <2>c, <3>7, Events DEF SeeCancel
    <3>8. CASE Enter(r)
      <4>1. Moves(r, Begins(r), <<>>) /\ disk' = disk /\ loaded' = loaded /\ pc[r] = "enter"
            /\ r \notin early
        BY <2>d, <3>8 DEF Enter, Moves
      <4>2. Begins(r) \in PC
        BY <3>a DEF Begins
      <4>3. QED BY <2>a, <2>e, <3>b, <4>1, <4>2, Events
    <3>9. CASE ToolMissing(r)
      BY <2>a, <2>b, <2>c, <3>9, Events DEF ToolMissing
    <3>10. CASE WorkCancelled(r)
      BY <2>a, <2>b, <2>c, <3>10, Events DEF WorkCancelled
    <3>11. CASE Load(r)
      <4>1. Moves(r, "open", <<>>) /\ disk' = disk /\ pc[r] = "load"
            /\ loaded' = [loaded EXCEPT ![r] = disk.models]
        BY <3>11 DEF Load, Moves
      <4>2. \A q \in Run : q \in early \/ pc[q] \in Before => Unregistered(q)'
        BY <2>0, <4>1 DEF Out, Unregistered
      <4>3. QED BY <2>e, <2>d, <3>a, <3>b, <4>1, <4>2, Events
    <3>12. CASE LoadFails(r)
      BY <2>a, <2>b, <2>c, <3>12, Events DEF LoadFails
    <3>13. CASE Truncate(r)
      BY <2>0, <2>d, <3>13, <3>b DEF Truncate, Out, Unregistered, Modest
    <3>14. CASE Write(r)
      <4>1. PICK s \in {"prepare", "complete"} : Moves(r, s, <<"registered">>)
        BY <3>14 DEF Write, Moves
      <4>2. pc[r] = "write" /\ loaded' = loaded
        BY <3>14 DEF Write
      <4>3. disk'.models \subseteq loaded[r] \cup {r}
        BY <3>14 DEF Write, Written
      <4>4. \A q \in Run : q \in early \/ pc[q] \in Before => Unregistered(q)'
        BY <2>d, <3>b, <4>2, <4>3 DEF Out, Unregistered
      <4>5. QED BY <2>e, <2>d, <3>a, <3>b, <4>1, <4>2, <4>4, Events
    <3>15. CASE SaveFails(r)
      <4>1. disk'.models \subseteq disk.models /\ loaded' = loaded /\ pc[r] # "idle"
        BY <3>15 DEF SaveFails
      <4>2. \A q \in Run : q \in early \/ pc[q] \in Before => Unregistered(q)'
        BY <4>1 DEF Out, Unregistered
      <4>3. QED BY <2>b, <2>c, <3>15, <4>1, <4>2, Events DEF SaveFails
    <3>16. CASE OllamaSeesCancel(r)
      BY <2>a, <2>b, <2>c, <3>16, Events DEF OllamaSeesCancel
    <3>17. CASE OllamaStarts(r)
      <4>1. pc[r] = "prepare" /\ disk' = disk /\ loaded' = loaded
        BY <3>17 DEF OllamaStarts
      <4>2. CASE Moves(r, "create", <<>>)
        BY <2>a, <2>e, <2>d, <3>a, <3>b, <4>1, <4>2, Events
      <4>3. CASE End(r, <<"ollama failed">>)
        BY <2>a, <2>b, <2>c, <4>1, <4>3, Events
      <4>4. QED BY <3>17, <4>2, <4>3 DEF OllamaStarts, Moves
    <3>18. CASE OllamaDone(r)
      <4>1. Moves(r, "complete", <<>>) /\ disk' = disk /\ loaded' = loaded /\ pc[r] = "create"
        BY <3>18 DEF OllamaDone, Moves
      <4>2. QED BY <2>a, <2>e, <2>d, <3>a, <3>b, <4>1, Events
    <3>19. CASE OllamaFails(r)
      BY <2>a, <2>b, <2>c, <3>19, Events DEF OllamaFails
    <3>20. CASE Complete(r)
      <4>1. Moves(r, "ended", <<"completed">>) /\ disk' = disk /\ loaded' = loaded
            /\ pc[r] = "complete"
        BY <3>20 DEF Complete, End, Moves
      <4>2. QED BY <2>a, <2>e, <2>d, <3>a, <3>b, <4>1, Events
    <3>21. QED
      BY <2>1, <3>1, <3>2, <3>3, <3>4, <3>5, <3>6, <3>7, <3>8, <3>9, <3>10, <3>11, <3>12,
         <3>13, <3>14, <3>15, <3>16, <3>17, <3>18, <3>19, <3>20 DEF Step, Working, Reacting
  <2>2. CASE CloseWindow
    <3>1. UNCHANGED <<pc, told, disk, loaded>>
      BY <2>2 DEF CloseWindow
    <3>2. CASE UNCHANGED <<cancelled, early>>
      BY <3>1, <3>2 DEF Out, Unregistered, Modest
    <3>3. CASE CancelToken({r \in Run : \E e \in entries : e.id = EntryId(r)})
      <4>1. PICK X \in SUBSET Run : cancelled' = cancelled \cup X /\ early' = early \cup (X \cap Preparing)
        BY <3>1, <3>3 DEF CancelToken, Preparing
      <4>2. QED BY <3>1, <4>1 DEF Out, Unregistered, Modest, Preparing, Before
    <3>4. QED BY <2>2, <3>2, <3>3 DEF CloseWindow
  <2>3. CASE Exit
    <3>1. \A r \in Run : pc'[r] = "ended" \/ pc'[r] = pc[r]
      BY <2>3 DEF Exit
    <3>2. UNCHANGED <<told, loaded, early, cancelled>>
      BY <2>3 DEF Exit
    <3>3. disk'.models \subseteq disk.models
      BY <2>3 DEF Exit
    <3>4. \A r \in Run : r \in early \/ pc[r] \in Before => Unregistered(r)' /\ Modest(r)'
      BY <3>2, <3>3 DEF Out, Unregistered, Modest
    <3>5. \A r \in early : r \in Run
      BY DEF Types
    <3>6. \A r \in early : r \in cancelled /\ pc'[r] \in {"spawned", "enter", "work", "ended"}
      BY <3>1, <3>5 DEF Out
    <3>7. QED BY <3>1, <3>2, <3>4, <3>6 DEF Out, Before
  <2>4. CASE UNCHANGED vars
    BY <2>4 DEF vars, Out, Unregistered, Modest
  <2>5. QED BY <2>1, <2>2, <2>3, <2>4 DEF Next
<1>3. QED
  BY <1>1, <1>2, TypesCorrect, PTL DEF Spec

\* A run cancelled before its last stage begins registers no model at any later
\* moment and never says that it is complete, be there any number of runs at
\* work on the same file.
THEOREM CancelledNeverRegisters == Spec => []CancelledStaysOut
<1>1. Types /\ Out => CancelledStaysOut
  BY DEF Types, Out, Unregistered, Modest, Success, CancelledStaysOut
<1>2. QED
  BY <1>1, TypesCorrect, OutHolds, PTL

-----------------------------------------------------------------------------
\* A run that has not ended has told no end.
OneEnd ==
  \A r \in Run : \A i \in 1..Len(told[r]) :
    told[r][i] \in Terminal => pc[r] = "ended" /\ i = Len(told[r])

\* A step that goes on tells no end; one that ends tells one, as the last.
LEMMA OneEndKept ==
  ASSUME Types, OneEnd, NEW r \in Run, pc[r] # "ended", NEW s \in PC, NEW events \in Seq(Event),
         Moves(r, s, events),
         \A i \in 1..Len(events) : events[i] \in Terminal => s = "ended" /\ i = Len(events)
  PROVE  OneEnd'
<1>1. /\ pc'[r] = s
      /\ \A q \in Run \ {r} : pc'[q] = pc[q]
      /\ told[r] \in Seq(Event)
  BY DEF Moves, Types
<1>2. /\ \A q \in Run \ {r} : told'[q] = told[q]
      /\ told'[r] = told[r] \/ told'[r] = told[r] \o events
  BY TellAppends DEF Moves, Types
<1>3. ASSUME NEW i \in 1..Len(told[r])
      PROVE  told[r][i] \notin Terminal
  BY DEF OneEnd
<1>4. ASSUME NEW q \in Run, NEW i \in 1..Len(told'[q]), told'[q][i] \in Terminal
      PROVE  pc'[q] = "ended" /\ i = Len(told'[q])
  <2>1. CASE q # r
    BY <1>1, <1>2, <1>4, <2>1 DEF OneEnd
  <2>2. CASE q = r /\ told'[r] = told[r]
    BY <1>3, <1>4, <2>2
  <2>3. CASE q = r /\ told'[r] = told[r] \o events
    <3>1. i \in 1..(Len(told[r]) + Len(events)) /\ Len(told'[r]) = Len(told[r]) + Len(events)
      BY <1>1, <1>4, <2>3
    <3>2. CASE i <= Len(told[r])
      <4>1. told'[r][i] = told[r][i]
        BY <1>1, <2>3, <3>1, <3>2
      <4>2. i \in 1..Len(told[r])
        BY <1>1, <3>1, <3>2
      <4>3. QED BY <1>3, <1>4, <2>3, <4>1, <4>2
    <3>3. CASE ~(i <= Len(told[r]))
      <4>1. told'[r][i] = events[i - Len(told[r])] /\ i - Len(told[r]) \in 1..Len(events)
        BY <1>1, <2>3, <3>1, <3>3
      <4>2. s = "ended" /\ i - Len(told[r]) = Len(events)
        BY <1>4, <2>3, <4>1
      <4>3. QED BY <1>1, <2>3, <3>1, <4>2
    <3>4. QED BY <3>2, <3>3
  <2>4. QED BY <1>2, <2>1, <2>2, <2>3
<1>5. QED BY <1>4 DEF OneEnd

\* The ends that are told.
LEMMA TellingEnds ==
  /\ \A i \in 1..Len(<<>>) : FALSE
  /\ \A e \in {"started", "registered"} : \A i \in 1..Len(<<e>>) : <<e>>[i] \notin Terminal
  /\ \A e \in Event : \A i \in 1..Len(<<e>>) : i = Len(<<e>>)
  /\ \A i \in 1..Len(<<"ollama failed", "failed">>) :
       <<"ollama failed", "failed">>[i] \in Terminal => i = Len(<<"ollama failed", "failed">>)
<1>1. \A i \in 1..Len(<<>>) : FALSE
  OBVIOUS
<1>2. ASSUME NEW e, NEW i \in 1..Len(<<e>>)
      PROVE  i = Len(<<e>>) /\ <<e>>[i] = e
  OBVIOUS
<1>3. ASSUME NEW e, NEW f, NEW i \in 1..Len(<<e, f>>), <<e, f>>[i] \in Terminal, e \notin Terminal
      PROVE  i = Len(<<e, f>>)
  BY <1>3
<1>4. "started" \notin Terminal /\ "registered" \notin Terminal /\ "ollama failed" \notin Terminal
  BY DEF Terminal
<1>5. ASSUME NEW e \in {"started", "registered"}, NEW i \in 1..Len(<<e>>)
      PROVE  <<e>>[i] \notin Terminal
  <2>1. e \notin Terminal
    BY <1>4
  <2>2. QED BY <1>2, <2>1
<1>6. QED BY <1>1, <1>2, <1>3, <1>4, <1>5, Zenon

LEMMA OneEndHolds == Spec => []OneEnd
<1>1. Init => OneEnd
  BY DEF Init, OneEnd
<1>2. Types /\ OneEnd /\ [Next]_vars => OneEnd'
  <2> SUFFICES ASSUME Types, OneEnd, [Next]_vars PROVE OneEnd'
    OBVIOUS
  <2>a. ASSUME NEW r \in Run, pc[r] # "ended", NEW events \in Seq(Event), End(r, events),
               \A i \in 1..Len(events) : events[i] \in Terminal => i = Len(events)
        PROVE  OneEnd'
    <3>1. Moves(r, "ended", events) /\ "ended" \in PC
      BY <2>a DEF End, Moves, PC
    <3>2. QED BY <2>a, <3>1, OneEndKept
  <2>b. ASSUME NEW r \in Run, pc[r] # "ended", NEW s \in PC,
               \/ Moves(r, s, <<>>)
               \/ \E e \in {"started", "registered"} : Moves(r, s, <<e>>)
        PROVE  OneEnd'
    <3>1. CASE Moves(r, s, <<>>)
      BY <2>b, <3>1, Events, TellingEnds, OneEndKept
    <3>2. CASE \E e \in {"started", "registered"} : Moves(r, s, <<e>>)
      <4>1. PICK e \in {"started", "registered"} : Moves(r, s, <<e>>)
        BY <3>2
      <4>2. \A i \in 1..Len(<<e>>) : <<e>>[i] \notin Terminal
        BY TellingEnds
      <4>3. <<e>> \in Seq(Event)
        BY Events
      <4>4. QED BY <2>b, <4>1, <4>2, <4>3, OneEndKept
    <3>3. QED BY <2>b, <3>1, <3>2
  <2>c. ASSUME told' = told, \A r \in Run : pc[r] = "ended" => pc'[r] = "ended"
        PROVE  OneEnd'
    BY <2>c DEF OneEnd
  <2>d. pc \in [Run -> PC]
    BY DEF Types
  <2>1. ASSUME NEW r \in Run, Step(r) PROVE OneEnd'
    <3>a. /\ PC = {"idle", "spawned", "enter", "work", "load", "open", "write",
                   "prepare", "create", "complete", "ended"}
          /\ Begins(r) \in PC
      BY DEF PC, Begins
    <3>1. CASE Start(r)
      BY <2>c, <2>d, <3>1 DEF Start
    <3>2. CASE StartRefused(r)
      BY <2>c, <2>d, <3>2 DEF StartRefused
    <3>3. CASE Cancel(r)
      BY <2>c, <3>3 DEF Cancel
    <3>4. CASE WorkDone(r)
      BY <2>b, <3>4, <3>a DEF WorkDone, Moves
    <3>5. CASE WorkFails(r)
      BY <2>a, <3>5, Events, TellingEnds DEF WorkFails
    <3>6. CASE Began(r)
      BY <2>b, <3>6, <3>a DEF Began, Moves
    <3>7. CASE SeeCancel(r)
      BY <2>a, <3>7, Events, TellingEnds DEF SeeCancel
    <3>8. CASE Enter(r)
      BY <2>b, <3>8, <3>a DEF Enter, Moves
    <3>9. CASE ToolMissing(r)
      BY <2>a, <3>9, Events, TellingEnds DEF ToolMissing
    <3>10. CASE WorkCancelled(r)
      BY <2>a, <3>10, Events, TellingEnds DEF WorkCancelled
    <3>11. CASE Load(r)
      BY <2>b, <3>11, <3>a DEF Load, Moves
    <3>12. CASE LoadFails(r)
      BY <2>a, <3>12, Events, TellingEnds DEF LoadFails
    <3>13. CASE Truncate(r)
      BY <2>c, <2>d, <3>13 DEF Truncate
    <3>14. CASE Write(r)
      BY <2>b, <3>14, <3>a DEF Write, Moves
    <3>15. CASE SaveFails(r)
      BY <2>a, <3>15, Events, TellingEnds DEF SaveFails
    <3>16. CASE OllamaSeesCancel(r)
      BY <2>a, <3>16, Events, TellingEnds DEF OllamaSeesCancel
    <3>17. CASE OllamaStarts(r)
      <4>1. CASE Moves(r, "create", <<>>)
        BY <2>b, <3>17, <4>1, <3>a DEF OllamaStarts
      <4>2. CASE End(r, <<"ollama failed">>)
        BY <2>a, <3>17, <4>2, Events, TellingEnds DEF OllamaStarts
      <4>3. QED BY <3>17, <4>1, <4>2 DEF OllamaStarts, Moves
    <3>18. CASE OllamaDone(r)
      BY <2>b, <3>18, <3>a DEF OllamaDone, Moves
    <3>19. CASE OllamaFails(r)
      BY <2>a, <3>19, Events, TellingEnds DEF OllamaFails
    <3>20. CASE Complete(r)
      BY <2>a, <3>20, Events, TellingEnds DEF Complete
    <3>21. QED
      BY <2>1, <3>1, <3>2, <3>3, <3>4, <3>5, <3>6, <3>7, <3>8, <3>9, <3>10, <3>11, <3>12,
         <3>13, <3>14, <3>15, <3>16, <3>17, <3>18, <3>19, <3>20 DEF Step, Working, Reacting
  <2>2. CASE CloseWindow
    BY <2>2, <2>c DEF CloseWindow
  <2>3. CASE Exit
    BY <2>3, <2>c, <2>d DEF Exit, UnderWay
  <2>4. CASE UNCHANGED vars
    BY <2>4, <2>c DEF vars
  <2>5. QED BY <2>1, <2>2, <2>3, <2>4 DEF Next
<1>3. QED
  BY <1>1, <1>2, TypesCorrect, PTL DEF Spec

\* Whatever a run goes through, it tells the page one end at most and nothing
\* after it.
THEOREM EndIsToldOnce == Spec => []TerminalIsLast
<1>1. OneEnd => TerminalIsLast
  BY DEF OneEnd, TerminalIsLast
<1>2. QED
  BY <1>1, OneEndHolds, PTL

=============================================================================
