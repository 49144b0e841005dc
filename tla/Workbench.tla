------------------------------ MODULE Workbench ------------------------------
(***************************************************************************)
(* The workbench of src-tauri/workbench.rs: start_workbench_run, the five  *)
(* stages of run_workbench, cancel_workbench_run, the registry of runs,    *)
(* and the custom-models.json in which model-registry accumulates what the *)
(* last stage registers.                                                   *)
(*                                                                         *)
(* start_workbench_run registers a run under an id it draws itself;        *)
(* run_workbench draws another for the events and for everything it asks   *)
(* of the registry afterwards.  Runs are tasks on several threads: the     *)
(* registration of one, though it never awaits, interleaves with another's *)
(* at each access to the file.                                             *)
(***************************************************************************)
EXTENDS Integers, Sequences

CONSTANTS
  Run,     \* the runs that may be started
  MaxExits \* bound: exits and crashes of the application

ASSUME WorkbenchAssumption == MaxExits \in Nat

VARIABLES
  window,    \* "open", or "gone" once it is closed and the application exits
  entries,   \* WorkbenchRegistry: an id and the stage it is listed with
  pc,        \* where each run stands
  stage,     \* the stage it is in or about to enter
  goal,      \* what its configuration asks of the last stage
  cancelled, \* the runs whose token is cancelled
  told,      \* the events each run has told the page, those of progress apart
  disk,      \* custom-models.json
  loaded,    \* what ModelRegistry::register of each run read from it
  exits,     \* exits and crashes so far
  early      \* the runs cancelled before their last stage began (history)

vars == <<window, entries, pc, stage, goal, cancelled, told, disk, loaded, exits, early>>

Stage == {"data", "quantize", "lora", "validate", "register"}
Following(s) ==
  CASE s = "data" -> "quantize" [] s = "quantize" -> "lora"
    [] s = "lora" -> "validate" [] OTHER -> "register"

\* The id in the registry, and the id of WorkbenchRun::new.
EntryId(r) == <<r, "entry">>
RunId(r) == <<r, "run">>
Id == Run \X {"entry", "run"}

Terminal == {"completed", "failed", "cancelled"}
Event == Terminal \cup {"started", "registered", "ollama failed"}

\* The runs under way that have not begun to register a model.
Preparing == {r \in Run : pc[r] \in {"spawned", "enter", "work"}}
UnderWay == {r \in Run : pc[r] \notin {"idle", "ended"}}

Init ==
  /\ window = "open"
  /\ entries = {}
  /\ pc = [r \in Run |-> "idle"]
  /\ stage = [r \in Run |-> "data"]
  /\ goal = [r \in Run |-> "preview"]
  /\ cancelled = {}
  /\ told = [r \in Run |-> <<>>]
  /\ disk = [form |-> "list", models |-> {}]
  /\ loaded = [r \in Run |-> {}]
  /\ exits = 0
  /\ early = {}

-----------------------------------------------------------------------------
CancelToken(runs) ==
  /\ cancelled' = cancelled \cup runs
  /\ early' = early \cup (runs \cap Preparing')

\* emit_or_cancel: an event that finds no window cancels the run.
Tell(r, events) ==
  IF window = "open"
  THEN told' = [told EXCEPT ![r] = @ \o events] /\ UNCHANGED <<cancelled, early>>
  ELSE CancelToken({r}) /\ UNCHANGED told

SetStage(id, s) == {IF e.id = id THEN [e EXCEPT !.stage = s] ELSE e : e \in entries}

\* run_workbench tells its last events, calls finish and returns.
End(r, events) ==
  /\ pc' = [pc EXCEPT ![r] = "ended"]
  /\ Tell(r, events)
  /\ entries' = {e \in entries : e.id # RunId(r)}

-----------------------------------------------------------------------------
\* start_workbench_run.
Start(r) ==
  /\ pc[r] = "idle"
  /\ window = "open"
  /\ entries' = entries \cup {[id |-> EntryId(r), stage |-> "data"]}
  /\ \E g \in {"preview", "catalog", "ollama"} : goal' = [goal EXCEPT ![r] = g]
  /\ pc' = [pc EXCEPT ![r] = "spawned"]
  /\ UNCHANGED <<window, stage, cancelled, told, disk, loaded, exits, early>>

\* A responder that cannot be built refuses the start after the registration.
StartRefused(r) ==
  /\ pc[r] = "idle"
  /\ window = "open"
  /\ entries' = entries \cup {[id |-> EntryId(r), stage |-> "data"]}
  /\ pc' = [pc EXCEPT ![r] = "ended"]
  /\ UNCHANGED <<window, stage, goal, cancelled, told, disk, loaded, exits, early>>

Began(r) ==
  /\ pc[r] = "spawned"
  /\ pc' = [pc EXCEPT ![r] = "enter"]
  /\ Tell(r, <<"started">>)
  /\ UNCHANGED <<window, entries, stage, goal, disk, loaded, exits>>

\* Each stage begins by looking at the token.
SeeCancel(r) ==
  /\ pc[r] = "enter"
  /\ r \in cancelled
  /\ End(r, <<"cancelled">>)
  /\ UNCHANGED <<window, stage, goal, disk, loaded, exits>>

\* The last stage only renders a preview, or also registers the model.
Begins(r) ==
  IF stage[r] # "register" THEN "work"
  ELSE IF goal[r] = "preview" THEN "complete" ELSE "load"

\* (fault) the last stage does not look at the token
EnterUnchecked(r) ==
  /\ pc[r] = "enter"
  /\ r \notin cancelled \/ stage[r] = "register"
  /\ pc' = [pc EXCEPT ![r] = Begins(r)]
  /\ Tell(r, <<>>)
  /\ UNCHANGED <<window, entries, stage, goal, disk, loaded, exits>>

Enter(r) ==
  /\ pc[r] = "enter"
  /\ r \notin cancelled
  /\ pc' = [pc EXCEPT ![r] = Begins(r)]
  /\ Tell(r, <<>>)
  /\ UNCHANGED <<window, entries, stage, goal, disk, loaded, exits>>

\* build_quantizer and build_trainer fail before their stage begins.
ToolMissing(r) ==
  /\ pc[r] = "enter"
  /\ stage[r] \in {"quantize", "lora"}
  /\ End(r, <<"failed">>)
  /\ UNCHANGED <<window, stage, goal, disk, loaded, exits>>

\* A stage before the last does its work, be it cancelled meanwhile or not.
WorkDone(r) ==
  /\ pc[r] = "work"
  /\ stage' = [stage EXCEPT ![r] = Following(@)]
  /\ entries' = SetStage(RunId(r), stage'[r])
  /\ pc' = [pc EXCEPT ![r] = "enter"]
  /\ Tell(r, <<>>)
  /\ UNCHANGED <<window, goal, disk, loaded, exits>>

WorkFails(r) ==
  /\ pc[r] = "work"
  /\ End(r, <<"failed">>)
  /\ UNCHANGED <<window, stage, goal, disk, loaded, exits>>

\* (fault) the evaluation does not look at the token between its cases
WorkCancelledButForEval(r) ==
  /\ pc[r] = "work"
  /\ stage[r] \in {"quantize", "lora"}
  /\ r \in cancelled
  /\ End(r, <<"cancelled">>)
  /\ UNCHANGED <<window, stage, goal, disk, loaded, exits>>

\* The tools and the evaluation look at the token while they work.
WorkCancelled(r) ==
  /\ pc[r] = "work"
  /\ stage[r] \in {"quantize", "lora", "validate"}
  /\ r \in cancelled
  /\ End(r, <<"cancelled">>)
  /\ UNCHANGED <<window, stage, goal, disk, loaded, exits>>

-----------------------------------------------------------------------------
\* ModelRegistry::register: load_disk ...
Load(r) ==
  /\ pc[r] = "load"
  /\ disk.form = "list"
  /\ loaded' = [loaded EXCEPT ![r] = disk.models]
  /\ pc' = [pc EXCEPT ![r] = "open"]
  /\ Tell(r, <<>>)
  /\ UNCHANGED <<window, entries, stage, goal, disk, exits>>

LoadFails(r) ==
  /\ pc[r] = "load"
  /\ disk.form = "broken"
  /\ End(r, <<"failed">>)
  /\ UNCHANGED <<window, stage, goal, disk, loaded, exits>>

\* ... and save_disk: fs::write truncates the file, which then reads as an
\* empty list, ...
Truncate(r) ==
  /\ pc[r] = "open"
  /\ disk' = [form |-> "list", models |-> {}]
  /\ pc' = [pc EXCEPT ![r] = "write"]
  /\ UNCHANGED <<window, entries, stage, goal, cancelled, told, loaded, exits, early>>

\* ... and fills it from the start.  Over what another run has written since,
\* it leaves the end of a longer text behind.
Written(r) ==
  \/ disk' = [form |-> "list", models |-> loaded[r] \cup {r}]
  \/ disk.models # {} /\ disk' = [form |-> "broken", models |-> {}]

Write(r) ==
  /\ pc[r] = "write"
  /\ Written(r)
  /\ pc' = [pc EXCEPT ![r] = IF goal[r] = "ollama" THEN "prepare" ELSE "complete"]
  /\ Tell(r, <<"registered">>)
  /\ UNCHANGED <<window, entries, stage, goal, loaded, exits>>

\* The file cannot be opened, or only part of it is written.
SaveFails(r) ==
  /\ \/ pc[r] = "open" /\ UNCHANGED disk
     \/ pc[r] = "write" /\ disk' \in [form : {"list", "broken"}, models : {{}}]
  /\ End(r, <<"failed">>)
  /\ UNCHANGED <<window, stage, goal, loaded, exits>>

\* run_ollama_create_stage looks at the token, prepares a directory, ...
OllamaSeesCancel(r) ==
  /\ pc[r] = "prepare"
  /\ r \in cancelled
  /\ End(r, <<"cancelled">>)
  /\ UNCHANGED <<window, stage, goal, disk, loaded, exits>>

OllamaStarts(r) ==
  /\ pc[r] = "prepare"
  /\ r \notin cancelled
  /\ \/ /\ pc' = [pc EXCEPT ![r] = "create"]
        /\ Tell(r, <<>>)
        /\ UNCHANGED entries
     \/ End(r, <<"ollama failed">>)
  /\ UNCHANGED <<window, stage, goal, disk, loaded, exits>>

\* ... and waits for `ollama create`, its 60 s or the token.
OllamaDone(r) ==
  /\ pc[r] = "create"
  /\ pc' = [pc EXCEPT ![r] = "complete"]
  /\ Tell(r, <<>>)
  /\ UNCHANGED <<window, entries, stage, goal, disk, loaded, exits>>

\* (fault) the page is told of the failure, and the run goes on to complete
OllamaFailsGoingOn(r) ==
  /\ pc[r] = "create"
  /\ pc' = [pc EXCEPT ![r] = "complete"]
  /\ Tell(r, <<"ollama failed", "failed">>)
  /\ UNCHANGED <<window, entries, stage, goal, disk, loaded, exits>>

OllamaFails(r) ==
  /\ pc[r] = "create"
  /\ End(r, <<"ollama failed", "failed">>)
  /\ UNCHANGED <<window, stage, goal, disk, loaded, exits>>

Complete(r) ==
  /\ pc[r] = "complete"
  /\ End(r, <<"completed">>)
  /\ UNCHANGED <<window, stage, goal, disk, loaded, exits>>

-----------------------------------------------------------------------------
\* cancel_workbench_run, with the id start_workbench_run has returned.
Cancel(r) ==
  /\ \E e \in entries : e.id = EntryId(r)
  /\ UNCHANGED <<window, entries, pc, stage, goal, told, disk, loaded, exits>>
  /\ CancelToken({r})

\* The window closes, and the application is about to exit:
\* cancel_all_blocking cancels what is registered, if it gets the lock.
CloseWindow ==
  /\ window = "open"
  /\ window' = "gone"
  /\ UNCHANGED <<entries, pc, stage, goal, told, disk, loaded, exits>>
  /\ \/ CancelToken({r \in Run : \E e \in entries : e.id = EntryId(r)})
     \/ UNCHANGED <<cancelled, early>>

\* The process ends, in order or not; the file keeps what was written, of one
\* being written a part.
Exit ==
  /\ exits < MaxExits
  /\ exits' = exits + 1
  /\ window' = "open"
  /\ entries' = {}
  /\ pc' = [r \in Run |-> IF r \in UnderWay THEN "ended" ELSE pc[r]]
  /\ \/ UNCHANGED disk
     \/ /\ \E r \in Run : pc[r] = "write"
        /\ disk' = [form |-> "broken", models |-> {}]
  /\ UNCHANGED <<stage, goal, cancelled, told, loaded, early>>

Working(r) == WorkDone(r) \/ WorkFails(r)

Reacting(r) ==
  \/ Began(r) \/ SeeCancel(r) \/ Enter(r) \/ ToolMissing(r) \/ WorkCancelled(r)
  \/ Load(r) \/ LoadFails(r) \/ Truncate(r) \/ Write(r) \/ SaveFails(r)
  \/ OllamaSeesCancel(r) \/ OllamaStarts(r) \/ OllamaDone(r) \/ OllamaFails(r) \/ Complete(r)

Step(r) == Start(r) \/ StartRefused(r) \/ Cancel(r) \/ Working(r) \/ Reacting(r)

Next == (\E r \in Run : Step(r)) \/ CloseWindow \/ Exit

Spec == Init /\ [][Next]_vars

\* The runtime polls every task that can run, the data file is read, a question
\* of the evaluation is answered or times out after 60 s
\* (workbench_responder.rs:243), and the 60 s of `ollama create` pass
\* (OllamaFails).  Nothing is assumed of how long a quantization, a training or
\* an evaluation nobody cancels may take.
FairSpec ==
  /\ Spec
  /\ \A r \in Run : WF_vars(Reacting(r) \/ (stage[r] = "data" /\ Working(r)))

-----------------------------------------------------------------------------
TypeOK ==
  /\ window \in {"open", "gone"}
  /\ entries \subseteq [id : Id, stage : Stage]
  /\ \A e, f \in entries : e.id = f.id => e = f
  /\ pc \in [Run -> {"idle", "spawned", "enter", "work", "load", "open", "write",
                     "prepare", "create", "complete", "ended"}]
  /\ stage \in [Run -> Stage]
  /\ goal \in [Run -> {"preview", "catalog", "ollama"}]
  /\ cancelled \subseteq Run
  /\ told \in [Run -> Seq(Event)]
  /\ disk \in [form : {"list", "broken"}, models : SUBSET Run]
  /\ loaded \in [Run -> SUBSET Run]
  /\ exits \in 0..MaxExits
  /\ early \subseteq Run

\* A run cancelled at any moment before its last stage begins registers no
\* model, at no later moment, and never tells that it is complete.
CancelledStaysOut ==
  \A r \in early :
    /\ r \notin disk.models
    /\ \A i \in 1..Len(told[r]) : told[r][i] \notin {"registered", "completed"}

\* A run tells one end at most, and nothing after it: the page drops its
\* handle at the first terminal event (ipc/workbench.ts:127).
TerminalIsLast ==
  \A r \in Run : \A i \in 1..Len(told[r]) :
    told[r][i] \in Terminal => i = Len(told[r])

\* A cancelled run ends, also when its work never would.
CancelEnds == \A r \in Run : (r \in cancelled) ~> (pc[r] \in {"idle", "ended"})

=============================================================================
