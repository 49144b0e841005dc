------------------------------ MODULE ToolFlow ------------------------------
(***************************************************************************)
(* The tools of the workbench: the environment LLaMA-Factory is installed  *)
(* into (lora_bootstrap_venv), and the three stages of a run that leave    *)
(* the process: llama-quantize, the training, the evaluation over a        *)
(* runtime's HTTP interface.  What goes around a stage is in Workbench.    *)
(***************************************************************************)
EXTENDS Tasks

Tools == {"quantize", "train", "eval"}

CaseCount == 2   \* prompts of an evaluation; count is the number of answers

ToolTerminal == {"completed", "failed", "cancelled"}
VenvTerminal == {"done", "failed"}

ToolQuiet == Fixed /\ UNCHANGED <<cancelled, count, disk>>

-----------------------------------------------------------------------------
\* bootstrap_or_open.  There is one environment; a task runs, and only the page
\* that was given its token can stop it.

Python == <<None, "python">>
Deps == <<None, "llamafactory">>

VenvFailed(c) == EndWith(c, "failed", "error")

BootstrapBegin(c) ==
  /\ kind = "venv" /\ pc[c] = "idle"
  /\ Goto(c, "probe") /\ told' = Told(c, "probing")
  /\ UNCHANGED result /\ ToolQuiet

\* A python that is there answers --version: that is all that is asked of it.
VenvThere(c) ==
  /\ pc[c] = "probe" /\ Python \in disk
  /\ EndWith(c, "done", "ok") \/ VenvFailed(c)
  /\ ToolQuiet

\* A python of the system that is new enough, and a place for the environment.
SystemPython(c) ==
  /\ pc[c] = "probe" /\ Python \notin disk /\ c \notin cancelled
  /\ Goto(c, "make_venv") /\ told' = Told(c, "creating")
  /\ UNCHANGED result /\ ToolQuiet

\* None is; or the token was cancelled, which is told as a failure, too.
NoSystemPython(c) ==
  /\ pc[c] = "probe" /\ Python \notin disk
  /\ VenvFailed(c) /\ ToolQuiet

\* uv, or python -m venv.
VenvMade(c) ==
  /\ pc[c] = "make_venv"
  /\ disk' = disk \cup {Python}
  /\ Goto(c, "pip") /\ told' = Told(c, "installing")
  /\ Fixed /\ UNCHANGED <<result, cancelled, count>>

\* The child fails, takes too long or is killed: whatever is in the directory is
\* removed, be it another call's.  (It may also have left no python there.)
VenvNotMade(c) ==
  /\ pc[c] = "make_venv"
  /\ disk' = disk \ {Python, Deps} \/ UNCHANGED disk
  /\ VenvFailed(c)
  /\ Fixed /\ UNCHANGED <<cancelled, count>>

PipLine(c) ==
  /\ pc[c] = "pip"
  /\ told' = Told(c, "log")
  /\ UNCHANGED <<pc, result>> /\ ToolQuiet

PipInstalled(c) ==
  /\ pc[c] = "pip" /\ Python \in disk
  /\ disk' = disk \cup {Deps}
  /\ EndWith(c, "done", "ok")
  /\ Fixed /\ UNCHANGED <<cancelled, count>>

\* The child is killed and waited for; the environment stays as it is.
PipFails(c) ==
  /\ pc[c] = "pip"
  /\ VenvFailed(c) /\ ToolQuiet

CancelBootstrap(c) ==
  /\ kind = "venv" /\ Running(c) /\ c \in open
  /\ cancelled' = cancelled \cup {c}
  /\ UNCHANGED <<kind, variant, id, pc, inflight, open, told, result, count, disk>>

-----------------------------------------------------------------------------
\* run_quantize_inner, run_train_inner.

Output(c) == <<id[c], "output">>
Partial(c) == <<id[c], "partial">>
Yaml(c) == <<id[c], "yaml">>

ToolFailed(c) == EndWith(c, "failed", "error")
ToolCancelledNow(c) == EndWith(c, "cancelled", "cancelled")

\* Each looks at the token first.
ToolNotBegun(c) ==
  /\ kind = "tool" /\ pc[c] = "begun"
  /\ IF c \in cancelled THEN ToolCancelledNow(c) ELSE ToolFailed(c)
  /\ ToolQuiet

\* The binary is there; the training writes its configuration beside the output.
ToolBegins(c) ==
  /\ kind = "tool" /\ pc[c] = "begun" /\ c \notin cancelled
  /\ Goto(c, IF variant[c] = "eval" THEN "case" ELSE "launch")
  /\ told' = Told(c, "progress")
  /\ disk' = IF variant[c] = "train" THEN disk \cup {Yaml(c)} ELSE disk
  /\ Fixed /\ UNCHANGED <<result, cancelled, count>>

Launched(c) ==
  /\ pc[c] = "launch" /\ Goto(c, "tool")
  /\ UNCHANGED <<told, result>> /\ ToolQuiet

\* No process, or no pipe to it; the configuration stays.
NotLaunched(c) ==
  /\ pc[c] = "launch" /\ ToolFailed(c) /\ ToolQuiet

\* A line of its output, on either pipe.
ToolLine(c) ==
  /\ pc[c] = "tool"
  /\ told' = Told(c, "progress")
  /\ UNCHANGED <<pc, result>> /\ ToolQuiet

\* It exits with 0.  A cancellation may come too late: the select is a fair one.
ToolDone(c) ==
  /\ pc[c] = "tool"
  /\ disk' = (disk \ {Yaml(c)}) \cup {Output(c)}
  /\ EndWith(c, "completed", "ok")
  /\ Fixed /\ UNCHANGED <<cancelled, count>>

\* Another exit code, or the time is up: the child is killed and waited for, and
\* what it wrote stays.
ToolFails(c) ==
  /\ pc[c] = "tool"
  /\ \E x \in SUBSET {Partial(c)} : disk' = (disk \ {Yaml(c)}) \cup x
  /\ ToolFailed(c)
  /\ Fixed /\ UNCHANGED <<cancelled, count>>

\* The child is killed and waited for.
ToolCancelled(c) ==
  /\ pc[c] = "tool" /\ c \in cancelled
  /\ \E x \in SUBSET {Partial(c)} : disk' = (disk \ {Yaml(c)}) \cup x
  /\ ToolCancelledNow(c)
  /\ Fixed /\ UNCHANGED <<cancelled, count>>

-----------------------------------------------------------------------------
\* run_eval_suite over a WorkbenchResponder: the token is looked at before each
\* prompt, a request (with its retries of a 429 or a 5xx) is not interrupted.

CaseAsked(c) ==
  /\ pc[c] = "case" /\ c \notin cancelled /\ count[c] < CaseCount
  /\ Goto(c, "answer")
  /\ UNCHANGED <<told, result>> /\ ToolQuiet

CaseCancelled(c) ==
  /\ pc[c] = "case" /\ c \in cancelled /\ count[c] < CaseCount
  /\ ToolCancelledNow(c) /\ ToolQuiet

\* An empty answer of LM Studio counts as one, whatever the judgement of it.
CaseAnswered(c) ==
  /\ pc[c] = "answer"
  /\ count' = [count EXCEPT ![c] = @ + 1]
  /\ Goto(c, "case")
  /\ Fixed /\ UNCHANGED <<told, result, cancelled, disk>>

\* The model is not loaded, a status, a timeout, a body that says nothing: one
\* prompt without an answer fails the whole suite.
CaseFails(c) ==
  /\ pc[c] = "answer"
  /\ ToolFailed(c) /\ ToolQuiet

SuiteDone(c) ==
  /\ pc[c] = "case" /\ count[c] = CaseCount
  /\ EndWith(c, "completed", "ok")
  /\ ToolQuiet

ToolStep(c) ==
  \/ VenvThere(c) \/ SystemPython(c) \/ NoSystemPython(c) \/ VenvMade(c)
  \/ VenvNotMade(c) \/ PipInstalled(c) \/ PipFails(c)
  \/ ToolNotBegun(c) \/ ToolBegins(c) \/ Launched(c) \/ NotLaunched(c)
  \/ ToolDone(c) \/ ToolFails(c) \/ ToolCancelled(c)
  \/ CaseAsked(c) \/ CaseCancelled(c) \/ CaseAnswered(c) \/ CaseFails(c) \/ SuiteDone(c)
=============================================================================
