------------------------------- MODULE Tasks --------------------------------
(***************************************************************************)
(* What the long commands of the desktop share: the registry of running    *)
(* calls (one per command, the same code up to names), the guard that      *)
(* frees an id when the call returns, and the channel on which a call      *)
(* tells its page what happens.                                            *)
(*                                                                         *)
(* Commands of different kinds have registries and files of their own, so  *)
(* a behaviour is about calls of one kind, chosen in Init.                 *)
(***************************************************************************)
EXTENDS Naturals

CONSTANTS Calls,     \* invocations of a command
          Ids,       \* ids of apps, or of models
          None       \* no call, no id

ASSUME NoneIsNoCall == None \notin Calls /\ None \notin Ids

VARIABLES kind,       \* the command, one of Kinds
          variant,    \* what a call was asked: its install method, its runtime
          id,         \* the id a call is about, None before it is invoked
          pc,         \* where a call is
          inflight,   \* the registry: the call that owns each id, or None
          cancelled,  \* the calls whose token is cancelled
          open,       \* the calls whose channel still has a reader
          told,       \* the last event a page heard of a call
          result,     \* what the command returns to its caller
          count,      \* entries worked off, pull attempts or measured prompts
          disk        \* pairs of an id and a thing that exists for it

taskVars == <<kind, variant, id, pc, inflight, cancelled, open, told, result,
              count, disk>>

Kinds == {"install", "pull", "runtime", "bench", "export", "import",
          "embedding", "personas", "dataset", "venv", "tool"}

\* The commands that keep no registry: nobody can cancel their calls by id.  (The
\* bootstrap of an environment keeps one that follows its page, see ToolFlow.)
Registered == kind \notin {"runtime", "personas", "venv"}

\* The registries that draw an id for each job; the others are about a given id.
DrawsId == kind \in {"export", "import", "dataset", "tool"}

\* A page learns the id of an export or import only when it is over.
IdIsTold == kind \notin {"export", "import"}

Ended(c) == pc[c] = "done"
Running(c) == pc[c] \notin {"idle", "done"}
Holds(c) == \E i \in Ids : inflight[i] = c

Goto(c, p) == pc' = [pc EXCEPT ![c] = p]
Return(c, r) == Goto(c, "returning") /\ result' = [result EXCEPT ![c] = r]

\* Channel::send: an event after the reader left is lost.
Told(c, e) == IF c \in open THEN [told EXCEPT ![c] = e] ELSE told

\* The sinks that do notice: a lost reader cancels the call's own token, and the
\* caller goes on to its next check of it.
Heard(c, e) == /\ told' = Told(c, e)
               /\ cancelled' = IF c \in open THEN cancelled ELSE cancelled \cup {c}

\* A call that gave its last event returns; the guard is dropped in Leave.
EndWith(c, e, r) == Return(c, r) /\ told' = Told(c, e)

TaskInit ==
  /\ kind \in Kinds
  /\ id = [c \in Calls |-> None]
  /\ pc = [c \in Calls |-> "idle"]
  /\ inflight = [i \in Ids |-> None]
  /\ cancelled = {}
  /\ open = Calls
  /\ told = [c \in Calls |-> "none"]
  /\ result = [c \in Calls |-> "none"]
  /\ count = [c \in Calls |-> 0]

\* try_start finds the id taken.
AlreadyRunning(c, i) ==
  /\ Registered /\ ~DrawsId /\ pc[c] = "idle" /\ inflight[i] # None
  /\ Goto(c, "done") /\ result' = [result EXCEPT ![c] = "refused"]
  /\ id' = [id EXCEPT ![c] = i]
  /\ UNCHANGED <<kind, variant, inflight, cancelled, open, told, count, disk>>

\* (fault) the entry of a running call is replaced, as ChatRegistry::start does
Replace(c, i) ==
  /\ Registered /\ pc[c] = "idle"
  /\ inflight' = [inflight EXCEPT ![i] = c]
  /\ id' = [id EXCEPT ![c] = i]
  /\ Goto(c, "begun")
  /\ UNCHANGED <<kind, variant, cancelled, open, told, result, count, disk>>

\* try_start hands out a token; the guard exists from here on.
TryStart(c, i) ==
  /\ Registered /\ pc[c] = "idle" /\ inflight[i] = None
  /\ DrawsId => \A d \in Calls : id[d] # i
  /\ inflight' = [inflight EXCEPT ![i] = c]
  /\ id' = [id EXCEPT ![c] = i]
  /\ Goto(c, "begun")
  /\ UNCHANGED <<kind, variant, cancelled, open, told, result, count, disk>>

\* The guard's Drop: finish(id), on whatever path the command returns.
Leave(c) ==
  /\ pc[c] = "returning"
  /\ Goto(c, "done")
  /\ inflight' = IF Registered THEN [inflight EXCEPT ![id[c]] = None]
                 ELSE inflight
  /\ UNCHANGED <<kind, variant, id, cancelled, open, told, result, count, disk>>

\* cancel(id): the token of whoever owns the id now, if anybody does.
CancelId(i) ==
  /\ inflight[i] # None /\ IdIsTold
  /\ cancelled' = cancelled \cup {inflight[i]}
  /\ UNCHANGED <<kind, variant, id, pc, inflight, open, told, result, count, disk>>

\* ExitRequested: cancel_all of the registry; imports of data sets are not asked.
CancelAll ==
  /\ kind # "dataset"
  /\ cancelled' = cancelled \cup {c \in Calls : Holds(c)}
  /\ UNCHANGED <<kind, variant, id, pc, inflight, open, told, result, count, disk>>

\* The page that listens goes away.  bench has no channel: it broadcasts.
CloseChannel(c) ==
  /\ kind # "bench" /\ Running(c) /\ c \in open
  /\ open' = open \ {c}
  /\ UNCHANGED <<kind, variant, id, pc, inflight, cancelled, told, result, count, disk>>

\* what a step of a command leaves alone, whatever it does
Fixed == UNCHANGED <<kind, variant, id, inflight, open>>
=============================================================================
