------------------------------ MODULE Runtimes ------------------------------
(***************************************************************************)
(* The runtimes on this machine, as the adapters see them, and the         *)
(* provider that tells the gateway which of them has a model: it asks all  *)
(* of them for their lists and keeps the answer for five seconds behind a  *)
(* read-write lock.  Ollama comes before LM Studio.                        *)
(***************************************************************************)
EXTENDS Naturals, Sequences, FiniteSets, FiniteSetsExt, SequencesExt

-----------------------------------------------------------------------------
\* What each adapter makes of what its runtime answers.  A reply is "ok",
\* "error" (a status that is not a success) or "refused" (no answer, in time).

\* What the adapters differ in: whether they tell the version and the digests,
\* what the runtime can be told to do, and how they see that an answer is
\* complete.  None of them installs, updates, starts or stops its runtime.
Ollama == [name |-> "ollama", version |-> TRUE, pulls |-> TRUE, removes |-> TRUE, marker |-> TRUE]
LmStudio == [name |-> "lmstudio", version |-> FALSE, pulls |-> FALSE, removes |-> FALSE, marker |-> FALSE]
LlamaCpp == [name |-> "llama-cpp", version |-> FALSE, pulls |-> FALSE, removes |-> FALSE, marker |-> FALSE]

\* The runtimes the provider and the status page know, in the order of routing.
Known == <<Ollama, LmStudio>>
Names == {Known[i].name : i \in DOMAIN Known}

Replies == {"ok", "error", "refused"}

Detect(r, reply) == [installed |-> reply = "ok", version |-> r.version /\ reply = "ok"]

Health(reply) == [active |-> reply = "ok", latency |-> reply # "refused"]

\* A handle on a runtime the application does not own.
Start(r, reply) == Detect(r, reply).installed

\* A list, or nothing: an error the caller takes for an empty list.
ListModels(reply, has) == IF reply = "ok" THEN has ELSE {}

\* The status page asks three times; the runtime may be quit in between.
ProbeStatus(r, replies, has) ==
  LET running == Health(replies[2]).active
  IN [installed |-> Detect(r, replies[1]).installed,
      running |-> running,
      models |-> IF running THEN Cardinality(ListModels(replies[3], has)) ELSE 0]

-----------------------------------------------------------------------------
\* run_prompt: the reply, then the lines of the stream.  "text" has some text,
\* "blank" none, "junk" does not parse, "done" is the last line of an answer; a
\* stream ends, breaks, or is cancelled.

Lines == {"text", "blank", "junk", "done"}
Endings == {"ends", "breaks", "cancelled"}

Failed(why) == [ok |-> FALSE, why |-> why, text |-> 0]

HttpFailure(reply, notFound) ==
  IF reply = "refused" THEN Failed("unreachable")
  ELSE IF notFound THEN Failed("model not loaded")
  ELSE Failed("internal")

Texts(lines) == Cardinality({i \in DOMAIN lines : lines[i] = "text"})

\* Ollama ends every answer with a line that says so and carries the figures.
OllamaSample(reply, notFound, lines, ending) ==
  IF reply # "ok" THEN HttpFailure(reply, notFound)
  ELSE IF ending = "cancelled" THEN Failed("cancelled")
  ELSE IF ending = "breaks" THEN Failed("unreachable")
  ELSE IF \A i \in DOMAIN lines : lines[i] # "done" THEN Failed("internal")
  ELSE [ok |-> TRUE, why |-> "", text |-> Texts(lines)]

\* LM Studio's stream is over when it ends: [DONE] is skipped like a blank line.
LmStudioSample(reply, notFound, lines, ending) ==
  IF reply # "ok" THEN HttpFailure(reply, notFound)
  ELSE IF ending = "cancelled" THEN Failed("cancelled")
  ELSE IF ending = "breaks" THEN Failed("unreachable")
  ELSE [ok |-> TRUE, why |-> "", text |-> Texts(lines)]

-----------------------------------------------------------------------------
\* The provider.

CONSTANTS Callers,  \* requests that look for a model, or for the list of models
          Models,
          Listed,     \* what the runtimes list in the beginning
          Restless,   \* the runtimes their user starts and quits
          Nobody

ASSUME RuntimeAssumption ==
  /\ Listed \in [Names -> {Nobody} \cup SUBSET Models]
  /\ Nobody \notin Callers

VARIABLES server,  \* the models each runtime lists, or Nobody when it does not answer
          cache,   \* the lists, and whether they are younger than the TTL
          writer,  \* the caller that holds the write lock
          ask,     \* what each caller is doing
          fills    \* lists fetched since the cache was last too old

runtimeVars == <<server, cache, writer, ask, fills>>

NoAsk == [stage |-> "idle", model |-> Nobody, lists |-> [n \in {} |-> {}], found |-> Nobody]

NoLists == [fresh |-> FALSE, lists |-> [n \in Names |-> {}]]

RuntimeInit ==
  /\ server = Listed
  /\ cache = NoLists
  /\ writer = Nobody /\ fills = 0
  /\ ask = [c \in Callers |-> NoAsk]

-----------------------------------------------------------------------------
\* What a runtime answers, and the calls that change what it has.

Ok(n) == server[n] # Nobody
ReplyOf(n) == IF Ok(n) THEN "ok" ELSE "refused"
ModelsOf(n) == IF Ok(n) THEN server[n] ELSE {}

RemoveModel(r, m) ==
  /\ r.removes /\ Ok(r.name) /\ m \in server[r.name]
  /\ server' = [server EXCEPT ![r.name] = @ \ {m}]
  /\ UNCHANGED <<cache, writer, ask, fills>>

PullModel(r, m) ==
  /\ r.pulls /\ Ok(r.name)
  /\ server' = [server EXCEPT ![r.name] = @ \cup {m}]
  /\ UNCHANGED <<cache, writer, ask, fills>>

\* The user starts and quits the runtimes, and loads models in them.
UserAct(n) ==
  /\ \E s \in {Nobody} \cup SUBSET Models : server' = [server EXCEPT ![n] = s]
  /\ UNCHANGED <<cache, writer, ask, fills>>

-----------------------------------------------------------------------------
\* ensure_cache: under the read lock, then once more under the write lock.

Stale == ~cache.fresh

\* upstream_for and list_all_models: the first runtime that lists the model.
Owner(lists, m) ==
  LET has == {i \in DOMAIN Known : m \in lists[Known[i].name]}
  IN IF has = {} THEN Nobody ELSE Known[Min(has)].name

Found(c, lists) ==
  [ask EXCEPT ![c] = [NoAsk EXCEPT !.stage = "found", !.model = ask[c].model,
                                   !.found = Owner(lists, ask[c].model)]]

AskFor(c, m) ==
  /\ ask[c].stage = "idle"
  /\ ask' = [ask EXCEPT ![c].stage = "read", ![c].model = m]
  /\ UNCHANGED <<server, cache, writer, fills>>

Read(c) ==
  /\ ask[c].stage = "read" /\ writer = Nobody
  /\ ask' = IF Stale THEN [ask EXCEPT ![c].stage = "write"] ELSE Found(c, cache.lists)
  /\ UNCHANGED <<server, cache, writer, fills>>

\* (fault) the second look is left out
LockBlindly(c) ==
  /\ ask[c].stage = "write" /\ writer = Nobody
  /\ ask' = [ask EXCEPT ![c].stage = "list"]
  /\ writer' = c
  /\ UNCHANGED <<server, cache, fills>>

Lock(c) ==
  /\ ask[c].stage = "write" /\ writer = Nobody
  /\ IF Stale THEN /\ ask' = [ask EXCEPT ![c].stage = "list"]
                   /\ writer' = c
              ELSE ask' = Found(c, cache.lists) /\ UNCHANGED writer
  /\ UNCHANGED <<server, cache, fills>>

\* One runtime after the other; one that does not answer has no models.
NextList(c) ==
  /\ ask[c].stage = "list"
  /\ LET todo == {i \in DOMAIN Known : Known[i].name \notin DOMAIN ask[c].lists}
     IN /\ todo # {}
        /\ LET r == Known[Min(todo)]
           IN ask' = [ask EXCEPT ![c].lists =
                        [n \in DOMAIN @ \cup {r.name} |->
                           IF n = r.name THEN ListModels(ReplyOf(n), ModelsOf(n)) ELSE @[n]]]
  /\ UNCHANGED <<server, cache, writer, fills>>

FillDone(c) ==
  /\ ask[c].stage = "list" /\ DOMAIN ask[c].lists = Names
  /\ cache' = [fresh |-> TRUE, lists |-> ask[c].lists]
  /\ fills' = fills + 1
  /\ writer' = Nobody
  /\ ask' = Found(c, ask[c].lists)
  /\ UNCHANGED <<server>>

\* Five seconds are over: the lists are not read any more.
Expire ==
  /\ cache.fresh
  /\ cache' = NoLists /\ fills' = 0
  /\ UNCHANGED <<server, writer, ask>>

\* (fault) the lock outlives the caller
DropKeepsLock(c) ==
  /\ ask' = [ask EXCEPT ![c].stage = "gone"]
  /\ writer' = writer

\* The caller is dropped; the lock goes with it, and what it had listed.
Drop(c) ==
  /\ ask' = [ask EXCEPT ![c].stage = "gone"]
  /\ writer' = IF writer = c THEN Nobody ELSE writer

AskStep(c) == Read(c) \/ Lock(c) \/ NextList(c) \/ FillDone(c)

-----------------------------------------------------------------------------
\* The runtimes are asked at most once for every five seconds, however many
\* requests find the cache too old at the same time.
OneFillPerExpiry == fills <= 1

=============================================================================
