------------------------------- MODULE Proxy -------------------------------
(***************************************************************************)
(* The gateway as a proxy: the filters around the routes, the provider     *)
(* that finds the runtime of a model, and the runtimes themselves.         *)
(***************************************************************************)
EXTENDS Filters, Runtimes

ASSUME CallersAreRequests == Callers = Requests

proxyVars == <<filterVars, runtimeVars>>

ProxyInit == FilterInit /\ RuntimeInit

-----------------------------------------------------------------------------
Error == [form |-> "json", frames |-> <<[is |-> "json", text |-> {}]>>]

\* What a route says itself is all there, and is filtered like any answer; the
\* body of a runtime is still to come.
Reply(q, a) == req' = [req EXCEPT ![q] = Answered(q, a)] /\ NoAudit

Relay(q, a) ==
  /\ req' = [req EXCEPT ![q] = IF @.chain = <<>> THEN Ended(q, a)
                               ELSE [@ EXCEPT !.stage = "collecting", !.answer = a]]
  /\ NoAudit

\* A key that is not accepted is answered inside the layer, with an error in JSON.
RefuseKey(q) ==
  /\ Stage(q) = "inner" /\ AllSent(q) /\ Reply(q, Error)
  /\ UNCHANGED runtimeVars

\* An accepted request goes on to chat_completions, which asks the provider for
\* the runtime of the model.
Route(q) == Authenticate(q) /\ \E m \in Models : AskFor(q, m)

Reachable(n) == n # Nobody /\ Ok(n)

\* The model is nowhere, or its runtime cannot be reached or does not begin to
\* answer before the time is over.
NoUpstream(q) ==
  /\ ask[q].stage = "found" /\ Reply(q, Error)
  /\ ask' = [ask EXCEPT ![q] = NoAsk]
  /\ UNCHANGED <<server, cache, writer, fills>>

\* The runtime has begun to answer: its body is passed on as it comes.
Upstream(q) ==
  /\ ask[q].stage = "found" /\ Reachable(ask[q].found)
  /\ \E a \in Answers : Relay(q, a)
  /\ ask' = [ask EXCEPT ![q] = NoAsk]
  /\ UNCHANGED <<server, cache, writer, fills>>

\* The TimeoutLayer drops what it wraps, wherever that is.
TimesOut(q) ==
  /\ Stage(q) = "routing"
  /\ Reply(q, Failure("empty")) /\ Drop(q)
  /\ UNCHANGED <<server, cache, fills>>

Leave(q) ==
  /\ ClientLeaves(q) /\ Drop(q)
  /\ UNCHANGED <<server, cache, fills>>

\* What is done to a request once it is read and until its answer comes.
Serve(q) ==
  \/ FilterStep(q) /\ UNCHANGED runtimeVars
  \/ Route(q) \/ RefuseKey(q) \/ Upstream(q) \/ NoUpstream(q)
  \/ AskStep(q) /\ UNCHANGED filterVars

ProxyNext ==
  \/ (\E q \in Requests, b \in Bodies, k \in KeyPolicies : Enter(q, b, k))
     /\ UNCHANGED runtimeVars
  \/ \E q \in Requests :
       \/ Serve(q) \/ TimesOut(q) \/ Leave(q)
       \/ BodyStep(q) /\ UNCHANGED runtimeVars
  \/ (\E p \in Switches : Toggle(p)) /\ UNCHANGED runtimeVars
  \/ ReceiveAudit /\ UNCHANGED runtimeVars
  \/ (\E n \in Restless : UserAct(n)) /\ UNCHANGED filterVars
  \/ (\E r \in ToSet(Known), m \in Models : PullModel(r, m) \/ RemoveModel(r, m)) /\ UNCHANGED filterVars
  \/ Expire /\ UNCHANGED filterVars

\* hyper polls a connection until it is answered or closed, a runtime that is asked
\* for its list answers or is given up, and one that does not begin to answer a
\* request is cut off.  No client has to send its body, no runtime has to end its
\* own, and nothing rests on the time limit of the whole request.
ProxySpec == ProxyInit /\ [][ProxyNext]_proxyVars /\ \A q \in Requests : WF_proxyVars(Serve(q))

-----------------------------------------------------------------------------
\* Every request that was read is answered or has a runtime answering, and one that is
\* answered in full is passed to its client, unless the client leaves: nobody
\* waits for ever for a list somebody else is fetching, whoever is dropped
\* meanwhile.  An answer without an end keeps its request for ever.
RequestsEnd ==
  \A q \in Requests :
    Stage(q) \in {"inner", "routing", "filtered"} ~> Stage(q) \in {"collecting", "done"}
=============================================================================
