------------------------------ MODULE Filters ------------------------------
(***************************************************************************)
(* The filters around the gateway: PipelineLayer reads a whole request,    *)
(* runs the chain over it, calls the router it wraps, and runs the chain   *)
(* backwards over the whole answer.  The chain in use is swapped by the    *)
(* page with the filter switches; audit entries go through a bounded       *)
(* channel, without waiting, to a task that keeps the latest of them.      *)
(*                                                                         *)
(* A text is what the filters look for in it: personal data, control       *)
(* characters.  An answer is a sequence of frames, one when it is JSON.    *)
(*                                                                         *)
(* No filter of the desktop fails: token-quota, the one that can, blocks   *)
(* by a budget that only tests put into the context (ctx.token_budget).    *)
(***************************************************************************)
EXTENDS Naturals, Sequences, FiniteSets, SequencesExt, Keeping

CONSTANTS Requests,
          Bodies,      \* the requests clients send
          Answers,     \* what the wrapped router answers
          Saved,       \* the filters that are on in the file
          Switches,    \* the filters the page switches on and off
          KeyPolicies, \* filters a key allows, or None: it follows the switches
          ChannelCap,  \* audit entries in flight (256)
          LogCap,      \* audit entries kept (200)
          None

\* What a text may hold, a frame of an answer, and an answer.
Kinds == {"personal", "control"}
Frames == [is : {"json", "done", "comment", "junk"}, text : SUBSET Kinds]
Responses == [form : {"json", "stream", "other", "empty", "413", "502"}, frames : Seq(Frames)]

ASSUME TextsAreKnown ==
  /\ Bodies \subseteq [form : {"json", "other", "large"}, text : SUBSET Kinds]
  /\ Answers \subseteq Responses

ASSUME CapsArePositive == ChannelCap \in Nat \ {0} /\ LogCap \in Nat \ {0}

VARIABLES enabled,  \* the switches
          chain,    \* the chain behind the ArcSwap
          req,      \* what is known of each request
          channel, log,
          lost      \* requests for whose entries the channel had no room

filterVars == <<enabled, chain, req, channel, log, lost>>

\* The filters, in the order the chain is built, and the ones that look at requests only.
Order == <<"prompt-sanitize", "pii-redact", "token-quota", "observability">>
RequestOnly == {"prompt-sanitize"}

Build(on) == Kept(Order, on)

\* A key that lists filters narrows the chain to them.
FilterByIds(c, allowed) ==
  IF allowed = None THEN c ELSE Kept(c, allowed)

ResponseOrder(c) == Reverse(Kept(c, ToSet(Order) \ RequestOnly))

Failure(code) == [form |-> code, frames |-> <<>>]

NoRequest == [stage |-> "idle", chain |-> <<>>, body |-> None, key |-> None, ext |-> None,
              sent |-> {}, answer |-> None, got |-> None, entries |-> 0, unsent |-> 0]

\* What is left of a request that is over.
Ended(q, got) == [NoRequest EXCEPT !.stage = "done", !.chain = req[q].chain, !.got = got]

FilterInit ==
  /\ enabled = Saved /\ chain = Build(enabled)
  /\ req = [q \in Requests |-> NoRequest]
  /\ channel = <<>> /\ log = <<>> /\ lost = {}

-----------------------------------------------------------------------------
\* The single filters: what is left of a text, and whether it changed.

Sanitized(text) == text \ {"control"}
Redacted(text) == text \ {"personal"}

RequestText(p, text) ==
  CASE p = "prompt-sanitize" -> Sanitized(text)
    [] p = "pii-redact" -> Redacted(text)
    [] OTHER -> text

ResponseText(p, text) == IF p = "pii-redact" THEN Redacted(text) ELSE text

\* The two filters that only count leave an entry always, the others when they
\* changed something.
Leaves(p, before, after) == p \in {"token-quota", "observability"} \/ before # after

ApplyRequest(c, text) ==
  LET f[i \in 0..Len(c)] ==
        IF i = 0 THEN [text |-> text, n |-> 0]
        ELSE LET t == RequestText(c[i], f[i-1].text)
             IN [text |-> t,
                 n |-> f[i-1].n + IF Leaves(c[i], f[i-1].text, t) THEN 1 ELSE 0]
  IN f[Len(c)]

\* (fault) the chain runs forwards, and stops at the first filter for requests
ApplyResponseUpTo(c, text) ==
  LET stop == Min({i \in 1..Len(c) : c[i] \in RequestOnly} \cup {Len(c) + 1})
      r == SubSeq(c, 1, stop - 1)
  IN [text |-> IF "pii-redact" \in ToSet(r) THEN Redacted(text) ELSE text, n |-> Len(r)]

ApplyResponse(c, text) ==
  LET r == ResponseOrder(c)
      f[i \in 0..Len(r)] ==
        IF i = 0 THEN [text |-> text, n |-> 0]
        ELSE LET t == ResponseText(r[i], f[i-1].text)
             IN [text |-> t,
                 n |-> f[i-1].n + IF Leaves(r[i], f[i-1].text, t) THEN 1 ELSE 0]
  IN f[Len(r)]

-----------------------------------------------------------------------------
\* Audit entries: the n-th entry of request q.  drain_audit sends what the chain
\* left, one after the other, before the request goes on; try_send never waits.

Entry(q, n) == [req |-> q, n |-> n]

SendEntry(q) ==
  /\ req[q].unsent > 0
  /\ req' = [req EXCEPT ![q].unsent = @ - 1, ![q].entries = @ + 1]
  /\ IF Len(channel) < ChannelCap
     THEN channel' = Append(channel, Entry(q, req[q].entries + 1)) /\ UNCHANGED lost
     ELSE lost' = lost \cup {q} /\ UNCHANGED channel
  /\ UNCHANGED <<enabled, chain, log>>

\* (fault) a full ring buffer gives up its newest entry
PushOverNewest(l, e) ==
  IF Len(l) >= LogCap THEN Append(SubSeq(l, 1, Len(l) - 1), e) ELSE Append(l, e)

\* RingBuffer::push
Push(l, e) == IF Len(l) >= LogCap THEN Append(Tail(l), e) ELSE Append(l, e)

ReceiveAudit ==
  /\ channel # <<>>
  /\ log' = Push(log, Head(channel)) /\ channel' = Tail(channel)
  /\ UNCHANGED <<enabled, chain, req, lost>>

\* apply_set: the switch, then the chain; requests under way keep theirs.
Toggle(p) ==
  /\ enabled' = IF p \in enabled THEN enabled \ {p} ELSE enabled \cup {p}
  /\ chain' = Build(enabled')
  /\ UNCHANGED <<req, channel, log, lost>>

-----------------------------------------------------------------------------
Stage(q) == req[q].stage
AllSent(q) == req[q].unsent = 0
NoAudit == UNCHANGED <<enabled, chain, channel, log, lost>>

\* call() takes the chain of this moment, before it reads anything.
Enter(q, b, k) ==
  /\ Stage(q) = "idle"
  /\ req' = [req EXCEPT ![q] = [@ EXCEPT !.stage = "reading", !.chain = chain,
                                         !.body = b, !.key = k]]
  /\ NoAudit

TooLarge(q) ==
  /\ Stage(q) = "reading" /\ req[q].chain # <<>> /\ req[q].body.form = "large"
  /\ req' = [req EXCEPT ![q] = Ended(q, Failure("413"))]
  /\ NoAudit

\* The filters this request goes through.  The list of its key is looked up in
\* the extensions of the request, where the services inside this layer have not
\* put anything yet.
Effective(q) == FilterByIds(req[q].chain, req[q].ext)

\* Nothing to filter: no filters, no body, or a body that is not JSON.
PassedBy(q) == req[q].body.form # "json" \/ Effective(q) = <<>>

PassBy(q) ==
  /\ Stage(q) = "reading" /\ PassedBy(q)
  /\ req[q].body.form = "large" => req[q].chain = <<>>
  /\ req' = [req EXCEPT ![q] = [@ EXCEPT !.stage = "inner", !.chain = <<>>,
                                         !.sent = req[q].body.text]]
  /\ NoAudit

FilterRequest(q) ==
  /\ Stage(q) = "reading" /\ ~PassedBy(q)
  /\ LET r == ApplyRequest(Effective(q), req[q].body.text)
     IN req' = [req EXCEPT ![q] = [@ EXCEPT !.stage = "inner", !.chain = Effective(q),
                                            !.sent = r.text, !.unsent = r.n]]
  /\ NoAudit

\* Inside the layer: require_api_key puts the list of the key on the request it
\* passes on.
Authenticate(q) ==
  /\ Stage(q) = "inner" /\ AllSent(q)
  /\ req' = [req EXCEPT ![q].stage = "routing", ![q].ext = req[q].key]
  /\ NoAudit

-----------------------------------------------------------------------------
\* Frames of an event stream: "done" is the [DONE] marker, "comment" has no data
\* line, "junk" is data that is not JSON; a JSON frame is the text of its delta.

FilterFrame(c, f) ==
  IF f.is # "json" THEN [frame |-> f, n |-> 0, changed |-> FALSE]
  ELSE LET r == ApplyResponse(c, f.text)
       IN [frame |-> [f EXCEPT !.text = r.text], n |-> r.n, changed |-> r.text # f.text]

\* A stream is kept as it came when no frame was changed, comments included;
\* otherwise it is put together from the frames that have data.
FilterStream(c, frames) ==
  LET out == [i \in 1..Len(frames) |-> FilterFrame(c, frames[i])]
      n[i \in 0..Len(frames)] == IF i = 0 THEN 0 ELSE n[i-1] + out[i].n
      texts == [i \in 1..Len(frames) |-> out[i].frame]
  IN [frames |-> IF \E i \in 1..Len(frames) : out[i].changed
                 THEN Kept(texts, {f \in ToSet(texts) : f.is # "comment"}) ELSE frames,
      n |-> n[Len(frames)]]

\* What a chain makes of an answer: one without a body, or that is neither JSON nor
\* a stream, stays as it is.
FilterBody(c, a) ==
  IF a.form \in {"json", "stream"} THEN FilterStream(c, a.frames)
  ELSE [frames |-> a.frames, n |-> 0]

\* The answer is there, and filtered.
Answered(q, a) ==
  IF req[q].chain = <<>> THEN Ended(q, a)
  ELSE LET r == FilterBody(req[q].chain, a)
       IN [req[q] EXCEPT !.stage = "filtered", !.answer = [a EXCEPT !.frames = r.frames],
                         !.unsent = r.n]

\* body.collect() has the end of an answer, or it breaks off.  Nothing bounds the
\* time it takes: the layer is outside the one with the time limit.
Collected(q) ==
  /\ Stage(q) = "collecting"
  /\ req' = [req EXCEPT ![q] = Answered(q, req[q].answer)]
  /\ NoAudit

AnswerBreaks(q) ==
  /\ Stage(q) = "collecting"
  /\ req' = [req EXCEPT ![q] = Ended(q, Failure("502"))]
  /\ NoAudit

Return(q) ==
  /\ Stage(q) = "filtered" /\ AllSent(q)
  /\ req' = [req EXCEPT ![q] = Ended(q, req[q].answer)]
  /\ NoAudit

\* The client is gone: hyper drops the future where it awaits something.
ClientLeaves(q) ==
  /\ Stage(q) \in {"reading", "routing", "collecting"}
  /\ req' = [req EXCEPT ![q] = Ended(q, None)]
  /\ NoAudit

\* What waits for the client, or for what a runtime sends.
BodyStep(q) ==
  TooLarge(q) \/ PassBy(q) \/ FilterRequest(q) \/ Collected(q) \/ AnswerBreaks(q)

FilterStep(q) == SendEntry(q) \/ Return(q)

-----------------------------------------------------------------------------
\* What may pass: a request that had the filter in its chain when it came leaves
\* neither its personal data to the model nor that of the model to the client,
\* however often the switches are moved meanwhile.  Bodies and frames
\* that are not JSON are not looked at.
NothingPersonalPasses ==
  \A q \in Requests :
    "pii-redact" \in ToSet(req[q].chain) =>
      /\ Stage(q) \notin {"idle", "reading", "done"} => "personal" \notin req[q].sent
      /\ req[q].got # None /\ req[q].got.form \in {"json", "stream"} =>
           \A i \in DOMAIN req[q].got.frames :
             req[q].got.frames[i].is = "json" => "personal" \notin req[q].got.frames[i].text

\* Everything the page will have been shown, the oldest first.
Trail == log \o channel

\* What the page shows of a request is what happened to it, in order, and what
\* is missing in between was dropped for want of room.
AuditTrailIsComplete ==
  \A i, j \in DOMAIN Trail :
    i < j /\ Trail[i].req = Trail[j].req =>
      /\ Trail[i].n < Trail[j].n
      /\ \A n \in (Trail[i].n + 1)..(Trail[j].n - 1) :
           LET e == [req |-> Trail[i].req, n |-> n] IN e.req \in lost \/ e \in ToSet(Trail)

\* A key that lists the filters it wants goes through those only: "Some(Vec) =
\* the listed ids only, an empty list switches all of them off".
KeyPolicyApplies ==
  \A q \in Requests :
    Stage(q) = "filtered" /\ req[q].key # None => ToSet(req[q].chain) \subseteq req[q].key
=============================================================================
