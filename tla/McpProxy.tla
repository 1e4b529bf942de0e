------------------------------- MODULE McpProxy -------------------------------
(***************************************************************************)
(* The gateway's MCP route: from a request to /:namespace/mcp to the        *)
(* upstream's answer, with the refusals on the way (routes/mcp.ts,          *)
(* mcp/server.ts), the rate limiters (router.ts, rate-limiting.ts), and the *)
(* span and duration sample of the request, which processResponse ends     *)
(* while the answer streams to the client (mcp/otel.ts).                    *)
(*                                                                         *)
(* Requests interleave at every await; the limiters' counters are in Redis, *)
(* so the requests may be on different replicas.                            *)
(***************************************************************************)
EXTENDS Naturals, FiniteSets, Sequences

CONSTANTS
  Requests,    \* requests to the gateway
  Namespaces,  \* configured MCP servers
  Protected,   \* those with an auth_provider
  IdToken,     \* those with forward_id_token
  Tools,
  AllLimit,    \* namespace -> its server-level limit, 0 if none
  ToolLimit,   \* namespace -> tool -> its limit, 0 if none
  ReportOnly,  \* namespaces whose limits only report
  Inputs,      \* what a request may be: members of Input
  Answers,     \* what an upstream may answer: members of Answer
  NoToken,     \* a request without a bearer token
  NoUser       \* the user_id of a token whose provider names no user

ASSUME ConfigAssumption ==
  /\ IdToken \subseteq Protected /\ Protected \subseteq Namespaces
  /\ AllLimit \in [Namespaces -> Nat]
  /\ ToolLimit \in [Namespaces -> [Tools -> Nat]]
  /\ "all" \notin Tools   \* the counters are mcp:<ns>:all and mcp:<ns>:tool:<tool>

\* A gateway access token: for which namespace, user and client, and whether
\* it decrypts (not expired, not forged) and carries an id_token.
\*   Token == [ns, user, client, good : BOOLEAN, id : BOOLEAN]
\*   Input == [ns, bearer : Token \cup {NoToken}, method : {"POST", "GET"}, body]
\* where body is the tool of a tools/call, or one of Bodies.
Bodies == {"request", "notification", "malformed"}

\* The events of a streamed answer, or the one message of a JSON answer: the
\* result of this request, the result of another, a JSON-RPC error, a message
\* that is no response (a notification or a request), or an event of another type.
Messages == {"answer", "other answer", "failure", "no response", "event"}

Answer == [content : {"json", "stream", "other", "none"}, msgs : Seq(Messages)]

ASSUME AnswersAssumption == Answers # {} /\ Answers \subseteq Answer

\* A user's id is no client's id: both are keys of the same counters.
ASSUME IdsAssumption ==
  \A i, j \in Inputs : i.bearer # NoToken /\ j.bearer # NoToken => i.bearer.user # j.bearer.client

VARIABLES
  stage,      \* request -> what the handler does next
  req,        \* request -> its input
  reply,      \* request -> the status the client got, "upstream" for a proxied answer
  window,     \* limiter counter -> the requests it counted in its window
  rest,       \* request -> the messages of the answer not yet processed
  processing, \* request -> what processResponse is reading
  span,       \* request -> its span
  samples,    \* request -> operation.duration samples recorded
  rejected,   \* requests counted by rejected_requests
  admitted,   \* history: counter -> requests its check let through in its window
  blame       \* history: request -> what its refusing counter had counted

vars == <<stage, req, reply, window, rest, processing, span, samples, rejected,
          admitted, blame>>
traceVars == <<rest, processing, span, samples>>
limitVars == <<window, admitted, blame>>

-----------------------------------------------------------------------------

Stages == {"idle", "pass", "all", "tool", "wrap", "fetch", "done"}

NoInput == [ns |-> "none", bearer |-> NoToken, method |-> "GET", body |-> "request"]

(* The part of the key that is not the namespace.                          *)
mcpRateLimitKey(t) == IF t.user = NoUser THEN t.client ELSE t.user

Keys == {mcpRateLimitKey(i.bearer) : i \in {j \in Inputs : j.bearer # NoToken}}
        \cup {i.bearer.client : i \in {j \in Inputs : j.bearer # NoToken}}

Counters == Namespaces \X (Tools \cup {"all"}) \X Keys

TypeOK ==
  /\ stage \in [Requests -> Stages]
  /\ req \in [Requests -> Inputs \cup {NoInput}]
  /\ reply \in [Requests -> {"none", "upstream", "400", "401", "404", "429", "500"}]
  /\ window \in [Counters -> SUBSET Requests]
  /\ \A r \in Requests : \E a \in Answers : Len(rest[r]) <= Len(a.msgs)
  /\ processing \in [Requests -> {"nothing", "json", "stream"}]
  /\ span \in [Requests -> {"none", "open", "ok", "error"}]
  /\ samples \in [Requests -> Nat]
  /\ rejected \subseteq Requests
  /\ admitted \in [Counters -> SUBSET Requests]
  /\ blame \in [Requests -> SUBSET Requests]

Init ==
  /\ stage = [r \in Requests |-> "idle"]
  /\ req = [r \in Requests |-> NoInput]
  /\ reply = [r \in Requests |-> "none"]
  /\ window = [c \in Counters |-> {}]
  /\ rest = [r \in Requests |-> <<>>]
  /\ processing = [r \in Requests |-> "nothing"]
  /\ span = [r \in Requests |-> "none"]
  /\ samples = [r \in Requests |-> 0]
  /\ rejected = {}
  /\ admitted = [c \in Counters |-> {}]
  /\ blame = [r \in Requests |-> {}]

-----------------------------------------------------------------------------
(* The route handler: namespace and token.                                 *)

Set(f, r, v) == [f EXCEPT ![r] = v]

Finish(r, status) ==
  /\ stage' = Set(stage, r, "done")
  /\ reply' = Set(reply, r, status)

Goto(r, s) == stage' = Set(stage, r, s) /\ UNCHANGED reply

RejectForbidden(r, status) ==   \* mutant: the status is not the reason's own
  Finish(r, "403") /\ rejected' = rejected \cup {r}

Reject(r, status) == Finish(r, status) /\ rejected' = rejected \cup {r}

\* Whether unwrapAccessToken accepts the token for this namespace.
TokenAccepted(ns, t) == t # NoToken /\ t.good /\ t.ns = ns

\* A limiter exists for servers that need a token and have some limit.
HasLimiter(ns) ==
  /\ ns \in Protected
  /\ AllLimit[ns] > 0 \/ \E t \in Tools : ToolLimit[ns][t] > 0

Arrive(r, i) ==
  /\ stage[r] = "idle"
  /\ req' = Set(req, r, i)
  /\ CASE i.ns \notin Namespaces -> Reject(r, "404")
       [] i.ns \in Protected /\ ~ TokenAccepted(i.ns, i.bearer) -> Reject(r, "401")
       [] i.ns \in IdToken /\ TokenAccepted(i.ns, i.bearer) /\ ~ i.bearer.id ->
            Reject(r, "401")
       [] OTHER ->
            /\ UNCHANGED rejected
            /\ Goto(r, IF i.method # "POST" THEN "pass"
                       ELSE IF HasLimiter(i.ns) THEN "all" ELSE "wrap")
  /\ UNCHANGED <<limitVars, traceVars>>

\* GET and DELETE are proxied as they are, neither limited nor traced.
PassThrough(r) ==
  /\ stage[r] = "pass"
  /\ \E s \in {"upstream", "500"} : Finish(r, s)
  /\ UNCHANGED <<req, rejected, limitVars, traceVars>>

-----------------------------------------------------------------------------
(* The rate limiters: a fixed window per counter, incremented in Redis in    *)
(* one step, also by the requests it refuses.                              *)

CounterOf(r, what) == <<req[r].ns, what, mcpRateLimitKey(req[r].bearer)>>

ExceedsLate(hits, limit, ns) ==   \* mutant: the limit plus one
  hits > limit + 1 /\ ns \notin ReportOnly

Exceeds(hits, limit, ns) == hits > limit /\ ns \notin ReportOnly

\* The function createCheckFunction returns, for a limit; next is what follows.
Check(r, c, limit, next) ==
  LET hits == Cardinality(window[c] \cup {r})
  IN  /\ window' = Set(window, c, window[c] \cup {r})
      /\ IF Exceeds(hits, limit, c[1])
         THEN /\ Reject(r, "429")
              /\ blame' = Set(blame, r, window'[c])
              /\ UNCHANGED admitted
         ELSE /\ Goto(r, next)
              /\ admitted' = Set(admitted, c, admitted[c] \cup {r})
              /\ UNCHANGED <<rejected, blame>>

CheckAll(r) ==
  /\ stage[r] = "all"
  /\ IF AllLimit[req[r].ns] > 0
     THEN Check(r, CounterOf(r, "all"), AllLimit[req[r].ns], "tool")
     ELSE Goto(r, "tool") /\ UNCHANGED <<rejected, limitVars>>
  /\ UNCHANGED <<req, traceVars>>

\* The tool is peeked at before the body is parsed; other bodies have none.
CheckTool(r) ==
  LET t == req[r].body IN
  /\ stage[r] = "tool"
  /\ IF t \in Tools /\ ToolLimit[req[r].ns][t] > 0
     THEN Check(r, CounterOf(r, t), ToolLimit[req[r].ns][t], "wrap")
     ELSE Goto(r, "wrap") /\ UNCHANGED <<rejected, limitVars>>
  /\ UNCHANGED <<req, traceVars>>

\* Redis does not answer: the request is refused with an internal error.
LimiterFails(r) ==
  /\ stage[r] \in {"all", "tool"}
  /\ Finish(r, "500")
  /\ UNCHANGED <<req, rejected, limitVars, traceVars>>

\* A counter's window ends.
Lapse(c) ==
  /\ window[c] # {}
  /\ window' = Set(window, c, {})
  /\ admitted' = Set(admitted, c, {})
  /\ UNCHANGED <<stage, req, reply, rejected, blame, traceVars>>

-----------------------------------------------------------------------------
(* wrapRequest and the request to the upstream.                            *)

WrapRequest(r) ==
  /\ stage[r] = "wrap"
  /\ CASE req[r].body = "malformed" -> Finish(r, "400") /\ UNCHANGED span
       [] req[r].body = "notification" -> Goto(r, "fetch") /\ UNCHANGED span
       [] OTHER -> Goto(r, "fetch") /\ span' = Set(span, r, "open")
  /\ UNCHANGED <<req, rejected, rest, processing, samples, limitVars>>

\* The client gets the answer while processResponse reads its clone.
Forward(r, a) ==
  /\ stage[r] = "fetch"
  /\ Finish(r, "upstream")
  /\ IF span[r] = "none"
     THEN UNCHANGED traceVars
     ELSE CASE a.content = "other" ->
                 /\ span' = Set(span, r, "error")
                 /\ samples' = Set(samples, r, 1)
                 /\ UNCHANGED <<rest, processing>>
            [] a.content = "none" -> UNCHANGED traceVars
            [] OTHER ->
                 /\ rest' = Set(rest, r, a.msgs)
                 /\ processing' = Set(processing, r, a.content)
                 /\ UNCHANGED <<span, samples>>
  /\ UNCHANGED <<req, rejected, limitVars>>

\* The exception is recorded on the span, which nobody ends.
ForwardFails(r) ==
  /\ stage[r] = "fetch"
  /\ Finish(r, "500")
  /\ UNCHANGED <<req, rejected, limitVars, traceVars>>

-----------------------------------------------------------------------------
(* processResponse.                                                        *)

\* Ending a span twice changes nothing; the sample is recorded each time.
End(r, status) ==
  /\ span' = Set(span, r, IF span[r] = "open" THEN status ELSE span[r])
  /\ samples' = Set(samples, r, samples[r] + 1)

\* mutant: the loop goes on after the answer
HandleMessageOn(r, m) ==
  /\ CASE m = "answer" -> End(r, "ok")
       [] m \in {"failure", "no response"} -> End(r, "error")
       [] OTHER -> UNCHANGED <<span, samples>>
  /\ UNCHANGED processing

\* mutant: the id of the answer is not recognised
HandleMessageOfOther(r, m) ==
  /\ IF m \in {"failure", "no response"} THEN End(r, "error")
                                         ELSE UNCHANGED <<span, samples>>
  /\ UNCHANGED processing

(* handleMessage, and the loop's break once it says done.                  *)
HandleMessage(r, m) ==
  /\ CASE m = "answer" -> End(r, "ok")
       [] m \in {"failure", "no response"} -> End(r, "error")
       [] OTHER -> UNCHANGED <<span, samples>>
  /\ processing' = IF m = "answer" THEN Set(processing, r, "nothing") ELSE processing

Process(r) ==
  /\ processing[r] # "nothing"
  /\ rest[r] # <<>>
  /\ rest' = Set(rest, r, Tail(rest[r]))
  /\ HandleMessage(r, Head(rest[r]))
  /\ UNCHANGED <<stage, req, reply, rejected, limitVars>>

EndOfBody(r) ==
  /\ processing[r] # "nothing"
  /\ rest[r] = <<>>
  /\ processing' = Set(processing, r, "nothing")
  /\ UNCHANGED <<stage, req, reply, rejected, rest, span, samples, limitVars>>

\* The stream breaks off, and processResponse throws: what is left never comes.
\* (A JSON body that breaks off is an error like any that is no response.)
BreakOff(r) ==
  /\ processing[r] = "stream"
  /\ processing' = Set(processing, r, "nothing")
  /\ UNCHANGED <<stage, req, reply, rejected, rest, span, samples, limitVars>>

-----------------------------------------------------------------------------

Handle(r) ==
  \/ PassThrough(r) \/ CheckAll(r) \/ CheckTool(r) \/ LimiterFails(r)
  \/ WrapRequest(r) \/ (\E a \in Answers : Forward(r, a)) \/ ForwardFails(r)
  \/ Process(r) \/ EndOfBody(r) \/ BreakOff(r)

Next ==
  \/ \E r \in Requests : Handle(r) \/ \E i \in Inputs : Arrive(r, i)
  \/ \E c \in Counters : Lapse(c)

Spec == Init /\ [][Next]_vars

\* Node runs every handler and every response processor to its end.
FairSpec == Spec /\ \A r \in Requests : WF_vars(Handle(r))

-----------------------------------------------------------------------------
(* Properties.                                                             *)

(* No counter lets more requests through in one window than its limit,      *)
(* however the requests of one key interleave between replicas             *)
(* (createCheckFunction, handleRequest).                                   *)
AdmittedWithinLimit ==
  \A c \in Counters :
    LET limit == IF c[2] = "all" THEN AllLimit[c[1]] ELSE ToolLimit[c[1]][c[2]]
    IN  c[1] \notin ReportOnly => Cardinality(admitted[c]) <= limit

(* A user is refused for their own requests alone: everything the refusing  *)
(* counter counted came from the same user, to the same server              *)
(* (mcpRateLimitKey).                                                      *)
RefusedForOwnRequests ==
  \A r \in Requests : \A q \in blame[r] :
    /\ req[q].ns = req[r].ns
    /\ req[r].bearer.user # NoUser => req[q].bearer.user = req[r].bearer.user

(* "Rejected requests never produce an mcp.client.operation.duration        *)
(* sample" and never get the upstream's answer (metrics.ts).               *)
RejectedMeansRefused ==
  \A r \in rejected : samples[r] = 0 /\ reply[r] \notin {"none", "upstream"}

(* A span that ended well has one sample: after the answer to the request   *)
(* nothing more is recorded for it (handleMessage, processResponse).       *)
OkIsRecordedOnce == \A r \in Requests : span[r] = "ok" => samples[r] = 1

(* The span of a request ends once its answer comes, whatever the stream     *)
(* brings before it; only a stream that breaks off before the answer may    *)
(* leave it open (processResponse).                                        *)
AnswerEndsSpan ==
  \A r \in Requests :
    LET AnswerToCome == \E k \in DOMAIN rest[r] : rest[r][k] = "answer"
    IN  processing[r] # "nothing" /\ AnswerToCome
          ~> \/ span[r] \in {"ok", "error"}
             \/ processing[r] = "nothing" /\ AnswerToCome

(* createCheckFunction, handleRequest and mcpRateLimitKey: the limiters let  *)
(* through what they may, and refuse nobody for somebody else.             *)
LimitsHold == AdmittedWithinLimit /\ RefusedForOwnRequests

(* recordRejection, handleMessage and recordDuration: a refused request has  *)
(* no sample and no upstream answer, a span that ended well exactly one     *)
(* sample.  How many a span that ended in an error has is left open.        *)
SamplesTellTheOutcome == RejectedMeansRefused /\ OkIsRecordedOnce

=============================================================================
