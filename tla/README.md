# A verification project for the MCP gateway and the JFrog agent

TLA+ models of the programs of this repository that keep state and make
promises about it: the OAuth gateway in front of MCP servers (`mcp-gateway`),
the LangGraph agent with its consoles and services (`Agents/jfrog-agent`), and,
where they do more than pass a request on, the MCP servers and the safety kit
beside them.  TLC checks small instances of every model; TLAPS proves nearly
all of the safety properties for all values of the constants.

Contents: 1 inventory, 2 modules and their correspondence to the code, 3 runs,
bounds and fairness, 4 proofs, 5 abstractions, 6 what the code does that its
reader may not expect, 7 not modelled, 8 what is left.

## 1. Inventory

### Gateway (`mcp-gateway`, TypeScript)

| component | state | operations | what makes it correct |
|---|---|---|---|
| token service (`oauth/token.ts`) | none but one Redis key per used jti | mint and open state tokens, codes, access and refresh tokens; replay check | one-time credentials are used once; a token is for the client, provider, namespace and scopes that were authorized |
| token endpoint (`routes/oauth.ts`, `oauth/provider.ts`) | the requests in flight | code grant, refresh grant, token exchange | the same across awaits, racing requests, lost answers, crashes, rollouts |
| authorize, consent, callback (`routes/oauth.ts`, `routes/callback.ts`) | consent and nonce cookies in the browser, state tokens in URLs | GET and POST authorize, callback | a code is bound to the browser and the consent that asked for it |
| client handlers (`client-handlers/`) | registrations in Redis with a sliding expiry; a cache of metadata documents | register, load metadata, authenticate | a registration lasts as long as the client was told, and a whole term after each use |
| MCP proxy (`mcp/server.ts`, `routes/mcp.ts`) | none | check access token and limits, forward | a refused request never reaches the upstream |
| rate limits (`rate-limiting.ts`, `router.ts`) | counters in Redis | count and refuse | at most `limit` per window and user, nobody refused for another's requests |
| tracing (`mcp/otel.ts`) | a span per request | start, end at the response | ended once, with the right status |
| storage, configuration, well-known documents, monitoring | Redis; files | | |

### Agent (`Agents/jfrog-agent`, Python)

| component | state | operations | what makes it correct |
|---|---|---|---|
| policy (`security.py`, `tools/registry.py`) | none | decide | a function of the action and the settings, not of the LLM |
| graph (`graph.py`) and audit trail (`audit_log.py`) | a run's checkpoint, an in-memory trail, one file | interpret ... audit; interrupt and resume | nothing executes without an approval for it; the record tells what was done |
| web console (`ui/`) | per session: thread and pending approval | prompt, approve, reject, switch thread | buttons act on the waiting run of their session; what waits can be answered |
| telemetry and tracking (`telemetry.py`, `tracking/`) | module-level usage buffer; SQLite or BigQuery | record, aggregate, flush, create tables, backfill | no call or rating is counted twice; a writer stops short only for a reason |
| gateway client (`mcp_client.py`) | token cache file, MCP session, callback listener | authenticate, refresh, log in, call, reconnect | no used refresh token stays in the cache; a retry does not run a tool again; a redirect reaches its login |
| memory and checkpoints (`memory/`) | SQLite or Spanner | threads, messages, checkpoints | threads and messages agree; a run goes on where it was |
| Slack bot (`slack_bot.py`) | recently seen events | handle events | a redelivered event is answered once |
| context optimizer (`context_optimizer/`) | none between calls | adapters, layers, repairs | no tool call loses its answer; what is pinned goes out whole |
| AQL builder and read tools (`tools/`) | none | build, validate, search | a search stays in its scopes and finds what was asked |
| planner, summarizer | none | LLM calls, behind the guard | |

### Beside them

| component | state | operations | what makes it correct |
|---|---|---|---|
| safety kit (`agent-safety-kit`) | none | guard a text, scan recorded rows, alert | what the guard looks for and finds is taken out or nothing is sent; an alert says what is there |
| Artifactory server (`artifactory`) | none | validated search under caps and an allowlist; single GETs | a result stays in the server's scope and under its cap |
| Google Drive server (`gdrive`) | a token cache | read, create, insert, append, replace | no text reported as written is lost; a call runs as its caller with a live token |
| GitHub server (`github`) | none | single requests | |

The parts interact as follows.  The agent's client is a client of the gateway's
OAuth endpoints and sends MCP calls through its proxy; the gateway is a client
of the upstream OAuth providers and MCP servers.  Gateway replicas share
nothing but Redis.  The console's sessions share one process, and so the
module-level state of `telemetry.py`, the callback handler's class-level state,
and one token cache.  Consoles share a memory backend, writers share BigQuery,
and the Drive server's processes share documents.

What is hard here: every `await` of a token request is an interleaving point;
the replay check is two Redis commands; credentials outlive rollouts, marks and
answers get lost; registrations lapse while a secret is compared; two tabs share
a cookie and two logins a port; runs wait for people, for an unbounded time, in
the memory of a session, while settings change; module-level state is shared by
sessions; a save is three transactions and a tracked run six tables; Slack
redelivers; layers of a pipeline tear apart what belongs together.
`PROJECT.json` ("hazards") lists these at their lines, with the properties that
cover them.

## 2. Modules

### Gateway

| module | models | state and actions |
|---|---|---|
| `TokenService` | `oauth/token.ts` | `tokens` (every JWE minted, each of which a client may hold), `minted`, `jtiKey` (Redis), the clock `now`.  `WrapAuthCode`, `WrapTokenResponse`, `Decrypts`, `JtiKeyExists`, `JtiKeyLapse` |
| `TokenEndpoint` | `POST /oauth/:namespace/token`, the provider and the callback's end | a slot per request with a program counter: `Present` and `PresentRefused` (everything before the first await on Redis), `JtiExists`/`JtiReplayed` and `JtiSet` (the halves of `#checkJtiReplay`), `RedisFails`, `UpstreamGrant`/`UpstreamFails`, `UserInfo`/`UserInfoFails`, the two actions of token exchange; `Callback`, `Redeploy`, `Crash`, `Pass` are the environment |
| `AuthorizeFlow` | GET and POST `/authorize`, the callback, dynamic registration and client authentication (`client-handlers/dcr.ts`) | registrations in Redis (`regStage`, `told`, `lapse`), cookies per browser (`consent`, `nonce`), a `tab` per authorization with what its replica saw when (`asked`, `issued`, `called`), a stage per authentication.  `RegisterHashes`/`RegisterStores`, `FetchClient`/`CompareSecret`/`RefreshClient` (the awaits of `validateClientAuth`), `Begin`, `ClientLoads`, `RenderConsent`, `Approve`, `Deny`, `SetNonce`, `RedirectToProvider`, `LogIn`, `FinishFlow`; `Rollout`, `FlowTick` |
| `McpProxy` | `routes/mcp.ts`, `mcp/server.ts`, `mcp/otel.ts`, the limiters of `router.ts` and `rate-limiting.ts` | per request its `stage`, reply, span and samples; the counters in Redis (`window`).  `Arrive` is everything before the first await, `CheckAll` and `CheckTool` the increments, `WrapRequest`, `Forward` and `ForwardFails` the way to the upstream, `Process`, `EndOfBody` and `BreakOff` the concurrent `processResponse` |

### Agent

| module | models | state and actions |
|---|---|---|
| `AgentPolicy` | `registry.py`, `security.py`, the decisions `graph.py` takes with them | operators only |
| `AgentGraph` | `graph.py`, `audit_log.py` | a run is at one of the graph's nodes; one action per node, one step per planned action in `artifactory_subgraph` (`Skip`, `ReadAction`); `Reply` is the resumption of the interrupt; `Configure` changes the settings of later runs |
| `ApprovalGate` | the promise of the README's "Safety model" | the abstract specification: ask, grant or refuse, execute, tell |
| `AgentConsole` | `ui/state.py`, `ui/views/`, `telemetry.py`, `tracking/run_recorder.py` | sessions over the runs of `AgentGraph`, which it extends: `Prompt`, `Step` (one graph node), `Return`, `Drop`, `Raise`, `Press`, `RaiseInResume`, `PostResume`, `SwitchThread`, `Restart`, `Reconfigure`; `awaiting` are the runs whose newest checkpoint is an interrupted approval, which may outlive a restart |
| `RunTracking` | `telemetry.py`, `tracking/`, `ui/state.py`'s use of them, the setup and backfill scripts | the telemetry context and sink, a `buffer` per session's backend, and for each writer (run, rating, script, backfill) its position in the `Plan` of BigQuery operations it has to make.  `run_agent`, `record_llm_call`, `record_run`, `resume_agent`, `RecordFeedback`, `backfill`, `RunScript`; `GetTable`, the two schema patches, `CreateTable`, `InsertRowsJson`, `LoadTableFromJson` are one BigQuery call each.  `llm_summary` and `feedback_summary` are the sets of what the console may be told: `RowLimit` is the `LIMIT` of their queries |
| `GatewayClient` | `mcp_client.py`, the part of `ui/state.py` that drives it | the gateway's side (`granted`, `renewable`, `honoured`, `accepted`), the cache `file`, and for each client its token, session and program counter.  `Start` is an entry point; `Reuse`, `LoadForRefresh`, `LoadNothing`, `Refresh*`, `DiscoveryRefused`, `Authorize*`, `StoreToken`, `SaveCache`, `Open*`, `CallTool` are its steps, one per HTTP call or file operation; `RaiseAuth` is the `except AuthError` of `connect`.  A grant is `renewable` if it came with a refresh token.  `Answers` are what can come back of a call: the exception, whether its text reads as a lost session, and whether the tool ran |
| `BrowserLogin` | `_browser_authorize` and `_CallbackHandler` of `mcp_client.py`, `scripts/oauth-client-demo.py` | logins as threads of processes, each at a `pc`; what a process's handler class has `captured`.  `ClientStarts`, `BindPort`, `ClientOpensBrowser`, `Redirect`, `ProbePort`, `ClientStopsWaiting`, `CompareState`, `ExchangeCode`, and the demo's own order of the same |
| `SlackBot` | `slack_bot.py` | `_SEEN_EVENTS` and a thread per delivery: `OnEvent` (the listener, `_seen_event` under its lock), `BeginHandling`, `Ask`, `AskReturns`; `SlackTick`, `BotRestarts` |
| `ConversationMemory` | `memory/` backends for threads and messages, `ui/state.py`'s use of them | the rows, and for each console its open thread, its screen and the save under way: `SaveMessage`, `UpsertLookup`, `UpsertWrite`, `add_message`, `new_thread`, `load_thread`, `DeleteMessages`, `DeleteThreadRow`, one per transaction |
| `Checkpoints` | `memory/spanner_checkpointer.py` under LangGraph's loop | the rows of checkpoints and writes: `put`, `put_writes`, `get_tuple`, `list`; crash and resumption |
| `ContextOptimizer` | `context_optimizer/` | the messages of one call as items; one action per layer, each followed by the pipeline's repair, and `FinalCleanup` |
| `ArtifactSearch` | `tools/aql.py`, `tools/artifactory.py`, and the search of `artifactory/` | one search: `BuildAql`, `CallSearchTool`, `ServerSearch`, `ArtifactoryAnswers`, with the scopes and caps of both sides |

### Beside them

| module | models | state and actions |
|---|---|---|
| `SafetyKit` | `agent-safety-kit`, and the calls of `llm.py` into it | a text as the set of its matches: `make_plan`, `CollectEvidence`, `summarize` behind `guard_messages`; `ScanTraffic` |
| `GoogleDrive` | `gdrive/server.py` | documents, a token cache per process, the call each process serves: one action per request to Docs |

`MC*` modules give constants, symmetry and instances for TLC; `*Proofs` modules
hold the theorems: `AgentServicesProofs` those of `SlackBot`,
`ConversationMemory` and `Checkpoints`, `DataServicesProofs` those of the
optimizer, the search and the modules beside the agent, `AgentConsoleProofs`
those of `AgentGraph` too, `GatewayClientProofs` those of `BrowserLogin` too.
Definitions marked `mutant` are used by no specification:
they are what a plausible bug would make of the definition that follows them,
and with the bug in place TLC finds the property they are paired with violated.

`AgentConsole` extends `AgentGraph`, which extends `AgentPolicy`;
`TokenEndpoint` extends `TokenService`.  `AgentGraph` refines `ApprovalGate`
under the mapping `Gate` (property `ImplementsGate`): the gate's stage is read
off the run's node, its decision and its trail.  `GatewayClient`'s `Authorize`
is what a `BrowserLogin` comes to, and `TokenEndpoint`'s `Callback` what an
`AuthorizeFlow` comes to; these two seams are by inspection.

`MCAgentServices` and `MCDataServices` check several independent components in
one run: the variable `part` chooses one, which moves while the others stay at
an initial state, so the states of the run are those of the parts side by side,
and an invariant of a part is checked on all of that part's behaviours.

## 3. Runs, bounds and fairness

Passing runs:

| run | instance | shows |
|---|---|---|
| `token_race` | 2 slots, 2 clients, token exchange, 3 tokens, 2 ticks | `TypeOK`; a replay gets through only after the first mark lapsed (`ReplayOnlyAfterLapse`); a secret that went upstream stays marked whatever fails (`MarkOutlivesRedemption`) |
| `token_chain` | 1 slot, 2 clients, 2 scope sets and rollouts between them, 5 tokens, 1 tick | `TokensTraceToAuthorization`: every token descends from an authorization of its client, provider, namespace and scopes; `RefreshAnswerUsable` |
| `agent_runs` | 1 run, every plan of at most 2 of 6 tools with no repository, one inside or one outside the allowlist; 3 settings | `ExecutedOnlyApproved`, `RecordIsComplete`, `ImplementsGate` |
| `console` | 2 runs, 2 sessions, failures, 2 plans, 2 settings, fairness | `ButtonsMatchWaitingRuns`: no button on a dead run, no run this process waits for without its button; `CompletedMeansExecuted`; a run's totals hold another's calls only across sessions (`TotalsMixOnlyAcrossSessions`); `PromptReturns` |
| `client_shared` | 2 clients on one cache file, 3 grants with refresh tokens, tokens that expire, upstream restarts | `CacheNotBurnt`: no order of refreshes and saves leaves a used refresh token behind |
| `client_solo` | 1 client, 3 grants with and without refresh tokens, 2 troubles (answers, crashes, rotated keys, lapses), fairness | `LoginLasts`: the browser is needed again only once the newest grant is gone, lost or run out without a refresh token; `RunsOnce`: a call runs its tool once, or twice if the tool's own error reads as a lost session; `EntryPointsReturn` |
| `proxy` | 2 requests out of 15 kinds, 2 users and an anonymous token, limits of 1 on a server, on a tool and one that only reports, 15 answers, fairness | `LimitsHold`: no more than the limit is admitted per window, and nobody is refused for others; `SamplesTellTheOutcome`: a refusal leaves no sample, a span that ended well exactly one; `AnswerEndsSpan` |
| `agent_services` | seven components side by side | see below |
| `data_services` | six components side by side | see below |

`agent_services`:

| part | module | shows |
|---|---|---|
| tracking | `RunTracking` | `TablesTellTheWrites`: whatever BigQuery refuses and whoever else creates the tables, they hold the beginning of what each writer has to write, once; `CallsAreCountedOnce`: over all sessions no call and no rating counts twice, a run beside no other counts in full, and the console's totals are what was stored as far as the queries' limit reaches |
| slack | `SlackBot` | `QuestionsAreAnsweredOnce`: redeliveries, evictions and restarts leave a question with one run and one answer, as far as the bot can remember and reply |
| memory | `ConversationMemory` | `TurnsAreKept`: a turn is lost, or left without its thread, only in a conversation two consoles used at once, or that was deleted meanwhile |
| checkpoints | `Checkpoints` | `RunGoesOnWhereItWas`: the latest checkpoint comes back, with its own pending writes and the chain before it |
| login | `BrowserLogin` | `RedirectReachesItsLogin`: logins that share a port or a process are answered with their own code, or fail |
| authorize | `AuthorizeFlow` | `CodeReachesWhoApproved`: a code goes to the browser that approved its client, and of the tabs that asked only the latest completes |
| clients | `AuthorizeFlow` | `RegistrationKeepsItsWord`: a registration lasts until the time the client was told, and a whole term after each use |

`data_services`:

| part | module | shows |
|---|---|---|
| optimizer | `ContextOptimizer` | `ConversationStaysWhole`: no sequence of layers leaves a call without its answer, pulls a round apart, drops a single call, or loses or cuts what is pinned; `OverBudgetForAReason`: apart from tool rounds, what goes out fits the budget or is pinned, but for the last item of a window |
| search | `ArtifactSearch` | `SearchIsWhatWasAsked`: results keep to the server's scope and cap and to the repository and name of the intent, and nothing the validated query finds within reach is missing |
| guard | `SafetyKit` | `GuardStopsWhatItFinds`: of what the guard looks for, nothing at the blocking severity is sent, and of the rest at most the tails of overlapping findings, in every message the guard can rebuild |
| scan | `SafetyKit` | `ScanFindsWhatIsThere`: the two ways to scan agree on registered tables, and the alert says what is there |
| documents | `GoogleDrive` | `DocumentsHoldTheirText`: a text goes in at the end its own call read, none that was reported as written is lost to another call, and a new document lacks its text only for a reason its caller was told |
| tokens | `GoogleDrive` | `CredentialsFit`: a call runs as its caller, with a token that is alive |

Runs that find what a comment or document says violated by the code (see
"findings" in `PROJECT.json`):

| run | what happens |
|---|---|
| `single_use` | two overlapping requests with one authorization code both see no mark and both redeem it |
| `denied_read` | a denied read action runs because a later action with the same tool is allowed |
| `merged_calls` | of two equal calls of one assistant message, merging drops both instead of keeping one |

**Bounds.**  They are named in the modules that use them, and a step that would
exceed one is not taken.

- Tokens.  Three tokens are a code and the pair it is exchanged for, the
  smallest history with both kinds of one-time credential; five allow two
  refreshes in a row.  Lifetimes of one tick, of two, let a code expire in flight
  and a mark lapse and be set again.  Two slots suffice for each race, since the
  code has one window between two Redis commands.  Rollouts of another provider,
  or requests at another namespace, are no different for lineage than those of
  other scopes: the same comparison refuses them, and the theorem covers them.
- Agent.  Two actions in a plan are the smallest plan in which notes, payloads
  and the loop interfere; the six tools are one for each class the policy tells
  apart.  Two runs in two sessions are the smallest console in which one run can
  disturb another; `r1` starts first and from `s1`, since runs and sessions are
  alike.
- Client.  Two clients and three grants let one client refresh twice around the
  other's refresh.  A grant without a refresh token matters to a client alone
  (`LoginLasts`), so only `client_solo` makes them; there three grants let the
  client lose one of each kind and log in once more.
- Proxy.  Two requests reach a limit of one and the refusal after it; the
  messages of a stream interact through the span alone, so one message before
  the answer is enough, or one after it.
- Tracking.  One call per run and one failure; the casts are two runs, a run
  and a rating, a run and a setup script, a run and a backfill: a conflict is
  always between two writers.  Two runs work on tables that are healthy, one
  run meets tables in any state.  The limit of the console's queries is one row,
  so that two rows are beyond it.
- Slack.  Two messages delivered twice, a memory of one entry and a lifetime of
  no tick: both ways to forget, eviction and age, happen at the second message.
  One restart.
- Memory.  Two consoles, one thread and three turns: one of each console, and
  one more after they collided.  One clock tick separates equal from different
  timestamps, which order messages.
- Checkpoints.  Four checkpoints, two batches of writes for one of them, two
  writes in a batch: a chain with a middle, a batch that overwrites a longer one.
- Login.  Two logins, two processes, one stray request to the port.
- Authorize.  Two tabs in two browsers, two providers, one client, two
  authentications; lifetimes of two ticks, of one for the nonce, so that each
  can lapse before the other.  Tab `i1` begins first and in `w1`; a rollout goes
  only from the first provider to the second; registrations fail only in the
  part that is about them.
- Optimizer.  Chats of a few messages with every shape of tool round, budgets
  that hold some of them and not all, and one message that no budget holds.
- Search.  Two repositories, an artifact in and out of scope, caps of nothing,
  less and more than the hard ceiling.
- Drive.  Two processes, three calls, one foreign edit, zones behind, at and
  ahead of UTC.  The documents part leaves the clock alone, the tokens part only
  reads.

The theorems of section 4 hold for any number of slots, clients, runs, plans,
sessions, grants, requests, limits, messages, tabs, logins, writers, consoles,
turns, checkpoints, items, artifacts, texts, documents and edits.

`CHECK_DEADLOCK FALSE` is set for the agent's graph, the console, the proxy and
the two runs of services: runs, requests and deliveries are used up and the
system comes to rest.  The others run with deadlock checking, since a request
can always be refused or time out and an idle client can always be asked again.

**Fairness.**  `console` assumes weak fairness of `Step \/ Return \/ PostResume`
for each run, and nothing else: Streamlit's script runner executes a started
script, and every call in it returns or raises, because the LLM and HTTP clients
have finite timeouts.  Users are never obliged to press anything, and failures
are never obliged to happen.  `client_solo` assumes weak fairness of a running
client's next step: every HTTP call has a timeout of 60 s, the wait for the
browser one of its own.  `proxy` assumes it of each request's handler and
response processor, which Node's event loop runs as their input comes; an
upstream may break off instead of answering.

## 4. Proofs

Each module's theorems are of its whole specification and assume its named
constant assumptions and nothing else; TLC evaluates those in the runs.  The
assumptions say what kind of value a constant is, with three exceptions that
say more and are explained below: `IdsAssumption`, `FiniteAssumption` and
`ChatAssumption`.  Two theorems have the hypothesis of their property:
`RefreshStaysUsable` that requests do not overlap, `OneLoginLasts` that the
machine has one client.

`TokenEndpointProofs`: `TypeCorrect`, `ReplayOnlyAfterLapseHolds`,
`MarkOutlivesRedemptionHolds`, `TokensTraceToAuthorizationHolds`,
`RefreshStaysUsable`. None of the properties is inductive. The strengthening is
the conjunction of `TokenInv` (jtis are unique and below the mint counter, and
the type of a token fixes whether it expires), `KeyInv` (a key in Redis reaches
at least as far as the first mark on its jti, which in turn reaches no further
than the credential's expiry or a day from now: this is why a second SET never
shortens a mark), `SlotInv` (a request beyond SET has been preceded by a first
mark, and a late one has seen it lapse) and `LineageInv` (a request is for the
namespace of its credential, and beyond the checks for its provider and client).
`RefreshStaysUsable` is the action property `RefreshAnswerUsable` for one slot
(`OneSlot`); where requests overlap, one of two refreshes may use up what the
other is about to hand out. Its `SecretsInv` says that beyond the upstream's
answer a request holds a secret the provider honours.

`AgentConsoleProofs`, the graph: `GraphTypeCorrect`, `ExecutedOnlyApprovedHolds`,
`RecordsAreComplete`, and the refinement `GraphIsAGate`.  `GateInv` says that a
run at "approval" or "execute" has a payload, and that a run at "execute" has
the approval of that payload in its trail.  Plan and settings of a run do not
change once it waits, and a trail only grows, so what vouches for an execution
goes on vouching for it.  That the payload exists is `LastPosition`, by
well-founded minimum.  `Recorded` and `Tells` tie the trail to the record that
is made of it; with them each node maps to one step of the gate, or none.

`AgentConsoleProofs`, the console: `ConsoleTypeCorrect`, `ButtonsMatch`,
`CompletedWasExecuted`, `TotalsMixAcrossSessions`.  `ButtonsMatch` is about the
process that is running: it says which checkpoints may await an approval without
a button, those of runs the process has let go of, and a restart makes such
ones: that these runs survive it, as the repository's README has it, is not
proved and not so (section 6).  The invariant `ConsoleInv` says where a run can
be: `PlaceInv` that it belongs to one session, that a pending approval is of a
run that waits, and that a session runs one script at a time; `UsageInv` that the buffer holds calls of runs that have started, and while
a run starts, of its own session's runs only its own; `GraphInv`, `TellInv` and
`AnsweredInv` carry the graph's part through the console's steps.

The promises of the graph hold of the console around it: `ConsoleExecutesApproved`,
`ConsoleRecordsAreComplete`, `ConsoleIsAGate`.  Every step of the console is a
step of the graph or leaves it alone (`ConsoleMovesGraph`), but for `Restart`,
which takes every run that has not ended and every trail at once.  At the gate
that is `Vanish` of a set of runs (`RestartLosesRuns`); records outlive it,
because a run is recorded only when it ends (`Recorded`).

`GatewayClientProofs`, the client (with `BoundAssumption`): `TypeCorrect`,
`CacheStaysUsable`, `ToolsRunOnce`, `OneLoginLasts`.  `CacheNotBurnt` is
strengthened by `Minted` (only grants made so far are anywhere) and `InHand`: a
grant that is not in the file yet is held by one client alone, is in nobody's
cache, and is honoured or excused.  So what is written over the file is usable, and a refresh that uses up
the grant in the file is one whose client is about to replace it.  `ToolsRunOnce`
rests on the calls under way: a tool that has run and is to be called again has
answered with an error that reads as a lost session (`misread`), an answer that
was lost is never retried, and a retry is the last.  `OneLoginLasts` is the
action property `LoginLasts` for a machine with one client (`OneClient`): the
newest grant is honoured, and accepted as long as it looks valid, unless
something outside the program took it (`NewestInv`); and it is in the file, or in the client's hand on
the way there (`KeptInv`), so that whatever sends the client to the browser
shows that the grant is gone: lost, or without a refresh token and about to
expire.

`AgentConsoleProofs`, `GatewayClientProofs` and `McpProxyProofs` also prove the
part of the liveness properties that fairness does not give: a measure in the
naturals that each step of the actor takes down and no step of anybody takes
up.  `RunsGoOnward`: a run with a plan has `Left(r)` steps to go, with the rest of
its loop in it (`LoopInv`: the loop stands in the plan or right after it); before
that it is at two nodes it never comes back to.  `EntryPointsEnd`: an entry point
is in one of four rounds (`Rounds`: login or probe, first connection, forced
login, retry), goes through the places of each in one direction (`Ahead`), and
never back to an earlier round, so it is over within 28 steps.
`AnswersDrawNearer`: while its answer is to come, a request's stream only gets
shorter, until its span ends or it breaks off (`ReadInv`: what is read has a
span).  That these steps are enabled, and so taken, stays with TLC.

`McpProxyProofs`: `ProxyTypeCorrect`, `LimitersHold`, `SamplesTell`. `RouteInv`
says that a request at a limiter has a server and a token. `WindowInv` says that
a counter holds requests of its server and key only, `AdmittedInv` that whoever
was admitted in this window is counted in it, within the limit, `BlameInv` that
a refused request and those that used up its limit have one key. `IdsAssumption`
is needed: a user's id is never a client's, since both are keys of one counter
(section 6). `SampleInv` follows a request to its sample, which is the only one
if the span ended well; a stream with a failure before its answer may leave two,
under a span that ended with the failure, and the theorem leaves that open.

`AuthorizeFlowProofs`: `AuthorizeTypeCorrect`, `RegistrationsKeepTheirWord`,
`CodesReachWhoApproved`.  `RegistryInv` and `AuthInv` bound the lapse of a
registration from what was told and refreshed.  For codes, `CookieInv`,
`AskedInv` and `SentInv` say that a state token that left the gateway has an
approval behind it in the same browser, and `TurnInv`, `NonceInv` and
`CalledInv` that of the tabs of one browser the nonce cookie is that of the
latest.

`GatewayClientProofs`, the browser login: `RedirectsReachTheirLogins`, `LoginTypeCorrect`, with
`AbroadInv` (a browser is away only for a login that opened it, and the client
listens first), `CapturedInv` (code and state are captured together, and stay
unless another login replaces them) and `AloneInv` (what the process of a login
that is alone captured is its own).

`AgentServicesProofs`, the Slack bot: `QuestionsAnsweredOnce`, `SlackTypeCorrect`.  The invariant
`BotInv` says which deliveries the memory still knows (`Remembers`,
`Forgotten`), and counts: handlers beyond the listener are as many as were taken
up.  That eviction leaves the newest entries and no more than `SEEN_MAX`
(`NewestBounded`, `EvictedAreOld`) is proved by injections into intervals.

`AgentServicesProofs`, the memory: `MemoryTypes`, `TurnsKept`.  The two parts of
`TurnsAreKept` about lost turns are about a message whose save is over, but what
decides them happens during the save.  `BusyInv` and `PendingInv` tie every
unfinished save to one console; `FoundGone`, `FoundLate` and `AddGone` say that
what `UpsertLookup` saw can be stale at `UpsertWrite` or `add_message` only in a
shared thread, or when a delete has crossed the message (`SharedInv`,
`CrossedInv`).  For the order, `TurnByTurn` (in a thread of one console a turn
is said when the ones before it are saved) and `AheadInv` (no row is ahead of
the clock or the row ids) give `OrderInv`, up to equal Spanner timestamps;
`ScreenHasRows` and `ScreenIsKept` say that a console alone in its thread shows
the rows and nothing else that is over.  The conjunction is `ConversationInv`.

`AgentServicesProofs`, the checkpoints: `CheckpointTypes`, `RunGoesOn`, from
`CheckpointsInv`: the loop is at the latest row (`AtLatest`), a row's parent is
the row right before it (`ParentIsBefore`), so that the chain a resumption walks
skips nothing, and each pending write is of the last batch long enough to reach
its place (`WritesTellBatches`).

`RunTrackingProofs`: `TrackingTypes`, `TablesTold`, `CallsCounted`.  For the
tables, `PlaceInv` (a writer is in its plan, and fails at one of its operations)
and `RowInv` (its rows are those of the operations before its place that append,
and at most of the one at which it failed) are inductive with `ReasonInv`: who is
about to create a table, and who stopped short, had trouble, or met another
creator.  For the calls, `PlacedInv` says that each call that was made is in one
buffer or was taken by one writer, and `LoneInv` that a run beside no other owns
the context and, in the sink's session, has all its calls.
`FiniteAssumption` is needed since the totals on a screen are cardinalities; a
process serves finitely many runs and ratings.

`DataServicesProofs`, the search: `SearchTypes`, `SearchAnswersWhatWasAsked`.
`SearchInv` carries through the stages what was built for which intent
(`BuiltInv`), the arguments the tool was called with (`CalledInv`), that a query
that runs was accepted by the server (`RanInv`), and that as many artifacts come
back as it selects under its limit (`HitsInv`).

`DataServicesProofs`, the safety kit: `SafetyTypes`, `GuardStops`, `ScanFinds`.
`GuardInv` says what was sent at each stage, and lemmas about `analyze` and
`clean` say that a finding that is kept is gone from the text or overlaps an
earlier one; that there is a kept finding at every place one was found is a
least-element argument over finitely many matches.  `ReportInv` says that a
report is one of a scan that was run.

`DataServicesProofs`, Drive: `DriveTypes`, `TextsHeld`, `CredentialsGiven`.
`DriveInv` says what a call under way knows of its document (`Underway`) and
that an entry of the token cache is as old as its token, moved by the server's
zone (`CacheInv`); `EmptyInv` lists who can be the reason that a document lacks
the text it was created with, and `ExcuseLasts` that such a reason stays.

`DataServicesProofs`, the optimizer: `OptimizerTypes`, `ConversationWhole`.
`OptInv` says that the items between two layers are versions of the messages in
their order (`InOrderOf`), at most one version of each that calls or answers
(`ListOK`), that the pinned ones are there uncut (`PinnedIn`), and that while
nothing was pruned every single call that came in is told with its answer
(`Told`).  A layer may break the last two conjuncts of wholeness before the
pipeline repairs it; that the repairs restore them is proved layer by layer.
`ChatAssumption` says that conversations come in rounds, a message with calls
followed by the messages that answer it, where calls or answers may be missing:
this is what the adapters are given by an agent's loop, and `InRounds` fails for
no chat of the run.

`DataServicesProofs`, the budget: `BudgetHeld`.  `OverBudgetForAReason` compares
sums of tokens.  They are sums over sets of indexes (`TokensAt`), so what is
needed of them is that they grow with the set and do not grow along an injection
to items of the same size, each by a smallest
counterexample among finite sets (`SmallestSet`); that the recursive functions
behind the sum and behind `TokenBudgetSelector` exist is proved the same way
(`AddsExists`, `StepsExist`).  What the two selections choose is within the budget or pinned
(`TokenBudgetSelector`: of each prefix of the order by score, since what is
pinned comes first; `SlidingWindowSelector`: at the count where it stops).
`LayerBudget` carries that to the end: the pairs' partners that `Expanded` adds
are not `Unpaired`, the repairs bring back pinned items and halves of pairs
only, and the cleanup leaves no half of a pair, so every unpaired item that goes
out is one the selection chose, each from its own place.  `BudgetInv` is the
statement for the items after a selection, which is the last layer of every
preset.  The attempt at a proof corrected the property: it had no case for a
window that is down to one item, which `SlidingWindowSelector` keeps however
long it is (`selection.py:135`), and no chat of the run was that short.

Only model-checked:

- Liveness (`AnswerEndsSpan`, `PromptReturns`, `EntryPointsReturn`), which is out
  of the prover's reach, but for the measures above.

`ServicesTypeOK` and `DataTypeOK` are the conjunctions of the parts' type
invariants, which are proved one by one.

## 5. Abstractions

- Encryption: a client presents tokens the gateway minted and no others.
  Key rotation and malformed tokens end in the same refusals and are left out.
- Client authentication is over when `Present` is taken; what it contributes is
  the client and its grant types.  Its own steps are in `AuthorizeFlow`.
- Time is a counter shared by replicas and Redis.
- A provider may rotate a refresh token or keep it, consumes codes, and may
  grant and then lose its answer.
- A plan is any member of `Plans`; an action is its tool and the repositories
  `plan_node` derives for it.  Notes and the approval payload are functions of
  plan and settings, computed where they are used.
- `interpret` and `classify`, `evidence` and `policy` are one action each: the
  first of each pair changes nothing but the trail.
- LangGraph's checkpoint and interrupt are taken at their documented semantics:
  an interrupted node runs again from its start when resumed.
- Case folding of replies is left out; every other reply is `edit` or nothing.
- In the console a script runs to its end or, when the user presses something
  meanwhile, is dropped at its next output (`Drop`).
- The client's cache file is one grant, nothing, truncated, or garbled by two
  writers; the last three read as no cache.  Registrations and the rest of the
  record travel with the grant.
- Access tokens age in the order they were made, and the 60 s margin outlasts
  the steps from `authenticate` to `initialize`.
- The text of an upstream's error is one bit: whether it has the words
  `_is_recoverable_session_error` looks for.  The error of an upstream with a
  live session may have them or not, whether or not the tool ran.
- In `GatewayClient` the browser login is one step that yields a code or does
  not; the console's `connected` flag is left out.
- A limiter's window is a set that is emptied at any time; the middleware of
  the token endpoint, a library's, is left out.  A JSON answer whose body is
  broken is a message that is no response.  A `tools/call` without an id, or
  with a body that fails to parse later, is not counted at the tool's limit
  here; the code peeks at its name and does count it.
- A row of a table is a number: how much of what a writer has to write is there.
  A BigQuery call succeeds, is refused, or finds what another writer did.
- Thread and message rows hold who said what turn when; their texts are not
  modelled.  The rows are a set, with the order in which the backend reads them
  back.  A backend's transaction is one step.
- A buffer, and what a writer took from it, is a set of calls: each call is made
  once, and the order of rows in a table is left out.
- A message of the optimizer is an item with a size, a role and the calls it
  makes or answers; similarity and scores are inputs.  A selection or a sort is
  an arrangement of the items' positions.  A layer that raises is skipped by
  `Pipeline.run` (`pipeline.py:204-211`); here every layer runs or the whole
  optimizer raises (`OptimizerRaises`).
- A text of the safety kit is the set of matches a scanner finds in it, with the
  places where two overlap; which expression matches what is an input.  The
  agent sends LangChain messages only; the form `object`, which the guard names
  as supported, stands for other callers.
- A document is a sequence of characters, and a text that a call writes is
  empty or one of them.  A request to Docs that fails has not been applied: one
  that was applied and whose answer is lost is left out.  An artifact is its
  repository and the fields an intent asks for.
- Redaction, formatting, answers and charts are left out.

## 6. What the code does that its reader may not expect

Where a comment or a document of the repository says otherwise.  Three of these
are runs that find the violation (`single_use`, `denied_read`, `merged_calls`,
section 3).  For the others the properties of the passing runs are worded so
that the case is allowed by name, and nothing beyond it:

- Any `MCPError` whose text holds `401` or "session not found" is retried
  (`mcp_client.py:480-482`), also the error of a tool that ran, with a good token
  and a live session; the comment on that branch has "Session or token went stale
  mid-run" (`493`).  `RunsOnce` allows the tool two runs then, and only then.
- "An interrupted run awaiting approval survives a restart"
  (`Agents/jfrog-agent/README.md:203-204`, `spanner_checkpointer.py:4-5`).  Its
  checkpoint does; the pending approval is in `st.session_state` (`command.py:265`),
  and nothing looks for interrupted runs afterwards.  In `AgentConsole` such a
  run stays in `awaiting` after `Restart`, and no session can press its buttons:
  `ButtonsMatchWaitingRuns` allows it as one the process has let go of.
- The validated query is to "enforce scope/caps" (`tools/artifactory.py:63-65`,
  `aql.py:16-21`, the README's "Safety model").  What is sent is a name and the
  first repository (`artifactory.py:80-88`): an intent that names no repository,
  which the authorizer lets through (`security.py:53`), is bounded by the server's
  scope alone, and every intent by the server's cap alone.
  `SearchIsWhatWasAsked` promises the server's bounds only.
- "If on, PII at high severity also blocks" (`input_guard/policy.py:8` of the kit).
  With redaction off no personal data is looked for (`guard.py:115`), so nothing
  blocks; `BlockedIffTooSevere` asks for both switches.
- "So the LLM never sees raw values" (`cleaner.py:2`).  Of two overlapping
  findings the tail of the second stays (`cleaner.py:65`): with a blocking
  severity above 90, `bob@host.example.com/keys/id_rsa` becomes
  `[REDACTED_EMAIL]/keys/id_rsa`.  `OnlyTailsReachTheModel` allows such tails.
- "Any object with `.content`" is supported and its "content is cleaned"
  (`guard.py:10`, `232`).  One without `model_copy` is returned as it came
  (`guard.py:221-224`), which `OnlyTailsReachTheModel` says of such a message.
- "Append text to the end" (`gdrive/server.py:403`).  It is the end as it was read
  one request earlier (`413-421`): what another call or an editor adds in between
  ends up after the appended text, and the caller is told of no error.
  `AppendedAtTheEnd` allows it where the document has grown since the read.

Gateway:

- A refresh token, which never expires, is accepted again once its mark has
  lapsed after a day (`token.ts:73`, `288-292`); `ReplayOnlyAfterLapse` says
  "only then".
- PEXPIRE on a registration that lapsed while its secret was compared still
  answers success (`dcr.ts:200`), so that use is the last.
- A consent page rendered before a rollout and approved after it records consent
  for the new provider, and the consent cookie carries no scopes
  (`oauth.ts:122-127`, `214-232`).
- A user and a client of equal id would share a counter
  (`rate-limiting.ts:51`).
- A message of the stream that is no response ends the request's span with an
  error (`HandleMessage`), and a request refused for its body counts as neither
  rejection nor sample (`WrapRequest`).

Agent:

- A run that waits for approval and is replaced or dropped by its session leaves
  no audit record (`Lose` in `AgentConsole`), though `audit_log.py:3` says that
  every run appends one.
- The usage buffer is one for the process: the totals shown for a run hold calls
  of runs in other sessions (`telemetry.py:29`, `38`), and the sink that flushes
  is the one of the session that came last (`ui/state.py:150`).
- An interrupted run is flushed to the tracking backend once, as an error.
- A transient failure of `get_table` is taken for a missing table, and the
  creation that follows ends in a conflict.
- After a 401, `_reconnect` takes an unexpired cached token again, also the one
  that was rejected (`Reuse`), and `connect` answers any `AuthError` with a
  second browser login (`RaiseAuth`).
- Of an intent's repositories only the first is searched, and its other filters
  are not sent (`tools/artifactory.py:80-88`): of that repository more comes back
  than the validated query selects, and less only for the limits and the scopes
  of the server and its caller (`NothingIsMissed`).
- The console's totals are over at most 5000 rows, and its thumbs are zero after
  any exception of their query (`bq_backend.py:134`, `168-171`).
- A provider that gives no refresh token sends its user back to the browser each
  time the access token runs out (`mcp_client.py:279-280`, `349`), beside the
  docstring's "at most once" (`authenticate`).
- A summary may come to stand between a call and its answer, the hybrid strategy
  is the aggressive preset (`context_optimizer/__init__.py:239-240`), content
  that is a list is put back in full whatever was cut from it, and a recency
  window of 0 keeps everything.
- The demo client opens the browser before it listens on its port.

Beside them:

- An ad hoc scan of a disabled table scans it with all its string columns
  (`scanner.py:92-93`).
- The Drive server stores the timestamp of a naive UTC time
  (`server.py:168`): in a zone behind UTC a cached token is used after it
  expired.

## 7. Not modelled

- Configuration, well-known documents, the home page, monitoring and
  dashboards, charts: parsing, rendering or generated files, without state.
- The GitHub server, the listing and metadata tools of the other two: single
  requests that are passed on.
- The cache of client metadata documents and Google's ID tokens
  (`client-handlers/`), the in-memory store, key rotation and introspection.
- Access tokens after a rollout: the token endpoint compares provider and scopes
  with the server's current ones, the proxy does not (`routes/mcp.ts:84`), and
  nothing in the repository says which is meant, so no property does either.
- `jfrog_agent.ask`, which the Slack bot imports and the repository does not
  contain, is a call that returns or raises.

## 8. What is left

1. `MetadataCache`: concurrent misses of the client metadata cache and its
   expiry (`client-handlers/cimd.ts:303`).
2. The two seams of section 2 as refinements: `BrowserLogin` of `GatewayClient`'s
   `Authorize`, `AuthorizeFlow` of `TokenEndpoint`'s `Callback`.
