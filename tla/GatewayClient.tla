---------------------------- MODULE GatewayClient ----------------------------
(***************************************************************************)
(* GatewayMCPClient (Agents/jfrog-agent/jfrog_agent/mcp_client.py): the     *)
(* agent's OAuth and MCP client, driven by the console (ui/state.py), by    *)
(* run.py, or both.  All clients of a machine share one token cache file,   *)
(* and the gateway honours each refresh token once (TokenEndpoint), so      *)
(* what a client holds in memory, what is in the file and what the gateway  *)
(* still accepts drift apart at every HTTP call.                            *)
(*                                                                         *)
(* A grant is what one answer of the token endpoint carries: an access      *)
(* token, an expiry and, if the provider gives one, a refresh token.        *)
(* Grants are numbered as minted.                                          *)
(***************************************************************************)
EXTENDS Naturals, FiniteSets

CONSTANTS
  Procs,        \* clients: console sessions and command lines
  Carries,      \* may a login's grant carry a refresh token, and may it come without one
  MaxGrants,    \* bound: grants the gateway makes
  MaxTroubles   \* bound: lost answers, crashes, rotations and lapses

ASSUME BoundAssumption == MaxGrants \in Nat \ {0} /\ MaxTroubles \in Nat

ASSUME ProviderAssumption == Carries \subseteq BOOLEAN

VARIABLES
  (* the gateway and the upstream server *)
  granted,    \* grants made so far
  renewable,  \* grants that carry a refresh token
  honoured,   \* grants whose refresh token the gateway would redeem
  accepted,   \* grants whose access token the gateway accepts
  (* the machine *)
  valid,      \* grants whose expires_at is more than the margin away
  file,       \* the token cache file
  (* each client *)
  op,         \* the entry point that is running
  at,         \* its next step
  ctx,        \* why it authenticates
  cache,      \* the grant authenticate() read from the file
  got,        \* the grant the gateway answered, until it is in the file
  ran,        \* how often call_tool ran its tool before the retry (history)
  misread,    \* clients that took their tool's own error for a lost session (history)
  token,      \* self._token
  session,    \* self._session_id, and whether the upstream knows it
  initialized,\* self._initialized
  (* history *)
  excused,    \* grants lost to an outage, a crash or an operator
  troubles    \* how often something went wrong outside the program

gatewayVars == <<granted, renewable, honoured, accepted, valid>>
callVars == <<ran, misread>>
controlVars == <<op, at, ctx, cache, got, callVars>>
mcpVars == <<token, session, initialized>>
historyVars == <<excused, troubles>>
vars == <<gatewayVars, file, controlVars, mcpVars, historyVars>>

-----------------------------------------------------------------------------

Grants == 1..MaxGrants

NoGrant == 0

Torn == MaxGrants + 1      \* a file that was truncated and not yet written

Garbled == MaxGrants + 2   \* a file with the text of two writers

Entries == {"try_connect", "ensure_client_connected", "do_login", "call_tool"}

Ops == {"none", "connect", "call"}   \* what the entry point is for

Steps == {"idle", "load", "refresh", "browser", "save", "write", "open", "call"}

Contexts == {"probe", "first", "login", "forced", "retry"}

Sessions == {"none", "live", "dead"}

TypeOK ==
  /\ granted \in 0..MaxGrants
  /\ renewable \subseteq Grants
  /\ honoured \subseteq renewable
  /\ accepted \subseteq Grants
  /\ valid \subseteq Grants
  /\ file \in 0..Garbled
  /\ op \in [Procs -> Ops]
  /\ at \in [Procs -> Steps]
  /\ ctx \in [Procs -> Contexts]
  /\ cache \in [Procs -> 0..MaxGrants]
  /\ got \in [Procs -> 0..MaxGrants]
  /\ token \in [Procs -> 0..MaxGrants]
  /\ session \in [Procs -> Sessions]
  /\ initialized \in [Procs -> BOOLEAN]
  /\ ran \in [Procs -> 0..1]
  /\ misread \subseteq Procs
  /\ excused \subseteq Grants
  /\ troubles \in 0..MaxTroubles

Init ==
  /\ granted = 0
  /\ renewable = {}
  /\ honoured = {}
  /\ accepted = {}
  /\ valid = {}
  /\ file = NoGrant
  /\ op = [p \in Procs |-> "none"]
  /\ at = [p \in Procs |-> "idle"]
  /\ ctx = [p \in Procs |-> "first"]
  /\ cache = [p \in Procs |-> NoGrant]
  /\ got = [p \in Procs |-> NoGrant]
  /\ token = [p \in Procs |-> NoGrant]
  /\ session = [p \in Procs |-> "none"]
  /\ initialized = [p \in Procs |-> FALSE]
  /\ ran = [p \in Procs |-> 0]
  /\ misread = {}
  /\ excused = {}
  /\ troubles = 0

-----------------------------------------------------------------------------
(* What the steps share.                                                   *)

Set(f, p, v) == [f EXCEPT ![p] = v]

Trouble == troubles < MaxTroubles /\ troubles' = troubles + 1

\* What json.loads makes of the file: an unreadable cache counts as none.
LoadCache == IF file \in Grants THEN file ELSE NoGrant

(* The entry point returns or raises.                                      *)
Finish(p) ==
  /\ op' = Set(op, p, "none")
  /\ at' = Set(at, p, "idle")
  /\ ctx' = Set(ctx, p, "first")
  /\ cache' = Set(cache, p, NoGrant)
  /\ got' = Set(got, p, NoGrant)
  /\ ran' = Set(ran, p, 0)
  /\ misread' = misread \ {p}

Goto(p, step, why) ==
  /\ at' = Set(at, p, step)
  /\ ctx' = Set(ctx, p, why)
  /\ UNCHANGED <<op, cache, got, callVars>>

(* An AuthError: connect() answers the first one with a forced login, and   *)
(* nothing answers any other.                                              *)
RaiseAuth(p) ==
  IF ctx[p] = "first"
  THEN Goto(p, "browser", "forced")
  ELSE Finish(p)

(* authenticate() or has_valid_token() succeeds.  do_login and try_connect  *)
(* go on to connect(), which authenticates by itself.                      *)
Authenticated(p) ==
  IF ctx[p] \in {"login", "probe"}
  THEN Goto(p, "load", "first")
  ELSE Goto(p, "open", ctx[p])

(* The token endpoint makes a new grant, which nothing has aged yet and     *)
(* which may carry a refresh token.                                        *)
Grant(old, carries) ==
  /\ granted < MaxGrants
  /\ granted' = granted + 1
  /\ renewable' = renewable \cup {g \in {granted'} : carries}
  /\ honoured' = (honoured \ old) \cup {g \in {granted'} : carries}
  /\ accepted' = accepted \cup {granted'}
  /\ valid' = valid \cup {granted'}

-----------------------------------------------------------------------------
(* The entry points: try_connect, ensure_client_connected, do_login and     *)
(* call_tool, one at a time for each client.                               *)

Start(p, e) ==
  /\ op[p] = "none"
  /\ op' = Set(op, p, IF e = "call_tool" THEN "call" ELSE "connect")
  /\ at' = Set(at, p, CASE e = "do_login" -> "browser"
                        [] e = "call_tool" /\ initialized[p] -> "call"
                        [] OTHER -> "load")
  /\ ctx' = Set(ctx, p, CASE e = "do_login" -> "login"
                          [] e = "try_connect" -> "probe"
                          [] OTHER -> "first")
  /\ UNCHANGED <<gatewayVars, file, cache, got, callVars, mcpVars, historyVars>>

(* get_client() after a change of settings: a new client for the session.   *)
Replace(p) ==
  /\ op[p] = "none"
  /\ token' = Set(token, p, NoGrant)
  /\ session' = Set(session, p, "none")
  /\ initialized' = Set(initialized, p, FALSE)
  /\ UNCHANGED <<gatewayVars, file, controlVars, historyVars>>

-----------------------------------------------------------------------------
(* authenticate() without force, and has_valid_token().                    *)

CacheUnchecked(g) == g \in Grants   \* mutant: the expiry is not looked at

CacheValid(g) == g \in valid

Reuse(p) ==
  /\ at[p] = "load"
  /\ CacheValid(LoadCache)
  /\ token' = Set(token, p, LoadCache)
  /\ Authenticated(p)
  /\ UNCHANGED <<gatewayVars, file, session, initialized, historyVars>>

LoadForRefresh(p) ==
  /\ at[p] = "load"
  /\ LoadCache \in renewable
  /\ ~ CacheValid(LoadCache)
  /\ cache' = Set(cache, p, LoadCache)
  /\ at' = Set(at, p, "refresh")
  /\ UNCHANGED <<gatewayVars, file, op, ctx, got, callVars, mcpVars, historyVars>>

\* No cache, or one without a refresh token: has_valid_token returns False, authenticate goes on.
LoadNothing(p) ==
  /\ at[p] = "load"
  /\ LoadCache \notin renewable
  /\ ~ CacheValid(LoadCache)
  /\ IF ctx[p] = "probe" THEN Finish(p)
                         ELSE Goto(p, "browser", ctx[p])
  /\ UNCHANGED <<gatewayVars, file, mcpVars, historyVars>>

\* The gateway hands the old refresh token on when the provider gives no new one.
Refresh(p) ==
  /\ at[p] = "refresh"
  /\ cache[p] \in honoured
  /\ Grant({cache[p]}, TRUE)
  /\ got' = Set(got, p, granted')
  /\ at' = Set(at, p, "save")
  /\ UNCHANGED <<file, op, ctx, cache, callVars, mcpVars, historyVars>>

RefreshRefused(p) ==
  /\ at[p] = "refresh"
  /\ cache[p] \notin honoured
  /\ IF ctx[p] = "probe" THEN Finish(p)
                         ELSE Goto(p, "browser", ctx[p])
  /\ UNCHANGED <<gatewayVars, file, mcpVars, historyVars>>

\* The gateway cannot be reached, or its answer to the refresh is lost.
RefreshUnanswered(p) ==
  /\ at[p] = "refresh"
  /\ \/ UNCHANGED <<gatewayVars, excused, troubles>>
     \/ /\ cache[p] \in honoured
        /\ Grant({cache[p]}, TRUE)
        /\ excused' = excused \cup {cache[p], granted'}
        /\ Trouble
  /\ Finish(p)
  /\ UNCHANGED <<file, mcpVars>>

\* _discover answers another status than 200: an AuthError, unless in a probe.
DiscoveryRefused(p) ==
  /\ at[p] = "refresh"
  /\ Trouble
  /\ excused' = excused \cup {granted}
  /\ IF ctx[p] = "probe" THEN Finish(p) ELSE RaiseAuth(p)
  /\ UNCHANGED <<gatewayVars, file, mcpVars>>

-----------------------------------------------------------------------------
(* The browser flow, from discovery to the exchange of the code:            *)
(* registration, the wait for the redirect, the token request.             *)

Authorize(p) ==
  /\ at[p] = "browser"
  /\ \E carries \in Carries : Grant({}, carries)
  /\ got' = Set(got, p, granted')
  /\ at' = Set(at, p, "save")
  /\ UNCHANGED <<file, op, ctx, cache, callVars, mcpVars, historyVars>>

\* Discovery, registration, the wait or the exchange ends in an AuthError.
AuthorizeRefused(p) ==
  /\ at[p] = "browser"
  /\ RaiseAuth(p)
  /\ UNCHANGED <<gatewayVars, file, mcpVars, historyVars>>

AuthorizeUnanswered(p) ==
  /\ at[p] = "browser"
  /\ Finish(p)
  /\ UNCHANGED <<gatewayVars, file, mcpVars, historyVars>>

-----------------------------------------------------------------------------
(* _store_token: the token in memory, then _save_cache, whose write_text    *)
(* truncates the file before it writes.                                    *)

StoreToken(p) ==
  /\ at[p] = "save"
  /\ token' = Set(token, p, got[p])
  /\ file' = Torn
  /\ at' = Set(at, p, "write")
  /\ UNCHANGED <<gatewayVars, op, ctx, cache, got, callVars, session, initialized,
                 historyVars>>

\* mutant: the grant that was refreshed is saved, not the one it was refreshed to
SaveRefreshed(p) ==
  /\ at[p] = "write"
  /\ file' = IF cache[p] = NoGrant THEN got[p] ELSE cache[p]
  /\ Authenticated(p)
  /\ UNCHANGED <<gatewayVars, mcpVars, historyVars>>

\* Writing over what another client wrote since the truncation may leave its tail.
SaveCache(p) ==
  /\ at[p] = "write"
  /\ file' \in {got[p]} \cup (IF file = Torn THEN {} ELSE {Garbled})
  /\ Authenticated(p)
  /\ UNCHANGED <<gatewayVars, mcpVars, historyVars>>

-----------------------------------------------------------------------------
(* _open_session: initialize, then the initialized notification.           *)

Open(p) ==
  /\ at[p] = "open"
  /\ token[p] \in accepted
  /\ session' = Set(session, p, "live")
  /\ initialized' = Set(initialized, p, TRUE)
  /\ IF op[p] = "call" THEN Goto(p, "call", ctx[p]) ELSE Finish(p)
  /\ UNCHANGED <<gatewayVars, file, token, historyVars>>

OpenRefused(p) ==
  /\ at[p] = "open"
  /\ token[p] \notin accepted
  /\ session' = Set(session, p, "none")
  /\ RaiseAuth(p)
  /\ UNCHANGED <<gatewayVars, file, token, initialized, historyVars>>

\* Any other error, before or after the upstream made the session.
OpenFails(p) ==
  /\ at[p] = "open"
  /\ \E s \in {"none", "live"} : session' = Set(session, p, s)
  /\ Finish(p)
  /\ UNCHANGED <<gatewayVars, file, token, initialized, historyVars>>

-----------------------------------------------------------------------------
(* call_tool: tools/call, and once more after a recoverable error.         *)

\* What comes back of a request: the exception _rpc raises, if any, whether its text
\* reads as a lost session, and whether the upstream ran the tool.
Answer(error, reads, runs) == [error |-> error, reads |-> reads, runs |-> runs]

(* A request can time out before or after the upstream took it.  The error  *)
(* of an upstream with a session is the tool's own, after it ran, or that   *)
(* of something that refused to run it, and says what its writer liked.     *)
Answers(p) ==
  {Answer("other", FALSE, FALSE)} \cup
  IF token[p] \notin accepted THEN {Answer("AuthError", FALSE, FALSE)}
  ELSE CASE session[p] = "dead" -> {Answer("MCPError", TRUE, FALSE)}   \* session not found
         [] session[p] = "none" -> {Answer("MCPError", FALSE, FALSE)}  \* missing session
         [] session[p] = "live" ->
              {Answer("none", FALSE, TRUE), Answer("other", FALSE, TRUE)}
                \cup {Answer("MCPError", reads, runs) : reads, runs \in BOOLEAN}

\* mutant: an exception that is neither an AuthError nor an MCPError recovers too
AnyErrorRecovers(a) == a.error # "none"

\* The text of an MCPError is searched for "session not found", "401" and "unauthorized".
IsRecoverableSessionError(a) == a.error = "AuthError" \/ (a.error = "MCPError" /\ a.reads)

(* The request is tried again, after a reconnect.                          *)
Retry(p, a) ==
  /\ at' = Set(at, p, "load")
  /\ ctx' = Set(ctx, p, "retry")
  /\ ran' = Set(ran, p, IF a.runs THEN ran[p] + 1 ELSE ran[p])
  /\ misread' = IF a.runs /\ a.reads THEN misread \cup {p} ELSE misread
  /\ UNCHANGED <<op, cache, got>>

\* mutant: the retry is retried too
CallToolUntilAnswered(p, a) ==
  /\ at[p] = "call"
  /\ a \in Answers(p)
  /\ IF IsRecoverableSessionError(a) THEN Retry(p, a) ELSE Finish(p)
  /\ UNCHANGED <<gatewayVars, file, mcpVars, historyVars>>

CallTool(p, a) ==
  /\ at[p] = "call"
  /\ a \in Answers(p)
  /\ IF IsRecoverableSessionError(a) /\ ctx[p] # "retry"
     THEN Retry(p, a)
     ELSE Finish(p)
  /\ UNCHANGED <<gatewayVars, file, mcpVars, historyVars>>

-----------------------------------------------------------------------------
(* The environment.                                                        *)

(* The process dies, and with it a grant that is not in the file yet.       *)
Crash(p) ==
  /\ op[p] # "none"
  /\ Trouble
  /\ excused' = IF at[p] \in {"save", "write"}
                THEN excused \cup ({cache[p], got[p]} \ {NoGrant}) ELSE excused
  /\ Finish(p)
  /\ token' = Set(token, p, NoGrant)
  /\ session' = Set(session, p, "none")
  /\ initialized' = Set(initialized, p, FALSE)
  /\ UNCHANGED <<gatewayVars, file>>

\* Access tokens live equally long, so they age in the order they were made.
Oldest(g, S) == g \in S /\ \A h \in S : g <= h

EnterMargin(g) ==
  /\ Oldest(g, valid)
  /\ valid' = valid \ {g}
  /\ UNCHANGED <<granted, renewable, honoured, accepted, file, controlVars, mcpVars, historyVars>>

\* The 60 s margin outlasts the steps from authenticate() to initialize.
Expire(g) ==
  /\ Oldest(g, accepted)
  /\ g \notin valid
  /\ \A p \in Procs : /\ at[p] \in {"save", "write"} => got[p] # g
                      /\ at[p] = "open" => token[p] # g
  /\ accepted' = accepted \ {g}
  /\ UNCHANGED <<granted, renewable, honoured, valid, file, controlVars, mcpVars,
                 historyVars>>

\* The gateway comes back with other keys: it accepts nothing it minted.
Rotate ==
  /\ Trouble
  /\ accepted \cup honoured # {}
  /\ accepted' = {}
  /\ honoured' = {}
  /\ excused' = excused \cup honoured \cup (accepted \ renewable)
  /\ UNCHANGED <<granted, renewable, valid, file, controlVars, mcpVars>>

\* The registration of the client or the provider's own token lapses.
Lapse(g) ==
  /\ g \in honoured
  /\ Trouble
  /\ honoured' = honoured \ {g}
  /\ excused' = excused \cup {g}
  /\ UNCHANGED <<granted, renewable, accepted, valid, file, controlVars, mcpVars>>

UpstreamRestarts ==
  /\ \E p \in Procs : session[p] = "live"
  /\ session' = [p \in Procs |-> IF session[p] = "live" THEN "dead" ELSE session[p]]
  /\ UNCHANGED <<gatewayVars, file, controlVars, token, initialized,
                 historyVars>>

-----------------------------------------------------------------------------

\* The steps an entry point takes once it is running.
Proceed(p) ==
  \/ Reuse(p) \/ LoadForRefresh(p) \/ LoadNothing(p)
  \/ Refresh(p) \/ RefreshRefused(p) \/ RefreshUnanswered(p) \/ DiscoveryRefused(p)
  \/ Authorize(p) \/ AuthorizeRefused(p) \/ AuthorizeUnanswered(p)
  \/ StoreToken(p) \/ SaveCache(p)
  \/ Open(p) \/ OpenRefused(p) \/ OpenFails(p)
  \/ \E a \in Answers(p) : CallTool(p, a)

Next ==
  \/ \E p \in Procs :
       \/ \E e \in Entries : Start(p, e)
       \/ Replace(p)
       \/ Proceed(p)
       \/ Crash(p)
  \/ \E g \in Grants : EnterMargin(g) \/ Expire(g) \/ Lapse(g)
  \/ Rotate
  \/ UpstreamRestarts

Spec == Init /\ [][Next]_vars

\* A running entry point keeps going: every wait of the code has a timeout.
FairSpec == Spec /\ \A p \in Procs : WF_vars(Proceed(p))

-----------------------------------------------------------------------------
(* Properties.                                                             *)

(* The refresh token in the cache is one the gateway would redeem, unless   *)
(* its successor is about to be saved, or was lost to an outage, a crash or *)
(* an operator: no order of the clients' refreshes and saves leaves a used  *)
(* refresh token behind (_refresh, _store_token).                          *)
CacheNotBurnt ==
  file \in renewable =>
    \/ file \in honoured \cup excused
    \/ \E p \in Procs : at[p] = "save" /\ cache[p] = file

(* A call of a tool runs it once at most, also when a timeout hides that it *)
(* ran and the session or the token is lost at any moment; and twice, never *)
(* more, if the upstream answered a run with an error whose own text reads  *)
(* as a lost session (call_tool, _is_recoverable_session_error).            *)
RunsOnce ==
  [][\A p \in Procs : \A a \in Answers(p) :
       CallTool(p, a) /\ a.runs => ran[p] = 0 \/ (ran[p] = 1 /\ p \in misread)]_vars

(* The newest grant is gone: lost to an outage, a crash or an operator, or  *)
(* within the margin of its expiry and without a refresh token.            *)
Gone ==
  \/ granted = 0
  \/ granted \in excused
  \/ granted \notin renewable \cup valid

(* One login lasts: a machine with one client goes back to the browser only *)
(* after its newest grant is gone (authenticate, README: "subsequent runs   *)
(* need no browser").                                                      *)
LoginLasts ==
  [][\A p \in Procs : Authorize(p) /\ ctx[p] # "login" => Gone]_vars

(* Every entry point returns or raises: the forced login after a rejected   *)
(* token and the reconnect after a lost session are tried once (connect,    *)
(* call_tool).                                                             *)
EntryPointsReturn == \A p \in Procs : op[p] # "none" ~> op[p] = "none"

=============================================================================
