---------------------------- MODULE BrowserLogin ----------------------------
(***************************************************************************)
(* The browser part of a login: a listener on the fixed callback port      *)
(* waits for the gateway's redirect.  Several logins may wait at once, as  *)
(* threads of one agent process or in processes of their own, and share    *)
(* the port and, in one process, the class that captures code and state.   *)
(* The demo script is a login of the same port, written differently.       *)
(***************************************************************************)
EXTENDS Naturals, FiniteSets

CONSTANTS Logins, Processes, NoLogin,
          MaxProbes      \* bound: requests to the port that carry no code

ASSUME LoginAssumption == NoLogin \notin Logins /\ MaxProbes \in Nat

VARIABLES loginKind, \* loginKind[l]: "client" (_browser_authorize) or "demo"
          process,   \* the process l runs in; a demo has its own
          reusePort, \* whether the platform lets two listeners share a port
          pc,        \* where l is
          captured,  \* per process: the [code, state] of _CallbackHandler; a
                     \* code or state is named by the login it belongs to
          event,     \* demos whose _CallbackState.event is set
          abroad,    \* logins whose browser is away: a redirect is to come
          refusedAt, \* history: redirects that found no listener, their login's pc
          code,      \* the code a login went to the token endpoint with
          alien,     \* history: logins whose process got another one's redirect
          swapped,   \* history: those of them whose state had been compared already
          crowded,   \* history: logins that waited beside another one
          probes

loginVars == <<loginKind, process, reusePort, pc, captured, event, abroad, refusedAt, code, alien, swapped, crowded, probes>>
loginSetting == <<loginKind, process, reusePort>>

Nothing == [code |-> NoLogin, state |-> NoLogin]

LoginInit ==
    /\ loginKind \in [Logins -> {"client", "demo"}]
    /\ process \in [Logins -> Processes]
    /\ \A l, k \in Logins : loginKind[l] = "demo" /\ k # l => process[k] # process[l]
    /\ reusePort \in BOOLEAN
    /\ pc = [l \in Logins |-> "new"]
    /\ captured = [p \in Processes |-> Nothing]
    /\ event = {} /\ abroad = {} /\ refusedAt = {} /\ alien = {} /\ swapped = {} /\ crowded = {}
    /\ code = [l \in Logins |-> NoLogin]
    /\ probes = 0

Client(l) == loginKind[l] = "client"
\* The open listeners, and the logins under way.
Listening == {l \in Logins : pc[l] \in {"listen", "wait"}}
UnderWay == {l \in Logins : pc[l] \notin {"new", "failed", "token"}}
Goes(l, there) ==
    /\ pc' = [pc EXCEPT ![l] = there]
    /\ crowded' = IF \E k \in UnderWay \ {l} : TRUE THEN crowded \cup {l} \cup UnderWay ELSE crowded

\* The client clears what the class has captured before it binds.
ClientStarts(l) ==
    /\ Client(l) /\ pc[l] = "new" /\ Goes(l, "bind")
    /\ captured' = [captured EXCEPT ![process[l]] = Nothing]
    /\ UNCHANGED <<loginSetting, event, abroad, refusedAt, code, alien, swapped, probes>>

\* The demo probes the endpoint, reads the metadata and registers itself; it
\* exits when the registration is refused.
DemoRegisters(l) ==
    /\ ~Client(l) /\ pc[l] = "new"
    /\ Goes(l, "registered") \/ Goes(l, "failed")
    /\ UNCHANGED <<loginSetting, captured, event, abroad, refusedAt, code, alien, swapped, probes>>

\* It opens the browser before wait_for_code binds the port.
DemoOpensBrowser(l) ==
    /\ pc[l] = "registered" /\ Goes(l, "bind")
    /\ abroad' = abroad \cup {l}
    /\ UNCHANGED <<loginSetting, captured, event, refusedAt, code, alien, swapped, probes>>

\* The port can be shared only by listeners that all ask for it.
BindPort(l) ==
    /\ pc[l] = "bind"
    /\ IF Listening = {} \/ (reusePort /\ Client(l) /\ \A k \in Listening : Client(k))
       THEN Goes(l, IF Client(l) THEN "listen" ELSE "wait") ELSE Goes(l, "failed")
    /\ UNCHANGED <<loginSetting, captured, event, abroad, refusedAt, code, alien, swapped, probes>>

ClientOpensBrowser(l) ==
    /\ pc[l] = "listen" /\ Goes(l, "wait")
    /\ abroad' = abroad \cup {l}
    /\ UNCHANGED <<loginSetting, captured, event, refusedAt, code, alien, swapped, probes>>

\* do_GET, in the agent: what it has stays when a request has no code.
ClientCaptures(k, c) ==
    /\ captured' = IF c = NoLogin THEN captured
                   ELSE [captured EXCEPT ![process[k]] = [code |-> c, state |-> c]]
    /\ UNCHANGED event
\* do_GET, in the demo: whatever comes is taken and ends the wait.
DemoCaptures(k, c) ==
    /\ captured' = [captured EXCEPT ![process[k]] = [code |-> c, state |-> c]]
    /\ event' = event \cup {k}

\* A request reaches any one of the listeners.
Capture(k, c) ==
    /\ IF Client(k) THEN ClientCaptures(k, c) ELSE DemoCaptures(k, c)
    /\ alien' = IF c = NoLogin THEN alien
                ELSE alien \cup {l \in UnderWay : process[l] = process[k] /\ l # c}
    /\ swapped' = IF c = NoLogin THEN swapped
                  ELSE swapped \cup {l \in Logins : process[l] = process[k] /\ pc[l] = "exchange" /\ l # c}

Redirect(l) ==
    /\ l \in abroad
    /\ abroad' = abroad \ {l}
    /\ \/ \E k \in Listening : Capture(k, l) /\ UNCHANGED refusedAt
       \/ /\ Listening = {} /\ refusedAt' = refusedAt \cup {<<l, pc[l]>>}
          /\ UNCHANGED <<captured, event, alien, swapped>>
    /\ UNCHANGED <<loginSetting, pc, code, crowded, probes>>

\* The user gives up, or the authorization is refused.
NeverReturns(l) ==
    /\ l \in abroad /\ abroad' = abroad \ {l}
    /\ UNCHANGED <<loginSetting, pc, captured, event, refusedAt, code, alien, swapped, crowded, probes>>

ProbePort ==
    /\ probes < MaxProbes /\ probes' = probes + 1
    /\ \E k \in Listening : Capture(k, NoLogin)
    /\ UNCHANGED <<loginSetting, pc, abroad, refusedAt, code, crowded>>

\* The waiting loop ends with a code or at the deadline; the listener closes.
ClientStopsWaiting(l) ==
    /\ Client(l) /\ pc[l] = "wait"
    /\ IF captured[process[l]].code # NoLogin THEN Goes(l, "compare") ELSE Goes(l, "failed")
    /\ UNCHANGED <<loginSetting, captured, event, abroad, refusedAt, code, alien, swapped, probes>>

DemoStopsWaiting(l) ==
    /\ ~Client(l) /\ pc[l] = "wait"
    /\ IF l \in event THEN Goes(l, "compare") ELSE Goes(l, "failed")
    /\ UNCHANGED <<loginSetting, captured, event, abroad, refusedAt, code, alien, swapped, probes>>

\* mutant: the state is not compared
StateIgnored(l) ==
    /\ pc[l] = "compare" /\ Goes(l, "exchange")
    /\ UNCHANGED <<loginSetting, captured, event, abroad, refusedAt, code, alien, swapped, probes>>

CompareState(l) ==
    /\ pc[l] = "compare"
    /\ Goes(l, IF captured[process[l]].state = l THEN "exchange" ELSE "failed")
    /\ UNCHANGED <<loginSetting, captured, event, abroad, refusedAt, code, alien, swapped, probes>>

\* The exchange, with the code the class holds by now and the login's own
\* verifier: the token endpoint compares it with the code's challenge.
ExchangeCode(l) ==
    /\ pc[l] = "exchange"
    /\ code' = [code EXCEPT ![l] = captured[process[l]].code]
    /\ (code'[l] = l /\ Goes(l, "token")) \/ Goes(l, "failed")
    /\ UNCHANGED <<loginSetting, captured, event, abroad, refusedAt, alien, swapped, probes>>

LoginStep(l) ==
    \/ ClientStarts(l) \/ DemoRegisters(l) \/ DemoOpensBrowser(l) \/ BindPort(l)
    \/ ClientOpensBrowser(l) \/ ClientStopsWaiting(l) \/ DemoStopsWaiting(l)
    \/ CompareState(l) \/ ExchangeCode(l)

LoginNext ==
    \/ \E l \in Logins : LoginStep(l) \/ Redirect(l) \/ NeverReturns(l)
    \/ ProbePort

LoginSpec == LoginInit /\ [][LoginNext]_loginVars

\* Types: places, captures and histories keep their shape, and no redirect of a
\* login is refused before its browser is opened.
LoginTypeOK ==
    /\ pc \in [Logins -> {"new", "registered", "bind", "listen", "wait", "compare", "exchange", "token", "failed"}]
    /\ captured \in [Processes -> [code : Logins \cup {NoLogin}, state : Logins \cup {NoLogin}]]
    /\ event \subseteq Logins /\ abroad \subseteq Logins /\ swapped \subseteq alien /\ alien \subseteq Logins
    /\ crowded \subseteq Logins /\ refusedAt \subseteq Logins \X {"bind", "listen", "wait", "compare", "exchange", "token", "failed"}
    /\ code \in [Logins -> Logins \cup {NoLogin}]
    /\ probes \in 0..MaxProbes

\* A login goes to the token endpoint with its own code, unless a redirect of
\* another login reached its process between the comparison of the state and
\* the exchange (mcp_client.py:240-251, 253-276).
CodeIsOwn == \A l \in Logins : code[l] \notin {NoLogin, l} => l \in swapped

\* _browser_authorize binds first (mcp_client.py:212-238):
\* the agent's client never sends the browser away before it listens: its
\* redirect is refused only after it has stopped waiting.
RedirectFindsListener ==
    \A r \in refusedAt : loginKind[r[1]] = "client" => r[2] \in {"compare", "exchange", "token", "failed"}

\* _CallbackHandler keeps what it has (mcp_client.py:61-88, 240-251): a login that
\* was alone from its start to its end, and was sent the
\* redirect, is not told that the state does not match.
LoneLoginMatches ==
    \A l \in Logins : pc[l] = "compare" /\ Client(l) /\ l \notin alien \cup crowded
                      => captured[process[l]] = [code |-> l, state |-> l]

\* mcp_client.py:51-276: logins that share a port or a process are answered with
\* their own code, or fail.
RedirectReachesItsLogin == CodeIsOwn /\ RedirectFindsListener /\ LoneLoginMatches

=============================================================================
