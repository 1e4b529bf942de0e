--------------------------- MODULE MCDataServices ---------------------------
(* The optimizer, the guard, the Artifactory search and the Drive server for *)
(* TLC: one part moves in a behaviour and the others stay at an initial     *)
(* state.  The Drive server is taken twice: for its documents, and for its  *)
(* tokens, where calls only read and the clock moves.                       *)
EXTENDS ContextOptimizer, ArtifactSearch, SafetyKit, GoogleDrive, TLC

CONSTANTS Parts, s1, s2

VARIABLE part

(***************************************************************************)
(* Conversations: a system prompt, something odd, one or two tool rounds   *)
(* and the prompt; parallel calls in one message; a talk longer than the   *)
(* window; a single prompt larger than the budget.                         *)
(***************************************************************************)
Message(role, text, size) ==
  [role |-> role, text |-> text, size |-> size, blocks |-> FALSE, calls |-> <<>>, resp |-> NoCall]
Asks(ids) == [Message("assistant", "", 0) EXCEPT !.calls = [i \in DOMAIN ids |-> [id |-> ids[i], fn |-> "f"]]]
Tells(id, text, size, blocks) == [Message("tool", text, size) EXCEPT !.resp = id, !.blocks = blocks]
Round(id, text, size) == <<Asks(<<id>>), Tells(id, text, size, FALSE)>>

Openings == {<<Message("system", "sys", n)>> : n \in {1, 4}}
Oddities ==
  {<<>>, <<Asks(<<"c3">>)>>, <<Tells("c3", "x", 1, TRUE)>>,
   <<[Tells("c3", "x", 1, TRUE) EXCEPT !.role = "function"]>>,
   <<Message("assistant", "hi", 1), Message("user", "hi", 1)>>}
Rounds == {Round("c2", "x", 4), Round("c2", "y", 1), <<>>}
Prompts == {<<Message("user", "hi", 4)>>, <<Message("user", FINDINGS, 4)>>, <<Message("user", REQUEST, 1)>>}

MCChats ==
  {o \o p \o Round("c1", "x", 4) \o r \o e : o \in Openings, p \in Oddities, r \in Rounds, e \in Prompts}
  \cup {<<Message("user", "hi", 1), Asks(<<"c1", "c2">>), Tells("c1", x, 1, FALSE), Tells("c2", y, 1, FALSE)>>
           : x, y \in {"x", "y"}}
  \cup {<<Message("system", "sys", 1), Message("user", "a", 3), Message("assistant", "b", 3)>>
           \o Round("c1", "x", 1) \o <<Message("assistant", "d", 1), Message("user", "hi", 1)>>}
  \cup {<<Message("user", "hi", 9)>>}

(***************************************************************************)
(* Artifacts, intents and direct calls.                                    *)
(***************************************************************************)
MCArtifacts ==
  {[repo |-> r, name |-> "x", size |-> s, stale |-> s = 1] : r \in {"a", "b"}, s \in {1, 3}}
  \cup {[repo |-> "a", name |-> "y", size |-> 1, stale |-> TRUE],
        [repo |-> "b", name |-> "manifest.json", size |-> 1, stale |-> FALSE]}
MCPatterns == {None, <<FALSE, "*">>, <<FALSE, "x">>, <<TRUE, "x">>, <<TRUE, "">>}
MCIntents ==
  [domain : {"items", "builds"}, repositories : {<<>>, <<"a">>, <<"b", "a">>},
   name : MCPatterns, docker : BOOLEAN, minSize : {0, 2}, stale : BOOLEAN, limit : {0, 4}]
MCDirect == [name : MCPatterns, repo : {None, "a", "b"}, limit : {None} \cup {0, 1, 9}]

(***************************************************************************)
(* Texts whose matches overlap, stand apart or fail their validator, and   *)
(* snapshots of two registered tables and an unknown one.                  *)
(***************************************************************************)
Match(kind, from, to, valid) == [kind |-> kind, from |-> from, to |-> to, valid |-> valid]
Text(matches) == [matches |-> matches, gaps |-> FALSE, gone |-> {}]
MCSeverity == [key |-> 95, assignment |-> 85, card |-> 95, email |-> 50, ip |-> 30]
MCMatches == {Match("key", 2, 4, TRUE), Match("assignment", 0, 3, TRUE), Match("card", 1, 5, TRUE),
              Match("card", 6, 8, FALSE), Match("email", 0, 2, TRUE)}
MCRequests == {Text(s) : s \in {x \in SUBSET MCMatches : Cardinality(x) <= 2}}
                \cup {[Text({}) EXCEPT !.gaps = TRUE]}
MCEvidence == {Text({}), Text({Match("key", 0, 2, TRUE)}),
               Text({Match("email", 0, 3, TRUE), Match("assignment", 2, 5, TRUE)})}
MCPolicies ==
  {p \in [enabled : BOOLEAN, redactPii : BOOLEAN, blockPii : BOOLEAN, block : {90}, piiBlock : {95}] :
     p.enabled \/ (p.redactPii /\ ~p.blockPii)}
MCRegistered == [jobs |-> [columns |-> {"input", "output"}, enabled |-> TRUE],
                 evals |-> [columns |-> {"input"}, enabled |-> FALSE]]
Value(matches, str) == [text |-> Text(matches), str |-> str]
Row(req, values) == [request |-> req, values |-> values]
MCValues == {Value({Match("email", 0, 2, TRUE)}, TRUE),
             Value({Match("card", 0, 3, FALSE), Match("ip", 4, 6, TRUE)}, TRUE),
             Value({Match("card", 0, 3, TRUE), Match("email", 4, 6, TRUE)}, FALSE)}
MCRows == {Row(q, "input" :> v @@ "other" :> w) : q \in {0, 1}, v \in MCValues, w \in MCValues}
MCSnapshots ==
  {"jobs" :> <<x, Row(2, "output" :> v)>> @@ "evals" :> <<x>> : x \in MCRows, v \in MCValues}
  \cup {"extra" :> <<x>> : x \in MCRows}

(***************************************************************************)
(* One part at a time.                                                     *)
(***************************************************************************)
MCZones == {-2, 0, 2}   \* a process behind UTC, at UTC, ahead of it

LongTalk(c) == Len(c) = 7 /\ c[2].role = "user"
StillCall == [name |-> None, repo |-> None, limit |-> None]

Moves(p, next, others) == part = p /\ next /\ UNCHANGED <<part, others>>

MCInit ==
  /\ part \in Parts
  /\ OptimizerInit
  /\ part # "optimizer" => LongTalk(chat) /\ adapter = "generic" /\ preset = "minimal"
  /\ SearchInit
  /\ part # "search" => /\ searcher = "direct" /\ args = StillCall
                        /\ agentScope = {} /\ serverScope = {} /\ serverCap = 2 /\ credential = "user"
  /\ SafetyInit
  /\ part # "guard" => request = Text({}) /\ kit = "installed" /\ policy.redactPii /\ policy.blockPii
  /\ DriveInit
  /\ CASE part = "documents" -> zone = [s \in Servers |-> 0] /\ mode # "service"
       [] part = "tokens" -> mode = "service" \/ (mode = "secure" /\ ~sharedToken /\ zone = [s \in Servers |-> 0])
       [] OTHER -> mode = "open" /\ sharedToken /\ zone = [s \in Servers |-> 0]

MCNext ==
  \/ Moves("optimizer", OptimizerNext, <<searchVars, safetyVars, driveVars>>)
  \/ Moves("search", SearchNext, <<optimizerVars, safetyVars, driveVars>>)
  \/ Moves("guard", GuardNext, <<report, optimizerVars, searchVars, driveVars>>)
  \/ Moves("scan", ScanTraffic, <<optimizerVars, searchVars, driveVars>>)
  \/ Moves("documents", DriveNext /\ clock' = clock, <<optimizerVars, searchVars, safetyVars>>)
  \/ /\ Moves("tokens", DriveNext /\ edits' = edits, <<optimizerVars, searchVars, safetyVars>>)
     /\ docs' = docs /\ \A s \in Servers : toolCall'[s] # NoDriveCall => toolCall'[s].tool = "get_document"

MCVars == <<part, optimizerVars, searchVars, safetyVars, driveVars>>

MCSpec == MCInit /\ [][MCNext]_MCVars

\* What each part's variables may hold: the optimizer's items, the search's query
\* and answer, the guard's decision and the scan's report, documents and tokens.
DataTypeOK ==
  /\ OptimizerTypeOK
  /\ SearchTypeOK
  /\ SafetyTypeOK
  /\ DriveTypeOK

=============================================================================
