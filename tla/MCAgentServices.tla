-------------------------- MODULE MCAgentServices --------------------------
(* What surrounds the agent, down to the gateway's way to the code its login *)
(* gets, for TLC: one part moves in a behaviour and the others stay at an   *)
(* initial state.                                                           *)
EXTENDS RunTracking, SlackBot, ConversationMemory, Checkpoints, BrowserLogin,
        AuthorizeFlow, TLC

CONSTANTS Parts, r1, r2, f1, f2, b1, x1, s1, m1, m2, p1, g1, i1, i2, w1

VARIABLES
  part,   \* the part that moves
  cast    \* the writers that take part in the tracking

Casts == {{r1, r2}, {r1, f1}, {r1, f1, f2}, {r1, x1}, {r1, b1}}

\* Two runs race over healthy tables and record their calls; with one run, tables
\* may be missing, lack columns or fail, next to a rating, a script or a backfill.
\* Two ratings, more than the console's query reads, are over healthy tables too.
calm == cast = {r1, r2}
thumbs == cast = {r1, f1, f2}

MCTrackingInit ==
  /\ cast \in Casts
  /\ TrackingInit
  /\ \/ there = Tables /\ \A t \in Tables : lacks[t] = {}
     \/ /\ ~calm /\ ~thumbs /\ backend = "bigquery" /\ there = Tables
        /\ \A t \in Tables : lacks[t] = IF t = "detail" THEN {"skill", "nested"} ELSE {}
     \/ /\ ~calm /\ ~thumbs /\ backend = "bigquery"
        /\ there = Tables \ {"scores"} /\ \A t \in Tables : lacks[t] = {}

MCTrackingNext ==
  /\ TrackingNext
  /\ \A w \in Writers \ cast : pos'[w] = 0 /\ (w \in Runs => life'[w] = "new") /\ rating'[w] = 0
  /\ thumbs => trouble' = {} /\ \A w \in Writers : call'[w] # "load"
  /\ IF calm
       THEN trouble' = {} /\ \A w \in Writers : call'[w] # "load" /\ ~findings'[w]
       ELSE /\ \A w \in Runs \cup Backfills : pos'[w] > 0 => findings'[w] /\ status'[w] = "complete"
            /\ \A r \in Runs : made'[r] = 0 /\ session'[r] \in {s1, NoSession}

\* The tabs are alike, and so are the browsers: the first to begin is i1, in w1.  The
\* rollout leads from one provider to the other, and registrations that fail are left
\* to the clients' part.
MCAuthorizeNext ==
  /\ AuthorizeNext /\ UNCHANGED authVars
  /\ server' # server => server.provider = g1
  /\ \A c \in RegClients : told'[c] >= told[c]
  /\ tab[i1] = "new" => tab'[i2] = "new"
  /\ tab'[i1] # "new" => asked'[i1].browser = w1

Moves(p, next, others) == part = p /\ next /\ UNCHANGED <<part, cast, others>>

MCInit ==
  /\ part \in Parts
  /\ MCTrackingInit
  /\ part # "tracking" => calm /\ backend = "bigquery"
  /\ SlackInit /\ postKind[m2] = "mention" /\ (part # "slack" => postKind[m1] = "mention")
  /\ MemoryInit /\ (part # "memory" => memBackend = "spanner")
  /\ CheckpointsInit
  /\ LoginInit
  /\ part # "login" => /\ \A l \in Logins : loginKind[l] = "client"
                       /\ reusePort /\ \A l \in Logins : process[l] = p1
  /\ AuthorizeInit /\ server.provider = g1 /\ (part # "clients" => sliding)

sideVars == <<trackingVars, slackVars, memoryVars, checkpointVars, loginVars>>

MCNext ==
  \/ Moves("tracking", MCTrackingNext, <<slackVars, memoryVars, checkpointVars, loginVars, flowVars>>)
  \/ Moves("slack", SlackNext, <<trackingVars, memoryVars, checkpointVars, loginVars, flowVars>>)
  \/ Moves("memory", MemoryNext, <<trackingVars, slackVars, checkpointVars, loginVars, flowVars>>)
  \/ Moves("checkpoints", CheckpointsNext, <<trackingVars, slackVars, memoryVars, loginVars, flowVars>>)
  \/ Moves("login", LoginNext, <<trackingVars, slackVars, memoryVars, checkpointVars, flowVars>>)
  \/ Moves("authorize", MCAuthorizeNext, sideVars)
  \/ Moves("clients", AuthorizeNext /\ UNCHANGED <<tabVars, server>>, sideVars)

MCVars == <<part, cast, sideVars, flowVars>>

MCSpec == MCInit /\ [][MCNext]_MCVars

\* What each part's variables may hold: the writers' positions in the tables, the
\* bot's deliveries, threads and messages, checkpoints, the stages of a login, and the
\* gateway's registrations and cookies.
ServicesTypeOK ==
  /\ TrackingTypeOK
  /\ SlackTypeOK
  /\ MemoryTypeOK
  /\ CheckpointsTypeOK
  /\ LoginTypeOK
  /\ AuthorizeTypeOK

ConsoleSymmetry == Permutations(Consoles)

=============================================================================
