-------------------------- MODULE RunTrackingProofs --------------------------
(***************************************************************************)
(* The tracking tables tell what was written, and no LLM call or rating is *)
(* counted twice, for any finite number of sessions, runs, ratings,        *)
(* backfills and scripts, any schema of the tables at first and anything   *)
(* BigQuery refuses.                                                       *)
(***************************************************************************)
EXTENDS RunTracking, SequenceTheorems, FiniteSetTheorems, TLAPS

(***************************************************************************)
(* The plans                                                               *)
(***************************************************************************)
\* A plan is a sequence of operations; the tables it appends to, and whether it
\* appends to each of them once.
Ops == [op : {"ensure", "append"}, table : Tables]
Appended(p) == {p[i].table : i \in {j \in 1..Len(p) : p[j].op = "append"}}
Once(p) == \A i, j \in 1..Len(p) :
             p[i].op = "append" /\ p[j].op = "append" /\ p[i].table = p[j].table => i = j

WritesOnly(p, n, S) == p \in Seq(Ops) /\ Len(p) = n /\ Once(p) /\ Appended(p) = S

\* Two pieces of a plan that append to different tables make one that appends
\* to the tables of both, to each once.
LEMMA Joined ==
  ASSUME NEW u \in Seq(Ops), NEW v \in Seq(Ops), Once(u), Once(v),
         Appended(u) \cap Appended(v) = {}
  PROVE  /\ u \o v \in Seq(Ops) /\ Len(u \o v) = Len(u) + Len(v)
         /\ Once(u \o v) /\ Appended(u \o v) = Appended(u) \cup Appended(v)
  <1> DEFINE p == u \o v
  <1>1. /\ p \in Seq(Ops) /\ Len(p) = Len(u) + Len(v) /\ Len(u) \in Nat /\ Len(v) \in Nat
        /\ \A i \in 1..Len(p) : p[i] = IF i <= Len(u) THEN u[i] ELSE v[i - Len(u)]
    BY ConcatProperties
  <1>2. ASSUME NEW i \in 1..Len(p), p[i].op = "append"
        PROVE  \/ i \in 1..Len(u) /\ p[i].table \in Appended(u) /\ p[i] = u[i]
               \/ i - Len(u) \in 1..Len(v) /\ p[i].table \in Appended(v) /\ p[i] = v[i - Len(u)]
    BY <1>1, <1>2 DEF Appended
  <1>3. ASSUME NEW i \in 1..Len(p), NEW j \in 1..Len(p), p[i].op = "append", p[j].op = "append",
               p[i].table = p[j].table
        PROVE  i = j
    <2>1. CASE i \in 1..Len(u) /\ p[i].table \in Appended(u) /\ p[i] = u[i]
      <3>1. j \in 1..Len(u) /\ p[j] = u[j]
        BY <1>2, <1>3, <2>1
      <3> QED
        BY <1>3, <2>1, <3>1 DEF Once
    <2>2. CASE i - Len(u) \in 1..Len(v) /\ p[i].table \in Appended(v) /\ p[i] = v[i - Len(u)]
      <3>1. j - Len(u) \in 1..Len(v) /\ p[j] = v[j - Len(u)]
        BY <1>2, <1>3, <2>2
      <3>2. i - Len(u) = j - Len(u)
        BY <1>3, <2>2, <3>1 DEF Once
      <3> QED
        BY <1>1, <3>2
    <2> QED
      BY <1>2, <1>3, <2>1, <2>2
  <1>4. Appended(p) \subseteq Appended(u) \cup Appended(v)
    BY <1>2 DEF Appended
  <1>5. ASSUME NEW i \in 1..Len(u), u[i].op = "append" PROVE u[i].table \in Appended(p)
    BY <1>1, <1>5 DEF Appended
  <1>6. ASSUME NEW i \in 1..Len(v), v[i].op = "append" PROVE v[i].table \in Appended(p)
    <2>1. i + Len(u) \in 1..Len(p) /\ p[i + Len(u)] = v[i]
      BY <1>1
    <2> QED
      BY <2>1, <1>6 DEF Appended
  <1>7. Appended(u) \subseteq Appended(p) /\ Appended(v) \subseteq Appended(p)
    BY <1>5, <1>6 DEF Appended
  <1>8. Once(p)
    BY <1>3 DEF Once
  <1> QED
    BY <1>1, <1>4, <1>7, <1>8

\* The same for pieces whose lengths and tables are known.
LEMMA Longer ==
  ASSUME NEW u, NEW v, NEW m, NEW n, NEW S, NEW T,
         WritesOnly(u, m, S), WritesOnly(v, n, T), S \cap T = {}
  PROVE  WritesOnly(u \o v, m + n, S \cup T)
  <1>1. u \in Seq(Ops) /\ v \in Seq(Ops) /\ Once(u) /\ Once(v) /\ Appended(u) \cap Appended(v) = {}
    BY DEF WritesOnly
  <1>2. /\ u \o v \in Seq(Ops) /\ Len(u \o v) = Len(u) + Len(v) /\ Once(u \o v)
        /\ Appended(u \o v) = Appended(u) \cup Appended(v)
    BY <1>1, Joined
  <1> QED
    BY <1>2 DEF WritesOnly

\* A table is ensured, and then appended to.
LEMMA Two ==
  ASSUME NEW t \in Tables
  PROVE  /\ <<Ensure(t), Append1(t)>> \in Seq(Ops) /\ Len(<<Ensure(t), Append1(t)>>) = 2
         /\ Once(<<Ensure(t), Append1(t)>>) /\ Appended(<<Ensure(t), Append1(t)>>) = {t}
  <1>1. Ensure(t) \in Ops /\ Append1(t) \in Ops /\ Ensure(t).op = "ensure" /\ Append1(t).op = "append" /\ Append1(t).table = t
    BY DEF Ensure, Append1, Ops
  <1> HIDE DEF Ensure, Append1
  <1> QED
    BY <1>1 DEF Once, Appended

\* The two last tables (_write_trajectory_and_tool_invocations).
LEMMA TrajectoryPlan ==
  ASSUME NEW w
  PROVE LET p == _write_trajectory_and_tool_invocations(w) IN
        /\ p \in Seq(Ops) /\ Len(p) \in 2..4 /\ Once(p) /\ Appended(p) \subseteq {"trajectory", "tools"}
  <1> DEFINE a == Ensure("trajectory")
             b == Ensure("tools")
             c == Append1("trajectory")
             d == Append1("tools")
  <1>1. /\ {a, b, c, d} \subseteq Ops /\ a.op = "ensure" /\ b.op = "ensure" /\ c.op = "append" /\ d.op = "append"
        /\ c.table = "trajectory" /\ d.table = "tools"
    BY DEF Ensure, Append1, Ops, Tables
  <1> HIDE DEF a, b, c, d
  <1>2. <<a, b>> \in Seq(Ops) /\ Once(<<a, b>>) /\ Appended(<<a, b>>) = {} /\ Len(<<a, b>>) = 2
    BY <1>1 DEF Once, Appended
  <1>3. /\ <<c, d>> \in Seq(Ops) /\ Once(<<c, d>>) /\ Appended(<<c, d>>) = {"trajectory", "tools"}
        /\ Len(<<c, d>>) = 2
    BY <1>1 DEF Once, Appended
  <1>4. <<>> \in Seq(Ops) /\ Once(<<>>) /\ Appended(<<>>) = {} /\ Len(<<>>) = 0
    BY DEF Once, Appended
  <1>5. CASE findings[w]
    <2>1. _write_trajectory_and_tool_invocations(w) = <<a, b>> \o <<c, d>>
      BY <1>5 DEF _write_trajectory_and_tool_invocations, a, b, c, d
    <2>2. LET p == <<a, b>> \o <<c, d>> IN
          p \in Seq(Ops) /\ Len(p) = 4 /\ Once(p) /\ Appended(p) = {"trajectory", "tools"}
      BY <1>2, <1>3, Joined
    <2> QED
      BY <2>1, <2>2
  <1>6. CASE ~findings[w]
    <2>1. _write_trajectory_and_tool_invocations(w) = <<a, b>> \o <<>>
      BY <1>6 DEF _write_trajectory_and_tool_invocations, a, b
    <2> QED
      BY <2>1, <1>2, <1>4, Joined
  <1> QED
    BY <1>5, <1>6

\* A run's plan: at most twelve operations, no table appended to twice.
LEMMA AgentPlan ==
  ASSUME NEW w
  PROVE  LET p == record_agent_run(w) IN
         p \in Seq(Ops) /\ Len(p) \in 1..12 /\ Once(p)
  <1>1. {"job", "quality", "scores", "detail"} \subseteq Tables
    BY DEF Tables
  <1>2. /\ WritesOnly(insert_row, 2, {"job"})
        /\ WritesOnly(_write_quality_metrics, 2, {"quality"})
        /\ WritesOnly(_write_eval_scores, 2, {"scores"})
        /\ WritesOnly(_write_quality_metrics_detail, 2, {"detail"})
    BY <1>1, Two DEF WritesOnly, insert_row, _write_quality_metrics, _write_eval_scores,
                     _write_quality_metrics_detail
  <1> DEFINE b == insert_row \o _write_quality_metrics
             c == b \o _write_eval_scores
             d == c \o _write_quality_metrics_detail
             e == _write_trajectory_and_tool_invocations(w)
  <1>3. WritesOnly(b, 2 + 2, {"job"} \cup {"quality"})
    BY <1>2, Longer
  <1> HIDE DEF b
  <1>4. WritesOnly(c, 2 + 2 + 2, {"job"} \cup {"quality"} \cup {"scores"})
    BY <1>2, <1>3, Longer
  <1> HIDE DEF c
  <1>5. WritesOnly(d, 2 + 2 + 2 + 2, {"job"} \cup {"quality"} \cup {"scores"} \cup {"detail"})
    BY <1>2, <1>4, Longer
  <1> HIDE DEF d
  <1>6. e \in Seq(Ops) /\ Len(e) \in 2..4 /\ Once(e) /\ Appended(e) \subseteq {"trajectory", "tools"}
    BY TrajectoryPlan
  <1> HIDE DEF e
  <1>7. d \o e \in Seq(Ops) /\ Len(d \o e) = Len(d) + Len(e) /\ Once(d \o e)
    BY <1>5, <1>6, Joined DEF WritesOnly
  <1>8. record_agent_run(w) = d \o e
    BY DEF record_agent_run, b, c, d, e
  <1>9. Len(d) = 8 /\ Len(e) \in 2..4
    BY <1>5, <1>6 DEF WritesOnly
  <1>10. Len(d) + Len(e) \in 1..12
    <2>1. \A x, y : x = 8 /\ y \in 2..4 => x + y \in 1..12
      OBVIOUS
    <2> QED
      BY <1>9, <2>1
  <1> QED
    BY <1>7, <1>8, <1>10

\* So is every writer's.
LEMMA Plans ==
  ASSUME NEW w
  PROVE  Plan(w) \in Seq(Ops) /\ Len(Plan(w)) \in 1..12 /\ Once(Plan(w))
  <1> DEFINE r == record_feedback
             s == create_via_python_client
  <1>1. r \in Seq(Ops) /\ Len(r) = 3 /\ Once(r)
    BY DEF record_feedback, Ensure, Append1, Ops, Once, Tables
  <1>2. /\ \A t \in Tables : Ensure(t) \in Ops /\ Ensure(t).op = "ensure"
        /\ {"job", "quality", "scores", "detail", "trajectory", "tools"} \subseteq Tables
    BY DEF Ensure, Ops, Tables
  <1>3. s \in Seq(Ops) /\ Len(s) = 6 /\ Once(s)
    BY <1>2 DEF create_via_python_client, Once
  <1> QED
    BY <1>1, <1>3, AgentPlan DEF Plan

(***************************************************************************)
(* The invariant                                                           *)
(***************************************************************************)
\* Whether a writer's i-th operation appends; the calls made; the places that buffer
\* them.
Stores(w, i) == Plan(w)[i].op = "append"
Made == UNION {CallsOf(r) : r \in Runs}
Bins == Sessions \X (Runs \cup {NoRun})
In(p) == buffer[p[1]][p[2]]

\* A run has a session from its start on, and then the process has a sink and a
\* context.
LifeInv ==
  /\ opened # {} => sink \in opened
  /\ \A r \in Runs :
       /\ life[r] = "new" <=> session[r] = NoSession
       /\ life[r] # "new" => session[r] \in opened /\ ctx \in Runs /\ life[ctx] # "new"
       /\ life[r] = "new" => made[r] = 0 /\ \A s \in Sessions : buffer[s][r] = {}

\* Nothing is taken or written for what has not returned.
StartInv ==
  /\ \A r \in Runs : life[r] \in {"new", "invoked"} =>
                     pos[r] = 0 /\ taken[r] = {} /\ status[r] = "none"
  /\ \A f \in Ratings : rating[f] = 0 => pos[f] = 0
  /\ \A w \in Writers \ Runs : taken[w] = {}

\* A writer is in its plan, and fails at one of its operations.
PlaceInv ==
  \A w \in Writers :
    /\ pos[w] <= Len(Plan(w)) + 1
    /\ w \in failed => pos[w] \in 1..Len(Plan(w))

\* Its rows are those of the operations before its place that append, and of the
\* one at which it failed at most.
RowInv ==
  \A w \in Writers, t \in Tables :
    /\ rows[t][w] \in {0, 1}
    /\ rows[t][w] = 1 => \E i \in 1..Len(Plan(w)) : /\ Stores(w, i) /\ Plan(w)[i].table = t
                                                    /\ i < pos[w] \/ (i = pos[w] /\ w \in failed)
    /\ \A i \in 1..Len(Plan(w)) : i < pos[w] /\ Stores(w, i) /\ Plan(w)[i].table = t => rows[t][w] = 1

\* A table's creator saw it missing; who is about to create one, and who failed, had
\* a reason.
ReasonInv ==
  /\ \A t \in Tables : creator[t] \in Writers => t \in there
  /\ \A w \in Writers : Busy(w) /\ call[w] = "create" =>
        \/ w \in trouble \/ Table(w) \notin there \/ creator[Table(w)] \in Writers \ {w}
  /\ LostOnlyByTroubleOrRace

\* Each call that was made is in one buffer or one row, and nothing else is.
PlacedInv ==
  IF backend = "sqlite" THEN sqlite.calls = Made
  ELSE /\ \A c \in Made : (\E p \in Bins : c \in In(p)) \/ (\E w \in Writers : c \in taken[w])
       /\ \A p \in Bins : \A c \in In(p) : c \in Made
       /\ \A w \in Writers : \A c \in taken[w] : c \in Made
       /\ \A p, q \in Bins : \A c \in In(p) : p # q => c \notin In(q)
       /\ \A p \in Bins, w \in Writers : \A c \in In(p) : c \notin taken[w]
       /\ \A v, w \in Writers : \A c \in taken[v] : v # w => c \notin taken[w]

\* A run beside no other has the context and, in the sink's session, all its calls.
LoneInv ==
  \A r \in Runs : backend = "bigquery" /\ beside[r] = {} =>
    /\ life[r] \in {"invoked", "resumed"} => Running \subseteq {r}
    /\ life[r] = "invoked" => ctx = r /\ (session[r] = sink => buffer[sink][r] = CallsOf(r))
    /\ status[r] = "complete" => life[r] = "over" /\ (session[r] = sink => taken[r] = CallsOf(r))

\* The local feedback table holds the clicks.
ClickInv ==
  backend = "sqlite" => /\ sqlite.up = {f \in Ratings : rating[f] = 1}
                        /\ sqlite.down = {f \in Ratings : rating[f] = -1}
\* The inductive invariant.
TrackingInv == LifeInv /\ StartInv /\ PlaceInv /\ RowInv /\ ReasonInv /\ PlacedInv /\ LoneInv /\ ClickInv

(***************************************************************************)
(* What each step does, value by value                                     *)
(***************************************************************************)
SameRecords == UNCHANGED <<taken, status, rating, findings>>
SameStore == UNCHANGED <<there, lacks, creator, pos, call, failed, trouble, rows>>

\* A run joins the ones that run.
Beside(r) ==
  /\ \A q \in Runs : beside'[q] = {} => beside[q] = {} \/ q = r
  /\ beside'[r] = {} => Running \subseteq {r} /\ (life[r] = "waiting" => beside[r] = {})
  /\ \A q \in Running : q # r => beside'[q] # {}

Started(r, s) ==
  /\ r \in Runs /\ s \in Sessions /\ life[r] = "new"
  /\ opened' = opened \cup {s} /\ sink' = (IF s \in opened THEN sink ELSE s) /\ ctx' = r
  /\ \A q \in Runs : /\ session'[q] = IF q = r THEN s ELSE session[q]
                     /\ life'[q] = IF q = r THEN "invoked" ELSE life[q]
  /\ Beside(r)
  /\ UNCHANGED <<backend, buffer, made, sqlite>> /\ SameRecords /\ SameStore

Resumed(r) ==
  /\ r \in Runs /\ life[r] = "waiting"
  /\ \A q \in Runs : life'[q] = IF q = r THEN "resumed" ELSE life[q]
  /\ Beside(r)
  /\ UNCHANGED <<backend, opened, sink, ctx, buffer, session, made, sqlite>> /\ SameRecords /\ SameStore

Returned(r) ==
  /\ r \in Runs /\ life[r] = "resumed"
  /\ \A q \in Runs : life'[q] = IF q = r THEN "over" ELSE life[q]
  /\ UNCHANGED <<backend, opened, sink, ctx, buffer, session, made, beside, sqlite>>
  /\ SameRecords /\ SameStore

\* A call is made, and is kept in one place.
Called(r) ==
  /\ r \in Running /\ made[r] < MaxCalls
  /\ \A q \in Runs : made'[q] = IF q = r THEN made[r] + 1 ELSE made[q]
  /\ IF backend = "sqlite"
     THEN sqlite' = [sqlite EXCEPT !.calls = @ \cup {<<r, made[r] + 1>>}] /\ UNCHANGED buffer
     ELSE /\ \A p \in Bins : buffer'[p[1]][p[2]] = IF p = <<sink, ctx>>
                                                   THEN buffer[p[1]][p[2]] \cup {<<r, made[r] + 1>>}
                                                   ELSE buffer[p[1]][p[2]]
          /\ UNCHANGED sqlite
  /\ UNCHANGED <<backend, opened, sink, ctx, session, life, beside>> /\ SameRecords /\ SameStore

Begun(w) ==
  /\ \A v \in Writers : /\ pos'[v] = IF v = w THEN 1 ELSE pos[v]
                        /\ call'[v] = IF v = w THEN "get" ELSE call[v]
  /\ UNCHANGED <<there, lacks, creator, failed, trouble, rows>>

\* A run returns: what its session has buffered for it is taken.
Recorded(r) ==
  /\ r \in Runs /\ life[r] = "invoked"
  /\ \A q \in Runs : q # r => life'[q] = life[q]
  /\ life'[r] \in {"waiting", "over"}
  /\ IF backend = "sqlite" THEN UNCHANGED <<buffer, taken, status, findings>> /\ SameStore
     ELSE /\ \A w \in Writers : taken'[w] = IF w = r THEN buffer[session[r]][r] ELSE taken[w]
          /\ \A p \in Bins : buffer'[p[1]][p[2]] = IF p = <<session[r], r>> THEN {} ELSE buffer[p[1]][p[2]]
          /\ \A w \in Writers : w # r => status'[w] = status[w] /\ findings'[w] = findings[w]
          /\ status'[r] = "complete" => life'[r] = "over"
          /\ Begun(r)
  /\ UNCHANGED <<backend, opened, sink, ctx, session, made, beside, rating, sqlite>>

Clicked(f, v) ==
  /\ f \in Ratings /\ v \in {-1, 1} /\ rating[f] = 0
  /\ \A w \in Writers : rating'[w] = IF w = f THEN v ELSE rating[w]
  /\ IF backend = "sqlite"
     THEN /\ sqlite'.up = IF v > 0 THEN sqlite.up \cup {f} ELSE sqlite.up
          /\ sqlite'.down = IF v > 0 THEN sqlite.down ELSE sqlite.down \cup {f}
          /\ sqlite'.calls = sqlite.calls /\ SameStore
     ELSE Begun(f) /\ UNCHANGED sqlite
  /\ UNCHANGED <<backend, opened, sink, ctx, buffer, session, made, life, beside, taken, status, findings>>

\* A script starts to write.
Scripted(w) ==
  /\ w \in Backfills \cup Scripts /\ backend = "bigquery" /\ pos[w] = 0
  /\ \A v \in Writers : v # w => status'[v] = status[v] /\ findings'[v] = findings[v]
  /\ Begun(w)
  /\ UNCHANGED <<backend, opened, sink, ctx, buffer, session, made, life, beside, taken, rating, sqlite>>

\* A writer's BigQuery call: it goes on with the same operation, with the next, or
\* ends with an exception.
Stays(w) == UNCHANGED <<pos, failed>>
Goes(w) == (\A v \in Writers : pos'[v] = IF v = w THEN pos[w] + 1 ELSE pos[v]) /\ UNCHANGED failed
Ends(w) == failed' = failed \cup {w} /\ UNCHANGED pos
SameRows == UNCHANGED rows
OneMore(w) == \A t \in Tables, v \in Writers :
                rows'[t][v] = IF t = Table(w) /\ v = w THEN rows[t][v] + 1 ELSE rows[t][v]

Wrote(w) ==
  /\ w \in Writers /\ Busy(w)
  /\ \A v \in Writers : v # w => call'[v] = call[v]
  /\ trouble \subseteq trouble'
  /\ \/ /\ Next1(w).op = "ensure" /\ SameRows
        /\ \/ /\ Stays(w) /\ UNCHANGED <<there, creator>>
              /\ call'[w] = "create" => w \in trouble' \/ Table(w) \notin there
           \/ /\ Goes(w) /\ call'[w] # "create"
              /\ \/ UNCHANGED <<there, creator>>
                 \/ /\ Table(w) \notin there /\ there' = there \cup {Table(w)}
                    /\ \A t \in Tables : creator'[t] = IF t = Table(w) THEN w ELSE creator[t]
           \/ /\ Ends(w) /\ UNCHANGED <<there, creator>>
              /\ w \in trouble' \/ (call[w] = "create" /\ Table(w) \in there)
     \/ /\ Next1(w).op = "append" /\ UNCHANGED <<there, creator>> /\ call'[w] # "create"
        /\ \/ Stays(w) /\ SameRows
           \/ Goes(w) /\ OneMore(w)
           \/ Ends(w) /\ w \in trouble' /\ (SameRows \/ OneMore(w))
  /\ UNCHANGED <<backend, opened, sink, ctx, buffer, session, made, life, beside, sqlite>> /\ SameRecords

TrackingActs ==
  \/ \E r \in Runs : \/ \E s \in Sessions : Started(r, s)
                     \/ Called(r) \/ Recorded(r) \/ Resumed(r) \/ Returned(r)
  \/ \E f \in Ratings, v \in {-1, 1} : Clicked(f, v)
  \/ \E w \in Backfills \cup Scripts : Scripted(w)
  \/ \E w \in Writers : Wrote(w)

\* run_agent is such a step.
LEMMA StartSteps ==
  ASSUME TrackingTypeOK, LifeInv, NEW r \in Runs, NEW s \in Sessions, run_agent(r, s)
  PROVE  Started(r, s)
  <1>1. /\ life[r] = "new" /\ opened' = opened \cup {s} /\ sink' = IF s \in opened THEN sink ELSE s
        /\ ctx' = r /\ UNCHANGED <<backend, buffer, made, sqlite>> /\ SameRecords /\ SameStore
    BY DEF run_agent, recordVars, storeVars, SameRecords, SameStore
  <1>2. \A q \in Runs : /\ session'[q] = IF q = r THEN s ELSE session[q]
                        /\ life'[q] = IF q = r THEN "invoked" ELSE life[q]
    BY DEF run_agent, TrackingTypeOK
  <1>3. r \notin Running
    BY <1>1 DEF Running
  <1>4. Beside(r)
    <2>1. \A q \in Runs : beside'[q] = IF q = r THEN Running
                                       ELSE IF q \in Running THEN beside[q] \cup {r} ELSE beside[q]
      BY DEF run_agent
    <2> QED
      BY <1>1, <1>3, <2>1 DEF Beside, Running
  <1> QED
    BY <1>1, <1>2, <1>4 DEF Started

\* resume_agent.
LEMMA ResumeSteps ==
  ASSUME TrackingTypeOK, NEW r \in Runs, resume_agent(r)
  PROVE  Resumed(r)
  <1>1. /\ life[r] = "waiting" /\ SameRecords /\ SameStore
        /\ UNCHANGED <<backend, opened, sink, ctx, buffer, session, made, sqlite>>
    BY DEF resume_agent, recordVars, storeVars, SameRecords, SameStore
  <1>2. \A q \in Runs : life'[q] = IF q = r THEN "resumed" ELSE life[q]
    BY DEF resume_agent, TrackingTypeOK
  <1>3. \A q \in Runs : beside'[q] = IF q = r THEN beside[q] \cup Running
                                     ELSE IF q \in Running THEN beside[q] \cup {r} ELSE beside[q]
    BY DEF resume_agent
  <1>4. r \notin Running
    BY <1>1 DEF Running
  <1>5. Beside(r)
    BY <1>1, <1>3, <1>4 DEF Beside, Running
  <1> QED
    BY <1>1, <1>2, <1>5 DEF Resumed

\* The resumed run returns.
LEMMA ReturnSteps ==
  ASSUME TrackingTypeOK, NEW r \in Runs, ResumeReturns(r)
  PROVE  Returned(r)
  BY DEF ResumeReturns, TrackingTypeOK, recordVars, storeVars, SameRecords, SameStore, Returned

\* telemetry.record_llm_call: the sink is a session, and its buffer grows.
LEMMA CallSteps ==
  ASSUME TrackingTypeOK, LifeInv, NEW r \in Runs, record_llm_call(r)
  PROVE  Called(r)
  <1>1. /\ r \in Running /\ made[r] < MaxCalls /\ SameRecords /\ SameStore
        /\ UNCHANGED <<backend, opened, sink, ctx, session, life, beside>>
    BY DEF record_llm_call, recordVars, storeVars, SameRecords, SameStore
  <1>2. \A q \in Runs : made'[q] = IF q = r THEN made[r] + 1 ELSE made[q]
    BY DEF record_llm_call, TrackingTypeOK
  <1>3. CASE backend = "sqlite"
    BY <1>1, <1>2, <1>3 DEF record_llm_call, Called
  <1>4. CASE backend # "sqlite"
    <2>1. buffer' = [buffer EXCEPT ![sink][ctx] = @ \cup {<<r, made[r] + 1>>}] /\ UNCHANGED sqlite
      BY <1>2, <1>4 DEF record_llm_call
    <2>2. sink \in Sessions /\ ctx \in Runs \cup {NoRun}
      BY <1>1 DEF LifeInv, Running, TrackingTypeOK
    <2>3. \A s \in Sessions, q \in Runs \cup {NoRun} :
            buffer'[s][q] = IF s = sink /\ q = ctx THEN buffer[s][q] \cup {<<r, made[r] + 1>>}
                                                   ELSE buffer[s][q]
      BY <2>1, <2>2 DEF TrackingTypeOK
    <2>4. \A p \in Bins : buffer'[p[1]][p[2]] = IF p = <<sink, ctx>>
                                                THEN buffer[p[1]][p[2]] \cup {<<r, made[r] + 1>>}
                                                ELSE buffer[p[1]][p[2]]
      BY <2>2, <2>3 DEF Bins
    <2> QED
      BY <1>1, <1>2, <1>4, <2>1, <2>4 DEF Called
  <1> QED
    BY <1>3, <1>4

\* A writer begins at the first operation of its plan.
LEMMA BeginSteps ==
  ASSUME TrackingTypeOK, NEW w \in Writers, StartWriting(w)
  PROVE  Begun(w)
  BY DEF StartWriting, Begun, TrackingTypeOK

\* record_run: _aggregate_buffered pops the run's buffer.
LEMMA RecordSteps ==
  ASSUME TrackingTypeOK, LifeInv, NEW r \in Runs, NEW o, NEW f, record_run(r, o, f)
  PROVE  Recorded(r)
  <1>1. /\ life[r] = "invoked" /\ r \in Writers
        /\ UNCHANGED <<backend, opened, sink, ctx, session, made, beside, rating, sqlite>>
    BY DEF record_run, Writers
  <1>2. /\ \A q \in Runs : q # r => life'[q] = life[q]
        /\ life'[r] = IF o = "interrupted" THEN "waiting" ELSE "over"
    BY DEF record_run, TrackingTypeOK
  <1>3. CASE backend = "sqlite"
    BY <1>1, <1>2, <1>3 DEF record_run, Recorded, storeVars, SameStore
  <1>4. CASE backend # "sqlite"
    <2>1. /\ taken' = [taken EXCEPT ![r] = buffer[session[r]][r]]
          /\ buffer' = [buffer EXCEPT ![session[r]][r] = {}]
          /\ status' = [status EXCEPT ![r] = IF o = "completed" THEN "complete" ELSE "error"]
          /\ findings' = [findings EXCEPT ![r] = f]
          /\ StartWriting(r)
      BY <1>4 DEF record_run
    <2>2. PICK z \in Sessions : z = session[r]
      BY <1>1 DEF LifeInv, TrackingTypeOK
    <2>3. \A s \in Sessions, q \in Runs \cup {NoRun} :
            buffer'[s][q] = IF s = z /\ q = r THEN {} ELSE buffer[s][q]
      <3>1. /\ buffer' = [buffer EXCEPT ![z][r] = {}]
            /\ buffer \in [Sessions -> [Runs \cup {NoRun} -> SUBSET Calls]]
        BY <2>1, <2>2 DEF TrackingTypeOK
      <3> QED
        BY <3>1
    <2>4. \A p \in Bins : buffer'[p[1]][p[2]] = IF p = <<session[r], r>> THEN {} ELSE buffer[p[1]][p[2]]
      BY <2>2, <2>3 DEF Bins
    <2>5. /\ \A w \in Writers : taken'[w] = IF w = r THEN buffer[session[r]][r] ELSE taken[w]
          /\ \A w \in Writers : w # r => status'[w] = status[w] /\ findings'[w] = findings[w]
          /\ status'[r] = IF o = "completed" THEN "complete" ELSE "error"
      BY <1>1, <2>1 DEF TrackingTypeOK
    <2>6. Begun(r)
      BY <1>1, <2>1, BeginSteps
    <2> QED
      BY <1>1, <1>2, <1>4, <2>4, <2>5, <2>6 DEF Recorded
  <1> QED
    BY <1>3, <1>4

\* record_feedback.
LEMMA ClickSteps ==
  ASSUME TrackingTypeOK, NEW f \in Ratings, NEW v \in {-1, 1}, RecordFeedback(f, v)
  PROVE  Clicked(f, v)
  <1>1. /\ rating[f] = 0 /\ f \in Writers
        /\ UNCHANGED <<backend, opened, sink, ctx, buffer, session, made, life, beside>>
        /\ UNCHANGED <<taken, status, findings>>
    BY DEF RecordFeedback, telemetryVars, Writers
  <1>2. \A w \in Writers : rating'[w] = IF w = f THEN v ELSE rating[w]
    BY DEF RecordFeedback, TrackingTypeOK
  <1>3. CASE backend = "sqlite"
    <2>1. /\ sqlite' = IF v > 0 THEN [sqlite EXCEPT !.up = @ \cup {f}] ELSE [sqlite EXCEPT !.down = @ \cup {f}]
          /\ SameStore
      BY <1>3 DEF RecordFeedback, storeVars, SameStore
    <2> QED
      BY <1>1, <1>2, <1>3, <2>1 DEF Clicked, TrackingTypeOK
  <1>4. CASE backend # "sqlite"
    <2>1. StartWriting(f) /\ UNCHANGED sqlite
      BY <1>4 DEF RecordFeedback
    <2>2. Begun(f)
      BY <1>1, <2>1, BeginSteps
    <2> QED
      BY <1>1, <1>2, <1>4, <2>1, <2>2 DEF Clicked
  <1> QED
    BY <1>3, <1>4

\* The backfill and the setup script.
LEMMA ScriptSteps ==
  ASSUME TrackingTypeOK, NEW w \in Backfills \cup Scripts,
         \/ \E o \in {"completed", "failed"}, f \in BOOLEAN : w \in Backfills /\ backfill(w, o, f)
         \/ w \in Scripts /\ RunScript(w)
  PROVE  Scripted(w)
  <1>1. w \in Writers
    BY DEF Writers
  <1>2. ASSUME NEW o \in {"completed", "failed"}, NEW f \in BOOLEAN, backfill(w, o, f)
        PROVE  Scripted(w)
    <2>1. Begun(w)
      BY <1>1, <1>2, BeginSteps DEF backfill
    <2> QED
      BY <1>1, <1>2, <2>1 DEF backfill, Scripted, telemetryVars, TrackingTypeOK
  <1>3. ASSUME RunScript(w) PROVE Scripted(w)
    <2>1. Begun(w)
      BY <1>1, <1>3, BeginSteps DEF RunScript
    <2> QED
      BY <1>1, <1>3, <2>1 DEF RunScript, Scripted, telemetryVars, recordVars
  <1> QED
    BY <1>2, <1>3

\* Every BigQuery call is one of these steps of its writer.
LEMMA WriteSteps ==
  ASSUME TrackingTypeOK, NEW w \in Writers, WriterStep(w)
  PROVE  Wrote(w)
  <1>1. /\ UNCHANGED <<backend, opened, sink, ctx, buffer, session, made, life, beside, sqlite>>
        /\ SameRecords
    BY DEF WriterStep, telemetryVars, recordVars, SameRecords
  <1>2. call \in [Writers -> {"none", "get", "patch skill", "patch nested", "create", "append", "load"}]
        /\ pos \in [Writers -> 0..13]
    BY DEF TrackingTypeOK
  <1>3. ASSUME NEW c, Goto1(w, c)
        PROVE  Stays(w) /\ call'[w] = c /\ \A v \in Writers : v # w => call'[v] = call[v]
    BY <1>2, <1>3 DEF Goto1, Stays
  <1>4. ASSUME Advance(w)
        PROVE  Goes(w) /\ call'[w] # "create" /\ \A v \in Writers : v # w => call'[v] = call[v]
    BY <1>2, <1>4 DEF Advance, Goes
  <1>5. ASSUME NEW S, Patched(w, S)
        PROVE  /\ Stays(w) \/ Goes(w)
               /\ call'[w] # "create" /\ \A v \in Writers : v # w => call'[v] = call[v]
    <2>1. Goto1(w, "patch skill") \/ Goto1(w, "patch nested") \/ Advance(w)
      BY <1>5 DEF Patched
    <2>2. CASE Goto1(w, "patch skill")
      BY <1>2, <2>2 DEF Goto1, Stays
    <2>3. CASE Goto1(w, "patch nested")
      BY <1>2, <2>3 DEF Goto1, Stays
    <2>4. CASE Advance(w)
      BY <1>4, <2>4
    <2> QED
      BY <2>1, <2>2, <2>3, <2>4
  <1>6. ASSUME Raise(w)
        PROVE  Ends(w) /\ \A v \in Writers : call'[v] = call[v]
    BY <1>6 DEF Raise, Ends
  <1>7. ASSUME Refused(w) PROVE trouble \subseteq trouble' /\ w \in trouble'
    BY <1>7 DEF Refused
  <1>8. ASSUME Stored(w) PROVE OneMore(w)
    <2>1. PICK z : z = Table(w)
      OBVIOUS
    <2>2. /\ rows' = [rows EXCEPT ![z][w] = @ + 1]
          /\ rows \in [Tables -> [Writers -> Nat]]
      BY <1>8, <2>1 DEF Stored, TrackingTypeOK
    <2>3. \A t \in Tables, v \in Writers :
            rows'[t][v] = IF t = z /\ v = w THEN rows[t][v] + 1 ELSE rows[t][v]
      BY <2>2
    <2> QED
      BY <2>1, <2>3 DEF OneMore
  <1>9. CASE GetTable(w)
    <2>1. Busy(w) /\ Next1(w).op = "ensure" /\ UNCHANGED <<there, creator, rows>>
      BY <1>9 DEF GetTable, At
    <2>2. \/ \E S : Patched(w, S) /\ UNCHANGED trouble
          \/ Table(w) \notin there /\ Goto1(w, "create") /\ UNCHANGED trouble
          \/ Goto1(w, "create") /\ Refused(w)
      BY <1>9 DEF GetTable
    <2> QED
      BY <1>1, <1>3, <1>5, <1>7, <2>1, <2>2 DEF Wrote, SameRows
  <1>10. CASE patch_skill_columns_if_missing(w)
    <2>1. Busy(w) /\ Next1(w).op = "ensure" /\ UNCHANGED <<there, creator, rows>>
      BY <1>10 DEF patch_skill_columns_if_missing, At
    <2>2. \/ \E S : Patched(w, S) /\ (UNCHANGED trouble \/ Refused(w))
          \/ Goto1(w, "create") /\ Refused(w)
      BY <1>10 DEF patch_skill_columns_if_missing
    <2> QED
      BY <1>1, <1>3, <1>5, <1>7, <2>1, <2>2 DEF Wrote, SameRows
  <1>11. CASE patch_quality_metrics_detail_nested_columns_if_missing(w)
    <2>1. /\ Busy(w) /\ Next1(w).op = "ensure" /\ UNCHANGED <<there, creator, rows>>
          /\ UNCHANGED trouble \/ Refused(w)
          /\ Advance(w)
      BY <1>11 DEF patch_quality_metrics_detail_nested_columns_if_missing, At
    <2> QED
      BY <1>1, <1>4, <1>7, <2>1 DEF Wrote, SameRows
  <1>12. CASE CreateTable(w)
    <2>1. Busy(w) /\ Next1(w).op = "ensure" /\ call[w] = "create" /\ UNCHANGED rows
      BY <1>12 DEF CreateTable, At
    <2>2. \/ /\ Table(w) \notin there /\ there' = there \cup {Table(w)}
             /\ creator' = [creator EXCEPT ![Table(w)] = w] /\ Advance(w) /\ UNCHANGED trouble
          \/ Table(w) \in there /\ Raise(w) /\ UNCHANGED <<there, creator, trouble>>
          \/ Raise(w) /\ Refused(w) /\ UNCHANGED <<there, creator>>
      BY <1>12 DEF CreateTable
    <2>3. CASE /\ Table(w) \notin there /\ there' = there \cup {Table(w)}
               /\ creator' = [creator EXCEPT ![Table(w)] = w] /\ Advance(w) /\ UNCHANGED trouble
      <3>1. \A t \in Tables : creator'[t] = IF t = Table(w) THEN w ELSE creator[t]
        BY <2>3 DEF TrackingTypeOK
      <3> QED
        BY <1>1, <1>4, <2>1, <2>3, <3>1 DEF Wrote, SameRows
    <2> QED
      BY <1>1, <1>6, <1>7, <2>1, <2>2, <2>3 DEF Wrote, SameRows
  <1>13. CASE InsertRowsJson(w)
    <2>1. /\ Busy(w) /\ Next1(w).op = "append" /\ call[w] = "append" /\ UNCHANGED <<there, creator>>
          /\ \/ Stored(w) /\ Advance(w) /\ UNCHANGED trouble
             \/ Goto1(w, "load") /\ UNCHANGED <<rows, trouble>>
             \/ Raise(w) /\ Refused(w) /\ (UNCHANGED rows \/ Stored(w))
      BY <1>13 DEF InsertRowsJson, At
    <2> QED
      BY <1>1, <1>3, <1>4, <1>6, <1>7, <1>8, <2>1 DEF Wrote, SameRows
  <1>14. CASE LoadTableFromJson(w)
    <2>1. /\ Busy(w) /\ Next1(w).op = "append" /\ call[w] = "load" /\ UNCHANGED <<there, creator>>
          /\ \/ Stored(w) /\ Advance(w) /\ UNCHANGED trouble
             \/ Raise(w) /\ Refused(w) /\ (UNCHANGED rows \/ Stored(w))
      BY <1>14 DEF LoadTableFromJson, At
    <2> QED
      BY <1>1, <1>3, <1>4, <1>6, <1>7, <1>8, <2>1 DEF Wrote, SameRows
  <1> QED
    BY <1>9, <1>10, <1>11, <1>12, <1>13, <1>14 DEF WriterStep

\* Every step of the tracking is one of these.
LEMMA TrackingSteps ==
  ASSUME TrackingTypeOK, LifeInv, TrackingNext
  PROVE  TrackingActs
  BY StartSteps, ResumeSteps, ReturnSteps, CallSteps, RecordSteps, ClickSteps, ScriptSteps, WriteSteps
     DEF TrackingNext, TrackingActs

(***************************************************************************)
(* The invariants hold at first                                            *)
(***************************************************************************)
LEMMA TrackingAtFirst ==
  ASSUME TrackingInit PROVE TrackingTypeOK /\ TrackingInv
  <1>1. TrackingTypeOK
    <2>1. MaxCalls \in Nat /\ 0 \in 0..MaxCalls
      BY BoundsAssumption
    <2> QED
      BY <2>1 DEF TrackingInit, TrackingTypeOK
  <1>2. LifeInv
    BY WritersAssumption DEF TrackingInit, LifeInv
  <1>3. StartInv
    BY DEF TrackingInit, StartInv, Writers
  <1>4. PlaceInv
    BY Plans DEF TrackingInit, PlaceInv
  <1>5. RowInv
    BY Plans DEF TrackingInit, RowInv
  <1>6. ReasonInv
    BY WritersAssumption DEF TrackingInit, ReasonInv, LostOnlyByTroubleOrRace, Busy
  <1>7. Made = {} /\ \A p \in Bins : In(p) = {}
    <2>1. \A r \in Runs : CallsOf(r) = {}
      BY DEF TrackingInit, CallsOf
    <2> QED
      BY <2>1 DEF TrackingInit, Made, Bins, In
  <1>8. PlacedInv
    BY <1>7 DEF TrackingInit, PlacedInv
  <1>9. LoneInv
    BY DEF TrackingInit, LoneInv, Writers
  <1>10. ClickInv
    BY DEF TrackingInit, ClickInv, Writers
  <1> QED
    BY <1>1, <1>2, <1>3, <1>4, <1>5, <1>6, <1>8, <1>9, <1>10 DEF TrackingInv

\* A busy writer is at an operation of its plan.
LEMMA PlaceIs ==
  ASSUME TrackingTypeOK, NEW w \in Writers, Busy(w)
  PROVE  pos[w] \in 1..Len(Plan(w)) /\ Next1(w) \in Ops
  <1>1. PICK n \in 1..12 : n = Len(Plan(w))
    BY Plans
  <1>2. pos[w] \in 1..Len(Plan(w))
    <2>1. pos[w] \in 0..13 /\ pos[w] > 0 /\ ~(pos[w] > n)
      BY <1>1 DEF Busy, Done, TrackingTypeOK
    <2> QED
      BY <1>1, <2>1
  <1> QED
    BY <1>2, Plans, ElementOfSeq DEF Next1

(***************************************************************************)
(* Every step keeps the types                                              *)
(***************************************************************************)
LEMMA TrackingTypesNext ==
  ASSUME TrackingTypeOK, LifeInv, PlaceInv, [TrackingNext]_trackingVars
  PROVE  TrackingTypeOK'
  <1>0. Runs \subseteq Writers /\ Ratings \subseteq Writers /\ Backfills \subseteq Writers /\ Scripts \subseteq Writers
    BY DEF Writers
  <1>1. ASSUME NEW w \in Writers, StartWriting(w)
        PROVE  /\ pos' \in [Writers -> 0..13]
               /\ call' \in [Writers -> {"none", "get", "patch skill", "patch nested", "create", "append", "load"}]
               /\ UNCHANGED <<there, lacks, creator, failed, trouble, rows>>
    <2> DEFINE Places == 0..13
    <2>1. /\ pos \in [Writers -> 0..13]
          /\ call \in [Writers -> {"none", "get", "patch skill", "patch nested", "create", "append", "load"}]
      BY DEF TrackingTypeOK
    <2> DEFINE Cs == {"none", "get", "patch skill", "patch nested", "create", "append", "load"}
    <2>2. /\ pos' = [pos EXCEPT ![w] = 1] /\ call' = [call EXCEPT ![w] = "get"]
          /\ UNCHANGED <<there, lacks, creator, failed, trouble, rows>>
      BY <1>1 DEF StartWriting
    <2>3. "get" \in Cs /\ 1 \in Places /\ pos \in [Writers -> Places] /\ call \in [Writers -> Cs]
      <3>1. "get" \in Cs /\ 1 \in Places
        OBVIOUS
      <3> QED
        BY <2>1, <3>1
    <2> HIDE DEF Cs, Places
    <2>4. pos' \in [Writers -> Places] /\ call' \in [Writers -> Cs]
      BY <2>2, <2>3
    <2> QED
      BY <2>2, <2>4 DEF Cs, Places
  <1>2. ASSUME NEW r \in Runs, NEW s \in Sessions, run_agent(r, s) PROVE TrackingTypeOK'
    BY <1>2 DEF run_agent, TrackingTypeOK, recordVars, storeVars, Running
  <1>3. ASSUME NEW r \in Runs, record_llm_call(r) PROVE TrackingTypeOK'
    <2>1. made' \in [Runs -> 0..MaxCalls] /\ made'[r] \in 1..MaxCalls
      <3>1. /\ made' = [made EXCEPT ![r] = @ + 1] /\ made[r] < MaxCalls /\ MaxCalls \in Nat
            /\ made \in [Runs -> 0..MaxCalls]
        BY <1>3, BoundsAssumption DEF record_llm_call, TrackingTypeOK
      <3> QED
        BY <3>1
    <2>2. <<r, made'[r]>> \in Calls
      BY <2>1 DEF Calls
    <2>3. /\ buffer' \in [Sessions -> [Runs \cup {NoRun} -> SUBSET Calls]]
          /\ sqlite' \in [calls : SUBSET Calls, up : SUBSET Ratings, down : SUBSET Ratings]
      <3>1. /\ buffer \in [Sessions -> [Runs \cup {NoRun} -> SUBSET Calls]]
            /\ sqlite \in [calls : SUBSET Calls, up : SUBSET Ratings, down : SUBSET Ratings]
        BY DEF TrackingTypeOK
      <3>2. PICK c \in Calls : c = <<r, made'[r]>>
        BY <2>2
      <3>3. \/ sqlite' = [sqlite EXCEPT !.calls = @ \cup {c}] /\ UNCHANGED buffer
            \/ buffer' = [buffer EXCEPT ![sink][ctx] = @ \cup {c}] /\ UNCHANGED sqlite
        BY <1>3, <3>2 DEF record_llm_call
      <3>4. CASE sqlite' = [sqlite EXCEPT !.calls = @ \cup {c}] /\ UNCHANGED buffer
        BY <3>1, <3>4
      <3>5. CASE buffer' = [buffer EXCEPT ![sink][ctx] = @ \cup {c}] /\ UNCHANGED sqlite
        BY <3>1, <3>5
      <3> QED
        BY <3>3, <3>4, <3>5
    <2> QED
      BY <1>3, <2>1, <2>3 DEF record_llm_call, TrackingTypeOK, recordVars, storeVars
  <1>4. ASSUME NEW r \in Runs, NEW o \in {"completed", "failed", "interrupted"}, NEW f \in BOOLEAN,
               record_run(r, o, f)
        PROVE  TrackingTypeOK'
    <2>1. life' \in [Runs -> {"new", "invoked", "waiting", "resumed", "over"}]
      BY <1>4 DEF record_run, TrackingTypeOK
    <2>2. CASE backend = "sqlite"
      BY <1>4, <2>1, <2>2 DEF record_run, TrackingTypeOK, storeVars
    <2>3. CASE backend # "sqlite"
      <3>1. session[r] \in Sessions
        BY <1>4 DEF record_run, LifeInv, TrackingTypeOK
      <3>2. /\ buffer' \in [Sessions -> [Runs \cup {NoRun} -> SUBSET Calls]]
            /\ taken' \in [Writers -> SUBSET Calls]
        <4>1. PICK s \in Sessions : s = session[r]
          BY <3>1
        <4>2. /\ buffer \in [Sessions -> [Runs \cup {NoRun} -> SUBSET Calls]]
              /\ taken \in [Writers -> SUBSET Calls]
          BY DEF TrackingTypeOK
        <4>3. /\ buffer' = [buffer EXCEPT ![s][r] = {}]
              /\ taken' = [taken EXCEPT ![r] = buffer[s][r]]
          BY <1>4, <2>3, <4>1 DEF record_run
        <4> QED
          BY <4>2, <4>3
      <3>3. /\ status' \in [Writers -> {"none", "complete", "error"}]
            /\ findings' \in [Writers -> BOOLEAN]
        <4>1. /\ status \in [Writers -> {"none", "complete", "error"}] /\ findings \in [Writers -> BOOLEAN]
              /\ status' = [status EXCEPT ![r] = IF o = "completed" THEN "complete" ELSE "error"]
              /\ findings' = [findings EXCEPT ![r] = f]
          BY <1>4, <2>3 DEF record_run, TrackingTypeOK
        <4> QED
          BY <4>1
      <3>4. StartWriting(r)
        BY <1>4, <2>3 DEF record_run
      <3> QED
        BY <1>0, <1>1, <1>4, <2>1, <3>2, <3>3, <3>4 DEF record_run, TrackingTypeOK
    <2> QED
      BY <2>2, <2>3
  <1>5. ASSUME NEW r \in Runs, resume_agent(r) PROVE TrackingTypeOK'
    BY <1>5 DEF resume_agent, TrackingTypeOK, recordVars, storeVars, Running
  <1>6. ASSUME NEW r \in Runs, ResumeReturns(r) PROVE TrackingTypeOK'
    BY <1>6 DEF ResumeReturns, TrackingTypeOK, recordVars, storeVars
  <1>7. ASSUME NEW f \in Ratings, NEW v \in {-1, 1}, RecordFeedback(f, v) PROVE TrackingTypeOK'
    <2>1. rating' \in [Writers -> {-1, 0, 1}]
      BY <1>0, <1>7 DEF RecordFeedback, TrackingTypeOK
    <2>2. CASE backend = "sqlite"
      <3>1. sqlite' \in [calls : SUBSET Calls, up : SUBSET Ratings, down : SUBSET Ratings]
        <4>1. /\ sqlite \in [calls : SUBSET Calls, up : SUBSET Ratings, down : SUBSET Ratings]
              /\ \/ sqlite' = [sqlite EXCEPT !.up = @ \cup {f}]
                 \/ sqlite' = [sqlite EXCEPT !.down = @ \cup {f}]
          BY <1>7, <2>2 DEF RecordFeedback, TrackingTypeOK
        <4> QED
          BY <4>1
      <3> QED
        BY <1>7, <2>1, <2>2, <3>1 DEF RecordFeedback, TrackingTypeOK, telemetryVars, storeVars
    <2>3. CASE backend # "sqlite"
      BY <1>0, <1>1, <1>7, <2>1, <2>3 DEF RecordFeedback, TrackingTypeOK, telemetryVars
    <2> QED
      BY <2>2, <2>3
  <1>8. ASSUME NEW w \in Backfills, NEW o \in {"completed", "failed"}, NEW f \in BOOLEAN, backfill(w, o, f)
        PROVE  TrackingTypeOK'
    <2>1. /\ status' \in [Writers -> {"none", "complete", "error"}]
          /\ findings' \in [Writers -> BOOLEAN]
      <3>1. /\ status \in [Writers -> {"none", "complete", "error"}] /\ findings \in [Writers -> BOOLEAN]
            /\ status' = [status EXCEPT ![w] = IF o = "completed" THEN "complete" ELSE "error"]
            /\ findings' = [findings EXCEPT ![w] = f]
        BY <1>8 DEF backfill, TrackingTypeOK
      <3> QED
        BY <3>1
    <2> QED
      <3>1. StartWriting(w) /\ UNCHANGED <<backend, telemetryVars, taken, rating, sqlite>>
        BY <1>8 DEF backfill
      <3> QED
        BY <1>0, <1>1, <2>1, <3>1 DEF TrackingTypeOK, telemetryVars
  <1>9. ASSUME NEW w \in Scripts, RunScript(w) PROVE TrackingTypeOK'
    BY <1>0, <1>1, <1>9 DEF RunScript, TrackingTypeOK, telemetryVars, recordVars
  <1>10. ASSUME NEW w \in Writers, WriterStep(w) PROVE TrackingTypeOK'
    <2> DEFINE Cs == {"none", "get", "patch skill", "patch nested", "create", "append", "load"}
               Moved == /\ pos' \in [Writers -> 0..13] /\ call' \in [Writers -> Cs] /\ failed' \subseteq Writers
    <2>1. pos \in [Writers -> 0..13] /\ call \in [Writers -> Cs] /\ failed \subseteq Writers
      BY DEF TrackingTypeOK
    <2>2. ASSUME NEW c \in Cs, Goto1(w, c) PROVE Moved
      BY <2>1, <2>2 DEF Goto1
    <2>3. ASSUME Advance(w), Busy(w) PROVE Moved
      <3>1. pos[w] + 1 \in 0..13
        <4>1. pos[w] \in 1..Len(Plan(w)) /\ Len(Plan(w)) \in 1..12
          BY <2>3, PlaceIs, Plans
        <4>2. \A n, i : n \in 1..12 /\ i \in 1..n => i + 1 \in 0..13
          OBVIOUS
        <4> QED
          BY <4>1, <4>2
      <3> QED
        BY <2>1, <2>3, <3>1 DEF Advance
    <2>4. ASSUME Raise(w) PROVE Moved
      BY <2>1, <2>4 DEF Raise
    <2>5. ASSUME NEW S, Patched(w, S), Busy(w) PROVE Moved
      <3>1. Goto1(w, "patch skill") \/ Goto1(w, "patch nested") \/ Advance(w)
        BY <2>5 DEF Patched
      <3> QED
        BY <2>2, <2>3, <2>5, <3>1
    <2>6. ASSUME Refused(w) PROVE trouble' \subseteq Writers
      BY <2>6 DEF Refused, TrackingTypeOK
    <2>7. ASSUME Stored(w) PROVE rows' \in [Tables -> [Writers -> Nat]]
      <3>1. PICK z : z = Table(w)
        OBVIOUS
      <3>2. rows' = [rows EXCEPT ![z][w] = @ + 1] /\ rows \in [Tables -> [Writers -> Nat]]
        BY <2>7, <3>1 DEF Stored, TrackingTypeOK
      <3>3. CASE z \in Tables
        BY <3>2, <3>3
      <3>4. CASE z \notin Tables
        BY <3>2, <3>4
      <3> QED
        BY <3>3, <3>4
    <2>8. Busy(w) => Table(w) \in Tables
      BY PlaceIs DEF Table, Next1, Ops
    <2> HIDE DEF Moved
    <2>9. Moved /\ trouble' \subseteq Writers /\ there' \subseteq Tables /\ creator' \in [Tables -> Writers \cup {NoRun}]
          /\ lacks' \in [Tables -> SUBSET {"skill", "nested"}] /\ rows' \in [Tables -> [Writers -> Nat]]
      <3>0. /\ trouble \subseteq Writers /\ there \subseteq Tables /\ creator \in [Tables -> Writers \cup {NoRun}]
            /\ lacks \in [Tables -> SUBSET {"skill", "nested"}] /\ rows \in [Tables -> [Writers -> Nat]]
        BY DEF TrackingTypeOK
      <3>1. CASE GetTable(w)
        BY <3>0, <3>1, <2>2, <2>5, <2>6 DEF GetTable, At
      <3>2. CASE patch_skill_columns_if_missing(w)
        BY <3>0, <3>2, <2>2, <2>5, <2>6, <2>8 DEF patch_skill_columns_if_missing, At
      <3>3. CASE patch_quality_metrics_detail_nested_columns_if_missing(w)
        BY <3>0, <3>3, <2>3, <2>6, <2>8 DEF patch_quality_metrics_detail_nested_columns_if_missing, At
      <3>4. CASE CreateTable(w)
        BY <3>0, <3>4, <2>3, <2>4, <2>6, <2>8 DEF CreateTable, At
      <3>5. CASE InsertRowsJson(w)
        BY <3>0, <3>5, <2>2, <2>3, <2>4, <2>6, <2>7 DEF InsertRowsJson, At
      <3>6. CASE LoadTableFromJson(w)
        BY <3>0, <3>6, <2>3, <2>4, <2>6, <2>7 DEF LoadTableFromJson, At
      <3> QED
        BY <1>10, <3>1, <3>2, <3>3, <3>4, <3>5, <3>6 DEF WriterStep
    <2> QED
      BY <1>10, <2>9 DEF WriterStep, telemetryVars, recordVars, TrackingTypeOK, Moved
  <1>11. CASE UNCHANGED trackingVars
    BY <1>11 DEF trackingVars, telemetryVars, recordVars, storeVars, TrackingTypeOK
  <1> QED
    BY <1>2, <1>3, <1>4, <1>5, <1>6, <1>7, <1>8, <1>9, <1>10, <1>11 DEF TrackingNext

LEMMA LifeInvNext ==
  ASSUME TrackingTypeOK, TrackingTypeOK', TrackingInv, TrackingActs \/ UNCHANGED trackingVars
  PROVE  LifeInv'
  <1>0. LifeInv /\ (TrackingActs \/ UNCHANGED trackingVars)
    BY DEF TrackingInv
  <1>01. /\ session \in [Runs -> Sessions \cup {NoSession}] /\ NoSession \notin Sessions
        /\ ctx \in Runs \cup {NoRun} /\ sink \in Sessions \cup {NoSession}
        /\ life \in [Runs -> {"new", "invoked", "waiting", "resumed", "over"}]
    BY WritersAssumption DEF TrackingTypeOK
  <1>1. ASSUME NEW r \in Runs, NEW s \in Sessions, Started(r, s) PROVE LifeInv'
    <2> SUFFICES ASSUME NEW q \in Runs
                 PROVE  /\ life'[q] = "new" <=> session'[q] = NoSession
                        /\ sink' \in opened'
                        /\ life'[q] # "new" => session'[q] \in opened' /\ ctx' \in Runs /\ life'[ctx'] # "new"
                        /\ life'[q] = "new" => made'[q] = 0 /\ \A z \in Sessions : buffer'[z][q] = {}
      BY DEF LifeInv
    <2>1. CASE q = r
      BY <1>0, <1>01, <1>1, <2>1 DEF LifeInv, Started
    <2>2. CASE q # r
      BY <1>0, <1>01, <1>1, <2>2 DEF LifeInv, Started
    <2> QED
      BY <2>1, <2>2
  <1>2. ASSUME NEW r \in Runs, Called(r) PROVE LifeInv'
    <2>1. ASSUME NEW q \in Runs, life'[q] = "new", NEW s \in Sessions
          PROVE  made'[q] = 0 /\ buffer'[s][q] = {}
      <3>1. q # r /\ q # ctx /\ life[q] = "new"
        BY <1>0, <1>2, <2>1 DEF Called, Running, LifeInv
      <3>2. <<s, q>> \in Bins /\ <<s, q>> # <<sink, ctx>>
        BY <3>1 DEF Bins
      <3>3. buffer'[<<s, q>>[1]][<<s, q>>[2]] = buffer[<<s, q>>[1]][<<s, q>>[2]]
        BY <1>2, <3>2 DEF Called
      <3> QED
        BY <1>0, <1>2, <3>1, <3>3 DEF Called, LifeInv
    <2> QED
      BY <1>0, <1>2, <2>1 DEF Called, LifeInv, Running
  <1>3. ASSUME NEW r \in Runs, Recorded(r) PROVE LifeInv'
    <2>1. ASSUME NEW q \in Runs, life'[q] = "new", NEW s \in Sessions
          PROVE  buffer'[s][q] = {}
      <3>1. q # r /\ life[q] = "new"
        BY <1>0, <1>3, <2>1 DEF Recorded
      <3>2. <<s, q>> \in Bins /\ <<s, q>> # <<session[r], r>>
        BY <3>1 DEF Bins
      <3>3. buffer'[<<s, q>>[1]][<<s, q>>[2]] = buffer[<<s, q>>[1]][<<s, q>>[2]]
        BY <1>3, <3>2 DEF Recorded
      <3> QED
        BY <1>0, <3>1, <3>3 DEF LifeInv
    <2> QED
      BY <1>0, <1>3, <2>1 DEF Recorded, LifeInv
  <1>4. ASSUME NEW r \in Runs, Resumed(r) PROVE LifeInv'
    BY <1>4, <1>0, <1>01 DEF LifeInv, Resumed, SameRecords, SameStore, Beside
  <1>5. ASSUME NEW r \in Runs, Returned(r) PROVE LifeInv'
    BY <1>5, <1>0, <1>01 DEF LifeInv, Returned, SameRecords, SameStore
  <1>6. ASSUME NEW f \in Ratings, NEW v \in {-1, 1}, Clicked(f, v) PROVE LifeInv'
    BY <1>6, <1>0, <1>01 DEF LifeInv, Clicked, SameStore, Begun
  <1>7. ASSUME NEW w \in Backfills \cup Scripts, Scripted(w) PROVE LifeInv'
    BY <1>7, <1>0, <1>01 DEF LifeInv, Scripted, Begun
  <1>8. ASSUME NEW w \in Writers, Wrote(w) PROVE LifeInv'
    BY <1>8, <1>0, <1>01 DEF LifeInv, Wrote, SameRecords, Stays, Goes, Ends, SameRows, OneMore
  <1>9. ASSUME UNCHANGED trackingVars PROVE LifeInv'
    BY <1>9, <1>0, <1>01 DEF LifeInv, trackingVars, telemetryVars, recordVars, storeVars
  <1> QED
    BY <1>0, <1>1, <1>2, <1>3, <1>4, <1>5, <1>6, <1>7, <1>8, <1>9 DEF TrackingActs

\* No two writers of different kinds are one.
LEMMA Apart ==
  /\ Runs \cap Ratings = {} /\ Runs \cap Backfills = {} /\ Runs \cap Scripts = {}
  /\ Ratings \cap Backfills = {} /\ Ratings \cap Scripts = {} /\ Backfills \cap Scripts = {}
  BY WritersAssumption

LEMMA StartInvNext ==
  ASSUME TrackingTypeOK, TrackingTypeOK', TrackingInv, TrackingActs \/ UNCHANGED trackingVars
  PROVE  StartInv'
  <1>0. StartInv /\ (TrackingActs \/ UNCHANGED trackingVars)
    BY DEF TrackingInv
  <1>01. /\ Runs \subseteq Writers /\ Ratings \subseteq Writers /\ Backfills \subseteq Writers
         /\ Scripts \subseteq Writers /\ Runs \cap Ratings = {} /\ Runs \cap (Backfills \cup Scripts) = {}
         /\ Ratings \cap (Backfills \cup Scripts) = {}
    BY Apart DEF Writers
  <1>1. ASSUME NEW r \in Runs, NEW s \in Sessions, Started(r, s) PROVE StartInv'
    BY <1>1, <1>0, <1>01 DEF StartInv, Started, SameRecords, SameStore, Beside
  <1>2. ASSUME NEW r \in Runs, Called(r) PROVE StartInv'
    BY <1>2, <1>0, <1>01 DEF StartInv, Called, SameRecords, SameStore, Running
  <1>3. ASSUME NEW r \in Runs, Recorded(r) PROVE StartInv'
    BY <1>3, <1>0, <1>01 DEF StartInv, Recorded, SameStore, Begun
  <1>4. ASSUME NEW r \in Runs, Resumed(r) PROVE StartInv'
    BY <1>4, <1>0, <1>01 DEF StartInv, Resumed, SameRecords, SameStore, Beside
  <1>5. ASSUME NEW r \in Runs, Returned(r) PROVE StartInv'
    BY <1>5, <1>0, <1>01 DEF StartInv, Returned, SameRecords, SameStore
  <1>6. ASSUME NEW f \in Ratings, NEW v \in {-1, 1}, Clicked(f, v) PROVE StartInv'
    BY <1>6, <1>0, <1>01 DEF StartInv, Clicked, SameStore, Begun
  <1>7. ASSUME NEW w \in Backfills \cup Scripts, Scripted(w) PROVE StartInv'
    BY <1>7, <1>0, <1>01 DEF StartInv, Scripted, Begun
  <1>8. ASSUME NEW w \in Writers, Wrote(w) PROVE StartInv'
    <2>1. pos[w] > 0 /\ \A v \in Writers : v # w => pos'[v] = pos[v]
      BY <1>8 DEF Wrote, Busy, Stays, Goes, Ends
    <2>2. \A r \in Runs : life[r] \in {"new", "invoked"} => r # w
      BY <1>0, <2>1 DEF StartInv
    <2>3. \A f \in Ratings : rating[f] = 0 => f # w
      BY <1>0, <2>1 DEF StartInv
    <2> QED
      BY <1>0, <1>01, <1>8, <2>1, <2>2, <2>3 DEF StartInv, Wrote, SameRecords
  <1>9. ASSUME UNCHANGED trackingVars PROVE StartInv'
    BY <1>9, <1>0, <1>01 DEF StartInv, trackingVars, telemetryVars, recordVars, storeVars
  <1> QED
    BY <1>0, <1>1, <1>2, <1>3, <1>4, <1>5, <1>6, <1>7, <1>8, <1>9 DEF TrackingActs

(***************************************************************************)
(* What is written, and why it stops                                       *)
(***************************************************************************)
\* No writer writes; some may begin.
Quiet ==
  /\ UNCHANGED <<there, creator, failed, trouble, rows>>
  /\ \A w \in Writers : \/ pos'[w] = pos[w] /\ call'[w] = call[w]
                        \/ pos[w] = 0 /\ pos'[w] = 1 /\ call'[w] = "get"

\* A step begins with a writer's plan at most, or makes one of its calls.
LEMMA QuietOrWrites ==
  ASSUME StartInv, TrackingActs \/ UNCHANGED trackingVars
  PROVE  Quiet \/ \E w \in Writers : Wrote(w)
  <1>0. Runs \subseteq Writers /\ Ratings \subseteq Writers /\ Backfills \cup Scripts \subseteq Writers
    BY DEF Writers
  <1>1. ASSUME SameStore PROVE Quiet
    BY <1>1 DEF SameStore, Quiet
  <1>2. ASSUME NEW w \in Writers, pos[w] = 0, Begun(w) PROVE Quiet
    BY <1>2 DEF Begun, Quiet
  <1>3. ASSUME NEW r \in Runs, NEW s \in Sessions, Started(r, s) PROVE Quiet
    BY <1>1, <1>3 DEF Started
  <1>4. ASSUME NEW r \in Runs, Called(r) \/ Resumed(r) \/ Returned(r) PROVE Quiet
    BY <1>1, <1>4 DEF Called, Resumed, Returned
  <1>5. ASSUME NEW r \in Runs, Recorded(r) PROVE Quiet
    BY <1>0, <1>1, <1>2, <1>5 DEF Recorded, StartInv
  <1>6. ASSUME NEW f \in Ratings, NEW v \in {-1, 1}, Clicked(f, v) PROVE Quiet
    BY <1>0, <1>1, <1>2, <1>6 DEF Clicked, StartInv
  <1>7. ASSUME NEW w \in Backfills \cup Scripts, Scripted(w) PROVE Quiet
    BY <1>0, <1>2, <1>7 DEF Scripted
  <1>8. CASE UNCHANGED trackingVars
    BY <1>8 DEF trackingVars, storeVars, Quiet
  <1> QED
    BY <1>3, <1>4, <1>5, <1>6, <1>7, <1>8 DEF TrackingActs

\* Once a writer has begun, its plan is what it was.
LEMMA PlanStays ==
  ASSUME StartInv, TrackingActs \/ UNCHANGED trackingVars, NEW w \in Writers, pos[w] > 0
  PROVE  Plan(w)' = Plan(w)
  <1>0. /\ Runs \subseteq Writers /\ Ratings \subseteq Writers /\ Backfills \cup Scripts \subseteq Writers
        /\ pos[w] # 0
    BY DEF Writers
  <1>1. ASSUME NEW r \in Runs, Recorded(r) PROVE findings'[w] = findings[w]
    BY <1>0, <1>1 DEF Recorded, StartInv
  <1>2. ASSUME NEW v \in Backfills \cup Scripts, Scripted(v) PROVE findings'[w] = findings[w]
    BY <1>0, <1>2 DEF Scripted
  <1>3. ASSUME UNCHANGED trackingVars PROVE findings'[w] = findings[w]
    BY <1>3 DEF trackingVars, recordVars
  <1>4. findings'[w] = findings[w]
    BY <1>1, <1>2, <1>3 DEF TrackingActs, Started, Called, Resumed, Returned, Clicked, Wrote, SameRecords
  <1> QED
    BY <1>4 DEF Plan, record_agent_run, _write_trajectory_and_tool_invocations

PlansAre == \A w \in Writers : Plan(w) \in Seq(Ops) /\ Len(Plan(w)) \in 1..12 /\ Once(Plan(w))

\* The plans of the next state are plans as well.
LEMMA PlansNext == PlansAre'
  <1>1. PlansAre
    BY Plans DEF PlansAre
  <1> QED
    BY <1>1, PTL

\* No writer leaves its plan.
LEMMA PlaceInvNext ==
  ASSUME TrackingTypeOK, TrackingTypeOK', TrackingInv, TrackingActs \/ UNCHANGED trackingVars
  PROVE  PlaceInv'
  <1>0. StartInv /\ PlaceInv
    BY DEF TrackingInv
  <1>1. \A w \in Writers : pos[w] \in Nat /\ Len(Plan(w)) \in Nat /\ Len(Plan(w)') \in Nat
    <2>1. pos \in [Writers -> 0..13]
      BY DEF TrackingTypeOK
    <2>2. \A w \in Writers : Len(Plan(w)) \in 1..12 /\ Len(Plan(w)') \in 1..12
      BY Plans, PlansNext DEF PlansAre
    <2> QED
      BY <2>1, <2>2
  <1> SUFFICES ASSUME NEW w \in Writers
               PROVE  /\ pos'[w] <= Len(Plan(w)') + 1
                      /\ w \in failed' => pos'[w] \in 1..Len(Plan(w)')
    BY DEF PlaceInv
  <1>2. CASE pos[w] = 0
    <2>1. ~Busy(w) /\ w \notin failed
      BY <1>0, <1>1, <1>2 DEF Busy, PlaceInv
    <2>2. w \notin failed' /\ pos'[w] \in {0, 1}
      <3>1. CASE Quiet
        BY <1>2, <2>1, <3>1 DEF Quiet
      <3>2. ASSUME NEW v \in Writers, Wrote(v) PROVE w \notin failed' /\ pos'[w] \in {0, 1}
        BY <1>2, <2>1, <3>2 DEF Wrote, Stays, Goes, Ends
      <3> QED
        BY <1>0, <3>1, <3>2, QuietOrWrites
    <2> QED
      BY <1>1, <2>2
  <1>3. CASE pos[w] # 0
    <2>1. Plan(w)' = Plan(w)
      BY <1>0, <1>1, <1>3, PlanStays
    <2>2. CASE Quiet
      BY <1>0, <1>1, <1>3, <2>1, <2>2 DEF Quiet, PlaceInv
    <2>3. ASSUME NEW v \in Writers, v # w, Wrote(v) PROVE pos'[w] = pos[w] /\ (w \in failed' <=> w \in failed)
      BY <2>3 DEF Wrote, Stays, Goes, Ends
    <2>4. ASSUME Wrote(w) PROVE pos[w] \in 1..Len(Plan(w)) /\ (pos'[w] = pos[w] \/ (pos'[w] = pos[w] + 1 /\ w \notin failed'))
      <3>1. pos[w] \in 1..Len(Plan(w)) /\ w \notin failed
        BY <2>4, PlaceIs DEF Wrote, Busy
      <3> QED
        BY <2>4, <3>1 DEF Wrote, Stays, Goes, Ends
    <2> QED
      BY <1>0, <1>1, <2>1, <2>2, <2>3, <2>4, QuietOrWrites DEF PlaceInv
  <1> QED
    BY <1>2, <1>3

\* How the rows of a writer change.
LEMMA RowsChange ==
  ASSUME TrackingTypeOK, StartInv, TrackingActs \/ UNCHANGED trackingVars, NEW w \in Writers
  PROVE  \/ /\ \A t \in Tables : rows'[t][w] = rows[t][w]
            /\ pos'[w] = pos[w] \/ (pos[w] = 0 /\ pos'[w] = 1)
            /\ w \in failed' <=> w \in failed
         \/ /\ Busy(w) /\ Next1(w).op = "ensure" /\ \A t \in Tables : rows'[t][w] = rows[t][w]
            /\ \/ pos'[w] = pos[w] + 1 /\ w \notin failed'
               \/ pos'[w] = pos[w] /\ w \in failed'
         \/ /\ Busy(w) /\ Next1(w).op = "append"
            /\ \/ pos'[w] = pos[w] + 1 /\ w \notin failed' /\ OneMore(w)
               \/ pos'[w] = pos[w] /\ w \in failed' /\ (SameRows \/ OneMore(w))
  <1>1. CASE Quiet
    BY <1>1 DEF Quiet
  <1>2. ASSUME NEW v \in Writers, v # w, Wrote(v)
        PROVE  (\A t \in Tables : rows'[t][w] = rows[t][w]) /\ pos'[w] = pos[w] /\ (w \in failed' <=> w \in failed)
    BY <1>2 DEF Wrote, Stays, Goes, Ends, SameRows, OneMore
  <1>3. CASE Wrote(w)
    <2>1. Busy(w) /\ w \notin failed
      BY <1>3 DEF Wrote, Busy
    <2>2. CASE Next1(w).op = "ensure"
      BY <1>3, <2>1, <2>2 DEF Wrote, Stays, Goes, Ends, SameRows
    <2>3. CASE Next1(w).op = "append"
      BY <1>3, <2>1, <2>3 DEF Wrote, Stays, Goes, Ends, SameRows
    <2> QED
      BY <1>3, <2>2, <2>3 DEF Wrote
  <1> QED
    BY <1>1, <1>2, <1>3, QuietOrWrites

\* The rows are those of the appends before a writer's place, once each.
LEMMA RowInvNext ==
  ASSUME TrackingTypeOK, TrackingTypeOK', TrackingInv, TrackingActs \/ UNCHANGED trackingVars
  PROVE  RowInv'
  <1>0. StartInv /\ PlaceInv /\ RowInv
    BY DEF TrackingInv
  <1> SUFFICES ASSUME NEW w \in Writers, NEW t \in Tables
               PROVE  /\ rows'[t][w] \in {0, 1}
                      /\ rows'[t][w] = 1 =>
                           \E i \in 1..Len(Plan(w)') : /\ Plan(w)'[i].op = "append" /\ Plan(w)'[i].table = t
                                                       /\ i < pos'[w] \/ (i = pos'[w] /\ w \in failed')
                      /\ \A i \in 1..Len(Plan(w)') :
                           i < pos'[w] /\ Plan(w)'[i].op = "append" /\ Plan(w)'[i].table = t => rows'[t][w] = 1
    BY DEF RowInv, Stores
  <1>1. pos[w] \in Nat /\ pos'[w] \in Nat
    <2>1. pos \in [Writers -> 0..13] /\ pos' \in [Writers -> 0..13]
      BY DEF TrackingTypeOK
    <2> QED
      BY <2>1
  <1>2. CASE pos[w] = 0
    <2>1. ~Busy(w) /\ w \notin failed /\ rows[t][w] = 0
      BY <1>0, <1>1, <1>2 DEF Busy, PlaceInv, RowInv
    <2>2. pos'[w] \in {0, 1} /\ w \notin failed' /\ rows'[t][w] = 0
      BY <1>0, <1>2, <2>1, RowsChange
    <2> QED
      BY <2>2
  <1>3. CASE pos[w] # 0
    <2> DEFINE p == Plan(w)
    <2>1. Plan(w)' = p
      BY <1>0, <1>1, <1>3, PlanStays
    <2>2. p \in Seq(Ops) /\ Len(p) \in Nat /\ Once(p)
      BY Plans
    <2>3. /\ rows[t][w] \in {0, 1}
          /\ rows[t][w] = 1 =>
               \E i \in 1..Len(p) : p[i].op = "append" /\ p[i].table = t /\ (i < pos[w] \/ (i = pos[w] /\ w \in failed))
          /\ \A i \in 1..Len(p) : i < pos[w] /\ p[i].op = "append" /\ p[i].table = t => rows[t][w] = 1
      BY <1>0 DEF RowInv, Stores
    <2>4. Busy(w) => pos[w] \in 1..Len(p) /\ Next1(w) = p[pos[w]] /\ Table(w) = p[pos[w]].table /\ w \notin failed
      BY PlaceIs DEF Next1, Table, Busy
    <2> HIDE DEF p
    <2>5. CASE rows'[t][w] = rows[t][w] /\ pos'[w] = pos[w] /\ (w \in failed' <=> w \in failed)
      BY <2>1, <2>3, <2>5
    <2>6. CASE /\ Busy(w) /\ Next1(w).op = "ensure" /\ rows'[t][w] = rows[t][w]
               /\ pos'[w] = pos[w] + 1 \/ pos'[w] = pos[w]
      <3>1. p[pos[w]].op # "append"
        BY <2>4, <2>6
      <3>2. \A i \in 1..Len(p) : p[i].op = "append" => (i < pos'[w] <=> i < pos[w]) /\ i # pos[w]
        BY <1>1, <2>2, <2>4, <2>6, <3>1
      <3> QED
        BY <2>1, <2>3, <2>4, <2>6, <3>2
    <2>7. CASE /\ Busy(w) /\ Next1(w).op = "append" /\ SameRows /\ pos'[w] = pos[w] /\ w \in failed'
      BY <2>1, <2>3, <2>7 DEF SameRows
    <2>8. CASE /\ Busy(w) /\ Next1(w).op = "append" /\ OneMore(w)
               /\ pos'[w] = pos[w] + 1 \/ (pos'[w] = pos[w] /\ w \in failed')
      <3> DEFINE k == pos[w]
      <3>1. k \in 1..Len(p) /\ p[k].op = "append" /\ Table(w) = p[k].table /\ k \in Nat
        BY <1>1, <2>4, <2>8
      <3>2. CASE t = p[k].table
        <4>1. rows[t][w] = 0
          <5>1. ASSUME rows[t][w] = 1 PROVE FALSE
            <6>1. PICK i \in 1..Len(p) : p[i].op = "append" /\ p[i].table = t /\ (i < k \/ (i = k /\ w \in failed))
              BY <2>3, <5>1
            <6>2. i = k
              BY <2>2, <3>1, <3>2, <6>1 DEF Once
            <6> QED
              BY <2>4, <2>8, <6>1, <6>2
          <5> QED
            BY <2>3, <5>1
        <4>2. rows'[t][w] = 1
          BY <2>8, <3>1, <3>2, <4>1 DEF OneMore
        <4>3. k < pos'[w] \/ (k = pos'[w] /\ w \in failed')
          BY <2>8, <3>1
        <4> QED
          BY <2>1, <3>1, <3>2, <4>2, <4>3
      <3>3. CASE t # p[k].table
        <4>1. rows'[t][w] = rows[t][w]
          BY <2>8, <3>1, <3>3 DEF OneMore
        <4>2. \A i \in 1..Len(p) : p[i].table = t => i # k
          BY <3>3
        <4>3. \A i \in 1..Len(p) : p[i].table = t => (i < pos'[w] <=> i < k)
          BY <1>1, <2>2, <2>8, <3>1, <4>2
        <4>4. \A i \in 1..Len(p) : i < k => i < pos'[w]
          BY <2>2, <2>8, <3>1
        <4> QED
          BY <2>1, <2>3, <2>4, <2>8, <4>1, <4>3
      <3> QED
        BY <3>2, <3>3
    <2> QED
      BY <1>0, <1>3, <2>5, <2>6, <2>7, <2>8, RowsChange DEF SameRows
  <1> QED
    BY <1>2, <1>3

\* Tables and their creators stay; who starts to create one saw it missing or was
\* refused.
LEMMA ReasonInvNext ==
  ASSUME TrackingTypeOK, TrackingTypeOK', TrackingInv, TrackingActs \/ UNCHANGED trackingVars
  PROVE  ReasonInv'
  <1>0. StartInv /\ PlaceInv /\ ReasonInv
    BY DEF TrackingInv
  <1>1. /\ there \subseteq there' /\ trouble \subseteq trouble'
        /\ \A t \in Tables : \/ creator'[t] = creator[t]
                             \/ t \notin there /\ t \in there' /\ creator'[t] \in Writers
    <2>1. CASE Quiet
      BY <2>1 DEF Quiet
    <2>2. ASSUME NEW w \in Writers, Wrote(w)
          PROVE  /\ there \subseteq there' /\ trouble \subseteq trouble'
                 /\ \A t \in Tables : \/ creator'[t] = creator[t]
                                      \/ t \notin there /\ t \in there' /\ creator'[t] \in Writers
      BY <2>2 DEF Wrote
    <2> QED
      BY <1>0, <2>1, <2>2, QuietOrWrites
  <1>2. \A t \in Tables : creator'[t] \in Writers => t \in there'
    BY <1>0, <1>1 DEF ReasonInv
  <1>3. \A w \in Writers : pos[w] \in Nat /\ pos'[w] \in Nat
    <2>1. pos \in [Writers -> 0..13] /\ pos' \in [Writers -> 0..13]
      BY DEF TrackingTypeOK
    <2> QED
      BY <2>1
  <1> DEFINE Why(w, t) == w \in trouble \/ t \notin there \/ creator[t] \in Writers \ {w}
             Lost(w, t) == w \in trouble \/ creator[t] \in Writers \ {w}
  \* Another writer that creates the table is a reason too.
  <1>4. ASSUME NEW w \in Writers, NEW t \in Tables, Lost(w, t) PROVE Lost(w, t)'
    BY <1>0, <1>1, <1>4 DEF ReasonInv
  <1>5. ASSUME NEW w \in Writers, NEW t \in Tables, Why(w, t), ~(\E v \in {w} : Wrote(v)) PROVE Why(w, t)'
    <2>1. CASE Quiet
      BY <1>5, <2>1 DEF Quiet
    <2>2. ASSUME NEW v \in Writers, v # w, Wrote(v) PROVE Why(w, t)'
      BY <1>0, <1>1, <1>5, <2>2 DEF ReasonInv, Wrote
    <2> QED
      BY <1>0, <1>5, <2>1, <2>2, QuietOrWrites
  <1> HIDE DEF Why, Lost
  <1>6. ASSUME NEW w \in Writers, Busy(w)', call'[w] = "create" PROVE Why(w, Table(w))'
    <2>1. pos[w] # 0
      <3>1. ASSUME pos[w] = 0 PROVE FALSE
        <4>1. ~Busy(w)
          BY <3>1 DEF Busy
        <4>2. pos'[w] > 0 
          BY <1>6 DEF Busy
        <4>3. CASE Quiet
          BY <1>3, <1>6, <3>1, <4>2, <4>3 DEF Quiet
        <4>4. ASSUME NEW v \in Writers, Wrote(v) PROVE FALSE
          BY <1>3, <3>1, <4>1, <4>2, <4>4 DEF Wrote, Stays, Goes, Ends
        <4> QED
          BY <1>0, <4>3, <4>4, QuietOrWrites
      <3> QED
        BY <3>1
    <2>2. Plan(w)' = Plan(w)
      BY <1>0, <1>3, <2>1, PlanStays
    <2>3. CASE Wrote(w)
      <3>1. pos'[w] = pos[w] /\ w \notin failed'
        BY <1>6, <2>3 DEF Wrote, Stays, Goes, Ends, Busy
      <3>2. Table(w)' = Table(w)
        BY <2>2, <3>1 DEF Table, Next1
      <3>3. w \in trouble' \/ Table(w) \notin there'
        BY <1>3, <1>6, <2>3, <3>1 DEF Wrote, Goes, Ends
      <3> QED
        BY <3>2, <3>3 DEF Why
    <2>4. CASE ~Wrote(w)
      <3>1. pos'[w] = pos[w] /\ call'[w] = call[w] /\ (w \in failed' <=> w \in failed)
        <4>1. CASE Quiet
          BY <2>1, <4>1 DEF Quiet
        <4>2. ASSUME NEW v \in Writers, v # w, Wrote(v)
              PROVE  pos'[w] = pos[w] /\ call'[w] = call[w] /\ (w \in failed' <=> w \in failed)
          BY <4>2 DEF Wrote, Stays, Goes, Ends
        <4> QED
          BY <1>0, <2>4, <4>1, <4>2, QuietOrWrites
      <3>2. Busy(w) /\ Table(w)' = Table(w)
        BY <1>6, <2>2, <3>1 DEF Busy, Done, Table, Next1
      <3>3. Table(w) \in Tables
        BY <3>2, PlaceIs DEF Table, Ops
      <3>4. Why(w, Table(w))
        BY <1>0, <1>6, <3>1, <3>2 DEF ReasonInv, Why
      <3>5. PICK t \in Tables : t = Table(w)
        BY <3>3
      <3>6. Why(w, t)'
        BY <1>5, <2>4, <3>4, <3>5
      <3> QED
        BY <3>2, <3>5, <3>6 DEF Why
    <2> QED
      BY <2>3, <2>4
  <1>7. ASSUME NEW w \in failed' PROVE w \in Writers /\ Lost(w, Plan(w)[pos[w]].table)'
    <2>0. w \in Writers
      BY DEF TrackingTypeOK
    <2>1. pos[w] # 0
      <3>1. ASSUME pos[w] = 0 PROVE FALSE
        <4>1. ~Busy(w) /\ w \notin failed
          BY <1>0, <2>0, <3>1 DEF Busy, PlaceInv
        <4>2. CASE Quiet
          BY <1>7, <4>1, <4>2 DEF Quiet
        <4>3. ASSUME NEW v \in Writers, Wrote(v) PROVE FALSE
          BY <1>7, <4>1, <4>3 DEF Wrote, Stays, Goes, Ends
        <4> QED
          BY <1>0, <4>2, <4>3, QuietOrWrites
      <3> QED
        BY <3>1
    <2>2. Plan(w)' = Plan(w)
      BY <1>0, <1>3, <2>0, <2>1, PlanStays
    <2> DEFINE u == Plan(w)[pos[w]].table
    <2>3. CASE w \in failed
      <3>1. pos'[w] = pos[w]
        <4>1. CASE Quiet
          BY <2>0, <2>1, <4>1 DEF Quiet
        <4>2. ASSUME NEW v \in Writers, Wrote(v) PROVE pos'[w] = pos[w]
          BY <2>0, <2>3, <4>2 DEF Wrote, Stays, Goes, Ends, Busy
        <4> QED
          BY <1>0, <4>1, <4>2, QuietOrWrites
      <3>2. PICK t \in Tables : t = u
        <4>1. pos[w] \in 1..Len(Plan(w)) /\ Plan(w) \in Seq(Ops)
          BY <1>0, <2>0, <2>3, Plans DEF PlaceInv
        <4>2. Plan(w)[pos[w]] \in Ops
          BY <4>1, ElementOfSeq
        <4> QED
          BY <4>2 DEF Ops
      <3>3. Lost(w, t)
        BY <1>0, <2>3, <3>2 DEF ReasonInv, LostOnlyByTroubleOrRace, Lost
      <3>4. Lost(w, t)'
        BY <1>4, <2>0, <3>3
      <3> QED
        BY <2>0, <2>2, <3>1, <3>2, <3>4 DEF Lost
    <2>4. CASE w \notin failed
      <3>1. Wrote(w)
        <4>1. ~Quiet
          BY <1>7, <2>4 DEF Quiet
        <4>2. ASSUME NEW v \in Writers, v # w, Wrote(v) PROVE FALSE
          BY <1>7, <2>4, <4>2 DEF Wrote, Stays, Goes, Ends
        <4> QED
          BY <1>0, <4>1, <4>2, QuietOrWrites
      <3>2. pos'[w] = pos[w] /\ (w \in trouble' \/ (call[w] = "create" /\ Table(w) \in there /\ UNCHANGED creator))
        BY <1>3, <1>7, <2>0, <2>4, <3>1 DEF Wrote, Stays, Goes, Ends
      <3>3. w \in trouble' \/ creator'[Table(w)] \in Writers \ {w}
        BY <1>0, <1>1, <3>1, <3>2 DEF ReasonInv, Wrote
      <3>4. Table(w) = u
        BY DEF Table, Next1
      <3> QED
        BY <2>0, <2>2, <3>2, <3>3, <3>4 DEF Lost
    <2> QED
      BY <2>3, <2>4
  <1>8. LostOnlyByTroubleOrRace'
    BY <1>7 DEF Lost, LostOnlyByTroubleOrRace
  <1> QED
    BY <1>2, <1>6, <1>8 DEF ReasonInv, Why

(***************************************************************************)
(* Where the calls are                                                     *)
(***************************************************************************)
LEMMA MadeIs ==
  ASSUME NEW c PROVE c \in Made <=> \E r \in Runs : \E n \in 1..made[r] : c = <<r, n>>
  BY DEF Made, CallsOf

\* How many a run has made.
LEMMA MadeNat ==
  ASSUME TrackingTypeOK, NEW r \in Runs PROVE made[r] \in Nat
  <1>1. made \in [Runs -> 0..MaxCalls] /\ MaxCalls \in Nat
    BY BoundsAssumption DEF TrackingTypeOK
  <1> QED
    BY <1>1

\* A call that is made was not made before.
LEMMA OneMoreMade ==
  ASSUME TrackingTypeOK, NEW r \in Runs, Called(r)
  PROVE  <<r, made[r] + 1>> \notin Made /\ \A c : c \in Made' <=> c \in Made \/ c = <<r, made[r] + 1>>
  <1>1. \A q \in Runs : made[q] \in Nat
    BY MadeNat
  <1>2. \A q \in Runs : made'[q] = IF q = r THEN made[r] + 1 ELSE made[q]
    BY DEF Called
  <1>3. <<r, made[r] + 1>> \notin Made
    BY <1>1, MadeIs
  <1>4. ASSUME NEW c PROVE c \in Made' <=> c \in Made \/ c = <<r, made[r] + 1>>
    <2>1. c \in Made' <=> \E q \in Runs : \E n \in 1..made'[q] : c = <<q, n>>
      BY DEF Made, CallsOf
    <2>2. c \in Made' => c \in Made \/ c = <<r, made[r] + 1>>
      BY <1>1, <1>2, <2>1, MadeIs
    <2>3. c \in Made => c \in Made'
      BY <1>1, <1>2, <2>1, MadeIs
    <2>4. made[r] + 1 \in 1..made'[r]
      BY <1>1, <1>2
    <2>5. c = <<r, made[r] + 1>> => c \in Made'
      BY <2>1, <2>4
    <2> QED
      BY <2>2, <2>3, <2>5
  <1> QED
    BY <1>3, <1>4

\* A new call goes to one buffer, and a run's buffer to its row.
LEMMA PlacedInvNext ==
  ASSUME TrackingTypeOK, TrackingTypeOK', TrackingInv, TrackingActs \/ UNCHANGED trackingVars
  PROVE  PlacedInv'
  <1>0. LifeInv /\ StartInv /\ PlacedInv /\ (TrackingActs \/ UNCHANGED trackingVars)
    BY DEF TrackingInv
  <1>1. ASSUME UNCHANGED <<backend, made, buffer, taken>>, sqlite'.calls = sqlite.calls PROVE PlacedInv'
    BY <1>0, <1>1 DEF PlacedInv, Made, CallsOf, In
  <1>2. ASSUME NEW r \in Runs, Called(r) PROVE PlacedInv'
    <2> DEFINE k == <<r, made[r] + 1>>
    <2>1. k \notin Made /\ (\A c : c \in Made' <=> c \in Made \/ c = k) /\ UNCHANGED <<backend, taken>>
      BY <1>2, OneMoreMade DEF Called, SameRecords
    <2> HIDE DEF k
    <2>2. CASE backend = "sqlite"
      <3>1. sqlite'.calls = sqlite.calls \cup {k}
        <4>1. sqlite' = [sqlite EXCEPT !.calls = @ \cup {k}]
          BY <1>2, <2>2 DEF Called, k
        <4>2. sqlite \in [calls : SUBSET Calls, up : SUBSET Ratings, down : SUBSET Ratings]
          BY DEF TrackingTypeOK
        <4> QED
          BY <4>1, <4>2
      <3> QED
        BY <1>0, <2>1, <2>2, <3>1 DEF PlacedInv
    <2>3. CASE backend # "sqlite"
      <3> DEFINE z == <<sink, ctx>>
      <3>1. z \in Bins
        BY <1>0, <1>2 DEF LifeInv, Called, Running, Bins, TrackingTypeOK
      <3>2. \A p \in Bins : In(p)' = IF p = z THEN In(p) \cup {k} ELSE In(p)
        BY <1>2, <2>3 DEF Called, In, k
      <3> HIDE DEF z
      <3>3. (\A p \in Bins : k \notin In(p)) /\ (\A w \in Writers : k \notin taken[w])
        BY <1>0, <2>1, <2>3 DEF PlacedInv
      <3>4. \A c \in Made' : (\E p \in Bins : c \in In(p)') \/ (\E w \in Writers : c \in taken'[w])
        BY <1>0, <2>1, <2>3, <3>1, <3>2 DEF PlacedInv
      <3>5. /\ \A p \in Bins : \A c \in In(p)' : c \in Made'
            /\ \A w \in Writers : \A c \in taken'[w] : c \in Made'
        BY <1>0, <2>1, <2>3, <3>1, <3>2 DEF PlacedInv
      <3>6. \A p, q \in Bins : \A c \in In(p)' : p # q => c \notin In(q)'
        BY <1>0, <2>3, <3>2, <3>3 DEF PlacedInv
      <3>7. \A p \in Bins, w \in Writers : \A c \in In(p)' : c \notin taken'[w]
        BY <1>0, <2>1, <2>3, <3>2, <3>3 DEF PlacedInv
      <3>8. \A v, w \in Writers : \A c \in taken'[v] : v # w => c \notin taken'[w]
        BY <1>0, <2>1, <2>3 DEF PlacedInv
      <3> QED
        BY <2>1, <2>3, <3>4, <3>5, <3>6, <3>7, <3>8 DEF PlacedInv
    <2> QED
      BY <2>2, <2>3
  <1>3. ASSUME NEW r \in Runs, Recorded(r) PROVE PlacedInv'
    <2>1. CASE backend = "sqlite"
      BY <1>1, <1>3, <2>1 DEF Recorded
    <2>2. CASE backend # "sqlite"
      <3> DEFINE z == <<session[r], r>>
      <3>1. z \in Bins /\ r \in Writers /\ taken[r] = {} /\ Made' = Made /\ backend' = backend
        <4>1. session[r] \in Sessions
          BY <1>0, <1>3 DEF LifeInv, Recorded, TrackingTypeOK
        <4>2. r \in Writers /\ taken[r] = {}
          BY <1>0, <1>3 DEF StartInv, Recorded, Writers
        <4> QED
          BY <1>3, <4>1, <4>2 DEF Recorded, Bins, Made, CallsOf
      <3>2. /\ \A p \in Bins : In(p)' = IF p = z THEN {} ELSE In(p)
            /\ \A w \in Writers : taken'[w] = IF w = r THEN In(z) ELSE taken[w]
        BY <1>3, <2>2 DEF Recorded, In
      <3> HIDE DEF z
      <3>3. /\ \A c \in Made : (\E p \in Bins : c \in In(p)) \/ (\E w \in Writers : c \in taken[w])
            /\ \A p \in Bins : \A c \in In(p) : c \in Made
            /\ \A w \in Writers : \A c \in taken[w] : c \in Made
            /\ \A p, q \in Bins : \A c \in In(p) : p # q => c \notin In(q)
            /\ \A p \in Bins, w \in Writers : \A c \in In(p) : c \notin taken[w]
            /\ \A v, w \in Writers : \A c \in taken[v] : v # w => c \notin taken[w]
        BY <1>0, <2>2 DEF PlacedInv
      <3>4. \A c \in Made' : (\E p \in Bins : c \in In(p)') \/ (\E w \in Writers : c \in taken'[w])
        BY <3>1, <3>2, <3>3
      <3>5. /\ \A p \in Bins : \A c \in In(p)' : c \in Made'
            /\ \A w \in Writers : \A c \in taken'[w] : c \in Made'
        BY <3>1, <3>2, <3>3
      <3>6. \A p, q \in Bins : \A c \in In(p)' : p # q => c \notin In(q)'
        BY <3>2, <3>3
      <3>7. \A p \in Bins, w \in Writers : \A c \in In(p)' : c \notin taken'[w]
        BY <3>1, <3>2, <3>3
      <3>8. \A v, w \in Writers : \A c \in taken'[v] : v # w => c \notin taken'[w]
        BY <3>1, <3>2, <3>3
      <3> QED
        BY <2>2, <3>1, <3>4, <3>5, <3>6, <3>7, <3>8 DEF PlacedInv
    <2> QED
      BY <2>1, <2>2
  <1>4. ASSUME NEW r \in Runs, NEW s \in Sessions, Started(r, s) PROVE PlacedInv'
    BY <1>1, <1>4 DEF Started, SameRecords
  <1>5. ASSUME NEW r \in Runs, Resumed(r) \/ Returned(r) PROVE PlacedInv'
    BY <1>1, <1>5 DEF Resumed, Returned, SameRecords
  <1>6. ASSUME NEW f \in Ratings, NEW v \in {-1, 1}, Clicked(f, v) PROVE PlacedInv'
    BY <1>1, <1>6 DEF Clicked
  <1>7. ASSUME NEW w \in Backfills \cup Scripts, Scripted(w) PROVE PlacedInv'
    BY <1>1, <1>7 DEF Scripted
  <1>8. ASSUME NEW w \in Writers, Wrote(w) PROVE PlacedInv'
    BY <1>1, <1>8 DEF Wrote, SameRecords
  <1>9. ASSUME UNCHANGED trackingVars PROVE PlacedInv'
    BY <1>1, <1>9 DEF trackingVars, telemetryVars, recordVars
  <1> QED
    BY <1>0, <1>2, <1>3, <1>4, <1>5, <1>6, <1>7, <1>8, <1>9 DEF TrackingActs

\* A run beside no other.
LEMMA LoneInvNext ==
  ASSUME TrackingTypeOK, TrackingTypeOK', TrackingInv, TrackingActs \/ UNCHANGED trackingVars
  PROVE  LoneInv'
  <1>0. LifeInv /\ StartInv /\ LoneInv /\ (TrackingActs \/ UNCHANGED trackingVars)
    BY DEF TrackingInv
  <1>types. /\ life \in [Runs -> {"new", "invoked", "waiting", "resumed", "over"}]
        /\ session \in [Runs -> Sessions \cup {NoSession}] /\ NoSession \notin Sessions
        /\ Runs \subseteq Writers
    BY WritersAssumption DEF TrackingTypeOK, Writers
  <1>1. ASSUME UNCHANGED <<backend, made, buffer, life, beside, ctx, session, sink>>,
               \A r \in Runs : taken'[r] = taken[r] /\ status'[r] = status[r]
        PROVE  LoneInv'
    BY <1>0, <1>1 DEF LoneInv, CallsOf, Running
  <1> DEFINE Alone(q) ==
        /\ life[q] \in {"invoked", "resumed"} => Running \subseteq {q}
        /\ life[q] = "invoked" => ctx = q /\ (session[q] = sink => buffer[sink][q] = CallsOf(q))
        /\ status[q] = "complete" => life[q] = "over" /\ (session[q] = sink => taken[q] = CallsOf(q))
  <1>2. ASSUME NEW r \in Runs, NEW s \in Sessions, Started(r, s) PROVE LoneInv'
    <2> SUFFICES ASSUME NEW q \in Runs, backend' = "bigquery", beside'[q] = {} PROVE Alone(q)'
      BY DEF LoneInv
    <2>1. /\ \A p \in Runs : life'[p] = IF p = r THEN "invoked" ELSE life[p]
          /\ \A p \in Runs : session'[p] = IF p = r THEN s ELSE session[p]
          /\ life[r] = "new" /\ ctx' = r /\ sink' = (IF s \in opened THEN sink ELSE s) /\ backend = "bigquery"
          /\ UNCHANGED <<made, buffer, taken, status>> /\ CallsOf(q)' = CallsOf(q)
      BY <1>2 DEF Started, SameRecords, CallsOf
    <2>2. CASE q = r
      <3>1. Running = {} /\ Running' \subseteq {r}
        BY <1>2, <2>1, <2>2 DEF Started, Beside, Running
      <3>2. CallsOf(r) = {} /\ \A z \in Sessions : buffer[z][r] = {}
        BY <1>0, <2>1 DEF LifeInv, CallsOf
      <3>3. status[r] = "none"
        BY <1>0, <2>1 DEF StartInv
      <3> QED
        BY <2>1, <2>2, <3>1, <3>2, <3>3
    <2>3. CASE q # r
      <3>1. q \notin Running /\ beside[q] = {} /\ life'[q] = life[q]
        BY <1>2, <2>1, <2>3 DEF Started, Beside
      <3>2. life[q] \notin {"invoked", "resumed"}
        BY <3>1 DEF Running
      <3>3. session[q] = sink' /\ life[q] # "new" => session[q] = sink
        BY <1>0, <2>1 DEF LifeInv
      <3> QED
        BY <1>0, <2>1, <2>3, <3>1, <3>2, <3>3 DEF LoneInv
    <2> QED
      BY <2>2, <2>3
  <1>3. ASSUME NEW r \in Runs, Called(r) PROVE LoneInv'
    <2> SUFFICES ASSUME NEW q \in Runs, backend' = "bigquery", beside'[q] = {} PROVE Alone(q)'
      BY DEF LoneInv
    <2>1. UNCHANGED <<backend, life, beside, ctx, session, sink, taken, status>> /\ Running' = Running
      BY <1>3 DEF Called, SameRecords, Running
    <2>2. Alone(q) /\ backend = "bigquery"
      BY <1>0, <2>1 DEF LoneInv
    <2>3. CASE q = r
      <3>1. q \in Running /\ made'[q] = made[q] + 1 /\ made[q] \in Nat
        BY <1>3, <2>3, MadeNat DEF Called
      <3>2. CallsOf(q)' = CallsOf(q) \cup {<<q, made[q] + 1>>}
        BY <3>1 DEF CallsOf
      <3>3. life[q] = "invoked" => buffer'[sink][q] = buffer[sink][q] \cup {<<q, made[q] + 1>>}
        <4>1. sink \in Sessions /\ <<sink, q>> \in Bins
          BY <1>0, <3>1 DEF LifeInv, Running, Bins, TrackingTypeOK
        <4>2. ASSUME life[q] = "invoked"
              PROVE  buffer'[<<sink, q>>[1]][<<sink, q>>[2]] = buffer[<<sink, q>>[1]][<<sink, q>>[2]] \cup {<<q, made[q] + 1>>}
          BY <1>3, <2>2, <2>3, <4>1, <4>2 DEF Called
        <4> QED
          BY <4>2
      <3>4. status[q] # "complete"
        BY <2>2, <3>1 DEF Running
      <3> QED
        BY <2>1, <2>2, <3>2, <3>3, <3>4
    <2>4. CASE q # r
      <3>1. r \in Running /\ made'[q] = made[q]
        BY <1>3, <2>4 DEF Called
      <3>2. q \notin Running /\ CallsOf(q)' = CallsOf(q)
        BY <2>2, <2>4, <3>1 DEF Running, CallsOf
      <3> QED
        BY <2>1, <2>2, <3>2 DEF Running
    <2> QED
      BY <2>3, <2>4
  <1>4. ASSUME NEW r \in Runs, Recorded(r) PROVE LoneInv'
    <2> SUFFICES ASSUME NEW q \in Runs, backend' = "bigquery", beside'[q] = {} PROVE Alone(q)'
      BY DEF LoneInv
    <2>1. /\ UNCHANGED <<backend, beside, ctx, session, sink, made>> /\ life[r] = "invoked"
          /\ life'[r] \in {"waiting", "over"} /\ \A p \in Runs : p # r => life'[p] = life[p]
          /\ CallsOf(q)' = CallsOf(q) /\ backend = "bigquery"
      BY <1>4 DEF Recorded, CallsOf
    <2>2. Alone(q)
      BY <1>0, <2>1 DEF LoneInv
    <2>3. /\ taken'[r] = buffer[session[r]][r] /\ (status'[r] = "complete" => life'[r] = "over")
          /\ \A p \in Runs : p # r => taken'[p] = taken[p] /\ status'[p] = status[p]
          /\ \A p \in Bins : buffer'[p[1]][p[2]] = IF p = <<session[r], r>> THEN {} ELSE buffer[p[1]][p[2]]
      BY <1>4, <1>types, <2>1 DEF Recorded
    <2>4. CASE q = r
      BY <2>1, <2>2, <2>3, <2>4
    <2>5. CASE q # r
      <3>1. Running' \subseteq Running
        BY <2>1 DEF Running
      <3>2. r \in Running /\ q \notin Running
        BY <2>1, <2>2, <2>5 DEF Running
      <3>3. life[q] \notin {"invoked", "resumed"}
        BY <3>2 DEF Running
      <3> QED
        BY <2>1, <2>2, <2>3, <2>5, <3>3
    <2> QED
      BY <2>4, <2>5
  <1>5. ASSUME NEW r \in Runs, Resumed(r) PROVE LoneInv'
    <2> SUFFICES ASSUME NEW q \in Runs, backend' = "bigquery", beside'[q] = {} PROVE Alone(q)'
      BY DEF LoneInv
    <2>1. /\ UNCHANGED <<backend, ctx, session, sink, made, buffer, taken, status>> /\ CallsOf(q)' = CallsOf(q)
          /\ life[r] = "waiting" /\ \A p \in Runs : life'[p] = IF p = r THEN "resumed" ELSE life[p]
      BY <1>5 DEF Resumed, SameRecords, CallsOf
    <2>2. beside[q] = {}
      BY <1>5, <2>1 DEF Resumed, Beside
    <2>3. Alone(q)
      BY <1>0, <2>1, <2>2 DEF LoneInv
    <2>4. CASE q = r
      <3>1. Running' \subseteq {r}
        BY <1>5, <2>1, <2>4 DEF Resumed, Beside, Running
      <3> QED
        BY <2>1, <2>3, <2>4, <3>1
    <2>5. CASE q # r
      <3>1. q \notin Running
        BY <1>5, <2>5 DEF Resumed, Beside
      <3> QED
        BY <2>1, <2>3, <2>5, <3>1 DEF Running
    <2> QED
      BY <2>4, <2>5
  <1>6. ASSUME NEW r \in Runs, Returned(r) PROVE LoneInv'
    <2> SUFFICES ASSUME NEW q \in Runs, backend' = "bigquery", beside'[q] = {} PROVE Alone(q)'
      BY DEF LoneInv
    <2>1. /\ UNCHANGED <<backend, ctx, session, sink, made, buffer, taken, status, beside>> /\ CallsOf(q)' = CallsOf(q)
          /\ life[r] = "resumed" /\ \A p \in Runs : life'[p] = IF p = r THEN "over" ELSE life[p]
          /\ Running' \subseteq Running
      BY <1>6 DEF Returned, SameRecords, CallsOf, Running
    <2>2. Alone(q)
      BY <1>0, <2>1 DEF LoneInv
    <2> QED
      BY <2>1, <2>2
  <1>7. ASSUME NEW f \in Ratings, NEW v \in {-1, 1}, Clicked(f, v) PROVE LoneInv'
    BY <1>1, <1>7 DEF Clicked
  <1>8. ASSUME NEW w \in Backfills \cup Scripts, Scripted(w) PROVE LoneInv'
    <2>1. \A r \in Runs : r # w
      BY Apart
    <2> QED
      BY <1>1, <1>8, <1>types, <2>1 DEF Scripted
  <1>9. ASSUME NEW w \in Writers, Wrote(w) PROVE LoneInv'
    BY <1>1, <1>9 DEF Wrote, SameRecords
  <1>10. ASSUME UNCHANGED trackingVars PROVE LoneInv'
    BY <1>1, <1>10 DEF trackingVars, telemetryVars, recordVars
  <1> QED
    BY <1>0, <1>2, <1>3, <1>4, <1>5, <1>6, <1>7, <1>8, <1>9, <1>10 DEF TrackingActs

\* The local table has the clicks.
LEMMA ClickInvNext ==
  ASSUME TrackingTypeOK, TrackingTypeOK', TrackingInv, TrackingActs \/ UNCHANGED trackingVars
  PROVE  ClickInv'
  <1>0. ClickInv /\ (TrackingActs \/ UNCHANGED trackingVars) /\ Ratings \subseteq Writers
    BY DEF TrackingInv, Writers
  <1>1. ASSUME UNCHANGED <<backend, rating>>, sqlite'.up = sqlite.up, sqlite'.down = sqlite.down PROVE ClickInv'
    BY <1>0, <1>1 DEF ClickInv
  <1>2. ASSUME NEW f \in Ratings, NEW v \in {-1, 1}, Clicked(f, v) PROVE ClickInv'
    <2> SUFFICES ASSUME backend = "sqlite"
                 PROVE  /\ sqlite'.up = {g \in Ratings : rating'[g] = 1}
                        /\ sqlite'.down = {g \in Ratings : rating'[g] = -1}
      BY <1>2 DEF Clicked, ClickInv
    <2>1. /\ \A g \in Ratings : rating'[g] = IF g = f THEN v ELSE rating[g]
          /\ rating[f] = 0
          /\ sqlite.up = {g \in Ratings : rating[g] = 1} /\ sqlite.down = {g \in Ratings : rating[g] = -1}
      BY <1>0, <1>2 DEF Clicked, ClickInv
    <2>2. CASE v = 1
      <3>1. sqlite'.up = sqlite.up \cup {f} /\ sqlite'.down = sqlite.down
        BY <1>2, <2>2 DEF Clicked
      <3> QED
        BY <2>1, <2>2, <3>1
    <2>3. CASE v = -1
      <3>1. sqlite'.up = sqlite.up /\ sqlite'.down = sqlite.down \cup {f}
        BY <1>2, <2>3 DEF Clicked
      <3> QED
        BY <2>1, <2>3, <3>1
    <2> QED
      BY <2>2, <2>3
  <1>3. ASSUME NEW r \in Runs, NEW s \in Sessions, Started(r, s) PROVE ClickInv'
    BY <1>1, <1>3 DEF Started, SameRecords
  <1>4. ASSUME NEW r \in Runs, Called(r) PROVE ClickInv'
    <2>1. sqlite'.up = sqlite.up /\ sqlite'.down = sqlite.down
      <3>1. UNCHANGED sqlite \/ sqlite' = [sqlite EXCEPT !.calls = @ \cup {<<r, made[r] + 1>>}]
        BY <1>4 DEF Called
      <3>2. sqlite \in [calls : SUBSET Calls, up : SUBSET Ratings, down : SUBSET Ratings]
        BY DEF TrackingTypeOK
      <3> QED
        BY <3>1, <3>2
    <2> QED
      BY <1>1, <1>4, <2>1 DEF Called, SameRecords
  <1>5. ASSUME NEW r \in Runs, Recorded(r) \/ Resumed(r) \/ Returned(r) PROVE ClickInv'
    BY <1>1, <1>5 DEF Recorded, Resumed, Returned, SameRecords
  <1>6. ASSUME NEW w \in Backfills \cup Scripts, Scripted(w) PROVE ClickInv'
    BY <1>1, <1>6 DEF Scripted
  <1>7. ASSUME NEW w \in Writers, Wrote(w) PROVE ClickInv'
    BY <1>1, <1>7 DEF Wrote, SameRecords
  <1>8. ASSUME UNCHANGED trackingVars PROVE ClickInv'
    BY <1>1, <1>8 DEF trackingVars, recordVars
  <1> QED
    BY <1>0, <1>2, <1>3, <1>4, <1>5, <1>6, <1>7, <1>8 DEF TrackingActs

(***************************************************************************)
(* What the console adds up                                                *)
(***************************************************************************)
LEMMA AsMany ==
  ASSUME NEW S, IsFiniteSet(S), NEW T, NEW f \in [S -> T],
         \A x, y \in S : f[x] = f[y] => x = y, \A t \in T : \E x \in S : f[x] = t
  PROVE  IsFiniteSet(T) /\ Cardinality(T) = Cardinality(S)
  <1>1. f \in Bijection(S, T)
    BY DEF Bijection, Injection, Surjection, IsInjective
  <1>2. ExistsBijection(S, T)
    BY <1>1 DEF ExistsBijection
  <1> QED
    BY <1>2, FS_Bijection

\* With every row stored once, a table is its writers' rows.
LEMMA TableIs ==
  ASSUME RowInv, NEW t \in Tables, NEW e
  PROVE  e \in InTable(t) <=> \E w \in Writers : rows[t][w] = 1 /\ e = <<w, 1>>
  <1>1. ASSUME NEW w \in Writers
        PROVE  e \in {w} \X (1..rows[t][w]) <=> rows[t][w] = 1 /\ e = <<w, 1>>
    <2>1. CASE rows[t][w] = 1
      <3>1. 1..1 = {1}
        OBVIOUS
      <3> QED
        BY <2>1, <3>1
    <2>2. CASE rows[t][w] = 0
      <3>1. 1..0 = {}
        OBVIOUS
      <3> QED
        BY <2>2, <3>1
    <2> QED
      BY <2>1, <2>2 DEF RowInv
  <1> QED
    BY <1>1 DEF InTable

\* Finitely many calls were made.
LEMMA MadeIsFinite ==
  ASSUME TrackingTypeOK PROVE IsFiniteSet(Made)
  <1>1. IsFiniteSet(Calls)
    <2>1. IsFiniteSet(1..MaxCalls)
      BY BoundsAssumption, FS_Interval
    <2> QED
      BY <2>1, FiniteAssumption, FS_Product DEF Calls
  <1>2. Made \subseteq Calls
    <2>1. \A r \in Runs : made[r] \in 0..MaxCalls /\ MaxCalls \in Nat
      BY BoundsAssumption DEF TrackingTypeOK
    <2>2. \A r \in Runs : 1..made[r] \subseteq 1..MaxCalls
      BY <2>1
    <2> QED
      BY <2>2 DEF Made, CallsOf, Calls
  <1> QED
    BY <1>1, <1>2, FS_Subset

\* The tokens of any rows of the jobs' table are the calls that went into them.
LEMMA TokensOfRows ==
  ASSUME TrackingTypeOK, RowInv, PlacedInv, backend # "sqlite", NEW Q \in SUBSET InTable("job")
  PROVE  LET S == {c \in Made : \E w \in Writers : c \in taken[w] /\ <<w, 1>> \in Q}
         IN  /\ IsFiniteSet(S)
             /\ Cardinality(UNION {{row} \X JobRow(row[1]).total_tokens : row \in Q}) = Cardinality(S)
  <1> DEFINE S == {c \in Made : \E w \in Writers : c \in taken[w] /\ <<w, 1>> \in Q}
             T == UNION {{row} \X taken[row[1]] : row \in Q}
             of(c) == CHOOSE w \in Writers : c \in taken[w] /\ <<w, 1>> \in Q
             f == [c \in S |-> <<<<of(c), 1>>, c>>]
  <1>1. IsFiniteSet(S)
    BY MadeIsFinite, FS_Subset
  <1>2. \A row \in Q : \E w \in Writers : row = <<w, 1>>
    <2>1. "job" \in Tables
      BY DEF Tables
    <2> QED
      BY <2>1, TableIs
  <1>4. ASSUME NEW c \in S
        PROVE  of(c) \in Writers /\ c \in taken[of(c)] /\ <<of(c), 1>> \in Q
    OBVIOUS
  <1>5. \A v, w \in Writers : \A c : c \in taken[v] /\ c \in taken[w] => v = w
    BY DEF PlacedInv
  <1>6. ASSUME NEW e PROVE e \in T <=> \E w \in Writers : <<w, 1>> \in Q /\ \E c \in taken[w] : e = <<<<w, 1>>, c>>
    <2>1. e \in T <=> \E row \in Q : \E c \in taken[row[1]] : e = <<row, c>>
      OBVIOUS
    <2>2. ASSUME NEW row \in Q, NEW c \in taken[row[1]], e = <<row, c>>
          PROVE  \E w \in Writers : <<w, 1>> \in Q /\ \E d \in taken[w] : e = <<<<w, 1>>, d>>
      <3>1. PICK w \in Writers : row = <<w, 1>>
        BY <1>2
      <3> QED
        BY <2>2, <3>1
    <2>3. ASSUME NEW w \in Writers, <<w, 1>> \in Q, NEW c \in taken[w], e = <<<<w, 1>>, c>>
          PROVE  \E row \in Q : \E d \in taken[row[1]] : e = <<row, d>>
      <3>1. c \in taken[<<w, 1>>[1]]
        OBVIOUS
      <3> QED
        BY <2>3, <3>1
    <2> QED
      BY <2>1, <2>2, <2>3
  <1>7. ASSUME NEW c \in S PROVE <<<<of(c), 1>>, c>> \in T
    BY <1>4, <1>6
  <1>8. ASSUME NEW e \in T PROVE \E c \in S : e = <<<<of(c), 1>>, c>>
    <2>1. PICK w \in Writers : <<w, 1>> \in Q /\ \E c \in taken[w] : e = <<<<w, 1>>, c>>
      BY <1>6
    <2>2. PICK c \in taken[w] : e = <<<<w, 1>>, c>>
      BY <2>1
    <2>3. c \in S
      BY <2>1 DEF PlacedInv
    <2>4. of(c) = w
      BY <1>4, <1>5, <2>3
    <2> QED
      BY <2>2, <2>3, <2>4
  <1> HIDE DEF S, T, of
  <1>9. f \in [S -> T] /\ (\A t \in T : \E c \in S : f[c] = t)
    BY <1>7, <1>8
  <1>10. \A c, d \in S : f[c] = f[d] => c = d
    OBVIOUS
  <1> HIDE DEF f
  <1>11. Cardinality(T) = Cardinality(S)
    BY <1>1, <1>9, <1>10, AsMany
  <1>12. T = UNION {{row} \X JobRow(row[1]).total_tokens : row \in Q}
    BY DEF T, JobRow
  <1> QED
    BY <1>1, <1>11, <1>12 DEF S

\* The console's tokens are the calls whose row was stored, as long as its query
\* reads all rows, and no more than those otherwise.
LEMMA AllTokens ==
  ASSUME TrackingTypeOK, RowInv, PlacedInv, backend # "sqlite", NEW a \in llm_summary
  PROVE  LET S == {c \in Made : \E w \in Writers : c \in taken[w] /\ rows["job"][w] > 0}
         IN  /\ a.tokens <= Cardinality(S)
             /\ Cardinality(InTable("job")) <= RowLimit => a.tokens = Cardinality(S)
  <1> DEFINE S == {c \in Made : \E w \in Writers : c \in taken[w] /\ rows["job"][w] > 0}
             R == InTable("job")
  <1>1. PICK Q \in Limited(R) :
          a.tokens = Cardinality(UNION {{row} \X JobRow(row[1]).total_tokens : row \in Q})
    BY DEF llm_summary
  <1>2. Q \subseteq R /\ (Cardinality(R) <= RowLimit => Q = R)
    BY DEF Limited
  <1> DEFINE SQ == {c \in Made : \E w \in Writers : c \in taken[w] /\ <<w, 1>> \in Q}
  <1>3. IsFiniteSet(SQ) /\ a.tokens = Cardinality(SQ)
    BY <1>1, <1>2, TokensOfRows
  <1>4. \A w \in Writers : <<w, 1>> \in R <=> rows["job"][w] > 0
    <2>1. "job" \in Tables
      BY DEF Tables
    <2> QED
      BY <2>1, TableIs DEF RowInv
  <1>5. IsFiniteSet(S)
    BY MadeIsFinite, FS_Subset
  <1>6. SQ \subseteq S /\ (Q = R => SQ = S)
    BY <1>2, <1>4
  <1> HIDE DEF S, SQ, R
  <1>7. Cardinality(SQ) <= Cardinality(S)
    BY <1>5, <1>6, FS_Subset
  <1> QED
    BY <1>2, <1>3, <1>6, <1>7 DEF S, R

\* The console's thumbs are the clicks that were stored, within its query's limit,
\* or none after a query that failed.
LEMMA AllThumbs ==
  ASSUME TrackingTypeOK, StartInv, PlaceInv, RowInv, ClickInv
  PROVE  FeedbackIsCounted
  <1>0. "scores" \in Tables /\ Ratings \subseteq Writers
    BY DEF Tables, Writers
  <1>1. rating \in [Writers -> {-1, 0, 1}] /\ backend \in {"bigquery", "sqlite"}
    BY DEF TrackingTypeOK
  <1>2. CASE backend = "sqlite"
    <2>1. feedback_summary = {[up   |-> Cardinality({f \in Ratings : rating[f] = 1}),
                               down |-> Cardinality({f \in Ratings : rating[f] = -1})]}
      BY <1>2 DEF feedback_summary, ClickInv
    <2> QED
      BY <1>2, <2>1 DEF FeedbackIsCounted
  <1>3. CASE backend = "bigquery"
    <2> DEFINE K(v) == {f \in Ratings : rating[f] = v /\ rows["scores"][f] = 1}
    <2>1. ASSUME NEW v \in {-1, 1}, NEW R, R \subseteq InTable("scores"), NEW k \in SUBSET K(v),
                 \A w \in Writers : <<w, 1>> \in R <=> w \in k
          PROVE  IsFiniteSet(k) /\ IsFiniteSet(R) /\ Cardinality(R) = Cardinality(k)
      <3> DEFINE g == [f \in k |-> <<f, 1>>]
      <3>1. IsFiniteSet(k) /\ k \subseteq Writers
        BY <1>0, FiniteAssumption, FS_Subset
      <3>2. \A f \in k : <<f, 1>> \in R
        BY <2>1, <3>1
      <3>3. ASSUME NEW e \in R PROVE \E f \in k : e = <<f, 1>>
        BY <1>0, <2>1, TableIs
      <3>4. g \in [k -> R] /\ \A e \in R : \E f \in k : g[f] = e
        BY <3>2, <3>3
      <3>5. \A x, y \in k : g[x] = g[y] => x = y
        OBVIOUS
      <3> HIDE DEF g
      <3>6. IsFiniteSet(R) /\ Cardinality(R) = Cardinality(k)
        BY <3>1, <3>4, <3>5, AsMany
      <3> QED
        BY <3>1, <3>6
    <2> SUFFICES ASSUME NEW a \in feedback_summary, a # NoThumbs
                 PROVE  \/ /\ a = [up |-> Cardinality(K(1)), down |-> Cardinality(K(-1))]
                           /\ Cardinality(K(1)) + Cardinality(K(-1)) <= RowLimit
                        \/ /\ Cardinality(K(1)) + Cardinality(K(-1)) > RowLimit
                           /\ a.up <= Cardinality(K(1)) /\ a.down <= Cardinality(K(-1))
                           /\ a.up + a.down = RowLimit
      BY <1>3 DEF FeedbackIsCounted
    <2>2. PICK Q \in Limited(RatingRows) : a = Thumbs(Q)
      BY <1>3 DEF feedback_summary
    <2>3. /\ Q \subseteq RatingRows /\ RatingRows \subseteq InTable("scores")
          /\ IF Cardinality(RatingRows) <= RowLimit THEN Q = RatingRows ELSE Cardinality(Q) = RowLimit
      BY <2>2 DEF Limited, RatingRows
    <2> DEFINE Of(v, P) == {row \in P : rating[row[1]] = v}
               k(v) == {f \in K(v) : <<f, 1>> \in Q}
    <2>4. ASSUME NEW row \in RatingRows
          PROVE  /\ row = <<row[1], 1>> /\ row[1] \in Ratings /\ rows["scores"][row[1]] = 1
                 /\ ScoreRow(row[1]).feedback_rating = rating[row[1]]
                 /\ rating[row[1]] \in {-1, 1}
      <3>1. row \in InTable("scores") /\ row[1] \in Ratings
        BY DEF RatingRows
      <3>2. PICK w \in Writers : rows["scores"][w] = 1 /\ row = <<w, 1>>
        BY <1>0, <3>1, TableIs
      <3>3. row[1] = w /\ w \in Ratings
        BY <3>1, <3>2
      <3>4. rating[w] # 0
        <4>1. \E i \in 1..Len(Plan(w)) : i < pos[w] \/ (i = pos[w] /\ w \in failed)
          BY <1>0, <3>2 DEF RowInv
        <4>2. pos[w] # 0
          <5>1. Len(Plan(w)) \in 1..12
            BY Plans
          <5>2. pos[w] \in 0..13
            BY <3>2 DEF TrackingTypeOK
          <5> QED
            BY <4>1, <5>1, <5>2
        <4> QED
          BY <3>3, <4>2 DEF StartInv
      <3> QED
        BY <1>1, <3>2, <3>3, <3>4 DEF ScoreRow
    <2>5. \A f \in Ratings : <<f, 1>> \in RatingRows <=> rows["scores"][f] = 1
      BY <1>0, TableIs DEF RatingRows
    <2>6. /\ {row \in Q : ScoreRow(row[1]).feedback_rating > 0} = Of(1, Q)
          /\ {row \in Q : ScoreRow(row[1]).feedback_rating < 0} = Of(-1, Q)
      BY <2>3, <2>4
    <2>7. a.up = Cardinality(Of(1, Q)) /\ a.down = Cardinality(Of(-1, Q))
          /\ a = [up |-> a.up, down |-> a.down]
      BY <2>2, <2>6 DEF Thumbs
    <2>8. ASSUME NEW v \in {-1, 1}, NEW P \in SUBSET RatingRows
          PROVE  LET m == {f \in K(v) : <<f, 1>> \in P} IN
                 /\ IsFiniteSet(m) /\ IsFiniteSet(Of(v, P)) /\ Cardinality(Of(v, P)) = Cardinality(m)
      <3> DEFINE m == {f \in K(v) : <<f, 1>> \in P}
      <3>1. ASSUME NEW w \in Writers PROVE <<w, 1>> \in Of(v, P) <=> w \in m
        BY <2>4
      <3>2. Of(v, P) \subseteq InTable("scores") /\ m \subseteq K(v)
        BY <2>3
      <3> QED
        BY <2>1, <3>1, <3>2
    <2>9. ASSUME NEW v \in {-1, 1}
          PROVE  /\ {f \in K(v) : <<f, 1>> \in RatingRows} = K(v)
                 /\ IsFiniteSet(K(v)) /\ Cardinality(k(v)) <= Cardinality(K(v))
                 /\ Cardinality(k(v)) \in Nat /\ Cardinality(K(v)) \in Nat
      <3>1. {f \in K(v) : <<f, 1>> \in RatingRows} = K(v)
        BY <2>5
      <3>2. IsFiniteSet(K(v)) /\ k(v) \subseteq K(v)
        BY FiniteAssumption, FS_Subset
      <3> QED
        BY <3>1, <3>2, FS_Subset, FS_CardinalityType
    <2>10. ASSUME NEW P \in SUBSET RatingRows
           PROVE  Cardinality(P) = Cardinality(Of(1, P)) + Cardinality(Of(-1, P))
      <3> DEFINE A == Of(1, P)
                 B == Of(-1, P)
      <3>1. P = A \cup B
        BY <2>4
      <3>2. A \cap B = {}
        OBVIOUS
      <3>3. IsFiniteSet(A) /\ IsFiniteSet(B)
        BY <2>8
      <3> HIDE DEF A, B
      <3>4. /\ Cardinality(A) \in Nat /\ Cardinality(B) \in Nat
            /\ Cardinality(A \cup B) = Cardinality(A) + Cardinality(B) - Cardinality(A \cap B)
        BY <3>3, FS_Union, FS_CardinalityType
      <3>5. Cardinality(A \cap B) = 0
        BY <3>2, FS_EmptySet
      <3>6. Cardinality(P) = Cardinality(A \cup B)
        BY <3>1
      <3>7. Cardinality(P) = Cardinality(A) + Cardinality(B)
        BY <3>4, <3>5, <3>6
      <3> QED
        BY <3>7 DEF A, B
    <2>11. /\ Cardinality(RatingRows) = Cardinality(K(1)) + Cardinality(K(-1))
           /\ Cardinality(Q) = a.up + a.down
           /\ a.up <= Cardinality(K(1)) /\ a.down <= Cardinality(K(-1))
           /\ Q = RatingRows => a.up = Cardinality(K(1)) /\ a.down = Cardinality(K(-1))
      <3>1. \A v \in {-1, 1} : /\ Cardinality(Of(v, RatingRows)) = Cardinality(K(v))
                              /\ Cardinality(Of(v, Q)) = Cardinality(k(v))
        BY <2>3, <2>8, <2>9
      <3>2. /\ Cardinality(RatingRows) = Cardinality(Of(1, RatingRows)) + Cardinality(Of(-1, RatingRows))
            /\ Cardinality(Q) = Cardinality(Of(1, Q)) + Cardinality(Of(-1, Q))
        BY <2>3, <2>10
      <3>3. \A v \in {-1, 1} : Cardinality(k(v)) <= Cardinality(K(v))
        BY <2>9
      <3> HIDE DEF Of, K, k
      <3> QED
        BY <2>7, <3>1, <3>2, <3>3
    <2>12. Cardinality(K(1)) \in Nat /\ Cardinality(K(-1)) \in Nat
      BY <2>9
    <2> HIDE DEF K, k, Of
    <2> QED
      BY <2>3, <2>7, <2>11, <2>12, BoundsAssumption
  <1> QED
    BY <1>1, <1>2, <1>3

\* The invariant says what the tables tell.
LEMMA TrackingInvTells ==
  ASSUME TrackingTypeOK, TrackingInv PROVE TablesTellTheWrites
  <1>0. PlaceInv /\ RowInv /\ ReasonInv
    BY DEF TrackingInv
  <1>1. NoRowTwice
    BY <1>0 DEF NoRowTwice, RowInv
  <1>2. RowsArePrefix
    <2> SUFFICES ASSUME NEW w \in Writers, pos[w] > 0
                 PROVE  LET in == {t \in Tables : rows[t][w] > 0} IN
                        /\ Due(w, pos[w] - 1) \subseteq in
                        /\ in \subseteq Due(w, IF Done(w) THEN pos[w] - 1 ELSE pos[w])
      BY DEF RowsArePrefix
    <2> DEFINE p == Plan(w)
               k == pos[w]
    <2>1. k \in Nat /\ k > 0 /\ k <= Len(p) + 1 /\ Len(p) \in Nat /\ p \in Seq(Ops)
      <3>1. k \in 0..13
        BY DEF TrackingTypeOK
      <3> QED
        BY <1>0, <3>1, Plans DEF PlaceInv
    <2>2. ASSUME NEW n \in Nat, NEW u
          PROVE  u \in Due(w, n) <=> \E i \in 1..n : p[i].op = "append" /\ u = p[i].table
      BY DEF Due
    <2>3. ASSUME NEW i \in 1..Len(p) PROVE p[i].table \in Tables
      <3>1. p[i] \in Ops
        BY <2>1, ElementOfSeq
      <3> QED
        BY <3>1 DEF Ops
    <2>4. /\ \A t \in Tables : rows[t][w] > 0 <=> rows[t][w] = 1
          /\ \A t \in Tables : rows[t][w] = 1 =>
               \E i \in 1..Len(p) : p[i].op = "append" /\ p[i].table = t /\ (i < k \/ (i = k /\ w \in failed))
          /\ \A t \in Tables, i \in 1..Len(p) : i < k /\ p[i].op = "append" /\ p[i].table = t => rows[t][w] = 1
      BY <1>0 DEF RowInv, Stores
    <2>5. w \in failed => k \in 1..Len(p)
      BY <1>0 DEF PlaceInv
    <2>6. Done(w) <=> k > Len(p)
      BY DEF Done
    <2> HIDE DEF p, k
    <2>7. ASSUME NEW u \in Due(w, k - 1) PROVE u \in Tables /\ rows[u][w] > 0
      <3>1. PICK i \in 1..(k - 1) : p[i].op = "append" /\ u = p[i].table
        BY <2>1, <2>2
      <3>2. i \in 1..Len(p) /\ i < k
        BY <2>1
      <3> QED
        BY <2>3, <2>4, <3>1, <3>2
    <2>8. ASSUME NEW t \in Tables, rows[t][w] > 0 PROVE t \in Due(w, IF Done(w) THEN k - 1 ELSE k)
      <3>1. PICK i \in 1..Len(p) : p[i].op = "append" /\ p[i].table = t /\ (i < k \/ (i = k /\ w \in failed))
        BY <2>4, <2>8
      <3>2. CASE i < k
        <4>1. i \in 1..(k - 1) /\ i \in 1..k /\ k - 1 \in Nat
          BY <2>1, <3>2
        <4> QED
          BY <2>1, <2>2, <3>1, <4>1
      <3>3. CASE i = k /\ w \in failed
        <4>1. ~Done(w) /\ i \in 1..k
          BY <2>1, <2>5, <2>6, <3>3
        <4> QED
          BY <2>1, <2>2, <3>1, <4>1
      <3> QED
        BY <3>1, <3>2, <3>3
    <2> QED
      BY <2>7, <2>8 DEF k
  <1> QED
    BY <1>0, <1>1, <1>2 DEF ReasonInv, TablesTellTheWrites

\* The invariant says that calls and ratings are counted once.
LEMMA TrackingInvCounts ==
  ASSUME TrackingTypeOK, TrackingInv PROVE CallsAreCountedOnce
  <1>0. StartInv /\ PlaceInv /\ RowInv /\ PlacedInv /\ LoneInv /\ ClickInv
    BY DEF TrackingInv
  <1>1. CallsConserved
    <2>1. CASE backend = "sqlite"
      <3>1. sqlite.calls = Made /\ \A a \in llm_summary : a.tokens = Cardinality(Made)
        BY <1>0, <2>1 DEF PlacedInv, llm_summary
      <3> QED
        BY <2>1, <3>1 DEF CallsConserved, Made
    <2>2. CASE backend # "sqlite"
      <3>1. Made = (UNION {In(p) : p \in Bins}) \cup (UNION {taken[w] : w \in Writers})
        <4>1. \A c \in Made : (\E p \in Bins : c \in In(p)) \/ (\E w \in Writers : c \in taken[w])
          BY <1>0, <2>2 DEF PlacedInv
        <4>2. \A p \in Bins : In(p) \subseteq Made
          BY <1>0, <2>2 DEF PlacedInv
        <4>3. \A w \in Writers : taken[w] \subseteq Made
          BY <1>0, <2>2 DEF PlacedInv
        <4> DEFINE A == UNION {In(p) : p \in Bins}
                   B == UNION {taken[w] : w \in Writers}
        <4>4. A \subseteq Made /\ B \subseteq Made
          BY <4>2, <4>3
        <4>5. (\A p \in Bins : In(p) \subseteq A) /\ (\A w \in Writers : taken[w] \subseteq B)
          OBVIOUS
        <4> HIDE DEF A, B
        <4>6. Made = A \cup B
          BY <4>1, <4>4, <4>5
        <4> QED
          BY <4>6 DEF A, B
      <3>2. \A p, q \in Bins : p # q => In(p) \cap In(q) = {}
        BY <1>0, <2>2 DEF PlacedInv
      <3>3. \A p \in Bins, w \in Writers : In(p) \cap taken[w] = {}
        BY <1>0, <2>2 DEF PlacedInv
      <3>4. \A v, w \in Writers : v # w => taken[v] \cap taken[w] = {}
        BY <1>0, <2>2 DEF PlacedInv
      <3>5. \A a \in llm_summary :
              LET n == Cardinality({c \in Made : \E w \in Writers : c \in taken[w] /\ rows["job"][w] > 0})
              IN  a.tokens <= n /\ (Cardinality(InTable("job")) <= RowLimit => a.tokens = n)
        BY <1>0, <2>2, AllTokens
      <3> QED
        BY <2>2, <3>1, <3>2, <3>3, <3>4, <3>5 DEF CallsConserved, Made, Bins, In
    <2> QED
      BY <2>1, <2>2
  <1>2. LoneRunIsCounted
    BY <1>0 DEF LoneInv, LoneRunIsCounted
  <1>3. FeedbackIsCounted
    BY <1>0, AllThumbs
  <1> QED
    BY <1>1, <1>2, <1>3 DEF CallsAreCountedOnce

(***************************************************************************)
(* The theorems                                                            *)
(***************************************************************************)
LEMMA TrackingInductive == TrackingSpec => [](TrackingTypeOK /\ TrackingInv)
  <1>1. TrackingInit => TrackingTypeOK /\ TrackingInv
    BY TrackingAtFirst
  <1>2. TrackingTypeOK /\ TrackingInv /\ [TrackingNext]_trackingVars => (TrackingTypeOK /\ TrackingInv)'
    <2> SUFFICES ASSUME TrackingTypeOK, TrackingInv, [TrackingNext]_trackingVars
                 PROVE  (TrackingTypeOK /\ TrackingInv)'
      OBVIOUS
    <2>1. LifeInv /\ PlaceInv
      BY DEF TrackingInv
    <2>2. TrackingTypeOK'
      BY <2>1, TrackingTypesNext
    <2>3. TrackingActs \/ UNCHANGED trackingVars
      BY <2>1, TrackingSteps
    <2> QED
      BY <2>2, <2>3, LifeInvNext, StartInvNext, PlaceInvNext, RowInvNext, ReasonInvNext, PlacedInvNext,
         LoneInvNext, ClickInvNext DEF TrackingInv
  <1> QED
    BY <1>1, <1>2, PTL DEF TrackingSpec

\* At all times the tracking's variables hold what they may (bq_backend.py,
\* bq_client.py, telemetry.py), for any sessions, runs, ratings and scripts.
THEOREM TrackingTypes == TrackingSpec => []TrackingTypeOK
  BY TrackingInductive, PTL

\* At all times the six tables hold the beginning of what each writer has to
\* write, each of its rows once, and a writer stops short only because BigQuery
\* refused it something or another writer created its table (bq_client.py:125-352).
THEOREM TablesTold == TrackingSpec => []TablesTellTheWrites
  BY TrackingInductive, TrackingInvTells, PTL

\* At all times each LLM call is in one buffer or in one run's row, and a run beside
\* no other has all its calls in its row; the console's totals are the calls and the
\* thumbs that were stored while its queries' LIMIT reaches them all, never more,
\* and no thumbs after a query that failed (telemetry.py:54-110, bq_backend.py:43-185).
THEOREM CallsCounted == TrackingSpec => []CallsAreCountedOnce
  BY TrackingInductive, TrackingInvCounts, PTL

==============================================================================
