---------------------------- MODULE RunTracking ----------------------------
(***************************************************************************)
(* How the agent's runs reach the tracking store: LLM calls are buffered   *)
(* under the run id of a module-level telemetry context, a finished run is *)
(* written to six BigQuery tables one after the other, a thumbs-up writes  *)
(* to one of them, the setup script creates them, and a backfill replays   *)
(* runs from the audit files.  BigQuery is shared: each of its calls is a  *)
(* step of its own.                                                        *)
(***************************************************************************)
EXTENDS Integers, Sequences, FiniteSets

CONSTANTS Sessions,   \* browser sessions of one console process
          Runs,       \* the agent's runs in these sessions
          Ratings,    \* clicks on a thumb of the answer to some run
          Backfills,  \* runs the backfill script records
          Scripts,    \* executions of create_bq_tracking_tables.py --python
          RowLimit,   \* LIMIT of the console's queries (5000)
          MaxCalls,   \* bound: LLM calls of one run
          MaxTrouble  \* bound: writers that BigQuery refuses something

Writers == Runs \cup Ratings \cup Backfills \cup Scripts
NoRun == "_unknown"
NoSession == "no session"

ASSUME WritersAssumption ==
    /\ Runs \cap (Ratings \cup Backfills \cup Scripts) = {}
    /\ Ratings \cap (Backfills \cup Scripts) = {} /\ Backfills \cap Scripts = {}
    /\ NoRun \notin Writers
    /\ NoSession \notin Sessions
ASSUME FiniteAssumption == IsFiniteSet(Runs) /\ IsFiniteSet(Ratings)
ASSUME BoundsAssumption == MaxCalls \in Nat /\ MaxTrouble \in Nat /\ RowLimit \in Nat

VARIABLES backend,    \* "bigquery" or "sqlite" (JFROG_AGENT_TRACKING_BACKEND)
          opened,     \* the sessions that have built their tracking backend
          sink,       \* telemetry._SINK: the session whose backend gets the calls
          ctx,        \* telemetry._CTX["run_id"], one for the whole process
          buffer,     \* _run_buffer of each session's backend: the calls under a run id
          session,    \* the session a run belongs to
          made,       \* how many LLM calls each run has made
          life,       \* of a run: "new", "invoked", "waiting", "over"
          beside,     \* the runs that ran while it had not returned (history)
          taken,      \* what _aggregate_buffered popped for a run
          status,     \* the status the run is written with
          rating,     \* 1 or -1
          findings,   \* whether the run has findings to write
          there,      \* the BigQuery tables that exist
          lacks,      \* the columns a table of an older schema is missing
          creator,    \* who created a table (history)
          pos,        \* a writer's next operation; 0 before it starts
          call,       \* the BigQuery call it makes next
          failed,     \* the writers whose exception was swallowed
          trouble,    \* the writers BigQuery refused something (history)
          rows,       \* rows[t][w]: how often w's rows are in table t
          sqlite      \* the rows of the local llm_calls and llm_feedback

telemetryVars == <<opened, sink, ctx, buffer, session, made, life, beside>>
recordVars == <<taken, status, rating, findings>>
storeVars == <<there, lacks, creator, pos, call, failed, trouble, rows>>
trackingVars == <<backend, telemetryVars, recordVars, storeVars, sqlite>>

(***************************************************************************)
(* What is written                                                         *)
(***************************************************************************)
Tables == {"job", "quality", "scores", "detail", "trajectory", "tools"}

\* The schema patches the code applies to a table that exists.
Patches(t) == CASE t \in {"job", "scores"} -> {"skill"}
                [] t = "detail"            -> {"skill", "nested"}
                [] OTHER                   -> {}

Ensure(t) == [op |-> "ensure", table |-> t]
Append1(t) == [op |-> "append", table |-> t]

insert_row == <<Ensure("job"), Append1("job")>>
_write_quality_metrics == <<Ensure("quality"), Append1("quality")>>
_write_eval_scores == <<Ensure("scores"), Append1("scores")>>
_write_quality_metrics_detail == <<Ensure("detail"), Append1("detail")>>
\* Both tables are ensured even when there is nothing to write to them.
_write_trajectory_and_tool_invocations(w) ==
    <<Ensure("trajectory"), Ensure("tools")>>
      \o IF findings[w] THEN <<Append1("trajectory"), Append1("tools")>> ELSE <<>>

record_agent_run(w) ==
    insert_row \o _write_quality_metrics \o _write_eval_scores
      \o _write_quality_metrics_detail \o _write_trajectory_and_tool_invocations(w)

record_feedback == <<Ensure("job"), Ensure("scores"), Append1("scores")>>

create_via_python_client ==
    <<Ensure("job"), Ensure("quality"), Ensure("scores"), Ensure("detail"),
      Ensure("trajectory"), Ensure("tools")>>

Plan(w) == CASE w \in Ratings -> record_feedback
             [] w \in Scripts -> create_via_python_client
             [] OTHER         -> record_agent_run(w)

Next1(w) == Plan(w)[pos[w]]
Done(w) == pos[w] > Len(Plan(w))
Busy(w) == pos[w] > 0 /\ ~Done(w) /\ w \notin failed

\* The calls of a run: the n-th call of r is <<r, n>>.
Calls == Runs \X (1..MaxCalls)
CallsOf(r) == {r} \X (1..made[r])

\* What a row says: tokens are counted one per call, a rating is only in the
\* rows of record_feedback (dimensions_metadata).
JobRow(w) == [ok |-> status[w] = "complete", total_tokens |-> taken[w]]
ScoreRow(w) == IF w \in Ratings
               THEN [success |-> rating[w] > 0, feedback_rating |-> rating[w]]
               ELSE [success |-> status[w] = "complete", feedback_rating |-> 0]

\* The rows of a table: <<w, n>> is the n-th copy of w's.
InTable(t) == UNION {{w} \X (1..rows[t][w]) : w \in Writers}

\* What a query LIMIT RowLimit may read of its rows.  Beyond the limit the newest
\* are read, by clocks the model does not have, or just any: any RowLimit of them.
Limited(R) == {Q \in SUBSET R : IF Cardinality(R) <= RowLimit THEN Q = R
                                                            ELSE Cardinality(Q) = RowLimit}

\* What the console may be told; llm_summary raises when its query does.
llm_summary ==
    IF backend = "sqlite"
    THEN {[calls |-> Cardinality(sqlite.calls), tokens |-> Cardinality(sqlite.calls)]}
    ELSE {[calls  |-> Cardinality(Q),
           tokens |-> Cardinality(UNION {{row} \X JobRow(row[1]).total_tokens : row \in Q})] :
             Q \in Limited(InTable("job"))}

\* A query that raises, for want of the table or otherwise, is answered with zeros;
\* only rows of ratings have metadata (dimensions_metadata IS NOT NULL).
NoThumbs == [up |-> 0, down |-> 0]
Thumbs(Q) == [up   |-> Cardinality({row \in Q : ScoreRow(row[1]).feedback_rating > 0}),
              down |-> Cardinality({row \in Q : ScoreRow(row[1]).feedback_rating < 0})]
RatingRows == {row \in InTable("scores") : row[1] \in Ratings}

feedback_summary ==
    IF backend = "sqlite" THEN {[up |-> Cardinality(sqlite.up), down |-> Cardinality(sqlite.down)]}
    ELSE {NoThumbs} \cup {Thumbs(Q) : Q \in Limited(RatingRows)}

(***************************************************************************)
(* The runs and the telemetry                                              *)
(***************************************************************************)
TrackingInit ==
    /\ backend \in {"bigquery", "sqlite"}
    /\ opened = {} /\ sink = NoSession /\ ctx = NoRun
    /\ buffer = [s \in Sessions |-> [r \in Runs \cup {NoRun} |-> {}]]
    /\ session = [r \in Runs |-> NoSession]
    /\ made = [r \in Runs |-> 0]
    /\ life = [r \in Runs |-> "new"]
    /\ beside = [r \in Runs |-> {}]
    /\ taken = [w \in Writers |-> {}]
    /\ status = [w \in Writers |-> "none"]
    /\ rating = [w \in Writers |-> 0]
    /\ findings = [w \in Writers |-> FALSE]
    /\ there \in SUBSET Tables
    /\ lacks \in [Tables -> SUBSET {"skill", "nested"}]
    /\ \A t \in Tables : lacks[t] \subseteq (IF t \in there THEN Patches(t) ELSE {})
    /\ creator = [t \in Tables |-> NoRun]
    /\ pos = [w \in Writers |-> 0]
    /\ call = [w \in Writers |-> "none"]
    /\ failed = {} /\ trouble = {}
    /\ rows = [t \in Tables |-> [w \in Writers |-> 0]]
    /\ sqlite = [calls |-> {}, up |-> {}, down |-> {}]

Running == {r \in Runs : life[r] \in {"invoked", "resumed"}}
\* The session's script waits for graph.invoke and for the writes after it.
SessionFree(s) == \A r \in Runs : session[r] = s => r \notin Running /\ ~Busy(r)

\* run_agent up to graph.invoke: the session's first run builds its backend,
\* which becomes the sink of every session.
run_agent(r, s) ==
    /\ life[r] = "new"
    /\ SessionFree(s)
    /\ opened' = opened \cup {s}
    /\ sink' = IF s \in opened THEN sink ELSE s
    /\ ctx' = r
    /\ session' = [session EXCEPT ![r] = s]
    /\ life' = [life EXCEPT ![r] = "invoked"]
    /\ beside' = [q \in Runs |-> IF q = r THEN Running
                                  ELSE IF q \in Running THEN beside[q] \cup {r} ELSE beside[q]]
    /\ UNCHANGED <<backend, buffer, made, recordVars, storeVars, sqlite>>

\* telemetry.record_llm_call, in whichever run the model was called.
record_llm_call(r) ==
    /\ r \in Running /\ made[r] < MaxCalls
    /\ made' = [made EXCEPT ![r] = @ + 1]
    /\ IF backend = "sqlite"
       THEN sqlite' = [sqlite EXCEPT !.calls = @ \cup {<<r, made'[r]>>}] /\ UNCHANGED buffer
       ELSE buffer' = [buffer EXCEPT ![sink][ctx] = @ \cup {<<r, made'[r]>>}] /\ UNCHANGED sqlite
    /\ UNCHANGED <<backend, opened, sink, ctx, session, life, beside, recordVars, storeVars>>

StartWriting(w) ==
    /\ pos' = [pos EXCEPT ![w] = 1]
    /\ call' = [call EXCEPT ![w] = "get"]
    /\ UNCHANGED <<there, lacks, creator, failed, trouble, rows>>

\* mutant: _aggregate_buffered reads the buffer without popping it
RecordRunKeepsBuffer(r, outcome, found) ==
    /\ life[r] = "invoked" /\ backend = "bigquery"
    /\ life' = [life EXCEPT ![r] = IF outcome = "interrupted" THEN "waiting" ELSE "over"]
    /\ taken' = [taken EXCEPT ![r] = buffer[session[r]][r]]
    /\ status' = [status EXCEPT ![r] = IF outcome = "completed" THEN "complete" ELSE "error"]
    /\ findings' = [findings EXCEPT ![r] = found]
    /\ StartWriting(r)
    /\ UNCHANGED <<backend, opened, sink, ctx, buffer, session, made, beside, rating, sqlite>>

\* graph.invoke returned and record_jfrog_run flushes the run: what its own
\* session's backend has buffered for it goes into its row.
record_run(r, outcome, found) ==
    /\ life[r] = "invoked"
    /\ life' = [life EXCEPT ![r] = IF outcome = "interrupted" THEN "waiting" ELSE "over"]
    /\ UNCHANGED <<backend, opened, sink, ctx, session, made, beside, rating, sqlite>>
    /\ IF backend = "sqlite" THEN UNCHANGED <<buffer, taken, status, findings, storeVars>>
       ELSE /\ taken' = [taken EXCEPT ![r] = buffer[session[r]][r]]
            /\ buffer' = [buffer EXCEPT ![session[r]][r] = {}]
            /\ status' = [status EXCEPT ![r] = IF outcome = "completed" THEN "complete" ELSE "error"]
            /\ findings' = [findings EXCEPT ![r] = found]
            /\ StartWriting(r)

\* resume_agent: the run goes on after the approval and is not recorded again.
resume_agent(r) ==
    /\ life[r] = "waiting"
    /\ SessionFree(session[r])
    /\ life' = [life EXCEPT ![r] = "resumed"]
    /\ beside' = [q \in Runs |-> IF q = r THEN beside[q] \cup Running
                                  ELSE IF q \in Running THEN beside[q] \cup {r} ELSE beside[q]]
    /\ UNCHANGED <<backend, opened, sink, ctx, buffer, session, made, recordVars, storeVars, sqlite>>

ResumeReturns(r) ==
    /\ life[r] = "resumed"
    /\ life' = [life EXCEPT ![r] = "over"]
    /\ UNCHANGED <<backend, opened, sink, ctx, buffer, session, made, beside, recordVars, storeVars, sqlite>>

\* A thumb is clicked.
RecordFeedback(f, v) ==
    /\ rating[f] = 0
    /\ \E r \in Runs : life[r] = "over" /\ ~Busy(r)
    /\ rating' = [rating EXCEPT ![f] = v]
    /\ UNCHANGED <<backend, telemetryVars, taken, status, findings>>
    /\ IF backend = "sqlite"
       THEN /\ sqlite' = IF v > 0 THEN [sqlite EXCEPT !.up = @ \cup {f}]
                                    ELSE [sqlite EXCEPT !.down = @ \cup {f}]
            /\ UNCHANGED storeVars
       ELSE StartWriting(f) /\ UNCHANGED sqlite

\* A script is started: the backfill's own backend has nothing buffered.
backfill(w, outcome, found) ==
    /\ backend = "bigquery" /\ pos[w] = 0
    /\ status' = [status EXCEPT ![w] = IF outcome = "completed" THEN "complete" ELSE "error"]
    /\ findings' = [findings EXCEPT ![w] = found]
    /\ StartWriting(w)
    /\ UNCHANGED <<backend, telemetryVars, taken, rating, sqlite>>

RunScript(w) ==
    /\ backend = "bigquery" /\ pos[w] = 0
    /\ StartWriting(w)
    /\ UNCHANGED <<backend, telemetryVars, recordVars, sqlite>>

(***************************************************************************)
(* One BigQuery call of a writer                                           *)
(***************************************************************************)
At(w, op, c) == Busy(w) /\ Next1(w).op = op /\ call[w] = c
Table(w) == Next1(w).table

Goto1(w, c) == call' = [call EXCEPT ![w] = c] /\ UNCHANGED <<pos, failed>>
\* On to the next operation of the plan, or to the end of it.
Advance(w) ==
    /\ pos' = [pos EXCEPT ![w] = @ + 1]
    /\ call' = [call EXCEPT ![w] = IF pos[w] = Len(Plan(w)) THEN "none"
                                  ELSE IF Plan(w)[pos[w] + 1].op = "ensure" THEN "get" ELSE "append"]
    /\ UNCHANGED failed
\* The exception reaches record_run (or ends the script): nothing more is written.
Raise(w) == failed' = failed \cup {w} /\ UNCHANGED <<pos, call>>
Refused(w) == /\ trouble' = trouble \cup {w}
              /\ Cardinality(trouble') <= MaxTrouble
\* After get_table or a patch: the next patch the table needs.
Patched(w, missing) ==
    CASE "skill" \in missing  -> Goto1(w, "patch skill")
      [] missing = {"nested"} -> Goto1(w, "patch nested")
      [] OTHER                -> Advance(w)

\* get_table; any exception is taken for a table that does not exist.
GetTable(w) ==
    /\ At(w, "ensure", "get")
    /\ \/ Table(w) \in there /\ Patched(w, lacks[Table(w)]) /\ UNCHANGED trouble
       \/ Table(w) \notin there /\ Goto1(w, "create") /\ UNCHANGED trouble
       \/ Table(w) \in there /\ Goto1(w, "create") /\ Refused(w)
    /\ UNCHANGED <<there, lacks, creator, rows>>

\* An update that is refused raises inside ensure's try, which goes on as if
\* the table did not exist; a table the patch cannot read is left as it is.
patch_skill_columns_if_missing(w) ==
    /\ At(w, "ensure", "patch skill")
    /\ \/ /\ lacks' = [lacks EXCEPT ![Table(w)] = @ \ {"skill"}]
          /\ Patched(w, lacks'[Table(w)]) /\ UNCHANGED trouble
       \/ Patched(w, lacks[Table(w)] \ {"skill"}) /\ Refused(w) /\ UNCHANGED lacks
       \/ Goto1(w, "create") /\ Refused(w) /\ UNCHANGED lacks
    /\ UNCHANGED <<there, creator, rows>>

patch_quality_metrics_detail_nested_columns_if_missing(w) ==
    /\ At(w, "ensure", "patch nested")
    /\ \/ lacks' = [lacks EXCEPT ![Table(w)] = @ \ {"nested"}] /\ UNCHANGED trouble
       \/ Refused(w) /\ UNCHANGED lacks
    /\ Advance(w)
    /\ UNCHANGED <<there, creator, rows>>

CreateTable(w) ==
    /\ At(w, "ensure", "create")
    /\ \/ /\ Table(w) \notin there
          /\ there' = there \cup {Table(w)}
          /\ creator' = [creator EXCEPT ![Table(w)] = w]
          /\ Advance(w) /\ UNCHANGED trouble
       \/ Table(w) \in there /\ Raise(w) /\ UNCHANGED <<there, creator, trouble>>
       \/ Raise(w) /\ Refused(w) /\ UNCHANGED <<there, creator>>
    /\ UNCHANGED <<lacks, rows>>

Stored(w) == rows' = [rows EXCEPT ![Table(w)][w] = @ + 1]
\* Whether BigQuery takes rows with every column of today's schema.
Fits(t) == "nested" \notin lacks[t]

InsertRowsJson(w) ==
    /\ At(w, "append", "append")
    /\ \/ Fits(Table(w)) /\ Stored(w) /\ Advance(w) /\ UNCHANGED trouble
       \/ Goto1(w, "load") /\ UNCHANGED <<rows, trouble>>
       \/ Raise(w) /\ Refused(w) /\ (UNCHANGED rows \/ (Fits(Table(w)) /\ Stored(w)))
    /\ UNCHANGED <<there, lacks, creator>>

\* mutant: job.result() is not awaited
LoadNotAwaited(w) ==
    /\ At(w, "append", "load")
    /\ (Fits(Table(w)) /\ Stored(w)) \/ UNCHANGED rows
    /\ Advance(w)
    /\ UNCHANGED <<there, lacks, creator, trouble>>

\* Errors in the answer, or "403" or "Streaming insert is not allowed" in the
\* exception: nothing was taken, and a load job appends the rows.
LoadTableFromJson(w) ==
    /\ At(w, "append", "load")
    /\ \/ Fits(Table(w)) /\ Stored(w) /\ Advance(w) /\ UNCHANGED trouble
       \/ Raise(w) /\ Refused(w) /\ (UNCHANGED rows \/ (Fits(Table(w)) /\ Stored(w)))
    /\ UNCHANGED <<there, lacks, creator>>

WriterStep(w) ==
    /\ \/ GetTable(w) \/ patch_skill_columns_if_missing(w)
       \/ patch_quality_metrics_detail_nested_columns_if_missing(w)
       \/ CreateTable(w) \/ InsertRowsJson(w) \/ LoadTableFromJson(w)
    /\ UNCHANGED <<backend, telemetryVars, recordVars, sqlite>>

TrackingNext ==
    \/ \E r \in Runs : \/ \E s \in Sessions : run_agent(r, s)
                       \/ record_llm_call(r)
                       \/ \E o \in {"completed", "failed", "interrupted"}, f \in BOOLEAN : record_run(r, o, f)
                       \/ resume_agent(r) \/ ResumeReturns(r)
    \/ \E f \in Ratings, v \in {-1, 1} : RecordFeedback(f, v)
    \/ \E w \in Backfills, o \in {"completed", "failed"}, f \in BOOLEAN : backfill(w, o, f)
    \/ \E w \in Scripts : RunScript(w)
    \/ \E w \in Writers : WriterStep(w)

TrackingSpec == TrackingInit /\ [][TrackingNext]_trackingVars

(***************************************************************************)
(* Properties                                                              *)
(***************************************************************************)
\* Types: the writers' places in their plans, the buffers and the tables keep
\* their shape (record_agent_run, _append_rows).
TrackingTypeOK ==
    /\ backend \in {"bigquery", "sqlite"}
    /\ opened \subseteq Sessions /\ sink \in Sessions \cup {NoSession}
    /\ ctx \in Runs \cup {NoRun}
    /\ buffer \in [Sessions -> [Runs \cup {NoRun} -> SUBSET Calls]]
    /\ session \in [Runs -> Sessions \cup {NoSession}]
    /\ made \in [Runs -> 0..MaxCalls]
    /\ life \in [Runs -> {"new", "invoked", "waiting", "resumed", "over"}]
    /\ beside \in [Runs -> SUBSET Runs]
    /\ taken \in [Writers -> SUBSET Calls] /\ status \in [Writers -> {"none", "complete", "error"}]
    /\ rating \in [Writers -> {-1, 0, 1}] /\ findings \in [Writers -> BOOLEAN]
    /\ there \subseteq Tables /\ lacks \in [Tables -> SUBSET {"skill", "nested"}]
    /\ creator \in [Tables -> Writers \cup {NoRun}]
    /\ pos \in [Writers -> 0..13]
    /\ call \in [Writers -> {"none", "get", "patch skill", "patch nested", "create", "append", "load"}]
    /\ failed \subseteq Writers /\ trouble \subseteq Writers
    /\ rows \in [Tables -> [Writers -> Nat]]
    /\ sqlite \in [calls : SUBSET Calls, up : SUBSET Ratings, down : SUBSET Ratings]

\* A writer never stores its rows of a table twice, however BigQuery answers
\* the streaming insert before the load job (_append_rows).
NoRowTwice == \A t \in Tables, w \in Writers : rows[t][w] <= 1

\* The tables of a plan that come before its i-th operation, and the rows due.
Due(w, n) == {Plan(w)[i].table : i \in {j \in 1..n : Plan(w)[j].op = "append"}}
\* record_agent_run (bq_client.py:188-332) writes table after table.
\* What is in the tables is the beginning of what a writer has to write: the
\* rows of every operation before the current one, never a later one's, and
\* all of it when it ends without an exception.
RowsArePrefix ==
    \A w \in Writers : pos[w] > 0 =>
        LET in == {t \in Tables : rows[t][w] > 0} IN
        /\ Due(w, pos[w] - 1) \subseteq in
        /\ in \subseteq Due(w, IF Done(w) THEN pos[w] - 1 ELSE pos[w])

\* _ensure_table and record_run (bq_client.py:125-158, bq_backend.py:64-71):
\* a writer loses rows only if BigQuery refused one of its calls, or another
\* writer created a table it found missing.
LostOnlyByTroubleOrRace ==
    \A w \in failed : w \in trouble
                      \/ creator[Plan(w)[pos[w]].table] \in Writers \ {w}

\* _aggregate_buffered pops what it adds up (bq_backend.py:50-62):
\* no LLM call is lost or counted twice: each that was made is buffered in one
\* place of one session, or was taken into one run's row.  The console's total is
\* the number of those whose row was stored while the table has at most RowLimit
\* rows, and never more than that; with more rows the older runs drop out of it.
CallsConserved ==
    LET Made == UNION {CallsOf(r) : r \in Runs}
        Places == Sessions \X (Runs \cup {NoRun})
        In(p) == buffer[p[1]][p[2]]
        stored == Cardinality({c \in Made : \E w \in Writers : c \in taken[w] /\ rows["job"][w] > 0})
    IN  IF backend = "sqlite"
        THEN sqlite.calls = Made /\ \A a \in llm_summary : a.tokens = Cardinality(Made)
        ELSE /\ Made = (UNION {In(p) : p \in Places}) \cup (UNION {taken[w] : w \in Writers})
             /\ \A p, q \in Places : p # q => In(p) \cap In(q) = {}
             /\ \A p \in Places, w \in Writers : In(p) \cap taken[w] = {}
             /\ \A v, w \in Writers : v # w => taken[v] \cap taken[w] = {}
             /\ \A a \in llm_summary :
                  /\ a.tokens <= stored
                  /\ Cardinality(InTable("job")) <= RowLimit => a.tokens = stored

\* set_context, set_sink and run_agent (ui/state.py:144-157, 237-285): the row of
\* a run that was never interrupted and overlapped no other, in the
\* session that built its backend last, counts every call the run made.
LoneRunIsCounted ==
    \A r \in Runs : backend = "bigquery" /\ life[r] = "over" /\ beside[r] = {}
                    /\ session[r] = sink /\ status[r] = "complete" => taken[r] = CallsOf(r)

\* record_feedback and feedback_summary (bq_backend.py:73-93, 164-185): the
\* console's totals of thumbs are those of the clicks that were stored, all of them
\* or, past RowLimit, RowLimit of them; a query that fails is shown as no clicks.
FeedbackIsCounted ==
    LET kept(v) == Cardinality({f \in Ratings : rating[f] = v /\ (backend = "sqlite" \/ rows["scores"][f] = 1)})
    IN  \A a \in feedback_summary :
          \/ /\ a = [up |-> kept(1), down |-> kept(-1)]
             /\ backend = "sqlite" \/ kept(1) + kept(-1) <= RowLimit
          \/ /\ backend = "bigquery" /\ kept(1) + kept(-1) > RowLimit
             /\ a.up <= kept(1) /\ a.down <= kept(-1) /\ a.up + a.down = RowLimit
          \/ backend = "bigquery" /\ a = NoThumbs

\* bq_client.py:125-352: whatever BigQuery refuses and whoever else creates the
\* tables, they hold the beginning of what each writer has to write, once, and
\* a writer stops short only for a reason.
TablesTellTheWrites == NoRowTwice /\ RowsArePrefix /\ LostOnlyByTroubleOrRace

\* telemetry.py:54-110 and bq_backend.py:43-185: over all sessions no call and no
\* rating is counted twice, a run beside no other has its calls in its row in full,
\* and what the console adds up is what was stored, within its queries' limit.
CallsAreCountedOnce == CallsConserved /\ LoneRunIsCounted /\ FeedbackIsCounted

=============================================================================
