----------------------------- MODULE SafetyKit -----------------------------
(* agent-safety-kit: the input guard that stands between the planner or the *)
(* summarizer and the LLM, and the offline PII scan over recorded rows.     *)
(*                                                                          *)
(* A text is the set of its regex matches, each with the half-open stretch  *)
(* of positions it covers, and whether it has runs of blanks the cleaner    *)
(* squeezes.  What a text says beyond that makes no difference to the kit.  *)
EXTENDS Integers, Sequences, FiniteSets, FiniteSetsExt

CONSTANTS
  Secrets,        \* the kinds of match secrets.py looks for
  Severity,       \* SECRET_SEVERITY and PII_SEVERITY, of every kind
  Policies,       \* settings of INPUT_GUARD_*: [enabled, redactPii, blockPii, block, piiBlock]
  Requests,       \* user requests, a set of texts
  Evidence,       \* what the tools may find, a set of texts
  Forms,          \* how a message is represented: "dict", "langchain", "object"
  Registered,     \* table -> [columns, enabled] for the registered ones
  Snapshots,      \* snapshots of records: table -> sequence of rows
  AlertAt         \* PII_ALERT_MIN_SEVERITY

\* Texts, tables and snapshots are finite.
TextOK(t) == IsFiniteSet(t.matches) /\ \A m \in t.matches : m.from \in Nat /\ m.to \in Nat
SnapshotOK(s) ==
  /\ IsFiniteSet(DOMAIN s) /\ \A t \in DOMAIN s : IsFiniteSet(DOMAIN s[t])
  /\ \A t \in DOMAIN s : \A i \in DOMAIN s[t] : \A c \in DOMAIN s[t][i].values : TextOK(s[t][i].values[c].text)
ASSUME SafetyAssumption ==
  /\ \A t \in Requests \cup Evidence : TextOK(t)
  /\ IsFiniteSet(DOMAIN Registered) /\ \A t \in DOMAIN Registered : IsFiniteSet(Registered[t].columns)
  /\ \A s \in Snapshots : SnapshotOK(s)

VARIABLES policy, kit, stage, request, evidence, sent, shown, report

guardVars == <<policy, kit, stage, request, evidence, sent, shown>>
safetyVars == <<guardVars, report>>

Covers(m) == m.from .. (m.to - 1)
Empty(t) == t.matches = {} /\ ~t.gaps

(***************************************************************************)
(* Detectors.                                                              *)
(***************************************************************************)
scan_secrets(t) == {m \in t.matches : m.kind \in Secrets}

\* A PII pattern's match counts only if its validator (Luhn, SSN, phone) agrees.
scan_pii(t) == {m \in t.matches : m.kind \notin Secrets /\ m.valid}

(***************************************************************************)
(* The cleaner.  Spans are taken from the left, the longest first; one that *)
(* begins inside one that was taken is skipped, so its tail stays.         *)
(***************************************************************************)
Earlier(a, b) == \/ a.from < b.from
                 \/ a.from = b.from /\ a.to > b.to

\* Of two that cover the same stretch either may come first.
Skipped(m, kept) == \E n \in kept : n # m /\ ~Earlier(m, n) /\ n.to > m.from

\* kept: what the loop over the sorted spans appended.
_apply_spans(spans) ==
  CHOOSE kept \in SUBSET spans : \A m \in spans : m \in kept <=> ~Skipped(m, kept)

clean_text(t, pii) ==
  LET spans == scan_secrets(t) \cup (IF pii THEN scan_pii(t) ELSE {})
      kept == _apply_spans(spans)
  IN  [text |-> [matches |-> t.matches \ kept,
                 gaps |-> FALSE,
                 gone |-> t.gone \cup UNION {Covers(m) : m \in kept}],
       secrets |-> scan_secrets(t),
       pii |-> IF pii THEN scan_pii(t) ELSE {}]

\* mutant: the severity itself does not block
DecideAbove(secrets, pii) ==
  \/ \E m \in secrets : Severity[m.kind] > policy.block
  \/ policy.blockPii /\ \E m \in pii : Severity[m.kind] > policy.piiBlock

_decide_block(secrets, pii) ==
  \/ \E m \in secrets : Severity[m.kind] >= policy.block
  \/ policy.blockPii /\ \E m \in pii : Severity[m.kind] >= policy.piiBlock

guard_text(t) ==
  LET c == clean_text(t, policy.redactPii)
  IN  [cleaned |-> c.text,
       blocked |-> _decide_block(c.secrets, c.pii)]

\* _with_content has no way to rebuild an object it does not know: the message
\* goes out as it came in.
_with_content(msg, t) == IF msg.form = "object" THEN msg ELSE [msg EXCEPT !.text = t]

GuardedMessage(msg) ==
  IF msg.role = "system" \/ Empty(msg.text) THEN msg
  ELSE _with_content(msg, guard_text(msg.text).cleaned)

guard_messages(msgs) ==
  IF ~policy.enabled THEN [out |-> msgs, blocked |-> FALSE]
  ELSE [out |-> [i \in DOMAIN msgs |-> GuardedMessage(msgs[i])],
        blocked |-> \E i \in DOMAIN msgs :
                      /\ msgs[i].role # "system" /\ ~Empty(msgs[i].text)
                      /\ guard_text(msgs[i].text).blocked]

\* Without the kit on the path the guard is skipped, with a warning.
_guard_before_llm(msgs) ==
  IF kit = "missing" THEN [out |-> msgs, blocked |-> FALSE] ELSE guard_messages(msgs)

(***************************************************************************)
(* A request: planned, executed, summarized.                               *)
(***************************************************************************)
NoText == [matches |-> {}, gaps |-> FALSE, gone |-> {}]
System(form) == [role |-> "system", form |-> form, text |-> NoText]
User(form, t) == [role |-> "user", form |-> form, text |-> t]

make_plan ==
  /\ stage = "request"
  /\ \E form \in Forms :
       LET g == _guard_before_llm(<<System(form), User(form, request)>>)
       IN  IF g.blocked
             THEN stage' = "blocked" /\ shown' = "block_reason" /\ UNCHANGED sent
             ELSE /\ stage' = "planned" /\ UNCHANGED shown
                  /\ sent' = Append(sent, g.out)
  /\ UNCHANGED <<policy, kit, request, evidence, report>>

\* The graph's nodes in between: the actions run, the evidence comes back.
CollectEvidence ==
  /\ stage = "planned"
  /\ stage' = "executed" /\ \E t \in Evidence : evidence' = t
  /\ UNCHANGED <<policy, kit, request, sent, shown, report>>

\* The model may also fail, and the deterministic summary takes over: it shows
\* the evidence as it is, unguarded.
summarize ==
  /\ stage = "executed" /\ stage' = "done"
  /\ \E form \in Forms, fails \in BOOLEAN :
       LET g == _guard_before_llm(<<System(form), User(form, request), User(form, evidence)>>)
       IN  IF g.blocked THEN shown' = "block_reason" /\ UNCHANGED sent
           ELSE /\ shown' = (IF fails THEN "fallback" ELSE "answer")
                /\ sent' = Append(sent, g.out)
  /\ UNCHANGED <<policy, kit, request, evidence, report>>

(***************************************************************************)
(* The PII scan: every enabled registered table of a snapshot, its text    *)
(* columns only, one finding per match.                                    *)
(***************************************************************************)
NoReport == [ran |-> FALSE]

\* A column holds nothing, a string, or a list or mapping rendered as one.
Column(row, col) == IF col \in DOMAIN row.values THEN row.values[col].text ELSE NoText

scan_row(row, i, columns, table) ==
  UNION {{[table |-> table, row |-> i, request |-> row.request, column |-> col, match |-> m]
             : m \in scan_pii(Column(row, col))} : col \in columns}

\* columns[i]: what is scanned of row i.  The findings are a list; the row's place
\* tells those of two rows apart.
scan_rows(rows, table, columns) ==
  UNION {scan_row(rows[i], i, columns[i], table) : i \in DOMAIN rows}

StringColumns(rows) ==
  [i \in DOMAIN rows |-> {c \in DOMAIN rows[i].values : rows[i].values[c].str}]
TextColumns(rows, table) == [i \in DOMAIN rows |-> Registered[table].columns]

\* mutant: every table is scanned ad hoc
RecordsAdHoc(snapshot) ==
  UNION {scan_rows(snapshot[t], t, StringColumns(snapshot[t])) : t \in DOMAIN snapshot}

\* An unregistered table, but also a disabled one, is scanned ad hoc: every
\* column that holds a string.
scan_records(snapshot) ==
  LET enabled(t) == t \in DOMAIN Registered /\ Registered[t].enabled
      columns(t) == IF enabled(t) THEN TextColumns(snapshot[t], t) ELSE StringColumns(snapshot[t])
  IN  UNION {scan_rows(snapshot[t], t, columns(t)) : t \in DOMAIN snapshot}

findings_summary(found) ==
  [total |-> Cardinality(found),
   tables |-> [t \in {f.table : f \in found} |-> Cardinality({f \in found : f.table = t})],
   severity |-> IF found = {} THEN 0 ELSE Max({Severity[f.match.kind] : f \in found}),
   requests |-> {f.request : f \in found} \ {0}]

\* webhook: "none" when no URL is configured, "ok" or "fails" otherwise.
emit_alerts(found, dry, webhook) ==
  LET actionable == {f \in found : Severity[f.match.kind] >= AlertAt}
  IN  IF actionable = {}
        THEN [suppressed |-> TRUE, logged |-> FALSE, sent |-> FALSE, failed |-> FALSE,
              details |-> findings_summary({})]
        ELSE [suppressed |-> FALSE, logged |-> TRUE,
              sent |-> ~dry /\ webhook = "ok", failed |-> ~dry /\ webhook = "fails",
              details |-> findings_summary(actionable)]

scan_all_tables(snapshot, dry, webhook) ==
  LET tables == {t \in DOMAIN Registered : Registered[t].enabled}
      rows(t) == IF t \in DOMAIN snapshot THEN snapshot[t] ELSE <<>>
      found == UNION {scan_rows(rows(t), t, TextColumns(rows(t), t)) : t \in tables}
  IN  [ran |-> TRUE, snapshot |-> snapshot, found |-> found, adhoc |-> scan_records(snapshot),
       rows |-> Cardinality(UNION {{t} \X (DOMAIN rows(t)) : t \in tables}),
       dry |-> dry, alert |-> emit_alerts(found, dry, webhook)]

ScanTraffic ==
  /\ ~report.ran
  /\ \E s \in Snapshots, dry \in BOOLEAN, webhook \in {"none", "ok", "fails"} :
       report' = scan_all_tables(s, dry, webhook)
  /\ UNCHANGED guardVars

SafetyInit ==
  /\ policy \in Policies /\ kit \in {"installed", "missing"}
  /\ request \in Requests
  /\ stage = "request" /\ evidence = NoText /\ sent = <<>> /\ shown = "nothing"
  /\ report = NoReport

GuardNext == make_plan \/ CollectEvidence \/ summarize

SafetyNext == GuardNext \/ ScanTraffic

SafetySpec == SafetyInit /\ [][SafetyNext]_safetyVars

-----------------------------------------------------------------------------

\* Types: the variables keep their shape.
SafetyTypeOK ==
  /\ policy \in Policies /\ kit \in {"installed", "missing"}
  /\ stage \in {"request", "planned", "blocked", "executed", "done"}
  /\ request \in Requests /\ evidence \in Evidence \cup {NoText}
  /\ shown \in {"nothing", "block_reason", "answer", "fallback"}
  /\ Len(sent) <= 2 /\ report.ran \in BOOLEAN

Guarding == policy.enabled /\ kit = "installed"
Found(t) == scan_secrets(t) \cup (IF policy.redactPii THEN scan_pii(t) ELSE {})

\* What was to be sent as the k-th message.
Said(k) == IF k = 2 THEN request ELSE IF k = 3 THEN evidence ELSE NoText

\* clean_text (cleaner.py:58-98) and _with_content (guard.py:181-224): of a message the
\* LLM got, a position that belonged to something found is still there only if that
\* something began inside a longer or earlier find that was taken out; nothing that
\* stands on its own is left.  Personal data is looked for only where it is redacted.
\* A message of a class the guard cannot rebuild goes out as it came, as do all of them
\* when the guard is off or the kit is not on the path (llm.py:65-75).
OnlyTailsReachTheModel ==
  \A i \in DOMAIN sent : \A k \in DOMAIN sent[i] :
    LET msg == sent[i][k]
    IN  IF Guarding /\ msg.form # "object"
          THEN \A m \in Found(Said(k)) :
                 \/ Covers(m) \subseteq msg.text.gone
                 \/ \E n \in Found(Said(k)) : /\ Earlier(n, m) /\ n.to > m.from
                                              /\ Covers(n) \subseteq msg.text.gone
          ELSE msg.text = Said(k)

\* make_plan and summarize (llm.py:65-80, 239-314) with guard_text (guard.py:99-134):
\* of what the guard looks for, nothing at or above the blocking severity is in what
\* the LLM got, in a message of any form; and the user is shown a block only for
\* something of that severity in the request or in the evidence the tools brought
\* back.  It looks for secrets always, and for personal data only where that is
\* redacted (guard.py:115): with redaction off, blockPii blocks nothing.
BlockedIffTooSevere ==
  LET severe(t) == \/ \E m \in scan_secrets(t) : Severity[m.kind] >= policy.block
                   \/ /\ policy.blockPii /\ policy.redactPii
                      /\ \E m \in scan_pii(t) : Severity[m.kind] >= policy.piiBlock
  IN  /\ Guarding /\ sent # <<>> => ~severe(request)
      /\ Guarding /\ Len(sent) = 2 => ~severe(evidence)
      /\ shown = "block_reason" => Guarding /\ (severe(request) \/ severe(evidence))

\* scan_all_tables and emit_alerts (runner.py:75-113, alerter.py:77-116): an alert
\* is suppressed exactly when no enabled registered column of the snapshot has a
\* valid match at the threshold; its total counts those matches and its request
\* ids are theirs; the webhook is only called by a scan that is not a dry run.
AlertsWhatIsThere ==
  report.ran =>
    LET rows(t) == report.snapshot[t]
        places == (DOMAIN Registered) \X (UNION {DOMAIN rows(t) : t \in DOMAIN report.snapshot})
                                    \X (UNION {Registered[t].columns : t \in DOMAIN Registered})
        exists(t, i, c) == /\ Registered[t].enabled /\ c \in Registered[t].columns
                           /\ t \in DOMAIN report.snapshot /\ i \in DOMAIN rows(t) /\ c \in DOMAIN rows(t)[i].values
        there == {x \in places : exists(x[1], x[2], x[3])}
        hits(x) == {m \in rows(x[1])[x[2]].values[x[3]].text.matches :
                      m.kind \notin Secrets /\ m.valid /\ Severity[m.kind] >= AlertAt}
        loud == {x \in there : hits(x) # {}}
        alert == report.alert
    IN  /\ alert.suppressed <=> loud = {}
        /\ alert.details.total = Cardinality(UNION {{x} \X hits(x) : x \in loud})
        /\ alert.details.requests = {rows(x[1])[x[2]].request : x \in loud} \ {0}
        /\ alert.sent \/ alert.failed => ~report.dry /\ loud # {}

\* scan_records (scanner.py:78-108) finds in the enabled registered tables what
\* scan_all_tables finds there, and nothing of theirs is scanned ad hoc.
ScansAgree ==
  report.ran =>
    report.found = {f \in report.adhoc : f.table \in DOMAIN Registered /\ Registered[f.table].enabled}

\* guard.py:65-281 in front of llm.py:239-314: what the guard looks for and finds is taken
\* out, but for tails and in messages it cannot rebuild, or nothing is sent.
GuardStopsWhatItFinds == OnlyTailsReachTheModel /\ BlockedIffTooSevere

\* scanner.py:29-130, runner.py:75-113 and alerter.py:81-116: the two ways to scan agree,
\* and the alert says what is there.
ScanFindsWhatIsThere == AlertsWhatIsThere /\ ScansAgree

=============================================================================
