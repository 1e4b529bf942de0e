--------------------------- MODULE ContextOptimizer ---------------------------
(***************************************************************************)
(* The context optimizer: a pipeline of layers that an agent's messages go *)
(* through before each LLM call.  One call is modelled: its messages, its  *)
(* adapter and its preset are chosen in the initial state, and each layer  *)
(* is a step.  Texts are model values with a size; the scores a ranker     *)
(* gives and what the summarizer's LLM answers are any.                    *)
(***************************************************************************)
EXTENDS Integers, Sequences, FiniteSets, FiniteSetsExt

CONSTANTS Chats,      \* message lists: [role, text, size, blocks, calls, resp], calls of [id, fn]
          Adapters,   \* subset of {"langchain", "openai", "generic"}
          Presets,    \* subset of {"minimal", "balanced", "aggressive", "summarizing"}
          REQUEST, FINDINGS,  \* texts starting with "Request:" / containing "Findings (JSON)"
          SUMMARY,    \* the text of a summary
          NoCall,     \* no tool_call_id
          MAX_CHARS,  \* max_chars of the compressing layers
          MaxTokens, Window, KeepRecent, Scores

ASSUME OptimizerAssumption ==
    /\ Presets \subseteq {"minimal", "balanced", "aggressive", "summarizing"}
    /\ MAX_CHARS \in Nat /\ MaxTokens \in Nat
    /\ Window \in Nat /\ KeepRecent \in Nat /\ Scores \subseteq Nat

VARIABLES chat,      \* the messages of the call
          adapter, preset,
          ctxItems,  \* the items between two layers
          layersDue, \* the layers still to run
          pruned,    \* history: positions of items a selection or a summary left out
          outcome    \* "running", "optimized", or "skipped": the messages go out as they were

optimizerVars == <<chat, adapter, preset, ctxItems, layersDue, pruned, outcome>>

-----------------------------------------------------------------------------
(* Items.  id identifies the object: a copy has another version.            *)

NoPos == 0

HasCalls(it) == it.role = "assistant" /\ it.calls # <<>>
CallIds(it) == IF HasCalls(it) THEN {it.calls[k].id : k \in DOMAIN it.calls} ELSE {}
IsResponse(it) == it.role = "tool"
Answered(it) == IF IsResponse(it) THEN {it.resp} \ {NoCall} ELSE {}
with_content(it, size) == [it EXCEPT !.id = <<@[1], @[2] + 1>>, !.size = size]

AllCalls(s) == UNION {CallIds(s[i]) : i \in DOMAIN s}
AllAnswered(s) == UNION {Answered(s[i]) : i \in DOMAIN s}
ObjectIds(s) == {s[i].id : i \in DOMAIN s}
Positions(s) == {s[i].pos : i \in DOMAIN s} \ {NoPos}

\* The items of s at the places P, each a key and an index: a stable sort by key.
Ahead(x, y) == x[1] < y[1] \/ (x[1] = y[1] /\ x[2] <= y[2])
Arranged(s, P) ==
    LET at(k) == CHOOSE x \in P : Cardinality({y \in P : Ahead(y, x)}) = k
    IN  [k \in 1..Cardinality(P) |-> s[at(k)[2]]]
ItemsAt(s, I) == Arranged(s, {<<i, i>> : i \in I \cap DOMAIN s})

\* Indexes of what is not pinned, and of the last n of these: [-n:], where -0 is 0.
Free(s) == {i \in DOMAIN s : ~s[i].pinned}
Recent(s, n) == IF n = 0 THEN Free(s)
                ELSE {i \in Free(s) : Cardinality({j \in Free(s) : j >= i}) <= n}

count_item_tokens(it) == it.size + (IF it.times > 1 THEN 1 ELSE 0) + Len(it.calls)
\* count_items_tokens, of the items at the indexes I or of all.
TokensAt(s, I) == MapThenSumSet(LAMBDA i : count_item_tokens(s[i]), I)
count_items_tokens(s) == TokensAt(s, DOMAIN s)

-----------------------------------------------------------------------------
(* The adapters.                                                            *)

Role(role, a) == IF role \in {"system", "user", "assistant", "tool"} THEN role
                 ELSE IF a = "generic" /\ role = "function" THEN "tool" ELSE "assistant"
LastUser(msgs) == Max({0} \cup {i \in DOMAIN msgs : msgs[i].role = "user"})

\* The LangChain adapter leaves a last question unpinned that is long or
\* carries findings, and pins every message that starts with "Request:".
PinnedUser(msgs, i, a) ==
    IF a # "langchain" THEN i = LastUser(msgs)
    ELSE \/ msgs[i].text = REQUEST
         \/ i = LastUser(msgs) /\ msgs[i].text # FINDINGS /\ msgs[i].size <= MAX_CHARS

ToItem(msgs, i, a) ==
    LET m == msgs[i]  r == Role(m.role, a)
    IN  [id |-> <<i, 0>>, pos |-> i, role |-> r, text |-> m.text, size |-> m.size,
         times |-> 1, cut |-> FALSE,
         calls |-> IF m.role = r THEN m.calls ELSE <<>>,
         resp  |-> IF r = "tool" THEN m.resp ELSE NoCall,
         pinned |-> r = "system" \/ (r = "user" /\ PinnedUser(msgs, i, a)),
         score |-> 0]
to_items(msgs, a) == [i \in DOMAIN msgs |-> ToItem(msgs, i, a)]

\* What an LLM's API takes: a call id names one call, answered at most once, and
\* between a call and its answer there is nothing but answers.  Calls without an
\* answer and answers without a call may come in.
InRounds(s) ==
    \A i, j \in DOMAIN s :
        /\ i # j => CallIds(s[i]) \cap CallIds(s[j]) = {} /\ Answered(s[i]) \cap Answered(s[j]) = {}
        /\ Answered(s[j]) \cap CallIds(s[i]) # {} => i < j /\ \A k \in (i + 1)..j : IsResponse(s[k])
ASSUME ChatAssumption ==
    \A msgs \in Chats, a \in Adapters :
        /\ Len(msgs) \in Nat /\ DOMAIN msgs = 1..Len(msgs)
        /\ \A i \in DOMAIN msgs : msgs[i].size \in Nat /\ Len(msgs[i].calls) \in Nat
        /\ InRounds(to_items(msgs, a))

\* What is sent: the OpenAI adapter puts content blocks back as they came.
SentSize(it) == IF adapter = "openai" /\ it.pos # NoPos /\ chat[it.pos].blocks
                THEN chat[it.pos].size ELSE it.size
from_items(s) == [i \in DOMAIN s |-> [role |-> s[i].role, text |-> s[i].text,
                     calls |-> s[i].calls, resp |-> s[i].resp, size |-> SentSize(s[i])]]

-----------------------------------------------------------------------------
(* The pipeline's repairs.                                                  *)

\* The stamped position; a summary has none and is placed by the list it
\* was in, or last.
Position(it, before, n) ==
    IF it.pos # NoPos THEN it.pos
    ELSE Min({Len(before) + n + 1} \cup {i \in DOMAIN before : before[i].id = it.id})

\* _preserve_invariants: pinned objects the layer left out and the lost
\* halves of pairs come back, and a stable sort restores the order.
Lost(before, after) == {i \in DOMAIN before : before[i].pinned /\ before[i].id \notin ObjectIds(after)}
Halves(before, kept) ==
    {i \in DOMAIN before :
        /\ before[i].id \notin ObjectIds(kept)
        /\ \/ Answered(before[i]) \cap (AllCalls(kept) \ AllAnswered(kept)) # {}
           \/ CallIds(before[i]) \cap (AllAnswered(kept) \ AllCalls(kept)) # {}}
Repair(before, after) ==
    LET kept == after \o ItemsAt(before, Lost(before, after))
        all  == kept \o ItemsAt(before, Halves(before, kept))
    IN  Arranged(all, {<<Position(all[i], before, Len(all)), i>> : i \in DOMAIN all})

\* mutant: both halves are judged by the list as it came
CleanedOnce(s) == ItemsAt(s, {i \in DOMAIN s : /\ CallIds(s[i]) \subseteq AllAnswered(s)
                                              /\ Answered(s[i]) \subseteq AllCalls(s)})

\* _final_safety_cleanup: calls without all their answers go, then answers
\* without their call.
Cleaned(s) ==
    LET called == ItemsAt(s, {i \in DOMAIN s : CallIds(s[i]) \subseteq AllAnswered(s)})
    IN  ItemsAt(called, {i \in DOMAIN called : Answered(called[i]) \subseteq AllCalls(called)})

-----------------------------------------------------------------------------
(* The layers, as functions from items to items.                            *)

\* Rows or characters are elided; the marker is longer than nothing.
Trimmed(it) == IF it.size <= MAX_CHARS THEN it
               ELSE [with_content(it, MAX_CHARS + 1) EXCEPT !.cut = TRUE]
Oversized(s) == [i \in DOMAIN s |-> Trimmed(s[i])]
ToolResults(s) == [i \in DOMAIN s |-> IF IsResponse(s[i]) THEN Trimmed(s[i]) ELSE s[i]]

Content(it) == <<it.text, it.cut, it.times>>
Plain(it) == ~HasCalls(it) /\ ~IsResponse(it)

\* MessageDedup: the first of its (role, content) stays, and is pinned when
\* a later one is.
Deduped(s) ==
    LET same(i, j) == /\ Plain(s[i]) /\ Plain(s[j])
                      /\ s[i].role = s[j].role /\ Content(s[i]) = Content(s[j])
        first(i) == \A j \in 1..(i - 1) : ~same(i, j)
        marked == [i \in DOMAIN s |-> [s[i] EXCEPT !.pinned =
                      @ \/ \E j \in DOMAIN s : same(i, j) /\ first(i) /\ s[j].pinned]]
    IN  ItemsAt(marked, {i \in DOMAIN s : first(i)})

\* RepeatedToolCallMerger: (assistant, response) pairs with the same calls
\* and the same answer.  The kept response is replaced in the list itself,
\* and the other pairs' messages are dropped.
CallPairs(s) == {p \in (DOMAIN s) \X (DOMAIN s) : Answered(s[p[2]]) \cap CallIds(s[p[1]]) # {}}
Fingerprint(it) == [k \in DOMAIN it.calls |-> it.calls[k].fn]
Twins(s, p) == {q \in CallPairs(s) : /\ Fingerprint(s[q[1]]) = Fingerprint(s[p[1]])
                                     /\ Content(s[q[2]]) = Content(s[p[2]])}
Later(p, q) == p[1] > q[1] \/ (p[1] = q[1] /\ p[2] > q[2])
Latest(s, p) == \A q \in Twins(s, p) : q = p \/ Later(p, q)
MergedInPlace(s) ==
    LET count(i) == IF \E p \in CallPairs(s) : p[2] = i /\ Latest(s, p)
                    THEN Cardinality(Twins(s, CHOOSE p \in CallPairs(s) : p[2] = i)) ELSE 1
    IN  [i \in DOMAIN s |-> IF count(i) < 2 THEN s[i]
                            ELSE [with_content(s[i], s[i].size) EXCEPT !.times = count(i)]]
Repeats(s) == UNION {{p[1], p[2]} : p \in {q \in CallPairs(s) : ~Latest(s, q)}}

\* NearDuplicateClusterer, from the newest item to the oldest; texts are
\* near duplicates when they are one text.
Anchors(s) ==
    LET plain(i) == s[i].role \in {"user", "assistant"} /\ Plain(s[i])
        n == Len(s)
        anchor[k \in 0..n] ==   \* the anchors among the newest k
            IF k = 0 THEN {}
            ELSE LET i == n - k + 1
                 IN  IF plain(i) /\ \A j \in anchor[k - 1] : s[j].text # s[i].text
                     THEN anchor[k - 1] \cup {i} ELSE anchor[k - 1]
    IN  anchor[n] \cup {i \in DOMAIN s : ~plain(i) \/ s[i].pinned}

\* The pairs' partners of the kept indexes; a response has one call.
Expanded(s, keep) ==
    LET calls == keep \cup {p[1] : p \in {q \in CallPairs(s) : q[2] \in keep}}
    IN  calls \cup {p[2] : p \in {q \in CallPairs(s) : q[1] \in calls}}

\* mutant: the cost of the item itself is left out
FitsBefore(used, cost, budget) == used <= budget

Fits(used, cost, budget) == used <= budget /\ used + cost <= budget

\* TokenBudgetSelector: pinned items, then by score, then the most recent;
\* an item that does not fit is passed over, until the budget is exceeded.
WithinBudget(s, budget) ==
    LET recent(i) == Len(s) + 1 - i
        key(i) == IF s[i].pinned THEN 0 ELSE 1 + Max({s[j].score : j \in DOMAIN s}) - s[i].score
        ordered == Arranged([k \in DOMAIN s |-> recent(k)], {<<key(i), recent(i)>> : i \in DOMAIN s})
        kept[k \in 0..Len(s)] ==   \* of the first k
            IF k = 0 THEN {}
            ELSE LET i == ordered[k]
                     fits == Fits(TokensAt(s, kept[k - 1]), count_item_tokens(s[i]), budget)
                 IN  kept[k - 1] \cup (IF s[i].pinned \/ fits THEN {i} ELSE {})
    IN  ItemsAt(s, Expanded(s, kept[Len(s)]))

\* SlidingWindowSelector: the last unpinned items, and while those are over
\* the budget the oldest unpinned one goes, whatever its partner.
InWindow(s) ==
    LET keep == Expanded(s, (DOMAIN s \ Free(s)) \cup Recent(s, Window))
        open == keep \cap Free(s)
        without(k) == {i \in keep : i \in open => Cardinality({j \in open : j < i}) >= k}
        done(k) == \/ TokensAt(s, without(k)) <= MaxTokens
                   \/ Cardinality(without(k)) <= 1
                   \/ without(k) \cap open = {}
    IN  ItemsAt(s, without(Min({k \in 0..Cardinality(keep) : done(k)})))

\* PromptSummarizer: the older unpinned items give way to one pinned item.
Summary == [id |-> <<NoPos, 0>>, pos |-> NoPos, role |-> "system", text |-> SUMMARY,
            size |-> 1, times |-> 1, cut |-> FALSE, calls |-> <<>>, resp |-> NoCall,
            pinned |-> TRUE, score |-> 0]
Folded(s) ==
    ItemsAt(s, DOMAIN s \ Free(s)) \o <<Summary>> \o ItemsAt(s, Recent(s, KeepRecent))
Folds(s) == 10 * count_items_tokens(s) > 7 * MaxTokens /\ Free(s) # Recent(s, KeepRecent)

-----------------------------------------------------------------------------
(* The presets and the steps of Pipeline.run.                               *)

Layers(p) ==
    CASE p = "minimal"  -> <<"tool_results", "dedup", "window">>
      [] p = "balanced" -> <<"oversized", "dedup", "repeated", "tool_results", "rank", "budget">>
      [] p = "aggressive"  -> <<"dedup", "repeated", "tool_results", "near", "rank", "budget">>
      [] p = "summarizing" -> <<"dedup", "repeated", "tool_results", "near", "summarize",
                                "rank", "budget">>

OptimizerInit ==
    /\ chat \in Chats /\ adapter \in Adapters /\ preset \in Presets
    /\ ctxItems = to_items(chat, adapter)
    /\ layersDue = Layers(preset)
    /\ pruned = {} /\ outcome = "running"

Layer(name, before, after) ==
    /\ outcome = "running" /\ layersDue # <<>> /\ Head(layersDue) = name
    /\ ctxItems' = Repair(before, after)
    /\ layersDue' = Tail(layersDue)
    /\ UNCHANGED <<chat, adapter, preset, outcome>>

Pruning(name, after) ==
    /\ Layer(name, ctxItems, after)
    /\ pruned' = pruned \cup (Positions(ctxItems) \ Positions(ctxItems'))

OversizedContentCompression ==
    Layer("oversized", ctxItems, Oversized(ctxItems)) /\ UNCHANGED pruned
ToolResultCompression ==
    Layer("tool_results", ctxItems, ToolResults(ctxItems)) /\ UNCHANGED pruned
MessageDedup == Layer("dedup", ctxItems, Deduped(ctxItems)) /\ UNCHANGED pruned
RepeatedToolCallMerger ==
    /\ LET s == MergedInPlace(ctxItems)
       IN  Layer("repeated", s, ItemsAt(s, DOMAIN s \ Repeats(ctxItems)))
    /\ UNCHANGED pruned
NearDuplicateClusterer ==
    Layer("near", ctxItems, ItemsAt(ctxItems, Anchors(ctxItems))) /\ UNCHANGED pruned
PromptSummarizer ==
    \/ Folds(ctxItems) /\ Pruning("summarize", Folded(ctxItems))
    \/ Pruning("summarize", ctxItems)  \* under the threshold, or the LLM failed
CompositeRanker ==
    /\ \E f \in [DOMAIN ctxItems -> Scores] :
          /\ \A i \in DOMAIN ctxItems : ctxItems[i].pinned => f[i] = Max(Scores)
          /\ LET ranked == [i \in DOMAIN ctxItems |-> [ctxItems[i] EXCEPT !.score = f[i]]]
             IN  Layer("rank", ranked, ranked)
    /\ UNCHANGED pruned
TokenBudgetSelector == Pruning("budget", WithinBudget(ctxItems, MaxTokens))
SlidingWindowSelector == Pruning("window", InWindow(ctxItems))

FinalCleanup ==
    /\ outcome = "running" /\ layersDue = <<>>
    /\ ctxItems' = Cleaned(ctxItems)
    /\ outcome' = "optimized"
    /\ UNCHANGED <<chat, adapter, preset, layersDue, pruned>>

\* Counting tokens outside a layer may raise: the caller catches it and
\* sends the messages it had.
OptimizerRaises ==
    /\ outcome = "running" /\ outcome' = "skipped"
    /\ UNCHANGED <<chat, adapter, preset, ctxItems, layersDue, pruned>>

OptimizerNext ==
    \/ OversizedContentCompression \/ ToolResultCompression \/ MessageDedup
    \/ RepeatedToolCallMerger \/ NearDuplicateClusterer \/ PromptSummarizer
    \/ CompositeRanker \/ TokenBudgetSelector \/ SlidingWindowSelector
    \/ FinalCleanup \/ OptimizerRaises

OptimizerSpec == OptimizerInit /\ [][OptimizerNext]_optimizerVars

-----------------------------------------------------------------------------
(* Properties.                                                              *)

\* Types: every item stems from a message by its stamped position, or is a
\* summary (item.py, Pipeline.run).
OptimizerTypeOK ==
    /\ outcome \in {"running", "optimized", "skipped"}
    /\ pruned \subseteq DOMAIN chat
    /\ \A i \in DOMAIN ctxItems : ctxItems[i].pos \in {NoPos} \cup DOMAIN chat
    /\ outcome = "skipped" \/ Len(layersDue) <= 7

Optimized == outcome = "optimized"

\* The contract of _final_safety_cleanup: each call has its answer after it
\* and each answer its call before it, whatever layers ran and whatever
\* halves of pairs came in.
PairsAreWhole ==
    Optimized => \A i \in DOMAIN ctxItems :
        /\ \A c \in CallIds(ctxItems[i]) :
              \E j \in (i + 1)..Len(ctxItems) : c \in Answered(ctxItems[j])
        /\ \A c \in Answered(ctxItems[i]) : \E j \in 1..(i - 1) : c \in CallIds(ctxItems[j])

\* What the LLM's API asks for (pipeline.py:316-357): between a call and its answers there is
\* nothing but answers.  PromptSummarizer's item breaks it.
AnswersFollowTheirCall ==
    Optimized => \A i, j \in DOMAIN ctxItems :
        i < j /\ Answered(ctxItems[j]) \cap CallIds(ctxItems[i]) # {}
            => \A k \in (i + 1)..j : IsResponse(ctxItems[k])
\* _preserve_invariants sorts by stamped positions (pipeline.py:248-313): without
\* PromptSummarizer, copies, restored items and pairs never come apart.
NoSummaryNoGap == preset # "summarizing" => AnswersFollowTheirCall

\* _preserve_invariants and OversizedContentCompression (compression.py:108-133):
\* a pinned message is never lost, and goes out whole: the trimmed copy of
\* OversizedContentCompression does not stand in for it.
PinnedGoOutWhole ==
    Optimized => LET s == to_items(chat, adapter)
            IN  \A i \in DOMAIN s : s[i].pinned /\ Plain(s[i]) =>
                    \E k \in DOMAIN ctxItems : ctxItems[k].pos = i /\ ~ctxItems[k].cut

\* TokenBudgetSelector and SlidingWindowSelector (selection.py:74-142): apart
\* from tool rounds, which come back whole after a selection, what goes out is
\* within the budget, or all of it is pinned; but for a window down to its last
\* item, which stays however long it is.
Unpaired(s) == {i \in DOMAIN s : CallIds(s[i]) = {} /\ Answered(s[i]) = {}}
OverBudgetForAReason ==
    Optimized =>
        \/ TokensAt(ctxItems, Unpaired(ctxItems)) <= MaxTokens
        \/ Unpaired(ctxItems) \cap Free(ctxItems) = {}
        \/ preset = "minimal" /\ Len(ctxItems) = 1

\* "Keep one representative pair, drop the rest" (clustering.py:104-107).
\* RepeatedToolCallMerger keeps one representative of each repeated call:
\* while nothing was pruned, a call and its answer that came in go out.
OneCallAtATime(s) == \A i \in DOMAIN s : \A c, d \in CallIds(s[i]) : c = d
Represented(s, p) ==
    \E q \in CallPairs(ctxItems) :
        /\ Fingerprint(ctxItems[q[1]]) = Fingerprint(s[p[1]])
        /\ ctxItems[q[2]].text = s[p[2]].text
RepresentativeKept ==
    Optimized /\ pruned = {} =>
        LET s == to_items(chat, adapter)
        IN  Cleaned(s) = s => \A p \in CallPairs(s) : Represented(s, p)
\* The same for conversations whose assistant messages make one call each, where
\* the representative is one pair (clustering.py:128-173).
SingleCallsKept == OneCallAtATime(to_items(chat, adapter)) => RepresentativeKept

\* pipeline.py:248-357: no sequence of layers tears a tool round apart, or loses
\* one that nothing was meant to leave out, and what is pinned goes out whole.
ConversationStaysWhole == PairsAreWhole /\ NoSummaryNoGap /\ SingleCallsKept /\ PinnedGoOutWhole

=============================================================================
