----------------------------- MODULE Checkpoints -----------------------------
(***************************************************************************)
(* The Spanner checkpointer, used by the LangGraph loop of one run: after  *)
(* a step the loop puts a checkpoint, during the next it puts the writes   *)
(* of that step's task, and after a crash it goes on from the latest       *)
(* checkpoint get_tuple finds.  Each call is one transaction.              *)
(***************************************************************************)
EXTENDS Integers, Sequences, FiniteSets, FiniteSetsExt

CONSTANTS MaxCheckpoints,  \* bound: checkpoints of the run
          MaxBatches,      \* bound: put_writes calls at one checkpoint
          MaxWrites        \* bound: writes of one call

ASSUME CheckpointAssumption == MaxCheckpoints \in Nat /\ MaxBatches \in Nat /\ MaxWrites \in Nat

Ids == 1..MaxCheckpoints

VARIABLES parent,   \* the rows of checkpoints: parent_checkpoint_id; -1: no row
          writes,   \* the rows of checkpoint_writes, by write_idx
          batches,  \* history: the batches put_writes stored, per checkpoint
          at,       \* the checkpoint the loop is at; 0 when it has none
          looping   \* whether a process runs the loop

checkpointVars == <<parent, writes, batches, at, looping>>

CheckpointsInit ==
    /\ parent = [i \in Ids |-> -1]
    /\ writes = [i \in Ids |-> <<>>] /\ batches = [i \in Ids |-> <<>>]
    /\ at = 0 /\ looping = TRUE

Rows == {i \in Ids : parent[i] >= 0}

\* get_tuple: the row asked for, or the one with the greatest id.
get_tuple(id) ==
    LET found == IF id > 0 THEN id ELSE Max(Rows)
    IN  [id |-> found, parent |-> parent[found], pending_writes |-> writes[found]]

\* list: the rows below "before", the latest first.
list(before) ==
    LET below == {i \in Rows : i < before}
        nth(k) == CHOOSE i \in below : Cardinality({j \in below : j >= i}) = k
    IN  [k \in 1..Cardinality(below) |-> get_tuple(nth(k))]

\* put: one row; checkpoint ids grow, and the config names the one before.
put ==
    /\ looping /\ at < MaxCheckpoints
    /\ \E i \in Ids : /\ i > at /\ i <= at + 2
                      /\ parent' = [parent EXCEPT ![i] = at]
                      /\ at' = i
    /\ UNCHANGED <<writes, batches, looping>>

\* mutant: INSERT OR IGNORE
PutWritesIgnored(n) ==
    /\ looping /\ at > 0 /\ Len(batches[at]) < MaxBatches
    /\ LET v == Len(batches[at]) + 1
           old == writes[at]
       IN  writes' = [writes EXCEPT ![at] = [k \in 1..Max({n, Len(old)}) |-> IF k <= Len(old) THEN old[k] ELSE v]]
    /\ batches' = [batches EXCEPT ![at] = Append(@, n)]
    /\ UNCHANGED <<parent, at, looping>>

\* put_writes: n rows with write_idx 0..n-1; a later call of the same task
\* overwrites them one by one and leaves the rows beyond.
put_writes(n) ==
    /\ looping /\ at > 0 /\ Len(batches[at]) < MaxBatches
    /\ LET v == Len(batches[at]) + 1
           old == writes[at]
       IN  /\ writes' = [writes EXCEPT ![at] =
                 [k \in 1..Max({n, Len(old)}) |-> IF k <= n THEN v ELSE old[k]]]
           /\ batches' = [batches EXCEPT ![at] = Append(@, n)]
    /\ UNCHANGED <<parent, at, looping>>

CheckpointCrash == looping /\ looping' = FALSE /\ UNCHANGED <<parent, writes, batches, at>>

\* A process goes on with the run.
CheckpointResume ==
    /\ ~looping /\ looping' = TRUE
    /\ at' = IF Rows = {} THEN 0 ELSE get_tuple(0).id
    /\ UNCHANGED <<parent, writes, batches>>

CheckpointsNext ==
    \/ put
    \/ \E n \in 1..MaxWrites : put_writes(n)
    \/ CheckpointCrash
    \/ CheckpointResume

CheckpointsSpec == CheckpointsInit /\ [][CheckpointsNext]_checkpointVars

\* Types: rows, writes and the loop's place keep their shape.
CheckpointsTypeOK ==
    /\ parent \in [Ids -> -1..MaxCheckpoints]
    /\ writes \in [Ids -> Seq(1..MaxBatches)] /\ batches \in [Ids -> Seq(1..MaxWrites)]
    /\ at \in 0..MaxCheckpoints /\ looping \in BOOLEAN

\* put and get_tuple (spanner_checkpointer.py:46-69, 105-146):
\* a crash loses no checkpoint; what get_tuple finds is where the loop was.
ResumesWhereItWas == Rows # {} => get_tuple(0).id = at

\* put names the checkpoint before (spanner_checkpointer.py:46-69, 148-179):
\* list walks the run back to its start: each checkpoint's parent is the next
\* one listed, across crashes.
HistoryIsAChain ==
    LET l == list(MaxCheckpoints + 1)
    IN  \A k \in 1..Len(l) : l[k].parent = IF k = Len(l) THEN 0 ELSE l[k + 1].id

\* put_writes inserts or updates by write_idx (spanner_checkpointer.py:71-103):
\* pending writes read back as the last batch stored, unless a longer batch
\* came before it: then that one's tail follows.
LastBatchReadBack ==
    \A i \in Rows : batches[i] # <<>> =>
        LET w == get_tuple(i).pending_writes
            last == Len(batches[i])
        IN  /\ \A k \in 1..batches[i][last] : w[k] = last
            /\ \A k \in (batches[i][last] + 1)..Len(w) : w[k] < last /\ batches[i][w[k]] >= k

\* spanner_checkpointer.py:46-179: a run goes on at its latest checkpoint, with
\* that one's pending writes and the chain of those before it.
RunGoesOnWhereItWas == ResumesWhereItWas /\ HistoryIsAChain /\ LastBatchReadBack

=============================================================================
