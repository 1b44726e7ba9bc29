--------------------------- MODULE MetadataWorkers ---------------------------
(***************************************************************************)
(* The workers that look up the names of the tokens which ingestion finds: *)
(* metadata.rs (BSC), token_metadata.rs (Ethereum) and                     *)
(* tron_metadata_worker.rs (TRON).  A behaviour is that of one chain.      *)
(*                                                                         *)
(* A table is a sequence of rows per token, in the order of insertion; a   *)
(* background merge keeps the last.  Ethereum reads the jobs unmerged, the *)
(* others the last row.  The hour of the next attempt is abstracted to     *)
(* whether it has come.                                                    *)
(***************************************************************************)
EXTENDS Integers, Sequences, FiniteSets, FiniteSetsExt, SequencesExt

CONSTANTS
    Tokens,
    MaxAttempts,    \* 10 on BSC, a setting on the others
    BatchSizes,     \* the LIMITs that the query for pending tokens may have
    MaxFound,       \* bound: how often ingestion finds a token
    MaxStops        \* bound: crashes and batches given up

VARIABLES
    chain,      \* "bsc", "ethereum" or "tron"
    size,       \* how many tokens are loaded at once: 25 on BSC, a setting on the others
    found,      \* how often each token was found
    jobs,       \* token_metadata_jobs: sequences of attempt counts
    due,        \* the tokens whose next attempt has come
    metadata,   \* token_metadata: sequences of rows
    queue,      \* the worker's batch: tokens with the attempts that Load read
    stage,      \* "load", "resolve", or the outcome that is being recorded
    attempt,    \* the attempt count that the head of the queue goes by
    tried,      \* how often each token's look-up was really finished
    stops
vars == <<chain, size, found, jobs, due, metadata, queue, stage, attempt, tried, stops>>

Chains == {"bsc", "ethereum", "tron"}
Sources == {"complete", "partial", "manual"}

TypeOK ==
    /\ chain \in Chains /\ size \in BatchSizes /\ due \subseteq Tokens
    /\ \A t \in Tokens : Range(jobs[t]) \subseteq Nat /\ Range(metadata[t]) \subseteq Sources
    /\ Range(queue) \subseteq Tokens \X Nat

Init ==
    /\ chain \in Chains /\ size \in BatchSizes
    /\ found = [t \in Tokens |-> 0] /\ tried = [t \in Tokens |-> 0]
    /\ jobs = [t \in Tokens |-> <<>>] /\ metadata = [t \in Tokens |-> <<>>]
    /\ due = Tokens /\ queue = <<>> /\ stage = "load" /\ attempt = 0 /\ stops = 0

-----------------------------------------------------------------------------
(* What the queries read *)

\* Rows that are not merged yet are all read by Ethereum's max().
Attempts(t) == IF jobs[t] = <<>> THEN 0
               ELSE IF chain = "ethereum" THEN Max(Range(jobs[t])) ELSE Last(jobs[t])

\* token_metadata_current: a verified row first, then the latest.
Current(t) == IF metadata[t] = <<>> THEN "none"
              ELSE IF "manual" \in Range(metadata[t]) THEN "manual" ELSE Last(metadata[t])

\* A partial row ends the matter on Ethereum and TRON.
Resolved(t) == IF chain = "bsc" THEN Current(t) \in {"complete", "manual"} ELSE metadata[t] # <<>>

Exhausted(attempts) == attempts >= MaxAttempts

Pending == {t \in Tokens : found[t] > 0 /\ ~Resolved(t) /\ ~Exhausted(Attempts(t))}

-----------------------------------------------------------------------------
(* Ingestion *)

\* Ethereum writes a job with no attempts each time, the others a discovery.
Discover(t) ==
    /\ FoldFunction(LAMBDA n, m : n + m, 0, found) < MaxFound
    /\ found' = [found EXCEPT ![t] = @ + 1]
    /\ jobs' = IF chain = "ethereum" THEN [jobs EXCEPT ![t] = Append(@, 0)] ELSE jobs
    /\ UNCHANGED <<chain, size, due, metadata, queue, stage, attempt, tried, stops>>

\* import_metadata: a reviewed row, on BSC.
Import(t) ==
    /\ chain = "bsc" /\ "manual" \notin Range(metadata[t])
    /\ metadata' = [metadata EXCEPT ![t] = Append(@, "manual")]
    /\ UNCHANGED <<chain, size, found, jobs, due, queue, stage, attempt, tried, stops>>

\* The database keeps the last row of a key, when it merges.
Merge(t) ==
    /\ Len(jobs[t]) > 1 \/ Len(metadata[t]) > 1
    /\ \/ /\ Len(jobs[t]) > 1 /\ jobs' = [jobs EXCEPT ![t] = <<Last(@)>>] /\ UNCHANGED metadata
       \/ /\ Len(metadata[t]) > 1 /\ metadata' = [metadata EXCEPT ![t] = <<Last(@)>>]
          /\ UNCHANGED jobs
    /\ UNCHANGED <<chain, size, found, due, queue, stage, attempt, tried, stops>>

\* The back-off of a BSC token ends.
Wait(t) ==
    /\ t \notin due /\ due' = due \cup {t}
    /\ UNCHANGED <<chain, size, found, jobs, metadata, queue, stage, attempt, tried, stops>>

-----------------------------------------------------------------------------
(* The worker *)

\* The tokens found in the lowest blocks come first, which may be any: a later
\* discovery, or a block that leaves the chain, changes the order.
Load ==
    /\ stage = "load" /\ Pending \cap due # {}
    /\ \E batch \in kSubset(Min({size, Cardinality(Pending \cap due)}), Pending \cap due) :
          queue' = SetToSeq({<<t, Attempts(t)>> : t \in batch})
    /\ stage' = "resolve"
    /\ UNCHANGED <<chain, size, found, jobs, due, metadata, attempt, tried, stops>>

\* The calls of the head of the queue: BSC reads its attempts again and writes
\* a row whatever the calls say, the others only when the look-up is done.
HeadToken == Head(queue)[1]

Resolve(outcome) ==
    /\ stage = "resolve"
    /\ attempt' = IF chain = "bsc" THEN Attempts(HeadToken) ELSE Head(queue)[2]
    /\ tried' = [tried EXCEPT ![HeadToken] = Min({@ + 1, MaxAttempts})]
    /\ stage' = IF chain = "bsc" \/ outcome # "failed" THEN "metadata" ELSE "job"
    /\ metadata' = CASE chain = "bsc" ->
                          [metadata EXCEPT ![HeadToken] =
                             Append(@, IF outcome = "complete" THEN "complete" ELSE "partial")]
                     [] chain # "bsc" /\ outcome # "failed"
                          /\ (chain = "tron" => metadata[HeadToken] = <<>>) ->
                          [metadata EXCEPT ![HeadToken] = Append(@, outcome)]
                     [] OTHER -> metadata
    /\ UNCHANGED <<chain, size, found, jobs, due, queue, stops>>

Mutant_NextAttempt(n) == n
NextAttempt(n) == n + 1

\* The job's row follows the metadata's, and ends the item.
RecordJob ==
    /\ stage \in {"metadata", "job"}
    /\ jobs' = [jobs EXCEPT ![HeadToken] = Append(@, NextAttempt(attempt))]
    /\ due' = IF chain = "bsc" THEN due \ {HeadToken} ELSE due
    /\ queue' = Tail(queue)
    /\ stage' = IF Len(queue) = 1 THEN "load" ELSE "resolve"
    /\ UNCHANGED <<chain, size, found, metadata, attempt, tried, stops>>

\* TRON's worker only logs that the job's row was not written, and goes on.
RecordFails ==
    /\ chain = "tron" /\ stage \in {"metadata", "job"} /\ stops < MaxStops
    /\ queue' = Tail(queue) /\ stops' = stops + 1
    /\ stage' = IF Len(queue) = 1 THEN "load" ELSE "resolve"
    /\ UNCHANGED <<chain, size, found, jobs, due, metadata, attempt, tried>>

\* A crash, or on BSC a block that left the chain during the calls: the rest
\* of the batch is given up, and what was written stays.
Stop ==
    /\ stage # "load" /\ stops < MaxStops
    /\ stage' = "load" /\ queue' = <<>> /\ stops' = stops + 1
    /\ UNCHANGED <<chain, size, found, jobs, due, metadata, attempt, tried>>

Work == Load \/ RecordJob \/ \E outcome \in {"complete", "partial", "failed"} : Resolve(outcome)

Next ==
    \/ Work \/ RecordFails \/ Stop
    \/ \E t \in Tokens : Discover(t) \/ Import(t) \/ Merge(t) \/ Wait(t)

Fairness == WF_vars(Work) /\ \A t \in Tokens : WF_vars(Wait(t))

Spec == Init /\ [][Next]_vars /\ Fairness

-----------------------------------------------------------------------------
(* Properties *)

\* A token is given up only after its attempts were really made, whatever a
\* crash, a merge or a second discovery did to the count.
GivesUpLate ==
    \A t \in Tokens : found[t] > 0 /\ ~Resolved(t) /\ t \notin Pending => tried[t] >= MaxAttempts

\* Every token that was found is resolved or given up in the end; no failing
\* token keeps the others from their turn.
Settles == <>[](Pending = {})
=============================================================================
