---------------------------- MODULE ChunkPipeline ----------------------------
(***************************************************************************)
(* storeFileChunks: the chunks of one file go through a bounded worker     *)
(* pool.  The caller's goroutine splits the file and sends each chunk to   *)
(* the jobs channel; the workers put chunks into the repository and send   *)
(* their references to the results channel; a collector gathers the        *)
(* references, and a closer closes results when every worker is done.      *)
(*                                                                         *)
(* A job holds the buffer its chunk is in, and PutChunk stores what it     *)
(* finds there; the reference it returns is known by the bytes.  A channel *)
(* is the sequence of what is in it: the Go runtime blocks a send while    *)
(* the channel is full and a receive while it is empty and open.           *)
(***************************************************************************)
EXTENDS Chunker

CONSTANTS
    Workers,       \* the worker goroutines
    PutErrors      \* may PutChunk fail?

ASSUME PipelineAssumption == IsFiniteSet(Workers) /\ PutErrors \in BOOLEAN

VARIABLES
    jobs,         \* chunks in the jobs channel
    jobsClosed,
    results,      \* results in the results channel
    resultsClosed,
    next,         \* the sequence number of the next chunk
    wpc,          \* where each worker is
    held,         \* the chunk, or the result, each worker has
    refs,         \* the reference the collector has for each sequence number
    putErr,       \* did the collector see an error?
    outcome       \* what storeFileChunks returned: "none" so far

caller == <<splitVars, jobsClosed, next>>
workers == <<wpc, held>>
collector == <<refs, putErr, outcome>>
vars == <<caller, jobs, results, resultsClosed, workers, collector>>

Capacity == 2 * Cardinality(Workers)

Positions == 0..MaxLength - 1
NoRef == <<>>
Nothing == [sequence |-> MaxLength]

(* The types, and "the channel capacity bounds in-flight chunk memory":    *)
(* neither channel ever holds more than its capacity.                      *)
TypeOK ==
    /\ SplitTypeOK
    /\ jobs \in Seq([sequence : Positions, data : Buffers]) /\ Len(jobs) <= Capacity
    /\ Len(results) <= Capacity
    /\ \A i \in DOMAIN results : results[i].ref \in Streams
    /\ {jobsClosed, resultsClosed, putErr} \subseteq BOOLEAN
    /\ next \in 0..MaxLength
    /\ wpc \in [Workers -> {"receive", "put", "send", "done"}]
    /\ \A w \in Workers : held[w].sequence \in Positions \union {MaxLength}
    /\ refs \in [Positions -> Streams]
    /\ outcome \in {"none", "stored", "failed"}

Init ==
    /\ SplitInit
    /\ jobs = <<>> /\ jobsClosed = FALSE
    /\ results = <<>> /\ resultsClosed = FALSE
    /\ next = 0
    /\ wpc = [w \in Workers |-> "receive"]
    /\ held = [w \in Workers |-> Nothing]
    /\ refs = [s \in Positions |-> NoRef]
    /\ putErr = FALSE
    /\ outcome = "none"

-----------------------------------------------------------------------------
(* The caller's goroutine: chunker.Split with the emit function *)

CallerFrame == UNCHANGED <<results, resultsClosed, workers, collector>>

Split == SplitStep /\ UNCHANGED <<jobs, jobsClosed, next>> /\ CallerFrame

Emit ==
    /\ Len(jobs) < Capacity
    /\ jobs' = Append(jobs, [sequence |-> next, data |-> buf])
    /\ next' = next + 1
    /\ Emitted
    /\ UNCHANGED jobsClosed /\ CallerFrame

CloseJobs ==
    /\ split \in {"ok", "failed"} /\ ~jobsClosed
    /\ jobsClosed' = TRUE
    /\ UNCHANGED <<splitVars, jobs, next>> /\ CallerFrame

-----------------------------------------------------------------------------
(* A worker *)

Receive(w) ==
    /\ wpc[w] = "receive"
    /\ jobs # <<>>
    /\ held' = [held EXCEPT ![w] = Head(jobs)]
    /\ jobs' = Tail(jobs)
    /\ wpc' = [wpc EXCEPT ![w] = "put"]
    /\ UNCHANGED <<caller, results, resultsClosed, collector>>

Put(w) ==
    /\ wpc[w] = "put"
    /\ \E f \in {FALSE, PutErrors} :
        held' = [held EXCEPT ![w] = [sequence |-> @.sequence, ref |-> memory[@.data], failed |-> f]]
    /\ wpc' = [wpc EXCEPT ![w] = "send"]
    /\ UNCHANGED <<caller, jobs, results, resultsClosed, collector>>

Send(w) ==
    /\ wpc[w] = "send"
    /\ Len(results) < Capacity
    /\ results' = Append(results, held[w])
    /\ held' = [held EXCEPT ![w] = Nothing]
    /\ wpc' = [wpc EXCEPT ![w] = "receive"]
    /\ UNCHANGED <<caller, jobs, resultsClosed, collector>>

WorkerDone(w) ==
    /\ wpc[w] = "receive"
    /\ jobs = <<>> /\ jobsClosed
    /\ wpc' = [wpc EXCEPT ![w] = "done"]
    /\ UNCHANGED <<caller, jobs, results, resultsClosed, held, collector>>

-----------------------------------------------------------------------------
(* The closer, started after the split *)

CloseResults ==
    /\ jobsClosed /\ ~resultsClosed
    /\ \A w \in Workers : wpc[w] = "done"
    /\ resultsClosed' = TRUE
    /\ UNCHANGED <<caller, jobs, results, workers, collector>>

-----------------------------------------------------------------------------
(* The collector *)

(* Mutant of Collect: the collector ends with the first error. *)
CollectUntilError ==
    /\ results # <<>> /\ ~putErr
    /\ results' = Tail(results)
    /\ IF Head(results).failed
       THEN putErr' = TRUE /\ UNCHANGED refs
       ELSE refs' = [refs EXCEPT ![Head(results).sequence] = Head(results).ref] /\ UNCHANGED putErr
    /\ UNCHANGED <<caller, jobs, resultsClosed, workers, outcome>>

(* Results arrive in any order; after an error the rest is still received. *)
Collect ==
    /\ results # <<>>
    /\ results' = Tail(results)
    /\ IF Head(results).failed
       THEN putErr' = TRUE /\ UNCHANGED refs
       ELSE refs' = [refs EXCEPT ![Head(results).sequence] = Head(results).ref] /\ UNCHANGED putErr
    /\ UNCHANGED <<caller, jobs, resultsClosed, workers, outcome>>

(* The collector delivers what it has when results is closed and empty,    *)
(* and the caller's goroutine returns.                                     *)
Return ==
    /\ outcome = "none"
    /\ resultsClosed /\ results = <<>>
    /\ outcome' = IF split = "failed" \/ putErr THEN "failed" ELSE "stored"
    /\ UNCHANGED <<caller, jobs, results, resultsClosed, workers, refs, putErr>>

(* storeFileChunks has returned. *)
Returned == outcome # "none" /\ UNCHANGED vars

WorkerStep(w) == Receive(w) \/ Put(w) \/ Send(w) \/ WorkerDone(w)

Next ==
    \/ Split \/ Emit \/ CloseJobs \/ CloseResults \/ Collect \/ Return \/ Returned
    \/ \E w \in Workers : WorkerStep(w)

Spec == Init /\ [][Next]_vars

(* The Go scheduler runs every goroutine that can run. *)
Fairness ==
    /\ WF_vars(Split \/ Emit \/ CloseJobs) /\ WF_vars(CloseResults) /\ WF_vars(Collect) /\ WF_vars(Return)
    /\ \A w \in Workers : WF_vars(WorkerStep(w))

FairSpec == Spec /\ Fairness

-----------------------------------------------------------------------------
(* Correctness *)

(* A file that is reported stored has at every place the reference of the  *)
(* chunk that belongs there: cut where the content says, as chunking       *)
(* defines it, and with the bytes of the input, whatever order the workers *)
(* finish in and however long a buffer waits for one.                      *)
OrderRetained ==
    outcome = "stored" =>
        /\ \A s \in Positions : refs[s] # NoRef <=> s < next
        /\ IsSplit([k \in 1..next |-> refs[k - 1]], input, Len(input))

(* The splitter cuts where the hash of the window, computed from nothing,  *)
(* says, and keeps to the sizes: as far as it has come.                    *)
CutsFollowContent ==
    split = "emit" /\ buf = next =>
        IsSplit([k \in 1..next + 1 |-> memory[k - 1]], input, consumed)

(* storeFileChunks returns, after errors of every kind too. *)
Terminates == <>(outcome # "none")
=============================================================================
