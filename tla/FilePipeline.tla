---------------------------- MODULE FilePipeline ----------------------------
(***************************************************************************)
(* BackupWithOptions up to the publication of the manifest: the source is  *)
(* walked (SourceWalk); then a feeder goroutine sends the jobs of the walk *)
(* to the file workers, a worker reads a file, stores its chunks and       *)
(* compares the file's size and time with those of the walk, and the main  *)
(* goroutine collects the results and returns at the first error.  Files   *)
(* change at any moment, and a worker reads a file in two parts.           *)
(***************************************************************************)
EXTENDS SourceWalk

CONSTANTS
    FileWorkers,    \* the file worker goroutines
    StoreErrors     \* may reading a file or storing its chunks fail?

ASSUME FilePipelineAssumption ==
    /\ IsFiniteSet(FileWorkers) /\ FileWorkers # {}
    /\ StoreErrors \in BOOLEAN

VARIABLES
    fed,          \* the number of jobs the feeder has sent
    work,         \* names in the work channel
    workClosed,
    results,      \* results in the results channel
    resultsClosed,
    wpc,          \* where each worker is; "done" before it is started, too
    file,         \* the name each worker has
    first, second, \* the versions it read the two parts of the file from
    entries,      \* the parts collected for each name
    main          \* "walk", "collect", "failed" or "stored"

feeder == <<fed, work, workClosed>>
workers == <<wpc, file, first, second>>
collector == <<entries, main>>
vars == <<source, walkVars, feeder, results, resultsClosed, workers, collector>>

WorkCapacity == 2 * Cardinality(FileWorkers)

(* Mutant of ResultsCapacity: as many as there are workers. *)
ResultsPerWorker == Cardinality(FileWorkers)

(* One result for each file, so that a worker never waits for the main     *)
(* goroutine.                                                              *)
ResultsCapacity == Len(jobs)

Failed == [failed |-> TRUE]
Parts == [first : Versions, second : Versions]
Result == [file : Names, entry : Parts \union {Failed}]

TypeOK ==
    /\ WalkTypeOK
    /\ fed \in 0..Len(jobs)
    /\ work \in Seq(Names) /\ Len(work) <= WorkCapacity
    /\ workClosed \in BOOLEAN /\ resultsClosed \in BOOLEAN
    /\ results \in Seq(Result) /\ Len(results) <= ResultsCapacity
    /\ wpc \in [FileWorkers -> {"receive", "open", "read", "stat", "done"}]
    /\ file \in [FileWorkers -> Names \union {NoName}]
    /\ first \in [FileWorkers -> Versions]
    /\ second \in [FileWorkers -> Versions]
    /\ entries \in [Names -> Parts \union {Failed}]
    /\ main \in {"walk", "collect", "failed", "stored"}

Init ==
    /\ WalkInit
    /\ fed = 0 /\ work = <<>> /\ workClosed = FALSE
    /\ results = <<>> /\ resultsClosed = FALSE
    /\ wpc = [w \in FileWorkers |-> "done"]
    /\ file = [w \in FileWorkers |-> NoName]
    /\ first = [w \in FileWorkers |-> 0]
    /\ second = [w \in FileWorkers |-> 0]
    /\ entries = [f \in Names |-> Failed]
    /\ main = "walk"

(* After the walk the world writes to a file while a worker has it: an     *)
(* earlier write is as good as one before the worker opens the file, and   *)
(* a later one is not seen.                                                *)
World ==
    /\ \E n \in Names :
        \/ (main = "walk" \/ \E w \in FileWorkers : file[w] = n) /\ Change(inode[n])
        \/ main = "walk" /\ Touch(n)
    /\ UNCHANGED <<feeder, results, resultsClosed, workers, collector>>

(* The main goroutine walks the tree; then it starts the workers and the   *)
(* feeder, or returns.                                                     *)
Walk ==
    /\ main = "walk"
    /\ WalkStep
    /\ CASE walk' = "going" -> UNCHANGED <<wpc, main>>
         [] walk' = "failed" -> main' = "failed" /\ UNCHANGED wpc
         [] walk' = "done" -> main' = "collect" /\ wpc' = [w \in FileWorkers |-> "receive"]
    /\ UNCHANGED <<feeder, results, resultsClosed, file, first, second, entries>>

-----------------------------------------------------------------------------
(* The feeder *)

FeederFrame == UNCHANGED <<source, walkVars, results, workers, collector>>

Feed ==
    /\ walk = "done" /\ fed < Len(jobs)
    /\ Len(work) < WorkCapacity
    /\ fed' = fed + 1
    /\ work' = Append(work, jobs[fed'])
    /\ UNCHANGED <<workClosed, resultsClosed>> /\ FeederFrame

CloseWork ==
    /\ walk = "done" /\ fed = Len(jobs) /\ ~workClosed
    /\ workClosed' = TRUE
    /\ UNCHANGED <<fed, work, resultsClosed>> /\ FeederFrame

(* filesWG.Wait and close(results) *)
CloseFileResults ==
    /\ workClosed /\ ~resultsClosed
    /\ \A w \in FileWorkers : wpc[w] = "done"
    /\ resultsClosed' = TRUE
    /\ UNCHANGED feeder /\ FeederFrame

-----------------------------------------------------------------------------
(* A file worker *)

(* Where a worker has a file *)
Busy == {"open", "read", "stat"}

WorkerFrame == UNCHANGED <<source, walkVars, fed, workClosed, resultsClosed, collector>>

Become(w, loc) == wpc' = [wpc EXCEPT ![w] = loc]

Content(n) == version[inode[n]]

Receive(w) ==
    /\ wpc[w] = "receive"
    /\ \/ /\ work # <<>>
          /\ file' = [file EXCEPT ![w] = Head(work)]
          /\ work' = Tail(work)
          /\ Become(w, "open")
       \/ /\ work = <<>> /\ workClosed
          /\ Become(w, "done")
          /\ UNCHANGED <<work, file>>
    /\ UNCHANGED <<results, first, second>> /\ WorkerFrame

(* results <- out: to send to a closed channel would stop the program, so  *)
(* that here the worker would stay where it is.                            *)
Deliver(w, entry) ==
    /\ ~resultsClosed /\ Len(results) < ResultsCapacity
    /\ results' = Append(results, [file |-> file[w], entry |-> entry])
    /\ file' = [file EXCEPT ![w] = NoName]
    /\ first' = [first EXCEPT ![w] = 0]
    /\ second' = [second EXCEPT ![w] = 0]
    /\ Become(w, "receive")
    /\ UNCHANGED work /\ WorkerFrame

(* os.Open, and the first part of the file *)
ReadFirst(w) ==
    /\ wpc[w] = "open"
    /\ first' = [first EXCEPT ![w] = Content(file[w])] /\ Become(w, "read")
    /\ UNCHANGED <<work, results, file, second>> /\ WorkerFrame

(* the rest of storeFileChunks, and closing the file *)
ReadRest(w) ==
    /\ wpc[w] = "read"
    /\ second' = [second EXCEPT ![w] = Content(file[w])] /\ Become(w, "stat")
    /\ UNCHANGED <<work, results, file, first>> /\ WorkerFrame

(* Opening, reading, storing or closing the file fails, or its stat. *)
Fail(w) ==
    /\ StoreErrors /\ wpc[w] \in Busy
    /\ Deliver(w, Failed)

PartsOf(w) == [first |-> first[w], second |-> second[w]]

(* Mutant of StatAfter: the file is compared with what it was when opened. *)
StatSinceOpen(w) ==
    /\ wpc[w] = "stat"
    /\ Deliver(w, IF Content(file[w]) = first[w] THEN PartsOf(w) ELSE Failed)

(* os.Stat after the file was read: "source file changed during backup" *)
StatAfter(w) ==
    /\ wpc[w] = "stat"
    /\ Deliver(w, IF Content(file[w]) = walked[file[w]].version THEN PartsOf(w) ELSE Failed)

-----------------------------------------------------------------------------
(* The main goroutine *)

CollectorFrame == UNCHANGED <<source, walkVars, feeder, resultsClosed, workers>>

(* Mutant of Collect: the early return closes the channel. *)
CollectOrClose ==
    /\ main = "collect"
    /\ results # <<>>
    /\ results' = Tail(results)
    /\ IF Head(results).entry = Failed
       THEN /\ main' = "failed" /\ resultsClosed' = TRUE
            /\ entries' = [n \in Names |-> Failed]
       ELSE /\ entries' = [entries EXCEPT ![Head(results).file] = Head(results).entry]
            /\ UNCHANGED <<main, resultsClosed>>
    /\ UNCHANGED <<source, walkVars, feeder, workers>>

Collect ==
    /\ main = "collect"
    /\ results # <<>>
    /\ results' = Tail(results)
    /\ IF Head(results).entry = Failed
       THEN main' = "failed" /\ entries' = [n \in Names |-> Failed]
       ELSE /\ entries' = [entries EXCEPT ![Head(results).file] = Head(results).entry]
            /\ UNCHANGED main
    /\ CollectorFrame

(* results is closed and empty: the manifest is built and published. *)
Complete ==
    /\ main = "collect"
    /\ results = <<>> /\ resultsClosed
    /\ main' = "stored"
    /\ UNCHANGED <<results, entries>> /\ CollectorFrame

WorkerStep(w) == Receive(w) \/ ReadFirst(w) \/ ReadRest(w) \/ StatAfter(w) \/ Fail(w)

Feeder == Feed \/ CloseWork \/ CloseFileResults

(* Every goroutine has ended. *)
Ended == main \in {"failed", "stored"} /\ (resultsClosed \/ walk = "failed") /\ UNCHANGED vars

Next ==
    \/ World \/ Walk \/ Feeder \/ Collect \/ Complete \/ Ended
    \/ \E w \in FileWorkers : WorkerStep(w)

Spec == Init /\ [][Next]_vars

(* The Go scheduler runs every goroutine that can run. *)
Fairness ==
    /\ WF_vars(Walk) /\ WF_vars(Feeder) /\ WF_vars(Collect \/ Complete)
    /\ \A w \in FileWorkers : WF_vars(WorkerStep(w))

FairSpec == Spec /\ Fairness

-----------------------------------------------------------------------------
(* Correctness *)

(* A stored backup has for every name of a file the file as it was when    *)
(* the walk looked at the name, or a hard link to a name of the same file  *)
(* that it has so, though files change at any moment and are read in       *)
(* parts.                                                                  *)
StoredWhole ==
    main = "stored" => \A n \in {m \in Names : kind[m] = "file"} :
        LET f == IF linkTo[n] = NoName THEN n ELSE linkTo[n]
            v == walked[n].version
        IN  inode[f] = inode[n] /\ entries[f] = [first |-> v, second |-> v]

(* A worker that has a file can send its result at once, whatever the      *)
(* order of the goroutines: the channel is open and has room, also when    *)
(* the main goroutine has returned at the first error and receives no      *)
(* more.  A full channel would hold the worker and the closer for ever,    *)
(* and a closed one would stop the program.                                *)
WorkersCanDeliver ==
    \A w \in FileWorkers : wpc[w] \in Busy => ~resultsClosed /\ Len(results) < ResultsCapacity

(* The backup comes to its end, and so does every worker, after an early  *)
(* return too: none waits for a main goroutine that has left.             *)
EverythingEnds ==
    <>(main \in {"failed", "stored"} /\ \A w \in FileWorkers : wpc[w] = "done")
=============================================================================
