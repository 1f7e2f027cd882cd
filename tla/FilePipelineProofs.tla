------------------------- MODULE FilePipelineProofs -------------------------
(***************************************************************************)
(* Proofs about the file pipeline, for any source tree, any number of      *)
(* workers and of changes to the files: a backup that is stored has every  *)
(* file whole, no file is walked into two jobs, a worker that has a file   *)
(* can always send its result, and until all of them have ended some       *)
(* goroutine can run.                                                      *)
(***************************************************************************)
EXTENDS FilePipeline, SequenceTheorems, FiniteSetTheorems, TLAPS

(* The entry of a file that did not change since the walk met it *)
Whole(n) == [first |-> walked[n].version, second |-> walked[n].version]

(* The name whose job has the content of n *)
Source(n) == IF linkTo[n] = NoName THEN n ELSE linkTo[n]

Sent == {jobs[i] : i \in 1..fed}

(* What was visited has a job, or links to a name of the same file in the  *)
(* same version that has one; versions only grow; and the map of hard      *)
(* links knows the jobs.                                                   *)
WalkInv ==
    /\ \A i \in DOMAIN jobs : jobs[i] \in 1..visited
    /\ \A n \in 1..visited :
         walked[n].inode = inode[n] /\ walked[n].version <= version[inode[n]]
    /\ \A n \in 1..visited : kind[n] = "file" =>
         /\ Source(n) \in Range(jobs)
         /\ inode[Source(n)] = inode[n] /\ walked[Source(n)].version = walked[n].version
    /\ \A n \in visited + 1..NameCount : linkTo[n] = NoName
    /\ walk = "going" =>
         /\ \A h \in hardlinks : h.first \in Range(jobs) /\ h.key = walked[h.first]
         /\ \A f \in Range(jobs) : \E h \in hardlinks : h.key = walked[f]
    /\ walk = "done" => visited = NameCount
    /\ AliasesStoredOnce

(* The order in which the goroutines start and end *)
PhaseInv ==
    /\ walk = "going" <=> main = "walk"
    /\ walk = "failed" => main = "failed"
    /\ walk # "done" =>
         /\ fed = 0 /\ work = <<>> /\ ~workClosed
         /\ results = <<>> /\ \A n \in Names : entries[n] = Failed
         /\ \A w \in FileWorkers : wpc[w] = "done"
    /\ workClosed => walk = "done" /\ fed = Len(jobs)
    /\ walk = "done" => \A w \in FileWorkers : wpc[w] = "done" => work = <<>> /\ workClosed
    /\ resultsClosed => workClosed /\ \A w \in FileWorkers : wpc[w] = "done"
    /\ main = "stored" => results = <<>> /\ resultsClosed

(* What a worker has read is not older than what the walk saw, nor newer   *)
(* than what there is.                                                     *)
Reading(w) ==
    /\ wpc[w] \in Busy => file[w] \in Range(jobs)
    /\ wpc[w] \in {"read", "stat"} => walked[file[w]].version <= first[w]
    /\ wpc[w] = "read" => first[w] <= Content(file[w])
    /\ wpc[w] = "stat" => first[w] <= second[w] /\ second[w] <= Content(file[w])

ReadInv == \A w \in FileWorkers : Reading(w)

(* Every result and every entry is a failure or whole. *)
ResultInv ==
    /\ Range(work) \subseteq Range(jobs)
    /\ \A r \in Range(results) : r.file \in Range(jobs) /\ r.entry \in {Failed, Whole(r.file)}
    /\ \A n \in Names : entries[n] \in {Failed, Whole(n)}

(* Until the main goroutine gives up, each job that was sent waits, is     *)
(* worked on, has a result that waits, or an entry.                        *)
Accounted(n) ==
    \/ n \in Range(work)
    \/ \E w \in FileWorkers : wpc[w] \in Busy /\ file[w] = n
    \/ \E r \in Range(results) : r.file = n
    \/ entries[n] # Failed

NothingLost == main # "failed" => \A n \in Sent : Accounted(n)

PipelineInv ==
    TypeOK /\ WalkInv /\ PhaseInv /\ ReadInv /\ ResultInv /\ NothingLost

-----------------------------------------------------------------------------
(* Sequences, by what is in them *)

LEMMA InRange ==
    ASSUME NEW S, NEW s \in Seq(S)
    PROVE  /\ Range(s) \subseteq S
           /\ \A i \in DOMAIN s : s[i] \in Range(s)
           /\ \A x \in Range(s) : \E i \in DOMAIN s : x = s[i]
           /\ DOMAIN s = 1..Len(s) /\ Len(s) \in Nat
BY LenProperties, RangeOfSeq DEF Range

LEMMA RangeOfAppend ==
    ASSUME NEW S, NEW s \in Seq(S), NEW e \in S
    PROVE  /\ Append(s, e) \in Seq(S) /\ Len(Append(s, e)) = Len(s) + 1
           /\ \A i \in 1..Len(s) : Append(s, e)[i] = s[i]
           /\ Append(s, e)[Len(s) + 1] = e
           /\ Range(Append(s, e)) = Range(s) \union {e}
<1>1. /\ Append(s, e) \in Seq(S) /\ Len(Append(s, e)) = Len(s) + 1
      /\ \A i \in 1..Len(s) : Append(s, e)[i] = s[i]
      /\ Append(s, e)[Len(s) + 1] = e
  BY AppendProperties
<1>2. Len(s) \in Nat /\ DOMAIN s = 1..Len(s) /\ DOMAIN Append(s, e) = 1..(Len(s) + 1)
  BY <1>1, LenProperties
<1>3. Range(Append(s, e)) = Range(s) \union {e}
  BY <1>1, <1>2 DEF Range
<1> QED
  BY <1>1, <1>3

LEMMA RangeOfTail ==
    ASSUME NEW S, NEW s \in Seq(S), s # <<>>
    PROVE  /\ Tail(s) \in Seq(S) /\ Head(s) \in S /\ Len(Tail(s)) = Len(s) - 1
           /\ Len(s) > 0
           /\ Range(s) = Range(Tail(s)) \union {Head(s)}
<1>1. /\ Tail(s) \in Seq(S) /\ Head(s) \in S /\ Len(Tail(s)) = Len(s) - 1 /\ Len(s) > 0
      /\ Head(s) = s[1] /\ \A i \in 1..Len(Tail(s)) : Tail(s)[i] = s[i + 1]
  BY HeadTailProperties, LenProperties
<1>2. Len(s) \in Nat /\ DOMAIN s = 1..Len(s) /\ DOMAIN Tail(s) = 1..(Len(s) - 1)
  BY <1>1, LenProperties
<1>3. \A x \in Range(s) : x \in Range(Tail(s)) \union {Head(s)}
  <2> SUFFICES ASSUME NEW i \in 1..Len(s), i # 1 PROVE s[i] \in Range(Tail(s))
    BY <1>1, <1>2 DEF Range
  <2>1. i - 1 \in 1..Len(Tail(s)) /\ (i - 1) + 1 = i
    BY <1>1, <1>2
  <2>2. Tail(s)[i - 1] = s[i]
    BY <1>1, <2>1
  <2> QED
    BY <1>1, <1>2, <2>1, <2>2 DEF Range
<1>4. \A x \in Range(Tail(s)) \union {Head(s)} : x \in Range(s)
  BY <1>1, <1>2 DEF Range
<1> QED
  BY <1>1, <1>3, <1>4

LEMMA RangeOfEmpty == Range(<<>>) = {}
BY DEF Range

LEMMA FailedIsNotWhole == \A n : Failed # Whole(n)
<1> SUFFICES ASSUME NEW n, Failed = Whole(n) PROVE FALSE
  OBVIOUS
<1>1. DOMAIN Failed = {"failed"} /\ DOMAIN Whole(n) = {"first", "second"}
  BY DEF Failed, Whole
<1> QED
  BY <1>1

-----------------------------------------------------------------------------
(* The invariant *)

LEMMA Bounds ==
    /\ NameCount \in Nat /\ MaxChanges \in Nat
    /\ Cardinality(FileWorkers) \in Nat /\ WorkCapacity \in Nat
<1>1. NameCount \in Nat /\ MaxChanges \in Nat
  BY SourceAssumption
<1>2. Cardinality(FileWorkers) \in Nat
  BY FilePipelineAssumption, FS_CardinalityType
<1> QED
  BY <1>1, <1>2 DEF WorkCapacity

LEMMA InitPipelineInv == Init => PipelineInv
<1> SUFFICES ASSUME Init PROVE PipelineInv
  OBVIOUS
<1> USE Bounds DEF Init, WalkInit
<1>0. /\ Len(<<>>) = 0 /\ DOMAIN <<>> = {} /\ <<>> \in Seq(Names) /\ <<>> \in Seq(Result)
      /\ 0 \in Versions
  BY EmptySeq DEF Versions
<1>2. WalkTypeOK
  <2>1. NotVisited \in [inode : Names \union {NoName}, version : Versions, touches : Versions]
    BY <1>0 DEF NotVisited
  <2> QED
    BY <1>0, <2>1 DEF WalkTypeOK
<1>3. TypeOK
  <2>1. fed \in 0..Len(jobs) /\ Len(work) <= WorkCapacity /\ Len(results) <= ResultsCapacity
    BY <1>0 DEF ResultsCapacity
  <2> QED
    BY <1>0, <1>2, <2>1 DEF TypeOK
<1>4. WalkInv
  BY <1>0 DEF WalkInv, AliasesStoredOnce, Range, NoName, Names
<1>5. PhaseInv /\ ReadInv /\ ResultInv
  BY RangeOfEmpty DEF PhaseInv, ReadInv, Reading, Busy, ResultInv
<1>6. NothingLost
  BY DEF NothingLost, Sent
<1> QED
  BY <1>3, <1>4, <1>5, <1>6 DEF PipelineInv

(* The world only makes files newer. *)
LEMMA WorldStep ==
    ASSUME PipelineInv, World
    PROVE  PipelineInv'
<1> USE Bounds DEF PipelineInv, TypeOK, WalkTypeOK
<1>1. /\ UNCHANGED <<tree, walkVars, feeder, results, resultsClosed, workers, collector>>
      /\ version' \in [Names -> Versions] /\ touches' \in [Names -> Versions]
      /\ \A m \in Names : version[m] <= version'[m]
  <2>1. ASSUME NEW n \in Names, Change(inode[n])
        PROVE  /\ UNCHANGED <<tree, walkVars, touches>>
               /\ version' \in [Names -> Versions]
               /\ \A m \in Names : version[m] <= version'[m]
    <3>1. PICK t \in 1..MaxChanges : Fresh(t) /\ version' = [version EXCEPT ![inode[n]] = t]
      BY <2>1 DEF Change
    <3>2. \A m \in Names : version[m] \in Nat /\ version[m] < t
      BY <3>1 DEF Fresh, Versions
    <3>3. UNCHANGED <<tree, walkVars, touches>>
      BY <2>1 DEF Change
    <3>4. version' \in [Names -> Versions]
      BY <3>1 DEF Versions
    <3>5. \A m \in Names : version'[m] = version[m] \/ version'[m] = t
      BY <3>1
    <3>6. \A m \in Names : version[m] <= version'[m]
      <4> SUFFICES ASSUME NEW m \in Names PROVE version[m] <= version'[m]
        OBVIOUS
      <4>1. version[m] \in Nat /\ version[m] < t /\ t \in Nat
        BY <3>2, <3>1
      <4>2. version'[m] = version[m] \/ version'[m] = t
        BY <3>5
      <4> HIDE DEF PipelineInv, TypeOK, WalkTypeOK
      <4> QED
        BY <4>1, <4>2
    <3> QED
      BY <3>3, <3>4, <3>6
  <2>2. ASSUME NEW n \in Names, Touch(n)
        PROVE  /\ UNCHANGED <<tree, walkVars, version>>
               /\ touches' \in [Names -> Versions]
    <3>1. PICK t \in 1..MaxChanges : touches' = [touches EXCEPT ![n] = t]
      BY <2>2 DEF Touch
    <3>2. touches \in [Names -> Versions] /\ t \in Versions
      BY <3>1 DEF Versions
    <3>3. UNCHANGED <<tree, walkVars, version>>
      BY <2>2 DEF Touch
    <3> HIDE DEF PipelineInv, TypeOK, WalkTypeOK
    <3> QED
      BY <3>1, <3>2, <3>3
  <2>3. \A m \in Names : version[m] \in Nat
    BY DEF Versions
  <2>4. version \in [Names -> Versions] /\ touches \in [Names -> Versions]
    OBVIOUS
  <2>5. \A m \in Names : version[m] <= version[m]
    BY <2>3
  <2>6. /\ UNCHANGED <<feeder, results, resultsClosed, workers, collector>>
        /\ \E n \in Names : Change(inode[n]) \/ Touch(n)
    BY DEF World
  <2> HIDE DEF PipelineInv, TypeOK, WalkTypeOK
  <2> HIDE Bounds
  <2>7. PICK n \in Names : Change(inode[n]) \/ Touch(n)
    BY <2>6
  <2>8. CASE Change(inode[n])
    BY <2>1, <2>4, <2>6, <2>8
  <2>9. CASE Touch(n)
    BY <2>2, <2>4, <2>5, <2>6, <2>9
  <2> QED
    BY <2>7, <2>8, <2>9
<1> USE <1>1 DEF tree, walkVars, feeder, workers, collector
<1>2. TypeOK'
  BY DEF WorkCapacity, ResultsCapacity
<1>3. \A n \in Names : walked[n].version \in Nat /\ version[n] \in Nat /\ version'[n] \in Nat
  BY DEF Versions
<1>4. \A n \in 1..visited : n \in Names /\ inode[n] \in Names
  BY DEF Names
<1>5. WalkInv'
  <2>1. ASSUME NEW n \in 1..visited
        PROVE  walked'[n].inode = inode'[n] /\ walked'[n].version <= version'[inode'[n]]
    <3>1. walked[n].inode = inode[n] /\ walked[n].version <= version[inode[n]]
      BY DEF WalkInv
    <3>2. /\ walked[n].version \in Nat /\ version[inode[n]] \in Nat
          /\ version'[inode[n]] \in Nat /\ version[inode[n]] <= version'[inode[n]]
      BY <1>3, <1>4
    <3>3. walked' = walked /\ inode' = inode
      OBVIOUS
    <3> HIDE DEF PipelineInv, TypeOK, WalkTypeOK
    <3> QED
      BY <3>1, <3>2, <3>3
  <2> QED
    BY <2>1 DEF WalkInv, Source, AliasesStoredOnce
<1>6. PhaseInv'
  BY DEF PhaseInv
<1>7. ReadInv'
  <2>1. \A w \in FileWorkers : first[w] \in Nat /\ second[w] \in Nat
    BY DEF Versions
  <2>2. \A n \in Names : Content(n) \in Nat /\ Content(n)' \in Nat /\ Content(n) <= Content(n)'
    BY <1>3 DEF Content
  <2>3. \A w \in FileWorkers : wpc[w] \in Busy => file[w] \in Names
    BY InRange DEF ReadInv, Reading
  <2>4. ASSUME NEW w \in FileWorkers PROVE Reading(w)'
    <3>1. Reading(w)
      BY DEF ReadInv
    <3>2. CASE wpc[w] \in Busy
      BY <2>1, <2>2, <2>3, <3>1, <3>2 DEF Reading, Busy
    <3>3. CASE wpc[w] \notin Busy
      BY <3>3 DEF Reading, Busy
    <3> QED
      BY <3>2, <3>3
  <2> QED
    BY <2>4 DEF ReadInv
<1>8. ResultInv'
  BY DEF ResultInv, Whole
<1>9. NothingLost'
  <2>1. Sent' = Sent
    BY DEF Sent
  <2>2. \A n : Accounted(n) => Accounted(n)'
    BY DEF Accounted
  <2> QED
    BY <2>1, <2>2 DEF NothingLost
<1> QED
  BY <1>2, <1>5, <1>6, <1>7, <1>8, <1>9

-----------------------------------------------------------------------------
(* The walk *)

LEMMA JobsAreNames ==
    ASSUME TypeOK, WalkInv
    PROVE  /\ jobs \in Seq(Names) /\ Len(jobs) \in Nat /\ DOMAIN jobs = 1..Len(jobs)
           /\ Range(jobs) \subseteq 1..visited /\ 1..visited \subseteq Names
           /\ \A i \in DOMAIN jobs : jobs[i] \in Range(jobs)
           /\ \A f \in Range(jobs) : \E i \in DOMAIN jobs : f = jobs[i]
<1>1. jobs \in Seq(Names) /\ visited \in 0..NameCount
  BY DEF TypeOK, WalkTypeOK
<1>2. 1..visited \subseteq Names
  BY <1>1, Bounds DEF Names
<1>3. \A i \in DOMAIN jobs : jobs[i] \in 1..visited
  BY DEF WalkInv
<1> QED
  BY <1>1, <1>2, <1>3, InRange

LEMMA StatOf ==
    ASSUME TypeOK, NEW n \in Names
    PROVE  /\ Stat(n) \in [inode : Names \union {NoName}, version : Versions, touches : Versions]
           /\ Stat(n).inode = inode[n] /\ Stat(n).version = version[inode[n]]
BY DEF TypeOK, WalkTypeOK, Stat

(* What each of the three visits does to the names and their stats. *)
LEMMA Visits ==
    ASSUME TypeOK, WalkInv, NEW what, Visit(what)
    PROVE  /\ Here \in Names /\ visited' = Here /\ visited' \in 0..NameCount
           /\ 1..visited' = (1..visited) \union {Here} /\ Here \notin 1..visited
           /\ visited' + 1..NameCount \subseteq (visited + 1..NameCount) \ {Here}
           /\ Here \in visited + 1..NameCount
           /\ walked' \in [Names -> [inode : Names \union {NoName}, version : Versions, touches : Versions]]
           /\ \A n \in 1..visited : walked'[n] = walked[n]
           /\ walked'[Here] = Stat(Here)
           /\ walk = "going" /\ walk' = "going" /\ UNCHANGED source
<1>1. visited \in 0..NameCount /\ visited < NameCount /\ NameCount \in Nat
  BY Bounds DEF TypeOK, WalkTypeOK, Visit
<1>2. /\ Here \in Names /\ visited' = Here /\ visited' \in 0..NameCount
      /\ 1..visited' = (1..visited) \union {Here} /\ Here \notin 1..visited
      /\ visited' + 1..NameCount \subseteq (visited + 1..NameCount) \ {Here}
      /\ Here \in visited + 1..NameCount
  <2>1. visited' = Here
    BY DEF Visit
  <2> QED
    BY <1>1, <2>1 DEF Here, Names
<1>3. /\ walked \in [Names -> [inode : Names \union {NoName}, version : Versions, touches : Versions]]
      /\ walked' = [walked EXCEPT ![Here] = Stat(Here)]
  BY DEF TypeOK, WalkTypeOK, Visit
<1>4. 1..visited \subseteq Names
  BY <1>1 DEF Names
<1>5. walk = "going" /\ walk' = "going" /\ UNCHANGED source
  BY DEF Visit
<1>6. Stat(Here) \in [inode : Names \union {NoName}, version : Versions, touches : Versions]
  BY <1>2, StatOf
<1> HIDE DEF Here
<1> QED
  BY <1>2, <1>3, <1>4, <1>5, <1>6

LEMMA WalkTypes ==
    ASSUME TypeOK, WalkInv, WalkStep
    PROVE  WalkTypeOK'
<1> USE DEF WalkTypeOK
<1>1. WalkTypeOK
  BY DEF TypeOK
<1>2. ASSUME NEW what, Visit(what),
             \A h \in hardlinks' : h.first \in Names,
             linkTo' \in [Names -> Names \union {NoName}], jobs' \in Seq(Names)
      PROVE  WalkTypeOK'
  BY <1>1, <1>2, Visits DEF source, tree
<1>3. CASE VisitOther
  BY <1>1, <1>2, <1>3 DEF VisitOther
<1>4. CASE VisitAlias
  <2>1. PICK h \in Met : linkTo' = [linkTo EXCEPT ![Here] = h.first]
    BY <1>4 DEF VisitAlias
  <2>2. h.first \in Names /\ Visit("file") /\ UNCHANGED <<hardlinks, jobs>>
    BY <1>1, <1>4, <2>1 DEF VisitAlias, Met
  <2>3. linkTo' \in [Names -> Names \union {NoName}]
    BY <1>1, <2>1, <2>2
  <2> QED
    BY <1>1, <1>2, <2>2, <2>3
<1>5. CASE VisitFile
  <2>1. Visit("file") /\ Here \in Names
    BY <1>5, Visits DEF VisitFile
  <2>2. jobs' \in Seq(Names)
    BY <1>1, <1>5, <2>1, RangeOfAppend DEF VisitFile
  <2>3. \A h \in hardlinks' : h.first \in Names
    BY <1>1, <1>5, <2>1 DEF VisitFile
  <2>4. linkTo' \in [Names -> Names \union {NoName}]
    BY <1>1, <1>5 DEF VisitFile
  <2> QED
    BY <1>2, <2>1, <2>2, <2>3, <2>4
<1>6. CASE WalkFails
  BY <1>1, <1>6 DEF WalkFails, source, tree
<1>7. CASE WalkEnds
  <2>1. walked' \in [Names -> [inode : Names \union {NoName}, version : Versions, touches : Versions]]
    <3>1. 0 \in Versions
      BY Bounds DEF Versions
    <3>2. ASSUME NEW r \in [inode : Names \union {NoName}, version : Versions, touches : Versions]
          PROVE  [r EXCEPT !.touches = 0] \in
                   [inode : Names \union {NoName}, version : Versions, touches : Versions]
      BY <3>1
    <3>3. walked' = [n \in Names |-> [walked[n] EXCEPT !.touches = 0]]
      BY <1>7 DEF WalkEnds
    <3>4. \A n \in Names :
            walked[n] \in [inode : Names \union {NoName}, version : Versions, touches : Versions]
      BY <1>1
    <3> QED
      BY <3>2, <3>3, <3>4
  <2>2. touches' \in [Names -> Versions]
    BY <1>7, Bounds DEF WalkEnds, Versions
  <2> QED
    BY <1>1, <1>7, <2>1, <2>2 DEF WalkEnds, tree
<1> QED
  BY <1>3, <1>4, <1>5, <1>6, <1>7 DEF WalkStep

LEMMA WalkKeepsWalkInv ==
    ASSUME TypeOK, WalkInv, WalkStep
    PROVE  WalkInv'
<1> USE JobsAreNames
<1>1. ASSUME NEW what, Visit(what) PROVE UNCHANGED <<kind, inode, version>>
  BY <1>1 DEF Visit, source, tree
<1>2. ASSUME NEW what, Visit(what)
      PROVE  \A n \in 1..visited' :
               walked'[n].inode = inode'[n] /\ walked'[n].version <= version'[inode'[n]]
  <2>1. \A n \in 1..visited : walked[n].inode = inode[n] /\ walked[n].version <= version[inode[n]]
    BY DEF WalkInv
  <2>2. Here \in Names /\ version[inode[Here]] \in Nat
    BY <1>2, Visits DEF TypeOK, WalkTypeOK, Versions
  <2>3. walked'[Here].inode = inode[Here] /\ walked'[Here].version = version[inode[Here]]
    BY <1>2, <2>2, Visits, StatOf
  <2>4. ASSUME NEW n \in 1..visited'
        PROVE  walked'[n].inode = inode[n] /\ walked'[n].version <= version[inode[n]]
    <3>1. CASE n = Here
      BY <2>2, <2>3, <3>1
    <3>2. CASE n # Here
      BY <1>2, <2>1, <3>2, Visits
    <3> QED
      BY <3>1, <3>2
  <2> QED
    BY <1>1, <1>2, <2>4
<1>3. ASSUME NEW what, Visit(what), UNCHANGED <<hardlinks, jobs>>,
             \A n \in Names \ {Here} : linkTo'[n] = linkTo[n],
             kind[Here] = "file" =>
               \E f \in Range(jobs) : /\ linkTo'[Here] = f
                                      /\ inode[f] = inode[Here] /\ walked'[f] = walked'[Here]
      PROVE  WalkInv'
  <2> USE <1>1, <1>3, Visits
  <2>1. \A f \in Range(jobs) : f # Here /\ walked'[f] = walked[f]
    OBVIOUS
  <2>2. \A i \in DOMAIN jobs' : jobs'[i] \in 1..visited'
    BY DEF WalkInv
  <2>3. ASSUME NEW n \in 1..visited', kind'[n] = "file"
        PROVE  /\ Source(n)' \in Range(jobs')
               /\ inode'[Source(n)'] = inode'[n] /\ walked'[Source(n)'].version = walked'[n].version
    <3>1. CASE n = Here
      <4>1. PICK f \in Range(jobs) :
              /\ linkTo'[n] = f
              /\ inode[f] = inode[n] /\ walked'[f] = walked'[n]
        BY <2>3, <3>1
      <4>2. f # NoName
        BY DEF NoName
      <4>3. Source(n)' = f
        BY <4>1, <4>2 DEF Source
      <4> QED
        BY <4>1, <4>3
    <3>2. CASE n # Here
      <4>1. n \in 1..visited /\ n \in Names /\ kind[n] = "file"
        BY <2>3, <3>2
      <4>2. /\ Source(n) \in Range(jobs)
            /\ inode[Source(n)] = inode[n] /\ walked[Source(n)].version = walked[n].version
        BY <4>1 DEF WalkInv
      <4>3. Source(n)' = Source(n)
        BY <3>2, <4>1 DEF Source
      <4> QED
        BY <2>1, <4>1, <4>2, <4>3
    <3> QED
      BY <3>1, <3>2
  <2>4. \A n \in visited' + 1..NameCount : linkTo'[n] = NoName
    <3>1. \A n \in visited + 1..NameCount : linkTo[n] = NoName /\ n \in Names
      BY Bounds DEF WalkInv, TypeOK, WalkTypeOK, Names
    <3> QED
      BY <3>1
  <2>5. /\ \A h \in hardlinks' : h.first \in Range(jobs') /\ h.key = walked'[h.first]
        /\ \A f \in Range(jobs') : \E h \in hardlinks' : h.key = walked'[f]
    BY <2>1 DEF WalkInv
  <2>6. AliasesStoredOnce'
    <3>1. \A i, j \in DOMAIN jobs : walked[jobs[i]] = walked[jobs[j]] => i = j
      BY DEF WalkInv, AliasesStoredOnce
    <3> QED
      BY <2>1, <3>1 DEF AliasesStoredOnce
  <2> QED
    BY <1>2, <2>2, <2>3, <2>4, <2>5, <2>6 DEF WalkInv
<1>4. CASE VisitOther
  BY <1>3, <1>4 DEF VisitOther, Visit
<1>5. CASE VisitAlias
  <2>1. PICK h \in Met : linkTo' = [linkTo EXCEPT ![Here] = h.first]
    BY <1>5 DEF VisitAlias
  <2>2. Visit("file") /\ UNCHANGED <<hardlinks, jobs>> /\ Here \in Names
    BY <1>5, Visits DEF VisitAlias
  <2>3. h \in hardlinks /\ h.key = Stat(Here)
    BY DEF Met, HardLinkKey
  <2>4. h.first \in Range(jobs) /\ walked[h.first] = Stat(Here)
    BY <2>2, <2>3 DEF WalkInv, Visit
  <2>5. h.first \in 1..visited /\ h.first \in Names
    BY <2>4
  <2>6. linkTo'[Here] = h.first /\ \A n \in Names \ {Here} : linkTo'[n] = linkTo[n]
    <3>1. linkTo \in [Names -> Names \union {NoName}]
      BY DEF TypeOK, WalkTypeOK
    <3> QED
      BY <2>1, <2>2, <3>1
  <2>7. inode[h.first] = inode[Here]
    <3>1. walked[h.first].inode = inode[h.first]
      BY <2>5 DEF WalkInv
    <3> QED
      BY <2>2, <2>4, <3>1, StatOf
  <2>8. walked'[h.first] = walked'[Here]
    BY <2>2, <2>4, <2>5, Visits
  <2> QED
    BY <1>3, <2>2, <2>4, <2>6, <2>7, <2>8
<1>6. CASE VisitFile
  <2>1. /\ Visit("file") /\ Met = {} /\ UNCHANGED linkTo
        /\ hardlinks' = hardlinks \union {[key |-> Stat(Here), first |-> Here]}
        /\ jobs' = Append(jobs, Here)
    BY <1>6 DEF VisitFile, HardLinkKey
  <2> USE <2>1, <1>1, Visits
  <2>2. /\ Range(jobs') = Range(jobs) \union {Here} /\ DOMAIN jobs' = 1..(Len(jobs) + 1)
        /\ \A i \in 1..Len(jobs) : jobs'[i] = jobs[i] /\ jobs[i] \in Range(jobs)
        /\ jobs'[Len(jobs) + 1] = Here
    <3>1. Here \in Names /\ jobs \in Seq(Names)
      OBVIOUS
    <3>2. /\ jobs' \in Seq(Names) /\ Len(jobs') = Len(jobs) + 1
          /\ \A i \in 1..Len(jobs) : jobs'[i] = jobs[i]
          /\ jobs'[Len(jobs) + 1] = Here /\ Range(jobs') = Range(jobs) \union {Here}
      BY <3>1, RangeOfAppend
    <3>3. DOMAIN jobs' = 1..Len(jobs')
      BY <3>2, LenProperties
    <3> QED
      BY <3>2, <3>3
  <2>3. \A f \in Range(jobs) : f # Here /\ walked'[f] = walked[f]
    OBVIOUS
  <2>4. \A i \in DOMAIN jobs' : jobs'[i] \in 1..visited'
    BY <2>2
  <2>5. ASSUME NEW n \in 1..visited', kind'[n] = "file"
        PROVE  /\ Source(n)' \in Range(jobs')
               /\ inode'[Source(n)'] = inode'[n] /\ walked'[Source(n)'].version = walked'[n].version
    <3>1. Source(n)' = Source(n)
      BY DEF Source
    <3>2. CASE n = Here
      <4>1. Source(n) = n
        BY <3>2 DEF WalkInv, Source
      <4> QED
        BY <2>2, <3>1, <3>2, <4>1
    <3>3. CASE n # Here
      <4>1. n \in 1..visited /\ kind[n] = "file"
        BY <2>5, <3>3
      <4>2. /\ Source(n) \in Range(jobs)
            /\ inode[Source(n)] = inode[n] /\ walked[Source(n)].version = walked[n].version
        BY <4>1 DEF WalkInv
      <4> QED
        BY <2>2, <2>3, <3>1, <4>1, <4>2
    <3> QED
      BY <3>2, <3>3
  <2>6. \A n \in visited' + 1..NameCount : linkTo'[n] = NoName
    BY DEF WalkInv
  <2>7. /\ \A h \in hardlinks' : h.first \in Range(jobs') /\ h.key = walked'[h.first]
        /\ \A f \in Range(jobs') : \E h \in hardlinks' : h.key = walked'[f]
    <3>1. /\ \A h \in hardlinks : h.first \in Range(jobs) /\ h.key = walked[h.first]
          /\ \A f \in Range(jobs) : \E h \in hardlinks : h.key = walked[f]
      BY DEF WalkInv
    <3> DEFINE new == [key |-> Stat(Here), first |-> Here]
    <3>2. new.key = Stat(Here) /\ new.first = Here /\ hardlinks' = hardlinks \union {new}
      OBVIOUS
    <3>3. walked'[Here] = Stat(Here)
      OBVIOUS
    <3> HIDE DEF new, Here
    <3> QED
      BY <2>2, <2>3, <3>1, <3>2, <3>3
  <2>8. \A f \in Range(jobs) : walked[f] # Stat(Here)
    <3>1. \A h \in hardlinks : h.key # Stat(Here)
      BY DEF Met, HardLinkKey
    <3>2. \A f \in Range(jobs) : \E h \in hardlinks : h.key = walked[f]
      BY DEF WalkInv
    <3> HIDE <2>1, <1>1, Visits
    <3> QED
      BY <3>1, <3>2
  <2>9. AliasesStoredOnce'
    <3>1. \A i, j \in DOMAIN jobs : walked[jobs[i]] = walked[jobs[j]] => i = j
      BY DEF WalkInv, AliasesStoredOnce
    <3>2. \A i \in 1..Len(jobs) : walked'[jobs'[i]] = walked[jobs[i]] /\ walked[jobs[i]] # Stat(Here)
      BY <2>2, <2>3, <2>8
    <3>3. walked'[jobs'[Len(jobs) + 1]] = Stat(Here)
      BY <2>2
    <3>4. \A i \in DOMAIN jobs' : i \in DOMAIN jobs \/ i = Len(jobs) + 1
      BY <2>2
    <3>5. DOMAIN jobs = 1..Len(jobs)
      OBVIOUS
    <3> SUFFICES ASSUME NEW i \in DOMAIN jobs', NEW j \in DOMAIN jobs',
                        walked'[jobs'[i]] = walked'[jobs'[j]]
                 PROVE  i = j
      BY DEF AliasesStoredOnce
    <3> HIDE <2>1, <1>1, Visits
    <3>6. CASE i \in DOMAIN jobs /\ j \in DOMAIN jobs
      BY <3>1, <3>2, <3>5, <3>6
    <3>7. CASE i \notin DOMAIN jobs
      BY <3>2, <3>3, <3>4, <3>5, <3>7
    <3>8. CASE j \notin DOMAIN jobs
      BY <3>2, <3>3, <3>4, <3>5, <3>8
    <3> QED
      BY <3>6, <3>7, <3>8
  <2> QED
    BY <1>2, <2>4, <2>5, <2>6, <2>7, <2>9 DEF WalkInv
<1>7. CASE WalkFails
  BY <1>7 DEF WalkFails, WalkInv, AliasesStoredOnce, Source, source, tree
<1>8. CASE WalkEnds
  <2>1. \A n \in Names : walked'[n].inode = walked[n].inode /\ walked'[n].version = walked[n].version
    BY <1>8 DEF WalkEnds, TypeOK, WalkTypeOK
  <2>2. /\ UNCHANGED <<kind, inode, version, visited, linkTo, jobs>>
        /\ walk' = "done" /\ visited = NameCount
    BY <1>8 DEF WalkEnds, tree
  <2>3. \A n : Source(n)' = Source(n)
    BY <2>2 DEF Source
  <2> QED
    BY <2>1, <2>2, <2>3 DEF WalkInv, AliasesStoredOnce
<1> QED
  BY <1>4, <1>5, <1>6, <1>7, <1>8 DEF WalkStep

LEMMA WalkPipelineInv ==
    ASSUME PipelineInv, Walk
    PROVE  PipelineInv'
<1>1. /\ TypeOK /\ WalkInv /\ PhaseInv /\ ResultInv /\ WalkStep
      /\ walk = "going" /\ main = "walk"
  BY DEF PipelineInv, Walk, PhaseInv
<1>2. /\ fed = 0 /\ work = <<>> /\ ~workClosed /\ results = <<>> /\ ~resultsClosed
      /\ \A n \in Names : entries[n] = Failed
      /\ \A w \in FileWorkers : wpc[w] = "done"
  BY <1>1 DEF PhaseInv
<1>3. WalkTypeOK' /\ WalkInv'
  BY <1>1, WalkTypes, WalkKeepsWalkInv
<1>4. UNCHANGED <<fed, work, workClosed, results, resultsClosed, file, first, second, entries>>
  BY DEF Walk, feeder
<1>5. \/ walk' = "going" /\ UNCHANGED <<wpc, main>>
      \/ walk' = "failed" /\ main' = "failed" /\ UNCHANGED wpc
      \/ walk' = "done" /\ main' = "collect" /\ wpc' = [w \in FileWorkers |-> "receive"]
  BY <1>3 DEF Walk, WalkTypeOK
<1>6. \A w \in FileWorkers : wpc'[w] \notin Busy /\ wpc'[w] \in {"done", "receive"}
  BY <1>2, <1>5 DEF Busy
<1>7. TypeOK'
  <2>1. Len(jobs') \in Nat /\ Len(results) = 0 /\ Len(work) = 0
    BY <1>2, <1>3, InRange DEF WalkTypeOK
  <2>2. /\ fed' \in 0..Len(jobs') /\ Len(work') <= WorkCapacity'
        /\ Len(results') <= ResultsCapacity'
    BY <1>2, <1>4, <2>1, Bounds DEF ResultsCapacity, WorkCapacity
  <2>3. /\ wpc' \in [FileWorkers -> {"receive", "open", "read", "stat", "done"}]
        /\ main' \in {"walk", "collect", "failed", "stored"}
    BY <1>1, <1>5 DEF TypeOK
  <2> QED
    BY <1>1, <1>3, <1>4, <2>2, <2>3 DEF TypeOK
<1>8. PhaseInv'
  BY <1>1, <1>2, <1>4, <1>5 DEF PhaseInv
<1>9. ReadInv'
  BY <1>6 DEF ReadInv, Reading, Busy
<1>10. ResultInv'
  BY <1>2, <1>4, RangeOfEmpty DEF ResultInv
<1>11. NothingLost'
  BY <1>2, <1>4 DEF NothingLost, Sent
<1> QED
  BY <1>3, <1>7, <1>8, <1>9, <1>10, <1>11 DEF PipelineInv

-----------------------------------------------------------------------------
(* The feeder and the main goroutine *)

LEMMA FeederPipelineInv ==
    ASSUME PipelineInv, Feeder
    PROVE  PipelineInv'
<1>1. TypeOK /\ WalkInv /\ PhaseInv /\ ReadInv /\ ResultInv /\ NothingLost
  BY DEF PipelineInv
<1>2. UNCHANGED <<source, walkVars, results, workers, collector>> /\ walk = "done"
  BY <1>1 DEF Feeder, Feed, CloseWork, CloseFileResults, FeederFrame, PhaseInv
<1> USE <1>2 DEF source, tree, walkVars, workers, collector
<1>3. WalkTypeOK' /\ WalkInv'
  BY <1>1 DEF TypeOK, WalkTypeOK, WalkInv, AliasesStoredOnce, Source
<1>4. ReadInv'
  BY <1>1 DEF ReadInv, Reading, Content
<1>5. ASSUME fed' = fed, work' = work, PhaseInv' PROVE PipelineInv'
  <2>1. workClosed' \in BOOLEAN /\ resultsClosed' \in BOOLEAN
    BY <1>1 DEF TypeOK, Feeder, Feed, CloseWork, CloseFileResults, feeder
  <2>2. TypeOK'
    BY <1>1, <1>3, <1>5, <2>1 DEF TypeOK, WorkCapacity, ResultsCapacity
  <2>3. ResultInv' /\ NothingLost'
    BY <1>1, <1>5 DEF ResultInv, Whole, NothingLost, Sent, Accounted
  <2> QED
    BY <1>3, <1>4, <1>5, <2>2, <2>3 DEF PipelineInv
<1>6. CASE Feed
  <2>1. /\ fed < Len(jobs) /\ Len(work) < WorkCapacity /\ fed' = fed + 1
        /\ work' = Append(work, jobs[fed + 1]) /\ UNCHANGED <<workClosed, resultsClosed>>
    BY <1>6 DEF Feed
  <2>2. /\ fed \in Nat /\ Len(jobs) \in Nat /\ DOMAIN jobs = 1..Len(jobs)
        /\ jobs \in Seq(Names) /\ work \in Seq(Names) /\ Len(work) \in Nat
    BY <1>1, InRange DEF TypeOK, WalkTypeOK
  <2>3. fed + 1 \in DOMAIN jobs /\ jobs[fed + 1] \in Range(jobs) /\ jobs[fed + 1] \in Names
    BY <2>1, <2>2, InRange
  <2>4. /\ work' \in Seq(Names) /\ Len(work') = Len(work) + 1
        /\ Range(work') = Range(work) \union {jobs[fed + 1]}
    BY <2>1, <2>2, <2>3, RangeOfAppend
  <2>5. TypeOK'
    <3>1. Len(work') <= WorkCapacity /\ fed' \in 0..Len(jobs)
      BY <2>1, <2>2, <2>4, Bounds
    <3> QED
      BY <1>1, <1>3, <2>1, <2>4, <3>1 DEF TypeOK, WorkCapacity, ResultsCapacity
  <2>6. ~workClosed
    <3>1. fed < Len(jobs) /\ fed \in Nat /\ Len(jobs) \in Nat
      BY <2>1, <2>2
    <3>2. \A a, b \in Nat : a < b => a # b
      OBVIOUS
    <3>3. fed # Len(jobs)
      BY ONLY <3>1, <3>2
    <3> QED
      BY <1>1, <3>3 DEF PhaseInv
  <2>7. PhaseInv'
    BY <1>1, <2>1, <2>6 DEF PhaseInv
  <2>8. ResultInv'
    BY <1>1, <2>3, <2>4 DEF ResultInv, Whole
  <2>9. NothingLost'
    <3>1. \A n \in Sent' : n \in Sent \/ n = jobs[fed + 1]
      BY <2>1, <2>2 DEF Sent
    <3>2. \A n : Accounted(n) => Accounted(n)'
      BY <2>4 DEF Accounted
    <3>3. ASSUME main' # "failed", NEW n \in Sent' PROVE Accounted(n)'
      <4>1. CASE n \in Sent
        BY <1>1, <3>2, <3>3, <4>1 DEF NothingLost
      <4>2. CASE n = jobs[fed + 1]
        BY <2>1, <2>4, <4>2 DEF Accounted
      <4> QED
        BY <3>1, <3>3, <4>1, <4>2
    <3> QED
      BY <3>3 DEF NothingLost
  <2> QED
    BY <1>3, <1>4, <2>5, <2>7, <2>8, <2>9 DEF PipelineInv
<1>7. CASE CloseWork
  BY <1>1, <1>5, <1>7 DEF CloseWork, PhaseInv
<1>8. CASE CloseFileResults
  BY <1>1, <1>5, <1>8 DEF CloseFileResults, PhaseInv, feeder
<1> QED
  BY <1>6, <1>7, <1>8 DEF Feeder

LEMMA CollectorPipelineInv ==
    ASSUME PipelineInv, Collect \/ Complete
    PROVE  PipelineInv'
<1>1. TypeOK /\ WalkInv /\ PhaseInv /\ ReadInv /\ ResultInv /\ NothingLost
  BY DEF PipelineInv
<1>2. /\ UNCHANGED <<source, walkVars, feeder, resultsClosed, workers>>
      /\ main = "collect" /\ walk = "done"
  BY <1>1 DEF Collect, Complete, CollectorFrame, PhaseInv, TypeOK, WalkTypeOK
<1> USE <1>2 DEF source, tree, walkVars, feeder, workers
<1>3. WalkTypeOK' /\ WalkInv' /\ ReadInv'
  BY <1>1 DEF TypeOK, WalkTypeOK, WalkInv, AliasesStoredOnce, Source, ReadInv, Reading, Content
<1>4. CASE Complete
  <2>1. /\ UNCHANGED <<results, entries>> /\ results = <<>> /\ resultsClosed
        /\ main' = "stored"
    BY <1>4 DEF Complete
  <2>2. TypeOK'
    BY <1>1, <1>3, <2>1 DEF TypeOK, WorkCapacity, ResultsCapacity
  <2>3. PhaseInv' /\ ResultInv' /\ NothingLost'
    BY <1>1, <2>1 DEF PhaseInv, ResultInv, Whole, NothingLost, Sent, Accounted
  <2> QED
    BY <1>3, <2>2, <2>3 DEF PipelineInv
<1>5. CASE Collect
  <2> DEFINE r == Head(results)
  <2>1. results \in Seq(Result) /\ results # <<>> /\ results' = Tail(results)
    BY <1>1, <1>5 DEF Collect, TypeOK
  <2>2. /\ results' \in Seq(Result) /\ r \in Result /\ Len(results') = Len(results) - 1
        /\ Range(results) = Range(results') \union {r} /\ Len(results) \in Nat
    BY <2>1, RangeOfTail, InRange
  <2>3. r.file \in Names /\ r.entry \in Parts \union {Failed} /\ r.entry \in {Failed, Whole(r.file)}
    BY <1>1, <2>2 DEF ResultInv, Result
  <2>4. \/ r.entry = Failed /\ main' = "failed" /\ entries' = [n \in Names |-> Failed]
        \/ /\ r.entry # Failed /\ main' = "collect"
           /\ entries' = [entries EXCEPT ![r.file] = r.entry]
    BY <1>5 DEF Collect
  <2> HIDE DEF r
  <2>5. /\ entries' \in [Names -> Parts \union {Failed}]
        /\ main' \in {"walk", "collect", "failed", "stored"}
    BY <1>1, <2>3, <2>4 DEF TypeOK
  <2>6. TypeOK'
    <3>1. Len(results') <= ResultsCapacity
      BY <1>1, <2>2 DEF TypeOK, ResultsCapacity, WalkTypeOK
    <3> QED
      BY <1>1, <1>3, <2>2, <2>5, <3>1 DEF TypeOK, WorkCapacity, ResultsCapacity
  <2>7. PhaseInv'
    BY <1>1, <2>1, <2>4 DEF PhaseInv
  <2>8. ResultInv'
    <3>1. \A n \in Names : entries'[n] \in {Failed, Whole(n)}
      BY <1>1, <2>3, <2>4 DEF ResultInv, TypeOK
    <3> QED
      BY <1>1, <2>2, <3>1 DEF ResultInv, Whole
  <2>9. NothingLost'
    <3> SUFFICES ASSUME main' # "failed", NEW n \in Sent PROVE Accounted(n)'
      BY DEF NothingLost, Sent
    <3>1. /\ r.entry # Failed /\ entries' = [entries EXCEPT ![r.file] = r.entry]
          /\ entries \in [Names -> Parts \union {Failed}]
      BY <1>1, <2>4 DEF TypeOK
    <3>2. Accounted(n)
      BY <1>1 DEF NothingLost
    <3>3. entries'[r.file] # Failed /\ \A m : entries[m] # Failed /\ m \in Names => entries'[m] # Failed
      BY <2>3, <3>1
    <3>4. n \in Names
      <4>1. \A i \in DOMAIN jobs : jobs[i] \in Names
        BY <1>1, JobsAreNames
      <4>2. fed \in 0..Len(jobs) /\ Len(jobs) \in Nat /\ DOMAIN jobs = 1..Len(jobs)
        BY <1>1, JobsAreNames DEF TypeOK
      <4> QED
        BY <4>1, <4>2 DEF Sent
    <3> QED
      BY <2>2, <3>2, <3>3, <3>4 DEF Accounted
  <2> QED
    BY <1>3, <2>6, <2>7, <2>8, <2>9 DEF PipelineInv
<1> QED
  BY <1>4, <1>5

-----------------------------------------------------------------------------
(* The workers *)

(* A worker that does anything but wait has a name of a job. *)
LEMMA FileOfWorker ==
    ASSUME TypeOK, WalkInv, ReadInv, NEW w \in FileWorkers, wpc[w] \in Busy
    PROVE  /\ file[w] \in Range(jobs) /\ file[w] \in Names
           /\ Content(file[w]) \in Versions /\ walked[file[w]].version \in Versions
           /\ walked[file[w]].version <= Content(file[w])
<1>1. file[w] \in Range(jobs) /\ file[w] \in 1..visited /\ file[w] \in Names
  BY JobsAreNames DEF ReadInv, Reading
<1> QED
  BY <1>1 DEF TypeOK, WalkTypeOK, Content, WalkInv

(* A result that is delivered is one more for the main goroutine. *)
LEMMA DeliverPipelineInv ==
    ASSUME PipelineInv, NEW w \in FileWorkers, wpc[w] \in Busy,
           NEW e \in {Failed, Whole(file[w])}, Deliver(w, e)
    PROVE  PipelineInv'
<1>1. TypeOK /\ WalkInv /\ PhaseInv /\ ReadInv /\ ResultInv /\ NothingLost
  BY DEF PipelineInv
<1>2. UNCHANGED <<source, walkVars, fed, work, workClosed, resultsClosed, collector>>
  BY DEF Deliver, WorkerFrame
<1> USE <1>2 DEF source, tree, walkVars, collector
<1>3. WalkTypeOK' /\ WalkInv'
  BY <1>1 DEF TypeOK, WalkTypeOK, WalkInv, AliasesStoredOnce, Source
<1> DEFINE r == [file |-> file[w], entry |-> e]
<1>4. r \in Result /\ r.file = file[w] /\ r.entry = e
  <2>1. file[w] \in Names /\ walked[file[w]].version \in Versions
    BY <1>1, FileOfWorker
  <2> QED
    BY <2>1 DEF Result, Parts, Whole
<1>5. /\ Len(results) < ResultsCapacity /\ results' = Append(results, r)
      /\ file' = [file EXCEPT ![w] = NoName]
      /\ first' = [first EXCEPT ![w] = 0] /\ second' = [second EXCEPT ![w] = 0]
      /\ wpc' = [wpc EXCEPT ![w] = "receive"]
  BY DEF Deliver, Become
<1> HIDE DEF r
<1>6. /\ results' \in Seq(Result) /\ Len(results') = Len(results) + 1
      /\ Range(results') = Range(results) \union {r}
      /\ Len(results) \in Nat /\ Len(jobs) \in Nat
  BY <1>1, <1>4, <1>5, RangeOfAppend, InRange DEF TypeOK, WalkTypeOK
<1>7. TypeOK'
  <2>1. Len(results') <= ResultsCapacity' /\ 0 \in Versions
    BY <1>5, <1>6, Bounds DEF ResultsCapacity, Versions
  <2> QED
    BY <1>1, <1>3, <1>5, <1>6, <2>1 DEF TypeOK, WorkCapacity
<1>8. walk = "done" /\ ~resultsClosed
  BY <1>1 DEF PhaseInv, Busy
<1>9. PhaseInv'
  BY <1>1, <1>5, <1>8 DEF PhaseInv, TypeOK
<1>10. ReadInv'
  <2> SUFFICES ASSUME NEW u \in FileWorkers PROVE Reading(u)'
    BY DEF ReadInv
  <2>1. CASE u = w
    BY <1>1, <1>5, <2>1 DEF Reading, Busy, TypeOK
  <2>2. CASE u # w
    BY <1>1, <1>5, <2>2 DEF ReadInv, Reading, TypeOK, Content
  <2> QED
    BY <2>1, <2>2
<1>11. ResultInv'
  <2>1. r.file \in Range(jobs) /\ r.entry \in {Failed, Whole(r.file)}
    BY <1>1, <1>4, FileOfWorker
  <2> QED
    BY <1>1, <1>6, <2>1 DEF ResultInv, Whole
<1>12. NothingLost'
  <2> SUFFICES ASSUME main # "failed", NEW n \in Sent PROVE Accounted(n)'
    BY DEF NothingLost, Sent
  <2>1. Accounted(n)
    BY <1>1 DEF NothingLost
  <2>2. \A u \in FileWorkers \ {w} : wpc'[u] = wpc[u] /\ file'[u] = file[u]
    BY <1>1, <1>5 DEF TypeOK
  <2> QED
    BY <1>4, <1>6, <2>1, <2>2 DEF Accounted
<1> QED
  BY <1>3, <1>7, <1>9, <1>10, <1>11, <1>12 DEF PipelineInv

LEMMA WorkerPipelineInv ==
    ASSUME PipelineInv, NEW w \in FileWorkers, WorkerStep(w)
    PROVE  PipelineInv'
<1>1. TypeOK /\ WalkInv /\ PhaseInv /\ ReadInv /\ ResultInv /\ NothingLost
  BY DEF PipelineInv
<1>2. ASSUME UNCHANGED <<source, walkVars, fed, workClosed, results, resultsClosed, collector>>
      PROVE  WalkTypeOK' /\ WalkInv'
  BY <1>1, <1>2
     DEF source, tree, walkVars, TypeOK, WalkTypeOK, WalkInv, AliasesStoredOnce, Source
<1>3. \A u \in FileWorkers : wpc[u] \in {"receive", "open", "read", "stat", "done"}
  BY <1>1 DEF TypeOK
<1>4. CASE Receive(w)
  <2>1. /\ UNCHANGED <<source, walkVars, fed, workClosed, results, resultsClosed, collector>>
        /\ UNCHANGED <<first, second>> /\ wpc[w] = "receive"
    BY <1>4 DEF Receive, WorkerFrame
  <2>2. walk = "done" /\ ~resultsClosed
    BY <1>1, <2>1 DEF PhaseInv
  <2> USE <2>1 DEF source, tree, walkVars, collector
  <2>3. CASE work # <<>> /\ file' = [file EXCEPT ![w] = Head(work)]
             /\ work' = Tail(work) /\ wpc' = [wpc EXCEPT ![w] = "open"]
    <3>1. /\ work' \in Seq(Names) /\ Head(work) \in Names /\ Len(work') = Len(work) - 1
          /\ Range(work) = Range(work') \union {Head(work)}
          /\ Len(work) \in Nat
      BY <1>1, <2>3, RangeOfTail, InRange DEF TypeOK
    <3>2. TypeOK'
      <4>1. Len(work') <= WorkCapacity
        BY <1>1, <3>1, Bounds DEF TypeOK
      <4> QED
        BY <1>1, <1>2, <2>3, <3>1, <4>1 DEF TypeOK, WorkCapacity, ResultsCapacity
    <3>3. \A u \in FileWorkers \ {w} : wpc'[u] = wpc[u] /\ file'[u] = file[u]
      BY <1>1, <2>3 DEF TypeOK
    <3>4. wpc'[w] = "open" /\ file'[w] = Head(work)
      BY <1>1, <2>3 DEF TypeOK
    <3>5. PhaseInv'
      <4>1. \A u \in FileWorkers : wpc[u] # "done"
        BY <1>1, <2>2, <2>3 DEF PhaseInv
      <4>2. \A u \in FileWorkers : wpc'[u] # "done"
        BY <3>3, <3>4, <4>1
      <4> QED
        BY <1>1, <2>2, <4>2 DEF PhaseInv
    <3>6. ReadInv'
      <4> SUFFICES ASSUME NEW u \in FileWorkers PROVE Reading(u)'
        BY DEF ReadInv
      <4>1. CASE u = w
        BY <1>1, <3>1, <3>4, <4>1 DEF Reading, Busy, ResultInv
      <4>2. CASE u # w
        BY <1>1, <3>3, <4>2 DEF ReadInv, Reading, Content
      <4> QED
        BY <4>1, <4>2
    <3>7. ResultInv'
      BY <1>1, <3>1 DEF ResultInv, Whole
    <3>8. NothingLost'
      <4> SUFFICES ASSUME main # "failed", NEW n \in Sent PROVE Accounted(n)'
        BY DEF NothingLost, Sent
      <4>1. Accounted(n) /\ wpc[w] \notin Busy
        BY <1>1 DEF NothingLost, Busy
      <4>2. wpc'[w] \in Busy
        BY <3>4 DEF Busy
      <4> QED
        BY <3>1, <3>3, <3>4, <4>1, <4>2 DEF Accounted
    <3> QED
      BY <1>2, <3>2, <3>5, <3>6, <3>7, <3>8 DEF PipelineInv
  <2>4. CASE work = <<>> /\ workClosed /\ UNCHANGED <<work, file>>
             /\ wpc' = [wpc EXCEPT ![w] = "done"]
    <3>1. \A u \in FileWorkers \ {w} : wpc'[u] = wpc[u]
      BY <1>1, <2>4 DEF TypeOK
    <3>2. wpc'[w] = "done"
      BY <1>1, <2>4 DEF TypeOK
    <3>3. TypeOK'
      BY <1>1, <1>2, <2>4 DEF TypeOK, WorkCapacity, ResultsCapacity
    <3>4. PhaseInv'
      BY <1>1, <2>2, <2>4, <3>1, <3>2 DEF PhaseInv
    <3>5. ReadInv'
      <4> SUFFICES ASSUME NEW u \in FileWorkers PROVE Reading(u)'
        BY DEF ReadInv
      <4>1. CASE u = w
        BY <3>2, <4>1 DEF Reading, Busy
      <4>2. CASE u # w
        BY <1>1, <2>4, <3>1, <4>2 DEF ReadInv, Reading, Content
      <4> QED
        BY <4>1, <4>2
    <3>6. ResultInv'
      BY <1>1, <2>4 DEF ResultInv, Whole
    <3>7. NothingLost'
      <4> SUFFICES ASSUME main # "failed", NEW n \in Sent PROVE Accounted(n)'
        BY DEF NothingLost, Sent
      <4>1. Accounted(n) /\ wpc[w] \notin Busy
        BY <1>1 DEF NothingLost, Busy
      <4> QED
        BY <2>4, <3>1, <4>1 DEF Accounted
    <3> QED
      BY <1>2, <3>3, <3>4, <3>5, <3>6, <3>7 DEF PipelineInv
  <2> QED
    BY <1>4, <2>3, <2>4 DEF Receive, Become
<1>5. ASSUME wpc[w] \in Busy, NEW loc \in Busy, wpc' = [wpc EXCEPT ![w] = loc],
             UNCHANGED <<source, walkVars, feeder, results, resultsClosed, collector, file>>,
             first' \in [FileWorkers -> Versions], second' \in [FileWorkers -> Versions],
             \A u \in FileWorkers \ {w} : first'[u] = first[u] /\ second'[u] = second[u],
             Reading(w)'
      PROVE  PipelineInv'
  <2> USE <1>5 DEF source, tree, walkVars, feeder, collector
  <2>1. \A u \in FileWorkers \ {w} : wpc'[u] = wpc[u]
    BY <1>1 DEF TypeOK
  <2>2. wpc'[w] = loc /\ wpc'[w] # "done" /\ wpc[w] # "done"
    BY <1>1 DEF TypeOK, Busy
  <2>3. TypeOK'
    BY <1>1, <1>2 DEF TypeOK, WorkCapacity, ResultsCapacity, Busy
  <2>4. PhaseInv'
    BY <1>1, <2>1, <2>2 DEF PhaseInv
  <2>5. ReadInv'
    BY <1>1, <2>1 DEF ReadInv, Reading, Content
  <2>6. ResultInv'
    BY <1>1 DEF ResultInv, Whole
  <2>7. NothingLost'
    BY <1>1, <2>1, <2>2 DEF NothingLost, Sent, Accounted
  <2> QED
    BY <1>2, <2>3, <2>4, <2>5, <2>6, <2>7 DEF PipelineInv
<1>6. ASSUME wpc[w] \in Busy
      PROVE  /\ file[w] \in Range(jobs) /\ Content(file[w]) \in Versions
             /\ walked[file[w]].version <= Content(file[w]) /\ Versions \subseteq Nat
             /\ first[w] \in Versions /\ second[w] \in Versions
             /\ walked[file[w]].version \in Versions
  BY <1>1, <1>6, FileOfWorker DEF TypeOK, Versions
<1>7. CASE ReadFirst(w)
  <2>1. /\ wpc[w] = "open" /\ first' = [first EXCEPT ![w] = Content(file[w])]
        /\ wpc' = [wpc EXCEPT ![w] = "read"]
        /\ UNCHANGED <<source, walkVars, feeder, results, resultsClosed, collector, file, second>>
    BY <1>7 DEF ReadFirst, Become, WorkerFrame, feeder
  <2>2. wpc[w] \in Busy /\ "read" \in Busy
    BY <2>1 DEF Busy
  <2>3. /\ first' \in [FileWorkers -> Versions] /\ second' \in [FileWorkers -> Versions]
        /\ first'[w] = Content(file[w]) /\ wpc'[w] = "read"
        /\ \A u \in FileWorkers \ {w} : first'[u] = first[u] /\ second'[u] = second[u]
    BY <1>1, <1>6, <2>1, <2>2 DEF TypeOK
  <2>4. Reading(w)'
    BY <1>6, <2>1, <2>2, <2>3 DEF Reading, Content, source, tree, walkVars
  <2> QED
    BY <1>5, <2>1, <2>2, <2>3, <2>4
<1>8. CASE ReadRest(w)
  <2>1. /\ wpc[w] = "read" /\ second' = [second EXCEPT ![w] = Content(file[w])]
        /\ wpc' = [wpc EXCEPT ![w] = "stat"]
        /\ UNCHANGED <<source, walkVars, feeder, results, resultsClosed, collector, file, first>>
    BY <1>8 DEF ReadRest, Become, WorkerFrame, feeder
  <2>2. wpc[w] \in Busy /\ "stat" \in Busy
    BY <2>1 DEF Busy
  <2>3. /\ first' \in [FileWorkers -> Versions] /\ second' \in [FileWorkers -> Versions]
        /\ second'[w] = Content(file[w]) /\ wpc'[w] = "stat"
        /\ \A u \in FileWorkers \ {w} : first'[u] = first[u] /\ second'[u] = second[u]
    BY <1>1, <1>6, <2>1, <2>2 DEF TypeOK
  <2>4. walked[file[w]].version <= first[w] /\ first[w] <= Content(file[w])
    BY <1>1, <2>1 DEF ReadInv, Reading
  <2>5. Reading(w)'
    BY <1>6, <2>1, <2>2, <2>3, <2>4 DEF Reading, Content, source, tree, walkVars
  <2> QED
    BY <1>5, <2>1, <2>2, <2>3, <2>5
<1>9. CASE StatAfter(w)
  <2>1. wpc[w] = "stat" /\ wpc[w] \in Busy
    BY <1>9 DEF StatAfter, Busy
  <2>2. CASE Content(file[w]) = walked[file[w]].version
    <3>1. /\ walked[file[w]].version <= first[w] /\ first[w] <= second[w]
          /\ second[w] <= Content(file[w])
      BY <1>1, <2>1 DEF ReadInv, Reading
    <3>2. first[w] = walked[file[w]].version /\ second[w] = walked[file[w]].version
      BY <1>6, <2>1, <2>2, <3>1
    <3>3. PartsOf(w) = Whole(file[w])
      BY <3>2 DEF PartsOf, Whole
    <3> QED
      BY <1>9, <2>1, <2>2, <3>3, DeliverPipelineInv DEF StatAfter
  <2>3. CASE Content(file[w]) # walked[file[w]].version
    BY <1>9, <2>1, <2>3, DeliverPipelineInv DEF StatAfter
  <2> QED
    BY <2>2, <2>3
<1>10. CASE Fail(w)
  BY <1>10, DeliverPipelineInv DEF Fail, Busy
<1> QED
  BY <1>4, <1>7, <1>8, <1>9, <1>10 DEF WorkerStep

-----------------------------------------------------------------------------
(* The theorems *)

(* PipelineInv is an inductive invariant of BackupWithOptions up to the    *)
(* publication: of the walk, the feeder, the file workers and the main     *)
(* goroutine together, while files change.                                 *)
THEOREM PipelineInvariant == Spec => []PipelineInv
<1>1. PipelineInv /\ [Next]_vars => PipelineInv'
  <2> SUFFICES ASSUME PipelineInv, [Next]_vars PROVE PipelineInv'
    OBVIOUS
  <2>1. CASE World
    BY <2>1, WorldStep
  <2>2. CASE Walk
    BY <2>2, WalkPipelineInv
  <2>3. CASE Feeder
    BY <2>3, FeederPipelineInv
  <2>4. CASE Collect \/ Complete
    BY <2>4, CollectorPipelineInv
  <2>5. CASE \E w \in FileWorkers : WorkerStep(w)
    BY <2>5, WorkerPipelineInv
  <2>6. CASE UNCHANGED vars
    <3> USE <2>6 DEF vars, source, tree, walkVars, feeder, workers, collector
    <3>1. WalkTypeOK' /\ WalkInv'
      BY DEF PipelineInv, TypeOK, WalkTypeOK, WalkInv, AliasesStoredOnce, Source
    <3>2. TypeOK'
      BY <3>1 DEF PipelineInv, TypeOK, WorkCapacity, ResultsCapacity
    <3>3. PhaseInv' /\ ReadInv'
      BY DEF PipelineInv, PhaseInv, ReadInv, Reading, Content
    <3>4. ResultInv' /\ NothingLost'
      BY DEF PipelineInv, ResultInv, Whole, NothingLost, Sent, Accounted
    <3> QED
      BY <3>1, <3>2, <3>3, <3>4 DEF PipelineInv
  <2>7. Ended => UNCHANGED vars
    BY DEF Ended
  <2> QED
    BY <2>1, <2>2, <2>3, <2>4, <2>5, <2>6, <2>7 DEF Next
<1> QED
  BY <1>1, InitPipelineInv, PTL DEF Spec

(* When the main goroutine has seen the results channel closed and empty,  *)
(* every job of the walk has an entry, and the entry is the file as the    *)
(* walk saw it: BackupWithOptions never publishes a file that is missing,  *)
(* or that was read in two versions.                                       *)
THEOREM FilesAreStoredWhole == Spec => []StoredWhole
<1>1. PipelineInv => StoredWhole
  <2> SUFFICES ASSUME PipelineInv, main = "stored", NEW n \in Names, kind[n] = "file"
               PROVE  /\ inode[Source(n)] = inode[n]
                      /\ entries[Source(n)] =
                           [first |-> walked[n].version, second |-> walked[n].version]
    BY DEF StoredWhole, Source
  <2>1. TypeOK /\ WalkInv /\ PhaseInv /\ ResultInv /\ NothingLost
    BY DEF PipelineInv
  <2>2. /\ results = <<>> /\ workClosed /\ walk = "done" /\ fed = Len(jobs)
        /\ visited = NameCount /\ \A w \in FileWorkers : wpc[w] = "done"
    BY <2>1 DEF PhaseInv, WalkInv
  <2>3. work = <<>>
    BY <2>1, <2>2, FilePipelineAssumption DEF PhaseInv
  <2>4. /\ Source(n) \in Range(jobs) /\ inode[Source(n)] = inode[n]
        /\ walked[Source(n)].version = walked[n].version
    BY <2>1, <2>2 DEF WalkInv, Names
  <2>5. Source(n) \in Sent /\ Source(n) \in Names
    <3>1. DOMAIN jobs = 1..fed
      BY <2>1, <2>2, JobsAreNames
    <3>2. PICK i \in DOMAIN jobs : Source(n) = jobs[i]
      BY <2>1, <2>4, JobsAreNames
    <3>3. Source(n) \in Names
      BY <2>1, <2>4, JobsAreNames
    <3> QED
      BY <3>1, <3>2, <3>3 DEF Sent
  <2>6. entries[Source(n)] # Failed
    <3>1. Accounted(Source(n))
      BY <2>1, <2>5 DEF NothingLost
    <3> QED
      BY <2>2, <2>3, <3>1, RangeOfEmpty DEF Accounted, Busy
  <2>7. entries[Source(n)] = Whole(Source(n))
    BY <2>1, <2>5, <2>6 DEF ResultInv
  <2> QED
    BY <2>4, <2>7 DEF Whole
<1> QED
  BY <1>1, PipelineInvariant, PTL

(* The map of hard links makes one job of the names of a file that nothing *)
(* touched between their visits.                                           *)
THEOREM WalkStoresAliasesOnce == Spec => []AliasesStoredOnce
<1>1. PipelineInv => AliasesStoredOnce
  BY DEF PipelineInv, WalkInv
<1> QED
  BY <1>1, PipelineInvariant, PTL

-----------------------------------------------------------------------------
(* Why every goroutine ends: no worker waits with a result, and some       *)
(* goroutine can always run                                                *)

Working == {w \in FileWorkers : wpc[w] \in Busy}
working == Cardinality(Working)

(* Each job that was sent is in one place at most. *)
RoomInv == Len(results) + working + Len(work) <= fed

(* Every goroutine has ended. *)
AllEnded ==
    /\ main \in {"failed", "stored"} /\ (resultsClosed \/ walk = "failed")
    /\ \A w \in FileWorkers : wpc[w] = "done"

(* The guards of the steps *)
SomeoneCanRun ==
    \/ walk = "going" /\ main = "walk"
    \/ walk = "done" /\ fed < Len(jobs) /\ Len(work) < WorkCapacity
    \/ walk = "done" /\ fed = Len(jobs) /\ ~workClosed
    \/ workClosed /\ ~resultsClosed /\ \A w \in FileWorkers : wpc[w] = "done"
    \/ \E w \in FileWorkers :
          \/ wpc[w] = "receive" /\ (work # <<>> \/ workClosed)
          \/ wpc[w] \in {"open", "read"}
          \/ wpc[w] = "stat" /\ ~resultsClosed /\ Len(results) < ResultsCapacity
    \/ main = "collect" /\ (results # <<>> \/ resultsClosed)

NeverStuck == AllEnded \/ SomeoneCanRun

LEMMA RoomTypes ==
    ASSUME PipelineInv
    PROVE  /\ IsFiniteSet(Working) /\ working \in Nat
           /\ Len(results) \in Nat /\ Len(work) \in Nat /\ Len(jobs) \in Nat /\ fed \in 0..Len(jobs)
           /\ results \in Seq(Result) /\ work \in Seq(Names) /\ jobs \in Seq(Names)
           /\ wpc \in [FileWorkers -> {"receive", "open", "read", "stat", "done"}]
<1>1. Working \subseteq FileWorkers
  BY DEF Working
<1>2. TypeOK /\ WalkTypeOK
  BY DEF PipelineInv, TypeOK
<1>3. IsFiniteSet(Working) /\ working \in Nat
  BY <1>1, FilePipelineAssumption, FS_Subset, FS_CardinalityType DEF working
<1>4. /\ results \in Seq(Result) /\ work \in Seq(Names) /\ jobs \in Seq(Names)
      /\ fed \in 0..Len(jobs)
      /\ wpc \in [FileWorkers -> {"receive", "open", "read", "stat", "done"}]
  BY <1>2 DEF TypeOK, WalkTypeOK
<1> QED
  BY <1>3, <1>4, LenProperties

LEMMA RoomStep ==
    ASSUME PipelineInv, PipelineInv', RoomInv, [Next]_vars
    PROVE  RoomInv'
<1>1. /\ IsFiniteSet(Working) /\ working \in Nat
      /\ Len(results) \in Nat /\ Len(work) \in Nat /\ Len(jobs) \in Nat /\ fed \in Nat
      /\ results \in Seq(Result) /\ work \in Seq(Names)
      /\ wpc \in [FileWorkers -> {"receive", "open", "read", "stat", "done"}]
      /\ Len(results) + working + Len(work) <= fed
  BY RoomTypes DEF RoomInv
<1>2. results' \in Seq(Result) /\ work' \in Seq(Names)
  BY DEF PipelineInv, TypeOK
<1>3. wpc' = wpc => working' = working
  BY DEF working, Working
<1>4. ASSUME UNCHANGED <<results, wpc, work, fed>> PROVE RoomInv'
  BY <1>1, <1>3, <1>4 DEF RoomInv
<1>5. CASE World
  BY <1>4, <1>5 DEF World, feeder, workers
<1>6. CASE Walk
  <2>1. CASE wpc' = wpc
    BY <1>4, <1>6, <2>1 DEF Walk, feeder
  <2>2. CASE wpc' # wpc
    <3>1. /\ wpc' = [w \in FileWorkers |-> "receive"]
          /\ UNCHANGED <<fed, work, results>>
      <4>1. walk' \in {"going", "done", "failed"}
        BY DEF PipelineInv, TypeOK, WalkTypeOK
      <4> QED
        BY <1>6, <2>2, <4>1 DEF Walk, feeder
    <3>2. Working' = {}
      BY <3>1 DEF Working, Busy
    <3>3. working' = 0
      BY <3>2, FS_EmptySet DEF working
    <3> QED
      BY <1>1, <3>1, <3>3 DEF RoomInv
  <2> QED
    BY <2>1, <2>2
<1>7. CASE Feed
  <2>1. /\ fed' = fed + 1 /\ work' = Append(work, jobs[fed'])
        /\ UNCHANGED <<results, wpc>>
    BY <1>7 DEF Feed, FeederFrame, workers
  <2>2. Len(work') = Len(work) + 1
    BY <1>1, <1>2, <2>1
  <2> QED
    BY <1>1, <1>3, <2>1, <2>2 DEF RoomInv
<1>8. CASE CloseWork \/ CloseFileResults
  BY <1>4, <1>8 DEF CloseWork, CloseFileResults, feeder, FeederFrame, workers
<1>9. CASE Collect
  <2>1. results # <<>> /\ results' = Tail(results) /\ UNCHANGED <<wpc, work, fed>>
    BY <1>9 DEF Collect, CollectorFrame, feeder, workers
  <2>2. Len(results') = Len(results) - 1
    BY <1>1, <2>1, RangeOfTail
  <2> QED
    BY <1>1, <1>3, <2>1, <2>2 DEF RoomInv
<1>10. CASE Complete
  BY <1>4, <1>10 DEF Complete, CollectorFrame, feeder, workers
<1>11. ASSUME NEW w \in FileWorkers, Receive(w) PROVE RoomInv'
  <2>1. UNCHANGED <<results, fed>> /\ wpc[w] = "receive" /\ w \notin Working
    BY <1>11 DEF Receive, WorkerFrame, Working, Busy
  <2>2. CASE work # <<>>
    <3>1. work' = Tail(work) /\ wpc' = [wpc EXCEPT ![w] = "open"]
      BY <1>11, <2>2 DEF Receive, Become
    <3>2. Len(work') = Len(work) - 1
      BY <1>1, <2>2, <3>1, RangeOfTail
    <3>3. Working' = Working \union {w}
      BY <1>1, <3>1 DEF Working, Busy
    <3>4. working' = working + 1
      BY <1>1, <2>1, <3>3, FS_AddElement DEF working
    <3> QED
      BY <1>1, <2>1, <3>2, <3>4 DEF RoomInv
  <2>3. CASE work = <<>>
    <3>1. work' = work /\ wpc' = [wpc EXCEPT ![w] = "done"]
      BY <1>11, <2>3 DEF Receive, Become
    <3>2. Working' = Working
      BY <1>1, <2>1, <3>1 DEF Working, Busy
    <3> QED
      BY <1>1, <2>1, <3>1, <3>2 DEF RoomInv, working
  <2> QED
    BY <2>2, <2>3
<1>12. ASSUME NEW w \in FileWorkers, ReadFirst(w) \/ ReadRest(w) PROVE RoomInv'
  <2>1. /\ UNCHANGED <<results, work, fed>> /\ wpc[w] \in {"open", "read"}
        /\ \E loc \in {"read", "stat"} : wpc' = [wpc EXCEPT ![w] = loc]
    BY <1>12 DEF ReadFirst, ReadRest, WorkerFrame, Become
  <2>2. Working' = Working
    BY <1>1, <2>1 DEF Working, Busy
  <2> QED
    BY <1>1, <2>1, <2>2 DEF RoomInv, working
<1>13. ASSUME NEW w \in FileWorkers, StatAfter(w) \/ Fail(w) PROVE RoomInv'
  <2>1. w \in Working /\ \E e : Deliver(w, e)
    BY <1>13 DEF StatAfter, Fail, Working, Busy
  <2>2. PICK e : Deliver(w, e)
    BY <2>1
  <2>3. /\ UNCHANGED <<work, fed>> /\ wpc' = [wpc EXCEPT ![w] = "receive"]
        /\ results' = Append(results, [file |-> file[w], entry |-> e])
    BY <2>2 DEF Deliver, WorkerFrame, Become
  <2>4. Len(results') = Len(results) + 1
    BY <1>1, <1>2, <2>3
  <2>5. Working' = Working \ {w}
    BY <1>1, <2>3 DEF Working, Busy
  <2>6. working' = working - 1
    BY <1>1, <2>1, <2>5, FS_RemoveElement DEF working
  <2> QED
    BY <1>1, <2>3, <2>4, <2>6 DEF RoomInv
<1>14. CASE Ended \/ vars' = vars
  BY <1>4, <1>14 DEF Ended, vars, feeder, workers
<1> QED
  BY <1>5, <1>6, <1>7, <1>8, <1>9, <1>10, <1>11, <1>12, <1>13, <1>14 DEF Next, Feeder, WorkerStep

(* The results channel, made with a slot for each job and closed when the  *)
(* last worker has ended, takes the result of every worker that has a      *)
(* file, whatever the order, so that the workers end when                  *)
(* BackupWithOptions has returned at the first error and nobody receives   *)
(* any more.                                                               *)
THEOREM WorkersNeverWait == Spec => []WorkersCanDeliver
<1>1. Init => RoomInv
  <2> SUFFICES ASSUME Init PROVE RoomInv
    OBVIOUS
  <2>1. Working = {} /\ results = <<>> /\ work = <<>> /\ fed = 0
    BY DEF Init, Working, Busy
  <2>2. working = 0 /\ Len(results) = 0 /\ Len(work) = 0
    BY <2>1, FS_EmptySet, EmptySeq DEF working
  <2> QED
    BY <2>1, <2>2 DEF RoomInv
<1>2. PipelineInv /\ RoomInv => WorkersCanDeliver
  <2> SUFFICES ASSUME PipelineInv, RoomInv, NEW w \in FileWorkers, wpc[w] \in Busy
               PROVE  ~resultsClosed /\ Len(results) < ResultsCapacity
    BY DEF WorkersCanDeliver
  <2>0. ~resultsClosed
    BY DEF PipelineInv, PhaseInv, Busy
  <2>1. /\ IsFiniteSet(Working) /\ working \in Nat /\ Len(results) \in Nat /\ Len(work) \in Nat
        /\ Len(jobs) \in Nat /\ fed \in 0..Len(jobs)
    BY RoomTypes
  <2>2. working # 0
    <3>1. w \in Working
      BY DEF Working
    <3> QED
      BY <2>1, <3>1, FS_EmptySet DEF working
  <2>3. Len(results) + working + Len(work) <= fed
    BY DEF RoomInv
  <2> QED
    BY <2>0, <2>1, <2>2, <2>3 DEF ResultsCapacity
<1>3. PipelineInv /\ PipelineInv' /\ RoomInv /\ [Next]_vars => RoomInv'
  BY RoomStep
<1> QED
  BY <1>1, <1>2, <1>3, PipelineInvariant, PTL DEF Spec

(* Until every goroutine of a backup has ended, one of them can take its   *)
(* next step, after the early return of BackupWithOptions too.             *)
THEOREM SomeGoroutineRuns == Spec => []NeverStuck
<1>1. PipelineInv /\ WorkersCanDeliver => NeverStuck
  <2> SUFFICES ASSUME PipelineInv, WorkersCanDeliver, ~SomeoneCanRun PROVE AllEnded
    BY DEF NeverStuck
  <2>1. /\ PhaseInv /\ walk \in {"going", "done", "failed"}
        /\ main \in {"walk", "collect", "failed", "stored"}
        /\ wpc \in [FileWorkers -> {"receive", "open", "read", "stat", "done"}]
    BY DEF PipelineInv, TypeOK, WalkTypeOK
  <2>2. walk # "going" /\ main # "walk"
    BY <2>1 DEF PhaseInv, SomeoneCanRun
  <2>3. CASE walk = "failed"
    BY <2>1, <2>3 DEF PhaseInv, AllEnded
  <2>4. CASE walk = "done"
    <3>1. \A w \in FileWorkers : wpc[w] \in {"receive", "done"}
      BY <2>1 DEF SomeoneCanRun, WorkersCanDeliver, Busy
    <3>2. \A w \in FileWorkers : wpc[w] = "done"
      <4> SUFFICES ASSUME NEW w \in FileWorkers, wpc[w] = "receive" PROVE FALSE
        BY <3>1
      <4>1. work = <<>> /\ ~workClosed
        BY DEF SomeoneCanRun
      <4>2. Len(work) < WorkCapacity
        <5>1. Cardinality(FileWorkers) \in Nat /\ Cardinality(FileWorkers) # 0
          BY FilePipelineAssumption, FS_CardinalityType, FS_EmptySet
        <5>2. Len(work) = 0
          BY <4>1, EmptySeq
        <5> QED
          BY <5>1, <5>2 DEF WorkCapacity
      <4>3. fed < Len(jobs) \/ fed = Len(jobs)
        BY RoomTypes
      <4> QED
        BY <2>4, <4>1, <4>2, <4>3 DEF SomeoneCanRun
    <3>3. workClosed
      BY <2>1, <2>4, <3>2, FilePipelineAssumption DEF PhaseInv
    <3>4. resultsClosed
      BY <3>2, <3>3 DEF SomeoneCanRun
    <3>5. main # "collect"
      BY <3>4 DEF SomeoneCanRun
    <3> QED
      BY <2>1, <2>2, <3>2, <3>4, <3>5 DEF AllEnded
  <2> QED
    BY <2>1, <2>2, <2>3, <2>4
<1> QED
  BY <1>1, PipelineInvariant, WorkersNeverWait, PTL
=============================================================================
