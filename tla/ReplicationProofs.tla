------------------------- MODULE ReplicationProofs -------------------------
(***************************************************************************)
(* Proofs about replication: for any number of chunks and snapshots, and   *)
(* whatever writers, faults and crashes do in either repository, the       *)
(* target keeps the promises of a SnapshotCatalog, and a run that reports  *)
(* success has copied every snapshot that stayed in the source.            *)
(***************************************************************************)
EXTENDS Replication, TLAPS

LEMMA ManifestsAreIdentified ==
    ASSUME NEW m \in Manifests
    PROVE  m.id \in Ids /\ m.refs \subseteq Chunks
BY DEF Manifests

LEMMA CurrentIsQueued ==
    ASSUME Oldest # {} PROVE Current \in queue
BY DEF Current, Oldest

LEMMA InitReplicationInv == Init => ReplicationInv
<1> SUFFICES ASSUME Init PROVE ReplicationInv
  OBVIOUS
<1>1. StoreTypeOK /\ Target!StoreTypeOK
  BY DEF Init, StoreInit, StoreTypeOK, Target!StoreInit, Target!StoreTypeOK
<1> QED
  BY <1>1, ReplicationAssumption
     DEF Init, StoreInit, ReplicationInv, TypeOK, Idle

(* Writers keep the ids of the source's manifests apart. *)
LEMMA StoreSteps ==
    ASSUME StoreTypeOK, StoreStep, \A m, n \in published : m.id = n.id => m = n
    PROVE  StoreTypeOK' /\ (\A m, n \in published : m.id = n.id => m = n)'
<1> USE DEF StoreTypeOK, IdsOf
<1>1. CASE Write
  BY <1>1 DEF Write, Catalog!Publish, Catalog!Store, Catalog!Delete, Catalog!Reclaim
<1>2. CASE Spoil
  BY <1>2 DEF Spoil
<1>3. CASE Lose
  BY <1>3 DEF Lose
<1> QED
  BY <1>1, <1>2, <1>3 DEF StoreStep

(* What others do to the target is a step of its catalogue or none, and    *)
(* while a run has the lock it only adds chunks.                           *)
LEMMA TargetSteps ==
    ASSUME Target!StoreTypeOK, TargetChanges
    PROVE  /\ Target!StoreTypeOK'
           /\ Target!Catalog!Next \/ UNCHANGED <<copies, stored>>
           /\ lock # "free" => copies' = copies /\ stored \subseteq stored'
<1> USE DEF Target!StoreTypeOK, Target!Catalog!Publish, Target!Catalog!Store,
            Target!Catalog!Delete, Target!Catalog!Reclaim, Target!Catalog!Next
<1>1. CASE lock = "free" /\ Target!Write
  BY <1>1 DEF Target!Write
<1>2. ASSUME NEW c \in Chunks \ stored, Target!Catalog!Store(c), UNCHANGED bad
      PROVE  /\ Target!StoreTypeOK'
             /\ Target!Catalog!Next
             /\ copies' = copies /\ stored \subseteq stored'
  BY <1>2
<1>3. CASE Target!Spoil
  BY <1>3 DEF Target!Spoil
<1> QED
  BY <1>1, <1>2, <1>3 DEF TargetChanges

(* What a run writes to the target: a chunk, or a manifest whose chunks    *)
(* are all there and whose id is not.                                      *)
LEMMA RunWrites ==
    ASSUME ReplicationInv, pc = "copy",
           \/ \E c \in Current.refs : stored' = stored \union {c} /\ copies' = copies
           \/ Current.refs \subseteq put /\ copies' = copies \union {Current} /\ stored' = stored,
           bad' = bad
    PROVE  Target!StoreTypeOK' /\ Target!Catalog!Next
<1> USE DEF ReplicationInv, TypeOK, Target!StoreTypeOK
<1>1. Current \in Manifests /\ Current.refs \subseteq Chunks
  BY ManifestsAreIdentified
<1>2. ASSUME NEW c \in Current.refs, stored' = stored \union {c}, copies' = copies
      PROVE  Target!StoreTypeOK' /\ Target!Catalog!Next
  BY <1>1, <1>2 DEF Target!Catalog!Next, Target!Catalog!Store
<1>3. ASSUME Current.refs \subseteq put, copies' = copies \union {Current}, stored' = stored
      PROVE  Target!StoreTypeOK' /\ Target!Catalog!Next
  <2>1. Target!Catalog!Publish(Current)
    BY <1>3 DEF Target!Catalog!Publish, InTarget, Idle
  <2>2. Target!StoreTypeOK'
    BY <1>1, <1>3 DEF Target!IdsOf, Target!Manifests, Manifests
  <2> QED
    BY <1>1, <2>1, <2>2 DEF Target!Catalog!Next, Target!Manifests, Manifests
<1> QED
  BY <1>2, <1>3

LEMMA OthersReplicationInv ==
    ASSUME ReplicationInv, SourceChanges \/ TargetChanges \/ Recover
    PROVE  ReplicationInv'
<1> USE DEF ReplicationInv, TypeOK
<1>1. disturbances' \in 0..MaxDisturbances
  BY ReplicationAssumption DEF SourceChanges, TargetChanges, Recover, Disturb
<1>2. CASE SourceChanges
  <2>1. UNCHANGED <<copies, stored, bad, lock, pc, toRead, queue, put, badBefore>>
    BY <1>2 DEF SourceChanges, target, run
  <2>2. StoreTypeOK' /\ (\A m, n \in published : m.id = n.id => m = n)'
    BY <1>2, StoreSteps DEF SourceChanges
  <2>3. Target!StoreTypeOK' /\ Current' = Current /\ InTarget' = InTarget
    BY <2>1 DEF Target!StoreTypeOK, Target!IdsOf, Current, Oldest, InTarget
  <2>4. steady' = steady \intersect published'
    BY <1>2 DEF SourceChanges, Steady
  <2> QED
    BY <1>1, <2>1, <2>2, <2>3, <2>4
<1>3. CASE TargetChanges
  <2>1. UNCHANGED <<published, available, damaged, lock, pc, toRead, queue, put, steady, badBefore>>
    BY <1>3 DEF TargetChanges, store, run
  <2>2. /\ Target!StoreTypeOK'
        /\ lock # "free" => copies' = copies /\ stored \subseteq stored'
    BY <1>3, TargetSteps
  <2>3. StoreTypeOK'
    BY <2>1 DEF StoreTypeOK, IdsOf
  <2>4. pc \notin Idle => copies' = copies /\ stored \subseteq stored' /\ InTarget' = InTarget
    BY <2>1, <2>2 DEF InTarget, Current, Oldest
  <2>5. Current' = Current
    BY <2>1 DEF Current, Oldest
  <2> QED
    BY <1>1, <2>1, <2>2, <2>3, <2>4, <2>5 DEF Idle
<1>4. CASE Recover
  <2>1. UNCHANGED <<store, target, run, steady, badBefore>> /\ lock' = "free" /\ pc \in Idle
    BY <1>4 DEF Recover
  <2>2. StoreTypeOK' /\ Target!StoreTypeOK'
    BY <2>1 DEF store, target, StoreTypeOK, IdsOf, Target!StoreTypeOK, Target!IdsOf
  <2> QED
    BY <1>1, <2>1, <2>2 DEF store, target, run, Idle
<1> QED
  BY <1>2, <1>3, <1>4

LEMMA RunReplicationInv ==
    ASSUME ReplicationInv, Lock \/ Step \/ Interrupted
    PROVE  ReplicationInv'
<1> USE DEF ReplicationInv, TypeOK, store, target
<1>1. StoreTypeOK' /\ (\A m, n \in published : m.id = n.id => m = n)'
  BY DEF Lock, Step, ListSource, ReadManifest, SourceRead, Skip, Begin, CopyChunk, Publish,
         Done, Stop, End, Interrupted, Frame, StoreTypeOK, IdsOf
<1>2. disturbances' \in 0..MaxDisturbances
  BY ReplicationAssumption
     DEF Lock, Step, ListSource, ReadManifest, SourceRead, Skip, Begin, CopyChunk, Publish,
         Done, Stop, End, Interrupted, Frame, Disturb
<1>3. UNCHANGED target => Target!StoreTypeOK'
  BY DEF Target!StoreTypeOK, Target!IdsOf
<1>4. CASE Lock
  <2>1. bad \subseteq Ids \union Chunks
    BY DEF Target!StoreTypeOK, Target!IdsOf, Target!Manifests
  <2>2. /\ pc' = "list" /\ lock' = "run" /\ badBefore' = bad
        /\ toRead' = {} /\ queue' = {} /\ put' = {} /\ steady' = {}
    BY <1>4 DEF Lock
  <2> QED
    BY <1>1, <1>2, <1>3, <1>4, <2>1, <2>2 DEF Lock, Idle
<1>5. CASE ListSource
  BY <1>1, <1>2, <1>3, <1>5 DEF ListSource, Idle, IdsOf, StoreTypeOK, Manifests
<1>6. CASE ReadManifest
  <2>1. PICK m \in Readable : m.id = Min(toRead) /\ queue' = queue \union {m} /\ toRead' = toRead \ {m.id}
    BY <1>6 DEF ReadManifest
  <2>2. m \in published /\ m \in Manifests
    BY <2>1 DEF Readable, StoreTypeOK
  <2> QED
    BY <1>1, <1>2, <1>3, <1>6, <2>1, <2>2 DEF ReadManifest, Frame, Idle
<1>7. CASE SourceRead
  BY <1>1, <1>2, <1>3, <1>7 DEF SourceRead, Frame, Idle
<1>8. CASE Skip
  <2>1. Current \in copies
    BY <1>8 DEF Skip, Target!Readable
  <2> QED
    BY <1>1, <1>2, <1>3, <1>8, <2>1 DEF Skip, Frame, Idle
<1>9. CASE Begin
  <2>1. Current' = Current /\ InTarget' = InTarget
    BY <1>9 DEF Begin, Frame, Current, Oldest, InTarget
  <2> QED
    BY <1>1, <1>2, <1>3, <1>9, <2>1, CurrentIsQueued DEF Begin, Frame, Idle
<1>10. ASSUME NEW c \in Chunks, CopyChunk(c) PROVE ReplicationInv'
  <2>1. Target!StoreTypeOK'
    BY <1>10, RunWrites DEF CopyChunk
  <2>2. Current' = Current /\ InTarget' = InTarget
    BY <1>10 DEF CopyChunk, Current, Oldest, InTarget
  <2> QED
    BY <1>1, <1>2, <1>10, <2>1, <2>2 DEF CopyChunk, Idle
<1>11. CASE Publish
  <2>1. Target!StoreTypeOK'
    BY <1>11, RunWrites DEF Publish
  <2> QED
    BY <1>1, <1>2, <1>11, <2>1 DEF Publish, Idle
<1>12. CASE Done \/ Stop
  BY <1>1, <1>2, <1>3, <1>12 DEF Done, Stop, End, Idle
<1>13. CASE Interrupted
  <2>1. Target!StoreTypeOK'
    BY <1>3, <1>13, RunWrites DEF Interrupted
  <2> QED
    BY <1>1, <1>2, <1>13, <2>1 DEF Interrupted, Idle
<1> QED
  BY <1>4, <1>5, <1>6, <1>7, <1>8, <1>9, <1>10, <1>11, <1>12, <1>13 DEF Step

LEMMA NextReplicationInv == ReplicationInv /\ [Next]_vars => ReplicationInv'
<1> SUFFICES ASSUME ReplicationInv, [Next]_vars PROVE ReplicationInv'
  OBVIOUS
<1>1. CASE UNCHANGED vars
  BY <1>1 DEF vars, store, target, run, ReplicationInv, TypeOK, StoreTypeOK, IdsOf,
     Target!StoreTypeOK, Target!IdsOf, Current, Oldest, InTarget
<1> QED
  BY <1>1, OthersReplicationInv, RunReplicationInv DEF Next

(* The inductive invariant: a run has the lock, what it has read covers    *)
(* the snapshots that stay, and the chunks it has put are in the target.   *)
THEOREM ReplicationInvariant == Spec => []ReplicationInv
<1> QED
  BY InitReplicationInv, NextReplicationInv, PTL DEF Spec

(* "A failed copy never exposes an incomplete snapshot": every step of the *)
(* replication, and of whatever runs beside it, is one that the catalogue  *)
(* of the target allows.                                                   *)
THEOREM ReplicationKeepsPromises == Spec => TargetKeepsPromises
<1>1. ASSUME ReplicationInv, [Next]_vars
      PROVE  [Target!Catalog!Next]_<<copies, stored>>
  <2>1. CASE TargetChanges
    BY <1>1, <2>1, TargetSteps DEF ReplicationInv, TypeOK
  <2>2. ASSUME NEW c \in Chunks, CopyChunk(c) PROVE Target!Catalog!Next
    BY <1>1, <2>2, RunWrites DEF CopyChunk
  <2>3. CASE Publish
    BY <1>1, <2>3, RunWrites DEF Publish
  <2>4. CASE Interrupted
    BY <1>1, <2>4, RunWrites DEF Interrupted
  <2>5. CASE SourceChanges \/ Recover \/ Lock \/ UNCHANGED vars
    BY <2>5 DEF SourceChanges, Recover, Lock, vars, target
  <2>6. CASE ListSource \/ ReadManifest \/ SourceRead \/ Skip \/ Begin \/ Done \/ Stop
    BY <2>6 DEF ListSource, ReadManifest, SourceRead, Skip, Begin, Done, Stop, Frame, target
  <2> QED
    BY <1>1, <2>1, <2>2, <2>3, <2>4, <2>5, <2>6 DEF Next, Step
<1> QED
  BY <1>1, ReplicationInvariant, PTL DEF Spec, TargetKeepsPromises

(* A run that reports success leaves in the target every snapshot that was *)
(* in the source since it listed them.                                     *)
THEOREM ReplicationSucceeds == Spec => SuccessMeansReplicated
<1>1. ASSUME ReplicationInv, [Next]_vars, pc' = "done", pc # "done"
      PROVE  steady \subseteq copies'
  <2>1. Done
    BY <1>1 DEF Next, Step, SourceChanges, TargetChanges, Recover, Lock, ListSource, ReadManifest,
       SourceRead, Skip, Begin, CopyChunk, Publish, Stop, End, Interrupted, Frame, run, vars
  <2> QED
    BY <1>1, <2>1 DEF Done, target, ReplicationInv
<1>2. ReplicationInv /\ [Next]_vars => [pc' = "done" /\ pc # "done" => steady \subseteq copies']_vars
  BY <1>1
<1> QED
  BY <1>2, ReplicationInvariant, PTL DEF Spec, SuccessMeansReplicated

(* A chunk that is put in the target is copied or was found intact there.  *)
LEMMA NextPutIntact ==
    ASSUME ReplicationInv, PutIntact, [Next]_vars
    PROVE  PutIntact'
<1> USE DEF PutIntact, Idle
<1>1. CASE TargetChanges
  <2>1. pc \notin Idle => bad \subseteq bad'
    BY <1>1 DEF TargetChanges, Target!Spoil, ReplicationInv
  <2> QED
    BY <1>1, <2>1 DEF TargetChanges, run
<1>2. CASE SourceChanges \/ Recover \/ Lock \/ UNCHANGED vars
  BY <1>2 DEF SourceChanges, Recover, Lock, target, run, vars
<1>3. ASSUME NEW c \in Chunks, CopyChunk(c) PROVE PutIntact'
  <2>1. bad \subseteq stored \union Ids /\ c \notin Ids
    BY StoredAssumption DEF ReplicationInv, TypeOK, Target!StoreTypeOK, Target!IdsOf, Target!Manifests
  <2>2. c \notin badBefore
    BY <1>3, <2>1 DEF CopyChunk, Reusable
  <2> QED
    BY <1>3, <2>2 DEF CopyChunk
<1>4. CASE ListSource \/ ReadManifest \/ SourceRead \/ Skip \/ Begin \/ Publish
  BY <1>4 DEF ListSource, ReadManifest, SourceRead, Skip, Begin, Publish, Frame, target
<1>5. CASE Done \/ Stop \/ Interrupted
  BY <1>5 DEF Done, Stop, End, Interrupted
<1> QED
  BY <1>1, <1>2, <1>3, <1>4, <1>5 DEF Next, Step

(* What a run publishes refers to no chunk that was bad in the target when *)
(* the run began.                                                          *)
THEOREM ReplicationVerifies == Spec => CopiesVerified
<1>1. ASSUME ReplicationInv, PutIntact, [Next]_vars,
             NEW m \in copies' \ copies, lock = "run"
      PROVE  m.refs \intersect badBefore = {}
  <2>1. ~TargetChanges
    <3>1. TargetChanges => copies' = copies
      BY <1>1, TargetSteps DEF ReplicationInv, TypeOK
    <3> QED
      BY <1>1, <3>1
  <2>2. Publish \/ Interrupted
    BY <1>1, <2>1 DEF Next, Step, SourceChanges, Recover, Lock, ListSource, ReadManifest, SourceRead,
       Skip, Begin, CopyChunk, Done, Stop, Frame, target, vars
  <2>3. m = Current /\ Current.refs \subseteq put /\ pc = "copy"
    BY <1>1, <2>2 DEF Publish, Interrupted
  <2> QED
    BY <1>1, <2>3 DEF PutIntact, Idle
<1>2. Init => PutIntact
  BY DEF Init, PutIntact, Idle
<1>3. ReplicationInv /\ PutIntact /\ [Next]_vars
      => [\A m \in copies' \ copies : lock = "run" => m.refs \intersect badBefore = {}]_vars
  BY <1>1
<1> QED
  BY <1>2, <1>3, NextPutIntact, ReplicationInvariant, PTL DEF Spec, CopiesVerified
=============================================================================
