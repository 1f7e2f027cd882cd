--------------------------- MODULE ReadersProofs ---------------------------
(***************************************************************************)
(* Proofs about the readers: for any number of chunks and snapshots, and   *)
(* whatever writers and the store do meanwhile.                            *)
(***************************************************************************)
EXTENDS Readers, TLAPS

-----------------------------------------------------------------------------
(* Resumable verification *)

LEMMA InitVerifyInv == Init => VerifyInv
BY VerificationAssumption
   DEF Init, StoreInit, VerifyInv, TypeOK, StoreTypeOK, CheckpointHonest, NothingSkipped,
       Idle, Selectors, Checkpoints

(* Writers and damage change neither the run nor its checkpoint. *)
LEMMA OthersVerifyInv ==
    ASSUME VerifyInv, Others
    PROVE  VerifyInv'
<1>1. StoreTypeOK'
  <2> USE DEF VerifyInv, TypeOK, StoreTypeOK, Others, StoreStep
  <2>1. CASE Write
    BY <2>1 DEF Write, Catalog!Publish, Catalog!Store, Catalog!Delete, Catalog!Reclaim
  <2>2. CASE Spoil
    BY <2>2 DEF Spoil
  <2>3. CASE Lose
    BY <2>3 DEF Lose
  <2> QED
    BY <2>1, <2>2, <2>3
<1>2. UNCHANGED <<run, checkpoint, found>>
  BY DEF Others
<1>3. NeededBy(Selected)' = NeededBy(Selected)
  BY <1>2 DEF run, Selected, Newest, NeededBy
<1> QED
  BY <1>1, <1>2, <1>3 DEF VerifyInv, TypeOK, CheckpointHonest, NothingSkipped, run

LEMMA StepVerifyInv ==
    ASSUME VerifyInv, Step
    PROVE  VerifyInv'
<1> USE VerificationAssumption
<1>1. TypeOK'
  <2> USE DEF VerifyInv, TypeOK, StoreTypeOK, store, Goto, Fail, Idle
  <2>1. CASE Start
    BY <2>1 DEF Start
  <2>2. CASE Resolve
    BY <2>2 DEF Resolve, Selectors, IdsOf, Manifests
  <2>3. CASE \E id \in Ids : ReadManifest(id)
    BY <2>3 DEF ReadManifest, Readable
  <2>4. CASE ManifestsRead
    BY <2>4 DEF ManifestsRead
  <2>5. CASE Load
    <3>1. NeededBy(Selected) \subseteq Chunks
      BY DEF NeededBy, Selected, Newest, Manifests
    <3>2. checkpoint # NoFile => checkpoint.verified \subseteq Chunks
      BY DEF Checkpoints
    <3> QED
      BY <2>5, <3>1, <3>2 DEF Load, Resume
  <2>6. CASE \E c \in Chunks : VerifyChunk(c)
    BY <2>6 DEF VerifyChunk
  <2>7. CASE Save
    BY <2>7 DEF Save, Checkpoints
  <2>8. CASE Remove
    BY <2>8 DEF Remove
  <2>9. CASE ManifestUnreadable \/ ChunkBad \/ Fault
    BY <2>9 DEF ManifestUnreadable, ChunkBad, Fault
  <2> QED
    BY <2>1, <2>2, <2>3, <2>4, <2>5, <2>6, <2>7, <2>8, <2>9 DEF Step
<1>2. CheckpointHonest' /\ NothingSkipped'
  <2> USE DEF VerifyInv, CheckpointHonest, NothingSkipped, Goto, Fail, Idle
  <2>1. CASE Start
    BY <2>1 DEF Start
  <2>2. CASE Resolve \/ ManifestsRead \/ \E id \in Ids : ReadManifest(id)
    BY <2>2 DEF Resolve, ManifestsRead, ReadManifest
  <2>3. CASE Load
    <3>1. NeededBy(Selected)' = NeededBy(Selected)
      BY <2>3 DEF Load, Selected, Newest, NeededBy
    <3> QED
      BY <2>3, <3>1 DEF Load, Resume
  <2>4. CASE \E c \in Chunks : VerifyChunk(c)
    <3>1. NeededBy(Selected)' = NeededBy(Selected)
      BY <2>4 DEF VerifyChunk, Selected, Newest, NeededBy
    <3> QED
      BY <2>4, <3>1 DEF VerifyChunk
  <2>5. CASE Save
    <3>1. NeededBy(Selected)' = NeededBy(Selected)
      BY <2>5 DEF Save, Selected, Newest, NeededBy
    <3> QED
      BY <2>5, <3>1 DEF Save
  <2>6. CASE Remove
    <3>1. NeededBy(Selected)' = NeededBy(Selected)
      BY <2>6 DEF Remove, Selected, Newest, NeededBy
    <3> QED
      BY <2>6, <3>1 DEF Remove
  <2>7. CASE ManifestUnreadable \/ ChunkBad \/ Fault
    BY <2>7 DEF ManifestUnreadable, ChunkBad, Fault
  <2> QED
    BY <2>1, <2>2, <2>3, <2>4, <2>5, <2>6, <2>7 DEF Step
<1> QED
  BY <1>1, <1>2 DEF VerifyInv

LEMMA NextVerifyInv ==
    ASSUME VerifyInv, [Next]_vars
    PROVE  VerifyInv'
<1>1. VerifyInv /\ UNCHANGED vars => VerifyInv'
  BY DEF VerifyInv, TypeOK, StoreTypeOK, CheckpointHonest, NothingSkipped, Selected, Newest,
         NeededBy, vars, store, run, IdsOf
<1> QED
  BY <1>1, OthersVerifyInv, StepVerifyInv DEF Next

(* What becomes of a checkpoint in a step: nothing, or it is saved again   *)
(* with more in it, or removed when everything was found.                  *)
LEMMA NextGrows ==
    ASSUME VerifyInv, Next
    PROVE  checkpoint # NoFile /\ checkpoint' # checkpoint =>
             \/ checkpoint' = NoFile /\ pc' = "verified" /\ NeededBy(Selected) \subseteq found
             \/ /\ checkpoint' # NoFile
                /\ checkpoint.verified \subseteq checkpoint'.verified
<1>1. CASE Save
  <2>1. checkpoint' \in Checkpoints
    BY <1>1 DEF Save, Checkpoints, VerifyInv, TypeOK
  <2> QED
    BY <1>1, <2>1, VerificationAssumption DEF Save, VerifyInv, NothingSkipped
<1>2. CASE Remove
  BY <1>2 DEF Remove, Goto, VerifyInv, NothingSkipped
<1>3. CASE checkpoint' = checkpoint
  BY <1>3
<1> QED
  BY <1>1, <1>2, <1>3 DEF Next, Others, Step, Start, Resolve, ManifestUnreadable,
     ManifestsRead, ReadManifest, Load, ChunkBad, VerifyChunk, Fault, Fail

-----------------------------------------------------------------------------
(* The scan of check *)

LEMMA ManifestsAreIdentified ==
    ASSUME NEW m \in Scan!Manifests
    PROVE  m.id \in Ids /\ m.refs \subseteq Chunks
BY DEF Scan!Manifests

LEMMA InitScanInv == Scan!Init => Scan!ScanInv
<1> SUFFICES ASSUME Scan!Init PROVE Scan!ScanInv
  OBVIOUS
<1>1. Scan!StoreTypeOK
  BY DEF Scan!Init, Scan!StoreInit, Scan!StoreTypeOK
<1> QED
  BY <1>1 DEF Scan!Init, Scan!ScanInv, Scan!TypeOK, Scan!NoFalseAlarm

(* What a step of the others takes from the store becomes excused, once    *)
(* the scan has begun, and a new snapshot needs only what is there.        *)
LEMMA OthersExcuse ==
    ASSUME Scan!ScanInv, Scan!Others
    PROVE  /\ Scan!StoreTypeOK'
           /\ scanPc # "list" =>
                /\ excused \subseteq excused' /\ damaged' \subseteq excused'
                /\ available \subseteq available' \union excused'
                /\ Scan!IdsOf(published) \subseteq Scan!IdsOf(published') \union excused'
                /\ Scan!NeededBy(published') \subseteq available' \union excused'
                /\ excused' \subseteq Ids \union Chunks
<1> USE DEF Scan!ScanInv, Scan!TypeOK
<1>1. Scan!StoreTypeOK'
  <2> USE DEF Scan!StoreTypeOK, Scan!Others, Scan!StoreStep
  <2>1. CASE Scan!Write
    BY <2>1 DEF Scan!Write, Scan!Catalog!Publish, Scan!Catalog!Store, Scan!Catalog!Delete, Scan!Catalog!Reclaim
  <2>2. CASE Scan!Spoil
    BY <2>2 DEF Scan!Spoil
  <2>3. CASE Scan!Lose
    BY <2>3 DEF Scan!Lose
  <2> QED
    BY <2>1, <2>2, <2>3
<1>2. ASSUME scanPc # "list"
      PROVE  /\ excused \subseteq excused' /\ damaged' \subseteq excused'
             /\ available \subseteq available' \union excused'
             /\ Scan!IdsOf(published) \subseteq Scan!IdsOf(published') \union excused'
  BY <1>2 DEF Scan!Others, Scan!Watch, Scan!Lost
<1>3. ASSUME scanPc # "list" PROVE Scan!NeededBy(published') \subseteq available \union excused
  <2>1. CASE published' \subseteq published
    BY <1>3, <2>1 DEF Scan!NeededBy
  <2>2. ASSUME NEW m \in Scan!Manifests, Scan!Catalog!Publish(m)
        PROVE  Scan!NeededBy(published') \subseteq available \union excused
    <3>1. m.refs \subseteq available /\ published' = published \union {m}
      BY <2>2 DEF Scan!Catalog!Publish
    <3> QED
      BY <1>3, <3>1 DEF Scan!NeededBy
  <2> QED
    BY <2>1, <2>2 DEF Scan!Others, Scan!StoreStep, Scan!Write, Scan!Spoil, Scan!Lose, Scan!Catalog!Store, Scan!Catalog!Delete, Scan!Catalog!Reclaim
<1>4. ASSUME scanPc # "list" PROVE excused' \subseteq Ids \union Chunks
  <2>1. Scan!Lost \subseteq Ids \union Chunks
    BY ManifestsAreIdentified DEF Scan!Lost, Scan!IdsOf, Scan!StoreTypeOK
  <2>2. damaged' \subseteq Ids \union Chunks
    BY <1>1, ManifestsAreIdentified DEF Scan!IdsOf, Scan!StoreTypeOK
  <2> QED
    BY <1>4, <2>1, <2>2 DEF Scan!Others, Scan!Watch
<1> QED
  BY <1>1, <1>2, <1>3, <1>4

LEMMA OthersScanInv ==
    ASSUME Scan!ScanInv, Scan!Others
    PROVE  Scan!ScanInv'
<1> USE DEF Scan!ScanInv, Scan!TypeOK
<1>1. Scan!StoreTypeOK'
  BY OthersExcuse
<1>2. UNCHANGED <<scanPc, scanToRead, live, stored, checked, issues>>
  BY DEF Scan!Others
<1>3. lasting' \subseteq Scan!Manifests \X (Ids \union Chunks)
  BY DEF Scan!Others, Scan!Watch
<1>4. CASE scanPc = "list"
  <2>1. UNCHANGED excused
    BY <1>4 DEF Scan!Others, Scan!Watch
  <2> QED
    BY <1>1, <1>2, <1>3, <1>4, <2>1 DEF Scan!NoFalseAlarm
<1>5. CASE scanPc # "list"
  <2>1. /\ excused \subseteq excused' /\ damaged' \subseteq excused'
        /\ available \subseteq available' \union excused'
        /\ Scan!IdsOf(published) \subseteq Scan!IdsOf(published') \union excused'
        /\ Scan!NeededBy(published') \subseteq available' \union excused'
        /\ excused' \subseteq Ids \union Chunks
    BY <1>5, OthersExcuse
  <2>2. Scan!NoFalseAlarm'
    BY <1>2, <2>1 DEF Scan!NoFalseAlarm
  <2>3. /\ scanToRead \subseteq Scan!IdsOf(published') \union excused'
        /\ live \subseteq available' \union excused'
        /\ stored \subseteq available' \union excused'
        /\ scanPc \in {"verify", "done"} => live \subseteq stored \union excused'
    BY <2>1
  <2>4. Scan!IdsOf(published)' = Scan!IdsOf(published') /\ Scan!NeededBy(published)' = Scan!NeededBy(published')
    OBVIOUS
  <2> QED
    BY <1>1, <1>2, <1>3, <1>5, <2>1, <2>2, <2>3, <2>4
<1> QED
  BY <1>4, <1>5

LEMMA StepScanInv ==
    ASSUME Scan!ScanInv, Scan!Step
    PROVE  Scan!ScanInv'
<1> USE DEF Scan!ScanInv, Scan!TypeOK
<1>1. CASE Scan!ListSnapshots
  <2>1. Scan!Problems \subseteq Scan!Manifests \X (Ids \union Chunks)
    BY ManifestsAreIdentified DEF Scan!Problems, Scan!Readable, Scan!StoreTypeOK
  <2>2. /\ Scan!IdsOf(published) \subseteq Ids
        /\ damaged \subseteq Ids \union Chunks
        /\ Scan!NeededBy(published) \subseteq Chunks
    BY ManifestsAreIdentified DEF Scan!IdsOf, Scan!NeededBy, Scan!StoreTypeOK
  <2>3. UNCHANGED <<published, available, damaged>>
    BY <1>1 DEF Scan!ListSnapshots, Scan!store
  <2>4. Scan!StoreTypeOK' /\ Scan!IdsOf(published)' = Scan!IdsOf(published) /\ Scan!NeededBy(published)' = Scan!NeededBy(published)
    BY <2>3 DEF Scan!StoreTypeOK, Scan!IdsOf, Scan!NeededBy
  <2>5. excused' = damaged \union (Scan!NeededBy(published) \ available)
    BY <1>1 DEF Scan!ListSnapshots
  <2>6. Scan!NoFalseAlarm'
    BY <1>1 DEF Scan!ListSnapshots, Scan!NoFalseAlarm
  <2> QED
    BY <1>1, <2>1, <2>2, <2>3, <2>4, <2>5, <2>6 DEF Scan!ListSnapshots
<1>2. ASSUME NEW id \in Ids, Scan!ReadManifest(id)
      PROVE  Scan!ScanInv'
  <2>1. /\ UNCHANGED <<published, available, damaged, scanPc, stored, checked, lasting>>
        /\ scanPc = "read" /\ id \in scanToRead /\ scanToRead' = scanToRead \ {id}
    BY <1>2 DEF Scan!ReadManifest, Scan!store
  <2>2. Scan!StoreTypeOK' /\ Scan!IdsOf(published)' = Scan!IdsOf(published) /\ Scan!NeededBy(published)' = Scan!NeededBy(published)
    BY <2>1 DEF Scan!StoreTypeOK, Scan!IdsOf, Scan!NeededBy
  <2>3. CASE \E m \in Scan!Readable : /\ m.id = id
                                 /\ live' = live \union m.refs
                                 /\ UNCHANGED <<issues, excused>>
    <3>1. PICK m \in published : live' = live \union m.refs /\ UNCHANGED <<issues, excused>>
      BY <2>3 DEF Scan!Readable
    <3>2. m.refs \subseteq available \union excused /\ m.refs \subseteq Chunks
      BY <2>1, ManifestsAreIdentified DEF Scan!NeededBy, Scan!StoreTypeOK
    <3> QED
      BY <2>1, <2>2, <3>1, <3>2 DEF Scan!NoFalseAlarm
  <2>4. CASE /\ issues' = issues \union {Scan!Issue("invalid_manifest", id)}
             /\ excused' = IF id \in Scan!IdsOf(Scan!Readable) THEN excused \union {id} ELSE excused
             /\ UNCHANGED live
    <3>1. id \in excused' /\ excused \subseteq excused' /\ excused' \subseteq excused \union {id}
      BY <2>1, <2>4 DEF Scan!IdsOf, Scan!Readable
    <3>2. Scan!Issue("invalid_manifest", id) = [kind |-> "invalid_manifest", object |-> id]
      BY DEF Scan!Issue
    <3>3. issues' \subseteq [kind : Scan!Kinds, object : Scan!Objects]
      BY <2>4, <3>2 DEF Scan!Kinds, Scan!Objects
    <3>4. Scan!NoFalseAlarm'
      BY <2>4, <3>1, <3>2 DEF Scan!NoFalseAlarm
    <3> QED
      BY <2>1, <2>2, <2>4, <3>1, <3>3, <3>4
  <2> QED
    BY <1>2, <2>3, <2>4 DEF Scan!ReadManifest
<1>3. CASE Scan!ListChunks
  <2>1. Scan!Issue("invalid_chunk_key", Staging) \in [kind : Scan!Kinds, object : Scan!Objects]
    BY DEF Scan!Issue, Scan!Kinds, Scan!Objects
  <2>2. Scan!Issue("invalid_chunk_key", Staging).kind = "invalid_chunk_key"
    BY DEF Scan!Issue
  <2>3. issues' \subseteq [kind : Scan!Kinds, object : Scan!Objects] /\ Scan!NoFalseAlarm'
    BY <1>3, <2>1, <2>2 DEF Scan!ListChunks, Scan!NoFalseAlarm
  <2> QED
    BY <1>3, <2>3 DEF Scan!ListChunks, Scan!store, Scan!StoreTypeOK, Scan!IdsOf, Scan!NeededBy
<1>6. CASE Scan!ListFails
  BY <1>6 DEF Scan!ListFails, Scan!store, Scan!StoreTypeOK, Scan!NoFalseAlarm, Scan!IdsOf, Scan!NeededBy
<1>4. ASSUME NEW c \in Chunks, Scan!CheckChunk(c)
      PROVE  Scan!ScanInv'
  <2>1. /\ UNCHANGED <<published, available, damaged, scanPc, scanToRead, live, stored, lasting>>
        /\ scanPc = "verify" /\ c \in live /\ checked' = checked \union {c}
    BY <1>4 DEF Scan!CheckChunk, Scan!ToCheck, Scan!store
  <2>2. Scan!StoreTypeOK' /\ Scan!IdsOf(published)' = Scan!IdsOf(published) /\ Scan!NeededBy(published)' = Scan!NeededBy(published)
    BY <2>1 DEF Scan!StoreTypeOK, Scan!IdsOf, Scan!NeededBy
  <2>3. CASE UNCHANGED <<issues, excused>>
    BY <2>1, <2>2, <2>3 DEF Scan!NoFalseAlarm
  <2>4. ASSUME NEW kind \in Scan!Kinds, issues' = issues \union {Scan!Issue(kind, c)},
               excused \subseteq excused', excused' \subseteq excused \union {c}, c \in excused'
        PROVE  Scan!ScanInv'
    <3>1. Scan!Issue(kind, c) = [kind |-> kind, object |-> c]
      BY DEF Scan!Issue
    <3>2. issues' \subseteq [kind : Scan!Kinds, object : Scan!Objects] /\ Scan!NoFalseAlarm'
      BY <2>4, <3>1 DEF Scan!NoFalseAlarm, Scan!Objects
    <3> QED
      BY <2>1, <2>2, <2>4, <3>2
  <2>5. CASE /\ c \notin stored
             /\ issues' = issues \union {Scan!Issue("missing_chunk", c)}
             /\ UNCHANGED excused
    <3>1. c \in excused
      BY <2>1, <2>5
    <3> QED
      BY <2>4, <2>5, <3>1 DEF Scan!Kinds
  <2>6. CASE /\ c \in stored
             /\ issues' = issues \union {Scan!Issue("corrupt_chunk", c)}
             /\ excused' = IF c \in Scan!Intact THEN excused \union {c} ELSE excused
    <3>1. c \in excused'
      BY <2>1, <2>6 DEF Scan!Intact
    <3> QED
      BY <2>4, <2>6, <3>1 DEF Scan!Kinds
  <2> QED
    BY <1>4, <2>3, <2>5, <2>6 DEF Scan!CheckChunk
<1>5. CASE Scan!Report
  <2>1. \A issue \in issues' \ issues : \E c \in Chunks : issue = Scan!Issue("orphan_chunk", c)
    BY <1>5 DEF Scan!Report
  <2>2. \A c \in Chunks : /\ Scan!Issue("orphan_chunk", c) \in [kind : Scan!Kinds, object : Scan!Objects]
                          /\ Scan!Issue("orphan_chunk", c).kind = "orphan_chunk"
    BY DEF Scan!Issue, Scan!Kinds, Scan!Objects
  <2>3. issues' \subseteq [kind : Scan!Kinds, object : Scan!Objects]
    BY <2>1, <2>2
  <2>4. Scan!NoFalseAlarm'
    BY <1>5, <2>1, <2>2 DEF Scan!NoFalseAlarm, Scan!Report
  <2> QED
    BY <1>5, <2>3, <2>4 DEF Scan!Report, Scan!store, Scan!StoreTypeOK, Scan!IdsOf, Scan!NeededBy
<1> QED
  BY <1>1, <1>2, <1>3, <1>4, <1>5, <1>6 DEF Scan!Step


LEMMA ScanStutters ==
    ASSUME Scan!ScanInv, UNCHANGED Scan!vars
    PROVE  Scan!ScanInv'
BY DEF Scan!ScanInv, Scan!TypeOK, Scan!vars, Scan!store, Scan!StoreTypeOK, Scan!NoFalseAlarm, Scan!IdsOf, Scan!NeededBy
LEMMA NextScanInv ==
    ASSUME Scan!ScanInv, [Scan!Next]_(Scan!vars)
    PROVE  Scan!ScanInv'
BY OthersScanInv, StepScanInv, ScanStutters DEF Scan!Next

(* No two snapshots of the repository have one id.                         *)
LEMMA StoreStepKeepsIds ==
    ASSUME \A m, n \in published : m.id = n.id => m = n, Scan!StoreStep
    PROVE  \A m, n \in published' : m.id = n.id => m = n
<1>1. CASE published' \subseteq published
  BY <1>1
<1>2. ASSUME NEW m \in Scan!Manifests, Scan!Catalog!Publish(m)
      PROVE  \A k, n \in published' : k.id = n.id => k = n
  BY <1>2 DEF Scan!Catalog!Publish
<1> QED
  BY <1>1, <1>2 DEF Scan!StoreStep, Scan!Write, Scan!Spoil, Scan!Lose, Scan!Catalog!Store,
     Scan!Catalog!Delete, Scan!Catalog!Reclaim

LEMMA InitDamageInv == Scan!Init => Scan!DamageInv
BY DEF Scan!Init, Scan!StoreInit, Scan!DamageInv

LEMMA OthersDamageInv ==
    ASSUME Scan!DamageInv, Scan!Others
    PROVE  Scan!DamageInv'
<1> USE DEF Scan!DamageInv
<1>1. \A m, n \in published' : m.id = n.id => m = n
  BY StoreStepKeepsIds DEF Scan!Others
<1>2. UNCHANGED <<scanPc, scanToRead, live, stored, checked, issues>>
  BY DEF Scan!Others
<1>3. scanPc # "list" => lasting' \subseteq lasting /\ lasting' \subseteq Scan!Problems'
  BY DEF Scan!Others, Scan!Watch
<1>4. scanPc = "list" => lasting' = lasting
  BY DEF Scan!Others, Scan!Watch
<1> QED
  BY <1>1, <1>2, <1>3, <1>4 DEF Scan!Reported

(* A problem is a manifest that cannot be read, or a chunk of one that can *)
LEMMA ProblemIsOne ==
    ASSUME Scan!TypeOK, NEW problem \in Scan!Problems
    PROVE  /\ problem[1] \in published /\ problem[1].id \in Ids
           /\ \/ problem[1] \notin Scan!Readable /\ problem[2] = problem[1].id
              \/ problem[1] \in Scan!Readable /\ problem[2] \in problem[1].refs \ Scan!Intact
BY ManifestsAreIdentified DEF Scan!Problems, Scan!Readable, Scan!TypeOK, Scan!StoreTypeOK

(* A new issue about the manifest or the chunk of a problem reports it. *)
LEMMA IssueReports ==
    ASSUME NEW problem, NEW kind \in {"invalid_manifest", "missing_chunk", "corrupt_chunk"},
           NEW x \in {problem[1].id, problem[2]},
           issues' = issues \union {Scan!Issue(kind, x)}
    PROVE  Scan!Reported(problem)'
<1> DEFINE issue == Scan!Issue(kind, x)
<1>1. issue.kind = kind /\ issue.object = x
  BY DEF Scan!Issue
<1>2. issue \in issues'
  OBVIOUS
<1>3. issue.object \in {problem[1].id, problem[2]} /\ issue.kind \notin {"orphan_chunk", "invalid_chunk_key"}
  BY <1>1
<1> QED
  BY <1>2, <1>3 DEF Scan!Reported

LEMMA StepDamageInv ==
    ASSUME Scan!TypeOK, Scan!DamageInv, Scan!Step
    PROVE  Scan!DamageInv'
<1> USE DEF Scan!DamageInv
<1>1. UNCHANGED Scan!store => UNCHANGED <<published, available, damaged>> /\ Scan!Problems' = Scan!Problems
  BY DEF Scan!store, Scan!Problems, Scan!Readable, Scan!Intact
<1>2. CASE Scan!ListSnapshots
  <2>1. \A problem \in Scan!Problems : problem[1].id \in Scan!IdsOf(published)
    BY ProblemIsOne DEF Scan!IdsOf
  <2> QED
    BY <1>1, <1>2, <2>1 DEF Scan!ListSnapshots
<1>3. ASSUME NEW id \in Ids, Scan!ReadManifest(id)
      PROVE  Scan!DamageInv'
  <2>1. /\ UNCHANGED <<published, lasting, scanPc, checked>> /\ Scan!Problems' = Scan!Problems
        /\ scanPc = "read" /\ checked = {} /\ scanToRead' = scanToRead \ {id}
    BY <1>1, <1>3 DEF Scan!ReadManifest
  <2>2. issues \subseteq issues' /\ live \subseteq live'
    BY <1>3 DEF Scan!ReadManifest
  <2>3. ASSUME NEW problem \in lasting
        PROVE  \/ Scan!Reported(problem)'
               \/ problem[1].id \in scanToRead'
               \/ problem[2] \in live' \ checked'
    <3>1. CASE Scan!Reported(problem)
      BY <2>2, <3>1 DEF Scan!Reported
    <3>2. CASE problem[2] \in live \ checked
      BY <2>1, <2>2, <3>2
    <3>3. CASE problem[1].id \in scanToRead /\ problem[1].id # id
      BY <2>1, <3>3
    <3>4. CASE problem[1].id = id
      <4>1. CASE issues' = issues \union {Scan!Issue("invalid_manifest", id)}
        BY <3>4, <4>1, IssueReports
      <4>2. ASSUME NEW m \in Scan!Readable, m.id = id, live' = live \union m.refs
            PROVE  problem[2] \in live' \ checked'
        BY <2>1, <3>4, <4>2, ProblemIsOne DEF Scan!Readable
      <4> QED
        BY <1>3, <4>1, <4>2 DEF Scan!ReadManifest
    <3> QED
      BY <2>1, <3>1, <3>2, <3>3, <3>4
  <2> QED
    BY <2>1, <2>3
<1>4. CASE Scan!ListChunks
  BY <1>1, <1>4 DEF Scan!ListChunks, Scan!Reported
<1>5. CASE Scan!ListFails
  BY <1>1, <1>5 DEF Scan!ListFails
<1>6. ASSUME NEW c \in Chunks, Scan!CheckChunk(c)
      PROVE  Scan!DamageInv'
  <2>1. /\ UNCHANGED <<published, lasting, scanPc, live>> /\ Scan!Problems' = Scan!Problems
        /\ scanPc = "verify" /\ checked' = checked \union {c}
    BY <1>1, <1>6 DEF Scan!CheckChunk
  <2>2. issues \subseteq issues'
    BY <1>6 DEF Scan!CheckChunk
  <2>3. ASSUME NEW problem \in lasting
        PROVE  Scan!Reported(problem)' \/ problem[2] \in live' \ checked'
    <3>1. CASE Scan!Reported(problem)
      BY <2>2, <3>1 DEF Scan!Reported
    <3>2. CASE problem[2] \in live \ checked /\ problem[2] # c
      BY <2>1, <3>2
    <3>3. CASE problem[2] = c
      <4>1. c \notin Scan!Intact
        BY <2>1, <3>3, ProblemIsOne, StoredAssumption
      <4>2. ASSUME NEW kind \in {"missing_chunk", "corrupt_chunk"},
                   issues' = issues \union {Scan!Issue(kind, c)}
            PROVE  Scan!Reported(problem)'
        BY <3>3, <4>2, IssueReports
      <4> QED
        BY <1>6, <4>1, <4>2 DEF Scan!CheckChunk
    <3> QED
      BY <2>1, <3>1, <3>2, <3>3
  <2> QED
    BY <2>1, <2>3
<1>7. CASE Scan!Report
  <2>1. /\ UNCHANGED <<published, lasting, live, checked>> /\ Scan!Problems' = Scan!Problems
        /\ scanPc = "verify" /\ scanPc' = "done" /\ live \subseteq checked
    BY <1>1, <1>7 DEF Scan!Report, Scan!ToCheck
  <2>2. issues \subseteq issues'
    BY <1>7 DEF Scan!Report
  <2> QED
    BY <2>1, <2>2 DEF Scan!Reported
<1> QED
  BY <1>2, <1>3, <1>4, <1>5, <1>6, <1>7 DEF Scan!Step

LEMMA NextDamageInv ==
    ASSUME Scan!TypeOK, Scan!DamageInv, [Scan!Next]_(Scan!vars)
    PROVE  Scan!DamageInv'
<1>1. CASE UNCHANGED Scan!vars
  BY <1>1 DEF Scan!vars, Scan!store, Scan!DamageInv, Scan!Problems, Scan!Readable, Scan!Intact, Scan!Reported
<1> QED
  BY <1>1, OthersDamageInv, StepDamageInv DEF Scan!Next
-----------------------------------------------------------------------------
(* The export of a kit *)

LEMMA InitKitInv == Export!Init => Export!KitInv
BY DEF Export!Init, Export!StoreInit, Export!KitInv, Export!TypeOK, Export!StoreTypeOK, Export!Idle,
   Export!ValidKitIsComplete, Export!Validates

(* The repository keeps its types and its ids whatever happens to it.      *)
LEMMA StoreStepKeepsTypes ==
    ASSUME StoreTypeOK, StoreStep
    PROVE  StoreTypeOK'
<1> USE DEF StoreTypeOK
<1>1. CASE Write
  BY <1>1 DEF Write, Catalog!Publish, Catalog!Store, Catalog!Delete, Catalog!Reclaim
<1>2. CASE Spoil
  BY <1>2 DEF Spoil
<1>3. CASE Lose
  BY <1>3 DEF Lose
<1> QED
  BY <1>1, <1>2, <1>3 DEF StoreStep

(* The readers see one and the same repository.                            *)
LEMMA ScanSeesTheStore ==
    /\ Scan!StoreStep <=> StoreStep
    /\ Scan!store = store
    /\ Scan!StoreTypeOK <=> StoreTypeOK
<1>1. /\ Scan!Manifests = Manifests /\ Scan!Catalog!Needed = Catalog!Needed
      /\ Scan!IdsOf(published) = IdsOf(published) /\ Scan!IdsOf(published)' = IdsOf(published)'
  BY DEF Scan!Manifests, Manifests, Scan!Catalog!Needed, Catalog!Needed, Scan!IdsOf, IdsOf
<1>2. /\ \A m : Scan!Catalog!Publish(m) <=> Catalog!Publish(m)
      /\ \A c : Scan!Catalog!Store(c) <=> Catalog!Store(c)
      /\ \A m : Scan!Catalog!Delete(m) <=> Catalog!Delete(m)
      /\ \A c : Scan!Catalog!Reclaim(c) <=> Catalog!Reclaim(c)
  BY <1>1 DEF Scan!Catalog!Publish, Catalog!Publish, Scan!Catalog!Store, Catalog!Store,
     Scan!Catalog!Delete, Catalog!Delete, Scan!Catalog!Reclaim, Catalog!Reclaim
<1>3. Scan!Write <=> Write
  BY <1>1, <1>2 DEF Scan!Write, Write, Scan!IdsOf, IdsOf
<1>4. (Scan!Spoil <=> Spoil) /\ (Scan!Lose <=> Lose)
  BY <1>1 DEF Scan!Spoil, Spoil, Scan!Lose, Lose
<1>5. Scan!store = store /\ (Scan!StoreTypeOK <=> StoreTypeOK)
  BY <1>1 DEF Scan!store, store, Scan!StoreTypeOK, StoreTypeOK
<1> QED
  BY <1>3, <1>4, <1>5 DEF Scan!StoreStep, StoreStep

LEMMA ExportSeesTheStore ==
    /\ Export!StoreStep <=> StoreStep
    /\ Export!store = store
    /\ Export!StoreTypeOK <=> StoreTypeOK
<1>1. /\ Export!Manifests = Manifests /\ Export!Catalog!Needed = Catalog!Needed
      /\ Export!IdsOf(published) = IdsOf(published) /\ Export!IdsOf(published)' = IdsOf(published)'
  BY DEF Export!Manifests, Manifests, Export!Catalog!Needed, Catalog!Needed, Export!IdsOf, IdsOf
<1>2. /\ \A m : Export!Catalog!Publish(m) <=> Catalog!Publish(m)
      /\ \A c : Export!Catalog!Store(c) <=> Catalog!Store(c)
      /\ \A m : Export!Catalog!Delete(m) <=> Catalog!Delete(m)
      /\ \A c : Export!Catalog!Reclaim(c) <=> Catalog!Reclaim(c)
  BY <1>1 DEF Export!Catalog!Publish, Catalog!Publish, Export!Catalog!Store, Catalog!Store,
     Export!Catalog!Delete, Catalog!Delete, Export!Catalog!Reclaim, Catalog!Reclaim
<1>3. Export!Write <=> Write
  BY <1>1, <1>2 DEF Export!Write, Write, Export!IdsOf, IdsOf
<1>4. (Export!Spoil <=> Spoil) /\ (Export!Lose <=> Lose)
  BY <1>1 DEF Export!Spoil, Spoil, Export!Lose, Lose
<1>5. Export!store = store /\ (Export!StoreTypeOK <=> StoreTypeOK)
  BY <1>1 DEF Export!store, store, Export!StoreTypeOK, StoreTypeOK
<1> QED
  BY <1>3, <1>4, <1>5 DEF Export!StoreStep, StoreStep

(* What happens to the repository concerns a kit only while it is written. *)
LEMMA StoreStepKitInv ==
    ASSUME Export!KitInv, StoreStep,
           UNCHANGED <<exportPc, exportToRead, toCopy, kit>>,
           steady' = IF exportPc \in Export!Idle THEN steady ELSE steady \intersect published'
    PROVE  Export!KitInv'
<1> USE DEF Export!KitInv, Export!TypeOK
<1>1. Export!StoreTypeOK'
  BY StoreStepKeepsTypes, ExportSeesTheStore DEF Export!StoreTypeOK, StoreTypeOK, Export!IdsOf, IdsOf, Export!Manifests, Manifests
<1>2. \A m, n \in published' : m.id = n.id => m = n
  BY StoreStepKeepsIds, ScanSeesTheStore
<1>3. steady' \subseteq steady /\ (exportPc \notin Export!Idle => steady' \subseteq published')
  OBVIOUS
<1>4. Export!IdsOf(steady)' \subseteq Export!IdsOf(steady)
  BY <1>3 DEF Export!IdsOf
<1>5. Export!ValidKitIsComplete'
  BY <1>3 DEF Export!ValidKitIsComplete, Export!Validates
<1> QED
  BY <1>1, <1>2, <1>3, <1>4, <1>5 DEF Export!Idle

(* A step of the export itself *)
LEMMA ExportKitInv ==
    ASSUME Export!KitInv, Export!Next, ~Export!Others
    PROVE  Export!KitInv'
<1> USE DEF Export!KitInv, Export!TypeOK, Export!Idle
<1>1. ASSUME UNCHANGED <<published, available, damaged>>
      PROVE  /\ Export!StoreTypeOK'
             /\ \A m, n \in published' : m.id = n.id => m = n
  BY <1>1 DEF Export!StoreTypeOK, Export!IdsOf
<1>2. \A m \in published : m \in Export!Manifests /\ m.id \in Ids
  BY DEF Export!StoreTypeOK, Export!Manifests
<1> USE DEF Export!store, Export!ValidKitIsComplete, Export!Validates
<1>3. CASE Export!Create
  <2>1. Export!EmptyKit \in Export!Kits /\ ~Export!EmptyKit.whole
    BY DEF Export!EmptyKit, Export!Kits
  <2>2. published \subseteq Export!Manifests
    BY DEF Export!StoreTypeOK
  <2> QED
    BY <1>1, <1>3, <2>1, <2>2, ReadersAssumption DEF Export!Create
<1>4. CASE Export!ListSnapshots
  <2>1. exportToRead' \subseteq Ids /\ Export!IdsOf(steady)' \subseteq exportToRead'
    BY <1>2, <1>4 DEF Export!ListSnapshots, Export!IdsOf
  <2> QED
    BY <1>1, <1>4, <2>1 DEF Export!ListSnapshots
<1>5. ASSUME NEW id \in Ids, Export!ReadManifest(id)
      PROVE  Export!KitInv'
  <2>1. Export!IdsOf(steady)' = Export!IdsOf(steady)
    BY <1>5 DEF Export!ReadManifest, Export!IdsOf
  <2> QED
    BY <1>1, <1>5, <2>1 DEF Export!ReadManifest
<1>6. CASE Export!SnapshotsRead
  <2>1. \A m \in steady : m.id \in toCopy
    BY <1>6 DEF Export!SnapshotsRead, Export!IdsOf
  <2> QED
    BY <1>1, <1>6, <2>1 DEF Export!SnapshotsRead
<1>7. ASSUME NEW m \in Export!Manifests, Export!WriteManifest(m)
      PROVE  Export!KitInv'
  <2>1. /\ exportPc = "copy" /\ exportPc' = "copy" /\ m \in published /\ m.id \in Ids
        /\ UNCHANGED <<published, available, damaged, exportToRead, steady>>
        /\ toCopy' = toCopy \ {m.id} /\ kit \in Export!Kits
    BY <1>2, <1>7 DEF Export!WriteManifest
  <2>2. /\ kit' = [kit EXCEPT !.manifests = @ \union {m}, !.bad = @ \union ({m.id} \intersect damaged)]
        /\ kit' \in Export!Kits /\ kit'.whole = kit.whole /\ kit'.manifests = kit.manifests \union {m}
    BY <1>7, <2>1 DEF Export!WriteManifest, Export!Kits
  <2>3. \A n \in steady : n.id \in toCopy' \/ n \in kit'.manifests
    BY <2>1, <2>2
  <2> QED
    BY <1>1, <2>1, <2>2, <2>3, ReadersAssumption
<1>8. CASE Export!Close
  <2>1. /\ exportPc' = "done" /\ kit' = [kit EXCEPT !.whole = TRUE] /\ kit \in Export!Kits
        /\ UNCHANGED <<published, available, damaged, exportToRead, toCopy, steady>>
        /\ steady \subseteq kit.manifests
    BY <1>8 DEF Export!Close
  <2>2. kit' \in Export!Kits /\ kit'.manifests = kit.manifests
    BY <2>1 DEF Export!Kits
  <2> QED
    BY <1>1, <2>1, <2>2
<1>9. CASE Export!Fail
  BY <1>1, <1>9 DEF Export!Fail
<1>10. CASE Export!Discard
  BY <1>1, <1>10 DEF Export!Discard
<1> QED
  BY <1>3, <1>4, <1>5, <1>6, <1>7, <1>8, <1>9, <1>10 DEF Export!Next

-----------------------------------------------------------------------------
(* One reader at a time *)

(* A reader that is not at work has nothing that could become wrong.       *)
ReadersInv ==
    /\ VerifyInv /\ Scan!ScanInv /\ Scan!DamageInv /\ Export!KitInv
    /\ reader # "check" => scanPc = "list"
    /\ reader # "export" => exportPc = "new"

LEMMA InitReadersInv == ReadersInit => ReadersInv
BY InitVerifyInv, InitScanInv, InitDamageInv, InitKitInv DEF ReadersInit, ReadersInv, Scan!Init, Export!Init

(* Readers only read: what changes the repository is a step of the others. *)
LEMMA VerificationOnlyReads == Step => UNCHANGED store
BY DEF Step, Start, Resolve, ManifestUnreadable, ManifestsRead, Load, ChunkBad, Save, Remove, Fault, Fail,
   ReadManifest, VerifyChunk

LEMMA ScanOnlyReads == Scan!Step => UNCHANGED Scan!store
BY DEF Scan!Step, Scan!ListSnapshots, Scan!ListChunks, Scan!ListFails, Scan!Report, Scan!ReadManifest,
   Scan!CheckChunk

LEMMA ExportOnlyReads == Export!Next => Export!Others \/ UNCHANGED Export!store
BY DEF Export!Next, Export!Create, Export!ListSnapshots, Export!SnapshotsRead, Export!ReadManifest,
   Export!WriteManifest, Export!Close, Export!Fail, Export!Discard

LEMMA WaitingScan ==
    ASSUME Scan!ScanInv, Scan!DamageInv, scanPc = "list",
           StoreStep \/ UNCHANGED store, UNCHANGED scanVars
    PROVE  Scan!ScanInv' /\ Scan!DamageInv'
<1>1. CASE StoreStep
  <2>1. Scan!StoreStep
    BY <1>1, ScanSeesTheStore
  <2>2. Scan!Others
    BY <2>1 DEF Scan!Others, Scan!Watch, scanVars
  <2> QED
    BY <2>2, OthersScanInv, OthersDamageInv
<1>2. CASE UNCHANGED store
  <2>1. UNCHANGED Scan!vars
    BY <1>2 DEF Scan!vars, scanVars, store, Scan!store
  <2> QED
    BY <2>1, NextScanInv, NextDamageInv DEF Scan!ScanInv
<1> QED
  BY <1>1, <1>2

LEMMA KitStutters ==
    ASSUME Export!KitInv, UNCHANGED <<store, kitVars>>
    PROVE  Export!KitInv'
BY DEF Export!KitInv, Export!TypeOK, Export!StoreTypeOK, Export!IdsOf, Export!ValidKitIsComplete,
   Export!Validates, store, kitVars

LEMMA WaitingExport ==
    ASSUME Export!KitInv, exportPc = "new",
           StoreStep \/ UNCHANGED store, UNCHANGED kitVars
    PROVE  Export!KitInv'
<1>1. CASE StoreStep
  BY <1>1, StoreStepKitInv DEF kitVars, Export!Idle
<1>2. CASE UNCHANGED store
  BY <1>2, KitStutters
<1> QED
  BY <1>1, <1>2

LEMMA WaitingVerification ==
    ASSUME VerifyInv, StoreStep \/ UNCHANGED store, UNCHANGED <<run, checkpoint, found>>
    PROVE  VerifyInv'
<1>1. CASE StoreStep
  BY <1>1, OthersVerifyInv DEF Others
<1>2. CASE UNCHANGED store
  BY <1>2, NextVerifyInv DEF vars
<1> QED
  BY <1>1, <1>2

LEMMA NextReadersInv ==
    ASSUME ReadersInv, [ReadersNext]_<<reader, vars, scanVars, kitVars>>
    PROVE  ReadersInv'
<1> USE DEF ReadersInv
<1>1. CASE reader = "verify" /\ Next /\ UNCHANGED <<reader, scanVars, kitVars>>
  <2>1. StoreStep \/ UNCHANGED store
    BY <1>1, VerificationOnlyReads DEF Next, Others
  <2>2. scanPc' = scanPc /\ exportPc' = exportPc
    BY <1>1 DEF scanVars, kitVars
  <2> QED
    BY <1>1, <2>1, <2>2, NextVerifyInv, WaitingScan, WaitingExport
<1>2. CASE reader = "check" /\ Scan!Next /\ UNCHANGED <<reader, run, checkpoint, found, kitVars>>
  <2>1. StoreStep \/ UNCHANGED store
    BY <1>2, ScanOnlyReads, ScanSeesTheStore DEF Scan!Next, Scan!Others, Scan!store, store
  <2>2. exportPc' = exportPc
    BY <1>2 DEF kitVars
  <2>3. Scan!ScanInv' /\ Scan!DamageInv'
    BY <1>2, NextScanInv, NextDamageInv DEF Scan!ScanInv
  <2>4. Export!KitInv'
    BY <1>2, <2>1, WaitingExport
  <2> QED
    BY <1>2, <2>1, <2>2, <2>3, <2>4, WaitingVerification
<1>3. CASE reader = "export" /\ Export!Next /\ UNCHANGED <<reader, run, checkpoint, found, scanVars>>
  <2>1. StoreStep \/ UNCHANGED store
    BY <1>3, ExportOnlyReads, ExportSeesTheStore DEF Export!Others, Export!store, store
  <2>2. scanPc' = scanPc
    BY <1>3 DEF scanVars
  <2>3. ASSUME Export!Others PROVE Export!KitInv'
    <3>1. StoreStep /\ UNCHANGED <<exportPc, exportToRead, toCopy, kit>>
      BY <2>3, ExportSeesTheStore DEF Export!Others
    <3>2. steady' = IF exportPc \in Export!Idle THEN steady ELSE steady \intersect published'
      BY <2>3 DEF Export!Others
    <3> QED
      BY <3>1, <3>2, StoreStepKitInv
  <2>4. ASSUME ~Export!Others PROVE Export!KitInv'
    BY <1>3, <2>4, ExportKitInv
  <2>5. Scan!ScanInv' /\ Scan!DamageInv'
    BY <1>3, <2>1, WaitingScan
  <2> QED
    BY <1>3, <2>1, <2>2, <2>3, <2>4, <2>5, WaitingVerification
<1>4. CASE UNCHANGED <<reader, vars, scanVars, kitVars>>
  <2>1. UNCHANGED <<store, scanPc, exportPc>> /\ UNCHANGED Scan!vars
    BY <1>4 DEF vars, scanVars, kitVars, store, Scan!vars, Scan!store
  <2> QED
    BY <1>4, <2>1, NextVerifyInv, NextScanInv, NextDamageInv, KitStutters DEF Scan!ScanInv
<1> QED
  BY <1>1, <1>2, <1>3, <1>4 DEF ReadersNext

(* ReadersInv holds in every state. *)
THEOREM ReadersInvariant == ReadersSpec => []ReadersInv
<1> QED
  BY InitReadersInv, NextReadersInv, PTL DEF ReadersSpec

(* A verification that reports success has found every chunk intact, or    *)
(* resumes runs that have: the checkpoint vouches for no other chunk.      *)
THEOREM SuccessMeansFound == ReadersSpec => []VerifiedMeansFound
<1>1. ReadersInv => VerifiedMeansFound
  BY DEF ReadersInv, VerifyInv, NothingSkipped, VerifiedMeansFound
<1> QED
  BY <1>1, ReadersInvariant, PTL

(* No run takes a chunk out of the checkpoint, and none removes it before  *)
(* everything it was asked to verify was found intact.                     *)
THEOREM CheckpointOnlyGrows == ReadersSpec => CheckpointGrows
<1> DEFINE Grows ==
      checkpoint # NoFile /\ checkpoint' # checkpoint =>
        \/ checkpoint' = NoFile /\ pc' = "verified" /\ NeededBy(Selected) \subseteq found
        \/ /\ checkpoint' # NoFile
           /\ checkpoint.verified \subseteq checkpoint'.verified
<1>1. ASSUME ReadersInv, ReadersNext PROVE Grows
  <2>1. CASE Next
    BY <1>1, <2>1, NextGrows DEF ReadersInv
  <2>2. CASE checkpoint' = checkpoint
    BY <2>2
  <2> QED
    BY <1>1, <2>1, <2>2 DEF ReadersNext
<1>2. ReadersInv /\ [ReadersNext]_<<reader, vars, scanVars, kitVars>> => [Grows]_vars
  BY <1>1
<1> QED
  BY ReadersInvariant, <1>2, PTL DEF ReadersSpec, CheckpointGrows

(* Check reports nothing but orphans, staging files, and objects that were *)
(* bad, missing, deleted or unreadable at some time since it began.        *)
THEOREM CheckRaisesNoFalseAlarm == ReadersSpec => []NoFalseAlarm
<1>1. ReadersInv => NoFalseAlarm
  BY DEF ReadersInv, Scan!ScanInv, NoFalseAlarm
<1> QED
  BY <1>1, ReadersInvariant, PTL

(* A scan that comes to its end reports each problem that has lasted since *)
(* it began.                                                               *)
THEOREM CheckReportsDamage == ReadersSpec => []DamageIsReported
<1>1. ReadersInv => DamageIsReported
  BY DEF ReadersInv, Scan!DamageInv, DamageIsReported, Scan!DamageIsReported
<1> QED
  BY <1>1, ReadersInvariant, PTL

(* A kit that validates has every snapshot that was in the repository      *)
(* during the whole export.                                                *)
THEOREM KitIsComplete == ReadersSpec => []ValidKitIsComplete
<1>1. ReadersInv => ValidKitIsComplete
  BY DEF ReadersInv, Export!KitInv, ValidKitIsComplete
<1> QED
  BY <1>1, ReadersInvariant, PTL
=============================================================================
