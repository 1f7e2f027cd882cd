----------------------- MODULE RepositoryConfigProofs -----------------------
(***************************************************************************)
(* Proofs about the repository configuration, for any set of invocations   *)
(* and passphrases: the inductive invariant ConfigInv, and that neither a  *)
(* race to create a repository nor a rotation changes its storage policy.  *)
(***************************************************************************)
EXTENDS RepositoryConfig, TLAPS

LEMMA InitConfigInv == Init => ConfigInv
<1> SUFFICES ASSUME Init PROVE ConfigInv
  OBVIOUS
<1> USE ConfigAssumption, NoConfigAssumption
<1>1. TypeOK
  BY DEF Init, TypeOK, Lock!Init, Locations, Unopened
<1> QED
  BY <1>1 DEF Init, ConfigInv, HandlesAgree, ConfigExists, RotatesUnderLock, ReplacesWhatItRead,
     RotationHolds, WantsWhatWasAsked, PolicyAsAsked, Opened, Lock!Init, TypeOK

(* The part of ConfigInv that is about one invocation. *)
One(q) ==
    /\ pc[q] \in Opened =>
         /\ config # NoConfig
         /\ handle[q].compression = config.compression
         /\ handle[q].key = config.key
         /\ asked[q] \in {"any", handle[q].compression}
         /\ encrypt[q] => handle[q].key # NoKey
    /\ pc[q] = "reget" => config # NoConfig
    /\ pc[q] \in {"read", "replace", "rename", "unlock"} => writer = q
    /\ writer = q => q \notin past
    /\ pc[q] \in {"replace", "rename"} => seen[q] = config
    /\ pc[q] = "unlock" => config.pass = newPass[q] /\ config.by = q
    /\ asked[q] \in {"any", want[q]}
    /\ pc[q] = "put" => want[q] \in Compressions

(* ConfigInv, taken apart by invocation, in this state and in the next.    *)
LEMMA InvByInvocation == ConfigInv <=> TypeOK /\ \A q \in Procs : One(q)
BY DEF ConfigInv, One, HandlesAgree, ConfigExists, RotatesUnderLock, ReplacesWhatItRead,
   RotationHolds, WantsWhatWasAsked, PolicyAsAsked

LEMMA InvByInvocationNext == ConfigInv' <=> TypeOK' /\ \A q \in Procs : One(q)'
BY DEF ConfigInv, One, HandlesAgree, ConfigExists, RotatesUnderLock, ReplacesWhatItRead,
   RotationHolds, WantsWhatWasAsked, PolicyAsAsked

(* What a step of p leaves as it is for the other invocations. *)
OthersKeep(p) ==
    \A q \in Procs \ {p} :
        /\ pc'[q] = pc[q] /\ handle'[q] = handle[q] /\ seen'[q] = seen[q]
        /\ want'[q] = want[q]

(* Opening: the first configuration is created where there is none, and    *)
(* every other handle is a copy of the configuration that was validated.   *)
LEMMA StepOpen ==
    ASSUME ConfigInv, NEW p \in Procs, OpenStep(p), UNCHANGED backend
    PROVE  ConfigInv'
<1> USE ConfigAssumption, NoConfigAssumption
<1>0. TypeOK /\ \A q \in Procs : One(q)
  BY InvByInvocation
<1>1. TypeOK'
  <2>1. CASE Get(p)
    BY <1>0, <2>1 DEF TypeOK, Get, Validate, Open, Goto, lock, options, Opened, Locations, Configs
  <2>2. CASE Put(p)
    <3>1. pc[p] = "put" /\ want[p] \in Compressions
      BY <1>0, <2>2 DEF Put, One
    <3>2. Fresh(p) \in Configs
      BY <1>0, <3>1 DEF Fresh, Configs, TypeOK
    <3> QED
      BY <1>0, <2>2, <3>2 DEF TypeOK, Put, Open, Goto, lock, options, Opened, Locations, Configs
  <2>3. CASE Reget(p)
    <3>1. config \in Configs
      BY <1>0, <2>3 DEF Reget, One, TypeOK
    <3>2. \/ Goto(p, "otherCompression") /\ UNCHANGED handle
          \/ Goto(p, "refused") /\ UNCHANGED handle
          \/ Open(p, config)
      BY <2>3 DEF Reget, Validate
    <3>3. handle' \in [Procs -> [compression : Compressions, key : Procs \union {NoKey}]]
      BY <1>0, <3>1, <3>2 DEF TypeOK, Open, Configs
    <3>4. pc' \in [Procs -> Locations]
      BY <1>0, <3>2 DEF TypeOK, Open, Goto, Opened, Locations
    <3> QED
      BY <1>0, <2>3, <3>3, <3>4 DEF TypeOK, Reget, lock, options
  <2> QED
    BY <2>1, <2>2, <2>3 DEF OpenStep
<1>2. /\ OthersKeep(p)
      /\ UNCHANGED <<writer, past, asked, encrypt, newPass>>
  BY <1>0 DEF OpenStep, Get, Put, Reget, Validate, Open, Goto, lock, options, TypeOK, OthersKeep
<1>3. config' = config \/ (config = NoConfig /\ config' \in Configs)
  <2>1. CASE Put(p)
    <3>1. Fresh(p) \in Configs
      BY <1>0, <2>1 DEF Put, One, Fresh, Configs, TypeOK
    <3> QED
      BY <2>1, <3>1 DEF Put
  <2> QED
    BY <2>1 DEF OpenStep, Get, Reget
<1>4. ASSUME NEW q \in Procs, q # p PROVE One(q)'
  <2>1. CASE config' = config
    BY <1>0, <1>2, <1>4, <2>1 DEF One, OthersKeep
  <2>2. CASE config = NoConfig /\ config' \in Configs
    BY <1>0, <1>2, <1>4, <2>2 DEF One, OthersKeep, Opened
  <2> QED
    BY <1>3, <2>1, <2>2
<1>5. One(p)'
  <2>1. CASE Get(p)
    BY <1>0, <1>1, <1>2, <2>1 DEF One, Get, Validate, Open, Goto, TypeOK, Opened, Configs
  <2>2. CASE Put(p)
    <3>1. pc[p] = "put" /\ want[p] \in Compressions /\ Fresh(p) \in Configs
      BY <1>0, <2>2 DEF Put, One, Fresh, Configs, TypeOK
    <3>2. Fresh(p).compression = want[p] /\ (encrypt[p] => Fresh(p).key # NoKey)
      BY DEF Fresh
    <3> QED
      BY <1>0, <1>1, <1>2, <2>2, <3>1, <3>2 DEF One, Put, Open, Goto, TypeOK, Opened
  <2>3. CASE Reget(p)
    BY <1>0, <1>1, <1>2, <2>3 DEF One, Reget, Validate, Open, Goto, TypeOK, Opened, Configs
  <2> QED
    BY <2>1, <2>2, <2>3 DEF OpenStep
<1>6. \A q \in Procs : One(q)'
  BY <1>4, <1>5
<1> QED
  BY <1>1, <1>6, InvByInvocationNext

(* Rotating: only the writer of the lock replaces the configuration, by    *)
(* one with the policy and the data key of its own handle.                 *)
LEMMA StepRotate ==
    ASSUME ConfigInv, NEW p \in Procs, RotateStep(p), UNCHANGED backend
    PROVE  ConfigInv'
<1> USE ConfigAssumption, NoConfigAssumption
<1>0. TypeOK /\ \A q \in Procs : One(q)
  BY InvByInvocation
<1>1. /\ OthersKeep(p)
      /\ UNCHANGED <<asked, want, encrypt, pass, newPass, handle>>
  BY <1>0 DEF RotateStep, StartRotation, ReadVersion, Replace, Rename, Unlock, Rewrap, Goto, options,
     TypeOK, OthersKeep
<1>2. CASE StartRotation(p)
  <2>1. TypeOK'
    BY <1>0, <1>2 DEF TypeOK, StartRotation, Goto, lock, options, Lock!Enter, Lock!GiveUp, Locations, Opened
  <2>2. One(p)'
    BY <1>0, <1>1, <1>2 DEF TypeOK, One, StartRotation, Goto, Lock!Enter, Lock!GiveUp, Opened
  <2>3. ASSUME NEW q \in Procs, q # p PROVE One(q)'
    BY <1>0, <1>1, <1>2, <2>3 DEF One, OthersKeep, StartRotation, Lock!Enter, Lock!GiveUp
  <2> QED
    BY <2>1, <2>2, <2>3, InvByInvocationNext
<1>3. CASE ReadVersion(p)
  <2>1. TypeOK'
    BY <1>0, <1>3 DEF TypeOK, ReadVersion, Goto, lock, options, Locations, Opened
  <2>2. One(p)'
    BY <1>0, <1>1, <1>3 DEF TypeOK, One, ReadVersion, Goto, lock, Opened
  <2>3. ASSUME NEW q \in Procs, q # p PROVE One(q)'
    BY <1>0, <1>1, <1>3, <2>3 DEF One, OthersKeep, ReadVersion, lock
  <2> QED
    BY <2>1, <2>2, <2>3, InvByInvocationNext
<1>4. CASE Replace(p) \/ Rename(p)
  <2>1. /\ pc[p] \in {"replace", "rename"} /\ UNCHANGED <<writer, past, seen>>
        /\ \/ /\ config' = Rewrapped(p)
              /\ pc' = [pc EXCEPT ![p] = "unlock"] \/ pc' = [pc EXCEPT ![p] = "failed"]
           \/ /\ config' = config
              /\ \/ pc' = [pc EXCEPT ![p] = "rename"] /\ config = seen[p]
                 \/ pc' = [pc EXCEPT ![p] = "failed"]
    BY <1>4 DEF Replace, Rename, Rewrap, Goto, lock
  <2>2. /\ config # NoConfig /\ config \in Configs /\ writer = p
        /\ Rewrapped(p) \in Configs
        /\ Rewrapped(p).compression = config.compression /\ Rewrapped(p).key = config.key
        /\ Rewrapped(p).pass = newPass[p] /\ Rewrapped(p).by = p
    BY <1>0, <2>1 DEF One, TypeOK, Opened, Rewrapped, Configs
  <2>3. TypeOK'
    BY <1>0, <1>1, <2>1, <2>2 DEF TypeOK, Locations, Opened
  <2>4. One(p)'
    BY <1>0, <1>1, <2>1, <2>2 DEF TypeOK, One, Opened
  <2>5. ASSUME NEW q \in Procs, q # p PROVE One(q)'
    <3>1. pc[q] \notin {"read", "replace", "rename", "unlock"}
      BY <1>0, <2>2, <2>5 DEF One
    <3> QED
      BY <1>0, <1>1, <2>1, <2>2, <2>5, <3>1 DEF One, OthersKeep, Opened
  <2> QED
    BY <2>3, <2>4, <2>5, InvByInvocationNext
<1>5. CASE Unlock(p)
  <2>1. TypeOK'
    BY <1>0, <1>5 DEF TypeOK, Unlock, Goto, options, Lock!Leave, Locations, Opened
  <2>2. One(p)'
    BY <1>0, <1>1, <1>5 DEF TypeOK, One, Unlock, Goto, Lock!Leave, Opened
  <2>3. ASSUME NEW q \in Procs, q # p PROVE One(q)'
    BY <1>0, <1>1, <1>5, <2>3 DEF One, OthersKeep, Unlock, Lock!Leave
  <2> QED
    BY <2>1, <2>2, <2>3, InvByInvocationNext
<1> QED
  BY <1>2, <1>3, <1>4, <1>5 DEF RotateStep

LEMMA StepCrash ==
    ASSUME ConfigInv, NEW p \in Procs, Crash(p), UNCHANGED backend
    PROVE  ConfigInv'
<1> USE ConfigAssumption, NoConfigAssumption
<1>0. TypeOK /\ \A q \in Procs : One(q)
  BY InvByInvocation
<1>1. TypeOK'
  BY <1>0 DEF Crash, TypeOK, Goto, lock, options, Lock!Leave, Lock!GiveUp, Locations
<1>2. One(p)'
  BY <1>0 DEF Crash, TypeOK, One, Goto, lock, options, Lock!Leave, Lock!GiveUp, Opened
<1>3. ASSUME NEW q \in Procs, q # p PROVE One(q)'
  BY <1>0, <1>3 DEF Crash, TypeOK, One, Goto, lock, options, Lock!Leave, Lock!GiveUp
<1> QED
  BY <1>1, <1>2, <1>3, InvByInvocationNext

LEMMA StepConfigInv == ConfigInv /\ [Next]_vars => ConfigInv'
<1> SUFFICES ASSUME ConfigInv, [Next]_vars PROVE ConfigInv'
  OBVIOUS
<1>1. CASE UNCHANGED vars
  BY <1>1 DEF ConfigInv, TypeOK, HandlesAgree, ConfigExists, RotatesUnderLock, ReplacesWhatItRead,
     RotationHolds, WantsWhatWasAsked, PolicyAsAsked, vars, lock, options
<1> QED
  BY <1>1, StepOpen, StepRotate, StepCrash DEF Next

(* The invariant ConfigInv of the configuration holds at any time.         *)
THEOREM ConfigInvariant == Spec => []ConfigInv
BY InitConfigInv, StepConfigInv, PTL DEF Spec

(* Every open repository has the data key and the compression of the       *)
(* configuration in the store, whatever races and rotations there were.    *)
THEOREM HandlesAlwaysAgree == Spec => []HandlesAgree
<1>1. ConfigInv => HandlesAgree
  BY DEF ConfigInv
<1> QED
  BY <1>1, ConfigInvariant, PTL

(* An invocation that opens the repository gets the policy it asked for.   *)
THEOREM PolicyAlwaysAsAsked == Spec => []PolicyAsAsked
<1>1. ConfigInv => PolicyAsAsked
  BY DEF ConfigInv
<1> QED
  BY <1>1, ConfigInvariant, PTL

(* When a rotation is about to report success, the configuration in the    *)
(* store is the one it wrote, under its new passphrase.                    *)
THEOREM RotationAlwaysHolds == Spec => []RotationHolds
<1>1. ConfigInv => RotationHolds
  BY DEF ConfigInv
<1> QED
  BY <1>1, ConfigInvariant, PTL

(* The storage policy and the data key, once there, never change.          *)
THEOREM PolicyStaysImmutable == Spec => PolicyImmutable
<1> DEFINE Same == config # NoConfig =>
                     /\ config' # NoConfig
                     /\ config'.compression = config.compression
                     /\ config'.key = config.key
<1>1. ConfigInv /\ [Next]_vars => [Same]_vars
  <2> SUFFICES ASSUME ConfigInv, Next PROVE Same
    BY DEF vars
  <2>1. CASE UNCHANGED config
    BY <2>1
  <2>2. ASSUME NEW p \in Procs, OpenStep(p) PROVE Same
    BY <2>1, <2>2 DEF OpenStep, Get, Put, Reget
  <2>3. ASSUME NEW p \in Procs, RotateStep(p) PROVE Same
    <3>1. UNCHANGED config \/ (config' = Rewrapped(p) /\ pc[p] \in {"replace", "rename"})
      BY <2>3 DEF RotateStep, StartRotation, ReadVersion, Replace, Rename, Unlock, Rewrap
    <3>2. ASSUME config' = Rewrapped(p), pc[p] \in {"replace", "rename"} PROVE Same
      <4>1. Rewrapped(p) \in Configs
        BY ConfigAssumption DEF ConfigInv, TypeOK, Rewrapped, Configs
      <4> QED
        BY <3>2, <4>1, NoConfigAssumption DEF ConfigInv, HandlesAgree, Opened, Rewrapped
    <3> QED
      BY <2>1, <3>1, <3>2
  <2>4. ASSUME NEW p \in Procs, Crash(p) PROVE Same
    BY <2>1, <2>4 DEF Crash
  <2> QED
    BY <2>2, <2>3, <2>4 DEF Next
<1> QED
  BY <1>1, ConfigInvariant, PTL DEF Spec, PolicyImmutable
=============================================================================
