-------------------------- MODULE RepositoryConfig --------------------------
(***************************************************************************)
(* The repository configuration, the object "config.json": invocations     *)
(* that open a repository at the same time, the first of which creates it  *)
(* (ensureConfig), and rotations of its passphrase (RotatePassphrase).     *)
(*                                                                         *)
(* A data key stands for the invocation that generated it.  A configura-   *)
(* tion is its compression, its data key, the passphrase that key is       *)
(* wrapped with, and the invocation that wrote it: the salt, and with it   *)
(* the content and the object version, is new with every write.  The       *)
(* writer lock is what it promises to be, an ExclusiveWriter.              *)
(***************************************************************************)
CONSTANTS
    Procs,           \* invocations
    Nobody,
    Passphrases,     \* one of them may be NoPass, which stands for ""
    NoPass,
    Compressions,    \* "none" is one of them
    NoKey,           \* the data key of an unencrypted repository
    NoConfig,        \* there is no config.json
    StoreFaults      \* may a store request fail?

ASSUME ConfigAssumption ==
    /\ Nobody \notin Procs /\ NoKey \notin Procs
    /\ "none" \in Compressions /\ "any" \notin Compressions
    /\ NoPass \in Passphrases
    /\ StoreFaults \in BOOLEAN

(* "none" is what an early repository without the field has. *)
Configs == [compression : Compressions, key : Procs \union {NoKey},
            pass : Passphrases, by : Procs]

ASSUME NoConfigAssumption == NoConfig \notin Configs

VARIABLES
    backend,    \* the store's: "local" or "s3"
    config,     \* config.json
    writer,     \* the invocation with the writer lock
    past,       \* those that have had it, or will not have it
    pc,         \* where each invocation is
    asked,      \* the compression it was asked for; "any" stands for ""
    want,       \* options.Compression as ensureConfig changes it
    encrypt,    \* does it ask for encryption?
    pass,       \* the passphrase it was given
    newPass,    \* the passphrase it rotates to
    handle,     \* its r.config and r.key
    seen        \* the configuration whose version it holds

lock == <<writer, past>>
options == <<asked, encrypt, pass, newPass>>
vars == <<backend, config, lock, pc, want, options, handle, seen>>

Lock == INSTANCE ExclusiveWriter

Opened == {"open", "read", "replace", "rename", "unlock", "rotated", "failed"}
Locations == {"start", "put", "reget", "refused", "otherCompression", "crashed"} \union Opened
Unopened == [compression |-> "none", key |-> NoKey]

TypeOK ==
    /\ backend \in {"local", "s3"}
    /\ config \in Configs \union {NoConfig}
    /\ writer \in Procs \union {Nobody} /\ past \subseteq Procs
    /\ pc \in [Procs -> Locations]
    /\ asked \in [Procs -> Compressions \union {"any"}]
    /\ want \in [Procs -> Compressions \union {"any"}]
    /\ encrypt \in [Procs -> BOOLEAN]
    /\ pass \in [Procs -> Passphrases] /\ newPass \in [Procs -> Passphrases]
    /\ handle \in [Procs -> [compression : Compressions, key : Procs \union {NoKey}]]
    /\ seen \in [Procs -> Configs \union {NoConfig}]

Init ==
    /\ backend \in {"local", "s3"}
    /\ config = NoConfig
    /\ Lock!Init
    /\ pc = [p \in Procs |-> "start"]
    /\ asked \in [Procs -> Compressions \union {"any"}]
    /\ want = asked
    /\ encrypt \in [Procs -> BOOLEAN]
    /\ pass \in [Procs -> Passphrases] /\ newPass \in [Procs -> Passphrases]
    /\ handle = [p \in Procs |-> Unopened]
    /\ seen = [p \in Procs |-> NoConfig]

Goto(p, loc) == pc' = [pc EXCEPT ![p] = loc]

-----------------------------------------------------------------------------
(* OpenWithOptions: ensureConfig *)

(* The configuration that p creates. *)
Fresh(p) ==
    [compression |-> want[p], key |-> IF encrypt[p] THEN p ELSE NoKey,
     pass |-> IF encrypt[p] THEN pass[p] ELSE NoPass, by |-> p]

Open(p, c) ==
    /\ handle' = [handle EXCEPT ![p] = [compression |-> c.compression, key |-> c.key]]
    /\ Goto(p, "open")

(* Validation of a configuration that exists, and openEncryption *)
Validate(p, c) ==
    IF want[p] \notin {"any", c.compression}
    THEN Goto(p, "otherCompression") /\ UNCHANGED handle
    ELSE IF \/ encrypt[p] /\ c.key = NoKey
            \/ c.key # NoKey /\ (pass[p] = NoPass \/ pass[p] # c.pass)
         THEN Goto(p, "refused") /\ UNCHANGED handle
         ELSE Open(p, c)

Get(p) ==
    /\ pc[p] = "start"
    /\ \/ /\ config = NoConfig
          /\ Goto(p, IF encrypt[p] /\ pass[p] = NoPass THEN "refused" ELSE "put")
          /\ want' = [want EXCEPT ![p] = IF @ = "any" THEN "none" ELSE @]
          /\ UNCHANGED handle
       \/ config # NoConfig /\ Validate(p, config) /\ UNCHANGED want
       \/ StoreFaults /\ Goto(p, "refused") /\ UNCHANGED <<handle, want>>
    /\ UNCHANGED <<config, lock, options, seen>>

(* Mutant of Put: the loser of the race keeps its own key. *)
PutLoserKeepsKey(p) ==
    /\ pc[p] = "put"
    /\ config' = IF config = NoConfig THEN Fresh(p) ELSE config
    /\ Open(p, [config' EXCEPT !.key = IF encrypt[p] THEN p ELSE NoKey])
    /\ UNCHANGED <<lock, want, options, seen>>

(* PutIfAbsent of the new configuration *)
Put(p) ==
    /\ pc[p] = "put"
    /\ \/ config = NoConfig /\ config' = Fresh(p) /\ Open(p, Fresh(p))
       \/ config # NoConfig /\ Goto(p, "reget") /\ UNCHANGED <<config, handle>>
       \/ StoreFaults /\ Goto(p, "refused") /\ UNCHANGED <<config, handle>>
       \/ /\ StoreFaults /\ backend = "s3" /\ config = NoConfig
          /\ config' = Fresh(p)
          /\ Goto(p, "reget") \/ Goto(p, "refused")
          /\ UNCHANGED handle
    /\ UNCHANGED <<lock, want, options, seen>>

(* Mutant of Reget: the policy is not validated again. *)
RegetTrusts(p) ==
    /\ pc[p] = "reget"
    /\ Open(p, config)
    /\ UNCHANGED <<config, lock, want, options, seen>>

(* Another invocation created the configuration: it is read and validated. *)
Reget(p) ==
    /\ pc[p] = "reget"
    /\ \/ Validate(p, config)
       \/ StoreFaults /\ Goto(p, "refused") /\ UNCHANGED handle
    /\ UNCHANGED <<config, lock, want, options, seen>>

-----------------------------------------------------------------------------
(* RotatePassphrase *)

Rewrapped(p) ==
    [compression |-> handle[p].compression, key |-> handle[p].key,
     pass |-> newPass[p], by |-> p]

(* Mutant of StartRotation: it does not take the lock. *)
StartRotationUnlocked(p) ==
    /\ pc[p] = "open"
    /\ handle[p].key # NoKey /\ newPass[p] # NoPass
    /\ Goto(p, "read")
    /\ UNCHANGED <<config, lock, want, options, handle, seen>>

(* The lock is taken, or is another writer's. *)
StartRotation(p) ==
    /\ pc[p] = "open"
    /\ handle[p].key # NoKey /\ newPass[p] # NoPass
    /\ \/ Lock!Enter(p) /\ Goto(p, "read")
       \/ Lock!GiveUp(p) /\ Goto(p, "failed")
    /\ UNCHANGED <<config, want, options, handle, seen>>

ReadVersion(p) ==
    /\ pc[p] = "read"
    /\ \/ seen' = [seen EXCEPT ![p] = config] /\ Goto(p, "replace")
       \/ StoreFaults /\ Goto(p, "failed") /\ UNCHANGED seen
    /\ UNCHANGED <<config, lock, want, options, handle>>

Rewrap(p) == config' = Rewrapped(p) /\ Goto(p, "unlock")

(* ReplaceIfVersion: one request on S3, a comparison on a local directory *)
Replace(p) ==
    /\ pc[p] = "replace"
    /\ \/ backend = "s3" /\ config = seen[p] /\ Rewrap(p)
       \/ backend = "local" /\ config = seen[p] /\ Goto(p, "rename") /\ UNCHANGED config
       \/ (config # seen[p] \/ StoreFaults) /\ Goto(p, "failed") /\ UNCHANGED config
       \/ /\ StoreFaults /\ backend = "s3" /\ config = seen[p]
          /\ config' = Rewrapped(p) /\ Goto(p, "failed")
    /\ UNCHANGED <<lock, want, options, handle, seen>>

(* writeAtomic renames a temporary file over the configuration. *)
Rename(p) ==
    /\ pc[p] = "rename"
    /\ \/ Rewrap(p)
       \/ StoreFaults /\ Goto(p, "failed") /\ UNCHANGED config
    /\ UNCHANGED <<lock, want, options, handle, seen>>

(* The deferred release *)
Unlock(p) ==
    /\ pc[p] \in {"unlock", "failed"} /\ writer = p
    /\ Lock!Leave(p)
    /\ Goto(p, IF pc[p] = "unlock" THEN "rotated" ELSE "failed")
    /\ UNCHANGED <<config, want, options, handle, seen>>

-----------------------------------------------------------------------------
(* The process dies; a recovery of its lock comes later, if at all. *)
Crash(p) ==
    /\ pc[p] \notin {"start", "refused", "otherCompression", "rotated", "crashed"}
    /\ Goto(p, "crashed")
    /\ \/ Lock!Leave(p) \/ Lock!GiveUp(p)
       \/ writer # p /\ p \in past /\ UNCHANGED lock
    /\ UNCHANGED <<config, want, options, handle, seen>>

OpenStep(p) == Get(p) \/ Put(p) \/ Reget(p)

RotateStep(p) ==
    StartRotation(p) \/ ReadVersion(p) \/ Replace(p) \/ Rename(p) \/ Unlock(p)

Next ==
    /\ \E p \in Procs : OpenStep(p) \/ RotateStep(p) \/ Crash(p)
    /\ UNCHANGED backend

Spec == Init /\ [][Next]_vars

-----------------------------------------------------------------------------
(* Correctness *)

(* Every open repository works with the data key and the compression of    *)
(* the configuration in the store, whoever created it and however often    *)
(* its passphrase was rotated: what one invocation writes another reads.   *)
HandlesAgree ==
    \A p \in Procs : pc[p] \in Opened =>
        /\ config # NoConfig
        /\ handle[p].compression = config.compression
        /\ handle[p].key = config.key

(* The storage policy is immutable, and a rotation "changes that wrapper   *)
(* only".                                                                  *)
PolicyImmutable ==
    [][config # NoConfig =>
        /\ config' # NoConfig
        /\ config'.compression = config.compression
        /\ config'.key = config.key]_vars

(* A rotation replaces the configuration whose version it has read, though *)
(* the comparison and the rename of a local replace are two steps.         *)
ReplacesWhatItRead ==
    \A p \in Procs : pc[p] \in {"replace", "rename"} => seen[p] = config

(* When a rotation is about to report success, the new passphrase, and no  *)
(* other, opens the repository.                                            *)
RotationHolds ==
    \A p \in Procs : pc[p] = "unlock" => config.pass = newPass[p] /\ config.by = p

(* An invocation that opens the repository gets what it asked for, also    *)
(* when another one created it in between.                                 *)
PolicyAsAsked ==
    \A p \in Procs : pc[p] \in Opened =>
        /\ asked[p] \in {"any", handle[p].compression}
        /\ encrypt[p] => handle[p].key # NoKey

(* The strengthening of HandlesAgree, ReplacesWhatItRead and the others    *)
(* that every step preserves.                                              *)
ConfigExists == \A p \in Procs : pc[p] = "reget" => config # NoConfig

RotatesUnderLock ==
    \A p \in Procs :
        /\ pc[p] \in {"read", "replace", "rename", "unlock"} => writer = p
        /\ writer = p => p \notin past

WantsWhatWasAsked ==
    \A p \in Procs :
        /\ asked[p] \in {"any", want[p]}
        /\ pc[p] = "put" => want[p] \in Compressions

ConfigInv ==
    /\ TypeOK /\ HandlesAgree /\ ConfigExists /\ RotatesUnderLock
    /\ ReplacesWhatItRead /\ RotationHolds /\ WantsWhatWasAsked /\ PolicyAsAsked
=============================================================================
