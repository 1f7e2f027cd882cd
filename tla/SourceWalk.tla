----------------------------- MODULE SourceWalk -----------------------------
(***************************************************************************)
(* The walk with which BackupWithOptions begins: it visits the names of    *)
(* the source tree in order and makes a job of every regular file that     *)
(* the filter includes, except that a name whose file it has met already   *)
(* becomes a hard link to the name it met first.  It recognises a file by  *)
(* hardLinkKey, which is all that lstat tells: inode, size and times, the  *)
(* access time too.  Files change and are touched while the walk goes on.  *)
(*                                                                         *)
(* The version of a file stands for its size and modification time, which  *)
(* tell any two versions of it apart.                                      *)
(***************************************************************************)
EXTENDS Naturals, Sequences, FiniteSets

CONSTANTS
    NameCount,      \* the names in the source tree
    MaxOthers,      \* bound on the names that are not the first of a file to back up
    MaxChanges,     \* bound on the writes to the files, and on the touches
    SourceErrors    \* may reading the source fail?

ASSUME SourceAssumption ==
    /\ {NameCount, MaxOthers, MaxChanges} \subseteq Nat
    /\ SourceErrors \in BOOLEAN

VARIABLES
    kind,         \* "file"; "other": a directory, a symbolic link or a name
                  \*   that is filtered out; "odd": a device, a socket
    inode,        \* the file of a name, known by the first of its names
    version, touches, \* of each file
    visited,      \* how many names have been visited
    walked,       \* the stat of each name when it was visited
    hardlinks,    \* the keys met, with the name each was met first at
    linkTo,       \* the name a hard link entry refers to
    jobs,         \* the names to back up, in order
    walk          \* "going", "done" or "failed"

tree == <<kind, inode>>
source == <<tree, version, touches>>
walkVars == <<visited, walked, hardlinks, linkTo, jobs, walk>>

Names == 1..NameCount
NoName == 0
Versions == 0..MaxChanges
NotVisited == [inode |-> NoName, version |-> 0, touches |-> 0]

Stat(n) == [inode |-> inode[n], version |-> version[inode[n]], touches |-> touches[inode[n]]]

(* Mutant of HardLinkKey: size and time only. *)
SizeAndTime(stat) == [version |-> stat.version]

HardLinkKey(stat) == stat

WalkTypeOK ==
    /\ kind \in [Names -> {"file", "other", "odd"}] /\ inode \in [Names -> Names]
    /\ version \in [Names -> Versions] /\ touches \in [Names -> Versions]
    /\ visited \in 0..NameCount
    /\ walked \in [Names -> [inode : Names \union {NoName}, version : Versions, touches : Versions]]
    /\ \A h \in hardlinks : h.first \in Names
    /\ linkTo \in [Names -> Names \union {NoName}]
    /\ jobs \in Seq(Names) /\ walk \in {"going", "done", "failed"}

(* Any tree of so many names *)
WalkInit ==
    /\ inode \in {f \in [Names -> Names] : \A n \in Names : f[n] <= n /\ f[f[n]] = f[n]}
    /\ kind \in [Names -> {"file", "other", "odd"}]
    /\ Cardinality({n \in Names : kind[n] # "file" \/ inode[n] # n}) <= MaxOthers
    /\ \A n \in Names : kind[n] # "file" => \A m \in Names \ {n} : inode[m] # inode[n]
    /\ version = [n \in Names |-> 0] /\ touches = [n \in Names |-> 0]
    /\ visited = 0 /\ walked = [n \in Names |-> NotVisited]
    /\ hardlinks = {} /\ linkTo = [n \in Names |-> NoName]
    /\ jobs = <<>> /\ walk = "going"

(* The world writes to a file, at a new time, or touches it: its access    *)
(* time changes.  What happens to a file before the walk has come to one   *)
(* of its names might as well have happened before the walk, and a touch   *)
(* matters only as long as the walk will come to another of its names.     *)
Fresh(t) == \A m \in Names : version[m] < t /\ touches[m] < t

Change(n) ==
    /\ n \in {inode[m] : m \in 1..visited}
    /\ \E t \in 1..MaxChanges :
        /\ Fresh(t)
        /\ version' = [version EXCEPT ![n] = t]
    /\ UNCHANGED <<tree, touches, walkVars>>

Touch(n) ==
    /\ n \in {inode[m] : m \in 1..visited} \intersect {inode[m] : m \in visited + 1..NameCount}
    /\ \E t \in 1..MaxChanges :
        /\ Fresh(t)
        /\ touches' = [touches EXCEPT ![n] = t]
    /\ UNCHANGED <<tree, version, walkVars>>

-----------------------------------------------------------------------------
(* One name after the other *)

Here == visited + 1

Visit(what) ==
    /\ walk = "going" /\ visited < NameCount
    /\ kind[Here] = what
    /\ visited' = Here /\ walked' = [walked EXCEPT ![Here] = Stat(Here)]
    /\ UNCHANGED <<source, walk>>

Met == {h \in hardlinks : h.key = HardLinkKey(Stat(Here))}

(* A directory or a symbolic link is recorded as it is; what the filter    *)
(* leaves out is not, nor looked at any further.                           *)
VisitOther == Visit("other") /\ UNCHANGED <<hardlinks, linkTo, jobs>>

VisitAlias ==
    /\ Visit("file")
    /\ \E h \in Met : linkTo' = [linkTo EXCEPT ![Here] = h.first]
    /\ UNCHANGED <<hardlinks, jobs>>

(* Mutant of VisitFile: only the last file met is remembered. *)
VisitFileForgets ==
    /\ Visit("file") /\ Met = {}
    /\ hardlinks' = {[key |-> HardLinkKey(Stat(Here)), first |-> Here]}
    /\ jobs' = Append(jobs, Here)
    /\ UNCHANGED linkTo

VisitFile ==
    /\ Visit("file") /\ Met = {}
    /\ hardlinks' = hardlinks \union {[key |-> HardLinkKey(Stat(Here)), first |-> Here]}
    /\ jobs' = Append(jobs, Here)
    /\ UNCHANGED linkTo

(* A name that cannot be read, or is nothing that can be backed up *)
WalkFails ==
    /\ walk = "going" /\ visited < NameCount
    /\ SourceErrors \/ kind[Here] = "odd"
    /\ walk' = "failed"
    /\ UNCHANGED <<source, visited, walked, hardlinks, linkTo, jobs>>

(* The map of hard links is dropped; of the stats that the jobs keep only  *)
(* size and modification time are read from now on, so the model forgets   *)
(* the touches.                                                            *)
WalkEnds ==
    /\ walk = "going" /\ visited = NameCount
    /\ walk' = "done" /\ hardlinks' = {}
    /\ touches' = [n \in Names |-> 0]
    /\ walked' = [n \in Names |-> [walked[n] EXCEPT !.touches = 0]]
    /\ UNCHANGED <<tree, version, visited, linkTo, jobs>>

WalkStep == VisitOther \/ VisitAlias \/ VisitFile \/ WalkFails \/ WalkEnds

-----------------------------------------------------------------------------
(* Correctness *)

(* A file with several names that nothing touched between the visits of    *)
(* them is backed up once: its other names become hard links to the first. *)
AliasesStoredOnce ==
    walk = "going" => \A i, j \in DOMAIN jobs :
        walked[jobs[i]] = walked[jobs[j]] => i = j
=============================================================================
