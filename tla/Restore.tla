------------------------------ MODULE Restore ------------------------------
(***************************************************************************)
(* RestoreWithOptions: the entries of a manifest are restored into a       *)
(* destination directory, one by one, in the order of the manifest; with   *)
(* --overwrite the destination may hold older files, which are replaced.   *)
(*                                                                         *)
(* What the manifest says comes from the walk of the source tree: of the   *)
(* names of one inode, the first the walk meets is a "file" entry and the  *)
(* others are "hardlink" entries that name it.  The walk goes through each *)
(* directory in name order; the manifest is sorted by whole paths.  The    *)
(* two orders differ when a name continues that of a directory with a      *)
(* character below "/": the walk meets a/z before a.txt, and a.txt sorts   *)
(* before a/z.                                                             *)
(*                                                                         *)
(* A name in the destination is bound to a node: <<"old", p>> is what p    *)
(* was bound to before, <<"new", p>> what the restore creates for the      *)
(* entry p.  Directories are one level deep.                               *)
(***************************************************************************)
EXTENDS Naturals, Sequences, FiniteSets

CONSTANTS
    Dirs,            \* the directories of the snapshot
    Paths,           \* its files, hard links and symbolic links
    Top,             \* the root of the tree
    DirOf,           \* the directory each of Paths is in
    WalkOrder,       \* Dirs and Paths in the order of the walk
    SortOrder,       \* Dirs and Paths in the order of the manifest
    Absent,          \* no node; no path
    Chunks           \* the number of chunks of a file

Entries == Dirs \union Paths

Nodes == {"old", "new"} \X Paths
Modes == {"rw", "ro"}

Orders(seq) == Len(seq) = Cardinality(Entries) /\ {seq[i] : i \in 1..Len(seq)} = Entries

ASSUME RestoreAssumption ==
    /\ IsFiniteSet(Entries) /\ Dirs \intersect Paths = {}
    /\ Top \notin Dirs /\ Absent \notin Entries \union Nodes \union Modes
    /\ DirOf \in [Paths -> Dirs \union {Top}]
    /\ {WalkOrder, SortOrder} \subseteq Seq(Entries)
    /\ Orders(WalkOrder) /\ Orders(SortOrder)
    /\ \A order \in {WalkOrder, SortOrder} : \A i, j \in 1..Len(order) :
         order[i] \in Paths /\ order[j] \in Dirs /\ DirOf[order[i]] = order[j] => j < i
    /\ Chunks \in Nat

VARIABLES
    options,    \* --overwrite, --clean-destination, --include; is the user root?
    inode,      \* the inode of each name of the source, by its first name
    symlinks,   \* the names that are symbolic links
    mode,       \* the mode of each directory of the source
    selected,   \* the paths the --include patterns select
    existed,    \* the paths the destination had at the start
    names,      \* what each path of the destination is bound to
    written,    \* the chunks written to each new node
    dirs,       \* the directories of the destination
    stamped,    \* those with the recorded mode and modification time
    temp,       \* the path a temporary file in the destination is for
    at,         \* the place in the manifest
    pc,         \* what the restore is doing
    faults      \* the kinds of fault it has met

given == <<options, inode, symlinks, mode, selected, existed>>
vars == <<given, names, written, dirs, stamped, temp, at, pc, faults>>

Over == {"done", "failed", "crashed"}
Faults == {"read", "write", "rename"}

(* --clean-destination without --overwrite is refused. *)
Options == {o \in [overwrite : BOOLEAN, clean : BOOLEAN, include : BOOLEAN, root : BOOLEAN] :
              o.clean => o.overwrite}

TypeOK ==
    /\ options \in Options
    /\ inode \in [Paths -> Paths]
    /\ symlinks \subseteq Paths
    /\ mode \in [Dirs -> Modes]
    /\ selected \subseteq Paths /\ existed \subseteq Paths
    /\ names \in [Paths -> Nodes \union {Absent}]
    /\ written \in [Paths -> 0..Chunks]
    /\ dirs \in [Dirs -> Modes \union {Absent}]
    /\ stamped \subseteq Dirs
    /\ temp \in Paths \union {Absent}
    /\ at \in 0..(Len(SortOrder) + 1)
    /\ pc \in {"clean", "entry", "link", "write", "rename", "stamp"} \union Over
    /\ faults \subseteq Faults

-----------------------------------------------------------------------------
(* The manifest *)

Place(order, e) == CHOOSE i \in 1..Len(order) : order[i] = e

Aliases(p) == {q \in Paths \ symlinks : inode[q] = inode[p]}

FirstAlias(p) ==
    CHOOSE q \in Aliases(p) :
        \A r \in Aliases(p) : Place(WalkOrder, q) <= Place(WalkOrder, r)

IsFile(p) == p \in Paths \ symlinks /\ FirstAlias(p) = p
IsHardLink(p) == p \in Paths \ symlinks /\ FirstAlias(p) # p

(* The destination of an overwriting restore has any of the paths, older.  *)
Init ==
    /\ options \in Options
    /\ inode \in {f \in [Paths -> Paths] : \A p \in Paths :
                   f[f[p]] = f[p] /\ Place(WalkOrder, f[p]) <= Place(WalkOrder, p)}
    /\ symlinks \in SUBSET {p \in Paths : \A q \in Paths : inode[q] = inode[p] => q = p}
    /\ mode \in [Dirs -> Modes]
    /\ selected \in IF options.include THEN SUBSET Paths ELSE {Paths}
    /\ existed \in IF options.overwrite THEN SUBSET Paths ELSE {{}}
    /\ names = [p \in Paths |-> IF p \in existed THEN <<"old", p>> ELSE Absent]
    /\ written = [p \in Paths |-> 0]
    /\ dirs = [d \in Dirs |-> IF \E p \in existed : DirOf[p] = d THEN "rw" ELSE Absent]
    /\ stamped = {} /\ temp = Absent
    /\ at = 1
    /\ faults = {}
    /\ pc = IF options.clean THEN "clean" ELSE "entry"

-----------------------------------------------------------------------------
(* The file system of the destination, as the user may use it *)

CanChange(tree, d) ==
    d \in Dirs => tree[d] = "rw" \/ (options.root /\ tree[d] # Absent)

(* MkdirAll of d: the directories afterwards. *)
WithDir(d, m) == IF d \in Dirs /\ dirs[d] = Absent THEN [dirs EXCEPT ![d] = m] ELSE dirs

(* A change of the names in a directory sets its modification time. *)
Bind(p, node) ==
    /\ names' = [names EXCEPT ![p] = node]
    /\ stamped' = stamped \ {DirOf[p]}

Entry == SortOrder[at]

NextEntry == at' = at + 1 /\ pc' = "entry"

(* An error return; a temporary file is removed first. *)
Fail(met) ==
    /\ pc' = "failed" /\ temp' = Absent
    /\ faults' = faults \union met
    /\ UNCHANGED <<given, names, written, dirs, stamped, at>>

-----------------------------------------------------------------------------
(* cleanDirectory, after validateCleanDestination *)

CleanName(p) ==
    /\ pc = "clean"
    /\ names[p] # Absent /\ CanChange(dirs, DirOf[p])
    /\ Bind(p, Absent)
    /\ UNCHANGED <<given, written, dirs, temp, at, pc, faults>>

CleanDir(d) ==
    /\ pc = "clean"
    /\ dirs[d] # Absent /\ \A p \in Paths : DirOf[p] = d => names[p] = Absent
    /\ dirs' = [dirs EXCEPT ![d] = Absent]
    /\ UNCHANGED <<given, names, written, stamped, temp, at, pc, faults>>

Cleaned ==
    /\ pc = "clean"
    /\ \A p \in Paths : names[p] = Absent
    /\ \A d \in Dirs : dirs[d] = Absent
    /\ pc' = "entry"
    /\ UNCHANGED <<given, names, written, dirs, stamped, temp, at, faults>>

-----------------------------------------------------------------------------
(* The entries *)

AtEntry == pc = "entry" /\ at <= Len(SortOrder)

(* --include leaves out directories, and the paths it does not select. *)
Skip ==
    /\ AtEntry
    /\ Entry \in Paths \ selected \/ (options.include /\ Entry \in Dirs)
    /\ NextEntry
    /\ UNCHANGED <<given, names, written, dirs, stamped, temp, faults>>

RestoreDir ==
    /\ AtEntry /\ ~options.include /\ Entry \in Dirs
    /\ dirs' = WithDir(Entry, mode[Entry])
    /\ NextEntry
    /\ UNCHANGED <<given, names, written, stamped, temp, faults>>

(* Mutant of AtPath: the patterns are not looked at. *)
AtAnyPath(p) == AtEntry /\ Entry = p

AtPath(p) == AtEntry /\ Entry = p /\ p \in selected

(* Mutant of PrepareLink: what is at the path is left. *)
PrepareLinkKeeps(p) ==
    /\ AtPath(p) /\ ~IsFile(p)
    /\ dirs' = WithDir(DirOf[p], "rw")
    /\ pc' = "link"
    /\ UNCHANGED <<given, names, written, stamped, temp, at, faults>>

(* A symbolic or hard link: the directory is made, and with --overwrite    *)
(* what is at the path is removed, or is not, without an error.            *)
PrepareLink(p) ==
    /\ AtPath(p) /\ ~IsFile(p)
    /\ dirs' = WithDir(DirOf[p], "rw")
    /\ IF options.overwrite /\ CanChange(dirs', DirOf[p])
       THEN Bind(p, Absent) ELSE UNCHANGED <<names, stamped>>
    /\ pc' = "link"
    /\ UNCHANGED <<given, written, temp, at, faults>>

(* os.Symlink, or os.Link to what the first alias is bound to by now *)
MakeLink(p) ==
    /\ pc = "link" /\ Entry = p
    /\ IF /\ names[p] = Absent /\ CanChange(dirs, DirOf[p])
          /\ IsHardLink(p) => names[FirstAlias(p)] # Absent
       THEN /\ Bind(p, IF IsHardLink(p) THEN names[FirstAlias(p)] ELSE <<"new", p>>)
            /\ written' = IF IsHardLink(p) THEN written ELSE [written EXCEPT ![p] = Chunks]
            /\ NextEntry
            /\ UNCHANGED <<given, dirs, temp, faults>>
       ELSE Fail({})

(* Mutant of OpenFile: the file that is there is opened and truncated. *)
OpenInPlace(p) ==
    /\ AtPath(p) /\ IsFile(p)
    /\ dirs' = WithDir(DirOf[p], "rw")
    /\ CanChange(dirs', DirOf[p])
    /\ Bind(p, <<"new", p>>)
    /\ pc' = "write"
    /\ UNCHANGED <<given, written, temp, at, faults>>

(* A temporary file beside the path, or with O_EXCL the path itself. *)
OpenFile(p) ==
    /\ AtPath(p) /\ IsFile(p)
    /\ IF CanChange(WithDir(DirOf[p], "rw"), DirOf[p]) /\ (options.overwrite \/ names[p] = Absent)
       THEN /\ dirs' = WithDir(DirOf[p], "rw")
            /\ pc' = "write"
            /\ IF options.overwrite
               THEN temp' = p /\ stamped' = stamped \ {DirOf[p]} /\ UNCHANGED names
               ELSE Bind(p, <<"new", p>>) /\ UNCHANGED temp
            /\ UNCHANGED <<given, written, at, faults>>
       ELSE Fail({})

WriteChunk(p) ==
    /\ pc = "write" /\ Entry = p
    /\ written[p] < Chunks
    /\ written' = [written EXCEPT ![p] = @ + 1]
    /\ UNCHANGED <<given, names, dirs, stamped, temp, at, pc, faults>>

(* Mutant of FinishFile: the bytes written are not counted. *)
FinishShort(p) ==
    /\ pc = "write" /\ Entry = p
    /\ IF options.overwrite THEN Bind(p, <<"new", p>>) ELSE UNCHANGED <<names, stamped>>
    /\ temp' = Absent
    /\ NextEntry
    /\ UNCHANGED <<given, written, dirs, faults>>

(* The bytes written are those of the entry; metadata is applied, and a    *)
(* temporary file renamed, which replaces what is at the path.             *)
FinishFile(p) ==
    /\ pc = "write" /\ Entry = p
    /\ written[p] = Chunks
    /\ IF options.overwrite THEN Bind(p, <<"new", p>>) ELSE UNCHANGED <<names, stamped>>
    /\ temp' = Absent
    /\ NextEntry
    /\ UNCHANGED <<given, written, dirs, faults>>

(* Mutant of ChunkUnreadable: the temporary file stays. *)
ChunkUnreadableLeaves ==
    /\ pc = "write" /\ written[Entry] < Chunks
    /\ pc' = "failed" /\ faults' = faults \union {"read"}
    /\ UNCHANGED <<given, names, written, dirs, stamped, temp, at>>

(* readChunk: a chunk is missing, does not decode or has another hash. *)
ChunkUnreadable == pc = "write" /\ written[Entry] < Chunks /\ Fail({"read"})

(* replaceFile, when the rename fails: the destination is removed and the  *)
(* rename tried again.                                                     *)
RemoveReplaced(p) ==
    /\ pc = "write" /\ Entry = p
    /\ options.overwrite /\ written[p] = Chunks
    /\ names[p] # Absent
    /\ Bind(p, Absent)
    /\ pc' = "rename" /\ faults' = faults \union {"rename"}
    /\ UNCHANGED <<given, written, dirs, temp, at>>

RenameAgain(p) ==
    /\ pc = "rename" /\ Entry = p
    /\ Bind(p, <<"new", p>>)
    /\ temp' = Absent
    /\ NextEntry
    /\ UNCHANGED <<given, written, dirs, faults>>

(* Any other change to the destination fails. *)
WriteFails == pc \notin Over /\ Fail({"write"})

-----------------------------------------------------------------------------
(* The metadata of the restored directories, the last one first *)

EntriesDone ==
    /\ pc = "entry" /\ at = Len(SortOrder) + 1
    /\ at' = Len(SortOrder) /\ pc' = "stamp"
    /\ UNCHANGED <<given, names, written, dirs, stamped, temp, faults>>

Stamp ==
    /\ pc = "stamp" /\ at > 0
    /\ IF Entry \in Dirs /\ ~options.include
       THEN /\ dirs' = [dirs EXCEPT ![Entry] = mode[Entry]]
            /\ stamped' = stamped \union {Entry}
       ELSE UNCHANGED <<dirs, stamped>>
    /\ at' = at - 1
    /\ UNCHANGED <<given, names, written, temp, pc, faults>>

Done ==
    /\ pc = "stamp" /\ at = 0
    /\ pc' = "done"
    /\ UNCHANGED <<given, names, written, dirs, stamped, temp, at, faults>>

-----------------------------------------------------------------------------
Crash ==
    /\ pc \notin Over
    /\ pc' = "crashed"
    /\ UNCHANGED <<given, names, written, dirs, stamped, temp, at, faults>>

RestorePath(p) ==
    \/ PrepareLink(p) \/ MakeLink(p)
    \/ OpenFile(p) \/ WriteChunk(p) \/ FinishFile(p) \/ RemoveReplaced(p) \/ RenameAgain(p)

Step ==
    \/ \E p \in Paths : CleanName(p) \/ RestorePath(p)
    \/ \E d \in Dirs : CleanDir(d)
    \/ Cleaned \/ Skip \/ RestoreDir \/ ChunkUnreadable \/ WriteFails
    \/ EntriesDone \/ Stamp \/ Done

Returned == pc \in Over /\ UNCHANGED vars

Next == Step \/ Crash \/ Returned

Spec == Init /\ [][Next]_vars

-----------------------------------------------------------------------------
(* Correctness *)

(* What a restored path must be: the file or link that was backed up, in   *)
(* full, where the names of one inode are names of one file again.         *)
Original(p) == <<"new", IF p \in symlinks THEN p ELSE FirstAlias(p)>>
Faithful(p) == names[p] = Original(p) /\ written[Original(p)[2]] = Chunks

(* A hard link follows the file it names, and that file is selected too.   *)
FollowsItsFile(p) ==
    IsHardLink(p) =>
        /\ FirstAlias(p) \in selected
        /\ Place(SortOrder, FirstAlias(p)) < Place(SortOrder, p)

(* Every selected path is the original again, but for hard links that do   *)
(* not follow their file.                                                  *)
PathsFaithful == \A p \in selected : FollowsItsFile(p) => Faithful(p)

(* "--clean-destination additionally clears the destination".              *)
NothingOldRemains == options.clean => \A p \in Paths \ selected : names[p] = Absent

(* Restored directories have the recorded mode and modification time,      *)
(* though writing their children changed both.                             *)
DirsAsRecorded == ~options.include => stamped = Dirs /\ dirs = mode

(* What a restore without an error leaves: what was asked for, as it was   *)
(* backed up, and nothing older where the destination was to be cleared.   *)
RestoredFaithfully == pc = "done" => PathsFaithful /\ NothingOldRemains /\ DirsAsRecorded

(* A restore of the whole snapshot without an error restores all of it.    *)
WholeSnapshotFaithful ==
    pc = "done" /\ ~options.include => \A p \in Paths : Faithful(p)

(* "--overwrite to replace only restored paths": what was not selected is  *)
(* still what it was, at any time.                                         *)
OthersUntouched ==
    ~options.clean => \A p \in Paths \ selected :
        names[p] = IF p \in existed THEN <<"old", p>> ELSE Absent

(* An overwritten file is the old one or the whole new one at any moment,  *)
(* also when a chunk cannot be read, a write fails or the process dies, as *)
(* long as renames succeed.  (Links are removed before they are made.)     *)
OldOrNew ==
    ~options.clean /\ "rename" \notin faults =>
        \A p \in existed :
            IsFile(p) => \/ names[p] = <<"old", p>>
                         \/ names[p] = <<"new", p>> /\ written[p] = Chunks

(* A restore that returns leaves no temporary file behind. *)
TempsRemoved == pc \in {"done", "failed"} => temp = Absent

(* Without a fault a restore does not fail, when hard links follow their   *)
(* files and the user may write to the directories it creates.             *)
Restorable ==
    pc = "failed" /\ faults = {} =>
        \/ \E p \in selected : ~FollowsItsFile(p)
        \/ ~options.root /\ \E d \in Dirs : mode[d] = "ro"
=============================================================================
