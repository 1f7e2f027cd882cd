---------------------------- MODULE RestoreProofs ----------------------------
(***************************************************************************)
(* Proofs about restore, for any tree, any orders of the walk and of the   *)
(* manifest, and any number of chunks: what a restore may change, what it  *)
(* leaves when it fails or dies, and what it has done when it returns      *)
(* without an error.                                                       *)
(***************************************************************************)
EXTENDS Restore, SequenceTheorems, FiniteSetTheorems, FunctionTheorems, TLAPS

Stopped == {"failed", "crashed"}

(* What is given does not change; in particular the inode of a name is the *)
(* first of its names in the order of the walk.                            *)
Given ==
    /\ \A p \in Paths :
         inode[inode[p]] = inode[p] /\ Place(WalkOrder, inode[p]) <= Place(WalkOrder, p)
    /\ \A s \in symlinks : \A q \in Paths : inode[q] = inode[s] => q = s
    /\ existed # {} => options.overwrite
    /\ ~options.include => selected = Paths

(* Where the restore is in the manifest, and with what kind of entry *)
AtInv ==
    /\ pc \in {"clean", "entry", "link", "write", "rename"} => at >= 1
    /\ pc \in {"link", "write", "rename"} => at <= Len(SortOrder) /\ Entry \in selected
    /\ pc = "stamp" => at <= Len(SortOrder)
    /\ pc = "clean" => at = 1 /\ options.clean
    /\ pc = "link" => ~IsFile(Entry)
    /\ pc \in {"write", "rename"} => IsFile(Entry)
    /\ pc = "rename" => "rename" \in faults /\ written[Entry] = Chunks
    /\ pc = "write" /\ ~options.overwrite => names[Entry] = <<"new", Entry>>
    /\ pc = "done" => at = 0
    /\ temp # Absent => pc \in {"write", "rename", "crashed"}

Handled(i) == pc \in {"stamp", "done"} \/ i < at

(* What has been handled is restored, and stays so. *)
HandledFaithful ==
    pc \notin Stopped => \A i \in 1..Len(SortOrder) :
        Handled(i) /\ SortOrder[i] \in selected /\ FollowsItsFile(SortOrder[i])
            => Faithful(SortOrder[i])

ClearedInv ==
    options.clean /\ pc \notin Stopped \union {"clean"} =>
        \A p \in Paths \ selected : names[p] = Absent

StampInv ==
    pc \in {"stamp", "done"} /\ ~options.include => \A i \in at + 1..Len(SortOrder) :
        SortOrder[i] \in Dirs =>
            SortOrder[i] \in stamped /\ dirs[SortOrder[i]] = mode[SortOrder[i]]

(* May the user write to every directory that the restore creates? *)
Writable == options.root \/ \A d \in Dirs : mode[d] = "rw"

(* Without a fault nothing is in the way of the next entry. *)
WayClear ==
    /\ \A d \in Dirs : dirs[d] \in {"rw", Absent, mode[d]}
    /\ ~options.overwrite /\ pc \in {"entry", "link", "write", "rename"} =>
         \A i \in at..Len(SortOrder) :
           SortOrder[i] \in Paths /\ (i # at \/ pc \in {"entry", "link"})
             => names[SortOrder[i]] = Absent
    /\ pc = "link" =>
         /\ DirOf[Entry] \in Dirs => dirs[DirOf[Entry]] # Absent
         /\ Writable => names[Entry] = Absent

RestoreInv ==
    /\ TypeOK /\ Given /\ AtInv /\ HandledFaithful /\ ClearedInv /\ StampInv /\ WayClear
    /\ OthersUntouched /\ OldOrNew /\ Restorable

-----------------------------------------------------------------------------
(* Orders and names *)

(* An order has each entry at one place. *)
LEMMA OrdersOnce ==
    ASSUME NEW seq \in Seq(Entries), Orders(seq)
    PROVE  /\ Len(seq) \in Nat
           /\ \A i \in 1..Len(seq) : seq[i] \in Entries /\ Place(seq, seq[i]) = i
           /\ \A e \in Entries : Place(seq, e) \in 1..Len(seq) /\ seq[Place(seq, e)] = e
<1>1. Len(seq) \in Nat /\ DOMAIN seq = 1..Len(seq) /\ seq \in [1..Len(seq) -> Entries]
  BY LenProperties
<1>2. \A e \in Entries : \E i \in 1..Len(seq) : seq[i] = e
  BY DEF Orders
<1>3. \A e \in Entries : Place(seq, e) \in 1..Len(seq) /\ seq[Place(seq, e)] = e
  BY <1>2 DEF Place
<1>4. IsFiniteSet(1..Len(seq)) /\ Cardinality(1..Len(seq)) = Len(seq)
  BY <1>1, FS_Interval
<1>5. seq \in Surjection(1..Len(seq), Entries)
  BY <1>1, <1>2 DEF Surjection
<1>6. seq \in Injection(1..Len(seq), Entries)
  BY <1>4, <1>5, FS_SurjSameCardinalityImpliesInj DEF Orders
<1>7. \A i, j \in 1..Len(seq) : seq[i] = seq[j] => i = j
  BY <1>6 DEF Injection, IsInjective
<1>8. \A i \in 1..Len(seq) : seq[i] \in Entries /\ Place(seq, seq[i]) = i
  BY <1>1, <1>3, <1>7
<1> QED
  BY <1>1, <1>3, <1>8

LEMMA TheOrders ==
    /\ Len(SortOrder) \in Nat
    /\ \A i \in 1..Len(SortOrder) : SortOrder[i] \in Entries /\ Place(SortOrder, SortOrder[i]) = i
    /\ \A e \in Entries : /\ Place(SortOrder, e) \in 1..Len(SortOrder)
                          /\ SortOrder[Place(SortOrder, e)] = e
    /\ \A e \in Entries : Place(WalkOrder, e) \in Nat
    /\ \A e, f \in Entries : Place(WalkOrder, e) = Place(WalkOrder, f) => e = f
<1>1. SortOrder \in Seq(Entries) /\ Orders(SortOrder) /\ WalkOrder \in Seq(Entries) /\ Orders(WalkOrder)
  BY RestoreAssumption
<1>2. Len(WalkOrder) \in Nat /\ \A e \in Entries : Place(WalkOrder, e) \in 1..Len(WalkOrder)
  BY <1>1, OrdersOnce
<1>3. \A e \in Entries : WalkOrder[Place(WalkOrder, e)] = e
  BY <1>1, OrdersOnce
<1>4. /\ Len(SortOrder) \in Nat
      /\ \A i \in 1..Len(SortOrder) : SortOrder[i] \in Entries /\ Place(SortOrder, SortOrder[i]) = i
      /\ \A e \in Entries : /\ Place(SortOrder, e) \in 1..Len(SortOrder)
                            /\ SortOrder[Place(SortOrder, e)] = e
  BY <1>1, OrdersOnce
<1>5. \A e \in Entries : Place(WalkOrder, e) \in Nat
  BY <1>2
<1>6. \A e, f \in Entries : Place(WalkOrder, e) = Place(WalkOrder, f) => e = f
  BY <1>3
<1> QED
  BY <1>4, <1>5, <1>6

(* The first name of a file in the order of the walk is its inode. *)
LEMMA FirstAliasIsInode ==
    ASSUME TypeOK, Given, NEW p \in Paths \ symlinks
    PROVE  FirstAlias(p) = inode[p] /\ inode[p] \in Paths \ symlinks /\ inode[inode[p]] = inode[p]
<1>1. inode \in [Paths -> Paths] /\ inode[p] \in Paths /\ inode[inode[p]] = inode[p]
  BY DEF TypeOK, Given
<1>2. inode[p] \notin symlinks
  BY <1>1 DEF Given
<1>3. inode[p] \in Aliases(p)
  BY <1>1, <1>2 DEF Aliases
<1>4. \A q \in Aliases(p) : q \in Entries /\ Place(WalkOrder, inode[p]) <= Place(WalkOrder, q)
  BY DEF Aliases, Given, Entries
<1>5. FirstAlias(p) \in Aliases(p) /\ \A q \in Aliases(p) :
        Place(WalkOrder, FirstAlias(p)) <= Place(WalkOrder, q)
  BY <1>3, <1>4 DEF FirstAlias
<1>6. Place(WalkOrder, FirstAlias(p)) = Place(WalkOrder, inode[p])
  BY <1>3, <1>4, <1>5, TheOrders
<1> QED
  BY <1>1, <1>2, <1>3, <1>4, <1>5, <1>6, TheOrders

(* What is derived from what is given does not change either. *)
LEMMA DerivedFromGiven ==
    ASSUME TypeOK, Given, UNCHANGED given
    PROVE  /\ UNCHANGED <<options, inode, symlinks, mode, selected, existed>>
           /\ Given' /\ (Writable' <=> Writable)
           /\ \A p \in Paths : /\ IsFile(p)' <=> IsFile(p)
                               /\ IsHardLink(p)' <=> IsHardLink(p)
                               /\ p \notin symlinks => FirstAlias(p)' = FirstAlias(p)
                               /\ FollowsItsFile(p)' <=> FollowsItsFile(p)
                               /\ Original(p)' = Original(p)
<1>1. UNCHANGED <<options, inode, symlinks, mode, selected, existed>>
  BY DEF given
<1>2. Given' /\ (Writable' <=> Writable)
  BY <1>1 DEF Given, Writable
<1>3. ASSUME NEW p \in Paths PROVE FirstAlias(p)' = FirstAlias(p)
  <2>1. Aliases(p)' = Aliases(p)
    BY <1>1 DEF Aliases
  <2> HIDE DEF Aliases
  <2> QED
    BY <2>1 DEF FirstAlias
<1> QED
  BY <1>1, <1>2, <1>3 DEF IsFile, IsHardLink, FollowsItsFile, Original

LEMMA FileOrLink ==
    ASSUME TypeOK, Given, NEW p \in Paths
    PROVE  /\ IsFile(p) <=> p \notin symlinks /\ inode[p] = p
           /\ IsHardLink(p) <=> p \notin symlinks /\ inode[p] # p
           /\ IsFile(p) => ~IsHardLink(p) /\ FollowsItsFile(p) /\ Original(p) = <<"new", p>>
           /\ IsHardLink(p) => /\ FirstAlias(p) = inode[p] /\ IsFile(inode[p])
                               /\ Original(p) = <<"new", inode[p]>> /\ inode[p] \in Paths
           /\ p \in symlinks => /\ ~IsFile(p) /\ ~IsHardLink(p)
                                /\ FollowsItsFile(p) /\ Original(p) = <<"new", p>>
BY FirstAliasIsInode DEF IsFile, IsHardLink, FollowsItsFile, Original

-----------------------------------------------------------------------------
(* The invariant at the start, and its parts step by step *)

LEMMA InitRestoreInv == Init => RestoreInv
<1> SUFFICES ASSUME Init PROVE RestoreInv
  OBVIOUS
<1>1. Len(SortOrder) \in Nat /\ Chunks \in Nat
  BY TheOrders, RestoreAssumption
<1>2. TypeOK
  BY <1>1 DEF Init, TypeOK, Nodes, Modes, Over, Faults
<1>3. Given /\ ClearedInv /\ StampInv /\ OthersUntouched /\ OldOrNew /\ Restorable
  BY DEF Init, Given, Options, ClearedInv, StampInv, OthersUntouched, OldOrNew, Restorable, Stopped
<1>4. AtInv /\ WayClear
  BY <1>1 DEF Init, AtInv, WayClear, Options
<1>5. HandledFaithful
  BY <1>1 DEF Init, HandledFaithful, Handled
<1> QED
  BY <1>2, <1>3, <1>4, <1>5 DEF RestoreInv

(* The entry that is being handled *)
LEMMA EntryAt ==
    ASSUME TypeOK, AtInv
    PROVE  /\ at \in 1..Len(SortOrder) => Entry \in Entries
           /\ pc \in {"link", "write", "rename"} =>
                Entry \in Paths /\ Entry \in selected /\ at \in 1..Len(SortOrder)
           /\ pc = "entry" /\ at <= Len(SortOrder) => at \in 1..Len(SortOrder) /\ Entry \in Entries
           /\ \A d \in Dirs : d \notin Paths
<1>1. at \in 0..(Len(SortOrder) + 1) /\ Len(SortOrder) \in Nat /\ selected \subseteq Paths
  BY TheOrders DEF TypeOK
<1>2. at \in 1..Len(SortOrder) => Entry \in Entries
  BY TheOrders DEF Entry
<1>3. pc \in {"link", "write", "rename"} => at \in 1..Len(SortOrder) /\ Entry \in selected
  BY <1>1 DEF AtInv
<1>4. pc = "entry" /\ at <= Len(SortOrder) => at \in 1..Len(SortOrder)
  BY <1>1 DEF AtInv
<1>5. \A d \in Dirs : d \notin Paths
  BY RestoreAssumption
<1> QED
  BY <1>1, <1>2, <1>3, <1>4, <1>5

LEMMA GivenStays == Next => UNCHANGED given
BY DEF Next, Step, RestorePath, CleanName, CleanDir, Cleaned, Skip, RestoreDir, PrepareLink,
   MakeLink, OpenFile, WriteChunk, FinishFile, RemoveReplaced, RenameAgain, ChunkUnreadable,
   WriteFails, EntriesDone, Stamp, Done, Crash, Returned, Fail, vars

(* The two outcomes of making a link, and those of opening a file *)
Linked(p) ==
    /\ pc = "link" /\ Entry = p
    /\ names[p] = Absent
    /\ names' = [names EXCEPT ![p] =
                   IF IsHardLink(p) THEN names[FirstAlias(p)] ELSE <<"new", p>>]
    /\ stamped' = stamped \ {DirOf[p]}
    /\ written' = IF IsHardLink(p) THEN written ELSE [written EXCEPT ![p] = Chunks]
    /\ NextEntry
    /\ UNCHANGED <<given, dirs, temp, faults>>

LinkRefused(p) ==
    /\ pc = "link" /\ Entry = p
    /\ \/ names[p] # Absent \/ ~CanChange(dirs, DirOf[p])
       \/ IsHardLink(p) /\ names[FirstAlias(p)] = Absent
    /\ Fail({})

LEMMA MakeLinkOutcome == \A p : MakeLink(p) => Linked(p) \/ LinkRefused(p)
BY DEF MakeLink, Linked, LinkRefused, Bind

Opened(p) ==
    /\ AtPath(p) /\ IsFile(p)
    /\ options.overwrite \/ names[p] = Absent
    /\ dirs' = WithDir(DirOf[p], "rw")
    /\ pc' = "write"
    /\ stamped' = stamped \ {DirOf[p]}
    /\ IF options.overwrite THEN temp' = p /\ UNCHANGED names
       ELSE names' = [names EXCEPT ![p] = <<"new", p>>] /\ UNCHANGED temp
    /\ UNCHANGED <<given, written, at, faults>>

OpenRefused(p) ==
    /\ AtPath(p) /\ IsFile(p)
    /\ ~ /\ CanChange(WithDir(DirOf[p], "rw"), DirOf[p])
         /\ options.overwrite \/ names[p] = Absent
    /\ Fail({})

LEMMA OpenFileOutcome == \A p : OpenFile(p) => Opened(p) \/ OpenRefused(p)
<1> SUFFICES ASSUME NEW p, OpenFile(p) PROVE Opened(p) \/ OpenRefused(p)
  OBVIOUS
<1> DEFINE guard == /\ CanChange(WithDir(DirOf[p], "rw"), DirOf[p])
                    /\ options.overwrite \/ names[p] = Absent
<1>1. CASE guard /\ options.overwrite
  BY <1>1 DEF OpenFile, Opened
<1>2. CASE guard /\ ~options.overwrite
  BY <1>2 DEF OpenFile, Opened, Bind
<1>3. CASE ~guard
  BY <1>3 DEF OpenFile, OpenRefused
<1> QED
  BY <1>1, <1>2, <1>3

LEMMA TypeStep ==
    ASSUME TypeOK, Given, AtInv, Next
    PROVE  TypeOK'
<1> USE DEF TypeOK
<1>1. /\ UNCHANGED <<options, inode, symlinks, mode, selected, existed>>
      /\ Len(SortOrder) \in Nat /\ Chunks \in Nat
  BY GivenStays, TheOrders, RestoreAssumption DEF given
<1>2. \A d, m : d \in Dirs /\ m \in Modes => WithDir(d, m) \in [Dirs -> Modes \union {Absent}]
  BY DEF WithDir
<1>3. \A p \in Paths : WithDir(DirOf[p], "rw") \in [Dirs -> Modes \union {Absent}]
  BY RestoreAssumption DEF WithDir, Modes
<1>4. \A p \in Paths : <<"new", p>> \in Nodes
  BY DEF Nodes
<1> USE <1>1 DEF Over
<1>5. \A met : Fail(met) /\ met \subseteq Faults => TypeOK'
  BY DEF Fail
<1>6. {} \subseteq Faults /\ {"read"} \subseteq Faults /\ {"write"} \subseteq Faults /\ "rename" \in Faults
  BY DEF Faults
<1>7. ASSUME NEW p \in Paths, CleanName(p) PROVE TypeOK'
  BY <1>7 DEF CleanName, Bind
<1>8. ASSUME NEW p \in Paths, PrepareLink(p) PROVE TypeOK'
  BY <1>3, <1>8 DEF PrepareLink, Bind
<1>9. ASSUME NEW p \in Paths, MakeLink(p) PROVE TypeOK'
  <2>1. CASE LinkRefused(p)
    BY <1>5, <1>6, <2>1 DEF LinkRefused
  <2>2. CASE Linked(p)
    <3> DEFINE node == IF IsHardLink(p) THEN names[FirstAlias(p)] ELSE <<"new", p>>
    <3>1. node \in Nodes \union {Absent}
      BY <1>4, FileOrLink
    <3>2. names' = [names EXCEPT ![p] = node] /\ stamped' \subseteq Dirs
      BY <2>2 DEF Linked
    <3> HIDE DEF node
    <3>3. names' \in [Paths -> Nodes \union {Absent}]
      BY <3>1, <3>2
    <3>4. written' \in [Paths -> 0..Chunks]
      BY <2>2 DEF Linked
    <3>5. at' = at + 1 /\ at' \in 0..(Len(SortOrder) + 1) /\ pc' = "entry"
          /\ UNCHANGED <<given, dirs, temp, faults>>
      BY <2>2 DEF Linked, NextEntry, AtInv
    <3> QED
      BY <3>2, <3>3, <3>4, <3>5
  <2> QED
    BY <1>9, <2>1, <2>2, MakeLinkOutcome
<1>10. ASSUME NEW p \in Paths, OpenFile(p) PROVE TypeOK'
  <2>1. CASE OpenRefused(p)
    BY <1>5, <1>6, <2>1 DEF OpenRefused
  <2>2. CASE Opened(p)
    <3>1. names' \in [Paths -> Nodes \union {Absent}] /\ temp' \in Paths \union {Absent}
      BY <1>4, <2>2 DEF Opened
    <3> QED
      BY <1>3, <2>2, <3>1 DEF Opened
  <2> QED
    BY <1>10, <2>1, <2>2, OpenFileOutcome
<1>11. ASSUME NEW p \in Paths, WriteChunk(p) PROVE TypeOK'
  BY <1>11 DEF WriteChunk
<1>12. ASSUME NEW p \in Paths, FinishFile(p) PROVE TypeOK'
  BY <1>4, <1>12 DEF FinishFile, Bind, NextEntry, AtInv
<1>13. ASSUME NEW p \in Paths, RemoveReplaced(p) PROVE TypeOK'
  BY <1>6, <1>13 DEF RemoveReplaced, Bind
<1>14. ASSUME NEW p \in Paths, RenameAgain(p) PROVE TypeOK'
  BY <1>4, <1>14 DEF RenameAgain, Bind, NextEntry, AtInv
<1>15. ASSUME NEW d \in Dirs, CleanDir(d) PROVE TypeOK'
  BY <1>15 DEF CleanDir
<1>16. CASE Cleaned \/ Skip \/ EntriesDone \/ Done \/ Crash \/ Returned
  BY <1>16, EntryAt DEF Cleaned, Skip, AtEntry, NextEntry, EntriesDone, Done, Crash, Returned, vars
<1>17. CASE RestoreDir
  BY <1>2, <1>17, EntryAt DEF RestoreDir, AtEntry, NextEntry
<1>18. CASE ChunkUnreadable \/ WriteFails
  BY <1>5, <1>6, <1>18 DEF ChunkUnreadable, WriteFails
<1>19. CASE Stamp
  BY <1>19 DEF Stamp, AtInv
<1> QED
  BY <1>7, <1>8, <1>9, <1>10, <1>11, <1>12, <1>13, <1>14, <1>15, <1>16, <1>17, <1>18, <1>19
     DEF Next, Step, RestorePath

(* A step binds at most one path: one that is being handled, and so is     *)
(* selected, or any while the destination is cleared.                      *)
LEMMA NamesStep ==
    ASSUME TypeOK, AtInv, Next
    PROVE  \/ UNCHANGED names
           \/ pc = "clean"
           \/ /\ pc \in {"entry", "link", "write", "rename"}
              /\ at \in 1..Len(SortOrder) /\ Entry \in Paths \intersect selected
              /\ \A q \in Paths \ {Entry} : names'[q] = names[q]
<1> USE EntryAt DEF TypeOK
<1>1. ASSUME NEW p \in Paths, PrepareLink(p) \/ MakeLink(p) \/ OpenFile(p)
      PROVE  /\ at \in 1..Len(SortOrder) /\ Entry = p /\ p \in selected
             /\ \A q \in Paths \ {p} : names'[q] = names[q]
  <2>1. CASE PrepareLink(p)
    BY <2>1 DEF PrepareLink, AtPath, AtEntry, Bind
  <2>2. CASE Linked(p) \/ LinkRefused(p)
    BY <2>2 DEF Linked, LinkRefused, Fail
  <2>3. CASE Opened(p) \/ OpenRefused(p)
    BY <2>3 DEF Opened, OpenRefused, Fail, AtPath, AtEntry
  <2> QED
    BY <1>1, <2>1, <2>2, <2>3, MakeLinkOutcome, OpenFileOutcome
<1>2. ASSUME NEW p \in Paths, FinishFile(p) \/ RemoveReplaced(p) \/ RenameAgain(p)
      PROVE  /\ pc \in {"write", "rename"} /\ Entry = p
             /\ \A q \in Paths \ {p} : names'[q] = names[q]
  BY <1>2 DEF FinishFile, RemoveReplaced, RenameAgain, Bind
<1>3. ASSUME NEW p \in Paths, PrepareLink(p) \/ MakeLink(p) \/ OpenFile(p)
      PROVE  pc \in {"entry", "link"}
  BY <1>3 DEF PrepareLink, MakeLink, OpenFile, AtPath, AtEntry
<1>4. ASSUME NEW p \in Paths, WriteChunk(p) PROVE UNCHANGED names
  BY <1>4 DEF WriteChunk
<1>5. ASSUME NEW p \in Paths, RestorePath(p)
      PROVE  \/ UNCHANGED names
             \/ /\ pc \in {"entry", "link", "write", "rename"}
                /\ at \in 1..Len(SortOrder) /\ Entry \in Paths \intersect selected
                /\ \A q \in Paths \ {Entry} : names'[q] = names[q]
  BY <1>1, <1>2, <1>3, <1>4, <1>5 DEF RestorePath
<1>6. \/ UNCHANGED names
      \/ pc = "clean"
      \/ \E p \in Paths : RestorePath(p)
  BY DEF Next, Step, CleanName, CleanDir, Cleaned, Skip, RestoreDir, ChunkUnreadable,
     WriteFails, EntriesDone, Stamp, Done, Crash, Returned, Fail, vars
<1> QED
  BY <1>5, <1>6

(* What was not selected is not touched. *)
LEMMA OthersStep ==
    ASSUME TypeOK, AtInv, OthersUntouched, Next
    PROVE  OthersUntouched'
<1>1. UNCHANGED <<options, selected, existed>> /\ (pc = "clean" => options.clean)
  BY GivenStays DEF given, AtInv
<1> QED
  BY <1>1, NamesStep DEF OthersUntouched

(* The steps that leave an entry in hand: it is a selected path.           *)
LEMMA AtStep ==
    ASSUME TypeOK, Given, AtInv, Next
    PROVE  AtInv'
<1> USE EntryAt
<1>1. /\ UNCHANGED <<options, inode, symlinks, mode, selected, existed>>
      /\ \A p \in Paths : IsFile(p)' <=> IsFile(p)
      /\ Len(SortOrder) \in Nat
  BY GivenStays, DerivedFromGiven, TheOrders
<1>2. at \in 0..(Len(SortOrder) + 1) /\ at \in Nat
  BY <1>1 DEF TypeOK
<1>3. at' = at => Entry' = Entry
  BY DEF Entry
<1>4. \A met : Fail(met) => AtInv'
  BY DEF Fail, AtInv
<1>5. ASSUME at' = at + 1, pc' = "entry", temp' = Absent PROVE AtInv'
  BY <1>2, <1>5 DEF AtInv
<1>6. pc \notin {"write", "rename", "crashed"} => temp = Absent
  BY DEF AtInv
<1>7. ASSUME NEW p \in Paths, PrepareLink(p) PROVE AtInv'
  <2>1. /\ pc = "entry" /\ at' = at /\ at \in 1..Len(SortOrder) /\ Entry' = p /\ p \in selected
        /\ pc' = "link" /\ temp' = Absent /\ ~IsFile(p)
    BY <1>2, <1>3, <1>6, <1>7 DEF PrepareLink, AtPath, AtEntry
  <2>2. ~IsFile(p)'
    BY <1>1, <2>1
  <2>3. ~IsFile(Entry)'
    BY <2>1, <2>2 DEF IsFile, FirstAlias, Aliases
  <2> QED
    BY <1>1, <1>2, <2>1, <2>3 DEF AtInv
<1>8. ASSUME NEW p \in Paths, MakeLink(p) PROVE AtInv'
  BY <1>4, <1>5, <1>6, <1>8, MakeLinkOutcome DEF Linked, LinkRefused, NextEntry
<1>9. ASSUME NEW p \in Paths, OpenFile(p) PROVE AtInv'
  <2>1. CASE OpenRefused(p)
    BY <1>4, <2>1 DEF OpenRefused
  <2>2. CASE Opened(p)
    <3>1. /\ at' = at /\ at \in 1..Len(SortOrder) /\ Entry' = p /\ p \in selected
          /\ pc' = "write" /\ IsFile(p)
      BY <1>2, <1>3, <2>2 DEF Opened, AtPath, AtEntry
    <3>2. IsFile(p)'
      BY <1>1, <3>1
    <3>3. IsFile(Entry)'
      BY <3>1, <3>2 DEF IsFile, FirstAlias, Aliases
    <3>4. ~options.overwrite => names'[p] = <<"new", p>>
      BY <2>2 DEF Opened, TypeOK
    <3> QED
      BY <1>1, <1>2, <3>1, <3>3, <3>4 DEF AtInv
  <2> QED
    BY <1>9, <2>1, <2>2, OpenFileOutcome
<1>10. ASSUME NEW p \in Paths, WriteChunk(p) \/ RemoveReplaced(p) PROVE AtInv'
  <2>1. /\ pc = "write" /\ at' = at /\ Entry' = p /\ Entry = p /\ at \in 1..Len(SortOrder)
        /\ p \in selected /\ IsFile(p)
    BY <1>3, <1>10 DEF WriteChunk, RemoveReplaced, AtInv
  <2>2. IsFile(p)'
    BY <1>1, <2>1
  <2>3. IsFile(Entry)'
    BY <2>1, <2>2 DEF IsFile, FirstAlias, Aliases
  <2>4. CASE WriteChunk(p)
    BY <1>1, <1>2, <2>1, <2>3, <2>4 DEF WriteChunk, AtInv
  <2>5. CASE RemoveReplaced(p)
    BY <1>1, <1>2, <2>1, <2>3, <2>5 DEF RemoveReplaced, AtInv
  <2> QED
    BY <1>10, <2>4, <2>5
<1>11. ASSUME NEW p \in Paths, FinishFile(p) \/ RenameAgain(p) PROVE AtInv'
  BY <1>5, <1>11 DEF FinishFile, RenameAgain, NextEntry
<1>12. ASSUME NEW p \in Paths, CleanName(p) PROVE AtInv'
  BY <1>1, <1>3, <1>12 DEF CleanName, AtInv
<1>13. ASSUME NEW d \in Dirs, CleanDir(d) PROVE AtInv'
  BY <1>1, <1>3, <1>13 DEF CleanDir, AtInv
<1>14. CASE Cleaned
  BY <1>1, <1>14 DEF Cleaned, AtInv
<1>15. CASE Skip \/ RestoreDir
  BY <1>5, <1>6, <1>15 DEF Skip, RestoreDir, AtEntry, NextEntry
<1>16. CASE ChunkUnreadable \/ WriteFails
  BY <1>4, <1>16 DEF ChunkUnreadable, WriteFails
<1>17. CASE EntriesDone
  BY <1>1, <1>6, <1>17 DEF EntriesDone, AtInv
<1>18. CASE Stamp
  BY <1>1, <1>2, <1>18 DEF Stamp, AtInv
<1>19. CASE Done
  BY <1>19 DEF Done, AtInv
<1>20. CASE Crash
  BY <1>20 DEF Crash, AtInv
<1>21. CASE Returned
  <2>1. UNCHANGED vars
    BY <1>21 DEF Returned
  <2>2. pc' \notin {"link", "write", "rename", "clean", "entry", "stamp"}
    BY <1>21, <2>1 DEF Returned, Over, vars
  <2> QED
    BY <1>21, <2>1, <2>2 DEF AtInv, vars
<1> QED
  BY <1>7, <1>8, <1>9, <1>10, <1>11, <1>12, <1>13, <1>14, <1>15, <1>16, <1>17, <1>18, <1>19,
     <1>20, <1>21 DEF Next, Step, RestorePath

(* The old file, or the whole new one: a file is bound to what was written *)
(* only when all of it was.                                                *)
LEMMA OldOrNewStep ==
    ASSUME TypeOK, Given, AtInv, OldOrNew, Next
    PROVE  OldOrNew'
<1> SUFFICES ASSUME ~options.clean, "rename" \notin faults', NEW q \in existed, IsFile(q)
             PROVE  \/ names'[q] = <<"old", q>>
                    \/ names'[q] = <<"new", q>> /\ written'[q] = Chunks
  <2>1. UNCHANGED <<options, existed>> /\ existed \subseteq Paths
    BY GivenStays DEF given, TypeOK
  <2>2. \A p \in Paths : IsFile(p)' <=> IsFile(p)
    BY GivenStays, DerivedFromGiven
  <2> QED
    BY <2>1, <2>2 DEF OldOrNew
<1>1. q \in Paths /\ options.overwrite /\ pc # "clean"
  BY DEF TypeOK, Given, AtInv
<1>2. faults \subseteq faults'
  BY DEF Next, Step, RestorePath, CleanName, CleanDir, Cleaned, Skip, RestoreDir, PrepareLink,
     MakeLink, OpenFile, WriteChunk, FinishFile, RemoveReplaced, RenameAgain, ChunkUnreadable,
     WriteFails, EntriesDone, Stamp, Done, Crash, Returned, Fail, vars
<1>3. names[q] = <<"old", q>> \/ (names[q] = <<"new", q>> /\ written[q] = Chunks)
  <2>1. "rename" \notin faults
    BY <1>2
  <2> QED
    BY <2>1 DEF OldOrNew
<1>4. CASE names'[q] = names[q] /\ written'[q] = written[q]
  BY <1>3, <1>4
<1>5. ASSUME NEW p \in Paths, PrepareLink(p)
      PROVE  names'[q] = names[q] /\ written'[q] = written[q]
  BY <1>1, <1>5 DEF PrepareLink, Bind, TypeOK
<1>6. ASSUME NEW p \in Paths, MakeLink(p)
      PROVE  names'[q] = names[q] /\ written'[q] = written[q]
  <2>1. CASE Linked(p)
    <3>1. p # q
      BY <2>1 DEF Linked, AtInv
    <3> QED
      BY <1>1, <2>1, <3>1 DEF Linked, TypeOK
  <2>2. CASE LinkRefused(p)
    BY <2>2 DEF LinkRefused, Fail
  <2> QED
    BY <1>6, <2>1, <2>2, MakeLinkOutcome
<1>7. ASSUME NEW p \in Paths, OpenFile(p)
      PROVE  names'[q] = names[q] /\ written'[q] = written[q]
  BY <1>1, <1>7, OpenFileOutcome DEF Opened, OpenRefused, Fail
<1>8. ASSUME NEW p \in Paths, WriteChunk(p)
      PROVE  names'[q] = <<"old", q>> \/ (names'[q] = <<"new", q>> /\ written'[q] = Chunks)
  <2>1. CASE p = q
    <3>1. written[q] # Chunks
      BY <1>8, <2>1, RestoreAssumption DEF WriteChunk
    <3> QED
      BY <1>3, <1>8, <3>1 DEF WriteChunk
  <2>2. CASE p # q
    BY <1>1, <1>3, <1>8, <2>2 DEF WriteChunk, TypeOK
  <2> QED
    BY <2>1, <2>2
<1>9. ASSUME NEW p \in Paths, FinishFile(p)
      PROVE  names'[q] = <<"old", q>> \/ (names'[q] = <<"new", q>> /\ written'[q] = Chunks)
  <2>1. names' = [names EXCEPT ![p] = <<"new", p>>] /\ written' = written /\ written[p] = Chunks
    BY <1>1, <1>9 DEF FinishFile, Bind
  <2> QED
    BY <1>1, <1>3, <2>1 DEF TypeOK
<1>10. \A p \in Paths : ~RemoveReplaced(p) /\ ~RenameAgain(p)
  BY <1>2 DEF RemoveReplaced, RenameAgain, AtInv
<1>11. CASE ~\E p \in Paths : RestorePath(p)
  BY <1>1, <1>4, <1>11 DEF Next, Step, CleanName, CleanDir, Cleaned, Skip, RestoreDir, ChunkUnreadable,
     WriteFails, EntriesDone, Stamp, Done, Crash, Returned, Fail, vars
<1> QED
  BY <1>4, <1>5, <1>6, <1>7, <1>8, <1>9, <1>10, <1>11 DEF RestorePath

LEMMA Phases ==
    ASSUME Next
    PROVE  /\ pc \in Over => UNCHANGED vars
           /\ pc = "clean" => pc' = "clean" \/ pc' \in Stopped \/ Cleaned
           /\ pc' = "clean" => pc = "clean"
           /\ pc = "stamp" => Stamp \/ Done \/ pc' \in Stopped
           /\ pc' \in {"stamp", "done"} => pc \in {"stamp", "done"} \/ EntriesDone
           /\ pc' = "link" => \E p \in Paths : PrepareLink(p)
<1> USE DEF Over, Stopped
<1>1. \A p \in Paths : RestorePath(p) =>
        /\ pc \in {"entry", "link", "write", "rename"}
        /\ pc' \in {"entry", "write", "rename", "failed"} \/ PrepareLink(p)
  BY MakeLinkOutcome, OpenFileOutcome
     DEF RestorePath, PrepareLink, Linked, LinkRefused, Opened, OpenRefused, WriteChunk, FinishFile,
         RemoveReplaced, RenameAgain, AtPath, AtEntry, NextEntry, Fail
<1>2. \A p \in Paths : PrepareLink(p) => pc' = "link"
  BY DEF PrepareLink
<1>3. CASE \E p \in Paths : RestorePath(p)
  BY <1>1, <1>2, <1>3
<1>4. CASE \E p \in Paths : CleanName(p)
  BY <1>4 DEF CleanName
<1>5. CASE \E d \in Dirs : CleanDir(d)
  BY <1>5 DEF CleanDir
<1>6. CASE Cleaned \/ Skip \/ RestoreDir \/ EntriesDone
  BY <1>6 DEF Cleaned, Skip, RestoreDir, EntriesDone, AtEntry, NextEntry
<1>7. CASE ChunkUnreadable \/ WriteFails \/ Crash
  BY <1>7 DEF ChunkUnreadable, WriteFails, Crash, Fail
<1>8. CASE Stamp \/ Done
  BY <1>8 DEF Stamp, Done
<1>9. CASE Returned
  BY <1>9 DEF Returned, vars
<1> QED
  BY <1>3, <1>4, <1>5, <1>6, <1>7, <1>8, <1>9 DEF Next, Step

LEMMA ClearedStep ==
    ASSUME TypeOK, AtInv, ClearedInv, Next
    PROVE  ClearedInv'
<1> SUFFICES ASSUME options.clean, pc' \notin Stopped \union {"clean"}, NEW p \in Paths \ selected
             PROVE  names'[p] = Absent
  BY GivenStays DEF given, ClearedInv
<1>1. CASE pc = "clean"
  BY <1>1, Phases DEF Cleaned
<1>2. CASE pc # "clean"
  <2>1. pc \notin Stopped
    BY Phases DEF Stopped, Over, vars
  <2>2. names[p] = Absent
    BY <1>2, <2>1 DEF ClearedInv
  <2> QED
    BY <1>2, <2>2, NamesStep
<1> QED
  BY <1>1, <1>2

LEMMA StampStep ==
    ASSUME TypeOK, AtInv, StampInv, Next
    PROVE  StampInv'
<1>1. /\ UNCHANGED <<options, mode>> /\ Len(SortOrder) \in Nat /\ at \in Nat
      /\ dirs \in [Dirs -> Modes \union {Absent}]
  BY GivenStays, TheOrders DEF given, TypeOK
<1>2. CASE EntriesDone
  BY <1>1, <1>2 DEF EntriesDone, StampInv
<1>3. CASE Stamp
  <2> SUFFICES ASSUME ~options.include, NEW i \in at' + 1..Len(SortOrder), SortOrder[i] \in Dirs
               PROVE  SortOrder[i] \in stamped' /\ dirs'[SortOrder[i]] = mode[SortOrder[i]]
    BY <1>1, <1>3 DEF StampInv
  <2>1. i = at \/ i \in at + 1..Len(SortOrder)
    BY <1>1, <1>3 DEF Stamp
  <2>2. CASE i = at
    BY <1>1, <1>3, <2>2 DEF Stamp, Entry
  <2>3. CASE i \in at + 1..Len(SortOrder)
    BY <1>1, <1>3, <2>3 DEF Stamp, StampInv
  <2> QED
    BY <2>1, <2>2, <2>3
<1>4. CASE Done
  BY <1>1, <1>4 DEF Done, StampInv
<1>5. CASE pc' \notin {"stamp", "done"}
  BY <1>5 DEF StampInv
<1>6. CASE pc = "done"
  BY <1>1, <1>6, Phases DEF StampInv, Over, vars
<1> QED
  BY <1>2, <1>3, <1>4, <1>5, <1>6, Phases DEF Stopped

(* Writable directories can be changed once they exist. *)
LEMMA CanWrite ==
    ASSUME TypeOK, Writable, NEW tree, NEW d \in Dirs \union {Top},
           d \in Dirs => tree[d] \in {"rw", mode[d]}
    PROVE  CanChange(tree, d)
<1> SUFFICES ASSUME d \in Dirs PROVE tree[d] = "rw" \/ (options.root /\ tree[d] # Absent)
  BY DEF CanChange
<1>1. mode[d] \in Modes /\ "rw" \in Modes /\ Absent \notin Modes
  BY RestoreAssumption DEF TypeOK, Modes
<1> QED
  BY <1>1 DEF Writable

LEMMA DirsStep ==
    ASSUME TypeOK, AtInv, \A d \in Dirs : dirs[d] \in {"rw", Absent, mode[d]}, Next
    PROVE  \A d \in Dirs : dirs'[d] \in {"rw", Absent, mode'[d]}
<1>1. mode' = mode /\ dirs \in [Dirs -> Modes \union {Absent}]
  BY GivenStays DEF given, TypeOK
<1>2. ASSUME NEW p \in Paths, dirs' = WithDir(DirOf[p], "rw")
      PROVE  \A d \in Dirs : dirs'[d] \in {"rw", Absent, mode[d]}
  BY <1>1, <1>2 DEF WithDir
<1>3. CASE RestoreDir
  BY <1>1, <1>3 DEF RestoreDir, WithDir
<1>4. CASE Stamp
  BY <1>1, <1>4 DEF Stamp
<1>5. CASE \E d \in Dirs : CleanDir(d)
  BY <1>1, <1>5 DEF CleanDir
<1>6. ASSUME NEW p \in Paths, RestorePath(p) PROVE dirs' = WithDir(DirOf[p], "rw") \/ dirs' = dirs
  BY <1>6, OpenFileOutcome, MakeLinkOutcome
     DEF RestorePath, PrepareLink, Linked, LinkRefused, Opened, OpenRefused, WriteChunk, FinishFile,
         RemoveReplaced, RenameAgain, Fail
<1>7. CASE dirs' = dirs
  BY <1>1, <1>7
<1> QED
  BY <1>1, <1>2, <1>3, <1>4, <1>5, <1>6, <1>7 DEF Next, Step, CleanName, Cleaned, Skip,
     ChunkUnreadable, WriteFails, EntriesDone, Done, Crash, Returned, Fail, vars

(* From entry to entry *)
LEMMA Onward ==
    ASSUME Next, pc # "clean", pc' \in {"entry", "link", "write", "rename"}
    PROVE  /\ pc \in {"entry", "link", "write", "rename"}
           /\ \/ at' = at + 1 /\ pc' = "entry"
              \/ at' = at /\ pc' \in {"write", "rename"}
              \/ at' = at /\ pc' = "link" /\ pc = "entry"
<1>1. ASSUME NEW p \in Paths, PrepareLink(p)
      PROVE  pc = "entry" /\ pc' = "link" /\ at' = at
  BY <1>1 DEF PrepareLink, AtPath, AtEntry
<1>2. ASSUME NEW p \in Paths, MakeLink(p) \/ FinishFile(p) \/ RenameAgain(p)
      PROVE  pc \in {"link", "write", "rename"} /\ ((at' = at + 1 /\ pc' = "entry") \/ pc' = "failed")
  BY <1>2, MakeLinkOutcome DEF Linked, LinkRefused, FinishFile, RenameAgain, NextEntry, Fail
<1>3. ASSUME NEW p \in Paths, OpenFile(p) \/ WriteChunk(p) \/ RemoveReplaced(p)
      PROVE  pc \in {"entry", "write"} /\ ((at' = at /\ pc' \in {"write", "rename"}) \/ pc' = "failed")
  BY <1>3, OpenFileOutcome DEF Opened, OpenRefused, WriteChunk, RemoveReplaced, AtPath, AtEntry, Fail
<1>4. CASE Skip \/ RestoreDir
  BY <1>4 DEF Skip, RestoreDir, AtEntry, NextEntry
<1>5. ~(\E p \in Paths : CleanName(p)) /\ ~(\E d \in Dirs : CleanDir(d)) /\ ~Cleaned
  BY DEF CleanName, CleanDir, Cleaned
<1>6. /\ ~ChunkUnreadable /\ ~WriteFails /\ ~EntriesDone /\ ~Stamp /\ ~Done
      /\ ~Crash /\ ~Returned
  BY DEF ChunkUnreadable, WriteFails, EntriesDone, Stamp, Done, Crash, Returned, Fail, Over, vars
<1> QED
  BY <1>1, <1>2, <1>3, <1>4, <1>5, <1>6 DEF Next, Step, RestorePath

LEMMA WayStep ==
    ASSUME TypeOK, Given, AtInv, WayClear, Next
    PROVE  WayClear'
<1>1. /\ UNCHANGED <<options, mode, selected, existed>> /\ (Writable' <=> Writable)
      /\ Len(SortOrder) \in Nat /\ at \in Nat
  BY GivenStays, DerivedFromGiven, TheOrders DEF TypeOK
<1>2. \A d \in Dirs : dirs'[d] \in {"rw", Absent, mode'[d]}
  BY DirsStep DEF WayClear
<1>3. ASSUME ~options.overwrite, pc' \in {"entry", "link", "write", "rename"},
             NEW i \in at'..Len(SortOrder), SortOrder[i] \in Paths,
             i # at' \/ pc' \in {"entry", "link"}
      PROVE  names'[SortOrder[i]] = Absent
  <2>1. pc # "clean"
    BY <1>3 DEF AtInv, TypeOK, Options
  <2>2. /\ pc \in {"entry", "link", "write", "rename"}
        /\ \/ at' = at + 1 /\ pc' = "entry"
           \/ at' = at /\ pc' \in {"write", "rename"}
           \/ at' = at /\ pc' = "link" /\ pc = "entry"
    BY <1>3, <2>1, Onward
  <2>3. at >= 1 /\ i \in 1..Len(SortOrder) /\ i >= at
    BY <1>1, <1>3, <2>2 DEF AtInv
  <2>4. CASE i # at
    <3>1. names[SortOrder[i]] = Absent
      BY <1>1, <1>3, <2>2, <2>3, <2>4 DEF WayClear
    <3>2. at \in 1..Len(SortOrder) => SortOrder[i] # Entry
      BY <2>3, <2>4, TheOrders DEF Entry
    <3> QED
      BY <1>3, <2>1, <3>1, <3>2, NamesStep
  <2>5. CASE i = at
    <3>1. at' = at /\ pc' = "link" /\ pc = "entry"
      BY <1>1, <1>3, <2>2, <2>5
    <3>2. names[SortOrder[i]] = Absent
      BY <1>1, <1>3, <2>3, <2>5, <3>1 DEF WayClear
    <3>3. PICK p \in Paths : PrepareLink(p)
      BY <3>1, Phases
    <3>4. UNCHANGED names
      BY <1>3, <3>3 DEF PrepareLink
    <3> QED
      BY <3>2, <3>4
  <2> QED
    BY <2>4, <2>5
<1>4. ASSUME pc' = "link"
      PROVE  /\ DirOf[Entry'] \in Dirs => dirs'[DirOf[Entry']] # Absent
             /\ Writable' => names'[Entry'] = Absent
  <2>1. PICK p \in Paths : PrepareLink(p)
    BY <1>4, Phases
  <2>2. /\ pc = "entry" /\ Entry' = p /\ Entry = p /\ at' = at /\ at \in 1..Len(SortOrder)
        /\ dirs' = WithDir(DirOf[p], "rw")
        /\ \/ options.overwrite /\ CanChange(dirs', DirOf[p]) /\ Bind(p, Absent)
           \/ ~(options.overwrite /\ CanChange(dirs', DirOf[p])) /\ UNCHANGED names
    BY <2>1, EntryAt DEF PrepareLink, AtPath, AtEntry, Entry
  <2>3. ASSUME DirOf[p] \in Dirs PROVE dirs'[DirOf[p]] # Absent /\ dirs'[DirOf[p]] \in {"rw", mode[DirOf[p]]}
    <3>1. /\ dirs \in [Dirs -> Modes \union {Absent}] /\ mode[DirOf[p]] \in Modes
          /\ "rw" \in Modes /\ Absent \notin Modes
      BY <2>3, RestoreAssumption DEF TypeOK, Modes
    <3>2. dirs'[DirOf[p]] # Absent
      BY <2>2, <2>3, <3>1 DEF WithDir
    <3> QED
      BY <1>1, <1>2, <2>3, <3>2
  <2>4. ASSUME Writable PROVE names'[p] = Absent
    <3>1. DirOf[p] \in Dirs \union {Top}
      BY RestoreAssumption
    <3>2. CanChange(dirs', DirOf[p])
      BY <2>3, <2>4, <3>1, CanWrite
    <3>3. CASE options.overwrite
      BY <2>2, <3>2, <3>3 DEF Bind, TypeOK
    <3>4. CASE ~options.overwrite
      <4>1. SortOrder[at] = p /\ at \in at..Len(SortOrder)
        BY <2>2 DEF Entry
      <4>2. names[p] = Absent
        BY <2>2, <3>4, <4>1 DEF WayClear
      <4> QED
        BY <2>2, <3>4, <4>2
    <3> QED
      BY <3>3, <3>4
  <2> QED
    BY <1>1, <2>2, <2>3, <2>4
<1> QED
  BY <1>1, <1>2, <1>3, <1>4 DEF WayClear

(* What is written goes to the entry in hand. *)
LEMMA WrittenStep ==
    ASSUME TypeOK, AtInv, Next
    PROVE  \/ UNCHANGED written
           \/ /\ at \in 1..Len(SortOrder) /\ Entry \in Paths /\ pc \in {"link", "write"}
              /\ \A q \in Paths \ {Entry} : written'[q] = written[q]
<1> USE EntryAt DEF TypeOK
<1>1. ASSUME NEW p \in Paths, MakeLink(p) \/ WriteChunk(p)
      PROVE  /\ pc \in {"link", "write"} /\ Entry = p
             /\ \A q \in Paths \ {p} : written'[q] = written[q]
  BY <1>1, MakeLinkOutcome DEF Linked, LinkRefused, Fail, WriteChunk
<1>2. (\E p \in Paths : MakeLink(p) \/ WriteChunk(p)) \/ UNCHANGED written
  BY OpenFileOutcome DEF Next, Step, RestorePath, PrepareLink, Opened, OpenRefused, FinishFile,
     RemoveReplaced, RenameAgain, CleanName, CleanDir, Cleaned, Skip, RestoreDir, ChunkUnreadable,
     WriteFails, EntriesDone, Stamp, Done, Crash, Returned, Fail, vars
<1> QED
  BY <1>1, <1>2

(* Where an entry's content is: at a place of its own or an earlier one.   *)
LEMMA ContentIsEarlier ==
    ASSUME TypeOK, Given, NEW p \in Paths, FollowsItsFile(p)
    PROVE  \E q \in Paths :
             /\ Original(p) = <<"new", q>> /\ Place(SortOrder, q) \in 1..Place(SortOrder, p)
             /\ Place(SortOrder, p) \in 1..Len(SortOrder)
             /\ IsHardLink(p) => /\ q = FirstAlias(p) /\ q \in selected /\ IsFile(q)
                                 /\ Place(SortOrder, q) < Place(SortOrder, p)
             /\ ~IsHardLink(p) => q = p
<1>1. \A q \in Paths : Place(SortOrder, q) \in 1..Len(SortOrder) /\ Len(SortOrder) \in Nat
  BY TheOrders DEF Entries
<1>2. CASE IsHardLink(p)
  <2>1. inode[p] \in Paths /\ FirstAlias(p) = inode[p] /\ IsFile(inode[p])
        /\ Original(p) = <<"new", inode[p]>>
    BY <1>2, FileOrLink
  <2>2. inode[p] \in selected /\ Place(SortOrder, inode[p]) < Place(SortOrder, p)
    BY <1>2, <2>1 DEF FollowsItsFile
  <2>3. Place(SortOrder, inode[p]) \in 1..Place(SortOrder, p)
    BY <1>1, <2>1, <2>2
  <2> QED
    BY <1>1, <1>2, <2>1, <2>2, <2>3
<1>3. CASE ~IsHardLink(p)
  <2>1. Original(p) = <<"new", p>>
    BY <1>3, FileOrLink DEF TypeOK
  <2>2. Place(SortOrder, p) \in 1..Place(SortOrder, p)
    BY <1>1
  <2> QED
    BY <1>1, <1>3, <2>1, <2>2
<1> QED
  BY <1>2, <1>3

(* What was handled is not touched again. *)
LEMMA HandledStays ==
    ASSUME TypeOK, Given, AtInv, Next, pc \notin Stopped,
           NEW i \in 1..Len(SortOrder), Handled(i), SortOrder[i] \in Paths,
           FollowsItsFile(SortOrder[i]), Faithful(SortOrder[i])
    PROVE  Faithful(SortOrder[i])'
<1> DEFINE p == SortOrder[i]
<1>1. Place(SortOrder, p) = i /\ Len(SortOrder) \in Nat
  BY TheOrders
<1>2. PICK q \in Paths : Original(p) = <<"new", q>> /\ Place(SortOrder, q) \in 1..Place(SortOrder, p)
  BY ContentIsEarlier
<1>3. Place(SortOrder, q) <= i /\ SortOrder[Place(SortOrder, q)] = q
  BY <1>1, <1>2, TheOrders DEF Entries
<1>4. ASSUME at \in 1..Len(SortOrder), pc \in {"entry", "link", "write", "rename"}
      PROVE  Entry # p /\ Entry # q
  <2>1. i < at
    BY <1>4 DEF Handled
  <2>2. Place(SortOrder, Entry) = at
    BY <1>4, TheOrders DEF Entry
  <2> QED
    BY <1>1, <1>2, <1>3, <2>1, <2>2
<1>5. pc # "clean"
  BY <1>1 DEF Handled, AtInv
<1>6. names'[p] = names[p]
  BY <1>4, <1>5, NamesStep
<1>7. written'[q] = written[q]
  BY <1>4, WrittenStep
<1>8. Original(p)' = Original(p)
  BY GivenStays, DerivedFromGiven
<1>9. names[p] = Original(p) /\ written[q] = Chunks
  BY <1>2 DEF Faithful
<1> HIDE DEF p
<1> QED
  BY <1>2, <1>6, <1>7, <1>8, <1>9 DEF Faithful, p

(* The steps that end the handling of an entry *)
LEMMA Advance ==
    ASSUME TypeOK, Given, AtInv, Next, pc' \notin Stopped,
           NEW i \in 1..Len(SortOrder), Handled(i)', ~Handled(i)
    PROVE  /\ i = at /\ Entry = SortOrder[i]
           /\ \/ Skip \/ RestoreDir
              \/ \E p \in Paths : Linked(p) \/ FinishFile(p) \/ RenameAgain(p)
<1>1. at \in 0..(Len(SortOrder) + 1) /\ Len(SortOrder) \in Nat /\ pc \notin {"stamp", "done"} /\ ~(i < at)
  BY TheOrders DEF TypeOK, Handled
<1>2. CASE at' = at + 1 /\ pc' = "entry"
  <2>1. i = at
    BY <1>1, <1>2 DEF Handled
  <2>2. \/ Skip \/ RestoreDir
        \/ \E p \in Paths : Linked(p) \/ FinishFile(p) \/ RenameAgain(p)
    <3>1. at' # at /\ pc' # "failed"
      BY <1>1, <1>2
    <3>2. ASSUME NEW p \in Paths, RestorePath(p) PROVE Linked(p) \/ FinishFile(p) \/ RenameAgain(p)
      BY <3>1, <3>2, OpenFileOutcome, MakeLinkOutcome DEF RestorePath, PrepareLink, LinkRefused,
         Opened, OpenRefused, WriteChunk, RemoveReplaced, Fail
    <3> QED
      BY <1>2, <3>1, <3>2 DEF Next, Step, CleanName, CleanDir, Cleaned, ChunkUnreadable, WriteFails,
         EntriesDone, Stamp, Done, Crash, Returned, Fail, vars
  <2> QED
    BY <2>1, <2>2 DEF Entry
<1>3. CASE EntriesDone
  BY <1>1, <1>3 DEF EntriesDone
<1>4. CASE pc # "clean" /\ pc' \in {"entry", "link", "write", "rename"}
  BY <1>1, <1>2, <1>4, Onward DEF Handled
<1>5. CASE pc = "clean"
  <2>1. at = 1 /\ (pc' = "clean" \/ Cleaned)
    BY <1>5, Phases DEF AtInv
  <2>2. pc' \in {"clean", "entry"} /\ at' = at
    BY <1>5, <2>1 DEF Next, Step, RestorePath, CleanName, CleanDir, Cleaned, Skip, RestoreDir, PrepareLink,
       MakeLink, OpenFile, WriteChunk, FinishFile, RemoveReplaced, RenameAgain, ChunkUnreadable,
       WriteFails, EntriesDone, Stamp, Done, Crash, Returned, Fail, vars, AtPath, AtEntry, Over
  <2> QED
    BY <1>1, <2>1, <2>2 DEF Handled
<1>6. pc' \in {"clean", "entry", "link", "write", "rename", "stamp"} \union Over
  BY TypeStep DEF TypeOK
<1> QED
  BY <1>1, <1>2, <1>3, <1>4, <1>5, <1>6, Phases DEF Over, Stopped

(* The entry that was in hand is restored. *)
LEMMA EntryRestored ==
    ASSUME TypeOK, Given, AtInv, HandledFaithful, Next, pc \notin Stopped,
           NEW p \in Paths \intersect selected, Entry = p, at \in 1..Len(SortOrder),
           FollowsItsFile(p),
           Linked(p) \/ FinishFile(p) \/ RenameAgain(p)
    PROVE  Faithful(p)'
<1>1. Original(p)' = Original(p) /\ names \in [Paths -> Nodes \union {Absent}] /\ written \in [Paths -> 0..Chunks]
  BY GivenStays, DerivedFromGiven DEF TypeOK
<1>2. ASSUME NEW q \in Paths, Original(p) = <<"new", q>>, names'[p] = <<"new", q>>, written'[q] = Chunks
      PROVE  Faithful(p)'
  BY <1>1, <1>2 DEF Faithful
<1>3. CASE Linked(p) /\ IsHardLink(p)
  <2>1. PICK q \in Paths :
          /\ Original(p) = <<"new", q>> /\ q = FirstAlias(p) /\ q \in selected /\ IsFile(q)
          /\ Place(SortOrder, q) < Place(SortOrder, p)
    BY <1>3, ContentIsEarlier
  <2>2. /\ Place(SortOrder, p) = at /\ Place(SortOrder, q) \in 1..Len(SortOrder)
        /\ SortOrder[Place(SortOrder, q)] = q
    BY TheOrders DEF Entry, Entries
  <2>3. Handled(Place(SortOrder, q)) /\ FollowsItsFile(q) /\ Original(q) = <<"new", q>>
    BY <2>1, <2>2, FileOrLink DEF Handled
  <2>4. Faithful(q)
    BY <2>1, <2>2, <2>3 DEF HandledFaithful
  <2>5. names[q] = <<"new", q>> /\ written[q] = Chunks
    BY <2>3, <2>4 DEF Faithful
  <2>6. names'[p] = names[q] /\ written' = written
    BY <1>1, <1>3, <2>1 DEF Linked
  <2> QED
    BY <1>2, <2>1, <2>5, <2>6
<1>4. CASE ~IsHardLink(p)
  <2>1. Original(p) = <<"new", p>>
    BY <1>4, FileOrLink DEF TypeOK
  <2>2. CASE Linked(p)
    BY <1>1, <1>2, <1>4, <2>1, <2>2 DEF Linked
  <2>3. CASE FinishFile(p)
    <3>1. names'[p] = <<"new", p>>
      BY <1>1, <2>3 DEF FinishFile, Bind, AtInv
    <3> QED
      BY <1>2, <2>1, <2>3, <3>1 DEF FinishFile
  <2>4. CASE RenameAgain(p)
    BY <1>1, <1>2, <2>1, <2>4 DEF RenameAgain, Bind, AtInv
  <2> QED
    BY <2>2, <2>3, <2>4
<1>5. CASE IsHardLink(p) /\ (FinishFile(p) \/ RenameAgain(p))
  BY <1>5, FileOrLink DEF FinishFile, RenameAgain, AtInv
<1> QED
  BY <1>3, <1>4, <1>5

LEMMA FaithfulStep ==
    ASSUME TypeOK, Given, AtInv, HandledFaithful, Next
    PROVE  HandledFaithful'
<1> SUFFICES ASSUME pc' \notin Stopped, NEW i \in 1..Len(SortOrder), Handled(i)',
                    SortOrder[i] \in selected, FollowsItsFile(SortOrder[i])
             PROVE  Faithful(SortOrder[i])'
  <2>1. selected' = selected /\ selected \subseteq Paths
    BY GivenStays DEF given, TypeOK
  <2>2. \A p \in Paths : FollowsItsFile(p)' <=> FollowsItsFile(p)
    BY GivenStays, DerivedFromGiven
  <2> QED
    BY <2>1, <2>2 DEF HandledFaithful
<1>1. SortOrder[i] \in Paths /\ pc \notin Stopped
  BY Phases DEF TypeOK, Stopped, Over, vars
<1>2. CASE Handled(i)
  BY <1>1, <1>2, HandledStays DEF HandledFaithful
<1>3. CASE ~Handled(i)
  <2>1. /\ i = at /\ Entry = SortOrder[i]
        /\ \/ Skip \/ RestoreDir
           \/ \E p \in Paths : Linked(p) \/ FinishFile(p) \/ RenameAgain(p)
    BY <1>3, Advance
  <2>2. ~Skip /\ ~RestoreDir
    BY <1>1, <2>1, RestoreAssumption DEF Skip, RestoreDir
  <2>3. PICK p \in Paths : Linked(p) \/ FinishFile(p) \/ RenameAgain(p)
    BY <2>1, <2>2
  <2>4. p = SortOrder[i]
    BY <2>1, <2>3 DEF Linked, FinishFile, RenameAgain
  <2> QED
    BY <1>1, <2>1, <2>3, <2>4, EntryRestored
<1> QED
  BY <1>2, <1>3

(* Without a fault an error means a link without its file, or a directory  *)
(* that may not be written.                                                *)
LEMMA RestorableStep ==
    ASSUME TypeOK, Given, AtInv, HandledFaithful, WayClear, Restorable, Next
    PROVE  Restorable'
<1> SUFFICES ASSUME pc' = "failed", faults' = {}, \A p \in selected : FollowsItsFile(p),
                    options.root \/ ~\E d \in Dirs : mode[d] = "ro"
             PROVE  FALSE
  <2>1. UNCHANGED <<options, mode, selected>> /\ selected \subseteq Paths
    BY GivenStays DEF given, TypeOK
  <2>2. \A p \in Paths : FollowsItsFile(p)' <=> FollowsItsFile(p)
    BY GivenStays, DerivedFromGiven
  <2> QED
    BY <2>1, <2>2 DEF Restorable
<1>1. Writable
  BY DEF Writable, TypeOK, Modes
<1>2. pc # "failed"
  BY Phases DEF Restorable, Over, vars
<1>3. PICK p \in Paths : LinkRefused(p) \/ OpenRefused(p)
  <2>1. ~ChunkUnreadable /\ ~WriteFails
    BY DEF ChunkUnreadable, WriteFails, Fail
  <2>2. ~Returned
    BY <1>2 DEF Returned, vars
  <2>3. ASSUME NEW q \in Paths, RestorePath(q) PROVE LinkRefused(q) \/ OpenRefused(q)
    BY <2>3, OpenFileOutcome, MakeLinkOutcome DEF RestorePath, PrepareLink, Linked, Opened, WriteChunk,
       FinishFile, RemoveReplaced, RenameAgain, NextEntry
  <2> QED
    BY <1>2, <2>1, <2>2, <2>3 DEF Next, Step, CleanName, CleanDir, Cleaned, Skip, RestoreDir,
       EntriesDone, Stamp, Done, Crash, NextEntry
<1>4. DirOf[p] \in Dirs \union {Top}
  BY RestoreAssumption
<1>5. CASE LinkRefused(p)
  <2>1. pc = "link" /\ Entry = p /\ p \in selected /\ at \in 1..Len(SortOrder)
    BY <1>5, EntryAt DEF LinkRefused
  <2>2. names[p] = Absent
    BY <1>1, <2>1 DEF WayClear
  <2>3. CanChange(dirs, DirOf[p])
    BY <1>1, <1>4, <2>1, CanWrite DEF WayClear
  <2>4. ASSUME IsHardLink(p) PROVE names[FirstAlias(p)] # Absent
    <3>1. PICK q \in Paths : /\ q = FirstAlias(p) /\ q \in selected /\ IsFile(q)
                             /\ Place(SortOrder, q) < Place(SortOrder, p)
      BY <2>1, <2>4, ContentIsEarlier
    <3>2. /\ Place(SortOrder, p) = at /\ Place(SortOrder, q) \in 1..Len(SortOrder)
          /\ SortOrder[Place(SortOrder, q)] = q
      BY <2>1, TheOrders DEF Entry, Entries
    <3>3. Handled(Place(SortOrder, q)) /\ FollowsItsFile(q) /\ Original(q) = <<"new", q>>
      BY <3>1, <3>2, FileOrLink DEF Handled
    <3>4. names[q] = <<"new", q>>
      BY <2>1, <3>1, <3>2, <3>3 DEF HandledFaithful, Faithful, Stopped
    <3>5. <<"new", q>> \in Nodes /\ Absent \notin Nodes
      BY RestoreAssumption DEF Nodes
    <3> QED
      BY <3>1, <3>4, <3>5
  <2> QED
    BY <1>5, <2>2, <2>3, <2>4 DEF LinkRefused
<1>6. CASE OpenRefused(p)
  <2>1. pc = "entry" /\ Entry = p /\ at \in 1..Len(SortOrder)
    BY <1>6, EntryAt DEF OpenRefused, AtPath, AtEntry
  <2>2. CanChange(WithDir(DirOf[p], "rw"), DirOf[p])
    <3>1. DirOf[p] \in Dirs => WithDir(DirOf[p], "rw")[DirOf[p]] \in {"rw", mode[DirOf[p]]}
      BY DEF WayClear, WithDir, TypeOK
    <3> QED
      BY <1>1, <1>4, <3>1, CanWrite
  <2>3. ~options.overwrite => names[p] = Absent
    <3>1. SortOrder[at] = p /\ at \in at..Len(SortOrder)
      BY <2>1 DEF Entry
    <3> QED
      BY <2>1, <3>1 DEF WayClear
  <2> QED
    BY <1>6, <2>2, <2>3 DEF OpenRefused
<1> QED
  BY <1>3, <1>5, <1>6

-----------------------------------------------------------------------------
(* The theorems *)

(* RestoreInv is an inductive invariant of restore, whatever is restored   *)
(* over what, with whatever options, faults and crashes.                   *)
THEOREM RestoreInvariant == Spec => []RestoreInv
<1>1. RestoreInv /\ Next => RestoreInv'
  BY GivenStays, DerivedFromGiven, TypeStep, AtStep, FaithfulStep, ClearedStep, StampStep,
     WayStep, OthersStep, OldOrNewStep, RestorableStep DEF RestoreInv
<1>2. RestoreInv /\ UNCHANGED vars => RestoreInv'
  <2> SUFFICES ASSUME RestoreInv, UNCHANGED vars PROVE RestoreInv'
    OBVIOUS
  <2>1. UNCHANGED <<options, inode, symlinks, mode, selected, existed, names, written, dirs,
                    stamped, temp, at, pc, faults>>
    BY DEF vars, given
  <2>2. \A p : /\ (IsFile(p)' <=> IsFile(p)) /\ (FollowsItsFile(p)' <=> FollowsItsFile(p))
               /\ (Faithful(p)' <=> Faithful(p))
    BY <2>1 DEF IsFile, FollowsItsFile, IsHardLink, Faithful, Original, FirstAlias, Aliases
  <2>3. Entry' = Entry /\ IsFile(Entry)' = IsFile(Entry)
    BY <2>1 DEF Entry, IsFile, FirstAlias, Aliases
  <2>4. TypeOK' /\ Given' /\ AtInv'
    BY <2>1, <2>3 DEF RestoreInv, TypeOK, Given, AtInv
  <2>5. HandledFaithful' /\ ClearedInv' /\ StampInv' /\ WayClear'
    BY <2>1, <2>2, <2>3 DEF RestoreInv, HandledFaithful, Handled, ClearedInv, StampInv, WayClear, Writable
  <2>6. OthersUntouched' /\ OldOrNew' /\ Restorable'
    BY <2>1, <2>2 DEF RestoreInv, OthersUntouched, OldOrNew, Restorable
  <2> QED
    BY <2>4, <2>5, <2>6 DEF RestoreInv
<1> QED
  BY <1>1, <1>2, InitRestoreInv, PTL DEF Spec

(* An overwriting restore never leaves a file half written: it writes      *)
(* beside the path and renames, and binds a path only to a whole file.     *)
THEOREM FilesAreOldOrNew == Spec => []OldOrNew
<1>1. RestoreInv => OldOrNew
  BY DEF RestoreInv
<1> QED
  BY <1>1, RestoreInvariant, PTL

(* No path that was not selected is created, changed or removed.           *)
THEOREM OthersStayUntouched == Spec => []OthersUntouched
<1>1. RestoreInv => OthersUntouched
  BY DEF RestoreInv
<1> QED
  BY <1>1, RestoreInvariant, PTL

(* No return, with or without an error, leaves a temporary file.           *)
THEOREM TempsAreRemoved == Spec => []TempsRemoved
<1>1. RestoreInv => TempsRemoved
  BY DEF RestoreInv, AtInv, TempsRemoved
<1> QED
  BY <1>1, RestoreInvariant, PTL

LEMMA DoneIsFaithful == RestoreInv => RestoredFaithfully
<1> SUFFICES ASSUME RestoreInv, pc = "done" PROVE PathsFaithful /\ NothingOldRemains /\ DirsAsRecorded
  BY DEF RestoredFaithfully
<1> USE DEF RestoreInv
<1>1. \A e \in Entries : Place(SortOrder, e) \in 1..Len(SortOrder) /\ SortOrder[Place(SortOrder, e)] = e
  BY TheOrders
<1>2. selected \subseteq Paths /\ Paths \subseteq Entries /\ Dirs \subseteq Entries
  BY DEF TypeOK, Entries
<1>3. PathsFaithful
  BY <1>1, <1>2 DEF PathsFaithful, HandledFaithful, Handled, Stopped
<1>4. NothingOldRemains
  BY DEF NothingOldRemains, ClearedInv, Stopped
<1>5. DirsAsRecorded
  <2> SUFFICES ASSUME ~options.include PROVE stamped = Dirs /\ dirs = mode
    BY DEF DirsAsRecorded
  <2>1. at = 0 /\ at + 1 = 1
    BY DEF AtInv
  <2>2. \A d \in Dirs : d \in stamped /\ dirs[d] = mode[d]
    BY <1>1, <1>2, <2>1 DEF StampInv
  <2>3. stamped \subseteq Dirs /\ dirs \in [Dirs -> Modes \union {Absent}] /\ mode \in [Dirs -> Modes]
    BY DEF TypeOK
  <2> QED
    BY <2>2, <2>3
<1> QED
  BY <1>3, <1>4, <1>5

(* A restore that reports success has restored every path that was asked   *)
(* for as it was backed up, but for hard links that do not follow their    *)
(* file, has cleared what was to be cleared, and the directories have      *)
(* their metadata.                                                         *)
THEOREM SuccessIsFaithful == Spec => []RestoredFaithfully
BY DoneIsFaithful, RestoreInvariant, PTL

(* Where the manifest keeps the order of the walk, the exception is none:  *)
(* a restore of the whole snapshot restores all of it.  It is the sorting  *)
(* of the manifest that lets a hard link come before its file.             *)
THEOREM WalkOrderRestoresAll ==
    ASSUME SortOrder = WalkOrder
    PROVE  Spec => []WholeSnapshotFaithful
<1>1. RestoreInv => WholeSnapshotFaithful
  <2> SUFFICES ASSUME RestoreInv, pc = "done", ~options.include, NEW p \in Paths PROVE Faithful(p)
    BY DEF WholeSnapshotFaithful
  <2>1. TypeOK /\ Given /\ PathsFaithful /\ p \in selected
    BY DoneIsFaithful DEF RestoreInv, RestoredFaithfully, Given
  <2>2. FollowsItsFile(p)
    <3> SUFFICES ASSUME IsHardLink(p)
                 PROVE  /\ FirstAlias(p) \in selected
                        /\ Place(SortOrder, FirstAlias(p)) < Place(SortOrder, p)
      BY DEF FollowsItsFile
    <3>1. FirstAlias(p) = inode[p] /\ inode[p] # p /\ inode[p] \in Paths
      BY <2>1, FileOrLink
    <3>2. inode[p] \in selected /\ Place(WalkOrder, inode[p]) <= Place(WalkOrder, p)
      BY <2>1, <3>1 DEF Given
    <3>3. Place(WalkOrder, inode[p]) # Place(WalkOrder, p)
      BY <3>1, TheOrders DEF Entries
    <3>4. Place(WalkOrder, inode[p]) \in Nat /\ Place(WalkOrder, p) \in Nat
      BY <3>1, TheOrders DEF Entries
    <3> QED
      BY <3>1, <3>2, <3>3, <3>4
  <2> QED
    BY <2>1, <2>2 DEF PathsFaithful
<1> QED
  BY <1>1, RestoreInvariant, PTL

(* A restore that meets no fault fails only where a hard link was selected *)
(* without its file or sorts before it, or a directory may not be written. *)
THEOREM FailureHasACause == Spec => []Restorable
<1>1. RestoreInv => Restorable
  BY DEF RestoreInv
<1> QED
  BY <1>1, RestoreInvariant, PTL
==============================================================================
