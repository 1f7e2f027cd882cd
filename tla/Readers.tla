------------------------------ MODULE Readers ------------------------------
(***************************************************************************)
(* The readers of a repository: verify, check and the export of a kit,     *)
(* each of them beside writers and damage.  Readers change nothing in the  *)
(* repository, so that one of them at a time is enough.                    *)
(***************************************************************************)
EXTENDS Verification

CONSTANTS
    Staging,    \* see RepositoryCheck
    NoKit       \* see RecoveryKit

VARIABLES
    reader,      \* which of them reads
    scanPc, scanToRead, live, stored, checked, issues, lasting, excused,
    exportPc, exportToRead, toCopy, kit, steady

scanVars == <<scanPc, scanToRead, live, stored, checked, issues, lasting, excused>>
kitVars == <<exportPc, exportToRead, toCopy, kit, steady>>

Scan == INSTANCE RepositoryCheck WITH pc <- scanPc, toRead <- scanToRead

Export == INSTANCE RecoveryKit WITH pc <- exportPc, toRead <- exportToRead

ASSUME ReadersAssumption == NoKit \notin Export!Kits

ReadersInit ==
    /\ reader \in {"verify", "check", "export"}
    /\ Init /\ Scan!Init /\ Export!Init
    /\ reader # "verify" => checkpoint = NoFile

ReadersNext ==
    /\ UNCHANGED reader
    /\ \/ reader = "verify" /\ Next /\ UNCHANGED <<scanVars, kitVars>>
       \/ reader = "check" /\ Scan!Next /\ UNCHANGED <<run, checkpoint, found, kitVars>>
       \/ reader = "export" /\ Export!Next /\ UNCHANGED <<run, checkpoint, found, scanVars>>

ReadersSpec == ReadersInit /\ [][ReadersNext]_<<reader, vars, scanVars, kitVars>>

(* See RepositoryCheck. *)
DamageIsReported == Scan!DamageIsReported
NoFalseAlarm == Scan!NoFalseAlarm

(* See RecoveryKit. *)
ValidKitIsComplete == Export!ValidKitIsComplete
=============================================================================
