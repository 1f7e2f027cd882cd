--------------------------- MODULE ExclusiveWriter ---------------------------
(***************************************************************************)
(* What the writer lock promises to the operations of a repository: one    *)
(* invocation at a time mutates it, and an invocation that is over, as the *)
(* writer or without having become it, does not come back.                 *)
(***************************************************************************)
CONSTANTS Procs, Nobody

VARIABLES
    writer,    \* the invocation that may mutate the repository, or Nobody
    past       \* invocations that are over

Init == writer = Nobody /\ past = {}

Enter(p) ==
    /\ writer = Nobody
    /\ p \notin past
    /\ writer' = p
    /\ UNCHANGED past

Leave(p) ==
    /\ writer = p
    /\ writer' = Nobody
    /\ past' = past \union {p}

GiveUp(p) ==
    /\ writer # p
    /\ p \notin past
    /\ past' = past \union {p}
    /\ UNCHANGED writer

Next == \E p \in Procs : Enter(p) \/ Leave(p) \/ GiveUp(p)

Spec == Init /\ [][Next]_<<writer, past>>
=============================================================================
