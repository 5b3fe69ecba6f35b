--------------------------- MODULE NotebookFolders ---------------------------
(***************************************************************************)
(* What importing a folder promises: under every name a notebook shows a   *)
(* whole folder or nothing, and a folder its user was told of stays until  *)
(* the user deletes it.                                                    *)
(***************************************************************************)
CONSTANTS Names, Trees, None

VARIABLES
    shown,     \* shown[n]: the folder a reader finds under n
    promised   \* promised[n]: the folder the user was told is there

Init ==
    /\ shown = [n \in Names |-> None]
    /\ promised = [n \in Names |-> None]

Add(n, t) ==
    /\ shown[n] = None
    /\ shown' = [shown EXCEPT ![n] = t]
    /\ promised' = promised \/ promised' = [promised EXCEPT ![n] = t]

Promise(n) ==
    /\ shown[n] # None
    /\ promised' = [promised EXCEPT ![n] = shown[n]]
    /\ UNCHANGED shown

\* An import that nobody was told of may be taken back.
Withdraw(n) ==
    /\ promised[n] = None
    /\ shown' = [shown EXCEPT ![n] = None]
    /\ UNCHANGED promised

Delete(n) ==
    /\ shown' = [shown EXCEPT ![n] = None]
    /\ promised' = [promised EXCEPT ![n] = None]

Next ==
    \E n \in Names:
        Promise(n) \/ Withdraw(n) \/ Delete(n) \/ \E t \in Trees: Add(n, t)

Spec == Init /\ [][Next]_<<shown, promised>>
==============================================================================
