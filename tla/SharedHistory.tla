---------------------------- MODULE SharedHistory ----------------------------
(***************************************************************************)
(* What git sync promises about the notebook's shared history: it is one   *)
(* sequence of commits that only ever grows at its end, and a device       *)
(* extends it only with commits of its own, on top of everything that is   *)
(* in it.  A device may give up its copy and start again.                  *)
(***************************************************************************)
EXTENDS Integers, SequencesExt

CONSTANTS Devices, Root

VARIABLES
    log,   \* the shared sequence of commits
    seen   \* seen[d]: the part of it that device d knows

Init ==
    /\ log = Root
    /\ seen = [d \in Devices |-> Root]

\* A device asks for the shared history.
Learn(d) ==
    /\ seen' = [seen EXCEPT ![d] = log]
    /\ UNCHANGED log

\* A device that knows all of it adds commits; it may not learn that it did.
Extend(d) ==
    /\ seen[d] = log
    /\ IsStrictPrefix(log, log')
    /\ \A i \in Len(log) + 1 .. Len(log'): log'[i].by = d
    /\ seen' = seen \/ seen' = [seen EXCEPT ![d] = log']

\* A device gives up its copy of the notebook.
Forget(d) ==
    /\ seen' = [seen EXCEPT ![d] = Root]
    /\ UNCHANGED log

Next == \E d \in Devices: Learn(d) \/ Extend(d) \/ Forget(d)

Spec == Init /\ [][Next]_<<log, seen>>
==============================================================================
