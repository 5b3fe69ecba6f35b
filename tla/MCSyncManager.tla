---------------------------- MODULE MCSyncManager ----------------------------
(* Instances of SyncManager for TLC. *)
EXTENDS SyncManager, TLC

Symmetry == Permutations(Threads) \cup Permutations(Backends)

\* What tests/test_sync_thread_safety.cpp serializes, extended to every call that
\* goes through a backend pointer, and the saves the consumer's lock covers.
AllSerialized == (LifecycleOps \cup PointerOps \cup {"edit", "update"}) \cap Ops

\* The consumer's lock around everything but the network phase, which
\* sync_manager.h:159 calls safe without it.
AllButNetwork == AllSerialized \ {"network"}
==============================================================================
