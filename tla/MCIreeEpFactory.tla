---------------------------- MODULE MCIreeEpFactory ----------------------------
(* Small instances of IreeEpFactory for TLC. *)
EXTENDS IreeEpFactory, TLC

CONSTANTS t1, t2, e1, e2, n1, n2

\* Two drivers with a compiler backend and one without.
MCDrivers == {"local-task", "vulkan", "metal"}

\* Two drivers that both have one.
MCUsedDrivers == {"local-task", "vulkan"}

\* Bound: a host that makes EPs and sessions, and neither allocators nor a data
\* transfer, which ids and EPs do not depend on.
MCEpHost == \A t \in Threads :
              call'[t].op \notin {"CreateAllocator", "CreateDataTransfer"}
MCEpHostSpec == Init /\ [][Next /\ MCEpHost]_vars /\ Fairness

\* Threads and slots are interchangeable.
MCSymmetry == Permutations(Threads) \cup Permutations(EpSlots)
              \cup Permutations(InfoSlots)
===============================================================================
