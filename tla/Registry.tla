------------------------------- MODULE Registry -------------------------------
(***************************************************************************)
(* What the factory's lazily filled tables promise to the code that uses   *)
(* them: a key is bound to at most one object, the binding never changes    *)
(* while the registry is open, and no object is bound to two keys.  Closing *)
(* the registry (the owner's destructor) drops the bindings.                *)
(*                                                                         *)
(* The factory's device_cache_, allocators_ and data_transfer_ are three    *)
(* registries: see DeviceRegistry, AllocatorRegistry and TransferRegistry   *)
(* in IreeEpFactory.                                                        *)
(***************************************************************************)
EXTENDS Naturals

CONSTANT Keys

VARIABLES
  entry,  \* entry[k] is the object bound to k, 0 when there is none
  open    \* FALSE once the owner is being destroyed

vars == <<entry, open>>

Init == /\ entry = [k \in Keys |-> 0]
        /\ open = TRUE

\* Bind a key that has no object to some object that no key has.
Bind(k) == LET v == entry'[k] IN
           /\ open
           /\ entry[k] = 0
           /\ v \in Nat \ {0}
           /\ \A j \in Keys : entry[j] # v
           /\ entry' = [entry EXCEPT ![k] = v]
           /\ UNCHANGED open

Close == /\ open
         /\ open' = FALSE
         /\ UNCHANGED entry

Clear == /\ ~open
         /\ entry' = [k \in Keys |-> 0]
         /\ UNCHANGED open

Next == \/ \E k \in Keys : Bind(k)
        \/ Close
        \/ Clear

Spec == Init /\ [][Next]_vars
===============================================================================
