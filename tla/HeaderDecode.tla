----------------------------- MODULE HeaderDecode -----------------------------
(***************************************************************************)
(* What decoding an event's header list promises (spec 4.6 and 4.5),     *)
(* with no arrays, capacities or allocator in it: the engine's headers   *)
(* are taken one at a time into an ordered collection; the call then     *)
(* either returns the whole list as name, value, name, value, ... or     *)
(* reports AllocationFailure having released every entry it took.  It    *)
(* never returns a truncated list.                                       *)
(*                                                                         *)
(* HeaderCollector is checked to implement this specification.          *)
(***************************************************************************)
EXTENDS Naturals, Sequences

CONSTANT NULL   \* the call's result when it reports AllocationFailure

VARIABLES
    n,      \* number of headers the event carries (fixed for the call)
    phase,  \* "collecting" or "done"
    held,   \* headers whose name and value the collection holds
    result  \* what the call returned: NULL or the flat list

\* Header i's name and value, in the order Java reads them.
FlatList(k) ==
    [j \in 1 .. 2 * k |-> <<(j + 1) \div 2, IF j % 2 = 1 THEN "name" ELSE "value">>]

Init ==
    /\ n \in Nat
    /\ phase = "collecting"
    /\ held = 0
    /\ result = NULL

\* The next header of the engine's list is copied into the collection.
Take ==
    /\ phase = "collecting"
    /\ held < n
    /\ held' = held + 1
    /\ UNCHANGED <<n, phase, result>>

\* Every header taken: the list is returned and the collection released.
Deliver ==
    /\ phase = "collecting"
    /\ held = n
    /\ phase' = "done"
    /\ held' = 0
    /\ result' = FlatList(n)
    /\ UNCHANGED n

\* An allocation failed, at any point: everything taken is released.
Fail ==
    /\ phase = "collecting"
    /\ phase' = "done"
    /\ held' = 0
    /\ result' = NULL
    /\ UNCHANGED n

Next == Take \/ Deliver \/ Fail

Spec == Init /\ [][Next]_<<n, phase, held, result>>

====
