--------------------------- MODULE HeaderCollector ---------------------------
(***************************************************************************)
(* quiche_h3_event_headers in h3_jni.c: copying an event's header list   *)
(* into two growable C arrays (struct header_collector, filled by         *)
(* header_cb) and then into a flat Java String[] of name, value, ...      *)
(*                                                                         *)
(* The heap is modelled as a set of live blocks; every malloc, realloc    *)
(* and free of the code is a change of that set.  realloc either grows   *)
(* the block in place, moves it (the old block is freed and its contents *)
(* copied) or fails (the old block stays).  Any of the allocations may   *)
(* fail.  The engine's header list is 1..n; a header is named by its      *)
(* position, a string block by the pair <<position, "name"|"value">> it  *)
(* holds; strOf is what NewStringUTF makes of each string block.        *)
(***************************************************************************)
EXTENDS Naturals, Sequences, FiniteSets, TLC

CONSTANTS
    HeaderCounts, \* numbers of headers an event may carry in this model
    NULL

ASSUME HeaderCounts \subseteq Nat

\* hc.capacity = 32 (h3_jni.c:214)
InitialCapacity == 32

ReallocOutcomes == {"fail", "inplace", "moved"}

VARIABLES
    pc,       \* "alloc", "collect", "cleanup", "build" or "done"
    n,        \* number of headers the event carries
    count,    \* hc.count
    capacity, \* hc.capacity
    names,    \* hc.names: a block or NULL
    values,   \* hc.values: a block or NULL
    live,     \* blocks currently allocated
    cap,      \* [array block -> its capacity in elements]
    slots,    \* [array block -> Seq(string block)]: its initialised elements
    strOf,    \* [string block -> <<header, "name" | "value">>]
    nextBlk,  \* the next fresh block address
    faults,   \* memory errors the code has committed so far
    result    \* what the call returns to Java: NULL or the flat list

vars == <<pc, n, count, capacity, names, values, live, cap, slots, strOf,
          nextBlk, faults, result>>

Fields == {"name", "value"}
Faults == {"double free", "use after free", "overflow"}

TypeOK ==
    /\ pc \in {"alloc", "collect", "cleanup", "build", "done"}
    /\ n \in HeaderCounts
    /\ count \in 0 .. n
    /\ capacity \in Nat
    /\ names \in Nat \cup {NULL}
    /\ values \in Nat \cup {NULL}
    /\ live \subseteq Nat
    /\ faults \subseteq Faults
    /\ result \in {NULL} \cup Seq(Nat \X Fields)

Init ==
    /\ pc = "alloc"
    /\ n \in HeaderCounts
    /\ count = 0
    /\ capacity = 0
    /\ names = NULL
    /\ values = NULL
    /\ live = {}
    /\ cap = <<>>
    /\ slots = <<>>
    /\ strOf = <<>>
    /\ nextBlk = 1
    /\ faults = {}
    /\ result = NULL

(***************************************************************************)
(* Heap helpers                                                            *)
(***************************************************************************)

\* free(p) of a set of distinct pointers: a pointer that is not live (and
\* not NULL) is a double free.
FreeFaults(ps) ==
    IF (ps \ {NULL}) \subseteq live THEN faults ELSE faults \cup {"double free"}

\* Reading the elements of an array block that is no longer allocated.
ReadFaults(b) ==
    IF b \in live THEN {} ELSE {"use after free"}

\* The string blocks the first k elements of the two arrays point to.
Strings(k) ==
    {slots[names][i] : i \in 1 .. k} \cup {slots[values][i] : i \in 1 .. k}

\* realloc(b, newCap) with outcome o, using fresh address a for a move:
\* the resulting pointer, and the heap functions after it.
ReallocPtr(b, o, a) == CASE o = "fail" -> NULL [] o = "inplace" -> b [] o = "moved" -> a

ReallocLive(lv, b, o, a) ==
    CASE o = "fail" -> lv [] o = "inplace" -> lv [] o = "moved" -> (lv \ {b}) \cup {a}

ReallocCap(cp, b, o, a, newCap) ==
    CASE o = "fail" -> cp
      [] o = "inplace" -> [cp EXCEPT ![b] = newCap]
      [] o = "moved" -> cp @@ (a :> newCap)

ReallocSlots(sl, b, o, a) ==
    IF o = "moved" THEN sl @@ (a :> sl[b]) ELSE sl

(***************************************************************************)
(* Allocate the two arrays (lines 211-221).                               *)
(***************************************************************************)
AllocArrays ==
    /\ pc = "alloc"
    /\ \/ /\ live' = {nextBlk, nextBlk + 1}
          /\ names' = nextBlk
          /\ values' = nextBlk + 1
          /\ capacity' = InitialCapacity
          /\ cap' = (nextBlk :> InitialCapacity) @@ (nextBlk + 1 :> InitialCapacity)
          /\ slots' = (nextBlk :> <<>>) @@ (nextBlk + 1 :> <<>>)
          /\ nextBlk' = nextBlk + 2
          /\ pc' = "collect"
          /\ UNCHANGED result
       \* one of the mallocs returned NULL: both are freed, NULL returned
       \/ /\ pc' = "done"
          /\ result' = NULL
          /\ UNCHANGED <<live, names, values, capacity, cap, slots, nextBlk>>
    /\ UNCHANGED <<n, count, strOf, faults>>

(***************************************************************************)
(* header_cb (lines 167-202), called once per header by                   *)
(* quiche_h3_event_for_each_header; a non-zero return stops the           *)
(* iteration and makes the caller clean up.                               *)
(***************************************************************************)

\* Fault variant of NeedsGrowth: grows only once the count exceeds it.
NeedsGrowthLate == count > capacity

\* "if (hc->count >= hc->capacity)": the arrays are full.
NeedsGrowth == count >= capacity

\* Lines 186-200 with the arrays nm and vl of capacity capy, on heap lv:
\* copy the next header's name and value into two fresh strings.
StoreHeader(nm, vl, capy, lv, cp, sl, a) ==
    /\ names' = nm
    /\ values' = vl
    /\ capacity' = capy
    /\ cap' = cp
    /\ \/ \* a malloc returned NULL: free(n); free(v); return -1
          /\ live' = lv
          /\ slots' = sl
          /\ nextBlk' = a
          /\ pc' = "cleanup"
          /\ UNCHANGED <<count, strOf, faults>>
       \/ /\ live' = lv \cup {a, a + 1}
          /\ strOf' = strOf @@ (a :> <<count + 1, "name">>)
                            @@ (a + 1 :> <<count + 1, "value">>)
          /\ slots' = [sl EXCEPT ![nm] = Append(@, a), ![vl] = Append(@, a + 1)]
          /\ faults' = faults
                       \cup (IF count >= cp[nm] \/ count >= cp[vl]
                             THEN {"overflow"} ELSE {})
                       \cup (IF {nm, vl} \subseteq lv
                             THEN {} ELSE {"use after free"})
          /\ count' = count + 1
          /\ nextBlk' = a + 2
          /\ UNCHANGED pc

HeaderCb ==
    /\ pc = "collect"
    /\ count < n
    /\ \/ /\ ~NeedsGrowth
          /\ StoreHeader(names, values, capacity, live, cap, slots, nextBlk)
       \/ /\ NeedsGrowth
          /\ \E on, ov \in ReallocOutcomes :
             LET a1 == nextBlk
                 a2 == nextBlk + 1
                 newCap == capacity * 2
                 nn == ReallocPtr(names, on, a1)
                 nv == ReallocPtr(values, ov, a2)
                 lv == ReallocLive(ReallocLive(live, names, on, a1), values, ov, a2)
                 cp == ReallocCap(ReallocCap(cap, names, on, a1, newCap),
                                  values, ov, a2, newCap)
                 sl == ReallocSlots(ReallocSlots(slots, names, on, a1), values, ov, a2)
             IN \/ \* a realloc failed: free(new_names); free(new_values);
                   \* return -1, leaving hc->names and hc->values as they were
                   /\ NULL \in {nn, nv}
                   /\ live' = lv \ {nn, nv}
                   /\ cap' = cp
                   /\ slots' = sl
                   /\ nextBlk' = nextBlk + 2
                   /\ pc' = "cleanup"
                   /\ UNCHANGED <<names, values, capacity, count, strOf, faults>>
                \/ /\ NULL \notin {nn, nv}
                   /\ StoreHeader(nn, nv, newCap, lv, cp, sl, nextBlk + 2)
    /\ UNCHANGED <<n, result>>

\* quiche_h3_event_for_each_header returns 0 once every header is copied.
IterationDone ==
    /\ pc = "collect"
    /\ count = n
    /\ pc' = "build"
    /\ UNCHANGED <<n, count, capacity, names, values, live, cap, slots, strOf,
                   nextBlk, faults, result>>

(***************************************************************************)
(* Releasing the collector (lines 226-232 and 253-259): free each of the  *)
(* first k names and values, then the two arrays.  The elements are read  *)
(* from the arrays whether or not those are still allocated.             *)
(***************************************************************************)
\* Fault variant of FreeCollected: the loop stops one element early.
FreeCollectedShort(k) ==
    /\ live' = live \ (Strings(k - 1) \cup {names, values})
    /\ faults' = FreeFaults(Strings(k - 1) \cup {names, values})
                 \cup ReadFaults(names) \cup ReadFaults(values)

FreeCollected(k) ==
    /\ live' = live \ (Strings(k) \cup {names, values})
    /\ faults' = FreeFaults(Strings(k) \cup {names, values})
                 \cup ReadFaults(names) \cup ReadFaults(values)

\* rc != 0 (lines 225-234): release everything, return NULL.
Cleanup ==
    /\ pc = "cleanup"
    /\ FreeCollected(count)
    /\ pc' = "done"
    /\ result' = NULL
    /\ UNCHANGED <<n, count, capacity, names, values, cap, slots, strOf, nextBlk>>

\* Fault variant of FlatResult: elements stored at i and i + 1 instead of
\* i * 2 and i * 2 + 1; the later names overwrite the values and the upper
\* half of the array stays null.
FlatResultUnscaled ==
    [j \in 1 .. 2 * count |->
        IF j <= count THEN strOf[slots[names][j]]
        ELSE IF j = count + 1 THEN strOf[slots[values][count]]
        ELSE NULL]

\* Fault variant of FlatResult: names and values at swapped indices.
FlatResultSwapped ==
    [j \in 1 .. 2 * count |->
        IF j % 2 = 0 THEN strOf[slots[names][j \div 2]]
                     ELSE strOf[slots[values][(j + 1) \div 2]]]

\* Lines 236-251: the flat String[] {name0, value0, name1, value1, ...}.
FlatResult ==
    [j \in 1 .. 2 * count |->
        IF j % 2 = 1 THEN strOf[slots[names][(j + 1) \div 2]]
                     ELSE strOf[slots[values][j \div 2]]]

\* Lines 236-261: build the Java array (NewObjectArray may fail and yield
\* NULL), then release the collector.
Build ==
    /\ pc = "build"
    /\ \/ result' = FlatResult
       \/ result' = NULL
    /\ FreeCollected(count)
    /\ pc' = "done"
    /\ UNCHANGED <<n, count, capacity, names, values, cap, slots, strOf, nextBlk>>

Next == AllocArrays \/ HeaderCb \/ IterationDone \/ Cleanup \/ Build

Spec == Init /\ [][Next]_vars

(***************************************************************************)
(* Properties                                                              *)
(***************************************************************************)

\* The arrays grow before they are full: no header is ever stored past the
\* capacity of its array, also at the 32nd/33rd header where growth starts.
WritesWithinCapacity == "overflow" \notin faults

\* Whatever allocation fails, and wherever, the call returns with every
\* block it allocated released.
NoLeakOnReturn == pc = "done" => live = {}

(***************************************************************************)
(* The collector implements HeaderDecode: the call is still collecting   *)
(* until it returns, and the collection holds the headers whose name and *)
(* value strings are allocated.  So every header stored is one step of  *)
(* Take, Cleanup and a failed Build are Fail, a successful Build is      *)
(* Deliver, and the array bookkeeping in between is stuttering.         *)
(***************************************************************************)
Decode == INSTANCE HeaderDecode WITH
    phase <- IF pc = "done" THEN "done" ELSE "collecting",
    held <- Cardinality(live \cap DOMAIN strOf) \div 2

\* Spec 4.6: the call takes the engine's headers in order and either
\* returns all of them, names and values paired as the engine delivered
\* them, or reports AllocationFailure with every string it copied
\* released; never a truncated or reordered list.
HeaderDecodeRefined == Decode!Spec

\* Spec 4.6: on a mid-collection allocation failure everything collected so
\* far is released without touching freed memory or freeing twice.
CleanupMemorySafe == faults \cap {"double free", "use after free"} = {}

=============================================================================
