------------------------------ MODULE MC_Codecs ------------------------------
(***************************************************************************)
(* The bridge's in-call codecs checked in one model: the address,         *)
(* packet-header-info and nameserver conversions (WireCodecs, inputs of   *)
(* MC_WireCodecs) and the decode side of the header-list codec            *)
(* (HeaderCollector).  They share no state: each step is a step of one of *)
(* them and leaves the other's variables alone.  A WireCodecs call keeps  *)
(* nothing for the next one, so each behaviour makes one such call, with *)
(* any input, at any point of the header collection: that covers every   *)
(* input without multiplying the collector's states by every input.      *)
(***************************************************************************)
EXTENDS MC_WireCodecs

CONSTANT HeaderCounts

VARIABLES pc, n, count, capacity, names, values, live, cap, slots, strOf,
          nextBlk, faults, result

HC == INSTANCE HeaderCollector

hcVars == <<pc, n, count, capacity, names, values, live, cap, slots, strOf,
            nextBlk, faults, result>>

CodecsInit == Init /\ HC!Init

CodecsNext ==
    \/ input = NULL /\ Next /\ UNCHANGED hcVars
    \/ HC!Next /\ UNCHANGED vars

CodecsSpec == CodecsInit /\ [][CodecsNext]_<<vars, hcVars>>

\* Both codecs' variables have their types.
CodecsTypeOK == TypeOK /\ HC!TypeOK

\* HeaderCollector's properties, stated there.
WritesWithinCapacity == HC!WritesWithinCapacity
NoLeakOnReturn == HC!NoLeakOnReturn
HeaderDecodeRefined == HC!HeaderDecodeRefined
=============================================================================
