------------------------------ MODULE MC_H3Send ------------------------------
(* Model-checking instance of H3Send.  Streams are model values given in *)
(* the .cfg files.  No symmetry: the liveness check would not be sound    *)
(* under it.                                                              *)
EXTENDS H3Send
=============================================================================
