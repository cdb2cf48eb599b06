---------------------------- MODULE MCObjectFile ----------------------------
(***************************************************************************)
(* ObjectFile with names of all lengths up to beyond the limit.            *)
(***************************************************************************)
EXTENDS ObjectFile

ShortNames == UNION {[1 .. n -> Character] : n \in 1 .. MAX_LEN + 1}
=============================================================================
