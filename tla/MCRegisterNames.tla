-------------------------- MODULE MCRegisterNames --------------------------
(***************************************************************************)
(* RegisterNames on all short names over some letters, and on the names    *)
(* that begin like a special register.                                     *)
(***************************************************************************)
EXTENDS RegisterNames

CONSTANTS
  Letters,    \* the letters of the short names
  MaxNameLen  \* the length of the longest short name

Tails == UNION {[1 .. n -> {"u", "f", "b", "q", "x"}] : n \in 0 .. 3}

ShortNames ==
  UNION {[1 .. n -> Letters] : n \in 1 .. MaxNameLen}
  \cup {<<"r">> \o s : s \in [1 .. MaxNameLen -> Letters]}
  \cup {<<"r", "b">> \o t : t \in Tails} \cup {<<"f", "l">> \o t : t \in Tails}
  \cup {special \o t : special \in {rbp, rsp, rip, flg}, t \in Tails}
  \cup {<<"r", d>> \o t : d \in {"4", "9"}, t \in Tails}
=============================================================================
