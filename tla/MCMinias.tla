------------------------------ MODULE MCMinias ------------------------------
(***************************************************************************)
(* The program on every short file over a set of characters.               *)
(***************************************************************************)
EXTENDS Minias

CONSTANTS
  FileChars,  \* the characters the file is made of
  MaxFileLen  \* the length of the longest file

ShortFiles == UNION {[1 .. n -> FileChars] : n \in 0 .. MaxFileLen}
=============================================================================
