---------------------------- MODULE MCTokenizer ----------------------------
(***************************************************************************)
(* The tokenizer on every short file over a set of characters.             *)
(***************************************************************************)
EXTENDS TokenizerRefinement

CONSTANTS
  FileChars,  \* the characters the files are made of
  MinFileLen, \* the length of the shortest file
  MaxFileLen  \* the length of the longest file

ShortFiles == UNION {[1 .. n -> FileChars] : n \in MinFileLen .. MaxFileLen}
=============================================================================
