----------------------------- MODULE ObjectFile -----------------------------
(***************************************************************************)
(* An object file as a whole: the client names a section or a symbol in a  *)
(* struct of its own, which miniisa_bytecode_new_section and _new_symbol   *)
(* copy to the end of an array, and uses the struct again.                 *)
(*                                                                         *)
(* `section_sets` and `symbol_sets` are history variables.                 *)
(***************************************************************************)
EXTENDS Bytecode, ObjectNames

VARIABLES
  section_names,  \* b->sections[i].name
  symbol_names,   \* b->symbols[i].name
  section_sets,   \* history: for each section, the name set last before it
  symbol_sets     \* history: and for each symbol

element_names == <<section_names, symbol_names, section_sets, symbol_sets>>
file_vars == <<vars, names_vars, element_names>>

FileInit ==
  /\ Init
  /\ NamesInit
  /\ section_names = <<>> /\ section_sets = <<>>
  /\ symbol_names = <<>> /\ symbol_sets = <<>>

(* Mutant: the array is indexed by the count from before it was expanded.  *)
StoredTooEarly(names, buf) ==
  IF names = <<>> THEN <<buf>> ELSE Append([names EXCEPT ![Len(names)] = buf], buf)

(* What `b->sections[b->sections_count-1] = *s` does to the names.         *)
Stored(names, buf) == Append(names, buf)

AddSection ==
  /\ Len(sections) < MaxElements
  /\ NewSection(Here)
  /\ IF status' = 0
     THEN /\ section_names' = Stored(section_names, section)
          /\ section_sets' = Append(section_sets, set)
     ELSE UNCHANGED <<section_names, section_sets>>
  /\ UNCHANGED <<names_vars, symbol_names, symbol_sets>>

AddSymbol ==
  /\ Len(symbols) < MaxElements
  /\ NewSymbol(Here)
  /\ IF status' = 0
     THEN /\ symbol_names' = Stored(symbol_names, symbol)
          /\ symbol_sets' = Append(symbol_sets, set)
     ELSE UNCHANGED <<symbol_names, symbol_sets>>
  /\ UNCHANGED <<names_vars, section_names, section_sets>>

ChangeRanges ==
  /\ TerminateLastSection \/ TerminateLastSymbol \/ AppendByte
  /\ UNCHANGED <<names_vars, element_names>>

ChangeNames == NamesNext /\ UNCHANGED <<vars, element_names>>

FileNext == AddSection \/ AddSymbol \/ ChangeRanges \/ ChangeNames

FileSpec == FileInit /\ [][FileNext]_file_vars

-----------------------------------------------------------------------------
(* Every element of the two arrays keeps the name its struct had when it   *)
(* was added, whatever the struct was used for since, which elements were  *)
(* added behind it and which could not be. (A section's name is one        *)
(* character shorter, for want of a NUL.)                                  *)
StoredNamesRead ==
  /\ Len(section_names) = Len(sections) /\ Len(symbol_names) = Len(symbols)
  /\ \A i \in 1 .. Len(sections) :
       Len(section_sets[i]) < MAX_LEN => Reads(section_names[i], section_sets[i])
  /\ \A i \in 1 .. Len(symbols) : Reads(symbol_names[i], Truncated(symbol_sets[i]))
=============================================================================
