------------------------------ MODULE RucioName -----------------------------
(***************************************************************************)
(* How Rucio.archive derives the name of a DID from a key.                 *)
(*                                                                         *)
(* A text is a sequence of characters.  The characters are classed the way *)
(* _safe_filename_component sees them: Word characters pass, "." "-" "_"   *)
(* pass but are stripped from both ends, Other characters (path separators *)
(* and the like) are replaced, blanks are stripped first.                  *)
(***************************************************************************)
EXTENDS Naturals, Sequences, SequencesExt, FiniteSetsExt

CONSTANTS Word,    \* letters and digits, among them the text "empty"
          Other    \* characters outside [A-Za-z0-9._-], blanks excepted

Blank == " "
Punctuation == {".", "-", "_"}
Safe == Word \cup Punctuation

ASSUME CharactersAssumption ==
  /\ "empty" \in Word
  /\ Blank \notin Word
  /\ Other \cap (Safe \cup {Blank}) = {}

(* str.strip(chars). *)
Strip(text, chars) ==
  LET kept == {i \in 1..Len(text) : text[i] \notin chars}
  IN  IF kept = {} THEN << >> ELSE SubSeq(text, Min(kept), Max(kept))

(* _SAFE_FILENAME_CHARS.sub("-", text): each maximal run of characters      *)
(* outside Safe becomes one "-".                                            *)
ReplaceRuns(text) ==
  FoldLeft(LAMBDA acc, i :
             IF text[i] \in Safe THEN Append(acc, text[i])
             ELSE IF i > 1 /\ text[i - 1] \notin Safe THEN acc
             ELSE Append(acc, "-"),
           << >>, [i \in 1..Len(text) |-> i])

OrEmpty(text) == IF text = << >> THEN <<"empty">> ELSE text

(* Mutant of SafeFilenameComponent: a dot at either end survives. *)
KeepsDots(value) == OrEmpty(Strip(ReplaceRuns(Strip(value, {Blank})), {"-", "_"}))

(* Rucio._safe_filename_component. *)
SafeFilenameComponent(value) ==
  OrEmpty(Strip(ReplaceRuns(Strip(value, {Blank})), Punctuation))

(* The file name of a key, given as the sequence of its items <<k, v>>      *)
(* sorted by k: "k-v" joined with "_" (the ".data" suffix is left out).     *)
FileName(items) ==
  FoldLeft(LAMBDA acc, item :
             acc \o (IF acc = << >> THEN << >> ELSE <<"_">>)
                 \o SafeFilenameComponent(item[1]) \o <<"-">> \o SafeFilenameComponent(item[2]),
           << >>, items)
=============================================================================
