-------------------------------- MODULE Texts -------------------------------
(***************************************************************************)
(* The texts that KeyText and RucioName are checked on: all those of an    *)
(* alphabet up to a length, built one character at a time.                 *)
(***************************************************************************)
EXTENDS KeyText, RucioName

CONSTANT Alphabets   \* records [chars, max]: characters, and the longest text

VARIABLES
  alphabet,    \* the alphabet of this text
  keepEmpty,   \* external: StringTools::split returns empty fields too
  text         \* the text so far

textVars == <<alphabet, keepEmpty, text>>

TextInit ==
  /\ alphabet \in Alphabets
  /\ keepEmpty \in BOOLEAN
  /\ text = << >>

Add ==
  /\ Len(text) < alphabet.max
  /\ \E c \in alphabet.chars : text' = Append(text, c)
  /\ UNCHANGED <<alphabet, keepEmpty>>

Clear == text # << >> /\ text' = << >> /\ UNCHANGED <<alphabet, keepEmpty>>

TextNext == Add \/ Clear

TextSpec == TextInit /\ [][TextNext]_textVars

-----------------------------------------------------------------------------
(* A text that names one object names the same object when it is used as a  *)
(* query: what was archived under it is what retrieving it selects, with    *)
(* repeated keywords and empty fields too.                                  *)
KeyMatchesQuery ==
  KeyAccepts(text, keepEmpty) =>
    /\ QueryAccepts(text, keepEmpty)
    /\ QueryOf(text, keepEmpty) =
         [k \in DOMAIN KeyOf(text, keepEmpty) |-> <<KeyOf(text, keepEmpty)[k]>>]

(* A component of a DID name has no character that could leave the          *)
(* temporary directory, is not empty, and neither starts nor ends with a    *)
(* dot: the "Unsafe filename" check of archive() cannot fail, and           *)
(* sanitising the component again changes nothing.                          *)
ComponentIsSafe ==
  LET s == SafeFilenameComponent(text)
  IN  /\ s # << >>
      /\ \A i \in 1..Len(s) : s[i] \in Safe
      /\ s[1] # "." /\ s[Len(s)] # "."
      /\ SafeFilenameComponent(s) = s
=============================================================================
