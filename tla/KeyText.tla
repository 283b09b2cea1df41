------------------------------- MODULE KeyText ------------------------------
(***************************************************************************)
(* The text forms of Key and Query: "k1=v1,k2=v2" names one object,        *)
(* "k1=v1/v2,k2=v3" a span of objects.  The two constructors parse them    *)
(* separately.                                                             *)
(*                                                                         *)
(* A text is a sequence of characters.  Whether eckit's StringTools::split *)
(* keeps empty fields is not visible here: it is the parameter keep of     *)
(* every operator.                                                         *)
(***************************************************************************)
EXTENDS Naturals, Sequences, SequencesExt, Functions

DropEmpty(fields) ==
  FoldLeft(LAMBDA acc, f : IF f = << >> THEN acc ELSE Append(acc, f), << >>, fields)

(* eckit::StringTools::split (external). *)
Split(separator, t, keep) ==
  LET fields == FoldLeft(LAMBDA acc, c :
                           IF c = separator THEN Append(acc, << >>)
                           ELSE Front(acc) \o <<Append(Last(acc), c)>>,
                         << << >> >>, t)
  IN  IF keep THEN fields ELSE DropEmpty(fields)

(* The comma separated pairs of a text, each split at "=". *)
Pairs(t, keep) ==
  LET bits == Split(",", t, keep) IN [i \in 1..Len(bits) |-> Split("=", bits[i], keep)]

(* std::map::emplace of pair after pair: the first of a keyword stays. *)
Emplace(pairs) ==
  [k \in {pairs[i][1] : i \in 1..Len(pairs)} |->
     pairs[CHOOSE i \in 1..Len(pairs) : /\ pairs[i][1] = k
                                        /\ \A j \in 1..(i - 1) : pairs[j][1] # k][2]]

(* Key::Key(const std::string&) throws no UserError. *)
KeyAccepts(t, keep) ==
  \A i \in 1..Len(Pairs(t, keep)) : /\ Len(Pairs(t, keep)[i]) = 2
                                    /\ ~Contains(Pairs(t, keep)[i][2], "/")

(* Query::Query(const std::string&) throws no UserError. *)
QueryAccepts(t, keep) ==
  \A i \in 1..Len(Pairs(t, keep)) : Len(Pairs(t, keep)[i]) = 2

(* Mutant of KeyOf: a later pair replaces an earlier one. *)
KeyOfLast(t, keep) == Emplace(Reverse(Pairs(t, keep)))

(* The values_ of the Key, and of the Query, of a text that is accepted. *)
KeyOf(t, keep) == Emplace(Pairs(t, keep))
QueryOf(t, keep) ==
  LET pairs == Pairs(t, keep)
  IN  Emplace([i \in 1..Len(pairs) |-> <<pairs[i][1], Split("/", pairs[i][2], keep)>>])
=============================================================================
