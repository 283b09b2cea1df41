------------------------------ MODULE MCPolicy ------------------------------
(* Policy with dictionaries that agree, conflict, are empty or name a policy *)
(* nobody knows.                                                             *)
EXTENDS Policy

MCDicts == { << >>,
             [n \in {"list"} |-> TRUE],
             [n \in {"list", "archive"} |-> FALSE],
             [n \in {"archive", "other"} |-> FALSE],
             [n \in {"archive", "other"} |-> n = "other"],
             [n \in {"list", "wipe"} |-> n = "list"] }
=============================================================================
