------------------------------- MODULE Policy -------------------------------
(***************************************************************************)
(* Access policies: Dasi::setPolicy and Dasi::queryPolicy.                 *)
(*                                                                         *)
(* A policy dictionary is turned into one fdb control action and a set of  *)
(* control identifiers.  The fdb iterator applies it, database after       *)
(* database, in a thread of its own that runs ahead of the client, and     *)
(* queues the status of each database; PolicyStatusGeneratorImpl turns the *)
(* statuses, one at a time, into policy elements, all in one PolicyElement *)
(* whose value is never cleared.  Several clients set and query policies   *)
(* of the same databases.                                                  *)
(***************************************************************************)
EXTENDS Naturals, Sequences, SequencesExt, Functions

CONSTANTS Clients,
          Databases,     \* the data collections the queries identify
          Dicts          \* the "access" dictionaries clients set

Identifiers == {"retrieve", "archive", "list", "wipe"}

(* An access dictionary gives some policies, known or not, a Boolean. *)
ASSUME DictsAssumption ==
  \A p \in Dicts : DOMAIN p \subseteq Identifiers \cup {"other"} /\ \A n \in DOMAIN p : p[n] \in BOOLEAN

VARIABLES
  enabled,   \* external: per database, the control identifiers that are enabled
  call,      \* per client: the call whose generator it holds: "none", "set" or "query"
  dict,      \* per client: the dictionary of its setPolicy
  action,    \* per client: the fdb control action, TRUE to enable
  names,     \* per client: the control identifiers of a set, the policies a query is for
  pending,   \* external, per client: the databases the fdb iterator has still to visit
  queue,     \* external, per client: the statuses that wait for the generator
  value,     \* per client: dasiElement_.value
  status,    \* per client: fdb5Element_, the status value was made of
  seen,      \* history, per client: the databases its generator presented
  raised     \* per client: the last setPolicy raised

genVars == <<call, dict, action, names, raised>>
elementVars == <<value, status, seen>>
vars == <<enabled, genVars, pending, queue, elementVars>>

(* A StatusElement: the identifiers that are enabled in a database. *)
Status(d, on) == [db |-> d, on |-> on]
NoStatus == [db |-> "none", on |-> {}]

-----------------------------------------------------------------------------
(* The generator of a call: its constructor is the first to wait.           *)
Begin(c, what) ==
  /\ call' = [call EXCEPT ![c] = what]
  /\ pending' = [pending EXCEPT ![c] = Databases]
  /\ queue' = [queue EXCEPT ![c] = << >>]
  /\ value' = [value EXCEPT ![c] = << >>]
  /\ status' = [status EXCEPT ![c] = NoStatus]
  /\ seen' = [seen EXCEPT ![c] = << >>]
  /\ raised' = [raised EXCEPT ![c] = FALSE]
  /\ UNCHANGED enabled

Conflict(p) == \E n, m \in DOMAIN p : p[n] # p[m]

(* Mutant of SetPolicy: the last value wins, a conflict is not seen. *)
SetPolicyLastWins(c, p) ==
  /\ call[c] = "none"
  /\ dict' = [dict EXCEPT ![c] = p]
  /\ \E a \in IF DOMAIN p = {} THEN BOOLEAN ELSE {p[n] : n \in DOMAIN p} :
       action' = [action EXCEPT ![c] = a]
  /\ names' = [names EXCEPT ![c] = DOMAIN p \cap Identifiers]
  /\ Begin(c, "set")

(* Mutant of SetPolicy: an identifier replaces, "=", the one before it,     *)
(* instead of being added, "|=".                                            *)
SetPolicyKeepsOne(c, p) ==
  /\ call[c] = "none"
  /\ ~Conflict(p)
  /\ dict' = [dict EXCEPT ![c] = p]
  /\ \E a \in IF DOMAIN p = {} THEN BOOLEAN ELSE {p[n] : n \in DOMAIN p} :
       action' = [action EXCEPT ![c] = a]
  /\ \E n \in DOMAIN p \cap Identifiers : names' = [names EXCEPT ![c] = {n}]
  /\ Begin(c, "set")

(* setPolicy(query, access): every key of the dictionary contributes its    *)
(* identifier, if it has one, and must agree with the others on the action. *)
(* Of an empty dictionary the action is never initialised.                  *)
SetPolicy(c, p) ==
  /\ call[c] = "none"
  /\ ~Conflict(p)
  /\ dict' = [dict EXCEPT ![c] = p]
  /\ \E a \in IF DOMAIN p = {} THEN BOOLEAN ELSE {p[n] : n \in DOMAIN p} :
       action' = [action EXCEPT ![c] = a]
  /\ names' = [names EXCEPT ![c] = DOMAIN p \cap Identifiers]
  /\ Begin(c, "set")

(* A conflict is a UserError, a dictionary without "access" NotImplemented. *)
SetPolicyRaises(c) ==
  /\ call[c] = "none"
  /\ raised' = [raised EXCEPT ![c] = TRUE]
  /\ UNCHANGED <<enabled, call, dict, action, names, pending, queue, elementVars>>

(* The policies a name stands for: "" and "access" for all, "access.x" for  *)
(* x; any other name for none.                                              *)
Specified(specifiers) ==
  IF specifiers # << >> /\ specifiers[1] # "access" THEN {}
  ELSE IF Len(specifiers) < 2 THEN Identifiers ELSE {specifiers[2]} \cap Identifiers

Specifiers == {<< >>, <<"access">>, <<"access", "list">>, <<"access", "other">>, <<"other">>}

(* queryPolicy(query, name). *)
QueryPolicy(c) ==
  /\ call[c] = "none"
  /\ \E s \in Specifiers : names' = [names EXCEPT ![c] = Specified(s)]
  /\ Begin(c, "query")
  /\ UNCHANGED <<dict, action>>

(* What a visit leaves enabled: a control enables or disables identifiers. *)
Controlled(c, d) ==
  CASE call[c] = "query" -> enabled[d]
    [] call[c] = "set" /\ action[c] -> enabled[d] \cup names[c]
    [] OTHER -> enabled[d] \ names[c]

(* The fdb iterator visits a database (external): the control is applied,   *)
(* and the status then is queued.                                           *)
Visit(c) ==
  \E d \in pending[c] :
    /\ enabled' = [enabled EXCEPT ![d] = Controlled(c, d)]
    /\ queue' = [queue EXCEPT ![c] = Append(@, Status(d, Controlled(c, d)))]
    /\ pending' = [pending EXCEPT ![c] = @ \ {d}]
    /\ UNCHANGED <<genVars, elementVars>>

(* The policies the elements of a call show; setPolicy has no specifiers.   *)
Shown(c) == IF call[c] = "set" THEN Identifiers ELSE names[c]

(* Present the head of the queue with the policies v as its value. *)
Present(c, v) ==
  /\ value' = [value EXCEPT ![c] = v]
  /\ status' = [status EXCEPT ![c] = Head(queue[c])]
  /\ seen' = [seen EXCEPT ![c] = Append(@, Head(queue[c]).db)]
  /\ queue' = [queue EXCEPT ![c] = Tail(@)]
  /\ UNCHANGED <<enabled, genVars, pending>>

(* Mutant of Pull: a policy is entered only if it is not there yet. *)
PullKeepsFirst(c) ==
  /\ queue[c] # << >>
  /\ Present(c, [n \in Shown(c) |-> IF n \in DOMAIN value[c] THEN value[c][n]
                                    ELSE n \in Head(queue[c]).on])

(* PolicyStatusGeneratorImpl::next: the key is replaced, the policies that  *)
(* are specified are entered into the value, over what the last element     *)
(* left there.                                                              *)
Pull(c) ==
  /\ queue[c] # << >>
  /\ Present(c, [n \in DOMAIN value[c] \cup Shown(c) |->
                    IF n \in Shown(c) THEN n \in Head(queue[c]).on ELSE value[c][n]])

(* The generator is done, or dropped before that: what was not visited is   *)
(* left alone, and the client is ready for another call.                    *)
Finish(c) ==
  /\ call[c] # "none"
  /\ call' = [call EXCEPT ![c] = "none"]
  /\ dict' = [dict EXCEPT ![c] = << >>]
  /\ action' = [action EXCEPT ![c] = TRUE]
  /\ names' = [names EXCEPT ![c] = {}]
  /\ pending' = [pending EXCEPT ![c] = {}]
  /\ queue' = [queue EXCEPT ![c] = << >>]
  /\ value' = [value EXCEPT ![c] = << >>]
  /\ status' = [status EXCEPT ![c] = NoStatus]
  /\ seen' = [seen EXCEPT ![c] = << >>]
  /\ UNCHANGED <<enabled, raised>>

Init ==
  /\ enabled = [d \in Databases |-> Identifiers]
  /\ call = [c \in Clients |-> "none"]
  /\ dict = [c \in Clients |-> << >>]
  /\ action = [c \in Clients |-> TRUE]
  /\ names = [c \in Clients |-> {}]
  /\ pending = [c \in Clients |-> {}]
  /\ queue = [c \in Clients |-> << >>]
  /\ value = [c \in Clients |-> << >>]
  /\ status = [c \in Clients |-> NoStatus]
  /\ seen = [c \in Clients |-> << >>]
  /\ raised = [c \in Clients |-> FALSE]

Next ==
  \E c \in Clients :
    \/ \E p \in Dicts : SetPolicy(c, p)
    \/ SetPolicyRaises(c) \/ QueryPolicy(c)
    \/ Visit(c) \/ Pull(c) \/ Finish(c)

Spec == Init /\ [][Next]_vars

-----------------------------------------------------------------------------
(* Type invariant of the policies and the generators. *)
TypeOK ==
  /\ enabled \in [Databases -> SUBSET Identifiers]
  /\ call \in [Clients -> {"none", "set", "query"}]
  /\ dict \in [Clients -> Dicts \cup {<< >>}]
  /\ action \in [Clients -> BOOLEAN] /\ raised \in [Clients -> BOOLEAN]
  /\ names \in [Clients -> SUBSET Identifiers]
  /\ pending \in [Clients -> SUBSET Databases]
  /\ queue \in [Clients -> Seq([db : Databases, on : SUBSET Identifiers])]
  /\ value \in [Clients -> UNION {[N -> BOOLEAN] : N \in SUBSET Identifiers}]
  /\ status \in [Clients -> [db : Databases \cup {"none"}, on : SUBSET Identifiers]]
  /\ seen \in [Clients -> Seq(Databases)]

(* A policy element that is presented shows the status of the very database *)
(* its key names, and exactly the policies that were asked for: nothing of  *)
(* the element before it shines through, in the one object they share.      *)
ElementsAreOwn ==
  \A c \in Clients : seen[c] # << >> =>
    /\ status[c].db = Last(seen[c])
    /\ value[c] = [n \in Shown(c) |-> n \in status[c].on]

(* A database's policy changes only to the value that the dictionary of     *)
(* some running setPolicy gives that very policy: one call never sets what  *)
(* was not asked for, an empty dictionary sets nothing at all.              *)
OnlyAsAsked ==
  [][\A d \in Databases, n \in Identifiers :
       (n \in enabled'[d]) # (n \in enabled[d]) =>
         \E c \in Clients : /\ call[c] = "set" /\ n \in DOMAIN dict[c]
                            /\ dict[c][n] = (n \in enabled'[d])]_vars

(* What setPolicy reports corresponds to the output of queryPolicy: each    *)
(* element shows the policies that were set with the value they were set    *)
(* to, also while other clients set them otherwise; and a drained call has  *)
(* reported every database once.                                            *)
SetIsReported ==
  \A c \in Clients :
    /\ call[c] = "set" /\ seen[c] # << >> =>
         \A n \in DOMAIN dict[c] \cap Identifiers : value[c][n] = dict[c][n]
    /\ call[c] # "none" /\ pending[c] = {} /\ queue[c] = << >> =>
         IsInjective(seen[c]) /\ ToSet(seen[c]) = Databases
=============================================================================
