---------------------------- MODULE ClientLookup ----------------------------
(***************************************************************************)
(* get_client_by_identifier (main.py 242-263): one GET /clients, then a    *)
(* pass matching the integer id when the identifier is all digits, then a  *)
(* pass matching the username.  Identifiers are strings; what the lookup  *)
(* does with one is given by str.isdigit() (IsDigit) and int() (IntValue, *)
(* ValueError when int() raises, as it does for "²" although "²".isdigit() *)
(* holds).  int() is evaluated inside the id pass, once per client, so it  *)
(* raises only when the fetched list is not empty.                         *)
(***************************************************************************)
EXTENDS Gateway, TLC

CONSTANTS
    Idents,      \* strings the operator may type at an identifier prompt
    IsDigit,     \* IsDigit[s]: Python's s.isdigit()
    IntValue,    \* IntValue[s]: int(s), or ValueError when int() raises
    ValueError   \* model value: int() raised

\* str(client_id): create_client_interactive returns the new id as a string.
IdString(c) == ToString(c)

ASSUME /\ UserNames \subseteq Idents
       /\ {ToString(c) : c \in ClientIds} \subseteq Idents
       /\ "" \notin Idents
       /\ IsDigit \in [Idents -> BOOLEAN]
       /\ IntValue \in [Idents -> Nat \cup {ValueError}]

\* What may be typed at a prompt; "" is a blank line (and stands for None).
Typed == Idents \cup {""}

ById(s) == {c \in Clients : IsDigit[s] /\ c = IntValue[s]}
ByName(s) == {c \in Clients : uname[c] = s}

\* Variant: the username pass before the id pass.
ResolveByNameFirst(s) ==
    IF ByName(s) # {} THEN CHOOSE c \in ByName(s) : TRUE
    ELSE IF ById(s) # {} THEN CHOOSE c \in ById(s) : TRUE
    ELSE NoClient

\* Ids and usernames are unique, so each pass matches at most one client.
Resolve(s) ==
    IF ById(s) # {} THEN CHOOSE c \in ById(s) : TRUE
    ELSE IF ByName(s) # {} THEN CHOOSE c \in ByName(s) : TRUE
    ELSE NoClient

\* int(identifier) raises ValueError out of the lookup.
Raises(s) == IsDigit[s] /\ IntValue[s] = ValueError /\ Clients # {}

\* The lookup's result when the GET succeeded (ok) or failed (a network
\* error, or a status other than 200): both failures return None.
Lookup(s, ok) == IF ok THEN Resolve(s) ELSE NoClient
=============================================================================
