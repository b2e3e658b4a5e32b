------------------------------ MODULE Gateway ------------------------------
(***************************************************************************)
(* The gomsggw gateway as the admin client sees it through its HTTP API   *)
(* (spec.md section 6).  The gateway is not part of this repository: this  *)
(* module is the environment of the client model, not a model of code.     *)
(* It keeps only what the client's behaviour depends on: which client ids  *)
(* exist with which username, and which client owns each phone number.    *)
(* Other operators (a second admin, the gateway's own UI) create clients   *)
(* and assign numbers concurrently with the modelled session.              *)
(***************************************************************************)
EXTENDS Naturals, FiniteSets

CONSTANTS
    UserNames,   \* usernames clients can be created with (non-empty strings)
    Numbers,     \* normalized 11-digit numbers, as model values
    MaxClients   \* bound on the number of clients the gateway assigns ids to

ASSUME MaxClients \in Nat \ {0}
ASSUME "" \notin UserNames

VARIABLES
    uname,   \* uname[c]: username of client id c, "" while id c is unassigned
    owner    \* owner[n]: id of the client number n is assigned to, or NoClient

gatewayVars == <<uname, owner>>

NoClient == 0
ClientIds == 1..MaxClients
\* PUT /clients/{c}/settings and PATCH /clients/{c}/password.
WriteKinds == {"settings", "password"}

\* Ids are server-assigned in increasing order and never deleted.
Clients == {c \in ClientIds : uname[c] # ""}
NextId == Cardinality(Clients) + 1
UsernameTaken(u) == \E c \in Clients : uname[c] = u
NumbersOf(c) == {n \in Numbers : owner[n] = c}

GatewayTypeOK ==
    /\ uname \in [ClientIds -> UserNames \cup {""}]
    /\ owner \in [Numbers -> ClientIds \cup {NoClient}]

GatewayInit ==
    /\ uname = [c \in ClientIds |-> ""]
    /\ owner = [n \in Numbers |-> NoClient]

(***************************************************************************)
(* Server side of POST /clients: a fresh id for an unused username.        *)
(***************************************************************************)
CanCreate(u) == NextId <= MaxClients /\ ~UsernameTaken(u)
ServerCreate(u) == uname' = [uname EXCEPT ![NextId] = u]

\* Replies to POST /clients; a taken username is refused by the server.
CreateReplies(u) ==
    IF CanCreate(u) THEN {"ok", "error", "net_applied", "net_lost"}
                    ELSE {"error", "net_lost"}

\* Replies to PUT /clients/{c}/settings and PATCH /clients/{c}/password.
WriteReplies == {"ok", "error", "net_applied", "net_lost"}
Applied == {"ok", "net_applied"}

(***************************************************************************)
(* Responses the gateway may give to POST /clients/{c}/numbers for number *)
(* n, from the state it is in when the request arrives.  "exists" is an   *)
(* error whose message contains "already exists"; "error" is any other    *)
(* non-2xx; "net_applied" and "net_lost" are a timeout or connection      *)
(* fault after and before the server applied the request.  A number       *)
(* already on c may be answered 2xx again (the contract does not say the  *)
(* call is rejected), and a number owned by another client is refused.    *)
(***************************************************************************)
NumberPostReplies(n, c) ==
    CASE owner[n] = NoClient -> {"ok", "error", "net_applied", "net_lost"}
      [] owner[n] = c        -> {"ok", "exists", "error", "net_lost"}
      [] OTHER               -> {"exists", "error", "net_lost"}

\* The server state after it answered with reply r.
ServerAssign(n, c, r) ==
    owner' = IF r \in Applied /\ owner[n] = NoClient
             THEN [owner EXCEPT ![n] = c]
             ELSE owner

(***************************************************************************)
(* Other operators of the gateway.                                          *)
(***************************************************************************)
OtherCreateClient ==
    \E u \in UserNames :
        /\ CanCreate(u)
        /\ ServerCreate(u)
        /\ UNCHANGED owner

OtherAssignNumber ==
    \E n \in Numbers, c \in Clients :
        /\ owner[n] = NoClient
        /\ owner' = [owner EXCEPT ![n] = c]
        /\ UNCHANGED uname

GatewayEnv == OtherCreateClient \/ OtherAssignNumber
=============================================================================
