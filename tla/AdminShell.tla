----------------------------- MODULE AdminShell -----------------------------
(***************************************************************************)
(* The interactive session: menu() and main() in src/scripts/main.py, with *)
(* the branches that change state or resolve identifiers, and the session *)
(* state last_client.  Each branch is one step; add_numbers_to_client is  *)
(* one step here that keeps its lookup and its effect on the gateway (its  *)
(* request-by-request behaviour is the AddNumbers module).  Branches 1    *)
(* and 3 (list carriers, list clients) only print, but may raise.         *)
(* Without MSGGW_API_KEY, auth_tuple prompts for the key before every     *)
(* request, and a blank answer exits.  Ctrl+C ends the session cleanly;   *)
(* Ctrl+D at a prompt raises EOFError, which nothing catches.             *)
(***************************************************************************)
EXTENDS ClientLookup, Sequences

CONSTANTS
    NonJsonBodies, \* a 200/2xx body may fail to parse as JSON
    KeyInEnv,      \* MSGGW_API_KEY is set to a real key
    CarrierNames   \* non-blank names the operator may give a new carrier

ASSUME NonJsonBodies \in BOOLEAN /\ KeyInEnv \in BOOLEAN /\ "" \notin CarrierNames

VARIABLES
    written,     \* gateway: pairs <<kind, c>>, c's settings / password changed
    pc,          \* "menu", "exited" or "crashed"
    error,       \* the exception that ended the session, or "none"
    lastClient,  \* menu's last_client; "" stands for None
    lastTouched, \* history: the client last_client resolved to when set
    lastSetBy,   \* history: "none", "create" or "add", the branch that set it
    viewed,      \* history: the last show-details / list-numbers lookup
    carriers,    \* gateway: the names of the carriers it has
    keyTyped     \* history: a request was sent with a key typed at a prompt

lastVars == <<lastClient, lastTouched, lastSetBy>>
histVars == <<viewed, carriers>>
vars == <<uname, owner, written, pc, error, lastClient, lastTouched, lastSetBy,
          viewed, carriers, keyTyped>>

Terminal == {"exited", "crashed"}
NoView == [op |-> "none", ident |-> "", client |-> NoClient]
Errors == {"none", "ValueError", "JSONDecodeError", "SystemExit", "EOFError"}

TypeOK ==
    /\ GatewayTypeOK
    /\ written \subseteq WriteKinds \X ClientIds
    /\ pc \in {"menu", "reload"} \cup Terminal
    /\ error \in Errors
    /\ lastClient \in Typed
    /\ lastTouched \in ClientIds \cup {NoClient}
    /\ lastSetBy \in {"none", "create", "add"}
    /\ viewed \in {NoView} \cup
                  [op : {"show", "list_numbers"}, ident : Idents,
                   client : ClientIds \cup {NoClient}]
    /\ carriers \subseteq CarrierNames
    /\ keyTyped \in BOOLEAN

Init ==
    /\ GatewayInit
    /\ written = {}
    /\ pc = "menu"
    /\ error = "none"
    /\ lastClient = "" /\ lastTouched = NoClient /\ lastSetBy = "none"
    /\ viewed = NoView
    /\ carriers = {} /\ keyTyped = FALSE

\* `input("Client ID or username: ").strip() or last_client`
Ident(typed) == IF typed # "" THEN typed ELSE lastClient

\* The reply to a GET: 200 with a JSON body, a failure the code handles (a
\* network error, another status), or 200 with a body json() cannot parse.
GetReplies == {"ok", "failed"} \cup (IF NonJsonBodies THEN {"nonjson"} ELSE {})

\* What get_client_by_identifier(s) raises for reply r: resp.json() on a
\* 200 (line 253) and int() in the id pass are outside any try.
LookupError(s, r) ==
    CASE r = "nonjson"         -> "JSONDecodeError"
      [] r = "ok" /\ Raises(s) -> "ValueError"
      [] OTHER                 -> "none"

\* An exception leaves menu(); main() catches only KeyboardInterrupt.
Crash(e) == pc' = "crashed" /\ error' = e

\* auth_tuple() before every request: with the key in the environment
\* nothing is asked; otherwise the operator types it again for each
\* request, or leaves it blank and sys.exit(1) raises SystemExit, which
\* main() does not catch.  KeySent(k): the step sent its k requests.
KeySent(k) == keyTyped' = (keyTyped \/ (~KeyInEnv /\ k > 0))

\* The requests, among the k of a step, whose prompt may be left blank.
BlankCuts(k) == IF KeyInEnv THEN {} ELSE 1..k

\* How a step of k requests can stop at its i-th request, the i - 1 before
\* it applied: a blank key at its prompt, or Ctrl+C while it runs, which
\* main() catches (i = k + 1: after the gateway applied the last one).
Stops(k) == ({"interrupt"} \X (1..k + 1)) \cup ({"blank"} \X BlankCuts(k))

Stop(st) ==
    /\ IF st[1] = "blank" THEN Crash("SystemExit")
                          ELSE pc' = "exited" /\ UNCHANGED error
    /\ keyTyped' = (keyTyped \/ (~KeyInEnv /\ st[2] > 1))

SetLast(s, c, by) ==
    /\ lastClient' = s
    /\ lastTouched' = c
    /\ lastSetBy' = by

(***************************************************************************)
(* create_client_interactive.  Inputs: username, type, address.  A blank   *)
(* username, or a blank address for a legacy client, returns None before  *)
(* any request; otherwise POST /clients, and on 2xx str(new id).           *)
(***************************************************************************)
CreateInputs == (UserNames \cup {""}) \X {"legacy", "web"} \X {"", "addr"}
Refused(in) == in[1] = "" \/ (in[2] = "legacy" /\ in[3] = "")
CreateRepliesFor(in) ==
    IF Refused(in) THEN {"none"}
    ELSE CreateReplies(in[1]) \cup
         (IF NonJsonBodies /\ CanCreate(in[1]) THEN {"nonjson"} ELSE {})
\* "nonjson": the client is created and resp.json() (line 367) raises.
CreateEffect(in, r) ==
    IF r \in Applied \cup {"nonjson"} THEN ServerCreate(in[1]) ELSE UNCHANGED uname
CreatedId(r) == IF r = "ok" THEN NextId ELSE NoClient

(***************************************************************************)
(* add_numbers_to_client(s, ns) as one step: the lookup (which may raise,  *)
(* or find nothing), then, for the found client, every number of ns that  *)
(* was unassigned may have been assigned to it by a POST the gateway      *)
(* applied.  ns is the set of numbers of the parsed list.                  *)
(***************************************************************************)
NumberSets == SUBSET Numbers \ {{}}

AssignSome(c, ns) ==
    \E got \in SUBSET {n \in ns : owner[n] = NoClient} :
        owner' = [n \in Numbers |->
                    IF c # NoClient /\ n \in got THEN c ELSE owner[n]]

(***************************************************************************)
(* Menu branches.                                                          *)
(***************************************************************************)

\* Branch 5: on success last_client is the new id string.
CreateClient ==
    /\ pc = "menu"
    /\ \E in \in CreateInputs : \E r \in CreateRepliesFor(in) :
        \/ /\ CreateEffect(in, r)
           /\ CASE r = "nonjson" ->
                     Crash("JSONDecodeError") /\ UNCHANGED lastVars
                [] CreatedId(r) # NoClient ->
                     /\ SetLast(IdString(CreatedId(r)), CreatedId(r), "create")
                     /\ UNCHANGED <<pc, error>>
                [] OTHER -> UNCHANGED lastVars /\ UNCHANGED <<pc, error>>
           /\ KeySent(IF Refused(in) THEN 0 ELSE 1)
        \/ /\ \E st \in Stops(IF Refused(in) THEN 0 ELSE 1) :
                Stop(st) /\ IF st[2] > 1 THEN CreateEffect(in, r) ELSE UNCHANGED uname
           /\ UNCHANGED lastVars
    /\ UNCHANGED <<owner, written>> /\ UNCHANGED histVars

\* Branches 4 and 8 read an identifier (or take last_client) and look the
\* client up with get_client_by_identifier, which may raise.
ViewStep(op) ==
    /\ pc = "menu"
    /\ \/ \E typed \in Typed, r \in GetReplies :
            LET s == Ident(typed) IN
            /\ s # ""
            /\ IF LookupError(s, r) # "none"
               THEN Crash(LookupError(s, r)) /\ UNCHANGED viewed
               ELSE /\ viewed' = [op |-> op, ident |-> s,
                                   client |-> Lookup(s, r = "ok")]
                    /\ UNCHANGED <<pc, error>>
            /\ KeySent(1)
       \/ \E st \in Stops(1) : Stop(st) /\ UNCHANGED viewed
    /\ UNCHANGED <<uname, owner, written, carriers>>
    /\ UNCHANGED lastVars

\* Branch 4: show_client_details prints the client found.
ShowClientDetails == ViewStep("show")

\* Branch 8: list_client_numbers prints the numbers of the client found.
ListClientNumbers == ViewStep("list_numbers")

\* Variant: the request sent without the "not found" return.
WrittenWithoutFoundCheck(kind, c, go, r) ==
    IF go /\ r \in Applied THEN written \cup {<<kind, c>>} ELSE written

\* The gateway after the PUT / PATCH to client c, sent only when the
\* client was found and go holds, and applied when r says so.
Written(kind, c, go, r) ==
    IF c # NoClient /\ go /\ r \in Applied
    THEN written \cup {<<kind, c>>}
    ELSE written

\* Branches 6 and 7 read an identifier (or take last_client), look the
\* client up, prompt, and send one request.  go: some setting was entered
\* (6) or the change was confirmed with "y" (7); otherwise nothing is sent.
WriteStep(kind) ==
    /\ pc = "menu"
    /\ \/ \E typed \in Typed, g \in GetReplies, go \in BOOLEAN, r \in WriteReplies :
            LET s == Ident(typed)
                c == Lookup(s, g = "ok")
            IN
            /\ s # ""
            /\ IF LookupError(s, g) # "none"
               THEN Crash(LookupError(s, g)) /\ UNCHANGED written
               ELSE /\ written' = Written(kind, c, go, r)
                    /\ UNCHANGED <<pc, error>>
            /\ KeySent(1)
       \* Stopped at the lookup, or after it found a client (each client is
       \* found by its id string) and go held: at or during the write.
       \/ \E st \in Stops(1) : Stop(st) /\ UNCHANGED written
       \/ \E c \in Clients, st \in Stops(2), r \in WriteReplies :
            /\ st[2] >= 2 /\ Stop(st)
            /\ written' = IF st[2] = 3 THEN Written(kind, c, TRUE, r) ELSE written
    /\ UNCHANGED <<uname, owner>> /\ UNCHANGED histVars /\ UNCHANGED lastVars

\* Branch 6: update_client_settings, PUT /clients/{id}/settings.
UpdateClientSettings == WriteStep("settings")

\* Branch 7: change_client_password, PATCH /clients/{id}/password.
ChangeClientPassword == WriteStep("password")

\* list_carriers(): a 200 body json() cannot parse raises (line 99).
CarriersError(cr) == IF cr = "nonjson" THEN "JSONDecodeError" ELSE "none"

\* Branch 9: identifier, the carrier list, a non-empty parsed number list
\* (an empty one only prints "No valid numbers provided."), the call, and
\* then last_client set to the identifier, whether or not it was found.
\* Requests: GET /carriers, GET /clients, then the POSTs; a blank key at a
\* POST leaves the numbers posted before it assigned.
AddNumbersToClient ==
    /\ pc = "menu"
    /\ \E typed \in Typed, ns \in NumberSets, cr, g \in GetReplies :
        LET s == Ident(typed)
            c == Lookup(s, g = "ok")
            e == IF CarriersError(cr) # "none" THEN CarriersError(cr)
                 ELSE LookupError(s, g)
        IN
        /\ s # ""
        /\ \/ /\ IF e # "none"
                 THEN Crash(e) /\ UNCHANGED owner /\ UNCHANGED lastVars
                 ELSE AssignSome(c, ns) /\ SetLast(s, c, "add")
                      /\ UNCHANGED <<pc, error>>
              /\ KeySent(2)
           \/ /\ \E st \in Stops(2) : st[2] <= 2 /\ Stop(st)
              /\ UNCHANGED owner /\ UNCHANGED lastVars
           \/ /\ \E st \in Stops(3) : st[2] >= 3 /\ Stop(st)
              /\ e = "none" /\ c # NoClient
              /\ AssignSome(c, ns) /\ UNCHANGED lastVars
    /\ UNCHANGED <<uname, written>> /\ UNCHANGED histVars

\* Branch q: create a client; if that returned no id, back to the menu.
\* Otherwise the id string becomes last_client, the carrier list is shown,
\* and the parsed numbers, if any, are added by that id string, which the
\* lookup resolves by id to the new client.  Then "Reload all? [Y/n]":
\* any answer but "n" goes on to reload_all (pc "reload").  Requests: POST
\* /clients, GET /carriers, and for a non-empty list GET /clients and the
\* POSTs.
QuickFlow ==
    /\ pc = "menu"
    /\ \E in \in CreateInputs : \E r \in CreateRepliesFor(in) :
        LET c == CreatedId(r) IN
        \/ /\ \E st \in Stops(IF Refused(in) THEN 0 ELSE 1) :
                Stop(st) /\ IF st[2] > 1 THEN CreateEffect(in, r) ELSE UNCHANGED uname
           /\ UNCHANGED owner /\ UNCHANGED lastVars
        \/ /\ CreateEffect(in, r)
           /\ c = NoClient
           /\ IF r = "nonjson" THEN Crash("JSONDecodeError")
                               ELSE UNCHANGED <<pc, error>>
           /\ KeySent(IF Refused(in) THEN 0 ELSE 1)
           /\ UNCHANGED owner /\ UNCHANGED lastVars
        \/ /\ CreateEffect(in, r)
           /\ c # NoClient
           /\ SetLast(IdString(c), c, "create")
           /\ \E ns \in NumberSets \cup {{}}, cr, g \in GetReplies :
               LET e == IF CarriersError(cr) # "none" THEN CarriersError(cr)
                        ELSE IF ns = {} THEN "none"
                        ELSE LookupError(IdString(c), g)
               IN
               \/ /\ IF e # "none"
                     THEN Crash(e) /\ UNCHANGED owner
                     ELSE /\ AssignSome(IF g = "ok" THEN c ELSE NoClient, ns)
                          /\ \E answer \in {"y", "n"} :
                               pc' = IF answer = "n" THEN "menu" ELSE "reload"
                          /\ UNCHANGED error
                  /\ KeySent(2)
               \/ /\ \E st \in Stops(3) : st[2] \in 2..3 /\ Stop(st)
                  /\ UNCHANGED owner
               \/ /\ \E st \in Stops(4) : st[2] >= 4 /\ Stop(st)
                  /\ ns # {} /\ e = "none"
                  /\ AssignSome(c, ns)
    /\ UNCHANGED <<written>> /\ UNCHANGED histVars

\* The requests reload_all sends, in order: each sits in its own try, so
\* the carrier reload is sent whatever became of the client reload.
ReloadRequests == <<"clients", "carriers">>

\* Branch r, and the end of the quick flow: POST /clients/reload, then
\* POST /carriers/reload, each reported by its status code only.
ReloadAll ==
    /\ pc \in {"menu", "reload"}
    /\ \/ /\ pc' = "menu" /\ UNCHANGED error
          /\ KeySent(Len(ReloadRequests))
       \/ \E st \in Stops(Len(ReloadRequests)) : Stop(st)
    /\ UNCHANGED <<uname, owner, written>> /\ UNCHANGED histVars
    /\ UNCHANGED lastVars

\* Branch 2: create_carrier_interactive.  A blank name returns before any
\* request (a step that changes nothing).  Otherwise POST /carriers with
\* the type, credentials and limits (payload only); the gateway, which
\* keeps carrier names unique, adds the carrier when it applied the POST.
CarrierReplies(name) ==
    IF name \in carriers THEN {"error", "net_lost"} ELSE WriteReplies

CreateCarrier ==
    /\ pc = "menu"
    /\ \E name \in CarrierNames : \E r \in CarrierReplies(name) :
        \/ /\ carriers' = IF r \in Applied THEN carriers \cup {name} ELSE carriers
           /\ KeySent(1) /\ UNCHANGED <<pc, error>>
        \/ \E st \in Stops(1) :
             /\ Stop(st)
             /\ IF st[2] > 1 /\ r \in Applied THEN carriers' = carriers \cup {name}
                                              ELSE UNCHANGED carriers
    /\ UNCHANGED <<uname, owner, written, viewed>>
    /\ UNCHANGED lastVars

\* Branches 1 and 3: list_carriers and list_clients print what GET
\* /carriers or GET /clients returns; a 200 body json() cannot parse
\* raises out of them (lines 99, 221).
ListStep ==
    /\ pc = "menu"
    /\ \/ /\ \E r \in GetReplies :
               IF r = "nonjson" THEN Crash("JSONDecodeError")
                                ELSE UNCHANGED <<pc, error>>
          /\ KeySent(1)
       \/ \E st \in Stops(1) : Stop(st)
    /\ UNCHANGED <<uname, owner, written>> /\ UNCHANGED histVars
    /\ UNCHANGED lastVars

ListCarriers == ListStep
ListClients == ListStep

\* Branch 0 prints "Bye!" and leaves the loop.
Exit ==
    /\ pc = "menu"
    /\ pc' = "exited"
    /\ UNCHANGED <<uname, owner, written, error, keyTyped>>
    /\ UNCHANGED histVars /\ UNCHANGED lastVars

\* Ctrl+C at the menu prompt or at "Reload all? [Y/n]": main() catches the
\* KeyboardInterrupt (within a step it is one of the step's Stops).
Interrupt ==
    /\ pc \in {"menu", "reload"}
    /\ pc' = "exited"
    /\ UNCHANGED <<uname, owner, written, error, keyTyped>>
    /\ UNCHANGED histVars /\ UNCHANGED lastVars

\* Ctrl+D at the menu prompt: input() raises EOFError, which neither
\* menu() nor main() catches (at a step's prompts before its first request
\* it leaves the same state).
EndOfInput ==
    /\ pc = "menu"
    /\ Crash("EOFError")
    /\ UNCHANGED <<uname, owner, written, keyTyped>>
    /\ UNCHANGED histVars /\ UNCHANGED lastVars

Environment ==
    /\ pc \notin Terminal
    /\ GatewayEnv
    /\ UNCHANGED <<written, pc, error, keyTyped>>
    /\ UNCHANGED histVars /\ UNCHANGED lastVars

\* The process has ended.
Ended ==
    /\ pc \in Terminal
    /\ UNCHANGED vars

Next ==
    \/ CreateClient \/ ShowClientDetails \/ ListClientNumbers
    \/ UpdateClientSettings \/ ChangeClientPassword
    \/ AddNumbersToClient \/ QuickFlow \/ ReloadAll \/ CreateCarrier
    \/ ListCarriers \/ ListClients
    \/ Exit \/ Interrupt \/ EndOfInput \/ Environment \/ Ended

Spec == Init /\ [][Next]_vars

-----------------------------------------------------------------------------
\* Once a create (branch 5 or the quick flow) has set last_client to the new
\* id string, a blank identifier keeps acting on the created client, even
\* after other operators create clients whose usernames are digit strings.
LastClientNamesCreated ==
    lastSetBy = "create" => Resolve(lastClient) = lastTouched

\* last_client is only set to a client the session touched (spec.md 4.6:
\* "the identifier of the most recently touched client").
LastClientWasTouched ==
    lastSetBy = "add" => lastTouched # NoClient

\* last_client keeps naming the client it named when it was set, so that a
\* blank identifier later acts on that client.
LastClientStable ==
    lastTouched # NoClient => Resolve(lastClient) = lastTouched

\* "List numbers: looks up the client by username only (not id-aware,
\* unlike other lookups)" (spec.md 4.4).
ListNumbersByUsername ==
    (viewed.op = "list_numbers" /\ viewed.client # NoClient)
        => uname[viewed.client] = viewed.ident

\* No identifier typed at a prompt ends the session with an uncaught
\* exception: the session ends only by "0" or an interrupt, with exit
\* status 0 (spec.md 6, 7), and a lookup returns the client or None.
IdentifiersNeverCrash == error # "ValueError"

\* A 200/2xx reply whose body is not JSON does not end the session:
\* "all responses are expected to be JSON ... with a textual fallback path
\* when a response body fails to parse as JSON" (spec.md 6), and network
\* and application errors abort only the current operation (spec.md 7).
JsonFallback == error # "JSONDecodeError"

\* The API key is asked for once and kept for the session (spec.md 9:
\* "lazy interactive prompting ... invoked once and cached for the
\* session"), so a session that has sent a request with a typed key never
\* stops at a key prompt (auth_tuple, lines 36-44).
KeyCached == error = "SystemExit" => ~keyTyped
=============================================================================
