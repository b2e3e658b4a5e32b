--------------------------- MODULE MC_AdminShell ---------------------------
(***************************************************************************)
(* AdminShell for TLC: two client ids whose usernames may be the digit     *)
(* strings "1" and "2" (so id and username passes can disagree), one      *)
(* number.  Identifiers also include "02" (all digits, int 2), "alice"    *)
(* (no such client) and SUP2, standing for "²": str.isdigit() holds and   *)
(* int() raises ValueError.                                                *)
(***************************************************************************)
EXTENDS AdminShell

MC_UserNames == {"1", "2"}
MC_Idents == MC_UserNames \cup {"02", "alice", "SUP2"}
MC_IsDigit == [s \in MC_Idents |-> s \in {"1", "2", "02", "SUP2"}]
MC_IntValue ==
    [s \in MC_Idents |->
        CASE s = "1" -> 1
          [] s \in {"2", "02"} -> 2
          [] OTHER -> ValueError]

\* For the run about last_client after a create: the identifiers that tell
\* the id pass from the username pass apart.
MC_LastIdents == MC_UserNames \cup {"02"}
MC_LastIsDigit == [s \in MC_LastIdents |-> MC_IsDigit[s]]
MC_LastIntValue == [s \in MC_LastIdents |-> MC_IntValue[s]]
=============================================================================
