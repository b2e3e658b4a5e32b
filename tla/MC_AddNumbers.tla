--------------------------- MODULE MC_AddNumbers ---------------------------
(***************************************************************************)
(* AddNumbers for TLC: two client ids, two numbers, lists of up to three   *)
(* numbers (so a number can repeat within a call, also after a 2xx), no   *)
(* key in the environment.  Identifiers: the id strings, non-digit        *)
(* usernames and SUP2, standing for "²", for which str.isdigit() holds    *)
(* and int() raises.                                                       *)
(***************************************************************************)
EXTENDS AddNumbers

MC_UserNames == {"alice", "bob"}
MC_Idents == MC_UserNames \cup {"1", "2", "SUP2"}
MC_IsDigit == [s \in MC_Idents |-> s \in {"1", "2", "SUP2"}]
MC_IntValue ==
    [s \in MC_Idents |->
        CASE s = "1" -> 1
          [] s = "2" -> 2
          [] OTHER -> ValueError]
=============================================================================
