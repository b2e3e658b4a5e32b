------------------------- MODULE PasswordGeneration -------------------------
(***************************************************************************)
(* generate_password (main.py 23-33), which create_client_interactive and *)
(* change_client_password call when the password prompt is left blank.    *)
(* Each pass of its loop draws `length` characters with secrets.choice    *)
(* from ascii_letters + digits and returns them if the three classes all  *)
(* occur; otherwise it draws again.  A character is a small string         *)
(* standing for its class; the random draw is a nondeterministic choice.  *)
(***************************************************************************)
EXTENDS Naturals

CONSTANTS
    Lower,       \* string.ascii_lowercase
    Upper,       \* string.ascii_uppercase
    DigitChars,  \* string.digits
    Length       \* the length argument, 24 at both call sites

ASSUME Length \in Nat \ {0}

\* `alphabet = string.ascii_letters + string.digits`
Alphabet == Lower \cup Upper \cup DigitChars

\* Variant: `range(length - 1)`.
DrawsOneShort == [1..Length - 1 -> Alphabet]

\* The strings one pass of the loop can draw.
Draws == [1..Length -> Alphabet]

\* `any(... for c in pwd)`
Occurs(p, class) == \E k \in DOMAIN p : p[k] \in class

\* The loop's exit test: a lowercase letter, an uppercase letter, a digit.
Accepted(p) == Occurs(p, Lower) /\ Occurs(p, Upper) /\ Occurs(p, DigitChars)

VARIABLES
    pc,   \* "loop" while drawing, "returned" once the function returned
    pwd   \* the last string drawn; <<>> before the first draw

vars == <<pc, pwd>>

TypeOK ==
    /\ pc \in {"loop", "returned"}
    /\ pwd \in [1..Length -> Alphabet] \cup {<<>>}

Init == pc = "loop" /\ pwd = <<>>

\* One pass of `while True`: draw, test, return or go round again.
Draw ==
    /\ pc = "loop"
    /\ \E p \in Draws :
        /\ pwd' = p
        /\ pc' = IF Accepted(p) THEN "returned" ELSE "loop"

\* The caller has the password.
Returned == pc = "returned" /\ UNCHANGED vars

Next == Draw \/ Returned

\* The random draw is a nondeterministic choice; the loop's termination
\* (with probability 1) is not stated.
Spec == Init /\ [][Next]_vars
=============================================================================
