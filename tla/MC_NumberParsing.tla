-------------------------- MODULE MC_NumberParsing --------------------------
(* A scaled instance: numbers of 2 or 3 digits stand for 10 or 11, so that *)
(* lines of up to 5 characters hold several fragments, valid and invalid. *)
EXTENDS NumberParsing

\* "N" stands for a non-ASCII decimal digit such as U+0663 or U+FF12.
MC_AsciiDigits == {"0", "1"}
MC_OtherDigits == {"N"}
MC_Others == {"-"}
MC_Space == {" "}
=============================================================================
