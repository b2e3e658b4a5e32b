---------------------------- MODULE NumberParsing ----------------------------
(***************************************************************************)
(* normalize_number and parse_numbers_csv (main.py 451-473): the number   *)
(* list the operator types in branch 9 and in the quick flow.  A string is *)
(* a sequence of characters, each a small string standing for a character *)
(* class: ASCII digits, a decimal digit outside ASCII (Python's \d and     *)
(* str.isdigit() match it, e.g. a fullwidth or Arabic-Indic digit),        *)
(* punctuation, a blank, the separators "," and newline.  The lengths 10  *)
(* and 11 of the code are the constants MinDigits and MaxDigits.           *)
(* The implementation is recursive, as the code scans; the reference of   *)
(* spec.md 4.4 and 8 is stated by positions, without recursion.            *)
(***************************************************************************)
EXTENDS Naturals, Sequences, SequencesExt, FiniteSetsExt

CONSTANTS
    AsciiDigits,   \* "0".."9"
    OtherDigits,   \* decimal digits (Unicode category Nd) outside ASCII
    Others,        \* characters that are neither digits nor blanks
    Space,         \* blanks str.strip() removes
    MinDigits,     \* 10
    MaxDigits,     \* 11
    MaxRaw         \* bound on the length of a typed line

ASSUME /\ "1" \in AsciiDigits
       /\ MaxDigits = MinDigits + 1
       /\ {",", "\n"} \cap (AsciiDigits \cup OtherDigits \cup Others \cup Space) = {}

\* re's \d on a str pattern: every Unicode decimal digit.
Digits == AsciiDigits \cup OtherDigits
Chars == Digits \cup Others \cup Space \cup {",", "\n"}

-----------------------------------------------------------------------------
(* The code.                                                               *)

\* Variant: only blanks removed, punctuation kept.
NormalizeKeepsPunctuation(num) == SelectSeq(num, LAMBDA c : c \notin Space)

\* `re.sub(r"[^\d]", "", num)`
normalize_number(num) == SelectSeq(num, LAMBDA c : c \in Digits)

\* `s.split(sep)`: k separators give k+1 pieces, empty ones included.
RECURSIVE SplitOn(_, _)
SplitOn(s, sep) ==
    LET k == SelectInSeq(s, LAMBDA c : c = sep) IN
    IF k = 0 THEN <<s>>
    ELSE <<SubSeq(s, 1, k - 1)>> \o SplitOn(SubSeq(s, k + 1, Len(s)), sep)

RECURSIVE LStrip(_)
LStrip(s) == IF s # <<>> /\ Head(s) \in Space THEN LStrip(Tail(s)) ELSE s

\* Variant: `p.lstrip()`.
StripLeftOnly(p) == LStrip(p)

\* `p.strip()`
Strip(p) == Reverse(LStrip(Reverse(LStrip(p))))

\* `[p.strip() for p in raw.replace("\n", ",").split(",") if p.strip()]`
Parts(raw) ==
    LET pieces == SplitOn(ReplaceAll(raw, "\n", ","), ",") IN
    SelectSeq([k \in DOMAIN pieces |-> Strip(pieces[k])], LAMBDA p : p # <<>>)

\* The loop over the parts: a normalized length in MinDigits..MaxDigits is
\* valid (a MinDigits one gets the prefix "1"); any other keeps the
\* stripped part as invalid.
RECURSIVE Classify(_, _)
Classify(parts, acc) ==
    IF parts = <<>> THEN acc
    ELSE LET p == Head(parts)
             n == normalize_number(p)
         IN Classify(Tail(parts),
              IF Len(n) >= MinDigits /\ Len(n) <= MaxDigits
              THEN [acc EXCEPT !.valid =
                      Append(@, IF Len(n) = MinDigits THEN <<"1">> \o n ELSE n)]
              ELSE [acc EXCEPT !.invalid = Append(@, p)])

parse_numbers_csv(raw) ==
    Classify(Parts(raw), [valid |-> <<>>, invalid |-> <<>>])

-----------------------------------------------------------------------------
(* The reference: spec.md 4.4 ("split a raw block on commas and newlines,  *)
(* trim whitespace, drop empty fragments ... preserving input order") and  *)
(* 8 (a 10-digit run gives "1" + the run, an 11-digit run is unchanged,   *)
(* any other digit count is rejected).                                     *)

\* 0, the positions of the separators in order, Len(raw) + 1.
Bounds(raw) ==
    <<0>> \o SetToSortSeq({k \in DOMAIN raw : raw[k] \in {",", "\n"}}, <)
          \o <<Len(raw) + 1>>

\* The j-th fragment without its leading and trailing blanks.
Fragment(raw, j) ==
    LET f == SubSeq(raw, Bounds(raw)[j] + 1, Bounds(raw)[j + 1] - 1)
        kept == {k \in DOMAIN f : f[k] \notin Space}
    IN IF kept = {} THEN <<>> ELSE SubSeq(f, Min(kept), Max(kept))

Fragments(raw) ==
    SelectSeq([j \in 1..Len(Bounds(raw)) - 1 |-> Fragment(raw, j)],
              LAMBDA f : f # <<>>)

DigitsOf(f) ==
    LET pos == SetToSortSeq({k \in DOMAIN f : f[k] \in Digits}, <) IN
    [m \in DOMAIN pos |-> f[pos[m]]]

Accepted(f) == Len(DigitsOf(f)) \in {MinDigits, MaxDigits}

Canonical(f) ==
    IF Len(DigitsOf(f)) = MinDigits THEN <<"1">> \o DigitsOf(f) ELSE DigitsOf(f)

RefValid(raw) ==
    LET acc == SelectSeq(Fragments(raw), Accepted) IN
    [m \in DOMAIN acc |-> Canonical(acc[m])]

RefInvalid(raw) == SelectSeq(Fragments(raw), LAMBDA f : ~Accepted(f))

-----------------------------------------------------------------------------
(* One typed line and its parse.                                           *)

VARIABLES raw, pc, valid, invalid

vars == <<raw, pc, valid, invalid>>

TypeOK ==
    /\ raw \in BoundedSeq(Chars, MaxRaw)
    /\ pc \in {"read", "parsed"}
    /\ valid \in Seq(Seq(Digits))
    /\ invalid \in Seq(Seq(Chars))

Init ==
    /\ raw \in BoundedSeq(Chars, MaxRaw)
    /\ pc = "read"
    /\ valid = <<>> /\ invalid = <<>>

\* Branch 9: the lines typed up to Ctrl+D, joined with ",", then
\* `nums = parse_numbers_csv(raw)`.
Parse ==
    /\ pc = "read"
    /\ LET r == parse_numbers_csv(raw) IN
       valid' = r.valid /\ invalid' = r.invalid
    /\ pc' = "parsed"
    /\ UNCHANGED raw

Parsed == pc = "parsed" /\ UNCHANGED vars

Next == Parse \/ Parsed

Spec == Init /\ [][Next]_vars

-----------------------------------------------------------------------------
\* parse_numbers_csv returns the valid numbers of spec.md 4.4/8 in input
\* order, each canonical, and reports every other non-blank fragment as
\* invalid: no fragment lost, split or reordered by the replace/split/strip
\* chain or the length test.
ParseMatchesReference ==
    pc = "parsed" =>
        /\ valid = RefValid(raw)
        /\ invalid = RefInvalid(raw)

\* Every number parse_numbers_csv accepts is an 11-digit US number made of
\* ASCII digits (spec.md 3: "normalized to 11 digits, US-style, leading
\* '1' + 10-digit NANP number").
ValidNumbersAreAscii ==
    \A m \in DOMAIN valid :
        /\ Len(valid[m]) = MaxDigits
        /\ \A k \in DOMAIN valid[m] : valid[m][k] \in AsciiDigits
=============================================================================
