----------------------------- MODULE AddNumbers -----------------------------
(***************************************************************************)
(* add_numbers_to_client (main.py 476-525) with skip_existing=True, one    *)
(* step per HTTP request, called again and again by the operator, while   *)
(* other operators of the gateway create clients and assign numbers       *)
(* between the requests.  A number is a model value standing for a string *)
(* parse_numbers_csv already normalized to 11 digits.                      *)
(***************************************************************************)
EXTENDS ClientLookup, Naturals, Sequences, SequencesExt

CONSTANTS
    MaxBatch,  \* bound on the length of a parsed number list
    KeyInEnv   \* MSGGW_API_KEY is set (to other than the placeholder)

ASSUME MaxBatch \in Nat \ {0} /\ KeyInEnv \in BOOLEAN

VARIABLES
    pc,        \* "idle" (between calls), "lookup", "loop", or the process
               \* ended: "crashed" (an uncaught exception), "exited"
    ident,     \* the identifier argument
    nums,      \* the numbers argument
    target,    \* client_id the identifier resolved to
    existing,  \* the in-memory exclusion list
    i,         \* loop position in nums
    added, skipped, failed,
    outcome    \* history: what the loop reported for nums[1..i-1]

callVars == <<ident, nums, target, existing, i, added, skipped, failed, outcome>>
vars == <<uname, owner, pc, ident, nums, target, existing, i,
          added, skipped, failed, outcome>>

Batches == {s \in BoundedSeq(Numbers, MaxBatch) : s # <<>>}
Reports == {"added", "skipped", "failed"}
Terminal == {"crashed", "exited"}

TypeOK ==
    /\ GatewayTypeOK
    /\ pc \in {"idle", "lookup", "loop"} \cup Terminal
    /\ ident \in Typed
    /\ nums \in BoundedSeq(Numbers, MaxBatch)
    /\ target \in ClientIds \cup {NoClient}
    /\ existing \subseteq Numbers
    /\ i \in 1..MaxBatch + 1
    /\ {added, skipped, failed} \subseteq 0..MaxBatch
    /\ outcome \in BoundedSeq(Reports, MaxBatch)

\* The locals as they are outside a call.
NoCall ==
    /\ ident = "" /\ nums = <<>> /\ target = NoClient /\ existing = {}
    /\ i = 1 /\ added = 0 /\ skipped = 0 /\ failed = 0 /\ outcome = <<>>

Init == GatewayInit /\ pc = "idle" /\ NoCall

\* Variant: the exclusion list built from a field other than "number".
ExistingNumbersWrongField(c) == {owner[n] : n \in NumbersOf(c)}

\* `existing = [n.get("number", "") for n in client.get("numbers", [])]`
ExistingNumbers(c) == NumbersOf(c)

\* The menu calls add_numbers_to_client(s, ns) with a non-empty parsed list.
Call ==
    /\ pc = "idle"
    /\ \E s \in Idents, ns \in Batches :
        /\ ident' = s
        /\ nums' = ns
    /\ pc' = "lookup"
    /\ UNCHANGED <<uname, owner, target, existing, i, added, skipped, failed, outcome>>

\* The function returns to the menu; its locals are gone.
Return ==
    /\ pc' = "idle"
    /\ ident' = "" /\ nums' = <<>> /\ target' = NoClient /\ existing' = {}
    /\ i' = 1 /\ added' = 0 /\ skipped' = 0 /\ failed' = 0 /\ outcome' = <<>>

\* get_client_by_identifier, then "Client ... not found." or the snapshot of
\* the client's numbers taken from the same fetched record.
LookupClient ==
    /\ pc = "lookup"
    /\ \E ok \in BOOLEAN :
        LET c == Lookup(ident, ok) IN
        \/ /\ ok /\ Raises(ident)
           /\ pc' = "crashed"
           /\ UNCHANGED callVars
        \/ /\ ~(ok /\ Raises(ident)) /\ c = NoClient
           /\ Return
        \/ /\ ~(ok /\ Raises(ident)) /\ c # NoClient
           /\ pc' = "loop"
           /\ target' = c
           /\ existing' = ExistingNumbers(c)
           /\ i' = 1 /\ added' = 0 /\ skipped' = 0 /\ failed' = 0
           /\ outcome' = <<>>
           /\ UNCHANGED <<ident, nums>>
    /\ UNCHANGED gatewayVars

\* Variant: an "already exists" reply counted as added.
ReportExistsAsAdded(r) ==
    CASE r \in {"ok", "exists"} -> "added"
      [] OTHER                  -> "failed"

\* What the loop reports for a reply: 2xx is added; an error whose message
\* contains "already exists" (lower-cased) is skipped; any other status and
\* a network error are failed.
Report(r) ==
    CASE r = "ok"     -> "added"
      [] r = "exists" -> "skipped"
      [] OTHER        -> "failed"

Count(res) ==
    /\ added' = added + (IF res = "added" THEN 1 ELSE 0)
    /\ skipped' = skipped + (IF res = "skipped" THEN 1 ELSE 0)
    /\ failed' = failed + (IF res = "failed" THEN 1 ELSE 0)
    /\ outcome' = Append(outcome, res)

\* A number in the exclusion list is skipped without a request.
SkipKnown ==
    /\ pc = "loop"
    /\ i <= Len(nums)
    /\ nums[i] \in existing
    /\ Count("skipped")
    /\ i' = i + 1
    /\ UNCHANGED <<uname, owner, pc, ident, nums, target, existing>>

\* Variant: the exclusion list not extended after a 2xx.
AddToExistingDropped(r) == existing' = existing

\* On 2xx the number is appended to the exclusion list.
AddToExisting(r) ==
    existing' = IF r = "ok" THEN existing \cup {nums[i]} ELSE existing

\* POST /clients/{client_id}/numbers with {number, carrier}.
PostNumber ==
    /\ pc = "loop"
    /\ i <= Len(nums)
    /\ nums[i] \notin existing
    /\ \E r \in NumberPostReplies(nums[i], target) :
        /\ ServerAssign(nums[i], target, r)
        /\ Count(Report(r))
        /\ AddToExisting(r)
    /\ i' = i + 1
    /\ UNCHANGED <<uname, pc, ident, nums, target>>

\* The loop is over: "Done: a added, s skipped, f failed".
Done ==
    /\ pc = "loop"
    /\ i > Len(nums)
    /\ Return
    /\ UNCHANGED gatewayVars

\* auth_tuple() runs before every request.  With no key in the environment
\* it prompts, and a blank answer is sys.exit(1): SystemExit, which main()
\* does not catch, ends the process before the request is sent.
BlankKey ==
    /\ ~KeyInEnv
    /\ \/ pc = "lookup"
       \/ pc = "loop" /\ i <= Len(nums) /\ nums[i] \notin existing
    /\ pc' = "exited"
    /\ UNCHANGED <<uname, owner, ident, nums, target, existing, i,
                   added, skipped, failed, outcome>>

\* Ctrl+C during the call: main() catches KeyboardInterrupt and returns.
Interrupt ==
    /\ pc \in {"lookup", "loop"}
    /\ pc' = "exited"
    /\ UNCHANGED <<uname, owner, ident, nums, target, existing, i,
                   added, skipped, failed, outcome>>

Environment ==
    /\ pc \notin Terminal
    /\ GatewayEnv
    /\ UNCHANGED <<pc, ident, nums, target, existing, i,
                   added, skipped, failed, outcome>>

\* The process has ended.
Stopped ==
    /\ pc \in Terminal
    /\ UNCHANGED vars

Next ==
    \/ Call \/ LookupClient \/ SkipKnown \/ PostNumber \/ Done
    \/ BlankKey \/ Interrupt \/ Environment \/ Stopped

Spec == Init /\ [][Next]_vars

-----------------------------------------------------------------------------
\* Every number the loop reports as added is assigned, on the gateway, to
\* the client the identifier resolved to, although other operators assign
\* numbers between the snapshot and each POST.
AddedNumbersAreAssigned ==
    \A k \in DOMAIN outcome :
        outcome[k] = "added" => owner[nums[k]] = target

\* A number given twice in one call is reported added at most once
\* (spec.md section 8: [x, x] gives added=1, skipped=1), also when the
\* gateway would answer a repeated POST of a number the client already has
\* with 2xx: the 2xx branch puts the number on the exclusion list.
DuplicateAddedOnce ==
    \A k1, k2 \in DOMAIN outcome :
        (k1 # k2 /\ nums[k1] = nums[k2])
            => ~(outcome[k1] = "added" /\ outcome[k2] = "added")

\* A number the loop reports as skipped is assigned to the client: spec.md
\* 4.4 reads an "already exists" reply as the same number having been added
\* to this client by another actor since the snapshot.
SkippedNumbersAreAssigned ==
    \A k \in DOMAIN outcome :
        outcome[k] = "skipped" => owner[nums[k]] = target
=============================================================================
