# TLA+ models of the gomsggw admin client

`src/scripts/main.py` is an interactive command-line client for the
gomsggw SMS/MMS gateway's HTTP management API. The user (the operator) picks
menu items. The client sends blocking HTTP requests for them and prints the
results. The gateway itself is not in this repository. Here it is the
*environment*: other operators (a second admin, the gateway's own tools) can
change it between any two requests of the session.

This directory holds the TLA+ modules that model the client, the TLC
configurations that check them, and `PROJECT.json`. `PROJECT.json` lists the
components, runs, mutants, source map, findings and hazards.

## 1. Inventory

### Components, their state and operations

| Component | Source | State | Operations |
|---|---|---|---|
| Transport | `auth_tuple`, `base_url`, `get_json`/`post_json`/`put_json`/`patch_json` (36-75, 579-588) | none of its own. `API_KEY` is read once at import and never updated | build the URL, prompt for the API key **on every request** when the environment has none (blank answer: `sys.exit(1)`), send with a 15 s timeout |
| Carrier operations | `list_carriers`, `create_carrier_interactive`, `reload_carriers` (82-206) | none (gateway-side carriers) | GET/POST `/carriers`. `reload_carriers` (POST `/carriers/reload`) is called from nowhere. |
| Client lookup | `get_client_by_identifier`, `get_client` (242-268) | none | GET `/clients`. If the identifier `isdigit()`, an id pass compares against `int(identifier)`. Then a username pass. |
| Client operations | `list_clients`, `show_client_details`, `create_client_interactive`, `update_client_settings`, `change_client_password` (208-437, 591-625) | none (gateway-side clients) | lookup, then POST `/clients`, PUT `.../settings` or PATCH `.../password` |
| Number operations | `normalize_number`, `parse_numbers_csv`, `add_numbers_to_client`, `list_client_numbers`, `get_client_numbers` (443-550) | per call: the exclusion list `existing` and the counters `added`/`skipped`/`failed` | parse a number list; for each number, skip it locally or POST `/clients/{id}/numbers`, then tally |
| Reload | `reload_all` (557-576) | none | POST `/clients/reload`, then POST `/carriers/reload`, each reported on its own |
| Password generation | `generate_password` (23-33) | none | a rejection-sampling loop over `secrets.choice`, called when a password prompt is left blank |
| Interactive shell | `menu`, `main` (631-772) | `last_client`, the default for every blank identifier prompt | one branch per menu key. `KeyboardInterrupt` is caught in `main`. |
| Gateway (external) | spec.md §6 | clients (id, username), number ownership, settings, passwords, carriers | answers the requests. Other operators act concurrently. |

### How they interact

The shell calls one operation per menu choice. Every operation goes through
the transport, and most start with the client lookup (one full GET
`/clients`). The only state that lasts across menu choices is `last_client`.
It holds a *string*: the id string returned by a create (branch 5, `q`), or
whatever identifier was typed in branch 9. It is resolved again, with the
id-first rule, each time it is used. Within `add_numbers_to_client`, the
client's numbers are fetched once with the lookup. This snapshot is then used
for the whole loop, while the gateway can change between the POSTs.

### What is hard here

The code is single-threaded. The hard behaviour comes from the gateway
changing between the session's requests, and from the session's own
sequence of calls:

* **Stale `last_client`.** A typed identifier is stored as text and
  resolved again later. A digit string that matched a *username* can later
  match a new client's *id*.
* **Stale snapshot.** The exclusion list is taken once. Other operators
  assign numbers during the loop. The loop classifies the gateway's
  "already exists" reply by substring, whichever client owns the number.
* **Timeouts that were applied.** A network error after the gateway applied
  a POST is counted as `failed`. A rerun then sees "already exists".
* **Uncaught exceptions.** `int(identifier)` raises for Unicode digits
  (`"²".isdigit()` is true). `resp.json()` raises on a non-JSON 2xx body.
  `sys.exit(1)` runs on a blank API-key answer in the middle of a batch. Only
  `KeyboardInterrupt` is caught.

### What makes each component correct

* Lookup: the id pass comes before the username pass. An unknown identifier,
  a failed GET or a non-200 reply gives "not found". The lookup never raises.
* `add_numbers_to_client`: every number reported `added` or `skipped` is on
  that client. A number is reported `added` at most once per call. The tally
  accounts for every number.
* Shell: `last_client` names the client most recently touched, and keeps
  naming it. A blank identifier acts on that client. The session ends only
  through `0` or an interrupt, with exit status 0.
* Transport: a failed request aborts only the current operation, and a
  body that fails to parse as JSON is shown as text (spec.md §6, §7).
* Number parsing: order-preserving and partition-complete, 10 digits become
  "1" + digits, and 11 stay unchanged (spec.md §8).

## 2. Modules

| Module | Models | Notes |
|---|---|---|
| `Gateway.tla` | the external gateway: `uname` (client id → username), `owner` (number → client id), and the replies it may give | environment only, models no code of this repository |
| `ClientLookup.tla` | `get_client_by_identifier` as operators: `ById`, `ByName`, `Resolve`, `Raises`, `Lookup` | identifiers are strings. `IsDigit` and `IntValue` give `str.isdigit()` and `int()` for each one. |
| `NumberParsing.tla` | `normalize_number` and `parse_numbers_csv` as RECURSIVE operators (`SplitOn`, `LStrip`, `Classify`), and the spec's reference stated by positions (`Bounds`, `Fragments`, `RefValid`, `RefInvalid`) | one typed line per behaviour: `Init` picks the line, `Parse` parses it |
| `AddNumbers.tla` | `add_numbers_to_client`, one step per request, called repeatedly, with the gateway environment acting between steps; the API-key prompt's exit and Ctrl+C | detailed model of the loop |
| `AdminShell.tla` | `menu()`/`main()`: every branch (1-9, `r`, `q`, `0`), `last_client`, the API-key prompt before every request, Ctrl+C at a prompt or within a step, Ctrl+D at the menu prompt, and the exception or exit that ends a session | `add_numbers_to_client` is one step here. Its detail is `AddNumbers`. |
| `PasswordGeneration.tla` | `generate_password`: `Draw` is one pass of `while True` (draw `Length` characters, test, return or go round) | a character is a one-character string standing for its class; the random draw is `\E` |
| `MC_*.tla` | constant definitions for TLC | |

How state and actions correspond to the code:

* `NumberParsing`:
  * A string is a sequence of one-character strings. Each stands for a
    character class: ASCII digits `"0"`, `"1"`, a non-ASCII decimal digit
    `"N"`, punctuation `"-"`, a blank, `","` and `"\n"`.
  * `Parts` is the list comprehension of line 458. `Classify` is the loop
    of lines 459-468.
  * The code's lengths 10 and 11 are the constants `MinDigits` and
    `MaxDigits`.
* `AddNumbers`:
  * `existing` and `added`/`skipped`/`failed` are the function's locals.
    `outcome` records what the loop reported for each number.
  * `LookupClient` is the lookup plus the snapshot (lines 480-493).
    `SkipKnown` is the `num in existing` branch. `PostNumber` is the POST
    with all of its reply branches. `Done` prints the tally.
  * `BlankKey` is `auth_tuple` (lines 36-44) answered with a blank key
    before a request. It calls `sys.exit(1)`. `Interrupt` is Ctrl+C, which
    `main` catches.
* `AdminShell`:
  * `lastClient` is `last_client`, with `""` standing for `None`.
  * `lastTouched` and `lastSetBy` are history: the client `last_client`
    resolved to when it was set, and by which branch.
  * `viewed` records the last branch 4/8 lookup.
  * `error` is the exception that ended the session: `ValueError` from
    `int()`, `JSONDecodeError`, `SystemExit` from a blank API key, or
    `EOFError` from Ctrl+D at the menu prompt (`EndOfInput`).
  * `carriers` is the gateway's carrier table. `keyTyped` records that a
    request was sent with a key typed at a prompt.
  * Each branch is an action: `ListCarriers`, `CreateCarrier`,
    `ListClients`, `ShowClientDetails`, `CreateClient`,
    `UpdateClientSettings`, `ChangeClientPassword`, `ListClientNumbers`,
    `AddNumbersToClient`, `ReloadAll`, `QuickFlow` and `Exit`. `Interrupt`
    is Ctrl+C at the menu prompt.
  * The quick flow ends with "Reload all? [Y/n]". Any answer but `n` sets
    `pc` to `"reload"`, and `ReloadAll` then runs from there, as in branch
    `r`.
  * Without `MSGGW_API_KEY` (`KeyInEnv` false), `auth_tuple` prompts before
    *every* request. Each action has the outcomes `Stops(k)` for its `k`
    requests. A stop at request `i` applies the effects of the `i - 1`
    requests before it. It is either a blank key at the prompt of request
    `i` (`SystemExit`, status 1) or Ctrl+C (`KeyboardInterrupt`, caught by
    `main`). A Ctrl+C can also come after the last request was applied.
    In the middle of a batch, this leaves any subset of the numbers
    assigned.
  * A GET's reply (`GetReplies`) is 200 with JSON, a handled failure, or,
    when `NonJsonBodies` holds, 200 with a body `json()` cannot parse.
* Replies: each request's reply is chosen with `\E` from the replies the
  gateway may give in its current state:
  * 2xx;
  * an "already exists" error;
  * another error;
  * a network error before or after the gateway applied the request.

## 3. Runs

| Run | cfg | Expect | Checks |
|---|---|---|---|
| `parsing_reference` | `MC_NumberParsing.cfg` | pass | `TypeOK`, `ParseMatchesReference` |
| `parsing_ascii` | `MC_NumberParsing_ascii.cfg` | violation | `ValidNumbersAreAscii` |
| `addnumbers_safety` | `MC_AddNumbers.cfg` | pass | `TypeOK`, `AddedNumbersAreAssigned`, `DuplicateAddedOnce` |
| `addnumbers_skipped` | `MC_AddNumbers_skipped.cfg` | violation | `SkippedNumbersAreAssigned` |
| `shell_safety` | `MC_AdminShell.cfg` | pass | `TypeOK`, `LastClientNamesCreated` |
| `shell_last_touched` | `MC_AdminShell_LastClientWasTouched.cfg` | violation | `LastClientWasTouched` |
| `shell_last_stable` | `MC_AdminShell_LastClientStable.cfg` | violation | `LastClientStable` |
| `shell_list_numbers` | `MC_AdminShell_ListNumbersByUsername.cfg` | violation | `ListNumbersByUsername` |
| `shell_crash` | `MC_AdminShell_IdentifiersNeverCrash.cfg` | violation | `IdentifiersNeverCrash` |
| `shell_json` | `MC_AdminShell_JsonFallback.cfg` | violation | `JsonFallback` |
| `shell_key_cached` | `MC_AdminShell_KeyCached.cfg` | violation | `KeyCached` |
| `password` | `MC_PasswordGeneration.cfg` | pass | `TypeOK` |

What they show:

* **`parsing_reference` passes.** This covers every line of up to 5
  characters. `parse_numbers_csv` returns exactly the spec's valid numbers,
  in input order and canonical. It returns every other non-blank fragment
  as invalid.
* **`parsing_ascii` fails.** `\d` is Unicode-aware. `"２０２-５５５-０１００"`
  normalizes to 10 fullwidth digits and is accepted. The gateway is then
  sent `"1２０２５５５０１００"`, not an ASCII US number (spec.md §3).
* **`addnumbers_safety` passes.**
  * Other operators may assign numbers between the snapshot and each POST,
    and the gateway may answer 2xx to a repeated POST. Even so, every number
    the loop reports `added` is on the target client. This rests on the
    gateway answering 2xx only for an unowned number or one already on
    the client; a stale snapshot or a timeout after the gateway applied a
    POST (counted failed) cannot break it.
  * A number repeated in one list is reported `added` once, because the 2xx
    branch extends `existing` (line 511).
* **`addnumbers_skipped` fails.** Suppose another operator assigns the number
  to *another* client. The gateway answers "already exists", and the loop
  reports the number as skipped although this client does not have it.
  spec.md §4.4 reads that reply only as a race on the same client.
* **`shell_safety` passes.** After a create, `last_client` is the new id
  string. Because the id pass comes first, it keeps resolving to the new
  client, even once clients named `"1"` or `"2"` exist. This run has no
  key in the environment, so a blank key, a Ctrl+C or a Ctrl+D can cut a
  step; every action and every cut point is explored.
* **`shell_last_touched` fails.** Branch 9 stores the typed identifier in
  `last_client` even when the lookup found nothing (line 731).
* **`shell_last_stable` fails.** Branch 9 with `"2"` finds the client
  *named* `"2"`, whose id is 1. Once another client gets id 2, a blank
  identifier acts on that other client.
* **`shell_list_numbers` fails.** spec.md §4.4 says list-numbers looks up by
  username only. The code (line 531 → 268) is id-aware.
* **`shell_crash` fails.** An identifier such as `"²"` passes `isdigit()`,
  but `int()` raises `ValueError` inside the id pass (line 257). `main` does
  not catch it.
* **`shell_json` fails.** A 2xx reply to `POST /clients` whose body is not
  JSON raises out of line 367 after the gateway created the client. The
  same happens at lines 99, 221 and 253. spec.md §6 promises a textual
  fallback.
* **`shell_key_cached` fails.** `auth_tuple` re-reads the module constant
  `API_KEY` on every call (line 37) and never keeps the typed key. The
  operator is therefore asked again for each request: twice for reload
  all, and once per number of a batch. A blank answer to a later prompt
  ends the session with status 1 in the middle of an operation. spec.md
  §9 describes the prompt as a fallback step that is invoked once and
  cached for the session.

* **`password` passes.** Every pass of the loop draws a string of the
  requested length over letters and digits (`TypeOK`; the mutant drawing
  `range(length - 1)` breaks it). That a returned password has all three
  classes is the exit test itself, and that the loop ends holds only with
  probability 1, so neither is stated as a property.

**Bounds.**

* Two client ids and two numbers (one in the shell): enough for one target
  client plus one other client that owns a number.
* Lists of up to 3 numbers: covers a repeat within a call and a repeat after
  a 2xx.
* Usernames `"1"` and `"2"` (shell) collide with id strings. This is what
  makes the id and username passes disagree.
* Identifiers `"02"`, `"alice"` and `"²"` (written `SUP2`) cover a
  non-canonical digit string, an unknown name, and an `int()` failure.
  `shell_safety` types only `"1"`, `"2"` and `"02"`. Those are the strings
  where the id and username passes disagree; the others only lead to
  crashes or "not found"; the violation runs type all five, with one
  client id.
* One carrier name: a first create and a refused second one.
* Passwords: one character per class and length 5 for the code's 24. The
  exit test depends only on which classes occur. At any length of 3 or
  more, some draws pass and others miss any one or two classes. Length 5
  also gives the 100+ states a run needs.
* Number parsing is scaled: 2 and 3 digits stand for 10 and 11, and the
  check covers every line of up to 5 characters over 7 character classes.
  A line then holds up to three fragments, valid and invalid, with blanks,
  punctuation and empty fragments around them. The code's logic depends
  only on the two lengths and on `MaxDigits = MinDigits + 1`.
* Every reply class is enumerated for every request.

The passing runs reach 39k, 44k, 140k and 244 distinct states. They
take 18 s, 2 s, 51 s and 1 s.

**Fairness.**

* No module assumes fairness, and no run checks a liveness property.
  `add_numbers_to_client` is a `for` loop over a finite list, so that a
  call returns is not in doubt; `generate_password` ends only with
  probability 1; and in the shell the operator decides what happens
  next, including whether the quick flow's reload ever runs after Ctrl+C.

## 4. Not modelled, and why

* `reload_carriers` (lines 189-206) is called from nowhere, so no session
  reaches it. Reloading changes state only on the gateway's side, and the
  client never reads it back. `ReloadAll` therefore records the requests
  sent and no gateway effect. The carrier typed in branch 9 is never checked
  against the `carrier_names` the branch builds. The gateway's treatment of
  an unknown carrier is unspecified, so numbers carry no carrier in the
  model.
* The password typed or generated in branches 5 and 7 is payload: the
  shell's actions send it without looking at it. `PasswordGeneration`
  checks the generator on its own.
* `get_client_numbers` is never called.
* Ctrl+D is modelled at the menu prompt only. At a step's prompt before
  its first request it leaves the same state; at the prompts between
  requests (the quick flow after the create, branch 7's confirmation) it
  ends the session like a blank key does. With stdin redirected from a
  file, the branch-9 reader consumes the end of input and the next menu
  prompt raises `EOFError` at once; input streams are not modelled.
* Reload replies are not modelled: each of the two POSTs has its own
  `try`, so the carrier reload is sent whatever became of the client
  reload, and nothing is read back.
* `add_numbers_to_client`'s own lookup is taken without a non-JSON reply
  in `AddNumbers`; `AdminShell` has that crash (`LookupError`).
* The menu's rendering, the printing of records, and the per-record field
  defaults (`.get(..., default)`) are output only.

## 5. Plan for the next sittings

1. **Compose the shell with the detailed loop.** `AdminShell` takes
   branch 9 as one step, `AssignSome`: any subset of the list's unowned
   numbers goes to the client found. Other operators
   only create clients and assign unowned numbers, so their steps commute
   with the loop's POSTs up to which subset ends up assigned. A composed
   module (the loop's steps inside the menu) would multiply the shell's
   140k states by the loop's. It is worth building only for a property
   about `last_client` *during* a call, and none is stated yet.
2. **Larger instances.**
   * A third client id in the shell, so that a digit username and a later id
     can collide twice.
   * Lines of 6 characters in `NumberParsing`: 275k states, but 13 min,
     because the recursive operators are evaluated per state.
3. **Carriers on numbers.** Give each assigned number the carrier it was
   posted with, if spec.md or the gateway's contract ever says how an
   unknown carrier is treated.
