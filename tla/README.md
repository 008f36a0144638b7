# Verification of the tool-shop CRM

TLA+ models of the CRM in this repository, the TLC configurations that check
them on small instances, and proofs of their main properties for instances of
any size. Paths without a prefix are relative to the repository's root.

The program is the back office of a shop that buys tools abroad for its
customers. One Postgres database holds customers, orders, purchases, stock,
prices and Telegram chats. Several processes work on it side by side: two MCP
servers (the local assistant's and Cowork's) through which the operator calls
tools, a small HTTP API, the analysis worker, the preflight and media workers,
and the importer of Telegram exports. All of them use READ COMMITTED
transactions and, with two exceptions (the customer profile's FOR UPDATE and the
unique keys of upserts), take no locks beyond those of the rows they write.

## 1. Inventory

| Component | State | Operations | What is hard | What makes it correct |
|---|---|---|---|---|
| **Order book** `app/orders`, `crm-mcp/tools/{create_order,update_order,update_order_item_status,verify_draft_order}.py`, the trigger of ADR-006 | orders and their status, lines and theirs, `total_price` | create, add lines, set a line's status, confirm or reject a draft, derive again; the trigger after every write of a line | two copies of the derivation rule; check and write in separate statements; DELETE against line updates | status is derived, drafts are empty, totals are complete, finished rows stay |
| **Applying an analysis** `app/analysis/service.py`, `repository.py` | draft orders, the journal `analysis_created_entities`, quarantine, profile | apply, forced re-apply with rollback, by a worker or by the MCP tool | check-then-act on the journal; what the operator did since | applied once; the operator's work survives |
| **Receiving and stock** `app/warehouse`, `app/procurement`, `app/catalog`, the tools `receive_stock`, `add_to_stock`, `set_exchange_rate`, `resolve_price_resolution` | purchases, receipts, stock rows, queued price conflicts, listings, observed prices, the rate | receive (with two hooks), add, set a rate, resolve a conflict | hooks that overlap, prices that round by themselves, a tool that does not commit, read-modify-write of quantities | nothing lost or counted twice, conflicts resolvable, prices change by decision only |
| **Price formulas** `app/pricing` | none | base cost, margin, discount, rounding, averages, allocation of a discount | boundaries of rounding | results in range, sums preserved |
| **Analysis run** `analysis/run.py`, `state_check.py` | checkpoints `analysis_chat_analysis_state`, analyses, the process's session | start with a check for another process, a chat through its LLM calls, apply, failure, Ctrl-C | long external calls, crashes, leftovers in the session, ages of checkpoints | a chat is applied once, every chat is analysed in the end |
| **Chats and customers** `app/communications`, `link_chat_to_customer`, `get_unreviewed_chats` | chats and their review status, messages, links | link, new customer, ignore | status check without a lock; one link per message | at most one customer per chat |
| **Identity quarantine** `app/analysis/identity_service.py`, `apply_identity_update` | quarantined contacts | queue, overwrite, reject, auto-apply | stale status checks, contacts of chats without a customer | an answer is final; each contact can be answered |
| **Customer tools and profile** | customers, profiles | create, update; append under a lock | uniqueness of contacts | no two customers with one contact |
| **Telegram import** `ingestion/` | accounts, chats with a watermark, messages, media | import an export, backfill media rows, register an account | incomplete exports, repeated and concurrent imports, failures in the middle | each message once, none for ever missed |
| **Preflight** `analysis/preflight` | analyses of a version of their own | classify pending chats | an exception ends the run | every chat gets a verdict |
| **Media extraction** `analysis/media_extract` | extracted texts | extract in batches, regenerate | rollback of a batch, the cursor, two runs at once | each message once; none stops the rest |
| **LLM client** `analysis/llm_client.py`, `app/llm_studio_control.py` | none | call with retries, wait for a model | errors outside the retries, time limits | a call ends |
| **Text work** chunking, matching, identity windows, loop detector | none | pure functions | boundaries of chunks and windows, verdicts about products nobody offered | nothing read twice or left out, verdicts name candidates |
| **Old shop's verdicts** `analysis/import_preflight_from_toolshop.py` | analyses of a version of their own | one import in one transaction | rows that carry the time of its beginning | a chat's old verdict is kept |
| **Reads** API routes, list and search tools | none | SELECT | - | - |
| **Set-up** migrations, configuration, seed, scripts | the schema | - | - | the constraints appear where actions meet them |

The components meet in the database: the trigger ties lines to orders; the
analysis worker and `apply_pending_analysis` write into the order book; receipts
call the hooks of procurement, catalog and pricing in their own transaction;
preflight verdicts are analyses and choose which chats the media worker takes;
links decide which customer an analysis belongs to. `PROJECT.json` lists every
component with its files and what is modelled of it, and the hazards at their lines.

## 2. Modules

    OrderStatuses   the status vocabularies, both copies of the derivation rule
      OrderRows     order and line rows, what a statement on lines makes of them
        OrderBook   the order tools, every call one step        (abstract)
        OrderDesk   the same tools statement by statement, with sessions and
                    row locks; refines OrderBook when there is one session
    Pricing         the price formulas as functions
      Receiving     receipts, stock, conflicts, listings, every call one step
      Discounts     averages over several lots, the discount of an order
    AnalysisRun     worker processes, checkpoints, the journal
    ChatBook        chats, customers, the queue of contacts, profiles, and what
                    analyses of several versions leave with them
    Archive         a table that only grows, one row per key   (abstract)
    TgImport        exports, importers, the backfill; refines Archive
    ChatVerdicts    the analyses that classify a chat           (abstract)
      Preflight     the classifier; refines ChatVerdicts
      MediaExtract  the extractor runs beside it; refines Archive
    Extract         the pure functions of the analysis
    MC*             the constants of the runs, checks of pure functions
    *Proofs         theorems and their proofs (ChatVerdictsProofs: Preflight, MediaExtract)

### OrderStatuses, OrderRows

`PyDeriveOrderStatus` is `app/orders/service.py::derive_order_status`,
`DeriveOrderStatus` the PL/pgSQL function of the migration. The Python copy takes
the least *weight* among the lines that are not cancelled, the SQL copy `MIN` of
an *enum*, which sorts in the order of its labels. Both look only at which
statuses occur, so both are functions of a set. A row that is not there has the
status `NoRow`; ids are never reused, so a removed order is `Deleted` for good.

### OrderBook

`ostat`, `istat`, `total`, `journal` are `orders_order.status`,
`orders_order_item.status`, the lines `total_price` was summed over, and the
orders the analyzer's journal lists. One action per tool: `CreateOrder`,
`AddItems` (update_order), `SetItemStatus`, `ConfirmDraft` and `RejectDraft`
(verify_draft_order), `ApplyAnalysis` (with or without a forced rollback) and
`DeriveEndpoint` (the API). Every action includes the trigger. Money is
abstracted to the set of lines a total covers, because that is what can go wrong
with it; the payment and the ledger entry of create_order are left out, and so
are the pending items an analysis stores for lines it could not match.

### OrderDesk

The same tools as sessions run them. A transaction is an overlay of its writes
over the committed rows (`ost`, `oli`, `sum`) with a program counter; each SQL
statement is an action that sees what READ COMMITTED lets it see, and waits for
the row locks Postgres would make it wait for (`Waits`): a written line, a
written order, the key-share lock an inserted line takes on its order. The
trigger is three statements (`Derive`, `Compare`, `Store`), as in the migration.
`DeadlockVictim` is the deadlock detector, `Rollback` an exception, a lost
connection or a killed process. Abstractions:

- a session that creates rows for a new order writes nothing anybody can see
  before its commit, so `CreateOrder` and `ApplyFirst` are one step each, and the
  orders a forced re-apply creates appear with its commit;
- a forced re-apply rolls back one order of its chat at a time in this module
  (`OrderBook` has any set of them);
- the cascade of a DELETE locks all lines in one step.

### Pricing

Whole numbers of the smallest unit (`Decimal` with four places), `HalfUp` for
`quantize(ROUND_HALF_UP)`. `Receiving` uses the rounding step and the weighted
average. `Discounts` adds the functions on several items. `MCReceiving` checks
two facts about them when TLC starts: the shares `allocate_order_discount` gives
add up to the discount exactly, every item but the last at most half a unit off,
so that the last takes up what the others leave (its share may be negative by
that much); and the average of two lots is what a conflict is resolved with.

### Receiving

`receipt`, `stock`, `pending`, `listing`, `primary`, `observed`, `purchase` and
`rate` are the tables; `added` and `answered` only record what the tools did.
`ReceiveStock` is the whole tool: the receipt, the price hook (calculation,
observation, stock row or conflict), the completeness count, the delivery hook.
Purchases and their lines are entered by hand and changed by no code, so they are
constants. Abstractions: one foreign currency; the one location the tools write
by default; at most one line of a product in a purchase (two make every receipt
fail, a hazard listed with a note); `delivered_at`, which is set together with
the status, is not a variable. The price the formula gives is any of `Prices`:
cost is fixed but the rate and the weight the operator types are not.
`ResolveCommits` says whether whoever calls `resolve_price_resolution` commits:
TRUE is the tool as its tests run it, and as it was meant; FALSE is the deployed
server, which closes the session after the answer.

### AnalysisRun

A worker goes from `off` through the check (`CheckRunning`), the choice of chats
(`Select`), and for each chat `loading`, as many LLM calls as the chat has chunks
plus four, `recording` (the upsert of the analysis), `apply` and `finish`. Each
`Commit` publishes what the session wrote since the last one, including what a
chat that raised an exception left behind: the loop of `main` catches the
exception and goes on in the same session without a rollback (run.py:778).
Abstractions, each because the code never reads the detail:

- a checkpoint is absent, younger or older than ten minutes. `updated_at` is set
  by the INSERT and not by the ON CONFLICT branch, so its age is the age of the
  chat's first stage; stages and partial results are written and never read, and
  `--resume` therefore does nothing;
- applying creates rows (`made = 1`) or none (a chat without a customer, an
  extract without actionable orders); a rollback empties the chat's journal rows;
- an extract, a narrative or a summary is a call that ended;
- links and customers do not change during a run; rows of the preflight version,
  and the MCP tool that applies, are in `ChatBook`.

### ChatBook

`review`, `messages`, `links` are `communications_telegram_chat.review_status`,
whether a chat has messages, and the customers the link rows of its messages
name; `tg`, `email` the two unique columns of `orders_customer`; `analysis`,
`newest` the rows of `analysis_chat_analysis` by version and the newest of them;
`queue` the quarantine in the order its rows were inserted; `profile` how often a
chat's fact is in a customer's profile; `drafts`, `journal` the orders a version
made of a chat that nobody has worked on, and the versions whose order the journal
lists. Every tool call, and every chat of a worker's pass, is one step: `Link`,
`LinkNew`, `Ignore` (link_chat_to_customer), `Analyse`, `AnalyseOnly` (run.py with
and without `--no-apply`), `Classify` (preflight), `ApplyPending`
(apply_pending_analysis, by force and with the newest row of any version),
`Reject`, `Overwrite` (apply_identity_update), `CreateCustomer`,
`UpdateCustomer`, `Import` and `WorkOn`. `Applied` is the whole of
`apply_analysis_to_customer`: the ambiguity and journal checks, the rollback, the
queue, the profile and the order. Abstractions: a chat has one contact, an
e-mail, one fact and one order; a count of 2 stands for more; two calls at the
same time are not modelled (`AnalysisRun` has that for the journal).

### TgImport, Archive

`files` is the export that lies in each account's folder (whose, up to which
message, and which of phone and user id it shows), `account`, `chats` (the watermark), `stored` and `media` are the tables,
`imp` the importers with the rows their open transaction has inserted, `bf` the
backfill. `OpenChat`, `CreateChat`, `InsertBatch`, `CommitChat` are the statements
of `_import_one_chat`; `LoseChat` is the unique key of a chat two imports create,
`FailChat` an exception, `Kill` a process that dies. An insert waits for a row of
the same key another transaction has inserted and not committed (`Waits`).
`EndImport` moves the account's timestamps. The backfill looks up chats, looks up
messages and inserts in three steps. A message is its account and its id: an
export in a wrong folder brings another account's messages.

An import opens its file twice. `StartImport` reads the phone and compares it, if
there is one (`tg_import.py:400`), with the folder's, and keeps what it read
(`read`: the user id goes into the account at the end). `ParseExport` comes after
the database was asked for the account and parses what lies in the folder by then,
which `Export` may have replaced. So foreign messages do get in, through an export
without a phone and through a file that was replaced, and `OwnMessages` says that
these are the only ways: whatever other steps happen, an import that parsed what it
had compared brings in its account's messages and id alone. What the rest promises
then depends on it: a chat with foreign messages is mixed, two accounts' messages
share ids in it, and an own message may be missing below its watermark or be taken
for a stored one; `UpToWatermark` and `ImportedIsStored` speak of the chats that
are not (`Unmixed`), all other properties of every chat. `Archive` is what both
this module and `MediaExtract` promise of their tables.

### ChatVerdicts, Preflight, MediaExtract

`rows` holds a chat's analyses in the order of `analyzed_at`, each with a version,
a verdict or none, and whether its transaction is committed; `here` are the
messages, `legacy` says whether the import of the old shop's verdicts is under
way: its rows carry the time it began and appear when it commits, behind rows
written meanwhile. `Latest` is the rule every reader uses: the newest row of any
version, `unknown` if it has no verdict or there is none.

A row is replaced in place of the one of its version (`Without`), since the key is the
chat and the version, and a rollback takes the one row the import had open.

`Preflight` is the classifier on top of that (its state and specification carry the
prefix `Pf`, so that one module can speak about it and the extractor): the work list read once, empty chats
judged without the model, a request with its retries, a verdict and its commit,
Ctrl-C before the next chat, an exception at any point. `MediaExtract` has the
extractor's runs: the probe for the vision model (which looks at the first `Probe` rows only), batches by a cursor over message
ids, one message at a time (`MxExtract`, then `MxSave`), commits of a few results,
`--regenerate` with its DELETE and INSERT, which waits for a row another run holds
and fails when it meets one. `due` is not in the code: it records what a run found
pending when it began, in chats that keep their verdict, for the property about
it. What a text says is its version and whether it is a placeholder.

### Extract

Functions without state: which messages form a chunk, which windows of a client's
messages are read for an identity and how their answers are merged, which products
are candidates for a line and what a verdict about them counts for, and the loop
detector. The fuzzy score, the model's answers and tokens are inputs.
`MCAnalysisRun` checks them when TLC starts, over all inputs up to a size:
`ChunksPartition`, `ClientIsReadOnce`, `IdentityIsKept`, `VerdictsAreSound`,
`PrefixHasNoLongerLoop`.

## 3. Runs

| Run | Instance | Question | Result |
|---|---|---|---|
| `OrderBook` | 2 orders, 2 lines each, all 7 item statuses | do sequences of whole calls keep status, drafts, totals and finished rows right? | holds |
| `OrderDesk` | 2 sessions, 1 order, 2 lines, every tool | are there orphans, unexpected deadlocks, calls that never end? | holds |
| `OrderDeskSerial` | 1 session, 2 orders, 2 lines | does the statement-level model implement `OrderBook`? | holds |
| `OrderDeskSkew` | 2 sessions, 1 order, 2 lines | is the status "guaranteed consistent"? (`README.md:172`) | violated |
| `Receiving` | 2 purchases sharing a product, 3 receipts, 3 prices, 2 quantities, 1 addition | do receipts, conflicts and hooks in any order agree? | holds |
| `ReceivingAnswered` | same, no commit | is a conflict answered "ok" resolved? (`resolve_price_resolution.py:20`) | violated |
| `AnalysisRun` | 2 workers, a chat of one chunk and an empty one, `--all` and `--all --force`, 1 fault | is a chat applied once, is every chat analysed? | holds |
| `ChatBook` | 2 chats of 2 accounts with one person, 2 customers, 2 handles, an e-mail, one version and preflight | whom does a chat belong to, what do analyses leave with that customer, are answers final? | holds |
| `ChatBookBound` | same | once a chat is linked, can its queued contacts be answered? (`service.py:343`) | violated |
| `TgImport` | 2 importers, the backfill, 2 accounts, 6 messages, 4 exports, batches of 1 | is anything lost, doubled or left without metadata, and how does anything foreign come in? | holds |
| `Preflight` | 2 chats, 4 messages, 2 verdicts, 2 tries | does a run leave a chat without a verdict, does it keep to `ChatVerdicts`? | holds |
| `MediaExtract` | 2 runs, 1 chat, 3 media, batches and commits of 2, a probe of 1 | is a medium passed over, a text lost, more than a commit's worth undone? | holds |

**Bounds.** Derivation looks at sets of statuses, so two lines reach every pair of
statuses, and pairs are what a minimum can get wrong; two orders let a rollback
and a creation meet in one call. Two sessions are the smallest number that can
interleave; every lock circle of these tools has length two on one order, since a
call touches one order (a forced re-apply is reduced to one, see above).
`OrderDesk` fixes the status asked for to `delivered`, the one that ends a line,
because its properties are about emptiness and locks; the runs about statuses use
three. The prices of `Receiving` are
950, 1000 and 1200 roubles in units of a kopeck, on both sides of the threshold
where the rounding step goes from 10 to 100 roubles: 1000 on 950 conflicts, 950 on
1000 merges, and averages cross the threshold; three receipts queue two conflicts on one product, or finish both
purchases. In `AnalysisRun` one fault (`MaxFaults`) is enough for every failure to
happen at every point, and it also bounds Ctrl-C; one chunk, since every call is
followed by the same checks. `MaxAdded` bounds additions to stock; `ChatBook`'s two chats share a
handle, which is what makes telegram_ids collide; one of them names sources for
its fact and one does not; two rows of the queue are an answered one and its
successor (`MaxRows`), and preflight looks at one chat only (`OneEarly`).
`TgImport`'s ids are 9 to 12, because the watermark is stored as text and 10 comes
before 9 there; one message was imported before media were recorded; exports
(`Placed`) replace each other in one folder: an older one of the account that shows
neither phone nor user id, a newer one that shows both, and two of another account,
with a message under an id the account uses in the same chat, of which one shows both
and one no phone; so foreign messages are refused at the comparison, get past it, or
are swapped in after it. `Bounds` lets the backfill read the account's newest export
and run beside one importer, imports the foreign export without a phone alone, and
ends where the other account is registered or its id has come in, which no other
variable depends on; batches of one make an import of
three messages three statements. In `Preflight` a preview of one message at each end leaves one out of
three. In `MediaExtract` three media with batches and commits of two give a full
and a last batch, and a commit inside and at the end of a batch; one was described
by an older version, one arrives late, and `Few` allows one row of an analysis,
enough to take the chat's verdict away; the photo lies behind what the probe
looks at until the row before it has its text.

**Deadlock** is not checked where the system may stop: all orders finished or
removed, all receipts used, all processes off. It is checked in `ChatBook`,
`TgImport`, `Preflight` and `MediaExtract`, where a call or a run can always begin. That calls do not get stuck is
`EveryCallEnds`, that runs do not is `EveryChatAnalysed`.

**Fairness.** `OrderDesk`: strong fairness of each session's statements, because a
process executes its next statement without being asked and Postgres queues the
waiters of a row lock, so a statement that can run again and again is not passed
over for ever; weak fairness of the deadlock detector, which runs after
`deadlock_timeout`. Beginning a call and rolling it back are not fair: nobody has
to call anything. `AnalysisRun`: weak fairness of a process's steps and of time
(an age of ten minutes is reached), and strong fairness of the operator starting
`--all` for each version: starts are refused while a checkpoint is young, so the
operator who comes back now and then is what the runbook asks for. Failures,
crashes and Ctrl-C are never fair and finitely many: without the last no run
would ever succeed.

**Types.** Every module has a type invariant, and all of them are theorems; those of
`OrderBook`, `Receiving` and `AnalysisRun` are no longer among what the runs check.

**Mutants.** Every property of a passing run is broken by a plausible bug: an enum
label appended instead of inserted, a trigger that does not fire on INSERT, a
total of the call's own lines, a dropped status check, a missing foreign key, a
retried insert, an observation without its duplicate check, a count before the
flush, an upsert that does not keep its key, a check that ignores age, a review
status that is not tested, a watermark moved in a transaction of its own or compared
as text, metadata for the last batch only, a selection that takes any analysis for
a verdict, a cursor over unordered batches, a DELETE that is committed by itself,
and so on.
They stand next to the definition they change.

## 4. What the violated runs say

1. **Write skew** (`OrderDeskSkew`). The trigger reads the lines without a lock on
   their order.
2. **A resolution that is never stored** (`ReceivingAnswered`). The one writing
   tool that does not commit.
3. **A contact that nobody can accept** (`ChatBookBound`). The queue keeps the row
   without a customer that it got before the chat was linked, a re-analysis does
   not replace it, and the tool refuses it with the advice to link the chat.

The models also have behaviours no run is spent on. They are hazards with notes:

- inserting the first matched line of an analysis takes its order out of `draft` in
  the same transaction, so what list_draft_orders shows of the analyzer is empty;
- a forced re-apply deletes orders the operator has worked on, since its guard
  counts journal rows and admits `in_procurement`;
- an item update repeats only the id, so a finished line can come back; SUM and
  UPDATE of a total are two statements, so lines of another call can be left out;
- a rejection deletes an order that gained a line after the draft check, a
  confirmation overwrites `in_procurement`, and create_order answers `confirmed` for
  a row that is in procurement;
- a purchase is delivered when as many distinct products were received as were
  purchased, whichever they are;
- a chat linked before its first message has no customer afterwards;
- a full analysis has no verdict, so it turns a client's chat into an unknown one
  for the media extractor and the filters that read the newest row.

And facts of single functions, found while they were translated: an operator's name
in an early window takes the client's name in a later one with it
(`IdentityIsKept` says what is kept); an answer of the matcher that is JSON and no
object raises instead of giving `not_found` (analysis/matching.py:223); the loop
detector prefers the longer phrase, so a kept beginning may contain a shorter
loop (`PrefixHasNoLongerLoop`); an extraction of a newer version is dropped by ON
CONFLICT DO NOTHING unless `--regenerate` is given, and asked for again by every
run (`Pending`, `MxSave`).

## 5. Proofs

TLAPS checks every step for any number of orders, lines, sessions, purchases,
products, receipts, workers, chats, versions, customers, accounts, messages, imports
and runs. Every safety invariant, action property and refinement that a passing run
checks is a theorem here; only liveness is left to the runs. Assumed are only the
named assumptions on constants (`TargetsAssumption`, `OpsAssumption`,
`UnitAssumption`, `ReceivingAssumption`, `RunAssumption`, `ChatAssumption`,
`TgAssumption`, `VerdictAssumption`, `PreflightAssumption`, `MediaAssumption`), which
TLC evaluates in the runs. Most say what kind of thing a constant is. Three say more:
the prices the formula can give are rounded ones (it ends with the rounding step);
the messages imported before media were recorded have no gap in a chat (that import
went from the first message on); and the mark for "none" is none of the values.

| Module | Theorem | Says |
|---|---|---|
| `OrderRowsProofs` | `DerivationsAgree` | the two copies of the rule are one function on non-empty sets |
| `OrderBookProofs` | `TypeCorrect`, `StatusIsDerived`, `DraftsAreEmpty`, `TotalIsComplete` | the invariants of `OrderBook` |
| | `ImmutableOrders`, `TerminalItems` | its action properties |
| `OrderDeskProofs` | `TypeCorrect`, `DraftsStayEmpty`, `OnlyDeletesDeadlock` | the invariants of `OrderDesk` |
| | `AloneIsOrderBook` | with one session it implements `OrderBook` |
| `ReceivingProofs` | `TypeCorrect`, `ConflictsResolvable`, `PrimaryListing`, `ObservedOnceEach`, `CompleteDelivered`, `UnitsConserved` | the invariants of `Receiving` |
| | `PricesByDecision`, `ResolvedWithinRange` | its action properties |
| `AnalysisRunProofs` | `TypeCorrect`, `NeverAppliedTwice` | the invariants of `AnalysisRun` |
| `ChatBookProofs` | `TypeCorrect`, `OneCustomer`, `ServesTheCustomer`, `AppliedOnce` | the invariants of `ChatBook` |
| | `AnswersFinal`, `HandlesKept` | its action properties |
| `TgImportProofs` | `TypeCorrect`, `StoredUpToWatermark`, `ImportIsComplete`, `MediaAlwaysRecorded`, `BackfillIsComplete`, `ImportsDoNotDeadlock` | the invariants of `TgImport` |
| | `ForeignOnlyUncompared` | its action property `OwnMessages` |
| | `KeepsMessages` | it implements `Archive` |
| `ChatVerdictsProofs` | `PfTypeCorrect`, `RunJudges` | the invariants of `Preflight` |
| | `ClassifierImplements` | it implements `ChatVerdicts` |
| | `TypeCorrect`, `NothingLeft`, `LossBounded` | the invariants of `MediaExtract` |
| | `KeepsTexts` | it implements `Archive` |

**Order book.** The derivation rules are shown to agree from two lemmas: weights
and enum positions order the statuses alike, and the least element of one order is
the least of the other. The inductive invariant is the conjunction of the type
invariant and the three safety invariants, stated per order, so that a step on one
order needs one order's case (`OneOrder`). `ImmutableOrders` needs it: the line
tool never looks at the order's status, and an order is safe only because an
immutable status that was derived leaves no line in a status the tool would pick
up (`ImmutableHasNoOpenLine`), while `confirmed` belongs to orders without lines.

**Order desk.** `DraftsHaveNoLine` speaks about committed rows, and is kept by what
open transactions have written and hold. The invariant says this in three parts.
`WritesOK`: what a transaction has written when it stands at a statement, so that an
inserted line comes with a status written or with the statement that will write it.
`RowsOK`: the committed rows it relies on, which its locks keep as they are (an order
that has got a line of its stays, and is a draft only until the trigger has stored).
`Apart`: what two transactions on one order cannot both have done, which is the lock
table read as a fact about pairs: not both hold the order's row, and beside a deleted
order nobody holds the key-share lock of an inserted line. Each statement has its
lemma, and they meet in `CommitInv`, where what was written becomes what there is.
`OnlyDeletesDeadlock` says that whoever waits in a circle of two has deleted an order
or waits for one who has: every other tool takes its lines before its order.

`AloneIsOrderBook` is the refinement for one session, whatever its name. A second
invariant says that nobody has changed what the call found (`Asked`), that the lines
it sees are those with its own writes (`LinesWritten`), that its order has the derived
status between two runs of the trigger (`OrderWritten`) and its total the sum
(`TotalWritten`). A commit is then the step of `OrderBook` with the same name, every
other statement a stutter. With two sessions `OrderDeskSkew` shows it false.

**Receiving.** The invariant is the conjunction of the type invariant and
`PendingResolvable`, `OnePrimaryListing`, `ObservedOnce` and
`CompleteIsDelivered`. The conjuncts other than the type invariant need nothing
but it and themselves; the type invariant needs `PendingResolvable`, because a
resolution leaves a natural number as a price only if both prices it weighs are
there. `CompleteIsDelivered` is an argument about cardinalities: a set of received
products that includes the purchased ones is at least as large. `UnitsConserved` is
about a sum over a set of receipts, a fold of the library that takes its elements in
no particular order; it is shown to be some function that satisfies the recursion
(`SumsExist`, by well-founded induction over subsets), which every two such functions
agree on, so an element can be taken out of it (`SumRemove`). `ResolvedWithinRange`
needs that all prices stay rounded: an average of two multiples of a step is rounded
up to no more than the greater of them, also when the greater lies beyond the
threshold and has the wider step (`RoundedFacts`, `WeightedBetween`).

**Analysis run.** That a chat is never applied twice rests on a lock the code never
mentions: the upsert of the analysis row holds its unique key until the commit, so
a second worker waits there and reads the journal afterwards. The invariant says
so in parts: `KeysDisjoint` (no two sessions of one version hold a chat's key),
`MadeOnce` (a session makes rows only for a chat whose journal it saw empty or
emptied), `HoldsKey` (the applying process holds the key of its chat), `CallsLeft`
and `AppliedOnce`. `CommitCounts` is where they meet. It covers the sessions an
exception left dirty: their keys are held, too, until the next chat's first
commit.

**Chats.** The invariant of `ChatBookProofs` is the conjunction of the type
invariant and the safety invariants, `AppliedOnceEach` in its three parts, with a fact no run
checks: no two customers have one telegram_id (`HandlesUnique`), which `HandlesKept`
rests on. A chat's case needs only that chat's rows, so each step has one lemma
for the chat it is about.

**Telegram import.** `UpToWatermark` alone is not inductive: a transaction commits a
watermark for messages it inserted, found, or skipped as old by a watermark it read
when it began. `Transaction` says that what it has dealt with of its new messages is
inserted by it or stored, that this is a beginning of them in the order of ids
(batches take the least), and that everything up to the watermark it read is stored,
which stays true whoever commits meanwhile because rows are never removed; the last
only while the chat is unmixed, which a chat that was mixed never is again. `NoGaps`
is what replaces the account's own messages when a foreign export moves the watermark
of a chat that stays unmixed: every id it found there is one of the account's own
messages, and below those nothing is missing. `Apart` says that no two open
transactions have inserted one key, so that a commit keeps one row per key
(`OneRowPerKey`, which `KeepsMessages` needs) also when two accounts number their
messages alike. `ForeignComesUncompared` gives the action property: only a commit and
an end of an import write messages or the user id, and `ImportOK` remembers for both
that the phone, if it was shown, is the account's.
`ImportOK` adds what an import owes of its export, chat by chat, until one has failed;
`BackfillOK` does so for the backfill, with `LegacyKept` for the rows it was written
for. That imports do not deadlock (`OneWay`): of two that wait for each other's rows
in one chat, each would have inserted something less than what the other inserted.

**Verdicts.** What is common to the classifier and the extractor comes first: a
chat's rows without one of a version, with one more, committed or rolled back, are
still at most one of each, of which only the old shop's may be open (`UpsertKeeps`,
`BeginKeeps`, `CommitKeeps`, `RollbackKeeps`); and no step takes the last verdict of a
chat away, provided that full analyses bring none (`FullTellsNothing`, which is what
makes replacing one harmless). `TablesKeep` says so of every step of `ChatVerdicts`.
For the classifier, `Judging` says that what its run was called for is to come, being
asked about, counted as an error, or has a verdict; `Asking`, that who is being asked
about has messages, which the refinement of `ChatVerdicts` needs.

**Media.** Why a run passes over nothing is an argument about its cursor. `Covered`
says that whatever it owes is in its batch, ahead of the cursor, or written
(`Written`: in the open transaction, or in the table in the version asked for). A
batch is the beginning of what is selectable in the order of ids
(`BatchIsBeginning`, from `SomeLeast` and cardinalities of initial segments), so
moving the cursor to its greatest element leaves nothing behind that is not in the
batch. `Writes` says that what is stored is always of the current version, so other
runs' steps keep `Written`; and only a run's own steps take from its batch. With
`LossIsBounded` (between batches the transaction is empty), an empty selection
means that all it owes is in the table. That texts stay follows from `Writes` and
from rollbacks leaving the table alone. The type invariant adds that a batch holds
messages that are there (`InHand`).

**Only model-checked.** Liveness (`EveryCallEnds`, `EveryChatAnalysed`), which is
beyond this prover, since fairness is about ENABLED; and the checks of pure functions
(`Extract`, `Discounts`), which are about recursive or bounded data. The runs that are
violated have counterexamples and no theorems.

## 6. Not modelled

Calls side by side in `Receiving` and `ChatBook`: two receipts of one product, two
links of one chat, two answers, two first profiles; the hazards list them at their
lines. Repeated keys that only a person types (a purchase with two lines of one
product, which no receipt of it survives: app/warehouse/services.py:186). The
content of texts, prompts and answers, fuzzy scores and regular expressions;
requests to the LLM server and their time limits; formats of answers; reads; the
schema beyond the constraints that actions meet; configuration and seeds.
`scripts/sync_pc_analyses.sh` passes `--where` to pg_dump, which knows no such
option: as written it stops at the export, and what its import would do with the
two databases' clashing ids has no behaviour to model.

## 7. Plan

The project keeps to twelve runs and eight modules with theorems. What is left, most
important first:

1. **Receiving statement by statement**: two sessions under READ COMMITTED with
   `Receiving` as the abstract specification of one; lost updates of quantities and
   the two last receipts with more. It would take the place of a violated run.
2. **ChatBook statement by statement**: two links, two answers, two first profiles.
3. **Theorems about pure functions** where they are no recursion: that a discount is
   allocated in full, that a preview shows both ends and at most its limit.
