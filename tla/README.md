# A verification of the Musky commerce back end

Musky is the server of a small trading business: Go, gin and GORM over MySQL, one process, many
tenants. A tenant (a trader with supporting admins) keeps products with their stock, clients with
their accounts, and invoices of sale and purchase that move both. This directory holds TLA+ models of
that program, the TLC runs that check them on small instances, and proofs, checked by TLAPS, that the
main invariants hold for every size of the tables and every number of concurrent requests.

`PROJECT.json` lists components, runs, hazards, findings, theorems and, for every definition that
models code, the lines it stands for. Paths below are relative to `src/internal/server/` unless they
name a directory.

## 1. The system

| Component | State | Operations | Modelled by |
| --- | --- | --- | --- |
| Commerce transaction (`products.go:15`) | `tenants.active`, row locks | `commerceTx`, used by nearly every handler below | `Commerce` |
| Products and stock (`products.go`) | `products`, `stock_movements` | create, update (versioned), delete | `ProductHandlers` |
| Invoice lifecycle (`invoices.go`, `invoice_edit.go`) | `invoices`, `invoice_items`, `invoice_counters`, `client_ledger` | create, edit (draft or posted), post, void, cancel, reactivate, delete | `InvoiceHandlers` |
| Payments and returns (`invoices.go:658`) | `invoice_payments`, `invoice_returns`, `invoice_return_items` | create | `InvoiceHandlers` |
| Clients and balances (`clients.go`) | `clients` | create, update, cleanup of associations, delete; the balance formula | `ClientHandlers` |
| Client receipts (`client_receipts.go`) | `client_receipts` | create, update, delete | `ClientHandlers` |
| Account and statement (`client_receipts.go:34`, `invoice_edit.go:120`) | none: reads `client_ledger` row by row | read, fold the edits, running balance | `Statements` (partly) |
| Stale requests and retries | what each app shows | every versioned request, late or repeated | `Requests` |
| Statements, locks and commits of a transition | row locks, uncommitted rows | `transitionInvoice` statement by statement | `Transactions` (partly) |
| Tenants and identity (`auth.go`, `users.go`, `tenants.go`) | `tenants`, `users`, `sessions` | bootstrap, create, update, deactivate, login, logout, password | `Sessions` |
| Login limiter (`auth.go:43`) | buckets in memory | `allow` | `LoginLimiter` |
| Files and logo (`files.go`, `storage/`) | `file_objects`, R2 objects, `tenants.logo_*` | upload, replace, delete | `Documents` |
| Invoice PDF (`invoice_pdf.go`) | `invoices.pdf_url`, an object in R2 | read, print, store, record | `Documents` (partly) |
| PDF renderer (`documents/renderer.go`, `router.go:41`) | one Chromium per process | eager start, one retry, render, time out | `Renderer` |
| Migrations (`database/`) | the schema, `schema_migrations`, a named lock | migrate at every start | `Migrations` |
| User contacts (`user_contacts.go`) | `user_contacts` | create, update, delete, order | `Contacts` |
| Line totals (`invoices.go:170`) | none | 64-bit arithmetic | `LineTotals` |
| Journal, exports, summaries; lists, routing; process stop | none | reads | not modelled, section 8 |

**How the parts interact.** There are no queues and no background workers: handlers meet in the
database. A commerce handler begins a transaction, locks its tenant's row (`SELECT ... FOR UPDATE`),
refuses if the tenant is inactive, reads (with further row locks), refuses or writes, and commits.
The tenant row therefore orders the handlers of a tenant. Three writers stay outside this order:
`deleteClient` (counts, then one `DELETE`), the reactivation of a cancelled draft (one conditional
`UPDATE`), and `updateTenant`, which takes the same row lock by itself. The PDF and file handlers also
write tables and R2 objects without the lock. Authentication happens before the transaction, so a
request can reach its transaction after the account or the tenant has been switched off. Several
processes meet only in the database, when they start (migrations).

**What is hard.** A request is atomic; the difficulty is in *sequences* of requests. An invoice's stock and
debt are never recomputed: each operation books a difference (posting the whole, an edit the change,
a return its part, a void the reverse of whatever the document says by then, a reactivation the whole
again), so that a wrong difference anywhere leaves stock and accounts wrong for good. Returns and
payments leave the version of the invoice alone, so version checks do not order them against edits.
Foreign keys do part of the work of the handlers (deleting a product or a client relies on them). An app
may show an old row, and its request may arrive late or twice. Where MySQL is not alone (R2, Chromium,
bcrypt, DDL that commits by itself), a request is a chain of steps between which others run, and which
may break off anywhere.

**What makes each component correct.**

- stock: a product's quantity is its history, and an invoice's part in it is what its present
  document says, whatever happened to it before;
- accounts: an invoice's ledger rows add up to its present document; no receipt pushes a balance past
  zero; no request moves the balance of two clients; the statement closes with the balance;
- numbers: 1, 2, 3, ... without gap or repetition, never changed;
- history: a line never shrinks below its returns, a total never below its payments;
- references: deleting never leaves a dangling row;
- tenants: an inactive tenant's books stand still;
- requests: one effect at most, and only on what its user was looking at;
- transactions: others see whole handlers only; nobody waits for ever;
- sessions: no session outlives a revocation; no change or reset of a password is overwritten unseen;
- files: what a client was told is stored stays stored; nothing is stored that nobody knows of, unless a
  call failed half-way;
- start: whoever listens does so on the full schema, and a start can be repeated.

## 2. The modules

| Module | Contents |
| --- | --- |
| `Commerce` | constants and their assumptions, the tables as variables, `TypeOK`, `Init`, and what handlers share: `CommerceTx`, `CanMove`/`MoveStock`, `Book`, `UpdateTenant` |
| `ProductHandlers`, `InvoiceHandlers`, `ClientHandlers` | one action per route. `saveInvoice` is three (`CreateInvoice`, `UpdateDraft`, `EditPosted`), `transitionInvoice` four and `reactivateInvoice` two, by the status they start from |
| `Backend` | composes the above into `Next` and `Spec`, states their properties; the abstract specification of the next three |
| `Statements` | `Backend` with the single rows of `client_ledger`, and the statement made of them |
| `Requests` | `Backend` behind apps that send versions of what they have seen, late and repeatedly; `reactivateInvoice` in two steps. Refines `Backend` |
| `Transactions` | `transitionInvoice` statement by statement under InnoDB row locks, beside the other handlers, with rollbacks anywhere. Its committed tables refine `Backend` |
| `Promises` | what documents and comments say of the commerce handlers and the code does not do |
| `Sessions` | accounts, sessions, logins and password changes in steps |
| `Documents` | object store, `file_objects`, logo and invoice PDF, one step per call |
| `LoginLimiter`, `Contacts`, `Migrations`, `Renderer`, `LineTotals` | one part of the server each |
| `Platform` | instantiates these five, states their properties and the fairness |
| `MCBackend`, `MCStatements`, `MCRequests`, `MCTransactions`, `MCSessions`, `MCDocuments`, `MCPlatform` | values of the constants for TLC |
| `SumProofs`, `TypesProofs`, `BooksProofs`, `RequestsProofs`, `TransactionsProofs`, `SessionsProofs`, `DocumentsProofs`, `PlatformProofs` | the proofs |

**One action per request (`Backend`).** A handler under the tenant's lock is serialised with every other one, and
its reads after the lock see the last commit (the lock is the first statement of the transaction, so
the snapshot of InnoDB's plain reads is taken after it). It is one action, whose guard is the
conjunction of all the checks on the way to `Commit`. A refused request (4xx) and a rolled-back one
change nothing and are no step. `deleteClient` and `ReactivateCancelled` end in one statement that
checks again what the handler read before it (a `WHERE` on status and version; foreign keys), and are
one action each, without `CommerceTx`. `Transactions` and `Requests` justify this for the
handlers they take apart: they show that the finer steps only do what these actions do.

**State.** A row is a record; `row` tells an id not handed out yet ("unused") from one that is there
and one deleted, since MySQL does not hand an id out twice. Append-only tables are kept as the sums the code
takes of them: `movement[i][p]` and `correction[p]` are the sums of `stock_movements` with and without
an invoice, `ledger[i]` the sum of `client_ledger`, and `paid`, `returned`, `returnedMinor` those of
the payments and returns of an invoice. No handler changes or deletes a single row of these tables, so
the sums lose nothing the properties could tell apart; `Statements`, whose fold does look at single
rows, keeps them in `entries`. Foreign keys and `CHECK` constraints are guards:
`Referenced` and `HasRows` (products, clients), `invoice[i].client # NoClient` in `Book` and
`CreatePayment` (a detached invoice has no account to book on), `0..MaxQuantity` in `CanMove`.

**Steps of a request elsewhere.**

- `Requests`: `Send` stores what the app shows in `request[a]`; `Deliver` runs the handler with the
  version seen, any number of times, until the app sends another; `ReadStatus` is the unlocked read at
  `invoices.go:397`.
- `Transactions`: `step[t]` is the statement transaction t is at. `Statement` locks a row, writes, or
  commits; `Refuse` is a failed check and `Rollback` the deferred `tx.Rollback` after any error or a lost
  connection. The tables hold what was written in place, `committed` what others see; `Alone` lets a
  handler of `Backend` that takes the tenant row run only while that row is free.
- `Sessions`: `CheckPassword` (user read, bcrypt), `CheckTenant`, `InsertSession`; `CheckCurrent` and
  `ChangePassword`. `era` counts revocations of a user; it is the model's, for the property.
- `Documents`: a request is in `job[r]`; every call to R2 and MySQL is a step, those of a cleanup included. A call takes
  effect or not and, apart from that, reports success or an error: `PutFails`, `PutPdfFails`, `RowRefused`, `LinkRefused`,
  `DeleteFails` and `TryDelete` (a deletion whose error the handler ignores) have the outcomes of both. `Leave` cancels the
  context of the request: the handler runs on, and no call in that context reports success any more (`Succeeds`), except
  that the metadata transaction of a PDF has a context of its own, which `LinkPdfFails` ends for reasons of its own. `Crash` ends all requests.
  `doubt` is the model's, for the properties: the keys whose object or link the code leaves behind after such an error, or the process
  by dying.
- `Migrations`: a process takes the named lock, reads which files are recorded, and runs the statements
  of the next one by one; `Stop` kills it between two, and `Refused` is a statement that MySQL does not carry out
  although the schema is as the file wants it (data that violate a check, for example).
- `Renderer`: the eager start of `New`, `docsOnce`, a browser that dies. `LoginLimiter`: `allow` under its
  mutex, and a clock. `Contacts`: the create reads `MAX(sort_order)`, then inserts.

**Data left out.** Names, codes, addresses, notes, dates, methods of payment, the owning user of a
client. A line carries its cartons, the price of one carton (`unit_price_minor * units_per_package`
in the code) and the pack size it was drawn up with. A hash is a password with the era it was made in;
bcrypt salts it, so two are never equal; its `line` counts the resets and
changes it descends from. A migration's schema is the set of the names in it.

**Constants.** `MaxQuantity`, `MaxTotal`, `MaxPrice`, `MaxPieces` are the limits of the code. The `...Inputs` are
the values requests may carry. Bounds of the model only: `MaxVersion` (a row is written so often),
`MaxEra` (a user is revoked so often), `MaxEdition` (the lines of an invoice are edited so often),
`MaxStops` (starts are killed or refused so often).

## 3. Properties

*The books* (`Backend`, invariants):

- `StockIsItsHistory`: the quantity of a product is the sum of its `stock_movements`.
- `StockMatchesInvoices`: the movements of an invoice are those of its present document (`NetStock`).
- `LedgerMatchesInvoices`: likewise its ledger rows (`NetDebt`); a detached invoice has none.
- `HistoryFits`: no product returned beyond the line, payments within the total, nothing recorded
  against an invoice never posted, no return against a purchase.
- `NumbersAreGapless`: the numbers in use are exactly `1..nextNumber-1`, once each, held by
  exactly the posted and void invoices.
- `NoDanglingRows`: references point at live rows.

and action properties: `NumbersAreForever`, `ReceiptsNeverOvershoot` (judged by the balance after the
write, as `clientDisplayQuery` computes it), `BalancesMoveAlone`, `BooksCloseWithTenant`.

`NetStock` and `NetDebt` state what the code does to a void invoice: it reverses the *whole* document, so what was
returned before stays counted. That this is not what the design says is a finding, below.

*The statement* (`Statements`): `StatementsClose`, the closing balance of the folded rows is the balance of
`clientDisplayQuery`, but for the returns of void invoices; `EditsAreFolded`, a posted invoice stands on the
statement with one line of its present total, whichever of several reactivations (they share `posted_at`) the query
sorts last, but for edits made before that reactivation.

*Requests* (`Requests`): `AtMostOnce`; `NothingUnseenIsOverwritten`, a request that takes effect finds the
document (or product) its user was looking at; `RefinesBackend`.

*Transactions* (`Transactions`): `RefinesBackend` of the committed tables, `NoWaitCycle`, `EveryRequestEnds`.

*Sessions* (`Sessions`): `SessionsFollowRevocations`, a session that existed does not survive a
revocation, and one whose login read the user since the last revocation has the present password;
`NoChangeIsLost`, every reset and every change that was answered is an ancestor of the hash in force: none is overwritten by
a change that had compared with an older one, or by an edit of the user that writes back a hash read before.

*Documents* (`Documents`): `AcknowledgedFilesStay`; `ObjectsAreKnown`, an object without a row is one a request is still to see
to, or in doubt; `LogoIsStored`; `LinkedPdfIsCurrent`; `StoredPdfIsRecorded`, a client that leaves does not keep a stored PDF from being
recorded. What is in doubt, and so outside the second, third and fifth, are the places where the code has no remedy (section 5): an error
reported by a `Put` or `Close` that stored the object, an ignored error of a deletion, an error of the `UPDATE` that links a logo, a failed
metadata transaction, a crash while an object waits for its row. The properties say that nothing else, no refusal, race or answer whose calls
all went well, leaves an object unknown.

*The rest* (`Platform`): `TwoBucketsAtMost`, `BucketsCountTheirOwn` and `LockoutsEnd` of the limiter,
`NewContactsGoLast`, `ListensOnFullSchema`, `FailuresHaveCauses` and `ServersComeUp` of the start,
`OneChromium` and `PdfRequestsEnd` of the renderer, `TotalsAreExact` of a line.

## 4. Runs

Deadlock checking is off in all runs: ids, versions and the other counters are bounded, so a model stops
once they are used up, and a server nobody talks to stands still.

| Run (cfg) | Instance | What it shows |
| --- | --- | --- |
| `stock` (`MCStock`) | 2 invoices (symmetric), 1 product with 3 packs of 4, 1 client, quantities 1 and 2, corrections, archiving, repacking; 180,610 states | two invoices compete for the same packs while the stock is corrected; numbers of two invoices |
| `books` (`MCBooks`) | 1 invoice over 2 products (symmetric), lines of 1 at price 3 and 2 at price 1, payments, returns, six writes, totals up to 4; 254,381 states | lines appear, vanish, shrink and change price independently; deletion of either product; edit, void and reactivation, once and twice, on the statement |
| `accounts` (`MCAccounts`) | 2 clients (symmetric), opening balances of either sign, 1 invoice, 1 receipt, the tenant switched; 156,874 states | receipts in and out, corrected and deleted; cleanup and deletion of clients; nothing is booked while the tenant is inactive |
| `requests` (`MCRequests`) | 2 apps (symmetric), 1 invoice, 1 product; 228,220 states | stale, late and repeated requests beside unversioned ones |
| `commits` (`MCCommits`) | 2 transactions, 2 invoices (both symmetric), 1 product, 1 client, the tenant switched; 392,427 states | what others see of transitions under way, refused and broken off |
| `locks` (`MCLocks`) | 2 transactions over 2 invoices with the same 2 products in either order, started from stocked tables; 121,203 states | no wait cycle; every transition is answered |
| `sessions` (`MCSessions`) | 3 users, 2 tokens, 1 login, 2 password changes, two revocations per user; 406,671 states | logins and changes race resets and deactivations |
| `documents` (`MCDocuments`) | 2 requests, 2 keys and the PDF's, uploads of 2 files, 2 editions; 1,479,270 states | two requests of any kind interleaved, every call failing, clients leaving, crashes |
| `platform` (`MCPlatform`) | 2 addresses, limit and window of 3; 3 contacts with orders from -1 up, 2 creates; 2 processes, 3 files of every shape of statement, 2 kills or refused statements; 3 requests for a PDF; all lines with factors up to 9 in words of 4 bits; 107,755 states | the parts one by one: they share no state, and `part` says which one runs |
| `void_after_return` (`MCVoid`), `client_cleanup` (`MCCleanup`), `migration_restart` (`MCRestart`) | small instances of the above | the findings |

Why the bounds suffice to be interesting: 3 packs and lines of 1 or 2 make a second posting fail for
lack of stock; a limit of 4 makes purchases, voids and returns fail for too much; five versions allow
post, edit, void, reactivate; six, in `books`, an edit after the reactivation, or a second reactivation that ties with the first (an
edit before two reactivations takes seven, and is left to the theorem); a total limit of 4 lets an edit exceed it. Two transactions are what a wait
cycle over two products needs, and the theorem says the same of any number. Two apps let a request
overtake the other's, three users let a manager reset who changes and who logs in. Two processes
let one wait for the lock the other loses when killed; two kills stop one start twice. Two editions let a render be older than the
invoice. In `documents` every call may fail at any step, so a client that has left changes only the calls of a context of their own: the
constraint `OthersStay` follows those that leave in the metadata transaction. `OneInDoubt` looks no further once two keys are in
doubt: no handler reads `doubt`, and what a failing call does to its key is checked with no other failure and after one. Orders from -1 up let every contact stand below the 0
that an empty list starts from. A limit of 3 within
3 ticks shows a bucket expiring half used. Each property is also checked against a mutant of the code (the
definitions called `X_Y` beside `X`), which the run must refute.

**Fairness.** Handlers of `Backend`, `Requests`, `Sessions` and `Documents` owe nobody a step: nothing is
assumed of them. In `Transactions`, `ServerRuns` is strong fairness of a transaction's next statement or refusal:
the server runs an open transaction, and InnoDB hands a row lock to those that wait in the order they came,
so that a transaction whose row is free again and again gets it; weak fairness would let the others pass
it over for ever. Nobody has to send a transition (`Begin` is unfair), and no transaction has to break off (`Rollback` is). In
`Platform` the clock ticks, MySQL answers each call of a migration (`Proceed`), and each PDF request is
a goroutine whose calls of Chromium end with `renderTimeout` (`Serve`): weak fairness of each. Nobody has to log in,
ask for a PDF, install Chromium or start a process: `ServersComeUp` speaks of a process that is started as often as it takes,
and of statements that MySQL refuses finitely often: data that refuse one at every start keep the server down.

**Refinement.** `Backend` is what the fine-grained modules promise. `Requests!RefinesBackend` is `Spec` over the
same tables: sending and reading stutter, and a delivery is a step of `Backend` although the request was
made for an older row, because every versioned handler compares the version and the reactivation repeats its condition
in the `UPDATE`. `Transactions!RefinesBackend` is `View!Spec`, `Backend` over the committed tables: all
statements and rollbacks stutter, `Commit` is the whole handler.

## 5. Findings

| Run | What the code does, against what is said |
| --- | --- |
| `void_after_return` | voiding reverses the whole quantity and total, although part was returned: returned packs and money come back twice (`docs/design.md:24`) |
| `client_cleanup` | the cleanup endpoint leaves `invoice_returns`, whose foreign key then refuses to delete the client for ever (migration 018, lines 1-3) |
| `migration_restart` | a start that is killed between the `UPDATE` and the `DELETE` of migration 012 (013, 016) gives the stock back again at the next start (`database/database.go:50`) |

Other places where code and text differ, met while modelling and stated in comments of the modules:

- *The edited total on the statement.* `foldInvoiceAdjustments` adds all edits of an invoice to its latest posting,
  also those made before it was voided; a reactivation books the total that contains them already. An invoice of
  150 that is edited to 200, voided and reactivated stands there with 150, -200 and 250, although `invoice_edit.go:121`
  says the account shows "the invoice at its edited total". The sum is right (`EditsAreFolded`).
- *Void invoices on the statement.* `loadClientLedger` drops the rows of void invoices, returns included, which
  `clientDisplayQuery` counts: after a return and a void the last running balance and `balance_minor`, which
  `clientLedger` sends side by side, differ by the returned amount (`StatementsClose`).
- *A login under way.* A login that has compared the old password inserts its session after the change has
  ended the others (`auth.go:157`), so that one session with the old password lives on, against
  `README.md:47`; `SessionsFollowRevocations` bounds it to such logins.
- *A PDF under way.* A render that read the invoice before an edit stores and links the old lines after it
  (`invoice_pdf.go:111` against `invoices.go:319`); `LinkedPdfIsCurrent` bounds it to such renders.
- *Uploads.* `docs/commerce-api.md:125` says "Upload failures clean up objects already uploaded in the same multi-upload request".
  When a later file is refused, the objects of the files before it are deleted and their rows stay (`files.go:157`); when its row is
  refused, they stay with theirs (`files.go:192`). When `Put` or `Close` reports an error after the object was stored
  (`files.go:180-188`), that object stays, without a row.
- *Ignored errors.* A deletion that fails leaves the object without a row where the handler goes on (`files.go:69, 79, 85, 194`): the replacement of a
  logo deletes the row and answers 201. An `UPDATE` of the logo that reports an error after it was done leaves a link to a file that is then
  deleted (`files.go:78-80`). `ObjectsAreKnown` and `LogoIsStored` exclude exactly these keys (`doubt`).
- *Rows without objects.* `deleteLogo` leaves the row of the file it deletes (`files.go:111-117`), and `deleteFile` leaves it when it fails after the
  object is gone (`files.go:242-246`).
- *A stored PDF without a row.* The metadata transaction survives the client (`invoice_pdf.go:103`), but not an error of MySQL or its
  own ten seconds (`104-116`), nor does a `Put` that stores and reports an error (`98`) reach it: the object stays until a later render
  records it. `StoredPdfIsRecorded` excludes these (`doubt`).
- *The limiter.* "20 attempts per 15 minutes" (`README.md:47`) are counted in fixed windows, so that any 15 minutes may see up
  to 39 (`TwoBucketsAtMost`).
- *Migrations.* A `DROP CHECK` that is repeated fails for ever (MySQL's error 3821 is not tolerated), although statements are
  "restartable" (`database/database.go:50`); `FailuresHaveCauses` names it, beside the statement that the data make MySQL refuse at every start.
- *Chromium.* PDF requests answer 503 "until Chromium is available" (`README.md:82`), but the retry is under a
  `sync.Once`: one installed after the first failed request is found at the next start of the process.
- *Documents behind the code.* Cancelled drafts can return or be deleted and voids be undone (`docs/commerce-api.md:38-44`);
  posted invoices can be edited (`docs/commerce-api.md:44`, `72`); `deleteClient` and the reactivation of a draft do
  not take the tenant row (`products.go:15` against `clients.go:189`, `invoices.go:419`); clients are deleted, not archived
  (`docs/design.md:7`, `integration_test.go:127`); the cleanup of a client changes invoices without a new version, so that a
  stale draft form is accepted afterwards (`docs/commerce-api.md:78` against `clients.go:241`).

## 6. Proofs

TLC checks a handful of rows. The theorems hold for any sets of products, clients, invoices,
receipts, apps, transactions, users, tokens, files, addresses and processes (products, invoices and receipts finite), any
limits, inputs and migration scripts that satisfy the named `ASSUME`s of `Commerce`, `Transactions`, `Sessions`, `Documents` and
`Platform`. The one that is more than a type is `Schema!ScriptRuns` in `PlatformAssumption`: no migration file
is empty, and each `DROP CHECK` drops a check that is there when the files run in order, without
which no first start would succeed. Every invariant, every action property and both refinements of the passing runs are stated by a theorem.

- `SumProofs`: lemmas on `SumFunction`, which is a fold. The library offers induction over finite sets only for an operator
  parameter, which no installed prover instantiates; here the set of the sizes at which a statement about sums fails is a subset of
  `Nat`, and a subset of `Nat` that is not empty has a least element, which is a fact about sets. So: what one changed
  summand does to a sum, the sum of a sum, and of a set split in two.
- `TypesProofs`: `TypeCorrect == Spec => []TypeOK`. One lemma per action, over lemmas on
  the shape of the rows (`...Row`). The bound `quantity <= MaxQuantity` is preserved by `CanMove`,
  the bound on totals by `CanInvoice`. `NoRowDangles == Spec => []NoDanglingRows` restates the property as
  `Grounded` and `Held` over the sets of live products and live clients; with `TypeOK` these are
  inductive. Handlers that write one invoice have to ground the row they write (a return line
  is grounded because `CanMove` asks for a live product); the two that delete have to look at
  every invoice, which is what `Referenced` and `HasRows`, the foreign keys, do.
  `StockAlwaysItsHistory == Spec => []StockIsItsHistory`, by the lemmas on sums.
- `BooksProofs`: `BooksAlwaysAgree == Spec => []BooksAgree`, and from it `StockAlwaysMatches`,
  `LedgerAlwaysMatches`, `HistoryAlwaysFits`, `NumbersStayGapless`. None of the four is inductive alone. When a
  draft is posted, its stock and debt become those of its lines alone, so `StockMatchesInvoices` and
  `LedgerMatchesInvoices` need a draft without returns. `HistoryFits` says this of invoices without a number, and
  that drafts are such invoices is what `NumbersAreGapless` says. Posting uses `nextNumber`, which is new
  because the numbers in use are `1..nextNumber-1`. `BooksAgree` is the conjunction, with `TypeOK`. Its proof has one
  lemma per action, and in each one step per part; actions that leave the invoices and their sums alone are
  dealt with by a frame lemma. The action properties: `NumbersStayForever` needs `BooksAgree` (an invoice
  with a number is posted or void, out of the reach of `PostInvoice` and `DeleteCancelled`); `BooksStayClosed` goes
  handler by handler, each through `commerceTx` or one of the two that write no stock, account, number or
  receipt; `ReceiptsStayWithin` and `BalancesStayApart` take the balance apart into the summands a step changes.
- `BooksProofs` on `Statements`: `EntriesAlwaysFit` proves `BooksAgree /\ EntriesFit` inductive under `StatementSpec`. `EntriesFit` says that the
  single rows of an invoice add up to its `ledger`, that a posted invoice has a posting, and that every posting, with the edits
  after it, makes the present total; the first part alone does not say what the fold leaves, and the order of the query may put any of several
  reactivations last, so that it takes the second of all of them. `StatementsAlwaysClose` and `EditsAreAlwaysFolded` follow.
- `RequestsProofs`: `RequestsRefineBackend == RequestsSpec => RefinesBackend`, every step of which is a step of
  `Backend` or a stutter: a delivery that is enabled has `seen.version` equal to the row's, so it is the disjunct of `Next`
  with the current version (`DeliverIsEffective`). All theorems about `Spec` therefore hold of stale and
  repeated requests. `EffectsAreAtMostOne == RequestsSpec => []AtMostOnce` needs `EffectsAreSpent`: once a request has taken
  effect its row is newer than what the app saw, or deleted; `NoWayBack` (no step lowers a version or brings a
  deleted row back) keeps it so, and a newer row refuses the version. `NothingUnseenIsLost` needs besides
  that a row with the version an app has seen still has the lines (the stock) the app has seen.
- `TransactionsProofs`: `TenantIsLockedFirst` proves the invariant `TenantFirst` (whoever holds any row, or is past its first
  statement, holds the tenant row), from which `NobodyWaitsInCircles == TransactionsSpec => []NoWaitCycle` follows: of two that wait
  for each other both would hold the tenant row.
  `TransactionsRefineBackend == TransactionsSpec => RefinesBackend` needs `CommitsFit`, which `CommitsAlwaysFit` proves inductive. Only
  the holder of the tenant row is past its first statement, and what it has written so far is a function of the
  committed rows and of the statement it has reached (`Written`): the products of the lines behind it are moved, the others are not, the
  account, the number and the document follow in their order. Every row it has written is locked by it
  (`Covered`), so `Rollback` and `Commit`, which go by the locks, take back or publish all of it. What its checks found still holds
  at the commit (`Checked`): the two handlers that skip the tenant row are kept off by the share lock of the client and the
  lock of the invoice. So `Commit` is `PostInvoice`, `VoidInvoice`, `CancelInvoice` or `ReactivateVoid` of `Backend` on the committed tables
  (`CommitIsHandler`), the handlers beside it are themselves (`ViewNext`, `UnlockedFits`), and every other step leaves them alone.
- `SessionsProofs`: `SessionsAlwaysFollow == Spec => []SessionsFollowRevocations`. The invariant `Follows` says of live sessions
  *and of logins under way* that who has read the user in the present era has read the present hash; without the
  logins it is not inductive, since each of them may become a session in any later state. In
  `ChangesAreNeverLost == Spec => []NoChangeIsLost` a change under way adds nothing: `Unchanged` makes the hash it compared with the one in force.
- `DocumentsProofs`: `FilesAlwaysAgree` proves an invariant that says, for every request at every step, which key is its own,
  what it has stored and recorded, and what it has read that may be stale by now. A step is a change of the store
  and the tables and of one request; that request's part is proved from the step, the others' from what
  the step leaves alone (no two requests hold a key; none touches the object or the row of a file that was
  acknowledged and that nobody asked to delete; a key of a file, once in doubt, stays so). `AcknowledgedFilesAlwaysStay`, `ObjectsAreAlwaysKnown`, `LogoIsAlwaysStored`,
  `LinkedPdfIsAlwaysCurrent` and `StoredPdfIsAlwaysRecorded` follow from it.
- `PlatformProofs`: `PlatformFits` is the conjunction of one inductive invariant per part. `BucketsFit` counts, for a bucket
  that is open, its own attempts since it was opened, and puts those of the last window into it and the one before
  (`LoginsStayLimited`, `BucketsAlwaysCountTheirOwn`). `ContactsOrdered` (`NewContactsAlwaysGoLast`) says of a create under way that the order
  it is about to write is beyond all it has seen. `MigrationsFit` says that the schema is that of the recorded files and of a part of
  the next one, and which part; from it `ListenersHaveFullSchema` and `StartsFailForCause`. `ChromiumFits` ties every request
  to what `docsOnce` has done (`OneChromiumForAll`). `LineTotalIsExact`: for every word size and all limits with `MaxTotal` inside
  the word, `lineTotal` accepts exactly the lines whose true total fits, and none of its products wraps.

**Only model-checked.** Liveness (`EveryRequestEnds`, `LockoutsEnd`, `ServersComeUp`, `PdfRequestsEnd`) and whatever needs
`ENABLED` are out of the provers' reach.

## 7. Plan and what became of it

The order was: the books (`Commerce` to `Backend`) with their proofs; requests that are late or repeated; the transaction under its
locks; sessions; files and PDF; start, limiter, renderer, contacts; line totals; the statement. All of it is there, and proved but for
what section 6 excepts. Next would be: the other handlers under `commerceTx` statement by statement; `Documents`
composed with `Backend` over several invoices, whose status and payments the PDF shows too; statements of a period with dates.

## 8. Not modelled

- *Lists, searches, routing, JSON, pagination, error mapping*: they read, or refuse before anything is read.
- *Journal, exports, summaries*: SQL aggregation, spreadsheets and layout; they change nothing.
- *Dates and periods of a statement* (`statementRows`), its lines per product and its layout. Of the order of rows only
  that of one invoice matters to the fold, and it is in `Postings`.
- *HTML and PDF layout* (`documents/invoice.go`), and of the printed invoice its status, payments and returns: they are as old as
  the read, like the lines, but no link is dropped when they change.
- *Hashing, tokens, object contents*: values that are fresh or equal, nothing more.
- *The other handlers under `commerceTx`, statement by statement*: with the tenant row locked they run alone, as
  `Transactions` shows of the transitions; two logins of one user may meet over `sessions` rows (`auth.go:153`), and that wait is MySQL's to break.
- *Process stop* (`cmd/server/main.go:46`): it cuts requests as any broken connection does, which `Rollback`, `Leave` and `Crash` allow anywhere.
- *Receipt reversals* exist only as old rows; no handler writes one.
- *64-bit sums*: the limits on rows keep them far from overflow. The one negation that can overflow, of the smallest
  int64 as an opening balance (`clients.go:100`), leaves a payable of the wrong sign.
- *A pack size between 1,000,000 and the limit of `lineTotal`* (`invoices.go:173`) is refused by a `CHECK` (migration 011) with an
  error of its own, and changes nothing.
