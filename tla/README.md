# The ZaraAmad portal backend in TLA+

Specifications, TLC instances and TLAPS proofs for the backend under `src/app`: a FastAPI
application whose handlers run in a thread pool, each with a SQLAlchemy session of its own, on one
PostgreSQL database, with a few external services (the customers' bridges, an SMS provider, SQL
Server). This file says what the system is made of, which module models which part, what the runs
check, what is proved, and what is left.

## 1. The system

### Where the difficulty is

All durable state is in the database, and the code never takes a lock of its own:

- `common/database.py:34-42` builds sessions with `autoflush=False` and `expire_on_commit=False`.
  A handler reads a row, decides, assigns attributes and commits later. Only the columns that differ
  from what was **loaded** are written, to whatever row is there by then.
- There is no `with_for_update`, no version column and no isolation level in the repository: every
  transaction is READ COMMITTED. Only `metadata/service.py:76` uses a savepoint.
- A handler that fails leaves through `get_session` (`common/database.py:44-49`), which closes the
  session; what was not committed is gone. So is the work of a process that dies.

What is hard to test is therefore one thing in many places: a check made on a row that another
request changes before the commit. The tests of `src/tests` run requests one after another.

### Components

| Component | State it keeps | Operations that change it | What makes it correct |
|---|---|---|---|
| Service purchases (`service_catalog/service.py`) | `customer_service_purchases`, `..._items` | create, update (PATCH), deactivate | header totals are the sums of the lines; lines name configs of the purchase's customer, at prices that were on sale; a deactivated purchase stays so; no purchase without lines |
| Service catalog, customer configs (same file) | projects, groups, services, `customer_service_configs` | CRUD, bulk upsert, delete | what purchases reference cannot be deleted; one config per customer and service |
| Selection snapshots (same file) | one JSON row each | create | the stored selection is the one that was priced |
| Tickets (`tickets/service.py`) | `tickets` | create, update, change_status, assign, deactivate | status moves along the allowed transitions; a resolution time exactly while resolved or closed |
| Login and one-time passwords (`auth/service.py`) | `otp_codes`, `users.password` | request_otp, verify_otp, login, sign_up | rate limit; one usable code; a code is used once |
| Authentication context (`common/security`) | none (per request: caller, role, customer) | – | an inactive user is refused |
| Users (`users/service.py`) | `users` | create, update, deactivate, seed; sign-up and login by password | role and customer fit together and come from one request; a login writes no old password back |
| Customers and income (`customers/service.py`) | `customers`, income tables | create, update, deactivate, bulk upsert, import of a workbook | the income is that of the last payload or workbook, whole |
| Customer bridge (`customers/service.py`, `bridge_client.py`) | bridge config and cached subscription | upsert, health check, fetch and cache | the cache is of the configured bridge |
| Database connections (`customers/service.py`) | encrypted secret, fingerprint, last test result | upsert, test | a result belongs to the secret that is stored |
| Forms (`forms/service.py`) | forms, fields (a tree) | create, update with nested children, delete, seed | fields form a forest within each form; what is stored below a field is the payload |
| Metadata registry (`metadata/`) | sources, runs, models, fields | sync of a full snapshot | a failed run is recorded and leaves no rows; queries answer with the last snapshot that succeeded |
| SQL Server reference data (`common/services/sqlserver_reference_sync.py`, `commands/sync_sqlserver_reference_data.py`) | tables in many databases of other servers, a report | one command: plan, skip, merge, diagnose, report | what is called successful is stored; the report leaves nothing out; a rerun does no harm |
| Feedback, health, subscriptions, export, bridge pilot, SMS | none or single inserts | – | – |

### How they interact

- Purchases read customers, configs, services, groups and projects, each at a different moment; the
  config endpoints and the switches of the catalog change them in the meantime. The foreign key from
  items to configs (RESTRICT) is the one protection that spans requests.
- Tickets, logins and every authenticated request read `users.is_active`, which an admin changes.
- Logins call the SMS provider **between** an UPDATE and its commit; the bridge and the test of a
  database connection call out between a load and a store.
- Customers, income, connections and users refer to each other's rows and are changed by the same
  people; `Accounts` composes them.
- The forms and the metadata registry flush as they go, so their requests hold locks that others wait
  for. The reference command shares no transaction with anything: other applications own its databases.

`PROJECT.json` lists the hazards with their lines.

## 2. The modules

| Module | Models | Kind |
|---|---|---|
| `Orm` | what a session's flush writes | operators |
| `Purchases` | purchase and config endpoints, totals of a purchase, catalog switches | state machine |
| `PurchaseLedger` | what the purchase endpoints promise, one atomic step per request | abstract specification |
| `PurchaseProps` | properties, the refinement, inductive strengthenings | properties |
| `PurchaseProofs` | – | proofs |
| `Tickets` | ticket workflow table and ticket endpoints | state machine |
| `TicketLifecycle` | what the ticket endpoints promise | abstract specification |
| `TicketProps`, `TicketProofs` | – | properties, proofs |
| `Otp` | request_otp and verify_otp | state machine |
| `OtpDesk` | what the login promises | abstract specification |
| `OtpProps`, `OtpProofs` | – | properties, proofs |
| `Bridge` | bridge endpoints of a customer, the script that checks all bridges | state machine |
| `BridgeBook` | what is remembered of a bridge | abstract specification |
| `BridgeProps`, `BridgeProofs` | – | properties, proofs |
| `Forms` | form and field endpoints, the seeding of forms | state machine |
| `FormBook` | a forest of fields, changed one tree at a time | abstract specification |
| `FormProps`, `FormProofs` | – | properties and the invariants and notions of their proofs, proofs |
| `Customers`, `Income`, `Connections`, `Users` | the tables of customers, the requests and the customers' endpoints; bulk upsert and import of income; database connections; users, sign-up and password login | state machines, composed by `Accounts` |
| `Workbook` | how an income workbook is read | operators |
| `Accounts` | all of these, overlapping | composition |
| `CustomerBook` | what the income endpoints promise | abstract specification |
| `AccountProps`, `AccountProofs` | – | properties, proofs |
| `Metadata` | a sync of the metadata registry, and its queries | state machine |
| `MetadataBook` | of each source the last snapshot that succeeded | abstract specification |
| `MetadataProps`, `MetadataProofs` | – | properties, proofs |
| `SyncTables` | the plan of a table and the MERGE | operators |
| `ReferenceSync` | the reference data command over targets, databases and tables | state machine |
| `SyncProps`, `SyncProofs` | – | properties, proofs |
| `MCPurchases`, `MCTickets`, `MCOtp`, `MCBridge`, `MCForms`, `MCAccounts`, `MCMetadata`, `MCSync` | small instances | TLC |

Conventions:

- A request is one element of `Buyers`, `Editors`, `Requests` or `SignIns`. It is handled once; its
  record holds a stage `pc`, the body, what it has read, and the HTTP status it answered with. It is
  cut wherever the handler calls the database or the network; what lies between two calls is one step.
- A row's id is the request that inserted it (`Seed` for those that exist at first); where a request inserts
  many, as in `Forms`, also the number of the insert.
- An operator `X_Defect` in front of `X` is `X` with a plausible bug. Nothing uses it; putting it in
  the place of `X` must break a property, which the mutants of `PROJECT.json` list.
- Variables and fields called *history* are not in the code; no guard reads one.
- Two ways tell overlap from its absence. `Purchases`, `Tickets`, `Otp` and `Bridge` say where requests
  may overlap (`Overlap`, `Contended`), and guard it. `Forms`, `Accounts` and `Metadata` let everything
  overlap and keep a history: a request is *late* when somebody has committed since it began (in
  `Accounts`, to tables it rests on), the state is *raced* from the first commit of a late request on,
  and `calm` is the state up to there.
  Promises that hold without overlap are made of `calm`.

### Purchases

`Load`, `Resolve`, `StartDelete`, `FinishDelete`, `Commit`, `Respond` are the database calls of
`CustomerServicePurchaseService` in their order. `Load` has all early returns and keeps the row it
read; `Resolve` is the SELECT of `resolve_items` with its checks; the DELETE of the old items is two
steps because under READ COMMITTED it deletes the rows of its snapshot, after waiting for other
transactions that hold them, and misses rows inserted meanwhile; `Commit` flushes changed columns,
inserts the items and reports 409 for a broken unique or foreign key. `Abort` is a crash, a lost
connection or a deadlock victim. Config endpoints have a load and a commit (`LoadUpsert`,
`LoadUpdate`, `LoadDelete`, `CommitConfigs`, `CommitDelete`), including the 500 of an UPDATE whose
row is gone; `SetActive` and `MoveService` are single-column writes of the catalog and of customers.

Abstractions: the purchase row and its customer are read at once; flush and commit are one step; the
item's name columns are left out; of the two optional texts of a purchase only the notes are kept;
the answer of a config request is the one given at its commit.

### Tickets

`Load` has every early return up to the status check, `CheckAssignee` is the lookup of the assignee,
`Commit` writes. `title` stands for the columns of a PATCH that cannot be null, `description` for the
others. A resolution time is known by the request that took it, so two changes never take the same
time. The lookup always reads the database, although a session that has loaded the same user before
could return it from its identity map.

### One-time passwords

`FindUser` (where the transaction and thus `created_at` begin), `EnforceLimit`, `StartSpending` and
`FinishSpending` (the UPDATE, split like the DELETE above), `Deliver` (the provider), `Store` are
`request_otp`; `LoadCode`, `LookUp`, `UseCode` are `verify_otp`. Time is one clock that ticks: server
and database are taken to agree. Only the purpose LOGIN exists in the code. Every failed delivery
answers 503; the code gives 500 for one without configuration, with the same effect. `Codes` are the
values that are drawn, `Entered` those that sign-ins try.

### Bridge

A request to `CustomerBridgeService` loads the customer and the configuration (`Begin`, with the
refusals of `_build_request` and the time it takes), calls the bridge (`CallHealth`, `CallGet`,
`CallPatch`, then `CallMessages` where the subscription is read or synchronized together with its
messages) and commits what it learned (`Store`). `BeginConfigure` and `Store` are the PATCH of the
configuration; `BeginSweep`, `SweepNext`, `SweepEnd` the loop of `refresh_all_statuses`, each of whose
rounds is a health check that commits. What the main application answers is external: a subscription
or 404 as the state behind the URL has it, or a failure, which may come after it did as it was asked.

Abstractions: the four dates and texts of a subscription are one `term`; every failure but a 404
answers 502, where the code has 503 for an unreachable bridge; the order of the script's list is left
open; the portal's signing key is there; messages are only told apart as applied or not. The endpoints
that pass messages or capabilities through store nothing and are left out.

### Forms

The services flush as they go: a request sees what it has flushed (`View`), others see it from the
commit on, and until then its rows, keys and references are locked. `Load` has the reads and refusals,
`Walk` one step of the loop up the parents (`validate_parent_assignment`), `FlushField` and `FlushForm`
an insert or the assignments of an update, `Move` the collection of the subtree that follows a field into
another form, `SyncNode` and `SyncEnd` the matching of the children with the payload, level by level, and
`CommitFields`, `CommitForm`, `CommitDrop` the commits. A flush waits while `Free` is false. A
transaction that the database ends to break a deadlock is an `Abort`. The seed, like the endpoints, writes of a form
it found only the columns that differ from the row as it was read (`FlushForm`), over what another may have
committed since.

Abstractions: `label` stands for all columns of a field but its form, parent and key, and a form's key,
scope and version are one name. The trees that reads return and the lookup of the form to show are left
out. The DELETE of a row that is gone is only a warning of the ORM and has no effect. A deletion reads what its
cascade reaches at once. Not modelled is the wait of an insert of fields for a transaction that changes
the key of the form.

An update that moves a field to another form **and** gives new children does not replace them: the form
of the old children is assigned but not flushed when `sync_direct_children` selects by the new form
(`forms/service.py:526`), so they are not found. They stay beside the new ones, or a key they share makes
the request fail. `dtos.py:107` calls the new ones "replacement child fields". The model has the steps,
and `PayloadStored` leaves such updates out.

No validator asks that the children of one field have keys of their own. `_sync_children` matches every node
with the children read before the loop (`existing_by_key`, `forms/service.py:222`): two nodes of a new key are two
INSERTs, and the second is refused with the constraint on form and key; two nodes of the key of an existing child
both change that one row, and the last one wins, so what is stored is not the payload. The model has both (a
body of `MCForms` names a child twice; `Known` is what the object of the session holds by then), and
`PayloadStored` speaks of the other payloads (`Unambiguous`). Nor does it speak of what follows the first race:
below a field that is in a cycle a payload cannot be all there is.

### Customers, income, connections, users

`Accounts` lets any of the requests below overlap. `LoadCustomer` and `CommitCustomer` are the customers'
own endpoints. `LoadUpsert` has the checks of the bulk upsert; then come two DELETEs, each found and
executed in a step of its own (`FindBuckets`, `DeleteBuckets`, `FindMonths`, `DeleteMonths`), and
`CommitIncome`, which writes the rest. The import (`LoadImport`) goes from name to name: `NameCustomer`
finds or creates the customer, which flushes what is pending, `FindErased` and `DeleteErased` empty
its buckets. `Workbook` is the reading of the two sheets, checked against `Owner` and `Sheets` of
`AccountProps`, which say whose a row is without the loop. `LoadConnect` and `CommitConnect` are the
upsert of a connection, `LoadTest` and `CommitTest` its test, with the call between them. `LoadNewUser`,
`LoadEditUser`, `LoadSeed`, `CommitUser` are the users' endpoints, the sign-up and the seeded admin,
`Login` and `Upgrade` the login by password. A connection string that `build_settings` does not take (`Parses`)
is refused before anything is stored.

Abstractions: names, grades, managers and other columns without rules are dropped; texts and numbers are
what the normalisation makes of them; a payload that fails validation is a 422 and an import's skipped rows
are not reported. The SELECTs of one load are one step. The cipher key is configured and does not change,
so its 503 does not occur. `mark_rotation` and the settings of a SQL Server connection are called by tests
only; lists and reads store nothing.

### Metadata registry

A sync is one transaction: `Find` looks for the source, `Enter` registers or renames it and flushes the
run, and the rest is in a savepoint: `ReadEntities` and `ReadFields` are the two SELECTs of the
existing rows, `Upsert` is the loop up to the next insert (`NextNew`) and its flush with what the items
`Before` it assigned; `at` counts the items that are handled. `MissEntities` and `MissFields`
collect what is not in the payload, `Finish` is the last flush and the commit. `Fail` is an error of any
statement of the savepoint: what is in it is rolled back, and source and failed run are committed. `Abort`
is the end of the process. The state that `MetadataBook` sees is what the query service answers.

What a payload says of its source are four columns (`InfoColumns`). `update_source` assigns each by itself, and
the flush writes those that differ from the row `Find` has read, over what the row holds by then. So a sync
that found the source, waited for another's commit and failed afterwards can leave a row that nobody sent: its
own version under the name the other has written. `Renamed` has that, and `MetadataBook` lets a
failed sync leave any mixture of its columns with those that were there (`Mixed`).

Abstractions: two hashed columns stand for all; a payload names each model and field once; `app_label` is
left out. Noticed on the way: it is not in the hash, so a changed `app_label` alone is never written.
Fields of a model that was removed stay active, but no query lists or counts them. When two syncs of one
source overlap and both succeed, columns of one model or field can stand under the hash of the other, and later syncs
take the row for unchanged; the promise therefore ends at the first such commit (`raced`).

### Reference data

`Start` reads the input and the files, `Connect` one target (its plans are a set, taken in the order of
`Tables`), `Split` the ids that rows may refer to (a
transaction of its own), `Merge` the transaction of a table, `Fail` its failure and `Diagnose` the trial of
each row alone, `Save` the report, which is a variable of its own; an outcome is known by its cell (target,
database, table) and an error of a row also by the row's number in its file. `Crash` ends the process;
`Write` is what the owners of the databases write, which their constraints have to take. `SyncTables` is the plan (which columns, which key) and what a MERGE
inserts, updates and refuses. A column the plan leaves out gets its default or NULL; an explicit NULL where
none may be is refused, whether there is a default or not.

Abstractions: values are what the code normalises them to (1, "1" and 1.0 are one), and equality of texts
is that of the collation. Two runs at once are not modelled. Left out is the merge from a live source or a
linked server, which the command does not call. As the model shows, a file row with a NULL among its
matching columns, or two with the same ones, is inserted or flips again at every rerun: `Identified` in
`SyncProps` is the condition under which a rerun is harmless.

## 3. The runs

| Run | Question | Bounds | Result |
|---|---|---|---|
| `purchases_concurrent` | what survives any overlap | 3 buyers, 1 editor, 9 purchase bodies, 5 config bodies, one group switched, one service moved | types, ownership, no empty purchase, prices once offered, deactivation final |
| `purchases_serial` | what needs requests on one purchase to be serial | 2 buyers, 1 editor, a customer and a group switched | exact totals, refinement of `PurchaseLedger` |
| `purchases_totals` | are totals exact with overlap | 2 buyers | violated |
| `tickets` | tickets with overlap on one and none on the other | 3 requests, 3 users, 16 bodies | types, requested status changes, removal final, assignees, resolution times, refinement of `TicketLifecycle` |
| `tickets_transitions` | do statuses move along the table with overlap | 2 requests | violated |
| `otp` | limit, expiry, use of codes; overlap on one of two mobiles | 3 requests, 2 sign-ins, limit 2 | types, nothing stored unsent, accepted codes are used, excess needs overlap, refinement of `OtpDesk` |
| `otp_single_use` | is a code used once with overlap | 1 request, 2 sign-ins | violated |
| `bridge` | what is remembered of a bridge, overlap on two of three, and do requests and the script end | 2 requests, 12 bodies, 2 URLs, 2 subscriptions | types, cached values were answered, only a request that names it changes the configuration, requests end, refinement of `BridgeBook` |
| `forms` | what overlap does to trees of fields, and does the walk end | 3 requests, 19 bodies of at most 3 fields, 2 forms, 4 fields | the inductive invariant (types, constraints, transactions apart), cycles and endless walks need a race, up to the first race what is stored is the payload, refinement of `FormBook` up to the first race |
| `accounts` | income, connections, profiles and passwords with any overlap | 3 requests, 34 bodies, 3 customers, 1 user | types; profiles and passwords come from one request, whatever overlaps; up to the first race, a shown test result is of the stored secret and `CustomerBook` is refined |
| `sync` | is the report of the command true, and a rerun harmless | 2 runs, 4 commands, 3 databases of 2 servers, 1 fault, 1 write of others | types, rows stored, report complete, rerun changes nothing |
| `metadata` | what the registry answers although syncs fail, die and overlap | 3 syncs, 5 payloads, 2 sources with 3 registrations that differ in one column each, 2 models, 2 fields | types, refinement of `MetadataBook` up to the first race |

Why the bounds are enough: a conflict in this code is between two transactions, so two requests give
every pair of stages; the third lets a pair be preceded or followed by a request (a row inserted
between a snapshot and its deletion, a ticket closed and then reopened, a third code over the limit, an
import after two customers got one name, a sync that brings back what another removed).
One editor suffices for the configs, which a purchase reads once. Bodies are one of each kind and each
error path. In `otp`, `Window = 0` and `ExpireAfter = 1` with two instants put codes on both sides of
both thresholds. In `bridge` the two subscriptions differ in both columns, so a mixture of two answers
is told from either; one bridge has a subscription and one has none. In `forms` the tree has three
levels, so that a move, a replacement and a deletion each reach below what they name, and a cycle can be
closed two ways. In `forms`, `accounts` and `metadata` the third request has fewer bodies than the others. In `sync`
one database has foreign keys, one lacks a table and one a column; `MaxRuns`, `MaxFaults` and `MaxOthers`
bound how often the command is started, something breaks and somebody else writes. In `metadata` one
model was active and one removed before, and one source is not known yet.
Purchase and sign-in requests are symmetric, and the instances say so where no body names one of them;
the ticket instance has no symmetry because a body names the ticket that `r1` makes. In `Forms`,
`Accounts` and `Metadata` requests are numbers, since ids are compared.

Fairness is assumed in two runs. In `forms` it is weak fairness of the walk: it issues SELECTs,
which wait for no lock, so it goes on for as long as its process lives; nothing forces a flush or a commit.
In `bridge` what a request can do next it does, or it is aborted: an HTTP call ends by
`bridge_request_timeout_seconds` (`common/config.py:47`), a commit waits for one row that no other
request keeps during a call, and the loop is over a finite list. The condition under which a request can
go on is written out as `CanProceed`, for TLC's sake. No fairness makes a call succeed, a switch stay or a
crash happen. The other runs are of safety, where a
request may stop anywhere, as a client or a process does. Requests end (`Terminated` stutters then),
and deadlock is checked in every run; a deadlock would be an endless wait for rows.

### Where the code and the repository's own statements disagree

- **Totals** (`purchases_totals`): two replacements of the items of one purchase each delete the old
  rows and add theirs; both sets remain, under the header of the last one.
- **Transitions** (`tickets_transitions`): the transition is checked on the loaded row and written
  without a condition; a closed ticket is reopened by a change that loaded it before.
- **Single use** (`otp_single_use`): two overlapping sign-ins are both let in by one code.

All three need overlapping requests. The properties next to
them say what remains true: for instance every status change is still one somebody asked for and
allowed from what was loaded, and a code that let somebody in is never loaded by a sign-in that begins
later. Three more need no overlap and no model to be seen:

- `tickets/dtos.py:52` describes `status_changed_by_user_id` as the user who last changed the status; an
  assignment writes its caller there too.
- `customers/controller.py:837` promises to update subscription and messages atomically; the bridge
  client sends two calls, and when the second fails the subscription stays changed.
- `forms/dtos.py:107`, on replacement child fields: see Forms above.

The bridge's copy of a subscription has no written rule about overlap, so nothing is claimed of it
there but `CachedWasAnswered` and `ConfiguredByRequest`. With overlap a late answer of the old URL is
stored under the new one (`service.py:2044`), two snapshots can be mixed because only changed columns
are written (`:365`), and a clearing that changes nothing leaves a snapshot that came in between
(`:334`). Without overlap `FollowsBook` rules all three out. The same holds elsewhere, and is why
`CustomerBook`, `FormBook` and `MetadataBook` promise something up to the first race only: two
replacements of one customer's income leave the buckets of both, two upserts of a connection mix a secret
with the fingerprint of the other, a test that overlaps an upsert stores the result of the old secret, two
moves close a cycle in a form, and two imports make two customers of one name.

Not modelled, but noticed: `src/README.md:170` says that FastAPI issues no login, OTP or access
tokens, while `auth/service.py` does.

## 4. The proofs

TLAPS proves, for all values of the constants that satisfy the named assumptions, the following. None of
the invariants is inductive alone; what each needs is named with it, is defined in the `Props` module
next to it, and was checked with TLC before it was proved.

- **Purchases.** `TypeCorrect`; ownership (`ItemsOwned`), no empty purchase (`PurchasesNotEmpty`),
  prices once offered (`LinesOffered`), final deactivation (`DeactivationFinal`) with any overlap;
  `NotStale`, `TotalsExact`, `LedgerImplemented` under `~Overlap`.
  Ownership needs to know that an id in the hands of a
  request is not inserted again by somebody else and that no request changes the customer of a config
  (`ConfigsKeepCustomer`), which needs what a request loaded to agree with the row in what never
  changes (`RequestsMatchRows`). No empty purchase needs that a request that replaces lines holds at
  least one and dooms only rows of its purchase (`RequestsHoldTheirRows`). Exact totals need that
  without overlap nothing read goes stale before the commit (`NothingStale`).
- **Tickets.** `TypeCorrect`; requested status changes, final removal and active assignees with any
  overlap (over `CreatedOnce`, `RequestsChecked`, `ActiveAreSeated`); resolution times and the
  refinement of `TicketLifecycle` on the tickets without overlap (over `CalmRequestsSeeAll`).
- **One-time passwords.** `TypeCorrect`; with any overlap: only what was sent is stored
  (`OnlySentStored`), an accepted code stays used (`AcceptedUsed`), two unused codes of a mobile
  overlapped (`UnusedOnlyByOverlap`), the limit holds of what was stored when a request began
  (`LimitHolds`). They need that a row appears with the commit of its request (`CreatedOnce`), that the
  codes of before are still there (`EarlierAreStored`) and are spent (`SpendsEarlier`), and that those
  counted only get fewer as time passes (`CountedWithinLimit`). On the mobiles without overlap: one
  unused code (`OneUnusedOnly`) and the refinement of `OtpDesk` (`DeskImplemented`), over `OneAtWork`,
  `OwnCodesOnly` (an UPDATE and a sign-in touch codes of their own mobile) and `CalmChecked` (what was
  checked still holds).
- **Bridge.** `TypeCorrect`; with any overlap a cached value was answered by some bridge
  (`CachedAnswered`, over `AnswersHeard`: so was what a request has in hand), URL and switch change by
  request only (`ConfiguredOnly`), and times of synchronization grow (`TimesGrow`). On the customers
  without overlap the loaded row is the stored one (`SeenStaysCurrent`, over `OneAtWork`), and the rows
  follow `BridgeBook` (`BookImplemented`).
- **Customers, income, connections, users.** `TypeCorrect`, whose references and unique keys need that the
  DELETEs of an income leave nothing that the INSERTs repeat, and that ids never run out (`IdsBounded`).
  `CalmStaysCurrent`: before the first race of a component its history is what is stored, and what its open
  request has loaded is so still (`CalmIsCurrent`, `SeenIsCurrent`); with it a shown test result is of the
  stored secret (`ResultsBelong`). With any overlap: profiles of one request (`ProfilesAreOfOne`), passwords
  (`PasswordsAreKept`), over `OwnUsers`.
- **Reference data.** `TypeCorrect`. What is called successful is stored (`SuccessIsStored`): the invariant
  says of the last run of every table what stands of its file (`LastStands`), and of a table that is about to
  be merged that what it skips is what is missing (`SkipsMissing`); it has to say that no stored row that
  matches a file row differs from it, or the next MERGE could take it away. A rerun is harmless
  (`RerunIsHarmless`) by the same invariant. The report is complete (`ReportLeavesNothingOut`), over what it
  contains at every point of the loops (`ReportSoFar`): each cell before it once, none after it.
- **Forms.** `TransactionsApart` and with it `TypeCorrect`, for all payloads and forests, any number of
  requests and every order of their flushes, waits, aborts and commits. That a parent exists or that a key is
  unique does not follow from what is stored: a commit writes many rows at once, of a payload of any depth. The
  invariant `IInv` says of every open transaction that what it sees could be stored as it is (`FieldsFit`,
  `FormsFit`), of any two of them that no row, no key and no referenced row of the one is in the hands of the
  other (`Apart`, which the waits of the flushes keep), and of the levels still to be matched which of their
  rows are there (`StackOK`, `AtWork`). `StackOK` needs that what `Below` collects is the least set that is closed
  under children, which is proved of its levels by a least counterexample. `CyclesTakeRaces`: a commit that
  closes a cycle has walked past a field that has got another parent since. The invariant `Traced` says which
  edges of the tree an open transaction has changed: the walk has led to a root, or to a row that is gone for
  good, without meeting the field (`Climbed`); only the field of an update gets another parent, and what is
  inserted hangs below what is older (`Edges`, `Older`, `Stacked`). A field that loops after the commit would
  then have looped before it. `BookImplemented`: until a request has overtaken another the fields are a forest
  with one form to a tree, and a commit changes one tree or one form of it, as `FormBook` says. The invariant
  `Calm` says of every open transaction that nobody has overtaken: what it has read is stored still
  (`Current`); nothing is written before its first flush (`Unwritten`); what it writes, deletes or still has
  to match is below the field, or in the form, that the request is about, which itself stays (`Within`); and
  rows that hang together are of one form, but for those that a move is about to turn (`Formed`, whose `After`
  is what the assignments in hand will make of them). One step of a loop may leave a tree of two forms; that
  the next flush mends it needs that `Move` visits the whole of what is below the field. The theorem assumes
  `InitForestAssumption`, that the fields which exist at first are what requests leave that come one after
  another; without it a cycle could be there from the start. Of `Below` and of the forest no more is used than
  that each is the least set closed under children, so nothing is proved by induction over the depth of a tree.
  `PayloadIsStored`: what a commit leaves below the field, or in the form, is the payload. The invariant `Matches`
  says that for every request that nobody has overtaken there is a map `m` from rows to the nodes they were
  matched with: each of these rows is as its node says and hangs below the row of the node above (`Matched`);
  of each open frame the nodes before `rest` have their rows, and the children it has read and not matched are as
  they were read (`LeftOf`, `ReadOf`); where no frame is open any more, all nodes have their rows and
  every other child is about to be deleted (`Finished`). A node found again keeps its row, since keys of a form
  differ and `Unambiguous` says that no sibling takes it; the form a seed has found is as it was read (`FormsFound`); a new one is a row that no map had. When the stack is empty
  and the deletions are flushed, the rows that are left below are those of `m` (`RowsThrough`), and all levels of
  the payload are among them (`NestedThrough`, by the least level that is not): `TreeStored`. It assumes that `MaxNodes`
  is a natural number and that no payload is deeper (`PayloadAssumption`).
- **Metadata registry.** `TypeCorrect`, over `EndedOnce` and `Fitting` (what a sync flushes are rows of its
  own source whose model it sees). `HeldStaysCurrent`: the row of the source that a sync has written is the
  stored one but for columns that it did not find as it asks, which it has written (`HeldIsCurrent`). `ReadsStayCurrent`: as long as nobody has committed since a sync
  began, what it knows is true (`NotOvertaken`), step by step (`Progress`): it has read all rows of its
  source, the items it has handled are as asked, at last nothing else is active. `BookImplemented`: the
  queries follow `MetadataBook`; a successful sync makes the list that is asked for, counted right, and a
  failed one changes what columns of the source it asked for, and the latest run, at most.

The layout is the same everywhere: lemmas on the operators (what a flush keeps, what a commit
writes), lemmas on which variables a step moves, then one step per action under each invariant. Sequences
that are built by folds, as the items of a payload, are reasoned about by a least counterexample instead of
induction. The assumptions are the `ASSUME`s of the modules (what bodies, payloads, files and initial rows look
like: a 422 or a constraint of the database would refuse others), which TLC evaluates in every run, and the
absence of overlap or of a race where stated.

Attempts at proofs corrected the models: labels of a workbook's rows may be numbers; an error of a row is
known by its place in the file; which rows others may write to a reference table, that the last sync of a
source existing at first is one of its runs, and that the fields existing at first are a forest, were tacit and
are assumptions now. `PayloadStored` had claimed too much: the proof stopped at two nodes of one key, for which
`SyncNode` was wrong too, and at a cycle below the field, and its guards name both now.

Only model-checked is, of what a proof could reach, `FollowsBook` of `Accounts`. Out of the prover's reach:
liveness under fairness (`RequestsEnd` of `Bridge`, `WalksEnd` of `Forms`), `ENABLED`, what a recursive
definition computes for all data (the sum of the buckets in `CustomerBook`; that `Nested` reaches every level of
a payload is an assumption of `FormProps`, which TLC evaluates). No module uses a RECURSIVE operator: recursion
is by functions on naturals and by folds.

## 5. Not modelled, and the plan

Left out for good: wording, layout, pagination, reads; the export command, the SMS client, the bridge
pilot and feedback, which keep no state of their own or write single rows; migrations and seed
scripts, whose constraints appear with their tables; selection snapshots, which are one INSERT that
nothing updates; the catalog's single-row inserts and its pricing summary, which changes nothing; the
decoding of tokens. Each state of a component that others read is in the modules of these: customers and
`users.is_active` are shared rows, modelled in each by the switches that change them.

Hazards that no property covers, or that one covers in part only or up to the first race, are in `PROJECT.json`
with the reason. A few more are only told here: the caller of a
request is read once, at its beginning (`security/dependencies.py:126`), and a user switched off later still
finishes it; the answer of a purchase re-reads the row after the commit (`service_catalog/service.py:1049`)
and can be a 404 for a purchase that was made; a code that was sent and whose commit fails is not stored
(`auth/service.py:95`); the first refused customer ends the script that checks all bridges
(`customers/service.py:2222`); a crash before the report is saved leaves changed databases and no report
(`sync_sqlserver_reference_data.py:633`), for which running the command again is the remedy.

What is left to prove is that `Accounts` refines `CustomerBook`, whose upsert is within reach; its import says
what a fold over the sheets computes.
