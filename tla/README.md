# Investment Guru: specification and proofs

TLA+ models of the parts of the backend (`src/backend/app`) in which tasks,
requests, transactions and restarts meet, with TLC runs on small instances and
TLAPS proofs for every instance. Paths below are relative to
`src/backend/app` unless they start with `src/`, `docs/` or `README.md`.

## 1. The system

One FastAPI process with one asyncio event loop, PostgreSQL at READ COMMITTED
behind an async SQLAlchemy session per request (`core/db.py`: a session that is
closed without a commit rolls back), a React client, and remote services: three
LLM providers, Yahoo, the HSBC price feed. Process memory holds the global
Guru service with its locks, the two throttles and the scheduler; a deploy loses
all of it. The code between two awaits runs without interruption, and between
any two awaits every other task may run.

| Component | Code | State | Operations | What makes it correct | Status |
|---|---|---|---|---|---|
| Guru generation | `services/guru/service.py`, `budget.py`, `usage.py`, `chat.py`, `services/orso/vision.py`, `api/guru.py` | the `_service` global, its locks, `guru_reports`, `llm_usage` | eight `generate_*` modes, chat turns, statement ingest | one generation per lock, no lock left behind, each report paid for in its commit, bounded spending, an answer for every request | modelled, proved |
| Guru configuration | `api/admin.py`, `services/guru/config.py`, `get_guru_service` | the `llm_config` row, `_service` | read, save, invalidate, build | the service follows the row; the key survives | modelled, proved |
| Daily jobs | `services/guru/scheduler.py`, `main.py` | job progress, today's reports | cron job, catch-up at boot, manual digest and take | nobody without his turn unless a job is broken off, idempotent catch-up, jobs end | modelled, proved |
| ORSO allocation | `services/orso/allocation.py`, `api/orso.py`, `models/orso.py` | funds, allocation, switch log | create, rename, archive, replace, apply a reviewed statement | a replacement is whole, the log exact, archived funds empty, few circles of locks | modelled in part, proved |
| Throttle | `core/hardening.py`, `api/auth.py` | two dictionaries | check, record failure, record success | bounded, lockouts kept | modelled, proved |
| ORSO prices | `services/orso/prices.py`, `api/orso.py` | `orso_fund_prices` | refresh, manual price, latest | a manual price stays; the feed is not asked twice | modelled, proved |
| Market data and FX | `services/market_data/*`, `services/valuation.py` | quote, bar, FX, fundamentals and news caches | read-through with stale fallback | one row per key, fallback only when the fetch failed, a valuation that degrades | modelled without values, proved |
| Signals | `services/signals/*` | `signals` | replace a portfolio's snapshot (boot, cron, request) | one snapshot at a time | modelled without rules, proved |
| Groups and rotation | `services/groups/*`, `api/groups.py` | groups, assignments, daily snapshots | edits, daily snapshot | one snapshot a day, no dangling assignment | modelled without reads, proved |
| Decision context | `services/guru/decision_context.py`, `services/recommendations/*` | none | build, score, truncate, enrich | grounded references, bounded size, nothing held is suggested | brief modelled, proved |
| Portfolios, positions, imports | `api/portfolios.py`, `positions.py`, `instruments.py`, `imports.py` | portfolio tables | edits, import with three policies | unique positions, exact import | modelled, proved |
| Chat threads, news panel | `api/guru.py`, `api/news.py`, `chat.py` | threads, messages | turns, history window | the window begins with a user message, an answer follows its question | turns modelled, proved |
| LLM clients, Yahoo client | `services/guru/llm/*`, `yahoo.py` | none | calls | answer or error | pure I/O, not modelled |
| Encryption, sessions, settings | `core/crypto.py`, `security.py`, `config.py` | none | conversions | library code | not modelled |
| Schema, migrations, seeds | `models/*`, `src/backend/alembic` | none | - | the constraints used are part of the modules | not modelled |
| Frontend | `src/frontend` | views | - | a client of the API | not modelled |

Interactions. Every Guru request and every job asks `get_guru_service` for the
one service object (configuration → generation); the object's locks are shared
by requests and jobs (generation ↔ daily jobs); `check_budget` and
`record_usage` share `llm_usage`; a reviewed statement writes funds, prices and
the allocation in one transaction (ingest → allocation ↔ prices); the
digest reads signals, which jobs of the same scheduler refresh; a decision brief
reads holdings, signals, news, exposure and candidates in one transaction, while
other requests trade (holdings → brief); threads, reports and signals hold the
portfolios they are about (chat, signals → holdings). The hard
behaviours are state read before an await and used after it, two transactions on
one user's rows, and a process that stops anywhere. `PROJECT.json` lists them as
hazards, at their lines.

## 2. The modules

**`UsageLedger`** is the abstract specification of generation: tickets are
admitted while the day's recorded spending is below the budget, and a ticket ends
in one commit (cost, usage row, report) or in nothing.

**`GuruGeneration`** is the detailed one. A caller is an asyncio task, a request
handler or a scheduler job, and one action is what it does between two awaits:

| `pc` | the task is at | next |
|---|---|---|
| `idle` | no request | `Start` takes the global service, if there is one |
| `resolve` | awaiting `load_active_config` | `Build` installs a service of its own |
| `ready` | before `lock.locked()` | `Refuse` (503 or 409) or `Enter` |
| `check` | awaiting `check_budget` | `PassBudget`, `StopAtBudget` |
| `call` | awaiting the provider | `Answer`, to `commit` or, in a corrected mode, to `retry` |
| `retry` | awaiting the corrective call | `Correct` |
| `commit` | flush and commit | `Commit` |
| `release` | after the commit, inside the lock | `Release`; a digest goes on with the take |
| `between` | a job between two users | `NextUser`, `EndJob` |

`Fail` leaves from any point inside, as an exception does. `held` names a lock by
its service object and key, so that two objects have two lock tables; an object
no task refers to gives its name back. `Invalidate`, `Midnight` and `Restart`
happen at any time. Modes differ in four ways, which are four sets: one corrective
retry, a lock per user, no lock and no report, and what the scheduler runs. A
failed mode's user message of a chat and the contents of contexts are left out.

**`GuruConfig`** is the row behind the service. A configuration has three columns
(provider, models with prices, key). `ReadRow`, `Update`, `Insert`,
`CommitInsert` and `Invalidate` are `put_llm_config`; `Update` writes the columns
whose new value differs from the one read, as the ORM does. `Ask`, `Load` and
`Install` are `get_guru_service`. `Found` is what a SELECT of the first row by id
finds.

**`GuruDaily`** is `run_daily_job` and `catch_up` with requests for digest and take
beside them. A generation is two steps, taking the lock and ending; the opted-in
users a job finds are any set of users, taken by increasing id (`Lowest`). Both
lookups of a user in `catch_up` are one step: a digest that was found stays, so only
a midnight between the two could tell them apart. What can fail, fails in one of
two ways. An exception the handlers swallow costs its user his turn (`Refused`,
`Fails`). One that leaves the job's function ends the job (`BreaksOff`): a lookup of
`catch_up` or the `db.get` of the next user, which are in no `try` (`LookUpFails`,
`NextUserFails`), and a failed flush or commit under `_generate_daily_for_user`
(`FlushFails`): the session is rolled back, the user object expires, and the
handler's log line reads its `id`. The take that `catch_up` runs by itself
(`_run_guarded`) logs a constant and goes on. `owed` and `stopped` are histories,
which no guard reads. No user is ever deleted, so the `user is None` of the loops
does not occur.

**`OrsoAllocation`** is one user's funds and allocation. A request is a transaction,
and a step is a statement or, where a transaction can come to wait between two rows
of one statement, a row of it. A reviewed statement goes through its new funds
(`AddFund`), its items with their prices (`TakeItem`, `WritePrice`), the old
allocation (`ReadPrevious`, `Delete` for the statement's snapshot, `DeleteRow`) and
the new rows (`InsertRow`), and commits it all (`Commit`); a `PUT` checks its list
at once (`CheckItems`) and does the second half. `create`, `archive` and `restore`
are `CheckFund` and `SaveFund`. What a transaction has flushed is not in the tables
until it commits; it follows from where it is in its lists: `HeldFunds`,
`HeldPrices`, `PlacedBy`, and `doomed` for the rows of its DELETE. A statement that
wants one of these waits (`WaitsFor`), and when the holder has ended it goes on,
passes over a row that is gone, or fails under a unique constraint (`Fails`). A
DELETE goes through the rows in the order of the table, which is any assignment of
places (`Place`). `Abort` is a lost client as well as the end PostgreSQL makes of a
circle. Amounts are counted in halves of the stored quantum, on which
`ROUND_HALF_UP` (the model's validators) and `ROUND_HALF_EVEN` (`_canonical`)
differ; no fund occurs twice in a list, so the sorted canonical form is a set. The
docstring of `allocation.py` says that both write paths go through
`_replace_core`; `api/orso.py` has a copy of it, and the model is of both.

**`LoginThrottle`** is one object of that class. Nothing in it awaits, so an attempt
is one step: `check`, the sweep and eviction that make room, and the count
(`Checked`, `MakeRoom`, `Count`). Wherever the code deletes an e-mail it deletes it
from both dictionaries, so a step is described by the set it forgets.

**`MarketSessions`** is what signals, group snapshots, valuations and the market
data caches share: database sessions that fill the caches as they go and keep the
rows they wrote locked until they commit, over all their provider calls. A session
is the sequence of its remaining steps: `Analysis`, `Exposure` and `Dashboard` write
out `SignalEngine.analyze`, `compute_group_exposure` with `write_snapshot`, and the
valuations of a dashboard or of a generation's context. `Read` and `Answer` are one
refresh (the SELECT, the provider's answer for any part of what was asked, the stale
fallback), `Write` flushes one row of it, in the order the ORM flushes. A session
loads the positions when it starts and goes by them to its end. Requests edit
positions at any time, so two sessions may start from any two of `Books`, whether or
not they overlap: `Begin` takes any of `Programs`. `Remainders` is every state of a
session's list of steps that the code can be in. A row is absent, old or fresh and
has no value; the new signals or group rows are any set. `Expire` is the UPDATE with
which an analysis makes its cached quotes old (`found` remembers which rows were
there), `Raise` the `LookupError` of `get_rate`. A write waits for a row another
session wrote, and fails on one that was not there when the session read. A flush
that fails inside a `try` meant for the provider leaves a session every later
statement of which raises, so `WriteFails` is a rollback for every feed. Deleting
and inserting is `Delete`, `Lock`, `Replace` as in `OrsoAllocation`, under the
unique constraint for group snapshots (nulls not distinct) and under none for
signals. An exposure of one portfolio, which writes no snapshot, is a prefix of
`Exposure` and commits like `Dashboard`.

**`OrsoPrices`** is the price rows of a user's funds, each named by its unique key,
a fund and a day. A refresh looks at its funds one by one (`Check`: a row of today,
or one fetched within the TTL), asks the feed once for the rest (`FeedAnswers`,
with `Parse` for what the answer is worth), then finds and writes a row for each
price (`Find`, `Put`); a manual entry is the last part alone. Three habits of the
ORM decide what a race does, and are modelled: a row is flushed before the next
SELECT, an UPDATE names only columns that changed, and a row the session still
refers to is not loaded again (`held`). So a manual price that is committed
between a refresh's SELECT and its UPDATE keeps the source `manual` and gets the
feed's price. Time is in ticks of a quarter of a day.

**`Holdings`** is everything a user edits: portfolios, positions, instruments that
all users share, imports with their three policies, groups, assignments and the seed
from sectors. A request is its reading steps and one writing step. What an import
does to the positions is the fold `Merged` over its rows, one `MergeRow` each
(`Unmerged` is what it starts from), with the dict the code keeps; it is a recursive
function, and `With`, `Onto`, `Without` and `Only` are what it and the store do to a
function. A symbol is a pair of a symbol and a spelling, since instruments are found
by the upper-cased symbol and the dict by the spelling of the file. The ids a
request gives are named by it, and not in use before (`HoldingsOK`). A portfolio
comes with the positions it was loaded with, and these are what its deletion
deletes. The writing step of an import reads nothing between its flushes, so it is
one step; a circle of two replacing imports that wait for each other's rows is left
out, as PostgreSQL would end one of them.

**`DecisionBrief`** is one decision brief. `ReadHoldings` to `ReadCandidates` are
the five guarded reads of `build_decision_context`, with trades of the same user
between them (`Edit`), and `broken` for a transaction in which a statement failed.
Candidates are scored as `services/recommendations` does (`Seeds`, `Score`,
`Scored`), `DropNews` to `Compact` are the stages of `_truncate`, and `Enrich` is
what becomes of any draft of the model. A list of the context is the set of its
rows with their order (`NewsOrder`, `SignalOrder`, `CandidateOrder`): `Leading` is a
list cut at its maximum, `Latest` the row that `pop` takes. Rows equal in an order
(two signals of one severity and time) may stand in either order. A text has no
characters here: a row of each list takes a number of them, and the limit is what
varies.

**`ChatTurns`** is threads and turns. A message gets its time from the application
(`Stamp`), its id from the database (`InsertMessage`) and is visible later
(`CommitMessage`): the question and the answer take these three steps each, and
turns of one thread interleave between them. `Window` is the history a provider is
sent: the newest messages of the thread (`Newest`) from the first user message on
(`FromUser`). The rows of a query are a set with an order, `Earlier`, since nothing
depends on more than who comes before whom. What a turn costs is `GuruGeneration`'s.

**`*Proofs`** hold the theorems about a module and the lemmas they need, **`MC*`**
the instances. `GuruGenerationProofs` also holds what is proved of the ledger, under
the refinement mapping, and `GuruServiceProofs` what is proved of three models about
the Guru service, `GuruConfig`, `GuruDaily` and `ChatTurns`, which it extends
together. So these share no names: those of the daily jobs and of the turns that
others have too are called `DailyInit`, `DailyTypeOK`, `ChatSpec` and so on. The
models choose a least element (the oldest count, the first row, the next user) by a
set of the candidates no other one precedes, rather than by `Min`: that is what the
code's `ORDER BY` or insertion order says, and it can be reasoned about.

Each module has *variants* of its actions, named in a comment with the property
they must break. They are not part of any specification: a property that no
plausible mistake can break would say nothing.

## 3. The runs

| Run | Instance | Result |
|---|---|---|
| `generation` | one handler, one job, two users, five modes (one of each sort, digest and take), three service names of which one without key, budget 1, cost 1, two usage rows | passes, 338,796 states |
| `two_generations` | two handlers and a job | `OneGenerationPerKind` is violated |
| `orso_allocation` | three requests, four funds of which two exist, twelve request bodies (replacements and statements that agree, differ, overlap and name two new funds, prices or rows in either order; one amount of half a quantum; create, archive, restore); symmetric | passes, about 593,500 states |
| `config` | two administrators, two tasks, two values per column | passes, 274,640 states |
| `daily` | two users, one request handler, two boots, any number of midnights | passes, 566,090 states |
| `throttle` | five addresses for a table of four, two failures to a lockout of two ticks, eight entries made; symmetric | passes, 15,988 states |
| `market_sessions` | two sessions, two portfolios of a symbol each that share a rate, one of which changes its symbol for that of the other, one feed, one item; a full or an empty cache | passes, 506,067 states |
| `orso_prices` | three requests, two funds with an old price each, two feed answers and two manual entries, five ticks over a midnight; symmetric | passes, about 2,450,000 states |
| `holdings` | three of twenty requests on a portfolio of one position; symmetric | passes, about 288,000 states |
| `decision_brief` | four instruments, five signals, four headlines, four markets, two hostile drafts, seventeen limits, two trades | passes, 181,500 states |
| `cited_signals` | the same | `CitedSignalsKept` is violated |
| `chat_turns` | three turns, two threads, a window of two messages, two clock readings; symmetric | passes, about 1,006,000 states |

States are distinct states; under symmetry the number varies a little with the order
in which TLC's workers find them.

What the properties say:

- `LocksExact`: the locked locks are those of the generations under way, one
  each. `GenerationsEnd`: nothing waits for a lock, so every request is answered.
- `UsageComplete`: the usage of the corrective retry is added to the first
  call's. `ImplementsLedger`: a report and its usage row are one commit of a
  generation that was admitted. `OvershootBounded`: the check-then-spend window
  costs at most two calls per task.
- `StaleOnlyByRace`, `SavedWholeUnlessMet`: a saved configuration is in force, is
  one row and of one form, except through the two races the properties name.
  `KeyKept`: no interleaving of saves blanks a stored key.
- `CatchUpOncePerDay`: restarts do not make catch-up repeat itself.
  `UnservedHasReason`: a job that came to the end of its list left every user with
  both reports of the day or failed for that user. `JobsEnd`: nothing waits for a
  lock, so a job ends whatever competes with it.
- `StaleRowsOnlyByRace`, `ArchivedUnitsOnlyByRace`: the allocation is broken only
  between requests that were open together. `SoloReplaceExact`: alone, a request
  is exact, with its log entry. `CircleOnlyByOrder`: two requests wait for each
  other only where they name two new funds, or two funds of the allocation, in
  opposite order, or where the allocation changed between their DELETEs.
- `TrackedBounded`, `LockoutKept`: the table is bounded, and a lockout is given
  up early only by a login, or by eviction when nothing expired is left.
- `SignalsMixOnlyIfDisjoint`: a portfolio keeps the signals of two analyses only if
  their UPDATEs found no quote in common. No group has two rows in a day's snapshot
  (`TypeOK`). `AloneExact`: a session that met no other never conflicts with its own
  writes, and the table it replaces is its own.
- `ManualStaysManual`: no refresh takes a row's source `manual` away.
  `ManualPriceOnlyByRace`: nor its price, unless the entry met another request.
  `NoRepeatFetch`: what a refresh stored is not asked for again within the TTL.
- `NoNewDuplicates`: a second position of a symbol comes only from overlapping
  requests or from two kinds of import rows (a spelling that is not upper case, a
  symbol a replacing import repeats). `LoneImportExact`: any other import leaves one
  position of each symbol, with the quantity its policy says, and nothing else
  changed. `FailuresExplained`: the complete list of what ends in a server error.
- `Grounded`: whatever the model drafts, the payload decides once on each held
  symbol and cites only rows that were sent. `TruncatedMinimal`: the context sent is
  the longest of those that fit, in the order headlines, candidates, signals, texts,
  details, with the evidence of exactly the rows kept. It does not speak of the
  steps of the truncation: each list leads the one that was read, none is cut before
  the one that goes first is empty, and with one row or detail more (`Longer`) the
  context would exceed the limit. `HeldNeverSuggested`: candidates are not held, and
  a symbol that is decided on and suggested was sold in between. `StoredSawAll`: a
  brief that is stored read all signals and news, though each read is guarded by
  itself.
- `WindowSound`: a provider is sent a window from a user message to the question
  asked. `AnswersAdjacent`: an answer stands after its own question. Both except
  for turns of one thread that overlap, as far as the properties say.

The bounds. Two tasks suffice for every race of generation the properties speak of
(a third makes two handlers and a job meet, in `two_generations`); with budget 1 and
cost 1 one generation exhausts the budget, and two rows let a second one overshoot
it. `MaxRows` stops new generations only, never one under way. In `OrsoAllocation`
two requests make a race and the third sees what it leaves; two entries in a list
make two orders. Circles over new funds, over prices and over new rows all happen
there. One in which a DELETE takes part needs a table whose rows have changed
places, and four requests: the theorem covers it and the run does not. A circle of
three requests is possible, and no property speaks of it. Two boots are one restart,
after which catch-up meets its own work; midnights are not bounded. Both users are
opted in all day: the theorems are of any that change. A table of four and a fifth
address make every path of `MakeRoom` happen. `MaxMade` bounds the numbering of
entries. In `MarketSessions` two sessions suffice for a conflict, for a circle of
locks and for two analyses with an edit between them: of the shared rate and the
quotes, one portfolio needs the rate inside its valuation and the other after it, so
sessions take them in opposite orders; one feed and one item stand for more of the
same. A session object serves once, so a race of three is not explored. Three
requests of `OrsoPrices` and `Holdings` are a race and a witness; the two times that
matter in a day of four ticks are midnight and the TTL, and the clock passes both.
The bodies of `Holdings` hold each operation and the imports that repeat or misspell
a symbol. The limits of `decision_brief` stop the truncation at every stage. A
window of two messages with three turns is overfull; the code's is twenty.

`OrsoAllocation`, `MarketSessions`, `OrsoPrices`, `Holdings`, `DecisionBrief` and
`ChatTurns` state safety only (their requests end by the database's and the clients'
timeouts) and stop when all requests are served, so deadlock is not checked. That
a circle of row locks ends is PostgreSQL's doing: its deadlock detection fails one of
the statements (`Abort` in `OrsoAllocation`, `AbortVictim` in `MarketSessions`), and
the code, which catches nothing of the kind, answers that request with an error.

Fairness, of `GuruGeneration` and `GuruDaily`: weak fairness of each task's own next
step. The event loop runs every task that can run, and the provider clients and
the database have timeouts, so every call and every query ends with an answer or an
error. No fairness is assumed of requests, midnights, restarts or invalidations.
In `GuruDaily` only the jobs are fair, since they wait for nobody: a job that is ready
proceeds or is refused, whichever holds then, and it goes on or is broken off.

## 4. What the code does and its documents do not say

Shown by a run:

- One generation per kind (design of phase 2b) holds for one service object. After
  a cold start, or across a saved configuration, two objects have two lock
  tables (`two_generations`).
- A stored decision brief never cites a signal. The evidence of a signal is built as
  `{"ref": ..., "kind": "signal", **row}`, and the row's own `kind` (`price_move_day`
  and so on) replaces `signal`, the value by which `_enrich_decision_draft` keeps
  references. The tests write their evidence by hand (`cited_signals`).

Visible in the models, and taken into account by what the properties say:

- One usage row per API call holds for calls of generations that succeed: a
  corrective call that fails drops the answered call before it
  (`GuruGeneration!Fail` at `retry`).
- "One user's failure (missing key, over budget, LLM error, or anything else) must
  not abort the loop over the other opted-in users" (docstring of
  `_generate_daily_for_user`). It does when the failure is a flush or a commit: the
  handler logs `user.id`, which the rollback has expired, and raises; the users after
  that one get nothing (`GuruDaily!FlushFails`). `UnservedHasReason` is therefore
  of jobs that were not broken off.
- Nothing orders the rows of two statements of one user. Two that name funds in
  opposite order wait for each other (states of `orso_allocation`), and one of them ends
  in a server error.
- A full replace of the allocation is one only when no other runs beside it; its
  switch log gains entries for amounts that round differently in the two roundings
  although nothing changes (`SoloReplaceExact` leaves half quanta out).
- "Next request rebuilds with the new config" (`api/admin.py`) fails for a task that
  had loaded the old one (`late` in `StaleOnlyByRace`).
- "value_portfolio never raises on provider failure" (`services/signals/engine.py`)
  holds for quotes. A failing exchange rate without a stored one raises, and the
  dashboard, the analysis and the exposure with it (`MarketSessions!Raise`).
- Nothing in the signals engine keeps two analyses of a portfolio apart. What does
  is the UPDATE that expires the quotes: its row locks last until the commit, so
  the second analysis waits before it deletes. A portfolio none of whose symbols
  was ever quoted has no such lock, and neither have two analyses between which the
  portfolio changed all its quoted symbols: `SignalsMixOnlyIfDisjoint` says so.
- `LoginThrottle` says its state is capped at `_MAX_TRACKED` combined entries. What
  holds, and is proved, is that many counts and as many lockouts at most: the
  lockout of an address already counted is a second entry.
- `OrsoPriceService.refresh` says it never raises and never overwrites a manual
  price. Two refreshes that insert the same row end in an `IntegrityError` for one
  of them, and a manual price entered during a refresh can get the feed's price
  under the source `manual`. A row skipped for being manual is not stamped, so the
  feed is asked for its fund again at every call.
- A replacing import that repeats a symbol (one row per lot) duplicates the
  position, or raises when the row it would delete is not flushed yet; a symbol
  spelled in lower case duplicates one that is held. Once a symbol is there twice,
  `create_position` for it raises.
- A portfolio that a thread, a report or a signal refers to cannot be deleted: the
  foreign keys refuse, and nothing catches the error. Seeds and assignments of
  groups that overlap end in uncaught integrity errors likewise.
- The guards around the reads of a brief's context cannot degrade a failed
  statement: the transaction is lost, and with it the report, after the paid call.
  The valuation weights of a candidate's score are never earned, as no reader
  supplies a valuation.

## 5. The proofs

All proofs hold for every value of the constants that satisfies the modules'
assumptions (`ConstantsOK`, or a name of its own such as `HoldingsOK`), which TLC
evaluates on every instance.

- **`LedgerBoundsSpending`** (`GuruGenerationProofs`): every behaviour of the ledger
  bounds the spending, and not only those the code has. `OvershootBounded` is not
  inductive: `Reserved` adds what each open ticket may still cost, `spent[u] +
  MaxCharge * |open[u]| <= Budget + MaxCharge * |Tickets|`. Admission is below
  the budget, a charge turns a reservation into spending (`Moves`, `LineKept`).
- **`LocksAreExact`, `UsageIsComplete`, `GenerationTyped`** (`GuruGenerationProofs`).
  The inductive invariant is the type invariant (with `LocalsOK`, what the local
  variables hold at each place) and the lock invariant together; one step per
  action, the digest-then-take handover by its own case.
- **`GenerationImplementsLedger`**: with `open[u]` the callers in flight for `u`,
  every step of the detailed specification is a ledger step or a stutter.
  **`SpendingIsBounded`** is that and the ledger's theorem.
- **`ThrottleTyped`**, **`TableIsBounded`**, **`LockoutsAreKept`**
  (`LoginThrottleProofs`): inductive with the finiteness of the table, without which
  no oldest entry need exist; the set of addresses may be infinite. A lockout that
  goes in an attempt was evicted (`AttemptGivesUp`), which happens only after the
  sweep, and a table too large for one entry after the sweep was full before it
  (`TrackedMonotone`).
- **`TypeCorrect`**, **`KeyNeverBlanked`**, **`StaleServiceExplained`**,
  **`SavedWhole`** (`GuruServiceProofs`). `IInv` adds to the type invariant what an
  INSERT relies on: the id it has drawn is in no committed row and with no other
  request. That keeps every stored key, as an UPDATE leaves the key alone or
  brings one. `SavedWholeUnlessMet` needs more: `SoloInv` says that, while no two
  saves have met, one administrator saves at a time, has read the table as it is,
  and at most one row exists. It is inductive under `met = {}`; `met` only grows.
- **`DailyTyped`**, **`NobodyIsSkipped`**, **`CatchUpIsOnce`** (`GuruServiceProofs`).
  The counter of catch-up's digests is tied to its list by `CaughtUpInv`: a digest
  it made is a report of the day, a user is looked up before being listed and is
  listed once, and no user on the list for a digest, or being served one, has had
  one. A second boot finds the report, which is why restarts do not repeat it.
  `NobodyIsSkipped` is of a job that nothing broke off: what it still owes is on its
  list or is being served, and what the lookups left out was stored that day.
- **`AllocationTyped`**, **`NoStaleRows`**, **`NoArchivedUnits`**,
  **`CirclesByOrder`**, **`SoloReplacesAreExact`** (`OrsoAllocationProofs`). The
  properties speak of what is stored, the invariant of what each open request knows:
  an item that has been checked names a fund that is there and was not archived, or
  whose archiving the request has met since (`SeenFor`, `ItemsFor`); a checked
  archiving sees no units but those of requests it has met (`SaveFor`); the rows a
  DELETE does not look for are of requests it has met (`DeleteFor`). For the circles it
  adds that a DELETE takes the rows in the order of their places (`DeleteFor`),
  inserts only when it is through and where nobody else's row is (`PlacedFor`), and
  that no two requests have placed a row of one fund (`PlacedApart`). Then each of
  the two waits of a circle is of the same kind (`FundsWait`, `PricesWait`,
  `RowsWait`), and a list gone through in one direction cannot make one. Assumed of
  the table is only that rows of different funds lie in different places (`PlaceOK`).
  The last theorem is of an action property: `AloneInv` says that a request that met
  no other has read what is stored and deletes all of it, since two open requests
  have met, and on whole quanta the two roundings agree (`RoundingsAgree`,
  `CanonicalAgree`).
- **`SessionsTyped`**, **`SignalsAreWhole`**, **`AloneIsExact`**
  (`MarketSessionsProofs`). What a session still has to do is a sequence, and the
  invariant needs little of it: of its steps only the first expires quotes and
  only the last replaces a table (`IsProgram`), and a session's locals belong to the
  step it is at (`Local`). A row is locked by one session
  (`LocksDisjoint`), and an analysis holds what its UPDATE found, or will before it
  leaves it, to its end (`Guarded`). So of two analyses that found a row in common
  one has waited for the other's commit, and the signals a DELETE does not find
  are those of analyses that found no row of its own (`SpareOK`). Books are
  arbitrary: nothing relates the positions of two sessions. `AloneOK` is what a
  session that met no other may rely on.
- **`HoldingsTyped`**, **`FailuresHaveReasons`**, **`DuplicatesHaveReasons`**,
  **`LoneImportsAreExact`** (`HoldingsProofs`). For the first, `IInv`: references
  lead to rows (`Stored`), and what two open requests have flushed is apart
  (`FlushedApart`). For the others, `JInv` adds that the requests which were over
  when one began still are (`Past`), that no id is in use before its request gives it
  (`Fresh`), and that what a request which has met no other has read is what is
  stored (`AloneOK`): two open requests have met, so only its own steps can disturb
  it. An import is a loop over its rows, a recursive function, and what
  it computes is not proved by induction but by a least counterexample: the
  statement holds before the first row and each row keeps it, so no row is the
  first at which it fails (`LeastNatural`). `PlanOK` and `SymbolOK` are the loop
  invariants: what is planned belongs to rows merged so far, and what is planned for
  one symbol is one position with the quantity that those rows say. The rest
  (`WritesOwn` and after) counts what the commit leaves. Assumed are that ids of new
  rows are new and that the value for "nothing" names no row or request (`HoldingsOK`);
  bodies, portfolios and merge policies are arbitrary.
- **`PricesTyped`**, **`ManualPricesKept`**, **`FeedAskedOnce`**,
  **`ManualRowsStay`** (`OrsoPricesProofs`). No property is inductive, as a
  request acts on a row it read long before. `Snap` says what such a row is still
  worth: what is stored, or, if the reader has met a request since, a row that
  missed no manual price but one of a request it met. `Snaps` holds it of the row a
  session refers to and of the one it has just loaded; `Flushed` says that the
  columns a request has flushed are all of a new row, or those that differ from such
  a snapshot; `Apart` that no two open requests have flushed one row, for which
  the row locks are there. So an UPDATE by a refresh never names `source`, which is
  `ManualRowsStay`, and one that met nobody writes over what it saw. `Order` (what
  was over when a request began, began before it), `Todo` and `Stored` (the rows of a
  request that met nobody are as new as it is) give `FeedAskedOnce`. The assumptions
  are that a body names a fund once and enters positive prices, which
  `apply_allocation` and `ManualPriceIn` check, that the stored rows are well formed
  at the start, and that the funds are finitely many; feeds, times and bodies are
  arbitrary otherwise.
- **`WindowsAreSound`**, **`AnswersFollow`** (`GuruServiceProofs`). `Committed` and
  `Drafted` say what a turn's messages are at each of its places, stored or not yet;
  `Distinct`, that no two messages have one id, drawn or committed; `Sequential`,
  that a turn which was over when another began has written only earlier messages.
  From these, only turns that met put a message after the question of one that is
  still open (`LaterMet`), and between a question and its answer
  (`NothingBetween`). A window that was sound when it was read stays so,
  since what a turn has met, and what these have written, only grows (`SoundStays`).
  Times may be equal and the clock may stand still: the ids decide then.
- **`BriefsAreGrounded`**, **`NothingHeldSuggested`**, **`NoNeedlessCut`**,
  **`StoredBriefsSawAll`** (`DecisionBriefProofs`). `Kept` is what one cut after the
  other preserves: each list leads the one that was read (`LeadsWithout`), and the
  evidence is that of exactly the rows left. The last is a lemma about `Filtered`
  (`EvidenceKept`): the code keeps evidence by its `ref`, so it is right only as the
  refs of different rows differ, which rests on unique ids and on the three prefixes
  (`RefsApart`). It also makes the last cut a needed one, since putting the row back
  gives the context that exceeded the limit (`NewsCut` to `DetailsCut`).
  Groundedness then goes from a reference of the payload to an evidence row and from
  there to the row it was built from (`DecisionsCite`, `IdeasCite`). `Held` says
  that the holdings read are those held until a trade, and `Saw` that a transaction
  in which nothing failed has read signals and headlines. Assumed are the primary
  keys of signals and headlines, that no signal kind is called `candidate` (the
  kinds are literals of `services/signals/rules.py`), and that a draft proposes a
  symbol once (the validator of `DecisionBriefDraft`); drafts, markets, limits,
  sizes of rows and trades are arbitrary.

Every invariant and every action property of the passing runs has its theorem.
Only model-checked is liveness (`GenerationsEnd`, `JobsEnd`), which rests on fairness
and ENABLED and is out of the prover's reach. The two runs that expect a violation
end in counterexamples, and there is nothing to prove of them.

## 6. What is left

Not modelled: the contents of prompts and reports, `services/guru/context.py` and
the ORSO and rotation contexts (formatted reads), projections (closed formulas
over decimals), the statement extraction up to its draft, the values of caches
and the arithmetic of `value_portfolio`, the signal rules (threshold formulas), the
news panel, the CSV reader, the candidate catalogue (data), provider clients,
encryption, migrations and the frontend. None of them changes state that another
task of the process sees in between.

Next:

1. The values left out of `MarketSessions`: a cache that answers from the last
   fetch that succeeded.
2. Derived fund codes and `build_draft` of the statement ingest, as operators.
