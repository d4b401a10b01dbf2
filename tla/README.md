# Househunt: models, checks and proofs

Househunt collects house listings from Argentine portals, shows and scores them,
and lets people keep them on shared lists with planned visits. The API
(`services/api`, FastAPI, async SQLAlchemy over Postgres) asks five portals, four
of them through a headless browser; the web client (`apps/web`, React) is a
single-page application. This directory holds TLA+ models of the parts of that code
whose correctness depends on the order in which things happen, TLC runs that
check them on small instances, and TLAPS proofs for instances of any size.
`PROJECT.json` maps every definition to the lines it models, and lists the runs,
the mutants that show what each property is sensitive to, the findings, the
hazards and the theorems. Paths below are relative to `services/api/app/` unless
they name `apps/web`.

## 1. The system and what is hard about it

| Component | State it keeps | Operations | What must hold | Model |
|---|---|---|---|---|
| Shared lists (`interest/`, `visits/`, `db/`) | tables `interest_lists`, `interest_list_members`, `interest_items`, `visits`, `properties` | open the default list, invite, remove, add, add from a URL, patch, archive, restore, plan a visit | one owner per list for good; no row twice; nothing changes but by members; visits stay with an interest; edits merge | `SharedLists`, `ListBoard` |
| Browser fetches (`adapters/browser.py`, `*/live.py`, the timeout in `search/service.py`) | `_RATE_LOCK`, `_LAST_REQUEST_AT`, the browsers that are open | queue, sleep, pass, start a browser, go to a page, go to a second page, close, be cancelled | fetches are spaced; the lock is never lost; what is opened is closed; nobody times out in the queue; all end | `BrowserFetch` |
| Accounts and tokens (`auth/`) | `users`, `refresh_tokens` | register, login, refresh with rotation, logout | a token works once; a session is not lost | `WebSession` (the tokens) |
| Web session (`apps/web/src/auth`, `api/client.ts`) | the access token in a tab's memory, the refresh token in localStorage, the shared refresh promise | load, call, refresh once, retry once, login, logout, reload | what is stored can be used; a refresh is refused for its age only; every call ends | `WebSession` |
| Search (`search/service.py`, `adapters/`, `apps/web/src/lib/emptyState.ts`) | the answers of the portals, merged rows, diagnostics | ask all portals, scrape, filter, merge, filter again, count, say why there is nothing | a failing portal takes nothing from the others; counts add up; the reason given is true; a search is answered | `ListingFilter`, `PortalAnswers`, `PropertySearch` |
| Property store (`search/service.py`, `mappers.py`, `scripts/backfill_external.py`, `properties/`, `interest/router.py`) | table `properties` | upsert by a search, a pasted URL, the backfill; the score of the detail page | a row is of one reading; nothing empties it; reports are true; no job hangs | `PropertyStore` |
| Migration 0003 (`alembic/versions`) | the tables while they are converted | upgrade, downgrade | an upgrade succeeds, a downgrade too unless a user owns two lists; every row stays with its user | `ListMigration` |
| Pages of lists (`apps/web/src/pages`, `context/ActiveListContext.tsx`) | the active list, what a page shows, calls under way | open, load, write, switch, refresh the lists | what is shown is of the list that is written to; loading ends | `ListPages` |
| Field parsers, HTML extraction, scores, reports, geo suggestions, wording, formatting, settings, scripts | none | text or value in, value out | - | not modelled, see section 6 |

How they interact: pages call the API through `api/client.ts`, which adds the
token and refreshes it on a 401. A handler gets one database session (`get_db`),
which is one transaction at Postgres's default READ COMMITTED: it is opened by
the first query, often the one of `get_current_user`, and committed after the
handler returns. A search starts one adapter per portal under `asyncio.wait_for`;
four of them share the process-wide rate limit with each other, with other
searches and with pasted URLs. Search, pasted URLs and the backfill write
`properties`, to which list items and visits refer.

What is hard, then, is: two requests between whose SELECT and INSERT others
commit; a check that is old by the time its result is used (a pasted URL is
fetched between the membership check and the insert); unit-of-work flushes that
write columns and not rows; cancellation at any await of a fetch; a process-wide
lock and what happens to it when its holder is cancelled; replies that are lost or
come late; tabs that share storage but not memory; five scrapers that fail in their
own ways under one reply; four kinds of writers of one table, one of which holds its
locks while it waits for web pages; a page whose calls outlive the list they are for.
`PROJECT.json` lists each at
its line, with the properties that would show it going wrong.

## 2. Modules

```
ListBoard                       what shared lists promise, in one-step changes
  ^ refined by
SharedLists                     the handlers as transactions over the tables
  MCSharedLists + 4 .cfg        instances for TLC
  SharedListsProofs             inductive invariant, safety, one owned list per user
  SharedListsStepProofs         what a step may do; SharedLists implements ListBoard
  ^ extended by
ListMigration                   migration 0003 up and down around SharedLists
  MCListMigration + .cfg
  ListMigrationProofs           when each direction succeeds; rows and owners are kept
BrowserFetch                    rate limit, browsers, timeout
  MCBrowserFetch + 2 .cfg
  BrowserFetchProofs            inductive invariants, safety, spacing, no early timeout
WebSession                      tabs, stored refresh token, rotation by the API
  MCWebSession + 2 .cfg
  WebSessionProofs              types; the session of one tab
ListingFilter                   which listings the two filters keep
  ^ extended by
PortalAnswers                   what each scraper and adapter makes of its pages
  ^ extended by
PropertySearch                  fan-out, merge, counts, reason of an empty reply
  MCPropertySearch + .cfg
  PropertySearchProofs          filters, answers, merge, counts, reasons
PropertyStore                   transactions that write the table of listings
  MCPropertyStore + .cfg
  PropertyStoreProofs           reports, torn and thinned rows
ListPages + .cfg                the active list and the pages that show it
  ListPagesProofs               types, the active list, what a page shows
```

A search is two modules, `PropertySearch` up to the merged listings and `PropertyStore`
for the transaction that writes them: between the two, `run_search` awaits nothing but
the database. A pasted URL has a part in three: its page is a fetch of `BrowserFetch`, its
listing a job of `PropertyStore`, its item a request of `SharedLists`.

### SharedLists

| Model | Code |
|---|---|
| `lists`, `members`, `items`, `visits`, `catalog` | the five tables (`db/models.py`), rows as records, keys from finite sets, `None` for NULL and for a key without a row |
| `req[r]` | one HTTP request: the session of `get_db`, where the handler is, and what it holds in variables |
| `ResolveDefault`, `ResolveListed`, `ResolveOwner` | `resolve_list_id`, `require_membership`, `require_owner` (`interest/deps.py`) |
| `LoadItem`, `AuthorizeItem` | `_patchable_interest` |
| `LookupCreate`, `LookupExternal`, `LookupVisit`, `LookupInvite`, `LookupRemove` | the SELECT that precedes the write, with its early errors |
| `Commit...` | flush and commit, with the uniqueness constraints |
| `FlushedItem`, `FlushedVisit`, `Column` | SQLAlchemy's UPDATE of the columns whose values differ from what was loaded |
| `Abort` | an error, a violated constraint, a cancelled request, a crash: the rollback |
| `StoreListing` | a search stores a listing |

A request has up to three steps because there are up to three points at which
READ COMMITTED lets it see something new. Reads that follow each other with no
effect of a difference are one step. The flush and the commit are one step: the
handlers write last, an UPDATE or DELETE waits for the row's lock and an INSERT
that meets a unique index waits for the other transaction to end. A refused
request that has not written changes nothing, so early errors are guards.

Left out: texts, addresses and prices of listings; the user table (users exist
before a request comes, and nothing deletes one); the read-only endpoints, which
change the database only through `ensure_default_list` (`CommitOpen`). The role and
key columns never change, so they are not compared on a flush.

`MemberRow` keeps a removed membership as a row of role `"deleted"`, so that a key
is not used twice; the database's keys are UUIDs and are not reused either.
`overtaken` is a history variable: it marks the requests that were past their
check when their user was removed.

### BrowserFetch

| Model | Code |
|---|---|
| `queue` | `_RATE_LOCK`: asyncio locks are fair, the head holds it or takes it next |
| `since`, `wait` | the age of `_LAST_REQUEST_AT`, what is left of `asyncio.sleep` |
| `Start`, `Turn`, `Sleep`, `Pass`, `Wake` | `_rate_limit` |
| `SetUp`, `NewPage`, `SetUpFails` | the four awaits of `browser_page` before its `try` |
| `Navigate`, `NavigateAgain`, `Leave` | `goto_html` in the adapters, Zonaprop's fallback, the end of the `async with` for whatever reason |
| `Close`, `CloseFails` | the `finally` |
| `age`, `Cancel` | `asyncio.wait_for` of `run_search` and the `CancelledError` at the await the fetch is at |
| `held`, `cut` | how many of driver, browser and context are open; where the fetch was interrupted |
| `gap`, `navGap` | history variables for the properties |

Fetches are coroutines of one event loop, so a step is what runs between two
awaits. `Pasted` fetches are those of pasted URLs (`adapters/external/extract.py`),
which have no adapter timeout. A slot of `Fetches` is used again and again; what
an earlier use left open is not followed further, because the property about it
has been judged in the state where it ended. Remax is asked by plain HTTP and is
not a fetch here. Clock variables count ticks up to the bound the code compares
them with (`Older`), which loses nothing.

### WebSession

| Model | Code |
|---|---|
| `tokens`, `Issue`, `ApiReads`, `ApiRotates` | the rows of `refresh_tokens`; `_issue_tokens`; `refresh_tokens` as its SELECT and its commit, between which another refresh may commit |
| `stored`, `access`, `SetTokens`, `ClearTokens` | localStorage and the module variable of `auth/tokens.ts` |
| `view`, `load`, `Open`, `LoadRefreshed`, `LoadFails`, `EndCall` | `user` and `loading` of `AuthProvider`, its `loadMe` and `logout` |
| `OpenCallback` | `AuthCallbackPage` and `acceptTokens` |
| `Login`, `LoggedIn`, `LoginFails` | `login` and `register`, their answer and its handling in one step |
| `call`, `StartCall`, `AwaitRefresh`, `Answered`, `CallLost` | `apiRequest`, which sends a call a second time after a 401 |
| `refresh[t]["shared"]`, `Refreshed`, `RefreshFails` | `refreshPromise`, `tryRefresh` and those who await it |
| `refresh[t]["load"]` | the refresh that `loadMe` sends by itself |
| `orphans`, `ApiHandlesOrphan` | requests whose page is gone or whose fetch has rejected, which the API may handle yet |

A step of a tab is what its script does between two awaits. There is one account,
so a token stands for its user; a call says whether its access token is good, not
which one it is. A token nobody holds is used again (`Free`), which keeps the
set small: nothing distinguishes a new token from one everybody has forgotten. `logout_user`
does not appear because the page sends no refresh token with a logout, and the API
then revokes nothing. When localStorage cannot be written (private mode) there is no
refresh token at all; that case is left out. So is React's double mount in
development.

### ListingFilter, PortalAnswers, PropertySearch

| Model | Code |
|---|---|
| `LocationMatches`, `TokensForPlace`, `Seed` | `geo/match.py`, and the entries of `geo/seed.py` whose names contain or exclude one another |
| `PassesPostFilters` and its parts; `KeptByAdapter` and its parts | `search/postfilter.py`; `filter_raw_items` of `adapters/common.py` |
| `Scrape...`, `ReadCards`, `CollectRows`, `HasRooms` | `adapters/<portal>/live.py`: what is skipped, believed, inherited and cut off |
| `LiveOkResult`, `FixtureResult`, `CuratedSlice`, `RefusedResult`, `Empty`, `RunAdapter` | the answers of `adapters/common.py` (curated fixtures up to a cap), the adapters' own handlers, `run_adapter` |
| `RaisedResult` | what `_one` or `gather` returns for an adapter that raised |
| `outcome`, `answer`, `Ends`, `AdapterEnds`, `TimesOut` | the coroutine `_one` of each portal: what became of it, what `gather` gets |
| `Merged`, `FilterMerged`, `Slice`, `EmptyStateFor`, `SearchResponse`, `Reply` | `run_search` after `gather` |
| `RawByPortal`, `Overwritten` | `adapter_raw_by_portal`: listings read, kept by portal, so that of two answers of one portal the later one counts, once for each entry of the reply |
| `DerivedKind` | `deriveKind` of `apps/web/src/lib/emptyState.ts` |

A card is what the filters look at, with places and words as sets; reading it out of HTML is left
out. A reading maps places, pairs of a page and a row, to cards or listings: what a script skips or
a filter drops leaves a hole, and the order of places is the order of the code's lists. The scrapers
differ in what they believe of a card, and that is modelled portal by portal: Zonaprop drops repeats
by their link, and Remax takes the type from the words of a card too. The merge is stated as a set,
the first row of each key in the order of portals and items, since nothing depends on the order of
what is shown. An adapter may also be cancelled, which is no `Exception` and passes every handler
but `gather`'s own.

### PropertyStore

| Model | Code |
|---|---|
| `rows` | table `properties`: two columns that stand for all, the source, the score |
| `job[j]` | a search's loop of `upsert_property`, `create_external_interest`, `get_property`, `run_backfill`, each one transaction |
| `Load`, `Write`, `Flushed` | the SELECT; the flush, which names the columns that differ from what was loaded |
| `Blockers`, `DuplicateKey`, `DeadlockVictim` | PostgreSQL's row locks, its unique index, its deadlock detection |
| `StartBackfill`, `ExtractEnds`, `ExtractFails`, `SkipRow`, `Commit` | the loop of `run_backfill`, with `--dry-run` and `--fail-fast` |
| `Abort` | a cancelled request, a process that dies |

A score stands for the reading it was computed from. Two columns are enough to tear a row,
and one of the readings is thin, so that a column can be emptied.

### ListMigration

| Model | Code |
|---|---|
| `schema`, `itemUser`, `visitUser` | the revision; `user_id` of the two tables at 0002 |
| `Upgrade`, `UpgradeHolds`, `ListId`, `OwnerMembers` | `upgrade` of 0003 and the constraints it adds |
| `Downgrade`, `DowngradeHolds`, `OwnersOf` | `downgrade` and the constraints it restores |
| `Serve` | the API of `SharedLists` between the two, with any requests overlapping |

A migration is one step: alembic runs it in a transaction, and its DDL waits for all
others on the tables. It starts from any tables that 0002 allows, also with visits whose
property has no interest item; those survive the upgrade, so `VisitsHaveInterest` holds of
lists that were made at 0003 only. `inTurn` is a history variable:
whether no user has had two requests in flight since the last migration.

### ListPages

| Model | Code |
|---|---|
| `active`, `known`, `stored`, `refresh`, `Pick` | `ActiveListContext`: its state, localStorage, the calls of `refreshLists` |
| `page`, `shown`, `item`, `loading`, `error` | the state of the page that is open; `item` is the interest item that the detail page edits |
| `loads`, `LoadAnswered`, `LoadFails`, `Retry`, `ChangeMonth` | its loads under way, their ends, and what starts them again |
| `seconds`, `PropertyAnswered`, `ItemAnswered` | the second call of the detail page's load, which asks for the item once the property is there |
| `adds`, `StartAdd`, `AddAnswered` | `AddExternalListingModal` and `onExternalAdded` |
| `save`, `StartSave`, `Patched`, `Saved`, `SaveFails` | adding, archiving and saving on the detail page |
| `SwitchTo`, `RefreshEnds`, `Activate` | `ListSelector`, `refreshLists`, and the effect that loads the page again |
| `mixed` | a history variable: calls have overlapped a change of list, or a load has failed over other rows |

The interest and archived pages load and show alike, and are one page, `list`; the calendar is
another because it also loads when the month changes.
Writes that change no list's rows on the page (scores, dates, archiving from a list) are left out.
Rows are told apart by their list only.

## 3. Runs

| Run | Instance | Question and answer |
|---|---|---|
| `lists_two` | 2 users, 2 requests, 2 lists | types; no duplicates; only members change a list; visits have an interest; `SharedLists` implements `ListBoard` |
| `lists_columns` | 1 user, 2 requests, 2 dates, a score and a comment | concurrent edits of one item merge by column; a date or a time of archiving is only lost to a request that has loaded an older row |
| `lists_migrated` | 2 users with any rows of 0002, then any 2 requests, 2 lists | both directions of 0003 keep rows with their users and lists with their owners; an upgrade succeeds, a downgrade too unless a user owns two lists, which nobody does whose requests have followed one another |
| `lists_race` | 1 user, 2 requests | **violated**: two first requests make two owned lists |
| `lists_undated` | 2 users, 2 requests | **violated**: two upserts of one visit leave it scheduled or visited without a date |
| `fetch_limit` | 1 portal that asks twice, 1 pasted URL, interval 2, timeout 5, fairness, prompt loop or not | types; the lock; spacing; pages are given back; nobody times out in the queue of a prompt loop; every fetch ends |
| `fetch_fallback` | 1 portal | **violated**: Zonaprop's second page follows without the interval |
| `session_tab` | 1 tab not reloaded while it refreshes; 2 refresh tokens with calls of pages, 3 without; fairness | types; what is stored can be used; no refresh is refused but for its age; calls and loading end |
| `session_reload` | 1 tab, reloaded at any time | **violated**: a reload during a refresh loses the session |
| `search` | 5 choices of portals, one of them with a portal asked twice, 6 cards, pages of up to 2, every ending | failures are contained; counts add up; reasons are true and the client agrees; the second filter finds nothing; a search is answered |
| `store` | 2 listings, 2 jobs of any kind, 3 readings | torn rows only by races; nothing is emptied; reports are true; jobs end |
| `pages` | an own and a shared list, 2 refreshes, 3 calls to a list, three kinds of page | types; the active list is known; a page shows it, and a detail page patches an item of it, unless calls have overlapped a change of list or failed; loading ends |

Bounds. Every hazard of the lists needs two requests: one that has read and one
that commits in between. A third adds no new kind of overlap, because a request
reads at most twice and each read can be made stale by one commit. Key sets are
small but larger than what one request can use, so that a second list, item or
member can appear; when a table is full, the insert that needs a key is not
enabled, which only removes behaviours. `lists_two` has no dates and scores since
its properties do not speak of them; `lists_columns` has them, on one row each.
The migration's run has no dates, which a migration does not look at. `lists_migrated` has two
list keys: the upgrade and two overlapping requests can give both to one user, so that a
downgrade is refused.

In `fetch_limit` one fetch holds the lock and the other queues or comes later, and the
deadline of 5 falls in the queue, in the sleep, and at every later await; it covers an interval
for each fetch, so that the premise of `PassesInTime` holds. The theorems say so for any
number of fetches.

A tab holds at most four refresh tokens that matter. Which of them are there together
depends on its calls: `MCWebSession` chooses at the start whether the pages call the API
(`usesPages`) and keeps one token unused if they do, which leaves every pair of overlaps that
the properties speak of; with four tokens and page calls the invariants hold as well. The theorems
hold for any number.

The cards of `search` differ in everything the filters look at: price and currency, rooms, place by
locality and by title, type. Pages have two of them, and Remax and Century 21 have a second one
where their loops can tell. Of three portals each shows at most one card a page. `MaxItems`,
`FixtureCap`, `MaxScrolls` and `RowTarget` are the code's limits made small enough to bite. In
`store` any deadlock, torn row or stale write needs two jobs and two rows; `MaxStarted` lets two
start in a behaviour, in any first table. The theorems hold for any number of both. In `pages`,
`MaxCalls` bounds the calls to one list: three is a load that overlaps another and a pasted URL.

Fairness. `BrowserFetch` gives weak fairness to each fetch and to the clock: the event loop runs
every ready coroutine, and a call on a page has a timeout of its own (`set_default_timeout`), so it
returns or raises. The premise is weaker for starting and closing a browser: Playwright bounds a
launch by itself, and the code sets no bound on `close`. A prompt loop is no matter of fairness:
time does not pass while a fetch at the lock could move. `PassesInTime` holds only there.
`WebSession` is fair to the refreshes and calls of a tab: a fetch is answered or rejects, and
promises are settled. It is not fair to users, to time, or to the API's handling of a request
(`ApiAnswers` and `CallLost` are alternatives of one step). Its property is about a tab that is not
opened again for ever, since a reload drops everything. `PropertySearch` is fair to the timers of
`wait_for` and to the reply, and to no adapter; but `wait_for` also waits until the task it has
cancelled has cleaned up, so `SearchReplies` rests on `EveryFetchEnds` and its premise.
`PropertyStore` is fair to each job's own steps, and strongly fair to its write: the database queues
those who wait for a row, so a job whose row is free again and again gets it. `ListPages` is fair to
calls of `apiRequest`: `client.ts` sets no timeout, so that they end rests on the browser, as it
does in `WebSession`. Its property excuses a user who opens pages for ever. No run of the lists uses
fairness: their properties are safety.

Deadlock is checked in every run but `search`, which stops once it has answered.

## 4. Findings

1. `ensure_default_list` (`interest/deps.py:18`) can make two owned lists for a
   user, against its docstring; afterwards `scalar_one_or_none` raises in each
   request that names no list, so the user is locked out of the default list.
2. `upsert_visit` (`visits/router.py:84`) checks that a visit has a date in the
   request, but writes by column to a row that may have changed. One request clears the date
   that another has loaded and keeps; the other changes the status, so its UPDATE names the status
   alone, and the visit ends scheduled or visited without a date.
3. Zonaprop's fallback (`adapters/zonaprop/live.py:154`) sends a second request
   without waiting, against the rate stated in `services/api/README.md:57`.
4. A page that is reloaded while its refresh is under way logs the user out: the
   API has revoked the token that is still in localStorage
   (`auth/service.py:101`, `apps/web/src/auth/AuthContext.tsx:48`). `auth/tokens.ts:3`
   says that the refresh token survives reloads.
   Two tabs that load together send the same token with the same result, and the second
   one's `clearTokens` removes the token that the first has stored: the run of
   `WebSession_tab.cfg` with `Tabs = {t1, t2}` violates `SurvivesReload` too.

## 5. Proofs

Everything in the proof modules is checked by TLAPS, for every value of the
constants that satisfies the named assumptions: `NoneIsNoValue` (the null value is
not one of the values), `FetchAssumption` (finitely many fetches, natural
numbers for interval and timeout), `SessionAssumption`, `StoreAssumption` (finitely many
listings, readings are of the columns, NULL is neither a reading nor a row),
`PagesAssumption` (the user's own list is a list, at least one call), for a search
`PlacesAssumption` (None is no place), `ScrapersAssumption` (prices and rooms of a card are integers
or missing, the limits positive) and `RequestsAssumption` (a request asks for portals, and what can
become of a portal is an outcome), and for a migration `KeysForAll` (there are keys for a list and a
membership of every user: the code makes UUIDs) and `NoneIsNoLegacyRow`. TLC evaluates them all.

Every safety property of a passing run is a theorem. What a `violation` run refutes is proved,
if at all, under the restriction that makes it true (`SpecOneRequestPerUser`, `SpecUnhurried`).

`SharedListsProofs`. The properties are not inductive: a commit relies on what an
earlier step of the same request saw. The invariant `Core` therefore joins to
types and properties what a request in flight may rely on: the list it
names exists, the item it holds is still an item of that list, the row it loaded had the
same keys, a visit it inserts is for a property with an interest in the list, a member
it removes is not an owner, and its user is a member of the list or was overtaken by a
removal. These survive the steps of others because
lists and items are never deleted and key columns never change. `Inv` adds that
visits have an interest. It is apart because lists that a migration has made may lack that, and
`Preserved` says that no other part rests on it. From `Inv` follow
`TypeCorrect`, `OwnersStay`, `RowsAreUnique` and `VisitsAreOfInterest`.

`OneOwnedList` is violated by two first requests of one user, so `OneListEach` is about executions in
which a user's requests follow one another (`SpecOneRequestPerUser`). What a request has
seen then stays true until it commits: `MakersOwnNothing` says that the user of a request that is
about to make a list owns none. Another user's commit makes a list for another owner, and no
other request of the same user is there to make one.

`SharedListsStepProofs`. With one step more than `Core` one has `ColumnsMerge` and `OnlyMembersDo`.
`HandlersImplementBoard` shows that each commit is one step of `ListBoard` and each other step a
stutter. `VisitIsDated` is violated, so what is proved is how: a visit
only loses its date, and an item its time of archiving, in a commit whose request has
loaded an older row. The invariant `Prepared` says that what a handler prepares is
consistent in itself; a flush to the row that was loaded writes just that.

`BrowserFetchProofs`. `IInv` joins to the types: those waiting are exactly those in
the queue, once each, and only its head sleeps (`LockServesTheWaiting`); what is
open at each place (`HeldByPlace`); and that sleep and age of the stamp together
cover the interval (`LongEnough`). `FetchesAreSpaced` follows, because a fetch
passes either with an old enough stamp or at the end of its sleep, during which
nobody else can stamp. `NobodyTimesOutWaiting` has an invariant of its own,
`OnTime`: the age of the fetch in place i, and what is left until the next pass,
and i - 1 intervals, are together at most one interval for each fetch. It needs
that the queue is no longer than the number of fetches, which is the pigeonhole
lemma `QueueFits`. `NobodyTimesOutWhenPrompt` is the same of the specification that the runs
check, where the loop is prompt or not for the whole execution.

`WebSessionProofs`. `SessionTypes` holds of any number of tabs and whatever is reloaded. The other
two are about a browser with one tab (`OneTab`) that is not reloaded while it refreshes
(`SpecUnhurried`); without either, TLC shows `SurvivesReload` violated. The invariant `IInv` says why
the code is right there: a refresh under way was asked for with a token nobody has used
(`Current`); loadMe's refresh and the shared one never use one token (`Apart`); while
loadMe asks with the token that is stored, no user is shown and no call runs that could start the
other one (`Restful`); and what is stored is in no request that was given up (`StoredSane`).

`PropertyStoreProofs`. The invariant joins to the types, for each job: what it has still to
write is listed once and its report is what it wrote (`Good`), a row it holds is of its one reading
if nobody has changed the row since it was loaded (`Sound`), and nobody else holds it
(`Exclusive`, which is PostgreSQL's guarantee and is there only to be used). A commit then changes
rows that are still as its UPDATE left them, and `TornByRaces` and `RowsStayRich` look at one job and one
row. They are action properties with "unless another job has changed the row since it was loaded".

`ListPagesProofs`. `Coherent` is the point: unless calls have overlapped, all calls under way are
for the active list, and what a page holds while it does not load is of that list, also after a load
has failed; so is the property of a detail page whose item is being asked for. `Waits` covers the
time before there is an active list.

`ListMigrationProofs`. `MigrationInv` has a part for each revision: at 0002 no row has a list, no
two rows of a user are for one property and no request is there (`Legacy`); at 0003 what
`SharedLists` keeps, `Core`, and no row has a user (`Shared`). An upgrade turns the first
into the second because `ListId` gives each user a list of his own. A downgrade that is not refused
turns it back: a row's user is read off its list by `ListHasItsOwner`. `BothWaysSucceed` says, for any
overlaps of requests, that an upgrade is never refused, and a downgrade only when a user owns two lists,
since then two rows of one user and property may be of two lists; finding 1 is how he may come to own them.
`MigratedListsAreOneEach` says that he does not as long as requests of one user have followed one another,
whether his list comes from the upgrade or from `ensure_default_list`: the invariant adds
`inTurn => OneListInv`, of `SharedListsProofs`.
`MigratedListsHaveOwners` and `MigrationKeepsOwners` follow for any overlaps.

`PropertySearchProofs`. A reply is a function of the outcomes, and the invariant `SearchInv` says
just that: each answer is what `RunAdapter` makes of the outcome, and the reply what
`SearchResponse` makes of the answers. The proof is about these functions. `ScrapersRead`: what a
scraper returns is the reading of some cards that the portal has shown, nowhere two with one
identifier. `AnswersTell`: an answer keeps of that what the filters let through, and its counts and
reason say what was dropped. `AnswersHaveTheirDue`: every listing that is due is there, a curated
one if it fits under the cap. `MergedAre`, `RowsAddUp`: the merge takes the first row of each key,
and a portal's rows are counted in its own slice unless it was asked twice. `LastIsCounted`,
`NoneReadNoneMerged`: what an answer has read is in the total unless a later one of the same portal
has overwritten it. `NothingToDrop`: the two filters are separate implementations that agree
(`FiltersAgree`) but for the words of a query, which only the adapters look for. From `RepliesSay`
follow `FailuresStayContained`, `SlicesAddUp`, `EmptyStateIsTrue`, `ClientWorksItOut` and
`SecondFilterIsIdle`. `GonnetIsNotPilar` is the hard rule in `geo/match.py:32`. The sums over slices
are folds, hence recursive: that their sum is a cardinality (`SumCounts`) goes by a smallest set for
which it is not, from the well-foundedness of `<` on the naturals (`LeastNumber`, `SmallestSet`),
and needs no induction theorem.

Only model-checked: `EveryFetchEnds`, `CallsEnd`, `SearchReplies`, `JobsEnd` and `PageShows`, since
liveness under fairness, and ENABLED with it, is outside the prover's reach.

## 6. Not modelled

- Field parsers (`adapters/price_parse.py`, `rooms_parse.py`, `amenities_parse.py`,
  `listing_meta.py`) and the reading of HTML: regular expressions and selectors over free
  text, which examples reach better than a model.
- Scores, narratives and zone reports (`scoring/`, `zone/`): sums, clamps and wording without state.
- Geo suggestions: a search in a fixed table.
- Accounts: registering is one INSERT under a unique index; hashing and JWT encoding are
  library calls. `calendar_sync` is a placeholder.
- The search form, the results page and the autocomplete: they keep no list, and nothing in the
  repository says what two searches of one tab should do to each other.
- The connection pool: a search keeps its connection while it waits for its portals.
- Rendering, formatting, DTO declarations, settings, operator scripts, migrations 0001
  and 0002, which create tables and a column.

## 7. What the models show besides

Not contradicted by any text of the repository, and so no findings, but worth knowing:

- Zonaprop, Argenprop, MercadoLibre and Remax give every listing the locality that was searched
  for (Century 21 says "nunca la del filtro"), and three of them its rooms when a card has
  none. The filters by place are vacuous for them, and what the shared table says of a listing's
  place depends on the last search that found it.
- Portals that all answer with no listing give `all_partial`, not `no_inventory`, which is only
  reached when a portal is skipped; the client calls that mixture `all_partial` too.
- The second filter never drops anything, so the wipe that `run_search` looks for after the merge
  does not occur.
- `run_search` keeps the listings read by portal name (`search/service.py:328`) and adds that number for
  every entry of the reply (line 435). When a portal is asked twice, which nothing forbids, its later answer
  counts twice and its earlier one not at all. A reply without listings may then say that there is no
  inventory where the first answer had listings with too few rooms; `EmptyStateTells` and
  `ClientAgrees` name this as their exception.
- A search overwrites what a pasted URL has read, with an empty description, and turns the
  source to live; a backfill that loaded the row before does not turn it back.
- A backfill holds the rows it has written while it sleeps and reads further pages, so a search
  that finds one of them waits for the whole batch.
- After calls of a page that overlap a change of list, or a load that fails over rows of another list, the
  page may show rows of a list that is not the active one until a load that is alone. `ShowsActiveList`
  excuses both, and says that nothing else does it.
- A removed member keeps the list selected until the lists are fetched again. When they cannot be
  fetched and none is stored, list pages say that they load for ever.
- The detail page loads the default list while there is no active one; its answer may be shown under
  the list that becomes active meanwhile, until the next load.
- Visits without an interest item survive the upgrade to 0003.
- The late answer of the first loadMe clears a login that was quicker, and a refresh that ends
  after a logout stores its tokens (`AuthContext.tsx:54`, `:112`). A refresh that fails under a call
  of a page clears the tokens, and the user stays shown until the next reload (`client.ts:58`).
