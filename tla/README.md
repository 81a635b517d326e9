# Formal models of Smart Grocery

This directory holds TLA+ models of the services under `apps/api/src` and of the
web client under `apps/web/src`, the TLC configurations that check them and
TLAPS proofs about them. Paths are relative to the repository root; `api/`
abbreviates `apps/api/src/` and `web/` `apps/web/src/`.

## 1. The system

The API is a NestJS process (any number of replicas) over PostgreSQL (through
Prisma), Redis (caches, rate limits, BullMQ queues), Elasticsearch, S3, Stripe
and OpenAI. A request handler runs without interruption between two `await`s, and
every `await` of a database, Redis or HTTP call is a point where other handlers, other
replicas and job processors run. Almost no handler uses a database transaction,
so the unit of atomicity is one SQL statement. The web client is a Next.js
server, which keeps a session in a cookie and refreshes the API's tokens for the
browser, and pages that call the API directly and cache its answers.

| Component | State it keeps | Operations | Interacts with |
|---|---|---|---|
| Sessions (`api/auth/token.service.ts`, `api/auth/auth.service.ts`, `api/users/users.service.ts`) | refresh tokens, password-reset tokens, password hash, `deletedAt` | login, Google login, refresh, logout, forgot/reset password, delete account | authentication cache, mail, web session |
| Account identity (`api/auth/auth.service.ts`) | users, `googleId`, e-mail verification tokens | register, Google link/create, verify e-mail, resend, delete | sessions |
| Authentication cache (`api/auth/jwt.strategy.ts`) | Redis `auth:user:<id>` entries with a 60 s TTL | validate; invalidations by profile, deletion, billing, reset, verification | Redis, users, subscriptions |
| Quotas (`api/billing/quota.service.ts`) | usage counters per user, kind, SGT period | `assertAndConsume`, `getUsage`, `assertPremium` | authentication cache (tier), recipes, receipts, baskets, assistant |
| Billing (`api/billing/billing.service.ts`) | the subscription row | checkout, portal, Stripe webhooks | Stripe, authentication cache |
| Recipe pipeline (`api/recipes`, `api/ingredients`) | recipes, ingredient lines, `recipe-ingestion` jobs | create, upload, import, paste, update, reprocess, delete; the processor | quotas, storage, OpenAI, BullMQ |
| Receipt pipeline (`api/receipts`) | receipts, OCR jobs | upload, the processor | quotas, submissions |
| Price submissions (`api/prices`) | submissions, product prices | submit, consensus auto-approval, recording | ingestion, search |
| Ingestion and prices (`api/ingestion`, `api/prices`) | ingestion runs, products, prices | uploaded and scheduled runs, row upserts, recording a price | matching, search |
| Ingestion adapters and comparison (`api/ingestion/adapters`, `api/products`) | none | file to rows, prices per unit, packs for a quantity | ingestion, products |
| Ingredient lines and units (`api/ingredients`, `packages/shared/src/units.ts`) | none | lines to quantity, unit, name; grams of a quantity | recipes, pantry, baskets |
| Search index (`api/search`) | availability flag, documents, retry timer | index, sync, search with database fallback | Elasticsearch, prices |
| Product matching (`api/matching`) | product-ingredient matches, embeddings | match one product, rebuild | ingestion, OpenAI |
| Alerts (`api/alerts`, `api/notifications`) | alert rules, watches, notifications, scan locks, cron jobs | schedule, scan, notify, mark read | prices, pantry, mail |
| Pantry (`api/pantry`) | pantry items, usage log | add, update, consume, photo scan, coverage | quotas, ingredients |
| Baskets (`api/baskets`) | baskets and their items | collect requirements, subtract the pantry, save, check off | pantry, optimizer |
| Basket optimizer (`api/baskets/basket-optimizer.service.ts`) | none | four strategies over the offers | baskets |
| Meal plans (`api/meal-plans`) | plans, slots, estimated cost | generate, swap a slot, delete | recommendations, prices |
| Forecasting, analytics, recommendations (`api/forecasting`, `api/analytics`, `api/recommendations`) | forecast rows, a cache of summaries | forecast, summary, recommend | prices, baskets, recipes |
| Assistant (`api/assistant`) | chat sessions and messages | chat with a tool loop | quotas, OpenAI, most services |
| Web session (`web/auth.ts`, `web/lib/api.ts`, `web/middleware.ts`) | session cookie, access token kept in the page | sign-in, refresh, sign-out, redirects | sessions |
| Web client (`web/app/(app)`, `web/components`, `web/providers.tsx`) | cached answers, forms, mutations in flight | queries, mutations, invalidation, optimistic update | every service |

The behaviours that are hard are listed with their lines in `PROJECT.json`
under `hazards`: reads that are acted on after an await (refresh, reset,
authentication cache, pantry updates, swaps of plan slots), two statements that
should be one (duplicates of notifications, products and verification links),
jobs that are started over (recipes, receipts, imports, scans), a cursor that
outlives its row, events of Stripe out of order, budgets and packs that round,
and in the browser answers that cross each other and the user.

## 2. How the code is modelled

Every handler is cut at its awaits. One action is one database statement, Redis
command or call to an outside service, together with the synchronous code
around it; a handler keeps what it has read in a record (`req[r]`, `run[h]`,
`val[v]`) whose field `at` names the statement that comes next. So handlers
overlap exactly where the event loop and the replicas let them, and a handler
acts on rows that have changed since it read them. A failing action (`Fail`,
`FillFails`, `HandlerFails`, `MarkFailedFails`, ...) stands for a rejected
await and for the end of the process: what was written stays, the rest does not
run. Variables marked *history* in their declaration are not in the program;
they record what properties speak of and no guard reads them.

Operators commented "Mutant:" precede the definition they distort. They are
never used by a specification; each shows that a property notices a plausible
mistake in the code.

### Sessions

`Sessions.tla` models `token.service.ts`, the session half of
`auth.service.ts` and `UsersService.deleteAccount`. Rows of `refresh_tokens`
are `owner`, `parent`, `revoked` and `expired`; reset tokens are `minted`,
`used` and `lapsed`; `hasPassword` and `deleted` are the columns of a user that
decide about a login. A login is `LoginRead` (or `GoogleLoginRead`), `Issue`; a
refresh is `RotateRead`, `RotateRevoke`, `Issue`; a reset is `ForgotRead`,
`ForgotMint` and then `ResetRead`, `ResetConsume`, `ResetRehash`,
`ResetRevokeAll`; a deletion is `DeleteRead`, `DeleteMark`, `DeletePurge`;
`Logout` is one conditional update. Hashing, mail and the access token's
signature are left out.

What is hard here is that the refusals of a refresh are tested on a row read
one statement before the row is written, and that deletion and reset revoke only
the tokens that exist at that moment. The properties say what survives this:
a token with a successor is revoked (`ExchangedTokenIsSpent`), one reset link
sets one password (`ResetTokenAppliedOnce`), a reset ends every session that
existed when it wrote the password (`ResetEndsEarlierSessions`), a session
handed to a deleted account leads nowhere (`NoPosthumousRefresh`).

`SessionStore.tla` is what this comes to for a reader who does not care about
awaits: a store in which a session begins (`Begin`), goes on from a token that is
over, for the same account (`GoOn`), and ends token by token (`End`) or with all
the tokens of an account (`EndAll`), each at once and none of it undone.
`ImplementsStore` says that `Sessions` refines it: the second statement of a
refresh is an `End` and its last a `GoOn`; the last statement of a reset and of a
deletion is an `EndAll`; a login's is a `Begin`; everything else, failures
included, leaves the store alone. `ExchangedTokenIsSpent` follows from it, which
is why no run repeats it; it has a theorem of its own. The store says nothing
about *when* a session goes on after the account's sessions were ended: there the
code and its comment differ (see findings).

### AuthCache

`AuthCache.tla` models `jwt.strategy.ts` and every writer that deletes the
cache entry. The user and the subscription are one version number `row[u]`,
since the entry is replaced and deleted as a whole. A validation is `Begin`,
then `Hit` or `Miss`, `Find` or `Refuse`, `Fill` or `FillFails`; a writer is
`BeginChange`, `Write`, `Invalidate`, with `ChangeFails` and `InvalidateFails`.
`Expire` is Redis dropping the entry at the end of its TTL.

The hazard is the fill overtaken by a write. `CoherentUnlessDisturbed` says
that nothing else goes wrong: without an overtaken fill and without a lost
deletion the entry is outdated only between a write and its deletion.
`EventuallyFresh` says that the TTL heals the rest, whether the row was changed
or its user deleted.

### Meter and Quota

`Meter.tla` is what a quota promises: a counter grants at most its limit.
`Quota.tla` is `QuotaService.assertAndConsume`: `Start` computes the period key,
`Upsert` is the atomic increment that returns the new count, `Grant` and
`Refuse` compare it, `Fail` ends the call anywhere, `NextDay` is midnight in
Singapore, possibly between any two of them. A call by an unlimited tier
returns before the first statement and is left out, as are `getUsage` and
`assertPremium`, which only read.

The code counts first and compares afterwards, so that refused calls count as
well. `GrantedWithinLimit` (a theorem) says that this bounds the grants under any
overlap, `RefusedOnlyWhenSpent` that it takes no use away from anyone, and
`ImplementsMeter` that the records refine the abstract meter with one counter
per user, kind and period.

### RecipePipeline

`RecipePipeline.tla` models `recipes.service.ts` with the BullMQ processor
`recipe.processor.ts`. Handlers and jobs are actors on the same rows:
`CreateManual`, `Import` (upload, URL, paste), `Update`, `Reprocess` with
`SetProcessing` and `Enqueue`, `SoftDelete` with `MarkDeleted`; the job's
`Read`, `Skip`, `Extract`; and the rewriting that both share, `Clear`
(`deleteMany`), one `Attach` per line and `Ready`. An error leads to `Throw` or,
in the last attempt, to `GiveUp` and `MarkFailed`. Queue behaviour (`Take`,
`Settle`, `Again`, `Stall`, `Abandon`, `End`) is external, taken from the job
options: `attempts`, removal of ended jobs, and a job whose worker died starting
over with its `attemptsMade` unchanged.

`lines[i]` counts the copies of every line by origin, so that doubled, missing
and mixed lines are distinct states. `WholeWhenReady` says that retries and
stalls leave no trace in a recipe that one actor had to itself;
`ProcessingIsUnderway` that PROCESSING always has somebody behind it;
`Settles` that it ends.

### Billing

`Billing.tla` models the checkout (`Checkout`, `CreateCustomer`,
`UpsertCustomer`, `OpenSession`) and the webhooks: `Receive` is the switch on
the event type, `Retrieve` the read-back after a checkout, `BySub`,
`ByCustomer`, `ByUser` the three lookups of `findSubscriptionRow`, `Sync` the
update with its unique columns, `FindFailed` and `MarkPastDue` the failed
payment. Stripe is external: `Complete`, `Change` and `PaymentFails` change its
objects and emit events, `Deliverable` says which event may be delivered next.
The variable `delivery` is chosen once for a behaviour among the constant
`Deliveries`: "ordered" (in order and once), "replayed" (acknowledged events
again) or "any".

`RowsAreOwn` and `PremiumWasPaid` must hold whatever the delivery;
`TierFollowsStripe` speaks of ordered delivery and of a state in which
everything was delivered and acknowledged, with one subscription per user. For
two subscriptions of one user the code keeps one row that follows whichever
event came last, and promises nothing.

### Submissions

`Submissions.tla` models `price-submissions.service.ts` for one store:
`Create` inserts the row, `ReadGroup` is the similarity query with its two
early returns and the median, `Approve` the update of the agreeing rows,
`Apply` the call that records the price, `Fail` an error on the way,
`AddReceiptLine` the rows that the receipt processor creates and `Age` the
fourteen-day window. `Similar` is any reflexive, symmetric relation, which is
what `pg_trgm` guarantees; in particular it is not transitive. The median is
defined without sorting: `Ranked(group, k)` is the price with at most k below
and more than k up to it.

`PricesAreBacked`, `CountedOnceAlone`, `ApprovedIsPriced` and
`ConsensusIsApproved` relate prices, statuses and handlers over several
overlapping requests.

### BasketOptimizer

`BasketOptimizer.tla` states the pure engine `basket-optimizer.service.ts` as
operators: packs, costs, the four strategies, delivery fees, savings, results.
The code's loops keep the first of the best; each is one `Least` of a key whose
last part is the position, so ties fall as they do in the code. `Position` is
the order in which the code's maps of stores are filled. The greedy cover is
the recursive function `Selected`. The single action `OptimizeAll` fills
`results`. The properties compare the results with references that do not use
the loops: packs are enough and not one too many, and no strategy pays less for
an item than CHEAPEST (`CheapestIsLeast`), a store that has
everything is found (`OneStop`), no pair of a primary and a best second store is
cheaper than DELIVERY (`DeliveryIsBest`), only DELIVERY leaves offers out, and
never more than two fifths (`MatchedAreBought`). Names, product details and
the formatting of the results are left out. Scores are in tenths where the code
adds floating-point numbers.

### WebSession

`WebSession.tla` extends `Sessions`: one browser, whose requests to the web
server are the same `Requests` that the API's handlers serve. `SignIn`,
`GetClientToken` (`lib/api.ts`), `WatchSession` (the watcher that signs out on an
error) and `OpenPage` (the middleware) each send the cookie of the moment. `Jwt`
is the callback of `auth.ts`; when the token is about to expire it goes on with
`RefreshRead`, `RefreshRevoke` and `TokensIssued`, which are the API's
`RotateRead`, `RotateRevoke` and `Issue` of `Sessions`. `Deliver` sets the
cookie of the answer, `Lose` does not; `SendKept` is a call with the token the
page kept, `SignOut` clears the cookie alone. Time passes in units of 15
seconds: the server renews with thirty seconds left (`Skew`), the page keeps a
token for thirty (`Keep`), an answer takes two units at most (`Lag`); the token's life
is shortened from fifteen minutes to `Ttl` units.

Every overlapping request refreshes by itself with the token of its own cookie,
and whichever answer arrives last is kept. `CookieIsCurrent` says that nothing
else loses the session: as long as answers neither cross nor get lost
(`disturbed`), the cookie holds the newest token of its chain.
`TokenSentIsUnexpired` says that the two margins add up.

### WebClient

`WebClient.tla` has one table of pages (`Pages`: the queries of each), one of
mutations (`Mutations`: where they are sent from, what they change at the API,
what they invalidate, where they lead) and one of forms. A cache entry of
TanStack Query is what the page shows, whether it is stale, and the fetch under
way; an answer is the set of mutations it reflects. `Visit`, `Load` and `Peek`
open pages and what is on them, `Answer`, `Arrive` and `FetchFails` are a fetch, `Age`
is `staleTime`; `Mutate`, `Apply`, `MutationFails` and `Settle` are a mutation with
its callbacks, `ShowAhead` the optimistic update of `baskets/[id]/page.tsx` with its
cancellation and rollback, and
`OpenForm`, `FillForm` and `CloseForm` are the forms.

`OutcomeIsShown` says that once nothing is under way a page shows what the API
has and has what was done there and is still there: a missing invalidation, a
missing settling fetch or a lost rollback violates it. It excuses the page of what
was removed, which `removeRecipe`, `removeBasket` and `removePlan` leave for good, and
keys an older answer overtook (`overtaken`): one that was on its way, or the reply
of an earlier message of a conversation, which overwrites what a later one wrote.

`FormsAreKept` says when a form may close by itself. It was filed (`filed`); or a
mutation sent before it was opened succeeded (`intruded`: the handler closes
whichever form of its name is open, and one that leads elsewhere takes any form
with it); or its user pressed, beside an open form that covers nothing, what leads
elsewhere (`deserted`: opening the billing portal with the profile half edited). The
assistant's input is different: it is emptied when something is sent, and a message
that fails, or that is only a suggestion pressed while something else was
typed, leaves it empty (`emptied`). There what was typed is lost, and the property
promises nothing. A mutation sent from an open form keeps the number of the form
in `since`; that a failure closes a form is never excused.

### Platform

`Platform.tla` declares what the components on the shared database have in
common: users (numbered, for "order by id"), products, request handlers and
workers.

### Accounts

`Accounts.tla` models registration, Google sign-in with linking and creation,
verification and resent links, statement by statement against the unique
columns, and the row half of the deletion. `IdentitiesAreOwn` has four parts. Of
an account one verification link is good, unless two requests for one overlapped
and none has had the account to itself since (`racing`). A link serves once, when it
is used or when a later mail puts it out of use, however many requests have found
it good (`uses`). An account that counts as verified, or has a Google identity, is
one whose address was proved, by a link mailed to it or by Google (`proven`); the proof
may be older than the row's flag and the password older than both. And a deleted
account keeps no Google identity, unless a sign-in had looked it up before the
deletion (`relinked`). It is not claimed that whoever proved the address is the one
who registered it: see section 3.

### AlertScans

`AlertScans.tla` models rules and watches, the cron job of every replica with
its job id (`Enqueue`), the worker with its in-process lock (`Take`, `EndScan`),
the batches by cursor (`ReadBatch`, `Visit`, `GoOn`), the evaluation of a rule, the
look for a duplicate and the notification, each a statement, with workers that
die or stall. `NotifiedOnce`: two notifications of one price drop within a day
come from scans that overlapped, and a digest is sent once a day unless its scan
was started over. `EnabledAreVisited`: a scan that reaches its end has visited
every rule that was enabled all along, unless its cursor's row was disabled
between two batches.

### Receipts

`Receipts.tla` models the upload, the job over all its attempts with the lost
lock (the worker dead, or going on beside its successor), the two ways to
extract lines, and the submissions. The parser works on lines that its patterns have
cut. `LinesCountOnce`: when the queue has done with a receipt, a COMPLETED one
has submitted what it shows once and a FAILED one nothing, unless a worker broke
off.

### Catalogue

`Catalogue.tla` models imports, approvals of submissions, the recording of a
price, the search index and matching, for the products of one store: a row is
`FindProduct`, `UpsertProduct`, `RecordPrice`, `IndexPrice`, `AskMatching`, each a
statement that may fail.
Elasticsearch goes down, loses its documents and comes back; the service's
availability flag, retry timer and reconciliation are actions of their own.
`CountsAreRecorded`: the counters of an ended run are true of the catalogue.
`CatalogueIsFollowed`: matches follow the names they were made for, and a
product's document shows its latest price, unless two writes crossed or one was
lost.

### Pantry, Units and Baskets

`Units.tla` is the unit engine with a token or two of every table, in milligrams
and microlitres. `Pantry.tla` models an update as the read and the transaction
that logs against it, the photo scan item by item, and the coverage.
Entries and changes are what the schemas let through; the positions of a scan are
created in order, as many as were recognised. `Baskets.tla` extends it with the
request to optimise, as far as the optimizer, and with the saved basket.
`BasketSpec` is the two side by side. `UsageAddsUp`: unless updates overlapped, the log leads from the
first quantity to the last, and an item ends once. `BasketAndPantryCover`: what
is left to buy and what the pantry had make up what was asked for.

### PlanBuilder and MealPlans

`PlanBuilder.tla` is the greedy loop, one turn a step, so that its invariant can
be proved. `MealPlans.tla` composes it with `Scoring` and `DietFilter` to
generation and to swaps of a slot. Prices move (`PricesChange`) and recipes are edited
and deleted (`EditDish`, a statement of `RecipesService.update`, `softDelete` or the
processor) at any time, and no plan is told. `WithinBudget`: a plan keeps its budget
whenever a plan of the cheapest dish does. `PlansAreSound` has three things to say.
Whatever overlaps or breaks off, the estimate of a plan is what slots it has had
(`slotsHad`) cost by recipes and prices there have been (`past`), never a mixture.
When the last change of it has ended, well and alone (`adrift` has the others),
they are the slots it has; and unless prices moved or a recipe it holds was edited
since (`outdated`), the estimate is what the plan costs now. What is generated fills
every meal with what the user may use and the diet allows, by the recipes as they
were read, and keeps the budget if one of these recipes in every slot would.
`MealSpec` are the steps of both, for any dishes and prices.

### Assistant

`Assistant.tla` extends `Baskets`, whose data its tools read; `AssistantSpec` has
the steps of all three parts. What a query takes is a set of positions. A chat is the
stored question, the reading of the context, up to `ToolRounds` rounds of tools
and the stored reply; what the model calls is chosen by it.
`AnswersAreGrounded`: the model sees the question it answers, its context and tools hold
nothing of another user, every question was counted and every reply stands
behind its question.

### ForeignData, Scoring, DietFilter and Insights

`ForeignData.tla` reads records of price files, ingredient lines and recipe
pages after the regular expressions have cut them. `ForeignDataIsUsable`
compares what comes out with what a reader needs of it, in particular that no
row costs more than its list price. What the code walks by recursion, nested
sections and the nodes of a page, is a function on the levels up to `Nesting`. A
number is in hundredths, so that a count of 0.3, which is stored as no packets,
is among them. `Scoring.tla` and `DietFilter.tla` are the
scores (in ten-thousandths) and the diet rules (patterns as word classes).
`Insights.tla` has the forecasts, the cache of summaries, nutrition and
recommendations; fractions are carried as numerator and denominator until the code
rounds.

A forecast reads the prices of the last `HistoryDays` (365 in the code) and writes
its rows one by one; the members of `Forecasters`, the queue's worker, its second
attempt and the requests that forecast on demand, do so beside each other with no
lock, while prices arrive and days pass. The recommendations take the newest
`PoolSize` (200) of the recipes their reader may see, and look at the diet only
then. `AdviceIsSound`: each row lies between half and twice consecutive prices that the
product had, and a nearer horizon is never from older prices than a farther one,
unless forecasts overlapped and none has run alone since (`overlapped`, `alone`);
what is recommended is the reader's to see, allowed, in order, and the best of the
pool.

The summary is read by overlapping requests through a cache, over baskets that are
bought, marked again (which moves them to another month, as `updatedAt` does),
archived and deleted. `stood` has every trend there was and from when. `SummariesAreRecent`:
the trend of a summary from the cache is one that stood at some time within the last lifetime
of the cache, although older ones may overwrite newer and a request may take long to store
what it computed.

### Composition for TLC

`MCSessions`, `MCPages`, `MCBackground`, `MCHousehold` and `MCAlgorithms` put
parts together that share a run. Where parts share no state (or one holds still
while the other is examined) the variable `focus` names the part a behaviour is
about; the others stay at their first state, which spares the product of their
states and loses no behaviour of the part itself.

## 3. Runs

Bounds on counters (`MaxVersion`, `LastDay`, `MaxCount`, `MaxEvents`, `MaxRows`,
`MaxSent`, `MaxClock`, `MaxUpdates`, ...) are guards of the actions that would
exceed them. `CHECK_DEADLOCK` is off in all runs, because the bounded systems do
come to rest: all tokens are issued, all events sent, all results computed.

| Run | Configuration | What it shows |
|---|---|---|
| `sessions` | 1 user, 2 requests, 3 refresh and 2 reset tokens; token life 3 units, 3 units of time, 4 requests of the browser; 1.5 million states | Three session properties and the refinement of `SessionStore` under every interleaving and failure, and the two properties of the browser. Three refresh tokens are a session, its successor and one more; two requests are what it takes to race or cross; three units pass a token's life and both margins. |
| `sessions_relogin` | the API alone | Violated: see findings. |
| `auth_cache` | 1 user, 2 validations, 2 writers, versions 0..2, fair | Coherence, and healing by the TTL. Users do not interact; two validations and two writers give a late fill, a late deletion and a fill after both. |
| `auth_cache_deleted` | versions 0..3 | Violated: see findings. |
| `free_tier_and_pages` | counters: 1 user, a monthly limit of 2 and a daily one of 1, 2 days, 2 calls, counts to 3; pages: 2 mutations in 2 visits or 1 in 3, 1 fetch on each of nine sites; forms: 2 forms and 2 mutations on one page; 1.5 million states | Both sides of a limit and a midnight that does and does not begin a period, with the refinement of `Meter`; and two mutations that overlap, fail or cross a fetch, or one and a return to a page seen before, which is what it takes to see an answer left in the cache; and a second form opened while the mutation of the first, or one of none, is under way. A site is a group of pages that show what one another changes, and every page is on one. |
| `recipes` | 1 recipe, 1 handler, 2 jobs, 2 lines, 2 attempts, 1 stall, every fault | Two lines are enough for a partial rewrite, two jobs and a handler for every pair of actors, two attempts for a first and a last one. |
| `recipes_live` | the same without faults, fair | Every recipe settles. |
| `billing` | 2 users, 2 customers, 1 subscription, 2 handlers, 3 events, ordered or in any order; 0.8 million states | Ownership of rows, no premium that was never paid, and a tier that follows its subscription when delivery is ordered. Two users are what a row of the wrong owner takes. |
| `billing_replay` | 1 user, 1 handler, 3 events, acknowledged events sent again | Violated: see findings. |
| `submissions` | 4 rows, 3 names of which the middle one is similar to both others, prices 100 and 130, 2 handlers | Four rows make two overlapping groups of three. 130 is an outlier among 100s, and an even group of both has the median 115, with which both agree. |
| `background` | 2 users, 2 workers, 2 handlers, 2 products; batches of 1, hours 0 and 1 of a day of 2, 1 stall; a file of 2 rows with one external id, one of none, 2 approvals, 1 outage; a receipt of 4 lines, 2 attempts; 0.7 million states | Two workers overlap in a scan, two batches have a cursor between them, two rows collide, and a receipt has a first and a last attempt, and a lock lost in each. |
| `household` | 2 handlers, 2 items of 1 ingredient and 3 units, 2 updates, 1 wish, 2 chats with 2 questions and 1 tool round, 1 plan over 3 dishes with edits, 2 price tables and 4 requests, edits and price changes, 2 accounts with 2 addresses, 2 Google identities and 2 links; 2 forecasts over 2 horizons, 2 of 4 days; 2 readers, 2 baskets and 3 changes of them over the turn of a month; a pool of 3 of 5 recipes; 27 pools of 3 candidates with 6 option sets; 3 requirements and 3 stores with every one of 13 824 catalogues and delivery conditions; the files, lines, pages (nodes within nodes, one level deep) and histories of `MCAlgorithms`; 0.6 million states | Every engine over every input of its family, and the handlers of a household in pairs: two is what it takes to overlap on a row. Two forecasts over two horizons are what it takes to write a farther row from newer prices, three changes of baskets what it takes to buy, move and delete while a reader holds a summary, and five recipes make the pool leave one out that is allowed. Three stores let a cover of two fail, and two of three requirements are above the 60 percent. |

Symmetry is used over sets whose members occur nowhere by name, and never with
a liveness property.

### Fairness

`auth_cache` assumes that a handler that has begun runs on (the event loop
serves every callback, and every await settles with an answer or a rejection)
and that Redis honours `EX`. It does not assume that anybody deletes the entry
successfully: `InvalidateFails` may always be the one that happens.
`recipes_live` assumes that handlers and workers run on and that a waiting job
is taken in the end, which BullMQ's workers do. It assumes no death of a
process, since the code has no recovery from one: `stuck` in
`ProcessingIsUnderway` lists exactly those recipes.

### Findings

* *A session survives a password reset.* `api/auth/auth.service.ts:316` says
  that all devices have to log in again. A refresh that passed its check before
  `revokeAllForUser` creates the successor afterwards.
* *A deleted user is accepted.* `api/auth/jwt.strategy.ts:14` says that deleted
  users are rejected even with a valid token. A validation that read the row
  before the deletion stores it after the invalidation; for up to 60 seconds
  the entry lets the user in. A failed `redis.del` does the same.
* *A replayed Stripe event takes the row back.*
  `api/billing/billing.service.ts:226` says that an event applied twice
  converges. An old `customer.subscription.updated` sent again after a newer one
  overwrites it.

Other behaviour that the models show and no run states, as the repository
promises nothing about it.

In the API: two overlapping refreshes of one token both succeed; a reset link
that outlives an account gives the deleted row a password again; two overlapping
rewrites of a recipe leave both sets of lines; two overlapping requests can
record two prices for one group of submissions; rows from receipts wait for a
submission by hand before they can form a consensus; a receipt whose worker died
after `createMany` counts its lines twice; two importers that look up a name
before either creates it make two products of it; DELIVERY may prefer a basket
that lacks a matched requirement because it costs less; and DELIVERY falls back
on CHEAPEST, with any number of stores, when no store has 60 percent, although
`api/baskets/basket-optimizer.service.ts:183` calls it capped at two stores.

Of accounts, plans and advice: who registers an address of somebody else keeps its
password when the owner of the address links Google to the account or follows the
link that was mailed (`auth.service.ts:176` links by address whether or not it was
verified before); a Google identity linked to an account that was deleted after the
look-up stays with the deleted row, and with it nobody can sign in any more; editing
or deleting a recipe leaves the estimates of the plans that hold it as they are; two
forecasts that overlap may leave a nearer horizon on older prices than a farther
one; recipes their reader may not eat use up the pool of the newest 200.

In the web client: overlapping refreshes, or an answer that is lost, leave the
browser with a token that was exchanged before, and the next refresh signs the
user out; signing out clears the cookie and revokes nothing at the API; the time
a token expires is counted from the arrival of the answer (`web/auth.ts`), which
the margin of thirty seconds covers; a success of the item form's mutation
closes whichever item form is open by then; a message that fails is gone from the assistant's input, as is what was typed there when a suggestion is pressed; saving a plan of the optimizer and
creating a recipe invalidate no list, so that lists may be up to thirty seconds
old; and an answer to an older fetch may arrive over what a chat wrote into the
cache itself.

## 4. Proofs

Each proof module extends its component, assumes nothing but the component's
assumption on its constants, and holds for every value of the constants, of which TLC
checks one small instance. The pattern is the same everywhere: `TypeOK` is not
inductive, because a handler's next statement writes what it has in hand; the
type invariant adds what a handler holds at every step (`Held`, `Busy`,
`Standing`, `Hands`). One lemma shows that every action keeps it, with a step
per action, and each further property has an inductive strengthening of its own
on top of it.

| Module | Theorems | Inductive invariant |
|---|---|---|
| `SessionsProofs` | `TypeCorrect`, `ExchangedTokensSpent`, `ResetAppliedOnce`, `ResetEndsSessions`, `PosthumousSessionsEnd`, `SessionsAreStored`; of `WebSession`: `BrowserUsesSessions`, `SentTokenGood`, `CookieCurrent` | `SpentInv`: the token of a refresh about to issue is revoked already. `AppliedInv`: a token past its conditional update is used and in one request's hands. `EndedInv`: the sessions a reset is about to end are its own user's, and none are left once it has revoked them. `PosthumousInv`: a token of a deleted account that was issued late is never the one a refresh holds. `HolderInv`: a refresh acts for the account its token was issued to, so that with `SpentInv` issuing is a step of the store (the run has one account; the theorem any number). Beside a browser the API takes no step it does not take alone (`WebSpec => Spec`), so that all of this can be used there. |
| `AuthCacheProofs` | `TypeCorrect`, `Coherent` | `CoherenceInv`: coherence is inductive together with the users that handlers work on. |
| `PagesProofs` | of `Quota`: `TypeCorrect`, `GrantsBounded`, `RefusalsJustified`, `Implements`; of `WebClient`: `ClientTyped`, `OutcomeShown`, `FormsKept` | `Accounted`: every count up to the counter's value was granted, lost, is pending or lies above the limit, and the grants number as many as the counts they got. `Exclusive`: a pending count is nobody else's. The counts granted lie within 1 to the limit, which bounds the grants by cardinality. The refinement needs only that a grant below the limit is a step of the meter and all else a stutter. `TableIsSound`: each of the 33 rows of `Mutations` invalidates, makes anew or writes whatever it changes on its page and where it leads, and only the ticked basket is shown ahead. `CacheInv`: so an entry that is at rest, and is seen or not stale, has what is due and nothing the API lacks; an answer on its way has what was due unless it is overtaken; a reply is no newer than the API (`Applied`). `FormInv`: the form open is the newest one and no mutation knows of a newer, so that one that is submitted from a form names it. |
| `RecipePipelineProofs` | `TypeCorrect`, `NobodyForgets`, `ReadyIsWhole` | `Sole`, `Fresh`: an actor that is alone on a recipe has written exactly the lines before its own position. |
| `BillingProofs` | `TypeCorrect`, `RowsStayOwn`, `PremiumEarned`, `TierFollows` | `Own`: rows, Stripe's records, its events and every handler in flight pair users only with their own customers and subscriptions. `TierInv`: events are pending in the order they were emitted, the newest one of a subscription says what it deserves now, a handler in flight holds the first that is pending, and a row is behind only while an event is. |
| `SubmissionsProofs` | of `Submissions`: `TypeCorrect`, `PricesBacked`, `CountedOnceUnlessRaced`, `ApprovedGetsPriced`, `ConsensusFound`; of `ForeignData`: `ForeignDataRead` | `ConsensusInv`, with `Apart`: handlers that hold a common row are recorded as having raced. That the median is a number at all rests on `RankExists`: a finite group has a row of every rank, by well-foundedness of the strict subset order. `NewestInv`: while all rows cost the same, whoever submitted the newest has yet to read its group, or holds all of it, or the group is too small; a group of one price has that median and agrees with it (`MedianOfOne`). `ForeignInv`: what was read is what the reader of its kind makes of what came in; that this is usable is proved of the readers: what is picked from a sequence is its wanted elements, each once (`PickedFrom`), packs round up (`PacksForIs`), the ranks of a comparison are all taken (`ComparedIs`), nothing before a word ends the name (`WordKept`), and the search through nested nodes, a function on levels, exists and finds recipes only (`RecipeInIs`). |
| `HouseholdProofs` | of `PlanBuilder`: `BuilderTyped`, `PlansKeepWithinBudget`; of `BasketOptimizer`: `CheapestIsCheapest`, `EverythingIsBought`, `OneStopIsFound`, `DeliveryIsLeast`; of `Pantry`: `UsageIsComplete`; of `Baskets`: `NothingIsMissed`; of `Assistant`: `AnswersGrounded`; of `MealPlans`: `PlansSound`; of `Insights`: `SummariesRecent`, `AdviceSound` | `PlanInv`: the draft is one of the pools and options (`DraftOK`), the slots counted are the slots filled (`CountsOK`), and while a plan within the budget can exist, what was spent and the cheapest candidate for every slot left are within it (`RoomLeft`). The optimizer's invariant is that the inputs are what the assumptions say (`SettingOK`); the proofs are about its operators: the order of keys is total and transitive, so that a finite nonempty table has a `Least` key (`LeastIs`); a round of the greedy cover adds a store until everything is covered and changes nothing after (`CoverStep`), so that it ends with everything (`ConvenienceCovers`); a total is the sum of its parts (`TotalMerged`). `PantryInv`: an update under way holds the row as it is now unless its item was overlapped on (`EditsHeld`), two updates of one item are recorded as having overlapped (`Apart`), and the log fits the row (`LogsFit`). `WishHeld`: a request asks for each key once and its answer is what `SubtractPantry` leaves; the two counts of the pantry, one item by item and one by ingredient, are one sum (`CountsAgree`). `AssistantInv`: a message under way has a number of its own; its question is in no log before it is stored, and after that stands as many places from the end as messages overtook it (`HoldsIn`); a log has each question once (`GoodLog`); the questions stored and those still to be are no more than what was paid for (`Paid`). `MealInv`: the builder works on the dishes gathered, as they were read, for the one request that waits for it and has spent what its slots cost (`UnderWay`, `BuilderAdds`), what it built is worth its total by that menu and those prices and within the budget (`Built`); every menu and price table in anyone's hands is one there has been (`SourcesInv`, `Knows`), a change of a plan that is not adrift is alone with it and has read the slots it has (`Steady`), and a plan is explained by slots it had (`Fine`). `SummaryInv`: what a reader has read, and what is kept, stood at the time it took or later (`StoodAt`), and what a reader was given stood less than a lifetime ago; what is added to `stood` takes nothing from this (`StillStood`). `ForecastInv`: rows and what they are being written from are parts of the history (`RowOK`, `RunOK`), and a run that is alone has the rows to itself, with those it wrote the newest there are; where none overlapped every run is alone and the rows are in order (`Unmixed`). `AdviceInv`: the last recommendations are `Best` of some request; that this is the best rests on every place of an order being taken by one element (`PlaceTaken`, `PlaceIs`). |
| `BackgroundProofs` | of `AlertScans`: `AllVisited`, `SentOnce`; of `Receipts`: `LinesOnce`; of `Catalogue`: `CountsTrue`, `CatalogueFollowed`; of `Accounts`: `AccountTypesOK`, `IdentitiesOwned` | `OwedInv`: a rule still owed lies behind the cursor or among the rows in hand. `NoticeInv`: jobs of one day are one job, and a digest sent before belongs to the job that is running or to one that is over. `ReceiptInv`: what a row, its job and its worker say of one another at every step. `CountInv`: the rows an import has left are the end of its file and its counters are true of the part before (`Counts`). `NamesInv`; `IndexInv`: of a product that is not stained one price at most is under way to the index, and it is the latest. `AccountInv`: whoever is about to insert a link has invalidated the others or is marked as racing (`OneSender`), and a sign-in past its look-up by address, or past the use of a link, has the proof of the account it is about to mark. |

One assumption deserves a word. `SentTokenGood` supposes `Ttl >
Skew`: an access token lives longer than the thirty seconds that are taken off
its life. The default is 900 seconds; `env.validation.ts` asks only for a positive
number, and with thirty or less every call would refresh first and the promise be
lost.

Type correctness, `GrantedWithinLimit` and `ExchangedTokenIsSpent` are theorems
only; no run repeats them, the last because the refinement of the session store
implies it.

Five proofs corrected the model or the property they were about. A digest is
one per *scheduled* day: a job that waits over midnight is sent on the next, beside
that day's own, so that `NotifiedOnce` now compares the day of the job.
`TierFollowsStripe` needs one subscription per user: nothing in
`createCheckoutSession` keeps a user with a subscription from opening a second
checkout, and an event of the older one, found by customer, then overwrites the
row of the newer. And a reconciliation that has products left keeps its flag
(`IndexInv`), without which a second could start beside it. And `OutcomeIsShown`
held for two visits only: on a third, the page of what was removed shows what the
cache has kept of it, and the reply of an earlier message overwrites a later
one's whoever else is under way; both are now part of the model, and its run goes
to a third visit. And a count of less than half a packet, rounded to none by the
row mapper, is stored as none: the price per unit takes it for one packet, while a
comparison finds a pack of nothing and counts one; the model had the count as the
file says it, with which the price per unit could not be shown to exist.

The prover has no induction over data. Facts about sums, about the least of a
finite table and about the rounds of the greedy cover are therefore proved by
their least counterexample: the strict subset order on a finite set and the
order of the naturals are well-founded (`LeastSubset`, `LeastNat`), and a failing
case, with an element taken out or a round less, gives a smaller one. `Sum` is a
function on the subsets of a finite set, unique (`SummingUnique`) and existing
(`SummingExists`), so that the folds of the community modules equal it
(`TotalIs`, `SavingsSum`).

Only model-checked: the liveness properties `EventuallyFresh` and `Settles`,
because the prover does not handle fairness. Every invariant and every other
action property of the runs that pass is a theorem.

## 5. Not modelled

Every part is listed in `PROJECT.json` with its reason.

* Adapters (storage, OCR, mail, OpenAI, Redis, Prisma) appear only as calls that
  may fail or answer anything of a small set.
* The HTTP layer (routing, validation, error bodies, rate limits, metrics) keeps
  no state a property is about.
* The shared package is types and schemas; its unit engine is `Units`.
* Reads for display: lists, filters, paging, `getUsage`, the billing portal.
* Of the summary, the current month's totals and the shares of the stores: sums over
  the rows the trend is made of, and over receipts.
* Of matching, the administrator's rebuild and the way from an ingredient to its
  products; of ingredients, the similarity search and the list of substitutes.
* Of the web client, what pages draw, the filters of their lists, suggestions
  while typing, and the pages outside the application (sign-up, verification,
  pricing).

## 6. What is left

The alerts' promise of one notification per product and day as an abstract
specification that a single worker implements.
