# Verification of shoppinglist-back

TLA+ models of the shopping-list backend, the TLC runs that check them on small
instances, and TLAPS proofs of what matters most for every instance. Paths of
source files are relative to `src/internal/` unless they start with `src/`.

## 1. The system

A Go HTTP server over PostgreSQL (READ COMMITTED). Every request runs in its own
goroutine: middleware, handler (`handlers/`), service (`service/`), and a
sequence of SQL statements (`repository/`). Almost every statement commits on
its own; only accepting an invitation and merging two goods use a transaction.
A background goroutine prunes old tombstones. Clients are offline-first: they
choose the ids of what they create and converge through incremental sync.

| Component | State | Operations | Interacts with | Hard behaviour | Correct when |
|---|---|---|---|---|---|
| Lists and items (`service/lists.go`, `repository/list.go`, `listitem.go`) | `shopping_lists`, `list_items` | create or rename, delete; add, patch, delete an item | membership (access), catalogue (goods of an item), pruner, sync | access check and write are different statements; client-chosen ids are reused after pruning; patches from stale copies | items belong to their list's author; only editors change them; no patch undoes another; deletions stay visible |
| List sharing (`service/sharing.go`, `repository/share.go`, `invitation.go`) | `list_shares`, `list_invitations` | create or revoke a link, accept it, change or end a membership, leave | lists, pruner, sync | one transaction against single statements, row locks, repeated accepts | a membership begins only by an unspent link; a used link made a member; no author is a member |
| Tombstone pruner (`app/pruner.go`) | none | four deletes every sweep | cascades over lists, items, memberships, links | runs beside every handler; a statement may fail alone | never touches what a running handler builds on; never early |
| Goods and merge (`service/goods.go`, `merge.go`, `repository/good.go`, `canonical.go`, `merge_guard.go`) | `goods` with `merged_into` | create, rename, merge | offers, items, identities, sync | merge resolves and checks for cycles before its transaction opens | every chain of merges ends at one good; nothing points at a merged good for good |
| Offers and prices (`service/offers.go`, `pricing.go`, `repository/offer.go`, `price.go`) | `offers`, `price_records` | create or touch an offer, record a price | goods, stores, merge | probe and insert are different statements; the unique index holds deleted offers too; repeated requests of an offline client | one live offer per owner, good and store; no price is recorded twice; prices follow the offers a merge folds |
| Identities (`service/identity.go`, `repository/identity.go`) | `good_identities` | upsert | goods, merge | races the merge that moves it | each code leads to a canonical good |
| Stores, categories (`service/stores.go`, `category.go`) | `stores`, `categories` | create, rename | goods, offers | an upsert by id over another owner's row | no row changes its owner |
| Upserts (the `POST` handlers of `handlers/api.go`, one service each) | none beside the rows | create or overwrite under a client's id | every table | requests are repeated, lost, delayed and overlap; probes see the own rows, inserts meet everybody's | an id is its first writer's; an answer says what happened; a retry does no harm |
| Incremental sync (`handlers/api.go`, `repository/accessible.go`) | the client's watermark and replica | `POST /sync/batch` | every table | the reads of one answer are separate statements; rows commit after the watermark | a replica that keeps syncing converges |
| Rate limiter (`middleware/ratelimit.go`) | buckets by client key | take a token, evict | HTTP pipeline | eviction of idle buckets, rest of an interval carried over | no client exceeds burst and rate, none is refused what the rate has earned |
| HTTP pipeline (`app/server.go`, `middleware/`, `metrics/`) | per-request context | recover, auth, limit, log, count | handlers | a panic unwinds through the middlewares; requests wait for connections | every request is answered once and counted as answered; probes answer when nothing else does |
| Process lifecycle (`src/cmd/server/main.go`, `migrations/`) | listener, pool, pruner | start, signal, shut down | pruner, server | shutdown races the pruner, open requests and hung statements | nothing runs on a closed pool; a signal ends the process |

## 2. Plan

Done:

1. `Sharing`, `Membership`, `MCSharing`: sharing, lists, items and the pruner, the
   part with the most interleavings and the only one where one user's requests
   change what another may do; `SharingProofs` for its inductive invariant.
2. `Catalog`, `PriceBook`, `MCCatalog`: merges, offers, prices and codes.
3. `Sync`, `MCSync`: one device's copy against `POST /sync/batch`, with writers
   that commit late and memberships that come and go.
4. `RateLimit`, `MCRateLimit`, `RateLimitProofs`: the keyed token buckets and
   the limit they keep.
5. `Server`, `MCServer`: the life of the process, the middlewares and the
   connection pool.
6. `Upserts`, `Register`, `MCUpserts`: every table's upsert against clients that
   repeat, lose and delay requests.

7. Proofs (section 6): every invariant and action property of the passing runs,
   and the refinements of `Membership`, `PriceBook` and `Register`, in a module
   of proofs per component.

To come, in this order:

8. More of `Sync`: the caller's own catalogue, prices moved by a merge, pruned
   lists; the catch-up split into an abstract replica that it implements.
9. Merge candidates and price likeness as operators against a reference.

## 3. What is modelled

The database runs at READ COMMITTED and the handlers hold no state between
requests, so a behaviour of the system is an interleaving of SQL statements.
`Sharing` and `Catalog` give every running handler a *request slot* (`reqs[r]`) with a
program counter and the local variables the handler carries from one statement
to the next. An autocommitted statement is one step. A handler whose first
statement finds nothing changes nothing, and has no step. `Fail` ends a request
at any point: a statement that fails, a client that hangs up, a process that is
killed; an open transaction is rolled back, which its writes being invisible
until the commit makes a plain `End`.

### Sharing (`Sharing.tla`)

| State | Code |
|---|---|
| `lists`, `items`, `shares`, `invs` | the tables `shopping_lists`, `list_items`, `list_shares`, `list_invitations`; a row is `absent`, live, or a tombstone with the time of its deletion |
| `issued` | the tokens drawn so far; 128 random bits are never drawn twice |
| `now` | the clock; `Tick` keeps requests younger than `MaxRequestAge` |
| `reqs` | the handlers in flight |
| `editors`, `said` | history, read by no action: who ever could edit the list, and the value last given to each column |

| Actions | Code |
|---|---|
| `UpsertListProbe`, `UpsertListInsert`, `DeleteList` | `UpsertShoppingList`, `SoftDeleteList` |
| `CreateInvitationCheck/Insert`, `RevokeInvitation` | `CreateInvitation`, `RevokeInvitation` |
| `AcceptBegin`, `AcceptTakeToken`, `AcceptTakeShare`, `AcceptReadList`, `AcceptCommit` | `AcceptInvitation`, the one transaction: the token and the membership it has written stay locked until the end |
| `ChangeAccessCheck/Update`, `RevokeShareCheck/Update`, `LeaveList` | the author's and the member's changes of a membership |
| `AddItemBegin`, `PatchItemRead`, `DeleteItemRead`, then `ReadAuthor`, `ReadMember`, `ReadOwner`, then `AddItemInsert`, `PatchItemUpdate`, `DeleteItemUpdate` | item handlers: read, access check in up to three statements, write |
| `PruneLists`, `PruneItems`, `PruneInvitations`, `PruneShares` | the four statements of a sweep, cascades included, in any order and any of them failing |

`Membership.tla` says what sharing promises with no tables in it: a role on a
list comes from spending an open ticket of that list, once, and from nothing
else. `ImplementsMembership` maps the tables to it.

### Catalogue (`Catalog.tla`)

| State | Code |
|---|---|
| `merged` | `goods.merged_into` |
| `offers` | `offers`: live, or deleted by the merge that folded it |
| `prices` | `price_records`: the owner and the offer |
| `idents` | `good_identities`, by its primary key |
| `reqs` | the handlers in flight |
| `outdated` | history, read by no action: a handler has written for a good or an offer that a merge took away after the handler had read it |

| Actions | Code |
|---|---|
| `MergeBegin`, `MergeTarget`, `MergeCheck` | the two resolves and the cycle check of `MergeGoods`, before its transaction |
| `MergeMark`, `MergeTouch`, `MergeDeadlock`, `MergeCommit` | the transaction: the row locks on source and target, PostgreSQL's deadlock detection, and the moves of offers, prices and codes, which become visible together |
| `OfferResolve`, `OfferProbe`, `OfferInsert` | `UpsertOffer` |
| `PriceReadOffer`, `PriceInsert` | `AddPriceRecord` |
| `IdentityResolve`, `IdentityUpsert` | `UpsertGoodIdentity` |

`Path`, `Chain` and `Canon` are the recursive query of a resolve, cut at
`MaxDepth` (64 in the code). Whatever `MergeCommit` does between its last lock
and the commit waits for no other request, except where a single statement of
another request is ahead of it, and nobody sees it before the commit; so it is
one step. An insert that the code would make wait for the merge, on the unique
index, comes after it in the model.

`PriceBook.tla` is the promise: a good has one representative, a merge joins two
of them, a price stays under its good and store and moves only with a merge.
The code keeps it, and keeps offers unique and merged goods empty, until the
first outdated write: the resolve or read of an offer, price or code handler and
its insert are separate statements, with no lock over both (section 5). The
properties say so: each holds while `outdated` is false, with merges and the
other handlers interleaved in every way.

### Incremental sync (`Sync.tla`)

| State | Code |
|---|---|
| `now` | the clock of server and database, assumed one; each reading gives another time |
| `lists`, `items`, `share`, `goods` | the rows with their `updated_at`, seen from one caller: whether the caller is the author, the caller's own membership |
| `writes` | when each statement or transaction under way began, which is its `now()` |
| `sync` | the `POST /sync/batch` under way: `serverTime` and what it has read |
| `device` | the client's copies, and the `server_time` it was last told |
| `late` | history: a write was committed behind a sync's back |

| Actions | Code |
|---|---|
| `WriteBegin`, then `PutList`, `DropList`, `AddItem`, `PatchItem`, `DropItem`, `Join`, `ChangeAccess`, `Leave`, `TouchGood`, `MergeGoods` | the statements of `repository/` that set `updated_at`, by whoever issues them: they take the time when they begin and are seen when they commit. An item is added, and a link accepted, on what an earlier statement saw of the list, so the list may be deleted by then. A merge is another owner's, and takes the items of the lists that owner has authored, deleted ones too |
| `SyncBegin`, `ReadGoods`, `ReadLists`, `ReadItems`, `ReadDeletedItems`, `ReadDeletedLists`, `ReadShares`, `SyncAnswer`, `SyncFail` | `postSyncBatch` and the queries of `repository/accessible.go`, in their order |

What the client does with an answer is not in the repository. The model assumes
what the comments on the response ask for: take over what came, then drop what
is deleted, and drop a list with its items when the membership is revoked.

### Rate limiter (`RateLimit.tla`)

| State | Code |
|---|---|
| `buckets`, `lastSweep` | the fields of `keyedLimiter`; a client without a bucket has `NoBucket` |
| `now` | `time.Now()`, in ticks; `take` reads it twice, the second time up to `Slip` later |
| `from`, `served` | history: an observer that began to count one client's admitted requests at any moment |
| `admitted`, `refused` | history: when each client was last let through and last refused |

`Take` is `take`, which holds the mutex throughout: the lazy sweep (`Swept`), the
new bucket (`Found`), the refill by whole intervals (`Refilled`) and the token.
`Interval` is `time.Second / rps`, at least a millisecond. Which header gives the
key is left out. `EvictionAssumption` says that a burst is earned again within
`evictAfter`. The code does not enforce it: with `RATE_LIMIT` below
`RATE_LIMIT_BURST / 600` an evicted bucket comes back fuller than it would have
been, and a client gets more than the rate.

### Process, pipeline and pool (`Server.tla`)

| State | Code |
|---|---|
| `phase`, `code` | where `main()` is, and its exit code |
| `stopping` | the context of `signal.NotifyContext` is cancelled |
| `http` | the goroutine of `ListenAndServe`: not yet listening, open, closed by `Shutdown`, failed |
| `pool` | `pgxpool`: none, open, closing, closed |
| `pruner` | the pruner's goroutine: between statements, in one, in one that hangs, waiting for the ticker, ended |
| `reqs` | per request: the middleware it has reached, statements left, whether it holds a connection, the status sent and the status the metrics have noted |
| `total` | `requestsTotal` of the metrics |

| Actions | Code |
|---|---|
| `Connect`, `Migrate`, `Listen`, `Signal`, `Shutdown`, `Drained`, `DrainTimeout`, `ClosePool`, `PoolClosed` | `main()` in its order, `Shutdown` with its deadline, the deferred `pool.Close()` |
| `PrunerBegins/Next/Rests/Wakes/Hangs/Fails/Ends` | `StartTombstonePruner` |
| `Accept`, `RateLimit`, `BearerOwner` | the middlewares on the way in; `/health`, `/version` and `/metrics` pass both |
| `AskPool`, `Acquire`, `StatementEnds`, `StatementFails`, `StatementHangs`, `ProbeTimesOut` | a statement of a handler: the wait for a connection, the statement, its end; a transaction keeps the connection |
| `HandlerAnswers`, `HandlerPanics`, `Return`, `Recovered` | the answer through the status-noting writers, the counters, the recovery |

A request is an API call (any number of statements up to `MaxStatements`, in
transactions or not), a `/health` probe (one ping with two seconds for it) or
`/version` (none). What statements do is in the other modules. pgx gives a
connection back on every exit path of a handler, panics included, because rows
and transactions are closed by deferred calls; that is assumed.

### Upserts (`Upserts.tla`)

| State | Code |
|---|---|
| `kind` | which table the behaviour is about: categories, goods, stores, lists, offers, prices or items |
| `row` | the row under one client-chosen id: its owner, what was written, whether it is deleted, whether a merge moved it to another offer |
| `twin` | another offer of one of the clients for the same good and store, for the unique index over owner, good and store |
| `refs` | whether the rows this one refers to can be found: the category of a good, the good and store of an offer, the offer of a price, the list of an item |
| `timed` | whether the clients send `recorded_at` with a price; without it the server takes the time of the request |
| `copies` | requests and answers on their way, each with the client's write it carries and the program counter of its handler |
| `client` | what each client last wrote and was told of it |
| `late`, `done` | history, read by no action |

| Actions | Code |
|---|---|
| `PostCategory`, `PostUpsertGood`, `PostUpsertStore`, `PostUpsertList`, `PostOffer`, `PostPriceRecord`, `PostListItem` | the handlers of `handlers/api.go` |
| `UpsertCategory` | the single `INSERT ... ON CONFLICT` of categories |
| `ReadCategory`, `ReadGoodAndStore`, `ReadOffer`, `ReadAccess` | what is looked up first, and how its absence is answered |
| `Probe`, `ProbeOffer`, `ProbePrice` | the probe for the caller's own row |
| `Insert`, `InsertReturning`, `InsertOffer`, `AdoptOffer`, `FindOfferByTriple` | the insert and what follows a unique violation |
| `UpdateReturning`, `UpdateList`, `TouchOffer`, `ReadRow`, `ReadItem` | the update of a row that was there, the row as it is answered |
| `Write`, `Send`, `Lose`, `Receive` | the client and the network: a request goes out as often as it is not answered; it, its handler or its answer may be lost at any point |
| `RefsAppear`, `RefsGo`, `Remove` | what other handlers do to the row and to what it refers to |

`Register.tla` is the promise: an id is a register that belongs to its first
writer; only that writer may overwrite it, and only where the table can be
edited; "ok" is said only of a write the register has held since the client
made it, "conflict" only when the id, or the pair of an offer, is taken.

## 4. The runs

| Run | Instance | Shows |
|---|---|---|
| `members` | 2 owners, 1 list, 2 links, 2 requests, no ticks, fair | every interleaving of the membership handlers implements `Membership`; no author becomes a member; every request ends, whoever holds the rows it waits for |
| `clock` | 2 owners, 1 list, 1 item, 1 link, 2 requests, 5 instants | links expire, tombstones are pruned and ids of lists and items are taken again while requests run: the inductive invariants `SharingInv` and `StandingInv`, rows under the right author, used links made members, no accept the pruner could wait for, no unauthorised write, no tombstone removed early or revived |
| `edits` | author and member, one item of two columns, 2 requests, 2 instants | no patch undoes another; a write is by somebody who had the right when the request came in or later |
| `catalogue` | 1 owner, 3 goods, 3 offers, 1 price, 1 code, 2 requests | merges, offers, prices and codes racing, each broken off anywhere: each good is merged once, the catalogue implements `PriceBook`, offers stay unique and merged goods empty but for outdated writes; deleted offers never block a pair |
| `cycle` | 3 goods, 2 merges at a time | **violated**: two opposite merges leave a cycle |
| `twin` | 2 goods, 2 offers, 2 requests | **violated**: two live offers of one good and store |
| `listed` | 2 owners, 2 offers, 1 request | **violated**: a price on another participant's offer is in no answer to its owner |
| `sync` | 1 list, 1 item, 2 goods, 1 write at a time, 8 instants, up to the first late write | what a sync misses because it happens between two of its queries, or because it failed, the next sync delivers; memberships that end and begin again take old rows away and bring them back; items change their good by a merge |
| `overtaken` | 1 list, 1 item, 1 good, 7 instants | **violated**: a write that begins before the watermark and commits after its query is never delivered |
| `limiter` | 2 clients, burst 2, interval 2, eviction after 3, sweeps every tick, 7 instants | in every period of every client, burst and rate bound what is let through; a client is refused only within an interval of being served |
| `server` | 2 requests of every kind, 1 connection, 2 statements each, fair | one status per request, counted as it was sent; requests are drained before the pool closes; while nothing hangs every request is answered; probes are answered even then; a signal ends the process |
| `upserts` | 2 clients, 2 bodies, 2 copies on their way, 2 writes each, each of the 7 tables | the id implements `Register`; an acknowledged write stands unless a delayed older copy comes after it; a lone client's conflict is with its own stored row |

The bounds. Two requests at a time are enough for every race of one
statement with another and for every wait of two transactions; the locks form
no chain of three, since a transaction holds at most two rows and takes them in
one order except for crossing merges. One list is enough for what concerns
sharing, as no guard relates two lists. `members` has two links, for a membership
that ends and begins again and for two accepts that meet on one membership. Two
owners are the author and a recipient; whether a link is used twice by one
recipient or by two, the second waits on the same row and finds the same status,
and the author who tries the own link and is rolled back is the caller that lets
the waiter through. The proofs of `SharingInv` and what follows from it are for
any number. Three goods
are the least in which a merge chains on another while a third waits. `clock`
ends after `TombstoneRetention` and one more tick, so that ids are pruned and
used again; retention is three ticks there, a link's life one, which keeps
`RetentionAssumption`, as thirty days, seven days and seconds do in the code.
`MaxDepth` is never reached in the passing runs: the longest chain of three
goods has two merges. One more merge in a row than `MaxDepth` and the first good
does not resolve (`ChainsEnd` fails with one request at a time when `MaxDepth`
is 2 and there are four goods): the same finding stands for 64, as the guard of
`merge_guard.go` looks at the chain of the target, which is canonical and has
none.

In `sync`, one write at a time beside one sync gives every order of a write's
beginning and commit around the queries; two writes at a time only add orders in
which neither knows of the other. Eight instants are enough for a list to be
created, filled, shared, synced, revoked, shared again and synced again. The
clock ends every behaviour, so deadlock is off there. Nothing is claimed of a device
once a write was committed behind a sync's back, so TLC does not continue from such a
state (`Undisturbed` in `MCSync`); that the types are right there too is proved.

In `limiter`, seven instants are more than three intervals and one eviction with
refills on either side of it; the limits for all values are proved. In `server`,
one connection for two requests and the pruner is the scarcest pool, in which
any handler that kept a connection while asking for one would stop; two
statements make a transaction that spans a wait. The process ends, so deadlock
is off. In `upserts`, two copies are the least that overlap and the least of
which one can be late; two writes by a client make a newer and an older one, two
clients an owner and a stranger. Once every client is answered nothing need
happen, so deadlock is off there too.

Symmetry is used for ids that the specification only compares; not in the runs
with liveness, and not for the good's owner. Deadlock is checked in the runs of
`Sharing`, in `listed` and in `limiter`; with two merges at a time it is off,
because in a cycle of all the goods nothing resolves and the model has no
further step.

Fairness. In `Sharing`, `SF_vars(Advance(r))`: a handler that runs takes its next
step, because PostgreSQL answers each statement and the handler waits for nothing
else. It is strong because of row locks: a waiter is granted the lock in turn and
not passed over each time it is free. Nothing is assumed of arrivals, failures,
the pruner or the clock. In `Server`, weak fairness of `main()`, of the
goroutines' own steps and of a statement's end or failure, and strong fairness of
`Acquire(r)`, because the pool serves its waiters in order. Nothing is assumed of
what hangs, of the migrations, of the clients or of signals: `SignalEnds` leaves
out the migrations, which do not look at the context, and `RequestsAnswered` the
behaviours in which a statement hangs, for no statement has a timeout
(`DB_QUERY_TIMEOUT` is read and used nowhere).

## 5. Findings

`cycle`, `twin` and `listed` are statements of the docs that the code does not
keep, `overtaken` one of a comment (`handlers/api.go:1115`); PROJECT.json quotes
them. `overtaken` needs no long wait: any statement in flight when `serverTime`
is taken will do, and an accept or a merge, whose `now()` is the start of a
transaction of several round trips, makes it likelier. `ListsCatchUp`,
`ItemsCatchUp` and `GoodsCatchUp` show that nothing else is lost. The same race as in `twin`, resolve first and
write later, leaves a code under a merged good (`service/identity.go:12`) and a
price on a folded offer (`service/pricing.go:19`, `EveryRecordListed` also fails
with one owner and two requests).

What else the models brought to light, without a run of its own:

- The docs ask for idempotent operations (`src/docs/business-analysis.md:156`),
  and a repeat never does harm (`ImplementsRegister`), but it is not always
  answered like the first: a repeated `POST /list-items` is a 409; so is a
  repeated price without `recorded_at`, unless both arrive in one millisecond, or
  one whose offer a merge has folded, unless the folded offer answers 404 first. `ConflictIsOwnCopy` is what a client
  may conclude.
- "Last write wins" (`src/docs/business-analysis.md:157`) is by arrival: a delayed
  copy of an older write overwrites a newer one that was acknowledged.
  `LastWordStands` excludes exactly these.
- A handler that panics is in neither the counters nor the access log, though
  `metrics/metrics.go:49` says "every request"; requests refused with 429 or 401
  are counted but not in the access log.
- When the port cannot be had, the process logs the error and exits with 0.
- `POST /offers` has a branch for a triple with the same id
  (`service/offers.go:81`) that no interleaving reaches: the row was not there one
  statement before, and no copy can insert it beside the offer that refused this
  one.
- `GET /lists/{id}` reads items without looking at their `deleted_at`
  (`repository/listitem.go:101`), and `GET /goods` without `updated_since` stops at
  200 goods. Reads are not modelled.

## 6. The proofs

`SharingProofs.tla`, from `ConstantsAssumption` and `RetentionAssumption` and for
any number of owners, lists, items, links and requests:

- `InvariantHolds`: `Spec => []SharingInv`. `RowsBelongToAuthor` and
  `PrunerMeetsNoOpenAccept` are not inductive alone: a handler carries an owner
  or a link it read some statements ago. `SharingInv` adds what keeps that
  knowledge true. `Carries`: each program counter has its variables, and no
  request is older than `MaxRequestAge`. `HoldsList`: a list that a handler is
  about to write under is still there with the same author, and if it was
  deleted, not before the request came. `HoldsToken`: a link that an accept has
  locked had not expired when it was read. `LinkTimes`: a link is made at the
  latest one request after its list's deletion. The pruner then cannot reach
  what a request holds, because `TombstoneRetention` covers the life of a link
  and two requests.
- `TypeCorrect`, `RowsBelong`, `AuthorStaysOut`, `NoWaitForPruner` follow from
  it, and so does the action property `TombstonesStay`.

In `SharingProofs` there is one lemma per action, on top of a few about moving one request
(`OneRequestMoves`, `OneRequestEnds`, `NoRequestMoves`).

`RateLimitProofs.tla`, from `LimiterAssumption` and `EvictionAssumption`, for any
number of clients and any burst and rate:

- `LimiterInvariant`: `Spec => []LimiterInv`. `Bounded` counts what was let
  through since an observer began, and says nothing of the bucket, so it is not
  inductive. `ClientInv` adds the bucket's worth: its tokens after a refill, in
  ticks, and the part of an interval it has saved come to no more than what the
  observer has still to expect. A refill is neutral to it (`RefillFacts`), a token
  taken moves an interval from one side to the other, and forgetting a bucket is
  harmless because it would be full again by then (`SweptFacts`, the one place
  where `EvictionAssumption` is used). Its last part ties a bucket that is not
  full to a recent admission, for `RefusedOnlyWhenSpent`.
- `LimiterBounded`, `LimiterRefusals` and `LimiterTypes` follow.

`StandingProofs.tla`, from the same assumptions. What an editor may do, a used
link and the columns of an item each say something of a history, and none is
inductive. `StandingInv` adds what ties the history to the tables, and is
inductive next to `SharingInv`:

- `TakenLink`: a link that an open accept has taken is its alone, still pending
  and still with the access that was read. `UsedLink`: an accepted link has its
  member, or had one who has gone since.
- `EditorRequest`: after a check of the access, the handler's list and item are
  there, and its caller's membership is active or ended after the request came
  (`ListHeld`, `ItemHeld`, `Standing`). `EditorsKnown`: authors and editing members
  are in the history `editors`. The history is forgotten with its list; the part
  about ends "after the request came" is what keeps the pruner from taking list
  or membership from under a handler.
- A step either moves one request (`OneMoves`) or writes tables (`TablesStep`,
  which says of each row what may become of it). Each action is shown to be one
  of the two, and the invariant is kept by any step of these kinds, so no action
  is looked at twice.
- `StandingHolds`, `LinksMakeMembers`, `PatchesKept` and `EditorsEdit` follow.

`MembershipProofs.tla`: `SharingImplementsMembership`. The mapping gives a list
its author, an owner the role of the row in `list_shares`, a link its ticket.
`UpsertListInsert` is `Create`, `CreateInvitationInsert` is `Issue`, `AcceptCommit` is
`Join`, `ChangeAccessUpdate` is `ChangeRole`, `RevokeShareUpdate` and `LeaveList` are
`Leave`, `RevokeInvitation` and `PruneInvitations` are `Void`, `PruneLists` is `Forget`;
all others change nothing that `Membership` speaks of. The step that needs the
invariants is the commit of an accept: the ticket it spends must still be open,
with the access it was taken with (`TakenLink`), for a list that still has its
author (`HoldsList`).

`CatalogProofs.tla`, from `CatalogAssumption`, for any goods, offers, prices, codes
and requests:

- First the resolve. `Canon` follows a recursive function along the pointers;
  `SetInduction`, which is the library's well-founded induction said of a set and
  not of an operator, makes induction over the length of the walk possible.
  `ResolveFacts`: what is found is an unmerged good of the same owner. `WalksJoin`:
  after a merge, walks that ended at the source end at the target and the others
  where they did.
- `Invariant`. `LocksExclusive` and `MergeSound`: the source that a merge has marked
  is still unmerged when it commits, which is `MergedOnce` and what no statement of
  the transaction looks at again. `UniqueOffers` is the unique index, deleted offers
  included. With them `TombstonesOnMerged` and `MergedGoodIsEmpty` are inductive.
- `DeletedWithTheirGood`, `MergeTakesAll`, `GoodsMergeOnce`, `PricesFollow` and
  `OneOffer` follow; the last because live offers are of unmerged goods, which
  resolve to themselves.
- `GoodsResolve`: up to the first outdated write the merges are a forest (`Forest`),
  because each joins two goods that are not merged, and its chains are no longer
  than the goods merged are many. So every good resolves as long as no handler
  writes what a merge has outdated and no more goods are merged than the resolve
  follows, 64 in `canonical.go`. The cycle of the run `cycle` is such a write: the
  crossing merge that commits second goes to a good that is merged by then.
- `CatalogImplementsPriceBook`: `Spec /\ [](outdated \/ ChainsEnd) =>
  ImplementsPriceBook`. A merge commit is `Merge`, the insert of a price `Record`, the
  rest changes nothing a representative or a price's place depends on. The
  condition cannot be dropped: a good whose chain outgrows the resolve has no
  representative to map to. `SmallCatalogIsPriceBook` drops it for catalogues of at
  most `MaxDepth` goods, as the run `catalogue` is one.

`ServerProofs.tla`, for any number of requests, statements and connections:
`Invariant` puts together what each middleware may have sent by where the request
is (`Sound`), and what server and pool may be doing by where `main()` is (`Phases`:
the pool closes after the last request, exit code 0 after the pool). Every step of a
request is `Quiet`, but for the return through the metrics, where one counter and
the set of requests it stands for grow by one. `TypeCorrect`, `ClosesInOrder`,
`CountersAgree` and the action property `OneStatus` follow.

`UpsertsProofs.tla`, from `UpsertsAssumption`, for any number of clients, bodies,
writes and copies:

- `Invariant`. `CopySound`: a copy carries a write its client made, and of the
  client's latest write the same body; a handler that goes on to touch or read the
  row has seen the client's wish granted (`done`). `ClientSound`, `RowSound` and
  `DoneSound` say the same of the answers, of the row and of `done`.
- `HandleCases` is the case split over seven tables and their statements, once:
  each statement is `Reading` or `Storing`, and what follows uses only that.
- `LastWord`, `OwnConflict`; and `UpsertsImplementRegister`, where `Write` is `Wish`,
  a storing statement `Store`, `Receive` `Tell`, `Remove` `Remove`, and the rest is
  nothing. `UpsertsAssumption` keeps `Null` apart from rows and answers, which the
  mapping compares.

`SyncProofs.tla`, from `SyncAssumption`, for any lists, items, goods and writers:

- `ListsCatchUp` and its likes speak of lists that have settled, and a rename
  unsettles a list without making its items unknown. `DeviceKnows` is therefore
  finer: an item is known by its own time and that of the membership, whatever
  the list's; nothing is left of a list the caller has no part in, nor of a
  deleted one, unless its membership is newer than the watermark: an accept may
  commit after its list was deleted.
- `SyncSound` says the same of a sync under way, table by table once it has been
  read, up to the stamp: what a row that ended before the watermark has left is
  gone already, and what ended after it will be in one of the later queries
  (`DeletedItemRead`, `DeletedListRead`, `ShareRead`). One operator states both,
  `ListKnown(copies, l, t, d)` with `d` the time from which endings are still to be
  asked for; on a device it is `t`.
- `Clocks`: each reading of the clock is another, so that a write that is not
  `late` began after the watermark and, past the first query, after the stamp. A
  commit then only moves rows past both (`ListStays`, `ItemStays`, `GoodStays`,
  `GoneStays`).
- `QueriesFind` and `QueriesFindGone` are the queries of `accessible.go`: without
  "or the membership is newer" they fail. `SyncAnswerKeeps` puts the answer
  together. `TypeCorrect`, `ListsFollow`, `ItemsFollow` and `GoodsFollow` follow.

All inductive invariants were model-checked first, on the instances of section
4. Only model-checked: the liveness properties (`RequestsEnd`, `SignalEnds`,
`RequestsAnswered`, `ProbesAnswered`), since the proof system does not reason
about fairness and `ENABLED` here, and the four violated statements, whose
counterexamples TLC gives.

## 7. What is not modelled

- In `Sharing`, `Catalog` and `Sync`: answers and error codes, and retries; a
  request repeated by a client is another request there. They are in `Upserts`.
- Names, categories, amounts, units, display names: no guard of the modelled
  code depends on them.
- In `Sharing` and `Catalog`, the goods of list items, which a merge also moves
  (`Sync` has that). The reads (`GET`), which change nothing, with the exception of
  `Listed`.
- In `Upserts`: blank names and malformed bodies, which are refused before any
  statement; merged goods, whose renames go to the good they were merged into;
  the tombstones the pruner removes (`Sharing`). What the rows refer to is one
  `refs` for all clients and bodies, though a good, a category or the access to a
  list may be there for one body or client and not for another: an answer that
  something is missing stores nothing and says nothing of the id, so no property
  compares two of them.
- Stores are never merged by the code.
- In sync: the caller's own catalogue, whose queries have the same form without
  a membership; foreign stores, offers and prices, which follow the rule of
  foreign goods; devices that stay away longer than `TombstoneRetention`; what
  becomes of a good's `merged_into` (a merge there gives both goods a new time and
  re-points items).
- In `Server`: what is logged, request ids, body limits (too large a body is
  answered 413, though `middleware/maxbody.go:9` says 400), durations and the
  exposition of metrics, connections kept alive between requests.
- Name normalization: a pure function on strings with tests of its own; no model
  tells two names apart. Merge candidates: a search and three buckets.
- Migrations, configuration, decoding, logging: no behaviour over time.
