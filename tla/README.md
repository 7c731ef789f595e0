# A verification project for `firstgo-back`

`src/` is the REST back end of a small restaurant: a Go program (gin,
`database/sql`, MySQL) that serves a menu, takes orders, registers accounts, lets
people in through WeChat, and proxies images.  This directory holds TLA+ models of
it, the TLC configurations that check them, and TLAPS proofs about them.  The
repository has no tests; what its code promises is read from the code, its
comments, its schema and its request bindings.

Everything here is run in this directory: `tlc -config <Run>.cfg <Module>` for a
run, `tlapm <Module>Proofs.tla` for the proofs.  `PROJECT.json` maps every
definition to the lines it models.

## 1. Inventory

| Part | Code | State | Operations |
|---|---|---|---|
| Orders | `store/order_store.go`, `handler/order_handler.go`, `model/order.go` | tables `orders`, `order_items` | `Create` (one transaction), `ListByUser`, `List` |
| Menu | `store/menu_store.go`, `handler/menu_handler.go`, `model/menu.go` | `menu_categories`, `menu_items` | create, update, delete of both; `ListMenu`, `ListItems`, `GetItem` |
| Accounts | `store/user_store.go`, `handler/auth_handler.go`, `handler/wechat_handler.go`, `wechat/client.go` | `users` | `Register`, `FindOrCreateByOpenID` (WeChat), `Login`, `GetByID` |
| Sessions | `auth/jwt.go`, `middleware/auth.go`, both logins | none: the token is signed, the server keeps nothing | issue, verify |
| Permissions | `store/permission_store.go`, `middleware/auth.go`, `scripts/rbac.sql` | roles, permissions and their links | `HasPermission`, `canSeeAll` |
| Image cache | `handler/img_proxy.go` 30-114 | a map under a mutex | `get`, `set`, the janitor |
| Image fetching | `handler/img_proxy.go` 116-379 | `http.Client`, its connections | `Proxy`, `CheckRedirect`, `DialContext` |
| Standalone proxy | `cmd/imgproxy/main.go` | the same, without gin | the same |
| Database | `database/mysql.go`, `database/open.go`, `scripts/init_mysql.sql` | the schema; a pool of 25 connections | `Open`, `migrateMySQL` |
| Configuration | `config/config.go` | the environment | `Load`, DSN resolution |
| Wiring | `cmd/server/main.go`, `middleware/cors.go`, `railway.toml` | none | routes, CORS, start and stop |

**How they interact.**  Every request is a goroutine of its own.  Handlers call
stores; stores run statements over the shared pool; the tables are the only state
requests share, apart from the image cache and `http.Client`'s connections, which
live in the process.  Order creation reads the rows menu editors write.  A role is
looked up again at every authorised request; a token, once issued, is not looked up
at all.

**What is hard.**

* Only `OrderStore.Create` opens a transaction.  Every other method is a sequence of
  autocommitted statements with a look-up first and a write later, and relies on unique indexes
  and foreign keys for what happens in between.
* `ListMenu` and `ListByUser` assemble one answer from several SELECTs, each on
  the state committed when it runs.
* A COMMIT or an INSERT may take effect and its confirmation be lost; a process may
  die between any two statements.
* `imgMemoryCache.get` uses two critical sections, the janitor a third, and a fetch
  of up to 10 seconds lies between a miss and its `set`.
* A name is looked up up to three times on the way of one proxied image, and may
  point elsewhere each time; a connection outlives the request that opened it.

**What makes each part correct**, in a sentence each: an acknowledged order stays,
whole and as quoted, and one order is priced from one menu; the menu's tables keep
their constraints, and a listing shows what stayed in sight and nothing that never was;
one WeChat identity has one account, and a disabled one stays out; the cache keeps its
limit, and what it answers is recent; the proxy reaches permitted places only, stops
following redirects, and answers; a walk through the admin's pages meets every order
that was there when it began and shares its second with no other; the pool of connections neither locks up nor leaks, permissions are current and a
disabled account is shut out in the end; whoever serves has migrated the whole
schema.  `PROJECT.json` lists 37 hazards at the lines where they bite, with the
properties that cover them.

## 2. Modules

| Module | What it models | Extends |
|---|---|---|
| `Receipts` | values of an order: menu rows, request lines, priced lines, receipts, sums | |
| `OrderBook` | *abstract*: an order is quoted from one state of the menu and booked in one step | `Receipts` |
| `Ordering` | `OrderStore.Create`, `ListByUser`, their handlers | `Receipts` |
| `OrderRefinement` | refinement mapping from `Ordering` to `OrderBook` | `Ordering`, instantiates `OrderBook` |
| `Menu` | writes of `MenuStore`, `ListMenu` | |
| `Accounts` | `Register`, WeChat login | |
| `ImageCache` | `imgMemoryCache` and the part of `Proxy` that uses it | |
| `ProxyRules` | what either image proxy may fetch, over the state of its HTTP client | |
| `ImageFetch` | the rest of `Proxy`: checks, redirects, dialling, timeout | `ProxyRules` |
| `ImgProxy` | `cmd/imgproxy`: the whole gateway, cache and fetch in one | `ProxyRules`, instantiates `ImageCache` and `ImageFetch` |
| `AdminOrders` | `OrderStore.List`, its handler, and a client that walks the pages | |
| `Service` | a request from router to answer: tokens, permission check, connections | |
| `Startup` | `config.Load`, `OpenMySQL`, `migrateMySQL`, restarts | |
| `MC…` | instances for TLC: symmetry, constant functions | the component |
| `…Proofs` | theorems and their TLAPS proofs | the component; `OrderingProofs` also `OrderRefinement`, and `ImgProxyProofs` instantiates `ImageFetch` and `ImageCacheProofs` |

### Ordering

A transaction is a slot `r \in Requests`.  `pc[r]` names the next statement:
`begun`, `reading` (the SELECT of each line), `insert` (the `orders` row), `lines`
(each `order_items` row), `commit`, then the answer.  The tables `orders` and
`orderItems` hold committed rows only; what a transaction has written is `total`,
`priced` and `sent` until `Commit`.  InnoDB's REPEATABLE READ (MySQL's default,
which the code never changes) is the `snap` that the first SELECT takes.  `Fail` is
any statement's error with the deferred rollback; `Commit` may be followed by an
error although it took effect; `Crash` is the death of the process.
`ListByUser` is two autocommitted SELECTs, `ListOrders` and `FillItems`.  `acked`
and `due` are history.  A menu write is any committed change of one row: a wider
set than `Menu` makes, so what holds here holds with it.

Abstracted: `name` travels with `price`; money is integer cents (the code sums
float64 and stores DECIMAL(10,2); the rounding is not modelled); `created_at` and
`updated_at` are dropped; `status` is a constant, nothing ever changes it.

### Menu

`task[e]` is what a method holds in its local variables between statements: target,
patch, and the whole row it is about to write.  `pc[e]` names the statement it runs
next.  A method whose first statement decides it is one action; `UpdateCategory`,
`CreateItem` and `UpdateItem` have two or three.  The indexes and foreign keys of
`migrateMySQL` are the operators `NameFree`, `CategoryExists` and `Referenced`,
evaluated when a statement writes.  `drawn` records ids ever used: UUIDs do not
repeat.  Names are compared as values; MySQL's collation, which also identifies
letters of different case, makes fewer names different and so refuses more.
A lister `l` runs `ListMenu`.  Two histories are kept since it began: under which
category its client could see an item all the time (`steady`), and at some moment
(`ever`).

### Accounts

A WeChat login follows `FindOrCreateByOpenID`: `find` (the look-up), `insert`,
`refetch` after a unique violation, `update` (`updateLogin`), then the answer.  The
display name is a constant function of the id (the code keeps its first five
characters), so that two ids may share one; the email is a function of that name.
`UniqueViolation` is the three unique indexes.  An operator's `Disable` is external:
the program reads `status` and never writes it.  `met` (which openid was answered
with which account) and `barred` (accounts disabled before a login's last look at the
table, which is `find` or, after a lost INSERT, `refetch`) are history.  The INSERT
stores a missing unionid as the empty string, so a row with an openid never has NULL
there, and the CASE of `updateLogin` (`Relogged`) finds nothing to fill (section 4).
Left out: the password hash and `last_login_at`.

### ImageCache

Each critical section is one action: `Get` and `Evict` are the two of
`imgMemoryCache.get`, `Set` the one of `set`, `Janitor` that of the sweep.  `now`
is the clock.  A tick is coarse beside scheduling delays, so `Tick` waits for a
janitor that is due and does not pass a fetch's deadline: `http.Client.Timeout`
covers the fetch to the end of the body.  A body is its URL and the moment the upstream
sent it, which is what age is measured from.

### ProxyRules and ImageFetch

Both proxies keep the same rules with an HTTP client of the same kind.  `ProxyRules` has that
client's variables and says of them what must hold (`ReachesPermitted`, `FewRequests`,
and the invariant `FetchInv`); each proxy's own module says what its code does, for the
two programs share none.

`pc[r]` follows `client.Do`: `connect` (take a connection from the pool, or resolve),
`dial`, `waiting` for the answer, then `received` or `failed`.  `dns` is what names
resolve to now, and `ChangeName` may change any of it at any time; `pool` holds the
transport's open connections, which any request to the same host and port may use;
`via` is what `CheckRedirect` will see as `len(via)`.  `Resend` is `net/http`'s own
repetition of a GET whose reused connection had been closed.  The ranges of
`isForbiddenIP` are the constant set `Forbidden`, the ports of `assertSafePort` are
`WebPorts`.  `reached` is history.  `plain` stands for an http or https URL with a
host and no userinfo.  Left out: the second decoding of the `url` parameter,
content types and sizes (a body that is refused is `FetchFails`), the wording of
errors.

### ImgProxy

`cmd/imgproxy` repeats the proxy without gin; here its handler is modelled whole, from
the check of the target (`Ask`) through `get` (`Get`, `Evict`), `client.Do` (`Do` to
`Respond`), the body (`Read`) and `set` (`Set`) to the answer.  `ImageCache` leaves open
what a fetch does and `ImageFetch` what the cache answers.  `ImgProxy` is both at
once, and two refinement mappings show it to be each of them: to the cache
everything from `Do` to `Set` is one fetch (`ImplementsCache`), to the client a HIT is
a request that came to nothing before it connected (`ImplementsFetch`, fairness
included).  `peer` and the `from` of a body say which address it came from.

### AdminOrders

`pc` is where a client's request is in `List`: `count`, `select`, `fill`, `answered`.
A stored order never changes, so a filter is the set of orders it lets through.
`created_at` is drawn by `Create` before it commits (`Begin`, `Commit`) and has whole
seconds; `Rankings` are the orders ORDER BY may give rows of one second, any one of them at
each SELECT.  `Ask` is a request for any page and size, among them 0 and the
largest int (what `parsePage` makes of other text and of numbers too large); `SetOut` and `TurnPage` are a client that
goes from the first page on until one is not full.  `Wrapped` is Go's
two's complement.  `total` and `totalPages` are what is answered beside the page: a page with
nothing on it returns early, with `totalPages` 0 (`Select`), any other goes through `Fill`.
`old`, `found` and `quiet` are history.

### Service

A request goes through `wait` and `run` once per statement: every statement needs one
of the pool's `MaxOpen` connections, and `OrderStore.Create`'s transaction keeps its
own from `BeginTx` to the end (`InTransaction`).  `left` counts the statements still to
run; it is 0 while a login reads its account or `RequirePermission` its permission
(`Check`).  What the statements do to the tables is the matter of the other modules; here
they succeed, fail or refuse, and the handler's `defer`s give the connection back
(`GivenBack`).  `rights` is what the role tables and `users.status` say of each user
now; `Grant` and `Revoke` are operators, for the program never writes them.  A user's latest
token stands for all.  `Crash` ends every request and leaves tokens valid: the
secret is in the environment.  `entitled` and `off` are history.  `wechat-login` is for WeChat
accounts, whose password hash is empty, and `login` for the others.

### Startup

`pc[i]` follows `main`: `load` (`config.Load` and the choice of the DSN), `open` (`Ping`),
`migrate` (one statement of the schema after another; MySQL runs and commits each
DDL statement by itself), `serving`; a failure is `exited`, and `Restart` is the
platform's ON_FAILURE.  A DSN is the password it carries, whether that is
percent-encoded, and whether it allows multiple statements.  `schema` is the set of
objects of `migrateMySQL` the database has (the four RBAC tables that
`permission_store.go` queries are made by `scripts/rbac.sql`, by hand, and are not among them), `Outcome` what MySQL says to a statement then, `Tolerated`
is `isDupColumnOrIndex`.  The database starts anywhere an earlier migration, finished or
not, or `init_mysql.sql` has left it, with WeChat accounts if the index was there.  Any
statement may also fail for no reason, within `MaxFaults`.  Instances share one
environment, as the replicas of one service do.

## 3. Runs

Twelve runs.  Sizes are distinct states.  The model values of a kind are few because
the code treats all of a kind alike; what has to occur is two of whatever can race.

| Run | Bounds | What it shows |
|---|---|---|
| `OrderingRace` | 2 order requests, 1 listing, 1 item with 2 prices, orders of 1 or 2 lines, `MaxTotal` 3 | `ReceiptsHold`, `BooksBalance`, `ListingsAgree`, `BookInv`, and the refinement `ImplementsOrderBook` |
| `MenuRace` | 2 editors, 1 lister, 2 categories, 1 item (361 000 states) | `ForeignKeys`, `ListingFaithful`, `DeletedStaysDeleted`, `MenuInv` |
| `AccountsRace` | 2 logins, 1 registration, 2 ids, 2 openids, 2 unionids (111 000 states) | `SameAccount`, `DisabledStayOut`, `RaceHasWinner`, `IdentityKept`, `AccountInv` |
| `AdminOrders` | 4 orders, seconds 0 to 3, pages of 1 or 3, ints up to 7 (819 000 states) | `WalkMissesNothing`, `MetadataAgrees`, `ListInv` |
| `Service` | 2 requests, 1 connection, 1 account of each kind, 2 statements, 1 tick (220 000 states) | `NoHoldAndWait`, `ConnectionsReturned`, `NoStaleRole`, `ServiceInv`, `ShutOut`, and under fairness `Answered` |
| `Startup` | 2 instances, 2 restarts each, 2 faults, 11 environments (118 000 states) | `ServesWholeSchema`, `OpenIdsApart`, `StartInv`, and under fairness `Settles` |
| `ImageCache` | 2 requests, 3 URLs, room for 2, clock to 6, sweep every 2 | `WithinLimit`, `ExpiredAreSwept`, `HitsAreRecent`, `CacheInv` |
| `ImageFetch` | 2 requests, 2 names, 2 addresses, 2 ports, one of each excluded, 2 URLs at most (214 000 states) | `ReachesPermitted`, `FewRequests`, `FetchInv`, and under fairness `Answered` |
| `ImgProxy` | 2 requests for 1 URL, 1 name, 2 addresses, 1 tick, room for 1 (277 000 states) | `ProxyInv`, `ImplementsCache`, `ImplementsFetch` |
| `MenuPatch` | 2 patches of one item | *violation*, finding 1 |
| `AccountsName` | 2 ids with one display name | *violation*, finding 2 |
| `StartupPassword` | as `Startup`, the environments with a URL | *violation*, finding 3 |

**Why the bounds are enough.**  In `OrderingRace` the price changes and the item
disappears between the two SELECTs of a two-line order; two lines at price 2 exceed
`MaxTotal`, so the range error of the INSERT occurs; ids run out, so two requests
compete for them; a listing runs across commits.  In `MenuRace` a category can be
deleted between look-up and write, names can be swapped, and the item can move
behind or ahead of the lister.  In `AccountsRace` two logins of one openid, or of two,
race for the INSERT, lose it, and are disabled anywhere on the way, between the lost
INSERT and the refetch too; with two unionids a recorded one could be replaced.  In `AdminOrders`
a walk takes up to five pages, orders of one second change places between them, others are
dated before the walk and commit during it or between a COUNT and its SELECT, pages past
the end are asked for, and both wrapped offsets occur: a negative one and a
positive one.  In `Service` two requests compete for the one connection, so a
second one asked for inside a transaction would never come; both tokens expire.  In `Startup` the two
instances are at any two statements of the schema, die there, and are restarted as often
as faults occur; the environments have each source alone, a source that hides
another, and production with and without its secrets.  In `ImageCache`
the third URL finds the map full, both with and without expired entries, and time
passes three sweeps.  In `ImageFetch` the two requests share connections, one
redirect is allowed and the next refused, and the name changes before each look-up.  In
`ImgProxy` both requests miss, fetch and store at once, one hits what the other stored
until it expires and is swept, and redirects lead to any URL over either address; more
URLs are `ImageCache`'s matter.

Bounds that are not of the code: `MaxLines` (lines of one request), `MaxTime` (where
the clock stops), `MaxStatements` (of a handler), `MaxFaults`, and the sizes of the sets of
ids, which also cap how many rows exist.

**Fairness.**  Safety runs assume none.

* `ImageFetch`, `Answered`: weak fairness of `Timeout(r)`, which the code justifies
  by `http.Client.Timeout` (one timer from `Do` to the end of the body, whatever
  redirects and dials happen), and of `Answer(r)`, the handler's own straight
  run to its answer.  No fairness is assumed of upstreams, names or connections.  One
  step hides an assumption: the look-up in `validateProxyTargetURL` is
  `net.LookupIP`, which takes no context; it ends when the resolver gives up.
* `ImgProxy`: the same timer (`Fails`), and weak fairness of what a goroutine does by
  itself between two waits.
* `Service`, `Answered`: weak fairness of a request's own steps, which says that MySQL
  answers every statement.  The code does not bound that (`context.Background()`, no timeouts in
  the DSN): the property is that nothing else can hang a request.  `Acquire` is
  strongly fair: `database/sql` takes a waiting request at random and none is
  passed over for ever.
* `Startup`, `Settles`: weak fairness of each instance: MySQL answers, and the platform
  restarts.  It promises to serve only if the faults are no more than the
  restarts; `MaxFaults` is the bound on those.

**Stopping.**  `Startup` and `StartupPassword` disable the deadlock check: a process
that the platform has given up on is stopped for good.  No other run does.

## 4. Findings

1. `UpdateItem` writes back every column it read: of two concurrent patches of
   different columns, one is lost (`menu_store.go:269`).
2. A clash of five-character display names is taken for a lost race over the openid,
   the re-fetch finds nothing, the login is answered 500 (`user_store.go:135`).
3. `buildMySQLDSN` percent-encodes the password, which the driver does not decode: with
   a character that URLs escape, the service cannot connect (`config.go:158`).  The run
   has the account in a URL; the separate `MYSQL_…` variables go through the same function.

Each is a run that must end in a violation of the one property it checks.  Where the
same module has a passing run with that property (`RaceHasWinner`), the passing run's
constants rule the cause out: display names that tell ids apart.

Seen while modelling, and left without a run, most of them because one request or one
expression shows them:

* `UpdateItem` takes a negative price, which `CreateItem`'s binding refuses
  (`model/menu.go:59` against `:48`).
* `ListMenu` reads one category after another: an item moved from one it has yet to read
  to one it has read, or that was made since, is in none, and one moved the other way is
  in both, although "Admin (menu:read) sees all items" (`menu_store.go:40`,
  `menu_handler.go:41`).  `ListingFaithful` is what does hold.
* A `unionid` absent at the first login is stored as the empty string, and
  `updateLogin`, which "fills unionid if not yet set", replaces NULL only
  (`user_store.go:132`, comment at `:171`).  `IdentityKept` is about unionids that are
  one: it would hold as well of code that fills the empty ones.
* When the SELECT that classifies a conflict fails, a taken username is reported as a
  taken email (`user_store.go:52`).
* Password login does not read `users.status` (`user_store.go:69`): for such an
  account, disabling it shuts nobody out.
* A page far beyond the end overflows the offset (`order_store.go:143`): it wraps to a
  negative one, and MySQL's refusal is a 500, or to a positive one, which answers a page that
  was not asked for.
* A page past the end answers `totalPages` 0 whatever `total` says
  (`order_store.go:175`): `MetadataAgrees` relates `total` to such a page, and asks nothing of
  its `totalPages`.  Elsewhere both come from a COUNT that may be older than the page, so
  a client that stops at `totalPages` may stop early, and one page may lie beyond it.
* Two requests that miss one URL in the image cache both fetch it (`img_proxy.go:231`):
  nothing joins them, by design.
* The DSN given as an example in `mysql.go:20` lacks `multiStatements=true`, without
  which `migrateMySQL`'s first Exec fails; `Usable` asks for it.
* A set but malformed `MYSQL_URL` stops the process although later sources are good
  (`config.go:78`).
* `Proxy` decodes the `url` parameter a second time (`img_proxy.go:210`).

## 5. Proofs

TLAPS proves, for every value of the constants:

| Module | Theorems | Assumptions |
|---|---|---|
| `OrderingProofs` | `OrderInvHolds`, `TypeCorrect`, `ReceiptsDurable`, `BookInvHolds`, `BooksBalanced`, `ListingsTrue`, `OrderBookImplemented` | prices are integers, quantities positive, `MaxLines` positive, no row is no row, no request is no request or receipt |
| `MenuProofs` | `MenuInvHolds`, `ForeignKeysHold`, `ListingsAreFaithful`, `NoResurrection` | integer prices, category and item ids are different, no row is no row |
| `AccountsProofs` | `AccountInvHolds`, `OneAccountPerOpenId`, `DisabledCannotLogIn`, `IdentitiesKept`, `RetryFindsTheWinner` | null is no id and no row, the empty string no unionid; the last theorem also assumes `NamesApart` |
| `ImageCacheProofs` | `CacheInvHolds`, `LimitKept`, `ExpiredGo`, `HitsRecent` | limit and period positive, the others natural numbers |
| `ImgProxyProofs`, of `ImageFetch` | `FetchInvHolds`, `OnlyPermittedReached`, `RedirectsBounded` | blocked names are names, forbidden addresses are addresses, web ports are ports, a limit of at least 1 |
| `ImgProxyProofs`, of `ImgProxy` | `ProxyInvHolds`, `CacheImplemented`, `FetchImplemented`, `GatewayPermitted`, `GatewayCacheIsSound` | the same and `ImageCache`'s; clients ask for targets; `None` is none of the values |
| `StartupProofs` | `StartInvHolds`, `WholeSchemaServed`, `OneAccountEach` | environments are environments, an unset variable is no value |
| `ServiceProofs` | `ServiceInvHolds`, `PoolCannotLockUp`, `NothingLeaks`, `RolesAreCurrent`, `DisabledAreShutOut` | accounts of the two kinds are different, positive pool and statements, none is none of the values |
| `AdminOrdersProofs` | `ListInvHolds`, `WalksAreComplete`, `MetadataFits` | finitely many orders, fewer than the largest int; page sizes between 1 and it |

Each rests on an inductive invariant, which a run checks first.  Its type invariant
`TypeOK` is its first conjunct.  None of the properties is inductive by itself, except
`NoHoldAndWait` and `ConnectionsReturned`, which follow from one line of `ServiceInv`:

* `OrderInv` adds that an id names at most one order, stored or under way
  (`IdsApart`), how far each transaction has come (`Progress`), and that what is about to
  be answered 201 is stored (`CreatedIsStored`).  Without `IdsApart` another
  request's COMMIT could add lines to an acknowledged order.
* `BookInv` adds to `OrderInv` that each running total is the sum of the rows priced so
  far, all of them from the one snapshot (`QuotedFromSnap`), that ids tell stored orders
  apart, and how much a listing has read (`ListingsSound`).  `BooksBalance` and
  `ListingsAgree` follow: a listing's second SELECT reads the lines of headers it found
  earlier, and those lines have not changed since.
* `MenuInv` adds that an idle lister holds nothing of an earlier request, and that what
  could be seen all the while can be seen now, and that, at some moment
  (`HistoriesHold`): a category's SELECT reads just that.  `ForeignKeys` needs only the
  statements' own checks.
* `AccountInv` adds that openids are unique among rows, that a login past its last
  look-up holds the row of its openid and one that was not disabled before it, and that
  a barred account is disabled.  The look-up itself then keeps it out: `find` or `refetch`.
* `CacheInv` adds that a fetch is within its deadline, that an entry expires at most a
  TTL and a fetch after its body was sent and not before the last sweep, and that the
  janitor is never late.
* `FetchInv` adds that what is fetched next has passed the check (a redirect's target
  included) and that no open connection leads to an excluded address.
* `ProxyInv` is `FetchInv`, of the gateway's targets, connections and requests, with which
  local variables a request holds at each step (`SlotsHeld`), and that every image, kept
  or on its way to a client, came from a permitted address.
* `StartInv` adds that an instance has made sure of every object before the one it is at
  (`MigratedSoFar`), which other instances never undo, and that no row has an openid
  before the index is there (`IndexFirst`): without it the index might never be made.
* `ServiceInv` adds that exactly the running statements hold connections
  (`HeldByRunning`), and that an account disabled in peace has neither a login past its
  check nor a token that outlives the TTL (`TokensFade`), from which `ShutOut` follows.
* `ListInv` adds that the orders a walk has still to meet lie behind the pages it has
  turned (`Ahead`: at least as many newer orders as those pages hold), that what came
  before a page is really there (`WalkFits`), and that a walk's offsets therefore never
  overflow.  Cardinalities of finite sets carry the proof; there is no induction.  Its
  other half says that SELECT reads what COUNT has counted and what was placed since, so
  that the page has at least as many orders as `total` leaves it (`CountedFirst`), just as
  many if nothing was placed (`Undisturbed`), and that a page with orders is answered with
  the `totalPages` of its `total` (`Reported`); `MetadataAgrees` is arithmetic from there.

**Sums.**  `SumOf` is a fold over a set of rows, which `CHOOSE`s the order of summing.
Taking one row out of a sum is proved without induction over data: among
the subsets of a finite set for which it fails one would contain no other such (the strict
subset ordering is well-founded), yet its own subsets then make it hold.  The same lemma adds a row, and gives `SumOf` of the appended line in
`ReadLine` and of the rows `Commit` writes.

**Refinements.**  `OrderBookImplemented` maps the first SELECT to `Quote` if its snapshot can serve the
order, the statements after it to stutters, an error or a crash to `Lapse`, and COMMIT,
whether or not its confirmation arrives, to `Book`; `QuotedFromSnap` makes what is booked the
quote of one menu.  `CacheImplemented` and
`FetchImplemented` do the same for the gateway, once for each of its halves: what
concerns only one of them is a stutter of the other.  `ImgProxyProofs` instantiates `ImageCacheProofs` under that
mapping, so `WithinLimit`, `ExpiredAreSwept` and `HitsAreRecent` are theorems of the gateway
(`GatewayCacheIsSound`) and no invariant of its own had to be found for them;
`GatewayPermitted` follows from `ProxyInv`.  `ImageFetch`'s own theorems are in the
same module, about `Client`: its constants and variables are `ProxyRules`', which `ImgProxy`
has under the same names, so `Client` is `ImageFetch` itself, and what it satisfies
are `ProxyRules`' properties.

**Only model-checked.**  `Answered` (twice) and `Settles` are liveness.  `ImplementsFetch`
includes `ImageFetch`'s fairness, and so ENABLED: TLC checks all of it, and
`FetchImplemented` proves its safety part, `Fetch!Spec`.  The three findings are
counterexamples.

## 6. Not modelled

* **CORS, routes that only answer** (`/`, `/health`), `PortInt`: no state; one header or one
  constant each.
* **Characters**: URLs, names, the ranges of `isForbiddenIP`, LIKE patterns and the
  second decoding of the proxy's parameter are below the models, which tell values
  apart only as the properties need.
* **Rounding**: order totals are sums of float64 stored in DECIMAL(10,2); the models
  use integer cents.
* **Password hashes and `last_login_at`**: nothing in the code decides on them but
  the comparison at login.
* **A client's retry** after a 500 whose COMMIT took effect: the order is placed twice.  The API
  has no key that could prevent it, so there is no promise to check.
* **Collation**: MySQL also identifies letters of different case; the models compare
  values, which admits more.

## 7. Plan

What is left, in the order of its worth:

1. `Ordering` over the tables `Menu` writes, so that `MenuStatement` is discharged by
   the real editors and not by any change of one row.
2. Proofs: that the program's editors in `Menu` take only `MenuStatement`'s steps, and the
   lemmas on pagination and wrapped offsets in a form other modules can cite.
3. Larger instances of `ImgProxy` with the redirects of three URLs.
4. The double decoding of the proxy's parameter and the ranges of `isForbiddenIP`, as
   pure functions checked against a reference definition.
