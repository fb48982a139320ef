# img-concater in TLA+

img-concater is a page that joins images: the user enters URLs or chooses
files, the page draws the images one below the other on a canvas, and the canvas
can be downloaded. A small Go server delivers the page, fetches remote images
for it (`/proxy`), and holds sessions and users.

The program's own logic is in `src/assets/js/app.jsx` (the page) and in about 350
lines of Go, which are mostly decisions about the libraries in `src/Godeps`:
which of their handlers run around the routes, which errors are looked at, which
limits are set. What the server does is decided there, so the model goes down
into the parts of nosurf, gin, gorilla/sessions, redistore, redigo, gorm and
lib/pq that a request of this program runs through. The project has TLA+ modules
of the page and of the server, their TLC runs, and proofs for TLAPS.

## Inventory

| Component | Source | State | Operations | What is hard |
|---|---|---|---|---|
| Image row | `app.jsx` 49-260: `ImgEntity`, `ImageItem`, `FormGroup` | blob, `Image` element, `completed`, `error` | `handleUrlChange`, `handleFileChange`, `handleClear`, `fetch`, `set`, `destroy` | answers out of order or after the row is closed, a new `src` while an event of the old one is queued, failures that nobody handles |
| Preview | 262-335 | canvas (bitmap and height), timers it sets | `draw`, the paint in its timer | height computed now, painted later with the images of then; an exception in the middle of the loop |
| Notifications | 398-435, 521-527 | list of messages | `reset`, `append` | several paints report, the last one must win |
| App | 437-597 | `images`, `padding`, `bgColor` | add, close, move, export, padding, background, refresh | which handler redraws at once, which by a timer, which relies on an image event; batched `setState` |
| Guide | 337-396 | its own canvas | draws two lines | nothing |
| Color, Downloader | 19-47 | none | `valid`, `download` | nothing |
| Boot, routes | `main.go`, gin's `tree.go` | the route tree | `main`, `migrate`, `noFrame`, `addRoute`, `getValue` | splitting and reordering of nodes, header after the response, errors of `migrate` ignored |
| Engine | nosurf `handler.go`, gin `gin.go`, `context.go` | CSRF token per request, pool of contexts, response writer | `ServeHTTP`, `Write`, `Redirect`, `AbortWithError`, `Recovery` | contexts used again, panics, two first requests of one browser |
| Image proxy | `main.go` 34-47 | upstream body | GET `/proxy` | failures between Get, ReadAll and Close |
| Session | `session/session.go`, gorilla, redistore | Redis record, cookie, per-request registry | `GetSession`, `GetCurrentUser`, `Save`, `Destroy` | concurrent requests of a session, expiry, two names for one key, failing store, restart |
| Users, User | `controller/users.go`, `model/user.go` | users table | `Top`, `Login`, `Register`, `Create`, `Authenticate`, `Logout`, `Auth` | errors ignored or inverted (only `Top` is routed) |
| Redis pool | `database/redis.go`, redigo `pool.go`, `conn.go` | idle list, `active`, waiters, connections in every protocol state | `Get`, `Close`, `put`, `Pool.Close`, `Do`, `Send`, `Receive` | dial and test without the lock, lost wakeups, state left on a connection, pool closed meanwhile |
| Postgres | `database/postgres.go`, gorm callbacks, lib/pq `conn.go` | pool, transaction status, unread messages | `migrate`, `Create`, `Find`, `DialOpen`, `Begin`, `Query`, `Commit`, `Rollback` | errors dropped by gorm, retries by database/sql, sockets that end anywhere |
| Other libraries | `Godeps/` | | | third-party |

How they interact: `ImageItem` sends an `XMLHttpRequest` or starts a
`FileReader`; its answer gives the entity a blob, the browser decodes it and
queues a `load` or `error` event. That event has two listeners: `getEntity`'s,
which calls `App.handleRefresh` -> `Preview.draw`, and the promise of
`ImgEntity.set`, which sets the status of the row. `draw` sets the canvas height
and a zero-delay timer; the timer paints `props.images` and reports to
`App.handlePreviewError` -> `Notifications`. `handleExport` draws, too, and
downloads when the paint resolves its promise. The page calls the server only
through `/proxy`.

On the server `http.ListenAndServe` starts a goroutine per connection with
nosurf's handler, which calls gin's engine; the engine takes a context from its
pool, finds the route in its tree and runs logger, recovery, `noFrame` and the handler.
`Top` and the handlers of users.go use the session of the request, which is a value in
gorilla's registry, loaded from Redis over a connection of redigo's pool and
saved there before its cookie is set. `Create` and `Auth` use gorm, which takes
connections from database/sql's pool and talks to PostgreSQL through lib/pq.

What makes each component correct: a row's mark (`has-success`) tells the truth
about its image; the list holds each row once; the canvas, once nothing is
outstanding, is the one of the list and settings of now; the message says
whether the limit is exceeded; a download is complete; redraws come to an end.
A request has a context of its own and an answer; a page's CSRF token fits the
browser's cookie; a session cookie finds its record and nobody else's; a pooled
connection has one user and nothing left over from the last one; nobody waits
forever beside a free connection; what a registration reports is true of the table;
a lookup finds the route a reader of main.go expects.

## Modules

| Module | What it is |
|---|---|
| `RowPromise` | abstract specification of a row: phases (unborn, empty, loading, shown, failed, closed) and a mark that changes only when a load ends |
| `ImageItem` | the rows: one function per field, over all entities. A specification of its own (`ItemSpec`), which implements `RowPromise` |
| `Preview` | extends `ImageItem`: layout, canvas, timers, messages, download. Its actions take the props and arguments of the code as parameters |
| `App` | extends `Preview`: the list, the settings and all handlers. `Spec` is the page |
| `PreviewLoops` | the reduce and the forEach of `draw` step by step, as recursive functions of the position: the reference for `Height` and `Pictures` of `Preview` |
| `RedisConn` | one Redis connection: what was sent and not yet answered, transaction, watch, subscription, monitor; redigo's `Send`, `Receive`, `Do`, and the replies `pooledConnection.Close` drains |
| `RedisPool` | extends `RedisConn`: the pool and its goroutines |
| `PoolPromise` | abstract pool: a connection has one holder or none, and is clean when it changes hands |
| `Http` | nosurf around gin: tokens, contexts, writer, redirect, abort, recovery |
| `Sessions` | extends `Http`: registry, Redis records, cookies, restart |
| `Server` | extends `Sessions`: the handlers of main.go and users.go, browsers, users, time. `Spec` is the server |
| `RouteTree` | gin's radix tree: registration and lookup as recursive operators over records |
| `PqConn` | what a call of lib/pq concludes from the messages it reads, and leaves on the connection |
| `Registration` | extends `PqConn`: gorm's chains for `AutoMigrate`, `Create` and `Find` over database/sql's pool and a PostgreSQL server |
| `MCApp`, `MCPreviewLoops`, `MCRedisPool`, `MCServer`, `MCRouteTree`, `MCRegistration` | constants for TLC |
| `ImageItemProofs`, `PreviewProofs`, `AppProofs`, `CanvasProofs` | theorems about the page |
| `RedisPoolProofs`, `RedisPromiseProofs` | theorems about the pool: its counts and queues; what is left on a connection, and the refinement of `PoolPromise` |
| `ServerProofs` | theorems about the server |
| `RegistrationProofs` | theorems about the database path |

`Server` takes an exchange with Redis and a call of the database as one step that works
or fails; `RedisPool` and `Registration` say what happens below that step.

The names of the code are kept where TLA+ allows it (`handleClose`, `ready`,
`complete`, `blob`, `img`, `completed`, `error`, `images`, `padding`, `bgColor`).
Definitions marked *Fault* in a comment are not used by the specification: each is
a plausible wrong version of the definition below it, and one of the properties
fails if it takes that definition's place.

### From code to actions

One action is one callback of the browser's event loop with the promise
continuations it sets off (they run before the next callback).

| Action | Code |
|---|---|
| `EnterUrl`, `RejectUrl` | `handleUrlChange` up to `xhr.send()`; its early return (typed or by `handleClear`) |
| `UrlAnswered`, `UrlFailed` | `xhr.onload` / `xhr.onerror` and the `then` / `catch` of `handleUrlChange` |
| `ChooseFile`, `FileRead`, `FileUnreadable` | `handleFileChange`, `r.onload`; there is no `r.onerror` |
| `Set` | `ImgEntity.set` |
| `Decoded` | the browser has decoded `src`: `complete` turns true before the event is delivered |
| `ImageEvent` (with `SettleRow`) | the delivery of `load` or `error`: redraw, then the status of the row |
| `handleAddInput`, `handleClose`, `handleMove` | the same handlers; `handleClose` includes `destroy` |
| `handlePaddingChange`, `handleBackgroundChange` | the same, up to `setTimeout` |
| `RunRefresh` | the timer they set |
| `handleExport` | `draw` at the click |
| `RunPaint` (`Paint`) | the timer of `draw`: paint, report, and the continuation of `handleExport` |

On the server one action is what a goroutine does up to the next point where another
can see or change shared state: a mutex let go, an exchange on a socket, a call of
another component.

| Action | Code |
|---|---|
| `RedisPool`: `Get`, `GetPruned`, `GetAwake` (all through `Look`) | `Pool.get` from the start, after closing a stale connection, after `cond.Wait` |
| `TestPassed`, `TestFailed`, `Dialed`, `DialFailed` | `Pool.get` after `TestOnBorrow` and after `Dial`, which run without the mutex |
| `UserSend`, `UserDo`, `UserReceive`, `ServerPush`, `Exchange` | use of a connection; any exchange may break it |
| `Close`, `GiveBack`, `Discarded` | `pooledConnection.Close`: the clean-up with its exchange, then `put`, then the close of what does not fit |
| `PoolClose`, `CloseLeftover` | `Pool.Close` under the mutex, then each close |
| `Server`: `Ask`, `Serve` | a browser sends; nosurf's check and gin up to the handler |
| `LoadSession`, `Top`, `ShowForm`, `Create`, `CheckPassword`, `KeepUser`, `Logout` | the handlers of users.go, one step per exchange with Redis or the database |
| `Fetch`, `Read`, `File` | `/proxy` up to the response, after it, and the static files |
| `Deliver` (with `Return`, `NoRoute`, `OtherSlash`, `Recover`, `Refused`) | the way back through the middleware to the browser, or to nobody |
| `Tick`, `Restart` | time; the process dies and starts, with the same SESSION_MAX_AGE or another |
| `RouteTree`: `Register` | `Engine.addRoute` with the panic of a conflict |
| `Registration`: `Take`, `Open`, `DialFails` | database/sql's `DB.conn`; lib/pq's dial and the startup packet |
| `SendPassword`, `OpenReturns` | `startup` and `auth` reading the server's answer |
| `Send`, `WriteFails`, `Receive` | a driver call up to its write, a write that fails, and what it makes of the answer (`Concluded`), followed by what gorm does next (`NextCall`) |
| `Answer` (`Welcomes`, `Begins`, `Parses`, `Inserts`, `Selects`, `Defines`, `Commits`, `RollsBack`), `Fails`, `Refuses`, `Break` | the PostgreSQL server and the network |

Semantics taken from the platform, each visible in a definition:

- `setState` in a React handler takes effect when the handler returns, and is
  without effect on an unmounted component (`SetStatus`).
- Zero-delay timers run in the order they were set (`timers` is a sequence);
  image events and answers come in any order relative to them and to each other.
- `complete` is true for an image that failed to decode; such an image has width and
  height 0, so its scaled height is NaN and `drawImage` throws.
- A new `src` cancels the queued event of the old one; an empty `src` (in
  `destroy`) queues an error event. Each `set` adds listeners that stay, but a
  promise settles once and an event settles all open ones alike, so one status
  per event is enough.
- Setting a canvas height clears the bitmap; React sets it when it differs (NaN
  always does). A height attribute that is no natural number (NaN, a negative one) gives
  the browser's default, `DefaultHeight` rows (`BitmapRows`).
- A paint clears and fills the rows of the height its timer was set with: all of the canvas
  if that is still its height, nothing if it is NaN or negative. What it does not reach stays
  as earlier paints left it (`Remaining`), so that the pictures of the list may lie on old ones
  until the next draw that changes the height.

Data is abstracted to what the properties tell apart: a picture is its source,
its scaled height a positive integer (`Scaled`), the canvas the height, the last fill
and the set of pictures of which a row is left, with their offsets. Real scaled heights are fractions,
and what rounding does is not modelled. Bytes that no decoder accepts (an error
page from the proxy, a text file) are one value, `Garbage`.

On the server:

- A CSRF token, a session id and a row id are named by the request that made them, and
  what a browser had before by the browser. HMAC, gob and base64 are not modelled: a
  cookie is decoded if it is the server's and not too old.
- A failed exchange with Redis may have been carried out. The record is written before
  the cookie is set, and a failed write panics, so that no cookie goes out.
- `http.Redirect` writes a body for a GET only; a redirect of a POST leaves the
  header open until the handler has returned. That is why the second redirect of
  `Authenticate` replaces the first, and why `X-Frame-Options` is on it.
- The `Image` struct's tag is `bindings`, not gin's `binding`: an empty URL passes `Bind`,
  `http.Get` fails, and the nil response panics into a 500. Only after too many redirects does
  `http.Get` return an error with a response: the handler aborts with the status of that
  (`Fetch`, where 302 stands for any redirect).
- nosurf's cookie has no Path, so that a real browser keeps one per directory of the request;
  the model has one token per browser.
- An error reply ends the loop in which `pooledConnection.Close` drains replies, and closes the
  connection. `ReceiveEcho` reads on to the echo; the connection that is closed there is one
  of those that `GiveBack` finds broken.
- `File` answers with a body or 404. `FileServer`'s redirect of a directory, HEAD and partial
  answers are left out.
- `settings` remembers which SESSION_MAX_AGE the server has had. No code reads it:
  `CookieFindsRecord` is about it.
- Rendering a template does not fail. Redis users keep to the discipline
  `Expected` in `RedisConn` (EXEC or DISCARD only after MULTI, and so on): EXEC without
  MULTI clears the client's watch bit while the server keeps the watch, and UNWATCH
  is refused on a subscribed connection, so without it `Close` cannot know what to end.
- Sockets may exceed `MaxActive` for a moment: `put` and the pruning release the
  count before they close. The doc comment at `pool.go:119` says "MaxIdle limit" where
  the code means `MaxActive`; redis.go sets neither `Wait` nor `MaxActive`, the run has both.
- gorm drops the errors of Begin, Commit and Rollback; database/sql tries again after
  `driver.ErrBadConn` outside a transaction. lib/pq does not mark a connection bad
  when the socket ends within a message (`io.ErrUnexpectedEOF`), and does not
  close the socket of a connection marked bad. Retries have no limit in the model (10 in
  the Go releases of the time): the faults are bounded instead.
- `inbox` holds messages one by one, because a socket may end after any of them or within one,
  and a reader that stops early leaves the others to the next call. Notices and
  parameter settings, which every reader skips, are left out; one socket error stands for
  another that `errRecover` treats alike. `DialOpen` never returns `ErrBadConn`, so a
  failed dial is not tried again, and it leaves its socket open.
- The table's columns are taken as one: they are there when the table is. Rows of an
  earlier process are not modelled, so that an earlier table without its index has
  no duplicates yet.
- The unique index of `users.email` may be missing for the whole life of the process:
  gorm takes a failed count for 0, skips the index once CREATE TABLE has returned an error,
  and `migrate` does not look at the result. `ResultsAreTrue` says what holds all the
  same: without a failed call there is an index, and with an index no duplicate.

## Runs

| Run | What it checks | Bounds | States |
|---|---|---|---|
| `item` | `ItemTypeOK`, `StatusTruthful`, `KeepsRowPromise`, `SettlesWhenAnswered` | 1 row, 2 URLs, 1 file | 2,934 |
| `loops` | `HeightIsReduce`, `PicturesAreDrawn` | lists of up to 3 rows in every state, heights 1 and 3, paddings -1, 0, 2 | 16,464 |
| `app_rows` | `ListedOnce`, `SettledPreview`, `SettledWarning`, `PicturesFillCanvas`, `DownloadsComplete` | 2 entities, 1 URL, paddings 0 and 1, moves, 2 timers, default height 2 | 1,185,166 |
| `app_settings` | `TypeOK`, `SettledPreview`, `NoRepeatedMessage`, `SettlesWhenIdle`, `ExportsFinish` (under `FairSpec`) | 1 entity, 1 URL, 2 paddings, 2 colours, 2 timers, default height 2 | 156,960 |
| `pool` | `TypeOK`, `OneOwner`, `ActiveCounts`, `NoLostWakeup`, `IdleIsFresh`, `KeepsPromise`, `WaitersWoken`, `ClosedPoolDrains` (under `FairSpec`) | 3 goroutines, 3 connections, commands MULTI and PSUBSCRIBE, the settings of `MCConfig` | 97,272 |
| `server` | `TypeOK`, `OwnContext`, `FrameOnlyWithoutBody`, `WhatStaysBehind`, `Answered`, `PageMatchesCookie`, `CookieFindsRecord`, `SessionsApart`, `LogoutEndsSession`, `NeverSignedIn` | 2 requests, 2 browsers, 2 contexts, 1 email, 2 passwords, ages 0 and 1, 1 restart with either age, time 1 to 2 | 2,115,443 |
| `routes` | `FindsItsRoute`, `RefusesConflictsOnly`, `RedirectsLead` | sequences of up to 4 of 16 patterns | 10,928 |
| `registration` | `TransactionsAreHeld`, `ResultsAreTrue`, `RequestsReturn` (under `FairSpec`) | 2 registrations of one email, 1 login, the migration, 3 connections; no limit, a password and no fault; limit 1 with 2 faults; limit 2, a password and 1 fault | 430,095 |
| `choice`, `joined`, `warning`, `download` | one statement of the repository each, which the code does not keep (see *Findings*) | as small as the counterexample | |

Why the bounds are enough for the questions asked:

- *Rows.* A row shares nothing with another row before `App` lists it, so one
  row shows every order of its own answers; two sources and a file give two
  requests of one kind and one of the other. With two rows in the list one can
  be loading, broken or closed while the other is drawn, and swapped with it.
- *Requests.* A row has at most one outstanding request for the same source
  (guards of `EnterUrl`, `ChooseFile`). A second one would bring the same
  answers again.
- *Timers* (`MaxTimers`). Two waiting timers let an old paint run between a new
  draw and its paint, and a refresh wait behind a paint. Steps that would set one
  more wait; the timers always run, so nothing is stuck.
- *Old pictures.* In `app_rows` an export can wait that was clicked while the height was NaN,
  and paint over a picture drawn since then. That a later draw gives the canvas another height
  needs a third timer, and a negative height a negative padding; these cases are only in the
  theorems.
- *Default height* (`DefaultHeight`). 2 rows instead of the browser's 150, so that a picture may
  end within them or go beyond.
- *Limit.* `MaxHeight` is 1 to 3 pixel rows instead of 1200, so that one or two
  pictures exceed it.
- `app_rows` uses the view `SeenByPreview`, which leaves out the marks,
  errors and last choices of the rows: nothing in the list or the preview reads
  them, and no property of that run mentions them.
- `MoveControls`: `ImageItem` has `handleUp` and `handleDown`, but no button
  calls them. `app_rows` sets the constant, so that `handleMove` is
  covered; the other runs show the page as it is.
- `ImageItem.cfg` switches the deadlock check off, because when every row has been
  closed and answered nothing is left to do. The page as a whole never stops.
- *Pool.* Three goroutines make one that holds, one that dials and one that
  waits. The settings are redis.go's (MaxIdle 1 for its 20, no limit), those of a
  malformed REDIS_MAX_CONNECTION (MaxIdle 0), and two that redis.go could ask of redigo:
  one active connection without waiting, and two with waiting, a test on borrow and an idle
  timeout.
  MULTI stands for the states a reply clears, PSUBSCRIBE for those that need the echo.
- *Server.* Two requests are enough for every pairwise race (of one browser or of two);
  states reached by longer histories (a cookie, a form, a record, a registered user) are in
  `Init`. `Tick` waits until no request is under way, because the unit of time
  is long against a request. Requests, browsers, contexts and passwords are symmetric.
- *Routes.* The patterns are main.go's and smaller ones that differ from each other
  early, late, by a slash, a parameter or a catch-all. A fifth route meets the same
  node shapes, only deeper.
- *Registration.* Limit 1 makes everyone wait for one connection and for rows, limit 2
  runs a blocked INSERT beside the one it waits for; two faults let a second thing fail while
  the first one is cleaned up.
- `CHECK_DEADLOCK FALSE` in `server`, `routes` and `registration`: the requests end.

### Fairness

`FairSpec` assumes weak fairness of the timers, of decoding and of the delivery of
each image event: what the browser's event loop guarantees. The user and the
network owe nothing. `SettlesWhenAnswered` and `SettlesWhenIdle` therefore have
their condition in the formula (requests answered from some time on, the user
idle from some time on). `ExportsFinish` needs no more than that the timers run.

In `RedisPool` weak fairness is assumed of each goroutine that can go on (the Go
scheduler), of a dial and a test returning (they have an error path for every
failure), and of a user that closes what it got, which every use in redistore
does with `defer conn.Close()`. Waking in the order of `Wait` is what `sync.Cond`
promises. In `Registration` one of the goroutines or the server goes on
as long as any can; faults owe nothing. `Server` states no fairness.

## Findings

These four are in `app.jsx` and have a run that shows them.

1. `choice`: answers are applied in the order they arrive. A row can rest at
   `has-success` with an image whose URL the user has replaced.
2. `joined`: `ready()` is true of a broken image; it makes the height NaN and
   stops the loop, and the good images below it disappear.
3. `warning`: the limit is compared with `height - padding`, but `height` has
   no trailing padding: a picture up to one padding above 1200px passes.
4. `download`: the height is computed at the click and the images of the paint
   are drawn: an image decoded in between is cut off on the download.

What the server's models show besides, as properties that hold of the code as it is:
`NeverSignedIn` (a login is stored under `userId` and read under `user_id`),
`WhatStaysBehind` (sessions of finished requests stay in gorilla's registry, the
body of a failed read stays open), `FrameOnlyWithoutBody` (`X-Frame-Options`
reaches no page), the exceptions in `PageMatchesCookie`, `LogoutEndsSession` and `DownloadsComplete` (two first
requests; a login with the cookie of the logout that is past saving the session; an export whose
height was NaN at the click, or is not the canvas's any more, which may carry pictures of
earlier paints). In gin's tree the advice on the trailing slash is
right for main.go's routes in any order, but in general incomplete
(`/p` and `/p/:x/:y`) and wrong (`/ab` and `/a/b`: `/a/` is sent to `/a`, which is a 404).
A root whose first routes have parameters keeps a `maxParams` that may be too
small, which only sizes a slice.

## Proofs

The theorems hold for every value of the constants that satisfies the assumptions.
For the page: `Nothing` and `Garbage` are no sources, scaled heights are positive
integers, the default height is a natural number, paddings are integers, the constructor's entities differ, and a list has no row twice
(`ListsAssumption` of `PreviewLoops`; in `App` it is the theorem `RowsListedOnce`). For the pool: users
and connections are finite, limits are naturals, and the sentinel of
`pooledConnection.Close` is not a command (`SentinelAssumption`; pool.go draws it
at random). For the server: requests and browsers are different things and requests
are finitely many, `None` is none of the values, time has a first tick
(`MaxNow` is not 0), and the routes are main.go's and the two forms', where
`Authenticate` is only reached by POST, as in `user_form.tpl`.
For the database: a request is a registration, a login or the migration and not two of them, and
`None` is no connection, no request and no command (`NoneAssumption`).

| Theorem | Says |
|---|---|
| `ImageItemProofs!RowsTyped` | `ItemSpec => []ItemTypeOK` |
| `ImageItemProofs!RowsTruthful` | `ItemSpec => [](ItemTypeOK /\ StatusTruthful)` |
| `ImageItemProofs!RowsKeepPromise` | `ItemSpec => KeepsRowPromise` (refinement of `RowPromise`) |
| `AppProofs!AppTypes` | `Spec => []TypeOK` |
| `AppProofs!RowsListedOnce` | `Spec => []ListedOnce` |
| `AppProofs!PreviewSettles` | `Spec => []SettledPreview` |
| `AppProofs!WarningSettles` | `Spec => []SettledWarning` |
| `AppProofs!MessagesNotRepeated` | `Spec => []NoRepeatedMessage` |
| `AppProofs!CompleteDownloads` | `Spec => DownloadsComplete` |
| `CanvasProofs!CanvasFilled` | `Spec => []PicturesFillCanvas` |
| `CanvasProofs!ReduceComputesHeight`, `ForEachDrawsPictures` | `LoopSpec => []HeightIsReduce`, `LoopSpec => []PicturesAreDrawn` |
| `CanvasProofs!PageDrawsByLoops` | the same in every state of the page, for its list and padding |
| `RedisPoolProofs!PoolTypeOK` | `Spec => []TypeOK` |
| `RedisPoolProofs!PoolOneOwner` | `Spec => []OneOwner` |
| `RedisPoolProofs!PoolActiveCounts` | `Spec => []ActiveCounts` |
| `RedisPoolProofs!PoolNoLostWakeup` | `Spec => []NoLostWakeup` |
| `RedisPromiseProofs!PoolIdleIsFresh` | `Spec => []IdleIsFresh` |
| `RedisPromiseProofs!PoolKeepsPromise` | `Spec => KeepsPromise` (refinement of `PoolPromise`) |
| `ServerProofs!Typed`, `ContextsApart` | `Spec => []TypeOK`, `Spec => []OwnContext` |
| `ServerProofs!Framed`, `LeftBehind`, `ServedAnswered` | the same of `FrameOnlyWithoutBody`, `WhatStaysBehind`, `Answered` |
| `ServerProofs!PagesPass`, `CookiesWork` | of `PageMatchesCookie`, `CookieFindsRecord` |
| `ServerProofs!SessionsOwned`, `LogoutEnds`, `NobodySignedIn` | of `SessionsApart`, `LogoutEndsSession`, `NeverSignedIn` |
| `RegistrationProofs!TransactionsHeld` | `Spec => []TransactionsAreHeld` |
| `RegistrationProofs!ResultsTrue` | `Spec => []ResultsAreTrue` |

The argument:

- `RowInv` adds to type correctness and `StatusTruthful` what ties a row's fields
  together: a loading image has no event queued, an image has a blob and an
  available one the blob of a source, a queued event of a live row says how its
  decoding ended, and an entity not yet constructed is untouched. Without the
  link between event and image `SettleRow` could mark a row whose image is broken.
- `RowsKeepPromise` maps the fields to a phase (`Phase`). `PhaseMove` shows that
  an action on one row moves the phase function at one point; `PromiseStep`
  goes through the actions.
- `NextRows` shows that every step of `App` is a step of the rows or leaves
  them alone, so `RowInv` carries over. `ListInv` (entities listed differ and are
  the live ones) needs `RemoveAtProperties`, what `splice` does to a list.
- `BaseInv` joins these with the types of settings, canvas and timers and with
  `MessageInv` (the message is shown once or not at all; `AppendedOnce`). `TypeOK`
  alone is not inductive: that a paint draws sources, and not null or garbage, needs
  `RowInv`; that heights are integers needs that the listed entities are finitely
  many (`PreviewProofs`: `ListFinite`, `OffsetType`, `HeightType`, `PicturesType`).
- `RedrawDue` is the strengthening of `SettledPreview` and `SettledWarning`:
  whenever no image is at work, either no timer waits and the canvas and the
  message are those of the list (or a broken image is listed), or the *newest* timer will draw the list and settings of now. Older
  timers may paint anything. The guard is needed, because a late answer or a close
  changes the list without a draw; the image is then at work until the event
  that draws. `StepKinds` reduces the handlers to four kinds of steps; each has a
  lemma (`RedrawDueKept`, `RedrawDueDrawn`, `RedrawDuePainted`).
- `CompleteDownloads` is an action property: `OnlyPaintsDownload` leaves the paint. That the
  paint draws the pictures of the list is `Painted`; which older ones are left is
  `Remaining`, and that there are none when the canvas has the timer's height is `WipedClean`. The
  newest timer of `RedrawDue` has the height of the canvas, so `WipedClean` gives `PreviewSettles` all
  of the canvas, too, unless the height is no natural number.
- `CanvasFilled` is a fact about lists, by `PreviewSettles`: `draw`'s reduce and its loop
  (at a padding that is not negative the height is a natural number, `HeightNatural`)
  both sum the heights of an initial part of the list. `OffsetAdds` says what one more
  image adds, `OffsetGrows` that the offset never falls when the padding is not negative, so
  the pictures of two positions are apart (`PicturesApart`) and inside the height
  (`PictureWithinHeight`). That one of them ends at the height needs the last position that
  draws, which a non-empty set of positions has because they are bounded
  (`LastPosition`), and that everything drawn is above it.
- That the two loops as they are written compute this layout is an induction over the list.
  No theorem of the library can be used for it, so it is done by hand: `MemoAt` and
  `AccAt` say in terms of sets what the accumulators are after `i` positions, `ReduceStepIs` and
  `DrawStepIs` that the callbacks lead from one position to the next. These functions solve the
  recursive equations, so the loops (which are *some* solution) solve them too, and two functions
  that start alike and step alike are alike: a first position where they differ, which
  there would be as the naturals are well-founded, cannot be (`SameSteps`). The case that
  takes care is the broken image: the height is NaN from there on, while the pictures are those of the
  images shown above it (`DrawnGrows`). `PageDrawsByLoops` carries this to the page, so that
  what `SettledPreview` and `PicturesFillCanvas` say of `Height` and `Pictures` is said of the
  loops.
- The pool's invariant is `PoolInv`: the types, that the settings are legal,
  `OneOwner`, `ActiveCounts`, `NoLostWakeup`, `Queue` (the waiting queue has each sleeping
  goroutine once and nobody else) and that only a closed pool has leftovers.
  `ActiveCounts` is about cardinalities: the idle list is without repetition, so pushing and
  removing change its length and its set by one, and the goroutines that count (`Busy`)
  change by the one that moves. `NoLostWakeup` compares what is to be had (idle
  connections and room below `MaxActive`) with the goroutines awake and about to look: each
  step that adds something to be had signals, and `Signalled` turns the head of a
  duplicate-free queue from asleep into awake (that needs `Queue`). It needs the constants
  only to be what redigo's documentation says: users and connections finite, limits naturals.
- `FreshInv` is what `IdleIsFresh` needs. `pooledConnection.Close` does not see the server;
  it goes by the marks its `lookupCommandInfo` made of the commands that were sent.
  `ModeMarked` says that the marks tell of every mode the server is in (a watch may be
  covered by a transaction), `RepliesMarked` that every unread reply is pending unless the
  connection was subscribed, and `Noticed` that both hold unless the connection has failed or
  was told to MONITOR, in which case it is closed and not kept. Every command a user may send keeps `Noticed`
  (`ModeStaysMarked`, `SendNoticed`, `DoNoticed`, `ReceiveNoticed`, `PushNoticed`); the clean-up turns
  it into `Fresh` (`TransactionEnds`, `SubscriptionsEnd`, `CleanedIsFresh`).
- `PoolKeepsPromise` maps a connection to its `holder` and to whether it is `clean`. Taking
  an idle connection without a test, a passed test and a dial are the abstract `Borrow`,
  exchanges and pushes `Talk`, `Close` `GiveBack`, closing for good `Discard`; every other step stutters.
  Only `Borrow` promises something, that the connection is clean: that is `FreshInv`.
- `ServerInv` is about each request on its own, except in four parts. `OnRoute` ties a
  stage to the handler of the route; `InStep` says what is already out (nothing before
  the handler has returned, and the writer's flag and the answer agree), on which `FrameOf`
  and `LoginOf` rest; `Holds` says which stages hold a token, a body and a session; `TopOf`,
  `TokenSent` and `SessionOf` say whose values these are. The four parts:
  `TokensOfBrowsers` (cookie and form of a browser carry its own token or one of those made for
  its requests that came without), `SessionsOfBrowsers` (a browser has only session ids
  that are its own or were made for its logins: `Owned`), `LogoutHolds` (a
  session that a logout deleted is in the store only if a login with its cookie had it in hand)
  and `CookiesOfBrowsers` (a cookie at a browser or on its way that no setting of the server so far would have let
  live shorter, `NeverShorter`, has a record that lives as
  long, or a logout with it has come as far as the deletion: `Recorded`). A restart only adds to
  `settings`, so what is true of such a cookie was true of it before, and the store survives. A cookie on its way has to be covered as well, or
  the step that delivers it could not be taken; it is stamped with the time of now because time waits
  for requests under way. A request changes only what is its own (`OthersStay`, `OwnStep`, `OtherRequests`), so that
  most of `ServerInv` is proved handler by handler (`KeepTop` to `KeepRefused`).
- `RegistrationInv` has three parts. `HoldInv`: a connection that is open is free or with exactly one
  request, and every request is where the chains of gorm can have brought it (`InOrder`: what it may
  call, and that it has a connection from the first statement of its transaction to the
  last). `ConnOk`: only a session that lives is asked anything, what is closed has none, and a free
  connection whose session lives is at rest. `HeldOk`: what lies in the inbox of a request's
  connection, what lib/pq has noted and what the server's status is fit the point its call has reached
  (`Stage`: opening, unanswered, replied, or rows left to fetch). A connection whose
  session is gone needs nothing: its transaction is gone as well. The lemmas on reading
  (`ReadsUpToStatus`, `ReadsPrepared`, `ReadsExecuted`, `ReadsBegun`, `ReadsEnded`, `ReadsRest`,
  `OpensReady`) compute what each call of lib/pq makes of each answer of the server; together they say
  that it ends in the server's own status with nothing left to read (`RepliedLeaves`). `RequestGoes` is
  the same for gorm and database/sql: what follows a call keeps `InOrder`, and a connection goes back only
  when the transaction is over or was never begun.
- `TruthInv` is what `ResultsAreTrue` needs on top of it: everything that may still be read is
  true of the table. `Hears` says what is to be read at each point of a request. A connection
  between two calls has nothing to read but an end of the socket (`Quiet`). With a call on its
  way it has the answer to that call and never one behind another (`InOneAnswer`), and what this
  says is so: a COMMIT was said of a row that is in the table (`CreateHears`), a CREATE or a
  count of one of an index that is there (`MigrationHears`). `NoError`, `InTable`, `RowHeld` and
  `Migrated` tie the errors a request has seen to its row and the index: without an error a
  registration ends with its row; a row is in the table of a request that has committed it or, outside a
  transaction, of one whose answer was lost or is no error. `RowsOk` (uncommitted rows are those
  of the request that has the connection) and `Distinct` (committed and uncommitted rows
  have different emails as soon as there is an index) make a COMMIT of the server keep the table without
  duplicates, and `Unserved` that no row is there before the migration is over. The invariant
  also speaks of connections whose session is gone, which `RegistrationInv` leaves out: an
  answer may be cut off after the server has done its work. So the reading is proved once
  more for answers that end anywhere (`EndTells`, `RowsTell`, `ResponseTells`, `ConcludedTells`).
  `TruthAfter` and `TruthOneMoves` are the steps of the requests, `TruthServes` those of the server,
  `CutHears` a socket that breaks. TLC checked `TruthInv` on the run's instance before it was proved.

The proofs found three places where a definition said more than the code does: the arms of
`CASE` in `RedisConn!ModeAfter`, `RedisConn!EndTransaction` and `PqConn!RolledBack` overlapped, so that TLA+
allowed either value where TLC takes the first and the Go code tests in order. Every `CASE` of the
project now has arms that exclude each other.

Model-checked only:

- liveness (`SettlesWhenAnswered`, `SettlesWhenIdle`, `ExportsFinish`, `WaitersWoken`,
  `ClosedPoolDrains`, `RequestsReturn`), which TLAPS does not prove under fairness;
- the route tree (`FindsItsRoute`, `RefusesConflictsOnly`, `RedirectsLead`), whose operators are recursive
  over a tree, which the provers cannot reason about.

Every other invariant and action property of the passing runs is a theorem.

## Not modelled

- `Guide`: draws fixed lines on a canvas nobody reads.
- Rendering, texts, styles, the tabs of a row, and the names of object URLs. The
  object URLs of blobs that were replaced are never revoked; nothing on the page
  depends on that.
- Rounding of fractional heights.
- The bytes of answers, content types and templates, whose rendering is taken not to fail.
- HMAC, gob, base64 and bcrypt: a cookie is the server's or not, a password is right or not.
- Of lib/pq: TLS, the connection string and its defaults, `simpleQuery`, binary
  parameters, COPY, NOTIFY and the text of values. Of gorm: building SQL and reflection, and Update,
  Delete, Joins and preload, which nothing here calls. A login without an email
  (gorm leaves an empty field out of the condition) finds any row; it is not modelled.
- Of gin: `findCaseInsensitivePath` (RedirectFixedPath is off), the renderers and
  middleware main.go does not use. validator never meets a rule, because
  `Image`'s tag is `bindings`. godotenv, go-colorable, `net/context`, sse and the
  package examples do nothing between requests or are not reached.
- Templates, generated bundles and provisioning: no run-time state.

The vendored tree has some 23,000 lines of Go. The program's own lines and the paths
of the libraries its requests run through are about 2,600 of them; the rest is
code this program never calls, conversions without state, or tables. A model of
it would be a model of another program.

## Plan

The page, the server, the Redis pool, the route tree and the database path are modelled.
What is left:

1. `RouteTree`: its operators would have to be written as functions over paths before anything
   can be proved about them, and the induction over the tree done by hand as in `CanvasProofs`.
2. The liveness properties stay with TLC.
