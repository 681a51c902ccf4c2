# Specifications of the music player

TLA+ models of the parts of this repository whose correctness depends on the order of
concurrent steps, the TLC configurations that check them, and proofs checked by TLAPS.
The program is a Telegram mini app for music. A FastAPI core with an aiogram bot and arq
workers keeps everything in PostgreSQL (READ COMMITTED), Redis and Meilisearch. An *edge*
process crawls Telegram channels and streams audio. Two React clients and an admin panel
sit on top.

Paths below are relative to the repository; `S:` stands for
`backend/app/services/subscriptions.py`, `CR:` for `backend/app/services/crawling.py`, `J:` for
`backend/app/services/jams.py`, `P:` for `store/player.ts` (the same file in `miniapp/src` and
`web/src` up to its line 571), `E:` for `player/engine.ts`.

    tlc -config Settlement.cfg MCBilling      one run
    tlapm BillingProofs.tla                   the proofs about Billing
    tlapm GrantProofs.tla                     the proofs of what Billing grants
    tlapm LedgerProofs.tla                    that Billing implements Ledger, and what is paid stays
    tlapm SessionProofs.tla                   the proofs about Session
    tlapm JamProofs.tla                       the proofs about Jam
    tlapm QueueProofs.tla                     the proofs about Queue
    tlapm PlaybackProofs.tla                  the proofs about Playback
    tlapm CrawlProofs.tla                     the proofs about Crawl

## 1. Inventory

| Component | State | Operations | What makes it hard | What makes it correct |
|---|---|---|---|---|
| **Payments and subscriptions** `services/subscriptions.py`, `services/payments/*`, `bot/payments.py`, `api/routers/{payments,admin}.py`, `workers/jobs.py` | `payments`, `subscriptions`, `users.plan_code/premium_until/trial_used`, `discount_codes.uses`, `discount_redemptions` | checkout, gateway callback, Stars pre-checkout and payment, approve, reject, receipt, trial, gift, refund, daily expiry and review deadline | callbacks repeat and overlap; objects loaded before a lock stay stale in the session; a job over many rows; lock orders that deadlock | one live subscription a user; a payment buys once; nothing granted unpaid; the cached plan agrees with the subscription; paid time is kept; every request ends |
| **Crawl scheduler and edge crawler** `services/crawling.py`, `api/routers/internal.py`, `indexer/tmusic_indexer/{webpreview/worker,webpreview/crawler,mtcrawl,core_client}.py` | the channel's cursors, lease, status, failures; each worker's walk | claim, page, finish, release, failure report, reclaim | leases that run out, lost and late requests, crashes, edits of the row without a lock | nothing between the cursors is missing; an active channel is complete; a dead worker's channel comes back; new posts arrive |
| **Channels and discovery** `services/{channels,discovery}.py`, `services/admin.py` | `channels.status`, `user_channels`, `channel_candidates`, `blacklist` | add, approve, pause, blacklist, recrawl | read-modify-write without a lock next to the crawler | an admin's decision holds; a re-queued channel is read |
| **Ingest and deduplication** `services/ingest.py` | `tracks`, `channel_tracks`, canonical groups, Redis dirty marks | ingest_items, dedup, refresh_group_counts | two pages insert one track; counts derived from groups | one row a source key; a canonical track is itself no duplicate |
| **Lazy resolver** `services/resolving.py` | `tracks.resolve_*`, an in-process circuit breaker | resolve_track, apply_resolved, record_demand, prewarm | commit, HTTP call, commit with an object kept over it; two requests for a track | attempts never lost; a resolved track stays resolved; no track stuck pending |
| **Streaming** `services/stream.py`, `indexer/tmusic_indexer/stream.py` | signed tickets, daily limits in Redis, edge health | authorise, choose a node, serve ranges | limits counted before or after; nodes going away | a ticket opens one track for a limited time |
| **Jams** `services/jams.py` | one JSON value a jam and one key a member in Redis; each app's copy, its poll timer | create, join, leave, end, control, add, remove, configure; poll, take an answer in | optimistic WATCH/MULTI with 8 retries; keys deleted outside the transaction; answers that overtake each other | no command undoes another; an app has the room's queue; a room that is over disappears; a member key names a jam that has the member |
| **Connect** `services/connect.py` | a hash of devices and a list of commands a device, in Redis | heartbeat, send, forget | expiry, eviction, commands to a device that just left | a command reaches its device once or is refused |
| **Broadcasts** `services/broadcast.py` | `broadcasts.status`, counters | schedule, pause, resume, cancel, run | progress is a count of people, used as how many to skip | nobody gets it twice, nobody is left out; cancel wins |
| **Notifications** `services/notifications.py` | `notifications.status`, `sent_at` | queue, claim_due, deliver, mark failed | claimed before sent | sent once; a failure is recorded |
| **Background jobs** `workers/{jobs,main}.py` | arq cron (`unique=True`), Redis locks | daily subscriptions, search sync, prewarm, counts | a lock that expires under its holder | one instance at a time |
| **Players** `miniapp/src`, `web/src` (`store/player.ts`, `player/engine.ts`, `store/{jam,connect}.ts`) | two queues, index, shuffle order, repeat; two media elements, their events, tickets, loads under way, timers | play, next, previous, reorder, shuffle; load, retry, recover, preload, crossfade | a skip that waits for a fade or a station goes on with what it read; tickets, promises and events of an earlier track; recoveries on top of retries | the index marks what plays; the queue sheet tells what comes next; what sounds is what is shown, alone and audible; loading ends |
| **Search** `services/{search,meili}.py` | Meilisearch index, Redis cursor | sync_changes, search | cursor over `updated_at` and rows committed late | every change is indexed |
| **Library** `services/{library,playlists,history,folders,pins,follows}.py` | rows per user, positions in playlists | like, add, move, remove | fractional positions | positions stay strictly ordered |
| **Recommendations** `services/{recommendations,taste,blends,related,artistinfo,lastfm,lyrics}.py` | derived tables, caches | scoring queries | floating point | - |
| **Social** `services/{social,reports,gate}.py` | `follows` and its counters, reports, profiles | follow, unfollow, report | counters kept beside the rows they count | a counter equals its rows |
| **Authentication** `services/{auth,users}.py`, `security/*`, `api/client.ts` of both clients | refresh-token families; a page's access token, the stored refresh token, the refresh under way | login, refresh, revoke; request, share a refresh, retry after a 401, sign out | pages that share one stored token; a token used twice; lost answers | one usable token a family; a page alone never trips the reuse detection nor loses its session; requests end; the mini app always gets back in |
| **Plans, uploads, telemetry**; **bot texts**; **admin panel**; **text normalisation**; **deployment** | configuration, static text | lookups | - | - |

How they interact: handlers call services inside one transaction each
(`backend/app/db.py:session_scope`). The edge talks to the core over HTTP only
(`/internal/indexer/...`), and the core to the edge to resolve a file. Workers share the
database with the handlers. Clients poll (jam, connect) and receive stream tickets.
Billing and the crawler meet no shared row, the players and the session only share the
access token of a request, and a Jam or another device changes the queue only by replacing it
(`follow`, an action of `Queue`), so they are separate models. What joins the
crawler to the rest is the `channels` row, which both the crawler and people change.

## 2. Modules

| Module | Contents |
|---|---|
| `Billing` | the transactions of payments and subscriptions, statement by statement |
| `BillingInv` | the inductive invariant `IInv` |
| `BillingProofs` | its proofs |
| `GrantProofs` | that a grant is paid, a trial single, the user's row true, a renewal longer, a receipt in time, on top of them |
| `Ledger` | what billing promises: entries opened, settled once or closed, one pass a user |
| `LedgerProofs` | that `Billing` implements `Ledger`, and that what is settled stays settled, on top of `GrantProofs` |
| `MCBilling`, `MCLedger` | instances; the refinement mapping of `Billing` to `Ledger` |
| `Crawl` | the channel row, the edge workers, the requests between them, edits by hand |
| `CrawlProofs` | its types, coverage, complete channels, resumed backfills: the inductive invariants and proofs |
| `MCCrawl` | instances |
| `Session` | refresh tokens: the server's transactions, the pages, their requests |
| `SessionProofs` | its inductive invariant and proofs |
| `MCSession` | instances |
| `Queue` | the source and the manual queue, skips, shuffle, Smart Shuffle, the queue sheet |
| `QueueProofs` | its inductive invariant and proofs, and what its operators on sequences return |
| `Playback` | from a chosen track to sound: loads, the two elements, tickets, recovery |
| `PlaybackProofs` | its inductive invariant and proofs, and what each call on an element leaves behind |
| `Jam` | rooms in Redis, the commands' steps, the apps that poll |
| `JamProofs` | its inductive invariant and proofs |
| `MCQueue`, `MCJam` | instances |

### Billing and the code

The variables `payment`, `user`, `sub`, `uses` and `redeemed` are *committed* rows.
`tx[w]` is the transaction of request handler `w`: its operation, its next statement
`pc`, and what it remembers. `held` is the row locks. `job` is the daily job's
transaction. A transaction takes its locks one statement at a time, and its writes appear
in the step that commits it; it has locked every row it writes, so nobody could see the
difference. A step's guard `FreeFor(w, r)` is a `SELECT ... FOR UPDATE` or `UPDATE` that
waits.

| Action | Code |
|---|---|
| `start_checkout` | `S:97-229`; one step, its row is invisible until the commit |
| `on_pre_checkout`, `Capture` | `bot/payments.py:62-75`; the provider's own books (external) |
| `settle_callback`: `gateway_callback`, `on_successful_payment` | `api/routers/payments.py:197-229`, `bot/payments.py:78-95`, `S:241-254`, `S:303-328` |
| `locked_payment`, `verify_paid/failed/error` | `S:256-290`; `Zarinpal.verify` (`iranian.py:113-133`), `TelegramStars.verify` (`stars.py:76-88`), card to card always refuses |
| `charge_code`, `lock_user`, `lock_live`, `activate` | `S:356-374`, `S:410-488` |
| `on_review_decision`, `reject_payment`; `on_receipt_photo`, `attach_receipt` | `bot/payments.py:159-236`, `api/routers/admin.py`, `S:394-407`, `S:631-644` |
| `refund`, `revoke`, `finish_refund` | `S:647-690` |
| `start_trial`, `gift` | `S:491-563` |
| `job_*` | `S:579-613`, `S:693-705`, `workers/jobs.py:163-191`; an `UPDATE` chooses its rows when it starts and looks again at each once it has the lock |
| `rollback`, `job_rollback` | a crash, a lost connection, or the deadlock detector (`Deadlocked`) |

A callback names its payment, and brings the route it came by: the provider of the route is
asked, not the payment's (`Routes`). Zarinpal's answer is about the reference in the callback
(`Referred`); stars takes the callback at its word where there is one of the right amount and
currency; card to card refuses. Through the bot only Telegram speaks. The constant
`Unsolicited` is the set of providers to whose routes callbacks come that neither the provider
nor its payer sent, for payments of whatever provider; with `"card"` in it any payment may meet
a refusal at any time, with `"stars"` or `"gateway"` an acceptance too. `base.py:8-9` asks of
every provider to call the gateway and to trust no parameter of the callback; `stars.py:76-88`
rests on who delivers it instead.

Two details carry most of the behaviour. SQLAlchemy's identity map: an object loaded
before a locking SELECT keeps the attributes it was first loaded with (`Seen`), and an
attribute assigned its loaded value is not written (`Written`, `seenPlan`). And READ
COMMITTED: each statement of the job sees what was committed when it began.

Left out of `Billing`: the unique index `subscriptions_one_live` (the point of
`OneLivePerUser` is that the locks do without it); the key-share locks of foreign keys;
hours and minutes (time is in days); the sending of notices and the provider's refund
call, whose failure is only logged; `reward_referral`, which nothing calls; `reviewed_by`
when a refund sets it. Ids stand for creation order. `start_trial` locks the user and then
tests for a live subscription; the two are one step, because the job cannot commit a
lapse of a user who is locked. `premium_until` always differs when it is assigned, so it is
always written.

### Crawl and the code

One row `channel`, one record per edge process in `worker`, requests in `net`. A request
whose worker stopped waiting (30 s, a 5xx, a crash) has `from = None`; it may still be
handled, or be lost. The core handles a request in one step, because `_locked` locks the
row first; `crawl_batch_lapsing` is the one exception, a lease that runs out between the
check before the ingest and the check after it. Time is three kinds of countdown: the
lease, the wait until the channel is due, and a worker's pause after a block.

| Action | Code |
|---|---|
| `claim` | `CR:66-151`: first reclaim what dead workers left, then hand out what is due |
| `fetch`, `GoOn`, `Close` | `webpreview/crawler.py:243-292`, `mtcrawl.py:195-250`, `worker.py:141-243` |
| `PreviewUnavailable`, `ChannelUnreadable`, `CrawlBlocked`, `CrawlError` | `worker.py:161-228` |
| `GiveUp`, `Crash`, `Lose` | `core_client.py:51-104`, the edge process, the network |
| `crawl_batch`, `release`, `report_failure` | `api/routers/internal.py:100-156`, `CR:209-377` |
| `load_channel`, `flush_channel` | `admin.py:499-511`, `admin.py:934-956`, `channels.py:99-113`, `discovery.py:246-258`: read, change and write without a lock, writing only what differs from what was read |
| `blacklist_add` | `admin.py:558-564`, one UPDATE |
| `Post`, `Delete`, `Tick`, `ToggleFallback` | Telegram, the clock, the flag `mtproto_fallback` |

What goes wrong is drawn from the constant `Troubles` and costs one of `MaxTroubles`.
Claiming, reading, posting and answering are free. `Tick` is free while no walk is under
way and costs a "slow" trouble during one: a walk is quick against its lease unless
something is slow. The channel posts only while the core knows how far it was read, and
at most `Burst` messages ahead; without that bound a channel that posts faster than pages
are read is never caught up with.

Left out of `Crawl`: the other channels (so the order and the limit of `claim`, and a
block that another channel caused); `apply_meta` merging two rows; parser health;
the crawler's master switch (on) and a missing username; `bot_member` channels and the
crawl status `done`, which no code of this component writes. Every message counts as
music. A permanent failure's year and the day of a parked channel are both `LongWait`.
Tokens are random numbers in the code and a pool of unused ones here.

### Session and the code

The rows of `refresh_tokens` are `family`, `used` and `revoked`, indexed by order of issue.
A refresh at the server takes two steps, because the locked row (`rotating`) keeps others
out until the commit, and the revocation of a family sees only the rows committed when its
`UPDATE` began. `stored` is localStorage, shared by all `Tabs`; the rest is a page's memory
(`miniapp/src/api/client.ts:57-60`). Each request (`call`) is in one of `Slots`; the one that
started a refresh has it in `refresh`, the others wait for it (`inflight`). A page that
closes leaves its requests behind (`orphans`). `kind` is the client: the two files differ
in what happens without a stored token, after a refusal, and when the API's origin cannot
be reached.

| Action | Code |
|---|---|
| `RefreshServed`, `OrphanServed` (`HandleRefresh`) | `services/auth.py:111-145` |
| `GateServed`, `LoginWithWidget` (`HandleLogin`) | `services/auth.py:68-108`, `web/src/api/client.ts:165-172`: refused to a banned user and for data that is too old |
| `Request`, `Answered`, `Unauthorized`, `Forbidden`, `RequestLost` | `api`, `raw` (`miniapp/src/api/client.ts:117-133`, `179-198`) |
| `Authorize`, `Joined`, `Proceed`, `Reject` | `authorize` (165-172): one refresh for all |
| `RefreshAnswered`, `RefreshThrottled` | `refreshTokens` (146-163); a 429 is one more refusal |
| `RefreshLost` | a network error, a 5xx; on the web once more on the page's own origin (`web/src/api/client.ts:132-147`) |
| `Open`, `Leave`, `WebSignOut` | `web/src/App.tsx:434-447`, `487`; a reload |
| `Lapse`, `Age`, `Ban` | time and device clocks: the access token, the launch data of a page (`auth_max_age_s`, `config.py:48`, `initdata.py:75-79`); an administrator |

Kept as the code has it: a failed first `authorize()` rejects the request and does not call
`onUnauthorized`; a forced one that fails does, also when only the network failed, and signs
the web page out; a refusal clears whatever is stored by then; the refusal of a banned user
rolls its own revocation back (`auth.py:134-136`). Assumed: an answer is sent after its
transaction is committed. A page keeps the launch data Telegram opened it with, so a page in
`aged` can refresh but no longer log in; a reload may find the same data. The web widget's
data is fresh, because the user just signed in. Left out: the thirty days of a refresh token, a
clock that is ahead of the server's, storage that is disabled. The admin panel has a third client without refresh (`admin/src/api/client.ts`): a
late 401 there removes the token of a newer login.

### Queue and the code

The variables are the fields of `PlayerState` (`P:205-230`); sequences count from 1 and
`index` from 0, as in the code (`At`). A skip reads the store, then waits: `skip` holds what
`next()` or `previous()` read, `stations` the calls that wait for `fetchRadio`, `mixes` the
`setSmartShuffle` calls, `loads` the loads that have not ended. A fade that is cancelled
resolves no promise (`E:417-443`), so its skip is gone: whatever cancels a fade sets `skip`
to `NoSkip`.

| Action | Code |
|---|---|
| `Play`, `PlayRow`, `LoadEnds` | `play` (`P:232-262`), `FullPlayer.tsx:256` |
| `Follow` | `follow` (`P:264-285`), called by a transfer from another device (`store/connect.ts:158-161`) and by a Jam (`jam.ts:96`) |
| `TapNext`, `FadeEnds`, `Ended`, `StationArrives` | `next` (`P:313-397`): manual queue, source, station, end |
| `TapPrevious`, `GoBack` | `previous` (`P:399-441`) |
| `TapManualRow`, `RemoveManual`, `ReorderManual`, `ReorderRest`, `RemoveFromQueue`, `Enqueue` | the queue sheet (`FullPlayer.tsx:185-270`), `P:557-597` |
| `ShuffleOn`, `ShuffleOff`, `TapSmart`, `SuggestionsArrive` | `P:460-530` |
| `CycleRepeat`, `CancelFade` | `P:532-548`, `P:301-303` |

Left out: the commands that go to a room instead of the store while a Jam lasts (`remote`)
and the queue a room's edits then write into the store in place (`store/jam.ts`), which are
`Jam`'s; `moveInQueue` and `moveManual` (no screen calls them), `previous` well into a track and repeat-one (they
restart the element), and the sound, which is `Playback`'s. `adrift` is a history
variable: it says that the store was left out of step in one of the three ways the
comment above `SourceInPlace` names.

### Playback and the code

`loads` is the bag of `load()` calls and resuming `toggle()`s, each at one of its awaits:
the ticket, `el.play()`, the delay of a retry. `el` and `events` are the two elements and the
tasks they have queued. Four operators (`WithSrc`, `WithPlay`, `WithPause`, `WithVolume`)
stand for the HTML standard: a new `src` drops the element's queued events and rejects its
`play()` promises, `pause()` rejects them too, and a rejection is handled before the next
task (`Settled`); `play()` on an element that has an error refuses at once (`Promised`).
`fadingOut` is the set of elements that a crossfade is still taking out: two, when a second
one starts before the first is over. Which track is chosen is left to `Queue`.

| Action | Code |
|---|---|
| `Choose`, `Ends`, `Pause`, `Resume` | `play`, `next` after its fade, `toggle` (`P:232-311`), `transitionAhead` (`P:652-668`), `onEnded` (`P:726-735`) |
| `Start` | `load` up to the ticket (`P:817-836`), `takePreloaded` (`E:191-197`) |
| `TicketArrives`, `Refused` | `P:840-868`, `swapBack` (`E:158-164`) |
| `TicketFails`, `PlayRejected`, `Fail`, `Retry` | `P:873-896`, `retryDelay` (`E:402-404`) |
| `PlayResolved` | `P:869-872` |
| `PreloadNext`, `Preloaded`, `FadedOut` | `E:171-185`, `E:448-466`, `P:827` |
| `OnPlay`, `OnPlaying`, `OnWaiting`, `OnPause`, `OnError`, `HandleSpare` | the listeners of `attach` (`P:670-750`) |
| `Recover`, `StallTimeout` | `recover` (`P:633-647`), `P:714-717` |
| `DataArrives`, `Underrun`, `MediaFails` | the network under an element (external) |

The element may come to its end while the ticket of the track chosen after it is awaited; the
browser pauses it and fires "pause" and "ended" in one task. A medium may fail while it plays,
is paused or is still fetched ahead. A volume is loud or not; a fade that ends is its start and
its end. A ticket that expires is
a `MediaFails`. Left out: the sleep timer, seeking, offline copies, effects, unlocking by the
first touch, saved places of long tracks, the media session. `previous` is not a choice of its
own: with nothing in the source it only restarts what plays (`P:413-414`).

### Jam and the code

`rooms` is `jam:<code>` and `of` is `jam:user:<id>`. A command is `Sent`, `Read` (WATCH and
GET), and written by `Exec` if the key is as it was read, else read again. `join`, `leave`,
`end` and `create` are several Redis calls; each is a step, except the read and write inside
a guest's `leave`, which `WATCH` makes one. `app` is the `useJam` store. An answer is taken
in whenever it comes (`TakeIn`); `polling` lets one poll be under way.

| Action | Code |
|---|---|
| `Read`, `Exec` (`Changed`) | `_mutate` (`J:192-214`) with `control`, `add`, `remove`, `configure`, `join` |
| `Get` | `get_jam`, `current_jam` (`routers/jams.py:98-125`): the settled room is shown, not stored |
| `Enter`, `GoOut`, `Unkey`, `LookUp`, `Delete`, `Create` | `J:237-319` |
| `Poll`, `TakeIn`, `TakeGone`, `TakeRest`, `Lose` | `miniapp/src/store/jam.ts:75-155` |
| `Transport`, `Ended`, `Jump`, `Add`, `Remove`, `Configure` | `jam.ts:163-205`, `278-302`, `screens/Jam.tsx:232-297` |
| `Start`, `Join`, `Leave`, `Reopen` | `jam.ts:220-276` |
| `TrackOver` | the clock (`settle`, `J:139-164`) |

Left out: the position within a track (seek, drift, the local copy that is paused), the
member limit, tracks hidden since they were added (`_out` drops them, so the app's rows and
the room's indexes then differ), and the eight retries, which cannot be used up at these
bounds. Two gaps of the protocol follow from what is there and are no property:
`expected_index` makes a repeated "ended" harmless only while nobody removes a track before
it, and a row is removed or jumped to by its index in the app's copy, which may be old.

## 3. Runs

Every run has at most two concurrent processes of a kind. Two suffice for the races
listed: each is between a reader that goes stale and one writer. A third worker repeats
what the second does. The proofs of section 5 have no such bound. State counts are distinct
states.

### Passing

| Run | Instance | Shows |
|---|---|---|
| `settlement` (3.6 M states) | a Stars and a card payment of one user, the first with a discount code; callbacks for either by the routes of stars and of card to card; two handlers; settle, approve, reject, refund, receipt, the job, crashes; the clock stands and reviews are due at once | `TypeOK`, `OneLivePerUser`, `RefundedNotLive`; `SettledStays` and `ReceiptStopsDeadline`: a late receipt, rejection, deadline or callback never takes "paid" back, but for the refusal of one that was waiting when it was written, and the deadline never closes a review whose receipt came first |
| `lifecycle` (625 k) | one gateway payment, callbacks that refuse it by the card route, trials, gifts, the job, crashes; three subscriptions; days 0-2, so a subscription can be bought, fall into grace and lapse | `IInv`; `TrialOnce`; `GrantBacked`; `CacheNeverOverstates` and `CacheNeverUnderstates`; `RenewalKeepsTime` |
| `ends` (136 k, `FairSpec`) | settle, refund, gift and the job, which take locks in opposite orders | `RequestsEnd`; `DueIsHandled` |
| `serial` (1.1 M) | callbacks by every route; requests about one payment one after another, none about a refunded one (`Disorder = FALSE`) | `IsLedger`: billing then implements `Ledger`, so settling and granting are one step to everybody else |
| `coverage` (2.1 M) | five messages, pages of two, two pages a walk, a lease of two; three troubles out of fifteen kinds | `TypeOK`; `CursorsCover`: whatever interrupts walks, no message between the cursors is missing; `ActiveIsComplete` |
| `arrival` (69 k, `FairSpec`) | pages of one, two troubles out of eleven kinds, lost claims and lost and late requests among them | `ResumesWhereItStopped`: who takes over repeats one page at most; `NewPostsArrive`: every message is ingested, or deleted, or the crawler is no longer meant to read the channel; `LeaseComesBack` |
| `session` (1.5 M) | two pages, two requests in flight, either client; two lapses, logins or faults, one of them a lost answer, a reload, a 429 or a ban; a lapse ends an access token or makes a page's launch data too old | `TypeOK`; `OneFreshPerFamily`; `NoSelfReuse` and `SessionKept`: a page on its own shares one refresh and never loses the session; `TelegramAlwaysGetsIn`: inside Telegram only a page with old launch data is turned away |
| `session_live` (79 k, `FairSpec`) | one page, two slots | `EveryRequestEnds` |
| `queue` (2.1 M) | two sources that share a track, played or followed, a station and suggestions that overlap with them; two manual tracks; five taps | `TypeOK`; `SourceInPlace`: the index is where the source is; `ModesAgree`: no tap, late answer or load leaves Smart Shuffle on without shuffle; `SheetTellsNext`: the first row plays next |
| `playback` (1.2 M, `FairSpec`) | two tracks, two loads at once, two taps or ends, one fault, one retry, one recovery; crossfade on; the browser may refuse sound | `TypeOK`; `SoundIsCurrent`, `StoreAgrees`, `OneSounds`, `NotLeftMute` once all is answered; `LoadingEnds` |
| `jam` (805 k, `FairSpec`) | host and guest, a second code, every command, two of them under way at most (one an app) beside the polls, one lost request | `TypeOK`, with an index inside the queue; `AcceptedStays`; `InOrderQueue`; `EndIsNoticed` |

The bounds are the smallest at which the cases happen: a lease of two can be half over;
pages of two let a page straddle a cursor; two pages a walk make a walk stop half way;
`MaxFailures = 1` lets the limit be passed within three troubles (`coverage`), and 2 lets a
failure be retried (`arrival`). `coverage` leaves out three things that make its
properties false: pages nobody answers (`LostPage` below), updates of more than one page
(`Burst = PageSize`; `InterruptedUpdate`), and an operator who sets an unfinished channel
active by hand. `arrival` deletes no message (`NoFirstMessage`) and loses no page. In
`lifecycle` callbacks come unasked by the card route only, because `GrantBacked` is false
otherwise (`CallbackBelieved`).

In `session` two troubles let a token lapse and its refresh go wrong; in `queue` a source of
three tracks has a first, a middle and a last one, and five taps turn shuffle on, mix
suggestions in, turn it off and skip; in `playback` two taps and a fault let a load overtake
another and a recovery start on top of either. A third tap is needed to refuse sound to an
element a fade still has playing, which `load()` answers by pausing it (`P:860`) before it
swaps back; without that pause `OneSounds` fails, the other song sounding on. With
`MaxOps = 3` the run has 10.3 M states, too many for every day; the invariants hold there as
well, and the theorems of section 5 know no such bound. In `jam` two commands let one be read before the other is written, and a room end
while another starts. One command slot an app is also what `InOrderQueue` is about: with two
joins of one app in flight it is false.

Deadlock checking is off in the instances of billing, the session, the queue, playback and
the jam, which stop when their ids, their clock or their bounds are used up. `Crawl` checks
it.

Fairness. Billing: PostgreSQL queues waiters on a row lock, so a transaction that waits
for one gets it again and again (SF on `Step(w)` and `Job`); cron starts the job daily, one
at a time; the deadlock detector breaks every deadlock (WF); requests, captures and
crashes are never owed. The job may lose deadlocks to a stream of requests for ever, so
`DueIsHandled` assumes that requests pause. Crawl: `worker.py:run` polls every
`claim_interval_s` and survives exceptions (WF on `claim` and `fetch`), the core handles
what a worker waits for, an edit is flushed, time passes. Abandoned requests are owed
nothing. Session: `fetch()` settles and the server finishes what it began (WF on a refresh's
answer and on a request's, and on refreshes left over). Playback: requests are answered, timers
fire, queued events are delivered, data arrives (WF). Jam: each app's timer fires and its
requests are handled and answered (WF on `GoesOn`), though answers may be lost `MaxFaults`
times. No listener owes a tap.

### Violated

| Run | Refuted | What happens |
|---|---|---|
| `two_callbacks` | `ActivatesOnce` | two callbacks of one payment overlap: the second holds the payment as it was before the first, tests that stale status under the lock (`S:256-257`), and activates again. `S:5-7` says "a repeated callback cannot grant two subscriptions" |

Further counterexamples, kept as configurations of the MC modules. Each states what a comment
says, or what a listener or an operator would expect, and TLC refutes it:

| Configuration | Refuted | What happens |
|---|---|---|
| `LateFailure` | `SettledForGood` | of two overlapping callbacks the second, refused, writes "failed" over "paid" (`S:262`): the exception of `SettledStays` |
| `CallbackBelieved` | `GrantBacked` | `base.py:8-9` asks providers to verify by calling the gateway, "never by trusting callback parameters"; a callback by the stars route settles a payment nobody captured (`stars.py:76-88`, `S:310`) |
| `RefundOfOld` | `CacheNeverUnderstates` | refunding a payment whose subscription was replaced sets the user's plan to free (`S:677`) |
| `StarsAtExpiry` | `CacheNeverUnderstates` | the user loaded in `bot/payments.py:85` hides a downgrade by the job, and the paid plan is not written |
| `CodeUsedUp` | `ConfirmedSettles` | a discount code is counted at settlement only (`S:366`); a second captured payment can never be settled |
| `TwoReaders` | `OneReader` | a page does not extend the lease (`CR:250-254`, although `CR:251` says so) |
| `RecrawlRace` | `FullRecrawlStartsOver` | a claim between load and flush of a full recrawl keeps its lease |
| `Readded` | `PendingIsPickedUp` | a failed channel added again keeps `fail_count` at the limit (`channels.py:111`) |
| `ParkedForGood` | `FlagUnparks` | a channel that parks with its last allowed failure is not un-parked (`CR:112`, `CR:340`) |
| `LostPage` | `CursorsCover` | a page that the core did not answer counts as posted (`worker.py:158`, although `core_client.py:88-89` says that a failed post ends the run); the next page moves the cursor over it |
| `InterruptedUpdate` | `CursorsCover` | the first page of an update raises `newest_crawled_msg_id` to the top (`CR:236`); if the walk dies there, the rest is never read ("loses at most one page of progress", `CR:4-5`) |
| `NoFirstMessage` | `NewPostsArrive` | a channel without message 1 is backfilled for ever (`CR:135`) and its new messages are never asked for |
| `DecisionOverwritten` | `DecisionStands` | a walk that finishes makes a channel active that was blacklisted meanwhile (`CR:279`, although `admin.py:541` says that blacklisting stops its indexing) |
| `FamilyRevoked` (`MCSession`) | `FamilyDiesTogether` | a rotation under way when the family is revoked commits its new token afterwards ("revokes the whole family", `auth.py:114`) |
| `WebTwoPages` (`MCSession`) | `WebKeepsSession` | two pages of the web app refresh at once; the loser's refusal clears the token the winner stored, and a page signs out |
| `LaunchAged` (`MCSession`) | `InitDataAlwaysWorks` | "initData login, which always works inside Telegram" (`client.ts:8`): launch data older than `auth_max_age_s` is refused (`auth.py:71-77`), and a page sends what it was opened with |
| `FollowKeepsSmart` (`MCQueue`) | `ShuffleStaysOn` | "shuffle stays on" (`player.ts`, the comment on `smart`): `follow` turns shuffle off and leaves `smart` and `smartIds` (`P:269-273`) |
| `SheetAside` (`MCQueue`) | `SheetAlwaysTellsNext` | what is queued while a skip fades out is not what plays: `next()` goes on with the queue it read (`P:314`) |
| `SmartTakes` (`MCQueue`) | `SmartTakesOnlyItsOwn` | a track that Smart Shuffle suggested and the source also holds is taken out as its own (`P:484`) |
| `StallUnwatched` (`Playback`) | `StallIsWatched` | after a recovery `stalled` is still set, so the next stall starts no timer (`P:709`, against `P:196`) |
| `PauseUndone` (`Playback`) | `PauseStays` | pausing rejects the `play()` that waits for data; `load()` takes that for a network error and starts again (`P:886`) |
| `KeyLost` (`MCJam`) | `KeysFollow` | the deletes of `end` (`J:319`) remove the keys of members who are in another room by then: reopening the app no longer puts them back |
| `QueueStale` (`MCJam`) | `QueueIsTheRooms` | a poll answered without the queue, taken in after a later answer or before an earlier one, leaves an old queue under the room's `qrev` (`jam.ts:78`), which is then never sent again |
| `JamComesBack` (`MCJam`) | `ShowsChosenRoom` | a poll under way while the listener leaves brings the jam back (`jam.ts:128`) |

## 4. What the properties do not say

`TypeOK` of `Billing` bounds no counter: `uses` may pass its limit as far as the type is
concerned, and it is `charge_code`'s guard, the table's CHECK, that stops it.
`CursorsCover` and `ActiveIsComplete` are about runs in which every posted page is
answered. `NewPostsArrive` is about the time after the last trouble, and about a channel
whose first message exists. `IsLedger` holds only for serial requests: with overlapping
callbacks it is false, as `two_callbacks` shows. `SettledStays` excepts the refusal of a callback
that loaded the row before it was settled and waited (`LateRefusal`), on whatever route.
`GrantBacked` is about callbacks that the provider or its payer sent; what the code does with
others is `CallbackBelieved`.

`NoSelfReuse` and `SessionKept` are about one page whose answers arrive; with two pages the
web app does lose its session (`WebTwoPages`). `TelegramAlwaysGetsIn` counts no network error
as being turned away, and says nothing of a page whose own launch data is too old; when its
family is revoked such a page is turned away (`LaunchAged`) until it is opened anew.

`ModesAgree` allows `Follow`, and only it, to leave Smart Shuffle on without shuffle; the next
tap on the shuffle button, a played source or shuffle put it right. `SourceInPlace` and
`SheetTellsNext` except the store left `adrift`. The properties of
`Playback` are about calm states, and not about what follows a load that failed after its
track was left or was refused or failed beside another load, nor a track chosen again while it
still loads (`tangled`). There the code does go wrong: the late failure's error and stopped
button land on the new track (`P:894`); the stopped button of a load the browser refused lands
over the sound of a load beside it (`P:880`); tapping A, B, A lets both elements play; a plan
limit on B leaves A sounding under B's title. Outside the model's properties too: a
crossfade's late pause stops a track preloaded into that element meanwhile (`P:827`), and a
recovery that starts while nothing plays yet loads without sound (`P:640`).

`AcceptedStays` says nothing about order. `EndIsNoticed` is about the room; that an app gets
back into it is `KeysFollow`, which fails.

## 5. Proofs

`BillingProofs` proves, for any users, payments, subscriptions, handlers, plans, prices
and bounds that satisfy the assumptions named in `Billing`, and for `Disorder` either way:

| Theorem | Statement |
|---|---|
| `Inductive` | `Spec => []IInv` |
| `TypeCorrect` | `Spec => []TypeOK` |
| `AtMostOneLive` | `Spec => []OneLivePerUser` |
| `RefundsHold` | `Spec => []RefundedNotLive` |

`OneLivePerUser` is not inductive. `activate` inserts a live row after it read, two
statements earlier, that there was none or which one there was, and nothing in the rows
says that this is still so. `IInv` adds what the locks guarantee:

- `Exclusive`: a row lock has one holder.
- `PaymentHeld`, `UserHeld`: past its lock statement a transaction holds the row.
- `LiveKnown`: at "grant" the remembered live subscription is live and locked, and is the
  user's only one. Others cannot add one (they need the user's row) nor end it (they need
  its row).
- `RefundCovers`, `StatusKnown`: a refund that holds its payment has locked, or has still
  to lock, every subscription of it, and no new one can appear, because who would add it
  waits for the payment's row; an approval's status is current.
- `JobKnown`: what the job put aside is locked by it and still as it found it.
- `Shape`, `RowsComplete`, `Present`: which operation is at which statement, and that an
  id without a row is not locked.

Each action preserves each conjunct it can disturb, in a lemma per conjunct; the temporal
step is one rule. TLC checks `IInv` itself in `lifecycle`.

`GrantProofs` proves, under the same assumptions:

| Theorem | Statement |
|---|---|
| `GrantsInductive` | `Spec => []GInv` |
| `NothingUnpaid` | `Solicited` implies `Spec => []GrantBacked` |
| `OneTrial` | `Spec => []TrialOnce` |
| `CacheInductive` | `Spec => []CInv` |
| `PremiumEndBacked` | `Spec => []EndBacked`, the half of `CacheNeverOverstates` about `premium_until` |
| `CacheBacked` | `NoStars` implies `Spec => []CacheNeverOverstates` |
| `RenewalsAddTime` | `Spec => RenewalKeepsTime` |
| `AsksInductive` | `Spec => []SInv` |
| `DeadlineWaits` | `Spec => ReceiptStopsDeadline` |
| `PremiumEndPromised` | `NoRefunds` implies `Spec => []Promised`: `premium_until` is the end of the live subscription |
| `CachePromised` | `NoRefunds` and `NoStars` imply `Spec => []CacheNeverUnderstates` |

`Solicited` says that `Unsolicited` has neither stars nor the gateways. It is the weakest
hypothesis of its kind: what `verify` makes of a callback on these routes that somebody else
sent is what `CallbackBelieved` shows. That a bought row is its payment's user's and plan's
(`Owned`) needs no hypothesis.

A row is written from what its transaction read earlier, so `GInv` adds `Knows`: a settlement
or approval carries its payment's user and plan to the end; under `Solicited` a settlement past
its verification is of a payment the provider captured (`Vouched`); a trial past the lock of the
user's row still finds `trial_used` unset. The last holds because whoever sets the mark needs that lock, which is
where `IInv` (`Exclusive`, `UserHeld`) is used. `TrialsMarked` says of any two rows what
`TrialOnce` counts: two trials of one user are one row, and the user is marked.

`CInv` is about two tables that must agree although different handlers write them. `Carries`
says what a transaction holds: a refund has locked subscriptions of its own payment only (with
`Owned`, of its own user, so that no other user's row loses its backing); the live row a
grant replaces is its user's; while a trial is being given its user has no live row; and the
plan read under the lock of the user's row is still there at the write. `DowngradesHeld` says
that the job's third UPDATE has locked every user whose subscription the second one ended. The
last part of `Carries` is where stars are different: the user is loaded before the lock
(`bot/payments.py:85`), so `plan_code` may be left at a plan that was replaced meanwhile.
`CacheBacked` therefore assumes `NoStars`, and `lifecycle` with `ProviderOf <- Stars` and
`Ops = {"settle", "gift"}` gives the counterexample; `premium_until` is right even then.
`RenewalsAddTime` needs `CInv` for one fact, that a trial never replaces a live subscription,
and `GiftDays > 0`, which the route asks (`admin.py:246`).

`DeadlineWaits` rests on a list of who writes a payment's status and what each asks first
(`PaymentWrites`), and on `SInv`: a review the job is about to close has no receipt, because
its row is locked since the job looked, and whoever brings a receipt needs that lock. That
`plan_code` and `premium_until` promise no less than the live subscription is the converse of
`CacheBacked` (`Promised`): whoever grants writes the user's row in the same commit, under its
lock, and the job sets back only users whose live subscription it ends. It is false with
refunds, which empty the row of a user whose subscription has been replaced since
(`RefundOfOld`), and for `plan_code` with stars (`StarsAtExpiry`); the hypotheses name exactly
these two.

`LedgerProofs` proves, under the same assumptions:

| Theorem | Statement |
|---|---|
| `OrderlyInductive` | `~Disorder` implies `Spec => []DInv` |
| `BillingImplementsLedger` | `~Disorder` implies `Spec => IsLedger` |
| `PaidStays` | `Spec => SettledStays` |
| `PaidForGood` | `~Disorder` implies `Spec => SettledForGood` |

Initial states are the empty ledger's, and each action is a step of it or leaves it alone:
`start_checkout` opens, `reject_payment` and `verify_failed` close, `activate` settles or
bestows, `finish_refund` refunds, `job_commit` is a round, and locks, reads, verifications and
rollbacks are invisible. `DInv` supplies the guards the ledger has and the transactions check
long before they write: a settlement or approval still finds its payment unpaid, a refund still
finds it paid, and a payment with a subscription has been settled, so none has two. `~Disorder`
(`Alone`, and what `MayTouch` asks) is needed: with overlapping callbacks `two_callbacks` and
`LateFailure` are counterexamples. That a pass is one pass is `OneLivePerUser`; that a new one
extends the old is the lemma of `RenewalsAddTime`; and that a refund takes its own user's pass
only is `Carries` with `Owned`.

`PaidStays` takes the writers of `PaymentWrites` one by one: of those that do not write "paid"
or "refunded", all but one look at the status under the lock and leave a settled payment
alone. The exception is the refusal of a callback (`S:262`), which overwrites "paid" only with a
row it loaded before (`LateRefusal`), as `LateFailure` shows; without overlap it finds no paid
payment (`DInv`), which is `PaidForGood`. Neither theorem asks which routes callbacks come by.

`SessionProofs` proves, for any pages, request slots and bounds:

| Theorem | Statement |
|---|---|
| `Inductive` | `Spec => []IInv` (the `IInv` of that module) |
| `TypeCorrect` | `Spec => []TypeOK` |
| `OneUsable` | `Spec => []OneFreshPerFamily` |
| `SessionInductive` | `Spec => []SInv` |
| `NoPageReuses` | `Spec => []NoSelfReuse` |
| `NeverLost` | `Spec => []SessionKept` |
| `AlwaysGetsIn` | `Spec => []TelegramAlwaysGetsIn` |

`OneFreshPerFamily` is not inductive: a rotation inserts the next token two steps after it
found the old one usable. `IInv` adds `HeldIsFresh`, a token whose row a rotation holds is
neither consumed nor revoked, and `HeldBySlots` and `HeldByOrphans`, a request that rotates
holds its token's row and no other request, on a page or left over from one, rotates the
same token. A revocation waits for held rows, so it cannot break `HeldIsFresh`; and the
committing rotation consumes the only usable token of its family as it adds the next.

`SInv` is about the pages. `OneFlight` and `Shown`: a page has one refresh, `inflightAuth`
names it, and only a page that shows the app has requests. While nothing disturbs the page
(`Quiet`), it is `Alone`; no token that a request exchanges, an answer brings or the gate
carries has been exchanged, and the gate's is nobody else's (`Carried`); and what is stored
has not been exchanged, or its exchange was answered (`Kept`). A ban is no disturbance, so
`Alone` has to allow for one refresh that outlives the page a banned user was signed out of;
it is the last one. `Telegram` says that an initData login is refused only to a banned user,
to a page in `aged` or by a fault, and that who tries a second time has a new token, so no
second 401 comes. A page may grow old while its login is under way; what was sent in time is
answered all the same, so `aged` excuses a refusal and does not foretell one.

`JamProofs` proves, for any listeners, codes, command slots, actions and bounds:

| Theorem | Statement |
|---|---|
| `Inductive` | `Spec => []IInv` (the `IInv` of that module) |
| `TypeCorrect` | `Spec => []TypeOK`, with `Fits`: the playhead is on a track of the queue |
| `NothingUndone` | `Spec => []AcceptedStays` |
| `QueueInOrder` | `Spec /\ []OneEntry => []InOrderQueue` |
| `QueueInOrderOne` | one command slot: `Spec => []InOrderQueue` |

A command's new room is made from the copy it read, at another step, so the invariants of
the rooms need those of the copies: `Sound` says that a request about to write holds a
well-formed room and one of the kinds `control`, `add`, `remove`, `configure` or `join`
answers, and that an answer to be taken in carries a room. `ChangedOK`, with one lemma per
operator, shows that every change of a well-formed room gives one: removing never takes the
playing track, adding beside it moves nothing before it, a skip stays in the queue.
`AcceptedStays` then rests on `Watched` alone: the room that is written over is the copy.

`InOrderQueue` relates an app to its room over everything under way between them (`QInv`).
Rooms only grow: a change keeps the queue and its number or gives it a new number
(`ChangedQueue`), and a code is given out once, so what an app, a request or an answer knows
of a room is the room's queue or an older one (`Copies`, `Good`). An answer without the queue
is for an app that knew the room's number, and no request of an app in the room knows more
than the app does (`InOrder`); an answer that is not late knows no less; so the numbers are
equal and the queue the app shows is the answer's. `OneEntry`, that no app has two requests
under way which would put it into a room (create, join, resume), is a hypothesis: with two
joins of one app, the older answer is taken in after the listener has left again, no
overtaken number tells, and a poll from before then pairs the new number with the old queue.
The screens keep to it: the start button is disabled while it waits, an invite is tried once
and shows nothing else until it is answered, and `resume` runs only where no invite is open
(`screens/Jam.tsx:106-118`, `412-435`, `App.tsx:295`).

`CrawlProofs` proves, for any workers, tokens, messages, limits and troubles:

| Theorem | Statement |
|---|---|
| `ShapeInductive` | `Spec => []TInv` |
| `TypeCorrect` | `Spec => []TypeOK` |

Types alone are not inductive: a failure is counted on from `fail_count`, which stays within
`MAX_FAILURES` because only a channel below the limit is handed out (`LeaseFree`), and an
answer moves the worker that waits for it, which is where the request left it (`Awaited`,
`Single`).

Its second part proves, of the same instances, what the cursors promise:

| Theorem | Hypotheses | Statement |
|---|---|---|
| `WalksAreSingle` | `NoLostPage` | a token is one walk's and at most one request's; cursors come in pairs |
| `CoverInductive` | `NoLostPage`, `BurstFits` | `Spec => []Covered` |
| `CursorsCovered` | the same | `Spec => []CursorsCover` |
| `CompleteInductive` | the same, `NoForcedActive` | `Spec => []Complete` |
| `ActiveComplete` | the same | `Spec => []ActiveIsComplete` |
| `ResumesInductive` | `NoLostPage`, `NoFullRecrawl` | `Spec => []Resumes` |
| `BackfillResumes` | the same | `Spec => []ResumesWhereItStopped` |

Each hypothesis leaves out a kind of trouble, or a size, with which the property is false of
the code, and there is a counterexample for each: a page nobody answers that counts as posted
(`LostPage`), an update longer than a page (`InterruptedUpdate`; `BurstFits` is
`Burst <= PageSize`), an unfinished channel set active by hand, and a full recrawl under a
walk (`RecrawlRace`). Every other trouble is in: crashes, blocks, late, lost and reordered
requests, leases that run out, before or during a batch, and hand edits flushed late.

The row says nothing of a walk that has read on, or of a page on its way. `Covered` therefore
speaks of three places: the row; every walk whose lease is good (`WalkCovers`: with its
cursors the row would still cover); and every request whose lease is good (`PostCovers`: the
same, once its items are stored). A claim moves from the row to a walk when the channel is
handed out, from the walk to its request when a page is posted, and from the request back to
the row when it is handled. `OneWalk` says that no two of these share a token, so what one
of them does cannot break the claim of another. `Few` bounds what is above the cursors by a
burst, which is why the first page of an update reaches down to them. `Complete` adds that
an active channel has nothing missing below its cursor either, and `Resumes` that the row is
where the walk is as soon as the page is handled. TLC checked the three invariants on
`coverage` and on `arrival`'s troubles before they were proved.

Least and greatest messages are those of sets of numbers. The library's induction rules
cannot be used here, because they take an operator, but its fact that `<` is well founded is
a first-order one: that a bounded set of numbers has a least and a greatest element
(`MinOfSet`, `MaxOfSet`) follows from it.

`QueueProofs` proves, for any tracks (0 is none, as in the code), sources, stations,
suggestions and bounds:

| Theorem | Statement |
|---|---|
| `QueueInductive` | `Spec => []IInv` (the `IInv` of that module) |
| `QueueTyped` | `Spec => []TypeOK` |
| `IndexStays` | `Spec => []SourceInPlace` |
| `ModesAlwaysAgree` | `Spec => ModesAgree` |
| `SheetIsRight` | `Spec => SheetTellsNext` |

`SourceInPlace` needs two facts it does not state (`Sits`). While nothing has played the
source is empty: a track queued by hand may start the player, and its index must not point
into a source. And an empty source has index 0 and no call for suggestions waiting, so an
answer never makes a source under a manual track. That a skip which goes on with an old store
is no danger here is what `adrift` records; types are another matter, so `IInv` also types
what `skip` and `stations` have read. `SheetIsRight` then is about one step: the store a skip
read is the store as it is, and `Advance` or `TakeManual` takes the head of `Upcoming`.
`ModesAlwaysAgree` is about every step: turning Smart Shuffle on turns shuffle on first
(`P:498`), turning shuffle off ends it, and suggestions that come late are dropped once it is
off, so `Follow` is the one step after which it is on alone.

Filtering and mixing are stated by positions (`Sub`, `Mixed`), not by recursion, so what they
return can be proved: the ranks of a set of positions are a bijection with an interval
(`PlaceHasRank`, from the pigeonhole facts of the library), hence `SubIsSeq` and `SubOfAll`.

`PlaybackProofs` proves, for any tracks, retries, recoveries, loads under way, taps and
faults, with and without crossfades and refusals:

| Theorem | Statement |
|---|---|
| `PlaybackInvariant` | `Spec => []PlaybackInv` |
| `TypeCorrect` | `Spec => []TypeOK` |
| `SoundFollows` | `Spec => []SoundIsCurrent` |
| `ButtonFollows` | `Spec => []StoreAgrees` |
| `OneSong` | `Spec => []OneSounds` |
| `NeverMute` | `Spec => []NotLeftMute` |

The four properties are about calm states, where nothing is under way; `PlaybackInv` says what
is true on the way there, and at rest it says what they say (`OrderlyQuiet`). `Valued` always
holds: who waits for `play()` waits on an element that is not paused and has no error
(`Waits`), the last play or pause event in an element's queue tells the truth about it
(`Tells`), and what is fetched ahead is not the current track and goes into the spare.
`Orderly` holds while nothing is `tangled`. A load of the current track is about the active
element (`Placed`); the other element is paused or has a fade that will pause it
(`OtherSilent`); the active element holds the track and is loud, or a load will see to it
(`SrcRight`, `Audible`); and `isPlaying` is what the element does, or an event that says so is
queued, or a load will still start or fail it (`Up`, `Spoken`, `Down`). `Swapped` is the least
obvious: a load that took the spare may get its ticket with the link
still good and then calls `play()` on an element that plays already, which queues no event; it
does no harm only if the store knows of that sound or a fade is about to end it.

Two details of `Playback` matter only above the bounds of its run, where the proof needs them
and TLC, with `MaxOps = 3`, refutes `StoreAgrees` without the first: `tangled` counts a load
that is refused beside another one, and `fadingOut` is a set.

Model-checked only: liveness (`RequestsEnd`, `DueIsHandled`, `NewPostsArrive`,
`LeaseComesBack`, `EveryRequestEnds`, `LoadingEnds`, `EndIsNoticed`), which TLAPS does not
reach. Every other property of the runs is stated by a theorem, some with the hypotheses the
tables above name.

## 6. Not modelled

| Part | Why |
|---|---|
| Resolver, ingest | single-row updates around a call to the edge; duplicate groups are recursive SQL. Their races are known (an attempt count written from an old value, a track left pending) and listed among the hazards |
| Broadcasts, notifications | one sequential loop each; the faults are a crash between save and send, and a count that stands for a place in a changing list |
| Connect | a hash of devices and an inbox each; delivery at most once, like `Jam`'s commands |
| Several channels in `Crawl`, `apply_meta` | the order of `claim` among channels is fair only if backfills end; it needs many rows |
| Start of the app (`Boot`), optimistic likes, the DJ | thin sequences of requests over `Session` |
| Search sync, library, playlists, social | row-per-user edits under database constraints; a copy by `updated_at` |
| Recommendations, taste, blends | scoring queries with floating-point weights |
| Text and HTML parsing, media I/O, generated clients, deployment | pure I/O or no state |
