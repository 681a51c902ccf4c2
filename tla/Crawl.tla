-------------------------------- MODULE Crawl --------------------------------
(***************************************************************************)
(* Crawling one channel: the scheduler in the core                         *)
(* (backend/app/services/crawling.py behind api/routers/internal.py), the  *)
(* edge workers that walk its pages (indexer/tmusic_indexer/webpreview/    *)
(* worker.py, crawler.py, mtcrawl.py, core_client.py) and the people who   *)
(* change its row meanwhile (services/admin.py, channels.py, discovery.py).*)
(*                                                                         *)
(* A worker and the core exchange HTTP requests; a request the worker      *)
(* stopped waiting for can still be handled, or never arrive.  The core    *)
(* handles a request in one transaction under the channel's row lock       *)
(* (crawling.py:_locked), hence in one step.  The clock appears as timers  *)
(* that count down: how long the lease still runs, how long until the      *)
(* channel is due, how long a worker keeps away from Telegram.             *)
(***************************************************************************)
EXTENDS Naturals, FiniteSets, FiniteSetsExt

CONSTANTS
  Worker,        \* edge processes
  Token,         \* lease tokens: random in the code, here a pool of unused numbers
  None           \* SQL NULL: no lease

CONSTANTS
  MaxMsg,        \* bound on message ids
  First,         \* the messages of the channel when it is added
  Burst,         \* the most new messages between two looks at the channel
  PageSize,      \* messages on one page
  MaxPages,      \* crawl_max_pages, max_crawl_pages_mtproto
  Lease,         \* indexer_lease_s
  Interval,      \* next_interval
  Retry,         \* retry_after
  BackoffCap,    \* the 720 minutes of report_failure
  LongWait,      \* its day (and more) until a parked channel is due again
  MaxFailures    \* MAX_FAILURES

CONSTANTS
  Troubles,      \* what may go wrong or be changed by hand in this instance
  MaxTroubles    \* bound on how often

AllTroubles == {"slow", "crash", "lost_claim", "give_up", "lost_page", "unavailable", "blocked",
                "failure", "unreadable", "delete", "fallback", "recrawl",
                "recrawl_full", "paused", "active", "blacklist", "readd", "approve"}

ASSUME CountsAreNumbers ==
  /\ {MaxMsg, PageSize, MaxPages, Lease, MaxFailures, Burst} \subseteq Nat \ {0}
  /\ {Interval, Retry, BackoffCap, LongWait, MaxTroubles} \subseteq Nat
  /\ {Interval, Retry, BackoffCap} \subseteq 0..LongWait
ASSUME ChannelHasMessages == First \subseteq 1..MaxMsg /\ First # {}
ASSUME TokensSuffice ==
  /\ IsFiniteSet(Token) /\ Token \subseteq Nat /\ None \notin Token
  /\ IsFiniteSet(Worker) /\ None \notin Worker
  /\ Cardinality(Token) > Cardinality(Worker) + MaxTroubles + 1
ASSUME TroublesAreKnown == Troubles \subseteq AllTroubles

VARIABLES
  posts,         \* the messages the channel has on Telegram
  top,           \* the highest message id it ever used
  channel,       \* the row of the channel
  fallback,      \* the flag mtproto_fallback
  stored,        \* messages whose tracks the core has ingested
  worker,        \* what each edge process is doing with the channel
  blocked,       \* CrawlWorker._blocked_until, counting down
  net,           \* requests on their way to the core
  edit,          \* an edit of the row by hand: loaded, not yet flushed
  budget         \* troubles that may still happen

telegram == <<posts, top>>
edge == <<worker, blocked>>
vars == <<posts, top, channel, fallback, stored, worker, blocked, net, edit, budget>>

Statuses == {"pending", "indexing", "active", "failed", "paused", "blacklisted"}
CrawlStatuses == {"idle", "running", "error", "preview_disabled"}
Sources == {"web_preview", "mtproto"}
Edits == {"recrawl", "recrawl_full", "paused", "active", "readd", "approve"}

\* One thing goes wrong, or is done by hand.
Pay(trouble) ==
  /\ trouble \in Troubles
  /\ budget > 0
  /\ budget' = budget - 1

------------------------------------------------------------------------------
\* Cursors: message ids start at 1, so 0 stands for NULL.

Lowest(a, b) == IF a = 0 THEN b ELSE IF b = 0 THEN a ELSE Min({a, b})
Highest(a, b) == Max({a, b})

\* Faulty variant: a channel with a cursor is always backfilled further.
BackfillingForever(row) == TRUE

\* claim: the walk back to the first message is not over.
Backfilling(row) == row.oldest = 0 \/ row.oldest > 1

\* The page below a cursor: the newest messages under it.  The account asks
\* Telegram for nothing at or below stop; the web preview cannot.
Page(task) ==
  LET eligible == {m \in posts : /\ task.cursor = 0 \/ m < task.cursor
                                 /\ task.source = "mtproto" => m > task.stop}
  IN {m \in eligible : Cardinality({n \in eligible : n > m}) < PageSize}

Idle == [pc |-> "idle", token |-> None, source |-> "web_preview", stop |-> 0,
         cursor |-> 0, oldest |-> 0, newest |-> 0, pages |-> 0]

Init ==
  /\ posts = First
  /\ top = Max(First)
  /\ channel = [status |-> "pending", crawl |-> "idle", source |-> "web_preview",
                oldest |-> 0, newest |-> 0, owner |-> None, lease |-> 0,
                wait |-> 0, fails |-> 0]
  /\ fallback = FALSE
  /\ stored = {}
  /\ worker = [w \in Worker |-> Idle]
  /\ blocked = [w \in Worker |-> 0]
  /\ net = {}
  /\ edit = None
  /\ budget = MaxTroubles

------------------------------------------------------------------------------
\* Telegram and time.

\* The channel posts.  It does so while the core knows how far the channel was
\* read, and at most Burst messages ahead of that.
Post ==
  /\ top < MaxMsg
  /\ channel.newest # 0
  /\ Cardinality({m \in posts : m > channel.newest}) < Burst
  /\ posts' = posts \cup {top + 1}
  /\ top' = top + 1
  /\ UNCHANGED <<channel, fallback, stored, edge, net, edit, budget>>

\* The channel deletes a message.
Delete ==
  /\ Pay("delete")
  /\ \E m \in posts : posts' = posts \ {m}
  /\ UNCHANGED <<top, channel, fallback, stored, edge, net, edit>>

Less(n) == IF n = 0 THEN 0 ELSE n - 1
Elapsed(row) == [row EXCEPT !.lease = Less(@), !.wait = Less(@)]
CoolDown == blocked' = [w \in Worker |-> Less(blocked[w])]

Busy == \E w \in Worker : worker[w].pc # "idle"

\* Time passes.  A walk is quick against the lease; a slow page is trouble.
Tick ==
  /\ IF Busy THEN Pay("slow") ELSE UNCHANGED budget
  /\ channel' = Elapsed(channel)
  /\ CoolDown
  /\ UNCHANGED <<telegram, fallback, stored, worker, net, edit>>

ToggleFallback ==
  /\ Pay("fallback")
  /\ fallback' = ~fallback
  /\ UNCHANGED <<telegram, channel, stored, edge, net, edit>>

------------------------------------------------------------------------------
\* claim: the core hands the channel out.

Crawlable == {"pending", "indexing", "active"}
ReadableSources == {"web_preview"} \cup (IF fallback THEN {"mtproto"} ELSE {})
ClaimableStates == {"idle", "error"} \cup (IF fallback THEN {"preview_disabled"} ELSE {})

\* Faulty variant: nothing looks for the channels of workers that died.
ReclaimedNever(row) == row

\* A channel left "running" by a worker whose lease is over comes back first.
Reclaimed(row) ==
  IF row.crawl = "running" /\ row.lease = 0
  THEN [row EXCEPT !.crawl = "idle", !.owner = None, !.lease = 0]
  ELSE row

\* Faulty variant: a channel is asked about however often it failed.
DueAnyway(row) ==
  /\ row.source \in ReadableSources
  /\ row.status \in Crawlable
  /\ row.crawl \in ClaimableStates
  /\ row.wait = 0
  /\ row.lease = 0

Due(row) ==
  /\ row.source \in ReadableSources
  /\ row.status \in Crawlable
  /\ row.crawl \in ClaimableStates
  /\ row.wait = 0
  /\ row.lease = 0
  /\ row.fails < MaxFailures

\* A preview that was off is read by the account from now on.
HandedOut(row, token) ==
  [row EXCEPT !.owner = token,
              !.lease = Lease,
              !.crawl = "running",
              !.status = IF @ = "pending" THEN "indexing" ELSE @,
              !.source = IF row.crawl = "preview_disabled" THEN "mtproto" ELSE @,
              !.fails = IF row.crawl = "preview_disabled" THEN 0 ELSE @]

Task(row) ==
  [Idle EXCEPT !.pc = "fetch",
               !.token = row.owner,
               !.source = row.source,
               !.cursor = IF Backfilling(row) THEN row.oldest ELSE 0,
               !.stop = IF Backfilling(row) THEN 0 ELSE row.newest]

Fresh == Token \ ({channel.owner} \cup {worker[w].token : w \in Worker}
                  \cup {q.token : q \in net})

\* A worker with nothing to do asks for work.  The answer may be lost, which
\* leaves the channel with a lease nobody holds.
claim(w) ==
  /\ worker[w].pc = "idle"
  /\ blocked[w] = 0
  /\ LET row == Reclaimed(channel)
         token == Min(Fresh)
     IN IF Due(row)
        THEN /\ Fresh # {}
             /\ channel' = HandedOut(row, token)
             /\ \/ /\ worker' = [worker EXCEPT ![w] = Task(HandedOut(row, token))]
                   /\ UNCHANGED budget
                \/ Pay("lost_claim") /\ UNCHANGED worker
        ELSE channel' = row /\ UNCHANGED <<worker, budget>>
  /\ UNCHANGED <<telegram, fallback, stored, blocked, net, edit>>

------------------------------------------------------------------------------
\* The walk.

Request(kind, w, task, items) ==
  [kind |-> kind, from |-> w, token |-> task.token, items |-> items,
   oldest |-> task.oldest, newest |-> task.newest]

\* The last request about a channel: the worker waits for its answer only.
Close(w, kind, task, others) ==
  /\ worker' = [worker EXCEPT ![w] = [task EXCEPT !.pc = "closing"]]
  /\ net' = others \cup {Request(kind, w, task, {})}

\* One page is read and posted; a page without messages ends the walk.
fetch(w) ==
  LET task == worker[w]
      page == Page(task)
      read == [task EXCEPT !.pc = "posting",
                           !.cursor = Min(page),
                           !.oldest = Lowest(@, Min(page)),
                           !.newest = Highest(@, Max(page)),
                           !.pages = @ + 1]
  IN /\ task.pc = "fetch"
     /\ IF page = {}
        THEN Close(w, "done", task, net)
        ELSE /\ worker' = [worker EXCEPT ![w] = read]
             /\ net' = net \cup {Request("page", w, read, {m \in page : m > task.stop})}
     /\ UNCHANGED <<telegram, channel, fallback, stored, blocked, edit, budget>>

\* Faulty variant: a walk that ran out of pages counts as a finished one.
CaughtUpOrTired(task) ==
  \/ task.source = "web_preview" /\ task.stop # 0 /\ task.cursor <= task.stop
  \/ task.cursor <= 1
  \/ task.pages = MaxPages

\* The walk is over: it met what the core has, or the channel's first message.
CaughtUp(task) ==
  \/ task.source = "web_preview" /\ task.stop # 0 /\ task.cursor <= task.stop
  \/ task.cursor <= 1

\* on_batch returned: the walk goes on, or closes with its final cursors.
GoOn(w, others) ==
  LET task == worker[w]
  IN IF CaughtUp(task) THEN Close(w, "done", task, others)
     ELSE IF task.pages = MaxPages THEN Close(w, "part", task, others)
     ELSE /\ worker' = [worker EXCEPT ![w].pc = "fetch"]
          /\ net' = others

\* What a worker reports instead of a page.
Report(w, kind) ==
  /\ worker[w].pc = "fetch"
  /\ Close(w, kind, worker[w], net)
  /\ UNCHANGED <<telegram, channel, fallback, stored, edit>>

PreviewUnavailable(w) ==
  /\ Pay("unavailable")
  /\ worker[w].source = "web_preview"
  /\ Report(w, "disabled")
  /\ UNCHANGED blocked

\* Any other exception, an account that cannot be used, none at all.
CrawlError(w) ==
  /\ Pay("failure")
  /\ Report(w, "failure")
  /\ UNCHANGED blocked

\* Telegram says that the username belongs to no channel.
ChannelUnreadable(w) ==
  /\ Pay("unreadable")
  /\ worker[w].source = "mtproto"
  /\ Report(w, "permanent")
  /\ UNCHANGED blocked

\* Telegram refuses this address: the worker gives the channel back and pauses.
CrawlBlocked(w) ==
  /\ Pay("blocked")
  /\ Report(w, "release")
  /\ blocked' = [blocked EXCEPT ![w] = Retry]

Abandoned(q) == [q EXCEPT !.from = None]

\* CoreUnavailable: no answer within 30 s, or a 5xx.  crawl_batch returns None,
\* which on_batch takes for an answer.
GiveUp(w) ==
  /\ \E q \in net :
       LET others == (net \ {q}) \cup {Abandoned(q)}
       IN /\ q.from = w
          /\ Pay(IF q.kind = "page" THEN "lost_page" ELSE "give_up")
          /\ IF q.kind = "page"
             THEN GoOn(w, others)
             ELSE worker' = [worker EXCEPT ![w] = Idle] /\ net' = others
  /\ UNCHANGED <<telegram, channel, fallback, stored, blocked, edit>>

\* The edge process dies and starts again with nothing in memory.
Crash(w) ==
  /\ Pay("crash")
  /\ worker[w].pc # "idle"
  /\ worker' = [worker EXCEPT ![w] = Idle]
  /\ blocked' = [blocked EXCEPT ![w] = 0]
  /\ net' = {IF q.from = w THEN Abandoned(q) ELSE q : q \in net}
  /\ UNCHANGED <<telegram, channel, fallback, stored, edit>>

\* A request nobody waits for is lost.
Lose(q) ==
  /\ q.from = None
  /\ net' = net \ {q}
  /\ UNCHANGED <<telegram, channel, fallback, stored, edge, edit, budget>>

------------------------------------------------------------------------------
\* The core handles a request.

LeaseOk(token) == channel.owner = token /\ channel.lease > 0

\* The answer reaches the worker, if it still waits for it.
Answer(q, valid) ==
  LET others == net \ {q}
  IN IF q.from = None THEN net' = others /\ UNCHANGED worker
     ELSE IF q.kind = "page" /\ valid THEN GoOn(q.from, others)
     ELSE worker' = [worker EXCEPT ![q.from] = Idle] /\ net' = others

\* Faulty variant: a page moves no cursor, only the end of the walk does.
SavedAtEnd(row, q) ==
  IF q.kind = "page" THEN [row EXCEPT !.crawl = "idle", !.wait = 0]
  ELSE [row EXCEPT !.oldest = Lowest(@, q.oldest), !.newest = Highest(@, q.newest),
                   !.crawl = "idle", !.wait = 0]

\* save_progress; the lease goes only when the walk is finished.
Saved(row, q) ==
  LET moved == [row EXCEPT !.oldest = Lowest(@, q.oldest),
                           !.newest = Highest(@, q.newest),
                           !.crawl = "idle",
                           !.wait = 0]
  IN IF q.kind = "done"
     THEN [moved EXCEPT !.status = "active", !.owner = None, !.lease = 0,
                        !.fails = 0, !.wait = Interval]
     ELSE moved

crawl_batch(q) ==
  /\ q.kind \in {"page", "part", "done"}
  /\ IF LeaseOk(q.token)
     THEN stored' = stored \cup q.items /\ channel' = Saved(channel, q)
     ELSE UNCHANGED <<stored, channel>>
  /\ Answer(q, LeaseOk(q.token))
  /\ UNCHANGED <<telegram, fallback, blocked, edit, budget>>

\* Faulty variant: the cursors first, then the items, with a check between them.
crawl_batch_lapsing_swapped(q) ==
  /\ Pay("slow")
  /\ q.kind \in {"page", "part", "done"}
  /\ LeaseOk(q.token)
  /\ channel.lease = 1
  /\ channel' = Elapsed(Saved(channel, q))
  /\ CoolDown
  /\ Answer(q, FALSE)
  /\ UNCHANGED <<telegram, fallback, stored, edit>>

\* The lease is checked before the ingest and again after it: it may run out
\* in between, and the items then stay without the cursors.
crawl_batch_lapsing(q) ==
  /\ Pay("slow")
  /\ q.kind \in {"page", "part", "done"}
  /\ LeaseOk(q.token)
  /\ channel.lease = 1
  /\ stored' = stored \cup q.items
  /\ channel' = Elapsed(channel)
  /\ CoolDown
  /\ Answer(q, FALSE)
  /\ UNCHANGED <<telegram, fallback, edit>>

release(q) ==
  /\ q.kind = "release"
  /\ channel' = IF LeaseOk(q.token)
                THEN [channel EXCEPT !.owner = None, !.lease = 0, !.crawl = "idle",
                                     !.wait = Retry]
                ELSE channel
  /\ Answer(q, TRUE)
  /\ UNCHANGED <<telegram, fallback, stored, blocked, edit, budget>>

Backoff(fails) == Min({2 ^ fails, BackoffCap})

\* report_failure, by what failed.
Failed(row, kind) ==
  LET counted == [row EXCEPT !.owner = None, !.lease = 0, !.fails = @ + 1]
  IN CASE kind = "permanent" ->
            [counted EXCEPT !.crawl = "error", !.status = "failed",
                            !.fails = MaxFailures, !.wait = LongWait]
       [] kind = "disabled" /\ fallback ->
            [counted EXCEPT !.source = "mtproto", !.crawl = "idle", !.fails = 0,
                            !.wait = 0]
       [] kind = "disabled" /\ ~fallback ->
            [counted EXCEPT !.crawl = "preview_disabled", !.wait = LongWait]
       [] kind = "failure" ->
            [counted EXCEPT !.crawl = "error", !.wait = Backoff(counted.fails),
                            !.status = IF counted.fails >= MaxFailures THEN "failed"
                                       ELSE @]

report_failure(q) ==
  /\ q.kind \in {"permanent", "disabled", "failure"}
  /\ channel' = IF LeaseOk(q.token) THEN Failed(channel, q.kind) ELSE channel
  /\ Answer(q, TRUE)
  /\ UNCHANGED <<telegram, fallback, stored, blocked, edit, budget>>

Handle(q) == crawl_batch(q) \/ release(q) \/ report_failure(q)

------------------------------------------------------------------------------
\* Edits by hand: the row is loaded without a lock and flushed later, and the
\* flush writes the attributes whose value differs from the loaded one.

\* What an edit assigns, from what it loaded.
Assigned(op, seen) ==
  CASE op = "recrawl" ->
         [crawl |-> "idle", fails |-> 0, owner |-> None, lease |-> 0, wait |-> 0]
    [] op = "recrawl_full" ->
         [crawl |-> "idle", fails |-> 0, owner |-> None, lease |-> 0, wait |-> 0,
          oldest |-> 0, newest |-> 0, status |-> "indexing"]
    [] op \in {"paused", "active"} -> [status |-> op]
    [] op = "readd" -> [status |-> "pending"]
    [] op = "approve" -> [status |-> "pending", crawl |-> "idle", fails |-> 0, wait |-> 0]

\* Timestamps always differ; lease_until is NULL exactly when lease_owner is.
Differs(field, new, seen) ==
  CASE field = "wait" -> TRUE
    [] field = "lease" -> new.owner # seen.owner
    [] OTHER -> new[field] # seen[field]

Flushed(row, new, seen) ==
  [field \in DOMAIN row |->
     IF field \in DOMAIN new /\ Differs(field, new, seen) THEN new[field] ELSE row[field]]

\* recrawl, set_channel_status; get_or_create_channel and ensure_channel, which
\* touch a channel that is there only when it failed.
load_channel(op) ==
  /\ Pay(op)
  /\ edit = None
  /\ op \in {"readd", "approve"} => channel.status = "failed"
  /\ edit' = [op |-> op, seen |-> channel]
  /\ UNCHANGED <<telegram, channel, fallback, stored, edge, net>>

flush_channel ==
  /\ edit # None
  /\ channel' = Flushed(channel, Assigned(edit.op, edit.seen), edit.seen)
  /\ edit' = None
  /\ UNCHANGED <<telegram, fallback, stored, edge, net, budget>>

\* One UPDATE statement.
blacklist_add ==
  /\ Pay("blacklist")
  /\ channel' = [channel EXCEPT !.status = "blacklisted"]
  /\ UNCHANGED <<telegram, fallback, stored, edge, net, edit>>

------------------------------------------------------------------------------
Next ==
  \/ Post
  \/ Delete
  \/ Tick
  \/ ToggleFallback
  \/ \E w \in Worker :
       \/ claim(w)
       \/ fetch(w)
       \/ PreviewUnavailable(w)
       \/ CrawlError(w)
       \/ ChannelUnreadable(w)
       \/ CrawlBlocked(w)
       \/ GiveUp(w)
       \/ Crash(w)
  \/ \E q \in net :
       \/ crawl_batch(q)
       \/ crawl_batch_lapsing(q)
       \/ release(q)
       \/ report_failure(q)
       \/ Lose(q)
  \/ \E op \in Edits : load_channel(op)
  \/ flush_channel
  \/ blacklist_add

Spec == Init /\ [][Next]_vars

\* Time passes, every worker keeps polling (worker.py:run) and reading, the core
\* handles what a worker waits for, and an edit is flushed.
Fairness ==
  /\ WF_vars(Tick)
  /\ WF_vars(flush_channel)
  /\ \A w \in Worker :
       /\ WF_vars(claim(w))
       /\ WF_vars(fetch(w))
       /\ WF_vars(\E q \in net : q.from = w /\ Handle(q))

FairSpec == Spec /\ Fairness

------------------------------------------------------------------------------
\* Properties.

RequestType == [kind : {"page", "part", "done", "release", "permanent", "disabled", "failure"},
             from : Worker \cup {None}, token : Token, items : SUBSET (1..MaxMsg),
             oldest : 0..MaxMsg, newest : 0..MaxMsg]
Channel == [status : Statuses, crawl : CrawlStatuses, source : Sources,
            oldest : 0..MaxMsg, newest : 0..MaxMsg, owner : Token \cup {None},
            lease : 0..Lease, wait : 0..LongWait, fails : 0..MaxFailures]

\* Every variable keeps its shape; in particular fail_count never passes
\* MAX_FAILURES, whoever re-queued the channel (crawling.py: claim, report_failure).
TypeOK ==
  /\ posts \subseteq 1..top /\ top \in 1..MaxMsg
  /\ channel \in Channel
  /\ fallback \in BOOLEAN
  /\ stored \subseteq 1..top
  /\ worker \in [Worker -> [pc : {"idle", "fetch", "posting", "closing"},
                            token : Token \cup {None}, source : Sources,
                            stop : 0..MaxMsg, cursor : 0..MaxMsg, oldest : 0..MaxMsg,
                            newest : 0..MaxMsg, pages : 0..MaxPages]]
  /\ blocked \in [Worker -> 0..Retry]
  /\ net \subseteq RequestType
  /\ edit = None \/ edit \in [op : Edits, seen : Channel]
  /\ budget \in 0..MaxTroubles

\* The cursors never claim more than was read: every message between
\* oldest_crawled_msg_id and newest_crawled_msg_id is in the catalogue, whatever
\* worker, lease, block or crash interrupted the walks (crawling.py:3-5, 221-222).
CursorsCover ==
  \A m \in posts : channel.oldest # 0 /\ m \in channel.oldest..channel.newest => m \in stored

\* A channel the crawler turned active is read down to its first message, so the
\* switch to updates of _finish loses nothing (crawling.py:276-279).
ActiveIsComplete ==
  channel.status = "active" => {m \in posts : m <= channel.newest} \subseteq stored

\* Between two pages of a backfill under a live lease the row holds the place the
\* walk is at: whoever takes over repeats at most one page (crawling.py:4-5, 221-222).
ResumesWhereItStopped ==
  \A w \in Worker :
    worker[w].pc = "fetch" /\ worker[w].stop = 0 /\ LeaseOk(worker[w].token)
      => channel.oldest = worker[w].cursor

\* The crawler is meant to read the channel.
Watched ==
  /\ channel.status \in Crawlable
  /\ channel.fails < MaxFailures
  /\ channel.source \in ReadableSources
  /\ channel.crawl = "preview_disabled" => fallback

\* A dead, slow or silent worker's channel is handed on: no lease lasts forever on
\* a channel the crawler is meant to read (crawling.py:73-76).
LeaseComesBack ==
  \A t \in Token : channel.owner = t /\ Watched ~> channel.owner # t \/ ~Watched

\* Every message reaches the catalogue while the crawler is meant to read the
\* channel: the backfill ends and the updates after it find what is new
\* (crawling.py:1-13, 276-287).
NewPostsArrive ==
  \A m \in 1..MaxMsg : m \in posts ~> m \in stored \/ m \notin posts \/ ~Watched

\* What docs and comments say and the code does not do; see the README.

\* "one channel is crawled by one worker at a time" (crawling.py:4).
OneReader == Cardinality({w \in Worker : worker[w].pc \in {"fetch", "posting"}}) <= 1

\* "Blacklisting a channel also stops its indexing" (admin.py:541): only an edit by
\* hand makes a blacklisted channel something else.
DecisionStands ==
  [][channel.status = "blacklisted" /\ channel'.status # "blacklisted" => edit' # edit]_vars

\* "Let the indexer retry a channel that failed earlier" (channels.py:110): a
\* pending channel is picked up.
PendingIsPickedUp == channel.status = "pending" ~> channel.status # "pending"

\* "Turning the flag on also un-parks everything that already gave up"
\* (crawling.py:96-97).
FlagUnparks ==
  fallback /\ channel.crawl = "preview_disabled"
    ~> ~fallback \/ channel.crawl # "preview_disabled"

\* "Forget how far back we got; the backfill starts from the newest message again"
\* (admin.py:949-950): no walk in progress keeps its lease.
FullRecrawlStartsOver ==
  [][edit # None /\ edit' = None /\ edit.op = "recrawl_full"
       => \A w \in Worker : ~LeaseOk(worker[w].token)']_vars
==============================================================================
