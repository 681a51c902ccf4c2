----------------------------- MODULE CrawlProofs -----------------------------
(****************************************************************************)
(* Crawl keeps its types, for any workers, tokens, messages, limits and     *)
(* troubles.  The type of the row needs LeaseFree: report_failure counts on *)
(* from fail_count, which stays within MAX_FAILURES because only a channel  *)
(* below the limit is handed out, and no edit by hand adds to it under a    *)
(* lease.  The type of the requests needs Awaited and Single: an answer     *)
(* moves the worker that waits for it, which must then be where the request *)
(* left it.  The second part proves that the cursors tell the truth.        *)
(****************************************************************************)
EXTENDS Crawl, FiniteSetTheorems, TLAPS

\* Kinds of requests that crawl_batch handles.
Batch == {"page", "part", "done"}

\* A worker without the channel remembers nothing; one with it has a token, reads
\* no more pages than it may, and posts what it read.
Sane(t) ==
  /\ t.pc = "idle" => t = Idle
  /\ t.pc # "idle" => t.token \in Token
  /\ t.pc = "fetch" => t.pages < MaxPages
  /\ t.pc = "posting" => t.pages > 0

\* The worker is where the request left it.
Matches(q, t) ==
  /\ t.token = q.token
  /\ t.pc = IF q.kind = "page" THEN "posting" ELSE "closing"
  /\ q.kind \in Batch => q.oldest = t.oldest /\ q.newest = t.newest

Awaited(q) == q.from # None => Matches(q, worker[q.from])

\* A leased channel may fail once more.
LeaseFree == channel.owner # None => channel.fails < MaxFailures
\* What is posted was on Telegram.
ItemsExist == \A q \in net : q.items \subseteq 1..top
\* A worker waits for one answer.
Single == \A q, r \in net : q.from = r.from /\ q.from # None => q = r

Shape ==
  /\ \A w \in Worker : Sane(worker[w])
  /\ \A q \in net : Awaited(q)
  /\ LeaseFree
  /\ ItemsExist
  /\ Single

------------------------------------------------------------------------------
\* Least and greatest messages.

\* Induction: a set of numbers has a least element because < is well founded.
Below == {p \in Nat \X Nat : p[1] < p[2]}

\* No number has an endless descent below it.
LEMMA BelowIsWellFounded == IsWellFoundedOn(Below, Nat)
<1>1. IsWellFoundedOn(OpToRel(<, Nat), Nat)
  BY NatLessThanWellFounded
<1>2. OpToRel(<, Nat) = Below
  BY DEF OpToRel, Below
<1> QED
  BY <1>1, <1>2

\* A set of numbers has a least one.
LEMMA MinOfSet ==
  ASSUME NEW S \in SUBSET Nat, S # {}
  PROVE  Min(S) \in S /\ \A y \in S : Min(S) <= y
<1>1. PICK x \in S : \A y \in S : <<y, x>> \notin Below
  BY WFMin, BelowIsWellFounded
<1>2. ASSUME NEW y \in S PROVE x <= y
  <2>1. x \in Nat /\ y \in Nat /\ <<y, x>> \notin Below
    BY <1>1
  <2>2. ~(y < x)
    BY <2>1 DEF Below
  <2> QED
    BY <2>1, <2>2
<1> QED
  BY <1>2 DEF Min

\* A bounded set of numbers has a greatest one.
LEMMA MaxOfSet ==
  ASSUME NEW b \in Nat, NEW S \in SUBSET (0..b), S # {}
  PROVE  Max(S) \in S /\ \A y \in S : y <= Max(S)
<1> DEFINE gaps == {g \in 0..b : b - g \in S}
<1>1. gaps \in SUBSET Nat
  OBVIOUS
<1>2. gaps # {}
  <2>1. PICK y \in S : TRUE
    OBVIOUS
  <2>2. b - y \in gaps
    BY <2>1
  <2> QED
    BY <2>2
<1>3. Min(gaps) \in gaps /\ \A g \in gaps : Min(gaps) <= g
  <2> HIDE DEF gaps
  <2> QED
    BY <1>1, <1>2, MinOfSet
<1>4. PICK x \in S : x = b - Min(gaps)
  BY <1>3
<1>5. ASSUME NEW y \in S PROVE y <= x
  <2>1. b - y \in gaps
    OBVIOUS
  <2>2. Min(gaps) <= b - y /\ Min(gaps) \in 0..b
    BY <2>1, <1>3
  <2> QED
    BY <2>2, <1>4
<1> QED
  BY <1>5 DEF Max

\* The lesser of two numbers.
LEMMA MinOfTwo ==
  ASSUME NEW a \in Nat, NEW b \in Nat
  PROVE  Min({a, b}) = IF a <= b THEN a ELSE b
BY MinOfSet

\* The greater of two numbers.
LEMMA MaxOfTwo ==
  ASSUME NEW a \in Nat, NEW b \in Nat
  PROVE  Max({a, b}) = IF a >= b THEN a ELSE b
<1>1. \E x \in {a, b} : \A y \in {a, b} : x >= y
  BY DEF Max
<1> QED
  BY <1>1 DEF Max

\* 2 ^ n counts the subsets of a set of n, so it is a number.
LEMMA PowerOfTwo ==
  ASSUME NEW n \in Nat
  PROVE  2 ^ n \in Nat
<1>1. IsFiniteSet(1..n) /\ Cardinality(1..n) = n
  BY FS_Interval
<1>2. Cardinality(SUBSET (1..n)) = 2 ^ n /\ IsFiniteSet(SUBSET (1..n))
  BY <1>1, FS_SUBSET
<1> QED
  BY <1>2, FS_CardinalityType

\* What Lowest and Highest make of two cursors, 0 standing for none.
LEMMA Cursor ==
  ASSUME NEW a \in Nat, NEW b \in Nat
  PROVE  /\ Lowest(a, b) = IF a = 0 THEN b ELSE IF b = 0 THEN a ELSE IF a <= b THEN a ELSE b
         /\ Highest(a, b) = IF a >= b THEN a ELSE b
BY MinOfTwo, MaxOfTwo DEF Lowest, Highest

------------------------------------------------------------------------------
\* What a worker remembers.
TaskType == [pc : {"idle", "fetch", "posting", "closing"},
             token : Token \cup {None}, source : Sources,
             stop : 0..MaxMsg, cursor : 0..MaxMsg, oldest : 0..MaxMsg,
             newest : 0..MaxMsg, pages : 0..MaxPages]

TaskCols == {"pc", "token", "source", "stop", "cursor", "oldest", "newest", "pages"}

IsTask(t) ==
  /\ t = [c \in TaskCols |-> t[c]]
  /\ t.pc \in {"idle", "fetch", "posting", "closing"}
  /\ t.token \in Token \cup {None} /\ t.source \in Sources
  /\ t.stop \in 0..MaxMsg /\ t.cursor \in 0..MaxMsg
  /\ t.oldest \in 0..MaxMsg /\ t.newest \in 0..MaxMsg /\ t.pages \in 0..MaxPages

\* A task is given by its fields.
LEMMA TaskByFields ==
  ASSUME NEW t
  PROVE  t \in TaskType <=> IsTask(t)
<1>1. ASSUME t \in TaskType PROVE IsTask(t)
  BY <1>1 DEF TaskType, IsTask, TaskCols
<1>2. ASSUME IsTask(t) PROVE t \in TaskType
  <2>1. t = [pc |-> t.pc, token |-> t.token, source |-> t.source, stop |-> t.stop,
             cursor |-> t.cursor, oldest |-> t.oldest, newest |-> t.newest, pages |-> t.pages]
    BY <1>2 DEF IsTask, TaskCols
  <2> QED
    BY <1>2, <2>1 DEF IsTask, TaskType
<1> QED
  BY <1>1, <1>2

\* The constants are numbers.
LEMMA Consts ==
  /\ MaxMsg \in Nat \ {0} /\ PageSize \in Nat \ {0} /\ MaxPages \in Nat \ {0}
  /\ Lease \in Nat \ {0} /\ MaxFailures \in Nat \ {0} /\ Burst \in Nat \ {0}
  /\ Interval \in 0..LongWait /\ Retry \in 0..LongWait /\ BackoffCap \in 0..LongWait
  /\ LongWait \in Nat /\ MaxTroubles \in Nat
  /\ Interval \in Nat /\ Retry \in Nat /\ BackoffCap \in Nat
BY CountsAreNumbers

\* The columns of the row.
Cols == {"status", "crawl", "source", "oldest", "newest", "owner", "lease", "wait", "fails"}

IsRow(row) ==
  /\ row = [c \in Cols |-> row[c]]
  /\ row.status \in Statuses /\ row.crawl \in CrawlStatuses /\ row.source \in Sources
  /\ row.oldest \in 0..MaxMsg /\ row.newest \in 0..MaxMsg
  /\ row.owner \in Token \cup {None} /\ row.lease \in 0..Lease
  /\ row.wait \in 0..LongWait /\ row.fails \in 0..MaxFailures

\* A row is given by its columns.
LEMMA RowByColumns ==
  ASSUME NEW row
  PROVE  row \in Channel <=> IsRow(row)
<1>1. ASSUME row \in Channel PROVE IsRow(row)
  BY <1>1 DEF Channel, IsRow, Cols
<1>2. ASSUME IsRow(row) PROVE row \in Channel
  <2>1. row = [status |-> row.status, crawl |-> row.crawl, source |-> row.source,
               oldest |-> row.oldest, newest |-> row.newest, owner |-> row.owner,
               lease |-> row.lease, wait |-> row.wait, fails |-> row.fails]
    BY <1>2 DEF IsRow, Cols
  <2> QED
    BY <1>2, <2>1 DEF IsRow, Channel
<1> QED
  BY <1>1, <1>2

\* Time leaves a row a row.
LEMMA ElapsedType ==
  ASSUME NEW row \in Channel
  PROVE  Elapsed(row) \in Channel
<1>1. Less(row.lease) \in 0..Lease /\ Less(row.wait) \in 0..LongWait
  BY Consts DEF Less, Channel
<1> QED
  BY <1>1 DEF Elapsed, Channel

\* So does reclaiming it,
LEMMA ReclaimedType ==
  ASSUME NEW row \in Channel
  PROVE  Reclaimed(row) \in Channel
BY Consts DEF Reclaimed, Channel, CrawlStatuses

\* handing it out,
LEMMA HandedOutType ==
  ASSUME NEW row \in Channel, NEW token \in Token
  PROVE  HandedOut(row, token) \in Channel
<1> DEFINE new == HandedOut(row, token)
<1>1. IsRow(row)
  BY RowByColumns
<1>2. new = [c \in Cols |-> new[c]]
  BY <1>1 DEF HandedOut, IsRow, Cols
<1>3. /\ new.owner = token /\ new.lease = Lease /\ new.crawl = "running"
      /\ new.oldest = row.oldest /\ new.newest = row.newest /\ new.wait = row.wait
      /\ new.status \in {row.status, "indexing"} /\ new.source \in {row.source, "mtproto"}
      /\ new.fails \in {row.fails, 0}
  BY <1>1 DEF HandedOut, IsRow, Cols
<1>4. IsRow(new)
  <2> HIDE DEF new
  <2> QED
    BY <1>1, <1>2, <1>3, Consts DEF IsRow, Statuses, CrawlStatuses, Sources
<1> QED
  BY <1>4, RowByColumns

\* and saving a page in it.
LEMMA SavedType ==
  ASSUME NEW row \in Channel, NEW q \in RequestType
  PROVE  Saved(row, q) \in Channel
<1>1. row.oldest \in 0..MaxMsg /\ row.newest \in 0..MaxMsg /\ q.oldest \in 0..MaxMsg
      /\ q.newest \in 0..MaxMsg
  BY DEF Channel, RequestType
<1>2. Lowest(row.oldest, q.oldest) \in 0..MaxMsg /\ Highest(row.newest, q.newest) \in 0..MaxMsg
  BY <1>1, Cursor, Consts
<1> DEFINE new == Saved(row, q)
<1>3. IsRow(row)
  BY RowByColumns
<1>4. new = [c \in Cols |-> new[c]]
  BY <1>3 DEF Saved, IsRow, Cols
<1>5. /\ new.oldest = Lowest(row.oldest, q.oldest) /\ new.newest = Highest(row.newest, q.newest)
      /\ new.crawl = "idle" /\ new.source = row.source /\ new.wait \in {0, Interval}
      /\ new.status \in {row.status, "active"} /\ new.owner \in {row.owner, None}
      /\ new.lease \in {row.lease, 0} /\ new.fails \in {row.fails, 0}
  BY <1>3 DEF Saved, IsRow, Cols
<1>6. IsRow(new)
  <2> HIDE DEF new
  <2> QED
    BY <1>2, <1>3, <1>4, <1>5, Consts DEF IsRow, Statuses, CrawlStatuses
<1> QED
  BY <1>6, RowByColumns

\* The wait after a failure is one of the waits there are.
LEMMA BackoffType ==
  ASSUME NEW n \in Nat
  PROVE  Backoff(n) \in 0..LongWait
BY PowerOfTwo, MinOfTwo, Consts DEF Backoff

\* A failure counted below the limit stays within it.
LEMMA FailedType ==
  ASSUME NEW row \in Channel, row.fails < MaxFailures, fallback \in BOOLEAN,
         NEW kind \in {"permanent", "disabled", "failure"}
  PROVE  Failed(row, kind) \in Channel
<1>1. row.fails + 1 \in 0..MaxFailures /\ row.fails \in Nat
  BY Consts DEF Channel
<1>2. Backoff(row.fails + 1) \in 0..LongWait
  BY <1>1, BackoffType
<1> DEFINE new == Failed(row, kind)
<1>3. IsRow(row)
  BY RowByColumns
<1>4. new = [c \in Cols |-> new[c]]
  BY <1>3 DEF Failed, IsRow, Cols
<1>5. /\ new.oldest = row.oldest /\ new.newest = row.newest /\ new.owner = None /\ new.lease = 0
      /\ new.status \in {row.status, "failed"} /\ new.source \in {row.source, "mtproto"}
      /\ new.crawl \in CrawlStatuses
      /\ new.wait \in {LongWait, 0, Backoff(row.fails + 1)}
      /\ new.fails \in {MaxFailures, 0, row.fails + 1}
  BY <1>3 DEF Failed, IsRow, Cols, CrawlStatuses
<1>6. IsRow(new)
  <2> HIDE DEF new
  <2> QED
    BY <1>1, <1>2, <1>3, <1>4, <1>5, Consts DEF IsRow, Statuses, Sources
<1> QED
  BY <1>6, RowByColumns

\* An edit by hand keeps the row's type, and gives nobody a lease.
LEMMA FlushedType ==
  ASSUME NEW row \in Channel, NEW seen \in Channel, NEW op \in Edits
  PROVE  /\ Flushed(row, Assigned(op, seen), seen) \in Channel
         /\ LET new == Flushed(row, Assigned(op, seen), seen) IN
            /\ new.owner \in {None, row.owner} /\ new.lease \in {0, row.lease}
            /\ new.fails \in {0, row.fails}
            /\ new.owner = None \/ new.lease = row.lease
<1> DEFINE new == Flushed(row, Assigned(op, seen), seen)
           said == Assigned(op, seen)
<1>1. IsRow(row)
  BY RowByColumns
<1>2. /\ "status" \in DOMAIN said => said.status \in Statuses
      /\ "crawl" \in DOMAIN said => said.crawl = "idle"
      /\ "source" \notin DOMAIN said
      /\ "oldest" \in DOMAIN said => said.oldest = 0
      /\ "newest" \in DOMAIN said => said.newest = 0
      /\ "owner" \in DOMAIN said => said.owner = None
      /\ "lease" \in DOMAIN said => said.lease = 0 /\ "owner" \in DOMAIN said
      /\ "wait" \in DOMAIN said => said.wait = 0
      /\ "fails" \in DOMAIN said => said.fails = 0
  <2>1. CASE op = "recrawl"
    BY <2>1 DEF Assigned
  <2>2. CASE op = "recrawl_full"
    BY <2>2 DEF Assigned, Statuses
  <2>3. CASE op \in {"paused", "active"}
    BY <2>3 DEF Assigned, Statuses
  <2>4. CASE op = "readd"
    BY <2>4 DEF Assigned, Statuses
  <2>5. CASE op = "approve"
    BY <2>5 DEF Assigned, Statuses
  <2> QED
    BY <2>1, <2>2, <2>3, <2>4, <2>5 DEF Edits
<1>3. new = [c \in Cols |-> IF c \in DOMAIN said /\ Differs(c, said, seen) THEN said[c] ELSE row[c]]
  BY <1>1 DEF Flushed, IsRow
<1>4. \A c \in Cols :
        new[c] = IF c \in DOMAIN said /\ Differs(c, said, seen) THEN said[c] ELSE row[c]
  BY <1>3
<1>5. /\ new.status \in Statuses /\ new.crawl \in CrawlStatuses /\ new.source \in Sources
      /\ new.oldest \in 0..MaxMsg /\ new.newest \in 0..MaxMsg /\ new.owner \in {None, row.owner}
      /\ new.lease \in {0, row.lease} /\ new.wait \in 0..LongWait /\ new.fails \in {0, row.fails}
  <2> HIDE DEF said, new
  <2> DEFINE In(c) == c \in DOMAIN said /\ Differs(c, said, seen)
  <2>1. /\ new.status = IF In("status") THEN said.status ELSE row.status
        /\ new.crawl = IF In("crawl") THEN said.crawl ELSE row.crawl
        /\ new.source = IF In("source") THEN said.source ELSE row.source
        /\ new.oldest = IF In("oldest") THEN said.oldest ELSE row.oldest
        /\ new.newest = IF In("newest") THEN said.newest ELSE row.newest
        /\ new.owner = IF In("owner") THEN said.owner ELSE row.owner
        /\ new.lease = IF In("lease") THEN said.lease ELSE row.lease
        /\ new.wait = IF In("wait") THEN said.wait ELSE row.wait
        /\ new.fails = IF In("fails") THEN said.fails ELSE row.fails
    BY <1>4 DEF Cols
  <2>2. /\ In("status") => "status" \in DOMAIN said
        /\ In("crawl") => "crawl" \in DOMAIN said
        /\ In("source") => "source" \in DOMAIN said
        /\ In("oldest") => "oldest" \in DOMAIN said
        /\ In("newest") => "newest" \in DOMAIN said
        /\ In("owner") => "owner" \in DOMAIN said
        /\ In("lease") => "lease" \in DOMAIN said
        /\ In("wait") => "wait" \in DOMAIN said
        /\ In("fails") => "fails" \in DOMAIN said
    OBVIOUS
  <2> HIDE DEF In
  <2> QED
    BY <1>1, <1>2, <2>1, <2>2, Consts DEF IsRow, CrawlStatuses
<1>6. new \in Channel
  <2>1. new = [c \in Cols |-> new[c]]
    BY <1>3
  <2> HIDE DEF said, new
  <2>2. IsRow(new)
    BY <1>1, <1>5, <2>1, Consts DEF IsRow
  <2> QED
    BY <2>2, RowByColumns
<1>7. new.owner = None \/ new.lease = row.lease
  <2> HIDE DEF said, new
  <2>1. Differs("lease", said, seen) <=> Differs("owner", said, seen)
    <3>1. Differs("lease", said, seen) <=> said.owner # seen.owner
      BY DEF Differs
    <3>2. Differs("owner", said, seen) <=> said["owner"] # seen["owner"]
      BY DEF Differs
    <3> QED
      BY <3>1, <3>2
  <2> QED
    BY <1>2, <1>4, <2>1 DEF Cols
<1> QED
  BY <1>5, <1>6, <1>7

------------------------------------------------------------------------------
\* The inductive invariant of the types, and its parts by what they speak of.
TInv == TypeOK /\ Shape

RowOK == channel \in Channel /\ LeaseFree
EdgeOK ==
  /\ worker \in [Worker -> TaskType]
  /\ \A w \in Worker : Sane(worker[w])
  /\ net \subseteq RequestType
  /\ \A q \in net : Awaited(q)
  /\ ItemsExist
  /\ Single
RestOK ==
  /\ posts \subseteq 1..top /\ top \in 1..MaxMsg
  /\ fallback \in BOOLEAN
  /\ stored \subseteq 1..top
  /\ blocked \in [Worker -> 0..Retry]
  /\ edit = None \/ edit \in [op : Edits, seen : Channel]
  /\ budget \in 0..MaxTroubles

\* The parts together are the invariant.
LEMMA Parts == TInv <=> RowOK /\ EdgeOK /\ RestOK
BY DEF TInv, TypeOK, Shape, RowOK, EdgeOK, RestOK, TaskType

------------------------------------------------------------------------------
\* The row.

\* Only a channel below the limit is handed out (crawling.py:claim).
LEMMA ClaimRow ==
  ASSUME TInv, NEW w \in Worker, claim(w)
  PROVE  RowOK'
<1>1. channel \in Channel /\ Reclaimed(channel) \in Channel
  BY Parts, ReclaimedType DEF RowOK
<1>2. CASE ~Due(Reclaimed(channel))
  <2>1. channel' = Reclaimed(channel)
    BY <1>2 DEF claim
  <2>2. Reclaimed(channel).owner \in {None, channel.owner}
        /\ Reclaimed(channel).fails = channel.fails
    BY <1>1 DEF Reclaimed, Channel
  <2> QED
    BY <1>1, <2>1, <2>2, Parts DEF RowOK, LeaseFree
<1>3. CASE Due(Reclaimed(channel))
  <2> DEFINE row == Reclaimed(channel)
             token == Min(Fresh)
  <2>1. Fresh # {} /\ channel' = HandedOut(row, token)
    BY <1>3 DEF claim
  <2>2. token \in Token
    BY <2>1, MinOfSet, TokensSuffice DEF Fresh
  <2>3. row.fails < MaxFailures /\ row.fails \in Nat
    BY <1>1, <1>3 DEF Due, Channel
  <2>4. HandedOut(row, token).fails \in {0, row.fails}
    <3> HIDE DEF token
    <3> QED
      BY <1>1 DEF HandedOut, Channel
  <2>5. HandedOut(row, token) \in Channel
    BY <1>1, <2>2, HandedOutType
  <2> QED
    BY <2>1, <2>3, <2>4, <2>5, Consts DEF RowOK, LeaseFree
<1> QED
  BY <1>2, <1>3

\* Pages, releases and failures keep the row's type; a failure ends the lease.
LEMMA HandleRow ==
  ASSUME TInv, NEW q \in net,
         crawl_batch(q) \/ crawl_batch_lapsing(q) \/ release(q) \/ report_failure(q)
  PROVE  RowOK'
<1>1. channel \in Channel /\ LeaseFree /\ q \in RequestType
  BY Parts DEF RowOK, EdgeOK
<1>2. CASE channel' = channel
  BY <1>1, <1>2 DEF RowOK, LeaseFree
<1>3. CASE LeaseOk(q.token)
  <2>1. channel.fails < MaxFailures /\ q.token # None /\ channel.owner # None
    BY <1>1, <1>3, TokensSuffice DEF LeaseFree, LeaseOk, RequestType
  <2>2. CASE crawl_batch(q)
    <3>1. channel' = Saved(channel, q)
      BY <1>3, <2>2 DEF crawl_batch
    <3>2. Saved(channel, q).fails \in {0, channel.fails}
      BY <1>1 DEF Saved, Channel
    <3> QED
      BY <1>1, <2>1, <3>1, <3>2, SavedType, Consts DEF RowOK, LeaseFree
  <2>3. CASE crawl_batch_lapsing(q)
    <3>1. channel' = Elapsed(channel)
      BY <2>3 DEF crawl_batch_lapsing
    <3>2. Elapsed(channel).fails = channel.fails
      BY <1>1 DEF Elapsed, Channel
    <3> QED
      BY <1>1, <2>1, <3>1, <3>2, ElapsedType DEF RowOK, LeaseFree
  <2>4. CASE release(q)
    <3> DEFINE new == [channel EXCEPT !.owner = None, !.lease = 0, !.crawl = "idle", !.wait = Retry]
    <3>1. channel' = new
      BY <1>3, <2>4 DEF release
    <3>2. IsRow(channel)
      BY <1>1, RowByColumns
    <3>3. new = [c \in Cols |-> new[c]] /\ new.owner = None
      BY <3>2 DEF IsRow, Cols
    <3>4. IsRow(new)
      BY <3>2, <3>3, Consts DEF IsRow, Cols, CrawlStatuses
    <3> QED
      BY <3>1, <3>3, <3>4, RowByColumns DEF RowOK, LeaseFree
  <2>5. CASE report_failure(q)
    <3>1. channel' = Failed(channel, q.kind) /\ q.kind \in {"permanent", "disabled", "failure"}
      BY <1>3, <2>5 DEF report_failure
    <3>2. Failed(channel, q.kind) \in Channel
      BY <1>1, <2>1, <3>1, FailedType, Parts DEF RestOK
    <3>3. Failed(channel, q.kind).owner = None
      BY <1>1, <3>1 DEF Failed, Channel
    <3> QED
      BY <3>1, <3>2, <3>3 DEF RowOK, LeaseFree
  <2> QED
    BY <2>2, <2>3, <2>4, <2>5
<1> QED
  BY <1>2, <1>3 DEF crawl_batch, crawl_batch_lapsing, release, report_failure

\* An edit by hand leaves no lease on a channel at the limit.
LEMMA FlushRow ==
  ASSUME TInv, flush_channel
  PROVE  RowOK'
<1>1. channel \in Channel /\ LeaseFree /\ edit.op \in Edits /\ edit.seen \in Channel
  BY Parts DEF RowOK, RestOK, flush_channel
<1>2. channel' = Flushed(channel, Assigned(edit.op, edit.seen), edit.seen)
  BY DEF flush_channel
<1>3. /\ channel' \in Channel
      /\ channel'.owner \in {None, channel.owner} /\ channel'.fails \in {0, channel.fails}
  BY <1>1, <1>2, FlushedType
<1> QED
  BY <1>1, <1>3, Consts DEF RowOK, LeaseFree

\* Time, the blacklist, and steps that do not touch the row.
LEMMA OthersRow ==
  ASSUME TInv,
         \/ Tick \/ blacklist_add
         \/ channel' = channel
  PROVE  RowOK'
<1>1. channel \in Channel /\ LeaseFree
  BY Parts DEF RowOK
<1>2. CASE channel' = channel
  BY <1>1, <1>2 DEF RowOK, LeaseFree
<1>3. CASE Tick
  <2>1. channel' = Elapsed(channel)
    BY <1>3 DEF Tick
  <2>2. Elapsed(channel).fails = channel.fails /\ Elapsed(channel).owner = channel.owner
    BY <1>1 DEF Elapsed, Channel
  <2> QED
    BY <1>1, <2>1, <2>2, ElapsedType DEF RowOK, LeaseFree
<1>4. CASE blacklist_add
  <2>1. channel' = [channel EXCEPT !.status = "blacklisted"]
    BY <1>4 DEF blacklist_add
  <2>2. channel' \in Channel /\ channel'.fails = channel.fails /\ channel'.owner = channel.owner
    BY <1>1, <2>1 DEF Channel, Statuses
  <2> QED
    BY <1>1, <2>2 DEF RowOK, LeaseFree
<1> QED
  BY <1>2, <1>3, <1>4

\* Every step keeps the row's part.
LEMMA NextRow ==
  ASSUME TInv, [Next]_vars
  PROVE  RowOK'
<1>1. CASE UNCHANGED vars
  BY <1>1, OthersRow DEF vars
<1>2. CASE Next
  BY <1>2, ClaimRow, HandleRow, FlushRow, OthersRow
     DEF Next, Post, Delete, ToggleFallback, fetch, PreviewUnavailable, CrawlError,
         ChannelUnreadable,
         CrawlBlocked, Report, GiveUp, Crash, Lose, load_channel
<1> QED
  BY <1>1, <1>2

------------------------------------------------------------------------------
\* The edge: workers and their requests.

\* None is neither a worker nor a token.
LEMMA NoneIsNobody == None \notin Worker /\ None \notin Token
BY TokensSuffice

\* A request of another worker, or one that nobody waits for.
From(q, w) == q.from # w /\ \E p \in net : q = p \/ q = Abandoned(p)

\* Giving a request up changes who waits for it, and nothing else.
LEMMA AbandonedType ==
  ASSUME NEW p \in RequestType
  PROVE  /\ Abandoned(p) \in RequestType /\ Abandoned(p).from = None
         /\ Abandoned(p).items = p.items /\ Abandoned(p).token = p.token
         /\ Abandoned(p).kind = p.kind /\ Abandoned(p).oldest = p.oldest
         /\ Abandoned(p).newest = p.newest
BY DEF Abandoned, RequestType

\* One worker goes on to task t, and its request, if any, is the only one it waits
\* for.
LEMMA EdgeReplaced ==
  ASSUME EdgeOK, NEW w \in Worker, NEW t \in TaskType, Sane(t), NEW others, NEW extra,
         top \in Nat, top' \in Nat, top <= top',
         \A q \in others : From(q, w),
         \A q \in extra : /\ q \in RequestType /\ q.from = w /\ Matches(q, t)
                          /\ q.items \subseteq 1..top,
         \A q, r \in extra : q = r,
         worker' = [worker EXCEPT ![w] = t], net' = others \cup extra
  PROVE  EdgeOK'
<1>1. worker' \in [Worker -> TaskType] /\ worker'[w] = t
      /\ \A v \in Worker \ {w} : worker'[v] = worker[v]
  BY DEF EdgeOK
<1>2. \A v \in Worker : Sane(worker'[v])
  BY <1>1 DEF EdgeOK
<1>3. \A q \in others : /\ q \in RequestType /\ q.items \subseteq 1..top
                        /\ q.from # w /\ (q.from # None => q \in net)
  BY AbandonedType DEF From, EdgeOK, ItemsExist
<1>4. net' \subseteq RequestType
  BY <1>3
<1>5. \A q \in net' : q.items \subseteq 1..top'
  BY <1>3
<1>6. ASSUME NEW q \in net', q.from # None PROVE Matches(q, worker'[q.from])
  <2>1. CASE q \in extra
    BY <2>1, <1>1
  <2>2. CASE q \in others
    <3>1. q \in net /\ q.from \in Worker \ {w}
      BY <2>2, <1>3, <1>6 DEF RequestType
    <3> QED
      BY <3>1, <1>1, <1>6 DEF EdgeOK, Awaited
  <2> QED
    BY <2>1, <2>2
<1>7. ASSUME NEW q \in net', NEW r \in net', q.from = r.from, q.from # None
      PROVE  q = r
  BY <1>3, <1>7 DEF EdgeOK, Single
<1> QED
  BY <1>1, <1>2, <1>4, <1>5, <1>6, <1>7 DEF EdgeOK, Awaited, ItemsExist, Single

\* A worker that goes on with one request,
LEMMA EdgeAsks ==
  ASSUME TInv, NEW w \in Worker, NEW t \in TaskType, Sane(t), NEW others, NEW r \in RequestType,
         top' = top, \A q \in others : From(q, w),
         r.from = w, Matches(r, t), r.items \subseteq 1..top,
         worker' = [worker EXCEPT ![w] = t], net' = others \cup {r}
  PROVE  EdgeOK'
<1>1. EdgeOK /\ top \in Nat /\ top' \in Nat /\ top <= top'
  BY Parts DEF RestOK
<1> DEFINE extra == {r}
<1>2. net' = others \cup extra
  OBVIOUS
<1>3. /\ \A q \in extra : /\ q \in RequestType /\ q.from = w /\ Matches(q, t)
                          /\ q.items \subseteq 1..top
      /\ \A p, q \in extra : p = q
  OBVIOUS
<1> HIDE DEF extra
<1> QED
  BY <1>1, <1>2, <1>3, EdgeReplaced

\* and one that goes on with none.
LEMMA EdgeSilent ==
  ASSUME TInv, NEW w \in Worker, NEW t \in TaskType, Sane(t),
         top' = top, \A q \in net' : From(q, w), worker' = [worker EXCEPT ![w] = t]
  PROVE  EdgeOK'
<1>1. EdgeOK /\ top \in Nat /\ top' \in Nat /\ top <= top'
  BY Parts DEF RestOK
<1> DEFINE others == net'
           extra == {}
<1>2. net' = others \cup extra /\ \A q \in others : From(q, w)
  OBVIOUS
<1>3. /\ \A q \in extra : /\ q \in RequestType /\ q.from = w /\ Matches(q, t)
                          /\ q.items \subseteq 1..top
      /\ \A p, q \in extra : p = q
  OBVIOUS
<1> HIDE DEF extra, others
<1> QED
  BY <1>1, <1>2, <1>3, EdgeReplaced

\* The workers stay, and nothing new is sent.
LEMMA EdgeStays ==
  ASSUME EdgeOK, top \in Nat, top' \in Nat, top <= top', worker' = worker,
         \A q \in net' : q \in net
  PROVE  EdgeOK'
BY DEF EdgeOK, Awaited, ItemsExist, Single

\* A worker that closes waits for the answer to its last request.
LEMMA ClosingTask ==
  ASSUME NEW t \in TaskType, t.token \in Token, NEW w \in Worker, NEW items \in SUBSET (1..MaxMsg),
         NEW kind \in {"page", "part", "done", "release", "permanent", "disabled", "failure"}
  PROVE  /\ [t EXCEPT !.pc = "closing"] \in TaskType /\ Sane([t EXCEPT !.pc = "closing"])
         /\ Request(kind, w, t, items) \in RequestType /\ Request(kind, w, t, items).from = w
         /\ Request(kind, w, t, items).items = items
         /\ kind # "page" => Matches(Request(kind, w, t, items), [t EXCEPT !.pc = "closing"])
BY DEF TaskType, Sane, Request, RequestType, Matches

\* Close keeps the edge's part.
LEMMA CloseEdge ==
  ASSUME TInv, NEW w \in Worker, worker[w].pc # "idle",
         NEW kind \in {"part", "done", "release", "permanent", "disabled", "failure"},
         NEW others, \A q \in others : From(q, w),
         Close(w, kind, worker[w], others), top' = top
  PROVE  EdgeOK'
<1>1. EdgeOK /\ worker[w] \in TaskType /\ worker[w].token \in Token /\ top \in Nat
  BY Parts DEF EdgeOK, RestOK, Sane
<1> DEFINE r == Request(kind, w, worker[w], {})
           t == [worker[w] EXCEPT !.pc = "closing"]
<1>2. t \in TaskType /\ Sane(t) /\ r \in RequestType /\ r.from = w /\ r.items = {} /\ Matches(r, t)
  BY <1>1, ClosingTask
<1>3. worker' = [worker EXCEPT ![w] = t] /\ net' = others \cup {r}
  BY DEF Close
<1> HIDE DEF r, t
<1>4. r.items \subseteq 1..top
  BY <1>2
<1> QED
  BY <1>2, <1>3, <1>4, EdgeAsks

\* So does going on after a page.
LEMMA GoOnEdge ==
  ASSUME TInv, NEW w \in Worker, worker[w].pc = "posting",
         NEW others, \A q \in others : From(q, w),
         GoOn(w, others), top' = top
  PROVE  EdgeOK'
<1>1. EdgeOK /\ worker[w] \in TaskType /\ worker[w].token \in Token /\ top \in Nat
  BY Parts DEF EdgeOK, RestOK, Sane
<1>2. CASE Close(w, "done", worker[w], others) \/ Close(w, "part", worker[w], others)
  BY <1>2, CloseEdge
<1>3. CASE /\ worker[w].pages # MaxPages
           /\ worker' = [worker EXCEPT ![w].pc = "fetch"] /\ net' = others
  <2> DEFINE t == [worker[w] EXCEPT !.pc = "fetch"]
  <2>1. t \in TaskType /\ Sane(t)
    BY <1>1, <1>3, Consts DEF TaskType, Sane
  <2>2. worker' = [worker EXCEPT ![w] = t] /\ \A q \in net' : From(q, w)
    BY <1>3
  <2> HIDE DEF t
  <2> QED
    BY <2>1, <2>2, EdgeSilent
<1> QED
  BY <1>2, <1>3 DEF GoOn

\* A worker that has nothing to do.
LEMMA IdleType == Idle \in TaskType /\ Sane(Idle)
BY Consts DEF Idle, TaskType, Sane, Sources

\* A worker that forgets the channel waits for nothing.
LEMMA IdleEdge ==
  ASSUME TInv, NEW w \in Worker, worker' = [worker EXCEPT ![w] = Idle],
         \A q \in net' : From(q, w), top' = top
  PROVE  EdgeOK'
BY EdgeSilent, IdleType

\* An answer moves the worker that waits for it, or none.
LEMMA AnswerEdge ==
  ASSUME TInv, NEW q \in net, NEW valid \in BOOLEAN, Answer(q, valid), top' = top
  PROVE  EdgeOK'
<1>1. EdgeOK /\ top \in Nat /\ q \in RequestType
  BY Parts DEF RestOK, EdgeOK
<1>2. CASE q.from = None
  BY <1>1, <1>2, EdgeStays DEF Answer
<1>3. CASE q.from # None
  <2>1. q.from \in Worker /\ Matches(q, worker[q.from])
    BY <1>1, <1>3 DEF RequestType, EdgeOK, Awaited
  <2>2. \A p \in net \ {q} : From(p, q.from)
    BY <1>1, <1>3 DEF EdgeOK, Single, From
  <2>3. CASE q.kind = "page" /\ valid
    BY <1>3, <2>1, <2>2, <2>3, GoOnEdge DEF Answer, Matches
  <2>4. CASE ~(q.kind = "page" /\ valid)
    BY <1>3, <2>1, <2>2, <2>4, IdleEdge DEF Answer
  <2> QED
    BY <2>3, <2>4
<1> QED
  BY <1>2, <1>3

\* A page is a part of the channel, with a lowest and a highest message.
LEMMA PageFacts ==
  ASSUME TInv, NEW t \in TaskType
  PROVE  /\ Page(t) \subseteq posts /\ Page(t) \subseteq 1..top /\ Page(t) \subseteq 1..MaxMsg
         /\ Page(t) # {} =>
              /\ Min(Page(t)) \in Page(t) /\ \A m \in Page(t) : Min(Page(t)) <= m
              /\ Max(Page(t)) \in Page(t) /\ \A m \in Page(t) : m <= Max(Page(t))
<1>1. posts \subseteq 1..top /\ top \in 1..MaxMsg
  BY Parts DEF RestOK
<1>2. Page(t) \subseteq posts
  BY DEF Page
<1>3. Page(t) \in SUBSET Nat /\ Page(t) \in SUBSET (0..MaxMsg) /\ Page(t) \subseteq 1..top
  <2>1. \A m \in posts : m \in 1..top /\ m \in Nat /\ m \in 0..MaxMsg
    BY <1>1, Consts
  <2> HIDE DEF Page
  <2> QED
    BY <1>2, <2>1
<1> HIDE DEF Page
<1> DEFINE page == Page(t)
<1>4. page # {} => /\ Min(page) \in page /\ \A m \in page : Min(page) <= m
                   /\ Max(page) \in page /\ \A m \in page : m <= Max(page)
  <2>1. page \in SUBSET Nat /\ page \in SUBSET (0..MaxMsg)
    BY <1>3
  <2> HIDE DEF page
  <2>2. MaxMsg \in Nat
    BY Consts
  <2> QED
    BY <2>1, <2>2, MinOfSet, MaxOfSet
<1> QED
  BY <1>1, <1>2, <1>3, <1>4

\* Reading a page (crawler.py, mtcrawl.py).
LEMMA FetchEdge ==
  ASSUME TInv, NEW w \in Worker, fetch(w)
  PROVE  EdgeOK'
<1>1. EdgeOK /\ worker[w] \in TaskType /\ worker[w].token \in Token /\ top \in Nat /\ top' = top
      /\ worker[w].pc = "fetch" /\ worker[w].pages < MaxPages
  BY Parts DEF EdgeOK, RestOK, Sane, fetch, telegram
<1>2. \A q \in net : From(q, w)
  BY <1>1, NoneIsNobody DEF EdgeOK, Awaited, Matches, From
<1>3. CASE Page(worker[w]) = {}
  BY <1>1, <1>2, <1>3, CloseEdge DEF fetch
<1>4. CASE Page(worker[w]) # {}
  <2> DEFINE task == worker[w]
             page == Page(task)
             read == [task EXCEPT !.pc = "posting", !.cursor = Min(page),
                                  !.oldest = Lowest(@, Min(page)), !.newest = Highest(@, Max(page)),
                                  !.pages = @ + 1]
             items == {m \in page : m > task.stop}
             r == Request("page", w, read, items)
  <2>1. Min(page) \in 1..top /\ Max(page) \in 1..top /\ page \subseteq 1..top
        /\ Min(page) \in 1..MaxMsg /\ Max(page) \in 1..MaxMsg /\ page \subseteq 1..MaxMsg
    BY <1>1, <1>4, PageFacts
  <2>2. /\ Lowest(task.oldest, Min(page)) \in 0..MaxMsg
        /\ Highest(task.newest, Max(page)) \in 0..MaxMsg
    <3>1. task.oldest \in 0..MaxMsg /\ task.newest \in 0..MaxMsg
      BY <1>1 DEF TaskType
    <3> QED
      BY <2>1, <3>1, Cursor, Consts
  <2>3. task.pages + 1 \in 0..MaxPages /\ task.pages + 1 > 0
    BY <1>1, Consts DEF TaskType
  <2>4. read \in TaskType /\ Sane(read)
    <3> HIDE DEF page
    <3>1. IsTask(task)
      BY <1>1, TaskByFields
    <3>2. read = [c \in TaskCols |-> read[c]]
      BY <3>1 DEF IsTask, TaskCols
    <3>3. /\ read.pc = "posting" /\ read.token = task.token /\ read.source = task.source
          /\ read.stop = task.stop /\ read.cursor = Min(page)
          /\ read.oldest = Lowest(task.oldest, Min(page))
          /\ read.newest = Highest(task.newest, Max(page)) /\ read.pages = task.pages + 1
      BY <3>1 DEF IsTask, TaskCols
    <3> HIDE DEF read
    <3>4. Min(page) \in 0..MaxMsg
      BY <2>1, Consts
    <3>5. IsTask(read)
      BY <2>2, <2>3, <3>1, <3>2, <3>3, <3>4 DEF IsTask
    <3> QED
      BY <1>1, <2>3, <3>3, <3>5, TaskByFields DEF Sane
  <2>5. r \in RequestType /\ r.from = w /\ r.items \subseteq 1..top /\ Matches(r, read)
    <3>1. items \in SUBSET (1..MaxMsg) /\ items \subseteq 1..top
      BY <2>1
    <3>2. read.pc = "posting" /\ read.token = task.token
      BY <1>1 DEF TaskType
    <3> HIDE DEF read, items
    <3> QED
      BY <1>1, <2>4, <3>1, <3>2 DEF Request, RequestType, Matches, TaskType
  <2>6. worker' = [worker EXCEPT ![w] = read] /\ net' = net \cup {r}
    BY <1>4 DEF fetch
  <2> HIDE DEF read, r
  <2> QED
    BY <1>1, <1>2, <2>4, <2>5, <2>6, EdgeAsks
<1> QED
  BY <1>3, <1>4

\* Taking the channel.
LEMMA ClaimEdge ==
  ASSUME TInv, NEW w \in Worker, claim(w)
  PROVE  EdgeOK'
<1>1. EdgeOK /\ top \in Nat /\ top' = top /\ net' = net /\ worker[w].pc = "idle"
  BY Parts DEF RestOK, claim, telegram
<1>2. CASE worker' = worker
  BY <1>1, <1>2, EdgeStays
<1>3. CASE worker' # worker
  <2> DEFINE row == HandedOut(Reclaimed(channel), Min(Fresh))
             t == Task(row)
  <2>1. Fresh # {} /\ worker' = [worker EXCEPT ![w] = t]
    BY <1>3 DEF claim
  <2>2. Min(Fresh) \in Token
    BY <2>1, MinOfSet, TokensSuffice DEF Fresh
  <2>3. row \in Channel /\ row.owner = Min(Fresh)
    <3>1. Reclaimed(channel) \in Channel
      BY Parts, ReclaimedType DEF RowOK
    <3>2. HandedOut(Reclaimed(channel), Min(Fresh)).owner = Min(Fresh)
      BY <3>1 DEF HandedOut, Channel
    <3> QED
      BY <2>2, <3>1, <3>2, HandedOutType
  <2>4. t \in TaskType /\ Sane(t)
    <3> HIDE DEF row
    <3>1. row.owner \in Token /\ row.source \in Sources /\ row.oldest \in 0..MaxMsg
          /\ row.newest \in 0..MaxMsg
      BY <2>2, <2>3 DEF Channel
    <3>2. t = [c \in TaskCols |-> t[c]]
      BY DEF Task, Idle, TaskCols
    <3>3. /\ t.pc = "fetch" /\ t.token = row.owner /\ t.source = row.source
          /\ t.stop \in {0, row.newest} /\ t.cursor \in {0, row.oldest}
          /\ t.oldest = 0 /\ t.newest = 0 /\ t.pages = 0
      BY DEF Task, Idle
    <3> HIDE DEF t
    <3>4. IsTask(t)
      BY <3>1, <3>2, <3>3, Consts DEF IsTask
    <3> QED
      BY <3>1, <3>3, <3>4, TaskByFields, Consts DEF Sane
  <2>5. \A q \in net : From(q, w)
    BY <1>1, NoneIsNobody DEF EdgeOK, Awaited, Matches, From
  <2>6. \A q \in net' : From(q, w)
    BY <1>1, <2>5
  <2> HIDE DEF t
  <2> QED
    BY <1>1, <2>1, <2>4, <2>6, EdgeSilent
<1> QED
  BY <1>2, <1>3

\* Reporting something else than a page.
LEMMA ReportEdge ==
  ASSUME TInv, NEW w \in Worker,
         NEW kind \in {"release", "permanent", "disabled", "failure"}, Report(w, kind)
  PROVE  EdgeOK'
<1>1. EdgeOK /\ worker[w].pc = "fetch" /\ top' = top
  BY Parts DEF Report, telegram
<1>2. \A q \in net : From(q, w)
  BY <1>1, NoneIsNobody DEF EdgeOK, Awaited, Matches, From
<1> QED
  BY <1>1, <1>2, CloseEdge DEF Report

\* An answer that does not come in time (core_client.py).
LEMMA GiveUpEdge ==
  ASSUME TInv, NEW w \in Worker, GiveUp(w)
  PROVE  EdgeOK'
<1>1. EdgeOK /\ top' = top
  BY Parts DEF GiveUp, telegram
<1>2. PICK q \in net :
        LET others == (net \ {q}) \cup {Abandoned(q)} IN
        /\ q.from = w
        /\ IF q.kind = "page" THEN GoOn(w, others)
           ELSE worker' = [worker EXCEPT ![w] = Idle] /\ net' = others
  BY DEF GiveUp
<1>3. q \in RequestType /\ Matches(q, worker[w]) /\ w # None
  BY <1>1, <1>2, NoneIsNobody DEF EdgeOK, Awaited
<1>4. \A p \in (net \ {q}) \cup {Abandoned(q)} : From(p, w)
  BY <1>1, <1>2, <1>3, AbandonedType DEF EdgeOK, Single, From
<1>5. CASE q.kind = "page"
  BY <1>1, <1>2, <1>3, <1>4, <1>5, GoOnEdge DEF Matches
<1>6. CASE q.kind # "page"
  BY <1>1, <1>2, <1>4, <1>6, IdleEdge
<1> QED
  BY <1>5, <1>6

\* A worker that dies.
LEMMA CrashEdge ==
  ASSUME TInv, NEW w \in Worker, Crash(w)
  PROVE  EdgeOK'
<1>1. EdgeOK /\ top' = top /\ w # None
  BY Parts, NoneIsNobody DEF Crash, telegram
<1>2. \A q \in net' : From(q, w)
  BY <1>1, AbandonedType DEF Crash, EdgeOK, From
<1> QED
  BY <1>1, <1>2, IdleEdge DEF Crash

\* Every step keeps the edge's part.
LEMMA NextEdge ==
  ASSUME TInv, [Next]_vars
  PROVE  EdgeOK'
<1>1. EdgeOK /\ top \in Nat
  BY Parts DEF RestOK
<1>2. ASSUME worker' = worker, net' = net, top' = top \/ top' = top + 1
      PROVE  EdgeOK'
  BY <1>1, <1>2, EdgeStays
<1>3. CASE UNCHANGED vars
  BY <1>2, <1>3 DEF vars
<1>4. CASE Post \/ Delete \/ Tick \/ ToggleFallback \/ (\E op \in Edits : load_channel(op))
           \/ flush_channel \/ blacklist_add
  BY <1>2, <1>4
     DEF Post, Delete, Tick, ToggleFallback, load_channel, flush_channel, blacklist_add, telegram,
         edge
<1>5. ASSUME NEW w \in Worker,
             PreviewUnavailable(w) \/ CrawlError(w) \/ ChannelUnreadable(w) \/ CrawlBlocked(w)
      PROVE  EdgeOK'
  BY <1>5, ReportEdge DEF PreviewUnavailable, CrawlError, ChannelUnreadable, CrawlBlocked
<1>6. ASSUME NEW q \in net,
             crawl_batch(q) \/ crawl_batch_lapsing(q) \/ release(q) \/ report_failure(q)
      PROVE  EdgeOK'
  BY <1>6, AnswerEdge
     DEF crawl_batch, crawl_batch_lapsing, release, report_failure, telegram, LeaseOk
<1>7. ASSUME NEW q \in net, Lose(q) PROVE EdgeOK'
  BY <1>1, <1>7, EdgeStays DEF Lose, telegram, edge
<1> QED
  BY <1>3, <1>4, <1>5, <1>6, <1>7, ClaimEdge, FetchEdge, GiveUpEdge, CrashEdge DEF Next

------------------------------------------------------------------------------
\* Everything else.

\* Every step keeps the rest: messages, the catalogue, timers, the edit, the budget.
LEMMA NextRest ==
  ASSUME TInv, [Next]_vars
  PROVE  RestOK'
<1>1. RestOK /\ RowOK /\ EdgeOK
  BY Parts
<1>2. posts' \subseteq 1..top' /\ top' \in 1..MaxMsg /\ top <= top'
  <2>1. CASE UNCHANGED telegram
    BY <1>1, <2>1 DEF RestOK, telegram
  <2>2. CASE Post
    <3>1. /\ posts \subseteq 1..top /\ top \in 1..MaxMsg /\ MaxMsg \in Nat
          /\ posts' = posts \cup {top + 1} /\ top' = top + 1 /\ top < MaxMsg
      BY <1>1, <2>2, Consts DEF RestOK, Post
    <3> QED
      BY <3>1
  <2>3. CASE Delete
    <3>1. PICK m \in posts : posts' = posts \ {m}
      BY <2>3 DEF Delete
    <3> QED
      BY <1>1, <2>3, <3>1 DEF RestOK, Delete
  <2> QED
    BY <2>1, <2>2, <2>3
       DEF Next, vars, Tick, ToggleFallback, claim, fetch, PreviewUnavailable, CrawlError,
           ChannelUnreadable, CrawlBlocked, Report, GiveUp, Crash, crawl_batch, crawl_batch_lapsing,
           release, report_failure, Lose, load_channel, flush_channel, blacklist_add, telegram
<1>3. fallback' \in BOOLEAN
  BY <1>1
     DEF RestOK, Next, vars, Post, Delete, Tick, ToggleFallback, claim, fetch, PreviewUnavailable,
         CrawlError, ChannelUnreadable, CrawlBlocked, Report, GiveUp, Crash, crawl_batch,
         crawl_batch_lapsing, release, report_failure, Lose, load_channel, flush_channel,
         blacklist_add
<1>4. stored' \subseteq 1..top'
  <2>1. CASE stored' = stored
    BY <1>1, <1>2, <2>1 DEF RestOK
  <2>2. ASSUME NEW q \in net, stored' = stored \cup q.items
        PROVE  stored' \subseteq 1..top'
    <3>1. \A m \in stored \cup q.items : m \in 1..top
      BY <1>1 DEF RestOK, EdgeOK, ItemsExist
    <3>2. \A m \in 1..top : m \in 1..top'
      BY <1>1, <1>2 DEF RestOK
    <3> QED
      BY <2>2, <3>1, <3>2
  <2> QED
    BY <2>1, <2>2
       DEF Next, vars, Post, Delete, Tick, ToggleFallback, claim, fetch, PreviewUnavailable,
           CrawlError, ChannelUnreadable, CrawlBlocked, Report, GiveUp, Crash, crawl_batch,
           crawl_batch_lapsing, release, report_failure, Lose, load_channel, flush_channel,
           blacklist_add
<1>5. blocked' \in [Worker -> 0..Retry]
  <2>1. CASE CoolDown
    BY <1>1, <2>1, Consts DEF RestOK, CoolDown, Less
  <2>2. CASE blocked' = blocked
    BY <1>1, <2>2 DEF RestOK
  <2>3. ASSUME NEW w \in Worker, CrawlBlocked(w) \/ Crash(w)
        PROVE  blocked' \in [Worker -> 0..Retry]
    BY <1>1, <2>3, Consts DEF RestOK, CrawlBlocked, Crash
  <2> QED
    BY <2>1, <2>2, <2>3
       DEF Next, vars, Post, Delete, Tick, ToggleFallback, claim, fetch, PreviewUnavailable,
           CrawlError, ChannelUnreadable, GiveUp, crawl_batch, crawl_batch_lapsing,
           release, report_failure, Lose, load_channel, flush_channel, blacklist_add, edge
<1>6. edit' = None \/ edit' \in [op : Edits, seen : Channel]
  <2>1. CASE edit' = edit
    BY <1>1, <2>1 DEF RestOK
  <2>2. ASSUME NEW op \in Edits, load_channel(op)
        PROVE  edit' \in [op : Edits, seen : Channel]
    BY <1>1, <2>2 DEF RowOK, load_channel
  <2> QED
    BY <2>1, <2>2
       DEF Next, vars, Post, Delete, Tick, ToggleFallback, claim, fetch, PreviewUnavailable,
           CrawlError, ChannelUnreadable, CrawlBlocked, Report, GiveUp, Crash, crawl_batch,
           crawl_batch_lapsing, release, report_failure, Lose, flush_channel, blacklist_add
<1>7. budget' \in 0..MaxTroubles
  <2>1. CASE budget' = budget
    BY <1>1, <2>1 DEF RestOK
  <2>2. ASSUME NEW trouble, Pay(trouble) PROVE budget' \in 0..MaxTroubles
    BY <1>1, <2>2, Consts DEF RestOK, Pay
  <2> QED
    BY <2>1, <2>2
       DEF Next, vars, Post, Delete, Tick, ToggleFallback, claim, fetch, PreviewUnavailable,
           CrawlError, ChannelUnreadable, CrawlBlocked, Report, GiveUp, Crash, crawl_batch,
           crawl_batch_lapsing, release, report_failure, Lose, load_channel, flush_channel,
           blacklist_add
<1> QED
  BY <1>2, <1>3, <1>4, <1>5, <1>6, <1>7 DEF RestOK

\* It holds at first.
LEMMA InitTInv == Init => TInv
<1> SUFFICES ASSUME Init PROVE TInv
  OBVIOUS
<1>1. Max(First) \in First /\ \A m \in First : m <= Max(First)
  <2>1. First \in SUBSET (0..MaxMsg) /\ First # {} /\ MaxMsg \in Nat
    BY ChannelHasMessages, Consts
  <2> QED
    BY <2>1, MaxOfSet
<1>2. top \in 1..MaxMsg /\ posts \subseteq 1..top
  <2>1. top = Max(First) /\ posts = First
    BY DEF Init
  <2>2. First \subseteq 1..MaxMsg /\ MaxMsg \in Nat
    BY ChannelHasMessages, Consts
  <2> DEFINE last == Max(First)
  <2>3. last \in First /\ \A m \in First : m <= last
    BY <1>1
  <2> HIDE DEF last
  <2>4. last \in 1..MaxMsg /\ \A m \in First : m \in 1..last
    BY <2>2, <2>3
  <2>5. top = last /\ posts = First
    BY <2>1 DEF last
  <2> QED
    BY <2>4, <2>5
<1>3. RowOK
  <2>1. channel = [c \in Cols |-> channel[c]]
    BY DEF Init, Cols
  <2>2. IsRow(channel)
    BY <2>1, Consts DEF Init, IsRow, Statuses, CrawlStatuses, Sources
  <2> QED
    BY <2>2, RowByColumns DEF RowOK, LeaseFree, Init
<1>4. EdgeOK
  BY IdleType DEF Init, EdgeOK, ItemsExist, Single
<1>5. RestOK
  <2>1. fallback \in BOOLEAN /\ stored \subseteq 1..top /\ edit = None
    BY DEF Init
  <2>2. blocked \in [Worker -> 0..Retry]
    BY Consts DEF Init
  <2>3. budget \in 0..MaxTroubles
    BY Consts DEF Init
  <2> QED
    BY <1>2, <2>1, <2>2, <2>3 DEF RestOK
<1> QED
  BY <1>3, <1>4, <1>5, Parts

\* In every reachable state the row, the workers and the requests have their types,
\* a worker that waits is where its request left it, and a leased channel is below
\* the limit of failures (crawling.py, worker.py).
THEOREM ShapeInductive == Spec => []TInv
<1>1. TInv /\ [Next]_vars => TInv'
  <2> SUFFICES ASSUME TInv, [Next]_vars PROVE TInv'
    OBVIOUS
  <2>1. RowOK' /\ EdgeOK' /\ RestOK'
    BY NextRow, NextEdge, NextRest
  <2> QED
    BY <2>1 DEF TInv, TypeOK, Shape, RowOK, EdgeOK, RestOK, TaskType
<1> QED
  BY <1>1, InitTInv, PTL DEF Spec

\* Every variable keeps its type. In particular fail_count never passes
\* MAX_FAILURES, whoever re-queued the channel and whichever failure comes late
\* (crawling.py: claim, report_failure).
THEOREM TypeCorrect == Spec => []TypeOK
<1>1. TInv => TypeOK
  BY DEF TInv
<1> QED
  BY <1>1, ShapeInductive, PTL

------------------------------------------------------------------------------
(***************************************************************************)
(* What Crawl says of its cursors, for any workers, tokens, messages,      *)
(* limits and bounds: nothing between them is missing (CursorsCover), an   *)
(* active channel is complete (ActiveIsComplete), and a backfill is taken  *)
(* up where it stopped (ResumesWhereItStopped).                            *)
(*                                                                         *)
(* The row alone does not say so: a walk holds cursors of its own, and a   *)
(* request holds those it had when it was sent.  Covered relates each of   *)
(* them to the row and the catalogue, as long as its lease is good; a step *)
(* then moves a claim from the row to a walk, from a walk to its request,  *)
(* and from a request that is handled back to the row.                     *)
(*                                                                         *)
(* The hypotheses name what makes the properties false: a page that nobody *)
(* answers counts as posted (LostPage.cfg); the rest of an update that is  *)
(* longer than a page is never read if its walk dies                       *)
(* (InterruptedUpdate.cfg); an operator may set an unfinished channel      *)
(* active; a full recrawl forgets the cursors under a walk                 *)
(* (RecrawlRace.cfg).                                                      *)
(***************************************************************************)

\* No page is given up without an answer.
NoLostPage == "lost_page" \notin Troubles

------------------------------------------------------------------------------
\* The inductive invariant.

\* Both cursors are set, or neither is.
Span(row) == (row.oldest = 0 <=> row.newest = 0) /\ row.oldest <= row.newest

\* A walk's own: it has cursors once it read a page, and reads on below the lowest.
UpTo(t, last) ==
  /\ Span(t) /\ t.newest <= last
  /\ t.cursor <= last /\ t.stop <= last
  /\ IF t.pages = 0 THEN t.oldest = 0 ELSE t.oldest # 0 /\ t.oldest = t.cursor
  /\ t.pages = 0 /\ t.stop # 0 => t.cursor = 0

\* Cursors are such pairs, and what is posted lies between those sent with it.
Cursors ==
  /\ Span(channel) /\ channel.newest <= top
  /\ edit # None => Span(edit.seen)
  /\ \A w \in Worker : UpTo(worker[w], top)
  /\ \A q \in net : q.kind \in Batch =>
       Span(q) /\ q.newest <= top /\ q.items \subseteq q.oldest..q.newest

\* A token is one walk's, and at most one request carries it.
OneWalk ==
  /\ \A v, w \in Worker : worker[v].token = worker[w].token /\ worker[v].token # None => v = w
  /\ \A q \in net, w \in Worker : q.token = worker[w].token => q.from = w
  /\ \A q, r \in net : q.token = r.token => q = r

\* Every message of p between the cursors of row, once moved to old and new, is in s.
Joined(row, p, s, old, new) ==
  \A m \in p : Lowest(row.oldest, old) <= m /\ m <= Highest(row.newest, new) => m \in s

\* The messages of p at or after one above x that is not in s: at most a burst.
Unread(x, p, s) == {m \in p : \E k \in p \ s : x < k /\ k <= m}
Few(x, p, s) == Cardinality(Unread(x, p, s)) <= Burst

\* Every message up to x is in s.
ReadTo(x, p, s) == \A m \in p : m <= x => m \in s

\* The place above which a walk vouches for what is unread.
Base(t) == IF t.newest # 0 THEN t.newest ELSE IF t.cursor # 0 THEN t.cursor - 1 ELSE t.stop

\* Where a walk began: at the row's lower cursor, or at the top down to the upper
\* one; or the cursors were forgotten since.
Started(t, row) ==
  IF t.stop = 0 THEN row.oldest \in {0, t.cursor} ELSE row.newest \in {0, t.stop}

\* A walk with a good lease: with its cursors, the row would still cover; what is
\* unread above it is a burst at most.
WalkCovers(t, row, p, s) ==
  /\ Joined(row, p, s, t.oldest, t.newest)
  /\ t.pages = 0 => Started(t, row)
  /\ t.cursor # 0 \/ t.stop # 0 => Few(Base(t), p, s)

\* A request with a good lease: the same, once its items are stored.
PostCovers(q, row, p, s) ==
  /\ Joined(row, p, s \cup q.items, q.oldest, q.newest)
  /\ q.newest # 0 => Few(q.newest, p, s)

Walking(w) == worker[w].pc = "fetch" /\ LeaseOk(worker[w].token)
Reporting(q) == q.kind \in Batch /\ LeaseOk(q.token)

\* The row covers, and so does every walk and request whose lease is good; what a
\* walk stops at was read.
Covered ==
  /\ CursorsCover
  /\ channel.newest # 0 => Few(channel.newest, posts, stored)
  /\ \A w \in Worker : ReadTo(worker[w].stop, posts, stored)
  /\ \A w \in Worker : Walking(w) => WalkCovers(worker[w], channel, posts, stored)
  /\ \A q \in net : Reporting(q) => PostCovers(q, channel, posts, stored)

\* A walk of an active channel: what is below its page is in s already.
WalkRead(t, p, s) == \A m \in p : m < t.cursor \/ m <= t.newest => m \in s

\* What a finished walk leaves.
DoneRead(q, row, p, s) == ReadTo(Highest(row.newest, q.newest), p, s) /\ Few(0, p, s)

\* An active channel is read up to its cursor, and the walks and requests of it add
\* no gap.
Complete ==
  /\ channel.status = "active" =>
       /\ ReadTo(channel.newest, posts, stored)
       /\ Few(0, posts, stored)
       /\ \A w \in Worker : Walking(w) => WalkRead(worker[w], posts, stored)
       /\ \A q \in net : Reporting(q) => ReadTo(q.newest, posts, stored \cup q.items)
  /\ \A q \in net : q.kind = "done" /\ Reporting(q) => DoneRead(q, channel, posts, stored)

\* An edit under way is one this instance allows.
EditPaid == edit # None => edit.op \in Troubles

\* Between two pages the row is where the walk is; while a page is posted it will
\* be.
Resumes ==
  /\ ResumesWhereItStopped
  /\ \A q \in net : /\ q.kind = "page" /\ q.from # None /\ Reporting(q)
                    /\ worker[q.from].stop = 0
                    => Lowest(channel.oldest, q.oldest) = worker[q.from].cursor

------------------------------------------------------------------------------
\* What a step does to the row and the catalogue.

\* The cursors stay, or a full recrawl forgets them,
SameCursors == channel'.oldest = channel.oldest /\ channel'.newest = channel.newest
NoCursors ==
  /\ edit # None /\ edit.op = "recrawl_full"
  /\ channel'.oldest = 0 /\ channel'.newest = 0

\* or a page is saved.
Saves(q) == crawl_batch(q) /\ LeaseOk(q.token)

\* A worker is handed the channel, and what it is told.
Hires(w) == claim(w) /\ Due(Reclaimed(channel))
NewTask == Task(HandedOut(Reclaimed(channel), Min(Fresh)))

\* Reclaiming a row leaves its cursors,
LEMMA ReclaimedCursors ==
  ASSUME NEW row \in Channel
  PROVE  /\ Reclaimed(row).oldest = row.oldest /\ Reclaimed(row).newest = row.newest
         /\ \/ Reclaimed(row) = row
            \/ Reclaimed(row).owner = None /\ Reclaimed(row).lease = 0
BY DEF Reclaimed, Channel

\* and so does handing it out,
LEMMA HandedOutCursors ==
  ASSUME NEW row \in Channel, NEW token
  PROVE  /\ HandedOut(row, token).oldest = row.oldest /\ HandedOut(row, token).newest = row.newest
         /\ HandedOut(row, token).owner = token /\ HandedOut(row, token).lease = Lease
BY DEF HandedOut, Channel

\* and a failure.
LEMMA FailedCursors ==
  ASSUME NEW row \in Channel, fallback \in BOOLEAN,
         NEW kind \in {"permanent", "disabled", "failure"}
  PROVE  /\ Failed(row, kind).oldest = row.oldest /\ Failed(row, kind).newest = row.newest
         /\ Failed(row, kind).owner = None
BY DEF Failed, Channel

\* A saved page moves the cursors, and gives nobody a lease.
LEMMA SavedCursors ==
  ASSUME NEW row \in Channel, NEW q
  PROVE  /\ Saved(row, q).oldest = Lowest(row.oldest, q.oldest)
         /\ Saved(row, q).newest = Highest(row.newest, q.newest)
         /\ \/ Saved(row, q).owner = row.owner /\ Saved(row, q).lease = row.lease
            \/ Saved(row, q).owner = None
BY DEF Saved, Channel

\* What saving a page does (crawling.py:save_progress).
LEMMA SavesDoes ==
  ASSUME NEW q, Saves(q)
  PROVE  /\ q.kind \in Batch /\ LeaseOk(q.token)
         /\ channel' = Saved(channel, q) /\ stored' = stored \cup q.items
         /\ posts' = posts
BY DEF Saves, crawl_batch, Batch, telegram

\* An edit by hand leaves the cursors, unless it is a full recrawl.
LEMMA FlushedCursors ==
  ASSUME NEW row \in Channel, NEW seen \in Channel, Span(seen), NEW op \in Edits
  PROVE  LET new == Flushed(row, Assigned(op, seen), seen) IN
         \/ new.oldest = row.oldest /\ new.newest = row.newest
         \/ op = "recrawl_full" /\ new.oldest = 0 /\ new.newest = 0
<1> DEFINE said == Assigned(op, seen)
           new == Flushed(row, said, seen)
<1>1. IsRow(row) /\ IsRow(seen)
  BY RowByColumns
<1>2. new = [c \in Cols |-> IF c \in DOMAIN said /\ Differs(c, said, seen) THEN said[c] ELSE row[c]]
  BY <1>1 DEF Flushed, IsRow
<1>3. /\ new.oldest = IF "oldest" \in DOMAIN said /\ Differs("oldest", said, seen)
                      THEN said.oldest ELSE row.oldest
      /\ new.newest = IF "newest" \in DOMAIN said /\ Differs("newest", said, seen)
                      THEN said.newest ELSE row.newest
  <2> HIDE DEF said, new
  <2> QED
    BY <1>2 DEF Cols
<1>4. /\ "oldest" \in DOMAIN said <=> op = "recrawl_full"
      /\ "newest" \in DOMAIN said <=> op = "recrawl_full"
      /\ op = "recrawl_full" => said.oldest = 0 /\ said.newest = 0
  <2>1. CASE op = "recrawl"
    BY <2>1 DEF Assigned
  <2>2. CASE op = "recrawl_full"
    BY <2>2 DEF Assigned
  <2>3. CASE op \in {"paused", "active"}
    BY <2>3 DEF Assigned
  <2>4. CASE op = "readd"
    BY <2>4 DEF Assigned
  <2>5. CASE op = "approve"
    BY <2>5 DEF Assigned
  <2> QED
    BY <2>1, <2>2, <2>3, <2>4, <2>5 DEF Edits
<1>5. /\ Differs("oldest", said, seen) <=> said["oldest"] # seen["oldest"]
      /\ Differs("newest", said, seen) <=> said["newest"] # seen["newest"]
  BY DEF Differs
<1> HIDE DEF said, new
<1>6. \/ new.oldest = row.oldest /\ new.newest = row.newest
      \/ op = "recrawl_full" /\ new.oldest = 0 /\ new.newest = 0
  BY <1>3, <1>4, <1>5 DEF Span
<1> QED
  BY <1>6 DEF said, new

\* A step leaves the cursors, forgets them or saves a page; nothing leaves the
\* catalogue.
LEMMA ChannelChange ==
  ASSUME TInv, Cursors, [Next]_vars
  PROVE  /\ SameCursors \/ NoCursors \/ \E q \in net : Saves(q)
         /\ stored \subseteq stored'
<1>1. channel \in Channel /\ Reclaimed(channel) \in Channel /\ fallback \in BOOLEAN
  BY Parts, ReclaimedType DEF RowOK, RestOK
<1> USE DEF SameCursors, NoCursors
<1>2. CASE UNCHANGED vars
  BY <1>2 DEF vars
<1>3. CASE Tick
  BY <1>1, <1>3 DEF Tick, Elapsed, Channel
<1>4. CASE blacklist_add
  BY <1>1, <1>4 DEF blacklist_add, Channel
<1>5. CASE flush_channel
  <2>1. edit.op \in Edits /\ edit.seen \in Channel /\ Span(edit.seen)
    BY <1>5, Parts DEF RestOK, Cursors, flush_channel
  <2> QED
    BY <1>1, <1>5, <2>1, FlushedCursors DEF flush_channel
<1>6. ASSUME NEW w \in Worker, claim(w) PROVE SameCursors /\ stored' = stored
  BY <1>1, <1>6, ReclaimedCursors, HandedOutCursors DEF claim
<1>7. ASSUME NEW q \in net, crawl_batch(q)
      PROVE  (SameCursors /\ stored' = stored) \/ Saves(q)
  BY <1>7 DEF crawl_batch, Saves
<1>8. ASSUME NEW q \in net, crawl_batch_lapsing(q)
      PROVE  SameCursors /\ stored' = stored \cup q.items
  BY <1>1, <1>8 DEF crawl_batch_lapsing, Elapsed, Channel
<1>9. ASSUME NEW q \in net, release(q) PROVE SameCursors /\ stored' = stored
  BY <1>1, <1>9 DEF release, Channel
<1>10. ASSUME NEW q \in net, report_failure(q) PROVE SameCursors /\ stored' = stored
  BY <1>1, <1>10, FailedCursors DEF report_failure
<1>11. CASE channel' = channel /\ stored' = stored
  BY <1>11
<1>12. ASSUME NEW q \in net, Saves(q) PROVE stored \subseteq stored'
  BY <1>12, SavesDoes
<1> HIDE DEF SameCursors, NoCursors
<1> QED
  BY <1>2, <1>3, <1>4, <1>5, <1>6, <1>7, <1>8, <1>9, <1>10, <1>11, <1>12
     DEF Next, Post, Delete, Tick, ToggleFallback, fetch, PreviewUnavailable, CrawlError,
         ChannelUnreadable, CrawlBlocked, Report, GiveUp, Crash, Lose, load_channel, blacklist_add,
         flush_channel

\* No step but a claim gives a token a lease.
LEMMA LeaseChange ==
  ASSUME TInv, [Next]_vars, NEW t \in Token, LeaseOk(t)'
  PROVE  \/ LeaseOk(t) /\ \A w \in Worker : ~Hires(w)
         \/ t = Min(Fresh) /\ Fresh # {} /\ \E w \in Worker : Hires(w)
<1>1. channel \in Channel /\ Reclaimed(channel) \in Channel /\ fallback \in BOOLEAN /\ t # None
      /\ channel.lease \in Nat
  BY Parts, ReclaimedType, NoneIsNobody, Consts DEF RowOK, RestOK, Channel
<1>2. ASSUME NEW w \in Worker, Hires(w) PROVE t = Min(Fresh) /\ Fresh # {}
  BY <1>1, <1>2, HandedOutCursors DEF Hires, claim, LeaseOk
<1>3. ASSUME \A w \in Worker : ~Hires(w) PROVE LeaseOk(t)
  <2>1. CASE channel' = channel
    BY <2>1 DEF LeaseOk
  <2>2. CASE Tick
    <3>1. channel'.owner = channel.owner /\ channel'.lease = Less(channel.lease)
      BY <1>1, <2>2 DEF Tick, Elapsed, Channel
    <3> QED
      BY <1>1, <3>1 DEF Less, LeaseOk
  <2>3. CASE blacklist_add
    BY <1>1, <2>3 DEF blacklist_add, Channel, LeaseOk
  <2>4. CASE flush_channel
    <3>1. edit.op \in Edits /\ edit.seen \in Channel
      BY <2>4, Parts DEF RestOK, flush_channel
    <3>2. channel'.owner \in {None, channel.owner}
          /\ (channel'.owner = None \/ channel'.lease = channel.lease)
      BY <1>1, <2>4, <3>1, FlushedType DEF flush_channel
    <3> QED
      BY <1>1, <3>2 DEF LeaseOk
  <2>5. ASSUME NEW w \in Worker, claim(w) PROVE LeaseOk(t)
    <3>1. channel' = Reclaimed(channel)
      BY <1>3, <2>5 DEF Hires, claim
    <3> QED
      BY <1>1, <3>1, ReclaimedCursors DEF LeaseOk
  <2>6. ASSUME NEW q \in net, crawl_batch(q) PROVE LeaseOk(t)
    BY <1>1, <2>6, SavedCursors DEF crawl_batch, LeaseOk
  <2>7. ASSUME NEW q \in net, crawl_batch_lapsing(q) PROVE LeaseOk(t)
    <3>1. channel'.lease = Less(1) /\ channel.lease = 1
      BY <1>1, <2>7 DEF crawl_batch_lapsing, Elapsed, Channel
    <3> QED
      BY <3>1 DEF Less, LeaseOk
  <2>8. ASSUME NEW q \in net, release(q) PROVE LeaseOk(t)
    BY <1>1, <2>8 DEF release, Channel, LeaseOk
  <2>9. ASSUME NEW q \in net, report_failure(q) PROVE LeaseOk(t)
    BY <1>1, <2>9, FailedCursors DEF report_failure, LeaseOk
  <2> QED
    BY <2>1, <2>2, <2>3, <2>4, <2>5, <2>6, <2>7, <2>8, <2>9
       DEF Next, vars, Post, Delete, ToggleFallback, fetch, PreviewUnavailable, CrawlError,
           ChannelUnreadable, CrawlBlocked, Report, GiveUp, Crash, Lose, load_channel
<1> QED
  BY <1>2, <1>3

------------------------------------------------------------------------------
\* What a step does to the workers and to the requests under way.

\* All but the place in the loop.
Same(a, b) ==
  /\ b.token = a.token /\ b.source = a.source /\ b.stop = a.stop /\ b.cursor = a.cursor
  /\ b.oldest = a.oldest /\ b.newest = a.newest /\ b.pages = a.pages

\* A walk that has read its next page.
Read(t) ==
  [t EXCEPT !.pc = "posting",
            !.cursor = Min(Page(t)),
            !.oldest = Lowest(@, Min(Page(t))),
            !.newest = Highest(@, Max(Page(t))),
            !.pages = @ + 1]

Reads(v) == fetch(v) /\ Page(worker[v]) # {} /\ worker'[v] = Read(worker[v])
ReadItems(v) == {m \in Page(worker[v]) : m > worker[v].stop}

\* The page v waited for was saved.
Answered(v) == \E q \in net : Saves(q) /\ q.from = v /\ q.kind = "page"

\* Why v closes with a request of that kind.
Stops(v, kind) ==
  \/ Answered(v) /\ (kind = "done" => CaughtUp(worker[v]))
  \/ worker[v].pc = "fetch" /\ (kind = "done" => Page(worker[v]) = {})

WorkerStep(v) ==
  \/ worker'[v] = worker[v]
  \/ worker'[v] = Idle
  \/ /\ Same(worker[v], worker'[v])
     /\ \/ worker'[v].pc \in {"fetch", "closing"} /\ Answered(v)
        \/ worker'[v].pc = "closing" /\ worker[v].pc = "fetch"
  \/ Reads(v)
  \/ Hires(v) /\ worker'[v] = NewTask

\* A request that was there before, perhaps no longer waited for.
CopyOf(q, p) ==
  \/ q = p
  \/ q = Abandoned(p) /\ p.from \in Worker /\ worker'[p.from] = Idle
Old(q) == \E p \in net : CopyOf(q, p)

New(q) ==
  /\ q.from \in Worker
  /\ \/ q.items = {} /\ Same(worker[q.from], worker'[q.from]) /\ Stops(q.from, q.kind)
     \/ Reads(q.from) /\ q.items = ReadItems(q.from)

\* What a step may do to a worker and to the requests.
EdgeStep ==
  /\ \A v \in Worker : WorkerStep(v)
  /\ \A q \in net' : Old(q) \/ New(q)

\* Closing is such a step,
LEMMA CloseStep ==
  ASSUME TInv, NEW w \in Worker, NEW kind, Stops(w, kind), NEW others,
         \A q \in others : Old(q), Close(w, kind, worker[w], others)
  PROVE  EdgeStep
<1>1. worker[w] \in TaskType /\ worker \in [Worker -> TaskType]
  BY Parts DEF EdgeOK
<1> DEFINE r == Request(kind, w, worker[w], {})
           t == [worker[w] EXCEPT !.pc = "closing"]
<1>2. /\ Same(worker[w], t) /\ t.pc = "closing"
      /\ r.from = w /\ r.items = {} /\ r.kind = kind
  BY <1>1 DEF Same, TaskType, Request
<1>3. worker' = [worker EXCEPT ![w] = t] /\ net' = others \cup {r}
  BY DEF Close
<1> HIDE DEF r, t
<1>4. \A v \in Worker : WorkerStep(v)
  BY <1>1, <1>2, <1>3 DEF WorkerStep, Stops
<1>5. worker'[w] = t
  BY <1>1, <1>3
<1>6. \A q \in net' : Old(q) \/ New(q)
  BY <1>2, <1>3, <1>5 DEF New
<1> QED
  BY <1>4, <1>6 DEF EdgeStep

\* going on after a saved page,
LEMMA GoOnStep ==
  ASSUME TInv, NEW w \in Worker, Answered(w), NEW others,
         \A q \in others : Old(q), GoOn(w, others)
  PROVE  EdgeStep
<1>1. worker[w] \in TaskType /\ worker \in [Worker -> TaskType]
  BY Parts DEF EdgeOK
<1>2. CASE \/ CaughtUp(worker[w]) /\ Close(w, "done", worker[w], others)
           \/ Close(w, "part", worker[w], others)
  BY <1>2, CloseStep DEF Stops
<1>3. CASE worker' = [worker EXCEPT ![w].pc = "fetch"] /\ net' = others
  <2>1. Same(worker[w], worker'[w]) /\ worker'[w].pc = "fetch"
    BY <1>1, <1>3 DEF Same, TaskType
  <2>2. \A v \in Worker : WorkerStep(v)
    BY <1>1, <1>3, <2>1 DEF WorkerStep
  <2> QED
    BY <1>3, <2>2 DEF EdgeStep
<1> QED
  BY <1>2, <1>3 DEF GoOn

\* forgetting the channel,
LEMMA IdleStep ==
  ASSUME TInv, NEW w \in Worker, worker' = [worker EXCEPT ![w] = Idle], \A q \in net' : Old(q)
  PROVE  EdgeStep
<1>1. worker \in [Worker -> TaskType]
  BY Parts DEF EdgeOK
<1> QED
  BY <1>1 DEF EdgeStep, WorkerStep

\* taking an answer in,
LEMMA AnswerStep ==
  ASSUME TInv, NEW q \in net, NEW valid \in BOOLEAN, Answer(q, valid),
         q.kind = "page" /\ valid => Saves(q)
  PROVE  EdgeStep
<1>1. EdgeOK /\ q \in RequestType
  BY Parts DEF EdgeOK
<1>2. \A p \in net \ {q} : Old(p)
  BY DEF Old, CopyOf
<1>3. CASE q.from = None
  BY <1>2, <1>3 DEF Answer, EdgeStep, WorkerStep
<1>4. CASE q.from # None
  <2>1. q.from \in Worker /\ Matches(q, worker[q.from])
    BY <1>1, <1>4 DEF RequestType, EdgeOK, Awaited
  <2>2. CASE q.kind = "page" /\ valid
    BY <1>2, <1>4, <2>1, <2>2, GoOnStep DEF Answer, Answered
  <2>3. CASE ~(q.kind = "page" /\ valid)
    <3>1. worker' = [worker EXCEPT ![q.from] = Idle] /\ net' = net \ {q}
      BY <1>4, <2>3 DEF Answer
    <3> QED
      BY <1>2, <2>1, <3>1, IdleStep
  <2> QED
    BY <2>2, <2>3
<1> QED
  BY <1>3, <1>4

\* reading a page,
LEMMA FetchStep ==
  ASSUME TInv, NEW w \in Worker, fetch(w)
  PROVE  EdgeStep
<1>1. worker[w] \in TaskType /\ worker \in [Worker -> TaskType] /\ worker[w].pc = "fetch"
  BY Parts DEF EdgeOK, fetch
<1>2. CASE Page(worker[w]) = {}
  <2>1. \A q \in net : Old(q)
    BY DEF Old, CopyOf
  <2> QED
    BY <1>1, <1>2, <2>1, CloseStep DEF fetch, Stops
<1>3. CASE Page(worker[w]) # {}
  <2> DEFINE r == Request("page", w, Read(worker[w]), ReadItems(w))
  <2>1. worker' = [worker EXCEPT ![w] = Read(worker[w])] /\ net' = net \cup {r}
    BY <1>3 DEF fetch, Read, ReadItems
  <2>2. Reads(w)
    BY <1>1, <1>3, <2>1 DEF Reads
  <2>3. r.from = w /\ r.items = ReadItems(w)
    BY DEF Request
  <2> HIDE DEF r
  <2>4. \A v \in Worker : WorkerStep(v)
    BY <1>1, <2>1, <2>2 DEF WorkerStep
  <2>5. \A q \in net' : Old(q) \/ New(q)
    BY <2>1, <2>2, <2>3 DEF Old, CopyOf, New
  <2> QED
    BY <2>4, <2>5 DEF EdgeStep
<1> QED
  BY <1>2, <1>3

\* taking the channel,
LEMMA ClaimStep ==
  ASSUME TInv, NEW w \in Worker, claim(w)
  PROVE  EdgeStep
<1>1. worker \in [Worker -> TaskType] /\ net' = net
  BY Parts DEF EdgeOK, claim
<1>2. \A q \in net' : Old(q)
  BY <1>1 DEF Old, CopyOf
<1>3. CASE worker' = worker
  BY <1>2, <1>3 DEF EdgeStep, WorkerStep
<1>4. CASE worker' # worker
  <2>1. Hires(w) /\ worker' = [worker EXCEPT ![w] = NewTask]
    BY <1>4 DEF claim, Hires, NewTask
  <2> QED
    BY <1>1, <1>2, <2>1 DEF EdgeStep, WorkerStep
<1> QED
  BY <1>3, <1>4

\* giving up a request that is no page,
LEMMA GiveUpStep ==
  ASSUME TInv, NoLostPage, NEW w \in Worker, GiveUp(w)
  PROVE  EdgeStep
<1>1. PICK q \in net :
        /\ q.from = w /\ q.kind # "page"
        /\ worker' = [worker EXCEPT ![w] = Idle]
        /\ net' = (net \ {q}) \cup {Abandoned(q)}
  BY DEF GiveUp, Pay, NoLostPage
<1>2. worker'[w] = Idle
  BY <1>1, Parts DEF EdgeOK
<1>3. \A p \in net' : Old(p)
  BY <1>1, <1>2 DEF Old, CopyOf
<1> QED
  BY <1>1, <1>3, IdleStep

\* and dying.
LEMMA CrashStep ==
  ASSUME TInv, NEW w \in Worker, Crash(w)
  PROVE  EdgeStep
<1>1. worker' = [worker EXCEPT ![w] = Idle] /\ worker'[w] = Idle
  BY Parts DEF EdgeOK, Crash
<1>2. net' = {IF q.from = w THEN Abandoned(q) ELSE q : q \in net}
  BY DEF Crash
<1>3. \A p \in net' : Old(p)
  BY <1>1, <1>2 DEF Old, CopyOf
<1> QED
  BY <1>1, <1>3, IdleStep

\* Every step is one, if no page is given up.
LEMMA NextEdgeStep ==
  ASSUME TInv, NoLostPage, [Next]_vars
  PROVE  EdgeStep
<1>1. CASE worker' = worker /\ \A q \in net' : q \in net
  BY <1>1 DEF EdgeStep, WorkerStep, Old, CopyOf
<1>2. ASSUME NEW w \in Worker, NEW kind, kind # "done", Report(w, kind) PROVE EdgeStep
  <2>1. \A q \in net : Old(q)
    BY DEF Old, CopyOf
  <2> QED
    BY <1>2, <2>1, CloseStep DEF Report, Stops
<1>3. ASSUME NEW q \in net,
             crawl_batch(q) \/ crawl_batch_lapsing(q) \/ release(q) \/ report_failure(q)
      PROVE  EdgeStep
  <2>1. CASE crawl_batch(q)
    <3>1. LeaseOk(q.token) \in BOOLEAN
      BY DEF LeaseOk
    <3> QED
      BY <2>1, <3>1, AnswerStep DEF crawl_batch, Saves
  <2>2. CASE crawl_batch_lapsing(q)
    BY <2>2, AnswerStep DEF crawl_batch_lapsing
  <2>3. CASE release(q) \/ report_failure(q)
    BY <2>3, AnswerStep DEF release, report_failure
  <2> QED
    BY <1>3, <2>1, <2>2, <2>3
<1> QED
  BY <1>1, <1>2, <1>3, ClaimStep, FetchStep, GiveUpStep, CrashStep
     DEF Next, vars, Post, Delete, Tick, ToggleFallback, PreviewUnavailable, CrawlError,
         ChannelUnreadable, CrawlBlocked, Lose, load_channel, flush_channel, blacklist_add, edge

------------------------------------------------------------------------------
\* One walk to a token.

\* A new token is nobody's.
LEMMA FreshToken ==
  ASSUME TInv, NEW w \in Worker, Hires(w)
  PROVE  /\ Min(Fresh) \in Token
         /\ \A v \in Worker : worker[v].token # Min(Fresh)
         /\ \A q \in net : q.token # Min(Fresh)
         /\ NewTask.token = Min(Fresh)
         /\ \A v \in Worker \ {w} : worker'[v] = worker[v]
         /\ net' = net
<1>1. Fresh # {} /\ Fresh \in SUBSET Nat
  BY TokensSuffice DEF Hires, claim, Fresh
<1>2. Min(Fresh) \in Fresh
  BY <1>1, MinOfSet
<1>3. HandedOut(Reclaimed(channel), Min(Fresh)).owner = Min(Fresh)
  BY Parts, ReclaimedType, HandedOutCursors DEF RowOK
<1>4. NewTask.token = Min(Fresh)
  BY <1>3 DEF NewTask, Task, Idle
<1>5. worker \in [Worker -> TaskType]
  BY Parts DEF EdgeOK
<1>6. \A v \in Worker \ {w} : worker'[v] = worker[v]
  BY <1>5 DEF Hires, claim
<1>7. net' = net
  BY DEF Hires, claim
<1> HIDE DEF NewTask
<1> QED
  BY <1>2, <1>4, <1>6, <1>7 DEF Fresh

\* Reading a page moves the cursors and counts the page.
LEMMA ReadFields ==
  ASSUME NEW t \in TaskType
  PROVE  /\ Read(t).pc = "posting" /\ Read(t).token = t.token /\ Read(t).source = t.source
         /\ Read(t).stop = t.stop /\ Read(t).cursor = Min(Page(t))
         /\ Read(t).oldest = Lowest(t.oldest, Min(Page(t)))
         /\ Read(t).newest = Highest(t.newest, Max(Page(t)))
         /\ Read(t).pages = t.pages + 1
BY DEF Read, TaskType

\* A worker's token is the one it had, a new one, or none.
LEMMA WorkerToken ==
  ASSUME TInv, EdgeStep, NEW v \in Worker
  PROVE  \/ worker'[v].token = worker[v].token
         \/ worker'[v].token = None /\ worker'[v] = Idle
         \/ Hires(v) /\ worker'[v] = NewTask
<1>1. worker[v] \in TaskType
  BY Parts DEF EdgeOK
<1> QED
  BY <1>1, ReadFields DEF EdgeStep, WorkerStep, Same, Reads, Idle

\* A request that was there before carries what it carried.
LEMMA OldRequest ==
  ASSUME TInv, NEW q, Old(q)
  PROVE  \E p \in net :
           /\ q.token = p.token /\ q.kind = p.kind /\ q.items = p.items
           /\ q.oldest = p.oldest /\ q.newest = p.newest
           /\ CopyOf(q, p)
<1>1. net \subseteq RequestType
  BY Parts DEF EdgeOK
<1> QED
  BY <1>1, AbandonedType DEF Old, CopyOf

\* Tokens stay with their walks.
LEMMA NextOneWalk ==
  ASSUME TInv, OneWalk, TInv', EdgeStep
  PROVE  OneWalk'
<1>1. /\ worker \in [Worker -> TaskType] /\ net \subseteq RequestType
      /\ worker' \in [Worker -> TaskType] /\ net' \subseteq RequestType
      /\ \A q \in net' : q.from # None => q.token = worker'[q.from].token
      /\ \A q, r \in net' : q.from = r.from /\ q.from # None => q = r
      /\ None \notin Worker /\ None \notin Token /\ Idle.token = None
  BY NoneIsNobody DEF TInv, TypeOK, Shape, Awaited, Single, Matches, TaskType, Idle
<1>2. ASSUME NEW v \in Worker, NEW w \in Worker,
             worker'[v].token = worker'[w].token, worker'[v].token # None
      PROVE  v = w
  <2>1. CASE Hires(v) /\ worker'[v] = NewTask
    BY <1>2, <2>1, FreshToken
  <2>2. CASE Hires(w) /\ worker'[w] = NewTask
    BY <1>2, <2>2, FreshToken
  <2>3. CASE worker'[v].token = worker[v].token /\ worker'[w].token = worker[w].token
    BY <1>2, <2>3 DEF OneWalk
  <2> QED
    BY <1>2, <2>1, <2>2, <2>3, WorkerToken
<1>3. ASSUME NEW q \in net', NEW w \in Worker, q.token = worker'[w].token
      PROVE  q.from = w
  <2>1. q.token \in Token
    BY <1>1 DEF RequestType
  <2>2. CASE New(q)
    BY <1>1, <1>2, <1>3, <2>1, <2>2 DEF New
  <2>3. CASE Old(q)
    <3>1. PICK p \in net :
            /\ q.token = p.token
            /\ CopyOf(q, p)
      BY <2>3, OldRequest
    <3>2. ~Hires(w) \/ worker'[w] # NewTask
      BY <1>3, <3>1, FreshToken
    <3>3. worker'[w].token = worker[w].token
      BY <1>1, <1>3, <2>1, <3>2, WorkerToken
    <3>4. p.from = w
      BY <1>3, <3>1, <3>3 DEF OneWalk
    <3> QED
      BY <1>1, <1>3, <2>1, <3>1, <3>4 DEF CopyOf
  <2> QED
    BY <2>2, <2>3 DEF EdgeStep
<1>4. ASSUME NEW q \in net', NEW r \in net', q.token = r.token
      PROVE  q = r
  <2>1. CASE q.from \in Worker
    BY <1>1, <1>3, <1>4, <2>1
  <2>2. CASE r.from \in Worker
    BY <1>1, <1>3, <1>4, <2>2
  <2>3. CASE q.from \notin Worker /\ r.from \notin Worker
    <3>1. Old(q) /\ Old(r)
      BY <2>3 DEF EdgeStep, New
    <3>2. PICK p \in net :
            /\ q.token = p.token
            /\ CopyOf(q, p)
      BY <3>1, OldRequest
    <3>3. PICK s \in net :
            /\ r.token = s.token
            /\ CopyOf(r, s)
      BY <3>1, OldRequest
    <3>4. p = s
      BY <1>4, <3>2, <3>3 DEF OneWalk
    <3> QED
      BY <2>3, <3>2, <3>3, <3>4 DEF CopyOf
  <2> QED
    BY <2>1, <2>2, <2>3
<1> QED
  BY <1>2, <1>3, <1>4 DEF OneWalk

------------------------------------------------------------------------------
\* Cursors are pairs, and none is ahead of the channel.

\* Messages come at the top.
LEMMA TelegramStep ==
  ASSUME TInv, [Next]_vars
  PROVE  /\ top \in Nat /\ top' \in Nat /\ top <= top'
         /\ \/ posts' \subseteq posts
            \/ Post
<1>1. top \in Nat
  BY Parts DEF RestOK
<1>2. CASE UNCHANGED telegram
  BY <1>1, <1>2 DEF telegram
<1>3. CASE Post
  BY <1>1, <1>3 DEF Post
<1>4. CASE Delete
  BY <1>1, <1>4 DEF Delete
<1> QED
  BY <1>2, <1>3, <1>4
     DEF Next, vars, Tick, ToggleFallback, claim, fetch, PreviewUnavailable, CrawlError,
         ChannelUnreadable, CrawlBlocked, Report, GiveUp, Crash, crawl_batch, crawl_batch_lapsing,
         release, report_failure, Lose, load_channel, flush_channel, blacklist_add, telegram

\* The page just read is what lies between the new lowest cursor and the old one.
LEMMA ReadTask ==
  ASSUME TInv, Cursors, NEW v \in Worker, Page(worker[v]) # {}
  PROVE  /\ UpTo(Read(worker[v]), top)
         /\ Page(worker[v]) \subseteq Read(worker[v]).oldest..Read(worker[v]).newest
         /\ LET t == worker[v]
                lo == Min(Page(t))
                hi == Max(Page(t))
            IN /\ lo \in Page(t) /\ hi \in Page(t) /\ lo \in 1..top /\ hi \in 1..top
               /\ \A m \in Page(t) : lo <= m /\ m <= hi
               /\ t.cursor # 0 => hi < t.cursor
               /\ Read(t).oldest = lo
               /\ Read(t).newest = IF t.newest >= hi THEN t.newest ELSE hi
<1> DEFINE t == worker[v]
           lo == Min(Page(t))
           hi == Max(Page(t))
<1>1. t \in TaskType /\ UpTo(t, top) /\ top \in Nat
  BY Parts DEF EdgeOK, RestOK, Cursors
<1>2. /\ lo \in Page(t) /\ hi \in Page(t) /\ lo \in 1..top /\ hi \in 1..top /\ lo <= hi
      /\ \A m \in Page(t) : m \in 1..top /\ lo <= m /\ m <= hi
  BY <1>1, PageFacts
<1>3. t.stop \in Nat /\ t.cursor \in Nat /\ t.oldest \in Nat /\ t.newest \in Nat /\ t.pages \in Nat
  BY <1>1, Consts DEF TaskType
<1>4. t.cursor # 0 => hi < t.cursor
  BY <1>2 DEF Page
<1> DEFINE r == Read(t)
<1>5. /\ r.stop = t.stop /\ r.cursor = lo /\ r.oldest = Lowest(t.oldest, lo)
      /\ r.newest = Highest(t.newest, hi) /\ r.pages = t.pages + 1
  BY <1>1, ReadFields
<1> HIDE DEF t, r, lo, hi
<1>6. /\ r.oldest = IF t.oldest = 0 \/ lo <= t.oldest THEN lo ELSE t.oldest
      /\ r.newest = IF t.newest >= hi THEN t.newest ELSE hi
  BY <1>2, <1>3, <1>5, Cursor
<1>7. r.oldest = lo
  BY <1>1, <1>2, <1>3, <1>4, <1>6 DEF UpTo
<1>8. UpTo(r, top)
  BY <1>1, <1>2, <1>3, <1>5, <1>6, <1>7 DEF UpTo, Span
<1>9. \A m \in Page(t) : m \in r.oldest..r.newest
  BY <1>1, <1>2, <1>3, <1>6, <1>7
<1> QED
  BY <1>2, <1>4, <1>6, <1>7, <1>8, <1>9 DEF t, r, lo, hi

\* A walk begins at the oldest message read, to go on backwards, or at the top, to
\* stop at the newest one read.
LEMMA NewTaskCursors ==
  ASSUME TInv, Cursors
  PROVE  /\ NewTask.pc = "fetch" /\ NewTask.pages = 0 /\ NewTask.oldest = 0 /\ NewTask.newest = 0
         /\ \/ /\ NewTask.cursor = channel.oldest /\ NewTask.stop = 0
               /\ channel.oldest # 1
            \/ /\ NewTask.cursor = 0 /\ NewTask.stop = channel.newest
               /\ channel.oldest = 1
         /\ UpTo(NewTask, top)
<1> DEFINE row == HandedOut(Reclaimed(channel), Min(Fresh))
<1>1. channel \in Channel /\ Reclaimed(channel) \in Channel
  BY Parts, ReclaimedType DEF RowOK
<1>2. row.oldest = channel.oldest /\ row.newest = channel.newest
  BY <1>1, HandedOutCursors, ReclaimedCursors
<1> HIDE DEF row
<1>3. NewTask = Task(row)
  BY DEF NewTask, row
<1>4. /\ Task(row).pc = "fetch" /\ Task(row).pages = 0 /\ Task(row).oldest = 0
      /\ Task(row).newest = 0
      /\ Task(row).cursor = IF Backfilling(row) THEN row.oldest ELSE 0
      /\ Task(row).stop = IF Backfilling(row) THEN 0 ELSE row.newest
  BY DEF Task, Idle
<1>5. /\ channel.oldest \in Nat /\ channel.newest \in Nat /\ top \in Nat
      /\ Span(channel) /\ channel.newest <= top
  BY <1>1, Parts, Consts DEF Channel, Cursors, RestOK
<1>6. Backfilling(row) <=> channel.oldest # 1
  BY <1>2, <1>5 DEF Backfilling
<1> HIDE DEF NewTask
<1> QED
  BY <1>2, <1>3, <1>4, <1>5, <1>6 DEF UpTo, Span

\* It begins with reading.
LEMMA NewTaskPc == NewTask.pc = "fetch"
BY DEF NewTask, Task, Idle

\* Cursors stay pairs within the channel.
LEMMA NextCursors ==
  ASSUME TInv, Cursors, TInv', EdgeStep, [Next]_vars
  PROVE  Cursors'
<1>1. /\ channel \in Channel /\ worker \in [Worker -> TaskType] /\ net \subseteq RequestType
      /\ top \in Nat /\ top' \in Nat /\ top <= top'
  BY Parts, TelegramStep DEF RowOK, EdgeOK
<1>2. Span(channel') /\ channel'.newest <= top'
  <2>1. channel.oldest \in Nat /\ channel.newest \in Nat
    BY <1>1, Consts DEF Channel
  <2>2. CASE SameCursors \/ NoCursors
    BY <1>1, <2>1, <2>2 DEF SameCursors, NoCursors, Cursors, Span
  <2>3. ASSUME NEW q \in net, Saves(q)
        PROVE  Span(channel') /\ channel'.newest <= top'
    <3>1. /\ channel'.oldest = Lowest(channel.oldest, q.oldest)
          /\ channel'.newest = Highest(channel.newest, q.newest)
      BY <1>1, <2>3, SavedCursors, SavesDoes
    <3>2. q.oldest \in Nat /\ q.newest \in Nat /\ Span(q) /\ q.newest <= top
          /\ Span(channel) /\ channel.newest <= top
      BY <1>1, <2>3, SavesDoes, Consts DEF RequestType, Cursors
    <3> QED
      BY <1>1, <2>1, <3>1, <3>2, Cursor DEF Span
  <2> QED
    BY <2>2, <2>3, ChannelChange
<1>3. edit' # None => Span(edit'.seen)
  <2>1. CASE edit' = edit \/ edit' = None
    BY <2>1 DEF Cursors
  <2>2. ASSUME NEW op \in Edits, load_channel(op) PROVE Span(edit'.seen)
    BY <2>2 DEF Cursors, load_channel, Span
  <2> QED
    BY <2>1, <2>2
       DEF Next, vars, Post, Delete, Tick, ToggleFallback, claim, fetch, PreviewUnavailable,
           CrawlError, ChannelUnreadable, CrawlBlocked, Report, GiveUp, Crash, crawl_batch,
           crawl_batch_lapsing, release, report_failure, Lose, flush_channel, blacklist_add
<1>4. ASSUME NEW v \in Worker PROVE UpTo(worker'[v], top')
  <2>1. \A t \in TaskType : UpTo(t, top) => UpTo(t, top')
    <3>1. \A t \in TaskType : t.newest \in Nat /\ t.cursor \in Nat /\ t.stop \in Nat
      BY Consts DEF TaskType
    <3> QED
      BY <1>1, <3>1 DEF UpTo
  <2>2. worker[v] \in TaskType /\ UpTo(worker[v], top)
    BY <1>1 DEF Cursors
  <2>3. worker'[v] \in TaskType
    BY DEF TInv, TypeOK, TaskType
  <2>4. CASE worker'[v] = worker[v] \/ Same(worker[v], worker'[v])
    <3>1. UpTo(worker'[v], top)
      BY <2>2, <2>4 DEF Same, UpTo, Span
    <3> QED
      BY <2>1, <2>3, <3>1
  <2>5. CASE worker'[v] = Idle
    BY <1>1, <2>5 DEF Idle, UpTo, Span
  <2>6. CASE Reads(v)
    BY <2>1, <2>3, <2>6, ReadTask DEF Reads
  <2>7. CASE worker'[v] = NewTask
    BY <2>1, <2>3, <2>7, NewTaskCursors
  <2> QED
    BY <2>4, <2>5, <2>6, <2>7 DEF EdgeStep, WorkerStep
<1>5. ASSUME NEW q \in net', q.kind \in Batch
      PROVE  Span(q) /\ q.newest <= top' /\ q.items \subseteq q.oldest..q.newest
  <2>1. CASE Old(q)
    <3>1. PICK p \in net : /\ q.kind = p.kind /\ q.items = p.items
                           /\ q.oldest = p.oldest /\ q.newest = p.newest
      BY <2>1, OldRequest
    <3>2. p.newest \in Nat /\ Span(p) /\ p.newest <= top /\ p.items \subseteq p.oldest..p.newest
      BY <1>1, <1>5, <3>1, Consts DEF RequestType, Cursors
    <3> QED
      BY <1>1, <3>1, <3>2 DEF Span
  <2>2. CASE New(q)
    <3>1. /\ q.from \in Worker /\ q.oldest = worker'[q.from].oldest
          /\ q.newest = worker'[q.from].newest
      BY <1>5, <2>2, NoneIsNobody DEF New, TInv, Shape, Awaited, Matches
    <3>2. Span(q) /\ q.newest <= top'
      BY <1>4, <3>1 DEF UpTo, Span
    <3>3. CASE q.items = {}
      BY <3>2, <3>3
    <3>4. CASE Reads(q.from) /\ q.items = ReadItems(q.from)
      BY <3>1, <3>2, <3>4, ReadTask DEF Reads, ReadItems
    <3> QED
      BY <2>2, <3>3, <3>4 DEF New
  <2> QED
    BY <2>1, <2>2 DEF EdgeStep
<1> QED
  BY <1>2, <1>3, <1>4, <1>5 DEF Cursors

------------------------------------------------------------------------------
\* Coverage: what the catalogue has between the cursors, and what is behind them.

\* What is posted between two looks fits on a page.
BurstFits == Burst <= PageSize

Paired(row) == row.oldest \in Nat /\ row.newest \in Nat /\ Span(row)

\* The channel's cursors stay or are forgotten.
Held(row, new) ==
  \/ new.oldest = row.oldest /\ new.newest = row.newest
  \/ new.oldest = 0 /\ new.newest = 0

\* Coverage survives deleted messages, a larger catalogue, and forgotten cursors.
LEMMA JoinedKept ==
  ASSUME NEW row, NEW new, Paired(row), Held(row, new),
         NEW p \in SUBSET (Nat \ {0}), NEW p2 \in SUBSET p, NEW s, NEW s2, s \subseteq s2,
         NEW a \in Nat, NEW b \in Nat, a = 0 <=> b = 0, Joined(row, p, s, a, b)
  PROVE  Joined(new, p2, s2, a, b)
<1> SUFFICES ASSUME NEW m \in p2, Lowest(new.oldest, a) <= m, m <= Highest(new.newest, b)
             PROVE  m \in s
  BY DEF Joined
<1>1. m \in Nat \ {0} /\ row.oldest \in Nat /\ row.newest \in Nat
  BY DEF Paired
<1>2. Lowest(row.oldest, a) <= m /\ m <= Highest(row.newest, b)
  BY <1>1, Cursor DEF Held
<1> QED
  BY <1>2 DEF Joined

\* What is unread above a place does not grow when messages are deleted or stored.
LEMMA FewKept ==
  ASSUME NEW x, NEW p, IsFiniteSet(p), NEW p2 \in SUBSET p, NEW s, NEW s2, s \subseteq s2,
         Few(x, p, s)
  PROVE  Few(x, p2, s2)
<1>1. Unread(x, p2, s2) \subseteq Unread(x, p, s) /\ Unread(x, p, s) \subseteq p
  BY DEF Unread
<1>2. /\ Cardinality(Unread(x, p2, s2)) <= Cardinality(Unread(x, p, s))
      /\ Cardinality(Unread(x, p2, s2)) \in Nat /\ Cardinality(Unread(x, p, s)) \in Nat
  BY <1>1, FS_Subset, FS_CardinalityType
<1> QED
  BY <1>2, Consts DEF Few

\* Hence a walk's coverage survives them,
LEMMA WalkKept ==
  ASSUME NEW row, NEW new, Paired(row), Held(row, new), NEW t \in TaskType, Span(t),
         NEW p \in SUBSET (Nat \ {0}), IsFiniteSet(p), NEW p2 \in SUBSET p,
         NEW s, NEW s2, s \subseteq s2, WalkCovers(t, row, p, s)
  PROVE  WalkCovers(t, new, p2, s2)
<1>1. t.oldest \in Nat /\ t.newest \in Nat
  BY Consts DEF TaskType
<1>2. Joined(new, p2, s2, t.oldest, t.newest)
  BY <1>1, JoinedKept DEF WalkCovers, Span
<1>3. t.pages = 0 => Started(t, new)
  BY DEF WalkCovers, Started, Held
<1>4. t.cursor # 0 \/ t.stop # 0 => Few(Base(t), p2, s2)
  BY FewKept DEF WalkCovers
<1> QED
  BY <1>2, <1>3, <1>4 DEF WalkCovers

\* and a request's.
LEMMA PostKept ==
  ASSUME NEW row, NEW new, Paired(row), Held(row, new), NEW q \in RequestType, Span(q),
         NEW p \in SUBSET (Nat \ {0}), IsFiniteSet(p), NEW p2 \in SUBSET p,
         NEW s, NEW s2, s \subseteq s2, PostCovers(q, row, p, s)
  PROVE  PostCovers(q, new, p2, s2)
<1>1. q.oldest \in Nat /\ q.newest \in Nat
  BY Consts DEF RequestType
<1>2. s \cup q.items \subseteq s2 \cup q.items
  OBVIOUS
<1>3. Joined(new, p2, s2 \cup q.items, q.oldest, q.newest)
  BY <1>1, <1>2, JoinedKept DEF PostCovers, Span
<1>4. q.newest # 0 => Few(q.newest, p2, s2)
  BY FewKept DEF PostCovers
<1> QED
  BY <1>3, <1>4 DEF PostCovers

\* The channel has finitely many messages.
LEMMA PostsFinite ==
  ASSUME TInv
  PROVE  posts \in SUBSET (Nat \ {0}) /\ IsFiniteSet(posts)
<1>1. posts \subseteq 1..top /\ top \in Nat
  BY Parts, Consts DEF RestOK
<1>2. IsFiniteSet(1..top)
  BY <1>1, FS_Interval
<1>3. IsFiniteSet(posts)
  BY <1>1, <1>2, FS_Subset
<1>4. \A m \in posts : m \in Nat \ {0}
  BY <1>1
<1> QED
  BY <1>3, <1>4

------------------------------------------------------------------------------
\* A page is all there is above its lowest message, up to the cursor.

\* What a page is taken from.
Eligible(t) ==
  {m \in posts : /\ t.cursor = 0 \/ m < t.cursor
                 /\ t.source = "mtproto" => m > t.stop}

\* A page is the newest of them.
LEMMA PageDef ==
  ASSUME NEW t
  PROVE  Page(t) = {m \in Eligible(t) : Cardinality({n \in Eligible(t) : n > m}) < PageSize}
BY DEF Page, Eligible

\* A page has all there is above its lowest message.
LEMMA PageIsTop ==
  ASSUME TInv, NEW t \in TaskType, NEW k \in Page(t), NEW m \in Eligible(t), k <= m
  PROVE  m \in Page(t)
<1> DEFINE E == Eligible(t)
           over(x) == {n \in E : n > x}
<1>1. E \subseteq posts /\ E \subseteq Nat
  BY PostsFinite DEF Eligible
<1>2. IsFiniteSet(E)
  BY <1>1, PostsFinite, FS_Subset
<1>3. k \in E /\ Cardinality(over(k)) < PageSize
  BY PageDef
<1>4. over(m) \subseteq over(k) /\ over(k) \subseteq E
  BY <1>1, <1>3
<1>5. /\ Cardinality(over(m)) <= Cardinality(over(k))
      /\ Cardinality(over(m)) \in Nat /\ Cardinality(over(k)) \in Nat
  BY <1>2, <1>4, FS_Subset, FS_CardinalityType
<1>6. Cardinality(over(m)) < PageSize
  BY <1>3, <1>5, Consts
<1> QED
  BY <1>6, PageDef

\* A message that is not in the catalogue, close enough to the top, is on the page.
LEMMA PageHasUnread ==
  ASSUME TInv, BurstFits, NEW t \in TaskType, NEW x \in Nat, Few(x, posts, stored),
         NEW m \in Eligible(t), m \notin stored, x < m
  PROVE  m \in Page(t)
<1> DEFINE E == Eligible(t)
           over == {n \in E : n > m}
           rest == Unread(x, posts, stored)
<1>1. E \subseteq posts /\ E \subseteq Nat /\ IsFiniteSet(posts) /\ posts \subseteq Nat
  BY PostsFinite DEF Eligible
<1>2. over \subseteq rest /\ m \in rest /\ m \notin over /\ rest \subseteq posts
  BY <1>1 DEF Unread
<1>3. IsFiniteSet(rest) /\ IsFiniteSet(over)
  BY <1>1, <1>2, FS_Subset
<1>4. over \cup {m} \subseteq rest
  BY <1>2
<1>5. Cardinality(over \cup {m}) <= Cardinality(rest)
  BY <1>3, <1>4, FS_Subset
<1>6. Cardinality(over \cup {m}) = Cardinality(over) + 1
  BY <1>2, <1>3, FS_AddElement
<1>7. Cardinality(over) \in Nat /\ Cardinality(rest) \in Nat
  BY <1>3, FS_CardinalityType
<1>8. Cardinality(rest) <= Burst
  BY DEF Few
<1>9. Cardinality(over) < PageSize
  <2> HIDE DEF over, rest
  <2> QED
    BY <1>5, <1>6, <1>7, <1>8, Consts DEF BurstFits
<1> QED
  BY <1>9, PageDef

------------------------------------------------------------------------------
\* A page covers what lies between the walk so far and its lowest message.

\* What is unread above x is unread above y.
LEMMA FewWithin ==
  ASSUME NEW p, IsFiniteSet(p), NEW s, NEW x, NEW y, Few(y, p, s),
         \A k \in p \ s : x < k => y < k
  PROVE  Few(x, p, s)
<1>1. Unread(x, p, s) \subseteq Unread(y, p, s) /\ Unread(y, p, s) \subseteq p
  BY DEF Unread
<1>2. /\ Cardinality(Unread(x, p, s)) <= Cardinality(Unread(y, p, s))
      /\ Cardinality(Unread(x, p, s)) \in Nat /\ Cardinality(Unread(y, p, s)) \in Nat
  BY <1>1, FS_Subset, FS_CardinalityType
<1> QED
  BY <1>2, Consts DEF Few

\* Nothing is unread above the last unread message.
LEMMA FewAtTop ==
  ASSUME NEW p, NEW s, NEW x, \A k \in p \ s : ~(x < k)
  PROVE  Few(x, p, s)
<1>1. Unread(x, p, s) = {}
  BY DEF Unread
<1> QED
  BY <1>1, FS_EmptySet, Consts DEF Few

\* What is known of a walk with a good lease.
LEMMA WalkFacts ==
  ASSUME TInv, Cursors, Covered, NEW w \in Worker, Walking(w)
  PROVE  /\ worker[w] \in TaskType /\ UpTo(worker[w], top)
         /\ WalkCovers(worker[w], channel, posts, stored)
         /\ ReadTo(worker[w].stop, posts, stored)
         /\ posts \subseteq Nat \ {0} /\ IsFiniteSet(posts)
         /\ channel.oldest \in Nat /\ channel.newest \in Nat /\ Span(channel)
         /\ worker[w].stop \in Nat /\ worker[w].cursor \in Nat /\ worker[w].oldest \in Nat
         /\ worker[w].newest \in Nat /\ worker[w].pages \in Nat
<1>1. worker[w] \in TaskType /\ channel \in Channel
  BY Parts DEF EdgeOK, RowOK
<1> QED
  BY <1>1, PostsFinite, Consts DEF TaskType, Channel, Cursors, Covered

\* A page read by such a walk leaves no gap between its cursors and the row's.
LEMMA ReadJoined ==
  ASSUME TInv, Cursors, Covered, BurstFits, NEW w \in Worker, Walking(w),
         Page(worker[w]) # {}
  PROVE  Joined(channel, posts, stored \cup ReadItems(w),
                Read(worker[w]).oldest, Read(worker[w]).newest)
<1> DEFINE t == worker[w]
           lo == Min(Page(t))
           hi == Max(Page(t))
           r == Read(t)
<1>1. /\ t \in TaskType /\ UpTo(t, top) /\ WalkCovers(t, channel, posts, stored)
      /\ ReadTo(t.stop, posts, stored)
      /\ posts \subseteq Nat \ {0}
      /\ channel.oldest \in Nat /\ channel.newest \in Nat /\ Span(channel)
      /\ t.stop \in Nat /\ t.cursor \in Nat /\ t.oldest \in Nat
      /\ t.newest \in Nat /\ t.pages \in Nat
  BY WalkFacts
<1>2. /\ lo \in Page(t) /\ hi \in Page(t) /\ lo \in Nat \ {0} /\ hi \in Nat \ {0} /\ lo <= hi
      /\ t.cursor # 0 => hi < t.cursor
      /\ r.oldest = lo
      /\ r.newest = IF t.newest >= hi THEN t.newest ELSE hi
  BY <1>1, ReadTask
<1> HIDE DEF lo, hi, r
<1> SUFFICES ASSUME NEW m \in posts, m \notin stored,
                    Lowest(channel.oldest, r.oldest) <= m, m <= Highest(channel.newest, r.newest)
             PROVE  m \in ReadItems(w)
  BY DEF Joined, r
<1>3. m \in Nat \ {0} /\ m > t.stop
  BY <1>1 DEF ReadTo
<1>4. ~(Lowest(channel.oldest, t.oldest) <= m /\ m <= Highest(channel.newest, t.newest))
  BY <1>1 DEF WalkCovers, Joined
<1>5. /\ channel.oldest = 0 => t.pages = 0 \/ ~(t.oldest <= m /\ m <= t.newest)
      /\ channel.oldest # 0 /\ channel.oldest <= m => m > channel.newest /\ m > t.newest
      /\ t.oldest # 0 /\ t.oldest <= m => m > channel.newest /\ m > t.newest
  BY <1>1, <1>3, <1>4, Cursor DEF Span, UpTo
<1>6. /\ lo <= m \/ (channel.oldest # 0 /\ channel.oldest <= m)
      /\ m <= channel.newest \/ m <= t.newest \/ m <= hi
  BY <1>1, <1>2, <1>3, Cursor
<1>7. t.cursor # 0 => m < t.cursor /\ lo <= m
  <2> SUFFICES ASSUME t.cursor # 0 PROVE m < t.cursor /\ lo <= m
    OBVIOUS
  <2>1. CASE t.pages # 0
    <3>1. t.oldest = t.cursor /\ t.oldest <= t.newest
      BY <1>1, <2>1 DEF UpTo, Span
    <3> QED
      BY <1>1, <1>2, <1>3, <1>5, <1>6, <3>1
  <2>2. CASE t.pages = 0
    <3>1. t.stop = 0 /\ t.oldest = 0 /\ t.newest = 0 /\ channel.oldest \in {0, t.cursor}
      BY <1>1, <2>2 DEF UpTo, Span, WalkCovers, Started
    <3> QED
      BY <1>1, <1>2, <1>3, <1>5, <1>6, <3>1 DEF Span
  <2> QED
    BY <2>1, <2>2
<1>8. m \in Eligible(t)
  BY <1>3, <1>7 DEF Eligible
<1>9. CASE lo <= m
  <2>1. m \in Page(t)
    BY <1>1, <1>2, <1>8, <1>9, PageIsTop
  <2> QED
    BY <1>3, <2>1 DEF ReadItems
<1>10. CASE ~(lo <= m)
  <2>1. t.cursor = 0 /\ channel.oldest # 0 /\ channel.oldest <= m
    BY <1>6, <1>7, <1>10
  <2>2. t.pages = 0 /\ t.newest = 0
    BY <1>1, <2>1 DEF UpTo, Span
  <2>3. t.stop # 0
    BY <1>1, <2>1, <2>2 DEF WalkCovers, Started
  <2>4. Few(t.stop, posts, stored)
    BY <1>1, <2>1, <2>2, <2>3 DEF WalkCovers, Base
  <2>5. m \in Page(t)
    BY <1>1, <1>3, <1>8, <2>4, PageHasUnread
  <2> QED
    BY <1>3, <2>5 DEF ReadItems
<1> QED
  BY <1>9, <1>10

\* Above a page's newest message, a burst at most is unread.
LEMMA ReadFew ==
  ASSUME TInv, Cursors, Covered, NEW w \in Worker, Walking(w), Page(worker[w]) # {}
  PROVE  Few(Read(worker[w]).newest, posts, stored)
<1> DEFINE t == worker[w]
           lo == Min(Page(t))
           hi == Max(Page(t))
           r == Read(t)
<1>1. /\ t \in TaskType /\ UpTo(t, top) /\ WalkCovers(t, channel, posts, stored)
      /\ posts \subseteq Nat \ {0} /\ IsFiniteSet(posts)
      /\ t.stop \in Nat /\ t.cursor \in Nat /\ t.oldest \in Nat
      /\ t.newest \in Nat /\ t.pages \in Nat
  BY WalkFacts
<1>2. /\ lo \in Page(t) /\ hi \in Page(t) /\ lo \in Nat \ {0} /\ hi \in Nat \ {0} /\ lo <= hi
      /\ \A m \in Page(t) : m <= hi
      /\ t.cursor # 0 => hi < t.cursor
      /\ r.oldest = lo
      /\ r.newest = IF t.newest >= hi THEN t.newest ELSE hi
  BY <1>1, ReadTask
<1> HIDE DEF lo, hi, r
<1>3. CASE t.newest # 0
  <2>1. t.cursor # 0 /\ t.cursor <= t.newest
    BY <1>1, <1>3 DEF UpTo, Span
  <2>2. r.newest = t.newest
    BY <1>1, <1>2, <2>1
  <2>3. Few(t.newest, posts, stored)
    BY <1>1, <1>3, <2>1 DEF WalkCovers, Base
  <2> QED
    BY <2>2, <2>3 DEF r
<1>4. CASE t.newest = 0
  <2>1. t.pages = 0 /\ r.newest = hi
    BY <1>1, <1>2, <1>4 DEF UpTo, Span
  <2>2. ASSUME NEW k \in posts, hi < k PROVE t.cursor # 0 /\ t.cursor - 1 < k
    <3>1. t.source = "mtproto" => hi > t.stop
      BY <1>2 DEF Page
    <3>2. k \in Nat /\ (t.source = "mtproto" => k > t.stop)
      BY <1>1, <1>2, <2>2, <3>1
    <3>3. k \notin Page(t)
      BY <1>2, <2>2, <3>2
    <3>4. k \notin Eligible(t)
      BY <1>1, <1>2, <2>2, <3>2, <3>3, PageIsTop
    <3> QED
      BY <1>1, <3>2, <3>4 DEF Eligible
  <2>3. CASE t.cursor = 0
    BY <2>1, <2>2, <2>3, FewAtTop DEF r
  <2>4. CASE t.cursor # 0
    <3>1. Few(t.cursor - 1, posts, stored)
      BY <1>1, <1>4, <2>4 DEF WalkCovers, Base
    <3> QED
      BY <1>1, <2>1, <2>2, <3>1, FewWithin DEF r
  <2> QED
    BY <2>3, <2>4
<1> QED
  BY <1>3, <1>4

\* A walk that stops reports no more than it covered.
LEMMA StopCovers ==
  ASSUME NEW t \in TaskType, UpTo(t, top), NEW row, NEW p, NEW s, WalkCovers(t, row, p, s),
         NEW q, q.oldest = t.oldest, q.newest = t.newest, q.items = {}
  PROVE  PostCovers(q, row, p, s)
<1>1. s \cup q.items = s
  OBVIOUS
<1>2. q.newest # 0 => Few(q.newest, p, s)
  <2>1. q.newest # 0 => t.cursor # 0
    BY DEF UpTo, Span
  <2> QED
    BY <2>1 DEF WalkCovers, Base
<1> QED
  BY <1>1, <1>2 DEF WalkCovers, PostCovers

------------------------------------------------------------------------------
\* Saving a page, handing the channel out, a new message.

\* The row alone covers what CursorsCover says.
LEMMA CoverJoined ==
  ASSUME NEW row, Paired(row), NEW p \in SUBSET (Nat \ {0}), NEW s
  PROVE  Joined(row, p, s, 0, 0)
           <=> \A m \in p : row.oldest # 0 /\ m \in row.oldest..row.newest => m \in s
<1>1. Lowest(row.oldest, 0) = row.oldest /\ Highest(row.newest, 0) = row.newest
  BY Cursor DEF Paired
<1> QED
  BY <1>1 DEF Joined, Paired, Span

\* A saved page's cursors cover what the page and the row covered together.
LEMMA SavedJoined ==
  ASSUME NEW row, Paired(row), NEW new, NEW p \in SUBSET (Nat \ {0}), NEW s,
         NEW a \in Nat, NEW b \in Nat, a = 0 <=> b = 0, a <= b,
         new.oldest = Lowest(row.oldest, a), new.newest = Highest(row.newest, b),
         Joined(row, p, s, a, b)
  PROVE  /\ Paired(new)
         /\ Joined(new, p, s, 0, 0)
         /\ Joined(new, p, s, a, b)
<1>1. row.oldest \in Nat /\ row.newest \in Nat /\ (row.oldest = 0 <=> row.newest = 0)
      /\ row.oldest <= row.newest
  BY DEF Paired, Span
<1>2. /\ new.oldest = IF row.oldest = 0 THEN a ELSE IF a = 0 THEN row.oldest
                      ELSE IF row.oldest <= a THEN row.oldest ELSE a
      /\ new.newest = IF row.newest >= b THEN row.newest ELSE b
  BY <1>1, Cursor
<1>3. Paired(new)
  BY <1>1, <1>2 DEF Paired, Span
<1>4. new.oldest \in Nat /\ new.newest \in Nat
  BY <1>3 DEF Paired
<1>5. /\ Lowest(new.oldest, 0) = new.oldest /\ Highest(new.newest, 0) = new.newest
      /\ Lowest(new.oldest, a) = new.oldest /\ Highest(new.newest, b) = new.newest
  BY <1>1, <1>2, <1>4, Cursor
<1> QED
  BY <1>3, <1>5 DEF Joined

\* Above the higher of two cursors a burst is unread at most.
LEMMA SavedFew ==
  ASSUME NEW p, IsFiniteSet(p), NEW s, NEW s2, s \subseteq s2, NEW a \in Nat, NEW b \in Nat,
         a # 0 => Few(a, p, s), b # 0 => Few(b, p, s), Highest(a, b) # 0
  PROVE  Few(Highest(a, b), p, s2)
<1>1. Highest(a, b) = a \/ Highest(a, b) = b
  BY Cursor
<1> QED
  BY <1>1, FewKept

\* A walk that begins covers nothing yet, and touches the row.
LEMMA NewTaskCovers ==
  ASSUME TInv, Cursors, Covered
  PROVE  /\ WalkCovers(NewTask, channel, posts, stored)
         /\ ReadTo(NewTask.stop, posts, stored)
<1>1. /\ channel.oldest \in Nat /\ channel.newest \in Nat /\ Span(channel) /\ Paired(channel)
      /\ posts \in SUBSET (Nat \ {0}) /\ IsFiniteSet(posts)
  BY Parts, PostsFinite, Consts DEF RowOK, Channel, Cursors, Paired
<1>2. /\ NewTask.pages = 0 /\ NewTask.oldest = 0 /\ NewTask.newest = 0
      /\ \/ /\ NewTask.cursor = channel.oldest /\ NewTask.stop = 0
            /\ channel.oldest # 1
         \/ /\ NewTask.cursor = 0 /\ NewTask.stop = channel.newest
            /\ channel.oldest = 1
  BY NewTaskCursors
<1> HIDE DEF NewTask
<1>3. \A m \in posts : channel.oldest # 0 /\ m \in channel.oldest..channel.newest => m \in stored
  BY DEF Covered, CursorsCover
<1>4. Joined(channel, posts, stored, 0, 0)
  BY <1>1, <1>3, CoverJoined
<1>5. channel.newest # 0 => Few(channel.newest, posts, stored)
  BY DEF Covered
<1>6. ASSUME NewTask.cursor # 0 \/ NewTask.stop # 0
      PROVE  Few(Base(NewTask), posts, stored)
  <2>1. CASE NewTask.cursor = channel.oldest /\ NewTask.stop = 0
    <3>1. Base(NewTask) = channel.oldest - 1 /\ channel.newest # 0
      BY <1>1, <1>2, <1>6, <2>1 DEF Base, Span
    <3>2. \A k \in posts \ stored : channel.oldest - 1 < k => channel.newest < k
      BY <1>1, <1>3, <3>1 DEF Span
    <3> QED
      BY <1>1, <1>5, <3>1, <3>2, FewWithin
  <2>2. CASE NewTask.cursor = 0 /\ NewTask.stop = channel.newest
    BY <1>2, <1>5, <1>6, <2>2 DEF Base
  <2> QED
    BY <1>2, <2>1, <2>2
<1>7. WalkCovers(NewTask, channel, posts, stored)
  <2>1. Joined(channel, posts, stored, NewTask.oldest, NewTask.newest)
    BY <1>2, <1>4
  <2>2. Started(NewTask, channel)
    BY <1>1, <1>2 DEF Started, Span
  <2> QED
    BY <1>6, <2>1, <2>2 DEF WalkCovers
<1>8. ReadTo(NewTask.stop, posts, stored)
  BY <1>1, <1>2, <1>3 DEF ReadTo
<1> QED
  BY <1>7, <1>8

\* A new message is one more of the burst.
LEMMA PostFew ==
  ASSUME TInv, Post, NEW x, \A k \in posts \ stored : x < k => channel.newest < k
  PROVE  Few(x, posts', stored)
<1> DEFINE ahead == {m \in posts : m > channel.newest}
<1>1. posts' = posts \cup {top + 1} /\ Cardinality(ahead) < Burst
  BY DEF Post
<1>2. IsFiniteSet(posts) /\ posts \subseteq Nat /\ channel.newest \in Nat
  BY Parts, PostsFinite, Consts DEF RowOK, Channel
<1>3. IsFiniteSet(ahead) /\ Cardinality(ahead) \in Nat
  BY <1>2, FS_Subset, FS_CardinalityType
<1>4. /\ IsFiniteSet(ahead \cup {top + 1})
      /\ Cardinality(ahead \cup {top + 1}) <= Cardinality(ahead) + 1
  BY <1>3, FS_AddElement
<1>5. Unread(x, posts', stored) \subseteq ahead \cup {top + 1}
  <2> SUFFICES ASSUME NEW m \in posts, NEW k \in posts' \ stored, x < k, k <= m
               PROVE  m > channel.newest \/ m = top + 1
    BY <1>1 DEF Unread
  <2>1. m \in 1..top /\ top \in Nat
    BY Parts DEF RestOK
  <2>2. k \in posts
    BY <1>1, <2>1
  <2> QED
    BY <1>2, <2>2
<1> HIDE DEF ahead
<1>6. /\ Cardinality(Unread(x, posts', stored)) <= Cardinality(ahead \cup {top + 1})
      /\ Cardinality(Unread(x, posts', stored)) \in Nat
      /\ Cardinality(ahead \cup {top + 1}) \in Nat
  BY <1>4, <1>5, FS_Subset, FS_CardinalityType
<1>7. Cardinality(Unread(x, posts', stored)) <= Burst
  BY <1>1, <1>3, <1>4, <1>6, Consts
<1> QED
  BY <1>7 DEF Few

\* It lies above every cursor.
LEMMA PostJoined ==
  ASSUME TInv, Cursors, Post, NEW s, NEW a \in Nat, NEW b \in Nat, b <= top,
         Joined(channel, posts, s, a, b)
  PROVE  Joined(channel, posts', s, a, b)
<1>1. top \in Nat /\ channel.newest \in Nat /\ channel.newest <= top
  BY Parts, Consts DEF RestOK, RowOK, Channel, Cursors
<1>2. Highest(channel.newest, b) <= top /\ Highest(channel.newest, b) \in Nat
  BY <1>1, Cursor
<1>3. posts' = posts \cup {top + 1}
  BY DEF Post
<1>4. ~(top + 1 <= Highest(channel.newest, b))
  BY <1>1, <1>2
<1> QED
  BY <1>3, <1>4 DEF Joined

\* What is missing above a walk is above the channel's cursor too.
LEMMA MissingAbove ==
  ASSUME NEW row, Paired(row), row.newest # 0, NEW p \in SUBSET (Nat \ {0}), NEW s, NEW a \in Nat,
         NEW b \in Nat, a = 0 <=> b = 0, a <= b, b # 0, Joined(row, p, s, a, b),
         NEW k \in p, k \notin s, b < k
  PROVE  row.newest < k
<1>1. row.oldest \in Nat /\ row.newest \in Nat /\ row.oldest # 0
  BY DEF Paired, Span
<1>2. ~(Lowest(row.oldest, a) <= k /\ k <= Highest(row.newest, b))
  BY DEF Joined
<1> QED
  BY <1>1, <1>2, Cursor

------------------------------------------------------------------------------
\* Coverage is kept.

\* Everything but coverage.
Inv1 == TInv /\ Cursors /\ OneWalk
Held1 == /\ posts' \subseteq posts /\ stored \subseteq stored' /\ Held(channel, channel')

\* What it says of a step's data.
LEMMA CoveredFacts ==
  ASSUME Inv1
  PROVE  /\ Paired(channel) /\ posts \in SUBSET (Nat \ {0}) /\ IsFiniteSet(posts)
         /\ worker \in [Worker -> TaskType] /\ net \subseteq RequestType
         /\ \A w \in Worker : UpTo(worker[w], top)
         /\ \A q \in net : /\ q.oldest \in Nat /\ q.newest \in Nat
                           /\ q.kind \in Batch => Span(q) /\ q.newest <= top
         /\ \A w \in Worker : worker[w].pc = "fetch" =>
              worker[w].token \in Token /\ \A q \in net : q.token # worker[w].token
<1>1. channel \in Channel /\ worker \in [Worker -> TaskType] /\ net \subseteq RequestType
  BY Parts DEF Inv1, RowOK, EdgeOK
<1>2. \A w \in Worker : UpTo(worker[w], top)
  BY DEF Inv1, Cursors
<1>3. \A q \in net : /\ q.oldest \in Nat /\ q.newest \in Nat
                     /\ q.kind \in Batch => Span(q) /\ q.newest <= top
  BY <1>1, Consts DEF RequestType, Inv1, Cursors
<1>4. ASSUME NEW w \in Worker, worker[w].pc = "fetch"
      PROVE  worker[w].token \in Token /\ \A q \in net : q.token # worker[w].token
  <2>1. worker[w].token \in Token
    BY <1>4 DEF Inv1, TInv, Shape, Sane
  <2>2. ASSUME NEW q \in net, q.token = worker[w].token PROVE FALSE
    <3>1. q.from = w
      BY <2>2 DEF Inv1, OneWalk
    <3> QED
      BY <1>4, <3>1, NoneIsNobody DEF Inv1, TInv, Shape, Awaited, Matches
  <2> QED
    BY <2>1, <2>2
<1>5. Paired(channel)
  BY <1>1, Consts DEF Channel, Inv1, Cursors, Paired
<1>6. TInv
  BY DEF Inv1
<1> QED
  BY <1>1, <1>2, <1>3, <1>4, <1>5, <1>6, PostsFinite

\* A step posts a message, saves a page, or is quiet.
LEMMA QuietOrNot ==
  ASSUME Inv1, [Next]_vars
  PROVE  \/ Post
         \/ Held1 /\ (SameCursors \/ NoCursors)
         \/ \E q \in net : Saves(q)
BY ChannelChange, TelegramStep DEF Inv1, Held1, Held, SameCursors, NoCursors

\* A live token after the step was live before, unless the channel was handed out.
LEMMA LiveBefore ==
  ASSUME Inv1, [Next]_vars, NEW t \in Token, LeaseOk(t)',
         (\E q \in net : q.token = t) \/ (\E w \in Worker : worker[w].token = t)
  PROVE  LeaseOk(t) /\ \A w \in Worker : ~Hires(w)
<1>1. TInv
  BY DEF Inv1
<1> QED
  BY <1>1, LeaseChange, FreshToken

\* What a walk stops at stays read.
LEMMA StopsKept ==
  ASSUME Inv1, Covered, EdgeStep, [Next]_vars, NEW w \in Worker
  PROVE  ReadTo(worker'[w].stop, posts', stored')
<1>1. TInv /\ Cursors /\ worker[w] \in TaskType
  BY CoveredFacts DEF Inv1
<1>2. \/ worker'[w].stop = worker[w].stop
      \/ worker'[w].stop = 0
      \/ worker'[w].stop = NewTask.stop
  BY <1>1, ReadFields DEF EdgeStep, WorkerStep, Same, Reads, Idle
<1> DEFINE x == worker'[w].stop
<1>3. /\ x \in Nat /\ x <= top
      /\ ReadTo(x, posts, stored)
  <2>1. CASE worker'[w].stop = worker[w].stop
    BY <1>1, <2>1, Consts DEF TaskType, Cursors, UpTo, Covered
  <2>2. CASE worker'[w].stop = 0
    <3>1. \A m \in posts : m \in Nat /\ m # 0
      BY <1>1, PostsFinite
    <3> QED
      BY <1>1, <2>2, <3>1, TelegramStep DEF ReadTo
  <2>3. CASE worker'[w].stop = NewTask.stop
    <3>1. NewTask.stop \in Nat
      BY <1>1, NewTaskCursors, Parts, Consts DEF RowOK, Channel
    <3> QED
      BY <1>1, <2>3, <3>1, NewTaskCursors, NewTaskCovers DEF UpTo
  <2> QED
    BY <1>2, <2>1, <2>2, <2>3
<1> HIDE DEF x
<1>4. stored \subseteq stored'
  BY <1>1, ChannelChange
<1>5. \A m \in posts' : m <= x => m \in posts
  BY <1>1, <1>3, TelegramStep DEF Post
<1> QED
  BY <1>3, <1>4, <1>5 DEF ReadTo, x

\* Coverage and a new message.
LEMMA PostCovered ==
  ASSUME Inv1, Covered, Post
  PROVE  /\ CursorsCover'
         /\ channel'.newest # 0 => Few(channel'.newest, posts', stored')
         /\ \A w \in Worker : Walking(w)' => WalkCovers(worker'[w], channel', posts', stored')
         /\ \A q \in net' : Reporting(q)' => PostCovers(q, channel', posts', stored')
<1>1. /\ channel' = channel /\ stored' = stored /\ worker' = worker /\ net' = net
      /\ channel.newest # 0
  BY DEF Post, edge
<1>2. /\ TInv /\ Cursors
      /\ Paired(channel) /\ posts \in SUBSET (Nat \ {0}) /\ IsFiniteSet(posts)
      /\ posts' = posts \cup {top + 1} /\ top \in Nat /\ channel.newest <= top
      /\ channel.oldest \in Nat /\ channel.newest \in Nat
  BY CoveredFacts, Parts, Consts DEF Inv1, Post, Paired, Cursors, RestOK
<1>3. CursorsCover'
  BY <1>1, <1>2 DEF CursorsCover, Covered
<1>4. Few(channel.newest, posts', stored)
  BY <1>2, PostFew
<1>5. ASSUME NEW w \in Worker, Walking(w)
      PROVE  WalkCovers(worker[w], channel, posts', stored)
  <2> DEFINE t == worker[w]
  <2>1. /\ t \in TaskType /\ UpTo(t, top) /\ WalkCovers(t, channel, posts, stored)
        /\ t.stop \in Nat /\ t.cursor \in Nat /\ t.oldest \in Nat
        /\ t.newest \in Nat /\ t.pages \in Nat
    BY <1>2, <1>5, WalkFacts
  <2> HIDE DEF t
  <2>2. Joined(channel, posts', stored, t.oldest, t.newest)
    BY <1>2, <2>1, PostJoined DEF WalkCovers, UpTo
  <2>3. ASSUME t.cursor # 0 \/ t.stop # 0, NEW k \in posts \ stored, Base(t) < k
        PROVE  channel.newest < k
    <3>1. CASE t.newest # 0
      BY <1>1, <1>2, <2>1, <2>3, <3>1, MissingAbove DEF WalkCovers, UpTo, Span, Base
    <3>2. CASE t.newest = 0
      <4>1. t.pages = 0 /\ t.oldest = 0 /\ channel.oldest # 0
        BY <1>1, <1>2, <2>1, <3>2 DEF UpTo, Span, Paired
      <4>2. CASE t.cursor # 0
        <5>1. channel.oldest = t.cursor /\ Base(t) = t.cursor - 1 /\ k \in Nat
          BY <1>2, <2>1, <2>3, <3>2, <4>1, <4>2 DEF UpTo, WalkCovers, Started, Base
        <5>2. ~(channel.oldest <= k /\ k <= channel.newest)
          BY <1>2, <4>1, <5>1 DEF Covered, CursorsCover
        <5> QED
          BY <1>2, <2>1, <2>3, <5>1, <5>2
      <4>3. CASE t.cursor = 0
        <5>1. channel.newest = t.stop /\ Base(t) = t.stop
          BY <1>1, <1>2, <2>1, <2>3, <3>2, <4>1, <4>3 DEF WalkCovers, Started, Base
        <5> QED
          BY <2>3, <5>1
      <4> QED
        BY <4>2, <4>3
    <3> QED
      BY <3>1, <3>2
  <2>4. t.cursor # 0 \/ t.stop # 0 => Few(Base(t), posts', stored)
    BY <1>2, <2>3, PostFew
  <2> QED
    BY <2>1, <2>2, <2>4 DEF WalkCovers, t
<1>6. ASSUME NEW q \in net, Reporting(q)
      PROVE  PostCovers(q, channel, posts', stored)
  <2>1. /\ q.oldest \in Nat /\ q.newest \in Nat /\ Span(q) /\ q.newest <= top
        /\ q.items \subseteq q.oldest..q.newest
        /\ PostCovers(q, channel, posts, stored)
    BY <1>2, <1>6, CoveredFacts DEF Covered, Reporting, Cursors
  <2>2. Joined(channel, posts', stored \cup q.items, q.oldest, q.newest)
    BY <1>2, <2>1, PostJoined DEF PostCovers
  <2>3. ASSUME q.newest # 0, NEW k \in posts \ stored, q.newest < k
        PROVE  channel.newest < k
    <3>1. k \notin stored \cup q.items /\ k \in Nat
      BY <1>2, <2>1, <2>3
    <3> QED
      BY <1>1, <1>2, <2>1, <2>3, <3>1, MissingAbove DEF PostCovers, Span
  <2>4. q.newest # 0 => Few(q.newest, posts', stored)
    BY <1>2, <2>3, PostFew
  <2> QED
    BY <2>2, <2>4 DEF PostCovers
<1>7. \A w \in Worker : Walking(w)' <=> Walking(w)
  BY <1>1 DEF Walking, LeaseOk
<1>8. \A q \in net : Reporting(q)' <=> Reporting(q)
  BY <1>1 DEF Reporting, LeaseOk
<1> QED
  BY <1>1, <1>3, <1>4, <1>5, <1>6, <1>7, <1>8

\* A page is not saved by a claim.
LEMMA SavesNotHires ==
  ASSUME TInv, NEW q \in net, Saves(q), NEW w \in Worker
  PROVE  ~Hires(w)
<1> SUFFICES ASSUME Hires(w) PROVE FALSE
  OBVIOUS
<1>1. channel \in Channel /\ Reclaimed(channel) \in Channel
  BY Parts, ReclaimedType DEF RowOK
<1>2. Fresh # {} /\ Fresh \in SUBSET Nat /\ channel' = HandedOut(Reclaimed(channel), Min(Fresh))
  BY TokensSuffice DEF Hires, claim, Fresh
<1>3. Min(Fresh) \in Fresh
  BY <1>2, MinOfSet
<1>4. Min(Fresh) # channel.owner /\ Min(Fresh) # None
  BY <1>3, NoneIsNobody DEF Fresh
<1>5. channel'.owner = Min(Fresh)
  BY <1>1, <1>2, HandedOutCursors
<1>6. channel'.owner \in {channel.owner, None}
  BY <1>1, SavesDoes, SavedCursors
<1> QED
  BY <1>4, <1>5, <1>6

\* The worker whose page was saved no longer posts it.
LEMMA SavesAnswers ==
  ASSUME TInv, NEW q \in net, Saves(q), q.from \in Worker
  PROVE  worker'[q.from].pc # "posting"
<1>1. worker \in [Worker -> TaskType] /\ worker[q.from] \in TaskType /\ q.from # None
  BY Parts, NoneIsNobody DEF EdgeOK
<1>2. Answer(q, TRUE)
  BY DEF Saves, crawl_batch
<1>3. CASE q.kind = "page"
  BY <1>1, <1>2, <1>3 DEF Answer, GoOn, Close, TaskType
<1>4. CASE q.kind # "page"
  BY <1>1, <1>2, <1>4 DEF Answer, Idle
<1> QED
  BY <1>3, <1>4

\* After a page was saved, whoever holds the lease is the walk that read it.
LEMMA SavedWalk ==
  ASSUME Inv1, EdgeStep, [Next]_vars, NEW q0 \in net, Saves(q0), NEW t \in Token, LeaseOk(t)',
         (\E q \in net : q.token = t) \/ (\E w \in Worker : worker[w].token = t)
  PROVE  /\ t = q0.token
         /\ \A q \in net : q.token = t => q = q0
         /\ \A w \in Worker : worker[w].token = t => q0.from = w
<1>1. LeaseOk(t) /\ LeaseOk(q0.token)
  BY LiveBefore, SavesDoes
<1> QED
  BY <1>1 DEF LeaseOk, Inv1, OneWalk

\* The worker that goes on after a page was saved is the one that waited for it.
LEMMA WalkAfterSave ==
  ASSUME Inv1, EdgeStep, TInv', [Next]_vars, NEW q0 \in net, Saves(q0),
         NEW w \in Worker, Walking(w)'
  PROVE  /\ q0.kind = "page" /\ q0.from = w /\ Matches(q0, worker[w])
         /\ Same(worker[w], worker'[w]) /\ worker[w].pages # 0
<1>1. PICK t \in Token : worker'[w].pc = "fetch" /\ worker'[w].token = t /\ LeaseOk(t)'
  BY DEF Walking, LeaseOk, TInv, Shape, Sane
<1>2. TInv /\ worker[w] \in TaskType
  BY CoveredFacts DEF Inv1
<1>3. worker'[w] # worker[w]
  <2> SUFFICES ASSUME worker'[w] = worker[w] PROVE FALSE
    OBVIOUS
  <2>1. worker[w].pc = "fetch" /\ worker[w].token = q0.token
    BY <1>1, SavedWalk
  <2> QED
    BY <2>1, CoveredFacts
<1>4. ~Reads(w)
  BY <1>1, <1>2, ReadFields DEF Reads
<1>5. Same(worker[w], worker'[w]) /\ Answered(w)
  BY <1>1, <1>2, <1>3, <1>4, SavesNotHires DEF EdgeStep, WorkerStep, Idle
<1>6. q0.from = w
  BY <1>1, <1>5, SavedWalk DEF Same
<1>7. PICK q \in net : Saves(q) /\ q.from = w /\ q.kind = "page"
  BY <1>5 DEF Answered
<1>8. q = q0
  BY <1>6, <1>7, NoneIsNobody DEF Inv1, TInv, Shape, Single
<1>9. Matches(q0, worker[w]) /\ Sane(worker[w])
  BY <1>6, NoneIsNobody DEF Inv1, TInv, Shape, Awaited
<1> QED
  BY <1>2, <1>5, <1>6, <1>7, <1>8, <1>9, Consts DEF Matches, Sane, TaskType

\* So is the one whose request follows it.
LEMMA RequestAfterSave ==
  ASSUME Inv1, EdgeStep, TInv', [Next]_vars, NEW q0 \in net, Saves(q0),
         NEW q \in net', Reporting(q)'
  PROVE  /\ q.oldest = q0.oldest /\ q.newest = q0.newest
         /\ \/ \E p \in net : p = q0 /\ q.kind = p.kind /\ CopyOf(q, p)
            \/ /\ q0.from \in Worker /\ Matches(q0, worker[q0.from])
               /\ worker'[q.from].pc # "posting" /\ q.from \in Worker
               /\ worker[q0.from].pages # 0
               /\ q.kind = "done" => CaughtUp(worker[q0.from])
<1>1. /\ q.kind \in Batch /\ LeaseOk(q.token)' /\ q.token \in Token /\ TInv
      /\ net \subseteq RequestType
  <2>1. net' \subseteq RequestType
    BY DEF TInv, TypeOK
  <2> QED
    BY <2>1, CoveredFacts DEF Reporting, RequestType, Inv1
<1>2. CASE Old(q)
  <2>1. PICK p \in net : CopyOf(q, p)
    BY <1>2 DEF Old
  <2>2. q.token = p.token /\ q.oldest = p.oldest /\ q.newest = p.newest /\ q.kind = p.kind
    BY <1>1, <2>1, AbandonedType DEF CopyOf
  <2>3. p = q0
    BY <1>1, <2>2, SavedWalk
  <2> QED
    BY <2>1, <2>2, <2>3
<1>3. CASE New(q)
  <2> DEFINE v == q.from
  <2>1. /\ v \in Worker /\ q.token = worker'[v].token /\ q.oldest = worker'[v].oldest
        /\ q.newest = worker'[v].newest
    BY <1>1, <1>3, NoneIsNobody DEF New, TInv, Shape, Awaited, Matches
  <2>2. worker[v] \in TaskType
    BY <2>1, CoveredFacts
  <2>3. worker[v].token = q.token
    BY <1>3, <2>1, <2>2, ReadFields DEF New, Reads, Same
  <2>4. q.token = q0.token /\ q0.from = v
    BY <1>1, <2>1, <2>3, SavedWalk
  <2>5. worker[v].pc # "fetch"
    BY <2>1, <2>3, <2>4, CoveredFacts
  <2>6. Same(worker[v], worker'[v]) /\ Answered(v) /\ (q.kind = "done" => CaughtUp(worker[v]))
    BY <1>3, <2>5 DEF New, Reads, fetch, Stops
  <2>7. Matches(q0, worker[v]) /\ Sane(worker[v])
    BY <2>1, <2>4, NoneIsNobody DEF Inv1, TInv, Shape, Awaited
  <2>8. q0.kind = "page"
    <3>1. PICK p \in net : Saves(p) /\ p.from = v /\ p.kind = "page"
      BY <2>6 DEF Answered
    <3>2. p = q0
      BY <2>1, <2>4, <3>1, NoneIsNobody DEF Inv1, TInv, Shape, Single
    <3> QED
      BY <3>1, <3>2
  <2>9. worker'[v].pc # "posting"
    <3>1. worker'[q0.from].pc # "posting"
      BY <1>1, <2>1, <2>4, SavesAnswers
    <3> QED
      BY <2>4, <3>1
  <2>10. q0.oldest = worker[v].oldest /\ q0.newest = worker[v].newest /\ worker[v].pages # 0
    BY <2>2, <2>7, <2>8, Consts DEF Matches, Sane, Batch, TaskType
  <2> QED
    BY <2>1, <2>4, <2>6, <2>7, <2>9, <2>10 DEF Same
<1> QED
  BY <1>2, <1>3 DEF EdgeStep

\* Coverage and a saved page.
LEMMA SavesCovered ==
  ASSUME Inv1, Covered, EdgeStep, TInv', [Next]_vars, NEW q0 \in net, Saves(q0)
  PROVE  /\ CursorsCover'
         /\ channel'.newest # 0 => Few(channel'.newest, posts', stored')
         /\ \A w \in Worker : Walking(w)' => WalkCovers(worker'[w], channel', posts', stored')
         /\ \A q \in net' : Reporting(q)' => PostCovers(q, channel', posts', stored')
<1>1. /\ posts' = posts /\ stored' = stored \cup q0.items /\ q0.kind \in Batch
      /\ channel'.oldest = Lowest(channel.oldest, q0.oldest)
      /\ channel'.newest = Highest(channel.newest, q0.newest)
      /\ PostCovers(q0, channel, posts, stored)
  BY SavesDoes, SavedCursors, Parts DEF Inv1, RowOK, Covered, Reporting
<1>2. /\ Paired(channel) /\ posts \in SUBSET (Nat \ {0}) /\ IsFiniteSet(posts)
      /\ q0.oldest \in Nat /\ q0.newest \in Nat /\ Span(q0) /\ channel.newest \in Nat
  BY <1>1, CoveredFacts DEF Paired
<1>3. /\ Paired(channel') /\ Joined(channel', posts, stored', 0, 0)
      /\ Joined(channel', posts, stored', q0.oldest, q0.newest)
  BY <1>1, <1>2, SavedJoined DEF PostCovers, Span
<1>4. CursorsCover'
  BY <1>1, <1>2, <1>3, CoverJoined DEF CursorsCover
<1>5. channel'.newest # 0 => Few(channel'.newest, posts, stored')
  BY <1>1, <1>2, SavedFew DEF Covered, PostCovers
<1>6. q0.newest # 0 => Few(q0.newest, posts, stored')
  BY <1>1, <1>2, FewKept DEF PostCovers
<1>7. ASSUME NEW w \in Worker, Walking(w)'
      PROVE  WalkCovers(worker'[w], channel', posts', stored')
  <2>1. q0.kind = "page" /\ Matches(q0, worker[w]) /\ Same(worker[w], worker'[w])
        /\ worker[w].pages # 0 /\ UpTo(worker[w], top)
    BY <1>7, WalkAfterSave, CoveredFacts
  <2>2. /\ worker'[w].oldest = q0.oldest /\ worker'[w].newest = q0.newest
        /\ worker'[w].pages # 0 /\ worker'[w].newest # 0
    BY <1>1, <2>1 DEF Same, Matches, UpTo, Span
  <2>3. Base(worker'[w]) = q0.newest
    BY <2>2 DEF Base
  <2> QED
    BY <1>1, <1>3, <1>6, <2>2, <2>3 DEF WalkCovers
<1>8. ASSUME NEW q \in net', Reporting(q)'
      PROVE  PostCovers(q, channel', posts', stored')
  <2>1. q.oldest = q0.oldest /\ q.newest = q0.newest
    BY <1>8, RequestAfterSave
  <2> QED
    BY <1>1, <1>3, <1>6, <2>1 DEF PostCovers, Joined
<1> QED
  BY <1>1, <1>4, <1>5, <1>7, <1>8

\* When nothing is saved, a walk goes on as it was or has just begun,
LEMMA WalkInQuiet ==
  ASSUME Inv1, EdgeStep, TInv', [Next]_vars, \A q \in net : ~Saves(q),
         NEW w \in Worker, Walking(w)'
  PROVE  \/ worker'[w] = worker[w] /\ Walking(w)
         \/ worker'[w] = NewTask
<1>1. PICK t \in Token : worker'[w].pc = "fetch" /\ worker'[w].token = t /\ LeaseOk(t)'
  BY DEF Walking, LeaseOk, TInv, Shape, Sane
<1>2. worker[w] \in TaskType
  BY CoveredFacts
<1>3. CASE worker'[w] = worker[w]
  BY <1>1, <1>3, LiveBefore DEF Walking
<1>4. ~Reads(w)
  BY <1>1, <1>2, ReadFields DEF Reads
<1>5. ~Answered(w)
  BY DEF Answered
<1> QED
  BY <1>1, <1>3, <1>4, <1>5 DEF EdgeStep, WorkerStep, Idle

\* and a request was there before, carries a page just read, or ends a walk.
LEMMA RequestInQuiet ==
  ASSUME Inv1, EdgeStep, TInv', [Next]_vars, \A q \in net : ~Saves(q),
         NEW q \in net', Reporting(q)'
  PROVE  \/ \E p \in net : /\ Reporting(p) /\ CopyOf(q, p)
                           /\ q.kind = p.kind /\ q.items = p.items
                           /\ q.oldest = p.oldest /\ q.newest = p.newest
         \/ /\ q.from \in Worker /\ Walking(q.from) /\ Reads(q.from)
            /\ q.items = ReadItems(q.from) /\ q.kind = "page"
            /\ q.oldest = Read(worker[q.from]).oldest /\ q.newest = Read(worker[q.from]).newest
         \/ /\ q.from \in Worker /\ Walking(q.from) /\ q.items = {}
            /\ q.oldest = worker[q.from].oldest /\ q.newest = worker[q.from].newest
            /\ worker'[q.from].pc # "posting"
            /\ q.kind = "done" => Page(worker[q.from]) = {}
<1>1. /\ q.kind \in Batch /\ LeaseOk(q.token)' /\ q.token \in Token /\ TInv
      /\ net \subseteq RequestType
  <2>1. net' \subseteq RequestType
    BY DEF TInv, TypeOK
  <2> QED
    BY <2>1, CoveredFacts DEF Reporting, RequestType, Inv1
<1>2. CASE Old(q)
  <2>1. PICK p \in net : CopyOf(q, p)
    BY <1>2 DEF Old
  <2>2. /\ q.token = p.token /\ q.kind = p.kind /\ q.items = p.items
        /\ q.oldest = p.oldest /\ q.newest = p.newest
    BY <1>1, <2>1, AbandonedType DEF CopyOf
  <2>3. Reporting(p)
    BY <1>1, <2>2, LiveBefore DEF Reporting
  <2> QED
    BY <2>1, <2>2, <2>3
<1>3. CASE New(q)
  <2> DEFINE v == q.from
  <2>1. /\ v \in Worker /\ q.token = worker'[v].token /\ q.oldest = worker'[v].oldest
        /\ q.newest = worker'[v].newest
        /\ q.kind = "page" <=> worker'[v].pc = "posting"
    BY <1>1, <1>3, NoneIsNobody DEF New, TInv, Shape, Awaited, Matches
  <2>2. worker[v] \in TaskType /\ ~Answered(v)
    BY <2>1, CoveredFacts DEF Answered
  <2>3. worker[v].pc = "fetch" /\ worker[v].token = q.token
    BY <1>3, <2>1, <2>2, ReadFields DEF New, Stops, Same, Reads, fetch
  <2>4. Walking(v)
    BY <1>1, <2>1, <2>3, LiveBefore DEF Walking
  <2>5. CASE Reads(v) /\ q.items = ReadItems(v)
    BY <2>1, <2>2, <2>4, <2>5, ReadFields DEF Reads
  <2>6. CASE q.items = {} /\ Same(worker[v], worker'[v]) /\ Stops(v, q.kind)
    <3>1. worker'[v].pc # "posting"
      <4>1. ~Reads(v)
        <5>1. worker[v].pages \in Nat
          BY <2>2, Consts DEF TaskType
        <5> QED
          BY <2>2, <2>6, <5>1, ReadFields DEF Reads, Same
      <4> QED
        BY <2>1, <2>2, <2>3, <4>1, NewTaskPc DEF EdgeStep, WorkerStep, Idle
    <3> QED
      BY <2>1, <2>2, <2>4, <2>6, <3>1 DEF Same, Stops
  <2> QED
    BY <1>3, <2>5, <2>6 DEF New
<1> QED
  BY <1>2, <1>3 DEF EdgeStep

\* Coverage and a quiet step.
LEMMA QuietCovered ==
  ASSUME Inv1, Covered, EdgeStep, TInv', BurstFits, [Next]_vars, Held1,
         \A q \in net : ~Saves(q)
  PROVE  /\ CursorsCover'
         /\ channel'.newest # 0 => Few(channel'.newest, posts', stored')
         /\ \A w \in Worker : Walking(w)' => WalkCovers(worker'[w], channel', posts', stored')
         /\ \A q \in net' : Reporting(q)' => PostCovers(q, channel', posts', stored')
<1>1. /\ TInv /\ Cursors /\ Paired(channel) /\ Held(channel, channel')
      /\ posts \in SUBSET (Nat \ {0}) /\ IsFiniteSet(posts) /\ posts' \in SUBSET posts
      /\ stored \subseteq stored' /\ worker \in [Worker -> TaskType] /\ net \subseteq RequestType
      /\ net' \subseteq RequestType /\ worker' \in [Worker -> TaskType]
      /\ Paired(channel')
  <2>1. /\ TInv /\ Cursors /\ Held(channel, channel') /\ net' \subseteq RequestType
        /\ worker' \in [Worker -> TaskType]
    BY DEF Inv1, Held1, TInv, TypeOK, TaskType
  <2> QED
    BY <2>1, CoveredFacts DEF Held1, Held, Paired, Span
<1>2. CursorsCover'
  <2>1. Joined(channel, posts, stored, 0, 0)
    BY <1>1, CoverJoined DEF Covered, CursorsCover
  <2>2. Joined(channel', posts', stored', 0, 0)
    BY <1>1, <2>1, JoinedKept
  <2>3. posts' \in SUBSET (Nat \ {0})
    BY <1>1
  <2> QED
    BY <1>1, <2>2, <2>3, CoverJoined DEF CursorsCover
<1>3. channel'.newest # 0 => Few(channel'.newest, posts', stored')
  BY <1>1, FewKept DEF Covered, Held
<1>4. ASSUME NEW w \in Worker, Walking(w)'
      PROVE  WalkCovers(worker'[w], channel', posts', stored')
  <2>1. CASE worker'[w] = worker[w] /\ Walking(w)
    <3>1. worker[w] \in TaskType /\ Span(worker[w]) /\ WalkCovers(worker[w], channel, posts, stored)
      BY <1>1, <2>1, WalkFacts DEF UpTo
    <3> QED
      BY <1>1, <2>1, <3>1, WalkKept
  <2>2. CASE worker'[w] = NewTask
    <3>1. worker'[w] \in TaskType /\ Span(NewTask) /\ WalkCovers(NewTask, channel, posts, stored)
      BY <1>1, NewTaskCursors, NewTaskCovers DEF UpTo
    <3> QED
      BY <1>1, <2>2, <3>1, WalkKept
  <2> QED
    BY <1>4, <2>1, <2>2, WalkInQuiet
<1>5. ASSUME NEW q \in net', Reporting(q)'
      PROVE  PostCovers(q, channel', posts', stored')
  <2>1. q \in RequestType
    BY <1>1
  <2>2. ASSUME NEW p \in net, Reporting(p), q.items = p.items, q.oldest = p.oldest,
               q.newest = p.newest
        PROVE  PostCovers(q, channel', posts', stored')
    <3>1. PostCovers(p, channel, posts, stored) /\ Span(p) /\ p \in RequestType
      BY <1>1, <2>2, CoveredFacts DEF Covered, Reporting
    <3>2. PostCovers(p, channel', posts', stored')
      BY <1>1, <3>1, PostKept
    <3> QED
      BY <2>2, <3>2 DEF PostCovers
  <2>3. ASSUME q.from \in Worker, Walking(q.from), Reads(q.from), q.items = ReadItems(q.from),
               q.oldest = Read(worker[q.from]).oldest, q.newest = Read(worker[q.from]).newest
        PROVE  PostCovers(q, channel', posts', stored')
    <3>1. Page(worker[q.from]) # {}
      BY <2>3 DEF Reads
    <3>2. UpTo(Read(worker[q.from]), top)
      BY <1>1, <2>3, <3>1, ReadTask
    <3>3. Span(q)
      BY <2>3, <3>2 DEF UpTo, Span
    <3>4. Joined(channel, posts, stored \cup q.items, q.oldest, q.newest)
      BY <1>1, <2>3, <3>1, ReadJoined
    <3>5. Few(q.newest, posts, stored)
      BY <1>1, <2>3, <3>1, ReadFew
    <3>6. PostCovers(q, channel, posts, stored)
      BY <3>4, <3>5 DEF PostCovers
    <3> QED
      BY <1>1, <2>1, <3>3, <3>6, PostKept
  <2>4. ASSUME q.from \in Worker, Walking(q.from), q.items = {},
               q.oldest = worker[q.from].oldest, q.newest = worker[q.from].newest
        PROVE  PostCovers(q, channel', posts', stored')
    <3>1. /\ worker[q.from] \in TaskType /\ UpTo(worker[q.from], top)
          /\ WalkCovers(worker[q.from], channel, posts, stored)
      BY <1>1, <2>4, WalkFacts
    <3>2. PostCovers(q, channel, posts, stored) /\ Span(q)
      BY <2>4, <3>1, StopCovers DEF UpTo, Span
    <3> QED
      BY <1>1, <2>1, <3>2, PostKept
  <2> QED
    BY <1>5, <2>2, <2>3, <2>4, RequestInQuiet
<1> QED
  BY <1>2, <1>3, <1>4, <1>5

\* Every step keeps it.
LEMMA NextCovered ==
  ASSUME Inv1, Covered, EdgeStep, TInv', BurstFits, [Next]_vars
  PROVE  Covered'
<1>1. /\ CursorsCover'
      /\ channel'.newest # 0 => Few(channel'.newest, posts', stored')
      /\ \A w \in Worker : Walking(w)' => WalkCovers(worker'[w], channel', posts', stored')
      /\ \A q \in net' : Reporting(q)' => PostCovers(q, channel', posts', stored')
  <2>1. CASE Post
    BY <2>1, PostCovered
  <2>2. CASE \E q \in net : Saves(q)
    BY <2>2, SavesCovered
  <2>3. CASE Held1 /\ \A q \in net : ~Saves(q)
    BY <2>3, QuietCovered
  <2> QED
    BY <2>1, <2>2, <2>3, QuietOrNot
<1>2. \A w \in Worker : ReadTo(worker'[w].stop, posts', stored')
  BY StopsKept
<1> QED
  BY <1>1, <1>2 DEF Covered

\* A new channel has no cursors to cover.
LEMMA InitCovered == Init => Cursors /\ OneWalk /\ Covered
<1> SUFFICES ASSUME Init PROVE Cursors /\ OneWalk /\ Covered
  OBVIOUS
<1>1. TInv /\ (\A w \in Worker : worker[w] = Idle) /\ net = {} /\ edit = None
      /\ channel.oldest = 0 /\ channel.newest = 0
  BY InitTInv DEF Init
<1>2. top \in Nat /\ posts \in SUBSET (Nat \ {0})
  BY <1>1, Parts, PostsFinite DEF RestOK
<1>3. Cursors
  BY <1>1, <1>2 DEF Cursors, UpTo, Span, Idle
<1>4. OneWalk
  BY <1>1 DEF OneWalk, Idle
<1>5. \A w \in Worker : ReadTo(worker[w].stop, posts, stored)
  BY <1>1, <1>2 DEF ReadTo, Idle
<1>6. Covered
  BY <1>1, <1>5 DEF Covered, CursorsCover, Walking, Idle
<1> QED
  BY <1>3, <1>4, <1>6

\* Where no page is given up, a token belongs to one walk, at most one request
\* carries it, and no cursor is ahead of the channel (crawling.py: claim,
\* worker.py).
THEOREM WalksAreSingle ==
  ASSUME NoLostPage
  PROVE  Spec => []Inv1
<1>1. Init => Inv1
  BY InitTInv, InitCovered DEF Inv1
<1>2. Inv1 /\ TInv' /\ [Next]_vars => Inv1'
  BY NextEdgeStep, NextOneWalk, NextCursors DEF Inv1
<1> QED
  BY <1>1, <1>2, ShapeInductive, PTL DEF Spec

\* Where no page is given up and an update fits on a page, the row, every walk and
\* every request under a good lease cover what lies between their cursors.
THEOREM CoverInductive ==
  ASSUME NoLostPage, BurstFits
  PROVE  Spec => []Covered
<1>1. Init => Covered
  BY InitCovered
<1>2. Inv1 /\ TInv' /\ Covered /\ [Next]_vars => Covered'
  <2> SUFFICES ASSUME Inv1, TInv', Covered, [Next]_vars PROVE Covered'
    OBVIOUS
  <2>1. EdgeStep
    BY NextEdgeStep DEF Inv1
  <2> QED
    BY <2>1, NextCovered
<1> QED
  BY <1>1, <1>2, ShapeInductive, WalksAreSingle, PTL DEF Spec

\* The cursors never claim more than was read: every message between
\* oldest_crawled_msg_id and newest_crawled_msg_id is in the catalogue, whatever
\* worker, lease, block, crash, deletion or edit by hand interrupted the walks
\* (crawling.py:3-5, 221-222).
THEOREM CursorsCovered ==
  ASSUME NoLostPage, BurstFits
  PROVE  Spec => []CursorsCover
<1>1. Covered => CursorsCover
  BY DEF Covered
<1> QED
  BY <1>1, CoverInductive, PTL

------------------------------------------------------------------------------
\* An active channel is read down to its first message.

\* Nobody sets a channel active by hand.
NoForcedActive == "active" \notin Troubles

\* Edits stay allowed ones.
LEMMA NextEditPaid ==
  ASSUME EditPaid, [Next]_vars
  PROVE  EditPaid'
<1>1. CASE edit' = edit \/ edit' = None
  BY <1>1 DEF EditPaid
<1>2. ASSUME NEW op \in Edits, load_channel(op) PROVE EditPaid'
  BY <1>2 DEF EditPaid, load_channel, Pay
<1> QED
  BY <1>1, <1>2
     DEF Next, vars, Post, Delete, Tick, ToggleFallback, claim, fetch, PreviewUnavailable,
         CrawlError, ChannelUnreadable, CrawlBlocked, Report, GiveUp, Crash, crawl_batch,
         crawl_batch_lapsing, release, report_failure, Lose, flush_channel, blacklist_add

\* An edit other than "active" makes no channel active.
LEMMA FlushedStatus ==
  ASSUME NEW row \in Channel, NEW seen \in Channel, NEW op \in Edits, op # "active",
         Flushed(row, Assigned(op, seen), seen).status = "active"
  PROVE  row.status = "active"
<1> DEFINE said == Assigned(op, seen)
           new == Flushed(row, said, seen)
<1>1. IsRow(row)
  BY RowByColumns
<1>2. new = [c \in Cols |-> IF c \in DOMAIN said /\ Differs(c, said, seen) THEN said[c] ELSE row[c]]
  BY <1>1 DEF Flushed, IsRow
<1>3. new.status = IF "status" \in DOMAIN said /\ Differs("status", said, seen)
                   THEN said.status ELSE row.status
  <2> HIDE DEF said, new
  <2> QED
    BY <1>2 DEF Cols
<1>4. "status" \in DOMAIN said => said.status # "active"
  <2>1. CASE op = "recrawl"
    BY <2>1 DEF Assigned
  <2>2. CASE op = "recrawl_full"
    BY <2>2 DEF Assigned
  <2>3. CASE op = "paused"
    BY <2>3 DEF Assigned
  <2>4. CASE op = "readd"
    BY <2>4 DEF Assigned
  <2>5. CASE op = "approve"
    BY <2>5 DEF Assigned
  <2> QED
    BY <2>1, <2>2, <2>3, <2>4, <2>5 DEF Edits
<1>5. new.status = "active"
  OBVIOUS
<1> HIDE DEF said, new
<1> QED
  BY <1>3, <1>4, <1>5

\* Only the end of a walk makes a channel active, unless someone does by hand.
LEMMA StatusChange ==
  ASSUME TInv, EditPaid, NoForcedActive, [Next]_vars, channel'.status = "active"
  PROVE  \/ channel.status = "active"
         \/ \E q \in net : Saves(q) /\ q.kind = "done"
<1>1. channel \in Channel /\ Reclaimed(channel) \in Channel /\ fallback \in BOOLEAN
  BY Parts, ReclaimedType DEF RowOK, RestOK
<1>2. CASE channel' = channel
  BY <1>2
<1>3. CASE Tick
  BY <1>1, <1>3 DEF Tick, Elapsed, Channel
<1>4. CASE blacklist_add
  BY <1>1, <1>4 DEF blacklist_add, Channel
<1>5. CASE flush_channel
  <2>1. edit.op \in Edits /\ edit.seen \in Channel /\ edit.op # "active"
    BY <1>5, Parts DEF RestOK, flush_channel, EditPaid, NoForcedActive
  <2> QED
    BY <1>1, <1>5, <2>1, FlushedStatus DEF flush_channel
<1>6. ASSUME NEW w \in Worker, claim(w) PROVE channel.status = "active"
  <2>1. Reclaimed(channel).status = channel.status
    BY <1>1 DEF Reclaimed, Channel
  <2>2. ASSUME NEW row \in Channel, NEW token, HandedOut(row, token).status = "active"
        PROVE  row.status = "active"
    BY <2>2 DEF HandedOut, Channel
  <2> QED
    BY <1>1, <1>6, <2>1, <2>2 DEF claim
<1>7. ASSUME NEW q \in net, crawl_batch(q)
      PROVE  channel.status = "active" \/ (Saves(q) /\ q.kind = "done")
  <2>1. q.kind # "done" => Saved(channel, q).status = channel.status
    BY <1>1 DEF Saved, Channel
  <2> QED
    BY <1>7, <2>1 DEF crawl_batch, Saves
<1>8. ASSUME NEW q \in net, crawl_batch_lapsing(q) PROVE channel.status = "active"
  BY <1>1, <1>8 DEF crawl_batch_lapsing, Elapsed, Channel
<1>9. ASSUME NEW q \in net, release(q) PROVE channel.status = "active"
  BY <1>1, <1>9 DEF release, Channel
<1>10. ASSUME NEW q \in net, report_failure(q) PROVE channel.status = "active"
  <2>1. \A kind \in {"permanent", "disabled", "failure"} :
          Failed(channel, kind).status \in {channel.status, "failed"}
    BY <1>1 DEF Failed, Channel
  <2> QED
    BY <1>10, <2>1 DEF report_failure
<1> QED
  BY <1>2, <1>3, <1>4, <1>5, <1>6, <1>7, <1>8, <1>9, <1>10
     DEF Next, vars, Post, Delete, ToggleFallback, fetch, PreviewUnavailable, CrawlError,
         ChannelUnreadable, CrawlBlocked, Report, GiveUp, Crash, Lose, load_channel

\* A page of an active channel leaves nothing unread below its newest message.
LEMMA ReadComplete ==
  ASSUME TInv, Cursors, Covered, BurstFits, NEW w \in Worker, Walking(w),
         Page(worker[w]) # {}, Few(0, posts, stored), WalkRead(worker[w], posts, stored)
  PROVE  ReadTo(Read(worker[w]).newest, posts, stored \cup ReadItems(w))
<1> DEFINE t == worker[w]
           lo == Min(Page(t))
           hi == Max(Page(t))
           r == Read(t)
<1>1. /\ t \in TaskType /\ UpTo(t, top) /\ ReadTo(t.stop, posts, stored)
      /\ posts \subseteq Nat \ {0} /\ t.stop \in Nat /\ t.cursor \in Nat /\ t.newest \in Nat
  BY WalkFacts
<1>2. /\ lo \in Page(t) /\ hi \in Page(t) /\ lo \in Nat \ {0} /\ hi \in Nat \ {0}
      /\ t.cursor # 0 => hi < t.cursor
      /\ r.newest = IF t.newest >= hi THEN t.newest ELSE hi
  BY <1>1, ReadTask
<1> HIDE DEF lo, hi, r
<1> SUFFICES ASSUME NEW m \in posts, m <= r.newest, m \notin stored
             PROVE  m \in ReadItems(w)
  BY DEF ReadTo, r
<1>3. m \in Nat /\ m > t.stop /\ 0 < m /\ ~(m < t.cursor) /\ ~(m <= t.newest)
  BY <1>1 DEF ReadTo, WalkRead
<1>4. t.cursor = 0
  BY <1>1, <1>2, <1>3
<1>5. m \in Eligible(t)
  BY <1>3, <1>4 DEF Eligible
<1>6. m \in Page(t)
  BY <1>1, <1>3, <1>5, PageHasUnread
<1> QED
  BY <1>3, <1>6 DEF ReadItems

\* Where a page has no messages, the walk has met the channel's first one.
LEMMA EmptyDone ==
  ASSUME TInv, Cursors, Covered, NEW w \in Worker, Walking(w), Page(worker[w]) = {},
         NEW q, q.newest = worker[w].newest
  PROVE  DoneRead(q, channel, posts, stored)
<1> DEFINE t == worker[w]
<1>1. /\ t \in TaskType /\ UpTo(t, top) /\ WalkCovers(t, channel, posts, stored)
      /\ ReadTo(t.stop, posts, stored)
      /\ posts \subseteq Nat \ {0} /\ IsFiniteSet(posts)
      /\ channel.oldest \in Nat /\ channel.newest \in Nat /\ Span(channel)
      /\ t.stop \in Nat /\ t.cursor \in Nat /\ t.oldest \in Nat
      /\ t.newest \in Nat /\ t.pages \in Nat
  BY WalkFacts
<1>2. \A m \in Eligible(t) : FALSE
  <2> SUFFICES ASSUME Eligible(t) # {} PROVE FALSE
    OBVIOUS
  <2>1. Eligible(t) \in SUBSET (0..MaxMsg) /\ MaxMsg \in Nat /\ Eligible(t) \subseteq posts
    <3>1. \A m \in posts : m \in 0..MaxMsg
      BY Parts, Consts DEF RestOK
    <3>2. Eligible(t) \subseteq posts
      BY DEF Eligible
    <3> QED
      BY <3>1, <3>2, Consts
  <2>2. Max(Eligible(t)) \in Eligible(t) /\ \A n \in Eligible(t) : n <= Max(Eligible(t))
    BY <2>1, MaxOfSet
  <2>3. PICK k \in Eligible(t) : \A n \in Eligible(t) : n <= k
    BY <2>2
  <2>4. {n \in Eligible(t) : n > k} = {}
    BY <1>1, <2>1, <2>3
  <2>5. Cardinality({n \in Eligible(t) : n > k}) < PageSize
    BY <2>4, FS_EmptySet, Consts
  <2>6. k \in Page(t)
    BY <2>5, PageDef
  <2> QED
    BY <2>6
<1> HIDE DEF t
<1>3. ASSUME NEW m \in posts, m \notin stored
      PROVE  t.cursor # 0 /\ t.cursor <= m
  <2>1. m \in Nat /\ m > t.stop
    BY <1>1, <1>3 DEF ReadTo
  <2> QED
    BY <1>1, <1>2, <2>1 DEF Eligible
<1>4. \A m \in posts \ stored :
        ~(Lowest(channel.oldest, t.oldest) <= m /\ m <= Highest(channel.newest, t.newest))
  BY <1>1 DEF WalkCovers, Joined
<1>5. ASSUME NEW m \in posts \ stored PROVE Highest(channel.newest, t.newest) < m /\ Base(t) < m
  <2>1. m \in Nat \ {0} /\ t.cursor # 0 /\ t.cursor <= m
    BY <1>1, <1>3
  <2>2. CASE t.pages # 0
    <3>1. t.oldest = t.cursor /\ t.newest # 0
      BY <1>1, <2>2 DEF UpTo, Span
    <3>2. Highest(channel.newest, t.newest) < m
      BY <1>1, <1>4, <2>1, <3>1, Cursor
    <3> QED
      BY <1>1, <2>1, <3>1, <3>2, Cursor DEF Base
  <2>3. CASE t.pages = 0
    <3>1. t.stop = 0 /\ t.oldest = 0 /\ t.newest = 0 /\ channel.oldest \in {0, t.cursor}
      BY <1>1, <2>1, <2>3 DEF UpTo, Span, WalkCovers, Started
    <3>2. Highest(channel.newest, t.newest) < m
      BY <1>1, <1>4, <2>1, <3>1, Cursor DEF Span
    <3> QED
      BY <1>1, <2>1, <3>1, <3>2 DEF Base
  <2> QED
    BY <1>1, <2>2, <2>3
<1>6. ReadTo(Highest(channel.newest, t.newest), posts, stored)
  <2>1. Highest(channel.newest, t.newest) \in Nat
    BY <1>1, Cursor
  <2> QED
    BY <1>1, <1>5, <2>1 DEF ReadTo
<1>7. Few(0, posts, stored)
  <2>1. CASE posts \subseteq stored
    BY <2>1, FewAtTop
  <2>2. CASE ~(posts \subseteq stored)
    <3>1. t.cursor # 0
      BY <1>3, <2>2
    <3>2. Few(Base(t), posts, stored)
      BY <1>1, <3>1 DEF WalkCovers
    <3> QED
      BY <1>1, <1>5, <3>2, FewWithin
  <2> QED
    BY <2>1, <2>2
<1> QED
  BY <1>6, <1>7 DEF DoneRead, t

\* Where a walk met what the core has, nothing below is missing.
LEMMA CaughtUpDone ==
  ASSUME Inv1, Covered, NEW q0 \in net, Saves(q0), CursorsCover',
         channel'.newest # 0 => Few(channel'.newest, posts', stored'),
         NEW w \in Worker, Matches(q0, worker[w]), worker[w].pages # 0, CaughtUp(worker[w]),
         NEW q, q.newest = q0.newest
  PROVE  DoneRead(q, channel', posts', stored')
<1> DEFINE t == worker[w]
<1>1. /\ posts' = posts /\ stored' = stored \cup q0.items /\ q0.kind \in Batch
      /\ channel'.oldest = Lowest(channel.oldest, q0.oldest)
      /\ channel'.newest = Highest(channel.newest, q0.newest)
  BY SavesDoes, SavedCursors, Parts DEF Inv1, RowOK
<1>2. /\ Paired(channel) /\ posts \in SUBSET (Nat \ {0}) /\ IsFiniteSet(posts)
      /\ q0.oldest = t.oldest /\ q0.newest = t.newest /\ t \in TaskType /\ UpTo(t, top)
      /\ ReadTo(t.stop, posts, stored)
  BY <1>1, CoveredFacts DEF Matches, Covered
<1>3. /\ t.stop \in Nat /\ t.cursor \in Nat /\ t.oldest \in Nat /\ t.newest \in Nat
      /\ channel.oldest \in Nat /\ channel.newest \in Nat
  BY <1>2, Consts DEF TaskType, Paired
<1>4. t.oldest # 0 /\ t.oldest = t.cursor /\ t.oldest <= t.newest
  BY <1>2 DEF UpTo, Span
<1> HIDE DEF t
<1>5. /\ channel'.oldest \in Nat \ {0} /\ channel'.newest \in Nat \ {0}
      /\ channel'.oldest <= t.cursor /\ Highest(channel'.newest, q.newest) = channel'.newest
  BY <1>1, <1>2, <1>3, <1>4, Cursor
<1>6. ASSUME NEW m \in posts, m \notin stored' PROVE channel'.newest < m
  <2>1. m \in Nat \ {0} /\ ~(channel'.oldest <= m /\ m <= channel'.newest)
    BY <1>1, <1>2, <1>5, <1>6 DEF CursorsCover
  <2>2. ~(m < channel'.oldest)
    <3> SUFFICES ASSUME m < channel'.oldest PROVE FALSE
      OBVIOUS
    <3>1. m < t.cursor
      BY <1>3, <1>5, <2>1
    <3>2. t.cursor <= t.stop
      BY <1>3, <2>1, <3>1 DEF CaughtUp, t
    <3> QED
      BY <1>1, <1>2, <1>3, <1>6, <2>1, <3>1, <3>2 DEF ReadTo
  <2> QED
    BY <1>5, <2>1, <2>2
<1>7. ReadTo(Highest(channel'.newest, q.newest), posts, stored')
  BY <1>2, <1>5, <1>6 DEF ReadTo
<1>8. Few(0, posts, stored')
  BY <1>1, <1>2, <1>5, <1>6, FewWithin
<1> QED
  BY <1>1, <1>7, <1>8 DEF DoneRead

Inv2 == Inv1 /\ Covered /\ EditPaid

\* Completeness and a new message,
LEMMA PostComplete ==
  ASSUME Inv2, Complete, Post
  PROVE  Complete'
<1>1. /\ channel' = channel /\ stored' = stored /\ worker' = worker /\ net' = net
      /\ posts' = posts \cup {top + 1} /\ channel.newest # 0
  BY DEF Post, edge
<1>2. /\ TInv /\ top \in Nat /\ channel.newest \in Nat /\ channel.newest <= top
      /\ posts \in SUBSET (Nat \ {0})
      /\ worker \in [Worker -> TaskType]
  BY CoveredFacts, Parts DEF Inv2, Inv1, RestOK, Cursors, Paired
<1>3. ASSUME NEW x \in Nat, x <= top, NEW s, ReadTo(x, posts, s) PROVE ReadTo(x, posts', s)
  BY <1>1, <1>2, <1>3 DEF ReadTo
<1>4. ASSUME NEW x \in Nat, channel.newest <= x, ReadTo(x, posts, stored)
      PROVE  Few(0, posts', stored)
  <2>1. \A k \in posts \ stored : channel.newest < k
    BY <1>2, <1>4 DEF ReadTo
  <2> QED
    BY <1>2, <2>1, PostFew
<1>5. ASSUME channel.status = "active"
      PROVE  ReadTo(channel.newest, posts', stored) /\ Few(0, posts', stored)
  BY <1>2, <1>3, <1>4, <1>5 DEF Complete
<1>6. ASSUME channel.status = "active", NEW w \in Worker, Walking(w)
      PROVE  WalkRead(worker[w], posts', stored)
  <2>1. /\ worker[w].cursor \in Nat /\ worker[w].newest \in Nat
        /\ worker[w].cursor <= top /\ worker[w].newest <= top
    BY <1>2, CoveredFacts, Consts DEF Inv2, TaskType, UpTo
  <2> QED
    BY <1>1, <1>2, <1>6, <2>1 DEF Complete, WalkRead
<1>7. ASSUME NEW q \in net, Reporting(q)
      PROVE  /\ channel.status = "active" => ReadTo(q.newest, posts', stored \cup q.items)
             /\ q.kind = "done" => DoneRead(q, channel, posts', stored)
  <2>1. q.newest \in Nat /\ q.newest <= top
    BY <1>7, CoveredFacts DEF Inv2, Reporting
  <2>2. /\ Highest(channel.newest, q.newest) \in Nat /\ Highest(channel.newest, q.newest) <= top
        /\ channel.newest <= Highest(channel.newest, q.newest)
    BY <1>2, <2>1, Cursor
  <2> QED
    BY <1>3, <1>4, <1>7, <2>1, <2>2 DEF Complete, DoneRead
<1>8. \A w \in Worker : Walking(w)' <=> Walking(w)
  BY <1>1 DEF Walking, LeaseOk
<1>9. \A q \in net : Reporting(q)' <=> Reporting(q)
  BY <1>1 DEF Reporting, LeaseOk
<1> QED
  BY <1>1, <1>5, <1>6, <1>7, <1>8, <1>9 DEF Complete

\* a saved page,
LEMMA SavesComplete ==
  ASSUME Inv2, Complete, Covered', EdgeStep, TInv', NoForcedActive, [Next]_vars,
         NEW q0 \in net, Saves(q0)
  PROVE  Complete'
<1>1. /\ posts' = posts /\ stored' = stored \cup q0.items /\ q0.kind \in Batch /\ Reporting(q0)
      /\ channel'.newest = Highest(channel.newest, q0.newest) /\ channel' = Saved(channel, q0)
  BY SavesDoes, SavedCursors, Parts DEF Inv2, Inv1, RowOK, Reporting
<1>2. /\ TInv /\ Inv1 /\ Covered /\ EditPaid
      /\ Paired(channel) /\ posts \in SUBSET (Nat \ {0}) /\ IsFiniteSet(posts)
      /\ q0.newest \in Nat /\ q0.oldest \in Nat /\ channel.newest \in Nat /\ Span(q0)
  BY <1>1, CoveredFacts DEF Inv2, Inv1, Paired
<1>3. q0.kind = "done" => channel'.owner = None
  BY <1>1, Parts, <1>2 DEF Saved, RowOK, Channel
<1>4. channel'.status = "active" => channel.status = "active" \/ q0.kind = "done"
  <2> SUFFICES ASSUME channel'.status = "active", channel.status # "active"
               PROVE  q0.kind = "done"
    OBVIOUS
  <2>1. PICK q \in net : Saves(q) /\ q.kind = "done"
    BY <1>2, StatusChange
  <2>2. q = q0
    BY <1>1, <1>2, <2>1, SavesDoes DEF LeaseOk, Reporting, Inv1, OneWalk
  <2> QED
    BY <2>1, <2>2
<1>5. ASSUME channel'.status = "active"
      PROVE  ReadTo(channel'.newest, posts', stored') /\ Few(0, posts', stored')
  <2>1. CASE q0.kind = "done"
    BY <1>1, <1>2, <2>1, FewKept DEF Complete, DoneRead, ReadTo
  <2>2. CASE channel.status = "active"
    <3>1. Few(0, posts', stored')
      BY <1>1, <1>2, <2>2, FewKept DEF Complete
    <3>2. ReadTo(channel.newest, posts, stored) /\ ReadTo(q0.newest, posts, stored')
      BY <1>1, <2>2 DEF Complete
    <3>3. channel'.newest \in {channel.newest, q0.newest}
      BY <1>1, <1>2, Cursor
    <3> QED
      BY <1>1, <3>1, <3>2, <3>3 DEF ReadTo
  <2> QED
    BY <1>4, <1>5, <2>1, <2>2
<1>6. ASSUME channel'.status = "active", NEW w \in Worker, Walking(w)'
      PROVE  WalkRead(worker'[w], posts', stored')
  <2>1. /\ q0.kind = "page" /\ Matches(q0, worker[w]) /\ Same(worker[w], worker'[w])
        /\ worker[w].pages # 0 /\ UpTo(worker[w], top) /\ worker[w] \in TaskType
    BY <1>2, <1>6, WalkAfterSave, CoveredFacts
  <2>2. ReadTo(q0.newest, posts, stored')
    BY <1>1, <1>4, <1>6, <2>1 DEF Complete
  <2>3. /\ worker'[w].newest = q0.newest /\ worker'[w].cursor = q0.oldest
    BY <1>1, <2>1 DEF Same, Matches, UpTo
  <2> QED
    BY <1>1, <1>2, <2>2, <2>3 DEF WalkRead, ReadTo, Span
<1>7. ASSUME channel'.status = "active", NEW q \in net', Reporting(q)'
      PROVE  ReadTo(q.newest, posts', stored' \cup q.items)
  <2>1. q.newest = q0.newest
    BY <1>2, <1>7, RequestAfterSave
  <2>2. q.token \in Token /\ channel'.owner = q.token
    BY <1>7 DEF TInv, TypeOK, RequestType, Reporting, LeaseOk
  <2>3. channel.status = "active"
    BY <1>3, <1>4, <1>7, <2>2, NoneIsNobody
  <2> QED
    BY <1>1, <2>1, <2>3 DEF Complete, ReadTo
<1>8. ASSUME NEW q \in net', q.kind = "done", Reporting(q)'
      PROVE  DoneRead(q, channel', posts', stored')
  <2>1. q.token \in Token /\ channel'.owner = q.token
    BY <1>8 DEF TInv, TypeOK, RequestType, Reporting, LeaseOk
  <2>2. q0.kind # "done"
    BY <1>3, <2>1, NoneIsNobody
  <2>3. /\ q0.from \in Worker /\ Matches(q0, worker[q0.from]) /\ worker[q0.from].pages # 0
        /\ CaughtUp(worker[q0.from]) /\ q.newest = q0.newest
    BY <1>2, <1>8, <2>2, RequestAfterSave
  <2> QED
    BY <1>2, <2>3, CaughtUpDone DEF Covered
<1> QED
  BY <1>5, <1>6, <1>7, <1>8 DEF Complete

\* and a quiet step.
LEMMA QuietComplete ==
  ASSUME Inv2, Complete, EdgeStep, TInv', BurstFits, NoForcedActive, [Next]_vars, Held1,
         \A q \in net : ~Saves(q)
  PROVE  Complete'
<1>1. /\ TInv /\ Inv1 /\ Cursors /\ Covered /\ EditPaid
      /\ Paired(channel) /\ Held(channel, channel')
      /\ posts \in SUBSET (Nat \ {0}) /\ IsFiniteSet(posts) /\ posts' \in SUBSET posts
      /\ stored \subseteq stored' /\ worker \in [Worker -> TaskType]
      /\ channel.newest \in Nat /\ channel.oldest \in Nat
  BY CoveredFacts DEF Inv2, Inv1, Held1, Paired
<1>2. channel'.status = "active" => channel.status = "active"
  BY <1>1, StatusChange
<1>3. ASSUME NEW x \in Nat, NEW y \in Nat, y <= x, NEW s, NEW s2, s \subseteq s2,
             ReadTo(x, posts, s)
      PROVE  ReadTo(y, posts', s2)
  BY <1>1, <1>3 DEF ReadTo
<1>4. ASSUME channel'.status = "active"
      PROVE  ReadTo(channel'.newest, posts', stored') /\ Few(0, posts', stored')
  <2>1. channel'.newest \in Nat /\ channel'.newest <= channel.newest
    BY <1>1 DEF Held
  <2> QED
    BY <1>1, <1>2, <1>3, <1>4, <2>1, FewKept DEF Complete
<1>5. ASSUME channel'.status = "active", NEW w \in Worker, Walking(w)'
      PROVE  WalkRead(worker'[w], posts', stored')
  <2>1. CASE worker'[w] = worker[w] /\ Walking(w)
    BY <1>1, <1>2, <1>5, <2>1 DEF Complete, WalkRead
  <2>2. CASE worker'[w] = NewTask
    <3>1. ReadTo(channel.newest, posts, stored)
      BY <1>2, <1>5 DEF Complete
    <3>2. NewTask.newest = 0 /\ NewTask.cursor \in {0, channel.oldest}
      BY <1>1, NewTaskCursors
    <3>3. channel.oldest <= channel.newest
      BY <1>1 DEF Paired, Span
    <3> HIDE DEF NewTask
    <3> QED
      BY <1>1, <2>2, <3>1, <3>2, <3>3 DEF WalkRead, ReadTo
  <2> QED
    BY <1>1, <1>5, <2>1, <2>2, WalkInQuiet
<1>6. ASSUME channel'.status = "active", NEW q \in net', Reporting(q)'
      PROVE  ReadTo(q.newest, posts', stored' \cup q.items)
  <2>1. ASSUME NEW p \in net, Reporting(p), q.items = p.items, q.newest = p.newest
        PROVE  ReadTo(q.newest, posts', stored' \cup q.items)
    BY <1>1, <1>2, <1>6, <2>1 DEF Complete, ReadTo
  <2>2. ASSUME q.from \in Worker, Walking(q.from), Reads(q.from), q.items = ReadItems(q.from),
               q.newest = Read(worker[q.from]).newest
        PROVE  ReadTo(q.newest, posts', stored' \cup q.items)
    <3>1. /\ Page(worker[q.from]) # {} /\ WalkRead(worker[q.from], posts, stored)
          /\ Few(0, posts, stored)
      BY <1>2, <1>6, <2>2 DEF Reads, Complete
    <3>2. ReadTo(q.newest, posts, stored \cup q.items)
      BY <1>1, <2>2, <3>1, ReadComplete
    <3> QED
      BY <1>1, <3>2 DEF ReadTo
  <2>3. ASSUME q.from \in Worker, Walking(q.from), q.newest = worker[q.from].newest
        PROVE  ReadTo(q.newest, posts', stored' \cup q.items)
    <3>1. WalkRead(worker[q.from], posts, stored)
      BY <1>2, <1>6, <2>3 DEF Complete
    <3> QED
      BY <1>1, <2>3, <3>1 DEF WalkRead, ReadTo
  <2> QED
    BY <1>1, <1>6, <2>1, <2>2, <2>3, RequestInQuiet
<1>7. ASSUME NEW q \in net', q.kind = "done", Reporting(q)'
      PROVE  DoneRead(q, channel', posts', stored')
  <2>1. ASSUME q.newest \in Nat, DoneRead(q, channel, posts, stored)
        PROVE  DoneRead(q, channel', posts', stored')
    <3>1. /\ Highest(channel.newest, q.newest) \in Nat /\ Highest(channel'.newest, q.newest) \in Nat
          /\ Highest(channel'.newest, q.newest) <= Highest(channel.newest, q.newest)
      BY <1>1, <2>1, Cursor DEF Held
    <3> QED
      BY <1>1, <1>3, <2>1, <3>1, FewKept DEF DoneRead
  <2>2. q.newest \in Nat
    BY Consts DEF TInv, TypeOK, RequestType
  <2>3. ASSUME NEW p \in net, Reporting(p), q.kind = p.kind, q.newest = p.newest
        PROVE  DoneRead(q, channel, posts, stored)
    BY <1>7, <2>3 DEF Complete, DoneRead
  <2>4. ASSUME q.from \in Worker, Walking(q.from), q.newest = worker[q.from].newest,
               Page(worker[q.from]) = {}
        PROVE  DoneRead(q, channel, posts, stored)
    BY <1>1, <2>4, EmptyDone
  <2> QED
    BY <1>1, <1>7, <2>1, <2>2, <2>3, <2>4, RequestInQuiet
<1> QED
  BY <1>4, <1>5, <1>6, <1>7 DEF Complete

\* A new channel is not active.
LEMMA InitComplete == Init => EditPaid /\ Complete
BY DEF Init, EditPaid, Complete

\* Where, besides, nobody sets a channel active by hand, an active channel and the
\* walks and requests of it have no gap below them, and a request that ends a walk
\* is true to its word.
THEOREM CompleteInductive ==
  ASSUME NoLostPage, BurstFits, NoForcedActive
  PROVE  Spec => []Complete
<1>1. Init => EditPaid /\ Complete
  BY InitComplete
<1>2. EditPaid /\ [Next]_vars => EditPaid'
  BY NextEditPaid
<1>3. /\ Inv1 /\ Covered /\ EditPaid /\ Complete /\ TInv' /\ Covered'
      /\ [Next]_vars
      => Complete'
  <2> SUFFICES ASSUME Inv1, Covered, EditPaid, Complete, TInv', Covered', [Next]_vars
               PROVE  Complete'
    OBVIOUS
  <2>1. EdgeStep /\ Inv2
    BY NextEdgeStep DEF Inv1, Inv2
  <2>2. CASE Post
    BY <2>1, <2>2, PostComplete
  <2>3. CASE \E q \in net : Saves(q)
    BY <2>1, <2>3, SavesComplete
  <2>4. CASE Held1 /\ \A q \in net : ~Saves(q)
    BY <2>1, <2>4, QuietComplete
  <2> QED
    BY <2>2, <2>3, <2>4, QuietOrNot
<1> QED
  BY <1>1, <1>2, <1>3, ShapeInductive, WalksAreSingle, CoverInductive, PTL DEF Spec

\* A channel the crawler turned active is read down to its first message, so that
\* the switch to updates loses nothing (crawling.py:276-279).
THEOREM ActiveComplete ==
  ASSUME NoLostPage, BurstFits, NoForcedActive
  PROVE  Spec => []ActiveIsComplete
<1>1. Complete => ActiveIsComplete
  BY DEF Complete, ActiveIsComplete, ReadTo
<1> QED
  BY <1>1, CompleteInductive, PTL

------------------------------------------------------------------------------
\* Where the row is while a backfill goes on.

\* Nobody starts a full recrawl.
NoFullRecrawl == "recrawl_full" \notin Troubles

\* A page that is waited for is being posted.
LEMMA PageAwaited ==
  ASSUME TInv, NEW q \in net, q.kind = "page", q.from # None
  PROVE  q.from \in Worker /\ worker[q.from].pc = "posting"
<1>1. net \subseteq RequestType
  BY Parts DEF EdgeOK
<1>2. q.from \in Worker
  BY <1>1 DEF RequestType
<1>3. worker[q.from].pc = "posting"
  BY DEF TInv, Shape, Awaited, Matches
<1> QED
  BY <1>2, <1>3

\* Nothing was saved: the row stays, a walk begins at it, a page is read below it.
LEMMA QuietResumes ==
  ASSUME Inv1, Resumes, EdgeStep, TInv', [Next]_vars, SameCursors, \A q \in net : ~Saves(q)
  PROVE  Resumes'
<1>1. /\ TInv /\ Cursors /\ worker \in [Worker -> TaskType] /\ channel'.oldest = channel.oldest
      /\ channel.oldest \in Nat /\ channel.newest \in Nat /\ Span(channel)
  BY CoveredFacts DEF Inv1, SameCursors, Paired
<1>2. ASSUME NEW w \in Worker, Walking(w)', worker'[w].stop = 0
      PROVE  channel'.oldest = worker'[w].cursor
  <2>1. CASE worker'[w] = worker[w] /\ Walking(w)
    BY <1>1, <1>2, <2>1 DEF Resumes, ResumesWhereItStopped, Walking
  <2>2. CASE worker'[w] = NewTask
    <3> HIDE DEF NewTask
    <3> QED
      BY <1>1, <1>2, <2>2, NewTaskCursors DEF Span
  <2> QED
    BY <1>2, <2>1, <2>2, WalkInQuiet
<1>3. ASSUME NEW q \in net', q.kind = "page", q.from # None, Reporting(q)', worker'[q.from].stop = 0
      PROVE  Lowest(channel'.oldest, q.oldest) = worker'[q.from].cursor
  <2> DEFINE v == q.from
  <2>1. v \in Worker /\ worker'[v].pc = "posting"
    <3>1. net' \subseteq RequestType
      BY DEF TInv, TypeOK
    <3>2. v \in Worker
      BY <1>3, <3>1 DEF RequestType
    <3>3. worker'[v].pc = "posting"
      BY <1>3 DEF TInv, Shape, Awaited, Matches
    <3> QED
      BY <3>2, <3>3
  <2>2. ASSUME NEW p \in net, Reporting(p), CopyOf(q, p)
        PROVE  Lowest(channel'.oldest, q.oldest) = worker'[v].cursor
    <3>1. q = p
      BY <1>3, <2>2 DEF CopyOf, Abandoned, RequestType, Inv1, TInv, TypeOK
    <3>2. worker[v].pc = "posting"
      BY <1>1, <1>3, <3>1, PageAwaited
    <3>3. ~Reads(v)
      BY <3>2 DEF Reads, fetch
    <3>4. WorkerStep(v)
      BY <2>1 DEF EdgeStep
    <3>5. worker'[v] = worker[v]
      <4> HIDE DEF NewTask
      <4> QED
        BY <2>1, <3>2, <3>3, <3>4, NewTaskPc DEF WorkerStep, Idle
    <3> QED
      BY <1>1, <1>3, <2>2, <3>1, <3>5 DEF Resumes
  <2>3. ASSUME Walking(v), Reads(v), q.oldest = Read(worker[v]).oldest
        PROVE  Lowest(channel'.oldest, q.oldest) = worker'[v].cursor
    <3> DEFINE t == worker[v]
               lo == Min(Page(t))
               hi == Max(Page(t))
    <3>1. /\ t \in TaskType /\ worker'[v] = Read(t) /\ Page(t) # {}
          /\ Read(t).cursor = lo /\ Read(t).stop = t.stop
      BY <1>1, <2>1, <2>3, ReadFields DEF Reads
    <3>2. lo \in 1..top /\ hi \in 1..top /\ lo <= hi /\ (t.cursor # 0 => hi < t.cursor)
          /\ Read(t).oldest = lo
      BY <1>1, <2>1, <3>1, ReadTask
    <3>3. channel.oldest = t.cursor
      BY <1>3, <2>1, <2>3, <3>1 DEF Resumes, ResumesWhereItStopped, Walking
    <3> HIDE DEF t, lo, hi
    <3>4. Lowest(channel.oldest, lo) = lo
      BY <1>1, <3>2, <3>3, Cursor
    <3> QED
      BY <1>1, <2>3, <3>1, <3>2, <3>4 DEF t
  <2> QED
    BY <1>3, <2>1, <2>2, <2>3, RequestInQuiet
<1> QED
  BY <1>2, <1>3 DEF Resumes, ResumesWhereItStopped, Walking

\* A page was saved: the row is at its lowest message, where the walk goes on.
LEMMA SavesResumes ==
  ASSUME Inv1, Resumes, EdgeStep, TInv', [Next]_vars, NEW q0 \in net, Saves(q0)
  PROVE  Resumes'
<1>1. /\ TInv /\ Reporting(q0) /\ channel'.oldest = Lowest(channel.oldest, q0.oldest)
  BY SavesDoes, SavedCursors, Parts DEF Inv1, RowOK, Reporting
<1>2. ASSUME NEW w \in Worker, Walking(w)', worker'[w].stop = 0
      PROVE  channel'.oldest = worker'[w].cursor
  <2>1. q0.kind = "page" /\ q0.from = w /\ Same(worker[w], worker'[w])
    BY <1>2, WalkAfterSave
  <2> QED
    BY <1>1, <1>2, <2>1, NoneIsNobody DEF Resumes, Same
<1>3. ASSUME NEW q \in net', q.kind = "page", q.from # None, Reporting(q)'
      PROVE  FALSE
  <2>1. worker'[q.from].pc = "posting"
    BY <1>3 DEF TInv, Shape, Awaited, Matches
  <2>2. CopyOf(q, q0)
    BY <1>3, <2>1, RequestAfterSave
  <2>3. q = q0
    BY <1>3, <2>2 DEF CopyOf, Abandoned, RequestType, Inv1, TInv, TypeOK
  <2>4. worker'[q0.from].pc # "posting"
    BY <1>1, <1>3, <2>3, PageAwaited, SavesAnswers
  <2> QED
    BY <2>1, <2>3, <2>4
<1> QED
  BY <1>2, <1>3 DEF Resumes, ResumesWhereItStopped, Walking

\* Where no page is given up and nobody starts a full recrawl, the row is where a
\* backfill under a good lease reads next, or will be once the page being posted is
\* saved.
THEOREM ResumesInductive ==
  ASSUME NoLostPage, NoFullRecrawl
  PROVE  Spec => []Resumes
<1>1. Init => EditPaid /\ Resumes
  BY NoneIsNobody DEF Init, EditPaid, Resumes, ResumesWhereItStopped, Idle, LeaseOk
<1>2. EditPaid /\ [Next]_vars => EditPaid'
  BY NextEditPaid
<1>3. Inv1 /\ EditPaid /\ Resumes /\ TInv' /\ [Next]_vars => Resumes'
  <2> SUFFICES ASSUME Inv1, EditPaid, Resumes, TInv', [Next]_vars PROVE Resumes'
    OBVIOUS
  <2>1. EdgeStep
    BY NextEdgeStep DEF Inv1
  <2>2. ~NoCursors
    BY DEF NoCursors, EditPaid, NoFullRecrawl
  <2>3. SameCursors \/ \E q \in net : Saves(q)
    BY <2>2, ChannelChange DEF Inv1
  <2> QED
    BY <2>1, <2>3, QuietResumes, SavesResumes
<1> QED
  BY <1>1, <1>2, <1>3, ShapeInductive, WalksAreSingle, PTL DEF Spec

\* Between two pages of a backfill under a good lease the row holds the place the
\* walk is at: whoever takes over repeats one page at most (crawling.py:4-5,
\* 221-222).
THEOREM BackfillResumes ==
  ASSUME NoLostPage, NoFullRecrawl
  PROVE  Spec => []ResumesWhereItStopped
<1>1. Resumes => ResumesWhereItStopped
  BY DEF Resumes
<1> QED
  BY <1>1, ResumesInductive, PTL
=============================================================================
