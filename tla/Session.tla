------------------------------ MODULE Session ------------------------------
(***************************************************************************)
(* How a client stays signed in: the access and refresh tokens of          *)
(* api/client.ts (the mini app's and the web app's), shared between pages  *)
(* through localStorage, and the rotation of refresh tokens in the         *)
(* backend's services/auth.py.                                             *)
(*                                                                         *)
(* A page keeps its access token in memory; the refresh token is in        *)
(* localStorage, which every page of the app shares.  A refresh is a       *)
(* request, the server's transaction, and the answer: three steps, and a   *)
(* page may be reloaded, an answer lost or another page active between any *)
(* two.  Presenting a consumed token revokes its whole family.             *)
(***************************************************************************)
EXTENDS Naturals, Sequences, FiniteSets

CONSTANTS
  Tabs,       \* the pages that may be open at once
  Slots,      \* the requests a page may have in flight
  Kinds,      \* which clients are modelled: "mini", "web"
  MaxRequests, \* bound: requests in flight in all pages together, logins included
  MaxTroubles, \* bound: lapses of access tokens, new sign-ins and faults together
  MaxFaults   \* bound: lost answers, reloads and a ban

ASSUME SessionAssumption ==
  /\ Kinds \subseteq {"mini", "web"}
  /\ MaxRequests \in Nat /\ MaxTroubles \in Nat /\ MaxFaults \in Nat
  /\ 0 \notin Slots

VARIABLES
  kind,       \* which client this is
  family,     \* refresh_tokens: family[k] is the family of the k-th token issued
  used,       \* tokens whose used_at is set
  revoked,    \* tokens whose revoked_at is set
  rotating,   \* tokens whose row a rotation that has not committed holds
  banned,     \* users.is_banned
  stored,     \* localStorage: the refresh token (0: none)
  page,       \* what each tab shows
  access,     \* the tab's access token in memory
  inflight,   \* inflightAuth: the request that started the refresh under way
  refresh,    \* the refresh each request runs, if it started one
  call,       \* the requests of each tab
  gate,       \* the mini app's own login() at start
  fallback,   \* tabs whose one retry on another origin is spent (web: baseFallbackTried)
  aged,       \* mini app pages whose launch data is older than auth_max_age_s
  turnedAway, \* the pages a request of which ended unauthorized
  orphans,    \* refresh requests whose page is gone
  lapses, faults,
  disturbed,  \* an answer was lost, a page reloaded, or two pages were open
  reused      \* the server saw a consumed token

server == <<family, used, revoked, rotating, reused>>
vars == <<kind, family, used, revoked, rotating, banned, stored, page, access, inflight,
          refresh, call, gate, fallback, aged, turnedAway, orphans, lapses, faults, disturbed,
          reused>>

Issued == 1..Len(family)
NoRefresh == [st |-> "idle", tok |-> 0, reply |-> 0]
Asking(k) == [st |-> "asking", tok |-> k, reply |-> 0]
LoggingIn == [st |-> "logging", tok |-> 0, reply |-> 0]
NoGate == [st |-> "idle", reply |-> 0]
NoCall == [st |-> "idle", lead |-> 0, ok |-> FALSE]

AtWork == {"asking", "rotating", "revoking"}
Requests == [st : AtWork \cup {"idle", "served", "logging", "logged"},
             tok : Issued \cup {0}, reply : Issued \cup {0}]

Calls == [st : {"idle", "waiting", "sent", "rewaiting", "resent"},
          lead : Slots \cup {0}, ok : BOOLEAN]
Gates == [st : {"idle", "logging", "logged"}, reply : Issued \cup {0}]

ServerTyped ==
  /\ family \in Seq(Issued)
  /\ used \subseteq Issued /\ revoked \subseteq Issued /\ rotating \subseteq Issued

\* 0 stands for "no token", "no leader" and a refusal.
PagesTyped ==
  /\ stored \in Issued \cup {0}
  /\ page \in [Tabs -> {"closed", "app", "landing"}]
  /\ access \in [Tabs -> {"none", "good", "old", "refused"}]
  /\ inflight \in [Tabs -> Slots \cup {0}]
  /\ refresh \in [Tabs -> [Slots -> Requests]]
  /\ call \in [Tabs -> [Slots -> Calls]]
  /\ gate \in [Tabs -> Gates]
  /\ fallback \subseteq Tabs
  /\ orphans \subseteq Requests

TypeOK ==
  /\ ServerTyped /\ PagesTyped
  /\ kind \in Kinds /\ banned \in BOOLEAN
  /\ lapses \in 0..MaxTroubles /\ faults \in 0..MaxFaults
  /\ disturbed \in BOOLEAN /\ reused \in BOOLEAN
  /\ aged \subseteq Tabs /\ turnedAway \subseteq Tabs

\* Somebody who signed in before: one token is stored, every page is closed.
Init ==
  /\ kind \in Kinds
  /\ family = <<1>> /\ used = {} /\ revoked = {} /\ rotating = {} /\ banned = FALSE
  /\ stored = 1
  /\ page = [t \in Tabs |-> "closed"]
  /\ access = [t \in Tabs |-> "none"]
  /\ inflight = [t \in Tabs |-> 0]
  /\ refresh = [t \in Tabs |-> [c \in Slots |-> NoRefresh]]
  /\ call = [t \in Tabs |-> [c \in Slots |-> NoCall]]
  /\ gate = [t \in Tabs |-> NoGate]
  /\ fallback = {}
  /\ orphans = {}
  /\ lapses = 0 /\ faults = 0 /\ disturbed = FALSE /\ reused = FALSE
  /\ aged = {} /\ turnedAway = {}

-----------------------------------------------------------------------------
\* The server: one transaction per request, under the token row's lock.

Fresh(k) == k \in Issued \ (used \cup revoked)

\* The refusal of a banned user rolls the transaction back, so nothing is kept.
Rotates(k) == Fresh(k) /\ ~banned
Reuses(k) == k \in used \ revoked

\* The request r at the server.  refresh() locks the token's row and holds it to
\* the end of its transaction: a rotation inserts the next token, which nobody
\* sees before the commit; a reuse revokes the family's tokens it can see (those
\* issued when its UPDATE began), waiting for the rows a rotation has locked.
FamilyAsSeen(r) == {j \in 1..r.reply : family[j] = family[r.tok]}

AtServer(r) ==
  \/ r.st = "asking" /\ r.tok \notin rotating
  \/ r.st = "rotating"
  \/ r.st = "revoking" /\ FamilyAsSeen(r) \cap rotating = {}

ServedTo(r) ==
  IF r.st = "asking" /\ Rotates(r.tok) THEN [r EXCEPT !.st = "rotating"]
  ELSE IF r.st = "asking" /\ Reuses(r.tok)
  THEN [r EXCEPT !.st = "revoking", !.reply = Len(family)]
  ELSE [r EXCEPT !.st = "served", !.reply = IF r.st = "rotating" THEN Len(family) + 1 ELSE 0]

ConsumedNever(r) == used   \* mutant: row.used_at is not set
Consumed(r) == IF r.st = "rotating" THEN used \cup {r.tok} ELSE used

HandleRefresh(r) ==
  /\ AtServer(r)
  /\ family' = IF r.st = "rotating" THEN Append(family, family[r.tok]) ELSE family
  /\ used' = Consumed(r)
  /\ revoked' = IF r.st = "revoking" THEN revoked \cup FamilyAsSeen(r) ELSE revoked
  /\ rotating' = IF ServedTo(r).st = "rotating" THEN rotating \cup {r.tok}
                 ELSE IF r.st = "rotating" THEN rotating \ {r.tok} ELSE rotating
  /\ reused' = (reused \/ ServedTo(r).st = "revoking")

\* A login (initData or widget) starts a family of its own.  A banned user gets none,
\* and nobody does for data that is too old.
HandleLogin(old) ==
  /\ family' = IF banned \/ old THEN family ELSE Append(family, Len(family) + 1)
  /\ UNCHANGED <<used, revoked, rotating, reused>>

LoginReplyAnyway(old) == Len(family) + 1   \* mutant: a refused login is answered all the same
LoginReply(old) == IF banned \/ old THEN 0 ELSE Len(family) + 1

-----------------------------------------------------------------------------
\* The client.

Fault == faults < MaxFaults /\ lapses + faults < MaxTroubles

NeedsAuth(t) == access[t] \in {"none", "old"}

\* refreshTokens: the stored token is read at once; without one the mini app
\* goes straight to its initData login and the web app has nothing to try.
FirstRefresh ==
  IF stored # 0 THEN Asking(stored) ELSE LoggingIn

CanRefresh == stored # 0 \/ kind = "mini"

AuthorizeAlone(t, c, waiting) ==   \* mutant: every request refreshes for itself
  /\ call' = [call EXCEPT ![t][c] = [st |-> waiting, lead |-> c, ok |-> FALSE]]
  /\ inflight' = [inflight EXCEPT ![t] = c]
  /\ refresh' = [refresh EXCEPT ![t][c] = FirstRefresh]

\* authorize: joins the refresh under way (single flight) or starts one.
Authorize(t, c, waiting) ==
  LET lead == IF inflight[t] # 0 THEN inflight[t] ELSE c IN
  /\ call' = [call EXCEPT ![t][c] = [st |-> waiting, lead |-> lead, ok |-> FALSE]]
  /\ inflight' = [inflight EXCEPT ![t] = lead]
  /\ refresh' = IF lead = inflight[t] THEN refresh
                ELSE [refresh EXCEPT ![t][c] = FirstRefresh]

\* Requests the server goes on with, whoever waits for them.
AtServerStill == {r \in Requests : r.st \in AtWork}

\* The page starts over: everything in memory is gone, requests go unanswered.
Blank(t, shows) ==
  /\ page' = [page EXCEPT ![t] = shows]
  /\ access' = [access EXCEPT ![t] = "none"]
  /\ inflight' = [inflight EXCEPT ![t] = 0]
  /\ refresh' = [refresh EXCEPT ![t] = [c \in Slots |-> NoRefresh]]
  /\ call' = [call EXCEPT ![t] = [c \in Slots |-> NoCall]]
  /\ gate' = [gate EXCEPT ![t] = NoGate]
  /\ fallback' = fallback \ {t}
  /\ orphans' = orphans \cup
       ({refresh[t][c] : c \in Slots} \cap AtServerStill)

\* onUnauthorized on the web: clearTokens, empty the cache, reload; with no
\* stored token the reloaded page is the landing screen.
WebSignOut(t) ==
  /\ Blank(t, "landing")
  /\ stored' = 0

\* A tab is opened or reloaded.  The mini app logs in with initData right away,
\* beside whatever refresh its first requests start; the web app shows the
\* landing screen when nothing is stored.
Open(t) ==
  /\ page[t] = "closed"
  /\ page' = [page EXCEPT ![t] = IF CanRefresh THEN "app" ELSE "landing"]
  /\ gate' = [gate EXCEPT ![t].st = IF kind = "mini" THEN "logging" ELSE "idle"]
  /\ disturbed' = (disturbed \/ \E u \in Tabs \ {t} : page[u] # "closed")
  /\ UNCHANGED <<kind, aged, server, banned, stored, access, inflight, refresh, call,
                 turnedAway, fallback, orphans, lapses, faults>>

\* A reload may find the launch data the page had; a new launch has its own.
Leave(t) ==
  /\ page[t] # "closed" /\ Fault
  /\ Blank(t, "closed")
  /\ aged' \in {aged, aged \ {t}}
  /\ faults' = faults + 1 /\ disturbed' = TRUE
  /\ UNCHANGED <<kind, server, banned, stored, turnedAway, lapses>>

InFlight == Cardinality({r \in Tabs \X Slots : call[r[1]][r[2]].st # "idle"})
            + Cardinality({u \in Tabs : gate[u].st # "idle"})

\* api(): with a token that looks fine the request goes out at once.
Request(t, c) ==
  /\ page[t] = "app" /\ call[t][c].st = "idle"
  /\ InFlight < MaxRequests
  /\ \/ /\ ~NeedsAuth(t)
        /\ call' = [call EXCEPT ![t][c] = [st |-> "sent", lead |-> 0, ok |-> access[t] = "good"]]
        /\ UNCHANGED <<inflight, refresh, turnedAway>>
     \/ /\ NeedsAuth(t) /\ (CanRefresh \/ inflight[t] # 0)
        /\ Authorize(t, c, "waiting")
        /\ UNCHANGED turnedAway
     \/ \* refreshTokens throws no_refresh; the request fails, the page stays
        /\ NeedsAuth(t) /\ ~CanRefresh /\ inflight[t] = 0
        /\ turnedAway' = turnedAway \cup {t}
        /\ UNCHANGED <<call, inflight, refresh>>
  /\ UNCHANGED <<kind, aged, server, banned, stored, page, access, gate, fallback, orphans, lapses,
                 faults, disturbed>>

\* The refresh a request started is over: everyone who waited for it goes on.
JoinedNobody(t, c) == {c}   \* mutant: only the request that started it
Joined(t, c) == {d \in Slots : call[t][d].st \in {"waiting", "rewaiting"} /\ call[t][d].lead = c}

Proceed(t, c) ==
  /\ inflight' = [inflight EXCEPT ![t] = 0]
  /\ refresh' = [refresh EXCEPT ![t][c] = NoRefresh]
  /\ call' = [call EXCEPT ![t] = [d \in Slots |->
       IF d \in Joined(t, c)
       THEN [st |-> IF call[t][d].st = "waiting" THEN "sent" ELSE "resent", lead |-> 0, ok |-> TRUE]
       ELSE call[t][d]]]
  /\ UNCHANGED <<page, gate, fallback, orphans>>

\* It failed: a first authorize() rejects the request; a forced one also calls
\* onUnauthorized, which on the web signs the whole page out.  "clears" says
\* whether refreshTokens called clearTokens first.
Reject(t, c, why, clears) ==
  /\ turnedAway' = IF why = "unauthorized" \/ \E d \in Joined(t, c) : call[t][d].st = "rewaiting"
                   THEN turnedAway \cup {t} ELSE turnedAway
  /\ IF kind = "web" /\ \E d \in Joined(t, c) : call[t][d].st = "rewaiting"
     THEN WebSignOut(t)
     ELSE /\ inflight' = [inflight EXCEPT ![t] = 0]
          /\ refresh' = [refresh EXCEPT ![t][c] = NoRefresh]
          /\ call' = [call EXCEPT ![t] = [d \in Slots |->
               IF d \in Joined(t, c) THEN NoCall ELSE call[t][d]]]
          /\ stored' = IF clears THEN 0 ELSE stored
          /\ access' = IF clears THEN [access EXCEPT ![t] = "none"] ELSE access
          /\ orphans' = orphans \cup ({refresh[t][c]} \cap AtServerStill)
          /\ UNCHANGED <<page, gate, fallback>>

\* POST /v1/auth/refresh and POST /v1/auth/telegram reach the server.
RefreshServed(t, c) ==
  /\ \/ /\ HandleRefresh(refresh[t][c])
        /\ refresh' = [refresh EXCEPT ![t][c] = ServedTo(@)]
     \/ /\ refresh[t][c].st = "logging"
        /\ HandleLogin(t \in aged)
        /\ refresh' = [refresh EXCEPT ![t][c] =
                         [LoggingIn EXCEPT !.st = "logged", !.reply = LoginReply(t \in aged)]]
  /\ UNCHANGED <<kind, aged, banned, stored, page, access, inflight, call, gate, fallback,
                 turnedAway, orphans, lapses, faults, disturbed>>

StoreInMemory(t, k) ==   \* mutant: the refresh token is not kept
  /\ access' = [access EXCEPT ![t] = "good"]
  /\ UNCHANGED stored

\* storeTokens: the new pair, whatever another page stored meanwhile.
Store(t, k) ==
  /\ stored' = k
  /\ access' = [access EXCEPT ![t] = "good"]

StartsOverNever == FALSE   \* mutant: the refusal is final
StartsOver == kind = "mini"

\* The answer arrives.  A refusal clears what is stored (even a token another
\* page has stored since) and, in the mini app, falls back to initData.
RefreshAnswered(t, c) ==
  LET r == refresh[t][c] IN
  /\ r.st \in {"served", "logged"}
  /\ \/ /\ r.reply # 0
        /\ Store(t, r.reply) /\ Proceed(t, c)
        /\ UNCHANGED turnedAway
     \/ /\ r.reply = 0 /\ r.st = "served" /\ StartsOver
        /\ stored' = 0 /\ access' = [access EXCEPT ![t] = "none"]
        /\ refresh' = [refresh EXCEPT ![t][c] = LoggingIn]
        /\ UNCHANGED <<page, inflight, call, gate, fallback, orphans, turnedAway>>
     \/ /\ r.reply = 0 /\ r.st = "served" /\ ~StartsOver
        /\ Reject(t, c, "unauthorized", TRUE)
     \/ /\ r.reply = 0 /\ r.st = "logged"
        /\ Reject(t, c, "unauthorized", FALSE)
  /\ UNCHANGED <<kind, aged, server, banned, lapses, faults, disturbed>>

\* rate_limit_auth turns the request away before it is looked at; to the client
\* this is one more refusal.
RefreshThrottled(t, c) ==
  /\ refresh[t][c].st \in {"asking", "logging"} /\ Fault
  /\ refresh' = [refresh EXCEPT ![t][c].st = IF @ = "asking" THEN "served" ELSE "logged"]
  /\ faults' = faults + 1 /\ disturbed' = TRUE
  /\ UNCHANGED <<kind, aged, server, banned, stored, page, access, inflight, call, gate, fallback,
                 turnedAway, orphans, lapses>>

\* The request or its answer is lost (or the server answers 5xx): nothing is
\* cleared.  The web app asks once more on its own origin, with the same token.
RefreshLost(t, c) ==
  LET r == refresh[t][c] IN
  /\ r.st # "idle" /\ Fault
  /\ \/ Reject(t, c, "network", FALSE)
     \/ /\ kind = "web" /\ t \notin fallback
        /\ fallback' = fallback \cup {t}
        /\ refresh' = [refresh EXCEPT ![t][c] = Asking(r.tok)]
        /\ orphans' = orphans \cup ({r} \cap AtServerStill)
        /\ UNCHANGED <<stored, page, access, inflight, call, gate, turnedAway>>
  /\ faults' = faults + 1 /\ disturbed' = TRUE
  /\ UNCHANGED <<kind, aged, server, banned, lapses>>

\* A refresh nobody waits for any more still reaches the server.
OrphanServed(r) ==
  /\ r \in orphans
  /\ HandleRefresh(r)
  /\ orphans' = (orphans \ {r}) \cup ({ServedTo(r)} \cap AtServerStill)
  /\ UNCHANGED <<kind, aged, banned, stored, page, access, inflight, refresh, call, gate, fallback,
                 turnedAway, lapses, faults, disturbed>>

\* Answers to the request itself.
Finish(t, c, how) ==
  /\ call' = [call EXCEPT ![t][c] = NoCall]
  /\ turnedAway' = IF how = "unauthorized" THEN turnedAway \cup {t} ELSE turnedAway

Answered(t, c) ==
  LET r == call[t][c] IN
  /\ r.st \in {"sent", "resent"} /\ r.ok /\ ~banned
  /\ Finish(t, c, "ok")
  /\ UNCHANGED <<kind, aged, server, banned, stored, page, access, inflight, refresh, gate,
                 fallback, orphans, lapses, faults, disturbed>>

\* A 401: once, a forced refresh and another try; the second 401 is final.
Unauthorized(t, c) ==
  LET r == call[t][c] IN
  /\ r.st \in {"sent", "resent"} /\ ~r.ok
  /\ \/ /\ r.st = "sent" /\ (CanRefresh \/ inflight[t] # 0)
        /\ Authorize(t, c, "rewaiting")
        /\ UNCHANGED <<stored, page, access, gate, fallback, orphans, turnedAway>>
     \/ /\ r.st = "sent" /\ ~CanRefresh /\ inflight[t] = 0
        /\ turnedAway' = turnedAway \cup {t}
        /\ WebSignOut(t)
     \/ /\ r.st = "resent"
        /\ Finish(t, c, "unauthorized")
        /\ UNCHANGED <<stored, page, access, inflight, refresh, gate, fallback, orphans>>
  /\ UNCHANGED <<kind, aged, server, banned, lapses, faults, disturbed>>

\* A 403 "forbidden": the user was banned.
Forbidden(t, c) ==
  LET r == call[t][c] IN
  /\ r.st \in {"sent", "resent"} /\ r.ok /\ banned
  /\ IF kind = "web" /\ r.st = "sent"
     THEN WebSignOut(t) /\ UNCHANGED turnedAway
     ELSE /\ Finish(t, c, "forbidden")
          /\ UNCHANGED <<stored, page, access, inflight, refresh, gate, fallback, orphans>>
  /\ UNCHANGED <<kind, aged, server, banned, lapses, faults, disturbed>>

RequestLost(t, c) ==
  /\ call[t][c].st \in {"sent", "resent"} /\ Fault
  /\ Finish(t, c, "network")
  /\ faults' = faults + 1
  /\ UNCHANGED <<kind, aged, server, banned, stored, page, access, inflight, refresh, gate,
                 fallback, orphans, lapses, disturbed>>

\* The mini app's login() at start: not part of the single flight.
GateServed(t) ==
  /\ gate[t].st = "logging"
  /\ HandleLogin(t \in aged)
  /\ gate' = [gate EXCEPT ![t] = [st |-> "logged", reply |-> LoginReply(t \in aged)]]
  /\ UNCHANGED <<kind, aged, banned, stored, page, access, inflight, refresh, call, turnedAway,
                 fallback, orphans, lapses, faults, disturbed>>

GateAnswered(t) ==
  /\ gate[t].st = "logged"
  /\ gate' = [gate EXCEPT ![t] = NoGate]
  /\ IF gate[t].reply # 0 THEN Store(t, gate[t].reply) ELSE UNCHANGED <<stored, access>>
  /\ UNCHANGED <<kind, aged, server, banned, page, inflight, refresh, call, turnedAway, fallback,
                 orphans, lapses, faults, disturbed>>

\* The web's landing screen: the Login Widget.
LoginWithWidget(t) ==
  /\ page[t] = "landing" /\ ~banned
  /\ lapses + faults < MaxTroubles /\ lapses' = lapses + 1
  /\ HandleLogin(FALSE)
  /\ Store(t, LoginReply(FALSE))
  /\ page' = [page EXCEPT ![t] = "app"]
  /\ UNCHANGED <<kind, aged, banned, inflight, refresh, call, gate, fallback, turnedAway, orphans,
                 faults, disturbed>>

\* Time: the client sees its token is about to lapse, or (a device clock that is
\* behind) still thinks it good when the server no longer does.
Lapse(t) ==
  /\ access[t] = "good" /\ lapses + faults < MaxTroubles
  /\ \E how \in {"old", "refused"} : access' = [access EXCEPT ![t] = how]
  /\ lapses' = lapses + 1
  /\ UNCHANGED <<kind, aged, server, banned, stored, page, inflight, refresh, call, gate, fallback,
                 turnedAway, orphans, faults, disturbed>>

\* A page stays open for longer than auth_max_age_s; it keeps what Telegram launched it with.
Age(t) ==
  /\ kind = "mini" /\ page[t] = "app" /\ t \notin aged
  /\ lapses + faults < MaxTroubles /\ lapses' = lapses + 1
  /\ aged' = aged \cup {t}
  /\ UNCHANGED <<kind, server, banned, stored, page, access, inflight, refresh, call, gate,
                 fallback, turnedAway, orphans, faults, disturbed>>

Ban ==
  /\ ~banned /\ Fault
  /\ banned' = TRUE /\ faults' = faults + 1
  /\ UNCHANGED <<kind, aged, server, stored, page, access, inflight, refresh, call, gate, fallback,
                 turnedAway, orphans, lapses, disturbed>>

-----------------------------------------------------------------------------
Refreshing(t, c) == RefreshServed(t, c) \/ RefreshAnswered(t, c) \/ RefreshLost(t, c)
                    \/ RefreshThrottled(t, c)
Answering(t, c) == Answered(t, c) \/ Unauthorized(t, c) \/ Forbidden(t, c) \/ RequestLost(t, c)

TabStep(t) ==
  \/ Open(t) \/ Leave(t) \/ Lapse(t) \/ Age(t) \/ LoginWithWidget(t)
  \/ GateServed(t) \/ GateAnswered(t)
  \/ \E c \in Slots : Request(t, c) \/ Refreshing(t, c) \/ Answering(t, c)

Next ==
  \/ \E t \in Tabs : TabStep(t)
  \/ \E r \in orphans : OrphanServed(r)
  \/ Ban

Spec == Init /\ [][Next]_vars

\* Every request on the network is answered or fails (fetch() settles), and the
\* server finishes what it began.
Fairness ==
  /\ WF_vars(\E r \in orphans : OrphanServed(r))
  /\ \A t \in Tabs, c \in Slots :
       WF_vars(Refreshing(t, c)) /\ WF_vars(Answering(t, c))

FairSpec == Spec /\ Fairness

-----------------------------------------------------------------------------
(* Properties *)

\* At most one token of a family can still be exchanged, whatever the pages
\* of the user do at once: refresh() consumes the row it locked before it
\* issues the next one (services/auth.py refresh).
OneFreshPerFamily ==
  \A j, k \in Issued : Fresh(j) /\ Fresh(k) /\ family[j] = family[k] => j = k

\* "Reusing a consumed token revokes the whole family" (services/auth.py refresh):
\* no token of a family with a revoked one is left.  A rotation under way escapes.
FamilyDiesTogether ==
  \A j, k \in Issued : family[j] = family[k] /\ k \in revoked => j \in revoked

\* A page on its own never trips the reuse detection: however its requests race,
\* 401s included, they share one refresh (client.ts authorize).  It takes a second
\* page, a reload or a lost answer.
NoSelfReuse == reused => disturbed

\* While nothing disturbs it, the session is never lost: what localStorage
\* holds can still be exchanged, or its exchange is on its way back.
SessionKept ==
  ~disturbed /\ ~banned =>
    /\ stored \in Issued \ revoked
    /\ Fresh(stored) \/ \E t \in Tabs, c \in Slots : refresh[t][c].st \in {"rotating", "served"}

\* Where refreshing fails the mini app falls back to its launch data (client.ts
\* refreshTokens): two pages, reuse detection and revoked families included, and
\* whatever becomes of the other page, no request of a page ends unauthorized but
\* for a ban, a fault (a lost answer, a limit, a reload) or launch data of its own
\* that is too old (auth.py:71).
TelegramAlwaysGetsIn ==
  kind = "mini" /\ ~banned /\ faults = 0 => turnedAway \subseteq aged

\* As client.ts:8 has it: initData login "always works inside Telegram"
\* (LaunchAged.cfg: not in a page that has been open for a day).
InitDataAlwaysWorks ==
  kind = "mini" /\ ~banned /\ faults = 0 => turnedAway = {}

\* Every request ends: nobody waits for a refresh that is over, nor for a
\* leader that went away (client.ts authorize, api).
EveryRequestEnds ==
  \A t \in Tabs, c \in Slots :
    call[t][c].st # "idle" ~> call[t][c].st = "idle"

\* What a listener with two pages open would expect of the web app: with every
\* answer arriving and no ban, the stored session stays usable.
WebKeepsSession ==
  faults = 0 /\ ~banned /\ kind = "web" => stored # 0
=============================================================================
