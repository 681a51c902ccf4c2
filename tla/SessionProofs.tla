---------------------------- MODULE SessionProofs ----------------------------
(***************************************************************************)
(* What Session says of its tokens, for any number of pages, requests,     *)
(* lost answers and reloads.  First the rows (services/auth.py refresh): a *)
(* rotation leaves at most one usable token in a family.  Then the pages   *)
(* (api/client.ts): a page on its own never presents a consumed token and  *)
(* never loses the session, and inside Telegram a page is turned away only *)
(* when the launch data it holds is too old.                               *)
(***************************************************************************)
EXTENDS Session, TLAPS

Rotating(r) == r.st = "rotating"

\* A token that a rotation holds has been neither consumed nor revoked.
HeldIsFresh == rotating \cap (used \cup revoked) = {}

\* A rotation at the server holds its token's row, and nobody else holds it: whether its
\* page still waits for it or is gone.
HeldBySlots ==
  /\ \A t \in Tabs, c \in Slots :
       Rotating(refresh[t][c]) => refresh[t][c].tok \in rotating
  /\ \A t, u \in Tabs, c, d \in Slots :
       Rotating(refresh[t][c]) /\ Rotating(refresh[u][d])
         /\ refresh[t][c].tok = refresh[u][d].tok => t = u /\ c = d

HeldByOrphans ==
  /\ \A r \in orphans : Rotating(r) => r.tok \in rotating
  /\ \A r, q \in orphans : Rotating(r) /\ Rotating(q) /\ r.tok = q.tok => r = q
  /\ \A r \in orphans, t \in Tabs, c \in Slots :
       Rotating(r) /\ Rotating(refresh[t][c]) => r.tok # refresh[t][c].tok

Held == HeldBySlots /\ HeldByOrphans

IInv == TypeOK /\ HeldIsFresh /\ Held /\ OneFreshPerFamily

------------------------------------------------------------------------------
\* The rows of refresh_tokens.

LEMMA GrowFamily ==
  ASSUME ServerTyped, NEW f \in 1..(Len(family) + 1), family' = Append(family, f)
  PROVE  /\ family' \in Seq(Issued') /\ Len(family') = Len(family) + 1
         /\ \A k \in Issued : family'[k] = family[k] /\ k # Len(family) + 1
         /\ family'[Len(family) + 1] = f
         /\ Issued' = Issued \cup {Len(family) + 1}
<1>1. /\ Len(family) \in Nat /\ Len(family') = Len(family) + 1
      /\ \A k \in Issued : family'[k] = family[k] /\ k # Len(family) + 1
      /\ family'[Len(family) + 1] = f
  BY DEF ServerTyped, Issued
<1>2. Issued' = Issued \cup {Len(family) + 1}
  BY <1>1 DEF Issued
<1>3. f \in Issued'
  BY <1>1 DEF Issued
<1>4. family \in Seq(Issued')
  BY <1>2 DEF ServerTyped
<1>5. family' \in Seq(Issued')
  BY <1>3, <1>4
<1> QED
  BY <1>1, <1>2, <1>5

\* What holds of the rows after any step: what the server keeps, and no id is taken back.
RowsKept ==
  /\ ServerTyped' /\ HeldIsFresh' /\ OneFreshPerFamily'
  /\ reused' \in BOOLEAN
  /\ Issued \subseteq Issued'

LEMMA SameRows ==
  ASSUME IInv, UNCHANGED server
  PROVE  RowsKept /\ rotating' = rotating /\ Issued' = Issued
BY DEF IInv, TypeOK, server, RowsKept, ServerTyped, HeldIsFresh, OneFreshPerFamily, Fresh, Issued

\* A login answers with new: the first token of a family of its own, or none.
Login(new) ==
  /\ UNCHANGED <<used, revoked, rotating, reused>>
  /\ \/ new = 0 /\ family' = family
     \/ new = Len(family) + 1 /\ family' = Append(family, new)

LEMMA LoginRows ==
  ASSUME IInv, NEW new, Login(new)
  PROVE  RowsKept /\ rotating' = rotating /\ new \in Issued' \cup {0}
<1> USE DEF IInv, TypeOK
<1>1. CASE new = 0 /\ family' = family
  <2>1. UNCHANGED server
    BY <1>1 DEF Login, server
  <2> QED
    BY <1>1, <2>1, SameRows
<1>2. CASE new = Len(family) + 1 /\ family' = Append(family, new)
  <2> DEFINE n == Len(family) + 1
  <2>1. /\ family' = Append(family, n)
        /\ UNCHANGED <<used, revoked, rotating, reused>>
    BY <1>2 DEF Login
  <2>2. Len(family) \in Nat /\ n \in 1..(Len(family) + 1)
    BY DEF ServerTyped
  <2>3. /\ family' \in Seq(Issued') /\ Issued' = Issued \cup {n}
        /\ \A k \in Issued : family'[k] = family[k] /\ k # n
        /\ family'[n] = n
    BY <2>1, <2>2, GrowFamily
  <2>4. ServerTyped'
    BY <2>1, <2>3 DEF ServerTyped
  <2>5. \A k \in Issued : family'[k] # n
    <3>1. \A k \in Issued : family[k] \in Issued
      BY DEF ServerTyped, Issued
    <3> QED
      BY <2>3, <3>1
  <2>6. OneFreshPerFamily'
    <3> SUFFICES ASSUME NEW j \in Issued', NEW k \in Issued', Fresh(j)', Fresh(k)',
                        family'[j] = family'[k]
                 PROVE  j = k
      BY DEF OneFreshPerFamily
    <3>1. CASE j \in Issued /\ k \in Issued
      BY <2>1, <2>3, <3>1 DEF OneFreshPerFamily, Fresh
    <3> QED
      BY <2>3, <2>5, <3>1
  <2> QED
    BY <1>2, <2>1, <2>3, <2>4, <2>6 DEF RowsKept, HeldIsFresh
<1> QED
  BY <1>1, <1>2 DEF Login

\* The server handles a refresh.
LEMMA RefreshRows ==
  ASSUME IInv, NEW r \in Requests, Rotating(r) => r.tok \in rotating, HandleRefresh(r)
  PROVE  /\ RowsKept /\ ServedTo(r) \in Requests'
         /\ rotating' = IF Rotating(ServedTo(r)) THEN rotating \cup {r.tok}
                        ELSE IF Rotating(r) THEN rotating \ {r.tok} ELSE rotating
         /\ Rotating(ServedTo(r)) => r.tok \notin rotating /\ ServedTo(r).tok = r.tok
<1> USE DEF IInv, TypeOK, Rotating
<1>r. /\ r.st \in AtWork \cup {"idle", "served", "logging", "logged"}
      /\ r.tok \in Issued \cup {0} /\ r.reply \in Issued \cup {0}
      /\ r = [st |-> r.st, tok |-> r.tok, reply |-> r.reply]
  BY DEF Requests
<1>n. Len(family) \in Nat
  BY DEF ServerTyped
<1>0. reused' \in BOOLEAN
  BY DEF HandleRefresh
<1>1. CASE r.st = "rotating"
  <2> DEFINE n == Len(family) + 1
  <2>1. /\ family' = Append(family, family[r.tok])
        /\ used' = used \cup {r.tok} /\ revoked' = revoked /\ rotating' = rotating \ {r.tok}
    BY <1>1, <1>r DEF HandleRefresh, Consumed, ServedTo
  <2>2. r.tok \in Issued /\ family[r.tok] \in 1..(Len(family) + 1)
    <3>1. r.tok \in Issued
      BY <1>1 DEF ServerTyped
    <3>2. family[r.tok] \in Issued
      BY <3>1 DEF ServerTyped, Issued
    <3> QED
      BY <3>1, <3>2, <1>n DEF Issued
  <2>3. /\ family' \in Seq(Issued') /\ Issued' = Issued \cup {n}
        /\ \A k \in Issued : family'[k] = family[k] /\ k # n
        /\ family'[n] = family[r.tok]
    BY <2>1, <2>2, GrowFamily
  <2>4. ServerTyped'
    BY <2>1, <2>2, <2>3 DEF ServerTyped
  <2>5. HeldIsFresh'
    BY <2>1 DEF HeldIsFresh
  <2>6. OneFreshPerFamily'
    <3> SUFFICES ASSUME NEW j \in Issued', NEW k \in Issued', Fresh(j)', Fresh(k)',
                        family'[j] = family'[k]
                 PROVE  j = k
      BY DEF OneFreshPerFamily
    <3>1. Fresh(r.tok)
      BY <1>1, <2>2 DEF HeldIsFresh, Fresh
    <3>2. \A i \in Issued : i \notin used' /\ i \notin revoked' => Fresh(i) /\ i # r.tok
      BY <2>1 DEF Fresh
    <3>3. j \notin used' /\ j \notin revoked' /\ k \notin used' /\ k \notin revoked'
      BY DEF Fresh
    <3>4. CASE j \in Issued /\ k \in Issued
      BY <2>3, <3>2, <3>3, <3>4 DEF OneFreshPerFamily
    <3>5. CASE j = n /\ k \in Issued
      BY <2>2, <2>3, <3>1, <3>2, <3>3, <3>5 DEF OneFreshPerFamily
    <3>6. CASE k = n /\ j \in Issued
      BY <2>2, <2>3, <3>1, <3>2, <3>3, <3>6 DEF OneFreshPerFamily
    <3> QED
      BY <2>3, <3>4, <3>5, <3>6
  <2>7. ServedTo(r) \in Requests' /\ ~Rotating(ServedTo(r))
    BY <1>1, <1>r, <1>n, <2>3 DEF ServedTo, Requests
  <2> QED
    BY <1>0, <1>1, <2>1, <2>3, <2>4, <2>5, <2>6, <2>7 DEF RowsKept
<1>2. CASE r.st # "rotating"
  <2>1. family' = family /\ used' = used
    BY <1>2 DEF HandleRefresh, Consumed
  <2>2. Issued' = Issued
    BY <2>1 DEF Issued
  <2>3. CASE r.st = "asking" /\ Rotates(r.tok)
    <3>1. revoked' = revoked /\ rotating' = rotating \cup {r.tok} /\ r.tok \notin rotating
      BY <2>3, <1>r DEF HandleRefresh, ServedTo, AtServer
    <3>2. Fresh(r.tok)
      BY <2>3 DEF Rotates
    <3>3. ServerTyped' /\ HeldIsFresh' /\ OneFreshPerFamily'
      BY <2>1, <2>2, <3>1, <3>2 DEF ServerTyped, HeldIsFresh, OneFreshPerFamily, Fresh
    <3>4. ServedTo(r) \in Requests' /\ Rotating(ServedTo(r)) /\ ServedTo(r).tok = r.tok
      BY <2>2, <2>3, <1>r DEF ServedTo, Requests, AtWork
    <3> QED
      BY <1>0, <2>2, <3>1, <3>3, <3>4 DEF RowsKept
  <2>4. CASE ~(r.st = "asking" /\ Rotates(r.tok))
    <3>1. ServedTo(r) \in Requests' /\ ~Rotating(ServedTo(r))
      <4>1. CASE r.st = "asking" /\ Reuses(r.tok)
        <5>1. Len(family) \in Issued' \cup {0}
          BY <1>n, <2>2 DEF Issued
        <5> QED
          BY <2>2, <2>4, <4>1, <1>r, <5>1 DEF ServedTo, Requests, AtWork
      <4>2. CASE ~(r.st = "asking" /\ Reuses(r.tok))
        BY <1>2, <2>2, <2>4, <4>2, <1>r DEF ServedTo, Requests, AtWork
      <4> QED
        BY <4>1, <4>2
    <3>2. rotating' = rotating
      BY <1>2, <3>1 DEF HandleRefresh
    <3>3. revoked \subseteq revoked' /\ revoked' \subseteq Issued
          /\ (revoked' \ revoked) \cap rotating = {}
      <4>1. CASE r.st = "revoking"
        <5>1. FamilyAsSeen(r) \subseteq Issued
          BY <1>r, <1>n DEF FamilyAsSeen, Issued
        <5>2. FamilyAsSeen(r) \cap rotating = {}
          BY <4>1 DEF HandleRefresh, AtServer
        <5>3. revoked' = revoked \cup FamilyAsSeen(r)
          BY <4>1 DEF HandleRefresh
        <5> QED
          BY <5>1, <5>2, <5>3 DEF ServerTyped
      <4>2. CASE r.st # "revoking"
        BY <4>2 DEF HandleRefresh, ServerTyped
      <4> QED
        BY <4>1, <4>2
    <3>4. ServerTyped' /\ HeldIsFresh' /\ OneFreshPerFamily'
      BY <2>1, <2>2, <3>2, <3>3 DEF ServerTyped, HeldIsFresh, OneFreshPerFamily, Fresh
    <3> QED
      BY <1>0, <1>2, <2>2, <3>1, <3>2, <3>4 DEF RowsKept
  <2> QED
    BY <2>3, <2>4
<1> QED
  BY <1>1, <1>2

------------------------------------------------------------------------------
\* The pages.

\* Records keep their types as tokens are issued.
LEMMA Grown ==
  ASSUME RowsKept
  PROVE  Requests \subseteq Requests' /\ Gates \subseteq Gates' /\ Calls' = Calls
BY DEF RowsKept, Requests, Gates, Calls

\* What a step leaves alone keeps its type.
LEMMA PagesKept ==
  ASSUME IInv, RowsKept
  PROVE  /\ stored' = stored => stored' \in Issued' \cup {0}
         /\ page' = page => page' \in [Tabs -> {"closed", "app", "landing"}]
         /\ access' = access => access' \in [Tabs -> {"none", "good", "old", "refused"}]
         /\ inflight' = inflight => inflight' \in [Tabs -> Slots \cup {0}]
         /\ refresh' = refresh => refresh' \in [Tabs -> [Slots -> Requests']]
         /\ call' = call => call' \in [Tabs -> [Slots -> Calls']]
         /\ gate' = gate => gate' \in [Tabs -> Gates']
         /\ fallback' = fallback => fallback' \subseteq Tabs
         /\ orphans' = orphans => orphans' \subseteq Requests'
<1>1. Requests \subseteq Requests' /\ Gates \subseteq Gates' /\ Calls' = Calls
  BY Grown
<1>2. Issued \subseteq Issued'
  BY DEF RowsKept
<1> QED
  BY <1>1, <1>2 DEF IInv, TypeOK, PagesTyped

\* Rotations stay held when a step starts none and only moves records to the orphans.
LEMMA HeldMoves ==
  ASSUME IInv, rotating' = rotating,
         \A t \in Tabs, c \in Slots :
           refresh'[t][c] = refresh[t][c] \/ ~Rotating(refresh'[t][c]),
         \A r \in orphans' : \/ ~Rotating(r) \/ r \in orphans
                             \/ \E t \in Tabs, c \in Slots :
                                  r = refresh[t][c] /\ ~Rotating(refresh'[t][c])
  PROVE  Held'
<1> USE DEF IInv, Held
<1>1. HeldBySlots'
  <2>1. ASSUME NEW t \in Tabs, NEW c \in Slots, Rotating(refresh'[t][c])
        PROVE  refresh'[t][c] = refresh[t][c] /\ Rotating(refresh[t][c])
    BY <2>1
  <2> QED
    BY <2>1 DEF HeldBySlots, Rotating
<1>2. \A r \in orphans' : Rotating(r) => r.tok \in rotating'
  BY DEF HeldBySlots, HeldByOrphans
<1>3. ASSUME NEW r \in orphans', NEW q \in orphans', Rotating(r), Rotating(q), r.tok = q.tok
      PROVE  r = q
  BY <1>3 DEF HeldBySlots, HeldByOrphans
<1>4. ASSUME NEW r \in orphans', NEW t \in Tabs, NEW c \in Slots, Rotating(r),
             Rotating(refresh'[t][c])
      PROVE  r.tok # refresh'[t][c].tok
  <2>1. refresh'[t][c] = refresh[t][c] /\ Rotating(refresh[t][c])
    BY <1>4
  <2>2. CASE r \in orphans
    BY <1>4, <2>1, <2>2 DEF HeldByOrphans
  <2>3. CASE \E u \in Tabs, d \in Slots : r = refresh[u][d] /\ ~Rotating(refresh'[u][d])
    BY <1>4, <2>1, <2>3 DEF HeldBySlots
  <2> QED
    BY <1>4, <2>2, <2>3
<1> QED
  BY <1>1, <1>2, <1>3, <1>4 DEF HeldByOrphans, Rotating

\* Refreshes and orphans alone: nothing to do.
LEMMA HeldSame ==
  ASSUME IInv, rotating' = rotating, refresh' = refresh, orphans' = orphans
  PROVE  Held'
BY HeldMoves

\* What is left of TypeOK.
CountsTyped ==
  /\ kind \in Kinds /\ banned \in BOOLEAN
  /\ lapses \in 0..MaxTroubles /\ faults \in 0..MaxFaults
  /\ disturbed \in BOOLEAN /\ aged \subseteq Tabs /\ turnedAway \subseteq Tabs

LEMMA Whole ==
  ASSUME RowsKept, PagesTyped', CountsTyped', Held'
  PROVE  IInv'
BY DEF RowsKept, CountsTyped, IInv, TypeOK

\* Bounded counts.
LEMMA Counts ==
  ASSUME IInv
  PROVE  /\ lapses \in Nat /\ faults \in Nat
         /\ Fault => faults + 1 \in 0..MaxFaults
         /\ lapses + faults < MaxTroubles => lapses + 1 \in 0..MaxTroubles
BY SessionAssumption DEF IInv, TypeOK, Fault

LEMMA Slot0 == 0 \notin Slots
BY SessionAssumption

\* A page that starts over.
LEMMA BlankPages ==
  ASSUME IInv, NEW t \in Tabs, NEW shows \in {"closed", "landing"}, Blank(t, shows),
         UNCHANGED server, stored' \in Issued \cup {0}
  PROVE  RowsKept /\ PagesTyped' /\ Held'
<1> USE DEF IInv, TypeOK, PagesTyped
<1>1. RowsKept /\ rotating' = rotating /\ Issued' = Issued
  BY SameRows
<1>2. Requests' = Requests /\ Gates' = Gates /\ Calls' = Calls
  BY <1>1 DEF Requests, Gates, Calls
<1>3. NoRefresh \in Requests /\ NoCall \in Calls /\ NoGate \in Gates /\ ~Rotating(NoRefresh)
  BY DEF NoRefresh, NoCall, NoGate, Requests, Calls, Gates, Rotating
<1>4. AtServerStill \subseteq Requests
  BY DEF AtServerStill
<1>5. PagesTyped'
  BY <1>1, <1>2, <1>3, <1>4 DEF Blank
<1>6. Held'
  <2>1. refresh' = [refresh EXCEPT ![t] = [c \in Slots |-> NoRefresh]]
    BY DEF Blank
  <2>2. \A u \in Tabs, c \in Slots :
          refresh'[u][c] = IF u = t THEN NoRefresh ELSE refresh[u][c]
    BY <2>1
  <2>3. \A r \in orphans' : r \in orphans \/ \E c \in Slots : r = refresh[t][c]
    BY DEF Blank
  <2>4. \A r \in orphans' : \/ ~Rotating(r) \/ r \in orphans
                             \/ \E u \in Tabs, c \in Slots :
                                  r = refresh[u][c] /\ ~Rotating(refresh'[u][c])
    BY <1>3, <2>2, <2>3
  <2> QED
    BY <1>1, <1>3, <2>2, <2>4, HeldMoves
<1> QED
  BY <1>1, <1>5, <1>6

\* One slot changes.
LEMMA OneRefresh ==
  ASSUME IInv, RowsKept, NEW t \in Tabs, NEW c \in Slots, NEW x \in Requests',
         refresh' = [refresh EXCEPT ![t][c] = x]
  PROVE  /\ refresh' \in [Tabs -> [Slots -> Requests']]
         /\ \A u \in Tabs, d \in Slots :
              refresh'[u][d] = IF u = t /\ d = c THEN x ELSE refresh[u][d]
<1>1. Requests \subseteq Requests'
  BY Grown
<1>2. refresh \in [Tabs -> [Slots -> Requests']]
  BY <1>1 DEF IInv, TypeOK, PagesTyped
<1> QED
  BY <1>2

LEMMA OneCall ==
  ASSUME IInv, NEW t \in Tabs, NEW c \in Slots, NEW x \in Calls,
         call' = [call EXCEPT ![t][c] = x]
  PROVE  call' \in [Tabs -> [Slots -> Calls]]
BY DEF IInv, TypeOK, PagesTyped

\* A step that sets one slot to a record that is no rotation, and may leave the old one
\* to the server.
LEMMA OneRefreshHeld ==
  ASSUME IInv, RowsKept, rotating' = rotating,
         NEW t \in Tabs, NEW c \in Slots, NEW x \in Requests', ~Rotating(x),
         refresh' = [refresh EXCEPT ![t][c] = x],
         \/ orphans' = orphans
         \/ orphans' = orphans \cup ({refresh[t][c]} \cap AtServerStill)
  PROVE  /\ refresh' \in [Tabs -> [Slots -> Requests']]
         /\ orphans' \subseteq Requests' /\ Held'
<1>1. /\ refresh' \in [Tabs -> [Slots -> Requests']]
      /\ \A u \in Tabs, d \in Slots :
           refresh'[u][d] = IF u = t /\ d = c THEN x ELSE refresh[u][d]
  BY OneRefresh
<1>2. Requests \subseteq Requests'
  BY Grown
<1>3. orphans' \subseteq Requests'
  BY <1>2 DEF AtServerStill, IInv, TypeOK, PagesTyped
<1>4. \A r \in orphans' : r \in orphans \/ r = refresh[t][c]
  OBVIOUS
<1>5. \A r \in orphans' : \/ ~Rotating(r) \/ r \in orphans
                           \/ \E u \in Tabs, d \in Slots :
                                r = refresh[u][d] /\ ~Rotating(refresh'[u][d])
  BY <1>1, <1>4
<1>6. Held'
  BY <1>1, <1>5, HeldMoves
<1> QED
  BY <1>1, <1>3, <1>6

LEMMA NoRefreshTyped ==
  ASSUME RowsKept
  PROVE  NoRefresh \in Requests' /\ ~Rotating(NoRefresh)
BY DEF NoRefresh, Requests, Rotating

\* The refresh a request starts, or joins.
LEMMA FirstRefreshTyped ==
  ASSUME IInv
  PROVE  FirstRefresh \in Requests /\ ~Rotating(FirstRefresh)
BY DEF FirstRefresh, Asking, LoggingIn, Requests, AtWork, Rotating, IInv, TypeOK, PagesTyped

LEMMA AuthorizePages ==
  ASSUME IInv, NEW t \in Tabs, NEW c \in Slots, NEW waiting \in {"waiting", "rewaiting"},
         Authorize(t, c, waiting), UNCHANGED <<server, stored, page, access, gate, fallback, orphans>>
  PROVE  RowsKept /\ PagesTyped' /\ Held'
<1> DEFINE lead == IF inflight[t] # 0 THEN inflight[t] ELSE c
<1>1. RowsKept /\ rotating' = rotating /\ Issued' = Issued
  BY SameRows
<1>2. lead \in Slots
  BY DEF IInv, TypeOK, PagesTyped
<1>3. inflight' = [inflight EXCEPT ![t] = lead]
      /\ call' = [call EXCEPT ![t][c] = [st |-> waiting, lead |-> lead, ok |-> FALSE]]
  BY DEF Authorize
<1>4. inflight' \in [Tabs -> Slots \cup {0}]
  BY <1>2, <1>3 DEF IInv, TypeOK, PagesTyped
<1>5. [st |-> waiting, lead |-> lead, ok |-> FALSE] \in Calls
  BY <1>2 DEF Calls
<1>6. call' \in [Tabs -> [Slots -> Calls']]
  BY <1>3, <1>5, OneCall DEF Calls
<1>7. refresh' \in [Tabs -> [Slots -> Requests']] /\ Held'
  <2>1. CASE refresh' = refresh
    BY <1>1, <2>1, PagesKept, HeldSame
  <2>2. CASE refresh' = [refresh EXCEPT ![t][c] = FirstRefresh]
    <3>1. FirstRefresh \in Requests' /\ ~Rotating(FirstRefresh)
      BY <1>1, FirstRefreshTyped, Grown
    <3> QED
      BY <1>1, <2>2, <3>1, OneRefreshHeld
  <2> QED
    BY <2>1, <2>2 DEF Authorize
<1> QED
  BY <1>1, <1>4, <1>6, <1>7, PagesKept DEF PagesTyped

\* The refresh of a slot is over, well or badly.
LEMMA ProceedPages ==
  ASSUME IInv, NEW t \in Tabs, NEW c \in Slots, Proceed(t, c), UNCHANGED server,
         stored' \in Issued \cup {0},
         access' \in [Tabs -> {"none", "good", "old", "refused"}]
  PROVE  RowsKept /\ PagesTyped' /\ Held'
<1>1. RowsKept /\ rotating' = rotating /\ Issued' = Issued
  BY SameRows
<1>2. refresh' \in [Tabs -> [Slots -> Requests']] /\ Held'
  BY <1>1, NoRefreshTyped, OneRefreshHeld DEF Proceed
<1>3. inflight' \in [Tabs -> Slots \cup {0}]
  BY DEF Proceed, IInv, TypeOK, PagesTyped
<1>4. call' \in [Tabs -> [Slots -> Calls']]
  <2>1. \A d \in Slots :
          (IF d \in Joined(t, c)
           THEN [st |-> IF call[t][d].st = "waiting" THEN "sent" ELSE "resent", lead |-> 0, ok |-> TRUE]
           ELSE call[t][d]) \in Calls
    BY DEF Calls, IInv, TypeOK, PagesTyped
  <2> QED
    BY <2>1 DEF Proceed, Calls, IInv, TypeOK, PagesTyped
<1> QED
  BY <1>1, <1>2, <1>3, <1>4, PagesKept DEF PagesTyped, Proceed

LEMMA RejectPages ==
  ASSUME IInv, NEW t \in Tabs, NEW c \in Slots, NEW why, NEW clears \in BOOLEAN,
         Reject(t, c, why, clears), UNCHANGED server
  PROVE  RowsKept /\ PagesTyped' /\ Held' /\ turnedAway' \subseteq Tabs
<1>0. turnedAway' \subseteq Tabs
  BY DEF Reject, IInv, TypeOK
<1>1. RowsKept /\ rotating' = rotating /\ Issued' = Issued
  BY SameRows
<1>2. CASE WebSignOut(t)
  BY <1>0, <1>2, BlankPages DEF WebSignOut
<1>3. CASE ~WebSignOut(t)
  <2>1. /\ inflight' = [inflight EXCEPT ![t] = 0]
        /\ refresh' = [refresh EXCEPT ![t][c] = NoRefresh]
        /\ call' = [call EXCEPT ![t] = [d \in Slots |->
             IF d \in Joined(t, c) THEN NoCall ELSE call[t][d]]]
        /\ stored' = IF clears THEN 0 ELSE stored
        /\ access' = IF clears THEN [access EXCEPT ![t] = "none"] ELSE access
        /\ orphans' = orphans \cup ({refresh[t][c]} \cap AtServerStill)
        /\ UNCHANGED <<page, gate, fallback>>
    BY <1>3 DEF Reject
  <2>2. /\ refresh' \in [Tabs -> [Slots -> Requests']]
        /\ orphans' \subseteq Requests' /\ Held'
    BY <1>1, <2>1, NoRefreshTyped, OneRefreshHeld
  <2>3. /\ inflight' \in [Tabs -> Slots \cup {0}]
        /\ stored' \in Issued' \cup {0}
        /\ access' \in [Tabs -> {"none", "good", "old", "refused"}]
    BY <1>1, <2>1 DEF IInv, TypeOK, PagesTyped
  <2>4. call' \in [Tabs -> [Slots -> Calls']]
    BY <2>1 DEF NoCall, Calls, IInv, TypeOK, PagesTyped
  <2> QED
    BY <1>0, <1>1, <2>1, <2>2, <2>3, <2>4, PagesKept DEF PagesTyped
<1> QED
  BY <1>2, <1>3

------------------------------------------------------------------------------
\* One lemma for each action.

LEMMA InitIInv == Init => IInv
<1> SUFFICES ASSUME Init PROVE IInv
  OBVIOUS
<1>1. /\ family \in Seq({1}) /\ Len(family) = 1 /\ Issued = {1}
  BY DEF Init, Issued
<1>2. ServerTyped
  BY <1>1 DEF Init, ServerTyped
<1>3. PagesTyped
  BY <1>1 DEF Init, PagesTyped, NoRefresh, NoCall, NoGate, Requests, Calls, Gates
<1>4. TypeOK
  <2>1. lapses \in 0..MaxTroubles /\ faults \in 0..MaxFaults
    BY SessionAssumption DEF Init
  <2>2. /\ kind \in Kinds /\ banned \in BOOLEAN
        /\ disturbed \in BOOLEAN /\ reused \in BOOLEAN
        /\ aged \subseteq Tabs /\ turnedAway \subseteq Tabs
    BY DEF Init
  <2> QED
    BY <1>2, <1>3, <2>1, <2>2 DEF TypeOK
<1>5. HeldIsFresh /\ Held
  BY DEF Init, HeldIsFresh, Held, HeldBySlots, HeldByOrphans, Rotating, NoRefresh
<1>6. OneFreshPerFamily
  BY <1>1 DEF OneFreshPerFamily
<1> QED
  BY <1>4, <1>5, <1>6 DEF IInv

LEMMA OpenIInv ==
  ASSUME IInv, NEW t \in Tabs, Open(t)
  PROVE  IInv'
<1>1. RowsKept /\ rotating' = rotating
  BY SameRows DEF Open
<1>2. page' \in [Tabs -> {"closed", "app", "landing"}]
  BY DEF Open, IInv, TypeOK, PagesTyped
<1>3. gate' \in [Tabs -> Gates']
  <2>1. gate' \in [Tabs -> Gates]
    BY DEF Open, Gates, IInv, TypeOK, PagesTyped
  <2> QED
    BY <1>1, <2>1, Grown
<1>4. PagesTyped' /\ Held'
  BY <1>1, <1>2, <1>3, PagesKept, HeldSame DEF Open, PagesTyped
<1>5. CountsTyped'
  BY DEF Open, IInv, TypeOK, CountsTyped
<1> QED
  BY <1>1, <1>4, <1>5, Whole

LEMMA LeaveIInv ==
  ASSUME IInv, NEW t \in Tabs, Leave(t)
  PROVE  IInv'
<1>1. stored' \in Issued \cup {0}
  BY DEF Leave, IInv, TypeOK, PagesTyped
<1>2. RowsKept /\ PagesTyped' /\ Held'
  BY <1>1, BlankPages DEF Leave
<1>3. CountsTyped'
  BY Counts DEF Leave, IInv, TypeOK, CountsTyped
<1> QED
  BY <1>2, <1>3, Whole

LEMMA RequestIInv ==
  ASSUME IInv, NEW t \in Tabs, NEW c \in Slots, Request(t, c)
  PROVE  IInv'
<1>1. RowsKept /\ rotating' = rotating /\ Issued' = Issued
  BY SameRows DEF Request
<1>2. CountsTyped'
  BY DEF Request, IInv, TypeOK, CountsTyped
<1>3. CASE /\ call' = [call EXCEPT ![t][c] = [st |-> "sent", lead |-> 0, ok |-> access[t] = "good"]]
           /\ UNCHANGED <<inflight, refresh>>
  <2>1. [st |-> "sent", lead |-> 0, ok |-> access[t] = "good"] \in Calls
    BY DEF Calls
  <2>2. call' \in [Tabs -> [Slots -> Calls']]
    BY <1>3, <2>1, OneCall DEF Calls
  <2>3. PagesTyped' /\ Held'
    BY <1>1, <1>3, <2>2, PagesKept, HeldSame DEF Request, PagesTyped
  <2> QED
    BY <1>1, <1>2, <2>3, Whole
<1>4. CASE Authorize(t, c, "waiting")
  BY <1>2, <1>4, AuthorizePages, Whole DEF Request
<1>5. CASE UNCHANGED <<call, inflight, refresh>>
  <2>1. PagesTyped' /\ Held'
    BY <1>1, <1>5, PagesKept, HeldSame DEF Request, PagesTyped
  <2> QED
    BY <1>1, <1>2, <2>1, Whole
<1> QED
  BY <1>3, <1>4, <1>5 DEF Request

LEMMA RefreshServedIInv ==
  ASSUME IInv, NEW t \in Tabs, NEW c \in Slots, RefreshServed(t, c)
  PROVE  IInv'
<1> DEFINE r == refresh[t][c]
<1>0. r \in Requests /\ refresh \in [Tabs -> [Slots -> Requests]]
  BY DEF IInv, TypeOK, PagesTyped
<1>1. CountsTyped'
  BY DEF RefreshServed, IInv, TypeOK, CountsTyped
<1>2. CASE HandleRefresh(r) /\ refresh' = [refresh EXCEPT ![t][c] = ServedTo(@)]
  <2>0. Rotating(r) => r.tok \in rotating
    BY DEF IInv, Held, HeldBySlots
  <2>1. /\ RowsKept /\ ServedTo(r) \in Requests'
        /\ rotating' = IF Rotating(ServedTo(r)) THEN rotating \cup {r.tok}
                       ELSE IF Rotating(r) THEN rotating \ {r.tok} ELSE rotating
        /\ Rotating(ServedTo(r)) => r.tok \notin rotating /\ ServedTo(r).tok = r.tok
    BY <1>0, <1>2, <2>0, RefreshRows
  <2>2. refresh' = [refresh EXCEPT ![t][c] = ServedTo(r)]
    BY <1>0, <1>2
  <2>3. /\ refresh' \in [Tabs -> [Slots -> Requests']]
        /\ \A u \in Tabs, d \in Slots :
             refresh'[u][d] = IF u = t /\ d = c THEN ServedTo(r) ELSE refresh[u][d]
    BY <2>1, <2>2, OneRefresh
  <2>4. PagesTyped'
    BY <2>1, <2>3, PagesKept DEF RefreshServed, PagesTyped
  <2> HIDE DEF r
  <2>5. ASSUME NEW u \in Tabs, NEW d \in Slots, Rotating(refresh'[u][d])
        PROVE  refresh'[u][d].tok \in rotating'
    <3>1. CASE u = t /\ d = c
      BY <2>1, <2>3, <2>5, <3>1
    <3>2. CASE ~(u = t /\ d = c)
      <4>1. refresh'[u][d] = refresh[u][d] /\ refresh[u][d].tok \in rotating
        BY <2>3, <2>5, <3>2 DEF IInv, Held, HeldBySlots
      <4>2. CASE Rotating(ServedTo(r))
        BY <2>1, <4>1, <4>2
      <4>3. CASE ~Rotating(ServedTo(r)) /\ Rotating(r)
        <5>1. refresh[u][d].tok # r.tok
          BY <2>5, <3>2, <4>1, <4>3 DEF IInv, Held, HeldBySlots, r
        <5> QED
          BY <2>1, <4>1, <4>3, <5>1
      <4>4. CASE ~Rotating(ServedTo(r)) /\ ~Rotating(r)
        BY <2>1, <4>1, <4>4
      <4> QED
        BY <4>2, <4>3, <4>4
    <3> QED
      BY <3>1, <3>2
  <2>6. ASSUME NEW u \in Tabs, NEW v \in Tabs, NEW d \in Slots, NEW e \in Slots,
               Rotating(refresh'[u][d]), Rotating(refresh'[v][e]),
               refresh'[u][d].tok = refresh'[v][e].tok
        PROVE  u = v /\ d = e
    <3>1. CASE ~(u = t /\ d = c) /\ ~(v = t /\ e = c)
      <4>1. refresh'[u][d] = refresh[u][d] /\ refresh'[v][e] = refresh[v][e]
        BY <2>3, <3>1
      <4> QED
        BY <2>6, <4>1 DEF IInv, Held, HeldBySlots
    <3>2. CASE u = t /\ d = c /\ ~(v = t /\ e = c)
      <4>1. /\ Rotating(ServedTo(r)) /\ refresh'[u][d].tok = r.tok
            /\ refresh'[v][e] = refresh[v][e]
        BY <2>1, <2>3, <2>6, <3>2
      <4>2. refresh[v][e].tok \in rotating
        BY <2>6, <4>1 DEF IInv, Held, HeldBySlots
      <4> QED
        BY <2>1, <2>6, <4>1, <4>2
    <3>3. CASE ~(u = t /\ d = c) /\ v = t /\ e = c
      <4>1. /\ Rotating(ServedTo(r)) /\ refresh'[v][e].tok = r.tok
            /\ refresh'[u][d] = refresh[u][d]
        BY <2>1, <2>3, <2>6, <3>3
      <4>2. refresh[u][d].tok \in rotating
        BY <2>6, <4>1 DEF IInv, Held, HeldBySlots
      <4> QED
        BY <2>1, <2>6, <4>1, <4>2
    <3> QED
      BY <3>1, <3>2, <3>3
  <2>7. HeldBySlots'
    BY <2>5, <2>6 DEF HeldBySlots, Rotating
  <2>8. HeldByOrphans'
    BY <2>0, <2>1, <2>3 DEF IInv, Held, HeldBySlots, HeldByOrphans, Rotating, r, RefreshServed
  <2> QED
    BY <1>1, <2>1, <2>4, <2>7, <2>8, Whole DEF Held
<1>3. CASE /\ HandleLogin(t \in aged)
           /\ refresh' = [refresh EXCEPT ![t][c] =
                [LoggingIn EXCEPT !.st = "logged", !.reply = LoginReply(t \in aged)]]
  <2> DEFINE new == LoginReply(t \in aged)
             x == [LoggingIn EXCEPT !.st = "logged", !.reply = new]
  <2>0. Login(new)
    BY <1>3 DEF HandleLogin, LoginReply, Login
  <2> HIDE DEF new
  <2>1. RowsKept /\ rotating' = rotating /\ new \in Issued' \cup {0}
    BY <2>0, LoginRows
  <2>2. x \in Requests' /\ ~Rotating(x)
    BY <2>1 DEF LoggingIn, Requests, Rotating
  <2>3. refresh' \in [Tabs -> [Slots -> Requests']] /\ Held'
    BY <1>3, <2>1, <2>2, OneRefreshHeld DEF RefreshServed, new
  <2>4. PagesTyped'
    BY <2>1, <2>3, PagesKept DEF RefreshServed, PagesTyped
  <2> QED
    BY <1>1, <2>1, <2>3, <2>4, Whole
<1> QED
  BY <1>2, <1>3 DEF RefreshServed

LEMMA RefreshAnsweredIInv ==
  ASSUME IInv, NEW t \in Tabs, NEW c \in Slots, RefreshAnswered(t, c)
  PROVE  IInv'
<1> DEFINE r == refresh[t][c]
<1>0. r \in Requests
  BY DEF IInv, TypeOK, PagesTyped
<1>1. RowsKept /\ rotating' = rotating /\ Issued' = Issued /\ UNCHANGED server
  BY SameRows DEF RefreshAnswered
<1>2. CASE Store(t, r.reply) /\ Proceed(t, c) /\ UNCHANGED turnedAway
  <2>1. /\ stored' \in Issued \cup {0}
        /\ access' \in [Tabs -> {"none", "good", "old", "refused"}]
    BY <1>0, <1>2 DEF Store, Requests, IInv, TypeOK, PagesTyped
  <2>2. PagesTyped' /\ Held'
    BY <1>1, <1>2, <2>1, ProceedPages
  <2>3. CountsTyped'
    BY <1>2 DEF RefreshAnswered, IInv, TypeOK, CountsTyped
  <2> QED
    BY <1>1, <2>2, <2>3, Whole
<1>3. CASE /\ stored' = 0 /\ access' = [access EXCEPT ![t] = "none"]
           /\ refresh' = [refresh EXCEPT ![t][c] = LoggingIn]
           /\ UNCHANGED <<page, inflight, call, gate, fallback, orphans, turnedAway>>
  <2>1. LoggingIn \in Requests' /\ ~Rotating(LoggingIn)
    BY DEF LoggingIn, Requests, Rotating
  <2>2. refresh' \in [Tabs -> [Slots -> Requests']] /\ Held'
    BY <1>1, <1>3, <2>1, OneRefreshHeld
  <2>3. access' \in [Tabs -> {"none", "good", "old", "refused"}]
    BY <1>3 DEF IInv, TypeOK, PagesTyped
  <2>4. PagesTyped'
    BY <1>1, <1>3, <2>2, <2>3, PagesKept DEF PagesTyped
  <2>5. CountsTyped'
    BY <1>3 DEF RefreshAnswered, IInv, TypeOK, CountsTyped
  <2> QED
    BY <1>1, <2>2, <2>4, <2>5, Whole
<1>4. ASSUME NEW clears \in BOOLEAN, Reject(t, c, "unauthorized", clears)
      PROVE  IInv'
  <2>1. RowsKept /\ PagesTyped' /\ Held' /\ turnedAway' \subseteq Tabs
    BY <1>1, <1>4, RejectPages
  <2>2. CountsTyped'
    BY <2>1 DEF RefreshAnswered, IInv, TypeOK, CountsTyped
  <2> QED
    BY <2>1, <2>2, Whole
<1> QED
  BY <1>2, <1>3, <1>4 DEF RefreshAnswered

LEMMA RefreshThrottledIInv ==
  ASSUME IInv, NEW t \in Tabs, NEW c \in Slots, RefreshThrottled(t, c)
  PROVE  IInv'
<1> DEFINE x == [refresh[t][c] EXCEPT !.st = IF @ = "asking" THEN "served" ELSE "logged"]
<1>1. RowsKept /\ rotating' = rotating /\ Issued' = Issued
  BY SameRows DEF RefreshThrottled
<1>2. x \in Requests' /\ ~Rotating(x)
  <2>1. refresh[t][c] \in Requests' /\ refresh[t][c].st \in {"asking", "logging"}
    BY <1>1, Grown DEF RefreshThrottled, IInv, TypeOK, PagesTyped
  <2> QED
    BY <2>1 DEF Requests, Rotating
<1>3. refresh' = [refresh EXCEPT ![t][c] = x]
  BY DEF RefreshThrottled, IInv, TypeOK, PagesTyped
<1>4. refresh' \in [Tabs -> [Slots -> Requests']] /\ Held'
  BY <1>1, <1>2, <1>3, OneRefreshHeld DEF RefreshThrottled
<1>5. PagesTyped'
  BY <1>1, <1>4, PagesKept DEF RefreshThrottled, PagesTyped
<1>6. CountsTyped'
  BY Counts DEF RefreshThrottled, IInv, TypeOK, CountsTyped
<1> QED
  BY <1>1, <1>4, <1>5, <1>6, Whole

LEMMA RefreshLostIInv ==
  ASSUME IInv, NEW t \in Tabs, NEW c \in Slots, RefreshLost(t, c)
  PROVE  IInv'
<1> DEFINE r == refresh[t][c]
<1>1. RowsKept /\ rotating' = rotating /\ Issued' = Issued /\ UNCHANGED server
  BY SameRows DEF RefreshLost
<1>2. CASE Reject(t, c, "network", FALSE)
  <2>1. RowsKept /\ PagesTyped' /\ Held' /\ turnedAway' \subseteq Tabs
    BY <1>1, <1>2, RejectPages
  <2>2. CountsTyped'
    BY <2>1, Counts DEF RefreshLost, IInv, TypeOK, CountsTyped
  <2> QED
    BY <2>1, <2>2, Whole
<1>3. CASE /\ fallback' = fallback \cup {t}
           /\ refresh' = [refresh EXCEPT ![t][c] = Asking(r.tok)]
           /\ orphans' = orphans \cup ({r} \cap AtServerStill)
           /\ UNCHANGED <<stored, page, access, inflight, call, gate, turnedAway>>
  <2>1. Asking(r.tok) \in Requests' /\ ~Rotating(Asking(r.tok))
    <3>1. r \in Requests'
      BY <1>1, Grown DEF IInv, TypeOK, PagesTyped
    <3> QED
      BY <3>1 DEF Asking, Requests, AtWork, Rotating
  <2>2. /\ refresh' \in [Tabs -> [Slots -> Requests']]
        /\ orphans' \subseteq Requests' /\ Held'
    BY <1>1, <1>3, <2>1, OneRefreshHeld
  <2>3. fallback' \subseteq Tabs
    BY <1>3 DEF IInv, TypeOK, PagesTyped
  <2>4. PagesTyped'
    BY <1>1, <1>3, <2>2, <2>3, PagesKept DEF PagesTyped
  <2>5. CountsTyped'
    BY <1>3, Counts DEF RefreshLost, IInv, TypeOK, CountsTyped
  <2> QED
    BY <1>1, <2>2, <2>4, <2>5, Whole
<1> QED
  BY <1>2, <1>3 DEF RefreshLost

LEMMA OrphanServedIInv ==
  ASSUME IInv, NEW r \in orphans, OrphanServed(r)
  PROVE  IInv'
<1>0. r \in Requests /\ (Rotating(r) => r.tok \in rotating)
  BY DEF IInv, TypeOK, PagesTyped, Held, HeldByOrphans
<1>1. /\ RowsKept /\ ServedTo(r) \in Requests'
      /\ rotating' = IF Rotating(ServedTo(r)) THEN rotating \cup {r.tok}
                     ELSE IF Rotating(r) THEN rotating \ {r.tok} ELSE rotating
      /\ Rotating(ServedTo(r)) => r.tok \notin rotating /\ ServedTo(r).tok = r.tok
  BY <1>0, RefreshRows DEF OrphanServed
<1>2. orphans' = (orphans \ {r}) \cup ({ServedTo(r)} \cap AtServerStill) /\ refresh' = refresh
  BY DEF OrphanServed
<1>3. orphans' \subseteq Requests'
  BY <1>1, <1>2, Grown DEF IInv, TypeOK, PagesTyped
<1>4. PagesTyped'
  BY <1>1, <1>3, PagesKept DEF OrphanServed, PagesTyped
<1>5. \A q \in orphans' : q = ServedTo(r) \/ (q \in orphans /\ q # r)
  BY <1>2
<1>6. HeldBySlots'
  BY <1>0, <1>1, <1>2 DEF IInv, Held, HeldBySlots, HeldByOrphans, Rotating
<1>7. HeldByOrphans'
  BY <1>0, <1>1, <1>2, <1>5 DEF IInv, Held, HeldBySlots, HeldByOrphans, Rotating
<1>8. CountsTyped'
  BY DEF OrphanServed, IInv, TypeOK, CountsTyped
<1> QED
  BY <1>1, <1>4, <1>6, <1>7, <1>8, Whole DEF Held

\* The end of a request, however it ends.
LEMMA FinishPages ==
  ASSUME IInv, NEW t \in Tabs, NEW c \in Slots, NEW how, Finish(t, c, how),
         UNCHANGED <<server, stored, page, access, inflight, refresh, gate, fallback, orphans>>
  PROVE  RowsKept /\ PagesTyped' /\ Held' /\ turnedAway' \subseteq Tabs
<1>1. RowsKept /\ rotating' = rotating
  BY SameRows
<1>2. NoCall \in Calls
  BY DEF NoCall, Calls
<1>3. call' \in [Tabs -> [Slots -> Calls']]
  BY <1>2, OneCall DEF Finish, Calls
<1>4. turnedAway' \subseteq Tabs
  BY DEF Finish, IInv, TypeOK
<1> QED
  BY <1>1, <1>3, <1>4, PagesKept, HeldSame DEF PagesTyped

LEMMA SignOutPages ==
  ASSUME IInv, NEW t \in Tabs, WebSignOut(t), UNCHANGED server
  PROVE  RowsKept /\ PagesTyped' /\ Held'
BY BlankPages DEF WebSignOut

LEMMA AnsweringIInv ==
  ASSUME IInv, NEW t \in Tabs, NEW c \in Slots, Answering(t, c)
  PROVE  IInv'
<1> USE DEF CountsTyped, IInv, TypeOK
<1>1. CASE Answered(t, c)
  BY <1>1, FinishPages, Whole DEF Answered
<1>2. CASE Unauthorized(t, c)
  <2>1. RowsKept /\ PagesTyped' /\ Held' /\ turnedAway' \subseteq Tabs
    <3>1. CASE Authorize(t, c, "rewaiting") /\ UNCHANGED <<stored, page, access, gate, fallback,
                                                          orphans, turnedAway>>
      BY <1>2, <3>1, AuthorizePages DEF Unauthorized
    <3>2. CASE turnedAway' = turnedAway \cup {t} /\ WebSignOut(t)
      BY <1>2, <3>2, SignOutPages DEF Unauthorized
    <3>3. CASE Finish(t, c, "unauthorized") /\ UNCHANGED <<stored, page, access, inflight, refresh,
                                                          gate, fallback, orphans>>
      BY <1>2, <3>3, FinishPages DEF Unauthorized
    <3> QED
      BY <1>2, <3>1, <3>2, <3>3 DEF Unauthorized
  <2> QED
    BY <1>2, <2>1, Whole DEF Unauthorized
<1>3. CASE Forbidden(t, c)
  <2>1. RowsKept /\ PagesTyped' /\ Held' /\ turnedAway' \subseteq Tabs
    <3>1. CASE WebSignOut(t) /\ UNCHANGED turnedAway
      BY <1>3, <3>1, SignOutPages DEF Forbidden
    <3>2. CASE Finish(t, c, "forbidden") /\ UNCHANGED <<stored, page, access, inflight, refresh,
                                                       gate, fallback, orphans>>
      BY <1>3, <3>2, FinishPages DEF Forbidden
    <3> QED
      BY <1>3, <3>1, <3>2 DEF Forbidden
  <2> QED
    BY <1>3, <2>1, Whole DEF Forbidden
<1>4. CASE RequestLost(t, c)
  <2>1. faults' \in 0..MaxFaults
    BY <1>4, Counts DEF RequestLost
  <2> QED
    BY <1>4, <2>1, FinishPages, Whole DEF RequestLost
<1> QED
  BY <1>1, <1>2, <1>3, <1>4 DEF Answering

LEMMA GateIInv ==
  ASSUME IInv, NEW t \in Tabs, GateServed(t) \/ GateAnswered(t)
  PROVE  IInv'
<1>1. CountsTyped'
  BY DEF GateServed, GateAnswered, IInv, TypeOK, CountsTyped
<1>2. CASE GateServed(t)
  <2> DEFINE new == LoginReply(t \in aged)
  <2>0. /\ Login(new) /\ gate' = [gate EXCEPT ![t] = [st |-> "logged", reply |-> new]]
    BY <1>2 DEF GateServed, HandleLogin, LoginReply, Login
  <2> HIDE DEF new
  <2>1. RowsKept /\ rotating' = rotating /\ new \in Issued' \cup {0}
    BY <2>0, LoginRows
  <2>2. [st |-> "logged", reply |-> new] \in Gates'
    BY <2>1 DEF Gates
  <2>3. gate' \in [Tabs -> Gates']
    BY <2>0, <2>1, <2>2, Grown DEF IInv, TypeOK, PagesTyped
  <2> QED
    BY <1>1, <1>2, <2>1, <2>3, PagesKept, HeldSame, Whole DEF GateServed, PagesTyped
<1>3. CASE GateAnswered(t)
  <2>1. RowsKept /\ rotating' = rotating /\ Issued' = Issued
    BY <1>3, SameRows DEF GateAnswered
  <2>2. gate' \in [Tabs -> Gates']
    <3>1. NoGate \in Gates'
      BY DEF NoGate, Gates
    <3> QED
      BY <1>3, <2>1, <3>1, Grown DEF GateAnswered, IInv, TypeOK, PagesTyped
  <2>3. gate[t].reply \in Issued \cup {0}
    BY DEF Gates, IInv, TypeOK, PagesTyped
  <2>4. /\ stored' \in Issued' \cup {0}
        /\ access' \in [Tabs -> {"none", "good", "old", "refused"}]
    BY <1>3, <2>1, <2>3 DEF GateAnswered, Store, IInv, TypeOK, PagesTyped
  <2> QED
    BY <1>1, <1>3, <2>1, <2>2, <2>4, PagesKept, HeldSame, Whole DEF GateAnswered, PagesTyped
<1> QED
  BY <1>2, <1>3

LEMMA LoginWithWidgetIInv ==
  ASSUME IInv, NEW t \in Tabs, LoginWithWidget(t)
  PROVE  IInv'
<1>0. Login(LoginReply(FALSE))
  BY DEF LoginWithWidget, HandleLogin, LoginReply, Login
<1>1. RowsKept /\ rotating' = rotating /\ LoginReply(FALSE) \in Issued' \cup {0}
  BY <1>0, LoginRows
<1>2. /\ stored' \in Issued' \cup {0}
      /\ access' \in [Tabs -> {"none", "good", "old", "refused"}]
      /\ page' \in [Tabs -> {"closed", "app", "landing"}]
  BY <1>1 DEF LoginWithWidget, Store, IInv, TypeOK, PagesTyped
<1>3. CountsTyped'
  BY Counts DEF LoginWithWidget, IInv, TypeOK, CountsTyped
<1> QED
  BY <1>1, <1>2, <1>3, PagesKept, HeldSame, Whole DEF LoginWithWidget, PagesTyped

LEMMA LapseIInv ==
  ASSUME IInv, NEW t \in Tabs, Lapse(t)
  PROVE  IInv'
<1>1. RowsKept /\ rotating' = rotating
  BY SameRows DEF Lapse
<1>2. access' \in [Tabs -> {"none", "good", "old", "refused"}]
  BY DEF Lapse, IInv, TypeOK, PagesTyped
<1>3. CountsTyped'
  BY Counts DEF Lapse, IInv, TypeOK, CountsTyped
<1> QED
  BY <1>1, <1>2, <1>3, PagesKept, HeldSame, Whole DEF Lapse, PagesTyped

LEMMA AgeIInv ==
  ASSUME IInv, NEW t \in Tabs, Age(t)
  PROVE  IInv'
<1>1. RowsKept /\ rotating' = rotating
  BY SameRows DEF Age
<1>2. CountsTyped'
  BY Counts DEF Age, IInv, TypeOK, CountsTyped
<1> QED
  BY <1>1, <1>2, PagesKept, HeldSame, Whole DEF Age, PagesTyped

LEMMA BanIInv ==
  ASSUME IInv, Ban
  PROVE  IInv'
<1>1. RowsKept /\ rotating' = rotating
  BY SameRows DEF Ban
<1>2. CountsTyped'
  BY Counts DEF Ban, IInv, TypeOK, CountsTyped
<1> QED
  BY <1>1, <1>2, PagesKept, HeldSame, Whole DEF Ban, PagesTyped

LEMMA IdleIInv ==
  ASSUME IInv, UNCHANGED vars
  PROVE  IInv'
<1>1. RowsKept /\ rotating' = rotating
  BY SameRows DEF vars, server
<1>2. CountsTyped'
  BY DEF vars, IInv, TypeOK, CountsTyped
<1> QED
  BY <1>1, <1>2, PagesKept, HeldSame, Whole DEF vars, PagesTyped

LEMMA NextIInv ==
  ASSUME IInv, [Next]_vars
  PROVE  IInv'
<1>1. ASSUME NEW t \in Tabs, TabStep(t)
      PROVE  IInv'
  <2>1. ASSUME NEW c \in Slots, Request(t, c) \/ Refreshing(t, c) \/ Answering(t, c)
        PROVE  IInv'
    BY <2>1, RequestIInv, RefreshServedIInv, RefreshAnsweredIInv, RefreshLostIInv,
       RefreshThrottledIInv, AnsweringIInv DEF Refreshing
  <2> QED
    BY <1>1, <2>1, OpenIInv, LeaveIInv, LapseIInv, AgeIInv, LoginWithWidgetIInv, GateIInv
       DEF TabStep
<1> QED
  BY <1>1, OrphanServedIInv, BanIInv, IdleIInv DEF Next

\* What the rotation keeps at every step: rows and pages are typed, a token under rotation is
\* held by one request and is neither consumed nor revoked, one fresh token a family.
THEOREM Inductive == Spec => []IInv
BY InitIInv, NextIInv, PTL DEF Spec

\* Every reachable state is well typed.
THEOREM TypeCorrect == Spec => []TypeOK
<1>1. IInv => TypeOK
  BY DEF IInv
<1> QED
  BY <1>1, Inductive, PTL

\* Whatever the pages of a user do at once, at most one token of a family can be exchanged.
THEOREM OneUsable == Spec => []OneFreshPerFamily
<1>1. IInv => OneFreshPerFamily
  BY DEF IInv
<1> QED
  BY <1>1, Inductive, PTL

------------------------------------------------------------------------------
\* What a page of its own may rely on.  The rows alone do not say it: a page asks with the
\* token it read from localStorage, and stores an answer, later.  So the invariant follows
\* every token a request or the gate carries.

\* Single flight: the refresh under way in a page is that of inflightAuth.
OneFlight == \A t \in Tabs, c \in Slots : refresh[t][c].st # "idle" <=> inflight[t] = c

\* Only a page that shows the app has requests.
Shown == \A t \in Tabs : page[t] # "app" =>
  gate[t] = NoGate /\ inflight[t] = 0 /\ \A c \in Slots : call[t][c].st = "idle"

\* One page at most, and a refresh outlives its page only once the user is banned.
Alone ==
  /\ ~reused /\ revoked = {}
  /\ \A t, u \in Tabs : page[t] # "closed" /\ page[u] # "closed" => t = u
  /\ orphans # {} => banned /\ stored = 0 /\ \E t \in Tabs : page[t] = "landing"
  /\ \A r, q \in orphans : r = q

\* What a request exchanges or brings has not been exchanged, and what the gate
\* brings nobody else has.
Asks(r) == r.st \in {"asking", "rotating"}
Unused(r) ==
  /\ r.st # "revoking"
  /\ Asks(r) => r.tok \in Issued \ used
  /\ r.reply # 0 => r.st \in {"served", "logged"} /\ r.reply \notin used

Apart(k) == k # 0 =>
  /\ k \notin used \cup {stored}
  /\ \A t \in Tabs, c \in Slots : k # refresh[t][c].tok /\ k # refresh[t][c].reply

Carried ==
  /\ \A t \in Tabs, c \in Slots : Unused(refresh[t][c])
  /\ \A r \in orphans : Asks(r) /\ Unused(r)
  /\ \A t \in Tabs : Apart(gate[t].reply)

\* What is stored has not been exchanged, or the next token is on its way; but for a ban it
\* is never refused, so launch data is not asked for.
Exchanged(r) == r.st = "served" /\ r.reply # 0
Kept ==
  /\ stored \in used => \E t \in Tabs, c \in Slots : Exchanged(refresh[t][c])
  /\ ~banned => /\ stored # 0
                /\ \A t \in Tabs, c \in Slots :
                     /\ refresh[t][c].st \notin {"logging", "logged"}
                     /\ refresh[t][c].st = "served" => refresh[t][c].reply # 0

Quiet == ~disturbed => Alone /\ Carried /\ Kept

\* An initData login is refused to a banned user and to a page whose launch data is too old,
\* and a second try has a new token.
Telegram ==
  /\ \A t \in Tabs, c \in Slots : call[t][c].st = "resent" => call[t][c].ok
  /\ ~banned /\ faults = 0 => \A t \in Tabs, c \in Slots :
       refresh[t][c].st = "logged" => refresh[t][c].reply # 0 \/ t \in aged
  /\ TelegramAlwaysGetsIn

------------------------------------------------------------------------------
\* Single flight.

\* How the refreshes of the pages move.
Starts(t, c) ==
  /\ inflight[t] = 0
  /\ inflight' = [inflight EXCEPT ![t] = c]
  /\ refresh' = [refresh EXCEPT ![t][c] = FirstRefresh]
Goes(t, c) ==
  /\ refresh[t][c].st # "idle" /\ inflight' = inflight
  /\ \E x : x.st # "idle" /\ refresh' = [refresh EXCEPT ![t][c] = x]
Ends(t, c) ==
  /\ refresh[t][c].st # "idle"
  /\ inflight' = [inflight EXCEPT ![t] = 0]
  /\ refresh' = [refresh EXCEPT ![t][c] = NoRefresh]
Gone(t) ==
  /\ inflight' = [inflight EXCEPT ![t] = 0]
  /\ refresh' = [refresh EXCEPT ![t] = [c \in Slots |-> NoRefresh]]

Flies ==
  \/ UNCHANGED <<inflight, refresh>>
  \/ \E t \in Tabs : Gone(t)
  \/ \E t \in Tabs, c \in Slots : Starts(t, c) \/ Goes(t, c) \/ Ends(t, c)

\* However the refreshes move, there is one in a page, and inflightAuth names it.
LEMMA FliesOneFlight ==
  ASSUME IInv, OneFlight, Flies
  PROVE  OneFlight'
<1> USE DEF OneFlight
<1>t. inflight \in [Tabs -> Slots \cup {0}] /\ refresh \in [Tabs -> [Slots -> Requests]]
  BY DEF IInv, TypeOK, PagesTyped
<1>1. CASE UNCHANGED <<inflight, refresh>>
  BY <1>1
<1>2. ASSUME NEW t \in Tabs, Gone(t) PROVE OneFlight'
  <2>1. \A u \in Tabs : inflight'[u] = IF u = t THEN 0 ELSE inflight[u]
    BY <1>2, <1>t DEF Gone
  <2>2. \A u \in Tabs, d \in Slots :
          refresh'[u][d] = IF u = t THEN NoRefresh ELSE refresh[u][d]
    BY <1>2, <1>t DEF Gone
  <2> QED
    BY <2>1, <2>2, Slot0 DEF NoRefresh
<1>3. ASSUME NEW t \in Tabs, NEW c \in Slots, Starts(t, c) PROVE OneFlight'
  <2>1. \A u \in Tabs, d \in Slots :
          refresh'[u][d] = IF u = t /\ d = c THEN FirstRefresh ELSE refresh[u][d]
    BY <1>3, <1>t DEF Starts
  <2>2. FirstRefresh.st # "idle"
    BY DEF FirstRefresh, Asking, LoggingIn
  <2>3. \A u \in Tabs : inflight'[u] = IF u = t THEN c ELSE inflight[u]
    BY <1>3, <1>t DEF Starts
  <2>4. \A d \in Slots : inflight[t] # d
    BY <1>3, Slot0 DEF Starts
  <2> QED
    BY <2>1, <2>2, <2>3, <2>4
<1>4. ASSUME NEW t \in Tabs, NEW c \in Slots, Goes(t, c) PROVE OneFlight'
  <2>1. PICK x : x.st # "idle" /\ refresh' = [refresh EXCEPT ![t][c] = x]
    BY <1>4 DEF Goes
  <2>2. \A u \in Tabs, d \in Slots :
          refresh'[u][d] = IF u = t /\ d = c THEN x ELSE refresh[u][d]
    BY <2>1, <1>t
  <2> QED
    BY <1>4, <2>1, <2>2 DEF Goes
<1>5. ASSUME NEW t \in Tabs, NEW c \in Slots, Ends(t, c) PROVE OneFlight'
  <2>1. \A u \in Tabs, d \in Slots :
          refresh'[u][d] = IF u = t /\ d = c THEN NoRefresh ELSE refresh[u][d]
    BY <1>5, <1>t DEF Ends
  <2>2. inflight[t] = c /\ NoRefresh.st = "idle"
    BY <1>5 DEF Ends, NoRefresh
  <2>3. \A u \in Tabs : inflight'[u] = IF u = t THEN 0 ELSE inflight[u]
    BY <1>5, <1>t DEF Ends
  <2> QED
    BY <2>1, <2>2, <2>3, Slot0
<1> QED
  BY <1>1, <1>2, <1>3, <1>4, <1>5 DEF Flies

\* A request that needs a token joins the refresh under way or starts one.
LEMMA AuthorizeFlies ==
  ASSUME IInv, NEW t \in Tabs, NEW c \in Slots, NEW waiting, Authorize(t, c, waiting)
  PROVE  UNCHANGED <<inflight, refresh>> \/ Starts(t, c)
<1>1. inflight \in [Tabs -> Slots \cup {0}]
  BY DEF IInv, TypeOK, PagesTyped
<1>2. CASE inflight[t] # 0
  BY <1>1, <1>2 DEF Authorize
<1>3. CASE inflight[t] = 0
  <2>1. c # 0
    BY Slot0
  <2> QED
    BY <1>1, <1>3, <2>1 DEF Authorize, Starts
<1> QED
  BY <1>2, <1>3

\* A failed refresh ends, alone or with its page.
LEMMA RejectFlies ==
  ASSUME NEW t \in Tabs, NEW c \in Slots, NEW why, NEW clears, Reject(t, c, why, clears),
         refresh[t][c].st # "idle"
  PROVE  Gone(t) \/ Ends(t, c)
BY DEF Reject, WebSignOut, Blank, Gone, Ends

\* A refresh goes on or ends; it starts no other.
LEMMA RefreshingFlies ==
  ASSUME IInv, NEW t \in Tabs, NEW c \in Slots, Refreshing(t, c)
  PROVE  Flies
<1> DEFINE r == refresh[t][c]
<1>0. refresh \in [Tabs -> [Slots -> Requests]]
  BY DEF IInv, TypeOK, PagesTyped
<1>r. r = [st |-> r.st, tok |-> r.tok, reply |-> r.reply]
  BY <1>0 DEF Requests
<1> SUFFICES Gone(t) \/ Goes(t, c) \/ Ends(t, c)
  BY DEF Flies
<1>1. CASE RefreshServed(t, c)
  <2>1. CASE HandleRefresh(r) /\ refresh' = [refresh EXCEPT ![t][c] = ServedTo(@)]
    <3>1. r.st # "idle"
      BY <2>1 DEF HandleRefresh, AtServer
    <3>2. ServedTo(r).st # "idle"
      BY <1>r DEF ServedTo
    <3>3. refresh' = [refresh EXCEPT ![t][c] = ServedTo(r)]
      BY <2>1
    <3> QED
      BY <1>1, <3>1, <3>2, <3>3 DEF RefreshServed, Goes
  <2>2. CASE /\ r.st = "logging"
             /\ refresh' = [refresh EXCEPT ![t][c] =
                  [LoggingIn EXCEPT !.st = "logged", !.reply = LoginReply(t \in aged)]]
    <3>1. [LoggingIn EXCEPT !.st = "logged", !.reply = LoginReply(t \in aged)].st # "idle"
      BY DEF LoggingIn
    <3> QED
      BY <1>1, <2>2, <3>1 DEF RefreshServed, Goes
  <2> QED
    BY <1>1, <2>1, <2>2 DEF RefreshServed
<1>2. CASE RefreshAnswered(t, c)
  <2>0. r.st # "idle"
    BY <1>2 DEF RefreshAnswered
  <2>1. CASE Proceed(t, c)
    BY <2>0, <2>1 DEF Proceed, Ends
  <2>2. CASE refresh' = [refresh EXCEPT ![t][c] = LoggingIn] /\ inflight' = inflight
    BY <2>0, <2>2 DEF Goes, LoggingIn
  <2>3. CASE \E clears \in BOOLEAN : Reject(t, c, "unauthorized", clears)
    BY <2>0, <2>3, RejectFlies
  <2> QED
    BY <1>2, <2>1, <2>2, <2>3 DEF RefreshAnswered
<1>3. CASE RefreshLost(t, c)
  <2>0. r.st # "idle"
    BY <1>3 DEF RefreshLost
  <2>1. CASE Reject(t, c, "network", FALSE)
    BY <2>0, <2>1, RejectFlies
  <2>2. CASE refresh' = [refresh EXCEPT ![t][c] = Asking(r.tok)] /\ inflight' = inflight
    BY <2>0, <2>2 DEF Goes, Asking
  <2> QED
    BY <1>3, <2>1, <2>2 DEF RefreshLost
<1>4. CASE RefreshThrottled(t, c)
  <2> DEFINE x == [r EXCEPT !.st = IF @ = "asking" THEN "served" ELSE "logged"]
  <2>1. r.st # "idle" /\ x.st # "idle"
    BY <1>4, <1>r DEF RefreshThrottled
  <2>2. refresh' = [refresh EXCEPT ![t][c] = x]
    BY <1>0, <1>4 DEF RefreshThrottled
  <2> QED
    BY <1>4, <2>1, <2>2 DEF RefreshThrottled, Goes
<1> QED
  BY <1>1, <1>2, <1>3, <1>4 DEF Refreshing

\* Every step moves the refreshes in one of these ways.
LEMMA NextFlies ==
  ASSUME IInv, [Next]_vars
  PROVE  Flies
<1>1. ASSUME NEW t \in Tabs, TabStep(t) PROVE Flies
  <2>1. ASSUME NEW c \in Slots, Request(t, c) PROVE Flies
    BY <2>1, AuthorizeFlies DEF Request, Flies
  <2>2. ASSUME NEW c \in Slots, Answering(t, c) PROVE Flies
    <3>1. CASE Unauthorized(t, c)
      BY <3>1, AuthorizeFlies DEF Unauthorized, WebSignOut, Blank, Gone, Flies
    <3>2. CASE Forbidden(t, c)
      BY <3>2 DEF Forbidden, WebSignOut, Blank, Gone, Flies
    <3> QED
      BY <2>2, <3>1, <3>2 DEF Answering, Answered, RequestLost, Flies
  <2> QED
    BY <1>1, <2>1, <2>2, RefreshingFlies
       DEF TabStep, Open, Leave, Lapse, Age, LoginWithWidget, GateServed, GateAnswered, Blank,
           Gone, Flies
<1> QED
  BY <1>1 DEF Next, OrphanServed, Ban, vars, Flies

------------------------------------------------------------------------------
\* Only the app asks.

\* What a step of page t does to the pages.
OnlyTab(t) ==
  /\ \A u \in Tabs \ {t} : /\ page'[u] = page[u] /\ gate'[u] = gate[u]
                           /\ inflight'[u] = inflight[u] /\ call'[u] = call[u]
  /\ \/ page'[t] = "app"
     \/ gate'[t] = NoGate /\ inflight'[t] = 0 /\ \A c \in Slots : call'[t][c].st = "idle"

\* A step of one page leaves requests only where the app is shown.
LEMMA OnlyTabShown ==
  ASSUME Shown, NEW t \in Tabs, OnlyTab(t)
  PROVE  Shown'
BY DEF Shown, OnlyTab

\* A page with a request or a refresh shows the app.
LEMMA Asker ==
  ASSUME IInv, OneFlight, Shown, NEW t \in Tabs, NEW c \in Slots,
         refresh[t][c].st # "idle" \/ call[t][c].st # "idle"
  PROVE  page[t] = "app"
BY Slot0 DEF OneFlight, Shown

\* A page that starts over has no requests.
LEMMA BlankTab ==
  ASSUME IInv, NEW t \in Tabs, NEW shows, Blank(t, shows)
  PROVE  OnlyTab(t)
BY DEF Blank, OnlyTab, NoCall, IInv, TypeOK, PagesTyped

\* Who starts or joins a refresh shows the app.
LEMMA AuthorizeTab ==
  ASSUME IInv, NEW t \in Tabs, NEW c \in Slots, NEW waiting, Authorize(t, c, waiting),
         page[t] = "app", UNCHANGED <<page, gate>>
  PROVE  OnlyTab(t)
BY DEF Authorize, OnlyTab, IInv, TypeOK, PagesTyped

\* A failed refresh leaves the app as it is, or signs the page out.
LEMMA RejectTab ==
  ASSUME IInv, NEW t \in Tabs, NEW c \in Slots, NEW why, NEW clears, page[t] = "app",
         Reject(t, c, why, clears)
  PROVE  OnlyTab(t)
<1>1. CASE WebSignOut(t)
  BY <1>1, BlankTab DEF WebSignOut
<1>2. CASE ~WebSignOut(t)
  <2>1. /\ inflight' = [inflight EXCEPT ![t] = 0]
        /\ call' = [call EXCEPT ![t] = [d \in Slots |->
             IF d \in Joined(t, c) THEN NoCall ELSE call[t][d]]]
        /\ UNCHANGED <<page, gate>>
    BY <1>2 DEF Reject
  <2> QED
    BY <2>1 DEF OnlyTab, IInv, TypeOK, PagesTyped
<1> QED
  BY <1>1, <1>2

\* A page opens without requests.
LEMMA OpenTab ==
  ASSUME IInv, Shown, NEW t \in Tabs, Open(t)
  PROVE  OnlyTab(t)
<1>t. page \in [Tabs -> {"closed", "app", "landing"}] /\ gate \in [Tabs -> Gates]
  BY DEF IInv, TypeOK, PagesTyped
<1>1. CASE CanRefresh
  BY <1>1, <1>t DEF Open, OnlyTab
<1>2. CASE ~CanRefresh
  <2>1. kind # "mini"
    BY <1>2 DEF CanRefresh
  <2>2. gate[t] = NoGate /\ inflight[t] = 0 /\ \A c \in Slots : call[t][c].st = "idle"
    BY DEF Shown, Open
  <2>3. gate'[t] = NoGate
    BY <1>t, <2>1, <2>2 DEF Open, NoGate
  <2> QED
    BY <1>t, <2>2, <2>3 DEF Open, OnlyTab
<1> QED
  BY <1>1, <1>2

\* A refresh concerns its own page.
LEMMA RefreshingTab ==
  ASSUME IInv, OneFlight, Shown, NEW t \in Tabs, NEW c \in Slots, Refreshing(t, c)
  PROVE  OnlyTab(t)
<1>1. refresh[t][c].st # "idle"
  BY DEF Refreshing, RefreshServed, RefreshAnswered, RefreshLost, RefreshThrottled, HandleRefresh,
         AtServer
<1>2. page[t] = "app"
  BY <1>1, Asker
<1>3. CASE UNCHANGED <<page, gate, inflight, call>>
  BY <1>2, <1>3 DEF OnlyTab
<1>4. CASE Proceed(t, c)
  BY <1>2, <1>4 DEF Proceed, OnlyTab, IInv, TypeOK, PagesTyped
<1>5. CASE \E why \in {"unauthorized", "network"}, clears \in BOOLEAN : Reject(t, c, why, clears)
  BY <1>2, <1>5, RejectTab
<1> QED
  BY <1>3, <1>4, <1>5
     DEF Refreshing, RefreshServed, RefreshAnswered, RefreshLost, RefreshThrottled

\* So does the answer to a request.
LEMMA AnsweringTab ==
  ASSUME IInv, OneFlight, Shown, NEW t \in Tabs, NEW c \in Slots, Answering(t, c)
  PROVE  OnlyTab(t)
<1>1. call[t][c].st # "idle"
  BY DEF Answering, Answered, Unauthorized, Forbidden, RequestLost
<1>2. page[t] = "app"
  BY <1>1, Asker
<1>3. CASE /\ UNCHANGED <<page, gate, inflight>>
           /\ \E how \in {"ok", "unauthorized", "forbidden", "network"} : Finish(t, c, how)
  BY <1>2, <1>3 DEF Finish, OnlyTab, IInv, TypeOK, PagesTyped
<1>4. CASE Authorize(t, c, "rewaiting") /\ UNCHANGED <<page, gate>>
  BY <1>2, <1>4, AuthorizeTab
<1>5. CASE WebSignOut(t)
  BY <1>5, BlankTab DEF WebSignOut
<1> QED
  BY <1>3, <1>4, <1>5 DEF Answering, Answered, Unauthorized, Forbidden, RequestLost

\* Every step leaves requests only where the app is shown.
LEMMA NextShown ==
  ASSUME IInv, OneFlight, Shown, [Next]_vars
  PROVE  Shown'
<1>1. ASSUME NEW t \in Tabs, TabStep(t) PROVE Shown'
  <2>t. gate \in [Tabs -> Gates] /\ page \in [Tabs -> {"closed", "app", "landing"}]
    BY DEF IInv, TypeOK, PagesTyped
  <2>1. ASSUME NEW c \in Slots, Request(t, c) PROVE OnlyTab(t)
    <3>1. page[t] = "app" /\ UNCHANGED <<page, gate>>
      BY <2>1 DEF Request
    <3>2. CASE Authorize(t, c, "waiting")
      BY <3>1, <3>2, AuthorizeTab
    <3>3. CASE ~Authorize(t, c, "waiting")
      BY <2>1, <3>1, <3>3 DEF Request, OnlyTab, IInv, TypeOK, PagesTyped
    <3> QED
      BY <3>2, <3>3
  <2>2. CASE Leave(t)
    BY <2>2, BlankTab, OnlyTabShown DEF Leave
  <2>3. CASE Lapse(t) \/ Age(t)
    BY <2>3 DEF Lapse, Age, Shown
  <2>4. CASE LoginWithWidget(t)
    BY <2>4, <2>t, OnlyTabShown DEF LoginWithWidget, OnlyTab
  <2>5. CASE GateServed(t)
    <3>1. gate[t] # NoGate
      BY <2>5 DEF GateServed, NoGate
    <3>2. page[t] = "app"
      BY <3>1 DEF Shown
    <3> QED
      BY <2>5, <3>2, <2>t, OnlyTabShown DEF GateServed, OnlyTab
  <2>6. CASE GateAnswered(t)
    BY <2>6, <2>t, OnlyTabShown DEF GateAnswered, Shown, OnlyTab
  <2> QED
    BY <1>1, <2>1, <2>2, <2>3, <2>4, <2>5, <2>6, OpenTab, RefreshingTab, AnsweringTab,
       OnlyTabShown DEF TabStep
<1> QED
  BY <1>1 DEF Next, OrphanServed, Ban, vars, Shown

------------------------------------------------------------------------------
\* Inside Telegram.

\* No request is given up, and what the server has answered is no refusal, but to a page
\* whose launch data is too old.
GetsIn ==
  /\ \A u \in Tabs, d \in Slots :
       call'[u][d].st = "resent" => call'[u][d] = call[u][d] \/ call'[u][d].ok
  /\ \A u \in Tabs, d \in Slots :
       refresh'[u][d].st = "logged" =>
         \/ refresh'[u][d] = refresh[u][d] \/ refresh'[u][d].reply # 0
         \/ u \in aged \/ banned \/ faults' # 0
  /\ turnedAway' \subseteq turnedAway \cup aged \/ kind = "web" \/ banned \/ faults' # 0
  /\ aged \subseteq aged' \/ faults' # 0
  /\ kind' = kind /\ faults \in Nat /\ faults' \in Nat /\ faults <= faults' /\ (banned => banned')

\* So nobody is turned away inside Telegram.
LEMMA GetsInTelegram ==
  ASSUME Telegram, GetsIn
  PROVE  Telegram'
BY DEF Telegram, GetsIn, TelegramAlwaysGetsIn

\* After a good refresh a request goes out with a good token.
LEMMA ProceedCalls ==
  ASSUME IInv, NEW t \in Tabs, NEW c \in Slots, Proceed(t, c)
  PROVE  \A u \in Tabs, d \in Slots : call'[u][d] = call[u][d] \/ call'[u][d].ok
BY DEF Proceed, IInv, TypeOK, PagesTyped

\* A page that starts over forgets its requests.
LEMMA BlankCalls ==
  ASSUME IInv, NEW t \in Tabs, NEW shows, Blank(t, shows)
  PROVE  \A u \in Tabs, d \in Slots :
           /\ call'[u][d] = call[u][d] \/ call'[u][d].st = "idle"
           /\ refresh'[u][d] = refresh[u][d] \/ refresh'[u][d].st = "idle"
BY DEF Blank, NoCall, NoRefresh, IInv, TypeOK, PagesTyped

\* A failed refresh takes the requests that waited for it along.
LEMMA RejectCalls ==
  ASSUME IInv, NEW t \in Tabs, NEW c \in Slots, NEW why, NEW clears, Reject(t, c, why, clears)
  PROVE  /\ \A u \in Tabs, d \in Slots :
              /\ call'[u][d] = call[u][d] \/ call'[u][d].st = "idle"
              /\ refresh'[u][d] = refresh[u][d] \/ refresh'[u][d].st = "idle"
         /\ turnedAway' \subseteq turnedAway \cup {t}
<1>0. turnedAway' \subseteq turnedAway \cup {t}
  BY DEF Reject
<1>1. CASE WebSignOut(t)
  BY <1>0, <1>1, BlankCalls DEF WebSignOut
<1>2. CASE ~WebSignOut(t)
  <2>1. /\ refresh' = [refresh EXCEPT ![t][c] = NoRefresh]
        /\ call' = [call EXCEPT ![t] = [d \in Slots |->
             IF d \in Joined(t, c) THEN NoCall ELSE call[t][d]]]
    BY <1>2 DEF Reject
  <2> QED
    BY <1>0, <2>1 DEF NoCall, NoRefresh, IInv, TypeOK, PagesTyped
<1> QED
  BY <1>1, <1>2

\* A request that needs a token waits.
LEMMA AuthorizeCalls ==
  ASSUME IInv, NEW t \in Tabs, NEW c \in Slots, NEW waiting \in {"waiting", "rewaiting"},
         Authorize(t, c, waiting)
  PROVE  \A u \in Tabs, d \in Slots :
           /\ call'[u][d] = call[u][d] \/ call'[u][d].st = waiting
           /\ refresh'[u][d] = refresh[u][d] \/ refresh'[u][d].st \in {"asking", "logging"}
<1>1. FirstRefresh.st \in {"asking", "logging"}
  BY DEF FirstRefresh, Asking, LoggingIn
<1>2. refresh' = refresh \/ refresh' = [refresh EXCEPT ![t][c] = FirstRefresh]
  BY DEF Authorize
<1>3. \A u \in Tabs, d \in Slots :
        refresh'[u][d] = refresh[u][d] \/ refresh'[u][d] = FirstRefresh
  BY <1>2 DEF IInv, TypeOK, PagesTyped
<1>4. \A u \in Tabs, d \in Slots : call'[u][d] = call[u][d] \/ call'[u][d].st = waiting
  BY DEF Authorize, IInv, TypeOK, PagesTyped
<1> QED
  BY <1>1, <1>3, <1>4

\* No step gives up a request of the mini app but for a ban, a fault or old launch data.
LEMMA NextGetsIn ==
  ASSUME IInv, OneFlight, Shown, Telegram, [Next]_vars
  PROVE  GetsIn
<1>t. /\ refresh \in [Tabs -> [Slots -> Requests]] /\ call \in [Tabs -> [Slots -> Calls]]
      /\ faults \in Nat
  BY DEF IInv, TypeOK, PagesTyped
<1>k. kind \in {"mini", "web"}
  BY SessionAssumption DEF IInv, TypeOK
<1>1. ASSUME UNCHANGED <<kind, refresh, call, turnedAway>>, faults' \in {faults, faults + 1},
             banned => banned', aged \subseteq aged'
      PROVE  GetsIn
  BY <1>1, <1>t DEF GetsIn
<1>2. ASSUME NEW t \in Tabs, NEW c \in Slots, Request(t, c) PROVE GetsIn
  <2>1. CASE Authorize(t, c, "waiting") /\ UNCHANGED turnedAway
    <3>1. UNCHANGED <<kind, aged, banned, faults, turnedAway>>
      BY <1>2, <2>1 DEF Request
    <3> QED
      BY <2>1, <3>1, <1>t, AuthorizeCalls DEF GetsIn
  <2>2. CASE /\ call' = [call EXCEPT ![t][c] =
                           [st |-> "sent", lead |-> 0, ok |-> access[t] = "good"]]
             /\ UNCHANGED <<refresh, turnedAway>>
    <3>1. \A u \in Tabs, d \in Slots : call'[u][d] = call[u][d] \/ call'[u][d].st = "sent"
      BY <2>2, <1>t
    <3> QED
      BY <1>2, <2>2, <3>1, <1>t DEF Request, GetsIn
  <2>3. CASE ~CanRefresh /\ UNCHANGED <<call, refresh>>
    BY <1>2, <2>3, <1>t, <1>k DEF Request, GetsIn, CanRefresh
  <2> QED
    BY <1>2, <2>1, <2>2, <2>3 DEF Request
<1>3. ASSUME NEW t \in Tabs, NEW c \in Slots, RefreshServed(t, c) PROVE GetsIn
  <2> DEFINE r == refresh[t][c]
  <2>r. r = [st |-> r.st, tok |-> r.tok, reply |-> r.reply]
    BY <1>t DEF Requests
  <2>1. CASE HandleRefresh(r) /\ refresh' = [refresh EXCEPT ![t][c] = ServedTo(@)]
    <3>1. ServedTo(r).st # "logged"
      BY <2>1, <2>r DEF ServedTo, HandleRefresh, AtServer
    <3>2. \A u \in Tabs, d \in Slots :
            refresh'[u][d] = refresh[u][d] \/ refresh'[u][d] = ServedTo(r)
      BY <2>1, <1>t
    <3> QED
      BY <1>3, <3>1, <3>2, <1>t DEF RefreshServed, GetsIn
  <2>2. CASE refresh' = [refresh EXCEPT ![t][c] =
               [LoggingIn EXCEPT !.st = "logged", !.reply = LoginReply(t \in aged)]]
    <3> DEFINE x == [LoggingIn EXCEPT !.st = "logged", !.reply = LoginReply(t \in aged)]
    <3>1. x.reply = LoginReply(t \in aged)
      BY DEF LoggingIn
    <3>2. LoginReply(t \in aged) # 0 \/ banned \/ t \in aged
      BY DEF LoginReply, IInv, TypeOK, ServerTyped
    <3>3. \A u \in Tabs, d \in Slots :
            refresh'[u][d] = refresh[u][d] \/ (refresh'[u][d] = x /\ u = t)
      BY <2>2, <1>t
    <3> HIDE DEF x
    <3> QED
      BY <1>3, <3>1, <3>2, <3>3, <1>t DEF RefreshServed, GetsIn
  <2> QED
    BY <1>3, <2>1, <2>2 DEF RefreshServed
<1>4. ASSUME NEW t \in Tabs, NEW c \in Slots, RefreshAnswered(t, c) PROVE GetsIn
  <2> DEFINE r == refresh[t][c]
  <2>1. CASE Proceed(t, c) /\ UNCHANGED turnedAway
    <3>1. \A u \in Tabs, d \in Slots : refresh'[u][d] = refresh[u][d] \/ refresh'[u][d].st = "idle"
      BY <2>1, <1>t DEF Proceed, NoRefresh
    <3> QED
      BY <1>4, <2>1, <3>1, <1>t, ProceedCalls DEF RefreshAnswered, GetsIn
  <2>2. CASE refresh' = [refresh EXCEPT ![t][c] = LoggingIn] /\ UNCHANGED <<call, turnedAway>>
    <3>1. \A u \in Tabs, d \in Slots :
            refresh'[u][d] = refresh[u][d] \/ refresh'[u][d].st = "logging"
      BY <2>2, <1>t DEF LoggingIn
    <3> QED
      BY <1>4, <2>2, <3>1, <1>t DEF RefreshAnswered, GetsIn
  <2>3. CASE \E clears \in BOOLEAN : r.reply = 0 /\ (r.st = "logged" \/ kind = "web")
                                      /\ Reject(t, c, "unauthorized", clears)
    <3>1. r.st = "logged" /\ r.reply = 0 => banned \/ faults # 0 \/ t \in aged
      BY DEF Telegram
    <3> QED
      BY <1>4, <2>3, <3>1, <1>t, RejectCalls DEF RefreshAnswered, GetsIn
  <2> QED
    BY <1>4, <2>1, <2>2, <2>3, <1>k DEF RefreshAnswered, StartsOver
<1>5. ASSUME NEW t \in Tabs, NEW c \in Slots, RefreshLost(t, c) \/ RefreshThrottled(t, c)
      PROVE  GetsIn
  <2>2. faults' = faults + 1 /\ kind' = kind /\ banned' = banned
    BY <1>5 DEF RefreshLost, RefreshThrottled
  <2>0. faults' # 0
    BY <1>t, <2>2
  <2>1. \A u \in Tabs, d \in Slots :
          call'[u][d] = call[u][d] \/ call'[u][d].st = "idle"
    BY <1>5, RejectCalls DEF RefreshLost, RefreshThrottled
  <2> QED
    BY <2>0, <2>1, <2>2, <1>t DEF GetsIn
<1>6. ASSUME NEW t \in Tabs, NEW c \in Slots, Answering(t, c) PROVE GetsIn
  <2>0. UNCHANGED <<kind, banned, aged>> /\ faults' \in {faults, faults + 1}
    BY <1>6 DEF Answering, Answered, Unauthorized, Forbidden, RequestLost
  <2>1. CASE Authorize(t, c, "rewaiting") /\ UNCHANGED turnedAway
    BY <2>0, <2>1, <1>t, AuthorizeCalls DEF GetsIn
  <2>2. CASE WebSignOut(t) /\ (turnedAway' = turnedAway \/ kind = "web")
    BY <2>0, <2>2, <1>t, BlankCalls DEF WebSignOut, GetsIn
  <2>3. CASE /\ \E how \in {"ok", "unauthorized", "forbidden", "network"} :
                  /\ Finish(t, c, how)
                  /\ how = "unauthorized" => ~call[t][c].ok /\ call[t][c].st = "resent"
             /\ refresh' = refresh
    <3>1. \A u \in Tabs, d \in Slots : call'[u][d] = call[u][d] \/ call'[u][d].st = "idle"
      BY <2>3, <1>t DEF Finish, NoCall
    <3>2. turnedAway' = turnedAway
      BY <2>3 DEF Finish, Telegram
    <3> QED
      BY <2>0, <2>3, <3>1, <3>2, <1>t DEF GetsIn
  <2> QED
    BY <1>6, <2>1, <2>2, <2>3, <1>k
       DEF Answering, Answered, Unauthorized, Forbidden, RequestLost, CanRefresh
<1>7. ASSUME NEW t \in Tabs, Leave(t) PROVE GetsIn
  BY <1>7, <1>t, BlankCalls DEF Leave, GetsIn
<1>8. ASSUME NEW t \in Tabs, TabStep(t) PROVE GetsIn
  <2>1. CASE \/ Open(t) \/ Lapse(t) \/ Age(t)
             \/ LoginWithWidget(t) \/ GateServed(t) \/ GateAnswered(t)
    <3>1. /\ UNCHANGED <<kind, refresh, call, turnedAway, faults>>
          /\ banned' = banned /\ (aged' = aged \/ aged' = aged \cup {t})
      BY <2>1 DEF Open, Lapse, Age, LoginWithWidget, GateServed, GateAnswered
    <3> QED
      BY <3>1, <1>1
  <2> QED
    BY <1>8, <2>1, <1>2, <1>3, <1>4, <1>5, <1>6, <1>7 DEF TabStep, Refreshing
<1> QED
  BY <1>1, <1>8 DEF Next, OrphanServed, Ban, vars

------------------------------------------------------------------------------
\* A page on its own.

\* Undisturbed.
Calm == OneFlight /\ Shown /\ Alone /\ Carried /\ Kept

\* Types, as the steps below need them.
LEMMA Typed ==
  ASSUME IInv
  PROVE  /\ refresh \in [Tabs -> [Slots -> Requests]] /\ gate \in [Tabs -> Gates]
         /\ page \in [Tabs -> {"closed", "app", "landing"}]
         /\ Len(family) \in Nat /\ Issued = 1..Len(family)
         /\ used \subseteq Issued /\ stored \in Issued \cup {0}
         /\ banned \in BOOLEAN /\ disturbed \in BOOLEAN
BY DEF IInv, TypeOK, ServerTyped, PagesTyped, Issued

\* While one page shows the app the other pages are closed, and nobody else asks.
LEMMA OnlyOne ==
  ASSUME IInv, Calm, NEW t \in Tabs, page[t] = "app"
  PROVE  /\ orphans = {}
         /\ \A u \in Tabs : u # t => page[u] = "closed" /\ gate[u].reply = 0
         /\ \A u \in Tabs, d \in Slots : refresh[u][d].st # "idle" => u = t /\ d = inflight[t]
<1>1. \A u \in Tabs : u # t => page[u] = "closed"
  BY DEF Calm, Alone
<1>2. orphans = {}
  BY <1>1 DEF Calm, Alone
<1>3. \A u \in Tabs : page[u] = "closed" => gate[u] = NoGate /\ inflight[u] = 0
  BY DEF Calm, Shown
<1>4. NoGate.reply = 0
  BY DEF NoGate
<1>5. \A u \in Tabs, d \in Slots : refresh[u][d].st # "idle" => d = inflight[u] /\ d # 0
  BY Slot0 DEF Calm, OneFlight
<1> QED
  BY <1>1, <1>2, <1>3, <1>4, <1>5

\* Nothing happens to the tokens.
LEMMA SameQuiet ==
  ASSUME Carried, Kept, UNCHANGED <<server, stored, refresh, orphans>>, banned => banned',
         \A t \in Tabs : gate'[t].reply = gate[t].reply
  PROVE  Carried' /\ Kept'
<1>1. UNCHANGED <<family, used>>
  BY DEF server
<1>2. Carried'
  BY <1>1 DEF Carried, Unused, Asks, Apart, Issued
<1>3. Kept'
  BY <1>1 DEF Kept, Exchanged
<1> QED
  BY <1>2, <1>3

\* The first page opens.
LEMMA OpenQuiet ==
  ASSUME IInv, Calm, NEW t \in Tabs, Open(t), ~disturbed'
  PROVE  Alone' /\ Carried' /\ Kept'
<1>1. /\ \A u \in Tabs \ {t} : page[u] = "closed"
      /\ UNCHANGED <<server, stored, refresh, orphans, banned, reused, revoked>>
  BY DEF Open, server
<1>2. \A u \in Tabs : gate'[u].reply = gate[u].reply
  BY Typed DEF Open, Gates
<1>3. orphans = {}
  BY <1>1 DEF Calm, Alone, Open
<1>4. \A u \in Tabs \ {t} : page'[u] = "closed"
  BY <1>1, Typed DEF Open
<1>5. Alone'
  BY <1>1, <1>3, <1>4 DEF Calm, Alone
<1> QED
  BY <1>1, <1>2, <1>5, SameQuiet DEF Calm

\* A refresh starts with the stored token, which nobody has exchanged.
LEMMA StartQuiet ==
  ASSUME IInv, Calm, NEW t \in Tabs, NEW c \in Slots, page[t] = "app", Starts(t, c),
         UNCHANGED <<server, stored, page, gate, orphans, banned>>
  PROVE  Alone' /\ Carried' /\ Kept'
<1>0. UNCHANGED <<family, used, revoked, reused>> /\ Issued' = Issued
  BY DEF server, Issued
<1>1. \A u \in Tabs, d \in Slots : refresh[u][d].st = "idle"
  BY OnlyOne, Slot0 DEF Starts
<1>2. stored \notin used
  BY <1>1 DEF Calm, Kept, Exchanged
<1>3. \A u \in Tabs, d \in Slots :
        refresh'[u][d] = IF u = t /\ d = c THEN FirstRefresh ELSE refresh[u][d]
  BY Typed DEF Starts
<1>4. /\ FirstRefresh.st \in {"asking", "logging"} /\ FirstRefresh.reply = 0
      /\ FirstRefresh.tok \in {0, stored}
      /\ FirstRefresh.st = "asking" => FirstRefresh.tok \in Issued \ used
      /\ FirstRefresh.st = "logging" => stored = 0
  BY <1>2, Typed DEF FirstRefresh, Asking, LoggingIn
<1> HIDE DEF FirstRefresh
<1>5. Alone'
  BY <1>0 DEF Calm, Alone
<1>6. Carried'
  <2>1. (\A u \in Tabs, d \in Slots : Unused(refresh[u][d]))'
    BY <1>0, <1>3, <1>4 DEF Calm, Carried, Unused, Asks
  <2>2. (\A r \in orphans : Asks(r) /\ Unused(r))'
    BY <1>0 DEF Calm, Carried, Unused, Asks
  <2>3. (\A u \in Tabs : Apart(gate[u].reply))'
    BY <1>0, <1>3, <1>4 DEF Calm, Carried, Apart
  <2> QED
    BY <2>1, <2>2, <2>3 DEF Carried
<1>7. Kept'
  BY <1>0, <1>1, <1>2, <1>3, <1>4 DEF Calm, Kept
<1> QED
  BY <1>5, <1>6, <1>7

\* A banned user is signed out; the page may leave a refresh behind.
LEMMA SignOutQuiet ==
  ASSUME IInv, Calm, NEW t \in Tabs, page[t] = "app", banned, WebSignOut(t),
         UNCHANGED <<server, banned>>
  PROVE  Alone' /\ Carried' /\ Kept'
<1>0. UNCHANGED <<family, used, revoked, reused>> /\ Issued' = Issued
  BY DEF server, Issued
<1>1. /\ orphans = {}
      /\ \A u \in Tabs : u # t => page[u] = "closed" /\ gate[u].reply = 0
      /\ \A u \in Tabs, d \in Slots : refresh[u][d].st # "idle" => u = t /\ d = inflight[t]
  BY OnlyOne
<1>2. /\ stored' = 0
      /\ \A u \in Tabs : page'[u] = IF u = t THEN "landing" ELSE page[u]
      /\ \A u \in Tabs : gate'[u] = IF u = t THEN NoGate ELSE gate[u]
      /\ \A u \in Tabs, d \in Slots :
           refresh'[u][d] = IF u = t THEN NoRefresh ELSE refresh[u][d]
      /\ orphans' = {refresh[t][c] : c \in Slots} \cap AtServerStill
  BY <1>1, Typed DEF WebSignOut, Blank
<1>3. \A r \in orphans' : \E c \in Slots : r = refresh[t][c] /\ r.st \in AtWork
  BY <1>2 DEF AtServerStill
<1>4. \A r, q \in orphans' : r = q
  BY <1>1, <1>3 DEF AtWork
<1>5. Alone'
  BY <1>0, <1>1, <1>2, <1>4 DEF Calm, Alone
<1>6. Carried'
  <2>1. (\A u \in Tabs, d \in Slots : Unused(refresh[u][d]))'
    BY <1>0, <1>2 DEF Calm, Carried, Unused, Asks, NoRefresh
  <2>2. (\A r \in orphans : Asks(r) /\ Unused(r))'
    BY <1>0, <1>3 DEF Calm, Carried, Unused, Asks, AtWork
  <2>3. (\A u \in Tabs : Apart(gate[u].reply))'
    BY <1>1, <1>2 DEF Apart, NoGate
  <2> QED
    BY <2>1, <2>2, <2>3 DEF Carried
<1>7. Kept'
  BY <1>0, <1>2, Typed DEF Kept
<1> QED
  BY <1>5, <1>6, <1>7

\* A login issues a token nobody has yet.
LEMMA LoginNew ==
  ASSUME IInv, NEW new, Login(new)
  PROVE  /\ RowsKept /\ UNCHANGED <<used, revoked, reused>> /\ Issued \subseteq Issued'
         /\ new \in {0} \cup (Issued' \ Issued)
<1>1. RowsKept /\ new \in Issued' \cup {0}
  BY LoginRows
<1> QED
  BY <1>1, Typed DEF RowsKept, Login

\* The refresh of a page moves on: what it needs of the new record x.
LEMMA GoesQuiet ==
  ASSUME IInv, Calm, NEW t \in Tabs, NEW c \in Slots, refresh[t][c].st # "idle",
         NEW x \in Requests', refresh' = [refresh EXCEPT ![t][c] = x],
         UNCHANGED <<page, gate, orphans, banned, revoked, reused>>,
         Issued \subseteq Issued', used' \in {used, used \cup {refresh[t][c].tok}},
         stored' \in {stored, 0}, x.tok \in {refresh[t][c].tok, 0},
         x.reply \in {0} \cup (Issued' \ Issued), x.st # "revoking",
         x.st \in {"asking", "rotating"} => x.tok \in Issued \ used',
         x.reply # 0 => x.st \in {"served", "logged"},
         x.st \in {"logging", "logged"} \/ (x.st = "served" /\ x.reply = 0) => banned,
         stored' = 0 => banned \/ stored = 0,
         used' # used => x.st = "served" /\ x.reply # 0,
         refresh[t][c].reply # 0 => stored' = 0
  PROVE  Alone' /\ Carried' /\ Kept'
<1>1. /\ orphans = {}
      /\ \A u \in Tabs, d \in Slots :
           refresh[u][d].st # "idle" => u = t /\ d = c
  BY OnlyOne, Asker DEF Calm, OneFlight
<1>2. \A u \in Tabs, d \in Slots :
        refresh'[u][d] = IF u = t /\ d = c THEN x ELSE refresh[u][d]
  BY Typed
<1>3. Alone'
  BY <1>1 DEF Calm, Alone
<1>4. \A k \in Issued' \ Issued : k # 0 /\ k \notin used'
  <2>1. refresh[t][c].tok \in Issued \cup {0}
    BY Typed DEF Requests
  <2>2. 0 \notin Issued'
    BY DEF Issued
  <2> QED
    BY <2>1, <2>2, Typed
<1>5. \A u \in Tabs : gate[u].reply # 0 => gate[u].reply \notin used'
  BY DEF Calm, Carried, Apart
<1>6. \A u \in Tabs, d \in Slots :
        ~(u = t /\ d = c) => refresh[u][d].st = "idle" /\ refresh[u][d].reply = 0
  BY <1>1 DEF Calm, Carried, Unused
<1>7. Carried'
  <2>1. (\A u \in Tabs, d \in Slots : Unused(refresh[u][d]))'
    BY <1>2, <1>4, <1>6 DEF Unused, Asks
  <2>2. (\A r \in orphans : Asks(r) /\ Unused(r))'
    BY <1>1
  <2>3. (\A u \in Tabs : Apart(gate[u].reply))'
    <3>1. \A u \in Tabs : gate[u].reply \in Issued \cup {0}
      BY Typed DEF Gates
    <3> QED
      BY <1>2, <1>5, <3>1 DEF Calm, Carried, Apart
  <2> QED
    BY <2>1, <2>2, <2>3 DEF Carried
<1>8. Kept'
  <2>1. stored \in used => Exchanged(refresh[t][c])
    BY <1>1 DEF Calm, Kept, Exchanged
  <2>2. stored' \in used' => Exchanged(x)
    <3>1. CASE used' # used
      BY <3>1 DEF Exchanged
    <3>2. CASE used' = used
      <4>1. 0 \notin used
        BY Typed
      <4> QED
        BY <2>1, <3>2, <4>1 DEF Exchanged
    <3> QED
      BY <3>1, <3>2
  <2> QED
    BY <1>2, <1>6, <2>2 DEF Calm, Kept, Exchanged
<1> QED
  BY <1>3, <1>7, <1>8

\* The server handles the refresh of a page.
LEMMA ServedQuiet ==
  ASSUME IInv, Calm, NEW t \in Tabs, NEW c \in Slots, RefreshServed(t, c)
  PROVE  Alone' /\ Carried' /\ Kept'
<1> DEFINE r == refresh[t][c]
<1>r. r \in Requests /\ r = [st |-> r.st, tok |-> r.tok, reply |-> r.reply]
      /\ r.tok \in Issued \cup {0}
  BY Typed DEF Requests
<1>u. UNCHANGED <<page, gate, orphans, banned, stored>>
  BY DEF RefreshServed
<1>q. Unused(r) /\ revoked = {} /\ (stored = 0 => banned)
  BY DEF Calm, Carried, Alone, Kept
<1>1. CASE HandleRefresh(r) /\ refresh' = [refresh EXCEPT ![t][c] = ServedTo(@)]
  <2>0. refresh' = [refresh EXCEPT ![t][c] = ServedTo(r)] /\ r.st \in {"asking", "rotating"}
    BY <1>1, <1>q DEF HandleRefresh, AtServer, Unused
  <2>t. r.tok \in Issued \ used /\ r.reply = 0
    BY <2>0, <1>q DEF Unused, Asks
  <2>1. /\ RowsKept /\ ServedTo(r) \in Requests'
    <3>1. Rotating(r) => r.tok \in rotating
      BY DEF IInv, Held, HeldBySlots
    <3> QED
      BY <1>1, <1>r, <3>1, RefreshRows
  <2>i. Issued \subseteq Issued'
    BY <2>1 DEF RowsKept
  <2>2. CASE r.st = "asking"
    <3>1. ~Reuses(r.tok)
      BY <2>t DEF Reuses
    <3>2. /\ ServedTo(r).tok = r.tok /\ ServedTo(r).reply = 0
          /\ ServedTo(r).st = IF Rotates(r.tok) THEN "rotating" ELSE "served"
      <4>1. CASE Rotates(r.tok)
        <5>1. ServedTo(r) = [r EXCEPT !.st = "rotating"]
          BY <2>2, <4>1 DEF ServedTo
        <5> QED
          BY <1>r, <2>t, <4>1, <5>1
      <4>2. CASE ~Rotates(r.tok)
        <5>1. ServedTo(r) = [r EXCEPT !.st = "served", !.reply = 0]
          BY <2>2, <3>1, <4>2 DEF ServedTo
        <5> QED
          BY <1>r, <2>t, <4>2, <5>1
      <4> QED
        BY <4>1, <4>2
    <3>3. used' = used /\ revoked' = revoked /\ reused' = reused
      BY <1>1, <2>2, <3>2, Typed DEF HandleRefresh, Consumed, IInv, TypeOK
    <3>4. ~Rotates(r.tok) => banned
      BY <2>t, <1>q DEF Rotates, Fresh
    <3> DEFINE x == ServedTo(r)
    <3>5. /\ x.tok = r.tok /\ x.reply = 0 /\ x.st \in {"rotating", "served"}
          /\ x.st = "served" => banned
      BY <3>2, <3>4
    <3> HIDE DEF x
    <3> QED
      BY <1>u, <1>q, <2>0, <2>1, <2>2, <2>i, <2>t, <3>3, <3>5, GoesQuiet DEF x
  <2>3. CASE r.st = "rotating"
    <3>1. ServedTo(r) = [st |-> "served", tok |-> r.tok, reply |-> Len(family) + 1]
      BY <1>r, <2>3 DEF ServedTo
    <3>2. used' = used \cup {r.tok} /\ revoked' = revoked /\ reused' = reused
      BY <1>1, <2>3, <3>1, Typed DEF HandleRefresh, Consumed, IInv, TypeOK
    <3>3. Len(family) + 1 \in Issued' \ Issued
      <4>1. ServedTo(r).reply \in Issued' \cup {0}
        BY <2>1 DEF Requests
      <4> QED
        BY <3>1, <4>1, Typed
    <3> DEFINE x == ServedTo(r)
    <3>4. x.tok = r.tok /\ x.reply \in Issued' \ Issued /\ x.st = "served" /\ x.reply # 0
      BY <3>1, <3>3, Typed
    <3> HIDE DEF x
    <3> QED
      BY <1>u, <1>q, <2>0, <2>1, <2>3, <2>i, <2>t, <3>2, <3>4, GoesQuiet DEF x
  <2> QED
    BY <2>0, <2>2, <2>3
<1>2. CASE /\ r.st = "logging" /\ HandleLogin(t \in aged)
           /\ refresh' = [refresh EXCEPT ![t][c] =
                [LoggingIn EXCEPT !.st = "logged", !.reply = LoginReply(t \in aged)]]
  <2> DEFINE new == LoginReply(t \in aged)
             x == [LoggingIn EXCEPT !.st = "logged", !.reply = new]
  <2>0. Login(new) /\ refresh' = [refresh EXCEPT ![t][c] = x]
    BY <1>2 DEF HandleLogin, LoginReply, Login
  <2>b. banned
    BY <1>2 DEF Calm, Kept
  <2> HIDE DEF new
  <2>1. /\ RowsKept /\ new \in {0} \cup (Issued' \ Issued)
        /\ UNCHANGED <<used, revoked, reused>> /\ Issued \subseteq Issued'
    BY <2>0, LoginNew
  <2>2. /\ x \in Requests' /\ x.tok = 0 /\ x.reply = new /\ x.st = "logged"
    BY <2>1 DEF LoggingIn, Requests
  <2>4. r.reply = 0
    BY <1>2, <1>q DEF Unused
  <2> HIDE DEF x
  <2> QED
    BY <1>2, <1>u, <1>q, <2>0, <2>b, <2>1, <2>2, <2>4, GoesQuiet
<1> QED
  BY <1>1, <1>2 DEF RefreshServed

\* The refresh is over.
LEMMA EndsQuiet ==
  ASSUME IInv, Calm, NEW t \in Tabs, NEW c \in Slots, refresh[t][c].st # "idle",
         refresh' = [refresh EXCEPT ![t][c] = NoRefresh],
         UNCHANGED <<server, page, gate, orphans, banned>>,
         \/ refresh[t][c].reply # 0 /\ stored' = refresh[t][c].reply
         \/ refresh[t][c].reply = 0 /\ banned /\ stored' \in {0, stored}
  PROVE  Alone' /\ Carried' /\ Kept'
<1>0. UNCHANGED <<family, used, revoked, reused>> /\ Issued' = Issued
  BY DEF server, Issued
<1>1. /\ orphans = {}
      /\ \A u \in Tabs, d \in Slots : refresh[u][d].st # "idle" => u = t /\ d = c
  BY OnlyOne, Asker DEF Calm, OneFlight
<1>2. \A u \in Tabs, d \in Slots :
        refresh'[u][d] = IF u = t /\ d = c THEN NoRefresh ELSE refresh[u][d]
  BY Typed
<1>3. Alone'
  BY <1>0, <1>1 DEF Calm, Alone
<1>4. stored' \notin used
  <2>1. stored \in used => Exchanged(refresh[t][c])
    BY <1>1 DEF Calm, Kept, Exchanged
  <2>2. refresh[t][c].reply # 0 => refresh[t][c].reply \notin used
    BY DEF Calm, Carried, Unused
  <2> QED
    BY <2>1, <2>2, Typed DEF Exchanged
<1>5. Carried'
  <2>1. (\A u \in Tabs, d \in Slots : Unused(refresh[u][d]))'
    BY <1>0, <1>2 DEF Calm, Carried, Unused, Asks, NoRefresh
  <2>2. (\A r \in orphans : Asks(r) /\ Unused(r))'
    BY <1>1
  <2>3. (\A u \in Tabs : Apart(gate[u].reply))'
    BY <1>0, <1>2 DEF Calm, Carried, Apart, NoRefresh
  <2> QED
    BY <2>1, <2>2, <2>3 DEF Carried
<1>6. Kept'
  BY <1>0, <1>1, <1>2, <1>4 DEF Kept, NoRefresh
<1> QED
  BY <1>3, <1>5, <1>6

\* The answer arrives.
LEMMA AnsweredQuiet ==
  ASSUME IInv, Calm, NEW t \in Tabs, NEW c \in Slots, RefreshAnswered(t, c), ~disturbed
  PROVE  Alone' /\ Carried' /\ Kept'
<1> DEFINE r == refresh[t][c]
<1>u. UNCHANGED <<server, banned>> /\ r.st \in {"served", "logged"} /\ r.st # "idle"
  BY DEF RefreshAnswered
<1>s. UNCHANGED <<family, used, revoked, reused>> /\ Issued' = Issued
  BY <1>u DEF server, Issued
<1>b. r.reply = 0 => banned
  BY <1>u DEF Calm, Kept
<1>p. page[t] = "app"
  BY <1>u, Asker DEF Calm
<1>1. CASE r.reply # 0 /\ Store(t, r.reply) /\ Proceed(t, c)
  BY <1>1, <1>u, EndsQuiet DEF Store, Proceed
<1>2. CASE /\ r.reply = 0 /\ stored' = 0 /\ refresh' = [refresh EXCEPT ![t][c] = LoggingIn]
           /\ UNCHANGED <<page, gate, orphans>>
  <2>1. LoggingIn \in Requests' /\ LoggingIn.st = "logging" /\ LoggingIn.tok = 0
        /\ LoggingIn.reply = 0
    BY DEF LoggingIn, Requests
  <2> HIDE DEF LoggingIn
  <2> QED
    BY <1>2, <1>u, <1>s, <1>b, <2>1, GoesQuiet
<1>3. ASSUME r.reply = 0, NEW clears \in BOOLEAN, Reject(t, c, "unauthorized", clears)
      PROVE  Alone' /\ Carried' /\ Kept'
  <2>1. CASE WebSignOut(t)
    BY <1>3, <1>u, <1>b, <1>p, <2>1, SignOutQuiet
  <2>2. CASE ~WebSignOut(t)
    <3>1. /\ refresh' = [refresh EXCEPT ![t][c] = NoRefresh]
          /\ stored' = IF clears THEN 0 ELSE stored
          /\ orphans' = orphans \cup ({r} \cap AtServerStill)
          /\ UNCHANGED <<page, gate>>
      BY <1>3, <2>2 DEF Reject
    <3>2. orphans' = orphans
      BY <1>u, <3>1 DEF AtServerStill, AtWork
    <3> QED
      BY <1>3, <1>u, <1>b, <3>1, <3>2, EndsQuiet
  <2> QED
    BY <2>1, <2>2
<1> QED
  BY <1>1, <1>2, <1>3 DEF RefreshAnswered

\* The refresh that a banned page left is handled; it is the last one.
LEMMA OrphanQuiet ==
  ASSUME IInv, Calm, NEW r \in orphans, OrphanServed(r)
  PROVE  Alone' /\ Carried' /\ Kept'
<1>1. /\ Asks(r) /\ Unused(r) /\ revoked = {} /\ banned /\ stored = 0 /\ orphans = {r}
  BY DEF Calm, Carried, Alone
<1>2. \A t \in Tabs : page[t] # "app"
  BY DEF Calm, Alone
<1>3. \A t \in Tabs : gate[t].reply = 0 /\ \A c \in Slots : refresh[t][c].st = "idle"
  BY <1>2, Slot0 DEF Calm, Shown, OneFlight, NoGate
<1>r. r \in Requests /\ r = [st |-> r.st, tok |-> r.tok, reply |-> r.reply]
  BY DEF IInv, TypeOK, PagesTyped, Requests
<1>t. r.tok \in Issued \ used /\ r.reply = 0
  BY <1>1 DEF Unused, Asks
<1>4. ServedTo(r).st = "served" /\ UNCHANGED <<revoked, reused>>
  <2>1. ~Rotates(r.tok) /\ ~Reuses(r.tok)
    BY <1>1, <1>t DEF Rotates, Reuses
  <2>2. ServedTo(r) = [r EXCEPT !.st = "served",
                                !.reply = IF r.st = "rotating" THEN Len(family) + 1 ELSE 0]
    BY <2>1 DEF ServedTo
  <2>3. ServedTo(r).st = "served"
    BY <1>r, <2>2
  <2> QED
    BY <1>1, <2>3, Typed DEF OrphanServed, HandleRefresh, Asks, IInv, TypeOK
<1>5. orphans' = {}
  BY <1>1, <1>4 DEF OrphanServed, AtServerStill, AtWork
<1>6. UNCHANGED <<banned, stored, page, refresh, gate>>
  BY DEF OrphanServed
<1>7. Alone'
  BY <1>4, <1>5, <1>6 DEF Calm, Alone
<1>8. used' \in {used, used \cup {r.tok}}
  BY DEF OrphanServed, HandleRefresh, Consumed
<1>9. Carried'
  <2>1. (\A t \in Tabs, c \in Slots : Unused(refresh[t][c]))'
    BY <1>3, <1>6 DEF Calm, Carried, Unused, Asks
  <2>2. (\A t \in Tabs : Apart(gate[t].reply))'
    BY <1>3, <1>6 DEF Apart
  <2> QED
    BY <1>5, <2>1, <2>2 DEF Carried
<1>10. Kept'
  BY <1>1, <1>6, <1>8, <1>t, Typed DEF Kept
<1> QED
  BY <1>7, <1>9, <1>10

\* The answers to the requests themselves: what they do to tokens is to start a refresh
\* or to sign out.
LEMMA AnsweringQuiet ==
  ASSUME IInv, Calm, NEW t \in Tabs, NEW c \in Slots, Answering(t, c), ~disturbed
  PROVE  Alone' /\ Carried' /\ Kept'
<1>u. UNCHANGED <<server, banned>> /\ call[t][c].st # "idle"
  BY DEF Answering, Answered, Unauthorized, Forbidden, RequestLost
<1>p. page[t] = "app"
  BY <1>u, Asker DEF Calm
<1>1. CASE UNCHANGED <<stored, page, refresh, gate, orphans>>
  <2>1. Alone'
    BY <1>1, <1>u DEF Calm, Alone, server
  <2> QED
    BY <1>1, <1>u, <2>1, SameQuiet DEF Calm
<1>2. CASE Authorize(t, c, "rewaiting") /\ UNCHANGED <<stored, page, gate, orphans>>
  BY <1>1, <1>2, <1>u, <1>p, AuthorizeFlies, StartQuiet
<1>3. CASE WebSignOut(t) /\ (banned \/ stored = 0)
  <2>1. banned
    BY <1>3 DEF Calm, Kept
  <2> QED
    BY <1>3, <1>u, <1>p, <2>1, SignOutQuiet
<1> QED
  BY <1>1, <1>2, <1>3
     DEF Answering, Answered, Unauthorized, Forbidden, RequestLost, CanRefresh

\* A request goes out, or waits for a refresh.
LEMMA RequestQuiet ==
  ASSUME IInv, Calm, NEW t \in Tabs, NEW c \in Slots, Request(t, c)
  PROVE  Alone' /\ Carried' /\ Kept'
<1>u. UNCHANGED <<server, banned, stored, page, gate, orphans>> /\ page[t] = "app"
  BY DEF Request
<1>1. CASE refresh' = refresh
  <2>1. Alone'
    BY <1>1, <1>u DEF Calm, Alone, server
  <2> QED
    BY <1>1, <1>u, <2>1, SameQuiet DEF Calm
<1>2. CASE Authorize(t, c, "waiting")
  BY <1>1, <1>2, <1>u, AuthorizeFlies, StartQuiet
<1> QED
  BY <1>1, <1>2 DEF Request

\* The login at start is handled, and its token is nobody else's.
LEMMA GateServedQuiet ==
  ASSUME IInv, Calm, NEW t \in Tabs, GateServed(t)
  PROVE  Alone' /\ Carried' /\ Kept'
<1> DEFINE new == LoginReply(t \in aged)
<1>1. /\ UNCHANGED <<used, revoked, reused>> /\ Issued \subseteq Issued'
      /\ new \in {0} \cup (Issued' \ Issued)
  <2>1. Login(new)
    BY DEF GateServed, HandleLogin, LoginReply, Login
  <2> QED
    BY <2>1, LoginNew
<1>2. /\ UNCHANGED <<banned, stored, page, refresh, orphans>>
      /\ \A u \in Tabs : gate'[u].reply = IF u = t THEN new ELSE gate[u].reply
  BY Typed DEF GateServed
<1>3. Alone'
  BY <1>1, <1>2 DEF Calm, Alone
<1>4. Kept'
  BY <1>1, <1>2 DEF Calm, Kept, Exchanged
<1>5. Carried'
  <2>1. (\A u \in Tabs, d \in Slots : Unused(refresh[u][d]))'
    BY <1>1, <1>2 DEF Calm, Carried, Unused, Asks
  <2>2. (\A r \in orphans : Asks(r) /\ Unused(r))'
    BY <1>1, <1>2 DEF Calm, Carried, Unused, Asks
  <2>3. (\A u \in Tabs : Apart(gate[u].reply))'
    <3>1. \A u \in Tabs, d \in Slots :
            {refresh[u][d].tok, refresh[u][d].reply} \subseteq Issued \cup {0}
      BY Typed DEF Requests
    <3> HIDE DEF new
    <3> QED
      BY <1>1, <1>2, <3>1, Typed DEF Calm, Carried, Apart
  <2> QED
    BY <2>1, <2>2, <2>3 DEF Carried
<1> QED
  BY <1>3, <1>4, <1>5

\* Its answer replaces what is stored, even under a refresh.
LEMMA GateAnsweredQuiet ==
  ASSUME IInv, Calm, NEW t \in Tabs, GateAnswered(t)
  PROVE  Alone' /\ Carried' /\ Kept'
<1>u. UNCHANGED <<server, banned, page, refresh, orphans>>
  BY DEF GateAnswered
<1>0. UNCHANGED <<family, used, revoked, reused>> /\ Issued' = Issued
  BY <1>u DEF server, Issued
<1>1. page[t] = "app"
  BY DEF GateAnswered, NoGate, Calm, Shown
<1>2. orphans = {} /\ \A u \in Tabs : u # t => gate[u].reply = 0
  BY <1>1, OnlyOne
<1>3. \A u \in Tabs : gate'[u].reply = 0
  BY <1>2, Typed DEF GateAnswered, NoGate
<1>4. stored' = IF gate[t].reply # 0 THEN gate[t].reply ELSE stored
  BY DEF GateAnswered, Store
<1>5. gate[t].reply # 0 => gate[t].reply \notin used
  BY DEF Calm, Carried, Apart
<1>6. Alone'
  BY <1>0, <1>u, <1>2 DEF Calm, Alone
<1>7. Carried'
  BY <1>0, <1>u, <1>2, <1>3 DEF Calm, Carried, Unused, Asks, Apart
<1>8. Kept'
  BY <1>0, <1>u, <1>4, <1>5 DEF Calm, Kept, Exchanged
<1> QED
  BY <1>6, <1>7, <1>8

\* A new sign-in on the landing page.
LEMMA WidgetQuiet ==
  ASSUME IInv, Calm, NEW t \in Tabs, LoginWithWidget(t)
  PROVE  Alone' /\ Carried' /\ Kept'
<1> DEFINE new == LoginReply(FALSE)
<1>1. /\ UNCHANGED <<used, revoked, reused>> /\ Issued \subseteq Issued'
      /\ new \in Issued' \ Issued /\ new # 0
  <2>1. Login(new) /\ new # 0
    BY Typed DEF LoginWithWidget, HandleLogin, LoginReply, Login
  <2> HIDE DEF new
  <2> QED
    BY <2>1, LoginNew
<1>2. /\ UNCHANGED <<banned, refresh, gate, orphans>> /\ stored' = new /\ ~banned
      /\ page[t] = "landing"
      /\ \A u \in Tabs : page'[u] = IF u = t THEN "app" ELSE page[u]
  BY Typed DEF LoginWithWidget, Store
<1>3. orphans = {}
  BY <1>2 DEF Calm, Alone
<1>4. Alone'
  BY <1>1, <1>2, <1>3 DEF Calm, Alone
<1>5. Carried'
  <2>1. (\A u \in Tabs, d \in Slots : Unused(refresh[u][d]))'
    BY <1>1, <1>2 DEF Calm, Carried, Unused, Asks
  <2>2. (\A u \in Tabs : Apart(gate[u].reply))'
    <3>1. \A u \in Tabs : gate[u].reply \in Issued \cup {0}
      BY Typed DEF Gates
    <3> HIDE DEF new
    <3> QED
      BY <1>1, <1>2, <3>1 DEF Calm, Carried, Apart
  <2> QED
    BY <1>2, <1>3, <2>1, <2>2 DEF Carried
<1>6. Kept'
  <2>1. stored' \notin used'
    BY <1>1, <1>2, Typed
  <2> QED
    BY <1>1, <1>2, <2>1 DEF Calm, Kept
<1> QED
  BY <1>4, <1>5, <1>6

\* What was disturbed stays so.
LEMMA StaysDisturbed ==
  ASSUME IInv, [Next]_vars, disturbed
  PROVE  disturbed'
<1>1. ASSUME NEW t \in Tabs, NEW c \in Slots, Request(t, c) \/ Refreshing(t, c) \/ Answering(t, c)
      PROVE  disturbed'
  <2>1. CASE Request(t, c)
    BY <2>1 DEF Request
  <2>2. CASE Refreshing(t, c)
    BY <2>2 DEF Refreshing, RefreshServed, RefreshAnswered, RefreshLost, RefreshThrottled
  <2>3. CASE Answering(t, c)
    BY <2>3 DEF Answering, Answered, Unauthorized, Forbidden, RequestLost
  <2> QED
    BY <1>1, <2>1, <2>2, <2>3
<1>2. ASSUME NEW t \in Tabs, \/ Open(t) \/ Leave(t) \/ Lapse(t) \/ Age(t)
                           \/ LoginWithWidget(t) \/ GateServed(t) \/ GateAnswered(t)
      PROVE  disturbed'
  BY <1>2 DEF Open, Leave, Lapse, Age, LoginWithWidget, GateServed, GateAnswered
<1>3. CASE Ban \/ UNCHANGED vars \/ \E r \in orphans : OrphanServed(r)
  BY <1>3 DEF OrphanServed, Ban, vars
<1> QED
  BY <1>1, <1>2, <1>3 DEF Next, TabStep

\* Every step of an undisturbed page keeps its tokens usable.
LEMMA NextQuiet ==
  ASSUME IInv, OneFlight, Shown, Quiet, [Next]_vars
  PROVE  Quiet'
<1> SUFFICES ASSUME ~disturbed' PROVE Alone' /\ Carried' /\ Kept'
  BY DEF Quiet
<1>1. ~disturbed
  BY StaysDisturbed
<1>2. Calm
  BY <1>1 DEF Quiet, Calm
<1>3. ASSUME UNCHANGED <<server, stored, page, refresh, gate, orphans>>, banned => banned'
      PROVE  Alone' /\ Carried' /\ Kept'
  <2>1. Alone'
    BY <1>2, <1>3 DEF Calm, Alone, server
  <2> QED
    BY <1>2, <1>3, <2>1, SameQuiet DEF Calm
<1>4. ASSUME NEW t \in Tabs, TabStep(t) PROVE Alone' /\ Carried' /\ Kept'
  <2>1. CASE Leave(t)
    BY <2>1 DEF Leave
  <2>2. CASE Lapse(t) \/ Age(t)
    BY <2>2, <1>3 DEF Lapse, Age
  <2>3. ASSUME NEW c \in Slots, Refreshing(t, c) PROVE Alone' /\ Carried' /\ Kept'
    <3>1. ~RefreshLost(t, c) /\ ~RefreshThrottled(t, c)
      BY DEF RefreshLost, RefreshThrottled
    <3> QED
      BY <1>1, <1>2, <2>3, <3>1, ServedQuiet, AnsweredQuiet DEF Refreshing
  <2> QED
    BY <1>1, <1>2, <1>4, <2>1, <2>2, <2>3, OpenQuiet, RequestQuiet, AnsweringQuiet,
       GateServedQuiet, GateAnsweredQuiet, WidgetQuiet DEF TabStep
<1>5. CASE Ban
  BY <1>3, <1>5 DEF Ban
<1>6. CASE UNCHANGED vars
  BY <1>3, <1>6 DEF vars, server
<1> QED
  BY <1>2, <1>4, <1>5, <1>6, OrphanQuiet DEF Next

\* Its inductive invariant.
SInv == OneFlight /\ Shown /\ Quiet /\ Telegram

\* The first state.
LEMMA InitSInv == Init => SInv
<1> SUFFICES ASSUME Init PROVE SInv
  OBVIOUS
<1>1. OneFlight /\ Shown
  BY Slot0 DEF Init, OneFlight, Shown, NoRefresh, NoCall
<1>2. Telegram
  BY DEF Init, Telegram, NoRefresh, NoCall, TelegramAlwaysGetsIn
<1>3. Quiet
  BY DEF Init, Quiet, Alone, Carried, Kept, Unused, Asks, Apart, Exchanged, NoRefresh, NoGate
<1> QED
  BY <1>1, <1>2, <1>3 DEF SInv

\* What the pages keep at every step: one refresh a page, requests only in the app; while nothing
\* disturbs them, no token is presented twice; inside Telegram only a page whose launch data is
\* too old is turned away.
THEOREM SessionInductive == Spec => []SInv
<1>1. IInv /\ SInv /\ [Next]_vars => SInv'
  <2> SUFFICES ASSUME IInv, SInv, [Next]_vars PROVE SInv'
    OBVIOUS
  <2>1. OneFlight'
    BY NextFlies, FliesOneFlight DEF SInv
  <2> QED
    BY <2>1, NextShown, NextQuiet, NextGetsIn, GetsInTelegram DEF SInv
<1> QED
  BY <1>1, InitSInv, Inductive, PTL DEF Spec

\* A page on its own never presents a consumed token (client.ts authorize, auth.py refresh):
\* the reuse detection is not set off by the requests of one page, however they race.
THEOREM NoPageReuses == Spec => []NoSelfReuse
<1>1. IInv /\ SInv => NoSelfReuse
  BY Typed DEF SInv, Quiet, Alone, NoSelfReuse
<1> QED
  BY <1>1, SessionInductive, Inductive, PTL

\* While nothing disturbs the page, the token in localStorage can be exchanged or the next one is
\* on its way (client.ts storeTokens).
THEOREM NeverLost == Spec => []SessionKept
<1>1. IInv /\ SInv => SessionKept
  <2> SUFFICES ASSUME IInv, SInv, ~disturbed, ~banned
               PROVE  /\ stored \in Issued \ revoked
                      /\ Fresh(stored) \/ \E t \in Tabs, c \in Slots :
                                             refresh[t][c].st \in {"rotating", "served"}
    BY DEF SessionKept
  <2> QED
    BY Typed DEF SInv, Quiet, Alone, Kept, Exchanged, Fresh
<1> QED
  BY <1>1, SessionInductive, Inductive, PTL

\* Inside Telegram no page is turned away but for a ban, a fault or launch data of its own that
\* is older than auth_max_age_s (auth.py:71): where a refresh token no longer serves, the initData
\* login does (client.ts refreshTokens), whatever the other pages of the user do.
THEOREM AlwaysGetsIn == Spec => []TelegramAlwaysGetsIn
<1>1. SInv => TelegramAlwaysGetsIn
  BY DEF SInv, Telegram
<1> QED
  BY <1>1, SessionInductive, PTL
=============================================================================
