----------------------------- MODULE JamProofs -----------------------------
(***************************************************************************)
(* Proof that the rooms keep their shape, the playhead on a track of the   *)
(* queue, and that no accepted change of a queue is lost, for any number   *)
(* of listeners, rooms and commands under way; and that an app whose qrev  *)
(* is the room's has the room's queue, when no answer came to it late.     *)
(***************************************************************************)
EXTENDS Jam, SequenceTheorems, TLAPS

RoomOK(r) == r \in Room /\ Fits(r)

Apps == [jam : Codes \cup {None}, host : BOOLEAN, qrev : Nat, index : Nat, items : Seq(Item),
         timer : BOOLEAN]

Answers == [status : {"none", "ok", "gone", "refused", "done"}, code : Codes \cup {None},
            room : Room \cup {NoRoom}, full : BOOLEAN]

Kinds == AllActions \cup {"none", "poll", "end", "resume"}

Requests ==
  [kind : Kinds,
   pc : {"idle", "sent", "read", "drop", "ending", "unkey", "main", "answered"},
   code : Codes \cup {None}, index : Nat, known : Nat,
   snap : Room \cup [host : Codes \cup {None}], saw : SUBSET Users, answer : Answers]

\* What a request holds at each of its steps, n being what the listeners have done so far.
Sound(q, n) ==
  /\ q.pc = "read" => RoomOK(q.snap) /\ q.kind \in Mutating \cup {"join"}
  /\ q.pc = "answered" /\ q.answer.status = "ok" => q.answer.room \in Room
  /\ q.kind \in {"add", "start"} => q.index \in 1..n + 2

ServerOK ==
  /\ DOMAIN rooms \subseteq used /\ used \subseteq Codes
  /\ \A c \in DOMAIN rooms : RoomOK(rooms[c])
  /\ of \in [Users -> Codes \cup {None}]
  /\ kept \in [Codes -> SUBSET (1..MaxOps + 2)]

AppsOK ==
  /\ app \in [Users -> Apps]
  /\ crossed \in [Users -> BOOLEAN] /\ meant \in [Users -> Codes \cup {None}]

RequestsOK ==
  /\ req \in [Users -> [Slots -> Requests]]
  /\ \A u \in Users, s \in Slots : Sound(req[u][s], ops)

CountsOK == ops \in 0..MaxOps /\ faults \in 0..MaxFaults

IInv == ServerOK /\ AcceptedStays /\ AppsOK /\ RequestsOK /\ CountsOK

------------------------------------------------------------------------------
\* Queues.

LEMMA ItemAdded ==
  ASSUME NEW S, NEW s \in Seq(S), NEW x \in S, NEW i \in 1..(Len(s) + 1)
  PROVE  LET t == SubSeq(s, 1, i - 1) \o <<x>> \o SubSeq(s, i, Len(s)) IN
         t \in Seq(S) /\ Len(t) = Len(s) + 1
<1> DEFINE a == SubSeq(s, 1, i - 1)
           b == SubSeq(s, i, Len(s))
<1>1. a \in Seq(S) /\ Len(a) = i - 1
  BY SubSeqProperties
<1>2. b \in Seq(S) /\ Len(b) = Len(s) + 1 - i
  BY SubSeqProperties
<1>3. <<x>> \in Seq(S) /\ Len(<<x>>) = 1
  OBVIOUS
<1> HIDE DEF a, b
<1>4. a \o <<x>> \in Seq(S) /\ Len(a \o <<x>>) = i
  BY <1>1, <1>3
<1> DEFINE c == a \o <<x>>
<1>5. c \o b \in Seq(S) /\ Len(c \o b) = Len(s) + 1
  <2> HIDE DEF c
  <2>1. c \in Seq(S) /\ Len(c) = i
    BY <1>4 DEF c
  <2> QED
    BY <1>2, <2>1
<1> QED
  BY <1>5 DEF a, b, c

LEMMA ItemRemoved ==
  ASSUME NEW S, NEW s \in Seq(S), NEW i \in 1..Len(s)
  PROVE  WithoutItem(s, i) \in Seq(S) /\ Len(WithoutItem(s, i)) = Len(s) - 1
<1> DEFINE a == SubSeq(s, 1, i - 1)
           b == SubSeq(s, i + 1, Len(s))
<1>1. a \in Seq(S) /\ Len(a) = i - 1
  BY SubSeqProperties
<1>2. b \in Seq(S) /\ Len(b) = Len(s) - i
  BY SubSeqProperties
<1> HIDE DEF a, b
<1>3. a \o b \in Seq(S) /\ Len(a \o b) = Len(s) - 1
  BY <1>1, <1>2
<1> QED
  BY <1>3 DEF a, b, WithoutItem

LEMMA IdsTyped ==
  ASSUME NEW s \in Seq(Item)
  PROVE  Ids(s) \subseteq 1..MaxOps + 2
<1>1. \A i \in 1..Len(s) : s[i] \in Item
  OBVIOUS
<1> QED
  BY <1>1 DEF Ids, Item

------------------------------------------------------------------------------
\* Every change of a room leaves a room.

\* One field after the other.

LEMMA BumpedRoom ==
  ASSUME NEW r \in Room
  PROVE  Bumped(r) \in Room /\ Bumped(r).items = r.items /\ Bumped(r).index = r.index
BY DEF Room, Bumped

LEMMA EditedRoom ==
  ASSUME NEW r \in Room
  PROVE  Edited(r) \in Room /\ Edited(r).items = r.items /\ Edited(r).index = r.index
<1> DEFINE a == Bumped(r)
<1>1. a \in Room /\ a.index = r.index /\ a.items = r.items
  BY BumpedRoom
<1>2. Edited(r) = [a EXCEPT !.qrev = @ + 1]
  BY DEF Edited, Bumped, Room
<1> HIDE DEF a
<1>3. LET c == [a EXCEPT !.qrev = @ + 1] IN
      c \in Room /\ c.index = r.index /\ c.items = r.items
  BY <1>1 DEF Room
<1> QED
  BY <1>2, <1>3

LEMMA PlayingRoom ==
  ASSUME NEW r \in Room, NEW b \in BOOLEAN
  PROVE  LET x == [r EXCEPT !.playing = b] IN
         x \in Room /\ x.items = r.items /\ x.index = r.index
BY DEF Room

LEMMA OverRoom ==
  ASSUME NEW r \in Room, NEW b \in BOOLEAN
  PROVE  LET x == [r EXCEPT !.over = b] IN
         x \in Room /\ x.items = r.items /\ x.index = r.index
BY DEF Room

LEMMA IndexRoom ==
  ASSUME NEW r \in Room, NEW i \in Nat \ {0}
  PROVE  LET x == [r EXCEPT !.index = i] IN x \in Room /\ x.items = r.items /\ x.index = i
BY DEF Room

LEMMA ItemsRoom ==
  ASSUME NEW r \in Room, NEW t \in Seq(Item)
  PROVE  LET x == [r EXCEPT !.items = t] IN x \in Room /\ x.items = t /\ x.index = r.index
BY DEF Room

LEMMA MembersRoom ==
  ASSUME NEW r \in Room, NEW m \in SUBSET Users
  PROVE  LET x == [r EXCEPT !.members = m] IN
         x \in Room /\ x.items = r.items /\ x.index = r.index
BY DEF Room

LEMMA GoToRoom ==
  ASSUME NEW r \in Room, NEW i \in Nat \ {0}
  PROVE  GoTo(r, i) \in Room /\ GoTo(r, i).items = r.items /\ GoTo(r, i).index = i
<1> DEFINE a == [r EXCEPT !.index = i]
           b == [a EXCEPT !.over = FALSE]
<1>1. a \in Room /\ a.index = i /\ a.items = r.items
  BY IndexRoom
<1>2. GoTo(r, i) = [b EXCEPT !.playing = TRUE]
  BY DEF GoTo, Room
<1> HIDE DEF a
<1>3. b \in Room /\ b.index = i /\ b.items = r.items
  BY <1>1, OverRoom
<1> HIDE DEF b
<1> QED
  BY <1>2, <1>3, PlayingRoom

LEMMA SettledOK ==
  ASSUME NEW r, RoomOK(r)
  PROVE  RoomOK(Settled(r)) /\ Settled(r).items = r.items
<1>1. r \in Room /\ r.items \in Seq(Item) /\ r.index \in Nat \ {0} /\ Len(r.items) \in Nat
  BY DEF RoomOK, Room
<1>2. CASE ~(r.playing /\ r.over)
  BY <1>2 DEF Settled
<1>3. CASE r.playing /\ r.over /\ r.index < Len(r.items)
  <2> DEFINE a == [r EXCEPT !.index = r.index + 1]
             b == [a EXCEPT !.over = FALSE]
  <2>1. a \in Room /\ a.items = r.items /\ a.index = r.index + 1
    BY <1>1, IndexRoom
  <2>2. Settled(r) = Bumped(b)
    BY <1>1, <1>3 DEF Settled, Bumped, Room
  <2> HIDE DEF a
  <2>3. b \in Room /\ b.items = r.items /\ b.index = r.index + 1
    BY <2>1, OverRoom
  <2> HIDE DEF b
  <2>4. Bumped(b) \in Room /\ Bumped(b).items = r.items /\ Bumped(b).index = r.index + 1
    BY <2>3, BumpedRoom
  <2> QED
    BY <1>1, <1>3, <2>2, <2>4 DEF RoomOK, Fits
<1>4. CASE r.playing /\ r.over /\ ~(r.index < Len(r.items))
  <2> DEFINE a == [r EXCEPT !.playing = FALSE]
             b == [a EXCEPT !.over = FALSE]
  <2>1. a \in Room /\ a.items = r.items /\ a.index = r.index
    BY <1>1, PlayingRoom
  <2>2. Settled(r) = Bumped(b)
    BY <1>1, <1>4 DEF Settled, Bumped, Room
  <2> HIDE DEF a
  <2>3. b \in Room /\ b.items = r.items /\ b.index = r.index
    BY <2>1, OverRoom
  <2> HIDE DEF b
  <2>4. Bumped(b) \in Room /\ Bumped(b).items = r.items /\ Bumped(b).index = r.index
    BY <2>3, BumpedRoom
  <2> QED
    BY <2>2, <2>4 DEF RoomOK, Fits
<1> QED
  BY <1>2, <1>3, <1>4

LEMMA ControlledOK ==
  ASSUME NEW r, RoomOK(r), NEW u \in Users, NEW q \in Requests,
         q.kind \in {"play", "pause", "next", "ended", "previous", "jump"},
         NEW x \in Controlled(r, u, q)
  PROVE  RoomOK(x)
<1>1. r \in Room /\ r.items \in Seq(Item) /\ r.index \in Nat \ {0} /\ Len(r.items) \in Nat
  BY DEF RoomOK, Room
<1>2. Fits(r)
  BY DEF RoomOK
<1>3. ASSUME NEW b \in BOOLEAN PROVE RoomOK(Bumped([r EXCEPT !.playing = b]))
  <2> DEFINE y == [r EXCEPT !.playing = b]
  <2>1. y \in Room /\ y.items = r.items /\ y.index = r.index
    BY <1>1, PlayingRoom
  <2> HIDE DEF y
  <2>2. RoomOK(Bumped(y))
    BY <1>2, <2>1, BumpedRoom DEF RoomOK, Fits
  <2> QED
    BY <2>2 DEF y
<1>4. ASSUME NEW i \in 1..Len(r.items) PROVE RoomOK(Bumped(GoTo(r, i)))
  <2>1. GoTo(r, i) \in Room /\ GoTo(r, i).items = r.items /\ GoTo(r, i).index = i
    BY <1>1, GoToRoom
  <2> QED
    BY <1>1, <2>1, BumpedRoom DEF RoomOK, Fits
<1>5. RoomOK(Bumped([r EXCEPT !.over = FALSE]))
  <2> DEFINE y == [r EXCEPT !.over = FALSE]
  <2>1. y \in Room /\ y.items = r.items /\ y.index = r.index
    BY <1>1, OverRoom
  <2> HIDE DEF y
  <2>2. RoomOK(Bumped(y))
    BY <1>2, <2>1, BumpedRoom DEF RoomOK, Fits
  <2> QED
    BY <2>2 DEF y
<1>6. \A y \in Skipped(r) : RoomOK(y)
  <2>1. CASE r.index >= Len(r.items)
    BY <1>3, <2>1 DEF Skipped
  <2>2. CASE ~(r.index >= Len(r.items))
    <3>1. r.index + 1 \in 1..Len(r.items)
      BY <1>1, <2>2
    <3> QED
      BY <1>4, <2>2, <3>1 DEF Skipped
  <2> QED
    BY <2>1, <2>2
<1>7. \A on \in BOOLEAN : \A y \in Played(r, on) : RoomOK(y)
  BY <1>3 DEF Played
<1>8. \A y \in WentBack(r) : RoomOK(y)
  BY <1>4, <1>5 DEF WentBack
<1>9. CASE q.kind = "play"
  BY <1>7, <1>9 DEF Controlled
<1>10. CASE q.kind = "pause"
  BY <1>7, <1>10 DEF Controlled
<1>11. CASE q.kind = "next"
  BY <1>6, <1>11 DEF Controlled
<1>12. CASE q.kind = "ended"
  BY <1>6, <1>12 DEF Controlled
<1>13. CASE q.kind = "previous"
  BY <1>8, <1>13 DEF Controlled
<1>14. CASE q.kind = "jump"
  BY <1>4, <1>14 DEF Controlled
<1> QED
  BY <1>9, <1>10, <1>11, <1>12, <1>13, <1>14

LEMMA AddedOK ==
  ASSUME NEW r, RoomOK(r), NEW u \in Users, NEW id \in 1..MaxOps + 2, NEW x \in Added(r, u, id)
  PROVE  RoomOK(x)
<1> DEFINE it == [id |-> id, by |-> u]
<1>1. r \in Room /\ r.items \in Seq(Item) /\ r.index \in Nat \ {0} /\ Len(r.items) \in Nat
  BY DEF RoomOK, Room
<1>2. it \in Item
  BY DEF Item
<1>3. \A i \in 1..(Len(r.items) + 1) :
        /\ Inserted(r, i, it) \in Room
        /\ Inserted(r, i, it).index = r.index
        /\ Len(Inserted(r, i, it).items) = Len(r.items) + 1
  <2> TAKE i \in 1..(Len(r.items) + 1)
  <2> DEFINE t == SubSeq(r.items, 1, i - 1) \o <<it>> \o SubSeq(r.items, i, Len(r.items))
  <2>1. t \in Seq(Item) /\ Len(t) = Len(r.items) + 1
    BY <1>1, <1>2, ItemAdded
  <2>2. Inserted(r, i, it) = [r EXCEPT !.items = t]
    BY <1>1 DEF Inserted, Room
  <2> HIDE DEF t
  <2> QED
    <3> DEFINE y == [r EXCEPT !.items = t]
    <3>1. y \in Room /\ y.items = t /\ y.index = r.index
      BY <1>1, <2>1, ItemsRoom
    <3> HIDE DEF y
    <3> QED
      BY <2>1, <2>2, <3>1 DEF y
<1> HIDE DEF it
<1>4. CASE r.items = <<>>
  <2>1. x = Edited(GoTo(Inserted(r, 1, it), 1))
    BY <1>4 DEF Added, it
  <2> DEFINE y == Inserted(r, 1, it)
  <2>2. y \in Room /\ Len(y.items) = 1
    BY <1>1, <1>3, <1>4
  <2> HIDE DEF y
  <2>3. Edited(GoTo(y, 1)) \in Room /\ Edited(GoTo(y, 1)).index = 1
        /\ Edited(GoTo(y, 1)).items = y.items
    BY <2>2, GoToRoom, EditedRoom
  <2> QED
    BY <2>1, <2>2, <2>3 DEF RoomOK, Fits, y
<1>5. CASE r.items # <<>>
  <2>1. r.index \in 1..Len(r.items)
    BY <1>5 DEF RoomOK, Fits
  <2>2. ASSUME NEW i \in 1..(Len(r.items) + 1) PROVE RoomOK(Edited(Inserted(r, i, it)))
    <3> DEFINE y == Inserted(r, i, it)
    <3>1. y \in Room /\ y.index = r.index /\ Len(y.items) = Len(r.items) + 1
      BY <1>3, <2>2
    <3> HIDE DEF y
    <3>2. Edited(y) \in Room /\ Edited(y).index = r.index /\ Edited(y).items = y.items
      BY <3>1, EditedRoom
    <3> QED
      BY <1>1, <2>1, <3>1, <3>2 DEF RoomOK, Fits, y
  <2>3. RoomOK(Edited(GoTo(Inserted(r, r.index + 1, it), r.index + 1)))
    <3> DEFINE y == Inserted(r, r.index + 1, it)
               z == Edited(GoTo(y, r.index + 1))
    <3>1. y \in Room /\ Len(y.items) = Len(r.items) + 1
      BY <1>1, <1>3, <2>1
    <3> HIDE DEF y
    <3>2. z \in Room /\ z.index = r.index + 1 /\ z.items = y.items
      <4> DEFINE w == GoTo(y, r.index + 1)
      <4>1. r.index + 1 \in Nat \ {0}
        BY <1>1
      <4>2. w \in Room /\ w.index = r.index + 1 /\ w.items = y.items
        BY <3>1, <4>1, GoToRoom
      <4> HIDE DEF w
      <4>3. Edited(w) \in Room /\ Edited(w).index = r.index + 1 /\ Edited(w).items = y.items
        BY <4>2, EditedRoom
      <4> QED
        BY <4>3 DEF w
    <3> HIDE DEF z
    <3>3. RoomOK(z)
      BY <1>1, <2>1, <3>1, <3>2 DEF RoomOK, Fits
    <3> QED
      BY <3>3 DEF y, z
  <2>4. \/ x = Edited(Inserted(r, Len(r.items) + 1, it))
        \/ x = Edited(Inserted(r, r.index + 1, it))
        \/ x = Edited(GoTo(Inserted(r, r.index + 1, it), r.index + 1))
    BY <1>5 DEF Added, it
  <2>5. Len(r.items) + 1 \in 1..(Len(r.items) + 1) /\ r.index + 1 \in 1..(Len(r.items) + 1)
    BY <1>1, <2>1
  <2> QED
    BY <2>2, <2>3, <2>4, <2>5
<1> QED
  BY <1>4, <1>5

LEMMA RemovedOK ==
  ASSUME NEW r, RoomOK(r), NEW u \in Users, NEW i \in Nat, NEW x \in Removed(r, u, i)
  PROVE  RoomOK(x)
<1>1. r \in Room /\ r.items \in Seq(Item) /\ r.index \in Nat \ {0} /\ Len(r.items) \in Nat
  BY DEF RoomOK, Room
<1>2. i \in 1..Len(r.items) /\ i # r.index /\ x = Edited(CloseUp(r, i))
  BY DEF Removed
<1>3. r.index \in 1..Len(r.items)
  BY <1>1, <1>2 DEF RoomOK, Fits
<1> DEFINE t == WithoutItem(r.items, i)
<1>4. t \in Seq(Item) /\ Len(t) = Len(r.items) - 1
  BY <1>1, <1>2, ItemRemoved
<1> DEFINE j == IF i < r.index THEN r.index - 1 ELSE r.index
           a == [r EXCEPT !.items = t]
<1>5. CloseUp(r, i) = [a EXCEPT !.index = j]
  BY <1>1 DEF CloseUp, Room
<1>6. j \in Nat \ {0}
  BY <1>1, <1>2, <1>3
<1> HIDE DEF t, j
<1>7. a \in Room /\ a.items = t
  BY <1>1, <1>4, ItemsRoom
<1> HIDE DEF a
<1>8. CloseUp(r, i) \in Room /\ CloseUp(r, i).items = t /\ CloseUp(r, i).index = j
  BY <1>5, <1>6, <1>7, IndexRoom
<1>9. x.items = t /\ x.index = j /\ x \in Room
  BY <1>2, <1>8, EditedRoom
<1>10. x.index \in 1..Len(t)
  BY <1>1, <1>2, <1>3, <1>4, <1>9 DEF j
<1> QED
  BY <1>4, <1>9, <1>10 DEF RoomOK, Fits

LEMMA ChangedOK ==
  ASSUME NEW r, RoomOK(r), NEW u \in Users, NEW q \in Requests,
         q.kind \in Mutating \cup {"join"}, q.kind = "add" => q.index \in 1..MaxOps + 2,
         NEW x \in Changed(r, u, q)
  PROVE  RoomOK(x)
<1>1. q.index \in Nat
  BY DEF Requests
<1>2. CASE q.kind = "add"
  BY <1>2, AddedOK DEF Changed
<1>3. CASE q.kind = "remove"
  BY <1>1, <1>3, RemovedOK DEF Changed
<1>4. CASE q.kind = "configure"
  <2> DEFINE y == [r EXCEPT !.guests = ~@]
  <2>1. x = Bumped(y)
    BY <1>4 DEF Changed, Configured
  <2>2. y \in Room /\ y.items = r.items /\ y.index = r.index
    BY DEF RoomOK, Room
  <2> HIDE DEF y
  <2> QED
    BY <2>1, <2>2, BumpedRoom DEF RoomOK, Fits
<1>5. CASE q.kind = "join"
  <2> DEFINE y == [r EXCEPT !.members = @ \cup {u}]
  <2>1. x = r \/ x = Bumped(y)
    BY <1>5 DEF Changed, Joined
  <2>2. y \in Room /\ y.items = r.items /\ y.index = r.index
    BY DEF RoomOK, Room
  <2> HIDE DEF y
  <2> QED
    BY <2>1, <2>2, BumpedRoom DEF RoomOK, Fits
<1>6. CASE q.kind \in {"play", "pause", "next", "ended", "previous", "jump"}
  <2>1. x \in Controlled(r, u, q)
    BY <1>6 DEF Changed
  <2> QED
    BY <1>6, <2>1, ControlledOK
<1> QED
  BY <1>2, <1>3, <1>4, <1>5, <1>6 DEF Mutating

LEMMA LeftOK ==
  ASSUME NEW r, RoomOK(r), NEW u \in Users
  PROVE  RoomOK(Left(r, u)) /\ Left(r, u).items = r.items
<1> DEFINE y == [r EXCEPT !.members = @ \ {u}]
<1>1. Left(r, u) = r \/ Left(r, u) = Bumped(y)
  BY DEF Left
<1>2. y \in Room /\ y.items = r.items /\ y.index = r.index
  BY DEF RoomOK, Room
<1> HIDE DEF y
<1> QED
  BY <1>1, <1>2, BumpedRoom DEF RoomOK, Fits

------------------------------------------------------------------------------
\* What a request and an app may become.

\* One field after the other.

LEMMA ReqPc ==
  ASSUME NEW q \in Requests,
         NEW v \in {"idle", "sent", "read", "drop", "ending", "unkey", "main", "answered"}
  PROVE  LET x == [q EXCEPT !.pc = v] IN
         /\ x \in Requests
         /\ x.kind = q.kind /\ x.pc = v /\ x.index = q.index
         /\ x.snap = q.snap /\ x.answer = q.answer
BY DEF Requests

LEMMA ReqCode ==
  ASSUME NEW q \in Requests, NEW v \in Codes \cup {None}
  PROVE  LET x == [q EXCEPT !.code = v] IN
         /\ x \in Requests
         /\ x.kind = q.kind /\ x.pc = q.pc /\ x.index = q.index
         /\ x.snap = q.snap /\ x.answer = q.answer
BY DEF Requests

LEMMA ReqIndex ==
  ASSUME NEW q \in Requests, NEW v \in Nat
  PROVE  LET x == [q EXCEPT !.index = v] IN
         /\ x \in Requests
         /\ x.kind = q.kind /\ x.pc = q.pc /\ x.index = v
         /\ x.snap = q.snap /\ x.answer = q.answer
BY DEF Requests

LEMMA ReqKnown ==
  ASSUME NEW q \in Requests, NEW v \in Nat
  PROVE  LET x == [q EXCEPT !.known = v] IN
         /\ x \in Requests
         /\ x.kind = q.kind /\ x.pc = q.pc /\ x.index = q.index
         /\ x.snap = q.snap /\ x.answer = q.answer
BY DEF Requests

LEMMA ReqKind ==
  ASSUME NEW q \in Requests, NEW v \in Kinds
  PROVE  LET x == [q EXCEPT !.kind = v] IN
         /\ x \in Requests
         /\ x.kind = v /\ x.pc = q.pc /\ x.index = q.index
         /\ x.snap = q.snap /\ x.answer = q.answer
BY DEF Requests

LEMMA ReqSnap ==
  ASSUME NEW q \in Requests, NEW v \in Room \cup [host : Codes \cup {None}]
  PROVE  LET x == [q EXCEPT !.snap = v] IN
         /\ x \in Requests
         /\ x.kind = q.kind /\ x.pc = q.pc /\ x.index = q.index
         /\ x.snap = v /\ x.answer = q.answer
BY DEF Requests

LEMMA ReqSaw ==
  ASSUME NEW q \in Requests, NEW v \in SUBSET Users
  PROVE  LET x == [q EXCEPT !.saw = v] IN
         /\ x \in Requests
         /\ x.kind = q.kind /\ x.pc = q.pc /\ x.index = q.index
         /\ x.snap = q.snap /\ x.answer = q.answer
BY DEF Requests

LEMMA ReqAnswer ==
  ASSUME NEW q \in Requests, NEW v \in Answers
  PROVE  LET x == [q EXCEPT !.answer = v] IN
         /\ x \in Requests
         /\ x.kind = q.kind /\ x.pc = q.pc /\ x.index = q.index
         /\ x.snap = q.snap /\ x.answer = v
BY DEF Requests

LEMMA IdleOK ==
  /\ Idle \in Requests /\ Idle.kind = "none" /\ Idle.pc = "idle"
  /\ \A n \in Nat : Sound(Idle, n)
<1>1. NoAnswer \in Answers
  BY DEF NoAnswer, Answers
<1>2. NoRoom \in [host : Codes \cup {None}]
  BY DEF NoRoom
<1> QED
  BY <1>1, <1>2 DEF Idle, Requests, Kinds, Sound

LEMMA SentOK ==
  ASSUME NEW kind \in Kinds, NEW code \in Codes \cup {None}, NEW index \in Nat, NEW known \in Nat
  PROVE  /\ Sent(kind, code, index, known) \in Requests
         /\ Sent(kind, code, index, known).kind = kind
         /\ Sent(kind, code, index, known).pc = "sent"
         /\ Sent(kind, code, index, known).index = index
<1> DEFINE a == [Idle EXCEPT !.kind = kind]
           b == [a EXCEPT !.pc = "sent"]
           c == [b EXCEPT !.code = code]
           d == [c EXCEPT !.index = index]
           e == [d EXCEPT !.known = known]
<1>1. Sent(kind, code, index, known) = e
  BY DEF Sent
<1>2. a \in Requests /\ a.kind = kind
  BY IdleOK, ReqKind
<1> HIDE DEF a
<1>3. b \in Requests /\ b.kind = kind /\ b.pc = "sent"
  BY <1>2, ReqPc
<1> HIDE DEF b
<1>4. c \in Requests /\ c.kind = kind /\ c.pc = "sent"
  BY <1>3, ReqCode
<1> HIDE DEF c
<1>5. d \in Requests /\ d.kind = kind /\ d.pc = "sent" /\ d.index = index
  BY <1>4, ReqIndex
<1> HIDE DEF d
<1>6. e \in Requests /\ e.kind = kind /\ e.pc = "sent" /\ e.index = index
  BY <1>5, ReqKnown
<1> QED
  BY <1>1, <1>6

LEMMA StepOK ==
  ASSUME NEW q \in Requests, NEW n, Sound(q, n), NEW p \in {"sent", "drop", "unkey", "main"}
  PROVE  LET x == [q EXCEPT !.pc = p] IN x \in Requests /\ Sound(x, n)
BY DEF Requests, Sound

LEMMA PlainOK ==
  ASSUME NEW q \in Requests, NEW n, Sound(q, n), NEW status \in {"none", "gone", "refused", "done"}
  PROVE  Plain(q, status) \in Requests /\ Sound(Plain(q, status), n)
<1> DEFINE a == [q EXCEPT !.pc = "answered"]
           b == [a EXCEPT !.snap = NoRoom]
           c == [b EXCEPT !.saw = {}]
           x == [c EXCEPT !.answer.status = status]
           ans == [q.answer EXCEPT !.status = status]
<1>1. Plain(q, status) = x
  BY DEF Plain
<1>2. ans \in Answers /\ ans.status = status
  BY DEF Requests, Answers
<1>3. a \in Requests /\ a.kind = q.kind /\ a.pc = "answered" /\ a.index = q.index
      /\ a.answer = q.answer
  BY ReqPc
<1> HIDE DEF a
<1>4. NoRoom \in [host : Codes \cup {None}]
  BY DEF NoRoom
<1>5. b \in Requests /\ b.kind = q.kind /\ b.pc = "answered" /\ b.index = q.index
      /\ b.answer = q.answer
  BY <1>3, <1>4, ReqSnap
<1> HIDE DEF b
<1>6. c \in Requests /\ c.kind = q.kind /\ c.pc = "answered" /\ c.index = q.index
      /\ c.answer = q.answer
  BY <1>5, ReqSaw
<1> HIDE DEF c
<1>7. x = [c EXCEPT !.answer = ans]
  BY <1>6
<1> HIDE DEF x, ans
<1>8. x \in Requests /\ x.kind = q.kind /\ x.pc = "answered" /\ x.index = q.index
      /\ x.answer = ans
  BY <1>2, <1>6, <1>7, ReqAnswer
<1>9. Sound(x, n)
  BY <1>2, <1>8 DEF Sound
<1> QED
  BY <1>1, <1>8, <1>9

LEMMA AnsweredOK ==
  ASSUME NEW q \in Requests, NEW n, Sound(q, n), NEW code \in Codes \cup {None}, NEW r \in Room
  PROVE  Answered(q, "ok", code, r) \in Requests /\ Sound(Answered(q, "ok", code, r), n)
<1> DEFINE full == q.known # r.qrev \/ q.kind \in {"add", "remove", "join", "start", "resume"}
           ans == [status |-> "ok", code |-> code, room |-> r, full |-> full]
           a == [q EXCEPT !.pc = "answered"]
           b == [a EXCEPT !.snap = NoRoom]
           c == [b EXCEPT !.saw = {}]
           x == [c EXCEPT !.answer = ans]
<1>1. Answered(q, "ok", code, r) = x
  BY DEF Answered
<1>2. full \in BOOLEAN
  OBVIOUS
<1> HIDE DEF full
<1>3. ans \in Answers /\ ans.status = "ok" /\ ans.room = r
  BY <1>2 DEF Answers
<1> HIDE DEF ans
<1>4. a \in Requests /\ a.kind = q.kind /\ a.pc = "answered" /\ a.index = q.index
  BY ReqPc
<1> HIDE DEF a
<1>5. NoRoom \in [host : Codes \cup {None}]
  BY DEF NoRoom
<1>6. b \in Requests /\ b.kind = q.kind /\ b.pc = "answered" /\ b.index = q.index
  BY <1>4, <1>5, ReqSnap
<1> HIDE DEF b
<1>7. c \in Requests /\ c.kind = q.kind /\ c.pc = "answered" /\ c.index = q.index
  BY <1>6, ReqSaw
<1> HIDE DEF c
<1>8. x \in Requests /\ x.kind = q.kind /\ x.pc = "answered" /\ x.index = q.index
      /\ x.answer = ans
  BY <1>3, <1>7, ReqAnswer
<1> HIDE DEF x
<1>9. Sound(x, n)
  BY <1>3, <1>8 DEF Sound
<1> QED
  BY <1>1, <1>8, <1>9

LEMMA AfterOK ==
  ASSUME NEW q \in Requests, NEW n, Sound(q, n)
  PROVE  After(q) \in Requests /\ Sound(After(q), n)
<1>1. CASE q.kind \in {"start", "join"}
  BY <1>1 DEF After, Requests, Sound
<1>2. CASE q.kind \notin {"start", "join"}
  BY <1>2, PlainOK DEF After
<1> QED
  BY <1>1, <1>2

LEMMA EndingOK ==
  ASSUME NEW q \in Requests, NEW n, Sound(q, n), NEW c \in Codes, NEW m \in SUBSET Users
  PROVE  LET x == [q EXCEPT !.pc = "ending", !.saw = m, !.snap = [host |-> c]] IN
         x \in Requests /\ Sound(x, n)
<1> DEFINE a == [q EXCEPT !.pc = "ending"]
           b == [a EXCEPT !.saw = m]
           x == [b EXCEPT !.snap = [host |-> c]]
<1>1. a \in Requests /\ a.kind = q.kind /\ a.pc = "ending" /\ a.index = q.index
  BY ReqPc
<1> HIDE DEF a
<1>2. b \in Requests /\ b.kind = q.kind /\ b.pc = "ending" /\ b.index = q.index
  BY <1>1, ReqSaw
<1> HIDE DEF b
<1>3. x \in Requests /\ x.kind = q.kind /\ x.pc = "ending" /\ x.index = q.index
  BY <1>2, ReqSnap
<1>4. Sound(x, n)
  <2> HIDE DEF x
  <2> QED
    BY <1>3 DEF Sound
<1> QED
  BY <1>3, <1>4 DEF a, b

LEMMA AwayOK == Away \in Apps
<1>1. <<>> \in Seq(Item)
  OBVIOUS
<1> QED
  BY <1>1 DEF Away, Apps

LEMMA ApplyOK ==
  ASSUME NEW a \in Apps, NEW u \in Users, NEW ans \in Answers, ans.room \in Room
  PROVE  Scheduled(Apply(a, u, ans)) \in Apps
<1> DEFINE r == ans.room
           b == [a EXCEPT !.jam = ans.code]
           c == [b EXCEPT !.host = (r.host = u)]
           d == [c EXCEPT !.qrev = r.qrev]
           e == [d EXCEPT !.index = r.index]
           f == [e EXCEPT !.items = IF ans.full THEN r.items ELSE @]
<1>1. r.qrev \in Nat /\ r.index \in Nat /\ r.items \in Seq(Item)
      /\ ans.code \in Codes \cup {None}
  BY DEF Room, Answers
<1>2. Scheduled(Apply(a, u, ans)) = [f EXCEPT !.timer = TRUE]
  BY DEF Scheduled, Apply
<1> HIDE DEF r
<1>3. b \in Apps
  BY <1>1 DEF Apps
<1> HIDE DEF b
<1>4. c \in Apps
  BY <1>1, <1>3 DEF Apps
<1> HIDE DEF c
<1>5. d \in Apps
  BY <1>1, <1>4 DEF Apps
<1> HIDE DEF d
<1>6. e \in Apps
  BY <1>1, <1>5 DEF Apps
<1> HIDE DEF e
<1>7. f \in Apps
  BY <1>1, <1>6 DEF Apps
<1> HIDE DEF f
<1>8. [f EXCEPT !.timer = TRUE] \in Apps
  BY <1>7 DEF Apps
<1> QED
  BY <1>2, <1>8

------------------------------------------------------------------------------
\* What a step leaves alone.

LEMMA SameServer ==
  ASSUME ServerOK, AcceptedStays, UNCHANGED server
  PROVE  ServerOK' /\ AcceptedStays'
BY DEF ServerOK, AcceptedStays, server

LEMMA SameApps ==
  ASSUME AppsOK, UNCHANGED <<app, history>>
  PROVE  AppsOK'
BY DEF AppsOK, history

LEMMA SlotSet ==
  ASSUME RequestsOK, NEW u \in Users, NEW s \in Slots, NEW q \in Requests, Send(u, s, q),
         CountsOK, ops' \in Nat, ops <= ops', Sound(q, ops')
  PROVE  RequestsOK'
<1>1. req' \in [Users -> [Slots -> Requests]]
  BY DEF RequestsOK, Send
<1>2. ASSUME NEW v \in Users, NEW o \in Slots PROVE Sound(req'[v][o], ops')
  <2>1. req'[v][o] = IF v = u /\ o = s THEN q ELSE req[v][o]
    BY DEF RequestsOK, Send
  <2>2. ops \in Nat
    BY JamAssumption DEF CountsOK
  <2>3. Sound(req[v][o], ops')
    BY <2>2 DEF RequestsOK, Sound
  <2> QED
    BY <2>1, <2>3
<1> QED
  BY <1>1, <1>2 DEF RequestsOK

\* The step of a handler that changes its own request only.
LEMMA OwnSlot ==
  ASSUME IInv, NEW u \in Users, NEW s \in Slots, NEW q \in Requests, Sound(q, ops),
         Send(u, s, q), UNCHANGED <<ops, faults>>
  PROVE  RequestsOK' /\ CountsOK'
<1>1. ops \in Nat /\ ops <= ops' /\ ops' = ops
  BY JamAssumption DEF IInv, CountsOK
<1>2. RequestsOK'
  BY <1>1, SlotSet DEF IInv
<1> QED
  BY <1>2 DEF IInv, CountsOK

------------------------------------------------------------------------------
\* The app.

LEMMA InitIInv == Init => IInv
<1> SUFFICES ASSUME Init PROVE IInv
  OBVIOUS
<1> DEFINE items == <<[id |-> 1, by |-> Host], [id |-> 2, by |-> Host]>>
           base == NewRoom(Host, items, 1, TRUE)
           room == [base EXCEPT !.members = Users]
           ans == [status |-> "ok", code |-> First, room |-> room, full |-> TRUE]
<1> USE JamAssumption
<1>1. items \in Seq(Item) /\ Len(items) = 2 /\ Ids(items) = {1, 2}
  <2>1. [id |-> 1, by |-> Host] \in Item /\ [id |-> 2, by |-> Host] \in Item
    BY DEF Item
  <2>2. 1..Len(items) = {1, 2}
    OBVIOUS
  <2> QED
    BY <2>1, <2>2 DEF Ids
<1> HIDE DEF items
<1>2. base \in Room /\ base.items = items /\ base.index = 1
  BY <1>1 DEF NewRoom, Room
<1> HIDE DEF base
<1>3. room \in Room /\ room.items = items /\ room.index = 1
  BY <1>2, MembersRoom
<1> HIDE DEF room
<1>4. RoomOK(room)
  BY <1>1, <1>3 DEF RoomOK, Fits
<1>5. ans \in Answers
  BY <1>3 DEF Answers
<1>6. rooms = [c \in {First} |-> room] /\ app = [u \in Users |-> Scheduled(Apply(Away, u, ans))]
  BY DEF Init, items, base, room
<1> HIDE DEF ans
<1>7. ServerOK /\ AcceptedStays
  <2>1. DOMAIN rooms = {First} /\ rooms[First] = room /\ used = {First}
    BY <1>6 DEF Init
  <2>2. {1, 2} \in SUBSET (1..MaxOps + 2)
    OBVIOUS
  <2>3. kept = [c \in Codes |-> IF c = First THEN {1, 2} ELSE {}]
        /\ of = [u \in Users |-> First]
    BY DEF Init
  <2>4. kept[First] = {1, 2} /\ kept \in [Codes -> SUBSET (1..MaxOps + 2)]
    BY <2>2, <2>3
  <2>5. ServerOK
    BY <1>4, <2>1, <2>3, <2>4 DEF ServerOK
  <2>6. AcceptedStays
    BY <1>1, <1>3, <2>1, <2>4 DEF AcceptedStays
  <2> QED
    BY <2>5, <2>6
<1>8. AppsOK
  <2>1. \A u \in Users : Scheduled(Apply(Away, u, ans)) \in Apps
    <3>1. ans.room \in Room
      BY <1>3 DEF ans
    <3> QED
      BY <1>5, <3>1, AwayOK, ApplyOK
  <2> QED
    BY <1>6, <2>1 DEF Init, AppsOK
<1>9. RequestsOK
  BY IdleOK DEF Init, RequestsOK
<1> QED
  BY <1>7, <1>8, <1>9 DEF Init, IInv, CountsOK

LEMMA CommandIInv ==
  ASSUME IInv, NEW u \in Users, NEW s \in Slots, NEW kind \in AllActions, NEW index \in Nat,
         kind \in {"add", "start"} => index = ops + 3, NEW code \in Codes \cup {None},
         NEW known \in Nat, Act(kind), Send(u, s, Sent(kind, code, index, known)),
         UNCHANGED server, AppsOK'
  PROVE  IInv'
<1> DEFINE q == Sent(kind, code, index, known)
<1>1. ops \in Nat /\ ops' = ops + 1 /\ ops' \in 0..MaxOps
  BY JamAssumption DEF IInv, CountsOK, Act
<1>2. q \in Requests /\ q.kind = kind /\ q.pc = "sent" /\ q.index = index
  BY SentOK DEF Kinds
<1> HIDE DEF q
<1>3. Sound(q, ops')
  BY <1>1, <1>2 DEF Sound
<1>4. RequestsOK'
  BY <1>1, <1>2, <1>3, SlotSet DEF IInv, q
<1>5. CountsOK'
  BY <1>1 DEF IInv, CountsOK, Act
<1> QED
  BY <1>4, <1>5, SameServer DEF IInv

LEMMA ListenerIInv ==
  ASSUME IInv, NEW u \in Users, Listener(u)
  PROVE  IInv'
<1>1. /\ app[u] \in Apps /\ app[u].jam \in Codes \cup {None} /\ app[u].index \in Nat
      /\ app[u].qrev \in Nat /\ app[u].items \in Seq(Item) /\ ops \in Nat
  BY JamAssumption DEF IInv, AppsOK, Apps, CountsOK
<1> PICK s \in Commands :
      \/ Transport(u, s) \/ Ended(u, s) \/ Jump(u, s) \/ Add(u, s) \/ Remove(u, s)
      \/ Configure(u, s) \/ Start(u, s) \/ Leave(u, s) \/ Reopen(u, s)
      \/ \E c \in Codes : Join(u, s, c)
  BY DEF Listener
<1>2. s \in Slots
  BY DEF Slots
<1>3. ASSUME NEW kind \in AllActions, NEW index \in Nat,
             kind \in {"add", "start"} => index = ops + 3, Command(u, s, kind, index)
      PROVE  IInv'
  <2>1. AppsOK'
    BY <1>3, SameApps DEF Command, IInv
  <2> QED
    BY <1>1, <1>2, <1>3, <2>1, CommandIInv DEF Command
<1>4. CASE Transport(u, s)
  BY <1>3, <1>4 DEF Transport, AllActions
<1>5. CASE Ended(u, s)
  BY <1>1, <1>3, <1>5 DEF Ended, AllActions
<1>6. CASE Jump(u, s)
  BY <1>1, <1>3, <1>6 DEF Jump, Shown, AllActions
<1>7. CASE Add(u, s)
  BY <1>1, <1>3, <1>7 DEF Add, AllActions
<1>8. CASE Remove(u, s)
  BY <1>1, <1>3, <1>8 DEF Remove, Shown, AllActions
<1>9. CASE Configure(u, s)
  BY <1>3, <1>9 DEF Configure, AllActions
<1>10. CASE Start(u, s)
  <2>1. AppsOK'
    BY <1>10, SameApps DEF Start, IInv
  <2>2. ops + 3 \in Nat /\ "start" \in AllActions
    BY <1>1 DEF AllActions
  <2>3. Act("start") /\ Send(u, s, Sent("start", None, ops + 3, 0)) /\ UNCHANGED server
    BY <1>10 DEF Start
  <2> QED
    BY <1>2, <2>1, <2>2, <2>3, CommandIInv
<1>11. CASE Leave(u, s)
  <2>1. AppsOK'
    BY <1>11, AwayOK DEF Leave, IInv, AppsOK
  <2> DEFINE kind == IF app[u].host THEN "end" ELSE "leave"
             q == Sent(kind, app[u].jam, 0, 0)
  <2>2. kind \in {"end", "leave"}
    OBVIOUS
  <2>3. ops' = ops + 1 /\ ops' \in 0..MaxOps /\ UNCHANGED <<faults, server>> /\ Send(u, s, q)
    BY <1>1, <1>11, JamAssumption DEF Leave, Act
  <2> HIDE DEF kind
  <2>4. q \in Requests /\ q.kind = kind /\ q.pc = "sent"
    <3>1. kind \in Kinds /\ 0 \in Nat
      BY <2>2 DEF Kinds, AllActions
    <3>2. app[u].jam \in Codes \cup {None}
      BY <1>1
    <3> QED
      BY <3>1, <3>2, SentOK
  <2> HIDE DEF q
  <2>5. Sound(q, ops')
    BY <2>2, <2>4 DEF Sound
  <2>6. RequestsOK' /\ CountsOK'
    BY <1>1, <1>2, <2>3, <2>4, <2>5, SlotSet DEF IInv, CountsOK
  <2> QED
    BY <2>1, <2>3, <2>6, SameServer DEF IInv
<1>12. CASE Reopen(u, s)
  <2>1. AppsOK'
    BY <1>12, AwayOK DEF Reopen, IInv, AppsOK
  <2> DEFINE q == Sent("resume", None, 0, 0)
  <2>2. q \in Requests /\ q.kind = "resume" /\ q.pc = "sent"
    <3>1. "resume" \in Kinds /\ None \in Codes \cup {None} /\ 0 \in Nat
      BY DEF Kinds
    <3> QED
      BY <3>1, SentOK
  <2> HIDE DEF q
  <2>3. /\ ops' = ops + 1 /\ ops' \in 0..MaxOps /\ UNCHANGED <<faults, server>>
        /\ req' = [req EXCEPT ![u] = [o \in Slots |-> IF o = s THEN q ELSE Idle]]
    BY <1>1, <1>12, JamAssumption DEF Reopen, Act, q
  <2>4. Sound(q, ops') /\ Idle \in Requests /\ Sound(Idle, ops')
    BY <1>1, <2>2, <2>3, IdleOK DEF Sound
  <2>5. \A v \in Users, o \in Slots : Sound(req[v][o], ops')
    BY <1>1, <2>3 DEF IInv, RequestsOK, Sound
  <2>6. RequestsOK'
    BY <2>2, <2>3, <2>4, <2>5 DEF IInv, RequestsOK
  <2> QED
    BY <2>1, <2>3, <2>6, SameServer DEF IInv, CountsOK
<1>13. ASSUME NEW c \in Codes, Join(u, s, c) PROVE IInv'
  <2>1. AppsOK'
    BY <1>13 DEF Join, IInv, AppsOK
  <2>2. Act("join") /\ Send(u, s, Sent("join", c, 0, 0)) /\ UNCHANGED server
    BY <1>13 DEF Join
  <2> QED
    BY <1>2, <2>1, <2>2, CommandIInv DEF AllActions
<1> QED
  BY <1>4, <1>5, <1>6, <1>7, <1>8, <1>9, <1>10, <1>11, <1>12, <1>13

LEMMA PollIInv ==
  ASSUME IInv, NEW u \in Users, Poll(u)
  PROVE  IInv'
<1>1. app[u] \in Apps /\ app[u].jam \in Codes \cup {None} /\ app[u].qrev \in Nat
  BY DEF IInv, AppsOK, Apps
<1>2. [app[u] EXCEPT !.timer = FALSE] \in Apps
  BY <1>1 DEF Apps
<1>3. AppsOK'
  BY <1>2 DEF Poll, IInv, AppsOK, history
<1>4. CASE Send(u, "poll", Sent("poll", app[u].jam, 0, app[u].qrev))
  <2> DEFINE q == Sent("poll", app[u].jam, 0, app[u].qrev)
  <2>1. q \in Requests /\ q.kind = "poll" /\ q.pc = "sent"
    <3>1. "poll" \in Kinds /\ 0 \in Nat
      BY DEF Kinds
    <3> QED
      BY <1>1, <3>1, SentOK
  <2> HIDE DEF q
  <2>2. Sound(q, ops)
    BY <2>1 DEF Sound
  <2>3. "poll" \in Slots
    BY DEF Slots
  <2>4. RequestsOK' /\ CountsOK'
    BY <1>4, <2>1, <2>2, <2>3, OwnSlot DEF Poll, q
  <2> QED
    BY <1>3, <2>4, SameServer DEF Poll, IInv
<1>5. CASE UNCHANGED req
  BY <1>3, <1>5, SameServer DEF Poll, IInv, RequestsOK, CountsOK
<1> QED
  BY <1>4, <1>5 DEF Poll

------------------------------------------------------------------------------
\* The server.

\* A room changed in place keeps the rooms' shape.
LEMMA RoomSet ==
  ASSUME ServerOK, NEW c \in DOMAIN rooms, NEW r, RoomOK(r), rooms' = [rooms EXCEPT ![c] = r],
         of' = [m \in Users |-> IF m \in r.members THEN c ELSE of[m]], used' = used,
         kept' \in [Codes -> SUBSET (1..MaxOps + 2)]
  PROVE  ServerOK'
<1>1. DOMAIN rooms' = DOMAIN rooms /\ \A d \in DOMAIN rooms : RoomOK(rooms'[d])
  BY DEF ServerOK
<1>2. c \in Codes /\ of' \in [Users -> Codes \cup {None}]
  BY DEF ServerOK
<1> QED
  BY <1>1, <1>2 DEF ServerOK

LEMMA ExecIInv ==
  ASSUME IInv, NEW u \in Users, NEW s \in Slots, Exec(u, s)
  PROVE  IInv'
<1> DEFINE q == req[u][s]
           c == q.code
           outcomes == Changed(Settled(q.snap), u, q)
<1>1. q \in Requests /\ Sound(q, ops) /\ q.pc = "read"
  BY DEF Exec, IInv, RequestsOK
<1>2. ops \in Nat /\ ops \in 0..MaxOps
  BY JamAssumption DEF IInv, CountsOK
<1>3. RoomOK(q.snap) /\ q.kind \in Mutating \cup {"join"}
      /\ (q.kind = "add" => q.index \in 1..MaxOps + 2)
  BY <1>1, <1>2, JamAssumption DEF Sound
<1>4. AppsOK' /\ UNCHANGED <<ops, faults>>
  BY SameApps DEF Exec, IInv
<1>5. \/ Send(u, s, Plain(q, "refused")) /\ UNCHANGED server
      \/ Send(u, s, [q EXCEPT !.pc = IF q.kind = "join" THEN "main" ELSE "sent",
                              !.snap = NoRoom])
         /\ UNCHANGED server
      \/ \E r \in outcomes :
           /\ Watched(c, q.snap)
           /\ rooms' = [rooms EXCEPT ![c] = r]
           /\ of' = [m \in Users |-> IF m \in r.members THEN c ELSE of[m]]
           /\ kept' = [kept EXCEPT ![c] =
                         (@ \cup Ids(r.items)) \ (Ids(q.snap.items) \ Ids(r.items))]
           /\ Send(u, s, Answered(q, "ok", c, r))
           /\ used' = used
  BY DEF Exec
<1> HIDE DEF q, outcomes
<1>6. CASE Send(u, s, Plain(q, "refused")) /\ UNCHANGED server
  <2> DEFINE x == Plain(q, "refused")
  <2>1. x \in Requests /\ Sound(x, ops)
    BY <1>1, PlainOK
  <2> HIDE DEF x
  <2>2. RequestsOK' /\ CountsOK'
    BY <1>4, <1>6, <2>1, OwnSlot DEF x
  <2> QED
    BY <1>4, <1>6, <2>2, SameServer DEF IInv
<1>7. CASE Send(u, s, [q EXCEPT !.pc = IF q.kind = "join" THEN "main" ELSE "sent",
                                !.snap = NoRoom])
           /\ UNCHANGED server
  <2> DEFINE p == IF q.kind = "join" THEN "main" ELSE "sent"
             x == [q EXCEPT !.pc = p, !.snap = NoRoom]
  <2>1. NoRoom \in [host : Codes \cup {None}] /\ p \in {"main", "sent"}
    BY DEF NoRoom
  <2>2. Send(u, s, x)
    BY <1>7
  <2> HIDE DEF p
  <2>3. x \in Requests /\ Sound(x, ops)
    BY <1>1, <2>1 DEF Requests, Sound
  <2> HIDE DEF x
  <2>4. RequestsOK' /\ CountsOK'
    BY <1>4, <2>2, <2>3, OwnSlot
  <2> QED
    BY <1>4, <1>7, <2>4, SameServer DEF IInv
<1>8. ASSUME NEW r \in outcomes, Watched(c, q.snap), rooms' = [rooms EXCEPT ![c] = r],
             of' = [m \in Users |-> IF m \in r.members THEN c ELSE of[m]],
             kept' = [kept EXCEPT ![c] =
                        (@ \cup Ids(r.items)) \ (Ids(q.snap.items) \ Ids(r.items))],
             Send(u, s, Answered(q, "ok", c, r)), used' = used
      PROVE  IInv'
  <2>1. RoomOK(r)
    BY <1>1, <1>3, SettledOK, ChangedOK DEF outcomes
  <2>2. c \in DOMAIN rooms /\ rooms[c] = q.snap /\ c \in Codes
    BY <1>8 DEF Watched, IInv, ServerOK
  <2>3. Ids(r.items) \subseteq 1..MaxOps + 2
    BY <2>1, IdsTyped DEF RoomOK, Room
  <2>4. kept[c] = Ids(q.snap.items)
    BY <2>2 DEF IInv, AcceptedStays
  <2>5. /\ kept' \in [Codes -> SUBSET (1..MaxOps + 2)] /\ kept'[c] = Ids(r.items)
        /\ \A d \in Codes : d # c => kept'[d] = kept[d]
    BY <1>8, <2>2, <2>3, <2>4 DEF IInv, ServerOK
  <2> HIDE DEF c
  <2>6. ServerOK'
    BY <1>8, <2>1, <2>2, <2>5, RoomSet DEF IInv
  <2>7. AcceptedStays'
    <3>1. DOMAIN rooms' = DOMAIN rooms /\ DOMAIN rooms \subseteq Codes
      BY <1>8 DEF IInv, ServerOK
    <3>2. \A d \in DOMAIN rooms : rooms'[d] = IF d = c THEN r ELSE rooms[d]
      BY <1>8
    <3> QED
      BY <2>5, <3>1, <3>2 DEF IInv, AcceptedStays
  <2> DEFINE x == Answered(q, "ok", c, r)
  <2>8. x \in Requests /\ Sound(x, ops)
    BY <1>1, <2>1, <2>2, AnsweredOK DEF RoomOK
  <2> HIDE DEF x
  <2>9. RequestsOK' /\ CountsOK'
    BY <1>4, <1>8, <2>8, OwnSlot DEF x
  <2> QED
    BY <1>4, <2>6, <2>7, <2>9 DEF IInv
<1> QED
  BY <1>5, <1>6, <1>7, <1>8


LEMMA GetIInv ==
  ASSUME IInv, NEW u \in Users, NEW s \in Slots, Get(u, s)
  PROVE  IInv'
<1> DEFINE q == req[u][s]
           code == IF q.kind = "resume" THEN of[u] ELSE q.code
<1>1. q \in Requests /\ Sound(q, ops) /\ of[u] \in Codes \cup {None}
  BY DEF IInv, RequestsOK, ServerOK
<1>2. code \in Codes \cup {None}
  BY <1>1 DEF Requests
<1>3. AppsOK' /\ UNCHANGED <<server, ops, faults>>
  BY SameApps DEF Get, IInv
<1>4. \/ code \in DOMAIN rooms /\ Send(u, s, Answered(q, "ok", code, Settled(rooms[code])))
      \/ \E status \in {"gone", "none"} : Send(u, s, Plain(q, status))
  BY DEF Get
<1> HIDE DEF q, code
<1>5. CASE code \in DOMAIN rooms /\ Send(u, s, Answered(q, "ok", code, Settled(rooms[code])))
  <2> DEFINE r == Settled(rooms[code])
             x == Answered(q, "ok", code, r)
  <2>1. r \in Room
    BY <1>5, SettledOK DEF IInv, ServerOK, RoomOK
  <2> HIDE DEF r
  <2>2. x \in Requests /\ Sound(x, ops)
    BY <1>1, <1>2, <2>1, AnsweredOK
  <2> HIDE DEF x
  <2>3. RequestsOK' /\ CountsOK'
    BY <1>3, <1>5, <2>2, OwnSlot DEF x, r
  <2> QED
    BY <1>3, <2>3, SameServer DEF IInv
<1>6. ASSUME NEW status \in {"gone", "none"}, Send(u, s, Plain(q, status)) PROVE IInv'
  <2> DEFINE x == Plain(q, status)
  <2>1. x \in Requests /\ Sound(x, ops)
    BY <1>1, PlainOK
  <2> HIDE DEF x
  <2>2. RequestsOK' /\ CountsOK'
    BY <1>3, <1>6, <2>1, OwnSlot DEF x
  <2> QED
    BY <1>3, <2>2, SameServer DEF IInv
<1> QED
  BY <1>4, <1>5, <1>6

LEMMA ReadIInv ==
  ASSUME IInv, NEW u \in Users, NEW s \in Slots, Read(u, s)
  PROVE  IInv'
<1> DEFINE q == req[u][s]
<1>1. q \in Requests /\ Sound(q, ops) /\ q.kind \in Mutating \cup {"join"}
  BY DEF Read, IInv, RequestsOK
<1>2. AppsOK' /\ UNCHANGED <<server, ops, faults>>
  BY SameApps DEF Read, IInv
<1>3. \/ q.code \in DOMAIN rooms
         /\ Send(u, s, [q EXCEPT !.pc = "read", !.snap = rooms[q.code]])
      \/ Send(u, s, Plain(q, "gone"))
  BY DEF Read
<1> HIDE DEF q
<1>4. CASE q.code \in DOMAIN rooms
           /\ Send(u, s, [q EXCEPT !.pc = "read", !.snap = rooms[q.code]])
  <2> DEFINE a == [q EXCEPT !.pc = "read"]
             x == [a EXCEPT !.snap = rooms[q.code]]
  <2>1. RoomOK(rooms[q.code]) /\ rooms[q.code] \in Room
    BY <1>4 DEF IInv, ServerOK, RoomOK
  <2>2. a \in Requests /\ a.kind = q.kind /\ a.pc = "read" /\ a.index = q.index
    BY <1>1, ReqPc
  <2>3. Send(u, s, x)
    BY <1>4
  <2> HIDE DEF a
  <2>4. /\ x \in Requests /\ x.kind = q.kind /\ x.pc = "read" /\ x.index = q.index
        /\ x.snap = rooms[q.code]
    BY <2>1, <2>2, ReqSnap
  <2> HIDE DEF x
  <2>5. Sound(x, ops)
    BY <1>1, <2>1, <2>4 DEF Sound
  <2>6. RequestsOK' /\ CountsOK'
    BY <1>2, <2>3, <2>4, <2>5, OwnSlot
  <2> QED
    BY <1>2, <2>6, SameServer DEF IInv
<1>5. CASE Send(u, s, Plain(q, "gone"))
  <2> DEFINE x == Plain(q, "gone")
  <2>1. x \in Requests /\ Sound(x, ops)
    BY <1>1, PlainOK
  <2> HIDE DEF x
  <2>2. RequestsOK' /\ CountsOK'
    BY <1>2, <1>5, <2>1, OwnSlot DEF x
  <2> QED
    BY <1>2, <2>2, SameServer DEF IInv
<1> QED
  BY <1>3, <1>4, <1>5

LEMMA EnterIInv ==
  ASSUME IInv, NEW u \in Users, NEW s \in Slots, Enter(u, s)
  PROVE  IInv'
<1> DEFINE q == req[u][s]
           p == IF of[u] \in {None, q.code} THEN "main" ELSE "drop"
           x == [q EXCEPT !.pc = p]
<1>1. q \in Requests /\ Sound(q, ops)
  BY DEF IInv, RequestsOK
<1>2. AppsOK' /\ UNCHANGED <<server, ops, faults>> /\ Send(u, s, x)
  BY SameApps DEF Enter, IInv
<1>3. p \in {"sent", "drop", "unkey", "main"}
  OBVIOUS
<1> HIDE DEF p, q
<1>4. x \in Requests /\ Sound(x, ops)
  BY <1>1, <1>3, StepOK
<1> HIDE DEF x
<1>5. RequestsOK' /\ CountsOK'
  BY <1>2, <1>4, OwnSlot
<1> QED
  BY <1>2, <1>5, SameServer DEF IInv

LEMMA GoOutIInv ==
  ASSUME IInv, NEW u \in Users, NEW s \in Slots, GoOut(u, s)
  PROVE  IInv'
<1> DEFINE q == req[u][s]
           c == IF q.pc = "drop" THEN of[u] ELSE q.code
           r == Left(Settled(rooms[c]), u)
<1>1. q \in Requests /\ Sound(q, ops)
  BY DEF IInv, RequestsOK
<1>2. AppsOK' /\ UNCHANGED <<used, kept, ops, faults>>
  BY SameApps DEF GoOut, IInv
<1>3. \/ /\ Send(u, s, After(q)) \/ Send(u, s, Plain(q, "gone"))
         /\ of' = of \/ of' = [of EXCEPT ![u] = None]
         /\ rooms' = rooms
      \/ /\ c \in DOMAIN rooms
         /\ Send(u, s, [q EXCEPT !.pc = "ending", !.saw = rooms[c].members, !.snap = [host |-> c]])
         /\ UNCHANGED <<rooms, of>>
      \/ /\ c \in DOMAIN rooms /\ rooms' = [rooms EXCEPT ![c] = r]
         /\ of' = [m \in Users |-> IF m \in r.members THEN c ELSE of[m]]
         /\ Send(u, s, [q EXCEPT !.pc = "unkey"])
  BY DEF GoOut
<1> HIDE DEF q, c, r
<1>4. CASE /\ Send(u, s, After(q)) \/ Send(u, s, Plain(q, "gone"))
           /\ of' = of \/ of' = [of EXCEPT ![u] = None]
           /\ rooms' = rooms
  <2>1. ServerOK' /\ AcceptedStays'
    BY <1>2, <1>4 DEF IInv, ServerOK, AcceptedStays
  <2> PICK x \in {After(q), Plain(q, "gone")} : Send(u, s, x)
    BY <1>4
  <2>2. x \in Requests /\ Sound(x, ops)
    BY <1>1, AfterOK, PlainOK
  <2>3. RequestsOK' /\ CountsOK'
    BY <1>2, <2>2, OwnSlot
  <2> QED
    BY <1>2, <2>1, <2>3 DEF IInv
<1>5. CASE /\ c \in DOMAIN rooms
           /\ Send(u, s, [q EXCEPT !.pc = "ending", !.saw = rooms[c].members,
                                   !.snap = [host |-> c]])
           /\ UNCHANGED <<rooms, of>>
  <2> DEFINE x == [q EXCEPT !.pc = "ending", !.saw = rooms[c].members, !.snap = [host |-> c]]
  <2>1. c \in Codes /\ rooms[c].members \in SUBSET Users
    BY <1>5 DEF IInv, ServerOK, RoomOK, Room
  <2>2. x \in Requests /\ Sound(x, ops)
    BY <1>1, <2>1, EndingOK
  <2>3. Send(u, s, x)
    BY <1>5
  <2> HIDE DEF x
  <2>4. RequestsOK' /\ CountsOK'
    BY <1>2, <2>2, <2>3, OwnSlot
  <2> QED
    BY <1>2, <1>5, <2>4, SameServer DEF IInv, server
<1>6. CASE /\ c \in DOMAIN rooms /\ rooms' = [rooms EXCEPT ![c] = r]
           /\ of' = [m \in Users |-> IF m \in r.members THEN c ELSE of[m]]
           /\ Send(u, s, [q EXCEPT !.pc = "unkey"])
  <2>1. RoomOK(r) /\ r.items = rooms[c].items
    BY <1>6, SettledOK, LeftOK DEF IInv, ServerOK, r
  <2>2. ServerOK'
    BY <1>2, <1>6, <2>1, RoomSet DEF IInv, ServerOK
  <2>3. AcceptedStays'
    <3>1. DOMAIN rooms' = DOMAIN rooms
          /\ \A d \in DOMAIN rooms : rooms'[d].items = rooms[d].items
      BY <1>6, <2>1
    <3> QED
      BY <1>2, <3>1 DEF IInv, AcceptedStays
  <2> DEFINE x == [q EXCEPT !.pc = "unkey"]
  <2>4. x \in Requests /\ Sound(x, ops)
    BY <1>1, StepOK
  <2> HIDE DEF x
  <2>5. RequestsOK' /\ CountsOK'
    BY <1>2, <1>6, <2>4, OwnSlot DEF x
  <2> QED
    BY <1>2, <2>2, <2>3, <2>5 DEF IInv
<1> QED
  BY <1>3, <1>4, <1>5, <1>6

LEMMA UnkeyIInv ==
  ASSUME IInv, NEW u \in Users, NEW s \in Slots, Unkey(u, s)
  PROVE  IInv'
<1> DEFINE q == req[u][s]
           x == After(q)
<1>1. q \in Requests /\ Sound(q, ops)
  BY DEF IInv, RequestsOK
<1>2. AppsOK' /\ UNCHANGED <<rooms, used, kept, ops, faults>> /\ Send(u, s, x)
      /\ of' = [of EXCEPT ![u] = None]
  BY SameApps DEF Unkey, IInv
<1> HIDE DEF q
<1>3. x \in Requests /\ Sound(x, ops)
  BY <1>1, AfterOK
<1> HIDE DEF x
<1>4. RequestsOK' /\ CountsOK'
  BY <1>2, <1>3, OwnSlot
<1>5. ServerOK' /\ AcceptedStays'
  BY <1>2 DEF IInv, ServerOK, AcceptedStays
<1> QED
  BY <1>2, <1>4, <1>5 DEF IInv

LEMMA LookUpIInv ==
  ASSUME IInv, NEW u \in Users, NEW s \in Slots, LookUp(u, s)
  PROVE  IInv'
<1> DEFINE q == req[u][s]
           x == IF q.code \notin DOMAIN rooms THEN Plain(q, "gone")
                ELSE [q EXCEPT !.pc = "ending", !.saw = rooms[q.code].members,
                               !.snap = [host |-> q.code]]
<1>1. q \in Requests /\ Sound(q, ops)
  BY DEF IInv, RequestsOK
<1>2. AppsOK' /\ UNCHANGED <<server, ops, faults>> /\ Send(u, s, x)
  BY SameApps DEF LookUp, IInv
<1> HIDE DEF q
<1>3. x \in Requests /\ Sound(x, ops)
  <2>1. CASE q.code \notin DOMAIN rooms
    BY <1>1, <2>1, PlainOK
  <2>2. CASE q.code \in DOMAIN rooms
    <3>1. q.code \in Codes /\ rooms[q.code].members \in SUBSET Users
      BY <2>2 DEF IInv, ServerOK, RoomOK, Room
    <3> QED
      BY <1>1, <2>2, <3>1, EndingOK
  <2> QED
    BY <2>1, <2>2
<1> HIDE DEF x
<1>4. RequestsOK' /\ CountsOK'
  BY <1>2, <1>3, OwnSlot
<1> QED
  BY <1>2, <1>4, SameServer DEF IInv

LEMMA DeleteIInv ==
  ASSUME IInv, NEW u \in Users, NEW s \in Slots, Delete(u, s)
  PROVE  IInv'
<1> DEFINE q == req[u][s]
           a == [q EXCEPT !.snap = NoRoom]
           x == After(a)
<1>1. q \in Requests /\ Sound(q, ops) /\ q.pc = "ending"
  BY DEF Delete, IInv, RequestsOK
<1>2. /\ AppsOK' /\ UNCHANGED <<used, kept, ops, faults>> /\ Send(u, s, x)
      /\ rooms' = [c \in DOMAIN rooms \ {q.snap.host} |-> rooms[c]]
      /\ of' = [m \in Users |-> IF m \in q.saw THEN None ELSE of[m]]
  BY SameApps DEF Delete, IInv
<1> HIDE DEF q
<1>3. NoRoom \in [host : Codes \cup {None}]
  BY DEF NoRoom
<1>4. a \in Requests /\ a.kind = q.kind /\ a.pc = "ending" /\ a.index = q.index
  BY <1>1, <1>3, ReqSnap
<1> HIDE DEF a
<1>5. Sound(a, ops)
  BY <1>1, <1>4 DEF Sound
<1>6. x \in Requests /\ Sound(x, ops)
  BY <1>4, <1>5, AfterOK
<1> HIDE DEF x
<1>7. RequestsOK' /\ CountsOK'
  BY <1>2, <1>6, OwnSlot
<1>8. ServerOK'
  BY <1>2 DEF IInv, ServerOK
<1>9. AcceptedStays'
  BY <1>2 DEF IInv, AcceptedStays
<1> QED
  BY <1>2, <1>7, <1>8, <1>9 DEF IInv

LEMMA CreateIInv ==
  ASSUME IInv, NEW u \in Users, NEW s \in Slots, NEW c \in Codes, Create(u, s, c)
  PROVE  IInv'
<1> DEFINE q == req[u][s]
           it == [id |-> q.index, by |-> u]
           room == NewRoom(u, <<it>>, 1, TRUE)
           x == Answered(q, "ok", c, room)
<1>1. q \in Requests /\ Sound(q, ops) /\ q.kind = "start"
  BY DEF Create, IInv, RequestsOK
<1>2. /\ AppsOK' /\ UNCHANGED <<ops, faults>> /\ Send(u, s, x) /\ c \notin used
      /\ rooms' = [d \in DOMAIN rooms \cup {c} |-> IF d = c THEN room ELSE rooms[d]]
      /\ used' = used \cup {c} /\ of' = [of EXCEPT ![u] = c]
      /\ kept' = [kept EXCEPT ![c] = {q.index}]
  BY SameApps DEF Create, IInv
<1>3. q.index \in 1..MaxOps + 2
  BY <1>1, JamAssumption DEF Sound, IInv, CountsOK
<1> HIDE DEF q
<1>4. it \in Item /\ it.id = q.index
  BY <1>3 DEF Item
<1> HIDE DEF it
<1>5. /\ room \in Room /\ room.items = <<it>> /\ room.index = 1
      /\ Len(<<it>>) = 1 /\ Ids(<<it>>) = {q.index}
  BY <1>4 DEF NewRoom, Room, Ids
<1> HIDE DEF room
<1>6. RoomOK(room)
  BY <1>5 DEF RoomOK, Fits
<1>7. ServerOK'
  BY <1>2, <1>3, <1>6 DEF IInv, ServerOK
<1>8. AcceptedStays'
  <2>1. \A d \in DOMAIN rooms : d # c /\ d \in Codes
    BY <1>2 DEF IInv, ServerOK
  <2>2. kept'[c] = {q.index} /\ \A d \in Codes : d # c => kept'[d] = kept[d]
    BY <1>2 DEF IInv, ServerOK
  <2>3. DOMAIN rooms' = DOMAIN rooms \cup {c} /\ rooms'[c] = room
        /\ \A d \in DOMAIN rooms : rooms'[d] = rooms[d]
    BY <1>2, <2>1
  <2> QED
    BY <1>5, <2>1, <2>2, <2>3 DEF IInv, AcceptedStays
<1>9. x \in Requests /\ Sound(x, ops)
  BY <1>1, <1>5, AnsweredOK
<1> HIDE DEF x
<1>10. RequestsOK' /\ CountsOK'
  BY <1>2, <1>9, OwnSlot
<1> QED
  BY <1>2, <1>7, <1>8, <1>10 DEF IInv

LEMMA TrackOverIInv ==
  ASSUME IInv, NEW c \in Codes, TrackOver(c)
  PROVE  IInv'
<1> DEFINE r == [rooms[c] EXCEPT !.over = TRUE]
<1>1. /\ c \in DOMAIN rooms /\ rooms' = [rooms EXCEPT ![c] = r]
      /\ UNCHANGED <<of, used, app, req, kept, history, faults>>
      /\ ops' = ops + 1 /\ ops' \in 0..MaxOps
  BY JamAssumption DEF TrackOver, Act, IInv, CountsOK
<1>2. rooms[c] \in Room /\ Fits(rooms[c])
  BY <1>1 DEF IInv, ServerOK, RoomOK
<1>3. r \in Room /\ r.items = rooms[c].items /\ r.index = rooms[c].index
  BY <1>2, OverRoom
<1> HIDE DEF r
<1>4. RoomOK(r)
  BY <1>2, <1>3 DEF RoomOK, Fits
<1>5. DOMAIN rooms' = DOMAIN rooms
      /\ \A d \in DOMAIN rooms : RoomOK(rooms'[d]) /\ rooms'[d].items = rooms[d].items
  BY <1>1, <1>3, <1>4 DEF IInv, ServerOK
<1>6. ServerOK' /\ AcceptedStays'
  BY <1>1, <1>5 DEF IInv, ServerOK, AcceptedStays
<1>7. RequestsOK'
  <2>1. ops \in Nat
    BY JamAssumption DEF IInv, CountsOK
  <2> QED
    BY <1>1, <2>1 DEF IInv, RequestsOK, Sound
<1>8. AppsOK' /\ CountsOK'
  BY <1>1, SameApps DEF IInv, CountsOK
<1> QED
  BY <1>6, <1>7, <1>8 DEF IInv

------------------------------------------------------------------------------
\* Answers.

LEMMA TakeIInv ==
  ASSUME IInv, NEW u \in Users, NEW s \in Slots, Take(u, s) \/ Lose(u, s)
  PROVE  IInv'
<1> DEFINE q == req[u][s]
<1>1. q \in Requests /\ Sound(q, ops) /\ app[u] \in Apps
  BY DEF IInv, RequestsOK, AppsOK
<1>2. UNCHANGED <<server, ops>> /\ Send(u, s, Idle)
  BY DEF Take, TakeIn, TakeGone, TakeRest, Lose, Forget, Send
<1>3. ServerOK' /\ AcceptedStays'
  BY <1>2, SameServer DEF IInv
<1>4. RequestsOK'
  <2>1. ops \in Nat /\ ops' = ops
    BY <1>2, JamAssumption DEF IInv, CountsOK
  <2>2. Idle \in Requests /\ Sound(Idle, ops') /\ ops <= ops' /\ ops' \in Nat
    BY <2>1, IdleOK
  <2> QED
    BY <1>2, <2>2, SlotSet DEF IInv
<1>5. CASE TakeIn(u, s)
  <2>1. q.answer \in Answers /\ q.answer.room \in Room
    BY <1>1, <1>5 DEF TakeIn, Sound, Requests
  <2>2. q.answer.code \in Codes \cup {None}
    BY <2>1 DEF Answers
  <2>3. Scheduled(Apply(app[u], u, q.answer)) \in Apps
    BY <1>1, <2>1, ApplyOK
  <2>4. /\ app' = [app EXCEPT ![u] = Scheduled(Apply(app[u], u, q.answer))]
        /\ crossed' = [crossed EXCEPT ![u] = @ \/ Late(app[u], q)]
        /\ meant' = [meant EXCEPT ![u] = IF q.kind \in {"start", "resume"} THEN q.answer.code
                                                                           ELSE @]
        /\ faults' = faults
    BY <1>5 DEF TakeIn, IInv, AppsOK
  <2> HIDE DEF q
  <2>5. AppsOK'
    BY <2>2, <2>3, <2>4 DEF IInv, AppsOK
  <2> QED
    BY <1>2, <1>3, <1>4, <2>4, <2>5 DEF IInv, CountsOK
<1>6. CASE TakeGone(u, s)
  <2>1. AppsOK' /\ faults' = faults
    BY <1>6, AwayOK DEF TakeGone, IInv, AppsOK, history
  <2> QED
    BY <1>2, <1>3, <1>4, <2>1 DEF IInv, CountsOK
<1>7. CASE TakeRest(u, s)
  <2>1. AppsOK' /\ faults' = faults
    BY <1>7, SameApps DEF TakeRest, IInv
  <2> QED
    BY <1>2, <1>3, <1>4, <2>1 DEF IInv, CountsOK
<1>8. CASE Lose(u, s)
  <2>1. Retried(app[u]) \in Apps
    BY <1>1 DEF Retried, Scheduled, Apps
  <2>2. AppsOK'
    BY <1>8, <2>1 DEF Lose, IInv, AppsOK, history
  <2>3. faults' \in 0..MaxFaults
    BY <1>8, JamAssumption DEF Lose, IInv, CountsOK
  <2> QED
    BY <1>2, <1>3, <1>4, <2>2, <2>3 DEF IInv, CountsOK
<1> QED
  BY <1>5, <1>6, <1>7, <1>8 DEF Take

------------------------------------------------------------------------------

LEMMA HandleIInv ==
  ASSUME IInv, NEW u \in Users, NEW s \in Slots, Handle(u, s)
  PROVE  IInv'
BY GetIInv, ReadIInv, ExecIInv, EnterIInv, GoOutIInv, UnkeyIInv, LookUpIInv, DeleteIInv,
   CreateIInv DEF Handle

LEMMA StutterIInv ==
  ASSUME IInv, UNCHANGED vars
  PROVE  IInv'
BY DEF IInv, ServerOK, AcceptedStays, AppsOK, RequestsOK, CountsOK, vars, history

LEMMA NextIInv ==
  ASSUME IInv, Next
  PROVE  IInv'
BY ListenerIInv, PollIInv, HandleIInv, TakeIInv, TrackOverIInv DEF Next

\* The inductive invariant: rooms keep their shape, requests hold what their step needs,
\* and no accepted change is undone.
THEOREM Inductive == Spec => []IInv
<1>1. Init => IInv
  BY InitIInv
<1>2. IInv /\ [Next]_vars => IInv'
  BY NextIInv, StutterIInv
<1> QED
  BY <1>1, <1>2, PTL DEF Spec

LEMMA IInvTyped == IInv => TypeOK
<1> SUFFICES ASSUME IInv PROVE TypeOK
  OBVIOUS
<1>1. \A u \in Users :
        /\ app[u].jam \in Codes \cup {None} /\ app[u].items \in Seq(Item)
        /\ app[u].timer \in BOOLEAN
  BY DEF IInv, AppsOK, Apps
<1>2. \A u \in Users : \A s \in Slots : req[u][s].pc \in
        {"idle", "sent", "read", "drop", "ending", "unkey", "main", "answered"}
  BY DEF IInv, RequestsOK, Requests
<1> QED
  BY <1>1, <1>2 DEF IInv, ServerOK, AppsOK, CountsOK, RoomOK, TypeOK

\* Every room is well-formed and its playhead on a track of its queue, whatever
\* listeners add, remove and skip at once (services/jams.py control, add, remove, settle).
THEOREM TypeCorrect == Spec => []TypeOK
BY Inductive, IInvTyped, PTL

\* Whatever was accepted into a queue is there until somebody removes it (_mutate()'s
\* WATCH/MULTI), for any number of listeners and of commands under way.
THEOREM NothingUndone == Spec => []AcceptedStays
<1>1. IInv => AcceptedStays
  BY DEF IInv
<1> QED
  BY <1>1, Inductive, PTL

------------------------------------------------------------------------------
(* The queues the apps show *)

Entering(q) == q.kind \in {"join", "start", "resume"}

\* No app has two requests under way that would put it into a room.
OneEntry == \A u \in Users, s, t \in Slots : Entering(req[u][s]) /\ Entering(req[u][t]) => s = t

\* x holds the queue of r, or an older one.
Copies(x, r) == x.qrev <= r.qrev /\ (x.qrev = r.qrev => x.items = r.items)

Told(q) == q.pc = "answered" /\ q.answer.status = "ok"

\* What a request knows and was told, against the rooms rs and the codes us given out.
Good(q, rs, us) ==
  /\ q.code \in us \cup {None}
  /\ q.kind = "join" => q.code \in us
  /\ q.code \in DOMAIN rs => q.known <= rs[q.code].qrev
  /\ Told(q) =>
       /\ q.answer.code \in us
       /\ q.answer.code \in DOMAIN rs => Copies(q.answer.room, rs[q.answer.code])
       /\ q.kind \notin {"start", "resume"} => q.answer.code = q.code
       /\ q.answer.full \/ (q.known = q.answer.room.qrev /\ ~Entering(q))

AppGood(a, rs, us) ==
  /\ a.jam \in us \cup {None}
  /\ a.jam \in DOMAIN rs => a.qrev <= rs[a.jam].qrev

HasCopy(a, rs) == a.jam \in DOMAIN rs => Copies(a, rs[a.jam])

\* An app and the requests it has under way, when no answer it took in was late.
InOrder(a, row) ==
  \A s \in Slots :
    /\ a.jam # None /\ row[s].code = a.jam => row[s].known <= a.qrev
    /\ row[s].kind = "join" => a.jam # row[s].code
    /\ row[s].kind \in {"start", "resume"} => a.jam = None
    /\ Entering(row[s]) /\ Told(row[s]) =>
         \A t \in Slots :
           row[t].code = row[s].answer.code => row[t].known <= row[s].answer.room.qrev

UserOK(a, row, late, rs, us) ==
  /\ AppGood(a, rs, us)
  /\ \A s \in Slots : Good(row[s], rs, us) /\ (Entering(row[s]) => s \in Commands)
  /\ ~late => HasCopy(a, rs) /\ InOrder(a, row)

QInv == \A u \in Users : UserOK(app[u], req[u], crossed[u], rooms, used)

\* Rooms only ever get newer queues, and a code is given out once.
Grows(rs, us, rs2, us2) ==
  /\ us \subseteq us2
  /\ \A c \in DOMAIN rs2 :
       IF c \in DOMAIN rs THEN Copies(rs[c], rs2[c]) ELSE c \notin us \cup {None}

Rooms(rs) == \A c \in DOMAIN rs : rs[c] \in Room
Row(row) ==
  /\ row \in [Slots -> Requests]
  /\ \A s \in Slots : Told(row[s]) => row[s].answer.room \in Room

------------------------------------------------------------------------------
\* A queue in place of another.

\* A copy of a copy is a copy.
LEMMA CopiesTrans ==
  ASSUME NEW x, NEW r \in Room, NEW y \in Room, x.qrev \in Nat, Copies(x, r), Copies(r, y)
  PROVE  Copies(x, y)
BY DEF Copies, Room

\* A room that kept its queue and number.
LEMMA KeepsQueue ==
  ASSUME NEW r \in Room, NEW y \in Room, y.items = r.items, y.qrev = r.qrev
  PROVE  Copies(r, y)
BY DEF Copies, Room

\* A room whose queue got a new number.
LEMMA NewQueue ==
  ASSUME NEW r \in Room, NEW y \in Room, y.qrev = r.qrev + 1
  PROVE  Copies(r, y)
BY DEF Copies, Room

\* Only Edited gives a queue a new number.
LEMMA QrevKept ==
  ASSUME NEW r \in Room
  PROVE  /\ Bumped(r).qrev = r.qrev /\ Edited(r).qrev = r.qrev + 1
         /\ Settled(r).qrev = r.qrev
         /\ \A i : GoTo(r, i).qrev = r.qrev
         /\ \A i, x : Inserted(r, i, x).qrev = r.qrev
         /\ \A i : CloseUp(r, i).qrev = r.qrev
<1>1. Bumped(r).qrev = r.qrev /\ Edited(r).qrev = r.qrev + 1
  BY DEF Bumped, Edited, Room
<1>2. Settled(r).qrev = r.qrev
  BY DEF Settled, Room
<1>3. \A i : GoTo(r, i).qrev = r.qrev
  BY DEF GoTo, Room
<1>4. \A i, x : Inserted(r, i, x).qrev = r.qrev
  BY DEF Inserted, Room
<1>5. \A i : CloseUp(r, i).qrev = r.qrev
  BY DEF CloseUp, Room
<1> QED
  BY <1>1, <1>2, <1>3, <1>4, <1>5

\* The transport commands leave the queue alone.
LEMMA SameQueueControlled ==
  ASSUME NEW r, RoomOK(r), NEW u \in Users, NEW q \in Requests,
         q.kind \in {"play", "pause", "next", "ended", "previous", "jump"},
         NEW x \in Controlled(r, u, q)
  PROVE  x.items = r.items /\ x.qrev = r.qrev
<1>1. r \in Room
  BY DEF RoomOK
<1>2. ASSUME NEW b \in BOOLEAN
      PROVE  LET y == Bumped([r EXCEPT !.playing = b]) IN y.items = r.items /\ y.qrev = r.qrev
  BY <1>1 DEF Bumped, Room
<1>3. ASSUME NEW i \in Nat \ {0}
      PROVE  LET y == Bumped(GoTo(r, i)) IN y.items = r.items /\ y.qrev = r.qrev
  <2> DEFINE y == GoTo(r, i)
  <2>1. y \in Room /\ y.items = r.items /\ y.qrev = r.qrev
    BY <1>1, GoToRoom, QrevKept
  <2> HIDE DEF y
  <2>2. Bumped(y).items = y.items /\ Bumped(y).qrev = y.qrev
    BY <2>1, BumpedRoom, QrevKept
  <2> QED
    BY <2>1, <2>2 DEF y
<1>4. LET y == Bumped([r EXCEPT !.over = FALSE]) IN y.items = r.items /\ y.qrev = r.qrev
  BY <1>1 DEF Bumped, Room
<1>5. r.index \in Nat \ {0} /\ r.index + 1 \in Nat \ {0} /\ Len(r.items) \in Nat
  BY <1>1 DEF Room
<1>6. \A y \in Skipped(r) : y.items = r.items /\ y.qrev = r.qrev
  BY <1>2, <1>3, <1>5 DEF Skipped
<1>7. \A on \in BOOLEAN : \A y \in Played(r, on) : y.items = r.items /\ y.qrev = r.qrev
  BY <1>2 DEF Played
<1>8. \A y \in WentBack(r) : y.items = r.items /\ y.qrev = r.qrev
  BY <1>3, <1>4, <1>5 DEF WentBack
<1>9. CASE q.kind = "play"
  BY <1>7, <1>9 DEF Controlled
<1>10. CASE q.kind = "pause"
  BY <1>7, <1>10 DEF Controlled
<1>11. CASE q.kind = "next"
  BY <1>6, <1>11 DEF Controlled
<1>12. CASE q.kind = "ended"
  BY <1>6, <1>12 DEF Controlled
<1>13. CASE q.kind = "previous"
  BY <1>8, <1>13 DEF Controlled
<1>14. CASE q.kind = "jump"
  BY <1>3, <1>14 DEF Controlled
<1> QED
  BY <1>9, <1>10, <1>11, <1>12, <1>13, <1>14

\* An addition gives the queue a new number.
LEMMA NewQueueAdded ==
  ASSUME NEW r, RoomOK(r), NEW u \in Users, NEW id \in 1..MaxOps + 2, NEW x \in Added(r, u, id)
  PROVE  x.qrev = r.qrev + 1
<1> DEFINE it == [id |-> id, by |-> u]
<1>1. r \in Room /\ r.items \in Seq(Item) /\ r.index \in Nat \ {0} /\ Len(r.items) \in Nat
  BY DEF RoomOK, Room
<1>2. it \in Item
  BY DEF Item
<1>3. ASSUME NEW i \in 1..(Len(r.items) + 1)
      PROVE  Inserted(r, i, it) \in Room /\ Inserted(r, i, it).qrev = r.qrev
  <2> DEFINE t == SubSeq(r.items, 1, i - 1) \o <<it>> \o SubSeq(r.items, i, Len(r.items))
  <2>1. t \in Seq(Item)
    BY <1>1, <1>2, ItemAdded
  <2>2. Inserted(r, i, it) = [r EXCEPT !.items = t]
    BY <1>1 DEF Inserted, Room
  <2> HIDE DEF t
  <2> QED
    BY <1>1, <2>1, <2>2, ItemsRoom, QrevKept
<1>4. ASSUME NEW i \in 1..(Len(r.items) + 1), NEW j \in Nat \ {0}
      PROVE  /\ Edited(Inserted(r, i, it)).qrev = r.qrev + 1
             /\ Edited(GoTo(Inserted(r, i, it), j)).qrev = r.qrev + 1
  <2> DEFINE y == Inserted(r, i, it)
  <2>1. y \in Room /\ y.qrev = r.qrev
    BY <1>3
  <2> HIDE DEF y
  <2> DEFINE z == GoTo(y, j)
  <2>2. z \in Room /\ z.qrev = r.qrev
    BY <2>1, GoToRoom, QrevKept
  <2> HIDE DEF z
  <2>3. Edited(y).qrev = r.qrev + 1 /\ Edited(z).qrev = r.qrev + 1
    BY <2>1, <2>2, QrevKept
  <2> QED
    BY <2>3 DEF y, z
<1>5. CASE r.items = <<>>
  <2>1. x = Edited(GoTo(Inserted(r, 1, it), 1))
    BY <1>5 DEF Added
  <2> QED
    BY <1>1, <1>4, <2>1
<1>6. CASE r.items # <<>>
  <2>1. Len(r.items) + 1 \in 1..(Len(r.items) + 1) /\ r.index + 1 \in 1..(Len(r.items) + 1)
    BY <1>1, <1>6 DEF RoomOK, Fits
  <2>2. \/ x = Edited(Inserted(r, Len(r.items) + 1, it))
        \/ x = Edited(Inserted(r, r.index + 1, it))
        \/ x = Edited(GoTo(Inserted(r, r.index + 1, it), r.index + 1))
    BY <1>6 DEF Added
  <2> QED
    BY <1>1, <1>4, <2>1, <2>2
<1> QED
  BY <1>5, <1>6

\* So does a removal.
LEMMA NewQueueRemoved ==
  ASSUME NEW r, RoomOK(r), NEW u \in Users, NEW i \in Nat, NEW x \in Removed(r, u, i)
  PROVE  x.qrev = r.qrev + 1
<1>1. r \in Room /\ r.items \in Seq(Item) /\ r.index \in Nat \ {0} /\ Len(r.items) \in Nat
  BY DEF RoomOK, Room
<1>2. i \in 1..Len(r.items) /\ i # r.index /\ x = Edited(CloseUp(r, i))
  BY DEF Removed
<1> DEFINE y == CloseUp(r, i)
<1>3. y.qrev = r.qrev
  BY <1>1, QrevKept
<1>4. DOMAIN y = DOMAIN r
  BY DEF CloseUp
<1>5. "qrev" \in DOMAIN y
  BY <1>1, <1>4 DEF Room
<1> HIDE DEF y
<1>6. Edited(y).qrev = y.qrev + 1
  BY <1>5 DEF Edited
<1> QED
  BY <1>2, <1>3, <1>6 DEF y

\* A command leaves the queue as it is or gives it a new number.
LEMMA ChangedQueue ==
  ASSUME NEW r, RoomOK(r), NEW u \in Users, NEW q \in Requests,
         q.kind \in Mutating \cup {"join"}, q.kind = "add" => q.index \in 1..MaxOps + 2,
         NEW x \in Changed(r, u, q)
  PROVE  Copies(r, x)
<1>1. q.index \in Nat /\ r \in Room /\ x \in Room
  BY ChangedOK DEF Requests, RoomOK
<1>2. CASE q.kind = "add"
  BY <1>1, <1>2, NewQueueAdded, NewQueue DEF Changed
<1>3. CASE q.kind = "remove"
  BY <1>1, <1>3, NewQueueRemoved, NewQueue DEF Changed
<1>4. CASE q.kind = "configure"
  <2> DEFINE y == [r EXCEPT !.guests = ~@]
  <2>1. x = Bumped(y)
    BY <1>4 DEF Changed, Configured
  <2>2. y \in Room /\ y.items = r.items /\ y.qrev = r.qrev
    BY <1>1 DEF Room
  <2> HIDE DEF y
  <2> QED
    BY <1>1, <2>1, <2>2, BumpedRoom, QrevKept, KeepsQueue
<1>5. CASE q.kind = "join"
  <2> DEFINE y == [r EXCEPT !.members = @ \cup {u}]
  <2>1. x = r \/ x = Bumped(y)
    BY <1>5 DEF Changed, Joined
  <2>2. y \in Room /\ y.items = r.items /\ y.qrev = r.qrev
    BY <1>1 DEF Room
  <2> HIDE DEF y
  <2> QED
    BY <1>1, <2>1, <2>2, BumpedRoom, QrevKept, KeepsQueue
<1>6. CASE q.kind \in {"play", "pause", "next", "ended", "previous", "jump"}
  <2>1. x \in Controlled(r, u, q)
    BY <1>6 DEF Changed
  <2> QED
    BY <1>1, <1>6, <2>1, SameQueueControlled, KeepsQueue
<1> QED
  BY <1>2, <1>3, <1>4, <1>5, <1>6 DEF Mutating

\* Leaving leaves the queue alone.
LEMMA LeftQueue ==
  ASSUME NEW r, RoomOK(r), NEW u \in Users
  PROVE  Copies(r, Left(r, u))
<1> DEFINE y == [r EXCEPT !.members = @ \ {u}]
<1>1. Left(r, u) = r \/ Left(r, u) = Bumped(y)
  BY DEF Left
<1>2. r \in Room /\ y \in Room /\ y.items = r.items /\ y.qrev = r.qrev
  BY DEF RoomOK, Room
<1> HIDE DEF y
<1> QED
  BY <1>1, <1>2, BumpedRoom, QrevKept, KeepsQueue

------------------------------------------------------------------------------
\* What a handler's step leaves of a request.

Same(x, q) == x.kind = q.kind /\ x.code = q.code /\ x.known = q.known

\* An answer without a room keeps what the request was for.
LEMMA PlainSame ==
  ASSUME NEW q \in Requests, NEW status \in {"none", "gone", "refused", "done"}
  PROVE  Same(Plain(q, status), q) /\ ~Told(Plain(q, status))
BY DEF Requests, Answers, Plain, Same, Told

\* An answer with a room: what it carries, and the queue when the app knows another.
LEMMA AnsweredSame ==
  ASSUME NEW q \in Requests, NEW code, NEW r
  PROVE  LET x == Answered(q, "ok", code, r) IN
         /\ Same(x, q) /\ x.answer.code = code /\ x.answer.room = r
         /\ x.answer.full \/ (q.known = r.qrev /\ ~Entering(q))
BY DEF Requests, Answered, Same, Entering

\* A step within a handler.
LEMMA StepSame ==
  ASSUME NEW q \in Requests, NEW p \in {"sent", "read", "drop", "ending", "unkey", "main"}
  PROVE  LET x == [q EXCEPT !.pc = p] IN Same(x, q) /\ ~Told(x)
BY DEF Requests, Same, Told

\* The same, with what was read.
LEMMA SnapSame ==
  ASSUME NEW q \in Requests, NEW p \in {"sent", "read", "main"}, NEW r
  PROVE  LET x == [q EXCEPT !.pc = p, !.snap = r] IN Same(x, q) /\ ~Told(x)
BY DEF Requests, Same, Told

\* The same, with who was in the room.
LEMMA EndingSame ==
  ASSUME NEW q \in Requests, NEW m, NEW r
  PROVE  LET x == [q EXCEPT !.pc = "ending", !.saw = m, !.snap = r] IN Same(x, q) /\ ~Told(x)
BY DEF Requests, Same, Told

\* The request goes on once the listener is out of the old room.
LEMMA AfterSame ==
  ASSUME NEW q \in Requests
  PROVE  Same(After(q), q) /\ ~Told(After(q))
<1>1. CASE q.kind \in {"start", "join"}
  BY <1>1 DEF After, Requests, Same, Told
<1>2. CASE q.kind \notin {"start", "join"}
  BY <1>2, PlainSame DEF After
<1> QED
  BY <1>1, <1>2

\* A request just sent has been told nothing.
LEMMA SentIs ==
  ASSUME NEW kind, NEW code, NEW index, NEW known
  PROVE  LET x == Sent(kind, code, index, known) IN
         x.kind = kind /\ x.code = code /\ x.known = known /\ x.pc = "sent" /\ ~Told(x)
BY DEF Sent, Idle, Told

\* A free slot holds no request.
LEMMA IdleIs ==
  Idle.kind = "none" /\ Idle.code = None /\ Idle.known = 0 /\ ~Told(Idle) /\ ~Entering(Idle)
BY DEF Idle, Told, Entering

------------------------------------------------------------------------------
\* What stays true as the rooms grow.

\* A request stays good as the rooms go on.
LEMMA GoodKept ==
  ASSUME NEW rs, NEW us, NEW rs2, NEW us2, Rooms(rs), Rooms(rs2), Grows(rs, us, rs2, us2),
         NEW q \in Requests, Told(q) => q.answer.room \in Room, Good(q, rs, us)
  PROVE  Good(q, rs2, us2)
<1>1. q.known \in Nat
  BY DEF Requests
<1>2. ASSUME q.code \in DOMAIN rs2 PROVE q.known <= rs2[q.code].qrev
  <2>1. q.code \in DOMAIN rs /\ Copies(rs[q.code], rs2[q.code])
    BY <1>2 DEF Good, Grows
  <2>2. q.known <= rs[q.code].qrev /\ rs[q.code].qrev \in Nat /\ rs2[q.code].qrev \in Nat
    BY <1>2, <2>1 DEF Good, Rooms, Room
  <2> QED
    BY <1>1, <2>1, <2>2 DEF Copies
<1>3. ASSUME Told(q), q.answer.code \in DOMAIN rs2
      PROVE  Copies(q.answer.room, rs2[q.answer.code])
  <2> DEFINE c == q.answer.code
  <2>1. c \in DOMAIN rs /\ Copies(rs[c], rs2[c])
    BY <1>3 DEF Good, Grows
  <2>2. Copies(q.answer.room, rs[c]) /\ rs[c] \in Room /\ rs2[c] \in Room
    BY <1>3, <2>1 DEF Good, Rooms
  <2>3. q.answer.room.qrev \in Nat
    BY <1>3 DEF Room
  <2> QED
    BY <2>1, <2>2, <2>3, CopiesTrans
<1>4. us \subseteq us2
  BY DEF Grows
<1> QED
  BY <1>2, <1>3, <1>4 DEF Good

\* So does what an app has.
LEMMA AppKept ==
  ASSUME NEW rs, NEW us, NEW rs2, NEW us2, Rooms(rs), Rooms(rs2), Grows(rs, us, rs2, us2),
         NEW a \in Apps, AppGood(a, rs, us)
  PROVE  AppGood(a, rs2, us2) /\ (HasCopy(a, rs) => HasCopy(a, rs2))
<1>1. a.qrev \in Nat
  BY DEF Apps
<1>2. ASSUME a.jam \in DOMAIN rs2
      PROVE  /\ a.qrev <= rs2[a.jam].qrev
             /\ HasCopy(a, rs) => Copies(a, rs2[a.jam])
  <2>1. a.jam \in DOMAIN rs /\ Copies(rs[a.jam], rs2[a.jam])
    BY <1>2 DEF AppGood, Grows
  <2>2. a.qrev <= rs[a.jam].qrev /\ rs[a.jam] \in Room /\ rs2[a.jam] \in Room
    BY <1>2, <2>1 DEF AppGood, Rooms
  <2>3. a.qrev <= rs2[a.jam].qrev
    BY <1>1, <2>1, <2>2 DEF Copies, Room
  <2>4. HasCopy(a, rs) => Copies(a, rs2[a.jam])
    BY <1>1, <2>1, <2>2, CopiesTrans DEF HasCopy
  <2> QED
    BY <2>3, <2>4
<1>3. us \subseteq us2
  BY DEF Grows
<1> QED
  BY <1>2, <1>3 DEF AppGood, HasCopy

\* And so the listener's whole state.
LEMMA UserKept ==
  ASSUME NEW rs, NEW us, NEW rs2, NEW us2, Rooms(rs), Rooms(rs2), Grows(rs, us, rs2, us2),
         NEW a \in Apps, NEW row, Row(row), NEW late, UserOK(a, row, late, rs, us)
  PROVE  UserOK(a, row, late, rs2, us2)
<1>1. AppGood(a, rs2, us2) /\ (HasCopy(a, rs) => HasCopy(a, rs2))
  BY AppKept DEF UserOK
<1>2. \A s \in Slots : Good(row[s], rs2, us2)
  BY GoodKept DEF UserOK, Row
<1> QED
  BY <1>1, <1>2 DEF UserOK

\* Rooms that stand still grow.
LEMMA StandingStill ==
  ASSUME NEW rs, NEW us, Rooms(rs)
  PROVE  Grows(rs, us, rs, us)
BY DEF Grows, Copies, Rooms, Room

\* What the inductive invariant says of types, in the form used here.
LEMMA Typed ==
  ASSUME IInv
  PROVE  /\ Rooms(rooms) /\ DOMAIN rooms \subseteq used /\ used \subseteq Codes
         /\ None \notin used
         /\ \A u \in Users : app[u] \in Apps /\ Row(req[u])
<1>1. Rooms(rooms) /\ DOMAIN rooms \subseteq used /\ used \subseteq Codes /\ None \notin used
  BY JamAssumption DEF IInv, ServerOK, RoomOK, Rooms
<1>2. \A u \in Users : app[u] \in Apps /\ Row(req[u])
  BY DEF IInv, AppsOK, RequestsOK, Sound, Row, Told
<1> QED
  BY <1>1, <1>2

\* A step of one listener or of its handlers: the others keep what they have.
LEMMA OthersKeep ==
  ASSUME IInv, IInv', QInv, Grows(rooms, used, rooms', used'), NEW u \in Users,
         \A v \in Users \ {u} : app'[v] = app[v] /\ req'[v] = req[v] /\ crossed'[v] = crossed[v],
         UserOK(app'[u], req'[u], crossed'[u], rooms', used')
  PROVE  QInv'
<1>1. Rooms(rooms) /\ Rooms(rooms') /\ \A v \in Users : app[v] \in Apps /\ Row(req[v])
  <2>1. Rooms(rooms) /\ \A v \in Users : app[v] \in Apps /\ Row(req[v])
    BY Typed
  <2>2. Rooms(rooms')
    BY DEF IInv, ServerOK, RoomOK, Rooms
  <2> QED
    BY <2>1, <2>2
<1>2. ASSUME NEW v \in Users \ {u}
      PROVE  UserOK(app'[v], req'[v], crossed'[v], rooms', used')
  <2>1. UserOK(app[v], req[v], crossed[v], rooms, used)
    BY <1>2 DEF QInv
  <2>2. UserOK(app[v], req[v], crossed[v], rooms', used')
    BY <1>1, <2>1, UserKept
  <2> QED
    BY <1>2, <2>2
<1> QED
  BY <1>2 DEF QInv

------------------------------------------------------------------------------
\* One listener: a request is served, sent, given up, its answer taken in.

\* A handler's step for one request, which may answer it from the room as it is.
LEMMA Served ==
  ASSUME NEW rs, NEW us, NEW a \in Apps, NEW row, Row(row), NEW late,
         UserOK(a, row, late, rs, us), NEW s \in Slots, NEW x \in Requests, Same(x, row[s]),
         Good(x, rs, us),
         Told(x) => x.answer.code \in DOMAIN rs
                    /\ x.answer.room.qrev = rs[x.answer.code].qrev
  PROVE  UserOK(a, [row EXCEPT ![s] = x], late, rs, us)
<1> DEFINE row2 == [row EXCEPT ![s] = x]
<1>1. \A t \in Slots : row2[t] = IF t = s THEN x ELSE row[t]
  BY DEF Row
<1> HIDE DEF row2
<1>2. \A t \in Slots : Good(row2[t], rs, us) /\ Same(row2[t], row[t])
  BY <1>1 DEF UserOK, Same
<1>3. ASSUME InOrder(a, row) PROVE InOrder(a, row2)
  <2> SUFFICES ASSUME NEW t \in Slots
               PROVE  /\ a.jam # None /\ row2[t].code = a.jam => row2[t].known <= a.qrev
                      /\ row2[t].kind = "join" => a.jam # row2[t].code
                      /\ row2[t].kind \in {"start", "resume"} => a.jam = None
                      /\ Entering(row2[t]) /\ Told(row2[t]) =>
                           \A o \in Slots : row2[o].code = row2[t].answer.code =>
                             row2[o].known <= row2[t].answer.room.qrev
    BY DEF InOrder
  <2>1. /\ a.jam # None /\ row2[t].code = a.jam => row2[t].known <= a.qrev
        /\ row2[t].kind = "join" => a.jam # row2[t].code
        /\ row2[t].kind \in {"start", "resume"} => a.jam = None
    BY <1>2, <1>3 DEF InOrder, Same
  <2>2. ASSUME Entering(row2[t]), Told(row2[t]), NEW o \in Slots,
               row2[o].code = row2[t].answer.code
        PROVE  row2[o].known <= row2[t].answer.room.qrev
    <3>1. CASE t = s
      <4>1. row2[t] = x
        BY <1>1, <3>1
      <4> QED
        BY <1>2, <2>2, <4>1 DEF Good
    <3>2. CASE t # s
      <4>1. row2[t] = row[t]
        BY <1>1, <3>2
      <4> QED
        BY <1>2, <1>3, <2>2, <4>1 DEF InOrder, Same
    <3> QED
      BY <3>1, <3>2
  <2> QED
    BY <2>1, <2>2
<1>4. ~late => HasCopy(a, rs) /\ InOrder(a, row2)
  BY <1>3 DEF UserOK
<1> QED
  BY <1>2, <1>4 DEF UserOK, row2, Same, Entering

\* A request is sent, by an app that keeps its room or leaves it.
LEMMA Asked ==
  ASSUME NEW rs, NEW us, DOMAIN rs \subseteq us, None \notin us, Rooms(rs),
         NEW a \in Apps, NEW row, Row(row), NEW late, UserOK(a, row, late, rs, us),
         NEW b \in Apps,
         \/ b.jam = a.jam /\ b.qrev = a.qrev /\ b.items = a.items
         \/ b.jam = None,
         NEW s \in Slots, NEW x \in Requests, ~Told(x), Entering(x) => s \in Commands,
         x.code \in us \cup {None}, x.kind = "join" => x.code \in us,
         \/ x.known = 0
         \/ x.code = a.jam /\ x.known = a.qrev /\ b.jam = a.jam /\ a.jam # None,
         x.kind = "join" => b.jam # x.code,
         x.kind \in {"start", "resume"} => b.jam = None
  PROVE  UserOK(b, [row EXCEPT ![s] = x], late, rs, us)
<1> DEFINE row2 == [row EXCEPT ![s] = x]
<1>1. \A t \in Slots : row2[t] = IF t = s THEN x ELSE row[t]
  BY DEF Row
<1> HIDE DEF row2
<1>2. None \notin DOMAIN rs /\ a.qrev \in Nat /\ b.qrev \in Nat
  BY DEF Apps
<1>3. AppGood(b, rs, us) /\ (HasCopy(a, rs) => HasCopy(b, rs))
  BY <1>2 DEF UserOK, AppGood, HasCopy, Copies
<1>4. Good(x, rs, us)
  <2>1. x.code \in DOMAIN rs => rs[x.code].qrev \in Nat
    BY DEF Rooms, Room
  <2>2. x.code \in DOMAIN rs => x.known <= rs[x.code].qrev
    BY <2>1 DEF UserOK, AppGood
  <2> QED
    BY <2>2 DEF Good
<1>5. \A t \in Slots : Good(row2[t], rs, us) /\ (Entering(row2[t]) => t \in Commands)
  BY <1>1, <1>4 DEF UserOK
<1>6. ASSUME InOrder(a, row) PROVE InOrder(b, row2)
  <2> SUFFICES ASSUME NEW t \in Slots
               PROVE  /\ b.jam # None /\ row2[t].code = b.jam => row2[t].known <= b.qrev
                      /\ row2[t].kind = "join" => b.jam # row2[t].code
                      /\ row2[t].kind \in {"start", "resume"} => b.jam = None
                      /\ Entering(row2[t]) /\ Told(row2[t]) =>
                           \A o \in Slots : row2[o].code = row2[t].answer.code =>
                             row2[o].known <= row2[t].answer.room.qrev
    BY DEF InOrder
  <2>1. b.jam # None /\ row2[t].code = b.jam => row2[t].known <= b.qrev
    BY <1>1, <1>2, <1>6 DEF InOrder
  <2>2. row2[t].kind = "join" => b.jam # row2[t].code
    <3>1. row[t].kind = "join" => row[t].code \in us
      BY DEF UserOK, Good
    <3> QED
      BY <1>1, <1>6, <3>1 DEF InOrder
  <2>3. row2[t].kind \in {"start", "resume"} => b.jam = None
    BY <1>1, <1>6 DEF InOrder
  <2>4. ASSUME Entering(row2[t]), Told(row2[t]), NEW o \in Slots,
               row2[o].code = row2[t].answer.code
        PROVE  row2[o].known <= row2[t].answer.room.qrev
    <3>1. t # s /\ row2[t] = row[t]
      BY <1>1, <2>4
    <3>2. row[t].answer.room.qrev \in Nat /\ row[t].answer.code \in us
      BY <2>4, <3>1 DEF Row, Room, UserOK, Good
    <3>3. CASE o # s
      BY <1>1, <1>6, <2>4, <3>1, <3>3 DEF InOrder
    <3>4. CASE o = s /\ x.known = 0
      BY <1>1, <3>1, <3>2, <3>4
    <3>5. CASE o = s /\ x.code = a.jam /\ a.jam # None
      <4>1. row[t].answer.code = a.jam
        BY <1>1, <2>4, <3>1, <3>5
      <4>2. row[t].kind \notin {"start", "resume"}
        BY <1>6, <3>5 DEF InOrder
      <4>3. row[t].kind = "join" /\ row[t].answer.code = row[t].code
        BY <2>4, <3>1, <4>2 DEF Entering, UserOK, Good
      <4> QED
        BY <1>6, <4>1, <4>3 DEF InOrder
    <3> QED
      BY <3>3, <3>4, <3>5
  <2> QED
    BY <2>1, <2>2, <2>3, <2>4
<1>7. ~late => HasCopy(b, rs) /\ InOrder(b, row2)
  BY <1>3, <1>6 DEF UserOK
<1> QED
  BY <1>3, <1>5, <1>7 DEF UserOK, row2

\* Giving a request up is asking for nothing.
LEMMA Dropped ==
  ASSUME NEW rs, NEW us, DOMAIN rs \subseteq us, None \notin us, Rooms(rs),
         NEW a \in Apps, NEW row, Row(row), NEW late, UserOK(a, row, late, rs, us),
         NEW b \in Apps,
         \/ b.jam = a.jam /\ b.qrev = a.qrev /\ b.items = a.items
         \/ b.jam = None,
         NEW s \in Slots
  PROVE  UserOK(b, [row EXCEPT ![s] = Idle], late, rs, us)
<1>1. /\ Idle \in Requests /\ ~Told(Idle) /\ ~Entering(Idle)
      /\ Idle.code = None /\ Idle.known = 0 /\ Idle.kind = "none"
  BY IdleOK, IdleIs
<1> QED
  BY <1>1, Asked

\* An answer is taken in, whatever it overtook.
LEMMA Taken ==
  ASSUME NEW rs, NEW us, DOMAIN rs \subseteq us, None \notin us, Rooms(rs),
         NEW a \in Apps, NEW row, Row(row), NEW late \in BOOLEAN, UserOK(a, row, late, rs, us),
         NEW s \in Slots, Told(row[s]),
         \A o, t \in Slots : Entering(row[o]) /\ Entering(row[t]) => o = t,
         NEW b \in Apps, b.jam = row[s].answer.code, b.qrev = row[s].answer.room.qrev,
         b.items = IF row[s].answer.full THEN row[s].answer.room.items ELSE a.items
  PROVE  UserOK(b, [row EXCEPT ![s] = Idle], late \/ Late(a, row[s]), rs, us)
<1> DEFINE q == row[s]
           r == row[s].answer.room
           row2 == [row EXCEPT ![s] = Idle]
<1>1. \A t \in Slots : row2[t] = IF t = s THEN Idle ELSE row[t]
  BY DEF Row
<1>2. Idle.kind = "none" /\ Idle.code = None /\ ~Told(Idle) /\ ~Entering(Idle) /\ Idle.known = 0
  BY IdleIs
<1>3. /\ q \in Requests /\ r \in Room /\ r.qrev \in Nat /\ q.known \in Nat
      /\ a.qrev \in Nat /\ b.qrev \in Nat
  BY DEF Row, Room, Requests, Apps
<1>4. /\ q.answer.code \in us
      /\ q.answer.code \in DOMAIN rs => Copies(r, rs[q.answer.code])
      /\ q.kind \notin {"start", "resume"} => q.answer.code = q.code
      /\ q.answer.full \/ (q.known = r.qrev /\ ~Entering(q))
  BY DEF UserOK, Good
<1> HIDE DEF row2, r
<1>5. AppGood(b, rs, us)
  BY <1>4 DEF AppGood, Copies, r
<1>6. \A t \in Slots : Good(row2[t], rs, us) /\ (Entering(row2[t]) => t \in Commands)
  BY <1>1, <1>2 DEF UserOK, Good
<1>7. ASSUME ~late, ~Late(a, q) PROVE HasCopy(b, rs) /\ InOrder(b, row2)
  <2>1. HasCopy(a, rs) /\ InOrder(a, row)
    BY <1>7 DEF UserOK
  <2>2. CASE q.answer.code = a.jam
    <3>1. a.qrev <= r.qrev /\ a.jam \in us /\ a.jam # None /\ b.jam = a.jam
      BY <1>3, <1>4, <1>7, <2>2 DEF Late, r
    <3>2. ~Entering(q) /\ q.code = a.jam
      BY <1>4, <2>1, <2>2, <3>1 DEF InOrder, Entering
    <3>3. HasCopy(b, rs)
      <4>1. CASE q.answer.full
        BY <1>4, <4>1 DEF HasCopy, Copies, r
      <4>2. CASE ~q.answer.full
        <5>1. q.known = r.qrev /\ q.known <= a.qrev
          BY <1>4, <2>1, <3>1, <3>2, <4>2 DEF InOrder
        <5>2. b.qrev = a.qrev /\ b.items = a.items
          BY <1>3, <3>1, <4>2, <5>1 DEF r
        <5> QED
          BY <2>1, <3>1, <5>2 DEF HasCopy, Copies
      <4> QED
        BY <4>1, <4>2
    <3>4. InOrder(b, row2)
      <4> SUFFICES ASSUME NEW t \in Slots
                   PROVE  /\ row2[t].code = b.jam => row2[t].known <= b.qrev
                          /\ row2[t].kind = "join" => b.jam # row2[t].code
                          /\ row2[t].kind \in {"start", "resume"} => b.jam = None
                          /\ Entering(row2[t]) /\ Told(row2[t]) =>
                               \A o \in Slots : row2[o].code = row2[t].answer.code =>
                                 row2[o].known <= row2[t].answer.room.qrev
        BY DEF InOrder
      <4>1. row2[t].code = b.jam => row2[t].known <= b.qrev
        <5>1. \A o \in Slots : row[o].known \in Nat
          BY DEF Row, Requests
        <5> QED
          BY <1>1, <1>2, <1>3, <2>1, <3>1, <5>1 DEF InOrder, r
      <4>2. /\ row2[t].kind = "join" => b.jam # row2[t].code
            /\ row2[t].kind \in {"start", "resume"} => b.jam = None
        BY <1>1, <1>2, <2>1, <3>1 DEF InOrder
      <4>3. ASSUME Entering(row2[t]), Told(row2[t]), NEW o \in Slots,
                   row2[o].code = row2[t].answer.code
            PROVE  row2[o].known <= row2[t].answer.room.qrev
        <5>1. row2[t] = row[t] /\ row[t].answer.code \in us
          BY <1>1, <1>2, <4>3 DEF UserOK, Good
        <5>2. row2[o] = row[o]
          BY <1>1, <1>2, <4>3, <5>1
        <5> QED
          BY <2>1, <4>3, <5>1, <5>2 DEF InOrder
      <4> QED
        BY <4>1, <4>2, <4>3
    <3> QED
      BY <3>3, <3>4
  <2>3. CASE q.answer.code # a.jam
    <3>1. Entering(q) /\ q.answer.full
      BY <1>4, <1>7, <2>3 DEF Late, Entering
    <3>2. HasCopy(b, rs)
      BY <1>4, <3>1 DEF HasCopy, Copies, r
    <3>3. \A t \in Slots : ~Entering(row2[t])
      BY <1>1, <1>2, <3>1
    <3>4. ASSUME NEW t \in Slots, row2[t].code = b.jam PROVE row2[t].known <= b.qrev
      <4>1. t # s /\ row2[t] = row[t]
        BY <1>1, <1>2, <1>4, <3>4
      <4> QED
        BY <2>1, <3>1, <3>4, <4>1 DEF InOrder
    <3> QED
      BY <3>2, <3>3, <3>4 DEF InOrder, Entering
  <2> QED
    BY <2>2, <2>3
<1> QED
  BY <1>5, <1>6, <1>7 DEF UserOK, row2

------------------------------------------------------------------------------
\* The steps.

\* The same of the state: a handler's step.
LEMMA ServedQ ==
  ASSUME IInv, IInv', QInv, NEW u \in Users, NEW s \in Slots, NEW x \in Requests,
         Send(u, s, x), UNCHANGED <<app, history>>, Grows(rooms, used, rooms', used'),
         Same(x, req[u][s]), Good(x, rooms', used'),
         Told(x) => x.answer.code \in DOMAIN rooms'
                    /\ x.answer.room.qrev = rooms'[x.answer.code].qrev
  PROVE  QInv'
<1>1. Rooms(rooms) /\ app[u] \in Apps /\ Row(req[u])
  BY Typed
<1>2. Rooms(rooms')
  BY DEF IInv, ServerOK, RoomOK, Rooms
<1>3. UserOK(app[u], req[u], crossed[u], rooms', used')
  BY <1>1, <1>2, UserKept DEF QInv
<1>4. /\ req'[u] = [req[u] EXCEPT ![s] = x]
      /\ \A v \in Users \ {u} : req'[v] = req[v]
  BY DEF IInv, RequestsOK, Send
<1>5. UserOK(app[u], [req[u] EXCEPT ![s] = x], crossed[u], rooms', used')
  BY <1>1, <1>3, Served
<1>6. app' = app /\ crossed' = crossed
  BY DEF history
<1> QED
  BY <1>4, <1>5, <1>6, OthersKeep

\* A handler's step that answers nothing yet, or nothing to take in.
LEMMA UntoldQ ==
  ASSUME IInv, IInv', QInv, NEW u \in Users, NEW s \in Slots, NEW x,
         Send(u, s, x), UNCHANGED <<app, history>>, Grows(rooms, used, rooms', used'),
         Same(x, req[u][s]), ~Told(x)
  PROVE  QInv'
<1>1. Rooms(rooms) /\ req[u][s] \in Requests /\ Row(req[u])
  BY Typed DEF Row
<1>2. Rooms(rooms')
  BY DEF IInv, ServerOK, RoomOK, Rooms
<1>3. x \in Requests
  <2>1. req'[u][s] = x
    BY DEF IInv, RequestsOK, Send
  <2> QED
    BY <2>1 DEF IInv, RequestsOK
<1>4. Good(req[u][s], rooms', used')
  <2>1. Good(req[u][s], rooms, used)
    BY DEF QInv, UserOK
  <2> QED
    BY <1>1, <1>2, <2>1, GoodKept DEF Row
<1>5. Good(x, rooms', used')
  BY <1>4 DEF Good, Same
<1> QED
  BY <1>3, <1>5, ServedQ

\* A handler's answer, which shows the room as it is now.
LEMMA ToldQ ==
  ASSUME IInv, IInv', QInv, NEW u \in Users, NEW s \in Slots, NEW c, NEW r \in Room,
         Send(u, s, Answered(req[u][s], "ok", c, r)), UNCHANGED <<app, history>>,
         Grows(rooms, used, rooms', used'), c \in DOMAIN rooms',
         r.qrev = rooms'[c].qrev, r.items = rooms'[c].items,
         req[u][s].kind \in {"start", "resume"} \/ c = req[u][s].code
  PROVE  QInv'
<1> DEFINE q == req[u][s]
           x == Answered(q, "ok", c, r)
<1>1. Rooms(rooms) /\ q \in Requests /\ Row(req[u])
  BY Typed DEF Row
<1>2. Rooms(rooms') /\ DOMAIN rooms' \subseteq used'
  BY DEF IInv, ServerOK, RoomOK, Rooms
<1>3. x \in Requests
  <2>1. req'[u][s] = x
    BY DEF IInv, RequestsOK, Send
  <2> QED
    BY <2>1 DEF IInv, RequestsOK
<1>4. Good(q, rooms', used')
  <2>1. Good(q, rooms, used)
    BY DEF QInv, UserOK
  <2> QED
    BY <1>1, <1>2, <2>1, GoodKept DEF Row
<1>5. /\ Same(x, q) /\ x.answer.code = c /\ x.answer.room = r
      /\ x.answer.full \/ (q.known = r.qrev /\ ~Entering(q))
  BY <1>1, AnsweredSame
<1>6. Copies(r, rooms'[c])
  BY DEF Copies, Room
<1> HIDE DEF x, q
<1>7. Good(x, rooms', used')
  BY <1>2, <1>4, <1>5, <1>6 DEF Good, Same, Entering, q
<1> QED
  BY <1>3, <1>5, <1>7, ServedQ DEF x, q

\* What a listener's step or an answer taken in leaves of the rooms.
LEMMA AlikeQ ==
  ASSUME IInv, IInv', QInv, NEW u \in Users, UNCHANGED server,
         \A v \in Users \ {u} : app'[v] = app[v] /\ req'[v] = req[v] /\ crossed'[v] = crossed[v],
         UserOK(app'[u], req'[u], crossed'[u], rooms, used)
  PROVE  QInv'
<1>1. Grows(rooms, used, rooms', used')
  BY Typed, StandingStill DEF server
<1> QED
  BY <1>1, OthersKeep DEF server

\* A listener's request or a poll.
LEMMA AskedQ ==
  ASSUME IInv, IInv', QInv, NEW u \in Users, NEW s \in Slots, NEW x, NEW b,
         Send(u, s, x), app' = [app EXCEPT ![u] = b], UNCHANGED <<server, crossed>>,
         \/ b.jam = app[u].jam /\ b.qrev = app[u].qrev /\ b.items = app[u].items
         \/ b.jam = None,
         ~Told(x), Entering(x) => s \in Commands,
         x.code \in used \cup {None}, x.kind = "join" => x.code \in used,
         \/ x.known = 0
         \/ x.code = app[u].jam /\ x.known = app[u].qrev /\ b.jam = app[u].jam
            /\ app[u].jam # None,
         x.kind = "join" => b.jam # x.code,
         x.kind \in {"start", "resume"} => b.jam = None
  PROVE  QInv'
<1>1. /\ Rooms(rooms) /\ DOMAIN rooms \subseteq used /\ None \notin used
      /\ app[u] \in Apps /\ Row(req[u])
  BY Typed
<1>2. /\ app'[u] = b /\ req'[u] = [req[u] EXCEPT ![s] = x] /\ crossed' = crossed
      /\ \A v \in Users \ {u} : app'[v] = app[v] /\ req'[v] = req[v]
  BY DEF IInv, AppsOK, RequestsOK, Send
<1>3. b \in Apps /\ x \in Requests
  <2>1. app'[u] \in Apps /\ req'[u][s] \in Requests
    BY DEF IInv, AppsOK, RequestsOK
  <2>2. req'[u][s] = x
    BY <1>1, <1>2 DEF Row
  <2> QED
    BY <1>2, <2>1, <2>2
<1>4. UserOK(app[u], req[u], crossed[u], rooms, used)
  BY DEF QInv
<1>5. UserOK(b, [req[u] EXCEPT ![s] = x], crossed[u], rooms, used)
  BY <1>1, <1>3, <1>4, Asked
<1> QED
  BY <1>2, <1>5, AlikeQ

\* A request given up, its app still in the room or out of it.
LEMMA DroppedQ ==
  ASSUME IInv, IInv', QInv, NEW u \in Users, NEW s \in Slots, NEW b,
         Forget(u, s), app' = [app EXCEPT ![u] = b], UNCHANGED <<server, crossed>>,
         \/ b.jam = app[u].jam /\ b.qrev = app[u].qrev /\ b.items = app[u].items
         \/ b.jam = None
  PROVE  QInv'
<1>1. /\ Rooms(rooms) /\ DOMAIN rooms \subseteq used /\ None \notin used
      /\ app[u] \in Apps /\ Row(req[u])
  BY Typed
<1>2. /\ app'[u] = b /\ req'[u] = [req[u] EXCEPT ![s] = Idle] /\ crossed' = crossed
      /\ \A v \in Users \ {u} : app'[v] = app[v] /\ req'[v] = req[v]
  BY DEF IInv, AppsOK, RequestsOK, Forget
<1>3. b \in Apps
  <2>1. app'[u] \in Apps
    BY DEF IInv, AppsOK
  <2> QED
    BY <1>2, <2>1
<1>4. UserOK(app[u], req[u], crossed[u], rooms, used)
  BY DEF QInv
<1>5. UserOK(b, [req[u] EXCEPT ![s] = Idle], crossed[u], rooms, used)
  BY <1>1, <1>3, <1>4, Dropped
<1> QED
  BY <1>2, <1>5, AlikeQ

\* Everybody starts with the room's queue and nothing under way.
LEMMA InitQ == Init => QInv
<1> SUFFICES ASSUME Init PROVE QInv
  OBVIOUS
<1> DEFINE items == <<[id |-> 1, by |-> Host], [id |-> 2, by |-> Host]>>
           base == NewRoom(Host, items, 1, TRUE)
           room == [base EXCEPT !.members = Users]
           ans == [status |-> "ok", code |-> First, room |-> room, full |-> TRUE]
           row == [s \in Slots |-> Idle]
<1>1. room.qrev = 0 /\ room.items = items
  BY DEF NewRoom
<1>2. /\ rooms = [c \in {First} |-> room] /\ used = {First}
      /\ app = [u \in Users |-> Scheduled(Apply(Away, u, ans))]
      /\ req = [u \in Users |-> row]
  BY DEF Init
<1>3. First # None
  BY JamAssumption
<1> HIDE DEF room, row, items
<1>4. ASSUME NEW u \in Users
      PROVE  UserOK(app[u], req[u], crossed[u], rooms, used)
  <2> DEFINE a == Scheduled(Apply(Away, u, ans))
  <2>1. a.jam = First /\ a.qrev = 0 /\ a.items = items
    BY <1>1 DEF Scheduled, Apply, Away
  <2>2. app[u] = a /\ req[u] = row
    BY <1>2
  <2> HIDE DEF a
  <2>3. AppGood(a, rooms, used) /\ HasCopy(a, rooms)
    BY <1>1, <1>2, <2>1 DEF AppGood, HasCopy, Copies
  <2>4. \A s \in Slots : row[s] = Idle
    BY DEF row
  <2>5. Good(Idle, rooms, used)
    BY <1>2, <1>3, IdleIs DEF Good
  <2>6. InOrder(a, row)
    BY <1>3, <2>1, <2>4, IdleIs DEF InOrder, Entering
  <2> QED
    BY <2>2, <2>3, <2>4, <2>5, <2>6, IdleIs DEF UserOK
<1> QED
  BY <1>4 DEF QInv

\* A command knows no more than its app.
LEMMA CommandQ ==
  ASSUME IInv, IInv', QInv, NEW u \in Users, NEW s \in Slots,
         NEW kind \in AllActions \ {"start", "join"}, NEW index, Command(u, s, kind, index)
  PROVE  QInv'
<1> DEFINE x == Sent(kind, app[u].jam, index, app[u].qrev)
<1>1. x.kind = kind /\ x.code = app[u].jam /\ x.known = app[u].qrev /\ ~Told(x)
  BY SentIs
<1>2. Send(u, s, x) /\ UNCHANGED <<server, crossed>> /\ app[u].jam # None
      /\ app' = [app EXCEPT ![u] = app[u]]
  BY DEF Command, history, IInv, AppsOK
<1>3. app[u].jam \in used \cup {None}
  BY DEF QInv, UserOK, AppGood
<1>4. kind # "resume"
  BY DEF AllActions
<1> HIDE DEF x
<1>5. ~Entering(x)
  BY <1>1, <1>4 DEF Entering
<1> QED
  BY <1>1, <1>2, <1>3, <1>4, <1>5, AskedQ

\* start() is sent by an app without a room.
LEMMA StartQ ==
  ASSUME IInv, IInv', QInv, NEW u \in Users, NEW s \in Commands, Start(u, s)
  PROVE  QInv'
<1> DEFINE x == Sent("start", None, ops + 3, 0)
<1>1. x.kind = "start" /\ x.code = None /\ x.known = 0 /\ ~Told(x)
  BY SentIs
<1>2. Send(u, s, x) /\ UNCHANGED <<server, crossed>> /\ app[u].jam = None
      /\ app' = [app EXCEPT ![u] = app[u]]
  BY DEF Start, history, IInv, AppsOK
<1>3. s \in Slots
  BY DEF Slots
<1> HIDE DEF x
<1> QED
  BY <1>1, <1>2, <1>3, AskedQ

\* join() is sent by an app that is in another room, or none.
LEMMA JoinQ ==
  ASSUME IInv, IInv', QInv, NEW u \in Users, NEW s \in Commands, NEW c \in Codes, Join(u, s, c)
  PROVE  QInv'
<1> DEFINE x == Sent("join", c, 0, 0)
<1>1. x.kind = "join" /\ x.code = c /\ x.known = 0 /\ ~Told(x)
  BY SentIs
<1>2. Send(u, s, x) /\ UNCHANGED <<server, crossed>> /\ app[u].jam # c /\ c \in used
      /\ app' = [app EXCEPT ![u] = app[u]]
  BY DEF Join, IInv, AppsOK
<1>3. s \in Slots
  BY DEF Slots
<1> HIDE DEF x
<1> QED
  BY <1>1, <1>2, <1>3, AskedQ

\* An app that leaves forgets its room.
LEMMA LeaveQ ==
  ASSUME IInv, IInv', QInv, NEW u \in Users, NEW s \in Slots, Leave(u, s)
  PROVE  QInv'
<1> DEFINE kind == IF app[u].host THEN "end" ELSE "leave"
           x == Sent(kind, app[u].jam, 0, 0)
<1>1. x.kind \in {"end", "leave"} /\ x.code = app[u].jam /\ x.known = 0 /\ ~Told(x)
  BY SentIs
<1>2. Send(u, s, x) /\ UNCHANGED <<server, crossed>> /\ app' = [app EXCEPT ![u] = Away]
  BY DEF Leave
<1>3. app[u].jam \in used \cup {None}
  BY DEF QInv, UserOK, AppGood
<1>4. Away.jam = None
  BY DEF Away
<1>5. ~Entering(x)
  BY <1>1 DEF Entering
<1> HIDE DEF x
<1> QED
  BY <1>1, <1>2, <1>3, <1>4, <1>5, AskedQ

\* An app opened again has nothing but its resume() under way.
LEMMA ReopenQ ==
  ASSUME IInv, IInv', QInv, NEW u \in Users, NEW s \in Commands, Reopen(u, s)
  PROVE  QInv'
<1> DEFINE x == Sent("resume", None, 0, 0)
           row == [o \in Slots |-> IF o = s THEN x ELSE Idle]
<1>1. x.kind = "resume" /\ x.code = None /\ x.known = 0 /\ ~Told(x)
  BY SentIs
<1>2. Idle.kind = "none" /\ Idle.code = None /\ ~Told(Idle)
  BY IdleIs
<1>3. /\ app' = [app EXCEPT ![u] = Away] /\ req' = [req EXCEPT ![u] = row]
      /\ UNCHANGED server
  BY DEF Reopen
<1> HIDE DEF x
<1>4. \A o \in Slots : (row[o] = x /\ o = s) \/ row[o] = Idle
  OBVIOUS
<1> HIDE DEF row
<1>5. /\ app'[u] = Away /\ req'[u] = row
      /\ \A v \in Users \ {u} : app'[v] = app[v] /\ req'[v] = req[v] /\ crossed'[v] = crossed[v]
  BY <1>3 DEF Reopen, IInv, AppsOK, RequestsOK
<1>6. None \notin DOMAIN rooms
  BY Typed
<1>7. Away.jam = None
  BY DEF Away
<1>8. Good(x, rooms, used) /\ Good(Idle, rooms, used)
  BY <1>1, <1>2, <1>6 DEF Good
<1>9. InOrder(Away, row)
  BY <1>1, <1>2, <1>4, <1>7 DEF InOrder
<1>10. UserOK(Away, row, crossed'[u], rooms, used)
  BY <1>2, <1>4, <1>6, <1>7, <1>8, <1>9 DEF UserOK, AppGood, HasCopy, Entering
<1> QED
  BY <1>3, <1>5, <1>10, AlikeQ

\* Whatever the listener does.
LEMMA ListenerQ ==
  ASSUME IInv, IInv', QInv, NEW u \in Users, Listener(u)
  PROVE  QInv'
<1> PICK s \in Commands :
      \/ Transport(u, s) \/ Ended(u, s) \/ Jump(u, s) \/ Add(u, s) \/ Remove(u, s)
      \/ Configure(u, s) \/ Start(u, s) \/ Leave(u, s) \/ Reopen(u, s)
      \/ \E c \in Codes : Join(u, s, c)
  BY DEF Listener
<1>1. s \in Slots
  BY DEF Slots
<1>2. \/ \E kind \in AllActions \ {"start", "join"} : \E index : Command(u, s, kind, index)
      \/ Start(u, s) \/ Leave(u, s) \/ Reopen(u, s) \/ \E c \in Codes : Join(u, s, c)
  <2>1. {"play", "pause", "next", "previous", "ended", "jump", "add", "remove", "configure"}
          \subseteq AllActions \ {"start", "join"}
    BY DEF AllActions
  <2> QED
    BY <2>1 DEF Transport, Ended, Jump, Add, Remove, Configure
<1> QED
  BY <1>1, <1>2, CommandQ, StartQ, JoinQ, LeaveQ, ReopenQ

\* A poll knows what its app knows.
LEMMA PollQ ==
  ASSUME IInv, IInv', QInv, NEW u \in Users, Poll(u)
  PROVE  QInv'
<1> DEFINE b == [app[u] EXCEPT !.timer = FALSE]
           x == Sent("poll", app[u].jam, 0, app[u].qrev)
<1>1. app[u] \in Apps
  BY Typed
<1>2. b.jam = app[u].jam /\ b.qrev = app[u].qrev /\ b.items = app[u].items
  BY <1>1 DEF Apps
<1>3. app' = [app EXCEPT ![u] = b] /\ UNCHANGED <<server, crossed>>
  BY DEF Poll, history
<1>4. \/ Send(u, "poll", x) /\ app[u].jam # None
      \/ UNCHANGED req
  BY DEF Poll
<1> HIDE DEF b
<1>5. CASE Send(u, "poll", x) /\ app[u].jam # None
  <2>1. x.kind = "poll" /\ x.code = app[u].jam /\ x.known = app[u].qrev /\ ~Told(x)
        /\ ~Entering(x)
    BY SentIs DEF Entering
  <2>2. app[u].jam \in used \cup {None} /\ "poll" \in Slots
    BY DEF QInv, UserOK, AppGood, Slots
  <2> HIDE DEF x
  <2> QED
    BY <1>2, <1>3, <1>5, <2>1, <2>2, AskedQ
<1>6. CASE UNCHANGED req
  <2>1. /\ app'[u] = b /\ req' = req /\ crossed' = crossed
        /\ \A v \in Users \ {u} : app'[v] = app[v]
    BY <1>3, <1>6 DEF IInv, AppsOK
  <2>2. UserOK(app[u], req[u], crossed[u], rooms, used)
    BY DEF QInv
  <2>3. UserOK(b, req[u], crossed[u], rooms, used)
    BY <1>2, <2>2 DEF UserOK, AppGood, HasCopy, Copies, InOrder
  <2> QED
    BY <1>3, <2>1, <2>3, AlikeQ
<1> QED
  BY <1>4, <1>5, <1>6

\* A poll shows the settled room, whose queue is the room's.
LEMMA GetQ ==
  ASSUME IInv, IInv', QInv, NEW u \in Users, NEW s \in Slots, Get(u, s)
  PROVE  QInv'
<1> DEFINE q == req[u][s]
           code == IF q.kind = "resume" THEN of[u] ELSE q.code
<1>1. UNCHANGED <<server, app, history>> /\ q \in Requests
  BY Typed DEF Get, Row
<1>2. Grows(rooms, used, rooms', used') /\ rooms' = rooms
  BY <1>1, Typed, StandingStill DEF server
<1>3. \/ code \in DOMAIN rooms /\ Send(u, s, Answered(q, "ok", code, Settled(rooms[code])))
      \/ \E status \in {"gone", "none"} : Send(u, s, Plain(q, status))
  BY DEF Get
<1>4. q.kind \in {"start", "resume"} \/ code = q.code
  OBVIOUS
<1> HIDE DEF code
<1>5. CASE code \in DOMAIN rooms /\ Send(u, s, Answered(q, "ok", code, Settled(rooms[code])))
  <2> DEFINE r == Settled(rooms[code])
  <2>1. RoomOK(rooms[code])
    BY <1>5 DEF IInv, ServerOK
  <2>2. r \in Room /\ r.items = rooms[code].items /\ r.qrev = rooms[code].qrev
    BY <2>1, SettledOK, QrevKept DEF RoomOK
  <2> HIDE DEF r
  <2>3. Send(u, s, Answered(q, "ok", code, r))
    BY <1>5 DEF r
  <2> QED
    BY <1>1, <1>2, <1>4, <1>5, <2>2, <2>3, ToldQ
<1>6. ASSUME NEW status \in {"gone", "none"}, Send(u, s, Plain(q, status)) PROVE QInv'
  BY <1>1, <1>2, <1>6, PlainSame, UntoldQ
<1> QED
  BY <1>3, <1>5, <1>6

\* WATCH and GET.
LEMMA ReadQ ==
  ASSUME IInv, IInv', QInv, NEW u \in Users, NEW s \in Slots, Read(u, s)
  PROVE  QInv'
<1> DEFINE q == req[u][s]
<1>1. UNCHANGED <<server, app, history>> /\ q \in Requests
  BY Typed DEF Read, Row
<1>2. Grows(rooms, used, rooms', used')
  BY <1>1, Typed, StandingStill DEF server
<1>3. \/ Send(u, s, [q EXCEPT !.pc = "read", !.snap = rooms[q.code]])
      \/ Send(u, s, Plain(q, "gone"))
  BY DEF Read
<1> QED
  BY <1>1, <1>2, <1>3, SnapSame, PlainSame, UntoldQ

\* One room changed, none added.
LEMMA GrowsAt ==
  ASSUME IInv, NEW c \in DOMAIN rooms, NEW r, Copies(rooms[c], r),
         rooms' = [rooms EXCEPT ![c] = r], used' = used
  PROVE  Grows(rooms, used, rooms', used')
<1>1. \A d \in DOMAIN rooms : Copies(rooms[d], rooms[d])
  BY Typed DEF Rooms, Copies, Room
<1> QED
  BY <1>1 DEF Grows

\* EXEC: the room goes on from what was read, since nobody wrote meanwhile.
LEMMA ExecQ ==
  ASSUME IInv, IInv', QInv, NEW u \in Users, NEW s \in Slots, Exec(u, s)
  PROVE  QInv'
<1> DEFINE q == req[u][s]
           c == q.code
           outcomes == Changed(Settled(q.snap), u, q)
<1>1. UNCHANGED <<app, history>> /\ q \in Requests /\ q.pc = "read" /\ Sound(q, ops)
  BY Typed DEF Exec, Row, IInv, RequestsOK
<1>2. \/ Send(u, s, Plain(q, "refused")) /\ UNCHANGED server
      \/ Send(u, s, [q EXCEPT !.pc = IF q.kind = "join" THEN "main" ELSE "sent",
                              !.snap = NoRoom])
         /\ UNCHANGED server
      \/ \E r \in outcomes :
           /\ Watched(c, q.snap) /\ rooms' = [rooms EXCEPT ![c] = r] /\ used' = used
           /\ Send(u, s, Answered(q, "ok", c, r))
  BY DEF Exec
<1> HIDE DEF outcomes, q
<1>3. CASE Send(u, s, Plain(q, "refused")) /\ UNCHANGED server
  <2>1. Grows(rooms, used, rooms', used')
    BY <1>3, Typed, StandingStill DEF server
  <2> QED
    BY <1>1, <1>3, <2>1, PlainSame, UntoldQ DEF q
<1>4. CASE /\ Send(u, s, [q EXCEPT !.pc = IF q.kind = "join" THEN "main" ELSE "sent",
                                   !.snap = NoRoom])
           /\ UNCHANGED server
  <2>1. Grows(rooms, used, rooms', used')
    BY <1>4, Typed, StandingStill DEF server
  <2> DEFINE p == IF q.kind = "join" THEN "main" ELSE "sent"
             x == [q EXCEPT !.pc = p, !.snap = NoRoom]
  <2>2. Same(x, q) /\ ~Told(x)
    BY <1>1, SnapSame
  <2>3. Send(u, s, x)
    BY <1>4
  <2> HIDE DEF x
  <2> QED
    BY <1>1, <2>1, <2>2, <2>3, UntoldQ DEF q
<1>5. ASSUME NEW r \in outcomes, Watched(c, q.snap), rooms' = [rooms EXCEPT ![c] = r],
             used' = used, Send(u, s, Answered(q, "ok", c, r))
      PROVE  QInv'
  <2>1. ops \in Nat /\ ops \in 0..MaxOps
    BY JamAssumption DEF IInv, CountsOK
  <2>2. RoomOK(q.snap) /\ q.kind \in Mutating \cup {"join"}
        /\ (q.kind = "add" => q.index \in 1..MaxOps + 2)
    BY <1>1, <2>1, JamAssumption DEF Sound
  <2> DEFINE y == Settled(q.snap)
  <2>3. RoomOK(y) /\ y.items = q.snap.items /\ y.qrev = q.snap.qrev
    BY <2>2, SettledOK, QrevKept DEF RoomOK
  <2>4. r \in Changed(y, u, q)
    BY DEF outcomes
  <2> HIDE DEF y
  <2>5. RoomOK(r) /\ Copies(y, r)
    BY <1>1, <2>2, <2>3, <2>4, ChangedOK, ChangedQueue
  <2>6. c \in DOMAIN rooms /\ rooms[c] = q.snap
    BY <1>5 DEF Watched
  <2>7. Copies(rooms[c], r)
    BY <2>3, <2>5, <2>6 DEF Copies
  <2>8. Grows(rooms, used, rooms', used')
    BY <1>5, <2>6, <2>7, GrowsAt
  <2>9. c \in DOMAIN rooms' /\ rooms'[c] = r /\ r \in Room
    BY <1>5, <2>5, <2>6 DEF RoomOK
  <2> QED
    BY <1>1, <1>5, <2>8, <2>9, ToldQ DEF q
<1> QED
  BY <1>2, <1>3, <1>4, <1>5

\* start() and join() see whether the listener is in a room.
LEMMA EnterQ ==
  ASSUME IInv, IInv', QInv, NEW u \in Users, NEW s \in Slots, Enter(u, s)
  PROVE  QInv'
<1> DEFINE q == req[u][s]
           p == IF of[u] \in {None, q.code} THEN "main" ELSE "drop"
<1>1. UNCHANGED <<server, app, history>> /\ q \in Requests /\ Send(u, s, [q EXCEPT !.pc = p])
  BY Typed DEF Enter, Row
<1>2. Grows(rooms, used, rooms', used')
  BY <1>1, Typed, StandingStill DEF server
<1>3. p \in {"main", "drop"}
  OBVIOUS
<1> HIDE DEF p
<1> QED
  BY <1>1, <1>2, <1>3, StepSame, UntoldQ

\* leave() changes one room, or none.
LEMMA GoOutQ ==
  ASSUME IInv, IInv', QInv, NEW u \in Users, NEW s \in Slots, GoOut(u, s)
  PROVE  QInv'
<1> DEFINE q == req[u][s]
           c == IF q.pc = "drop" THEN of[u] ELSE q.code
           r == Left(Settled(rooms[c]), u)
<1>1. UNCHANGED <<app, history>> /\ q \in Requests /\ used' = used
  BY Typed DEF GoOut, Row
<1>2. \/ /\ Send(u, s, After(q)) \/ Send(u, s, Plain(q, "gone"))
         /\ rooms' = rooms
      \/ /\ Send(u, s, [q EXCEPT !.pc = "ending", !.saw = rooms[c].members,
                                 !.snap = [host |-> c]])
         /\ rooms' = rooms
      \/ /\ c \in DOMAIN rooms /\ rooms' = [rooms EXCEPT ![c] = r]
         /\ Send(u, s, [q EXCEPT !.pc = "unkey"])
  BY DEF GoOut
<1> HIDE DEF c, r
<1>3. ASSUME rooms' = rooms PROVE Grows(rooms, used, rooms', used')
  BY <1>1, <1>3, Typed, StandingStill
<1>4. CASE (Send(u, s, After(q)) \/ Send(u, s, Plain(q, "gone"))) /\ rooms' = rooms
  BY <1>1, <1>3, <1>4, AfterSame, PlainSame, UntoldQ
<1>5. CASE /\ Send(u, s, [q EXCEPT !.pc = "ending", !.saw = rooms[c].members,
                                   !.snap = [host |-> c]])
           /\ rooms' = rooms
  BY <1>1, <1>3, <1>5, EndingSame, UntoldQ
<1>6. CASE /\ c \in DOMAIN rooms /\ rooms' = [rooms EXCEPT ![c] = r]
           /\ Send(u, s, [q EXCEPT !.pc = "unkey"])
  <2> DEFINE y == Settled(rooms[c])
  <2>1. RoomOK(rooms[c])
    BY <1>6 DEF IInv, ServerOK
  <2>2. RoomOK(y) /\ y.items = rooms[c].items /\ y.qrev = rooms[c].qrev
    BY <2>1, SettledOK, QrevKept DEF RoomOK
  <2>3. r = Left(y, u)
    BY DEF r
  <2> HIDE DEF y
  <2>4. Copies(rooms[c], r)
    BY <2>2, <2>3, LeftQueue DEF Copies
  <2>5. Grows(rooms, used, rooms', used')
    BY <1>1, <1>6, <2>4, GrowsAt
  <2> QED
    BY <1>1, <1>6, <2>5, StepSame, UntoldQ
<1> QED
  BY <1>2, <1>4, <1>5, <1>6

\* The listener's key goes.
LEMMA UnkeyQ ==
  ASSUME IInv, IInv', QInv, NEW u \in Users, NEW s \in Slots, Unkey(u, s)
  PROVE  QInv'
<1>1. UNCHANGED <<rooms, used, app, history>> /\ req[u][s] \in Requests
      /\ Send(u, s, After(req[u][s]))
  BY Typed DEF Unkey, Row
<1>2. Grows(rooms, used, rooms', used')
  BY <1>1, Typed, StandingStill
<1> QED
  BY <1>1, <1>2, AfterSame, UntoldQ

\* end() reads who is in the room.
LEMMA LookUpQ ==
  ASSUME IInv, IInv', QInv, NEW u \in Users, NEW s \in Slots, LookUp(u, s)
  PROVE  QInv'
<1> DEFINE q == req[u][s]
<1>1. UNCHANGED <<server, app, history>> /\ q \in Requests
  BY Typed DEF LookUp, Row
<1>2. Grows(rooms, used, rooms', used')
  BY <1>1, Typed, StandingStill DEF server
<1>3. \/ Send(u, s, Plain(q, "gone"))
      \/ Send(u, s, [q EXCEPT !.pc = "ending", !.saw = rooms[q.code].members,
                              !.snap = [host |-> q.code]])
  BY DEF LookUp
<1> QED
  BY <1>1, <1>2, <1>3, PlainSame, EndingSame, UntoldQ

\* end() deletes the room.
LEMMA DeleteQ ==
  ASSUME IInv, IInv', QInv, NEW u \in Users, NEW s \in Slots, Delete(u, s)
  PROVE  QInv'
<1> DEFINE q == req[u][s]
           b == [q EXCEPT !.snap = NoRoom]
<1>1. /\ UNCHANGED <<used, app, history>> /\ q \in Requests /\ Send(u, s, After(b))
      /\ rooms' = [c \in DOMAIN rooms \ {q.snap.host} |-> rooms[c]]
  BY Typed DEF Delete, Row
<1>2. Grows(rooms, used, rooms', used')
  <2>1. \A c \in DOMAIN rooms : Copies(rooms[c], rooms[c])
    BY Typed DEF Rooms, Copies, Room
  <2> QED
    BY <1>1, <2>1 DEF Grows
<1>3. b \in Requests /\ Same(b, q)
  <2>1. NoRoom \in [host : Codes \cup {None}]
    BY DEF NoRoom
  <2> QED
    BY <1>1, <2>1, ReqSnap DEF Same, Requests
<1> HIDE DEF b
<1>4. Same(After(b), q) /\ ~Told(After(b))
  BY <1>3, AfterSame DEF Same
<1> QED
  BY <1>1, <1>2, <1>4, UntoldQ

\* create() takes a code nobody holds.
LEMMA CreateQ ==
  ASSUME IInv, IInv', QInv, NEW u \in Users, NEW s \in Slots, NEW c \in Codes, Create(u, s, c)
  PROVE  QInv'
<1> DEFINE q == req[u][s]
           room == NewRoom(u, <<[id |-> q.index, by |-> u]>>, 1, TRUE)
<1>1. /\ UNCHANGED <<app, history>> /\ Send(u, s, Answered(q, "ok", c, room))
      /\ c \notin used /\ used' = used \cup {c} /\ q.kind = "start"
      /\ rooms' = [d \in DOMAIN rooms \cup {c} |-> IF d = c THEN room ELSE rooms[d]]
  BY DEF Create
<1> HIDE DEF room
<1>2. c \in DOMAIN rooms' /\ rooms'[c] = room
  BY <1>1
<1>3. room \in Room
  BY <1>2 DEF IInv, ServerOK, RoomOK
<1>4. Grows(rooms, used, rooms', used')
  <2>1. \A d \in DOMAIN rooms : Copies(rooms[d], rooms[d]) /\ d # c
    BY <1>1, Typed DEF Rooms, Copies, Room
  <2>2. c # None
    BY JamAssumption
  <2> QED
    BY <1>1, <2>1, <2>2 DEF Grows
<1> QED
  BY <1>1, <1>2, <1>3, <1>4, ToldQ

\* The end of a track leaves the queue alone.
LEMMA TrackOverQ ==
  ASSUME IInv, IInv', QInv, NEW c \in Codes, TrackOver(c)
  PROVE  QInv'
<1> DEFINE r == [rooms[c] EXCEPT !.over = TRUE]
<1>1. /\ c \in DOMAIN rooms /\ rooms' = [rooms EXCEPT ![c] = r]
      /\ UNCHANGED <<used, app, req, crossed>>
  BY DEF TrackOver, history
<1>2. rooms[c] \in Room
  BY <1>1, Typed DEF Rooms
<1>3. Copies(rooms[c], r)
  BY <1>2 DEF Copies, Room
<1> HIDE DEF r
<1>4. Grows(rooms, used, rooms', used')
  BY <1>1, <1>3, GrowsAt
<1>5. Rooms(rooms) /\ \A u \in Users : app[u] \in Apps /\ Row(req[u])
  BY Typed
<1>6. Rooms(rooms')
  BY DEF IInv, ServerOK, RoomOK, Rooms
<1>7. \A u \in Users : UserOK(app[u], req[u], crossed[u], rooms', used')
  BY <1>4, <1>5, <1>6, UserKept DEF QInv
<1> QED
  BY <1>1, <1>7 DEF QInv

\* An answer taken in.
LEMMA TakeInQ ==
  ASSUME IInv, IInv', QInv, OneEntry, NEW u \in Users, NEW s \in Slots, TakeIn(u, s)
  PROVE  QInv'
<1> DEFINE q == req[u][s]
           b == Scheduled(Apply(app[u], u, q.answer))
<1>1. /\ Rooms(rooms) /\ DOMAIN rooms \subseteq used /\ None \notin used
      /\ app[u] \in Apps /\ Row(req[u]) /\ crossed[u] \in BOOLEAN
  BY Typed DEF IInv, AppsOK
<1>2. /\ Told(q) /\ UNCHANGED server /\ app' = [app EXCEPT ![u] = b]
      /\ crossed' = [crossed EXCEPT ![u] = @ \/ Late(app[u], q)]
      /\ req' = [req EXCEPT ![u][s] = Idle]
  BY DEF TakeIn, Told, Forget, IInv, AppsOK
<1>3. /\ b.jam = q.answer.code /\ b.qrev = q.answer.room.qrev
      /\ b.items = IF q.answer.full THEN q.answer.room.items ELSE app[u].items
  BY <1>1 DEF Scheduled, Apply, Apps
<1> HIDE DEF b, q
<1>4. /\ app'[u] = b /\ req'[u] = [req[u] EXCEPT ![s] = Idle]
      /\ crossed'[u] = (crossed[u] \/ Late(app[u], q))
      /\ \A v \in Users \ {u} : app'[v] = app[v] /\ req'[v] = req[v] /\ crossed'[v] = crossed[v]
  BY <1>2 DEF IInv, AppsOK, RequestsOK
<1>5. b \in Apps
  <2>1. app'[u] \in Apps
    BY DEF IInv, AppsOK
  <2> QED
    BY <1>4, <2>1
<1>6. UserOK(app[u], req[u], crossed[u], rooms, used)
  BY DEF QInv
<1>7. \A o, t \in Slots : Entering(req[u][o]) /\ Entering(req[u][t]) => o = t
  BY DEF OneEntry
<1>8. UserOK(b, [req[u] EXCEPT ![s] = Idle], crossed[u] \/ Late(app[u], q), rooms, used)
  BY <1>1, <1>2, <1>3, <1>5, <1>6, <1>7, Taken DEF q
<1> QED
  BY <1>2, <1>4, <1>8, AlikeQ

\* An answer without a room, or a loss.
LEMMA TakeRestQ ==
  ASSUME IInv, IInv', QInv, NEW u \in Users, NEW s \in Slots,
         TakeGone(u, s) \/ TakeRest(u, s) \/ Lose(u, s)
  PROVE  QInv'
<1> PICK b \in {app[u], Away, Retried(app[u])} : app' = [app EXCEPT ![u] = b]
  BY DEF TakeGone, TakeRest, Lose, IInv, AppsOK
<1>1. Forget(u, s) /\ UNCHANGED <<server, crossed>>
  BY DEF TakeGone, TakeRest, Lose, history
<1>2. Away.jam = None
  BY DEF Away
<1>3. /\ Retried(app[u]).jam = app[u].jam /\ Retried(app[u]).qrev = app[u].qrev
      /\ Retried(app[u]).items = app[u].items
  BY Typed DEF Retried, Scheduled, Apps
<1> QED
  BY <1>1, <1>2, <1>3, DroppedQ

\* The server's steps.
LEMMA HandleQ ==
  ASSUME IInv, IInv', QInv, NEW u \in Users, NEW s \in Slots, Handle(u, s)
  PROVE  QInv'
BY GetQ, ReadQ, ExecQ, EnterQ, GoOutQ, UnkeyQ, LookUpQ, DeleteQ, CreateQ DEF Handle

\* Every step.
LEMMA NextQ ==
  ASSUME IInv, IInv', QInv, OneEntry, Next
  PROVE  QInv'
BY ListenerQ, PollQ, HandleQ, TakeInQ, TakeRestQ, TrackOverQ DEF Next, Take

\* No step.
LEMMA StutterQ ==
  ASSUME QInv, UNCHANGED vars
  PROVE  QInv'
BY DEF QInv, vars, history

\* The invariant says what is wanted.
LEMMA QInvInOrder == QInv => InOrderQueue
BY DEF QInv, UserOK, HasCopy, Copies, InOrderQueue, UpToDate

\* An app that has the room's qrev has the room's queue, if no answer came late
\* (services/jams.py sends the queue only when the two differ), for any number of rooms,
\* listeners and commands under way, of which at most one is to enter a room.
THEOREM QueueInOrder == Spec /\ []OneEntry => []InOrderQueue
<1>1. Init => QInv
  BY InitQ
<1>2. IInv /\ IInv' /\ QInv /\ OneEntry /\ [Next]_vars => QInv'
  BY NextQ, StutterQ
<1> QED
  BY <1>1, <1>2, Inductive, QInvInOrder, PTL DEF Spec

\* One command at a time is one entry at a time.
LEMMA OneCommandEnters ==
  ASSUME \A s, t \in Commands : s = t, QInv
  PROVE  OneEntry
BY DEF QInv, UserOK, OneEntry

\* The same of apps with one command under way beside their poll.
THEOREM QueueInOrderOne ==
  ASSUME \A s, t \in Commands : s = t
  PROVE  Spec => []InOrderQueue
<1>1. Init => QInv
  BY InitQ
<1>2. IInv /\ IInv' /\ QInv /\ [Next]_vars => QInv'
  BY NextQ, StutterQ, OneCommandEnters
<1> QED
  BY <1>1, <1>2, Inductive, QInvInOrder, PTL DEF Spec
==============================================================================
