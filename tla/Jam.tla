-------------------------------- MODULE Jam --------------------------------
(***************************************************************************)
(* Listening together: the rooms in Redis (services/jams.py) and the       *)
(* listeners' apps (store/jam.ts).                                         *)
(*                                                                         *)
(* A command reads the room, changes the copy and writes it back unless    *)
(* the key was written meanwhile (WATCH/MULTI).  Leaving, ending and       *)
(* joining are several Redis calls.  An app polls the room and sends       *)
(* commands; answers come back in any order, or not at all, and each is    *)
(* taken in as it comes.                                                   *)
(*                                                                         *)
(* The playhead is the index; the position within a track is left out, but *)
(* for the moment the track is over.                                       *)
(***************************************************************************)
EXTENDS Naturals, Sequences, FiniteSets

CONSTANTS
  Users,      \* listeners, each with one open app
  Host,       \* who hosts the room the instance starts with
  Codes,      \* codes of rooms
  First,      \* the code of that room
  Commands,   \* names of the command slots of an app: commands under way at once
  Actions,    \* what listeners do in this instance
  MaxItems,   \* MAX_QUEUE
  MaxOps,     \* bound: what listeners do, tracks that end
  MaxFaults   \* bound: requests or answers lost

None == 0

AllActions == {"play", "pause", "next", "ended", "previous", "jump", "add", "remove",
               "configure", "start", "join", "leave", "reopen", "over"}

ASSUME JamAssumption ==
  /\ Host \in Users /\ First \in Codes /\ None \notin Codes /\ "poll" \notin Commands
  /\ Actions \subseteq AllActions
  /\ {MaxItems, MaxOps, MaxFaults} \subseteq Nat

Slots == Commands \cup {"poll"}

VARIABLES
  rooms,    \* jam:<code>, for the codes that exist
  of,       \* jam:user:<id>: the code of the user's room
  used,     \* codes given out so far
  app,      \* the useJam store of each listener, and whether its poll timer is set
  req,      \* per listener and slot: a request, where it is and what it has read
  kept,     \* history: items that were accepted and not removed, by code
  crossed,  \* history: an app took in an answer that came late
  meant,    \* history: the room each listener chose last
  ops, faults

vars == <<rooms, of, used, app, req, kept, crossed, meant, ops, faults>>
history == <<crossed, meant>>

Item == [id : 1..MaxOps + 2, by : Users]
Room == [host : Users, members : SUBSET Users, items : Seq(Item), index : Nat \ {0},
         playing : BOOLEAN, over : BOOLEAN, guests : BOOLEAN, rev : Nat, qrev : Nat]

NoRoom == [host |-> None]
NoAnswer == [status |-> "none", code |-> None, room |-> NoRoom, full |-> FALSE]
Idle == [kind |-> "none", pc |-> "idle", code |-> None, index |-> 0, known |-> 0,
         snap |-> NoRoom, saw |-> {}, answer |-> NoAnswer]

Away == [jam |-> None, host |-> FALSE, qrev |-> 0, index |-> 0, items |-> <<>>, timer |-> FALSE]

Fits(r) == r.index \in 1..(IF r.items = <<>> THEN 1 ELSE Len(r.items))

TypeOK ==
  /\ DOMAIN rooms \subseteq used /\ used \subseteq Codes
  /\ \A c \in DOMAIN rooms : rooms[c] \in Room /\ Fits(rooms[c])
  /\ of \in [Users -> Codes \cup {None}]
  /\ \A u \in Users :
       /\ app[u].jam \in Codes \cup {None} /\ app[u].items \in Seq(Item)
       /\ app[u].timer \in BOOLEAN
       /\ \A s \in Slots : req[u][s].pc \in
            {"idle", "sent", "read", "drop", "ending", "unkey", "main", "answered"}
  /\ kept \in [Codes -> SUBSET (1..MaxOps + 2)]
  /\ crossed \in [Users -> BOOLEAN] /\ meant \in [Users -> Codes \cup {None}]
  /\ ops \in 0..MaxOps /\ faults \in 0..MaxFaults

-----------------------------------------------------------------------------
(* Rooms *)

\* settle(): on to the next track when the playing one is over.
Settled(r) ==
  IF ~(r.playing /\ r.over) THEN r
  ELSE IF r.index < Len(r.items)
       THEN [r EXCEPT !.index = @ + 1, !.over = FALSE, !.rev = @ + 1]
       ELSE [r EXCEPT !.playing = FALSE, !.over = FALSE, !.rev = @ + 1]

CanControl(r, u) == u \in r.members /\ (u = r.host \/ r.guests)

GoTo(r, i) == [r EXCEPT !.index = i, !.over = FALSE, !.playing = TRUE]
Bumped(r) == [r EXCEPT !.rev = @ + 1]
EditedQuietly(r) == [r EXCEPT !.rev = @ + 1]
Edited(r) == [r EXCEPT !.rev = @ + 1, !.qrev = @ + 1]

\* control(): each operator gives the rooms a command may make of r, none when it is
\* refused.  An `ended` of another index than the room's is nobody's business any more.
Played(r, on) ==
  {IF on /\ r.items = <<>> THEN r ELSE Bumped([r EXCEPT !.playing = on])}

Skipped(r) ==
  {IF r.index >= Len(r.items) THEN Bumped([r EXCEPT !.playing = FALSE])
                              ELSE Bumped(GoTo(r, r.index + 1))}

\* Back to the start of the track, or to the one before.
WentBack(r) ==
  {Bumped([r EXCEPT !.over = FALSE])}
    \cup {Bumped(GoTo(r, i)) : i \in {j \in 1..Len(r.items) : j + 1 = r.index}}

Controlled(r, u, q) ==
  IF ~CanControl(r, u) THEN {}
  ELSE CASE q.kind = "play" -> Played(r, TRUE)
         [] q.kind = "pause" -> Played(r, FALSE)
         [] q.kind = "next" -> Skipped(r)
         [] q.kind = "ended" -> IF q.index = r.index THEN Skipped(r) ELSE {r}
         [] q.kind = "previous" -> WentBack(r)
         [] q.kind = "jump" -> IF q.index \in 1..Len(r.items) THEN {Bumped(GoTo(r, q.index))}
                                                              ELSE {}

\* add(): at the end, after the playing track, or there and now.
Inserted(r, i, x) ==
  [r EXCEPT !.items = SubSeq(@, 1, i - 1) \o <<x>> \o SubSeq(@, i, Len(@))]

Added(r, u, id) ==
  LET x == [id |-> id, by |-> u] IN
  IF u \notin r.members \/ Len(r.items) >= MaxItems THEN {}
  ELSE IF r.items = <<>> THEN {Edited(GoTo(Inserted(r, 1, x), 1))}
  ELSE {Edited(Inserted(r, Len(r.items) + 1, x)), Edited(Inserted(r, r.index + 1, x))}
         \cup IF CanControl(r, u) THEN {Edited(GoTo(Inserted(r, r.index + 1, x), r.index + 1))}
                                  ELSE {}

WithoutItem(s, i) == SubSeq(s, 1, i - 1) \o SubSeq(s, i + 1, Len(s))

CloseUp(r, i) ==
  [r EXCEPT !.items = WithoutItem(@, i), !.index = IF i < @ THEN @ - 1 ELSE @]

RemovedPlaying(r, u, i) ==
  IF u \in r.members /\ i \in 1..Len(r.items) THEN {Edited(CloseUp(r, i))} ELSE {}

Removed(r, u, i) ==
  IF u \in r.members /\ i \in 1..Len(r.items) /\ i # r.index
       /\ (u = r.host \/ r.items[i].by = u)
  THEN {Edited(CloseUp(r, i))} ELSE {}

Configured(r, u) ==
  IF u = r.host THEN {Bumped([r EXCEPT !.guests = ~@])} ELSE {}

Joined(r, u) ==
  {IF u \in r.members THEN r ELSE Bumped([r EXCEPT !.members = @ \cup {u}])}

Left(r, u) == IF u \in r.members THEN Bumped([r EXCEPT !.members = @ \ {u}]) ELSE r

Changed(r, u, q) ==
  CASE q.kind = "add" -> Added(r, u, q.index)
    [] q.kind = "remove" -> Removed(r, u, q.index)
    [] q.kind = "configure" -> Configured(r, u)
    [] q.kind = "join" -> Joined(r, u)
    [] OTHER -> Controlled(r, u, q)

Ids(s) == {s[i].id : i \in 1..Len(s)}

NewRoom(u, items, index, playing) ==
  [host |-> u, members |-> {u}, items |-> items, index |-> index,
   playing |-> playing, over |-> FALSE, guests |-> TRUE, rev |-> 0, qrev |-> 0]

-----------------------------------------------------------------------------
(* The app *)

\* apply(): the state as it came; the queue only when it is in the answer.
Apply(a, u, ans) ==
  LET r == ans.room IN
  [a EXCEPT !.jam = ans.code, !.host = (r.host = u), !.qrev = r.qrev,
            !.index = r.index, !.items = IF ans.full THEN r.items ELSE @]

Scheduled(a) == [a EXCEPT !.timer = TRUE]

\* The queue in the answer is older than the app's: another answer overtook it, or the
\* listener went.
Late(a, q) ==
  IF q.answer.code = a.jam THEN q.answer.room.qrev < a.qrev
                           ELSE q.kind \notin {"start", "join", "resume"}

Busy(u, s) == req[u][s].pc # "idle"

Sent(kind, code, index, known) ==
  [Idle EXCEPT !.kind = kind, !.pc = "sent", !.code = code, !.index = index, !.known = known]

\* The room is under way: Host started it with one track, everybody joined.
Init ==
  LET items == <<[id |-> 1, by |-> Host], [id |-> 2, by |-> Host]>>
      room == [NewRoom(Host, items, 1, TRUE) EXCEPT !.members = Users]
      answer == [status |-> "ok", code |-> First, room |-> room, full |-> TRUE] IN
  /\ rooms = [c \in {First} |-> room]
  /\ of = [u \in Users |-> First] /\ used = {First}
  /\ app = [u \in Users |-> Scheduled(Apply(Away, u, answer))]
  /\ req = [u \in Users |-> [s \in Slots |-> Idle]]
  /\ kept = [c \in Codes |-> IF c = First THEN {1, 2} ELSE {}]
  /\ crossed = [u \in Users |-> FALSE] /\ meant = [u \in Users |-> First]
  /\ ops = 0 /\ faults = 0

Send(u, s, q) == req' = [req EXCEPT ![u][s] = q]

Act(what) == what \in Actions /\ ops < MaxOps /\ ops' = ops + 1 /\ UNCHANGED faults

server == <<rooms, of, used, kept>>

\* The timer, or coming back to the app: poll(), unless one is under way.
Poll(u) ==
  /\ app[u].timer
  /\ app' = [app EXCEPT ![u].timer = FALSE]
  /\ IF app[u].jam # None /\ ~Busy(u, "poll")
     THEN Send(u, "poll", Sent("poll", app[u].jam, 0, app[u].qrev))
     ELSE UNCHANGED req
  /\ UNCHANGED <<server, history, ops, faults>>

\* The transport buttons, the queue's rows and the host's switch.
Command(u, s, kind, index) ==
  /\ Act(kind) /\ app[u].jam # None /\ ~Busy(u, s)
  /\ Send(u, s, Sent(kind, app[u].jam, index, app[u].qrev))
  /\ UNCHANGED <<server, app, history>>

Shown(u) == {i \in 1..Len(app[u].items) : i > app[u].index}

Transport(u, s) == \E kind \in {"play", "pause", "next", "previous"} : Command(u, s, kind, 0)
Ended(u, s) == Command(u, s, "ended", app[u].index)
Jump(u, s) == \E i \in Shown(u) : Command(u, s, "jump", i)
Add(u, s) == Command(u, s, "add", ops + 3)
Remove(u, s) ==
  \E i \in Shown(u) :
    (app[u].host \/ app[u].items[i].by = u) /\ Command(u, s, "remove", i)
Configure(u, s) == app[u].host /\ Command(u, s, "configure", 0)

Start(u, s) ==
  /\ Act("start") /\ app[u].jam = None /\ ~Busy(u, s)
  /\ Send(u, s, Sent("start", None, ops + 3, 0))
  /\ UNCHANGED <<server, app, history>>

Join(u, s, c) ==
  /\ Act("join") /\ c \in used /\ app[u].jam # c /\ ~Busy(u, s)
  /\ Send(u, s, Sent("join", c, 0, 0))
  /\ meant' = [meant EXCEPT ![u] = c]
  /\ UNCHANGED <<server, app, crossed>>

\* Leave, or end for the host: the app forgets the room first.
Leave(u, s) ==
  /\ Act("leave") /\ app[u].jam # None /\ ~Busy(u, s)
  /\ Send(u, s, Sent(IF app[u].host THEN "end" ELSE "leave", app[u].jam, 0, 0))
  /\ app' = [app EXCEPT ![u] = Away]
  /\ meant' = [meant EXCEPT ![u] = None]
  /\ UNCHANGED <<server, crossed>>

\* The app is closed and opened again: resume().  What the server has taken goes on.
Reopen(u, s) ==
  /\ Act("reopen")
  /\ \A o \in Slots : req[u][o].pc \in {"idle", "answered"}
  /\ app' = [app EXCEPT ![u] = Away]
  /\ req' = [req EXCEPT ![u] = [o \in Slots |-> IF o = s THEN Sent("resume", None, 0, 0)
                                                       ELSE Idle]]
  /\ crossed' = [crossed EXCEPT ![u] = FALSE]
  /\ UNCHANGED <<server, meant>>

TrackOver(c) ==
  /\ Act("over")
  /\ c \in DOMAIN rooms /\ rooms[c].playing /\ ~rooms[c].over /\ rooms[c].items # <<>>
  /\ rooms' = [rooms EXCEPT ![c].over = TRUE]
  /\ UNCHANGED <<of, used, app, req, kept, history>>

-----------------------------------------------------------------------------
(* The server.  q is the request in slot s of u. *)

Answered(q, status, code, room) ==
  [q EXCEPT !.pc = "answered", !.snap = NoRoom, !.saw = {},
            !.answer = [status |-> status, code |-> code, room |-> room,
                        full |-> q.known # room.qrev \/ q.kind \in {"add", "remove", "join",
                                                                     "start", "resume"}]]

Plain(q, status) ==
  [q EXCEPT !.pc = "answered", !.snap = NoRoom, !.saw = {}, !.answer.status = status]

\* GET: the settled room is shown, not stored.
Get(u, s) ==
  LET q == req[u][s]
      code == IF q.kind = "resume" THEN of[u] ELSE q.code IN
  /\ q.pc = "sent" /\ q.kind \in {"poll", "resume"}
  /\ Send(u, s,
       IF code \in DOMAIN rooms /\ (q.kind = "poll" \/ u \in rooms[code].members)
       THEN Answered(q, "ok", code, Settled(rooms[code]))
       ELSE Plain(q, IF q.kind = "poll" THEN "gone" ELSE "none"))
  /\ UNCHANGED <<server, app, history, ops, faults>>

Mutating == {"play", "pause", "next", "ended", "previous", "jump", "add", "remove", "configure"}

\* _mutate(): WATCH and GET.
Read(u, s) ==
  LET q == req[u][s] IN
  /\ \/ q.pc = "sent" /\ q.kind \in Mutating
     \/ q.pc = "main" /\ q.kind = "join"
  /\ Send(u, s, IF q.code \in DOMAIN rooms
                THEN [q EXCEPT !.pc = "read", !.snap = rooms[q.code]] ELSE Plain(q, "gone"))
  /\ UNCHANGED <<server, app, history, ops, faults>>

WatchedNever(c, snap) == c \in DOMAIN rooms
Watched(c, snap) == c \in DOMAIN rooms /\ rooms[c] = snap

\* change() and EXEC, which fails when the key was written since: again from the top.
Exec(u, s) ==
  LET q == req[u][s]
      c == q.code
      outcomes == Changed(Settled(q.snap), u, q) IN
  /\ q.pc = "read"
  /\ \/ /\ outcomes = {}
        /\ Send(u, s, Plain(q, "refused"))
        /\ UNCHANGED server
     \/ /\ outcomes # {} /\ ~Watched(c, q.snap)
        /\ Send(u, s, [q EXCEPT !.pc = IF q.kind = "join" THEN "main" ELSE "sent",
                                !.snap = NoRoom])
        /\ UNCHANGED server
     \/ \E r \in outcomes :
          /\ Watched(c, q.snap)
          /\ rooms' = [rooms EXCEPT ![c] = r]
          /\ of' = [m \in Users |-> IF m \in r.members THEN c ELSE of[m]]
          /\ kept' = [kept EXCEPT ![c] = (@ \cup Ids(r.items)) \ (Ids(q.snap.items) \ Ids(r.items))]
          /\ Send(u, s, Answered(q, "ok", c, r))
          /\ UNCHANGED used
  /\ UNCHANGED <<app, history, ops, faults>>

\* start() and join(): out of the room the user is in first.
Enter(u, s) ==
  LET q == req[u][s] IN
  /\ q.pc = "sent" /\ q.kind \in {"start", "join"}
  /\ Send(u, s, [q EXCEPT !.pc = IF of[u] \in {None, q.code} THEN "main" ELSE "drop"])
  /\ UNCHANGED <<server, app, history, ops, faults>>

Going(q) == (q.pc = "sent" /\ q.kind = "leave") \/ q.pc = "drop"
After(q) == IF q.kind \in {"start", "join"} THEN [q EXCEPT !.pc = "main", !.saw = {}]
                                            ELSE Plain(q, "done")

\* leave(): a guest is taken off the list, the host ends the room.
GoOut(u, s) ==
  LET q == req[u][s]
      c == IF q.pc = "drop" THEN of[u] ELSE q.code IN
  /\ Going(q)
  /\ \/ /\ c \notin DOMAIN rooms
        /\ IF q.pc = "drop" THEN Send(u, s, After(q)) /\ of' = [of EXCEPT ![u] = None]
                            ELSE Send(u, s, Plain(q, "gone")) /\ UNCHANGED of
        /\ UNCHANGED rooms
     \/ /\ c \in DOMAIN rooms /\ rooms[c].host = u
        /\ Send(u, s, [q EXCEPT !.pc = "ending", !.saw = rooms[c].members,
                                !.snap = [host |-> c]])
        /\ UNCHANGED <<rooms, of>>
     \/ /\ c \in DOMAIN rooms /\ rooms[c].host # u
        /\ LET r == Left(Settled(rooms[c]), u) IN
           /\ rooms' = [rooms EXCEPT ![c] = r]
           /\ of' = [m \in Users |-> IF m \in r.members THEN c ELSE of[m]]
        /\ Send(u, s, [q EXCEPT !.pc = "unkey"])
  /\ UNCHANGED <<used, kept, app, history, ops, faults>>

Unkey(u, s) ==
  LET q == req[u][s] IN
  /\ q.pc = "unkey"
  /\ of' = [of EXCEPT ![u] = None]
  /\ Send(u, s, After(q))
  /\ UNCHANGED <<rooms, used, kept, app, history, ops, faults>>

\* end(): who is in it is read, then the room and their keys are deleted.
LookUp(u, s) ==
  LET q == req[u][s] IN
  /\ q.pc = "sent" /\ q.kind = "end"
  /\ Send(u, s, IF q.code \notin DOMAIN rooms THEN Plain(q, "gone")
                ELSE [q EXCEPT !.pc = "ending", !.saw = rooms[q.code].members,
                               !.snap = [host |-> q.code]])
  /\ UNCHANGED <<server, app, history, ops, faults>>

Delete(u, s) ==
  LET q == req[u][s] IN
  /\ q.pc = "ending"
  /\ rooms' = [c \in DOMAIN rooms \ {q.snap.host} |-> rooms[c]]
  /\ of' = [m \in Users |-> IF m \in q.saw THEN None ELSE of[m]]
  /\ Send(u, s, After([q EXCEPT !.snap = NoRoom]))
  /\ UNCHANGED <<used, kept, app, history, ops, faults>>

\* create(): a code nobody has, what the host listens to, the host's key.
Create(u, s, c) ==
  LET q == req[u][s]
      room == NewRoom(u, <<[id |-> q.index, by |-> u]>>, 1, TRUE) IN
  /\ q.pc = "main" /\ q.kind = "start" /\ c \notin used
  /\ rooms' = [d \in DOMAIN rooms \cup {c} |-> IF d = c THEN room ELSE rooms[d]]
  /\ used' = used \cup {c} /\ of' = [of EXCEPT ![u] = c]
  /\ kept' = [kept EXCEPT ![c] = {q.index}]
  /\ Send(u, s, Answered(q, "ok", c, room))
  /\ UNCHANGED <<app, history, ops, faults>>

-----------------------------------------------------------------------------
(* Answers *)

Forget(u, s) == req' = [req EXCEPT ![u][s] = Idle]

\* Whatever was asked, the state in the answer is taken in.
TakeIn(u, s) ==
  LET q == req[u][s] IN
  /\ q.pc = "answered" /\ q.answer.status = "ok"
  /\ app' = [app EXCEPT ![u] = Scheduled(Apply(@, u, q.answer))]
  /\ crossed' = [crossed EXCEPT ![u] = @ \/ Late(app[u], q)]
  /\ meant' = [meant EXCEPT ![u] = IF q.kind \in {"start", "resume"} THEN q.answer.code ELSE @]
  /\ Forget(u, s)
  /\ UNCHANGED <<server, ops, faults>>

\* 404 to a poll or a command: the jam is over.
TakeGone(u, s) ==
  LET q == req[u][s] IN
  /\ q.pc = "answered" /\ q.answer.status = "gone"
  /\ app' = [app EXCEPT ![u] = IF q.kind \in Mutating \cup {"poll"} THEN Away ELSE @]
  /\ Forget(u, s)
  /\ UNCHANGED <<server, history, ops, faults>>

\* A refusal, or nothing to take in.
TakeRest(u, s) ==
  LET q == req[u][s] IN
  /\ q.pc = "answered" /\ q.answer.status \in {"none", "refused", "done"}
  /\ Forget(u, s)
  /\ UNCHANGED <<server, app, history, ops, faults>>

RetriedNever(a) == a
Retried(a) == IF a.jam # None THEN Scheduled(a) ELSE a

\* The request or its answer is lost: a poll comes round again, a command is over.
Lose(u, s) ==
  LET q == req[u][s] IN
  /\ q.pc \in {"sent", "answered"} /\ faults < MaxFaults
  /\ faults' = faults + 1
  /\ app' = [app EXCEPT ![u] = IF q.kind = "poll" THEN Retried(@) ELSE @]
  /\ Forget(u, s)
  /\ UNCHANGED <<server, history, ops>>

-----------------------------------------------------------------------------
Listener(u) ==
  \E s \in Commands :
       \/ Transport(u, s) \/ Ended(u, s) \/ Jump(u, s) \/ Add(u, s) \/ Remove(u, s)
       \/ Configure(u, s) \/ Start(u, s) \/ Leave(u, s) \/ Reopen(u, s)
       \/ \E c \in Codes : Join(u, s, c)

Handle(u, s) ==
  \/ Get(u, s) \/ Read(u, s) \/ Exec(u, s) \/ Enter(u, s) \/ GoOut(u, s) \/ Unkey(u, s)
  \/ LookUp(u, s) \/ Delete(u, s) \/ \E c \in Codes : Create(u, s, c)

Take(u, s) == TakeIn(u, s) \/ TakeGone(u, s) \/ TakeRest(u, s)

Next ==
  \/ \E u \in Users :
       \/ Listener(u) \/ Poll(u)
       \/ \E s \in Slots : Handle(u, s) \/ Take(u, s) \/ Lose(u, s)
  \/ \E c \in Codes : TrackOver(c)

Spec == Init /\ [][Next]_vars

\* Each app goes on: its timer fires, its requests are handled and answered.
GoesOn(u) == Poll(u) \/ \E s \in Slots : Handle(u, s) \/ Take(u, s)

FairSpec == Spec /\ \A u \in Users : WF_vars(GoesOn(u))

-----------------------------------------------------------------------------
(* Properties *)

\* No command of one listener undoes another's (_mutate(): "Apply change atomically"):
\* whatever was accepted into a queue is there until somebody removes it, and what was
\* removed is gone.
AcceptedStays == \A c \in DOMAIN rooms : Ids(rooms[c].items) = kept[c]

Quiet(u) == \A s \in Slots : ~Busy(u, s)
UpToDate(u) ==
  app[u].jam \in DOMAIN rooms /\ Quiet(u) /\ app[u].qrev = rooms[app[u].jam].qrev

\* The server sends the queue only to an app whose qrev is another than the room's
\* ("so the clients that poll can skip re-reading a queue they already have", jams.py:15):
\* with the room's qrev and no request under way, an app has the room's queue.
QueueIsTheRooms == \A u \in Users : UpToDate(u) => app[u].items = rooms[app[u].jam].items

\* The same, of an app that has taken in no answer that another had overtaken.
InOrderQueue ==
  \A u \in Users : UpToDate(u) /\ ~crossed[u] => app[u].items = rooms[app[u].jam].items

\* An app that has nothing under way shows the room its listener chose last, or none:
\* leaving drops the jam (jam.ts:46).
ShowsChosenRoom == \A u \in Users : Quiet(u) => app[u].jam \in {None, meant[u]}

\* When no handler is between two of its steps, reopening the app puts a member back in
\* the room (current_jam, routers/jams.py).
Still == \A u \in Users : \A s \in Slots : req[u][s].pc \in {"idle", "answered"}
KeysFollow == Still => \A c \in DOMAIN rooms : \A u \in rooms[c].members : of[u] = c

\* An app does not go on showing a room that is over, whatever gets lost: it polls until
\* it is told (poll's 404), and a poll that fails is scheduled again.
ShowsEnded(u) == app[u].jam # None /\ app[u].jam \notin DOMAIN rooms
EndIsNoticed == \A u \in Users : ShowsEnded(u) ~> ~ShowsEnded(u)
=============================================================================
