------------------------------- MODULE Queue -------------------------------
(***************************************************************************)
(* The two queues of the player (store/player.ts): the source being played *)
(* and what the listener queued by hand, with shuffle, Smart Shuffle,      *)
(* repeat and the station that continues when the source runs out.         *)
(*                                                                         *)
(* next() and previous() read the store, then wait for the fade-out (and   *)
(* next() perhaps for a station), and go on with what they read.  A fade   *)
(* that is cancelled never ends: whoever waited for it is never heard of   *)
(* again.  What happens to the audio itself is Playback's subject; here a  *)
(* load only ends, which cancels the fade.                                 *)
(***************************************************************************)
EXTENDS Integers, Sequences, SequencesExt

CONSTANTS
  Tracks,     \* what there is to play
  Playlists,  \* the sources the listener opens: sequences of tracks
  Stations,   \* the stations fetchRadio may answer with
  Suggested,  \* what fetchForTracks may answer with
  MaxQueue,   \* bound: length of the source
  MaxManual,  \* bound: length of the manual queue
  MaxOps      \* bound: what the listener does

ASSUME QueueAssumption ==
  /\ Playlists \subseteq Seq(Tracks) \ {<<>>}
  /\ Stations \subseteq Seq(Tracks) /\ Suggested \subseteq Seq(Tracks)
  /\ MaxQueue \in Nat /\ MaxManual \in Nat /\ MaxOps \in Nat
  /\ 0 \notin Tracks   \* track ids are positive

None == 0   \* current: null

VARIABLES
  queue, manual,   \* PlayerState
  unshuffled,      \* the order before shuffle (<<>>: null)
  playingManual, index, current, shuffle, smart, smartIds, repeat, autoplay,
  skip,      \* the next() or previous() waiting for its fade-out, with what it read
  stations,  \* the next() calls waiting for a station, with what they read
  mixes,     \* the setSmartShuffle() calls waiting for suggestions: what they excluded
  loads,     \* the tracks being loaded, and whether play() asked for them
  silent,    \* the element's volume is at zero
  adrift,    \* history: the store was left out of step with what plays
  ops        \* counts what the listener did

source == <<queue, manual, unshuffled, playingManual, index, current>>
modes == <<shuffle, smart, smartIds, repeat, autoplay>>
fade == <<skip, silent>>
vars == <<queue, manual, unshuffled, playingManual, index, current, shuffle, smart,
          smartIds, repeat, autoplay, skip, stations, mixes, loads, silent, adrift, ops>>

-----------------------------------------------------------------------------
At(s, i) == s[i + 1]                          \* indices count from 0, as in the code
From(s, i) == SubSeq(s, i + 1, Len(s))        \* s.slice(i)
UpTo(s, i) == SubSeq(s, 1, IF i < Len(s) THEN i ELSE Len(s))   \* s.slice(0, i)
InRange(s, i) == i \in 0..Len(s) - 1
\* The elements of s at the positions K, in their order.
Rank(K, i) == Cardinality({j \in K : j <= i})
Place(K, n) == CHOOSE i \in K : Rank(K, i) = n
Sub(s, K) == [n \in 1..Cardinality(K) |-> s[Place(K, n)]]
Filter(s, Test(_)) == Sub(s, {i \in DOMAIN s : Test(i)})   \* s.filter((_, i) => Test(i))

\* findIndex((t) => t.id === track), or -1
IndexOf(s, track) ==
  IF Contains(s, track) THEN SelectInSeq(s, LAMBDA t : t = track) - 1 ELSE -1
AtLeast0Not(i) == i   \* mutant: without Math.max(0, ...)
AtLeast0(i) == IF i < 0 THEN 0 ELSE i

\* shuffled(): the kept track first, the others in any order.
Orders(s) == {[i \in DOMAIN s |-> s[p[i]]] : p \in {q \in [DOMAIN s -> DOMAIN s] : IsInjective(q)}}
Shuffled(s, keep) ==
  LET kept == IF InRange(s, keep) THEN <<At(s, keep)>> ELSE <<>> IN
  {kept \o rest : rest \in Orders(Filter(s, LAMBDA i : i # keep + 1))}

\* upcoming(): what plays next, manual queue first.
Upcoming == manual \o From(queue, index + 1)

\* What next() and previous() read before they wait.
Read == [queue |-> queue, manual |-> manual, index |-> index, current |-> current,
         playingManual |-> playingManual, repeat |-> repeat]
Moved(r) == r # Read
NoSkip == [op |-> "none"]

TypeOK ==
  /\ queue \in Seq(Tracks) /\ manual \in Seq(Tracks) /\ unshuffled \in Seq(Tracks)
  /\ {playingManual, shuffle, smart, autoplay, silent, adrift} \subseteq BOOLEAN
  /\ index \in Nat /\ current \in Tracks \cup {None}
  /\ smartIds \subseteq Tracks
  /\ \A l \in loads : l.track \in Tracks /\ l.mix \in BOOLEAN
  /\ repeat \in {"off", "all", "one"}
  /\ skip.op \in {"none", "next", "previous"}
  /\ ops \in 0..MaxOps

Init ==
  /\ queue = <<>> /\ manual = <<>> /\ unshuffled = <<>>
  /\ playingManual = FALSE /\ index = 0 /\ current = None
  /\ shuffle = FALSE /\ smart = FALSE /\ smartIds = {} /\ repeat = "off"
  /\ autoplay \in BOOLEAN
  /\ skip = NoSkip /\ stations = <<>> /\ mixes = <<>> /\ loads = {}
  /\ silent = FALSE /\ adrift = FALSE /\ ops = 0

Act == ops < MaxOps /\ ops' = ops + 1

-----------------------------------------------------------------------------
\* play(): a source from one of its tracks; shuffled at once when shuffle is on.
PlayFrom(request, at) ==
  /\ \E order \in IF shuffle THEN Shuffled(request, at) ELSE {request} : queue' = order
  /\ index' = IF shuffle THEN 0 ELSE at
  /\ unshuffled' = IF shuffle THEN request ELSE <<>>
  /\ playingManual' = FALSE
  /\ current' = At(request, at)
  /\ loads' = loads \cup {[track |-> At(request, at), mix |-> TRUE]}
  /\ UNCHANGED <<manual, modes, fade, stations, mixes>>

Play ==
  /\ Act
  /\ \E list \in Playlists : \E at \in 0..Len(list) - 1 : PlayFrom(list, at)
  /\ adrift' = FALSE

\* A row of "up next" in the queue sheet plays the queue as it stands from there.
PlayRow ==
  /\ Act
  /\ \E at \in index + 1..Len(queue) - 1 : PlayFrom(queue, at)
  /\ adrift' = FALSE

\* follow(): the queue of another device (Connect) or of a Jam takes the place of both
\* queues and of shuffle; Smart Shuffle is not asked.
Follow ==
  /\ Act
  /\ \E list \in Playlists : \E at \in 0..Len(list) - 1 :
       /\ queue' = list /\ index' = at /\ current' = At(list, at)
       /\ loads' = loads \cup {[track |-> At(list, at), mix |-> FALSE]}
  /\ manual' = <<>> /\ unshuffled' = <<>> /\ playingManual' = FALSE
  /\ shuffle' = FALSE /\ adrift' = FALSE
  /\ UNCHANGED <<smart, smartIds, repeat, autoplay, fade, stations, mixes>>

-----------------------------------------------------------------------------
\* What next() does once the fade is over, on what it read ("r").

Becomes(track, at, byHand) ==
  /\ index' = at /\ playingManual' = byHand /\ current' = track
  /\ loads' = loads \cup {[track |-> track, mix |-> FALSE]}

\* 1. Whatever was asked for by hand.
TakeManual(r) ==
  /\ r.manual # <<>>
  /\ Becomes(Head(r.manual), index, TRUE)
  /\ manual' = Tail(r.manual)
  /\ UNCHANGED <<queue, unshuffled, stations>>

\* 2. The source continues after the track it was interrupted at.
AfterInterrupted(r) == r.index   \* mutant: plays the interrupted track again
After(r) == r.index + 1
IsLast(r) == r.index >= Len(r.queue) - 1

Advance(r) ==
  LET at == IF IsLast(r) THEN 0 ELSE After(r) IN
  /\ r.manual = <<>> /\ (~IsLast(r) \/ r.repeat = "all")
  /\ IF InRange(r.queue, at) THEN Becomes(At(r.queue, at), at, FALSE)
     ELSE UNCHANGED <<index, playingManual, current, loads>>
  /\ UNCHANGED <<queue, manual, unshuffled, stations>>

\* 3. Nothing left: a station built from this track, or the end.
AskStation(r, auto) ==
  /\ r.manual = <<>> /\ IsLast(r) /\ r.repeat # "all"
  /\ autoplay /\ r.current # None
  /\ stations' = Append(stations, [read |-> r, auto |-> auto])
  /\ UNCHANGED <<source, loads>>

TheEnd(r, auto) ==
  /\ r.manual = <<>> /\ IsLast(r) /\ r.repeat # "all"
  /\ ~(autoplay /\ r.current # None)
  /\ playingManual' = (playingManual /\ ~auto)
  /\ UNCHANGED <<queue, manual, unshuffled, index, current, stations, loads>>

Goes(r, auto) == TakeManual(r) \/ Advance(r) \/ AskStation(r, auto)

\* The end turns the volume up again, which ends a fade under way.
Continue(r, auto, hush, waits) ==
  \/ Goes(r, auto) /\ silent' = hush /\ skip' = waits /\ adrift' = (adrift \/ Moved(r))
  \/ /\ TheEnd(r, auto) /\ silent' = FALSE /\ skip' = NoSkip
     /\ adrift' = (adrift \/ Moved(r) \/ (auto /\ playingManual))

\* The track ended (or its crossfade began): next(true), without a fade.  What ends may
\* be the track before, while the ticket of the current one is awaited.
Ended ==
  /\ Act
  /\ current # None /\ repeat # "one"
  /\ Continue(Read, TRUE, silent, skip)
  /\ UNCHANGED <<modes, mixes>>

\* A tap on next: the fade-out begins, and ends the one before it.  At zero
\* volume there is nothing to fade.
TapNext ==
  /\ Act
  /\ \/ silent /\ Continue(Read, FALSE, TRUE, NoSkip)
     \/ /\ ~silent
        /\ skip' = [op |-> "next", read |-> Read]
        /\ UNCHANGED <<source, loads, stations, silent, adrift>>
  /\ UNCHANGED <<modes, mixes>>

\* previous(): out of the manual queue to the interrupted track, or one back.
GoBack(r) ==
  LET at == IF r.playingManual THEN r.index
            ELSE IF r.index > 0 THEN r.index - 1 ELSE Len(r.queue) - 1 IN
  /\ IF InRange(r.queue, at)
     THEN Becomes(At(r.queue, at), IF r.playingManual THEN index ELSE at, FALSE)
     ELSE UNCHANGED <<index, playingManual, current, loads>>
  /\ silent' = TRUE /\ skip' = NoSkip /\ adrift' = (adrift \/ Moved(r))
  /\ UNCHANGED <<queue, manual, unshuffled, stations>>

TapPrevious ==
  /\ Act
  /\ \/ silent /\ GoBack(Read)
     \/ /\ ~silent
        /\ skip' = [op |-> "previous", read |-> Read]
        /\ UNCHANGED <<source, loads, stations, silent, adrift>>
  /\ UNCHANGED <<modes, mixes>>

\* A row of the manual queue: what came before it is dropped, then next().
TapManualRow ==
  /\ Act
  /\ \E i \in 1..Len(manual) - 1 :
       LET kept == From(manual, i)
           r == [Read EXCEPT !.manual = kept] IN
       \/ silent /\ manual' = Tail(kept) /\ Becomes(Head(kept), index, TRUE)
          /\ UNCHANGED skip
       \/ /\ ~silent /\ manual' = kept
          /\ skip' = [op |-> "next", read |-> r]
          /\ UNCHANGED <<index, playingManual, current, loads>>
  /\ UNCHANGED <<queue, unshuffled, modes, silent, stations, mixes, adrift>>

\* The fade-out is over: the element is silent, and the skip goes on.
FadeEnds ==
  /\ \/ skip.op = "next" /\ Continue(skip.read, FALSE, TRUE, NoSkip)
     \/ skip.op = "previous" /\ GoBack(skip.read)
  /\ UNCHANGED <<modes, mixes, ops>>

\* fetchRadio answers; a failure is no station.
StationArrives ==
  \E n \in DOMAIN stations : \E station \in Stations \cup {<<>>} :
    LET r == stations[n].read IN
    /\ stations' = RemoveAt(stations, n)
    /\ \/ /\ station # <<>> /\ Len(r.queue) + Len(station) <= MaxQueue
          /\ queue' = r.queue \o station /\ unshuffled' = <<>>
          /\ Becomes(Head(station), Len(r.queue), FALSE)
          /\ adrift' = (adrift \/ Moved(r))
          /\ UNCHANGED <<manual, fade>>
       \/ /\ station = <<>>
          /\ playingManual' = (playingManual /\ ~stations[n].auto)
          /\ adrift' = (adrift \/ Moved(r) \/ (stations[n].auto /\ playingManual))
          /\ silent' = FALSE /\ skip' = NoSkip
          /\ UNCHANGED <<queue, manual, unshuffled, index, current, loads>>
    /\ UNCHANGED <<modes, mixes, ops>>

-----------------------------------------------------------------------------
\* setShuffle.

ShuffleOn ==
  /\ Act /\ ~shuffle
  /\ \/ /\ Len(queue) > 1
        /\ \E order \in Shuffled(queue, index) : queue' = order
        /\ unshuffled' = queue /\ index' = 0
     \/ Len(queue) <= 1 /\ UNCHANGED <<queue, unshuffled, index>>
  /\ shuffle' = TRUE
  /\ UNCHANGED <<manual, playingManual, current, smart, smartIds, repeat, autoplay, fade,
                 stations, mixes, loads, adrift>>

RestoredStart == 0   \* mutant: back to the start
RestoredAt == AtLeast0(IndexOf(unshuffled, current))

SmartGoesOn == UNCHANGED <<smart, smartIds>>   \* mutant: the mode stays on
SmartOff == smart' = FALSE /\ smartIds' = {}

\* The original order comes back, at the place of the track that plays.
ShuffleOff ==
  /\ Act /\ shuffle /\ smart
  /\ shuffle' = FALSE /\ SmartOff
  /\ IF unshuffled # <<>>
     THEN /\ queue' = unshuffled /\ unshuffled' = <<>>
          /\ index' = RestoredAt
          /\ adrift' = (adrift \/ ~Contains(unshuffled, current))
     ELSE UNCHANGED <<queue, unshuffled, index, adrift>>
  /\ UNCHANGED <<manual, playingManual, current, repeat, autoplay, fade, stations, mixes, loads>>

\* setSmartShuffle(true): takes out what it added before, turns shuffle on if it is off
\* (a queue that was followed), then asks for suggestions.
Stripped == Filter(queue, LAMBDA i : i <= index + 1 \/ queue[i] \notin smartIds)

StrippedAt == IF smartIds = {} THEN index ELSE AtLeast0(IndexOf(Stripped, current))

SmartOn ==
  /\ IF ~shuffle /\ Len(Stripped) > 1
     THEN /\ \E order \in Shuffled(Stripped, StrippedAt) : queue' = order
          /\ unshuffled' = Stripped /\ index' = 0
     ELSE /\ queue' = Stripped /\ index' = StrippedAt
          /\ UNCHANGED unshuffled
  /\ smartIds' = {} /\ smart' = TRUE /\ shuffle' = TRUE
  /\ mixes' = IF Stripped = <<>> THEN mixes ELSE Append(mixes, ToSet(Stripped))

TapSmart ==
  /\ Act /\ shuffle /\ ~smart
  /\ SmartOn
  /\ UNCHANGED <<manual, playingManual, current, repeat, autoplay, fade, stations, loads,
                 adrift>>

\* One suggestion after every three tracks to come, the others at the end.
Quota(rest) == (Len(rest) + 2) \div 3 + 1
Mixed(rest, recs) ==
  LET n == IF Len(recs) < Quota(rest) THEN Len(recs) ELSE Quota(rest)
      third == Len(rest) \div 3
      between == IF n < third THEN n ELSE third IN
  [k \in 1..Len(rest) + n |->
     CASE k <= 4 * between /\ k % 4 = 0 -> recs[k \div 4]
       [] k <= 4 * between /\ k % 4 # 0 -> rest[k - (k \div 4)]
       [] k > 4 * between /\ k <= Len(rest) + between -> rest[k - between]
       [] OTHER -> recs[k - Len(rest)]]
Used(rest, recs) == ToSet(UpTo(recs, Quota(rest)))

SuggestionsArrive ==
  \E n \in DOMAIN mixes : \E found \in Suggested \cup {<<>>} :
    LET recs == Filter(found, LAMBDA i : found[i] \notin mixes[n])
        rest == From(queue, index + 1) IN
    /\ mixes' = RemoveAt(mixes, n)
    /\ IF smart /\ recs # <<>>
       THEN /\ Len(queue) + Len(recs) <= MaxQueue
            /\ queue' = UpTo(queue, index + 1) \o Mixed(rest, recs)
            /\ smartIds' = Used(rest, recs)
       ELSE UNCHANGED <<queue, smartIds>>
    /\ UNCHANGED <<manual, unshuffled, playingManual, index, current, shuffle, smart, repeat,
                   autoplay, fade, stations, loads, adrift, ops>>

\* A load is over.  If its track is still the one asked for the fade under way is
\* cancelled and the volume comes back; then play() asks Smart Shuffle again.
LoadEnds ==
  \E l \in loads :
    /\ loads' = loads \ {l}
    /\ IF l.track = current THEN skip' = NoSkip /\ silent' = FALSE ELSE UNCHANGED fade
    /\ IF l.mix /\ smart THEN SmartOn
       ELSE UNCHANGED <<queue, index, unshuffled, shuffle, smart, smartIds, mixes>>
    /\ UNCHANGED <<manual, playingManual, current, repeat, autoplay, stations, adrift, ops>>

-----------------------------------------------------------------------------
\* The rest of the queue sheet and the controls.

Sheet == UNCHANGED <<unshuffled, playingManual, current, modes, fade, stations, mixes,
                     loads, adrift>>

Enqueue ==
  /\ Act /\ Len(manual) < MaxManual
  /\ \E t \in Tracks : manual' = <<t>> \o manual \/ manual' = Append(manual, t)
  /\ UNCHANGED <<queue, index>> /\ Sheet

RemoveManual ==
  /\ Act
  /\ \E i \in DOMAIN manual : manual' = RemoveAt(manual, i)
  /\ UNCHANGED <<queue, index>> /\ Sheet

RemoveFromQueue ==
  /\ Act
  /\ \E i \in index + 2..Len(queue) : queue' = RemoveAt(queue, i)
  /\ UNCHANGED <<manual, index>> /\ Sheet

ReorderManual ==
  /\ Act
  /\ \E order \in Orders(manual) : manual' = order
  /\ UNCHANGED <<queue, index>> /\ Sheet

ReorderRest ==
  /\ Act
  /\ \E order \in Orders(From(queue, index + 1)) : queue' = UpTo(queue, index + 1) \o order
  /\ UNCHANGED <<manual, index>> /\ Sheet

CycleRepeat ==
  /\ Act
  /\ repeat' = CASE repeat = "off" -> "all" [] repeat = "all" -> "one" [] OTHER -> "off"
  /\ UNCHANGED <<source, shuffle, smart, smartIds, autoplay, fade, stations, mixes, loads, adrift>>

\* setVolume, and toggle() when it resumes: both cancel the fade under way.
CancelFade ==
  /\ Act
  /\ skip' = NoSkip /\ silent' = FALSE
  /\ UNCHANGED <<source, modes, stations, mixes, loads, adrift>>

-----------------------------------------------------------------------------
Tap ==
  \/ Play \/ PlayRow \/ Follow \/ TapNext \/ TapPrevious \/ TapManualRow
  \/ ShuffleOn \/ ShuffleOff \/ TapSmart \/ CycleRepeat \/ CancelFade
  \/ Enqueue \/ RemoveManual \/ RemoveFromQueue \/ ReorderManual \/ ReorderRest

Next == Tap \/ Ended \/ FadeEnds \/ StationArrives \/ SuggestionsArrive \/ LoadEnds

Spec == Init /\ [][Next]_vars

-----------------------------------------------------------------------------
(* Properties *)

\* index marks the track that plays, or (while a manual track plays) the one the
\* source was interrupted at, through every skip, shuffle and edit.  Out of step
\* ("adrift") are only: a skip that went on with a store that had moved, the end of
\* the source reached during a manual track, and shuffle turned off during a
\* suggestion (player.ts, the comment on the two queues).
SourceInPlace ==
  ~adrift /\ current # None =>
    /\ InRange(queue, index) \/ (queue = <<>> /\ playingManual)
    /\ ~playingManual => current = At(queue, index)

\* "What plays next, manual queue first - this is what the queue sheet shows"
\* (player.ts upcoming): a skip or the end of a track plays the first row and
\* leaves the others, unless the store moved while the skip was fading out.
Forward ==
  \/ FadeEnds /\ skip.op = "next"
  \/ Ended
  \/ TapNext /\ silent

PlaysFirstRow ==
  current' = Head(Upcoming) /\ Upcoming' = Tail(Upcoming)

SheetTellsNext ==
  [][Forward /\ ~adrift' /\ Upcoming # <<>> => PlaysFirstRow]_vars

\* The same without the exception, as the comment has it.
SheetAlwaysTellsNext ==
  [][Forward /\ Upcoming # <<>> => PlaysFirstRow]_vars

\* Smart Shuffle takes out "the tracks Smart Shuffle added" (player.ts smartIds)
\* and no others: what an unshuffled source holds is in the queue in some order.
SmartTakesOnlyItsOwn ==
  [][smart /\ smart' /\ unshuffled' = unshuffled /\ ToSet(unshuffled) \subseteq ToSet(queue)
      /\ (LoadEnds \/ SuggestionsArrive \/ TapSmart)
     => ToSet(unshuffled) \subseteq ToSet(queue')]_vars

\* Modes: an order is remembered only while shuffle is on, tracks are marked as suggestions
\* only while Smart Shuffle is on; and no tap, answer or load leaves Smart Shuffle on without
\* shuffle: a followed queue alone does (FollowKeepsSmart.cfg).
ModesHold == (unshuffled # <<>> => shuffle) /\ (smartIds # {} => smart)
SmartAlone == smart /\ ~shuffle
ModesAgree == []ModesHold /\ [][SmartAlone' => SmartAlone \/ Follow]_vars

\* "Smart Shuffle: recommendations mixed into what is playing (shuffle stays on)" (player.ts,
\* the comment on smart).
ShuffleStaysOn == ~SmartAlone
=============================================================================
