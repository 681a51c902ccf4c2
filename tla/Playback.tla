------------------------------ MODULE Playback ------------------------------
(***************************************************************************)
(* From a chosen track to sound: load() and the element listeners of       *)
(* store/player.ts, the two <audio> elements, the spare and the tickets of *)
(* player/engine.ts.                                                       *)
(*                                                                         *)
(* load() waits for a ticket, then for el.play(), perhaps for a retry; any *)
(* number of loads may be waiting at once, for one track or for several,   *)
(* while the elements' events arrive as tasks of their own.  Which track   *)
(* is chosen is Queue's subject: here somebody chooses one.                *)
(*                                                                         *)
(* The elements follow the HTML standard: a new src ends what was pending  *)
(* on the element (its events are dropped, its play() promises rejected    *)
(* with AbortError), pause() rejects them too, and a rejection is handled  *)
(* before the next task.                                                   *)
(***************************************************************************)
EXTENDS Naturals, Sequences, FiniteSets, SequencesExt

CONSTANTS
  Tracks,        \* ids of tracks
  Crossfade,     \* useAudioSettings: the next track starts over the end of this one
  Refusals,      \* the browser may refuse to start sound by itself
  MaxRecoveries, \* MAX_RECOVERIES
  MaxRetries,    \* retryDelay: how many delays there are
  MaxLoads,      \* bound: loads waiting at once
  MaxOps,        \* bound: what the listener does
  MaxFaults      \* bound: failed tickets, media errors, underruns

ASSUME PlaybackAssumption ==
  /\ {Crossfade, Refusals} \subseteq BOOLEAN
  /\ MaxRecoveries \in Nat \ {0}
  /\ {MaxRetries, MaxLoads, MaxOps, MaxFaults} \subseteq Nat
  /\ 0 \notin Tracks

None == 0
Elements == {1, 2}
Other(e) == 3 - e

VARIABLES
  current, isPlaying, isLoading, error,   \* PlayerState
  el,          \* the elements: src, paused, has ("nothing", "data" or an "error"),
               \* loud, fresh (its link is the one in the ticket cache)
  events,      \* what each element has still to tell
  active, spareTrack,                     \* engine.ts
  preload,     \* the preloadNext() waiting for its ticket
  ticket,      \* tracks with a ticket in the cache
  loads,       \* the load() calls under way, and toggle()s waiting for play()
  fadingOut,   \* the elements a crossfade takes out
  recoveries, stalled, stallTimer,
  tangled,     \* history: a load failed or was refused while another was under way, or
               \* failed after its track was left, or a track was chosen while it loaded
  wants,       \* history: what the listener asked for last, TRUE: sound
  ops, faults

store == <<current, isPlaying, isLoading, error>>
elements == <<el, events>>
engine == <<active, spareTrack, preload, ticket, fadingOut>>
stall == <<recoveries, stalled, stallTimer>>
bounds == <<wants, ops, faults>>
rest == <<stall, tangled, bounds>>
vars == <<current, isPlaying, isLoading, error, el, events, active, spareTrack, preload,
          ticket, loads, fadingOut, recoveries, stalled, stallTimer, tangled, wants, ops,
          faults>>

TypeOK ==
  /\ current \in Tracks \cup {None} /\ error \in Tracks \cup {None}
  /\ {isPlaying, isLoading, stalled, tangled, wants} \subseteq BOOLEAN
  /\ el \in [Elements -> [src : Tracks \cup {None}, paused : BOOLEAN,
                          has : {"nothing", "data", "error"}, loud : BOOLEAN, fresh : BOOLEAN]]
  /\ events \in [Elements -> Seq({"play", "playing", "waiting", "pause", "error"})]
  /\ active \in Elements /\ spareTrack \in Tracks \cup {None}
  /\ preload \in [track : Tracks \cup {None}, el : Elements]
  /\ ticket \subseteq Tracks
  /\ \A n \in DOMAIN loads :
       loads[n] \in [track : Tracks, attempt : 0..MaxRetries, el : Elements,
                     out : Elements \cup {0}, auto : BOOLEAN,
                     at : {"ticket", "play", "rejected", "retry", "resume", "unresumed"}]
  /\ Len(loads) <= MaxLoads
  /\ fadingOut \subseteq Elements /\ stallTimer \in Elements \cup {0}
  /\ recoveries \in [track : Tracks \cup {None}, count : 0..MaxRecoveries]
  /\ ops \in 0..MaxOps /\ faults \in 0..MaxFaults

Init ==
  /\ current = None /\ isPlaying = FALSE /\ isLoading = FALSE /\ error = None
  /\ el = [e \in Elements |-> [src |-> None, paused |-> TRUE, has |-> "nothing",
                               loud |-> TRUE, fresh |-> FALSE]]
  /\ events = [e \in Elements |-> <<>>]
  /\ active = 1 /\ spareTrack = None /\ preload = [track |-> None, el |-> 1]
  /\ ticket = {} /\ loads = <<>> /\ fadingOut = {}
  /\ recoveries = [track |-> None, count |-> 0] /\ stalled = FALSE /\ stallTimer = 0
  /\ tangled = FALSE /\ wants = FALSE /\ ops = 0 /\ faults = 0

-----------------------------------------------------------------------------
\* The elements: each operator gives the element, its events, and the loads after
\* a call on it.  m is [el, events, loads].

Now == [el |-> el, events |-> events, loads |-> loads]

Rejected(l, e) ==
  IF l.el # e THEN l
  ELSE IF l.at = "play" THEN [l EXCEPT !.at = "rejected"]
  ELSE IF l.at = "resume" THEN [l EXCEPT !.at = "unresumed"] ELSE l

Reject(ls, e) == SubSeq([n \in DOMAIN ls |-> Rejected(ls[n], e)], 1, Len(ls))

WithSrc(m, e, t) ==
  [el |-> [m.el EXCEPT ![e].src = t, ![e].paused = TRUE, ![e].has = "nothing",
                     ![e].fresh = TRUE],
   events |-> [m.events EXCEPT ![e] = <<>>],
   loads |-> Reject(m.loads, e)]

WithPlay(m, e) ==
  IF ~m.el[e].paused \/ m.el[e].has = "error" THEN m
  ELSE [m EXCEPT !.el[e].paused = FALSE,
                 !.events[e] = @ \o <<"play", IF m.el[e].has = "data" THEN "playing"
                                                                     ELSE "waiting">>]

\* What play() promises: an element with an error refuses at once.
Promised(m, e, pending, rejected) == IF m.el[e].has = "error" THEN rejected ELSE pending

WithPause(m, e) ==
  IF m.el[e].paused THEN m
  ELSE [el |-> [m.el EXCEPT ![e].paused = TRUE],
        events |-> [m.events EXCEPT ![e] = Append(@, "pause")],
        loads |-> Reject(m.loads, e)]

WithVolume(m, e, on) == [m EXCEPT !.el[e].loud = on]

WithLoad(m, l) == [m EXCEPT !.loads = Append(@, l)]
Without(m, n) == [m EXCEPT !.loads = RemoveAt(@, n)]

Becomes(m) == el' = m.el /\ events' = m.events /\ loads' = m.loads

Sounds(e) == ~el[e].paused /\ el[e].has = "data"

\* A rejection is a microtask: nothing else runs before it.
Settled == \A n \in DOMAIN loads : loads[n].at \notin {"rejected", "unresumed"}

-----------------------------------------------------------------------------
\* load(): up to the wait for the ticket.  The spare may hold the track: then it
\* becomes the active element and the other one is paused, or fades out.

Takes(t, keep) == ~keep /\ spareTrack = t

OutgoingGoesOn(m, overlap) == m
Outgoing(m, overlap) == IF overlap THEN m ELSE WithPause(m, active)

Start(m, t, attempt, auto, keep, overlap) ==
  /\ Len(m.loads) < MaxLoads
  /\ LET taken == Takes(t, keep)
         mine == IF taken THEN Other(active) ELSE active
         l == [track |-> t, attempt |-> attempt, el |-> mine,
               out |-> IF taken THEN active ELSE 0, auto |-> auto, at |-> "ticket"] IN
     /\ active' = mine
     /\ spareTrack' = IF taken THEN None ELSE spareTrack
     /\ fadingOut' = IF taken /\ overlap THEN fadingOut \cup {active} ELSE fadingOut
     /\ Becomes(WithLoad(IF taken THEN Outgoing(m, overlap) ELSE m, l))

\* dropTicket: elements that hold the old link no longer match the cache.
Dropped(m, t) == [m EXCEPT !.el = [e \in Elements |->
  [m.el[e] EXCEPT !.fresh = @ /\ m.el[e].src # t]]]

CanRetryOnceMore(l) == l.attempt <= MaxRetries
CanRetry(l) == l.attempt < MaxRetries

MovedOnNever(l) == FALSE
MovedOn(l) == current # l.track   \* while the ticket loaded, or during the delay

\* The catch of load(): never left silent, then another try or the error.
Fail(m, n, kind) ==
  LET l == loads[n]
      loud == WithVolume(m, l.el, TRUE) IN
  IF kind = "network" /\ CanRetry(l) /\ ~MovedOn(l)
  THEN /\ Becomes([Dropped(loud, l.track) EXCEPT !.loads[n].at = "retry"])
       /\ ticket' = ticket \ {l.track}
       /\ UNCHANGED <<store, tangled>>
  ELSE /\ Becomes(Without(loud, n))
       /\ tangled' = (tangled \/ MovedOn(l) \/ Len(m.loads) > 1)
       /\ isLoading' = FALSE /\ isPlaying' = FALSE /\ error' = l.track
       /\ UNCHANGED <<current, ticket>>

\* The track is loaded and in place; the play button does the rest.
InPlaceSpinning(m, n) ==
  /\ Becomes(Without(WithVolume(m, loads[n].el, TRUE), n))
  /\ isPlaying' = FALSE /\ error' = None
  /\ UNCHANGED <<current, isLoading>>
InPlace(m, n) ==
  /\ Becomes(Without(WithVolume(m, loads[n].el, TRUE), n))
  /\ isLoading' = FALSE /\ isPlaying' = FALSE /\ error' = None
  /\ UNCHANGED current

\* The browser refuses: the element is paused (a fade may still have had it playing) and
\* the one the music came from is tried instead, if there is one.
Refused(m, n) ==
  LET l == loads[n]
      back == Other(active)
      again == WithPlay(WithVolume(WithSrc(WithPause(m, l.el), back, l.track), back, FALSE),
                        back) IN
  /\ tangled' = (tangled \/ Len(m.loads) > 1)
  /\ \/ /\ l.out # 0
        /\ active' = back /\ spareTrack' = None
        /\ Becomes([again EXCEPT !.loads[n].el = back, !.loads[n].at = "play"])
        /\ UNCHANGED store
     \/ /\ l.out = 0
        /\ InPlace(m, n)
        /\ UNCHANGED <<active, spareTrack>>

TicketArrives(n) ==
  LET l == loads[n]
      same == l.out # 0 /\ el[l.el].src = l.track /\ el[l.el].fresh
      m == IF same THEN Now ELSE WithSrc(Now, l.el, l.track) IN
  /\ l.at = "ticket" /\ Settled
  /\ ticket' = ticket \cup {l.track}
  /\ \/ /\ MovedOn(l)
        /\ Becomes(Without(Now, n))
        /\ UNCHANGED <<store, active, spareTrack, tangled>>
     \/ /\ ~MovedOn(l) /\ ~l.auto
        /\ InPlace(m, n)
        /\ UNCHANGED <<active, spareTrack, tangled>>
     \/ /\ ~MovedOn(l) /\ l.auto
        /\ Becomes([WithPlay(WithVolume(m, l.el, FALSE), l.el)
                     EXCEPT !.loads[n].at = Promised(m, l.el, "play", "rejected")])
        /\ UNCHANGED <<store, active, spareTrack, tangled>>
     \/ /\ ~MovedOn(l) /\ l.auto /\ Refusals
        /\ Refused(m, n)
  /\ UNCHANGED <<preload, fadingOut, stall, bounds>>

Fault == faults < MaxFaults /\ faults' = faults + 1 /\ UNCHANGED <<wants, ops>>

\* No ticket: the network, or an answer that is final (a plan limit, no source).
TicketFails(n) ==
  /\ loads[n].at = "ticket" /\ loads[n].track \notin ticket /\ Settled /\ Fault
  /\ \E kind \in {"network", "final"} : Fail(Now, n, kind)
  /\ UNCHANGED <<active, spareTrack, preload, fadingOut, stall>>

\* play() was rejected: an AbortError counts as the network.
PlayRejected(n) ==
  /\ loads[n].at = "rejected"
  /\ Fail(Now, n, "network")
  /\ UNCHANGED <<active, spareTrack, preload, fadingOut, stall, bounds>>

\* fadeTo: the active element, whichever it is by now.
RampUpLost(m) == m
RampUp(m) == WithVolume(m, active, TRUE)

\* play() went through.
PlayResolved(n) ==
  LET l == loads[n] IN
  /\ l.at = "play" /\ Sounds(l.el) /\ Settled
  /\ Becomes(Without(RampUp(Now), n))
  /\ isLoading' = FALSE /\ error' = None
  /\ UNCHANGED <<current, isPlaying, engine, rest>>

\* The delay is over: the same again, on the element that is active now.
Retry(n) ==
  LET l == loads[n] IN
  /\ l.at = "retry" /\ Settled
  /\ \/ /\ MovedOn(l) /\ Becomes(Without(Now, n))
        /\ UNCHANGED <<active, spareTrack, fadingOut>>
     \/ /\ ~MovedOn(l)
        /\ Start(Without(Now, n), l.track, l.attempt + 1, l.auto, TRUE, FALSE)
  /\ UNCHANGED <<store, preload, ticket, rest>>

-----------------------------------------------------------------------------
\* The listener.

Act == ops < MaxOps /\ ops' = ops + 1 /\ UNCHANGED faults

Again(t) == \E n \in DOMAIN loads : loads[n].track = t

Chosen(t) ==
  /\ tangled' = (tangled \/ Again(t))
  /\ current' = t /\ isLoading' = TRUE /\ error' = None

\* play(), and next() or previous() after their fade-out (silent).
Choose(t) ==
  /\ Act /\ wants' = TRUE /\ Settled
  /\ Chosen(t) /\ UNCHANGED isPlaying
  /\ \E silent \in BOOLEAN :
       Start(WithVolume(Now, active, el[active].loud /\ ~silent), t, 0, TRUE, FALSE, FALSE)
  /\ UNCHANGED <<preload, ticket, stall>>

\* Well into the track: it lasts longer than the tasks its start has queued.
Along ==
  /\ isPlaying /\ Sounds(active) /\ events[active] = <<>>
  /\ \A n \in DOMAIN loads : loads[n].el # active \/ loads[n].at \notin {"play", "resume"}

\* The element comes to the end of what it plays: next(true), over its last seconds, or after
\* the browser has paused it and said so (both events fire in one task).
Ends(t) ==
  /\ Act /\ UNCHANGED wants /\ Settled
  /\ Along /\ Chosen(t)
  /\ \/ Crossfade /\ UNCHANGED isPlaying /\ Start(Now, t, 0, TRUE, FALSE, TRUE)
     \/ isPlaying' = FALSE /\ Start([Now EXCEPT !.el[active].paused = TRUE],
                                    t, 0, TRUE, FALSE, FALSE)
  /\ UNCHANGED <<preload, ticket, stall>>

Pause ==
  /\ Act /\ wants' = FALSE /\ Settled
  /\ current # None /\ isPlaying
  /\ Becomes(WithPause(Now, active))
  /\ UNCHANGED <<store, engine, stall, tangled>>

\* toggle() when nothing plays: play() again, and a new load should that fail.
Resume ==
  /\ Act /\ wants' = TRUE /\ Settled
  /\ current # None /\ ~isPlaying /\ el[active].src # None /\ Len(loads) < MaxLoads
  /\ Becomes(WithLoad(WithPlay(WithVolume(Now, active, TRUE), active),
       [track |-> current, attempt |-> 0, el |-> active, out |-> 0, auto |-> TRUE,
        at |-> Promised(Now, active, "resume", "unresumed")]))
  /\ UNCHANGED <<store, engine, stall, tangled>>

Resumed(n) ==
  LET l == loads[n] IN
  /\ l.at = "resume" /\ Sounds(l.el) /\ Settled
  /\ Becomes(Without(Now, n))
  /\ UNCHANGED <<store, engine, rest>>

ResumeRejected(n) ==
  LET l == loads[n] IN
  /\ l.at = "unresumed"
  /\ ticket' = ticket \ {l.track}
  /\ Start(Dropped(Without(Now, n), l.track), l.track, 0, TRUE, FALSE, FALSE)
  /\ UNCHANGED <<store, preload, rest>>

-----------------------------------------------------------------------------
\* The spare.

\* transitionAhead near the end of the track: the next one is fetched into the spare.
PreloadNext(t) ==
  /\ Settled /\ Along /\ t # current /\ spareTrack # t /\ preload.track = None
  /\ preload' = [track |-> t, el |-> Other(active)]
  /\ spareTrack' = t
  /\ UNCHANGED <<store, elements, active, ticket, loads, fadingOut, rest>>

Preloaded ==
  /\ preload.track # None /\ Settled
  /\ preload' = [track |-> None, el |-> 1]
  /\ ticket' = ticket \cup {preload.track}
  /\ IF spareTrack = preload.track THEN Becomes(WithSrc(Now, preload.el, preload.track))
                                   ELSE UNCHANGED <<elements, loads>>
  /\ UNCHANGED <<store, active, spareTrack, fadingOut, rest>>

\* The end of a crossfade pauses the element that went out, whatever it holds now.
FadedOut(e) ==
  /\ e \in fadingOut /\ Settled
  /\ fadingOut' = fadingOut \ {e}
  /\ Becomes(WithPause(WithVolume(Now, e, FALSE), e))
  /\ UNCHANGED <<store, active, spareTrack, preload, ticket, rest>>

-----------------------------------------------------------------------------
\* recover(): a fresh link for the current track, a few times per song.

CanRecover == current # None /\
  (recoveries.track # current \/ recoveries.count < MaxRecoveries)

Recover(m) ==
  /\ recoveries' = [track |-> current,
                    count |-> IF recoveries.track = current THEN recoveries.count + 1 ELSE 1]
  /\ stallTimer' = 0
  /\ ticket' = ticket \ {current}
  /\ isLoading' = TRUE
  /\ Start(Dropped(m, current), current, 0, isPlaying \/ isLoading, TRUE, FALSE)
  /\ UNCHANGED <<current, isPlaying, error, stalled>>

\* One event of an element.  The spare speaks for nobody.
Told(e) == [Now EXCEPT !.events[e] = Tail(@)]

HandleSpareToo(e) ==
  /\ events[e] # <<>> /\ e # active /\ Settled
  /\ Becomes(Told(e))
  /\ isPlaying' = (isPlaying /\ Head(events[e]) # "pause")
  /\ UNCHANGED <<current, isLoading, error, engine, rest>>

HandleSpare(e) ==
  /\ events[e] # <<>> /\ e # active /\ Settled
  /\ Becomes(Told(e))
  /\ UNCHANGED <<store, engine, rest>>

Hears(event) == events[active] # <<>> /\ Head(events[active]) = event /\ Settled

OnPlay ==
  /\ Hears("play")
  /\ Becomes(Told(active))
  /\ isPlaying' = TRUE /\ isLoading' = FALSE
  /\ UNCHANGED <<current, error, engine, rest>>

OnPlaying ==
  /\ Hears("playing")
  /\ Becomes(Told(active))
  /\ stalled' = FALSE /\ stallTimer' = 0
  /\ UNCHANGED <<store, engine, recoveries, tangled, bounds>>

OnWaiting ==
  /\ Hears("waiting")
  /\ Becomes(Told(active))
  /\ IF isPlaying /\ ~stalled THEN stalled' = TRUE /\ stallTimer' = active
                              ELSE UNCHANGED <<stalled, stallTimer>>
  /\ UNCHANGED <<store, engine, recoveries, tangled, bounds>>

OnPause ==
  /\ Hears("pause")
  /\ Becomes(Told(active))
  /\ isPlaying' = FALSE
  /\ UNCHANGED <<current, isLoading, error, engine, rest>>

OnError ==
  /\ Hears("error") /\ current # None
  /\ \/ /\ CanRecover /\ Recover(Told(active))
        /\ UNCHANGED <<preload, tangled, bounds>>
     \/ /\ ~CanRecover
        /\ ticket' = ticket \ {current}
        /\ Becomes(Dropped(WithVolume(Told(active), active, TRUE), current))
        /\ isLoading' = FALSE /\ isPlaying' = FALSE /\ error' = current
        /\ UNCHANGED <<current, active, spareTrack, preload, fadingOut, rest>>

StallTimeout ==
  /\ stallTimer # 0 /\ Settled
  /\ IF stalled /\ stallTimer = active /\ el[active].has # "data" /\ CanRecover
     THEN Recover(Now)
     ELSE /\ stallTimer' = 0
          /\ UNCHANGED <<store, elements, active, spareTrack, ticket, loads, fadingOut,
                         recoveries, stalled>>
  /\ UNCHANGED <<preload, tangled, bounds>>

-----------------------------------------------------------------------------
\* The network under an element.

DataArrives(e) ==
  /\ el[e].src # None /\ el[e].has = "nothing" /\ Settled
  /\ el' = [el EXCEPT ![e].has = "data"]
  /\ events' = IF el[e].paused THEN events ELSE [events EXCEPT ![e] = Append(@, "playing")]
  /\ UNCHANGED <<store, engine, loads, rest>>

\* The data runs out in the middle.
Underrun(e) ==
  /\ Sounds(e) /\ events[e] = <<>> /\ Settled /\ Fault
  /\ el' = [el EXCEPT ![e].has = "nothing"]
  /\ events' = [events EXCEPT ![e] = Append(@, "waiting")]
  /\ UNCHANGED <<store, engine, loads, stall, tangled>>

\* The link ran out or the connection broke for good; a play() still waiting fails.
MediaFails(e) ==
  /\ el[e].src # None /\ el[e].has # "error" /\ Settled /\ Fault
  /\ el' = [el EXCEPT ![e].has = "error"]
  /\ events' = [events EXCEPT ![e] = Append(@, "error")]
  /\ loads' = Reject(loads, e)
  /\ UNCHANGED <<store, engine, stall, tangled>>

-----------------------------------------------------------------------------
LoadStep ==
  \E n \in DOMAIN loads :
    \/ TicketArrives(n) \/ TicketFails(n) \/ PlayRejected(n) \/ PlayResolved(n) \/ Retry(n)
    \/ Resumed(n) \/ ResumeRejected(n)

Listener == (\E t \in Tracks : Choose(t) \/ Ends(t)) \/ Pause \/ Resume

Event ==
  \/ OnPlay \/ OnPlaying \/ OnWaiting \/ OnPause \/ OnError \/ StallTimeout
  \/ \E e \in Elements : HandleSpare(e)

Network == \E e \in Elements : DataArrives(e) \/ Underrun(e) \/ MediaFails(e)

Spare == (\E t \in Tracks : PreloadNext(t)) \/ Preloaded \/ (\E e \in Elements : FadedOut(e))

Next == LoadStep \/ Listener \/ Event \/ Network \/ Spare

Spec == Init /\ [][Next]_vars

\* Requests are answered, timers fire, events are delivered and data arrives.
FairSpec ==
  /\ Spec
  /\ WF_vars(LoadStep) /\ WF_vars(Event)
  /\ WF_vars(\E e \in Elements : DataArrives(e))

-----------------------------------------------------------------------------
(* Properties *)

Quiet == loads = <<>> /\ fadingOut = {} /\ \A e \in Elements : events[e] = <<>>

\* Everything asked for has been answered, and no load has failed behind another's back.
Calm == Quiet /\ ~tangled

\* Once everything has settled and there is no error, what sounds is the track the
\* player shows, whatever order tickets, events, retries and recoveries came in.
SoundIsCurrent ==
  Calm /\ Sounds(active) /\ error = None => el[active].src = current

\* Then the button shows what the element does: `isPlaying` follows its play and pause
\* events, and neither a swap of the elements nor a late answer loses one.
StoreAgrees ==
  Calm /\ error = None => (isPlaying <=> ~el[active].paused)

\* Then one song sounds, not two: the element that was swapped out is silent, whether
\* it was paused, faded out or swapped back.
OneSounds == Calm => ~Sounds(Other(active))

\* Nothing plays mute: load() starts at volume 0 and every way out of it ("the element
\* must not be left silent") brings the volume back.
NotLeftMute == Calm /\ Sounds(active) => el[active].loud

\* The spinner goes away: each load under way ends in sound, an error or a play button.
LoadingEnds == isLoading ~> ~isLoading

\* Who pauses hears nothing afterwards.  It fails: pause() rejects a play() that still
\* waits for data, which load() takes for a bad connection and tries again.
PauseStays == Quiet /\ ~wants => el[active].paused

\* "A stall that does not clear by itself is treated like a failure": while the element
\* waits for data and tries are left, the timer runs.  It fails: recover() leaves
\* `stalled` set, so the stall of the new attempt starts no timer.
Stuck ==
  /\ isPlaying /\ ~el[active].paused /\ el[active].has = "nothing"
  /\ \A e \in Elements : events[e] = <<>>
  /\ \A n \in DOMAIN loads : loads[n].at = "play"

StallIsWatched == Stuck /\ CanRecover => stallTimer = active
=============================================================================
