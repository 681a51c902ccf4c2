--------------------------- MODULE PlaybackProofs ---------------------------
(***************************************************************************)
(* Proofs about Playback: its types, and that once everything asked for is *)
(* answered and no load went wrong behind another, what sounds is what the *)
(* player shows, alone, audible, and as the button says.                   *)
(*                                                                         *)
(* The first part is about the elements: what each call on one leaves      *)
(* behind.  The second part says what is true while loads, events and      *)
(* fades are still under way.                                              *)
(***************************************************************************)
EXTENDS Playback, SequenceTheorems, TLAPS

Awaits == {"ticket", "play", "rejected", "retry", "resume", "unresumed"}

Load == [track : Tracks, attempt : 0..MaxRetries, el : Elements, out : Elements \cup {0},
         auto : BOOLEAN, at : Awaits]

Element == [src : Tracks \cup {None}, paused : BOOLEAN, has : {"nothing", "data", "error"},
            loud : BOOLEAN, fresh : BOOLEAN]

Messages == {"play", "playing", "waiting", "pause", "error"}

States == [el : [Elements -> Element], events : [Elements -> Seq(Messages)], loads : Seq(Load)]

\* The events that tell whether an element plays; the last of them tells the truth.
Swings == {"play", "pause"}
LastSwing(q, i) == q[i] \in Swings /\ \A j \in DOMAIN q : j > i => q[j] \notin Swings

Tells(q, x) ==
  \A i \in DOMAIN q : /\ LastSwing(q, i) => (q[i] = "play" <=> ~x.paused)
                      /\ q[i] = "error" => x.has = "error"

Swinging(q) == \E i \in DOMAIN q : q[i] \in Swings

\* Who waits for play() waits on an element that is not paused and may still sound.
Waits(l, els) ==
  /\ l.at \in {"play", "resume"} => ~els[l.el].paused /\ els[l.el].has # "error"
  /\ l.at = "play" => els[l.el].src = l.track
  /\ l.at = "retry" => l.attempt < MaxRetries
  /\ l.out # 0 => l.auto

\* An element, but for the age of its link.
Is(x, src, paused, has, loud) ==
  x.src = src /\ x.paused = paused /\ x.has = has /\ x.loud = loud

Valid(m) ==
  /\ m \in States
  /\ \A e \in Elements : Tells(m.events[e], m.el[e])
  /\ \A n \in DOMAIN m.loads : Waits(m.loads[n], m.el)

------------------------------------------------------------------------------
\* The operators.

\* The two elements.
LEMMA TwoElements ==
  ASSUME NEW e \in Elements
  PROVE  /\ Other(e) \in Elements /\ Other(e) # e /\ Other(Other(e)) = e
         /\ \A f \in Elements : f # e => f = Other(e)
BY DEF Elements, Other

\* A load at another await is a load.
LEMMA LoadAt ==
  ASSUME NEW l \in Load, NEW a \in Awaits
  PROVE  /\ [l EXCEPT !.at = a] \in Load
         /\ [l EXCEPT !.at = a].at = a
         /\ [l EXCEPT !.at = a].track = l.track /\ [l EXCEPT !.at = a].el = l.el
         /\ [l EXCEPT !.at = a].out = l.out /\ [l EXCEPT !.at = a].auto = l.auto
         /\ [l EXCEPT !.at = a].attempt = l.attempt
BY DEF Load

\* A load whose play() is rejected goes on to handle that; all else of it stays.
LEMMA RejectedIs ==
  ASSUME NEW l \in Load, NEW e
  PROVE  /\ Rejected(l, e) \in Load
         /\ Rejected(l, e).track = l.track /\ Rejected(l, e).el = l.el
         /\ Rejected(l, e).out = l.out /\ Rejected(l, e).auto = l.auto
         /\ Rejected(l, e).attempt = l.attempt
         /\ Rejected(l, e).at = IF l.el # e THEN l.at
                                ELSE IF l.at = "play" THEN "rejected"
                                ELSE IF l.at = "resume" THEN "unresumed" ELSE l.at
<1>1. "rejected" \in Awaits /\ "unresumed" \in Awaits
  BY DEF Awaits
<1>2. CASE l.el = e /\ l.at = "play"
  BY <1>1, <1>2, LoadAt DEF Rejected
<1>3. CASE l.el = e /\ l.at = "resume"
  BY <1>1, <1>3, LoadAt DEF Rejected
<1>4. CASE l.el # e \/ l.at \notin {"play", "resume"}
  BY <1>4 DEF Rejected
<1> QED
  BY <1>2, <1>3, <1>4

\* Rejecting changes loads in place.
LEMMA RejectIsSeq ==
  ASSUME NEW ls \in Seq(Load), NEW e
  PROVE  /\ Reject(ls, e) \in Seq(Load) /\ Len(Reject(ls, e)) = Len(ls)
         /\ DOMAIN Reject(ls, e) = DOMAIN ls
         /\ \A n \in DOMAIN ls : Reject(ls, e)[n] = Rejected(ls[n], e)
<1> DEFINE f == [n \in DOMAIN ls |-> Rejected(ls[n], e)]
<1>1. \A n \in DOMAIN ls : Rejected(ls[n], e) \in Load
  BY RejectedIs
<1>2. \A n \in 1..Len(ls) : f[n] \in Load
  BY <1>1
<1>3. /\ SubSeq(f, 1, Len(ls)) \in Seq(Load)
      /\ Len(SubSeq(f, 1, Len(ls))) = (IF 1 <= Len(ls) THEN Len(ls) - 1 + 1 ELSE 0)
      /\ \A i \in 1..Len(ls) - 1 + 1 : SubSeq(f, 1, Len(ls))[i] = f[1 + i - 1]
  <2> HIDE DEF f
  <2> QED
    BY <1>2, SubSeqProperties
<1>4. Reject(ls, e) = SubSeq(f, 1, Len(ls))
  BY DEF Reject
<1> HIDE DEF f
<1>5. Reject(ls, e) \in Seq(Load) /\ Len(Reject(ls, e)) = Len(ls)
  BY <1>3, <1>4
<1>6. DOMAIN Reject(ls, e) = 1..Len(ls) /\ DOMAIN ls = 1..Len(ls)
  BY <1>5
<1>7. \A n \in 1..Len(ls) : Reject(ls, e)[n] = f[n]
  BY <1>3, <1>4
<1>8. \A n \in DOMAIN ls : f[n] = Rejected(ls[n], e)
  BY DEF f
<1> QED
  BY <1>5, <1>6, <1>7, <1>8

\* Taking one out moves those behind it.
LEMMA RemoveIsSeq ==
  ASSUME NEW S, NEW s \in Seq(S), NEW n \in DOMAIN s
  PROVE  /\ RemoveAt(s, n) \in Seq(S) /\ Len(RemoveAt(s, n)) = Len(s) - 1
         /\ \A i \in DOMAIN RemoveAt(s, n) :
              RemoveAt(s, n)[i] = IF i < n THEN s[i] ELSE s[i + 1]
<1> DEFINE a == SubSeq(s, 1, n - 1)
           b == SubSeq(s, n + 1, Len(s))
<1>1. n \in 1..Len(s)
  OBVIOUS
<1>2. /\ a \in Seq(S) /\ Len(a) = n - 1
      /\ \A i \in 1..n - 1 : a[i] = s[i]
  <2>1. \A i \in 1..n - 1 : s[i] \in S
    BY <1>1
  <2>2. /\ a \in Seq(S)
        /\ Len(a) = (IF 1 <= n - 1 THEN n - 1 - 1 + 1 ELSE 0)
        /\ \A i \in 1..n - 1 - 1 + 1 : a[i] = s[1 + i - 1]
    BY <2>1, <1>1, SubSeqProperties
  <2> QED
    BY <2>2, <1>1
<1>3. /\ b \in Seq(S) /\ Len(b) = Len(s) - n
      /\ \A i \in 1..Len(s) - n : b[i] = s[n + i]
  <2>1. \A i \in n + 1..Len(s) : s[i] \in S
    BY <1>1
  <2>2. /\ b \in Seq(S)
        /\ Len(b) = (IF n + 1 <= Len(s) THEN Len(s) - (n + 1) + 1 ELSE 0)
        /\ \A i \in 1..Len(s) - (n + 1) + 1 : b[i] = s[n + 1 + i - 1]
    BY <2>1, <1>1, SubSeqProperties
  <2> QED
    BY <2>2, <1>1
<1>4. RemoveAt(s, n) = a \o b
  BY DEF RemoveAt
<1> HIDE DEF a, b
<1>5. /\ a \o b \in Seq(S) /\ Len(a \o b) = Len(s) - 1
      /\ \A i \in 1..Len(s) - 1 : (a \o b)[i] = IF i <= n - 1 THEN a[i] ELSE b[i - (n - 1)]
  <2>1. /\ a \o b \in Seq(S) /\ Len(a \o b) = Len(a) + Len(b)
        /\ \A i \in 1..Len(a) + Len(b) :
             (a \o b)[i] = IF i <= Len(a) THEN a[i] ELSE b[i - Len(a)]
    BY <1>2, <1>3, ConcatProperties
  <2>2. Len(a) + Len(b) = Len(s) - 1
    BY <1>1, <1>2, <1>3
  <2> QED
    BY <2>1, <2>2, <1>2
<1>6. DOMAIN RemoveAt(s, n) = 1..Len(s) - 1
  BY <1>4, <1>5
<1>7. \A i \in 1..Len(s) - 1 : RemoveAt(s, n)[i] = IF i < n THEN s[i] ELSE s[i + 1]
  <2> SUFFICES ASSUME NEW i \in 1..Len(s) - 1
               PROVE  RemoveAt(s, n)[i] = IF i < n THEN s[i] ELSE s[i + 1]
    OBVIOUS
  <2>1. CASE i < n
    BY <2>1, <1>1, <1>2, <1>4, <1>5
  <2>2. CASE ~(i < n)
    <3>1. i - (n - 1) \in 1..Len(s) - n /\ n + (i - (n - 1)) = i + 1
      BY <2>2, <1>1
    <3>2. b[i - (n - 1)] = s[i + 1]
      BY <3>1, <1>3
    <3> QED
      BY <3>2, <2>2, <1>1, <1>4, <1>5
  <2> QED
    BY <2>1, <2>2
<1> QED
  BY <1>4, <1>5, <1>6, <1>7

\* What is left was there, and what was there besides is left.
LEMMA RemoveKeeps ==
  ASSUME NEW S, NEW s \in Seq(S), NEW n \in DOMAIN s
  PROVE  /\ \A i \in DOMAIN RemoveAt(s, n) :
              \E j \in DOMAIN s : j # n /\ RemoveAt(s, n)[i] = s[j]
         /\ \A j \in DOMAIN s : j # n =>
              \E i \in DOMAIN RemoveAt(s, n) : RemoveAt(s, n)[i] = s[j]
<1> DEFINE r == RemoveAt(s, n)
<1>1. r \in Seq(S) /\ Len(r) = Len(s) - 1
  BY RemoveIsSeq
<1>2. \A i \in DOMAIN r : r[i] = IF i < n THEN s[i] ELSE s[i + 1]
  BY RemoveIsSeq
<1> HIDE DEF r
<1>3. DOMAIN r = 1..Len(s) - 1 /\ DOMAIN s = 1..Len(s) /\ Len(s) \in Nat
  BY <1>1
<1>4. ASSUME NEW i \in DOMAIN r
      PROVE  \E j \in DOMAIN s : j # n /\ r[i] = s[j]
  <2>1. CASE i < n
    BY <2>1, <1>2, <1>3
  <2>2. CASE ~(i < n)
    <3>1. i + 1 \in DOMAIN s /\ i + 1 # n /\ r[i] = s[i + 1]
      BY <2>2, <1>2, <1>3
    <3> QED
      BY <3>1
  <2> QED
    BY <2>1, <2>2
<1>5. ASSUME NEW j \in DOMAIN s, j # n
      PROVE  \E i \in DOMAIN r : r[i] = s[j]
  <2>1. CASE j < n
    <3>1. j \in DOMAIN r /\ r[j] = s[j]
      BY <2>1, <1>2, <1>3
    <3> QED
      BY <3>1
  <2>2. CASE ~(j < n)
    <3>1. j - 1 \in DOMAIN r /\ r[j - 1] = s[j]
      BY <2>2, <1>2, <1>3, <1>5
    <3> QED
      BY <3>1
  <2> QED
    BY <2>1, <2>2
<1> QED
  BY <1>4, <1>5 DEF r

------------------------------------------------------------------------------
\* What the calls on an element do.

\* Parts of a state.
LEMMA StateParts ==
  ASSUME NEW m \in States
  PROVE  /\ m = [el |-> m.el, events |-> m.events, loads |-> m.loads]
         /\ m.el \in [Elements -> Element] /\ m.events \in [Elements -> Seq(Messages)]
         /\ m.loads \in Seq(Load)
         /\ \A n \in DOMAIN m.loads : m.loads[n] \in Load /\ m.loads[n].el \in Elements
<1>1. /\ m = [el |-> m.el, events |-> m.events, loads |-> m.loads]
      /\ m.el \in [Elements -> Element] /\ m.events \in [Elements -> Seq(Messages)]
      /\ m.loads \in Seq(Load)
  BY DEF States
<1>2. \A n \in DOMAIN m.loads : m.loads[n] \in Load
  BY <1>1
<1>3. \A l \in Load : l.el \in Elements
  BY DEF Load
<1> QED
  BY <1>1, <1>2, <1>3

\* What is assigned to an element changes that and no more.
LEMMA Assigned ==
  ASSUME NEW x \in Element, NEW b \in BOOLEAN
  PROVE  /\ Is([x EXCEPT !.paused = b], x.src, b, x.has, x.loud)
         /\ Is([x EXCEPT !.loud = b], x.src, x.paused, x.has, b)
BY DEF Is, Element

\* An empty queue of events tells nothing.
LEMMA NothingTold ==
  ASSUME NEW x
  PROVE  Tells(<<>>, x) /\ ~Swinging(<<>>)
BY DEF Tells, LastSwing, Swinging

\* An event at the end of the queue.
LEMMA ToldLast ==
  ASSUME NEW q \in Seq(Messages), NEW x \in Element, NEW y \in Element, NEW v \in Messages,
         Tells(q, x), x.has = "error" => y.has = "error",
         v \in Swings => (v = "play" <=> ~y.paused),
         v \notin Swings => x.paused = y.paused,
         v = "error" => y.has = "error"
  PROVE  /\ Append(q, v) \in Seq(Messages)
         /\ Tells(Append(q, v), y)
         /\ Swinging(q) \/ v \in Swings => Swinging(Append(q, v))
<1> DEFINE r == Append(q, v)
<1>1. /\ r \in Seq(Messages) /\ DOMAIN r = 1..Len(q) + 1 /\ DOMAIN q = 1..Len(q)
      /\ Len(q) \in Nat
      /\ \A i \in 1..Len(q) : r[i] = q[i]
      /\ r[Len(q) + 1] = v
  <2>1. /\ r \in Seq(Messages) /\ Len(r) = Len(q) + 1
        /\ \A i \in 1..Len(q) : r[i] = q[i]
        /\ r[Len(q) + 1] = v
    BY AppendProperties
  <2> HIDE DEF r
  <2> QED
    BY <2>1
<1> HIDE DEF r
<1>2. ASSUME NEW i \in DOMAIN r, LastSwing(r, i)
      PROVE  r[i] = "play" <=> ~y.paused
  <2>1. CASE i = Len(q) + 1
    BY <2>1, <1>1, <1>2 DEF LastSwing
  <2>2. CASE i # Len(q) + 1
    <3>1. i \in DOMAIN q /\ r[i] = q[i]
      BY <2>2, <1>1
    <3>2. v \notin Swings
      BY <2>2, <1>1, <1>2 DEF LastSwing
    <3>3. LastSwing(q, i)
      BY <3>1, <1>1, <1>2 DEF LastSwing
    <3> QED
      BY <3>1, <3>2, <3>3 DEF Tells
  <2> QED
    BY <2>1, <2>2
<1>3. ASSUME NEW i \in DOMAIN r, r[i] = "error"
      PROVE  y.has = "error"
  BY <1>1, <1>3 DEF Tells
<1>4. Swinging(q) \/ v \in Swings => Swinging(r)
  BY <1>1 DEF Swinging
<1> QED
  BY <1>1, <1>2, <1>3, <1>4 DEF Tells, r

\* The first event of the queue is gone; when it was the last to tell, it told the truth.
LEMMA ToldFirst ==
  ASSUME NEW q \in Seq(Messages), NEW x, Tells(q, x), q # <<>>
  PROVE  /\ Tail(q) \in Seq(Messages) /\ Head(q) \in Messages
         /\ Tells(Tail(q), x)
         /\ Head(q) \notin Swings => (Swinging(Tail(q)) <=> Swinging(q))
         /\ Head(q) \in Swings /\ ~Swinging(Tail(q)) => (Head(q) = "play" <=> ~x.paused)
         /\ Head(q) = "error" => x.has = "error"
<1> DEFINE r == Tail(q)
<1>1. /\ r \in Seq(Messages) /\ DOMAIN r = 1..Len(q) - 1 /\ DOMAIN q = 1..Len(q)
      /\ Len(q) \in Nat /\ Len(q) > 0
      /\ \A i \in 1..Len(q) - 1 : r[i] = q[i + 1]
      /\ Head(q) = q[1]
  <2>1. r \in Seq(Messages) /\ Len(r) = Len(q) - 1 /\ \A i \in 1..Len(q) - 1 : r[i] = q[i + 1]
    BY HeadTailProperties
  <2>2. Head(q) = q[1]
    BY HeadTailProperties
  <2>3. Len(q) \in Nat /\ Len(q) > 0
    BY EmptySeq
  <2> HIDE DEF r
  <2> QED
    BY <2>1, <2>2, <2>3
<1> HIDE DEF r
<1>2. ASSUME NEW i \in DOMAIN r, LastSwing(r, i)
      PROVE  r[i] = "play" <=> ~x.paused
  <2>1. i + 1 \in DOMAIN q /\ r[i] = q[i + 1]
    BY <1>1
  <2>2. ASSUME NEW j \in DOMAIN q, j > i + 1
        PROVE  q[j] \notin Swings
    <3>1. j - 1 \in DOMAIN r /\ j - 1 > i /\ r[j - 1] = q[j]
      BY <2>2, <1>1
    <3> QED
      BY <3>1, <1>2 DEF LastSwing
  <2>3. LastSwing(q, i + 1)
    BY <2>1, <2>2, <1>2 DEF LastSwing
  <2> QED
    BY <2>1, <2>3 DEF Tells
<1>3. ASSUME NEW i \in DOMAIN r, r[i] = "error"
      PROVE  x.has = "error"
  <2>1. i + 1 \in DOMAIN q /\ q[i + 1] = "error"
    BY <1>1, <1>3
  <2> QED
    BY <2>1 DEF Tells
<1>4. \A i \in DOMAIN q : i = 1 \/ (i - 1 \in DOMAIN r /\ r[i - 1] = q[i])
  BY <1>1
<1>5. \A i \in DOMAIN r : i + 1 \in DOMAIN q /\ r[i] = q[i + 1]
  BY <1>1
<1>6. Head(q) \notin Swings => (Swinging(r) <=> Swinging(q))
  BY <1>1, <1>4, <1>5 DEF Swinging
<1>7. 1 \in DOMAIN q
  BY <1>1
<1>8. ASSUME Head(q) \in Swings, ~Swinging(r)
      PROVE  Head(q) = "play" <=> ~x.paused
  <2>1. \A j \in DOMAIN q : j > 1 => q[j] \notin Swings
    BY <1>4, <1>8 DEF Swinging
  <2>2. LastSwing(q, 1)
    BY <2>1, <1>1, <1>8 DEF LastSwing
  <2> QED
    BY <2>2, <1>1, <1>7 DEF Tells
<1>9. Head(q) \in Messages
  BY <1>1, <1>7
<1>10. Head(q) = "error" => x.has = "error"
  BY <1>1, <1>7 DEF Tells
<1> QED
  BY <1>1, <1>2, <1>3, <1>6, <1>8, <1>9, <1>10 DEF Tells, r

\* A new source.
LEMMA SrcKeeps ==
  ASSUME NEW m, Valid(m), NEW e \in Elements, NEW t \in Tracks
  PROVE  LET w == WithSrc(m, e, t) IN
         /\ Valid(w)
         /\ Is(w.el[e], t, TRUE, "nothing", m.el[e].loud)
         /\ w.events[e] = <<>>
         /\ w.el[Other(e)] = m.el[Other(e)] /\ w.events[Other(e)] = m.events[Other(e)]
         /\ w.loads = Reject(m.loads, e)
<1> DEFINE w == WithSrc(m, e, t)
<1>1. m \in States
  BY DEF Valid
<1>2. /\ w.el = [m.el EXCEPT ![e].src = t, ![e].paused = TRUE, ![e].has = "nothing",
                             ![e].fresh = TRUE]
      /\ w.events = [m.events EXCEPT ![e] = <<>>]
      /\ w.loads = Reject(m.loads, e)
      /\ w = [el |-> w.el, events |-> w.events, loads |-> w.loads]
  BY DEF WithSrc
<1> HIDE DEF w
<1>3. w.el[e] = [m.el[e] EXCEPT !.src = t, !.paused = TRUE, !.has = "nothing",
                               !.fresh = TRUE]
  BY <1>1, <1>2, StateParts
<1>4. w.el[Other(e)] = m.el[Other(e)] /\ w.events[Other(e)] = m.events[Other(e)]
  BY <1>1, <1>2, StateParts, TwoElements
<1>5. w.events[e] = <<>>
  BY <1>1, <1>2, StateParts
<1>6. w.el[e] \in Element
  <2>1. m.el[e] \in Element
    BY <1>1, StateParts
  <2> QED
    BY <2>1, <1>3 DEF Element
<1>7. w.el \in [Elements -> Element]
  BY <1>1, <1>2, <1>4, <1>6, StateParts, TwoElements
<1>8. w.events \in [Elements -> Seq(Messages)]
  BY <1>1, <1>2, StateParts
<1>9. w.loads \in Seq(Load)
  BY <1>1, <1>2, StateParts, RejectIsSeq
<1>10. w \in States
  BY <1>2, <1>7, <1>8, <1>9 DEF States
<1>11. \A f \in Elements : Tells(w.events[f], w.el[f])
  BY <1>4, <1>5, NothingTold, TwoElements DEF Valid
<1>12. ASSUME NEW n \in DOMAIN w.loads
       PROVE  Waits(w.loads[n], w.el)
  <2>1. n \in DOMAIN m.loads /\ w.loads[n] = Rejected(m.loads[n], e)
    BY <1>1, <1>2, StateParts, RejectIsSeq
  <2>2. m.loads[n] \in Load /\ m.loads[n].el \in Elements /\ Waits(m.loads[n], m.el)
    BY <2>1, <1>1, StateParts DEF Valid
  <2>3. CASE m.loads[n].el = e
    BY <2>1, <2>2, <2>3, RejectedIs DEF Waits
  <2>4. CASE m.loads[n].el # e
    <3>1. m.loads[n].el = Other(e)
      BY <2>2, <2>4, TwoElements
    <3> QED
      BY <2>1, <2>2, <3>1, <1>4, RejectedIs, TwoElements DEF Waits
  <2> QED
    BY <2>3, <2>4
<1>13. Valid(w)
  BY <1>10, <1>11, <1>12 DEF Valid
<1>14. Is(w.el[e], t, TRUE, "nothing", m.el[e].loud)
  <2>1. m.el[e] \in Element
    BY <1>1, StateParts
  <2> QED
    BY <2>1, <1>3 DEF Is, Element
<1> QED
  BY <1>2, <1>4, <1>5, <1>13, <1>14 DEF w

\* play(): the element goes on, or starts and says so; with an error it does neither.
LEMMA PlayKeeps ==
  ASSUME NEW m, Valid(m), NEW e \in Elements
  PROVE  LET w == WithPlay(m, e) IN
         /\ Valid(w)
         /\ Is(w.el[e], m.el[e].src, m.el[e].paused /\ m.el[e].has = "error", m.el[e].has,
               m.el[e].loud)
         /\ m.el[e].paused /\ m.el[e].has # "error" => Swinging(w.events[e])
         /\ Swinging(m.events[e]) => Swinging(w.events[e])
         /\ w.el[Other(e)] = m.el[Other(e)] /\ w.events[Other(e)] = m.events[Other(e)]
         /\ w.loads = m.loads
<1> DEFINE w == WithPlay(m, e)
<1>1. m \in States
  BY DEF Valid
<1>2. CASE ~m.el[e].paused \/ m.el[e].has = "error"
  <2>1. w = m
    BY <1>2 DEF WithPlay
  <2>2. m.el[e].paused \in BOOLEAN
    BY <1>1, StateParts DEF Element
  <2>3. m.el[e].paused = (m.el[e].paused /\ m.el[e].has = "error")
    BY <2>2, <1>2
  <2> QED
    BY <2>1, <2>3, <1>2 DEF Is
<1>3. CASE m.el[e].paused /\ m.el[e].has # "error"
  <2> DEFINE v == IF m.el[e].has = "data" THEN "playing" ELSE "waiting"
             x == [m.el[e] EXCEPT !.paused = FALSE]
             q == Append(Append(m.events[e], "play"), v)
  <2>1. /\ m.el[e] \in Element /\ x \in Element /\ m.events[e] \in Seq(Messages)
        /\ Tells(m.events[e], m.el[e])
        /\ ~x.paused /\ x.has = m.el[e].has
    <3>1. m.el[e] \in Element /\ m.events[e] \in Seq(Messages)
      BY <1>1, StateParts
    <3>2. x \in Element /\ ~x.paused /\ x.has = m.el[e].has
      BY <3>1 DEF Element
    <3> QED
      BY <3>1, <3>2 DEF Valid
  <2>2. v \in Messages /\ v \notin Swings /\ v # "error" /\ "play" \in Swings /\ "play" \in Messages
    BY DEF Messages, Swings
  <2>3. m.events[e] \o <<"play", v>> = q
    <3> HIDE DEF v
    <3>1. \A z \in Seq(Messages) : z \o <<"play", v>> = Append(Append(z, "play"), v)
      BY <2>2
    <3> QED
      BY <3>1, <2>1
  <2>4. /\ w.el = [m.el EXCEPT ![e].paused = FALSE]
        /\ w.events = [m.events EXCEPT ![e] = m.events[e] \o <<"play", v>>]
        /\ w.loads = m.loads
        /\ w = [el |-> w.el, events |-> w.events, loads |-> w.loads]
    <3>1. w = [m EXCEPT !.el[e].paused = FALSE, !.events[e] = @ \o <<"play", v>>]
      BY <1>3 DEF WithPlay
    <3>2. m = [el |-> m.el, events |-> m.events, loads |-> m.loads]
      BY <1>1, StateParts
    <3> HIDE DEF w, v
    <3> QED
      BY <3>1, <3>2
  <2> HIDE DEF w, v, x, q
  <2>5. /\ w.el[e] = x /\ w.events[e] = q
        /\ w.el[Other(e)] = m.el[Other(e)] /\ w.events[Other(e)] = m.events[Other(e)]
    BY <1>1, <2>3, <2>4, StateParts, TwoElements DEF x
  <2>6. /\ Append(m.events[e], "play") \in Seq(Messages)
        /\ Tells(Append(m.events[e], "play"), x) /\ Swinging(Append(m.events[e], "play"))
    BY <2>1, <2>2, ToldLast
  <2>7. q \in Seq(Messages) /\ Tells(q, x) /\ Swinging(q)
    BY <2>1, <2>2, <2>6, ToldLast DEF q
  <2>8. w \in States
    <3>1. w.el \in [Elements -> Element]
      <4>1. m.el \in [Elements -> Element]
        BY <1>1, StateParts
      <4>2. w.el = [m.el EXCEPT ![e] = x]
        BY <2>4, <4>1 DEF x
      <4> QED
        BY <2>1, <4>1, <4>2
    <3>2. w.events \in [Elements -> Seq(Messages)]
      BY <1>1, <2>3, <2>4, <2>7, StateParts
    <3> QED
      BY <1>1, <2>4, <3>1, <3>2, StateParts DEF States
  <2>9. \A f \in Elements : Tells(w.events[f], w.el[f])
    BY <2>5, <2>7, TwoElements DEF Valid
  <2>10. ASSUME NEW n \in DOMAIN m.loads
         PROVE  Waits(m.loads[n], w.el)
    <3>1. m.loads[n].el \in Elements /\ Waits(m.loads[n], m.el)
      BY <1>1, StateParts DEF Valid
    <3>2. /\ m.loads[n].at \notin {"play", "resume"} \/ m.loads[n].el # e
      BY <3>1, <1>3 DEF Waits
    <3> QED
      BY <3>1, <3>2, <2>5, TwoElements DEF Waits
  <2>11. Valid(w)
    BY <2>4, <2>8, <2>9, <2>10 DEF Valid
  <2>12. Is(w.el[e], m.el[e].src, FALSE, m.el[e].has, m.el[e].loud)
    BY <2>1, <2>5, Assigned DEF x
  <2>13. Is(w.el[e], m.el[e].src, m.el[e].paused /\ m.el[e].has = "error", m.el[e].has,
            m.el[e].loud)
    BY <2>12, <1>3 DEF Is
  <2> QED
    BY <2>4, <2>5, <2>7, <2>11, <2>13 DEF w
<1> QED
  BY <1>2, <1>3

\* One element is replaced, and its events.
LEMMA ElementKeeps ==
  ASSUME NEW m, Valid(m), NEW e \in Elements, NEW w \in States,
         w.el[Other(e)] = m.el[Other(e)], w.events[Other(e)] = m.events[Other(e)],
         Tells(w.events[e], w.el[e]),
         \A n \in DOMAIN w.loads : Waits(w.loads[n], w.el)
  PROVE  Valid(w)
BY TwoElements DEF Valid

\* pause(): the element stops and says so, and what waited for it is rejected; an element
\* that is paused already has nobody waiting.
LEMMA PauseKeeps ==
  ASSUME NEW m, Valid(m), NEW e \in Elements
  PROVE  LET w == WithPause(m, e) IN
         /\ Valid(w)
         /\ Is(w.el[e], m.el[e].src, TRUE, m.el[e].has, m.el[e].loud)
         /\ ~m.el[e].paused => Swinging(w.events[e])
         /\ Swinging(m.events[e]) => Swinging(w.events[e])
         /\ w.el[Other(e)] = m.el[Other(e)] /\ w.events[Other(e)] = m.events[Other(e)]
         /\ w.loads = Reject(m.loads, e)
<1> DEFINE w == WithPause(m, e)
<1>1. m \in States
  BY DEF Valid
<1>2. /\ m.loads \in Seq(Load) /\ Reject(m.loads, e) \in Seq(Load)
      /\ DOMAIN Reject(m.loads, e) = DOMAIN m.loads
      /\ Len(Reject(m.loads, e)) = Len(m.loads)
      /\ \A n \in DOMAIN m.loads : /\ Reject(m.loads, e)[n] = Rejected(m.loads[n], e)
                                   /\ m.loads[n] \in Load /\ m.loads[n].el \in Elements
                                   /\ Waits(m.loads[n], m.el)
  BY <1>1, StateParts, RejectIsSeq DEF Valid
<1>3. CASE m.el[e].paused
  <2>1. w = m
    BY <1>3 DEF WithPause
  <2>2. Is(m.el[e], m.el[e].src, TRUE, m.el[e].has, m.el[e].loud)
    <3>1. m.el[e].paused \in BOOLEAN
      BY <1>1, StateParts DEF Element
    <3> QED
      BY <3>1, <1>3 DEF Is
  <2>3. \A n \in DOMAIN m.loads : Reject(m.loads, e)[n] = m.loads[n]
    BY <1>2, <1>3 DEF Rejected, Waits
  <2>4. Reject(m.loads, e) = m.loads
    BY <1>2, <2>3, SeqEqual
  <2> QED
    BY <2>1, <2>2, <2>4, <1>3
<1>4. CASE ~m.el[e].paused
  <2> DEFINE x == [m.el[e] EXCEPT !.paused = TRUE]
             q == Append(m.events[e], "pause")
             els == [m.el EXCEPT ![e] = x]
  <2>1. /\ m.el[e] \in Element /\ m.events[e] \in Seq(Messages)
        /\ m.el \in [Elements -> Element] /\ m.events \in [Elements -> Seq(Messages)]
        /\ Tells(m.events[e], m.el[e])
    BY <1>1, StateParts DEF Valid
  <2>2. x \in Element /\ x.paused /\ x.has = m.el[e].has /\ x.src = m.el[e].src
    BY <2>1 DEF Element
  <2> HIDE DEF x
  <2>3. "pause" \in Messages /\ "pause" \in Swings
    BY DEF Messages, Swings
  <2>4. q \in Seq(Messages) /\ Tells(q, x) /\ Swinging(q)
    BY <2>1, <2>2, <2>3, ToldLast
  <2>5. /\ w = [el |-> els, events |-> [m.events EXCEPT ![e] = q],
                loads |-> Reject(m.loads, e)]
    BY <1>4, <2>1 DEF WithPause, x
  <2> HIDE DEF w, q
  <2>6. els[e] = x /\ els[Other(e)] = m.el[Other(e)]
    BY <2>1, TwoElements
  <2> HIDE DEF els
  <2>7. \A n \in DOMAIN m.loads : Waits(Rejected(m.loads[n], e), els)
    <3> SUFFICES ASSUME NEW n \in DOMAIN m.loads
                 PROVE  Waits(Rejected(m.loads[n], e), els)
      OBVIOUS
    <3>1. m.loads[n] \in Load /\ m.loads[n].el \in Elements /\ Waits(m.loads[n], m.el)
      BY <1>2
    <3>2. m.loads[n].el = e \/ m.loads[n].el = Other(e)
      BY <3>1, TwoElements
    <3> QED
      BY <3>1, <3>2, <2>6, RejectedIs, TwoElements DEF Waits
  <2>8. \A n \in DOMAIN Reject(m.loads, e) : Waits(Reject(m.loads, e)[n], els)
    BY <1>2, <2>7
  <2>9. /\ w.el[e] = x /\ w.events[e] = q /\ w.el = els
        /\ w.events = [m.events EXCEPT ![e] = q] /\ w.loads = Reject(m.loads, e)
        /\ w = [el |-> w.el, events |-> w.events, loads |-> w.loads]
    BY <2>1, <2>5, <2>6
  <2>10. \A n \in DOMAIN w.loads : Waits(w.loads[n], w.el)
    BY <2>8, <2>9
  <2>11. w.el[Other(e)] = m.el[Other(e)] /\ w.events[Other(e)] = m.events[Other(e)]
    BY <2>1, <2>6, <2>9, TwoElements
  <2>12. w.el \in [Elements -> Element] /\ w.events \in [Elements -> Seq(Messages)]
    BY <2>1, <2>2, <2>4, <2>9 DEF els
  <2>13. w \in States
    BY <2>9, <2>12, <1>2 DEF States
  <2>14. Is(w.el[e], m.el[e].src, TRUE, m.el[e].has, m.el[e].loud)
    BY <2>1, <2>9, Assigned DEF x
  <2>15. Valid(w)
    BY <2>4, <2>9, <2>10, <2>11, <2>13, ElementKeeps
  <2> QED
    BY <2>4, <2>9, <2>11, <2>14, <2>15, <1>4 DEF w
<1> QED
  BY <1>3, <1>4

\* The volume is nobody's business.
LEMMA VolumeKeeps ==
  ASSUME NEW m, Valid(m), NEW e \in Elements, NEW on \in BOOLEAN
  PROVE  LET w == WithVolume(m, e, on) IN
         /\ Valid(w)
         /\ Is(w.el[e], m.el[e].src, m.el[e].paused, m.el[e].has, on)
         /\ w.el[Other(e)] = m.el[Other(e)]
         /\ w.events = m.events /\ w.loads = m.loads
<1> DEFINE w == WithVolume(m, e, on)
           x == [m.el[e] EXCEPT !.loud = on]
           els == [m.el EXCEPT ![e] = x]
<1>1. m \in States
  BY DEF Valid
<1>2. /\ m = [el |-> m.el, events |-> m.events, loads |-> m.loads]
      /\ m.el \in [Elements -> Element] /\ m.events \in [Elements -> Seq(Messages)]
      /\ m.el[e] \in Element /\ m.events[e] \in Seq(Messages) /\ m.loads \in Seq(Load)
      /\ \A n \in DOMAIN m.loads : /\ m.loads[n] \in Load /\ m.loads[n].el \in Elements
                                   /\ Waits(m.loads[n], m.el)
  BY <1>1, StateParts DEF Valid
<1>3. /\ x \in Element /\ x.paused = m.el[e].paused /\ x.has = m.el[e].has
      /\ x.src = m.el[e].src
  BY <1>2 DEF Element
<1>4. /\ w.el = els /\ w.events = m.events /\ w.loads = m.loads
      /\ w = [el |-> w.el, events |-> w.events, loads |-> w.loads]
  <2>1. w = [m EXCEPT !.el[e].loud = on]
    BY DEF WithVolume
  <2>2. m = [el |-> m.el, events |-> m.events, loads |-> m.loads]
    BY <1>2
  <2> HIDE DEF w
  <2> QED
    BY <2>1, <2>2
<1> HIDE DEF w, x
<1>5. Tells(m.events[e], x)
  BY <1>3 DEF Valid, Tells
<1>6. \A f \in Elements : /\ els[f].paused = m.el[f].paused /\ els[f].has = m.el[f].has
                          /\ els[f].src = m.el[f].src
  BY <1>2, <1>3
<1>7. els[e] = x
  BY <1>2
<1> HIDE DEF els
<1>8. \A n \in DOMAIN m.loads : Waits(m.loads[n], els)
  <2> SUFFICES ASSUME NEW n \in DOMAIN m.loads
               PROVE  Waits(m.loads[n], els)
    OBVIOUS
  <2> DEFINE f == m.loads[n].el
  <2>1. /\ els[f].paused = m.el[f].paused /\ els[f].has = m.el[f].has
        /\ els[f].src = m.el[f].src
    BY <1>2, <1>6
  <2>2. Waits(m.loads[n], m.el)
    BY <1>2
  <2> QED
    BY <2>1, <2>2 DEF Waits
<1>9. w.el[Other(e)] = m.el[Other(e)]
  BY <1>2, <1>4, TwoElements DEF els
<1>10. w.el \in [Elements -> Element]
  BY <1>2, <1>3, <1>4 DEF els
<1>11. w \in States
  BY <1>2, <1>4, <1>10 DEF States
<1>12. Valid(w)
  BY <1>4, <1>5, <1>7, <1>8, <1>9, <1>11, ElementKeeps
<1>13. Is(w.el[e], m.el[e].src, m.el[e].paused, m.el[e].has, on)
  BY <1>2, <1>4, <1>7, Assigned DEF x
<1> QED
  BY <1>4, <1>9, <1>12, <1>13 DEF w

\* A link that is dropped marks the elements that hold it.
LEMMA DroppedKeeps ==
  ASSUME NEW m, Valid(m), NEW t
  PROVE  LET w == Dropped(m, t) IN
         /\ Valid(w)
         /\ \A e \in Elements :
              Is(w.el[e], m.el[e].src, m.el[e].paused, m.el[e].has, m.el[e].loud)
         /\ w.events = m.events /\ w.loads = m.loads
<1> DEFINE w == Dropped(m, t)
           X(e) == [m.el[e] EXCEPT !.fresh = @ /\ m.el[e].src # t]
           els == [e \in Elements |-> X(e)]
<1>1. m \in States
  BY DEF Valid
<1>2. /\ m = [el |-> m.el, events |-> m.events, loads |-> m.loads]
      /\ m.el \in [Elements -> Element] /\ m.events \in [Elements -> Seq(Messages)]
      /\ m.loads \in Seq(Load)
      /\ \A n \in DOMAIN m.loads : /\ m.loads[n] \in Load /\ m.loads[n].el \in Elements
                                   /\ Waits(m.loads[n], m.el)
  BY <1>1, StateParts DEF Valid
<1>3. ASSUME NEW e \in Elements
      PROVE  /\ X(e) \in Element /\ X(e).paused = m.el[e].paused
             /\ X(e).has = m.el[e].has /\ X(e).src = m.el[e].src
             /\ X(e).loud = m.el[e].loud
  <2>1. m.el[e] \in Element
    BY <1>2
  <2> QED
    BY <2>1 DEF Element
<1>4. w.el = els /\ w.events = m.events /\ w.loads = m.loads
      /\ w = [el |-> w.el, events |-> w.events, loads |-> w.loads]
  <2>1. w = [m EXCEPT !.el = els]
    BY DEF Dropped
  <2>2. m = [el |-> m.el, events |-> m.events, loads |-> m.loads]
    BY <1>2
  <2> HIDE DEF w, els
  <2> QED
    BY <2>1, <2>2
<1> HIDE DEF w, X
<1>5. els \in [Elements -> Element] /\ \A e \in Elements : els[e] = X(e)
  BY <1>3
<1> HIDE DEF els
<1>6. w \in States
  BY <1>2, <1>4, <1>5 DEF States
<1>7. \A e \in Elements : Tells(w.events[e], w.el[e])
  BY <1>3, <1>4, <1>5 DEF Valid, Tells
<1>8. \A n \in DOMAIN w.loads : Waits(w.loads[n], w.el)
  <2> SUFFICES ASSUME NEW n \in DOMAIN m.loads
               PROVE  Waits(m.loads[n], els)
    BY <1>4
  <2> DEFINE f == m.loads[n].el
  <2>1. f \in Elements
    BY <1>2
  <2>2. /\ els[f].paused = m.el[f].paused /\ els[f].has = m.el[f].has
        /\ els[f].src = m.el[f].src
    BY <2>1, <1>3, <1>5
  <2>3. Waits(m.loads[n], m.el)
    BY <1>2
  <2> QED
    BY <2>2, <2>3 DEF Waits
<1>9. Valid(w)
  BY <1>6, <1>7, <1>8 DEF Valid
<1> QED
  BY <1>3, <1>4, <1>5, <1>9 DEF w, Is

\* One event has been told.
LEMMA ToldKeeps ==
  ASSUME NEW e \in Elements, Valid(Now), events[e] # <<>>
  PROVE  LET w == Told(e) IN
         /\ Valid(w)
         /\ w.el = el /\ w.loads = loads
         /\ w.events[e] = Tail(events[e]) /\ w.events[Other(e)] = events[Other(e)]
         /\ Head(events[e]) \notin Swings => (Swinging(w.events[e]) <=> Swinging(events[e]))
         /\ Head(events[e]) \in Swings /\ ~Swinging(w.events[e]) =>
              (Head(events[e]) = "play" <=> ~el[e].paused)
         /\ Head(events[e]) = "error" => el[e].has = "error"
<1> DEFINE w == Told(e)
<1>1. /\ Now \in States /\ Now.el = el /\ Now.events = events /\ Now.loads = loads
      /\ Now = [el |-> el, events |-> events, loads |-> loads]
  BY DEF Valid, Now
<1>2. /\ el \in [Elements -> Element] /\ events \in [Elements -> Seq(Messages)]
      /\ loads \in Seq(Load) /\ Tells(events[e], el[e])
      /\ \A n \in DOMAIN loads : Waits(loads[n], el)
  BY <1>1, StateParts DEF Valid
<1>3. /\ w.el = el /\ w.events = [events EXCEPT ![e] = Tail(events[e])] /\ w.loads = loads
      /\ w = [el |-> w.el, events |-> w.events, loads |-> w.loads]
  <2>1. w = [Now EXCEPT !.events[e] = Tail(@)]
    BY DEF Told
  <2> HIDE DEF w
  <2> QED
    BY <2>1, <1>1
<1> HIDE DEF w
<1>4. /\ Tail(events[e]) \in Seq(Messages) /\ Tells(Tail(events[e]), el[e])
      /\ Head(events[e]) \notin Swings =>
           (Swinging(Tail(events[e])) <=> Swinging(events[e]))
      /\ Head(events[e]) \in Swings /\ ~Swinging(Tail(events[e])) =>
           (Head(events[e]) = "play" <=> ~el[e].paused)
      /\ Head(events[e]) = "error" => el[e].has = "error"
  BY <1>2, ToldFirst
<1>5. /\ w.events[e] = Tail(events[e]) /\ w.events[Other(e)] = events[Other(e)]
      /\ w.events \in [Elements -> Seq(Messages)]
  BY <1>2, <1>3, <1>4, TwoElements
<1>6. w \in States
  BY <1>2, <1>3, <1>5 DEF States
<1>7. /\ w.el[Other(e)] = Now.el[Other(e)] /\ w.events[Other(e)] = Now.events[Other(e)]
      /\ Tells(w.events[e], w.el[e]) /\ \A n \in DOMAIN w.loads : Waits(w.loads[n], w.el)
  BY <1>1, <1>2, <1>3, <1>4, <1>5
<1>8. Valid(w)
  BY <1>6, <1>7, ElementKeeps
<1> QED
  BY <1>3, <1>4, <1>5, <1>8 DEF w

\* The loads of a state that is otherwise the same.
LEMMA LoadsKeep ==
  ASSUME NEW m, Valid(m), NEW ls \in Seq(Load), \A n \in DOMAIN ls : Waits(ls[n], m.el)
  PROVE  LET w == [m EXCEPT !.loads = ls] IN
         Valid(w) /\ w.el = m.el /\ w.events = m.events /\ w.loads = ls
<1> DEFINE w == [m EXCEPT !.loads = ls]
<1>1. /\ m \in States /\ m = [el |-> m.el, events |-> m.events, loads |-> m.loads]
      /\ m.el \in [Elements -> Element] /\ m.events \in [Elements -> Seq(Messages)]
  BY StateParts DEF Valid
<1>2. /\ w.el = m.el /\ w.events = m.events /\ w.loads = ls
      /\ w = [el |-> w.el, events |-> w.events, loads |-> w.loads]
  BY <1>1
<1> HIDE DEF w
<1>3. w \in States
  BY <1>1, <1>2 DEF States
<1>4. Valid(w)
  BY <1>2, <1>3 DEF Valid
<1> QED
  BY <1>2, <1>4 DEF w

\* One more load.
LEMMA LoadKeeps ==
  ASSUME NEW m, Valid(m), NEW l \in Load, Waits(l, m.el)
  PROVE  LET w == WithLoad(m, l) IN
         /\ Valid(w) /\ w.el = m.el /\ w.events = m.events
         /\ Len(w.loads) = Len(m.loads) + 1
         /\ Range(w.loads) = Range(m.loads) \cup {l}
<1>1. m.loads \in Seq(Load)
  BY StateParts DEF Valid
<1> DEFINE ls == Append(m.loads, l)
<1>2. /\ ls \in Seq(Load) /\ Len(ls) = Len(m.loads) + 1
      /\ DOMAIN ls = 1..Len(m.loads) + 1 /\ DOMAIN m.loads = 1..Len(m.loads)
      /\ Len(m.loads) \in Nat
      /\ \A n \in 1..Len(m.loads) : ls[n] = m.loads[n]
      /\ ls[Len(m.loads) + 1] = l
  BY <1>1, AppendProperties
<1>3. WithLoad(m, l) = [m EXCEPT !.loads = ls]
  BY DEF WithLoad
<1> HIDE DEF ls
<1>4. \A n \in DOMAIN ls : Waits(ls[n], m.el)
  BY <1>2 DEF Valid
<1>5. Range(ls) = Range(m.loads) \cup {l}
  BY <1>2 DEF Range
<1> QED
  BY <1>2, <1>3, <1>4, <1>5, LoadsKeep

\* One load less.
LEMMA WithoutKeeps ==
  ASSUME NEW m, Valid(m), NEW n \in DOMAIN m.loads
  PROVE  LET w == Without(m, n) IN
         /\ Valid(w) /\ w.el = m.el /\ w.events = m.events
         /\ Len(w.loads) = Len(m.loads) - 1
         /\ Range(w.loads) \subseteq Range(m.loads)
         /\ Range(m.loads) \subseteq Range(w.loads) \cup {m.loads[n]}
<1>1. m.loads \in Seq(Load)
  BY StateParts DEF Valid
<1> DEFINE ls == RemoveAt(m.loads, n)
<1>2. /\ ls \in Seq(Load) /\ Len(ls) = Len(m.loads) - 1
      /\ \A i \in DOMAIN ls : \E j \in DOMAIN m.loads : j # n /\ ls[i] = m.loads[j]
      /\ \A j \in DOMAIN m.loads : j # n => \E i \in DOMAIN ls : ls[i] = m.loads[j]
  BY <1>1, RemoveIsSeq, RemoveKeeps
<1>3. Without(m, n) = [m EXCEPT !.loads = ls]
  BY DEF Without
<1> HIDE DEF ls
<1>4. \A i \in DOMAIN ls : Waits(ls[i], m.el)
  BY <1>2 DEF Valid
<1>5. /\ Range(ls) \subseteq Range(m.loads)
      /\ Range(m.loads) \subseteq Range(ls) \cup {m.loads[n]}
  BY <1>2 DEF Range
<1> QED
  BY <1>2, <1>3, <1>4, <1>5, LoadsKeep

\* One load is replaced.
Replaces(m, n, l, w) ==
  /\ Valid(m) /\ n \in DOMAIN m.loads /\ l \in Load /\ Waits(l, m.el)
  /\ w.el = m.el /\ w.events = m.events /\ w.loads = [m.loads EXCEPT ![n] = l]
  /\ w = [el |-> w.el, events |-> w.events, loads |-> w.loads]

LEMMA ReplaceKeeps ==
  ASSUME NEW m, NEW n, NEW l, NEW w, Replaces(m, n, l, w)
  PROVE  /\ Valid(w) /\ w.el = m.el /\ w.events = m.events
         /\ Len(w.loads) = Len(m.loads)
         /\ Range(w.loads) \subseteq Range(m.loads) \cup {l}
         /\ Range(m.loads) \subseteq Range(w.loads) \cup {m.loads[n]}
         /\ l \in Range(w.loads)
<1>1. /\ Valid(m) /\ n \in DOMAIN m.loads /\ l \in Load /\ Waits(l, m.el)
      /\ w.el = m.el /\ w.events = m.events /\ w.loads = [m.loads EXCEPT ![n] = l]
      /\ w = [el |-> w.el, events |-> w.events, loads |-> w.loads]
  BY DEF Replaces
<1>2. m.loads \in Seq(Load)
  BY <1>1, StateParts DEF Valid
<1> DEFINE ls == [m.loads EXCEPT ![n] = l]
<1>3. ls \in Seq(Load) /\ Len(ls) = Len(m.loads)
  BY <1>1, <1>2
<1>4. DOMAIN ls = DOMAIN m.loads /\ \A i \in DOMAIN ls : ls[i] = IF i = n THEN l ELSE m.loads[i]
  BY <1>1, <1>2
<1>5. w.loads = ls
  BY <1>1
<1> HIDE DEF ls
<1>6. \A i \in DOMAIN ls : Waits(ls[i], m.el)
  BY <1>1, <1>4 DEF Valid
<1>7. /\ Range(ls) \subseteq Range(m.loads) \cup {l}
      /\ Range(m.loads) \subseteq Range(ls) \cup {m.loads[n]}
      /\ l \in Range(ls)
  BY <1>1, <1>4 DEF Range
<1>8. w \in States
  <2>1. m.el \in [Elements -> Element] /\ m.events \in [Elements -> Seq(Messages)]
    BY <1>1, StateParts DEF Valid
  <2> QED
    BY <2>1, <1>1, <1>3, <1>5 DEF States
<1>9. Valid(w)
  BY <1>1, <1>5, <1>6, <1>8 DEF Valid
<1> QED
  BY <1>1, <1>3, <1>5, <1>7, <1>9

\* Rejecting, as a set.
LEMMA RejectRange ==
  ASSUME NEW ls \in Seq(Load), NEW e
  PROVE  Range(Reject(ls, e)) = {Rejected(l, e) : l \in Range(ls)}
BY RejectIsSeq DEF Range

------------------------------------------------------------------------------
\* What is true while loads, events and fades are still under way.

\* The types, but for the elements, their events and the loads.
Plain ==
  /\ current \in Tracks \cup {None} /\ error \in Tracks \cup {None}
  /\ isPlaying \in BOOLEAN /\ isLoading \in BOOLEAN /\ stalled \in BOOLEAN
  /\ tangled \in BOOLEAN /\ wants \in BOOLEAN
  /\ active \in Elements /\ spareTrack \in Tracks \cup {None}
  /\ preload \in [track : Tracks \cup {None}, el : Elements]
  /\ ticket \subseteq Tracks
  /\ Len(loads) <= MaxLoads
  /\ fadingOut \subseteq Elements /\ stallTimer \in Elements \cup {0}
  /\ recoveries \in [track : Tracks \cup {None}, count : 0..MaxRecoveries]
  /\ ops \in 0..MaxOps /\ faults \in 0..MaxFaults

\* What is fetched ahead is another track, and goes into the spare.
NextIsNot == spareTrack # None => spareTrack # current
PreloadSpare ==
  preload.track # None /\ preload.track = spareTrack => preload.el = Other(active)

Valued == Plain /\ Valid(Now) /\ NextIsNot /\ PreloadSpare

\* The loads of the current track, and those of them that will yet start the element.
Main(l) == l.track = current /\ l.at \in {"ticket", "play", "rejected", "retry"}
Loading == \E l \in Range(loads) : Main(l)
Fresh(l) ==
  l.track = current /\ (l.at \in {"rejected", "retry"} \/ (l.at = "ticket" /\ l.out = 0))

\* Loads are about the active element, and nobody toggles what was fetched ahead.
Placed ==
  \A l \in Range(loads) :
    /\ Main(l) /\ l.at # "retry" => l.el = active
    /\ l.at \in {"play", "resume"} => l.el = active
    /\ l.at \in {"resume", "unresumed"} => l.track # spareTrack
    /\ l.at = "play" /\ error # None => l.track = current

\* The other element is silent or on its way out.
OtherSilent == el[Other(active)].paused \/ Other(active) \in fadingOut

\* The active element holds the current track or is about to.
SrcRight == error = None => el[active].src = current \/ Loading

\* It is audible, or a load will make it so.
Audible == el[active].loud \/ el[active].paused \/ Loading

\* When it plays, the store says so, or will be told.
Up ==
  ~el[active].paused /\ active \notin fadingOut =>
    \/ Swinging(events[active]) \/ isPlaying
    \/ error # None /\ \A l \in Range(loads) : l.at # "play"
    \/ \E l \in Range(loads) : Fresh(l)
Spoken ==
  (\E l \in Range(loads) : l.track = current /\ l.at = "play") =>
    Swinging(events[active]) \/ isPlaying \/ active \in fadingOut

\* Until a load that took the spare has its ticket, the spare is silent, or is still going
\* out, or the store knows of it.
Swapped ==
  (\E l \in Range(loads) : Main(l) /\ l.at = "ticket" /\ l.out # 0) =>
    \/ el[active].paused \/ active \in fadingOut \/ el[active].has = "error"
    \/ Swinging(events[active]) \/ isPlaying

\* When it does not, the store says that, or will be told.
Down ==
  error = None /\ el[active].paused /\ isPlaying => Swinging(events[active]) \/ Loading

Orderly ==
  Placed /\ OtherSilent /\ SrcRight /\ Audible /\ Up /\ Spoken /\ Swapped /\ Down

\* The inductive invariant.
PlaybackInv == Valued /\ (~tangled => Orderly)

\* What the state is made of.
LEMMA NowIs ==
  /\ Now.el = el /\ Now.events = events /\ Now.loads = loads
  /\ Now = [el |-> el, events |-> events, loads |-> loads]
BY DEF Now

LEMMA NowParts ==
  ASSUME Valid(Now)
  PROVE  /\ el \in [Elements -> Element] /\ events \in [Elements -> Seq(Messages)]
         /\ loads \in Seq(Load) /\ Len(loads) \in Nat
         /\ \A e \in Elements : Tells(events[e], el[e]) /\ el[e] \in Element
         /\ \A n \in DOMAIN loads : /\ loads[n] \in Range(loads)
                                    /\ loads[n] \in Load /\ Waits(loads[n], el)
         /\ \A l \in Range(loads) : l \in Load /\ Waits(l, el)
<1>1. Now \in States
  BY DEF Valid
<1>2. /\ el \in [Elements -> Element] /\ events \in [Elements -> Seq(Messages)]
      /\ loads \in Seq(Load)
  BY <1>1, NowIs, StateParts
<1>3. /\ \A e \in Elements : Tells(events[e], el[e])
      /\ \A n \in DOMAIN loads : Waits(loads[n], el)
  BY NowIs DEF Valid
<1> QED
  BY <1>2, <1>3 DEF Range

\* The state becomes another.
LEMMA BecomesKeeps ==
  ASSUME NEW w, Valid(w), Becomes(w)
  PROVE  /\ Valid(Now)' /\ el' = w.el /\ events' = w.events /\ loads' = w.loads
<1>1. w = [el |-> w.el, events |-> w.events, loads |-> w.loads]
  BY StateParts DEF Valid
<1>2. el' = w.el /\ events' = w.events /\ loads' = w.loads
  BY DEF Becomes
<1>3. Now' = w
  BY <1>1, <1>2 DEF Now
<1> QED
  BY <1>2, <1>3

\* The types follow.
LEMMA ValuedTypes ==
  ASSUME Valued
  PROVE  TypeOK
<1>1. /\ el \in [Elements -> Element] /\ events \in [Elements -> Seq(Messages)]
      /\ \A n \in DOMAIN loads : loads[n] \in Load
  BY NowParts DEF Valued
<1>2. Plain
  BY DEF Valued
<1> QED
  BY <1>1, <1>2 DEF TypeOK, Plain, Load, Element, Messages, Awaits

\* The quiet states of an orderly player are right.
LEMMA OrderlyQuiet ==
  ASSUME PlaybackInv
  PROVE  SoundIsCurrent /\ StoreAgrees /\ OneSounds /\ NotLeftMute
<1> SUFFICES ASSUME Calm
             PROVE  SoundIsCurrent /\ StoreAgrees /\ OneSounds /\ NotLeftMute
  BY DEF SoundIsCurrent, StoreAgrees, OneSounds, NotLeftMute
<1>1. /\ Orderly /\ active \in Elements /\ Other(active) \in Elements
      /\ isPlaying \in BOOLEAN /\ el[active].paused \in BOOLEAN
      /\ el[Other(active)].paused \in BOOLEAN
  BY NowParts, TwoElements DEF PlaybackInv, Valued, Plain, Calm, Element
<1>2. /\ loads = <<>> /\ fadingOut = {} /\ events[active] = <<>>
  BY <1>1 DEF Calm, Quiet
<1>3. Range(loads) = {} /\ ~Loading /\ ~Swinging(events[active])
  BY <1>2, NothingTold DEF Range, Loading
<1>4. SoundIsCurrent
  BY <1>1, <1>3 DEF SoundIsCurrent, Orderly, SrcRight
<1>5. StoreAgrees
  BY <1>1, <1>2, <1>3 DEF StoreAgrees, Orderly, Up, Down
<1>6. OneSounds
  BY <1>1, <1>2 DEF OneSounds, Orderly, OtherSilent, Sounds
<1>7. NotLeftMute
  BY <1>1, <1>3 DEF NotLeftMute, Orderly, Audible, Sounds
<1> QED
  BY <1>4, <1>5, <1>6, <1>7

\* The constants one by one.
LEMMA Bounds ==
  /\ MaxRecoveries \in Nat /\ MaxRecoveries > 0 /\ MaxRetries \in Nat /\ MaxLoads \in Nat
  /\ MaxOps \in Nat /\ MaxFaults \in Nat
  /\ None = 0 /\ None \notin Tracks
BY PlaybackAssumption DEF None

\* In the beginning nothing plays.
LEMMA InvInit == Init => PlaybackInv
<1> SUFFICES ASSUME Init PROVE PlaybackInv
  OBVIOUS
<1>1. /\ \A e \in Elements : el[e] = [src |-> None, paused |-> TRUE, has |-> "nothing",
                                      loud |-> TRUE, fresh |-> FALSE]
      /\ \A e \in Elements : events[e] = <<>>
      /\ el \in [Elements -> Element] /\ events \in [Elements -> Seq(Messages)]
      /\ loads = <<>> /\ loads \in Seq(Load)
  BY DEF Init, Element, None
<1>2. Now \in States
  BY <1>1 DEF Now, States
<1>3. Valid(Now)
  BY <1>1, <1>2, NowIs, NothingTold DEF Valid
<1>4. active = 1 /\ Other(active) = 2 /\ active \in Elements /\ Other(active) \in Elements
  BY DEF Init, Other, Elements
<1>5. Plain
  <2>1. Len(loads) = 0 /\ Len(loads) <= MaxLoads
    BY <1>1, Bounds
  <2>2. /\ recoveries \in [track : Tracks \cup {None}, count : 0..MaxRecoveries]
        /\ preload \in [track : Tracks \cup {None}, el : Elements]
        /\ 0 \in 0..MaxOps /\ 0 \in 0..MaxFaults
    BY Bounds DEF Init, Elements
  <2> QED
    BY <2>1, <2>2, <1>4 DEF Init, Plain
<1>6. Range(loads) = {} /\ ~Loading
  BY <1>1 DEF Range, Loading
<1>7. Orderly
  BY <1>1, <1>4, <1>6 DEF Init, Orderly, Placed, OtherSilent, SrcRight, Audible, Up,
    Spoken, Swapped, Down, None
<1> QED
  BY <1>3, <1>5, <1>7 DEF Init, PlaybackInv, Valued, NextIsNot, PreloadSpare

\* A load that starts.
Begun(t, attempt, e, out, auto) ==
  [track |-> t, attempt |-> attempt, el |-> e, out |-> out, auto |-> auto, at |-> "ticket"]

\* It starts on the element that is active, or on the spare.
Stays(m, t, attempt, auto) ==
  /\ active' = active /\ spareTrack' = spareTrack /\ fadingOut' = fadingOut
  /\ el' = m.el /\ events' = m.events
  /\ Range(loads') = Range(m.loads) \cup {Begun(t, attempt, active, 0, auto)}

Swaps(m, t, attempt, auto, overlap) ==
  LET begun == Begun(t, attempt, Other(active), active, auto) IN
  /\ active' = Other(active) /\ spareTrack' = None
  /\ fadingOut' = IF overlap THEN fadingOut \cup {active} ELSE fadingOut
  /\ el'[active'] = m.el[active'] /\ events'[active'] = m.events[active']
  /\ \/ overlap /\ el'[active] = m.el[active] /\ Range(loads') = Range(m.loads) \cup {begun}
     \/ ~overlap /\ el'[active].paused
        /\ Range(loads') = {Rejected(l, active) : l \in Range(m.loads)} \cup {begun}

\* Start does one of the two.
LEMMA StartKeeps ==
  ASSUME NEW m, Valid(m), Plain, NEW t \in Tracks, NEW attempt \in 0..MaxRetries,
         NEW auto \in BOOLEAN, NEW keep \in BOOLEAN, NEW overlap \in BOOLEAN, keep \/ auto,
         Start(m, t, attempt, auto, keep, overlap)
  PROVE  /\ Valid(Now)' /\ Len(loads') <= MaxLoads
         /\ active' \in Elements /\ spareTrack' \in {None, spareTrack}
         /\ fadingOut' \subseteq Elements
         /\ keep \/ spareTrack # t => Stays(m, t, attempt, auto)
         /\ ~keep /\ spareTrack = t => Swaps(m, t, attempt, auto, overlap)
<1> DEFINE taken == Takes(t, keep)
           mine == IF taken THEN Other(active) ELSE active
           l == Begun(t, attempt, mine, IF taken THEN active ELSE 0, auto)
           w == IF taken THEN Outgoing(m, overlap) ELSE m
<1>1. /\ Len(m.loads) < MaxLoads
      /\ active' = mine
      /\ spareTrack' = IF taken THEN None ELSE spareTrack
      /\ fadingOut' = IF taken /\ overlap THEN fadingOut \cup {active} ELSE fadingOut
      /\ Becomes(WithLoad(w, l))
  BY DEF Start, Begun
<1>2. active \in Elements /\ Other(active) \in Elements /\ fadingOut \subseteq Elements
  BY TwoElements DEF Plain
<1>3. m.loads \in Seq(Load) /\ Len(m.loads) \in Nat
  BY StateParts DEF Valid
<1>4. /\ Valid(w) /\ Len(w.loads) = Len(m.loads)
      /\ ~taken => w = m
      /\ taken => w.el[Other(active)] = m.el[Other(active)]
                  /\ w.events[Other(active)] = m.events[Other(active)]
      /\ taken /\ overlap => w = m
      /\ taken /\ ~overlap => w = WithPause(m, active) /\ w.loads = Reject(m.loads, active)
                              /\ w.el[active].paused
  <2>1. CASE ~taken \/ overlap
    BY <2>1 DEF Outgoing
  <2>2. CASE taken /\ ~overlap
    <3>1. w = WithPause(m, active)
      BY <2>2 DEF Outgoing
    <3> DEFINE v == WithPause(m, active)
    <3>2. /\ Valid(v) /\ v.loads = Reject(m.loads, active) /\ v.el[active].paused
          /\ v.el[Other(active)] = m.el[Other(active)]
          /\ v.events[Other(active)] = m.events[Other(active)]
      BY <1>2, PauseKeeps DEF Is
    <3>3. Len(Reject(m.loads, active)) = Len(m.loads)
      BY <1>3, RejectIsSeq
    <3> HIDE DEF w, taken, v
    <3> QED
      BY <2>2, <3>1, <3>2, <3>3 DEF v
  <2> QED
    BY <2>1, <2>2
<1>5. l \in Load /\ Waits(l, w.el)
  <2>1. mine \in Elements /\ (taken => ~keep)
    BY <1>2 DEF Takes
  <2>2. "ticket" \in Awaits
    BY DEF Awaits
  <2> HIDE DEF w, taken, mine
  <2> QED
    BY <2>1, <2>2, <1>2 DEF Load, Begun, Waits
<1> HIDE DEF w, l
<1>6. /\ Valid(Now)' /\ el' = w.el /\ events' = w.events
      /\ Len(loads') = Len(w.loads) + 1 /\ Range(loads') = Range(w.loads) \cup {l}
  <2>1. /\ Valid(WithLoad(w, l)) /\ WithLoad(w, l).el = w.el
        /\ WithLoad(w, l).events = w.events
        /\ Len(WithLoad(w, l).loads) = Len(w.loads) + 1
        /\ Range(WithLoad(w, l).loads) = Range(w.loads) \cup {l}
    BY <1>4, <1>5, LoadKeeps
  <2> QED
    BY <2>1, <1>1, BecomesKeeps
<1>7. Len(loads') <= MaxLoads
  BY <1>1, <1>3, <1>4, <1>6, Bounds
<1>8. CASE ~taken
  <2>1. w = m /\ l = Begun(t, attempt, active, 0, auto) /\ (keep \/ spareTrack # t)
    BY <1>4, <1>8 DEF l, Takes
  <2> QED
    BY <2>1, <1>1, <1>2, <1>6, <1>7, <1>8 DEF Stays
<1>9. CASE taken
  <2>1. /\ l = Begun(t, attempt, Other(active), active, auto)
        /\ ~keep /\ spareTrack = t
    BY <1>9 DEF l, Takes
  <2>2. /\ active' = Other(active) /\ spareTrack' = None
        /\ fadingOut' = (IF overlap THEN fadingOut \cup {active} ELSE fadingOut)
        /\ fadingOut' \subseteq Elements
    BY <1>1, <1>2, <1>9
  <2> HIDE DEF taken
  <2>3. el'[active'] = m.el[active'] /\ events'[active'] = m.events[active']
    BY <2>2, <1>4, <1>6, <1>9
  <2>4. CASE overlap
    BY <2>1, <2>2, <2>3, <2>4, <1>2, <1>4, <1>6, <1>7, <1>9 DEF Swaps
  <2>5. CASE ~overlap
    <3>1. Range(w.loads) = {Rejected(k, active) : k \in Range(m.loads)}
      BY <2>5, <1>3, <1>4, <1>9, RejectRange
    <3> QED
      BY <2>1, <2>2, <2>3, <2>5, <3>1, <1>2, <1>4, <1>6, <1>7, <1>9 DEF Swaps
  <2> QED
    BY <2>4, <2>5
<1> QED
  BY <1>8, <1>9

\* A choice among many is orderly when its track is not under way already: it takes the
\* element that is active, or the spare.
LEMMA ChosenOrderly ==
  ASSUME PlaybackInv, NEW m, Valid(m), NEW t \in Tracks, NEW overlap \in BOOLEAN,
         Start(m, t, 0, TRUE, FALSE, overlap), Chosen(t),
         \A e \in Elements : m.el[e].paused = el[e].paused \/ m.el[e].paused,
         Range(m.loads) = Range(loads),
         overlap /\ ~tangled => \A l \in Range(loads) : l.at \notin {"play", "resume"}
  PROVE  ~tangled' => Orderly'
<1> SUFFICES ASSUME ~tangled' PROVE Orderly'
  OBVIOUS
<1> DEFINE ls == Range(loads)
           ls1 == Range(loads')
<1>1. /\ Plain /\ ~tangled /\ Orderly /\ \A l \in ls : l.track # t
      /\ current' = t /\ error' = None /\ active \in Elements /\ Other(active) \in Elements
  BY TwoElements DEF PlaybackInv, Valued, Plain, Chosen, Again, Range
<1>2. /\ \A l \in ls : l \in Load
      /\ m.loads \in Seq(Load)
      /\ \A e \in Elements : m.el[e].paused \in BOOLEAN
  <2>1. m.el \in [Elements -> Element] /\ m.loads \in Seq(Load)
    BY StateParts DEF Valid
  <2> QED
    BY <2>1, NowParts DEF PlaybackInv, Valued, Element
<1>3. /\ active' \in Elements /\ spareTrack' \in {None, spareTrack}
      /\ spareTrack # t => Stays(m, t, 0, TRUE)
      /\ spareTrack = t => Swaps(m, t, 0, TRUE, overlap)
  <2>1. 0 \in 0..MaxRetries
    BY Bounds
  <2> QED
    BY <2>1, <1>1, StartKeeps
<1> HIDE DEF ls, ls1
<1>4. ASSUME spareTrack # t
      PROVE  Orderly'
  <2> DEFINE b == Begun(t, 0, active, 0, TRUE)
  <2>1. /\ active' = active /\ spareTrack' = spareTrack /\ fadingOut' = fadingOut
        /\ el' = m.el /\ ls1 = ls \cup {b}
    BY <1>3, <1>4 DEF Stays, ls, ls1
  <2>2. b.track = t /\ b.at = "ticket" /\ b.el = active /\ b.out = 0
    BY DEF Begun
  <2> HIDE DEF b
  <2>3. /\ Loading' /\ \E l \in ls1 : Fresh(l)'
    BY <2>1, <2>2, <1>1 DEF Loading, Main, Fresh, ls1
  <2>4. Placed'
    BY <2>1, <2>2, <1>1 DEF Orderly, Placed, Main, ls, ls1
  <2>5. OtherSilent'
    BY <2>1, <1>1, <1>2 DEF Orderly, OtherSilent
  <2>6. Spoken' /\ Swapped'
    BY <2>1, <2>2, <1>1 DEF Spoken, Swapped, Main, ls1
  <2> QED
    BY <2>3, <2>4, <2>5, <2>6 DEF Orderly, SrcRight, Audible, Up, Down, ls1
<1>5. ASSUME spareTrack = t
      PROVE  Orderly'
  <2> DEFINE b == Begun(t, 0, Other(active), active, TRUE)
  <2>1. /\ active' = Other(active) /\ spareTrack' = None
        /\ fadingOut \subseteq fadingOut'
        /\ el'[Other(active)] = m.el[Other(active)]
        /\ el'[active].paused \/ active \in fadingOut'
        /\ b \in ls1
    BY <1>1, <1>3, <1>5 DEF Swaps, ls1
  <2>2. b.track = t /\ b.at = "ticket" /\ b.el = Other(active) /\ b.out = active
    BY DEF Begun
  <2>3. ASSUME NEW l \in ls1, l # b
        PROVE  l.track \in Tracks /\ l.track # t /\ l.at \notin {"play", "resume"}
    <3>1. CASE overlap
      <4>1. l \in ls
        BY <2>3, <3>1, <1>3, <1>5 DEF Swaps, ls, ls1
      <4> QED
        BY <4>1, <3>1, <1>1, <1>2 DEF Load, ls
    <3>2. CASE ~overlap
      <4>1. PICK k \in ls : l = Rejected(k, active)
        BY <2>3, <3>2, <1>3, <1>5 DEF Swaps, ls, ls1
      <4>2. /\ k \in Load /\ k.track # t
            /\ k.at \in {"play", "resume"} => k.el = active
        BY <1>1, <1>2 DEF Orderly, Placed, ls
      <4> QED
        BY <4>1, <4>2, RejectedIs DEF Load
    <3> QED
      BY <3>1, <3>2
  <2> HIDE DEF b
  <2>4. Loading'
    BY <2>1, <2>2, <1>1 DEF Loading, Main, ls1
  <2>5. Placed'
    BY <2>1, <2>2, <2>3, <1>1, Bounds DEF Placed, Main, ls1
  <2>6. OtherSilent'
    BY <2>1, <1>1, TwoElements DEF OtherSilent
  <2>7. el'[active'].paused \/ active' \in fadingOut'
    BY <2>1, <1>1, <1>2 DEF Orderly, OtherSilent
  <2>8. Spoken'
    BY <2>2, <2>3, <1>1 DEF Spoken, ls1
  <2> QED
    BY <2>4, <2>5, <2>6, <2>7, <2>8 DEF Orderly, SrcRight, Audible, Up, Swapped, Down
<1> QED
  BY <1>4, <1>5

\* Parts of the invariant.
LEMMA InvParts ==
  ASSUME PlaybackInv
  PROVE  /\ Plain /\ Valid(Now) /\ NextIsNot /\ PreloadSpare /\ (~tangled => Orderly)
         /\ active \in Elements /\ Other(active) \in Elements /\ Other(active) # active
         /\ Other(Other(active)) = active
         /\ \A e \in Elements : e = active \/ e = Other(active)
         /\ \A e \in Elements : el[e] \in Element /\ el[e].paused \in BOOLEAN
         /\ \A l \in Range(loads) : l \in Load /\ l.el \in Elements /\ l.track \in Tracks
                                    /\ Waits(l, el)
<1>1. Plain /\ Valid(Now) /\ NextIsNot /\ PreloadSpare /\ (~tangled => Orderly)
  BY DEF PlaybackInv, Valued
<1>2. active \in Elements
  BY <1>1 DEF Plain
<1>3. /\ \A e \in Elements : el[e] \in Element
      /\ \A l \in Range(loads) : l \in Load /\ Waits(l, el)
  BY <1>1, NowParts
<1>4. /\ \A x \in Element : x.paused \in BOOLEAN
      /\ \A l \in Load : l.el \in Elements /\ l.track \in Tracks
  BY DEF Element, Load
<1> QED
  BY <1>1, <1>2, <1>3, <1>4, TwoElements

\* The counters stay within their bounds.
LEMMA Counted ==
  ASSUME Plain
  PROVE  /\ Act => ops' \in 0..MaxOps /\ faults' \in 0..MaxFaults
         /\ Fault => /\ ops' \in 0..MaxOps /\ faults' \in 0..MaxFaults /\ wants' = wants
BY Bounds DEF Plain, Act, Fault

\* A load whose play() may have been rejected.
Alike(l, k) ==
  /\ k.track = l.track /\ k.el = l.el /\ k.out = l.out
  /\ \/ k.at = l.at
     \/ l.at = "play" /\ k.at = "rejected"
     \/ l.at = "resume" /\ k.at = "unresumed"

\* Nothing changes about the loads but rejections, and loads that leave were of another
\* track, or waited only for a toggle.
Kept ==
  /\ \A k \in Range(loads') : \E l \in Range(loads) : Alike(l, k)
  /\ \A l \in Range(loads) : \/ l.track # current \/ l.at \in {"resume", "unresumed"}
                             \/ \E k \in Range(loads') : Alike(l, k)

\* Rejected loads are alike.
LEMMA RejectedKept ==
  ASSUME Valid(Now), NEW e, loads' = Reject(loads, e)
  PROVE  Kept /\ \A k \in Range(loads') : k.at \in {"play", "resume"} => k.el # e
<1>1. loads \in Seq(Load) /\ \A l \in Range(loads) : l \in Load
  BY NowParts
<1>2. Range(loads') = {Rejected(l, e) : l \in Range(loads)}
  BY <1>1, RejectRange
<1>3. \A l \in Range(loads) : /\ Alike(l, Rejected(l, e))
                              /\ Rejected(l, e).el = l.el
                              /\ Rejected(l, e).at \in {"play", "resume"} => l.el # e
  BY <1>1, RejectedIs DEF Alike
<1> QED
  BY <1>2, <1>3 DEF Kept

\* The same loads, or all but one that does not count.
LEMMA SameKept ==
  ASSUME \/ loads' = loads
         \/ \E n \in DOMAIN loads :
              /\ loads[n].track # current \/ loads[n].at \in {"resume", "unresumed"}
              /\ Range(loads') \subseteq Range(loads)
              /\ Range(loads) \subseteq Range(loads') \cup {loads[n]}
  PROVE  Kept
BY DEF Kept, Alike

\* Steps that tell the store nothing and leave the active element as it is.
LEMMA Undisturbed ==
  ASSUME Orderly, Kept, UNCHANGED <<current, isPlaying, error, active>>,
         el[Other(active)].paused => el'[Other(active)].paused,
         fadingOut \ {Other(active)} \subseteq fadingOut', fadingOut' \subseteq fadingOut,
         Other(active) \in fadingOut' \/ Other(active) \notin fadingOut
           \/ el'[Other(active)].paused,
         Is(el'[active], el[active].src, el[active].paused, el'[active].has, el[active].loud),
         el[active].has = "error" => el'[active].has = "error", active \in Elements,
         Swinging(events[active]) => Swinging(events'[active]),
         \A k \in Range(loads') : k.at \in {"resume", "unresumed"} => k.track # spareTrack'
  PROVE  Orderly'
<1> DEFINE ls == Range(loads)
           ls1 == Range(loads')
<1>1. /\ \A k \in ls1 : \E l \in ls : Alike(l, k)
      /\ \A l \in ls : \/ l.track # current \/ l.at \in {"resume", "unresumed"}
                       \/ \E k \in ls1 : Alike(l, k)
  BY DEF Kept
<1>2. Placed'
  <2>1. ASSUME NEW k \in ls1
        PROVE  /\ Main(k) /\ k.at # "retry" => k.el = active
               /\ k.at \in {"play", "resume"} => k.el = active
               /\ k.at = "play" /\ error # None => k.track = current
    <3>1. PICK l \in ls : Alike(l, k)
      BY <1>1
    <3> QED
      BY <3>1 DEF Orderly, Placed, Alike, Main
  <2> QED
    BY <2>1 DEF Placed, Main
<1>3. Loading => Loading'
  <2> SUFFICES ASSUME Loading PROVE Loading'
    OBVIOUS
  <2>1. PICK l \in ls : Main(l)
    BY DEF Loading
  <2>2. PICK k \in ls1 : Alike(l, k)
    BY <2>1, <1>1 DEF Main
  <2> QED
    BY <2>1, <2>2 DEF Loading, Main, Alike
<1>4. (\E l \in ls : Fresh(l)) => (\E l \in ls1 : Fresh(l)')
  <2> SUFFICES ASSUME NEW l \in ls, Fresh(l) PROVE \E k \in ls1 : Fresh(k)'
    OBVIOUS
  <2>1. PICK k \in ls1 : Alike(l, k)
    BY <1>1 DEF Fresh
  <2> QED
    BY <2>1 DEF Fresh, Alike
<1>5. \A k \in ls1 : k.at = "play" => \E l \in ls : l.at = "play" /\ l.track = k.track
  BY <1>1 DEF Alike
<1> HIDE DEF ls, ls1
<1>6. OtherSilent'
  BY TwoElements DEF Orderly, OtherSilent
<1>7. SrcRight' /\ Audible' /\ Down'
  BY <1>3 DEF Orderly, SrcRight, Audible, Down, Is
<1>8. active \in fadingOut <=> active \in fadingOut'
  BY TwoElements
<1>9. Up'
  BY <1>4, <1>5, <1>8 DEF Orderly, Up, Is, ls, ls1
<1>10. Spoken'
  BY <1>5, <1>8 DEF Orderly, Spoken, ls, ls1
<1>11. (\E k \in ls1 : Main(k)' /\ k.at = "ticket" /\ k.out # 0) =>
         (\E l \in ls : Main(l) /\ l.at = "ticket" /\ l.out # 0)
  BY <1>1 DEF Alike, Main, ls, ls1
<1>12. Swapped'
  BY <1>8, <1>11 DEF Orderly, Swapped, Is, ls, ls1
<1> QED
  BY <1>2, <1>6, <1>7, <1>9, <1>10, <1>12 DEF Orderly

\* The active element is paused and says so.
LEMMA PausedOrderly ==
  ASSUME Orderly, Kept, UNCHANGED <<current, isPlaying, error, active, spareTrack>>,
         active \in Elements,
         el'[Other(active)].paused = el[Other(active)].paused,
         fadingOut \ {active} \subseteq fadingOut',
         el'[active].src = el[active].src, el'[active].paused,
         el[active].paused \/ Swinging(events'[active]),
         Swinging(events[active]) => Swinging(events'[active]),
         \A k \in Range(loads') : k.at \in {"play", "resume"} => k.el # active
  PROVE  Orderly'
<1> DEFINE ls == Range(loads)
           ls1 == Range(loads')
<1>1. /\ \A k \in ls1 : \E l \in ls : Alike(l, k)
      /\ \A l \in ls : \/ l.track # current \/ l.at \in {"resume", "unresumed"}
                       \/ \E k \in ls1 : Alike(l, k)
  BY DEF Kept
<1>2. ASSUME NEW k \in ls1
      PROVE  /\ Main(k) /\ k.at # "retry" => k.el = active
             /\ k.at \notin {"play", "resume"}
             /\ k.at = "unresumed" => k.track # spareTrack
  <2>1. PICK l \in ls : Alike(l, k)
    BY <1>1
  <2> QED
    BY <2>1 DEF Orderly, Placed, Alike, Main
<1>3. Placed'
  BY <1>2 DEF Placed, Main
<1>4. Loading => Loading'
  <2> SUFFICES ASSUME Loading PROVE Loading'
    OBVIOUS
  <2>1. PICK l \in ls : Main(l)
    BY DEF Loading
  <2>2. PICK k \in ls1 : Alike(l, k)
    BY <2>1, <1>1 DEF Main
  <2> QED
    BY <2>1, <2>2 DEF Loading, Main, Alike
<1>5. Spoken'
  BY <1>2 DEF Spoken
<1> HIDE DEF ls, ls1
<1>6. OtherSilent'
  BY TwoElements DEF Orderly, OtherSilent
<1>7. SrcRight' /\ Audible' /\ Up' /\ Swapped' /\ Down'
  BY <1>4 DEF Orderly, SrcRight, Audible, Up, Swapped, Down
<1> QED
  BY <1>3, <1>5, <1>6, <1>7 DEF Orderly

------------------------------------------------------------------------------
\* The listener.

\* A choice.
LEMMA ChosenInv ==
  ASSUME PlaybackInv, NEW m, Valid(m), NEW t \in Tracks, NEW overlap \in BOOLEAN,
         Act, wants' \in BOOLEAN, isPlaying' \in BOOLEAN, Chosen(t),
         Start(m, t, 0, TRUE, FALSE, overlap),
         UNCHANGED <<preload, ticket, stall>>,
         \A e \in Elements : m.el[e].paused = el[e].paused \/ m.el[e].paused,
         Range(m.loads) = Range(loads),
         overlap /\ ~tangled => \A l \in Range(loads) : l.at \notin {"play", "resume"}
  PROVE  PlaybackInv'
<1>1. Plain /\ Valid(Now) /\ NextIsNot /\ PreloadSpare
  BY InvParts
<1>2. /\ Valid(Now)' /\ Len(loads') <= MaxLoads
      /\ active' \in Elements /\ spareTrack' \in {None, spareTrack}
      /\ fadingOut' \subseteq Elements
      /\ spareTrack # t => active' = active
      /\ spareTrack = t => spareTrack' = None
  <2>1. 0 \in 0..MaxRetries
    BY Bounds
  <2>2. /\ Valid(Now)' /\ Len(loads') <= MaxLoads
        /\ active' \in Elements /\ spareTrack' \in {None, spareTrack}
        /\ fadingOut' \subseteq Elements
        /\ spareTrack # t => Stays(m, t, 0, TRUE)
        /\ spareTrack = t => Swaps(m, t, 0, TRUE, overlap)
    BY <1>1, <2>1, StartKeeps
  <2> QED
    BY <2>2 DEF Stays, Swaps
<1>3. Plain'
  <2>1. tangled' \in BOOLEAN
    BY <1>1 DEF Chosen, Plain, Again
  <2> QED
    BY <1>1, <1>2, <2>1, Counted DEF Plain, Chosen, stall, None
<1>4. NextIsNot' /\ PreloadSpare'
  BY <1>1, <1>2, Bounds DEF NextIsNot, PreloadSpare, Chosen
<1>5. ~tangled' => Orderly'
  BY ChosenOrderly
<1> QED
  BY <1>2, <1>3, <1>4, <1>5 DEF PlaybackInv, Valued

\* The listener chooses.
LEMMA ChooseInv ==
  ASSUME PlaybackInv, NEW t \in Tracks, Choose(t)
  PROVE  PlaybackInv'
<1>1. PICK silent \in BOOLEAN :
        Start(WithVolume(Now, active, el[active].loud /\ ~silent), t, 0, TRUE, FALSE, FALSE)
  BY DEF Choose
<1> DEFINE on == el[active].loud /\ ~silent
           m == WithVolume(Now, active, on)
<1>2. /\ Valid(m) /\ Is(m.el[active], el[active].src, el[active].paused, el[active].has, on)
      /\ m.el[Other(active)] = el[Other(active)] /\ m.loads = loads
  <2>1. on \in BOOLEAN
    OBVIOUS
  <2> HIDE DEF on
  <2> QED
    BY <2>1, InvParts, NowIs, VolumeKeeps
<1> HIDE DEF m
<1>3. \A e \in Elements : m.el[e].paused = el[e].paused
  BY <1>2, InvParts DEF Is
<1>4. Start(m, t, 0, TRUE, FALSE, FALSE)
  BY <1>1 DEF m
<1>5. /\ Act /\ wants' \in BOOLEAN /\ isPlaying' \in BOOLEAN /\ Chosen(t)
      /\ UNCHANGED <<preload, ticket, stall>>
  BY InvParts DEF Choose, Plain
<1> QED
  BY <1>2, <1>3, <1>4, <1>5, ChosenInv

\* Well into the track nobody waits for the element and its events have been heard, so its
\* end rejects nothing and contradicts nothing.
LEMMA EndedKeeps ==
  ASSUME Valid(Now), active \in Elements, Along
  PROVE  LET w == [Now EXCEPT !.el[active].paused = TRUE] IN
         /\ Valid(w) /\ w.loads = loads
         /\ \A e \in Elements : w.el[e].paused \/ w.el[e] = el[e]
<1> DEFINE w == [Now EXCEPT !.el[active].paused = TRUE]
           x == [el[active] EXCEPT !.paused = TRUE]
<1>1. /\ el \in [Elements -> Element] /\ events \in [Elements -> Seq(Messages)]
      /\ loads \in Seq(Load) /\ Tells(events[active], el[active])
      /\ el[active] \in Element /\ events[active] \in Seq(Messages)
      /\ \A n \in DOMAIN loads : loads[n] \in Load /\ Waits(loads[n], el)
  BY NowParts
<1>2. x \in Element /\ x.paused /\ x.has = el[active].has /\ x.src = el[active].src
  BY <1>1 DEF Element
<1>3. Tells(events[active], x)
  BY DEF Along, Tells
<1>4. /\ w.el = [el EXCEPT ![active] = x] /\ w.events = events
      /\ w.loads = loads /\ w = [el |-> w.el, events |-> w.events, loads |-> w.loads]
  <2>1. w = [Now EXCEPT !.el[active].paused = TRUE]
    OBVIOUS
  <2> HIDE DEF w
  <2> QED
    BY <2>1, <1>1, NowIs
<1> HIDE DEF w, x
<1>6. /\ w.el \in [Elements -> Element] /\ w.events \in [Elements -> Seq(Messages)]
      /\ w.el[active] = x /\ w.events[active] = events[active]
      /\ w.el[Other(active)] = el[Other(active)]
      /\ w.events[Other(active)] = events[Other(active)]
  BY <1>1, <1>2, <1>4, TwoElements
<1>7. w \in States
  BY <1>1, <1>4, <1>6 DEF States
<1>8. ASSUME NEW n \in DOMAIN loads
      PROVE  Waits(loads[n], w.el)
  <2>1. /\ loads[n] \in Load /\ Waits(loads[n], el)
        /\ loads[n].el # active \/ loads[n].at \notin {"play", "resume"}
    BY <1>1 DEF Along
  <2>2. loads[n].el \in Elements
    BY <2>1 DEF Load
  <2>3. CASE loads[n].el = active
    BY <2>1, <2>3 DEF Waits
  <2>4. CASE loads[n].el = Other(active)
    BY <2>1, <2>4, <1>6 DEF Waits
  <2> QED
    BY <2>2, <2>3, <2>4, TwoElements
<1>9. /\ w.el[Other(active)] = Now.el[Other(active)]
      /\ w.events[Other(active)] = Now.events[Other(active)]
      /\ Tells(w.events[active], w.el[active])
      /\ \A n \in DOMAIN w.loads : Waits(w.loads[n], w.el)
  BY <1>3, <1>4, <1>6, <1>8, NowIs
<1>10. Valid(w)
  BY <1>7, <1>9, ElementKeeps
<1>11. \A e \in Elements : w.el[e].paused \/ w.el[e] = el[e]
  BY <1>2, <1>6, TwoElements
<1> QED
  BY <1>4, <1>10, <1>11 DEF w

\* The track ends.
LEMMA EndsInv ==
  ASSUME PlaybackInv, NEW t \in Tracks, Ends(t)
  PROVE  PlaybackInv'
<1>1. /\ Act /\ wants' = wants /\ Chosen(t) /\ UNCHANGED <<preload, ticket, stall>>
      /\ Along /\ isPlaying' \in {isPlaying, FALSE}
  BY DEF Ends
<1>2. Plain /\ Valid(Now) /\ active \in Elements
  BY InvParts
<1>3. wants' \in BOOLEAN /\ isPlaying' \in BOOLEAN
  BY <1>1, <1>2 DEF Plain
<1>4. CASE Start(Now, t, 0, TRUE, FALSE, TRUE)
  <2>1. ASSUME ~tangled
        PROVE  \A l \in Range(loads) : l.at \notin {"play", "resume"}
    BY <2>1, <1>1, InvParts DEF Along, Range, Orderly, Placed
  <2> QED
    BY <2>1, <1>1, <1>2, <1>3, <1>4, NowIs, ChosenInv
<1>5. CASE Start([Now EXCEPT !.el[active].paused = TRUE], t, 0, TRUE, FALSE, FALSE)
  <2> DEFINE m == [Now EXCEPT !.el[active].paused = TRUE]
  <2>1. Valid(m) /\ m.loads = loads /\ \A e \in Elements : m.el[e].paused \/ m.el[e] = el[e]
    BY <1>1, <1>2, EndedKeeps
  <2>2. Start(m, t, 0, TRUE, FALSE, FALSE)
    BY <1>5
  <2> HIDE DEF m
  <2>3. \A e \in Elements : m.el[e].paused = el[e].paused \/ m.el[e].paused
    BY <2>1
  <2> QED
    BY <2>1, <2>2, <2>3, <1>1, <1>3, ChosenInv
<1>6. \/ Start(Now, t, 0, TRUE, FALSE, TRUE)
      \/ Start([Now EXCEPT !.el[active].paused = TRUE], t, 0, TRUE, FALSE, FALSE)
  BY DEF Ends
<1> QED
  BY <1>4, <1>5, <1>6

\* The listener pauses.
LEMMA PauseInv ==
  ASSUME PlaybackInv, Pause
  PROVE  PlaybackInv'
<1>1. /\ Becomes(WithPause(Now, active)) /\ Act /\ wants' = FALSE
      /\ UNCHANGED <<current, isPlaying, isLoading, error, active, spareTrack, preload,
                     ticket, fadingOut, recoveries, stalled, stallTimer, tangled>>
  BY DEF Pause, store, engine, stall
<1>2. Plain /\ Valid(Now) /\ active \in Elements
  BY InvParts
<1> DEFINE w == WithPause(Now, active)
<1>3. /\ Valid(w) /\ Is(w.el[active], el[active].src, TRUE, el[active].has, el[active].loud)
      /\ ~el[active].paused => Swinging(w.events[active])
      /\ Swinging(events[active]) => Swinging(w.events[active])
      /\ w.el[Other(active)] = el[Other(active)] /\ w.loads = Reject(loads, active)
  BY <1>2, NowIs, PauseKeeps
<1>4. /\ Valid(Now)' /\ el' = w.el /\ events' = w.events /\ loads' = w.loads
  BY <1>1, <1>3, BecomesKeeps
<1> HIDE DEF w
<1>5. Len(loads') = Len(loads)
  BY <1>2, <1>3, <1>4, NowParts, RejectIsSeq
<1>6. Plain'
  BY <1>1, <1>2, <1>5, Counted DEF Plain
<1>7. NextIsNot' /\ PreloadSpare'
  BY <1>1, InvParts DEF NextIsNot, PreloadSpare
<1>8. ASSUME ~tangled' PROVE Orderly'
  <2>1. Kept /\ \A k \in Range(loads') : k.at \in {"play", "resume"} => k.el # active
    BY <1>2, <1>3, <1>4, RejectedKept
  <2>2. Orderly
    BY <1>1, <1>8, InvParts
  <2> QED
    BY <2>1, <2>2, <1>1, <1>2, <1>3, <1>4, PausedOrderly DEF Is
<1> QED
  BY <1>4, <1>6, <1>7, <1>8 DEF PlaybackInv, Valued

\* The listener resumes: the element plays and says so, and a toggle waits for it.
LEMMA ResumeInv ==
  ASSUME PlaybackInv, Resume
  PROVE  PlaybackInv'
<1> DEFINE loud == WithVolume(Now, active, TRUE)
           m == WithPlay(loud, active)
           l == [track |-> current, attempt |-> 0, el |-> active, out |-> 0, auto |-> TRUE,
                 at |-> Promised(Now, active, "resume", "unresumed")]
           w == WithLoad(m, l)
<1>1. /\ Becomes(w) /\ Act /\ wants' = TRUE /\ current # None /\ ~isPlaying
      /\ Len(loads) < MaxLoads
      /\ UNCHANGED <<current, isPlaying, isLoading, error, active, spareTrack, preload,
                     ticket, fadingOut, recoveries, stalled, stallTimer, tangled>>
  BY DEF Resume, store, engine, stall
<1>2. Plain /\ Valid(Now) /\ active \in Elements /\ current \in Tracks
  BY <1>1, InvParts DEF Plain
<1>3. /\ Valid(loud)
      /\ Is(loud.el[active], el[active].src, el[active].paused, el[active].has, TRUE)
      /\ loud.el[Other(active)] = el[Other(active)]
      /\ loud.events = events /\ loud.loads = loads
  BY <1>2, NowIs, VolumeKeeps
<1> HIDE DEF loud
<1>4. /\ Valid(m)
      /\ Is(m.el[active], el[active].src, el[active].paused /\ el[active].has = "error",
            el[active].has, TRUE)
      /\ el[active].paused /\ el[active].has # "error" => Swinging(m.events[active])
      /\ Swinging(events[active]) => Swinging(m.events[active])
      /\ m.el[Other(active)] = el[Other(active)] /\ m.loads = loads
  BY <1>2, <1>3, PlayKeeps DEF Is
<1> HIDE DEF m
<1>5. /\ l \in Load /\ Waits(l, m.el)
      /\ l.track = current /\ l.at \in {"resume", "unresumed"} /\ l.el = active
  <2>1. /\ l.at = IF el[active].has = "error" THEN "unresumed" ELSE "resume"
        /\ l.track = current /\ l.attempt = 0 /\ l.el = active /\ l.out = 0 /\ l.auto = TRUE
    BY NowIs DEF Promised
  <2>2. l \in [track : Tracks, attempt : 0..MaxRetries, el : Elements,
               out : Elements \cup {0}, auto : BOOLEAN, at : Awaits]
    <3>1. Promised(Now, active, "resume", "unresumed") \in Awaits
      BY DEF Promised, Awaits
    <3> QED
      BY <3>1, <1>2, Bounds
  <2> HIDE DEF l
  <2>3. Waits(l, m.el)
    BY <2>1, <1>4 DEF Waits, Is
  <2> QED
    BY <2>1, <2>2, <2>3 DEF Load
<1> HIDE DEF l
<1>6. /\ Valid(w) /\ w.el = m.el /\ w.events = m.events
      /\ Len(w.loads) = Len(m.loads) + 1 /\ Range(w.loads) = Range(m.loads) \cup {l}
  BY <1>4, <1>5, LoadKeeps
<1>7. /\ Valid(Now)' /\ el' = w.el /\ events' = w.events /\ loads' = w.loads
  BY <1>1, <1>6, BecomesKeeps
<1> HIDE DEF w
<1>8. Len(loads') <= MaxLoads
  BY <1>1, <1>2, <1>4, <1>6, <1>7, NowParts, Bounds
<1>9. Plain'
  BY <1>1, <1>2, <1>8, Counted DEF Plain
<1>10. NextIsNot' /\ PreloadSpare'
  BY <1>1, InvParts DEF NextIsNot, PreloadSpare
<1>11. ASSUME ~tangled' PROVE Orderly'
  <2> DEFINE ls == Range(loads)
             ls1 == Range(loads')
  <2>1. Orderly /\ NextIsNot
    BY <1>1, <1>11, InvParts
  <2>2. ls1 = ls \cup {l}
    BY <1>4, <1>6, <1>7
  <2>3. l.track # spareTrack
    BY <2>1, <1>2, <1>5, Bounds DEF NextIsNot
  <2>4. Loading => Loading'
    BY <2>2, <1>1 DEF Loading, Main
  <2>5. (\E k \in ls : Fresh(k)) => (\E k \in ls1 : Fresh(k)')
    BY <2>2, <1>1 DEF Fresh
  <2>6. /\ el'[active].src = el[active].src /\ el'[active].loud
        /\ el'[active].paused => el[active].paused /\ el[active].has = "error"
        /\ ~el'[active].paused => ~el[active].paused \/ Swinging(events'[active])
        /\ Swinging(events[active]) => Swinging(events'[active])
        /\ el'[Other(active)] = el[Other(active)] /\ el'[active].has = el[active].has
    BY <1>4, <1>6, <1>7 DEF Is
  <2> HIDE DEF ls, ls1
  <2>7. Placed'
    BY <2>1, <2>2, <2>3, <1>1, <1>5 DEF Orderly, Placed, Main, ls, ls1
  <2>8. OtherSilent' /\ SrcRight' /\ Audible' /\ Down'
    BY <2>1, <2>4, <2>6, <1>1 DEF Orderly, OtherSilent, SrcRight, Audible, Down
  <2>9. \A k \in ls1 : k.at = "play" => k \in ls
    BY <2>2, <1>5
  <2>10. Up'
    <3>1. (\A k \in ls : k.at # "play") => (\A k \in ls1 : k.at # "play")
      BY <2>9
    <3> QED
      BY <2>1, <2>5, <2>6, <3>1, <1>1 DEF Orderly, Up, ls, ls1
  <2>11. Spoken'
    BY <2>1, <2>6, <2>9, <1>1 DEF Orderly, Spoken, ls, ls1
  <2>12. (\E k \in ls1 : Main(k)' /\ k.at = "ticket" /\ k.out # 0) =>
           (\E k \in ls : Main(k) /\ k.at = "ticket" /\ k.out # 0)
    BY <2>2, <1>1, <1>5 DEF Main
  <2>13. Swapped'
    BY <2>1, <2>6, <2>12, <1>1 DEF Orderly, Swapped, ls, ls1
  <2> QED
    BY <2>7, <2>8, <2>10, <2>11, <2>13 DEF Orderly
<1> QED
  BY <1>7, <1>9, <1>10, <1>11 DEF PlaybackInv, Valued

\* A toggle's play() goes through.
LEMMA ResumedInv ==
  ASSUME PlaybackInv, NEW n \in DOMAIN loads, Resumed(n)
  PROVE  PlaybackInv'
<1> DEFINE w == Without(Now, n)
<1>1. /\ Becomes(w) /\ loads[n].at = "resume"
      /\ UNCHANGED <<current, isPlaying, isLoading, error, active, spareTrack, preload,
                     ticket, fadingOut, recoveries, stalled, stallTimer, tangled, wants,
                     ops, faults>>
  BY DEF Resumed, store, engine, rest, stall, bounds
<1>2. Plain /\ Valid(Now) /\ active \in Elements
  BY InvParts
<1>3. /\ Valid(w) /\ w.el = el /\ w.events = events
      /\ Len(w.loads) = Len(loads) - 1
      /\ Range(w.loads) \subseteq Range(loads)
      /\ Range(loads) \subseteq Range(w.loads) \cup {loads[n]}
  BY <1>2, NowIs, WithoutKeeps
<1>4. Valid(Now)' /\ el' = el /\ events' = events /\ loads' = w.loads
  BY <1>1, <1>3, BecomesKeeps
<1> HIDE DEF w
<1>5. Len(loads') <= MaxLoads
  BY <1>2, <1>3, <1>4, NowParts, Bounds DEF Plain
<1>6. Plain'
  BY <1>1, <1>2, <1>5 DEF Plain
<1>7. NextIsNot' /\ PreloadSpare'
  BY <1>1, InvParts DEF NextIsNot, PreloadSpare
<1>8. ASSUME ~tangled' PROVE Orderly'
  <2>1. Kept
    BY <1>1, <1>3, <1>4, SameKept
  <2>2. Orderly
    BY <1>1, <1>8, InvParts
  <2>3. \A k \in Range(loads') : k.at \in {"resume", "unresumed"} => k.track # spareTrack'
    BY <2>2, <1>1, <1>3, <1>4 DEF Orderly, Placed
  <2> QED
    BY <2>1, <2>2, <2>3, <1>1, <1>2, <1>4, Undisturbed DEF Is
<1> QED
  BY <1>4, <1>6, <1>7, <1>8 DEF PlaybackInv, Valued

------------------------------------------------------------------------------
\* Events.

\* What every event leaves: the element and the loads.
LEMMA EventKeeps ==
  ASSUME PlaybackInv, NEW e \in Elements, events[e] # <<>>, Becomes(Told(e))
  PROVE  /\ Valid(Now)' /\ el' = el /\ loads' = loads
         /\ events'[Other(e)] = events[Other(e)]
         /\ Head(events[e]) \notin Swings => (Swinging(events'[e]) <=> Swinging(events[e]))
         /\ Head(events[e]) \in Swings /\ ~Swinging(events'[e]) =>
              (Head(events[e]) = "play" <=> ~el[e].paused)
<1> DEFINE w == Told(e)
<1>1. /\ Valid(w) /\ w.el = el /\ w.loads = loads
      /\ w.events[Other(e)] = events[Other(e)]
      /\ Head(events[e]) \notin Swings => (Swinging(w.events[e]) <=> Swinging(events[e]))
      /\ Head(events[e]) \in Swings /\ ~Swinging(w.events[e]) =>
           (Head(events[e]) = "play" <=> ~el[e].paused)
  BY InvParts, ToldKeeps
<1>2. Becomes(w)
  OBVIOUS
<1> HIDE DEF w
<1> QED
  BY <1>1, <1>2, BecomesKeeps

\* Steps after which the store and the loads are as before.
LEMMA SameOrderly ==
  ASSUME PlaybackInv, ~tangled,
         UNCHANGED <<current, isPlaying, error, active, spareTrack, fadingOut, loads>>,
         el'[Other(active)].paused = el[Other(active)].paused,
         Is(el'[active], el[active].src, el[active].paused, el'[active].has, el[active].loud),
         el[active].has = "error" => el'[active].has = "error",
         Swinging(events[active]) => Swinging(events'[active])
  PROVE  Orderly'
<1>1. Orderly /\ active \in Elements
  BY InvParts
<1>2. Kept
  BY SameKept
<1>3. \A k \in Range(loads') : k.at \in {"resume", "unresumed"} => k.track # spareTrack'
  BY <1>1 DEF Orderly, Placed
<1> QED
  BY <1>1, <1>2, <1>3, Undisturbed

\* The spare speaks.
LEMMA HandleSpareInv ==
  ASSUME PlaybackInv, NEW e \in Elements, HandleSpare(e)
  PROVE  PlaybackInv'
<1>1. /\ Becomes(Told(e)) /\ events[e] # <<>> /\ e # active
      /\ UNCHANGED <<current, isPlaying, isLoading, error, active, spareTrack, preload,
                     ticket, fadingOut, recoveries, stalled, stallTimer, tangled, wants,
                     ops, faults>>
  BY DEF HandleSpare, store, engine, rest, stall, bounds
<1>2. /\ Valid(Now)' /\ el' = el /\ loads' = loads /\ events'[Other(e)] = events[Other(e)]
  BY <1>1, EventKeeps
<1>3. /\ Plain /\ active = Other(e)
  BY <1>1, InvParts, TwoElements
<1>4. Plain' /\ NextIsNot' /\ PreloadSpare'
  BY <1>1, <1>2, <1>3, InvParts DEF Plain, NextIsNot, PreloadSpare
<1>5. ASSUME ~tangled' PROVE Orderly'
  BY <1>1, <1>2, <1>3, <1>5, SameOrderly DEF Is
<1> QED
  BY <1>2, <1>4, <1>5 DEF PlaybackInv, Valued

\* "playing" and "waiting" move the stall timer only.
LEMMA OnPlayingInv ==
  ASSUME PlaybackInv, OnPlaying \/ OnWaiting
  PROVE  PlaybackInv'
<1>1. /\ Becomes(Told(active)) /\ events[active] # <<>>
      /\ Head(events[active]) \in {"playing", "waiting"}
      /\ UNCHANGED <<current, isPlaying, isLoading, error, active, spareTrack, preload,
                     ticket, fadingOut, recoveries, tangled, wants, ops, faults>>
  BY DEF OnPlaying, OnWaiting, Hears, store, engine, bounds
<1>2. Plain /\ active \in Elements
  BY InvParts
<1>3. stalled' \in BOOLEAN /\ stallTimer' \in Elements \cup {0}
  BY <1>2 DEF OnPlaying, OnWaiting, Plain
<1>4. /\ Valid(Now)' /\ el' = el /\ loads' = loads
      /\ Swinging(events[active]) => Swinging(events'[active])
  BY <1>1, <1>2, EventKeeps DEF Swings
<1>5. Plain' /\ NextIsNot' /\ PreloadSpare'
  BY <1>1, <1>2, <1>3, <1>4, InvParts DEF Plain, NextIsNot, PreloadSpare
<1>6. ASSUME ~tangled' PROVE Orderly'
  BY <1>1, <1>4, <1>6, SameOrderly DEF Is
<1> QED
  BY <1>4, <1>5, <1>6 DEF PlaybackInv, Valued

\* "play" and "pause" move the button: the last of them told is what the element does.
LEMMA OnSwingInv ==
  ASSUME PlaybackInv, OnPlay \/ OnPause
  PROVE  PlaybackInv'
<1> DEFINE said == Head(events[active])
<1>1. /\ Becomes(Told(active)) /\ events[active] # <<>>
      /\ said \in {"play", "pause"} /\ isPlaying' = (said = "play") /\ isLoading' \in BOOLEAN
      /\ UNCHANGED <<current, error, active, spareTrack, preload, ticket, fadingOut,
                     recoveries, stalled, stallTimer, tangled, wants, ops, faults>>
  BY InvParts DEF Plain, OnPlay, OnPause, Hears, store, engine, rest, stall, bounds
<1>2. Plain /\ active \in Elements
  BY InvParts
<1>3. /\ Valid(Now)' /\ el' = el /\ loads' = loads
      /\ Swinging(events'[active]) \/ (isPlaying' <=> ~el[active].paused)
  BY <1>1, <1>2, EventKeeps DEF Swings
<1>4. Plain' /\ NextIsNot' /\ PreloadSpare'
  BY <1>1, <1>2, <1>3, InvParts DEF Plain, NextIsNot, PreloadSpare
<1>5. ASSUME ~tangled' PROVE Orderly'
  <2>1. Orderly
    BY <1>1, <1>5, InvParts
  <2>2. Placed' /\ OtherSilent' /\ SrcRight' /\ Audible'
    BY <2>1, <1>1, <1>3 DEF Orderly, Placed, OtherSilent, SrcRight, Audible, Main, Loading
  <2>3. Up' /\ Swapped' /\ Down'
    BY <1>1, <1>3 DEF Up, Swapped, Down
  <2>4. Spoken'
    <3> SUFFICES ASSUME NEW l \in Range(loads), l.track = current, l.at = "play"
                 PROVE  Swinging(events'[active]) \/ isPlaying'
      BY <1>1, <1>3 DEF Spoken
    <3>1. l.el = active /\ ~el[active].paused
      BY <2>1, InvParts DEF Orderly, Placed, Waits
    <3> QED
      BY <3>1, <1>3
  <2> QED
    BY <2>1, <2>2, <2>3, <2>4 DEF Orderly
<1> QED
  BY <1>3, <1>4, <1>5 DEF PlaybackInv, Valued

------------------------------------------------------------------------------
\* The network.

\* An element is replaced in the state, and tells so or not.
LEMMA PutKeeps ==
  ASSUME Valid(Now), NEW e \in Elements, NEW x \in Element, NEW q \in Seq(Messages),
         Tells(q, x), el' = [el EXCEPT ![e] = x], events' = [events EXCEPT ![e] = q],
         loads' \in Seq(Load), \A n \in DOMAIN loads' : Waits(loads'[n], el')
  PROVE  /\ Valid(Now)'
         /\ el'[e] = x /\ el'[Other(e)] = el[Other(e)]
         /\ events'[e] = q /\ events'[Other(e)] = events[Other(e)]
<1>1. el \in [Elements -> Element] /\ events \in [Elements -> Seq(Messages)]
  BY NowParts
<1>2. /\ el' \in [Elements -> Element] /\ events' \in [Elements -> Seq(Messages)]
      /\ el'[e] = x /\ el'[Other(e)] = el[Other(e)]
      /\ events'[e] = q /\ events'[Other(e)] = events[Other(e)]
  BY <1>1, TwoElements
<1> DEFINE w == [el |-> el', events |-> events', loads |-> loads']
<1>3. w \in States /\ w.el = el' /\ w.events = events' /\ w.loads = loads'
  BY <1>2 DEF States
<1>4. Now' = w
  BY DEF Now
<1> HIDE DEF w
<1>5. w.el[Other(e)] = Now.el[Other(e)] /\ w.events[Other(e)] = Now.events[Other(e)]
  BY <1>2, <1>3, NowIs
<1>6. Tells(w.events[e], w.el[e])
  BY <1>2, <1>3
<1>7. \A n \in DOMAIN w.loads : Waits(w.loads[n], w.el)
  BY <1>3
<1>8. Valid(w)
  BY <1>3, <1>5, <1>6, <1>7, ElementKeeps
<1> QED
  BY <1>2, <1>4, <1>8

\* Data or the lack of it, with nobody's promise at stake.
LEMMA DataInv ==
  ASSUME PlaybackInv, NEW e \in Elements, DataArrives(e) \/ Underrun(e)
  PROVE  PlaybackInv'
<1>1. Plain /\ Valid(Now) /\ active \in Elements
  BY InvParts
<1>2. /\ el \in [Elements -> Element] /\ events \in [Elements -> Seq(Messages)]
      /\ el[e] \in Element /\ events[e] \in Seq(Messages) /\ Tells(events[e], el[e])
      /\ loads \in Seq(Load)
      /\ \A n \in DOMAIN loads : /\ loads[n] \in Load /\ Waits(loads[n], el)
  BY <1>1, NowParts
<1>3. PICK g \in {"nothing", "data"}, v \in {"playing", "waiting"} :
        /\ el' = [el EXCEPT ![e].has = g] /\ loads' = loads /\ el[e].has # "error"
        /\ events' = events \/ events' = [events EXCEPT ![e] = Append(events[e], v)]
        /\ UNCHANGED <<current, isPlaying, isLoading, error, active, spareTrack, preload,
                       ticket, fadingOut, recoveries, stalled, stallTimer, tangled, wants>>
        /\ ops' \in 0..MaxOps /\ faults' \in 0..MaxFaults
  <2>1. CASE DataArrives(e)
    BY <2>1, <1>1, <1>2 DEF DataArrives, store, engine, rest, stall, bounds, Plain
  <2>2. CASE Underrun(e)
    BY <2>2, <1>1, <1>2, Counted DEF Underrun, Sounds, store, engine, stall
  <2> QED
    BY <2>1, <2>2
<1> DEFINE x == [el[e] EXCEPT !.has = g]
<1>4. /\ x \in Element /\ x.paused = el[e].paused
      /\ Is(x, el[e].src, el[e].paused, g, el[e].loud) /\ el' = [el EXCEPT ![e] = x]
  BY <1>2, <1>3 DEF Element, Is
<1>5. PICK p \in Seq(Messages) :
        /\ Tells(p, x) /\ events' = [events EXCEPT ![e] = p]
        /\ Swinging(events[e]) => Swinging(p)
  <2>1. v \in Messages /\ v \notin Swings /\ v # "error"
    BY DEF Messages, Swings
  <2>2. CASE events' = events
    <3>1. Tells(events[e], x)
      BY <1>2, <1>3, <1>4 DEF Tells
    <3> QED
      BY <2>2, <3>1, <1>2
  <2>3. CASE events' = [events EXCEPT ![e] = Append(events[e], v)]
    <3> HIDE DEF x
    <3>1. Append(events[e], v) \in Seq(Messages) /\ Tells(Append(events[e], v), x)
          /\ (Swinging(events[e]) => Swinging(Append(events[e], v)))
      BY <2>1, <1>2, <1>3, <1>4, ToldLast
    <3> QED
      BY <2>3, <3>1
  <2> QED
    BY <2>2, <2>3, <1>3
<1>6. loads' \in Seq(Load) /\ \A n \in DOMAIN loads' : Waits(loads'[n], el')
  <2> SUFFICES ASSUME NEW n \in DOMAIN loads
               PROVE  Waits(loads[n], el')
    BY <1>2, <1>3
  <2>1. loads[n] \in Load /\ Waits(loads[n], el) /\ loads[n].el \in Elements
    BY <1>2 DEF Load
  <2>2. \A f \in Elements : /\ el'[f].paused = el[f].paused /\ el'[f].src = el[f].src
                            /\ el[f].has # "error" => el'[f].has # "error"
    BY <1>2, <1>3
  <2> QED
    BY <2>1, <2>2 DEF Waits
<1>7. /\ Valid(Now)' /\ Is(el'[e], el[e].src, el[e].paused, g, el[e].loud)
      /\ el'[Other(e)] = el[Other(e)]
      /\ events'[e] = p /\ events'[Other(e)] = events[Other(e)]
  <2> HIDE DEF x
  <2> QED
    BY <1>1, <1>4, <1>5, <1>6, PutKeeps
<1>8. Plain' /\ NextIsNot' /\ PreloadSpare'
  BY <1>1, <1>3, InvParts DEF Plain, NextIsNot, PreloadSpare
<1>9. ASSUME ~tangled' PROVE Orderly'
  <2>1. \A f \in Elements : /\ Is(el'[f], el[f].src, el[f].paused, el'[f].has, el[f].loud)
                            /\ el[f].has = "error" => el'[f].has = "error"
    BY <1>3, <1>7, TwoElements DEF Is
  <2>2. \A f \in Elements : Swinging(events[f]) => Swinging(events'[f])
    BY <1>5, <1>7, TwoElements
  <2> QED
    BY <2>1, <2>2, <1>3, <1>9, InvParts, SameOrderly DEF Is
<1> QED
  BY <1>7, <1>8, <1>9 DEF PlaybackInv, Valued

\* The element fails, and whoever waits for it is rejected.
LEMMA MediaFailsInv ==
  ASSUME PlaybackInv, NEW e \in Elements, MediaFails(e)
  PROVE  PlaybackInv'
<1> DEFINE x == [el[e] EXCEPT !.has = "error"]
           q == Append(events[e], "error")
<1>1. Plain /\ Valid(Now) /\ active \in Elements
  BY InvParts
<1>2. /\ el \in [Elements -> Element] /\ events \in [Elements -> Seq(Messages)]
      /\ el[e] \in Element /\ events[e] \in Seq(Messages) /\ Tells(events[e], el[e])
      /\ loads \in Seq(Load)
      /\ \A n \in DOMAIN loads : /\ loads[n] \in Load /\ Waits(loads[n], el)
  BY <1>1, NowParts
<1>3. /\ el' = [el EXCEPT ![e].has = "error"] /\ events' = [events EXCEPT ![e] = q]
      /\ loads' = Reject(loads, e)
      /\ UNCHANGED <<current, isPlaying, isLoading, error, active, spareTrack, preload,
                     ticket, fadingOut, recoveries, stalled, stallTimer, tangled, wants>>
      /\ ops' \in 0..MaxOps /\ faults' \in 0..MaxFaults
  BY <1>1, <1>2, Counted DEF MediaFails, store, engine, stall
<1>4. /\ x \in Element /\ x.paused = el[e].paused /\ x.has = "error"
      /\ Is(x, el[e].src, el[e].paused, "error", el[e].loud) /\ el' = [el EXCEPT ![e] = x]
  BY <1>2, <1>3 DEF Element, Is
<1> HIDE DEF x
<1>5. q \in Seq(Messages) /\ Tells(q, x) /\ (Swinging(events[e]) => Swinging(q))
  <2>1. "error" \in Messages /\ "error" \notin Swings
    BY DEF Messages, Swings
  <2> QED
    BY <2>1, <1>2, <1>4, ToldLast
<1> HIDE DEF q
<1>6. /\ loads' \in Seq(Load) /\ Len(loads') = Len(loads) /\ DOMAIN loads' = DOMAIN loads
      /\ \A n \in DOMAIN loads : loads'[n] = Rejected(loads[n], e)
  BY <1>2, <1>3, RejectIsSeq
<1>7. ASSUME NEW n \in DOMAIN loads
      PROVE  Waits(loads'[n], el')
  <2>1. /\ loads[n] \in Load /\ Waits(loads[n], el) /\ loads[n].el \in Elements
        /\ loads'[n] = Rejected(loads[n], e)
    BY <1>2, <1>6 DEF Load
  <2>2. CASE loads[n].el = e
    BY <2>1, <2>2, RejectedIs DEF Waits
  <2>3. CASE loads[n].el # e
    <3>1. el'[loads[n].el] = el[loads[n].el]
      BY <2>1, <2>3, <1>2, <1>3
    <3> QED
      BY <2>1, <2>3, <3>1, RejectedIs DEF Waits
  <2> QED
    BY <2>2, <2>3
<1>8. /\ Valid(Now)' /\ Is(el'[e], el[e].src, el[e].paused, "error", el[e].loud)
      /\ el'[Other(e)] = el[Other(e)]
      /\ events'[e] = q /\ events'[Other(e)] = events[Other(e)]
  <2>1. \A n \in DOMAIN loads' : Waits(loads'[n], el')
    BY <1>6, <1>7
  <2>2. events' = [events EXCEPT ![e] = q]
    BY <1>3
  <2> QED
    BY <2>1, <2>2, <1>1, <1>4, <1>5, <1>6, PutKeeps
<1>9. Plain' /\ NextIsNot' /\ PreloadSpare'
  BY <1>1, <1>3, <1>6, InvParts DEF Plain, NextIsNot, PreloadSpare
<1>10. ASSUME ~tangled' PROVE Orderly'
  <2>1. \A f \in Elements : /\ Is(el'[f], el[f].src, el[f].paused, el'[f].has, el[f].loud)
                            /\ el[f].has = "error" => el'[f].has = "error"
    BY <1>8, TwoElements DEF Is
  <2>2. \A f \in Elements : Swinging(events[f]) => Swinging(events'[f])
    BY <1>5, <1>8, TwoElements
  <2>3. Orderly
    BY <1>3, <1>10, InvParts
  <2>4. Kept
    BY <1>1, <1>3, RejectedKept
  <2>5. \A k \in Range(loads') : k.at \in {"resume", "unresumed"} => k.track # spareTrack'
    BY <2>3, <2>4, <1>3 DEF Kept, Alike, Orderly, Placed
  <2> QED
    BY <2>1, <2>2, <2>3, <2>4, <2>5, <1>3, InvParts, Undisturbed DEF Is
<1> QED
  BY <1>8, <1>9, <1>10 DEF PlaybackInv, Valued

------------------------------------------------------------------------------
\* The spare.

\* What is fetched ahead; nobody waits for the element by then.
LEMMA PreloadNextInv ==
  ASSUME PlaybackInv, NEW t \in Tracks, PreloadNext(t)
  PROVE  PlaybackInv'
<1>1. /\ Along /\ Settled /\ t # current /\ spareTrack' = t
      /\ preload' = [track |-> t, el |-> Other(active)]
      /\ UNCHANGED <<current, isPlaying, isLoading, error, el, events, active, ticket, loads,
                     fadingOut, recoveries, stalled, stallTimer, tangled, wants, ops, faults>>
  BY DEF PreloadNext, store, elements, rest, stall, bounds
<1>2. Plain /\ Valid(Now) /\ active \in Elements /\ Other(active) \in Elements
  BY InvParts
<1>3. Valid(Now)'
  BY <1>1, <1>2 DEF Now
<1>4. Plain' /\ NextIsNot' /\ PreloadSpare'
  BY <1>1, <1>2 DEF Plain, NextIsNot, PreloadSpare
<1>5. ASSUME ~tangled' PROVE Orderly'
  <2>1. Orderly /\ Kept
    BY <1>1, <1>5, InvParts, SameKept
  <2>2. \A k \in Range(loads) : k.at \notin {"resume", "unresumed"}
    BY <2>1, <1>1 DEF Along, Settled, Range, Orderly, Placed
  <2> QED
    BY <2>1, <2>2, <1>1, <1>2, Undisturbed DEF Is
<1> QED
  BY <1>3, <1>4, <1>5 DEF PlaybackInv, Valued

\* It arrives in the spare, or nowhere.
LEMMA PreloadedInv ==
  ASSUME PlaybackInv, Preloaded
  PROVE  PlaybackInv'
<1>1. /\ preload.track # None /\ preload' = [track |-> None, el |-> 1]
      /\ ticket' = ticket \cup {preload.track}
      /\ IF spareTrack = preload.track THEN Becomes(WithSrc(Now, preload.el, preload.track))
                                       ELSE el' = el /\ events' = events /\ loads' = loads
      /\ UNCHANGED <<current, isPlaying, isLoading, error, active, spareTrack, fadingOut,
                     recoveries, stalled, stallTimer, tangled, wants, ops, faults>>
  BY DEF Preloaded, store, elements, rest, stall, bounds
<1>2. /\ Plain /\ Valid(Now) /\ active \in Elements /\ Other(active) \in Elements
      /\ preload.track \in Tracks /\ Other(Other(active)) = active
  BY <1>1, InvParts DEF Plain
<1>3. CASE spareTrack # preload.track
  <2>1. Valid(Now)' /\ el' = el /\ events' = events /\ loads' = loads
    BY <1>1, <1>2, <1>3 DEF Now
  <2>2. Plain' /\ NextIsNot' /\ PreloadSpare'
    BY <2>1, <1>1, <1>2, InvParts DEF Plain, NextIsNot, PreloadSpare, Elements
  <2>3. ASSUME ~tangled' PROVE Orderly'
    BY <2>1, <2>3, <1>1, <1>2, SameOrderly DEF Is
  <2> QED
    BY <2>1, <2>2, <2>3 DEF PlaybackInv, Valued
<1>4. CASE spareTrack = preload.track
  <2> DEFINE o == Other(active)
             w == WithSrc(Now, o, preload.track)
  <2>1. preload.el = o
    BY <1>1, <1>4, InvParts DEF PreloadSpare
  <2>2. /\ Valid(w) /\ Is(w.el[o], preload.track, TRUE, "nothing", el[o].loud)
        /\ w.el[active] = el[active] /\ w.events[active] = events[active]
        /\ w.loads = Reject(loads, o)
    <3> DEFINE t == preload.track
    <3>1. o \in Elements /\ Other(o) = active /\ t \in Tracks /\ Valid(Now)
      BY <1>2
    <3>2. w = WithSrc(Now, o, t)
      OBVIOUS
    <3> HIDE DEF o, t, w
    <3> QED
      BY <3>1, <3>2, NowIs, SrcKeeps DEF t
  <2>3. Becomes(w)
    BY <2>1, <1>1, <1>4
  <2> HIDE DEF w
  <2>4. /\ Valid(Now)' /\ el' = w.el /\ events' = w.events /\ loads' = w.loads
    BY <2>2, <2>3, BecomesKeeps
  <2>5. Len(loads') = Len(loads)
    BY <2>2, <2>4, <1>2, NowParts, RejectIsSeq
  <2>6. Plain' /\ NextIsNot' /\ PreloadSpare'
    BY <2>5, <1>1, <1>2, InvParts DEF Plain, NextIsNot, PreloadSpare, Elements
  <2>7. ASSUME ~tangled' PROVE Orderly'
    <3>1. Orderly
      BY <2>7, <1>1, InvParts
    <3>2. Kept
      BY <2>2, <2>4, <1>2, RejectedKept
    <3>3. \A k \in Range(loads') : k.at \in {"resume", "unresumed"} => k.track # spareTrack'
      BY <3>1, <3>2, <1>1 DEF Kept, Alike, Orderly, Placed
    <3>4. el'[Other(active)].paused /\ el'[active] = el[active]
          /\ events'[active] = events[active]
      BY <2>2, <2>4 DEF Is
    <3> QED
      BY <3>1, <3>2, <3>3, <3>4, <1>1, <1>2, Undisturbed DEF Is
  <2> QED
    BY <2>4, <2>6, <2>7 DEF PlaybackInv, Valued
<1> QED
  BY <1>3, <1>4

\* The fade is over, of the element that went out or of the one that came back.
LEMMA FadedOutInv ==
  ASSUME PlaybackInv, NEW e \in Elements, FadedOut(e)
  PROVE  PlaybackInv'
<1> DEFINE mute == WithVolume(Now, e, FALSE)
           w == WithPause(mute, e)
<1>1. /\ fadingOut' = fadingOut \ {e} /\ Becomes(w)
      /\ UNCHANGED <<current, isPlaying, isLoading, error, active, spareTrack, preload,
                     ticket, recoveries, stalled, stallTimer, tangled, wants, ops, faults>>
  BY DEF FadedOut, store, rest, stall, bounds
<1>2. Plain /\ Valid(Now) /\ active \in Elements
  BY InvParts
<1>3. /\ Valid(mute) /\ Is(mute.el[e], el[e].src, el[e].paused, el[e].has, FALSE)
      /\ mute.el[Other(e)] = el[Other(e)] /\ mute.events = events /\ mute.loads = loads
  BY <1>2, NowIs, VolumeKeeps
<1> HIDE DEF mute
<1>4. /\ Valid(w) /\ Is(w.el[e], el[e].src, TRUE, el[e].has, FALSE)
      /\ ~el[e].paused => Swinging(w.events[e])
      /\ Swinging(events[e]) => Swinging(w.events[e])
      /\ w.el[Other(e)] = el[Other(e)] /\ w.events[Other(e)] = events[Other(e)]
      /\ w.loads = Reject(loads, e)
  BY <1>3, PauseKeeps DEF Is
<1> HIDE DEF w
<1>5. /\ Valid(Now)' /\ el' = w.el /\ events' = w.events /\ loads' = w.loads
  BY <1>1, <1>4, BecomesKeeps
<1>6. Len(loads') = Len(loads)
  BY <1>2, <1>4, <1>5, NowParts, RejectIsSeq
<1>7. Plain' /\ NextIsNot' /\ PreloadSpare'
  BY <1>1, <1>2, <1>6, InvParts DEF Plain, NextIsNot, PreloadSpare
<1>8. ASSUME ~tangled' PROVE Orderly'
  <2>1. Orderly
    BY <1>1, <1>8, InvParts
  <2>2. Kept /\ \A k \in Range(loads') : k.at \in {"play", "resume"} => k.el # e
    BY <1>2, <1>4, <1>5, RejectedKept
  <2>3. CASE e = active
    BY <2>1, <2>2, <2>3, <1>1, <1>2, <1>4, <1>5, PausedOrderly DEF Is
  <2>4. CASE e = Other(active)
    <3>1. \A k \in Range(loads') : k.at \in {"resume", "unresumed"} => k.track # spareTrack'
      BY <2>1, <2>2, <1>1 DEF Kept, Alike, Orderly, Placed
    <3>2. /\ el'[Other(active)].paused /\ el'[active] = el[active]
          /\ events'[active] = events[active]
      BY <2>4, <1>4, <1>5, InvParts DEF Is
    <3> QED
      BY <2>1, <2>2, <2>4, <3>1, <3>2, <1>1, <1>2, Undisturbed DEF Is
  <2> QED
    BY <2>3, <2>4, InvParts
<1> QED
  BY <1>5, <1>7, <1>8 DEF PlaybackInv, Valued

------------------------------------------------------------------------------
\* A load that starts again.

\* A load of the current track starts where it is; what was under way still is, but for one
\* that waited for its retry.
LEMMA StaysOrderly ==
  ASSUME Orderly, active \in Elements, NEW m, NEW attempt, NEW auto,
         Stays(m, current, attempt, auto), UNCHANGED <<current, isPlaying, error>>,
         Range(m.loads) \subseteq Range(loads),
         \A e \in Elements : m.el[e].paused = el[e].paused /\ m.el[e].has = el[e].has,
         Swinging(events[active]) => Swinging(m.events[active])
  PROVE  Orderly'
<1> DEFINE b == Begun(current, attempt, active, 0, auto)
           ls == Range(loads)
           ls1 == Range(loads')
<1>1. /\ active' = active /\ spareTrack' = spareTrack /\ fadingOut' = fadingOut
      /\ el' = m.el /\ events' = m.events /\ ls1 = Range(m.loads) \cup {b}
  BY DEF Stays
<1>2. b.track = current /\ b.at = "ticket" /\ b.el = active /\ b.out = 0
  BY DEF Begun
<1> HIDE DEF b
<1>3. \A k \in ls1 : k = b \/ k \in ls
  BY <1>1
<1>4. b \in ls1
  BY <1>1
<1>5. Loading' /\ \E k \in ls1 : Fresh(k)'
  BY <1>2, <1>4 DEF Loading, Main, Fresh
<1>6. Placed'
  BY <1>1, <1>2, <1>3 DEF Orderly, Placed, Main
<1>7. OtherSilent'
  BY <1>1, TwoElements DEF Orderly, OtherSilent
<1>8. Spoken'
  BY <1>1, <1>2, <1>3 DEF Orderly, Spoken
<1>9. Swapped'
  BY <1>1, <1>2, <1>3 DEF Orderly, Swapped, Main
<1> QED
  BY <1>5, <1>6, <1>7, <1>8, <1>9 DEF Orderly, SrcRight, Audible, Up, Down

\* The delay is over.
LEMMA RetryInv ==
  ASSUME PlaybackInv, NEW n \in DOMAIN loads, Retry(n)
  PROVE  PlaybackInv'
<1> DEFINE l == loads[n]
           w == Without(Now, n)
<1>1. /\ l.at = "retry"
      /\ UNCHANGED <<current, isPlaying, isLoading, error, preload, ticket, recoveries,
                     stalled, stallTimer, tangled, wants, ops, faults>>
      /\ \/ /\ l.track # current /\ Becomes(w)
            /\ UNCHANGED <<active, spareTrack, fadingOut>>
         \/ /\ l.track = current
            /\ Start(w, l.track, l.attempt + 1, l.auto, TRUE, FALSE)
  BY DEF Retry, MovedOn, store, rest, stall, bounds
<1>2. Plain /\ Valid(Now) /\ active \in Elements
  BY InvParts
<1>3. /\ Valid(w) /\ w.el = el /\ w.events = events
      /\ Len(w.loads) = Len(loads) - 1
      /\ Range(w.loads) \subseteq Range(loads)
      /\ Range(loads) \subseteq Range(w.loads) \cup {l}
  BY <1>2, NowIs, WithoutKeeps
<1>4. l \in Load /\ Waits(l, el)
  BY <1>2, NowParts
<1>5. /\ l.track \in Tracks /\ l.attempt + 1 \in 0..MaxRetries /\ l.auto \in BOOLEAN
  BY <1>1, <1>4, Bounds DEF Load, Waits
<1> HIDE DEF w
<1>6. CASE l.track # current
  <2>1. /\ Becomes(w) /\ UNCHANGED <<active, spareTrack, fadingOut>>
    BY <1>1, <1>6
  <2>2. Valid(Now)' /\ el' = el /\ events' = events /\ loads' = w.loads
    BY <2>1, <1>3, BecomesKeeps
  <2>3. Len(loads') <= MaxLoads
    BY <2>2, <1>2, <1>3, NowParts, Bounds DEF Plain
  <2>4. Plain' /\ NextIsNot' /\ PreloadSpare'
    BY <2>1, <2>3, <1>1, <1>2, InvParts DEF Plain, NextIsNot, PreloadSpare
  <2>5. ASSUME ~tangled' PROVE Orderly'
    <3>1. Orderly
      BY <2>5, <1>1, InvParts
    <3>2. Kept
      BY <2>2, <1>3, <1>6, SameKept
    <3>3. \A k \in Range(loads') : k.at \in {"resume", "unresumed"} => k.track # spareTrack'
      BY <3>1, <2>1, <2>2, <1>3 DEF Orderly, Placed
    <3> QED
      BY <3>1, <3>2, <3>3, <2>1, <2>2, <1>1, <1>2, Undisturbed DEF Is
  <2> QED
    BY <2>2, <2>4, <2>5 DEF PlaybackInv, Valued
<1>7. CASE l.track = current
  <2>1. Start(w, l.track, l.attempt + 1, l.auto, TRUE, FALSE)
    BY <1>1, <1>7
  <2> HIDE DEF l
  <2>2. /\ Valid(Now)' /\ Len(loads') <= MaxLoads /\ fadingOut' \subseteq Elements
        /\ Stays(w, l.track, l.attempt + 1, l.auto)
    BY <2>1, <1>2, <1>3, <1>5, StartKeeps
  <2>3. active' = active /\ spareTrack' = spareTrack
    BY <2>2 DEF Stays
  <2>4. Plain' /\ NextIsNot' /\ PreloadSpare'
    BY <2>2, <2>3, <1>1, <1>2, InvParts DEF Plain, NextIsNot, PreloadSpare
  <2>5. ASSUME ~tangled' PROVE Orderly'
    <3>1. Orderly /\ Stays(w, current, l.attempt + 1, l.auto)
      BY <2>2, <2>5, <1>1, <1>7, InvParts
    <3> QED
      BY <3>1, <1>1, <1>2, <1>3, StaysOrderly
  <2> QED
    BY <2>2, <2>4, <2>5 DEF PlaybackInv, Valued
<1> QED
  BY <1>6, <1>7

\* recover(): a load of the current track, on the element that is active.
LEMMA RecoverInv ==
  ASSUME PlaybackInv, NEW m, Valid(m), Recover(m), current # None, CanRecover,
         UNCHANGED <<preload, tangled, wants, ops, faults>>,
         m.el = el, m.loads = loads,
         Swinging(events[active]) => Swinging(m.events[active])
  PROVE  PlaybackInv'
<1> DEFINE d == Dropped(m, current)
           auto == isPlaying \/ isLoading
<1>1. /\ recoveries' = [track |-> current,
                        count |-> IF recoveries.track = current THEN recoveries.count + 1
                                                                ELSE 1]
      /\ stallTimer' = 0 /\ ticket' = ticket \ {current} /\ isLoading' = TRUE
      /\ Start(d, current, 0, auto, TRUE, FALSE)
      /\ UNCHANGED <<current, isPlaying, error, stalled>>
  BY DEF Recover
<1>2. Plain /\ Valid(Now) /\ active \in Elements /\ current \in Tracks
  BY InvParts DEF Plain
<1>3. /\ Valid(d) /\ d.events = m.events /\ d.loads = loads
      /\ \A e \in Elements : d.el[e].paused = el[e].paused /\ d.el[e].has = el[e].has
  BY DroppedKeeps DEF Is
<1>4. auto \in BOOLEAN /\ 0 \in 0..MaxRetries
  BY Bounds
<1> HIDE DEF d, auto
<1>5. /\ Valid(Now)' /\ Len(loads') <= MaxLoads /\ fadingOut' \subseteq Elements
      /\ Stays(d, current, 0, auto)
  BY <1>1, <1>2, <1>3, <1>4, StartKeeps
<1>6. active' = active /\ spareTrack' = spareTrack
  BY <1>5 DEF Stays
<1>7. recoveries' \in [track : Tracks \cup {None}, count : 0..MaxRecoveries]
  <2>1. /\ recoveries.count \in 0..MaxRecoveries
        /\ recoveries.track # current \/ recoveries.count < MaxRecoveries
    BY <1>2 DEF CanRecover, Plain
  <2>2. (IF recoveries.track = current THEN recoveries.count + 1 ELSE 1) \in 0..MaxRecoveries
    BY <2>1, Bounds
  <2> QED
    BY <2>2, <1>1, <1>2
<1>8. Plain' /\ NextIsNot' /\ PreloadSpare'
  BY <1>1, <1>2, <1>5, <1>6, <1>7, InvParts DEF Plain, NextIsNot, PreloadSpare
<1>9. ASSUME ~tangled' PROVE Orderly'
  <2>1. Orderly
    BY <1>9, InvParts
  <2> QED
    BY <2>1, <1>1, <1>2, <1>3, <1>5, StaysOrderly
<1> QED
  BY <1>5, <1>8, <1>9 DEF PlaybackInv, Valued

\* The element failed: a fresh link, or the error.
LEMMA OnErrorInv ==
  ASSUME PlaybackInv, OnError
  PROVE  PlaybackInv'
<1> DEFINE m == Told(active)
<1>1. /\ events[active] # <<>> /\ Head(events[active]) = "error" /\ current # None
  BY DEF OnError, Hears
<1>2. Plain /\ Valid(Now) /\ active \in Elements /\ current \in Tracks
  BY <1>1, InvParts DEF Plain
<1>3. /\ Valid(m) /\ m.el = el /\ m.loads = loads /\ el[active].has = "error"
      /\ Swinging(events[active]) => Swinging(m.events[active])
  BY <1>1, <1>2, ToldKeeps DEF Swings
<1> HIDE DEF m
<1>4. CASE CanRecover /\ Recover(m) /\ UNCHANGED <<preload, tangled, bounds>>
  BY <1>1, <1>3, <1>4, RecoverInv DEF bounds
<1>5. CASE ~CanRecover
  <2> DEFINE loud == WithVolume(m, active, TRUE)
             d == Dropped(loud, current)
  <2>1. /\ ticket' = ticket \ {current} /\ Becomes(d)
        /\ isLoading' = FALSE /\ isPlaying' = FALSE /\ error' = current
        /\ UNCHANGED <<current, active, spareTrack, preload, fadingOut, recoveries, stalled,
                       stallTimer, tangled, wants, ops, faults>>
    BY <1>5 DEF OnError, rest, stall, bounds, m
  <2>2. /\ Valid(loud) /\ loud.loads = loads /\ loud.el[Other(active)] = el[Other(active)]
        /\ Is(loud.el[active], el[active].src, el[active].paused, el[active].has, TRUE)
    BY <1>2, <1>3, VolumeKeeps
  <2> HIDE DEF loud
  <2>3. /\ Valid(d) /\ d.loads = loads
        /\ Is(d.el[active], el[active].src, el[active].paused, el[active].has, TRUE)
        /\ d.el[Other(active)].paused = el[Other(active)].paused
    BY <2>2, InvParts, DroppedKeeps DEF Is
  <2> HIDE DEF d
  <2>4. Valid(Now)' /\ el' = d.el /\ loads' = loads
    BY <2>1, <2>3, BecomesKeeps
  <2>5. Plain' /\ NextIsNot' /\ PreloadSpare'
    BY <2>1, <2>4, <1>2, InvParts DEF Plain, NextIsNot, PreloadSpare
  <2>6. ASSUME ~tangled' PROVE Orderly'
    <3>1. Orderly
      BY <2>1, <2>6, InvParts
    <3>2. \A l \in Range(loads) : l.at # "play"
      BY <3>1, <1>3, InvParts DEF Orderly, Placed, Waits
    <3>3. Placed'
      BY <3>1, <3>2, <2>1, <2>4 DEF Orderly, Placed, Main
    <3>4. OtherSilent' /\ SrcRight' /\ Audible' /\ Down'
      BY <3>1, <2>1, <2>3, <2>4, <1>1 DEF Orderly, OtherSilent, SrcRight, Audible, Down, Is
    <3>5. Up' /\ Spoken' /\ Swapped'
      BY <3>2, <2>1, <2>3, <2>4, <1>1, <1>3 DEF Up, Spoken, Swapped, Is
    <3> QED
      BY <3>3, <3>4, <3>5 DEF Orderly
  <2> QED
    BY <2>4, <2>5, <2>6 DEF PlaybackInv, Valued
<1> QED
  BY <1>4, <1>5 DEF OnError, m

\* A stall that does not clear.
LEMMA StallTimeoutInv ==
  ASSUME PlaybackInv, StallTimeout
  PROVE  PlaybackInv'
<1>1. UNCHANGED <<preload, tangled, wants, ops, faults>>
  BY DEF StallTimeout, bounds
<1>2. Plain /\ Valid(Now)
  BY InvParts
<1>3. CASE CanRecover /\ Recover(Now)
  <2>1. current # None
    BY <1>3 DEF CanRecover
  <2> QED
    BY <2>1, <1>1, <1>2, <1>3, NowIs, RecoverInv
<1>4. CASE /\ stallTimer' = 0
           /\ UNCHANGED <<store, elements, active, spareTrack, ticket, loads, fadingOut,
                          recoveries, stalled>>
  <2>1. UNCHANGED <<current, isPlaying, isLoading, error, el, events, loads, active,
                    spareTrack, fadingOut, ticket, recoveries, stalled>>
    BY <1>4 DEF store, elements
  <2>2. Valid(Now)'
    BY <2>1, <1>2 DEF Now
  <2>3. Plain' /\ NextIsNot' /\ PreloadSpare'
    BY <2>1, <1>1, <1>2, <1>4, InvParts DEF Plain, NextIsNot, PreloadSpare
  <2>4. ASSUME ~tangled' PROVE Orderly'
    BY <2>1, <2>4, <1>1, SameOrderly DEF Is
  <2> QED
    BY <2>2, <2>3, <2>4 DEF PlaybackInv, Valued
<1> QED
  BY <1>3, <1>4 DEF StallTimeout

\* A toggle that failed loads its track anew; it was not fetched ahead meanwhile.
LEMMA ResumeRejectedInv ==
  ASSUME PlaybackInv, NEW n \in DOMAIN loads, ResumeRejected(n)
  PROVE  PlaybackInv'
<1> DEFINE l == loads[n]
           w == Without(Now, n)
           d == Dropped(w, l.track)
<1>1. /\ l.at = "unresumed" /\ ticket' = ticket \ {l.track}
      /\ Start(d, l.track, 0, TRUE, FALSE, FALSE)
      /\ UNCHANGED <<current, isPlaying, isLoading, error, preload, recoveries, stalled,
                     stallTimer, tangled, wants, ops, faults>>
  BY DEF ResumeRejected, store, rest, stall, bounds
<1>2. Plain /\ Valid(Now) /\ active \in Elements /\ NextIsNot /\ PreloadSpare
  BY InvParts
<1>3. /\ Valid(w) /\ w.el = el /\ w.events = events
      /\ Range(w.loads) \subseteq Range(loads)
      /\ Range(loads) \subseteq Range(w.loads) \cup {l}
  BY <1>2, NowIs, WithoutKeeps
<1>4. l.track \in Tracks /\ l \in Range(loads)
  BY <1>2, NowParts DEF Load
<1> HIDE DEF w
<1>5. /\ Valid(d) /\ d.events = events /\ d.loads = w.loads
      /\ \A e \in Elements :
           Is(d.el[e], el[e].src, el[e].paused, el[e].has, el[e].loud)
  BY <1>3, DroppedKeeps
<1> HIDE DEF d, l
<1>6. 0 \in 0..MaxRetries
  BY Bounds
<1>7. /\ Valid(Now)' /\ Len(loads') <= MaxLoads /\ fadingOut' \subseteq Elements
      /\ active' \in Elements /\ spareTrack' \in {None, spareTrack}
      /\ spareTrack # l.track => Stays(d, l.track, 0, TRUE)
      /\ spareTrack = l.track => Swaps(d, l.track, 0, TRUE, FALSE)
  BY <1>1, <1>2, <1>4, <1>5, <1>6, StartKeeps
<1>8. /\ spareTrack # l.track => active' = active
      /\ spareTrack = l.track => spareTrack' = None
  BY <1>7 DEF Stays, Swaps
<1>9. Plain'
  BY <1>1, <1>2, <1>7, Bounds DEF Plain
<1>10. NextIsNot' /\ PreloadSpare'
  BY <1>1, <1>2, <1>7, <1>8 DEF NextIsNot, PreloadSpare
<1>11. ASSUME ~tangled' PROVE Orderly'
  <2>1. Orderly
    BY <1>1, <1>11, InvParts
  <2>2. l.track # spareTrack
    BY <2>1, <1>1, <1>4 DEF Orderly, Placed, l
  <2>3. Stays(d, l.track, 0, TRUE)
    BY <2>2, <1>7
  <2>4. CASE l.track = current
    BY <2>1, <2>3, <2>4, <1>1, <1>2, <1>3, <1>5, StaysOrderly DEF Is
  <2>5. CASE l.track # current
    <3> DEFINE b == Begun(l.track, 0, active, 0, TRUE)
               ls == Range(loads)
               ls1 == Range(loads')
    <3>1. /\ active' = active /\ spareTrack' = spareTrack /\ fadingOut' = fadingOut
          /\ el' = d.el /\ events' = events /\ ls1 = Range(w.loads) \cup {b}
      BY <2>3, <1>5 DEF Stays
    <3>2. b.track = l.track /\ b.at = "ticket" /\ b.el = active
      BY DEF Begun
    <3> HIDE DEF b
    <3>3. \A k \in ls1 : k = b \/ k \in ls
      BY <3>1, <1>3
    <3>4. \A k \in ls : k.track = current => k \in ls1
      BY <3>1, <2>5, <1>3
    <3>5. Loading => Loading'
      BY <3>4, <1>1 DEF Loading, Main
    <3>6. (\E k \in ls : Fresh(k)) => (\E k \in ls1 : Fresh(k)')
      BY <3>4, <1>1 DEF Fresh
    <3>7. Placed'
      BY <2>1, <2>5, <3>1, <3>2, <3>3, <1>1 DEF Orderly, Placed, Main
    <3>8. OtherSilent' /\ SrcRight' /\ Audible' /\ Down'
      BY <2>1, <3>1, <3>5, <1>1, <1>5, InvParts
      DEF Orderly, OtherSilent, SrcRight, Audible, Down, Is
    <3>9. \A k \in ls1 : k.at = "play" => k \in ls
      BY <3>2, <3>3
    <3> HIDE DEF ls, ls1
    <3>10. (\A k \in ls : k.at # "play") => (\A k \in ls1 : k.at # "play")
      BY <3>9
    <3>11. Up'
      BY <2>1, <3>1, <3>6, <3>10, <1>1, <1>2, <1>5 DEF Orderly, Up, Is, ls, ls1
    <3>12. Spoken'
      BY <2>1, <3>1, <3>9, <1>1 DEF Orderly, Spoken, ls, ls1
    <3>13. (\E k \in ls1 : Main(k)' /\ k.at = "ticket" /\ k.out # 0) =>
             (\E k \in ls : Main(k) /\ k.at = "ticket" /\ k.out # 0)
      BY <2>5, <3>2, <3>3, <1>1 DEF Main
    <3>14. Swapped'
      BY <2>1, <3>1, <3>13, <1>1, <1>2, <1>5 DEF Orderly, Swapped, Is, ls, ls1
    <3> QED
      BY <3>7, <3>8, <3>11, <3>12, <3>14 DEF Orderly
  <2> QED
    BY <2>4, <2>5
<1> QED
  BY <1>7, <1>9, <1>10, <1>11 DEF PlaybackInv, Valued

------------------------------------------------------------------------------
\* A load comes to its end.

\* play() went through: the active element sounds, and it is this load's.
LEMMA PlayResolvedInv ==
  ASSUME PlaybackInv, NEW n \in DOMAIN loads, PlayResolved(n)
  PROVE  PlaybackInv'
<1> DEFINE l == loads[n]
           loud == WithVolume(Now, active, TRUE)
           w == Without(loud, n)
<1>1. /\ l.at = "play" /\ ~el[l.el].paused /\ Becomes(w)
      /\ isLoading' = FALSE /\ error' = None
      /\ UNCHANGED <<current, isPlaying, active, spareTrack, preload, ticket, fadingOut,
                     recoveries, stalled, stallTimer, tangled, wants, ops, faults>>
  BY DEF PlayResolved, RampUp, Sounds, engine, rest, stall, bounds
<1>2. Plain /\ Valid(Now) /\ active \in Elements
  BY InvParts
<1>3. /\ Valid(loud) /\ loud.events = events /\ loud.loads = loads
      /\ Is(loud.el[active], el[active].src, el[active].paused, el[active].has, TRUE)
      /\ loud.el[Other(active)] = el[Other(active)]
  BY <1>2, NowIs, VolumeKeeps
<1> HIDE DEF loud
<1>4. /\ Valid(w) /\ w.el = loud.el /\ w.events = events
      /\ Len(w.loads) = Len(loads) - 1
      /\ Range(w.loads) \subseteq Range(loads)
      /\ Range(loads) \subseteq Range(w.loads) \cup {l}
  BY <1>3, WithoutKeeps
<1> HIDE DEF w
<1>5. Valid(Now)' /\ el' = loud.el /\ events' = events /\ loads' = w.loads
  BY <1>1, <1>4, BecomesKeeps
<1>6. Len(loads') <= MaxLoads
  BY <1>2, <1>4, <1>5, NowParts, Bounds DEF Plain
<1>7. Plain' /\ NextIsNot' /\ PreloadSpare'
  BY <1>1, <1>2, <1>6, InvParts DEF Plain, NextIsNot, PreloadSpare
<1>8. l \in Range(loads) /\ Waits(l, el)
  BY <1>2, NowParts
<1> HIDE DEF l
<1>9. ASSUME ~tangled' PROVE Orderly'
  <2> DEFINE ls == Range(loads)
             ls1 == Range(loads')
  <2>1. Orderly
    BY <1>1, <1>9, InvParts
  <2>2. l.el = active /\ ~el[active].paused /\ el[active].src = l.track
    BY <2>1, <1>1, <1>8 DEF Orderly, Placed, Waits
  <2>3. ls1 \subseteq ls /\ ls \subseteq ls1 \cup {l}
    BY <1>4, <1>5
  <2>4. l.track # current => error = None /\ (Loading => Loading')
    BY <2>1, <2>3, <1>1, <1>8 DEF Orderly, Placed, Loading, Main
  <2>5. (\E k \in ls : Fresh(k)) => (\E k \in ls1 : Fresh(k)')
    BY <2>3, <1>1 DEF Fresh
  <2>6. /\ el'[active].src = el[active].src /\ el'[active].paused = el[active].paused
        /\ el'[active].has = el[active].has /\ el'[active].loud
        /\ el'[Other(active)] = el[Other(active)] /\ events' = events
    BY <1>3, <1>5 DEF Is
  <2> HIDE DEF ls, ls1
  <2>7. Placed'
    BY <2>1, <2>3, <1>1 DEF Orderly, Placed, Main, ls, ls1
  <2>8. OtherSilent' /\ Audible' /\ Down'
    BY <2>1, <2>2, <2>6, <1>1 DEF Orderly, OtherSilent, Audible, Down
  <2>9. SrcRight'
    BY <2>1, <2>2, <2>4, <2>6, <1>1 DEF Orderly, SrcRight
  <2>10. Up'
    <3>1. CASE l.track = current
      BY <2>1, <2>6, <3>1, <1>1, <1>8 DEF Orderly, Spoken, Up
    <3>2. CASE l.track # current
      BY <2>1, <2>2, <2>4, <2>5, <2>6, <3>2, <1>1 DEF Orderly, Up, ls, ls1
    <3> QED
      BY <3>1, <3>2
  <2>11. Spoken' /\ Swapped'
    BY <2>1, <2>3, <2>6, <1>1 DEF Orderly, Spoken, Swapped, Main, ls, ls1
  <2> QED
    BY <2>7, <2>8, <2>9, <2>10, <2>11 DEF Orderly
<1> QED
  BY <1>5, <1>7, <1>9 DEF PlaybackInv, Valued

\* The catch of load(): another try, or the error.
LEMMA FailInv ==
  ASSUME PlaybackInv, NEW n \in DOMAIN loads, loads[n].at \in {"ticket", "rejected"},
         NEW kind, Fail(Now, n, kind),
         UNCHANGED <<active, spareTrack, preload, fadingOut, recoveries, stalled, stallTimer,
                     wants>>,
         ops' \in 0..MaxOps, faults' \in 0..MaxFaults
  PROVE  PlaybackInv'
<1> DEFINE l == loads[n]
           loud == WithVolume(Now, l.el, TRUE)
<1>1. Plain /\ Valid(Now) /\ active \in Elements
  BY InvParts
<1>2. l \in Load /\ l \in Range(loads) /\ Waits(l, el) /\ l.el \in Elements /\ l.track \in Tracks
  BY <1>1, NowParts DEF Load
<1>3. /\ Valid(loud) /\ loud.events = events /\ loud.loads = loads
      /\ Is(loud.el[l.el], el[l.el].src, el[l.el].paused, el[l.el].has, TRUE)
      /\ loud.el[Other(l.el)] = el[Other(l.el)]
  BY <1>1, <1>2, NowIs, VolumeKeeps
<1>4. CASE kind = "network" /\ CanRetry(l) /\ ~MovedOn(l)
  <2> DEFINE d == Dropped(loud, l.track)
             r == [l EXCEPT !.at = "retry"]
             w == [d EXCEPT !.loads = [d.loads EXCEPT ![n] = r]]
  <2>1. /\ Becomes([d EXCEPT !.loads[n].at = "retry"])
        /\ ticket' = ticket \ {l.track} /\ l.track = current /\ l.attempt < MaxRetries
        /\ UNCHANGED <<current, isPlaying, isLoading, error, tangled>>
    BY <1>4 DEF Fail, CanRetry, MovedOn, store
  <2>2. /\ Valid(d) /\ d.events = events /\ d.loads = loads
        /\ \A e \in Elements :
             Is(d.el[e], loud.el[e].src, loud.el[e].paused, loud.el[e].has, loud.el[e].loud)
    BY <1>3, DroppedKeeps
  <2>3. /\ r \in Load /\ r.at = "retry" /\ r.track = current /\ r.out = l.out
        /\ r.auto = l.auto /\ r.attempt = l.attempt
    BY <2>1, <1>2, LoadAt DEF Awaits
  <2>4. Becomes(w)
    <3>1. [d EXCEPT !.loads[n].at = "retry"] = w
      BY <2>2
    <3> QED
      BY <2>1, <3>1
  <2> HIDE DEF d, r
  <2>5. Waits(r, d.el)
    BY <2>1, <2>3, <1>2 DEF Waits
  <2>6. /\ Valid(w) /\ w.el = d.el /\ w.events = events /\ Len(w.loads) = Len(loads)
        /\ Range(w.loads) \subseteq Range(loads) \cup {r}
        /\ Range(loads) \subseteq Range(w.loads) \cup {l}
        /\ r \in Range(w.loads)
    <3>1. n \in DOMAIN d.loads /\ d.loads[n] = l
      BY <2>2
    <3>2. /\ w.el = d.el /\ w.events = d.events /\ w.loads = [d.loads EXCEPT ![n] = r]
          /\ w = [el |-> w.el, events |-> w.events, loads |-> w.loads]
      <4> DEFINE ls == [d.loads EXCEPT ![n] = r]
      <4>1. d = [el |-> d.el, events |-> d.events, loads |-> d.loads]
        BY <2>2, StateParts DEF Valid
      <4>2. w = [d EXCEPT !.loads = ls]
        OBVIOUS
      <4> HIDE DEF w, ls
      <4>3. /\ w.el = d.el /\ w.events = d.events /\ w.loads = ls
            /\ w = [el |-> w.el, events |-> w.events, loads |-> w.loads]
        BY <4>1, <4>2
      <4> QED
        BY <4>3 DEF ls
    <3> HIDE DEF w, l
    <3>3. /\ Valid(w) /\ w.el = d.el /\ w.events = d.events /\ Len(w.loads) = Len(d.loads)
          /\ Range(w.loads) \subseteq Range(d.loads) \cup {r}
          /\ Range(d.loads) \subseteq Range(w.loads) \cup {d.loads[n]}
          /\ r \in Range(w.loads)
      <4>1. Replaces(d, n, r, w)
        BY <2>2, <2>3, <2>5, <3>1, <3>2 DEF Replaces
      <4> QED
        BY <4>1, ReplaceKeeps
    <3> QED
      BY <2>2, <3>1, <3>3
  <2> HIDE DEF w
  <2>7. Valid(Now)' /\ el' = d.el /\ events' = events /\ loads' = w.loads
    BY <2>4, <2>6, BecomesKeeps
  <2>8. Plain' /\ NextIsNot' /\ PreloadSpare'
    BY <2>1, <2>6, <2>7, <1>1, InvParts DEF Plain, NextIsNot, PreloadSpare
  <2>9. ASSUME ~tangled' PROVE Orderly'
    <3> DEFINE ls == Range(loads)
               ls1 == Range(loads')
    <3>1. Orderly
      BY <2>1, <2>9, InvParts
    <3>2. ls1 \subseteq ls \cup {r} /\ r \in ls1
      BY <2>6, <2>7
    <3>3. Loading' /\ \E k \in ls1 : Fresh(k)'
      BY <2>1, <2>3, <3>2 DEF Loading, Main, Fresh
    <3>4. \A e \in Elements : el'[e].paused = el[e].paused /\ el'[e].has = el[e].has
      <4>1. \A e \in Elements :
              loud.el[e].paused = el[e].paused /\ loud.el[e].has = el[e].has
        <5> DEFINE f == l.el
        <5>1. f \in Elements /\ Is(loud.el[f], el[f].src, el[f].paused, el[f].has, TRUE)
              /\ loud.el[Other(f)] = el[Other(f)]
          BY <1>2, <1>3
        <5> HIDE DEF f, loud
        <5> QED
          BY <5>1, TwoElements DEF Is
      <4> HIDE DEF loud
      <4> QED
        BY <4>1, <2>2, <2>7 DEF Is
    <3> HIDE DEF ls, ls1
    <3>5. Placed'
      BY <2>1, <2>3, <3>1, <3>2 DEF Orderly, Placed, Main, ls, ls1
    <3>6. OtherSilent'
      BY <3>1, <3>4, <1>1, TwoElements DEF Orderly, OtherSilent
    <3>7. Spoken' /\ Swapped'
      BY <2>1, <2>3, <2>7, <3>1, <3>2, <3>4, <1>1 DEF Orderly, Spoken, Swapped, Main, ls, ls1
    <3> QED
      BY <3>3, <3>5, <3>6, <3>7 DEF Orderly, SrcRight, Audible, Up, Down, ls1
  <2> QED
    BY <2>7, <2>8, <2>9 DEF PlaybackInv, Valued
<1>5. CASE ~(kind = "network" /\ CanRetry(l) /\ ~MovedOn(l))
  <2> DEFINE w == Without(loud, n)
  <2>1. /\ Becomes(w) /\ tangled' = (tangled \/ MovedOn(l) \/ Len(Now.loads) > 1)
        /\ isLoading' = FALSE /\ isPlaying' = FALSE /\ error' = l.track
        /\ UNCHANGED <<current, ticket>>
    BY <1>5 DEF Fail
  <2>2. /\ Valid(w) /\ w.el = loud.el /\ w.events = events
        /\ Len(w.loads) = Len(loads) - 1 /\ Range(w.loads) \subseteq Range(loads)
    BY <1>3, WithoutKeeps
  <2> HIDE DEF w, loud
  <2>3. Valid(Now)' /\ el' = loud.el /\ events' = events /\ loads' = w.loads
    BY <2>1, <2>2, BecomesKeeps
  <2>4. /\ Len(loads) \in Nat /\ Len(loads) > 0
    BY <1>1, NowParts
  <2>5. Len(loads') <= MaxLoads
    BY <2>2, <2>3, <2>4, <1>1, Bounds DEF Plain
  <2>6. tangled' \in BOOLEAN
    BY <2>1
  <2>7. Plain' /\ NextIsNot' /\ PreloadSpare'
    BY <2>1, <2>5, <2>6, <1>1, <1>2, InvParts DEF Plain, NextIsNot, PreloadSpare
  <2>8. ASSUME ~tangled' PROVE Orderly'
    <3>1. ~tangled /\ Orderly /\ l.track = current /\ Len(loads) <= 1
      <4>1. Now.loads = loads
        BY NowIs
      <4>2. ~tangled /\ ~MovedOn(l) /\ ~(Len(loads) > 1)
        BY <4>1, <2>1, <2>8
      <4> QED
        BY <4>2, <2>4, InvParts DEF MovedOn
    <3>2. Range(loads') = {}
      <4>1. Len(loads') = 0 /\ loads' \in Seq(Load)
        BY <2>2, <2>3, <2>4, <3>1, StateParts DEF Valid
      <4> QED
        BY <4>1 DEF Range
    <3>3. l.el = active
      BY <3>1, <1>2 DEF Orderly, Placed, Main
    <3>4. /\ el'[active].loud /\ el'[Other(active)] = el[Other(active)]
      BY <2>3, <3>3, <1>3 DEF Is
    <3>5. error' # None
      BY <2>1, <1>2, Bounds
    <3> QED
      BY <2>1, <3>1, <3>2, <3>4, <3>5 DEF Orderly, Placed, OtherSilent, SrcRight, Audible, Up,
         Spoken, Swapped, Down
  <2> QED
    BY <2>3, <2>7, <2>8 DEF PlaybackInv, Valued
<1> QED
  BY <1>4, <1>5

\* No ticket.
LEMMA TicketFailsInv ==
  ASSUME PlaybackInv, NEW n \in DOMAIN loads, TicketFails(n)
  PROVE  PlaybackInv'
<1>1. /\ loads[n].at = "ticket" /\ Fault
      /\ UNCHANGED <<active, spareTrack, preload, fadingOut, recoveries, stalled, stallTimer>>
  BY DEF TicketFails, stall
<1>2. PICK kind \in {"network", "final"} : Fail(Now, n, kind)
  BY DEF TicketFails
<1>3. ops' \in 0..MaxOps /\ faults' \in 0..MaxFaults /\ wants' = wants
  BY <1>1, InvParts, Counted
<1> QED
  BY <1>1, <1>2, <1>3, FailInv

\* A rejected play().
LEMMA PlayRejectedInv ==
  ASSUME PlaybackInv, NEW n \in DOMAIN loads, PlayRejected(n)
  PROVE  PlaybackInv'
<1>1. /\ loads[n].at = "rejected" /\ Fail(Now, n, "network")
      /\ UNCHANGED <<active, spareTrack, preload, fadingOut, recoveries, stalled, stallTimer,
                     wants, ops, faults>>
  BY DEF PlayRejected, stall, bounds
<1>2. ops' \in 0..MaxOps /\ faults' \in 0..MaxFaults
  BY <1>1, InvParts DEF Plain
<1> QED
  BY <1>1, <1>2, FailInv

------------------------------------------------------------------------------
\* A ticket arrives.

\* What a load finds on its element: its track, there already or put there.
Found(m, l) ==
  \/ m = WithSrc(Now, l.el, l.track)
  \/ m = Now /\ l.out # 0 /\ el[l.el].src = l.track

\* Others on that element are rejected at most.
LEMMA FoundKeeps ==
  ASSUME Valid(Now), NEW n \in DOMAIN loads, loads[n].at = "ticket",
         NEW m, Found(m, loads[n])
  PROVE  LET e == loads[n].el IN
         /\ Valid(m) /\ n \in DOMAIN m.loads /\ m.loads[n] = loads[n]
         /\ Len(m.loads) = Len(loads)
         /\ m.el[e].src = loads[n].track
         /\ m.el[Other(e)] = el[Other(e)] /\ m.events[Other(e)] = events[Other(e)]
         /\ \A k \in Range(m.loads) : \E j \in Range(loads) : Alike(j, k)
         /\ \/ m.el[e].paused /\ m.el[e].has = "nothing"
            \/ m = Now /\ loads[n].out # 0
<1> DEFINE l == loads[n]
<1>1. loads \in Seq(Load) /\ l \in Load /\ l.el \in Elements /\ l.track \in Tracks
  BY NowParts DEF Load
<1>2. CASE m = WithSrc(Now, l.el, l.track)
  <2>1. /\ Valid(m) /\ Is(m.el[l.el], l.track, TRUE, "nothing", Now.el[l.el].loud)
        /\ m.el[Other(l.el)] = el[Other(l.el)] /\ m.events[Other(l.el)] = events[Other(l.el)]
        /\ m.loads = Reject(loads, l.el)
    BY <1>1, <1>2, NowIs, SrcKeeps
  <2>2. /\ Len(m.loads) = Len(loads) /\ DOMAIN m.loads = DOMAIN loads
        /\ m.loads[n] = Rejected(l, l.el)
    BY <2>1, <1>1, RejectIsSeq
  <2>3. Rejected(l, l.el) = l
    BY DEF Rejected
  <2>4. Range(m.loads) = {Rejected(j, l.el) : j \in Range(loads)}
    BY <2>1, <1>1, RejectRange
  <2>5. \A j \in Range(loads) : Alike(j, Rejected(j, l.el))
    <3> HIDE DEF l
    <3>1. \A j \in Range(loads) : j \in Load
      BY <1>1 DEF Range
    <3> QED
      BY <3>1, RejectedIs DEF Alike
  <2> HIDE DEF l
  <2> QED
    BY <2>1, <2>2, <2>3, <2>4, <2>5 DEF Is, l
<1>3. CASE m = Now /\ l.out # 0 /\ el[l.el].src = l.track
  BY <1>3, NowIs DEF Alike
<1> QED
  BY <1>2, <1>3 DEF Found

\* The track is in place, and the button does the rest.
LEMMA InPlaceInv ==
  ASSUME PlaybackInv, NEW n \in DOMAIN loads, loads[n].at = "ticket",
         loads[n].track = current, InPlace(WithSrc(Now, loads[n].el, loads[n].track), n),
         UNCHANGED <<active, spareTrack, preload, fadingOut, recoveries, stalled, stallTimer,
                     wants, ops, faults>>,
         ticket' = ticket \cup {loads[n].track}, tangled' \in BOOLEAN, tangled => tangled'
  PROVE  PlaybackInv'
<1> DEFINE l == loads[n]
           m == WithSrc(Now, l.el, l.track)
           v == WithVolume(m, l.el, TRUE)
           w == Without(v, n)
<1>1. /\ Becomes(w) /\ isLoading' = FALSE /\ isPlaying' = FALSE /\ error' = None
      /\ current' = current
  BY DEF InPlace
<1>2. /\ Plain /\ Valid(Now) /\ loads \in Seq(Load) /\ Len(loads) \in Nat
      /\ l \in Load /\ l.el \in Elements /\ l.track \in Tracks /\ l \in Range(loads)
      /\ \A j \in Range(loads) : j \in Load
  BY InvParts, NowParts DEF Load
<1>3. /\ Valid(m) /\ Is(m.el[l.el], l.track, TRUE, "nothing", Now.el[l.el].loud)
      /\ m.el[Other(l.el)] = el[Other(l.el)] /\ m.loads = Reject(loads, l.el)
  BY <1>2, NowIs, SrcKeeps
<1> HIDE DEF m
<1>4. /\ Valid(v) /\ v.loads = Reject(loads, l.el)
      /\ Is(v.el[l.el], m.el[l.el].src, m.el[l.el].paused, m.el[l.el].has, TRUE)
      /\ v.el[Other(l.el)] = el[Other(l.el)]
  BY <1>2, <1>3, VolumeKeeps
<1>5. v.el[l.el].src = l.track /\ v.el[l.el].paused
  BY <1>3, <1>4 DEF Is
<1>6. n \in DOMAIN v.loads /\ Len(v.loads) = Len(loads)
  BY <1>2, <1>4, RejectIsSeq
<1> HIDE DEF v
<1>7. /\ Valid(w) /\ w.el = v.el /\ Len(w.loads) = Len(loads) - 1
      /\ Range(w.loads) \subseteq Range(v.loads)
  <2>1. Valid(v)
    BY <1>4
  <2>2. /\ Valid(w) /\ w.el = v.el /\ Len(w.loads) = Len(v.loads) - 1
        /\ Range(w.loads) \subseteq Range(v.loads)
    BY <2>1, <1>6, WithoutKeeps
  <2> QED
    BY <2>2, <1>6
<1> HIDE DEF w
<1>8. Valid(Now)' /\ el' = v.el /\ loads' = w.loads
  BY <1>1, <1>7, BecomesKeeps
<1>9. Len(loads') <= MaxLoads
  BY <1>2, <1>7, <1>8, Bounds DEF Plain
<1>10. Plain' /\ NextIsNot' /\ PreloadSpare'
  BY <1>1, <1>2, <1>9, InvParts DEF Plain, NextIsNot, PreloadSpare
<1>11. ASSUME ~tangled' PROVE Orderly'
  <2>1. Orderly /\ active \in Elements /\ Other(active) \in Elements
    BY <1>11, InvParts
  <2>2. l.el = active
    BY <2>1, <1>2 DEF Orderly, Placed, Main
  <2>3. /\ el'[active].src = current' /\ el'[active].paused
        /\ el'[Other(active)] = el[Other(active)]
    BY <2>2, <1>1, <1>4, <1>5, <1>8
  <2>4. Range(v.loads) = {Rejected(j, active) : j \in Range(loads)}
    BY <2>2, <1>2, <1>4, RejectRange
  <2>5. ASSUME NEW k \in Range(loads')
        PROVE  /\ Main(k) /\ k.at # "retry" => k.el = active
               /\ k.at \notin {"play", "resume"}
               /\ k.at = "unresumed" => k.track # spareTrack
    <3>1. PICK j \in Range(loads) : k = Rejected(j, active)
      BY <2>4, <1>7, <1>8
    <3>2. /\ j \in Load
          /\ Main(j) /\ j.at # "retry" => j.el = active
          /\ j.at \in {"play", "resume"} => j.el = active
          /\ j.at \in {"resume", "unresumed"} => j.track # spareTrack
      BY <2>1, <1>2 DEF Orderly, Placed
    <3>3. /\ k.track = j.track /\ k.el = j.el
          /\ k.at = IF j.el # active THEN j.at
                    ELSE IF j.at = "play" THEN "rejected"
                    ELSE IF j.at = "resume" THEN "unresumed" ELSE j.at
      BY <3>1, <3>2, RejectedIs
    <3> QED
      BY <3>2, <3>3 DEF Main
  <2>6. Placed'
    BY <2>5, <1>1 DEF Placed, Main
  <2>7. Spoken'
    BY <2>5 DEF Spoken
  <2> QED
    BY <2>1, <2>3, <2>6, <2>7, <1>1 DEF Orderly, OtherSilent, SrcRight, Audible, Up, Swapped, Down
<1> QED
  BY <1>8, <1>10, <1>11 DEF PlaybackInv, Valued

\* The load goes on to play(), which may refuse at once.
LEMMA PlaysInv ==
  ASSUME PlaybackInv, NEW n \in DOMAIN loads, loads[n].at = "ticket",
         loads[n].track = current, NEW m, Found(m, loads[n]),
         Becomes([WithPlay(WithVolume(m, loads[n].el, FALSE), loads[n].el)
                   EXCEPT !.loads[n].at = Promised(m, loads[n].el, "play", "rejected")]),
         UNCHANGED <<current, isPlaying, isLoading, error, active, spareTrack, preload,
                     fadingOut, recoveries, stalled, stallTimer, tangled, wants, ops, faults>>,
         ticket' = ticket \cup {loads[n].track}
  PROVE  PlaybackInv'
<1> DEFINE l == loads[n]
           e == l.el
           a == Promised(m, e, "play", "rejected")
           v == WithVolume(m, e, FALSE)
           p == WithPlay(v, e)
           r == [l EXCEPT !.at = a]
           w == [p EXCEPT !.loads[n].at = a]
<1>1. /\ Plain /\ Valid(Now) /\ l \in Load /\ e \in Elements /\ l.track \in Tracks
      /\ l \in Range(loads) /\ Waits(l, el)
  BY InvParts, NowParts DEF Load
<1>2. /\ Valid(m) /\ n \in DOMAIN m.loads /\ m.loads[n] = l
      /\ Len(m.loads) = Len(loads)
      /\ m.el[e].src = l.track
      /\ m.el[Other(e)] = el[Other(e)] /\ m.events[Other(e)] = events[Other(e)]
      /\ \A k \in Range(m.loads) : \E j \in Range(loads) : Alike(j, k)
      /\ \/ m.el[e].paused /\ m.el[e].has = "nothing"
         \/ m = Now /\ l.out # 0
  BY <1>1, FoundKeeps
<1>3. /\ Valid(v) /\ v.loads = m.loads /\ v.events = m.events
      /\ Is(v.el[e], m.el[e].src, m.el[e].paused, m.el[e].has, FALSE)
      /\ v.el[Other(e)] = m.el[Other(e)]
  BY <1>1, <1>2, VolumeKeeps
<1> HIDE DEF v
<1>4. /\ Valid(p) /\ p.loads = m.loads
      /\ Is(p.el[e], v.el[e].src, v.el[e].paused /\ v.el[e].has = "error", v.el[e].has,
            v.el[e].loud)
      /\ v.el[e].paused /\ v.el[e].has # "error" => Swinging(p.events[e])
      /\ Swinging(v.events[e]) => Swinging(p.events[e])
      /\ p.el[Other(e)] = v.el[Other(e)]
  BY <1>1, <1>3, PlayKeeps
<1> HIDE DEF p
<1>5. /\ p.el[e].src = l.track /\ p.el[e].has = m.el[e].has
      /\ p.el[e].paused = (m.el[e].paused /\ m.el[e].has = "error")
      /\ m.el[e].paused /\ m.el[e].has # "error" => Swinging(p.events[e])
      /\ Swinging(m.events[e]) => Swinging(p.events[e])
      /\ p.el[Other(e)] = el[Other(e)]
  BY <1>2, <1>3, <1>4 DEF Is
<1>6. a = IF m.el[e].has = "error" THEN "rejected" ELSE "play"
  BY DEF Promised
<1>7. /\ r \in Load /\ r.at = a /\ r.track = l.track /\ r.el = e /\ r.out = l.out
      /\ r.auto = l.auto /\ r.attempt = l.attempt
  <2>1. a \in Awaits
    BY <1>6 DEF Awaits
  <2> HIDE DEF a
  <2> QED
    BY <2>1, <1>1, LoadAt
<1>8. /\ w.el = p.el /\ w.events = p.events /\ w.loads = [p.loads EXCEPT ![n] = r]
      /\ w = [el |-> w.el, events |-> w.events, loads |-> w.loads]
  <2> DEFINE ls == [p.loads EXCEPT ![n] = r]
  <2>1. p = [el |-> p.el, events |-> p.events, loads |-> p.loads]
    BY <1>4, StateParts DEF Valid
  <2>2. w = [p EXCEPT !.loads = ls]
    <3>1. p.loads[n] = l
      BY <1>2, <1>4
    <3> HIDE DEF l, a
    <3> QED
      BY <3>1
  <2> HIDE DEF w, ls
  <2>3. /\ w.el = p.el /\ w.events = p.events /\ w.loads = ls
        /\ w = [el |-> w.el, events |-> w.events, loads |-> w.loads]
    BY <2>1, <2>2
  <2> QED
    BY <2>3 DEF ls
<1> HIDE DEF w, r, a
<1>9. Waits(r, p.el)
  BY <1>1, <1>5, <1>6, <1>7 DEF Waits
<1>10. /\ Valid(w) /\ Len(w.loads) = Len(loads)
       /\ Range(w.loads) \subseteq Range(m.loads) \cup {r} /\ r \in Range(w.loads)
  <2>1. Replaces(p, n, r, w)
    BY <1>2, <1>4, <1>7, <1>8, <1>9 DEF Replaces
  <2>2. /\ Valid(w) /\ Len(w.loads) = Len(p.loads)
        /\ Range(w.loads) \subseteq Range(p.loads) \cup {r} /\ r \in Range(w.loads)
    BY <2>1, ReplaceKeeps
  <2> QED
    BY <2>2, <1>2, <1>4
<1>11. Valid(Now)' /\ el' = p.el /\ events' = p.events /\ loads' = w.loads
  <2>1. Becomes(w)
    BY DEF w, p, v, a
  <2> QED
    BY <2>1, <1>8, <1>10, BecomesKeeps
<1>12. Plain' /\ NextIsNot' /\ PreloadSpare'
  BY <1>1, <1>10, <1>11, InvParts DEF Plain, NextIsNot, PreloadSpare
<1>13. ASSUME ~tangled' PROVE Orderly'
  <2> DEFINE ls == Range(loads)
             ls1 == Range(loads')
             Heard == Swinging(events'[active]) \/ isPlaying \/ active \in fadingOut
  <2>1. Orderly /\ active \in Elements
    BY <1>13, InvParts
  <2>2. e = active
    BY <2>1, <1>1 DEF Orderly, Placed, Main
  <2>3. /\ ls1 \subseteq Range(m.loads) \cup {r} /\ r \in ls1
        /\ el'[active].has = m.el[active].has
        /\ el'[active].paused = (m.el[active].paused /\ m.el[active].has = "error")
        /\ el'[Other(active)] = el[Other(active)]
    BY <2>2, <1>5, <1>10, <1>11
  <2>4. Loading'
    BY <2>3, <1>6, <1>7 DEF Loading, Main
  <2>5. ASSUME NEW k \in ls1, k # r
        PROVE  \E j \in ls : Alike(j, k)
    BY <2>3, <2>5, <1>2
  <2>6. m.el[active].has = "error" \/ Heard
    <3>1. CASE m.el[active].paused /\ m.el[active].has = "nothing"
      BY <2>2, <3>1, <1>5, <1>11
    <3>2. CASE m = Now /\ l.out # 0 /\ m.el[active].has # "error"
      <4>1. m.el = el /\ m.events = events
        BY <3>2, NowIs
      <4>2. CASE el[active].paused
        BY <2>2, <3>2, <4>1, <4>2, <1>5, <1>11
      <4>3. CASE ~el[active].paused
        <5>1. active \in fadingOut \/ Swinging(events[active]) \/ isPlaying
          BY <2>1, <3>2, <4>1, <4>3, <1>1 DEF Orderly, Swapped, Main
        <5> QED
          BY <2>2, <4>1, <5>1, <1>5, <1>11
      <4> QED
        BY <4>2, <4>3
    <3> QED
      BY <2>2, <3>1, <3>2, <1>2
  <2>7. m.el[active].has = "error" =>
          /\ m = Now /\ r.at = "rejected"
          /\ Swinging(events[active]) => Swinging(events'[active])
    BY <2>2, <1>2, <1>5, <1>6, <1>7, <1>11, NowIs
  <2> HIDE DEF ls, ls1, Heard
  <2>8. Placed'
    <3>1. ASSUME NEW k \in ls1
          PROVE  /\ Main(k) /\ k.at # "retry" => k.el = active
                 /\ k.at \in {"play", "resume"} => k.el = active
                 /\ k.at \in {"resume", "unresumed"} => k.track # spareTrack
                 /\ k.at = "play" /\ error # None => k.track = current
      <4>1. CASE k = r
        BY <2>2, <4>1, <1>6, <1>7
      <4>2. CASE k # r
        <5>1. PICK j \in ls : Alike(j, k)
          BY <2>5, <4>2
        <5> QED
          BY <2>1, <5>1 DEF Orderly, Placed, Alike, Main, ls
      <4> QED
        BY <4>1, <4>2
    <3> QED
      BY <3>1 DEF Placed, Main, ls1
  <2>9. OtherSilent'
    BY <2>1, <2>3 DEF Orderly, OtherSilent
  <2>10. Up'
    <3>1. CASE m.el[active].has = "error"
      BY <2>3, <2>7, <3>1, <1>7 DEF Up, Fresh, ls1
    <3>2. CASE Heard
      BY <3>2 DEF Up, Heard
    <3> QED
      BY <2>6, <3>1, <3>2
  <2>11. Spoken'
    <3>1. CASE m.el[active].has = "error"
      <4> SUFFICES ASSUME NEW k \in ls1, k.track = current, k.at = "play"
                   PROVE  Heard
        BY DEF Spoken, Heard, ls1
      <4>1. PICK j \in ls : j.track = current /\ j.at = "play"
        BY <2>5, <2>7, <3>1 DEF Alike
      <4>2. Swinging(events[active]) \/ isPlaying \/ active \in fadingOut
        BY <2>1, <4>1 DEF Orderly, Spoken, ls
      <4> QED
        BY <2>7, <3>1, <4>2 DEF Heard
    <3>2. CASE Heard
      BY <3>2 DEF Spoken, Heard
    <3> QED
      BY <2>6, <3>1, <3>2
  <2>12. Swapped'
    BY <2>3, <2>6 DEF Swapped, Heard
  <2> QED
    BY <2>4, <2>8, <2>9, <2>10, <2>11, <2>12 DEF Orderly, SrcRight, Audible, Down
<1> QED
  BY <1>11, <1>12, <1>13 DEF PlaybackInv, Valued

\* The browser refuses, and the element the music came from is tried.
LEMMA RefusedBackInv ==
  ASSUME PlaybackInv, NEW n \in DOMAIN loads, loads[n].at = "ticket", loads[n].out # 0,
         loads[n].track = current, NEW m, Found(m, loads[n]),
         active' = Other(active), spareTrack' = None,
         Becomes([WithPlay(WithVolume(WithSrc(WithPause(m, loads[n].el), Other(active),
                                              loads[n].track), Other(active), FALSE),
                           Other(active))
                   EXCEPT !.loads[n].el = Other(active), !.loads[n].at = "play"]),
         UNCHANGED <<current, isPlaying, isLoading, error, preload, fadingOut, recoveries,
                     stalled, stallTimer, wants, ops, faults>>,
         ticket' = ticket \cup {loads[n].track},
         tangled' = (tangled \/ Len(m.loads) > 1)
  PROVE  PlaybackInv'
<1> DEFINE l == loads[n]
           back == Other(active)
           h == WithPause(m, l.el)
           c == WithSrc(h, back, l.track)
           v == WithVolume(c, back, FALSE)
           p == WithPlay(v, back)
           r == [l EXCEPT !.el = back, !.at = "play"]
           w == [p EXCEPT !.loads[n].el = back, !.loads[n].at = "play"]
<1>1. /\ Plain /\ Valid(Now) /\ l \in Load /\ l.el \in Elements /\ l.track \in Tracks
      /\ l \in Range(loads) /\ Waits(l, el)
      /\ active \in Elements /\ back \in Elements /\ back # active /\ Other(back) = active
  BY InvParts, NowParts DEF Load
<1>2. /\ Valid(m) /\ n \in DOMAIN m.loads /\ m.loads[n] = l /\ Len(m.loads) = Len(loads)
      /\ m.loads \in Seq(Load)
  <2>1. /\ Valid(m) /\ n \in DOMAIN m.loads /\ m.loads[n] = l /\ Len(m.loads) = Len(loads)
    BY <1>1, FoundKeeps
  <2> QED
    BY <2>1, StateParts DEF Valid
<1>3. /\ Valid(h) /\ h.el[l.el].paused /\ h.loads = Reject(m.loads, l.el)
  BY <1>1, <1>2, PauseKeeps DEF Is
<1> HIDE DEF h
<1>4. /\ Valid(c) /\ Is(c.el[back], l.track, TRUE, "nothing", h.el[back].loud)
      /\ c.el[active] = h.el[active] /\ c.loads = Reject(h.loads, back)
  <2> DEFINE t == l.track
  <2>1. Valid(h) /\ back \in Elements /\ t \in Tracks /\ Other(back) = active
    BY <1>1, <1>3
  <2> HIDE DEF back, t
  <2>2. /\ Valid(c) /\ Is(c.el[back], t, TRUE, "nothing", h.el[back].loud)
        /\ c.el[Other(back)] = h.el[Other(back)] /\ c.loads = Reject(h.loads, back)
    BY <2>1, SrcKeeps DEF t
  <2> HIDE DEF c
  <2> QED
    BY <2>1, <2>2 DEF t
<1> HIDE DEF c
<1>5. /\ Valid(v) /\ v.loads = c.loads
      /\ Is(v.el[back], c.el[back].src, c.el[back].paused, c.el[back].has, FALSE)
      /\ v.el[active] = h.el[active]
  <2>1. /\ Valid(v) /\ v.loads = c.loads
        /\ Is(v.el[back], c.el[back].src, c.el[back].paused, c.el[back].has, FALSE)
        /\ v.el[Other(back)] = c.el[Other(back)]
    BY <1>1, <1>4, VolumeKeeps
  <2> HIDE DEF v, back
  <2> QED
    BY <2>1, <1>1, <1>4
<1>6. v.el[back].src = l.track /\ v.el[back].paused /\ v.el[back].has = "nothing"
  BY <1>4, <1>5 DEF Is
<1> HIDE DEF v
<1>7. /\ Valid(p) /\ p.loads = c.loads
      /\ Is(p.el[back], v.el[back].src, v.el[back].paused /\ v.el[back].has = "error",
            v.el[back].has, v.el[back].loud)
      /\ v.el[back].paused /\ v.el[back].has # "error" => Swinging(p.events[back])
      /\ p.el[active] = h.el[active]
  <2>1. /\ Valid(p) /\ p.loads = v.loads
        /\ Is(p.el[back], v.el[back].src, v.el[back].paused /\ v.el[back].has = "error",
              v.el[back].has, v.el[back].loud)
        /\ v.el[back].paused /\ v.el[back].has # "error" => Swinging(p.events[back])
        /\ p.el[Other(back)] = v.el[Other(back)]
    BY <1>1, <1>5, PlayKeeps
  <2> HIDE DEF p, back
  <2> QED
    BY <2>1, <1>1, <1>5
<1> HIDE DEF p
<1>8. /\ p.el[back].src = l.track /\ ~p.el[back].paused /\ p.el[back].has = "nothing"
      /\ Swinging(p.events[back])
  BY <1>6, <1>7 DEF Is
<1>9. /\ n \in DOMAIN p.loads /\ p.loads[n] = l /\ Len(p.loads) = Len(loads)
  <2>1. /\ n \in DOMAIN h.loads /\ h.loads[n] = Rejected(l, l.el)
        /\ Len(h.loads) = Len(loads) /\ h.loads \in Seq(Load)
    BY <1>2, <1>3, RejectIsSeq
  <2>2. Rejected(l, l.el) = l /\ Rejected(l, back) = l
    BY DEF Rejected
  <2>3. /\ n \in DOMAIN c.loads /\ c.loads[n] = Rejected(l, back)
        /\ Len(c.loads) = Len(loads)
    BY <2>1, <2>2, <1>4, RejectIsSeq
  <2> QED
    BY <2>2, <2>3, <1>7
<1>10. /\ r \in Load /\ r.at = "play" /\ r.track = l.track /\ r.el = back /\ r.out = l.out
       /\ r.auto = l.auto /\ r.attempt = l.attempt
  BY <1>1 DEF Load, Awaits
<1>11. /\ w.el = p.el /\ w.events = p.events /\ w.loads = [p.loads EXCEPT ![n] = r]
       /\ w = [el |-> w.el, events |-> w.events, loads |-> w.loads]
  <2> DEFINE ls == [p.loads EXCEPT ![n] = r]
  <2>1. p = [el |-> p.el, events |-> p.events, loads |-> p.loads] /\ p.loads \in Seq(Load)
    BY <1>7, StateParts DEF Valid
  <2>2. w = [p EXCEPT !.loads = ls]
    <3>1. p.loads[n] = l
      BY <1>9
    <3> HIDE DEF l, back
    <3> QED
      BY <3>1, <2>1
  <2> HIDE DEF w, ls
  <2>3. /\ w.el = p.el /\ w.events = p.events /\ w.loads = ls
        /\ w = [el |-> w.el, events |-> w.events, loads |-> w.loads]
    BY <2>1, <2>2
  <2> QED
    BY <2>3 DEF ls
<1>12. Becomes(w)
  BY DEF w, p, v, c, h
<1> HIDE DEF w, r
<1>13. Waits(r, p.el)
  BY <1>1, <1>8, <1>10 DEF Waits
<1>14. Valid(w) /\ Len(w.loads) = Len(loads) /\ r \in Range(w.loads)
  <2>1. Replaces(p, n, r, w)
    BY <1>7, <1>9, <1>10, <1>11, <1>13 DEF Replaces
  <2>2. Valid(w) /\ Len(w.loads) = Len(p.loads) /\ r \in Range(w.loads)
    BY <2>1, ReplaceKeeps
  <2> QED
    BY <2>2, <1>9
<1>15. Valid(Now)' /\ el' = p.el /\ events' = p.events /\ loads' = w.loads
  BY <1>11, <1>12, <1>14, BecomesKeeps
<1>16. Plain' /\ NextIsNot' /\ PreloadSpare'
  <2>1. tangled' \in BOOLEAN
    OBVIOUS
  <2> QED
    BY <2>1, <1>1, <1>14, <1>15, InvParts DEF Plain, NextIsNot, PreloadSpare
<1>17. ASSUME ~tangled' PROVE Orderly'
  <2>1. Orderly /\ ~(Len(loads) > 1) /\ Len(loads) \in Nat
    BY <1>1, <1>2, <1>17, InvParts, NowParts
  <2>2. l.el = active
    BY <2>1, <1>1 DEF Orderly, Placed, Main
  <2>3. Range(loads') = {r}
    <3>1. loads' \in Seq(Load) /\ Len(loads') = Len(loads) /\ r \in Range(loads')
      BY <1>14, <1>15, StateParts DEF Valid
    <3>2. \A i \in DOMAIN loads' : i = 1
      BY <3>1, <2>1
    <3> QED
      BY <3>1, <3>2 DEF Range
  <2>4. /\ active' = back /\ Other(active') = active
        /\ el'[active].paused /\ Swinging(events'[back])
    BY <2>2, <1>1, <1>3, <1>7, <1>8, <1>15
  <2>5. Loading'
    BY <2>3, <1>10 DEF Loading, Main
  <2>6. Placed'
    BY <2>3, <2>4, <1>10 DEF Placed, Main
  <2> QED
    BY <2>4, <2>5, <2>6 DEF Orderly, OtherSilent, SrcRight, Audible, Up, Spoken, Swapped, Down
<1> QED
  BY <1>15, <1>16, <1>17 DEF PlaybackInv, Valued

\* A ticket for a track that was left since.
LEMMA LeftInv ==
  ASSUME PlaybackInv, NEW n \in DOMAIN loads, MovedOn(loads[n]), Becomes(Without(Now, n)),
         UNCHANGED <<current, isPlaying, isLoading, error, active, spareTrack, preload,
                     fadingOut, recoveries, stalled, stallTimer, tangled, wants, ops, faults>>,
         ticket' = ticket \cup {loads[n].track}
  PROVE  PlaybackInv'
<1> DEFINE l == loads[n]
           w == Without(Now, n)
<1>1. /\ Plain /\ Valid(Now) /\ l \in Range(loads) /\ l.track \in Tracks
      /\ Len(loads) \in Nat
  BY InvParts, NowParts DEF Load
<1>2. /\ Valid(w) /\ w.el = el /\ w.events = events /\ Len(w.loads) = Len(loads) - 1
      /\ Range(w.loads) \subseteq Range(loads)
      /\ Range(loads) \subseteq Range(w.loads) \cup {l}
  BY <1>1, NowIs, WithoutKeeps
<1> HIDE DEF w
<1>3. Valid(Now)' /\ el' = el /\ events' = events /\ loads' = w.loads
  <2>1. Becomes(w)
    BY DEF w
  <2> QED
    BY <2>1, <1>2, BecomesKeeps
<1>4. Len(loads') <= MaxLoads
  BY <1>1, <1>2, <1>3, Bounds DEF Plain
<1>5. Plain' /\ NextIsNot' /\ PreloadSpare'
  BY <1>1, <1>4, InvParts DEF Plain, NextIsNot, PreloadSpare
<1>6. ASSUME ~tangled' PROVE Orderly'
  <2>1. Orderly /\ active \in Elements
    BY <1>6, InvParts
  <2>2. Kept
    BY <1>2, <1>3, SameKept DEF MovedOn
  <2>3. \A k \in Range(loads') : k.at \in {"resume", "unresumed"} => k.track # spareTrack'
    BY <2>1, <1>2, <1>3 DEF Orderly, Placed
  <2> QED
    BY <2>1, <2>2, <2>3, <1>3, Undisturbed DEF Is
<1> QED
  BY <1>3, <1>5, <1>6 DEF PlaybackInv, Valued

\* A ticket arrives.
LEMMA TicketArrivesInv ==
  ASSUME PlaybackInv, NEW n \in DOMAIN loads, TicketArrives(n)
  PROVE  PlaybackInv'
<1> DEFINE l == loads[n]
           same == l.out # 0 /\ el[l.el].src = l.track /\ el[l.el].fresh
           m == IF same THEN Now ELSE WithSrc(Now, l.el, l.track)
<1>1. /\ l.at = "ticket" /\ ticket' = ticket \cup {l.track}
      /\ UNCHANGED <<preload, fadingOut, recoveries, stalled, stallTimer, wants, ops, faults>>
  BY DEF TicketArrives, stall, bounds
<1>2. Found(m, l)
  BY DEF Found
<1>3. l.out # 0 => l.auto
  BY InvParts, NowParts DEF Waits
<1>4. tangled \in BOOLEAN
  BY InvParts DEF Plain
<1>5. CASE /\ MovedOn(l) /\ Becomes(Without(Now, n))
           /\ UNCHANGED <<store, active, spareTrack, tangled>>
  BY <1>1, <1>5, LeftInv DEF store
<1>6. CASE /\ ~MovedOn(l) /\ ~l.auto /\ InPlace(m, n)
           /\ UNCHANGED <<active, spareTrack, tangled>>
  <2>1. m = WithSrc(Now, l.el, l.track) /\ l.track = current
    BY <1>3, <1>6 DEF MovedOn
  <2> HIDE DEF m
  <2> QED
    BY <2>1, <1>1, <1>4, <1>6, InPlaceInv
<1>7. CASE /\ ~MovedOn(l) /\ l.auto
           /\ Becomes([WithPlay(WithVolume(m, l.el, FALSE), l.el)
                        EXCEPT !.loads[n].at = Promised(m, l.el, "play", "rejected")])
           /\ UNCHANGED <<store, active, spareTrack, tangled>>
  <2> HIDE DEF m
  <2> QED
    BY <1>1, <1>2, <1>7, PlaysInv DEF MovedOn, store
<1>8. CASE ~MovedOn(l) /\ l.auto /\ Refused(m, n)
  <2>1. l.track = current /\ tangled' = (tangled \/ Len(m.loads) > 1)
    BY <1>8 DEF MovedOn, Refused
  <2>2. CASE /\ l.out # 0 /\ active' = Other(active) /\ spareTrack' = None
             /\ Becomes([WithPlay(WithVolume(WithSrc(WithPause(m, l.el), Other(active),
                                                     l.track), Other(active), FALSE),
                                  Other(active))
                          EXCEPT !.loads[n].el = Other(active), !.loads[n].at = "play"])
             /\ UNCHANGED store
    <3> HIDE DEF m
    <3> QED
      BY <2>1, <2>2, <1>1, <1>2, RefusedBackInv DEF store
  <2>3. CASE l.out = 0 /\ InPlace(m, n) /\ UNCHANGED <<active, spareTrack>>
    <3>1. m = WithSrc(Now, l.el, l.track)
      BY <2>3
    <3> HIDE DEF m
    <3> QED
      BY <2>1, <2>3, <3>1, <1>1, <1>4, InPlaceInv
  <2> QED
    BY <2>2, <2>3, <1>8 DEF Refused
<1> QED
  BY <1>5, <1>6, <1>7, <1>8 DEF TicketArrives

------------------------------------------------------------------------------
\* The whole.

\* A step that changes nothing.
LEMMA StutterInv ==
  ASSUME PlaybackInv, UNCHANGED vars
  PROVE  PlaybackInv'
BY DEF vars, PlaybackInv, Valued, Plain, Valid, Now, NextIsNot, PreloadSpare, Orderly, Placed,
   Main, Loading, Fresh, OtherSilent, SrcRight, Audible, Up, Spoken, Swapped, Down

\* Every step keeps the invariant.
LEMMA InvStep ==
  ASSUME PlaybackInv, [Next]_vars
  PROVE  PlaybackInv'
<1>1. CASE LoadStep
  BY <1>1, TicketArrivesInv, TicketFailsInv, PlayRejectedInv, PlayResolvedInv, RetryInv,
     ResumedInv, ResumeRejectedInv DEF LoadStep
<1>2. CASE Listener
  BY <1>2, ChooseInv, EndsInv, PauseInv, ResumeInv DEF Listener
<1>3. CASE Event
  BY <1>3, OnSwingInv, OnPlayingInv, OnErrorInv, StallTimeoutInv, HandleSpareInv DEF Event
<1>4. CASE Network
  BY <1>4, DataInv, MediaFailsInv DEF Network
<1>5. CASE Spare
  BY <1>5, PreloadNextInv, PreloadedInv, FadedOutInv DEF Spare
<1>6. CASE UNCHANGED vars
  BY <1>6, StutterInv
<1> QED
  BY <1>1, <1>2, <1>3, <1>4, <1>5, <1>6 DEF Next

\* Whatever order tickets, events, retries, fades and recoveries come in, the elements, the
\* loads and the store hang together: always so as to keep every value and every promise of
\* play() in place, and in order while no load went wrong behind another.
THEOREM PlaybackInvariant == Spec => []PlaybackInv
<1>1. PlaybackInv /\ [Next]_vars => PlaybackInv'
  BY InvStep
<1> QED
  BY InvInit, <1>1, PTL DEF Spec

\* The store, the elements and the loads have their types.
THEOREM TypeCorrect == Spec => []TypeOK
<1>1. PlaybackInv => TypeOK
  BY ValuedTypes DEF PlaybackInv
<1> QED
  BY PlaybackInvariant, <1>1, PTL

\* Once all is answered, what sounds is the track the player shows: SoundIsCurrent of
\* load(), the listeners of the elements and the spare.
THEOREM SoundFollows == Spec => []SoundIsCurrent
<1>1. PlaybackInv => SoundIsCurrent
  BY OrderlyQuiet
<1> QED
  BY PlaybackInvariant, <1>1, PTL

\* Then the button says what the element does: isPlaying of store/player.ts.
THEOREM ButtonFollows == Spec => []StoreAgrees
<1>1. PlaybackInv => StoreAgrees
  BY OrderlyQuiet
<1> QED
  BY PlaybackInvariant, <1>1, PTL

\* Then the element that was swapped out is silent: the two <audio> of engine.ts never play
\* over each other.
THEOREM OneSong == Spec => []OneSounds
<1>1. PlaybackInv => OneSounds
  BY OrderlyQuiet
<1> QED
  BY PlaybackInvariant, <1>1, PTL

\* Then what plays is audible: every way out of load() brings the volume back.
THEOREM NeverMute == Spec => []NotLeftMute
<1>1. PlaybackInv => NotLeftMute
  BY OrderlyQuiet
<1> QED
  BY PlaybackInvariant, <1>1, PTL
==============================================================================
