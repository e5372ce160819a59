--------------------------- MODULE DispatchProofs ---------------------------
(***************************************************************************)
(* What TLAPS proves of Dispatch, for any lines, workers and routes, on the  *)
(* event loop and in serial mode, with panics and a pipe that breaks: a      *)
(* drain loses nothing, and lines that must stay in order do.                *)
(*                                                                         *)
(* The argument: a line is in one place at a time (unread, in the channel,   *)
(* in one queue or on one thread, done), active_requests counts the lines in *)
(* flight together with those that a panic lost, and neither the channel nor *)
(* a queue lets one line pass another.                                       *)
(***************************************************************************)
EXTENDS Dispatch, FiniteSetTheorems, TLAPS

\* What a sequence holds.
Elems(s) == {s[i] : i \in 1..Len(s)}

\* No element of s occurs twice.
Once(s) == \A i, j \in 1..Len(s) : s[i] = s[j] => i = j

\* x occurs in s before an occurrence of y.
Precedes(s, x, y) == \E i, j \in 1..Len(s) : i < j /\ s[i] = x /\ s[j] = y

\* The lines that active_requests counts.
InFlight == {l \in Lines : Pending(l) \/ l \in lost}

\* The events in the channel are distinct; nothing is read after the end of the
\* input, and what was read is heard before it.
ChannelInv ==
  /\ Once(events)
  /\ \A l \in Lines : Sent(InputClosed) /\ Sent(Line(l)) =>
       Precedes(events, Line(l), InputClosed)
  /\ closing => ~Sent(InputClosed) /\ \A l \in Lines : ~Sent(Line(l))

\* A line is in one place.
PlaceInv ==
  /\ \A l \in unread : /\ l \notin Arrived /\ l \notin handled
                       /\ l \notin InFlight /\ ~Sent(Line(l))
  /\ \A l \in Lines :
       /\ Sent(Line(l)) => l \notin InFlight /\ l \notin handled
       /\ Sent(Completed(l)) => l \in handled /\ l \notin lost
       /\ l \in threads =>
            Route[l] = Concurrent /\ l \notin handled /\ l \notin lost
  /\ \A w \in Workers :
       /\ Once(queue[w])
       /\ running[w] \notin Queued(w)
       /\ \A l \in Lines : l = running[w] \/ l \in Queued(w) =>
            Route[l] = w /\ l \notin handled /\ l \notin lost

\* active_requests counts what is in flight, and what a panic lost.
CountInv ==
  /\ IsFiniteSet(InFlight) /\ active = Cardinality(InFlight)
  /\ serial => InFlight = {}
  /\ loop = "drained" => closing /\ active = 0

\* What came in is still to be heard, in flight, or done.
DoneInv ==
  /\ \A l \in lost : Route[l] \in Workers => Route[l] \notin alive
  /\ loop # "brokenPipe" =>
       \A l \in Arrived \intersect Sought :
         \/ Sent(Line(l)) \/ l \in InFlight
         \/ l \in handled /\ (l \in Silent \/ l \in Written)

\* l was read before m.
Before(l, m) == Precedes(arrived, l, m)

\* The channel and the queues keep the order of arrival.
OrderInv ==
  \A l, m \in Lines : Before(l, m) =>
    /\ Sent(Line(l)) => Precedes(events, Line(l), Line(m))
    /\ \A w \in Workers : l \in Queued(w) /\ m \in Queued(w) =>
         Precedes(queue[w], l, m)

\* What is handled leaves nothing behind that must come before it.
OrderedInv ==
  \A l, m \in Lines :
    /\ Before(l, m) /\ l \in Sought /\ SameOrder(l, m)
    /\ m \in handled \/ \E w \in Workers : running[w] = m
    => l \in handled

\* The inductive invariant.
IInv == TypeOK /\ ChannelInv /\ PlaceInv /\ CountInv /\ DoneInv /\ OrderInv /\ OrderedInv

-----------------------------------------------------------------------------
(* Sequences without repetition; the channel, the queues and the arrivals as *)
(* such sequences.                                                         *)

\* What Append adds, and that it lets nothing pass.
LEMMA AppendFacts ==
  ASSUME NEW S, NEW s \in Seq(S), NEW x \in S
  PROVE  /\ Append(s, x) \in Seq(S)
         /\ Elems(Append(s, x)) = Elems(s) \union {x}
         /\ Once(s) /\ x \notin Elems(s) => Once(Append(s, x))
         /\ \A y, z : Precedes(s, y, z) => Precedes(Append(s, x), y, z)
         /\ \A y \in Elems(s) : Precedes(Append(s, x), y, x)
         /\ \A y, z : Precedes(Append(s, x), y, z) =>
              Precedes(s, y, z) \/ (z = x /\ y \in Elems(s))
<1>1. /\ Append(s, x) \in Seq(S) /\ Len(s) \in Nat
      /\ Len(Append(s, x)) = Len(s) + 1
      /\ \A i \in 1..Len(s) : Append(s, x)[i] = s[i]
      /\ Append(s, x)[Len(s) + 1] = x
  OBVIOUS
<1>2. Elems(Append(s, x)) = Elems(s) \union {x}
  BY <1>1 DEF Elems
<1>3. ASSUME Once(s), x \notin Elems(s) PROVE Once(Append(s, x))
  BY <1>1, <1>3 DEF Elems, Once
<1>4. ASSUME NEW y, NEW z, Precedes(s, y, z) PROVE Precedes(Append(s, x), y, z)
  BY <1>1, <1>4 DEF Precedes
<1>5. ASSUME NEW y \in Elems(s) PROVE Precedes(Append(s, x), y, x)
  BY <1>1 DEF Precedes, Elems
<1>6. ASSUME NEW y, NEW z, Precedes(Append(s, x), y, z)
      PROVE  Precedes(s, y, z) \/ (z = x /\ y \in Elems(s))
  BY <1>1, <1>6 DEF Precedes, Elems
<1>7. QED
  BY <1>1, <1>2, <1>3, <1>4, <1>5, <1>6

\* What Tail takes away, and that nothing was ahead of the head.
LEMMA TailFacts ==
  ASSUME NEW S, NEW s \in Seq(S), s # <<>>
  PROVE  /\ Head(s) \in Elems(s) /\ Head(s) \in S
         /\ Tail(s) \in Seq(S)
         /\ Elems(s) = Elems(Tail(s)) \union {Head(s)}
         /\ Once(s) => Once(Tail(s)) /\ Head(s) \notin Elems(Tail(s))
         /\ \A y, z : Precedes(s, y, z) /\ y # Head(s) => Precedes(Tail(s), y, z)
         /\ Once(s) => \A y : ~Precedes(s, y, Head(s))
<1>1. /\ Tail(s) \in Seq(S) /\ Len(s) \in Nat \ {0}
      /\ Len(Tail(s)) = Len(s) - 1
      /\ Head(s) = s[1] /\ Head(s) \in S
      /\ \A i \in 1..Len(Tail(s)) : Tail(s)[i] = s[i + 1]
  OBVIOUS
<1>2. Elems(s) = Elems(Tail(s)) \union {Head(s)}
  <2>1. ASSUME NEW i \in 1..Len(s)
        PROVE  s[i] \in Elems(Tail(s)) \union {Head(s)}
    <3>1. CASE i = 1
      BY <1>1, <3>1
    <3>2. CASE i # 1
      <4>1. i - 1 \in 1..Len(Tail(s)) /\ (i - 1) + 1 = i
        BY <1>1, <3>2
      <4>2. Tail(s)[i - 1] = s[i]
        BY <1>1, <4>1
      <4>3. QED
        BY <4>1, <4>2 DEF Elems
    <3>3. QED
      BY <3>1, <3>2
  <2>2. ASSUME NEW i \in 1..Len(Tail(s)) PROVE Tail(s)[i] \in Elems(s)
    BY <1>1 DEF Elems
  <2>3. Head(s) \in Elems(s)
    BY <1>1 DEF Elems
  <2>4. QED
    BY <2>1, <2>2, <2>3 DEF Elems
<1>3. ASSUME Once(s) PROVE Once(Tail(s)) /\ Head(s) \notin Elems(Tail(s))
  BY <1>1, <1>3 DEF Elems, Once
<1>4. ASSUME NEW y, NEW z, Precedes(s, y, z), y # Head(s) PROVE Precedes(Tail(s), y, z)
  <2>1. PICK i \in 1..Len(s), j \in 1..Len(s) : i < j /\ s[i] = y /\ s[j] = z
    BY <1>4 DEF Precedes
  <2>2. i - 1 \in 1..Len(Tail(s)) /\ j - 1 \in 1..Len(Tail(s)) /\ i - 1 < j - 1
    BY <1>1, <1>4, <2>1
  <2>3. Tail(s)[i - 1] = y /\ Tail(s)[j - 1] = z
    BY <1>1, <2>1, <2>2
  <2>4. QED
    BY <2>2, <2>3 DEF Precedes
<1>5. ASSUME Once(s), NEW y, Precedes(s, y, Head(s)) PROVE FALSE
  BY <1>1, <1>5 DEF Precedes, Once
<1>6. QED
  BY <1>1, <1>2, <1>3, <1>4, <1>5

\* Nothing is in the empty sequence.
LEMMA EmptyFacts == Elems(<<>>) = {} /\ Once(<<>>) /\ \A y, z : ~Precedes(<<>>, y, z)
  BY DEF Elems, Once, Precedes

\* An event tells of what it is.
LEMMA EventsDiffer ==
  /\ InputClosed \in Events /\ ParentGone \in Events /\ InputClosed # ParentGone
  /\ \A l \in Lines :
       /\ Line(l) \in Events /\ Completed(l) \in Events
       /\ Line(l) # InputClosed /\ Line(l) # ParentGone
       /\ Completed(l) # InputClosed /\ Completed(l) # ParentGone
  /\ \A l, m \in Lines :
       /\ Line(l) # Completed(m)
       /\ Line(l) = Line(m) => l = m
       /\ Completed(l) = Completed(m) => l = m
  BY DEF Events, InputClosed, ParentGone, Line, Completed

\* The names that Dispatch has for the elements of its sequences.
LEMMA Names ==
  /\ Arrived = Elems(arrived) /\ Written = Elems(written)
  /\ \A e : Sent(e) <=> e \in Elems(events)
  /\ \A w : Queued(w) = Elems(queue[w])
  /\ Arrived' = Elems(arrived') /\ Written' = Elems(written')
  /\ \A e : Sent(e)' <=> e \in Elems(events')
  /\ \A w \in Workers : Queued(w)' = Elems(queue'[w])
  BY DEF Arrived, Written, Sent, Queued, Elems

\* The loop takes the event at the head of the channel.
LEMMA EventTaken ==
  ASSUME TypeOK, Once(events), NEW e, Receive(e)
  PROVE  /\ events' \in Seq(Events) /\ Once(events')
         /\ e \in Events /\ Sent(e)
         /\ \A f : Sent(f)' <=> Sent(f) /\ f # e
         /\ \A f, g : Precedes(events, f, g) /\ f # e => Precedes(events', f, g)
         /\ \A f : ~Precedes(events, f, e)
<1>1. events \in Seq(Events) /\ events # <<>> /\ e = Head(events) /\ events' = Tail(events)
  BY DEF TypeOK, Receive
<1>2. /\ Tail(events) \in Seq(Events) /\ Once(Tail(events))
      /\ Head(events) \in Events /\ Head(events) \in Elems(events)
      /\ Elems(Tail(events)) = Elems(events) \ {Head(events)}
      /\ \A f, g : Precedes(events, f, g) /\ f # Head(events) =>
           Precedes(Tail(events), f, g)
      /\ \A f : ~Precedes(events, f, Head(events))
  BY <1>1, TailFacts
<1>3. QED
  BY <1>1, <1>2, Names

\* The reader, a worker, a thread or the watchdog puts one behind the others.
LEMMA EventPut ==
  ASSUME TypeOK, Once(events), NEW e \in Events, ~Sent(e), events' = Append(events, e)
  PROVE  /\ events' \in Seq(Events) /\ Once(events')
         /\ \A f : Sent(f)' <=> Sent(f) \/ f = e
         /\ \A f, g : Precedes(events, f, g) => Precedes(events', f, g)
         /\ \A f : Sent(f) => Precedes(events', f, e)
         /\ \A f, g : Precedes(events', f, g) => Precedes(events, f, g) \/ g = e
<1>1. events \in Seq(Events)
  BY DEF TypeOK
<1>2. QED
  BY <1>1, AppendFacts, Names

\* The channel as it was.
LEMMA EventsKept ==
  ASSUME UNCHANGED events
  PROVE  \A f : Sent(f)' <=> Sent(f)
BY DEF Sent

\* The queues as they were.
LEMMA QueuesKept ==
  ASSUME UNCHANGED queue
  PROVE  \A w \in Workers : Queued(w)' = Queued(w) /\ queue'[w] = queue[w]
BY DEF Queued

\* Worker w takes the line at the head of its queue.
LEMMA QueueTaken ==
  ASSUME TypeOK, PlaceInv, NEW w \in Workers, queue[w] # <<>>,
         queue' = [queue EXCEPT ![w] = Tail(queue[w])]
  PROVE  /\ queue' \in [Workers -> Seq(Lines)]
         /\ Head(queue[w]) \in Lines /\ Head(queue[w]) \in Queued(w)
         /\ Queued(w)' = Queued(w) \ {Head(queue[w])} /\ Once(queue'[w])
         /\ \A l, m : Precedes(queue[w], l, m) /\ l # Head(queue[w]) =>
              Precedes(queue'[w], l, m)
         /\ \A l : ~Precedes(queue[w], l, Head(queue[w]))
         /\ \A v \in Workers \ {w} : Queued(v)' = Queued(v) /\ queue'[v] = queue[v]
<1>1. queue[w] \in Seq(Lines) /\ Once(queue[w])
  BY DEF TypeOK, PlaceInv
<1>2. /\ Tail(queue[w]) \in Seq(Lines)
      /\ Head(queue[w]) \in Lines /\ Head(queue[w]) \in Elems(queue[w])
      /\ Elems(Tail(queue[w])) = Elems(queue[w]) \ {Head(queue[w])}
      /\ Once(Tail(queue[w]))
      /\ \A l, m : Precedes(queue[w], l, m) /\ l # Head(queue[w]) =>
              Precedes(Tail(queue[w]), l, m)
      /\ \A l : ~Precedes(queue[w], l, Head(queue[w]))
  <2> DEFINE q == queue[w]
  <2>1. q \in Seq(Lines) /\ q # <<>> /\ Once(q)
    BY <1>1
  <2> HIDE DEF q
  <2>2. /\ Tail(q) \in Seq(Lines) /\ Head(q) \in Lines /\ Head(q) \in Elems(q)
        /\ Elems(Tail(q)) = Elems(q) \ {Head(q)} /\ Once(Tail(q))
        /\ \A l, m : Precedes(q, l, m) /\ l # Head(q) => Precedes(Tail(q), l, m)
        /\ \A l : ~Precedes(q, l, Head(q))
    BY <2>1, TailFacts
  <2>3. QED
    BY <2>2 DEF q
<1>3. queue' \in [Workers -> Seq(Lines)]
  BY <1>2 DEF TypeOK
<1>4. queue'[w] = Tail(queue[w]) /\ \A v \in Workers \ {w} : queue'[v] = queue[v]
  BY DEF TypeOK
<1>5. QED
  BY <1>2, <1>3, <1>4, Names

\* The loop puts l into the queue of w.
LEMMA QueuePut ==
  ASSUME TypeOK, PlaceInv, NEW w \in Workers, NEW l \in Lines, l \notin Queued(w),
         queue' = [queue EXCEPT ![w] = Append(@, l)]
  PROVE  /\ queue' \in [Workers -> Seq(Lines)]
         /\ Queued(w)' = Queued(w) \union {l} /\ Once(queue'[w])
         /\ \A k, m : Precedes(queue[w], k, m) => Precedes(queue'[w], k, m)
         /\ \A k \in Queued(w) : Precedes(queue'[w], k, l)
         /\ \A v \in Workers \ {w} : Queued(v)' = Queued(v) /\ queue'[v] = queue[v]
<1>1. queue[w] \in Seq(Lines) /\ Once(queue[w])
  BY DEF TypeOK, PlaceInv
<1>2. /\ Append(queue[w], l) \in Seq(Lines)
      /\ Elems(Append(queue[w], l)) = Elems(queue[w]) \union {l}
      /\ Once(Append(queue[w], l))
      /\ \A k, m : Precedes(queue[w], k, m) => Precedes(Append(queue[w], l), k, m)
      /\ \A k \in Elems(queue[w]) : Precedes(Append(queue[w], l), k, l)
  BY <1>1, AppendFacts, Names
<1>3. queue' \in [Workers -> Seq(Lines)]
  BY <1>2 DEF TypeOK
<1>4. queue'[w] = Append(queue[w], l) /\ \A v \in Workers \ {w} : queue'[v] = queue[v]
  BY DEF TypeOK
<1>5. QED
  BY <1>2, <1>3, <1>4, Names

\* A worker that dies loses its queue.
LEMMA QueueDropped ==
  ASSUME TypeOK, NEW w \in Workers, queue' = [queue EXCEPT ![w] = <<>>]
  PROVE  /\ queue' \in [Workers -> Seq(Lines)]
         /\ Queued(w)' = {} /\ Once(queue'[w])
         /\ \A v \in Workers \ {w} : Queued(v)' = Queued(v) /\ queue'[v] = queue[v]
<1>1. <<>> \in Seq(Lines)
  OBVIOUS
<1>2. queue' \in [Workers -> Seq(Lines)]
  BY <1>1 DEF TypeOK
<1>3. queue'[w] = <<>> /\ \A v \in Workers \ {w} : queue'[v] = queue[v]
  BY DEF TypeOK
<1>4. QED
  BY <1>2, <1>3, EmptyFacts, Names

\* The line the reader sends is behind all others, wherever it looks.
LEMMA LineRead ==
  ASSUME TypeOK, PlaceInv, NEW l \in unread, arrived' = Append(arrived, l)
  PROVE  /\ l \in Lines /\ arrived' \in Seq(Lines)
         /\ Arrived' = Arrived \union {l}
         /\ \A k, m : Before(k, m)' => Before(k, m) \/ (m = l /\ k \in Arrived)
<1>1. l \in Lines /\ arrived \in Seq(Lines)
  BY DEF TypeOK
<1>2. QED
  BY <1>1, AppendFacts, Names DEF Before

\* Only what was read is before anything.
LEMMA BeforeArrived == \A l, m : Before(l, m) => l \in Arrived /\ m \in Arrived
BY DEF Before, Precedes, Arrived

-----------------------------------------------------------------------------
(* The inductive invariant, step by step.                                   *)

\* A line that the reader sends is behind all others, and in no other place.
LEMMA ReadKeeps ==
  ASSUME IInv, NEW l \in Lines, ReadLine(l)
  PROVE  IInv'
<1> USE DEF IInv
<1>1. /\ l \in unread /\ ~Sent(InputClosed) /\ ~closing
      /\ unread' = unread \ {l} /\ events' = Append(events, Line(l))
      /\ arrived' = Append(arrived, l)
      /\ UNCHANGED <<serial, queue, running, alive, threads, handled, lost,
                     active, closing, loop, written>>
  BY DEF ReadLine, workVars, loopVars
<1>2. ~Sent(Line(l)) /\ Line(l) \in Events
  BY <1>1, EventsDiffer DEF PlaceInv
<1>3. /\ events' \in Seq(Events) /\ Once(events')
      /\ \A f : Sent(f)' <=> Sent(f) \/ f = Line(l)
      /\ \A f, g : Precedes(events, f, g) => Precedes(events', f, g)
      /\ \A f : Sent(f) => Precedes(events', f, Line(l))
  BY <1>1, <1>2, EventPut DEF ChannelInv
<1>4. /\ arrived' \in Seq(Lines) /\ Arrived' = Arrived \union {l}
      /\ \A k, m : Before(k, m)' => Before(k, m) \/ (m = l /\ k \in Arrived)
  BY <1>1, LineRead
<1>5. \A w \in Workers : Queued(w)' = Queued(w) /\ queue'[w] = queue[w]
  BY <1>1, QueuesKept
<1>6. InFlight' = InFlight
  BY <1>1, <1>3, <1>5, EventsDiffer DEF InFlight, Pending
<1>7. TypeOK'
  BY <1>1, <1>3, <1>4 DEF TypeOK
<1>8. ChannelInv'
  BY <1>1, <1>3, EventsDiffer DEF ChannelInv
<1>9. PlaceInv'
  BY <1>1, <1>2, <1>3, <1>4, <1>5, <1>6, EventsDiffer DEF PlaceInv, TypeOK
<1>10. CountInv'
  BY <1>1, <1>6 DEF CountInv
<1>11. DoneInv'
  BY <1>1, <1>3, <1>4, <1>6, Names DEF DoneInv, Sought, TypeOK
<1>12. OrderInv'
  <2>1. ASSUME NEW k \in Lines, NEW m \in Lines, Before(k, m)', Sent(Line(k))'
        PROVE  Precedes(events', Line(k), Line(m))
    <3>1. CASE Before(k, m)
      <4>1. k # l
        BY <3>1, <1>1, BeforeArrived DEF PlaceInv
      <4>2. Sent(Line(k))
        BY <2>1, <4>1, <1>3, EventsDiffer
      <4>3. QED
        BY <3>1, <4>2, <1>3 DEF OrderInv
    <3>2. CASE m = l /\ k \in Arrived
      <4>1. Sent(Line(k))
        BY <2>1, <3>2, <1>1, <1>3, EventsDiffer DEF PlaceInv
      <4>2. QED
        BY <3>2, <4>1, <1>3
    <3>3. QED
      BY <2>1, <3>1, <3>2, <1>4
  <2>2. ASSUME NEW k \in Lines, NEW m \in Lines, Before(k, m)', NEW w \in Workers,
               k \in Queued(w)', m \in Queued(w)'
        PROVE  Precedes(queue'[w], k, m)
    BY <2>2, <1>1, <1>4, <1>5 DEF OrderInv, PlaceInv, InFlight, Pending
  <2>3. QED
    BY <2>1, <2>2 DEF OrderInv
<1>13. OrderedInv'
  <2>1. l \notin handled /\ \A w \in Workers : running[w] # l
    BY <1>1 DEF PlaceInv, InFlight, Pending
  <2>2. QED
    BY <2>1, <1>1, <1>4 DEF OrderedInv, SameOrder
<1>14. QED
  BY <1>7, <1>8, <1>9, <1>10, <1>11, <1>12, <1>13

\* An event that concerns no line.
LEMMA NoticeKeeps ==
  ASSUME IInv, InputEnds \/ ParentDies
  PROVE  IInv'
<1> USE DEF IInv
<1>1. PICK e \in {InputClosed, ParentGone} :
        /\ ~Sent(e) /\ events' = Append(events, e)
        /\ e = InputClosed => ~closing
  <2>1. CASE InputEnds
    BY <2>1 DEF InputEnds
  <2>2. CASE ParentDies
    BY <2>2, EventsDiffer DEF ParentDies
  <2>3. QED
    BY <2>1, <2>2
<1>2. UNCHANGED <<serial, unread, arrived, queue, running, alive, threads, handled, lost,
                  active, closing, loop, written>>
  BY DEF InputEnds, ParentDies, workVars, loopVars, inputVars
<1>3. /\ events' \in Seq(Events) /\ Once(events')
      /\ \A f : Sent(f)' <=> Sent(f) \/ f = e
      /\ \A f, g : Precedes(events, f, g) => Precedes(events', f, g)
      /\ \A f : Sent(f) => Precedes(events', f, e)
  BY <1>1, EventPut, EventsDiffer DEF ChannelInv
<1>4. \A k \in Lines : (Sent(Line(k))' <=> Sent(Line(k)))
                       /\ (Sent(Completed(k))' <=> Sent(Completed(k)))
  BY <1>3, EventsDiffer
<1>5. \A w \in Workers : Queued(w)' = Queued(w) /\ queue'[w] = queue[w]
  BY <1>2, QueuesKept
<1>6. InFlight' = InFlight
  BY <1>2, <1>4, <1>5 DEF InFlight, Pending
<1>7. Arrived' = Arrived /\ Written' = Written
      /\ \A k, m : Before(k, m)' <=> Before(k, m)
  BY <1>2, Names DEF Before
<1>8. TypeOK'
  BY <1>2, <1>3 DEF TypeOK
<1>9. ChannelInv'
  BY <1>1, <1>2, <1>3, <1>4, EventsDiffer DEF ChannelInv
<1>10. PlaceInv'
  BY <1>2, <1>4, <1>5, <1>6, <1>7 DEF PlaceInv, TypeOK
<1>11. CountInv'
  BY <1>2, <1>6 DEF CountInv
<1>12. DoneInv'
  BY <1>2, <1>4, <1>6, <1>7 DEF DoneInv, Sought, TypeOK
<1>13. OrderInv'
  BY <1>3, <1>4, <1>5, <1>7 DEF OrderInv
<1>14. OrderedInv'
  BY <1>2, <1>7 DEF OrderedInv, SameOrder
<1>15. QED
  BY <1>8, <1>9, <1>10, <1>11, <1>12, <1>13, <1>14

\* What arrived behind a line that is still in the channel is there, too.
LEMMA SentBefore ==
  ASSUME IInv, NEW l \in Lines, NEW m \in Lines, Before(l, m), Sent(Line(l))
  PROVE  Sent(Line(m))
BY Names DEF IInv, OrderInv, Precedes, Elems

\* While the loop runs, a line in flight that is routed to a worker that lives is
\* queued there, handled by it, or handled.
LEMMA WhereaboutsOnWorker ==
  ASSUME IInv, NEW w \in alive, NEW l \in Arrived, Route[l] = w, loop = "runs", ~serial
  PROVE  Sent(Line(l)) \/ l \in Queued(w) \/ l = running[w] \/ l \in handled
<1>1. l \in Lines /\ l \in Sought /\ w \in Workers
  BY Names, RouteAssumption DEF IInv, TypeOK, Sought, Arrived
<1>2. CASE l \in InFlight
  <2>1. l \notin lost
    BY <1>1 DEF IInv, DoneInv
  <2>2. l \notin threads
    BY <1>1, RouteAssumption DEF IInv, PlaceInv
  <2>3. \A v \in Workers : running[v] = l \/ l \in Queued(v) => v = w
    BY <1>1 DEF IInv, PlaceInv
  <2>4. Sent(Completed(l)) => l \in handled
    BY <1>1 DEF IInv, PlaceInv
  <2>5. QED
    BY <1>2, <2>1, <2>2, <2>3, <2>4 DEF InFlight, Pending
<1>3. QED
  BY <1>1, <1>2 DEF IInv, DoneInv

\* A worker takes the head of its queue: nothing ahead of it is queued there.
LEMMA TakeKeeps ==
  ASSUME IInv, NEW w \in Workers, WorkerTakes(w)
  PROVE  IInv'
<1> USE DEF IInv
<1> DEFINE m == Head(queue[w])
<1>1. /\ loop = "runs" /\ w \in alive /\ running[w] = Idle /\ queue[w] # <<>>
      /\ running' = [running EXCEPT ![w] = m]
      /\ queue' = [queue EXCEPT ![w] = Tail(queue[w])]
      /\ UNCHANGED <<serial, unread, arrived, events, alive, threads, handled, lost,
                     active, closing, loop, written>>
  BY DEF WorkerTakes, inputVars, loopVars
<1>2. /\ queue' \in [Workers -> Seq(Lines)]
      /\ m \in Lines /\ m \in Queued(w)
      /\ Queued(w)' = Queued(w) \ {m} /\ Once(queue'[w])
      /\ \A k, l : Precedes(queue[w], k, l) /\ k # m => Precedes(queue'[w], k, l)
      /\ \A k : ~Precedes(queue[w], k, m)
      /\ \A v \in Workers \ {w} : Queued(v)' = Queued(v) /\ queue'[v] = queue[v]
  BY <1>1, QueueTaken
<1> HIDE DEF m
<1>3. /\ running' \in [Workers -> Lines \union {Idle}] /\ running'[w] = m
      /\ \A v \in Workers \ {w} : running'[v] = running[v]
  BY <1>1, <1>2 DEF TypeOK
<1>4. \A f : Sent(f)' <=> Sent(f)
  BY <1>1, EventsKept
<1>5. \A v \in Workers, l \in Lines :
        (running'[v] = l \/ l \in Queued(v)') <=> (running[v] = l \/ l \in Queued(v))
  BY <1>1, <1>2, <1>3, RouteAssumption
<1>6. InFlight' = InFlight
  BY <1>1, <1>4, <1>5 DEF InFlight, Pending
<1>7. Arrived' = Arrived /\ Written' = Written
      /\ \A k, l : Before(k, l)' <=> Before(k, l)
  BY <1>1, Names DEF Before
<1>8. ~serial
  BY <1>2 DEF CountInv, InFlight, Pending
<1>9. TypeOK'
  BY <1>1, <1>2, <1>3 DEF TypeOK
<1>10. ChannelInv'
  BY <1>1, <1>4 DEF ChannelInv
<1>11. PlaceInv'
  <2>1. ASSUME NEW v \in Workers
        PROVE  Once(queue'[v]) /\ running'[v] \notin Queued(v)'
    BY <1>2, <1>3 DEF PlaceInv
  <2>2. QED
    BY <2>1, <1>1, <1>4, <1>5, <1>6, <1>7 DEF PlaceInv, TypeOK
<1>12. CountInv'
  BY <1>1, <1>6 DEF CountInv
<1>13. DoneInv'
  BY <1>1, <1>4, <1>6, <1>7 DEF DoneInv, Sought, TypeOK
<1>14. OrderInv'
  <2>1. ASSUME NEW k \in Lines, NEW l \in Lines, Before(k, l), NEW v \in Workers,
               k \in Queued(v)', l \in Queued(v)'
        PROVE  Precedes(queue'[v], k, l)
    BY <2>1, <1>2 DEF OrderInv
  <2>2. QED
    BY <2>1, <1>1, <1>4, <1>7 DEF OrderInv
<1>15. OrderedInv'
  <2>1. ASSUME NEW k \in Lines, Before(k, m), k \in Sought, SameOrder(k, m)
        PROVE  k \in handled
    <3>1. k \in Arrived /\ Route[k] = Route[m] /\ Route[m] = w
      BY <2>1, <1>2, <1>8, BeforeArrived DEF SameOrder, PlaceInv
    <3>2. ~Sent(Line(k))
      <4>1. Sent(Line(k)) => Sent(Line(m))
        BY <2>1, <1>2, SentBefore
      <4>2. QED
        BY <4>1, <1>2 DEF PlaceInv, InFlight, Pending
    <3>3. k \notin Queued(w)
      BY <2>1, <1>2 DEF OrderInv
    <3>4. k # running[w]
      BY <1>1, RouteAssumption
    <3>5. QED
      BY <3>1, <3>2, <3>3, <3>4, <1>1, <1>8, WhereaboutsOnWorker
  <2>2. QED
    BY <2>1, <1>1, <1>2, <1>3, <1>7 DEF OrderedInv, SameOrder
<1>16. QED
  BY <1>9, <1>10, <1>11, <1>12, <1>13, <1>14, <1>15

\* A worker finishes: the completion stands for the line in the count.
LEMMA FinishKeeps ==
  ASSUME IInv, NEW w \in Workers, WorkerFinishes(w)
  PROVE  IInv'
<1> USE DEF IInv
<1> DEFINE m == running[w]
<1>1. /\ loop = "runs" /\ m # Idle
      /\ events' = Append(events, Completed(m))
      /\ handled' = handled \union {m}
      /\ running' = [running EXCEPT ![w] = Idle]
      /\ UNCHANGED <<serial, unread, arrived, queue, alive, threads, lost,
                     active, closing, loop, written>>
  BY DEF WorkerFinishes, inputVars, loopVars
<1>2. m \in Lines /\ m = running[w] /\ m \in InFlight
  BY <1>1 DEF TypeOK, InFlight, Pending
<1> HIDE DEF m
<1>3. /\ running' \in [Workers -> Lines \union {Idle}] /\ running'[w] = Idle
      /\ \A v \in Workers \ {w} : running'[v] = running[v]
  BY <1>1 DEF TypeOK
<1>4. Completed(m) \in Events /\ ~Sent(Completed(m))
  BY <1>2, EventsDiffer DEF PlaceInv
<1>5. /\ events' \in Seq(Events) /\ Once(events')
      /\ \A f : Sent(f)' <=> Sent(f) \/ f = Completed(m)
      /\ \A f, g : Precedes(events, f, g) => Precedes(events', f, g)
  BY <1>1, <1>4, EventPut DEF ChannelInv
<1>6. \A k \in Lines : Sent(Line(k))' <=> Sent(Line(k))
  BY <1>2, <1>5, EventsDiffer
<1>7. \A k \in Lines : Sent(Completed(k))' <=> Sent(Completed(k)) \/ k = m
  BY <1>2, <1>5, EventsDiffer
<1>8. \A v \in Workers : Queued(v)' = Queued(v) /\ queue'[v] = queue[v]
  BY <1>1, QueuesKept
<1>9. InFlight' = InFlight
  <2>1. \A k \in Lines : Pending(k)' <=> Pending(k)
    BY <1>1, <1>2, <1>3, <1>7, <1>8, RouteAssumption DEF Pending
  <2>2. QED
    BY <1>1, <2>1 DEF InFlight
<1>10. Arrived' = Arrived /\ Written' = Written
       /\ \A k, l : Before(k, l)' <=> Before(k, l)
  BY <1>1, Names DEF Before
<1>11. TypeOK'
  BY <1>1, <1>2, <1>3, <1>5 DEF TypeOK
<1>12. ChannelInv'
  BY <1>1, <1>2, <1>5, <1>6, EventsDiffer DEF ChannelInv
<1>13. PlaceInv'
  <2>1. ASSUME NEW v \in Workers
        PROVE  /\ Once(queue'[v]) /\ running'[v] \notin Queued(v)'
               /\ \A k \in Lines : k = running'[v] \/ k \in Queued(v)' =>
                    Route[k] = v /\ k \notin handled' /\ k \notin lost'
    <3>1. Idle \notin Queued(v)
      BY Names, RouteAssumption DEF TypeOK, Elems
    <3>2. \A k \in Lines : k = running'[v] \/ k \in Queued(v)' =>
            (k = running[v] \/ k \in Queued(v)) /\ k # m
      BY <1>2, <1>3, <1>8, RouteAssumption DEF PlaceInv
    <3>3. QED
      BY <3>1, <3>2, <1>1, <1>3, <1>8 DEF PlaceInv
  <2>2. ASSUME NEW k \in Lines
        PROVE  /\ Sent(Line(k))' => k \notin InFlight' /\ k \notin handled'
               /\ Sent(Completed(k))' => k \in handled' /\ k \notin lost'
               /\ k \in threads' =>
                    Route[k] = Concurrent /\ k \notin handled' /\ k \notin lost'
    BY <1>1, <1>2, <1>6, <1>7, <1>9, RouteAssumption DEF PlaceInv
  <2>3. \A k \in unread' : /\ k \notin Arrived' /\ k \notin handled'
                           /\ k \notin InFlight' /\ ~Sent(Line(k))'
    BY <1>1, <1>2, <1>6, <1>9, <1>10 DEF PlaceInv, TypeOK
  <2>4. QED
    BY <2>1, <2>2, <2>3 DEF PlaceInv
<1>14. CountInv'
  BY <1>1, <1>9 DEF CountInv
<1>15. DoneInv'
  BY <1>1, <1>6, <1>9, <1>10 DEF DoneInv, Sought, TypeOK
<1>16. OrderInv'
  BY <1>5, <1>6, <1>8, <1>10 DEF OrderInv
<1>17. OrderedInv'
  BY <1>1, <1>2, <1>3, <1>10, RouteAssumption DEF OrderedInv, SameOrder
<1>18. QED
  BY <1>11, <1>12, <1>13, <1>14, <1>15, <1>16, <1>17

\* A handler panics on a worker: the line and its queue are lost, and counted.
LEMMA DieKeeps ==
  ASSUME IInv, NEW w \in Workers, WorkerDies(w)
  PROVE  IInv'
<1> USE DEF IInv
<1> DEFINE m == running[w]
<1>1. /\ loop = "runs" /\ m # Idle
      /\ handled' = handled \union {m}
      /\ running' = [running EXCEPT ![w] = Idle]
      /\ queue' = [queue EXCEPT ![w] = <<>>]
      /\ alive' = alive \ {w}
      /\ lost' = lost \union {m} \union Queued(w)
      /\ UNCHANGED <<serial, unread, arrived, events, threads,
                     active, closing, loop, written>>
  BY DEF WorkerDies, inputVars, loopVars
<1>2. m \in Lines /\ m = running[w] /\ m \in InFlight /\ Route[m] = w
  BY <1>1 DEF TypeOK, InFlight, Pending, PlaceInv
<1> HIDE DEF m
<1>3. /\ running' \in [Workers -> Lines \union {Idle}] /\ running'[w] = Idle
      /\ \A v \in Workers \ {w} : running'[v] = running[v]
  BY <1>1 DEF TypeOK
<1>4. /\ queue' \in [Workers -> Seq(Lines)]
      /\ Queued(w)' = {} /\ Once(queue'[w])
      /\ \A v \in Workers \ {w} : Queued(v)' = Queued(v) /\ queue'[v] = queue[v]
  BY <1>1, QueueDropped
<1>5. \A f : Sent(f)' <=> Sent(f)
  BY <1>1, EventsKept
<1>6. \A k \in Queued(w) : k \in Lines /\ Route[k] = w /\ k \notin handled /\ k # m
  BY <1>2, Names DEF PlaceInv, TypeOK, Elems
<1>7. InFlight' = InFlight
  <2>1. \A k \in Lines : Pending(k)' \/ k \in lost' <=> Pending(k) \/ k \in lost
    BY <1>1, <1>2, <1>3, <1>4, <1>5, RouteAssumption DEF Pending
  <2>2. QED
    BY <2>1 DEF InFlight
<1>8. Arrived' = Arrived /\ Written' = Written
       /\ \A k, l : Before(k, l)' <=> Before(k, l)
  BY <1>1, Names DEF Before
<1>9. \A k \in Queued(w) \union {m} : ~Sent(Completed(k)) /\ k \notin threads
  BY <1>2, <1>6, RouteAssumption DEF PlaceInv
<1>10. TypeOK'
  BY <1>1, <1>2, <1>3, <1>4, <1>6 DEF TypeOK
<1>11. ChannelInv'
  BY <1>1, <1>5 DEF ChannelInv
<1>12. PlaceInv'
  <2>1. ASSUME NEW v \in Workers
        PROVE  /\ Once(queue'[v]) /\ running'[v] \notin Queued(v)'
               /\ \A k \in Lines : k = running'[v] \/ k \in Queued(v)' =>
                    Route[k] = v /\ k \notin handled' /\ k \notin lost'
    <3>1. CASE v = w
      BY <3>1, <1>3, <1>4, RouteAssumption
    <3>2. CASE v # w
      BY <3>2, <1>1, <1>2, <1>3, <1>4, <1>6 DEF PlaceInv
    <3>3. QED
      BY <3>1, <3>2
  <2>2. ASSUME NEW k \in Lines
        PROVE  /\ Sent(Line(k))' => k \notin InFlight' /\ k \notin handled'
               /\ Sent(Completed(k))' => k \in handled' /\ k \notin lost'
               /\ k \in threads' =>
                    Route[k] = Concurrent /\ k \notin handled' /\ k \notin lost'
    BY <1>1, <1>2, <1>5, <1>7, <1>9 DEF PlaceInv
  <2>3. \A k \in unread' : /\ k \notin Arrived' /\ k \notin handled'
                           /\ k \notin InFlight' /\ ~Sent(Line(k))'
    BY <1>1, <1>2, <1>5, <1>7, <1>8 DEF PlaceInv, TypeOK
  <2>4. QED
    BY <2>1, <2>2, <2>3 DEF PlaceInv
<1>13. CountInv'
  BY <1>1, <1>7 DEF CountInv
<1>14. DoneInv'
  <2>1. ASSUME NEW k \in lost', Route[k] \in Workers PROVE Route[k] \notin alive'
    BY <2>1, <1>1, <1>2, <1>6 DEF DoneInv
  <2>2. QED
    BY <2>1, <1>1, <1>5, <1>7, <1>8 DEF DoneInv, Sought, TypeOK
<1>15. OrderInv'
  BY <1>1, <1>4, <1>5, <1>8 DEF OrderInv
<1>16. OrderedInv'
  BY <1>1, <1>2, <1>3, <1>8, RouteAssumption DEF OrderedInv, SameOrder
<1>17. QED
  BY <1>10, <1>11, <1>12, <1>13, <1>14, <1>15, <1>16

\* A thread of its own finishes or panics.
LEMMA ThreadKeeps ==
  ASSUME IInv, NEW m \in Lines, ThreadFinishes(m) \/ ThreadDies(m)
  PROVE  IInv'
<1> USE DEF IInv
<1>1. /\ loop = "runs" /\ m \in threads /\ threads' = threads \ {m}
      /\ handled' = handled \union {m}
      /\ UNCHANGED <<serial, unread, arrived, queue, running, alive,
                     active, closing, loop, written>>
  BY DEF ThreadFinishes, ThreadDies, inputVars, loopVars
<1>2. Route[m] = Concurrent /\ m \notin handled /\ m \notin lost /\ m \in InFlight
  BY <1>1 DEF PlaceInv, InFlight, Pending
<1>3. Completed(m) \in Events /\ ~Sent(Completed(m))
  BY <1>2, EventsDiffer DEF PlaceInv
<1>4. /\ events' \in Seq(Events) /\ Once(events')
      /\ \A k \in Lines : Sent(Line(k))' <=> Sent(Line(k))
      /\ Sent(InputClosed)' <=> Sent(InputClosed)
      /\ \A f, g : Precedes(events, f, g) => Precedes(events', f, g)
      /\ \/ /\ lost' = lost
            /\ \A k \in Lines : Sent(Completed(k))' <=> Sent(Completed(k)) \/ k = m
         \/ /\ lost' = lost \union {m}
            /\ \A k \in Lines : Sent(Completed(k))' <=> Sent(Completed(k))
  <2>1. CASE ThreadFinishes(m)
    <3>1. events' = Append(events, Completed(m)) /\ lost' = lost
      BY <2>1 DEF ThreadFinishes
    <3>2. /\ events' \in Seq(Events) /\ Once(events')
          /\ \A f : Sent(f)' <=> Sent(f) \/ f = Completed(m)
          /\ \A f, g : Precedes(events, f, g) => Precedes(events', f, g)
      BY <3>1, <1>3, EventPut DEF ChannelInv
    <3>3. QED
      BY <3>1, <3>2, EventsDiffer
  <2>2. CASE ThreadDies(m)
    <3>1. events' = events /\ lost' = lost \union {m}
      BY <2>2 DEF ThreadDies
    <3>2. QED
      BY <3>1, EventsKept DEF TypeOK, ChannelInv
  <2>3. QED
    BY <2>1, <2>2
<1>5. \A v \in Workers : Queued(v)' = Queued(v) /\ queue'[v] = queue[v]
  BY <1>1, QueuesKept
<1>6. InFlight' = InFlight
  <2>1. \A k \in Lines : Pending(k)' \/ k \in lost' <=> Pending(k) \/ k \in lost
    BY <1>1, <1>4, <1>5 DEF Pending
  <2>2. QED
    BY <2>1 DEF InFlight
<1>7. Arrived' = Arrived /\ Written' = Written
       /\ \A k, l : Before(k, l)' <=> Before(k, l)
  BY <1>1, Names DEF Before
<1>8. \A w \in Workers : m # running[w] /\ m \notin Queued(w) /\ Route[m] # w
  BY <1>2, RouteAssumption DEF PlaceInv
<1>9. TypeOK'
  BY <1>1, <1>4 DEF TypeOK
<1>10. ChannelInv'
  BY <1>1, <1>4 DEF ChannelInv
<1>11. PlaceInv'
  <2>1. ASSUME NEW v \in Workers
        PROVE  /\ Once(queue'[v]) /\ running'[v] \notin Queued(v)'
               /\ \A k \in Lines : k = running'[v] \/ k \in Queued(v)' =>
                    Route[k] = v /\ k \notin handled' /\ k \notin lost'
    BY <1>1, <1>4, <1>5, <1>8 DEF PlaceInv
  <2>2. ASSUME NEW k \in Lines
        PROVE  /\ Sent(Line(k))' => k \notin InFlight' /\ k \notin handled'
               /\ Sent(Completed(k))' => k \in handled' /\ k \notin lost'
               /\ k \in threads' =>
                    Route[k] = Concurrent /\ k \notin handled' /\ k \notin lost'
    BY <1>1, <1>2, <1>3, <1>4, <1>6 DEF PlaceInv
  <2>3. \A k \in unread' : /\ k \notin Arrived' /\ k \notin handled'
                           /\ k \notin InFlight' /\ ~Sent(Line(k))'
    BY <1>1, <1>2, <1>4, <1>6, <1>7 DEF PlaceInv, TypeOK
  <2>4. QED
    BY <2>1, <2>2, <2>3 DEF PlaceInv
<1>12. CountInv'
  BY <1>1, <1>6 DEF CountInv
<1>13. DoneInv'
  <2>1. ASSUME NEW k \in lost', Route[k] \in Workers PROVE Route[k] \notin alive'
    BY <2>1, <1>1, <1>4, <1>8 DEF DoneInv
  <2>2. QED
    BY <2>1, <1>1, <1>4, <1>6, <1>7 DEF DoneInv, Sought, TypeOK
<1>14. OrderInv'
  BY <1>1, <1>4, <1>5, <1>7 DEF OrderInv
<1>15. OrderedInv'
  <2>1. ASSUME NEW k \in Lines, SameOrder(k, m) PROVE serial
    BY <2>1, <1>2, RouteAssumption DEF SameOrder
  <2>2. ~serial
    BY <1>2 DEF CountInv
  <2>3. QED
    BY <2>1, <2>2, <1>1, <1>7 DEF OrderedInv, SameOrder
<1>16. QED
  BY <1>9, <1>10, <1>11, <1>12, <1>13, <1>14, <1>15

\* The line that the loop hears was ahead of all that is still to be heard.
LEMMA LineHeard ==
  ASSUME IInv, NEW l \in Lines, Receive(Line(l)),
         UNCHANGED <<unread, arrived, closing>>
  PROVE  /\ loop = "runs" /\ ChannelInv'
         /\ l \notin unread /\ l \notin handled /\ l \notin InFlight
         /\ events' \in Seq(Events)
         /\ ~Sent(Line(l))'
         /\ \A k \in Lines \ {l} : Sent(Line(k))' <=> Sent(Line(k))
         /\ \A k \in Lines : Sent(Completed(k))' <=> Sent(Completed(k))
         /\ Arrived' = Arrived /\ \A k, m : Before(k, m)' <=> Before(k, m)
         /\ \A k, m \in Lines : Before(k, m) /\ Sent(Line(k))' =>
              Precedes(events', Line(k), Line(m))
         /\ \A k \in Lines : Before(k, l) => ~Sent(Line(k)) /\ k # l
         /\ \A m \in Lines : Before(l, m) => Sent(Line(m))
<1> USE DEF IInv
<1>1. /\ events' \in Seq(Events) /\ Once(events') /\ Sent(Line(l))
      /\ \A f : Sent(f)' <=> Sent(f) /\ f # Line(l)
      /\ \A f, g : Precedes(events, f, g) /\ f # Line(l) => Precedes(events', f, g)
      /\ \A f : ~Precedes(events, f, Line(l))
  BY EventTaken DEF ChannelInv
<1>2. l \notin unread /\ l \notin handled /\ l \notin InFlight /\ loop = "runs"
  BY <1>1 DEF PlaceInv, Receive
<1>3. /\ ~Sent(Line(l))'
      /\ \A k \in Lines \ {l} : Sent(Line(k))' <=> Sent(Line(k))
      /\ \A k \in Lines : Sent(Completed(k))' <=> Sent(Completed(k))
      /\ Sent(InputClosed)' <=> Sent(InputClosed)
  BY <1>1, EventsDiffer
<1>4. Arrived' = Arrived /\ \A k, m : Before(k, m)' <=> Before(k, m)
  BY Names DEF Before
<1>5. ASSUME NEW k \in Lines, Sent(Line(k))'
      PROVE  k # l /\ Sent(Line(k)) /\ Line(k) # Line(l)
  BY <1>3, <1>5, EventsDiffer
<1>6. ChannelInv'
  BY <1>1, <1>3, <1>5 DEF ChannelInv
<1>7. \A k, m \in Lines : Before(k, m) /\ Sent(Line(k))' =>
         Precedes(events', Line(k), Line(m))
  BY <1>1, <1>5 DEF OrderInv
<1>8. ASSUME NEW k \in Lines, Before(k, l) PROVE ~Sent(Line(k)) /\ k # l
  BY <1>1, <1>8 DEF OrderInv
<1>9. ASSUME NEW m \in Lines, Before(l, m) PROVE Sent(Line(m))
  BY <1>1, <1>9, SentBefore
<1>10. QED
  BY <1>1, <1>2, <1>3, <1>4, <1>6, <1>7, <1>8, <1>9

\* The loop drops a blank line.
LEMMA SkipKeeps ==
  ASSUME IInv, NEW l \in Lines, LoopSkipsBlank(l)
  PROVE  IInv'
<1> USE DEF IInv
<1>1. /\ Receive(Line(l)) /\ Route[l] = Blank
      /\ UNCHANGED <<serial, unread, arrived, queue, running, alive, threads, handled,
                     lost, active, closing, loop, written>>
  BY DEF LoopSkipsBlank, inputVars, workVars, loopVars
<1>2. /\ ChannelInv' /\ events' \in Seq(Events)
      /\ \A k \in Lines : Sent(Line(k))' => Sent(Line(k))
      /\ \A k \in Lines \ {l} : Sent(Line(k))' <=> Sent(Line(k))
      /\ \A k \in Lines : Sent(Completed(k))' <=> Sent(Completed(k))
      /\ Arrived' = Arrived /\ \A k, m : Before(k, m)' <=> Before(k, m)
      /\ \A k, m \in Lines : Before(k, m) /\ Sent(Line(k))' =>
              Precedes(events', Line(k), Line(m))
  BY <1>1, LineHeard
<1>3. \A v \in Workers : Queued(v)' = Queued(v) /\ queue'[v] = queue[v]
  BY <1>1, QueuesKept
<1>4. InFlight' = InFlight
  BY <1>1, <1>2, <1>3 DEF InFlight, Pending
<1>5. TypeOK'
  BY <1>1, <1>2 DEF TypeOK
<1>6. PlaceInv'
  BY <1>1, <1>2, <1>3, <1>4 DEF PlaceInv, TypeOK
<1>7. CountInv'
  BY <1>1, <1>4 DEF CountInv
<1>8. DoneInv'
  <2>1. Written' = Written
    BY <1>1, Names
  <2>2. l \notin Sought
    BY <1>1 DEF Sought
  <2>3. QED
    BY <2>1, <2>2, <1>1, <1>2, <1>4 DEF DoneInv, Sought, TypeOK
<1>9. OrderInv'
  BY <1>2, <1>3 DEF OrderInv
<1>10. OrderedInv'
  BY <1>1, <1>2 DEF OrderedInv, SameOrder
<1>11. QED
  BY <1>2, <1>5, <1>6, <1>7, <1>8, <1>9, <1>10

\* The loop puts a line behind all that came before it and has its route.
LEMMA QueuesKeeps ==
  ASSUME IInv, NEW l \in Lines, LoopQueues(l)
  PROVE  IInv'
<1> USE DEF IInv
<1> DEFINE w == Route[l]
<1>1. /\ Receive(Line(l)) /\ w \in Workers /\ ~serial /\ active' = active + 1
      /\ UNCHANGED <<serial, unread, arrived, running, alive, threads, handled,
                     closing, loop, written>>
  BY DEF LoopQueues, inputVars
<1>2. /\ ChannelInv' /\ events' \in Seq(Events) /\ loop = "runs"
      /\ l \notin unread /\ l \notin handled /\ l \notin InFlight
      /\ ~Sent(Line(l))'
      /\ \A k \in Lines \ {l} : Sent(Line(k))' <=> Sent(Line(k))
      /\ \A k \in Lines : Sent(Completed(k))' <=> Sent(Completed(k))
      /\ Arrived' = Arrived /\ \A k, m : Before(k, m)' <=> Before(k, m)
      /\ \A k, m \in Lines : Before(k, m) /\ Sent(Line(k))' =>
              Precedes(events', Line(k), Line(m))
      /\ \A k \in Lines : Before(k, l) => ~Sent(Line(k)) /\ k # l
      /\ \A m \in Lines : Before(l, m) => Sent(Line(m))
  BY <1>1, LineHeard
<1>3. /\ l \notin threads /\ l \notin lost /\ ~Sent(Completed(l))
      /\ \A v \in Workers : running[v] # l /\ l \notin Queued(v)
  BY <1>2 DEF InFlight, Pending
<1>4. /\ queue' \in [Workers -> Seq(Lines)]
      /\ \A v \in Workers :
           /\ Once(queue'[v])
           /\ \A k, m : Precedes(queue[v], k, m) => Precedes(queue'[v], k, m)
      /\ \/ /\ w \in alive /\ lost' = lost
            /\ Queued(w)' = Queued(w) \union {l}
            /\ \A v \in Workers \ {w} : Queued(v)' = Queued(v)
            /\ \A k \in Queued(w) : Precedes(queue'[w], k, l)
         \/ /\ w \notin alive /\ lost' = lost \union {l}
            /\ \A v \in Workers : Queued(v)' = Queued(v)
  <2>1. CASE w \in alive
    <3>1. queue' = [queue EXCEPT ![w] = Append(@, l)] /\ lost' = lost
      BY <2>1 DEF LoopQueues
    <3> HIDE DEF w
    <3>2. /\ queue' \in [Workers -> Seq(Lines)]
          /\ Queued(w)' = Queued(w) \union {l} /\ Once(queue'[w])
          /\ \A k, m : Precedes(queue[w], k, m) => Precedes(queue'[w], k, m)
          /\ \A k \in Queued(w) : Precedes(queue'[w], k, l)
          /\ \A v \in Workers \ {w} : Queued(v)' = Queued(v) /\ queue'[v] = queue[v]
      BY <3>1, <1>1, <1>3, QueuePut
    <3>3. QED
      BY <2>1, <3>1, <3>2 DEF PlaceInv
  <2>2. CASE w \notin alive
    <3>1. queue' = queue /\ lost' = lost \union {l}
      BY <2>2 DEF LoopQueues
    <3>2. QED
      BY <2>2, <3>1, QueuesKept DEF PlaceInv, TypeOK
  <2>3. QED
    BY <2>1, <2>2
<1>5. w = Route[l]
  OBVIOUS
<1> HIDE DEF w
<1>6. InFlight' = InFlight \union {l}
  <2>1. ASSUME NEW k \in Lines
        PROVE  Pending(k)' \/ k \in lost' <=> Pending(k) \/ k \in lost \/ k = l
    BY <1>1, <1>2, <1>4 DEF Pending
  <2>2. QED
    BY <2>1 DEF InFlight
<1>7. TypeOK'
  BY <1>1, <1>2, <1>4 DEF TypeOK
<1>8. PlaceInv'
  <2>1. ASSUME NEW v \in Workers
        PROVE  /\ Once(queue'[v]) /\ running'[v] \notin Queued(v)'
               /\ \A k \in Lines : k = running'[v] \/ k \in Queued(v)' =>
                    Route[k] = v /\ k \notin handled' /\ k \notin lost'
    BY <1>1, <1>2, <1>3, <1>4, <1>5 DEF PlaceInv
  <2>2. ASSUME NEW k \in Lines
        PROVE  /\ Sent(Line(k))' => k \notin InFlight' /\ k \notin handled'
               /\ Sent(Completed(k))' => k \in handled' /\ k \notin lost'
               /\ k \in threads' =>
                    Route[k] = Concurrent /\ k \notin handled' /\ k \notin lost'
    BY <1>1, <1>2, <1>3, <1>4, <1>6 DEF PlaceInv
  <2>3. \A k \in unread' : /\ k \notin Arrived' /\ k \notin handled'
                           /\ k \notin InFlight' /\ ~Sent(Line(k))'
    BY <1>1, <1>2, <1>6 DEF PlaceInv, TypeOK
  <2>4. QED
    BY <2>1, <2>2, <2>3 DEF PlaceInv
<1>9. CountInv'
  BY <1>1, <1>2, <1>6, FS_AddElement DEF CountInv
<1>10. DoneInv'
  <2>1. ASSUME NEW k \in lost', Route[k] \in Workers PROVE Route[k] \notin alive'
    BY <2>1, <1>1, <1>4, <1>5 DEF DoneInv
  <2>2. Written' = Written
    BY <1>1, Names
  <2>3. QED
    BY <2>1, <2>2, <1>1, <1>2, <1>6 DEF DoneInv, Sought, TypeOK
<1>11. OrderInv'
  <2>1. ASSUME NEW k \in Lines, NEW m \in Lines, Before(k, m), NEW v \in Workers,
               k \in Queued(v)', m \in Queued(v)'
        PROVE  Precedes(queue'[v], k, m)
    <3>1. CASE k \in Queued(v) /\ m \in Queued(v)
      BY <2>1, <3>1, <1>4 DEF OrderInv
    <3>2. CASE m \notin Queued(v)
      <4>1. m = l /\ v = w
        BY <2>1, <3>2, <1>4
      <4>2. k # l
        BY <2>1, <4>1, <1>2
      <4>3. k \in Queued(w) /\ w \in alive
        BY <2>1, <3>2, <4>1, <4>2, <1>4
      <4>4. QED
        BY <4>1, <4>3, <1>1, <1>4
    <3>3. CASE k \notin Queued(v) /\ m \in Queued(v)
      <4>1. k = l
        BY <2>1, <3>3, <1>4
      <4>2. m \notin InFlight
        BY <2>1, <4>1, <1>2 DEF PlaceInv
      <4>3. QED
        BY <3>3, <4>2 DEF InFlight, Pending
    <3>4. QED
      BY <3>1, <3>2, <3>3
  <2>2. QED
    BY <2>1, <1>2 DEF OrderInv
<1>12. OrderedInv'
  BY <1>1, <1>2 DEF OrderedInv, SameOrder
<1>13. QED
  BY <1>2, <1>7, <1>8, <1>9, <1>10, <1>11, <1>12

\* The loop starts a thread for a line that no order binds.
LEMMA SpawnKeeps ==
  ASSUME IInv, NEW l \in Lines, LoopSpawns(l)
  PROVE  IInv'
<1> USE DEF IInv
<1>1. /\ Receive(Line(l)) /\ Route[l] = Concurrent /\ ~serial /\ active' = active + 1
      /\ threads' = threads \union {l}
      /\ UNCHANGED <<serial, unread, arrived, queue, running, alive, handled, lost,
                     closing, loop, written>>
  BY DEF LoopSpawns, inputVars
<1>2. /\ ChannelInv' /\ events' \in Seq(Events) /\ loop = "runs"
      /\ l \notin unread /\ l \notin handled /\ l \notin InFlight
      /\ ~Sent(Line(l))'
      /\ \A k \in Lines \ {l} : Sent(Line(k))' <=> Sent(Line(k))
      /\ \A k \in Lines : Sent(Completed(k))' <=> Sent(Completed(k))
      /\ Arrived' = Arrived /\ \A k, m : Before(k, m)' <=> Before(k, m)
      /\ \A k, m \in Lines : Before(k, m) /\ Sent(Line(k))' =>
              Precedes(events', Line(k), Line(m))
  BY <1>1, LineHeard
<1>3. \A v \in Workers : Queued(v)' = Queued(v) /\ queue'[v] = queue[v]
  BY <1>1, QueuesKept
<1>4. InFlight' = InFlight \union {l}
  BY <1>1, <1>2, <1>3 DEF InFlight, Pending
<1>5. TypeOK'
  BY <1>1, <1>2 DEF TypeOK
<1>6. PlaceInv'
  <2>1. ASSUME NEW v \in Workers
        PROVE  /\ Once(queue'[v]) /\ running'[v] \notin Queued(v)'
               /\ \A k \in Lines : k = running'[v] \/ k \in Queued(v)' =>
                    Route[k] = v /\ k \notin handled' /\ k \notin lost'
    BY <1>1, <1>3 DEF PlaceInv
  <2>2. ASSUME NEW k \in Lines
        PROVE  /\ Sent(Line(k))' => k \notin InFlight' /\ k \notin handled'
               /\ Sent(Completed(k))' => k \in handled' /\ k \notin lost'
               /\ k \in threads' =>
                    Route[k] = Concurrent /\ k \notin handled' /\ k \notin lost'
    <3>1. l \notin lost
      BY <1>2 DEF InFlight
    <3>2. QED
      BY <3>1, <1>1, <1>2, <1>4 DEF PlaceInv
  <2>3. \A k \in unread' : /\ k \notin Arrived' /\ k \notin handled'
                           /\ k \notin InFlight' /\ ~Sent(Line(k))'
    BY <1>1, <1>2, <1>4 DEF PlaceInv, TypeOK
  <2>4. QED
    BY <2>1, <2>2, <2>3 DEF PlaceInv
<1>7. CountInv'
  BY <1>1, <1>2, <1>4, FS_AddElement DEF CountInv
<1>8. DoneInv'
  <2>1. Written' = Written
    BY <1>1, Names
  <2>2. QED
    BY <2>1, <1>1, <1>2, <1>4 DEF DoneInv, Sought, TypeOK
<1>9. OrderInv'
  BY <1>2, <1>3 DEF OrderInv
<1>10. OrderedInv'
  BY <1>1, <1>2 DEF OrderedInv, SameOrder
<1>11. QED
  BY <1>2, <1>5, <1>6, <1>7, <1>8, <1>9, <1>10

\* A response is written at the end of the output, or the pipe is broken.
LEMMA Writes ==
  ASSUME TypeOK, loop = "runs", NEW l \in Lines,
         \/ Write(l)
         \/ loop' = "brokenPipe" /\ written' = written
  PROVE  /\ written' \in Seq(Lines) /\ Written \subseteq Written'
         /\ loop' # "brokenPipe" => l \in Silent \/ l \in Written'
<1>1. written \in Seq(Lines)
  BY DEF TypeOK
<1>2. Append(written, l) \in Seq(Lines)
      /\ Elems(Append(written, l)) = Elems(written) \union {l}
  BY <1>1, AppendFacts
<1>3. QED
  BY <1>1, <1>2, Names DEF Write

\* Serial mode: the loop handles the line itself, before it hears the next.
LEMMA HandleKeeps ==
  ASSUME IInv, NEW l \in Lines, LoopHandles(l)
  PROVE  IInv'
<1> USE DEF IInv
<1>1. /\ Receive(Line(l)) /\ Route[l] # Blank /\ serial /\ handled' = handled \union {l}
      /\ UNCHANGED <<serial, unread, arrived, queue, running, alive, threads, lost,
                     active, closing>>
      /\ \/ Write(l) /\ loop' = loop
         \/ loop' = "brokenPipe" /\ written' = written
  BY DEF LoopHandles, inputVars
<1>2. /\ ChannelInv' /\ events' \in Seq(Events) /\ loop = "runs"
      /\ l \notin unread /\ l \notin handled /\ l \notin InFlight
      /\ ~Sent(Line(l))'
      /\ \A k \in Lines \ {l} : Sent(Line(k))' <=> Sent(Line(k))
      /\ \A k \in Lines : Sent(Completed(k))' <=> Sent(Completed(k))
      /\ Arrived' = Arrived /\ \A k, m : Before(k, m)' <=> Before(k, m)
      /\ \A k, m \in Lines : Before(k, m) /\ Sent(Line(k))' =>
              Precedes(events', Line(k), Line(m))
      /\ \A k \in Lines : Before(k, l) => ~Sent(Line(k)) /\ k # l
  BY <1>1, LineHeard
<1>3. \A v \in Workers : Queued(v)' = Queued(v) /\ queue'[v] = queue[v]
  BY <1>1, QueuesKept
<1>4. InFlight' = InFlight
  BY <1>1, <1>2, <1>3 DEF InFlight, Pending
<1>5. InFlight = {}
  BY <1>1 DEF CountInv
<1>6. /\ written' \in Seq(Lines) /\ Written \subseteq Written'
      /\ loop' # "brokenPipe" => l \in Silent \/ l \in Written'
  BY <1>1, <1>2, Writes
<1>7. TypeOK'
  BY <1>1, <1>2, <1>6 DEF TypeOK, Ends
<1>8. PlaceInv'
  <2>1. ASSUME NEW v \in Workers
        PROVE  /\ Once(queue'[v]) /\ running'[v] \notin Queued(v)'
               /\ \A k \in Lines : k = running'[v] \/ k \in Queued(v)' =>
                    Route[k] = v /\ k \notin handled' /\ k \notin lost'
    <3>1. \A k \in Lines : running[v] # k /\ k \notin Queued(v)
      BY <1>5 DEF InFlight, Pending
    <3>2. QED
      BY <3>1, <1>1, <1>3 DEF PlaceInv
  <2>2. ASSUME NEW k \in Lines
        PROVE  /\ Sent(Line(k))' => k \notin InFlight' /\ k \notin handled'
               /\ Sent(Completed(k))' => k \in handled' /\ k \notin lost'
               /\ k \in threads' =>
                    Route[k] = Concurrent /\ k \notin handled' /\ k \notin lost'
    <3>1. k \notin threads
      BY <1>5 DEF InFlight, Pending
    <3>2. QED
      BY <3>1, <1>1, <1>2, <1>4 DEF PlaceInv
  <2>3. \A k \in unread' : /\ k \notin Arrived' /\ k \notin handled'
                           /\ k \notin InFlight' /\ ~Sent(Line(k))'
    BY <1>1, <1>2, <1>4 DEF PlaceInv, TypeOK
  <2>4. QED
    BY <2>1, <2>2, <2>3 DEF PlaceInv
<1>9. CountInv'
  BY <1>1, <1>2, <1>4 DEF CountInv
<1>10. DoneInv'
  BY <1>1, <1>2, <1>4, <1>6 DEF DoneInv, Sought, TypeOK
<1>11. OrderInv'
  BY <1>2, <1>3 DEF OrderInv
<1>12. OrderedInv'
  <2>1. ASSUME NEW k \in Lines, Before(k, l), k \in Sought PROVE k \in handled
    <3>1. k \in Arrived /\ ~Sent(Line(k))
      BY <2>1, <1>2, BeforeArrived
    <3>2. QED
      BY <2>1, <3>1, <1>2, <1>5 DEF DoneInv
  <2>2. QED
    BY <2>1, <1>1, <1>2 DEF OrderedInv, SameOrder
<1>13. QED
  BY <1>2, <1>7, <1>8, <1>9, <1>10, <1>11, <1>12

\* The loop writes a response; the last one after the input ended ends the drain.
LEMMA CompleteKeeps ==
  ASSUME IInv, NEW l \in Lines, LoopCompletes(l)
  PROVE  IInv'
<1> USE DEF IInv
<1>1. /\ Receive(Completed(l)) /\ active' = active - 1
      /\ UNCHANGED <<serial, unread, arrived, queue, running, alive, threads, handled,
                     lost, closing>>
      /\ \/ /\ Write(l)
            /\ loop' = IF closing /\ active = 1 THEN "drained" ELSE loop
         \/ loop' = "brokenPipe" /\ written' = written
  BY DEF LoopCompletes, inputVars, workVars
<1>2. /\ events' \in Seq(Events) /\ Once(events') /\ Sent(Completed(l))
      /\ \A f : Sent(f)' <=> Sent(f) /\ f # Completed(l)
      /\ \A f, g : Precedes(events, f, g) /\ f # Completed(l) => Precedes(events', f, g)
  BY <1>1, EventTaken DEF ChannelInv
<1>3. /\ \A k \in Lines : Sent(Line(k))' <=> Sent(Line(k))
      /\ \A k \in Lines : Sent(Completed(k))' <=> Sent(Completed(k)) /\ k # l
      /\ Sent(InputClosed)' <=> Sent(InputClosed)
  BY <1>2, EventsDiffer
<1>4. loop = "runs" /\ l \in handled /\ l \notin lost
  BY <1>1, <1>2 DEF PlaceInv, Receive
<1>5. /\ l \notin threads
      /\ \A v \in Workers : running[v] # l /\ l \notin Queued(v)
  BY <1>4 DEF PlaceInv
<1>6. \A v \in Workers : Queued(v)' = Queued(v) /\ queue'[v] = queue[v]
  BY <1>1, QueuesKept
<1>7. InFlight' = InFlight \ {l} /\ l \in InFlight
  <2>1. ASSUME NEW k \in Lines
        PROVE  Pending(k)' \/ k \in lost' <=> (Pending(k) \/ k \in lost) /\ k # l
    BY <1>1, <1>3, <1>4, <1>5, <1>6 DEF Pending
  <2>2. l \in InFlight
    BY <1>2 DEF InFlight, Pending
  <2>3. QED
    BY <2>1, <2>2 DEF InFlight
<1>8. /\ written' \in Seq(Lines) /\ Written \subseteq Written'
      /\ loop' # "brokenPipe" => l \in Silent \/ l \in Written'
  BY <1>1, <1>4, Writes
<1>9. /\ IsFiniteSet(InFlight') /\ active' = Cardinality(InFlight')
      /\ active' \in Nat
  <2>1. IsFiniteSet(InFlight) /\ active = Cardinality(InFlight)
    BY DEF CountInv
  <2>2. /\ IsFiniteSet(InFlight \ {l})
        /\ Cardinality(InFlight \ {l}) = Cardinality(InFlight) - 1
    BY <2>1, <1>7, FS_RemoveElement
  <2>3. Cardinality(InFlight \ {l}) \in Nat
    BY <2>2, FS_CardinalityType
  <2>4. QED
    BY <2>1, <2>2, <2>3, <1>1, <1>7
<1>10. Arrived' = Arrived /\ \A k, m : Before(k, m)' <=> Before(k, m)
  BY <1>1, Names DEF Before
<1>11. TypeOK'
  BY <1>1, <1>2, <1>8, <1>9 DEF TypeOK, Ends
<1>12. ChannelInv'
  BY <1>1, <1>2, <1>3, EventsDiffer DEF ChannelInv
<1>13. PlaceInv'
  BY <1>1, <1>3, <1>6, <1>7, <1>10 DEF PlaceInv, TypeOK
<1>14. CountInv'
  BY <1>1, <1>4, <1>7, <1>9 DEF CountInv, TypeOK
<1>15. DoneInv'
  BY <1>1, <1>3, <1>4, <1>7, <1>8, <1>10 DEF DoneInv, Sought, TypeOK
<1>16. OrderInv'
  BY <1>2, <1>3, <1>6, <1>10, EventsDiffer DEF OrderInv
<1>17. OrderedInv'
  BY <1>1, <1>10 DEF OrderedInv, SameOrder
<1>18. QED
  BY <1>11, <1>12, <1>13, <1>14, <1>15, <1>16, <1>17

\* The input ends, the parent dies, or the deadline of the drain passes.
LEMMA EndKeeps ==
  ASSUME IInv, LoopInputClosed \/ LoopParentGone \/ LoopDeadline
  PROVE  IInv'
<1> USE DEF IInv
<1>1. /\ loop = "runs"
      /\ UNCHANGED <<serial, unread, arrived, queue, running, alive, threads, handled,
                     lost, active, written>>
      /\ loop' \in Ends \union {"runs"} /\ closing' \in BOOLEAN
      /\ closing => closing'
      /\ loop' = "drained" => closing' /\ active = 0
  BY DEF LoopInputClosed, LoopParentGone, LoopDeadline, inputVars, workVars, Receive,
     Ends, TypeOK
<1>2. /\ events' \in Seq(Events)
      /\ ChannelInv'
      /\ \A k \in Lines : (Sent(Line(k))' <=> Sent(Line(k)))
                          /\ (Sent(Completed(k))' <=> Sent(Completed(k)))
      /\ \A f, g \in Lines : Precedes(events, Line(f), Line(g)) =>
           Precedes(events', Line(f), Line(g))
  <2>1. CASE LoopDeadline
    <3>1. events' = events /\ closing' = closing
      BY <2>1 DEF LoopDeadline
    <3>2. QED
      BY <3>1, EventsKept DEF TypeOK, ChannelInv
  <2>2. ASSUME NEW e \in {InputClosed, ParentGone}, Receive(e),
               closing' = (closing \/ e = InputClosed)
        PROVE  <1>2!:
    <3>1. /\ events' \in Seq(Events) /\ Once(events')
          /\ \A f : Sent(f)' <=> Sent(f) /\ f # e
          /\ \A f, g : Precedes(events, f, g) /\ f # e => Precedes(events', f, g)
          /\ \A f : ~Precedes(events, f, e)
      BY <2>2, EventTaken DEF ChannelInv
    <3>2. \A k \in Lines : Line(k) # e /\ Completed(k) # e
      BY EventsDiffer
    <3>3. ChannelInv'
      <4>1. CASE e = InputClosed
        <5>1. Sent(InputClosed) /\ closing'
          BY <2>2, <4>1, EventTaken DEF ChannelInv
        <5>2. \A k \in Lines : ~Sent(Line(k))
          BY <3>1, <4>1, <5>1 DEF ChannelInv
        <5>3. QED
          BY <3>1, <4>1, <5>2 DEF ChannelInv
      <4>2. CASE e = ParentGone
        BY <2>2, <3>1, <3>2, <4>2, EventsDiffer DEF ChannelInv
      <4>3. QED
        BY <4>1, <4>2
    <3>4. QED
      BY <3>1, <3>2, <3>3
  <2>3. CASE LoopInputClosed
    BY <2>2, <2>3, EventsDiffer DEF LoopInputClosed, TypeOK
  <2>4. CASE LoopParentGone
    BY <2>2, <2>4, EventsDiffer DEF LoopParentGone, TypeOK
  <2>5. QED
    BY <2>1, <2>3, <2>4
<1>3. \A v \in Workers : Queued(v)' = Queued(v) /\ queue'[v] = queue[v]
  BY <1>1, QueuesKept
<1>4. InFlight' = InFlight
  BY <1>1, <1>2, <1>3 DEF InFlight, Pending
<1>5. Arrived' = Arrived /\ Written' = Written
      /\ \A k, m : Before(k, m)' <=> Before(k, m)
  BY <1>1, Names DEF Before
<1>6. TypeOK'
  BY <1>1, <1>2 DEF TypeOK
<1>7. PlaceInv'
  BY <1>1, <1>2, <1>3, <1>4, <1>5 DEF PlaceInv, TypeOK
<1>8. CountInv'
  BY <1>1, <1>4 DEF CountInv
<1>9. DoneInv'
  BY <1>1, <1>2, <1>4, <1>5 DEF DoneInv, Sought, TypeOK
<1>10. OrderInv'
  BY <1>2, <1>3, <1>5 DEF OrderInv
<1>11. OrderedInv'
  BY <1>1, <1>5 DEF OrderedInv, SameOrder
<1>12. QED
  BY <1>2, <1>6, <1>7, <1>8, <1>9, <1>10, <1>11

\* Every reachable state of the dispatcher is as IInv says.
LEMMA IInvHolds == Spec => []IInv
<1>1. Init => IInv
  <2> SUFFICES ASSUME Init PROVE IInv
    OBVIOUS
  <2>1. /\ Arrived = {} /\ Written = {} /\ (\A e : ~Sent(e)) /\ Once(events)
        /\ \A l, m : ~Before(l, m)
        /\ \A w \in Workers : Queued(w) = {} /\ Once(queue[w])
    BY Names, EmptyFacts DEF Init, Before
  <2>2. InFlight = {}
    BY <2>1, RouteAssumption DEF Init, InFlight, Pending
  <2>3. TypeOK
    <3>1. \A S : <<>> \in Seq(S)
      OBVIOUS
    <3>2. QED
      BY <3>1 DEF Init, TypeOK
  <2>4. CountInv
    BY <2>2, FS_EmptySet DEF Init, CountInv
  <2>5. PlaceInv
    BY <2>1, <2>2, RouteAssumption DEF Init, PlaceInv
  <2>6. ChannelInv /\ DoneInv /\ OrderInv /\ OrderedInv
    BY <2>1 DEF Init, ChannelInv, DoneInv, OrderInv, OrderedInv
  <2>7. QED
    BY <2>3, <2>4, <2>5, <2>6 DEF IInv
<1>2. IInv /\ [Next]_vars => IInv'
  <2> SUFFICES ASSUME IInv, [Next]_vars PROVE IInv'
    OBVIOUS
  <2>1. CASE WorkStep
    BY <2>1, TakeKeeps, FinishKeeps, DieKeeps, ThreadKeeps DEF WorkStep
  <2>2. CASE LoopStep
    BY <2>2, SkipKeeps, QueuesKeeps, SpawnKeeps, HandleKeeps, CompleteKeeps, EndKeeps
       DEF LoopStep
  <2>3. CASE UNCHANGED vars
    BY <2>3 DEF vars, IInv, TypeOK, ChannelInv, PlaceInv, CountInv, DoneInv, OrderInv,
       OrderedInv, InFlight, Pending, Sent, Queued, Arrived, Written, Before, SameOrder
  <2>4. QED
    BY <2>1, <2>2, <2>3, ReadKeeps, NoticeKeeps, EndKeeps DEF Next
<1>3. QED
  BY <1>1, <1>2, PTL DEF Spec

-----------------------------------------------------------------------------
(* The theorems.                                                           *)

\* Every variable keeps its type; active_requests never falls below zero.
THEOREM TypeCorrect == Spec => []TypeOK
BY IInvHolds, PTL DEF IInv

\* active_requests is the number of lines in flight and of those that a panic
\* lost: no completion is counted twice, none for a line that was not.
THEOREM ActiveIsCounted == Spec => []ActiveCountsInFlight
<1>1. IInv => ActiveCountsInFlight
  BY DEF IInv, CountInv, ActiveCountsInFlight, InFlight
<1>2. QED
  BY <1>1, IInvHolds, PTL

\* When the loop ends because the drain is complete, every line that came in was
\* handled and every request among them answered, whichever thread it was on.
THEOREM DrainIsComplete == Spec => []DrainedLosesNothing
<1>1. ASSUME IInv, loop = "drained"
      PROVE  /\ Arrived \intersect Sought \subseteq handled
             /\ Arrived \intersect Asked \subseteq Written
  <2>1. InFlight = {}
    BY <1>1, FS_EmptySet DEF IInv, CountInv
  <2>2. \A l \in Lines : ~Sent(Line(l))
    BY <1>1 DEF IInv, CountInv, ChannelInv
  <2>3. QED
    BY <1>1, <2>1, <2>2 DEF IInv, DoneInv, Sought, Asked
<1>2. QED
  BY <1>1, IInvHolds, PTL DEF DrainedLosesNothing

\* No handler starts, on any thread, before those of earlier lines that share its
\* order have ended, panics included.
THEOREM OrderIsKept == Spec => []InOrder
<1>1. ASSUME IInv PROVE InOrder
  <2>1. ASSUME NEW i \in 1..Len(arrived), NEW j \in 1..Len(arrived),
               i < j, arrived[i] \in Sought, SameOrder(arrived[i], arrived[j]),
               arrived[j] \in handled \/ \E w \in Workers : running[w] = arrived[j]
        PROVE  arrived[i] \in handled
    <3>1. arrived[i] \in Lines /\ arrived[j] \in Lines
      BY <1>1 DEF IInv, TypeOK
    <3>2. Before(arrived[i], arrived[j])
      BY <2>1 DEF Before, Precedes
    <3>3. QED
      BY <1>1, <2>1, <3>1, <3>2 DEF IInv, OrderedInv
  <2>2. QED
    BY <2>1 DEF InOrder
<1>2. QED
  BY <1>1, IInvHolds, PTL
=============================================================================
