------------------------------- MODULE Effects --------------------------------
(***************************************************************************)
(* The queues of the elements and the animations that run in them            *)
(* (jQuery.queue, .delay, .animate, .stop, .finish, jQuery.fx).              *)
(*                                                                          *)
(* A call of the page and a timer of the browser run to their end, with all  *)
(* the callbacks they cause, so each is one step: an operator from one state *)
(* of the effects to the next, recursive where the code calls back into      *)
(* itself.  What is animated is left out; when an animation ends is not.     *)
(***************************************************************************)
EXTENDS Integers, Sequences, SequencesExt, FiniteSets

CONSTANTS
    Elems,
    MaxItems,       \* bound: animations and delays made
    Modes,          \* what the page asks for, a subset of AllModes
    Reactions,      \* what the page does in complete functions: none, animate, stop
    Careful         \* whether the page avoids two calls jQuery does not bear: in a complete
                    \* function, a stop of an element still :animated; and a stop to the
                    \* end while a delay and an animation outside the queue are both on

\* long      an animation of the queue, with a duration
\* zero      one that ends as it starts
\* empty     one without properties: runs at once, yet belongs to the queue
\* unqueued  one with queue: false
\* delay     .delay()
AllModes == {"long", "zero", "empty", "unqueued", "delay"}

VARIABLE fx

Absent   == <<-1>>
InQueue  == 0                       \* "inprogress"
NoHooks  == [stop |-> 0, cur |-> 0, unqueued |-> 0]
Items(s) == 1..Len(s.items)

\* queue    the queue of each element, Absent when its data was removed
\* hooks    the hooks of each queue
\* items    what was made so far; `live' until resolved or rejected
\* timers   jQuery.timers, oldest first; elem is gone from those that ended
\* timeouts the delays the browser will end
\* ticking  whether the interval of jQuery.fx runs
\* finish   the elements being finished
\* threw    whether a loop over the timers met a place that was removed
EffectsInit ==
    fx = [queue    |-> [e \in Elems |-> Absent],
          hooks    |-> [e \in Elems |-> NoHooks],
          items    |-> <<>>,
          timers   |-> <<>>,
          timeouts |-> {},
          ticking  |-> FALSE,
          finish   |-> {},
          threw    |-> FALSE]

Queue(s, e) == IF s.queue[e] = Absent THEN <<>> ELSE s.queue[e]
Queued(s, n) == s.items[n].mode # "unqueued"

New(s, e, mode, react) ==
    [s EXCEPT !.items = Append(@, [elem |-> e, mode |-> mode, react |-> react, live |-> TRUE, ran |-> FALSE])]

\* hooks.empty.fire: the data of the queue are removed, unless an animation outside
\* the queue still runs.
EmptyFire(s, e) ==
    IF s.hooks[e].unqueued > 0 THEN s
    ELSE [s EXCEPT !.queue[e] = Absent, !.hooks[e] = NoHooks]

\* The animations :animated finds.
Animated(s, e) == {n \in ToSet(s.timers) : s.items[n].live /\ s.items[n].elem = e}

\* What the queue holds after the sentinel, if it has one.
Waiting(s, e) ==
    LET q == Queue(s, e) IN IF q # <<>> /\ Head(q) = InQueue THEN Tail(q) ELSE q

RECURSIVE Dequeue(_, _), Run(_, _), Resolved(_, _), React(_, _), StopTimers(_, _, _, _, _), StopAll(_, _, _, _, _)

\* The first of the rest is taken out and runs.
RunNext(s, e, rest) ==
    Run([s EXCEPT !.queue[e] = <<InQueue>> \o Tail(rest), !.hooks[e].cur = Head(rest), !.hooks[e].stop = 0],
        Head(rest))

\* Seeded fault: the sentinel stays when it is all there is.
DequeueKeeps(s, e) == IF Waiting(s, e) = <<>> THEN s ELSE RunNext(s, e, Waiting(s, e))

Dequeue(s, e) ==
    IF Waiting(s, e) = <<>>
    THEN EmptyFire([s EXCEPT !.queue[e] = IF @ = Absent THEN Absent ELSE <<>>, !.hooks[e].cur = 0], e)
    ELSE RunNext(s, e, Waiting(s, e))

\* .queue(item) and .queue([]).
Kick(s, e) ==
    IF s.queue[e] # <<>> /\ Head(s.queue[e]) = InQueue THEN s ELSE Dequeue(s, e)
Enqueue(s, e, n) == Kick([s EXCEPT !.queue[e] = Append(Queue(s, e), n)], e)
Clear(s, e)      == Kick([s EXCEPT !.queue[e] = <<>>], e)

\* The function of the queue: a delay sets its timeout; an animation starts, and ends
\* at once if it has nothing to do or the element is being finished.
Run(s, n) ==
    LET e       == s.items[n].elem
        mode    == s.items[n].mode
        timed   == mode \notin {"zero", "empty"}
        started == [s EXCEPT !.items[n].ran = TRUE,
                             !.hooks[e].unqueued = IF mode = "unqueued" THEN @ + 1 ELSE @,
                             !.timers = IF timed THEN Append(@, n) ELSE @,
                             !.ticking = @ \/ timed]
    IN  IF mode = "delay"
        THEN [s EXCEPT !.timeouts = @ \cup {n}, !.hooks[e].stop = n, !.items[n].ran = TRUE]
        ELSE IF timed /\ e \notin s.finish THEN started
        ELSE Resolved(started, n)

\* What a queue: false animation registered: the queue is let go.
Freed(s, n) ==
    LET e    == s.items[n].elem
        free == [s EXCEPT !.hooks[e].unqueued = @ - 1]
    IN  IF Queue(s, e) = <<>> THEN EmptyFire(free, e) ELSE free

\* The animation is over, with its last frame: the page's complete function, then the
\* dequeue after it, or what a queue: false animation registered.
Resolved(s, n) ==
    LET over     == [s EXCEPT !.items[n].live = FALSE]
        after(t) == IF Queued(s, n) THEN Dequeue(t, s.items[n].elem) ELSE Freed(t, n)
    IN  IF s.items[n].live THEN after(React(over, n)) ELSE s

\* Stopped without its last frame: no complete function is called.
Rejected(s, n) ==
    LET over == [s EXCEPT !.items[n].live = FALSE]
    IN  IF ~s.items[n].live THEN s
        ELSE IF Queued(s, n) THEN over
        ELSE Freed(over, n)

\* The complete function of the page.
React(s, n) ==
    LET e == s.items[n].elem
    IN  CASE s.items[n].react = "animate" /\ Len(s.items) < MaxItems ->
                 Enqueue(New(s, e, "long", "none"), e, Len(s.items) + 1)
          [] s.items[n].react = "stop" /\ (Careful => Animated(s, e) = {}) -> StopAll(s, e, TRUE, FALSE, FALSE)
          [] OTHER -> s

\* The timer at place k is ended, if it is one meant, and its place removed.
StopTimer(s, e, which, gotoEnd, k) ==
    LET n        == s.timers[k]
        taken(t) == [t EXCEPT !.timers = IF k <= Len(@) THEN RemoveAt(@, k) ELSE @]
    IN  IF ~s.items[n].live \/ s.items[n].elem # e \/ n \notin which THEN s
        ELSE taken(IF gotoEnd THEN Resolved(s, n) ELSE Rejected(s, n))

\* The loop over jQuery.timers of stop and finish, from k down; `which' are the
\* animations meant.  A place past the end, left by a callback that removed others,
\* throws.
StopTimers(s, e, which, gotoEnd, k) ==
    IF k = 0 THEN s
    ELSE IF k > Len(s.timers) THEN [s EXCEPT !.threw = TRUE]
    ELSE StopTimers(StopTimer(s, e, which, gotoEnd, k), e, which, gotoEnd, k - 1)

\* .stop([type,] clearQueue, gotoEnd); all = no type was given.  What it stopped to the
\* end dequeues by itself.
StopTimersAnd(s, e, all, gotoEnd) ==
    LET which == {n \in Items(s) : all \/ Queued(s, n)}
        had   == \E n \in Animated(s, e) : n \in which
        go(t) == IF t.threw \/ (had /\ gotoEnd) THEN t ELSE Dequeue(t, e)
    IN  go(StopTimers(s, e, which, gotoEnd, Len(s.timers)))

StopAll(s, e, all, clear, gotoEnd) ==
    LET undelayed(t) == [t EXCEPT !.timeouts = @ \ {t.hooks[e].stop}, !.hooks[e].stop = 0]
    IN  StopTimersAnd(undelayed(IF clear THEN Clear(s, e) ELSE s), e, all, gotoEnd)

\* .finish(): the current animation, those the timers run, those still queued.
Finish(s, e) ==
    LET q        == SelectSeq(Queue(s, e), LAMBDA n : n # InQueue /\ s.items[n].mode # "delay")
        cur      == s.hooks[e].cur
        emptied  == [s EXCEPT !.finish = @ \cup {e}, !.queue[e] = <<>>]
        timed(t) == StopTimers(t, e, {n \in Items(t) : Queued(t, n)}, TRUE, Len(t.timers))
        rest(t)  == IF t.threw THEN t ELSE [FoldLeft(Run, t, q) EXCEPT !.finish = @ \ {e}]
    IN  rest(timed(IF cur # 0 /\ s.items[cur].mode # "delay" THEN Resolved(emptied, cur) ELSE emptied))

\* jQuery.fx.tick: every timer in turn, `ending' are those at their last frame.
RECURSIVE TickFrom(_, _, _)
TickFrom(s, i, ending) ==
    LET n       == s.timers[i]
        gone(t) == ~t.items[n].live /\ i <= Len(t.timers) /\ t.timers[i] = n
        on(t)   == TickFrom(IF gone(t) THEN [t EXCEPT !.timers = RemoveAt(@, i)] ELSE t,
                            IF gone(t) THEN i ELSE i + 1, ending)
    IN  IF i > Len(s.timers) THEN [s EXCEPT !.ticking = s.timers # <<>>]
        ELSE on(IF n \in ending THEN Resolved(s, n) ELSE s)

-------------------------------------------------------------------------------
\* .delay(), .animate(); a delay calls nothing (bound: nor does an empty animation).
Animate(e, mode, react) ==
    LET s == New(fx, e, mode, react)
    IN  /\ mode \in {"delay", "empty"} => react = "none"
        /\ fx' = IF mode \in {"empty", "unqueued"} THEN Run(s, Len(s.items)) ELSE Enqueue(s, e, Len(s.items))

Stop(e, all, clear, gotoEnd) ==
    /\ Careful => ~(/\ gotoEnd /\ ~clear /\ all /\ fx.hooks[e].stop # 0
                   /\ \E n \in Animated(fx, e) : ~Queued(fx, n))
    /\ fx' = StopAll(fx, e, all, clear, gotoEnd)

ClearQueue(e) == fx' = Clear(fx, e)
FinishAll(e)  == fx' = Finish(fx, e)

\* A delay is over.
Timeout(n) == n \in fx.timeouts /\ fx' = Dequeue([fx EXCEPT !.timeouts = @ \ {n}], fx.items[n].elem)

Tick == fx.ticking /\ \E ending \in SUBSET {n \in ToSet(fx.timers) : fx.items[n].live} :
                            fx' = TickFrom(fx, 1, ending)

MayMake == Len(fx.items) < MaxItems     \* bound

EffectsNext ==
    \/ \E e \in Elems :
        \/ MayMake /\ \E mode \in Modes, react \in Reactions : Animate(e, mode, react)
        \/ \E all, clear, gotoEnd \in BOOLEAN : Stop(e, all, clear, gotoEnd)
        \/ ClearQueue(e)
        \/ FinishAll(e)
    \/ \E n \in fx.timeouts : Timeout(n)
    \/ Tick

EffectsSpec == EffectsInit /\ [][EffectsNext]_fx

-------------------------------------------------------------------------------
\* With no code running, a queue that holds anything is in progress, and something
\* that will dequeue it goes on: an animation of the queue that the timers run and
\* the interval ticks, or a delay the browser will end.  No animation that started
\* is forgotten by the timers (dequeue, Animation, stop, finish, fx.tick; the comment
\* of stop says it starts the next in the queue unless the last step was forced).
QueueMoves ==
    /\ \A n \in Items(fx) : fx.items[n].live /\ fx.items[n].ran /\ fx.items[n].mode # "delay" =>
            n \in ToSet(fx.timers) /\ fx.ticking
    /\ \A e \in Elems : Queue(fx, e) # <<>> =>
            /\ Head(Queue(fx, e)) = InQueue
            /\ \/ \E n \in Animated(fx, e) : Queued(fx, n)
               \/ \E d \in fx.timeouts : fx.items[d].elem = e
===============================================================================
