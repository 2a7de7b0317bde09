---------------------------- MODULE DeferredsProofs ----------------------------
(***************************************************************************)
(* Proof that deferreds keep what Promises promises of them, for any number  *)
(* of deferreds, handlers and calls, also when functions of the page throw.  *)
(***************************************************************************)
EXTENDS Deferreds, SequenceTheorems, TLAPS

Vals == 1..MaxCalls + 1
Sides == {1, 2}         \* the lists that settle a deferred: done and fail

Kinds == {"state", "disable", "lock", "handler", "then", "count", "settle"}
Item == [fn : Kinds, n : Nat, to : Ids, i : Lists]
NoItem == [fn : {"none"}, n : {0}, to : {0}, i : Lists]

Adding == [op : {"add"}, d : Ids, i : Lists, entry : Item, value : {0}]
Firing ==
    [op : {"fire"}, d : Ids, i : Lists, entry : NoItem, value : Vals] \cup
    [op : {"count"}, d : Ids, i : {1}, entry : Item, value : Vals]
Frames == [d : Ids \cup {Page}, i : Lists, in : BOOLEAN, user : BOOLEAN, todo : Seq(Adding \cup Firing)]

Making == [kind : {"new", "then", "when"}, of : Seq(Nat), fns : SUBSET Lists]
Registering == [of : Ids, hows : SUBSET Sides]

Counts ==
    /\ calls \in 0..MaxCalls
    /\ made \in Seq(Making) /\ Len(made) <= MaxDeferreds
    /\ registered \in Seq(Registering)
    /\ told \in Seq(Vals \cup {0}) /\ Len(told) = Len(registered)
Types == frames \in Seq(Frames) /\ Depth # 0 /\ Counts

Fields == {"list", "disabled", "firing", "fired", "memory", "data", "at", "length", "start", "stack", "stacked"}

\* A list, and what it holds.
Shape(x) ==
    /\ x = [field \in Fields |-> x[field]]
    /\ {x.disabled, x.firing, x.fired, x.stacked} \subseteq BOOLEAN
    /\ x.list \in Seq(Item) /\ x.stack \in Seq(Vals)
    /\ {x.at, x.length, x.start} \subseteq Nat
    /\ x.data \in Vals \cup {0} /\ x.memory \in {0, x.data}

\* A round calls the entries of its list to the last; a disabled list is forgotten.
ListOK(x) ==
    /\ Shape(x)
    /\ x.start = 0
    /\ x.firing => x.memory # 0 /\ ~x.disabled /\ x.at \in 1..Len(x.list) + 1 /\ x.length = Len(x.list)
    /\ x.disabled => ~x.stacked /\ x.memory = 0

\* A list that settles is fired once, and remembers it.
Settling(x) ==
    /\ ~x.stacked /\ x.stack = <<>>
    /\ ~x.fired => ~x.firing /\ x.memory = 0
    /\ x.fired => ~x.disabled /\ x.memory # 0
    /\ x.fired /\ ~x.firing => x.list = <<>>

Table(ls) == ls = [d \in Ids |-> [i \in Lists |-> ls[d][i]]]
AllOK(ls) ==
    /\ Table(ls)
    /\ \A d \in Ids, i \in Lists : ListOK(ls[d][i])
    /\ \A d \in Ids, i \in Sides : Settling(ls[d][i])
ListsOK == AllOK(lists)

\* Each frame is the round of a list of its own; all but the top one are in an entry.
FramesOK ==
    /\ \A k \in 1..Depth : k = 1 \/ k < Depth => frames[k].in
    /\ \A k \in 1..Depth : ~frames[k].in => frames[k].todo = <<>>
    /\ \A k \in 2..Depth :
          /\ frames[k].d \in Ids
          /\ lists[frames[k].d][frames[k].i].firing
          /\ frames[k].in => lists[frames[k].d][frames[k].i].at <= Len(lists[frames[k].d][frames[k].i].list)
    /\ \A j, k \in 2..Depth : frames[j].d = frames[k].d /\ frames[j].i = frames[k].i => j = k

Begins(x) == Len(x.list) >= 2 /\ x.list[1].fn = "state" /\ x.list[2].fn = "disable"

\* The round that runs has not disabled the other list yet.
Fresh(d, i) ==
    /\ Depth > 1 /\ Top.d = d /\ Top.i = i /\ ~Top.in
    /\ Begins(lists[d][i]) /\ lists[d][i].at <= 2

OneSide ==
    \A d \in Ids, i \in Sides :
        /\ lists[d][i].fired => ~lists[d][3 - i].fired /\ (lists[d][3 - i].disabled \/ Fresh(d, i))
        /\ ~lists[d][i].fired /\ ~lists[d][i].disabled => Begins(lists[d][i])

Structure == Types /\ ListsOK /\ FramesOK /\ OneSide

IsHandler(e) == e.fn = "handler"

\* Entries of handlers are in the lists they were registered for, in order.
HandlersPlaced ==
    \A d \in Ids, i \in Lists : \A k \in 1..Len(lists[d][i].list) :
        LET e == lists[d][i].list[k]
        IN  IsHandler(e) =>
                /\ e.n \in 1..Len(registered) /\ i \in Sides
                /\ registered[e.n].of = d /\ i \in registered[e.n].hows
                /\ \A j \in 1..k - 1 : IsHandler(lists[d][i].list[j]) => lists[d][i].list[j].n < e.n

Alive(d, i)  == \E k \in 2..Depth : frames[k].d = d /\ frames[k].i = i
Inside(d, i) == \E k \in 2..Depth : frames[k].d = d /\ frames[k].i = i /\ frames[k].in

\* Whether more entries of a list will be called, which is the next, and the
\* handlers from there on.
Open(d, i) == ~lists[d][i].disabled /\ (lists[d][i].firing => Alive(d, i))
NextOf(d, i) == IF ~lists[d][i].firing THEN 1
                ELSE IF Inside(d, i) THEN lists[d][i].at + 1 ELSE lists[d][i].at
From(list, p) == {list[k].n : k \in {k \in p..Len(list) : IsHandler(list[k])}}
Ahead(d, i) == From(lists[d][i].list, NextOf(d, i))

\* Only handlers of a settled deferred were told, and none that is still to be called.
ToldRight ==
    /\ \A n \in 1..Len(registered) : told[n] # 0 => \E i \in registered[n].hows : lists[registered[n].of][i].fired
    /\ \A d \in Ids, i \in Sides : Open(d, i) => \A n \in Ahead(d, i) : told[n] = 0

\* A handler on its way to a list is the one registered last, or comes too late.
Adds(op) == op.op = "add" /\ IsHandler(op.entry)
SentTo(op, n, d, i) == Adds(op) /\ op.entry.n = n /\ op.d = d /\ op.i = i
InPlace(k, j) ==
    LET op == frames[k].todo[j]
        n  == op.entry.n
    IN  /\ n \in 1..Len(registered) /\ op.i \in Sides
        /\ registered[n].of = op.d /\ op.i \in registered[n].hows
        /\ j = 1 \/ (j = 2 /\ op.i = 2 /\ SentTo(frames[k].todo[1], n, op.d, 1))
        /\ lists[op.d][op.i].disabled \/
              /\ k = Depth /\ n = Len(registered) /\ told[n] = 0
              /\ \A h \in 1..Len(lists[op.d][op.i].list) :
                    IsHandler(lists[op.d][op.i].list[h]) => lists[op.d][op.i].list[h].n < n
OnTheWay ==
    \A k \in 1..Depth : \A j \in 1..Len(frames[k].todo) : Adds(frames[k].todo[j]) => InPlace(k, j)

\* A handler registered for a list that will be called is told, or will be.
NoneForgotten ==
    \A d \in Ids, i \in Sides : Open(d, i) =>
        \A n \in 1..Len(registered) : registered[n].of = d /\ i \in registered[n].hows =>
            told[n] # 0 \/ n \in Ahead(d, i) \/ \E j \in 1..Len(Top.todo) : SentTo(Top.todo[j], n, d, i)

DInv == Structure /\ HandlersPlaced /\ ToldRight /\ OnTheWay /\ NoneForgotten

-------------------------------------------------------------------------------
(* What the methods do to a list of a deferred. *)

LEMMA ValsAre == Vals \subseteq Nat /\ 0 \notin Vals /\ MaxCalls \in Nat /\ MaxHandlers \in Nat /\ MaxDeferreds \in Nat
  BY BoundType DEF Vals

LEMMA OptionsAre ==
  /\ OnceMemory.memory /\ OnceMemory.once /\ ~OnceMemory.unique
  /\ OnlyMemory.memory /\ ~OnlyMemory.once /\ ~OnlyMemory.unique
  /\ \A i \in Lists : Options(i) \in {OnceMemory, OnlyMemory}
  /\ \A i \in Sides : Options(i) = OnceMemory
  BY DEF OnceMemory, OnlyMemory, Options, Lists, Sides

LEMMA NoEntries == <<>> \in Seq(Item) /\ <<>> \in Seq(Vals) /\ Len(<<>>) = 0
  OBVIOUS

\* A round begins with d.
LEMMA BeginOK ==
  ASSUME NEW x, Shape(x), x.start \in 0..Len(x.list), ~x.disabled,
         NEW o \in {OnceMemory, OnlyMemory}, NEW d \in Vals, NEW y, y = Begin(x, o, d)
  PROVE  /\ ListOK(y)
         /\ y.firing /\ y.fired /\ y.data = d /\ y.memory = d
         /\ y.list = x.list /\ y.at = x.start + 1 /\ y.length = Len(x.list)
         /\ ~y.disabled /\ (y.stacked <=> x.stacked) /\ y.stack = x.stack
  <1>1. o.memory
    BY OptionsAre
  <1>2. y = [x EXCEPT !.memory = d, !.data = d, !.fired = TRUE, !.at = x.start + 1, !.start = 0,
                      !.length = Len(x.list), !.firing = TRUE]
    BY <1>1 DEF Begin
  <1>3. /\ y = [field \in Fields |-> y[field]]
        /\ y.memory = d /\ y.data = d /\ y.at = x.start + 1 /\ y.start = 0 /\ y.length = Len(x.list)
        /\ y.list = x.list /\ y.stack = x.stack
    BY <1>2 DEF Shape, Fields
  <1>4. y.fired = TRUE /\ y.firing = TRUE /\ y.disabled = x.disabled /\ y.stacked = x.stacked
    BY <1>2 DEF Shape, Fields
  <1>5. Len(x.list) \in Nat
    BY DEF Shape
  <1>6. y.at \in 1..Len(x.list) + 1 /\ y.at \in Nat
    BY <1>3, <1>5
  <1>7. Shape(y)
    <2>1. {y.disabled, y.firing, y.fired, y.stacked} \subseteq BOOLEAN
      BY <1>4 DEF Shape
    <2>2. {y.at, y.length, y.start} \subseteq Nat
      BY <1>3, <1>5, <1>6
    <2> QED
      BY <1>3, <2>1, <2>2 DEF Shape
  <1>8. ListOK(y)
    BY <1>3, <1>4, <1>6, <1>7, ValsAre DEF ListOK
  <1> QED
    BY <1>3, <1>4, <1>8

LEMMA AddOK ==
  ASSUME NEW x, ListOK(x), NEW o \in {OnceMemory, OnlyMemory}, NEW e \in Item, NEW y, y = Add(x, o, e)
  PROVE  /\ ListOK(y)
         /\ (y.disabled <=> x.disabled) /\ (y.stacked <=> x.stacked) /\ y.stack = x.stack
         /\ y.memory = x.memory
         /\ x.disabled => y = x
         /\ ~x.disabled => y.list = Append(x.list, e)
         /\ x.firing \/ x.memory = 0 => (y.firing <=> x.firing) /\ (y.fired <=> x.fired) /\ y.at = x.at /\ y.data = x.data
         /\ ~x.disabled /\ ~x.firing /\ x.memory # 0 =>
                y.firing /\ y.fired /\ y.at = Len(x.list) + 1 /\ y.data = x.memory
  <1> DEFINE longer == Append(x.list, e)
             grown == [x EXCEPT !.list = longer]
             joined == [grown EXCEPT !.length = Len(longer)]
             late == [grown EXCEPT !.start = Len(x.list)]
  <1>1. y = IF x.disabled THEN x
            ELSE IF x.firing THEN joined
            ELSE IF x.memory # 0 THEN Begin(late, o, x.memory)
            ELSE grown
    BY OptionsAre DEF Add
  <1>2. longer \in Seq(Item) /\ Len(longer) = Len(x.list) + 1 /\ Len(x.list) \in Nat
    BY DEF ListOK, Shape
  <1> HIDE DEF longer
  <1>3. \A z \in {grown, joined, late} :
           /\ z = [field \in Fields |-> z[field]]
           /\ z.list = longer /\ z.at = x.at /\ z.stack = x.stack /\ z.data = x.data /\ z.memory = x.memory
    BY DEF ListOK, Shape, Fields
  <1>4. \A z \in {grown, joined, late} :
           /\ z.disabled = x.disabled /\ z.firing = x.firing /\ z.fired = x.fired /\ z.stacked = x.stacked
    BY DEF ListOK, Shape, Fields
  <1>5. /\ grown.length = x.length /\ grown.start = x.start
        /\ joined.length = Len(longer) /\ joined.start = x.start
        /\ late.length = x.length /\ late.start = Len(x.list)
    BY DEF ListOK, Shape, Fields
  <1> HIDE DEF grown, joined, late
  <1>6. \A z \in {grown, joined, late} : z.length \in Nat /\ z.start \in Nat
    BY <1>2, <1>5 DEF ListOK, Shape
  <1>7. \A z \in {grown, joined, late} : Shape(z)
    BY <1>2, <1>3, <1>4, <1>6 DEF ListOK, Shape
  <1>8. CASE x.disabled
    <2>1. y = x
      BY <1>1, <1>8
    <2> QED
      BY <1>8, <2>1 DEF ListOK
  <1>9. CASE ~x.disabled /\ x.firing
    <2>1. y = joined
      BY <1>1, <1>9
    <2>2. y.at \in 1..Len(y.list) + 1
      BY <1>2, <1>3, <1>9, <2>1 DEF ListOK
    <2>3. ListOK(y)
      BY <1>3, <1>4, <1>5, <1>7, <1>9, <2>1, <2>2 DEF ListOK
    <2> QED
      BY <1>3, <1>4, <1>9, <2>1, <2>3 DEF longer
  <1>10. CASE ~x.disabled /\ ~x.firing /\ x.memory # 0
    <2>1. y = Begin(late, o, x.memory)
      BY <1>1, <1>10
    <2>2. x.memory \in Vals
      BY <1>10 DEF ListOK, Shape
    <2>3. Shape(late) /\ late.start \in 0..Len(late.list) /\ ~late.disabled
      BY <1>2, <1>3, <1>4, <1>5, <1>7, <1>10
    <2>4. /\ ListOK(y)
          /\ y.firing /\ y.fired /\ y.data = x.memory /\ y.memory = x.memory
          /\ y.list = late.list /\ y.at = late.start + 1 /\ y.length = Len(late.list)
          /\ ~y.disabled /\ (y.stacked <=> late.stacked) /\ y.stack = late.stack
      BY <2>1, <2>2, <2>3, BeginOK
    <2> QED
      BY <1>3, <1>4, <1>5, <1>10, <2>4 DEF longer
  <1>11. CASE ~x.disabled /\ ~x.firing /\ x.memory = 0
    <2>1. y = grown
      BY <1>1, <1>11
    <2>2. ListOK(y)
      BY <1>3, <1>4, <1>5, <1>7, <1>11, <2>1 DEF ListOK
    <2> QED
      BY <1>3, <1>4, <1>11, <2>1, <2>2 DEF longer
  <1> QED
    BY <1>8, <1>9, <1>10, <1>11

LEMMA FireOK ==
  ASSUME NEW x, ListOK(x), NEW o \in {OnceMemory, OnlyMemory}, NEW d \in Vals, NEW y, y = FireWith(x, o, d)
  PROVE  /\ ListOK(y)
         /\ y.list = x.list /\ (y.disabled <=> x.disabled) /\ (y.stacked <=> x.stacked)
         /\ ~Accepts(x) => y = x
         /\ x.firing => y.firing /\ (y.fired <=> x.fired) /\ y.at = x.at /\ y.data = x.data /\ y.memory = x.memory
         /\ Accepts(x) /\ ~x.firing =>
                /\ y.firing /\ y.fired /\ y.at = 1 /\ y.data = d /\ y.memory = d /\ y.stack = x.stack
  <1>1. CASE ~Accepts(x)
    BY <1>1 DEF FireWith
  <1>2. CASE Accepts(x) /\ x.firing
    <2>1. y = [x EXCEPT !.stack = Append(@, d)]
      BY <1>2 DEF FireWith
    <2>2. Append(x.stack, d) \in Seq(Vals)
      BY DEF ListOK, Shape
    <2>3. /\ y = [field \in Fields |-> y[field]]
          /\ y.list = x.list /\ y.at = x.at /\ y.length = x.length /\ y.start = x.start
          /\ y.stack = Append(x.stack, d) /\ y.data = x.data /\ y.memory = x.memory
      BY <2>1 DEF ListOK, Shape, Fields
    <2>4. y.disabled = x.disabled /\ y.firing = x.firing /\ y.fired = x.fired /\ y.stacked = x.stacked
      BY <2>1 DEF ListOK, Shape, Fields
    <2>5. Shape(y)
      BY <2>2, <2>3, <2>4 DEF ListOK, Shape
    <2>6. ListOK(y)
      BY <2>3, <2>4, <2>5 DEF ListOK
    <2> QED
      BY <1>2, <2>3, <2>4, <2>6
  <1>3. CASE Accepts(x) /\ ~x.firing
    <2>1. y = Begin(x, o, d)
      BY <1>3 DEF FireWith
    <2>2. x.start = 0 /\ Len(x.list) \in Nat
      BY DEF ListOK, Shape
    <2>3. Shape(x) /\ x.start \in 0..Len(x.list) /\ ~x.disabled
      BY <1>3, <2>2 DEF ListOK, Accepts
    <2>4. /\ ListOK(y)
          /\ y.firing /\ y.fired /\ y.data = d /\ y.memory = d
          /\ y.list = x.list /\ y.at = x.start + 1 /\ y.length = Len(x.list)
          /\ ~y.disabled /\ (y.stacked <=> x.stacked) /\ y.stack = x.stack
      BY <2>1, <2>3, BeginOK
    <2> QED
      BY <1>3, <2>2, <2>3, <2>4
  <1> QED
    BY <1>1, <1>2, <1>3

LEMMA AdvanceOK ==
  ASSUME NEW x, ListOK(x), x.firing, x.at <= x.length, NEW y, y = Advance(x)
  PROVE  /\ ListOK(y)
         /\ y.list = x.list /\ y.at = x.at + 1 /\ y.length = x.length /\ y.data = x.data /\ y.memory = x.memory
         /\ (y.disabled <=> x.disabled) /\ y.firing /\ (y.fired <=> x.fired) /\ (y.stacked <=> x.stacked)
         /\ y.stack = x.stack
  <1>1. y = [x EXCEPT !.at = x.at + 1]
    BY DEF Advance
  <1>2. /\ y = [field \in Fields |-> y[field]]
        /\ y.list = x.list /\ y.at = x.at + 1 /\ y.length = x.length /\ y.start = x.start
        /\ y.stack = x.stack /\ y.data = x.data /\ y.memory = x.memory
    BY <1>1 DEF ListOK, Shape, Fields
  <1>3. y.disabled = x.disabled /\ y.firing = x.firing /\ y.fired = x.fired /\ y.stacked = x.stacked
    BY <1>1 DEF ListOK, Shape, Fields
  <1>4. Len(x.list) \in Nat /\ x.at \in 1..Len(x.list) + 1 /\ x.length = Len(x.list)
    BY DEF ListOK, Shape
  <1>5. y.at \in Nat /\ y.at \in 1..Len(y.list) + 1
    BY <1>2, <1>4
  <1>6. Shape(y)
    BY <1>2, <1>3, <1>5 DEF ListOK, Shape
  <1>7. ListOK(y)
    BY <1>2, <1>3, <1>5, <1>6 DEF ListOK
  <1> QED
    BY <1>2, <1>3, <1>7

LEMMA DisableOK ==
  ASSUME NEW x, Shape(x), x.start = 0, ~x.firing, NEW y, y = Disable(x)
  PROVE  /\ ListOK(y)
         /\ y.list = <<>> /\ y.disabled /\ ~y.stacked /\ y.stack = <<>> /\ y.data = x.data /\ y.memory = 0
         /\ ~y.firing /\ (y.fired <=> x.fired)
  <1>1. /\ y = [field \in Fields |-> y[field]]
        /\ y.list = <<>> /\ y.at = x.at /\ y.length = x.length /\ y.start = x.start
        /\ y.stack = <<>> /\ y.data = x.data /\ y.memory = 0
    BY DEF Disable, Shape, Fields
  <1>2. y.disabled = TRUE /\ y.firing = x.firing /\ y.fired = x.fired /\ y.stacked = FALSE
    BY DEF Disable, Shape, Fields
  <1>3. Shape(y)
    BY <1>1, <1>2, NoEntries, ZenonT(40) DEF Shape
  <1>4. ListOK(y)
    BY <1>1, <1>2, <1>3 DEF ListOK
  <1> QED
    BY <1>1, <1>2, <1>4

LEMMA LockOK ==
  ASSUME NEW x, ListOK(x), NEW y, y = Lock(x)
  PROVE  /\ ListOK(y)
         /\ y.list \in {x.list, <<>>} /\ (y.firing <=> x.firing)
         /\ x.firing => y.list = x.list /\ y.at = x.at
  <1> DEFINE z == [x EXCEPT !.stack = <<>>, !.stacked = FALSE]
  <1>1. /\ z = [field \in Fields |-> z[field]]
        /\ z.list = x.list /\ z.at = x.at /\ z.length = x.length /\ z.start = x.start
        /\ z.stack = <<>> /\ z.data = x.data /\ z.memory = x.memory
    BY DEF ListOK, Shape, Fields
  <1>2. z.disabled = x.disabled /\ z.firing = x.firing /\ z.fired = x.fired /\ z.stacked = FALSE
    BY DEF ListOK, Shape, Fields
  <1>3. y = IF x.memory = 0 THEN Disable(z) ELSE z
    BY DEF Lock
  <1> HIDE DEF z
  <1>4. Shape(z)
    BY <1>1, <1>2, NoEntries DEF ListOK, Shape
  <1>5. ListOK(z)
    BY <1>1, <1>2, <1>4 DEF ListOK
  <1>6. CASE x.memory = 0
    <2>1. ~z.firing /\ z.start = 0 /\ ~x.firing
      BY <1>1, <1>2, <1>6 DEF ListOK
    <2>2. ListOK(y) /\ y.list = <<>> /\ ~y.firing
      BY <1>3, <1>4, <1>6, <2>1, DisableOK
    <2> QED
      BY <2>1, <2>2
  <1>7. CASE x.memory # 0
    BY <1>1, <1>2, <1>3, <1>5, <1>7
  <1> QED
    BY <1>6, <1>7

LEMMA EndOK ==
  ASSUME NEW x, ListOK(x), x.firing, NEW o \in {OnceMemory, OnlyMemory}, NEW y, y = End(x, o)
  PROVE  /\ ListOK(y)
         /\ y.list \in {x.list, <<>>}
         /\ ~x.stacked => y.list = <<>> /\ ~y.firing /\ (y.fired <=> x.fired)
         /\ ~x.stacked => ~y.disabled /\ ~y.stacked /\ y.stack = x.stack
         /\ ~x.stacked => y.data = x.data /\ y.memory = x.memory
  <1> DEFINE rest == [x EXCEPT !.firing = FALSE]
             popped == [rest EXCEPT !.stack = Tail(@)]
             bare == [rest EXCEPT !.list = <<>>]
  <1>1. ~x.disabled /\ x.memory # 0
    BY DEF ListOK
  <1>2. y = CASE x.disabled -> rest
              [] x.stacked /\ x.stack # <<>> -> Begin(popped, o, Head(x.stack))
              [] x.stacked /\ x.stack = <<>> -> rest
              [] ~x.disabled /\ ~x.stacked /\ x.memory # 0 -> bare
              [] OTHER -> Disable(rest)
    BY DEF End
  <1>3. \A z \in {rest, bare, popped} :
           /\ z = [field \in Fields |-> z[field]]
           /\ z.at = x.at /\ z.length = x.length /\ z.start = x.start /\ z.data = x.data /\ z.memory = x.memory
    BY DEF ListOK, Shape, Fields
  <1>4. \A z \in {rest, bare, popped} :
           z.disabled = x.disabled /\ z.firing = FALSE /\ z.fired = x.fired /\ z.stacked = x.stacked
    BY DEF ListOK, Shape, Fields
  <1>5. /\ rest.list = x.list /\ rest.stack = x.stack
        /\ bare.list = <<>> /\ bare.stack = x.stack
        /\ popped.list = x.list /\ popped.stack = Tail(x.stack)
    BY DEF ListOK, Shape, Fields
  <1> HIDE DEF rest, popped, bare
  <1>6. Shape(rest) /\ Shape(bare) /\ (Tail(x.stack) \in Seq(Vals) => Shape(popped))
    <2>1. \A z \in {rest, bare, popped} : {z.disabled, z.firing, z.fired, z.stacked} \subseteq BOOLEAN
      BY <1>4 DEF ListOK, Shape
    <2>2. \A z \in {rest, bare, popped} :
             {z.at, z.length, z.start} \subseteq Nat /\ z.data \in Vals \cup {0} /\ z.memory \in {0, z.data}
      BY <1>3 DEF ListOK, Shape
    <2>3. x.list \in Seq(Item) /\ x.stack \in Seq(Vals)
      BY DEF ListOK, Shape
    <2> QED
      BY <1>3, <1>5, <2>1, <2>2, <2>3, NoEntries DEF Shape
  <1>7. ListOK(rest) /\ ListOK(bare)
    BY <1>1, <1>3, <1>4, <1>5, <1>6 DEF ListOK
  <1>8. CASE x.stacked /\ x.stack # <<>>
    <2>1. x.stack \in Seq(Vals)
      BY DEF ListOK, Shape
    <2>2. Head(x.stack) \in Vals /\ Tail(x.stack) \in Seq(Vals)
      BY <1>8, <2>1
    <2>3. Shape(popped)
      BY <1>6, <2>2
    <2>4. y = Begin(popped, o, Head(x.stack))
      BY <1>1, <1>2, <1>8
    <2>5. popped.start = 0 /\ Len(popped.list) \in Nat
      BY <1>3, <2>3 DEF ListOK, Shape
    <2>6. popped.start \in 0..Len(popped.list) /\ ~popped.disabled
      BY <1>1, <1>4, <2>5
    <2>7. ListOK(y) /\ y.list = popped.list
      BY <2>2, <2>3, <2>4, <2>6, BeginOK
    <2> QED
      BY <1>5, <1>8, <2>7
  <1>9. CASE x.stacked /\ x.stack = <<>>
    <2>1. y = rest
      BY <1>1, <1>2, <1>9
    <2> QED
      BY <1>5, <1>7, <1>9, <2>1
  <1>10. CASE ~x.stacked
    <2>1. y = bare
      BY <1>1, <1>2, <1>10
    <2> QED
      BY <1>1, <1>3, <1>4, <1>5, <1>7, <1>10, <2>1
  <1> QED
    BY <1>8, <1>9, <1>10

-------------------------------------------------------------------------------
(* ... and to one that settles it. *)

LEMMA SideAdd ==
  ASSUME NEW x, ListOK(x), Settling(x), NEW e \in Item, NEW y, y = Add(x, OnceMemory, e)
  PROVE  /\ Settling(y)
         /\ (y.fired <=> x.fired) /\ (x.fired => y.data = x.data)
         /\ ~x.disabled /\ x.fired /\ ~x.firing => y.at = 1 /\ Len(y.list) = 1
  <1>1. /\ (y.disabled <=> x.disabled) /\ (y.stacked <=> x.stacked) /\ y.stack = x.stack
        /\ y.memory = x.memory
        /\ x.disabled => y = x
        /\ ~x.disabled => y.list = Append(x.list, e)
        /\ x.firing \/ x.memory = 0 => (y.firing <=> x.firing) /\ (y.fired <=> x.fired) /\ y.at = x.at /\ y.data = x.data
        /\ ~x.disabled /\ ~x.firing /\ x.memory # 0 =>
               y.firing /\ y.fired /\ y.at = Len(x.list) + 1 /\ y.data = x.memory
    BY AddOK
  <1>2. /\ ~x.stacked /\ x.stack = <<>>
        /\ ~x.fired => ~x.firing /\ x.memory = 0
        /\ x.fired => ~x.disabled /\ x.memory # 0
        /\ x.fired /\ ~x.firing => x.list = <<>>
    BY DEF Settling
  <1>3. x.list \in Seq(Item) /\ Len(x.list) \in Nat /\ x.memory \in {0, x.data}
    BY DEF ListOK, Shape
  <1>4. CASE x.disabled
    <2>1. y = x
      BY <1>1, <1>4
    <2> QED
      BY <1>4, <2>1
  <1>5. CASE ~x.fired /\ ~x.disabled
    <2>1. ~y.fired /\ ~y.firing /\ y.memory = 0
      BY <1>1, <1>2, <1>5
    <2> QED
      BY <1>1, <1>2, <1>5, <2>1 DEF Settling
  <1>6. CASE x.fired /\ x.firing
    <2>1. y.fired /\ y.firing /\ y.data = x.data
      BY <1>1, <1>2, <1>6
    <2> QED
      BY <1>1, <1>2, <1>6, <2>1 DEF Settling
  <1>7. CASE x.fired /\ ~x.firing
    <2>1. x.list = <<>> /\ x.memory # 0 /\ ~x.disabled /\ x.memory = x.data
      BY <1>2, <1>3, <1>7
    <2>2. y.fired /\ y.firing /\ y.data = x.data /\ y.at = Len(x.list) + 1 /\ y.list = Append(x.list, e)
      BY <1>1, <1>7, <2>1
    <2>3. Len(x.list) = 0 /\ Len(Append(x.list, e)) = Len(x.list) + 1
      BY <1>3, <2>1, NoEntries
    <2>4. y.at = 1 /\ Len(y.list) = 1
      BY <2>2, <2>3
    <2> QED
      BY <1>1, <1>2, <1>7, <2>1, <2>2, <2>4 DEF Settling
  <1> QED
    BY <1>2, <1>4, <1>5, <1>6, <1>7

LEMMA SideFire ==
  ASSUME NEW x, ListOK(x), Settling(x), NEW d \in Vals, NEW y, y = FireWith(x, OnceMemory, d)
  PROVE  /\ Settling(y)
         /\ x.fired \/ x.disabled => y = x
         /\ ~x.fired /\ ~x.disabled => ~x.firing /\ y.firing /\ y.fired /\ y.at = 1 /\ y.data = d
  <1>1. /\ y.list = x.list /\ (y.disabled <=> x.disabled) /\ (y.stacked <=> x.stacked)
        /\ ~Accepts(x) => y = x
        /\ Accepts(x) /\ ~x.firing =>
               /\ y.firing /\ y.fired /\ y.at = 1 /\ y.data = d /\ y.memory = d /\ y.stack = x.stack
    BY FireOK
  <1>2. Accepts(x) <=> ~x.fired /\ ~x.disabled
    BY DEF Accepts, Settling
  <1>3. CASE ~Accepts(x)
    BY <1>1, <1>2, <1>3
  <1>4. CASE Accepts(x)
    <2>1. ~x.firing /\ d # 0 /\ ~x.stacked /\ x.stack = <<>>
      BY <1>2, <1>4, ValsAre DEF Settling
    <2> QED
      BY <1>1, <1>2, <1>4, <2>1 DEF Settling
  <1> QED
    BY <1>3, <1>4

-------------------------------------------------------------------------------
(* The stack and the lists, as the steps leave them. *)

LEMMA StackIs ==
  ASSUME Types
  PROVE  Depth \in Nat \ {0} /\ (\A k \in 1..Depth : frames[k] \in Frames) /\ Top \in Frames
  <1>1. frames \in Seq(Frames) /\ Len(frames) # 0
    BY DEF Types, Depth
  <1>2. Len(frames) \in Nat \ {0} /\ \A k \in 1..Len(frames) : frames[k] \in Frames
    BY <1>1
  <1> QED
    BY <1>2 DEF Depth, Top

LEMMA FrameIs ==
  ASSUME NEW f \in Frames
  PROVE  /\ f = [d |-> f.d, i |-> f.i, in |-> f.in, user |-> f.user, todo |-> f.todo]
         /\ f.d \in Ids \cup {Page} /\ f.i \in Lists /\ f.in \in BOOLEAN /\ f.user \in BOOLEAN
         /\ f.todo \in Seq(Adding \cup Firing)
  BY DEF Frames

LEMMA TopIs ==
  ASSUME Types, NEW f \in Frames, frames' = WithTop(f)
  PROVE  /\ frames' \in Seq(Frames) /\ Depth' = Depth /\ Top' = f /\ frames'[Depth] = f
         /\ \A k \in 1..Depth : k # Depth => frames'[k] = frames[k]
  <1>1. frames \in Seq(Frames) /\ Len(frames) \in Nat \ {0}
    BY StackIs DEF Types, Depth
  <1>2. frames' = [frames EXCEPT ![Len(frames)] = f]
    BY DEF WithTop, Depth
  <1>3. frames' \in Seq(Frames) /\ Len(frames') = Len(frames)
    BY <1>1, <1>2
  <1>4. frames'[Len(frames)] = f /\ \A k \in 1..Len(frames) : k # Len(frames) => frames'[k] = frames[k]
    BY <1>1, <1>2
  <1> QED
    BY <1>3, <1>4 DEF Depth, Top

LEMMA TopStays ==
  ASSUME Types
  PROVE  frames = WithTop(Top)
  <1>1. frames \in Seq(Frames) /\ Len(frames) \in Nat \ {0}
    BY StackIs DEF Types, Depth
  <1> QED
    BY <1>1 DEF WithTop, Top, Depth

LEMMA RoundIs ==
  ASSUME NEW d \in Ids, NEW i \in Lists
  PROVE  /\ Round(d, i) \in Frames /\ Round(d, i).d = d /\ Round(d, i).i = i
         /\ ~Round(d, i).in /\ Round(d, i).todo = <<>>
  <1>1. <<>> \in Seq(Adding \cup Firing)
    OBVIOUS
  <1> QED
    BY <1>1 DEF Round, Frames

LEMMA PushIs ==
  ASSUME NEW base \in Seq(Frames), NEW d \in Ids, NEW i \in Lists, frames' = Append(base, Round(d, i))
  PROVE  /\ frames' \in Seq(Frames) /\ Depth' = Len(base) + 1 /\ Top' = Round(d, i)
         /\ frames'[Len(base) + 1] = Round(d, i)
         /\ \A k \in 1..Len(base) : frames'[k] = base[k]
  <1>1. Round(d, i) \in Frames
    BY RoundIs
  <1>2. /\ frames' \in Seq(Frames) /\ Len(frames') = Len(base) + 1 /\ frames'[Len(base) + 1] = Round(d, i)
        /\ \A k \in 1..Len(base) : frames'[k] = base[k]
    BY <1>1
  <1> QED
    BY <1>2 DEF Depth, Top

LEMMA PrefixIs ==
  ASSUME NEW S, NEW s \in Seq(S), NEW n \in Nat, n # 0, n <= Len(s), NEW t, t = SubSeq(s, 1, n)
  PROVE  t \in Seq(S) /\ Len(t) = n /\ \A k \in 1..n : t[k] = s[k]
  OBVIOUS

LEMMA PopIs ==
  ASSUME Types, Depth > 1, frames' = SubSeq(frames, 1, Depth - 1)
  PROVE  /\ frames' \in Seq(Frames) /\ Depth' = Depth - 1 /\ Top' = frames[Depth - 1]
         /\ \A k \in 1..Depth - 1 : frames'[k] = frames[k]
  <1>1. frames \in Seq(Frames) /\ Depth - 1 \in Nat \ {0} /\ Depth - 1 <= Len(frames)
    BY StackIs DEF Types, Depth
  <1>2. frames' \in Seq(Frames) /\ Len(frames') = Depth - 1 /\ \A k \in 1..Depth - 1 : frames'[k] = frames[k]
    BY <1>1, PrefixIs
  <1> QED
    BY <1>1, <1>2 DEF Depth, Top

\* A list put back.
Put(ls, d, i, y) == [ls EXCEPT ![d][i] = y]

LEMMA Replaced ==
  ASSUME NEW ls, Table(ls), NEW d \in Ids, NEW i, NEW y
  PROVE  /\ Table(Put(ls, d, i, y))
         /\ i \in Lists => Put(ls, d, i, y)[d][i] = y
         /\ \A e \in Ids, j \in Lists : e # d \/ j # i => Put(ls, d, i, y)[e][j] = ls[e][j]
  <1> DEFINE ys == [ls[d] EXCEPT ![i] = y]
             l2 == Put(ls, d, i, y)
  <1>1. ls = [e \in Ids |-> [j \in Lists |-> ls[e][j]]]
    BY DEF Table
  <1>2. ls[d] = [j \in Lists |-> ls[d][j]]
    BY <1>1
  <1>3. /\ i \in Lists => ys[i] = y
        /\ \A j \in Lists : j # i => ys[j] = ls[d][j]
        /\ ys = [j \in Lists |-> ys[j]]
    BY <1>2
  <1>4. l2 = [ls EXCEPT ![d] = ys]
    BY DEF Put
  <1> HIDE DEF ys, l2
  <1>5. l2[d] = ys /\ \A e \in Ids : e # d => l2[e] = ls[e]
    BY <1>1, <1>4
  <1>6. l2 = [e \in Ids |-> l2[e]]
    BY <1>1, <1>4
  <1>7. \A e \in Ids : l2[e] = [j \in Lists |-> l2[e][j]]
    BY <1>1, <1>3, <1>5
  <1>8. l2 = [e \in Ids |-> [j \in Lists |-> l2[e][j]]]
    BY <1>6, <1>7
  <1> QED
    BY <1>3, <1>5, <1>8 DEF Table, l2

LEMMA PutIs ==
  ASSUME ListsOK, NEW d \in Ids, NEW i \in Lists, NEW y, ListOK(y), i \in Sides => Settling(y),
         lists' = Put(lists, d, i, y)
  PROVE  /\ ListsOK' /\ lists'[d][i] = y
         /\ \A e \in Ids, j \in Lists : e # d \/ j # i => lists'[e][j] = lists[e][j]
  <1>1. /\ lists'[d][i] = y
        /\ \A e \in Ids, j \in Lists : e # d \/ j # i => lists'[e][j] = lists[e][j]
        /\ Table(lists')
    BY Replaced DEF ListsOK, AllOK
  <1>2. \A e \in Ids, j \in Lists : ListOK(lists'[e][j])
    BY <1>1 DEF ListsOK, AllOK
  <1>3. \A e \in Ids, j \in Sides : Settling(lists'[e][j])
    BY <1>1 DEF ListsOK, AllOK, Sides, Lists
  <1> QED
    BY <1>1, <1>2, <1>3 DEF ListsOK, AllOK

\* What an entry of a list is.
LEMMA EntryIs ==
  ASSUME ListsOK, NEW d \in Ids, NEW i \in Lists, NEW k \in 1..Len(lists[d][i].list)
  PROVE  lists[d][i].list[k] \in Item /\ Len(lists[d][i].list) \in Nat
  <1>1. lists[d][i].list \in Seq(Item)
    BY DEF ListsOK, AllOK, ListOK, Shape
  <1> QED
    BY <1>1

LEMMA ListIs ==
  ASSUME ListsOK, NEW d \in Ids, NEW i \in Lists
  PROVE  /\ ListOK(lists[d][i]) /\ lists[d][i].list \in Seq(Item) /\ Len(lists[d][i].list) \in Nat
         /\ lists[d][i].at \in Nat /\ lists[d][i].data \in Vals \cup {0}
         /\ lists[d][i].firing => lists[d][i].data \in Vals /\ ~lists[d][i].disabled
         /\ lists[d][i].firing =>
                lists[d][i].at \in 1..Len(lists[d][i].list) + 1 /\ lists[d][i].length = Len(lists[d][i].list)
  <1>1. ListOK(lists[d][i])
    BY DEF ListsOK, AllOK
  <1>2. lists[d][i].list \in Seq(Item) /\ Len(lists[d][i].list) \in Nat
    BY <1>1 DEF ListOK, Shape
  <1> QED
    BY <1>1, <1>2 DEF ListOK, Shape

LEMMA SideIs ==
  ASSUME ListsOK, NEW d \in Ids, NEW i \in Sides
  PROVE  /\ Settling(lists[d][i]) /\ i \in Lists /\ 3 - i \in Sides /\ 3 - i # i /\ 3 - i \in Lists
         /\ lists[d][i].firing => lists[d][i].fired
         /\ lists[d][i].fired => ~lists[d][i].disabled /\ lists[d][i].data \in Vals
  <1>1. Settling(lists[d][i]) /\ ListOK(lists[d][i])
    BY DEF ListsOK, AllOK, Sides, Lists
  <1>2. lists[d][i].fired => ~lists[d][i].disabled /\ lists[d][i].data \in Vals
    BY <1>1 DEF Settling, ListOK, Shape
  <1>3. lists[d][i].firing => lists[d][i].fired
    BY <1>1 DEF Settling
  <1> QED
    BY <1>1, <1>2, <1>3 DEF Sides, Lists

\* The list of the round that runs.
LEMMA LoopIs ==
  ASSUME Structure, Looping
  PROVE  /\ Depth \in Nat /\ Depth > 1 /\ Top \in Frames /\ Top.todo = <<>>
         /\ Top.d \in Ids /\ Top.i \in Lists /\ List = lists[Top.d][Top.i] /\ List.firing
         /\ HasNext(List) <=> List.at <= Len(List.list)
         /\ HasNext(List) => List.at \in 1..Len(List.list) /\ List.list[List.at] \in Item
  <1>1. Depth \in Nat \ {0} /\ (\A k \in 1..Depth : frames[k] \in Frames) /\ Top \in Frames
    BY StackIs DEF Structure
  <1>2. Depth # 1
    BY <1>1 DEF Looping, Structure, FramesOK, Top
  <1>3. Depth \in 2..Depth /\ Depth \in 1..Depth
    BY <1>1, <1>2
  <1>4. Top.d \in Ids /\ Top.i \in Lists /\ lists[Top.d][Top.i].firing /\ Top.todo = <<>>
    BY <1>1, <1>3, FrameIs DEF Structure, FramesOK, Top, Looping
  <1>5. /\ Len(List.list) \in Nat /\ List.at \in 1..Len(List.list) + 1 /\ List.length = Len(List.list)
        /\ ~List.disabled
    BY <1>4, ListIs DEF Structure, List
  <1>6. HasNext(List) <=> List.at <= Len(List.list)
    BY <1>5 DEF HasNext
  <1>7. HasNext(List) => List.at \in 1..Len(List.list)
    BY <1>5, <1>6
  <1>8. HasNext(List) => List.list[List.at] \in Item
    BY <1>4, <1>7, EntryIs DEF Structure, List
  <1> QED
    BY <1>1, <1>2, <1>4, <1>6, <1>7, <1>8 DEF List

\* ... and of the entry that is running.
LEMMA RunningIs ==
  ASSUME Structure, Depth > 1, Top.in
  PROVE  /\ Depth \in Nat /\ Top \in Frames
         /\ Top.d \in Ids /\ Top.i \in Lists /\ List = lists[Top.d][Top.i] /\ List.firing
         /\ List.at \in 1..Len(List.list) /\ List.length = Len(List.list) /\ Running \in Item
  <1>1. Depth \in Nat \ {0} /\ (\A k \in 1..Depth : frames[k] \in Frames) /\ Top \in Frames
    BY StackIs DEF Structure
  <1>2. Depth \in 2..Depth
    BY <1>1
  <1>3. /\ Top.d \in Ids /\ Top.i \in Lists /\ lists[Top.d][Top.i].firing
        /\ lists[Top.d][Top.i].at <= Len(lists[Top.d][Top.i].list)
    BY <1>1, <1>2, FrameIs DEF Structure, FramesOK, Top
  <1>4. Len(List.list) \in Nat /\ List.at \in 1..Len(List.list) + 1 /\ List.length = Len(List.list)
    BY <1>3, ListIs DEF Structure, List
  <1>5. List.at \in 1..Len(List.list)
    BY <1>3, <1>4 DEF List
  <1>6. Running \in Item
    BY <1>3, <1>5, EntryIs DEF Structure, List, Running
  <1> QED
    BY <1>1, <1>3, <1>4, <1>5, <1>6 DEF List

-------------------------------------------------------------------------------
(* The handlers still to be called. *)

Number(e) == IF IsHandler(e) THEN {e.n} ELSE {}

LEMMA FromNext ==
  ASSUME NEW list \in Seq(Item), NEW p \in 1..Len(list)
  PROVE  From(list, p) = From(list, p + 1) \cup Number(list[p])
  <1>1. \A k : k \in p..Len(list) <=> k = p \/ k \in p + 1..Len(list)
    OBVIOUS
  <1> QED
    BY <1>1 DEF From, Number

LEMMA FromPast ==
  ASSUME NEW list \in Seq(Item), NEW p \in Nat, p > Len(list)
  PROVE  From(list, p) = {}
  BY DEF From

LEMMA FromAppend ==
  ASSUME NEW list \in Seq(Item), NEW e \in Item, NEW p \in 1..Len(list) + 1
  PROVE  From(Append(list, e), p) = From(list, p) \cup Number(e)
  <1>1. /\ Len(Append(list, e)) = Len(list) + 1 /\ Append(list, e)[Len(list) + 1] = e
        /\ \A k \in 1..Len(list) : Append(list, e)[k] = list[k]
    OBVIOUS
  <1>2. \A k : k \in p..Len(list) + 1 <=> k = Len(list) + 1 \/ k \in p..Len(list)
    OBVIOUS
  <1>3. \A k \in p..Len(list) : Append(list, e)[k] = list[k]
    BY <1>1
  <1> QED
    BY <1>1, <1>2, <1>3 DEF From, Number

\* The place of a list that runs, or rests.
LEMMA NextIs ==
  ASSUME Structure, NEW d \in Ids, NEW i \in Lists
  PROVE  NextOf(d, i) \in 1..Len(lists[d][i].list) + 1
  <1>1. Len(lists[d][i].list) \in Nat
    BY ListIs DEF Structure
  <1>2. lists[d][i].firing => lists[d][i].at \in 1..Len(lists[d][i].list) + 1
    BY ListIs DEF Structure
  <1>3. CASE lists[d][i].firing /\ Inside(d, i)
    <2>1. PICK k \in 2..Depth : frames[k].d = d /\ frames[k].i = i /\ frames[k].in
      BY <1>3 DEF Inside
    <2>2. lists[d][i].at <= Len(lists[d][i].list)
      BY <2>1 DEF Structure, FramesOK
    <2> QED
      BY <1>1, <1>2, <1>3, <2>2 DEF NextOf
  <1> QED
    BY <1>1, <1>2, <1>3 DEF NextOf

\* The round of the top frame.
LEMMA OwnView ==
  ASSUME Structure, Depth > 1
  PROVE  Alive(Top.d, Top.i) /\ (Inside(Top.d, Top.i) <=> Top.in)
  <1>1. Depth \in Nat /\ Depth \in 2..Depth
    BY StackIs DEF Structure
  <1>2. \A k \in 2..Depth : frames[k].d = Top.d /\ frames[k].i = Top.i => k = Depth
    BY <1>1 DEF Structure, FramesOK, Top
  <1> QED
    BY <1>1, <1>2 DEF Alive, Inside, Top

\* A step that leaves the rounds of a list, and the list, where they were.
LEMMA SameView ==
  ASSUME NEW d \in Ids, NEW i \in Lists, lists'[d][i] = lists[d][i],
         Alive(d, i)' <=> Alive(d, i), Inside(d, i)' <=> Inside(d, i)
  PROVE  (Open(d, i)' <=> Open(d, i)) /\ NextOf(d, i)' = NextOf(d, i) /\ Ahead(d, i)' = Ahead(d, i)
  <1>1. Open(d, i)' <=> Open(d, i)
    BY DEF Open
  <1>2. NextOf(d, i)' = NextOf(d, i)
    BY DEF NextOf
  <1>3. Ahead(d, i)' = Ahead(d, i)
    BY <1>2 DEF Ahead
  <1> QED
    BY <1>1, <1>2, <1>3

\* The top frame does something, or is pushed upon, or is popped.
LEMMA TopView ==
  ASSUME Types, NEW f \in Frames, f.d = Top.d, f.i = Top.i, frames' = WithTop(f)
  PROVE  \A d \in Ids, i \in Lists :
            /\ Alive(d, i)' <=> Alive(d, i)
            /\ (f.in <=> Top.in) \/ d # Top.d \/ i # Top.i => (Inside(d, i)' <=> Inside(d, i))
  <1>1. Depth \in Nat \ {0} /\ Top = frames[Depth]
    BY StackIs DEF Top
  <1>2. Depth' = Depth /\ frames'[Depth] = f /\ \A k \in 1..Depth : k # Depth => frames'[k] = frames[k]
    BY TopIs
  <1>3. \A k \in 2..Depth : /\ frames'[k].d = frames[k].d /\ frames'[k].i = frames[k].i
                            /\ k # Depth \/ (f.in <=> Top.in) => (frames'[k].in <=> frames[k].in)
    BY <1>1, <1>2
  <1>4. \A d, i : Alive(d, i)' <=> \E k \in 2..Depth : frames'[k].d = d /\ frames'[k].i = i
    BY <1>2 DEF Alive
  <1>5. \A d, i : Inside(d, i)' <=> \E k \in 2..Depth : frames'[k].d = d /\ frames'[k].i = i /\ frames'[k].in
    BY <1>2 DEF Inside
  <1>6. \A d, i : Alive(d, i)' <=> Alive(d, i)
    BY <1>3, <1>4 DEF Alive
  <1>7. ASSUME NEW d, NEW i, (f.in <=> Top.in) \/ d # Top.d \/ i # Top.i
        PROVE  Inside(d, i)' <=> Inside(d, i)
    <2>1. \A k \in 2..Depth : (frames'[k].d = d /\ frames'[k].i = i /\ frames'[k].in)
                             <=> (frames[k].d = d /\ frames[k].i = i /\ frames[k].in)
      BY <1>1, <1>3, <1>7
    <2> QED
      BY <1>5, <2>1 DEF Inside
  <1> QED
    BY <1>6, <1>7

LEMMA PushView ==
  ASSUME Types, NEW base \in Seq(Frames), Len(base) = Depth, NEW d \in Ids, NEW i \in Lists,
         frames' = Append(base, Round(d, i)),
         \A k \in 1..Depth : base[k].d = frames[k].d /\ base[k].i = frames[k].i /\ (base[k].in <=> frames[k].in)
  PROVE  /\ Alive(d, i)'
         /\ ~Alive(d, i) => ~Inside(d, i)'
         /\ \A e \in Ids, j \in Lists : e # d \/ j # i =>
               (Alive(e, j)' <=> Alive(e, j)) /\ (Inside(e, j)' <=> Inside(e, j))
  <1>1. Depth \in Nat \ {0}
    BY StackIs
  <1>2. Depth' = Depth + 1 /\ frames'[Depth + 1] = Round(d, i) /\ \A k \in 1..Depth : frames'[k] = base[k]
    BY PushIs
  <1>3. Round(d, i).d = d /\ Round(d, i).i = i /\ ~Round(d, i).in
    BY RoundIs
  <1>4. \A k : k \in 2..Depth + 1 <=> k = Depth + 1 \/ k \in 2..Depth
    BY <1>1
  <1>5. \A k \in 2..Depth :
           frames'[k].d = frames[k].d /\ frames'[k].i = frames[k].i /\ (frames'[k].in <=> frames[k].in)
    BY <1>2
  <1>6. \A e, j : Alive(e, j)' <=> (e = d /\ j = i) \/ Alive(e, j)
    BY <1>2, <1>3, <1>4, <1>5 DEF Alive
  <1>7. \A e, j : Inside(e, j)' <=> Inside(e, j)
    BY <1>2, <1>3, <1>4, <1>5 DEF Inside
  <1>8. Inside(d, i) => Alive(d, i)
    BY DEF Inside, Alive
  <1> QED
    BY <1>6, <1>7, <1>8

LEMMA PopView ==
  ASSUME Types, Depth > 1, frames' = SubSeq(frames, 1, Depth - 1)
  PROVE  \A d \in Ids, i \in Lists : d # Top.d \/ i # Top.i =>
            (Alive(d, i)' <=> Alive(d, i)) /\ (Inside(d, i)' <=> Inside(d, i))
  <1>1. Depth \in Nat \ {0}
    BY StackIs
  <1>2. Depth' = Depth - 1 /\ \A k \in 1..Depth - 1 : frames'[k] = frames[k]
    BY PopIs
  <1>3. \A k : k \in 2..Depth <=> k = Depth \/ k \in 2..Depth - 1
    BY <1>1
  <1>4. \A k \in 2..Depth - 1 : frames'[k] = frames[k]
    BY <1>1, <1>2
  <1>5. \A d, i : d # Top.d \/ i # Top.i => (Alive(d, i)' <=> Alive(d, i))
    BY <1>2, <1>3, <1>4 DEF Alive, Top
  <1>6. \A d, i : d # Top.d \/ i # Top.i => (Inside(d, i)' <=> Inside(d, i))
    BY <1>2, <1>3, <1>4 DEF Inside, Top
  <1> QED
    BY <1>5, <1>6

\* Once the first two entries of a round were called the other list is disabled.
LEMMA NoneFresh ==
  ASSUME Structure,
         Top.in \/ ~HasNext(List) \/ List.list[List.at].fn \notin {"state", "disable"}
  PROVE  \A d \in Ids, i \in Sides : lists[d][i].fired => ~lists[d][3 - i].fired /\ lists[d][3 - i].disabled
  <1>1. ASSUME NEW d \in Ids, NEW i \in Sides, Fresh(d, i)
        PROVE  FALSE
    <2>1. Looping /\ Top.d = d /\ Top.i = i /\ ~Top.in
      BY <1>1 DEF Fresh, Looping
    <2>2. List = lists[d][i] /\ List.at <= 2 /\ Begins(List)
      BY <1>1, <2>1 DEF Fresh, List
    <2>3. Len(List.list) \in Nat /\ List.at \in 1..Len(List.list) + 1
      BY <2>1, <2>2, LoopIs, ListIs DEF Structure
    <2>4. Len(List.list) >= 2 /\ List.list[1].fn = "state" /\ List.list[2].fn = "disable"
      BY <2>2 DEF Begins
    <2>5. HasNext(List)
      BY <2>1, <2>2, <2>3, <2>4, LoopIs
    <2>6. List.at = 1 \/ List.at = 2
      BY <2>2, <2>3
    <2>7. List.list[List.at].fn \in {"state", "disable"}
      BY <2>4, <2>6
    <2> QED
      BY <2>1, <2>5, <2>7
  <1> QED
    BY <1>1 DEF Structure, OneSide

-------------------------------------------------------------------------------
(* Steps in which no handler is registered, added or called. *)

LEMMA TopStructure ==
  ASSUME Structure, NEW f \in Frames, f.d = Top.d, f.i = Top.i, f.in,
         lists' = lists, frames' = WithTop(f), Counts',
         Top.in \/ (HasNext(List) /\ List.list[List.at].fn \notin {"state", "disable"})
  PROVE  Structure'
  <1>1. Depth \in Nat \ {0} /\ Top = frames[Depth]
    BY StackIs DEF Structure, Top
  <1>2. /\ frames' \in Seq(Frames) /\ Depth' = Depth /\ Top' = f /\ frames'[Depth] = f
        /\ \A k \in 1..Depth : k # Depth => frames'[k] = frames[k]
    BY TopIs DEF Structure
  <1>3. Types'
    BY <1>1, <1>2 DEF Types
  <1>4. ListsOK'
    BY DEF Structure, ListsOK, AllOK
  <1>5. \A k \in 1..Depth : frames'[k].d = frames[k].d /\ frames'[k].i = frames[k].i
    BY <1>1, <1>2
  <1>6. ~Top.in => Depth > 1 /\ List = lists[Top.d][Top.i] /\ List.at <= Len(List.list)
    BY LoopIs DEF Looping
  <1>7. FramesOK'
    <2>1. \A k \in 1..Depth : k = 1 \/ k < Depth => frames'[k].in
      BY <1>1, <1>2 DEF Structure, FramesOK
    <2>2. \A k \in 1..Depth : ~frames'[k].in => frames'[k].todo = <<>>
      BY <1>1, <1>2 DEF Structure, FramesOK
    <2>3. ASSUME NEW k \in 2..Depth
          PROVE  /\ frames'[k].d \in Ids /\ lists[frames'[k].d][frames'[k].i].firing
                 /\ frames'[k].in => lists[frames'[k].d][frames'[k].i].at <= Len(lists[frames'[k].d][frames'[k].i].list)
      <3>1. /\ frames[k].d \in Ids /\ lists[frames[k].d][frames[k].i].firing
            /\ frames[k].in => lists[frames[k].d][frames[k].i].at <= Len(lists[frames[k].d][frames[k].i].list)
        BY DEF Structure, FramesOK
      <3>2. CASE k = Depth /\ ~Top.in
        <4>1. frames'[k].d = Top.d /\ frames'[k].i = Top.i
          BY <1>1, <1>5, <3>2
        <4> QED
          BY <1>6, <3>1, <3>2, <4>1, <1>1
      <3>3. CASE k # Depth \/ Top.in
        <4>1. frames'[k].d = frames[k].d /\ frames'[k].i = frames[k].i /\ (frames'[k].in => frames[k].in)
          BY <1>1, <1>2, <1>5, <3>3
        <4> QED
          BY <3>1, <4>1
      <3> QED
        BY <3>2, <3>3
    <2>4. \A j, k \in 2..Depth : frames'[j].d = frames'[k].d /\ frames'[j].i = frames'[k].i => j = k
      BY <1>1, <1>5 DEF Structure, FramesOK
    <2> QED
      BY <1>2, <2>1, <2>2, <2>3, <2>4 DEF FramesOK
  <1>8. OneSide'
    BY NoneFresh DEF Structure, OneSide
  <1> QED
    BY <1>3, <1>4, <1>7, <1>8 DEF Structure

\* What is said of handlers is kept by a step that neither adds nor calls one.
LEMMA Quiet ==
  ASSUME DInv, Structure', registered' = registered, told' = told, Top.todo = <<>>,
         \A k \in 1..Depth' : \A j \in 1..Len(frames'[k].todo) :
            Adds(frames'[k].todo[j]) => k \in 1..Depth - 1 /\ frames'[k] = frames[k],
         \A d \in Ids, i \in Lists : lists'[d][i].list \in {lists[d][i].list, <<>>},
         \A d \in Ids, i \in Sides : (lists[d][i].disabled => lists'[d][i].disabled)
                                     /\ (lists[d][i].fired => lists'[d][i].fired),
         \A d \in Ids, i \in Sides : Open(d, i)' => Open(d, i) /\ Ahead(d, i)' = Ahead(d, i)
  PROVE  DInv'
  <1>1. Depth \in Nat \ {0} /\ Len(<<>>) = 0
    BY StackIs, NoEntries DEF DInv, Structure
  <1>2. registered \in Seq(Registering)
    BY DEF DInv, Structure, Types, Counts
  <1>3. \A n \in 1..Len(registered) : registered[n].of \in Ids /\ registered[n].hows \subseteq Sides
    <2>1. \A n \in 1..Len(registered) : registered[n] \in Registering
      BY <1>2, SMTT(20)
    <2> QED
      BY <2>1 DEF Registering
  <1>4. HandlersPlaced'
    <2> SUFFICES ASSUME NEW d \in Ids, NEW i \in Lists, NEW k \in 1..Len(lists'[d][i].list),
                        IsHandler(lists'[d][i].list[k])
                 PROVE  /\ lists'[d][i].list[k].n \in 1..Len(registered) /\ i \in Sides
                        /\ registered[lists'[d][i].list[k].n].of = d /\ i \in registered[lists'[d][i].list[k].n].hows
                        /\ \A j \in 1..k - 1 : IsHandler(lists'[d][i].list[j]) => lists'[d][i].list[j].n < lists'[d][i].list[k].n
      BY DEF HandlersPlaced
    <2>1. lists'[d][i].list = lists[d][i].list
      BY <1>1
    <2> QED
      BY <2>1, SMTT(20) DEF DInv, HandlersPlaced
  <1>5. ToldRight'
    <2>1. ASSUME NEW n \in 1..Len(registered), told[n] # 0
          PROVE  \E i \in registered[n].hows : lists'[registered[n].of][i].fired
      BY <1>3, <2>1 DEF DInv, ToldRight
    <2>2. \A d \in Ids, i \in Sides : Open(d, i)' => \A n \in Ahead(d, i)' : told[n] = 0
      BY DEF DInv, ToldRight
    <2> QED
      BY <2>1, <2>2 DEF ToldRight
  <1>6. OnTheWay'
    <2> SUFFICES ASSUME NEW k \in 1..Depth', NEW j \in 1..Len(frames'[k].todo), Adds(frames'[k].todo[j])
                 PROVE  InPlace(k, j)'
      BY DEF OnTheWay
    <2> DEFINE op == frames[k].todo[j]
    <2>1. k \in 1..Depth - 1 /\ frames'[k] = frames[k]
      OBVIOUS
    <2>2. k \in 1..Depth /\ k # Depth
      BY <1>1, <2>1
    <2>3. InPlace(k, j)
      BY <2>1, <2>2 DEF DInv, OnTheWay
    <2>4. op.d \in Ids /\ op.i \in Sides /\ lists[op.d][op.i].disabled
      BY <1>3, <2>2, <2>3, Zenon DEF InPlace
    <2>5. lists'[op.d][op.i].disabled
      BY <2>4
    <2> QED
      BY <2>1, <2>3, <2>5, Zenon DEF InPlace
  <1>7. NoneForgotten'
    <2>1. ASSUME NEW d \in Ids, NEW i \in Sides, Open(d, i)', NEW n \in 1..Len(registered'),
                 registered'[n].of = d, i \in registered'[n].hows
          PROVE  told'[n] # 0 \/ n \in Ahead(d, i)'
      <3>1. Open(d, i) /\ Ahead(d, i)' = Ahead(d, i)
        BY <2>1
      <3>2. \A j \in 1..Len(Top.todo) : FALSE
        BY <1>1
      <3> QED
        BY <2>1, <3>1, <3>2 DEF DInv, NoneForgotten
    <2> QED
      BY <2>1 DEF NoneForgotten
  <1> QED
    BY <1>4, <1>5, <1>6, <1>7 DEF DInv

LEMMA InsideNow ==
  ASSUME Structure, Depth > 1, NEW f \in Frames, NEW d, d = Top.d, f.d = d, NEW i, i = Top.i, f.i = i,
         frames' = WithTop(f)
  PROVE  Inside(d, i)' <=> f.in
  <1>1. Depth \in Nat /\ Depth \in 2..Depth /\ Top = frames[Depth]
    BY StackIs DEF Structure, Top
  <1>2. Depth' = Depth /\ frames'[Depth] = f /\ \A k \in 1..Depth : k # Depth => frames'[k] = frames[k]
    BY TopIs DEF Structure
  <1>3. \A k \in 2..Depth : frames'[k].d = d /\ frames'[k].i = i => k = Depth
    <2>1. \A k \in 2..Depth : frames'[k].d = frames[k].d /\ frames'[k].i = frames[k].i
      BY <1>1, <1>2
    <2> QED
      BY <1>1, <2>1 DEF Structure, FramesOK
  <1>4. Inside(d, i)' <=> \E k \in 2..Depth : frames'[k].d = d /\ frames'[k].i = i /\ frames'[k].in
    BY <1>2 DEF Inside
  <1> QED
    BY <1>1, <1>2, <1>3, <1>4

\* The code that runs goes on to something that adds no handler.
LEMMA Speaks ==
  ASSUME DInv, Top.in, Top.todo = <<>>, NEW f \in Frames, f.d = Top.d, f.i = Top.i, f.in,
         \A j \in 1..Len(f.todo) : ~Adds(f.todo[j]),
         frames' = WithTop(f), lists' = lists, Counts', registered' = registered, told' = told
  PROVE  DInv'
  <1>1. Structure'
    BY TopStructure DEF DInv
  <1>2. /\ Depth \in Nat \ {0} /\ Depth' = Depth /\ frames'[Depth] = f
        /\ \A k \in 1..Depth : k # Depth => frames'[k] = frames[k]
    BY TopIs, StackIs DEF DInv, Structure
  <1>3. \A k \in 1..Depth' : \A j \in 1..Len(frames'[k].todo) :
            Adds(frames'[k].todo[j]) => k \in 1..Depth - 1 /\ frames'[k] = frames[k]
    BY <1>2
  <1>4. ASSUME NEW d \in Ids, NEW i \in Sides, Open(d, i)'
        PROVE  Open(d, i) /\ Ahead(d, i)' = Ahead(d, i)
    <2>1. i \in Lists /\ (Alive(d, i)' <=> Alive(d, i)) /\ (Inside(d, i)' <=> Inside(d, i))
      BY TopView, SMTT(20) DEF DInv, Structure, Sides, Lists
    <2> QED
      BY <1>4, <2>1, SameView
  <1> QED
    BY <1>1, <1>3, <1>4, Quiet

\* The loop calls an entry that is no handler.
LEMMA Enters ==
  ASSUME DInv, Looping, HasNext(List), List.list[List.at].fn \notin {"state", "disable", "handler"},
         NEW f \in Frames, f.d = Top.d, f.i = Top.i, f.in,
         \A j \in 1..Len(f.todo) : ~Adds(f.todo[j]),
         frames' = WithTop(f), lists' = lists, Counts', registered' = registered, told' = told
  PROVE  DInv'
  <1>1. Structure'
    BY TopStructure DEF DInv
  <1>2. /\ Depth \in Nat \ {0} /\ Depth' = Depth /\ frames'[Depth] = f
        /\ \A k \in 1..Depth : k # Depth => frames'[k] = frames[k]
    BY TopIs, StackIs DEF DInv, Structure
  <1>3. \A k \in 1..Depth' : \A j \in 1..Len(frames'[k].todo) :
            Adds(frames'[k].todo[j]) => k \in 1..Depth - 1 /\ frames'[k] = frames[k]
    BY <1>2
  <1>4. /\ Depth > 1 /\ Top.todo = <<>> /\ Top.d \in Ids /\ Top.i \in Lists
        /\ List = lists[Top.d][Top.i] /\ List.firing /\ List.at \in 1..Len(List.list)
    BY LoopIs DEF DInv
  <1>5. ASSUME NEW d \in Ids, NEW i \in Sides, Open(d, i)'
        PROVE  Open(d, i) /\ Ahead(d, i)' = Ahead(d, i)
    <2>1. i \in Lists /\ (Alive(d, i)' <=> Alive(d, i))
          /\ (d # Top.d \/ i # Top.i => (Inside(d, i)' <=> Inside(d, i)))
      BY TopView DEF DInv, Structure, Sides, Lists
    <2>2. CASE d # Top.d \/ i # Top.i
      BY <1>5, <2>1, <2>2, SameView
    <2>3. CASE d = Top.d /\ i = Top.i
      <3>1. Open(d, i)
        BY <1>5, <2>1 DEF Open
      <3>2. ~Inside(d, i) /\ Inside(d, i)'
        BY <1>4, <2>3, OwnView, InsideNow DEF Looping, DInv
      <3>3. NextOf(d, i) = List.at /\ NextOf(d, i)' = List.at + 1
        BY <1>4, <2>3, <3>2, SMTT(20) DEF NextOf
      <3>4. List.list \in Seq(Item)
        BY <1>4, ListIs, Zenon DEF DInv, Structure
      <3>5. From(List.list, List.at) = From(List.list, List.at + 1) \cup Number(List.list[List.at])
        BY <1>4, <3>4, FromNext, ZenonT(40)
      <3>6. Number(List.list[List.at]) = {}
        BY DEF Number, IsHandler
      <3>7. Ahead(d, i) = From(List.list, List.at) /\ Ahead(d, i)' = From(List.list, List.at + 1)
        BY <1>4, <2>3, <3>3 DEF Ahead
      <3> QED
        BY <3>1, <3>5, <3>6, <3>7
    <2> QED
      BY <2>2, <2>3
  <1> QED
    BY <1>1, <1>3, <1>4, <1>5, Quiet

-------------------------------------------------------------------------------
(* Steps that move a round on, or end it. *)

LEMMA FramesKept ==
  ASSUME Structure, Depth' = Depth,
         \A k \in 1..Depth : /\ frames'[k].d = frames[k].d /\ frames'[k].i = frames[k].i
                             /\ k # Depth => frames'[k] = frames[k],
         Depth = 1 => frames'[1].in,
         ~frames'[Depth].in => frames'[Depth].todo = <<>>,
         \A k \in 2..Depth :
            /\ lists'[frames[k].d][frames[k].i].firing
            /\ frames'[k].in => lists'[frames[k].d][frames[k].i].at <= Len(lists'[frames[k].d][frames[k].i].list)
  PROVE  FramesOK'
  <1>1. Depth \in Nat \ {0}
    BY StackIs DEF Structure
  <1>2. \A k \in 1..Depth : k = 1 \/ k < Depth => frames'[k].in
    BY <1>1 DEF Structure, FramesOK
  <1>3. \A k \in 1..Depth : ~frames'[k].in => frames'[k].todo = <<>>
    BY <1>1 DEF Structure, FramesOK
  <1>4. \A k \in 2..Depth : k \in 1..Depth /\ frames[k].d \in Ids
    BY <1>1 DEF Structure, FramesOK
  <1>5. \A j, k \in 2..Depth : frames'[j].d = frames'[k].d /\ frames'[j].i = frames'[k].i => j = k
    BY <1>4 DEF Structure, FramesOK
  <1>6. \A k \in 2..Depth :
          /\ frames'[k].d \in Ids
          /\ lists'[frames'[k].d][frames'[k].i].firing
          /\ frames'[k].in => lists'[frames'[k].d][frames'[k].i].at <= Len(lists'[frames'[k].d][frames'[k].i].list)
    BY <1>4
  <1> QED
    BY <1>2, <1>3, <1>5, <1>6 DEF FramesOK

LEMMA SidesKept ==
  ASSUME \A d \in Ids, i \in Sides : lists[d][i].fired => ~lists[d][3 - i].fired /\ lists[d][3 - i].disabled,
         Structure,
         \A d \in Ids, i \in Sides : (lists'[d][i].fired <=> lists[d][i].fired)
                                     /\ (lists[d][i].disabled => lists'[d][i].disabled)
                                     /\ (lists'[d][i].disabled \/ lists[d][i].fired \/ Begins(lists[d][i]) =>
                                          lists'[d][i].disabled \/ lists[d][i].fired \/ Begins(lists'[d][i]))
  PROVE  OneSide'
  <1>1. \A i \in Sides : 3 - i \in Sides
    BY DEF Sides
  <1>2. \A d \in Ids, i \in Sides : ~lists[d][i].fired /\ ~lists[d][i].disabled => Begins(lists[d][i])
    BY DEF Structure, OneSide
  <1>3. ASSUME NEW d \in Ids, NEW i \in Sides
        PROVE  /\ lists'[d][i].fired => ~lists'[d][3 - i].fired /\ lists'[d][3 - i].disabled
               /\ ~lists'[d][i].fired /\ ~lists'[d][i].disabled => Begins(lists'[d][i])
    BY <1>1, <1>2
  <1>4. \A d \in Ids, i \in Sides : ~lists'[d][i].fired /\ ~lists'[d][i].disabled => Begins(lists[d][i])'
    BY <1>3 DEF Begins
  <1> QED
    BY <1>3, <1>4 DEF OneSide

\* An entry returns.
LEMMA Returns ==
  ASSUME DInv, Depth > 1, Top.in, Top.todo = <<>>,
         lists' = Put(lists, Top.d, Top.i, Advance(lists[Top.d][Top.i])),
         frames' = WithTop([Top EXCEPT !.in = FALSE, !.user = FALSE]),
         Counts', registered' = registered, told' = told
  PROVE  DInv' /\ \A d \in Ids, i \in Sides :
                    (lists'[d][i].fired <=> lists[d][i].fired) /\ lists'[d][i].data = lists[d][i].data
  <1> DEFINE f == [Top EXCEPT !.in = FALSE, !.user = FALSE]
             y == Advance(List)
  <1>1. /\ Structure /\ Types /\ Depth \in Nat /\ Depth # 0 /\ Top \in Frames
        /\ Top.d \in Ids /\ Top.i \in Lists /\ List = lists[Top.d][Top.i] /\ List.firing
        /\ List.at \in 1..Len(List.list) /\ List.length = Len(List.list)
    BY RunningIs DEF DInv, Structure
  <1>2. f \in Frames /\ f.d = Top.d /\ f.i = Top.i /\ ~f.in /\ f.todo = <<>>
    BY <1>1 DEF Frames
  <1> HIDE DEF f
  <1>3. /\ frames' \in Seq(Frames) /\ Depth' = Depth /\ frames'[Depth] = f
        /\ \A k \in 1..Depth : k # Depth => frames'[k] = frames[k]
    BY <1>1, <1>2, TopIs DEF f
  <1>4. ListOK(List) /\ List.list \in Seq(Item) /\ Len(List.list) \in Nat
    BY <1>1, ListIs DEF Structure
  <1>5. List.at <= List.length
    BY <1>1, <1>4
  <1>6. /\ ListOK(y)
        /\ y.list = List.list /\ y.at = List.at + 1 /\ y.data = List.data /\ y.memory = List.memory
        /\ (y.disabled <=> List.disabled) /\ y.firing /\ (y.fired <=> List.fired) /\ (y.stacked <=> List.stacked)
        /\ y.stack = List.stack
    BY <1>1, <1>4, <1>5, AdvanceOK, SMTT(20)
  <1>7. Top.i \in Sides => Settling(y)
    <2>1. Top.i \in Sides => Settling(List)
      BY <1>1 DEF Structure, ListsOK, AllOK
    <2> QED
      BY <1>1, <1>6, <2>1 DEF Settling
  <1>8. lists' = Put(lists, Top.d, Top.i, y)
    BY <1>1
  <1> HIDE DEF y
  <1>9. /\ ListsOK' /\ lists'[Top.d][Top.i] = y
        /\ \A e \in Ids, j \in Lists : e # Top.d \/ j # Top.i => lists'[e][j] = lists[e][j]
    BY <1>1, <1>6, <1>7, <1>8, PutIs DEF Structure
  <1>10. \A d \in Ids, i \in Lists :
            /\ lists'[d][i].list = lists[d][i].list /\ lists'[d][i].data = lists[d][i].data
            /\ (lists'[d][i].firing <=> lists[d][i].firing) /\ (lists'[d][i].fired <=> lists[d][i].fired)
            /\ (lists'[d][i].disabled <=> lists[d][i].disabled)
    BY <1>1, <1>6, <1>9, ZenonT(40)
  <1>11. Types'
    BY <1>1, <1>3 DEF Types
  <1>12. FramesOK'
    <2>1. \A k \in 1..Depth : /\ frames'[k].d = frames[k].d /\ frames'[k].i = frames[k].i
                              /\ k # Depth => frames'[k] = frames[k]
      BY <1>2, <1>3 DEF Top
    <2>2. ASSUME NEW k \in 2..Depth
          PROVE  /\ lists'[frames[k].d][frames[k].i].firing
                 /\ frames'[k].in => lists'[frames[k].d][frames[k].i].at <= Len(lists'[frames[k].d][frames[k].i].list)
      <3>1. /\ frames[k].d \in Ids /\ lists[frames[k].d][frames[k].i].firing
            /\ frames[k].in => lists[frames[k].d][frames[k].i].at <= Len(lists[frames[k].d][frames[k].i].list)
        BY <1>1 DEF Structure, FramesOK
      <3>2. k \in 1..Depth /\ frames[k] \in Frames
        BY <1>1, StackIs
      <3>3. frames[k].i \in Lists
        BY <3>2, FrameIs
      <3>4. CASE k = Depth
        BY <1>2, <1>3, <1>10, <3>1, <3>3, <3>4, ZenonT(40)
      <3>5. CASE k # Depth
        <4>1. frames[k].d # Top.d \/ frames[k].i # Top.i
          <5>1. Depth \in 2..Depth /\ Top = frames[Depth]
            BY <1>1 DEF Top
          <5>2. frames[k].d = frames[Depth].d /\ frames[k].i = frames[Depth].i => k = Depth
            BY <1>1, <5>1, Zenon DEF Structure, FramesOK
          <5> QED
            BY <3>5, <5>1, <5>2
        <4> QED
          BY <1>3, <1>9, <3>1, <3>2, <3>3, <3>5, <4>1, Zenon
      <3> QED
        BY <3>4, <3>5, Zenon
    <2> QED
      <3>1. Depth # 1 /\ (~frames'[Depth].in => frames'[Depth].todo = <<>>)
        BY <1>1, <1>2, <1>3
      <3> QED
        BY <1>1, <1>3, <2>1, <2>2, <3>1, FramesKept, Zenon
  <1>13. OneSide'
    <2>1. \A d \in Ids, i \in Sides : lists[d][i].fired => ~lists[d][3 - i].fired /\ lists[d][3 - i].disabled
      BY <1>1, NoneFresh
    <2>2. \A i \in Sides : i \in Lists
      BY DEF Sides, Lists
    <2> QED
      BY <1>1, <1>10, <2>1, <2>2, SidesKept, Zenon DEF Begins
  <1>14. Structure'
    BY <1>9, <1>11, <1>12, <1>13 DEF Structure
  <1>15. \A k \in 1..Depth' : \A j \in 1..Len(frames'[k].todo) :
            Adds(frames'[k].todo[j]) => k \in 1..Depth - 1 /\ frames'[k] = frames[k]
    BY <1>1, <1>2, <1>3, NoEntries
  <1>16. ASSUME NEW d \in Ids, NEW i \in Sides, Open(d, i)'
         PROVE  Open(d, i) /\ Ahead(d, i)' = Ahead(d, i)
    <2>1. i \in Lists /\ (Alive(d, i)' <=> Alive(d, i))
          /\ (d # Top.d \/ i # Top.i => (Inside(d, i)' <=> Inside(d, i)))
      <3>1. i \in Lists
        BY DEF Sides, Lists
      <3>2. frames' = WithTop(f)
        BY DEF f
      <3> QED
        BY <1>1, <1>2, <3>1, <3>2, TopView
    <2>2. CASE d # Top.d \/ i # Top.i
      BY <1>9, <1>16, <2>1, <2>2, SameView
    <2>3. CASE d = Top.d /\ i = Top.i
      <3>1. Open(d, i)
        BY <1>10, <1>16, <2>1, Zenon DEF Open
      <3>2. Inside(d, i) /\ ~Inside(d, i)'
        BY <1>1, <1>2, <2>3, OwnView, InsideNow, Zenon DEF f
      <3>3. NextOf(d, i) = List.at + 1 /\ NextOf(d, i)' = List.at + 1
        BY <1>1, <1>6, <1>9, <2>3, <3>2, Zenon DEF NextOf
      <3> QED
        BY <1>10, <2>1, <3>1, <3>3, Zenon DEF Ahead
    <2> QED
      BY <2>2, <2>3
  <1>17. \A i \in Sides : i \in Lists
    BY DEF Sides, Lists
  <1>18. DInv'
    BY <1>10, <1>14, <1>15, <1>16, <1>17, Quiet, Zenon
  <1> QED
    BY <1>10, <1>17, <1>18, Zenon

\* A function of the page throws.
LEMMA Throws ==
  ASSUME DInv, Top.in, Top.todo = <<>>, frames' = <<PageFrame>>, lists' = lists,
         Counts', registered' = registered, told' = told
  PROVE  DInv'
  <1>1. PageFrame \in Frames /\ PageFrame.in /\ PageFrame.todo = <<>>
    <2>1. <<>> \in Seq(Adding \cup Firing) /\ 1 \in Lists
      BY DEF Lists
    <2> QED
      BY <2>1 DEF PageFrame, Frames
  <1>2. frames' \in Seq(Frames) /\ Depth' = 1 /\ frames'[1] = PageFrame
    BY <1>1 DEF Depth
  <1>3. Types'
    BY <1>2 DEF Types
  <1>4. ListsOK'
    BY DEF DInv, Structure, ListsOK, AllOK
  <1>5. FramesOK'
    BY <1>1, <1>2 DEF FramesOK
  <1>6. OneSide'
    BY NoneFresh, SidesKept DEF DInv, Begins
  <1>7. Structure'
    BY <1>3, <1>4, <1>5, <1>6 DEF Structure
  <1>8. \A k \in 1..Depth' : \A j \in 1..Len(frames'[k].todo) :
            Adds(frames'[k].todo[j]) => k \in 1..Depth - 1 /\ frames'[k] = frames[k]
    BY <1>1, <1>2, NoEntries
  <1>9. ASSUME NEW d \in Ids, NEW i \in Sides, Open(d, i)'
        PROVE  Open(d, i) /\ Ahead(d, i)' = Ahead(d, i)
    <2>1. ~Alive(d, i)'
      BY <1>2 DEF Alive
    <2>2. ~lists[d][i].firing /\ ~lists[d][i].disabled
      BY <1>9, <2>1 DEF Open
    <2> QED
      BY <2>2 DEF Open, Ahead, NextOf
  <1> QED
    BY <1>7, <1>8, <1>9, Quiet

\* A round ends, its list as y, or the next one begins.
Closes(y) == /\ y.firing => frames' = frames
             /\ ~y.firing => frames' = SubSeq(frames, 1, Depth - 1)

LEMMA Ends ==
  ASSUME DInv, Looping, ~HasNext(List), NEW y, y = End(List, Options(Top.i)),
         lists' = Put(lists, Top.d, Top.i, y),
         Closes(y),
         Counts', registered' = registered, told' = told
  PROVE  DInv' /\ \A d \in Ids, i \in Sides :
                    (lists'[d][i].fired <=> lists[d][i].fired) /\ lists'[d][i].data = lists[d][i].data
  <1>1. /\ Structure /\ Types /\ Depth \in Nat /\ Depth > 1 /\ Top \in Frames /\ Top.todo = <<>> /\ ~Top.in
        /\ Top.d \in Ids /\ Top.i \in Lists /\ List = lists[Top.d][Top.i] /\ List.firing
        /\ ~(List.at <= Len(List.list))
    BY LoopIs DEF DInv, Structure, Looping
  <1>2. /\ ListOK(List) /\ List.list \in Seq(Item) /\ Len(List.list) \in Nat /\ List.at \in Nat
        /\ ~List.disabled
    BY <1>1, ListIs DEF Structure
  <1>3. Options(Top.i) \in {OnceMemory, OnlyMemory}
    BY <1>1, OptionsAre
  <1>4. /\ ListOK(y) /\ y.list \in {List.list, <<>>}
        /\ ~List.stacked => y.list = <<>> /\ ~y.firing /\ (y.fired <=> List.fired)
        /\ ~List.stacked => ~y.disabled /\ ~y.stacked /\ y.stack = List.stack
        /\ ~List.stacked => y.data = List.data /\ y.memory = List.memory
    BY <1>1, <1>2, <1>3, EndOK
  <1>5. Top.i \in Sides => ~List.stacked /\ List.stack = <<>> /\ List.fired /\ List.memory # 0
    BY <1>1 DEF Structure, ListsOK, AllOK, Settling
  <1>6. Top.i \in Sides => Settling(y)
    BY <1>4, <1>5, SMTT(20) DEF Settling
  <1>7. /\ ListsOK' /\ lists'[Top.d][Top.i] = y
        /\ \A e \in Ids, j \in Lists : e # Top.d \/ j # Top.i => lists'[e][j] = lists[e][j]
    <2>1. ListsOK /\ ListOK(y)
      BY <1>1, <1>4 DEF Structure
    <2> QED
      BY <1>1, <1>6, <2>1, PutIs
  <1>8. \A i \in Sides : i \in Lists
    BY DEF Sides, Lists
  <1>9. ASSUME NEW d \in Ids, NEW i \in Sides
        PROVE  /\ lists'[d][i].data = lists[d][i].data /\ (lists'[d][i].fired <=> lists[d][i].fired)
               /\ (lists'[d][i].disabled <=> lists[d][i].disabled)
               /\ lists[d][i].fired \/ lists'[d][i].list = lists[d][i].list
    <2>1. CASE d # Top.d \/ i # Top.i
      <3>1. lists'[d][i] = lists[d][i]
        BY <1>7, <1>8, <2>1
      <3> QED
        BY <3>1
    <2>2. CASE d = Top.d /\ i = Top.i
      <3>1. lists'[d][i] = y /\ lists[d][i] = List /\ ~List.stacked
        BY <1>1, <1>5, <1>7, <2>2
      <3>2. y.data = List.data /\ (y.fired <=> List.fired) /\ (y.disabled <=> List.disabled) /\ List.fired
        BY <1>2, <1>4, <1>5, <2>2
      <3> QED
        BY <3>1, <3>2
    <2> QED
      BY <2>1, <2>2
  <1>10. OneSide'
    <2>1. \A d \in Ids, i \in Sides : lists[d][i].fired => ~lists[d][3 - i].fired /\ lists[d][3 - i].disabled
      BY <1>1, NoneFresh
    <2> QED
      BY <1>1, <1>9, <2>1, SidesKept, Zenon DEF Begins
  <1>11. ASSUME NEW k \in 2..Depth, k # Depth
         PROVE  /\ frames[k].d \in Ids /\ frames[k].i \in Lists /\ (frames[k].d # Top.d \/ frames[k].i # Top.i)
                /\ lists'[frames[k].d][frames[k].i].firing
                /\ frames[k].in => lists'[frames[k].d][frames[k].i].at <= Len(lists'[frames[k].d][frames[k].i].list)
    <2>1. /\ frames[k].d \in Ids /\ lists[frames[k].d][frames[k].i].firing
          /\ frames[k].in => lists[frames[k].d][frames[k].i].at <= Len(lists[frames[k].d][frames[k].i].list)
      BY <1>1 DEF Structure, FramesOK
    <2>2. k \in 1..Depth /\ frames[k] \in Frames
      BY <1>1, StackIs
    <2>3. frames[k].i \in Lists
      BY <2>2, FrameIs
    <2>4. frames[k].d # Top.d \/ frames[k].i # Top.i
      <3>1. Depth \in 2..Depth /\ Top = frames[Depth]
        BY <1>1, SMTT(20) DEF Top
      <3>2. frames[k].d = frames[Depth].d /\ frames[k].i = frames[Depth].i => k = Depth
        BY <1>1, <3>1, ZenonT(30) DEF Structure, FramesOK
      <3> QED
        BY <1>11, <3>1, <3>2
    <2> QED
      BY <1>7, <2>1, <2>3, <2>4
  <1>12. CASE y.firing
    <2>1. frames' = frames /\ Depth' = Depth /\ Top.i \notin Sides
      BY <1>4, <1>5, <1>12 DEF Depth, Closes
    <2>2. FramesOK'
      <3>1. ASSUME NEW k \in 2..Depth
            PROVE  /\ lists'[frames[k].d][frames[k].i].firing
                   /\ frames'[k].in => lists'[frames[k].d][frames[k].i].at <= Len(lists'[frames[k].d][frames[k].i].list)
        <4>1. CASE k = Depth
          BY <1>1, <1>7, <1>12, <2>1, <4>1, Zenon DEF Top
        <4>2. CASE k # Depth
          BY <1>11, <2>1, <4>2
        <4> QED
          BY <4>1, <4>2
      <3>2. Depth # 1 /\ (~frames'[Depth].in => frames'[Depth].todo = <<>>)
        <4>1. frames'[Depth] = Top
          BY <2>1 DEF Top
        <4> QED
          BY <1>1, <4>1
      <3> QED
        BY <1>1, <2>1, <3>1, <3>2, FramesKept, Zenon
    <2>3. Structure'
      BY <1>1, <1>7, <1>10, <2>1, <2>2 DEF Structure, Types
    <2>4. \A k \in 1..Depth' : \A j \in 1..Len(frames'[k].todo) :
              Adds(frames'[k].todo[j]) => k \in 1..Depth - 1 /\ frames'[k] = frames[k]
      <3>1. frames'[Depth] = Top /\ Depth' = Depth
        BY <2>1 DEF Top
      <3>2. \A j \in 1..Len(Top.todo) : FALSE
        BY <1>1, NoEntries
      <3> QED
        BY <1>1, <2>1, <3>1, <3>2
    <2>5. ASSUME NEW d \in Ids, NEW i \in Sides, Open(d, i)'
          PROVE  Open(d, i) /\ Ahead(d, i)' = Ahead(d, i)
      <3>1. (Alive(d, i)' <=> Alive(d, i)) /\ (Inside(d, i)' <=> Inside(d, i))
        BY <2>1 DEF Alive, Inside
      <3>2. lists'[d][i] = lists[d][i]
        BY <1>7, <1>8, <2>1, SMTT(20)
      <3> QED
        BY <1>8, <2>5, <3>1, <3>2, SameView
    <2>6. \A d \in Ids, i \in Lists : lists'[d][i].list \in {lists[d][i].list, <<>>}
      BY <1>1, <1>4, <1>7
    <2> QED
      BY <1>1, <1>9, <2>3, <2>4, <2>5, <2>6, Quiet, ZenonT(40)
  <1>13. CASE ~y.firing
    <2>1. frames' = SubSeq(frames, 1, Depth - 1)
      BY <1>13 DEF Closes
    <2>2. frames' \in Seq(Frames) /\ Depth' = Depth - 1 /\ \A k \in 1..Depth - 1 : frames'[k] = frames[k]
      BY <1>1, <2>1, PopIs
    <2>3. FramesOK'
      <3>1. \A k \in 1..Depth - 1 : frames'[k].in
        BY <1>1, <2>2 DEF Structure, FramesOK
      <3>2. ASSUME NEW k \in 2..Depth - 1
            PROVE  /\ frames'[k].d \in Ids
                   /\ lists'[frames'[k].d][frames'[k].i].firing
                   /\ frames'[k].in => lists'[frames'[k].d][frames'[k].i].at <= Len(lists'[frames'[k].d][frames'[k].i].list)
        <4>1. k \in 2..Depth /\ k # Depth /\ frames'[k] = frames[k]
          BY <1>1, <2>2
        <4> QED
          BY <1>11, <4>1
      <3>3. \A j, k \in 2..Depth - 1 : frames'[j].d = frames'[k].d /\ frames'[j].i = frames'[k].i => j = k
        <4>1. \A k \in 2..Depth - 1 : k \in 2..Depth /\ frames'[k] = frames[k]
          BY <1>1, <2>2
        <4> QED
          BY <1>1, <4>1 DEF Structure, FramesOK
      <3> QED
        BY <2>2, <3>1, <3>2, <3>3 DEF FramesOK
    <2>4. Types'
      BY <1>1, <2>2 DEF Types
    <2>5. Structure'
      BY <1>7, <1>10, <2>3, <2>4 DEF Structure
    <2>6. \A k \in 1..Depth' : \A j \in 1..Len(frames'[k].todo) :
              Adds(frames'[k].todo[j]) => k \in 1..Depth - 1 /\ frames'[k] = frames[k]
      BY <2>2
    <2>7. ASSUME NEW d \in Ids, NEW i \in Sides, Open(d, i)'
          PROVE  Open(d, i) /\ Ahead(d, i)' = Ahead(d, i)
      <3>1. CASE d # Top.d \/ i # Top.i
        <4>1. (Alive(d, i)' <=> Alive(d, i)) /\ (Inside(d, i)' <=> Inside(d, i))
          BY <1>1, <1>8, <2>1, <3>1, PopView
        <4>2. lists'[d][i] = lists[d][i]
          BY <1>7, <1>8, <3>1
        <4> QED
          BY <1>8, <2>7, <4>1, <4>2, SameView
      <3>2. CASE d = Top.d /\ i = Top.i
        <4>1. Alive(d, i) /\ ~Inside(d, i)
          BY <1>1, <3>2, OwnView
        <4>2. Open(d, i)
          BY <1>1, <1>2, <3>2, <4>1 DEF Open
        <4>3. Ahead(d, i) = From(List.list, List.at)
          BY <1>1, <3>2, <4>1 DEF Ahead, NextOf
        <4>4. Ahead(d, i)' = From(<<>>, 1)
          BY <1>4, <1>5, <1>7, <1>13, <3>2 DEF Ahead, NextOf
        <4>5. From(List.list, List.at) = {}
          BY <1>1, <1>2, FromPast
        <4>6. From(<<>>, 1) = {}
          BY NoEntries DEF From
        <4> QED
          BY <4>2, <4>3, <4>4, <4>5, <4>6
      <3> QED
        BY <3>1, <3>2
    <2>8. \A d \in Ids, i \in Lists : lists'[d][i].list \in {lists[d][i].list, <<>>}
      BY <1>1, <1>4, <1>7
    <2> QED
      BY <1>1, <1>9, <2>5, <2>6, <2>7, <2>8, Quiet
  <1> QED
    BY <1>12, <1>13

\* The round of a list moves on, in lists already changed.
LEMMA MovesOn ==
  ASSUME NEW ls, AllOK(ls),
         NEW d \in Ids, NEW i \in Lists, ls[d][i].firing, ls[d][i].at <= ls[d][i].length,
         lists' = Put(ls, d, i, Advance(ls[d][i]))
  PROVE  /\ ListsOK' /\ lists'[d][i] = Advance(ls[d][i])
         /\ \A e \in Ids, j \in Lists : e # d \/ j # i => lists'[e][j] = ls[e][j]
  <1> DEFINE x == ls[d][i]
             y == Advance(x)
  <1>1. /\ ListOK(y)
        /\ y.list = x.list /\ y.at = x.at + 1 /\ y.data = x.data /\ y.memory = x.memory
        /\ (y.disabled <=> x.disabled) /\ y.firing /\ (y.fired <=> x.fired) /\ (y.stacked <=> x.stacked)
        /\ y.stack = x.stack
    BY AdvanceOK DEF AllOK
  <1>2. i \in Sides => Settling(y)
    <2>1. i \in Sides => Settling(x)
      BY DEF AllOK
    <2> QED
      BY <1>1, <2>1 DEF Settling
  <1>3. lists' = Put(ls, d, i, y)
    OBVIOUS
  <1> HIDE DEF y
  <1>4. /\ Table(lists')
        /\ lists'[d][i] = y
        /\ \A e \in Ids, j \in Lists : e # d \/ j # i => lists'[e][j] = ls[e][j]
    BY <1>3, Replaced DEF AllOK
  <1>5. \A e \in Ids, j \in Lists : ListOK(lists'[e][j])
    BY <1>1, <1>4 DEF AllOK
  <1>6. \A e \in Ids, j \in Sides : Settling(lists'[e][j])
    BY <1>2, <1>4 DEF Sides, Lists, AllOK
  <1>7. ListsOK'
    BY <1>4, <1>5, <1>6 DEF ListsOK, AllOK
  <1> QED
    BY <1>4, <1>7 DEF y

\* The entries a deferred makes for itself: what becomes of the lists.
LEMMA InternalIs ==
  ASSUME Structure, CallInternal, NEW d, d = Top.d, NEW i, i = Top.i
  PROVE  /\ ListsOK'
         /\ lists'[d][i].list = List.list /\ lists'[d][i].at = List.at + 1
         /\ lists'[d][i].firing /\ ~lists'[d][i].disabled
         /\ i \in Sides => (lists'[d][i].fired <=> List.fired) /\ lists'[d][i].data = List.data
         /\ \A e \in Ids, j \in Lists : e # d \/ j # i =>
                /\ lists[e][j].firing => lists'[e][j].firing /\ lists'[e][j].list = lists[e][j].list
                                         /\ lists'[e][j].at = lists[e][j].at
                /\ lists'[e][j].list \in {lists[e][j].list, <<>>}
                /\ lists'[e][j].firing => lists[e][j].firing
         /\ \A e \in Ids, j \in Sides : e # d \/ j # i =>
                \/ lists'[e][j] = lists[e][j]
                \/ e = d /\ j = 3 - i /\ ~lists[e][j].fired /\ ~lists'[e][j].fired /\ lists'[e][j].disabled
         /\ List.list[List.at].fn = "disable" /\ i \in Sides => lists'[d][3 - i].disabled
  <1>1. /\ Depth > 1 /\ d \in Ids /\ i \in Lists /\ List = lists[d][i] /\ List.firing /\ ListsOK
        /\ List.at <= Len(List.list) /\ List.length = Len(List.list) /\ ~List.disabled
    <2>1. Looping /\ HasNext(List)
      BY DEF CallInternal
    <2>2. Depth > 1 /\ d \in Ids /\ i \in Lists /\ List = lists[d][i] /\ List.firing /\ List.at <= Len(List.list)
      BY <2>1, LoopIs
    <2> QED
      BY <2>2, ListIs DEF Structure
  <1>2. /\ Table(lists)
        /\ \A e \in Ids, j \in Lists : ListOK(lists[e][j])
        /\ \A e \in Ids, j \in Sides : Settling(lists[e][j])
    BY <1>1 DEF ListsOK, AllOK
  <1>3. LET y == Advance(List)
        IN  /\ y.list = List.list /\ y.at = List.at + 1 /\ y.data = List.data
            /\ y.firing /\ (y.fired <=> List.fired) /\ ~y.disabled
    BY <1>1, <1>2, AdvanceOK
  <1>4. CASE List.list[List.at].fn = "state" /\ lists' = Put(lists, d, i, Advance(lists[d][i]))
    <2>1. /\ ListsOK' /\ lists'[d][i] = Advance(lists[d][i])
          /\ \A e \in Ids, j \in Lists : e # d \/ j # i => lists'[e][j] = lists[e][j]
      BY <1>1, <1>4, MovesOn DEF ListsOK
    <2>2. \A j \in Sides : j \in Lists
      BY DEF Sides, Lists
    <2>3. /\ lists'[d][i].list = List.list /\ lists'[d][i].at = List.at + 1 /\ lists'[d][i].data = List.data
          /\ lists'[d][i].firing /\ (lists'[d][i].fired <=> List.fired) /\ ~lists'[d][i].disabled
      BY <1>1, <1>3, <2>1
    <2>4. \A e \in Ids, j \in Lists : e # d \/ j # i =>
                /\ lists[e][j].firing => lists'[e][j].firing /\ lists'[e][j].list = lists[e][j].list
                                         /\ lists'[e][j].at = lists[e][j].at
                /\ lists'[e][j].list \in {lists[e][j].list, <<>>}
                /\ lists'[e][j].firing => lists[e][j].firing
      BY <2>1
    <2> QED
      BY <1>4, <2>1, <2>2, <2>3, <2>4, ZenonT(40)
  <1>5. CASE List.list[List.at].fn = "disable"
             /\ lists' = LET ls == Put(lists, d, 3 - i, Disable(lists[d][3 - i]))
                         IN  Put(ls, d, i, Advance(ls[d][i]))
    <2> DEFINE j == 3 - i
               z == Disable(lists[d][j])
               ls == Put(lists, d, j, z)
    <2>1. j # i /\ (j \in Lists <=> i \in Sides) /\ (j \in Lists => j \in Sides)
      BY <1>1 DEF Lists, Sides
    <2>2. lists' = Put(ls, d, i, Advance(ls[d][i]))
      BY <1>5
    <2>3. ASSUME j \in Lists
          PROVE  ~lists[d][j].fired /\ ListOK(z) /\ Settling(z) /\ ~z.fired /\ z.disabled /\ z.list = <<>>
                 /\ ~lists[d][j].firing /\ ~z.firing
      <3>1. i \in Sides /\ j \in Sides /\ lists[d][i].fired
        BY <1>1, <2>1, <2>3, SideIs
      <3>2. ~lists[d][j].fired
        BY <1>1, <3>1 DEF Structure, OneSide
      <3>3. ListOK(lists[d][j]) /\ Settling(lists[d][j])
        BY <1>1, <1>2, <2>3, <3>1
      <3>4. ~lists[d][j].firing
        BY <3>2, <3>3 DEF Settling
      <3>5. Shape(lists[d][j]) /\ lists[d][j].start = 0
        BY <3>3 DEF ListOK
      <3>6. /\ ListOK(z) /\ z.list = <<>> /\ z.disabled /\ ~z.stacked /\ z.stack = <<>> /\ z.memory = 0
            /\ ~z.firing /\ (z.fired <=> lists[d][j].fired)
        BY <3>4, <3>5, DisableOK
      <3> QED
        BY <3>2, <3>4, <3>6 DEF Settling
    <2> HIDE DEF z, j
    <2>4. /\ Table(ls)
          /\ j \in Lists => ls[d][j] = z
          /\ \A e \in Ids, k \in Lists : e # d \/ k # j => ls[e][k] = lists[e][k]
      BY <1>1, <1>2, Replaced
    <2> HIDE DEF ls
    <2>5. \A k \in Sides : k \in Lists
      BY DEF Sides, Lists
    <2>6. (\A e \in Ids, k \in Lists : ListOK(ls[e][k])) /\ (\A e \in Ids, k \in Sides : Settling(ls[e][k]))
      BY <1>2, <2>3, <2>4, <2>5
    <2>7. ls[d][i] = List /\ List.at <= List.length
      BY <1>1, <2>1, <2>4, SMTT(20)
    <2>8. /\ ListsOK' /\ lists'[d][i] = Advance(List)
          /\ \A e \in Ids, k \in Lists : e # d \/ k # i => lists'[e][k] = ls[e][k]
      <3>1. AllOK(ls)
        BY <2>4, <2>6 DEF AllOK
      <3> QED
        BY <1>1, <2>2, <2>7, <3>1, MovesOn
    <2>9. \A e \in Ids, k \in Lists : e # d \/ k # i =>
                /\ lists[e][k].firing => lists'[e][k].firing /\ lists'[e][k].list = lists[e][k].list
                                         /\ lists'[e][k].at = lists[e][k].at
                /\ lists'[e][k].list \in {lists[e][k].list, <<>>}
                /\ lists'[e][k].firing => lists[e][k].firing
      <3>1. \A e \in Ids, k \in Lists : e # d \/ k # i =>
               lists'[e][k] = lists[e][k] \/ (e = d /\ k = j /\ lists'[e][k] = z)
        BY <2>4, <2>8
      <3>2. j \in Lists => ~lists[d][j].firing /\ ~z.firing /\ z.list = <<>>
        BY <2>3
      <3> QED
        BY <3>1, <3>2
    <2>10. \A e \in Ids, k \in Sides : e # d \/ k # i =>
                \/ lists'[e][k] = lists[e][k]
                \/ e = d /\ k = j /\ ~lists[e][k].fired /\ ~lists'[e][k].fired /\ lists'[e][k].disabled
      BY <2>3, <2>4, <2>5, <2>8
    <2>11. i \in Sides => lists'[d][j].disabled
      BY <1>1, <2>1, <2>3, <2>4, <2>8
    <2>12. /\ lists'[d][i].list = List.list /\ lists'[d][i].at = List.at + 1
           /\ lists'[d][i].firing /\ ~lists'[d][i].disabled
           /\ (lists'[d][i].fired <=> List.fired) /\ lists'[d][i].data = List.data
      BY <1>3, <2>8
    <2>13. ListsOK' /\ j = 3 - i
      BY <2>8 DEF j
    <2> QED
      BY <2>9, <2>10, <2>11, <2>12, <2>13
  <1>6. CASE List.list[List.at].fn = "lock"
             /\ lists' = LET ls == Put(lists, d, 3, Lock(lists[d][3]))
                         IN  Put(ls, d, i, Advance(ls[d][i]))
    <2> DEFINE z == Lock(lists[d][3])
               ls == Put(lists, d, 3, z)
    <2>1. lists' = Put(ls, d, i, Advance(ls[d][i]))
      BY <1>6
    <2>2. 3 \in Lists /\ 3 \notin Sides /\ \A k \in Sides : k \in Lists
      BY DEF Sides, Lists
    <2>3. /\ ListOK(z) /\ z.list \in {lists[d][3].list, <<>>} /\ (z.firing <=> lists[d][3].firing)
          /\ lists[d][3].firing => z.list = lists[d][3].list /\ z.at = lists[d][3].at
      BY <1>1, <1>2, <2>2, LockOK
    <2> HIDE DEF z
    <2>4. /\ Table(ls)
          /\ ls[d][3] = z
          /\ \A e \in Ids, k \in Lists : e # d \/ k # 3 => ls[e][k] = lists[e][k]
      BY <1>1, <1>2, <2>2, Replaced
    <2> HIDE DEF ls
    <2>5. (\A e \in Ids, k \in Lists : ListOK(ls[e][k])) /\ (\A e \in Ids, k \in Sides : Settling(ls[e][k]))
      BY <1>2, <2>2, <2>3, <2>4
    <2>6. /\ ls[d][i].firing /\ ls[d][i].list = List.list /\ ls[d][i].at = List.at
          /\ (i \in Sides => ls[d][i] = List)
      BY <1>1, <2>2, <2>3, <2>4
    <2>7. ~ls[d][i].disabled /\ ls[d][i].at <= ls[d][i].length
      <3>1. ListOK(ls[d][i])
        BY <1>1, <2>5, SMTT(20)
      <3> QED
        BY <1>1, <2>6, <3>1 DEF ListOK
    <2>8. /\ ListsOK' /\ lists'[d][i] = Advance(ls[d][i])
          /\ \A e \in Ids, k \in Lists : e # d \/ k # i => lists'[e][k] = ls[e][k]
      <3>1. AllOK(ls)
        BY <2>4, <2>5 DEF AllOK
      <3>2. ls[d][i].firing
        BY <2>6
      <3> QED
        BY <1>1, <2>1, <2>7, <3>1, <3>2, MovesOn
    <2>9. \A e \in Ids, k \in Lists : e # d \/ k # i =>
                /\ lists[e][k].firing => lists'[e][k].firing /\ lists'[e][k].list = lists[e][k].list
                                         /\ lists'[e][k].at = lists[e][k].at
                /\ lists'[e][k].list \in {lists[e][k].list, <<>>}
                /\ lists'[e][k].firing => lists[e][k].firing
      BY <2>3, <2>4, <2>8
    <2>10. \A e \in Ids, k \in Sides : e # d \/ k # i => lists'[e][k] = lists[e][k]
      BY <2>2, <2>4, <2>8
    <2>11. /\ lists'[d][i].list = List.list /\ lists'[d][i].at = List.at + 1
           /\ lists'[d][i].firing /\ ~lists'[d][i].disabled
           /\ i \in Sides => (lists'[d][i].fired <=> List.fired) /\ lists'[d][i].data = List.data
      <3> DEFINE u == ls[d][i]
                 v == Advance(u)
      <3>1. ListOK(u)
        BY <1>1, <2>5
      <3>2. /\ v.list = u.list /\ v.at = u.at + 1 /\ v.data = u.data
            /\ (v.disabled <=> u.disabled) /\ v.firing /\ (v.fired <=> u.fired)
        BY <2>6, <2>7, <3>1, AdvanceOK
      <3> QED
        BY <2>6, <2>7, <2>8, <3>2
    <2>12. List.list[List.at].fn # "disable" /\ ListsOK'
      BY <1>6, <2>8, Zenon
    <2> QED
      BY <2>9, <2>10, <2>11, <2>12
  <1> QED
    BY <1>1, <1>4, <1>5, <1>6, Zenon DEF CallInternal, Put

\* The entries a deferred makes for itself.
LEMMA RunsInternal ==
  ASSUME DInv, CallInternal
  PROVE  DInv' /\ \A d \in Ids, i \in Sides :
                    (lists'[d][i].fired <=> lists[d][i].fired)
                    /\ (lists[d][i].fired => lists'[d][i].data = lists[d][i].data)
  <1>1. PICK d, i : d = Top.d /\ i = Top.i
    OBVIOUS
  <1>2. /\ Looping /\ HasNext(List) /\ frames' = frames /\ registered' = registered /\ told' = told
        /\ made' = made /\ calls' = calls
    BY DEF CallInternal, history
  <1>3. List.list[List.at].fn \in {"state", "disable", "lock"}
    BY DEF CallInternal
  <1>4. /\ Structure /\ Types /\ Depth \in Nat /\ Depth > 1 /\ Top.todo = <<>> /\ ~Top.in
        /\ d \in Ids /\ i \in Lists /\ List = lists[d][i] /\ List.firing
        /\ List.at \in 1..Len(List.list)
    BY <1>1, <1>2, LoopIs, SMTT(20) DEF DInv, Structure, Looping
  <1>5. /\ ListsOK'
        /\ lists'[d][i].list = List.list /\ lists'[d][i].at = List.at + 1
        /\ lists'[d][i].firing /\ ~lists'[d][i].disabled
        /\ i \in Sides => (lists'[d][i].fired <=> List.fired) /\ lists'[d][i].data = List.data
        /\ List.list[List.at].fn = "disable" /\ i \in Sides => lists'[d][3 - i].disabled
    BY <1>1, <1>4, InternalIs
  <1>6. \A e \in Ids, j \in Lists : e # d \/ j # i =>
            /\ lists[e][j].firing => lists'[e][j].firing /\ lists'[e][j].list = lists[e][j].list
                                     /\ lists'[e][j].at = lists[e][j].at
            /\ lists'[e][j].list \in {lists[e][j].list, <<>>}
    BY <1>1, <1>4, InternalIs
  <1>7. \A e \in Ids, j \in Sides : e # d \/ j # i =>
            \/ lists'[e][j] = lists[e][j]
            \/ e = d /\ j = 3 - i /\ ~lists[e][j].fired /\ ~lists'[e][j].fired /\ lists'[e][j].disabled
    BY <1>1, <1>4, InternalIs
  <1>8. \A e \in Ids, j \in Sides :
            /\ (lists'[e][j].fired <=> lists[e][j].fired)
            /\ (lists[e][j].fired => lists'[e][j].data = lists[e][j].data)
            /\ (lists[e][j].disabled => lists'[e][j].disabled)
    <2> SUFFICES ASSUME NEW e \in Ids, NEW j \in Sides
                 PROVE  /\ (lists'[e][j].fired <=> lists[e][j].fired)
                        /\ (lists[e][j].fired => lists'[e][j].data = lists[e][j].data)
                        /\ (lists[e][j].disabled => lists'[e][j].disabled)
      OBVIOUS
    <2>1. CASE e = d /\ j = i
      <3>1. ~List.disabled
        BY <1>4, ListIs DEF Structure
      <3> QED
        BY <1>4, <1>5, <2>1, <3>1
    <2>2. CASE e # d \/ j # i
      BY <1>7, <2>2
    <2> QED
      BY <2>1, <2>2
  <1>9. Types'
    BY <1>2, <1>4 DEF Types, Counts, Depth
  <1>10. FramesOK'
    <2>1. Depth' = Depth /\ frames'[Depth] = Top
      BY <1>2 DEF Depth, Top
    <2>2. ASSUME NEW k \in 2..Depth
          PROVE  /\ lists'[frames[k].d][frames[k].i].firing
                 /\ frames'[k].in => lists'[frames[k].d][frames[k].i].at <= Len(lists'[frames[k].d][frames[k].i].list)
      <3>1. /\ frames[k].d \in Ids /\ lists[frames[k].d][frames[k].i].firing
            /\ frames[k].in => lists[frames[k].d][frames[k].i].at <= Len(lists[frames[k].d][frames[k].i].list)
        BY <1>4 DEF Structure, FramesOK
      <3>2. k \in 1..Depth /\ frames[k] \in Frames
        BY <1>4, StackIs
      <3>3. frames[k].i \in Lists
        BY <3>2, FrameIs
      <3>4. CASE frames[k].d = d /\ frames[k].i = i
        <4>1. Depth \in 2..Depth /\ Top = frames[Depth]
          BY <1>4 DEF Top
        <4>2. k = Depth
          BY <1>1, <1>4, <3>4, <4>1 DEF Structure, FramesOK
        <4> QED
          BY <1>2, <1>4, <1>5, <2>1, <3>4, <4>2
      <3>5. CASE frames[k].d # d \/ frames[k].i # i
        BY <1>2, <1>6, <3>1, <3>3, <3>5
      <3> QED
        BY <3>4, <3>5
    <2>3. Depth # 1 /\ (~frames'[Depth].in => frames'[Depth].todo = <<>>)
      BY <1>4, <2>1
    <2> QED
      BY <1>2, <1>4, <2>1, <2>2, <2>3, FramesKept
  <1>11. OneSide'
    <2> SUFFICES ASSUME NEW e \in Ids, NEW j \in Sides
                 PROVE  /\ lists'[e][j].fired => ~lists'[e][3 - j].fired /\ (lists'[e][3 - j].disabled \/ Fresh(e, j)')
                        /\ ~lists'[e][j].fired /\ ~lists'[e][j].disabled => Begins(lists[e][j])'
      BY DEF OneSide
    <2>1. /\ j \in Lists /\ 3 - j \in Sides /\ (lists[e][j].firing => lists[e][j].fired)
          /\ lists[e][j].fired => ~lists[e][3 - j].fired /\ (lists[e][3 - j].disabled \/ Fresh(e, j))
          /\ ~lists[e][j].fired /\ ~lists[e][j].disabled => Begins(lists[e][j])
      BY <1>4, SideIs DEF Structure, OneSide
    <2>2. ASSUME Fresh(e, j)
          PROVE  lists'[e][3 - j].disabled \/ Fresh(e, j)'
      <3>1. e = d /\ j = i /\ Begins(List) /\ List.at <= 2
        BY <1>1, <1>4, <2>2 DEF Fresh
      <3>2. CASE List.at = 2
        <4>1. List.list[List.at].fn = "disable"
          BY <3>1, <3>2 DEF Begins
        <4> QED
          BY <1>5, <3>1, <4>1
      <3>3. CASE List.at = 1
        <4>1. lists'[d][i].at <= 2 /\ Begins(lists[d][i])'
          BY <1>5, <3>1, <3>3 DEF Begins
        <4>2. Depth' = Depth /\ Top' = Top
          BY <1>2 DEF Depth, Top
        <4> QED
          BY <1>1, <1>4, <3>1, <4>1, <4>2 DEF Fresh
      <3> QED
        BY <1>4, <3>1, <3>2, <3>3
    <2>3. ~lists'[e][j].fired /\ ~lists'[e][j].disabled => lists'[e][j] = lists[e][j]
      BY <1>4, <1>7, <1>8, <2>1
    <2> QED
      BY <1>8, <2>1, <2>2, <2>3 DEF Begins
  <1>12. Structure'
    BY <1>5, <1>9, <1>10, <1>11 DEF Structure
  <1>13. \A k \in 1..Depth' : \A j \in 1..Len(frames'[k].todo) :
            Adds(frames'[k].todo[j]) => k \in 1..Depth - 1 /\ frames'[k] = frames[k]
    <2>1. Depth' = Depth /\ frames'[Depth] = Top /\ \A j \in 1..Len(Top.todo) : FALSE
      BY <1>2, <1>4, NoEntries DEF Depth, Top
    <2> QED
      BY <1>2, <1>4, <2>1
  <1>14. ASSUME NEW e \in Ids, NEW j \in Sides, Open(e, j)'
         PROVE  Open(e, j) /\ Ahead(e, j)' = Ahead(e, j)
    <2>1. j \in Lists /\ (Alive(e, j)' <=> Alive(e, j)) /\ (Inside(e, j)' <=> Inside(e, j))
      BY <1>2 DEF Alive, Inside, Depth, Sides, Lists
    <2>2. CASE e # d \/ j # i
      <3>1. lists'[e][j] = lists[e][j]
        BY <1>7, <1>14, <2>2 DEF Open
      <3> QED
        BY <1>14, <2>1, <3>1, SameView
    <2>3. CASE e = d /\ j = i
      <3>1. Alive(d, i) /\ ~Inside(d, i) /\ ~Inside(d, i)'
        BY <1>1, <1>4, <2>1, <2>3, OwnView
      <3>2. Open(d, i) /\ List.list \in Seq(Item)
        BY <1>4, <3>1, ListIs DEF Open, Structure
      <3>3. NextOf(d, i) = List.at /\ NextOf(d, i)' = List.at + 1
        BY <1>4, <1>5, <3>1 DEF NextOf
      <3>4. From(List.list, List.at) = From(List.list, List.at + 1) \cup Number(List.list[List.at])
        BY <1>4, <3>2, FromNext
      <3>5. Number(List.list[List.at]) = {}
        BY <1>3 DEF Number, IsHandler
      <3>6. Ahead(d, i) = From(List.list, List.at) /\ Ahead(d, i)' = From(List.list, List.at + 1)
        BY <1>4, <1>5, <3>3 DEF Ahead
      <3> QED
        BY <2>3, <3>2, <3>4, <3>5, <3>6
    <2> QED
      BY <2>2, <2>3
  <1>15. \A e \in Ids, j \in Lists : lists'[e][j].list \in {lists[e][j].list, <<>>}
    BY <1>4, <1>5, <1>6
  <1>16. DInv'
    BY <1>2, <1>4, <1>8, <1>12, <1>13, <1>14, <1>15, Quiet
  <1> QED
    BY <1>8, <1>16

-------------------------------------------------------------------------------
(* Handlers are registered, and called. *)

HandlerAdd(d, n, i) == DoAdd(d, i, Entry("handler", n, d, i))

LEMMA HandlerAddIs ==
  ASSUME NEW d \in Ids, NEW n \in Nat, NEW i \in Lists, NEW op, op = HandlerAdd(d, n, i)
  PROVE  /\ op \in Adding /\ op.op = "add" /\ op.d = d /\ op.i = i /\ IsHandler(op.entry) /\ op.entry.n = n
  <1>1. Entry("handler", n, d, i) \in Item
    BY DEF Entry, Item, Kinds
  <1>2. op = [op |-> "add", d |-> d, i |-> i, entry |-> Entry("handler", n, d, i), value |-> 0]
    BY DEF HandlerAdd, DoAdd
  <1>3. IsHandler(Entry("handler", n, d, i)) /\ Entry("handler", n, d, i).n = n
    BY DEF IsHandler, Entry
  <1> HIDE DEF Adding
  <1>4. op \in Adding
    BY <1>1, <1>2 DEF Adding
  <1> QED
    BY <1>2, <1>3, <1>4

LEMMA ShortSequences ==
  ASSUME NEW S, NEW a \in S, NEW b \in S
  PROVE  <<>> \in Seq(S) /\ <<a>> \in Seq(S) /\ <<a, b>> \in Seq(S)
  OBVIOUS

Adders(d, n, hows) ==
    CASE hows = {1} -> <<HandlerAdd(d, n, 1)>>
      [] hows = {2} -> <<HandlerAdd(d, n, 2)>>
      [] OTHER -> <<HandlerAdd(d, n, 1), HandlerAdd(d, n, 2)>>

Sends(ops, d, n, hows) ==
    /\ ops \in Seq(Adding \cup Firing)
    /\ \A j \in 1..Len(ops) :
          /\ \E i \in hows : SentTo(ops[j], n, d, i) /\ ops[j].i = i
          /\ j = 1 \/ (j = 2 /\ ops[j].i = 2 /\ SentTo(ops[1], n, d, 1))
    /\ \A i \in hows : \E j \in 1..Len(ops) : SentTo(ops[j], n, d, i)

LEMMA AddersAre ==
  ASSUME NEW d \in Ids, NEW n \in Nat, NEW hows \in (SUBSET {1, 2}) \ {{}}, NEW ops, ops = Adders(d, n, hows)
  PROVE  Sends(ops, d, n, hows)
  <1>1. PICK a, b : a = HandlerAdd(d, n, 1) /\ b = HandlerAdd(d, n, 2)
    OBVIOUS
  <1>2. /\ a \in Adding /\ SentTo(a, n, d, 1) /\ a.i = 1
        /\ b \in Adding /\ SentTo(b, n, d, 2) /\ b.i = 2
    BY <1>1, HandlerAddIs DEF SentTo, Adds, Lists
  <1>3. CASE hows = {1}
    <2>1. ops = <<a>>
      BY <1>1, <1>3 DEF Adders
    <2>2. ops \in Seq(Adding \cup Firing)
      <3>1. a \in Adding \cup Firing
        BY <1>2
      <3> QED
        BY <2>1, <3>1, ShortSequences
    <2>3. Len(ops) = 1 /\ ops[1] = a
      BY <2>1
    <2>4. \A j \in 1..Len(ops) : j = 1 /\ ops[j] = a
      BY <2>3
    <2>5. \A j \in 1..Len(ops) :
              /\ \E i \in hows : SentTo(ops[j], n, d, i) /\ ops[j].i = i
              /\ j = 1 \/ (j = 2 /\ ops[j].i = 2 /\ SentTo(ops[1], n, d, 1))
      BY <1>2, <1>3, <2>4
    <2>6. \A i \in hows : SentTo(ops[1], n, d, i) /\ 1 \in 1..Len(ops)
      BY <1>2, <1>3, <2>3
    <2> QED
      BY <2>2, <2>5, <2>6 DEF Sends
  <1>4. CASE hows = {2}
    <2>1. ops = <<b>>
      BY <1>1, <1>4 DEF Adders
    <2>2. ops \in Seq(Adding \cup Firing)
      <3>1. b \in Adding \cup Firing
        BY <1>2
      <3> QED
        BY <2>1, <3>1, ShortSequences
    <2>3. Len(ops) = 1 /\ ops[1] = b
      BY <2>1
    <2>4. \A j \in 1..Len(ops) : j = 1 /\ ops[j] = b
      BY <2>3
    <2>5. \A j \in 1..Len(ops) :
              /\ \E i \in hows : SentTo(ops[j], n, d, i) /\ ops[j].i = i
              /\ j = 1 \/ (j = 2 /\ ops[j].i = 2 /\ SentTo(ops[1], n, d, 1))
      BY <1>2, <1>4, <2>4
    <2>6. \A i \in hows : SentTo(ops[1], n, d, i) /\ 1 \in 1..Len(ops)
      BY <1>2, <1>4, <2>3
    <2> QED
      BY <2>2, <2>5, <2>6 DEF Sends
  <1>5. CASE hows = {1, 2}
    <2>1. ops = <<a, b>>
      BY <1>1, <1>5 DEF Adders
    <2>2. ops \in Seq(Adding \cup Firing)
      <3>1. a \in Adding \cup Firing /\ b \in Adding \cup Firing
        BY <1>2
      <3> QED
        BY <2>1, <3>1, ShortSequences
    <2>3. Len(ops) = 2 /\ ops[1] = a /\ ops[2] = b
      BY <2>1
    <2>4. \A j \in 1..Len(ops) : (j = 1 /\ ops[j] = a) \/ (j = 2 /\ ops[j] = b)
      BY <2>3
    <2>5. \A j \in 1..Len(ops) :
              /\ \E i \in hows : SentTo(ops[j], n, d, i) /\ ops[j].i = i
              /\ j = 1 \/ (j = 2 /\ ops[j].i = 2 /\ SentTo(ops[1], n, d, 1))
      BY <1>2, <1>5, <2>3, <2>4
    <2>6. \A i \in hows : \E j \in 1..Len(ops) : SentTo(ops[j], n, d, i)
      <3>1. 1 \in 1..Len(ops) /\ 2 \in 1..Len(ops)
        BY <2>3
      <3> QED
        BY <1>2, <1>5, <2>3, <3>1
    <2> QED
      BY <2>2, <2>5, <2>6 DEF Sends
  <1>6. hows = {1} \/ hows = {2} \/ hows = {1, 2}
    OBVIOUS
  <1> QED
    BY <1>3, <1>4, <1>5, <1>6

\* Handlers in the lists are registered.
LEMMA AheadAre ==
  ASSUME Structure, HandlersPlaced, NEW d \in Ids, NEW i \in Lists, NEW n \in Ahead(d, i)
  PROVE  /\ n \in 1..Len(registered) /\ i \in Sides /\ registered[n].of = d /\ i \in registered[n].hows
  <1>1. PICK k \in NextOf(d, i)..Len(lists[d][i].list) : IsHandler(lists[d][i].list[k]) /\ n = lists[d][i].list[k].n
    BY DEF Ahead, From
  <1>2. NextOf(d, i) \in Nat /\ NextOf(d, i) >= 1 /\ Len(lists[d][i].list) \in Nat
    BY NextIs, ListIs DEF Structure
  <1>3. k \in 1..Len(lists[d][i].list)
    BY <1>2
  <1> QED
    BY <1>1, <1>3 DEF HandlersPlaced

LEMMA Registers ==
  ASSUME DInv, NEW d \in Ids, NEW hows \in (SUBSET {1, 2}) \ {{}}, Register(d, hows)
  PROVE  DInv'
  <1>0. PICK n : n = Len(registered) + 1
    OBVIOUS
  <1>1. /\ Top.in /\ Top.todo = <<>> /\ lists' = lists /\ made' = made /\ calls' = calls
        /\ registered' = Append(registered, [of |-> d, hows |-> hows]) /\ told' = Append(told, 0)
    BY DEF Register, PageRuns
  <1>2. /\ Structure /\ Types /\ Counts /\ Depth \in Nat \ {0} /\ Top \in Frames
        /\ registered \in Seq(Registering) /\ told \in Seq(Vals \cup {0}) /\ Len(told) = Len(registered)
    BY StackIs DEF DInv, Structure, Types, Counts
  <1>3. n \in Nat /\ Len(registered) \in Nat
    BY <1>0, <1>2
  <1>4. PICK ops : ops = Adders(d, n, hows) /\ frames' = WithTop([Top EXCEPT !.todo = ops])
    BY <1>0 DEF Register, Program, HandlerAdd, Adders
  <1>5. Sends(ops, d, n, hows)
    <2>1. ops = Adders(d, n, hows) /\ n \in Nat
      BY <1>3, <1>4
    <2> QED
      BY <2>1, AddersAre
  <1> DEFINE f == [Top EXCEPT !.todo = ops]
  <1>6. f \in Frames /\ f.d = Top.d /\ f.i = Top.i /\ f.in /\ f.todo = ops
    <2>1. ops \in Seq(Adding \cup Firing)
      BY <1>5 DEF Sends
    <2> QED
      BY <1>1, <1>2, <2>1 DEF Frames
  <1>7. frames' = WithTop(f)
    BY <1>4
  <1> HIDE DEF f
  <1>8. /\ Depth' = Depth /\ Top' = f /\ frames'[Depth] = f
        /\ \A k \in 1..Depth : k # Depth => frames'[k] = frames[k]
    BY <1>2, <1>6, <1>7, TopIs
  <1>9. /\ Len(registered') = n /\ registered'[n] = [of |-> d, hows |-> hows] /\ told'[n] = 0
        /\ \A m \in 1..Len(registered) : registered'[m] = registered[m] /\ told'[m] = told[m]
    <2> DEFINE h == [of |-> d, hows |-> hows]
    <2>1. h \in Registering
      BY DEF Registering, Sides
    <2> HIDE DEF h
    <2>2. registered' = Append(registered, h) /\ told' = Append(told, 0)
      BY <1>1 DEF h
    <2>3. Len(registered') = n /\ registered'[n] = h /\ \A m \in 1..Len(registered) : registered'[m] = registered[m]
      BY <1>0, <1>2, <2>1, <2>2
    <2>4. told'[n] = 0 /\ \A m \in 1..Len(registered) : told'[m] = told[m]
      BY <1>0, <1>2, <2>2
    <2> QED
      BY <2>3, <2>4 DEF h
  <1>10. \A m : m \in 1..n <=> m = n \/ m \in 1..Len(registered)
    BY <1>0, <1>3
  <1>11. Counts'
    <2> DEFINE h == [of |-> d, hows |-> hows]
    <2>1. h \in Registering
      BY DEF Registering, Sides
    <2> HIDE DEF h
    <2>2. registered' = Append(registered, h) /\ told' = Append(told, 0)
      BY <1>1 DEF h
    <2>3. registered' \in Seq(Registering) /\ told' \in Seq(Vals \cup {0}) /\ Len(told') = Len(registered')
      BY <1>2, <2>1, <2>2
    <2> QED
      BY <1>1, <1>2, <2>3 DEF Counts
  <1>12. Structure'
    BY <1>1, <1>2, <1>6, <1>7, <1>11, TopStructure
  <1>13. \A e \in Ids, i \in Lists : (Open(e, i)' <=> Open(e, i)) /\ Ahead(e, i)' = Ahead(e, i)
    <2> SUFFICES ASSUME NEW e \in Ids, NEW i \in Lists
                 PROVE  (Open(e, i)' <=> Open(e, i)) /\ Ahead(e, i)' = Ahead(e, i)
      OBVIOUS
    <2>1. (Alive(e, i)' <=> Alive(e, i)) /\ (Inside(e, i)' <=> Inside(e, i))
      BY <1>1, <1>2, <1>6, <1>7, TopView
    <2> QED
      BY <1>1, <2>1, SameView
  <1>14. \A m \in 1..Len(registered) : registered[m].of \in Ids /\ registered[m].hows \subseteq Sides
    <2>1. \A m \in 1..Len(registered) : registered[m] \in Registering
      BY <1>2
    <2> QED
      BY <2>1 DEF Registering
  <1>15. \A i \in Sides : i \in Lists
    BY DEF Sides, Lists
  <1>a. lists' = lists
    BY <1>1, SMTT(20)
  <1>16. HandlersPlaced'
    <2> SUFFICES ASSUME NEW e \in Ids, NEW i \in Lists, NEW k \in 1..Len(lists'[e][i].list),
                        IsHandler(lists'[e][i].list[k])
                 PROVE  /\ lists'[e][i].list[k].n \in 1..Len(registered') /\ i \in Sides
                        /\ registered'[lists'[e][i].list[k].n].of = e /\ i \in registered'[lists'[e][i].list[k].n].hows
                        /\ \A j \in 1..k - 1 : IsHandler(lists'[e][i].list[j]) => lists'[e][i].list[j].n < lists'[e][i].list[k].n
      BY SMTT(20) DEF HandlersPlaced
    <2>1. /\ lists[e][i].list[k].n \in 1..Len(registered) /\ i \in Sides
          /\ registered[lists[e][i].list[k].n].of = e /\ i \in registered[lists[e][i].list[k].n].hows
          /\ \A j \in 1..k - 1 : IsHandler(lists[e][i].list[j]) => lists[e][i].list[j].n < lists[e][i].list[k].n
      BY <1>a DEF DInv, HandlersPlaced
    <2> QED
      BY <1>a, <1>9, <1>10, <2>1, SMTT(20)
  <1>17. ToldRight'
    <2>1. ASSUME NEW m \in 1..Len(registered'), told'[m] # 0
          PROVE  \E i \in registered'[m].hows : lists'[registered'[m].of][i].fired
      <3>1. m \in 1..Len(registered) /\ told[m] # 0 /\ registered'[m] = registered[m]
        BY <1>9, <1>10, <2>1
      <3> QED
        BY <1>1, <3>1 DEF DInv, ToldRight
    <2>2. ASSUME NEW e \in Ids, NEW i \in Sides, Open(e, i)', NEW m \in Ahead(e, i)'
          PROVE  told'[m] = 0
      <3>1. Open(e, i) /\ m \in Ahead(e, i)
        BY <1>13, <1>15, <2>2
      <3>2. m \in 1..Len(registered)
        BY <1>2, <1>15, <3>1, AheadAre DEF DInv
      <3> QED
        BY <1>9, <3>1, <3>2 DEF DInv, ToldRight
    <2> QED
      BY <2>1, <2>2 DEF ToldRight
  <1>18. OnTheWay'
    <2> SUFFICES ASSUME NEW k \in 1..Depth', NEW j \in 1..Len(frames'[k].todo), Adds(frames'[k].todo[j])
                 PROVE  InPlace(k, j)'
      BY DEF OnTheWay
    <2>1. CASE k = Depth
      <3> DEFINE op == frames'[k].todo[j]
      <3>1. frames'[k].todo = ops /\ op = ops[j] /\ j \in 1..Len(ops)
        BY <1>6, <1>8, <2>1
      <3>2. PICK i \in hows : SentTo(ops[j], n, d, i) /\ ops[j].i = i
        BY <1>5, <3>1 DEF Sends
      <3>3. /\ op.d = d /\ op.i = i /\ op.entry.n = n /\ i \in Sides
            /\ j = 1 \/ (j = 2 /\ op.i = 2 /\ SentTo(frames'[k].todo[1], n, d, 1))
        BY <1>5, <3>1, <3>2 DEF Sends, SentTo, Sides
      <3> HIDE DEF op
      <3>4. n \in 1..Len(registered') /\ n = Len(registered') /\ told'[n] = 0
            /\ registered'[n].of = d /\ i \in registered'[n].hows
        BY <1>3, <1>9, <1>10, <3>2
      <3>5. \A h \in 1..Len(lists[d][i].list) : IsHandler(lists[d][i].list[h]) => lists[d][i].list[h].n < n
        <4>1. \A h \in 1..Len(lists[d][i].list) :
                IsHandler(lists[d][i].list[h]) => lists[d][i].list[h].n \in 1..Len(registered)
          BY <1>15, <3>3 DEF DInv, HandlersPlaced
        <4> QED
          BY <1>0, <1>3, <4>1, SMTT(20)
      <3>6. k = Depth'
        BY <1>8, <2>1
      <3> QED
        BY <1>a, <3>3, <3>4, <3>5, <3>6 DEF InPlace, op
    <2>2. CASE k # Depth
      <3>1. k \in 1..Depth /\ frames'[k] = frames[k]
        BY <1>8, <2>2
      <3>2. InPlace(k, j)
        BY <3>1 DEF DInv, OnTheWay
      <3>3. lists[frames[k].todo[j].d][frames[k].todo[j].i].disabled
        BY <2>2, <3>2, Zenon DEF InPlace
      <3>4. frames[k].todo[j].entry.n \in 1..Len(registered)
        BY <3>2, Zenon DEF InPlace
      <3>5. frames[k].todo[j].entry.n \in 1..Len(registered')
            /\ registered'[frames[k].todo[j].entry.n] = registered[frames[k].todo[j].entry.n]
        BY <1>9, <1>10, <3>4
      <3> QED
        BY <1>a, <3>1, <3>2, <3>3, <3>5, ZenonT(40) DEF InPlace, SentTo, Adds
    <2> QED
      BY <2>1, <2>2
  <1>19. NoneForgotten'
    <2>1. ASSUME NEW e \in Ids, NEW i \in Sides, Open(e, i)', NEW m \in 1..Len(registered'),
                 registered'[m].of = e, i \in registered'[m].hows
          PROVE  told'[m] # 0 \/ m \in Ahead(e, i)' \/ \E j \in 1..Len(ops) : SentTo(ops[j], m, e, i)
      <3>1. CASE m = n
        <4>1. e = d /\ i \in hows
          BY <1>9, <2>1, <3>1
        <4> QED
          BY <1>5, <3>1, <4>1 DEF Sends
      <3>2. CASE m \in 1..Len(registered)
        <4>1. registered'[m] = registered[m] /\ told'[m] = told[m]
          BY <1>9, <3>2
        <4>2. Open(e, i) /\ Ahead(e, i)' = Ahead(e, i)
          BY <1>13, <1>15, <2>1
        <4>3. \A j \in 1..Len(Top.todo) : FALSE
          BY <1>1, NoEntries
        <4> QED
          BY <2>1, <3>2, <4>1, <4>2, <4>3 DEF DInv, NoneForgotten
      <3> QED
        BY <1>9, <1>10, <2>1, <3>1, <3>2
    <2>2. Top'.todo = ops
      BY <1>6, <1>8
    <2> QED
      BY <2>1, <2>2 DEF NoneForgotten, SentTo, Adds
  <1> QED
    BY <1>12, <1>16, <1>17, <1>18, <1>19 DEF DInv

\* A handler is called; it is the next of those registered for what happened.
LEMMA CallsHandler ==
  ASSUME DInv, CallFunction, List.list[List.at].fn = "handler",
         NEW n, n = List.list[List.at].n, NEW d, d = Top.d, NEW i, i = Top.i
  PROVE  /\ DInv' /\ lists' = lists /\ registered' = registered
         /\ n \in 1..Len(registered) /\ d \in Ids /\ i \in Sides
         /\ registered[n].of = d /\ i \in registered[n].hows /\ lists[d][i].fired /\ ~lists[d][3 - i].fired
         /\ told[n] = 0 /\ told' = [told EXCEPT ![n] = lists[d][i].data]
         /\ \A g \in 1..n - 1 : registered[g].of = d /\ i \in registered[g].hows => told[g] # 0
  <1>1. /\ Looping /\ HasNext(List) /\ lists' = lists /\ registered' = registered
        /\ made' = made /\ calls' = calls /\ told' = [told EXCEPT ![n] = List.data]
        /\ frames' = WithTop([Top EXCEPT !.in = TRUE, !.user = TRUE])
    BY DEF CallFunction
  <1>2. /\ Structure /\ Types /\ Counts /\ Depth \in Nat /\ Depth > 1 /\ Top \in Frames /\ Top.todo = <<>> /\ ~Top.in
        /\ d \in Ids /\ i \in Lists /\ List = lists[d][i] /\ List.firing
        /\ List.at \in 1..Len(List.list)
    BY <1>1, LoopIs DEF DInv, Structure, Types, Looping
  <1>3. /\ registered \in Seq(Registering) /\ told \in Seq(Vals \cup {0}) /\ Len(told) = Len(registered)
        /\ Len(registered) \in Nat
    BY <1>2 DEF Counts
  <1>4. IsHandler(List.list[List.at])
    BY DEF IsHandler
  <1>5. /\ n \in 1..Len(registered) /\ i \in Sides /\ registered[n].of = d /\ i \in registered[n].hows
        /\ \A j \in 1..List.at - 1 : IsHandler(List.list[j]) => List.list[j].n < n
    <2>1. PICK p \in 1..Len(lists[d][i].list) : p = List.at
      BY <1>2
    <2>2. HandlersPlaced
      BY DEF DInv
    <2>3. d \in Ids /\ i \in Lists /\ List = lists[d][i]
      BY <1>2
    <2> DEFINE e == lists[d][i].list[p]
    <2>4. IsHandler(e) /\ e.n = n
      BY <1>4, <2>1, <2>3, Zenon
    <2>5. /\ e.n \in 1..Len(registered) /\ i \in Sides /\ registered[e.n].of = d /\ i \in registered[e.n].hows
          /\ \A j \in 1..p - 1 : IsHandler(lists[d][i].list[j]) => lists[d][i].list[j].n < e.n
      BY <2>2, <2>3, <2>4, Zenon DEF HandlersPlaced
    <2> HIDE DEF e
    <2> QED
      BY <2>1, <2>3, <2>4, <2>5, Zenon
  <1>6. \A e \in Ids, j \in Sides : lists[e][j].fired => ~lists[e][3 - j].fired /\ lists[e][3 - j].disabled
    BY <1>2, NoneFresh
  <1>7. /\ List.fired /\ ~List.disabled /\ ~lists[d][3 - i].fired /\ lists[d][3 - i].disabled
        /\ List.data \in Vals /\ List.data # 0 /\ List.list \in Seq(Item) /\ Len(List.list) \in Nat
    <2>1. List.fired /\ ~List.disabled /\ List.data \in Vals /\ List.list \in Seq(Item) /\ Len(List.list) \in Nat
      BY <1>2, <1>5, SideIs, ListIs, Zenon DEF Structure
    <2> QED
      BY <1>2, <1>5, <1>6, <2>1, ValsAre, Zenon
  <1>8. Alive(d, i) /\ ~Inside(d, i) /\ Open(d, i) /\ NextOf(d, i) = List.at /\ Ahead(d, i) = From(List.list, List.at)
    <2>1. Alive(d, i) /\ ~Inside(d, i)
      BY <1>2, OwnView
    <2> QED
      BY <1>2, <1>7, <2>1 DEF Open, NextOf, Ahead
  <1>9. From(List.list, List.at) = From(List.list, List.at + 1) \cup {n}
    <2>1. From(List.list, List.at) = From(List.list, List.at + 1) \cup Number(List.list[List.at])
      BY <1>2, <1>7, FromNext
    <2> QED
      BY <1>4, <2>1 DEF Number
  <1>10. \A m \in From(List.list, List.at + 1) : m \in 1..Len(registered) /\ n < m
    <2> SUFFICES ASSUME NEW m \in From(List.list, List.at + 1)
                 PROVE  m \in 1..Len(registered) /\ n < m
      OBVIOUS
    <2>1. PICK k \in List.at + 1..Len(List.list) : IsHandler(List.list[k]) /\ m = List.list[k].n
      BY DEF From
    <2>2. k \in 1..Len(List.list) /\ List.at \in 1..k - 1
      BY <1>2, <1>7, SMTT(20)
    <2>3. m \in 1..Len(registered) /\ \A j \in 1..k - 1 : IsHandler(List.list[j]) => List.list[j].n < m
      <3>1. /\ HandlersPlaced /\ d \in Ids /\ i \in Lists /\ k \in 1..Len(lists[d][i].list)
            /\ IsHandler(lists[d][i].list[k]) /\ lists[d][i].list[k].n = m
        BY <1>2, <2>1, <2>2, Zenon DEF DInv
      <3>2. /\ m \in 1..Len(registered)
            /\ \A j \in 1..k - 1 : IsHandler(lists[d][i].list[j]) => lists[d][i].list[j].n < m
        BY <3>1, Zenon DEF HandlersPlaced
      <3> QED
        BY <1>2, <3>2
    <2> QED
      BY <1>4, <2>2, <2>3
  <1>11. \A j \in 1..Len(Top.todo) : FALSE
    BY <1>2, NoEntries
  <1>12. told[n] = 0
    <2>1. n \in Ahead(d, i)
      BY <1>8, <1>9
    <2>2. ToldRight
      BY DEF DInv
    <2>3. d \in Ids /\ i \in Sides /\ Open(d, i)
      BY <1>2, <1>5, <1>8, Zenon
    <2> QED
      BY <2>1, <2>2, <2>3 DEF ToldRight
  <1>13. \A g \in 1..n - 1 : registered[g].of = d /\ i \in registered[g].hows => told[g] # 0
    <2> SUFFICES ASSUME NEW g \in 1..n - 1, registered[g].of = d, i \in registered[g].hows
                 PROVE  told[g] # 0
      OBVIOUS
    <2>1. g \in 1..Len(registered) /\ g < n /\ g # n
      BY <1>3, <1>5
    <2>2. g \notin From(List.list, List.at + 1)
      BY <1>3, <1>5, <1>10, <2>1
    <2>3. g \notin Ahead(d, i)
      BY <1>8, <1>9, <2>1, <2>2
    <2> QED
      BY <1>2, <1>5, <1>8, <1>11, <2>1, <2>3, ZenonT(40) DEF DInv, NoneForgotten
  <1> DEFINE f == [Top EXCEPT !.in = TRUE, !.user = TRUE]
  <1>14. f \in Frames /\ f.d = d /\ f.i = i /\ f.in /\ f.todo = <<>>
    BY <1>2 DEF Frames
  <1>15. frames' = WithTop(f)
    BY <1>1
  <1> HIDE DEF f
  <1>16. /\ Depth' = Depth /\ Top' = f /\ frames'[Depth] = f
         /\ \A k \in 1..Depth : k # Depth => frames'[k] = frames[k]
    BY <1>2, <1>14, <1>15, TopIs
  <1>17. /\ told' \in Seq(Vals \cup {0}) /\ Len(told') = Len(told) /\ told'[n] = List.data
         /\ \A m \in 1..Len(registered) : m # n => told'[m] = told[m]
    BY <1>1, <1>3, <1>5, <1>7
  <1>18. Counts'
    BY <1>1, <1>2, <1>3, <1>17, Zenon DEF Counts
  <1>19. Structure'
    BY <1>1, <1>2, <1>14, <1>15, <1>18, TopStructure, Zenon
  <1>a. lists' = lists /\ registered' = registered
    BY <1>1, SMTT(20)
  <1>20. HandlersPlaced'
    <2>1. HandlersPlaced
      BY DEF DInv
    <2> SUFFICES ASSUME NEW e \in Ids, NEW j \in Lists, NEW k \in 1..Len(lists'[e][j].list),
                        IsHandler(lists'[e][j].list[k])
                 PROVE  /\ lists'[e][j].list[k].n \in 1..Len(registered') /\ j \in Sides
                        /\ registered'[lists'[e][j].list[k].n].of = e /\ j \in registered'[lists'[e][j].list[k].n].hows
                        /\ \A h \in 1..k - 1 : IsHandler(lists'[e][j].list[h]) => lists'[e][j].list[h].n < lists'[e][j].list[k].n
      BY DEF HandlersPlaced
    <2> QED
      BY <1>a, <2>1, SMTT(20) DEF HandlersPlaced
  <1>21. \A j \in Sides : j \in Lists
    BY DEF Sides, Lists
  <1>22. ASSUME NEW e \in Ids, NEW j \in Sides, Open(e, j)'
         PROVE  Open(e, j) /\ n \notin Ahead(e, j)' /\ Ahead(e, j) \subseteq Ahead(e, j)' \cup {n}
                /\ Ahead(e, j)' \subseteq Ahead(e, j)
    <2>1. j \in Lists /\ (Alive(e, j)' <=> Alive(e, j))
          /\ (e # d \/ j # i => (Inside(e, j)' <=> Inside(e, j)))
      BY <1>2, <1>14, <1>15, <1>21, TopView
    <2>2. CASE e # d \/ j # i
      <3>1. Open(e, j) /\ Ahead(e, j)' = Ahead(e, j)
        BY <1>1, <1>22, <2>1, <2>2, SameView
      <3>2. ASSUME n \in Ahead(e, j)
            PROVE  FALSE
        <4>0. Structure /\ HandlersPlaced /\ j \in Lists
          BY <1>2, <2>1 DEF DInv
        <4>1. \A m \in Ahead(e, j) : registered[m].of = e
          <5> SUFFICES ASSUME NEW m \in Ahead(e, j)
                       PROVE  registered[m].of = e
            OBVIOUS
          <5> QED
            BY <4>0, AheadAre, Zenon
        <4>2. e = d /\ j = 3 - i
          BY <1>5, <2>2, <3>2, <4>1 DEF Sides
        <4> QED
          BY <1>7, <3>1, <4>2 DEF Open
      <3> QED
        BY <3>1, <3>2
    <2>3. CASE e = d /\ j = i
      <3>1. Inside(d, i)'
        BY <1>2, <1>14, <1>15, InsideNow
      <3>2. NextOf(d, i)' = List.at + 1
        BY <1>1, <1>2, <3>1, Zenon DEF NextOf
      <3>3. Ahead(d, i)' = From(List.list, List.at + 1)
        BY <1>1, <1>2, <3>2, Zenon DEF Ahead
      <3>4. n \notin From(List.list, List.at + 1)
        BY <1>5, <1>10
      <3> QED
        BY <1>8, <1>9, <2>3, <3>3, <3>4
    <2> QED
      BY <2>2, <2>3
  <1>23. ToldRight'
    <2>1. ASSUME NEW m \in 1..Len(registered), told'[m] # 0
          PROVE  \E j \in registered[m].hows : lists[registered[m].of][j].fired
      <3>1. CASE m = n
        BY <1>2, <1>5, <1>7, <3>1, Zenon
      <3>2. CASE m # n
        BY <1>17, <2>1, <3>2 DEF DInv, ToldRight
      <3> QED
        BY <3>1, <3>2
    <2>2. ASSUME NEW e \in Ids, NEW j \in Sides, Open(e, j)', NEW m \in Ahead(e, j)'
          PROVE  told'[m] = 0
      <3>1. Open(e, j) /\ m \in Ahead(e, j) /\ m # n
        BY <1>22, <2>2, SMTT(20)
      <3>2. m \in 1..Len(registered)
        BY <1>2, <1>21, <3>1, AheadAre DEF DInv
      <3> QED
        BY <1>17, <3>1, <3>2 DEF DInv, ToldRight
    <2> QED
      BY <1>a, <2>1, <2>2 DEF ToldRight
  <1>24. OnTheWay'
    <2> SUFFICES ASSUME NEW k \in 1..Depth', NEW j \in 1..Len(frames'[k].todo), Adds(frames'[k].todo[j])
                 PROVE  InPlace(k, j)'
      BY DEF OnTheWay
    <2>1. k \in 1..Depth /\ k # Depth /\ frames'[k] = frames[k]
      BY <1>14, <1>16, NoEntries
    <2>2. InPlace(k, j)
      BY <2>1 DEF DInv, OnTheWay
    <2>3. lists[frames[k].todo[j].d][frames[k].todo[j].i].disabled
      BY <2>1, <2>2, Zenon DEF InPlace
    <2> QED
      BY <1>a, <2>1, <2>2, <2>3, Zenon DEF InPlace, SentTo, Adds
  <1>25. NoneForgotten'
    <2>1. ASSUME NEW e \in Ids, NEW j \in Sides, Open(e, j)', NEW m \in 1..Len(registered),
                 registered[m].of = e, j \in registered[m].hows
          PROVE  told'[m] # 0 \/ m \in Ahead(e, j)'
      <3>1. Open(e, j) /\ Ahead(e, j) \subseteq Ahead(e, j)' \cup {n}
        BY <1>22, <2>1
      <3>2. told[m] # 0 \/ m \in Ahead(e, j)
        BY <1>11, <2>1, <3>1 DEF DInv, NoneForgotten
      <3>3. CASE m = n
        BY <1>7, <1>17, <3>3
      <3>4. CASE m # n
        BY <1>17, <3>1, <3>2, <3>4
      <3> QED
        BY <3>3, <3>4
    <2> QED
      BY <1>a, <2>1 DEF NoneForgotten
  <1>26. DInv'
    BY <1>19, <1>20, <1>23, <1>24, <1>25 DEF DInv
  <1> QED
    BY <1>1, <1>2, <1>5, <1>7, <1>12, <1>13, <1>26, Zenon

-------------------------------------------------------------------------------
(* The library's calls: a list changes, and a round may begin. *)

Starts(d, i) == ~lists[d][i].firing /\ lists'[d][i].firing

\* What a call does to a list.
Grows(x, y, i, op) ==
    /\ ListOK(y)
    /\ y.disabled <=> x.disabled
    /\ x.disabled => y = x
    /\ x.firing => y.firing /\ y.at = x.at
    /\ y.list = x.list \/ (y.list = Append(x.list, op.entry) /\ op.op = "add" /\ op.entry \in Item)
    /\ op.op = "add" /\ ~x.disabled => y.list = Append(x.list, op.entry)
    /\ i \in Sides =>
          /\ Settling(y)
          /\ x.fired => y.fired /\ y.data = x.data
          /\ y.fired /\ ~x.fired => ~x.disabled /\ ~x.firing /\ y.firing /\ y.list = x.list
          /\ ~x.firing /\ y.firing => y.at = 1
          /\ op.op = "add" /\ ~x.firing /\ y.firing => x.fired

Stored(op, d, i) ==
    /\ ListsOK'
    /\ \A e \in Ids, j \in Lists : e # d \/ j # i => lists'[e][j] = lists[e][j]
    /\ Grows(lists[d][i], lists'[d][i], i, op)
    /\ op.op = "add" => op.d = d /\ op.i = i

\* The code goes on in frame f, below the round that begins.
GoesOn(f, d, i) == frames' = IF Starts(d, i) THEN Append(WithTop(f), Round(d, i)) ELSE WithTop(f)

LEMMA BaseIs ==
  ASSUME Types, NEW f \in Frames, NEW base, base = WithTop(f)
  PROVE  /\ base \in Seq(Frames) /\ Len(base) = Depth /\ base[Depth] = f
         /\ \A k \in 1..Depth : k # Depth => base[k] = frames[k]
  <1>1. frames \in Seq(Frames) /\ Len(frames) = Depth /\ Depth \in 1..Len(frames)
    BY StackIs DEF Types, Depth
  <1>2. base = [frames EXCEPT ![Depth] = f]
    BY DEF WithTop
  <1> QED
    BY <1>1, <1>2

LEMMA StackAfter ==
  ASSUME Types, NEW f \in Frames, f.d = Top.d, f.i = Top.i, f.in, Top.in, NEW d \in Ids, NEW i \in Lists,
         GoesOn(f, d, i)
  PROVE  /\ frames' \in Seq(Frames) /\ Depth' \in Nat \ {0} /\ frames'[Depth] = f
         /\ \A k \in 1..Depth : k # Depth => frames'[k] = frames[k]
         /\ Starts(d, i) => Depth' = Depth + 1 /\ Top' = Round(d, i) /\ frames'[Depth + 1] = Round(d, i)
         /\ ~Starts(d, i) => Depth' = Depth /\ Top' = f
         /\ Starts(d, i) => Alive(d, i)' /\ (~Alive(d, i) => ~Inside(d, i)')
         /\ \A e \in Ids, j \in Lists : e # d \/ j # i \/ ~Starts(d, i) =>
               (Alive(e, j)' <=> Alive(e, j)) /\ (Inside(e, j)' <=> Inside(e, j))
  <1>1. Depth \in Nat \ {0} /\ Top = frames[Depth]
    BY StackIs DEF Top
  <1>2. CASE Starts(d, i)
    <2>1. PICK base : base = WithTop(f)
      OBVIOUS
    <2>2. /\ base \in Seq(Frames) /\ Len(base) = Depth /\ base[Depth] = f
          /\ \A k \in 1..Depth : k # Depth => base[k] = frames[k]
      BY <2>1, BaseIs
    <2>3. frames' = Append(base, Round(d, i))
      BY <1>2, <2>1 DEF GoesOn
    <2>4. /\ frames' \in Seq(Frames) /\ Depth' = Depth + 1 /\ Top' = Round(d, i)
          /\ frames'[Depth + 1] = Round(d, i)
          /\ \A k \in 1..Depth : frames'[k] = base[k]
      BY <2>2, <2>3, PushIs
    <2>5. \A k \in 1..Depth : base[k].d = frames[k].d /\ base[k].i = frames[k].i /\ (base[k].in <=> frames[k].in)
      BY <1>1, <2>2
    <2>6. /\ Alive(d, i)'
          /\ ~Alive(d, i) => ~Inside(d, i)'
          /\ \A e \in Ids, j \in Lists : e # d \/ j # i =>
               (Alive(e, j)' <=> Alive(e, j)) /\ (Inside(e, j)' <=> Inside(e, j))
      BY <2>2, <2>3, <2>5, PushView
    <2>7. Depth \in 1..Depth /\ Depth' \in Nat \ {0}
      BY <1>1, <2>4
    <2> QED
      BY <1>2, <2>2, <2>4, <2>6, <2>7
  <1>3. CASE ~Starts(d, i)
    <2>1. frames' = WithTop(f)
      BY <1>3 DEF GoesOn
    <2>2. /\ frames' \in Seq(Frames) /\ Depth' = Depth /\ Top' = f /\ frames'[Depth] = f
          /\ \A k \in 1..Depth : k # Depth => frames'[k] = frames[k]
      BY <2>1, TopIs
    <2>3. \A e \in Ids, j \in Lists : (Alive(e, j)' <=> Alive(e, j)) /\ (Inside(e, j)' <=> Inside(e, j))
      BY <2>1, TopView
    <2> QED
      BY <1>1, <1>3, <2>2, <2>3
  <1> QED
    BY <1>2, <1>3

LEMMA StoreStructure ==
  ASSUME Structure, Counts', NEW op, NEW f \in Frames, f.d = Top.d, f.i = Top.i, f.in, Top.in,
         NEW d \in Ids, NEW i \in Lists, Stored(op, d, i),
         GoesOn(f, d, i)
  PROVE  Structure'
  <1>1. Types /\ Depth \in Nat \ {0} /\ Top = frames[Depth]
    BY StackIs DEF Top, Structure
  <1>2. /\ frames' \in Seq(Frames) /\ Depth' \in Nat \ {0} /\ frames'[Depth] = f
        /\ \A k \in 1..Depth : k # Depth => frames'[k] = frames[k]
        /\ Starts(d, i) => Depth' = Depth + 1 /\ Top' = Round(d, i) /\ frames'[Depth + 1] = Round(d, i)
        /\ ~Starts(d, i) => Depth' = Depth /\ Top' = f
    BY <1>1, StackAfter
  <1>3. Types'
    BY <1>2 DEF Types
  <1>4. /\ ListsOK'
        /\ \A e \in Ids, j \in Lists : e # d \/ j # i => lists'[e][j] = lists[e][j]
    BY DEF Stored
  <1>p. PICK x, y : x = lists[d][i] /\ y = lists'[d][i]
    OBVIOUS
  <1>5. /\ y.disabled <=> x.disabled
        /\ x.firing => y.firing /\ y.at = x.at
        /\ \E e \in Item : y.list = x.list \/ y.list = Append(x.list, e)
        /\ i \in Sides => (x.fired => y.fired /\ y.data = x.data)
        /\ i \in Sides => (y.fired /\ ~x.fired => ~x.disabled /\ ~x.firing /\ y.firing /\ y.list = x.list)
        /\ i \in Sides => (~x.firing /\ y.firing => y.at = 1)
    <2>1. Grows(x, y, i, op)
      BY <1>p DEF Stored
    <2>2. \E e \in Item : e = e
      <3>1. [fn |-> "state", n |-> 0, to |-> d, i |-> i] \in Item
        BY DEF Item, Kinds
      <3> QED
        BY <3>1
    <2> QED
      BY <2>1, <2>2 DEF Grows
  <1>6. x.list \in Seq(Item) /\ Len(x.list) \in Nat /\ x.at \in Nat
    BY <1>p, ListIs DEF Structure
  <1>7. Len(x.list) <= Len(y.list) /\ Len(y.list) \in Nat /\ \A k \in 1..Len(x.list) : y.list[k] = x.list[k]
    <2>1. PICK e \in Item : y.list = x.list \/ y.list = Append(x.list, e)
      BY <1>5
    <2> QED
      BY <1>6, <2>1
  <1>8. ASSUME NEW k \in 2..Depth
        PROVE  /\ frames[k].d \in Ids /\ frames[k].i \in Lists
               /\ lists[frames[k].d][frames[k].i].firing
               /\ lists'[frames[k].d][frames[k].i].firing
               /\ lists'[frames[k].d][frames[k].i].at <= Len(lists'[frames[k].d][frames[k].i].list)
    <2>1. k \in 1..Depth /\ frames[k] \in Frames
      BY <1>1, StackIs
    <2>2. frames[k].i \in Lists /\ frames[k].in
      BY <1>1, <2>1, FrameIs DEF Structure, FramesOK
    <2>3. /\ frames[k].d \in Ids /\ lists[frames[k].d][frames[k].i].firing
          /\ lists[frames[k].d][frames[k].i].at <= Len(lists[frames[k].d][frames[k].i].list)
      BY <2>2 DEF Structure, FramesOK
    <2>4. CASE frames[k].d = d /\ frames[k].i = i
      <3>1. x.firing /\ x.at <= Len(x.list)
        BY <1>p, <2>3, <2>4
      <3>2. y.firing /\ y.at <= Len(y.list)
        BY <1>5, <1>6, <1>7, <3>1
      <3> QED
        BY <1>p, <2>2, <2>3, <2>4, <3>2
    <2>5. CASE frames[k].d # d \/ frames[k].i # i
      BY <1>4, <2>2, <2>3, <2>5
    <2> QED
      BY <2>4, <2>5
  <1>9. \A k \in 1..Depth : frames'[k].d = frames[k].d /\ frames'[k].i = frames[k].i /\ frames'[k].in
    <2>1. \A k \in 1..Depth : frames[k].in
      BY <1>1 DEF Structure, FramesOK
    <2> QED
      BY <1>1, <1>2, <2>1
  <1>10. FramesOK'
    <2>1. CASE ~Starts(d, i)
      <3>1. Depth' = Depth
        BY <1>2, <2>1
      <3>2. \A k \in 1..Depth : /\ frames'[k].d = frames[k].d /\ frames'[k].i = frames[k].i
                                /\ k # Depth => frames'[k] = frames[k]
        BY <1>2, <1>9
      <3>3. frames'[1].in /\ frames'[Depth].in
        <4>1. 1 \in 1..Depth /\ Depth \in 1..Depth
          BY <1>1
        <4> QED
          BY <1>9, <4>1
      <3> QED
        BY <1>8, <3>1, <3>2, <3>3, FramesKept
    <2>2. CASE Starts(d, i)
      <3>1. /\ Depth' = Depth + 1 /\ frames'[Depth + 1] = Round(d, i)
            /\ Round(d, i).d = d /\ Round(d, i).i = i /\ ~Round(d, i).in /\ Round(d, i).todo = <<>>
        BY <1>2, <2>2, RoundIs
      <3>2. \A k : k \in 1..Depth + 1 <=> k = Depth + 1 \/ k \in 1..Depth
        BY <1>1
      <3>3. \A k : k \in 2..Depth + 1 <=> k = Depth + 1 \/ k \in 2..Depth
        BY <1>1
      <3>4. \A k \in 1..Depth + 1 : k = 1 \/ k < Depth + 1 => frames'[k].in
        BY <1>1, <1>9, <3>2
      <3>5. \A k \in 1..Depth + 1 : ~frames'[k].in => frames'[k].todo = <<>>
        BY <1>9, <3>1, <3>2
      <3>6. \A k \in 2..Depth : k \in 1..Depth
        BY <1>1
      <3>7. ASSUME NEW k \in 2..Depth + 1
            PROVE  /\ frames'[k].d \in Ids
                   /\ lists'[frames'[k].d][frames'[k].i].firing
                   /\ frames'[k].in => lists'[frames'[k].d][frames'[k].i].at <= Len(lists'[frames'[k].d][frames'[k].i].list)
        <4>1. CASE k = Depth + 1
          BY <2>2, <3>1, <4>1 DEF Starts
        <4>2. CASE k \in 2..Depth
          BY <1>8, <1>9, <3>6, <4>2
        <4> QED
          BY <3>3, <4>1, <4>2
      <3>8. \A k \in 2..Depth : frames'[k].d # d \/ frames'[k].i # i
        <4>1. ~lists[d][i].firing
          BY <2>2 DEF Starts
        <4> QED
          BY <1>8, <1>9, <3>6, <4>1
      <3>9. \A j, k \in 2..Depth : frames'[j].d = frames'[k].d /\ frames'[j].i = frames'[k].i => j = k
        BY <1>9, <3>6 DEF Structure, FramesOK
      <3>10. \A j, k \in 2..Depth + 1 : frames'[j].d = frames'[k].d /\ frames'[j].i = frames'[k].i => j = k
        BY <3>1, <3>3, <3>8, <3>9
      <3> QED
        BY <3>1, <3>4, <3>5, <3>7, <3>10 DEF FramesOK
    <2> QED
      BY <2>1, <2>2
  <1>11. OneSide'
    <2> SUFFICES ASSUME NEW e \in Ids, NEW j \in Sides
                 PROVE  /\ lists'[e][j].fired => ~lists'[e][3 - j].fired /\ (lists'[e][3 - j].disabled \/ Fresh(e, j)')
                        /\ ~lists'[e][j].fired /\ ~lists'[e][j].disabled => Begins(lists[e][j])'
      BY DEF OneSide
    <2>1. \A g \in Ids, h \in Sides : lists[g][h].fired => ~lists[g][3 - h].fired /\ lists[g][3 - h].disabled
      BY NoneFresh
    <2>2. j \in Lists /\ 3 - j \in Sides /\ 3 - j \in Lists /\ 3 - (3 - j) = j /\ 3 - j # j
      BY DEF Sides, Lists
    <2>3. ~lists[e][j].fired /\ ~lists[e][j].disabled => Begins(lists[e][j])
      BY DEF Structure, OneSide
    <2>4. CASE e = d /\ j = i
      <3>1. lists'[e][3 - j] = lists[e][3 - j]
        BY <1>4, <2>2, <2>4
      <3>2. CASE x.fired
        BY <1>p, <1>5, <2>1, <2>4, <3>1, <3>2
      <3>3. CASE ~x.fired /\ ~y.fired
        <4>1. ~y.disabled => Begins(x)
          BY <1>p, <1>5, <2>3, <2>4, <3>3
        <4>2. ~y.disabled => Begins(y)
          <5>1. Begins(x) => 1 \in 1..Len(x.list) /\ 2 \in 1..Len(x.list)
            BY <1>6 DEF Begins
          <5> QED
            BY <1>6, <1>7, <4>1, <5>1 DEF Begins
        <4> QED
          BY <1>p, <2>4, <3>3, <4>2 DEF Begins
      <3>4. CASE ~x.fired /\ y.fired
        <4>1. ~x.disabled /\ ~x.firing /\ y.firing /\ y.list = x.list /\ y.at = 1
          BY <1>5, <2>4, <3>4
        <4>2. ~lists[e][3 - j].fired
          BY <1>p, <2>1, <2>2, <2>4, <4>1
        <4>3. Starts(d, i) /\ Begins(x)
          BY <1>p, <2>3, <2>4, <3>4, <4>1 DEF Starts
        <4>4. Depth' > 1 /\ Top' = Round(d, i) /\ Round(d, i).d = d /\ Round(d, i).i = i /\ ~Round(d, i).in
          BY <1>1, <1>2, <4>3, RoundIs
        <4>5. Begins(y) /\ y.at <= 2
          BY <4>1, <4>3 DEF Begins
        <4>6. Fresh(d, i)'
          BY <1>p, <4>4, <4>5 DEF Fresh, Begins
        <4> QED
          BY <1>p, <2>4, <3>1, <3>4, <4>2, <4>6
      <3> QED
        BY <3>2, <3>3, <3>4
    <2>5. CASE e # d \/ j # i
      <3>1. lists'[e][j] = lists[e][j]
        BY <1>4, <2>2, <2>5
      <3>2. CASE e = d /\ 3 - j = i
        <4>1. lists[e][j].fired => ~x.fired /\ x.disabled
          BY <1>p, <2>1, <3>2
        <4>2. lists[e][j].fired => ~y.fired /\ y.disabled
          BY <1>5, <2>2, <3>2, <4>1
        <4> QED
          BY <1>p, <2>3, <3>1, <3>2, <4>2 DEF Begins
      <3>3. CASE e # d \/ 3 - j # i
        <4>1. lists'[e][3 - j] = lists[e][3 - j]
          BY <1>4, <2>2, <3>3
        <4> QED
          BY <2>1, <2>3, <3>1, <4>1 DEF Begins
      <3> QED
        BY <3>2, <3>3
    <2> QED
      BY <2>4, <2>5
  <1> QED
    BY <1>3, <1>4, <1>10, <1>11 DEF Structure

\* The list that changed, seen by those who wait for its entries.
LEMMA StoreView ==
  ASSUME Structure, NEW op, NEW f \in Frames, f.d = Top.d, f.i = Top.i, f.in, Top.in,
         NEW d \in Ids, NEW i \in Sides, Stored(op, d, i), GoesOn(f, d, i), Open(d, i)'
  PROVE  /\ Open(d, i)
         /\ op.op # "add" => Ahead(d, i)' = Ahead(d, i)
         /\ op.op = "add" => Ahead(d, i)' = Ahead(d, i) \cup Number(op.entry)
  <1>1. Types /\ ListsOK /\ i \in Lists
    BY DEF Structure, Sides, Lists
  <1>2. /\ Starts(d, i) => Alive(d, i)' /\ (~Alive(d, i) => ~Inside(d, i)')
        /\ ~Starts(d, i) => (Alive(d, i)' <=> Alive(d, i)) /\ (Inside(d, i)' <=> Inside(d, i))
    BY <1>1, StackAfter
  <1>3. PICK x, y : x = lists[d][i] /\ y = lists'[d][i]
    OBVIOUS
  <1>4. Grows(x, y, i, op)
    BY <1>3 DEF Stored
  <1>5. /\ y.disabled <=> x.disabled
        /\ x.firing => y.firing /\ y.at = x.at
        /\ op.op # "add" => y.list = x.list
        /\ op.op = "add" /\ ~x.disabled => y.list = Append(x.list, op.entry)
        /\ op.op = "add" /\ ~x.disabled => op.entry \in Item \/ y.list = x.list
        /\ ~x.firing /\ y.firing => y.at = 1
    BY <1>4 DEF Grows
  <1>6. x.list \in Seq(Item) /\ Len(x.list) \in Nat /\ x.at \in Nat
    BY <1>1, <1>3, ListIs
  <1>7. op.op = "add" /\ ~x.disabled => op.entry \in Item
    <2> SUFFICES ASSUME op.op = "add", ~x.disabled, y.list = x.list
                 PROVE  FALSE
      BY <1>5
    <2>1. Len(Append(x.list, op.entry)) = Len(x.list) + 1
      BY <1>6
    <2> QED
      BY <1>5, <1>6, <2>1
  <1>8. ~y.disabled /\ (y.firing => Alive(d, i)')
    BY <1>3 DEF Open
  <1>9. Starts(d, i) <=> ~x.firing /\ y.firing
    BY <1>3 DEF Starts
  <1>10. Open(d, i)
    BY <1>2, <1>3, <1>5, <1>8, <1>9 DEF Open
  <1>11. NextOf(d, i)' = NextOf(d, i)
    <2>1. NextOf(d, i)' = IF ~y.firing THEN 1 ELSE IF Inside(d, i)' THEN y.at + 1 ELSE y.at
      BY <1>3 DEF NextOf
    <2>2. NextOf(d, i) = IF ~x.firing THEN 1 ELSE IF Inside(d, i) THEN x.at + 1 ELSE x.at
      BY <1>3 DEF NextOf
    <2>3. CASE Starts(d, i)
      <3>1. ~Alive(d, i)
        <4>1. ~lists[d][i].firing
          BY <2>3 DEF Starts
        <4> QED
          BY <4>1 DEF Structure, FramesOK, Alive
      <3>2. ~x.firing /\ y.firing /\ y.at = 1 /\ ~Inside(d, i)'
        BY <1>2, <1>5, <1>9, <2>3, <3>1
      <3> QED
        BY <2>1, <2>2, <3>2
    <2>4. CASE ~Starts(d, i)
      BY <1>2, <1>5, <1>9, <2>1, <2>2, <2>4
    <2> QED
      BY <2>3, <2>4
  <1>12. NextOf(d, i) \in 1..Len(x.list) + 1
    BY <1>1, <1>3, NextIs
  <1>13. Ahead(d, i) = From(x.list, NextOf(d, i)) /\ Ahead(d, i)' = From(y.list, NextOf(d, i))
    BY <1>3, <1>11 DEF Ahead
  <1>14. op.op = "add" => From(Append(x.list, op.entry), NextOf(d, i)) = From(x.list, NextOf(d, i)) \cup Number(op.entry)
    BY <1>5, <1>6, <1>7, <1>8, <1>12, FromAppend
  <1> QED
    BY <1>5, <1>8, <1>10, <1>13, <1>14

\* The j-th call to come adds a handler, the next being op.
LinedUp(o, j, op) ==
    /\ o.i \in Sides /\ o.d \in Ids /\ o.entry.n \in 1..Len(registered)
    /\ registered[o.entry.n].of = o.d /\ o.i \in registered[o.entry.n].hows
    /\ j = 1 \/ (j = 2 /\ o.i = 2 /\ SentTo(op, o.entry.n, o.d, 1))
    /\ lists[o.d][o.i].disabled \/
          /\ o.entry.n = Len(registered) /\ told[o.entry.n] = 0
          /\ \A h \in 1..Len(lists[o.d][o.i].list) :
                IsHandler(lists[o.d][o.i].list[h]) => lists[o.d][o.i].list[h].n < o.entry.n

LEMMA Stores ==
  ASSUME DInv, Counts', registered' = registered, told' = told,
         NEW op, Top.todo # <<>>, op = Head(Top.todo),
         NEW f \in Frames, f.d = Top.d, f.i = Top.i, f.in, f.todo = Tail(Top.todo), Top.in,
         NEW d \in Ids, NEW i \in Lists, Stored(op, d, i), GoesOn(f, d, i)
  PROVE  DInv'
  <1>1. /\ Structure /\ Types /\ ListsOK /\ Counts /\ Depth \in Nat \ {0} /\ Top = frames[Depth] /\ Top \in Frames
    BY StackIs DEF DInv, Structure, Types, Top
  <1>2. Structure'
    BY <1>1, StoreStructure
  <1>3. /\ Depth' \in Nat \ {0} /\ frames'[Depth] = f
        /\ \A k \in 1..Depth : k # Depth => frames'[k] = frames[k]
        /\ Starts(d, i) => Depth' = Depth + 1 /\ Top' = Round(d, i) /\ frames'[Depth + 1] = Round(d, i)
        /\ ~Starts(d, i) => Depth' = Depth /\ Top' = f
    BY <1>1, StackAfter
  <1>4. /\ Top.todo \in Seq(Adding \cup Firing) /\ Len(Top.todo) \in Nat /\ 1 \in 1..Len(Top.todo) /\ op = Top.todo[1]
        /\ Len(f.todo) = Len(Top.todo) - 1 /\ \A j \in 1..Len(f.todo) : f.todo[j] = Top.todo[j + 1]
    <2>1. Top.todo \in Seq(Adding \cup Firing)
      BY <1>1, FrameIs
    <2> QED
      BY <2>1
  <1>5. \A n \in 1..Len(registered) : registered[n].of \in Ids /\ registered[n].hows \subseteq Sides
    <2>1. \A n \in 1..Len(registered) : registered[n] \in Registering
      BY <1>1 DEF Counts
    <2> QED
      BY <2>1 DEF Registering
  <1>6. \A j \in Sides : j \in Lists
    BY DEF Sides, Lists
  <1>7. \A e \in Ids, j \in Lists : e # d \/ j # i => lists'[e][j] = lists[e][j]
    BY DEF Stored
  <1>8. PICK x, y : x = lists[d][i] /\ y = lists'[d][i]
    OBVIOUS
  <1>9. /\ y.disabled <=> x.disabled
        /\ y.list = x.list \/ (y.list = Append(x.list, op.entry) /\ op.op = "add" /\ op.entry \in Item)
        /\ i \in Sides => (x.fired => y.fired)
        /\ i \in Sides => (op.op = "add" /\ ~x.firing /\ y.firing => x.fired)
        /\ op.op = "add" => op.d = d /\ op.i = i
        /\ x.disabled => y.disabled
    BY <1>8 DEF Stored, Grows
  <1>10. x.list \in Seq(Item) /\ Len(x.list) \in Nat
    BY <1>1, <1>8, ListIs
  <1>11. \A e \in Ids, j \in Sides : (lists[e][j].disabled => lists'[e][j].disabled)
                                    /\ (lists[e][j].fired => lists'[e][j].fired)
    BY <1>6, <1>7, <1>8, <1>9
  <1>12. OnTheWay /\ HandlersPlaced /\ ToldRight /\ NoneForgotten
    BY DEF DInv
  <1>13. \A j \in 1..Len(Top.todo) : Adds(Top.todo[j]) => LinedUp(Top.todo[j], j, op)
    <2> SUFFICES ASSUME NEW j \in 1..Len(Top.todo), Adds(Top.todo[j])
                 PROVE  LinedUp(Top.todo[j], j, op)
      OBVIOUS
    <2>1. Depth \in 1..Depth /\ j \in 1..Len(frames[Depth].todo) /\ Adds(frames[Depth].todo[j])
      BY <1>1
    <2>2. InPlace(Depth, j)
      BY <1>12, <2>1 DEF OnTheWay
    <2> QED
      BY <1>1, <1>4, <1>5, <2>2, Zenon DEF InPlace, LinedUp
  \* A round that an addition begins is of a list that was fired: the other one is disabled.
  <1>14. Adds(op) /\ Starts(d, i) => lists[d][3 - i].disabled /\ i \in Sides
    <2> SUFFICES ASSUME Adds(op), Starts(d, i)
                 PROVE  lists[d][3 - i].disabled /\ i \in Sides
      OBVIOUS
    <2>1. op.op = "add" /\ op.i \in Sides
      BY <1>4, <1>13, Zenon DEF Adds, LinedUp
    <2>2. i \in Sides /\ x.fired
      BY <1>8, <1>9, <2>1 DEF Starts
    <2> QED
      BY <1>1, <1>8, <2>2, NoneFresh
  <1>15. ASSUME NEW e \in Ids, NEW j \in Sides, Open(e, j)'
         PROVE  /\ Open(e, j)
                /\ \A m : m \in Ahead(e, j)' <=> m \in Ahead(e, j) \/ SentTo(op, m, e, j)
    <2>1. CASE e # d \/ j # i
      <3>1. (Alive(e, j)' <=> Alive(e, j)) /\ (Inside(e, j)' <=> Inside(e, j))
        BY <1>1, <1>6, <2>1, StackAfter
      <3>2. Open(e, j) /\ Ahead(e, j)' = Ahead(e, j)
        BY <1>6, <1>7, <1>15, <2>1, <3>1, SameView
      <3>3. \A m : ~SentTo(op, m, e, j)
        BY <1>9, <2>1 DEF SentTo, Adds
      <3> QED
        BY <3>2, <3>3
    <2>2. CASE e = d /\ j = i
      <3>1. /\ Open(d, i)
            /\ op.op # "add" => Ahead(d, i)' = Ahead(d, i)
            /\ op.op = "add" => Ahead(d, i)' = Ahead(d, i) \cup Number(op.entry)
        BY <1>1, <1>15, <2>2, StoreView
      <3>2. \A m : SentTo(op, m, d, i) <=> op.op = "add" /\ m \in Number(op.entry)
        BY <1>9, SMTT(20) DEF SentTo, Adds, Number
      <3> QED
        BY <2>2, <3>1, <3>2
    <2> QED
      BY <2>1, <2>2
  <1>16. HandlersPlaced'
    <2> SUFFICES ASSUME NEW e \in Ids, NEW j \in Lists, NEW k \in 1..Len(lists'[e][j].list),
                        IsHandler(lists'[e][j].list[k])
                 PROVE  /\ lists'[e][j].list[k].n \in 1..Len(registered') /\ j \in Sides
                        /\ registered'[lists'[e][j].list[k].n].of = e /\ j \in registered'[lists'[e][j].list[k].n].hows
                        /\ \A h \in 1..k - 1 : IsHandler(lists'[e][j].list[h]) => lists'[e][j].list[h].n < lists'[e][j].list[k].n
      BY SMTT(20) DEF HandlersPlaced
    <2>1. CASE lists'[e][j].list = lists[e][j].list
      BY <1>12, <2>1 DEF HandlersPlaced
    <2>2. CASE lists'[e][j].list # lists[e][j].list
      <3>1. e = d /\ j = i /\ lists'[e][j] = y /\ lists[e][j] = x
        BY <1>7, <1>8, <2>2
      <3>2. y.list = Append(x.list, op.entry) /\ op.op = "add" /\ op.entry \in Item /\ op.d = d /\ op.i = i
        BY <1>9, <2>2, <3>1
      <3>3. /\ Len(y.list) = Len(x.list) + 1 /\ y.list[Len(x.list) + 1] = op.entry
            /\ \A h \in 1..Len(x.list) : y.list[h] = x.list[h]
        BY <1>10, <3>2
      <3>4. k \in 1..Len(x.list) + 1 /\ IsHandler(y.list[k])
        BY <3>1, <3>3
      <3>5. CASE k = Len(x.list) + 1
        <4>1. Adds(Top.todo[1]) /\ y.list[k] = op.entry
          BY <1>4, <3>2, <3>3, <3>4, <3>5 DEF Adds
        <4>2. /\ i \in Sides /\ op.entry.n \in 1..Len(registered)
              /\ registered[op.entry.n].of = d /\ i \in registered[op.entry.n].hows
              /\ \/ x.disabled
                 \/ \A h \in 1..Len(x.list) : IsHandler(x.list[h]) => x.list[h].n < op.entry.n
          BY <1>4, <1>8, <1>13, <3>2, <4>1, Zenon DEF LinedUp
        <4>3. ~x.disabled
          <5>1. x.disabled => y = x
            BY <1>8 DEF Stored, Grows
          <5> QED
            BY <2>2, <3>1, <5>1
        <4>4. \A h \in 1..k - 1 : IsHandler(y.list[h]) => y.list[h].n < op.entry.n
          BY <1>10, <3>3, <3>5, <4>2, <4>3
        <4> QED
          BY <3>1, <4>1, <4>2, <4>4
      <3>6. CASE k \in 1..Len(x.list)
        <4>1. y.list[k] = x.list[k] /\ IsHandler(x.list[k])
          BY <3>3, <3>4, <3>6
        <4>0. k \in 1..Len(lists[d][i].list) /\ IsHandler(lists[d][i].list[k])
          BY <1>8, <3>6, <4>1
        <4>a. /\ lists[d][i].list[k].n \in 1..Len(registered) /\ i \in Sides
              /\ registered[lists[d][i].list[k].n].of = d /\ i \in registered[lists[d][i].list[k].n].hows
              /\ \A h \in 1..k - 1 : IsHandler(lists[d][i].list[h]) => lists[d][i].list[h].n < lists[d][i].list[k].n
          BY <1>12, <4>0, Zenon DEF HandlersPlaced
        <4>2. /\ x.list[k].n \in 1..Len(registered) /\ i \in Sides
              /\ registered[x.list[k].n].of = d /\ i \in registered[x.list[k].n].hows
              /\ \A h \in 1..k - 1 : IsHandler(x.list[h]) => x.list[h].n < x.list[k].n
          BY <1>8, <4>a
        <4>3. \A h \in 1..k - 1 : h \in 1..Len(x.list)
          BY <1>10, <3>6
        <4>4. \A h \in 1..k - 1 : IsHandler(y.list[h]) => y.list[h].n < x.list[k].n
          BY <3>3, <4>2, <4>3
        <4> QED
          BY <3>1, <4>1, <4>2, <4>4
      <3>7. k = Len(x.list) + 1 \/ k \in 1..Len(x.list)
        BY <1>10, <3>4
      <3> QED
        BY <3>5, <3>6, <3>7, Zenon
    <2> QED
      BY <2>1, <2>2, SMTT(20)
  <1>17. ToldRight'
    <2>1. ASSUME NEW m \in 1..Len(registered), told[m] # 0
          PROVE  \E j \in registered[m].hows : lists'[registered[m].of][j].fired
      BY <1>5, <1>11, <1>12, <2>1 DEF ToldRight
    <2>2. ASSUME NEW e \in Ids, NEW j \in Sides, Open(e, j)', NEW m \in Ahead(e, j)'
          PROVE  told[m] = 0
      <3>1. Open(e, j) /\ (m \in Ahead(e, j) \/ SentTo(op, m, e, j))
        BY <1>15, <2>2
      <3>2. CASE m \in Ahead(e, j)
        BY <1>12, <3>1, <3>2 DEF ToldRight
      <3>3. CASE SentTo(op, m, e, j)
        <4>1. Adds(Top.todo[1]) /\ op.entry.n = m /\ op.d = e /\ op.i = j
          BY <1>4, <3>3 DEF SentTo
        <4>2. lists[e][j].disabled \/ told[m] = 0
          BY <1>4, <1>13, <4>1, Zenon DEF LinedUp
        <4> QED
          BY <3>1, <4>2 DEF Open
      <3> QED
        BY <3>1, <3>2, <3>3
    <2> QED
      BY <2>1, <2>2 DEF ToldRight
  <1>18. OnTheWay'
    <2> SUFFICES ASSUME NEW k \in 1..Depth', NEW j \in 1..Len(frames'[k].todo), Adds(frames'[k].todo[j])
                 PROVE  InPlace(k, j)'
      BY DEF OnTheWay
    <2>1. CASE k \in 1..Depth /\ k # Depth
      <3>1. frames'[k] = frames[k] /\ InPlace(k, j)
        BY <1>3, <1>12, <2>1 DEF OnTheWay
      <3>2. /\ frames[k].todo[j].entry.n \in 1..Len(registered)
            /\ registered[frames[k].todo[j].entry.n].of = frames[k].todo[j].d
            /\ frames[k].todo[j].i \in Sides /\ lists[frames[k].todo[j].d][frames[k].todo[j].i].disabled
        BY <2>1, <3>1, Zenon DEF InPlace
      <3>3. lists'[frames[k].todo[j].d][frames[k].todo[j].i].disabled
        BY <1>5, <1>11, <3>2
      <3> QED
        BY <3>1, <3>3, Zenon DEF InPlace, SentTo, Adds
    <2>2. CASE k = Depth
      <3>1. frames'[k].todo = f.todo
        BY <1>3, <2>2
      <3>a. j \in 1..Len(f.todo)
        BY <3>1
      <3>b. PICK h \in 1..Len(Top.todo) : h = j + 1 /\ h # 1 /\ f.todo[j] = Top.todo[h]
        BY <1>4, <3>a
      <3>2. PICK o : o = Top.todo[h]
        OBVIOUS
      <3>3. Adds(o)
        BY <3>1, <3>b, <3>2
      <3>l. LinedUp(o, h, op)
        BY <1>13, <3>2, <3>3
      <3>e. /\ o.i \in Sides /\ o.d \in Ids
            /\ o.entry.n \in 1..Len(registered)
            /\ registered[o.entry.n].of = o.d
            /\ o.i \in registered[o.entry.n].hows
        BY <3>l, Zenon DEF LinedUp
      <3>g. h = 1 \/ (h = 2 /\ o.i = 2 /\ SentTo(op, o.entry.n, o.d, 1))
        BY <3>l, Zenon DEF LinedUp
      <3>c. h = 2 /\ j = 1
        BY <3>a, <3>b, <3>g
      <3>4. /\ j = 1 /\ o.i = 2 /\ SentTo(op, o.entry.n, o.d, 1)
            /\ o.i \in Sides /\ o.d \in Ids
            /\ o.entry.n \in 1..Len(registered)
            /\ registered[o.entry.n].of = o.d
            /\ o.i \in registered[o.entry.n].hows
        BY <3>c, <3>e, <3>g
      <3>d. \/ lists[o.d][o.i].disabled
            \/ /\ o.entry.n = Len(registered) /\ told[o.entry.n] = 0
               /\ \A g \in 1..Len(lists[o.d][o.i].list) :
                     IsHandler(lists[o.d][o.i].list[g]) => lists[o.d][o.i].list[g].n < o.entry.n
        BY <3>l, Zenon DEF LinedUp
      <3>5. Adds(op) /\ d = o.d /\ i = 1
        BY <1>9, <3>4 DEF SentTo, Adds
      <3>6. lists'[o.d][o.i] = lists[o.d][o.i]
        BY <1>6, <1>7, <3>4, <3>5
      <3>7. Starts(d, i) => lists[o.d][o.i].disabled
        BY <1>14, <3>4, <3>5
      <3>8. ~Starts(d, i) => k = Depth'
        BY <1>3, <2>2
      <3>9. frames'[k].todo[j] = o
        BY <3>1, <3>b, <3>2
      <3> QED
        BY <3>4, <3>d, <3>6, <3>7, <3>8, <3>9, Zenon DEF InPlace
    <2>3. CASE k = Depth + 1 /\ Starts(d, i)
      <3>1. frames'[k].todo = <<>>
        BY <1>3, <2>3, RoundIs
      <3> QED
        BY <3>1, NoEntries
    <2> QED
      BY <1>1, <1>3, <2>1, <2>2, <2>3
  <1>19. NoneForgotten'
    <2>1. ASSUME NEW e \in Ids, NEW j \in Sides, Open(e, j)', NEW m \in 1..Len(registered),
                 registered[m].of = e, j \in registered[m].hows
          PROVE  told[m] # 0 \/ m \in Ahead(e, j)' \/ \E h \in 1..Len(Top'.todo) : SentTo(Top'.todo[h], m, e, j)
      <3>1. /\ Open(e, j) /\ \A n : n \in Ahead(e, j)' <=> n \in Ahead(e, j) \/ SentTo(op, n, e, j)
        BY <1>15, <2>1
      <3>2. told[m] # 0 \/ m \in Ahead(e, j) \/ \E h \in 1..Len(Top.todo) : SentTo(Top.todo[h], m, e, j)
        BY <1>12, <2>1, <3>1 DEF NoneForgotten
      <3>3. ASSUME NEW h \in 1..Len(Top.todo), SentTo(Top.todo[h], m, e, j), h # 1
            PROVE  \E g \in 1..Len(Top'.todo) : SentTo(Top'.todo[g], m, e, j)
        <4>1. Adds(Top.todo[h]) /\ Top.todo[h].entry.n = m /\ Top.todo[h].d = e /\ Top.todo[h].i = j
          BY <3>3 DEF SentTo
        <4>2. h = 2 /\ j = 2 /\ SentTo(op, m, e, 1)
          BY <1>13, <3>3, <4>1, Zenon DEF LinedUp
        <4>3. Adds(op) /\ d = e /\ i = 1
          BY <1>9, <4>2 DEF SentTo, Adds
        <4>4. ~Starts(d, i)
          BY <1>14, <3>1, <4>2, <4>3 DEF Open
        <4>5. Top' = f /\ 1 \in 1..Len(f.todo) /\ f.todo[1] = Top.todo[h]
          BY <1>3, <1>4, <4>2, <4>4
        <4> QED
          BY <3>3, <4>5, Zenon
      <3>4. SentTo(Top.todo[1], m, e, j) => m \in Ahead(e, j)'
        BY <1>4, <3>1
      <3> QED
        BY <3>1, <3>2, <3>3, <3>4
    <2> QED
      BY <2>1 DEF NoneForgotten, SentTo, Adds
  <1> QED
    BY <1>2, <1>16, <1>17, <1>18, <1>19 DEF DInv

LEMMA AddGrows ==
  ASSUME NEW i \in Lists, NEW x, ListOK(x), i \in Sides => Settling(x), NEW op \in Adding,
         NEW y, y = Add(x, Options(i), op.entry)
  PROVE  Grows(x, y, i, op)
  <1>1. op.op = "add" /\ op.entry \in Item
    BY DEF Adding
  <1>2. PICK o \in {OnceMemory, OnlyMemory} : o = Options(i)
    BY OptionsAre
  <1>3. /\ ListOK(y) /\ (y.disabled <=> x.disabled)
        /\ x.disabled => y = x
        /\ ~x.disabled => y.list = Append(x.list, op.entry)
        /\ x.firing \/ x.memory = 0 => (y.firing <=> x.firing) /\ (y.fired <=> x.fired) /\ y.at = x.at /\ y.data = x.data
    BY <1>1, <1>2, AddOK
  <1>4. ASSUME i \in Sides
        PROVE  /\ Settling(y) /\ (x.fired => y.fired /\ y.data = x.data)
               /\ ~(y.fired /\ ~x.fired)
               /\ ~x.firing /\ y.firing => y.at = 1 /\ x.fired
    <2>1. Settling(x) /\ Options(i) = OnceMemory
      BY <1>4, OptionsAre
    <2>2. /\ Settling(y)
          /\ (y.fired <=> x.fired) /\ (x.fired => y.data = x.data)
          /\ ~x.disabled /\ x.fired /\ ~x.firing => y.at = 1 /\ Len(y.list) = 1
      BY <1>1, <2>1, SideAdd
    <2>3. ~x.firing /\ y.firing => ~x.disabled /\ x.memory # 0
      BY <1>3
    <2>4. ~x.fired => x.memory = 0
      BY <2>1 DEF Settling
    <2> QED
      BY <2>2, <2>3, <2>4
  <1> QED
    BY <1>1, <1>3, <1>4 DEF Grows

LEMMA FireGrows ==
  ASSUME NEW i \in Lists, NEW x, ListOK(x), i \in Sides => Settling(x), NEW op \in Firing,
         NEW y, y = FireWith(x, Options(i), op.value)
  PROVE  Grows(x, y, i, op)
  <1>1. op.op # "add" /\ op.value \in Vals
    BY DEF Firing
  <1>2. PICK o \in {OnceMemory, OnlyMemory} : o = Options(i)
    BY OptionsAre
  <1>3. /\ ListOK(y) /\ y.list = x.list /\ (y.disabled <=> x.disabled)
        /\ ~Accepts(x) => y = x
        /\ x.firing => y.firing /\ y.at = x.at
    BY <1>1, <1>2, FireOK
  <1>4. x.disabled => y = x
    BY <1>3 DEF Accepts
  <1>5. ASSUME i \in Sides
        PROVE  /\ Settling(y) /\ (x.fired => y = x)
               /\ ~x.fired /\ ~x.disabled => ~x.firing /\ y.firing /\ y.fired /\ y.at = 1
    <2>1. Settling(x) /\ Options(i) = OnceMemory
      BY <1>5, OptionsAre
    <2> QED
      BY <1>1, <2>1, SideFire
  <1>6. ASSUME i \in Sides
        PROVE  /\ x.fired => y.fired /\ y.data = x.data
               /\ y.fired /\ ~x.fired => ~x.disabled /\ ~x.firing /\ y.firing /\ y.list = x.list
               /\ ~x.firing /\ y.firing => y.at = 1
    <2>1. CASE x.fired \/ x.disabled
      <3>1. y = x
        BY <1>4, <1>5, <1>6, <2>1
      <3> QED
        BY <2>1, <3>1
    <2>2. CASE ~x.fired /\ ~x.disabled
      BY <1>3, <1>5, <1>6, <2>2
    <2> QED
      BY <2>1, <2>2
  <1> QED
    BY <1>1, <1>3, <1>4, <1>5, <1>6 DEF Grows

LEMMA StoreIs ==
  ASSUME Structure, NEW op, NEW d \in Ids, NEW i \in Lists, op.op = "add" => op.d = d /\ op.i = i,
         NEW y, Grows(lists[d][i], y, i, op), NEW f \in Frames, Store(d, i, y, WithTop(f))
  PROVE  Stored(op, d, i) /\ GoesOn(f, d, i)
  <1>1. ListsOK /\ ListOK(y) /\ (i \in Sides => Settling(y))
    BY DEF Structure, Grows
  <1>2. lists' = Put(lists, d, i, y)
    BY DEF Store, Put
  <1>3. frames' = IF ~lists[d][i].firing /\ y.firing THEN Append(WithTop(f), Round(d, i)) ELSE WithTop(f)
    BY DEF Store
  <1>4. /\ ListsOK' /\ lists'[d][i] = y
        /\ \A e \in Ids, j \in Lists : e # d \/ j # i => lists'[e][j] = lists[e][j]
    BY <1>1, <1>2, PutIs
  <1>5. Stored(op, d, i)
    BY <1>4 DEF Stored
  <1>6. GoesOn(f, d, i)
    BY <1>3, <1>4 DEF GoesOn, Starts
  <1> QED
    BY <1>5, <1>6

-------------------------------------------------------------------------------
(* What a step does to the outcome of the deferreds. *)

Unmoved(d, i) ==
    /\ lists'[d][i].fired <=> lists[d][i].fired
    /\ lists[d][i].fired => lists'[d][i].data = lists[d][i].data
AllUnmoved == \A d \in Ids, i \in Sides : Unmoved(d, i)

SettlesAs(d, i) ==
    /\ ~lists[d][i].fired /\ ~lists[d][3 - i].fired
    /\ lists'[d][i].fired /\ lists'[d][i].data \in Vals
    /\ \A e \in Ids, j \in Sides : e # d \/ j # i => Unmoved(e, j)
OneSettles == \E d \in Ids, i \in Sides : SettlesAs(d, i)

LEMMA StoredSettles ==
  ASSUME Structure, Top.in, NEW op, NEW d \in Ids, NEW i \in Lists, Stored(op, d, i)
  PROVE  AllUnmoved \/ OneSettles
  <1>1. /\ ListsOK' /\ Grows(lists[d][i], lists'[d][i], i, op)
        /\ \A e \in Ids, j \in Lists : e # d \/ j # i => lists'[e][j] = lists[e][j]
    BY DEF Stored
  <1>2. \A j \in Sides : j \in Lists
    BY DEF Sides, Lists
  <1>3. \A e \in Ids, j \in Sides : e # d \/ j # i => Unmoved(e, j)
    BY <1>1, <1>2 DEF Unmoved
  <1>4. CASE i \in Sides /\ lists'[d][i].fired /\ ~lists[d][i].fired
    <2>1. ~lists[d][i].disabled
      BY <1>1, <1>4 DEF Grows
    <2>2. 3 - i \in Sides /\ 3 - (3 - i) = i
      BY <1>4 DEF Sides
    <2>3. ~lists[d][3 - i].fired
      BY <2>1, <2>2, NoneFresh
    <2>4. lists'[d][i].data \in Vals
      <3>1. ListOK(lists'[d][i]) /\ Settling(lists'[d][i])
        BY <1>1, <1>4 DEF Grows
      <3> QED
        BY <1>4, <3>1 DEF Settling, ListOK, Shape
    <2> QED
      BY <1>3, <1>4, <2>3, <2>4 DEF OneSettles, SettlesAs
  <1>5. CASE ~(i \in Sides /\ lists'[d][i].fired /\ ~lists[d][i].fired)
    <2>1. i \in Sides => Unmoved(d, i)
      BY <1>1, <1>5 DEF Grows, Unmoved
    <2> QED
      BY <1>3, <2>1 DEF AllUnmoved
  <1> QED
    BY <1>4, <1>5

\* The next call of the library's code: what it does to the list it is of.
LEMMA DoIs ==
  ASSUME Structure, Do
  PROVE  \E f \in Frames, d \in Ids, i \in Lists :
            /\ f.d = Top.d /\ f.i = Top.i /\ f.in /\ f.todo = Tail(Top.todo)
            /\ Stored(Head(Top.todo), d, i) /\ GoesOn(f, d, i)
  <1>1. Top.in /\ Top.todo # <<>>
    BY DEF Do
  <1>2. /\ Types /\ ListsOK /\ Top \in Frames
    BY StackIs DEF Structure, Types
  <1>3. PICK op : op = Head(Top.todo)
    OBVIOUS
  <1>4. Top.todo \in Seq(Adding \cup Firing)
    BY <1>2, FrameIs
  <1>5. op \in Adding \cup Firing /\ Tail(Top.todo) \in Seq(Adding \cup Firing)
    BY <1>1, <1>3, <1>4
  <1>6. PICK f : f = [Top EXCEPT !.todo = Tail(Top.todo)]
    OBVIOUS
  <1>7. f \in Frames /\ f.d = Top.d /\ f.i = Top.i /\ f.in /\ f.todo = Tail(Top.todo)
    <2>1. PICK rest : rest \in Seq(Adding \cup Firing) /\ rest = Tail(Top.todo)
      BY <1>5
    <2>2. f = [Top EXCEPT !.todo = rest]
      BY <1>6, <2>1
    <2>3. f \in Frames /\ f.d = Top.d /\ f.i = Top.i /\ (f.in <=> Top.in) /\ f.todo = rest
      BY <1>2, <2>1, <2>2 DEF Frames
    <2> QED
      BY <1>1, <2>1, <2>3
  <1>8. /\ op.d \in Ids /\ op.i \in Lists
        /\ op \in Adding <=> op.op = "add"
        /\ op \in Firing <=> op.op \in {"fire", "count"}
        /\ op.op = "count" => op.i = 1
    BY <1>5 DEF Adding, Firing, Lists
  <1>10. \E d \in Ids, i \in Lists : Stored(op, d, i) /\ GoesOn(f, d, i)
    <2>1. \A d \in Ids, i \in Lists : ListOK(lists[d][i]) /\ (i \in Sides => Settling(lists[d][i]))
      BY <1>2 DEF ListsOK, AllOK
    <2>2. CASE op.op = "add"
      <3>1. Store(op.d, op.i, Add(lists[op.d][op.i], Options(op.i), op.entry), WithTop(f))
        BY <1>3, <1>6, <2>2 DEF Do
      <3>2. Grows(lists[op.d][op.i], Add(lists[op.d][op.i], Options(op.i), op.entry), op.i, op)
        BY <1>8, <2>1, <2>2, AddGrows
      <3> QED
        BY <1>2, <1>7, <1>8, <3>1, <3>2, StoreIs
    <2>3. CASE op.op = "fire"
      <3>1. Store(op.d, op.i, FireWith(lists[op.d][op.i], Options(op.i), op.value), WithTop(f))
        BY <1>3, <1>6, <2>3 DEF Do
      <3>2. Grows(lists[op.d][op.i], FireWith(lists[op.d][op.i], Options(op.i), op.value), op.i, op)
        BY <1>8, <2>1, <2>3, FireGrows
      <3> QED
        BY <1>2, <1>7, <1>8, <2>3, <3>1, <3>2, StoreIs
    <2>4. CASE op.op = "count" /\ Store(op.d, 1, FireWith(lists[op.d][1], Options(1), op.value), WithTop(f))
      <3>1. 1 \in Lists
        BY DEF Lists
      <3>2. Grows(lists[op.d][1], FireWith(lists[op.d][1], Options(1), op.value), 1, op)
        BY <1>8, <2>1, <2>4, <3>1, FireGrows
      <3> QED
        BY <1>2, <1>7, <1>8, <2>4, <3>1, <3>2, StoreIs
    <2>5. CASE op.op = "count" /\ frames' = WithTop(f) /\ lists' = lists
      <3>1. 1 \in Lists
        BY DEF Lists
      <3>2. Grows(lists[op.d][1], lists[op.d][1], 1, op)
        BY <1>8, <2>1, <2>5, <3>1 DEF Grows
      <3>3. ListsOK'
        BY <1>2, <2>5 DEF ListsOK, AllOK
      <3>4. Stored(op, op.d, 1)
        BY <2>5, <3>2, <3>3 DEF Stored
      <3>5. GoesOn(f, op.d, 1)
        BY <2>5 DEF GoesOn, Starts
      <3> QED
        BY <1>8, <3>1, <3>4, <3>5
    <2>6. CASE op.op = "count"
      <3>1. \/ Store(op.d, 1, FireWith(lists[op.d][1], Options(1), op.value), WithTop(f))
            \/ frames' = WithTop(f) /\ lists' = lists
        <4>1. IF remaining'[op.d] = 0
              THEN Store(op.d, 1, FireWith(lists[op.d][op.i], Options(1), op.value), WithTop(f))
              ELSE frames' = WithTop(f) /\ UNCHANGED lists
          BY <1>3, <1>6, <2>6 DEF Do
        <4> QED
          BY <1>8, <2>6, <4>1
      <3> QED
        BY <2>4, <2>5, <2>6, <3>1
    <2> QED
      BY <1>5, <1>8, <2>2, <2>3, <2>6
  <1> QED
    BY <1>3, <1>7, <1>10

LEMMA Does ==
  ASSUME DInv, Do
  PROVE  DInv' /\ (AllUnmoved \/ OneSettles) /\ registered' = registered /\ told' = told
  <1>1. /\ Top.in /\ Top.todo # <<>>
        /\ made' = made /\ calls' = calls /\ registered' = registered /\ told' = told
    BY DEF Do, history
  <1>2. Structure
    BY DEF DInv
  <1>3. PICK f \in Frames, d \in Ids, i \in Lists :
           /\ f.d = Top.d /\ f.i = Top.i /\ f.in /\ f.todo = Tail(Top.todo)
           /\ Stored(Head(Top.todo), d, i) /\ GoesOn(f, d, i)
    BY <1>2, DoIs
  <1>4. PICK op : op = Head(Top.todo)
    OBVIOUS
  <1>5. Counts'
    BY <1>1 DEF DInv, Structure, Types, Counts
  <1>6. DInv'
    BY <1>1, <1>3, <1>4, <1>5, Stores
  <1>7. AllUnmoved \/ OneSettles
    BY <1>1, <1>2, <1>3, StoredSettles
  <1> QED
    BY <1>1, <1>6, <1>7

-------------------------------------------------------------------------------
(* The steps. *)

QuietOps(ops) == ops \in Seq(Adding \cup Firing) /\ \A j \in 1..Len(ops) : ~Adds(ops[j])

LEMMA CountIs ==
  ASSUME NEW c, NEW v
  PROVE  DoCount(c, v) = [op |-> "count", d |-> c.to, i |-> 1, entry |-> c, value |-> v]
  <1>1. PICK g : g = DoFire(c.to, 1, v)
    OBVIOUS
  <1>2. PICK none : none = Entry("none", 0, 0, 1)
    OBVIOUS
  <1>3. g = [op |-> "fire", d |-> c.to, i |-> 1, entry |-> none, value |-> v]
    BY <1>1, <1>2 DEF DoFire
  <1>4. DoCount(c, v) = [g EXCEPT !.op = "count", !.entry = c]
    BY <1>1 DEF DoCount
  <1> QED
    BY <1>3, <1>4

LEMMA FireIsQuiet ==
  ASSUME NEW d \in Ids, NEW i \in Lists, NEW v \in Vals
  PROVE  QuietOps(<<DoFire(d, i, v)>>)
  <1>1. PICK e : e = Entry("none", 0, 0, i)
    OBVIOUS
  <1>2. e \in NoItem
    BY <1>1 DEF Entry, NoItem
  <1>3. PICK op : op = DoFire(d, i, v)
    OBVIOUS
  <1>4. op = [op |-> "fire", d |-> d, i |-> i, entry |-> e, value |-> v]
    BY <1>1, <1>3 DEF DoFire
  <1>5. op \in Firing /\ ~Adds(op)
    BY <1>2, <1>4 DEF Firing, Adds
  <1>6. <<op>> \in Seq(Adding \cup Firing) /\ \A j \in 1..Len(<<op>>) : <<op>>[j] = op
    BY <1>5, ShortSequences
  <1> QED
    BY <1>3, <1>5, <1>6 DEF QuietOps

LEMMA CountIsQuiet ==
  ASSUME NEW e \in Item, NEW v \in Vals
  PROVE  QuietOps(<<DoCount(e, v)>>)
  <1>1. e.to \in Ids
    BY DEF Item
  <1>2. PICK op : op = DoCount(e, v)
    OBVIOUS
  <1>3. op = [op |-> "count", d |-> e.to, i |-> 1, entry |-> e, value |-> v]
    BY <1>2, CountIs
  <1>4. op \in Firing /\ ~Adds(op)
    BY <1>1, <1>3 DEF Firing, Adds
  <1>5. <<op>> \in Seq(Adding \cup Firing) /\ \A j \in 1..Len(<<op>>) : <<op>>[j] = op
    BY <1>4, ShortSequences
  <1> QED
    BY <1>2, <1>4, <1>5 DEF QuietOps

LEMMA AddIsQuiet ==
  ASSUME NEW d \in Ids, NEW i \in Lists, NEW j \in Lists, NEW fn \in Kinds \ {"handler"}, NEW to \in Ids,
         NEW n \in Nat, NEW op, op = DoAdd(d, i, Entry(fn, n, to, j))
  PROVE  op \in Adding /\ ~Adds(op)
  <1>1. PICK e : e = Entry(fn, n, to, j)
    OBVIOUS
  <1>2. e \in Item /\ ~IsHandler(e)
    BY <1>1 DEF Entry, Item, IsHandler
  <1>3. op = [op |-> "add", d |-> d, i |-> i, entry |-> e, value |-> 0]
    BY <1>1 DEF DoAdd
  <1> QED
    BY <1>2, <1>3 DEF Adding, Adds

\* Three calls, one for each list.
LEMMA ThreeAreQuiet ==
  ASSUME NEW ops \in [Lists -> Adding], \A i \in Lists : ~Adds(ops[i])
  PROVE  QuietOps(ops)
  <1>1. ops \in [1..3 -> Adding \cup Firing]
    BY DEF Lists
  <1>2. ops \in Seq(Adding \cup Firing)
    BY <1>1, SeqDef
  <1>3. Len(ops) = 3
    BY <1>1, <1>2
  <1> QED
    BY <1>2, <1>3 DEF QuietOps, Lists

LEMMA BothAreQuiet ==
  ASSUME NEW s, QuietOps(s), NEW t, QuietOps(t)
  PROVE  QuietOps(s \o t)
  <1>1. s \in Seq(Adding \cup Firing) /\ t \in Seq(Adding \cup Firing)
    BY DEF QuietOps
  <1>2. PICK u : u = s \o t
    OBVIOUS
  <1>3. /\ u \in Seq(Adding \cup Firing) /\ Len(u) = Len(s) + Len(t) /\ Len(s) \in Nat /\ Len(t) \in Nat
        /\ \A j \in 1..Len(s) : u[j] = s[j]
        /\ \A j \in Len(s) + 1..Len(s) + Len(t) : u[j] = t[j - Len(s)]
    BY <1>1, <1>2
  <1>4. ASSUME NEW j \in 1..Len(u)
        PROVE  ~Adds(u[j])
    <2>1. CASE j \in 1..Len(s)
      BY <1>3, <2>1 DEF QuietOps
    <2>2. CASE j \in Len(s) + 1..Len(s) + Len(t)
      <3>1. PICK k \in 1..Len(t) : k = j - Len(s)
        BY <1>3, <2>2
      <3>2. u[j] = t[k]
        BY <1>3, <2>2, <3>1
      <3> QED
        BY <3>2 DEF QuietOps
    <2> QED
      BY <1>3, <2>1, <2>2
  <1> QED
    BY <1>2, <1>3, <1>4 DEF QuietOps

LEMMA NothingIsQuiet == QuietOps(<<>>)
  BY NoEntries DEF QuietOps

\* The page, or a function of its, asks the library for something else than to
\* register a handler.
LEMMA Asks ==
  ASSUME DInv, Top.in, Top.todo = <<>>, NEW ops, QuietOps(ops), NEW u \in BOOLEAN,
         frames' = WithTop([Top EXCEPT !.user = u, !.todo = ops]),
         lists' = lists, Counts', registered' = registered, told' = told
  PROVE  DInv'
  <1>1. Top \in Frames
    BY StackIs DEF DInv, Structure
  <1>2. ops \in Seq(Adding \cup Firing) /\ \A j \in 1..Len(ops) : ~Adds(ops[j])
    BY DEF QuietOps
  <1>3. PICK f : f = [Top EXCEPT !.user = u, !.todo = ops]
    OBVIOUS
  <1>4. f \in Frames /\ f.d = Top.d /\ f.i = Top.i /\ (f.in <=> Top.in) /\ f.todo = ops
    BY <1>1, <1>2, <1>3 DEF Frames
  <1> QED
    BY <1>2, <1>3, <1>4, Speaks

LEMMA Programs ==
  ASSUME DInv, PageRuns, NEW ops, QuietOps(ops), Program(ops),
         lists' = lists, Counts', registered' = registered, told' = told
  PROVE  DInv'
  <1>1. Top \in Frames
    BY StackIs DEF DInv, Structure
  <1>2. PICK u \in BOOLEAN : u = Top.user
    BY <1>1, FrameIs
  <1>3. [Top EXCEPT !.todo = ops] = [Top EXCEPT !.user = u, !.todo = ops]
    BY <1>1, <1>2 DEF Frames
  <1> QED
    BY <1>2, <1>3, Asks, Zenon DEF PageRuns, Program

\* What is made.
LEMMA MakesOne ==
  ASSUME Counts, Len(made) < MaxDeferreds, NEW kind \in {"new", "then", "when"}, NEW of \in Seq(Nat), NEW fns \in SUBSET Lists,
         made' = Append(made, [kind |-> kind, of |-> of, fns |-> fns]),
         calls' = calls, registered' = registered, told' = told
  PROVE  Counts' /\ Len(made) + 1 \in Ids
  <1>1. PICK m : m = [kind |-> kind, of |-> of, fns |-> fns]
    OBVIOUS
  <1>2. m \in Making
    BY <1>1 DEF Making
  <1>3. made \in Seq(Making) /\ Len(made) \in Nat /\ MaxDeferreds \in Nat
    BY ValsAre DEF Counts
  <1>4. made' \in Seq(Making) /\ Len(made') = Len(made) + 1
    BY <1>1, <1>2, <1>3
  <1>5. Len(made') <= MaxDeferreds
    BY <1>3, <1>4
  <1> QED
    BY <1>3, <1>4, <1>5 DEF Counts, Ids

LEMMA MadeAre ==
  ASSUME Counts
  PROVE  Made \subseteq Ids /\ Plain \subseteq Ids
  <1>1. made \in Seq(Making) /\ Len(made) \in Nat /\ Len(made) <= MaxDeferreds /\ MaxDeferreds \in Nat
    BY ValsAre DEF Counts
  <1>2. DOMAIN made = 1..Len(made)
    BY <1>1
  <1> QED
    BY <1>1, <1>2 DEF Made, Plain, Ids

\* What a step does to what was promised: nothing, a settlement, a new handler, or a call.
Same == registered' = registered /\ told' = told
Stays == AllUnmoved /\ Same
Settles == OneSettles /\ Same
Joins ==
    /\ lists' = lists
    /\ \E d \in Ids, hows \in SUBSET {1, 2} :
          registered' = Append(registered, [of |-> d, hows |-> hows]) /\ told' = Append(told, 0)
Tells ==
    /\ lists' = lists /\ registered' = registered
    /\ \E n \in 1..Len(registered), i \in Sides : \E d \in Ids :
          /\ registered[n].of = d /\ i \in registered[n].hows /\ lists[d][i].fired /\ ~lists[d][3 - i].fired
          /\ told[n] = 0 /\ told' = [told EXCEPT ![n] = lists[d][i].data]
          /\ \A g \in 1..n - 1 : registered[g].of = d /\ i \in registered[g].hows => told[g] # 0
Moves == Stays \/ Settles \/ Joins \/ Tells

LEMMA ListsStay == ASSUME lists' = lists PROVE AllUnmoved
  BY DEF AllUnmoved, Unmoved

LEMMA MakesNew == ASSUME DInv, New PROVE DInv' /\ Stays
  <1>1. /\ PageRuns /\ Len(made) < MaxDeferreds /\ frames' = frames /\ lists' = lists /\ calls' = calls /\ Same
        /\ made' = Append(made, [kind |-> "new", of |-> <<>>, fns |-> {}])
    BY DEF New, history, Same
  <1>2. Structure /\ Types /\ Counts /\ Top \in Frames
    BY StackIs DEF DInv, Structure, Types
  <1>3. {} \in SUBSET Lists /\ <<>> \in Seq(Nat)
    OBVIOUS
  <1>4. Counts'
    BY <1>1, <1>2, <1>3, MakesOne DEF Same
  <1>5. frames' = WithTop(Top)
    BY <1>1, <1>2, TopStays
  <1>6. Top.in /\ Top.todo = <<>>
    BY <1>1 DEF PageRuns
  <1>7. \A j \in 1..Len(Top.todo) : ~Adds(Top.todo[j])
    BY <1>6, NoEntries
  <1>8. DInv'
    BY <1>1, <1>2, <1>4, <1>5, <1>6, <1>7, Speaks DEF Same
  <1> QED
    BY <1>1, <1>8, ListsStay DEF Stays

LEMMA Resting == ASSUME DInv, Rest PROVE DInv' /\ Stays
  <1>1. /\ Depth = 1 /\ Top.todo = <<>> /\ frames' = frames /\ lists' = lists /\ calls' = calls /\ made' = made /\ Same
    BY DEF Rest, AtRest, vars, Same
  <1>2. Structure /\ Types /\ Counts /\ Top \in Frames
    BY StackIs DEF DInv, Structure, Types
  <1>3. Counts'
    BY <1>1, <1>2 DEF Counts, Same
  <1>4. frames' = WithTop(Top)
    BY <1>1, <1>2, TopStays
  <1>5. Top.in
    BY <1>1, <1>2 DEF Structure, FramesOK, Top
  <1>6. \A j \in 1..Len(Top.todo) : ~Adds(Top.todo[j])
    BY <1>1, NoEntries
  <1>7. DInv'
    BY <1>1, <1>2, <1>3, <1>4, <1>5, <1>6, Speaks DEF Same
  <1> QED
    BY <1>1, <1>7, ListsStay DEF Stays

LEMMA Fires == ASSUME DInv, NEW d \in Plain, NEW i \in Lists, Fire(d, i) PROVE DInv' /\ Stays
  <1>1. /\ PageRuns /\ calls < MaxCalls /\ calls' = calls + 1 /\ Program(<<DoFire(d, i, calls + 1)>>)
        /\ lists' = lists /\ made' = made /\ Same
    BY DEF Fire, history, Same
  <1>2. Structure /\ Types /\ Counts
    BY DEF DInv, Structure, Types
  <1>3. calls + 1 \in Vals /\ calls' \in 0..MaxCalls
    BY <1>1, <1>2, ValsAre DEF Counts, Vals
  <1>4. Counts'
    BY <1>1, <1>2, <1>3 DEF Counts, Same
  <1>5. d \in Ids
    BY <1>2, MadeAre
  <1>6. QuietOps(<<DoFire(d, i, calls + 1)>>)
    BY <1>3, <1>5, FireIsQuiet
  <1>7. DInv'
    BY <1>1, <1>4, <1>6, Programs DEF Same
  <1> QED
    BY <1>1, <1>7, ListsStay DEF Stays

LEMMA Thens == ASSUME DInv, NEW p \in Made, NEW fns \in FunctionsGiven, Then(p, fns) PROVE DInv' /\ Stays
  <1>1. PICK m : m = Len(made) + 1
    OBVIOUS
  <1>2. PICK ops : ops = [i \in Lists |-> DoAdd(p, i, Entry("then", 0, m, i))]
    OBVIOUS
  <1>3. /\ PageRuns /\ Len(made) < MaxDeferreds /\ Program(ops)
        /\ made' = Append(made, [kind |-> "then", of |-> <<p>>, fns |-> fns])
        /\ lists' = lists /\ calls' = calls /\ Same
    BY <1>1, <1>2 DEF Then, history, Same
  <1>4. Structure /\ Types /\ Counts
    BY DEF DInv, Structure, Types
  <1>5. p \in Ids /\ p \in Nat
    <2>1. p \in Ids
      BY <1>4, MadeAre
    <2> QED
      BY <2>1 DEF Ids
  <1>6. <<p>> \in Seq(Nat) /\ fns \in SUBSET Lists
    <2>1. fns \in SUBSET Lists
      BY ChoiceType DEF Lists
    <2> QED
      BY <1>5, <2>1, ShortSequences
  <1>7. Counts' /\ m \in Ids
    BY <1>1, <1>3, <1>4, <1>6, MakesOne DEF Same
  <1>8. "then" \in Kinds \ {"handler"}
    BY DEF Kinds
  <1>9. \A i \in Lists : ops[i] \in Adding /\ ~Adds(ops[i])
    BY <1>2, <1>5, <1>7, <1>8, AddIsQuiet
  <1>10. ops \in [Lists -> Adding]
    BY <1>2, <1>9
  <1>11. QuietOps(ops)
    BY <1>9, <1>10, ThreeAreQuiet
  <1>12. DInv'
    BY <1>3, <1>7, <1>11, Programs DEF Same
  <1> QED
    BY <1>3, <1>12, ListsStay DEF Stays

\* What when asks of an argument.
Asked(s, n, m) ==
    IF s = Page THEN <<>>
    ELSE <<DoAdd(s, 1, Entry("count", n, m, 1)), DoAdd(s, 2, Entry("settle", 0, m, 2)),
           DoAdd(s, 3, Entry("settle", 0, m, 3))>>

LEMMA AskedIsQuiet ==
  ASSUME NEW s \in Ids \cup {Page}, NEW n \in Nat, NEW m \in Ids
  PROVE  QuietOps(Asked(s, n, m))
  <1>1. CASE s = Page
    BY <1>1, NothingIsQuiet DEF Asked
  <1>2. CASE s # Page
    <2>1. PICK a : a = DoAdd(s, 1, Entry("count", n, m, 1))
      OBVIOUS
    <2>2. PICK b : b = DoAdd(s, 2, Entry("settle", 0, m, 2))
      OBVIOUS
    <2>3. PICK c : c = DoAdd(s, 3, Entry("settle", 0, m, 3))
      OBVIOUS
    <2>4. "count" \in Kinds \ {"handler"} /\ "settle" \in Kinds \ {"handler"}
      BY DEF Kinds
    <2>5. 1 \in Lists /\ 2 \in Lists /\ 3 \in Lists /\ s \in Ids
      BY <1>2 DEF Lists
    <2>6. /\ a \in Adding /\ ~Adds(a)
          /\ b \in Adding /\ ~Adds(b)
          /\ c \in Adding /\ ~Adds(c)
      BY <2>1, <2>2, <2>3, <2>4, <2>5, AddIsQuiet
    <2>7. PICK ops : ops = <<a, b, c>>
      OBVIOUS
    <2>8. ops \in [1..3 -> Adding] /\ ops[1] = a /\ ops[2] = b /\ ops[3] = c
      BY <2>6, <2>7
    <2>9. ops \in [Lists -> Adding] /\ \A i \in Lists : ~Adds(ops[i])
      BY <2>6, <2>8 DEF Lists
    <2>10. QuietOps(ops)
      BY <2>9, ThreeAreQuiet
    <2> QED
      BY <1>2, <2>1, <2>2, <2>3, <2>7, <2>10 DEF Asked
  <1> QED
    BY <1>1, <1>2

LEMMA Whens ==
  ASSUME DInv, NEW a \in Made \cup {Page}, NEW b \in Made \cup {Page}, When(a, b)
  PROVE  DInv' /\ Stays
  <1>1. PICK m : m = Len(made) + 1
    OBVIOUS
  <1>2. PICK ops : ops = IF a = Page /\ b = Page THEN <<DoFire(m, 1, 1)>> ELSE Asked(a, 1, m) \o Asked(b, 2, m)
    OBVIOUS
  <1>3. /\ PageRuns /\ m <= MaxDeferreds /\ Program(ops)
        /\ made' = Append(made, [kind |-> "when", of |-> <<a, b>>, fns |-> {}])
        /\ lists' = lists /\ calls' = calls /\ Same
    BY <1>1, <1>2 DEF When, history, Same, Asked
  <1>4. Structure /\ Types /\ Counts
    BY DEF DInv, Structure, Types
  <1>5. a \in Ids \cup {Page} /\ b \in Ids \cup {Page} /\ a \in Nat /\ b \in Nat
    <2>1. a \in Ids \cup {Page} /\ b \in Ids \cup {Page}
      BY <1>4, MadeAre
    <2> QED
      BY <2>1 DEF Ids, Page
  <1>6. <<a, b>> \in Seq(Nat) /\ {} \in SUBSET Lists
    BY <1>5, ShortSequences
  <1>7. Len(made) < MaxDeferreds
    BY <1>1, <1>3, <1>4, ValsAre DEF Counts
  <1>8. Counts' /\ m \in Ids
    BY <1>1, <1>3, <1>4, <1>6, <1>7, MakesOne DEF Same
  <1>9. QuietOps(ops)
    <2>1. 1 \in Lists /\ 1 \in Vals
      BY ValsAre DEF Lists, Vals
    <2>2. QuietOps(<<DoFire(m, 1, 1)>>)
      BY <1>8, <2>1, FireIsQuiet
    <2>3. QuietOps(Asked(a, 1, m) \o Asked(b, 2, m))
      BY <1>5, <1>8, AskedIsQuiet, BothAreQuiet
    <2> QED
      BY <1>2, <2>2, <2>3
  <1>10. DInv'
    BY <1>3, <1>8, <1>9, Programs DEF Same
  <1> QED
    BY <1>3, <1>10, ListsStay DEF Stays

\* A call of something other than a handler of the page: a function given to then,
\* or what passes the outcome on.
LEMMA EntersWith ==
  ASSUME DInv, Looping, HasNext(List), List.list[List.at].fn \notin {"state", "disable", "handler"},
         NEW ops, QuietOps(ops), NEW u \in BOOLEAN,
         frames' = WithTop([Top EXCEPT !.in = TRUE, !.user = u, !.todo = ops]),
         lists' = lists, Counts', Same
  PROVE  DInv'
  <1>1. Top \in Frames
    BY StackIs DEF DInv, Structure
  <1>2. ops \in Seq(Adding \cup Firing) /\ \A j \in 1..Len(ops) : ~Adds(ops[j])
    BY DEF QuietOps
  <1>3. PICK f : f = [Top EXCEPT !.in = TRUE, !.user = u, !.todo = ops]
    OBVIOUS
  <1>4. f \in Frames /\ f.d = Top.d /\ f.i = Top.i /\ f.in /\ f.todo = ops
    BY <1>1, <1>2, <1>3 DEF Frames
  <1> QED
    BY <1>2, <1>3, <1>4, Enters DEF Same

LEMMA CallsThen ==
  ASSUME DInv, CallFunction, List.list[List.at].fn # "handler"
  PROVE  DInv' /\ Stays
  <1>1. PICK e : e = List.list[List.at]
    OBVIOUS
  <1>2. /\ Looping /\ HasNext(List) /\ e.fn = "then"
        /\ frames' = WithTop([Top EXCEPT !.in = TRUE, !.user = TRUE])
        /\ told' = told /\ registered' = registered /\ lists' = lists /\ made' = made /\ calls' = calls
    BY <1>1 DEF CallFunction, HasFunction
  <1>3. Structure /\ Types /\ Counts /\ Top \in Frames
    BY StackIs DEF DInv, Structure, Types
  <1>4. Counts'
    BY <1>2, <1>3 DEF Counts
  <1>5. Top.todo = <<>>
    BY <1>2, <1>3, LoopIs
  <1>6. [Top EXCEPT !.in = TRUE, !.user = TRUE] = [Top EXCEPT !.in = TRUE, !.user = TRUE, !.todo = <<>>]
    BY <1>3, <1>5 DEF Frames
  <1>7. List.list[List.at].fn \notin {"state", "disable", "handler"}
    BY <1>1, <1>2
  <1>8. DInv'
    BY <1>2, <1>4, <1>6, <1>7, NothingIsQuiet, EntersWith, Zenon DEF Same
  <1> QED
    BY <1>2, <1>8, ListsStay DEF Stays, Same

LEMMA Forwards == ASSUME DInv, CallForward PROVE DInv' /\ Stays
  <1>1. PICK e : e = List.list[List.at]
    OBVIOUS
  <1>2. PICK v : v = List.data
    OBVIOUS
  <1>3. PICK ops : ops = IF e.fn = "count" THEN <<DoCount(e, v)>> ELSE <<DoFire(e.to, e.i, v)>>
    OBVIOUS
  <1>4. /\ Looping /\ HasNext(List) /\ e.fn \in {"then", "settle", "count"}
        /\ frames' = WithTop([Top EXCEPT !.in = TRUE, !.todo =
                        <<IF e.fn = "count" THEN DoCount(e, v) ELSE DoFire(e.to, e.i, v)>>])
        /\ Same /\ lists' = lists /\ made' = made /\ calls' = calls
    BY <1>1, <1>2 DEF CallForward, Same
  <1>5. <<IF e.fn = "count" THEN DoCount(e, v) ELSE DoFire(e.to, e.i, v)>> = ops
    BY <1>3
  <1>6. Structure /\ Types /\ Counts /\ ListsOK /\ Top \in Frames
    BY StackIs DEF DInv, Structure, Types
  <1>7. Counts'
    BY <1>4, <1>6 DEF Counts, Same
  <1>8. PICK u \in BOOLEAN : u = Top.user
    BY <1>6, FrameIs
  <1>9. [Top EXCEPT !.in = TRUE, !.todo = ops] = [Top EXCEPT !.in = TRUE, !.user = u, !.todo = ops]
    BY <1>6, <1>8 DEF Frames
  <1>10. e \in Item /\ v \in Vals
    <2>1. Top.d \in Ids /\ Top.i \in Lists /\ List = lists[Top.d][Top.i] /\ List.firing /\ e \in Item
      BY <1>1, <1>4, <1>6, LoopIs
    <2>2. lists[Top.d][Top.i].firing => lists[Top.d][Top.i].data \in Vals
      BY <1>6, <2>1, ListIs
    <2> QED
      BY <1>2, <2>1, <2>2
  <1>11. e.to \in Ids /\ e.i \in Lists
    BY <1>10 DEF Item
  <1>12. QuietOps(ops)
    BY <1>3, <1>10, <1>11, FireIsQuiet, CountIsQuiet
  <1>13. List.list[List.at].fn \notin {"state", "disable", "handler"}
    BY <1>1, <1>4
  <1>14. frames' = WithTop([Top EXCEPT !.in = TRUE, !.user = u, !.todo = ops])
    BY <1>4, <1>5, <1>9
  <1>15. DInv'
    BY <1>4, <1>7, <1>12, <1>13, <1>14, EntersWith, Zenon
  <1> QED
    BY <1>4, <1>15, ListsStay DEF Stays

LEMMA ReturnsValue == ASSUME DInv, ReturnValue PROVE DInv' /\ Stays
  <1>1. PICK to : to = Running.to
    OBVIOUS
  <1>2. PICK v : v = List.data
    OBVIOUS
  <1>3. PICK ops : ops = <<DoFire(to, Top.i, v)>>
    OBVIOUS
  <1>4. /\ Depth > 1 /\ PageRuns
        /\ frames' = WithTop([Top EXCEPT !.user = FALSE, !.todo = ops])
        /\ Same /\ lists' = lists /\ made' = made /\ calls' = calls
    BY <1>1, <1>2, <1>3 DEF ReturnValue, Same
  <1>5. Structure /\ Types /\ Counts /\ ListsOK
    BY DEF DInv, Structure, Types
  <1>6. Counts'
    BY <1>4, <1>5 DEF Counts, Same
  <1>7. Top.in /\ Top.todo = <<>>
    BY <1>4 DEF PageRuns
  <1>8. Top.d \in Ids /\ Top.i \in Lists /\ List = lists[Top.d][Top.i] /\ List.firing /\ Running \in Item
    BY <1>4, <1>5, <1>7, RunningIs
  <1>9. v \in Vals
    <2>1. lists[Top.d][Top.i].firing => lists[Top.d][Top.i].data \in Vals
      BY <1>5, <1>8, ListIs
    <2> QED
      BY <1>2, <1>8, <2>1
  <1>10. to \in Ids
    BY <1>1, <1>8 DEF Item
  <1>11. QuietOps(ops)
    BY <1>3, <1>8, <1>9, <1>10, FireIsQuiet
  <1>12. DInv'
    BY <1>4, <1>6, <1>7, <1>11, Asks, Zenon DEF Same
  <1> QED
    BY <1>4, <1>12, ListsStay DEF Stays

LEMMA ReturnsPromise == ASSUME DInv, NEW r \in Made, ReturnPromise(r) PROVE DInv' /\ Stays
  <1>1. PICK to : to = Running.to
    OBVIOUS
  <1>2. PICK ops : ops = [i \in Lists |-> DoAdd(r, i, Entry("settle", 0, to, i))]
    OBVIOUS
  <1>3. /\ Depth > 1 /\ PageRuns
        /\ frames' = WithTop([Top EXCEPT !.user = FALSE, !.todo = ops])
        /\ Same /\ lists' = lists /\ made' = made /\ calls' = calls
    BY <1>1, <1>2 DEF ReturnPromise, Same
  <1>4. Structure /\ Types /\ Counts
    BY DEF DInv, Structure, Types
  <1>5. Counts'
    BY <1>3, <1>4 DEF Counts, Same
  <1>6. Top.in /\ Top.todo = <<>>
    BY <1>3 DEF PageRuns
  <1>7. to \in Ids /\ r \in Ids
    <2>1. Running \in Item
      BY <1>3, <1>4, <1>6, RunningIs
    <2> QED
      BY <1>1, <1>4, <2>1, MadeAre DEF Item
  <1>8. "settle" \in Kinds \ {"handler"}
    BY DEF Kinds
  <1>9. \A i \in Lists : ops[i] \in Adding /\ ~Adds(ops[i])
    BY <1>2, <1>7, <1>8, AddIsQuiet
  <1>10. ops \in [Lists -> Adding]
    BY <1>2, <1>9
  <1>11. QuietOps(ops)
    BY <1>9, <1>10, ThreeAreQuiet
  <1>12. DInv'
    BY <1>3, <1>5, <1>6, <1>11, Asks, Zenon DEF Same
  <1> QED
    BY <1>3, <1>12, ListsStay DEF Stays

LEMMA Unmoving ==
  ASSUME \A d \in Ids, i \in Sides : (lists'[d][i].fired <=> lists[d][i].fired) /\ lists'[d][i].data = lists[d][i].data
  PROVE  AllUnmoved
  BY DEF AllUnmoved, Unmoved

LEMMA ReturnsNothing == ASSUME DInv, Return PROVE DInv' /\ Stays
  <1>1. /\ Depth > 1 /\ Top.in /\ Top.todo = <<>>
        /\ lists' = [lists EXCEPT ![Top.d][Top.i] = Advance(@)]
        /\ frames' = WithTop([Top EXCEPT !.in = FALSE, !.user = FALSE])
        /\ Same /\ made' = made /\ calls' = calls
    BY DEF Return, history, Same
  <1>2. Counts'
    BY <1>1 DEF DInv, Structure, Types, Counts, Same
  <1>3. lists' = Put(lists, Top.d, Top.i, Advance(lists[Top.d][Top.i]))
    BY <1>1 DEF Put
  <1> QED
    BY <1>1, <1>2, <1>3, Returns, Unmoving, Zenon DEF Stays, Same

LEMMA EndsRound == ASSUME DInv, EndRound PROVE DInv' /\ Stays
  <1>1. PICK y : y = End(List, Options(Top.i))
    OBVIOUS
  <1>2. /\ Looping /\ ~HasNext(List)
        /\ lists' = [lists EXCEPT ![Top.d][Top.i] = y]
        /\ frames' = IF y.firing THEN frames ELSE SubSeq(frames, 1, Depth - 1)
        /\ Same /\ made' = made /\ calls' = calls
    BY <1>1 DEF EndRound, history, Same
  <1>3. Counts'
    BY <1>2 DEF DInv, Structure, Types, Counts, Same
  <1>4. lists' = Put(lists, Top.d, Top.i, y)
    BY <1>2 DEF Put
  <1>5. Closes(y)
    BY <1>2 DEF Closes
  <1> QED
    BY <1>1, <1>2, <1>3, <1>4, <1>5, Ends, Unmoving DEF Stays, Same

LEMMA ThrowsUp == ASSUME DInv, Throw PROVE DInv' /\ Stays
  <1>1. /\ Top.in /\ Top.todo = <<>> /\ frames' = <<PageFrame>> /\ lists' = lists
        /\ Same /\ made' = made /\ calls' = calls
    BY DEF Throw, PageRuns, Same
  <1>2. Counts'
    BY <1>1 DEF DInv, Structure, Types, Counts, Same
  <1> QED
    BY <1>1, <1>2, Throws, ListsStay DEF Stays, Same

LEMMA Joining ==
  ASSUME DInv, NEW d \in Made, NEW hows \in (SUBSET {1, 2}) \ {{}}, Register(d, hows)
  PROVE  DInv' /\ Joins
  <1>1. d \in Ids
    BY MadeAre DEF DInv, Structure, Types
  <1>2. DInv'
    BY <1>1, Registers
  <1>3. /\ lists' = lists /\ registered' = Append(registered, [of |-> d, hows |-> hows])
        /\ told' = Append(told, 0)
    BY DEF Register
  <1> QED
    BY <1>1, <1>2, <1>3 DEF Joins

LEMMA Telling ==
  ASSUME DInv, CallFunction, List.list[List.at].fn = "handler"
  PROVE  DInv' /\ Tells
  <1>1. PICK n : n = List.list[List.at].n
    OBVIOUS
  <1>2. PICK d : d = Top.d
    OBVIOUS
  <1>3. PICK i : i = Top.i
    OBVIOUS
  <1> QED
    BY <1>1, <1>2, <1>3, CallsHandler DEF Tells

\* Every step keeps the invariant, and does no more than was promised.
THEOREM DeferredsStep ==
  ASSUME DInv, Next
  PROVE  DInv' /\ Moves
  <1>1. CASE New
    BY <1>1, MakesNew DEF Moves
  <1>2. ASSUME NEW d \in Made, NEW hows \in (SUBSET {1, 2}) \ {{}}, Register(d, hows)
        PROVE  DInv' /\ Moves
    BY <1>2, Joining DEF Moves
  <1>3. ASSUME NEW d \in Plain, NEW i \in Lists, Fire(d, i)
        PROVE  DInv' /\ Moves
    BY <1>3, Fires DEF Moves
  <1>4. ASSUME NEW p \in Made, NEW fns \in FunctionsGiven, Then(p, fns)
        PROVE  DInv' /\ Moves
    BY <1>4, Thens DEF Moves
  <1>5. ASSUME NEW a \in Made \cup {Page}, NEW b \in Made \cup {Page}, When(a, b)
        PROVE  DInv' /\ Moves
    BY <1>5, Whens DEF Moves
  <1>6. CASE Do
    BY <1>6, Does DEF Moves, Stays, Settles, Same
  <1>7. CASE CallInternal
    <2>1. /\ DInv'
          /\ \A d \in Ids, i \in Sides : (lists'[d][i].fired <=> lists[d][i].fired)
                                         /\ (lists[d][i].fired => lists'[d][i].data = lists[d][i].data)
      BY <1>7, RunsInternal
    <2>2. AllUnmoved
      BY <2>1 DEF AllUnmoved, Unmoved
    <2> QED
      BY <1>7, <2>1, <2>2 DEF CallInternal, history, Moves, Stays, Same
  <1>8. CASE CallFunction
    BY <1>8, CallsThen, Telling DEF Moves
  <1>9. CASE CallForward
    BY <1>9, Forwards DEF Moves
  <1>10. CASE EndRound
    BY <1>10, EndsRound DEF Moves
  <1>11. CASE Return
    BY <1>11, ReturnsNothing DEF Moves
  <1>12. CASE ReturnValue
    BY <1>12, ReturnsValue DEF Moves
  <1>13. ASSUME NEW r \in Made, ReturnPromise(r)
         PROVE  DInv' /\ Moves
    BY <1>13, ReturnsPromise DEF Moves
  <1>14. CASE Throw
    BY <1>14, ThrowsUp DEF Moves
  <1>15. CASE Rest
    BY <1>15, Resting DEF Moves
  <1> QED
    BY <1>1, <1>2, <1>3, <1>4, <1>5, <1>6, <1>7, <1>8, <1>9, <1>10, <1>11, <1>12, <1>13, <1>14, <1>15
       DEF Next, Library

LEMMA NewListsAre ==
  ASSUME NEW d \in Ids, NEW i \in Lists, NEW x, x = NewDeferred(d)[i]
  PROVE  /\ ListOK(x) /\ (i \in Sides => Settling(x) /\ Begins(x))
         /\ ~x.fired /\ ~x.firing /\ ~x.disabled
         /\ \A k \in 1..Len(x.list) : ~IsHandler(x.list[k])
  <1>1. \A j \in 1..3 : Internal[j] \in Kinds \ {"handler"}
    BY DEF Internal, Kinds
  <1>2. PICK es : es = [k \in 1..3 |-> Entry(Internal[k], 0, d, i)]
    OBVIOUS
  <1>3. \A k \in 1..3 : es[k] \in Item /\ ~IsHandler(es[k]) /\ es[k].fn = Internal[k]
    BY <1>1, <1>2 DEF Entry, Item, IsHandler
  <1>4. es \in [1..3 -> Item]
    BY <1>2, <1>3
  <1>5. es \in Seq(Item)
    BY <1>4, SeqDef
  <1>6. Len(es) = 3
    BY <1>4, <1>5
  <1>7. PICK o \in {OnceMemory, OnlyMemory} : o = Options(i)
    BY OptionsAre
  <1>8. /\ i \notin Sides => i = 3 /\ o = OnlyMemory /\ x = NewList(o)
        /\ i \in Sides => o = OnceMemory /\ x = [NewList(o) EXCEPT !.list = es]
    BY <1>2, <1>7 DEF NewDeferred, Lists, Sides, Options
  <1>9. NewList(o) = [list |-> <<>>, disabled |-> FALSE, firing |-> FALSE, fired |-> FALSE, memory |-> 0,
                      data |-> 0, at |-> 0, length |-> 0, start |-> 0, stack |-> <<>>, stacked |-> ~o.once]
    BY DEF NewList
  <1>10. PICK l : l = IF i \in Sides THEN es ELSE <<>>
    OBVIOUS
  <1>11. PICK s \in BOOLEAN : s = (~o.once)
    BY OptionsAre
  <1>12. x = [list |-> l, disabled |-> FALSE, firing |-> FALSE, fired |-> FALSE, memory |-> 0,
              data |-> 0, at |-> 0, length |-> 0, start |-> 0, stack |-> <<>>, stacked |-> s]
    <2>1. NewList(o) = [list |-> <<>>, disabled |-> FALSE, firing |-> FALSE, fired |-> FALSE, memory |-> 0,
                        data |-> 0, at |-> 0, length |-> 0, start |-> 0, stack |-> <<>>, stacked |-> s]
      BY <1>9, <1>11
    <2>2. CASE i \in Sides
      <3>1. l = es /\ x = [NewList(o) EXCEPT !.list = l]
        BY <1>8, <1>10, <2>2
      <3>2. PICK b : b = NewList(o)
        OBVIOUS
      <3>3. b = [list |-> <<>>, disabled |-> FALSE, firing |-> FALSE, fired |-> FALSE, memory |-> 0,
                 data |-> 0, at |-> 0, length |-> 0, start |-> 0, stack |-> <<>>, stacked |-> s]
        BY <2>1, <3>2
      <3>4. x = [b EXCEPT !.list = l]
        BY <3>1, <3>2
      <3> QED
        BY <3>3, <3>4
    <2>3. CASE i \notin Sides
      <3>1. l = <<>> /\ x = NewList(o)
        BY <1>8, <1>10, <2>3
      <3> QED
        BY <2>1, <3>1
    <2> QED
      BY <2>2, <2>3
  <1>13. l \in Seq(Item)
    BY <1>5, <1>10, NoEntries
  <1>14. <<>> \in Seq(Vals) /\ 0 \in Nat
    BY NoEntries
  <1>15. Shape(x)
    BY <1>12, <1>13, <1>14 DEF Shape, Fields
  <1>16. ListOK(x)
    BY <1>12, <1>15 DEF ListOK
  <1>17. ASSUME i \in Sides
         PROVE  Settling(x) /\ Begins(x)
    <2>a. l = es /\ o = OnceMemory
      BY <1>8, <1>10, <1>17
    <2>b. s = FALSE
      BY <1>11, <2>a, OptionsAre
    <2>1. x.list = es /\ ~x.stacked
      BY <1>12, <2>a, <2>b
    <2>2. Settling(x)
      BY <1>12, <2>1 DEF Settling
    <2>3. Begins(x)
      <3>1. es[1].fn = "state" /\ es[2].fn = "disable"
        BY <1>3 DEF Internal
      <3>2. x.list = es
        BY <2>1
      <3>3. Len(x.list) >= 2
        <4>1. Len(es) >= 2
          BY <1>6
        <4> QED
          BY <3>2, <4>1, Zenon
      <3>4. x.list[1].fn = "state" /\ x.list[2].fn = "disable"
        BY <3>1, <3>2
      <3> QED
        BY <3>3, <3>4 DEF Begins
    <2> QED
      BY <2>2, <2>3
  <1>18. \A k \in 1..Len(x.list) : ~IsHandler(x.list[k])
    <2>1. CASE i \in Sides
      <3>1. x.list = es
        BY <1>10, <1>12, <2>1
      <3> QED
        BY <1>3, <1>6, <3>1
    <2>2. CASE i \notin Sides
      BY <1>10, <1>12, <2>2, NoEntries
    <2> QED
      BY <2>1, <2>2
  <1> QED
    BY <1>12, <1>16, <1>17, <1>18

LEMMA PageFrameIs == PageFrame \in Frames /\ PageFrame.in /\ PageFrame.todo = <<>>
  <1>1. <<>> \in Seq(Adding \cup Firing) /\ 1 \in Lists
    BY DEF Lists
  <1> QED
    BY <1>1 DEF PageFrame, Frames

LEMMA Begun == ASSUME Init PROVE DInv
  <1>1. /\ lists = [d \in Ids |-> NewDeferred(d)] /\ made = <<>> /\ frames = <<PageFrame>>
        /\ calls = 0 /\ registered = <<>> /\ told = <<>>
    BY DEF Init
  <1>2. \A d \in Ids, i \in Lists : lists[d][i] = NewDeferred(d)[i]
    BY <1>1
  <1>3. \A d \in Ids, i \in Lists :
           /\ ListOK(lists[d][i]) /\ (i \in Sides => Settling(lists[d][i]) /\ Begins(lists[d][i]))
           /\ ~lists[d][i].fired /\ ~lists[d][i].firing /\ ~lists[d][i].disabled
           /\ \A k \in 1..Len(lists[d][i].list) : ~IsHandler(lists[d][i].list[k])
    BY <1>2, NewListsAre
  <1>4. \A i \in Sides : i \in Lists
    BY DEF Sides, Lists
  <1>5. Counts
    BY <1>1, ValsAre DEF Counts
  <1>6. frames \in Seq(Frames) /\ Depth = 1 /\ Len(registered) = 0 /\ frames[1] = PageFrame
    BY <1>1, PageFrameIs DEF Depth
  <1>7. Types
    BY <1>5, <1>6 DEF Types
  <1>8. ListsOK
    <2>1. \A d \in Ids : NewDeferred(d) = [i \in Lists |-> NewDeferred(d)[i]]
      BY DEF NewDeferred
    <2>2. Table(lists)
      BY <1>1, <2>1 DEF Table
    <2> QED
      BY <1>3, <1>4, <2>2 DEF ListsOK, AllOK
  <1>9. FramesOK
    BY <1>6, PageFrameIs DEF FramesOK
  <1>10. OneSide
    BY <1>3, <1>4 DEF OneSide
  <1>11. HandlersPlaced
    BY <1>3 DEF HandlersPlaced
  <1>12. ToldRight
    <2>1. \A d \in Ids, i \in Sides : Ahead(d, i) = {}
      <3> SUFFICES ASSUME NEW d \in Ids, NEW i \in Sides
                   PROVE  Ahead(d, i) = {}
        OBVIOUS
      <3>1. NextOf(d, i) = 1
        BY <1>3, <1>4 DEF NextOf
      <3> QED
        BY <1>3, <1>4, <3>1 DEF Ahead, From
    <2> QED
      BY <1>6, <2>1 DEF ToldRight
  <1>13. OnTheWay
    BY <1>6, PageFrameIs, NoEntries DEF OnTheWay
  <1>14. NoneForgotten
    BY <1>6 DEF NoneForgotten
  <1> QED
    BY <1>7, <1>8, <1>9, <1>10, <1>11, <1>12, <1>13, <1>14 DEF DInv, Structure

LEMMA Unchanging == ASSUME DInv, UNCHANGED vars PROVE DInv' /\ Stays
  <1>1. /\ frames' = frames /\ lists' = lists /\ registered' = registered /\ told' = told
        /\ made' = made /\ calls' = calls
    BY DEF vars
  <1>2. Structure'
    <2>1. Types'
      BY <1>1 DEF DInv, Structure, Types, Counts, Depth
    <2>2. ListsOK'
      BY <1>1 DEF DInv, Structure, ListsOK, AllOK, Table
    <2>3. FramesOK'
      BY <1>1 DEF DInv, Structure, FramesOK, Depth
    <2>4. OneSide'
      BY <1>1, SMTT(20) DEF DInv, Structure, OneSide, Fresh, Depth, Top
    <2> QED
      BY <2>1, <2>2, <2>3, <2>4 DEF Structure
  <1>3. HandlersPlaced'
    BY <1>1 DEF DInv, HandlersPlaced
  <1>4. \A d \in Ids, i \in Sides : (Open(d, i)' <=> Open(d, i)) /\ Ahead(d, i)' = Ahead(d, i)
    BY <1>1 DEF Open, Alive, Ahead, NextOf, Inside, Depth
  <1>5. ToldRight'
    BY <1>1, <1>4 DEF DInv, ToldRight
  <1>6. OnTheWay'
    <2> SUFFICES ASSUME NEW k \in 1..Depth', NEW j \in 1..Len(frames'[k].todo), Adds(frames'[k].todo[j])
                 PROVE  InPlace(k, j)'
      BY DEF OnTheWay
    <2>1. Depth' = Depth
      BY <1>1 DEF Depth
    <2>2. k \in 1..Depth /\ j \in 1..Len(frames[k].todo) /\ Adds(frames[k].todo[j])
      BY <1>1, <2>1
    <2>3. InPlace(k, j)
      BY <2>2 DEF DInv, OnTheWay
    <2> QED
      BY <1>1, <2>1, <2>3, Zenon DEF InPlace, SentTo, Adds
  <1>7. NoneForgotten'
    BY <1>1, <1>4 DEF DInv, NoneForgotten, SentTo, Adds, Top, Depth
  <1> QED
    BY <1>1, <1>2, <1>3, <1>5, <1>6, <1>7, ListsStay DEF DInv, Stays, Same

\* The invariant holds in every state: however the calls are nested and whatever
\* throws, entries stay in the lists they were added to and none is lost.
THEOREM DeferredsInvariant == Spec => []DInv
  <1>1. Init => DInv
    BY Begun
  <1>2. DInv /\ [Next]_vars => DInv'
    BY DeferredsStep, Unchanging
  <1> QED
    BY <1>1, <1>2, PTL DEF Spec

-------------------------------------------------------------------------------
(* The outcome of the deferreds, and the contract. *)

Outcomes == [d \in Ids |-> Outcome(d)]

LEMMA OutcomeIs ==
  ASSUME NEW d \in Ids
  PROVE  /\ lists[d][1].fired => Outcome(d) = [how |-> 1, value |-> lists[d][1].data]
         /\ ~lists[d][1].fired /\ lists[d][2].fired => Outcome(d) = [how |-> 2, value |-> lists[d][2].data]
         /\ ~lists[d][1].fired /\ ~lists[d][2].fired => Outcome(d) = [how |-> 0, value |-> 0]
  <1>1. PICK h : h = IF lists[d][1].fired THEN 1 ELSE IF lists[d][2].fired THEN 2 ELSE 0
    OBVIOUS
  <1>2. Outcome(d) = [how |-> h, value |-> IF h = 0 THEN 0 ELSE lists[d][h].data]
    BY <1>1 DEF Outcome
  <1>3. /\ lists[d][1].fired => h = 1
        /\ ~lists[d][1].fired /\ lists[d][2].fired => h = 2
        /\ ~lists[d][1].fired /\ ~lists[d][2].fired => h = 0
    BY <1>1
  <1> QED
    BY <1>2, <1>3

LEMMA OutcomeBecomes ==
  ASSUME NEW d \in Ids
  PROVE  /\ lists'[d][1].fired => Outcome(d)' = [how |-> 1, value |-> lists'[d][1].data]
         /\ ~lists'[d][1].fired /\ lists'[d][2].fired => Outcome(d)' = [how |-> 2, value |-> lists'[d][2].data]
         /\ ~lists'[d][1].fired /\ ~lists'[d][2].fired => Outcome(d)' = [how |-> 0, value |-> 0]
  <1>1. PICK h : h = IF lists'[d][1].fired THEN 1 ELSE IF lists'[d][2].fired THEN 2 ELSE 0
    OBVIOUS
  <1>2. Outcome(d)' = [how |-> h, value |-> IF h = 0 THEN 0 ELSE lists'[d][h].data]
    BY <1>1 DEF Outcome
  <1>3. /\ lists'[d][1].fired => h = 1
        /\ ~lists'[d][1].fired /\ lists'[d][2].fired => h = 2
        /\ ~lists'[d][1].fired /\ ~lists'[d][2].fired => h = 0
    BY <1>1
  <1> QED
    BY <1>2, <1>3

\* The outcome of the list that was fired.
LEMMA OutcomeOf ==
  ASSUME NEW d \in Ids, NEW i \in Sides, lists[d][i].fired, ~lists[d][3 - i].fired
  PROVE  Outcome(d) = [how |-> i, value |-> lists[d][i].data]
  <1>1. CASE i = 1
    BY <1>1, OutcomeIs
  <1>2. CASE i = 2
    BY <1>2, OutcomeIs
  <1> QED
    BY <1>1, <1>2 DEF Sides

LEMMA OutcomeStays ==
  ASSUME NEW d \in Ids, Unmoved(d, 1), Unmoved(d, 2)
  PROVE  Outcome(d)' = Outcome(d)
  <1>1. CASE lists[d][1].fired
    BY <1>1, OutcomeIs, OutcomeBecomes DEF Unmoved
  <1>2. CASE ~lists[d][1].fired /\ lists[d][2].fired
    BY <1>2, OutcomeIs, OutcomeBecomes DEF Unmoved
  <1>3. CASE ~lists[d][1].fired /\ ~lists[d][2].fired
    BY <1>3, OutcomeIs, OutcomeBecomes DEF Unmoved
  <1> QED
    BY <1>1, <1>2, <1>3

LEMMA OutcomesStay == ASSUME AllUnmoved PROVE Outcomes' = Outcomes
  <1>1. \A d \in Ids : Outcome(d)' = Outcome(d)
    <2> SUFFICES ASSUME NEW d \in Ids
                 PROVE  Outcome(d)' = Outcome(d)
      OBVIOUS
    <2>1. Unmoved(d, 1) /\ Unmoved(d, 2)
      BY DEF AllUnmoved, Sides
    <2> QED
      BY <2>1, OutcomeStays
  <1>2. Outcomes' = [d \in Ids |-> Outcome(d)']
    BY DEF Outcomes
  <1> QED
    BY <1>1, <1>2 DEF Outcomes

LEMMA StaysKeeps == ASSUME Stays PROVE UNCHANGED Contract!vars
  <1>1. Outcomes' = Outcomes /\ registered' = registered /\ told' = told
    BY OutcomesStay DEF Stays, Same
  <1> QED
    BY <1>1 DEF Contract!vars, Outcomes

LEMMA SettlesKeeps == ASSUME Settles PROVE Contract!Next
  <1>1. PICK d \in Ids, i \in Sides : SettlesAs(d, i)
    BY DEF Settles, OneSettles
  <1>2. PICK v \in Vals : v = lists'[d][i].data
    BY <1>1 DEF SettlesAs
  <1>3. /\ ~lists[d][1].fired /\ ~lists[d][2].fired
    BY <1>1 DEF SettlesAs, Sides
  <1>4. Outcome(d) = [how |-> 0, value |-> 0]
    BY <1>3, OutcomeIs
  <1>5. Outcome(d)' = [how |-> i, value |-> v]
    <2>1. lists'[d][i].fired /\ ~lists'[d][3 - i].fired
      <3>1. lists'[d][i].fired /\ ~lists[d][3 - i].fired /\ 3 - i \in Sides /\ 3 - i # i
        BY <1>1 DEF SettlesAs, Sides
      <3>2. Unmoved(d, 3 - i)
        BY <1>1, <3>1 DEF SettlesAs
      <3> QED
        BY <3>1, <3>2 DEF Unmoved
    <2>2. CASE i = 1
      BY <1>2, <2>1, <2>2, OutcomeBecomes
    <2>3. CASE i = 2
      BY <1>2, <2>1, <2>3, OutcomeBecomes
    <2> QED
      BY <2>2, <2>3 DEF Sides
  <1>6. \A e \in Ids : e # d => Outcome(e)' = Outcome(e)
    <2> SUFFICES ASSUME NEW e \in Ids, e # d
                 PROVE  Outcome(e)' = Outcome(e)
      OBVIOUS
    <2>1. Unmoved(e, 1) /\ Unmoved(e, 2)
      BY <1>1 DEF SettlesAs, Sides
    <2> QED
      BY <2>1, OutcomeStays
  <1>7. Outcomes' = [Outcomes EXCEPT ![d] = [how |-> i, value |-> v]]
    <2>1. Outcomes' = [e \in Ids |-> Outcome(e)']
      BY DEF Outcomes
    <2> QED
      BY <1>5, <1>6, <2>1 DEF Outcomes
  <1>8. Outcomes[d] = Contract!Pending
    BY <1>4 DEF Outcomes, Contract!Pending
  <1>9. registered' = registered /\ told' = told
    BY DEF Settles, Same
  <1>10. Contract!Settle(d, i, v)
    BY <1>7, <1>8, <1>9 DEF Contract!Settle, Outcomes
  <1>11. i \in Contract!Outcomes /\ v \in 1..MaxCalls + 1
    BY DEF Contract!Outcomes, Sides, Vals
  <1> QED
    BY <1>10, <1>11 DEF Contract!Next

LEMMA JoinsKeeps == ASSUME Joins PROVE Contract!Next
  <1>1. PICK d \in Ids, hows \in SUBSET {1, 2} :
           registered' = Append(registered, [of |-> d, hows |-> hows]) /\ told' = Append(told, 0)
    BY DEF Joins
  <1>2. Outcomes' = Outcomes
    BY ListsStay, OutcomesStay DEF Joins
  <1>3. Contract!Register(d, hows)
    BY <1>1, <1>2 DEF Contract!Register, Outcomes
  <1>4. hows \in SUBSET Contract!Outcomes
    BY DEF Contract!Outcomes
  <1> QED
    BY <1>3, <1>4 DEF Contract!Next

LEMMA TellsKeeps == ASSUME DInv, Tells PROVE Contract!Next
  <1>1. /\ registered' = registered
        /\ Outcomes' = Outcomes
    BY ListsStay, OutcomesStay DEF Tells
  <1>2. PICK n \in 1..Len(registered), i \in Sides : \E d \in Ids :
          /\ registered[n].of = d /\ i \in registered[n].hows /\ lists[d][i].fired /\ ~lists[d][3 - i].fired
          /\ told[n] = 0 /\ told' = [told EXCEPT ![n] = lists[d][i].data]
          /\ \A g \in 1..n - 1 : registered[g].of = d /\ i \in registered[g].hows => told[g] # 0
    BY DEF Tells
  <1>3. PICK d \in Ids :
          /\ registered[n].of = d /\ i \in registered[n].hows /\ lists[d][i].fired /\ ~lists[d][3 - i].fired
          /\ told[n] = 0 /\ told' = [told EXCEPT ![n] = lists[d][i].data]
          /\ \A g \in 1..n - 1 : registered[g].of = d /\ i \in registered[g].hows => told[g] # 0
    BY <1>2
  <1>4. Outcomes[d] = [how |-> i, value |-> lists[d][i].data]
    BY <1>3, OutcomeOf DEF Outcomes
  <1>5. Outcomes[d].how = i /\ Outcomes[d].value = lists[d][i].data
    BY <1>4
  <1>6. \A g : registered[g].of = d => (Contract!Due(g) <=> i \in registered[g].hows)
    BY <1>5 DEF Contract!Due, Outcomes
  <1>7. Contract!Due(n)
    BY <1>3, <1>6
  <1>8. \A g \in 1..n - 1 : registered[g].of = registered[n].of /\ Contract!Due(g) => told[g] # 0
    BY <1>3, <1>6
  <1>9. told' = [told EXCEPT ![n] = Outcomes[registered[n].of].value]
    BY <1>3, <1>5
  <1>10. Contract!Call(n)
    BY <1>1, <1>3, <1>7, <1>8, <1>9 DEF Contract!Call, Outcomes
  <1>11. n \in DOMAIN registered
    <2>1. registered \in Seq(Registering)
      BY DEF DInv, Structure, Types, Counts
    <2> QED
      BY <2>1
  <1> QED
    BY <1>10, <1>11 DEF Contract!Next

LEMMA ContractBegins == ASSUME Init PROVE Contract!Init
  <1>1. lists = [d \in Ids |-> NewDeferred(d)] /\ registered = <<>> /\ told = <<>>
    BY DEF Init
  <1>2. \A d \in Ids : Outcome(d) = [how |-> 0, value |-> 0]
    <2> SUFFICES ASSUME NEW d \in Ids
                 PROVE  Outcome(d) = [how |-> 0, value |-> 0]
      OBVIOUS
    <2>1. 1 \in Lists /\ 2 \in Lists
      BY DEF Lists
    <2>2. lists[d][1] = NewDeferred(d)[1] /\ lists[d][2] = NewDeferred(d)[2]
      BY <1>1
    <2>3. ~lists[d][1].fired /\ ~lists[d][2].fired
      BY <2>1, <2>2, NewListsAre
    <2> QED
      BY <2>3, OutcomeIs
  <1> QED
    BY <1>1, <1>2 DEF Contract!Init, Contract!Pending

LEMMA MovesKeep == ASSUME DInv, Moves PROVE Contract!Next \/ UNCHANGED Contract!vars
  BY StaysKeeps, SettlesKeeps, JoinsKeeps, TellsKeeps DEF Moves

\* However resolve, reject, add and then are called from inside one another, and
\* whatever throws, each deferred is settled once and each handler hears of that
\* settlement once at most, in the order they were registered: deferreds implement
\* what Promises promises (Deferred, Callbacks.add).
THEOREM DeferredsKeepTheirPromise == Spec => KeepsPromise
  <1>1. Init => Contract!Init
    BY ContractBegins
  <1>2. DInv /\ [Next]_vars => [Contract!Next]_Contract!vars
    <2>1. ASSUME DInv, Next
          PROVE  Contract!Next \/ UNCHANGED Contract!vars
      BY <2>1, DeferredsStep, MovesKeep
    <2>2. ASSUME DInv, UNCHANGED vars
          PROVE  UNCHANGED Contract!vars
      BY <2>2, Unchanging, StaysKeeps
    <2> QED
      BY <2>1, <2>2
  <1> QED
    BY <1>1, <1>2, DeferredsInvariant, PTL DEF Spec, KeepsPromise, Contract!Spec

-------------------------------------------------------------------------------
(* Nobody is forgotten: unless a function threw, a list is in the middle of a    *)
(* round only while a frame of the stack is at it.                               *)

Attended == \A d \in Ids, i \in Lists : lists[d][i].firing => Alive(d, i)
Unstuck == ~broken => Attended

LEMMA OwnersStay ==
  ASSUME Types, NEW f, f.d = Top.d, f.i = Top.i, frames' = WithTop(f)
  PROVE  \A d, i : Alive(d, i)' <=> Alive(d, i)
  <1>1. frames \in Seq(Frames) /\ Depth \in 1..Depth /\ Depth = Len(frames) /\ Top = frames[Depth]
    BY StackIs DEF Types, Depth, Top
  <1>2. /\ frames' \in Seq(Frames \cup {f}) /\ Depth' = Depth /\ frames'[Depth] = f
        /\ \A k \in 1..Depth : k # Depth => frames'[k] = frames[k]
    <2>1. frames' = [frames EXCEPT ![Depth] = f]
      BY DEF WithTop
    <2>2. Len(frames') = Len(frames) /\ \A k \in 1..Depth : frames'[k] = IF k = Depth THEN f ELSE frames[k]
      BY <1>1, <2>1
    <2>3. frames' \in Seq(Frames \cup {f})
      BY <1>1, <2>1
    <2> QED
      BY <1>1, <2>2, <2>3 DEF Depth
  <1>3. \A k \in 1..Depth : frames'[k].d = frames[k].d /\ frames'[k].i = frames[k].i
    BY <1>1, <1>2
  <1> QED
    BY <1>1, <1>2, <1>3 DEF Alive

\* Code goes on in its frame, and no list has changed.
LEMMA StillAttended ==
  ASSUME Types, Attended, lists' = lists, NEW f, f.d = Top.d, f.i = Top.i, frames' = WithTop(f)
  PROVE  Attended'
  BY OwnersStay DEF Attended

LEMMA TopEdits ==
  ASSUME Types, NEW in, NEW user, NEW todo
  PROVE  /\ [Top EXCEPT !.todo = todo].d = Top.d /\ [Top EXCEPT !.todo = todo].i = Top.i
         /\ [Top EXCEPT !.in = in, !.user = user].d = Top.d /\ [Top EXCEPT !.in = in, !.user = user].i = Top.i
         /\ [Top EXCEPT !.in = in, !.todo = todo].d = Top.d /\ [Top EXCEPT !.in = in, !.todo = todo].i = Top.i
         /\ [Top EXCEPT !.user = user, !.todo = todo].d = Top.d /\ [Top EXCEPT !.user = user, !.todo = todo].i = Top.i
  <1>1. Top \in Frames
    BY StackIs
  <1> QED
    BY <1>1 DEF Frames

LEMMA ProgramAttends ==
  ASSUME Types, Attended, lists' = lists, NEW ops, Program(ops)
  PROVE  Attended'
  <1>1. PICK f : f = [Top EXCEPT !.todo = ops]
    OBVIOUS
  <1>2. f.d = Top.d /\ f.i = Top.i
    BY <1>1, TopEdits
  <1> QED
    BY <1>1, <1>2, StillAttended DEF Program

LEMMA DoAttends == ASSUME Structure, Attended, Do PROVE Attended'
  <1>1. PICK f \in Frames, d \in Ids, i \in Lists :
           /\ f.d = Top.d /\ f.i = Top.i /\ f.in /\ f.todo = Tail(Top.todo)
           /\ Stored(Head(Top.todo), d, i) /\ GoesOn(f, d, i)
    BY DoIs
  <1>2. Types /\ Top.in
    BY DEF Structure, Do
  <1>3. /\ Starts(d, i) => Alive(d, i)'
        /\ \A e \in Ids, j \in Lists : e # d \/ j # i \/ ~Starts(d, i) => (Alive(e, j)' <=> Alive(e, j))
    BY <1>1, <1>2, StackAfter
  <1>4. \A e \in Ids, j \in Lists : e # d \/ j # i => lists'[e][j] = lists[e][j]
    BY <1>1 DEF Stored
  <1> QED
    BY <1>3, <1>4 DEF Attended, Starts

LEMMA InternalAttends == ASSUME Structure, Attended, CallInternal PROVE Attended'
  <1>1. PICK d : d = Top.d
    OBVIOUS
  <1>2. PICK i : i = Top.i
    OBVIOUS
  <1>3. \A e \in Ids, j \in Lists : e # d \/ j # i => (lists'[e][j].firing => lists[e][j].firing)
    BY <1>1, <1>2, InternalIs
  <1>4. \A e \in Ids, j \in Lists : Alive(e, j)' <=> Alive(e, j)
    BY DEF CallInternal, Alive, Depth
  <1>5. Alive(d, i)
    <2>1. Depth > 1
      BY LoopIs DEF CallInternal
    <2> QED
      BY <1>1, <1>2, <2>1, OwnView
  <1> QED
    BY <1>3, <1>4, <1>5 DEF Attended

LEMMA ReturnAttends == ASSUME Structure, Attended, Return PROVE Attended'
  <1>1. /\ Depth > 1 /\ Top.in
        /\ lists' = Put(lists, Top.d, Top.i, Advance(lists[Top.d][Top.i]))
        /\ frames' = WithTop([Top EXCEPT !.in = FALSE, !.user = FALSE])
    BY DEF Return, Put
  <1>2. PICK f : f = [Top EXCEPT !.in = FALSE, !.user = FALSE]
    OBVIOUS
  <1>3. f.d = Top.d /\ f.i = Top.i
    BY <1>2, TopEdits DEF Structure
  <1>4. \A e \in Ids, j \in Lists : Alive(e, j)' <=> Alive(e, j)
    BY <1>1, <1>2, <1>3, OwnersStay DEF Structure
  <1>5. Top.d \in Ids /\ Top.i \in Lists /\ Alive(Top.d, Top.i)
    BY <1>1, RunningIs, OwnView
  <1>6. \A e \in Ids, j \in Lists : e # Top.d \/ j # Top.i => lists'[e][j] = lists[e][j]
    BY <1>1, <1>5, Replaced DEF Structure, ListsOK, AllOK
  <1> QED
    BY <1>4, <1>5, <1>6 DEF Attended

LEMMA EndAttends == ASSUME Structure, Attended, EndRound PROVE Attended'
  <1>1. PICK y : y = End(List, Options(Top.i))
    OBVIOUS
  <1>2. /\ Looping /\ lists' = Put(lists, Top.d, Top.i, y)
        /\ frames' = IF y.firing THEN frames ELSE SubSeq(frames, 1, Depth - 1)
    BY <1>1 DEF EndRound, Put
  <1>3. Depth > 1 /\ Top.d \in Ids /\ Top.i \in Lists
    BY <1>2, LoopIs
  <1>4. /\ lists'[Top.d][Top.i] = y
        /\ \A e \in Ids, j \in Lists : e # Top.d \/ j # Top.i => lists'[e][j] = lists[e][j]
    BY <1>2, <1>3, Replaced DEF Structure, ListsOK, AllOK
  <1>5. CASE y.firing
    <2>1. \A e \in Ids, j \in Lists : Alive(e, j)' <=> Alive(e, j)
      BY <1>2, <1>5 DEF Alive, Depth
    <2>2. Alive(Top.d, Top.i)
      BY <1>3, OwnView
    <2> QED
      BY <1>3, <1>4, <2>1, <2>2 DEF Attended
  <1>6. CASE ~y.firing
    <2>1. \A e \in Ids, j \in Lists : e # Top.d \/ j # Top.i => (Alive(e, j)' <=> Alive(e, j))
      BY <1>2, <1>3, <1>6, PopView DEF Structure
    <2> QED
      BY <1>4, <1>6, <2>1 DEF Attended
  <1> QED
    BY <1>5, <1>6

LEMMA UnstuckStep ==
  ASSUME DInv, Unstuck, [Next]_vars
  PROVE  Unstuck'
  <1> SUFFICES ASSUME ~broken'
               PROVE  Attended'
    BY DEF Unstuck
  <1>1. Structure /\ Types
    BY DEF DInv, Structure
  <1>2. ~Throw
    BY DEF Throw
  <1>3. broken' = broken
    BY <1>2, ZenonT(30) DEF Next, Library, New, Register, Fire, Then, When, Do, CallInternal, CallFunction, CallForward,
                EndRound, Return, ReturnValue, ReturnPromise, Rest, vars, history
  <1>4. Attended
    BY <1>3 DEF Unstuck
  <1>5. CASE UNCHANGED <<lists, frames>>
    BY <1>4, <1>5 DEF Attended, Alive, Depth
  <1>6. ASSUME NEW d \in Made, NEW hows \in (SUBSET {1, 2}) \ {{}}, Register(d, hows)
        PROVE  Attended'
    <2>1. lists' = lists
      BY <1>6 DEF Register
    <2>2. PICK ops : Program(ops)
      BY <1>6 DEF Register
    <2> QED
      BY <1>1, <1>4, <2>1, <2>2, ProgramAttends
  <1>7. ASSUME NEW d \in Plain, NEW i \in Lists, Fire(d, i)
        PROVE  Attended'
    BY <1>1, <1>4, <1>7, ProgramAttends DEF Fire
  <1>8. ASSUME NEW p \in Made, NEW fns \in FunctionsGiven, Then(p, fns)
        PROVE  Attended'
    BY <1>1, <1>4, <1>8, ProgramAttends DEF Then
  <1>9. ASSUME NEW a \in Made \cup {Page}, NEW b \in Made \cup {Page}, When(a, b)
        PROVE  Attended'
    <2>1. lists' = lists
      BY <1>9 DEF When
    <2>2. PICK ops : Program(ops)
      BY <1>9 DEF When
    <2> QED
      BY <1>1, <1>4, <2>1, <2>2, ProgramAttends
  <1>10. CASE CallFunction
    <2>1. PICK f : f = [Top EXCEPT !.in = TRUE, !.user = TRUE]
      OBVIOUS
    <2>2. f.d = Top.d /\ f.i = Top.i
      BY <1>1, <2>1, TopEdits
    <2>3. frames' = WithTop(f) /\ lists' = lists
      BY <1>10, <2>1 DEF CallFunction
    <2> QED
      BY <1>1, <1>4, <2>2, <2>3, StillAttended
  <1>11. CASE CallForward
    <2>1. PICK ops : frames' = WithTop([Top EXCEPT !.in = TRUE, !.todo = ops])
      BY <1>11, Zenon DEF CallForward
    <2>2. PICK f : f = [Top EXCEPT !.in = TRUE, !.todo = ops]
      OBVIOUS
    <2>3. f.d = Top.d /\ f.i = Top.i
      BY <1>1, <2>2, TopEdits
    <2>4. frames' = WithTop(f) /\ lists' = lists
      BY <1>11, <2>1, <2>2 DEF CallForward
    <2> QED
      BY <1>1, <1>4, <2>3, <2>4, StillAttended
  <1>12. ASSUME NEW ops, frames' = WithTop([Top EXCEPT !.user = FALSE, !.todo = ops]), lists' = lists
         PROVE  Attended'
    <2>1. PICK f : f = [Top EXCEPT !.user = FALSE, !.todo = ops]
      OBVIOUS
    <2>2. f.d = Top.d /\ f.i = Top.i
      BY <1>1, <2>1, TopEdits
    <2>3. frames' = WithTop(f)
      BY <1>12, <2>1
    <2> QED
      BY <1>1, <1>4, <1>12, <2>2, <2>3, StillAttended
  <1>13. CASE ReturnValue
    BY <1>12, <1>13, Zenon DEF ReturnValue
  <1>14. ASSUME NEW r \in Made, ReturnPromise(r)
         PROVE  Attended'
    <2>1. PICK ops : frames' = WithTop([Top EXCEPT !.user = FALSE, !.todo = ops])
      BY <1>14, Zenon DEF ReturnPromise
    <2>2. lists' = lists
      BY <1>14 DEF ReturnPromise
    <2> QED
      BY <1>12, <2>1, <2>2, Zenon
  <1>15. New \/ Rest \/ UNCHANGED vars => UNCHANGED <<lists, frames>>
    BY DEF New, Rest, vars
  <1> QED
    BY <1>1, <1>2, <1>4, <1>5, <1>6, <1>7, <1>8, <1>9, <1>10, <1>11, <1>13, <1>14, <1>15,
       DoAttends, InternalAttends, ReturnAttends, EndAttends DEF Next, Library

LEMMA UnstuckAtFirst == ASSUME Init PROVE Unstuck
  <1>1. \A d \in Ids, i \in Lists : lists[d][i] = NewDeferred(d)[i]
    BY DEF Init
  <1>2. \A d \in Ids, i \in Lists : ~lists[d][i].firing
    BY <1>1, NewListsAre
  <1> QED
    BY <1>2 DEF Unstuck, Attended

\* A list at rest has called its entries, so whoever was registered for it was told.
LEMMA AllHeard == ASSUME DInv, Unstuck PROVE EveryoneHears
  <1> SUFFICES ASSUME Depth = 1, Top.todo = <<>>, Attended, NEW n \in DOMAIN registered, Contract!Due(n)
               PROVE  told[n] # 0
    BY DEF EveryoneHears, AtRest, Unstuck
  <1>1. /\ Structure /\ ListsOK /\ NoneForgotten
        /\ registered \in Seq(Registering)
    BY DEF DInv, Structure, Types, Counts
  <1>2. n \in 1..Len(registered) /\ registered[n] \in Registering
    BY <1>1
  <1>3. PICK d \in Ids : d = registered[n].of
    BY <1>2 DEF Registering
  <1>4. Outcome(d).how \in registered[n].hows /\ registered[n].hows \subseteq Sides
    BY <1>2, <1>3 DEF Contract!Due, Registering
  <1>5. PICK i \in Sides : i = Outcome(d).how /\ i \in registered[n].hows
    BY <1>4
  <1>6. lists[d][i].fired
    <2>1. CASE lists[d][1].fired
      <3>1. Outcome(d).how = 1
        BY <2>1, OutcomeIs
      <3> QED
        BY <1>5, <2>1, <3>1
    <2>2. CASE ~lists[d][1].fired /\ lists[d][2].fired
      <3>1. Outcome(d).how = 2
        BY <2>2, OutcomeIs
      <3> QED
        BY <1>5, <2>2, <3>1
    <2>3. CASE ~lists[d][1].fired /\ ~lists[d][2].fired
      <3>1. Outcome(d).how = 0
        BY <2>3, OutcomeIs
      <3> QED
        BY <1>5, <3>1 DEF Sides
    <2> QED
      BY <2>1, <2>2, <2>3
  <1>7. i \in Lists /\ Settling(lists[d][i]) /\ ~lists[d][i].disabled
    BY <1>1, <1>6, SideIs
  <1>8. ~Alive(d, i)
    BY DEF Alive
  <1>9. ~lists[d][i].firing
    BY <1>7, <1>8 DEF Attended
  <1>10. Open(d, i)
    BY <1>7, <1>9 DEF Open
  <1>11. Ahead(d, i) = {}
    <2>1. lists[d][i].list = <<>>
      BY <1>6, <1>7, <1>9 DEF Settling
    <2>2. NextOf(d, i) = 1
      BY <1>9 DEF NextOf
    <2>3. From(<<>>, 1) = {}
      <3>1. PICK s \in Seq(Item) : s = <<>>
        BY NoEntries
      <3>2. 1 > Len(s) /\ 1 \in Nat
        BY <3>1, NoEntries
      <3>3. From(s, 1) = {}
        BY <3>2, FromPast
      <3> QED
        BY <3>1, <3>3
    <2> QED
      BY <2>1, <2>2, <2>3 DEF Ahead
  <1>12. Len(Top.todo) = 0
    BY NoEntries
  <1> QED
    BY <1>1, <1>2, <1>3, <1>5, <1>10, <1>11, <1>12 DEF NoneForgotten

\* At rest, unless a function threw, every handler registered for what became of its
\* deferred was called: none is lost, whenever and from wherever it was registered.
THEOREM AllHandlersHear == Spec => []EveryoneHears
  <1>1. Init => DInv /\ Unstuck
    BY Begun, UnstuckAtFirst
  <1>2. DInv /\ Unstuck /\ [Next]_vars => DInv' /\ Unstuck'
    BY DeferredsStep, Unchanging, UnstuckStep
  <1>3. DInv /\ Unstuck => EveryoneHears
    BY AllHeard
  <1> QED
    BY <1>1, <1>2, <1>3, PTL DEF Spec

===============================================================================
